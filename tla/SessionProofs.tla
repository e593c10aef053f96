---------------------------- MODULE SessionProofs ---------------------------
(***************************************************************************)
(* Theorems about what a session of `forge-sim dev` keeps beside its       *)
(* simulator, for any number of runs, processes, versions and items.       *)
(*                                                                         *)
(* State: that files mirror memory after an undisturbed save is not        *)
(* inductive: SaveInv says what is already true in the middle of one.  The *)
(* files before the one that the save is about to write hold what memory   *)
(* holds, what the dump has read and has yet to read is all that there is, *)
(* and a save that is undisturbed is the only one of its instance.         *)
(*                                                                         *)
(* Renderers: that a server is handed a whole tree rests on what is true   *)
(* before it is.  A directory of a version is absent or whole unless some  *)
(* other version's housekeeping was there (TargetHolds), the temporary one *)
(* that is about to be renamed is whole (TmpHolds), and nobody else writes *)
(* it: running processes differ in their ids (OnePidOnce), and it is young *)
(* (Young).                                                                *)
(*                                                                         *)
(* Types: what is shown rests on what the lines that tsc has printed and   *)
(* nobody has read yet will say (CycleFrom), and on the diagnostics that   *)
(* are kept aside of a report that was read in part.                       *)
(***************************************************************************)
EXTENDS Session, SequenceFacts, TLAPS

-----------------------------------------------------------------------------
(* What is saved *)


(* TypeOK by the variables it speaks about. *)
FileType == file \in [Parts -> {NoFile, Torn} \cup Contents]
MemType == mem \in [Instances -> [Parts -> Contents]]
SaveType ==
    /\ saver \in [Instances -> [Savers -> {"idle", "entities", "objects", "dumping"}]]
    /\ todo \in [Instances -> [Savers -> Contents]]
    /\ got \in [Instances -> [Savers -> Contents]]
RunType ==
    /\ pc \in [Instances -> Stages]
    /\ sql \in [Instances -> {"off", "on", "broken"}]
    /\ init \in [Instances -> BOOLEAN]
    /\ clean \in SUBSET Instances
    /\ newest \in Instances \cup {NoInstance}
    /\ lock \in Instances \cup {NoInstance}
    /\ changes \in 0..MaxChanges
NoteType ==
    /\ mirror \in [Instances -> BOOLEAN]
    /\ expect \in [Parts -> {Unknown} \cup Contents]

Types == FileType /\ MemType /\ SaveType /\ RunType /\ NoteType

Idle(i) == \A s \in Savers : saver[i][s] = "idle"

(* The file of part p holds what memory holds, unless that is nothing. *)
Saved(i, p) == mem[i][p] # {} => file[p] = mem[i][p]

(* Where an instance is when it may save, or has. *)
Up(i) == pc[i] \in {"up", "exiting", "releasing", "closing"}

SavesOnlyUp(i) ==
    /\ mirror[i] \/ ~Idle(i) => Up(i)
    /\ pc[i] = "up" => saver[i]["exit"] = "idle"

Unborn(i) == i > newest => pc[i] = "off"

DumpNoted(i) == init[i] => file["sql"] # NoFile

SqlOnly(i) == sql[i] # "on" => mem[i]["sql"] = {}

DumpOnly(i) ==
    \A s \in Savers :
       /\ saver[i][s] # "dumping" => got[i][s] = {}
       /\ saver[i][s] = "dumping" => sql[i] = "on"

OneSaver(i) == \A s, t \in Savers : saver[i][s] # "idle" /\ saver[i][t] # "idle" => s = t

SavedAll(i) == Saved(i, "entities") /\ Saved(i, "objects") /\ (sql[i] = "on" => Saved(i, "sql"))

SavedSoFar(i, s) ==
    /\ saver[i][s] = "objects" => Saved(i, "entities")
    /\ saver[i][s] = "dumping" => /\ Saved(i, "entities") /\ Saved(i, "objects")
                                  /\ todo[i][s] \cup got[i][s] = mem[i]["sql"]

MirrorSoFar(i) ==
    mirror[i] => /\ OneSaver(i)
                 /\ Idle(i) => SavedAll(i)
                 /\ \A s \in Savers : SavedSoFar(i, s)

SaveOK(i) ==
    /\ SavesOnlyUp(i) /\ Unborn(i) /\ DumpNoted(i) /\ SqlOnly(i)
    /\ DumpOnly(i) /\ MirrorSoFar(i)

SaveInv == Types /\ \A i \in Instances : SaveOK(i)

-----------------------------------------------------------------------------
(* Types *)

(* The types by variable are those of TypeOK. *)
LEMMA TypesHold == Types => TypeOK
<1>1. \A c \in Contents : c # NoFile
  BY PersistenceAssumption
<1>. QED
  BY <1>1 DEF Types, TypeOK, FileType, MemType, SaveType, RunType, NoteType

(* The variables start with their types. *)
LEMMA InitType == Init => Types
<1>. SUFFICES ASSUME Init PROVE Types
  OBVIOUS
<1>1. FileType /\ MemType
  BY DEF Init, FileType, MemType, Contents
<1>2. SaveType
  BY DEF Init, SaveType, Contents
<1>3. RunType
  BY PersistenceAssumption DEF Init, RunType, Stages
<1>4. NoteType
  BY DEF Init, NoteType
<1>. QED
  BY <1>1, <1>2, <1>3, <1>4 DEF Types

(* The end of a process. *)
LEMMA GoneType ==
  ASSUME Types, NEW i \in Instances, Gone(i), UNCHANGED <<lock, newest, changes>>,
         FileType', NoteType'
  PROVE  Types'
<1>1. MemType'
  BY DEF Gone, MemType, Contents, Types
<1>2. SaveType'
  BY DEF Gone, SaveType, Contents, Types
<1>3. RunType'
  BY DEF Gone, RunType, Stages, Types
<1>. QED
  BY <1>1, <1>2, <1>3 DEF Types

(* The boot of an instance keeps the types. *)
LEMMA StartType ==
  ASSUME Types, NEW i \in Instances, Start(i)
  PROVE  Types'
<1>. FileType /\ MemType /\ SaveType /\ RunType /\ NoteType
  BY DEF Types
<1>1. CASE Claim(i)
  <2>1. FileType' /\ MemType' /\ SaveType'
    BY <1>1 DEF Claim, FileType, MemType, SaveType, saveVars
  <2>2. RunType'
    BY <1>1 DEF Claim, Claimed, RunType, Stages, saveVars
  <2>3. NoteType'
    BY <1>1 DEF Claim, NoteType, NothingExpected
  <2>. QED
    BY <2>1, <2>2, <2>3 DEF Types
<1>2. CASE Bail(i)
  <2>1. FileType' /\ NoteType'
    BY <1>2 DEF Bail, FileType, NoteType
  <2>. QED
    BY <1>2, <2>1, GoneType DEF Bail
<1>3. CASE ConfigureSql(i) \/ Deployed(i)
  <2>1. FileType' /\ MemType' /\ SaveType' /\ NoteType'
    BY <1>3 DEF ConfigureSql, Deployed, FileType, MemType, SaveType, NoteType, saveVars
  <2>2. RunType'
    BY <1>3 DEF ConfigureSql, Deployed, RunType, Stages, NotesDump, saveVars
  <2>. QED
    BY <2>1, <2>2 DEF Types
<1>4. CASE LoadEntities(i) \/ LoadObjects(i)
  <2>1. FileType' /\ SaveType' /\ NoteType'
    BY <1>4 DEF LoadEntities, LoadObjects, FileType, SaveType, NoteType, saveVars
  <2>2. RunType'
    BY <1>4 DEF LoadEntities, LoadObjects, RunType, Stages, saveVars
  <2>3. \A p \in Parts : Restored(i, p) \in Contents
    BY DEF Restored, FileType, MemType, Contents
  <2>4. MemType'
    BY <1>4, <2>3 DEF LoadEntities, LoadObjects, MemType, Parts
  <2>. QED
    BY <2>1, <2>2, <2>4 DEF Types
<1>. QED
  BY <1>1, <1>2, <1>3, <1>4 DEF Start

(* What the app does keeps the types; a dump that was noted is still there. *)
LEMMA AppType ==
  ASSUME Types, NEW i \in Instances, DumpNoted(i),
         SqlStarts(i) \/ \E p \in Parts, x \in Items : Change(i, p, x)
  PROVE  Types'
<1>. FileType /\ MemType /\ SaveType /\ RunType /\ NoteType
  BY DEF Types
<1>1. CASE SqlStarts(i)
  <2>1. FileType' /\ SaveType' /\ RunType' /\ NoteType'
    BY <1>1 DEF SqlStarts, FileType, SaveType, RunType, NoteType, saveVars
  <2>2. mem' = mem \/ \E some \in Contents : mem' = [mem EXCEPT ![i]["sql"] = some]
    BY <1>1 DEF SqlStarts, DumpNoted, FileType, Parts
  <2>3. MemType'
    BY <2>2 DEF MemType, Parts
  <2>. QED
    BY <2>1, <2>3 DEF Types
<1>2. ASSUME NEW p \in Parts, NEW x \in Items, Change(i, p, x)
      PROVE  Types'
  <2>1. FileType' /\ SaveType' /\ RunType' /\ NoteType'
    BY <1>2, PersistenceAssumption
       DEF Change, FileType, SaveType, RunType, NoteType, saveVars, NothingExpected
  <2>2. mem' = [mem EXCEPT ![i][p] = @ \cup {x}] \/ mem' = [mem EXCEPT ![i][p] = @ \ {x}]
    BY <1>2 DEF Change
  <2>3. mem[i][p] \cup {x} \in Contents /\ mem[i][p] \ {x} \in Contents
    BY DEF MemType, Contents
  <2>4. \E some \in Contents : mem' = [mem EXCEPT ![i][p] = some]
    BY <2>2, <2>3
  <2>5. MemType'
    BY <2>4 DEF MemType
  <2>. QED
    BY <2>1, <2>5 DEF Types
<1>. QED
  BY <1>1, <1>2

(* A part is written, or not. *)
LEMMA WriteType ==
  ASSUME FileType, NoteType, NEW i \in Instances, NEW p \in Parts, NEW content \in Contents,
         Write(i, p, content), expect' = expect
  PROVE  /\ FileType' /\ NoteType'
         /\ \A q \in Parts : file[q] # NoFile => file'[q] # NoFile
         /\ mirror'[i] => mirror[i] /\ file' = [file EXCEPT ![p] = Written(p, content)]
         /\ \A j \in Instances \ {i} : mirror'[j] => mirror[j] /\ file' = file
<1>1. \E f \in {NoFile, Torn} \cup Contents :
         file' = [file EXCEPT ![p] = f] /\ (file[p] # NoFile => f # NoFile)
  <2>1. \A c \in Contents : c # NoFile
    BY PersistenceAssumption
  <2>. QED
    BY <2>1, PersistenceAssumption DEF Write, Written, FileType
<1>2. FileType' /\ \A q \in Parts : file[q] # NoFile => file'[q] # NoFile
  BY <1>1 DEF FileType
<1>3. NoteType'
  BY DEF Write, NoteType
<1>4. mirror'[i] => mirror[i] /\ file' = [file EXCEPT ![p] = Written(p, content)]
  BY DEF Write
<1>5. ASSUME NEW j \in Instances \ {i}, mirror'[j]
      PROVE  mirror[j] /\ file' = file
  <2>1. mirror[j] /\ content = {} /\ file' = [file EXCEPT ![p] = file[p]]
    BY <1>5 DEF Write, Written
  <2>. QED
    BY <2>1 DEF FileType
<1>. QED
  BY <1>2, <1>3, <1>4, <1>5

(* Every step of a save keeps the types. *)
LEMMA SaveStepType ==
  ASSUME Types, NEW i \in Instances, NEW s \in Savers, SaveStep(i, s)
  PROVE  Types'
<1>. FileType /\ MemType /\ SaveType /\ RunType /\ NoteType
  BY DEF Types
<1>1. /\ "entities" \in Parts /\ "objects" \in Parts /\ "sql" \in Parts
      /\ \A p \in Parts : mem[i][p] \in Contents
      /\ todo[i][s] \in Contents /\ got[i][s] \in Contents /\ {} \in Contents
  BY DEF Parts, MemType, SaveType, Contents
<1>2. CASE WriteEntities(i, s)
  <2>1. FileType' /\ NoteType'
    BY <1>1, <1>2, WriteType DEF WriteEntities
  <2>2. MemType' /\ SaveType' /\ RunType'
    BY <1>2 DEF WriteEntities, MemType, SaveType, RunType
  <2>. QED
    BY <2>1, <2>2 DEF Types
<1>3. CASE WriteObjects(i, s)
  <2>1. FileType' /\ NoteType'
    BY <1>1, <1>3, WriteType DEF WriteObjects
  <2>2. MemType' /\ RunType'
    BY <1>3 DEF WriteObjects, MemType, RunType
  <2>3. SaveType'
    BY <1>1, <1>3 DEF WriteObjects, SaveType
  <2>. QED
    BY <2>1, <2>2, <2>3 DEF Types
<1>4. ASSUME NEW x \in Items, DumpTable(i, s, x) PROVE Types'
  <2>1. FileType' /\ NoteType' /\ MemType' /\ RunType'
    BY <1>4 DEF DumpTable, FileType, NoteType, MemType, RunType
  <2>2. todo[i][s] \ {x} \in Contents /\ got[i][s] \cup {x} \in Contents
    BY <1>1 DEF Contents
  <2>3. SaveType'
    BY <1>4, <2>2 DEF DumpTable, SaveType
  <2>. QED
    BY <2>1, <2>3 DEF Types
<1>5. CASE DumpFails(i, s)
  <2>1. FileType' /\ NoteType' /\ MemType' /\ RunType'
    BY <1>5 DEF DumpFails, FileType, NoteType, MemType, RunType
  <2>2. SaveType'
    BY <1>1, <1>5 DEF DumpFails, SaveType
  <2>. QED
    BY <2>1, <2>2 DEF Types
<1>6. CASE WriteSql(i, s)
  <2>1. FileType' /\ NoteType'
    BY <1>1, <1>6, WriteType DEF WriteSql
  <2>2. MemType' /\ RunType'
    BY <1>6 DEF WriteSql, MemType, RunType
  <2>3. SaveType'
    BY <1>1, <1>6 DEF WriteSql, SaveType
  <2>. QED
    BY <2>1, <2>2, <2>3 DEF Types
<1>. QED
  BY <1>2, <1>3, <1>4, <1>5, <1>6 DEF SaveStep

-----------------------------------------------------------------------------
(* Saves *)

InstanceVars(j) == <<pc[j], mem[j], sql[j], init[j], saver[j], todo[j], got[j]>>

(* An instance that a step of another leaves alone. *)
LEMMA Untouched ==
  ASSUME NEW j \in Instances, SaveOK(j), InstanceVars(j)' = InstanceVars(j),
         file["sql"] # NoFile => file'["sql"] # NoFile,
         mirror'[j] => mirror[j] /\ file' = file,
         j > newest' => j > newest
  PROVE  SaveOK(j)'
<1>1. /\ pc'[j] = pc[j] /\ mem'[j] = mem[j] /\ sql'[j] = sql[j] /\ init'[j] = init[j]
      /\ saver'[j] = saver[j] /\ todo'[j] = todo[j] /\ got'[j] = got[j]
  BY DEF InstanceVars
<1>2. Idle(j)' <=> Idle(j)
  BY <1>1 DEF Idle
<1>3. SavesOnlyUp(j)'
  BY <1>1, <1>2 DEF SaveOK, SavesOnlyUp, Up
<1>4. Unborn(j)' /\ DumpNoted(j)' /\ SqlOnly(j)' /\ DumpOnly(j)'
  BY <1>1 DEF SaveOK, Unborn, DumpNoted, SqlOnly, DumpOnly
<1>5. ASSUME mirror'[j]
      PROVE  OneSaver(j)' /\ (Idle(j)' => SavedAll(j)') /\ \A s \in Savers : SavedSoFar(j, s)'
  <2>1. mirror[j] /\ file' = file
    BY <1>5
  <2>2. \A p \in Parts : Saved(j, p)' <=> Saved(j, p)
    BY <1>1, <2>1 DEF Saved
  <2>3. OneSaver(j)'
    BY <1>1, <2>1 DEF SaveOK, MirrorSoFar, OneSaver
  <2>4. Idle(j)' => SavedAll(j)'
    BY <1>1, <1>2, <2>1, <2>2 DEF SaveOK, MirrorSoFar, SavedAll, Parts
  <2>5. \A s \in Savers : SavedSoFar(j, s)'
    BY <1>1, <2>1, <2>2 DEF SaveOK, MirrorSoFar, SavedSoFar, Parts
  <2>. QED
    BY <2>3, <2>4, <2>5
<1>6. MirrorSoFar(j)'
  BY <1>5 DEF MirrorSoFar
<1>. QED
  BY <1>3, <1>4, <1>6 DEF SaveOK

(* No instance runs at first and nothing is saved. *)
LEMMA InitSaves == Init => SaveInv
<1>. SUFFICES ASSUME Init, NEW i \in Instances PROVE SaveOK(i)
  BY InitType DEF SaveInv
<1>1. /\ ~mirror[i] /\ Idle(i) /\ ~init[i] /\ mem[i]["sql"] = {} /\ pc[i] = "off"
  BY DEF Init, Idle, Parts
<1>2. DumpOnly(i)
  BY DEF Init, DumpOnly
<1>. QED
  BY <1>1, <1>2 DEF SaveOK, SavesOnlyUp, Unborn, DumpNoted, SqlOnly, MirrorSoFar

(* A process that has gone leaves nothing to say about it. *)
LEMMA GoneSaves ==
  ASSUME Types, NEW i \in Instances, Gone(i), ~mirror'[i], ~(i > newest')
  PROVE  SaveOK(i)' /\ \A j \in Instances \ {i} : InstanceVars(j)' = InstanceVars(j)
<1>1. ~init'[i] /\ Idle(i)' /\ mem'[i]["sql"] = {} /\ pc'[i] = "gone"
  BY DEF Gone, Types, MemType, SaveType, RunType, Idle, Parts
<1>2. DumpOnly(i)'
  BY DEF Gone, Types, SaveType, DumpOnly
<1>3. SaveOK(i)'
  BY <1>1, <1>2 DEF SaveOK, SavesOnlyUp, Unborn, DumpNoted, SqlOnly, MirrorSoFar
<1>4. \A j \in Instances \ {i} : InstanceVars(j)' = InstanceVars(j)
  BY DEF Gone, InstanceVars, Types, MemType, SaveType, RunType
<1>. QED
  BY <1>3, <1>4

(* A boot disturbs no save: the instance has not saved yet, the files stay. *)
LEMMA StartSaves ==
  ASSUME SaveInv, NEW i \in Instances, Start(i)
  PROVE  SaveInv'
<1>. Types /\ \A j \in Instances : SaveOK(j)
  BY DEF SaveInv
<1>0. MemType /\ SaveType /\ RunType /\ NoteType
  BY DEF Types
<1>1. Types'
  BY StartType
<1>2. file' = file /\ mirror' = mirror
  BY DEF Start, Claim, Bail, ConfigureSql, Deployed, LoadEntities, LoadObjects
<1>3. CASE Bail(i)
  <2>1. ~mirror'[i] /\ newest' = newest /\ ~(i > newest')
    BY <1>2, <1>3 DEF Bail, SaveOK, SavesOnlyUp, Unborn, Up
  <2>2. SaveOK(i)' /\ \A j \in Instances \ {i} : InstanceVars(j)' = InstanceVars(j)
    BY <1>3, <2>1, GoneSaves DEF Bail
  <2>3. \A j \in Instances \ {i} : SaveOK(j)'
    BY <1>2, <2>1, <2>2, Untouched
  <2>. QED
    BY <1>1, <2>2, <2>3 DEF SaveInv
<1>4. CASE Claim(i) \/ ConfigureSql(i) \/ Deployed(i) \/ LoadEntities(i) \/ LoadObjects(i)
  <2>1. saver' = saver /\ todo' = todo /\ got' = got /\ sql' = sql
    BY <1>4 DEF Claim, ConfigureSql, Deployed, LoadEntities, LoadObjects, saveVars
  <2>2. \A j \in Instances \ {i} : /\ pc'[j] = pc[j] /\ mem'[j] = mem[j]
                                   /\ init'[j] = init[j]
    BY <1>0, <1>4 DEF Claim, ConfigureSql, Deployed, LoadEntities, LoadObjects,
                      MemType, RunType, saveVars
  <2>3. \A j \in Instances : j > newest' => j > newest
    <3>1. CASE Claim(i)
      BY <1>0, <3>1, PersistenceAssumption DEF Claim, Instances, RunType, NoInstance
    <3>2. CASE ~Claim(i)
      BY <1>4, <3>2 DEF ConfigureSql, Deployed, LoadEntities, LoadObjects
    <3>. QED
      BY <3>1, <3>2
  <2>4. \A j \in Instances \ {i} : SaveOK(j)'
    BY <1>2, <2>1, <2>2, <2>3, Untouched DEF InstanceVars
  <2>5. SaveOK(i)'
    <3>1. ~mirror'[i] /\ Idle(i)' /\ Unborn(i)'
      <4>1. CASE Claim(i)
        <5>1. i > newest /\ ~(i > newest')
          BY <1>0, <4>1 DEF Claim, Instances, RunType, NoInstance
        <5>2. ~Up(i)
          BY <5>1 DEF SaveOK, Unborn, Up
        <5>3. ~mirror[i] /\ Idle(i)
          BY <5>2 DEF SaveOK, SavesOnlyUp
        <5>. QED
          BY <1>2, <2>1, <5>1, <5>3 DEF Idle, Unborn
      <4>2. CASE ConfigureSql(i) \/ Deployed(i) \/ LoadEntities(i) \/ LoadObjects(i)
        <5>1. ~Up(i) /\ ~(i > newest) /\ newest' = newest
          BY <4>2 DEF ConfigureSql, Deployed, LoadEntities, LoadObjects, Up, SaveOK, Unborn
        <5>2. ~mirror[i] /\ Idle(i)
          BY <5>1 DEF SaveOK, SavesOnlyUp
        <5>. QED
          BY <1>2, <2>1, <5>1, <5>2 DEF Idle, Unborn
      <4>. QED
        BY <1>4, <4>1, <4>2
    <3>2. mem'[i]["sql"] = mem[i]["sql"]
      BY <1>0, <1>4 DEF Claim, ConfigureSql, Deployed, LoadEntities, LoadObjects, MemType, Parts
    <3>3. SqlOnly(i)' /\ DumpOnly(i)'
      BY <2>1, <3>2 DEF SaveOK, SqlOnly, DumpOnly
    <3>4. DumpNoted(i)'
      BY <1>0, <1>2, <1>4 DEF Claim, ConfigureSql, Deployed, LoadEntities, LoadObjects,
                        NotesDump, SaveOK, DumpNoted, RunType
    <3>5. saver'[i]["exit"] = "idle"
      BY <3>1 DEF Idle, Savers
    <3>. QED
      BY <3>1, <3>3, <3>4, <3>5 DEF SaveOK, SavesOnlyUp, MirrorSoFar
  <2>. QED
    BY <1>1, <2>4, <2>5 DEF SaveInv
<1>. QED
  BY <1>3, <1>4 DEF Start

(* A MySQL that starts loads what its file holds, or the save is disturbed. *)
LEMMA SqlStartsSaves ==
  ASSUME SaveInv, NEW i \in Instances, SqlStarts(i)
  PROVE  SaveInv'
<1>. Types /\ \A j \in Instances : SaveOK(j)
  BY DEF SaveInv
<1>1. MemType /\ SaveType /\ RunType /\ NoteType /\ FileType
  BY DEF Types
<1>2. Types'
  BY AppType DEF SaveOK
<1>3. /\ UNCHANGED <<file, lock, pc, init, saver, todo, got, newest>>
      /\ AppRuns(i) /\ sql[i] = "off"
  BY DEF SqlStarts, saveVars
<1>4. \A j \in Instances \ {i} : mem'[j] = mem[j] /\ sql'[j] = sql[j] /\ mirror'[j] = mirror[j]
  BY <1>1 DEF SqlStarts, MemType, RunType, NoteType
<1>5. ASSUME NEW j \in Instances \ {i} PROVE SaveOK(j)'
  BY <1>3, <1>4, Untouched DEF InstanceVars
<1>6. \A p \in {"entities", "objects"} : mem'[i][p] = mem[i][p]
  BY <1>1 DEF SqlStarts, MemType, Parts
<1>7. \A s \in Savers : saver[i][s] = "idle"
  BY <1>1, <1>3 DEF AppRuns, Busy, SaveOK, DumpOnly, SaveType
<1>8. mirror'[i] => mirror[i] /\ (mem'[i]["sql"] = {} \/ mem'[i]["sql"] = file["sql"])
  BY <1>1, <1>3 DEF SqlStarts, MemType, NoteType, Parts, SaveOK, SqlOnly
<1>9. sql'[i] # "on" => mem'[i]["sql"] = {}
  BY <1>1, <1>3 DEF SqlStarts, RunType, SaveOK, SqlOnly
<1>10. SavesOnlyUp(i)' /\ Unborn(i)' /\ DumpNoted(i)' /\ SqlOnly(i)'
  BY <1>3, <1>7, <1>8, <1>9 DEF SaveOK, SavesOnlyUp, Unborn, DumpNoted, SqlOnly, Idle, Up
<1>11. DumpOnly(i)'
  BY <1>3, <1>7 DEF SaveOK, DumpOnly
<1>12. MirrorSoFar(i)'
  <2>. SUFFICES ASSUME mirror'[i]
                PROVE  SavedAll(i)' /\ OneSaver(i)' /\ \A s \in Savers : SavedSoFar(i, s)'
    BY DEF MirrorSoFar
  <2>1. OneSaver(i)' /\ \A s \in Savers : SavedSoFar(i, s)'
    BY <1>3, <1>7 DEF OneSaver, SavedSoFar
  <2>2. SavedAll(i)
    BY <1>7, <1>8 DEF SaveOK, MirrorSoFar, Idle
  <2>3. SavedAll(i)'
    BY <1>3, <1>6, <1>8, <2>2 DEF SavedAll, Saved
  <2>. QED
    BY <2>1, <2>3
<1>13. SaveOK(i)'
  BY <1>10, <1>11, <1>12 DEF SaveOK
<1>. QED
  BY <1>2, <1>5, <1>13 DEF SaveInv

(* What the app changes disturbs the saves of its own instance only. *)
LEMMA ChangeSaves ==
  ASSUME SaveInv, NEW i \in Instances, NEW p \in Parts, NEW x \in Items, Change(i, p, x)
  PROVE  SaveInv'
<1>. Types /\ \A j \in Instances : SaveOK(j)
  BY DEF SaveInv
<1>1. MemType /\ NoteType
  BY DEF Types
<1>2. Types'
  BY AppType DEF SaveOK
<1>3. UNCHANGED <<file, lock, pc, sql, init, saver, todo, got, newest>>
  BY DEF Change, saveVars
<1>4. \A j \in Instances \ {i} : mem'[j] = mem[j] /\ mirror'[j] = mirror[j]
  BY <1>1 DEF Change, MemType, NoteType
<1>5. ASSUME NEW j \in Instances \ {i} PROVE SaveOK(j)'
  BY <1>3, <1>4, Untouched DEF InstanceVars
<1>6. ~mirror'[i] /\ (sql[i] # "on" => mem'[i]["sql"] = mem[i]["sql"])
  BY <1>1 DEF Change, MemType, NoteType, Parts
<1>7. SavesOnlyUp(i)' /\ Unborn(i)' /\ DumpNoted(i)' /\ SqlOnly(i)' /\ DumpOnly(i)'
  BY <1>3, <1>6 DEF SaveOK, SavesOnlyUp, Unborn, DumpNoted, SqlOnly, DumpOnly, Idle, Up
<1>8. SaveOK(i)'
  BY <1>6, <1>7 DEF SaveOK, MirrorSoFar
<1>. QED
  BY <1>2, <1>5, <1>8 DEF SaveInv

(* A save that begins while no other of its instance runs has nothing to show yet. *)
LEMMA BeginSaves ==
  ASSUME SaveInv, NEW i \in Instances, Autosave(i) \/ Interrupt(i)
  PROVE  SaveInv'
<1>. Types /\ \A j \in Instances : SaveOK(j)
  BY DEF SaveInv
<1>1. FileType /\ MemType /\ SaveType /\ RunType /\ NoteType
  BY DEF Types
<1>2. PICK s \in Savers : /\ Begin(i, s) /\ saver[i][s] = "idle"
                          /\ pc'[i] = "up" => s = "autosave"
  BY <1>1 DEF Autosave, Interrupt, SaveOK, SavesOnlyUp, Savers, RunType
<1>3. /\ UNCHANGED <<file, lock, mem, sql, init, todo, got, newest>>
      /\ Up(i) /\ Up(i)'
      /\ \A j \in Instances \ {i} : pc'[j] = pc[j]
  BY <1>1 DEF Autosave, Interrupt, Up, RunType
<1>4. \A j \in Instances \ {i} : saver'[j] = saver[j] /\ mirror'[j] = mirror[j]
  BY <1>1, <1>2 DEF Begin, SaveType, NoteType
<1>5. /\ saver'[i][s] \in {"idle", "entities"}
      /\ \A t \in Savers \ {s} : saver'[i][t] = saver[i][t]
      /\ \/ saver' = saver /\ mirror' = mirror
         \/ saver'[i][s] = "entities" /\ (mirror'[i] => Idle(i))
  BY <1>1, <1>2 DEF Begin, SaveType, NoteType, Idle
<1>6. Types'
  <2>1. FileType' /\ MemType'
    BY <1>1, <1>3 DEF FileType, MemType
  <2>2. SaveType'
    <3>1. saver' = saver \/ saver' = [saver EXCEPT ![i][s] = "entities"]
      BY <1>2 DEF Begin
    <3>2. saver' \in [Instances -> [Savers -> {"idle", "entities", "objects", "dumping"}]]
      <4>1. saver \in [Instances -> [Savers -> {"idle", "entities", "objects", "dumping"}]]
        BY <1>1 DEF SaveType
      <4>2. saver[i] \in [Savers -> {"idle", "entities", "objects", "dumping"}]
        BY <4>1
      <4>3. [saver[i] EXCEPT ![s] = "entities"]
               \in [Savers -> {"idle", "entities", "objects", "dumping"}]
        BY <4>2
      <4>. QED
        BY <3>1, <4>1, <4>3
    <3>3. todo' = todo /\ got' = got
      BY <1>3
    <3>. QED
      BY <1>1, <3>2, <3>3 DEF SaveType
  <2>3. NoteType'
    <3>1. expect' = expect
      BY DEF Autosave, Interrupt
    <3>2. \E b \in BOOLEAN : mirror' = [mirror EXCEPT ![i] = b] \/ mirror' = mirror
      BY <1>2 DEF Begin
    <3>. QED
      BY <1>1, <3>1, <3>2 DEF NoteType
  <2>4. RunType'
    BY <1>1 DEF Autosave, Interrupt, RunType, Stages
  <2>. QED
    BY <2>1, <2>2, <2>3, <2>4 DEF Types
<1>7. ASSUME NEW j \in Instances \ {i} PROVE SaveOK(j)'
  BY <1>3, <1>4, Untouched DEF InstanceVars
<1>8. SavesOnlyUp(i)'
  <2>1. "exit" \in Savers /\ "exit" # "autosave"
    BY DEF Savers
  <2>2. pc'[i] = "up" => saver'[i]["exit"] = "idle"
    <3>1. pc'[i] = "up" => pc[i] = "up"
      BY <1>1 DEF Autosave, Interrupt, RunType
    <3>. QED
      BY <1>2, <1>5, <2>1, <3>1 DEF SaveOK, SavesOnlyUp
  <2>. QED
    BY <1>3, <2>2 DEF SavesOnlyUp
<1>9. Unborn(i)' /\ DumpNoted(i)' /\ SqlOnly(i)'
  BY <1>3 DEF SaveOK, Unborn, DumpNoted, SqlOnly, Up
<1>10. DumpOnly(i)'
  BY <1>2, <1>3, <1>5 DEF SaveOK, DumpOnly
<1>11. MirrorSoFar(i)'
  <2>1. CASE saver' = saver /\ mirror' = mirror
    BY <1>3, <2>1 DEF SaveOK, MirrorSoFar, OneSaver, SavedAll, SavedSoFar, Saved, Idle
  <2>2. CASE saver'[i][s] = "entities" /\ (mirror'[i] => Idle(i))
    <3>. SUFFICES ASSUME mirror'[i]
                  PROVE  ~Idle(i)' /\ OneSaver(i)' /\ \A t \in Savers : SavedSoFar(i, t)'
      BY DEF MirrorSoFar
    <3>1. \A t \in Savers \ {s} : saver'[i][t] = "idle"
      BY <1>5, <2>2 DEF Idle
    <3>. QED
      BY <2>2, <3>1 DEF Idle, OneSaver, SavedSoFar
  <2>. QED
    BY <1>5, <2>1, <2>2
<1>12. SaveOK(i)'
  BY <1>8, <1>9, <1>10, <1>11 DEF SaveOK
<1>. QED
  BY <1>6, <1>7, <1>12 DEF SaveInv

(* What a step of a save leaves alone. *)
LEMMA SaveStepFrame ==
  ASSUME SaveInv, NEW i \in Instances, NEW s \in Savers, SaveStep(i, s)
  PROVE  /\ UNCHANGED <<lock, pc, mem, sql, init, newest>>
         /\ Types' /\ Up(i) /\ SavesOnlyUp(i)'
         /\ file["sql"] # NoFile => file'["sql"] # NoFile
         /\ \A j \in Instances \ {i} : SaveOK(j)'
         /\ \A t \in Savers \ {s} : /\ saver'[i][t] = saver[i][t]
                                    /\ todo'[i][t] = todo[i][t] /\ got'[i][t] = got[i][t]
<1>. Types /\ \A j \in Instances : SaveOK(j)
  BY DEF SaveInv
<1>1. FileType /\ MemType /\ SaveType /\ RunType /\ NoteType
  BY DEF Types
<1>2. Types'
  BY SaveStepType
<1>3. UNCHANGED <<lock, pc, mem, sql, init, newest>> /\ saver[i][s] # "idle"
  BY DEF SaveStep, WriteEntities, WriteObjects, DumpTable, DumpFails, WriteSql
<1>4. /\ \A j \in Instances \ {i} : saver'[j] = saver[j] /\ todo'[j] = todo[j] /\ got'[j] = got[j]
      /\ \A t \in Savers \ {s} : /\ saver'[i][t] = saver[i][t]
                                 /\ todo'[i][t] = todo[i][t] /\ got'[i][t] = got[i][t]
  BY <1>1 DEF SaveStep, WriteEntities, WriteObjects, DumpTable, DumpFails, WriteSql, SaveType
<1>5. Up(i)
  BY <1>3 DEF SaveOK, SavesOnlyUp, Idle
<1>6. SavesOnlyUp(i)'
  <2>1. pc[i] = "up" => s # "exit"
    BY <1>3 DEF SaveOK, SavesOnlyUp
  <2>2. "exit" \in Savers
    BY DEF Savers
  <2>. QED
    BY <1>3, <1>4, <1>5, <2>1, <2>2 DEF SaveOK, SavesOnlyUp, Up
<1>7. /\ file["sql"] # NoFile => file'["sql"] # NoFile
      /\ \A j \in Instances \ {i} : mirror'[j] => mirror[j] /\ file' = file
  <2>1. /\ mem[i]["entities"] \in Contents /\ mem[i]["objects"] \in Contents
        /\ got[i][s] \in Contents
        /\ "entities" \in Parts /\ "objects" \in Parts /\ "sql" \in Parts
    BY <1>1 DEF MemType, SaveType, Parts
  <2>2. CASE WriteEntities(i, s)
    BY <1>1, <2>1, <2>2, WriteType DEF WriteEntities
  <2>3. CASE WriteObjects(i, s)
    BY <1>1, <2>1, <2>3, WriteType DEF WriteObjects
  <2>4. ASSUME NEW x \in Items, DumpTable(i, s, x)
        PROVE  file' = file /\ mirror' = mirror
    BY <2>4 DEF DumpTable
  <2>5. CASE DumpFails(i, s)
    BY <1>1, <2>5 DEF DumpFails, NoteType
  <2>6. CASE WriteSql(i, s)
    BY <1>1, <2>1, <2>6, WriteType DEF WriteSql
  <2>. QED
    BY <2>2, <2>3, <2>4, <2>5, <2>6 DEF SaveStep
<1>8. ASSUME NEW j \in Instances \ {i} PROVE SaveOK(j)'
  BY <1>3, <1>4, <1>7, Untouched DEF InstanceVars
<1>. QED
  BY <1>2, <1>3, <1>4, <1>5, <1>6, <1>7, <1>8

(* An undisturbed save has its instance to itself. *)
LEMMA OnlySaver ==
  ASSUME NEW i \in Instances, NEW s \in Savers, SaveOK(i), mirror[i], saver[i][s] # "idle"
  PROVE  SavedSoFar(i, s) /\ \A t \in Savers \ {s} : saver[i][t] = "idle"
BY DEF SaveOK, MirrorSoFar, OneSaver

(* What is left to show of a step that keeps the other savers idle. *)
LEMMA OneSaverStays ==
  ASSUME NEW i \in Instances, NEW s \in Savers,
         \A t \in Savers \ {s} : saver'[i][t] = "idle", SavedSoFar(i, s)',
         saver'[i][s] = "idle" => SavedAll(i)'
  PROVE  MirrorSoFar(i)'
<1>1. OneSaver(i)'
  BY DEF OneSaver
<1>2. Idle(i)' => SavedAll(i)'
  BY DEF Idle
<1>3. \A t \in Savers : SavedSoFar(i, t)'
  BY DEF SavedSoFar
<1>. QED
  BY <1>1, <1>2, <1>3 DEF MirrorSoFar

(* Once the entities are written, their file holds them. *)
LEMMA WriteEntitiesSaves ==
  ASSUME SaveInv, NEW i \in Instances, NEW s \in Savers, WriteEntities(i, s)
  PROVE  DumpOnly(i)' /\ MirrorSoFar(i)'
<1>. Types /\ SaveOK(i) /\ SaveStep(i, s)
  BY DEF SaveInv, SaveStep
<1>1. FileType /\ MemType /\ SaveType /\ NoteType
  BY DEF Types
<1>2. /\ mem' = mem /\ sql' = sql /\ todo' = todo /\ got' = got
      /\ \A t \in Savers \ {s} : saver'[i][t] = saver[i][t]
  BY SaveStepFrame DEF WriteEntities
<1>3. saver[i][s] = "entities" /\ saver'[i][s] = "objects"
  BY <1>1 DEF WriteEntities, SaveType
<1>4. DumpOnly(i)'
  BY <1>2, <1>3 DEF SaveOK, DumpOnly
<1>5. ASSUME mirror'[i] PROVE MirrorSoFar(i)'
  <2>1. mem[i]["entities"] \in Contents /\ "entities" \in Parts
    BY <1>1 DEF MemType, Parts
  <2>2. mirror[i] /\ file' = [file EXCEPT !["entities"] = Written("entities", mem[i]["entities"])]
    BY <1>1, <1>5, <2>1, WriteType DEF WriteEntities
  <2>3. Saved(i, "entities")'
    BY <1>1, <1>2, <2>1, <2>2 DEF Saved, Written, FileType
  <2>4. \A t \in Savers \ {s} : saver'[i][t] = "idle"
    BY <1>2, <1>3, <2>2, OnlySaver
  <2>5. SavedSoFar(i, s)'
    BY <1>3, <2>3 DEF SavedSoFar
  <2>. QED
    BY <1>3, <2>4, <2>5, OneSaverStays
<1>. QED
  BY <1>4, <1>5 DEF MirrorSoFar

(* Once the objects are written, their file holds them, and the dump begins with
   all tables to read. *)
LEMMA WriteObjectsSaves ==
  ASSUME SaveInv, NEW i \in Instances, NEW s \in Savers, WriteObjects(i, s)
  PROVE  DumpOnly(i)' /\ MirrorSoFar(i)'
<1>. Types /\ SaveOK(i) /\ SaveStep(i, s)
  BY DEF SaveInv, SaveStep
<1>1. FileType /\ MemType /\ SaveType /\ NoteType
  BY DEF Types
<1>2. /\ mem' = mem /\ sql' = sql /\ got' = got
      /\ \A t \in Savers \ {s} : saver'[i][t] = saver[i][t]
  BY SaveStepFrame DEF WriteObjects
<1>3. /\ saver[i][s] = "objects"
      /\ saver'[i][s] = IF sql[i] = "on" THEN "dumping" ELSE "idle"
      /\ sql[i] = "on" => todo'[i][s] = mem[i]["sql"]
  BY <1>1 DEF WriteObjects, SaveType
<1>4. DumpOnly(i)'
  BY <1>2, <1>3 DEF SaveOK, DumpOnly
<1>5. ASSUME mirror'[i] PROVE MirrorSoFar(i)'
  <2>1. mem[i]["objects"] \in Contents /\ "objects" \in Parts /\ "entities" \in Parts
    BY <1>1 DEF MemType, Parts
  <2>2. mirror[i] /\ file' = [file EXCEPT !["objects"] = Written("objects", mem[i]["objects"])]
    BY <1>1, <1>5, <2>1, WriteType DEF WriteObjects
  <2>3. SavedSoFar(i, s) /\ \A t \in Savers \ {s} : saver'[i][t] = "idle"
    BY <1>2, <1>3, <2>2, OnlySaver
  <2>4. Saved(i, "objects")'
    BY <1>1, <1>2, <2>1, <2>2 DEF Saved, Written, FileType
  <2>5. Saved(i, "entities")'
    <3>1. Saved(i, "entities")
      BY <1>3, <2>3 DEF SavedSoFar
    <3>. QED
      BY <1>1, <1>2, <2>1, <2>2, <3>1 DEF Saved, FileType
  <2>6. got'[i][s] = {}
    BY <1>2, <1>3 DEF SaveOK, DumpOnly
  <2>7. SavedSoFar(i, s)'
    BY <1>2, <1>3, <2>4, <2>5, <2>6 DEF SavedSoFar
  <2>8. saver'[i][s] = "idle" => SavedAll(i)'
    BY <1>2, <1>3, <2>4, <2>5 DEF SavedAll
  <2>. QED
    BY <2>3, <2>7, <2>8, OneSaverStays
<1>. QED
  BY <1>4, <1>5 DEF MirrorSoFar

(* A table that is read goes from those to read to those that are read. *)
LEMMA DumpSaves ==
  ASSUME SaveInv, NEW i \in Instances, NEW s \in Savers,
         DumpFails(i, s) \/ \E x \in Items : DumpTable(i, s, x)
  PROVE  DumpOnly(i)' /\ MirrorSoFar(i)'
<1>. Types /\ SaveOK(i) /\ SaveStep(i, s)
  BY DEF SaveInv, SaveStep
<1>1. SaveType /\ NoteType
  BY DEF Types
<1>2. /\ mem' = mem /\ sql' = sql
      /\ \A t \in Savers \ {s} : saver'[i][t] = saver[i][t] /\ got'[i][t] = got[i][t]
  BY SaveStepFrame
<1>3. CASE DumpFails(i, s)
  <2>1. saver'[i][s] = "idle" /\ got'[i][s] = {} /\ ~mirror'[i]
    BY <1>1, <1>3 DEF DumpFails, SaveType, NoteType
  <2>. QED
    BY <1>2, <2>1 DEF SaveOK, DumpOnly, MirrorSoFar
<1>4. ASSUME NEW x \in Items, DumpTable(i, s, x)
      PROVE  DumpOnly(i)' /\ MirrorSoFar(i)'
  <2>1. /\ file' = file /\ saver' = saver /\ mirror' = mirror
        /\ saver[i][s] = "dumping" /\ x \in todo[i][s]
    BY <1>4 DEF DumpTable
  <2>2. todo'[i][s] \cup got'[i][s] = todo[i][s] \cup got[i][s]
    BY <1>1, <1>4, <2>1 DEF DumpTable, SaveType
  <2>3. DumpOnly(i)'
    BY <1>2, <2>1 DEF SaveOK, DumpOnly
  <2>4. ASSUME mirror'[i] PROVE MirrorSoFar(i)'
    <3>1. SavedSoFar(i, s) /\ \A t \in Savers \ {s} : saver'[i][t] = "idle"
      BY <2>1, <2>4, OnlySaver
    <3>2. SavedSoFar(i, s)'
      BY <1>2, <2>1, <2>2, <3>1 DEF SavedSoFar, Saved
    <3>. QED
      BY <2>1, <3>1, <3>2, OneSaverStays
  <2>. QED
    BY <2>3, <2>4 DEF MirrorSoFar
<1>. QED
  BY <1>3, <1>4

(* The dump is written when it holds all tables. *)
LEMMA WriteSqlSaves ==
  ASSUME SaveInv, NEW i \in Instances, NEW s \in Savers, WriteSql(i, s)
  PROVE  DumpOnly(i)' /\ MirrorSoFar(i)'
<1>. Types /\ SaveOK(i) /\ SaveStep(i, s)
  BY DEF SaveInv, SaveStep
<1>1. FileType /\ MemType /\ SaveType /\ NoteType
  BY DEF Types
<1>2. /\ mem' = mem /\ sql' = sql
      /\ \A t \in Savers \ {s} : saver'[i][t] = saver[i][t] /\ got'[i][t] = got[i][t]
  BY SaveStepFrame
<1>3. /\ saver[i][s] = "dumping" /\ todo[i][s] = {}
      /\ saver'[i][s] = "idle" /\ got'[i][s] = {}
  BY <1>1 DEF WriteSql, SaveType
<1>4. DumpOnly(i)'
  BY <1>2, <1>3 DEF SaveOK, DumpOnly
<1>5. ASSUME mirror'[i] PROVE MirrorSoFar(i)'
  <2>1. /\ mem[i]["sql"] \in Contents /\ got[i][s] \in Contents
        /\ "objects" \in Parts /\ "entities" \in Parts /\ "sql" \in Parts
    BY <1>1 DEF MemType, SaveType, Parts
  <2>2. mirror[i] /\ file' = [file EXCEPT !["sql"] = Written("sql", got[i][s])]
    BY <1>1, <1>5, <2>1, WriteType DEF WriteSql
  <2>3. SavedSoFar(i, s) /\ \A t \in Savers \ {s} : saver'[i][t] = "idle"
    BY <1>2, <1>3, <2>2, OnlySaver
  <2>4. got[i][s] = mem[i]["sql"] /\ Saved(i, "entities") /\ Saved(i, "objects")
    BY <1>3, <2>3 DEF SavedSoFar
  <2>5. Saved(i, "sql")'
    BY <1>1, <1>2, <2>1, <2>2, <2>4 DEF Saved, Written, FileType
  <2>6. Saved(i, "entities")' /\ Saved(i, "objects")'
    BY <1>1, <1>2, <2>1, <2>2, <2>4 DEF Saved, FileType
  <2>7. SavedAll(i)' /\ SavedSoFar(i, s)'
    BY <1>3, <2>5, <2>6 DEF SavedAll, SavedSoFar
  <2>. QED
    BY <2>3, <2>7, OneSaverStays
<1>. QED
  BY <1>4, <1>5 DEF MirrorSoFar

(* Every step of a save keeps the invariant. *)
LEMMA SaveStepSaves ==
  ASSUME SaveInv, NEW i \in Instances, NEW s \in Savers, SaveStep(i, s)
  PROVE  SaveInv'
<1>. SaveOK(i)
  BY DEF SaveInv
<1>1. DumpOnly(i)' /\ MirrorSoFar(i)'
  BY WriteEntitiesSaves, WriteObjectsSaves, DumpSaves, WriteSqlSaves DEF SaveStep
<1>2. /\ UNCHANGED <<pc, mem, sql, init, newest>> /\ Types' /\ SavesOnlyUp(i)'
      /\ file["sql"] # NoFile => file'["sql"] # NoFile
      /\ \A j \in Instances \ {i} : SaveOK(j)'
  BY SaveStepFrame
<1>3. Unborn(i)' /\ DumpNoted(i)' /\ SqlOnly(i)'
  BY <1>2 DEF SaveOK, Unborn, DumpNoted, SqlOnly
<1>4. SaveOK(i)'
  BY <1>1, <1>2, <1>3 DEF SaveOK
<1>. QED
  BY <1>2, <1>4 DEF SaveInv

(* Releasing the lock concerns no file. *)
LEMMA ReleaseSaves ==
  ASSUME SaveInv, NEW i \in Instances, Release(i) \/ Unlink(i)
  PROVE  SaveInv'
<1>. Types /\ \A j \in Instances : SaveOK(j)
  BY DEF SaveInv
<1>1. FileType /\ MemType /\ SaveType /\ RunType /\ NoteType
  BY DEF Types
<1>2. /\ UNCHANGED <<file, mem, sql, init, saver, todo, got, newest, mirror, expect>>
      /\ \A j \in Instances \ {i} : pc'[j] = pc[j]
      /\ Up(i) /\ Up(i)' /\ pc'[i] # "up"
  BY <1>1 DEF Release, Unlink, saveVars, RunType, Up
<1>3. Types'
  <2>1. FileType' /\ MemType' /\ SaveType' /\ NoteType'
    BY <1>1, <1>2 DEF FileType, MemType, SaveType, NoteType
  <2>2. RunType'
    BY <1>1 DEF Release, Unlink, RunType, Stages
  <2>. QED
    BY <2>1, <2>2 DEF Types
<1>4. ASSUME NEW j \in Instances \ {i} PROVE SaveOK(j)'
  BY <1>2, Untouched DEF InstanceVars
<1>5. SavesOnlyUp(i)' /\ Unborn(i)' /\ DumpNoted(i)' /\ SqlOnly(i)' /\ DumpOnly(i)'
  BY <1>2 DEF SaveOK, SavesOnlyUp, Unborn, DumpNoted, SqlOnly, DumpOnly, Up
<1>6. MirrorSoFar(i)'
  BY <1>2 DEF SaveOK, MirrorSoFar, OneSaver, Idle, SavedAll, SavedSoFar, Saved
<1>7. SaveOK(i)'
  BY <1>5, <1>6 DEF SaveOK
<1>. QED
  BY <1>3, <1>4, <1>7 DEF SaveInv

(* The end of a process concerns the saves of no other, but for the file it tears. *)
LEMMA EndSaves ==
  ASSUME SaveInv, NEW i \in Instances,
         Exit(i) \/ Kill(i) \/ \E s \in Savers : KillInWrite(i, s)
  PROVE  SaveInv'
<1>. Types /\ \A j \in Instances : SaveOK(j)
  BY DEF SaveInv
<1>1. FileType /\ MemType /\ SaveType /\ RunType /\ NoteType
  BY DEF Types
<1>2. Gone(i) /\ lock' = lock /\ newest' = newest /\ changes' = changes
  BY DEF Exit, Kill, KillInWrite
<1>3. ~(i > newest')
  <2>1. pc[i] # "off"
    <3>1. CASE Exit(i) \/ Kill(i)
      BY <3>1 DEF Exit, Kill, Alive
    <3>2. CASE \E s \in Savers : KillInWrite(i, s)
      <4>1. ~Idle(i)
        BY <3>2 DEF KillInWrite, Idle
      <4>. QED
        BY <4>1 DEF SaveOK, SavesOnlyUp, Up
    <3>. QED
      BY <3>1, <3>2
  <2>. QED
    BY <1>2, <2>1 DEF SaveOK, Unborn
<1>4. /\ FileType' /\ NoteType' /\ ~mirror'[i]
      /\ file["sql"] # NoFile => file'["sql"] # NoFile
      /\ \A j \in Instances \ {i} : mirror'[j] => mirror[j] /\ file' = file
  <2>1. CASE Exit(i)
    <3>1. file' = file /\ mirror' = [mirror EXCEPT ![i] = FALSE]
      BY <2>1 DEF Exit
    <3>2. expect' \in [Parts -> {Unknown} \cup Contents]
      BY <1>1, <2>1 DEF Exit, NothingExpected, MemType
    <3>. QED
      BY <1>1, <3>1, <3>2 DEF FileType, NoteType
  <2>2. CASE Kill(i)
    BY <1>1, <2>2 DEF Kill, FileType, NoteType, NothingExpected
  <2>3. ASSUME NEW s \in Savers, KillInWrite(i, s) 
        PROVE  /\ FileType' /\ NoteType' /\ ~mirror'[i]
               /\ file["sql"] # NoFile => file'["sql"] # NoFile
               /\ \A j \in Instances \ {i} : mirror'[j] => mirror[j] /\ file' = file
    <3>1. \E p \in Parts : file' = [file EXCEPT ![p] = Torn]
      BY <2>3 DEF KillInWrite, Parts
    <3>2. mirror' = [j \in Instances |-> FALSE] /\ expect' = NothingExpected
      BY <2>3 DEF KillInWrite
    <3>3. FileType' /\ (file["sql"] # NoFile => file'["sql"] # NoFile)
      BY <1>1, <3>1, PersistenceAssumption DEF FileType
    <3>4. NoteType'
      BY <3>2 DEF NoteType, NothingExpected
    <3>. QED
      BY <3>2, <3>3, <3>4
  <2>. QED
    BY <2>1, <2>2, <2>3
<1>5. Types'
  BY <1>2, <1>4, GoneType
<1>6. SaveOK(i)' /\ \A j \in Instances \ {i} : InstanceVars(j)' = InstanceVars(j)
  BY <1>2, <1>3, <1>4, GoneSaves
<1>7. ASSUME NEW j \in Instances \ {i} PROVE SaveOK(j)'
  BY <1>2, <1>4, <1>6, Untouched
<1>. QED
  BY <1>5, <1>6, <1>7 DEF SaveInv

-----------------------------------------------------------------------------
(* Theorems *)

(* Every step keeps the invariant. *)
LEMMA NextSaves == SaveInv /\ [Next]_vars => SaveInv'
<1>. SUFFICES ASSUME SaveInv, [Next]_vars PROVE SaveInv'
  OBVIOUS
<1>1. CASE UNCHANGED vars
  <2>1. /\ UNCHANGED <<file, lock, pc, mem, sql, init, clean, saver, todo, got>>
        /\ UNCHANGED <<newest, mirror, expect, changes>>
    BY <1>1 DEF vars, saveVars
  <2>2. Types'
    BY <2>1 DEF SaveInv, Types, FileType, MemType, SaveType, RunType, NoteType
  <2>3. ASSUME NEW j \in Instances PROVE SaveOK(j)'
    BY <2>1, Untouched DEF SaveInv, InstanceVars
  <2>. QED
    BY <2>2, <2>3 DEF SaveInv
<1>2. CASE Next
  <2>. SUFFICES ASSUME NEW i \in Instances,
                       \/ Start(i) \/ SqlStarts(i)
                       \/ \E p \in Parts, x \in Items : Change(i, p, x)
                       \/ Autosave(i) \/ Interrupt(i)
                       \/ \E s \in Savers : SaveStep(i, s)
                       \/ Release(i) \/ Unlink(i) \/ Exit(i) \/ Kill(i)
                       \/ \E s \in Savers : KillInWrite(i, s)
                PROVE  SaveInv'
    BY <1>2 DEF Next
  <2>. QED
    BY StartSaves, SqlStartsSaves, ChangeSaves, BeginSaves, SaveStepSaves, ReleaseSaves, EndSaves
<1>. QED
  BY <1>1, <1>2

(* In every reachable state the files hold what the saves under way have written
   so far. *)
THEOREM SaveInvariant == Spec => []SaveInv
<1>1. Init => SaveInv
  BY InitSaves
<1>2. SaveInv /\ [Next]_vars => SaveInv'
  BY NextSaves
<1>. QED
  BY <1>1, <1>2, PTL DEF Spec

(* Every variable keeps its type, whichever instances start, save, die in the
   middle of a write and come back. *)
THEOREM TypeCorrect == Spec => []TypeOK
<1>1. SaveInv => TypeOK
  BY TypesHold DEF SaveInv
<1>. QED
  BY <1>1, SaveInvariant, PTL

(* guardedSave() and dumpSql() leave on disk what the simulator holds, part by
   part, when nothing interfered with the save. *)
THEOREM SavesMirrorMemory == Spec => []SaveMirrorsMemory
<1>1. SaveInv => SaveMirrorsMemory
  <2>. SUFFICES ASSUME SaveInv, NEW i \in Instances, mirror[i], Idle(i), NEW p \in Parts,
                       mem[i][p] # {}, p = "sql" => sql[i] = "on"
                PROVE  file[p] = mem[i][p]
    BY DEF SaveMirrorsMemory, Idle
  <2>1. SavedAll(i)
    BY DEF SaveInv, SaveOK, MirrorSoFar
  <2>. QED
    BY <2>1 DEF SavedAll, Saved, Parts
<1>. QED
  BY <1>1, SaveInvariant, PTL

(* claimStateLock() and releaseStateLock(): the lock file names the newest
   instance or there is none. *)
THEOREM LockStaysNewest == Spec => []LockIsNewest
<1>1. Init => LockIsNewest
  BY DEF Init, LockIsNewest
<1>2. LockIsNewest /\ [Next]_vars => LockIsNewest'
  <2>. SUFFICES ASSUME LockIsNewest, [Next]_vars PROVE LockIsNewest'
    OBVIOUS
  <2>1. ASSUME NEW i \in Instances, Claim(i) PROVE LockIsNewest'
    BY <2>1 DEF Claim, Claimed, LockIsNewest
  <2>2. ASSUME NEW i \in Instances, Unlink(i) PROVE LockIsNewest'
    BY <2>2 DEF Unlink, LockIsNewest
  <2>3. ASSUME NEW i \in Instances, NEW s \in Savers, SaveStep(i, s)
        PROVE  lock' = lock /\ newest' = newest
    BY <2>3 DEF SaveStep, WriteEntities, WriteObjects, DumpTable, DumpFails, WriteSql
  <2>4. ASSUME NEW i \in Instances,
               \/ Bail(i) \/ ConfigureSql(i) \/ Deployed(i) \/ LoadEntities(i) \/ LoadObjects(i)
               \/ SqlStarts(i)
               \/ \E p \in Parts, x \in Items : Change(i, p, x)
               \/ Autosave(i) \/ Interrupt(i) \/ Release(i) \/ Exit(i) \/ Kill(i)
               \/ \E s \in Savers : KillInWrite(i, s)
        PROVE  lock' = lock /\ newest' = newest
    BY <2>4 DEF Bail, ConfigureSql, Deployed, LoadEntities, LoadObjects, SqlStarts, Change,
                Autosave, Interrupt, Release, Exit, Kill, KillInWrite
  <2>. QED
    BY <2>1, <2>2, <2>3, <2>4 DEF Next, Start, LockIsNewest, vars
<1>. QED
  BY <1>1, <1>2, PTL DEF Spec

-----------------------------------------------------------------------------
(* What is restored.  While something is expected of the next instance, at
   most one is alive and has changed nothing: before it is up the files are
   those that were left, and then it holds what they held, part by part.  Only
   the objects may be missing, if there was no other file. *)

Known(p) == expect[p] \notin {Unknown, {}}
Expects == \E p \in Parts : expect[p] # Unknown

FilesHold == \A p \in Parts : Known(p) => file[p] = expect[p]

(* An instance that found no other file, and writes none. *)
NothingThere(i) ==
    /\ file["entities"] = NoFile /\ file["sql"] = NoFile
    /\ mem[i]["entities"] = {} /\ mem[i]["sql"] = {}
    /\ \A s \in Savers : got[i][s] = {}

Booting == {"claimed", "deploying", "loading"}

Back(i) ==
    /\ pc[i] \in {"claimed", "deploying"} => i \notin clean
    /\ pc[i] = "claimed" => sql[i] = "off"
    /\ pc[i] \in Booting => mem[i]["entities"] = {}
    /\ pc[i] \in Booting \cup {"loadingObjects"} => mem[i]["objects"] = {}
    /\ ~Up(i) /\ file["sql"] = NoFile => mem[i]["sql"] = {}
    /\ Known("entities") /\ pc[i] \notin Booting => mem[i]["entities"] = expect["entities"]
    /\ Known("objects") /\ Up(i) => mem[i]["objects"] = expect["objects"] \/ NothingThere(i)
    /\ Known("sql") /\ sql[i] = "on" => mem[i]["sql"] = expect["sql"]
    /\ Known("sql") /\ sql[i] = "off" => /\ file["sql"] = expect["sql"]
                                         /\ pc[i] # "claimed" => init[i]

AtMostOne == \A i, j \in Instances : Alive(i) /\ Alive(j) => i = j

Recovers ==
    /\ AtMostOne
    /\ (\A i \in Instances : ~Up(i)) => FilesHold
    /\ \A i \in Instances : Alive(i) => Back(i)

Unstarted(i) ==
    pc[i] = "off" => /\ \A p \in Parts : mem[i][p] = {}
                     /\ sql[i] = "off" /\ i \notin clean

RestartInv == (\A i \in Instances : Unstarted(i)) /\ (Expects => Recovers)

\* One step of instance i.
StepOf(i) ==
    \/ Start(i) \/ SqlStarts(i)
    \/ \E p \in Parts, x \in Items : Change(i, p, x)
    \/ Autosave(i) \/ Interrupt(i)
    \/ \E s \in Savers : SaveStep(i, s)
    \/ Release(i) \/ Unlink(i) \/ Exit(i) \/ Kill(i)
    \/ \E s \in Savers : KillInWrite(i, s)

\* A step starts its instance, or found it started, and leaves the others as they are.
LEMMA OneMoves ==
  ASSUME SaveInv, NEW i \in Instances, StepOf(i)
  PROVE  /\ pc'[i] # "off"
         /\ \A j \in Instances \ {i} : /\ pc'[j] = pc[j] /\ mem'[j] = mem[j] /\ sql'[j] = sql[j]
                                       /\ j \in clean' <=> j \in clean
<1>. SaveOK(i) /\ MemType /\ RunType
  BY DEF SaveInv, Types
<1>1. CASE Start(i)
  <2>1. CASE Bail(i)
    BY <2>1 DEF Bail, Gone, MemType, RunType
  <2>2. CASE Claim(i)
    BY <2>2 DEF Claim, MemType, RunType
  <2>3. CASE ConfigureSql(i) \/ Deployed(i) \/ LoadEntities(i) \/ LoadObjects(i)
    BY <2>3 DEF ConfigureSql, Deployed, LoadEntities, LoadObjects, MemType, RunType
  <2>. QED
    BY <1>1, <2>1, <2>2, <2>3 DEF Start
<1>2. CASE SqlStarts(i)
  BY <1>2 DEF SqlStarts, AppRuns, MemType, RunType
<1>3. ASSUME NEW p \in Parts, NEW x \in Items, Change(i, p, x)
      PROVE  /\ pc' = pc /\ sql' = sql /\ clean' = clean /\ pc[i] # "off"
             /\ \A j \in Instances \ {i} : mem'[j] = mem[j]
  BY <1>3 DEF Change, AppRuns, MemType
<1>4. CASE Autosave(i) \/ Interrupt(i) \/ Release(i) \/ Unlink(i)
  BY <1>4 DEF Autosave, Interrupt, Release, Unlink, RunType
<1>5. ASSUME NEW s \in Savers, SaveStep(i, s)
      PROVE  pc' = pc /\ sql' = sql /\ clean' = clean /\ mem' = mem /\ pc[i] # "off"
  <2>1. Up(i) /\ UNCHANGED <<pc, mem, sql>>
    BY <1>5, SaveStepFrame
  <2>2. clean' = clean
    BY <1>5 DEF SaveStep, WriteEntities, WriteObjects, DumpTable, DumpFails, WriteSql
  <2>. QED
    BY <2>1, <2>2 DEF Up
<1>6. CASE Exit(i) \/ Kill(i) \/ \E s \in Savers : KillInWrite(i, s)
  <2>1. Gone(i)
    BY <1>6 DEF Exit, Kill, KillInWrite
  <2>. QED
    BY <2>1 DEF Gone, MemType, RunType
<1>. QED
  BY <1>1, <1>2, <1>3, <1>4, <1>5, <1>6 DEF StepOf

\* Who has not started has nothing.
LEMMA UnstartedStays ==
  ASSUME SaveInv, NEW i \in Instances, StepOf(i), \A j \in Instances : Unstarted(j)
  PROVE  \A j \in Instances : Unstarted(j)'
<1>1. Unstarted(i)'
  BY OneMoves DEF Unstarted
<1>2. ASSUME NEW j \in Instances \ {i}
      PROVE  Unstarted(j)'
  BY OneMoves DEF Unstarted
<1>. QED
  BY <1>1, <1>2

\* What is expected of the next instance stays expected while the only one that is alive
\* moves on, if it has the parts back that it should have by then.
LEMMA OneRecovers ==
  ASSUME SaveInv, Recovers, NEW i \in Instances, StepOf(i), Alive(i), expect' = expect,
         ~Up(i)' => ~Up(i) /\ file' = file,
         Alive(i)' => Back(i)'
  PROVE  Recovers'
<1>1. \A j \in Instances \ {i} : ~Alive(j) /\ pc'[j] = pc[j]
  BY OneMoves DEF Recovers, AtMostOne
<1>2. \A j \in Instances \ {i} : ~Alive(j)' /\ ~Up(j)
  BY <1>1 DEF Alive, Up
<1>3. AtMostOne' /\ \A j \in Instances : Alive(j)' => Back(j)'
  BY <1>2 DEF AtMostOne
<1>4. ASSUME \A j \in Instances : ~Up(j)'
      PROVE  FilesHold'
  <2>1. FilesHold /\ file' = file
    BY <1>2, <1>4 DEF Recovers
  <2>. QED
    BY <2>1 DEF FilesHold, Known
<1>. QED
  BY <1>3, <1>4 DEF Recovers

\* A part that is known is a file that can be read.
LEMMA KnownReads ==
  ASSUME NoteType, NEW p \in Parts, Known(p)
  PROVE  expect[p] \in Contents /\ expect[p] \notin {NoFile, Torn}
BY PersistenceAssumption DEF NoteType, Known

\* An instance claims the lock: what the last one left is still there, if nobody else runs.
LEMMA ClaimRecovers ==
  ASSUME SaveInv, RestartInv, NEW i \in Instances, Claim(i), Expects'
  PROVE  Recovers'
<1>. MemType /\ RunType /\ NoteType /\ SaveOK(i) /\ Unstarted(i)
  BY DEF SaveInv, Types, RestartInv
<1>1. i > newest
  BY DEF Claim, Instances, RunType, NoInstance
<1>2. pc[i] = "off"
  BY <1>1 DEF SaveOK, Unborn
<1>3. expect' = expect /\ clean' = clean /\ \A j \in Instances : ~Alive(j)
  BY DEF Claim, Expects, NothingExpected
<1>4. Recovers /\ \A j \in Instances : ~Up(j)
  BY <1>3 DEF RestartInv, Expects, Alive, Up
<1>5. FilesHold /\ UNCHANGED <<file, mem, sql, init, got>> /\ pc'[i] = "claimed"
  BY <1>4 DEF Recovers, Claim, saveVars, RunType
<1>6. i \notin clean /\ sql[i] = "off" /\ \A p \in Parts : mem[i][p] = {}
  BY <1>2 DEF Unstarted
<1>7. Back(i)'
  <2>1. "entities" \in Parts /\ "objects" \in Parts /\ "sql" \in Parts
    BY DEF Parts
  <2>. QED
    BY <1>3, <1>5, <1>6, <2>1 DEF Back, Booting, Up, FilesHold, Known
<1>8. \A j \in Instances \ {i} : ~Alive(j)'
  BY <1>3 DEF Claim, Alive, RunType
<1>9. FilesHold'
  BY <1>3, <1>5 DEF FilesHold, Known
<1>. QED
  BY <1>7, <1>8, <1>9 DEF Recovers, AtMostOne

\* Booting: what is noted, and then loaded, is what was left.
LEMMA BootRecovers ==
  ASSUME SaveInv, Recovers, NEW i \in Instances,
         ConfigureSql(i) \/ Deployed(i) \/ LoadEntities(i) \/ LoadObjects(i)
  PROVE  Recovers'
<1>. MemType /\ RunType /\ NoteType /\ SaveOK(i) /\ SaveType
  BY DEF SaveInv, Types
<1>. "entities" \in Parts /\ "objects" \in Parts /\ "sql" \in Parts
  BY DEF Parts
<1>1. /\ UNCHANGED <<file, sql, saver, todo, got, expect>>
      /\ pc[i] \in {"claimed", "deploying", "loading", "loadingObjects"} /\ pc'[i] # "off"
  BY DEF ConfigureSql, Deployed, LoadEntities, LoadObjects, saveVars, RunType
<1>2. Alive(i) /\ ~Up(i) /\ Back(i)
  BY <1>1 DEF Alive, Up, Recovers
<1>3. \A j \in Instances : ~Up(j)
  BY <1>2 DEF Recovers, AtMostOne, Alive, Up
<1>4. FilesHold
  BY <1>3 DEF Recovers
<1>5. \A p \in Parts : Known(p) => file[p] = expect[p] /\ file[p] \notin {NoFile, Torn}
  BY <1>4, KnownReads DEF FilesHold
<1>6. (\A p \in Parts : Known(p)' <=> Known(p)) /\ \A s \in Savers : got'[i][s] = {}
  BY <1>1, <1>2 DEF Known, SaveOK, SavesOnlyUp, Idle, DumpOnly
<1>7. ASSUME ConfigureSql(i) PROVE Back(i)'
  <2>1. pc[i] = "claimed" /\ pc'[i] = "deploying" /\ mem' = mem /\ clean' = clean
    BY <1>7 DEF ConfigureSql, RunType
  <2>2. init'[i] <=> i \notin clean /\ file["sql"] # NoFile
    BY <1>7 DEF ConfigureSql, NotesDump, RunType
  <2>. QED
    BY <1>1, <1>2, <1>5, <1>6, <2>1, <2>2 DEF Back, Booting, Up
<1>8. ASSUME Deployed(i) PROVE Back(i)'
  <2>1. /\ pc[i] = "deploying" /\ UNCHANGED <<mem, init>>
        /\ pc'[i] = IF i \notin clean /\ HasPersistedState THEN "loading" ELSE "up"
        /\ i \notin clean'
    BY <1>8 DEF Deployed, RunType
  <2>2. i \notin clean
    BY <1>2, <2>1 DEF Back
  <2>3. CASE HasPersistedState
    BY <1>1, <1>2, <1>6, <2>1, <2>2, <2>3 DEF Back, Booting, Up
  <2>4. CASE ~HasPersistedState
    <3>1. pc'[i] = "up" /\ file["entities"] = NoFile /\ file["sql"] = NoFile
      BY <2>1, <2>4 DEF HasPersistedState
    <3>2. ~Known("entities") /\ ~Known("sql")
      BY <1>5, <3>1
    <3>3. mem[i]["entities"] = {} /\ mem[i]["sql"] = {}
      BY <1>2, <2>1, <3>1 DEF Back, Booting
    <3>4. NothingThere(i)'
      BY <1>1, <1>6, <2>1, <3>1, <3>3 DEF NothingThere
    <3>. QED
      BY <1>1, <1>2, <1>6, <2>1, <3>1, <3>2, <3>4 DEF Back, Booting, Up
  <2>. QED
    BY <2>3, <2>4
<1>9. ASSUME LoadEntities(i) PROVE Back(i)'
  <2>1. /\ pc[i] = "loading" /\ pc'[i] = "loadingObjects" /\ UNCHANGED <<init, clean>>
        /\ mem'[i]["entities"] = Restored(i, "entities")
        /\ mem'[i]["objects"] = mem[i]["objects"] /\ mem'[i]["sql"] = mem[i]["sql"]
    BY <1>9 DEF LoadEntities, RunType, MemType
  <2>2. mem[i]["entities"] = {}
    BY <1>2, <2>1 DEF Back, Booting
  <2>3. Known("entities") => Restored(i, "entities") = expect["entities"]
    BY <1>5, <2>2 DEF Restored
  <2>. QED
    BY <1>1, <1>2, <1>6, <2>1, <2>3 DEF Back, Booting, Up
<1>10. ASSUME LoadObjects(i) PROVE Back(i)'
  <2>1. /\ pc[i] = "loadingObjects" /\ pc'[i] = "up" /\ UNCHANGED <<init, clean>>
        /\ mem'[i]["objects"] = Restored(i, "objects")
        /\ mem'[i]["entities"] = mem[i]["entities"] /\ mem'[i]["sql"] = mem[i]["sql"]
    BY <1>10 DEF LoadObjects, RunType, MemType
  <2>2. mem[i]["objects"] = {}
    BY <1>2, <2>1 DEF Back, Booting
  <2>3. Known("objects") => Restored(i, "objects") = expect["objects"]
    BY <1>5, <2>2 DEF Restored
  <2>. QED
    BY <1>1, <1>2, <1>6, <2>1, <2>3 DEF Back, Booting, Up
<1>11. Back(i)'
  BY <1>7, <1>8, <1>9, <1>10
<1>. QED
  BY <1>1, <1>2, <1>11, OneRecovers DEF StepOf, Start

\* MySQL starts with the dump that was left.
LEMMA SqlStartsRecovers ==
  ASSUME SaveInv, Recovers, NEW i \in Instances, SqlStarts(i)
  PROVE  Recovers'
<1>. FileType /\ MemType /\ RunType /\ NoteType /\ SaveOK(i)
  BY DEF SaveInv, Types
<1>. "entities" \in Parts /\ "objects" \in Parts /\ "sql" \in Parts
  BY DEF Parts
<1>1. /\ UNCHANGED <<file, pc, init, clean, got, expect>>
      /\ AppRuns(i) /\ sql[i] = "off" /\ pc[i] # "claimed"
  BY DEF SqlStarts, saveVars, AppRuns
<1>2. Alive(i) /\ Back(i)
  BY <1>1 DEF Alive, AppRuns, Recovers
<1>3. mem'[i]["entities"] = mem[i]["entities"] /\ mem'[i]["objects"] = mem[i]["objects"]
  BY DEF SqlStarts, MemType
<1>4. Known("sql") => init[i] /\ file["sql"] = expect["sql"] /\ file["sql"] # Torn
  BY <1>1, <1>2, KnownReads DEF Back
<1>5. \/ sql'[i] = "on" /\ ~init[i] /\ mem'[i]["sql"] = mem[i]["sql"]
      \/ sql'[i] = "on" /\ init[i] /\ mem'[i]["sql"] = file["sql"]
      \/ sql'[i] = "broken" /\ init[i] /\ mem'[i]["sql"] = mem[i]["sql"] /\ file["sql"] = Torn
      \/ sql'[i] = "on" /\ init[i] /\ file["sql"] = Torn
  BY DEF SqlStarts, MemType, RunType
<1>6. init[i] => file["sql"] # NoFile
  BY DEF SaveOK, DumpNoted
<1>7. NothingThere(i) => NothingThere(i)'
  BY <1>1, <1>3, <1>5, <1>6 DEF NothingThere
<1>8. Back(i)'
  BY <1>1, <1>2, <1>3, <1>4, <1>5, <1>6, <1>7 DEF Back, Up, Known
<1>. QED
  BY <1>1, <1>2, <1>8, OneRecovers DEF StepOf, Up

\* A save takes nothing from what the instance got back; if it found nothing it writes none.
LEMMA SaveStepRecovers ==
  ASSUME SaveInv, Recovers, NEW i \in Instances, NEW s \in Savers, SaveStep(i, s)
  PROVE  Recovers'
<1>. FileType /\ MemType /\ SaveType /\ SaveOK(i)
  BY DEF SaveInv, Types
<1>. "entities" \in Parts /\ "objects" \in Parts /\ "sql" \in Parts
  BY DEF Parts
<1>1. /\ UNCHANGED <<pc, mem, sql, init>> /\ Up(i)
      /\ \A t \in Savers \ {s} : got'[i][t] = got[i][t]
  BY SaveStepFrame
<1>2. Alive(i) /\ Back(i) /\ UNCHANGED <<clean, expect>>
  BY <1>1 DEF Alive, Up, Recovers, SaveStep, WriteEntities, WriteObjects, DumpTable, DumpFails,
              WriteSql
<1>3. sql[i] # "on" => file'["sql"] = file["sql"]
  BY DEF SaveStep, WriteEntities, WriteObjects, DumpTable, DumpFails, WriteSql, Write, FileType,
         SaveOK, DumpOnly
<1>4. ASSUME NothingThere(i)
      PROVE  NothingThere(i)'
  <2>1. /\ file["entities"] = NoFile /\ file["sql"] = NoFile
        /\ mem[i]["entities"] = {} /\ mem[i]["sql"] = {} /\ got[i][s] = {}
    BY <1>4 DEF NothingThere
  <2>2. /\ file'["entities"] = NoFile /\ file'["sql"] = NoFile /\ got'[i][s] = {}
    <3>1. CASE WriteEntities(i, s)
      BY <2>1, <3>1 DEF WriteEntities, Write, Written, FileType
    <3>2. CASE WriteObjects(i, s)
      BY <2>1, <3>2 DEF WriteObjects, Write, FileType
    <3>3. ASSUME NEW x \in Items, DumpTable(i, s, x) PROVE FALSE
      BY <2>1, <3>3 DEF DumpTable
    <3>4. CASE DumpFails(i, s)
      BY <2>1, <3>4 DEF DumpFails, SaveType
    <3>5. CASE WriteSql(i, s)
      BY <2>1, <3>5 DEF WriteSql, Write, Written, FileType, SaveType
    <3>. QED
      BY <3>1, <3>2, <3>3, <3>4, <3>5 DEF SaveStep
  <2>. QED
    BY <1>1, <1>4, <2>1, <2>2 DEF NothingThere
<1>5. Back(i)'
  BY <1>1, <1>2, <1>3, <1>4 DEF Back, Up, Known, Booting
<1>. QED
  BY <1>1, <1>2, <1>5, OneRecovers DEF StepOf, Up

\* Steps of an instance that is up and that concern neither its state nor the files.
LEMMA UpRecovers ==
  ASSUME SaveInv, Recovers, NEW i \in Instances,
         Autosave(i) \/ Interrupt(i) \/ Release(i) \/ Unlink(i)
  PROVE  Recovers'
<1>. RunType
  BY DEF SaveInv, Types
<1>1. /\ UNCHANGED <<file, mem, sql, init, clean, got, expect>>
      /\ Up(i) /\ Up(i)'
  BY DEF Autosave, Interrupt, Release, Unlink, Up, saveVars, RunType
<1>2. Alive(i) /\ Back(i)
  BY <1>1 DEF Alive, Up, Recovers
<1>3. NothingThere(i) => NothingThere(i)'
  BY <1>1 DEF NothingThere
<1>4. Back(i)'
  BY <1>1, <1>2, <1>3 DEF Back, Up, Known, Booting
<1>. QED
  BY <1>1, <1>2, <1>4, OneRecovers DEF StepOf

\* An instance that gives up before it has deployed leaves what it found.
LEMMA BailRecovers ==
  ASSUME SaveInv, Recovers, NEW i \in Instances, Bail(i)
  PROVE  Recovers'
<1>1. Alive(i) /\ ~Up(i) /\ expect' = expect /\ file' = file /\ pc'[i] = "gone"
  BY DEF Bail, Gone, Alive, Up, SaveInv, Types, RunType
<1>. QED
  BY <1>1, OneRecovers DEF StepOf, Start, Alive

\* The only instance exits, its last save undisturbed: the files hold what it had.
LEMMA ExitRecovers ==
  ASSUME SaveInv, NEW i \in Instances, Exit(i), Expects'
  PROVE  Recovers'
<1>. MemType /\ RunType /\ SaveOK(i)
  BY DEF SaveInv, Types
<1>1. /\ mirror[i] /\ Idle(i) /\ \A j \in Instances \ {i} : ~Alive(j)
      /\ expect' = [p \in Parts |-> IF p = "sql" /\ sql[i] # "on" THEN Unknown ELSE mem[i][p]]
  BY DEF Exit, Expects, NothingExpected, Idle
<1>2. file' = file /\ pc' = [pc EXCEPT ![i] = "gone"]
  BY DEF Exit, Gone
<1>3. \A j \in Instances : ~Alive(j)'
  BY <1>1, <1>2 DEF Alive, RunType
<1>4. SavedAll(i)
  BY <1>1 DEF SaveOK, MirrorSoFar
<1>5. ASSUME NEW p \in Parts, Known(p)'
      PROVE  file'[p] = expect'[p]
  <2>1. mem[i][p] # {} /\ (p = "sql" => sql[i] = "on") /\ expect'[p] = mem[i][p]
    BY <1>1, <1>5 DEF Known
  <2>. QED
    BY <1>2, <1>4, <2>1 DEF SavedAll, Saved, Parts
<1>. QED
  BY <1>3, <1>5 DEF Recovers, AtMostOne, FilesHold

\* Nothing is expected of whoever comes after a change, or after a process was killed.
LEMMA NothingRecovers ==
  ASSUME NEW i \in Instances, Expects'
  PROVE  /\ ~Kill(i) /\ \A s \in Savers : ~KillInWrite(i, s)
         /\ \A p \in Parts, x \in Items : ~Change(i, p, x)
BY DEF Kill, KillInWrite, Change, Expects, NothingExpected

LEMMA InitRestart == Init => RestartInv
BY DEF Init, RestartInv, Unstarted, Expects, Parts

LEMMA NextRestart == SaveInv /\ RestartInv /\ [Next]_vars => RestartInv'
<1>. SUFFICES ASSUME SaveInv, RestartInv, [Next]_vars
              PROVE  RestartInv'
  OBVIOUS
<1>1. CASE UNCHANGED vars
  <2>1. UNCHANGED <<file, pc, mem, sql, init, clean, got, expect>>
    BY <1>1 DEF vars, saveVars
  <2>. QED
    BY <2>1 DEF RestartInv, Unstarted, Expects, Recovers, AtMostOne, Alive, Up, FilesHold, Back,
                Known, NothingThere, Booting
<1>2. ASSUME NEW i \in Instances, StepOf(i)
      PROVE  RestartInv'
  <2>1. \A j \in Instances : Unstarted(j)'
    BY <1>2, UnstartedStays DEF RestartInv
  <2>2. ASSUME Expects', ~Claim(i), ~Exit(i)
        PROVE  Recovers'
    <3>1. expect' = expect
      BY <1>2, <2>2, NothingRecovers
         DEF StepOf, Start, Bail, ConfigureSql, Deployed, LoadEntities, LoadObjects, SqlStarts,
             Autosave, Interrupt, SaveStep, WriteEntities, WriteObjects, DumpTable, DumpFails,
             WriteSql, Release, Unlink
    <3>2. Recovers
      BY <2>2, <3>1 DEF RestartInv, Expects
    <3>. QED
      BY <1>2, <2>2, <3>2, NothingRecovers, BootRecovers, BailRecovers, SqlStartsRecovers,
         SaveStepRecovers, UpRecovers DEF StepOf, Start
  <2>. QED
    BY <2>1, <2>2, ClaimRecovers, ExitRecovers DEF RestartInv
<1>. QED
  BY <1>1, <1>2 DEF Next, StepOf

\* loadState() and configureSqlPersistence(): an instance that starts after an undisturbed
\* exit of the only one has each part back that was not empty, for any number of runs and
\* whatever was killed, torn or taken over before.
THEOREM RestartKeeps == Spec => []RestartKeepsWhatWasSaved
<1>1. Init => SaveInv /\ RestartInv
  BY InitSaves, InitRestart
<1>2. SaveInv /\ RestartInv /\ [Next]_vars => SaveInv' /\ RestartInv'
  BY NextSaves, NextRestart
<1>3. SaveInv /\ RestartInv => RestartKeepsWhatWasSaved
  <2>. SUFFICES ASSUME SaveInv, RestartInv, NEW i \in Instances, NEW p \in Parts,
                       pc[i] = "up", Known(p), p = "sql" => sql[i] = "on",
                       p = "objects" => file["entities"] # NoFile \/ file["sql"] # NoFile
                PROVE  mem[i][p] = expect[p]
    BY DEF RestartKeepsWhatWasSaved, Known
  <2>1. Back(i) /\ Up(i)
    BY DEF RestartInv, Expects, Recovers, Alive, Up, Known
  <2>. QED
    BY <2>1 DEF Back, Booting, NothingThere, Parts
<1>. QED
  BY <1>1, <1>2, <1>3, PTL DEF Spec

-----------------------------------------------------------------------------
(* What renderers are made of *)


Levels == {"absent", "husk", "sources", "direct", "whole"}
StartStages == {"free", "preparing", "installing", "promoting", "beaten", "pruning", "serving",
                "failed", "dead"}

RendererType ==
  /\ level \in [Places -> Levels]
  /\ old \in SUBSET Places
  /\ starts \in [Starts -> [at: StartStages, left: SUBSET Places, fresh: BOOLEAN,
                            npm: BOOLEAN]]
  /\ spoilt \in BOOLEAN

OnePidOnce ==
  \A s, q \in Starts : StillRuns(s) /\ StillRuns(q) /\ PidOf[s] = PidOf[q] => s = q

Young(s) == starts[s].at \in {"installing", "promoting", "beaten"}
              => InPlace(s) \/ Tmp(s) \notin old

Whole(s) == level[Target(s)] = "whole" \/ SweptByOthers(s)

TargetHolds(s) ==
  IF InPlace(s) THEN spoilt \/ level[Target(s)] \in {"sources", "whole"}
  ELSE level[Target(s)] = "absent" \/ Whole(s)

TmpHolds(s) ==
  /\ starts[s].at = "promoting" => level[Tmp(s)] = "whole"
  /\ InPlace(s) => level[Tmp(s)] = "absent"
  /\ (starts[s].at \in {"pruning", "serving"} /\ starts[s].fresh) => level[Tmp(s)] = "absent"

Advances(s) ==
  /\ starts[s].at \in {"preparing", "promoting", "beaten", "pruning"} => ~InPlace(s)
  /\ starts[s].at = "free" => ~starts[s].fresh
  /\ starts[s].at \in {"beaten", "pruning"} => Whole(s)
  /\ starts[s].at = "serving" => Whole(s) \/ (InPlace(s) /\ spoilt)
  /\ starts[s].at = "failed" => starts[s].npm \/ SweptByOthers(s)
  /\ \A e \in starts[s].left : e # Target(s) /\ e.version # Checkout

StartInv(s) == Young(s) /\ TargetHolds(s) /\ TmpHolds(s) /\ Advances(s)

RendererInv == RendererType /\ OnePidOnce /\ \A s \in Starts : StartInv(s)

-----------------------------------------------------------------------------
(* Renderers *)

\* A directory tells what it is, the version it is of and, if it is a temporary one, whose.
LEMMA PlaceFacts ==
  \A s, q \in Starts :
    /\ Target(s) \in Places /\ Tmp(s) \in Places
    /\ Target(s) # Tmp(q)
    /\ Target(s) = Target(q) <=> VersionOf[s] = VersionOf[q]
    /\ Tmp(s) = Tmp(q) => VersionOf[s] = VersionOf[q] /\ PidOf[s] = PidOf[q]
    /\ Target(s).version = VersionOf[s] /\ Tmp(s).version = VersionOf[s]
    /\ Target(s).kind = "target" /\ Tmp(s).kind = "tmp"
  BY DEF Target, Tmp, Places, Place

LEMMA InitRenderer == MaterializeInit => RendererInv
<1>. SUFFICES ASSUME MaterializeInit
              PROVE  RendererInv
  OBVIOUS
<1>1. PICK inPlace \in BOOLEAN :
        starts = [s \in Starts |-> [at |-> IF InPlace(s) = inPlace THEN "free" ELSE "dead",
                                   left |-> {}, fresh |-> FALSE, npm |-> FALSE]]
  BY DEF MaterializeInit
<1>2. level = [e \in Places |->
                IF e = Place("target", Checkout, 0) THEN "sources" ELSE "absent"]
  BY DEF MaterializeInit
<1>3. \A s \in Starts : starts[s].at \in {"free", "dead"} /\ starts[s].left = {}
                        /\ starts[s].fresh = FALSE
  BY <1>1
<1>4. RendererType
  BY <1>1, <1>2 DEF MaterializeInit, RendererType, Levels, StartStages
<1>5. OnePidOnce
  BY <1>3 DEF OnePidOnce, StillRuns, Over
<1>6. ASSUME NEW s \in Starts
      PROVE  StartInv(s)
  <2>1. InPlace(s) => level[Target(s)] = "sources"
    BY <1>2, PlaceFacts DEF InPlace, Target, Place
  <2>2. ~InPlace(s) => level[Target(s)] = "absent"
    BY <1>2, PlaceFacts DEF InPlace, Target, Place
  <2>3. level[Tmp(s)] = "absent"
    BY <1>2, PlaceFacts DEF Tmp, Place
  <2>. QED
    BY <1>3, <2>1, <2>2, <2>3 DEF StartInv, Young, TargetHolds, TmpHolds, Advances
<1>. QED
  BY <1>4, <1>5, <1>6 DEF RendererInv

StartRecord == [at: StartStages, left: SUBSET Places, fresh: BOOLEAN, npm: BOOLEAN]

\* What a step of s that leaves the directories alone, and keeps the id it runs under, has to
\* show is about s only.
LEMMA OnlyOneStart ==
  ASSUME RendererInv, NEW s \in Starts, UNCHANGED <<level, old, swept>>,
         spoilt' \in BOOLEAN, spoilt => spoilt',
         NEW now \in StartRecord,
         starts' = [starts EXCEPT ![s] = now],
         now.at \notin Over => \A q \in Starts : StillRuns(q) => q = s \/ PidOf[q] # PidOf[s],
         StartInv(s)'
  PROVE  RendererInv'
<1>1. RendererType'
  BY DEF RendererInv, RendererType, StartRecord
<1>2. \A q \in Starts : starts'[q] = IF q = s THEN now ELSE starts[q]
  BY DEF RendererInv, RendererType
<1>3. OnePidOnce'
  BY <1>2 DEF RendererInv, OnePidOnce, StillRuns
<1>4. ASSUME NEW q \in Starts, q # s
      PROVE  StartInv(q)'
  <2>1. starts'[q] = starts[q]
    BY <1>2, <1>4
  <2>2. StartInv(q)
    BY DEF RendererInv
  <2>3. SweptByOthers(q)' <=> SweptByOthers(q)
    BY DEF SweptByOthers
  <2>. QED
    BY <2>1, <2>2, <2>3 DEF StartInv, Young, TargetHolds, TmpHolds, Advances, Whole
<1>. QED
  BY <1>1, <1>3, <1>4 DEF RendererInv


\* The start of a process.
LEMMA MaterializeRendererKeeps ==
  ASSUME RendererInv, NEW s \in Starts, MaterializeRenderer(s)
  PROVE  RendererInv'
<1>. DEFINE next == IF NothingMissing(level[Target(s)]) THEN "serving"
                    ELSE IF InPlace(s) THEN "installing" ELSE "preparing"
            now == [starts[s] EXCEPT !.at = next]
<1>1. /\ starts[s] \in StartRecord
      /\ starts[s].at = "free" /\ StartInv(s)
  BY DEF MaterializeRenderer, RendererInv, RendererType, StartRecord
<1>2. starts' = [starts EXCEPT ![s] = now]
  BY DEF MaterializeRenderer
<1>3. now \in StartRecord
  BY <1>1 DEF StartRecord, StartStages
<1>4. UNCHANGED <<level, old, swept>> /\ spoilt' \in BOOLEAN /\ (spoilt => spoilt')
  BY DEF MaterializeRenderer, RendererInv, RendererType
<1>5. \A q \in Starts : StillRuns(q) => PidOf[q] # PidOf[s]
  BY DEF MaterializeRenderer
<1>6. starts'[s] = now
  BY <1>2 DEF RendererInv, RendererType
<1>7. SweptByOthers(s)' <=> SweptByOthers(s)
  BY <1>4 DEF SweptByOthers
<1>8. /\ starts'[s].at = next /\ starts'[s].fresh = FALSE
      /\ starts'[s].left = starts[s].left
  BY <1>1, <1>3, <1>6 DEF StartInv, Advances
<1>9. next \in {"serving", "installing", "preparing"}
      /\ (next = "serving" => NothingMissing(level[Target(s)]))
      /\ (next = "preparing" => ~InPlace(s))
  OBVIOUS
<1>10. next = "serving" => Whole(s) \/ (InPlace(s) /\ spoilt)
  BY <1>1, <1>9 DEF StartInv, TargetHolds, NothingMissing, Whole
<1>11. next = "installing" => InPlace(s)
  OBVIOUS
<1>. HIDE DEF next, now
<1>12. StartInv(s)'
  <2>1. /\ TargetHolds(s) /\ (InPlace(s) => level[Tmp(s)] = "absent")
        /\ \A e \in starts[s].left : e # Target(s) /\ e.version # Checkout
    BY <1>1 DEF StartInv, TmpHolds, Advances
  <2>2. Young(s)' /\ TmpHolds(s)'
    BY <1>4, <1>8, <1>9, <1>11, <2>1 DEF Young, TmpHolds
  <2>3. TargetHolds(s)'
    BY <1>4, <1>7, <2>1 DEF TargetHolds, Whole
  <2>4. Advances(s)'
    BY <1>4, <1>7, <1>8, <1>9, <1>10, <2>1 DEF Advances, Whole
  <2>. QED
    BY <2>2, <2>3, <2>4 DEF StartInv
<1>. QED
  BY <1>2, <1>3, <1>4, <1>5, <1>12, OnlyOneStart


\* A running process writes its own temporary directory and, in a checkout or when it renames,
\* the directory of its version: what holds of the others still does.
LEMMA RunningStart ==
  ASSUME RendererInv, NEW s \in Starts, StillRuns(s),
         NEW now \in StartRecord, starts' = [starts EXCEPT ![s] = now],
         level' \in [Places -> Levels], old' \in SUBSET old, swept' = swept,
         spoilt' \in BOOLEAN, spoilt => spoilt',
         \A e \in Places : e \notin {Target(s), Tmp(s)} => level'[e] = level[e],
         InPlace(s) => /\ level'[Tmp(s)] = level[Tmp(s)]
                       /\ level'[Target(s)] \in {level[Target(s)], "whole"} \/ spoilt',
         ~InPlace(s) => level'[Target(s)] \in {level[Target(s)], "whole"},
         StartInv(s)'
  PROVE  RendererInv'
<1>1. RendererType'
  BY DEF RendererInv, RendererType, StartRecord
<1>2. \A q \in Starts : starts'[q] = IF q = s THEN now ELSE starts[q]
  BY DEF RendererInv, RendererType
<1>3. OnePidOnce'
  BY <1>2 DEF RendererInv, OnePidOnce, StillRuns
<1>4. ASSUME NEW q \in Starts, q # s
      PROVE  StartInv(q)'
  <2>1. starts'[q] = starts[q] /\ StartInv(q)
    BY <1>2, <1>4 DEF RendererInv
  <2>2. SweptByOthers(q)' <=> SweptByOthers(q)
    BY DEF SweptByOthers
  <2>3. Tmp(q) = Tmp(s) => ~StillRuns(q) /\ (InPlace(q) <=> InPlace(s))
    BY <1>4, PlaceFacts DEF RendererInv, OnePidOnce, InPlace
  <2>4. Target(q) = Target(s) => (InPlace(q) <=> InPlace(s))
    BY PlaceFacts DEF InPlace
  <2>5. Target(q) # Tmp(s) /\ Tmp(q) # Target(s) /\ Target(q) \in Places /\ Tmp(q) \in Places
    BY PlaceFacts
  <2>6. Young(q)'
    BY <2>1 DEF StartInv, Young
  <2>7. TmpHolds(q)'
    <3>1. CASE Tmp(q) = Tmp(s)
      BY <3>1, <2>1, <2>3 DEF StartInv, TmpHolds, StillRuns, Over
    <3>2. CASE Tmp(q) # Tmp(s)
      BY <3>2, <2>1, <2>5 DEF StartInv, TmpHolds
    <3>. QED
      BY <3>1, <3>2
  <2>8. Whole(q) => Whole(q)' \/ (InPlace(q) /\ spoilt')
    BY <2>2, <2>4, <2>5 DEF Whole
  <2>9. TargetHolds(q)'
    BY <2>1, <2>2, <2>4, <2>5 DEF StartInv, TargetHolds, Whole
  <2>10. Advances(q)'
    BY <2>1, <2>2, <2>8 DEF StartInv, Advances
  <2>. QED
    BY <2>6, <2>7, <2>9, <2>10 DEF StartInv
<1>. QED
  BY <1>1, <1>3, <1>4 DEF RendererInv


\* What a process that runs knows of itself.
LEMMA Myself ==
  ASSUME RendererInv, NEW s \in Starts
  PROVE  /\ starts[s] \in StartRecord /\ StartInv(s)
         /\ level[Target(s)] \in Levels /\ level[Tmp(s)] \in Levels
         /\ Target(s) \in Places /\ Tmp(s) \in Places /\ Target(s) # Tmp(s)
  BY PlaceFacts DEF RendererInv, RendererType, StartRecord

LEMMA PrepareKeeps ==
  ASSUME RendererInv, NEW s \in Starts, Prepare(s)
  PROVE  RendererInv'
<1>. DEFINE now == [starts[s] EXCEPT !.at = "installing"]
<1>1. /\ starts[s] \in StartRecord /\ StartInv(s) /\ starts[s].at = "preparing"
      /\ StillRuns(s) /\ Target(s) \in Places /\ Tmp(s) \in Places /\ Target(s) # Tmp(s)
  BY Myself DEF Prepare, StillRuns, Over
<1>2. ~InPlace(s)
  BY <1>1 DEF StartInv, Advances
<1>3. now \in StartRecord
  BY <1>1 DEF StartRecord, StartStages
<1>4. /\ starts' = [starts EXCEPT ![s] = now] /\ starts'[s] = now
      /\ old' = old \ {Tmp(s)} /\ UNCHANGED <<swept, spoilt>>
  BY DEF Prepare, RendererInv, RendererType
<1>5. /\ level' \in [Places -> Levels] /\ level'[Target(s)] = level[Target(s)]
      /\ \A e \in Places : e \notin {Target(s), Tmp(s)} => level'[e] = level[e]
  BY <1>1 DEF Prepare, RendererInv, RendererType, Levels
<1>6. starts'[s].at = "installing" /\ starts'[s].left = starts[s].left
  BY <1>1, <1>4 DEF StartRecord
<1>7. StartInv(s)'
  BY <1>1, <1>2, <1>4, <1>5, <1>6
     DEF StartInv, Young, TargetHolds, TmpHolds, Advances, Whole, SweptByOthers
<1>8. spoilt \in BOOLEAN /\ old \in SUBSET Places
  BY DEF RendererInv, RendererType
<1>. HIDE DEF now
<1>. QED
  BY <1>1, <1>2, <1>3, <1>4, <1>5, <1>7, <1>8, RunningStart

\* npm.
LEMMA InstallEndsKeeps ==
  ASSUME RendererInv, NEW s \in Starts, NEW outcome \in Outcomes(s), InstallEnds(s, outcome)
  PROVE  RendererInv'
<1>. DEFINE done == outcome.ok /\ NothingMissing(outcome.level)
            next == IF ~done THEN "failed" ELSE IF InPlace(s) THEN "serving" ELSE "promoting"
            now == [starts[s] EXCEPT !.fresh = TRUE, !.npm = ~done, !.at = next]
<1>1. /\ starts[s] \in StartRecord /\ StartInv(s) /\ starts[s].at = "installing"
      /\ StillRuns(s) /\ Target(s) \in Places /\ Tmp(s) \in Places /\ Target(s) # Tmp(s)
  BY Myself DEF InstallEnds, StillRuns, Over
<1>2. /\ outcome.level \in {"sources", "direct", "whole"} /\ outcome.ok \in BOOLEAN
      /\ outcome.ok => outcome.level # "direct"
  <2>1. CASE outcome \in {[ok |-> FALSE, level |-> l] : l \in Partial}
    <3>1. PICK l \in Partial : outcome = [ok |-> FALSE, level |-> l]
      BY <2>1
    <3>2. outcome.ok = FALSE /\ outcome.level = l
      BY <3>1
    <3>. QED
      BY <3>2 DEF Partial
  <2>2. CASE outcome \in {[ok |-> TRUE, level |-> l] : l \in {"sources", "whole"}}
    <3>1. PICK l \in {"sources", "whole"} : outcome = [ok |-> TRUE, level |-> l]
      BY <2>2
    <3>2. outcome.ok = TRUE /\ outcome.level = l
      BY <3>1
    <3>. QED
      BY <3>2
  <2>. QED
    BY <2>1, <2>2 DEF Outcomes
<1>3. done \in BOOLEAN /\ (done => outcome.level = "whole")
  BY <1>2 DEF NothingMissing
<1>4. /\ starts' = [starts EXCEPT ![s] = now] /\ starts'[s] = now
      /\ old' = old /\ swept' = swept /\ spoilt' = (spoilt \/ (InPlace(s) /\ ~done))
      /\ level' = [level EXCEPT ![InstallDir(s)] = outcome.level]
  BY DEF InstallEnds, RendererInv, RendererType
<1>5. /\ level' \in [Places -> Levels]
      /\ \A e \in Places : e \notin {Target(s), Tmp(s)} => level'[e] = level[e]
      /\ InPlace(s) => /\ level'[Tmp(s)] = level[Tmp(s)]
                       /\ level'[Target(s)] = "whole" \/ spoilt'
      /\ ~InPlace(s) => /\ level'[Target(s)] = level[Target(s)]
                        /\ done => level'[Tmp(s)] = "whole"
  BY <1>1, <1>2, <1>3, <1>4 DEF InstallDir, RendererInv, RendererType, Levels
<1>6. now \in StartRecord
  BY <1>1, <1>3 DEF StartRecord, StartStages
<1>7. /\ starts'[s].at = next /\ starts'[s].left = starts[s].left
      /\ next = "failed" => starts'[s].npm
  <2>. HIDE DEF done
  <2>1. starts'[s].at = next /\ starts'[s].left = starts[s].left
    <3>. HIDE DEF next
    <3>. QED
      BY <1>1, <1>4 DEF StartRecord
  <2>2. starts'[s].npm = ~done
    <3>. HIDE DEF next
    <3>. QED
      BY <1>1, <1>4, Zenon DEF StartRecord
  <2>. QED
    BY <1>3, <2>1, <2>2
<1>8. spoilt' \in BOOLEAN /\ old \in SUBSET Places /\ (spoilt => spoilt')
  BY <1>4, <1>3 DEF RendererInv, RendererType
<1>9. /\ next = "failed" => ~done
      /\ next = "promoting" => done /\ ~InPlace(s)
      /\ next = "serving" => done /\ InPlace(s)
      /\ next \in {"failed", "promoting", "serving"}
  OBVIOUS
<1>. HIDE DEF now, next, done
<1>10. StartInv(s)'
  <2>1. Young(s)'
    BY <1>1, <1>4, <1>7, <1>9 DEF StartInv, Young
  <2>2. TargetHolds(s)'
    BY <1>1, <1>4, <1>5 DEF StartInv, TargetHolds, Whole, SweptByOthers
  <2>3. TmpHolds(s)'
    BY <1>1, <1>5, <1>7, <1>9 DEF StartInv, TmpHolds
  <2>4. Advances(s)'
    BY <1>1, <1>4, <1>5, <1>7, <1>9 DEF StartInv, Advances, Whole
  <2>. QED
    BY <2>1, <2>2, <2>3, <2>4 DEF StartInv
<1>. QED
  BY <1>1, <1>4, <1>5, <1>6, <1>8, <1>10, RunningStart

LEMMA RenameKeeps ==
  ASSUME RendererInv, NEW s \in Starts, Rename(s)
  PROVE  RendererInv'
<1>. DEFINE left == {e \in Entries(s) : e # Tmp(s)}
            now == [starts[s] EXCEPT !.at = "pruning", !.left = left]
<1>1. /\ starts[s] \in StartRecord /\ StartInv(s) /\ starts[s].at = "promoting"
      /\ StillRuns(s) /\ Target(s) \in Places /\ Tmp(s) \in Places /\ Target(s) # Tmp(s)
  BY Myself DEF Rename, StillRuns, Over
<1>2. ~InPlace(s) /\ level[Tmp(s)] = "whole"
  BY <1>1 DEF StartInv, Advances, TmpHolds
<1>3. left \in SUBSET Places /\ \A e \in left : e # Target(s) /\ e.version # Checkout
  BY DEF Entries
<1>4. now \in StartRecord
  BY <1>1, <1>3 DEF StartRecord, StartStages
<1>5. /\ starts' = [starts EXCEPT ![s] = now] /\ starts'[s] = now
      /\ UNCHANGED <<old, swept, spoilt>>
      /\ level' = [level EXCEPT ![Target(s)] = "whole", ![Tmp(s)] = "absent"]
  BY <1>2 DEF Rename, RendererInv, RendererType
<1>6. /\ level' \in [Places -> Levels] /\ level'[Target(s)] = "whole"
      /\ level'[Tmp(s)] = "absent"
      /\ \A e \in Places : e \notin {Target(s), Tmp(s)} => level'[e] = level[e]
  BY <1>1, <1>5 DEF RendererInv, RendererType, Levels
<1>7. starts'[s].at = "pruning" /\ starts'[s].left = left
  BY <1>1, <1>5 DEF StartRecord
<1>8. spoilt \in BOOLEAN /\ old \in SUBSET Places
  BY DEF RendererInv, RendererType
<1>. HIDE DEF now, left
<1>9. StartInv(s)'
  BY <1>1, <1>2, <1>3, <1>5, <1>6, <1>7
     DEF StartInv, Young, TargetHolds, TmpHolds, Advances, Whole
<1>. QED
  BY <1>1, <1>2, <1>4, <1>5, <1>6, <1>8, <1>9, RunningStart


LEMMA RenameFailsKeeps ==
  ASSUME RendererInv, NEW s \in Starts, RenameFails(s)
  PROVE  RendererInv'
<1>. DEFINE now == [starts[s] EXCEPT !.at = "beaten"]
<1>1. /\ starts[s] \in StartRecord /\ StartInv(s) /\ starts[s].at = "promoting"
      /\ StillRuns(s)
  BY Myself DEF RenameFails, StillRuns, Over
<1>2. ~InPlace(s) /\ Whole(s)
  BY <1>1 DEF StartInv, Advances, TargetHolds, RenameFails
<1>3. now \in StartRecord
  BY <1>1 DEF StartRecord, StartStages
<1>4. /\ starts' = [starts EXCEPT ![s] = now] /\ starts'[s] = now
      /\ UNCHANGED <<level, old, swept, spoilt>>
  BY DEF RenameFails, RendererInv, RendererType
<1>5. starts'[s].at = "beaten" /\ starts'[s].left = starts[s].left
  BY <1>1, <1>4 DEF StartRecord
<1>6. spoilt \in BOOLEAN /\ level \in [Places -> Levels]
  BY DEF RendererInv, RendererType
<1>. HIDE DEF now
<1>7. StartInv(s)'
  BY <1>1, <1>2, <1>4, <1>5
     DEF StartInv, Young, TargetHolds, TmpHolds, Advances, Whole, SweptByOthers
<1>. QED
  BY <1>1, <1>2, <1>3, <1>4, <1>6, <1>7, RunningStart

LEMMA AfterRaceKeeps ==
  ASSUME RendererInv, NEW s \in Starts, AfterRace(s)
  PROVE  RendererInv'
<1>. DEFINE next == IF UsesTheirs(s) THEN "pruning" ELSE "failed"
            left == IF UsesTheirs(s) THEN {e \in Entries(s) : e # Tmp(s)} ELSE {}
            now == [starts[s] EXCEPT !.at = next, !.left = left]
<1>1. /\ starts[s] \in StartRecord /\ StartInv(s) /\ starts[s].at = "beaten"
      /\ StillRuns(s) /\ Target(s) \in Places /\ Tmp(s) \in Places /\ Target(s) # Tmp(s)
  BY Myself DEF AfterRace, StillRuns, Over
<1>2. ~InPlace(s) /\ Whole(s)
  BY <1>1 DEF StartInv, Advances
<1>3. UsesTheirs(s) \/ SweptByOthers(s)
  BY <1>2 DEF Whole, UsesTheirs, NothingMissing
<1>4. left \in SUBSET Places /\ \A e \in left : e # Target(s) /\ e.version # Checkout
  BY DEF Entries
<1>5. next \in {"pruning", "failed"} /\ (next = "pruning" <=> UsesTheirs(s))
  OBVIOUS
<1>6. /\ starts' = [starts EXCEPT ![s] = now] /\ starts'[s] = now
      /\ UNCHANGED <<old, swept, spoilt>>
  BY DEF AfterRace, RendererInv, RendererType
<1>7. /\ level' \in [Places -> Levels] /\ level'[Target(s)] = level[Target(s)]
      /\ \A e \in Places : e \notin {Target(s), Tmp(s)} => level'[e] = level[e]
      /\ UsesTheirs(s) => level'[Tmp(s)] = "absent"
  BY <1>1 DEF AfterRace, RendererInv, RendererType, Levels
<1>. HIDE DEF left, next
<1>8. now \in StartRecord
  BY <1>1, <1>4, <1>5 DEF StartRecord, StartStages
<1>9. starts'[s].at = next /\ starts'[s].left = left
  BY <1>1, <1>6 DEF StartRecord
<1>10. spoilt \in BOOLEAN /\ old \in SUBSET Places
  BY DEF RendererInv, RendererType
<1>. HIDE DEF now
<1>11. Whole(s)' /\ (SweptByOthers(s) => SweptByOthers(s)')
  BY <1>2, <1>6, <1>7 DEF Whole, SweptByOthers
<1>12. StartInv(s)'
  BY <1>1, <1>2, <1>3, <1>4, <1>5, <1>6, <1>7, <1>9, <1>11
     DEF StartInv, Young, TargetHolds, TmpHolds, Advances
<1>. QED
  BY <1>1, <1>2, <1>6, <1>7, <1>8, <1>10, <1>12, RunningStart

\* An entry that is passed over, and the end of the housekeeping.
LEMMA PruningKeeps ==
  ASSUME RendererInv, NEW s \in Starts,
         HandOver(s) \/ \E e \in starts[s].left : SkipEntry(s, e)
  PROVE  RendererInv'
<1>1. /\ starts[s] \in StartRecord /\ StartInv(s) /\ starts[s].at = "pruning"
      /\ StillRuns(s)
  BY Myself DEF HandOver, SkipEntry, StillRuns, Over
<1>2. ~InPlace(s) /\ Whole(s)
  BY <1>1 DEF StartInv, Advances
<1>3. /\ UNCHANGED <<level, old, swept, spoilt>>
      /\ spoilt \in BOOLEAN /\ level \in [Places -> Levels]
  BY DEF HandOver, SkipEntry, RendererInv, RendererType
<1>4. PICK now \in StartRecord :
        /\ starts' = [starts EXCEPT ![s] = now]
        /\ now.at \in {"pruning", "serving"} /\ now.left \in SUBSET starts[s].left
        /\ now.fresh = starts[s].fresh
  <2>1. CASE HandOver(s)
    <3>. DEFINE now == [starts[s] EXCEPT !.at = "serving"]
    <3>1. now \in StartRecord /\ now.at = "serving" /\ now.left = starts[s].left
      BY <1>1 DEF StartRecord, StartStages
    <3>2. now.fresh = starts[s].fresh
      BY <1>1, Zenon DEF StartRecord
    <3>3. starts' = [starts EXCEPT ![s] = now]
      BY <2>1 DEF HandOver
    <3>. QED
      BY <3>1, <3>2, <3>3
  <2>2. CASE \E e \in starts[s].left : SkipEntry(s, e)
    <3>1. PICK e \in starts[s].left : SkipEntry(s, e)
      BY <2>2
    <3>. DEFINE now == [starts[s] EXCEPT !.left = starts[s].left \ {e}]
    <3>2. now \in StartRecord /\ now.at = "pruning" /\ now.left = starts[s].left \ {e}
      BY <1>1 DEF StartRecord
    <3>3. now.fresh = starts[s].fresh
      BY <1>1, Zenon DEF StartRecord
    <3>4. starts' = [starts EXCEPT ![s] = now]
      BY <3>1 DEF SkipEntry
    <3>. QED
      BY <3>2, <3>3, <3>4
  <2>. QED
    BY <2>1, <2>2
<1>5. starts'[s] = now
  BY <1>4 DEF RendererInv, RendererType
<1>6. StartInv(s)'
  BY <1>1, <1>2, <1>3, <1>4, <1>5
     DEF StartInv, Young, TargetHolds, TmpHolds, Advances, Whole, SweptByOthers
<1>7. old \in SUBSET Places
  BY DEF RendererInv, RendererType
<1>. QED
  BY <1>1, <1>2, <1>3, <1>4, <1>6, <1>7, RunningStart


LEMMA KilledKeeps ==
  ASSUME RendererInv, NEW s \in Starts, NEW l, Killed(s, l)
  PROVE  RendererInv'
<1>. DEFINE now == [starts[s] EXCEPT !.at = "dead", !.left = {}]
<1>1. /\ starts[s] \in StartRecord /\ StartInv(s) /\ StillRuns(s)
      /\ Target(s) \in Places /\ Tmp(s) \in Places /\ Target(s) # Tmp(s)
  BY Myself DEF Killed, StillRuns
<1>2. now \in StartRecord
  BY <1>1 DEF StartRecord, StartStages
<1>3. /\ starts' = [starts EXCEPT ![s] = now] /\ starts'[s] = now
      /\ UNCHANGED <<old, swept>>
      /\ spoilt' = (spoilt \/ (starts[s].at = "installing" /\ InPlace(s)))
  BY DEF Killed, RendererInv, RendererType
<1>4. spoilt' \in BOOLEAN /\ (spoilt => spoilt') /\ old \in SUBSET Places
  BY <1>3 DEF RendererInv, RendererType
<1>5. /\ level' \in [Places -> Levels]
      /\ \A e \in Places : e \notin {Target(s), Tmp(s)} => level'[e] = level[e]
      /\ InPlace(s) => /\ level'[Tmp(s)] = level[Tmp(s)]
                       /\ level'[Target(s)] \in {level[Target(s)], "whole"} \/ spoilt'
      /\ ~InPlace(s) => level'[Target(s)] = level[Target(s)]
  <2>1. CASE starts[s].at = "installing"
    <3>1. l \in Levels /\ level' = [level EXCEPT ![InstallDir(s)] = l]
      BY <2>1 DEF Killed, Partial, Levels
    <3>. QED
      BY <2>1, <3>1, <1>1, <1>3 DEF InstallDir, RendererInv, RendererType
  <2>2. CASE starts[s].at # "installing"
    BY <2>2 DEF Killed, RendererInv, RendererType
  <2>. QED
    BY <2>1, <2>2
<1>6. starts'[s].at = "dead" /\ starts'[s].left = {}
  BY <1>1, <1>3 DEF StartRecord
<1>. HIDE DEF now
<1>7. StartInv(s)'
  BY <1>1, <1>3, <1>4, <1>5, <1>6
     DEF StartInv, Young, TargetHolds, TmpHolds, Advances, Whole, SweptByOthers
<1>. QED
  BY <1>1, <1>2, <1>3, <1>4, <1>5, <1>7, RunningStart

\* The housekeeping of s takes something from a directory of another version, which that
\* version's history tells, or from a temporary one that nobody runs with.
LEMMA RemoveSomeKeeps ==
  ASSUME RendererInv, NEW s \in Starts, NEW e \in starts[s].left, NEW l \in Below(level[e]),
         RemoveSome(s, e, l)
  PROVE  RendererInv'
<1>1. /\ starts[s] \in StartRecord /\ StartInv(s) /\ e \in Places
  BY Myself DEF StartRecord
<1>2. e # Target(s) /\ e.version # Checkout
  BY <1>1 DEF StartInv, Advances
<1>3. l \in Levels /\ level[e] # "absent" /\ level[e] \in Levels
  BY <1>1 DEF RendererInv, RendererType, Levels, Below
<1>4. /\ level' = [level EXCEPT ![e] = l] /\ level' \in [Places -> Levels]
      /\ old' \in SUBSET old /\ old' \in SUBSET Places
      /\ spoilt' = spoilt /\ (e.kind = "target" \/ e \in old)
      /\ swept' = swept \cup {[place |-> e, by |-> VersionOf[s]]}
  BY <1>1, <1>3 DEF RemoveSome, RendererInv, RendererType, Prunable
<1>5. PICK now \in StartRecord :
        /\ starts' = [starts EXCEPT ![s] = now]
        /\ now.at = starts[s].at /\ now.left \in SUBSET starts[s].left
        /\ now.fresh = starts[s].fresh /\ now.npm = starts[s].npm
  <2>1. CASE l = "absent"
    <3>. DEFINE now == [starts[s] EXCEPT !.left = starts[s].left \ {e}]
    <3>1. now \in StartRecord /\ now.at = starts[s].at /\ now.left = starts[s].left \ {e}
      BY <1>1 DEF StartRecord
    <3>2. now.fresh = starts[s].fresh /\ now.npm = starts[s].npm
      BY <1>1, Zenon DEF StartRecord
    <3>3. starts' = [starts EXCEPT ![s] = now]
      BY <2>1 DEF RemoveSome
    <3>. QED
      BY <3>1, <3>2, <3>3
  <2>2. CASE l # "absent"
    <3>1. starts' = [starts EXCEPT ![s] = starts[s]]
      BY <2>2 DEF RemoveSome, RendererInv, RendererType
    <3>. QED
      BY <1>1, <3>1
  <2>. QED
    BY <2>1, <2>2
<1>6. \A q \in Starts : /\ starts'[q].at = starts[q].at /\ starts'[q].fresh = starts[q].fresh
                        /\ starts'[q].npm = starts[q].npm
                        /\ starts'[q].left \in SUBSET starts[q].left
  BY <1>5 DEF RendererInv, RendererType
<1>7. RendererType'
  BY <1>4, <1>5 DEF RendererInv, RendererType, StartRecord
<1>8. OnePidOnce'
  BY <1>6 DEF RendererInv, OnePidOnce, StillRuns
<1>9. ASSUME NEW q \in Starts
      PROVE  StartInv(q)'
  <2>1. /\ StartInv(q) /\ Target(q) \in Places /\ Tmp(q) \in Places /\ Target(q) # Tmp(q)
        /\ Target(q).version = VersionOf[q] /\ Tmp(q).version = VersionOf[q]
        /\ Tmp(q).kind = "tmp"
    BY PlaceFacts DEF RendererInv
  <2>2. SweptByOthers(q) => SweptByOthers(q)'
    BY <1>4 DEF SweptByOthers
  <2>3. Young(q)'
    BY <1>4, <1>6, <2>1 DEF StartInv, Young
  <2>4. CASE e = Target(q)
    <3>1. VersionOf[q] # VersionOf[s] /\ ~InPlace(q)
      BY <1>2, <2>1, <2>4, PlaceFacts DEF InPlace
    <3>. DEFINE trace == [place |-> e, by |-> VersionOf[s]]
    <3>2. SweptByOthers(q)'
      <4>1. trace \in swept' /\ trace.place = e /\ trace.by = VersionOf[s]
        BY <1>4
      <4>. QED
        BY <2>4, <3>1, <4>1 DEF SweptByOthers, Target
    <3>3. level'[Tmp(q)] = level[Tmp(q)]
      BY <1>4, <2>1, <2>4
    <3>. QED
      BY <1>4, <1>6, <2>1, <2>3, <3>1, <3>2, <3>3
         DEF StartInv, TargetHolds, TmpHolds, Advances, Whole
  <2>5. CASE e = Tmp(q)
    <3>1. ~InPlace(q) /\ e \in old
      BY <1>2, <1>4, <2>1, <2>5 DEF InPlace
    <3>2. level'[Target(q)] = level[Target(q)]
      BY <1>4, <2>1, <2>5
    <3>. QED
      BY <1>3, <1>4, <1>6, <2>1, <2>2, <2>3, <2>5, <3>1, <3>2
         DEF StartInv, Young, TargetHolds, TmpHolds, Advances, Whole
  <2>6. CASE e \notin {Target(q), Tmp(q)}
    <3>1. level'[Target(q)] = level[Target(q)] /\ level'[Tmp(q)] = level[Tmp(q)]
      BY <1>4, <2>1, <2>6
    <3>. QED
      BY <1>4, <1>6, <2>1, <2>2, <2>3, <3>1
         DEF StartInv, TargetHolds, TmpHolds, Advances, Whole
  <2>. QED
    BY <2>4, <2>5, <2>6
<1>. QED
  BY <1>7, <1>8, <1>9 DEF RendererInv

LEMMA ADayPassesKeeps ==
  ASSUME RendererInv, ADayPasses
  PROVE  RendererInv'
<1>1. RendererType' /\ OnePidOnce'
  BY DEF ADayPasses, RendererInv, RendererType, OnePidOnce, StillRuns
<1>2. ASSUME NEW s \in Starts
      PROVE  StartInv(s)'
  BY DEF ADayPasses, RendererInv, StartInv, Young, TargetHolds, TmpHolds, Advances, Whole,
         SweptByOthers
<1>. QED
  BY <1>1, <1>2 DEF RendererInv

LEMMA NextRenderer == RendererInv /\ [MaterializeNext]_mzVars => RendererInv'
<1>. SUFFICES ASSUME RendererInv, [MaterializeNext]_mzVars
              PROVE  RendererInv'
  OBVIOUS
<1>1. ASSUME NEW s \in Starts, MaterializeRenderer(s)
      PROVE  RendererInv'
  BY <1>1, MaterializeRendererKeeps
<1>2. ASSUME NEW s \in Starts, Prepare(s)
      PROVE  RendererInv'
  BY <1>2, PrepareKeeps
<1>3. ASSUME NEW s \in Starts, NEW outcome \in Outcomes(s), InstallEnds(s, outcome)
      PROVE  RendererInv'
  BY <1>3, InstallEndsKeeps
<1>4. ASSUME NEW s \in Starts, Rename(s) \/ RenameFails(s) \/ AfterRace(s)
      PROVE  RendererInv'
  BY <1>4, RenameKeeps, RenameFailsKeeps, AfterRaceKeeps
<1>5. ASSUME NEW s \in Starts, HandOver(s) \/ \E e \in starts[s].left : SkipEntry(s, e)
      PROVE  RendererInv'
  BY <1>5, PruningKeeps
<1>6. ASSUME NEW s \in Starts, NEW e \in starts[s].left, NEW l \in Below(level[e]),
             RemoveSome(s, e, l)
      PROVE  RendererInv'
  BY <1>6, RemoveSomeKeeps
<1>7. ASSUME NEW s \in Starts, NEW l, Killed(s, l)
      PROVE  RendererInv'
  BY <1>7, KilledKeeps
<1>8. CASE ADayPasses
  BY <1>8, ADayPassesKeeps
<1>9. CASE UNCHANGED mzVars
  <2>1. RendererType' /\ OnePidOnce'
    BY <1>9 DEF mzVars, RendererInv, RendererType, OnePidOnce, StillRuns
  <2>2. \A s \in Starts : StartInv(s)'
    BY <1>9 DEF mzVars, RendererInv, StartInv, Young, TargetHolds, TmpHolds, Advances, Whole,
                SweptByOthers
  <2>. QED
    BY <2>1, <2>2 DEF RendererInv
<1>. QED
  BY <1>1, <1>2, <1>3, <1>4, <1>5, <1>6, <1>7, <1>8, <1>9 DEF MaterializeNext

\* What is beside the renderers in a session does nothing to them.
LEMMA SessionMaterializes ==
  /\ SessionInit => MaterializeInit
  /\ [SessionNext]_sessionVars => [MaterializeNext]_mzVars
  BY DEF SessionInit, SessionNext, UseState, UseRenderer, UseTypes, NotState, NotTypes,
         sessionVars

\* Every running process differs from the others in its id, writes a directory that nobody
\* sweeps, and renames a whole one: for any processes and versions.
THEOREM RenderersInvariant == SessionSpec => []RendererInv
<1>1. SessionInit => RendererInv
  BY InitRenderer, SessionMaterializes
<1>2. RendererInv /\ [SessionNext]_sessionVars => RendererInv'
  BY NextRenderer, SessionMaterializes
<1>. QED
  BY <1>1, <1>2, PTL DEF SessionSpec

\* materializeRenderer(): who is handed a renderer has the whole tree, and a start fails only
\* if npm did, unless another version's housekeeping interfered, however many processes of
\* however many versions start, race, are killed and sweep.
THEOREM RenderersAreHeld == SessionSpec => []RenderersHold
<1>1. RendererInv => RenderersHold
  <2>. SUFFICES ASSUME RendererInv, NEW s \in Starts
                PROVE  /\ starts[s].at = "serving" =>
                            \/ level[Target(s)] = "whole" \/ SweptByOthers(s)
                            \/ (InPlace(s) /\ spoilt)
                       /\ starts[s].at = "failed" => starts[s].npm \/ SweptByOthers(s)
                       /\ (starts[s].at = "serving" /\ starts[s].fresh)
                             => level[Tmp(s)] = "absent"
    BY DEF RenderersHold, InstallsAreWhole, StartsFailForCause
  <2>. QED
    BY DEF RendererInv, StartInv, TmpHolds, Advances, Whole
<1>. QED
  BY <1>1, RenderersInvariant, PTL

-----------------------------------------------------------------------------
(* What the type checker shows *)

OfDiagnostic(d) == Line("diagnostic", d)
Lines == {Starting, Found} \cup {OfDiagnostic(d) : d \in Diagnostics}
WatchRecords == [at : {"off", "checking", "idle", "dead"}, seen : SUBSET Diagnostics,
                 dirty : BOOLEAN, own : BOOLEAN]

CheckerTyped ==
  /\ watch \in WatchRecords
  /\ faults \in SUBSET Diagnostics /\ ownConfig \in BOOLEAN
  /\ pipe \in Seq(Lines) /\ buffer \in Seq(Lines)
  /\ mixed \in [report : BOOLEAN, rest : BOOLEAN]
  /\ DOMAIN tabs = Tabs

(* A diagnostic among the lines from a place on. *)
Shows(lines, first, d) == \E i \in first..Len(lines) : lines[i] = OfDiagnostic(d)

(* What is printed and not yet reported, after the place p where the cycle before the last *)
(* one ended: of a cycle under way there are no diagnostics yet, of one that has ended     *)
(* there are exactly those of what it checked.                                             *)
CycleFrom(p, w, lines, before, rest) ==
  /\ p > 0 => lines[p] = Found
  /\ w.at = "checking" =>
       /\ \A i \in p + 1..Len(lines) : lines[i] = Starting
       /\ p = 0 /\ ~rest => \A d \in Diagnostics : ~Shows(before, 1, d)
  /\ w.at = "idle" /\ lines # <<>> =>
       /\ p < Len(lines) /\ lines[Len(lines)] = Found
       /\ \A i \in p + 1..Len(lines) : i # Len(lines) => lines[i] # Found
       /\ p > 0 => \A d \in Diagnostics : d \in w.seen <=> Shows(lines, p + 1, d)
       /\ p = 0 /\ ~rest =>
            \A d \in Diagnostics : d \in w.seen <=> Shows(lines, 1, d) \/ Shows(before, 1, d)
  /\ w.at = "idle" /\ lines = <<>> => before = <<>> /\ ~rest

(* What the last cycle found is shown when all it printed was read. *)
Informed(w, report, knows, told) ==
  w.at = "idle" /\ ~report =>
    /\ knows = [errors |-> Kept(w.seen, w.own), checking |-> FALSE]
    /\ told = Told(Kept(w.seen, w.own), Critical(Kept(w.seen, w.own)), FALSE)

CheckerInv ==
  /\ CheckerTyped
  /\ \E p \in 0..Len(pipe) : CycleFrom(p, watch, pipe, buffer, mixed.rest)
  /\ \A i \in 1..Len(buffer) : buffer[i] # Found
  /\ watch.at = "off" => pipe = <<>> /\ buffer = <<>> /\ ~mixed.rest
  /\ watch.at # "off" => tsc # "none"
  /\ watch.at \in {"checking", "idle"} /\ ~watch.dirty => watch.seen = faults
  /\ \A t \in Tabs : tabs[t] # Closed => tabs[t] = lastTypeErrors
  /\ pipe = <<>> => Informed(watch, mixed.report, known, lastTypeErrors)

(* The lines are of three kinds, and differ. *)
LEMMA LinesDiffer ==
    /\ Starting \in Lines /\ Found \in Lines /\ Starting # Found
    /\ \A d \in Diagnostics : /\ OfDiagnostic(d) \in Lines
                              /\ OfDiagnostic(d) # Starting /\ OfDiagnostic(d) # Found
    /\ \A l \in Lines : /\ l = Starting \/ l = Found \/ \E d \in Diagnostics : l = OfDiagnostic(d)
                        /\ l.kind = "found" <=> l = Found
                        /\ l.kind = "diagnostic" <=> \E d \in Diagnostics : l = OfDiagnostic(d)
PROOF
  <1>1. /\ Starting.kind = "start" /\ Found.kind = "found"
        /\ \A d \in Diagnostics : OfDiagnostic(d).kind = "diagnostic"
    BY DEF Starting, Found, OfDiagnostic, Line
  <1>2. /\ Starting \in Lines /\ Found \in Lines
        /\ \A d \in Diagnostics : OfDiagnostic(d) \in Lines
    BY DEF Lines
  <1>3. \A l \in Lines : l = Starting \/ l = Found \/ \E d \in Diagnostics : l = OfDiagnostic(d)
    BY DEF Lines
  <1>4. /\ Starting # Found
        /\ \A d \in Diagnostics : OfDiagnostic(d) # Starting /\ OfDiagnostic(d) # Found
    BY <1>1
  <1>5. ASSUME NEW l \in Lines
        PROVE  /\ l.kind = "found" <=> l = Found
               /\ l.kind = "diagnostic" <=> \E d \in Diagnostics : l = OfDiagnostic(d)
    BY <1>1, <1>3
  <1> QED BY <1>2, <1>3, <1>4, <1>5

(* What processOutput() makes of some lines. *)
LEMMA WhatLinesSay ==
    ASSUME NEW s \in Seq(Lines)
    PROVE  /\ ErrorsIn(s) = {d \in Diagnostics : Shows(s, 1, d)}
           /\ "found" \in KindsIn(s) <=> \E i \in 1..Len(s) : s[i] = Found
PROOF
  <1>1. DOMAIN s = 1..Len(s) /\ \A i \in 1..Len(s) : s[i] \in Lines
    OBVIOUS
  <1>2. "found" \in KindsIn(s) <=> \E i \in 1..Len(s) : s[i] = Found
    BY <1>1, LinesDiffer DEF KindsIn
  <1>3. ASSUME NEW d \in ErrorsIn(s) PROVE d \in Diagnostics /\ Shows(s, 1, d)
    <2>1. PICK i \in 1..Len(s) : s[i].kind = "diagnostic" /\ d = s[i].d
      BY <1>1, <1>3 DEF ErrorsIn
    <2>2. PICK e \in Diagnostics : s[i] = OfDiagnostic(e)
      BY <1>1, <2>1, LinesDiffer
    <2>3. d = e
      BY <2>1, <2>2 DEF OfDiagnostic, Line
    <2> QED BY <2>2, <2>3 DEF Shows
  <1>4. ASSUME NEW d \in Diagnostics, Shows(s, 1, d) PROVE d \in ErrorsIn(s)
    <2>1. PICK i \in 1..Len(s) : s[i] = OfDiagnostic(d)
      BY <1>4 DEF Shows
    <2>2. s[i].kind = "diagnostic" /\ s[i].d = d
      BY <2>1 DEF OfDiagnostic, Line
    <2> QED BY <1>1, <2>1, <2>2 DEF ErrorsIn
  <1> QED BY <1>2, <1>3, <1>4

(* A cycle prints the diagnostics of what it checks. *)
LEMMA DiagnosticsPrinted ==
    ASSUME NEW seen \in SUBSET Diagnostics,
           NEW printed, printed = [i \in 1..Cardinality(seen) |->
                                     Line("diagnostic", SetToSeq(seen)[i])]
    PROVE  /\ printed \in Seq(Lines)
           /\ \A i \in 1..Len(printed) : printed[i] # Found
           /\ \A d \in Diagnostics : d \in seen <=> Shows(printed, 1, d)
PROOF
  <1>1. IsFiniteSet(seen)
    BY DiagnosticsAssumption, FS_Subset
  <1>2. PICK n \in Nat : n = Cardinality(seen)
    BY <1>1, SetAsSequence
  <1>3. PICK f : f = SetToSeq(seen)
    OBVIOUS
  <1>4. f \in [1..n -> seen] /\ \A x \in seen : \E i \in 1..n : f[i] = x
    BY <1>1, <1>2, <1>3, SetAsSequence
  <1>5. printed = [i \in 1..n |-> OfDiagnostic(f[i])]
    BY <1>2, <1>3 DEF OfDiagnostic
  <1>6. \A i \in 1..n : f[i] \in Diagnostics /\ OfDiagnostic(f[i]) \in Lines
    BY <1>4, LinesDiffer
  <1>7. printed \in [1..n -> Lines]
    BY <1>5, <1>6
  <1>8. printed \in Seq(Lines) /\ Len(printed) = n
    <2>1. printed \in Seq(Lines)
      BY <1>2, <1>7, SeqDef
    <2>2. DOMAIN printed = 1..n
      BY <1>7
    <2> QED BY <1>2, <2>1, <2>2, LenProperties
  <1>9. \A i \in 1..n : printed[i] # Found
    BY <1>5, <1>6, LinesDiffer
  <1>10. ASSUME NEW d \in Diagnostics PROVE d \in seen <=> Shows(printed, 1, d)
    <2>1. ASSUME d \in seen PROVE Shows(printed, 1, d)
      <3>1. PICK i \in 1..n : f[i] = d
        BY <1>4, <2>1
      <3>2. printed[i] = OfDiagnostic(d)
        BY <1>5, <3>1
      <3> QED BY <1>8, <3>2 DEF Shows
    <2>2. ASSUME Shows(printed, 1, d) PROVE d \in seen
      <3>1. PICK i \in 1..n : printed[i] = OfDiagnostic(d)
        BY <1>8, <2>2 DEF Shows
      <3>2. OfDiagnostic(f[i]) = OfDiagnostic(d)
        BY <1>5, <3>1
      <3>3. f[i] = d
        BY <3>2 DEF OfDiagnostic, Line
      <3> QED BY <1>4, <3>3
    <2> QED BY <2>1, <2>2
  <1> QED BY <1>8, <1>9, <1>10

(* Lines after lines show what both show. *)
LEMMA BothShow ==
    ASSUME NEW a \in Seq(Lines), NEW b \in Seq(Lines)
    PROVE  /\ a \o b \in Seq(Lines) /\ Len(a \o b) = Len(a) + Len(b)
           /\ \A i \in 1..Len(a) : (a \o b)[i] = a[i]
           /\ \A i \in 1..Len(b) : (a \o b)[Len(a) + i] = b[i]
           /\ \A i \in 1..Len(a \o b) : i \in 1..Len(a) \/ i - Len(a) \in 1..Len(b)
           /\ \A d : Shows(a \o b, 1, d) <=> Shows(a, 1, d) \/ Shows(b, 1, d)
PROOF
  <1>1. PICK c : c = a \o b
    OBVIOUS
  <1>2. PICK n \in Nat, m \in Nat : n = Len(a) /\ m = Len(b)
    OBVIOUS
  <1>3. /\ c \in Seq(Lines) /\ Len(c) = n + m
        /\ \A i \in 1..(n + m) : c[i] = IF i <= n THEN a[i] ELSE b[i - n]
    BY <1>1, <1>2, ConcatProperties
  <1>4. \A i \in 1..n : i \in 1..(n + m) /\ c[i] = a[i]
    BY <1>3
  <1>5. ASSUME NEW i \in 1..m PROVE n + i \in 1..(n + m) /\ c[n + i] = b[i]
    <2>1. n + i \in 1..(n + m) /\ ~(n + i <= n) /\ (n + i) - n = i
      OBVIOUS
    <2> QED BY <1>3, <2>1
  <1>6. ASSUME NEW i \in 1..(n + m)
        PROVE  i \in 1..n \/ (i - n \in 1..m /\ n + (i - n) = i)
    OBVIOUS
  <1>7. ASSUME NEW d PROVE Shows(c, 1, d) <=> Shows(a, 1, d) \/ Shows(b, 1, d)
    <2>1. ASSUME Shows(c, 1, d) PROVE Shows(a, 1, d) \/ Shows(b, 1, d)
      <3>1. PICK i \in 1..(n + m) : c[i] = OfDiagnostic(d)
        BY <1>3, <2>1 DEF Shows
      <3>2. CASE i \in 1..n
        BY <1>2, <1>4, <3>1, <3>2 DEF Shows
      <3>3. CASE i - n \in 1..m /\ n + (i - n) = i
        <4>1. b[i - n] = OfDiagnostic(d)
          BY <1>5, <3>1, <3>3
        <4> QED BY <1>2, <3>3, <4>1 DEF Shows
      <3> QED BY <1>6, <3>2, <3>3
    <2>2. ASSUME Shows(a, 1, d) PROVE Shows(c, 1, d)
      BY <1>2, <1>3, <1>4, <2>2 DEF Shows
    <2>3. ASSUME Shows(b, 1, d) PROVE Shows(c, 1, d)
      BY <1>2, <1>3, <1>5, <2>3 DEF Shows
    <2> QED BY <2>1, <2>2, <2>3
  <1> QED BY <1>1, <1>2, <1>3, <1>4, <1>5, <1>6, <1>7

(* The watch begins with the first line of a cycle. *)
LEMMA WatchStarts ==
    ASSUME CheckerInv, StartWatch
    PROVE  CheckerInv'
PROOF
  <1>1. /\ watch.at = "off" /\ tsc # "none" /\ pipe' = <<Starting>>
        /\ watch' = [at |-> "checking", seen |-> faults, dirty |-> FALSE, own |-> ownConfig]
        /\ UNCHANGED <<tsc, proxied, faults, ownConfig, buffer, lastTypeErrors, tabs, mixed>>
    BY DEF StartWatch
  <1>2. faults \in SUBSET Diagnostics /\ ownConfig \in BOOLEAN
    BY DEF CheckerInv, CheckerTyped
  <1>3. watch' \in WatchRecords /\ watch'.at = "checking" /\ watch'.seen = faults
    BY <1>1, <1>2 DEF WatchRecords
  <1>4. pipe' \in Seq(Lines) /\ Len(pipe') = 1 /\ pipe'[1] = Starting /\ pipe' # <<>>
    BY <1>1, LinesDiffer, OneElement
  <1>5. buffer = <<>> /\ Len(buffer) = 0
    BY <1>1, EmptySeq DEF CheckerInv
  <1>6. CycleFrom(0, watch', pipe', buffer', mixed'.rest)
    BY <1>1, <1>3, <1>4, <1>5 DEF CycleFrom, Shows
  <1>7. 0 \in 0..Len(pipe')
    BY <1>4
  <1>8. CheckerTyped'
    BY <1>1, <1>2, <1>3, <1>4 DEF CheckerInv, CheckerTyped
  <1> QED BY <1>1, <1>3, <1>4, <1>5, <1>6, <1>7, <1>8 DEF CheckerInv

(* A cycle that ends has printed its diagnostics. *)
LEMMA WatchEnds ==
    ASSUME CheckerInv, CycleEnds
    PROVE  CheckerInv'
PROOF
  <1> DEFINE printed == [i \in 1..Cardinality(watch.seen) |->
                           Line("diagnostic", SetToSeq(watch.seen)[i])]
  <1>1. /\ watch.at = "checking" /\ watch' = [watch EXCEPT !.at = "idle"]
        /\ pipe' = (pipe \o printed) \o <<Found>>
        /\ UNCHANGED <<tsc, proxied, faults, ownConfig, buffer, known, lastTypeErrors, tabs, mixed>>
    BY DEF CycleEnds
  <1>2. watch \in WatchRecords /\ pipe \in Seq(Lines)
    BY DEF CheckerInv, CheckerTyped
  <1>3. /\ watch' \in WatchRecords /\ watch'.at = "idle" /\ watch'.seen = watch.seen
        /\ watch'.dirty = watch.dirty /\ watch'.own = watch.own
    BY <1>1, <1>2 DEF WatchRecords
  <1>4. watch.seen \in SUBSET Diagnostics
    BY <1>2 DEF WatchRecords
  <1>5. /\ printed \in Seq(Lines)
        /\ \A i \in 1..Len(printed) : printed[i] # Found
        /\ \A d \in Diagnostics : d \in watch.seen <=> Shows(printed, 1, d)
    BY <1>4, DiagnosticsPrinted
  <1> HIDE DEF printed
  <1>6. PICK n \in Nat, k \in Nat : n = Len(pipe) /\ k = Len(printed)
    BY <1>2, <1>5
  <1>7. PICK s : s = pipe \o printed
    OBVIOUS
  <1>8. /\ s \in Seq(Lines) /\ Len(s) = n + k
        /\ \A i \in 1..n : s[i] = pipe[i]
        /\ \A i \in 1..k : s[n + i] = printed[i]
        /\ \A i \in 1..(n + k) : i \in 1..n \/ i - n \in 1..k
    BY <1>2, <1>5, <1>6, <1>7, BothShow
  <1>9. <<Found>> \in Seq(Lines) /\ Len(<<Found>>) = 1 /\ <<Found>>[1] = Found
    BY LinesDiffer, OneElement
  <1>10. /\ pipe' \in Seq(Lines) /\ Len(pipe') = n + k + 1
         /\ \A i \in 1..(n + k) : pipe'[i] = s[i]
         /\ pipe'[n + k + 1] = Found
    <2>1. pipe' = s \o <<Found>>
      BY <1>1, <1>7
    <2>2. PICK one : one = <<Found>>
      OBVIOUS
    <2>3. 1 \in 1..Len(one) /\ one \in Seq(Lines) /\ Len(one) = 1 /\ one[1] = Found
      BY <1>9, <2>2
    <2>4. /\ pipe' \in Seq(Lines) /\ Len(pipe') = Len(s) + Len(one)
          /\ \A i \in 1..Len(s) : pipe'[i] = s[i]
          /\ \A i \in 1..Len(one) : pipe'[Len(s) + i] = one[i]
      BY <1>8, <2>1, <2>2, <2>3, BothShow
    <2> QED BY <1>8, <2>3, <2>4
  <1>11. pipe' # <<>>
    BY <1>10, EmptySeq
  <1>12. PICK p \in 0..n : CycleFrom(p, watch, pipe, buffer, mixed.rest)
    BY <1>6 DEF CheckerInv
  <1>13. /\ p > 0 => pipe[p] = Found
         /\ \A i \in p + 1..n : pipe[i] = Starting
         /\ p = 0 /\ ~mixed.rest => \A d \in Diagnostics : ~Shows(buffer, 1, d)
    BY <1>1, <1>6, <1>12 DEF CycleFrom
  <1>14. p > 0 => pipe'[p] = Found
    <2>1. p > 0 => p \in 1..n /\ p \in 1..(n + k)
      OBVIOUS
    <2> QED BY <1>8, <1>10, <1>13, <2>1
  <1>15. ASSUME NEW i \in p + 1..(n + k)
         PROVE  \/ pipe'[i] = Starting
                \/ i - n \in 1..k /\ pipe'[i] = printed[i - n]
    <2>1. i \in 1..(n + k)
      OBVIOUS
    <2>2. CASE i \in 1..n
      <3>1. i \in p + 1..n
        BY <2>2
      <3> QED BY <1>8, <1>10, <1>13, <2>1, <2>2, <3>1
    <2>3. CASE i - n \in 1..k
      <3>1. n + (i - n) = i
        BY <2>1
      <3> QED BY <1>8, <1>10, <2>1, <2>3, <3>1
    <2> QED BY <1>8, <2>1, <2>2, <2>3
  <1>16. ASSUME NEW i \in p + 1..(n + k + 1), i # n + k + 1
         PROVE  pipe'[i] # Found
    <2>1. i \in p + 1..(n + k)
      BY <1>16
    <2>2. CASE pipe'[i] = Starting
      BY <2>2, LinesDiffer
    <2>3. CASE i - n \in 1..k /\ pipe'[i] = printed[i - n]
      BY <1>5, <1>6, <2>3
    <2> QED BY <1>15, <2>1, <2>2, <2>3
  <1>17. ASSUME NEW d \in Diagnostics
         PROVE  d \in watch.seen <=> Shows(pipe', p + 1, d)
    <2>1. ASSUME d \in watch.seen PROVE Shows(pipe', p + 1, d)
      <3>1. PICK j \in 1..k : printed[j] = OfDiagnostic(d)
        BY <1>5, <1>6, <2>1 DEF Shows
      <3>2. n + j \in 1..(n + k) /\ n + j \in p + 1..(n + k + 1)
        OBVIOUS
      <3>3. pipe'[n + j] = OfDiagnostic(d)
        BY <1>8, <1>10, <3>1, <3>2
      <3> QED BY <1>10, <3>2, <3>3 DEF Shows
    <2>2. ASSUME Shows(pipe', p + 1, d) PROVE d \in watch.seen
      <3>1. PICK i \in p + 1..(n + k + 1) : pipe'[i] = OfDiagnostic(d)
        BY <1>10, <2>2 DEF Shows
      <3>2. i # n + k + 1
        BY <1>10, <3>1, LinesDiffer
      <3>3. i \in p + 1..(n + k)
        BY <3>2
      <3>4. pipe'[i] # Starting
        BY <3>1, LinesDiffer
      <3>5. i - n \in 1..k /\ printed[i - n] = OfDiagnostic(d)
        BY <1>15, <3>1, <3>3, <3>4
      <3> QED BY <1>5, <1>6, <3>5 DEF Shows
    <2> QED BY <2>1, <2>2
  <1>18. CycleFrom(p, watch', pipe', buffer', mixed'.rest)
    <2>1. p < n + k + 1 /\ p + 1 = 1 <=> p = 0
      OBVIOUS
    <2>2. watch'.at = "idle" /\ watch'.at # "checking" /\ watch'.seen = watch.seen
      BY <1>3
    <2>3. buffer' = buffer /\ mixed' = mixed
      BY <1>1
    <2>4. p = 0 /\ ~mixed.rest => \A d \in Diagnostics :
            d \in watch.seen <=> Shows(pipe', 1, d) \/ Shows(buffer, 1, d)
      BY <1>13, <1>17
    <2>5. /\ p < Len(pipe') /\ pipe'[Len(pipe')] = Found
          /\ \A i \in p + 1..Len(pipe') : i # Len(pipe') => pipe'[i] # Found
      BY <1>10, <1>16, <2>1
    <2> QED BY <1>11, <1>14, <1>17, <2>2, <2>3, <2>4, <2>5 DEF CycleFrom
  <1>19. p \in 0..Len(pipe')
    BY <1>10
  <1>20. CheckerTyped'
    BY <1>1, <1>3, <1>10 DEF CheckerInv, CheckerTyped
  <1> QED BY <1>1, <1>3, <1>11, <1>18, <1>19, <1>20 DEF CheckerInv

(* The next cycle begins behind the line that counts the errors of the last. *)
LEMMA WatchBegins ==
    ASSUME CheckerInv, CycleBegins
    PROVE  CheckerInv'
PROOF
  <1>1. /\ watch.at = "idle" /\ pipe' = Append(pipe, Starting)
        /\ watch' = [watch EXCEPT !.at = "checking", !.seen = faults, !.dirty = FALSE]
        /\ UNCHANGED <<tsc, proxied, faults, ownConfig, buffer, known, lastTypeErrors, tabs, mixed>>
    BY DEF CycleBegins
  <1>2. watch \in WatchRecords /\ pipe \in Seq(Lines) /\ faults \in SUBSET Diagnostics
    BY DEF CheckerInv, CheckerTyped
  <1>3. watch' \in WatchRecords /\ watch'.at = "checking" /\ watch'.seen = faults
    BY <1>1, <1>2 DEF WatchRecords
  <1>4. PICK n \in Nat : n = Len(pipe)
    BY <1>2
  <1>5. /\ pipe' \in Seq(Lines) /\ Len(pipe') = n + 1 /\ pipe'[n + 1] = Starting
        /\ \A i \in 1..n : pipe'[i] = pipe[i]
    BY <1>1, <1>2, <1>4, LinesDiffer, AppendProperties
  <1>6. pipe' # <<>>
    BY <1>5, EmptySeq
  <1>7. PICK p \in 0..n : CycleFrom(p, watch, pipe, buffer, mixed.rest)
    BY <1>4 DEF CheckerInv
  <1>8. n > 0 => pipe'[n] = Found
    <2>1. n > 0 => pipe # <<>> /\ n \in 1..n
      BY <1>4, EmptySeq
    <2>2. n > 0 => pipe[n] = Found
      BY <1>1, <1>4, <1>7, <2>1 DEF CycleFrom
    <2> QED BY <1>5, <2>1, <2>2
  <1>9. n = 0 => buffer = <<>>
    <2>1. n = 0 => pipe = <<>>
      BY <1>2, <1>4, EmptySeq
    <2> QED BY <1>1, <1>7, <2>1 DEF CycleFrom
  <1>10. n = 0 => \A d \in Diagnostics : ~Shows(buffer, 1, d)
    <2>1. n = 0 => Len(buffer) = 0
      BY <1>9, EmptySeq
    <2> QED BY <2>1 DEF Shows
  <1>11. \A i \in n + 1..(n + 1) : pipe'[i] = Starting
    BY <1>5
  <1>12. CycleFrom(n, watch', pipe', buffer', mixed'.rest)
    BY <1>1, <1>3, <1>5, <1>8, <1>10, <1>11 DEF CycleFrom
  <1>13. n \in 0..Len(pipe')
    BY <1>5
  <1>14. CheckerTyped'
    BY <1>1, <1>2, <1>3, <1>5 DEF CheckerInv, CheckerTyped
  <1>15. tsc # "none"
    BY <1>1 DEF CheckerInv
  <1> QED BY <1>1, <1>3, <1>6, <1>12, <1>13, <1>14, <1>15 DEF CheckerInv

(* Every tools UI that is open shows what is broadcast. *)
LEMMA AllAreTold ==
    ASSUME NEW message, Broadcast(message)
    PROVE  /\ DOMAIN tabs' = Tabs /\ lastTypeErrors' = message
           /\ \A t \in Tabs : tabs'[t] # Closed => tabs'[t] = lastTypeErrors'
PROOF
  <1>1. lastTypeErrors' = message /\ tabs' = [t \in Tabs |-> IF tabs[t] = Closed THEN Closed ELSE message]
    BY DEF Broadcast
  <1> HIDE DEF Closed
  <1> QED BY <1>1

(* Two places that count errors in a chunk are more than the rest of one cycle. *)
LEMMA TwoCycles ==
    ASSUME NEW chunk \in Seq(Lines), NEW i \in 1..Len(chunk), NEW j \in 1..Len(chunk), i # j,
           chunk[i] = Found, chunk[j] = Found
    PROVE  Overflows(chunk)
PROOF
  <1> DEFINE S == {k \in DOMAIN chunk : chunk[k] = Found}
  <1>1. {i, j} \subseteq S /\ S \subseteq 1..Len(chunk) /\ Len(chunk) \in Nat
    OBVIOUS
  <1>2. IsFiniteSet(S)
    <2> HIDE DEF S
    <2>1. IsFiniteSet(1..Len(chunk))
      BY <1>1, FS_Interval
    <2> QED BY <1>1, <2>1, FS_Subset
  <1>3. Cardinality({i, j}) = 2
    <2>1. IsFiniteSet({i}) /\ Cardinality({i}) = 1
      BY FS_Singleton
    <2>2. Cardinality({i} \cup {j}) = Cardinality({i}) + 1
      BY <2>1, FS_AddElement
    <2>3. {i} \cup {j} = {i, j}
      OBVIOUS
    <2>4. Cardinality({i} \cup {j}) = 2
      BY <2>1, <2>2
    <2> QED BY <2>3, <2>4, Zenon
  <1>4. Cardinality(S) \in Nat /\ 2 <= Cardinality(S)
    <2> HIDE DEF S
    <2>1. Cardinality({i, j}) <= Cardinality(S)
      BY <1>1, <1>2, FS_Subset
    <2> QED BY <1>2, <1>3, <2>1, FS_CardinalityType
  <1>5. Cardinality(S) > 1
    <2> HIDE DEF S
    <2> QED BY <1>4
  <1> QED BY <1>5 DEF Overflows

(* The first n lines are read: a chunk in which a cycle ends is reported and dropped with what *)
(* was kept before it, any other is kept.                                                      *)
ReadSome(p, w, lines, before, rest, n, left, after, rest2) ==
  /\ w \in WatchRecords /\ lines \in Seq(Lines) /\ before \in Seq(Lines) /\ after \in Seq(Lines)
  /\ rest \in BOOLEAN /\ rest2 \in BOOLEAN
  /\ n \in 1..Len(lines) /\ p \in 0..Len(lines)
  /\ left = SubSeq(lines, n + 1, Len(lines))
  /\ \/ /\ \E i \in 1..n : lines[i] = Found
        /\ after = <<>> /\ rest2 = (lines[n] # Found)
     \/ /\ \A i \in 1..n : lines[i] # Found
        /\ after = before \o SubSeq(lines, 1, n) /\ rest2 = rest

(* What is left of a cycle when part of it was read: the rest of a chunk that is reported is *)
(* dropped, one that is not is kept.                                                         *)
LEMMA CycleIsRead ==
    ASSUME NEW w, NEW lines, NEW before, NEW rest, NEW p, CycleFrom(p, w, lines, before, rest),
           NEW n, NEW left, NEW after, NEW rest2,
           ReadSome(p, w, lines, before, rest, n, left, after, rest2)
    PROVE  \E q \in 0..Len(left) : CycleFrom(q, w, left, after, rest2)
PROOF
  <1>0. /\ w \in WatchRecords /\ lines \in Seq(Lines) /\ before \in Seq(Lines)
        /\ after \in Seq(Lines) /\ rest \in BOOLEAN /\ rest2 \in BOOLEAN
        /\ n \in 1..Len(lines) /\ p \in 0..Len(lines)
        /\ left = SubSeq(lines, n + 1, Len(lines))
        /\ \/ /\ \E i \in 1..n : lines[i] = Found
              /\ after = <<>> /\ rest2 = (lines[n] # Found)
           \/ /\ \A i \in 1..n : lines[i] # Found
              /\ after = before \o SubSeq(lines, 1, n) /\ rest2 = rest
    BY DEF ReadSome
  <1> USE <1>0
  <1>1. PICK m \in Nat : m = Len(lines)
    OBVIOUS
  <1>2. n \in 1..m /\ p \in 0..m
    BY <1>1
  <1>3. /\ left \in Seq(Lines) /\ Len(left) = m - n
        /\ \A i \in 1..(m - n) : left[i] = lines[n + i]
    BY <1>1, FrontAndRest
  <1>4. lines # <<>>
    BY <1>1, <1>2, EmptySeq
  <1>5. left # <<>> <=> n < m
    <2>1. left # <<>> <=> Len(left) # 0
      BY <1>3, EmptySeq
    <2>2. m - n # 0 <=> n < m
      BY <1>2
    <2> QED BY <1>3, <2>1, <2>2
  <1>6. after = <<>> => \A d : ~Shows(after, 1, d)
    <2>1. after = <<>> => Len(after) = 0
      BY EmptySeq
    <2> QED BY <2>1 DEF Shows
  <1>7. /\ p > 0 => lines[p] = Found
        /\ w.at = "checking" => \A i \in p + 1..m : lines[i] = Starting
        /\ w.at = "checking" /\ p = 0 /\ ~rest => \A d \in Diagnostics : ~Shows(before, 1, d)
        /\ w.at = "idle" =>
             /\ p < m /\ lines[m] = Found
             /\ \A i \in p + 1..m : i # m => lines[i] # Found
             /\ p > 0 => \A d \in Diagnostics : d \in w.seen <=> Shows(lines, p + 1, d)
             /\ p = 0 /\ ~rest =>
                  \A d \in Diagnostics : d \in w.seen <=> Shows(lines, 1, d) \/ Shows(before, 1, d)
    BY <1>1, <1>4 DEF CycleFrom
  <1>8. ASSUME w.at = "idle", n < m
        PROVE  /\ left[Len(left)] = Found
               /\ \A i \in 1..Len(left) : n + i \in p + 1..m /\ i # Len(left) => left[i] # Found
    <2>1. m - n \in 1..(m - n) /\ n + (m - n) = m
      BY <1>2, <1>8
    <2>2. left[Len(left)] = Found
      BY <1>3, <1>7, <1>8, <2>1
    <2>3. ASSUME NEW i \in 1..(m - n), n + i \in p + 1..m, i # m - n
          PROVE  left[i] # Found
      <3>1. n + i # m
        BY <1>2, <2>3
      <3> QED BY <1>3, <1>7, <1>8, <2>3, <3>1
    <2> QED BY <1>3, <2>2, <2>3
  <1>9. CASE n <= p
    <2>1. PICK q \in 0..(m - n) : q = p - n
      BY <1>2, <1>9
    <2>2. p > 0 /\ n + q = p
      BY <1>2, <1>9, <2>1
    <2>3. q > 0 => left[q] = Found
      <3>1. q > 0 => q \in 1..(m - n)
        OBVIOUS
      <3> QED BY <1>3, <1>7, <2>2, <3>1
    <2>4. ASSUME NEW i \in q + 1..(m - n) PROVE i \in 1..(m - n) /\ n + i \in p + 1..m
      BY <1>2, <2>1, <2>2
    <2>5. w.at = "checking" => \A i \in q + 1..Len(left) : left[i] = Starting
      BY <1>3, <1>7, <2>4
    <2>6. q = 0 => after = <<>> /\ (rest2 <=> FALSE)
      <3>1. q = 0 => lines[n] = Found /\ n \in 1..n
        BY <1>7, <2>2
      <3> QED BY <3>1
    <2>7. ASSUME w.at = "idle"
          PROVE  /\ n < m /\ q < Len(left) /\ left[Len(left)] = Found
                 /\ \A i \in q + 1..Len(left) : i # Len(left) => left[i] # Found
                 /\ \A d \in Diagnostics : d \in w.seen <=> Shows(left, q + 1, d)
      <3>1. n < m /\ q < m - n
        BY <1>2, <1>7, <1>9, <2>1, <2>7
      <3>2. left[Len(left)] = Found
            /\ \A i \in q + 1..Len(left) : i # Len(left) => left[i] # Found
        BY <1>3, <1>8, <2>4, <2>7, <3>1
      <3>3. ASSUME NEW d PROVE Shows(lines, p + 1, d) <=> Shows(left, q + 1, d)
        <4>1. ASSUME Shows(lines, p + 1, d) PROVE Shows(left, q + 1, d)
          <5>1. PICK i \in p + 1..m : lines[i] = OfDiagnostic(d)
            BY <1>1, <4>1 DEF Shows
          <5>2. i - n \in q + 1..(m - n) /\ n + (i - n) = i /\ i - n \in 1..(m - n)
            BY <1>2, <2>1, <2>2
          <5>3. left[i - n] = OfDiagnostic(d)
            BY <1>3, <5>1, <5>2
          <5> QED BY <1>3, <5>2, <5>3 DEF Shows
        <4>2. ASSUME Shows(left, q + 1, d) PROVE Shows(lines, p + 1, d)
          <5>1. PICK i \in q + 1..(m - n) : left[i] = OfDiagnostic(d)
            BY <1>3, <4>2 DEF Shows
          <5>2. lines[n + i] = OfDiagnostic(d) /\ n + i \in p + 1..m
            BY <1>3, <2>4, <5>1
          <5> QED BY <1>1, <5>2 DEF Shows
        <4> QED BY <4>1, <4>2
      <3> QED BY <1>3, <1>7, <2>2, <2>7, <3>1, <3>2, <3>3
    <2>8. CycleFrom(q, w, left, after, rest2)
      <3>1. q = 0 => /\ \A d \in Diagnostics : ~Shows(after, 1, d)
                     /\ \A d : Shows(left, q + 1, d) <=> Shows(left, 1, d)
        BY <1>6, <2>6
      <3>2. w.at = "idle" => left # <<>>
        BY <1>5, <2>7
      <3> QED BY <2>3, <2>5, <2>7, <3>1, <3>2 DEF CycleFrom
    <2> QED BY <1>3, <2>8
  <1>10. CASE p < n
    <2>0. PICK q \in 0..(m - n) : q = 0 /\ ~(q > 0)
      BY <1>2
    <2>1. \A i \in q + 1..(m - n) : i \in 1..(m - n) /\ n + i \in p + 1..m
      BY <1>2, <1>10, <2>0
    <2>2. w.at = "checking" => \A i \in q + 1..Len(left) : left[i] = Starting
      BY <1>3, <1>7, <2>1
    <2>3. ASSUME w.at = "idle", left # <<>>
          PROVE  /\ q < Len(left) /\ left[Len(left)] = Found
                 /\ \A i \in q + 1..Len(left) : i # Len(left) => left[i] # Found
      <3>1. n < m /\ q < m - n
        BY <1>2, <1>5, <2>0, <2>3
      <3>2. /\ left[Len(left)] = Found
            /\ \A i \in 1..Len(left) : n + i \in p + 1..m /\ i # Len(left) => left[i] # Found
        BY <1>8, <2>3, <3>1
      <3> QED BY <1>3, <2>1, <3>1, <3>2
    <2>4. CASE /\ \E i \in 1..n : lines[i] = Found
               /\ after = <<>> /\ rest2 = (lines[n] # Found)
      <3>1. n \in p + 1..m
        BY <1>2, <1>10
      <3>2. w.at = "checking" => rest2
        <4>1. w.at = "checking" => lines[n] = Starting
          BY <1>7, <3>1
        <4> QED BY <2>4, <4>1, LinesDiffer
      <3>3. w.at = "idle" /\ left # <<>> => rest2
        <4>1. w.at = "idle" /\ left # <<>> => n # m
          BY <1>2, <1>5
        <4>2. w.at = "idle" /\ left # <<>> => lines[n] # Found
          BY <1>7, <3>1, <4>1
        <4> QED BY <2>4, <4>2
      <3>4. w.at = "idle" /\ left = <<>> => ~rest2
        <4>1. w.at = "idle" /\ left = <<>> => n = m
          BY <1>2, <1>5
        <4>2. w.at = "idle" /\ left = <<>> => lines[n] = Found
          BY <1>7, <4>1
        <4> QED BY <2>4, <4>2
      <3>5. CycleFrom(q, w, left, after, rest2)
        BY <2>0, <2>2, <2>3, <2>4, <3>2, <3>3, <3>4 DEF CycleFrom
      <3> QED BY <1>3, <3>5
    <2>5. CASE /\ \A i \in 1..n : lines[i] # Found
               /\ after = before \o SubSeq(lines, 1, n) /\ rest2 = rest
      <3>1. p = 0
        <4>1. p > 0 => p \in 1..n
          BY <1>2, <1>10
        <4> QED BY <1>2, <1>7, <2>5, <4>1
      <3>2. PICK a : a = SubSeq(lines, 1, n)
        OBVIOUS
      <3>3. a \in Seq(Lines) /\ Len(a) = n /\ \A i \in 1..n : a[i] = lines[i]
        BY <3>2, FrontAndRest
      <3>4. \A d : Shows(after, 1, d) <=> Shows(before, 1, d) \/ Shows(a, 1, d)
        <4>1. after = before \o a /\ a \in Seq(Lines)
          BY <2>5, <3>2, <3>3
        <4> QED BY <4>1, BothShow
      <3>5. ASSUME NEW d PROVE Shows(lines, 1, d) <=> Shows(a, 1, d) \/ Shows(left, 1, d)
        <4>1. ASSUME Shows(lines, 1, d) PROVE Shows(a, 1, d) \/ Shows(left, 1, d)
          <5>1. PICK i \in 1..m : lines[i] = OfDiagnostic(d)
            BY <1>1, <4>1 DEF Shows
          <5>2. CASE i <= n
            <6>1. i \in 1..n
              BY <5>2
            <6> QED BY <3>3, <5>1, <6>1 DEF Shows
          <5>3. CASE i > n
            <6>1. i - n \in 1..(m - n) /\ n + (i - n) = i
              BY <1>2, <5>3
            <6>2. left[i - n] = OfDiagnostic(d)
              BY <1>3, <5>1, <6>1
            <6> QED BY <1>3, <6>1, <6>2 DEF Shows
          <5>4. i <= n \/ i > n
            BY <1>2
          <5> QED BY <5>2, <5>3, <5>4
        <4>2. ASSUME Shows(a, 1, d) PROVE Shows(lines, 1, d)
          <5>1. PICK i \in 1..n : lines[i] = OfDiagnostic(d)
            BY <3>3, <4>2 DEF Shows
          <5>2. i \in 1..m
            BY <1>2
          <5> QED BY <1>1, <5>1, <5>2 DEF Shows
        <4>3. ASSUME Shows(left, 1, d) PROVE Shows(lines, 1, d)
          <5>1. PICK i \in 1..(m - n) : left[i] = OfDiagnostic(d)
            BY <1>3, <4>3 DEF Shows
          <5>2. n + i \in 1..m /\ lines[n + i] = OfDiagnostic(d)
            BY <1>2, <1>3, <5>1
          <5> QED BY <1>1, <5>2 DEF Shows
        <4> QED BY <4>1, <4>2, <4>3
      <3>6. w.at = "checking" /\ ~rest => \A d \in Diagnostics : ~Shows(after, 1, d)
        <4>1. ASSUME w.at = "checking", NEW d \in Diagnostics PROVE ~Shows(a, 1, d)
          <5>1. \A i \in 1..n : i \in p + 1..m
            BY <1>2, <3>1
          <5>2. \A i \in 1..n : a[i] = Starting
            BY <1>7, <3>3, <4>1, <5>1
          <5> QED BY <3>3, <5>2, LinesDiffer DEF Shows
        <4> QED BY <1>7, <3>1, <3>4, <4>1
      <3>7. w.at = "idle" => left # <<>>
        <4>1. w.at = "idle" => n # m
          BY <1>2, <1>7, <2>5
        <4> QED BY <1>2, <1>5, <4>1
      <3>8. w.at = "idle" /\ ~rest =>
              \A d \in Diagnostics : d \in w.seen <=> Shows(left, 1, d) \/ Shows(after, 1, d)
        BY <1>7, <3>1, <3>4, <3>5
      <3>9. CycleFrom(q, w, left, after, rest2)
        BY <2>0, <2>2, <2>3, <2>5, <3>6, <3>7, <3>8 DEF CycleFrom
      <3> QED BY <1>3, <3>9
    <2> QED BY <2>4, <2>5
  <1>11. n <= p \/ p < n
    BY <1>2
  <1> QED BY <1>9, <1>10, <1>11

(* A chunk is read: processOutput() reports what the last cycle found if the chunk is the  *)
(* rest of that cycle alone.                                                               *)
LEMMA ChunkIsRead ==
    ASSUME CheckerInv, NEW n \in 1..Len(pipe), Chunk(n)
    PROVE  CheckerInv'
PROOF
  <1> DEFINE w == watch
             chunk == SubSeq(pipe, 1, n)
             lines == buffer \o chunk
             errors == Kept(ErrorsIn(lines), w.own)
  <1>1. /\ w \in WatchRecords /\ pipe \in Seq(Lines) /\ buffer \in Seq(Lines)
        /\ mixed \in [report : BOOLEAN, rest : BOOLEAN]
    BY DEF CheckerInv, CheckerTyped
  <1>2. PICK m \in Nat : m = Len(pipe) /\ n \in 1..m
    BY <1>1
  <1>3. /\ chunk \in Seq(Lines) /\ Len(chunk) = n /\ \A i \in 1..n : chunk[i] = pipe[i]
        /\ SubSeq(pipe, n + 1, Len(pipe)) \in Seq(Lines)
        /\ Len(SubSeq(pipe, n + 1, Len(pipe))) = m - n
    BY <1>1, <1>2, FrontAndRest
  <1> HIDE DEF chunk
  <1>4. /\ lines \in Seq(Lines) /\ Len(lines) = Len(buffer) + n
        /\ \A i \in 1..Len(buffer) : lines[i] = buffer[i]
        /\ \A i \in 1..n : lines[Len(buffer) + i] = chunk[i]
        /\ \A i \in 1..Len(lines) : i \in 1..Len(buffer) \/ i - Len(buffer) \in 1..n
        /\ \A d : Shows(lines, 1, d) <=> Shows(buffer, 1, d) \/ Shows(chunk, 1, d)
    BY <1>1, <1>3, BothShow
  <1>5. PICK k \in Nat : k = Len(buffer)
    BY <1>1
  <1>6. "found" \in KindsIn(lines) <=> \E i \in 1..n : pipe[i] = Found
    <2> HIDE DEF lines
    <2>1. "found" \in KindsIn(lines) <=> \E i \in 1..Len(lines) : lines[i] = Found
      BY <1>4, WhatLinesSay
    <2>2. ASSUME NEW i \in 1..Len(lines), lines[i] = Found PROVE \E j \in 1..n : pipe[j] = Found
      <3>1. i \notin 1..k
        BY <1>4, <1>5, <2>2 DEF CheckerInv
      <3>2. i - k \in 1..n /\ k + (i - k) = i
        BY <1>4, <1>5, <3>1
      <3> QED BY <1>3, <1>4, <1>5, <2>2, <3>2
    <2>3. ASSUME NEW i \in 1..n, pipe[i] = Found PROVE \E j \in 1..Len(lines) : lines[j] = Found
      <3>1. k + i \in 1..Len(lines)
        BY <1>4, <1>5
      <3> QED BY <1>3, <1>4, <1>5, <2>3, <3>1
    <2> QED BY <2>1, <2>2, <2>3
  <1>7. Last(chunk) = pipe[n]
    BY <1>2, <1>3 DEF Last
  <1>8. /\ pipe' = SubSeq(pipe, n + 1, Len(pipe))
        /\ UNCHANGED <<tsc, proxied, faults, ownConfig, watch>>
        /\ "found" \in KindsIn(lines) => Report(lines, chunk)
        /\ "found" \notin KindsIn(lines) => StillChecking(lines)
    BY DEF Chunk, chunk
  <1> HIDE DEF lines
  <1>9. PICK p \in 0..Len(pipe) : CycleFrom(p, w, pipe, buffer, mixed.rest)
    BY DEF CheckerInv
  <1>10. watch.at # "off" /\ tsc # "none"
    <2>1. pipe # <<>>
      BY <1>2, EmptySeq
    <2> QED BY <2>1 DEF CheckerInv
  <1>11. pipe' = <<>> <=> n = m
    <2>1. pipe' = <<>> <=> Len(pipe') = 0
      BY <1>3, <1>8, EmptySeq
    <2>2. m - n = 0 <=> n = m
      BY <1>2
    <2> QED BY <1>3, <1>8, <2>1, <2>2
  <1>12. CASE \E i \in 1..n : pipe[i] = Found
    <2>1. Report(lines, chunk)
      BY <1>6, <1>8, <1>12
    <2>2. /\ known' = [errors |-> errors, checking |-> FALSE]
          /\ Broadcast(Told(errors, Critical(errors), FALSE))
          /\ buffer' = <<>>
          /\ mixed' = [report |-> mixed.rest \/ Overflows(chunk), rest |-> pipe[n] # Found]
      BY <1>7, <2>1 DEF Report, AfterReport
    <2>3. buffer' \in Seq(Lines) /\ Len(buffer') = 0
      BY <2>2, EmptySeq
    <2>4. mixed' \in [report : BOOLEAN, rest : BOOLEAN] /\ mixed'.rest = (pipe[n] # Found)
          /\ (mixed'.report <=> mixed.rest \/ Overflows(chunk))
      <3>1. Overflows(chunk) \in BOOLEAN /\ mixed.rest \in BOOLEAN
        BY <1>1 DEF Overflows
      <3> QED BY <2>2, <3>1
    <2>5. \E q \in 0..Len(pipe') : CycleFrom(q, w, pipe', buffer', mixed'.rest)
      <3>1. mixed'.rest \in BOOLEAN /\ mixed.rest \in BOOLEAN
        BY <1>1, <2>4
      <3>2. PICK v \in WatchRecords : v = watch
        BY <1>1
      <3>3. PICK r1 \in BOOLEAN : r1 = mixed.rest
        BY <3>1
      <3>4. PICK r2 \in BOOLEAN : r2 = mixed'.rest
        BY <3>1
      <3>5. PICK a \in Seq(Lines) : a = buffer'
        BY <2>3
      <3>6. PICK left : left = pipe'
        OBVIOUS
      <3>7. CycleFrom(p, v, pipe, buffer, r1) /\ p \in 0..Len(pipe) /\ n \in 1..Len(pipe)
        BY <1>9, <3>2, <3>3
      <3>8. left = SubSeq(pipe, n + 1, Len(pipe)) /\ pipe \in Seq(Lines) /\ buffer \in Seq(Lines)
        BY <1>1, <1>8, <3>6
      <3>9. (\E i \in 1..n : pipe[i] = Found) /\ a = <<>> /\ r2 = (pipe[n] # Found)
        BY <1>12, <2>2, <2>4, <3>4, <3>5
      <3>10. ReadSome(p, v, pipe, buffer, r1, n, left, a, r2)
        BY <3>7, <3>8, <3>9 DEF ReadSome
      <3>11. \E q \in 0..Len(left) : CycleFrom(q, v, left, a, r2)
        BY <3>7, <3>10, CycleIsRead
      <3> QED BY <3>2, <3>4, <3>5, <3>6, <3>11
    <2>6. /\ DOMAIN tabs' = Tabs /\ lastTypeErrors' = Told(errors, Critical(errors), FALSE)
          /\ \A t \in Tabs : tabs'[t] # Closed => tabs'[t] = lastTypeErrors'
      BY <2>2, AllAreTold
    <2>7. ASSUME pipe' = <<>>, w.at = "idle", ~mixed'.report PROVE errors = Kept(w.seen, w.own)
      <3>1. n = m /\ ~mixed.rest /\ ~Overflows(chunk)
        BY <1>11, <2>4, <2>7
      <3>2. pipe # <<>>
        BY <1>2, EmptySeq
      <3>3. p < n /\ pipe[n] = Found
        BY <1>2, <1>9, <2>7, <3>1, <3>2 DEF CycleFrom
      <3>4. p = 0
        <4>1. ASSUME p # 0 PROVE FALSE
          <5>1. p > 0 /\ p \in 1..n /\ n \in 1..n /\ p # n
            BY <1>2, <3>3, <4>1
          <5>2. pipe[p] = Found
            BY <1>9, <5>1 DEF CycleFrom
          <5>3. chunk[p] = Found /\ chunk[n] = Found
            BY <1>3, <3>3, <5>1, <5>2
          <5> QED BY <1>3, <3>1, <5>1, <5>3, TwoCycles
        <4> QED BY <4>1
      <3>5. \A d \in Diagnostics : d \in w.seen <=> Shows(pipe, 1, d) \/ Shows(buffer, 1, d)
        BY <1>9, <2>7, <3>1, <3>2, <3>4 DEF CycleFrom
      <3>6. \A d : Shows(pipe, 1, d) <=> Shows(chunk, 1, d)
        BY <1>2, <1>3, <3>1 DEF Shows
      <3>7. \A d \in Diagnostics : d \in w.seen <=> Shows(lines, 1, d)
        BY <1>4, <3>5, <3>6
      <3>8. ErrorsIn(lines) = w.seen
        <4>1. w.seen \in SUBSET Diagnostics
          BY <1>1 DEF WatchRecords
        <4>2. ErrorsIn(lines) = {d \in Diagnostics : Shows(lines, 1, d)}
          BY <1>4, WhatLinesSay
        <4> QED BY <3>7, <4>1, <4>2
      <3> QED BY <3>8
    <2> HIDE DEF errors
    <2>8. pipe' = <<>> => Informed(watch', mixed'.report, known', lastTypeErrors')
      BY <1>8, <2>2, <2>6, <2>7 DEF Informed
    <2>9. CheckerTyped'
      BY <1>1, <1>3, <1>8, <2>3, <2>4, <2>6 DEF CheckerInv, CheckerTyped
    <2>10. watch' = watch /\ tsc' = tsc /\ faults' = faults
      BY <1>8
    <2>11. \A i \in 1..Len(buffer') : buffer'[i] # Found
      BY <2>3
    <2>12. \E q \in 0..Len(pipe') : CycleFrom(q, watch', pipe', buffer', mixed'.rest)
      BY <2>5, <2>10
    <2>13. watch'.at # "off" /\ tsc' # "none"
      BY <1>10, <2>10
    <2>14. watch'.at \in {"checking", "idle"} /\ ~watch'.dirty => watch'.seen = faults'
      BY <2>10 DEF CheckerInv
    <2> QED BY <2>6, <2>8, <2>9, <2>11, <2>12, <2>13, <2>14 DEF CheckerInv
  <1>13. CASE \A i \in 1..n : pipe[i] # Found
    <2>1. StillChecking(lines)
      BY <1>6, <1>8, <1>13
    <2>2. buffer' = lines /\ mixed' = mixed
      BY <2>1 DEF StillChecking
    <2>3. \E q \in 0..Len(pipe') : CycleFrom(q, w, pipe', buffer', mixed'.rest)
      <3>1. mixed.rest \in BOOLEAN
        BY <1>1
      <3>2. buffer' = buffer \o SubSeq(pipe, 1, n) /\ buffer' \in Seq(Lines)
        BY <1>4, <2>2 DEF lines, chunk
      <3>3. PICK v \in WatchRecords : v = watch
        BY <1>1
      <3>4. PICK r \in BOOLEAN : r = mixed.rest /\ r = mixed'.rest
        BY <2>2, <3>1
      <3>5. PICK a \in Seq(Lines) : a = buffer'
        BY <3>2
      <3>6. PICK left : left = pipe'
        OBVIOUS
      <3>7. CycleFrom(p, v, pipe, buffer, r) /\ p \in 0..Len(pipe) /\ n \in 1..Len(pipe)
        BY <1>9, <3>3, <3>4
      <3>8. left = SubSeq(pipe, n + 1, Len(pipe)) /\ pipe \in Seq(Lines) /\ buffer \in Seq(Lines)
        BY <1>1, <1>8, <3>6
      <3>9. (\A i \in 1..n : pipe[i] # Found) /\ a = buffer \o SubSeq(pipe, 1, n)
        BY <1>13, <3>2, <3>5
      <3>10. ReadSome(p, v, pipe, buffer, r, n, left, a, r)
        BY <3>7, <3>8, <3>9 DEF ReadSome
      <3>11. \E q \in 0..Len(left) : CycleFrom(q, v, left, a, r)
        BY <3>7, <3>10, CycleIsRead
      <3> QED BY <3>3, <3>4, <3>5, <3>6, <3>11
    <2>4. DOMAIN tabs' = Tabs /\ \A t \in Tabs : tabs'[t] # Closed => tabs'[t] = lastTypeErrors'
      <3>1. CASE UNCHANGED <<lastTypeErrors, tabs>>
        BY <3>1 DEF CheckerInv, CheckerTyped
      <3>2. CASE Broadcast(Told({}, {}, TRUE))
        BY <3>2, AllAreTold
      <3> QED BY <2>1, <3>1, <3>2 DEF StillChecking
    <2>5. \A i \in 1..Len(buffer') : buffer'[i] # Found
      <3>1. "found" \notin KindsIn(lines)
        BY <1>6, <1>13
      <3> QED BY <1>4, <2>2, <3>1, WhatLinesSay
    <2>6. pipe' = <<>> => w.at # "idle"
      <3>1. pipe # <<>>
        BY <1>2, EmptySeq
      <3>2. w.at = "idle" => pipe[m] = Found
        BY <1>2, <1>9, <3>1 DEF CycleFrom
      <3> QED BY <1>2, <1>11, <1>13, <3>2
    <2>7. pipe' = <<>> => Informed(watch', mixed'.report, known', lastTypeErrors')
      BY <1>8, <2>6 DEF Informed
    <2>8. CheckerTyped'
      BY <1>1, <1>3, <1>4, <1>8, <2>2, <2>4 DEF CheckerInv, CheckerTyped
    <2> QED BY <1>8, <1>10, <2>3, <2>4, <2>5, <2>7, <2>8 DEF CheckerInv
  <1> QED BY <1>12, <1>13

(* A save is for the next cycle, tsc may die, and a tools UI that opens is told. *)
LEMMA RestOfChecking ==
    ASSUME CheckerInv,
           \/ TscDies
           \/ \E next \in SUBSET Diagnostics, config \in BOOLEAN : SaveFile(next, config)
           \/ \E t \in Tabs : OpenTab(t)
    PROVE  CheckerInv'
PROOF
  <1>1. watch \in WatchRecords
    BY DEF CheckerInv, CheckerTyped
  <1>2. PICK p \in 0..Len(pipe) : CycleFrom(p, watch, pipe, buffer, mixed.rest)
    BY DEF CheckerInv
  <1>3. CASE TscDies
    <2>1. /\ watch.at \in {"checking", "idle"} /\ watch' = [watch EXCEPT !.at = "dead"]
          /\ UNCHANGED <<tsc, proxied, faults, ownConfig, pipe, buffer, known, lastTypeErrors,
                         tabs, mixed>>
      BY <1>3 DEF TscDies
    <2>2. watch' \in WatchRecords /\ watch'.at = "dead"
      BY <1>1, <2>1 DEF WatchRecords
    <2>3. CycleFrom(p, watch', pipe', buffer', mixed'.rest)
      BY <1>2, <2>1, <2>2 DEF CycleFrom
    <2>4. Informed(watch', mixed'.report, known', lastTypeErrors')
      BY <2>2 DEF Informed
    <2>5. CheckerTyped'
      BY <2>1, <2>2 DEF CheckerInv, CheckerTyped
    <2> QED BY <2>1, <2>2, <2>3, <2>4, <2>5 DEF CheckerInv
  <1>4. ASSUME NEW next \in SUBSET Diagnostics, NEW config \in BOOLEAN, SaveFile(next, config)
        PROVE  CheckerInv'
    <2>1. /\ watch' = [watch EXCEPT !.dirty = TRUE] /\ faults' = next
          /\ ownConfig' = (ownConfig \/ config)
          /\ UNCHANGED <<tsc, proxied, pipe, buffer, known, lastTypeErrors, tabs, mixed>>
      BY <1>4 DEF SaveFile
    <2>2. /\ watch' \in WatchRecords /\ watch'.at = watch.at /\ watch'.seen = watch.seen
          /\ watch'.own = watch.own /\ watch'.dirty = TRUE
      BY <1>1, <2>1 DEF WatchRecords
    <2>3. CycleFrom(p, watch', pipe', buffer', mixed'.rest)
      BY <1>2, <2>1, <2>2 DEF CycleFrom
    <2>4. pipe' = <<>> => Informed(watch', mixed'.report, known', lastTypeErrors')
      BY <2>1, <2>2 DEF CheckerInv, Informed
    <2>5. CheckerTyped'
      BY <2>1, <2>2 DEF CheckerInv, CheckerTyped
    <2> QED BY <2>1, <2>2, <2>3, <2>4, <2>5 DEF CheckerInv
  <1>5. ASSUME NEW t \in Tabs, OpenTab(t)
        PROVE  CheckerInv'
    <2>1. /\ tabs' = [tabs EXCEPT ![t] = lastTypeErrors]
          /\ UNCHANGED <<tsc, proxied, faults, ownConfig, watch, pipe, buffer, known,
                         lastTypeErrors, mixed>>
      BY <1>5 DEF OpenTab, Greeting
    <2>2. DOMAIN tabs' = Tabs /\ \A u \in Tabs : tabs'[u] # Closed => tabs'[u] = lastTypeErrors
      BY <2>1 DEF CheckerInv, CheckerTyped
    <2>3. CheckerTyped'
      BY <2>1, <2>2 DEF CheckerInv, CheckerTyped
    <2> QED BY <2>1, <2>2, <2>3 DEF CheckerInv
  <1> QED BY <1>3, <1>4, <1>5

(* Nothing was checked at first. *)
LEMMA CheckerAtFirst == TypeCheckInit => CheckerInv
PROOF
  <1> SUFFICES ASSUME TypeCheckInit PROVE CheckerInv
    OBVIOUS
  <1>1. /\ faults \in SUBSET Diagnostics /\ ownConfig \in BOOLEAN
        /\ watch = [at |-> "off", seen |-> {}, dirty |-> FALSE, own |-> FALSE]
        /\ pipe = <<>> /\ buffer = <<>> /\ lastTypeErrors = Untold
        /\ tabs = [t \in Tabs |-> Closed]
        /\ mixed = [report |-> FALSE, rest |-> FALSE]
    BY DEF TypeCheckInit
  <1>2. <<>> \in Seq(Lines) /\ Len(<<>>) = 0
    BY EmptySeq
  <1>3. watch \in WatchRecords /\ watch.at = "off" /\ mixed.rest = FALSE
        /\ mixed \in [report : BOOLEAN, rest : BOOLEAN]
    BY <1>1 DEF WatchRecords
  <1>4. DOMAIN tabs = Tabs /\ \A t \in Tabs : tabs[t] = Closed
    BY <1>1
  <1>5. CheckerTyped
    BY <1>1, <1>2, <1>3, <1>4 DEF CheckerTyped
  <1>6. CycleFrom(0, watch, pipe, buffer, mixed.rest) /\ 0 \in 0..Len(pipe)
    BY <1>1, <1>2, <1>3 DEF CycleFrom
  <1>7. Informed(watch, mixed.report, known, lastTypeErrors)
    BY <1>3 DEF Informed
  <1>8. \E p \in 0..Len(pipe) : CycleFrom(p, watch, pipe, buffer, mixed.rest)
    BY <1>6
  <1>9. \A i \in 1..Len(buffer) : buffer[i] # Found
    BY <1>1, <1>2
  <1>10. watch.at = "off" => pipe = <<>> /\ buffer = <<>> /\ ~mixed.rest
    BY <1>1, <1>3
  <1>11. /\ watch.at # "off" => tsc # "none"
         /\ watch.at \in {"checking", "idle"} /\ ~watch.dirty => watch.seen = faults
    BY <1>3
  <1>12. \A t \in Tabs : tabs[t] # Closed => tabs[t] = lastTypeErrors
    BY <1>4
  <1> QED BY <1>5, <1>7, <1>8, <1>9, <1>10, <1>11, <1>12 DEF CheckerInv

(* Each step of the type checker keeps what it owes. *)
LEMMA NextChecks == CheckerInv /\ [TypeCheckNext]_tcVars => CheckerInv'
PROOF
  <1> SUFFICES ASSUME CheckerInv, [TypeCheckNext]_tcVars PROVE CheckerInv'
    OBVIOUS
  <1>1. CASE UNCHANGED tcVars
    BY <1>1 DEF tcVars, CheckerInv, CheckerTyped
  <1>2. CASE TypeCheckNext
    BY <1>2, WatchStarts, WatchEnds, WatchBegins, ChunkIsRead, RestOfChecking DEF TypeCheckNext
  <1> QED BY <1>1, <1>2

(* What is shown when everything was read is what a deploy would be told. *)
LEMMA CheckerIsCurrent == CheckerInv => TypeErrorsAreCurrent
PROOF
  <1> SUFFICES ASSUME CheckerInv, watch.at = "idle", ~watch.dirty, pipe = <<>>,
                      watch.own = ownConfig, ~mixed.report
               PROVE  /\ known = [errors |-> DeployIsTold, checking |-> FALSE]
                      /\ \A t \in Tabs :
                           tabs[t] # Closed => tabs[t] = Told(DeployIsTold, Critical(DeployIsTold), FALSE)
    BY DEF TypeErrorsAreCurrent
  <1>1. watch.seen = faults /\ tsc # "none"
    BY DEF CheckerInv
  <1>2. DeployIsTold = Kept(watch.seen, watch.own)
    BY <1>1 DEF DeployIsTold
  <1>3. /\ known = [errors |-> Kept(watch.seen, watch.own), checking |-> FALSE]
        /\ lastTypeErrors = Told(Kept(watch.seen, watch.own), Critical(Kept(watch.seen, watch.own)), FALSE)
    BY DEF CheckerInv, Informed
  <1> QED BY <1>2, <1>3 DEF CheckerInv

\* The type checker of a session is left alone by what is beside it.
LEMMA SessionChecks ==
  /\ SessionInit => TypeCheckInit
  /\ [SessionNext]_sessionVars => [TypeCheckNext]_tcVars
  BY DEF SessionInit, SessionNext, UseState, UseRenderer, UseTypes, NotState, NotRenderer,
         sessionVars

\* TypeErrorsAreCurrent: once tsc has checked the last save and all it printed was read, the
\* watcher and every tools UI show what a deploy would be told, unless a chunk was shared by two
\* cycles, a tsconfig.json was added or tsc died; for any diagnostics and any number of tabs.
THEOREM TypeErrorsStayCurrent == SessionSpec => []TypeErrorsAreCurrent
<1>1. SessionInit => CheckerInv
  BY CheckerAtFirst, SessionChecks
<1>2. CheckerInv /\ [SessionNext]_sessionVars => CheckerInv'
  BY NextChecks, SessionChecks
<1>. QED
  BY <1>1, <1>2, CheckerIsCurrent, PTL DEF SessionSpec
=============================================================================
