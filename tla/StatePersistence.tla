-------------------------- MODULE StatePersistence --------------------------
(***************************************************************************)
(* State that `forge-sim dev` keeps between runs (persistence.ts,          *)
(* sql-dump.ts, dev-command.ts): several instances share the state         *)
(* directory of an app, each saves its simulator every 30 seconds and on   *)
(* SIGINT, the newest one owns the lock file, and any may be killed.       *)
(*                                                                         *)
(* An instance goes                                                        *)
(*   off -> claimed -> deploying -> (loading -> loadingObjects ->) up      *)
(*       -> exiting -> (releasing ->) closing -> gone                      *)
(* and is gone from anywhere when it is killed.  A save goes               *)
(*   idle -> entities -> objects -> (dumping ->) idle                      *)
(* one file after the other.  Up to the dump it awaits nothing: only other *)
(* processes get in between.  The content of a part of the state is the    *)
(* set of its items: keys, objects, tables.                                *)
(***************************************************************************)
EXTENDS Naturals, FiniteSets

CONSTANTS
    Runs,        \* bound: runs of `forge-sim dev` for one app
    Items,       \* what a part of the state may hold
    NoFile,      \* no file
    Torn,        \* a file that cannot be read back
    Unknown,     \* history: nothing to expect of the next instance
    MaxChanges   \* bound: changes that the apps make

(* The instances are numbered in the order in which they claim the lock; 0 is
   that there is no lock file. *)
Instances == 1..Runs
NoInstance == 0

Parts == {"entities", "objects", "sql"}
Savers == {"autosave", "exit"}
Contents == SUBSET Items

ASSUME PersistenceAssumption ==
    /\ Runs \in Nat
    /\ \A c \in Contents : c \notin {NoFile, Torn, Unknown}
    /\ NoFile # Torn
    /\ MaxChanges \in Nat

VARIABLES
    file,    \* file[p]: the file of part p
    lock,    \* the instance that dev.lock names
    pc,      \* pc[i]: how far instance i is
    mem,     \* mem[i]: the state of its simulator
    sql,     \* sql[i]: its SQL server, "off", "on" or "broken"
    init,    \* init[i]: its SQL server will load the dump when it starts
    clean,   \* the instances that are to start empty, --clean
    saver,   \* saver[i][s]: how far its saves are
    todo,    \* todo[i][s]: tables that the dump has yet to read
    got,     \* got[i][s]: tables that it has read
    newest,  \* history: the last instance that started
    mirror,  \* history: what i saved last is all it has, and its own
    expect,  \* history: what the last instance alone left, part by part
    changes  \* changes so far

saveVars == <<saver, todo, got>>
vars == <<file, lock, pc, mem, sql, init, clean, saveVars, newest, mirror, expect, changes>>

Stages == {"off", "claimed", "deploying", "loading", "loadingObjects", "up", "exiting",
           "releasing", "closing", "gone"}

TypeOK ==
    /\ \A p \in Parts : file[p] \in {NoFile, Torn} \cup Contents
    /\ DOMAIN file = Parts
    /\ lock \in Instances \cup {NoInstance}
    /\ pc \in [Instances -> Stages]
    /\ DOMAIN mem = Instances
    /\ \A i \in Instances : /\ DOMAIN mem[i] = Parts
                            /\ \A p \in Parts : mem[i][p] # NoFile /\ mem[i][p] \in Contents
    /\ sql \in [Instances -> {"off", "on", "broken"}]
    /\ init \in [Instances -> BOOLEAN]
    /\ clean \in SUBSET Instances
    /\ saver \in [Instances -> [Savers -> {"idle", "entities", "objects", "dumping"}]]
    /\ todo \in [Instances -> [Savers -> Contents]]
    /\ got \in [Instances -> [Savers -> Contents]]
    /\ newest \in Instances \cup {NoInstance}
    /\ mirror \in [Instances -> BOOLEAN]
    /\ \A p \in Parts : expect[p] \in {Unknown} \cup Contents
    /\ DOMAIN expect = Parts
    /\ changes \in 0..MaxChanges

Init ==
    /\ file = [p \in Parts |-> NoFile]
    /\ lock = NoInstance
    /\ pc = [i \in Instances |-> "off"]
    /\ mem = [i \in Instances |-> [p \in Parts |-> {}]]
    /\ sql = [i \in Instances |-> "off"]
    /\ init = [i \in Instances |-> FALSE]
    /\ clean = {}
    /\ saver = [i \in Instances |-> [s \in Savers |-> "idle"]]
    /\ todo = [i \in Instances |-> [s \in Savers |-> {}]]
    /\ got = todo
    /\ newest = NoInstance
    /\ mirror = [i \in Instances |-> FALSE]
    /\ expect = [p \in Parts |-> Unknown]
    /\ changes = 0

NothingExpected == [p \in Parts |-> Unknown]

Alive(i) == pc[i] \notin {"off", "gone"}

(* A stretch of code that awaits nothing keeps the rest of its process out. *)
Busy(i) == pc[i] = "releasing" \/ \E s \in Savers : saver[i][s] \in {"entities", "objects"}

(* The process is gone, and what only it knew. *)
Gone(i) ==
    /\ pc' = [pc EXCEPT ![i] = "gone"]
    /\ mem' = [mem EXCEPT ![i] = [p \in Parts |-> {}]]
    /\ sql' = [sql EXCEPT ![i] = "off"]
    /\ init' = [init EXCEPT ![i] = FALSE]
    /\ clean' = clean \ {i}
    /\ saver' = [saver EXCEPT ![i] = [s \in Savers |-> "idle"]]
    /\ todo' = [todo EXCEPT ![i] = [s \in Savers |-> {}]]
    /\ got' = [got EXCEPT ![i] = [s \in Savers |-> {}]]

-----------------------------------------------------------------------------
(* Starting *)

(* Mutant: only a lock that nobody holds is claimed. *)
ClaimedIfFree(i) == IF lock = NoInstance THEN i ELSE lock

(* claimStateLock(): whoever holds the lock loses it. *)
Claimed(i) == i

Claim(i) ==
    /\ i = newest + 1
    /\ pc' = [pc EXCEPT ![i] = "claimed"]
    /\ lock' = Claimed(i)
    /\ newest' = i
    /\ \E fresh \in BOOLEAN :
          /\ clean' = IF fresh THEN clean \cup {i} ELSE clean
          /\ expect' = IF fresh \/ \E j \in Instances : Alive(j)
                       THEN NothingExpected ELSE expect
    /\ UNCHANGED <<file, mem, sql, init, saveVars, mirror, changes>>

(* No manifest, or no UI module: exit, with the lock. *)
Bail(i) ==
    /\ pc[i] = "claimed"
    /\ Gone(i)
    /\ UNCHANGED <<file, lock, newest, mirror, expect, changes>>

(* Whether the path of the dump is noted, before the app is deployed. *)
NotesDump(i) == i \notin clean /\ file["sql"] # NoFile

ConfigureSql(i) ==
    /\ pc[i] = "claimed"
    /\ pc' = [pc EXCEPT ![i] = "deploying"]
    /\ init' = [init EXCEPT ![i] = NotesDump(i)]
    /\ UNCHANGED <<clean, file, lock, mem, sql, saveVars, newest, mirror, expect, changes>>

(* Mutant: both files must be there. *)
HasBoth == file["entities"] # NoFile /\ file["sql"] # NoFile

(* hasPersistedState() *)
HasPersistedState == file["entities"] # NoFile \/ file["sql"] # NoFile

(* The app is deployed: restore what persists, unless --clean (which matters no
   more from here). *)
Deployed(i) ==
    /\ pc[i] = "deploying"
    /\ pc' = [pc EXCEPT ![i] = IF i \notin clean /\ HasPersistedState THEN "loading" ELSE "up"]
    /\ clean' = clean \ {i}
    /\ UNCHANGED <<file, lock, mem, sql, init, saveVars, newest, mirror, expect, changes>>

(* What part p holds once its file, if it can be parsed, is restored over it. *)
Restored(i, p) == IF file[p] \in {NoFile, Torn} THEN mem[i][p] ELSE mem[i][p] \cup file[p]

(* loadState(), one file after the other. *)
LoadEntities(i) ==
    /\ pc[i] = "loading"
    /\ mem' = [mem EXCEPT ![i]["entities"] = Restored(i, "entities")]
    /\ pc' = [pc EXCEPT ![i] = "loadingObjects"]
    /\ UNCHANGED <<file, lock, sql, init, clean, saveVars, newest, mirror, expect, changes>>

LoadObjects(i) ==
    /\ pc[i] = "loadingObjects"
    /\ mem' = [mem EXCEPT ![i]["objects"] = Restored(i, "objects")]
    /\ pc' = [pc EXCEPT ![i] = "up"]
    /\ UNCHANGED <<file, lock, sql, init, clean, saveVars, newest, mirror, expect, changes>>

-----------------------------------------------------------------------------
(* The app runs, from its deployment to the end of the process *)

AppRuns(i) ==
    /\ pc[i] \in {"deploying", "loading", "loadingObjects", "up", "exiting", "closing"}
    /\ ~Busy(i)

(* The first query starts MySQL, which loads the dump.  With a torn one it
   does not start, or has some of the tables. *)
SqlStarts(i) ==
    /\ AppRuns(i)
    /\ sql[i] = "off"
    /\ \/ /\ ~init[i]
          /\ sql' = [sql EXCEPT ![i] = "on"]
          /\ UNCHANGED <<mem, mirror>>
       \/ /\ init[i] /\ file["sql"] # Torn
          /\ sql' = [sql EXCEPT ![i] = "on"]
          /\ mem' = [mem EXCEPT ![i]["sql"] = file["sql"]]
          /\ UNCHANGED mirror
       \/ /\ init[i] /\ file["sql"] = Torn
          /\ sql' = [sql EXCEPT ![i] = "broken"]
          /\ UNCHANGED <<mem, mirror>>
       \/ /\ init[i] /\ file["sql"] = Torn
          /\ sql' = [sql EXCEPT ![i] = "on"]
          /\ \E some \in Contents : mem' = [mem EXCEPT ![i]["sql"] = some]
          /\ mirror' = [mirror EXCEPT ![i] = FALSE]
    /\ UNCHANGED <<file, lock, pc, init, clean, saveVars, newest, expect, changes>>

(* The app adds an item, or removes one. *)
Change(i, p, x) ==
    /\ AppRuns(i)
    /\ p = "sql" => sql[i] = "on"
    /\ changes < MaxChanges
    /\ changes' = changes + 1
    /\ \/ x \notin mem[i][p] /\ mem' = [mem EXCEPT ![i][p] = @ \cup {x}]
       \/ x \in mem[i][p] /\ mem' = [mem EXCEPT ![i][p] = @ \ {x}]
    /\ mirror' = [mirror EXCEPT ![i] = FALSE]
    /\ expect' = NothingExpected
    /\ UNCHANGED <<file, lock, pc, sql, init, clean, saveVars, newest>>

-----------------------------------------------------------------------------
(* Saving *)

(* Mutant: the lock is claimed once and for all. *)
OwnsAlways(i) == TRUE

(* ownsStateLock() *)
Owns(i) == lock = i

(* guardedSave() begins saver s, or does nothing. *)
Begin(i, s) ==
    IF Owns(i)
    THEN /\ saver' = [saver EXCEPT ![i][s] = "entities"]
         /\ mirror' = [mirror EXCEPT ![i] = \A t \in Savers : saver[i][t] = "idle"]
    ELSE UNCHANGED <<saver, mirror>>

(* The timer; one save of it at a time. *)
Autosave(i) ==
    /\ pc[i] = "up"
    /\ ~Busy(i)
    /\ saver[i]["autosave"] = "idle"
    /\ Begin(i, "autosave")
    /\ UNCHANGED <<file, lock, pc, mem, sql, init, clean, todo, got, newest, expect, changes>>

(* SIGINT or SIGTERM: no more ticks, and a last save. *)
Interrupt(i) ==
    /\ pc[i] = "up"
    /\ ~Busy(i)
    /\ pc' = [pc EXCEPT ![i] = "exiting"]
    /\ Begin(i, "exit")
    /\ UNCHANGED <<file, lock, mem, sql, init, clean, todo, got, newest, expect, changes>>

(* Mutant: an existing file is left as it is. *)
WrittenOnce(p, content) == IF content = {} \/ file[p] # NoFile THEN file[p] ELSE content

(* The file of a part once its content is saved: nothing is not. *)
Written(p, content) == IF content = {} THEN file[p] ELSE content

(* Part p is written, or it is not and the error is logged. *)
Write(i, p, content) ==
    \/ /\ file' = [file EXCEPT ![p] = Written(p, content)]
       /\ mirror' = [j \in Instances |-> mirror[j] /\ (j = i \/ content = {})]
    \/ /\ content # {}
       /\ \E f \in {file[p], Torn} : file' = [file EXCEPT ![p] = f]
       /\ mirror' = [j \in Instances |-> FALSE]

WriteEntities(i, s) ==
    /\ saver[i][s] = "entities"
    /\ Write(i, "entities", mem[i]["entities"])
    /\ saver' = [saver EXCEPT ![i][s] = "objects"]
    /\ UNCHANGED <<lock, pc, mem, sql, init, clean, todo, got, newest, expect, changes>>

(* After the objects, a server that runs is dumped: first the list of tables. *)
WriteObjects(i, s) ==
    /\ saver[i][s] = "objects"
    /\ Write(i, "objects", mem[i]["objects"])
    /\ saver' = [saver EXCEPT ![i][s] = IF sql[i] = "on" THEN "dumping" ELSE "idle"]
    /\ todo' = [todo EXCEPT ![i][s] = IF sql[i] = "on" THEN mem[i]["sql"] ELSE {}]
    /\ UNCHANGED <<lock, pc, mem, sql, init, clean, got, newest, expect, changes>>

DumpTable(i, s, x) ==
    /\ saver[i][s] = "dumping"
    /\ ~Busy(i)
    /\ x \in todo[i][s] \cap mem[i]["sql"]
    /\ todo' = [todo EXCEPT ![i][s] = @ \ {x}]
    /\ got' = [got EXCEPT ![i][s] = @ \cup {x}]
    /\ UNCHANGED <<file, lock, pc, mem, sql, init, clean, saver, newest, mirror, expect, changes>>

(* A table has been dropped, or the server does not answer: no dump. *)
DumpFails(i, s) ==
    /\ saver[i][s] = "dumping"
    /\ ~Busy(i)
    /\ saver' = [saver EXCEPT ![i][s] = "idle"]
    /\ todo' = [todo EXCEPT ![i][s] = {}]
    /\ got' = [got EXCEPT ![i][s] = {}]
    /\ mirror' = [mirror EXCEPT ![i] = FALSE]
    /\ UNCHANGED <<file, lock, pc, mem, sql, init, clean, newest, expect, changes>>

(* The dump is written without another look at the lock. *)
WriteSql(i, s) ==
    /\ saver[i][s] = "dumping"
    /\ ~Busy(i)
    /\ todo[i][s] = {}
    /\ Write(i, "sql", got[i][s])
    /\ saver' = [saver EXCEPT ![i][s] = "idle"]
    /\ got' = [got EXCEPT ![i][s] = {}]
    /\ UNCHANGED <<lock, pc, mem, sql, init, clean, todo, newest, expect, changes>>

-----------------------------------------------------------------------------
(* Ending *)

(* releaseStateLock() looks at the lock file ... *)
Release(i) ==
    /\ pc[i] = "exiting"
    /\ ~Busy(i)
    /\ saver[i]["exit"] = "idle"
    /\ pc' = [pc EXCEPT ![i] = IF Owns(i) THEN "releasing" ELSE "closing"]
    /\ UNCHANGED <<file, lock, mem, sql, init, clean, saveVars, newest, mirror, expect, changes>>

(* ... and removes it, whose ever it is by now. *)
Unlink(i) ==
    /\ pc[i] = "releasing"
    /\ lock' = NoInstance
    /\ pc' = [pc EXCEPT ![i] = "closing"]
    /\ UNCHANGED <<file, mem, sql, init, clean, saveVars, newest, mirror, expect, changes>>

(* The servers are closed and the process exits. *)
Exit(i) ==
    /\ pc[i] = "closing"
    /\ ~Busy(i)
    /\ expect' = IF mirror[i] /\ (\A j \in Instances \ {i} : ~Alive(j))
                     /\ (\A s \in Savers : saver[i][s] = "idle")
                 THEN [p \in Parts |-> IF p = "sql" /\ sql[i] # "on" THEN Unknown ELSE mem[i][p]]
                 ELSE NothingExpected
    /\ Gone(i)
    /\ mirror' = [mirror EXCEPT ![i] = FALSE]
    /\ UNCHANGED <<file, lock, newest, changes>>

(* SIGKILL, or a signal before there is a handler for it. *)
Kill(i) ==
    /\ Alive(i)
    /\ Gone(i)
    /\ mirror' = [mirror EXCEPT ![i] = FALSE]
    /\ expect' = NothingExpected
    /\ UNCHANGED <<file, lock, newest, changes>>

(* The same while a file is being written. *)
KillInWrite(i, s) ==
    /\ \/ \E p \in {"entities", "objects"} :
             /\ saver[i][s] = p /\ mem[i][p] # {}
             /\ file' = [file EXCEPT ![p] = Torn]
       \/ /\ saver[i][s] = "dumping" /\ todo[i][s] = {} /\ got[i][s] # {}
          /\ file' = [file EXCEPT !["sql"] = Torn]
    /\ Gone(i)
    /\ mirror' = [j \in Instances |-> FALSE]
    /\ expect' = NothingExpected
    /\ UNCHANGED <<lock, newest, changes>>

-----------------------------------------------------------------------------
Start(i) ==
    \/ Claim(i)
    \/ Bail(i)
    \/ ConfigureSql(i)
    \/ Deployed(i)
    \/ LoadEntities(i)
    \/ LoadObjects(i)

SaveStep(i, s) ==
    \/ WriteEntities(i, s)
    \/ WriteObjects(i, s)
    \/ \E x \in Items : DumpTable(i, s, x)
    \/ DumpFails(i, s)
    \/ WriteSql(i, s)

Next ==
    \E i \in Instances :
       \/ Start(i)
       \/ SqlStarts(i)
       \/ \E p \in Parts, x \in Items : Change(i, p, x)
       \/ Autosave(i)
       \/ Interrupt(i)
       \/ \E s \in Savers : SaveStep(i, s)
       \/ Release(i)
       \/ Unlink(i)
       \/ Exit(i)
       \/ Kill(i)
       \/ \E s \in Savers : KillInWrite(i, s)

(* A process that is alive goes on with a save that it has begun, and with the
   rest of the code that awaits nothing. *)
Fairness ==
    \A i \in Instances :
       /\ WF_vars(Unlink(i))
       /\ \A s \in Savers : WF_vars(SaveStep(i, s))

Spec == Init /\ [][Next]_vars /\ Fairness

-----------------------------------------------------------------------------
(* Properties *)

(* The lock names the newest instance or nobody, whatever the order in which
   instances claim, release, exit and die: an older one never gets it back. *)
LockIsNewest == lock \in {newest, NoInstance}

(* What is on disk after a save is what the simulator holds, part by part,
   unless a part is empty: when the app changed nothing and no write failed
   since the save began, it did not overlap another save of the instance, and
   no other instance has written since. *)
SaveMirrorsMemory ==
    \A i \in Instances : (mirror[i] /\ \A s \in Savers : saver[i][s] = "idle") =>
       \A p \in Parts : (mem[i][p] # {} /\ (p = "sql" => sql[i] = "on")) => file[p] = mem[i][p]

(* An instance that starts without --clean after such an exit of the only one
   has each part back that was not empty, as soon as it is up; the objects only
   when a file of another part exists. *)
RestartKeepsWhatWasSaved ==
    \A i \in Instances, p \in Parts :
       (/\ pc[i] = "up" /\ expect[p] \notin {Unknown, {}}
        /\ p = "objects" => file["entities"] # NoFile \/ file["sql"] # NoFile
        /\ p = "sql" => sql[i] = "on") => mem[i][p] = expect[p]

(* As persistence.ts says: state saved on shutdown is restored on startup, all
   of it. *)
RestartRestoresState ==
    \A i \in Instances, p \in Parts :
       (pc[i] = "up" /\ expect[p] # Unknown /\ (p = "sql" => sql[i] = "on"))
          => mem[i][p] = expect[p]

(* As persistence.ts says: an instance that lost the lock stops persisting, for
   good, once the save that was under way is over. *)
OrphansFallSilent ==
    \A i \in Instances :
       (pc[i] # "off" /\ lock # i) ~> [](\A s \in Savers : saver[i][s] = "idle")

=============================================================================
