--------------------------- MODULE PlatformProofs ---------------------------
(***************************************************************************)
(* Theorems about four of the services that an app is given: its database  *)
(* (SqlServer), its texts (Translations), the language model               *)
(* (LanguageModel), and the events and schedules that fire its handlers    *)
(* (Triggers), for any programs and migrations, locales and files, agents  *)
(* and scripts, versions and calls.                                        *)
(***************************************************************************)
EXTENDS SqlServer, Translations, LanguageModel, Triggers, SequenceFacts, FiniteSetTheorems,
        SequenceTheorems, TLAPS

-----------------------------------------------------------------------------
(* The database: the inductive invariant of the servers and their programs *)

TableNames == Restored \cup ToSet(Migrations) \cup {AppTable, MigrationLog}

(* What is asked of the server, by program. *)
MakeLog == Statement("make log", "")
ListLog == Statement("list log", "")
List == Statement("list", "")
MakeTable == Statement("make", AppTable)
MigrationSteps == [do : {"run", "record"}, name : ToSet(Migrations)]
Describes == [do : {"describe"}, name : TableNames]
Drops == [do : {"drop"}, name : TableNames]
SqlRequests == {MakeLog, ListLog, List, MakeTable} \cup MigrationSteps \cup Describes \cup Drops

SqlData == [tables : SUBSET TableNames, log : Seq(ToSet(Migrations)),
            ran : Seq(ToSet(Migrations)), clean : BOOLEAN]
SqlStates == {"free", "ensure", "await", "sent", "ending", "ended", "stopped", "done", "failed"}
SqlRecord == [at : SqlStates, on : 0..MaxServers, todo : Seq(SqlRequests), alone : BOOLEAN]

SqlTyped ==
  /\ launched \in 0..MaxServers /\ servers \subseteq 1..launched /\ ended \subseteq 1..launched
  /\ db \in 0..launched /\ pool \in 0..launched
  /\ starting \in {"null", "pending", "connected", "rejected"}
  /\ content \in [0..MaxServers -> SqlData]
  /\ sqlCalls \in [SqlCalls -> SqlRecord]

(* What a program that runs may be about. *)
SqlProgress(c) ==
  LET it == sqlCalls[c] IN
  InProgress(c) =>
    /\ Program(c) \in {"migrate", "query", "schema"} => it.at \in {"ensure", "await", "sent"}
    /\ Program(c) = "migrate" => \/ it.todo \in {<<MakeLog, ListLog>>, <<ListLog>>}
                                 \/ it.todo \in Seq(MigrationSteps) /\ it.todo # <<>>
    /\ Program(c) = "query" => it.todo = <<MakeTable>>
    /\ Program(c) = "schema" => it.todo = <<List>> \/ (it.todo \in Seq(Describes) /\ it.todo # <<>>)
    /\ Program(c) = "reset" => /\ it.at = "sent"
                               /\ it.todo = <<List>> \/ (it.todo \in Seq(Drops) /\ it.todo # <<>>)
    /\ Program(c) = "stop" => it.at \in {"ending", "ended", "stopped"}

(* Who is alone meets nobody. *)
SqlAlone(c) ==
  InProgress(c) /\ sqlCalls[c].alone =>
    \A d \in SqlCalls \ {c} : InProgress(d) => ~Meets(c, d)

(* One server at most, which has the pool unless it is being stopped. *)
ServerHeld ==
  /\ servers \subseteq {db}
  /\ pool # Off => pool = db
  /\ pool # Off /\ ~Stopping => servers = {pool} /\ pool \notin ended
  /\ pool = Off /\ servers # {} => \E c \in SqlCalls : sqlCalls[c].at = "ended"
  /\ \A c \in SqlCalls : sqlCalls[c].at \in {"ended", "stopped"} => pool = Off
  /\ \A c \in SqlCalls : sqlCalls[c].at = "stopped" => servers = {}
  /\ Stopping => starting \notin {"pending", "connected"}
  /\ starting = "pending" => pool = Off
  /\ starting = "connected" => pool # Off

(* A call that is alone has the pool, finds what it made and saw, and fails only if the
   start did. *)
CallHeld(c) ==
  LET it == sqlCalls[c] IN
  it.alone =>
    /\ it.at = "failed" => starting = "rejected"
    /\ InProgress(c) /\ Program(c) # "stop" =>
         /\ it.at = "sent" => it.on = pool /\ pool # Off
         /\ Program(c) = "migrate" /\ it.todo # <<MakeLog, ListLog>> =>
              it.at # "await" /\ pool # Off /\ MigrationLog \in content[pool].tables
         /\ Program(c) = "schema" /\ it.todo # <<List>> =>
              /\ it.at # "await" /\ pool # Off
              /\ \A i \in 1..Len(it.todo) : it.todo[i].name \in content[pool].tables
         /\ Program(c) = "reset" /\ it.todo # <<List>> =>
              \A t \in content[it.on].tables : \E i \in 1..Len(it.todo) : it.todo[i].name = t

(* The table of the query is made by it only. *)
QueryHeld(c) ==
  Program(c) = "query" /\ sqlCalls[c].at \in {"free", "ensure", "await", "sent"} =>
    \A s \in 0..MaxServers : AppTable \notin content[s].tables

(* A migration that ran has left its table, and the log its own. *)
DataHolds(data) ==
  /\ ToSet(data.ran) \subseteq data.tables
  /\ \A i, j \in 1..Len(data.ran) : data.ran[i] = data.ran[j] => i = j
  /\ data.log # <<>> => MigrationLog \in data.tables

(* No server has what has not been started. *)
DataHeld(s) ==
  /\ DataHolds(content[s])
  /\ s > launched => content[s].ran = <<>> /\ content[s].log = <<>>

Firsts(k) == SubSeq(Migrations, 1, k)

(* What is left to do after the first k migrations; of the next one it may be half. *)
Left(todo, k, half) ==
  /\ Len(todo) = 2 * (Len(Migrations) - k) - half
  /\ \A i \in 1..(Len(Migrations) - k) :
       /\ todo[2 * i - half] = Statement("record", Migrations[k + i])
       /\ (i > 1 \/ half = 0) => todo[2 * i - 1 - half] = Statement("run", Migrations[k + i])

(* A migration that is alone goes on where the log ends. *)
GoesOnAfterLog(c) ==
  LET it == sqlCalls[c] IN
  InProgress(c) /\ Program(c) = "migrate" /\ it.alone /\ it.todo \in Seq(MigrationSteps)
  /\ content[pool].clean =>
    \E k \in 0..(Len(Migrations) - 1), half \in {0, 1} :
      /\ content[pool].log = Firsts(k) /\ content[pool].ran = Firsts(k + half)
      /\ Left(it.todo, k, half)

(* Who is about to record what ran last. *)
Recording(c, s) ==
  /\ Program(c) = "migrate" /\ sqlCalls[c].at \in {"ensure", "sent"}
  /\ sqlCalls[c].at = "sent" => sqlCalls[c].on = s
  /\ sqlCalls[c].todo # <<>> /\ Head(sqlCalls[c].todo).do = "record"
  /\ content[s].ran = Append(content[s].log, Head(sqlCalls[c].todo).name)
  /\ MigrationLog \in content[s].tables

(* On a server that nobody empties and nobody disturbed, what ran is recorded. *)
RecordsHeld(s) ==
  /\ s \in servers /\ content[s].clean /\ ~Stopping
  /\ \A c \in SqlCalls : Program(c) = "reset" /\ InProgress(c) => sqlCalls[c].on # s
  => /\ content[s].ran = content[s].log \/ \E c \in SqlCalls : Recording(c, s)
     /\ IsPrefix(content[s].ran, Migrations)

SqlCore ==
  /\ SqlTyped
  /\ \A c \in SqlCalls : SqlProgress(c) /\ SqlAlone(c) /\ QueryHeld(c)
  /\ \A s \in 0..MaxServers : DataHeld(s)

SqlOrder ==
  /\ ServerHeld
  /\ \A c \in SqlCalls : CallHeld(c) /\ GoesOnAfterLog(c)
  /\ \A s \in 0..MaxServers : RecordsHeld(s)

SqlInv == SqlCore /\ (~collided => SqlOrder)

(* What is left to migrate, migration by migration. *)
LEMMA MigratesInOrder ==
    ASSUME NEW data
    PROVE  \E f \in [0..Len(Migrations) -> Seq(MigrationSteps)] :
             /\ f[0] = <<>> /\ ToMigrate(data) = f[Len(Migrations)]
             /\ \A i \in 1..Len(Migrations) :
                  f[i] = IF Migrations[i] \in ToSet(data.log) THEN f[i - 1]
                         ELSE f[i - 1] \o <<Statement("run", Migrations[i]),
                                            Statement("record", Migrations[i])>>
PROOF
  <1> DEFINE n == Len(Migrations)
             V == Seq(MigrationSteps)
             Two(i) == <<Statement("run", Migrations[i]), Statement("record", Migrations[i])>>
             Next(i, v) == IF Migrations[i] \in ToSet(data.log) THEN v ELSE v \o Two(i)
             Solves(f) == f = [i \in 0..n |-> IF i = 0 THEN <<>> ELSE Next(i, f[i - 1])]
  <1>1. n \in Nat /\ \A i \in 1..n : Migrations[i] \in ToSet(Migrations)
    BY SqlAssumption DEF ToSet
  <1>2. ASSUME NEW i \in 1..n, NEW v \in V PROVE Next(i, v) \in V
    <2>1. Two(i) \in V
      <3>1. /\ Statement("run", Migrations[i]) \in MigrationSteps
            /\ Statement("record", Migrations[i]) \in MigrationSteps
        BY <1>1 DEF MigrationSteps, Statement
      <3> HIDE DEF MigrationSteps
      <3> QED BY <3>1
    <2> HIDE DEF Two, V
    <2>2. v \o Two(i) \in V
      BY <2>1, ConcatProperties DEF V
    <2> QED BY <2>2
  <1> DEFINE step == [i \in 1..n |-> [v \in V |-> Next(i, v)]]
  <1>3. step \in [1..n -> [V -> V]] /\ \A i \in 1..n, v \in V : step[i][v] = Next(i, v)
    <2> HIDE DEF n, V, Next
    <2> QED BY <1>2
  <1>4. <<>> \in V
    BY EmptySeq
  <1>5. PICK g \in [0..n -> V] : g[0] = <<>> /\ \A i \in 1..n : g[i] = step[i][g[i - 1]]
    <2> DEFINE none == <<>>
    <2>1. none \in V
      BY <1>4
    <2>3. n \in Nat /\ step \in [1..n -> [V -> V]]
      BY <1>1, <1>3
    <2> HIDE DEF n, V, step, none
    <2>2. \E f \in [0..n -> V] : Follows(f, n, none, step)
      BY <2>1, <2>3, Iterates
    <2> QED BY <2>2 DEF none, Follows
  <1>6. Solves(g)
    <2> HIDE DEF n, V, step, Next
    <2>1. ASSUME NEW i \in 0..n PROVE g[i] = IF i = 0 THEN <<>> ELSE Next(i, g[i - 1])
      <3>1. CASE i = 0
        BY <1>5, <3>1
      <3>2. CASE i # 0
        <4>1. i \in 1..n /\ i - 1 \in 0..n
          BY <1>1, <3>2
        <4>2. g[i - 1] \in V
          BY <1>5, <4>1
        <4> QED BY <1>3, <1>5, <3>2, <4>1, <4>2
      <3> QED BY <3>1, <3>2
    <2>2. g = [i \in 0..n |-> g[i]]
      BY <1>5
    <2> QED BY <2>1, <2>2
  <1>7. PICK f : f = CHOOSE h : Solves(h)
    OBVIOUS
  <1>8. Solves(f)
    <2> HIDE DEF Solves
    <2> QED BY <1>6, <1>7
  <1>9. ToMigrate(data) = f[n]
    BY <1>7 DEF ToMigrate
  <1>10. /\ f[0] = <<>> /\ DOMAIN f = 0..n /\ f = [i \in 0..n |-> f[i]]
         /\ \A i \in 1..n : f[i] = Next(i, f[i - 1])
    <2> HIDE DEF n, Next
    <2>1. f = [i \in 0..n |-> IF i = 0 THEN <<>> ELSE Next(i, f[i - 1])]
      BY <1>8
    <2>2. 0 \in 0..n /\ \A i \in 1..n : i \in 0..n /\ i # 0
      BY <1>1
    <2>3. f[0] = <<>> /\ \A i \in 1..n : f[i] = Next(i, f[i - 1])
      BY <2>1, <2>2, Zenon
    <2>4. DOMAIN f = 0..n /\ f = [i \in 0..n |-> f[i]]
      BY <2>1, Zenon
    <2> QED BY <2>3, <2>4
  <1>11. \A i \in 0..n : f[i] \in V
    <2> DEFINE S == {i \in 0..n : f[i] \in V}
    <2> HIDE DEF n, V, Next
    <2>1. 0 \in S
      BY <1>1, <1>4, <1>10
    <2>2. \A i \in 1..n : i - 1 \in S => i \in S
      BY <1>1, <1>2, <1>10
    <2>3. \A i \in 0..n : i \in S
      <3> HIDE DEF S
      <3> QED BY <1>1, <2>1, <2>2, AllPlaces
    <2> QED BY <2>3
  <1>12. f \in [0..n -> V]
    <2> HIDE DEF n, V, Next
    <2> QED BY <1>10, <1>11
  <1> QED BY <1>9, <1>10, <1>12

(* The first migrations are a beginning of the list. *)
LEMMA FirstOnes ==
    ASSUME NEW k \in 0..Len(Migrations)
    PROVE  /\ Firsts(k) \in Seq(ToSet(Migrations)) /\ Len(Firsts(k)) = k
           /\ \A i \in 1..k : Firsts(k)[i] = Migrations[i]
           /\ IsPrefix(Firsts(k), Migrations)
PROOF
  <1>1. /\ Len(Migrations) \in Nat
        /\ \A i \in 1..Len(Migrations) : Migrations[i] \in ToSet(Migrations)
    BY SqlAssumption DEF ToSet
  <1>2. /\ Firsts(k) \in Seq(ToSet(Migrations))
        /\ Len(Firsts(k)) = IF 1 <= k THEN k - 1 + 1 ELSE 0
        /\ \A i \in 1..(k - 1 + 1) : Firsts(k)[i] = Migrations[1 + i - 1]
    <2>1. \A i \in 1..k : Migrations[i] \in ToSet(Migrations)
      BY <1>1
    <2> QED BY <2>1, SubSeqProperties DEF Firsts
  <1>3. Len(Firsts(k)) = k /\ \A i \in 1..k : Firsts(k)[i] = Migrations[i]
    BY <1>1, <1>2
  <1>4. SubSeq(Firsts(k), 1, k) = Firsts(k)
    BY <1>2, <1>3, SubSeqFull
  <1>5. IsPrefix(Firsts(k), Migrations)
    BY <1>1, <1>3, <1>4 DEF IsPrefix, Firsts
  <1> QED BY <1>2, <1>3, <1>5

(* A beginning of the list are its first ones. *)
LEMMA PrefixIsFirst ==
    ASSUME NEW r \in Seq(ToSet(Migrations)), IsPrefix(r, Migrations)
    PROVE  Len(r) \in 0..Len(Migrations) /\ r = Firsts(Len(r))
PROOF
  <1>1. SubSeq(r, 1, Len(r)) = r
    BY SubSeqFull
  <1>2. Len(r) \in Nat /\ Len(Migrations) \in Nat
    BY SqlAssumption
  <1> QED BY <1>1, <1>2 DEF IsPrefix, Firsts

(* The next one follows. *)
LEMMA FirstAndNext ==
    ASSUME NEW k \in 0..(Len(Migrations) - 1)
    PROVE  Firsts(k + 1) = Append(Firsts(k), Migrations[k + 1])
PROOF
  <1>1. /\ Len(Migrations) \in Nat
        /\ k \in 0..Len(Migrations) /\ k + 1 \in 0..Len(Migrations)
        /\ Migrations[k + 1] \in ToSet(Migrations)
    BY SqlAssumption DEF ToSet
  <1> DEFINE a == Append(Firsts(k), Migrations[k + 1])
             f == Firsts(k + 1)
  <1>2. /\ a \in Seq(ToSet(Migrations)) /\ Len(a) = k + 1 /\ a[k + 1] = Migrations[k + 1]
        /\ \A i \in 1..k : a[i] = Migrations[i]
    <2>1. /\ Firsts(k) \in Seq(ToSet(Migrations)) /\ Len(Firsts(k)) = k
          /\ \A i \in 1..k : Firsts(k)[i] = Migrations[i]
      BY <1>1, FirstOnes
    <2>2. PICK g \in Seq(ToSet(Migrations)) : g = Firsts(k)
      BY <2>1
    <2>3. PICK x \in ToSet(Migrations) : x = Migrations[k + 1]
      BY <1>1
    <2>4. /\ Append(g, x) \in Seq(ToSet(Migrations)) /\ Len(Append(g, x)) = Len(g) + 1
          /\ Append(g, x)[Len(g) + 1] = x
          /\ \A i \in 1..Len(g) : Append(g, x)[i] = g[i]
      BY AppendProperties
    <2> QED BY <2>1, <2>2, <2>3, <2>4
  <1>3. /\ f \in Seq(ToSet(Migrations)) /\ Len(f) = k + 1
        /\ \A i \in 1..(k + 1) : f[i] = Migrations[i]
    BY <1>1, FirstOnes
  <1> HIDE DEF a, f
  <1>4. \A i \in 1..(k + 1) : a[i] = f[i]
    <2>1. \A i \in 1..(k + 1) : i \in 1..k \/ i = k + 1
      BY <1>1
    <2> QED BY <1>2, <1>3, <2>1
  <1>5. a = f
    BY <1>2, <1>3, <1>4, SeqEqual
  <1> QED BY <1>5 DEF a, f

(* What is in the log is not migrated again, and the rest is, in the order of the list. *)
LEMMA MigratesTheRest ==
    ASSUME NEW data, NEW k \in 0..Len(Migrations), data.log = Firsts(k)
    PROVE  ToMigrate(data) \in Seq(MigrationSteps) /\ Left(ToMigrate(data), k, 0)
PROOF
  <1> DEFINE n == Len(Migrations)
             V == Seq(MigrationSteps)
             Two(i) == <<Statement("run", Migrations[i]), Statement("record", Migrations[i])>>
             Span(s, m) == /\ Len(s) = 2 * (m - k)
                           /\ \A i \in 1..(m - k) :
                                /\ s[2 * i] = Statement("record", Migrations[k + i])
                                /\ s[2 * i - 1] = Statement("run", Migrations[k + i])
  <1>1. PICK f \in [0..n -> V] :
          /\ f[0] = <<>> /\ ToMigrate(data) = f[n]
          /\ \A i \in 1..n : f[i] = IF Migrations[i] \in ToSet(data.log) THEN f[i - 1]
                                    ELSE f[i - 1] \o Two(i)
    BY MigratesInOrder
  <1>2. n \in Nat
    BY SqlAssumption
  <1>3. \A i \in 1..n : Migrations[i] \in ToSet(data.log) <=> i <= k
    <2> SUFFICES ASSUME NEW i \in 1..n PROVE Migrations[i] \in ToSet(data.log) <=> i <= k
      OBVIOUS
    <2>1. \A j \in 1..k : j \in 1..n /\ data.log[j] = Migrations[j]
      BY <1>2, FirstOnes
    <2>2. ToSet(data.log) = {data.log[j] : j \in 1..k}
      <3>1. DOMAIN data.log = 1..k
        BY FirstOnes, LenProperties
      <3> QED BY <3>1 DEF ToSet
    <2>3. ASSUME i <= k PROVE Migrations[i] \in ToSet(data.log)
      <3>1. i \in 1..k
        BY <1>2, <2>3
      <3> QED BY <2>1, <2>2, <3>1
    <2>4. ASSUME Migrations[i] \in ToSet(data.log) PROVE i <= k
      <3>1. PICK j \in 1..k : Migrations[i] = Migrations[j]
        BY <2>1, <2>2, <2>4
      <3>2. i = j
        BY <1>2, <2>1, <3>1, SqlAssumption
      <3> QED BY <3>1, <3>2
    <2> QED BY <2>3, <2>4
  <1> DEFINE S == {i \in 0..n : /\ i <= k => f[i] = <<>>
                                /\ i >= k => Span(f[i], i)}
  <1>4. 0 \in S
    <2>1. 0 \in 0..n
      BY <1>2
    <2>2. k = 0 => Span(<<>>, 0)
      BY <1>2
    <2> HIDE DEF Span
    <2> QED BY <1>1, <1>2, <2>1, <2>2
  <1>5. ASSUME NEW i \in 1..n, i - 1 \in S PROVE i \in S
    <2>1. CASE i <= k
      <3>1. f[i] = f[i - 1] /\ f[i - 1] = <<>>
        <4>1. i - 1 <= k
          BY <1>2, <2>1
        <4> HIDE DEF Span, n, V, Two
        <4> QED BY <1>1, <1>3, <1>5, <2>1, <4>1
      <3>2. i = k => Span(<<>>, i)
        BY <1>2
      <3> HIDE DEF Span
      <3> QED BY <1>2, <2>1, <3>1, <3>2
    <2>2. CASE i > k
      <3> DEFINE s == f[i - 1]
                 t == f[i]
      <3>1. s \in V /\ Two(i) \in V /\ t = s \o Two(i) /\ Span(s, i - 1)
        <4>1. i - 1 \in 0..n /\ i - 1 >= k /\ ~(i <= k)
          BY <1>2, <2>2
        <4>2. Statement("run", Migrations[i]) \in MigrationSteps
              /\ Statement("record", Migrations[i]) \in MigrationSteps
          BY SqlAssumption DEF MigrationSteps, Statement, ToSet
        <4>3. Two(i) \in V
          BY <4>2
        <4> HIDE DEF Span, Two
        <4> QED BY <1>1, <1>3, <1>5, <4>1, <4>3
      <3>2. Len(Two(i)) = 2 /\ Two(i)[1] = Statement("run", Migrations[i])
            /\ Two(i)[2] = Statement("record", Migrations[i])
        OBVIOUS
      <3> HIDE DEF s, t, Two, V
      <3>3. /\ Len(t) = Len(s) + 2 /\ Len(s) = 2 * (i - 1 - k)
            /\ \A j \in 1..(Len(s) + 2) :
                 t[j] = IF j <= Len(s) THEN s[j] ELSE Two(i)[j - Len(s)]
        <4>1. /\ Len(t) = Len(s) + Len(Two(i))
              /\ \A j \in 1..(Len(s) + Len(Two(i))) :
                   t[j] = IF j <= Len(s) THEN s[j] ELSE Two(i)[j - Len(s)]
          <5> HIDE DEF Span
          <5> QED BY <3>1, ConcatProperties DEF V
        <4> QED BY <3>1, <3>2, <4>1
      <3>4. Span(t, i)
        <4>1. Len(t) = 2 * (i - k)
          BY <1>2, <2>2, <3>3
        <4>2. ASSUME NEW j \in 1..(i - k)
              PROVE  /\ t[2 * j] = Statement("record", Migrations[k + j])
                     /\ t[2 * j - 1] = Statement("run", Migrations[k + j])
          <5>1. CASE j <= i - 1 - k
            <6>1. /\ 2 * j \in 1..(Len(s) + 2) /\ 2 * j <= Len(s)
                  /\ 2 * j - 1 \in 1..(Len(s) + 2) /\ 2 * j - 1 <= Len(s)
                  /\ j \in 1..(i - 1 - k)
              BY <1>2, <2>2, <3>3, <5>1
            <6> QED BY <3>1, <3>3, <6>1
          <5>2. CASE j = i - k
            <6>1. /\ 2 * j \in 1..(Len(s) + 2) /\ ~(2 * j <= Len(s)) /\ 2 * j - Len(s) = 2
                  /\ 2 * j - 1 \in 1..(Len(s) + 2) /\ ~(2 * j - 1 <= Len(s))
                  /\ 2 * j - 1 - Len(s) = 1 /\ k + j = i
              BY <1>2, <2>2, <3>3, <5>2
            <6> QED BY <3>2, <3>3, <6>1
          <5>3. j <= i - 1 - k \/ j = i - k
            BY <1>2, <2>2
          <5> QED BY <5>1, <5>2, <5>3
        <4> QED BY <4>1, <4>2
      <3> HIDE DEF Span
      <3> QED BY <1>2, <2>2, <3>4 DEF t
    <2>3. i <= k \/ i > k
      BY <1>2
    <2> QED BY <2>1, <2>2, <2>3
  <1>6. n \in S
    <2> HIDE DEF S
    <2>1. \A i \in 0..n : i \in S
      BY <1>2, <1>4, <1>5, AllPlaces
    <2> QED BY <1>2, <2>1
  <1>7. Span(f[n], n) /\ f[n] \in V
    <2> HIDE DEF Span, V
    <2> QED BY <1>2, <1>6
  <1>8. Left(f[n], k, 0)
    <2>1. \A i \in 1..(n - k) : 2 * i - 0 = 2 * i /\ 2 * i - 1 - 0 = 2 * i - 1
      BY <1>2
    <2>2. 2 * (n - k) - 0 = 2 * (n - k)
      BY <1>2
    <2> QED BY <1>7, <2>1, <2>2 DEF Left
  <1> QED BY <1>1, <1>7, <1>8

(* One statement less is left, then one migration less. *)
LEMMA LeftGoesOn ==
    ASSUME NEW todo \in Seq(MigrationSteps), NEW k \in 0..(Len(Migrations) - 1)
    PROVE  /\ Left(todo, k, 0) =>
                /\ todo # <<>> /\ Head(todo) = Statement("run", Migrations[k + 1])
                /\ Tail(todo) # <<>> /\ Left(Tail(todo), k, 1)
           /\ Left(todo, k, 1) =>
                /\ todo # <<>> /\ Head(todo) = Statement("record", Migrations[k + 1])
                /\ Left(Tail(todo), k + 1, 0)
                /\ Tail(todo) # <<>> => k + 1 < Len(Migrations)
PROOF
  <1> DEFINE n == Len(Migrations)
             t == Tail(todo)
  <1>1. n \in Nat /\ Len(todo) \in Nat /\ 1 \in 1..(n - k) /\ n - k >= 1
    BY SqlAssumption
  <1>2. todo # <<>> => /\ t \in Seq(MigrationSteps) /\ Len(t) = Len(todo) - 1
                       /\ \A i \in 1..Len(t) : t[i] = todo[i + 1]
                       /\ Head(todo) = todo[1]
    BY HeadTailProperties
  <1>3. ASSUME Left(todo, k, 0)
        PROVE  /\ todo # <<>> /\ Head(todo) = Statement("run", Migrations[k + 1])
               /\ t # <<>> /\ Left(t, k, 1)
    <2>1. /\ Len(todo) = 2 * (n - k)
          /\ \A i \in 1..(n - k) : /\ todo[2 * i] = Statement("record", Migrations[k + i])
                                   /\ todo[2 * i - 1] = Statement("run", Migrations[k + i])
      <3>1. \A i \in 1..(n - k) : 2 * i - 0 = 2 * i /\ 2 * i - 1 - 0 = 2 * i - 1
        BY <1>1
      <3>2. 2 * (n - k) - 0 = 2 * (n - k)
        BY <1>1
      <3> QED BY <1>3, <3>1, <3>2 DEF Left
    <2>2. todo # <<>> /\ Head(todo) = Statement("run", Migrations[k + 1])
      <3>1. todo # <<>>
        BY <1>1, <2>1
      <3>2. 2 * 1 - 1 = 1
        OBVIOUS
      <3> QED BY <1>1, <1>2, <2>1, <3>1, <3>2
    <2> HIDE DEF t
    <2>3. /\ Len(t) = 2 * (n - k) - 1 /\ t \in Seq(MigrationSteps)
          /\ \A i \in 1..Len(t) : t[i] = todo[i + 1]
      BY <1>2, <2>1, <2>2
    <2>4. t # <<>>
      BY <1>1, <2>3
    <2>5. ASSUME NEW i \in 1..(n - k)
          PROVE  /\ t[2 * i - 1] = Statement("record", Migrations[k + i])
                 /\ i > 1 => t[2 * i - 1 - 1] = Statement("run", Migrations[k + i])
      <3>1. 2 * i - 1 \in 1..Len(t) /\ 2 * i - 1 + 1 = 2 * i
        BY <1>1, <2>3
      <3>2. i > 1 => 2 * i - 1 - 1 \in 1..Len(t) /\ 2 * i - 1 - 1 + 1 = 2 * i - 1
        BY <1>1, <2>3
      <3> QED BY <2>1, <2>3, <3>1, <3>2
    <2> QED BY <2>2, <2>3, <2>4, <2>5 DEF Left
  <1>4. ASSUME Left(todo, k, 1)
        PROVE  /\ todo # <<>> /\ Head(todo) = Statement("record", Migrations[k + 1])
               /\ Left(t, k + 1, 0) /\ (t # <<>> => k + 1 < n)
    <2>1. /\ Len(todo) = 2 * (n - k) - 1
          /\ \A i \in 1..(n - k) :
               /\ todo[2 * i - 1] = Statement("record", Migrations[k + i])
               /\ i > 1 => todo[2 * i - 1 - 1] = Statement("run", Migrations[k + i])
      BY <1>4 DEF Left
    <2>2. todo # <<>> /\ Head(todo) = Statement("record", Migrations[k + 1])
      <3>1. todo # <<>>
        BY <1>1, <2>1
      <3>2. 2 * 1 - 1 = 1
        OBVIOUS
      <3> QED BY <1>1, <1>2, <2>1, <3>1, <3>2
    <2> HIDE DEF t
    <2>3. /\ Len(t) = 2 * (n - (k + 1)) - 0 /\ t \in Seq(MigrationSteps)
          /\ \A i \in 1..Len(t) : t[i] = todo[i + 1]
      BY <1>1, <1>2, <2>1, <2>2
    <2>4. t # <<>> => k + 1 < n
      BY <1>1, <2>3
    <2>5. ASSUME NEW i \in 1..(n - (k + 1))
          PROVE  /\ t[2 * i - 0] = Statement("record", Migrations[k + 1 + i])
                 /\ t[2 * i - 1 - 0] = Statement("run", Migrations[k + 1 + i])
      <3>1. /\ 2 * i - 0 \in 1..Len(t) /\ 2 * i - 0 + 1 = 2 * (i + 1) - 1
            /\ 2 * i - 1 - 0 \in 1..Len(t) /\ 2 * i - 1 - 0 + 1 = 2 * (i + 1) - 1 - 1
            /\ i + 1 \in 1..(n - k) /\ i + 1 > 1 /\ k + (i + 1) = k + 1 + i
        BY <1>1, <2>3
      <3> QED BY <2>1, <2>3, <3>1
    <2> QED BY <2>2, <2>3, <2>4, <2>5 DEF Left
  <1> QED BY <1>3, <1>4

(* Each of the tables has a statement. *)
HasEach(statements, tables) ==
  \A t \in tables : \E i \in 1..Len(statements) : statements[i].name = t

(* Of each table of a set, one statement. *)
LEMMA OfEachTable ==
    ASSUME NEW do, NEW T, IsFiniteSet(T)
    PROVE  /\ OfEach(do, T) \in Seq([do : {do}, name : T])
           /\ OfEach(do, T) = <<>> <=> T = {}
           /\ HasEach(OfEach(do, T), T)
PROOF
  <1> DEFINE n == Cardinality(T)
             f == SetToSeq(T)
             s == OfEach(do, T)
  <1>1. n \in Nat /\ ExistsBijection(1..n, T) /\ (n = 0 <=> T = {})
    BY FS_CardinalityType, FS_EmptySet
  <1>2. f \in [1..n -> T] /\ IsInjective(f)
    <2>1. PICK g : g \in Bijection(1..n, T)
      BY <1>1 DEF ExistsBijection
    <2>2. g \in [1..n -> T] /\ IsInjective(g)
      BY <2>1 DEF Bijection, Injection, IsInjective
    <2> QED BY <2>2 DEF SetToSeq
  <1>3. f \in Surjection(1..n, T)
    <2>1. f \in Injection(1..n, T)
      BY <1>2 DEF Injection, IsInjective
    <2>2. Cardinality(1..n) = n
      BY <1>1, FS_Interval
    <2> HIDE DEF f
    <2>3. Cardinality(1..n) = Cardinality(T) <=> f \in Surjection(1..n, T)
      BY <2>1, FS_Injection
    <2> QED BY <2>2, <2>3
  <1>4. \A t \in T : \E i \in 1..n : f[i] = t
    BY <1>3 DEF Surjection
  <1>5. s = [i \in 1..n |-> Statement(do, f[i])]
    BY DEF OfEach
  <1> HIDE DEF f, s
  <1>6. /\ \A i \in 1..n : s[i] \in [do : {do}, name : T] /\ s[i].name = f[i]
        /\ s \in [1..n -> [do : {do}, name : T]]
    BY <1>2, <1>5 DEF Statement
  <1>7. s \in Seq([do : {do}, name : T]) /\ Len(s) = n
    <2> DEFINE R == [do : {do}, name : T]
    <2>1. n \in Nat /\ s \in [1..n -> R]
      BY <1>1, <1>6
    <2> HIDE DEF n, R
    <2>2. s \in Seq(R) /\ Len(s) = n
      BY <2>1
    <2> QED BY <2>2 DEF R
  <1>8. s = <<>> <=> T = {}
    <2> HIDE DEF n
    <2> QED BY <1>1, <1>7
  <1>9. HasEach(s, T)
    BY <1>4, <1>6, <1>7 DEF HasEach
  <1> QED BY <1>7, <1>8, <1>9 DEF s

(* What a sequence without its one x is. *)
LEMMA WithoutIt ==
    ASSUME NEW S, NEW s \in Seq(S), NEW x,
           \A i, j \in 1..Len(s) : s[i] = s[j] => i = j
    PROVE  /\ Without(s, x) \in Seq(S)
           /\ \A i, j \in 1..Len(Without(s, x)) : Without(s, x)[i] = Without(s, x)[j] => i = j
           /\ ToSet(Without(s, x)) \subseteq ToSet(s) \ {x}
PROOF
  <1> DEFINE r == Without(s, x)
  <1>1. DOMAIN s = 1..Len(s) /\ Len(s) \in Nat /\ ToSet(s) = {s[i] : i \in 1..Len(s)}
    BY LenProperties DEF ToSet
  <1>2. CASE x \notin ToSet(s)
    <2>1. r = s
      BY <1>2 DEF Without
    <2> QED BY <1>2, <2>1
  <1>3. CASE x \in ToSet(s)
    <2>1. PICK i : i = CHOOSE j \in DOMAIN s : s[j] = x
      OBVIOUS
    <2>2. i \in 1..Len(s) /\ s[i] = x
      BY <1>1, <1>3, <2>1
    <2>3. r = RemoveAt(s, i)
      BY <1>3, <2>1 DEF Without
    <2>4. /\ r \in Seq(S) /\ Len(r) = Len(s) - 1
          /\ \A j \in 1..(Len(s) - 1) : r[j] = IF j < i THEN s[j] ELSE s[j + 1]
      <3>1. /\ RemoveAt(s, i) \in Seq(S) /\ Len(RemoveAt(s, i)) = Len(s) - 1
            /\ \A j \in 1..(Len(s) - 1) :
                 RemoveAt(s, i)[j] = IF j < i THEN s[j] ELSE s[j + 1]
        BY <2>2, RemoveAtPlaces
      <3> HIDE DEF r
      <3> QED BY <2>3, <3>1
    <2> HIDE DEF r
    <2>5. \A j \in 1..Len(r) : \E k \in 1..Len(s) : /\ k # i /\ r[j] = s[k]
                                                    /\ k = IF j < i THEN j ELSE j + 1
      <3> SUFFICES ASSUME NEW j \in 1..Len(r)
                   PROVE  \E k \in 1..Len(s) : /\ k # i /\ r[j] = s[k]
                                               /\ k = IF j < i THEN j ELSE j + 1
        OBVIOUS
      <3>1. j \in 1..(Len(s) - 1) /\ j \in 1..Len(s) /\ j + 1 \in 1..Len(s)
        BY <1>1, <2>2, <2>4
      <3>2. CASE j < i
        BY <2>2, <2>4, <3>1, <3>2
      <3>3. CASE ~(j < i)
        <4>1. j + 1 # i
          BY <2>2, <3>1, <3>3
        <4> QED BY <2>4, <3>1, <3>3, <4>1
      <3> QED BY <3>2, <3>3
    <2>6. ASSUME NEW j \in 1..Len(r), NEW k \in 1..Len(r), r[j] = r[k]
          PROVE  j = k
      <3>1. PICK a \in 1..Len(s) : r[j] = s[a] /\ a = IF j < i THEN j ELSE j + 1
        BY <2>5
      <3>2. PICK b \in 1..Len(s) : r[k] = s[b] /\ b = IF k < i THEN k ELSE k + 1
        BY <2>5
      <3>3. a = b
        BY <2>6, <3>1, <3>2
      <3> QED BY <2>2, <3>1, <3>2, <3>3
    <2>7. ToSet(r) \subseteq ToSet(s) \ {x}
      <3>1. ToSet(r) = {r[j] : j \in 1..Len(r)}
        BY <2>4, LenProperties DEF ToSet
      <3>2. ASSUME NEW j \in 1..Len(r) PROVE r[j] \in ToSet(s) /\ r[j] # x
        <4>1. PICK k \in 1..Len(s) : k # i /\ r[j] = s[k]
          BY <2>5
        <4> QED BY <1>1, <2>2, <4>1
      <3> QED BY <3>1, <3>2
    <2> QED BY <2>4, <2>6, <2>7 DEF r
  <1> QED BY <1>2, <1>3

(* The log's own table is no other, nor is that of the query; the tables there may be
   are finitely many. *)
LEMMA Tables ==
  /\ AppTable # MigrationLog /\ {AppTable, MigrationLog} \cap ToSet(Migrations) = {}
  /\ AppTable \notin Restored
  /\ Restored \subseteq TableNames /\ ToSet(Migrations) \subseteq TableNames
  /\ AppTable \in TableNames /\ MigrationLog \in TableNames
  /\ IsFiniteSet(TableNames)
PROOF
  <1>1. IsFiniteSet(ToSet(Migrations))
    <2>1. Len(Migrations) \in Nat /\ DOMAIN Migrations = 1..Len(Migrations)
      BY SqlAssumption
    <2>2. IsFiniteSet(1..Len(Migrations))
      BY <2>1, FS_Interval
    <2>3. Migrations \in Surjection(1..Len(Migrations), ToSet(Migrations))
      BY <2>1, SqlAssumption DEF Surjection, ToSet
    <2> QED BY <2>2, <2>3, FS_Surjection
  <1>2. IsFiniteSet(TableNames)
    <2> DEFINE T == ToSet(Migrations)
    <2>1. IsFiniteSet(T) /\ IsFiniteSet(Restored)
      BY <1>1, SqlAssumption
    <2> HIDE DEF T
    <2>2. IsFiniteSet(Restored \cup T)
      BY <2>1, FS_Union
    <2>3. IsFiniteSet((Restored \cup T) \cup {AppTable})
      BY <2>2, FS_AddElement
    <2>4. IsFiniteSet(((Restored \cup T) \cup {AppTable}) \cup {MigrationLog})
      BY <2>3, FS_AddElement
    <2>5. TableNames = ((Restored \cup T) \cup {AppTable}) \cup {MigrationLog}
      BY DEF TableNames, T
    <2> QED BY <2>4, <2>5
  <1>3. /\ AppTable # MigrationLog /\ {AppTable, MigrationLog} \cap ToSet(Migrations) = {}
        /\ AppTable \notin Restored
    BY SqlAssumption DEF AppTable, MigrationLog
  <1> QED BY <1>2, <1>3 DEF TableNames

(* What each of the requests is. *)
LEMMA RequestKinds ==
    ASSUME NEW r \in SqlRequests
    PROVE  /\ r.do \in {"make log", "list log", "list", "make", "run", "record", "describe", "drop"}
           /\ r.do = "make log" <=> r = MakeLog
           /\ r.do = "list log" <=> r = ListLog
           /\ r.do = "list" <=> r = List
           /\ r.do = "make" <=> r = MakeTable
           /\ r.do \in {"run", "record"} <=> r \in MigrationSteps
           /\ r.do = "describe" <=> r \in Describes
           /\ r.do = "drop" <=> r \in Drops
           /\ r = MakeTable => r.name = AppTable
           /\ r \in MigrationSteps => r.name \in ToSet(Migrations)
           /\ r \in Describes \cup Drops => r.name \in TableNames
PROOF
  <1>1. /\ MakeLog.do = "make log" /\ ListLog.do = "list log" /\ List.do = "list"
        /\ MakeTable.do = "make" /\ MakeTable.name = AppTable
    BY DEF MakeLog, ListLog, List, MakeTable, Statement
  <1>2. /\ \A x \in MigrationSteps : x.do \in {"run", "record"} /\ x.name \in ToSet(Migrations)
        /\ \A x \in Describes : x.do = "describe" /\ x.name \in TableNames
        /\ \A x \in Drops : x.do = "drop" /\ x.name \in TableNames
    BY DEF MigrationSteps, Describes, Drops
  <1>3. \/ r \in {MakeLog, ListLog, List, MakeTable}
        \/ r \in MigrationSteps \/ r \in Describes \/ r \in Drops
    BY DEF SqlRequests
  <1> QED BY <1>1, <1>2, <1>3

(* What the server holds once a request is met. *)
AfterIt(r, data, clean) == [Done(r, data) EXCEPT !.clean = clean]

(* What the server then holds. *)
HoldsThen(data, h, new) ==
  /\ new \in SqlData /\ DataHolds(new)
  /\ new.tables = CASE h.do = "make log" -> data.tables \cup {MigrationLog}
                    [] h.do \in {"make", "run"} -> data.tables \cup {h.name}
                    [] h.do = "drop" -> data.tables \ {h.name}
                    [] OTHER -> data.tables
  /\ h.do = "run" => new.ran = Append(data.ran, h.name)
  /\ h.do = "record" => new.log = Append(data.log, h.name)
  /\ h.do \notin {"run", "drop"} => new.ran = data.ran
  /\ h.do \notin {"record", "drop"} => new.log = data.log

(* A request that can be met keeps what the server holds in order. *)
LEMMA DoneKeepsData ==
    ASSUME NEW r \in SqlRequests, NEW data \in SqlData, DataHolds(data), Possible(r, data),
           NEW clean \in BOOLEAN, NEW new, new = AfterIt(r, data, clean)
    PROVE  HoldsThen(data, r, new) /\ new.clean = clean
PROOF
  <1> SUFFICES /\ new \in SqlData /\ DataHolds(new) /\ new.clean = clean
               /\ new.tables = CASE r.do = "make log" -> data.tables \cup {MigrationLog}
                                 [] r.do \in {"make", "run"} -> data.tables \cup {r.name}
                                 [] r.do = "drop" -> data.tables \ {r.name}
                                 [] OTHER -> data.tables
               /\ r.do = "run" => new.ran = Append(data.ran, r.name)
               /\ r.do = "record" => new.log = Append(data.log, r.name)
               /\ r.do \notin {"run", "drop"} => new.ran = data.ran
               /\ r.do \notin {"record", "drop"} => new.log = data.log
    BY DEF HoldsThen
  <1> DEFINE M == ToSet(Migrations)
  <1>1. /\ data.tables \in SUBSET TableNames /\ data.log \in Seq(M) /\ data.ran \in Seq(M)
        /\ data = [tables |-> data.tables, log |-> data.log, ran |-> data.ran,
                   clean |-> data.clean]
        /\ data.clean \in BOOLEAN
    BY DEF SqlData
  <1>2. /\ ToSet(data.ran) \subseteq data.tables
        /\ \A i, j \in 1..Len(data.ran) : data.ran[i] = data.ran[j] => i = j
        /\ data.log # <<>> => MigrationLog \in data.tables
    BY DEF DataHolds
  <1>3. ASSUME new = [tables |-> new.tables, log |-> new.log, ran |-> new.ran, clean |-> clean],
               new.tables \in SUBSET TableNames, new.log \in Seq(M), new.ran \in Seq(M),
               ToSet(new.ran) \subseteq new.tables,
               \A i, j \in 1..Len(new.ran) : new.ran[i] = new.ran[j] => i = j,
               new.log # <<>> => MigrationLog \in new.tables
        PROVE  new \in SqlData /\ DataHolds(new)
    <2> HIDE DEF M
    <2>1. [tables |-> new.tables, log |-> new.log, ran |-> new.ran, clean |-> clean]
            \in [tables : SUBSET TableNames, log : Seq(M), ran : Seq(M), clean : BOOLEAN]
      BY <1>3
    <2> QED BY <1>3, <2>1 DEF SqlData, DataHolds, M
  <1>10. ASSUME NEW t, NEW l, NEW n,
               Done(r, data) = [tables |-> t, log |-> l, ran |-> n, clean |-> data.clean]
        PROVE  new = [tables |-> t, log |-> l, ran |-> n, clean |-> clean]
    <2>1. AfterIt(r, data, clean) = [tables |-> t, log |-> l, ran |-> n, clean |-> clean]
      BY <1>10 DEF AfterIt
    <2> QED BY <2>1
  <1>4. CASE r.do = "make log"
    <2>1. new = [tables |-> data.tables \cup {MigrationLog}, log |-> data.log,
                 ran |-> data.ran, clean |-> clean]
      <3>1. Done(r, data) = [data EXCEPT !.tables = @ \cup {MigrationLog}]
        BY <1>4 DEF Done
      <3>2. Done(r, data) = [tables |-> data.tables \cup {MigrationLog}, log |-> data.log,
                 ran |-> data.ran, clean |-> data.clean]
        BY <1>1, <3>1
      <3> QED BY <1>10, <3>2
    <2>2. data.tables \cup {MigrationLog} \in SUBSET TableNames
      BY <1>1, Tables
    <2> HIDE DEF M
    <2>8. /\ new.clean = clean
          /\ new.tables = data.tables \cup {MigrationLog}
          /\ new.log = data.log /\ new.ran = data.ran
          /\ new = [tables |-> new.tables, log |-> new.log, ran |-> new.ran, clean |-> clean]
      BY <2>1
    <2>9. new \in SqlData /\ DataHolds(new)
      BY <1>1, <1>2, <1>3, <2>2, <2>8
    <2> QED BY <1>4, <2>8, <2>9
  <1>5. CASE r.do = "make"
    <2>1. new = [tables |-> data.tables \cup {r.name}, log |-> data.log,
                 ran |-> data.ran, clean |-> clean]
      <3>1. Done(r, data) = [data EXCEPT !.tables = @ \cup {r.name}]
        BY <1>5 DEF Done
      <3>2. Done(r, data) = [tables |-> data.tables \cup {r.name}, log |-> data.log,
                 ran |-> data.ran, clean |-> data.clean]
        BY <1>1, <3>1
      <3> QED BY <1>10, <3>2
    <2>2. data.tables \cup {r.name} \in SUBSET TableNames
      BY <1>1, <1>5, Tables, RequestKinds
    <2> HIDE DEF M
    <2>8. /\ new.clean = clean
          /\ new.tables = data.tables \cup {r.name}
          /\ new.log = data.log /\ new.ran = data.ran
          /\ new = [tables |-> new.tables, log |-> new.log, ran |-> new.ran, clean |-> clean]
      BY <2>1
    <2>9. new \in SqlData /\ DataHolds(new)
      BY <1>1, <1>2, <1>3, <2>2, <2>8
    <2> QED BY <1>5, <2>8, <2>9
  <1>6. CASE r.do = "run"
    <2>1. new = [tables |-> data.tables \cup {r.name}, log |-> data.log,
                 ran |-> Append(data.ran, r.name), clean |-> clean]
      <3>1. Done(r, data) = [data EXCEPT !.tables = @ \cup {r.name}, !.ran = Append(@, r.name)]
        BY <1>6 DEF Done
      <3>2. Done(r, data) = [tables |-> data.tables \cup {r.name}, log |-> data.log,
                 ran |-> Append(data.ran, r.name), clean |-> data.clean]
        BY <1>1, <3>1
      <3> QED BY <1>10, <3>2
    <2>2. r.name \in M /\ r.name \notin data.tables
      BY <1>6, RequestKinds DEF Possible
    <2>3. data.tables \cup {r.name} \in SUBSET TableNames
      BY <1>1, <2>2, Tables
    <2> DEFINE ran == Append(data.ran, r.name)
    <2> HIDE DEF M
    <2>4. /\ ran \in Seq(M) /\ Len(ran) = Len(data.ran) + 1 /\ ran[Len(data.ran) + 1] = r.name
          /\ \A i \in 1..Len(data.ran) : ran[i] = data.ran[i]
          /\ Len(data.ran) \in Nat
      BY <1>1, <2>2, AppendProperties
    <2> HIDE DEF ran
    <2>5. \A i \in 1..Len(data.ran) : data.ran[i] \in data.tables /\ data.ran[i] # r.name
      BY <1>1, <1>2, <2>2, LenProperties DEF ToSet
    <2>6. \A i \in 1..Len(ran) : i \in 1..Len(data.ran) \/ i = Len(data.ran) + 1
      BY <2>4
    <2>7. \A i, j \in 1..Len(ran) : ran[i] = ran[j] => i = j
      BY <1>2, <2>4, <2>5, <2>6
    <2>10. ToSet(ran) \subseteq data.tables \cup {r.name}
      <3>1. DOMAIN ran = 1..Len(ran)
        BY <2>4, LenProperties
      <3> QED BY <2>4, <2>5, <2>6, <3>1 DEF ToSet
    <2>8. /\ new.clean = clean
          /\ new.tables = data.tables \cup {r.name}
          /\ new.log = data.log /\ new.ran = ran
          /\ new = [tables |-> new.tables, log |-> new.log, ran |-> new.ran, clean |-> clean]
      BY <2>1 DEF ran
    <2>9. new \in SqlData /\ DataHolds(new)
      BY <1>1, <1>2, <1>3, <2>3, <2>4, <2>7, <2>8, <2>10
    <2> QED BY <1>6, <2>8, <2>9 DEF ran
  <1>7. CASE r.do = "record"
    <2>1. new = [tables |-> data.tables, log |-> Append(data.log, r.name),
                 ran |-> data.ran, clean |-> clean]
      <3>1. Done(r, data) = [data EXCEPT !.log = Append(@, r.name)]
        BY <1>7 DEF Done
      <3>2. Done(r, data) = [tables |-> data.tables, log |-> Append(data.log, r.name),
                 ran |-> data.ran, clean |-> data.clean]
        BY <1>1, <3>1
      <3> QED BY <1>10, <3>2
    <2>2. r.name \in M /\ MigrationLog \in data.tables
      BY <1>7, RequestKinds DEF Possible
    <2> HIDE DEF M
    <2>3. Append(data.log, r.name) \in Seq(M)
      BY <1>1, <2>2, AppendProperties
    <2>8. /\ new.clean = clean
          /\ new.tables = data.tables
          /\ new.log = Append(data.log, r.name) /\ new.ran = data.ran
          /\ new = [tables |-> new.tables, log |-> new.log, ran |-> new.ran, clean |-> clean]
      BY <2>1
    <2>9. new \in SqlData /\ DataHolds(new)
      BY <1>1, <1>2, <1>3, <2>2, <2>3, <2>8
    <2> QED BY <1>7, <2>8, <2>9
  <1>8. CASE r.do = "drop"
    <2> DEFINE log == IF r.name = MigrationLog THEN <<>> ELSE data.log
               ran == Without(data.ran, r.name)
    <2>1. new = [tables |-> data.tables \ {r.name}, log |-> log, ran |-> ran, clean |-> clean]
      <3>1. Done(r, data) = [data EXCEPT !.tables = @ \ {r.name},
                                       !.log = IF r.name = MigrationLog THEN <<>> ELSE @,
                                       !.ran = Without(@, r.name)]
        BY <1>8 DEF Done
      <3>2. Done(r, data) = [tables |-> data.tables \ {r.name}, log |-> log, ran |-> ran, clean |-> data.clean]
        BY <1>1, <3>1
      <3> QED BY <1>10, <3>2
    <2>2. /\ ran \in Seq(M) /\ \A i, j \in 1..Len(ran) : ran[i] = ran[j] => i = j
          /\ ToSet(ran) \subseteq ToSet(data.ran) \ {r.name}
      <3> HIDE DEF M
      <3> QED BY <1>1, <1>2, WithoutIt
    <2>3. log \in Seq(M) /\ (log # <<>> => MigrationLog \in data.tables \ {r.name})
      BY <1>1, <1>2
    <2>4. data.tables \ {r.name} \in SUBSET TableNames
      BY <1>1
    <2> HIDE DEF M, ran, log
    <2>8. /\ new.clean = clean
          /\ new.tables = data.tables \ {r.name}
          /\ new.log = log /\ new.ran = ran
          /\ new = [tables |-> new.tables, log |-> new.log, ran |-> new.ran, clean |-> clean]
      BY <2>1 DEF log, ran
    <2>9. new \in SqlData /\ DataHolds(new)
      BY <1>2, <1>3, <2>2, <2>3, <2>4, <2>8
    <2> QED BY <1>8, <2>8, <2>9
  <1>9. CASE r.do \in {"list log", "list", "describe"}
    <2>1. new = [tables |-> data.tables, log |-> data.log, ran |-> data.ran, clean |-> clean]
      <3>1. Done(r, data) = data
        BY <1>9 DEF Done
      <3>2. Done(r, data) = [tables |-> data.tables, log |-> data.log, ran |-> data.ran, clean |-> data.clean]
        BY <1>1, <3>1
      <3> QED BY <1>10, <3>2
    <2> HIDE DEF M
    <2>8. /\ new.clean = clean
          /\ new.tables = data.tables
          /\ new.log = data.log /\ new.ran = data.ran
          /\ new = [tables |-> new.tables, log |-> new.log, ran |-> new.ran, clean |-> clean]
      BY <2>1
    <2>9. new \in SqlData /\ DataHolds(new)
      BY <1>1, <1>2, <1>3, <2>8
    <2> QED BY <1>9, <2>8, <2>9
  <1> QED BY <1>4, <1>5, <1>6, <1>7, <1>8, <1>9, RequestKinds

(* Calls that are under way meet as the table of Meets says. *)
LEMMA ProgramsMeet ==
    ASSUME NEW c \in SqlCalls, NEW d \in SqlCalls
    PROVE  /\ Program(c) \in {"migrate", "query", "schema", "reset", "stop"}
           /\ Meets(c, d) <=> Meets(d, c)
           /\ Program(d) \in {"reset", "stop"} => Meets(c, d)
           /\ Program(c) = "migrate" /\ Program(d) = "migrate" => Meets(c, d)
           /\ Program(c) = "query" /\ Program(d) = "query" => c = d
BY SqlAssumption DEF Program, Meets

(* What is known of a call that waits for an answer: what it asks, and what is left. *)
LEMMA WhatIsAsked ==
    ASSUME NEW c \in SqlCalls, SqlTyped, SqlProgress(c), sqlCalls[c].at = "sent"
    PROVE  LET todo == sqlCalls[c].todo IN
           /\ InProgress(c) /\ Program(c) # "stop"
           /\ todo # <<>> /\ todo \in Seq(SqlRequests)
           /\ Head(todo) \in SqlRequests /\ Tail(todo) \in Seq(SqlRequests)
           /\ Program(c) = "migrate" => \/ Head(todo) = MakeLog /\ todo = <<MakeLog, ListLog>>
                                        \/ Head(todo) = ListLog /\ todo = <<ListLog>>
                                        \/ /\ Head(todo) \in MigrationSteps
                                           /\ todo \in Seq(MigrationSteps)
                                           /\ Tail(todo) \in Seq(MigrationSteps)
           /\ Program(c) = "query" => Head(todo) = MakeTable /\ todo = <<MakeTable>>
           /\ Program(c) = "schema" => \/ Head(todo) = List /\ todo = <<List>>
                                       \/ /\ Head(todo) \in Describes
                                          /\ todo \in Seq(Describes) /\ Tail(todo) \in Seq(Describes)
           /\ Program(c) = "reset" => \/ Head(todo) = List /\ todo = <<List>>
                                      \/ /\ Head(todo) \in Drops
                                         /\ todo \in Seq(Drops) /\ Tail(todo) \in Seq(Drops)
PROOF
  <1> DEFINE todo == sqlCalls[c].todo
  <1>1. todo \in Seq(SqlRequests)
    BY DEF SqlTyped, SqlRecord
  <1>2. InProgress(c)
    BY DEF InProgress
  <1>3. Program(c) # "stop"
    BY <1>2 DEF SqlProgress
  <1>4. /\ Program(c) = "migrate" => \/ todo \in {<<MakeLog, ListLog>>, <<ListLog>>}
                                     \/ todo \in Seq(MigrationSteps) /\ todo # <<>>
        /\ Program(c) = "query" => todo = <<MakeTable>>
        /\ Program(c) = "schema" => todo = <<List>> \/ (todo \in Seq(Describes) /\ todo # <<>>)
        /\ Program(c) = "reset" => todo = <<List>> \/ (todo \in Seq(Drops) /\ todo # <<>>)
    BY <1>2 DEF SqlProgress
  <1> HIDE DEF todo
  <1>5. /\ <<MakeLog, ListLog>> # <<>> /\ Head(<<MakeLog, ListLog>>) = MakeLog
        /\ \A x : <<x>> # <<>> /\ Head(<<x>>) = x
    OBVIOUS
  <1>6. todo # <<>>
    BY <1>3, <1>4, <1>5, ProgramsMeet
  <1>7. Head(todo) \in SqlRequests /\ Tail(todo) \in Seq(SqlRequests)
    BY <1>1, <1>6, HeadTailProperties
  <1>8. \A S : todo \in Seq(S) => Head(todo) \in S /\ Tail(todo) \in Seq(S)
    BY <1>6, HeadTailProperties
  <1> QED BY <1>1, <1>2, <1>3, <1>4, <1>5, <1>6, <1>7, <1>8 DEF todo

(* What is left of each program. *)
RestIs(c, data, h, rest, left) ==
  /\ left \in Seq(SqlRequests)
  /\ h = MakeLog => left = <<ListLog>>
  /\ h = ListLog => /\ left = ToMigrate(data)
                    /\ left \in Seq(MigrationSteps)
  /\ h \in MigrationSteps => left = rest /\ rest \in Seq(MigrationSteps)
  /\ h = MakeTable => left = <<>>
  /\ h = List /\ Program(c) = "schema" => /\ left = OfEach("describe", data.tables)
                                          /\ left \in Seq(Describes)
  /\ h = List /\ Program(c) = "reset" => /\ left = OfEach("drop", data.tables)
                                         /\ left \in Seq(Drops)
  /\ h \in Describes => left = rest /\ rest \in Seq(Describes)
  /\ h \in Drops => left = rest /\ rest \in Seq(Drops)
  /\ h = List => Program(c) \in {"schema", "reset"}

(* What is left once the request is answered. *)
LEMMA WhatIsLeft ==
    ASSUME NEW c \in SqlCalls, SqlTyped, SqlProgress(c), sqlCalls[c].at = "sent",
           NEW data \in SqlData, NEW h, NEW rest, NEW left, h = Head(sqlCalls[c].todo),
           rest = Tail(sqlCalls[c].todo), left = Rest(c, data)
    PROVE  RestIs(c, data, h, rest, left)
PROOF
  <1> SUFFICES /\ left \in Seq(SqlRequests)
               /\ h = MakeLog => left = <<ListLog>>
               /\ h = ListLog => /\ left = ToMigrate(data)
                                 /\ left \in Seq(MigrationSteps)
               /\ h \in MigrationSteps => left = rest /\ rest \in Seq(MigrationSteps)
               /\ h = MakeTable => left = <<>>
               /\ h = List /\ Program(c) = "schema" => /\ left = OfEach("describe", data.tables)
                                                       /\ left \in Seq(Describes)
               /\ h = List /\ Program(c) = "reset" => /\ left = OfEach("drop", data.tables)
                                                      /\ left \in Seq(Drops)
               /\ h \in Describes => left = rest /\ rest \in Seq(Describes)
               /\ h \in Drops => left = rest /\ rest \in Seq(Drops)
               /\ h = List => Program(c) \in {"schema", "reset"}
    BY DEF RestIs
  <1> DEFINE todo == sqlCalls[c].todo
  <1>1. h \in SqlRequests /\ rest \in Seq(SqlRequests)
    BY WhatIsAsked
  <1>2. left = CASE h.do = "list log" -> rest \o ToMigrate(data)
                 [] h.do = "list" ->
                      rest \o OfEach(IF Program(c) = "reset" THEN "drop" ELSE "describe", data.tables)
                 [] OTHER -> rest
    BY DEF Rest
  <1>3. /\ Program(c) = "migrate" => \/ h = MakeLog /\ todo = <<MakeLog, ListLog>>
                                     \/ h = ListLog /\ todo = <<ListLog>>
                                     \/ h \in MigrationSteps /\ rest \in Seq(MigrationSteps)
        /\ Program(c) = "query" => h = MakeTable /\ todo = <<MakeTable>>
        /\ Program(c) = "schema" => \/ h = List /\ todo = <<List>>
                                    \/ h \in Describes /\ rest \in Seq(Describes)
        /\ Program(c) = "reset" => \/ h = List /\ todo = <<List>>
                                   \/ h \in Drops /\ rest \in Seq(Drops)
        /\ Program(c) \in {"migrate", "query", "schema", "reset"}
    BY WhatIsAsked, ProgramsMeet
  <1>4. rest = Tail(todo)
    OBVIOUS
  <1>5. \A x : Tail(<<x>>) = <<>>
    OBVIOUS
  <1>6. Tail(<<MakeLog, ListLog>>) = <<ListLog>>
    OBVIOUS
  <1>7. /\ MigrationSteps \subseteq SqlRequests /\ Describes \subseteq SqlRequests
        /\ Drops \subseteq SqlRequests
        /\ MakeLog \in SqlRequests /\ ListLog \in SqlRequests /\ List \in SqlRequests
        /\ MakeTable \in SqlRequests
    BY DEF SqlRequests
  <1> HIDE DEF todo
  <1>8. /\ MakeLog.do = "make log" /\ ListLog.do = "list log" /\ List.do = "list"
        /\ MakeTable.do = "make"
        /\ \A x \in MigrationSteps : x.do \in {"run", "record"}
        /\ \A x \in Describes : x.do = "describe"
        /\ \A x \in Drops : x.do = "drop"
    BY <1>7, RequestKinds
  <1>9. CASE h = MakeLog
    <2>1. rest = <<ListLog>> /\ left = rest
      BY <1>2, <1>3, <1>4, <1>6, <1>8, <1>9
    <2> QED BY <1>1, <1>8, <1>9, <2>1
  <1>10. CASE h = ListLog
    <2>1. rest = <<>> /\ left = rest \o ToMigrate(data)
      BY <1>2, <1>3, <1>4, <1>5, <1>8, <1>10
    <2>2. ToMigrate(data) \in Seq(MigrationSteps)
      <3>1. Len(Migrations) \in 0..Len(Migrations)
        BY SqlAssumption
      <3> QED BY <3>1, MigratesInOrder
    <2>3. left = ToMigrate(data)
      BY <2>1, <2>2, ConcatEmptySeq
    <2>4. left \in Seq(SqlRequests)
      BY <1>7, <2>2, <2>3, SeqMonotonic
    <2> QED BY <1>8, <1>10, <2>2, <2>3, <2>4
  <1>11. CASE h \in MigrationSteps
    <2>1. left = rest /\ rest \in Seq(MigrationSteps)
      BY <1>2, <1>3, <1>8, <1>11
    <2> QED BY <1>1, <1>8, <1>11, <2>1
  <1>12. CASE h = MakeTable
    <2>1. rest = <<>> /\ left = rest
      BY <1>2, <1>3, <1>4, <1>5, <1>8, <1>12
    <2> QED BY <1>1, <1>8, <1>12, <2>1
  <1>13. CASE h = List
    <2> DEFINE do == IF Program(c) = "reset" THEN "drop" ELSE "describe"
    <2>1. rest = <<>> /\ left = rest \o OfEach(do, data.tables) /\ Program(c) \in {"schema", "reset"}
      BY <1>2, <1>3, <1>4, <1>5, <1>8, <1>13
    <2>2. OfEach(do, data.tables) \in Seq([do : {do}, name : data.tables])
      <3>1. data.tables \in SUBSET TableNames
        BY DEF SqlData
      <3>2. IsFiniteSet(data.tables)
        BY <3>1, Tables, FS_Subset
      <3> HIDE DEF do
      <3> QED BY <3>2, OfEachTable
    <2>3. left = OfEach(do, data.tables)
      <3> HIDE DEF do
      <3> QED BY <2>1, <2>2, ConcatEmptySeq
    <2>4. CASE Program(c) = "reset"
      <3>1. do = "drop" /\ [do : {"drop"}, name : data.tables] \subseteq Drops
        BY <2>4 DEF Drops, SqlData
      <3>2. left \in Seq(Drops)
        <4> HIDE DEF do
        <4> QED BY <2>2, <2>3, <3>1, SeqMonotonic
      <3>3. left \in Seq(SqlRequests)
        BY <1>7, <3>2, SeqMonotonic
      <3>4. left = OfEach("drop", data.tables)
        BY <2>3, <3>1
      <3> QED BY <1>8, <1>13, <2>4, <3>2, <3>3, <3>4
    <2>5. CASE Program(c) = "schema"
      <3>1. do = "describe" /\ [do : {"describe"}, name : data.tables] \subseteq Describes
        BY <2>5 DEF Describes, SqlData
      <3>2. left \in Seq(Describes)
        <4> HIDE DEF do
        <4> QED BY <2>2, <2>3, <3>1, SeqMonotonic
      <3>3. left \in Seq(SqlRequests)
        BY <1>7, <3>2, SeqMonotonic
      <3>4. left = OfEach("describe", data.tables)
        BY <2>3, <3>1
      <3> QED BY <1>8, <1>13, <2>5, <3>2, <3>3, <3>4
    <2> QED BY <2>1, <2>4, <2>5
  <1>14. CASE h \in Describes
    <2>1. left = rest /\ rest \in Seq(Describes)
      BY <1>2, <1>3, <1>8, <1>14
    <2> QED BY <1>1, <1>8, <1>14, <2>1
  <1>15. CASE h \in Drops
    <2>1. left = rest /\ rest \in Seq(Drops)
      BY <1>2, <1>3, <1>8, <1>15
    <2> QED BY <1>1, <1>8, <1>15, <2>1
  <1> QED BY <1>3, <1>9, <1>10, <1>11, <1>12, <1>13, <1>14, <1>15

(* A call begins; the ones it meets are no longer alone. *)
LEMMA CallBegins ==
    ASSUME SqlTyped, NEW c \in SqlCalls, NEW a \in SqlStates, NEW o \in 0..MaxServers,
           NEW t \in Seq(SqlRequests), sqlCalls' = Beginning(c, a, o, t)
    PROVE  /\ sqlCalls' \in [SqlCalls -> SqlRecord]
           /\ sqlCalls'[c].at = a /\ sqlCalls'[c].on = o /\ sqlCalls'[c].todo = t
           /\ sqlCalls'[c].alone = (Others(c) = {})
           /\ \A d \in SqlCalls \ {c} :
                /\ sqlCalls'[d].at = sqlCalls[d].at /\ sqlCalls'[d].on = sqlCalls[d].on
                /\ sqlCalls'[d].todo = sqlCalls[d].todo
                /\ sqlCalls'[d].alone = (sqlCalls[d].alone /\ d \notin Others(c))
PROOF
  <1>1. \A d \in SqlCalls :
          /\ sqlCalls[d] \in SqlRecord /\ sqlCalls[d].alone \in BOOLEAN
          /\ sqlCalls[d].at \in SqlStates /\ sqlCalls[d].on \in 0..MaxServers
          /\ sqlCalls[d].todo \in Seq(SqlRequests)
          /\ sqlCalls[d] = [at |-> sqlCalls[d].at, on |-> sqlCalls[d].on,
                            todo |-> sqlCalls[d].todo, alone |-> sqlCalls[d].alone]
    BY DEF SqlTyped, SqlRecord
  <1>2. sqlCalls'[c] = [at |-> a, on |-> o, todo |-> t, alone |-> Others(c) = {}]
    BY DEF Beginning
  <1>3. ASSUME NEW d \in SqlCalls \ {c}
        PROVE  /\ sqlCalls'[d].at = sqlCalls[d].at /\ sqlCalls'[d].on = sqlCalls[d].on
               /\ sqlCalls'[d].todo = sqlCalls[d].todo
               /\ sqlCalls'[d].alone = (sqlCalls[d].alone /\ d \notin Others(c))
               /\ sqlCalls'[d] \in SqlRecord
    <2> DEFINE b == sqlCalls[d].alone /\ d \notin Others(c)
    <2>1. sqlCalls'[d] = [sqlCalls[d] EXCEPT !.alone = b]
      BY DEF Beginning
    <2>2. b \in BOOLEAN
      BY <1>1
    <2> HIDE DEF b
    <2>3. sqlCalls'[d] = [at |-> sqlCalls[d].at, on |-> sqlCalls[d].on,
                          todo |-> sqlCalls[d].todo, alone |-> b]
      BY <1>1, <2>1
    <2>4. sqlCalls'[d] \in SqlRecord
      <3>1. /\ sqlCalls[d].at \in SqlStates /\ sqlCalls[d].on \in 0..MaxServers
            /\ sqlCalls[d].todo \in Seq(SqlRequests)
        BY <1>1
      <3>2. [at |-> sqlCalls[d].at, on |-> sqlCalls[d].on, todo |-> sqlCalls[d].todo, alone |-> b]
              \in SqlRecord
        BY <2>2, <3>1 DEF SqlRecord
      <3> QED BY <2>3, <3>2
    <2>5. /\ sqlCalls'[d].at = sqlCalls[d].at /\ sqlCalls'[d].on = sqlCalls[d].on
          /\ sqlCalls'[d].todo = sqlCalls[d].todo /\ sqlCalls'[d].alone = b
      BY <2>3
    <2> QED BY <2>4, <2>5 DEF b
  <1>4. \A d \in SqlCalls : sqlCalls'[d] \in SqlRecord
    <2>1. [at |-> a, on |-> o, todo |-> t, alone |-> Others(c) = {}] \in SqlRecord
      BY DEF SqlRecord
    <2> QED BY <1>2, <1>3, <2>1
  <1>5. sqlCalls' = [d \in SqlCalls |-> sqlCalls'[d]]
    BY DEF Beginning
  <1>6. sqlCalls' \in [SqlCalls -> SqlRecord]
    BY <1>4, <1>5
  <1> QED BY <1>2, <1>3, <1>6

(* A call goes on, and the others rest. *)
SqlMoves(c, at, on, todo) ==
  /\ sqlCalls' \in [SqlCalls -> SqlRecord]
  /\ sqlCalls'[c] = [at |-> at, on |-> on, todo |-> todo, alone |-> sqlCalls[c].alone]
  /\ \A d \in SqlCalls \ {c} : sqlCalls'[d] = sqlCalls[d]

(* How a call moves that is told where it is and what is left. *)
LEMMA SqlCallMoves ==
    ASSUME SqlTyped, NEW c \in SqlCalls, NEW a \in SqlStates, NEW o \in 0..MaxServers,
           NEW t \in Seq(SqlRequests),
           sqlCalls' = [sqlCalls EXCEPT ![c] = [at |-> a, on |-> o, todo |-> t,
                                                alone |-> sqlCalls[c].alone]]
    PROVE  SqlMoves(c, a, o, t)
PROOF
  <1>1. sqlCalls \in [SqlCalls -> SqlRecord] /\ sqlCalls[c].alone \in BOOLEAN
    BY DEF SqlTyped, SqlRecord
  <1>2. [at |-> a, on |-> o, todo |-> t, alone |-> sqlCalls[c].alone] \in SqlRecord
    BY <1>1 DEF SqlRecord
  <1> QED BY <1>1, <1>2 DEF SqlMoves

(* Who was alone still is when nobody has begun. *)
LEMMA AloneStays ==
    ASSUME \A c \in SqlCalls : SqlAlone(c),
           \A c \in SqlCalls : InProgress(c)' =>
             InProgress(c) /\ sqlCalls'[c].alone = sqlCalls[c].alone
    PROVE  \A c \in SqlCalls : SqlAlone(c)'
BY DEF SqlAlone, Meets, Program

(* Nor is anything lost when no server has changed. *)
Early == {"free", "ensure", "await", "sent"}

(* What keeps the calls, the data and the numbers of the servers keeps the core of the invariant. *)
LEMMA CoreStays ==
    ASSUME SqlCore, UNCHANGED <<content, launched>>, SqlTyped',
           \A c \in SqlCalls : SqlProgress(c)' /\ SqlAlone(c)',
           \A c \in SqlCalls : sqlCalls'[c].at \in Early => sqlCalls[c].at \in Early
    PROVE  SqlCore'
PROOF
  <1>1. \A c \in SqlCalls : QueryHeld(c)'
    BY DEF SqlCore, QueryHeld, Early, Program
  <1>2. \A s \in 0..MaxServers : DataHeld(s)'
    BY DEF SqlCore, DataHeld, DataHolds
  <1> QED BY <1>1, <1>2 DEF SqlCore

(* A call that begins keeps the core. *)
LEMMA BeginKeepsCore ==
    ASSUME SqlCore, NEW c \in SqlCalls, NEW a \in SqlStates, NEW o \in 0..MaxServers,
           NEW t \in Seq(SqlRequests), sqlCalls' = Beginning(c, a, o, t),
           sqlCalls[c].at = "free", SqlProgress(c)',
           ended' \subseteq 1..launched,
           UNCHANGED <<servers, launched, db, pool, starting, content>>
    PROVE  SqlCore'
PROOF
  <1>1. SqlTyped
    BY DEF SqlCore
  <1>2. /\ sqlCalls' \in [SqlCalls -> SqlRecord]
        /\ sqlCalls'[c].at = a /\ sqlCalls'[c].todo = t /\ sqlCalls'[c].alone = (Others(c) = {})
        /\ \A d \in SqlCalls \ {c} :
             /\ sqlCalls'[d].at = sqlCalls[d].at /\ sqlCalls'[d].todo = sqlCalls[d].todo
             /\ sqlCalls'[d].alone = (sqlCalls[d].alone /\ d \notin Others(c))
    BY <1>1, CallBegins
  <1>3. SqlTyped'
    BY <1>1, <1>2 DEF SqlTyped
  <1>4. \A d \in SqlCalls : SqlProgress(d)'
    <2> SUFFICES ASSUME NEW d \in SqlCalls \ {c} PROVE SqlProgress(d)'
      OBVIOUS
    <2> QED BY <1>2 DEF SqlCore, SqlProgress, InProgress, Program
  <1>5. \A d \in SqlCalls : SqlAlone(d)'
    <2>1. /\ ~InProgress(c)
          /\ \A d \in SqlCalls \ {c} : InProgress(d)' <=> InProgress(d)
      BY <1>2 DEF InProgress
    <2>2. \A d \in SqlCalls \ {c} : InProgress(d) /\ Meets(c, d) => d \in Others(c)
      BY DEF Others
    <2>3. \A d, e \in SqlCalls : Meets(d, e)' <=> Meets(d, e)
      BY DEF Meets, Program
    <2>4. SqlAlone(c)'
      BY <1>2, <2>1, <2>2, <2>3 DEF SqlAlone
    <2>5. ASSUME NEW d \in SqlCalls \ {c} PROVE SqlAlone(d)'
      <3> SUFFICES ASSUME InProgress(d)', sqlCalls'[d].alone, NEW e \in SqlCalls \ {d},
                          InProgress(e)'
                   PROVE  ~Meets(d, e)
        BY <2>3 DEF SqlAlone
      <3>1. InProgress(d) /\ sqlCalls[d].alone /\ d \notin Others(c)
        BY <1>2, <2>1
      <3>2. CASE e = c
        BY <2>2, <3>1, <3>2, ProgramsMeet
      <3>3. CASE e # c
        BY <2>1, <3>1, <3>3 DEF SqlCore, SqlAlone
      <3> QED BY <3>2, <3>3
    <2> QED BY <2>4, <2>5
  <1>6. \A d \in SqlCalls : sqlCalls'[d].at \in Early => sqlCalls[d].at \in Early
    BY <1>2 DEF Early
  <1> QED BY <1>3, <1>4, <1>5, <1>6, CoreStays

(* A call that goes on keeps the core, if it goes on as its program does. *)
LEMMA MoveKeepsCore ==
    ASSUME SqlCore, NEW c \in SqlCalls, NEW a \in SqlStates \ {"free"}, NEW o, NEW t,
           SqlMoves(c, a, o, t), InProgress(c), SqlProgress(c)',
           a \in Early => sqlCalls[c].at \in Early,
           UNCHANGED <<launched, ended, content>>,
           servers' \subseteq servers, db' \in {db, 0}, pool' \in {pool, 0},
           starting' \in {"null", "pending", "connected", "rejected"}
    PROVE  SqlCore'
PROOF
  <1>1. SqlTyped
    BY DEF SqlCore
  <1>2. /\ sqlCalls' \in [SqlCalls -> SqlRecord]
        /\ sqlCalls'[c].at = a /\ sqlCalls'[c].alone = sqlCalls[c].alone
        /\ \A d \in SqlCalls \ {c} : sqlCalls'[d] = sqlCalls[d]
    BY DEF SqlMoves
  <1>3. SqlTyped'
    <2>1. db' \in 0..launched /\ pool' \in 0..launched
      BY <1>1 DEF SqlTyped
    <2> QED BY <1>1, <1>2, <2>1 DEF SqlTyped
  <1>4. \A d \in SqlCalls : SqlProgress(d)'
    <2> SUFFICES ASSUME NEW d \in SqlCalls \ {c} PROVE SqlProgress(d)'
      OBVIOUS
    <2> QED BY <1>2 DEF SqlCore, SqlProgress, InProgress, Program
  <1>5. \A d \in SqlCalls : InProgress(d)' =>
             InProgress(d) /\ sqlCalls'[d].alone = sqlCalls[d].alone
    BY <1>2 DEF InProgress
  <1>6. \A d \in SqlCalls : SqlAlone(d)'
    BY <1>5, AloneStays DEF SqlCore
  <1>7. \A d \in SqlCalls : sqlCalls'[d].at \in Early => sqlCalls[d].at \in Early
    BY <1>2
  <1> QED BY <1>3, <1>4, <1>6, <1>7, CoreStays

(* A call that is given another field. *)
LEMMA CallChanged ==
    ASSUME NEW r \in SqlRecord, NEW a, NEW t
    PROVE  /\ [r EXCEPT !.todo = t, !.at = a]
                = [at |-> a, on |-> r.on, todo |-> t, alone |-> r.alone]
           /\ [r EXCEPT !.at = a] = [at |-> a, on |-> r.on, todo |-> r.todo, alone |-> r.alone]
PROOF
  <1>1. r = [at |-> r.at, on |-> r.on, todo |-> r.todo, alone |-> r.alone]
    BY DEF SqlRecord
  <1>2. [r EXCEPT !.todo = t, !.at = a]
          = [at |-> a, on |-> r.on, todo |-> t, alone |-> r.alone]
    <2>1. PICK q : q = [r EXCEPT !.todo = t]
      OBVIOUS
    <2>2. q = [at |-> r.at, on |-> r.on, todo |-> t, alone |-> r.alone]
      BY <1>1, <2>1
    <2>3. [q EXCEPT !.at = a] = [at |-> a, on |-> r.on, todo |-> t, alone |-> r.alone]
      BY <2>2
    <2> QED BY <2>1, <2>3, Zenon
  <1>3. [r EXCEPT !.at = a] = [at |-> a, on |-> r.on, todo |-> r.todo, alone |-> r.alone]
    BY <1>1
  <1> QED BY <1>2, <1>3

(* How the actions move a call. *)
LEMMA CallGoesOn ==
    ASSUME SqlTyped, NEW c \in SqlCalls, NEW a \in SqlStates, NEW t \in Seq(SqlRequests)
    PROVE  /\ sqlCalls' = [sqlCalls EXCEPT ![c].todo = t, ![c].at = a]
                => SqlMoves(c, a, sqlCalls[c].on, t)
           /\ sqlCalls' = [sqlCalls EXCEPT ![c].at = a]
                => SqlMoves(c, a, sqlCalls[c].on, sqlCalls[c].todo)
           /\ \A o \in 0..MaxServers :
                sqlCalls' = [sqlCalls EXCEPT ![c].at = a, ![c].on = o]
                  => SqlMoves(c, a, o, sqlCalls[c].todo)
PROOF
  <1> DEFINE it == sqlCalls[c]
             R(o, u) == [at |-> a, on |-> o, todo |-> u, alone |-> it.alone]
  <1>1. /\ sqlCalls \in [SqlCalls -> SqlRecord] /\ it \in SqlRecord
        /\ it = [at |-> it.at, on |-> it.on, todo |-> it.todo, alone |-> it.alone]
        /\ it.on \in 0..MaxServers /\ it.todo \in Seq(SqlRequests)
    BY DEF SqlTyped, SqlRecord
  <1>2. ASSUME NEW o \in 0..MaxServers, NEW u \in Seq(SqlRequests),
               sqlCalls' = [sqlCalls EXCEPT ![c] = R(o, u)]
        PROVE  SqlMoves(c, a, o, u)
    BY <1>2, SqlCallMoves
  <1>3. ASSUME sqlCalls' = [sqlCalls EXCEPT ![c].todo = t, ![c].at = a]
        PROVE  SqlMoves(c, a, it.on, t)
    <2>1. sqlCalls' = [sqlCalls EXCEPT ![c] = [it EXCEPT !.todo = t, !.at = a]]
      BY <1>1, <1>3
    <2>2. [it EXCEPT !.todo = t, !.at = a] = R(it.on, t)
      BY <1>1, CallChanged
    <2>3. sqlCalls' = [sqlCalls EXCEPT ![c] = R(it.on, t)]
      BY <2>1, <2>2, Zenon
    <2> QED BY <1>1, <1>2, <2>3
  <1>4. ASSUME sqlCalls' = [sqlCalls EXCEPT ![c].at = a]
        PROVE  SqlMoves(c, a, it.on, it.todo)
    <2>2. [it EXCEPT !.at = a] = R(it.on, it.todo)
      BY <1>1, CallChanged
    <2>3. sqlCalls' = [sqlCalls EXCEPT ![c] = R(it.on, it.todo)]
      BY <1>4, <2>2, Zenon
    <2> QED BY <1>1, <1>2, <2>3
  <1>5. ASSUME NEW o \in 0..MaxServers, sqlCalls' = [sqlCalls EXCEPT ![c].at = a, ![c].on = o]
        PROVE  SqlMoves(c, a, o, it.todo)
    <2>1. sqlCalls' = [sqlCalls EXCEPT ![c] = [it EXCEPT !.at = a, !.on = o]]
      BY <1>1, <1>5
    <2>2. [it EXCEPT !.at = a, !.on = o] = R(o, it.todo)
      <3>1. PICK q : q = [it EXCEPT !.at = a]
        OBVIOUS
      <3>2. q = R(it.on, it.todo)
        BY <1>1, <3>1
      <3>3. [q EXCEPT !.on = o] = R(o, it.todo)
        BY <3>2
      <3> QED BY <3>1, <3>3, Zenon
    <2>3. sqlCalls' = [sqlCalls EXCEPT ![c] = R(o, it.todo)]
      BY <2>1, <2>2, Zenon
    <2> QED BY <1>1, <1>2, <2>3
  <1> QED BY <1>3, <1>4, <1>5

(* What a call begins with. *)
LEMMA FirstRequestsAre ==
    ASSUME NEW c \in SqlCalls, Program(c) \notin {"reset", "stop"}
    PROVE  /\ FirstRequests(c) \in Seq(SqlRequests) /\ FirstRequests(c) # <<>>
           /\ Program(c) = "migrate" => FirstRequests(c) = <<MakeLog, ListLog>>
           /\ Program(c) = "query" => FirstRequests(c) = <<MakeTable>>
           /\ Program(c) = "schema" => FirstRequests(c) = <<List>>
PROOF
  <1>1. /\ Program(c) = "migrate" => FirstRequests(c) = <<MakeLog, ListLog>>
        /\ Program(c) = "query" => FirstRequests(c) = <<MakeTable>>
        /\ Program(c) = "schema" => FirstRequests(c) = <<List>>
    BY DEF FirstRequests, MakeLog, ListLog, MakeTable, List
  <1>2. MakeLog \in SqlRequests /\ ListLog \in SqlRequests /\ MakeTable \in SqlRequests
        /\ List \in SqlRequests
    BY DEF SqlRequests
  <1>3. /\ <<MakeLog, ListLog>> \in Seq(SqlRequests) /\ <<MakeTable>> \in Seq(SqlRequests)
        /\ <<List>> \in Seq(SqlRequests)
        /\ <<MakeLog, ListLog>> # <<>> /\ <<MakeTable>> # <<>> /\ <<List>> # <<>>
    BY <1>2
  <1> QED BY <1>1, <1>3, ProgramsMeet

(* What is due of a program. *)
LEMMA ProgressOf ==
    ASSUME NEW c \in SqlCalls,
           sqlCalls'[c].at \notin {"free", "done", "failed"} =>
             /\ Program(c) \in {"migrate", "query", "schema"} =>
                  sqlCalls'[c].at \in {"ensure", "await", "sent"}
             /\ Program(c) = "migrate" =>
                  \/ sqlCalls'[c].todo \in {<<MakeLog, ListLog>>, <<ListLog>>}
                  \/ sqlCalls'[c].todo \in Seq(MigrationSteps) /\ sqlCalls'[c].todo # <<>>
             /\ Program(c) = "query" => sqlCalls'[c].todo = <<MakeTable>>
             /\ Program(c) = "schema" =>
                  \/ sqlCalls'[c].todo = <<List>>
                  \/ sqlCalls'[c].todo \in Seq(Describes) /\ sqlCalls'[c].todo # <<>>
             /\ Program(c) = "reset" =>
                  /\ sqlCalls'[c].at = "sent"
                  /\ \/ sqlCalls'[c].todo = <<List>>
                     \/ sqlCalls'[c].todo \in Seq(Drops) /\ sqlCalls'[c].todo # <<>>
             /\ Program(c) = "stop" => sqlCalls'[c].at \in {"ending", "ended", "stopped"}
    PROVE  SqlProgress(c)'
BY DEF SqlProgress, InProgress, Program

(* Which pool a call takes: that of a server that was started. *)
LEMMA SqlNumbers ==
    ASSUME SqlTyped
    PROVE  /\ MaxServers \in Nat /\ launched \in Nat /\ launched <= MaxServers
           /\ pool \in 0..MaxServers /\ db \in 0..MaxServers
           /\ \A s \in servers : s \in 1..launched /\ s \in 0..MaxServers
           /\ Off = 0 /\ Off \in 0..MaxServers
BY SqlAssumption DEF SqlTyped, Off

(* A program that begins keeps the core: it has its own requests, and knows whom it meets. *)
LEMMA BeginSqlKeepsCore ==
    ASSUME SqlCore, NEW c \in SqlCalls, BeginSql(c) \/ BeginSqlReset(c) \/ BeginSqlStop(c)
    PROVE  SqlCore'
PROOF
  <1>1. SqlTyped
    BY DEF SqlCore
  <1>2. sqlCalls[c].at = "free" /\ UNCHANGED <<servers, launched, db, pool, starting, content>>
    BY DEF BeginSql, BeginSqlReset, BeginSqlStop, Free
  <1>3. ended' \subseteq 1..launched
    <2>1. ended \subseteq 1..launched /\ {pool} \ {Off} \subseteq 1..launched
      BY <1>1 DEF SqlTyped, Off
    <2>2. ended' \in {ended, ended \cup ({pool} \ {Off})}
      BY DEF BeginSql, BeginSqlReset, BeginSqlStop
    <2> QED BY <2>1, <2>2
  <1>4. CASE BeginSql(c)
    <2> DEFINE t == FirstRequests(c)
    <2>1. Program(c) \in {"migrate", "query", "schema"}
          /\ sqlCalls' = Beginning(c, "ensure", Off, t)
      BY <1>4, ProgramsMeet DEF BeginSql
    <2>2. /\ t \in Seq(SqlRequests) /\ t # <<>>
          /\ Program(c) = "migrate" => t = <<MakeLog, ListLog>>
          /\ Program(c) = "query" => t = <<MakeTable>>
          /\ Program(c) = "schema" => t = <<List>>
      BY <2>1, FirstRequestsAre
    <2>3. "ensure" \in SqlStates
      BY DEF SqlStates
    <2> HIDE DEF t
    <2>4. sqlCalls'[c].at = "ensure" /\ sqlCalls'[c].todo = t
      BY <1>1, <2>1, <2>2, <2>3, SqlNumbers, CallBegins
    <2>5. SqlProgress(c)'
      BY <2>1, <2>2, <2>4, ProgressOf
    <2> QED BY <1>1, <1>2, <1>3, <2>1, <2>2, <2>3, <2>5, SqlNumbers, BeginKeepsCore
  <1>5. CASE BeginSqlReset(c)
    <2> DEFINE a == IF pool = Off THEN "done" ELSE "sent"
             t == <<List>>
    <2>1. Program(c) = "reset" /\ sqlCalls' = Beginning(c, a, pool, t)
      BY <1>5 DEF BeginSqlReset, List
    <2>2. List \in SqlRequests
      BY DEF SqlRequests
    <2>3. t \in Seq(SqlRequests)
      BY <2>2
    <2>4. a \in SqlStates /\ a \in {"done", "sent"}
      BY DEF SqlStates
    <2> HIDE DEF a, t
    <2>5. sqlCalls'[c].at = a /\ sqlCalls'[c].todo = t
      BY <1>1, <2>1, <2>3, <2>4, SqlNumbers, CallBegins
    <2>6. SqlProgress(c)'
      BY <2>1, <2>4, <2>5, ProgressOf DEF t
    <2> QED BY <1>1, <1>2, <1>3, <2>1, <2>3, <2>4, <2>6, SqlNumbers, BeginKeepsCore
  <1>6. CASE BeginSqlStop(c)
    <2> DEFINE a == IF pool # Off THEN "ending" ELSE "ended"
    <2>1. Program(c) = "stop" /\ sqlCalls' = Beginning(c, a, Off, <<>>)
      BY <1>6 DEF BeginSqlStop
    <2>2. a \in SqlStates /\ a \in {"ending", "ended"}
      BY DEF SqlStates
    <2>3. <<>> \in Seq(SqlRequests)
      BY EmptySeq
    <2> HIDE DEF a
    <2>4. sqlCalls'[c].at = a
      BY <1>1, <2>1, <2>2, <2>3, SqlNumbers, CallBegins
    <2>5. SqlProgress(c)'
      BY <2>1, <2>2, <2>4, ProgressOf
    <2> QED BY <1>1, <1>2, <1>3, <2>1, <2>2, <2>3, <2>5, SqlNumbers, BeginKeepsCore
  <1> QED BY <1>4, <1>5, <1>6

(* How a call that needs the server goes on. *)
LEMMA EnsureMoves ==
    ASSUME SqlTyped, NEW c \in SqlCalls, Ensure(c)
    PROVE  /\ pool # Off => SqlMoves(c, "sent", pool, sqlCalls[c].todo)
           /\ pool = Off /\ starting = "rejected"
                => SqlMoves(c, "failed", sqlCalls[c].on, sqlCalls[c].todo)
           /\ pool = Off /\ starting # "rejected"
                => SqlMoves(c, "await", sqlCalls[c].on, sqlCalls[c].todo)
PROOF
  <1>1. "sent" \in SqlStates /\ "failed" \in SqlStates /\ "await" \in SqlStates
    BY DEF SqlStates
  <1>2. sqlCalls[c].todo \in Seq(SqlRequests)
    BY DEF SqlTyped, SqlRecord
  <1>3. CASE pool # Off
    <2>1. sqlCalls' = [sqlCalls EXCEPT ![c].at = "sent", ![c].on = pool]
      BY <1>3 DEF Ensure
    <2> QED BY <1>1, <1>2, <1>3, <2>1, CallGoesOn, SqlNumbers
  <1>4. CASE pool = Off /\ starting = "rejected"
    <2>1. sqlCalls' = [sqlCalls EXCEPT ![c].at = "failed"]
      BY <1>4 DEF Ensure
    <2> QED BY <1>1, <1>2, <1>4, <2>1, CallGoesOn
  <1>5. CASE pool = Off /\ starting # "rejected"
    <2>1. sqlCalls' = [sqlCalls EXCEPT ![c].at = "await"]
      BY <1>5 DEF Ensure
    <2> QED BY <1>1, <1>2, <1>5, <2>1, CallGoesOn
  <1> QED BY <1>3, <1>4, <1>5

(* A call that looks for the pool (ensureStarted) keeps the core. *)
LEMMA EnsureKeepsCore ==
    ASSUME SqlCore, NEW c \in SqlCalls, Ensure(c)
    PROVE  SqlCore'
PROOF
  <1>1. SqlTyped /\ SqlProgress(c) /\ sqlCalls[c].at = "ensure" /\ InProgress(c)
    BY DEF SqlCore, Ensure, InProgress
  <1>2. /\ UNCHANGED <<launched, ended, content, servers, db, pool>>
        /\ starting' \in {"null", "pending", "connected", "rejected"}
    BY <1>1 DEF Ensure, SqlTyped
  <1>3. PICK a \in {"sent", "failed", "await"} : \E o : SqlMoves(c, a, o, sqlCalls[c].todo)
    BY <1>1, EnsureMoves
  <1>4. PICK o : SqlMoves(c, a, o, sqlCalls[c].todo)
    BY <1>3
  <1>5. a \in SqlStates \ {"free"} /\ (a \in Early => sqlCalls[c].at \in Early)
    BY <1>1 DEF SqlStates, Early
  <1>6. SqlProgress(c)'
    <2>1. sqlCalls'[c].at = a /\ sqlCalls'[c].todo = sqlCalls[c].todo
      BY <1>4 DEF SqlMoves
    <2>2. Program(c) \notin {"reset", "stop"}
      BY <1>1 DEF SqlProgress
    <2> QED BY <1>1, <1>3, <2>1, <2>2, ProgressOf DEF SqlProgress
  <1> QED BY <1>1, <1>2, <1>4, <1>5, <1>6, MoveKeepsCore

(* A server that is stopped, in each of its three steps, keeps the core. *)
LEMMA StoppingKeepsCore ==
    ASSUME SqlCore, NEW c \in SqlCalls, PoolEnds(c) \/ ServerStops(c) \/ StopReturns(c)
    PROVE  SqlCore'
PROOF
  <1>1. SqlTyped /\ SqlProgress(c)
    BY DEF SqlCore
  <1>2. sqlCalls[c].at \in {"ending", "ended", "stopped"} /\ InProgress(c)
    BY DEF PoolEnds, ServerStops, StopReturns, InProgress
  <1>3. Program(c) = "stop"
    BY <1>1, <1>2, ProgramsMeet DEF SqlProgress
  <1>4. PICK a \in {"ended", "done", "stopped"} : sqlCalls' = [sqlCalls EXCEPT ![c].at = a]
    BY DEF PoolEnds, ServerStops, StopReturns
  <1>5. a \in SqlStates \ {"free"} /\ a \notin Early /\ sqlCalls[c].todo \in Seq(SqlRequests)
    BY <1>1 DEF SqlStates, Early, SqlTyped, SqlRecord
  <1>6. SqlMoves(c, a, sqlCalls[c].on, sqlCalls[c].todo)
    BY <1>1, <1>4, <1>5, CallGoesOn
  <1>7. SqlProgress(c)'
    <2>1. sqlCalls'[c].at = a
      BY <1>6 DEF SqlMoves
    <2> QED BY <1>3, <2>1, ProgressOf
  <1>8. /\ UNCHANGED <<launched, ended, content, starting>> /\ servers' \subseteq servers
        /\ db' \in {db, 0} /\ pool' \in {pool, 0}
    BY DEF PoolEnds, ServerStops, StopReturns, Off
  <1>9. starting' \in {"null", "pending", "connected", "rejected"}
    BY <1>1, <1>8 DEF SqlTyped
  <1> QED BY <1>2, <1>5, <1>6, <1>7, <1>8, <1>9, MoveKeepsCore

(* A server is started: it has the tables of the dump. *)
LEMMA ServerCreated ==
    ASSUME SqlTyped, \A s \in 0..MaxServers : DataHeld(s), Create, NEW n, n = launched + 1
    PROVE  /\ starting = "pending" /\ launched' = n /\ n \in 1..MaxServers
           /\ servers' = servers \cup {n} /\ db' = n /\ pool' = n /\ starting' = "connected"
           /\ content' \in [0..MaxServers -> SqlData]
           /\ content'[n].tables = Restored /\ content'[n].ran = <<>> /\ content'[n].log = <<>>
           /\ content'[n].clean = content[n].clean
           /\ \A s \in (0..MaxServers) \ {n} : content'[s] = content[s]
           /\ UNCHANGED <<ended, sqlCalls, collided>>
PROOF
  <1>1. /\ starting = "pending" /\ launched' = n /\ servers' = servers \cup {n}
        /\ db' = n /\ pool' = n /\ starting' = "connected" /\ launched < MaxServers
        /\ content' = [content EXCEPT ![n].tables = Restored]
        /\ UNCHANGED <<ended, sqlCalls, collided>>
    BY DEF Create
  <1>2. n \in 1..MaxServers /\ n \in 0..MaxServers /\ n > launched
    BY <1>1, SqlNumbers
  <1>3. content \in [0..MaxServers -> SqlData]
    BY DEF SqlTyped
  <1>4. content[n].ran = <<>> /\ content[n].log = <<>>
    BY <1>2 DEF DataHeld
  <1>5. PICK new : new = [content[n] EXCEPT !.tables = Restored]
    OBVIOUS
  <1>6. /\ content[n] \in SqlData
        /\ content[n] = [tables |-> content[n].tables, log |-> <<>>, ran |-> <<>>,
                         clean |-> content[n].clean]
        /\ content[n].clean \in BOOLEAN
    <2>1. content[n] \in SqlData
      BY <1>2, <1>3
    <2> QED BY <1>4, <2>1 DEF SqlData
  <1>7. new = [tables |-> Restored, log |-> <<>>, ran |-> <<>>, clean |-> content[n].clean]
    BY <1>5, <1>6
  <1>8. new \in SqlData
    <2>1. <<>> \in Seq(ToSet(Migrations))
      BY EmptySeq
    <2> QED BY <1>6, <1>7, <2>1, Tables DEF SqlData
  <1>9. content' = [content EXCEPT ![n] = new]
    BY <1>1, <1>5
  <1> QED BY <1>1, <1>2, <1>3, <1>7, <1>8, <1>9

(* A server that is created (createDB) is new, and keeps the core. *)
LEMMA CreateKeepsCore ==
    ASSUME SqlCore, Create
    PROVE  SqlCore'
PROOF
  <1> DEFINE n == launched + 1
  <1>1. SqlTyped /\ \A s \in 0..MaxServers : DataHeld(s)
    BY DEF SqlCore
  <1>2. /\ launched' = n /\ n \in 1..MaxServers
        /\ servers' = servers \cup {n} /\ db' = n /\ pool' = n /\ starting' = "connected"
        /\ content' \in [0..MaxServers -> SqlData]
        /\ content'[n].tables = Restored /\ content'[n].ran = <<>> /\ content'[n].log = <<>>
        /\ \A s \in (0..MaxServers) \ {n} : content'[s] = content[s]
        /\ UNCHANGED <<ended, sqlCalls>>
    BY <1>1, ServerCreated
  <1> HIDE DEF n
  <1>3. SqlTyped'
    <2>1. n = launched + 1 /\ launched \in Nat
      BY <1>1, SqlNumbers DEF n
    <2> QED BY <1>1, <1>2, <2>1 DEF SqlTyped
  <1>4. ASSUME NEW c \in SqlCalls PROVE SqlProgress(c)' /\ SqlAlone(c)' /\ QueryHeld(c)'
    <2>1. SqlProgress(c) /\ SqlAlone(c) /\ QueryHeld(c)
      BY DEF SqlCore
    <2>2. SqlProgress(c)' /\ SqlAlone(c)'
      BY <1>2, <2>1 DEF SqlProgress, SqlAlone, InProgress, Program, Meets
    <2>3. QueryHeld(c)'
      BY <1>2, <2>1, Tables DEF QueryHeld, Program
    <2> QED BY <2>2, <2>3
  <1>5. ASSUME NEW s \in 0..MaxServers PROVE DataHeld(s)'
    <2>1. CASE s = n
      <3>1. ToSet(<<>>) = {}
        BY DEF ToSet
      <3>2. DataHolds(content'[n])
        BY <1>2, <3>1 DEF DataHolds
      <3> QED BY <1>2, <2>1, <3>2 DEF DataHeld
    <2>2. CASE s # n
      <3>1. s > launched' => s > launched
        BY <1>2, <1>1, SqlNumbers DEF n
      <3>2. content'[s] = content[s] /\ DataHeld(s)
        BY <1>1, <1>2, <2>2
      <3> QED BY <3>1, <3>2 DEF DataHeld
    <2> QED BY <2>1, <2>2
  <1> QED BY <1>3, <1>4, <1>5 DEF SqlCore

(* Those who waited for the server go on, or fail with it. *)
LEMMA WaitersGoOn ==
    ASSUME SqlTyped, StartFails \/ Started
    PROVE  /\ sqlCalls' \in [SqlCalls -> SqlRecord]
           /\ \A d \in SqlCalls :
                /\ sqlCalls'[d].todo = sqlCalls[d].todo
                /\ sqlCalls'[d].alone = sqlCalls[d].alone
                /\ sqlCalls[d].at # "await" => sqlCalls'[d] = sqlCalls[d]
                /\ sqlCalls[d].at = "await" /\ StartFails => sqlCalls'[d].at = "failed"
                /\ sqlCalls[d].at = "await" /\ Started =>
                     sqlCalls'[d].at = "sent" /\ sqlCalls'[d].on = pool
PROOF
  <1> DEFINE F == [c \in SqlCalls |-> [sqlCalls[c] EXCEPT !.at = "failed"]]
             S == [c \in SqlCalls |-> [sqlCalls[c] EXCEPT !.at = "sent", !.on = pool]]
  <1>1. /\ StartFails => sqlCalls' = Waiters(F)
        /\ Started => sqlCalls' = Waiters(S)
    BY DEF StartFails, Started
  <1>4. sqlCalls' = [d \in SqlCalls |-> sqlCalls'[d]]
    <2>1. PICK next : sqlCalls' = Waiters(next)
      BY <1>1, Zenon
    <2> QED BY <2>1 DEF Waiters
  <1>5. pool \in 0..MaxServers /\ {"failed", "sent"} \subseteq SqlStates
    BY SqlNumbers DEF SqlStates
  <1>6. ASSUME NEW d \in SqlCalls
        PROVE  /\ sqlCalls'[d] \in SqlRecord
               /\ sqlCalls'[d].todo = sqlCalls[d].todo
               /\ sqlCalls'[d].alone = sqlCalls[d].alone
               /\ sqlCalls[d].at # "await" => sqlCalls'[d] = sqlCalls[d]
               /\ sqlCalls[d].at = "await" /\ StartFails => sqlCalls'[d].at = "failed"
               /\ sqlCalls[d].at = "await" /\ Started =>
                    sqlCalls'[d].at = "sent" /\ sqlCalls'[d].on = pool
    <2>1. /\ sqlCalls[d] \in SqlRecord
          /\ sqlCalls[d] = [at |-> sqlCalls[d].at, on |-> sqlCalls[d].on,
                            todo |-> sqlCalls[d].todo, alone |-> sqlCalls[d].alone]
      BY DEF SqlTyped, SqlRecord
    <2>2. PICK q : q = [sqlCalls[d] EXCEPT !.at = "failed"]
      OBVIOUS
    <2>3. q = [at |-> "failed", on |-> sqlCalls[d].on,
               todo |-> sqlCalls[d].todo, alone |-> sqlCalls[d].alone]
      BY <2>1, <2>2
    <2>4. q \in SqlRecord
      BY <1>5, <2>1, <2>3 DEF SqlRecord
    <2>5. PICK p : p = [sqlCalls[d] EXCEPT !.at = "sent"]
      OBVIOUS
    <2>6. p = [at |-> "sent", on |-> sqlCalls[d].on,
               todo |-> sqlCalls[d].todo, alone |-> sqlCalls[d].alone]
      BY <2>1, <2>5
    <2>7. PICK t : t = [p EXCEPT !.on = pool]
      OBVIOUS
    <2>8. t = [at |-> "sent", on |-> pool,
               todo |-> sqlCalls[d].todo, alone |-> sqlCalls[d].alone]
      BY <2>6, <2>7
    <2>9. t \in SqlRecord
      BY <1>5, <2>1, <2>8 DEF SqlRecord
    <2>10. F[d] = q /\ S[d] = t
      BY <2>2, <2>5, <2>7, Zenon
    <2> HIDE DEF F, S
    <2>11. CASE StartFails /\ ~Started
      <3>1. sqlCalls'[d] = IF sqlCalls[d].at = "await" THEN q ELSE sqlCalls[d]
        BY <1>1, <2>10, <2>11 DEF Waiters
      <3> QED BY <2>1, <2>3, <2>4, <2>11, <3>1
    <2>12. CASE Started /\ ~StartFails
      <3>1. sqlCalls'[d] = IF sqlCalls[d].at = "await" THEN t ELSE sqlCalls[d]
        BY <1>1, <2>10, <2>12 DEF Waiters
      <3> QED BY <2>1, <2>8, <2>9, <2>12, <3>1
    <2>13. ~(StartFails /\ Started)
      BY DEF StartFails, Started
    <2> QED BY <2>11, <2>12, <2>13
  <1> QED BY <1>4, <1>6

(* A start that fails or is done (doStart) keeps the core. *)
LEMMA StartEndsKeepsCore ==
    ASSUME SqlCore, StartFails \/ Started
    PROVE  SqlCore'
PROOF
  <1>1. SqlTyped /\ \A c \in SqlCalls : SqlProgress(c) /\ SqlAlone(c)
    BY DEF SqlCore
  <1>2. /\ UNCHANGED <<servers, ended, launched, db, pool, content>>
        /\ starting' \in {"null", "rejected"}
    BY DEF StartFails, Started
  <1>3. /\ sqlCalls' \in [SqlCalls -> SqlRecord]
        /\ \A d \in SqlCalls :
             /\ sqlCalls'[d].todo = sqlCalls[d].todo
             /\ sqlCalls'[d].alone = sqlCalls[d].alone
             /\ sqlCalls[d].at # "await" => sqlCalls'[d] = sqlCalls[d]
             /\ sqlCalls[d].at = "await" => sqlCalls'[d].at \in {"failed", "sent"}
    BY <1>1, WaitersGoOn
  <1>4. SqlTyped'
    BY <1>1, <1>2, <1>3 DEF SqlTyped
  <1>5. \A c \in SqlCalls : SqlAlone(c)'
    <2>1. \A c \in SqlCalls : InProgress(c)' =>
            InProgress(c) /\ sqlCalls'[c].alone = sqlCalls[c].alone
      BY <1>3 DEF InProgress
    <2> QED BY <1>1, <2>1, AloneStays
  <1>6. ASSUME NEW c \in SqlCalls PROVE SqlProgress(c)'
    <2>1. CASE sqlCalls[c].at # "await"
      BY <1>1, <1>3, <2>1 DEF SqlProgress, InProgress, Program
    <2>2. CASE sqlCalls[c].at = "await"
      <3>1. Program(c) \notin {"reset", "stop"}
        BY <1>1, <2>2 DEF SqlProgress, InProgress
      <3>2. InProgress(c)
        BY <2>2 DEF InProgress
      <3> QED BY <1>1, <1>3, <2>2, <3>1, <3>2, ProgressOf DEF SqlProgress
    <2> QED BY <2>1, <2>2
  <1>7. \A c \in SqlCalls : sqlCalls'[c].at \in Early => sqlCalls[c].at \in Early
    BY <1>3 DEF Early
  <1> QED BY <1>2, <1>4, <1>5, <1>6, <1>7, CoreStays

(* Whether the server counts as clean once a request is met. *)
CleanAfter(c, data, left) ==
  \/ Program(c) = "reset" /\ left = <<>> /\ sqlCalls[c].alone
  \/ data.clean /\ ~(~sqlCalls[c].alone /\ Program(c) \in {"migrate", "reset"})

(* What an answer changes: what the server holds, and what is left of the call. *)
LEMMA SqlAnswerMoves ==
    ASSUME SqlTyped, NEW c \in SqlCalls, SqlProgress(c), Answered(c),
           NEW s, s = sqlCalls[c].on, NEW h, h = Head(sqlCalls[c].todo),
           NEW left, left = Rest(c, content[s]), left \in Seq(SqlRequests),
           NEW a, a = IF left = <<>> THEN "done"
                      ELSE IF Program(c) = "reset" THEN "sent" ELSE "ensure",
           NEW new, new = AfterIt(h, content[s], CleanAfter(c, content[s], left))
    PROVE  /\ sqlCalls[c].at = "sent" /\ s \in servers /\ Possible(h, content[s])
           /\ content' = [content EXCEPT ![s] = new]
           /\ SqlMoves(c, a, s, left)
           /\ UNCHANGED <<servers, ended, launched, db, pool, starting, collided>>
PROOF
  <1> DEFINE b == IF Program(c) = "reset" THEN "sent" ELSE "ensure"
             next == [at |-> b, todo |-> left]
  <1>1. /\ sqlCalls[c].at = "sent" /\ s \in servers /\ Possible(h, content[s])
        /\ content' = [content EXCEPT ![s] =
                         [Done(h, content[s]) EXCEPT !.clean = CleanAfter(c, content[s], left)]]
        /\ Continues(c, next)
        /\ UNCHANGED <<servers, ended, launched, db, pool, starting, collided>>
    BY DEF Answered, MayAnswer, CleanAfter
  <1>2. next.todo = left /\ next.at = b /\ b # "failed"
    OBVIOUS
  <1>3. a = IF left = <<>> THEN "done" ELSE b
    OBVIOUS
  <1>4. a \in SqlStates
    BY DEF SqlStates
  <1> HIDE DEF next, b
  <1>5. sqlCalls' = [sqlCalls EXCEPT ![c].todo = left, ![c].at = a]
    BY <1>1, <1>2, <1>3 DEF Continues
  <1>6. SqlMoves(c, a, s, left)
    BY <1>4, <1>5, CallGoesOn
  <1> QED BY <1>1, <1>6 DEF AfterIt

(* What a refusal changes: the call alone. *)
LEMMA RefusalMoves ==
    ASSUME SqlTyped, NEW c \in SqlCalls, SqlProgress(c), Refused(c),
           NEW h, h = Head(sqlCalls[c].todo), NEW rest, rest = Tail(sqlCalls[c].todo)
    PROVE  /\ sqlCalls[c].at = "sent"
           /\ UNCHANGED <<servers, ended, launched, db, pool, starting, content, collided>>
           /\ sqlCalls[c].on \in servers /\ Possible(h, content[sqlCalls[c].on])
                => sqlCalls[c].on \notin servers \ ended \/ h.do = "run"
           /\ h.do \in {"make log", "record"} =>
                \E a : /\ SqlMoves(c, a, sqlCalls[c].on, rest)
                       /\ a = IF rest = <<>> THEN "done" ELSE "ensure"
           /\ h.do = "run" => SqlMoves(c, "done", sqlCalls[c].on, <<>>)
           /\ h.do \notin {"make log", "record", "run"} => SqlMoves(c, "failed", sqlCalls[c].on, <<>>)
PROOF
  <1>1. /\ sqlCalls[c].at = "sent"
        /\ UNCHANGED <<servers, ended, launched, db, pool, starting, content, collided>>
        /\ sqlCalls[c].on \in servers /\ Possible(h, content[sqlCalls[c].on])
                => sqlCalls[c].on \notin servers \ ended \/ h.do = "run"
    BY DEF Refused, MayAnswer, MayRefuse
  <1>2. /\ AfterRefusal(c) = CASE h.do \in {"make log", "record"} -> [at |-> "ensure", todo |-> rest]
                               [] h.do = "run" -> [at |-> "done", todo |-> <<>>]
                               [] OTHER -> [at |-> "failed", todo |-> <<>>]
        /\ Continues(c, AfterRefusal(c))
    BY DEF AfterRefusal, Refused
  <1>3. ASSUME NEW at, NEW t, AfterRefusal(c) = [at |-> at, todo |-> t]
        PROVE  sqlCalls' = [sqlCalls EXCEPT ![c].todo = t,
                              ![c].at = IF t = <<>> /\ at # "failed" THEN "done" ELSE at]
    <2>1. PICK next : next = AfterRefusal(c)
      OBVIOUS
    <2>2. next.todo = t /\ next.at = at
      BY <1>3, <2>1
    <2>3. sqlCalls' = [sqlCalls EXCEPT ![c].todo = next.todo,
                         ![c].at = IF next.todo = <<>> /\ next.at # "failed" THEN "done" ELSE next.at]
      BY <1>2, <2>1 DEF Continues
    <2> QED BY <1>3, <2>2, <2>3
  <1>4. rest \in Seq(SqlRequests) /\ <<>> \in Seq(SqlRequests)
    BY <1>1, WhatIsAsked, EmptySeq
  <1>5. {"done", "ensure", "failed"} \subseteq SqlStates
    BY DEF SqlStates
  <1>6. CASE h.do \in {"make log", "record"}
    <2> DEFINE a == IF rest = <<>> THEN "done" ELSE "ensure"
    <2>2. a \in SqlStates
      BY <1>5
    <2>4. AfterRefusal(c) = [at |-> "ensure", todo |-> rest]
      BY <1>2, <1>6
    <2>5. sqlCalls' = [sqlCalls EXCEPT ![c].todo = rest, ![c].at = a]
      <3>1. PICK at : at = "ensure"
        OBVIOUS
      <3>2. AfterRefusal(c) = [at |-> at, todo |-> rest]
        BY <2>4, <3>1
      <3>3. sqlCalls' = [sqlCalls EXCEPT ![c].todo = rest,
                           ![c].at = IF rest = <<>> /\ at # "failed" THEN "done" ELSE at]
        BY <1>3, <3>2
      <3>4. a = IF rest = <<>> /\ at # "failed" THEN "done" ELSE at
        BY <3>1
      <3> HIDE DEF a
      <3> QED BY <3>3, <3>4, Zenon
    <2> HIDE DEF a
    <2>3. SqlMoves(c, a, sqlCalls[c].on, rest)
      BY <1>4, <2>2, <2>5, CallGoesOn
    <2> QED BY <1>1, <1>6, <2>3 DEF a
  <1>7. CASE h.do = "run"
    <2>1. sqlCalls' = [sqlCalls EXCEPT ![c].todo = <<>>, ![c].at = "done"]
      <3>1. AfterRefusal(c) = [at |-> "done", todo |-> <<>>]
        BY <1>2, <1>7
      <3> QED BY <1>3, <3>1
    <2>2. SqlMoves(c, "done", sqlCalls[c].on, <<>>)
      BY <1>4, <1>5, <2>1, CallGoesOn
    <2> QED BY <1>1, <1>7, <2>2
  <1>8. CASE h.do \notin {"make log", "record", "run"}
    <2>1. sqlCalls' = [sqlCalls EXCEPT ![c].todo = <<>>, ![c].at = "failed"]
      <3>1. AfterRefusal(c) = [at |-> "failed", todo |-> <<>>]
        BY <1>2, <1>8
      <3> QED BY <1>3, <3>1
    <2>2. SqlMoves(c, "failed", sqlCalls[c].on, <<>>)
      BY <1>4, <1>5, <2>1, CallGoesOn
    <2> QED BY <1>1, <1>8, <2>2
  <1> QED BY <1>6, <1>7, <1>8

(* A request that is refused ends its program or is passed over, and keeps the core. *)
LEMMA RefusalKeepsCore ==
    ASSUME SqlCore, NEW c \in SqlCalls, Refused(c)
    PROVE  SqlCore'
PROOF
  <1> DEFINE h == Head(sqlCalls[c].todo)
             rest == Tail(sqlCalls[c].todo)
             on == sqlCalls[c].on
  <1>1. SqlTyped /\ SqlProgress(c)
    BY DEF SqlCore
  <1>2. /\ sqlCalls[c].at = "sent"
        /\ UNCHANGED <<servers, ended, launched, db, pool, starting, content>>
        /\ h.do \in {"make log", "record"} =>
             \E a : SqlMoves(c, a, on, rest) /\ a = IF rest = <<>> THEN "done" ELSE "ensure"
        /\ h.do = "run" => SqlMoves(c, "done", on, <<>>)
        /\ h.do \notin {"make log", "record", "run"} => SqlMoves(c, "failed", on, <<>>)
    BY <1>1, RefusalMoves
  <1>3. PICK a, t :
          /\ SqlMoves(c, a, on, t) /\ a \in {"done", "ensure", "failed"}
          /\ a = "ensure" => t = rest /\ t # <<>> /\ h.do \in {"make log", "record"}
    <2> HIDE DEF h, rest, on
    <2>1. CASE h.do \in {"make log", "record"}
      <3>1. PICK a : SqlMoves(c, a, on, rest) /\ a = IF rest = <<>> THEN "done" ELSE "ensure"
        BY <1>2, <2>1
      <3>2. a \in {"done", "ensure", "failed"} /\ (a = "ensure" => rest # <<>>)
        BY <3>1
      <3>3. SqlMoves(c, a, on, rest)
        BY <3>1, Zenon
      <3>4. \E t : SqlMoves(c, a, on, t) /\ (a = "ensure" => t = rest /\ t # <<>>)
        BY <3>2, <3>3, Zenon
      <3> QED BY <2>1, <3>2, <3>4, Zenon
    <2>2. CASE h.do = "run"
      <3>1. "done" \in {"done", "ensure", "failed"} /\ "done" # "ensure"
        OBVIOUS
      <3> QED BY <1>2, <2>2, <3>1, Zenon
    <2>3. CASE h.do \notin {"make log", "record", "run"}
      <3>1. "failed" \in {"done", "ensure", "failed"} /\ "failed" # "ensure"
        OBVIOUS
      <3> QED BY <1>2, <2>3, <3>1, Zenon
    <2> QED BY <2>1, <2>2, <2>3
  <1>4. sqlCalls'[c].at = a /\ sqlCalls'[c].todo = t
    <2>1. sqlCalls'[c] = [at |-> a, on |-> on, todo |-> t, alone |-> sqlCalls[c].alone]
      BY <1>3, Zenon DEF SqlMoves
    <2> QED BY <2>1
  <1>5. InProgress(c)
    BY <1>2 DEF InProgress
  <1>6. SqlProgress(c)'
    <2>1. CASE a # "ensure"
      BY <1>3, <1>4, <2>1 DEF SqlProgress, InProgress
    <2>2. CASE a = "ensure"
      <3>1. h \in SqlRequests
        BY <1>1, <1>2, WhatIsAsked
      <3>2. h = MakeLog \/ h \in MigrationSteps
        BY <1>3, <2>2, <3>1, RequestKinds
      <3>3. h # MakeTable /\ h # List /\ h # ListLog /\ h \notin Describes /\ h \notin Drops
        <4>1. h.do \in {"make log", "record"}
          BY <1>3, <2>2
        <4>2. /\ MakeTable.do = "make" /\ List.do = "list" /\ ListLog.do = "list log"
              /\ \A x \in Describes : x.do = "describe"
              /\ \A x \in Drops : x.do = "drop"
          BY DEF MakeTable, List, ListLog, Describes, Drops, Statement
        <4> QED BY <4>1, <4>2
      <3>4. Program(c) = "migrate"
        BY <1>1, <1>2, <3>3, WhatIsAsked, ProgramsMeet
      <3>5. rest = <<ListLog>> \/ rest \in Seq(MigrationSteps)
        <4>1. \/ h = MakeLog /\ sqlCalls[c].todo = <<MakeLog, ListLog>>
              \/ h = ListLog
              \/ rest \in Seq(MigrationSteps)
          BY <1>1, <1>2, <3>4, WhatIsAsked
        <4>2. Tail(<<MakeLog, ListLog>>) = <<ListLog>>
          OBVIOUS
        <4> QED BY <3>3, <4>1, <4>2
      <3> QED BY <1>3, <1>4, <2>2, <3>4, <3>5, ProgressOf
    <2> QED BY <2>1, <2>2
  <1>7. a \in SqlStates \ {"free"} /\ (a \in Early => sqlCalls[c].at \in Early)
    BY <1>2, <1>3 DEF SqlStates, Early
  <1>8. starting' \in {"null", "pending", "connected", "rejected"}
    BY <1>1, <1>2 DEF SqlTyped
  <1> QED BY <1>2, <1>3, <1>5, <1>6, <1>7, <1>8, MoveKeepsCore

(* Everything an answer is and changes. *)
AnswerIs(c, s, h, left, a, new) ==
  /\ s = sqlCalls[c].on /\ h = Head(sqlCalls[c].todo) /\ left = Rest(c, content[s])
  /\ a = IF left = <<>> THEN "done" ELSE IF Program(c) = "reset" THEN "sent" ELSE "ensure"
  /\ new = AfterIt(h, content[s], CleanAfter(c, content[s], left))
  /\ sqlCalls[c].at = "sent" /\ s \in servers /\ Possible(h, content[s])
  /\ content' = [content EXCEPT ![s] = new]
  /\ SqlMoves(c, a, s, left)
  /\ UNCHANGED <<servers, ended, launched, db, pool, starting, collided>>
  /\ s \in 1..launched /\ s \in 0..MaxServers /\ h \in SqlRequests
  /\ left \in Seq(SqlRequests)

(* What is left of each program. *)
LeftIs(c, data, h, left) ==
  /\ h = MakeLog => left = <<ListLog>>
  /\ h = ListLog => left = ToMigrate(data) /\ left \in Seq(MigrationSteps)
  /\ h \in MigrationSteps => left = Tail(sqlCalls[c].todo) /\ left \in Seq(MigrationSteps)
  /\ h = MakeTable => left = <<>>
  /\ h = List /\ Program(c) = "schema" => /\ left = OfEach("describe", data.tables)
                                          /\ left \in Seq(Describes)
  /\ h = List /\ Program(c) = "reset" => /\ left = OfEach("drop", data.tables)
                                         /\ left \in Seq(Drops)
  /\ h \in Describes => left = Tail(sqlCalls[c].todo) /\ left \in Seq(Describes)
  /\ h \in Drops => left = Tail(sqlCalls[c].todo) /\ left \in Seq(Drops)
  /\ Program(c) \in {"migrate", "query", "schema", "reset"}
  /\ Program(c) = "migrate" <=> h = MakeLog \/ h = ListLog \/ h \in MigrationSteps
  /\ Program(c) = "query" <=> h = MakeTable
  /\ Program(c) = "schema" => h = List \/ h \in Describes
  /\ Program(c) = "reset" => h = List \/ h \in Drops

(* What the answer to a request gives: the data of its server, and the rest of the program. *)
LEMMA AnswerGives ==
    ASSUME SqlCore, NEW c \in SqlCalls, Answered(c)
    PROVE  \E s, h, left, a, new :
             /\ AnswerIs(c, s, h, left, a, new) /\ LeftIs(c, content[s], h, left)
             /\ HoldsThen(content[s], h, new)
             /\ new.clean = CleanAfter(c, content[s], left)
PROOF
  <1>1. SqlTyped /\ SqlProgress(c)
    BY DEF SqlCore
  <1>2. PICK s : s = sqlCalls[c].on
    OBVIOUS
  <1>3. PICK todo : todo = sqlCalls[c].todo
    OBVIOUS
  <1>4. PICK data : data = content[s]
    OBVIOUS
  <1>5. PICK h : h = Head(todo)
    OBVIOUS
  <1>6. PICK left : left = Rest(c, content[s])
    OBVIOUS
  <1>7. PICK rest : rest = Tail(todo)
    OBVIOUS
  <1>8. sqlCalls[c].at = "sent" /\ s \in servers
    BY <1>2 DEF Answered, MayAnswer
  <1>9. s \in 1..launched /\ s \in 0..MaxServers
    BY <1>1, <1>8, SqlNumbers
  <1>10. data \in SqlData /\ DataHolds(data) /\ data.clean \in BOOLEAN
    <2>1. data \in SqlData
      BY <1>1, <1>4, <1>9 DEF SqlTyped
    <2>2. DataHolds(data)
      BY <1>4, <1>9 DEF SqlCore, DataHeld
    <2> QED BY <2>1, <2>2 DEF SqlData
  <1>11. /\ h \in SqlRequests
         /\ Program(c) \in {"migrate", "query", "schema", "reset"}
         /\ Program(c) = "migrate" => h = MakeLog \/ h = ListLog \/ h \in MigrationSteps
         /\ Program(c) = "query" => h = MakeTable
         /\ Program(c) = "schema" => h = List \/ h \in Describes
         /\ Program(c) = "reset" => h = List \/ h \in Drops
    BY <1>1, <1>3, <1>5, <1>8, WhatIsAsked, ProgramsMeet
  <1>12. RestIs(c, data, h, rest, left)
    <2>1. h = Head(sqlCalls[c].todo) /\ rest = Tail(sqlCalls[c].todo) /\ left = Rest(c, data)
      BY <1>3, <1>4, <1>5, <1>6, <1>7
    <2> QED BY <1>1, <1>8, <1>10, <2>1, WhatIsLeft
  <1>13. PICK clean : clean = CleanAfter(c, data, left)
    OBVIOUS
  <1>14. PICK new : new = AfterIt(h, data, clean)
    OBVIOUS
  <1>15. PICK a : a = IF left = <<>> THEN "done" ELSE IF Program(c) = "reset" THEN "sent" ELSE "ensure"
    OBVIOUS
  <1>16. AnswerIs(c, s, h, left, a, new)
    <2>1. /\ s = sqlCalls[c].on /\ h = Head(sqlCalls[c].todo) /\ left = Rest(c, content[s])
          /\ new = AfterIt(h, content[s], CleanAfter(c, content[s], left))
      BY <1>2, <1>3, <1>4, <1>5, <1>6, <1>13, <1>14
    <2>2. /\ Possible(h, content[s]) /\ content' = [content EXCEPT ![s] = new]
          /\ SqlMoves(c, a, s, left)
          /\ UNCHANGED <<servers, ended, launched, db, pool, starting, collided>>
      BY <1>1, <1>12, <1>15, <2>1, SqlAnswerMoves DEF RestIs
    <2> QED BY <1>8, <1>9, <1>11, <1>12, <1>15, <2>1, <2>2 DEF AnswerIs, RestIs
  <1>17. HoldsThen(data, h, new) /\ new.clean = clean
    <2>1. clean \in BOOLEAN
      BY <1>10, <1>13 DEF CleanAfter
    <2>2. Possible(h, data)
      BY <1>4, <1>16 DEF AnswerIs
    <2> QED BY <1>10, <1>11, <1>14, <2>1, <2>2, DoneKeepsData
  <1>18. LeftIs(c, data, h, left)
    <2>1. /\ MakeTable # MakeLog /\ MakeTable # ListLog /\ MakeTable # List
          /\ MakeLog # List /\ ListLog # List
      BY DEF MakeTable, MakeLog, ListLog, List, Statement
    <2>2. /\ MakeTable \notin MigrationSteps \cup Describes \cup Drops
          /\ MakeLog \notin Describes \cup Drops /\ ListLog \notin Describes \cup Drops
      BY DEF MakeTable, MakeLog, ListLog, Statement, MigrationSteps, Describes, Drops
    <2>3. \A x \in MigrationSteps : x # List /\ x \notin Describes /\ x \notin Drops
      <3>1. \A x \in MigrationSteps : x.do \in {"run", "record"}
        BY DEF MigrationSteps
      <3>2. /\ \A x \in Describes : x.do = "describe"
            /\ \A x \in Drops : x.do = "drop"
            /\ List.do = "list"
        BY DEF Describes, Drops, List, Statement
      <3> QED BY <3>1, <3>2
    <2>4. rest = Tail(sqlCalls[c].todo)
      BY <1>3, <1>7
    <2> QED BY <1>11, <1>12, <2>1, <2>2, <2>3, <2>4 DEF LeftIs, RestIs
  <1> QED BY <1>4, <1>13, <1>16, <1>17, <1>18

(* The call goes on with its program once it is answered. *)
LEMMA AnswerKeepsProgress ==
    ASSUME NEW c \in SqlCalls, NEW s, NEW h, NEW left, NEW a, NEW new,
           AnswerIs(c, s, h, left, a, new), LeftIs(c, content[s], h, left)
    PROVE  SqlProgress(c)'
PROOF
  <1>1. sqlCalls'[c].at = a /\ sqlCalls'[c].todo = left
    BY DEF AnswerIs, SqlMoves
  <1>2. a = IF left = <<>> THEN "done" ELSE IF Program(c) = "reset" THEN "sent" ELSE "ensure"
    BY DEF AnswerIs
  <1>3. CASE left = <<>>
    BY <1>1, <1>2, <1>3, ProgressOf
  <1>4. CASE left # <<>>
    <2>1. Program(c) = "migrate" => left = <<ListLog>> \/ left \in Seq(MigrationSteps)
      BY DEF LeftIs
    <2>2. Program(c) # "query"
      BY <1>4 DEF LeftIs
    <2>3. Program(c) = "schema" => left \in Seq(Describes)
      BY DEF LeftIs
    <2>4. Program(c) = "reset" => left \in Seq(Drops) /\ a = "sent"
      BY <1>2, <1>4 DEF LeftIs
    <2>5. Program(c) # "reset" => a = "ensure"
      BY <1>2, <1>4
    <2>6. Program(c) # "stop"
      BY DEF LeftIs
    <2> QED BY <1>1, <1>4, <2>1, <2>2, <2>3, <2>4, <2>5, <2>6, ProgressOf
  <1> QED BY <1>3, <1>4

(* An answered request keeps the core. *)
LEMMA AnswerKeepsCore ==
    ASSUME SqlCore, NEW c \in SqlCalls, Answered(c)
    PROVE  SqlCore'
PROOF
  <1>1. SqlTyped /\ \A d \in SqlCalls : SqlProgress(d) /\ SqlAlone(d) /\ QueryHeld(d)
    BY DEF SqlCore
  <1>2. PICK s, h, left, a, new :
          /\ AnswerIs(c, s, h, left, a, new) /\ LeftIs(c, content[s], h, left)
          /\ HoldsThen(content[s], h, new)
    BY AnswerGives
  <1>3. /\ sqlCalls' \in [SqlCalls -> SqlRecord]
        /\ sqlCalls'[c].at = a /\ sqlCalls'[c].alone = sqlCalls[c].alone
        /\ \A d \in SqlCalls \ {c} : sqlCalls'[d] = sqlCalls[d]
    BY <1>2 DEF AnswerIs, SqlMoves
  <1>4. /\ sqlCalls[c].at = "sent" /\ s \in 1..launched /\ s \in 0..MaxServers
        /\ h \in SqlRequests
        /\ a = IF left = <<>> THEN "done" ELSE IF Program(c) = "reset" THEN "sent" ELSE "ensure"
        /\ UNCHANGED <<servers, ended, launched, db, pool, starting>>
    BY <1>2 DEF AnswerIs
  <1>5. /\ content' \in [0..MaxServers -> SqlData] /\ content'[s] = new
        /\ \A q \in (0..MaxServers) \ {s} : content'[q] = content[q]
    <2>1. content' = [content EXCEPT ![s] = new] /\ new \in SqlData
      BY <1>2 DEF AnswerIs, HoldsThen
    <2> QED BY <1>1, <1>4, <2>1 DEF SqlTyped
  <1>6. SqlTyped'
    BY <1>1, <1>3, <1>4, <1>5 DEF SqlTyped
  <1>7. \A d \in SqlCalls : SqlProgress(d)'
    <2>1. SqlProgress(c)'
      BY <1>2, AnswerKeepsProgress
    <2> QED BY <1>1, <1>3, <2>1 DEF SqlProgress, InProgress, Program
  <1>8. \A d \in SqlCalls : SqlAlone(d)'
    <2>1. InProgress(c)
      BY <1>4 DEF InProgress
    <2>2. \A d \in SqlCalls : InProgress(d)' =>
            InProgress(d) /\ sqlCalls'[d].alone = sqlCalls[d].alone
      BY <1>3, <2>1 DEF InProgress
    <2> QED BY <1>1, <2>2, AloneStays
  <1>9. ASSUME NEW d \in SqlCalls PROVE QueryHeld(d)'
    <2>1. SUFFICES ASSUME Program(d) = "query", sqlCalls'[d].at \in Early, NEW q \in 0..MaxServers
                   PROVE  AppTable \notin content'[q].tables
      BY DEF QueryHeld, Program, Early
    <2>2. d # c
      <3>1. SUFFICES ASSUME d = c PROVE FALSE
        OBVIOUS
      <3>2. left = <<>>
        BY <1>2, <2>1, <3>1 DEF LeftIs
      <3> QED BY <1>3, <1>4, <2>1, <3>1, <3>2 DEF Early
    <2>3. AppTable \notin content[q].tables /\ AppTable \notin content[s].tables
      BY <1>1, <1>3, <1>4, <2>1, <2>2 DEF QueryHeld, Early
    <2>4. CASE q # s
      BY <1>5, <2>3, <2>4
    <2>5. CASE q = s
      <3>1. Program(c) # "query"
        BY <2>1, <2>2, ProgramsMeet
      <3>2. h # MakeTable
        BY <1>2, <3>1 DEF LeftIs
      <3>3. h.do = "run" => h.name # AppTable
        BY <1>4, RequestKinds, Tables
      <3>4. h.do # "make"
        BY <1>4, <3>2, RequestKinds
      <3>5. \/ new.tables \subseteq content[s].tables \cup {MigrationLog}
            \/ h.do = "run" /\ new.tables = content[s].tables \cup {h.name}
        BY <1>2, <3>4 DEF HoldsThen
      <3>6. AppTable \notin new.tables
        BY <2>3, <3>3, <3>5, Tables
      <3> QED BY <1>5, <2>5, <3>6
    <2> QED BY <2>4, <2>5
  <1>10. ASSUME NEW q \in 0..MaxServers PROVE DataHeld(q)'
    <2>1. DataHeld(q) /\ launched' = launched
      BY <1>4 DEF SqlCore
    <2>2. CASE q # s
      <3>1. content'[q] = content[q]
        BY <1>5, <2>2
      <3> QED BY <2>1, <3>1 DEF DataHeld
    <2>3. CASE q = s
      <3>1. content'[q] = new /\ ~(q > launched)
        BY <1>1, <1>4, <1>5, <2>3, SqlNumbers
      <3>2. DataHolds(new)
        BY <1>2 DEF HoldsThen
      <3> QED BY <2>1, <3>1, <3>2 DEF DataHeld
    <2> QED BY <2>2, <2>3
  <1> QED BY <1>6, <1>7, <1>8, <1>9, <1>10 DEF SqlCore

(* While nobody stops it, the server there is has the pool. *)
LEMMA WhileNobodyStops ==
    ASSUME SqlCore, ServerHeld, ~Stopping
    PROVE  /\ pool = Off => servers = {}
           /\ \A s \in servers : s = pool
           /\ pool # Off => servers = {pool} /\ pool \notin ended /\ db = pool
           /\ \A c \in SqlCalls : sqlCalls[c].at \notin {"ending", "ended", "stopped"}
PROOF
  <1>1. \A c \in SqlCalls : sqlCalls[c].at \notin {"ending", "ended", "stopped"}
    <2>1. ASSUME NEW c \in SqlCalls, sqlCalls[c].at \in {"ending", "ended", "stopped"}
          PROVE  Program(c) = "stop" /\ InProgress(c)
      <3>1. SqlProgress(c) /\ InProgress(c)
        BY <2>1 DEF SqlCore, InProgress
      <3> QED BY <2>1, <3>1, ProgramsMeet DEF SqlProgress
    <2> QED BY <2>1 DEF Stopping
  <1> QED BY <1>1 DEF ServerHeld

(* Who is stopped by another is not alone. *)
LEMMA StoppedIsNotAlone ==
    ASSUME SqlCore, NEW c \in SqlCalls, Program(c) = "stop", InProgress(c),
           NEW d \in SqlCalls, InProgress(d), Program(d) # "stop"
    PROVE  ~sqlCalls[d].alone
PROOF
  <1>1. SqlAlone(d)
    BY DEF SqlCore
  <1>2. c # d /\ Meets(d, c)
    BY ProgramsMeet
  <1> QED BY <1>1, <1>2 DEF SqlAlone

(* What is known of a call stays, if it rests or loses its solitude and, if it is alone,
   its server rests as well. *)
LEMMA CallRests ==
    ASSUME NEW d \in SqlCalls, CallHeld(d), GoesOnAfterLog(d),
           sqlCalls'[d].at = sqlCalls[d].at, sqlCalls'[d].on = sqlCalls[d].on,
           sqlCalls'[d].todo = sqlCalls[d].todo, sqlCalls'[d].alone => sqlCalls[d].alone,
           starting = "rejected" => starting' = "rejected",
           sqlCalls'[d].alone /\ InProgress(d) /\ Program(d) # "stop"
             => pool' = pool /\ content' = content
    PROVE  CallHeld(d)' /\ GoesOnAfterLog(d)'
PROOF
  <1>1. InProgress(d)' <=> InProgress(d)
    BY DEF InProgress
  <1>2. CASE sqlCalls'[d].alone /\ InProgress(d) /\ Program(d) # "stop"
    <2>1. pool' = pool /\ content' = content /\ sqlCalls[d].alone
      BY <1>2
    <2>2. CallHeld(d)'
      BY <1>1, <2>1 DEF CallHeld, Program
    <2>3. GoesOnAfterLog(d)'
      BY <1>1, <2>1 DEF GoesOnAfterLog, Program
    <2> QED BY <2>2, <2>3
  <1>3. CASE ~(sqlCalls'[d].alone /\ InProgress(d) /\ Program(d) # "stop")
    <2>1. CallHeld(d)'
      BY <1>1, <1>3 DEF CallHeld, Program
    <2>2. GoesOnAfterLog(d)'
      BY <1>1, <1>3 DEF GoesOnAfterLog, Program
    <2> QED BY <2>1, <2>2
  <1> QED BY <1>2, <1>3

(* What is known of a server's log stays, if the server rests and who records goes on. *)
LEMMA RecordsRest ==
    ASSUME NEW s \in 0..MaxServers, RecordsHeld(s),
           s \in servers' => s \in servers, content'[s] = content[s], Stopping => Stopping',
           \A c \in SqlCalls : Program(c) = "reset" /\ InProgress(c) /\ sqlCalls[c].on = s
             => InProgress(c)' /\ sqlCalls'[c].on = s,
           \A c \in SqlCalls : s \in servers /\ ~Stopping /\ Recording(c, s) => Recording(c, s)'
    PROVE  RecordsHeld(s)'
PROOF
  <1> SUFFICES ASSUME s \in servers', content'[s].clean, ~Stopping',
                      \A c \in SqlCalls : Program(c) = "reset" /\ InProgress(c)'
                        => sqlCalls'[c].on # s
               PROVE  /\ content'[s].ran = content'[s].log \/ \E c \in SqlCalls : Recording(c, s)'
                      /\ IsPrefix(content'[s].ran, Migrations)
    BY DEF RecordsHeld, Program
  <1>1. s \in servers /\ content[s].clean /\ ~Stopping
    OBVIOUS
  <1>2. \A c \in SqlCalls : Program(c) = "reset" /\ InProgress(c) => sqlCalls[c].on # s
    OBVIOUS
  <1>3. /\ content[s].ran = content[s].log \/ \E c \in SqlCalls : Recording(c, s)
        /\ IsPrefix(content[s].ran, Migrations)
    BY <1>1, <1>2 DEF RecordsHeld
  <1> QED BY <1>1, <1>3

(* A call that rests records what it recorded, and resets what it did. *)
LEMMA RecordingRests ==
    ASSUME NEW c \in SqlCalls, NEW s, content'[s] = content[s], Recording(c, s),
           sqlCalls'[c].at = sqlCalls[c].at, sqlCalls'[c].on = sqlCalls[c].on,
           sqlCalls'[c].todo = sqlCalls[c].todo
    PROVE  Recording(c, s)'
BY DEF Recording, Program

(* A call that begins keeps the order. *)
LEMMA BeginKeepsOrder ==
    ASSUME SqlCore, SqlOrder, NEW c \in SqlCalls, BeginSql(c) \/ BeginSqlReset(c)
    PROVE  SqlOrder'
PROOF
  <1>1. /\ SqlTyped /\ ServerHeld
        /\ \A d \in SqlCalls : CallHeld(d) /\ GoesOnAfterLog(d)
        /\ \A s \in 0..MaxServers : RecordsHeld(s)
    BY DEF SqlCore, SqlOrder
  <1>2. PICK a, o, t : /\ sqlCalls' = Beginning(c, a, o, t) /\ a \in SqlStates
                       /\ o \in 0..MaxServers /\ t \in Seq(SqlRequests)
                       /\ a \in {"ensure", "sent", "done"}
                       /\ a = "sent" => Program(c) = "reset" /\ pool # Off /\ o = pool
                       /\ Program(c) = "migrate" => t = <<MakeLog, ListLog>>
                       /\ Program(c) \in {"schema", "reset"} => t = <<List>>
                       /\ Program(c) = "reset" => a # "ensure"
                       /\ Program(c) # "stop"
    <2>1. CASE BeginSql(c)
      <3>1. /\ sqlCalls' = Beginning(c, "ensure", Off, FirstRequests(c))
            /\ Program(c) \notin {"reset", "stop"}
        BY <2>1 DEF BeginSql
      <3>2. "ensure" \in SqlStates /\ "ensure" \in {"ensure", "sent", "done"} /\ "ensure" # "sent"
        BY DEF SqlStates
      <3>3. /\ FirstRequests(c) \in Seq(SqlRequests)
            /\ Program(c) = "migrate" => FirstRequests(c) = <<MakeLog, ListLog>>
            /\ Program(c) \in {"schema", "reset"} => FirstRequests(c) = <<List>>
        BY <3>1, FirstRequestsAre
      <3>4. Off \in 0..MaxServers /\ Program(c) # "reset" /\ Program(c) # "stop"
        BY <1>1, <3>1, SqlNumbers
      <3> QED BY <3>1, <3>2, <3>3, <3>4, Zenon
    <2>2. CASE BeginSqlReset(c)
      <3>1. PICK a : a = IF pool = Off THEN "done" ELSE "sent"
        OBVIOUS
      <3>2. sqlCalls' = Beginning(c, a, pool, <<List>>) /\ Program(c) = "reset"
        BY <2>2, <3>1 DEF BeginSqlReset, List
      <3>3. /\ a \in SqlStates /\ a \in {"ensure", "sent", "done"} /\ (a = "sent" => pool # Off)
            /\ a # "ensure"
        BY <3>1 DEF SqlStates
      <3>4. <<List>> \in Seq(SqlRequests) /\ pool \in 0..MaxServers
        <4>1. List \in SqlRequests
          BY DEF SqlRequests
        <4> QED BY <1>1, <4>1, SqlNumbers
      <3>5. Program(c) # "migrate" /\ Program(c) # "stop"
        BY <3>2
      <3> QED BY <3>2, <3>3, <3>4, <3>5, Zenon
    <2> QED BY <2>1, <2>2
  <1>3. /\ sqlCalls[c].at = "free"
        /\ UNCHANGED <<servers, ended, launched, db, pool, starting, content, collided>>
    BY DEF BeginSql, BeginSqlReset, Free
  <1>4. /\ sqlCalls'[c].at = a /\ sqlCalls'[c].on = o /\ sqlCalls'[c].todo = t
        /\ \A d \in SqlCalls \ {c} :
             /\ sqlCalls'[d].at = sqlCalls[d].at /\ sqlCalls'[d].on = sqlCalls[d].on
             /\ sqlCalls'[d].todo = sqlCalls[d].todo
             /\ sqlCalls'[d].alone => sqlCalls[d].alone
    <2>1. /\ sqlCalls'[c].at = a /\ sqlCalls'[c].on = o /\ sqlCalls'[c].todo = t
          /\ \A d \in SqlCalls \ {c} :
               /\ sqlCalls'[d].at = sqlCalls[d].at /\ sqlCalls'[d].on = sqlCalls[d].on
               /\ sqlCalls'[d].todo = sqlCalls[d].todo
               /\ sqlCalls'[d].alone = (sqlCalls[d].alone /\ d \notin Others(c))
      <3>1. /\ sqlCalls' = Beginning(c, a, o, t) /\ a \in SqlStates /\ o \in 0..MaxServers
            /\ t \in Seq(SqlRequests)
        BY <1>2
      <3> QED BY <1>1, <3>1, CallBegins
    <2> QED BY <2>1
  <1>5. Stopping' <=> Stopping
    BY <1>2, <1>3, <1>4 DEF Stopping, InProgress, Program
  <1>6. ServerHeld'
    <2>1. /\ \A d \in SqlCalls : sqlCalls'[d].at = "ended" <=> sqlCalls[d].at = "ended"
          /\ \A d \in SqlCalls : sqlCalls'[d].at = "stopped" <=> sqlCalls[d].at = "stopped"
      BY <1>2, <1>3, <1>4
    <2> QED BY <1>1, <1>3, <1>5, <2>1 DEF ServerHeld
  <1>7. ASSUME NEW d \in SqlCalls PROVE CallHeld(d)' /\ GoesOnAfterLog(d)'
    <2>1. CASE d # c
      BY <1>1, <1>3, <1>4, <2>1, CallRests
    <2>2. CASE d = c
      <3>1. CallHeld(c)'
        BY <1>2, <1>3, <1>4 DEF CallHeld, Program, InProgress
      <3>2. Program(c) = "migrate" => t \notin Seq(MigrationSteps)
        <4>1. <<MakeLog, ListLog>>[1] = MakeLog /\ 1 \in 1..Len(<<MakeLog, ListLog>>)
          OBVIOUS
        <4>2. MakeLog \notin MigrationSteps
          BY DEF MakeLog, Statement, MigrationSteps
        <4> QED BY <1>2, <4>1, <4>2
      <3>3. GoesOnAfterLog(c)'
        BY <1>4, <3>2 DEF GoesOnAfterLog, Program
      <3> QED BY <2>2, <3>1, <3>3
    <2> QED BY <2>1, <2>2
  <1>8. ASSUME NEW s \in 0..MaxServers PROVE RecordsHeld(s)'
    <2>1. \A d \in SqlCalls : Recording(d, s) => Recording(d, s)'
      <3>1. ASSUME NEW d \in SqlCalls, Recording(d, s)
            PROVE  Recording(d, s)'
        <4>1. d # c
          BY <1>3, <3>1 DEF Recording
        <4> QED BY <1>3, <1>4, <3>1, <4>1, RecordingRests
      <3> QED BY <3>1
    <2>2. \A d \in SqlCalls : Program(d) = "reset" /\ InProgress(d) /\ sqlCalls[d].on = s
            => InProgress(d)' /\ sqlCalls'[d].on = s
      BY <1>3, <1>4 DEF InProgress
    <2> QED BY <1>1, <1>3, <1>5, <2>1, <2>2, RecordsRest
  <1> QED BY <1>6, <1>7, <1>8 DEF SqlOrder

(* Who stops the server keeps the order: nobody is alone meanwhile. *)
LEMMA BeginSqlStopKeepsOrder ==
    ASSUME SqlCore, SqlOrder, NEW c \in SqlCalls, BeginSqlStop(c), ~collided'
    PROVE  SqlOrder'
PROOF
  <1>1. /\ SqlTyped /\ ServerHeld
        /\ \A d \in SqlCalls : CallHeld(d) /\ GoesOnAfterLog(d)
    BY DEF SqlCore, SqlOrder
  <1>2. PICK a : a = IF pool # Off THEN "ending" ELSE "ended"
    OBVIOUS
  <1>3. /\ sqlCalls' = Beginning(c, a, Off, <<>>) /\ Program(c) = "stop"
        /\ sqlCalls[c].at = "free" /\ starting \notin {"pending", "connected"}
        /\ UNCHANGED <<servers, launched, db, pool, starting, content>>
    BY <1>2 DEF BeginSqlStop, Free
  <1>4. a \in SqlStates /\ Off \in 0..MaxServers /\ <<>> \in Seq(SqlRequests)
    BY <1>1, <1>2, SqlNumbers, EmptySeq DEF SqlStates
  <1>5. /\ sqlCalls'[c].at = a
        /\ \A d \in SqlCalls \ {c} :
             /\ sqlCalls'[d].at = sqlCalls[d].at /\ sqlCalls'[d].on = sqlCalls[d].on
             /\ sqlCalls'[d].todo = sqlCalls[d].todo
             /\ sqlCalls'[d].alone = (sqlCalls[d].alone /\ d \notin Others(c))
    BY <1>1, <1>3, <1>4, CallBegins
  <1>6. Stopping'
    BY <1>2, <1>3, <1>5 DEF Stopping, InProgress, Program
  <1>7. ServerHeld'
    BY <1>1, <1>2, <1>3, <1>5, <1>6 DEF ServerHeld
  <1>8. ASSUME NEW d \in SqlCalls PROVE CallHeld(d)' /\ GoesOnAfterLog(d)'
    <2>1. CASE d = c
      BY <1>2, <1>3, <1>5, <2>1 DEF CallHeld, GoesOnAfterLog, Program
    <2>2. CASE d # c
      <3>1. InProgress(d) => d \in Others(c)
        BY <1>3, <2>2, ProgramsMeet DEF Others
      <3> QED BY <1>1, <1>3, <1>5, <2>2, <3>1, CallRests
    <2> QED BY <2>1, <2>2
  <1>9. \A s \in 0..MaxServers : RecordsHeld(s)'
    BY <1>6 DEF RecordsHeld
  <1> QED BY <1>7, <1>8, <1>9 DEF SqlOrder

(* A server that is stopped while no program collides with it keeps the order. *)
LEMMA StoppingKeepsOrder ==
    ASSUME SqlCore, SqlOrder, NEW c \in SqlCalls, PoolEnds(c) \/ ServerStops(c) \/ StopReturns(c)
    PROVE  SqlOrder'
PROOF
  <1>1. /\ SqlTyped /\ ServerHeld /\ SqlProgress(c)
        /\ \A d \in SqlCalls : CallHeld(d) /\ GoesOnAfterLog(d)
    BY DEF SqlCore, SqlOrder
  <1>2. /\ sqlCalls[c].at \in {"ending", "ended", "stopped"} /\ InProgress(c)
        /\ UNCHANGED <<launched, ended, content, starting>>
    BY DEF PoolEnds, ServerStops, StopReturns, InProgress
  <1>3. Program(c) = "stop"
    BY <1>1, <1>2, ProgramsMeet DEF SqlProgress
  <1>4. PICK a \in {"ended", "done", "stopped"} : sqlCalls' = [sqlCalls EXCEPT ![c].at = a]
    BY DEF PoolEnds, ServerStops, StopReturns
  <1>5. a \in SqlStates /\ sqlCalls[c].todo \in Seq(SqlRequests)
    BY <1>1 DEF SqlStates, SqlTyped, SqlRecord
  <1>6. /\ sqlCalls'[c].at = a
        /\ \A d \in SqlCalls \ {c} : sqlCalls'[d] = sqlCalls[d]
    <2>1. SqlMoves(c, a, sqlCalls[c].on, sqlCalls[c].todo)
      BY <1>1, <1>4, <1>5, CallGoesOn
    <2> QED BY <2>1 DEF SqlMoves
  <1>7. Stopping /\ (a # "done" => Stopping') /\ (Stopping' => Stopping)
    BY <1>2, <1>3, <1>4, <1>6 DEF Stopping, InProgress, Program
  <1>8. ASSUME NEW d \in SqlCalls PROVE CallHeld(d)' /\ GoesOnAfterLog(d)'
    <2>1. CASE d = c
      BY <1>3, <1>4, <1>6, <2>1 DEF CallHeld, GoesOnAfterLog, Program
    <2>2. CASE d # c
      <3>1. InProgress(d) /\ Program(d) # "stop" => ~sqlCalls[d].alone
        BY <1>2, <1>3, StoppedIsNotAlone
      <3> QED BY <1>1, <1>2, <1>6, <2>2, <3>1, CallRests
    <2> QED BY <2>1, <2>2
  <1>9. starting \notin {"pending", "connected"}
    BY <1>1, <1>7 DEF ServerHeld
  <1>10. CASE PoolEnds(c)
    <2>1. a = "ended" /\ pool' = Off /\ UNCHANGED <<servers, db>>
      <3>1. sqlCalls'[c].at = "ended"
        <4>1. sqlCalls \in [SqlCalls -> SqlRecord] /\ sqlCalls[c] \in SqlRecord
          BY <1>1 DEF SqlTyped
        <4> QED BY <1>10, <4>1 DEF PoolEnds, SqlRecord
      <3> QED BY <1>6, <1>10, <3>1 DEF PoolEnds
    <2>2. ServerHeld'
      BY <1>1, <1>2, <1>6, <1>9, <2>1 DEF ServerHeld
    <2>3. \A s \in 0..MaxServers : RecordsHeld(s)'
      BY <1>7, <2>1 DEF RecordsHeld
    <2> QED BY <1>8, <2>2, <2>3 DEF SqlOrder
  <1>11. CASE ServerStops(c) \/ StopReturns(c)
    <2>1. pool = Off /\ sqlCalls[c].at \in {"ended", "stopped"} /\ a \in {"stopped", "done"}
      <3>1. sqlCalls[c].at \in {"ended", "stopped"}
        BY <1>11 DEF ServerStops, StopReturns
      <3>2. a # "ended"
        <4>1. sqlCalls \in [SqlCalls -> SqlRecord] /\ sqlCalls[c] \in SqlRecord
          BY <1>1 DEF SqlTyped
        <4>2. sqlCalls'[c].at # "ended"
          BY <1>11, <4>1 DEF ServerStops, StopReturns, SqlRecord
        <4> QED BY <1>6, <4>2
      <3> QED BY <1>1, <3>1, <3>2 DEF ServerHeld
    <2>2. servers' = {} /\ pool' = Off
      <3>1. CASE ServerStops(c)
        <4>1. CASE db = Off
          <5>1. servers \subseteq {0} /\ servers \subseteq 1..launched /\ servers' = servers
            BY <1>1, <3>1, <4>1 DEF ServerStops, ServerHeld, SqlTyped, Off
          <5> QED BY <2>1, <3>1, <5>1 DEF ServerStops
        <4>2. CASE db # Off
          BY <1>1, <2>1, <3>1, <4>2 DEF ServerStops, ServerHeld, StopsServer
        <4> QED BY <4>1, <4>2
      <3>2. CASE StopReturns(c)
        BY <1>1, <2>1, <3>2 DEF StopReturns, ServerHeld
      <3> QED BY <1>11, <3>1, <3>2
    <2>3. ServerHeld'
      BY <1>1, <1>2, <1>7, <1>9, <2>2 DEF ServerHeld
    <2>4. \A s \in 0..MaxServers : RecordsHeld(s)'
      BY <2>2 DEF RecordsHeld
    <2> QED BY <1>8, <2>3, <2>4 DEF SqlOrder
  <1> QED BY <1>10, <1>11

(* A call that needs the server keeps the order. *)
LEMMA EnsureKeepsOrder ==
    ASSUME SqlCore, SqlOrder, NEW c \in SqlCalls, Ensure(c), ~collided'
    PROVE  SqlOrder'
PROOF
  <1>1. /\ SqlTyped /\ ServerHeld /\ SqlProgress(c)
        /\ \A d \in SqlCalls : CallHeld(d) /\ GoesOnAfterLog(d)
        /\ \A s \in 0..MaxServers : RecordsHeld(s)
    BY DEF SqlCore, SqlOrder
  <1>2. /\ sqlCalls[c].at = "ensure" /\ InProgress(c)
        /\ UNCHANGED <<servers, ended, launched, db, pool, content>>
        /\ starting' = IF pool = Off /\ starting = "null" THEN "pending" ELSE starting
        /\ pool = Off => ~Stopping
    BY DEF Ensure, InProgress
  <1>3. PICK a, o : /\ SqlMoves(c, a, o, sqlCalls[c].todo)
                    /\ pool # Off => a = "sent" /\ o = pool
                    /\ pool = Off => a = IF starting = "rejected" THEN "failed" ELSE "await"
    <2>1. CASE pool # Off
      BY <1>1, <2>1, EnsureMoves
    <2>2. CASE pool = Off /\ starting = "rejected"
      BY <1>1, <2>2, EnsureMoves
    <2>3. CASE pool = Off /\ starting # "rejected"
      BY <1>1, <2>3, EnsureMoves
    <2> QED BY <2>1, <2>2, <2>3
  <1>4. /\ sqlCalls'[c].at = a /\ sqlCalls'[c].on = o /\ sqlCalls'[c].todo = sqlCalls[c].todo
        /\ sqlCalls'[c].alone = sqlCalls[c].alone
        /\ \A d \in SqlCalls \ {c} : sqlCalls'[d] = sqlCalls[d]
    BY <1>3 DEF SqlMoves
  <1>5. Program(c) \notin {"reset", "stop"}
    BY <1>1, <1>2 DEF SqlProgress
  <1>6. Stopping' <=> Stopping
    BY <1>4, <1>5 DEF Stopping, InProgress, Program
  <1>7. pool = Off => servers = {} /\ starting # "connected"
    BY <1>1, <1>2, WhileNobodyStops DEF SqlCore, ServerHeld
  <1>8. ServerHeld'
    <2>1. /\ \A d \in SqlCalls : sqlCalls'[d].at = "ended" <=> sqlCalls[d].at = "ended"
          /\ \A d \in SqlCalls : sqlCalls'[d].at = "stopped" <=> sqlCalls[d].at = "stopped"
      BY <1>2, <1>3, <1>4
    <2> QED BY <1>1, <1>2, <1>6, <1>7, <2>1 DEF ServerHeld
  <1>9. ASSUME NEW d \in SqlCalls PROVE CallHeld(d)' /\ GoesOnAfterLog(d)'
    <2>1. CASE d # c
      BY <1>1, <1>2, <1>4, <2>1, CallRests
    <2>2. CASE d = c
      <3>1. GoesOnAfterLog(c)'
        BY <1>1, <1>2, <1>4 DEF GoesOnAfterLog, Program
      <3>2. CASE pool # Off
        <4>1. a = "sent" /\ o = pool /\ starting' = starting
          BY <1>2, <1>3, <3>2
        <4>2. CallHeld(c)'
          BY <1>1, <1>2, <1>4, <1>5, <3>2, <4>1 DEF CallHeld, Program, InProgress
        <4> QED BY <2>2, <3>1, <4>2
      <3>3. CASE pool = Off /\ starting = "rejected"
        <4>1. a = "failed" /\ starting' = "rejected"
          BY <1>2, <1>3, <3>3
        <4>2. CallHeld(c)'
          BY <1>4, <4>1 DEF CallHeld, InProgress
        <4> QED BY <2>2, <3>1, <4>2
      <3>4. CASE pool = Off /\ starting # "rejected"
        <4>1. a = "await"
          BY <1>3, <3>4
        <4>2. CallHeld(c)'
          BY <1>1, <1>2, <1>4, <1>5, <3>4, <4>1 DEF CallHeld, Program, InProgress
        <4> QED BY <2>2, <3>1, <4>2
      <3> QED BY <3>2, <3>3, <3>4
    <2> QED BY <2>1, <2>2
  <1>10. ASSUME NEW s \in 0..MaxServers PROVE RecordsHeld(s)'
    <2>1. ASSUME NEW d \in SqlCalls, s \in servers, ~Stopping, Recording(d, s)
          PROVE  Recording(d, s)'
      <3>1. pool # Off /\ s = pool
        BY <1>1, <2>1, WhileNobodyStops
      <3>2. CASE d = c
        BY <1>2, <1>3, <1>4, <2>1, <3>1, <3>2 DEF Recording, Program
      <3>3. CASE d # c
        BY <1>2, <1>4, <2>1, <3>3, RecordingRests
      <3> QED BY <3>2, <3>3
    <2>2. \A d \in SqlCalls : Program(d) = "reset" /\ InProgress(d) /\ sqlCalls[d].on = s
            => InProgress(d)' /\ sqlCalls'[d].on = s
      BY <1>4, <1>5 DEF InProgress
    <2> QED BY <1>1, <1>2, <1>6, <2>1, <2>2, RecordsRest
  <1> QED BY <1>8, <1>9, <1>10 DEF SqlOrder

(* A server that is started keeps the order: there is no other, and nobody has gone on. *)
LEMMA CreateKeepsOrder ==
    ASSUME SqlCore, SqlOrder, Create
    PROVE  SqlOrder'
PROOF
  <1>1. /\ SqlTyped /\ ServerHeld
        /\ \A d \in SqlCalls : CallHeld(d) /\ GoesOnAfterLog(d)
        /\ \A s \in 0..MaxServers : DataHeld(s)
    BY DEF SqlCore, SqlOrder
  <1> DEFINE n == launched + 1
  <1>3. /\ starting = "pending" /\ launched' = n /\ n \in 1..MaxServers
        /\ servers' = servers \cup {n} /\ db' = n /\ pool' = n /\ starting' = "connected"
        /\ content'[n].ran = <<>> /\ content'[n].log = <<>>
        /\ UNCHANGED <<ended, sqlCalls>>
    BY <1>1, ServerCreated
  <1>2. n = launched + 1
    OBVIOUS
  <1> HIDE DEF n
  <1>4. pool = Off /\ ~Stopping /\ ~Stopping'
    BY <1>1, <1>3 DEF ServerHeld, Stopping, InProgress, Program
  <1>5. /\ servers = {} /\ servers' = {n}
        /\ \A c \in SqlCalls : sqlCalls[c].at \notin {"ending", "ended", "stopped"}
    BY <1>1, <1>3, <1>4, WhileNobodyStops
  <1>6. n \notin ended /\ n # Off
    BY <1>1, <1>2, <1>3, SqlNumbers DEF SqlTyped
  <1>7. ServerHeld'
    BY <1>3, <1>4, <1>5, <1>6 DEF ServerHeld
  <1>8. ASSUME NEW d \in SqlCalls PROVE CallHeld(d)' /\ GoesOnAfterLog(d)'
    <2>1. CallHeld(d) /\ SqlProgress(d)
      BY <1>1 DEF SqlCore
    <2>2. sqlCalls[d].alone => sqlCalls[d].at # "failed"
      BY <1>3, <2>1 DEF CallHeld
    <2>3. InProgress(d) /\ sqlCalls[d].alone =>
            /\ sqlCalls[d].at # "sent" /\ Program(d) # "reset"
            /\ Program(d) = "migrate" => sqlCalls[d].todo = <<MakeLog, ListLog>>
            /\ Program(d) = "schema" => sqlCalls[d].todo = <<List>>
      BY <1>4, <2>1 DEF CallHeld, SqlProgress
    <2>4. CallHeld(d)'
      BY <1>3, <2>2, <2>3 DEF CallHeld, InProgress, Program
    <2>5. <<MakeLog, ListLog>> \notin Seq(MigrationSteps)
      <3>1. <<MakeLog, ListLog>>[1] = MakeLog /\ 1 \in 1..Len(<<MakeLog, ListLog>>)
        OBVIOUS
      <3>2. MakeLog \notin MigrationSteps
        BY DEF MakeLog, Statement, MigrationSteps
      <3> QED BY <3>1, <3>2
    <2>6. GoesOnAfterLog(d)'
      BY <1>3, <2>3, <2>5 DEF GoesOnAfterLog, InProgress, Program
    <2> QED BY <2>4, <2>6
  <1>9. ASSUME NEW s \in 0..MaxServers PROVE RecordsHeld(s)'
    <2>1. s \in servers' => content'[s].ran = <<>> /\ content'[s].log = <<>>
      BY <1>3, <1>5
    <2>2. IsPrefix(<<>>, Migrations)
      <3>1. 0 \in 0..Len(Migrations)
        BY SqlAssumption
      <3>2. /\ IsPrefix(Firsts(0), Migrations) /\ Len(Firsts(0)) = 0
            /\ Firsts(0) \in Seq(ToSet(Migrations))
        BY <3>1, FirstOnes
      <3> QED BY <3>2, EmptySeq
    <2> QED BY <2>1, <2>2 DEF RecordsHeld
  <1> QED BY <1>7, <1>8, <1>9 DEF SqlOrder

(* So does a start that ends, well or badly. *)
LEMMA StartEndsKeepsOrder ==
    ASSUME SqlCore, SqlOrder, StartFails \/ Started
    PROVE  SqlOrder'
PROOF
  <1>1. /\ SqlTyped /\ ServerHeld
        /\ \A d \in SqlCalls : CallHeld(d) /\ GoesOnAfterLog(d) /\ SqlProgress(d)
        /\ \A s \in 0..MaxServers : RecordsHeld(s)
    BY DEF SqlCore, SqlOrder
  <1>2. UNCHANGED <<servers, ended, launched, db, pool, content>>
    BY DEF StartFails, Started
  <1>3. starting \in {"pending", "connected"} /\ ~Stopping
    BY <1>1 DEF StartFails, Started, ServerHeld
  <1>4. /\ StartFails => pool = Off /\ starting' = "rejected" /\ servers = {}
        /\ Started => pool # Off /\ starting' = "null"
        /\ \A c \in SqlCalls : sqlCalls[c].at \notin {"ending", "ended", "stopped"}
    <2>1. Started => pool # Off /\ starting' = "null"
      BY <1>1 DEF Started, ServerHeld
    <2>2. StartFails => pool = Off /\ starting' = "rejected"
      BY <1>1, <1>3 DEF StartFails, ServerHeld
    <2> QED BY <1>1, <1>3, <2>1, <2>2, WhileNobodyStops
  <1>5. \A d \in SqlCalls :
          /\ sqlCalls'[d].todo = sqlCalls[d].todo
          /\ sqlCalls'[d].alone = sqlCalls[d].alone
          /\ sqlCalls[d].at # "await" => sqlCalls'[d] = sqlCalls[d]
          /\ sqlCalls[d].at = "await" /\ StartFails => sqlCalls'[d].at = "failed"
          /\ sqlCalls[d].at = "await" /\ Started =>
               sqlCalls'[d].at = "sent" /\ sqlCalls'[d].on = pool
    BY <1>1, WaitersGoOn
  <1>6. \A d \in SqlCalls : sqlCalls[d].at = "await" => Program(d) \notin {"reset", "stop"}
    BY <1>1 DEF SqlProgress, InProgress
  <1>7. ~Stopping'
    BY <1>3, <1>5, <1>6 DEF Stopping, InProgress, Program
  <1>8. ServerHeld'
    <2>1. \A d \in SqlCalls : sqlCalls'[d].at \notin {"ended", "stopped"}
      BY <1>4, <1>5
    <2>2. starting' \notin {"pending", "connected"}
      BY <1>4
    <2> QED BY <1>1, <1>2, <1>3, <1>4, <1>7, <2>1, <2>2 DEF ServerHeld
  <1>9. ASSUME NEW d \in SqlCalls PROVE CallHeld(d)' /\ GoesOnAfterLog(d)'
    <2>1. CallHeld(d) /\ GoesOnAfterLog(d)
      BY <1>1
    <2>2. sqlCalls[d].alone => sqlCalls[d].at # "failed"
      BY <1>3, <2>1 DEF CallHeld
    <2>3. GoesOnAfterLog(d)'
      <3>1. InProgress(d)' => InProgress(d)
        BY <1>5 DEF InProgress
      <3> QED BY <1>2, <1>5, <2>1, <3>1 DEF GoesOnAfterLog, Program
    <2>4. CASE sqlCalls[d].at # "await"
      <3>1. sqlCalls'[d] = sqlCalls[d]
        BY <1>5, <2>4
      <3>2. CallHeld(d)'
        BY <1>2, <2>1, <2>2, <3>1 DEF CallHeld, Program, InProgress
      <3> QED BY <2>3, <3>2
    <2>5. CASE sqlCalls[d].at = "await" /\ StartFails
      <3>1. sqlCalls'[d].at = "failed" /\ starting' = "rejected"
        BY <1>4, <1>5, <2>5
      <3>2. CallHeld(d)'
        BY <3>1 DEF CallHeld, InProgress
      <3> QED BY <2>3, <3>2
    <2>6. CASE sqlCalls[d].at = "await" /\ Started
      <3>1. /\ sqlCalls'[d].at = "sent" /\ sqlCalls'[d].on = pool /\ pool # Off
            /\ Program(d) # "reset"
        BY <1>4, <1>5, <1>6, <2>6
      <3>2. /\ InProgress(d) /\ sqlCalls'[d].todo = sqlCalls[d].todo
            /\ sqlCalls'[d].alone = sqlCalls[d].alone
        BY <1>5, <2>6 DEF InProgress
      <3>3. CallHeld(d)'
        BY <1>2, <2>1, <2>6, <3>1, <3>2 DEF CallHeld, Program
      <3> QED BY <2>3, <3>3
    <2> QED BY <2>4, <2>5, <2>6
  <1>10. ASSUME NEW s \in 0..MaxServers PROVE RecordsHeld(s)'
    <2>1. ASSUME NEW d \in SqlCalls, Recording(d, s)
          PROVE  Recording(d, s)'
      <3>1. sqlCalls'[d] = sqlCalls[d]
        BY <1>5, <2>1 DEF Recording
      <3> QED BY <1>2, <2>1, <3>1, RecordingRests
    <2>2. \A d \in SqlCalls : Program(d) = "reset" /\ InProgress(d) /\ sqlCalls[d].on = s
            => InProgress(d)' /\ sqlCalls'[d].on = s
      BY <1>5, <1>6 DEF InProgress
    <2> QED BY <1>1, <1>2, <1>3, <2>1, <2>2, RecordsRest
  <1> QED BY <1>8, <1>9, <1>10 DEF SqlOrder

(* A call that is alone and waits asks the server that has the pool, which can do what
   it is asked, unless a migration's statement is wrong. *)
LEMMA AloneAsks ==
    ASSUME SqlCore, SqlOrder, NEW c \in SqlCalls, sqlCalls[c].at = "sent", sqlCalls[c].alone,
           NEW h, h = Head(sqlCalls[c].todo)
    PROVE  /\ sqlCalls[c].on = pool /\ servers = {pool} /\ pool \notin ended /\ ~Stopping
           /\ pool # Off
           /\ \A d \in SqlCalls \ {c} : InProgress(d) => ~Meets(c, d)
           /\ h.do # "run" => Possible(h, content[pool])
PROOF
  <1>1. /\ SqlTyped /\ ServerHeld /\ CallHeld(c) /\ SqlAlone(c) /\ SqlProgress(c) /\ QueryHeld(c)
    BY DEF SqlCore, SqlOrder
  <1>2. /\ InProgress(c) /\ Program(c) # "stop"
        /\ h \in SqlRequests
    BY <1>1, WhatIsAsked
  <1>3. sqlCalls[c].on = pool /\ pool # Off
    BY <1>1, <1>2 DEF CallHeld
  <1>4. \A d \in SqlCalls \ {c} : InProgress(d) => ~Meets(c, d)
    BY <1>1, <1>2 DEF SqlAlone
  <1>5. ~Stopping
    <2>1. \A d \in SqlCalls : Program(d) = "stop" /\ InProgress(d) => FALSE
      BY <1>2, StoppedIsNotAlone
    <2> QED BY <2>1 DEF Stopping
  <1>6. servers = {pool} /\ pool \notin ended
    BY <1>1, <1>3, <1>5, WhileNobodyStops
  <1>7. ASSUME h.do # "run" PROVE Possible(h, content[pool])
    <2> DEFINE todo == sqlCalls[c].todo
    <2>1. h.do \in {"make log", "list log", "list", "make", "record", "describe", "drop"}
      BY <1>2, <1>7, RequestKinds
    <2>2. ASSUME h.do \in {"list log", "record"} PROVE MigrationLog \in content[pool].tables
      <3>1. /\ MakeLog.do = "make log" /\ List.do = "list" /\ MakeTable.do = "make"
            /\ \A x \in Describes : x.do = "describe"
            /\ \A x \in Drops : x.do = "drop"
        BY DEF MakeLog, List, MakeTable, Describes, Drops, Statement
      <3>2. Program(c) = "migrate" /\ h # MakeLog
        BY <1>1, <2>2, <3>1, WhatIsAsked, ProgramsMeet
      <3>3. todo # <<MakeLog, ListLog>>
        <4>1. Head(<<MakeLog, ListLog>>) = MakeLog
          OBVIOUS
        <4> QED BY <3>2, <4>1
      <3> QED BY <1>1, <1>2, <3>2, <3>3 DEF CallHeld
    <2>3. ASSUME h.do = "make" PROVE h.name \notin content[pool].tables
      <3>1. h = MakeTable /\ h.name = AppTable
        BY <1>2, <2>3, RequestKinds
      <3>2. /\ MakeLog.do # "make" /\ ListLog.do # "make" /\ List.do # "make"
            /\ \A x \in MigrationSteps \cup Describes \cup Drops : x.do # "make"
        BY DEF MakeLog, ListLog, List, MigrationSteps, Describes, Drops, Statement
      <3>3. Program(c) = "query"
        BY <1>1, <2>3, <3>2, WhatIsAsked, ProgramsMeet
      <3>4. pool \in 0..MaxServers
        BY <1>1, SqlNumbers
      <3> QED BY <1>1, <3>1, <3>3, <3>4 DEF QueryHeld
    <2>4. ASSUME h.do = "describe" PROVE h.name \in content[pool].tables
      <3>1. /\ MakeLog.do = "make log" /\ List.do = "list" /\ MakeTable.do = "make"
            /\ ListLog.do = "list log"
            /\ \A x \in MigrationSteps : x.do \in {"run", "record"}
            /\ \A x \in Drops : x.do = "drop"
        BY DEF MakeLog, ListLog, List, MakeTable, MigrationSteps, Drops, Statement
      <3>2. /\ Program(c) = "schema" /\ h # List
            /\ todo \in Seq(SqlRequests) /\ todo # <<>>
        BY <1>1, <2>4, <3>1, WhatIsAsked, ProgramsMeet
      <3>3. todo # <<List>>
        <4>1. Head(<<List>>) = List
          OBVIOUS
        <4> QED BY <3>2, <4>1
      <3>4. \A i \in 1..Len(todo) : todo[i].name \in content[pool].tables
        BY <1>1, <1>2, <3>2, <3>3 DEF CallHeld
      <3>5. 1 \in 1..Len(todo) /\ h = todo[1]
        BY <3>2
      <3> QED BY <3>4, <3>5
    <2> QED BY <2>1, <2>2, <2>3, <2>4 DEF Possible
  <1> QED BY <1>3, <1>4, <1>5, <1>6, <1>7

(* A refusal keeps the order: who is alone is refused a wrong statement only. *)
LEMMA RefusalKeepsOrder ==
    ASSUME SqlCore, SqlOrder, NEW c \in SqlCalls, Refused(c)
    PROVE  SqlOrder'
PROOF
  <1>1. /\ SqlTyped /\ ServerHeld /\ SqlProgress(c)
        /\ \A d \in SqlCalls : CallHeld(d) /\ GoesOnAfterLog(d)
        /\ \A s \in 0..MaxServers : RecordsHeld(s)
    BY DEF SqlCore, SqlOrder
  <1>2. PICK h : h = Head(sqlCalls[c].todo)
    OBVIOUS
  <1>3. PICK rest : rest = Tail(sqlCalls[c].todo)
    OBVIOUS
  <1>4. PICK on : on = sqlCalls[c].on
    OBVIOUS
  <1>5. /\ sqlCalls[c].at = "sent" /\ InProgress(c)
        /\ UNCHANGED <<servers, ended, launched, db, pool, starting, content>>
        /\ on \in servers /\ Possible(h, content[on]) => on \notin servers \ ended \/ h.do = "run"
        /\ h.do \in {"make log", "record"} =>
             \E a : SqlMoves(c, a, on, rest) /\ a = IF rest = <<>> THEN "done" ELSE "ensure"
        /\ h.do = "run" => SqlMoves(c, "done", on, <<>>)
        /\ h.do \notin {"make log", "record", "run"} => SqlMoves(c, "failed", on, <<>>)
    <2>1. /\ sqlCalls[c].at = "sent"
          /\ UNCHANGED <<servers, ended, launched, db, pool, starting, content, collided>>
          /\ sqlCalls[c].on \in servers /\ Possible(h, content[sqlCalls[c].on])
               => sqlCalls[c].on \notin servers \ ended \/ h.do = "run"
          /\ h.do \in {"make log", "record"} =>
               \E a : /\ SqlMoves(c, a, sqlCalls[c].on, rest)
                      /\ a = IF rest = <<>> THEN "done" ELSE "ensure"
          /\ h.do = "run" => SqlMoves(c, "done", sqlCalls[c].on, <<>>)
          /\ h.do \notin {"make log", "record", "run"} => SqlMoves(c, "failed", sqlCalls[c].on, <<>>)
      BY <1>1, <1>2, <1>3, RefusalMoves
    <2>2. InProgress(c)
      BY <2>1 DEF InProgress
    <2> QED BY <1>4, <2>1, <2>2
  <1>6. PICK a : /\ a \in {"done", "ensure", "failed"} /\ (h.do = "run" => a = "done")
                 /\ \E t : SqlMoves(c, a, on, t)
    <2>1. CASE h.do \in {"make log", "record"}
      <3>1. PICK a : SqlMoves(c, a, on, rest) /\ a = IF rest = <<>> THEN "done" ELSE "ensure"
        BY <1>5, <2>1
      <3>2. a \in {"done", "ensure", "failed"} /\ h.do # "run"
        BY <2>1, <3>1
      <3>3. \E t : SqlMoves(c, a, on, t)
        BY <3>1, Zenon
      <3> QED BY <3>2, <3>3, Zenon
    <2>2. CASE h.do = "run"
      BY <1>5, <2>2
    <2>3. CASE h.do \notin {"make log", "record", "run"}
      <3>1. "failed" \in {"done", "ensure", "failed"} /\ h.do # "run"
        BY <2>3
      <3> QED BY <1>5, <2>3, <3>1, Zenon
    <2> QED BY <2>1, <2>2, <2>3
  <1>7. /\ sqlCalls'[c].at = a /\ sqlCalls'[c].on = on
        /\ sqlCalls'[c].alone = sqlCalls[c].alone
        /\ \A d \in SqlCalls \ {c} : sqlCalls'[d] = sqlCalls[d]
    <2>1. PICK t : SqlMoves(c, a, on, t)
      BY <1>6
    <2> QED BY <2>1 DEF SqlMoves
  <1>8. Program(c) # "stop"
    BY <1>1, <1>5, WhatIsAsked
  <1>9. Stopping' <=> Stopping
    BY <1>6, <1>7, <1>8 DEF Stopping, InProgress, Program
  <1>10. ServerHeld'
    <2>1. /\ \A d \in SqlCalls : sqlCalls'[d].at = "ended" <=> sqlCalls[d].at = "ended"
          /\ \A d \in SqlCalls : sqlCalls'[d].at = "stopped" <=> sqlCalls[d].at = "stopped"
      BY <1>5, <1>6, <1>7
    <2> QED BY <1>1, <1>5, <1>9, <2>1 DEF ServerHeld
  <1>11. ASSUME NEW d \in SqlCalls PROVE CallHeld(d)' /\ GoesOnAfterLog(d)'
    <2>1. CASE d # c
      BY <1>1, <1>5, <1>7, <2>1, CallRests
    <2>2. CASE d = c
      <3>1. sqlCalls[c].alone => a = "done"
        <4>1. SUFFICES ASSUME sqlCalls[c].alone PROVE h.do = "run"
          BY <1>6
        <4>2. /\ on \in servers \ ended
              /\ h.do # "run" => Possible(h, content[on])
          BY <1>2, <1>4, <1>5, <4>1, AloneAsks
        <4> QED BY <1>5, <4>2
      <3>2. CallHeld(c)'
        BY <1>7, <3>1 DEF CallHeld, InProgress
      <3>3. GoesOnAfterLog(c)'
        BY <1>7, <3>1 DEF GoesOnAfterLog, InProgress
      <3> QED BY <2>2, <3>2, <3>3
    <2> QED BY <2>1, <2>2
  <1>12. ASSUME NEW s \in 0..MaxServers PROVE RecordsHeld(s)'
    <2>1. CASE s \in servers /\ ~Stopping
      <3>1. s = pool /\ s \notin ended
        BY <1>1, <2>1, WhileNobodyStops
      <3>2. ASSUME on = s PROVE h.do = "run" \/ ~Possible(h, content[s])
        BY <1>5, <2>1, <3>1, <3>2
      <3>3. ASSUME NEW d \in SqlCalls, Recording(d, s)
            PROVE  Recording(d, s)'
        <4>1. d # c
          <5>1. SUFFICES ASSUME d = c PROVE FALSE
            OBVIOUS
          <5>2. on = s /\ h.do = "record" /\ MigrationLog \in content[s].tables
            BY <1>2, <1>4, <1>5, <3>3, <5>1 DEF Recording
          <5>3. Possible(h, content[s])
            BY <5>2 DEF Possible
          <5> QED BY <3>2, <5>2, <5>3
        <4> QED BY <1>5, <1>7, <3>3, <4>1, RecordingRests
      <3>4. ASSUME NEW d \in SqlCalls, Program(d) = "reset", InProgress(d), sqlCalls[d].on = s
            PROVE  InProgress(d)' /\ sqlCalls'[d].on = s
        <4>1. d # c
          <5>1. SUFFICES ASSUME d = c PROVE FALSE
            OBVIOUS
          <5>2. on = s /\ Program(c) = "reset"
            BY <1>4, <3>4, <5>1
          <5>3. h = List \/ h \in Drops
            BY <1>1, <1>2, <1>5, <5>2, WhatIsAsked
          <5>4. h.do \in {"list", "drop"}
            <6>1. List.do = "list" /\ \A x \in Drops : x.do = "drop"
              BY DEF List, Drops, Statement
            <6> QED BY <5>3, <6>1
          <5>5. Possible(h, content[s])
            BY <5>4 DEF Possible
          <5> QED BY <3>2, <5>2, <5>4, <5>5
        <4> QED BY <1>7, <3>4, <4>1 DEF InProgress
      <3> QED BY <1>1, <1>5, <1>9, <3>3, <3>4, RecordsRest
    <2>2. CASE ~(s \in servers /\ ~Stopping)
      BY <1>5, <1>9, <2>2 DEF RecordsHeld
    <2> QED BY <2>1, <2>2
  <1> QED BY <1>10, <1>11, <1>12 DEF SqlOrder

(* What an answer changes, field by field. *)
LEMMA AnswerFields ==
    ASSUME SqlCore, NEW c \in SqlCalls, NEW s, NEW h, NEW left, NEW a, NEW new,
           AnswerIs(c, s, h, left, a, new), LeftIs(c, content[s], h, left)
    PROVE  /\ sqlCalls[c].at = "sent" /\ sqlCalls[c].on = s /\ InProgress(c)
           /\ h = Head(sqlCalls[c].todo)
           /\ s \in servers /\ s \in 0..MaxServers
           /\ a = IF left = <<>> THEN "done" ELSE IF Program(c) = "reset" THEN "sent" ELSE "ensure"
           /\ sqlCalls'[c].at = a /\ sqlCalls'[c].on = s /\ sqlCalls'[c].todo = left
           /\ sqlCalls'[c].alone = sqlCalls[c].alone
           /\ \A d \in SqlCalls \ {c} : sqlCalls'[d] = sqlCalls[d]
           /\ content'[s] = new /\ \A q \in (0..MaxServers) \ {s} : content'[q] = content[q]
           /\ UNCHANGED <<servers, ended, launched, db, pool, starting, collided>>
           /\ Stopping' <=> Stopping
           /\ Program(c) # "stop"
PROOF
  <1>1. /\ sqlCalls[c].at = "sent" /\ sqlCalls[c].on = s /\ InProgress(c)
        /\ h = Head(sqlCalls[c].todo) /\ s \in servers /\ s \in 0..MaxServers
        /\ a = IF left = <<>> THEN "done" ELSE IF Program(c) = "reset" THEN "sent" ELSE "ensure"
        /\ content' = [content EXCEPT ![s] = new]
        /\ UNCHANGED <<servers, ended, launched, db, pool, starting, collided>>
    BY DEF AnswerIs, InProgress
  <1>2. /\ sqlCalls'[c].at = a /\ sqlCalls'[c].on = s /\ sqlCalls'[c].todo = left
        /\ sqlCalls'[c].alone = sqlCalls[c].alone
        /\ \A d \in SqlCalls \ {c} : sqlCalls'[d] = sqlCalls[d]
    BY DEF AnswerIs, SqlMoves
  <1>3. content'[s] = new /\ \A q \in (0..MaxServers) \ {s} : content'[q] = content[q]
    <2>1. content \in [0..MaxServers -> SqlData]
      BY DEF SqlCore, SqlTyped
    <2> QED BY <1>1, <2>1
  <1>4. Program(c) # "stop"
    BY DEF LeftIs
  <1>5. Stopping' <=> Stopping
    BY <1>2, <1>4 DEF Stopping, InProgress, Program
  <1> QED BY <1>1, <1>2, <1>3, <1>4, <1>5

(* Nothing that is not dropped is lost, and a reset drops only. *)
KeptData(c, data, h, new) ==
  /\ Program(c) # "reset" => data.tables \subseteq new.tables /\ h.do # "drop"
  /\ Program(c) \in {"query", "schema"} => new.ran = data.ran /\ new.log = data.log
  /\ h = List \/ h \in Describes => new.tables = data.tables
  /\ h \in Drops => new.tables = data.tables \ {h.name}
  /\ h \in {MakeLog, ListLog, List} => new.ran = data.ran /\ new.log = data.log
  /\ h = MakeLog => MigrationLog \in new.tables

(* Where the data are kept and the calls go on as they were, the records hold as before. *)
LEMMA NothingIsLost ==
    ASSUME NEW c \in SqlCalls, NEW data, NEW h \in SqlRequests, NEW left, NEW new,
           LeftIs(c, data, h, left), HoldsThen(data, h, new)
    PROVE  KeptData(c, data, h, new)
PROOF
  <1>1. /\ MakeLog.do = "make log" /\ ListLog.do = "list log" /\ List.do = "list"
        /\ MakeTable.do = "make"
        /\ \A x \in MigrationSteps : x.do \in {"run", "record"}
        /\ \A x \in Describes : x.do = "describe"
        /\ \A x \in Drops : x.do = "drop"
    BY DEF MakeLog, ListLog, List, MakeTable, Statement, MigrationSteps, Describes, Drops
  <1>2. /\ Program(c) # "reset" => h.do # "drop"
        /\ Program(c) \in {"query", "schema"} => h.do \in {"make", "list", "describe"}
    BY <1>1 DEF LeftIs
  <1>3. /\ h.do = "make log" => new.tables = data.tables \cup {MigrationLog}
        /\ h.do \in {"make", "run"} => new.tables = data.tables \cup {h.name}
        /\ h.do = "drop" => new.tables = data.tables \ {h.name}
        /\ h.do \notin {"make log", "make", "run", "drop"} => new.tables = data.tables
    BY DEF HoldsThen
  <1>4. /\ h.do \notin {"run", "drop"} => new.ran = data.ran
        /\ h.do \notin {"record", "drop"} => new.log = data.log
    BY DEF HoldsThen
  <1>5. h.do # "drop" => data.tables \subseteq new.tables
    BY <1>3
  <1>6. h \in {MakeLog, ListLog, List} => h.do \in {"make log", "list log", "list"}
    BY <1>1
  <1> QED BY <1>1, <1>2, <1>3, <1>4, <1>5, <1>6 DEF KeptData

(* Who is alone finds what it made and saw once it is answered. *)
LEMMA AnsweredIsHeld ==
    ASSUME SqlCore, SqlOrder, NEW c \in SqlCalls, NEW s, NEW h, NEW left, NEW a, NEW new,
           AnswerIs(c, s, h, left, a, new), LeftIs(c, content[s], h, left),
           HoldsThen(content[s], h, new)
    PROVE  CallHeld(c)'
PROOF
  <1>1. /\ sqlCalls[c].at = "sent" /\ sqlCalls[c].on = s /\ InProgress(c)
        /\ h = Head(sqlCalls[c].todo) /\ s \in 0..MaxServers
        /\ a = IF left = <<>> THEN "done" ELSE IF Program(c) = "reset" THEN "sent" ELSE "ensure"
        /\ sqlCalls'[c].at = a /\ sqlCalls'[c].on = s /\ sqlCalls'[c].todo = left
        /\ sqlCalls'[c].alone = sqlCalls[c].alone
        /\ content'[s] = new /\ pool' = pool
        /\ Program(c) # "stop"
    BY AnswerFields
  <1>2. h \in SqlRequests
    BY DEF AnswerIs
  <1>3. /\ Program(c) # "reset" => content[s].tables \subseteq new.tables
        /\ h = List \/ h \in Describes => new.tables = content[s].tables
        /\ h \in Drops => new.tables = content[s].tables \ {h.name}
        /\ h = MakeLog => MigrationLog \in new.tables
    BY <1>2, NothingIsLost DEF KeptData
  <1> SUFFICES ASSUME sqlCalls[c].alone, left # <<>>
               PROVE  CallHeld(c)'
    BY <1>1 DEF CallHeld, InProgress
  <1>4. pool = s /\ pool # Off
    BY <1>1, AloneAsks
  <1> DEFINE todo == sqlCalls[c].todo
  <1>5. /\ todo # <<>> /\ todo \in Seq(SqlRequests)
    <2>1. SqlTyped /\ SqlProgress(c)
      BY DEF SqlCore
    <2> QED BY <1>1, <2>1, WhatIsAsked
  <1>6. CallHeld(c)
    BY DEF SqlOrder
  <1>7. IsFiniteSet(content[s].tables)
    <2>1. content[s].tables \subseteq TableNames
      BY <1>1 DEF SqlCore, SqlTyped, SqlData
    <2> QED BY <2>1, Tables, FS_Subset
  <1>8. /\ Head(<<MakeLog, ListLog>>) = MakeLog /\ Head(<<List>>) = List
        /\ MakeLog # ListLog /\ MakeLog \notin MigrationSteps
        /\ List \notin Describes /\ List \notin Drops
    <2>1. \A x, y : Head(<<x, y>>) = x /\ Head(<<x>>) = x
      OBVIOUS
    <2>2. /\ MakeLog.do = "make log" /\ ListLog.do = "list log" /\ List.do = "list"
          /\ \A x \in MigrationSteps : x.do \in {"run", "record"}
          /\ \A x \in Describes : x.do = "describe"
          /\ \A x \in Drops : x.do = "drop"
      BY DEF MakeLog, ListLog, List, Statement, MigrationSteps, Describes, Drops
    <2> QED BY <2>1, <2>2
  <1>9. ASSUME Program(c) = "migrate" PROVE MigrationLog \in new.tables
    <2>1. CASE h = MakeLog
      BY <1>3, <2>1
    <2>2. CASE h # MakeLog
      <3>1. todo # <<MakeLog, ListLog>>
        BY <1>1, <1>8, <2>2
      <3>2. MigrationLog \in content[s].tables
        BY <1>1, <1>4, <1>6, <1>9, <3>1 DEF CallHeld
      <3> QED BY <1>3, <1>9, <3>2
    <2> QED BY <2>1, <2>2
  <1>10. ASSUME Program(c) = "schema"
         PROVE  \A i \in 1..Len(left) : left[i].name \in new.tables
    <2>1. CASE h = List
      <3>1. left = OfEach("describe", content[s].tables)
        BY <1>10, <2>1 DEF LeftIs
      <3> DEFINE D == [do : {"describe"}, name : content[s].tables]
      <3>2. left \in Seq(D)
        BY <1>7, <3>1, OfEachTable
      <3>3. \A x \in D : x.name \in content[s].tables
        OBVIOUS
      <3> HIDE DEF D
      <3>4. \A i \in 1..Len(left) : left[i] \in D
        BY <3>2
      <3> QED BY <1>3, <2>1, <3>3, <3>4
    <2>2. CASE h \in Describes
      <3>1. left = Tail(todo)
        BY <2>2 DEF LeftIs
      <3>2. todo # <<List>>
        BY <1>1, <1>8, <2>2
      <3>3. \A i \in 1..Len(todo) : todo[i].name \in content[s].tables
        BY <1>1, <1>4, <1>6, <1>10, <3>2 DEF CallHeld
      <3>4. \A i \in 1..Len(left) : i + 1 \in 1..Len(todo) /\ left[i] = todo[i + 1]
        BY <1>5, <3>1
      <3> QED BY <1>3, <2>2, <3>3, <3>4
    <2> QED BY <1>10, <2>1, <2>2 DEF LeftIs
  <1>11. ASSUME Program(c) = "reset", NEW t \in new.tables
         PROVE  \E i \in 1..Len(left) : left[i].name = t
    <2>1. CASE h = List
      <3>1. left = OfEach("drop", content[s].tables)
        BY <1>11, <2>1 DEF LeftIs
      <3>2. PICK T : T = content[s].tables
        OBVIOUS
      <3>3. \A x \in T : \E i \in 1..Len(OfEach("drop", T)) : OfEach("drop", T)[i].name = x
        <4>1. HasEach(OfEach("drop", T), T)
          BY <1>7, <3>2, OfEachTable
        <4> QED BY <4>1 DEF HasEach
      <3>4. left = OfEach("drop", T) /\ t \in T
        BY <1>3, <1>11, <2>1, <3>1, <3>2
      <3> QED BY <3>3, <3>4
    <2>2. CASE h \in Drops
      <3>1. left = Tail(todo)
        BY <2>2 DEF LeftIs
      <3>2. todo # <<List>>
        BY <1>1, <1>8, <2>2
      <3>3. t \in content[s].tables /\ t # h.name
        BY <1>3, <1>11, <2>2
      <3>4. PICK i \in 1..Len(todo) : todo[i].name = t
        BY <1>1, <1>6, <1>11, <3>2, <3>3 DEF CallHeld
      <3>5. h = todo[1]
        BY <1>1, <1>5
      <3>6. i - 1 \in 1..Len(left) /\ left[i - 1] = todo[i]
        BY <1>5, <3>1, <3>3, <3>4, <3>5
      <3> QED BY <3>4, <3>6
    <2> QED BY <1>11, <2>1, <2>2 DEF LeftIs
  <1>12. a \in {"sent", "ensure"} /\ (a = "sent" => Program(c) = "reset")
    BY <1>1
  <1> HIDE DEF todo
  <1> QED BY <1>1, <1>4, <1>9, <1>10, <1>11, <1>12 DEF CallHeld, Program, InProgress

(* The others find theirs as well. *)
LEMMA OthersAreHeld ==
    ASSUME SqlCore, SqlOrder, NEW c \in SqlCalls, NEW s, NEW h, NEW left, NEW a, NEW new,
           AnswerIs(c, s, h, left, a, new), LeftIs(c, content[s], h, left),
           HoldsThen(content[s], h, new), new.clean = CleanAfter(c, content[s], left),
           NEW d \in SqlCalls \ {c}
    PROVE  CallHeld(d)' /\ GoesOnAfterLog(d)'
PROOF
  <1>1. /\ sqlCalls[c].on = s /\ InProgress(c)
        /\ s \in 0..MaxServers
        /\ sqlCalls'[d] = sqlCalls[d]
        /\ content'[s] = new /\ \A q \in (0..MaxServers) \ {s} : content'[q] = content[q]
        /\ pool' = pool /\ starting' = starting
        /\ Program(c) # "stop"
    BY AnswerFields
  <1>2. CallHeld(d) /\ GoesOnAfterLog(d) /\ SqlAlone(d) /\ SqlTyped
    BY DEF SqlCore, SqlOrder
  <1>3. CASE ~(sqlCalls[d].alone /\ InProgress(d) /\ Program(d) # "stop")
    BY <1>1, <1>2, <1>3, CallRests
  <1>4. CASE sqlCalls[d].alone /\ InProgress(d) /\ Program(d) # "stop"
    <2>1. ~Meets(d, c)
      BY <1>1, <1>2, <1>4 DEF SqlAlone
    <2>2. Program(d) # "reset" /\ Program(c) # "reset"
          /\ (Program(d) = "migrate" => Program(c) # "migrate")
      BY <2>1, ProgramsMeet
    <2>3. h \in SqlRequests
      BY DEF AnswerIs
    <2>4. /\ content[s].tables \subseteq new.tables
          /\ Program(c) \in {"query", "schema"} =>
               new.ran = content[s].ran /\ new.log = content[s].log
      BY <2>2, <2>3, NothingIsLost DEF KeptData
    <2>5. pool \in 0..MaxServers
      BY <1>2, SqlNumbers
    <2>6. content[pool].tables \subseteq content'[pool].tables
      BY <1>1, <2>4, <2>5
    <2>7. CallHeld(d)'
      BY <1>1, <1>2, <1>4, <2>2, <2>6 DEF CallHeld, Program, InProgress
    <2>8. GoesOnAfterLog(d)'
      <3>1. CASE Program(d) = "migrate"
        <4>1. Program(c) \in {"query", "schema"}
          BY <1>1, <2>2, <3>1, ProgramsMeet
        <4>2. new.clean = content[s].clean
          <5>1. content[s].clean \in BOOLEAN
            BY <1>1, <1>2 DEF SqlTyped, SqlData
          <5>2. CleanAfter(c, content[s], left) = content[s].clean
            BY <4>1, <5>1 DEF CleanAfter
          <5> QED BY <5>2
        <4>3. /\ content'[pool].log = content[pool].log /\ content'[pool].ran = content[pool].ran
              /\ content'[pool].clean = content[pool].clean
          BY <1>1, <2>4, <2>5, <4>1, <4>2
        <4> QED BY <1>1, <1>2, <4>3 DEF GoesOnAfterLog, Program, InProgress
      <3>2. CASE Program(d) # "migrate"
        BY <3>2 DEF GoesOnAfterLog, Program
      <3> QED BY <3>1, <3>2
    <2> QED BY <2>7, <2>8
  <1> QED BY <1>3, <1>4

(* On a server nobody empties, a migration that is alone finds that what ran is recorded,
   unless it is itself about to record it. *)
LEMMA LogIsWhatRan ==
    ASSUME SqlCore, SqlOrder, NEW c \in SqlCalls, Program(c) = "migrate",
           sqlCalls[c].at = "sent", sqlCalls[c].alone, content[pool].clean,
           sqlCalls[c].todo = <<ListLog>> \/ sqlCalls[c].todo = <<MakeLog, ListLog>>
    PROVE  /\ content[pool].ran = content[pool].log /\ IsPrefix(content[pool].ran, Migrations)
           /\ \E k \in 0..Len(Migrations) : content[pool].log = Firsts(k)
PROOF
  <1>1. PICK h : h = Head(sqlCalls[c].todo)
    OBVIOUS
  <1>2. /\ servers = {pool} /\ ~Stopping
        /\ \A d \in SqlCalls \ {c} : InProgress(d) => ~Meets(c, d)
    BY <1>1, AloneAsks
  <1>3. SqlTyped /\ RecordsHeld(pool) /\ pool \in 0..MaxServers
    BY SqlNumbers DEF SqlCore, SqlOrder
  <1>4. \A d \in SqlCalls : InProgress(d) /\ d # c => Program(d) \notin {"reset", "migrate"}
    BY <1>2, ProgramsMeet
  <1>5. /\ content[pool].ran = content[pool].log \/ \E d \in SqlCalls : Recording(d, pool)
        /\ IsPrefix(content[pool].ran, Migrations)
    BY <1>2, <1>3, <1>4 DEF RecordsHeld
  <1>6. ASSUME NEW d \in SqlCalls, Recording(d, pool) PROVE FALSE
    <2>1. Program(d) = "migrate" /\ InProgress(d) /\ Head(sqlCalls[d].todo).do = "record"
      BY <1>6 DEF Recording, InProgress
    <2>2. d = c
      BY <1>4, <2>1
    <2>3. Head(sqlCalls[c].todo) \in {ListLog, MakeLog}
      <3>1. \A x, y : Head(<<x, y>>) = x /\ Head(<<x>>) = x
        OBVIOUS
      <3> QED BY <3>1
    <2>4. ListLog.do # "record" /\ MakeLog.do # "record"
      BY DEF ListLog, MakeLog, Statement
    <2> QED BY <2>1, <2>2, <2>3, <2>4
  <1>7. content[pool].ran \in Seq(ToSet(Migrations))
    BY <1>3 DEF SqlTyped, SqlData
  <1>8. PICK r : r = content[pool].ran
    OBVIOUS
  <1>9. Len(r) \in 0..Len(Migrations) /\ r = Firsts(Len(r))
    BY <1>5, <1>7, <1>8, PrefixIsFirst
  <1> QED BY <1>5, <1>6, <1>8, <1>9

(* A migration that is alone goes on where the log then ends. *)
LEMMA AnswerGoesOnAfterLog ==
    ASSUME SqlCore, SqlOrder, NEW c \in SqlCalls, NEW s, NEW h, NEW left, NEW a, NEW new,
           AnswerIs(c, s, h, left, a, new), LeftIs(c, content[s], h, left),
           HoldsThen(content[s], h, new), new.clean = CleanAfter(c, content[s], left)
    PROVE  GoesOnAfterLog(c)'
PROOF
  <1>1. /\ sqlCalls[c].at = "sent" /\ sqlCalls[c].on = s /\ InProgress(c)
        /\ h = Head(sqlCalls[c].todo) /\ s \in 0..MaxServers
        /\ a = IF left = <<>> THEN "done" ELSE IF Program(c) = "reset" THEN "sent" ELSE "ensure"
        /\ sqlCalls'[c].at = a /\ sqlCalls'[c].todo = left
        /\ sqlCalls'[c].alone = sqlCalls[c].alone
        /\ content'[s] = new /\ pool' = pool
    BY AnswerFields
  <1> SUFFICES ASSUME Program(c) = "migrate", sqlCalls[c].alone, left \in Seq(MigrationSteps),
                      pool = s => new.clean, left # <<>>
               PROVE  pool = s /\ \E k \in 0..(Len(Migrations) - 1), half \in {0, 1} :
                        /\ new.log = Firsts(k) /\ new.ran = Firsts(k + half)
                        /\ Left(left, k, half)
    BY <1>1 DEF GoesOnAfterLog, Program, InProgress
  <1>2. pool = s
    BY <1>1, AloneAsks
  <1>3. content[s].clean
    BY <1>2 DEF CleanAfter
  <1> DEFINE todo == sqlCalls[c].todo
             data == content[s]
             n == Len(Migrations)
  <1>4. n \in Nat
    BY SqlAssumption
  <1>5. SqlTyped /\ SqlProgress(c) /\ GoesOnAfterLog(c)
    BY DEF SqlCore, SqlOrder
  <1>6. \/ h = MakeLog
        \/ h = ListLog /\ todo = <<ListLog>>
        \/ /\ h \in MigrationSteps /\ todo \in Seq(MigrationSteps)
    BY <1>1, <1>5, WhatIsAsked
  <1>7. CASE h = MakeLog
    <2>1. left = <<ListLog>>
      BY <1>7 DEF LeftIs
    <2>2. <<ListLog>>[1] = ListLog /\ 1 \in 1..Len(<<ListLog>>)
      OBVIOUS
    <2>3. ListLog \notin MigrationSteps
      BY DEF ListLog, Statement, MigrationSteps
    <2> QED BY <2>1, <2>2, <2>3
  <1>8. CASE h = ListLog /\ todo = <<ListLog>>
    <2>1. /\ data.ran = data.log
          /\ \E k \in 0..n : data.log = Firsts(k)
      BY <1>1, <1>2, <1>3, <1>8, LogIsWhatRan
    <2>2. PICK k \in 0..n : data.log = Firsts(k)
      BY <2>1
    <2>3. left = ToMigrate(data)
      BY <1>8 DEF LeftIs
    <2>4. new.ran = data.ran /\ new.log = data.log
      <3>1. h.do \notin {"run", "record", "drop"}
        BY <1>8 DEF ListLog, Statement
      <3> QED BY <3>1 DEF HoldsThen
    <2>5. Left(left, k, 0)
      <3>1. PICK x : x = data
        OBVIOUS
      <3>2. Left(ToMigrate(x), k, 0)
        BY <2>2, <3>1, MigratesTheRest
      <3> QED BY <2>3, <3>1, <3>2
    <2>6. k # n
      <3>1. SUFFICES ASSUME k = n PROVE FALSE
        OBVIOUS
      <3>2. Len(left) = 0
        BY <1>4, <2>5, <3>1 DEF Left
      <3> QED BY <3>2
    <2>7. k \in 0..(n - 1) /\ k + 0 = k
      BY <1>4, <2>2, <2>6
    <2>8. new.log = Firsts(k) /\ new.ran = Firsts(k + 0)
      BY <2>1, <2>2, <2>4, <2>7
    <2> HIDE DEF n
    <2> QED BY <1>2, <2>5, <2>7, <2>8 DEF n
  <1>9. CASE h \in MigrationSteps /\ todo \in Seq(MigrationSteps)
    <2>1. PICK k \in 0..(n - 1), half \in {0, 1} :
            /\ data.log = Firsts(k) /\ data.ran = Firsts(k + half) /\ Left(todo, k, half)
      BY <1>1, <1>2, <1>3, <1>5, <1>9 DEF GoesOnAfterLog
    <2>2. left = Tail(todo)
      BY <1>9 DEF LeftIs
    <2>3. CASE half = 0
      <3>1. h = Statement("run", Migrations[k + 1]) /\ Left(left, k, 1)
        BY <1>1, <1>9, <2>1, <2>2, <2>3, LeftGoesOn
      <3>2. h.do = "run" /\ h.name = Migrations[k + 1]
        BY <3>1 DEF Statement
      <3>3. new.ran = Append(data.ran, Migrations[k + 1]) /\ new.log = data.log
        BY <3>2 DEF HoldsThen
      <3>4. k + 0 = k
        BY <1>4
      <3>5. new.ran = Firsts(k + 1)
        BY <2>1, <2>3, <3>3, <3>4, FirstAndNext
      <3> QED BY <1>2, <2>1, <3>1, <3>3, <3>5
    <2>4. CASE half = 1
      <3>1. h = Statement("record", Migrations[k + 1]) /\ Left(left, k + 1, 0)
            /\ k + 1 < n
        BY <1>1, <1>9, <2>1, <2>2, <2>4, LeftGoesOn
      <3>2. h.do = "record" /\ h.name = Migrations[k + 1]
        BY <3>1 DEF Statement
      <3>3. new.log = Append(data.log, Migrations[k + 1]) /\ new.ran = data.ran
        BY <3>2 DEF HoldsThen
      <3>4. new.log = Firsts(k + 1)
        BY <2>1, <3>3, FirstAndNext
      <3>5. k + 1 \in 0..(n - 1) /\ k + 1 + 0 = k + 1
        BY <1>4, <3>1
      <3>6. new.ran = Firsts(k + 1 + 0)
        BY <2>1, <2>4, <3>3, <3>5
      <3> HIDE DEF n
      <3> QED BY <1>2, <3>1, <3>4, <3>5, <3>6 DEF n
    <2> QED BY <2>1, <2>3, <2>4
  <1> QED BY <1>6, <1>7, <1>8, <1>9

(* What a reset has emptied, if it was alone, holds no migration. *)
LEMMA ResetEmpties ==
    ASSUME SqlCore, SqlOrder, NEW c \in SqlCalls, NEW s, NEW h, NEW left, NEW a, NEW new,
           AnswerIs(c, s, h, left, a, new), LeftIs(c, content[s], h, left),
           HoldsThen(content[s], h, new), Program(c) = "reset", left = <<>>, sqlCalls[c].alone
    PROVE  new.ran = <<>> /\ new.log = <<>>
PROOF
  <1>1. /\ sqlCalls[c].at = "sent" /\ sqlCalls[c].on = s /\ InProgress(c)
        /\ h = Head(sqlCalls[c].todo) /\ s \in 0..MaxServers
    BY AnswerFields
  <1>2. h \in SqlRequests
    BY DEF AnswerIs
  <1>3. /\ h = List => new.tables = content[s].tables
        /\ h \in Drops => new.tables = content[s].tables \ {h.name}
    <2>1. KeptData(c, content[s], h, new)
      BY <1>2, NothingIsLost
    <2> QED BY <2>1 DEF KeptData
  <1>4. CallHeld(c) /\ SqlTyped /\ SqlProgress(c)
    BY DEF SqlCore, SqlOrder
  <1> DEFINE todo == sqlCalls[c].todo
  <1>5. todo # <<>> /\ todo \in Seq(SqlRequests)
    BY <1>1, <1>4, WhatIsAsked
  <1>6. IsFiniteSet(content[s].tables)
    <2>1. content[s].tables \subseteq TableNames
      BY <1>1, <1>4 DEF SqlTyped, SqlData
    <2> QED BY <2>1, Tables, FS_Subset
  <1>7. new.tables = {}
    <2>1. CASE h = List
      <3>1. PICK T : T = content[s].tables
        OBVIOUS
      <3>2. OfEach("drop", T) = <<>>
        BY <2>1, <3>1 DEF LeftIs
      <3>3. IsFiniteSet(T)
        BY <1>6, <3>1
      <3>4. T = {}
        BY <3>2, <3>3, OfEachTable
      <3> QED BY <1>3, <2>1, <3>1, <3>4
    <2>2. CASE h \in Drops
      <3>1. left = Tail(todo)
        BY <2>2 DEF LeftIs
      <3>2. todo # <<List>>
        <4>1. Head(<<List>>) = List
          OBVIOUS
        <4>2. List \notin Drops
          BY DEF List, Statement, Drops
        <4> QED BY <1>1, <2>2, <4>1, <4>2
      <3>3. \A t \in content[s].tables : \E i \in 1..Len(todo) : todo[i].name = t
        BY <1>1, <1>4, <3>2 DEF CallHeld
      <3>4. \A i \in 1..Len(todo) : i = 1
        <4> HIDE DEF todo
        <4>1. \A q \in Seq(SqlRequests) : q # <<>> => Len(Tail(q)) = Len(q) - 1 /\ Len(q) \in Nat
          OBVIOUS
        <4>2. PICK m, l : m = Len(Tail(todo)) /\ l = Len(todo)
          OBVIOUS
        <4>3. m = l - 1 /\ l \in Nat
          BY <1>5, <4>1, <4>2, Zenon
        <4>4. Len(<<>>) = 0
          OBVIOUS
        <4>5. m = 0
          BY <3>1, <4>2, <4>4, Zenon
        <4>6. l = 1
          BY <4>3, <4>5
        <4>7. Len(todo) = 1
          BY <4>2, <4>6, Zenon
        <4> QED BY <4>7
      <3>5. h = todo[1]
        BY <1>1, <1>5
      <3>6. \A t \in content[s].tables : t = h.name
        BY <3>3, <3>4, <3>5
      <3> QED BY <1>3, <2>2, <3>6
    <2> QED BY <2>1, <2>2 DEF LeftIs
  <1>8. new \in SqlData /\ DataHolds(new)
    BY DEF HoldsThen
  <1>9. new.log = <<>>
    BY <1>7, <1>8 DEF DataHolds
  <1>10. new.ran = <<>>
    <2>1. ToSet(new.ran) = {} /\ new.ran \in Seq(ToSet(Migrations))
      BY <1>7, <1>8 DEF DataHolds, SqlData
    <2>2. \A i \in 1..Len(new.ran) : new.ran[i] \in ToSet(new.ran)
      BY <2>1 DEF ToSet
    <2> QED BY <2>1, <2>2
  <1> QED BY <1>9, <1>10

(* What ran is recorded once a request is answered. *)
LEMMA AnswerIsRecorded ==
    ASSUME SqlCore, SqlOrder, NEW c \in SqlCalls, NEW s, NEW h, NEW left, NEW a, NEW new,
           AnswerIs(c, s, h, left, a, new), LeftIs(c, content[s], h, left),
           HoldsThen(content[s], h, new), new.clean = CleanAfter(c, content[s], left),
           ~Stopping, new.clean,
           \A d \in SqlCalls : Program(d) = "reset" /\ InProgress(d)' => sqlCalls'[d].on # s
    PROVE  /\ new.ran = new.log \/ \E d \in SqlCalls : Recording(d, s)'
           /\ IsPrefix(new.ran, Migrations)
PROOF
  <1> DEFINE todo == sqlCalls[c].todo
             data == content[s]
             n == Len(Migrations)
  <1>1. /\ sqlCalls[c].at = "sent" /\ sqlCalls[c].on = s /\ InProgress(c)
        /\ h = Head(todo) /\ s \in servers /\ s \in 0..MaxServers
        /\ a = IF left = <<>> THEN "done" ELSE IF Program(c) = "reset" THEN "sent" ELSE "ensure"
        /\ sqlCalls'[c].at = a /\ sqlCalls'[c].on = s /\ sqlCalls'[c].todo = left
        /\ sqlCalls'[c].alone = sqlCalls[c].alone
        /\ \A d \in SqlCalls \ {c} : sqlCalls'[d] = sqlCalls[d]
        /\ content'[s] = new /\ pool' = pool
    BY AnswerFields
  <1>2. h \in SqlRequests /\ Program(c) \in {"migrate", "query", "schema", "reset"}
    BY DEF AnswerIs, LeftIs
  <1>3. SqlTyped /\ SqlProgress(c) /\ RecordsHeld(s) /\ GoesOnAfterLog(c) /\ CallHeld(c)
    BY <1>1 DEF SqlCore, SqlOrder
  <1>4. n \in Nat
    BY SqlAssumption
  <1>5. CASE Program(c) = "reset"
    <2>1. left = <<>>
      BY <1>1, <1>5 DEF InProgress
    <2>2. sqlCalls[c].alone
      BY <1>5 DEF CleanAfter
    <2>3. new.ran = <<>> /\ new.log = <<>>
      BY <1>5, <2>1, <2>2, ResetEmpties
    <2>4. IsPrefix(<<>>, Migrations)
      <3>1. 0 \in 0..Len(Migrations)
        BY <1>4
      <3>2. IsPrefix(Firsts(0), Migrations) /\ Len(Firsts(0)) = 0
            /\ Firsts(0) \in Seq(ToSet(Migrations))
        BY <3>1, FirstOnes
      <3> QED BY <3>2, EmptySeq
    <2> QED BY <2>3, <2>4
  <1>6. CASE Program(c) \in {"query", "schema"}
    <2>1. new.ran = data.ran /\ new.log = data.log /\ data.tables \subseteq new.tables
      <3>1. KeptData(c, content[s], h, new)
        BY <1>2, NothingIsLost
      <3> QED BY <1>6, <3>1 DEF KeptData
    <2>2. data.clean
      BY <1>6 DEF CleanAfter
    <2>3. \A d \in SqlCalls : Program(d) = "reset" /\ InProgress(d) => sqlCalls[d].on # s
      BY <1>1, <1>6 DEF InProgress
    <2>4. /\ data.ran = data.log \/ \E d \in SqlCalls : Recording(d, s)
          /\ IsPrefix(data.ran, Migrations)
      BY <1>1, <1>3, <2>2, <2>3 DEF RecordsHeld
    <2>5. ASSUME NEW d \in SqlCalls, Recording(d, s) PROVE Recording(d, s)'
      <3>1. d # c
        BY <1>6, <2>5 DEF Recording
      <3>2. sqlCalls'[d] = sqlCalls[d]
        BY <1>1, <3>1
      <3> QED BY <1>1, <2>1, <2>5, <3>2 DEF Recording, Program
    <2> QED BY <2>1, <2>4, <2>5
  <1>7. CASE Program(c) = "migrate"
    <2>1. sqlCalls[c].alone /\ data.clean
      BY <1>7 DEF CleanAfter
    <2>2. pool = s
      BY <1>1, <2>1, AloneAsks
    <2>3. \/ h = MakeLog /\ todo = <<MakeLog, ListLog>>
          \/ h = ListLog /\ todo = <<ListLog>>
          \/ /\ h \in MigrationSteps /\ todo \in Seq(MigrationSteps)
      BY <1>1, <1>3, <1>7, WhatIsAsked
    <2>4. CASE todo = <<ListLog>> \/ todo = <<MakeLog, ListLog>>
      <3>1. data.ran = data.log /\ IsPrefix(data.ran, Migrations)
        BY <1>1, <1>7, <2>1, <2>2, <2>4, LogIsWhatRan
      <3>2. h \in {MakeLog, ListLog, List}
        <4>1. \A x, y : Head(<<x, y>>) = x /\ Head(<<x>>) = x
          OBVIOUS
        <4> QED BY <1>1, <2>4, <4>1
      <3>3. new.ran = data.ran /\ new.log = data.log
        BY <1>2, <3>2, NothingIsLost DEF KeptData
      <3> QED BY <3>1, <3>3
    <2>5. CASE h \in MigrationSteps /\ todo \in Seq(MigrationSteps)
      <3>1. PICK k \in 0..(n - 1), half \in {0, 1} :
              /\ data.log = Firsts(k) /\ data.ran = Firsts(k + half) /\ Left(todo, k, half)
        BY <1>1, <1>3, <1>7, <2>1, <2>2, <2>5 DEF GoesOnAfterLog
      <3>2. left = Tail(todo) /\ left \in Seq(MigrationSteps)
        BY <2>5 DEF LeftIs
      <3>3. IsPrefix(Firsts(k + 1), Migrations)
        <4>1. k + 1 \in 0..Len(Migrations)
          BY <1>4, <3>1
        <4> QED BY <4>1, FirstOnes
      <3>4. CASE half = 0
        <4>1. h = Statement("run", Migrations[k + 1]) /\ left # <<>> /\ Left(left, k, 1)
          BY <1>1, <2>5, <3>1, <3>2, <3>4, LeftGoesOn
        <4>2. Head(left) = Statement("record", Migrations[k + 1])
          BY <3>1, <3>2, <4>1, LeftGoesOn
        <4>3. h.do = "run" /\ h.name = Migrations[k + 1]
          BY <4>1 DEF Statement
        <4>4. Head(left).do = "record" /\ Head(left).name = Migrations[k + 1]
          BY <4>2 DEF Statement
        <4>5. new.ran = Append(data.ran, Migrations[k + 1]) /\ new.log = data.log
          BY <4>3 DEF HoldsThen
        <4>6. data.ran = data.log /\ data.ran = Firsts(k)
          <5>1. k + 0 = k
            BY <1>4
          <5> QED BY <3>1, <3>4, <5>1
        <4>7. IsPrefix(new.ran, Migrations)
          BY <3>1, <3>3, <4>5, <4>6, FirstAndNext
        <4>8. MigrationLog \in new.tables
          <5>1. todo # <<MakeLog, ListLog>>
            <6>1. Head(<<MakeLog, ListLog>>) = MakeLog
              OBVIOUS
            <6>2. MakeLog \notin MigrationSteps
              BY DEF MakeLog, Statement, MigrationSteps
            <6> QED BY <1>1, <2>5, <6>1, <6>2
          <5>2. MigrationLog \in data.tables
            BY <1>1, <1>3, <1>7, <2>1, <2>2, <5>1 DEF CallHeld
          <5> QED BY <1>2, <1>7, <5>2, NothingIsLost DEF KeptData
        <4>9. a = "ensure"
          BY <1>1, <1>7, <4>1
        <4>10. Recording(c, s)'
          BY <1>1, <1>7, <4>1, <4>4, <4>5, <4>6, <4>8, <4>9 DEF Recording, Program
        <4> QED BY <4>7, <4>10
      <3>5. CASE half = 1
        <4>1. h = Statement("record", Migrations[k + 1])
          BY <1>1, <2>5, <3>1, <3>5, LeftGoesOn
        <4>2. h.do = "record" /\ h.name = Migrations[k + 1]
          BY <4>1 DEF Statement
        <4>3. new.log = Append(data.log, Migrations[k + 1]) /\ new.ran = data.ran
          BY <4>2 DEF HoldsThen
        <4>4. new.log = Firsts(k + 1) /\ new.ran = Firsts(k + 1)
          BY <3>1, <3>5, <4>3, FirstAndNext
        <4> QED BY <3>3, <4>4
      <3> QED BY <3>1, <3>4, <3>5
    <2> QED BY <2>3, <2>4, <2>5
  <1> QED BY <1>2, <1>5, <1>6, <1>7

(* An answered request keeps the order: what ran is what is recorded next. *)
LEMMA AnswerKeepsOrder ==
    ASSUME SqlCore, SqlOrder, NEW c \in SqlCalls, Answered(c)
    PROVE  SqlOrder'
PROOF
  <1>1. PICK s, h, left, a, new :
          /\ AnswerIs(c, s, h, left, a, new) /\ LeftIs(c, content[s], h, left)
          /\ HoldsThen(content[s], h, new)
          /\ new.clean = CleanAfter(c, content[s], left)
    BY AnswerGives
  <1>2. /\ sqlCalls[c].at = "sent" /\ s \in servers /\ s \in 0..MaxServers
        /\ a = IF left = <<>> THEN "done" ELSE IF Program(c) = "reset" THEN "sent" ELSE "ensure"
        /\ sqlCalls'[c].at = a
        /\ \A d \in SqlCalls \ {c} : sqlCalls'[d] = sqlCalls[d]
        /\ content'[s] = new
        /\ UNCHANGED <<servers, ended, launched, db, pool, starting, collided>>
        /\ Stopping' <=> Stopping
    BY <1>1, AnswerFields
  <1>3. ServerHeld
    BY DEF SqlOrder
  <1>4. ServerHeld'
    <2>1. /\ \A d \in SqlCalls : sqlCalls'[d].at = "ended" <=> sqlCalls[d].at = "ended"
          /\ \A d \in SqlCalls : sqlCalls'[d].at = "stopped" <=> sqlCalls[d].at = "stopped"
      BY <1>2
    <2> QED BY <1>2, <1>3, <2>1 DEF ServerHeld
  <1>5. ASSUME NEW d \in SqlCalls PROVE CallHeld(d)' /\ GoesOnAfterLog(d)'
    <2>1. CASE d = c
      BY <1>1, <2>1, AnsweredIsHeld, AnswerGoesOnAfterLog
    <2>2. CASE d # c
      BY <1>1, <2>2, OthersAreHeld
    <2> QED BY <2>1, <2>2
  <1>6. ASSUME NEW q \in 0..MaxServers PROVE RecordsHeld(q)'
    <2> SUFFICES ASSUME q \in servers, content'[q].clean, ~Stopping,
                        \A d \in SqlCalls : Program(d) = "reset" /\ InProgress(d)'
                          => sqlCalls'[d].on # q
                 PROVE  /\ content'[q].ran = content'[q].log \/ \E d \in SqlCalls : Recording(d, q)'
                        /\ IsPrefix(content'[q].ran, Migrations)
      BY <1>2 DEF RecordsHeld, Program
    <2>1. q = s
      BY <1>2, <1>3, WhileNobodyStops
    <2> QED BY <1>1, <1>2, <2>1, AnswerIsRecorded
  <1> QED BY <1>4, <1>5, <1>6 DEF SqlOrder

(* The invariant holds at the start, and every step keeps it. *)
LEMMA SqlInitInv == SqlInit => SqlInv
PROOF
  <1> SUFFICES ASSUME SqlInit PROVE SqlInv
    OBVIOUS
  <1>1. /\ servers = {} /\ ended = {} /\ launched = 0 /\ db = 0 /\ pool = 0 /\ starting = "null"
        /\ content = [s \in Off..MaxServers |->
                       [tables |-> {}, log |-> <<>>, ran |-> <<>>, clean |-> TRUE]]
        /\ sqlCalls = [c \in SqlCalls |->
                        [at |-> "free", on |-> Off, todo |-> <<>>, alone |-> TRUE]]
    BY DEF SqlInit, Off
  <1>2. /\ \A c \in SqlCalls : /\ sqlCalls[c].at = "free" /\ sqlCalls[c].on = 0
                               /\ sqlCalls[c].todo = <<>> /\ sqlCalls[c].alone
        /\ \A s \in 0..MaxServers : /\ content[s].tables = {} /\ content[s].ran = <<>>
                                    /\ content[s].log = <<>>
    BY <1>1 DEF Off
  <1>3. SqlTyped
    <2>1. content \in [0..MaxServers -> SqlData]
      <3>1. <<>> \in Seq(ToSet(Migrations))
        BY EmptySeq
      <3>2. [tables |-> {}, log |-> <<>>, ran |-> <<>>, clean |-> TRUE] \in SqlData
        BY <3>1 DEF SqlData
      <3> QED BY <1>1, <3>2 DEF Off
    <2>2. sqlCalls \in [SqlCalls -> SqlRecord]
      <3>1. <<>> \in Seq(SqlRequests)
        BY EmptySeq
      <3>2. [at |-> "free", on |-> Off, todo |-> <<>>, alone |-> TRUE] \in SqlRecord
        BY <3>1, SqlAssumption DEF SqlRecord, SqlStates, Off
      <3> QED BY <1>1, <3>2
    <2>3. MaxServers \in Nat
      BY SqlAssumption
    <2>4. /\ launched \in 0..MaxServers /\ servers \subseteq 1..launched
          /\ ended \subseteq 1..launched /\ db \in 0..launched /\ pool \in 0..launched
          /\ starting \in {"null", "pending", "connected", "rejected"}
      BY <1>1, <2>3
    <2> QED BY <2>1, <2>2, <2>4 DEF SqlTyped
  <1>4. \A c \in SqlCalls : SqlProgress(c) /\ SqlAlone(c) /\ QueryHeld(c)
    BY <1>2 DEF SqlProgress, SqlAlone, QueryHeld, InProgress
  <1>5. \A s \in 0..MaxServers : DataHeld(s)
    <2>1. ToSet(<<>>) = {}
      BY DEF ToSet
    <2> QED BY <1>2, <2>1 DEF DataHeld, DataHolds
  <1>6. ~Stopping
    BY <1>2 DEF Stopping, InProgress
  <1>7. ServerHeld
    BY <1>1, <1>2, <1>6 DEF ServerHeld, Off
  <1>8. \A c \in SqlCalls : CallHeld(c) /\ GoesOnAfterLog(c)
    BY <1>2 DEF CallHeld, GoesOnAfterLog, InProgress
  <1>9. \A s \in 0..MaxServers : RecordsHeld(s)
    BY <1>1 DEF RecordsHeld
  <1> QED BY <1>3, <1>4, <1>5, <1>7, <1>8, <1>9 DEF SqlInv, SqlCore, SqlOrder

(* Every step of the server and of its programs keeps the invariant. *)
LEMMA SqlStepInv == SqlInv /\ [SqlNext]_sqVars => SqlInv'
PROOF
  <1> SUFFICES ASSUME SqlInv, [SqlNext]_sqVars PROVE SqlInv'
    OBVIOUS
  <1>1. CASE UNCHANGED sqVars
    <2>1. UNCHANGED <<servers, ended, launched, db, pool, starting, content, sqlCalls, collided>>
      BY <1>1 DEF sqVars
    <2>2. SqlTyped' <=> SqlTyped
      BY <2>1 DEF SqlTyped
    <2>3. ASSUME NEW c \in SqlCalls PROVE InProgress(c)' <=> InProgress(c)
      BY <2>1 DEF InProgress
    <2>4. Stopping' <=> Stopping
      BY <2>3 DEF Stopping, Program
    <2>5. ASSUME NEW c \in SqlCalls
          PROVE  /\ SqlProgress(c)' <=> SqlProgress(c)
                 /\ SqlAlone(c)' <=> SqlAlone(c)
                 /\ QueryHeld(c)' <=> QueryHeld(c)
      <3>1. SqlProgress(c)' <=> SqlProgress(c)
        BY <2>1, <2>3 DEF SqlProgress, Program
      <3>2. SqlAlone(c)' <=> SqlAlone(c)
        BY <2>1, <2>3 DEF SqlAlone, Meets, Program
      <3>3. QueryHeld(c)' <=> QueryHeld(c)
        BY <2>1 DEF QueryHeld, Program
      <3> QED BY <3>1, <3>2, <3>3
    <2>6. ASSUME NEW s \in 0..MaxServers PROVE DataHeld(s)' <=> DataHeld(s)
      BY <2>1 DEF DataHeld
    <2>7. SqlCore' <=> SqlCore
      BY <2>2, <2>5, <2>6 DEF SqlCore
    <2>8. ServerHeld' <=> ServerHeld
      BY <2>1, <2>4 DEF ServerHeld
    <2>9. ASSUME NEW c \in SqlCalls
          PROVE  (CallHeld(c)' <=> CallHeld(c)) /\ (GoesOnAfterLog(c)' <=> GoesOnAfterLog(c))
      <3>1. CallHeld(c)' <=> CallHeld(c)
        BY <2>1, <2>3 DEF CallHeld, Program
      <3>2. GoesOnAfterLog(c)' <=> GoesOnAfterLog(c)
        BY <2>1, <2>3 DEF GoesOnAfterLog, Program
      <3> QED BY <3>1, <3>2
    <2>10. ASSUME NEW s \in 0..MaxServers PROVE RecordsHeld(s)' <=> RecordsHeld(s)
      <3>1. ASSUME NEW c \in SqlCalls PROVE Recording(c, s)' <=> Recording(c, s)
        BY <2>1 DEF Recording, Program
      <3> QED BY <2>1, <2>3, <2>4, <3>1 DEF RecordsHeld, Program
    <2>11. SqlOrder' <=> SqlOrder
      BY <2>8, <2>9, <2>10 DEF SqlOrder
    <2> QED BY <2>1, <2>7, <2>11 DEF SqlInv
  <1>2. CASE SqlNext
    <2>1. SqlCore /\ (~collided => SqlOrder) /\ (collided => collided')
      <3>1. SqlCore /\ (~collided => SqlOrder)
        BY DEF SqlInv
      <3>2. collided => collided'
        BY <1>2 DEF SqlNext, BeginSql, Ensure, Answered, Refused, BeginSqlReset, BeginSqlStop,
                    PoolEnds, ServerStops, StopReturns, Create, StartFails, Started
      <3> QED BY <3>1, <3>2
    <2>2. CASE \E c \in SqlCalls : BeginSql(c) \/ BeginSqlReset(c)
      BY <2>1, <2>2, BeginSqlKeepsCore, BeginKeepsOrder DEF SqlInv
    <2>3. CASE \E c \in SqlCalls : BeginSqlStop(c)
      BY <2>1, <2>3, BeginSqlKeepsCore, BeginSqlStopKeepsOrder DEF SqlInv
    <2>4. CASE \E c \in SqlCalls : Ensure(c)
      BY <2>1, <2>4, EnsureKeepsCore, EnsureKeepsOrder DEF SqlInv
    <2>5. CASE \E c \in SqlCalls : Answered(c)
      BY <2>1, <2>5, AnswerKeepsCore, AnswerKeepsOrder DEF SqlInv
    <2>6. CASE \E c \in SqlCalls : Refused(c)
      BY <2>1, <2>6, RefusalKeepsCore, RefusalKeepsOrder DEF SqlInv
    <2>7. CASE \E c \in SqlCalls : PoolEnds(c) \/ ServerStops(c) \/ StopReturns(c)
      BY <2>1, <2>7, StoppingKeepsCore, StoppingKeepsOrder DEF SqlInv
    <2>8. CASE Create
      BY <2>1, <2>8, CreateKeepsCore, CreateKeepsOrder DEF SqlInv
    <2>9. CASE StartFails \/ Started
      BY <2>1, <2>9, StartEndsKeepsCore, StartEndsKeepsOrder DEF SqlInv
    <2> QED BY <1>2, <2>2, <2>3, <2>4, <2>5, <2>6, <2>7, <2>8, <2>9 DEF SqlNext
  <1> QED BY <1>1, <1>2

(* What the invariant says of the servers and of the log. *)
LEMMA SqlInvHolds == SqlInv => DatabaseHolds
PROOF
  <1> SUFFICES ASSUME SqlInv, ~collided PROVE DatabaseHolds
    BY DEF DatabaseHolds, MigrationsAreRecorded, OneServer
  <1>1. SqlCore /\ SqlOrder
    BY DEF SqlInv
  <1>2. /\ SqlTyped /\ ServerHeld
        /\ \A c \in SqlCalls : CallHeld(c)
        /\ \A s \in 0..MaxServers : RecordsHeld(s)
    BY <1>1 DEF SqlCore, SqlOrder
  <1>3. ASSUME NEW s \in servers, content[s].clean,
               \A c \in SqlCalls : InProgress(c) => Program(c) \notin {"reset", "stop"}
        PROVE  /\ \/ content[s].ran = content[s].log
                  \/ \E c \in SqlCalls :
                       /\ sqlCalls[c].at \in {"ensure", "sent"}
                       /\ content[s].ran = Append(content[s].log, Head(sqlCalls[c].todo).name)
               /\ IsPrefix(content[s].ran, Migrations)
    <2>1. s \in 0..MaxServers /\ ~Stopping
      BY <1>2, <1>3, SqlNumbers DEF Stopping
    <2>2. /\ content[s].ran = content[s].log \/ \E c \in SqlCalls : Recording(c, s)
          /\ IsPrefix(content[s].ran, Migrations)
      BY <1>2, <1>3, <2>1 DEF RecordsHeld
    <2> QED BY <2>2 DEF Recording
  <1>4. MigrationsAreRecorded
    BY <1>3 DEF MigrationsAreRecorded
  <1>5. Cardinality(servers) <= 1
    <2>1. servers \subseteq {db}
      BY <1>2 DEF ServerHeld
    <2>2. Cardinality({db}) = 1 /\ IsFiniteSet({db})
      BY FS_Singleton
    <2>3. Cardinality(servers) <= Cardinality({db})
      BY <2>1, <2>2, FS_Subset
    <2> QED BY <2>2, <2>3
  <1>6. ~Stopping /\ db = Off => servers = {}
    <2>1. servers \subseteq {db} /\ servers \subseteq 1..launched
      BY <1>2 DEF ServerHeld, SqlTyped
    <2> QED BY <2>1 DEF Off
  <1>7. (\E c \in SqlCalls : sqlCalls[c].at = "failed" /\ sqlCalls[c].alone)
          => starting = "rejected"
    BY <1>2 DEF CallHeld
  <1>8. OneServer
    BY <1>5, <1>6, <1>7 DEF OneServer
  <1> QED BY <1>4, <1>8 DEF DatabaseHolds

(* Any programs and migrations, as long as no stop() met a start: on a server that no
   overlap has disturbed, what the migrations ran is what their log says, but for the one
   that is about to be recorded, in the order of the list; however many calls find no
   server there is one at most, none is left by a stop(), and a call that nothing disturbed
   fails only if the start did (forge-sql.ts, forge_sql_migrate). *)
THEOREM DatabaseIsHeld == SqlSpec => []DatabaseHolds
PROOF
  <1>1. SqlInit => SqlInv
    BY SqlInitInv
  <1>2. SqlInv /\ [SqlNext]_sqVars => SqlInv'
    BY SqlStepInv
  <1>3. SqlInv => DatabaseHolds
    BY SqlInvHolds
  <1> QED BY <1>1, <1>2, <1>3, PTL DEF SqlSpec

-----------------------------------------------------------------------------
(* Translations *)

AppDirs == Speaking \cup {NoDir}
Texts == Speaking \cup {NoText, Override}
TextAnswers == [locale : Locales, text : Texts, of : Nat, sound : BOOLEAN]
ChangeRecords == [app : AppDirs, set : Seq(Locales)]
LookupStates == {"new", "try", "read", "configure", "readInfo", "tryNext", "readNext", "done"}
LookupRecords == [at : LookupStates, wants : {"function", "translations", "exact"}, locale : Locales,
         rest : Seq(Locales), file : AppDirs, from : Nat, answer : TextAnswers]

TranslationsTyped ==
  /\ dir \in AppDirs /\ info \in AppDirs
  /\ resources \in [Locales -> Speaking \cup {NoText}]
  /\ overrides \in Seq(Locales)
  /\ functions \in [Locales -> TextAnswers]
  /\ lookups \in [Lookups -> LookupRecords]
  /\ changes \in Seq(ChangeRecords)
  /\ mixed \in BOOLEAN

(* What is cached is the app's, unless it was read from one of before. *)
CacheHolds ==
  ~mixed => /\ info \in {NoDir, dir}
            /\ \A l \in Locales : resources[l] # NoText =>
                 resources[l] = dir /\ dir # NoDir /\ l \in FilesOf[dir]

(* An answer that is sound says what there was after its change, of the changes ch. *)
SaysWell(answer, wants, l, ch) ==
  answer.sound => /\ answer.of \in 1..Len(ch)
                  /\ <<answer.locale, answer.text>> = Expected(ch[answer.of], wants, l)

(* No change has overtaken the lookup, and the cache is that of one app. *)
IsCurrent(ask, ch, stale) == ask.from = Len(ch) /\ ~stale

(* A lookup that is current has found no text before what is left of its chain. *)
OnItsWay(ask, ch, stale) ==
  LET c == ch[Len(ch)] IN
  /\ ask.at \in {"try", "read"} => ask.rest = <<ask.locale>>
  /\ ask.at \in {"tryNext", "readNext"} => ask.rest # <<>> /\ ask.wants # "exact"
  /\ ask.at \in {"configure", "readInfo"} => ask.wants # "exact"
  /\ ask.at \in {"read", "readNext", "readInfo"} => ask.file # NoDir
  /\ ask.at \notin {"new", "done"} => ask.from \in 1..Len(ch)
  /\ ask.at \in {"read", "readNext", "readInfo"} /\ ask.from = Len(ch) => ask.file = c.app
  /\ ask.at \notin {"new", "done"} /\ IsCurrent(ask, ch, stale) =>
       /\ ask.at \in {"read", "readNext"} => Head(ask.rest) \notin ToSet(c.set)
       /\ ask.at \in {"configure", "readInfo"} => TextOf(c, ask.locale) = NoText
       /\ ask.at \in {"tryNext", "readNext"} =>
            FirstText(c, ask.rest, ask.locale) = Expected(c, ask.wants, ask.locale)
  /\ ask.at = "done" => SaysWell(ask.answer, ask.wants, ask.locale, ch)

TranslationsInv ==
  /\ TranslationsTyped /\ CacheHolds
  /\ Len(changes) > 0 /\ changes[Len(changes)] = [app |-> dir, set |-> overrides]
  /\ \A l \in Locales : SaysWell(functions[l], "function", l, changes)
  /\ \A a \in Lookups : OnItsWay(lookups[a], changes, mixed)

(* The first text of a chain is in its first locale, or is that of the rest. *)
LEMMA FirstOfChain ==
    ASSUME NEW c, NEW s \in Seq(Locales), NEW l
    PROVE  /\ s = <<>> => FirstText(c, s, l) = <<l, NoText>>
           /\ s # <<>> /\ TextOf(c, Head(s)) # NoText =>
                FirstText(c, s, l) = <<Head(s), TextOf(c, Head(s))>>
           /\ s # <<>> /\ TextOf(c, Head(s)) = NoText =>
                FirstText(c, s, l) = FirstText(c, Tail(s), l)
PROOF
  <1> DEFINE H(t) == {i \in DOMAIN t : TextOf(c, t[i]) # NoText}
  <1>1. Len(s) \in Nat /\ DOMAIN s = 1..Len(s)
    OBVIOUS
  <1>2. ASSUME s = <<>> PROVE FirstText(c, s, l) = <<l, NoText>>
    <2>1. H(s) = {}
      BY <1>2
    <2> QED BY <2>1 DEF FirstText
  <1>3. ASSUME s # <<>>
        PROVE  /\ Tail(s) \in Seq(Locales) /\ Len(Tail(s)) = Len(s) - 1 /\ Len(s) > 0
               /\ \A i \in 1..(Len(s) - 1) : Tail(s)[i] = s[i + 1]
               /\ Head(s) = s[1] /\ DOMAIN Tail(s) = 1..(Len(s) - 1)
    BY <1>3, HeadTailProperties
  <1>4. ASSUME s # <<>>, TextOf(c, Head(s)) # NoText
        PROVE  FirstText(c, s, l) = <<Head(s), TextOf(c, Head(s))>>
    <2>1. 1 \in H(s) /\ \A i \in H(s) : 1 <= i /\ i \in Int
      BY <1>1, <1>3, <1>4
    <2>2. Min(H(s)) = 1
      <3> HIDE DEF H
      <3> QED BY <2>1 DEF Min
    <2>3. FirstText(c, s, l) = <<s[Min(H(s))], TextOf(c, s[Min(H(s))])>>
      BY <2>1 DEF FirstText
    <2> QED BY <1>3, <1>4, <2>2, <2>3
  <1>5. ASSUME s # <<>>, TextOf(c, Head(s)) = NoText
        PROVE  FirstText(c, s, l) = FirstText(c, Tail(s), l)
    <2> DEFINE t == Tail(s)
    <2>1. \A i \in 1..(Len(s) - 1) : i \in H(t) <=> i + 1 \in H(s)
      BY <1>1, <1>3, <1>5
    <2>2. \A i \in H(s) : i - 1 \in 1..(Len(s) - 1) /\ (i - 1) + 1 = i
      BY <1>1, <1>3, <1>5
    <2>3. \A i \in H(t) : i \in 1..(Len(s) - 1)
      BY <1>3, <1>5
    <2>4. H(s) \in SUBSET (1..Len(s))
      BY <1>1
    <2>5. CASE H(s) = {}
      <3>1. H(t) = {}
        <4> HIDE DEF H, t
        <4> QED BY <2>1, <2>3, <2>5
      <3> QED BY <2>5, <3>1 DEF FirstText
    <2>6. CASE H(s) # {}
      <3>1. PICK k \in H(s) : \A j \in H(s) : k <= j
        <4> HIDE DEF H
        <4> QED BY <1>1, <2>4, <2>6, FirstPlace
      <3>2. k \in Int /\ Min(H(s)) = k
        <4> HIDE DEF H
        <4>1. \A i \in H(s) : i \in Int
          BY <2>4
        <4> QED BY <3>1, <4>1 DEF Min
      <3>3. k - 1 \in H(t) /\ \A j \in H(t) : k - 1 <= j /\ j \in Int
        <4> HIDE DEF H, t
        <4>1. k - 1 \in H(t)
          BY <2>1, <2>2, <3>1
        <4>2. ASSUME NEW j \in H(t) PROVE k - 1 <= j /\ j \in Int
          <5>1. j \in 1..(Len(s) - 1) /\ j + 1 \in H(s)
            BY <2>1, <2>3, <4>2
          <5> QED BY <3>1, <3>2, <5>1
        <4> QED BY <4>1, <4>2
      <3>4. Min(H(t)) = k - 1
        <4> HIDE DEF H, t
        <4>1. k - 1 \in Int
          BY <3>2
        <4> QED BY <3>3, <4>1, MinIs
      <3>5. t[k - 1] = s[k]
        BY <1>3, <1>5, <2>2, <3>1
      <3>6. FirstText(c, s, l) = <<s[Min(H(s))], TextOf(c, s[Min(H(s))])>>
        BY <2>6 DEF FirstText
      <3>7. FirstText(c, t, l) = <<t[Min(H(t))], TextOf(c, t[Min(H(t))])>>
        BY <3>3 DEF FirstText
      <3> QED BY <3>2, <3>4, <3>5, <3>6, <3>7
    <2> QED BY <2>5, <2>6
  <1> QED BY <1>2, <1>4, <1>5

(* A last locale that has no text makes no difference. *)
LEMMA LastOfChain ==
    ASSUME NEW c, NEW s \in Seq(Locales), NEW l, NEW x \in Locales, TextOf(c, x) = NoText
    PROVE  FirstText(c, Append(s, x), l) = FirstText(c, s, l)
PROOF
  <1> DEFINE H(t) == {i \in DOMAIN t : TextOf(c, t[i]) # NoText}
             u == Append(s, x)
  <1>1. /\ DOMAIN u = 1..(Len(s) + 1) /\ DOMAIN s = 1..Len(s) /\ Len(s) \in Nat
        /\ u[Len(s) + 1] = x /\ \A i \in 1..Len(s) : u[i] = s[i]
    BY AppendProperties
  <1>2. H(u) = H(s)
    BY <1>1
  <1>3. \A i \in H(s) : u[i] = s[i]
    BY <1>1
  <1>4. H(s) # {} => Min(H(s)) \in H(s)
    <2> SUFFICES ASSUME H(s) # {} PROVE Min(H(s)) \in H(s)
      OBVIOUS
    <2>1. H(s) \in SUBSET (1..Len(s))
      BY <1>1
    <2> HIDE DEF H
    <2>2. PICK k \in H(s) : \A j \in H(s) : k <= j
      BY <1>1, <2>1, FirstPlace
    <2> QED BY <2>2 DEF Min
  <1>5. H(u) = {} => FirstText(c, u, l) = <<l, NoText>>
    BY DEF FirstText
  <1>6. H(u) # {} => FirstText(c, u, l) = <<u[Min(H(u))], TextOf(c, u[Min(H(u))])>>
    BY DEF FirstText
  <1>7. H(s) = {} => FirstText(c, s, l) = <<l, NoText>>
    BY DEF FirstText
  <1>8. H(s) # {} => FirstText(c, s, l) = <<s[Min(H(s))], TextOf(c, s[Min(H(s))])>>
    BY DEF FirstText
  <1> HIDE DEF H, u
  <1>9. FirstText(c, u, l) = FirstText(c, s, l)
    BY <1>2, <1>3, <1>4, <1>5, <1>6, <1>7, <1>8
  <1> QED BY <1>9 DEF u

(* What has no text after the locale itself is found among its fallbacks and the default. *)
LEMMA ChainIsExpected ==
    ASSUME TranslationsTyped, NEW l \in Locales, NEW wants, wants # "exact",
           NEW c, c = [app |-> dir, set |-> overrides], TextOf(c, l) = NoText
    PROVE  /\ Chain(dir, l) \in Seq(Locales)
           /\ FirstText(c, Chain(dir, l), l) = Expected(c, wants, l)
PROOF
  <1> DEFINE fallbacks == IF dir = NoDir THEN <<>> ELSE FallbacksOf[dir][l]
             default == Default(dir)
  <1>1. fallbacks \in Seq(Locales) /\ default \in Locales
    <2>1. dir = NoDir \/ dir \in Speaking
      BY DEF TranslationsTyped, AppDirs
    <2>2. dir # NoDir => FallbacksOf[dir][l] \in Seq(Locales)
      BY <2>1, FilesAssumption
    <2>3. overrides # <<>> => Head(overrides) \in Locales
      BY HeadTailProperties DEF TranslationsTyped
    <2>4. <<>> \in Seq(Locales)
      BY EmptySeq
    <2> QED BY <2>2, <2>3, <2>4, FilesAssumption DEF Default
  <1>2. /\ c.app = dir /\ c.set = overrides
        /\ Expected(c, wants, l) = FirstText(c, <<l>> \o Append(fallbacks, default), l)
    BY DEF Expected, Default
  <1>3. Chain(dir, l) = IF l = default THEN fallbacks ELSE Append(fallbacks, default)
    BY DEF Chain, DefaultLast
  <1> HIDE DEF fallbacks, default
  <1> DEFINE t == Append(fallbacks, default)
             s == <<l>> \o t
  <1>4. t \in Seq(Locales)
    BY <1>1, AppendProperties
  <1> HIDE DEF t
  <1>6. s \in Seq(Locales) /\ s # <<>> /\ Head(s) = l /\ Tail(s) = t
    BY <1>4, OneBefore
  <1> HIDE DEF s
  <1>8. Expected(c, wants, l) = FirstText(c, t, l)
    BY <1>2, <1>6, FirstOfChain DEF s, t
  <1>9. l = default => FirstText(c, t, l) = FirstText(c, fallbacks, l)
    BY <1>1, LastOfChain DEF t
  <1> QED BY <1>1, <1>3, <1>4, <1>8, <1>9 DEF t

(* A change overtakes every lookup, and what was answered before stays. *)
LEMMA ChangesOvertake ==
    ASSUME NEW ch \in Seq(ChangeRecords), NEW c \in ChangeRecords,
           NEW stale, NEW stale2
    PROVE  /\ \A answer, wants, l : SaysWell(answer, wants, l, ch) =>
                                    SaysWell(answer, wants, l, Append(ch, c))
           /\ \A ask : OnItsWay(ask, ch, stale) => OnItsWay(ask, Append(ch, c), stale2)
PROOF
  <1> DEFINE n == Len(ch)
             d == Append(ch, c)
  <1>1. n \in Nat /\ Len(d) = n + 1 /\ \A i \in 1..n : d[i] = ch[i]
    BY AppendProperties
  <1> HIDE DEF n, d
  <1>2. ASSUME NEW answer, NEW wants, NEW l, SaysWell(answer, wants, l, ch)
        PROVE  SaysWell(answer, wants, l, d)
    BY <1>1, <1>2 DEF SaysWell, n
  <1>3. ASSUME NEW ask, OnItsWay(ask, ch, stale) PROVE OnItsWay(ask, d, stale2)
    <2>1. ask.at = "done" => SaysWell(ask.answer, ask.wants, ask.locale, d)
      BY <1>2, <1>3 DEF OnItsWay
    <2>2. ask.at \notin {"new", "done"} => ask.from \in 1..Len(d) /\ ask.from # Len(d)
      <3>1. ask.at \notin {"new", "done"} => ask.from \in 1..n
        BY <1>3 DEF OnItsWay, n
      <3> QED BY <1>1, <3>1
    <2> QED BY <1>3, <2>1, <2>2 DEF OnItsWay, IsCurrent
  <1> QED BY <1>2, <1>3 DEF d

(* The cache of a lookup's answers grows stale only. *)
LEMMA StaleKeepsWay ==
    ASSUME NEW ask, NEW ch, NEW stale, NEW stale2, stale => stale2, OnItsWay(ask, ch, stale)
    PROVE  OnItsWay(ask, ch, stale2)
BY DEF OnItsWay, IsCurrent

(* A step that changes what there is. *)
LEMMA ChangeKeepsTexts ==
    ASSUME TranslationsInv, TranslationsTyped', CacheHolds',
           changes' = Append(changes, [app |-> dir', set |-> overrides']),
           lookups' = lookups,
           \/ functions' = functions
           \/ functions' = [l \in Locales |-> NoAnswer]
    PROVE  TranslationsInv'
PROOF
  <1> DEFINE c == [app |-> dir', set |-> overrides']
  <1>1. c \in ChangeRecords /\ changes \in Seq(ChangeRecords)
    BY DEF TranslationsTyped, TranslationsInv, ChangeRecords
  <1>2. Len(changes') > 0 /\ changes'[Len(changes')] = c
    BY <1>1, AppendProperties
  <1> HIDE DEF c
  <1>3. \A answer, wants, l : SaysWell(answer, wants, l, changes) =>
                                SaysWell(answer, wants, l, changes')
    BY <1>1, ChangesOvertake DEF c
  <1>4. \A ask : OnItsWay(ask, changes, mixed) => OnItsWay(ask, changes', mixed')
    BY <1>1, ChangesOvertake DEF c
  <1>5. ASSUME NEW l \in Locales PROVE SaysWell(functions'[l], "function", l, changes')
    <2>1. CASE functions' = functions
      BY <1>3, <2>1 DEF TranslationsInv
    <2>2. CASE functions' = [x \in Locales |-> NoAnswer]
      BY <2>2 DEF NoAnswer, SaysWell
    <2> QED BY <2>1, <2>2
  <1>6. \A a \in Lookups : OnItsWay(lookups'[a], changes', mixed')
    BY <1>4 DEF TranslationsInv
  <1> QED BY <1>2, <1>5, <1>6 DEF TranslationsInv, c

(* A step of one lookup. *)
StepOf(a) ==
  /\ \E r \in LookupRecords : lookups' = [lookups EXCEPT ![a] = r]
                             /\ OnItsWay(r, changes, mixed)
  /\ functions' \in [Locales -> TextAnswers]
  /\ \A l \in Locales : SaysWell(functions'[l], "function", l, changes)

(* A lookup that takes such a step keeps the invariant. *)
LEMMA StepKeepsTexts ==
    ASSUME TranslationsInv, NEW a \in Lookups, StepOf(a),
           UNCHANGED <<dir, overrides, changes>>, mixed => mixed',
           info' \in AppDirs, resources' \in [Locales -> Speaking \cup {NoText}],
           mixed' \in BOOLEAN, CacheHolds'
    PROVE  TranslationsInv'
PROOF
  <1>1. PICK r \in LookupRecords : /\ lookups' = [lookups EXCEPT ![a] = r]
                                  /\ OnItsWay(r, changes, mixed)
    BY DEF StepOf
  <1>2. lookups \in [Lookups -> LookupRecords]
    BY DEF TranslationsInv, TranslationsTyped
  <1>3. lookups' \in [Lookups -> LookupRecords]
        /\ \A b \in Lookups : lookups'[b] = IF b = a THEN r ELSE lookups[b]
    BY <1>1, <1>2
  <1>4. TranslationsTyped'
    BY <1>3 DEF TranslationsInv, TranslationsTyped, StepOf
  <1>5. \A b \in Lookups : OnItsWay(lookups'[b], changes, mixed)
    BY <1>1, <1>3 DEF TranslationsInv
  <1>6. \A b \in Lookups : OnItsWay(lookups'[b], changes', mixed')
    BY <1>5, StaleKeepsWay
  <1> QED BY <1>4, <1>6 DEF TranslationsInv, StepOf

(* A lookup ends with an answer that is right if nothing has changed. *)
LEMMA LookupEnds ==
    ASSUME TranslationsInv, NEW a \in Lookups, NEW locale \in Locales, NEW text \in Texts,
           lookups[a].at \notin {"new", "done"},
           IsCurrent(lookups[a], changes, mixed) =>
             <<locale, text>> = Expected(changes[Len(changes)], lookups[a].wants, lookups[a].locale),
           Found(a, locale, text)
    PROVE  StepOf(a)
PROOF
  <1> DEFINE ask == lookups[a]
             answer == AnswerOf(locale, text, ask.from)
  <1>1. PICK r : r = [ask EXCEPT !.at = "done", !.answer = answer]
    OBVIOUS
  <1>2. /\ ask \in LookupRecords /\ lookups \in [Lookups -> LookupRecords]
        /\ functions \in [Locales -> TextAnswers] /\ mixed \in BOOLEAN
        /\ Len(changes) \in Nat
    BY DEF TranslationsInv, TranslationsTyped
  <1>3. answer \in TextAnswers
    BY <1>2 DEF AnswerOf, TextAnswers, LookupRecords
  <1>4. /\ answer.of = ask.from /\ answer.sound = (ask.from = Len(changes) /\ ~mixed)
        /\ answer.locale = locale /\ answer.text = text
    BY DEF AnswerOf
  <1>5. ask.from \in 1..Len(changes)
    BY DEF TranslationsInv, OnItsWay
  <1> HIDE DEF answer
  <1>6. /\ r \in LookupRecords /\ r.at = "done" /\ r.answer = answer
        /\ r.wants = ask.wants /\ r.locale = ask.locale
    BY <1>1, <1>2, <1>3 DEF LookupRecords, LookupStates
  <1>7. SaysWell(answer, ask.wants, ask.locale, changes)
    BY <1>4, <1>5 DEF SaysWell, IsCurrent
  <1>8. lookups' = [lookups EXCEPT ![a] = r]
    <2>1. lookups' = [lookups EXCEPT ![a].at = "done", ![a].answer = answer]
      BY DEF Found, Finish, answer
    <2> QED BY <1>1, <1>2, <2>1
  <1>9. OnItsWay(r, changes, mixed)
    BY <1>6, <1>7 DEF OnItsWay
  <1>10. functions' = IF ask.wants = "function"
                      THEN [functions EXCEPT ![ask.locale] = answer] ELSE functions
    BY DEF Found, Finish, answer
  <1>11. ask.locale \in Locales
    BY <1>2 DEF LookupRecords
  <1>12. functions' \in [Locales -> TextAnswers]
    BY <1>2, <1>3, <1>10
  <1>13. ASSUME NEW l \in Locales PROVE SaysWell(functions'[l], "function", l, changes)
    <2>1. SaysWell(functions[l], "function", l, changes)
      BY DEF TranslationsInv
    <2>2. functions'[l] = functions[l] \/ (functions'[l] = answer /\ l = ask.locale
                                          /\ ask.wants = "function")
      BY <1>2, <1>10, <1>11
    <2> QED BY <1>7, <2>1, <2>2
  <1> QED BY <1>6, <1>8, <1>9, <1>12, <1>13 DEF StepOf

(* A lookup goes on. *)
LEMMA LookupMoves ==
    ASSUME TranslationsInv, NEW a \in Lookups, NEW r \in LookupRecords,
           Moves(a, r), OnItsWay(r, changes, mixed)
    PROVE  StepOf(a)
BY DEF Moves, StepOf, TranslationsInv, TranslationsTyped

(* It has found no text where it looked. *)
LEMMA LookupTriesOther ==
    ASSUME TranslationsInv, NEW a \in Lookups,
           lookups[a].at \in {"try", "read", "tryNext", "readNext"},
           IsCurrent(lookups[a], changes, mixed) =>
             TextOf(changes[Len(changes)], Head(lookups[a].rest)) = NoText,
           TryOther(a)
    PROVE  StepOf(a)
PROOF
  <1> DEFINE ask == lookups[a]
             c == changes[Len(changes)]
  <1>1. ask \in LookupRecords /\ OnItsWay(ask, changes, mixed)
    BY DEF TranslationsInv, TranslationsTyped
  <1>2. ask.rest \in Seq(Locales) /\ ask.locale \in Locales /\ ask.from \in 1..Len(changes)
    BY <1>1 DEF LookupRecords, OnItsWay
  <1>3. CASE ask.at \in {"try", "read"}
    <2>1. ask.rest = <<ask.locale>> /\ Head(ask.rest) = ask.locale
      <3>1. ask.rest = <<ask.locale>>
        BY <1>1, <1>3 DEF OnItsWay
      <3> QED BY <1>2, <3>1, OneElement
    <2>2. CASE ask.wants = "exact"
      <3>1. Found(a, ask.locale, NoText)
        BY <1>3, <2>2 DEF TryOther, NotFound
      <3>3. ASSUME IsCurrent(ask, changes, mixed)
            PROVE  <<ask.locale, NoText>> = Expected(c, ask.wants, ask.locale)
        <4>1. TextOf(c, ask.locale) = NoText
          BY <2>1, <3>3
        <4>2. Expected(c, ask.wants, ask.locale) = FirstText(c, <<ask.locale>>, ask.locale)
          BY <2>2 DEF Expected
        <4>3. PICK s \in Seq(Locales) : s = <<ask.locale>>
          BY <1>2, <2>1
        <4>4. s # <<>> /\ Head(s) = ask.locale /\ Tail(s) = <<>> /\ <<>> \in Seq(Locales)
          BY <1>2, <4>3, OneElement, EmptySeq
        <4>5. FirstText(c, s, ask.locale) = <<ask.locale, NoText>>
          <5> HIDE DEF c, ask
          <5>1. FirstText(c, s, ask.locale) = FirstText(c, Tail(s), ask.locale)
            BY <4>1, <4>4, FirstOfChain
          <5>2. FirstText(c, Tail(s), ask.locale) = <<ask.locale, NoText>>
            <6>1. PICK t \in Seq(Locales) : t = Tail(s)
              BY <4>4
            <6>2. t = <<>> => FirstText(c, t, ask.locale) = <<ask.locale, NoText>>
              BY FirstOfChain
            <6> QED BY <4>4, <6>1, <6>2
          <5> QED BY <5>1, <5>2
        <4> QED BY <4>2, <4>3, <4>5
      <3> QED BY <1>2, <1>3, <3>1, <3>3, LookupEnds DEF Texts
    <2>3. CASE ask.wants # "exact"
      <3>1. PICK r : r = [ask EXCEPT !.at = "configure"]
        OBVIOUS
      <3>2. Moves(a, r)
        BY <1>3, <2>3, <3>1 DEF TryOther
      <3>3. /\ r \in LookupRecords /\ r.at = "configure" /\ r.from = ask.from
            /\ r.wants = ask.wants /\ r.locale = ask.locale
        BY <1>1, <3>1 DEF LookupRecords, LookupStates
      <3>4. OnItsWay(r, changes, mixed)
        BY <1>2, <2>1, <2>3, <3>3 DEF OnItsWay, IsCurrent
      <3> QED BY <3>2, <3>3, <3>4, LookupMoves
    <2> QED BY <2>2, <2>3
  <1>4. CASE ask.at \in {"tryNext", "readNext"}
    <2>1. ask.rest # <<>> /\ ask.wants # "exact"
      BY <1>1, <1>4 DEF OnItsWay
    <2>2. /\ Tail(ask.rest) \in Seq(Locales) /\ Len(Tail(ask.rest)) = Len(ask.rest) - 1
          /\ Len(ask.rest) \in Nat /\ Len(ask.rest) > 0
          /\ Tail(ask.rest) = <<>> <=> ~(Len(ask.rest) > 1)
      BY <1>2, <2>1, HeadAndRest
    <2>3. ASSUME IsCurrent(ask, changes, mixed)
          PROVE  FirstText(c, Tail(ask.rest), ask.locale) = Expected(c, ask.wants, ask.locale)
      <3>1. FirstText(c, ask.rest, ask.locale) = Expected(c, ask.wants, ask.locale)
        BY <1>1, <1>4, <2>3 DEF OnItsWay
      <3>2. TextOf(c, Head(ask.rest)) = NoText
        BY <2>3
      <3> HIDE DEF c
      <3> QED BY <1>2, <2>1, <3>1, <3>2, FirstOfChain
    <2>4. CASE Len(ask.rest) > 1
      <3>1. PICK r : r = [ask EXCEPT !.at = "tryNext", !.rest = Tail(ask.rest)]
        OBVIOUS
      <3>2. Moves(a, r)
        BY <1>4, <2>4, <3>1 DEF TryOther
      <3>3. /\ r \in LookupRecords /\ r.at = "tryNext" /\ r.from = ask.from
            /\ r.wants = ask.wants /\ r.locale = ask.locale /\ r.rest = Tail(ask.rest)
        BY <1>1, <2>2, <3>1 DEF LookupRecords, LookupStates
      <3>4. r.rest # <<>>
        BY <2>2, <2>4, <3>3
      <3>5. OnItsWay(r, changes, mixed)
        BY <1>2, <2>1, <2>3, <3>3, <3>4 DEF OnItsWay, IsCurrent
      <3> QED BY <3>2, <3>3, <3>5, LookupMoves
    <2>5. CASE ~(Len(ask.rest) > 1)
      <3>1. Found(a, ask.locale, NoText)
        BY <1>4, <2>5 DEF TryOther, NotFound
      <3>2. Tail(ask.rest) = <<>>
        BY <2>2, <2>5
      <3>3. ASSUME IsCurrent(ask, changes, mixed)
            PROVE  <<ask.locale, NoText>> = Expected(c, ask.wants, ask.locale)
        <4> HIDE DEF c
        <4> QED BY <2>2, <2>3, <3>2, <3>3, FirstOfChain
      <3> QED BY <1>2, <1>4, <3>1, <3>3, LookupEnds DEF Texts
    <2> QED BY <2>4, <2>5
  <1> QED BY <1>3, <1>4

(* It follows the chain of the app. *)
LEMMA LookupFollows ==
    ASSUME TranslationsInv, NEW a \in Lookups, NEW app,
           lookups[a].at \in {"configure", "readInfo"},
           app \in AppDirs,
           IsCurrent(lookups[a], changes, mixed) => app = dir,
           Follow(a, app)
    PROVE  StepOf(a)
PROOF
  <1> DEFINE ask == lookups[a]
             c == changes[Len(changes)]
             chain == Chain(app, ask.locale)
  <1>1. ask \in LookupRecords /\ OnItsWay(ask, changes, mixed)
    BY DEF TranslationsInv, TranslationsTyped
  <1>2. ask.locale \in Locales /\ ask.from \in 1..Len(changes) /\ ask.wants # "exact"
    BY <1>1 DEF LookupRecords, OnItsWay
  <1>3. ASSUME IsCurrent(ask, changes, mixed)
        PROVE  FirstText(c, chain, ask.locale) = Expected(c, ask.wants, ask.locale)
    <2>1. TextOf(c, ask.locale) = NoText
      BY <1>1, <1>3 DEF OnItsWay
    <2>2. app = dir /\ c = [app |-> dir, set |-> overrides] /\ TranslationsTyped
      BY <1>3 DEF TranslationsInv
    <2> HIDE DEF c
    <2> QED BY <1>2, <2>1, <2>2, ChainIsExpected
  <1>4. chain \in Seq(Locales)
    <2>1. app # NoDir => FallbacksOf[app][ask.locale] \in Seq(Locales)
      BY <1>2, FilesAssumption DEF AppDirs
    <2>2. overrides # <<>> => Head(overrides) \in Locales
      BY HeadTailProperties DEF TranslationsInv, TranslationsTyped
    <2>3. Default(app) \in Locales
      BY <2>2, FilesAssumption DEF Default
    <2>4. PICK f \in Seq(Locales) : f = IF app = NoDir THEN <<>> ELSE FallbacksOf[app][ask.locale]
      BY <2>1, EmptySeq
    <2>5. Append(f, Default(app)) \in Seq(Locales)
      BY <2>3, <2>4, AppendProperties
    <2> QED BY <2>4, <2>5 DEF Chain, DefaultLast
  <1>5. CASE chain = <<>>
    <2>1. Found(a, ask.locale, NoText)
      BY <1>5 DEF Follow, NotFound
    <2>2. IsCurrent(ask, changes, mixed) =>
            <<ask.locale, NoText>> = Expected(c, ask.wants, ask.locale)
      <3> HIDE DEF c
      <3> QED BY <1>3, <1>4, <1>5, FirstOfChain
    <2> QED BY <1>2, <2>1, <2>2, LookupEnds DEF Texts
  <1>6. CASE chain # <<>>
    <2>1. PICK r : r = [ask EXCEPT !.at = "tryNext", !.rest = chain]
      OBVIOUS
    <2>2. Moves(a, r)
      BY <1>6, <2>1 DEF Follow
    <2> HIDE DEF chain
    <2>3. /\ r \in LookupRecords /\ r.at = "tryNext" /\ r.from = ask.from
          /\ r.wants = ask.wants /\ r.locale = ask.locale /\ r.rest = chain
      BY <1>1, <1>4, <2>1 DEF LookupRecords, LookupStates
    <2>4. OnItsWay(r, changes, mixed)
      BY <1>2, <1>3, <1>6, <2>3 DEF OnItsWay, IsCurrent
    <2> QED BY <2>2, <2>3, <2>4, LookupMoves
  <1> QED BY <1>5, <1>6

(* Deploys, resets and overrides. *)
LEMMA TurnsKeepTexts ==
    ASSUME TranslationsInv,
           \/ \E app \in Speaking : LoadApp(app)
           \/ \E l \in Locales : SetTranslations(l)
           \/ ResetTranslations \/ ResetCache
    PROVE  TranslationsInv'
PROOF
  <1>1. TranslationsTyped /\ CacheHolds
    BY DEF TranslationsInv
  <1>2. /\ changes \in Seq(ChangeRecords) /\ overrides \in Seq(Locales) /\ dir \in AppDirs
        /\ <<>> \in Seq(Locales) /\ NoDir \in AppDirs /\ Speaking \subseteq AppDirs
    BY <1>1, EmptySeq DEF TranslationsTyped, AppDirs
  <1>3. NoResources \in [Locales -> Speaking \cup {NoText}]
    BY DEF NoResources
  <1>4. [l \in Locales |-> NoAnswer] \in [Locales -> TextAnswers]
    BY FilesAssumption DEF NoAnswer, TextAnswers, Texts
  <1>5. ASSUME NEW x \in AppDirs, NEW y \in Seq(Locales),
               changes' = Append(changes, [app |-> x, set |-> y])
        PROVE  changes' \in Seq(ChangeRecords)
    <2>1. [app |-> x, set |-> y] \in ChangeRecords
      BY DEF ChangeRecords
    <2> QED BY <1>2, <1>5, <2>1, AppendProperties
  <1>6. CASE \E app \in Speaking : LoadApp(app)
    <2>1. PICK app \in Speaking : LoadApp(app)
      BY <1>6
    <2>2. UNCHANGED <<overrides, functions, lookups>>
      BY <2>1 DEF LoadApp
    <2>3. CASE FilesOf[app] # {}
      <3>1. /\ changes' = Append(changes, [app |-> app, set |-> overrides])
            /\ dir' = app /\ info' = NoDir /\ resources' = NoResources /\ mixed' = FALSE
        BY <2>1, <2>3 DEF LoadApp, Changed, FreshResources
      <3>2. TranslationsTyped'
        BY <1>1, <1>2, <1>3, <1>5, <2>2, <3>1 DEF TranslationsTyped
      <3>3. CacheHolds'
        BY <3>1 DEF CacheHolds, NoResources
      <3>4. changes' = Append(changes, [app |-> dir', set |-> overrides'])
        BY <2>2, <3>1
      <3> QED BY <2>2, <3>2, <3>3, <3>4, ChangeKeepsTexts
    <2>4. CASE FilesOf[app] = {}
      <3>1. /\ changes' = Append(changes, [app |-> dir, set |-> overrides])
            /\ UNCHANGED <<dir, info, resources, mixed>>
        BY <2>1, <2>4 DEF LoadApp, Changed
      <3>2. TranslationsTyped'
        BY <1>1, <1>2, <1>5, <2>2, <3>1 DEF TranslationsTyped
      <3>3. CacheHolds'
        BY <1>1, <3>1 DEF CacheHolds
      <3>4. changes' = Append(changes, [app |-> dir', set |-> overrides'])
        BY <2>2, <3>1
      <3> QED BY <2>2, <3>2, <3>3, <3>4, ChangeKeepsTexts
    <2> QED BY <2>3, <2>4
  <1>7. CASE \E l \in Locales : SetTranslations(l)
    <2>1. PICK l \in Locales : SetTranslations(l)
      BY <1>7
    <2>2. /\ changes' = Append(changes, [app |-> dir, set |-> Append(overrides, l)])
          /\ overrides' = Append(overrides, l)
          /\ UNCHANGED <<dir, info, resources, functions, lookups, mixed>>
      BY <2>1 DEF SetTranslations, Changed
    <2>3. Append(overrides, l) \in Seq(Locales)
      BY <1>2, AppendProperties
    <2>4. changes' \in Seq(ChangeRecords)
      BY <1>2, <1>5, <2>2, <2>3
    <2>5. TranslationsTyped'
      BY <1>1, <2>2, <2>3, <2>4 DEF TranslationsTyped
    <2>6. CacheHolds'
      BY <1>1, <2>2 DEF CacheHolds
    <2>7. changes' = Append(changes, [app |-> dir', set |-> overrides'])
      BY <2>2
    <2> QED BY <2>2, <2>5, <2>6, <2>7, ChangeKeepsTexts
  <1>8. CASE ResetTranslations \/ ResetCache
    <2>1. /\ dir' = NoDir /\ info' = NoDir /\ resources' = NoResources
          /\ overrides' = <<>> /\ mixed' = FALSE
          /\ changes' = Append(changes, [app |-> NoDir, set |-> <<>>])
          /\ lookups' = lookups
          /\ functions' = functions \/ functions' = [l \in Locales |-> NoAnswer]
      BY <1>8 DEF ResetTranslations, ResetCache, ClearStore, Changed
    <2>2. functions' \in [Locales -> TextAnswers]
      BY <1>1, <1>4, <2>1 DEF TranslationsTyped
    <2>3. changes' \in Seq(ChangeRecords)
      BY <1>2, <1>5, <2>1
    <2>4. TranslationsTyped'
      BY <1>1, <1>2, <1>3, <2>1, <2>2, <2>3 DEF TranslationsTyped
    <2>5. CacheHolds'
      BY <2>1 DEF CacheHolds, NoResources
    <2>6. changes' = Append(changes, [app |-> dir', set |-> overrides'])
      BY <2>1
    <2> QED BY <2>1, <2>4, <2>5, <2>6, ChangeKeepsTexts
  <1> QED BY <1>6, <1>7, <1>8

(* A lookup begins, and may be over at once. *)
LEMMA LookUpKeepsTexts ==
    ASSUME TranslationsInv, NEW a \in Lookups, NEW l \in Locales,
           NEW w \in {"function", "translations", "exact"}, LookUp(a, w, l)
    PROVE  TranslationsInv'
PROOF
  <1> DEFINE n == Len(changes)
             c == changes[n]
  <1>1. /\ UNCHANGED <<dir, info, resources, overrides, changes, mixed>>
        /\ lookups[a].at = "new"
    BY DEF LookUp
  <1>2. /\ lookups \in [Lookups -> LookupRecords] /\ lookups[a] \in LookupRecords
        /\ functions \in [Locales -> TextAnswers] /\ n \in Nat /\ n > 0 /\ mixed \in BOOLEAN
        /\ c = [app |-> dir, set |-> overrides]
    BY DEF TranslationsInv, TranslationsTyped
  <1>3. PICK r : r = [lookups[a] EXCEPT !.at = "try", !.wants = w, !.locale = l,
                                        !.rest = <<l>>, !.from = n]
    OBVIOUS
  <1>4. /\ r \in LookupRecords /\ r.at = "try" /\ r.wants = w /\ r.locale = l
        /\ r.rest = <<l>> /\ r.from = n
    <2>1. <<l>> \in Seq(Locales)
      BY OneElement
    <2> QED BY <1>2, <1>3, <2>1 DEF LookupRecords, LookupStates
  <1> DEFINE begun == [lookups EXCEPT ![a].at = "try", ![a].wants = w, ![a].locale = l,
                                      ![a].rest = <<l>>, ![a].from = n]
             over(answer) == [begun EXCEPT ![a].at = "done", ![a].answer = answer]
             cached == w = "function" /\ functions[l].of > 0
             none == AnswerOf(l, NoText, n)
  <1>5. begun = [lookups EXCEPT ![a] = r]
    BY <1>2, <1>3
  <1>6. ASSUME NEW answer \in TextAnswers, SaysWell(answer, w, l, changes)
        PROVE  \E q \in LookupRecords : /\ over(answer) = [lookups EXCEPT ![a] = q]
                                        /\ OnItsWay(q, changes, mixed)
    <2>1. PICK q : q = [r EXCEPT !.at = "done", !.answer = answer]
      OBVIOUS
    <2>2. /\ q \in LookupRecords /\ q.at = "done" /\ q.wants = w /\ q.locale = l
          /\ q.answer = answer
      BY <1>4, <1>6, <2>1 DEF LookupRecords, LookupStates
    <2>3. over(answer) = [lookups EXCEPT ![a] = q]
      <3>1. over(answer) = [[lookups EXCEPT ![a] = r] EXCEPT ![a].at = "done", ![a].answer = answer]
        BY <1>5
      <3> HIDE DEF over
      <3> QED BY <1>2, <2>1, <3>1
    <2>4. OnItsWay(q, changes, mixed)
      BY <1>6, <2>2 DEF OnItsWay
    <2> QED BY <2>2, <2>3, <2>4
  <1>7. \A x \in Locales : SaysWell(functions[x], "function", x, changes)
    BY DEF TranslationsInv
  <1>8. StepOf(a)
    <2>1. CASE cached
      <3>1. lookups' = over(functions[l]) /\ functions' = functions
        BY <2>1 DEF LookUp
      <3>2. functions[l] \in TextAnswers /\ SaysWell(functions[l], w, l, changes)
        BY <1>2, <1>7, <2>1
      <3> HIDE DEF over
      <3> QED BY <1>2, <1>6, <1>7, <3>1, <3>2 DEF StepOf
    <2>2. CASE ~cached /\ HasTranslations
      <3>1. lookups' = [lookups EXCEPT ![a] = r] /\ functions' = functions
        BY <1>5, <2>2 DEF LookUp
      <3>2. OnItsWay(r, changes, mixed)
        BY <1>2, <1>4 DEF OnItsWay
      <3> QED BY <1>2, <1>4, <1>7, <3>1, <3>2 DEF StepOf
    <2>3. CASE ~cached /\ ~HasTranslations
      <3>1. /\ lookups' = over(none)
            /\ functions' = IF w = "function" THEN [functions EXCEPT ![l] = none] ELSE functions
        BY <2>3 DEF LookUp
      <3>2. /\ none \in TextAnswers /\ none.of = n /\ none.locale = l /\ none.text = NoText
        BY <1>2 DEF AnswerOf, TextAnswers, Texts
      <3>3. dir = NoDir /\ overrides = <<>>
        BY <2>3 DEF HasTranslations
      <3>4. \A m \in Locales : TextOf(c, m) = NoText
        <4>1. ToSet(overrides) = {}
          BY <3>3 DEF ToSet
        <4> QED BY <1>2, <3>3, <4>1 DEF TextOf
      <3>5. \A wants \in {"function", w} : Expected(c, wants, l) = <<l, NoText>>
        <4> SUFFICES ASSUME NEW wants PROVE Expected(c, wants, l) = <<l, NoText>>
          OBVIOUS
        <4>1. Expected(c, wants, l) =
                FirstText(c, IF wants = "exact" THEN <<l>> ELSE <<l>> \o Append(<<>>, DefaultLocale), l)
          BY <1>2, <3>3 DEF Expected
        <4>2. Append(<<>>, DefaultLocale) \in Seq(Locales)
          BY EmptySeq, AppendProperties, FilesAssumption
        <4>3. PICK t : t = Append(<<>>, DefaultLocale)
          OBVIOUS
        <4>4. <<l>> \in Seq(Locales) /\ t \in Seq(Locales)
          BY <4>2, <4>3, OneElement
        <4>5. <<l>> \o t \in Seq(Locales)
          BY <4>4, ConcatProperties
        <4>6. PICK s \in Seq(Locales) : s = IF wants = "exact" THEN <<l>> ELSE <<l>> \o t
          BY <4>4, <4>5
        <4>7. \A i \in DOMAIN s : s[i] \in Locales
          OBVIOUS
        <4>8. {i \in DOMAIN s : TextOf(c, s[i]) # NoText} = {}
          BY <3>4, <4>7
        <4>9. FirstText(c, s, l) = <<l, NoText>>
          BY <4>8 DEF FirstText
        <4> QED BY <4>1, <4>3, <4>6, <4>9
      <3>6. \A wants \in {"function", w} : SaysWell(none, wants, l, changes)
        <4> HIDE DEF none
        <4> QED BY <1>2, <3>2, <3>5 DEF SaysWell
      <3> HIDE DEF over, none
      <3>7. \A x \in Locales : SaysWell(functions'[x], "function", x, changes)
        BY <1>2, <1>7, <3>1, <3>6
      <3>8. functions' \in [Locales -> TextAnswers]
        BY <1>2, <3>1, <3>2
      <3>9. SaysWell(none, w, l, changes)
        BY <3>6
      <3> QED BY <1>6, <3>1, <3>2, <3>7, <3>8, <3>9 DEF StepOf
    <2> QED BY <2>1, <2>2, <2>3
  <1>9. CacheHolds'
    BY <1>1 DEF TranslationsInv, CacheHolds
  <1> QED BY <1>1, <1>8, <1>9, StepKeepsTexts DEF TranslationsInv, TranslationsTyped

(* What there is of a locale, as a lookup that is current sees it. *)
LEMMA SeesText ==
    ASSUME TranslationsInv, ~mixed, NEW l \in Locales,
           NEW c, c = changes[Len(changes)]
    PROVE  /\ l \in ToSet(overrides) => TextOf(c, l) = Override
           /\ l \notin ToSet(overrides) /\ resources[l] # NoText => TextOf(c, l) = resources[l]
           /\ l \notin ToSet(overrides) /\ dir = NoDir => TextOf(c, l) = NoText
           /\ l \notin ToSet(overrides) /\ dir # NoDir =>
                TextOf(c, l) = IF l \in FilesOf[dir] THEN dir ELSE NoText
BY DEF TranslationsInv, CacheHolds, TextOf

(* A lookup finds the first text of what is left. *)
LEMMA FindsFirst ==
    ASSUME TranslationsInv, NEW a \in Lookups, IsCurrent(lookups[a], changes, mixed),
           lookups[a].at \in {"try", "read", "tryNext", "readNext"},
           NEW c, c = changes[Len(changes)],
           TextOf(c, Head(lookups[a].rest)) # NoText
    PROVE  <<Head(lookups[a].rest), TextOf(c, Head(lookups[a].rest))>>
             = Expected(c, lookups[a].wants, lookups[a].locale)
PROOF
  <1> DEFINE ask == lookups[a]
             l == ask.locale
  <1>1. ask \in LookupRecords /\ OnItsWay(ask, changes, mixed)
    BY DEF TranslationsInv, TranslationsTyped
  <1>2. ask.rest \in Seq(Locales) /\ l \in Locales
    BY <1>1 DEF LookupRecords
  <1>3. CASE ask.at \in {"tryNext", "readNext"}
    <2>1. ask.rest # <<>> /\ FirstText(c, ask.rest, l) = Expected(c, ask.wants, l)
      BY <1>1, <1>3 DEF OnItsWay
    <2> HIDE DEF l
    <2> QED BY <1>2, <2>1, FirstOfChain DEF l
  <1>4. CASE ask.at \in {"try", "read"}
    <2>1. ask.rest = <<l>> /\ Head(ask.rest) = l
      <3>1. ask.rest = <<l>>
        BY <1>1, <1>4 DEF OnItsWay
      <3> QED BY <1>2, <3>1, OneElement
    <2>2. TextOf(c, l) # NoText
      BY <2>1
    <2> DEFINE default == IF c.app = NoDir /\ c.set # <<>> THEN Head(c.set) ELSE DefaultLocale
               fallbacks == IF c.app = NoDir THEN <<>> ELSE FallbacksOf[c.app][l]
               order == IF ask.wants = "exact" THEN <<l>> ELSE <<l>> \o Append(fallbacks, default)
    <2>3. Append(fallbacks, default) \in Seq(Locales)
      <3>0. c = [app |-> dir, set |-> overrides]
        BY DEF TranslationsInv
      <3>1. c.app = dir /\ c.set = overrides /\ dir \in AppDirs /\ overrides \in Seq(Locales)
        <4>1. c.app = dir /\ c.set = overrides
          BY <3>0
        <4>2. dir \in AppDirs /\ overrides \in Seq(Locales)
          BY DEF TranslationsInv, TranslationsTyped
        <4> QED BY <4>1, <4>2
      <3>2. c.set # <<>> => Head(c.set) \in Locales
        BY <3>1, HeadTailProperties
      <3>3. default \in Locales
        BY <3>2, FilesAssumption
      <3>4. PICK f \in Seq(Locales) : f = fallbacks
        <4>1. c.app # NoDir => FallbacksOf[c.app][l] \in Seq(Locales)
          BY <1>2, <3>1, FilesAssumption DEF AppDirs
        <4> QED BY <4>1, EmptySeq
      <3> HIDE DEF default, fallbacks
      <3>5. Append(f, default) \in Seq(Locales)
        BY <3>3, AppendProperties
      <3> QED BY <3>4, <3>5
    <2>4. Expected(c, ask.wants, l) = FirstText(c, order, l)
      BY DEF Expected
    <2>5. PICK t \in Seq(Locales) : t = Append(fallbacks, default)
      BY <2>3
    <2>6. <<l>> \in Seq(Locales) /\ Head(<<l>>) = l /\ <<l>> # <<>>
      BY <1>2, OneElement
    <2>7. <<l>> \o t \in Seq(Locales) /\ <<l>> \o t # <<>> /\ Head(<<l>> \o t) = l
      BY <1>2, OneBefore
    <2> HIDE DEF default, fallbacks, l
    <2>8. order \in Seq(Locales) /\ order # <<>> /\ Head(order) = l
      <3>1. CASE ask.wants = "exact"
        BY <2>6, <3>1
      <3>2. CASE ask.wants # "exact"
        <4>1. order = <<l>> \o t
          BY <2>5, <3>2
        <4> QED BY <2>7, <4>1
      <3> QED BY <3>1, <3>2
    <2> HIDE DEF order
    <2>9. FirstText(c, order, l) = <<l, TextOf(c, l)>>
      BY <2>2, <2>8, FirstOfChain
    <2> QED BY <2>1, <2>4, <2>9 DEF l
  <1> QED BY <1>3, <1>4

(* A locale is looked up in what there is, and its file is read. *)
LEMMA TryKeepsTexts ==
    ASSUME TranslationsInv, NEW a \in Lookups, TryLocale(a)
    PROVE  TranslationsInv'
PROOF
  <1> DEFINE ask == lookups[a]
             l == Head(ask.rest)
             c == changes[Len(changes)]
  <1>1. /\ ask.at \in {"try", "tryNext"}
        /\ UNCHANGED <<dir, info, resources, overrides, changes, mixed>>
        /\ CASE l \in ToSet(overrides) -> Found(a, l, Override)
             [] l \notin ToSet(overrides) /\ resources[l] # NoText -> Found(a, l, resources[l])
             [] l \notin ToSet(overrides) /\ resources[l] = NoText /\ dir = NoDir -> TryOther(a)
             [] OTHER -> Moves(a, [ask EXCEPT !.at = IF @ = "try" THEN "read" ELSE "readNext",
                                              !.file = dir])
    BY DEF TryLocale
  <1>2. ask \in LookupRecords /\ OnItsWay(ask, changes, mixed) /\ c.app = dir /\ c.set = overrides
    <2>1. c = [app |-> dir, set |-> overrides]
      BY DEF TranslationsInv
    <2> QED BY <2>1 DEF TranslationsInv, TranslationsTyped
  <1>3. ask.rest \in Seq(Locales) /\ ask.rest # <<>> /\ l \in Locales
    <2>1. ask.rest \in Seq(Locales) /\ ask.locale \in Locales
      BY <1>2 DEF LookupRecords
    <2>2. CASE ask.at = "try"
      <3>1. ask.rest = <<ask.locale>>
        BY <1>2, <2>2 DEF OnItsWay
      <3> QED BY <2>1, <3>1, OneElement
    <2>3. CASE ask.at = "tryNext"
      <3>1. ask.rest # <<>>
        BY <1>2, <2>3 DEF OnItsWay
      <3> QED BY <2>1, <3>1, HeadTailProperties
    <2> QED BY <1>1, <2>2, <2>3
  <1>4. resources[l] \in Speaking \cup {NoText} /\ dir \in AppDirs
    BY <1>3 DEF TranslationsInv, TranslationsTyped
  <1>5. Override # NoText
    BY DEF Override, NoText
  <1> HIDE DEF c
  <1>6. ASSUME IsCurrent(ask, changes, mixed)
        PROVE  /\ ~mixed
               /\ l \in ToSet(overrides) => TextOf(c, l) = Override
               /\ l \notin ToSet(overrides) /\ resources[l] # NoText => TextOf(c, l) = resources[l]
               /\ l \notin ToSet(overrides) /\ dir = NoDir => TextOf(c, l) = NoText
               /\ TextOf(c, l) # NoText =>
                    <<l, TextOf(c, l)>> = Expected(c, ask.wants, ask.locale)
    <2>1. ~mixed
      BY <1>6 DEF IsCurrent
    <2>2. TextOf(c, l) # NoText => <<l, TextOf(c, l)>> = Expected(c, ask.wants, ask.locale)
      BY <1>1, <1>6, FindsFirst DEF c
    <2> QED BY <1>3, <2>1, <2>2, SeesText DEF c
  <1>7. StepOf(a)
    <2>1. CASE l \in ToSet(overrides)
      <3>1. Found(a, l, Override)
        BY <1>1, <2>1
      <3>2. IsCurrent(ask, changes, mixed) =>
              <<l, Override>> = Expected(changes[Len(changes)], ask.wants, ask.locale)
        BY <1>5, <1>6, <2>1 DEF c
      <3> QED BY <1>1, <1>3, <3>1, <3>2, LookupEnds DEF Texts
    <2>2. CASE l \notin ToSet(overrides) /\ resources[l] # NoText
      <3>1. Found(a, l, resources[l])
        BY <1>1, <2>2
      <3>2. IsCurrent(ask, changes, mixed) =>
              <<l, resources[l]>> = Expected(changes[Len(changes)], ask.wants, ask.locale)
        BY <1>6, <2>2 DEF c
      <3>3. resources[l] \in Texts
        BY <1>4 DEF Texts
      <3> QED BY <1>1, <1>3, <3>1, <3>2, <3>3, LookupEnds
    <2>3. CASE l \notin ToSet(overrides) /\ resources[l] = NoText /\ dir = NoDir
      <3>1. TryOther(a)
        BY <1>1, <2>3
      <3>2. IsCurrent(ask, changes, mixed) => TextOf(changes[Len(changes)], l) = NoText
        BY <1>6, <2>3 DEF c
      <3> QED BY <1>1, <3>1, <3>2, LookupTriesOther
    <2>4. CASE l \notin ToSet(overrides) /\ resources[l] = NoText /\ dir # NoDir
      <3>1. PICK to : to = IF ask.at = "try" THEN "read" ELSE "readNext"
        OBVIOUS
      <3>2. PICK r : r = [ask EXCEPT !.at = to, !.file = dir]
        OBVIOUS
      <3>3. Moves(a, r)
        BY <1>1, <2>4, <3>1, <3>2
      <3>4. /\ r \in LookupRecords /\ r.at = to /\ r.file = dir /\ r.from = ask.from
            /\ r.wants = ask.wants /\ r.locale = ask.locale /\ r.rest = ask.rest
        BY <1>2, <1>4, <3>1, <3>2 DEF LookupRecords, LookupStates
      <3>5. OnItsWay(r, changes, mixed)
        BY <1>1, <1>2, <2>4, <3>1, <3>4 DEF OnItsWay, IsCurrent, c
      <3> QED BY <3>3, <3>4, <3>5, LookupMoves
    <2> QED BY <2>1, <2>2, <2>3, <2>4
  <1>8. CacheHolds'
    BY <1>1 DEF TranslationsInv, CacheHolds
  <1> QED BY <1>1, <1>7, <1>8, StepKeepsTexts DEF TranslationsInv, TranslationsTyped

(* A file has been read. *)
LEMMA ReadKeepsTexts ==
    ASSUME TranslationsInv, NEW a \in Lookups, FileRead(a)
    PROVE  TranslationsInv'
PROOF
  <1> DEFINE ask == lookups[a]
             l == Head(ask.rest)
             c == changes[Len(changes)]
  <1>1. /\ ask.at \in {"read", "readNext"}
        /\ UNCHANGED <<dir, info, overrides, changes>>
        /\ IF l \in FilesOf[ask.file]
           THEN /\ resources' = [resources EXCEPT ![l] = ask.file]
                /\ mixed' = (mixed \/ ask.file # dir)
                /\ Found(a, l, ask.file)
           ELSE TryOther(a) /\ UNCHANGED <<resources, mixed>>
    BY DEF FileRead
  <1>2. ask \in LookupRecords /\ OnItsWay(ask, changes, mixed) /\ c.app = dir /\ c.set = overrides
    <2>1. c = [app |-> dir, set |-> overrides]
      BY DEF TranslationsInv
    <2> QED BY <2>1 DEF TranslationsInv, TranslationsTyped
  <1>3. ask.rest \in Seq(Locales) /\ ask.rest # <<>> /\ l \in Locales
    <2>1. ask.rest \in Seq(Locales) /\ ask.locale \in Locales
      BY <1>2 DEF LookupRecords
    <2>2. CASE ask.at = "read"
      <3>1. ask.rest = <<ask.locale>>
        BY <1>2, <2>2 DEF OnItsWay
      <3> QED BY <2>1, <3>1, OneElement
    <2>3. CASE ask.at = "readNext"
      <3>1. ask.rest # <<>>
        BY <1>2, <2>3 DEF OnItsWay
      <3> QED BY <2>1, <3>1, HeadTailProperties
    <2> QED BY <1>1, <2>2, <2>3
  <1>4. ask.file \in Speaking /\ ask.file # NoText
    BY <1>1, <1>2, FilesAssumption DEF OnItsWay, LookupRecords, AppDirs
  <1>5. ask.from = Len(changes) => ask.file = dir
    BY <1>1, <1>2 DEF OnItsWay
  <1> HIDE DEF c
  <1>6. ASSUME IsCurrent(ask, changes, mixed)
        PROVE  /\ ask.file = dir
               /\ TextOf(c, l) = IF l \in FilesOf[dir] THEN dir ELSE NoText
               /\ TextOf(c, l) # NoText =>
                    <<l, TextOf(c, l)>> = Expected(c, ask.wants, ask.locale)
    <2>1. ~mixed /\ ask.file = dir /\ dir # NoDir
      BY <1>4, <1>5, <1>6, FilesAssumption DEF IsCurrent
    <2>2. TextOf(c, l) # NoText => <<l, TextOf(c, l)>> = Expected(c, ask.wants, ask.locale)
      BY <1>1, <1>6, FindsFirst DEF c
    <2>3. l \notin ToSet(overrides)
      BY <1>1, <1>2, <1>6 DEF OnItsWay, c
    <2>4. TextOf(c, l) = IF l \in FilesOf[dir] THEN dir ELSE NoText
      BY <1>3, <2>1, <2>3, SeesText DEF c
    <2> QED BY <2>1, <2>2, <2>4
  <1>7. CASE l \in FilesOf[ask.file]
    <2>1. /\ resources' = [resources EXCEPT ![l] = ask.file]
          /\ mixed' = (mixed \/ ask.file # dir) /\ Found(a, l, ask.file)
      BY <1>1, <1>7
    <2>2. IsCurrent(ask, changes, mixed) =>
            <<l, ask.file>> = Expected(changes[Len(changes)], ask.wants, ask.locale)
      BY <1>4, <1>6, <1>7 DEF c
    <2>3. StepOf(a)
      BY <1>1, <1>3, <1>4, <2>1, <2>2, LookupEnds DEF Texts
    <2>4. /\ resources \in [Locales -> Speaking \cup {NoText}] /\ mixed \in BOOLEAN
          /\ info \in AppDirs /\ CacheHolds
      BY DEF TranslationsInv, TranslationsTyped
    <2>5. resources' \in [Locales -> Speaking \cup {NoText}] /\ mixed' \in BOOLEAN
      BY <1>4, <2>1, <2>4
    <2>6. CacheHolds'
      <3> SUFFICES ASSUME ~mixed' PROVE CacheHolds'
        BY DEF CacheHolds
      <3>1. ~mixed /\ ask.file = dir
        BY <2>1
      <3>2. \A m \in Locales : resources'[m] = IF m = l THEN dir ELSE resources[m]
        BY <2>1, <2>4, <3>1
      <3>3. dir # NoDir /\ l \in FilesOf[dir]
        BY <1>4, <1>7, <3>1, FilesAssumption
      <3> QED BY <1>1, <2>4, <3>1, <3>2, <3>3 DEF CacheHolds
    <2> QED BY <1>1, <2>1, <2>3, <2>4, <2>5, <2>6, StepKeepsTexts
  <1>8. CASE l \notin FilesOf[ask.file]
    <2>1. TryOther(a) /\ UNCHANGED <<resources, mixed>>
      BY <1>1, <1>8
    <2>2. IsCurrent(ask, changes, mixed) => TextOf(changes[Len(changes)], l) = NoText
      BY <1>6, <1>8 DEF c
    <2>3. StepOf(a)
      BY <1>1, <2>1, <2>2, LookupTriesOther
    <2>4. CacheHolds'
      BY <1>1, <2>1 DEF TranslationsInv, CacheHolds
    <2> QED BY <1>1, <2>1, <2>3, <2>4, StepKeepsTexts DEF TranslationsInv, TranslationsTyped
  <1> QED BY <1>7, <1>8

(* The configuration of the app is asked for, and read. *)
LEMMA ConfigureKeepsTexts ==
    ASSUME TranslationsInv, NEW a \in Lookups, Configure(a) \/ InfoRead(a)
    PROVE  TranslationsInv'
PROOF
  <1> DEFINE ask == lookups[a]
  <1>1. /\ ask \in LookupRecords /\ OnItsWay(ask, changes, mixed) /\ TranslationsTyped /\ CacheHolds
        /\ changes[Len(changes)].app = dir /\ changes[Len(changes)].set = overrides
    <2>1. changes[Len(changes)] = [app |-> dir, set |-> overrides]
      BY DEF TranslationsInv
    <2> QED BY <2>1 DEF TranslationsInv, TranslationsTyped
  <1>2. CASE Configure(a)
    <2>1. ask.at = "configure" /\ UNCHANGED <<dir, info, resources, overrides, changes, mixed>>
      BY <1>2 DEF Configure
    <2>2. CacheHolds'
      BY <1>1, <2>1 DEF CacheHolds
    <2>3. CASE info = NoDir /\ dir # NoDir
      <3>1. PICK r : r = [ask EXCEPT !.at = "readInfo", !.file = dir]
        OBVIOUS
      <3>2. Moves(a, r)
        BY <1>2, <2>3, <3>1 DEF Configure
      <3>3. /\ r \in LookupRecords /\ r.at = "readInfo" /\ r.file = dir /\ r.from = ask.from
            /\ r.wants = ask.wants /\ r.locale = ask.locale /\ r.rest = ask.rest
        BY <1>1, <3>1 DEF LookupRecords, LookupStates, TranslationsTyped
      <3>4. OnItsWay(r, changes, mixed)
        BY <1>1, <2>1, <2>3, <3>3 DEF OnItsWay, IsCurrent
      <3>5. StepOf(a)
        BY <3>2, <3>3, <3>4, LookupMoves
      <3> QED BY <1>1, <2>1, <2>2, <3>5, StepKeepsTexts DEF TranslationsTyped
    <2>4. CASE ~(info = NoDir /\ dir # NoDir)
      <3>1. Follow(a, info)
        BY <1>2, <2>4 DEF Configure
      <3>2. IsCurrent(ask, changes, mixed) => info = dir
        BY <1>1, <2>4 DEF IsCurrent, CacheHolds
      <3>3. info \in AppDirs /\ ask.at \in {"configure", "readInfo"}
        BY <1>1, <2>1 DEF TranslationsTyped
      <3>4. StepOf(a)
        BY <3>1, <3>2, <3>3, LookupFollows
      <3> QED BY <1>1, <2>1, <2>2, <3>4, StepKeepsTexts DEF TranslationsTyped
    <2> QED BY <2>3, <2>4
  <1>3. CASE InfoRead(a)
    <2>1. /\ ask.at = "readInfo" /\ UNCHANGED <<dir, resources, overrides, changes>>
          /\ info' = ask.file /\ mixed' = (mixed \/ ask.file # dir) /\ Follow(a, ask.file)
      BY <1>3 DEF InfoRead
    <2>2. ask.file \in AppDirs /\ (ask.from = Len(changes) => ask.file = dir)
      BY <1>1, <2>1 DEF OnItsWay, LookupRecords
    <2>3. StepOf(a)
      <3>1. IsCurrent(ask, changes, mixed) => ask.file = dir
        BY <2>2 DEF IsCurrent
      <3>2. ask.at \in {"configure", "readInfo"} /\ ask.file \in AppDirs /\ Follow(a, ask.file)
        BY <2>1, <2>2
      <3> QED BY <3>1, <3>2, LookupFollows
    <2>4. CacheHolds'
      BY <1>1, <2>1 DEF CacheHolds
    <2> QED BY <1>1, <2>1, <2>2, <2>3, <2>4, StepKeepsTexts DEF TranslationsTyped
  <1> QED BY <1>2, <1>3

(* Nothing is known at first. *)
LEMMA TextsAtFirst == TranslationsInit => TranslationsInv
PROOF
  <1> SUFFICES ASSUME TranslationsInit PROVE TranslationsInv
    OBVIOUS
  <1> DEFINE none == [app |-> NoDir, set |-> <<>>]
  <1>1. none \in ChangeRecords /\ changes = <<none>> /\ <<>> \in Seq(Locales)
    BY EmptySeq DEF TranslationsInit, ChangeRecords, AppDirs
  <1>2. changes \in Seq(ChangeRecords) /\ Len(changes) = 1 /\ changes[1] = none
    BY <1>1, OneElement
  <1>3. NoAnswer \in TextAnswers /\ NoAnswer.sound = FALSE
    BY FilesAssumption DEF NoAnswer, TextAnswers, Texts
  <1>4. NewLookup \in LookupRecords /\ NewLookup.at = "new"
    BY <1>1, <1>3, FilesAssumption DEF NewLookup, LookupRecords, LookupStates, AppDirs
  <1>5. TranslationsTyped
    BY <1>1, <1>2, <1>3, <1>4 DEF TranslationsInit, TranslationsTyped, AppDirs, NoResources
  <1>6. CacheHolds
    BY DEF TranslationsInit, CacheHolds, NoResources
  <1>7. \A l \in Locales : SaysWell(functions[l], "function", l, changes)
    BY <1>3 DEF TranslationsInit, SaysWell
  <1>8. \A a \in Lookups : OnItsWay(lookups[a], changes, mixed)
    BY <1>4 DEF TranslationsInit, OnItsWay
  <1> QED BY <1>2, <1>5, <1>6, <1>7, <1>8 DEF TranslationsInv, TranslationsInit

(* Whatever is deployed, reset and overridden while files are read: an answer that no change
   came between is in the locale asked for, or in the first of its fallbacks and the default
   that has a text, and comes from the app that was loaded or a test. *)
THEOREM TranslationsSpeakTheApp == TranslationsSpec => []SpeaksTheApp
PROOF
  <1>1. TranslationsInv /\ [TranslationsNext]_trVars => TranslationsInv'
    <2> SUFFICES ASSUME TranslationsInv, [TranslationsNext]_trVars PROVE TranslationsInv'
      OBVIOUS
    <2>1. CASE UNCHANGED trVars
      BY <2>1 DEF trVars, TranslationsInv, TranslationsTyped, CacheHolds
    <2>2. CASE TranslationsNext
      BY <2>2, TurnsKeepTexts, LookUpKeepsTexts, TryKeepsTexts, ReadKeepsTexts,
         ConfigureKeepsTexts DEF TranslationsNext
    <2> QED BY <2>1, <2>2
  <1>2. TranslationsInv => SpeaksTheApp
    BY DEF TranslationsInv, OnItsWay, SaysWell, SpeaksTheApp
  <1> QED BY <1>1, <1>2, TextsAtFirst, PTL DEF TranslationsSpec

-----------------------------------------------------------------------------
(* The language model *)

Roles == {"system", "user", "assistant", "tool"}
TalkRecords == [role : Roles, calls : SUBSET ToolCalls, text : BOOLEAN, list : BOOLEAN]
SentRecords == [role : {"user", "assistant"}, uses : SUBSET ToolCalls,
                results : SUBSET ToolCalls, list : BOOLEAN]
AnswerRecords == [agent : Agents, script : Scripts \cup {NoScript}]

ModelTyped ==
  /\ talk \in [Agents -> Seq(TalkRecords)]
  /\ asking \in SUBSET Agents
  /\ wire \in [Agents -> Seq(SentRecords)]
  /\ queued \in Seq(Scripts) /\ scripted \in Seq(Scripts)
  /\ hasKey \in BOOLEAN
  /\ calledBack \in Seq(AnswerRecords)

(* The results of an answer's calls are in the message after it, but for those still open, *)
(* which only the last answer may have.                                                    *)
Owing(sent, open) ==
  /\ \A i \in 1..Len(sent) :
       /\ sent[i].uses # {} =>
            /\ sent[i].role = "assistant" /\ sent[i].results = {}
            /\ i = Len(sent) => sent[i].uses = open
            /\ i + 1 = Len(sent) => sent[i + 1].results \cup open = sent[i].uses
            /\ i + 1 < Len(sent) => sent[i + 1].results = sent[i].uses
       /\ sent[i].results # {} => /\ i > 1 /\ sent[i].role = "user" /\ sent[i].list
                                  /\ sent[i - 1].uses # {}
  /\ open # {} => /\ sent # <<>>
                  /\ sent[Len(sent)].uses # {} \/ sent[Len(sent)].results # {}

(* The scripts of the first n answers are among the first k, in their order. *)
UsedInOrder(answers, all, n, k) ==
  /\ \A i \in 1..n : answers[i].script # NoScript =>
       \E p \in 1..k : all[p] = answers[i].script
  /\ \A i, j \in 1..n :
       i < j /\ answers[i].script # NoScript /\ answers[j].script # NoScript =>
         \E p, q \in 1..k : p < q /\ all[p] = answers[i].script
                                  /\ all[q] = answers[j].script

(* What is queued is what was scripted last; what was used was scripted before it. *)
ScriptsInOrder(answers, waiting, all) ==
  /\ Len(waiting) <= Len(all)
  /\ \A i \in 1..Len(waiting) : waiting[i] = all[Len(all) - Len(waiting) + i]
  /\ UsedInOrder(answers, all, Len(answers), Len(all) - Len(waiting))

ModelInv ==
  /\ ModelTyped
  /\ \A g \in Agents : Owing(ToMessages(talk[g]), OpenIn(talk[g]))
  /\ \A g \in Agents : WellFormed(wire[g])
  /\ ScriptsInOrder(calledBack, queued, scripted)
(* A message of an agent makes a list of messages of the API one longer, or fills its last. *)
LEMMA TranslateTyped ==
    ASSUME NEW sent \in Seq(SentRecords), NEW m \in TalkRecords
    PROVE  Translate(sent, m) \in Seq(SentRecords)
PROOF
  <1>1. /\ m.calls \in SUBSET ToolCalls /\ m.text \in BOOLEAN /\ m.list \in BOOLEAN
        /\ m.role \in Roles
    BY DEF TalkRecords
  <1>2. \A r \in SentRecords : Append(sent, r) \in Seq(SentRecords)
    BY AppendProperties
  <1>3. CASE m.role = "system"
    BY <1>3 DEF Translate
  <1>4. CASE m.role = "user"
    <2>1. Sent("user", {}, {}, m.list) \in SentRecords
      BY <1>1 DEF Sent, SentRecords
    <2> QED BY <1>2, <1>4, <2>1 DEF Translate
  <1>5. CASE m.role = "assistant"
    <2>1. Sent("assistant", m.calls, {}, TRUE) \in SentRecords
      BY <1>1 DEF Sent, SentRecords
    <2> QED BY <1>1, <1>2, <1>5, <2>1 DEF Translate
  <1>6. CASE m.role = "tool"
    <2>1. Sent("user", {}, m.calls, TRUE) \in SentRecords
      BY <1>1 DEF Sent, SentRecords
    <2>2. Translate(sent, m) = WithResult(sent, m)
      BY <1>6 DEF Translate
    <2>3. CASE sent # <<>> /\ Last(sent).role = "user" /\ Last(sent).list
      <3>1. PICK q : q = [sent EXCEPT ![Len(sent)].results = @ \cup m.calls]
        OBVIOUS
      <3>2. Len(sent) \in 1..Len(sent)
        BY <2>3, EmptySeq
      <3>3. sent[Len(sent)] \in SentRecords
        BY <3>2
      <3>4. PICK r : r = [sent[Len(sent)] EXCEPT !.results = @ \cup m.calls]
        OBVIOUS
      <3>5. r \in SentRecords
        BY <1>1, <3>3, <3>4 DEF SentRecords
      <3>6. q = [sent EXCEPT ![Len(sent)] = r]
        BY <3>1, <3>4
      <3>7. q \in Seq(SentRecords)
        BY <3>2, <3>5, <3>6, ExceptSeq
      <3> QED BY <2>2, <2>3, <3>1, <3>7 DEF WithResult
    <2>4. CASE ~(sent # <<>> /\ Last(sent).role = "user" /\ Last(sent).list)
      <3>1. WithResult(sent, m) = Append(sent, Sent("user", {}, m.calls, TRUE))
        BY <2>4 DEF WithResult
      <3> QED BY <1>2, <2>1, <2>2, <3>1
    <2> QED BY <2>3, <2>4
  <1> QED BY <1>1, <1>3, <1>4, <1>5, <1>6 DEF Roles

(* The messages of a conversation, one by one. *)
LEMMA MessagesFollow ==
    ASSUME NEW t \in Seq(TalkRecords)
    PROVE  \E f \in [0..Len(t) -> Seq(SentRecords)] :
             /\ f[0] = <<>> /\ ToMessages(t) = f[Len(t)]
             /\ \A i \in 1..Len(t) : f[i] = Translate(f[i - 1], t[i])
PROOF
  <1> DEFINE n == Len(t)
             V == Seq(SentRecords)
             Then(i, v) == Translate(v, t[i])
             Solves(f) == f = [i \in 0..n |-> IF i = 0 THEN <<>> ELSE Then(i, f[i - 1])]
  <1>1. n \in Nat
    OBVIOUS
  <1>2. ASSUME NEW i \in 1..n, NEW v \in V PROVE Then(i, v) \in V
    BY TranslateTyped
  <1> DEFINE step == [i \in 1..n |-> [v \in V |-> Then(i, v)]]
  <1>3. step \in [1..n -> [V -> V]] /\ \A i \in 1..n, v \in V : step[i][v] = Then(i, v)
    <2> HIDE DEF n, V, Then
    <2> QED BY <1>2
  <1>4. <<>> \in V
    BY EmptySeq
  <1>5. PICK g \in [0..n -> V] : g[0] = <<>> /\ \A i \in 1..n : g[i] = step[i][g[i - 1]]
    <2> HIDE DEF n, V, step
    <2>1. \E f \in [0..n -> V] : Follows(f, n, <<>>, step)
      BY <1>1, <1>3, <1>4, Iterates
    <2> QED BY <2>1 DEF Follows
  <1>6. Solves(g)
    <2> HIDE DEF n, V, step, Then
    <2>1. ASSUME NEW i \in 0..n PROVE g[i] = IF i = 0 THEN <<>> ELSE Then(i, g[i - 1])
      <3>1. CASE i = 0
        BY <1>5, <3>1
      <3>2. CASE i # 0
        <4>1. i \in 1..n /\ i - 1 \in 0..n
          BY <1>1, <3>2
        <4>2. g[i - 1] \in V
          BY <1>5, <4>1
        <4> QED BY <1>3, <1>5, <3>2, <4>1, <4>2
      <3> QED BY <3>1, <3>2
    <2>2. g = [i \in 0..n |-> g[i]]
      BY <1>5
    <2> QED BY <2>1, <2>2
  <1>7. PICK f : f = CHOOSE h : Solves(h)
    OBVIOUS
  <1>8. Solves(f)
    <2> HIDE DEF Solves
    <2> QED BY <1>6, <1>7
  <1>9. ToMessages(t) = f[n]
    BY <1>7 DEF ToMessages
  <1>10. /\ f[0] = <<>> /\ f = [i \in 0..n |-> f[i]]
         /\ \A i \in 1..n : f[i] = Then(i, f[i - 1])
    <2> HIDE DEF n, Then
    <2>1. f = [i \in 0..n |-> IF i = 0 THEN <<>> ELSE Then(i, f[i - 1])]
      BY <1>8
    <2>2. 0 \in 0..n /\ \A i \in 1..n : i \in 0..n /\ i # 0
      BY <1>1
    <2>3. f[0] = <<>> /\ \A i \in 1..n : f[i] = Then(i, f[i - 1])
      BY <2>1, <2>2, Zenon
    <2>4. f = [i \in 0..n |-> f[i]]
      BY <2>1, Zenon
    <2> QED BY <2>3, <2>4
  <1>11. \A i \in 0..n : f[i] \in V
    <2> DEFINE S == {i \in 0..n : f[i] \in V}
    <2> HIDE DEF n, V, Then
    <2>1. 0 \in S
      BY <1>1, <1>4, <1>10
    <2>2. ASSUME NEW i \in 1..n, i - 1 \in S PROVE i \in S
      <3>1. f[i - 1] \in V /\ i \in 0..n
        BY <1>1, <2>2
      <3>2. f[i] \in V
        BY <1>2, <1>10, <3>1
      <3> QED BY <3>1, <3>2
    <2>3. \A i \in 0..n : i \in S
      <3> HIDE DEF S
      <3> QED BY <1>1, <2>1, <2>2, AllPlaces
    <2> QED BY <2>3
  <1>12. f \in [0..n -> V]
    <2> HIDE DEF n, V, Then
    <2> QED BY <1>10, <1>11
  <1> QED BY <1>9, <1>10, <1>12

(* A conversation that is one message longer is translated from where it was. *)
LEMMA MessagesAppend ==
    ASSUME NEW t \in Seq(TalkRecords), NEW m \in TalkRecords
    PROVE  /\ ToMessages(t) \in Seq(SentRecords)
           /\ ToMessages(Append(t, m)) = Translate(ToMessages(t), m)
PROOF
  <1> DEFINE n == Len(t)
             u == Append(t, m)
  <1>1. /\ n \in Nat /\ u \in Seq(TalkRecords) /\ Len(u) = n + 1 /\ u[n + 1] = m
        /\ \A i \in 1..n : u[i] = t[i]
    BY AppendProperties
  <1>2. PICK f \in [0..n -> Seq(SentRecords)] :
             /\ f[0] = <<>> /\ ToMessages(t) = f[n]
             /\ \A i \in 1..n : f[i] = Translate(f[i - 1], t[i])
    BY MessagesFollow
  <1>3. PICK g :
             /\ g[0] = <<>> /\ ToMessages(u) = g[n + 1]
             /\ \A i \in 1..(n + 1) : g[i] = Translate(g[i - 1], u[i])
    <2> HIDE DEF n, u
    <2>1. \E h \in [0..Len(u) -> Seq(SentRecords)] :
             /\ h[0] = <<>> /\ ToMessages(u) = h[Len(u)]
             /\ \A i \in 1..Len(u) : h[i] = Translate(h[i - 1], u[i])
      BY <1>1, MessagesFollow
    <2> QED BY <1>1, <2>1
  <1> HIDE DEF n, u
  <1> DEFINE S == {i \in 0..n : g[i] = f[i]}
  <1>4. 0 \in S
    BY <1>1, <1>2, <1>3
  <1>5. ASSUME NEW i \in 1..n, i - 1 \in S PROVE i \in S
    <2>1. g[i - 1] = f[i - 1] /\ i \in 0..n /\ i \in 1..(n + 1)
      BY <1>1, <1>5
    <2> QED BY <1>1, <1>2, <1>3, <2>1
  <1>6. n \in S
    <2> HIDE DEF S
    <2>1. \A i \in 0..n : i \in S
      BY <1>1, <1>4, <1>5, AllPlaces
    <2> QED BY <1>1, <2>1
  <1>7. n + 1 \in 1..(n + 1) /\ (n + 1) - 1 = n /\ n \in 0..n
    BY <1>1
  <1>8. g[n + 1] = Translate(g[(n + 1) - 1], u[n + 1])
    BY <1>3, <1>7
  <1>9. g[n + 1] = Translate(f[n], m)
    BY <1>1, <1>6, <1>7, <1>8
  <1> QED BY <1>2, <1>3, <1>7, <1>9 DEF u

(* What is open after one more message. *)
LEMMA OpenAfter ==
    ASSUME NEW t \in Seq(TalkRecords), NEW m \in TalkRecords
    PROVE  /\ m.role = "assistant" => OpenIn(Append(t, m)) = m.calls
           /\ m.role = "tool" => OpenIn(Append(t, m)) = OpenIn(t) \ m.calls
           /\ m.role \in {"system", "user"} => OpenIn(Append(t, m)) = OpenIn(t)
PROOF
  <1> DEFINE n == Len(t)
             u == Append(t, m)
             A == {i \in 1..Len(t) : t[i].role = "assistant"}
             B == {i \in 1..Len(u) : u[i].role = "assistant"}
             a == IF A # {} THEN Max(A) ELSE 0
             b == IF B # {} THEN Max(B) ELSE 0
  <1>1. /\ n \in Nat /\ Len(u) = n + 1 /\ u[n + 1] = m
        /\ \A i \in 1..n : u[i] = t[i]
    BY AppendProperties
  <1>2. /\ OpenIn(t) = IF a = 0 THEN {} ELSE t[a].calls \ ResultsAfter(t, a)
        /\ OpenIn(u) = IF b = 0 THEN {} ELSE u[b].calls \ ResultsAfter(u, b)
    BY DEF OpenIn, SelectLastInSeq
  <1>3. A \subseteq 1..n /\ (a = 0 \/ a \in 1..n)
    <2>1. A \in SUBSET (1..n)
      OBVIOUS
    <2> HIDE DEF A
    <2>2. ASSUME A # {} PROVE Max(A) \in 1..n
      <3>1. PICK k \in A : \A j \in A : j <= k
        BY <1>1, <2>1, <2>2, LastPlace
      <3>2. k \in Int /\ \A j \in A : k >= j /\ j \in Int
        BY <1>1, <2>1, <3>1
      <3>3. Max(A) = k
        BY <3>1, <3>2, MaxIs
      <3> QED BY <2>1, <3>1, <3>3
    <2> QED BY <2>1, <2>2
  <1>4. CASE m.role = "assistant"
    <2>1. n + 1 \in B /\ \A j \in B : n + 1 >= j /\ j \in Int
      BY <1>1, <1>4
    <2>2. b = n + 1
      <3>1. n + 1 \in Int
        BY <1>1
      <3> HIDE DEF B
      <3>2. Max(B) = n + 1
        BY <2>1, <3>1, MaxIs
      <3> QED BY <2>1, <3>2
    <2>3. ResultsAfter(u, n + 1) = {}
      BY <1>1 DEF ResultsAfter
    <2> HIDE DEF b, u
    <2>4. n + 1 # 0
      BY <1>1
    <2>5. OpenIn(u) = u[n + 1].calls \ {}
      BY <1>2, <2>2, <2>3, <2>4
    <2> QED BY <1>1, <1>4, <2>5 DEF u
  <1>5. CASE m.role # "assistant"
    <2>1. B = A
      BY <1>1, <1>5
    <2>2. b = a
      BY <2>1
    <2> HIDE DEF A, B, a, b
    <2>3. ASSUME a \in 1..n
          PROVE  /\ u[a] = t[a]
                 /\ m.role = "tool" => ResultsAfter(u, a) = ResultsAfter(t, a) \cup m.calls
                 /\ m.role # "tool" => ResultsAfter(u, a) = ResultsAfter(t, a)
      <3> DEFINE K == {k \in a + 1..Len(t) : t[k].role = "tool"}
                 L == {k \in a + 1..Len(u) : u[k].role = "tool"}
      <3>1. u[a] = t[a] /\ a \in Nat /\ a <= n
        BY <1>1, <2>3
      <3>2. \A k \in K : u[k] = t[k]
        BY <1>1, <3>1
      <3>3. m.role = "tool" => L = K \cup {n + 1}
        BY <1>1, <3>1
      <3>4. m.role # "tool" => L = K
        BY <1>1, <3>1
      <3>5. ResultsAfter(t, a) = UNION {t[k].calls : k \in K}
        BY DEF ResultsAfter
      <3>6. ResultsAfter(u, a) = UNION {u[k].calls : k \in L}
        BY DEF ResultsAfter
      <3> HIDE DEF K, L, u
      <3>7. UNION {u[k].calls : k \in K} = UNION {t[k].calls : k \in K}
        BY <3>2
      <3>8. UNION {u[k].calls : k \in K \cup {n + 1}}
              = (UNION {u[k].calls : k \in K}) \cup u[n + 1].calls
        OBVIOUS
      <3> QED BY <1>1, <3>1, <3>3, <3>4, <3>5, <3>6, <3>7, <3>8
    <2> HIDE DEF u, n
    <2>4. CASE a = 0
      BY <1>2, <1>5, <2>2, <2>4 DEF u
    <2>5. CASE a \in 1..n
      <3>1. a # 0
        BY <1>1, <2>5
      <3>2. OpenIn(t) = t[a].calls \ ResultsAfter(t, a)
            /\ OpenIn(u) = t[a].calls \ ResultsAfter(u, a)
        BY <1>2, <2>2, <2>3, <2>5, <3>1
      <3>3. m.role = "tool" => OpenIn(u) = OpenIn(t) \ m.calls
        BY <2>3, <2>5, <3>2
      <3>4. m.role # "tool" => OpenIn(u) = OpenIn(t)
        BY <2>3, <2>5, <3>2
      <3> QED BY <1>5, <3>3, <3>4 DEF u
    <2> QED BY <1>3, <2>4, <2>5 DEF n
  <1> QED BY <1>4, <1>5

(* What an agent says keeps the account of what the last answer is owed: it says something *)
(* else only when nothing is, and its tools answer only what is.                            *)
LEMMA TranslateOwes ==
    ASSUME NEW sent \in Seq(SentRecords), NEW m \in TalkRecords, NEW open, NEW rest,
           Owing(sent, open),
           \/ m.role = "system" /\ rest = open
           \/ m.role = "user" /\ open = {} /\ rest = {}
           \/ m.role = "assistant" /\ open = {} /\ rest = m.calls
           \/ m.role = "tool" /\ m.calls # {} /\ m.calls \subseteq open /\ rest = open \ m.calls
    PROVE  Owing(Translate(sent, m), rest)
PROOF
  <1> DEFINE n == Len(sent)
  <1>1. /\ n \in Nat /\ m.calls \in SUBSET ToolCalls /\ m.text \in BOOLEAN
        /\ sent # <<>> <=> n > 0
    BY EmptySeq DEF TalkRecords
  <1>2. ASSUME NEW r \in SentRecords
        PROVE  /\ Append(sent, r) \in Seq(SentRecords) /\ Len(Append(sent, r)) = n + 1
               /\ Append(sent, r)[n + 1] = r /\ \A i \in 1..n : Append(sent, r)[i] = sent[i]
               /\ Append(sent, r) # <<>>
    <2>1. PICK s : s = Append(sent, r)
      OBVIOUS
    <2>2. /\ s \in Seq(SentRecords) /\ Len(s) = n + 1 /\ s[n + 1] = r
          /\ \A i \in 1..n : s[i] = sent[i]
      BY <2>1, AppendProperties
    <2>3. s # <<>>
      BY <1>1, <2>2, EmptySeq
    <2> QED BY <2>1, <2>2, <2>3
  <1>3. CASE m.role = "system"
    BY <1>3 DEF Translate
  <1>4. CASE m.role = "assistant" /\ ~m.text /\ m.calls = {}
    BY <1>4 DEF Translate
  <1>5. ASSUME NEW r \in SentRecords, open = {}, r.results = {},
               r.uses = rest, rest # {} => r.role = "assistant"
        PROVE  Owing(Append(sent, r), rest)
    <2>1. PICK s : s = Append(sent, r)
      OBVIOUS
    <2>2. /\ Len(s) = n + 1 /\ s[n + 1] = r /\ s # <<>> /\ \A i \in 1..n : s[i] = sent[i]
      BY <1>2, <2>1
    <2>3. ASSUME NEW i \in 1..(n + 1)
          PROVE  /\ s[i].uses # {} =>
                      /\ s[i].role = "assistant" /\ s[i].results = {}
                      /\ i = n + 1 => s[i].uses = rest
                      /\ i + 1 = n + 1 => s[i + 1].results \cup rest = s[i].uses
                      /\ i + 1 < n + 1 => s[i + 1].results = s[i].uses
                 /\ s[i].results # {} => /\ i > 1 /\ s[i].role = "user" /\ s[i].list
                                         /\ s[i - 1].uses # {}
      <3>1. CASE i = n + 1
        BY <1>1, <1>5, <2>2, <3>1
      <3>2. CASE i = n
        <4>1. s[i] = sent[i] /\ i \in 1..Len(sent) /\ ~(i = n + 1) /\ ~(i + 1 < n + 1)
          BY <1>1, <2>2, <3>2
        <4>2. sent[i].uses = {}
          BY <1>5, <3>2, <4>1 DEF Owing
        <4>3. sent[i].results # {} => /\ i > 1 /\ sent[i].role = "user" /\ sent[i].list
                                      /\ sent[i - 1].uses # {}
          BY <4>1 DEF Owing
        <4>4. i > 1 => s[i - 1] = sent[i - 1]
          BY <1>1, <2>2, <4>1
        <4> QED BY <4>1, <4>2, <4>3, <4>4
      <3>3. CASE i < n
        <4>1. s[i] = sent[i] /\ s[i + 1] = sent[i + 1] /\ i \in 1..Len(sent)
              /\ ~(i = n + 1) /\ ~(i + 1 = n + 1) /\ ~(i = n) /\ (i + 1 = n \/ i + 1 < n)
          BY <1>1, <2>2, <3>3
        <4>2. sent[i].uses # {} =>
                /\ sent[i].role = "assistant" /\ sent[i].results = {}
                /\ i + 1 = n => sent[i + 1].results \cup open = sent[i].uses
                /\ i + 1 < n => sent[i + 1].results = sent[i].uses
          BY <4>1 DEF Owing
        <4>3. sent[i].results # {} => /\ i > 1 /\ sent[i].role = "user" /\ sent[i].list
                                      /\ sent[i - 1].uses # {}
          BY <4>1 DEF Owing
        <4>4. i > 1 => s[i - 1] = sent[i - 1]
          BY <1>1, <2>2, <4>1
        <4> QED BY <1>5, <4>1, <4>2, <4>3, <4>4
      <3>4. i = n + 1 \/ i = n \/ i < n
        BY <1>1
      <3> QED BY <3>1, <3>2, <3>3, <3>4
    <2>4. rest # {} => s[n + 1].uses # {}
      BY <1>5, <2>2
    <2> HIDE DEF n
    <2>5. Owing(s, rest)
      BY <2>2, <2>3, <2>4 DEF Owing
    <2> QED BY <2>1, <2>5
  <1>6. CASE m.role = "user"
    <2>1. PICK r : r = Sent("user", {}, {}, m.list)
      OBVIOUS
    <2>2. r \in SentRecords /\ r.results = {} /\ r.uses = {}
      BY <2>1 DEF Sent, SentRecords, TalkRecords
    <2>3. Translate(sent, m) = Append(sent, r)
      BY <1>6, <2>1 DEF Translate
    <2> QED BY <1>5, <1>6, <2>2, <2>3
  <1>7. CASE m.role = "assistant" /\ (m.text \/ m.calls # {})
    <2>1. PICK r : r = Sent("assistant", m.calls, {}, TRUE)
      OBVIOUS
    <2>2. r \in SentRecords /\ r.results = {} /\ r.uses = m.calls /\ r.role = "assistant"
      BY <1>1, <2>1 DEF Sent, SentRecords
    <2>3. Translate(sent, m) = Append(sent, r)
      BY <1>7, <2>1 DEF Translate
    <2> QED BY <1>5, <1>7, <2>2, <2>3
  <1>8. CASE m.role = "tool"
    <2>1. /\ m.calls # {} /\ m.calls \subseteq open /\ rest = open \ m.calls /\ open # {}
          /\ m.calls \cup rest = open
      BY <1>8
    <2>2. n > 0 /\ (sent[n].uses # {} \/ sent[n].results # {}) /\ n \in 1..n
      BY <1>1, <2>1 DEF Owing
    <2>3. Translate(sent, m) = WithResult(sent, m) /\ Last(sent) = sent[n]
      BY <1>8 DEF Translate, Last
    <2>4. CASE sent[n].uses # {}
      <3>1. sent[n].role = "assistant" /\ sent[n].results = {} /\ sent[n].uses = open
        BY <2>2, <2>4 DEF Owing
      <3>2. PICK r : r = Sent("user", {}, m.calls, TRUE)
        OBVIOUS
      <3>3. /\ r \in SentRecords /\ r.results = m.calls /\ r.uses = {} /\ r.role = "user"
            /\ r.list = TRUE
        BY <1>1, <3>2 DEF Sent, SentRecords
      <3>4. PICK s : s = Append(sent, r)
        OBVIOUS
      <3>5. Translate(sent, m) = s
        BY <2>3, <3>1, <3>2, <3>4 DEF WithResult
      <3>6. /\ Len(s) = n + 1 /\ s[n + 1] = r /\ s # <<>> /\ \A i \in 1..n : s[i] = sent[i]
        BY <1>2, <3>3, <3>4
      <3>7. ASSUME NEW i \in 1..(n + 1)
            PROVE  /\ s[i].uses # {} =>
                        /\ s[i].role = "assistant" /\ s[i].results = {}
                        /\ i = n + 1 => s[i].uses = rest
                        /\ i + 1 = n + 1 => s[i + 1].results \cup rest = s[i].uses
                        /\ i + 1 < n + 1 => s[i + 1].results = s[i].uses
                   /\ s[i].results # {} => /\ i > 1 /\ s[i].role = "user" /\ s[i].list
                                           /\ s[i - 1].uses # {}
        <4>1. CASE i = n + 1
          <5>1. i > 1 /\ i - 1 = n /\ s[i] = r /\ s[i - 1] = sent[n]
            BY <1>1, <2>2, <3>6, <4>1
          <5> QED BY <2>4, <3>3, <5>1
        <4>2. CASE i = n
          <5>1. s[i] = sent[i] /\ s[i + 1] = r /\ ~(i = n + 1) /\ ~(i + 1 < n + 1)
            BY <1>1, <2>2, <3>6, <4>2
          <5>2. sent[i].role = "assistant" /\ sent[i].results = {} /\ sent[i].uses = open
            BY <3>1, <4>2
          <5> QED BY <2>1, <3>3, <5>1, <5>2
        <4>3. CASE i < n
          <5>1. s[i] = sent[i] /\ s[i + 1] = sent[i + 1] /\ i \in 1..Len(sent)
                /\ ~(i = n + 1) /\ ~(i + 1 = n + 1) /\ ~(i = n) /\ (i + 1 = n \/ i + 1 < n)
            BY <1>1, <3>6, <4>3
          <5>2. sent[i].uses # {} =>
                  /\ sent[i].role = "assistant" /\ sent[i].results = {}
                  /\ i + 1 = n => sent[i + 1].results \cup open = sent[i].uses
                  /\ i + 1 < n => sent[i + 1].results = sent[i].uses
            BY <5>1 DEF Owing
          <5>3. sent[i].results # {} => /\ i > 1 /\ sent[i].role = "user" /\ sent[i].list
                                        /\ sent[i - 1].uses # {}
            BY <5>1 DEF Owing
          <5>4. i > 1 => s[i - 1] = sent[i - 1]
            BY <1>1, <3>6, <5>1
          <5>5. i + 1 = n => sent[i].uses = {}
            BY <2>1, <3>1, <5>2
          <5> QED BY <5>1, <5>2, <5>3, <5>4, <5>5
        <4>4. i = n + 1 \/ i = n \/ i < n
          BY <1>1
        <4> QED BY <4>1, <4>2, <4>3, <4>4
      <3>8. s[n + 1].results # {}
        BY <2>1, <3>3, <3>6
      <3> HIDE DEF n
      <3>9. Owing(s, rest)
        BY <3>6, <3>7, <3>8 DEF Owing
      <3> QED BY <3>5, <3>9
    <2>5. CASE sent[n].uses = {}
      <3>1. /\ n > 1 /\ sent[n].role = "user" /\ sent[n].list /\ sent[n - 1].uses # {}
            /\ sent[n].results # {}
        BY <2>2, <2>5 DEF Owing
      <3>2. n - 1 \in 1..n /\ (n - 1) + 1 = n
        BY <1>1, <3>1
      <3>3. sent[n].results \cup open = sent[n - 1].uses
        BY <3>1, <3>2 DEF Owing
      <3>4. PICK r : r = [sent[n] EXCEPT !.results = @ \cup m.calls]
        OBVIOUS
      <3>5. sent[n] \in SentRecords
        BY <2>2
      <3>6. /\ r.results = sent[n].results \cup m.calls /\ r.uses = {} /\ r.role = "user"
            /\ r.list = sent[n].list
        BY <2>5, <3>1, <3>4, <3>5 DEF SentRecords
      <3>7. PICK s : s = [sent EXCEPT ![n].results = @ \cup m.calls]
        OBVIOUS
      <3>8. s = [sent EXCEPT ![n] = r]
        BY <3>4, <3>7
      <3>9. Translate(sent, m) = s
        BY <1>1, <2>2, <2>3, <3>1, <3>7 DEF WithResult
      <3>10. DOMAIN sent = 1..n /\ DOMAIN s = 1..n
        BY <3>8
      <3>11. s[n] = r /\ \A i \in 1..n : i # n => s[i] = sent[i]
        BY <2>2, <3>8, <3>10
      <3>12. s \in Seq(SentRecords)
        BY <3>9, TranslateTyped
      <3>13. Len(s) = n /\ s # <<>>
        BY <1>1, <2>2, <3>10, <3>12, EmptySeq
      <3>14. ASSUME NEW i \in 1..n
             PROVE  /\ s[i].uses # {} =>
                         /\ s[i].role = "assistant" /\ s[i].results = {}
                         /\ i = n => s[i].uses = rest
                         /\ i + 1 = n => s[i + 1].results \cup rest = s[i].uses
                         /\ i + 1 < n => s[i + 1].results = s[i].uses
                    /\ s[i].results # {} => /\ i > 1 /\ s[i].role = "user" /\ s[i].list
                                            /\ s[i - 1].uses # {}
        <4>1. CASE i = n
          <5>1. n - 1 \in 1..n /\ n - 1 # n
            BY <1>1, <3>1
          <5>2. s[n - 1] = sent[n - 1]
            BY <3>11, <5>1
          <5>3. s[i] = r /\ i > 1 /\ s[i - 1] = sent[n - 1]
            BY <3>1, <3>11, <4>1, <5>2
          <5> QED BY <3>1, <3>6, <4>1, <5>3
        <4>2. CASE i < n
          <5>1. s[i] = sent[i] /\ i \in 1..Len(sent) /\ ~(i = n) /\ (i + 1 = n \/ i + 1 < n)
            BY <1>1, <3>11, <4>2
          <5>2. sent[i].uses # {} =>
                  /\ sent[i].role = "assistant" /\ sent[i].results = {}
                  /\ i + 1 = n => sent[i + 1].results \cup open = sent[i].uses
                  /\ i + 1 < n => sent[i + 1].results = sent[i].uses
            BY <5>1 DEF Owing
          <5>3. sent[i].results # {} => /\ i > 1 /\ sent[i].role = "user" /\ sent[i].list
                                        /\ sent[i - 1].uses # {}
            BY <5>1 DEF Owing
          <5>4. i > 1 => s[i - 1] = sent[i - 1]
            BY <1>1, <3>11, <5>1, <4>2
          <5>5. i + 1 < n => s[i + 1] = sent[i + 1]
            BY <1>1, <3>11, <5>1
          <5>6. i + 1 = n => s[i + 1] = r /\ r.results \cup rest = sent[i + 1].results \cup open
            BY <2>1, <3>6, <3>11
          <5> QED BY <5>1, <5>2, <5>3, <5>4, <5>5, <5>6
        <4>3. i = n \/ i < n
          BY <1>1
        <4> QED BY <4>1, <4>2, <4>3
      <3>15. s[n].results # {}
        BY <2>1, <3>6, <3>11
      <3> HIDE DEF n
      <3>16. Owing(s, rest)
        BY <3>13, <3>14, <3>15 DEF Owing
      <3> QED BY <3>9, <3>16
    <2> QED BY <2>4, <2>5
  <1> QED BY <1>1, <1>3, <1>4, <1>6, <1>7, <1>8

(* When nothing is owed, the API takes the conversation. *)
LEMMA NothingOwed ==
    ASSUME NEW sent \in Seq(SentRecords), Owing(sent, {})
    PROVE  WellFormed(sent)
PROOF
  <1>1. DOMAIN sent = 1..Len(sent) /\ Len(sent) \in Nat
    OBVIOUS
  <1>2. ASSUME NEW i \in 1..Len(sent)
        PROVE  /\ sent[i].uses # {} => /\ i < Len(sent)
                                       /\ sent[i + 1].results = sent[i].uses
               /\ sent[i].results # {} => /\ i > 1 /\ sent[i].role = "user"
                                          /\ sent[i].results = sent[i - 1].uses
    <2> DEFINE n == Len(sent)
    <2> HIDE DEF n
    <2>0. n \in Nat /\ i \in 1..n
      BY <1>1 DEF n
    <2>5. i = n \/ i + 1 = n \/ i + 1 < n
      BY <2>0
    <2>6. i # n => i < n
      BY <2>0
    <2> USE DEF n
    <2>1. i = Len(sent) \/ i + 1 = Len(sent) \/ i + 1 < Len(sent)
      BY <2>5
    <2>2. sent[i].uses # {} => i < Len(sent) /\ sent[i + 1].results = sent[i].uses
      <3>1. sent[i].uses # {} => i # Len(sent)
        BY DEF Owing
      <3>2. sent[i].uses # {} /\ i + 1 = Len(sent) => sent[i + 1].results = sent[i].uses
        BY DEF Owing
      <3>3. sent[i].uses # {} /\ i + 1 < Len(sent) => sent[i + 1].results = sent[i].uses
        BY DEF Owing
      <3>4. i # Len(sent) => i < Len(sent)
        BY <2>6
      <3> QED BY <2>1, <3>1, <3>2, <3>3, <3>4
    <2>3. sent[i].results # {} => i > 1 /\ sent[i].role = "user" /\ sent[i - 1].uses # {}
      BY DEF Owing
    <2>4. ASSUME i > 1, sent[i - 1].uses # {} PROVE sent[i].results = sent[i - 1].uses
      <3>1. PICK k : k = i - 1
        OBVIOUS
      <3>2. k \in 1..Len(sent) /\ k + 1 = i /\ (k + 1 = Len(sent) \/ k + 1 < Len(sent))
        <4> HIDE DEF n
        <4>1. i > 1
          BY <2>4
        <4>2. k \in 1..n /\ k + 1 = i /\ (k + 1 = n \/ k + 1 < n)
          BY <2>0, <3>1, <4>1
        <4> QED BY <4>2 DEF n
      <3>3. sent[k].uses # {}
        BY <2>4, <3>1
      <3>4. sent[k + 1].results = sent[k].uses
        BY <3>2, <3>3 DEF Owing
      <3> QED BY <3>1, <3>2, <3>4
    <2> QED BY <2>2, <2>3, <2>4
  <1> QED BY <1>1, <1>2 DEF WellFormed

(* A conversation that grows keeps its account. *)
LEMMA TalkGrows ==
    ASSUME ModelInv, NEW g \in Agents, NEW m \in TalkRecords, Adds(g, m),
           \/ m.role = "system"
           \/ m.role \in {"user", "assistant"} /\ OpenIn(talk[g]) = {}
           \/ m.role = "tool" /\ m.calls # {} /\ m.calls \subseteq OpenIn(talk[g])
    PROVE  /\ talk' \in [Agents -> Seq(TalkRecords)]
           /\ \A h \in Agents : Owing(ToMessages(talk'[h]), OpenIn(talk'[h]))
PROOF
  <1>1. talk \in [Agents -> Seq(TalkRecords)] /\ talk[g] \in Seq(TalkRecords)
    BY DEF ModelInv, ModelTyped
  <1>2. PICK u : u = Append(talk[g], m)
    OBVIOUS
  <1>3. u \in Seq(TalkRecords)
    BY <1>1, <1>2, AppendProperties
  <1>4. talk' = [talk EXCEPT ![g] = u]
    BY <1>2 DEF Adds
  <1>5. talk' \in [Agents -> Seq(TalkRecords)]
        /\ \A h \in Agents : talk'[h] = IF h = g THEN u ELSE talk[h]
    BY <1>1, <1>3, <1>4
  <1>6. /\ m.role = "assistant" => OpenIn(u) = m.calls
        /\ m.role = "tool" => OpenIn(u) = OpenIn(talk[g]) \ m.calls
        /\ m.role \in {"system", "user"} => OpenIn(u) = OpenIn(talk[g])
    BY <1>1, <1>2, OpenAfter
  <1>7. /\ ToMessages(talk[g]) \in Seq(SentRecords)
        /\ ToMessages(u) = Translate(ToMessages(talk[g]), m)
    BY <1>1, <1>2, MessagesAppend
  <1>8. Owing(ToMessages(talk[g]), OpenIn(talk[g]))
    BY DEF ModelInv
  <1>9. Owing(Translate(ToMessages(talk[g]), m), OpenIn(u))
    BY <1>6, <1>7, <1>8, TranslateOwes
  <1> QED BY <1>5, <1>7, <1>9 DEF ModelInv

(* One more script is used: the one that was queued first. *)
LEMMA ScriptUsed ==
    ASSUME NEW answers \in Seq(AnswerRecords), NEW waiting \in Seq(Scripts),
           NEW all \in Seq(Scripts), waiting # <<>>, NEW g \in Agents,
           ScriptsInOrder(answers, waiting, all)
    PROVE  /\ Append(answers, [agent |-> g, script |-> Head(waiting)]) \in Seq(AnswerRecords)
           /\ RemoveFirst(waiting, Head(waiting)) \in Seq(Scripts)
           /\ ScriptsInOrder(Append(answers, [agent |-> g, script |-> Head(waiting)]),
                             RemoveFirst(waiting, Head(waiting)), all)
PROOF
  <1>1. /\ Len(waiting) \in Nat /\ Len(waiting) > 0 /\ Head(waiting) = waiting[1]
        /\ Head(waiting) \in Scripts /\ Tail(waiting) \in Seq(Scripts)
        /\ Len(Tail(waiting)) = Len(waiting) - 1
        /\ \A i \in 1..(Len(waiting) - 1) : Tail(waiting)[i] = waiting[i + 1]
    BY HeadAndRest
  <1>2. PICK w \in Seq(Scripts) : w = Tail(waiting)
    BY <1>1
  <1>3. RemoveFirst(waiting, Head(waiting)) = w
    BY <1>2, RemoveHead
  <1>4. PICK r : r = [agent |-> g, script |-> Head(waiting)]
    OBVIOUS
  <1>5. r \in AnswerRecords /\ r.script = waiting[1]
    BY <1>1, <1>4 DEF AnswerRecords
  <1>6. PICK b : b = Append(answers, r)
    OBVIOUS
  <1>7. /\ b \in Seq(AnswerRecords) /\ Len(b) = Len(answers) + 1 /\ b[Len(answers) + 1] = r
        /\ \A i \in 1..Len(answers) : b[i] = answers[i]
    BY <1>5, <1>6, AppendProperties
  <1>8. PICK n \in Nat : n = Len(answers)
    OBVIOUS
  <1>9. PICK k \in Nat : k = Len(all) - Len(waiting)
    <2>1. Len(waiting) <= Len(all) /\ Len(all) \in Nat
      BY DEF ScriptsInOrder
    <2>2. Len(all) - Len(waiting) \in Nat
      BY <1>1, <2>1
    <2> QED BY <2>2
  <1>10. /\ Len(w) <= Len(all) /\ Len(all) - Len(w) = k + 1
    BY <1>1, <1>2, <1>9 DEF ScriptsInOrder
  <1>11. all[k + 1] = r.script
    <2>1. 1 \in 1..Len(waiting)
      BY <1>1
    <2>2. waiting[1] = all[k + 1]
      BY <1>9, <2>1 DEF ScriptsInOrder
    <2> QED BY <1>5, <2>2
  <1>12. ASSUME NEW i \in 1..Len(w) PROVE w[i] = all[k + 1 + i]
    <2>1. i \in 1..(Len(waiting) - 1) /\ i + 1 \in 1..Len(waiting)
      BY <1>1, <1>2
    <2>2. w[i] = waiting[i + 1]
      BY <1>1, <1>2, <2>1
    <2>3. waiting[i + 1] = all[k + (i + 1)]
      BY <1>9, <2>1 DEF ScriptsInOrder
    <2>4. k + (i + 1) = k + 1 + i
      BY <2>1
    <2> QED BY <2>2, <2>3, <2>4
  <1>13. UsedInOrder(answers, all, n, k)
    BY <1>8, <1>9 DEF ScriptsInOrder
  <1>14. 1..k \subseteq 1..(k + 1) /\ k + 1 \in 1..(k + 1) /\ \A m \in 1..k : m < k + 1
    OBVIOUS
  <1>15. ASSUME NEW i \in 1..(n + 1), b[i].script # NoScript
         PROVE  \E m \in 1..(k + 1) : all[m] = b[i].script
    <2>1. CASE i = n + 1
      BY <1>7, <1>8, <1>11, <1>14, <2>1
    <2>2. CASE i \in 1..n
      BY <1>7, <1>8, <1>13, <1>14, <1>15, <2>2 DEF UsedInOrder
    <2> QED BY <2>1, <2>2
  <1>16. ASSUME NEW i \in 1..(n + 1), NEW j \in 1..(n + 1), i < j,
                b[i].script # NoScript, b[j].script # NoScript
         PROVE  \E p, q \in 1..(k + 1) : p < q /\ all[p] = b[i].script /\ all[q] = b[j].script
    <2>0. i \in 1..n /\ b[i] = answers[i]
      BY <1>7, <1>8, <1>16
    <2>1. CASE j = n + 1
      <3>1. b[j].script = all[k + 1]
        BY <1>7, <1>8, <1>11, <2>1
      <3>2. PICK p \in 1..k : all[p] = b[i].script
        BY <1>13, <1>16, <2>0 DEF UsedInOrder
      <3> QED BY <1>14, <3>1, <3>2
    <2>2. CASE j \in 1..n
      <3>1. b[j] = answers[j]
        BY <1>7, <1>8, <2>2
      <3>2. \E p, q \in 1..k : p < q /\ all[p] = answers[i].script /\ all[q] = answers[j].script
        BY <1>13, <1>16, <2>0, <2>2, <3>1 DEF UsedInOrder
      <3> QED BY <1>14, <2>0, <3>1, <3>2
    <2>3. j = n + 1 \/ j \in 1..n
      OBVIOUS
    <2> QED BY <2>1, <2>2, <2>3
  <1>17. ScriptsInOrder(b, w, all)
    <2>1. UsedInOrder(b, all, n + 1, k + 1)
      BY <1>15, <1>16 DEF UsedInOrder
    <2>2. UsedInOrder(b, all, Len(b), Len(all) - Len(w))
      BY <1>7, <1>8, <1>10, <2>1
    <2>3. \A i \in 1..Len(w) : w[i] = all[Len(all) - Len(w) + i]
      BY <1>10, <1>12
    <2> QED BY <1>10, <2>2, <2>3 DEF ScriptsInOrder
  <1> QED BY <1>3, <1>4, <1>6, <1>7, <1>17

(* One more script is queued, behind all the others. *)
LEMMA ScriptQueued ==
    ASSUME NEW answers \in Seq(AnswerRecords), NEW waiting \in Seq(Scripts),
           NEW all \in Seq(Scripts), NEW s \in Scripts,
           ScriptsInOrder(answers, waiting, all)
    PROVE  /\ Append(waiting, s) \in Seq(Scripts) /\ Append(all, s) \in Seq(Scripts)
           /\ ScriptsInOrder(answers, Append(waiting, s), Append(all, s))
PROOF
  <1>1. PICK w, a : w = Append(waiting, s) /\ a = Append(all, s)
    OBVIOUS
  <1>2. PICK n \in Nat, k \in Nat : n = Len(waiting) /\ Len(all) = k + n
    <2>1. Len(all) - Len(waiting) \in Nat
          /\ Len(all) = (Len(all) - Len(waiting)) + Len(waiting) /\ Len(waiting) \in Nat
      BY DEF ScriptsInOrder
    <2> QED BY <2>1
  <1>3. /\ w \in Seq(Scripts) /\ Len(w) = n + 1 /\ w[n + 1] = s
        /\ \A i \in 1..n : w[i] = waiting[i]
    BY <1>1, <1>2, AppendProperties
  <1>4. /\ a \in Seq(Scripts) /\ Len(a) = k + n + 1 /\ a[k + n + 1] = s
        /\ \A i \in 1..(k + n) : a[i] = all[i]
    BY <1>1, <1>2, AppendProperties
  <1>5. Len(a) - Len(w) = k /\ Len(all) - Len(waiting) = k /\ Len(w) <= Len(a)
    BY <1>2, <1>3, <1>4
  <1>6. \A m \in 1..k : a[m] = all[m]
    BY <1>2, <1>4
  <1>7. ASSUME NEW i \in 1..(n + 1) PROVE w[i] = a[k + i]
    <2>1. CASE i = n + 1
      <3>1. k + i = k + n + 1
        BY <1>2, <2>1
      <3> QED BY <1>3, <1>4, <2>1, <3>1
    <2>2. CASE i \in 1..n
      <3>1. k + i \in 1..(k + n)
        BY <1>2, <2>2
      <3>2. waiting[i] = all[k + i]
        BY <1>2, <1>5, <2>2 DEF ScriptsInOrder
      <3> QED BY <1>3, <1>4, <2>2, <3>1, <3>2
    <2> QED BY <1>2, <2>1, <2>2
  <1>8. UsedInOrder(answers, all, Len(answers), k)
    BY <1>5 DEF ScriptsInOrder
  <1>9. ScriptsInOrder(answers, w, a)
    <2>1. UsedInOrder(answers, a, Len(answers), k)
      BY <1>6, <1>8 DEF UsedInOrder
    <2>2. UsedInOrder(answers, a, Len(answers), Len(a) - Len(w))
      BY <1>5, <2>1
    <2>3. \A i \in 1..Len(w) : w[i] = a[Len(a) - Len(w) + i]
      BY <1>3, <1>5, <1>7
    <2> QED BY <1>5, <2>2, <2>3 DEF ScriptsInOrder
  <1> QED BY <1>1, <1>3, <1>4, <1>9

(* An answer of the API is no script's. *)
LEMMA ApiInOrder ==
    ASSUME NEW answers \in Seq(AnswerRecords), NEW waiting \in Seq(Scripts),
           NEW all \in Seq(Scripts), NEW g \in Agents,
           ScriptsInOrder(answers, waiting, all)
    PROVE  /\ Append(answers, [agent |-> g, script |-> NoScript]) \in Seq(AnswerRecords)
           /\ ScriptsInOrder(Append(answers, [agent |-> g, script |-> NoScript]), waiting, all)
PROOF
  <1>1. PICK r : r = [agent |-> g, script |-> NoScript]
    OBVIOUS
  <1>2. r \in AnswerRecords /\ r.script = NoScript
    BY <1>1 DEF AnswerRecords
  <1>3. PICK b : b = Append(answers, r)
    OBVIOUS
  <1>4. /\ b \in Seq(AnswerRecords) /\ Len(b) = Len(answers) + 1 /\ b[Len(answers) + 1] = r
        /\ \A i \in 1..Len(answers) : b[i] = answers[i]
    BY <1>2, <1>3, AppendProperties
  <1>5. PICK n \in Nat : n = Len(answers)
    OBVIOUS
  <1>6. \A i \in 1..(n + 1) : b[i].script # NoScript => i \in 1..n /\ b[i] = answers[i]
    BY <1>2, <1>4, <1>5
  <1>7. ScriptsInOrder(b, waiting, all)
    <2>1. PICK k : k = Len(all) - Len(waiting)
      OBVIOUS
    <2>2. UsedInOrder(answers, all, n, k)
      BY <1>5, <2>1 DEF ScriptsInOrder
    <2>3. UsedInOrder(b, all, n + 1, k)
      BY <1>6, <2>2 DEF UsedInOrder
    <2>4. UsedInOrder(b, all, Len(b), Len(all) - Len(waiting))
      BY <1>4, <1>5, <2>1, <2>3
    <2> QED BY <2>4 DEF ScriptsInOrder
  <1> QED BY <1>1, <1>3, <1>4, <1>7

(* Each step of the language model keeps the account, the order of the scripts and the form *)
(* of what was sent.                                                                        *)
LEMMA ModelStepKeeps ==
    ASSUME ModelInv, LanguageModelNext
    PROVE  ModelInv'
PROOF
  <1> USE CallsAssumption
  <1>1. ModelTyped /\ calledBack \in Seq(AnswerRecords) /\ queued \in Seq(Scripts)
        /\ scripted \in Seq(Scripts) /\ ScriptsInOrder(calledBack, queued, scripted)
    BY DEF ModelInv, ModelTyped
  <1>2. ASSUME NEW g \in Agents, NEW role \in {"system", "user"}, NEW list \in BOOLEAN,
               Say(g, role, list)
        PROVE  ModelInv'
    <2>1. PICK m : m = Says(role, {}, TRUE, list)
      OBVIOUS
    <2>2. m \in TalkRecords /\ m.role = role
      BY <2>1 DEF Says, TalkRecords, Roles
    <2>3. /\ Adds(g, m) /\ (m.role = "user" => OpenIn(talk[g]) = {})
          /\ UNCHANGED <<asking, wire, queued, scripted, hasKey, calledBack>>
      BY <1>2, <2>1, <2>2 DEF Say, OpenCalls
    <2>4. /\ talk' \in [Agents -> Seq(TalkRecords)]
          /\ \A h \in Agents : Owing(ToMessages(talk'[h]), OpenIn(talk'[h]))
      BY <2>2, <2>3, TalkGrows
    <2> QED BY <1>1, <2>3, <2>4 DEF ModelInv, ModelTyped
  <1>3. ASSUME NEW g \in Agents, NEW c \in ToolCalls, RunTool(g, c)
        PROVE  ModelInv'
    <2>1. PICK m : m = Says("tool", {c}, TRUE, FALSE)
      OBVIOUS
    <2>2. m \in TalkRecords /\ m.role = "tool" /\ m.calls = {c}
      BY <2>1 DEF Says, TalkRecords, Roles
    <2>3. /\ Adds(g, m) /\ c \in OpenIn(talk[g])
          /\ UNCHANGED <<asking, wire, queued, scripted, hasKey, calledBack>>
      BY <1>3, <2>1 DEF RunTool, OpenCalls
    <2>4. /\ talk' \in [Agents -> Seq(TalkRecords)]
          /\ \A h \in Agents : Owing(ToMessages(talk'[h]), OpenIn(talk'[h]))
      BY <2>2, <2>3, TalkGrows
    <2> QED BY <1>1, <2>3, <2>4 DEF ModelInv, ModelTyped
  <1>4. ASSUME NEW g \in Agents, ChatScripted(g)
        PROVE  ModelInv'
    <2>1. PICK s : s = NextScript
      OBVIOUS
    <2>2. PICK m : m = Says("assistant", CallsOf[s], TRUE, TRUE)
      OBVIOUS
    <2>3. queued # <<>> /\ s = Head(queued) /\ s \in Scripts
      BY <1>1, <1>4, <2>1, HeadAndRest DEF ChatScripted, NextScript
    <2>4. m \in TalkRecords /\ m.role = "assistant"
      BY <2>2, <2>3 DEF Says, TalkRecords, Roles
    <2>5. /\ Adds(g, m) /\ OpenIn(talk[g]) = {}
          /\ queued' = RemoveFirst(queued, Head(queued))
          /\ calledBack' = Append(calledBack, [agent |-> g, script |-> Head(queued)])
          /\ UNCHANGED <<asking, wire, scripted, hasKey>>
      BY <1>4, <2>1, <2>2, <2>3 DEF ChatScripted, Answers, OpenCalls
    <2>6. /\ talk' \in [Agents -> Seq(TalkRecords)]
          /\ \A h \in Agents : Owing(ToMessages(talk'[h]), OpenIn(talk'[h]))
      BY <2>4, <2>5, TalkGrows
    <2>7. /\ calledBack' \in Seq(AnswerRecords) /\ queued' \in Seq(Scripts)
          /\ ScriptsInOrder(calledBack', queued', scripted)
      BY <1>1, <2>3, <2>5, ScriptUsed
    <2> QED BY <1>1, <2>5, <2>6, <2>7 DEF ModelInv, ModelTyped
  <1>5. ASSUME NEW g \in Agents, ChatForReal(g)
        PROVE  ModelInv'
    <2>1. /\ OpenIn(talk[g]) = {} /\ wire' = [wire EXCEPT ![g] = ToMessages(talk[g])]
          /\ asking' = asking \cup {g}
          /\ UNCHANGED <<talk, queued, scripted, hasKey, calledBack>>
      BY <1>5 DEF ChatForReal, OpenCalls
    <2>2. ToMessages(talk[g]) \in Seq(SentRecords)
      <3>1. talk[g] \in Seq(TalkRecords)
        BY <1>1 DEF ModelTyped
      <3>2. PICK m : m = Says("system", {}, TRUE, TRUE)
        OBVIOUS
      <3>3. m \in TalkRecords
        BY <3>2 DEF Says, TalkRecords, Roles
      <3> QED BY <3>1, <3>3, MessagesAppend
    <2>3. Owing(ToMessages(talk[g]), {})
      BY <2>1 DEF ModelInv
    <2>4. WellFormed(ToMessages(talk[g]))
      BY <2>2, <2>3, NothingOwed
    <2>5. wire' \in [Agents -> Seq(SentRecords)]
          /\ \A h \in Agents : wire'[h] = IF h = g THEN ToMessages(talk[g]) ELSE wire[h]
      BY <1>1, <2>1, <2>2 DEF ModelTyped
    <2>6. \A h \in Agents : WellFormed(wire'[h])
      BY <2>4, <2>5 DEF ModelInv
    <2> QED BY <1>1, <2>1, <2>5, <2>6 DEF ModelInv, ModelTyped
  <1>6. ASSUME NEW g \in Agents, ApiFails(g)
        PROVE  ModelInv'
    BY <1>1, <1>6 DEF ModelInv, ModelTyped, ApiFails
  <1>7. ASSUME NEW g \in Agents, NEW a \in ApiReplies, ApiAnswers(g, a.calls, a.text)
        PROVE  ModelInv'
    <2>1. PICK m : m = Says("assistant", a.calls, a.text, TRUE)
      OBVIOUS
    <2>2. m \in TalkRecords /\ m.role = "assistant"
      BY <2>1 DEF Says, TalkRecords, Roles
    <2>3. /\ Adds(g, m) /\ OpenIn(talk[g]) = {} /\ asking' = asking \ {g}
          /\ calledBack' = Append(calledBack, [agent |-> g, script |-> NoScript])
          /\ UNCHANGED <<wire, queued, scripted, hasKey>>
      BY <1>7, <2>1 DEF ApiAnswers, Answers, OpenCalls
    <2>4. /\ talk' \in [Agents -> Seq(TalkRecords)]
          /\ \A h \in Agents : Owing(ToMessages(talk'[h]), OpenIn(talk'[h]))
      BY <2>2, <2>3, TalkGrows
    <2>5. /\ calledBack' \in Seq(AnswerRecords)
          /\ ScriptsInOrder(calledBack', queued, scripted)
      BY <1>1, <2>3, ApiInOrder
    <2> QED BY <1>1, <2>3, <2>4, <2>5 DEF ModelInv, ModelTyped
  <1>8. ASSUME NEW s \in Scripts, MockResponse(s)
        PROVE  ModelInv'
    <2>1. /\ queued' = Append(queued, s) /\ scripted' = Append(scripted, s)
          /\ UNCHANGED <<talk, asking, wire, hasKey, calledBack>>
      BY <1>8 DEF MockResponse
    <2>2. /\ queued' \in Seq(Scripts) /\ scripted' \in Seq(Scripts)
          /\ ScriptsInOrder(calledBack, queued', scripted')
      BY <1>1, <2>1, ScriptQueued
    <2> QED BY <1>1, <2>1, <2>2 DEF ModelInv, ModelTyped
  <1>9. CASE SetApiKey
    BY <1>1, <1>9 DEF ModelInv, ModelTyped, SetApiKey
  <1>10. CASE ResetModel
    <2>1. /\ queued' = <<>> /\ calledBack' = <<>>
          /\ UNCHANGED <<talk, asking, wire, scripted, hasKey>>
      BY <1>10 DEF ResetModel
    <2>2. queued' \in Seq(Scripts) /\ calledBack' \in Seq(AnswerRecords)
          /\ Len(queued') = 0 /\ Len(calledBack') = 0
      BY <2>1, EmptySeq
    <2>3. ScriptsInOrder(calledBack', queued', scripted)
      BY <1>1, <2>2 DEF ScriptsInOrder, UsedInOrder
    <2> QED BY <1>1, <2>1, <2>2, <2>3 DEF ModelInv, ModelTyped
  <1> QED BY <1>2, <1>3, <1>4, <1>5, <1>6, <1>7, <1>8, <1>9, <1>10 DEF LanguageModelNext

(* Nobody has said anything at first. *)
LEMMA ModelAtFirst == LanguageModelInit => ModelInv
PROOF
  <1> SUFFICES ASSUME LanguageModelInit PROVE ModelInv
    OBVIOUS
  <1>1. /\ talk = [g \in Agents |-> <<>>] /\ asking = {} /\ wire = [g \in Agents |-> <<>>]
        /\ queued = <<>> /\ scripted = <<>> /\ hasKey \in BOOLEAN /\ calledBack = <<>>
    BY DEF LanguageModelInit
  <1>2. <<>> \in Seq(TalkRecords) /\ <<>> \in Seq(SentRecords) /\ <<>> \in Seq(Scripts)
        /\ <<>> \in Seq(AnswerRecords) /\ Len(<<>>) = 0
    BY EmptySeq
  <1>3. ModelTyped
    BY <1>1, <1>2 DEF ModelTyped
  <1>4. ToMessages(<<>>) = <<>>
    <2>1. PICK f : /\ f[0] = <<>> /\ ToMessages(<<>>) = f[Len(<<>>)]
      BY <1>2, MessagesFollow
    <2> QED BY <1>2, <2>1
  <1>5. OpenIn(<<>>) = {}
    BY <1>2 DEF OpenIn, SelectLastInSeq
  <1>6. Owing(<<>>, {})
    BY <1>2 DEF Owing
  <1>7. WellFormed(<<>>)
    BY <1>2 DEF WellFormed
  <1>8. ScriptsInOrder(calledBack, queued, scripted)
    BY <1>1, <1>2 DEF ScriptsInOrder, UsedInOrder
  <1>9. \A g \in Agents : talk[g] = <<>> /\ wire[g] = <<>>
    BY <1>1
  <1> QED BY <1>3, <1>4, <1>5, <1>6, <1>7, <1>8, <1>9 DEF ModelInv

(* Every conversation that is sent is one the API takes, and every script is used once, in  *)
(* the order of the scripts: toAnthropicMessages() and chat() of llm.ts.                    *)
THEOREM ConversationsAreTaken == LanguageModelSpec => []ConversationsHold
PROOF
  <1>1. ModelInv /\ [LanguageModelNext]_lmVars => ModelInv'
    <2>1. ASSUME ModelInv, UNCHANGED lmVars PROVE ModelInv'
      BY <2>1 DEF lmVars, ModelInv, ModelTyped
    <2> QED BY <2>1, ModelStepKeeps
  <1>2. ModelInv => ConversationsHold
    <2> SUFFICES ASSUME ModelInv PROVE ConversationsHold
      OBVIOUS
    <2>1. DOMAIN calledBack = 1..Len(calledBack) /\ DOMAIN scripted = 1..Len(scripted)
          /\ Len(queued) \in Nat /\ Len(scripted) \in Nat
      BY DEF ModelInv, ModelTyped
    <2>2. 1..(Len(scripted) - Len(queued)) \subseteq 1..Len(scripted)
      BY <2>1
    <2>3. UsedInOrder(calledBack, scripted, Len(calledBack), Len(scripted) - Len(queued))
      BY DEF ModelInv, ScriptsInOrder
    <2>4. PICK K : K = 1..(Len(scripted) - Len(queued))
      OBVIOUS
    <2>5. \A i, j \in 1..Len(calledBack) :
            i < j /\ calledBack[i].script # NoScript /\ calledBack[j].script # NoScript =>
              \E p, q \in K : p < q /\ scripted[p] = calledBack[i].script
                                    /\ scripted[q] = calledBack[j].script
      BY <2>3, <2>4 DEF UsedInOrder
    <2>6. K \subseteq DOMAIN scripted
      BY <2>1, <2>2, <2>4
    <2>7. \A g \in Agents : WellFormed(wire[g])
      BY DEF ModelInv
    <2> QED BY <2>1, <2>5, <2>6, <2>7 DEF ConversationsHold
  <1> QED BY <1>1, <1>2, ModelAtFirst, PTL DEF LanguageModelSpec

-----------------------------------------------------------------------------
(* Events and schedules *)

\* What the records of the calls hold.
Duties == UNION {ToSet(v.triggers) \cup ToSet(v.schedules) : v \in Versions}
EventKeys == (UNION {ToSet(keys) : keys \in Publishes}) \cup ProductEvents \cup {BadKey}
Uuids == {v.uuid : v \in Versions} \cup {"unknown", "none", "product"}
EventRecords == [app : Uuids, key : EventKeys]
RunRecords == [body : Bodies, code : Nat, seen : Nat, base : Nat]
FiringAnswers == [run : RunRecords, ok : BOOLEAN, under : Nat]
FiredRecords == [event : EventRecords, under : Nat]
FiringStates == {"new", "triggers", "schedules", "between", "done"}
FiringRecords == [at : FiringStates, event : EventRecords, left : Seq(Duties),
                  running : RunRecords \cup {NoRun}, todo : Seq(EventKeys), uuid : Uuids,
                  answers : Seq(FiringAnswers), failed : Seq(EventRecords),
                  fired : Seq(FiredRecords), deploys : Nat]

\* NewestWith, of versions vs of which the first `base` are forgotten.
NewestOf(b, base, seen, vs) ==
  LET loading == {n \in base + 1..seen : b \in vs[n].loads}
      binding == {n \in loading : b \in BoundIn(vs[n])}
  IN  IF binding # {} THEN Max(binding) ELSE IF loading # {} THEN Min(loading) ELSE NoVersion

Simulators == [manifest : Nat, handlers : [Bodies -> Nat], versions : Seq(Versions),
               forgotten : Nat]

\* The registered code of every function is the newest.
LiveHolds(sim) ==
  /\ sim \in Simulators /\ sim.forgotten <= Len(sim.versions)
  /\ sim.manifest = IF sim.forgotten = Len(sim.versions) THEN NoVersion ELSE Len(sim.versions)
  /\ \A b \in Bodies :
       sim.handlers[b] = NewestOf(b, sim.forgotten, Len(sim.versions), sim.versions)

\* The functions that a call has run for its n-th event, and those it is yet to run.
RunBodies(a) == [i \in DOMAIN a |-> a[i].run.body]
BodiesRun(r, n) == RunBodies(Under(r.answers, n))
BodiesLeft(r) == (IF r.running = NoRun THEN <<>> ELSE <<r.running.body>>) \o BodiesIn(r.left)

IsOfNewest(run, vs) ==
  run.seen <= Len(vs) /\ run.code = NewestOf(run.body, run.base, run.seen, vs)
IsOwn(run, d) == run.seen <= d /\ run.base < d => run.code = d

\* Where a call is.
PlaceHolds(r) ==
  /\ r.at = "triggers" => r.fired # <<>>
  /\ r.at = "schedules" => r.fired = <<>> /\ r.todo = <<>>
  /\ r.at = "between" => r.todo # <<>>
  /\ r.fired # <<>> \/ r.at \in {"new", "between"} => r.deploys = NoVersion

\* What runs is of the newest code for its event, or of the deploy's own.
RunningHolds(r, vs) ==
  /\ r.running # NoRun <=> r.at \in {"triggers", "schedules"}
  /\ r.running # NoRun => r.running.code # NoVersion
  /\ r.running = NoRun => r.left = <<>>
  /\ r.at = "triggers" => IsOfNewest(r.running, vs)
  /\ r.deploys # NoVersion /\ r.running # NoRun => IsOwn(r.running, r.deploys)

\* Every answer to an event was of the newest code.
AnswersHold(r, vs) ==
  \A i \in 1..Len(r.answers) :
    /\ r.answers[i].under <= Len(r.fired)
    /\ r.answers[i].under # 0 => IsOfNewest(r.answers[i].run, vs)
    /\ r.fired # <<>> \/ r.at \in {"new", "between"} => r.answers[i].under # 0

\* What was run for its events, with the rest for the last, is what matched them.
EventsMatch(r, vs, rest) ==
  \A n \in 1..Len(r.fired) :
    /\ r.fired[n].under \in 1..Len(vs)
    /\ BodiesRun(r, n) \o (IF n = Len(r.fired) THEN rest ELSE <<>>) =
         BodiesIn(Matched(vs[r.fired[n].under], r.fired[n].event))

\* So are the schedules of a deploy, and their code is its own.
DeploysMatch(r, vs, rest) ==
  r.deploys # NoVersion =>
    /\ r.deploys \in 1..Len(vs)
    /\ BodiesRun(r, 0) \o rest = BodiesIn(LoadedSchedules(vs[r.deploys]))
    /\ \A i \in 1..Len(r.left) : r.left[i] \in ToSet(LoadedSchedules(vs[r.deploys]))
    /\ \A i \in 1..Len(r.answers) : IsOwn(r.answers[i].run, r.deploys)

\* What failed had no manifest.
FailuresHold(r, vs, gone) ==
  /\ r.uuid # "unknown" => Len(vs) > 0
  /\ \A i \in 1..Len(r.failed) : r.failed[i].key # BadKey => gone > 0 \/ r.uuid = "unknown"

FiringHolds(r, vs, gone) ==
  /\ r \in FiringRecords /\ PlaceHolds(r) /\ RunningHolds(r, vs) /\ AnswersHold(r, vs)
  /\ EventsMatch(r, vs, BodiesLeft(r)) /\ DeploysMatch(r, vs, BodiesLeft(r))
  /\ FailuresHold(r, vs, gone)

FiringInv ==
  /\ LiveHolds(live)
  /\ DOMAIN firings = Firings
  /\ \A c \in Firings : FiringHolds(firings[c], live.versions, live.forgotten)

(* What the versions and calls are made of. *)
LEMMA DutiesAre ==
    /\ \A v \in Versions :
         /\ v.triggers \in Seq(Duties) /\ v.schedules \in Seq(Duties) /\ v.loads \subseteq Bodies
         /\ \A i, j \in 1..Len(v.schedules) : v.schedules[i].key = v.schedules[j].key => i = j
    /\ \A x \in Duties : x.body \in Bodies
    /\ \A keys \in Publishes : keys \in Seq(EventKeys) /\ keys # <<>>
    /\ \A v \in Versions : v.uuid \in Uuids
PROOF
  <1>1. ASSUME NEW v \in Versions
        PROVE  /\ v.triggers \in Seq(Duties) /\ v.schedules \in Seq(Duties)
               /\ v.loads \subseteq Bodies
               /\ \A i, j \in 1..Len(v.schedules) : v.schedules[i].key = v.schedules[j].key => i = j
    <2>1. /\ v.triggers \in Seq(ToSet(v.triggers)) /\ v.schedules \in Seq(ToSet(v.schedules))
          /\ v.loads \subseteq Bodies
          /\ \A i, j \in DOMAIN v.schedules : v.schedules[i].key = v.schedules[j].key => i = j
      BY VersionsAssumption
    <2>2. ToSet(v.triggers) \subseteq Duties /\ ToSet(v.schedules) \subseteq Duties
      BY DEF Duties
    <2>3. v.triggers \in Seq(Duties) /\ v.schedules \in Seq(Duties)
      BY <2>1, <2>2
    <2> QED BY <2>1, <2>3
  <1>2. ASSUME NEW x \in Duties PROVE x.body \in Bodies
    <2>1. PICK v \in Versions : x \in ToSet(v.triggers) \cup ToSet(v.schedules)
      BY DEF Duties
    <2> QED BY <2>1, VersionsAssumption DEF ToSet
  <1>3. ASSUME NEW keys \in Publishes PROVE keys \in Seq(EventKeys) /\ keys # <<>>
    <2>1. keys \in Seq(ToSet(keys)) /\ keys # <<>>
      BY VersionsAssumption
    <2>2. ToSet(keys) \subseteq EventKeys
      BY DEF EventKeys
    <2> QED BY <2>1, <2>2
  <1>4. \A v \in Versions : v.uuid \in Uuids
    BY DEF Uuids
  <1> QED BY <1>1, <1>2, <1>3, <1>4

(* The filter of the code is that of the lemmas. *)
LEMMA AmongFilters ==
    ASSUME NEW s, NEW S
    PROVE  Among(s, S) = Filtering(s, S)[Len(s)]
BY DEF Among, Filtering, Filters

(* What the filter keeps is of the sequence. *)
LEMMA AmongIsOf ==
    ASSUME NEW T, NEW s \in Seq(T), NEW S
    PROVE  /\ Among(s, S) \in Seq(T)
           /\ \A i \in 1..Len(Among(s, S)) : Among(s, S)[i] \in S /\ Among(s, S)[i] \in ToSet(s)
PROOF
  <1>1. PICK r : r = Filtering(s, S)[Len(s)]
    OBVIOUS
  <1>2. r \in Seq(T) /\ \E g : PicksUpTo(Len(s), g, r, s, S)
    BY <1>1, FilterIs
  <1>3. PICK g : PicksUpTo(Len(s), g, r, s, S)
    BY <1>2
  <1>4. ASSUME NEW i \in 1..Len(r) PROVE r[i] \in S /\ r[i] \in ToSet(s)
    <2>1. g[i] \in 1..Len(s) /\ r[i] = s[g[i]] /\ r[i] \in S
      BY <1>3 DEF PicksUpTo
    <2> QED BY <2>1 DEF ToSet
  <1> QED BY <1>1, <1>2, <1>4, AmongFilters

\* The answers of the n-th event.
AnswersOf(n) == {a \in FiringAnswers : a.under = n}

\* Answers to one event.
AllUnder(more, k) == \A i \in 1..Len(more) : more[i].under = k
MoreAnswers(a, more, am, k) ==
  /\ a \in Seq(FiringAnswers) /\ more \in Seq(FiringAnswers)
  /\ am = a \o more /\ AllUnder(more, k)

(* The answers of an event grow with those that are given for it, and with no others. *)
LEMMA UnderGrows ==
    ASSUME NEW a, NEW more, NEW k, NEW am, MoreAnswers(a, more, am, k)
    PROVE  /\ Under(am, k) = Under(a, k) \o more
           /\ \A n : n # k => Under(am, n) = Under(a, n)
PROOF
  <1>0. /\ a \in Seq(FiringAnswers) /\ more \in Seq(FiringAnswers)
        /\ am = a \o more /\ AllUnder(more, k)
    BY DEF MoreAnswers
  <1>1. ASSUME NEW b \in Seq(FiringAnswers), NEW n
        PROVE  Under(b, n) = Filtering(b, AnswersOf(n))[Len(b)]
    <2>1. \A i \in 1..Len(b) : b[i] \in {x \in ToSet(b) : x.under = n} <=> b[i] \in AnswersOf(n)
      BY DEF AnswersOf, ToSet
    <2>2. Filtering(b, {x \in ToSet(b) : x.under = n})[Len(b)] = Filtering(b, AnswersOf(n))[Len(b)]
      BY <2>1, FilterSame
    <2> QED BY <2>2, AmongFilters DEF Under
  <1>2. PICK b \in Seq(FiringAnswers) : b = a \o more
    <2>1. a \o more \in Seq(FiringAnswers)
      BY <1>0
    <2> QED BY <2>1
  <1>3. ASSUME NEW n
        PROVE  Under(b, n) = Under(a, n) \o Filtering(more, AnswersOf(n))[Len(more)]
    <2>1. Filtering(a \o more, AnswersOf(n))[Len(a \o more)]
            = Filtering(a, AnswersOf(n))[Len(a)] \o Filtering(more, AnswersOf(n))[Len(more)]
      BY <1>0, FilterOfBoth
    <2>2. Under(b, n) = Filtering(b, AnswersOf(n))[Len(b)]
      BY <1>1
    <2>3. Under(a, n) = Filtering(a, AnswersOf(n))[Len(a)]
      BY <1>0, <1>1
    <2> QED BY <1>2, <2>1, <2>2, <2>3
  <1>4. Under(am, k) = Under(a, k) \o more
    <2>1. \A i \in 1..Len(more) : more[i] \in AnswersOf(k)
      BY <1>0 DEF AnswersOf, AllUnder
    <2>2. Filtering(more, AnswersOf(k))[Len(more)] = more
      BY <1>0, <2>1, FilterOfAll
    <2>3. Under(b, k) = Under(a, k) \o Filtering(more, AnswersOf(k))[Len(more)]
      BY <1>3
    <2> QED BY <1>0, <1>2, <2>2, <2>3
  <1>5. ASSUME NEW n, n # k PROVE Under(am, n) = Under(a, n)
    <2>1. \A i \in 1..Len(more) : more[i] \notin AnswersOf(n)
      BY <1>0, <1>5 DEF AnswersOf, AllUnder
    <2>2. Filtering(more, AnswersOf(n))[Len(more)] = <<>>
      BY <1>0, <2>1, FilterOfNone
    <2>3. Under(a, n) \in Seq(FiringAnswers)
      BY <1>0, AmongIsOf DEF Under
    <2>4. Under(a, n) \o <<>> = Under(a, n)
      BY <2>3
    <2>5. Under(b, n) = Under(a, n) \o Filtering(more, AnswersOf(n))[Len(more)]
      BY <1>3
    <2> QED BY <1>0, <1>2, <2>2, <2>4, <2>5
  <1> QED BY <1>4, <1>5

(* No answers of an event that has none. *)
LEMMA UnderNone ==
    ASSUME NEW a \in Seq(FiringAnswers), NEW n, \A i \in 1..Len(a) : a[i].under # n
    PROVE  Under(a, n) = <<>>
PROOF
  <1>1. \A i \in 1..Len(a) : a[i] \notin {x \in ToSet(a) : x.under = n}
    OBVIOUS
  <1>2. Filtering(a, {x \in ToSet(a) : x.under = n})[Len(a)] = <<>>
    BY <1>1, FilterOfNone
  <1> QED BY <1>2, AmongFilters DEF Under

(* The functions of answers and of duties, place by place. *)
LEMMA RunBodiesAre ==
    ASSUME NEW a \in Seq(FiringAnswers)
    PROVE  /\ RunBodies(a) \in Seq(Bodies) /\ Len(RunBodies(a)) = Len(a)
           /\ \A i \in 1..Len(a) : RunBodies(a)[i] = a[i].run.body
PROOF
  <1>1. PICK n \in Nat : n = Len(a)
    OBVIOUS
  <1>2. DOMAIN a = 1..n /\ \A i \in 1..n : a[i].run.body \in Bodies
    <2>1. \A i \in 1..n : a[i] \in FiringAnswers
      BY <1>1
    <2>2. \A x \in FiringAnswers : x.run.body \in Bodies
      BY DEF FiringAnswers, RunRecords
    <2> QED BY <1>1, <2>1, <2>2
  <1>3. PICK f : f = RunBodies(a)
    OBVIOUS
  <1>4. f \in [1..n -> Bodies] /\ \A i \in 1..n : f[i] = a[i].run.body
    BY <1>2, <1>3 DEF RunBodies
  <1>5. f \in Seq(Bodies) /\ Len(f) = n
    BY <1>4
  <1> QED BY <1>1, <1>3, <1>4, <1>5

(* The functions of duties, place by place. *)
LEMMA BodiesAre ==
    ASSUME NEW s \in Seq(Duties)
    PROVE  /\ BodiesIn(s) \in Seq(Bodies) /\ Len(BodiesIn(s)) = Len(s)
           /\ \A i \in 1..Len(s) : BodiesIn(s)[i] = s[i].body
PROOF
  <1>1. PICK n \in Nat : n = Len(s)
    OBVIOUS
  <1>2. DOMAIN s = 1..n /\ \A i \in 1..n : s[i].body \in Bodies
    BY <1>1, DutiesAre
  <1>3. PICK f : f = BodiesIn(s)
    OBVIOUS
  <1>4. f \in [1..n -> Bodies] /\ \A i \in 1..n : f[i] = s[i].body
    BY <1>2, <1>3 DEF BodiesIn
  <1>5. f \in Seq(Bodies) /\ Len(f) = n
    BY <1>4
  <1> QED BY <1>1, <1>3, <1>4, <1>5

(* The functions of answers in a row. *)
LEMMA RunBodiesOfBoth ==
    ASSUME NEW a \in Seq(FiringAnswers), NEW b \in Seq(FiringAnswers)
    PROVE  RunBodies(a \o b) = RunBodies(a) \o RunBodies(b)
PROOF
  <1>1. PICK n \in Nat, m \in Nat : n = Len(a) /\ m = Len(b)
    OBVIOUS
  <1>2. PICK ab \in Seq(FiringAnswers) : ab = a \o b
    <2>1. a \o b \in Seq(FiringAnswers)
      OBVIOUS
    <2> QED BY <2>1
  <1>3. /\ Len(ab) = n + m
        /\ \A i \in 1..(n + m) : ab[i] = IF i <= n THEN a[i] ELSE b[i - n]
    BY <1>1, <1>2
  <1>4. PICK f \in Seq(Bodies), g \in Seq(Bodies), h \in Seq(Bodies) :
             f = RunBodies(a) /\ g = RunBodies(b) /\ h = RunBodies(ab)
    BY RunBodiesAre
  <1>5. /\ Len(f) = n /\ \A i \in 1..n : f[i] = a[i].run.body
        /\ Len(g) = m /\ \A i \in 1..m : g[i] = b[i].run.body
        /\ Len(h) = n + m /\ \A i \in 1..(n + m) : h[i] = ab[i].run.body
    BY <1>1, <1>3, <1>4, RunBodiesAre
  <1>6. PICK fg \in Seq(Bodies) : fg = f \o g
    <2>1. f \o g \in Seq(Bodies)
      OBVIOUS
    <2> QED BY <2>1
  <1>7. /\ Len(fg) = n + m
        /\ \A i \in 1..(n + m) : fg[i] = IF i <= n THEN f[i] ELSE g[i - n]
    <2>1. /\ Len(fg) = Len(f) + Len(g)
          /\ \A i \in 1..(Len(f) + Len(g)) : fg[i] = IF i <= Len(f) THEN f[i] ELSE g[i - Len(f)]
      BY <1>6
    <2> QED BY <1>5, <2>1
  <1>8. ASSUME NEW i \in 1..(n + m) PROVE h[i] = fg[i]
    <2>1. CASE i <= n
      <3>1. i \in 1..n
        BY <2>1
      <3> QED BY <1>3, <1>5, <1>7, <2>1, <3>1
    <2>2. CASE ~(i <= n)
      <3>1. i - n \in 1..m
        BY <2>2
      <3> QED BY <1>3, <1>5, <1>7, <2>2, <3>1
    <2> QED BY <2>1, <2>2
  <1>9. h = fg
    BY <1>5, <1>7, <1>8, SeqEqual
  <1> QED BY <1>2, <1>4, <1>6, <1>9

-----------------------------------------------------------------------------
(* What goes on when the next handler starts *)

\* A simulator, as far as the loops look at it.
SimTyped(sim) ==
  /\ sim.versions \in Seq(Versions) /\ sim.forgotten \in Nat
  /\ sim.manifest \in 0..Len(sim.versions)
  /\ sim.handlers \in [Bodies -> Nat]

(* Whatever is looked up is code or none. *)
LEMMA CodeIsKnown ==
    ASSUME NEW sim, SimTyped(sim), NEW r, NEW x \in Duties
    PROVE  /\ CodeOf(r, x, sim) \in Nat
           /\ RunOf(r, x, sim) \in RunRecords
           /\ RunOf(r, x, sim).body = x.body /\ RunOf(r, x, sim).code = CodeOf(r, x, sim)
           /\ RunOf(r, x, sim).seen = Len(sim.versions)
           /\ RunOf(r, x, sim).base = sim.forgotten
PROOF
  <1>1. x.body \in Bodies
    BY DutiesAre
  <1>2. CodeOfSchedule(x, sim) \in Nat
    <2>1. PICK schedules : schedules = IF sim.manifest = NoVersion THEN <<>>
                                       ELSE sim.versions[sim.manifest].schedules
      OBVIOUS
    <2>2. schedules \in Seq(Duties)
      <3>1. CASE sim.manifest = NoVersion
        BY <2>1, <3>1
      <3>2. CASE sim.manifest # NoVersion
        <4>1. sim.versions[sim.manifest] \in Versions
          BY <3>2 DEF SimTyped, NoVersion
        <4> QED BY <2>1, <3>2, <4>1, DutiesAre
      <3> QED BY <3>1, <3>2
    <2>3. PICK found : found = {i \in DOMAIN schedules : schedules[i].key = x.key}
      OBVIOUS
    <2>4. CodeOfSchedule(x, sim) = IF found = {} THEN NoVersion
                                   ELSE sim.handlers[schedules[Min(found)].body]
      BY <2>1, <2>3 DEF CodeOfSchedule
    <2>5. CASE found = {}
      BY <2>4, <2>5 DEF NoVersion
    <2>6. CASE found # {}
      <3>1. Len(schedules) \in Nat /\ found \in SUBSET (1..Len(schedules))
        BY <2>2, <2>3
      <3>2. PICK k \in found : \A j \in found : k <= j
        BY <2>6, <3>1, FirstPlace
      <3>3. Min(found) = k
        <4>1. k \in Int /\ \A j \in found : j \in Int
          BY <3>1, <3>2
        <4> QED BY <3>2, <4>1, MinIs
      <3>4. schedules[k] \in Duties
        BY <2>2, <3>1, <3>2
      <3>5. schedules[k].body \in Bodies
        BY <3>4, DutiesAre
      <3> QED BY <2>4, <2>6, <3>3, <3>5 DEF SimTyped
    <2> QED BY <2>5, <2>6
  <1>3. CodeOf(r, x, sim) \in Nat
    BY <1>1, <1>2 DEF CodeOf, SimTyped
  <1>4. Len(sim.versions) \in Nat /\ sim.forgotten \in Nat
    BY DEF SimTyped
  <1>5. PICK run : run = RunOf(r, x, sim)
    OBVIOUS
  <1>6. run = [body |-> x.body, code |-> CodeOf(r, x, sim),
               seen |-> Len(sim.versions), base |-> sim.forgotten]
    BY <1>5 DEF RunOf
  <1> QED BY <1>1, <1>3, <1>4, <1>5, <1>6 DEF RunRecords

\* What Advance makes of a call's record: some duties are passed over, and the next starts.
Advanced(r, r2, sim, next, passed) ==
  /\ next \in 1..(Len(r.left) + 1)
  /\ passed \in Seq(FiringAnswers) /\ Len(passed) = next - 1
  /\ \A i \in 1..Len(passed) : passed[i] = AnswerBy(r, RunOf(r, r.left[i], sim), FALSE)
  /\ r2 \in FiringRecords
  /\ r2.answers = r.answers \o passed
  /\ Len(r2.left) = IF next <= Len(r.left) THEN Len(r.left) - next ELSE 0
  /\ \A i \in 1..Len(r2.left) : r2.left[i] = r.left[next + i]
  /\ next <= Len(r.left) =>
       /\ r2.running = RunOf(r, r.left[next], sim) /\ r2.running.code # NoVersion
       /\ r2.at = r.at
  /\ ~(next <= Len(r.left)) =>
       r2.running = NoRun /\ r2.at = IF r.todo # <<>> THEN "between" ELSE "done"
  /\ r2.event = r.event /\ r2.todo = r.todo /\ r2.uuid = r.uuid /\ r2.failed = r.failed
  /\ r2.fired = r.fired /\ r2.deploys = r.deploys

(* The next handler that is there starts, and those before it are answers. *)
LEMMA AdvanceIs ==
    ASSUME NEW r \in FiringRecords, NEW sim, SimTyped(sim)
    PROVE  \E next, passed : Advanced(r, Advance(r, sim), sim, next, passed)
PROOF
  <1>1. PICK n \in Nat : n = Len(r.left)
    BY DEF FiringRecords
  <1>2. /\ DOMAIN r.left = 1..n
        /\ \A i \in 1..n : r.left[i] \in Duties
        /\ r.left \in Seq(Duties) /\ r.fired \in Seq(FiredRecords)
        /\ r.answers \in Seq(FiringAnswers) /\ Len(r.fired) \in Nat
    BY <1>1 DEF FiringRecords
  <1>3. PICK there : there = {i \in 1..n : CodeOf(r, r.left[i], sim) # NoVersion}
    OBVIOUS
  <1>4. PICK next : next = IF there = {} THEN n + 1 ELSE Min(there)
    OBVIOUS
  <1>5. /\ next \in 1..(n + 1)
        /\ there = {} <=> ~(next <= n)
        /\ there # {} => next \in there
    <2>1. CASE there = {}
      BY <1>4, <2>1
    <2>2. CASE there # {}
      <3>1. there \in SUBSET (1..n)
        BY <1>3
      <3>2. PICK k \in there : \A j \in there : k <= j
        BY <2>2, <3>1, FirstPlace
      <3>3. k \in Int /\ \A j \in there : k <= j /\ j \in Int
        BY <3>1, <3>2
      <3>4. Min(there) = k
        BY <3>3, MinIs
      <3>5. next = k /\ k \in 1..n
        BY <1>4, <2>2, <3>1, <3>4
      <3> QED BY <2>2, <3>5
    <2> QED BY <2>1, <2>2
  <1>6. PICK passed : passed = [i \in 1..next - 1 |-> AnswerBy(r, RunOf(r, r.left[i], sim), FALSE)]
    OBVIOUS
  <1>7. /\ passed \in Seq(FiringAnswers) /\ Len(passed) = next - 1
        /\ \A i \in 1..Len(passed) : passed[i] = AnswerBy(r, RunOf(r, r.left[i], sim), FALSE)
    <2>1. next - 1 \in Nat /\ next - 1 <= n
      BY <1>5
    <2>2. ASSUME NEW i \in 1..next - 1
          PROVE  AnswerBy(r, RunOf(r, r.left[i], sim), FALSE) \in FiringAnswers
      <3>1. RunOf(r, r.left[i], sim) \in RunRecords
        BY <1>2, <2>1, CodeIsKnown
      <3> QED BY <1>2, <3>1 DEF AnswerBy, FiringAnswers
    <2>3. passed \in [1..next - 1 -> FiringAnswers]
      BY <1>6, <2>2
    <2>4. passed \in Seq(FiringAnswers) /\ Len(passed) = next - 1
      BY <2>1, <2>3
    <2> QED BY <1>6, <2>4
  <1>8. PICK left : left = SubSeq(r.left, next + 1, n)
    OBVIOUS
  <1>9. /\ left \in Seq(Duties) /\ Len(left) = IF next <= n THEN n - next ELSE 0
        /\ \A i \in 1..Len(left) : left[i] = r.left[next + i]
    <2>1. CASE next <= n
      <3>1. next \in 1..Len(r.left)
        BY <1>1, <1>5, <2>1
      <3>2. /\ SubSeq(r.left, next + 1, Len(r.left)) \in Seq(Duties)
            /\ Len(SubSeq(r.left, next + 1, Len(r.left))) = Len(r.left) - next
            /\ \A i \in 1..(Len(r.left) - next) :
                 SubSeq(r.left, next + 1, Len(r.left))[i] = r.left[next + i]
        BY <1>2, <3>1, FrontAndRest
      <3> QED BY <1>1, <1>8, <2>1, <3>2
    <2>2. CASE ~(next <= n)
      <3>1. next = n + 1
        BY <1>5, <2>2
      <3>2. SubSeq(r.left, n + 2, n) = <<>>
        BY <1>1, <1>2
      <3> QED BY <1>8, <2>2, <3>1, <3>2
    <2> QED BY <2>1, <2>2
  <1>10. PICK running : running = IF there = {} THEN NoRun ELSE RunOf(r, r.left[next], sim)
    OBVIOUS
  <1>11. /\ running \in RunRecords \cup {NoRun}
         /\ next <= n => /\ running = RunOf(r, r.left[next], sim)
                         /\ running.code # NoVersion
         /\ ~(next <= n) => running = NoRun
    <2>1. CASE next <= n
      <3>1. next \in 1..n /\ CodeOf(r, r.left[next], sim) # NoVersion
        BY <1>3, <1>5, <2>1
      <3>2. /\ RunOf(r, r.left[next], sim) \in RunRecords
            /\ RunOf(r, r.left[next], sim).code = CodeOf(r, r.left[next], sim)
        BY <1>2, <3>1, CodeIsKnown
      <3> QED BY <1>5, <1>10, <2>1, <3>1, <3>2
    <2>2. CASE ~(next <= n)
      BY <1>5, <1>10, <2>2
    <2> QED BY <2>1, <2>2
  <1>12. PICK at : at = IF there # {} THEN r.at ELSE IF r.todo # <<>> THEN "between" ELSE "done"
    OBVIOUS
  <1>13. PICK answers : answers = r.answers \o passed
    OBVIOUS
  <1>14. PICK r2 : r2 = Advance(r, sim)
    OBVIOUS
  <1>15. r2 = [r EXCEPT !.answers = answers, !.left = left, !.running = running, !.at = at]
    BY <1>1, <1>2, <1>3, <1>4, <1>6, <1>8, <1>10, <1>12, <1>13, <1>14 DEF Advance
  <1>16. answers \in Seq(FiringAnswers) /\ at \in FiringStates
    BY <1>2, <1>7, <1>12, <1>13 DEF FiringRecords, FiringStates
  <1>17. /\ r2 \in FiringRecords
         /\ r2.answers = answers /\ r2.left = left /\ r2.running = running /\ r2.at = at
         /\ r2.event = r.event /\ r2.todo = r.todo /\ r2.uuid = r.uuid /\ r2.failed = r.failed
         /\ r2.fired = r.fired /\ r2.deploys = r.deploys
    <2> HIDE DEF Duties, EventKeys, Uuids, EventRecords, RunRecords, FiringAnswers, FiredRecords,
                 FiringStates, NoRun
    <2> QED BY <1>9, <1>11, <1>15, <1>16 DEF FiringRecords
  <1>18. Advanced(r, r2, sim, next, passed)
    BY <1>1, <1>5, <1>7, <1>9, <1>11, <1>12, <1>13, <1>17 DEF Advanced
  <1> QED BY <1>14, <1>18

(* The functions of what is running and left, place by place. *)
LEMMA BodiesLeftAre ==
    ASSUME NEW r, r.left \in Seq(Duties)
    PROVE  /\ r.running = NoRun => BodiesLeft(r) = BodiesIn(r.left)
           /\ r.running # NoRun /\ r.running \in RunRecords =>
                /\ BodiesLeft(r) \in Seq(Bodies) /\ Len(BodiesLeft(r)) = 1 + Len(r.left)
                /\ BodiesLeft(r)[1] = r.running.body
                /\ \A i \in 1..Len(r.left) : BodiesLeft(r)[i + 1] = r.left[i].body
PROOF
  <1>1. PICK b \in Seq(Bodies) : b = BodiesIn(r.left)
    BY BodiesAre
  <1>2. Len(b) = Len(r.left) /\ \A i \in 1..Len(r.left) : b[i] = r.left[i].body
    BY <1>1, BodiesAre
  <1>3. CASE r.running = NoRun
    <2>1. <<>> \o b = b
      OBVIOUS
    <2> QED BY <1>1, <1>3, <2>1 DEF BodiesLeft
  <1>4. CASE r.running # NoRun /\ r.running \in RunRecords
    <2>1. r.running.body \in Bodies
      BY <1>4 DEF RunRecords
    <2>2. PICK a \in Seq(Bodies) : a = <<r.running.body>> \o b
      <3>1. <<r.running.body>> \o b \in Seq(Bodies)
        BY <2>1
      <3> QED BY <3>1
    <2>3. /\ Len(a) = 1 + Len(b) /\ a[1] = r.running.body
          /\ \A i \in 1..Len(b) : a[i + 1] = b[i]
      <3>1. PICK x \in Bodies : x = r.running.body
        BY <2>1
      <3>2. a = <<x>> \o b
        BY <2>2, <3>1
      <3>3. Len(a) = 1 + Len(b) /\ a[1] = x
        BY <3>2
      <3>4. ASSUME NEW i \in 1..Len(b) PROVE a[i + 1] = b[i]
        BY <3>2
      <3> QED BY <3>1, <3>3, <3>4
    <2>4. a = BodiesLeft(r)
      BY <1>1, <1>4, <2>2 DEF BodiesLeft
    <2> QED BY <1>2, <1>4, <2>2, <2>3, <2>4
  <1> QED BY <1>3, <1>4

(* Nothing that was left is lost or run twice. *)
LEMMA AdvancedBodies ==
    ASSUME NEW r \in FiringRecords, NEW r2, NEW sim, SimTyped(sim), NEW next, NEW passed,
           Advanced(r, r2, sim, next, passed)
    PROVE  RunBodies(passed) \o BodiesLeft(r2) = BodiesIn(r.left)
PROOF
  <1>1. PICK n \in Nat : n = Len(r.left)
    BY DEF FiringRecords
  <1>2. r.left \in Seq(Duties) /\ r2.left \in Seq(Duties) /\ r2 \in FiringRecords
    BY DEF FiringRecords, Advanced
  <1>3. PICK b \in Seq(Bodies) : b = BodiesIn(r.left)
    BY <1>2, BodiesAre
  <1>4. Len(b) = n /\ \A i \in 1..n : b[i] = r.left[i].body
    BY <1>1, <1>2, <1>3, BodiesAre
  <1>5. /\ next \in 1..(n + 1) /\ passed \in Seq(FiringAnswers) /\ Len(passed) = next - 1
        /\ \A i \in 1..Len(passed) : passed[i] = AnswerBy(r, RunOf(r, r.left[i], sim), FALSE)
    BY <1>1 DEF Advanced
  <1>6. PICK p \in Seq(Bodies) : p = RunBodies(passed)
    BY <1>5, RunBodiesAre
  <1>7. Len(p) = next - 1 /\ \A i \in 1..(next - 1) : p[i] = b[i]
    <2>1. Len(p) = Len(passed) /\ \A i \in 1..Len(passed) : p[i] = passed[i].run.body
      BY <1>5, <1>6, RunBodiesAre
    <2>2. ASSUME NEW i \in 1..(next - 1) PROVE p[i] = b[i]
      <3>1. i \in 1..n /\ i \in 1..Len(passed)
        BY <1>5
      <3>2. r.left[i] \in Duties
        BY <1>1, <1>2, <3>1
      <3>3. RunOf(r, r.left[i], sim).body = r.left[i].body
        BY <3>2, CodeIsKnown
      <3>4. passed[i].run = RunOf(r, r.left[i], sim)
        <4>1. PICK run : run = RunOf(r, r.left[i], sim)
          OBVIOUS
        <4>2. passed[i] = AnswerBy(r, run, FALSE)
          BY <1>5, <3>1, <4>1
        <4> QED BY <4>1, <4>2 DEF AnswerBy
      <3> QED BY <1>4, <2>1, <3>1, <3>3, <3>4
    <2> QED BY <1>5, <2>1, <2>2
  <1>8. CASE next <= n
    <2>1. next \in 1..n /\ r.left[next] \in Duties
      BY <1>1, <1>2, <1>5, <1>8
    <2>2. /\ r2.running = RunOf(r, r.left[next], sim) /\ r2.running.code # NoVersion
          /\ Len(r2.left) = n - next
          /\ \A i \in 1..Len(r2.left) : r2.left[i] = r.left[next + i]
      BY <1>1, <1>8 DEF Advanced
    <2>3. r2.running # NoRun /\ r2.running \in RunRecords /\ r2.running.body = r.left[next].body
      <3>1. r2.running \in RunRecords /\ r2.running.body = r.left[next].body
        BY <2>1, <2>2, CodeIsKnown
      <3>2. NoRun.code = NoVersion
        BY DEF NoRun
      <3> QED BY <2>2, <3>1, <3>2
    <2>4. PICK q \in Seq(Bodies) : q = BodiesLeft(r2)
      BY <1>2, <2>3, BodiesLeftAre
    <2>5. /\ Len(q) = 1 + Len(r2.left) /\ q[1] = r2.running.body
          /\ \A i \in 1..Len(r2.left) : q[i + 1] = r2.left[i].body
      BY <1>2, <2>3, <2>4, BodiesLeftAre
    <2>6. PICK pq \in Seq(Bodies) : pq = p \o q
      <3>1. p \o q \in Seq(Bodies)
        OBVIOUS
      <3> QED BY <3>1
    <2>7. /\ Len(pq) = n
          /\ \A i \in 1..n : pq[i] = IF i <= next - 1 THEN p[i] ELSE q[i - (next - 1)]
      <3>1. Len(p) = next - 1 /\ Len(q) = n - next + 1
        BY <1>1, <1>7, <2>1, <2>2, <2>5
      <3>2. /\ Len(pq) = Len(p) + Len(q)
            /\ \A i \in 1..(Len(p) + Len(q)) : pq[i] = IF i <= Len(p) THEN p[i] ELSE q[i - Len(p)]
        BY <2>6
      <3>3. Len(p) + Len(q) = n
        BY <2>1, <3>1
      <3> QED BY <3>1, <3>2, <3>3
    <2>8. ASSUME NEW i \in 1..n PROVE pq[i] = b[i]
      <3>1. CASE i <= next - 1
        BY <1>7, <2>7, <3>1
      <3>2. CASE i = next
        <4>1. i - (next - 1) = 1 /\ ~(i <= next - 1)
          BY <2>1, <3>2
        <4>2. pq[i] = q[1]
          BY <2>7, <4>1
        <4> QED BY <1>4, <2>3, <2>5, <3>2, <4>2
      <3>3. CASE i > next
        <4>1. i - next \in 1..(n - next) /\ ~(i <= next - 1) /\ i - (next - 1) = (i - next) + 1
              /\ next + (i - next) = i
          BY <2>1, <3>3
        <4>2. pq[i] = q[(i - next) + 1]
          BY <2>7, <4>1
        <4>3. q[(i - next) + 1] = r2.left[i - next].body
          BY <2>2, <2>5, <4>1
        <4>4. r2.left[i - next] = r.left[next + (i - next)]
          BY <2>2, <4>1
        <4> QED BY <1>4, <4>1, <4>2, <4>3, <4>4
      <3>4. i <= next - 1 \/ i = next \/ i > next
        BY <2>1
      <3> QED BY <3>1, <3>2, <3>3, <3>4
    <2>9. pq = b
      BY <1>4, <2>7, <2>8, SeqEqual
    <2> QED BY <1>3, <1>6, <2>4, <2>6, <2>9
  <1>9. CASE ~(next <= n)
    <2>1. r2.running = NoRun /\ Len(r2.left) = 0 /\ next = n + 1
      BY <1>1, <1>5, <1>9 DEF Advanced
    <2>2. PICK q \in Seq(Bodies) : q = BodiesIn(r2.left)
      BY <1>2, BodiesAre
    <2>3. Len(q) = 0
      BY <1>2, <2>1, <2>2, BodiesAre
    <2>4. p \o q = p
      <3>1. q = <<>>
        BY <2>3
      <3> QED BY <3>1
    <2>5. BodiesLeft(r2) = q
      BY <1>2, <2>1, <2>2, BodiesLeftAre
    <2>6. p = b
      BY <1>4, <1>7, <2>1, SeqEqual
    <2> QED BY <1>3, <1>6, <2>4, <2>5, <2>6
  <1> QED BY <1>8, <1>9

-----------------------------------------------------------------------------
(* Which code is the newest *)

LoadsCode(b, n, vs) == b \in vs[n].loads
BindsCode(b, n, vs) == b \in vs[n].loads /\ b \in BoundIn(vs[n])

\* What NewestOf chooses, among the versions from `base` to `seen`.
ChosenNewest(m, b, base, seen, vs) ==
  \/ /\ m \in base + 1..seen /\ BindsCode(b, m, vs)
     /\ \A j \in base + 1..seen : BindsCode(b, j, vs) => j <= m
  \/ /\ m \in base + 1..seen /\ LoadsCode(b, m, vs)
     /\ \A j \in base + 1..seen : ~BindsCode(b, j, vs)
     /\ \A j \in base + 1..seen : LoadsCode(b, j, vs) => m <= j
  \/ m = NoVersion /\ \A j \in base + 1..seen : ~LoadsCode(b, j, vs)

(* There is only one such choice. *)
LEMMA NewestIsIt ==
    ASSUME NEW m, NEW b, NEW base \in Nat, NEW seen \in Nat, NEW vs,
           ChosenNewest(m, b, base, seen, vs)
    PROVE  NewestOf(b, base, seen, vs) = m
PROOF
  <1>1. PICK loading : loading = {n \in base + 1..seen : b \in vs[n].loads}
    OBVIOUS
  <1>2. PICK binding : binding = {n \in loading : b \in BoundIn(vs[n])}
    OBVIOUS
  <1>3. NewestOf(b, base, seen, vs) = IF binding # {} THEN Max(binding)
                                      ELSE IF loading # {} THEN Min(loading) ELSE NoVersion
    BY <1>1, <1>2 DEF NewestOf
  <1>4. /\ loading = {n \in base + 1..seen : LoadsCode(b, n, vs)}
        /\ binding = {n \in base + 1..seen : BindsCode(b, n, vs)}
    BY <1>1, <1>2 DEF LoadsCode, BindsCode
  <1>5. CASE m \in base + 1..seen /\ BindsCode(b, m, vs)
             /\ \A j \in base + 1..seen : BindsCode(b, j, vs) => j <= m
    <2>1. m \in binding /\ m \in Int /\ \A j \in binding : m >= j /\ j \in Int
      BY <1>4, <1>5
    <2>2. Max(binding) = m
      BY <2>1, MaxIs
    <2> QED BY <1>3, <2>1, <2>2
  <1>6. CASE /\ m \in base + 1..seen /\ LoadsCode(b, m, vs)
             /\ \A j \in base + 1..seen : ~BindsCode(b, j, vs)
             /\ \A j \in base + 1..seen : LoadsCode(b, j, vs) => m <= j
    <2>1. m \in loading /\ m \in Int /\ \A j \in loading : m <= j /\ j \in Int
      BY <1>4, <1>6
    <2>2. Min(loading) = m
      BY <2>1, MinIs
    <2>3. binding = {}
      BY <1>4, <1>6
    <2> QED BY <1>3, <2>1, <2>2, <2>3
  <1>7. CASE m = NoVersion /\ \A j \in base + 1..seen : ~LoadsCode(b, j, vs)
    <2>1. loading = {} /\ binding = {}
      BY <1>2, <1>4, <1>7
    <2> QED BY <1>3, <1>7, <2>1
  <1> QED BY <1>5, <1>6, <1>7 DEF ChosenNewest

(* And there is one. *)
LEMMA NewestIsChosen ==
    ASSUME NEW b, NEW base \in Nat, NEW seen \in Nat, NEW vs
    PROVE  ChosenNewest(NewestOf(b, base, seen, vs), b, base, seen, vs)
PROOF
  <1>1. PICK loading : loading = {n \in base + 1..seen : LoadsCode(b, n, vs)}
    OBVIOUS
  <1>2. PICK binding : binding = {n \in base + 1..seen : BindsCode(b, n, vs)}
    OBVIOUS
  <1>3. loading \in SUBSET (1..seen) /\ binding \in SUBSET (1..seen)
    BY <1>1, <1>2
  <1>4. SUFFICES \E m : ChosenNewest(m, b, base, seen, vs)
    BY NewestIsIt
  <1>5. CASE binding # {}
    <2>1. PICK m \in binding : \A j \in binding : j <= m
      BY <1>3, <1>5, LastPlace
    <2>2. ChosenNewest(m, b, base, seen, vs)
      BY <1>2, <2>1 DEF ChosenNewest
    <2> QED BY <2>2
  <1>6. CASE binding = {} /\ loading # {}
    <2>1. PICK m \in loading : \A j \in loading : m <= j
      BY <1>3, <1>6, FirstPlace
    <2>2. ChosenNewest(m, b, base, seen, vs)
      BY <1>1, <1>2, <1>6, <2>1 DEF ChosenNewest
    <2> QED BY <2>2
  <1>7. CASE binding = {} /\ loading = {}
    <2>1. ChosenNewest(NoVersion, b, base, seen, vs)
      BY <1>1, <1>7 DEF ChosenNewest
    <2> QED BY <2>1
  <1> QED BY <1>5, <1>6, <1>7

(* It is a version since the reset, or none. *)
LEMMA NewestIsThere ==
    ASSUME NEW b, NEW base \in Nat, NEW seen \in Nat, NEW vs
    PROVE  /\ NewestOf(b, base, seen, vs) \in 0..seen
           /\ NewestOf(b, base, base, vs) = NoVersion
PROOF
  <1>1. NewestOf(b, base, seen, vs) \in 0..seen
    <2>1. PICK m : m = NewestOf(b, base, seen, vs)
      OBVIOUS
    <2>2. ChosenNewest(m, b, base, seen, vs)
      BY <2>1, NewestIsChosen
    <2>3. m \in base + 1..seen \/ m = 0
      BY <2>2 DEF ChosenNewest, NoVersion
    <2> QED BY <2>1, <2>3
  <1>2. ChosenNewest(NoVersion, b, base, base, vs)
    BY DEF ChosenNewest
  <1>3. NewestOf(b, base, base, vs) = NoVersion
    BY <1>2, NewestIsIt
  <1> QED BY <1>1, <1>3

(* Versions that come later make no difference to what was the newest. *)
LEMMA NewestStays ==
    ASSUME NEW b, NEW base \in Nat, NEW vs, NEW us, NEW seen \in Nat,
           \A n \in 1..seen : us[n] = vs[n]
    PROVE  NewestOf(b, base, seen, us) = NewestOf(b, base, seen, vs)
PROOF
  <1>1. PICK m : m = NewestOf(b, base, seen, vs)
    OBVIOUS
  <1>2. ChosenNewest(m, b, base, seen, vs)
    BY <1>1, NewestIsChosen
  <1>3. \A n \in base + 1..seen : LoadsCode(b, n, us) = LoadsCode(b, n, vs) /\ BindsCode(b, n, us) = BindsCode(b, n, vs)
    <2>1. ASSUME NEW n \in base + 1..seen PROVE us[n] = vs[n]
      <3>1. n \in 1..seen
        OBVIOUS
      <3> QED BY <3>1
    <2> QED BY <2>1 DEF LoadsCode, BindsCode
  <1>4. ChosenNewest(m, b, base, seen, us)
    BY <1>2, <1>3 DEF ChosenNewest
  <1> QED BY <1>1, <1>4, NewestIsIt

(* An installation registers what becomes the newest. *)
LEMMA NewestAfter ==
    ASSUME NEW b, NEW base \in Nat, NEW seen \in Nat, base <= seen, NEW vs, NEW us, NEW v,
           \A n \in 1..seen : us[n] = vs[n], us[seen + 1] = v
    PROVE  NewestOf(b, base, seen + 1, us) =
             IF b \in v.loads /\ (b \in BoundIn(v) \/ NewestOf(b, base, seen, vs) = NoVersion)
             THEN seen + 1 ELSE NewestOf(b, base, seen, vs)
PROOF
  <1>1. PICK m : m = NewestOf(b, base, seen, vs)
    OBVIOUS
  <1>2. NewestOf(b, base, seen, us) = m
    BY <1>1, NewestStays
  <1>3. ChosenNewest(m, b, base, seen, us)
    BY <1>2, NewestIsChosen
  <1>4. /\ seen + 1 \in Nat /\ seen + 1 \in base + 1..seen + 1
        /\ \A j \in base + 1..seen + 1 : j <= seen + 1
        /\ \A j \in base + 1..seen + 1 : j \in base + 1..seen \/ j = seen + 1
        /\ \A j \in base + 1..seen : j \in base + 1..seen + 1 /\ j <= seen + 1
    OBVIOUS
  <1>5. /\ LoadsCode(b, seen + 1, us) <=> b \in v.loads
        /\ BindsCode(b, seen + 1, us) <=> b \in v.loads /\ b \in BoundIn(v)
    BY DEF LoadsCode, BindsCode
  <1>6. \A j : BindsCode(b, j, us) => LoadsCode(b, j, us)
    BY DEF LoadsCode, BindsCode
  <1>7. CASE b \in v.loads /\ b \in BoundIn(v)
    <2>1. ChosenNewest(seen + 1, b, base, seen + 1, us)
      BY <1>4, <1>5, <1>7 DEF ChosenNewest
    <2> QED BY <1>4, <1>7, <2>1, NewestIsIt
  <1>8. CASE b \in v.loads /\ b \notin BoundIn(v) /\ m = NoVersion
    <2>1. \A j \in base + 1..seen : ~LoadsCode(b, j, us)
      <3>1. NoVersion \notin base + 1..seen
        BY DEF NoVersion
      <3> QED BY <1>3, <1>8, <3>1 DEF ChosenNewest
    <2>2. \A j \in base + 1..seen + 1 : ~BindsCode(b, j, us)
      BY <1>4, <1>5, <1>6, <1>8, <2>1
    <2>3. \A j \in base + 1..seen + 1 : LoadsCode(b, j, us) => seen + 1 <= j
      BY <1>4, <2>1
    <2>4. ChosenNewest(seen + 1, b, base, seen + 1, us)
      BY <1>4, <1>5, <1>8, <2>2, <2>3 DEF ChosenNewest
    <2> QED BY <1>1, <1>4, <1>8, <2>4, NewestIsIt
  <1>9. CASE ~(b \in v.loads /\ (b \in BoundIn(v) \/ m = NoVersion))
    <2>1. ~BindsCode(b, seen + 1, us)
      BY <1>5, <1>9
    <2>2. ChosenNewest(m, b, base, seen + 1, us)
      <3>1. CASE m \in base + 1..seen /\ BindsCode(b, m, us)
                 /\ \A j \in base + 1..seen : BindsCode(b, j, us) => j <= m
        <4>1. m \in base + 1..seen + 1 /\ \A j \in base + 1..seen + 1 : BindsCode(b, j, us) => j <= m
          BY <1>4, <2>1, <3>1
        <4> QED BY <3>1, <4>1 DEF ChosenNewest
      <3>2. CASE /\ m \in base + 1..seen /\ LoadsCode(b, m, us)
                 /\ \A j \in base + 1..seen : ~BindsCode(b, j, us)
                 /\ \A j \in base + 1..seen : LoadsCode(b, j, us) => m <= j
        <4>1. /\ m \in base + 1..seen + 1
              /\ \A j \in base + 1..seen + 1 : ~BindsCode(b, j, us)
              /\ \A j \in base + 1..seen + 1 : LoadsCode(b, j, us) => m <= j
          BY <1>4, <2>1, <3>2
        <4> QED BY <3>2, <4>1 DEF ChosenNewest
      <3>3. CASE m = NoVersion /\ \A j \in base + 1..seen : ~LoadsCode(b, j, us)
        <4>1. ~LoadsCode(b, seen + 1, us)
          BY <1>5, <1>9, <3>3
        <4>2. \A j \in base + 1..seen + 1 : ~LoadsCode(b, j, us)
          BY <1>4, <3>3, <4>1
        <4> QED BY <3>3, <4>2 DEF ChosenNewest
      <3> QED BY <1>3, <3>1, <3>2, <3>3 DEF ChosenNewest
    <2> QED BY <1>1, <1>4, <1>9, <2>2, NewestIsIt
  <1> QED BY <1>1, <1>7, <1>8, <1>9

(* A simulator in which the newest code is registered is one that the loops can look at. *)
LEMMA LiveIsTyped ==
    ASSUME NEW sim, LiveHolds(sim)
    PROVE  /\ SimTyped(sim) /\ Len(sim.versions) \in Nat
           /\ \A b \in Bodies : sim.handlers[b] \in 0..Len(sim.versions)
PROOF
  <1>1. PICK n \in Nat : n = Len(sim.versions)
    BY DEF LiveHolds, Simulators
  <1>2. sim.manifest \in 0..n /\ sim.forgotten \in Nat
    BY <1>1 DEF LiveHolds, Simulators, NoVersion
  <1>3. \A b \in Bodies : sim.handlers[b] \in 0..n
    BY <1>1, <1>2, NewestIsThere DEF LiveHolds, Simulators
  <1> QED BY <1>1, <1>2, <1>3 DEF LiveHolds, Simulators, SimTyped

(* An installation keeps the newest code registered. *)
LEMMA InstallationHolds ==
    ASSUME NEW v \in Versions, LiveHolds(live)
    PROVE  /\ LiveHolds(Installed(v)) /\ Installed(v).forgotten = live.forgotten
           /\ Installed(v).versions = Append(live.versions, v)
           /\ Installed(v).manifest = Len(live.versions) + 1
           /\ Installed(v).handlers =
                [b \in Bodies |->
                   IF b \in v.loads /\ (b \in BoundIn(v) \/ live.handlers[b] = NoVersion)
                   THEN Len(live.versions) + 1 ELSE live.handlers[b]]
PROOF
  <1>1. PICK n \in Nat : n = Len(live.versions)
    BY DEF LiveHolds, Simulators
  <1>2. PICK vs \in Seq(Versions) : vs = live.versions
    BY DEF LiveHolds, Simulators
  <1>3. PICK us \in Seq(Versions) : us = Append(vs, v)
    <2>1. Append(vs, v) \in Seq(Versions)
      OBVIOUS
    <2> QED BY <2>1
  <1>4. Len(us) = n + 1 /\ us[n + 1] = v /\ \A i \in 1..n : us[i] = vs[i]
    BY <1>1, <1>2, <1>3
  <1>5. PICK sim : sim = Installed(v)
    OBVIOUS
  <1>6. PICK handlers : handlers =
                [b \in Bodies |->
                   IF b \in v.loads /\ (b \in BoundIn(v) \/ live.handlers[b] = NoVersion)
                   THEN n + 1 ELSE live.handlers[b]]
    OBVIOUS
  <1>7. sim = [live EXCEPT !.versions = us, !.manifest = n + 1, !.handlers = handlers]
    BY <1>1, <1>2, <1>3, <1>5, <1>6 DEF Installed
  <1>8. sim.versions = us /\ sim.manifest = n + 1 /\ sim.handlers = handlers
        /\ sim.forgotten = live.forgotten /\ sim \in Simulators
    <2>1. handlers \in [Bodies -> Nat]
      <3>1. n + 1 \in Nat /\ live.handlers \in [Bodies -> Nat]
        BY DEF LiveHolds, Simulators
      <3> QED BY <1>6, <3>1
    <2>2. live \in Simulators
      BY DEF LiveHolds
    <2>3. PICK l1 : l1 = [live EXCEPT !.versions = us]
      OBVIOUS
    <2>4. PICK l2 : l2 = [l1 EXCEPT !.manifest = n + 1]
      OBVIOUS
    <2>5. l1 \in Simulators /\ l1.versions = us /\ l1.forgotten = live.forgotten
      BY <2>2, <2>3 DEF Simulators
    <2>6. /\ l2 \in Simulators /\ l2.versions = us /\ l2.forgotten = live.forgotten
          /\ l2.manifest = n + 1
      BY <2>4, <2>5 DEF Simulators
    <2>7. sim = [l2 EXCEPT !.handlers = handlers]
      BY <1>7, <2>3, <2>4
    <2> QED BY <2>1, <2>6, <2>7 DEF Simulators
  <1>9. ASSUME NEW b \in Bodies
        PROVE  handlers[b] = NewestOf(b, sim.forgotten, n + 1, us)
    <2>1. live.forgotten \in Nat /\ live.forgotten <= n
      BY <1>1 DEF LiveHolds, Simulators
    <2>2. PICK m : m = NewestOf(b, live.forgotten, n, vs)
      OBVIOUS
    <2>3. live.handlers[b] = m
      BY <1>1, <1>2, <2>2 DEF LiveHolds
    <2>4. NewestOf(b, live.forgotten, n + 1, us) =
            IF b \in v.loads /\ (b \in BoundIn(v) \/ m = NoVersion) THEN n + 1 ELSE m
      BY <1>4, <2>1, <2>2, NewestAfter
    <2> QED BY <1>6, <1>8, <2>3, <2>4
  <1>10. LiveHolds(sim)
    <2>1. live.forgotten <= n /\ live.forgotten \in Nat
      BY <1>1 DEF LiveHolds, Simulators
    <2>2. sim.forgotten <= Len(sim.versions) /\ sim.forgotten # Len(sim.versions)
      BY <1>4, <1>8, <2>1
    <2> QED BY <1>4, <1>8, <1>9, <2>2 DEF LiveHolds
  <1> QED BY <1>1, <1>2, <1>3, <1>5, <1>6, <1>8, <1>10

(* A reset leaves no code registered. *)
LEMMA ForgettingHolds ==
    ASSUME LiveHolds(live), ForgetVersions
    PROVE  /\ LiveHolds(live') /\ live'.versions = live.versions
           /\ live'.forgotten \in Nat /\ live.forgotten <= live'.forgotten
PROOF
  <1>1. PICK n \in Nat : n = Len(live.versions)
    BY DEF LiveHolds, Simulators
  <1>2. PICK none : none = [b \in Bodies |-> NoVersion]
    OBVIOUS
  <1>3. live' = [live EXCEPT !.manifest = NoVersion, !.handlers = none, !.forgotten = n]
    BY <1>1, <1>2 DEF ForgetVersions
  <1>4. live \in Simulators /\ none \in [Bodies -> Nat] /\ live.forgotten <= n
    BY <1>1, <1>2 DEF LiveHolds, NoVersion
  <1>5. PICK l1 : l1 = [live EXCEPT !.manifest = NoVersion]
    OBVIOUS
  <1>6. PICK l2 : l2 = [l1 EXCEPT !.handlers = none]
    OBVIOUS
  <1>7. /\ l1 \in Simulators /\ l1.versions = live.versions /\ l1.manifest = NoVersion
    BY <1>4, <1>5 DEF Simulators, NoVersion
  <1>8. /\ l2 \in Simulators /\ l2.versions = live.versions /\ l2.manifest = NoVersion
        /\ l2.handlers = none
    BY <1>4, <1>6, <1>7 DEF Simulators
  <1>9. live' = [l2 EXCEPT !.forgotten = n]
    BY <1>3, <1>5, <1>6
  <1>10. /\ live' \in Simulators /\ live'.versions = live.versions /\ live'.manifest = NoVersion
         /\ live'.handlers = none /\ live'.forgotten = n
    BY <1>8, <1>9 DEF Simulators
  <1>11. \A b \in Bodies : none[b] = NewestOf(b, n, n, live.versions)
    BY <1>2, NewestIsThere
  <1>12. LiveHolds(live')
    BY <1>1, <1>10, <1>11 DEF LiveHolds
  <1> QED BY <1>1, <1>4, <1>10, <1>12

(* The next handler of an event is of the newest code. *)
LEMMA RunsTheNewest ==
    ASSUME NEW sim, LiveHolds(sim), NEW r, r.at # "schedules", NEW x \in Duties
    PROVE  IsOfNewest(RunOf(r, x, sim), sim.versions)
PROOF
  <1>1. PICK n \in Nat : n = Len(sim.versions)
    BY LiveIsTyped
  <1>2. PICK run : run = RunOf(r, x, sim)
    OBVIOUS
  <1>3. /\ run.body = x.body /\ run.code = CodeOf(r, x, sim) /\ run.seen = n
        /\ run.base = sim.forgotten
    BY <1>1, <1>2, CodeIsKnown, LiveIsTyped
  <1>4. x.body \in Bodies
    BY DutiesAre
  <1>5. run.code = sim.handlers[x.body]
    BY <1>3 DEF CodeOf
  <1>6. sim.handlers[x.body] = NewestOf(x.body, sim.forgotten, n, sim.versions)
    BY <1>1, <1>4 DEF LiveHolds
  <1>7. IsOfNewest(run, sim.versions)
    BY <1>1, <1>3, <1>5, <1>6 DEF IsOfNewest
  <1> QED BY <1>2, <1>7

(* A schedule that a deploy fires before anything else comes is of its own code. *)
LEMMA RunsItsOwn ==
    ASSUME NEW sim, LiveHolds(sim), NEW r, r.at = "schedules", NEW d \in 1..Len(sim.versions),
           NEW x \in ToSet(LoadedSchedules(sim.versions[d]))
    PROVE  IsOwn(RunOf(r, x, sim), d)
PROOF
  <1>1. PICK n \in Nat : n = Len(sim.versions)
    BY LiveIsTyped
  <1>2. PICK v \in Versions : v = sim.versions[d]
    <2>1. sim.versions \in Seq(Versions)
      BY DEF LiveHolds, Simulators
    <2>2. sim.versions[d] \in Versions
      BY <2>1
    <2> QED BY <2>2
  <1>3. PICK s \in Seq(Duties) : s = v.schedules
    BY DutiesAre
  <1>4. x \in ToSet(s) /\ x.body \in v.loads
    <2>1. PICK kept : kept = LoadedSchedules(v)
      OBVIOUS
    <2>2. kept = Among(s, {y \in ToSet(s) : y.body \in v.loads})
      BY <1>3, <2>1 DEF LoadedSchedules
    <2>3. /\ kept \in Seq(Duties)
          /\ \A i \in 1..Len(kept) : kept[i] \in {y \in ToSet(s) : y.body \in v.loads}
      BY <2>2, AmongIsOf
    <2>4. PICK i \in 1..Len(kept) : x = kept[i]
      BY <1>2, <2>1, <2>3 DEF ToSet
    <2> QED BY <2>3, <2>4
  <1>5. PICK k \in 1..Len(s) : x = s[k]
    BY <1>3, <1>4 DEF ToSet
  <1>6. x \in Duties
    BY <1>3, <1>5
  <1>7. PICK run : run = RunOf(r, x, sim)
    OBVIOUS
  <1>8. /\ run.code = CodeOfSchedule(x, sim) /\ run.seen = n /\ run.base = sim.forgotten
    <2>1. /\ run.code = CodeOf(r, x, sim) /\ run.seen = n /\ run.base = sim.forgotten
      BY <1>1, <1>6, <1>7, CodeIsKnown, LiveIsTyped
    <2> QED BY <2>1 DEF CodeOf
  <1>9. SUFFICES ASSUME n <= d, sim.forgotten < d
                 PROVE  CodeOfSchedule(x, sim) = d
    BY <1>7, <1>8 DEF IsOwn
  <1>10. d = n /\ sim.manifest = d
    <2>1. d = n
      BY <1>1, <1>9
    <2>2. sim.forgotten # n
      BY <1>9, <2>1, LiveIsTyped DEF SimTyped
    <2> QED BY <1>1, <2>1, <2>2 DEF LiveHolds
  <1>11. PICK found : found = {i \in DOMAIN s : s[i].key = x.key}
    OBVIOUS
  <1>12. found = {k}
    <2>1. \A i, j \in 1..Len(s) : s[i].key = s[j].key => i = j
      BY <1>3, DutiesAre
    <2> QED BY <1>3, <1>5, <1>11, <2>1
  <1>13. Min(found) = k
    <2>1. k \in found /\ k \in Int /\ \A j \in found : k <= j /\ j \in Int
      BY <1>12
    <2> QED BY <2>1, MinIs
  <1>14. CodeOfSchedule(x, sim) = sim.handlers[x.body]
    <2>1. sim.manifest # NoVersion
      BY <1>10 DEF NoVersion
    <2>2. s = IF sim.manifest = NoVersion THEN <<>> ELSE sim.versions[sim.manifest].schedules
      BY <1>2, <1>3, <1>10, <2>1
    <2>3. CodeOfSchedule(x, sim) = IF found = {} THEN NoVersion ELSE sim.handlers[s[Min(found)].body]
      BY <1>11, <2>2 DEF CodeOfSchedule
    <2> QED BY <1>5, <1>12, <1>13, <2>3
  <1>15. sim.handlers[x.body] = NewestOf(x.body, sim.forgotten, n, sim.versions)
    BY <1>1, <1>6, DutiesAre DEF LiveHolds
  <1>16. ChosenNewest(d, x.body, sim.forgotten, n, sim.versions)
    <2>1. BindsCode(x.body, d, sim.versions)
      <3>1. x.body \in BoundIn(v)
        BY <1>3, <1>5 DEF BoundIn
      <3> QED BY <1>2, <1>4, <3>1 DEF BindsCode
    <2>2. sim.forgotten \in Nat
      BY LiveIsTyped DEF SimTyped
    <2>3. d \in sim.forgotten + 1..n /\ \A j \in sim.forgotten + 1..n : j <= d
      BY <1>9, <1>10, <2>2
    <2> QED BY <2>1, <2>3 DEF ChosenNewest
  <1>17. NewestOf(x.body, sim.forgotten, n, sim.versions) = d
    BY <1>16, NewestIsIt, LiveIsTyped DEF SimTyped
  <1> QED BY <1>14, <1>15, <1>17

-----------------------------------------------------------------------------
(* What holds of a call *)

(* Sequences of functions in a row. *)
LEMMA BodiesInARow ==
    ASSUME NEW p \in Seq(Bodies), NEW q \in Seq(Bodies), NEW s \in Seq(Bodies)
    PROVE  (p \o q) \o s = p \o (q \o s) /\ p \o <<>> = p /\ <<>> \o p = p
PROOF
  <1>1. PICK pq \in Seq(Bodies), qs \in Seq(Bodies) : pq = p \o q /\ qs = q \o s
    <2>1. p \o q \in Seq(Bodies) /\ q \o s \in Seq(Bodies)
      OBVIOUS
    <2> QED BY <2>1
  <1>2. PICK a \in Seq(Bodies), b \in Seq(Bodies) : a = pq \o s /\ b = p \o qs
    <2>1. pq \o s \in Seq(Bodies) /\ p \o qs \in Seq(Bodies)
      OBVIOUS
    <2> QED BY <2>1
  <1>3. a = b
    <2>1. Len(a) = Len(p) + Len(q) + Len(s) /\ Len(b) = Len(p) + Len(q) + Len(s)
      BY <1>1, <1>2
    <2>2. ASSUME NEW i \in 1..(Len(p) + Len(q) + Len(s)) PROVE a[i] = b[i]
      <3>1. CASE i <= Len(p)
        BY <1>1, <1>2, <3>1
      <3>2. CASE Len(p) < i /\ i <= Len(p) + Len(q)
        BY <1>1, <1>2, <3>2
      <3>3. CASE Len(p) + Len(q) < i
        BY <1>1, <1>2, <3>3
      <3> QED BY <3>1, <3>2, <3>3
    <2> QED BY <2>1, <2>2, SeqEqual
  <1>4. p \o <<>> = p /\ <<>> \o p = p
    OBVIOUS
  <1> QED BY <1>1, <1>2, <1>3, <1>4

(* The functions that were run for an event are functions. *)
LEMMA BodiesRunAre ==
    ASSUME NEW r \in FiringRecords, NEW n
    PROVE  /\ Under(r.answers, n) \in Seq(FiringAnswers)
           /\ BodiesRun(r, n) \in Seq(Bodies)
PROOF
  <1>1. r.answers \in Seq(FiringAnswers)
    BY DEF FiringRecords
  <1>2. Under(r.answers, n) \in Seq(FiringAnswers)
    BY <1>1, AmongIsOf DEF Under
  <1> QED BY <1>2, RunBodiesAre DEF BodiesRun

(* The functions that are yet to run are functions. *)
LEMMA BodiesLeftTyped ==
    ASSUME NEW r \in FiringRecords
    PROVE  BodiesLeft(r) \in Seq(Bodies) /\ BodiesIn(r.left) \in Seq(Bodies)
PROOF
  <1>1. r.left \in Seq(Duties) /\ r.running \in RunRecords \cup {NoRun}
    BY DEF FiringRecords
  <1>2. BodiesIn(r.left) \in Seq(Bodies)
    BY <1>1, BodiesAre
  <1> QED BY <1>1, <1>2, BodiesLeftAre

(* What more answers to an event add. *)
LEMMA BodiesRunGrow ==
    ASSUME NEW r, NEW r2, NEW more, NEW k, MoreAnswers(r.answers, more, r2.answers, k)
    PROVE  /\ BodiesRun(r2, k) = BodiesRun(r, k) \o RunBodies(more)
           /\ \A n : n # k => BodiesRun(r2, n) = BodiesRun(r, n)
PROOF
  <1>1. PICK a \in Seq(FiringAnswers) : a = r.answers
    BY DEF MoreAnswers
  <1>2. PICK am : am = r2.answers
    OBVIOUS
  <1>3. PICK u \in Seq(FiringAnswers) : u = Under(a, k)
    BY AmongIsOf DEF Under
  <1>4. MoreAnswers(a, more, am, k) /\ more \in Seq(FiringAnswers)
    BY <1>1, <1>2 DEF MoreAnswers
  <1>5. Under(am, k) = u \o more /\ \A n : n # k => Under(am, n) = Under(a, n)
    <2>1. /\ Under(am, k) = Under(a, k) \o more
          /\ \A n : n # k => Under(am, n) = Under(a, n)
      BY <1>4, UnderGrows
    <2> QED BY <1>3, <2>1
  <1>6. RunBodies(u \o more) = RunBodies(u) \o RunBodies(more)
    BY <1>4, RunBodiesOfBoth
  <1> QED BY <1>1, <1>2, <1>3, <1>5, <1>6 DEF BodiesRun

\* What holds of a call when its next handler is about to start.
ReadyToGo(r, vs, gone) ==
  /\ r \in FiringRecords /\ r.at \in {"triggers", "schedules"} /\ PlaceHolds(r)
  /\ AnswersHold(r, vs) /\ EventsMatch(r, vs, BodiesIn(r.left))
  /\ DeploysMatch(r, vs, BodiesIn(r.left)) /\ FailuresHold(r, vs, gone)

(* When the next handler starts, everything that matched is still run once, in its order. *)
LEMMA AdvanceMatches ==
    ASSUME NEW r, NEW r2, NEW sim, SimTyped(sim), NEW next, NEW passed, NEW vs, NEW gone,
           ReadyToGo(r, vs, gone), Advanced(r, r2, sim, next, passed)
    PROVE  /\ EventsMatch(r2, vs, BodiesLeft(r2))
           /\ r2.deploys # NoVersion =>
                /\ r2.deploys \in 1..Len(vs)
                /\ BodiesRun(r2, 0) \o BodiesLeft(r2) = BodiesIn(LoadedSchedules(vs[r2.deploys]))
PROOF
  <1>1. /\ r \in FiringRecords /\ r2 \in FiringRecords /\ passed \in Seq(FiringAnswers)
        /\ r2.answers = r.answers \o passed /\ r2.fired = r.fired /\ r2.deploys = r.deploys
    BY DEF ReadyToGo, Advanced
  <1>2. PICK k : k = Len(r.fired)
    OBVIOUS
  <1>3. AllUnder(passed, k)
    <2>1. \A i \in 1..Len(passed) : passed[i] = AnswerBy(r, RunOf(r, r.left[i], sim), FALSE)
      BY DEF Advanced
    <2>2. \A run : AnswerBy(r, run, FALSE).under = k
      BY <1>2 DEF AnswerBy
    <2> QED BY <2>1, <2>2 DEF AllUnder
  <1>10. MoreAnswers(r.answers, passed, r2.answers, k)
    BY <1>1, <1>3 DEF MoreAnswers, FiringRecords
  <1>11. /\ BodiesRun(r2, k) = BodiesRun(r, k) \o RunBodies(passed)
         /\ \A n : n # k => BodiesRun(r2, n) = BodiesRun(r, n)
    BY <1>10, BodiesRunGrow
  <1>4. PICK p \in Seq(Bodies), q \in Seq(Bodies), l \in Seq(Bodies) :
             p = RunBodies(passed) /\ q = BodiesLeft(r2) /\ l = BodiesIn(r.left)
    BY <1>1, RunBodiesAre, BodiesLeftTyped
  <1>5. p \o q = l
    BY <1>1, <1>4, AdvancedBodies
  <1>6. ASSUME NEW n, n = k PROVE BodiesRun(r2, n) \o q = BodiesRun(r, n) \o l
    <2>1. BodiesRun(r2, n) = BodiesRun(r, n) \o p
      BY <1>4, <1>6, <1>11
    <2>2. PICK b \in Seq(Bodies) : b = BodiesRun(r, n)
      BY <1>1, BodiesRunAre
    <2>3. (b \o p) \o q = b \o (p \o q)
      BY BodiesInARow
    <2> QED BY <1>5, <2>1, <2>2, <2>3
  <1>7. ASSUME NEW n, n # k PROVE BodiesRun(r2, n) = BodiesRun(r, n)
    BY <1>7, <1>11
  <1>8. EventsMatch(r2, vs, q)
    <2>1. ASSUME NEW n \in 1..k
          PROVE  /\ r2.fired[n].under \in 1..Len(vs)
                 /\ BodiesRun(r2, n) \o (IF n = k THEN q ELSE <<>>) =
                      BodiesIn(Matched(vs[r2.fired[n].under], r2.fired[n].event))
      <3>1. /\ r.fired[n].under \in 1..Len(vs)
            /\ BodiesRun(r, n) \o (IF n = k THEN l ELSE <<>>) =
                 BodiesIn(Matched(vs[r.fired[n].under], r.fired[n].event))
        BY <1>2, <1>4 DEF ReadyToGo, EventsMatch
      <3>2. CASE n = k
        BY <1>1, <1>6, <3>1, <3>2
      <3>3. CASE n # k
        BY <1>1, <1>7, <3>1, <3>3
      <3> QED BY <3>2, <3>3
    <2> QED BY <1>1, <1>2, <2>1 DEF EventsMatch
  <1>9. ASSUME r.deploys # NoVersion
        PROVE  /\ r.deploys \in 1..Len(vs)
               /\ BodiesRun(r2, 0) \o q = BodiesIn(LoadedSchedules(vs[r.deploys]))
    <2>1. r.fired = <<>>
      BY <1>9 DEF ReadyToGo, PlaceHolds
    <2>2. k = 0
      BY <1>2, <2>1
    <2>3. r.deploys \in 1..Len(vs) /\ BodiesRun(r, 0) \o l = BodiesIn(LoadedSchedules(vs[r.deploys]))
      BY <1>4, <1>9 DEF ReadyToGo, DeploysMatch
    <2> QED BY <1>6, <2>2, <2>3
  <1> QED BY <1>1, <1>4, <1>8, <1>9

(* When the next handler starts, it is of the newest code, or of the deploy's own. *)
LEMMA AdvanceRuns ==
    ASSUME NEW r, NEW r2, NEW sim, LiveHolds(sim), NEW next, NEW passed, NEW gone,
           ReadyToGo(r, sim.versions, gone), Advanced(r, r2, sim, next, passed)
    PROVE  PlaceHolds(r2) /\ RunningHolds(r2, sim.versions)
PROOF
  <1>1. /\ r \in FiringRecords /\ r2 \in FiringRecords /\ r.at \in {"triggers", "schedules"}
        /\ PlaceHolds(r) /\ r2.fired = r.fired /\ r2.deploys = r.deploys /\ r2.todo = r.todo
        /\ SimTyped(sim)
    BY LiveIsTyped DEF ReadyToGo, Advanced
  <1>2. PICK n \in Nat : n = Len(r.left)
    BY <1>1 DEF FiringRecords
  <1>3. next \in 1..(n + 1) /\ r.left \in Seq(Duties)
    BY <1>1, <1>2 DEF Advanced, FiringRecords
  <1>4. CASE next <= n
    <2>1. /\ r2.running = RunOf(r, r.left[next], sim) /\ r2.running.code # NoVersion
          /\ r2.at = r.at
      BY <1>2, <1>4 DEF Advanced
    <2>2. r2.running # NoRun
      <3>1. NoRun.code = NoVersion
        BY DEF NoRun
      <3> QED BY <2>1, <3>1
    <2>3. next \in 1..n /\ r.left[next] \in Duties
      BY <1>2, <1>3, <1>4
    <2>4. r2.at = "triggers" => IsOfNewest(r2.running, sim.versions)
      BY <2>1, <2>3, RunsTheNewest
    <2>5. ASSUME r2.deploys # NoVersion PROVE IsOwn(r2.running, r2.deploys)
      <3>1. /\ r2.deploys \in 1..Len(sim.versions)
            /\ r.left[next] \in ToSet(LoadedSchedules(sim.versions[r2.deploys]))
        BY <1>1, <1>2, <2>3, <2>5 DEF ReadyToGo, DeploysMatch
      <3>2. r.at = "schedules"
        BY <1>1, <2>5 DEF PlaceHolds
      <3> QED BY <2>1, <3>1, <3>2, RunsItsOwn
    <2>6. PlaceHolds(r2)
      BY <1>1, <2>1 DEF PlaceHolds
    <2> QED BY <1>1, <2>1, <2>2, <2>4, <2>5, <2>6 DEF RunningHolds
  <1>5. CASE ~(next <= n)
    <2>1. /\ r2.running = NoRun /\ r2.at = IF r.todo # <<>> THEN "between" ELSE "done"
          /\ Len(r2.left) = 0
      BY <1>2, <1>5 DEF Advanced
    <2>2. r2.left = <<>>
      BY <1>1, <2>1 DEF FiringRecords
    <2>3. PlaceHolds(r2)
      BY <1>1, <2>1 DEF PlaceHolds
    <2> QED BY <2>1, <2>2, <2>3 DEF RunningHolds
  <1> QED BY <1>4, <1>5

(* When the next handler starts, the handlers that are passed over are answers of that
   moment. *)
LEMMA AdvanceAnswers ==
    ASSUME NEW r, NEW r2, NEW sim, LiveHolds(sim), NEW next, NEW passed, NEW gone,
           ReadyToGo(r, sim.versions, gone), Advanced(r, r2, sim, next, passed)
    PROVE  /\ AnswersHold(r2, sim.versions)
           /\ r2.deploys # NoVersion =>
                /\ \A i \in 1..Len(r2.answers) : IsOwn(r2.answers[i].run, r2.deploys)
                /\ \A i \in 1..Len(r2.left) :
                     r2.left[i] \in ToSet(LoadedSchedules(sim.versions[r2.deploys]))
PROOF
  <1>1. /\ r \in FiringRecords /\ r2 \in FiringRecords /\ r.at \in {"triggers", "schedules"}
        /\ PlaceHolds(r) /\ r2.fired = r.fired /\ r2.deploys = r.deploys /\ r2.todo = r.todo
        /\ r2.answers = r.answers \o passed /\ passed \in Seq(FiringAnswers)
        /\ r.answers \in Seq(FiringAnswers)
    BY DEF ReadyToGo, Advanced, FiringRecords
  <1>2. PICK n \in Nat, k \in Nat : n = Len(r.left) /\ k = Len(r.fired)
    BY <1>1 DEF FiringRecords
  <1>3. PICK vs : vs = sim.versions
    OBVIOUS
  <1>4. ASSUME NEW i \in 1..Len(passed)
        PROVE  /\ passed[i].under = k
               /\ r.at = "triggers" => IsOfNewest(passed[i].run, vs)
               /\ r.deploys # NoVersion => IsOwn(passed[i].run, r.deploys)
    <2>1. /\ passed[i] = AnswerBy(r, RunOf(r, r.left[i], sim), FALSE)
          /\ Len(passed) = next - 1 /\ next \in 1..(n + 1)
      BY <1>2 DEF Advanced
    <2>2. PICK run : run = RunOf(r, r.left[i], sim)
      OBVIOUS
    <2>3. passed[i].under = k /\ passed[i].run = run
      BY <1>2, <2>1, <2>2 DEF AnswerBy
    <2>4. i \in 1..n /\ r.left[i] \in Duties
      <3>1. i \in 1..n
        BY <2>1
      <3> QED BY <1>1, <1>2, <3>1 DEF FiringRecords
    <2>5. r.at = "triggers" => IsOfNewest(run, vs)
      BY <1>3, <2>2, <2>4, RunsTheNewest
    <2>6. ASSUME r.deploys # NoVersion PROVE IsOwn(run, r.deploys)
      <3>1. /\ r.deploys \in 1..Len(sim.versions)
            /\ r.left[i] \in ToSet(LoadedSchedules(sim.versions[r.deploys]))
        BY <1>2, <2>4, <2>6 DEF ReadyToGo, DeploysMatch
      <3>2. r.at = "schedules"
        BY <1>1, <2>6 DEF PlaceHolds
      <3> QED BY <2>2, <3>1, <3>2, RunsItsOwn
    <2> QED BY <2>3, <2>5, <2>6
  <1>5. PICK a \in Seq(FiringAnswers) : a = r2.answers
    BY <1>1 DEF FiringRecords
  <1>6. ASSUME NEW i \in 1..Len(a)
        PROVE  \/ i \in 1..Len(r.answers) /\ a[i] = r.answers[i]
               \/ \E j \in 1..Len(passed) : a[i] = passed[j]
    <2>1. a = r.answers \o passed
      BY <1>1, <1>5
    <2>2. CASE i <= Len(r.answers)
      BY <1>1, <2>1, <2>2
    <2>3. CASE ~(i <= Len(r.answers))
      <3>1. i - Len(r.answers) \in 1..Len(passed) /\ a[i] = passed[i - Len(r.answers)]
        BY <1>1, <2>1, <2>3
      <3> QED BY <3>1
    <2> QED BY <2>2, <2>3
  <1>7. AnswersHold(r2, vs)
    <2>1. r2.at \in {"new", "between"} => r.fired # <<>>
      <3>1. r2.at \in {r.at, "done"} \/ r.todo # <<>>
        BY <1>1, <1>2 DEF Advanced
      <3> QED BY <1>1, <3>1 DEF PlaceHolds
    <2>2. ASSUME NEW i \in 1..Len(a)
          PROVE  /\ a[i].under <= k
                 /\ a[i].under # 0 => IsOfNewest(a[i].run, vs)
                 /\ r.fired # <<>> => a[i].under # 0
      <3>1. CASE i \in 1..Len(r.answers) /\ a[i] = r.answers[i]
        BY <1>2, <1>3, <3>1 DEF ReadyToGo, AnswersHold
      <3>2. CASE \E j \in 1..Len(passed) : a[i] = passed[j]
        <4>1. PICK j \in 1..Len(passed) : a[i] = passed[j]
          BY <3>2
        <4>2. /\ a[i].under = k
              /\ r.at = "triggers" => IsOfNewest(a[i].run, vs)
          BY <1>4, <4>1
        <4>3. k # 0 <=> r.fired # <<>>
          BY <1>1, <1>2 DEF FiringRecords
        <4>4. k # 0 => r.at = "triggers"
          BY <1>1, <4>3 DEF PlaceHolds
        <4> QED BY <4>2, <4>3, <4>4
      <3> QED BY <1>6, <3>1, <3>2
    <2> QED BY <1>1, <1>2, <1>5, <2>1, <2>2 DEF AnswersHold
  <1>8. ASSUME r.deploys # NoVersion
        PROVE  /\ \A i \in 1..Len(a) : IsOwn(a[i].run, r.deploys)
               /\ \A i \in 1..Len(r2.left) : r2.left[i] \in ToSet(LoadedSchedules(vs[r.deploys]))
    <2>1. /\ \A i \in 1..n : r.left[i] \in ToSet(LoadedSchedules(vs[r.deploys]))
          /\ \A i \in 1..Len(r.answers) : IsOwn(r.answers[i].run, r.deploys)
      BY <1>2, <1>3, <1>8 DEF ReadyToGo, DeploysMatch
    <2>2. \A i \in 1..Len(a) : IsOwn(a[i].run, r.deploys)
      BY <1>4, <1>6, <1>8, <2>1
    <2>3. ASSUME NEW i \in 1..Len(r2.left)
          PROVE  r2.left[i] \in ToSet(LoadedSchedules(vs[r.deploys]))
      <3>1. /\ r2.left[i] = r.left[next + i] /\ next \in 1..(n + 1)
            /\ Len(r2.left) = IF next <= n THEN n - next ELSE 0
        BY <1>2 DEF Advanced
      <3>2. next + i \in 1..n
        BY <3>1
      <3> QED BY <2>1, <3>1, <3>2
    <2> QED BY <2>2, <2>3
  <1> QED BY <1>1, <1>3, <1>5, <1>7, <1>8

(* When the next handler starts, the call is where it should be. *)
LEMMA AdvanceHolds ==
    ASSUME NEW r, NEW sim, LiveHolds(sim), NEW gone, ReadyToGo(r, sim.versions, gone)
    PROVE  FiringHolds(Advance(r, sim), sim.versions, gone)
PROOF
  <1>1. r \in FiringRecords /\ SimTyped(sim)
    BY LiveIsTyped DEF ReadyToGo
  <1>2. PICK r2 : r2 = Advance(r, sim)
    OBVIOUS
  <1>3. PICK next, passed : Advanced(r, r2, sim, next, passed)
    BY <1>1, <1>2, AdvanceIs
  <1>4. PICK vs : vs = sim.versions
    OBVIOUS
  <1>5. /\ EventsMatch(r2, vs, BodiesLeft(r2))
        /\ r2.deploys # NoVersion =>
             /\ r2.deploys \in 1..Len(vs)
             /\ BodiesRun(r2, 0) \o BodiesLeft(r2) = BodiesIn(LoadedSchedules(vs[r2.deploys]))
    BY <1>1, <1>3, <1>4, AdvanceMatches
  <1>6. PlaceHolds(r2) /\ RunningHolds(r2, vs)
    BY <1>3, <1>4, AdvanceRuns
  <1>7. /\ AnswersHold(r2, vs)
        /\ r2.deploys # NoVersion =>
             /\ \A i \in 1..Len(r2.answers) : IsOwn(r2.answers[i].run, r2.deploys)
             /\ \A i \in 1..Len(r2.left) : r2.left[i] \in ToSet(LoadedSchedules(vs[r2.deploys]))
    BY <1>3, <1>4, AdvanceAnswers
  <1>8. DeploysMatch(r2, vs, BodiesLeft(r2))
    BY <1>5, <1>7 DEF DeploysMatch
  <1>9. FailuresHold(r2, vs, gone)
    <2>1. r2.failed = r.failed /\ r2.uuid = r.uuid
      BY <1>3 DEF Advanced
    <2> QED BY <1>4, <2>1 DEF ReadyToGo, FailuresHold
  <1>10. r2 \in FiringRecords
    BY <1>3 DEF Advanced
  <1> QED BY <1>2, <1>4, <1>5, <1>6, <1>7, <1>8, <1>9, <1>10 DEF FiringHolds

(* Versions that are installed or forgotten change nothing for a call. *)
LEMMA FiringStays ==
    ASSUME NEW r, NEW vs \in Seq(Versions), NEW us \in Seq(Versions), Len(vs) <= Len(us),
           \A n \in 1..Len(vs) : us[n] = vs[n],
           NEW gone \in Nat, NEW more \in Nat, gone <= more, FiringHolds(r, vs, gone)
    PROVE  FiringHolds(r, us, more)
PROOF
  <1>1. PICK n \in Nat, m \in Nat : n = Len(vs) /\ m = Len(us) /\ n <= m
    OBVIOUS
  <1>2. \A d \in 1..n : us[d] = vs[d] /\ d \in 1..m
    BY <1>1
  <1>3. ASSUME NEW run \in RunRecords, IsOfNewest(run, vs) PROVE IsOfNewest(run, us)
    <2>1. run.base \in Nat /\ run.seen \in Nat /\ run.seen <= n
      BY <1>1, <1>3 DEF RunRecords, IsOfNewest
    <2>2. \A d \in 1..run.seen : us[d] = vs[d]
      BY <1>2, <2>1
    <2>3. NewestOf(run.body, run.base, run.seen, us) = NewestOf(run.body, run.base, run.seen, vs)
      BY <2>1, <2>2, NewestStays
    <2> QED BY <1>1, <1>3, <2>1, <2>3 DEF IsOfNewest
  <1>4. r \in FiringRecords /\ PlaceHolds(r)
    BY DEF FiringHolds
  <1>5. RunningHolds(r, us)
    <2>1. RunningHolds(r, vs)
      BY DEF FiringHolds
    <2>2. r.at = "triggers" => r.running \in RunRecords
      BY <1>4, <2>1 DEF RunningHolds, FiringRecords
    <2> QED BY <1>3, <2>1, <2>2 DEF RunningHolds
  <1>6. AnswersHold(r, us)
    <2>1. \A i \in 1..Len(r.answers) : r.answers[i].run \in RunRecords
      <3>1. \A i \in 1..Len(r.answers) : r.answers[i] \in FiringAnswers
        BY <1>4 DEF FiringRecords
      <3> QED BY <3>1 DEF FiringAnswers
    <2>2. AnswersHold(r, vs)
      BY DEF FiringHolds
    <2> QED BY <1>3, <2>1, <2>2 DEF AnswersHold
  <1>7. EventsMatch(r, us, BodiesLeft(r))
    <2>1. EventsMatch(r, vs, BodiesLeft(r))
      BY DEF FiringHolds
    <2>2. ASSUME NEW k \in 1..Len(r.fired)
          PROVE  /\ r.fired[k].under \in 1..n
                 /\ us[r.fired[k].under] = vs[r.fired[k].under]
                 /\ r.fired[k].under \in 1..m
      <3>1. r.fired[k].under \in 1..n
        BY <1>1, <2>1 DEF EventsMatch
      <3> QED BY <1>2, <3>1
    <2> QED BY <1>1, <2>1, <2>2 DEF EventsMatch
  <1>8. DeploysMatch(r, us, BodiesLeft(r))
    <2>1. DeploysMatch(r, vs, BodiesLeft(r))
      BY DEF FiringHolds
    <2>2. ASSUME r.deploys # NoVersion
          PROVE  us[r.deploys] = vs[r.deploys] /\ r.deploys \in 1..m
      <3>1. r.deploys \in 1..n
        BY <1>1, <2>1, <2>2 DEF DeploysMatch
      <3> QED BY <1>2, <3>1
    <2> QED BY <1>1, <2>1, <2>2 DEF DeploysMatch
  <1>9. FailuresHold(r, us, more)
    <2>1. FailuresHold(r, vs, gone)
      BY DEF FiringHolds
    <2>2. n > 0 => m > 0
      BY <1>1
    <2>3. gone > 0 => more > 0
      OBVIOUS
    <2> QED BY <1>1, <2>1, <2>2, <2>3 DEF FailuresHold
  <1> QED BY <1>4, <1>5, <1>6, <1>7, <1>8, <1>9 DEF FiringHolds

-----------------------------------------------------------------------------
(* The actions keep it *)

\* A call that has nothing running.
Resting(r, vs, gone) ==
  /\ r \in FiringRecords /\ r.at \in {"new", "between"}
  /\ r.deploys = NoVersion /\ r.running = NoRun /\ r.left = <<>>
  /\ AnswersHold(r, vs) /\ EventsMatch(r, vs, <<>>) /\ FailuresHold(r, vs, gone)

(* No functions are none. *)
LEMMA NoBodies ==
    BodiesIn(<<>>) = <<>> /\ RunBodies(<<>>) = <<>>
PROOF
  <1>1. <<>> \in Seq(Duties) /\ <<>> \in Seq(FiringAnswers)
    OBVIOUS
  <1>2. PICK b \in Seq(Bodies), c \in Seq(Bodies) : b = BodiesIn(<<>>) /\ c = RunBodies(<<>>)
    BY <1>1, BodiesAre, RunBodiesAre
  <1>3. Len(b) = 0 /\ Len(c) = 0
    BY <1>1, <1>2, BodiesAre, RunBodiesAre
  <1> QED BY <1>2, <1>3

(* So has a call between two events. *)
LEMMA BetweenIsResting ==
    ASSUME NEW r, NEW vs, NEW gone, FiringHolds(r, vs, gone), r.at = "between"
    PROVE  Resting(r, vs, gone) /\ r.todo # <<>>
PROOF
  <1>1. r.running = NoRun /\ r.left = <<>>
    BY DEF FiringHolds, RunningHolds
  <1>2. BodiesLeft(r) = <<>>
    BY <1>1, NoBodies, BodiesLeftAre DEF FiringHolds, FiringRecords
  <1> QED BY <1>1, <1>2 DEF FiringHolds, Resting, PlaceHolds

(* And one that has not begun. *)
LEMMA FreshHolds ==
    ASSUME NEW vs, NEW gone
    PROVE  FiringHolds(Fresh, vs, gone) /\ Resting(Fresh, vs, gone)
PROOF
  <1>1. PICK r : r = Fresh
    OBVIOUS
  <1>2. /\ r.at = "new" /\ r.event = AnEvent("none", BadKey) /\ r.left = <<>> /\ r.running = NoRun
        /\ r.todo = <<>> /\ r.uuid = "unknown" /\ r.answers = <<>> /\ r.failed = <<>>
        /\ r.fired = <<>> /\ r.deploys = NoVersion
    BY <1>1 DEF Fresh
  <1>3. AnEvent("none", BadKey) \in EventRecords
    BY DEF AnEvent, EventRecords, Uuids, EventKeys
  <1>4. r \in FiringRecords
    <2> HIDE DEF Duties, EventKeys, Uuids, EventRecords, RunRecords, FiringAnswers, FiredRecords, NoRun
    <2>1. "unknown" \in Uuids
      BY DEF Uuids
    <2>2. "new" \in FiringStates /\ NoVersion \in Nat
      BY DEF FiringStates, NoVersion
    <2>3. r = [at |-> "new", event |-> AnEvent("none", BadKey), left |-> <<>>, running |-> NoRun,
               todo |-> <<>>, uuid |-> "unknown", answers |-> <<>>, failed |-> <<>>, fired |-> <<>>,
               deploys |-> NoVersion]
      BY <1>1 DEF Fresh
    <2>4. /\ <<>> \in Seq(Duties) /\ <<>> \in Seq(EventKeys) /\ <<>> \in Seq(FiringAnswers)
          /\ <<>> \in Seq(EventRecords) /\ <<>> \in Seq(FiredRecords)
      OBVIOUS
    <2> QED BY <1>3, <2>1, <2>2, <2>3, <2>4 DEF FiringRecords
  <1>5. Len(<<>>) = 0 /\ 1..0 = {}
    OBVIOUS
  <1>6. /\ PlaceHolds(r) /\ RunningHolds(r, vs) /\ AnswersHold(r, vs) /\ FailuresHold(r, vs, gone)
    BY <1>2, <1>5 DEF PlaceHolds, RunningHolds, AnswersHold, FailuresHold
  <1>7. \A rest : EventsMatch(r, vs, rest) /\ DeploysMatch(r, vs, rest)
    BY <1>2, <1>5 DEF EventsMatch, DeploysMatch
  <1> QED BY <1>1, <1>2, <1>4, <1>6, <1>7 DEF FiringHolds, Resting

(* An answer makes way for the next handler. *)
LEMMA AnswerIsReady ==
    ASSUME NEW r, NEW vs, NEW gone, FiringHolds(r, vs, gone), r.running # NoRun, NEW ok \in BOOLEAN
    PROVE  ReadyToGo([r EXCEPT !.answers = Append(@, AnswerBy(r, r.running, ok))], vs, gone)
PROOF
  <1>1. /\ r \in FiringRecords /\ PlaceHolds(r) /\ RunningHolds(r, vs) /\ AnswersHold(r, vs)
        /\ EventsMatch(r, vs, BodiesLeft(r)) /\ DeploysMatch(r, vs, BodiesLeft(r))
        /\ FailuresHold(r, vs, gone)
    BY DEF FiringHolds
  <1>2. /\ r.answers \in Seq(FiringAnswers) /\ r.running \in RunRecords
        /\ r.fired \in Seq(FiredRecords) /\ r.left \in Seq(Duties)
    BY <1>1 DEF FiringRecords
  <1>3. PICK k : k = Len(r.fired)
    OBVIOUS
  <1>4. k \in Nat /\ (k = 0 <=> r.fired = <<>>)
    BY <1>2, <1>3
  <1>5. PICK x : x = AnswerBy(r, r.running, ok)
    OBVIOUS
  <1>6. x \in FiringAnswers /\ x.run = r.running /\ x.under = k
    BY <1>2, <1>3, <1>4, <1>5 DEF AnswerBy, FiringAnswers
  <1>7. PICK as \in Seq(FiringAnswers) : as = Append(r.answers, x)
    <2>1. Append(r.answers, x) \in Seq(FiringAnswers)
      BY <1>2, <1>6
    <2> QED BY <2>1
  <1>8. PICK r2 : r2 = [r EXCEPT !.answers = as]
    OBVIOUS
  <1>9. /\ r2 \in FiringRecords
        /\ r2.answers = as /\ r2.left = r.left /\ r2.running = r.running /\ r2.at = r.at
        /\ r2.event = r.event /\ r2.todo = r.todo /\ r2.uuid = r.uuid /\ r2.failed = r.failed
        /\ r2.fired = r.fired /\ r2.deploys = r.deploys
    <2> HIDE DEF Duties, EventKeys, Uuids, EventRecords, RunRecords, FiringAnswers, FiredRecords,
                 FiringStates, NoRun
    <2> QED BY <1>1, <1>7, <1>8 DEF FiringRecords
  <1>10. r.at \in {"triggers", "schedules"}
    BY <1>1 DEF RunningHolds
  <1>11. /\ Len(as) = Len(r.answers) + 1 /\ as[Len(r.answers) + 1] = x
         /\ \A i \in 1..Len(r.answers) : as[i] = r.answers[i]
    BY <1>2, <1>6, <1>7
  <1>12. \A i \in 1..Len(as) : (i \in 1..Len(r.answers) /\ as[i] = r.answers[i]) \/ as[i] = x
    <2>1. \A i \in 1..(Len(r.answers) + 1) : i \in 1..Len(r.answers) \/ i = Len(r.answers) + 1
      BY <1>2
    <2> QED BY <1>11, <2>1
  <1>13. AnswersHold(r2, vs)
    <2>1. /\ x.under <= k
          /\ x.under # 0 => IsOfNewest(x.run, vs)
          /\ r.fired # <<>> => x.under # 0
      <3>1. k # 0 => r.at = "triggers"
        BY <1>1, <1>4, <1>10 DEF PlaceHolds
      <3> QED BY <1>1, <1>4, <1>6, <3>1 DEF RunningHolds
    <2>2. ASSUME NEW i \in 1..Len(as)
          PROVE  /\ as[i].under <= k
                 /\ as[i].under # 0 => IsOfNewest(as[i].run, vs)
                 /\ r.fired # <<>> => as[i].under # 0
      <3>1. CASE i \in 1..Len(r.answers) /\ as[i] = r.answers[i]
        BY <1>1, <1>3, <3>1 DEF AnswersHold
      <3> QED BY <1>12, <2>1, <3>1
    <2>3. ~(r.at \in {"new", "between"})
      BY <1>10
    <2> QED BY <1>3, <1>9, <2>2, <2>3 DEF AnswersHold
  <1>14. PICK more : more = <<x>>
    OBVIOUS
  <1>15. MoreAnswers(r.answers, more, r2.answers, k)
    <2>1. more \in Seq(FiringAnswers) /\ Len(more) = 1 /\ more[1] = x
      BY <1>6, <1>14
    <2>2. AllUnder(more, k)
      BY <1>6, <2>1 DEF AllUnder
    <2>3. as = r.answers \o more
      BY <1>2, <1>6, <1>7, <1>14
    <2> QED BY <1>2, <1>9, <2>1, <2>2, <2>3 DEF MoreAnswers
  <1>16. /\ BodiesRun(r2, k) = BodiesRun(r, k) \o RunBodies(more)
         /\ \A n : n # k => BodiesRun(r2, n) = BodiesRun(r, n)
    BY <1>15, BodiesRunGrow
  <1>17. PICK l \in Seq(Bodies), p \in Seq(Bodies), b \in Seq(Bodies) :
              l = BodiesIn(r.left) /\ p = RunBodies(more) /\ b = BodiesRun(r, k)
    BY <1>1, <1>2, <1>15, BodiesAre, RunBodiesAre, BodiesRunAre DEF MoreAnswers
  <1>18. p = <<r.running.body>>
    <2>1. more \in Seq(FiringAnswers) /\ Len(more) = 1 /\ more[1] = x
      BY <1>6, <1>14
    <2>2. Len(p) = 1 /\ p[1] = x.run.body
      BY <1>17, <2>1, RunBodiesAre
    <2> QED BY <1>6, <2>2
  <1>19. BodiesLeft(r) = p \o l
    BY <1>17, <1>18 DEF BodiesLeft
  <1>20. BodiesRun(r2, k) \o l = b \o (p \o l)
    BY <1>16, <1>17, BodiesInARow
  <1>21. EventsMatch(r2, vs, l)
    <2>1. ASSUME NEW n \in 1..Len(r.fired)
          PROVE  /\ r.fired[n].under \in 1..Len(vs)
                 /\ BodiesRun(r2, n) \o (IF n = k THEN l ELSE <<>>) =
                      BodiesIn(Matched(vs[r.fired[n].under], r.fired[n].event))
      <3>1. /\ r.fired[n].under \in 1..Len(vs)
            /\ BodiesRun(r, n) \o (IF n = k THEN p \o l ELSE <<>>) =
                 BodiesIn(Matched(vs[r.fired[n].under], r.fired[n].event))
        BY <1>1, <1>3, <1>19 DEF EventsMatch
      <3>2. CASE n = k
        BY <1>17, <1>20, <3>1, <3>2
      <3>3. CASE n # k
        BY <1>16, <3>1, <3>3
      <3> QED BY <3>2, <3>3
    <2> QED BY <1>3, <1>9, <2>1 DEF EventsMatch
  <1>22. DeploysMatch(r2, vs, l)
    <2>1. SUFFICES ASSUME r.deploys # NoVersion
                   PROVE  /\ r.deploys \in 1..Len(vs)
                          /\ BodiesRun(r2, 0) \o l = BodiesIn(LoadedSchedules(vs[r.deploys]))
                          /\ \A i \in 1..Len(r.left) :
                               r.left[i] \in ToSet(LoadedSchedules(vs[r.deploys]))
                          /\ \A i \in 1..Len(as) : IsOwn(as[i].run, r.deploys)
      BY <1>9 DEF DeploysMatch
    <2>2. /\ r.deploys \in 1..Len(vs)
          /\ BodiesRun(r, 0) \o (p \o l) = BodiesIn(LoadedSchedules(vs[r.deploys]))
          /\ \A i \in 1..Len(r.left) : r.left[i] \in ToSet(LoadedSchedules(vs[r.deploys]))
          /\ \A i \in 1..Len(r.answers) : IsOwn(r.answers[i].run, r.deploys)
      BY <1>1, <1>19, <2>1 DEF DeploysMatch
    <2>3. k = 0
      BY <1>1, <1>4, <2>1 DEF PlaceHolds
    <2>4. IsOwn(x.run, r.deploys)
      BY <1>1, <1>6, <2>1 DEF RunningHolds
    <2>5. \A i \in 1..Len(as) : IsOwn(as[i].run, r.deploys)
      BY <1>12, <2>2, <2>4
    <2> QED BY <1>17, <1>20, <2>2, <2>3, <2>5
  <1>23. PlaceHolds(r2) /\ FailuresHold(r2, vs, gone)
    BY <1>1, <1>9 DEF PlaceHolds, FailuresHold
  <1>24. ReadyToGo(r2, vs, gone)
    BY <1>9, <1>10, <1>13, <1>17, <1>21, <1>22, <1>23 DEF ReadyToGo
  <1>25. [r EXCEPT !.answers = Append(@, AnswerBy(r, r.running, ok))] = r2
    BY <1>1, <1>5, <1>7, <1>8 DEF FiringRecords
  <1> QED BY <1>24, <1>25

(* The triggers of a version, and what of them matches, are duties. *)
LEMMA MatchedAre ==
    ASSUME NEW v \in Versions, NEW event
    PROVE  Matched(v, event) \in Seq(Duties) /\ LoadedSchedules(v) \in Seq(Duties)
BY DutiesAre, AmongIsOf DEF Matched, LoadedSchedules

(* An event of a call that has nothing running starts the first trigger that matches. *)
LEMMA FireHolds ==
    ASSUME NEW r, LiveHolds(live), Resting(r, live.versions, live.forgotten),
           live.manifest # NoVersion, NEW event \in EventRecords
    PROVE  FiringHolds(Fire(r, event), live.versions, live.forgotten)
PROOF
  <1>1. PICK vs \in Seq(Versions) : vs = live.versions
    BY DEF LiveHolds, Simulators
  <1>2. PICK m : m = live.manifest
    OBVIOUS
  <1>3. m \in 1..Len(vs) /\ Manifest = vs[m]
    BY <1>1, <1>2, LiveIsTyped DEF SimTyped, NoVersion, Manifest
  <1>4. PICK v \in Versions : v = vs[m]
    <2>1. vs[m] \in Versions
      BY <1>3
    <2> QED BY <2>1
  <1>5. PICK left \in Seq(Duties) : left = Matched(v, event)
    BY MatchedAre
  <1>6. PICK x : x = [event |-> event, under |-> m]
    OBVIOUS
  <1>7. x \in FiredRecords /\ x.event = event /\ x.under = m
    <2>1. m \in Nat
      BY <1>3
    <2> QED BY <1>6, <2>1 DEF FiredRecords
  <1>8. /\ r \in FiringRecords /\ r.fired \in Seq(FiredRecords)
        /\ r.answers \in Seq(FiringAnswers)
    BY DEF Resting, FiringRecords
  <1>9. PICK fired \in Seq(FiredRecords) : fired = Append(r.fired, x)
    <2>1. Append(r.fired, x) \in Seq(FiredRecords)
      BY <1>7, <1>8
    <2> QED BY <2>1
  <1>10. PICK k \in Nat : k = Len(r.fired)
    BY <1>8
  <1>11. /\ Len(fired) = k + 1 /\ fired[k + 1] = x
         /\ \A n \in 1..k : fired[n] = r.fired[n]
    BY <1>7, <1>8, <1>9, <1>10
  <1>12. PICK r2 : r2 = [r EXCEPT !.at = "triggers", !.event = event, !.left = left, !.fired = fired]
    OBVIOUS
  <1>13. /\ r2 \in FiringRecords
         /\ r2.at = "triggers" /\ r2.left = left /\ r2.fired = fired /\ r2.answers = r.answers
         /\ r2.deploys = r.deploys /\ r2.failed = r.failed /\ r2.uuid = r.uuid
    <2> HIDE DEF Duties, EventKeys, Uuids, EventRecords, RunRecords, FiringAnswers, FiredRecords,
                 FiringStates, NoRun
    <2>1. "triggers" \in FiringStates
      BY DEF FiringStates
    <2>2. PICK l1 : l1 = [r EXCEPT !.at = "triggers"]
      OBVIOUS
    <2>3. PICK l2 : l2 = [l1 EXCEPT !.event = event]
      OBVIOUS
    <2>4. PICK l3 : l3 = [l2 EXCEPT !.left = left]
      OBVIOUS
    <2>5. l1 \in FiringRecords /\ l1.at = "triggers" /\ l1.answers = r.answers
          /\ l1.deploys = r.deploys /\ l1.failed = r.failed /\ l1.uuid = r.uuid
      BY <1>8, <2>1, <2>2 DEF FiringRecords
    <2>6. l2 \in FiringRecords /\ l2.at = "triggers" /\ l2.answers = r.answers
          /\ l2.deploys = r.deploys /\ l2.failed = r.failed /\ l2.uuid = r.uuid
      BY <2>3, <2>5 DEF FiringRecords
    <2>7. l3 \in FiringRecords /\ l3.at = "triggers" /\ l3.answers = r.answers
          /\ l3.deploys = r.deploys /\ l3.failed = r.failed /\ l3.uuid = r.uuid /\ l3.left = left
      BY <2>4, <2>6 DEF FiringRecords
    <2>8. r2 = [l3 EXCEPT !.fired = fired]
      BY <1>12, <2>2, <2>3, <2>4
    <2> QED BY <2>7, <2>8 DEF FiringRecords
  <1>14. r2 = [r EXCEPT !.at = "triggers", !.event = event, !.left = Matched(Manifest, event),
                        !.fired = Append(@, [event |-> event, under |-> live.manifest])]
    BY <1>2, <1>3, <1>4, <1>5, <1>6, <1>8, <1>9, <1>12
  <1>15. \A i \in 1..Len(r.answers) : /\ r.answers[i].under <= k /\ r.answers[i].under # 0
                                       /\ r.answers[i].under \in Nat /\ IsOfNewest(r.answers[i].run, vs)
    <2>1. \A i \in 1..Len(r.answers) : r.answers[i] \in FiringAnswers
      BY <1>8
    <2>2. AnswersHold(r, vs) /\ r.at \in {"new", "between"}
      BY <1>1 DEF Resting
    <2> QED BY <1>10, <2>1, <2>2 DEF AnswersHold, FiringAnswers
  <1>16. AnswersHold(r2, vs)
    <2>1. \A i \in 1..Len(r.answers) : r.answers[i].under <= k + 1
      BY <1>15
    <2> QED BY <1>11, <1>13, <1>15, <2>1 DEF AnswersHold
  <1>17. PICK l \in Seq(Bodies) : l = BodiesIn(left)
    BY BodiesAre
  <1>18. EventsMatch(r2, vs, l)
    <2>1. \A n : BodiesRun(r2, n) = BodiesRun(r, n)
      BY <1>13 DEF BodiesRun
    <2>2. EventsMatch(r, vs, <<>>)
      BY <1>1 DEF Resting
    <2>3. ASSUME NEW n \in 1..k
          PROVE  /\ r.fired[n].under \in 1..Len(vs)
                 /\ BodiesRun(r, n) \o <<>> = BodiesIn(Matched(vs[r.fired[n].under], r.fired[n].event))
      <3>1. /\ r.fired[n].under \in 1..Len(vs)
            /\ BodiesRun(r, n) \o (IF n = k THEN <<>> ELSE <<>>) =
                 BodiesIn(Matched(vs[r.fired[n].under], r.fired[n].event))
        BY <1>10, <2>2 DEF EventsMatch
      <3> QED BY <3>1
    <2>4. BodiesRun(r, k + 1) \o l = l
      <3>1. \A i \in 1..Len(r.answers) : r.answers[i].under # k + 1
        BY <1>15
      <3>2. Under(r.answers, k + 1) = <<>>
        BY <1>8, <3>1, UnderNone
      <3>3. BodiesRun(r, k + 1) = <<>>
        BY <3>2, NoBodies DEF BodiesRun
      <3> QED BY <3>3
    <2>5. ASSUME NEW n \in 1..(k + 1)
          PROVE  /\ fired[n].under \in 1..Len(vs)
                 /\ BodiesRun(r, n) \o (IF n = k + 1 THEN l ELSE <<>>) =
                      BodiesIn(Matched(vs[fired[n].under], fired[n].event))
      <3>1. CASE n = k + 1
        BY <1>3, <1>4, <1>5, <1>7, <1>11, <1>17, <2>4, <3>1
      <3>2. CASE n # k + 1
        <4>1. n \in 1..k
          BY <3>2
        <4> QED BY <1>11, <2>3, <3>2, <4>1
      <3> QED BY <3>1, <3>2
    <2> QED BY <1>11, <1>13, <2>1, <2>5 DEF EventsMatch
  <1>19. PlaceHolds(r2) /\ DeploysMatch(r2, vs, l) /\ FailuresHold(r2, vs, live.forgotten)
    <2>1. r2.fired # <<>>
      BY <1>11, <1>13
    <2>2. r2.deploys = NoVersion /\ FailuresHold(r, vs, live.forgotten)
      BY <1>1, <1>13 DEF Resting
    <2> QED BY <1>13, <2>1, <2>2 DEF PlaceHolds, DeploysMatch, FailuresHold
  <1>20. ReadyToGo(r2, vs, live.forgotten)
    BY <1>13, <1>16, <1>17, <1>18, <1>19 DEF ReadyToGo
  <1>21. FiringHolds(Advance(r2, live), vs, live.forgotten)
    BY <1>1, <1>20, AdvanceHolds
  <1> QED BY <1>1, <1>14, <1>21 DEF Fire

(* The next event of a publish() is fired, or fails because there is no manifest. *)
LEMMA PublishingHolds ==
    ASSUME NEW r, LiveHolds(live), Resting(r, live.versions, live.forgotten), r.todo # <<>>
    PROVE  FiringHolds(PublishNext(r), live.versions, live.forgotten)
PROOF
  <1>1. PICK vs \in Seq(Versions) : vs = live.versions
    BY DEF LiveHolds, Simulators
  <1>2. PICK gone \in Nat : gone = live.forgotten
    BY DEF LiveHolds, Simulators
  <1>3. /\ r \in FiringRecords /\ r.todo \in Seq(EventKeys) /\ r.uuid \in Uuids
        /\ r.failed \in Seq(EventRecords) /\ r.at \in {"new", "between"}
    BY DEF Resting, FiringRecords
  <1>4. PICK event : event = AnEvent(r.uuid, Head(r.todo))
    OBVIOUS
  <1>5. event \in EventRecords /\ event.key = Head(r.todo)
    <2>1. Head(r.todo) \in EventKeys
      BY <1>3
    <2> QED BY <1>3, <1>4, <2>1 DEF AnEvent, EventRecords
  <1>6. PICK todo \in Seq(EventKeys) : todo = Tail(r.todo)
    <2>1. Tail(r.todo) \in Seq(EventKeys)
      BY <1>3
    <2> QED BY <2>1
  <1>7. PICK rest : rest = [r EXCEPT !.todo = todo]
    OBVIOUS
  <1>8. /\ rest \in FiringRecords /\ rest.at = r.at /\ rest.left = r.left
        /\ rest.running = r.running /\ rest.todo = todo /\ rest.uuid = r.uuid
        /\ rest.answers = r.answers /\ rest.failed = r.failed /\ rest.fired = r.fired
        /\ rest.deploys = r.deploys
    <2> HIDE DEF Duties, EventKeys, Uuids, EventRecords, RunRecords, FiringAnswers, FiredRecords,
                 FiringStates, NoRun
    <2> QED BY <1>3, <1>6, <1>7 DEF FiringRecords
  <1>9. Resting(rest, vs, gone)
    <2>1. \A n : BodiesRun(rest, n) = BodiesRun(r, n)
      BY <1>8 DEF BodiesRun
    <2>2. Resting(r, vs, gone)
      BY <1>1, <1>2
    <2>3. AnswersHold(rest, vs) /\ FailuresHold(rest, vs, gone)
      BY <1>8, <2>2 DEF Resting, AnswersHold, FailuresHold
    <2>4. EventsMatch(rest, vs, <<>>)
      BY <1>8, <2>1, <2>2 DEF Resting, EventsMatch
    <2> QED BY <1>8, <2>2, <2>3, <2>4 DEF Resting
  <1>10. PublishNext(r) = IF event.key = BadKey \/ live.manifest = NoVersion
                          THEN Fails(rest, event) ELSE Fire(rest, event)
    BY <1>4, <1>6, <1>7 DEF PublishNext
  <1>11. CASE ~(event.key = BadKey \/ live.manifest = NoVersion)
    BY <1>1, <1>2, <1>5, <1>9, <1>10, <1>11, FireHolds
  <1>12. CASE event.key = BadKey \/ live.manifest = NoVersion
    <2>1. PICK failed \in Seq(EventRecords) : failed = Append(r.failed, event)
      <3>1. Append(r.failed, event) \in Seq(EventRecords)
        BY <1>3, <1>5
      <3> QED BY <3>1
    <2>2. PICK at : at = IF todo = <<>> THEN "done" ELSE "between"
      OBVIOUS
    <2>3. PICK r2 : r2 = [rest EXCEPT !.failed = failed, !.at = at]
      OBVIOUS
    <2>4. PublishNext(r) = r2
      BY <1>8, <1>10, <1>12, <2>1, <2>2, <2>3 DEF Fails
    <2>5. /\ r2 \in FiringRecords /\ r2.at = at /\ r2.left = r.left
          /\ r2.running = r.running /\ r2.todo = todo /\ r2.uuid = r.uuid
          /\ r2.answers = r.answers /\ r2.failed = failed /\ r2.fired = r.fired
          /\ r2.deploys = r.deploys
      <3> HIDE DEF Duties, EventKeys, Uuids, EventRecords, RunRecords, FiringAnswers, FiredRecords,
                   FiringStates, NoRun
      <3>1. at \in FiringStates
        BY <2>2 DEF FiringStates
      <3> QED BY <1>8, <2>1, <2>3, <3>1 DEF FiringRecords
    <2>6. /\ r.deploys = NoVersion /\ r.running = NoRun /\ r.left = <<>>
          /\ AnswersHold(r, vs) /\ EventsMatch(r, vs, <<>>) /\ FailuresHold(r, vs, gone)
      BY <1>1, <1>2 DEF Resting
    <2>7. PlaceHolds(r2) /\ RunningHolds(r2, vs)
      BY <2>2, <2>5, <2>6 DEF PlaceHolds, RunningHolds
    <2>8. AnswersHold(r2, vs)
      BY <1>3, <2>5, <2>6 DEF AnswersHold
    <2>9. BodiesLeft(r2) = <<>>
      <3>1. BodiesIn(<<>>) = <<>> /\ <<>> \in Seq(Duties)
        BY NoBodies
      <3> QED BY <2>5, <2>6, <3>1, BodiesLeftAre
    <2>10. EventsMatch(r2, vs, <<>>)
      <3>1. \A n : BodiesRun(r2, n) = BodiesRun(r, n)
        BY <2>5 DEF BodiesRun
      <3> QED BY <2>5, <2>6, <3>1 DEF EventsMatch
    <2>11. DeploysMatch(r2, vs, <<>>)
      BY <2>5, <2>6 DEF DeploysMatch
    <2>12. FailuresHold(r2, vs, gone)
      <3>1. event.key # BadKey => gone > 0 \/ r.uuid = "unknown"
        <4>1. SUFFICES ASSUME event.key # BadKey, r.uuid # "unknown" PROVE gone > 0
          OBVIOUS
        <4>2. live.manifest = NoVersion /\ Len(vs) > 0
          BY <1>12, <2>6, <4>1 DEF FailuresHold
        <4>3. live.manifest = IF gone = Len(vs) THEN NoVersion ELSE Len(vs)
          BY <1>1, <1>2 DEF LiveHolds
        <4> QED BY <4>2, <4>3 DEF NoVersion
      <3>2. \A i \in 1..Len(failed) : (i \in 1..Len(r.failed) /\ failed[i] = r.failed[i]) \/ failed[i] = event
        <4>1. Len(failed) = Len(r.failed) + 1 /\ failed[Len(r.failed) + 1] = event
              /\ \A i \in 1..Len(r.failed) : failed[i] = r.failed[i]
          BY <1>3, <1>5, <2>1
        <4>2. \A i \in 1..(Len(r.failed) + 1) : i \in 1..Len(r.failed) \/ i = Len(r.failed) + 1
          BY <1>3
        <4> QED BY <4>1, <4>2
      <3>3. \A i \in 1..Len(r.failed) : r.failed[i].key # BadKey => gone > 0 \/ r.uuid = "unknown"
        BY <2>6 DEF FailuresHold
      <3>4. \A i \in 1..Len(failed) : failed[i].key # BadKey => gone > 0 \/ r.uuid = "unknown"
        BY <3>1, <3>2, <3>3
      <3> QED BY <2>5, <2>6, <3>4 DEF FailuresHold
    <2> QED BY <1>1, <1>2, <2>4, <2>5, <2>7, <2>8, <2>9, <2>10, <2>11, <2>12 DEF FiringHolds
  <1> QED BY <1>11, <1>12

(* An event that is fired. *)
LEMMA FireTriggerHolds ==
    ASSUME FiringInv, NEW c \in Firings, NEW key \in ProductEvents, FireTrigger(c, key)
    PROVE  FiringHolds(firings'[c], live.versions, live.forgotten)
PROOF
  <1>1. AnEvent("product", key) \in EventRecords
    BY DEF AnEvent, EventRecords, Uuids, EventKeys
  <1>2. Resting(Fresh, live.versions, live.forgotten)
    BY FreshHolds
  <1>3. FiringHolds(Fire(Fresh, AnEvent("product", key)), live.versions, live.forgotten)
    BY <1>1, <1>2, FireHolds DEF FiringInv, FireTrigger
  <1> QED BY <1>3 DEF FiringInv, FireTrigger, Proceeds

(* A publish() that begins. *)
LEMMA PublishHolds ==
    ASSUME FiringInv, NEW c \in Firings, NEW keys \in Publishes, Publish(c, keys)
    PROVE  FiringHolds(firings'[c], live.versions, live.forgotten)
PROOF
  <1>1. PICK vs \in Seq(Versions), gone \in Nat : vs = live.versions /\ gone = live.forgotten
    BY DEF FiringInv, LiveHolds, Simulators
  <1>2. LiveHolds(live) /\ keys \in Seq(EventKeys) /\ keys # <<>>
    BY DutiesAre DEF FiringInv
  <1>3. PICK fresh : fresh = Fresh
    OBVIOUS
  <1>4. Resting(fresh, vs, gone) /\ fresh \in FiringRecords /\ fresh.uuid = "unknown"
        /\ fresh.failed = <<>>
    <2>1. Resting(fresh, vs, gone)
      BY <1>3, FreshHolds
    <2> QED BY <1>3, <2>1 DEF Resting, Fresh
  <1>5. PICK uuid : uuid = IF live.manifest = NoVersion THEN fresh.uuid ELSE Manifest.uuid
    OBVIOUS
  <1>6. uuid \in Uuids /\ (uuid # "unknown" => Len(vs) > 0)
    <2>1. CASE live.manifest = NoVersion
      BY <1>4, <1>5, <2>1 DEF Uuids
    <2>2. CASE live.manifest # NoVersion
      <3>1. live.manifest \in 1..Len(vs)
        BY <1>1, <1>2, <2>2, LiveIsTyped DEF SimTyped, NoVersion
      <3>2. vs[live.manifest] \in Versions
        BY <3>1
      <3>3. vs[live.manifest].uuid \in Uuids
        BY <3>2, DutiesAre
      <3> QED BY <1>1, <1>5, <2>2, <3>1, <3>3 DEF Manifest
    <2> QED BY <2>1, <2>2
  <1>7. PICK r : r = [fresh EXCEPT !.todo = keys, !.uuid = uuid]
    OBVIOUS
  <1>8. /\ r \in FiringRecords /\ r.at = fresh.at /\ r.left = fresh.left
        /\ r.running = fresh.running /\ r.todo = keys /\ r.uuid = uuid
        /\ r.answers = fresh.answers /\ r.failed = fresh.failed /\ r.fired = fresh.fired
        /\ r.deploys = fresh.deploys
    <2> HIDE DEF Duties, EventKeys, Uuids, EventRecords, RunRecords, FiringAnswers, FiredRecords,
                 FiringStates, NoRun
    <2> QED BY <1>2, <1>4, <1>6, <1>7 DEF FiringRecords
  <1>9. Resting(r, vs, gone)
    <2>1. \A n : BodiesRun(r, n) = BodiesRun(fresh, n)
      BY <1>8 DEF BodiesRun
    <2>2. EventsMatch(r, vs, <<>>) /\ AnswersHold(r, vs)
      BY <1>4, <1>8, <2>1 DEF Resting, EventsMatch, AnswersHold
    <2>3. FailuresHold(r, vs, gone)
      BY <1>4, <1>6, <1>8 DEF FailuresHold
    <2> QED BY <1>4, <1>8, <2>2, <2>3 DEF Resting
  <1>10. FiringHolds(PublishNext(r), vs, gone)
    BY <1>1, <1>2, <1>8, <1>9, PublishingHolds
  <1>11. r = [Fresh EXCEPT !.todo = keys,
                           !.uuid = IF live.manifest = NoVersion THEN @ ELSE Manifest.uuid]
    BY <1>3, <1>4, <1>5, <1>7 DEF FiringRecords
  <1> QED BY <1>1, <1>10, <1>11 DEF FiringInv, Publish, Proceeds

(* One that goes on. *)
LEMMA GoOnHolds ==
    ASSUME FiringInv, NEW c \in Firings, GoOnPublishing(c)
    PROVE  FiringHolds(firings'[c], live.versions, live.forgotten)
PROOF
  <1>1. FiringHolds(firings[c], live.versions, live.forgotten) /\ firings[c].at = "between"
    BY DEF FiringInv, GoOnPublishing
  <1>2. Resting(firings[c], live.versions, live.forgotten) /\ firings[c].todo # <<>>
    BY <1>1, BetweenIsResting
  <1>3. FiringHolds(PublishNext(firings[c]), live.versions, live.forgotten)
    BY <1>2, PublishingHolds DEF FiringInv
  <1> QED BY <1>3 DEF FiringInv, GoOnPublishing, Proceeds

(* A handler that answers. *)
LEMMA AnswerHolds ==
    ASSUME FiringInv, NEW c \in Firings, NEW ok \in BOOLEAN, HandlerAnswers(c, ok)
    PROVE  FiringHolds(firings'[c], live.versions, live.forgotten)
PROOF
  <1>1. PICK r : r = firings[c]
    OBVIOUS
  <1>2. FiringHolds(r, live.versions, live.forgotten) /\ r.running # NoRun
    BY <1>1 DEF FiringInv, HandlerAnswers
  <1>3. PICK r2 : r2 = [r EXCEPT !.answers = Append(@, AnswerBy(r, r.running, ok))]
    OBVIOUS
  <1>4. ReadyToGo(r2, live.versions, live.forgotten)
    BY <1>2, <1>3, AnswerIsReady
  <1>5. FiringHolds(Advance(r2, live), live.versions, live.forgotten)
    BY <1>4, AdvanceHolds DEF FiringInv
  <1>6. AfterHandler(r, ok) = Advance(r2, live)
    BY <1>3 DEF AfterHandler
  <1> QED BY <1>1, <1>5, <1>6 DEF FiringInv, HandlerAnswers, Proceeds

(* A call of schedules that begins: of one, or of those of a deploy. *)
LEMMA SchedulesAreReady ==
    ASSUME NEW left \in Seq(Duties), NEW d \in Nat, NEW vs \in Seq(Versions), NEW gone,
           d # NoVersion => d \in 1..Len(vs) /\ left = LoadedSchedules(vs[d]), NEW r,
           r = [Fresh EXCEPT !.at = "schedules", !.deploys = d, !.left = left]
    PROVE  ReadyToGo(r, vs, gone)
PROOF
  <1>1. PICK fresh : fresh = Fresh
    OBVIOUS
  <1>2. /\ fresh \in FiringRecords /\ fresh.uuid = "unknown" /\ fresh.failed = <<>>
        /\ fresh.fired = <<>> /\ fresh.answers = <<>> /\ fresh.todo = <<>>
    <2>1. Resting(fresh, vs, gone)
      BY <1>1, FreshHolds
    <2> QED BY <1>1, <2>1 DEF Resting, Fresh
  <1>3. /\ r \in FiringRecords /\ r.at = "schedules" /\ r.left = left
        /\ r.todo = fresh.todo /\ r.uuid = fresh.uuid
        /\ r.answers = fresh.answers /\ r.failed = fresh.failed /\ r.fired = fresh.fired
        /\ r.deploys = d
    <2> HIDE DEF Duties, EventKeys, Uuids, EventRecords, RunRecords, FiringAnswers, FiredRecords,
                 FiringStates, NoRun
    <2>1. "schedules" \in FiringStates
      BY DEF FiringStates
    <2>2. PICK l1 : l1 = [fresh EXCEPT !.at = "schedules"]
      OBVIOUS
    <2>3. PICK l2 : l2 = [l1 EXCEPT !.deploys = d]
      OBVIOUS
    <2>4. /\ l1 \in FiringRecords /\ l1.at = "schedules"
          /\ l1.todo = fresh.todo /\ l1.uuid = fresh.uuid
          /\ l1.answers = fresh.answers /\ l1.failed = fresh.failed /\ l1.fired = fresh.fired
      BY <1>2, <2>1, <2>2 DEF FiringRecords
    <2>5. /\ l2 \in FiringRecords /\ l2.at = "schedules"
          /\ l2.todo = fresh.todo /\ l2.uuid = fresh.uuid /\ l2.deploys = d
          /\ l2.answers = fresh.answers /\ l2.failed = fresh.failed /\ l2.fired = fresh.fired
      BY <2>3, <2>4 DEF FiringRecords
    <2>6. r = [l2 EXCEPT !.left = left]
      BY <1>1, <2>2, <2>3
    <2> QED BY <2>5, <2>6 DEF FiringRecords
  <1>4. Len(<<>>) = 0 /\ 1..0 = {}
    OBVIOUS
  <1>5. PlaceHolds(r) /\ AnswersHold(r, vs) /\ FailuresHold(r, vs, gone)
    BY <1>2, <1>3, <1>4 DEF PlaceHolds, AnswersHold, FailuresHold
  <1>6. PICK l \in Seq(Bodies) : l = BodiesIn(left)
    BY BodiesAre
  <1>7. EventsMatch(r, vs, l)
    BY <1>2, <1>3, <1>4 DEF EventsMatch
  <1>8. DeploysMatch(r, vs, l)
    <2>1. BodiesRun(r, 0) \o l = l
      <3>1. <<>> \in Seq(FiringAnswers) /\ \A i \in 1..Len(<<>>) : <<>>[i].under # 0
        BY <1>4
      <3>2. Under(<<>>, 0) = <<>>
        BY <3>1, UnderNone
      <3>3. BodiesRun(r, 0) = <<>>
        BY <1>2, <1>3, <3>2, NoBodies DEF BodiesRun
      <3> QED BY <3>3
    <2>2. \A i \in 1..Len(left) : left[i] \in ToSet(left)
      BY DEF ToSet
    <2> QED BY <1>2, <1>3, <1>4, <1>6, <2>1, <2>2 DEF DeploysMatch
  <1> QED BY <1>3, <1>5, <1>6, <1>7, <1>8 DEF ReadyToGo

(* A schedule that is fired. *)
LEMMA FireScheduleHolds ==
    ASSUME FiringInv, NEW c \in Firings, FireSchedule(c)
    PROVE  FiringHolds(firings'[c], live.versions, live.forgotten)
PROOF
  <1>1. PICK vs \in Seq(Versions) : vs = live.versions
    BY DEF FiringInv, LiveHolds, Simulators
  <1>2. PICK i \in DOMAIN Manifest.schedules :
          firings' = [firings EXCEPT ![c] =
            Advance([Fresh EXCEPT !.at = "schedules", !.left = <<Manifest.schedules[i]>>], live)]
    BY DEF FireSchedule, Proceeds
  <1>3. PICK s : s = Manifest.schedules[i]
    OBVIOUS
  <1>4. s \in Duties
    <2>1. live.manifest \in 1..Len(vs)
      BY <1>1, LiveIsTyped DEF FiringInv, SimTyped, NoVersion, FireSchedule
    <2>2. vs[live.manifest] \in Versions
      BY <2>1
    <2>3. Manifest.schedules \in Seq(Duties)
      BY <1>1, <2>2, DutiesAre DEF Manifest
    <2> QED BY <1>2, <1>3, <2>3
  <1>5. PICK r : r = [Fresh EXCEPT !.at = "schedules", !.left = <<s>>]
    OBVIOUS
  <1>6. r = [Fresh EXCEPT !.at = "schedules", !.deploys = 0, !.left = <<s>>]
    <2> HIDE DEF Duties, EventKeys, Uuids, EventRecords, RunRecords, FiringAnswers, FiredRecords,
                 FiringStates, NoRun
    <2>1. PICK fresh : fresh = Fresh
      OBVIOUS
    <2>2. fresh \in FiringRecords /\ fresh.deploys = 0
      BY <2>1, FreshHolds DEF Resting, NoVersion
    <2>3. PICK l : l = [fresh EXCEPT !.at = "schedules"]
      OBVIOUS
    <2>4. [l EXCEPT !.deploys = 0] = l
      BY <2>2, <2>3 DEF FiringRecords
    <2> QED BY <1>5, <2>1, <2>3, <2>4
  <1>7. <<s>> \in Seq(Duties)
    BY <1>4
  <1>8. ReadyToGo(r, vs, live.forgotten)
    BY <1>6, <1>7, SchedulesAreReady DEF NoVersion
  <1>9. FiringHolds(Advance(r, live), vs, live.forgotten)
    BY <1>1, <1>8, AdvanceHolds DEF FiringInv
  <1> QED BY <1>1, <1>2, <1>3, <1>5, <1>9 DEF FiringInv

(* A deploy fires its schedules in the simulator that it has installed. *)
LEMMA DeployVersionHolds ==
    ASSUME FiringInv, NEW c \in Firings, NEW v \in Versions, DeployVersion(c, v)
    PROVE  /\ LiveHolds(live') /\ live'.forgotten = live.forgotten
           /\ live'.versions = Append(live.versions, v)
           /\ FiringHolds(firings'[c], live'.versions, live'.forgotten)
PROOF
  <1>1. PICK vs \in Seq(Versions) : vs = live.versions
    BY DEF FiringInv, LiveHolds, Simulators
  <1>2. PICK n \in Nat : n = Len(vs)
    OBVIOUS
  <1>3. PICK sim : sim = Installed(v)
    OBVIOUS
  <1>4. LiveHolds(sim) /\ sim.forgotten = live.forgotten /\ sim.versions = Append(vs, v)
    BY <1>1, <1>3, InstallationHolds DEF FiringInv
  <1>5. PICK us \in Seq(Versions) : us = Append(vs, v)
    <2>1. Append(vs, v) \in Seq(Versions)
      OBVIOUS
    <2> QED BY <2>1
  <1>6. Len(us) = n + 1 /\ us[n + 1] = v
    BY <1>2, <1>5
  <1>7. PICK left \in Seq(Duties) : left = LoadedSchedules(v)
    BY MatchedAre
  <1>8. PICK r : r = [Fresh EXCEPT !.at = "schedules", !.deploys = n + 1, !.left = left]
    OBVIOUS
  <1>9. ReadyToGo(r, us, live.forgotten)
    <2>1. n + 1 \in 1..Len(us) /\ left = LoadedSchedules(us[n + 1])
      BY <1>6, <1>7
    <2>2. PICK d \in Nat : d = n + 1
      OBVIOUS
    <2> QED BY <1>8, <2>1, <2>2, SchedulesAreReady
  <1>10. FiringHolds(Advance(r, sim), us, live.forgotten)
    BY <1>4, <1>5, <1>9, AdvanceHolds
  <1>11. live' = sim /\ firings' = [firings EXCEPT ![c] = Advance(r, sim)]
    BY <1>1, <1>2, <1>3, <1>7, <1>8 DEF DeployVersion, FiresIn, Proceeds
  <1> QED BY <1>1, <1>4, <1>5, <1>10, <1>11 DEF FiringInv

(* Every action keeps what holds of the calls and of the registered code. *)
LEMMA FiringStep ==
    FiringInv /\ [FiringNext]_tgVars => FiringInv'
PROOF
  <1> SUFFICES ASSUME FiringInv, [FiringNext]_tgVars PROVE FiringInv'
    OBVIOUS
  <1>1. PICK vs \in Seq(Versions), gone \in Nat : vs = live.versions /\ gone = live.forgotten
    BY DEF FiringInv, LiveHolds, Simulators
  <1>2. ASSUME NEW c \in Firings, UNCHANGED live, FiringHolds(firings'[c], vs, gone),
               \E r : firings' = [firings EXCEPT ![c] = r]
        PROVE  FiringInv'
    <2>1. PICK r : firings' = [firings EXCEPT ![c] = r]
      BY <1>2
    <2>2. DOMAIN firings' = Firings
      BY <2>1 DEF FiringInv
    <2>3. ASSUME NEW d \in Firings PROVE FiringHolds(firings'[d], vs, gone)
      <3>1. CASE d = c
        BY <1>2, <3>1
      <3>2. CASE d # c
        BY <1>1, <2>1, <3>2 DEF FiringInv
      <3> QED BY <3>1, <3>2
    <2> QED BY <1>1, <1>2, <2>2, <2>3 DEF FiringInv
  <1>3. ASSUME NEW c \in Firings, NEW ok \in BOOLEAN, HandlerAnswers(c, ok) PROVE FiringInv'
    <2>1. UNCHANGED live /\ \E r : firings' = [firings EXCEPT ![c] = r]
      BY <1>3 DEF HandlerAnswers, Proceeds
    <2> QED BY <1>1, <1>2, <1>3, <2>1, AnswerHolds
  <1>4. ASSUME NEW c \in Firings, NEW key \in ProductEvents, FireTrigger(c, key) PROVE FiringInv'
    <2>1. UNCHANGED live /\ \E r : firings' = [firings EXCEPT ![c] = r]
      BY <1>4 DEF FireTrigger, Proceeds
    <2> QED BY <1>1, <1>2, <1>4, <2>1, FireTriggerHolds
  <1>5. ASSUME NEW c \in Firings, NEW keys \in Publishes, Publish(c, keys) PROVE FiringInv'
    <2>1. UNCHANGED live /\ \E r : firings' = [firings EXCEPT ![c] = r]
      BY <1>5 DEF Publish, Proceeds
    <2> QED BY <1>1, <1>2, <1>5, <2>1, PublishHolds
  <1>6. ASSUME NEW c \in Firings, GoOnPublishing(c) PROVE FiringInv'
    <2>1. UNCHANGED live /\ \E r : firings' = [firings EXCEPT ![c] = r]
      BY <1>6 DEF GoOnPublishing, Proceeds
    <2> QED BY <1>1, <1>2, <1>6, <2>1, GoOnHolds
  <1>7. ASSUME NEW c \in Firings, FireSchedule(c) PROVE FiringInv'
    <2>1. UNCHANGED live /\ \E r : firings' = [firings EXCEPT ![c] = r]
      BY <1>7 DEF FireSchedule, Proceeds
    <2> QED BY <1>1, <1>2, <1>7, <2>1, FireScheduleHolds
  <1>8. ASSUME NEW c \in Firings, NEW v \in Versions, DeployVersion(c, v) PROVE FiringInv'
    <2>1. /\ LiveHolds(live') /\ live'.forgotten = gone /\ live'.versions = Append(vs, v)
          /\ FiringHolds(firings'[c], live'.versions, live'.forgotten)
      BY <1>1, <1>8, DeployVersionHolds
    <2>2. PICK r : firings' = [firings EXCEPT ![c] = r]
      BY <1>8 DEF DeployVersion, Proceeds
    <2>3. DOMAIN firings' = Firings
      BY <2>2 DEF FiringInv
    <2>4. PICK us \in Seq(Versions) : us = Append(vs, v)
      <3>1. Append(vs, v) \in Seq(Versions)
        OBVIOUS
      <3> QED BY <3>1
    <2>5. Len(vs) <= Len(us) /\ \A n \in 1..Len(vs) : us[n] = vs[n]
      BY <2>4
    <2>6. ASSUME NEW d \in Firings PROVE FiringHolds(firings'[d], us, gone)
      <3>1. CASE d = c
        BY <2>1, <2>4, <3>1
      <3>2. CASE d # c
        <4>1. FiringHolds(firings[d], vs, gone)
          BY <1>1 DEF FiringInv
        <4>2. firings'[d] = firings[d]
          BY <2>2, <3>2 DEF FiringInv
        <4>3. gone <= gone
          OBVIOUS
        <4> QED BY <2>5, <4>1, <4>2, <4>3, FiringStays
      <3> QED BY <3>1, <3>2
    <2> QED BY <2>1, <2>3, <2>4, <2>6 DEF FiringInv
  <1>9. CASE ForgetVersions
    <2>1. /\ LiveHolds(live') /\ live'.versions = vs
          /\ live'.forgotten \in Nat /\ gone <= live'.forgotten
      BY <1>1, <1>9, ForgettingHolds DEF FiringInv
    <2>2. UNCHANGED firings
      BY <1>9 DEF ForgetVersions
    <2>3. Len(vs) <= Len(vs) /\ \A n \in 1..Len(vs) : vs[n] = vs[n]
      OBVIOUS
    <2>4. ASSUME NEW d \in Firings PROVE FiringHolds(firings[d], vs, live'.forgotten)
      <3>1. FiringHolds(firings[d], vs, gone)
        BY <1>1 DEF FiringInv
      <3> QED BY <2>1, <2>3, <3>1, FiringStays
    <2> QED BY <2>1, <2>2, <2>4 DEF FiringInv
  <1>10. CASE UNCHANGED tgVars
    BY <1>10 DEF FiringInv, tgVars
  <1> QED BY <1>3, <1>4, <1>5, <1>6, <1>7, <1>8, <1>9, <1>10 DEF FiringNext

(* In the beginning no app is there, and no call. *)
LEMMA FiringStart ==
    FiringInit => FiringInv
PROOF
  <1> SUFFICES ASSUME FiringInit PROVE FiringInv
    OBVIOUS
  <1>1. /\ live.manifest = NoVersion /\ live.handlers = [b \in Bodies |-> NoVersion]
        /\ live.versions = <<>> /\ live.forgotten = 0 /\ live \in Simulators
    BY DEF FiringInit, Simulators, NoVersion
  <1>2. \A b \in Bodies : NewestOf(b, 0, 0, <<>>) = NoVersion
    BY NewestIsThere
  <1>3. LiveHolds(live)
    BY <1>1, <1>2 DEF LiveHolds
  <1> QED BY <1>3, FreshHolds DEF FiringInit, FiringInv

(* What the invariant says of the calls is what was promised. *)
LEMMA FiringInvSays ==
    FiringInv => TriggersAreAnswered
PROOF
  <1> SUFFICES ASSUME FiringInv PROVE TriggersAreAnswered
    OBVIOUS
  <1>1. PICK vs \in Seq(Versions) : vs = live.versions
    BY DEF FiringInv, LiveHolds, Simulators
  <1>2. ASSUME NEW c \in Firings, NEW r, r = firings[c]
        PROVE  /\ \A i \in DOMAIN r.answers :
                    r.fired # <<>> => r.answers[i].run.code = NewestWith(r.answers[i].run)
               /\ r.at = "done" =>
                    \A n \in DOMAIN r.fired :
                      BodiesIn(RunsOf(c, n)) =
                        BodiesIn(Matched(live.versions[r.fired[n].under], r.fired[n].event))
               /\ r.at = "done" /\ r.deploys # NoVersion =>
                    /\ BodiesIn(RunsOf(c, 0)) = BodiesIn(LoadedSchedules(live.versions[r.deploys]))
                    /\ \A i \in DOMAIN r.answers :
                         r.answers[i].run.seen <= r.deploys /\ r.answers[i].run.base < r.deploys
                           => r.answers[i].run.code = r.deploys
               /\ \A i \in DOMAIN r.failed :
                    r.failed[i].key # BadKey => live.forgotten > 0 \/ r.uuid = "unknown"
    <2>1. FiringHolds(r, vs, live.forgotten)
      BY <1>1, <1>2 DEF FiringInv
    <2>2. /\ r \in FiringRecords /\ RunningHolds(r, vs) /\ AnswersHold(r, vs)
          /\ EventsMatch(r, vs, BodiesLeft(r)) /\ DeploysMatch(r, vs, BodiesLeft(r))
          /\ FailuresHold(r, vs, live.forgotten)
      BY <2>1 DEF FiringHolds
    <2>3. /\ DOMAIN r.answers = 1..Len(r.answers) /\ DOMAIN r.fired = 1..Len(r.fired)
          /\ DOMAIN r.failed = 1..Len(r.failed) /\ r.left \in Seq(Duties)
      BY <2>2 DEF FiringRecords
    <2>4. \A n : BodiesIn(RunsOf(c, n)) = BodiesRun(r, n) /\ BodiesRun(r, n) \in Seq(Bodies)
      <3>1. ASSUME NEW n
            PROVE  BodiesIn(RunsOf(c, n)) = BodiesRun(r, n) /\ BodiesRun(r, n) \in Seq(Bodies)
        <4>1. PICK own \in Seq(FiringAnswers) : own = Under(r.answers, n)
          BY <2>2, BodiesRunAre
        <4>2. PICK runs : runs = [i \in DOMAIN own |-> own[i].run]
          OBVIOUS
        <4>3. RunsOf(c, n) = runs
          BY <1>2, <4>1, <4>2 DEF RunsOf
        <4>4. BodiesIn(runs) = RunBodies(own)
          BY <4>2 DEF BodiesIn, RunBodies
        <4> QED BY <2>2, <4>1, <4>3, <4>4, BodiesRunAre DEF BodiesRun
      <3> QED BY <3>1
    <2>5. r.at = "done" => BodiesLeft(r) = <<>>
      <3>1. SUFFICES ASSUME r.at = "done" PROVE BodiesLeft(r) = <<>>
        OBVIOUS
      <3>2. r.running = NoRun /\ r.left = <<>>
        BY <2>2, <3>1 DEF RunningHolds
      <3> QED BY <2>3, <3>2, NoBodies, BodiesLeftAre
    <2>6. \A n : BodiesRun(r, n) \o <<>> = BodiesRun(r, n)
      BY <2>4, BodiesInARow
    <2>7. \A run : NewestWith(run) = NewestOf(run.body, run.base, run.seen, vs)
      BY <1>1 DEF NewestWith, NewestOf
    <2>8. \A i \in DOMAIN r.answers :
            r.fired # <<>> => r.answers[i].run.code = NewestWith(r.answers[i].run)
      BY <2>2, <2>3, <2>7 DEF AnswersHold, IsOfNewest
    <2>9. ASSUME r.at = "done", NEW n \in DOMAIN r.fired
          PROVE  BodiesIn(RunsOf(c, n)) = BodiesIn(Matched(vs[r.fired[n].under], r.fired[n].event))
      <3>1. BodiesRun(r, n) \o (IF n = Len(r.fired) THEN <<>> ELSE <<>>) =
              BodiesIn(Matched(vs[r.fired[n].under], r.fired[n].event))
        BY <2>2, <2>3, <2>5, <2>9 DEF EventsMatch
      <3>2. BodiesRun(r, n) \o <<>> = BodiesIn(Matched(vs[r.fired[n].under], r.fired[n].event))
        BY <3>1
      <3> QED BY <2>4, <2>6, <3>2
    <2>10. ASSUME r.at = "done", r.deploys # NoVersion
           PROVE  /\ BodiesIn(RunsOf(c, 0)) = BodiesIn(LoadedSchedules(vs[r.deploys]))
                  /\ \A i \in DOMAIN r.answers :
                       r.answers[i].run.seen <= r.deploys /\ r.answers[i].run.base < r.deploys
                         => r.answers[i].run.code = r.deploys
      <3>1. /\ BodiesRun(r, 0) \o <<>> = BodiesIn(LoadedSchedules(vs[r.deploys]))
            /\ \A i \in 1..Len(r.answers) : IsOwn(r.answers[i].run, r.deploys)
        BY <2>2, <2>5, <2>10 DEF DeploysMatch
      <3> QED BY <2>3, <2>4, <2>6, <3>1 DEF IsOwn
    <2>11. \A i \in DOMAIN r.failed :
             r.failed[i].key # BadKey => live.forgotten > 0 \/ r.uuid = "unknown"
      BY <2>2, <2>3 DEF FailuresHold
    <2> QED BY <1>1, <2>8, <2>9, <2>10, <2>11
  <1> QED BY <1>2 DEF TriggersAreAnswered, IsDone

(* Every trigger that matches an event is answered once, in the order of the manifest, by the
   newest code when its turn comes; publish() reports as failed what it could not fire, and
   that only; a deploy fires its own schedules once, with its own code unless another deploy
   or a reset comes in between. *)
THEOREM TriggersStayAnswered == FiringSpec => []TriggersAreAnswered
PROOF
  <1>1. FiringInit => FiringInv
    BY FiringStart
  <1>2. FiringInv /\ [FiringNext]_tgVars => FiringInv'
    BY FiringStep
  <1>3. FiringInv => TriggersAreAnswered
    BY FiringInvSays
  <1> QED BY <1>1, <1>2, <1>3, PTL DEF FiringSpec

=============================================================================
