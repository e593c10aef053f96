------------------------------ MODULE SqlServer -----------------------------
(***************************************************************************)
(* The SQL server of a simulator (forge-sql.ts): started when it is first  *)
(* used, shared by the code of the app and the tools of the MCP server,    *)
(* emptied by reset(), ended by stop(), started again by the next use.     *)
(* Every call below awaits the server between its steps, so that all of    *)
(* them interleave.  The MySQL processes and the pool of connections are   *)
(* external: a query that is under way when its pool is ended may still be *)
(* answered, one that comes later is refused.                              *)
(*                                                                         *)
(* Bounds: a behaviour makes at most MaxSqlCalls of the calls SqlCalls,    *)
(* each once; MaxServers counts the MySQL processes started.               *)
(***************************************************************************)
EXTENDS Naturals, Sequences, FiniteSets, SequencesExt

CONSTANTS SqlCalls,
          ProgramOf,    \* call -> "migrate", "query", "schema", "reset" or "stop"
          Migrations,   \* what forge_sql_migrate is given: names, each of a table it makes
          Restored,     \* the tables of the dump that a server starts with
          MaxSqlCalls,
          MaxServers

MigrationLog == "__migrations"
AppTable == "t"         \* the table a query makes
Off == 0                \* no server

\* The migrations have names of their own, and the table of the query is made by it only.
ASSUME SqlAssumption ==
  /\ ProgramOf \in [SqlCalls -> {"migrate", "query", "schema", "reset", "stop"}]
  /\ \A c, d \in SqlCalls : ProgramOf[c] = "query" /\ ProgramOf[d] = "query" => c = d
  /\ Migrations \in Seq(STRING)
  /\ \A i, j \in DOMAIN Migrations : Migrations[i] = Migrations[j] => i = j
  /\ IsFiniteSet(Restored) /\ AppTable \notin Restored
  /\ {AppTable, MigrationLog} \cap ToSet(Migrations) = {}
  /\ MaxServers \in Nat

VARIABLES servers,      \* the MySQL processes that run
          ended,        \* those whose pool is ended
          launched,     \* how many were started
          db, pool,     \* the server this.db and this.pool are of, or Off
          starting,     \* _starting: "null", "pending", "connected" (the pool is there, its
                        \* first query is not answered) or "rejected"
          content,      \* server -> [tables, log (the rows of __migrations), and history:
                        \* ran (the statements of migrations), clean]
          sqlCalls,     \* call -> [at, on (the pool it took), todo, and history: alone
                        \* (nothing it would disturb was under way)]
          collided      \* history: a stop() and a start() were under way together

sqVars == <<servers, ended, launched, db, pool, starting, content, sqlCalls, collided>>

Free(c) ==
  /\ sqlCalls[c].at = "free"
  /\ Cardinality({d \in SqlCalls : sqlCalls[d].at # "free"}) < MaxSqlCalls

InProgress(c) == sqlCalls[c].at \notin {"free", "done", "failed"}
Program(c) == ProgramOf[c]

\* Calls that disturb each other if they overlap.
Meets(c, d) ==
  \/ {Program(c), Program(d)} \cap {"reset", "stop"} # {}
  \/ Program(c) = "migrate" /\ Program(d) = "migrate"

Others(c) == {d \in SqlCalls \ {c} : InProgress(d) /\ Meets(c, d)}

\* The calls once c has begun, at `at`, on the pool `on`, with the requests `todo`.
Beginning(c, at, on, todo) ==
  [d \in SqlCalls |->
     IF d = c THEN [at |-> at, on |-> on, todo |-> todo, alone |-> Others(c) = {}]
     ELSE [sqlCalls[d] EXCEPT !.alone = @ /\ d \notin Others(c)]]

-----------------------------------------------------------------------------
(* start(), ensureStarted() *)

Statement(do, name) == [do |-> do, name |-> name]

FirstRequests(c) ==
  CASE Program(c) = "migrate" -> <<Statement("make log", ""), Statement("list log", "")>>
    [] Program(c) = "query" -> <<Statement("make", AppTable)>>
    [] Program(c) = "schema" -> <<Statement("list", "")>>

BeginSql(c) ==
  /\ Free(c) /\ Program(c) \notin {"reset", "stop"}
  /\ sqlCalls' = Beginning(c, "ensure", Off, FirstRequests(c))
  /\ UNCHANGED <<servers, ended, launched, db, pool, starting, content, collided>>

Stopping == \E c \in SqlCalls : Program(c) = "stop" /\ InProgress(c)

\* Before every request.  A start that failed is never tried again.
Ensure(c) ==
  /\ sqlCalls[c].at = "ensure"
  /\ IF pool # Off
     THEN /\ sqlCalls' = [sqlCalls EXCEPT ![c].at = "sent", ![c].on = pool]
          /\ UNCHANGED <<starting, collided>>
     ELSE /\ sqlCalls' = [sqlCalls EXCEPT ![c].at =
                            IF starting = "rejected" THEN "failed" ELSE "await"]
          /\ starting' = IF starting = "null" THEN "pending" ELSE starting
          /\ collided' = (collided \/ Stopping)
  /\ UNCHANGED <<servers, ended, launched, db, pool, content>>

\* createDB() and createPool().
Create ==
  /\ starting = "pending" /\ launched < MaxServers
  /\ launched' = launched + 1
  /\ servers' = servers \cup {launched'}
  /\ db' = launched' /\ pool' = launched'
  /\ content' = [content EXCEPT ![launched'].tables = Restored]
  /\ starting' = "connected"
  /\ UNCHANGED <<ended, sqlCalls, collided>>

Waiters(next) ==
  [c \in SqlCalls |-> IF sqlCalls[c].at = "await" THEN next[c] ELSE sqlCalls[c]]

StartFails ==
  /\ starting = "pending" \/ (starting = "connected" /\ pool \in ended \cup {Off})
  /\ starting' = "rejected"
  /\ sqlCalls' = Waiters([c \in SqlCalls |-> [sqlCalls[c] EXCEPT !.at = "failed"]])
  /\ UNCHANGED <<servers, ended, launched, db, pool, content, collided>>

\* Those who waited take the pool there is when they go on.
Started ==
  /\ starting = "connected"
  /\ starting' = "null"
  /\ sqlCalls' = Waiters([c \in SqlCalls |-> [sqlCalls[c] EXCEPT !.at = "sent", !.on = pool]])
  /\ UNCHANGED <<servers, ended, launched, db, pool, content, collided>>

-----------------------------------------------------------------------------
(* Requests *)

\* Whether the server may answer, and whether it may not.
MayAnswer(c) == sqlCalls[c].on \in servers
MayRefuse(c) == sqlCalls[c].on \notin servers \ ended

\* What the server does for a request, if it can: there is no table it needs, or there is one
\* of that name already.
Possible(request, data) ==
  CASE request.do \in {"list log", "record"} -> MigrationLog \in data.tables
    [] request.do \in {"make", "run"} -> request.name \notin data.tables
    [] request.do = "describe" -> request.name \in data.tables
    [] OTHER -> TRUE

\* A table is made once, by one migration at most.
Without(names, name) ==
  IF name \in ToSet(names) THEN RemoveAt(names, CHOOSE i \in DOMAIN names : names[i] = name)
  ELSE names

Done(request, data) ==
  CASE request.do = "make log" -> [data EXCEPT !.tables = @ \cup {MigrationLog}]
    [] request.do = "make" -> [data EXCEPT !.tables = @ \cup {request.name}]
    [] request.do = "run" -> [data EXCEPT !.tables = @ \cup {request.name},
                                          !.ran = Append(@, request.name)]
    [] request.do = "record" -> [data EXCEPT !.log = Append(@, request.name)]
    [] request.do = "drop" ->
         [data EXCEPT !.tables = @ \ {request.name},
                      !.log = IF request.name = MigrationLog THEN <<>> ELSE @,
                      !.ran = Without(@, request.name)]
    [] OTHER -> data

\* forge_sql_migrate: the statements that are not in the log, each recorded when it has run.
ToMigrate(data) ==
  LET todo[i \in 0..Len(Migrations)] ==
        IF i = 0 THEN <<>>
        ELSE IF Migrations[i] \in ToSet(data.log) THEN todo[i - 1]
        ELSE todo[i - 1] \o <<Statement("run", Migrations[i]), Statement("record", Migrations[i])>>
  IN todo[Len(Migrations)]

\* Of each table in the order the server lists them.
OfEach(do, tables) == [i \in 1..Cardinality(tables) |-> Statement(do, SetToSeq(tables)[i])]

Rest(c, data) ==
  LET it == sqlCalls[c]
      rest == Tail(it.todo)
  IN CASE Head(it.todo).do = "list log" -> rest \o ToMigrate(data)
       [] Head(it.todo).do = "list" ->
            rest \o OfEach(IF Program(c) = "reset" THEN "drop" ELSE "describe", data.tables)
       [] OTHER -> rest

\* Mutant: the next statement is tried.
GoesOn(c) ==
  LET it == sqlCalls[c] IN
  IF Head(it.todo).do = "run" THEN [at |-> "ensure", todo |-> SubSeq(it.todo, 3, Len(it.todo))]
  ELSE [at |-> "failed", todo |-> <<>>]

\* A statement that fails is reported, and the rest left out; making the log and recording
\* a statement are not looked at; anything else throws.
AfterRefusal(c) ==
  LET it == sqlCalls[c] IN
  CASE Head(it.todo).do \in {"make log", "record"} -> [at |-> "ensure", todo |-> Tail(it.todo)]
    [] Head(it.todo).do = "run" -> [at |-> "done", todo |-> <<>>]
    [] OTHER -> [at |-> "failed", todo |-> <<>>]

Continues(c, next) ==
  sqlCalls' = [sqlCalls EXCEPT ![c].todo = next.todo,
                 ![c].at = IF next.todo = <<>> /\ next.at # "failed" THEN "done" ELSE next.at]

\* reset() goes on with the connection it has, the others ask for the pool each time.
Answered(c) ==
  LET data == content[sqlCalls[c].on]
      rest == Rest(c, data)
      emptied == Program(c) = "reset" /\ rest = <<>> /\ sqlCalls[c].alone
      disturbs == ~sqlCalls[c].alone /\ Program(c) \in {"migrate", "reset"}
      clean == emptied \/ (data.clean /\ ~disturbs)
  IN
  /\ sqlCalls[c].at = "sent"
  /\ MayAnswer(c) /\ Possible(Head(sqlCalls[c].todo), data)
  /\ content' = [content EXCEPT ![sqlCalls[c].on] =
                   [Done(Head(sqlCalls[c].todo), data) EXCEPT !.clean = clean]]
  /\ Continues(c, [at |-> IF Program(c) = "reset" THEN "sent" ELSE "ensure", todo |-> rest])
  /\ UNCHANGED <<servers, ended, launched, db, pool, starting, collided>>

\* Nobody answers, or the server refuses; a migration's statement may be wrong.
Refused(c) ==
  /\ sqlCalls[c].at = "sent"
  /\ (MayAnswer(c) /\ Possible(Head(sqlCalls[c].todo), content[sqlCalls[c].on]))
       => (MayRefuse(c) \/ Head(sqlCalls[c].todo).do = "run")
  /\ Continues(c, AfterRefusal(c))
  /\ UNCHANGED <<servers, ended, launched, db, pool, starting, content, collided>>

-----------------------------------------------------------------------------
(* reset() and stop() *)

BeginSqlReset(c) ==
  /\ Free(c) /\ Program(c) = "reset"
  /\ sqlCalls' = Beginning(c, IF pool = Off THEN "done" ELSE "sent", pool,
                           <<Statement("list", "")>>)
  /\ UNCHANGED <<servers, ended, launched, db, pool, starting, content, collided>>

\* Mutant: the pool is ended and its server is left.
LeavesServer == {}

StopsServer == {db}

\* pool.end(), then db.stop(): each is forgotten when its promise has resolved.
BeginSqlStop(c) ==
  /\ Free(c) /\ Program(c) = "stop"
  /\ sqlCalls' = Beginning(c, IF pool # Off THEN "ending" ELSE "ended", Off, <<>>)
  /\ ended' = ended \cup ({pool} \ {Off})
  /\ collided' = (collided \/ starting \in {"pending", "connected"})
  /\ UNCHANGED <<servers, launched, db, pool, starting, content>>

PoolEnds(c) ==
  /\ sqlCalls[c].at = "ending"
  /\ pool' = Off
  /\ sqlCalls' = [sqlCalls EXCEPT ![c].at = "ended"]
  /\ UNCHANGED <<servers, ended, launched, db, starting, content, collided>>

ServerStops(c) ==
  /\ sqlCalls[c].at = "ended"
  /\ IF db = Off THEN /\ sqlCalls' = [sqlCalls EXCEPT ![c].at = "done"]
                      /\ UNCHANGED servers
     ELSE /\ sqlCalls' = [sqlCalls EXCEPT ![c].at = "stopped"]
          /\ servers' = servers \ StopsServer
  /\ UNCHANGED <<ended, launched, db, pool, starting, content, collided>>

StopReturns(c) ==
  /\ sqlCalls[c].at = "stopped"
  /\ db' = Off
  /\ sqlCalls' = [sqlCalls EXCEPT ![c].at = "done"]
  /\ UNCHANGED <<servers, ended, launched, pool, starting, content, collided>>

SqlInit ==
  /\ servers = {} /\ ended = {} /\ launched = 0
  /\ db = Off /\ pool = Off /\ starting = "null"
  /\ content = [s \in Off..MaxServers |->
                 [tables |-> {}, log |-> <<>>, ran |-> <<>>, clean |-> TRUE]]
  /\ sqlCalls = [c \in SqlCalls |-> [at |-> "free", on |-> Off, todo |-> <<>>, alone |-> TRUE]]
  /\ collided = FALSE

SqlNext ==
  \/ \E c \in SqlCalls :
       \/ BeginSql(c) \/ Ensure(c) \/ Answered(c) \/ Refused(c)
       \/ BeginSqlReset(c) \/ BeginSqlStop(c) \/ PoolEnds(c) \/ ServerStops(c) \/ StopReturns(c)
  \/ Create \/ StartFails \/ Started

SqlSpec == SqlInit /\ [][SqlNext]_sqVars

-----------------------------------------------------------------------------
(* "Idempotent", in order, and recorded iff run (mcp-server.ts): on a server
   whose migrations and resets never overlapped another, or a stop(), nor a
   stop() a start, the statements that ran are the first of the list, each
   once, and all are in the log, but for the one that is being recorded. *)
MigrationsAreRecorded ==
  ~collided =>
    \A s \in servers :
      LET data == content[s]
          undisturbed ==
            \A c \in SqlCalls : InProgress(c) => Program(c) \notin {"reset", "stop"}
      IN (data.clean /\ undisturbed) =>
           /\ \/ data.ran = data.log
              \/ \E c \in SqlCalls : /\ sqlCalls[c].at \in {"ensure", "sent"}
                                     /\ data.ran = Append(data.log, Head(sqlCalls[c].todo).name)
           /\ IsPrefix(data.ran, Migrations)

(* However many calls find no server, one is started; a stop() that met no
   start leaves none; and a call that met neither a reset nor a stop fails
   only if the server could not be started. *)
OneServer ==
  ~collided =>
    /\ Cardinality(servers) <= 1
    /\ (~Stopping /\ db = Off) => servers = {}
    /\ (\E c \in SqlCalls : sqlCalls[c].at = "failed" /\ sqlCalls[c].alone)
         => starting = "rejected"

DatabaseHolds == MigrationsAreRecorded /\ OneServer
=============================================================================
