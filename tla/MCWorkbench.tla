---------------------------- MODULE MCWorkbench -----------------------------
(***************************************************************************)
(* An instance of Workbench for TLC.                                       *)
(*                                                                         *)
(* Flows: two for one provider, one of them of the tools UI, and one for a *)
(* provider whose URL cannot be built; two returns of the browser.         *)
(* Daemon: two commands, each a request or a stop, two daemons, and a pid  *)
(* that another process may have later.                                    *)
(* Credentials: two runs of commands, on a file with an account of the old *)
(* kind that has a token.                                                  *)
(* MCP server: three tool calls and two rebuilds.                          *)
(* Redeploy: two functions in one file and one in another, two saves,      *)
(* one viewer that loses its connection once.                              *)
(* Pages: two saves of a configuration, one lost connection.               *)
(***************************************************************************)
EXTENDS Workbench

CONSTANTS f1, f2, f3, k1, k2, r1, d1, d2, c1, c2, p1, p2, t1, t2, t3

MCProviderOf == [f \in {f1, f2, f3} |-> IF f = f3 THEN "other" ELSE "google"]

Command(do, account, local, cli) ==
  [do |-> do, account |-> account, local |-> local, cli |-> cli]
MCCommands ==
  {Command("add", "b", local, TRUE) : local \in BOOLEAN}
  \cup {Command("select", "a", local, TRUE) : local \in BOOLEAN}
  \cup {Command("connect", "a", TRUE, cli) : cli \in BOOLEAN}
  \cup {Command("remove", "a", TRUE, TRUE), Command("disconnect", "a", TRUE, FALSE),
        Command("clear", "a", TRUE, TRUE)}
MCInitialStore ==
  Store(<<Account("old", TRUE, TRUE), Account("a", FALSE, FALSE)>>, {"old"})

CONSTANTS v1, s1, s2

MCFunctions == <<"resolver", "consumer", "job">>
MCFileOf == [fn \in {"resolver", "consumer", "job"} |->
               IF fn = "job" THEN "jobs" ELSE "index"]
=============================================================================
