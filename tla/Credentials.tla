---------------------------- MODULE Credentials ----------------------------
(***************************************************************************)
(* The credentials file (src/auth/credentials.ts) and what changes it: the *)
(* `forge-sim auth` commands (src/auth/auth-command.ts), the provider flow *)
(* of the CLI (src/auth/external-auth-command.ts) and Connect and          *)
(* Disconnect of the tools UI (src/tools/api.ts).  Each of them loads the  *)
(* whole store, changes its copy and writes it back, across awaits and     *)
(* even prompts, and nothing keeps two of them apart.                      *)
(*                                                                         *)
(* There is a global file and one of the app; a process is one run of a    *)
(* command and may be killed while it writes.                              *)
(*                                                                         *)
(* Bounds: Processes are all the commands that run, one provider.          *)
(***************************************************************************)
EXTENDS SequencesExt, Naturals

CONSTANTS Processes,
          Commands,     \* [do, account, local, cli]: what may be run, on which
                        \* account, whether it has the app's directory, and whether
                        \* it is a command of the CLI or a call of the tools UI
          InitialStore  \* what the global file holds to begin with

VARIABLES file,         \* "global", "local" -> a store, or Missing or Torn
          proc,         \* process -> its stage, its copy of the store, where it saves
          kept,         \* history: place -> accounts that should be there, or NoFile
          spoiled       \* history: two commands overlapped or one was killed

crVars == <<file, proc, kept, spoiled>>

Missing == [tag |-> "missing"]
Torn == [tag |-> "torn"]
NoFile == {"noFile"}

\* A store: accounts in order with their default mark, and the accounts that have a
\* token of the provider.
Store(accounts, tokens) == [tag |-> "store", accounts |-> accounts, tokens |-> tokens]
EmptyStore == Store(<<>>, {})
Account(id, default, oauth) == [id |-> id, default |-> default, oauth |-> oauth]

Ids(s) == {s.accounts[i].id : i \in DOMAIN s.accounts}
IsEmpty(s) == s.accounts = <<>>

\* Mutant: the app's file is written only, never read.
LoadGlobal(local) == IF file["global"].tag = "store" THEN file["global"] ELSE EmptyStore

\* loadCredentials(): what cannot be read is empty, and the app's file hides the other.
Load(local) ==
  LET f == IF local /\ file["local"] # Missing THEN file["local"] ELSE file["global"]
  IN IF f.tag = "store" THEN f ELSE EmptyStore

PlaceOf(command) == IF command.local THEN "local" ELSE "global"

AccountIds == Ids(InitialStore) \cup {c.account : c \in Commands}
Accounts == [id : AccountIds, default : BOOLEAN, oauth : BOOLEAN]
Tasks == {"add", "select", "remove", "connect", "disconnect", "clear"}

\* A store that fits together.
IsSound(s) ==
  /\ s.accounts \in Seq(Accounts)
  /\ \A i, j \in DOMAIN s.accounts :
       \/ s.accounts[i].id = s.accounts[j].id
       \/ s.accounts[i].default /\ s.accounts[j].default
       => i = j
  /\ s.tokens \subseteq Ids(s)

\* What the file holds is what earlier commands made of it.  Only the provider flow and
\* the tools UI, which connect and disconnect, are not always commands of the CLI.
ASSUME CredentialsAssumption ==
  /\ Commands \subseteq [do : Tasks, account : AccountIds, local : BOOLEAN, cli : BOOLEAN]
  /\ \A c \in Commands : c.do \notin {"connect", "disconnect"} => c.cli
  /\ InitialStore = Store(InitialStore.accounts, InitialStore.tokens) /\ IsSound(InitialStore)
  /\ "noFile" \notin AccountIds

-----------------------------------------------------------------------------
(* What a command does with its copy *)

\* filter(): the elements of a sequence that are in a set.
Among(s, S) ==
  LET found[i \in 0..Len(s)] ==
        IF i = 0 THEN <<>>
        ELSE IF s[i] \in S THEN Append(found[i - 1], s[i]) ELSE found[i - 1]
  IN  found[Len(s)]

\* Mutant: the new default does not replace the old one.
BothDefault(accounts, id) ==
  [i \in DOMAIN accounts |-> [accounts[i] EXCEPT !.default = @ \/ accounts[i].id = id]]

OnlyDefault(accounts, id) ==
  [i \in DOMAIN accounts |-> [accounts[i] EXCEPT !.default = accounts[i].id = id]]

\* upsertAccount(): the new account is the default one.
UpsertAccount(s, id) ==
  LET known == SelectInSeq(s.accounts, LAMBDA a : a.id = id)
      new == Account(id, TRUE, FALSE)
      accounts == IF known > 0 THEN ReplaceAt(s.accounts, known, new)
                  ELSE Append(s.accounts, new)
  IN [s EXCEPT !.accounts = OnlyDefault(accounts, id)]

WithoutAccount(s, id) ==
  LET others == {a \in ToSet(s.accounts) : a.id # id}
  IN  Store(Among(s.accounts, others), s.tokens \ {id})

\* removeAccount(): the first account left takes over as the default.
RemoveAccount(s, id) ==
  LET left == WithoutAccount(s, id)
  IN IF IsEmpty(left) \/ \E i \in DOMAIN left.accounts : left.accounts[i].default
     THEN left ELSE [left EXCEPT !.accounts[1].default = TRUE]

\* dropOAuthAccounts(): the default may go, and nobody takes over.
DropOAuthAccounts(s) ==
  LET dropped == {a \in ToSet(s.accounts) : a.oauth}
  IN Store(Among(s.accounts, ToSet(s.accounts) \ dropped), s.tokens \ {a.id : a \in dropped})

\* getDefaultAccount()
DefaultAccount(s) ==
  LET i == SelectInSeq(s.accounts, LAMBDA a : a.default)
  IN s.accounts[IF i > 0 THEN i ELSE 1].id

\* setThirdPartyToken() and its reverse, for the default account.
Connected(s) == [s EXCEPT !.tokens = @ \cup {DefaultAccount(s)}]
Disconnected(s) == [s EXCEPT !.tokens = @ \ {DefaultAccount(s)}]

Changed(s, command) ==
  CASE command.do = "add"        -> UpsertAccount(s, command.account)
    [] command.do = "select"     -> [s EXCEPT !.accounts = OnlyDefault(@, command.account)]
    [] command.do = "remove"     -> RemoveAccount(s, command.account)
    [] command.do = "connect"    -> Connected(s)
    [] command.do = "disconnect" -> Disconnected(s)
    [] command.do = "clear"      -> EmptyStore

\* A command that finds nothing to do ends without saving.
Applies(s, command) ==
  CASE command.do \in {"select", "remove"} -> command.account \in Ids(s)
    [] command.do = "connect" -> ~IsEmpty(s)
    [] command.do = "disconnect" -> ~IsEmpty(s) /\ s.tokens # {}
    [] OTHER -> TRUE

-----------------------------------------------------------------------------
(* A process *)

Running == {p \in Processes : proc[p].at \notin {"new", "done"}}
Writing(p) == proc[p].at \in {"migrating", "saving"}

\* The commands of the CLI migrate first: accounts of the old kind are dropped.
Begin(p) ==
  /\ proc[p].at = "new"
  /\ spoiled' = (spoiled \/ Running # {})
  /\ \E command \in Commands :
       LET s == Load(command.local)
           migrates == command.cli /\ DropOAuthAccounts(s) # s
       IN proc' = [proc EXCEPT ![p] =
                     [at |-> IF migrates THEN "migrate" ELSE "load", command |-> command,
                      copy |-> DropOAuthAccounts(s), place |-> PlaceOf(command)]]
  /\ UNCHANGED <<file, kept>>

\* writeFile() has opened the file and emptied it.
OpenFile(p) ==
  /\ proc[p].at \in {"migrate", "save"}
  /\ proc' = [proc EXCEPT ![p].at = IF @ = "migrate" THEN "migrating" ELSE "saving"]
  /\ file' = [file EXCEPT ![proc[p].place] = Torn]
  /\ UNCHANGED <<kept, spoiled>>

\* The accounts a place should have once a process has written it.
Intended(p) ==
  LET place == proc[p].place
      before == IF kept[place] = NoFile THEN kept["global"] ELSE kept[place]
      old == {InitialStore.accounts[i].id : i \in {j \in DOMAIN InitialStore.accounts :
                                                     InitialStore.accounts[j].oauth}}
  IN IF proc[p].at = "migrating" THEN before \ old
     ELSE CASE proc[p].command.do = "add" -> before \cup {proc[p].command.account}
            [] proc[p].command.do = "remove" -> before \ {proc[p].command.account}
            [] proc[p].command.do = "clear" -> {}
            [] OTHER -> before

\* clearCredentials() goes on to the app's file, if there is one.
WriteFile(p) ==
  /\ Writing(p)
  /\ file' = [file EXCEPT ![proc[p].place] = proc[p].copy]
  /\ kept' = [kept EXCEPT ![proc[p].place] = Intended(p)]
  /\ LET alsoLocal == /\ proc[p].command.do = "clear" /\ proc[p].command.local
                      /\ proc[p].place = "global" /\ file["local"] # Missing
     IN proc' = [proc EXCEPT ![p].at = CASE @ = "migrating" -> "load"
                                         [] alsoLocal -> "save"
                                         [] OTHER -> "done",
                             ![p].place = IF alsoLocal THEN "local" ELSE @]
  /\ UNCHANGED spoiled

\* The command loads the store, once more, and changes its copy.
LoadStore(p) ==
  /\ proc[p].at = "load"
  /\ LET command == proc[p].command
         s == Load(command.local)
     IN proc' =
          IF Applies(s, command)
          THEN [proc EXCEPT ![p].at = IF command.do = "select" THEN "prompt" ELSE "save",
                            ![p].copy = Changed(s, command),
                            ![p].place = IF command.do = "clear" THEN "global" ELSE @]
          ELSE [proc EXCEPT ![p].at = "done"]
  /\ UNCHANGED <<file, kept, spoiled>>

\* The answer to the prompt.
Chosen(p) ==
  /\ proc[p].at = "prompt"
  /\ proc' = [proc EXCEPT ![p].at = "save"]
  /\ UNCHANGED <<file, kept, spoiled>>

ProcessKilled(p) ==
  /\ p \in Running
  /\ proc' = [proc EXCEPT ![p].at = "done"]
  /\ spoiled' = (spoiled \/ Writing(p) \/ proc[p].command.do = "clear")
  /\ UNCHANGED <<file, kept>>

CredentialsInit ==
  /\ file = [place \in {"global", "local"} |->
               IF place = "global" THEN InitialStore ELSE Missing]
  /\ proc = [p \in Processes |-> [at |-> "new", copy |-> EmptyStore, place |-> "global",
                              command |-> [do |-> "none"]]]
  /\ kept = [place \in {"global", "local"} |->
               IF place = "global" THEN Ids(InitialStore) ELSE NoFile]
  /\ spoiled = FALSE

CredentialsNext ==
  \E p \in Processes : \/ Begin(p) \/ OpenFile(p) \/ WriteFile(p)
                       \/ LoadStore(p) \/ Chosen(p) \/ ProcessKilled(p)

-----------------------------------------------------------------------------
(* Properties *)

\* Unless two commands overlapped or one was killed while it wrote, a file holds the
\* accounts that were added there and not removed, those the app's file took over from
\* the global one included.
AccountsAreKept ==
  ~spoiled =>
    \A place \in {"global", "local"} :
      \/ \E p \in Processes : Writing(p) /\ proc[p].place = place
      \/ kept[place] = NoFile /\ file[place] = Missing
      \/ file[place].tag = "store" /\ Ids(file[place]) = kept[place]

\* However commands overlap, and whenever they are killed, what a file holds is a store
\* that fits together: one default account at most, and no token of an account that is
\* not there.
StoresAreSound ==
  \A place \in {"global", "local"} :
    file[place].tag = "store" =>
      /\ \A i, j \in DOMAIN file[place].accounts :
           file[place].accounts[i].default /\ file[place].accounts[j].default => i = j
      /\ file[place].tokens \subseteq Ids(file[place])

\* Both: what the files hold survives the commands that change it.
CredentialsSurvive == AccountsAreKept /\ StoresAreSound
=============================================================================
