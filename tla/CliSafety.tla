------------------------------- MODULE CliSafety -------------------------------
(***************************************************************************)
(* What the client promises about its credentials.                         *)
(***************************************************************************)
EXTENDS CliCredentials

Known == 1 .. minted   \* the credentials handed out so far

States ==
  [access : Known \cup {None}, refresh : Known \cup {None},
   gen : Nat \cup {None}, ident : Accounts \cup {Retired, None}]

Steps == {"idle", "done", "check", "name", "lock", "recover", "claim", "sync", "send", "await",
          "apply", "request", "attach", "exchange", "awaitSignIn", "logout", "refused"}

Locals ==
  [pc : Steps, cmd : Commands, snap : States, cur : States, mode : {"expiry", "rejected"},
   token : Slts \cup {None}, got : Known \cup {None}, bearer : Known \cup {None},
   retried : BOOLEAN, asked : Nat, exchanged : BOOLEAN, next : Steps]

(* What the steps of a command have at hand. *)
Prepared(l) ==
  /\ l.pc \in {"claim", "send", "await"} \/ (l.pc = "sync" /\ l.next = "send") => l.cur.refresh # None
  /\ l.pc \in {"request", "recover", "attach"} \/ (l.pc = "sync" /\ l.next = "request")
     => l.bearer # None
  /\ l.pc = "apply" => l.got # None
  /\ l.next \in {"done", "send", "request", "check"}
  /\ l.pc # "sync" => l.next = "done"

Workers == {l \in Locals : Prepared(l)}

Posts ==
  [by : Procs, token : Slts \cup Known, stage : {"posted", "claimed", "answered"},
   got : Known \cup {None}]

TypeOK ==
  /\ legacy \in LegacyStates
  /\ file \in States \cup {None} /\ disk \in States \cup {None}
  /\ refreshLock \in Procs \cup {None}
  /\ proc \in [Procs -> Workers]
  /\ generations \in Nat
  /\ posts \subseteq Posts /\ claimed \subseteq Slts \cup Known /\ sent \subseteq Known
  /\ submissions \in [Tokens -> Nat]
  /\ minted \in Credentials
  /\ grant \in [Credentials -> Grants \cup {None}]
  /\ \A c \in Known : grant[c] \in Grants

(* A refresh token that state.json offers to the next command, now or after a *)
(* power loss, has never been sent: it is consumed durably before it is sent. *)
StoredRefreshUnsent ==
  \A s \in {file, disk} : s # None => s.refresh \notin sent

(* Accounts is given every one-time credential at most once, by however many  *)
(* commands, copies of the state and backend processes: a second time would   *)
(* revoke the sign-in (login.rs).                                             *)
SubmittedOnce == \A t \in Tokens : submissions[t] <= 1

(* A command never acts with the tokens of another sign-in than the one it    *)
(* started with: its intent is not transferred to whoever signed in meanwhile. *)
IntentKept ==
  \A p \in Procs :
    Running(p) /\ proc[p].bearer # None => grant[proc[p].bearer] = grant[proc[p].snap.access]

(* The stored identity is the account of the stored access token.             *)
IdentityBound ==
  file # None /\ file.access # None /\ file.ident \in Accounts => file.ident = Owner(file.access)

(* All tokens ever stored under one login generation are of one grant: an     *)
(* answer that arrives late never replaces the tokens of a newer sign-in.     *)
GenerationKeepsGrant ==
  [][\A s \in {file, disk} :
       /\ s # None /\ file' # None
       /\ s.gen # None /\ s.gen = file'.gen
       /\ s.access # None /\ file'.access # None
       => grant[s.access] = grant[file'.access]]_vars

(* Signing out is final: only a new sign-in puts credentials back, unless the *)
(* power was lost before the sign-out was durable.                            *)
SignOutFinal ==
  [][file # None /\ ~HasCredential(file) /\ HasCredential(file')
       => file' = disk \/ (generations' > generations /\ file'.gen = generations')]_vars

-----------------------------------------------------------------------------
(* What the proofs rest on. *)

(* A token is in the hands of at most one request, and of none that is still *)
(* to be submitted once it was.                                              *)
OnceInv ==
  /\ \A t \in Tokens \ claimed : submissions[t] = 0
  /\ \A m \in posts : m.stage = "claimed" => m.token \in claimed /\ submissions[m.token] = 0
  /\ \A m, n \in posts :
       m.stage = "claimed" /\ n.stage = "claimed" /\ m.token = n.token => m = n
  /\ SubmittedOnce

\* p has taken a refresh token out of the file and is to send it.
Claiming(p) == At(p, "sync") /\ proc[p].next = "send"

\* The credential an answer brings and the state does not have yet.
Arriving(c) == (\E m \in posts : m.got = c) \/ (\E p \in Procs : At(p, "apply") /\ proc[p].got = c)

(* Before the first command opens the partition nothing happens. *)
Unopened ==
  /\ file = None <=> disk = None
  /\ file = None => sent = {} /\ posts = {} /\ refreshLock = None /\ \A p \in Procs : At(p, "idle")

(* A token that is about to be sent is in no state any more. *)
TakenOut ==
  \A p \in Procs :
    /\ Claiming(p) => file.refresh # proc[p].cur.refresh
    /\ At(p, "send") => \A s \in {file, disk} : s.refresh # proc[p].cur.refresh

(* A new credential is nowhere but in one answer. *)
NewIsNew ==
  \A c \in Known : Arriving(c) =>
    /\ c \notin sent
    /\ \A s \in {file, disk} : s.refresh # c
    /\ \A p \in Procs : At(p, "send") \/ Claiming(p) => proc[p].cur.refresh # c

OneArrival ==
  /\ \A m, n \in posts : m.got # None /\ m.got = n.got => m = n
  /\ \A p, q \in Procs : At(p, "apply") /\ At(q, "apply") /\ proc[p].got = proc[q].got => p = q
  /\ \A m \in posts, p \in Procs : At(p, "apply") => m.got # proc[p].got

TokensInv == TakenOut /\ NewIsNew /\ OneArrival /\ StoredRefreshUnsent

(* A stored state is one sign-in, or none: its identity is that of its tokens. *)
OneSignIn(s) ==
  /\ s.refresh \in {None, s.access}
  /\ s.access = None <=> s.ident = None
  /\ s.ident \in Accounts => s.ident = Owner(s.access)

SameGrant(s, t) ==
  s.gen # None /\ s.gen = t.gen /\ s.access # None /\ t.access # None => grant[s.access] = grant[t.access]

(* The states that are stored or that some command still knows. *)
Remembered == ({file, disk} \ {None}) \cup {proc[p].snap : p \in Procs} \cup {proc[p].cur : p \in Procs}

\* p is refreshing what it read into cur.
Refreshing(l) == l.pc \in {"claim", "send", "await", "apply"} \/ (l.pc = "sync" /\ l.next = "send")

(* What a command knows of the grants of its tokens. *)
Faithful(l) ==
  /\ l.bearer # None => l.snap.access # None /\ grant[l.bearer] = grant[l.snap.access]
  /\ l.pc = "name" => l.bearer = None
  /\ Refreshing(l) /\ l.mode = "rejected" =>
       l.snap.access # None /\ grant[l.cur.access] = grant[l.snap.access]
  /\ Refreshing(l) => l.cur.access # None
  /\ l.pc = "apply" => grant[l.got] = grant[l.cur.access]
  /\ l.pc = "apply" /\ l.mode = "rejected" => l.cur.ident = Owner(l.got)

GrantOf(t) == IF t \in Slts THEN t ELSE grant[t]

GrantInv ==
  /\ \A s \in Remembered : OneSignIn(s) /\ (s.gen # None => s.gen <= generations)
  /\ \A s, t \in Remembered : SameGrant(s, t)
  /\ \A p \in Procs : Faithful(proc[p])
  /\ \A m \in posts : m.got # None => grant[m.got] = GrantOf(m.token)
  /\ grant[1] = Legacy

=============================================================================
