---------------------------- MODULE CliCredentials ----------------------------
(***************************************************************************)
(* The credentials of the command line client.  Every command is one       *)
(* process (crates/cli) that reads and rewrites state.json of one backend  *)
(* partition under file locks, and that talks to the backend, which hands  *)
(* one-time credentials to Accounts.  A credential c of Accounts is an     *)
(* access token together with its refresh token; a refresh of c starts a   *)
(* new credential of the same grant, a short-lived token starts a grant.   *)
(*                                                                         *)
(* `file' is what a process reads of state.json, `disk' is what survives a *)
(* power loss: the rename is visible at once and durable only after the    *)
(* directory is synced.  Commands that run with an access token in         *)
(* SB_AUTHTOKEN neither refresh nor recover nor store and are left out.    *)
(* Whether an access token is about to expire, and whether Accounts still  *)
(* honours it, is chosen anew each time the code looks.                    *)
(***************************************************************************)
EXTENDS Naturals, FiniteSets

CONSTANTS
  Procs,          \* commands run against one partition, each one process
  Slts,           \* short-lived tokens a user may hand to a command
  Accounts,       \* account ids
  AccountOf,      \* the account of a grant: [Slts \cup {Legacy} -> Accounts]
  Legacy,         \* the grant of a sign-in made before the partition existed
  Retired,        \* an identity stored by an earlier release, no account id
  Foreign,        \* a token of the previous identity service
  None,
  MaxCredentials  \* bound: credentials Accounts hands out

Credentials == 1 .. MaxCredentials
Grants == Slts \cup {Legacy}
Tokens == Slts \cup Credentials

ASSUME CliAssumption ==
  /\ AccountOf \in [Grants -> Accounts]
  /\ MaxCredentials \in Nat \ {0}
  /\ Legacy \notin Slts
  /\ Slts \cap Credentials = {}
  /\ None \notin Tokens \cup Grants \cup Accounts \cup Procs
  /\ Retired \notin Accounts \cup {None}
  /\ Foreign \notin Tokens \cup {None}
  /\ None \notin [access : Credentials \cup {None}, refresh : Credentials \cup {None},
                  gen : Nat \cup {None}, ident : Accounts \cup {Retired, None}]

VARIABLES
  legacy,      \* the state file of the release without partitions
  file, disk,  \* state.json of the partition: visible, durable; None: absent
  refreshLock, \* the process that holds refresh.lock
  proc,        \* the command each process runs and what it has read
  generations, \* login generations handed out (credential_generation)
  posts,       \* one-time credentials on their way through the backend
  claimed,     \* rows of accounts_token_operations
  submissions, \* how often Accounts has been given each token
  minted,      \* credentials handed out so far: 1 .. minted
  grant,       \* the grant of each credential
  sent         \* refresh tokens a command has sent to the backend

cliVars == <<file, disk, legacy, refreshLock, proc, generations>>
backendVars == <<posts, claimed, submissions, minted, grant, sent>>
vars == <<cliVars, backendVars>>

Owner(c) == AccountOf[grant[c]]

-----------------------------------------------------------------------------
(* The stored state (state.rs). *)

HasCredential(s) == s.access # None \/ s.refresh # None
SignedOut == [access |-> None, refresh |-> None, gen |-> None, ident |-> None]

(* State::load drops credentials of the previous identity service. *)
Loaded(s) == IF Foreign \in {s.access, s.refresh} THEN SignedOut ELSE s

(* What the first command after the upgrade may find.  Sign-in always stored *)
(* the identity with the tokens; generations are newer than partitions.      *)
LegacyStates ==
  [access : {1}, refresh : {1}, gen : {None}, ident : {AccountOf[Legacy], Retired}]
  \cup [access : {Foreign}, refresh : {Foreign}, gen : {None}, ident : {Retired}]

(* needs_refresh; `expiring': the access token has a minute left, or less. *)
NeedsRefresh(s, expiring) ==
  /\ HasCredential(s)
  /\ s.access = None \/ s.ident \notin Accounts \/ expiring

SameBinding(s, t) == s.gen = t.gen /\ s.ident = t.ident

-----------------------------------------------------------------------------
(* Processes. *)

Commands == {"call", "status", "login", "logout", "setup"}

Fresh(c) ==
  [pc |-> "idle", cmd |-> c, snap |-> SignedOut, cur |-> SignedOut, mode |-> "expiry",
   token |-> None, got |-> None, bearer |-> None, retried |-> FALSE,
   asked |-> 0, exchanged |-> FALSE, next |-> "done"]
Idle == Fresh("call")
Ended == [Idle EXCEPT !.pc = "done"]

(* What setup still knows after a step of it was refused. *)
Forgetful(l) == [Fresh(l.cmd) EXCEPT !.asked = l.asked, !.exchanged = l.exchanged]

At(p, label) == proc[p].pc = label
Running(p) == proc[p].pc \notin {"idle", "done"}
Writing == \E q \in Procs : At(q, "sync")   \* somebody holds state.lock

Released(p) == IF refreshLock = p THEN None ELSE refreshLock

(* The command ends; both locks are released by the system. *)
Stop(p) ==
  /\ proc' = [proc EXCEPT ![p] = Ended]
  /\ refreshLock' = Released(p)

(* The step failed: the command ends, or setup goes on to ask for a token. *)
Refuse(p) ==
  /\ proc' = [proc EXCEPT ![p] = [Forgetful(@) EXCEPT !.pc = "refused"]]
  /\ refreshLock' = Released(p)

(* State::update: the closure runs on the latest file under state.lock and *)
(* the result replaces the file; the sync step makes it durable.           *)
Update(p, s, local) ==
  /\ ~Writing
  /\ file' = s
  /\ proc' = [proc EXCEPT ![p] = [local EXCEPT !.pc = "sync"]]
  /\ UNCHANGED <<disk, legacy>>

Init ==
  /\ legacy \in LegacyStates
  /\ file = None /\ disk = None
  /\ refreshLock = None
  /\ proc = [p \in Procs |-> Idle]
  /\ generations = 0
  /\ posts = {} /\ claimed = {}
  /\ submissions = [t \in Tokens |-> 0]
  /\ minted = 1
  /\ grant = [c \in Credentials |-> IF c = 1 THEN Legacy ELSE None]
  /\ sent = {}

-----------------------------------------------------------------------------
(* Opening the partition and the steps before the command's own work. *)

(* home_for_backend under migration.lock: an existing partition wins, an     *)
(* absent one starts from the legacy file; then State::load.                 *)
Open(p) ==
  /\ At(p, "idle")
  /\ file' = IF file = None THEN Loaded(legacy) ELSE file
  /\ disk' = IF file = None THEN file' ELSE disk
  /\ \E c \in Commands :
       LET first == CASE c = "login" -> "exchange"
                      [] c = "logout" -> "logout"
                      [] c # "status" /\ file'.access # None /\ file'.gen = None -> "name"
                      [] OTHER -> "check"
           cmd == IF c = "status" THEN "call" ELSE c   \* they differ only in the naming
       IN proc' = [proc EXCEPT ![p] = [Fresh(cmd) EXCEPT !.pc = first, !.snap = file']]
  /\ UNCHANGED <<legacy, refreshLock, generations>>

(* A sign-in without a generation is given one, unless another process did. *)
NameGeneration(p) ==
  /\ At(p, "name")
  /\ LET latest == IF file.gen = None THEN [file EXCEPT !.gen = generations + 1] ELSE file
     IN Update(p, latest, [proc[p] EXCEPT !.snap = latest, !.next = "check"])
  /\ generations' = IF file.gen = None THEN generations + 1 ELSE generations
  /\ UNCHANGED refreshLock

(* The write becomes durable and state.lock is given up; refresh.lock is kept *)
(* over the claim of the refresh token and given up with its result.          *)
Sync(p) ==
  /\ At(p, "sync")
  /\ disk' = file
  /\ IF proc[p].next = "done" THEN Stop(p)
     ELSE /\ proc' = [proc EXCEPT ![p].pc = proc[p].next, ![p].next = "done"]
          /\ refreshLock' = IF proc[p].next = "send" THEN refreshLock ELSE Released(p)
  /\ UNCHANGED <<file, legacy, generations>>

(* refresh_if_needed, up to its lock; client() needs an access token. *)
Check(p) ==
  /\ At(p, "check")
  /\ \E expiring \in BOOLEAN :
     IF NeedsRefresh(proc[p].snap, expiring)
     THEN proc' = [proc EXCEPT ![p].pc = "lock"] /\ UNCHANGED refreshLock
     ELSE IF proc[p].snap.access = None THEN Refuse(p)
     ELSE /\ proc' = [proc EXCEPT ![p].pc = "request", ![p].bearer = proc[p].snap.access]
          /\ UNCHANGED refreshLock
  /\ UNCHANGED <<file, disk, legacy, generations>>

-----------------------------------------------------------------------------
(* Refresh: under refresh.lock read again, consume the refresh token          *)
(* durably, send it once, store the answer if the sign-in is still the same.  *)

(* refresh_if_needed after its lock was granted. *)
LockExpired(p) ==
  /\ At(p, "lock") /\ refreshLock = None
  /\ \E expiring \in BOOLEAN :
     IF ~SameBinding(file, proc[p].snap) \/ (NeedsRefresh(file, expiring) /\ file.refresh = None)
     THEN Refuse(p)
     ELSE IF NeedsRefresh(file, expiring)
     THEN /\ refreshLock' = p
          /\ proc' = [proc EXCEPT ![p].pc = "claim", ![p].cur = file, ![p].mode = "expiry"]
     ELSE IF file.access = None THEN Refuse(p)
     ELSE /\ proc' = [proc EXCEPT ![p].pc = "request", ![p].snap = file, ![p].bearer = file.access]
          /\ UNCHANGED refreshLock
  /\ UNCHANGED <<file, disk, legacy, generations>>

(* recover_rejected_access after its lock was granted: it adopts a token that *)
(* another process refreshed, but only within the same login generation, or   *)
(* goes on with Claim, Send, Answered and Apply as refresh_if_needed does.    *)
LockRejected(p) ==
  /\ At(p, "recover") /\ refreshLock = None
  /\ \E expiring \in BOOLEAN :
     LET s == proc[p].snap
         same == s.ident # None /\ SameBinding(file, s)
         adopt == file.access # proc[p].bearer /\ s.gen # None /\ ~NeedsRefresh(file, expiring) /\ file.access # None
         refresh == file.access = proc[p].bearer /\ file.refresh # None
     IN IF same /\ adopt
        THEN /\ proc' = [proc EXCEPT ![p].pc = "request", ![p].bearer = file.access, ![p].retried = TRUE]
             /\ UNCHANGED refreshLock
        ELSE IF same /\ refresh
        THEN /\ refreshLock' = p
             /\ proc' = [proc EXCEPT ![p].pc = "claim", ![p].cur = file, ![p].mode = "rejected"]
        ELSE Refuse(p)
  /\ UNCHANGED <<file, disk, legacy, generations>>

FaultyClaim(p) ==   \* mutant: sends before the consumption is durable
  /\ At(p, "claim") /\ ~Writing
  /\ IF file.refresh = proc[p].cur.refresh /\ SameBinding(file, proc[p].cur)
     THEN /\ file' = [file EXCEPT !.refresh = None]
          /\ proc' = [proc EXCEPT ![p].pc = "send"]
          /\ UNCHANGED <<disk, legacy, refreshLock>>
     ELSE Refuse(p) /\ UNCHANGED <<file, disk, legacy>>
  /\ UNCHANGED generations

(* consume_refresh_token, if the state is still the one that was read. *)
Claim(p) ==
  /\ At(p, "claim")
  /\ IF file.refresh = proc[p].cur.refresh /\ SameBinding(file, proc[p].cur)
     THEN /\ Update(p, [file EXCEPT !.refresh = None], [proc[p] EXCEPT !.next = "send"])
          /\ UNCHANGED refreshLock
     ELSE /\ ~Writing
          /\ Refuse(p)
          /\ UNCHANGED <<file, disk, legacy>>
  /\ UNCHANGED generations

Posted(p, t) == [by |-> p, token |-> t, stage |-> "posted", got |-> None]

Send(p) ==
  /\ At(p, "send")
  /\ posts' = posts \cup {Posted(p, proc[p].cur.refresh)}
  /\ sent' = sent \cup {proc[p].cur.refresh}
  /\ proc' = [proc EXCEPT ![p].pc = "await"]
  /\ UNCHANGED <<file, disk, legacy, refreshLock, generations, claimed, submissions, minted, grant>>

(* What the backend answered to the request p waits for. *)
Answer(p, t) == {m \in posts : m.by = p /\ m.token = t /\ m.stage = "answered"}

Received(m) ==
  /\ posts' = posts \ {m}
  /\ UNCHANGED <<claimed, submissions, minted, grant, sent>>

(* The answer of the refresh: refused, another identity, or a credential. *)
Answered(p) ==
  /\ At(p, "await")
  /\ \E m \in Answer(p, proc[p].cur.refresh) :
       /\ Received(m)
       /\ LET ident == proc[p].cur.ident
              other == /\ proc[p].mode = "rejected" \/ ident \in Accounts
                       /\ ident # Owner(m.got)
          IN IF m.got = None THEN Refuse(p)
             ELSE IF other THEN Refuse(p)
             ELSE /\ proc' = [proc EXCEPT ![p].pc = "apply", ![p].got = m.got]
                  /\ UNCHANGED refreshLock
  /\ UNCHANGED <<file, disk, legacy, generations>>

FaultyApply(p) ==   \* mutant: does not look whether the sign-in is still the same
  /\ At(p, "apply")
  /\ Update(p, [file EXCEPT !.access = proc[p].got, !.refresh = proc[p].got, !.ident = Owner(proc[p].got)],
            [Forgetful(proc[p]) EXCEPT !.snap = proc[p].snap, !.bearer = proc[p].got, !.next = "request"])
  /\ UNCHANGED <<refreshLock, generations>>

(* set_tokens, unless somebody signed in or out while the answer was awaited. *)
Apply(p) ==
  /\ At(p, "apply")
  /\ LET c == proc[p].got
         renewed == [file EXCEPT !.access = c, !.refresh = c,
                       !.ident = IF proc[p].mode = "expiry" THEN Owner(c) ELSE file.ident]
         client == IF proc[p].mode = "expiry"
                   THEN [Forgetful(proc[p]) EXCEPT !.snap = renewed, !.bearer = c, !.next = "request"]
                   ELSE [Forgetful(proc[p]) EXCEPT !.snap = proc[p].snap, !.bearer = c, !.retried = TRUE, !.next = "request"]
     IN IF file.refresh = None /\ SameBinding(file, proc[p].cur)
        THEN Update(p, renewed, client) /\ UNCHANGED refreshLock
        ELSE ~Writing /\ Refuse(p) /\ UNCHANGED <<file, disk, legacy>>
  /\ UNCHANGED generations

-----------------------------------------------------------------------------
(* Requests of the command, with the one retry of client/src/transport.rs. *)

Needed(p) == IF proc[p].cmd = "setup" THEN 2 ELSE 1   \* setup: me, services

(* The handler runs; its answer is a result or a refusal, marked or not only *)
(* by the extractor, so a refusal of the handler ends the request.           *)
Served(p) ==
  /\ At(p, "request")
  /\ LET last == proc[p].asked + 1 = Needed(p)
     IN \/ Refuse(p)
        \/ last /\ proc[p].cmd # "setup" /\ Stop(p)
        \/ /\ last /\ proc[p].cmd = "setup"
           /\ proc' = [proc EXCEPT ![p].pc = "attach"]
           /\ UNCHANGED refreshLock
        \/ /\ ~last
           /\ proc' = [proc EXCEPT ![p].asked = @ + 1, ![p].retried = FALSE]
           /\ UNCHANGED refreshLock
  /\ UNCHANGED <<file, disk, legacy, generations>>

(* A marked 401: the handler has not run; the first one is recovered from. *)
Rejected(p) ==
  /\ At(p, "request")
  /\ IF proc[p].retried THEN Refuse(p)
     ELSE /\ proc' = [proc EXCEPT ![p].pc = "recover"]
          /\ UNCHANGED refreshLock
  /\ UNCHANGED <<file, disk, legacy, generations>>

-----------------------------------------------------------------------------
(* Signing in and out, and setup. *)

(* setup replaces a sign-in it could not refresh or that the backend refused, *)
(* once, by a token typed at the prompt; with a short-lived token in          *)
(* SB_AUTHTOKEN it does so before any refresh.                                *)
Prompt(p) ==
  /\ proc[p].cmd = "setup" /\ ~proc[p].exchanged /\ proc[p].asked = 0
  /\ \/ proc[p].pc \in {"check", "lock", "recover", "request", "refused"}
     \/ refreshLock = p
  /\ proc' = [proc EXCEPT ![p] = [Fresh("setup") EXCEPT !.pc = "exchange"]]
  /\ refreshLock' = Released(p)
  /\ UNCHANGED <<file, disk, legacy, generations>>

Exchange(p) ==
  /\ At(p, "exchange")
  /\ \E t \in Slts :
       /\ posts' = posts \cup {Posted(p, t)}
       /\ proc' = [proc EXCEPT ![p].pc = "awaitSignIn", ![p].token = t]
  /\ UNCHANGED <<file, disk, legacy, refreshLock, generations, claimed, submissions, minted, grant, sent>>

(* apply_auth_session: tokens, identity and a new generation in one update. *)
SignIn(p) ==
  /\ At(p, "awaitSignIn")
  /\ \E m \in Answer(p, proc[p].token) :
       /\ Received(m)
       /\ IF m.got = None
          THEN /\ Stop(p)
               /\ UNCHANGED <<file, disk, legacy, generations>>
          ELSE LET new == [access |-> m.got, refresh |-> m.got, gen |-> generations + 1, ident |-> Owner(m.got)]
               IN /\ Update(p, new, [Fresh(proc[p].cmd) EXCEPT !.snap = new, !.bearer = m.got, !.exchanged = TRUE,
                                      !.next = IF proc[p].cmd = "login" THEN "done" ELSE "request"])
                  /\ generations' = generations + 1
                  /\ UNCHANGED refreshLock

FaultyAttach(p) ==   \* mutant: stores the verified identity with whatever is signed in
  /\ At(p, "attach")
  /\ Update(p, [file EXCEPT !.ident = Owner(proc[p].bearer)], proc[p])
  /\ UNCHANGED <<refreshLock, generations>>

(* setup stores the identity it verified, if the sign-in is the verified one. *)
Attach(p) ==
  /\ At(p, "attach")
  /\ IF file.gen = proc[p].snap.gen /\ file.access = proc[p].snap.access
     THEN /\ Update(p, [file EXCEPT !.ident = Owner(proc[p].bearer)], proc[p])
          /\ UNCHANGED refreshLock
     ELSE ~Writing /\ Stop(p) /\ UNCHANGED <<file, disk, legacy>>
  /\ UNCHANGED generations

Logout(p) ==
  /\ At(p, "logout")
  /\ Update(p, SignedOut, proc[p])
  /\ UNCHANGED <<refreshLock, generations>>

(* An I/O error, a timeout, a lost answer or a kill ends the command anywhere; *)
(* what it has posted stays on its way.                                        *)
GiveUp(p) ==
  /\ Running(p)
  /\ Stop(p)
  /\ UNCHANGED <<file, disk, legacy, generations>>

(* The machine loses power: only what was synced is left. *)
PowerLoss ==
  /\ \E p \in Procs : Running(p)
  /\ file' = disk
  /\ refreshLock' = None
  /\ proc' = [p \in Procs |-> IF Running(p) THEN Ended ELSE proc[p]]
  /\ UNCHANGED <<disk, legacy, generations>>

-----------------------------------------------------------------------------
(* The backend (server.rs, server/login.rs) and Accounts. *)

Waiting(m) == proc[m.by].pc \in {"await", "awaitSignIn"}
Advance(m, stage, got) ==
  (posts \ {m}) \cup (IF stage = "answered" /\ ~Waiting(m) THEN {}
                      ELSE {[m EXCEPT !.stage = stage, !.got = got]})

FaultyBackendClaim(m) ==   \* mutant: looks for the digest and inserts it later
  /\ m.stage = "posted"
  /\ claimed' = claimed \cup {m.token}
  /\ posts' = Advance(m, "claimed", None)
  /\ UNCHANGED <<submissions, minted, grant, sent>>

(* claim_token: the digest is inserted once, for whatever operation. *)
BackendClaim(m) ==
  /\ m.stage = "posted" /\ m.token \notin claimed
  /\ claimed' = claimed \cup {m.token}
  /\ posts' = Advance(m, "claimed", None)
  /\ UNCHANGED <<submissions, minted, grant, sent>>

(* Already submitted, a full table, a storage error, or a backend that stops: *)
(* before Accounts is asked the request fails.                                *)
BackendRefuses(m) ==
  /\ m.stage \in {"posted", "claimed"}
  /\ posts' = Advance(m, "answered", None)
  /\ UNCHANGED <<claimed, submissions, minted, grant, sent>>

(* Accounts burns short-lived tokens and rotates refresh tokens; an answer that *)
(* is lost or that auth_session refuses leaves the new credential to nobody.    *)
AccountsRedeems(m) ==
  /\ m.stage = "claimed"
  /\ submissions' = [submissions EXCEPT ![m.token] = @ + 1]
  /\ \/ /\ submissions[m.token] = 0 /\ minted < MaxCredentials
        /\ minted' = minted + 1
        /\ grant' = [grant EXCEPT ![minted + 1] = IF m.token \in Slts THEN m.token ELSE grant[m.token]]
        /\ \E got \in {minted + 1, None} : posts' = Advance(m, "answered", got)
     \/ /\ posts' = Advance(m, "answered", None)
        /\ UNCHANGED <<minted, grant>>
  /\ UNCHANGED <<claimed, sent>>

Backend == \E m \in posts : BackendClaim(m) \/ BackendRefuses(m) \/ AccountsRedeems(m)

Local(p) ==
  \/ Open(p) \/ NameGeneration(p) \/ Sync(p) \/ Check(p)
  \/ LockExpired(p) \/ LockRejected(p) \/ Claim(p) \/ Apply(p)
  \/ Served(p) \/ Rejected(p)
  \/ Prompt(p) \/ Attach(p) \/ Logout(p) \/ GiveUp(p)

Next ==
  \/ \E p \in Procs : Local(p) /\ UNCHANGED backendVars
  \/ PowerLoss /\ UNCHANGED backendVars
  \/ \E p \in Procs : Send(p) \/ Answered(p) \/ Exchange(p) \/ SignIn(p)
  \/ Backend /\ UNCHANGED cliVars

Spec == Init /\ [][Next]_vars

=============================================================================
