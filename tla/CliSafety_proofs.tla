--------------------------- MODULE CliSafety_proofs ---------------------------
(***************************************************************************)
(* Proofs of what CliSafety states, for any number of commands, accounts,  *)
(* short-lived tokens and credentials; and, at the end, of what the tabs   *)
(* of the website promise (WebsiteSession), for any number of them.        *)
(***************************************************************************)
EXTENDS MCCliCredentials, Sequences, TLAPS

-----------------------------------------------------------------------------
(* Types. *)

(* The stages of a command, one by one. *)
LEMMA StepNames ==
  /\ "idle" \in Steps /\ "done" \in Steps /\ "check" \in Steps /\ "name" \in Steps
  /\ "lock" \in Steps /\ "recover" \in Steps /\ "claim" \in Steps /\ "sync" \in Steps
  /\ "send" \in Steps /\ "await" \in Steps /\ "apply" \in Steps /\ "request" \in Steps
  /\ "attach" \in Steps /\ "exchange" \in Steps /\ "awaitSignIn" \in Steps
  /\ "logout" \in Steps /\ "refused" \in Steps
BY DEF Steps

(* The first state is well typed. *)
LEMMA TypeInit == Init => TypeOK /\ Unopened
<1> SUFFICES ASSUME Init PROVE TypeOK /\ Unopened
  OBVIOUS
<1>1. SignedOut \in States
  BY DEF SignedOut, States
<1>2. Idle \in Workers
  BY <1>1, StepNames DEF Idle, Fresh, Workers, Prepared, Locals, Commands
<1>3. TypeOK
  BY <1>2, CliAssumption DEF Init, TypeOK, LegacyStates, States, Known, Posts, Credentials, Grants, Tokens
<1> QED  BY <1>3 DEF Init, Unopened, At, Idle, Fresh

(* The state files and the place of one command, as the steps of a command *)
(* leave them.                                                             *)
Moved(p, f, d, l) ==
  /\ file' = f /\ disk' = d /\ legacy' = legacy
  /\ refreshLock' \in {refreshLock, None, p}
  /\ proc' = [proc EXCEPT ![p] = l]
  /\ generations' \in Nat

(* A step of a command, from its parts. *)
LEMMA TypeFrom ==
  ASSUME TypeOK, UNCHANGED backendVars, NEW p \in Procs, NEW f \in States \cup {None},
         NEW d \in States \cup {None}, NEW l \in Workers, Moved(p, f, d, l)
  PROVE  TypeOK'
<1>1. Known' = Known /\ States' = States /\ Locals' = Locals /\ Workers' = Workers /\ Posts' = Posts
  BY DEF backendVars, Known, States, Locals, Workers, Posts
<1>2. proc' \in [Procs -> Workers]
  BY DEF Moved, TypeOK
<1> QED  BY <1>1, <1>2 DEF TypeOK, backendVars, Moved

(* Where commands begin and end. *)
LEMMA FreshTypes ==
  /\ SignedOut \in States
  /\ \A c \in Commands : Fresh(c) \in Locals
  /\ Ended \in Workers
<1>1. SignedOut \in States
  BY DEF SignedOut, States
<1>2. \A c \in Commands : Fresh(c) \in Locals
  BY <1>1, StepNames DEF Fresh, Locals
<1>3. "call" \in Commands
  BY DEF Commands
<1>4. Ended \in Locals
  BY <1>2, <1>3, StepNames DEF Ended, Idle, Locals
<1>5. Prepared(Ended)
  BY DEF Ended, Idle, Fresh, Prepared
<1> QED  BY <1>1, <1>2, <1>4, <1>5 DEF Workers

(* A refused step leaves what setup still knows. *)
LEMMA RefusedTypes ==
  ASSUME NEW l \in Workers
  PROVE  Forgetful(l) \in Locals /\ [Forgetful(l) EXCEPT !.pc = "refused"] \in Workers
<1>1. Fresh(l.cmd) \in Locals
  BY FreshTypes DEF Workers, Locals
<1>2. Forgetful(l) \in Locals
  BY <1>1 DEF Forgetful, Locals, Workers
<1>3. [Forgetful(l) EXCEPT !.pc = "refused"] \in Locals
  BY <1>2, StepNames DEF Locals
<1>4. Prepared([Forgetful(l) EXCEPT !.pc = "refused"])
  BY DEF Prepared, Forgetful, Fresh
<1> QED  BY <1>2, <1>3, <1>4 DEF Workers

(* The parts of a step that ends a command or is refused. *)
LEMMA Ending ==
  ASSUME TypeOK, NEW p \in Procs, Stop(p) \/ Refuse(p),
         file' \in States \cup {None}, disk' \in States \cup {None}, legacy' = legacy, generations' = generations
  PROVE  \E l \in Workers : Moved(p, file', disk', l)
<1>1. generations' \in Nat /\ proc[p] \in Workers
  BY DEF TypeOK
<1>2. CASE Stop(p)
  BY <1>1, <1>2, FreshTypes DEF Stop, Released, Moved
<1>3. CASE Refuse(p)
  BY <1>1, <1>3, RefusedTypes DEF Refuse, Released, Moved
<1> QED  BY <1>2, <1>3

(* What a command reads and has read. *)
LEMMA Reading ==
  ASSUME TypeOK, NEW p \in Procs
  PROVE  /\ proc[p] \in Workers /\ proc[p] \in Locals /\ Prepared(proc[p])
         /\ file \in States \cup {None} /\ disk \in States \cup {None}
         /\ generations \in Nat
         /\ \A l : [proc EXCEPT ![p] = l] = [q \in Procs |-> IF q = p THEN l ELSE proc[q]]
  BY DEF TypeOK, Workers

(* Nothing runs before the partition is opened. *)
LEMMA FileThere ==
  ASSUME TypeOK, Unopened, NEW p \in Procs, ~At(p, "idle")
  PROVE  file \in States /\ file # None
<1>1. file # None
  BY DEF Unopened
<1> QED  BY <1>1 DEF TypeOK

(* What a command has at hand after the partition was opened. *)
LEMMA OpenShape ==
  ASSUME NEW p \in Procs, Open(p)
  PROVE  \E c \in Commands, first \in {"exchange", "logout", "name", "check"} :
           proc' = [proc EXCEPT ![p] = [Fresh(c) EXCEPT !.pc = first, !.snap = file']]
<1> DEFINE first(c) ==
      CASE c = "login" -> "exchange"
        [] c = "logout" -> "logout"
        [] c # "status" /\ file'.access # None /\ file'.gen = None -> "name"
        [] OTHER -> "check"
<1> DEFINE cmd(c) == IF c = "status" THEN "call" ELSE c
<1>1. PICK c \in Commands :
        proc' = [proc EXCEPT ![p] = [Fresh(cmd(c)) EXCEPT !.pc = first(c), !.snap = file']]
  BY DEF Open
<1>2. first(c) \in {"exchange", "logout", "name", "check"}
  OBVIOUS
<1>3. cmd(c) \in Commands
  BY DEF Commands
<1> QED  BY <1>1, <1>2, <1>3

LEMMA TypeOpen ==
  ASSUME TypeOK, NEW p \in Procs, Open(p)
  PROVE  \E l \in Workers : Moved(p, file', disk', l) /\ file' \in States /\ disk' \in States \cup {None}
<1>1. Loaded(legacy) \in States
  <2>1. 1 \in Known /\ AccountOf[Legacy] \in Accounts
    BY CliAssumption DEF TypeOK, Known, Credentials, Grants
  <2>2. CASE legacy \in [access : {1}, refresh : {1}, gen : {None}, ident : {AccountOf[Legacy], Retired}]
    BY <2>1, <2>2, FreshTypes DEF Loaded, States
  <2>3. CASE legacy \in [access : {Foreign}, refresh : {Foreign}, gen : {None}, ident : {Retired}]
    BY <2>3, FreshTypes DEF Loaded
  <2> QED  BY <2>2, <2>3 DEF TypeOK, LegacyStates
<1>2. file' \in States /\ disk' \in States \cup {None}
  BY <1>1, Reading DEF Open
<1>3. PICK c \in Commands, first \in {"exchange", "logout", "name", "check"} :
        proc' = [proc EXCEPT ![p] = [Fresh(c) EXCEPT !.pc = first, !.snap = file']]
  BY OpenShape
<1> DEFINE l == [Fresh(c) EXCEPT !.pc = first, !.snap = file']
<1>5. Fresh(c) \in Locals
  BY FreshTypes
<1>6. l \in Locals
  BY <1>2, <1>5, StepNames DEF Locals
<1>7. Prepared(l)
  BY DEF Prepared, Fresh
<1> QED  BY <1>2, <1>3, <1>6, <1>7, Reading DEF Open, Moved, Workers

LEMMA TypeUpdate ==
  ASSUME TypeOK, NEW p \in Procs, NEW f, NEW l \in Locals, Update(p, f, l), Prepared([l EXCEPT !.pc = "sync"]),
         refreshLock' \in {refreshLock, None, p}, generations' \in Nat
  PROVE  \E w \in Workers : Moved(p, file', disk', w) /\ file' = f /\ disk' = disk
<1>1. [l EXCEPT !.pc = "sync"] \in Workers
  BY StepNames DEF Workers, Locals
<1> QED  BY <1>1 DEF Update, Moved

LEMMA TypeName ==
  ASSUME TypeOK, Unopened, NEW p \in Procs, NameGeneration(p)
  PROVE  \E l \in Workers : Moved(p, file', disk', l) /\ file' \in States /\ disk' = disk
<1> DEFINE latest == IF file.gen = None THEN [file EXCEPT !.gen = generations + 1] ELSE file
<1> DEFINE l == [proc[p] EXCEPT !.snap = latest, !.next = "check"]
<1>1. file \in States /\ generations \in Nat
  BY FileThere, Reading DEF NameGeneration, At
<1>2. latest \in States
  BY <1>1 DEF States
<1> HIDE DEF latest
<1>3. l \in Locals
  BY <1>2, Reading, StepNames DEF Locals
<1>4. Prepared([l EXCEPT !.pc = "sync"])
  BY <1>3 DEF Prepared, Locals
<1>5. Update(p, latest, l) /\ generations' \in Nat /\ refreshLock' = refreshLock
  BY <1>1 DEF NameGeneration, latest
<1> HIDE DEF l
<1> QED  BY <1>2, <1>3, <1>4, <1>5, TypeUpdate

LEMMA TypeSync ==
  ASSUME TypeOK, NEW p \in Procs, Sync(p)
  PROVE  \E l \in Workers : Moved(p, file', disk', l) /\ file' = file /\ disk' = file
<1>1. CASE proc[p].next = "done"
  BY <1>1, Ending, Reading DEF Sync
<1>2. CASE proc[p].next # "done"
  <2> DEFINE l == [proc[p] EXCEPT !.pc = proc[p].next, !.next = "done"]
  <2>1. l \in Locals
    BY Reading, StepNames DEF Locals
  <2>2. proc[p].next \in {"send", "request", "check"} /\ proc[p].pc = "sync" /\ Prepared(proc[p])
    BY <1>2, Reading DEF Sync, At, Prepared
  <2>3. Prepared(l)
    BY <2>1, <2>2 DEF Prepared, Locals
  <2>4. proc' = [proc EXCEPT ![p] = l]
    BY <1>2, Reading DEF Sync
  <2> HIDE DEF l
  <2> QED  BY <1>2, <2>1, <2>3, <2>4, Reading DEF Sync, Moved, Workers, Released
<1> QED  BY <1>1, <1>2

LEMMA TypeCheck ==
  ASSUME TypeOK, NEW p \in Procs, Check(p)
  PROVE  \E l \in Workers : Moved(p, file', disk', l) /\ file' = file /\ disk' = disk
<1>1. CASE Refuse(p)
  BY <1>1, Ending, Reading DEF Check
<1>2. CASE proc' = [proc EXCEPT ![p].pc = "lock"] /\ UNCHANGED refreshLock
  <2> DEFINE l == [proc[p] EXCEPT !.pc = "lock"]
  <2>1. l \in Locals
    BY Reading, StepNames DEF Locals
  <2>2. Prepared(l)
    BY Reading DEF Prepared, Locals, Check, At
  <2>3. proc' = [proc EXCEPT ![p] = l]
    BY <1>2, Reading
  <2> HIDE DEF l
  <2> QED  BY <1>2, <2>1, <2>2, <2>3, Reading DEF Check, Moved, Workers
<1>3. CASE /\ proc[p].snap.access # None /\ UNCHANGED refreshLock
           /\ proc' = [proc EXCEPT ![p].pc = "request", ![p].bearer = proc[p].snap.access]
  <2> DEFINE l == [proc[p] EXCEPT !.pc = "request", !.bearer = proc[p].snap.access]
  <2>4. proc[p].snap \in States
    BY Reading DEF Locals
  <2>5. proc[p].snap.access \in Known \cup {None}
    BY <2>4 DEF States
  <2>1. l \in Locals
    BY <2>5, Reading, StepNames DEF Locals
  <2>2. Prepared(l)
    BY <1>3, Reading DEF Prepared, Locals, Check, At
  <2>3. proc' = [proc EXCEPT ![p] = l]
    BY <1>3, Reading
  <2> HIDE DEF l
  <2> QED  BY <1>3, <2>1, <2>2, <2>3, Reading DEF Check, Moved, Workers
<1> QED  BY <1>1, <1>2, <1>3 DEF Check

(* A command takes refresh.lock to consume the refresh token it sees. *)
LEMMA TypeTakes ==
  ASSUME TypeOK, NEW p \in Procs, file \in States, file.refresh # None, NEW mode \in {"expiry", "rejected"}, ~At(p, "sync"),
         proc' = [proc EXCEPT ![p].pc = "claim", ![p].cur = file, ![p].mode = mode],
         refreshLock' = p, UNCHANGED <<file, disk, legacy, generations>>
  PROVE  \E l \in Workers : Moved(p, file', disk', l) /\ file' = file /\ disk' = disk
<1> DEFINE l == [proc[p] EXCEPT !.pc = "claim", !.cur = file, !.mode = mode]
<1>1. l \in Locals
  BY Reading, StepNames DEF Locals
<1>2. Prepared(l)
  BY Reading DEF Prepared, Locals, At
<1>3. proc' = [proc EXCEPT ![p] = l]
  BY Reading
<1> HIDE DEF l
<1> QED  BY <1>1, <1>2, <1>3, Reading DEF Moved, Workers

LEMMA TypeLockExpired ==
  ASSUME TypeOK, Unopened, NEW p \in Procs, LockExpired(p)
  PROVE  \E l \in Workers : Moved(p, file', disk', l) /\ file' = file /\ disk' = disk
<1>1. file \in States
  BY FileThere DEF LockExpired, At
<1>2. CASE Refuse(p)
  BY <1>2, Ending, Reading DEF LockExpired
<1>3. CASE /\ refreshLock' = p /\ file.refresh # None
           /\ proc' = [proc EXCEPT ![p].pc = "claim", ![p].cur = file, ![p].mode = "expiry"]
  BY <1>1, <1>3, TypeTakes DEF LockExpired, At
<1>4. CASE /\ file.access # None /\ UNCHANGED refreshLock
           /\ proc' = [proc EXCEPT ![p].pc = "request", ![p].snap = file, ![p].bearer = file.access]
  <2> DEFINE l == [proc[p] EXCEPT !.pc = "request", !.snap = file, !.bearer = file.access]
  <2>1. file.access \in Known \cup {None}
    BY <1>1 DEF States
  <2>2. l \in Locals
    BY <1>1, <2>1, Reading, StepNames DEF Locals
  <2>3. Prepared(l)
    BY <1>4, Reading DEF Prepared, Locals, LockExpired, At
  <2>4. proc' = [proc EXCEPT ![p] = l]
    BY <1>4, Reading
  <2> HIDE DEF l
  <2> QED  BY <1>4, <2>2, <2>3, <2>4, Reading DEF LockExpired, Moved, Workers
<1> QED  BY <1>2, <1>3, <1>4 DEF LockExpired

LEMMA TypeLockRejected ==
  ASSUME TypeOK, Unopened, NEW p \in Procs, LockRejected(p)
  PROVE  \E l \in Workers : Moved(p, file', disk', l) /\ file' = file /\ disk' = disk
<1>1. file \in States
  BY FileThere DEF LockRejected, At
<1>2. CASE Refuse(p)
  BY <1>2, Ending, Reading DEF LockRejected
<1>3. CASE /\ refreshLock' = p /\ file.refresh # None
           /\ proc' = [proc EXCEPT ![p].pc = "claim", ![p].cur = file, ![p].mode = "rejected"]
  BY <1>1, <1>3, TypeTakes DEF LockRejected, At
<1>4. CASE /\ file.access # None /\ UNCHANGED refreshLock
           /\ proc' = [proc EXCEPT ![p].pc = "request", ![p].bearer = file.access, ![p].retried = TRUE]
  <2> DEFINE l == [proc[p] EXCEPT !.pc = "request", !.bearer = file.access, !.retried = TRUE]
  <2>1. file.access \in Known \cup {None}
    BY <1>1 DEF States
  <2>2. l \in Locals
    BY <2>1, Reading, StepNames DEF Locals
  <2>3. Prepared(l)
    BY <1>4, Reading DEF Prepared, Locals, LockRejected, At
  <2>4. proc' = [proc EXCEPT ![p] = l]
    BY <1>4, Reading
  <2> HIDE DEF l
  <2> QED  BY <1>4, <2>2, <2>3, <2>4, Reading DEF LockRejected, Moved, Workers
<1> QED  BY <1>2, <1>3, <1>4 DEF LockRejected

LEMMA TypeClaim ==
  ASSUME TypeOK, Unopened, NEW p \in Procs, Claim(p)
  PROVE  \E l \in Workers : Moved(p, file', disk', l) /\ file' \in States /\ disk' = disk
<1>1. file \in States
  BY FileThere DEF Claim, At
<1>2. CASE Refuse(p) /\ UNCHANGED <<file, disk, legacy>>
  BY <1>1, <1>2, Ending, Reading DEF Claim
<1>3. CASE Update(p, [file EXCEPT !.refresh = None], [proc[p] EXCEPT !.next = "send"]) /\ UNCHANGED refreshLock
  <2>1. [file EXCEPT !.refresh = None] \in States
    BY <1>1 DEF States
  <2> DEFINE l == [proc[p] EXCEPT !.next = "send"]
  <2>2. l \in Locals
    BY Reading, StepNames DEF Locals
  <2>3. Prepared([l EXCEPT !.pc = "sync"])
    BY Reading DEF Prepared, Locals, Claim, At
  <2>4. generations' \in Nat
    BY Reading DEF Claim
  <2> HIDE DEF l
  <2>5. Update(p, [file EXCEPT !.refresh = None], l)
    BY <1>3 DEF l
  <2> QED  BY <1>3, <2>1, <2>2, <2>3, <2>4, <2>5, TypeUpdate
<1> QED  BY <1>2, <1>3 DEF Claim

LEMMA TypeApply ==
  ASSUME TypeOK, Unopened, NEW p \in Procs, Apply(p)
  PROVE  \E l \in Workers : Moved(p, file', disk', l) /\ file' \in States /\ disk' = disk
<1>1. file \in States
  BY FileThere DEF Apply, At
<1>2. CASE Refuse(p) /\ UNCHANGED <<file, disk, legacy>>
  BY <1>1, <1>2, Ending, Reading DEF Apply
<1> DEFINE c == proc[p].got
           renewed == [file EXCEPT !.access = c, !.refresh = c,
                         !.ident = IF proc[p].mode = "expiry" THEN Owner(c) ELSE file.ident]
           client == IF proc[p].mode = "expiry"
                     THEN [Forgetful(proc[p]) EXCEPT !.snap = renewed, !.bearer = c, !.next = "request"]
                     ELSE [Forgetful(proc[p]) EXCEPT !.snap = proc[p].snap, !.bearer = c, !.retried = TRUE, !.next = "request"]
<1>3. CASE Update(p, renewed, client) /\ UNCHANGED refreshLock
  <2>1. c \in Known
    BY Reading DEF Apply, At, Prepared, Locals
  <2>2. Owner(c) \in Accounts
    BY <2>1, CliAssumption DEF Owner, TypeOK
  <2>3. renewed \in States
    BY <1>1, <2>1, <2>2 DEF States
  <2>4. proc[p].snap \in States /\ Forgetful(proc[p]) \in Locals
    BY RefusedTypes, Reading DEF Locals
  <2> HIDE DEF renewed, c
  <2>5. client \in Locals
    BY <2>1, <2>3, <2>4, StepNames DEF Locals
  <2>6. Prepared([client EXCEPT !.pc = "sync"])
    BY <2>1, <2>4, <2>5, CliAssumption DEF Prepared, Locals, Known, Tokens, Credentials, TypeOK
  <2>7. generations' \in Nat
    BY Reading DEF Apply
  <2> HIDE DEF client
  <2> QED  BY <1>3, <2>3, <2>5, <2>6, <2>7, TypeUpdate
<1> QED  BY <1>2, <1>3 DEF Apply

LEMMA TypeServed ==
  ASSUME TypeOK, NEW p \in Procs, Served(p)
  PROVE  \E l \in Workers : Moved(p, file', disk', l) /\ file' = file /\ disk' = disk
<1>1. CASE Refuse(p) \/ Stop(p)
  BY <1>1, Ending, Reading DEF Served
<1>2. CASE proc' = [proc EXCEPT ![p].pc = "attach"] /\ UNCHANGED refreshLock
  <2> DEFINE l == [proc[p] EXCEPT !.pc = "attach"]
  <2>1. l \in Locals
    BY Reading, StepNames DEF Locals
  <2>2. Prepared(l)
    BY Reading DEF Prepared, Locals, Served, At
  <2>3. proc' = [proc EXCEPT ![p] = l]
    BY <1>2, Reading
  <2> HIDE DEF l
  <2> QED  BY <1>2, <2>1, <2>2, <2>3, Reading DEF Served, Moved, Workers
<1>3. CASE proc' = [proc EXCEPT ![p].asked = @ + 1, ![p].retried = FALSE] /\ UNCHANGED refreshLock
  <2> DEFINE l == [proc[p] EXCEPT !.asked = @ + 1, !.retried = FALSE]
  <2>4. proc[p].asked + 1 \in Nat
    BY Reading DEF Locals
  <2>1. l \in Locals
    BY <2>4, Reading, Zenon DEF Locals
  <2>2. Prepared(l)
    BY Reading DEF Prepared, Locals, Served, At
  <2>3. proc' = [proc EXCEPT ![p] = l]
    BY <1>3, Reading
  <2> HIDE DEF l
  <2> QED  BY <1>3, <2>1, <2>2, <2>3, Reading DEF Served, Moved, Workers
<1> QED  BY <1>1, <1>2, <1>3 DEF Served

LEMMA TypeRejected ==
  ASSUME TypeOK, NEW p \in Procs, Rejected(p)
  PROVE  \E l \in Workers : Moved(p, file', disk', l) /\ file' = file /\ disk' = disk
<1>1. CASE Refuse(p)
  BY <1>1, Ending, Reading DEF Rejected
<1>2. CASE proc' = [proc EXCEPT ![p].pc = "recover"] /\ UNCHANGED refreshLock
  <2> DEFINE l == [proc[p] EXCEPT !.pc = "recover"]
  <2>1. l \in Locals
    BY Reading, StepNames DEF Locals
  <2>2. Prepared(l)
    BY Reading DEF Prepared, Locals, Rejected, At
  <2>3. proc' = [proc EXCEPT ![p] = l]
    BY <1>2, Reading
  <2> HIDE DEF l
  <2> QED  BY <1>2, <2>1, <2>2, <2>3, Reading DEF Rejected, Moved, Workers
<1> QED  BY <1>1, <1>2 DEF Rejected

LEMMA TypePrompt ==
  ASSUME TypeOK, NEW p \in Procs, Prompt(p)
  PROVE  \E l \in Workers : Moved(p, file', disk', l) /\ file' = file /\ disk' = disk
<1> DEFINE l == [Fresh("setup") EXCEPT !.pc = "exchange"]
<1>1. l \in Locals
  BY FreshTypes, StepNames DEF Locals, Commands
<1>2. Prepared(l)
  BY DEF Prepared, Fresh
<1>3. proc' = [proc EXCEPT ![p] = l]
  BY DEF Prompt
<1> HIDE DEF l
<1> QED  BY <1>1, <1>2, <1>3, Reading DEF Prompt, Moved, Workers, Released

LEMMA TypeAttach ==
  ASSUME TypeOK, Unopened, NEW p \in Procs, Attach(p)
  PROVE  \E l \in Workers : Moved(p, file', disk', l) /\ file' \in States /\ disk' = disk
<1>1. file \in States
  BY FileThere DEF Attach, At
<1>2. CASE Stop(p) /\ UNCHANGED <<file, disk, legacy>>
  BY <1>1, <1>2, Ending, Reading DEF Attach
<1>3. CASE Update(p, [file EXCEPT !.ident = Owner(proc[p].bearer)], proc[p]) /\ UNCHANGED refreshLock
  <2>1. proc[p].bearer \in Known
    BY Reading DEF Attach, At, Prepared, Locals
  <2>2. Owner(proc[p].bearer) \in Accounts
    BY <2>1, CliAssumption DEF Owner, TypeOK
  <2>3. [file EXCEPT !.ident = Owner(proc[p].bearer)] \in States
    BY <1>1, <2>2 DEF States
  <2>4. Prepared([proc[p] EXCEPT !.pc = "sync"])
    BY Reading DEF Prepared, Locals, Attach, At
  <2>5. generations' \in Nat
    BY Reading DEF Attach
  <2> QED  BY <1>3, <2>3, <2>4, <2>5, TypeUpdate, Reading
<1> QED  BY <1>2, <1>3 DEF Attach

LEMMA TypeLogout ==
  ASSUME TypeOK, NEW p \in Procs, Logout(p)
  PROVE  \E l \in Workers : Moved(p, file', disk', l) /\ file' \in States /\ disk' = disk
<1>1. Prepared([proc[p] EXCEPT !.pc = "sync"])
  BY Reading DEF Prepared, Locals, Logout, At
<1>2. Update(p, SignedOut, proc[p]) /\ UNCHANGED refreshLock /\ generations' \in Nat
  BY Reading DEF Logout
<1> QED  BY <1>1, <1>2, TypeUpdate, Reading, FreshTypes

(* Every step of a command keeps the types. *)
LEMMA TypeLocal ==
  ASSUME TypeOK, Unopened, NEW p \in Procs, Local(p), UNCHANGED backendVars
  PROVE  TypeOK'
<1> DEFINE Good == \E l \in Workers, f \in States \cup {None}, d \in States \cup {None} : Moved(p, f, d, l)
<1> SUFFICES Good
  BY TypeFrom
<1>1. CASE Open(p)            BY <1>1, TypeOpen
<1>2. CASE NameGeneration(p)  BY <1>2, TypeName, Reading
<1>3. CASE Sync(p)            BY <1>3, TypeSync, Reading
<1>4. CASE Check(p)           BY <1>4, TypeCheck, Reading
<1>5. CASE LockExpired(p)     BY <1>5, TypeLockExpired, Reading
<1>6. CASE LockRejected(p)    BY <1>6, TypeLockRejected, Reading
<1>7. CASE Claim(p)           BY <1>7, TypeClaim, Reading
<1>8. CASE Apply(p)           BY <1>8, TypeApply, Reading
<1>9. CASE Served(p)          BY <1>9, TypeServed, Reading
<1>10. CASE Rejected(p)       BY <1>10, TypeRejected, Reading
<1>11. CASE Prompt(p)         BY <1>11, TypePrompt, Reading
<1>12. CASE Attach(p)         BY <1>12, TypeAttach, Reading
<1>13. CASE Logout(p)         BY <1>13, TypeLogout, Reading
<1>14. CASE GiveUp(p)         BY <1>14, Ending, Reading DEF GiveUp
<1> QED  BY <1>1, <1>2, <1>3, <1>4, <1>5, <1>6, <1>7, <1>8, <1>9, <1>10, <1>11, <1>12, <1>13, <1>14 DEF Local

(* The other steps of a command exchange one-time credentials. *)
LEMMA TypePosts ==
  ASSUME TypeOK, NEW p \in Procs, NEW f \in States \cup {None},
         NEW d \in States \cup {None}, NEW l \in Workers, Moved(p, f, d, l),
         UNCHANGED <<claimed, submissions, minted, grant>>, posts' \subseteq Posts, sent' \subseteq Known
  PROVE  TypeOK'
<1>1. Known' = Known /\ States' = States /\ Locals' = Locals /\ Workers' = Workers /\ Posts' = Posts
  BY DEF Known, States, Locals, Workers, Posts
<1>2. proc' \in [Procs -> Workers]
  BY DEF Moved, TypeOK
<1> QED  BY <1>1, <1>2 DEF TypeOK, Moved

LEMMA TypeSend ==
  ASSUME TypeOK, NEW p \in Procs, Send(p)
  PROVE  TypeOK'
<1> DEFINE l == [proc[p] EXCEPT !.pc = "await"]
<1>1. proc[p].cur \in States /\ proc[p].cur.refresh # None
  BY Reading DEF Send, At, Prepared, Locals
<1>2. proc[p].cur.refresh \in Known
  BY <1>1 DEF States
<1>3. l \in Locals
  BY Reading, StepNames DEF Locals
<1>4. Prepared(l)
  BY Reading DEF Prepared, Locals, Send, At
<1>5. proc' = [proc EXCEPT ![p] = l]
  BY Reading DEF Send
<1>6. Posted(p, proc[p].cur.refresh) \in Posts
  BY <1>2 DEF Posted, Posts
<1>7. posts' \subseteq Posts /\ sent' \subseteq Known
  BY <1>2, <1>6 DEF Send, TypeOK
<1> HIDE DEF l
<1> QED  BY <1>3, <1>4, <1>5, <1>7, TypePosts, Reading DEF Send, Moved, Workers

LEMMA TypeAnswered ==
  ASSUME TypeOK, NEW p \in Procs, Answered(p)
  PROVE  TypeOK'
<1>1. PICK m \in Answer(p, proc[p].cur.refresh) :
        /\ Received(m)
        /\ \/ Refuse(p)
           \/ /\ m.got # None /\ UNCHANGED refreshLock
              /\ proc' = [proc EXCEPT ![p].pc = "apply", ![p].got = m.got]
  BY DEF Answered
<1>2. posts' \subseteq Posts /\ sent' \subseteq Known /\ m \in Posts
  BY <1>1 DEF Received, TypeOK, Answer
<1>3. CASE Refuse(p)
  <2>1. PICK l \in Workers : Moved(p, file', disk', l)
    BY <1>3, Ending, Reading DEF Answered
  <2> QED  BY <1>1, <1>2, <2>1, TypePosts, Reading DEF Answered, Received
<1>4. CASE /\ m.got # None /\ UNCHANGED refreshLock
           /\ proc' = [proc EXCEPT ![p].pc = "apply", ![p].got = m.got]
  <2> DEFINE l == [proc[p] EXCEPT !.pc = "apply", !.got = m.got]
  <2>1. m.got \in Known
    BY <1>2, <1>4 DEF Posts
  <2>2. l \in Locals
    BY <2>1, Reading, StepNames DEF Locals
  <2>3. Prepared(l)
    BY <1>4, Reading DEF Prepared, Locals, Answered, At
  <2>4. proc' = [proc EXCEPT ![p] = l]
    BY <1>4, Reading
  <2> HIDE DEF l
  <2> QED  BY <1>1, <1>2, <1>4, <2>2, <2>3, <2>4, TypePosts, Reading DEF Answered, Received, Moved, Workers
<1> QED  BY <1>1, <1>3, <1>4

LEMMA TypeExchange ==
  ASSUME TypeOK, NEW p \in Procs, Exchange(p)
  PROVE  TypeOK'
<1>1. PICK t \in Slts : /\ posts' = posts \cup {Posted(p, t)}
                        /\ proc' = [proc EXCEPT ![p].pc = "awaitSignIn", ![p].token = t]
  BY DEF Exchange
<1> DEFINE l == [proc[p] EXCEPT !.pc = "awaitSignIn", !.token = t]
<1>2. l \in Locals
  BY Reading, StepNames DEF Locals
<1>3. Prepared(l)
  BY Reading DEF Prepared, Locals, Exchange, At
<1>4. proc' = [proc EXCEPT ![p] = l]
  BY <1>1, Reading
<1>5. posts' \subseteq Posts /\ sent' \subseteq Known
  BY <1>1 DEF Posted, Posts, TypeOK, Exchange
<1> HIDE DEF l
<1> QED  BY <1>2, <1>3, <1>4, <1>5, TypePosts, Reading DEF Exchange, Moved, Workers

(* What a sign-in stores, and what its command goes on with. *)
Renewed(m) == [access |-> m.got, refresh |-> m.got, gen |-> generations + 1, ident |-> Owner(m.got)]
Entered(p, m) ==
  [Fresh(proc[p].cmd) EXCEPT !.snap = Renewed(m), !.bearer = m.got, !.exchanged = TRUE,
     !.next = IF proc[p].cmd = "login" THEN "done" ELSE "request"]

LEMMA SignInShape ==
  ASSUME NEW p \in Procs, SignIn(p)
  PROVE  \E m \in Answer(p, proc[p].token) :
           /\ Received(m)
           /\ \/ Stop(p) /\ UNCHANGED <<file, disk, legacy, generations>>
              \/ /\ m.got # None /\ UNCHANGED refreshLock /\ generations' = generations + 1
                 /\ Update(p, Renewed(m), Entered(p, m))
  BY Zenon DEF SignIn, Renewed, Entered

LEMMA TypeSignIn ==
  ASSUME TypeOK, NEW p \in Procs, SignIn(p)
  PROVE  TypeOK'
<1> DEFINE new(m) == [access |-> m.got, refresh |-> m.got, gen |-> generations + 1, ident |-> Owner(m.got)]
           l(m) == [Fresh(proc[p].cmd) EXCEPT !.snap = new(m), !.bearer = m.got, !.exchanged = TRUE,
                     !.next = IF proc[p].cmd = "login" THEN "done" ELSE "request"]
<1>1. PICK m \in Answer(p, proc[p].token) :
        /\ Received(m)
        /\ \/ Stop(p) /\ UNCHANGED <<file, disk, legacy, generations>>
           \/ /\ m.got # None /\ UNCHANGED refreshLock /\ generations' = generations + 1
              /\ Update(p, new(m), l(m))
  BY SignInShape DEF Renewed, Entered
<1>2. posts' \subseteq Posts /\ sent' \subseteq Known /\ m \in Posts
  BY <1>1 DEF Received, TypeOK, Answer
<1>3. CASE Stop(p) /\ UNCHANGED <<file, disk, legacy, generations>>
  <2>1. PICK w \in Workers : Moved(p, file', disk', w)
    BY <1>3, Ending, Reading
  <2> QED  BY <1>1, <1>2, <1>3, <2>1, TypePosts, Reading DEF Received
<1>4. CASE /\ m.got # None /\ UNCHANGED refreshLock /\ generations' = generations + 1
           /\ Update(p, new(m), l(m))
  <2>1. m.got \in Known
    BY <1>2, <1>4 DEF Posts
  <2>2. Owner(m.got) \in Accounts
    BY <2>1, CliAssumption DEF Owner, TypeOK
  <2>3. new(m) \in States
    BY <2>1, <2>2, Reading DEF States
  <2>4. Fresh(proc[p].cmd) \in Locals
    BY Reading, FreshTypes DEF Locals
  <2>5. l(m) \in Locals
    BY <2>1, <2>3, <2>4, StepNames DEF Locals
  <2>6. Prepared([l(m) EXCEPT !.pc = "sync"])
    BY <1>4, <2>4, <2>5 DEF Prepared, Locals
  <2>7. generations' \in Nat
    BY <1>4, Reading
  <2> HIDE DEF l, new
  <2>8. PICK w \in Workers : Moved(p, file', disk', w) /\ file' = new(m) /\ disk' = disk
    BY <1>4, <2>5, <2>6, <2>7, TypeUpdate
  <2> QED  BY <1>1, <1>2, <2>3, <2>8, TypePosts, Reading DEF Received
<1> QED  BY <1>1, <1>3, <1>4

LEMMA TypePowerLoss ==
  ASSUME TypeOK, PowerLoss, UNCHANGED backendVars
  PROVE  TypeOK'
<1>1. Known' = Known /\ States' = States /\ Locals' = Locals /\ Workers' = Workers /\ Posts' = Posts
  BY DEF Known, States, Locals, Workers, Posts, backendVars
<1>2. proc' \in [Procs -> Workers]
  BY FreshTypes DEF PowerLoss, TypeOK
<1> QED  BY <1>1, <1>2 DEF TypeOK, PowerLoss, backendVars

(* The backend hands out more credentials. *)
LEMMA KnownGrows ==
  ASSUME TypeOK, minted' \in Credentials, minted <= minted'
  PROVE  Known \subseteq Known' /\ States \subseteq States' /\ Workers \subseteq Workers' /\ Posts \subseteq Posts'
<1>1. Known \subseteq Known'
  BY CliAssumption DEF TypeOK, Known, Credentials
<1>2. States \subseteq States'
  BY <1>1 DEF States
<1>3. Locals \subseteq Locals'
  BY <1>1, <1>2 DEF Locals
<1>4. Posts \subseteq Posts'
  BY <1>1 DEF Posts
<1>5. Workers \subseteq Workers'
  BY <1>3 DEF Workers
<1> QED  BY <1>2, <1>1, <1>4, <1>5

LEMMA TypeBackend ==
  ASSUME TypeOK, NEW m \in posts,
         BackendClaim(m) \/ BackendRefuses(m) \/ AccountsRedeems(m), UNCHANGED cliVars
  PROVE  TypeOK'
<1>1. m \in Posts /\ minted \in Nat /\ m.token \in Tokens
  BY CliAssumption DEF TypeOK, Posts, Credentials, Known, Tokens
<1>2. minted' \in Credentials /\ minted <= minted'
  BY <1>1, CliAssumption DEF TypeOK, BackendClaim, BackendRefuses, AccountsRedeems, Credentials
<1>3. Known \subseteq Known' /\ States \subseteq States' /\ Workers \subseteq Workers' /\ Posts \subseteq Posts'
  BY <1>2, KnownGrows
<1>4. \A stage \in {"claimed", "answered"}, got \in Known' \cup {None} : Advance(m, stage, got) \subseteq Posts'
  <2> SUFFICES ASSUME NEW stage \in {"claimed", "answered"}, NEW got \in Known' \cup {None}
               PROVE  Advance(m, stage, got) \subseteq Posts'
    OBVIOUS
  <2>1. [m EXCEPT !.stage = stage, !.got = got] \in Posts'
    BY <1>1, <1>3 DEF Posts
  <2> QED  BY <1>3, <2>1 DEF Advance, TypeOK
<1>5. posts' \subseteq Posts'
  <2>1. minted < MaxCredentials /\ minted' = minted + 1 => minted + 1 \in Known'
    BY <1>1 DEF Known
  <2> QED  BY <1>4, <2>1 DEF BackendClaim, BackendRefuses, AccountsRedeems
<1>6. claimed' \subseteq Slts \cup Known' /\ sent' \subseteq Known'
  BY <1>1, <1>3 DEF TypeOK, BackendClaim, BackendRefuses, AccountsRedeems, Posts
<1>7. submissions' \in [Tokens -> Nat]
  BY <1>1 DEF TypeOK, BackendClaim, BackendRefuses, AccountsRedeems
<1>8. grant' \in [Credentials -> Grants \cup {None}] /\ \A c \in Known' : grant'[c] \in Grants
  <2>1. CASE UNCHANGED <<minted, grant>>
    BY <2>1 DEF TypeOK, Known
  <2>2. CASE /\ minted < MaxCredentials /\ minted' = minted + 1
             /\ grant' = [grant EXCEPT ![minted + 1] = IF m.token \in Slts THEN m.token ELSE grant[m.token]]
    <3>1. (IF m.token \in Slts THEN m.token ELSE grant[m.token]) \in Grants
      BY <1>1 DEF TypeOK, Posts, Grants
    <3>2. \A c \in Known' : c \in Known \/ c = minted + 1
      BY <2>2, <1>1 DEF Known
    <3>3. minted + 1 \in Credentials
      BY <1>1, <2>2, CliAssumption DEF Credentials
    <3> QED  BY <2>2, <3>1, <3>2, <3>3 DEF TypeOK
  <2> QED  BY <2>1, <2>2 DEF BackendClaim, BackendRefuses, AccountsRedeems
<1> QED  BY <1>2, <1>3, <1>5, <1>6, <1>7, <1>8 DEF TypeOK, cliVars

(* A state is not None. *)
LEMMA StatesAreSome == TypeOK => None \notin States
<1>1. TypeOK => Known \subseteq Credentials
  BY CliAssumption DEF TypeOK, Known, Credentials
<1> QED  BY <1>1, CliAssumption DEF States

(* Before the partition is opened nobody has begun; afterwards it stays. *)
LEMMA UnopenedNext ==
  ASSUME TypeOK, Unopened, [Next]_vars
  PROVE  Unopened'
<1> DEFINE There == file' # None /\ disk' # None
<1>0. None \notin States
  BY StatesAreSome
<1>1. CASE UNCHANGED vars
  BY <1>1 DEF vars, cliVars, backendVars, Unopened, At
<1> SUFFICES ASSUME Next PROVE There
  BY <1>1 DEF Unopened
<1>2. ASSUME NEW p \in Procs, Open(p) PROVE There
  BY <1>0, <1>2, TypeOpen DEF Open, Unopened
<1>3. ASSUME file = None, ~\E p \in Procs : Open(p) PROVE FALSE
  <2>1. posts = {} /\ \A p \in Procs : proc[p].pc = "idle" /\ refreshLock # p
    BY <1>3, CliAssumption DEF Unopened, At
  <2>2. ASSUME NEW p \in Procs, Local(p) PROVE FALSE
    <3>1. ~NameGeneration(p) /\ ~Sync(p) /\ ~Check(p) /\ ~LockExpired(p) /\ ~LockRejected(p)
      BY <2>1 DEF NameGeneration, Sync, Check, LockExpired, LockRejected, At
    <3>2. ~Claim(p) /\ ~Apply(p) /\ ~Served(p) /\ ~Rejected(p) /\ ~Attach(p) /\ ~Logout(p)
      BY <2>1 DEF Claim, Apply, Served, Rejected, Attach, Logout, At
    <3>3. ~Prompt(p) /\ ~GiveUp(p)
      BY <2>1 DEF Prompt, GiveUp, Running
    <3> QED  BY <1>3, <2>2, <3>1, <3>2, <3>3 DEF Local
  <2>3. ASSUME NEW p \in Procs, Send(p) \/ Answered(p) \/ Exchange(p) \/ SignIn(p) PROVE FALSE
    BY <2>1, <2>3 DEF Send, Answered, Exchange, SignIn, At
  <2>4. ~PowerLoss /\ ~Backend
    BY <2>1 DEF PowerLoss, Running, Backend
  <2> QED  BY <2>2, <2>3, <2>4 DEF Next
<1>4. ASSUME file # None PROVE There
  <2>0. file \in States /\ disk \in States /\ disk # None
    BY <1>4 DEF Unopened, TypeOK
  <2>1. ASSUME NEW p \in Procs, Local(p) PROVE There
    BY <1>0, <1>2, <2>0, <2>1, TypeName, TypeSync, TypeCheck, TypeLockExpired, TypeLockRejected,
       TypeClaim, TypeApply, TypeServed, TypeRejected, TypePrompt, TypeAttach, TypeLogout DEF Local, GiveUp
  <2>2. ASSUME NEW p \in Procs, Send(p) \/ Answered(p) \/ Exchange(p) PROVE There
    BY <2>0, <2>2, <1>4 DEF Send, Answered, Exchange
  <2>3. ASSUME NEW p \in Procs, SignIn(p) PROVE There
    <3> DEFINE new(m) == [access |-> m.got, refresh |-> m.got, gen |-> generations + 1, ident |-> Owner(m.got)]
    <3>1. CASE UNCHANGED <<file, disk>>
      BY <2>0, <3>1, <1>4
    <3>2. CASE disk' = disk /\ \E m \in posts : m.got # None /\ file' = new(m)
      <4>1. PICK m \in posts : m.got # None /\ file' = new(m)
        BY <3>2
      <4>2. m.got \in Known
        BY <4>1 DEF TypeOK, Posts
      <4>3. Owner(m.got) \in Accounts /\ generations + 1 \in Nat
        BY <4>2, CliAssumption DEF Owner, TypeOK
      <4>4. new(m) \in States
        BY <4>2, <4>3 DEF States
      <4> QED  BY <1>0, <2>0, <3>2, <4>1, <4>4
    <3> QED  BY <2>3, <3>1, <3>2 DEF SignIn, Update, Answer
  <2>4. CASE PowerLoss
    BY <2>0, <2>4 DEF PowerLoss
  <2>5. CASE UNCHANGED cliVars
    BY <2>0, <2>5, <1>4 DEF cliVars
  <2> QED  BY <2>1, <2>2, <2>3, <2>4, <2>5 DEF Next
<1> QED  BY <1>2, <1>3, <1>4

LEMMA TypeNext ==
  ASSUME TypeOK, Unopened, [Next]_vars
  PROVE  TypeOK'
<1>1. CASE UNCHANGED vars
  BY <1>1 DEF vars, cliVars, backendVars, TypeOK, Known, States, Locals, Workers, Posts
<1>2. ASSUME Next PROVE TypeOK'
  BY <1>2, TypeLocal, TypePowerLoss, TypeSend, TypeAnswered, TypeExchange, TypeSignIn, TypeBackend DEF Next, Backend
<1> QED  BY <1>1, <1>2

(* The state files, the commands, the requests on their way and what Accounts *)
(* has handed out always have their types, and every command has at hand what *)
(* its next step needs.                                                       *)
THEOREM TypeCorrect == Spec => [](TypeOK /\ Unopened)
<1>1. Init => TypeOK /\ Unopened
  BY TypeInit
<1>2. TypeOK /\ Unopened /\ [Next]_vars => (TypeOK /\ Unopened)'
  BY TypeNext, UnopenedNext
<1> QED  BY <1>1, <1>2, PTL DEF Spec

-----------------------------------------------------------------------------
(* One submission. *)

(* Posts as a step leaves them: some are gone, the rest as they were. *)
LEMMA OnceFewer ==
  ASSUME OnceInv, UNCHANGED <<claimed, submissions>>,
         \A m \in posts' : m.stage = "claimed" => m \in posts
  PROVE  OnceInv'
  BY DEF OnceInv, SubmittedOnce

LEMMA OnceNext ==
  ASSUME TypeOK, OnceInv, [Next]_vars
  PROVE  OnceInv'
<1>1. CASE UNCHANGED backendVars
  BY <1>1, OnceFewer DEF backendVars
<1>2. ASSUME NEW p \in Procs, NEW t, posts' = posts \cup {Posted(p, t)}, UNCHANGED <<claimed, submissions>>
      PROVE  OnceInv'
  BY <1>2, OnceFewer DEF Posted
<1>3. ASSUME NEW m, Received(m) PROVE OnceInv'
  BY <1>3, OnceFewer DEF Received
<1>4. ASSUME NEW m \in posts, BackendRefuses(m) PROVE OnceInv'
  <2>1. m \in Posts
    BY DEF TypeOK
  <2>2. [m EXCEPT !.stage = "answered", !.got = None].stage = "answered"
    BY <2>1 DEF Posts
  <2> QED  BY <1>4, <2>2, OnceFewer DEF BackendRefuses, Advance
<1>5. ASSUME NEW m \in posts, BackendClaim(m) PROVE OnceInv'
  <2> DEFINE n == [m EXCEPT !.stage = "claimed", !.got = None]
  <2>1. m \in Posts /\ m.token \in Tokens
    BY CliAssumption DEF TypeOK, Posts, Tokens, Known, Credentials
  <2>2. n.stage = "claimed" /\ n.token = m.token
    BY <2>1 DEF Posts
  <2>3. posts' = (posts \ {m}) \cup {n}
    BY <1>5 DEF BackendClaim, Advance
  <2> HIDE DEF n
  <2>4. submissions[m.token] = 0
    BY <1>5, <2>1 DEF OnceInv, BackendClaim
  <2> QED  BY <1>5, <2>2, <2>3, <2>4 DEF OnceInv, SubmittedOnce, BackendClaim
<1>6. ASSUME NEW m \in posts, AccountsRedeems(m) PROVE OnceInv'
  <2>1. m \in Posts /\ m.token \in Tokens
    BY CliAssumption DEF TypeOK, Posts, Tokens, Known, Credentials
  <2>2. \A got : [m EXCEPT !.stage = "answered", !.got = got].stage = "answered"
    BY <2>1 DEF Posts
  <2>3. \A n \in posts' : n.stage = "claimed" => n \in posts /\ n # m
    BY <1>6, <2>2 DEF AccountsRedeems, Advance
  <2>4. submissions[m.token] = 0 /\ m.token \in claimed /\ claimed' = claimed
    BY <1>6 DEF AccountsRedeems, OnceInv
  <2>5. submissions' = [submissions EXCEPT ![m.token] = 1]
    BY <1>6, <2>4 DEF AccountsRedeems
  <2>6. \A n \in posts' : n.stage = "claimed" => n.token # m.token
    BY <1>6, <2>3 DEF OnceInv, AccountsRedeems
  <2> QED  BY <2>1, <2>3, <2>4, <2>5, <2>6 DEF OnceInv, SubmittedOnce, TypeOK
<1>7. CASE Backend /\ UNCHANGED cliVars
  BY <1>4, <1>5, <1>6, <1>7 DEF Backend
<1>8. ASSUME NEW p \in Procs, Send(p) PROVE OnceInv'
  BY <1>2, <1>8 DEF Send
<1>9. ASSUME NEW p \in Procs, Exchange(p) PROVE OnceInv'
  BY <1>2, <1>9 DEF Exchange
<1>10. ASSUME NEW p \in Procs, Answered(p) \/ SignIn(p) PROVE OnceInv'
  BY <1>3, <1>10 DEF Answered, SignIn
<1> QED  BY <1>1, <1>7, <1>8, <1>9, <1>10 DEF Next, vars

(* Accounts is given a one-time credential at most once, by any number of    *)
(* commands and requests: the digest is claimed once, for one request, which *)
(* submits once (claim_token, login.rs).                                     *)
THEOREM SubmissionsAreSingle == Spec => []SubmittedOnce
<1>1. Init => OnceInv
  BY DEF Init, OnceInv, SubmittedOnce, Tokens
<1>2. TypeOK /\ OnceInv /\ [Next]_vars => OnceInv'
  BY OnceNext
<1>3. OnceInv => SubmittedOnce
  BY DEF OnceInv
<1>4. Spec => []TypeOK
  BY TypeCorrect, PTL
<1> QED  BY <1>1, <1>2, <1>3, <1>4, PTL DEF Spec

-----------------------------------------------------------------------------
(* What is stored was not sent. *)

Sending(l) == l.pc = "send" \/ (l.pc = "sync" /\ l.next = "send")
Rests(l) == ~Sending(l) /\ l.pc # "apply"
Others(p) == \A q \in Procs \ {p} : proc'[q] = proc[q]

(* A step of p that touches no token but to forget it. *)
Quiet(p) ==
  /\ Others(p) /\ Rests(proc'[p])
  /\ file' # None /\ disk' \in {file, disk}
  /\ file'.refresh \in {file.refresh, None}
  /\ posts' \subseteq posts /\ sent' = sent /\ minted' = minted

(* The tokens of a command and of the files are credentials. *)
LEMMA TokenTypes ==
  ASSUME TypeOK
  PROVE  /\ None \notin Known /\ None \notin sent
         /\ \A p \in Procs : Sending(proc[p]) => proc[p].cur.refresh \in Known
         /\ \A p \in Procs : At(p, "apply") => proc[p].got \in Known
         /\ \A m \in posts : m.got \in Known \cup {None}
         /\ \A s \in {file, disk} : s # None => s.refresh \in Known \cup {None}
<1>1. None \notin Known /\ None \notin sent
  <2>1. Known \subseteq Credentials
    BY CliAssumption DEF TypeOK, Known, Credentials
  <2> QED  BY <2>1, CliAssumption DEF TypeOK, Tokens
<1>2. ASSUME NEW p \in Procs PROVE Sending(proc[p]) => proc[p].cur.refresh \in Known
  <2>1. proc[p].cur \in States /\ Prepared(proc[p])
    BY Reading DEF Locals
  <2> QED  BY <2>1 DEF Sending, Prepared, States
<1>3. ASSUME NEW p \in Procs PROVE At(p, "apply") => proc[p].got \in Known
  BY Reading DEF Locals, Prepared, At
<1>4. \A m \in posts : m.got \in Known \cup {None}
  BY DEF TypeOK, Posts
<1>5. \A s \in {file, disk} : s # None => s.refresh \in Known \cup {None}
  BY DEF TypeOK, States
<1> QED  BY <1>1, <1>2, <1>3, <1>4, <1>5

LEMMA QuietKeeps ==
  ASSUME TypeOK, Unopened, TokensInv, file # None, NEW p \in Procs, Quiet(p)
  PROVE  TokensInv'
<1>1. Known' = Known /\ disk # None
  BY DEF Quiet, Known, Unopened
<1>2. \A c \in Known : Arriving(c)' => Arriving(c)
  BY DEF Quiet, Others, Rests, Arriving, At
<1>3. \A q \in Procs : Sending(proc'[q]) => q # p /\ proc'[q] = proc[q]
  BY DEF Quiet, Others, Rests
<1>4. \A q \in Procs : At(q, "apply")' => q # p /\ proc'[q] = proc[q]
  BY DEF Quiet, Others, Rests, At
<1>5. \A s \in {file, disk}' : s.refresh \in {file.refresh, disk.refresh, None}
  BY DEF Quiet
<1>6. TakenOut'
  <2> SUFFICES ASSUME NEW q \in Procs
               PROVE  /\ Claiming(q)' => file'.refresh # proc'[q].cur.refresh
                      /\ At(q, "send")' => \A s \in {file, disk}' : s.refresh # proc'[q].cur.refresh
    BY DEF TakenOut
  <2>1. CASE Sending(proc'[q])
    BY <1>3, <1>5, <2>1, TokenTypes DEF TokensInv, TakenOut, Claiming, At, Quiet
  <2>2. CASE ~Sending(proc'[q])
    BY <2>2 DEF Claiming, At, Sending
  <2> QED  BY <2>1, <2>2
<1>7. NewIsNew'
  <2> SUFFICES ASSUME NEW c \in Known, Arriving(c)'
               PROVE  /\ c \notin sent' /\ \A s \in {file, disk}' : s.refresh # c
                      /\ \A q \in Procs : Sending(proc'[q]) => proc'[q].cur.refresh # c
    BY <1>1 DEF NewIsNew, Sending, Claiming, At
  <2> QED  BY <1>2, <1>3, <1>5, TokenTypes DEF TokensInv, NewIsNew, Quiet, Claiming, At, Sending
<1>8. OneArrival'
  BY <1>4 DEF TokensInv, OneArrival, Quiet, At
<1>9. StoredRefreshUnsent'
  BY <1>1, <1>5, TokenTypes DEF TokensInv, StoredRefreshUnsent, Quiet
<1> QED  BY <1>6, <1>7, <1>8, <1>9 DEF TokensInv

(* The steps of a command that are quiet. *)
LEMMA EndingRests ==
  ASSUME TypeOK, NEW p \in Procs, Stop(p) \/ Refuse(p)
  PROVE  Others(p) /\ Rests(proc'[p])
<1>1. proc[p] \in Workers /\ proc \in [Procs -> Workers]
  BY DEF TypeOK
<1>2. CASE Stop(p)
  BY <1>1, <1>2 DEF Stop, Others, Rests, Sending, Ended, Idle, Fresh
<1>3. CASE Refuse(p)
  BY <1>1, <1>3 DEF Refuse, Others, Rests, Sending, Forgetful, Fresh
<1> QED  BY <1>2, <1>3

(* An update of the file rests, unless it takes a token out or puts one in. *)
LEMMA UpdateRests ==
  ASSUME TypeOK, NEW p \in Procs, NEW f, NEW l \in Locals, Update(p, f, l), l.next # "send"
  PROVE  Others(p) /\ Rests(proc'[p]) /\ file' = f /\ disk' = disk
<1>1. proc' = [proc EXCEPT ![p] = [l EXCEPT !.pc = "sync"]]
  BY DEF Update
<1>2. proc'[p] = [l EXCEPT !.pc = "sync"] /\ Others(p)
  BY <1>1, Reading DEF Others
<1>3. proc'[p].pc = "sync" /\ proc'[p].next = l.next
  BY <1>2 DEF Locals
<1> QED  BY <1>2, <1>3 DEF Update, Rests, Sending

LEMMA QuietLocal ==
  ASSUME TypeOK, Unopened, file # None, NEW p \in Procs, Local(p), UNCHANGED backendVars
  PROVE  \/ Quiet(p)
         \/ Claim(p) /\ file.refresh = proc[p].cur.refresh
            /\ Update(p, [file EXCEPT !.refresh = None], [proc[p] EXCEPT !.next = "send"])
         \/ Sync(p) /\ proc[p].next = "send"
         \/ Apply(p) /\ ~(Refuse(p) /\ UNCHANGED <<file, disk>>)
<1>0. /\ proc[p] \in Locals /\ Prepared(proc[p]) /\ proc \in [Procs -> Workers]
      /\ file \in States /\ disk \in States /\ disk # None
  BY Reading DEF TypeOK, Unopened
<1>a. posts' \subseteq posts /\ sent' = sent /\ minted' = minted
  BY DEF backendVars
<1>b. ASSUME Others(p), Rests(proc'[p]), UNCHANGED <<file, disk>> PROVE Quiet(p)
  BY <1>a, <1>b, <1>0 DEF Quiet
<1>c. ASSUME Stop(p) \/ Refuse(p), UNCHANGED <<file, disk>> PROVE Quiet(p)
  BY <1>b, <1>c, EndingRests
<1>d. ASSUME NEW l, proc' = [proc EXCEPT ![p] = l], Rests(l), UNCHANGED <<file, disk>> PROVE Quiet(p)
  BY <1>0, <1>b, <1>d DEF Others
<1>e. ASSUME NEW f \in States, f.refresh \in {file.refresh, None}, NEW l \in Locals, Update(p, f, l), l.next # "send"
      PROVE  Quiet(p)
  BY <1>a, <1>e, <1>0, UpdateRests, StatesAreSome DEF Quiet
<1>1. CASE Open(p)
  <2>1. PICK c \in {"setup", "call", "login", "logout"}, pc \in {"exchange", "logout", "name", "check"} :
          proc' = [proc EXCEPT ![p] = [Fresh(c) EXCEPT !.pc = pc, !.snap = file']]
    BY <1>1 DEF Open, Commands
  <2>2. Rests([Fresh(c) EXCEPT !.pc = pc, !.snap = file'])
    BY DEF Rests, Sending, Fresh
  <2> QED  BY <1>1, <2>1, <2>2, <1>d DEF Open
<1>2. CASE NameGeneration(p)
  <2> DEFINE latest == IF file.gen = None THEN [file EXCEPT !.gen = generations + 1] ELSE file
             l == [proc[p] EXCEPT !.snap = latest, !.next = "check"]
  <2>1. latest \in States /\ latest.refresh = file.refresh
    BY <1>0, Reading DEF States
  <2> HIDE DEF latest
  <2>2. l \in Locals /\ l.next # "send"
    BY <1>0, <2>1, StepNames DEF Locals
  <2>3. Update(p, latest, l)
    BY <1>2 DEF NameGeneration, latest
  <2> HIDE DEF l
  <2> QED  BY <2>1, <2>2, <2>3, <1>e
<1>3. CASE Sync(p) /\ proc[p].next # "send"
  <2>1. CASE proc[p].next = "done"
    BY <1>0, <1>3, <2>1, <1>a, EndingRests DEF Sync, Quiet
  <2>2. CASE proc[p].next # "done"
    <3> DEFINE l == [proc[p] EXCEPT !.pc = proc[p].next, !.next = "done"]
    <3>1. proc' = [proc EXCEPT ![p] = l]
      BY <1>3, <2>2, Reading DEF Sync
    <3>2. l.pc = proc[p].next /\ l.pc \in {"request", "check"}
      BY <1>0, <1>3, <2>2 DEF Prepared, Locals
    <3> HIDE DEF l
    <3>3. Rests(proc'[p]) /\ Others(p)
      BY <1>0, <3>1, <3>2 DEF Rests, Sending, Others
    <3> QED  BY <1>0, <1>3, <3>3, <1>a DEF Sync, Quiet
  <2> QED  BY <2>1, <2>2
<1>4. CASE Check(p)
  <2>1. CASE Refuse(p)
    BY <1>4, <2>1, <1>c DEF Check
  <2>2. ASSUME NEW b, proc' = [proc EXCEPT ![p].pc = "request", ![p].bearer = b] PROVE Quiet(p)
    <3>1. Others(p) /\ proc'[p].pc = "request"
      BY <1>0, <2>2 DEF Others, Locals
    <3> QED  BY <3>1, <1>4, <1>b DEF Check, Rests, Sending
  <2>3. CASE proc' = [proc EXCEPT ![p].pc = "lock"]
    <3>1. Others(p) /\ proc'[p].pc = "lock"
      BY <1>0, <2>3 DEF Others, Locals
    <3> QED  BY <3>1, <1>4, <1>b DEF Check, Rests, Sending
  <2> QED  BY <1>4, <2>1, <2>2, <2>3 DEF Check
<1>5. ASSUME NEW mode, NEW c, proc' = [proc EXCEPT ![p].pc = "claim", ![p].cur = c, ![p].mode = mode],
             UNCHANGED <<file, disk>>
      PROVE  Quiet(p)
  <2>1. Others(p) /\ proc'[p].pc = "claim"
    BY <1>0, <1>5 DEF Others, Locals
  <2> QED  BY <2>1, <1>5, <1>b DEF Rests, Sending
<1>6. CASE LockExpired(p)
  <2>1. CASE Refuse(p)
    BY <1>6, <2>1, <1>c DEF LockExpired
  <2>2. CASE proc' = [proc EXCEPT ![p].pc = "request", ![p].snap = file, ![p].bearer = file.access]
    <3>1. Others(p) /\ proc'[p].pc = "request"
      BY <1>0, <2>2 DEF Others, Locals
    <3> QED  BY <3>1, <1>6, <1>b DEF LockExpired, Rests, Sending
  <2> QED  BY <1>6, <2>1, <2>2, <1>5 DEF LockExpired
<1>7. CASE LockRejected(p)
  <2>1. CASE Refuse(p)
    BY <1>7, <2>1, <1>c DEF LockRejected
  <2>2. CASE proc' = [proc EXCEPT ![p].pc = "request", ![p].bearer = file.access, ![p].retried = TRUE]
    <3>1. Others(p) /\ proc'[p].pc = "request"
      BY <1>0, <2>2 DEF Others, Locals
    <3> QED  BY <3>1, <1>7, <1>b DEF LockRejected, Rests, Sending
  <2> QED  BY <1>7, <2>1, <2>2, <1>5 DEF LockRejected
<1>8. CASE Claim(p)
  BY <1>8, <1>c DEF Claim
<1>9. CASE Apply(p) /\ Refuse(p) /\ UNCHANGED <<file, disk>>
  BY <1>9, <1>c
<1>10. CASE Served(p)
  <2>1. CASE Refuse(p) \/ Stop(p)
    BY <1>10, <2>1, <1>c DEF Served
  <2>2. CASE proc' = [proc EXCEPT ![p].pc = "attach"]
    <3>1. Others(p) /\ proc'[p].pc = "attach"
      BY <1>0, <2>2 DEF Others, Locals
    <3> QED  BY <3>1, <1>10, <1>b DEF Served, Rests, Sending
  <2>3. CASE proc' = [proc EXCEPT ![p].asked = @ + 1, ![p].retried = FALSE]
    <3>1. Others(p) /\ proc'[p].pc = "request"
      BY <1>0, <1>10, <2>3 DEF Others, Locals, Served, At
    <3> QED  BY <3>1, <1>10, <1>b DEF Served, Rests, Sending
  <2> QED  BY <1>10, <2>1, <2>2, <2>3 DEF Served
<1>11. CASE Rejected(p)
  <2>1. CASE Refuse(p)
    BY <1>11, <2>1, <1>c DEF Rejected
  <2>2. CASE proc' = [proc EXCEPT ![p].pc = "recover"]
    <3>1. Others(p) /\ proc'[p].pc = "recover"
      BY <1>0, <2>2 DEF Others, Locals
    <3> QED  BY <3>1, <1>11, <1>b DEF Rejected, Rests, Sending
  <2> QED  BY <1>11, <2>1, <2>2 DEF Rejected
<1>12. CASE Prompt(p)
  <2>1. Rests([Fresh("setup") EXCEPT !.pc = "exchange"])
    BY DEF Rests, Sending, Fresh
  <2> QED  BY <1>12, <2>1, <1>d DEF Prompt
<1>13. CASE Attach(p)
  <2>1. CASE Stop(p) /\ UNCHANGED <<file, disk, legacy>>
    BY <2>1, <1>c
  <2>2. CASE Update(p, [file EXCEPT !.ident = Owner(proc[p].bearer)], proc[p])
    <3> DEFINE f == [file EXCEPT !.ident = Owner(proc[p].bearer)]
    <3>1. f.refresh = file.refresh
      BY <1>0 DEF States
    <3>2. Others(p) /\ Rests(proc'[p]) /\ file' = f /\ disk' = disk
      BY <1>0, <1>13, <2>2, UpdateRests DEF Attach, At, Prepared
    <3>3. file' # None
      BY <1>13, TypeAttach, StatesAreSome
    <3> QED  BY <1>a, <3>1, <3>2, <3>3 DEF Quiet
  <2> QED  BY <1>13, <2>1, <2>2 DEF Attach
<1>14. CASE Logout(p)
  BY <1>0, <1>14, <1>e, FreshTypes DEF Logout, SignedOut, At, Prepared
<1>15. CASE GiveUp(p)
  BY <1>15, <1>c DEF GiveUp
<1> QED  BY <1>1, <1>2, <1>3, <1>4, <1>6, <1>7, <1>8, <1>9, <1>10, <1>11, <1>12, <1>13, <1>14, <1>15 DEF Local

(* The steps that touch tokens. *)
LEMMA OpenKeeps ==
  ASSUME TypeOK, Unopened, file = None, NEW p \in Procs, Open(p), UNCHANGED backendVars
  PROVE  TokensInv'
<1>1. posts' = {} /\ sent' = {} /\ \A q \in Procs : proc[q].pc = "idle"
  BY DEF Unopened, At, backendVars
<1>2. PICK c \in {"setup", "call", "login", "logout"}, pc \in {"exchange", "logout", "name", "check"} :
        proc' = [proc EXCEPT ![p] = [Fresh(c) EXCEPT !.pc = pc, !.snap = file']]
  BY DEF Open, Commands
<1>3. \A q \in Procs : proc'[q].pc \in {"idle", "exchange", "logout", "name", "check"}
  BY <1>1, <1>2, Reading DEF Fresh
<1> QED  BY <1>1, <1>3 DEF TokensInv, TakenOut, NewIsNew, OneArrival, StoredRefreshUnsent, Arriving, Claiming, At

LEMMA ClaimKeeps ==
  ASSUME TypeOK, Unopened, TokensInv, NEW p \in Procs, At(p, "claim"), UNCHANGED backendVars,
         file.refresh = proc[p].cur.refresh,
         Update(p, [file EXCEPT !.refresh = None], [proc[p] EXCEPT !.next = "send"])
  PROVE  TokensInv'
<1>1. file \in States /\ file # None /\ disk # None
  BY FileThere DEF At, Unopened
<1>2. file'.refresh = None /\ disk' = disk
  BY <1>1 DEF Update, States
<1>3. proc' = [proc EXCEPT ![p] = [[proc[p] EXCEPT !.next = "send"] EXCEPT !.pc = "sync"]]
  BY DEF Update
<1>4. /\ proc'[p].pc = "sync" /\ proc'[p].next = "send" /\ proc'[p].cur = proc[p].cur /\ Others(p)
      /\ proc[p].cur.refresh # None
  BY <1>3, Reading DEF Locals, Others, Prepared, At
<1>5. Known' = Known /\ posts' = posts /\ sent' = sent
  BY DEF backendVars, Known
<1>6. \A c \in Known : Arriving(c)' => Arriving(c)
  BY <1>4, <1>5 DEF Arriving, At, Others
<1>7. TakenOut'
  <2> SUFFICES ASSUME NEW q \in Procs
               PROVE  /\ Claiming(q)' => file'.refresh # proc'[q].cur.refresh
                      /\ At(q, "send")' => \A s \in {file, disk}' : s.refresh # proc'[q].cur.refresh
    BY DEF TakenOut
  <2>1. CASE q = p
    BY <1>2, <1>4, <2>1 DEF Claiming, At
  <2>2. CASE q # p
    <3>1. proc'[q] = proc[q]
      BY <1>4, <2>2 DEF Others
    <3>2. Sending(proc[q]) => proc[q].cur.refresh # None
      BY TokenTypes
    <3> QED  BY <1>2, <3>1, <3>2 DEF TokensInv, TakenOut, Claiming, At, Sending
  <2> QED  BY <2>1, <2>2
<1>8. NewIsNew'
  <2> SUFFICES ASSUME NEW c \in Known, Arriving(c)'
               PROVE  /\ c \notin sent' /\ \A s \in {file, disk}' : s.refresh # c
                      /\ \A q \in Procs : Sending(proc'[q]) => proc'[q].cur.refresh # c
    BY <1>5 DEF NewIsNew, Sending, Claiming, At
  <2>1. Arriving(c) /\ c # None
    BY <1>6, TokenTypes
  <2>2. file.refresh # c /\ disk.refresh # c /\ c \notin sent
    BY <2>1 DEF TokensInv, NewIsNew
  <2>3. \A q \in Procs \ {p} : Sending(proc'[q]) => proc'[q].cur.refresh # c
    BY <1>4, <2>1 DEF TokensInv, NewIsNew, Others, Sending, Claiming, At
  <2> QED  BY <1>2, <1>4, <1>5, <2>1, <2>2, <2>3
<1>9. OneArrival'
  BY <1>4, <1>5 DEF TokensInv, OneArrival, Others, At
<1>10. StoredRefreshUnsent'
  BY <1>1, <1>2, <1>5, TokenTypes DEF TokensInv, StoredRefreshUnsent
<1> QED  BY <1>7, <1>8, <1>9, <1>10 DEF TokensInv

LEMMA SyncKeeps ==
  ASSUME TypeOK, Unopened, TokensInv, NEW p \in Procs, Sync(p), proc[p].next = "send", UNCHANGED backendVars
  PROVE  TokensInv'
<1>1. file # None /\ file' = file /\ disk' = file
  BY FileThere DEF Sync, At
<1>2. proc' = [proc EXCEPT ![p].pc = "send", ![p].next = "done"]
  BY DEF Sync
<1>3. proc'[p].pc = "send" /\ proc'[p].cur = proc[p].cur /\ Others(p) /\ Claiming(p)
  BY <1>2, Reading DEF Locals, Others, Sync, Claiming
<1>4. Known' = Known /\ posts' = posts /\ sent' = sent
  BY DEF backendVars, Known
<1>5. \A c \in Known : Arriving(c)' => Arriving(c)
  BY <1>3, <1>4 DEF Arriving, At, Others
<1>6. \A q \in Procs : Sending(proc'[q]) => Sending(proc[q]) /\ proc'[q].cur = proc[q].cur
  BY <1>3 DEF Others, Sending, Claiming, At
<1>7. TakenOut'
  BY <1>1, <1>6 DEF TokensInv, TakenOut, Claiming, At, Sending
<1>8. NewIsNew'
  BY <1>1, <1>4, <1>5, <1>6 DEF TokensInv, NewIsNew, Claiming, At, Sending
<1>9. OneArrival'
  BY <1>3, <1>4 DEF TokensInv, OneArrival, Others, At
<1>10. StoredRefreshUnsent'
  BY <1>1, <1>4 DEF TokensInv, StoredRefreshUnsent
<1> QED  BY <1>7, <1>8, <1>9, <1>10 DEF TokensInv

LEMMA SendKeeps ==
  ASSUME TypeOK, Unopened, TokensInv, NEW p \in Procs, Send(p)
  PROVE  TokensInv'
<1> DEFINE token == proc[p].cur.refresh
<1>1. file # None /\ disk # None /\ file' = file /\ disk' = disk
  BY FileThere DEF Send, At, Unopened
<1>2. proc'[p].pc = "await" /\ Others(p)
  BY Reading DEF Send, Others, Locals
<1>3. Known' = Known /\ posts' = posts \cup {Posted(p, token)} /\ sent' = sent \cup {token}
  BY DEF Send, Known
<1>4. Posted(p, token).got = None /\ None \notin Known
  BY TokenTypes DEF Posted
<1>5. \A c \in Known : Arriving(c)' => Arriving(c)
  BY <1>2, <1>3, <1>4 DEF Arriving, At, Others
<1>6. \A q \in Procs : Sending(proc'[q]) => q # p /\ proc'[q] = proc[q]
  BY <1>2 DEF Others, Sending
<1>7. TakenOut'
  BY <1>1, <1>6 DEF TokensInv, TakenOut, Claiming, At, Sending
<1>8. NewIsNew'
  <2> SUFFICES ASSUME NEW c \in Known, Arriving(c)'
               PROVE  /\ c \notin sent' /\ \A s \in {file, disk}' : s.refresh # c
                      /\ \A q \in Procs : Sending(proc'[q]) => proc'[q].cur.refresh # c
    BY <1>3 DEF NewIsNew, Sending, Claiming, At
  <2>1. token # c
    BY <1>5 DEF TokensInv, NewIsNew, Send
  <2> QED  BY <1>1, <1>3, <1>5, <1>6, <2>1 DEF TokensInv, NewIsNew, Sending, Claiming, At
<1>9. OneArrival'
  <2>1. \A m \in posts' : m.got # None => m \in posts
    BY <1>3, <1>4
  <2>2. \A q \in Procs : At(q, "apply")' => At(q, "apply") /\ proc'[q] = proc[q] /\ proc[q].got # None
    BY <1>2, TokenTypes DEF At, Others
  <2> QED  BY <2>1, <2>2 DEF TokensInv, OneArrival
<1>10. StoredRefreshUnsent'
  BY <1>1, <1>3 DEF TokensInv, StoredRefreshUnsent, TakenOut, Send
<1> QED  BY <1>7, <1>8, <1>9, <1>10 DEF TokensInv

LEMMA ExchangeKeeps ==
  ASSUME TypeOK, Unopened, TokensInv, NEW p \in Procs, Exchange(p)
  PROVE  TokensInv'
<1>1. file # None /\ disk # None /\ file' = file /\ disk' = disk
  BY FileThere DEF Exchange, At, Unopened
<1>2. PICK t \in Slts : /\ posts' = posts \cup {Posted(p, t)}
                        /\ proc' = [proc EXCEPT ![p].pc = "awaitSignIn", ![p].token = t]
  BY DEF Exchange
<1>3. proc'[p].pc = "awaitSignIn" /\ Others(p)
  BY <1>2, Reading DEF Others, Locals
<1>4. Known' = Known /\ sent' = sent /\ Posted(p, t).got = None /\ None \notin Known
  BY TokenTypes DEF Exchange, Known, Posted
<1>5. \A c \in Known : Arriving(c)' => Arriving(c)
  BY <1>2, <1>3, <1>4 DEF Arriving, At, Others
<1>6. \A q \in Procs : Sending(proc'[q]) => proc'[q] = proc[q]
  BY <1>3 DEF Others, Sending
<1>7. TakenOut'
  BY <1>1, <1>6 DEF TokensInv, TakenOut, Claiming, At, Sending
<1>8. NewIsNew'
  BY <1>1, <1>4, <1>5, <1>6 DEF TokensInv, NewIsNew, Claiming, At, Sending
<1>9. OneArrival'
  <2>1. \A m \in posts' : m.got # None => m \in posts
    BY <1>2, <1>4
  <2>2. \A q \in Procs : At(q, "apply")' => At(q, "apply") /\ proc'[q] = proc[q] /\ proc[q].got # None
    BY <1>3, TokenTypes DEF At, Others
  <2> QED  BY <2>1, <2>2 DEF TokensInv, OneArrival
<1>10. StoredRefreshUnsent'
  BY <1>1, <1>4 DEF TokensInv, StoredRefreshUnsent
<1> QED  BY <1>7, <1>8, <1>9, <1>10 DEF TokensInv

(* The answer of a refresh goes from its post to the command. *)
LEMMA AnsweredKeeps ==
  ASSUME TypeOK, Unopened, TokensInv, NEW p \in Procs, Answered(p)
  PROVE  TokensInv'
<1>1. file # None /\ disk # None /\ file' = file /\ disk' = disk
  BY FileThere DEF Answered, At, Unopened
<1>2. PICK m \in Answer(p, proc[p].cur.refresh) :
        /\ Received(m)
        /\ \/ Refuse(p)
           \/ /\ m.got # None
              /\ proc' = [proc EXCEPT ![p].pc = "apply", ![p].got = m.got]
  BY DEF Answered
<1>3. Known' = Known /\ sent' = sent /\ minted' = minted /\ posts' = posts \ {m} /\ m \in posts
  BY <1>2 DEF Received, Known, Answer
<1>4. CASE Refuse(p)
  <2>1. Quiet(p)
    BY <1>1, <1>3, <1>4, EndingRests DEF Quiet
  <2> QED  BY <1>1, <2>1, QuietKeeps
<1>5. CASE m.got # None /\ proc' = [proc EXCEPT ![p].pc = "apply", ![p].got = m.got]
  <2>1. proc'[p].pc = "apply" /\ proc'[p].got = m.got /\ Others(p)
    BY <1>5, Reading DEF Others, Locals
  <2>2. \A c \in Known : Arriving(c)' => Arriving(c)
    BY <1>3, <2>1 DEF Arriving, At, Others
  <2>3. \A q \in Procs : Sending(proc'[q]) => proc'[q] = proc[q]
    BY <2>1 DEF Others, Sending
  <2>4. TakenOut'
    BY <1>1, <2>3 DEF TokensInv, TakenOut, Claiming, At, Sending
  <2>5. NewIsNew'
    BY <1>1, <1>3, <2>2, <2>3 DEF TokensInv, NewIsNew, Claiming, At, Sending
  <2>6. OneArrival'
    <3>1. \A n \in posts' : n \in posts /\ n.got # m.got
      BY <1>3, <1>5 DEF TokensInv, OneArrival
    <3>2. \A q \in Procs \ {p} : At(q, "apply")' => At(q, "apply") /\ proc'[q] = proc[q] /\ proc[q].got # m.got
      BY <1>3, <2>1 DEF TokensInv, OneArrival, At, Others
    <3> QED  BY <2>1, <3>1, <3>2 DEF TokensInv, OneArrival, At
  <2>7. StoredRefreshUnsent'
    BY <1>1, <1>3 DEF TokensInv, StoredRefreshUnsent
  <2> QED  BY <2>4, <2>5, <2>6, <2>7 DEF TokensInv
<1> QED  BY <1>2, <1>4, <1>5

(* A new credential is stored and is in no answer any more. *)
LEMMA StoreKeeps ==
  ASSUME TypeOK, Unopened, TokensInv, NEW p \in Procs, NEW c \in Known, Arriving(c),
         file # None, file' # None, disk' = disk, file'.refresh = c,
         Others(p), Rests(proc'[p]), posts' \subseteq posts, sent' = sent, minted' = minted,
         ~Arriving(c)'
  PROVE  TokensInv'
<1>1. Known' = Known /\ disk # None
  BY DEF Known, Unopened
<1>2. \A d \in Known : Arriving(d)' => Arriving(d) /\ d # c
  BY DEF Arriving, At, Others, Rests
<1>3. \A q \in Procs : Sending(proc'[q]) => q # p /\ proc'[q] = proc[q] /\ proc[q].cur.refresh # c
  BY DEF Others, Rests, TokensInv, NewIsNew, Sending, Claiming, At
<1>4. TakenOut'
  BY <1>3 DEF TokensInv, TakenOut, Claiming, At, Sending
<1>5. NewIsNew'
  BY <1>1, <1>2, <1>3 DEF TokensInv, NewIsNew, Claiming, At, Sending
<1>6. OneArrival'
  BY DEF TokensInv, OneArrival, At, Others, Rests
<1>7. StoredRefreshUnsent'
  BY <1>1 DEF TokensInv, StoredRefreshUnsent, NewIsNew
<1> QED  BY <1>4, <1>5, <1>6, <1>7 DEF TokensInv

LEMMA ApplyKeeps ==
  ASSUME TypeOK, Unopened, TokensInv, NEW p \in Procs, Apply(p), ~(Refuse(p) /\ UNCHANGED <<file, disk>>),
         UNCHANGED backendVars
  PROVE  TokensInv'
<1>0. PICK c \in Known : c = proc[p].got
  BY TokenTypes DEF Apply
<1> DEFINE renewed == [file EXCEPT !.access = c, !.refresh = c,
                         !.ident = IF proc[p].mode = "expiry" THEN Owner(c) ELSE file.ident]
           client == IF proc[p].mode = "expiry"
                     THEN [Forgetful(proc[p]) EXCEPT !.snap = renewed, !.bearer = c, !.next = "request"]
                     ELSE [Forgetful(proc[p]) EXCEPT !.snap = proc[p].snap, !.bearer = c, !.retried = TRUE, !.next = "request"]
<1>1. Update(p, renewed, client)
  BY <1>0 DEF Apply
<1>2. file \in States /\ file # None
  BY FileThere DEF Apply, At
<1>3. renewed.refresh = c
  BY <1>2 DEF States
<1>4. file' = renewed /\ disk' = disk /\ file' # None
  BY <1>1, TypeApply, StatesAreSome DEF Update
<1>5. proc'[p] = [client EXCEPT !.pc = "sync"] /\ Others(p)
  BY <1>1, Reading DEF Update, Others
<1>6. client.next = "request" /\ DOMAIN client = DOMAIN Idle
  BY DEF Forgetful, Fresh, Idle
<1>7. proc'[p].pc = "sync" /\ proc'[p].next = "request"
  BY <1>5, <1>6 DEF Idle, Fresh
<1>8. Arriving(c) /\ ~Arriving(c)'
  <2>1. Arriving(c)
    BY <1>0 DEF Arriving, Apply
  <2>2. \A m \in posts : m.got # c
    BY <1>0 DEF TokensInv, OneArrival, Apply
  <2>3. \A q \in Procs : At(q, "apply")' => q # p /\ At(q, "apply") /\ proc'[q] = proc[q] /\ proc[q].got # c
    <3> SUFFICES ASSUME NEW q \in Procs, At(q, "apply")'
                 PROVE  q # p /\ At(q, "apply") /\ proc'[q] = proc[q] /\ proc[q].got # c
      OBVIOUS
    <3>1. q # p
      BY <1>7 DEF At
    <3>2. proc'[q] = proc[q]
      BY <1>5, <3>1 DEF Others
    <3>3. At(p, "apply") /\ At(q, "apply")
      BY <3>2 DEF At, Apply
    <3> QED  BY <1>0, <3>1, <3>2, <3>3 DEF TokensInv, OneArrival
  <2> QED  BY <2>1, <2>2, <2>3 DEF Arriving, backendVars
<1> HIDE DEF renewed, client
<1> QED  BY <1>2, <1>3, <1>4, <1>5, <1>7, <1>8, StoreKeeps DEF Rests, Sending, backendVars

LEMMA SignInKeeps ==
  ASSUME TypeOK, Unopened, TokensInv, NEW p \in Procs, SignIn(p)
  PROVE  TokensInv'
<1> DEFINE new(m) == [access |-> m.got, refresh |-> m.got, gen |-> generations + 1, ident |-> Owner(m.got)]
           l(m) == [Fresh(proc[p].cmd) EXCEPT !.snap = new(m), !.bearer = m.got, !.exchanged = TRUE,
                     !.next = IF proc[p].cmd = "login" THEN "done" ELSE "request"]
<1>1. PICK m \in Answer(p, proc[p].token) :
        /\ Received(m)
        /\ \/ Stop(p) /\ UNCHANGED <<file, disk, legacy, generations>>
           \/ m.got # None /\ Update(p, new(m), l(m))
  BY SignInShape DEF Renewed, Entered
<1>2. posts' = posts \ {m} /\ sent' = sent /\ minted' = minted /\ m \in posts /\ file # None
  BY <1>1, FileThere DEF Received, Answer, SignIn, At
<1>3. CASE Stop(p) /\ UNCHANGED <<file, disk, legacy, generations>>
  <2>1. Quiet(p)
    BY <1>2, <1>3, EndingRests DEF Quiet
  <2> QED  BY <1>2, <2>1, QuietKeeps
<1>4. CASE m.got # None /\ Update(p, new(m), l(m))
  <2>1. m.got \in Known
    BY <1>2, <1>4, TokenTypes
  <2>2. file' = new(m) /\ file'.refresh = m.got /\ disk' = disk
    BY <1>4 DEF Update
  <2>3. file' # None
    <3>1. Unopened'
      BY UnopenedNext DEF Next
    <3>2. ~At(p, "idle")'
      BY <1>4, Reading DEF Update, At, Fresh
    <3> QED  BY <3>1, <3>2 DEF Unopened
  <2>4. proc'[p] = [l(m) EXCEPT !.pc = "sync"] /\ Others(p)
    BY <1>4, Reading DEF Update, Others
  <2>5. proc'[p].pc = "sync" /\ proc'[p].next # "send"
    BY <2>4 DEF Fresh
  <2>6. Arriving(m.got) /\ ~Arriving(m.got)'
    <3>1. \A n \in posts' : n.got # m.got
      BY <1>2, <1>4 DEF TokensInv, OneArrival
    <3>2. \A q \in Procs : At(q, "apply")' => At(q, "apply") /\ proc'[q] = proc[q] /\ m.got # proc[q].got
      <4> SUFFICES ASSUME NEW q \in Procs, At(q, "apply")'
                   PROVE  At(q, "apply") /\ proc'[q] = proc[q] /\ m.got # proc[q].got
        OBVIOUS
      <4>1. q # p
        BY <2>5 DEF At
      <4>2. proc'[q] = proc[q] /\ At(q, "apply")
        BY <2>4, <4>1 DEF Others, At
      <4> QED
        BY <1>2, <4>2 DEF TokensInv, OneArrival
    <3> QED  BY <1>2, <3>1, <3>2 DEF Arriving
  <2> HIDE DEF l, new
  <2> QED  BY <1>2, <2>1, <2>2, <2>3, <2>4, <2>5, <2>6, StoreKeeps DEF Rests, Sending
<1> QED  BY <1>1, <1>3, <1>4

LEMMA PowerLossKeeps ==
  ASSUME TypeOK, Unopened, TokensInv, PowerLoss, UNCHANGED backendVars
  PROVE  TokensInv'
<1>1. file # None /\ disk # None
  BY DEF PowerLoss, Unopened, Running, At
<1>2. \A q \in Procs : proc'[q].pc \in {"done", "idle"}
  BY DEF PowerLoss, Running, Ended, Idle, Fresh
<1>3. \A c : Arriving(c)' => Arriving(c)
  BY <1>2 DEF Arriving, At, backendVars
<1>4. Known' = Known
  BY DEF Known, backendVars
<1> QED  BY <1>1, <1>2, <1>3, <1>4 DEF TokensInv, TakenOut, NewIsNew, OneArrival, StoredRefreshUnsent,
            PowerLoss, backendVars, Claiming, At

(* A post that goes on brings nothing. *)
LEMMA PostKeeps ==
  ASSUME TypeOK, TokensInv, UNCHANGED cliVars, sent' = sent, minted' = minted,
         \A n \in posts' : n.got # None => n \in posts
  PROVE  TokensInv'
<1>1. Known' = Known /\ None \notin Known
  BY TokenTypes DEF Known
<1>2. \A c \in Known : Arriving(c)' => Arriving(c)
  BY <1>1 DEF Arriving, At, cliVars
<1>3. NewIsNew'
  BY <1>1, <1>2 DEF TokensInv, NewIsNew, cliVars, Claiming, At
<1>4. OneArrival'
  <2>1. \A q \in Procs : At(q, "apply") => proc[q].got # None
    BY TokenTypes
  <2> QED  BY <2>1 DEF TokensInv, OneArrival, cliVars, At
<1> QED  BY <1>3, <1>4 DEF TokensInv, TakenOut, StoredRefreshUnsent, cliVars, Claiming, At

(* Or it brings a credential nobody has seen. *)
LEMMA MintKeeps ==
  ASSUME TypeOK, Unopened, TokensInv, file # None, UNCHANGED cliVars, sent' = sent,
         NEW new, new = minted + 1, minted' = new, new # None,
         NEW a, a.got \in {new, None}, \A n \in posts' : n \in posts \/ n = a
  PROVE  TokensInv'
<1>1. minted \in Nat /\ new \notin Known /\ Known' = Known \cup {new}
  BY CliAssumption DEF TypeOK, Credentials, Known
<1>2. \A c \in Known : Arriving(c)' => Arriving(c)
  BY <1>1, TokenTypes DEF Arriving, At, cliVars
<1>3. /\ new \notin sent /\ \A n \in posts : n.got # new
      /\ \A q \in Procs : At(q, "apply") => proc[q].got # new /\ proc[q].got # None
      /\ \A q \in Procs : Sending(proc[q]) => proc[q].cur.refresh # new
      /\ \A s \in {file, disk} : s.refresh # new
  <2>1. disk # None /\ sent \subseteq Known
    BY DEF Unopened, TypeOK
  <2> QED  BY <1>1, <2>1, TokenTypes
<1>4. NewIsNew'
  <2> SUFFICES ASSUME NEW c \in Known', Arriving(c)'
               PROVE  /\ c \notin sent /\ \A s \in {file, disk} : s.refresh # c
                      /\ \A q \in Procs : Sending(proc[q]) => proc[q].cur.refresh # c
    BY DEF NewIsNew, cliVars, Sending, Claiming, At
  <2>1. CASE c \in Known
    BY <1>2, <2>1 DEF TokensInv, NewIsNew, Sending, Claiming, At
  <2>2. CASE c = new
    BY <1>3, <2>2
  <2> QED  BY <1>1, <2>1, <2>2
<1>5. OneArrival'
  <2>1. \A m, n \in posts' : m.got # None /\ m.got = n.got => m = n
    BY <1>3 DEF TokensInv, OneArrival
  <2>2. \A m \in posts', q \in Procs : At(q, "apply") => m.got # proc[q].got
    BY <1>3 DEF TokensInv, OneArrival
  <2> QED  BY <2>1, <2>2 DEF TokensInv, OneArrival, cliVars, At
<1> QED  BY <1>4, <1>5 DEF TokensInv, TakenOut, StoredRefreshUnsent, cliVars, Claiming, At

LEMMA BackendKeeps ==
  ASSUME TypeOK, Unopened, TokensInv, NEW m \in posts,
         BackendClaim(m) \/ BackendRefuses(m) \/ AccountsRedeems(m), UNCHANGED cliVars
  PROVE  TokensInv'
<1>1. m \in Posts /\ file # None /\ minted \in Nat
  BY CliAssumption DEF TypeOK, Unopened, Credentials
<1>2. \A stage, got : [m EXCEPT !.stage = stage, !.got = got].got = got
  BY <1>1 DEF Posts
<1>3. ASSUME NEW stage, posts' = Advance(m, stage, None), minted' = minted, sent' = sent PROVE TokensInv'
  BY <1>2, <1>3, PostKeeps DEF Advance
<1>4. ASSUME minted < MaxCredentials, minted' = minted + 1, sent' = sent,
             NEW got \in {minted + 1, None}, posts' = Advance(m, "answered", got)
      PROVE  TokensInv'
  <2> DEFINE a == [m EXCEPT !.stage = "answered", !.got = got]
  <2>1. a.got \in {minted + 1, None}
    BY <1>2
  <2>2. \A n \in posts' : n \in posts \/ n = a
    BY <1>4 DEF Advance
  <2>3. minted + 1 # None
    <3>1. minted + 1 \in Credentials
      BY <1>1, <1>4, CliAssumption DEF Credentials
    <3> QED  BY <3>1, CliAssumption DEF Tokens
  <2> HIDE DEF a
  <2> QED  BY <1>1, <1>4, <2>1, <2>2, <2>3, MintKeeps
<1> QED  BY <1>3, <1>4 DEF BackendClaim, BackendRefuses, AccountsRedeems

LEMMA TokensNext ==
  ASSUME TypeOK, Unopened, TokensInv, [Next]_vars
  PROVE  TokensInv'
<1>1. CASE UNCHANGED vars
  BY <1>1, PostKeeps DEF vars, backendVars
<1>2. ASSUME NEW p \in Procs, Local(p), UNCHANGED backendVars PROVE TokensInv'
  <2>1. CASE file = None
    <3>1. Open(p)
      <4>1. proc[p].pc = "idle" /\ refreshLock # p
        BY <2>1, CliAssumption DEF Unopened, At
      <4>2. ~NameGeneration(p) /\ ~Sync(p) /\ ~Check(p) /\ ~LockExpired(p) /\ ~LockRejected(p)
        BY <4>1 DEF NameGeneration, Sync, Check, LockExpired, LockRejected, At
      <4>3. ~Claim(p) /\ ~Apply(p) /\ ~Served(p) /\ ~Rejected(p) /\ ~Attach(p) /\ ~Logout(p)
        BY <4>1 DEF Claim, Apply, Served, Rejected, Attach, Logout, At
      <4>4. ~Prompt(p) /\ ~GiveUp(p)
        BY <4>1 DEF Prompt, GiveUp, Running
      <4> QED  BY <1>2, <4>2, <4>3, <4>4 DEF Local
    <3> QED  BY <1>2, <2>1, <3>1, OpenKeeps
  <2>2. CASE file # None
    BY <1>2, <2>2, QuietLocal, QuietKeeps, ClaimKeeps, SyncKeeps, ApplyKeeps DEF Claim
  <2> QED  BY <2>1, <2>2
<1>3. CASE PowerLoss /\ UNCHANGED backendVars
  BY <1>3, PowerLossKeeps
<1>4. ASSUME NEW p \in Procs, Send(p) \/ Answered(p) \/ Exchange(p) \/ SignIn(p) PROVE TokensInv'
  BY <1>4, SendKeeps, AnsweredKeeps, ExchangeKeeps, SignInKeeps
<1>5. CASE Backend /\ UNCHANGED cliVars
  BY <1>5, BackendKeeps DEF Backend
<1> QED  BY <1>1, <1>2, <1>3, <1>4, <1>5 DEF Next

(* The refresh token that state.json offers, now or after a power loss, has   *)
(* never been sent: it is consumed durably first, and what an answer brings is *)
(* new (consume_refresh_token, set_tokens).                                    *)
THEOREM StoredTokensUnsent == Spec => []StoredRefreshUnsent
<1>1. Init => TokensInv
  BY DEF Init, TokensInv, TakenOut, NewIsNew, OneArrival, StoredRefreshUnsent, Arriving, Claiming, At, Idle, Fresh
<1>2. TypeOK /\ Unopened /\ TokensInv /\ [Next]_vars => TokensInv'
  BY TokensNext
<1>3. TokensInv => StoredRefreshUnsent
  BY DEF TokensInv
<1>4. Spec => [](TypeOK /\ Unopened)
  BY TypeCorrect
<1> QED  BY <1>1, <1>2, <1>3, <1>4, PTL DEF Spec

-----------------------------------------------------------------------------
(* Tokens, identities and generations. *)

(* A state that may become the stored one. *)
Fits(s) == OneSignIn(s) /\ \A t \in Remembered : SameGrant(s, t) /\ SameGrant(t, s)

LEMMA RememberedFits ==
  ASSUME GrantInv, NEW s \in Remembered
  PROVE  Fits(s) /\ (s.gen # None => s.gen <= generations)
  BY DEF GrantInv, Fits

LEMMA FileRemembered ==
  /\ file # None => file \in Remembered
  /\ disk # None => disk \in Remembered
  /\ \A p \in Procs : proc[p].snap \in Remembered /\ proc[p].cur \in Remembered
  BY DEF Remembered

(* After a step all that is remembered fits together, and so does what was *)
(* stored with what was remembered before.                                 *)
GrantKept == GrantInv' /\ (file' # None => Fits(file'))

(* A step of p, from what it stores and what it knows afterwards. *)
LEMMA GrantStep ==
  ASSUME TypeOK, GrantInv, NEW p \in Procs, Others(p), file' # None, disk' \in {file, disk, file'},
         Fits(file'), file'.gen # None => file'.gen <= generations',
         proc'[p].snap \in Remembered \cup {SignedOut, file'},
         proc'[p].cur \in Remembered \cup {SignedOut, file'},
         Faithful(proc'[p]), grant' = grant, generations' \in Nat, generations <= generations',
         \A m \in posts' : m.got # None => m \in posts
  PROVE  GrantKept
<1>1. \A s : (OneSignIn(s)' <=> OneSignIn(s)) /\ \A t : (SameGrant(s, t)' <=> SameGrant(s, t))
  BY DEF OneSignIn, SameGrant, Owner
<1>2. \A l : Faithful(l)' <=> Faithful(l)
  BY DEF Faithful, Owner
<1>3. \A s \in Remembered' : s \in Remembered \cup {SignedOut, file'}
  <2>1. \A q \in Procs : proc'[q].snap \in Remembered \cup {SignedOut, file'} /\ proc'[q].cur \in Remembered \cup {SignedOut, file'}
    BY FileRemembered DEF Others
  <2> QED  BY <2>1, FileRemembered DEF Remembered
<1>4. SignedOut.gen = None /\ OneSignIn(SignedOut)
  BY CliAssumption DEF SignedOut, OneSignIn
<1>5. \A s \in Remembered' : OneSignIn(s)' /\ (s.gen # None => s.gen <= generations')
  <2>1. \A s \in Remembered : s.gen # None => s.gen \in Nat
    BY DEF Remembered, TypeOK, Workers, Locals, States
  <2>2. generations \in Nat
    BY DEF TypeOK
  <2> QED  BY <1>1, <1>3, <1>4, <2>1, <2>2 DEF GrantInv, Fits
<1>6. \A s, t \in Remembered' : SameGrant(s, t)'
  <2>1. \A s : SameGrant(s, SignedOut) /\ SameGrant(SignedOut, s) /\ SameGrant(s, s)
    BY <1>4 DEF SameGrant
  <2> QED  BY <1>1, <1>3, <2>1 DEF GrantInv, Fits
<1>7. \A q \in Procs : Faithful(proc'[q])
  BY DEF GrantInv, Others
<1>8. \A m \in posts' : m.got # None => grant'[m.got] = GrantOf(m.token)'
  BY DEF GrantInv, GrantOf
<1> QED  BY <1>2, <1>5, <1>6, <1>7, <1>8 DEF GrantInv, GrantKept

(* A command that refreshes nothing and has no token in hand. *)
LEMMA IdleFaithful ==
  ASSUME NEW l, l.bearer = None, ~Refreshing(l)
  PROVE  Faithful(l)
  BY DEF Faithful, Refreshing

(* A step that ends the command or its attempt and leaves the file alone. *)
LEMMA GrantEnds ==
  ASSUME TypeOK, GrantInv, file # None, NEW p \in Procs, Stop(p) \/ Refuse(p), UNCHANGED <<file, disk, generations, grant>>,
         \A m \in posts' : m.got # None => m \in posts
  PROVE  GrantKept
<1>1. proc[p] \in Workers /\ proc \in [Procs -> Workers]
  BY DEF TypeOK
<1>2. proc'[p].snap = SignedOut /\ proc'[p].cur = SignedOut /\ proc'[p].bearer = None /\ proc'[p].pc \in {"done", "refused"}
  <2>1. CASE Stop(p)
    BY <1>1, <2>1 DEF Stop, Ended, Idle, Fresh
  <2>2. CASE Refuse(p)
    BY <1>1, <2>2 DEF Refuse, Forgetful, Fresh
  <2> QED  BY <2>1, <2>2
<1>3. Faithful(proc'[p])
  BY <1>2, IdleFaithful DEF Refreshing
<1>4. Fits(file') /\ (file'.gen # None => file'.gen <= generations')
  BY RememberedFits, FileRemembered
<1>5. generations \in Nat
  BY DEF TypeOK
<1> QED  BY <1>2, <1>3, <1>4, <1>5, EndingRests, GrantStep

(* A step that changes only what the command knows. *)
LEMMA GrantMoves ==
  ASSUME TypeOK, GrantInv, file # None, NEW p \in Procs, NEW l, proc' = [proc EXCEPT ![p] = l],
         l.snap \in Remembered \cup {SignedOut}, l.cur \in Remembered \cup {SignedOut}, Faithful(l),
         file' = file, disk' \in {file, disk}, UNCHANGED <<generations, grant>>,
         \A m \in posts' : m.got # None => m \in posts
  PROVE  GrantKept
<1>1. proc'[p] = l /\ Others(p)
  BY DEF TypeOK, Others
<1>2. Fits(file') /\ (file'.gen # None => file'.gen <= generations')
  BY RememberedFits, FileRemembered
<1>3. generations \in Nat
  BY DEF TypeOK
<1> QED  BY <1>1, <1>2, <1>3, GrantStep

(* A step that stores a state. *)
LEMMA GrantStores ==
  ASSUME TypeOK, GrantInv, NEW p \in Procs, NEW f, NEW l \in Locals, Update(p, f, l), f # None,
         Fits(f), f.gen # None => f.gen <= generations', grant' = grant,
         generations' \in Nat, generations <= generations',
         l.snap \in Remembered \cup {SignedOut, f}, l.cur \in Remembered \cup {SignedOut, f},
         Faithful([l EXCEPT !.pc = "sync"]), \A m \in posts' : m.got # None => m \in posts
  PROVE  GrantKept
<1> DEFINE w == [l EXCEPT !.pc = "sync"]
<1>1. proc' = [proc EXCEPT ![p] = w] /\ file' = f /\ disk' = disk
  BY DEF Update
<1>2. w.snap = l.snap /\ w.cur = l.cur
  BY DEF Locals
<1>3. Faithful(w)
  OBVIOUS
<1> HIDE DEF w
<1>4. proc'[p] = w /\ Others(p)
  BY <1>1 DEF TypeOK, Others
<1>5. Fits(file') /\ (file'.gen # None => file'.gen <= generations')
  BY <1>1
<1> QED  BY <1>1, <1>2, <1>3, <1>4, <1>5, GrantStep

(* What a command at work knows. *)
LEMMA Knows ==
  ASSUME TypeOK, GrantInv, NEW p \in Procs
  PROVE  /\ Faithful(proc[p]) /\ proc[p] \in Locals /\ Prepared(proc[p])
         /\ proc[p].snap \in Remembered /\ proc[p].cur \in Remembered
         /\ file # None => file \in Remembered
  BY Reading, FileRemembered DEF GrantInv

LEMMA GrantCheck ==
  ASSUME TypeOK, Unopened, GrantInv, NEW p \in Procs, Check(p), UNCHANGED backendVars
  PROVE  GrantKept
<1>0. file # None /\ UNCHANGED <<file, disk, generations, grant, posts>> /\ proc[p].pc = "check"
  BY FileThere DEF Check, At, backendVars
<1>1. CASE Refuse(p)
  BY <1>0, <1>1, GrantEnds
<1>2. CASE proc' = [proc EXCEPT ![p].pc = "lock"]
  <2> DEFINE l == [proc[p] EXCEPT !.pc = "lock"]
  <2>1. proc' = [proc EXCEPT ![p] = l]
    BY <1>2, Reading
  <2>2. l.snap = proc[p].snap /\ l.cur = proc[p].cur /\ l.bearer = proc[p].bearer /\ l.pc = "lock"
    BY Knows DEF Locals
  <2> HIDE DEF l
  <2>3. Faithful(l)
    BY <2>2, Knows DEF Faithful, Refreshing
  <2> QED  BY <1>0, <2>1, <2>2, <2>3, Knows, GrantMoves
<1>3. CASE /\ proc[p].snap.access # None
           /\ proc' = [proc EXCEPT ![p].pc = "request", ![p].bearer = proc[p].snap.access]
  <2> DEFINE l == [proc[p] EXCEPT !.pc = "request", !.bearer = proc[p].snap.access]
  <2>1. proc' = [proc EXCEPT ![p] = l]
    BY <1>3, Reading
  <2>2. l.snap = proc[p].snap /\ l.cur = proc[p].cur /\ l.bearer = proc[p].snap.access /\ l.pc = "request"
    BY Knows DEF Locals
  <2> HIDE DEF l
  <2>3. Faithful(l)
    BY <1>3, <2>2, Knows DEF Faithful, Refreshing
  <2> QED  BY <1>0, <2>1, <2>2, <2>3, Knows, GrantMoves
<1> QED  BY <1>1, <1>2, <1>3 DEF Check

LEMMA GrantSync ==
  ASSUME TypeOK, Unopened, GrantInv, NEW p \in Procs, Sync(p), UNCHANGED backendVars
  PROVE  GrantKept
<1>0. file # None /\ UNCHANGED <<file, generations, grant, posts>> /\ disk' = file /\ proc[p].pc = "sync"
  BY FileThere DEF Sync, At, backendVars
<1>1. CASE proc[p].next = "done"
  <2> DEFINE l == Ended
  <2>1. proc' = [proc EXCEPT ![p] = l]
    BY <1>1 DEF Sync, Stop
  <2>2. l.snap = SignedOut /\ l.cur = SignedOut /\ l.bearer = None /\ l.pc = "done"
    BY DEF Ended, Idle, Fresh
  <2> HIDE DEF l
  <2>3. Faithful(l)
    BY <2>2, IdleFaithful DEF Refreshing
  <2> QED  BY <1>0, <2>1, <2>2, <2>3, GrantMoves
<1>2. CASE proc[p].next # "done"
  <2> DEFINE l == [proc[p] EXCEPT !.pc = proc[p].next, !.next = "done"]
  <2>1. proc' = [proc EXCEPT ![p] = l]
    BY <1>2, Reading DEF Sync
  <2>2. /\ l.snap = proc[p].snap /\ l.cur = proc[p].cur /\ l.bearer = proc[p].bearer
        /\ l.pc = proc[p].next /\ l.mode = proc[p].mode
    BY Knows DEF Locals
  <2>3. proc[p].next \in {"send", "request", "check"}
    BY <1>2, Knows DEF Prepared
  <2> HIDE DEF l
  <2>4. Faithful(l)
    BY <1>0, <2>2, <2>3, Knows DEF Faithful, Refreshing
  <2> QED  BY <1>0, <2>1, <2>2, <2>4, Knows, GrantMoves
<1> QED  BY <1>1, <1>2

LEMMA GrantOpen ==
  ASSUME TypeOK, Unopened, GrantInv, NEW p \in Procs, Open(p), UNCHANGED backendVars
  PROVE  GrantKept
<1>1. PICK c \in Commands, first \in {"exchange", "logout", "name", "check"} :
        proc' = [proc EXCEPT ![p] = [Fresh(c) EXCEPT !.pc = first, !.snap = file']]
  BY OpenShape
<1> DEFINE l == [Fresh(c) EXCEPT !.pc = first, !.snap = file']
<1>2. l.snap = file' /\ l.cur = SignedOut /\ l.bearer = None /\ l.pc \in {"exchange", "logout", "name", "check"}
  BY DEF Fresh
<1>3. proc' = [proc EXCEPT ![p] = l]
  BY <1>1
<1> HIDE DEF l
<1>4. Faithful(l)
  BY <1>2, IdleFaithful DEF Refreshing
<1>5. UNCHANGED <<generations, grant, posts>>
  BY DEF Open, backendVars
<1>6. CASE file # None
  <2>1. file' = file /\ disk' = disk
    BY <1>6 DEF Open
  <2> QED  BY <1>2, <1>3, <1>4, <1>5, <1>6, <2>1, FileRemembered, GrantMoves
<1>7. CASE file = None
  <2>1. file' = Loaded(legacy) /\ disk' = file'
    BY <1>7 DEF Open
  <2>2. file'.gen = None /\ file' # None /\ OneSignIn(file')
    <3>1. CASE legacy \in [access : {1}, refresh : {1}, gen : {None}, ident : {AccountOf[Legacy], Retired}]
      <4>1. CASE Loaded(legacy) = SignedOut
        BY <2>1, <4>1, CliAssumption, FreshTypes, StatesAreSome DEF SignedOut, OneSignIn
      <4>2. CASE Loaded(legacy) = legacy
        <5>1. AccountOf[Legacy] \in Accounts /\ 1 \in Credentials /\ grant[1] = Legacy
          BY CliAssumption DEF Grants, Credentials, GrantInv
        <5>2. file'.access = 1 /\ file'.refresh = 1 /\ file'.gen = None /\ file'.ident \in {AccountOf[Legacy], Retired}
          BY <2>1, <3>1, <4>2
        <5>3. 1 # None /\ file'.ident # None
          BY <5>1, <5>2, CliAssumption DEF Tokens
        <5>4. file' # None
          BY <2>1, <4>2, <3>1, <5>1, CliAssumption
        <5> QED  BY <5>1, <5>2, <5>3, <5>4, CliAssumption DEF OneSignIn, Owner
      <4> QED  BY <4>1, <4>2 DEF Loaded
    <3>2. CASE legacy \in [access : {Foreign}, refresh : {Foreign}, gen : {None}, ident : {Retired}]
      <4>1. file' = SignedOut
        BY <2>1, <3>2 DEF Loaded
      <4> QED  BY <4>1, CliAssumption, FreshTypes, StatesAreSome DEF SignedOut, OneSignIn
    <3> QED  BY <3>1, <3>2 DEF TypeOK, LegacyStates
  <2>3. Fits(file')
    BY <2>2 DEF Fits, SameGrant
  <2>4. proc'[p] = l /\ Others(p) /\ generations \in Nat
    BY <1>3 DEF TypeOK, Others
  <2> QED  BY <1>2, <1>4, <1>5, <2>1, <2>2, <2>3, <2>4, GrantStep
<1> QED  BY <1>6, <1>7

(* A new generation is that of no sign-in before. *)
LEMMA NewGeneration ==
  ASSUME TypeOK, GrantInv, NEW s, s.gen = generations + 1, OneSignIn(s)
  PROVE  Fits(s)
<1>1. \A t \in Remembered : t.gen = None \/ (t.gen \in Nat /\ t.gen <= generations)
  <2>1. \A t \in Remembered : t.gen \in Nat \cup {None}
    BY DEF Remembered, TypeOK, Workers, Locals, States
  <2> QED  BY <2>1 DEF GrantInv
<1>2. generations \in Nat
  BY DEF TypeOK
<1>3. \A t \in Remembered : s.gen # None => s.gen # t.gen
  BY <1>1, <1>2
<1> QED  BY <1>3 DEF Fits, SameGrant

LEMMA GrantName ==
  ASSUME TypeOK, Unopened, GrantInv, NEW p \in Procs, NameGeneration(p), UNCHANGED backendVars
  PROVE  GrantKept
<1> DEFINE latest == IF file.gen = None THEN [file EXCEPT !.gen = generations + 1] ELSE file
           l == [proc[p] EXCEPT !.snap = latest, !.next = "check"]
<1>1. file \in States /\ file # None /\ generations \in Nat /\ proc[p].pc = "name"
  BY FileThere, Reading DEF NameGeneration, At
<1>2. latest \in States /\ latest # None
  BY <1>1, StatesAreSome DEF States
<1>3. Fits(latest) /\ (latest.gen # None => latest.gen <= generations')
  <2>1. CASE file.gen = None
    <3>1. latest.gen = generations + 1 /\ latest.access = file.access /\ latest.refresh = file.refresh /\ latest.ident = file.ident
      BY <1>1, <2>1 DEF States
    <3>2. OneSignIn(file)
      BY <1>1, RememberedFits, FileRemembered DEF Fits
    <3>3. OneSignIn(latest)
      BY <3>1, <3>2 DEF OneSignIn
    <3>4. generations' = generations + 1
      BY <2>1 DEF NameGeneration
    <3> HIDE DEF latest
    <3> QED  BY <1>1, <3>1, <3>3, <3>4, NewGeneration
  <2>2. CASE file.gen # None
    <3>1. latest = file /\ generations' = generations
      BY <2>2 DEF NameGeneration
    <3> QED  BY <1>1, <3>1, RememberedFits, FileRemembered
  <2> QED  BY <2>1, <2>2
<1>4. Update(p, latest, l) /\ generations' \in Nat /\ generations <= generations'
  BY <1>1 DEF NameGeneration
<1> HIDE DEF latest
<1>5. l \in Locals /\ l.snap = latest /\ l.cur = proc[p].cur
  BY <1>2, Knows, StepNames DEF Locals
<1>6. Faithful([l EXCEPT !.pc = "sync"])
  <2> DEFINE w == [l EXCEPT !.pc = "sync"]
  <2>1. w.pc = "sync" /\ w.next = "check" /\ w.bearer = proc[p].bearer
    BY Knows DEF Locals
  <2>2. proc[p].bearer = None
    BY <1>1, Knows DEF Faithful
  <2> HIDE DEF w
  <2>3. Faithful(w)
    BY <2>1, <2>2, IdleFaithful DEF Refreshing
  <2> QED  BY <2>3 DEF w
<1>7. grant' = grant /\ posts' = posts
  BY DEF backendVars
<1> HIDE DEF l
<1> QED  BY <1>2, <1>3, <1>4, <1>5, <1>6, <1>7, Knows, GrantStores

LEMMA GrantTakes ==
  ASSUME TypeOK, GrantInv, file # None, NEW p \in Procs, NEW mode \in {"expiry", "rejected"}, file.refresh # None,
         proc' = [proc EXCEPT ![p].pc = "claim", ![p].cur = file, ![p].mode = mode],
         mode = "rejected" => proc[p].snap.access # None /\ grant[file.access] = grant[proc[p].snap.access],
         UNCHANGED <<file, disk, generations, grant, posts>>
  PROVE  GrantKept
<1> DEFINE l == [proc[p] EXCEPT !.pc = "claim", !.cur = file, !.mode = mode]
<1>1. proc' = [proc EXCEPT ![p] = l]
  BY Reading
<1>2. l.snap = proc[p].snap /\ l.cur = file /\ l.bearer = proc[p].bearer /\ l.pc = "claim" /\ l.mode = mode
  BY Knows DEF Locals
<1>3. file.access # None
  BY RememberedFits, FileRemembered DEF Fits, OneSignIn
<1> HIDE DEF l
<1>4. Faithful(l)
  BY <1>2, <1>3, Knows DEF Faithful, Refreshing
<1> QED  BY <1>1, <1>2, <1>4, Knows, GrantMoves

LEMMA GrantLockExpired ==
  ASSUME TypeOK, Unopened, GrantInv, NEW p \in Procs, LockExpired(p), UNCHANGED backendVars
  PROVE  GrantKept
<1>0. file # None /\ UNCHANGED <<file, disk, generations, grant, posts>>
  BY FileThere DEF LockExpired, At, backendVars
<1>1. CASE Refuse(p)
  BY <1>0, <1>1, GrantEnds
<1>2. CASE /\ file.refresh # None
           /\ proc' = [proc EXCEPT ![p].pc = "claim", ![p].cur = file, ![p].mode = "expiry"]
  <2>1. "expiry" # "rejected"
    OBVIOUS
  <2> QED  BY <1>0, <1>2, <2>1, GrantTakes
<1>3. CASE /\ file.access # None
           /\ proc' = [proc EXCEPT ![p].pc = "request", ![p].snap = file, ![p].bearer = file.access]
  <2> DEFINE l == [proc[p] EXCEPT !.pc = "request", !.snap = file, !.bearer = file.access]
  <2>1. proc' = [proc EXCEPT ![p] = l]
    BY <1>3, Reading
  <2>2. l.snap = file /\ l.cur = proc[p].cur /\ l.bearer = file.access /\ l.pc = "request"
    BY Knows DEF Locals
  <2> HIDE DEF l
  <2>3. Faithful(l)
    BY <1>3, <2>2 DEF Faithful, Refreshing
  <2> QED  BY <1>0, <2>1, <2>2, <2>3, Knows, GrantMoves
<1> QED  BY <1>1, <1>2, <1>3 DEF LockExpired

(* A sign-in with an identity has a token, and its generation names one grant. *)
LEMMA GrantLockRejected ==
  ASSUME TypeOK, Unopened, GrantInv, NEW p \in Procs, LockRejected(p), UNCHANGED backendVars
  PROVE  GrantKept
<1>0. file # None /\ UNCHANGED <<file, disk, generations, grant, posts>> /\ proc[p].pc = "recover"
  BY FileThere DEF LockRejected, At, backendVars
<1> DEFINE s == proc[p].snap
<1>1. CASE Refuse(p)
  BY <1>0, <1>1, GrantEnds
<1>2. s.ident # None => s.access # None
  BY Knows, RememberedFits DEF Fits, OneSignIn
<1>3. CASE /\ s.ident # None /\ SameBinding(file, s) /\ file.access = proc[p].bearer /\ file.refresh # None
           /\ proc' = [proc EXCEPT ![p].pc = "claim", ![p].cur = file, ![p].mode = "rejected"]
  <2>1. proc[p].bearer # None
    BY <1>0, Knows DEF Prepared
  <2>2. s.access # None /\ grant[file.access] = grant[s.access]
    BY <1>3, <2>1, Knows DEF Faithful
  <2>3. "rejected" \in {"expiry", "rejected"}
    OBVIOUS
  <2> QED  BY <1>0, <1>3, <2>2, <2>3, GrantTakes
<1>4. CASE /\ s.ident # None /\ SameBinding(file, s) /\ s.gen # None /\ file.access # None
           /\ proc' = [proc EXCEPT ![p].pc = "request", ![p].bearer = file.access, ![p].retried = TRUE]
  <2> DEFINE l == [proc[p] EXCEPT !.pc = "request", !.bearer = file.access, !.retried = TRUE]
  <2>1. proc' = [proc EXCEPT ![p] = l]
    BY <1>4, Reading
  <2>2. l.snap = s /\ l.cur = proc[p].cur /\ l.bearer = file.access /\ l.pc = "request"
    BY Knows DEF Locals
  <2>3. SameGrant(file, s)
    BY <1>0, Knows, RememberedFits DEF Fits
  <2> HIDE DEF l
  <2>4. Faithful(l)
    BY <1>2, <1>4, <2>2, <2>3 DEF Faithful, Refreshing, SameGrant, SameBinding
  <2> QED  BY <1>0, <2>1, <2>2, <2>4, Knows, GrantMoves
<1> QED  BY <1>1, <1>3, <1>4 DEF LockRejected

LEMMA GrantClaim ==
  ASSUME TypeOK, Unopened, GrantInv, NEW p \in Procs, Claim(p), UNCHANGED backendVars
  PROVE  GrantKept
<1>0. file \in States /\ file # None /\ UNCHANGED <<generations, grant, posts>> /\ proc[p].pc = "claim"
  BY FileThere DEF Claim, At, backendVars
<1>1. CASE Refuse(p) /\ UNCHANGED <<file, disk, legacy>>
  BY <1>0, <1>1, GrantEnds
<1> DEFINE f == [file EXCEPT !.refresh = None]
           l == [proc[p] EXCEPT !.next = "send"]
           w == [l EXCEPT !.pc = "sync"]
<1>2. CASE Update(p, f, l)
  <2>1. f.access = file.access /\ f.refresh = None /\ f.gen = file.gen /\ f.ident = file.ident /\ f \in States
    BY <1>0 DEF States
  <2>2. l \in Locals /\ l.snap = proc[p].snap /\ l.cur = proc[p].cur
    BY Knows, StepNames DEF Locals
  <2>3. /\ w.snap = proc[p].snap /\ w.cur = proc[p].cur /\ w.bearer = proc[p].bearer
        /\ w.pc = "sync" /\ w.mode = proc[p].mode
    BY Knows DEF Locals
  <2>4. Update(p, f, l) /\ f # None
    BY <1>2, <2>1, StatesAreSome
  <2>5. Faithful(w)
    <3> HIDE DEF w
    <3> QED  BY <1>0, <2>3, Knows DEF Faithful, Refreshing
  <2>6. Faithful([l EXCEPT !.pc = "sync"])
    BY <2>5
  <2> HIDE DEF f, l
  <2>7. Fits(f) /\ (f.gen # None => f.gen <= generations)
    BY <1>0, <2>1, RememberedFits, FileRemembered DEF Fits, OneSignIn, SameGrant
  <2>8. generations \in Nat
    BY DEF TypeOK
  <2> QED  BY <1>0, <2>2, <2>4, <2>6, <2>7, <2>8, Knows, GrantStores
<1> QED  BY <1>1, <1>2 DEF Claim

LEMMA GrantApply ==
  ASSUME TypeOK, Unopened, GrantInv, NEW p \in Procs, Apply(p), UNCHANGED backendVars
  PROVE  GrantKept
<1>0. file \in States /\ file # None /\ UNCHANGED <<generations, grant, posts>> /\ proc[p].pc = "apply"
  BY FileThere DEF Apply, At, backendVars
<1>1. CASE Refuse(p) /\ UNCHANGED <<file, disk, legacy>>
  BY <1>0, <1>1, GrantEnds
<1> DEFINE c == proc[p].got
           cur == proc[p].cur
           renewed == [file EXCEPT !.access = c, !.refresh = c,
                         !.ident = IF proc[p].mode = "expiry" THEN Owner(c) ELSE file.ident]
           base == Forgetful(proc[p])
           client == IF proc[p].mode = "expiry"
                     THEN [base EXCEPT !.snap = renewed, !.bearer = c, !.next = "request"]
                     ELSE [base EXCEPT !.snap = proc[p].snap, !.bearer = c, !.retried = TRUE, !.next = "request"]
<1>2. CASE file.refresh = None /\ SameBinding(file, cur) /\ Update(p, renewed, client)
  <2>1. c \in Known /\ c # None /\ Owner(c) \in Accounts
    <3>1. c \in Known
      BY <1>0, Knows DEF Prepared, Locals
    <3> QED  BY <3>1, TokenTypes, CliAssumption DEF Owner, TypeOK
  <2>2. cur.access # None /\ grant[c] = grant[cur.access] /\ (proc[p].mode = "rejected" => cur.ident = Owner(c))
    BY <1>0, Knows DEF Faithful, Refreshing
  <2>3. proc[p].mode = "rejected" => proc[p].snap.access # None /\ grant[cur.access] = grant[proc[p].snap.access]
    BY <1>0, Knows DEF Faithful, Refreshing
  <2>4. proc[p].mode \in {"expiry", "rejected"}
    BY Knows DEF Locals
  <2>5. OneSignIn(cur) /\ \A t \in Remembered : SameGrant(cur, t) /\ SameGrant(t, cur)
    BY Knows, RememberedFits DEF Fits
  <2>6. renewed.access = c /\ renewed.refresh = c /\ renewed.gen = cur.gen /\ renewed.ident = Owner(c) /\ renewed \in States
    <3>1. renewed.ident = Owner(c)
      BY <1>0, <1>2, <2>2, <2>4 DEF SameBinding, States
    <3>2. file.gen = cur.gen /\ Owner(c) \in Accounts
      BY <1>2, <2>1 DEF SameBinding
    <3> QED  BY <1>0, <2>1, <3>1, <3>2 DEF States
  <2> HIDE DEF renewed, c
  <2>7. Fits(renewed) /\ renewed # None /\ (renewed.gen # None => renewed.gen <= generations)
    <3>1. OneSignIn(renewed)
      <4>1. Owner(c) # None
        BY <2>1, CliAssumption
      <4> QED  BY <2>1, <2>6, <4>1 DEF OneSignIn
    <3>2. \A t \in Remembered : SameGrant(renewed, t) /\ SameGrant(t, renewed)
      BY <2>2, <2>5, <2>6 DEF SameGrant
    <3>3. renewed.gen # None => renewed.gen <= generations
      BY <2>6, Knows, RememberedFits
    <3> QED  BY <2>6, <3>1, <3>2, <3>3, StatesAreSome DEF Fits
  <2>8. base \in Locals /\ proc[p].snap \in States /\ base.cur = SignedOut
    <3>1. base \in Locals
      BY RefusedTypes, Reading
    <3>2. proc[p].snap \in States
      BY Reading DEF Locals
    <3>3. base.cur = SignedOut
      BY DEF Forgetful, Fresh
    <3> QED  BY <3>1, <3>2, <3>3
  <2> HIDE DEF base
  <2>9. client \in Locals
    BY <2>1, <2>6, <2>8, StepNames DEF Locals
  <2>10. /\ client.bearer = c /\ client.next = "request" /\ client.cur = SignedOut
         /\ client.snap = IF proc[p].mode = "expiry" THEN renewed ELSE proc[p].snap
    BY <2>8 DEF Locals
  <2> DEFINE w == [client EXCEPT !.pc = "sync"]
  <2> HIDE DEF client
  <2>11. w.bearer = c /\ w.next = "request" /\ w.pc = "sync" /\ w.snap = client.snap
    BY <2>9, <2>10 DEF Locals
  <2> HIDE DEF w
  <2>12. Faithful(w)
    <3>1. w.snap.access # None /\ grant[w.bearer] = grant[w.snap.access]
      BY <2>1, <2>2, <2>3, <2>4, <2>6, <2>10, <2>11
    <3> QED  BY <2>11, <3>1 DEF Faithful, Refreshing
  <2>13. Update(p, renewed, client)
    BY <1>2 DEF client, renewed, c, base
  <2>14. Faithful([client EXCEPT !.pc = "sync"])
    BY <2>12 DEF w
  <2>15. generations \in Nat
    BY DEF TypeOK
  <2> QED  BY <1>0, <2>7, <2>9, <2>10, <2>13, <2>14, <2>15, Knows, GrantStores
<1> QED  BY <1>1, <1>2 DEF Apply

LEMMA GrantServed ==
  ASSUME TypeOK, Unopened, GrantInv, NEW p \in Procs, Served(p), UNCHANGED backendVars
  PROVE  GrantKept
<1>0. file # None /\ UNCHANGED <<file, disk, generations, grant, posts>> /\ proc[p].pc = "request"
  BY FileThere DEF Served, At, backendVars
<1>1. CASE Refuse(p) \/ Stop(p)
  BY <1>0, <1>1, GrantEnds
<1>2. ASSUME NEW l, proc' = [proc EXCEPT ![p] = l], l.snap = proc[p].snap, l.cur = proc[p].cur,
             l.bearer = proc[p].bearer, l.pc \in {"request", "attach"}
      PROVE  GrantKept
  <2>1. Faithful(l)
    BY <1>2, Knows DEF Faithful, Refreshing
  <2> QED  BY <1>0, <1>2, <2>1, Knows, GrantMoves
<1>3. CASE proc' = [proc EXCEPT ![p].pc = "attach"]
  <2> DEFINE l == [proc[p] EXCEPT !.pc = "attach"]
  <2>1. proc' = [proc EXCEPT ![p] = l]
    BY <1>3, Reading
  <2>2. l.snap = proc[p].snap /\ l.cur = proc[p].cur /\ l.bearer = proc[p].bearer /\ l.pc = "attach"
    BY Knows DEF Locals
  <2> HIDE DEF l
  <2> QED  BY <1>2, <2>1, <2>2
<1>4. CASE proc' = [proc EXCEPT ![p].asked = @ + 1, ![p].retried = FALSE]
  <2> DEFINE l == [proc[p] EXCEPT !.asked = @ + 1, !.retried = FALSE]
  <2>1. proc' = [proc EXCEPT ![p] = l]
    BY <1>4, Reading
  <2>2. l.snap = proc[p].snap /\ l.cur = proc[p].cur /\ l.bearer = proc[p].bearer /\ l.pc = "request"
    BY <1>0, Knows DEF Locals
  <2> HIDE DEF l
  <2> QED  BY <1>2, <2>1, <2>2
<1> QED  BY <1>1, <1>3, <1>4 DEF Served

LEMMA GrantRejected ==
  ASSUME TypeOK, Unopened, GrantInv, NEW p \in Procs, Rejected(p), UNCHANGED backendVars
  PROVE  GrantKept
<1>0. file # None /\ UNCHANGED <<file, disk, generations, grant, posts>>
  BY FileThere DEF Rejected, At, backendVars
<1>1. CASE Refuse(p)
  BY <1>0, <1>1, GrantEnds
<1>2. CASE proc' = [proc EXCEPT ![p].pc = "recover"]
  <2> DEFINE l == [proc[p] EXCEPT !.pc = "recover"]
  <2>1. proc' = [proc EXCEPT ![p] = l]
    BY <1>2, Reading
  <2>2. l.snap = proc[p].snap /\ l.cur = proc[p].cur /\ l.bearer = proc[p].bearer /\ l.pc = "recover"
    BY Knows DEF Locals
  <2> HIDE DEF l
  <2>3. Faithful(l)
    BY <2>2, Knows DEF Faithful, Refreshing
  <2> QED  BY <1>0, <2>1, <2>2, <2>3, Knows, GrantMoves
<1> QED  BY <1>1, <1>2 DEF Rejected

LEMMA GrantPrompt ==
  ASSUME TypeOK, Unopened, GrantInv, NEW p \in Procs, Prompt(p), UNCHANGED backendVars
  PROVE  GrantKept
<1>0. file # None /\ UNCHANGED <<file, disk, generations, grant, posts>>
  <2>1. CASE refreshLock = p
    BY <2>1, CliAssumption DEF Prompt, Unopened, backendVars
  <2>2. CASE ~At(p, "idle")
    BY <2>2, FileThere DEF Prompt, backendVars
  <2> QED  BY <2>1, <2>2 DEF Prompt, At
<1> DEFINE l == [Fresh("setup") EXCEPT !.pc = "exchange"]
<1>1. proc' = [proc EXCEPT ![p] = l]
  BY DEF Prompt
<1>2. l.snap = SignedOut /\ l.cur = SignedOut /\ l.bearer = None /\ l.pc = "exchange"
  BY DEF Fresh
<1> HIDE DEF l
<1>3. Faithful(l)
  BY <1>2, IdleFaithful DEF Refreshing
<1> QED  BY <1>0, <1>1, <1>2, <1>3, GrantMoves

LEMMA GrantAttach ==
  ASSUME TypeOK, Unopened, GrantInv, NEW p \in Procs, Attach(p), UNCHANGED backendVars
  PROVE  GrantKept
<1>0. file \in States /\ file # None /\ UNCHANGED <<generations, grant, posts>> /\ proc[p].pc = "attach"
  BY FileThere DEF Attach, At, backendVars
<1>1. CASE Stop(p) /\ UNCHANGED <<file, disk, legacy>>
  BY <1>0, <1>1, GrantEnds
<1> DEFINE f == [file EXCEPT !.ident = Owner(proc[p].bearer)]
           w == [proc[p] EXCEPT !.pc = "sync"]
<1>2. CASE file.access = proc[p].snap.access /\ Update(p, f, proc[p])
  <2>1. proc[p].bearer \in Known /\ proc[p].bearer # None /\ Owner(proc[p].bearer) \in Accounts
    <3>1. proc[p].bearer \in Known
      BY <1>0, Knows DEF Prepared, Locals
    <3> QED  BY <3>1, TokenTypes, CliAssumption DEF Owner, TypeOK
  <2>2. proc[p].snap.access # None /\ grant[proc[p].bearer] = grant[proc[p].snap.access]
    BY <2>1, Knows DEF Faithful
  <2>3. Owner(file.access) = Owner(proc[p].bearer) /\ file.access # None
    BY <1>2, <2>2 DEF Owner
  <2>4. /\ f.access = file.access /\ f.refresh = file.refresh /\ f.gen = file.gen
        /\ f.ident = Owner(file.access) /\ f \in States
    BY <1>0, <2>1, <2>3 DEF States
  <2>5. Update(p, f, proc[p]) /\ f # None
    BY <1>2, <2>4, StatesAreSome
  <2> HIDE DEF f
  <2>6. Fits(f) /\ (f.gen # None => f.gen <= generations)
    <3>1. Fits(file) /\ (file.gen # None => file.gen <= generations)
      BY <1>0, RememberedFits, FileRemembered
    <3>2. f.ident # None
      BY <2>1, <2>3, <2>4, CliAssumption
    <3>3. OneSignIn(f)
      BY <2>3, <2>4, <3>1, <3>2 DEF Fits, OneSignIn
    <3> QED  BY <2>4, <3>1, <3>3 DEF Fits, SameGrant
  <2>7. w.bearer = proc[p].bearer /\ w.snap = proc[p].snap /\ w.pc = "sync" /\ w.next = "done"
    BY <1>0, Knows DEF Locals, Prepared
  <2> HIDE DEF w
  <2>8. Faithful(w)
    BY <2>2, <2>7 DEF Faithful, Refreshing
  <2>9. Faithful([proc[p] EXCEPT !.pc = "sync"])
    BY <2>8 DEF w
  <2>10. generations \in Nat
    BY DEF TypeOK
  <2> QED  BY <1>0, <2>5, <2>6, <2>9, <2>10, Knows, GrantStores
<1> QED  BY <1>1, <1>2 DEF Attach

LEMMA GrantLogout ==
  ASSUME TypeOK, Unopened, GrantInv, NEW p \in Procs, Logout(p), UNCHANGED backendVars
  PROVE  GrantKept
<1>1. Fits(SignedOut) /\ SignedOut.gen = None /\ SignedOut # None
  BY CliAssumption, FreshTypes, StatesAreSome DEF SignedOut, Fits, OneSignIn, SameGrant
<1> DEFINE w == [proc[p] EXCEPT !.pc = "sync"]
<1>2. w.bearer = proc[p].bearer /\ w.snap = proc[p].snap /\ w.pc = "sync" /\ w.next = "done"
  BY Knows DEF Locals, Prepared, Logout, At
<1> HIDE DEF w
<1>3. Faithful(w)
  BY <1>2, Knows DEF Faithful, Refreshing
<1>4. Faithful([proc[p] EXCEPT !.pc = "sync"])
  BY <1>3 DEF w
<1>5. generations \in Nat /\ Update(p, SignedOut, proc[p]) /\ UNCHANGED <<generations, grant, posts>>
  BY DEF TypeOK, Logout, backendVars
<1> QED  BY <1>1, <1>4, <1>5, Knows, GrantStores

LEMMA GrantLocal ==
  ASSUME TypeOK, Unopened, GrantInv, NEW p \in Procs, Local(p), UNCHANGED backendVars
  PROVE  GrantKept
<1>1. CASE GiveUp(p)
  <2>1. file # None /\ UNCHANGED <<file, disk, generations, grant, posts>> /\ Stop(p)
    BY <1>1, FileThere DEF GiveUp, Running, At, backendVars
  <2> QED  BY <2>1, GrantEnds
<1>2. CASE Open(p) \/ NameGeneration(p) \/ Sync(p) \/ Check(p)
  BY <1>2, GrantOpen, GrantName, GrantSync, GrantCheck
<1>3. CASE LockExpired(p) \/ LockRejected(p) \/ Claim(p) \/ Apply(p)
  BY <1>3, GrantLockExpired, GrantLockRejected, GrantClaim, GrantApply
<1>4. CASE Served(p) \/ Rejected(p) \/ Prompt(p) \/ Attach(p) \/ Logout(p)
  BY <1>4, GrantServed, GrantRejected, GrantPrompt, GrantAttach, GrantLogout
<1> QED  BY <1>1, <1>2, <1>3, <1>4 DEF Local

(* Sending a token on changes nothing but where the command waits. *)
LEMMA GrantSend ==
  ASSUME TypeOK, Unopened, GrantInv, NEW p \in Procs, Send(p) \/ Exchange(p)
  PROVE  GrantKept
<1>0. file # None /\ UNCHANGED <<file, disk, generations, grant>> /\ proc[p].pc \in {"send", "exchange"}
  BY FileThere DEF Send, Exchange, At
<1>1. \A m \in posts' : m.got # None => m \in posts
  BY DEF Send, Exchange, Posted
<1>2. CASE Send(p)
  <2> DEFINE l == [proc[p] EXCEPT !.pc = "await"]
  <2>1. proc' = [proc EXCEPT ![p] = l]
    BY <1>2, Reading DEF Send
  <2>2. l.snap = proc[p].snap /\ l.cur = proc[p].cur /\ l.bearer = proc[p].bearer /\ l.pc = "await" /\ l.mode = proc[p].mode
    BY Knows DEF Locals
  <2>3. proc[p].pc = "send"
    BY <1>2 DEF Send, At
  <2> HIDE DEF l
  <2>4. Faithful(l)
    BY <2>2, <2>3, Knows DEF Faithful, Refreshing
  <2> QED  BY <1>0, <1>1, <2>1, <2>2, <2>4, Knows, GrantMoves
<1>3. CASE Exchange(p)
  <2>1. PICK t \in Slts : proc' = [proc EXCEPT ![p].pc = "awaitSignIn", ![p].token = t]
    BY <1>3 DEF Exchange
  <2> DEFINE l == [proc[p] EXCEPT !.pc = "awaitSignIn", !.token = t]
  <2>2. proc' = [proc EXCEPT ![p] = l]
    BY <2>1, Reading
  <2>3. l.snap = proc[p].snap /\ l.cur = proc[p].cur /\ l.bearer = proc[p].bearer /\ l.pc = "awaitSignIn"
    BY Knows DEF Locals
  <2> HIDE DEF l
  <2>4. Faithful(l)
    BY <2>3, Knows DEF Faithful, Refreshing
  <2> QED  BY <1>0, <1>1, <2>2, <2>3, <2>4, Knows, GrantMoves
<1> QED  BY <1>2, <1>3

(* An answer brings a credential of the grant of the token that was sent. *)
LEMMA GrantAnswered ==
  ASSUME TypeOK, Unopened, GrantInv, NEW p \in Procs, Answered(p)
  PROVE  GrantKept
<1>0. file # None /\ UNCHANGED <<file, disk, generations>> /\ proc[p].pc = "await"
  BY FileThere DEF Answered, At
<1>1. PICK m \in Answer(p, proc[p].cur.refresh) :
        /\ Received(m)
        /\ LET ident == proc[p].cur.ident
               other == (proc[p].mode = "rejected" \/ ident \in Accounts) /\ ident # Owner(m.got)
           IN IF m.got = None THEN Refuse(p)
              ELSE IF other THEN Refuse(p)
              ELSE /\ proc' = [proc EXCEPT ![p].pc = "apply", ![p].got = m.got]
                   /\ UNCHANGED refreshLock
  BY DEF Answered
<1>2. m \in posts /\ m.token = proc[p].cur.refresh /\ grant' = grant /\ \A n \in posts' : n.got # None => n \in posts
  BY <1>1 DEF Answer, Received
<1>3. CASE Refuse(p)
  BY <1>0, <1>2, <1>3, GrantEnds
<1>4. CASE /\ m.got # None /\ ~(proc[p].mode = "rejected" /\ proc[p].cur.ident # Owner(m.got))
           /\ proc' = [proc EXCEPT ![p].pc = "apply", ![p].got = m.got]
  <2> DEFINE l == [proc[p] EXCEPT !.pc = "apply", !.got = m.got]
  <2>1. proc' = [proc EXCEPT ![p] = l]
    BY <1>4, Reading
  <2>2. /\ l.snap = proc[p].snap /\ l.cur = proc[p].cur /\ l.bearer = proc[p].bearer
        /\ l.pc = "apply" /\ l.mode = proc[p].mode /\ l.got = m.got
    BY Knows DEF Locals
  <2>3. grant[m.got] = grant[proc[p].cur.access]
    <3>1. OneSignIn(proc[p].cur) /\ proc[p].cur \in States
      BY Knows, RememberedFits, Reading DEF Fits, Locals
    <3>2. proc[p].cur.refresh \in Known /\ proc[p].cur.refresh = proc[p].cur.access
      BY <1>0, <3>1, Knows DEF Prepared, States, OneSignIn
    <3>3. proc[p].cur.refresh \notin Slts
      BY <3>2, CliAssumption DEF TypeOK, Known, Credentials
    <3> QED  BY <1>2, <1>4, <3>2, <3>3 DEF GrantInv, GrantOf
  <2> HIDE DEF l
  <2>4. Faithful(l)
    BY <1>0, <1>4, <2>2, <2>3, Knows DEF Faithful, Refreshing
  <2> QED  BY <1>0, <1>2, <2>1, <2>2, <2>4, Knows, GrantMoves
<1> QED  BY <1>1, <1>3, <1>4

LEMMA GrantSignIn ==
  ASSUME TypeOK, Unopened, GrantInv, NEW p \in Procs, SignIn(p)
  PROVE  GrantKept
<1>0. file # None /\ proc[p].pc = "awaitSignIn"
  BY FileThere DEF SignIn, At
<1> DEFINE new(m) == [access |-> m.got, refresh |-> m.got, gen |-> generations + 1, ident |-> Owner(m.got)]
           l(m) == [Fresh(proc[p].cmd) EXCEPT !.snap = new(m), !.bearer = m.got, !.exchanged = TRUE,
                     !.next = IF proc[p].cmd = "login" THEN "done" ELSE "request"]
<1>1. PICK m \in Answer(p, proc[p].token) :
        /\ Received(m)
        /\ \/ Stop(p) /\ UNCHANGED <<file, disk, legacy, generations>>
           \/ /\ m.got # None /\ UNCHANGED refreshLock /\ generations' = generations + 1
              /\ Update(p, new(m), l(m))
  BY SignInShape DEF Renewed, Entered
<1>2. m \in posts /\ grant' = grant /\ \A n \in posts' : n.got # None => n \in posts
  BY <1>1 DEF Answer, Received
<1>3. CASE Stop(p) /\ UNCHANGED <<file, disk, legacy, generations>>
  BY <1>0, <1>1, <1>2, <1>3, GrantEnds
<1>4. ASSUME m.got # None, generations' = generations + 1, Update(p, new(m), l(m)) PROVE GrantKept
  <2> DEFINE f == new(m)
             client == l(m)
             w == [client EXCEPT !.pc = "sync"]
  <2>1. m.got \in Known /\ Owner(m.got) \in Accounts
    <3>1. m.got \in Known
      BY <1>2, <1>4 DEF TypeOK, Posts
    <3> QED  BY <3>1, CliAssumption DEF Owner, TypeOK
  <2>2. f.access = m.got /\ f.refresh = m.got /\ f.gen = generations + 1 /\ f.ident = Owner(m.got)
    BY <1>4
  <2>3. f \in States /\ f # None
    BY <1>4, <2>1, StatesAreSome DEF States, TypeOK
  <2>4. Update(p, f, client) /\ generations' = generations + 1 /\ generations \in Nat
    BY <1>4 DEF TypeOK
  <2> HIDE DEF f
  <2>5. OneSignIn(f)
    <3>1. Owner(m.got) # None
      BY <2>1, CliAssumption
    <3> QED  BY <1>4, <2>1, <2>2, <3>1 DEF OneSignIn
  <2>6. Fits(f)
    BY <2>2, <2>5, NewGeneration
  <2>7. Fresh(proc[p].cmd) \in Locals
    BY Knows, FreshTypes DEF Locals
  <2>8. /\ client \in Locals /\ client.snap = f /\ client.bearer = m.got
        /\ client.next \in {"done", "request"} /\ client.cur = SignedOut
    <3>1. Fresh(proc[p].cmd).cur = SignedOut
      BY DEF Fresh
    <3> QED  BY <2>1, <2>3, <2>7, <3>1, StepNames DEF Locals, f
  <2> HIDE DEF client, l, new
  <2>9. w.snap = f /\ w.bearer = m.got /\ w.next \in {"done", "request"} /\ w.pc = "sync"
    BY <2>8 DEF Locals
  <2> HIDE DEF w
  <2>10. Faithful(w)
    BY <1>4, <2>2, <2>9 DEF Faithful, Refreshing
  <2>11. Faithful([client EXCEPT !.pc = "sync"])
    BY <2>10 DEF w
  <2> QED  BY <1>2, <2>2, <2>3, <2>4, <2>6, <2>8, <2>11, GrantStores
<1> QED  BY <1>1, <1>3, <1>4

(* After a power loss only what was durable is remembered. *)
LEMMA GrantPowerLoss ==
  ASSUME TypeOK, Unopened, GrantInv, PowerLoss, UNCHANGED backendVars
  PROVE  GrantKept
<1>1. file' = disk /\ disk' = disk /\ disk # None /\ UNCHANGED <<generations, grant, posts>>
  <2>1. file # None
    BY DEF PowerLoss, Unopened, Running, At
  <2> QED  BY <2>1 DEF PowerLoss, Unopened, backendVars
<1>2. \A q \in Procs : proc'[q] = Ended \/ proc'[q] = proc[q]
  BY DEF PowerLoss
<1>3. Ended.snap = SignedOut /\ Ended.cur = SignedOut /\ Faithful(Ended)
  <2>1. Ended.snap = SignedOut /\ Ended.cur = SignedOut /\ Ended.bearer = None /\ Ended.pc = "done"
    BY DEF Ended, Idle, Fresh
  <2> HIDE DEF Ended
  <2> QED  BY <2>1, IdleFaithful DEF Refreshing
<1>4. \A s \in Remembered' : s \in Remembered \cup {SignedOut}
  <2>1. \A q \in Procs : proc'[q].snap \in Remembered \cup {SignedOut} /\ proc'[q].cur \in Remembered \cup {SignedOut}
    BY <1>2, <1>3, FileRemembered
  <2> QED  BY <1>1, <2>1, FileRemembered DEF Remembered
<1>5. OneSignIn(SignedOut) /\ SignedOut.gen = None
  BY CliAssumption DEF SignedOut, OneSignIn
<1>6. \A s : (OneSignIn(s)' <=> OneSignIn(s)) /\ \A t : (SameGrant(s, t)' <=> SameGrant(s, t))
  BY <1>1 DEF OneSignIn, SameGrant, Owner
<1>7. \A s \in Remembered' : OneSignIn(s)' /\ (s.gen # None => s.gen <= generations')
  BY <1>1, <1>4, <1>5, <1>6 DEF GrantInv
<1>8. \A s, t \in Remembered' : SameGrant(s, t)'
  <2>1. \A s : SameGrant(s, SignedOut) /\ SameGrant(SignedOut, s)
    BY <1>5 DEF SameGrant
  <2> QED  BY <1>4, <1>6, <2>1 DEF GrantInv
<1>9. \A q \in Procs : Faithful(proc[q])'
  <2>1. \A l : Faithful(l)' <=> Faithful(l)
    BY <1>1 DEF Faithful, Owner
  <2> QED  BY <1>2, <1>3, <2>1 DEF GrantInv
<1>10. \A m \in posts' : m.got # None => grant'[m.got] = GrantOf(m.token)'
  BY <1>1 DEF GrantInv, GrantOf
<1>11. Fits(file')
  BY <1>1, RememberedFits, FileRemembered
<1> QED  BY <1>1, <1>7, <1>8, <1>9, <1>10, <1>11 DEF GrantInv, GrantKept

(* What Accounts hands out changes no grant of a credential handed out before. *)
LEMMA GrantGrows ==
  ASSUME TypeOK, GrantInv, UNCHANGED cliVars, \A c \in Known : grant'[c] = grant[c],
         \A m \in posts' : m.got # None => m \in posts \/ grant'[m.got] = GrantOf(m.token)'
  PROVE  GrantInv'
<1>0. None \notin Known /\ 1 \in Known
  BY TokenTypes, CliAssumption DEF TypeOK, Known, Credentials
<1>1. Remembered' = Remembered /\ generations' = generations /\ proc' = proc
  BY DEF Remembered, cliVars
<1>2. \A s \in Remembered : s \in States
  <2>1. \A q \in Procs : proc[q].snap \in States /\ proc[q].cur \in States
    BY DEF TypeOK, Workers, Locals
  <2> QED  BY <2>1 DEF Remembered, TypeOK
<1>3. \A s \in Remembered : s.access # None => grant'[s.access] = grant[s.access]
  <2>1. \A s \in Remembered : s.access \in Known \cup {None}
    BY <1>2 DEF States
  <2> QED  BY <2>1
<1>4. \A s \in Remembered : OneSignIn(s)'
  <2> SUFFICES ASSUME NEW s \in Remembered PROVE OneSignIn(s)'
    OBVIOUS
  <2>1. OneSignIn(s)
    BY DEF GrantInv
  <2>2. CASE s.access = None
    BY <2>1, <2>2, CliAssumption DEF OneSignIn
  <2>3. CASE s.access # None
    BY <1>3, <2>1, <2>3 DEF OneSignIn, Owner
  <2> QED  BY <2>2, <2>3
<1>5. \A s, t \in Remembered : SameGrant(s, t)'
  BY <1>3 DEF GrantInv, SameGrant
<1>6. ASSUME NEW q \in Procs PROVE Faithful(proc[q])'
  <2> DEFINE l == proc[q]
  <2>1. Faithful(l) /\ Prepared(l) /\ l.snap \in Remembered /\ l.cur \in Remembered
    BY Knows
  <2>2. l.bearer \in Known \cup {None} /\ l.got \in Known \cup {None}
    BY Knows DEF Locals
  <2> HIDE DEF l
  <2>3. Faithful(l)'
    <3>1. l.bearer # None => grant'[l.bearer] = grant[l.bearer]
      BY <2>2
    <3>2. l.pc = "apply" => grant'[l.got] = grant[l.got]
      BY <2>1, <2>2 DEF Prepared
    <3>3. /\ l.snap.access # None => grant'[l.snap.access] = grant[l.snap.access]
          /\ l.cur.access # None => grant'[l.cur.access] = grant[l.cur.access]
      BY <1>3, <2>1
    <3>4. l' = l
      BY <1>1 DEF l
    <3> QED  BY <2>1, <3>1, <3>2, <3>3, <3>4 DEF Faithful, Refreshing, Owner
  <2> QED  BY <2>3 DEF l
<1>7. \A m \in posts' : m.got # None => grant'[m.got] = GrantOf(m.token)'
  <2> SUFFICES ASSUME NEW m \in posts, m.got # None PROVE grant'[m.got] = GrantOf(m.token)'
    OBVIOUS
  <2>1. m.got \in Known /\ m.token \in Slts \cup Known
    BY DEF TypeOK, Posts
  <2> QED  BY <2>1 DEF GrantInv, GrantOf
<1> QED  BY <1>0, <1>1, <1>4, <1>5, <1>6, <1>7 DEF GrantInv

LEMMA GrantBackend ==
  ASSUME TypeOK, Unopened, GrantInv, Backend, UNCHANGED cliVars
  PROVE  GrantInv'
<1>1. PICK m \in posts : BackendClaim(m) \/ BackendRefuses(m) \/ AccountsRedeems(m)
  BY DEF Backend
<1>2. m \in Posts /\ m.token \in Slts \cup Known /\ minted \in Nat
  BY CliAssumption DEF TypeOK, Posts, Credentials
<1>3. \A stage, got : [m EXCEPT !.stage = stage, !.got = got].got = got /\ [m EXCEPT !.stage = stage, !.got = got].token = m.token
  BY <1>2 DEF Posts
<1>4. ASSUME NEW stage, posts' = Advance(m, stage, None), grant' = grant PROVE GrantInv'
  <2>1. \A n \in posts' : n.got # None => n \in posts
    BY <1>3, <1>4 DEF Advance
  <2> QED  BY <1>4, <2>1, GrantGrows
<1>5. ASSUME minted < MaxCredentials, NEW got \in {minted + 1, None}, posts' = Advance(m, "answered", got),
             grant' = [grant EXCEPT ![minted + 1] = IF m.token \in Slts THEN m.token ELSE grant[m.token]]
      PROVE  GrantInv'
  <2>1. minted + 1 \in Credentials /\ minted + 1 \notin Known
    BY <1>2, <1>5, CliAssumption DEF Credentials, Known
  <2>2. grant'[minted + 1] = GrantOf(m.token) /\ \A c \in Known : grant'[c] = grant[c]
    BY <1>5, <2>1 DEF TypeOK, GrantOf
  <2>3. GrantOf(m.token)' = GrantOf(m.token)
    BY <1>2, <2>2 DEF GrantOf
  <2> DEFINE a == [m EXCEPT !.stage = "answered", !.got = got]
  <2>4. a.got = got /\ a.token = m.token
    BY <1>3
  <2>5. \A n \in posts' : n \in posts \/ n = a
    BY <1>5 DEF Advance
  <2> HIDE DEF a
  <2>6. \A n \in posts' : n.got # None => n \in posts \/ grant'[n.got] = GrantOf(n.token)'
    <3> SUFFICES ASSUME NEW n \in posts', n.got # None, n \notin posts PROVE grant'[n.got] = GrantOf(n.token)'
      OBVIOUS
    <3>1. n = a /\ got = minted + 1
      BY <1>5, <2>4, <2>5
    <3>2. GrantOf(n.token)' = GrantOf(m.token)'
      BY <2>4, <3>1 DEF GrantOf
    <3> QED  BY <2>2, <2>3, <2>4, <3>1, <3>2
  <2> QED  BY <2>2, <2>6, GrantGrows
<1>6. CASE BackendClaim(m) \/ BackendRefuses(m)
  <2>1. grant' = grant /\ \E stage : posts' = Advance(m, stage, None)
    BY <1>6 DEF BackendClaim, BackendRefuses
  <2> QED  BY <1>4, <2>1
<1>7. CASE AccountsRedeems(m)
  <2>1. CASE posts' = Advance(m, "answered", None) /\ grant' = grant
    BY <1>4, <2>1
  <2>2. CASE ~(posts' = Advance(m, "answered", None) /\ grant' = grant)
    BY <1>5, <1>7, <2>2 DEF AccountsRedeems
  <2> QED  BY <2>1, <2>2
<1> QED  BY <1>1, <1>6, <1>7

LEMMA GrantNext ==
  ASSUME TypeOK, Unopened, GrantInv, [Next]_vars
  PROVE  GrantKept
<1>0. ASSUME file' = file PROVE file' # None => Fits(file')
  BY <1>0, RememberedFits, FileRemembered
<1>1. CASE UNCHANGED vars
  BY <1>0, <1>1, GrantGrows DEF vars, backendVars, cliVars, GrantKept
<1>2. ASSUME NEW p \in Procs, Local(p), UNCHANGED backendVars PROVE GrantKept
  BY <1>2, GrantLocal
<1>3. ASSUME NEW p \in Procs, Send(p) \/ Answered(p) \/ Exchange(p) \/ SignIn(p) PROVE GrantKept
  BY <1>3, GrantSend, GrantAnswered, GrantSignIn
<1>4. CASE PowerLoss /\ UNCHANGED backendVars
  BY <1>4, GrantPowerLoss
<1>5. CASE Backend /\ UNCHANGED cliVars
  BY <1>0, <1>5, GrantBackend DEF cliVars, GrantKept
<1> QED  BY <1>1, <1>2, <1>3, <1>4, <1>5 DEF Next

LEMMA GrantInit == Init => GrantInv
<1> SUFFICES ASSUME Init PROVE GrantInv
  OBVIOUS
<1>1. \A p \in Procs : proc[p].snap = SignedOut /\ proc[p].cur = SignedOut /\ proc[p].bearer = None /\ proc[p].pc = "idle"
  BY DEF Init, Idle, Fresh
<1>2. Remembered \subseteq {SignedOut}
  BY <1>1 DEF Remembered, Init
<1>3. OneSignIn(SignedOut) /\ SignedOut.gen = None
  BY CliAssumption DEF SignedOut, OneSignIn
<1>4. \A p \in Procs : Faithful(proc[p])
  BY <1>1 DEF Faithful, Refreshing
<1>5. \A s, t \in Remembered : SameGrant(s, t)
  BY <1>2, <1>3 DEF SameGrant
<1>6. grant[1] = Legacy /\ posts = {}
  BY CliAssumption DEF Init, Credentials
<1> QED  BY <1>2, <1>3, <1>4, <1>5, <1>6 DEF GrantInv

(* What the files and the commands remember of sign-ins: each state is of one  *)
(* sign-in, each login generation of one grant, and a command knows whose      *)
(* tokens it refreshes and uses.                                               *)
THEOREM GrantInvariant == Spec => []GrantInv
<1>1. Init => GrantInv
  BY GrantInit
<1>2. TypeOK /\ Unopened /\ GrantInv /\ [Next]_vars => GrantInv'
  BY GrantNext DEF GrantKept
<1>3. Spec => [](TypeOK /\ Unopened)
  BY TypeCorrect
<1> QED  BY <1>1, <1>2, <1>3, PTL DEF Spec

(* The stored identity is the account of the stored access token, whichever    *)
(* commands sign in, refresh, verify and sign out at the same time (set_tokens, *)
(* apply_auth_session, recover_rejected_access, setup).                        *)
THEOREM IdentitiesBound == Spec => []IdentityBound
<1>1. GrantInv => IdentityBound
  BY FileRemembered DEF GrantInv, OneSignIn, IdentityBound
<1> QED  BY <1>1, GrantInvariant, PTL

(* A command never acts with the tokens of another sign-in than the one it     *)
(* started with or made itself (refresh_if_needed, recover_rejected_access).   *)
THEOREM IntentsKept == Spec => []IntentKept
<1>1. GrantInv => IntentKept
  BY DEF GrantInv, Faithful, IntentKept
<1> QED  BY <1>1, GrantInvariant, PTL

(* All tokens ever stored under one login generation are of one grant: what   *)
(* arrives late never replaces the tokens of a newer sign-in (same_binding).  *)
THEOREM GenerationsKeepGrants == Spec => GenerationKeepsGrant
<1> DEFINE Kept ==
      \A s \in {file, disk} :
        /\ s # None /\ file' # None
        /\ s.gen # None /\ s.gen = file'.gen
        /\ s.access # None /\ file'.access # None
        => grant[s.access] = grant[file'.access]
<1>1. TypeOK /\ Unopened /\ GrantInv /\ [Next]_vars => Kept
  <2> SUFFICES ASSUME TypeOK, Unopened, GrantInv, [Next]_vars, NEW s \in {file, disk}, s # None, file' # None
               PROVE  SameGrant(s, file')
    BY DEF SameGrant
  <2>1. Fits(file')
    BY GrantNext DEF GrantKept
  <2>2. s \in Remembered
    BY FileRemembered
  <2> QED  BY <2>1, <2>2 DEF Fits
<1> HIDE DEF Kept
<1>2. Spec => []GrantInv /\ [](TypeOK /\ Unopened)
  BY GrantInvariant, TypeCorrect
<1>3. Spec => [][Kept]_vars
  BY <1>1, <1>2, PTL DEF Spec
<1> QED  BY <1>3 DEF GenerationKeepsGrant, Kept

(* Every step that stores a credential where none is stored is a sign-in. *)
LEMMA SignOutStep ==
  ASSUME TypeOK, Unopened, GrantInv, [Next]_vars, file # None, ~HasCredential(file), HasCredential(file')
  PROVE  file' = disk \/ (generations' > generations /\ file'.gen = generations')
<1>0. file' # file
  BY DEF HasCredential
<1>1. CASE PowerLoss
  BY <1>1 DEF PowerLoss
<1>2. ASSUME NEW p \in Procs, SignIn(p) PROVE generations' > generations /\ file'.gen = generations'
  <2>1. PICK m \in Answer(p, proc[p].token) :
          \/ Stop(p) /\ UNCHANGED <<file, disk, legacy, generations>>
          \/ generations' = generations + 1 /\ Update(p, Renewed(m), Entered(p, m))
    BY <1>2, SignInShape
  <2>2. generations' = generations + 1 /\ file' = Renewed(m) /\ generations \in Nat
    BY <1>0, <2>1 DEF Update, TypeOK
  <2> QED  BY <2>2 DEF Renewed
<1>3. ASSUME NEW p \in Procs, Local(p) PROVE FALSE
  <2>1. ~Open(p) /\ ~Sync(p) /\ ~Check(p) /\ ~LockExpired(p) /\ ~LockRejected(p)
    BY <1>0 DEF Open, Sync, Check, LockExpired, LockRejected
  <2>2. ~Served(p) /\ ~Rejected(p) /\ ~Prompt(p) /\ ~GiveUp(p)
    BY <1>0 DEF Served, Rejected, Prompt, GiveUp
  <2>3. ~Logout(p)
    BY DEF Logout, Update, SignedOut, HasCredential
  <2>4. ~NameGeneration(p)
    <3> SUFFICES ASSUME NameGeneration(p) PROVE FALSE
      OBVIOUS
    <3>1. file \in States
      BY FileThere DEF NameGeneration, At
    <3>2. file'.access = file.access /\ file'.refresh = file.refresh
      BY <3>1 DEF NameGeneration, Update, States
    <3> QED  BY <3>2 DEF HasCredential
  <2>5. ~Claim(p)
    <3> SUFFICES ASSUME Claim(p) PROVE FALSE
      OBVIOUS
    <3>1. file.refresh = proc[p].cur.refresh /\ proc[p].pc = "claim"
      BY <1>0 DEF Claim, At
    <3> QED  BY <3>1, Knows DEF Prepared, HasCredential
  <2>6. ~Apply(p)
    <3> SUFFICES ASSUME Apply(p) PROVE FALSE
      OBVIOUS
    <3>1. SameBinding(file, proc[p].cur) /\ proc[p].pc = "apply"
      BY <1>0 DEF Apply, At
    <3>2. proc[p].cur.access # None /\ OneSignIn(proc[p].cur) /\ OneSignIn(file)
      BY <3>1, Knows, RememberedFits DEF Faithful, Refreshing, Fits
    <3>3. file.access # None
      BY <3>1, <3>2 DEF SameBinding, OneSignIn
    <3> QED  BY <3>3 DEF HasCredential
  <2>7. ~Attach(p)
    <3> SUFFICES ASSUME Attach(p) PROVE FALSE
      OBVIOUS
    <3>1. file.access = proc[p].snap.access /\ proc[p].pc = "attach"
      BY <1>0 DEF Attach, At
    <3>2. proc[p].snap.access # None
      BY <3>1, Knows DEF Prepared, Faithful
    <3> QED  BY <3>1, <3>2 DEF HasCredential
  <2> QED  BY <1>3, <2>1, <2>2, <2>3, <2>4, <2>5, <2>6, <2>7 DEF Local
<1>4. ASSUME NEW p \in Procs, Send(p) \/ Answered(p) \/ Exchange(p) PROVE FALSE
  BY <1>0, <1>4 DEF Send, Answered, Exchange
<1>5. CASE UNCHANGED vars \/ UNCHANGED cliVars
  BY <1>0, <1>5 DEF vars, cliVars
<1> QED  BY <1>1, <1>2, <1>3, <1>4, <1>5 DEF Next

(* Signing out is final: no command that was at work meanwhile puts back a   *)
(* credential; only a new sign-in does, or a power loss before the sign-out   *)
(* was durable (logout, same_binding, apply_auth_session).                    *)
THEOREM SigningOutIsFinal == Spec => SignOutFinal
<1> DEFINE Final ==
      file # None /\ ~HasCredential(file) /\ HasCredential(file')
      => file' = disk \/ (generations' > generations /\ file'.gen = generations')
<1>1. TypeOK /\ Unopened /\ GrantInv /\ [Next]_vars => Final
  BY SignOutStep
<1> HIDE DEF Final
<1>2. Spec => []GrantInv /\ [](TypeOK /\ Unopened)
  BY GrantInvariant, TypeCorrect
<1>3. Spec => [][Final]_vars
  BY <1>1, <1>2, PTL DEF Spec
<1> QED  BY <1>3 DEF SignOutFinal, Final
-----------------------------------------------------------------------------
(* The website part of the runs (WebsiteSession), for any tabs, accounts   *)
(* and calls.                                                              *)

(* A session descends from a sign-in of its account; a saved session that  *)
(* was sent is marked, and what is marked was sent.                        *)
Rooted ==
  \A i \in DOMAIN issued :
    issued[i].signIn \in 1..i /\ issued[issued[i].signIn].account = issued[i].account

Storage ==
  /\ Rooted
  /\ signedOut \subseteq DOMAIN issued
  /\ Website!SignOutFinal
  /\ \A a \in Members :
       /\ saved.session[a] \in seen => saved.mark[a] = saved.session[a]
       /\ saved.mark[a] # None => saved.mark[a] \in seen
  /\ Website!SentOnce

(* A flight belongs to the call that began it and waits for it; what it    *)
(* brings is of the account it set out for.                                *)
Flying(f) ==
  /\ flight[f].pc = "idle" => flight[f].tab = None
  /\ flight[f].pc # "idle" =>
       /\ flight[f].session # None /\ flight[f].tab \in Tabs
       /\ flight[f].result # None => Website!Account(flight[f].result) = Website!Account(flight[f].session)
       /\ call[f].pc = "await" /\ call[f].joined = f

Flights ==
  /\ \A f \in Calls : Flying(f)
  /\ lock # None => flight[lock].pc = "asked"

Under(c) == call[c].pc \in {"await", "asked"}

(* A call under way was not handled, and while the generation of its tab   *)
(* is the call's, the tab is signed in to the account that made the call.  *)
MadeCall(c) ==
  /\ handled[c].by \in {<<>>, <<handled[c].maker>>}
  /\ call[c].pc = "unmade" \/ Under(c) => handled[c].by = <<>>
  /\ Under(c) =>
       /\ call[c].tab \in Tabs /\ call[c].gen <= tab[call[c].tab].gen
       /\ call[c].gen = tab[call[c].tab].gen /\ tab[call[c].tab].session # None
            => Website!Account(tab[call[c].tab].session) = handled[c].maker
  /\ call[c].pc = "asked" => call[c].sent # None /\ Website!Account(call[c].sent) = handled[c].maker
  /\ call[c].pc = "await" =>
       /\ call[c].joined \in Calls /\ flight[call[c].joined].pc # "idle"
       /\ flight[call[c].joined].tab = call[c].tab /\ flight[call[c].joined].gen = call[c].gen

MadeCalls == \A c \in Calls : MadeCall(c)

WebInv == Website!TypeOK /\ Storage /\ Flights /\ MadeCalls

(* Sessions that were given out stay what they are. *)
IssuedStays ==
  DOMAIN issued \subseteq DOMAIN issued' /\ \A i \in DOMAIN issued : issued'[i] = issued[i]

LEMMA IssueOne ==
  ASSUME WebInv, NEW r \in [account : Members, signIn : Website!Tokens],
         issued' = Append(issued, r),
         r.signIn = Website!Fresh
           \/ (r.signIn \in DOMAIN issued /\ issued[r.signIn].account = r.account)
  PROVE  /\ IssuedStays /\ Website!Fresh \in DOMAIN issued' /\ Website!Fresh \notin DOMAIN issued
         /\ issued'[Website!Fresh] = r /\ Website!Fresh \in Nat
         /\ Rooted'
         /\ issued' \in Seq([account : Members, signIn : Website!Tokens])
         /\ DOMAIN issued' = DOMAIN issued \cup {Website!Fresh}
         /\ Len(issued') = Website!Fresh
<1>1. issued \in Seq([account : Members, signIn : Website!Tokens]) /\ Website!Fresh = Len(issued) + 1
  BY DEF WebInv, Website!TypeOK, Website!Fresh
<1>2. /\ DOMAIN issued = 1..Len(issued) /\ Len(issued) \in Nat
      /\ DOMAIN issued' = 1..(Len(issued) + 1) /\ issued' \in Seq([account : Members, signIn : Website!Tokens])
      /\ issued'[Len(issued) + 1] = r /\ \A i \in DOMAIN issued : issued'[i] = issued[i]
      /\ Len(issued') = Len(issued) + 1
  BY <1>1
<1>3. ASSUME NEW i \in DOMAIN issued'
      PROVE  issued'[i].signIn \in 1..i /\ issued'[issued'[i].signIn].account = issued'[i].account
  <2>1. CASE i \in DOMAIN issued
    <3>1. issued[i].signIn \in 1..i /\ issued[issued[i].signIn].account = issued[i].account
      BY <2>1 DEF WebInv, Storage, Rooted
    <3>2. issued[i].signIn \in DOMAIN issued
      BY <1>2, <2>1, <3>1
    <3> QED  BY <1>2, <2>1, <3>1, <3>2
  <2>2. CASE i = Len(issued) + 1
    BY <1>1, <1>2, <2>2
  <2> QED  BY <1>2, <2>1, <2>2
<1> QED  BY <1>1, <1>2, <1>3 DEF IssuedStays, Rooted

LEMMA SavedTypes ==
  ASSUME WebInv, NEW a \in Members
  PROVE  /\ saved.session[a] \in DOMAIN issued \cup {None} /\ saved.mark[a] \in DOMAIN issued \cup {None}
         /\ DOMAIN saved.session = Members /\ DOMAIN saved.mark = Members
         /\ seen \subseteq DOMAIN issued /\ None \notin DOMAIN issued /\ None \notin Members
<1>1. saved.session \in [Members -> DOMAIN issued \cup {None}] /\ saved.mark \in [Members -> DOMAIN issued \cup {None}]
  BY DEF WebInv, Website!TypeOK
<1>2. seen \subseteq DOMAIN issued /\ issued \in Seq([account : Members, signIn : Website!Tokens])
  BY DEF WebInv, Website!TypeOK
<1>3. DOMAIN issued \subseteq Nat
  BY <1>2
<1> QED  BY <1>1, <1>2, <1>3, PartAssumption DEF Website!WebsiteAssumption

(* Sessions leave the storage: what is left is as good as it was. *)
LEMMA StorageShrinks ==
  ASSUME WebInv, IssuedStays, Rooted', seen' = seen, resent' = resent, signedOut' = signedOut,
         (saved'.session = saved.session /\ saved'.mark = saved.mark)
           \/ \E a \in Members : saved' = Website!Without(a)
  PROVE  Storage'
<1>1. ASSUME NEW b \in Members
      PROVE  /\ saved'.session[b] \in {None, saved.session[b]}
             /\ saved'.mark[b] \in {None, saved.mark[b]}
             /\ saved'.session[b] # None => saved'.mark[b] = saved.mark[b]
  <2>1. CASE saved'.session = saved.session /\ saved'.mark = saved.mark
    BY <2>1
  <2>2. ASSUME NEW a \in Members, saved' = Website!Without(a)
        PROVE  /\ saved'.session[b] \in {None, saved.session[b]}
               /\ saved'.mark[b] \in {None, saved.mark[b]}
               /\ saved'.session[b] # None => saved'.mark[b] = saved.mark[b]
    BY <2>2, SavedTypes DEF Website!Without
  <2> QED  BY <2>1, <2>2
<1>2. Website!SignOutFinal'
  <2> SUFFICES ASSUME NEW b \in Members, saved'.session[b] # None
               PROVE  /\ issued'[saved'.session[b]].signIn \notin signedOut
                      /\ issued'[saved'.session[b]].account = b
    BY DEF Website!SignOutFinal, Website!Account
  <2>1. saved'.session[b] = saved.session[b] /\ saved.session[b] \in DOMAIN issued
    BY <1>1, SavedTypes
  <2> QED  BY <2>1 DEF WebInv, Storage, Website!SignOutFinal, Website!Account, IssuedStays
<1>3. ASSUME NEW b \in Members
      PROVE  /\ saved'.session[b] \in seen => saved'.mark[b] = saved'.session[b]
             /\ saved'.mark[b] # None => saved'.mark[b] \in seen
  BY <1>1, SavedTypes DEF WebInv, Storage
<1>4. signedOut' \subseteq DOMAIN issued' /\ Website!SentOnce'
  BY DEF WebInv, Storage, IssuedStays, Website!SentOnce
<1> QED  BY <1>2, <1>3, <1>4 DEF Storage

(* A new session takes the place of the account's. *)
LEMMA StorageGrows ==
  ASSUME WebInv, IssuedStays, Rooted', seen' = seen, resent' = resent, signedOut' = signedOut,
         NEW a \in Members, Website!Fresh \in DOMAIN issued', Website!Fresh \notin DOMAIN issued,
         issued'[Website!Fresh].account = a, issued'[Website!Fresh].signIn \notin signedOut,
         saved'.session = [saved.session EXCEPT ![a] = Website!Fresh],
         saved'.mark = [saved.mark EXCEPT ![a] = None]
  PROVE  Storage'
<1> DEFINE new == Website!Fresh
<1>0. new \in DOMAIN issued' /\ new \notin DOMAIN issued /\ issued'[new].account = a
      /\ issued'[new].signIn \notin signedOut
  OBVIOUS
<1>1. ASSUME NEW b \in Members
      PROVE  /\ saved'.session[b] = IF b = a THEN new ELSE saved.session[b]
             /\ saved'.mark[b] = IF b = a THEN None ELSE saved.mark[b]
  BY SavedTypes
<1> HIDE DEF new
<1>2. Website!SignOutFinal'
  <2> SUFFICES ASSUME NEW b \in Members, saved'.session[b] # None
               PROVE  /\ issued'[saved'.session[b]].signIn \notin signedOut
                      /\ issued'[saved'.session[b]].account = b
    BY DEF Website!SignOutFinal, Website!Account
  <2>1. CASE b = a
    BY <1>0, <1>1, <2>1
  <2>2. CASE b # a
    <3>1. saved'.session[b] = saved.session[b] /\ saved.session[b] \in DOMAIN issued
      BY <1>1, <2>2, SavedTypes
    <3> QED  BY <3>1 DEF WebInv, Storage, Website!SignOutFinal, Website!Account, IssuedStays
  <2> QED  BY <2>1, <2>2
<1>3. ASSUME NEW b \in Members
      PROVE  /\ saved'.session[b] \in seen => saved'.mark[b] = saved'.session[b]
             /\ saved'.mark[b] # None => saved'.mark[b] \in seen
  BY <1>0, <1>1, SavedTypes DEF WebInv, Storage
<1>4. signedOut' \subseteq DOMAIN issued' /\ Website!SentOnce'
  BY DEF WebInv, Storage, IssuedStays, Website!SentOnce
<1> QED  BY <1>2, <1>3, <1>4 DEF Storage

LEMMA FlightTypes ==
  ASSUME WebInv
  PROVE  /\ \A f \in Calls : flight[f].session \in DOMAIN issued \cup {None}
                             /\ flight[f].result \in DOMAIN issued \cup {None} /\ flight[f].gen \in Nat
                             /\ flight[f].tab \in Tabs \cup {None}
         /\ \A c \in Calls : call[c].sent \in DOMAIN issued \cup {None} /\ call[c].gen \in Nat
                             /\ call[c].tab \in Tabs \cup {None} /\ call[c].joined \in Calls \cup {None}
         /\ \A t \in Tabs : tab[t].session \in DOMAIN issued \cup {None} /\ tab[t].gen \in Nat
         /\ lock \in Calls \cup {None} /\ None \notin DOMAIN issued /\ None \notin Calls /\ None \notin Tabs
<1>1. /\ flight \in [Calls -> [pc : {"idle", "queued", "asked", "result"}, tab : Tabs \cup {None}, gen : Nat,
                               session : DOMAIN issued \cup {None}, result : DOMAIN issued \cup {None}]]
      /\ call \in [Calls -> [pc : {"unmade", "await", "asked", "done", "failed", "gone"}, tab : Tabs \cup {None},
                             gen : Nat, sent : DOMAIN issued \cup {None}, joined : Calls \cup {None},
                             replay : BOOLEAN]]
      /\ tab \in [Tabs -> [open : BOOLEAN, session : DOMAIN issued \cup {None}, gen : Nat]]
      /\ lock \in Calls \cup {None}
  BY DEF WebInv, Website!TypeOK
<1>2. issued \in Seq([account : Members, signIn : Website!Tokens])
  BY DEF WebInv, Website!TypeOK
<1>3. DOMAIN issued \subseteq Nat
  BY <1>2
<1> QED  BY <1>1, <1>3, PartAssumption DEF Website!WebsiteAssumption

(* A tab that gets another session leaves its calls and flights behind. *)
LEMMA TabMoves ==
  ASSUME WebInv, IssuedStays, NEW t \in Tabs,
         \A u \in Tabs : u # t => tab'[u] = tab[u],
         tab'[t].gen = tab[t].gen + 1,
         UNCHANGED <<lock, flight, call, handled>>
  PROVE  Flights' /\ MadeCalls'
<1>1. ASSUME NEW x \in DOMAIN issued \cup {None} PROVE Website!Account(x)' = Website!Account(x)
  BY FlightTypes DEF Website!Account, IssuedStays
<1>2. Flights'
  <2> SUFFICES ASSUME NEW f \in Calls, flight[f].pc # "idle", flight[f].result # None
               PROVE  issued'[flight[f].result].account =
                        (IF flight[f].session = None THEN None ELSE issued'[flight[f].session].account)
    BY DEF WebInv, Flights, Flying, Website!Account
  <2> QED  BY FlightTypes DEF WebInv, Flights, Flying, Website!Account, IssuedStays
<1>3. MadeCalls'
  <2> SUFFICES ASSUME NEW c \in Calls PROVE MadeCall(c)'
    BY DEF MadeCalls
  <2>1. Under(c) =>
          /\ call[c].gen <= tab'[call[c].tab].gen
          /\ call[c].gen = tab'[call[c].tab].gen => tab'[call[c].tab] = tab[call[c].tab]
    BY FlightTypes DEF WebInv, MadeCalls, MadeCall
  <2>2. call[c].pc = "asked" => issued'[call[c].sent].account = handled[c].maker
    BY FlightTypes DEF WebInv, MadeCalls, MadeCall, Website!Account, IssuedStays
  <2>3. Under(c) /\ call[c].gen = tab[call[c].tab].gen /\ tab[call[c].tab].session # None
          => issued'[tab[call[c].tab].session].account = handled[c].maker
    BY FlightTypes DEF WebInv, MadeCalls, MadeCall, Website!Account, IssuedStays
  <2> QED  BY <2>1, <2>2, <2>3 DEF MadeCall, WebInv, MadeCalls, Website!Account, Under
<1> QED  BY <1>2, <1>3

(* A flight comes to its result, of the account it set out for. *)
LEMMA ResultMoves ==
  ASSUME WebInv, IssuedStays, NEW f \in Calls, flight[f].pc # "idle",
         NEW r \in DOMAIN issued' \cup {None},
         r # None => issued'[r].account = issued[flight[f].session].account,
         flight' = [flight EXCEPT ![f].pc = "result", ![f].result = r],
         lock' = None, UNCHANGED <<tab, call, handled>>
  PROVE  Flights' /\ MadeCalls'
<1>1. /\ flight'[f].pc = "result" /\ flight'[f].result = r
      /\ flight'[f].session = flight[f].session /\ flight'[f].tab = flight[f].tab /\ flight'[f].gen = flight[f].gen
      /\ \A g \in Calls : g # f => flight'[g] = flight[g]
  BY DEF WebInv, Website!TypeOK
<1>2. Flights'
  <2>0. flight[f].session \in DOMAIN issued
    BY FlightTypes DEF WebInv, Flights, Flying
  <2>1. ASSUME NEW g \in Calls
        PROVE  /\ flight'[g].pc = "idle" => flight'[g].tab = None
               /\ flight'[g].pc # "idle" =>
                    /\ flight'[g].session # None /\ flight'[g].tab \in Tabs
                    /\ flight'[g].result # None =>
                         Website!Account(flight[g].result)' = Website!Account(flight[g].session)'
                    /\ call[g].pc = "await" /\ call[g].joined = g
    <3>1. CASE g = f
      <4>1. flight[f].tab \in Tabs /\ call[f].pc = "await" /\ call[f].joined = f
        BY DEF WebInv, Flights, Flying
      <4> QED  BY <1>1, <2>0, <3>1, <4>1, FlightTypes DEF IssuedStays, Website!Account
    <3>2. CASE g # f
      <4>1. flight'[g] = flight[g]
        BY <1>1, <3>2
      <4> QED  BY <4>1, FlightTypes DEF WebInv, Flights, Flying, IssuedStays, Website!Account
    <3> QED  BY <3>1, <3>2
  <2> QED  BY <2>1, Zenon DEF Flights, Flying
<1>3. MadeCalls'
  <2> SUFFICES ASSUME NEW c \in Calls PROVE MadeCall(c)'
    BY DEF MadeCalls
  <2>1. call[c].pc = "await" =>
          /\ flight'[call[c].joined].pc # "idle"
          /\ flight'[call[c].joined].tab = call[c].tab /\ flight'[call[c].joined].gen = call[c].gen
    <3>1. call[c].pc = "await" =>
            /\ call[c].joined \in Calls /\ flight[call[c].joined].pc # "idle"
            /\ flight[call[c].joined].tab = call[c].tab /\ flight[call[c].joined].gen = call[c].gen
      BY DEF WebInv, MadeCalls, MadeCall
    <3> QED  BY <1>1, <3>1
  <2>2. call[c].pc = "asked" => issued'[call[c].sent].account = handled[c].maker
    BY FlightTypes DEF WebInv, MadeCalls, MadeCall, Website!Account, IssuedStays
  <2>3. Under(c) /\ call[c].gen = tab[call[c].tab].gen /\ tab[call[c].tab].session # None
          => issued'[tab[call[c].tab].session].account = handled[c].maker
    BY FlightTypes DEF WebInv, MadeCalls, MadeCall, Website!Account, IssuedStays
  <2> QED  BY <2>1, <2>2, <2>3 DEF MadeCall, WebInv, MadeCalls, Website!Account, Under
<1> QED  BY <1>2, <1>3

(* Types, by variable. *)
Handed == DOMAIN issued \cup {None}
SavedSet == [active : Members \cup {None}, session : [Members -> Handed], mark : [Members -> Handed]]
TabSet == [Tabs -> [open : BOOLEAN, session : Handed, gen : Nat]]
FlightSet ==
  [Calls -> [pc : {"idle", "queued", "asked", "result"}, tab : Tabs \cup {None}, gen : Nat,
             session : Handed, result : Handed]]
CallSet ==
  [Calls -> [pc : {"unmade", "await", "asked", "done", "failed", "gone"}, tab : Tabs \cup {None}, gen : Nat,
             sent : Handed, joined : Calls \cup {None}, replay : BOOLEAN]]

LEMMA WebTypes ==
  Website!TypeOK <=>
    /\ issued \in Seq([account : Members, signIn : Website!Tokens]) /\ Len(issued) <= MaxTokens
    /\ saved \in SavedSet /\ tab \in TabSet /\ lock \in Calls \cup {None} /\ flight \in FlightSet /\ call \in CallSet
    /\ seen \subseteq DOMAIN issued /\ resent \subseteq seen
    /\ handled \in [Calls -> [maker : Members \cup {None}, by : Seq(Members)]]
BY DEF Website!TypeOK, Handed, SavedSet, TabSet, FlightSet, CallSet

LEMMA WebTypesNext ==
  ASSUME issued' \in Seq([account : Members, signIn : Website!Tokens]), Len(issued') <= MaxTokens,
         saved' \in SavedSet', tab' \in TabSet', lock' \in Calls \cup {None}, flight' \in FlightSet',
         call' \in CallSet', seen' \subseteq DOMAIN issued', resent' \subseteq seen',
         handled' \in [Calls -> [maker : Members \cup {None}, by : Seq(Members)]]
  PROVE  Website!TypeOK'
BY DEF Website!TypeOK, Website!Tokens, Handed, SavedSet, TabSet, FlightSet, CallSet

LEMMA TypesGrow ==
  ASSUME WebInv, IssuedStays
  PROVE  /\ saved \in SavedSet' /\ saved \in SavedSet
         /\ tab \in TabSet' /\ flight \in FlightSet' /\ call \in CallSet'
         /\ Handed \subseteq Handed'
<1>1. Handed \subseteq Handed' /\ saved \in SavedSet /\ tab \in TabSet /\ flight \in FlightSet /\ call \in CallSet
  BY WebTypes DEF IssuedStays, Handed, WebInv
<1> DEFINE H == Handed
           K == Handed'
<1>2. H \subseteq K
  BY <1>1
<1> HIDE DEF H, K
<1>3. ASSUME NEW x, x \in [active : Members \cup {None}, session : [Members -> H], mark : [Members -> H]]
      PROVE  x \in [active : Members \cup {None}, session : [Members -> K], mark : [Members -> K]]
  BY <1>2, <1>3
<1>4. [open : BOOLEAN, session : H, gen : Nat] \subseteq [open : BOOLEAN, session : K, gen : Nat]
  BY <1>2
<1>5. [pc : {"idle", "queued", "asked", "result"}, tab : Tabs \cup {None}, gen : Nat, session : H, result : H]
        \subseteq [pc : {"idle", "queued", "asked", "result"}, tab : Tabs \cup {None}, gen : Nat, session : K, result : K]
  BY <1>2
<1>6. [pc : {"unmade", "await", "asked", "done", "failed", "gone"}, tab : Tabs \cup {None}, gen : Nat,
       sent : H, joined : Calls \cup {None}, replay : BOOLEAN]
        \subseteq [pc : {"unmade", "await", "asked", "done", "failed", "gone"}, tab : Tabs \cup {None}, gen : Nat,
                   sent : K, joined : Calls \cup {None}, replay : BOOLEAN]
  BY <1>2
<1> USE DEF H, K
<1>7. saved \in SavedSet'
  BY <1>1, <1>3 DEF SavedSet
<1>8. tab \in TabSet'
  BY <1>1, <1>4 DEF TabSet
<1>9. flight \in FlightSet'
  BY <1>1, <1>5 DEF FlightSet
<1>10. call \in CallSet'
  BY <1>1, <1>6 DEF CallSet
<1> QED  BY <1>1, <1>7, <1>8, <1>9, <1>10

LEMMA NothingIssued ==
  ASSUME WebInv, issued' = issued
  PROVE  IssuedStays /\ Rooted' /\ issued' \in Seq([account : Members, signIn : Website!Tokens])
         /\ Len(issued') <= MaxTokens
BY DEF WebInv, Storage, IssuedStays, Rooted, Website!TypeOK

(* What people do with a tab. *)
LEMMA WebSignIn ==
  ASSUME WebInv, NEW t \in Tabs, NEW a \in Members, Website!SignIn(t, a)
  PROVE  WebInv'
<1> DEFINE r == [account |-> a, signIn |-> Website!Fresh]
<1>1. r \in [account : Members, signIn : Website!Tokens] /\ issued' = Append(issued, r)
  BY DEF Website!SignIn
<1>2. /\ IssuedStays /\ Rooted' /\ Website!Fresh \in DOMAIN issued' /\ Website!Fresh \notin DOMAIN issued
      /\ issued'[Website!Fresh] = r /\ Website!Fresh \in Nat /\ Len(issued') = Website!Fresh
      /\ issued' \in Seq([account : Members, signIn : Website!Tokens])
  BY <1>1, IssueOne
<1>3. Website!Fresh <= MaxTokens
  BY <1>2, PartAssumption DEF Website!SignIn, Website!Tokens, Website!WebsiteAssumption
<1>4. /\ saved'.active = a /\ saved'.session = [saved.session EXCEPT ![a] = Website!Fresh]
      /\ saved'.mark = [saved.mark EXCEPT ![a] = None]
      /\ saved' = [active |-> saved'.active, session |-> saved'.session, mark |-> saved'.mark]
  <2>1. saved' = [active |-> a, session |-> [saved.session EXCEPT ![a] = Website!Fresh],
                  mark |-> [saved.mark EXCEPT ![a] = IF saved.session[a] = Website!Fresh THEN @ ELSE None]]
    BY DEF Website!SignIn, Website!Keeping
  <2>2. saved.session[a] # Website!Fresh
    BY <1>2, SavedTypes, PartAssumption DEF Website!WebsiteAssumption
  <2> QED  BY <2>1, <2>2
<1>5. Storage'
  <2>1. Website!Fresh \notin signedOut
    BY <1>2 DEF WebInv, Storage
  <2> QED  BY <1>2, <1>4, <2>1, StorageGrows DEF Website!SignIn, Website!history
<1>6. tab' = [tab EXCEPT ![t].session = Website!Fresh, ![t].gen = @ + 1]
  BY DEF Website!SignIn, Website!SetSession
<1>7. Flights' /\ MadeCalls'
  <2>1. tab \in TabSet
    BY WebTypes DEF WebInv
  <2>2. /\ \A u \in Tabs : u # t => tab'[u] = tab[u]
        /\ tab'[t].gen = tab[t].gen + 1
    BY <1>6, <2>1 DEF TabSet
  <2> QED  BY <1>2, <2>2, TabMoves DEF Website!SignIn, Website!history
<1>8. Website!TypeOK'
  <2>1. saved' \in SavedSet'
    <3>1. saved.session \in [Members -> Handed'] /\ saved.mark \in [Members -> Handed']
      BY <1>2, TypesGrow DEF SavedSet
    <3>2. Website!Fresh \in Handed' /\ None \in Handed'
      BY <1>2 DEF Handed
    <3>3. saved'.session \in [Members -> Handed'] /\ saved'.mark \in [Members -> Handed']
      BY <1>4, <3>1, <3>2
    <3> QED  BY <1>4, <3>3 DEF SavedSet
  <2>2. tab' \in TabSet'
    BY <1>2, <1>6, TypesGrow DEF TabSet, Handed
  <2> QED  BY <1>2, <1>3, <2>1, <2>2, TypesGrow, WebTypes, WebTypesNext
           DEF WebInv, IssuedStays, Website!SignIn, Website!history
<1> QED  BY <1>5, <1>7, <1>8 DEF WebInv

LEMMA ForgettingTyped ==
  ASSUME WebInv, NEW a \in Members
  PROVE  Website!Without(a) \in SavedSet
<1>1. saved.session \in [Members -> Handed] /\ saved.mark \in [Members -> Handed] /\ None \in Handed
      /\ saved.active \in Members \cup {None}
  BY WebTypes DEF SavedSet, WebInv, Handed
<1> QED  BY <1>1 DEF Website!Without, SavedSet

LEMMA TabTyped ==
  ASSUME WebInv, NEW t \in Tabs, NEW x \in Handed, issued' = issued, Website!SetSession(t, x)
  PROVE  /\ tab' \in TabSet' /\ tab'[t].gen = tab[t].gen + 1
         /\ \A u \in Tabs : u # t => tab'[u] = tab[u]
<1>1. tab \in TabSet /\ Handed' = Handed
  BY WebTypes DEF WebInv, Handed
<1> QED  BY <1>1 DEF Website!SetSession, TabSet

LEMMA IssuedAccounts ==
  ASSUME WebInv, NEW x \in DOMAIN issued
  PROVE  issued[x] \in [account : Members, signIn : Website!Tokens] /\ Website!Account(x) \in Members
<1>1. issued \in Seq([account : Members, signIn : Website!Tokens])
  BY DEF WebInv, Website!TypeOK
<1> DEFINE S == [account : Members, signIn : Website!Tokens]
<1>2. issued[x] \in [account : Members, signIn : Website!Tokens] /\ x # None
  <2>1. issued \in Seq(S) /\ x # None
    BY <1>1, FlightTypes
  <2> HIDE DEF S
  <2>2. issued[x] \in S
    BY <2>1
  <2> QED  BY <2>1, <2>2 DEF S
<1> QED  BY <1>2 DEF Website!Account

LEMMA WebSignOut ==
  ASSUME WebInv, NEW t \in Tabs, Website!SignOut(t)
  PROVE  WebInv'
<1> DEFINE a == Website!Account(tab[t].session)
<1>0. issued' = issued /\ seen' = seen /\ resent' = resent /\ saved' = Website!Without(a)
      /\ UNCHANGED <<lock, flight, call, handled>> /\ Website!SetSession(t, None)
  BY DEF Website!SignOut
<1>1. a \in Members
  <2>1. tab[t].session \in DOMAIN issued /\ tab[t].session # None
    BY FlightTypes DEF Website!SignOut
  <2> QED  BY <2>1, IssuedAccounts
<1>s. signedOut' = signedOut \cup (IF saved.session[a] = None THEN {} ELSE {issued[saved.session[a]].signIn})
  BY DEF Website!SignOut
<1> HIDE DEF a
<1>2. IssuedStays /\ Rooted' /\ issued' \in Seq([account : Members, signIn : Website!Tokens])
      /\ Len(issued') <= MaxTokens
  BY <1>0, NothingIssued
<1>3. /\ saved'.session = [saved.session EXCEPT ![a] = None]
      /\ saved'.mark = [saved.mark EXCEPT ![a] = None]
  BY <1>0 DEF Website!Without
<1>4. Storage'
  <2>1. Website!SignOutFinal'
    <3> SUFFICES ASSUME NEW b \in Members, saved'.session[b] # None
                 PROVE  /\ issued[saved'.session[b]].signIn \notin signedOut'
                        /\ issued[saved'.session[b]].account = b
      BY <1>0 DEF Website!SignOutFinal, Website!Account
    <3>1. b # a /\ saved'.session[b] = saved.session[b]
      BY <1>1, <1>3, SavedTypes
    <3>2. saved.session[b] \in DOMAIN issued /\ issued[saved.session[b]].account = b
          /\ issued[saved.session[b]].signIn \notin signedOut
      BY <3>1, SavedTypes DEF WebInv, Storage, Website!SignOutFinal, Website!Account
    <3>3. saved.session[a] # None => issued[saved.session[a]].signIn # issued[saved.session[b]].signIn
      BY <1>1, <3>1, <3>2, SavedTypes DEF WebInv, Storage, Website!SignOutFinal, Website!Account, Rooted
    <3> QED  BY <1>s, <3>1, <3>2, <3>3
  <2>2. ASSUME NEW b \in Members
        PROVE  /\ saved'.session[b] \in seen => saved'.mark[b] = saved'.session[b]
               /\ saved'.mark[b] # None => saved'.mark[b] \in seen
    BY <1>1, <1>3, SavedTypes DEF WebInv, Storage
  <2>3. signedOut' \subseteq DOMAIN issued
    <3>1. saved.session[a] # None => issued[saved.session[a]].signIn \in DOMAIN issued
      <4> SUFFICES ASSUME saved.session[a] # None
                   PROVE  issued[saved.session[a]].signIn \in DOMAIN issued
        OBVIOUS
      <4>1. saved.session[a] \in DOMAIN issued /\ DOMAIN issued = 1..Len(issued) /\ Len(issued) \in Nat
        BY <1>1, SavedTypes, WebTypes DEF WebInv
      <4> QED  BY <4>1 DEF WebInv, Storage, Rooted
    <3> QED  BY <1>s, <3>1 DEF WebInv, Storage
  <2> QED  BY <1>0, <1>2, <2>1, <2>2, <2>3 DEF WebInv, Storage, Website!SentOnce
<1>5. tab' \in TabSet' /\ tab'[t].gen = tab[t].gen + 1 /\ \A u \in Tabs : u # t => tab'[u] = tab[u]
  BY <1>0, TabTyped DEF Handed
<1>6. Flights' /\ MadeCalls'
  BY <1>0, <1>2, <1>5, TabMoves
<1>7. Website!TypeOK'
  <2>1. saved' \in SavedSet' /\ DOMAIN issued' = DOMAIN issued
    BY <1>0, <1>1, ForgettingTyped DEF SavedSet, Handed
  <2> QED  BY <1>0, <1>2, <1>5, <2>1, TypesGrow, WebTypes, WebTypesNext DEF WebInv
<1> QED  BY <1>4, <1>6, <1>7 DEF WebInv

LEMMA WebSwitch ==
  ASSUME WebInv, NEW t \in Tabs, NEW a \in Members, Website!SwitchContext(t, a)
  PROVE  WebInv'
<1>0. issued' = issued /\ seen' = seen /\ resent' = resent /\ signedOut' = signedOut
      /\ UNCHANGED <<lock, flight, call, handled>> /\ Website!SetSession(t, saved.session[a])
  BY DEF Website!SwitchContext, Website!history
<1>1. saved' = [saved EXCEPT !.active = a]
  <2>1. saved' = [active |-> a, session |-> [saved.session EXCEPT ![a] = saved.session[a]],
                  mark |-> [saved.mark EXCEPT ![a] = IF saved.session[a] = saved.session[a] THEN @ ELSE None]]
    BY DEF Website!SwitchContext, Website!Keeping
  <2>2. saved.session \in [Members -> Handed] /\ saved.mark \in [Members -> Handed] /\ saved \in SavedSet
    BY WebTypes DEF SavedSet, WebInv
  <2> QED  BY <2>1, <2>2 DEF SavedSet
<1>2. IssuedStays /\ Rooted' /\ issued' \in Seq([account : Members, signIn : Website!Tokens])
      /\ Len(issued') <= MaxTokens
  BY <1>0, NothingIssued
<1>3. saved \in SavedSet /\ Handed' = Handed /\ saved.session[a] \in Handed
  BY <1>0, WebTypes DEF SavedSet, WebInv, Handed
<1>4. Storage'
  BY <1>0, <1>1, <1>2, <1>3, StorageShrinks DEF SavedSet
<1>5. tab' \in TabSet' /\ tab'[t].gen = tab[t].gen + 1 /\ \A u \in Tabs : u # t => tab'[u] = tab[u]
  BY <1>0, <1>3, TabTyped
<1>6. Flights' /\ MadeCalls'
  BY <1>0, <1>2, <1>5, TabMoves
<1>7. Website!TypeOK'
  <2>1. saved' \in SavedSet' /\ DOMAIN issued' = DOMAIN issued
    BY <1>0, <1>1, <1>3 DEF SavedSet, Handed
  <2> QED  BY <1>0, <1>2, <1>5, <2>1, TypesGrow, WebTypes, WebTypesNext DEF WebInv
<1> QED  BY <1>4, <1>6, <1>7 DEF WebInv

LEMMA LoadTyped == ASSUME WebInv PROVE Website!Load \in Handed
<1>1. saved.active \in Members \cup {None} /\ saved.session \in [Members -> Handed] /\ None \in Handed
  BY WebTypes DEF WebInv, SavedSet, Handed
<1> QED  BY <1>1 DEF Website!Load

LEMMA WebTabs ==
  ASSUME WebInv, NEW t \in Tabs, Website!Synchronize(t) \/ Website!Open(t)
  PROVE  WebInv'
<1>0. UNCHANGED <<issued, saved, seen, resent, signedOut, lock, flight, call, handled>>
  BY DEF Website!Synchronize, Website!Open, Website!history
<1>2. IssuedStays /\ Rooted' /\ issued' \in Seq([account : Members, signIn : Website!Tokens])
      /\ Len(issued') <= MaxTokens
  BY <1>0, NothingIssued
<1>3. saved \in SavedSet /\ Handed' = Handed
  BY <1>0, WebTypes DEF WebInv, Handed
<1>4. Storage'
  BY <1>0, <1>2, StorageShrinks
<1>5. tab' \in TabSet' /\ tab'[t].gen = tab[t].gen + 1 /\ \A u \in Tabs : u # t => tab'[u] = tab[u]
  <2>1. CASE Website!Synchronize(t)
    BY <1>0, <2>1, LoadTyped, TabTyped DEF Website!Synchronize
  <2>2. CASE Website!Open(t)
    <3>1. tab \in TabSet
      BY WebTypes DEF WebInv
    <3>2. tab' = [tab EXCEPT ![t] = [open |-> TRUE, session |-> Website!Load, gen |-> tab[t].gen + 1]]
      BY <2>2 DEF Website!Open
    <3> QED  BY <1>3, <3>1, <3>2, LoadTyped DEF TabSet
  <2> QED  BY <2>1, <2>2
<1>6. Flights' /\ MadeCalls'
  BY <1>0, <1>2, <1>5, TabMoves
<1>7. Website!TypeOK'
  <2>1. saved' \in SavedSet' /\ DOMAIN issued' = DOMAIN issued
    BY <1>0, <1>3 DEF SavedSet, Handed
  <2> QED  BY <1>0, <1>2, <1>5, <2>1, TypesGrow, WebTypes, WebTypesNext DEF WebInv
<1> QED  BY <1>4, <1>6, <1>7 DEF WebInv

(* A tab that closes takes its calls and flights with it, and the lock. *)
LEMMA WebClose ==
  ASSUME WebInv, NEW t \in Tabs, Website!Close(t)
  PROVE  WebInv'
<1>0. /\ UNCHANGED <<issued, saved, seen, resent, signedOut, handled>>
      /\ tab' = [tab EXCEPT ![t].open = FALSE, ![t].session = None]
      /\ flight' = [c \in Calls |-> IF flight[c].tab = t THEN Website!Idle ELSE flight[c]]
      /\ call' = [c \in Calls |-> IF call[c].tab = t THEN [Website!Unmade EXCEPT !.pc = "gone"] ELSE call[c]]
      /\ lock' = IF lock # None /\ flight[lock].tab = t THEN None ELSE lock
  BY DEF Website!Close, Website!history
<1>2. IssuedStays /\ Rooted' /\ issued' \in Seq([account : Members, signIn : Website!Tokens])
      /\ Len(issued') <= MaxTokens
  BY <1>0, NothingIssued
<1>3. saved \in SavedSet /\ Handed' = Handed /\ tab \in TabSet /\ flight \in FlightSet /\ call \in CallSet
      /\ None \in Handed /\ lock \in Calls \cup {None}
  BY <1>0, WebTypes DEF WebInv, Handed
<1>4. Storage'
  BY <1>0, <1>2, StorageShrinks
<1>5. ASSUME NEW c \in Calls
      PROVE  /\ flight'[c] = IF flight[c].tab = t THEN Website!Idle ELSE flight[c]
             /\ call'[c] = IF call[c].tab = t THEN [Website!Unmade EXCEPT !.pc = "gone"] ELSE call[c]
  BY <1>0
<1>6. /\ \A u \in Tabs : u # t => tab'[u] = tab[u]
      /\ tab'[t].gen = tab[t].gen /\ tab'[t].session = None
  BY <1>0, <1>3 DEF TabSet
<1>7. Flights'
  <2>1. ASSUME NEW f \in Calls
        PROVE  /\ flight'[f].pc = "idle" => flight'[f].tab = None
               /\ flight'[f].pc # "idle" =>
                    /\ flight'[f].session # None /\ flight'[f].tab \in Tabs
                    /\ flight'[f].result # None =>
                         Website!Account(flight'[f].result) = Website!Account(flight'[f].session)
                    /\ call'[f].pc = "await" /\ call'[f].joined = f
    <3>1. CASE flight[f].tab = t
      BY <1>5, <3>1 DEF Website!Idle
    <3>2. CASE flight[f].tab # t
      <4>1. flight'[f] = flight[f]
        BY <1>5, <3>2
      <4>2. flight[f].pc # "idle" => call[f].tab = flight[f].tab
        BY DEF WebInv, Flights, Flying, MadeCalls, MadeCall
      <4> QED  BY <1>5, <3>2, <4>1, <4>2 DEF WebInv, Flights, Flying
    <3> QED  BY <3>1, <3>2
  <2>2. lock' # None => flight'[lock'].pc = "asked"
    BY <1>0, <1>3, <1>5 DEF WebInv, Flights, Flying
  <2> QED  BY <1>0, <2>1, <2>2 DEF Flights, Flying, Website!Account
<1>8. MadeCalls'
  <2> SUFFICES ASSUME NEW c \in Calls PROVE MadeCall(c)'
    BY DEF MadeCalls
  <2>1. CASE call[c].tab = t
    BY <1>0, <1>5, <2>1 DEF Website!Unmade, Under, WebInv, MadeCalls, MadeCall
  <2>2. CASE call[c].tab # t
    <3>1. call'[c] = call[c]
      BY <1>5, <2>2
    <3>2. Under(c) => tab'[call[c].tab] = tab[call[c].tab]
      BY <1>6, <2>2 DEF WebInv, MadeCalls, MadeCall
    <3>3. call[c].pc = "await" => flight'[call[c].joined] = flight[call[c].joined]
      BY <1>5, <2>2 DEF WebInv, MadeCalls, MadeCall
    <3> QED  BY <1>0, <3>1, <3>2, <3>3 DEF WebInv, MadeCalls, MadeCall, Under, Website!Account
  <2> QED  BY <2>1, <2>2
<1>9. Website!TypeOK'
  <2>1. saved' \in SavedSet' /\ DOMAIN issued' = DOMAIN issued
    BY <1>0, <1>3 DEF SavedSet, Handed
  <2>2. tab' \in TabSet'
    BY <1>0, <1>3 DEF TabSet
  <2>3. flight' \in FlightSet'
    BY <1>0, <1>3 DEF FlightSet, Website!Idle
  <2>4. call' \in CallSet'
    BY <1>0, <1>3 DEF CallSet, Website!Unmade
  <2> QED  BY <1>0, <1>2, <1>3, <2>1, <2>2, <2>3, <2>4, WebTypes, WebTypesNext DEF WebInv
<1> QED  BY <1>4, <1>7, <1>8, <1>9 DEF WebInv

(* Renewals. *)
LEMMA WebResult ==
  ASSUME WebInv, IssuedStays, Storage', NEW f \in Calls, flight[f].pc # "idle",
         NEW r \in Handed', r # None => issued'[r].account = issued[flight[f].session].account,
         Website!Result(f, r), lock' = None, saved' \in SavedSet',
         issued' \in Seq([account : Members, signIn : Website!Tokens]), Len(issued') <= MaxTokens,
         UNCHANGED <<tab, call, seen, resent, handled>>
  PROVE  WebInv'
<1>1. flight' = [flight EXCEPT ![f].pc = "result", ![f].result = r]
  BY DEF Website!Result
<1>2. r \in DOMAIN issued' \cup {None}
  BY DEF Handed
<1>3. Flights' /\ MadeCalls'
  BY <1>1, <1>2, ResultMoves
<1>4. flight' \in FlightSet'
  BY <1>1, TypesGrow DEF FlightSet
<1>5. Website!TypeOK'
  BY <1>4, TypesGrow, WebTypes, WebTypesNext DEF WebInv, IssuedStays
<1> QED  BY <1>3, <1>5 DEF WebInv

(* The account a flight set out for, and what is saved of it. *)
LEMMA FlightAccount ==
  ASSUME WebInv, NEW f \in Calls, flight[f].pc # "idle"
  PROVE  /\ flight[f].session \in DOMAIN issued
         /\ Website!Account(flight[f].session) = issued[flight[f].session].account
         /\ Website!Account(flight[f].session) \in Members
         /\ Website!Latest(f) \in Handed
         /\ Website!Latest(f) # None => Website!Latest(f) \in DOMAIN issued
              /\ issued[Website!Latest(f)].account = Website!Account(flight[f].session)
<1>1. flight[f].session \in DOMAIN issued
  BY FlightTypes DEF WebInv, Flights, Flying
<1>2. Website!Account(flight[f].session) \in Members
      /\ Website!Account(flight[f].session) = issued[flight[f].session].account
  BY <1>1, IssuedAccounts, FlightTypes DEF Website!Account
<1> DEFINE a == Website!Account(flight[f].session)
<1>3. Website!Latest(f) = saved.session[a]
  BY DEF Website!Latest
<1> HIDE DEF a
<1>4. a \in Members
  BY <1>2 DEF a
<1>5. saved.session[a] \in Handed /\ (saved.session[a] # None =>
        saved.session[a] \in DOMAIN issued /\ issued[saved.session[a]].account = a)
  BY <1>4, SavedTypes DEF Handed, WebInv, Storage, Website!SignOutFinal, Website!Account
<1> QED  BY <1>1, <1>2, <1>3, <1>5 DEF a

LEMMA LockedFlight ==
  ASSUME WebInv, NEW f \in Calls, lock = f
  PROVE  flight[f].pc = "asked"
BY FlightTypes DEF WebInv, Flights

LEMMA WebGivesUp ==
  ASSUME WebInv, NEW f \in Calls,
         Website!Refused(f) \/ Website!GiveUp(f) \/ Website!Abandon(f) \/ Website!NotRenewed(f)
  PROVE  WebInv'
<1> DEFINE a == Website!Account(flight[f].session)
<1>1. /\ flight[f].pc # "idle" /\ Website!Result(f, None) /\ lock' = None
      /\ saved' = saved \/ saved' = Website!Without(a)
      /\ UNCHANGED <<issued, tab, call, seen, resent, signedOut, handled>>
  BY LockedFlight DEF Website!Refused, Website!GiveUp, Website!Abandon, Website!NotRenewed, Website!Queued, Website!history
<1>2. a \in Members
  BY <1>1, FlightAccount
<1> HIDE DEF a
<1>3. IssuedStays /\ Rooted' /\ issued' \in Seq([account : Members, signIn : Website!Tokens])
      /\ Len(issued') <= MaxTokens
  BY <1>1, NothingIssued
<1>4. Storage'
  BY <1>1, <1>2, <1>3, StorageShrinks
<1>5. saved' \in SavedSet'
  <2>1. saved \in SavedSet /\ Handed' = Handed
    BY <1>1, WebTypes DEF WebInv, Handed
  <2> QED  BY <1>1, <1>2, <2>1, ForgettingTyped DEF SavedSet
<1> QED  BY <1>1, <1>3, <1>4, <1>5, WebResult DEF Handed

LEMMA WebAdopt ==
  ASSUME WebInv, NEW f \in Calls, Website!Adopt(f)
  PROVE  WebInv'
<1>1. /\ flight[f].pc # "idle" /\ Website!Result(f, Website!Latest(f)) /\ lock' = None
      /\ UNCHANGED <<issued, saved, tab, call, seen, resent, signedOut, handled>>
  BY DEF Website!Adopt, Website!Queued, Website!history
<1>2. IssuedStays /\ Rooted' /\ issued' \in Seq([account : Members, signIn : Website!Tokens])
      /\ Len(issued') <= MaxTokens
  BY <1>1, NothingIssued
<1>3. Storage'
  BY <1>1, <1>2, StorageShrinks
<1>4. saved' \in SavedSet' /\ Handed' = Handed
  BY <1>1, WebTypes DEF WebInv, Handed, SavedSet
<1>5. Website!Latest(f) \in Handed'
      /\ (Website!Latest(f) # None => issued'[Website!Latest(f)].account = issued[flight[f].session].account)
  BY <1>1, <1>4, FlightAccount
<1> QED  BY <1>1, <1>2, <1>3, <1>4, <1>5, WebResult

LEMMA WebSubmit ==
  ASSUME WebInv, NEW f \in Calls, Website!Submit(f)
  PROVE  WebInv'
<1> DEFINE a == Website!Account(flight[f].session)
           new == Website!Latest(f)
<1>0. /\ flight[f].pc = "queued" /\ lock = None /\ lock' = f
      /\ saved' = [saved EXCEPT !.mark[a] = new]
      /\ seen' = seen \cup {new} /\ resent' = resent \cup ({new} \cap seen)
      /\ flight' = [flight EXCEPT ![f].pc = "asked"]
      /\ UNCHANGED <<issued, tab, call, handled, signedOut>>
      /\ saved.mark[a] # new /\ new # None /\ new = saved.session[a]
  BY DEF Website!Submit, Website!Queued, Website!Selected, Website!Interrupted, Website!Latest
<1>1. a \in Members /\ new \in DOMAIN issued /\ issued[new].account = a
  BY <1>0, FlightAccount
<1> HIDE DEF a, new
<1>2. saved \in SavedSet /\ flight \in FlightSet /\ Handed' = Handed /\ Rooted'
  BY <1>0, WebTypes, NothingIssued DEF WebInv, Handed
<1>3. saved'.session = saved.session /\ saved'.mark = [saved.mark EXCEPT ![a] = new] /\ saved'.active = saved.active
  BY <1>0, <1>2 DEF SavedSet
<1>4. new \notin seen
  BY <1>0, <1>1 DEF WebInv, Storage
<1>5. Storage'
  <2>1. Website!SignOutFinal'
    BY <1>0, <1>3 DEF WebInv, Storage, Website!SignOutFinal, Website!Account
  <2>2. ASSUME NEW b \in Members
        PROVE  /\ saved'.session[b] \in seen' => saved'.mark[b] = saved'.session[b]
               /\ saved'.mark[b] # None => saved'.mark[b] \in seen'
    <3>1. CASE b = a
      BY <1>0, <1>1, <1>3, <3>1, SavedTypes
    <3>2. CASE b # a
      <4>1. saved.session[b] # new
        BY <1>0, <1>1, <3>2, SavedTypes DEF WebInv, Storage, Website!SignOutFinal, Website!Account
      <4> QED  BY <1>0, <1>3, <3>2, <4>1, SavedTypes DEF WebInv, Storage
    <3> QED  BY <3>1, <3>2
  <2>3. Website!SentOnce'
    BY <1>0, <1>4 DEF WebInv, Storage, Website!SentOnce
  <2> QED  BY <1>0, <1>2, <2>1, <2>2, <2>3 DEF WebInv, Storage
<1>6. /\ flight'[f].pc = "asked" /\ flight'[f].result = flight[f].result
      /\ flight'[f].session = flight[f].session /\ flight'[f].tab = flight[f].tab /\ flight'[f].gen = flight[f].gen
      /\ \A g \in Calls : g # f => flight'[g] = flight[g]
  BY <1>0, <1>2 DEF FlightSet
<1>7. Flights'
  <2> SUFFICES ASSUME NEW g \in Calls PROVE Flying(g)'
    BY <1>0, <1>6 DEF Flights
  <2>1. CASE g = f
    BY <1>0, <1>6, <2>1 DEF WebInv, Flights, Flying, Website!Account
  <2>2. CASE g # f
    BY <1>0, <1>6, <2>2 DEF WebInv, Flights, Flying, Website!Account
  <2> QED  BY <2>1, <2>2
<1>8. MadeCalls'
  <2> SUFFICES ASSUME NEW c \in Calls PROVE MadeCall(c)'
    BY DEF MadeCalls
  <2>1. call[c].pc = "await" =>
          /\ flight'[call[c].joined].pc # "idle"
          /\ flight'[call[c].joined].tab = call[c].tab /\ flight'[call[c].joined].gen = call[c].gen
    BY <1>0, <1>6 DEF WebInv, MadeCalls, MadeCall
  <2> QED  BY <1>0, <2>1 DEF MadeCall, WebInv, MadeCalls, Website!Account, Under
<1>9. Website!TypeOK'
  <2>1. saved' \in SavedSet'
    <3>1. new \in Handed
      BY <1>1 DEF Handed
    <3> QED  BY <1>0, <1>2, <3>1 DEF SavedSet
  <2>2. flight' \in FlightSet'
    BY <1>0, <1>2 DEF FlightSet
  <2>3. tab' \in TabSet' /\ call' \in CallSet' /\ issued' \in Seq([account : Members, signIn : Website!Tokens])
        /\ Len(issued') <= MaxTokens
    BY <1>0, <1>2, WebTypes DEF WebInv, TabSet, CallSet
  <2>4. seen' \subseteq DOMAIN issued' /\ resent' \subseteq seen'
    BY <1>0, <1>1, WebTypes DEF WebInv
  <2> QED  BY <1>0, <2>1, <2>2, <2>3, <2>4, WebTypes, WebTypesNext DEF WebInv
<1> QED  BY <1>5, <1>7, <1>8, <1>9 DEF WebInv

LEMMA WebRenewed ==
  ASSUME WebInv, NEW f \in Calls, Website!Renewed(f)
  PROVE  WebInv'
<1> DEFINE a == Website!Account(flight[f].session)
           r == issued[flight[f].session]
<1>0. /\ lock' = None /\ Website!Fresh \in Website!Tokens /\ issued' = Append(issued, r)
      /\ UNCHANGED <<tab, call, seen, resent, signedOut, handled>>
      /\ \/ /\ saved.session[a] = flight[f].session
            /\ saved' = [saved EXCEPT !.session[a] = Website!Fresh, !.mark[a] = None]
            /\ Website!Result(f, Website!Fresh)
         \/ /\ saved' = saved \/ saved' = Website!Without(a)
            /\ Website!Result(f, None)
  BY DEF Website!Renewed, Website!Untouched, Website!Latest, Website!history
<1>1. flight[f].pc # "idle"
  BY LockedFlight DEF Website!Renewed
<1>2. a \in Members /\ flight[f].session \in DOMAIN issued /\ r.account = a
  BY <1>1, FlightAccount
<1>3. r \in [account : Members, signIn : Website!Tokens]
  BY <1>2, IssuedAccounts
<1>4. r.signIn \in DOMAIN issued /\ issued[r.signIn].account = r.account
  <2>1. DOMAIN issued = 1..Len(issued) /\ Len(issued) \in Nat
    BY WebTypes DEF WebInv
  <2> QED  BY <1>2, <2>1 DEF WebInv, Storage, Rooted
<1> HIDE DEF a, r
<1>5. /\ IssuedStays /\ Rooted' /\ Website!Fresh \in DOMAIN issued' /\ Website!Fresh \notin DOMAIN issued
      /\ issued'[Website!Fresh] = r /\ Website!Fresh \in Nat /\ Len(issued') = Website!Fresh
      /\ issued' \in Seq([account : Members, signIn : Website!Tokens])
  BY <1>0, <1>3, <1>4, IssueOne
<1>6. Len(issued') <= MaxTokens
  BY <1>0, <1>5, PartAssumption DEF Website!Tokens, Website!WebsiteAssumption
<1>7. saved \in SavedSet /\ saved \in SavedSet' /\ Handed \subseteq Handed'
  BY <1>5, TypesGrow
<1>8. CASE /\ saved.session[a] = flight[f].session
           /\ saved' = [saved EXCEPT !.session[a] = Website!Fresh, !.mark[a] = None]
           /\ Website!Result(f, Website!Fresh)
  <2>1. /\ saved'.session = [saved.session EXCEPT ![a] = Website!Fresh]
        /\ saved'.mark = [saved.mark EXCEPT ![a] = None]
    BY <1>7, <1>8 DEF SavedSet
  <2>2. r.signIn \notin signedOut
    BY <1>2, <1>8, FlightTypes DEF r, WebInv, Storage, Website!SignOutFinal
  <2>3. Storage'
    BY <1>0, <1>2, <1>5, <2>1, <2>2, StorageGrows
  <2>4. saved' \in SavedSet'
    <3>1. Website!Fresh \in Handed' /\ None \in Handed'
      BY <1>5 DEF Handed
    <3> QED  BY <1>2, <1>7, <1>8, <3>1 DEF SavedSet
  <2>5. Website!Fresh \in Handed' /\ issued'[Website!Fresh].account = issued[flight[f].session].account
    BY <1>5 DEF Handed, r
  <2> QED  BY <1>0, <1>1, <1>5, <1>6, <1>8, <2>3, <2>4, <2>5, WebResult
<1>9. CASE /\ saved' = saved \/ saved' = Website!Without(a)
           /\ Website!Result(f, None)
  <2>1. Storage'
    BY <1>0, <1>2, <1>5, <1>9, StorageShrinks
  <2>2. saved' \in SavedSet'
    <3>1. CASE saved' = saved
      BY <1>7, <3>1
    <3>2. CASE saved' = Website!Without(a)
      <4>1. saved.session \in [Members -> Handed'] /\ saved.mark \in [Members -> Handed'] /\ None \in Handed'
            /\ saved.active \in Members \cup {None}
        BY <1>7 DEF SavedSet, Handed
      <4> QED  BY <3>2, <4>1 DEF SavedSet, Website!Without
    <3> QED  BY <1>9, <3>1, <3>2
  <2> QED  BY <1>0, <1>1, <1>5, <1>6, <1>9, <2>1, <2>2, WebResult DEF Handed
<1> QED  BY <1>0, <1>8, <1>9

(* The tab takes the result of its flight, and so do the calls behind it. *)
LEMMA WebDeliver ==
  ASSUME WebInv, NEW f \in Calls, Website!Deliver(f)
  PROVE  WebInv'
<1> DEFINE t == flight[f].tab
           result == IF Website!InUse(f) THEN flight[f].result ELSE None
<1>0. /\ flight[f].pc = "result" /\ flight' = [flight EXCEPT ![f] = Website!Idle]
      /\ call' = Website!Proceed(f, result)
      /\ tab' = IF ~Website!InUse(f) THEN tab
                ELSE IF flight[f].result = None THEN [tab EXCEPT ![t].session = None, ![t].gen = @ + 1]
                ELSE [tab EXCEPT ![t].session = flight[f].result]
      /\ UNCHANGED <<issued, saved, lock, seen, resent, signedOut, handled>>
  BY DEF Website!Deliver, Website!history, Website!SetSession
<1>1. t \in Tabs /\ flight[f].session # None /\ flight[f].result \in Handed
      /\ (flight[f].result # None => Website!Account(flight[f].result) = Website!Account(flight[f].session))
  BY <1>0, FlightTypes DEF WebInv, Flights, Flying, Handed
<1>2. IssuedStays /\ Rooted' /\ issued' \in Seq([account : Members, signIn : Website!Tokens])
      /\ Len(issued') <= MaxTokens
  BY <1>0, NothingIssued
<1>3. saved \in SavedSet /\ Handed' = Handed /\ tab \in TabSet /\ flight \in FlightSet /\ call \in CallSet
      /\ None \in Handed
  BY <1>0, WebTypes DEF WebInv, Handed
<1>4. Storage'
  BY <1>0, <1>2, StorageShrinks
<1>5. \A c \in Calls : flight'[c] = IF c = f THEN Website!Idle ELSE flight[c]
  BY <1>0, <1>3 DEF FlightSet
<1>c. ASSUME NEW c \in Calls
      PROVE  /\ call[c].pc # "await" \/ call[c].joined # f => call'[c] = call[c]
             /\ call[c].pc = "await" /\ call[c].joined = f =>
                  /\ call'[c].pc = (IF result = None THEN "failed" ELSE "asked")
                  /\ call'[c].sent = (IF result = None THEN call[c].sent ELSE result)
                  /\ call'[c].tab = call[c].tab /\ call'[c].gen = call[c].gen
                  /\ call'[c] = [call[c] EXCEPT !.pc = call'[c].pc, !.sent = call'[c].sent]
  <2> HIDE DEF result
  <2>1. call[c] \in [pc : {"unmade", "await", "asked", "done", "failed", "gone"}, tab : Tabs \cup {None}, gen : Nat,
                     sent : Handed, joined : Calls \cup {None}, replay : BOOLEAN]
    BY <1>3 DEF CallSet
  <2>2. call'[c] = IF call[c].pc # "await" \/ call[c].joined # f THEN call[c]
                   ELSE IF result = None THEN [call[c] EXCEPT !.pc = "failed"]
                   ELSE [call[c] EXCEPT !.pc = "asked", !.sent = result]
    BY <1>0 DEF Website!Proceed
  <2> QED  BY <2>1, <2>2
<1>6. /\ \A u \in Tabs : u # t => tab'[u] = tab[u]
      /\ ~Website!InUse(f) => tab' = tab
      /\ Website!InUse(f) /\ flight[f].result = None => tab'[t].gen = tab[t].gen + 1
      /\ Website!InUse(f) /\ flight[f].result # None =>
           tab'[t].gen = tab[t].gen /\ tab'[t].session = flight[f].result
  BY <1>0, <1>1, <1>3 DEF TabSet
<1>7. Flights'
  <2>1. ASSUME NEW g \in Calls PROVE Flying(g)'
    <3>1. CASE g = f
      <4>1. flight'[g].pc = "idle" /\ flight'[g].tab = None
        BY <1>5, <3>1 DEF Website!Idle
      <4> QED  BY <4>1 DEF Flying
    <3>2. CASE g # f
      <4>1. flight'[g] = flight[g]
        BY <1>5, <3>2
      <4>2. flight[g].pc # "idle" => call'[g] = call[g]
        BY <1>c, <3>2 DEF WebInv, Flights, Flying
      <4>3. issued' = issued
        BY <1>0
      <4> QED  BY <4>1, <4>2, <4>3 DEF WebInv, Flights, Flying, Website!Account
    <3> QED  BY <3>1, <3>2
  <2>2. lock' # None => flight'[lock'].pc = "asked"
    <3>1. lock' = lock /\ flight[f].pc = "result"
      BY <1>0
    <3> QED  BY <3>1, <1>5, FlightTypes DEF WebInv, Flights
  <2> QED  BY <2>1, <2>2 DEF Flights
<1>8. MadeCalls'
  <2> SUFFICES ASSUME NEW c \in Calls PROVE MadeCall(c)'
    BY DEF MadeCalls
  <2>1. CASE call[c].pc # "await" \/ call[c].joined # f
    <3>1. call'[c] = call[c]
      BY <1>c, <2>1
    <3>2. call[c].pc = "await" => flight'[call[c].joined] = flight[call[c].joined]
      BY <1>5, <2>1 DEF WebInv, MadeCalls, MadeCall
    <3>3. Under(c) =>
            /\ call[c].tab \in Tabs /\ call[c].gen <= tab'[call[c].tab].gen
            /\ call[c].gen = tab'[call[c].tab].gen /\ tab'[call[c].tab].session # None
                 => Website!Account(tab'[call[c].tab].session) = handled[c].maker
      <4> SUFFICES ASSUME Under(c)
                   PROVE  /\ call[c].tab \in Tabs /\ call[c].gen <= tab'[call[c].tab].gen
                          /\ call[c].gen = tab'[call[c].tab].gen /\ tab'[call[c].tab].session # None
                               => Website!Account(tab'[call[c].tab].session) = handled[c].maker
        OBVIOUS
      <4>1. /\ call[c].tab \in Tabs /\ call[c].gen <= tab[call[c].tab].gen
            /\ call[c].gen = tab[call[c].tab].gen /\ tab[call[c].tab].session # None
                 => Website!Account(tab[call[c].tab].session) = handled[c].maker
        BY DEF WebInv, MadeCalls, MadeCall
      <4>2. CASE call[c].tab # t \/ ~Website!InUse(f)
        BY <1>6, <4>1, <4>2
      <4>3. CASE call[c].tab = t /\ Website!InUse(f)
        <5>1. CASE flight[f].result = None
          BY <1>6, <4>1, <4>3, <5>1, FlightTypes
        <5>2. CASE flight[f].result # None
          <6>1. tab[t].session = flight[f].session
            BY <4>3 DEF Website!InUse
          <6> QED  BY <1>1, <1>6, <4>1, <4>3, <5>2, <6>1
        <5> QED  BY <5>1, <5>2
      <4> QED  BY <4>2, <4>3
    <3>4. issued' = issued /\ handled' = handled
      BY <1>0
    <3> QED  BY <3>1, <3>2, <3>3, <3>4 DEF WebInv, MadeCalls, MadeCall, Under, Website!Account
  <2>2. CASE call[c].pc = "await" /\ call[c].joined = f
    <3>1. /\ t = call[c].tab /\ flight[f].gen = call[c].gen /\ handled[c].by = <<>>
          /\ call[c].gen = tab[t].gen /\ tab[t].session # None
               => Website!Account(tab[t].session) = handled[c].maker
      BY <2>2 DEF WebInv, MadeCalls, MadeCall, Under
    <3>2. CASE result = None
      <4>1. call'[c].pc = "failed"
        BY <1>c, <2>2, <3>2
      <4> QED  BY <1>0, <3>1, <4>1 DEF MadeCall, Under
    <3>3. CASE result # None
      <4>1. Website!InUse(f) /\ result = flight[f].result
        BY <3>3
      <4>2. tab[t].session = flight[f].session /\ flight[f].gen = tab[t].gen
        BY <4>1 DEF Website!InUse
      <4>3. /\ call'[c].pc = "asked" /\ call'[c].sent = flight[f].result
            /\ call'[c].tab = t /\ call'[c].gen = call[c].gen
        BY <1>c, <2>2, <3>1, <3>3, <4>1
      <4>4. Website!Account(flight[f].result) = handled[c].maker
        BY <1>1, <3>1, <3>3, <4>1, <4>2
      <4>5. tab'[t].gen = tab[t].gen /\ tab'[t].session = flight[f].result
        BY <1>6, <3>3, <4>1
      <4>6. call[c].gen \in Nat /\ call'[c].gen <= tab'[t].gen
        <5>1. call[c].gen \in Nat /\ call'[c].gen = tab'[t].gen
          BY <3>1, <4>2, <4>3, <4>5, FlightTypes
        <5> QED  BY <5>1, <4>3
      <4> QED  BY <1>0, <1>1, <3>1, <3>3, <4>1, <4>3, <4>4, <4>5, <4>6 DEF MadeCall, Under, Website!Account
    <3> QED  BY <3>2, <3>3
  <2> QED  BY <2>1, <2>2
<1>9. Website!TypeOK'
  <2>1. saved' \in SavedSet' /\ DOMAIN issued' = DOMAIN issued
    BY <1>0, <1>3 DEF SavedSet, Handed
  <2>2. tab' \in TabSet'
    <3>1. flight[f].result \in Handed'
      BY <1>1, <1>3
    <3>2. tab \in TabSet' /\ None \in Handed'
      BY <1>3 DEF TabSet
    <3>3. \/ tab' = tab
          \/ tab' = [tab EXCEPT ![t].session = None, ![t].gen = @ + 1]
          \/ tab' = [tab EXCEPT ![t].session = flight[f].result]
      BY <1>0
    <3> HIDE DEF t
    <3> QED  BY <3>1, <3>2, <3>3 DEF TabSet
  <2>3. flight' \in FlightSet'
    BY <1>0, <1>3 DEF FlightSet, Website!Idle
  <2>4. call' \in CallSet'
    <3>1. result \in Handed'
      BY <1>1, <1>3
    <3> HIDE DEF result
    <3>2. ASSUME NEW c \in Calls
          PROVE  call'[c] \in [pc : {"unmade", "await", "asked", "done", "failed", "gone"}, tab : Tabs \cup {None},
                               gen : Nat, sent : Handed', joined : Calls \cup {None}, replay : BOOLEAN]
      <4>1. call[c] \in [pc : {"unmade", "await", "asked", "done", "failed", "gone"}, tab : Tabs \cup {None},
                          gen : Nat, sent : Handed', joined : Calls \cup {None}, replay : BOOLEAN]
        BY <1>3 DEF CallSet
      <4>2. CASE call[c].pc # "await" \/ call[c].joined # f
        BY <1>c, <4>1, <4>2
      <4>3. CASE call[c].pc = "await" /\ call[c].joined = f
        <5>1. call'[c].pc \in {"failed", "asked"} /\ call'[c].sent \in Handed'
              /\ call'[c] = [call[c] EXCEPT !.pc = call'[c].pc, !.sent = call'[c].sent]
          BY <1>c, <3>1, <4>1, <4>3
        <5> QED  BY <4>1, <5>1
      <4> QED  BY <4>2, <4>3
    <3> QED  BY <1>0, <3>2 DEF CallSet, Website!Proceed
  <2> QED  BY <1>0, <1>2, <1>3, <2>1, <2>2, <2>3, <2>4, WebTypes, WebTypesNext DEF WebInv
<1> QED  BY <1>4, <1>7, <1>8, <1>9 DEF WebInv

(* Calls. *)
CallRecords ==
  [pc : {"unmade", "await", "asked", "done", "failed", "gone"}, tab : Tabs \cup {None}, gen : Nat,
   sent : Handed, joined : Calls \cup {None}, replay : BOOLEAN]

(* A call that waits for no flight moves, and perhaps begins one. *)
LEMMA OneCallMoves ==
  ASSUME WebInv, NEW c \in Calls, call[c].pc # "await",
         \A d \in Calls : d # c => call'[d] = call[d] /\ flight'[d] = flight[d] /\ handled'[d] = handled[d],
         Flying(c)', MadeCall(c)', call' \in CallSet', flight' \in FlightSet',
         handled' \in [Calls -> [maker : Members \cup {None}, by : Seq(Members)]],
         UNCHANGED <<issued, saved, tab, lock, seen, resent, signedOut>>
  PROVE  WebInv'
<1>1. IssuedStays /\ Rooted' /\ issued' \in Seq([account : Members, signIn : Website!Tokens])
      /\ Len(issued') <= MaxTokens
  BY NothingIssued
<1>2. Storage'
  BY <1>1, StorageShrinks
<1>3. flight[c].pc = "idle"
  BY DEF WebInv, Flights, Flying
<1>4. Flights'
  <2>1. ASSUME NEW g \in Calls PROVE Flying(g)'
    <3>1. CASE g = c
      BY <3>1
    <3>2. CASE g # c
      <4>1. flight'[g] = flight[g] /\ call'[g] = call[g]
        BY <3>2
      <4> QED  BY <4>1 DEF WebInv, Flights, Flying, Website!Account
    <3> QED  BY <3>1, <3>2
  <2>2. lock' # None => flight'[lock'].pc = "asked"
    BY <1>3, FlightTypes DEF WebInv, Flights
  <2> QED  BY <2>1, <2>2 DEF Flights
<1>5. MadeCalls'
  <2> SUFFICES ASSUME NEW d \in Calls PROVE MadeCall(d)'
    BY DEF MadeCalls
  <2>1. CASE d = c
    BY <2>1
  <2>2. CASE d # c
    <3>1. call'[d] = call[d] /\ handled'[d] = handled[d]
      BY <2>2
    <3>2. call[d].pc = "await" => flight'[call[d].joined] = flight[call[d].joined]
      BY <1>3 DEF WebInv, MadeCalls, MadeCall
    <3> QED  BY <3>1, <3>2 DEF WebInv, MadeCalls, MadeCall, Under, Website!Account
  <2> QED  BY <2>1, <2>2
<1>6. Website!TypeOK'
  <2>1. saved' \in SavedSet' /\ tab' \in TabSet'
    BY <1>1, TypesGrow
  <2> QED  BY <1>1, <2>1, WebTypes, WebTypesNext DEF WebInv
<1> QED  BY <1>2, <1>4, <1>5, <1>6 DEF WebInv

(* A call that ends, with at most one entry of its handling. *)
LEMMA CallEnds ==
  ASSUME WebInv, NEW c \in Calls, call[c].pc = "asked", NEW pc \in {"done", "failed"},
         Website!EndCall(c, pc),
         handled' = handled \/ handled' = [handled EXCEPT ![c].by = Append(@, Website!Account(call[c].sent))],
         UNCHANGED <<issued, saved, tab, lock, flight, seen, resent, signedOut>>
  PROVE  WebInv'
<1>1. call \in CallSet /\ flight \in FlightSet /\ Handed' = Handed
      /\ handled \in [Calls -> [maker : Members \cup {None}, by : Seq(Members)]]
  BY WebTypes DEF WebInv, Handed
<1>2. call' = [call EXCEPT ![c].pc = pc]
  BY DEF Website!EndCall
<1>3. call' \in CallSet' /\ call'[c].pc = pc /\ \A d \in Calls : d # c => call'[d] = call[d]
  <2>1. \A r \in CallRecords : [r EXCEPT !.pc = pc] \in CallRecords /\ [r EXCEPT !.pc = pc].pc = pc
    BY DEF CallRecords
  <2>2. call \in [Calls -> CallRecords] /\ CallSet = [Calls -> CallRecords] /\ CallSet' = CallSet
    BY <1>1 DEF CallSet, CallRecords
  <2>3. call' \in [Calls -> CallRecords]
    BY <1>2, <2>1, <2>2
  <2>4. call'[c].pc = pc /\ \A d \in Calls : d # c => call'[d] = call[d]
    BY <1>2, <2>1, <2>2
  <2> QED  BY <2>2, <2>3, <2>4
<1>4. flight' \in FlightSet' /\ flight[c].pc = "idle" /\ flight[c].tab = None
  BY <1>1 DEF FlightSet, WebInv, Flights, Flying
<1>5. handled[c].by = <<>> /\ call[c].sent \in DOMAIN issued /\ Website!Account(call[c].sent) = handled[c].maker
  BY FlightTypes DEF WebInv, MadeCalls, MadeCall, Under
<1>6. Website!Account(call[c].sent) \in Members
  BY <1>5, IssuedAccounts
<1>7. /\ handled' \in [Calls -> [maker : Members \cup {None}, by : Seq(Members)]]
      /\ \A d \in Calls : d # c => handled'[d] = handled[d]
      /\ handled'[c].by \in {<<>>, <<handled'[c].maker>>}
  <2> DEFINE a == Website!Account(call[c].sent)
             once == [handled EXCEPT ![c].by = Append(@, a)]
  <2>1. handled' = handled \/ handled' = once
    OBVIOUS
  <2>2. a \in Members /\ a = handled[c].maker
    BY <1>5, <1>6
  <2>3. once = [handled EXCEPT ![c].by = <<a>>]
    <3> HIDE DEF a
    <3>1. Append(handled[c].by, a) = <<a>>
      BY <1>5, <2>2
    <3> QED  BY <1>1, <3>1
  <2> HIDE DEF a, once
  <2>4. CASE handled' = handled
    BY <1>1, <1>5, <2>4
  <2>5. CASE handled' = once
    <3> DEFINE s == <<a>>
    <3>1. handled' = [handled EXCEPT ![c].by = s] /\ s \in Seq(Members) /\ s = <<handled[c].maker>>
      BY <2>2, <2>3, <2>5
    <3> HIDE DEF s
    <3>2. handled' \in [Calls -> [maker : Members \cup {None}, by : Seq(Members)]]
          /\ \A d \in Calls : d # c => handled'[d] = handled[d]
      BY <1>1, <3>1
    <3>3. handled'[c].by = s /\ handled'[c].maker = handled[c].maker
      BY <1>1, <3>1
    <3> QED  BY <3>1, <3>2, <3>3
  <2> QED  BY <2>1, <2>4, <2>5
<1>8. Flying(c)'
  BY <1>4 DEF Flying
<1>9. MadeCall(c)'
  BY <1>3, <1>7 DEF MadeCall, Under
<1> QED  BY <1>3, <1>4, <1>7, <1>8, <1>9, OneCallMoves

(* A call that starts to wait for the session of its tab to be renewed. *)
LEMMA CallWaits ==
  ASSUME WebInv, NEW c \in Calls, call[c].pc \in {"unmade", "asked"},
         NEW r \in CallRecords, r.tab \in Tabs, r.gen = tab[r.tab].gen, tab[r.tab].session # None,
         Website!Await(c, r),
         handled' \in [Calls -> [maker : Members \cup {None}, by : Seq(Members)]],
         \A d \in Calls : d # c => handled'[d] = handled[d],
         handled'[c].by = <<>>, handled'[c].maker = Website!Account(tab[r.tab].session),
         UNCHANGED <<issued, saved, tab, lock, seen, resent, signedOut>>
  PROVE  WebInv'
<1>1. call \in CallSet /\ flight \in FlightSet /\ Handed' = Handed /\ None \notin Tabs /\ None \in Handed
  BY WebTypes, FlightTypes DEF WebInv, Handed
<1>2. tab[r.tab].session \in Handed /\ tab[r.tab].gen \in Nat
  BY FlightTypes DEF Handed
<1>3. CASE Website!Refreshing(r.tab) # {}
  <2>1. PICK f \in Website!Refreshing(r.tab) :
          call' = [call EXCEPT ![c] = [r EXCEPT !.pc = "await", !.joined = f]] /\ flight' = flight
    BY <1>3 DEF Website!Await
  <2>2. f \in Calls /\ flight[f].tab = r.tab /\ flight[f].gen = r.gen /\ flight[f].pc # "idle"
    BY <1>1, <2>1 DEF Website!Refreshing, WebInv, Flights, Flying
  <2>3. /\ call'[c].pc = "await" /\ call'[c].joined = f /\ call'[c].tab = r.tab /\ call'[c].gen = r.gen
        /\ \A d \in Calls : d # c => call'[d] = call[d]
    BY <1>1, <2>1 DEF CallSet, CallRecords
  <2>4. call' \in CallSet'
    BY <1>1, <2>1, <2>2 DEF CallSet, CallRecords
  <2>5. flight' \in FlightSet' /\ flight[c].pc = "idle" /\ flight[c].tab = None
    BY <1>1, <2>1 DEF FlightSet, WebInv, Flights, Flying
  <2>6. Flying(c)'
    BY <2>1, <2>5 DEF Flying
  <2>7. MadeCall(c)'
    BY <1>2, <2>1, <2>2, <2>3 DEF MadeCall, Under, Website!Account
  <2> QED  BY <2>1, <2>3, <2>4, <2>5, <2>6, <2>7, OneCallMoves
<1>4. CASE Website!Refreshing(r.tab) = {}
  <2>1. /\ call' = [call EXCEPT ![c] = [r EXCEPT !.pc = "await", !.joined = c]]
        /\ flight' = [flight EXCEPT ![c] = [pc |-> "queued", tab |-> r.tab, gen |-> r.gen,
                                            session |-> tab[r.tab].session, result |-> None]]
    BY <1>4 DEF Website!Await
  <2>2. /\ call'[c].pc = "await" /\ call'[c].joined = c /\ call'[c].tab = r.tab /\ call'[c].gen = r.gen
        /\ \A d \in Calls : d # c => call'[d] = call[d]
    BY <1>1, <2>1 DEF CallSet, CallRecords
  <2>3. call' \in CallSet'
    BY <1>1, <2>1 DEF CallSet, CallRecords
  <2>4. /\ flight'[c].pc = "queued" /\ flight'[c].tab = r.tab /\ flight'[c].gen = r.gen
        /\ flight'[c].session = tab[r.tab].session /\ flight'[c].result = None
        /\ \A d \in Calls : d # c => flight'[d] = flight[d]
    BY <1>1, <2>1 DEF FlightSet
  <2>5. flight' \in FlightSet'
    BY <1>1, <1>2, <2>1 DEF FlightSet, CallRecords
  <2>6. Flying(c)'
    BY <2>2, <2>4 DEF Flying
  <2>7. MadeCall(c)'
    BY <1>2, <2>2, <2>4 DEF MadeCall, Under, Website!Account
  <2> QED  BY <2>2, <2>3, <2>4, <2>5, <2>6, <2>7, OneCallMoves
<1> QED  BY <1>3, <1>4

LEMMA WebBegin ==
  ASSUME WebInv, NEW c \in Calls, NEW t \in Tabs, Website!Begin(c, t)
  PROVE  WebInv'
<1> DEFINE r == [Website!Unmade EXCEPT !.tab = t, !.gen = tab[t].gen, !.sent = tab[t].session]
           a == Website!Account(tab[t].session)
<1>0. /\ call[c].pc = "unmade" /\ tab[t].session # None
      /\ (call' = [call EXCEPT ![c] = [r EXCEPT !.pc = "asked"]] /\ flight' = flight) \/ Website!Await(c, r)
      /\ handled' = [handled EXCEPT ![c].maker = a]
      /\ UNCHANGED <<issued, saved, tab, lock, seen, resent, signedOut>>
  BY DEF Website!Begin
<1>1. /\ call \in CallSet /\ flight \in FlightSet /\ Handed' = Handed /\ None \in Handed
      /\ handled \in [Calls -> [maker : Members \cup {None}, by : Seq(Members)]]
  BY <1>0, WebTypes DEF WebInv, Handed
<1>2. tab[t].session \in Handed /\ tab[t].session \in DOMAIN issued /\ tab[t].gen \in Nat
  BY <1>0, FlightTypes DEF Handed
<1>3. a \in Members
  BY <1>2, IssuedAccounts
<1>4. Website!Unmade \in CallRecords /\ t \in Tabs \cup {None} /\ tab[t].gen \in Nat
  BY <1>1, <1>2 DEF CallRecords, Website!Unmade
<1>5. r = [Website!Unmade EXCEPT !.tab = t, !.gen = tab[t].gen, !.sent = tab[t].session]
  OBVIOUS
<1>6. /\ Website!Unmade.pc = "unmade" /\ Website!Unmade.joined = None /\ Website!Unmade.replay = FALSE
  BY DEF Website!Unmade
<1> HIDE DEF r, a
<1>7. /\ r \in CallRecords /\ r.tab = t /\ r.gen = tab[t].gen /\ r.sent = tab[t].session
      /\ r.joined = None /\ r.replay = FALSE
  <2> DEFINE u == Website!Unmade
  <2>1. u \in CallRecords /\ r = [u EXCEPT !.tab = t, !.gen = tab[t].gen, !.sent = tab[t].session]
        /\ u.joined = None /\ u.replay = FALSE
    BY <1>4, <1>5, <1>6
  <2> HIDE DEF u
  <2> QED  BY <1>2, <1>4, <2>1 DEF CallRecords
<1>8. /\ [r EXCEPT !.pc = "asked"] \in CallRecords
      /\ \A q : q = [r EXCEPT !.pc = "asked"] =>
           /\ q.pc = "asked" /\ q.tab = t /\ q.gen = tab[t].gen /\ q.sent = tab[t].session
           /\ q.joined = None /\ q.replay = FALSE
  BY <1>7 DEF CallRecords
<1>9. handled[c].by = <<>>
  BY <1>0 DEF WebInv, MadeCalls, MadeCall
<1>10. /\ handled' \in [Calls -> [maker : Members \cup {None}, by : Seq(Members)]]
       /\ \A d \in Calls : d # c => handled'[d] = handled[d]
       /\ handled'[c].by = <<>> /\ handled'[c].maker = a
  BY <1>0, <1>1, <1>3, <1>9
<1>11. CASE Website!Await(c, r)
  <2>1. /\ r \in CallRecords /\ r.tab \in Tabs /\ r.gen = tab[r.tab].gen /\ tab[r.tab].session # None
        /\ call[c].pc \in {"unmade", "asked"}
    BY <1>0, <1>7
  <2>2. handled'[c].maker = Website!Account(tab[r.tab].session)
    BY <1>7, <1>10 DEF a
  <2> QED  BY <1>0, <1>10, <1>11, <2>1, <2>2, CallWaits
<1>12. CASE call' = [call EXCEPT ![c] = [r EXCEPT !.pc = "asked"]] /\ flight' = flight
  <2>1. call' \in CallSet' /\ \A d \in Calls : d # c => call'[d] = call[d]
    BY <1>1, <1>8, <1>12 DEF CallSet, CallRecords
  <2>2. /\ call'[c].pc = "asked" /\ call'[c].tab = t /\ call'[c].gen = tab[t].gen
        /\ call'[c].sent = tab[t].session /\ call'[c].joined = None /\ call'[c].replay = FALSE
    BY <1>1, <1>8, <1>12 DEF CallSet
  <2>3. flight' \in FlightSet' /\ flight[c].pc = "idle" /\ flight[c].tab = None
    BY <1>0, <1>1, <1>12 DEF FlightSet, WebInv, Flights, Flying
  <2>4. Flying(c)'
    BY <1>12, <2>3 DEF Flying
  <2>5. MadeCall(c)'
    <3> DEFINE x == tab[t].session
    <3>1. tab' = tab /\ x # None /\ a = issued'[x].account /\ tab[t].gen \in Nat
      BY <1>0, <1>2 DEF Website!Account, a
    <3>2. /\ call'[c].pc = "asked" /\ call'[c].tab = t /\ call'[c].gen = tab'[t].gen
          /\ call'[c].sent = x /\ tab'[t].session = x /\ tab'[t].gen <= tab'[t].gen
      BY <2>2, <3>1
    <3>3. handled'[c].by = <<>> /\ handled'[c].maker = a
      BY <1>10
    <3> HIDE DEF x, a
    <3> QED  BY <3>1, <3>2, <3>3 DEF MadeCall, Under, Website!Account
  <2> QED  BY <1>0, <1>10, <1>12, <2>1, <2>3, <2>4, <2>5, OneCallMoves
<1> QED  BY <1>0, <1>11, <1>12

LEMMA WebRejected ==
  ASSUME WebInv, NEW c \in Calls, Website!Rejected(c)
  PROVE  WebInv'
<1> DEFINE r == [call[c] EXCEPT !.replay = TRUE]
<1>0. /\ call[c].pc = "asked"
      /\ IF ~Website!Current(r) THEN Website!EndCall(c, "failed") /\ flight' = flight
         ELSE IF r.sent # tab[r.tab].session
           THEN call' = [call EXCEPT ![c] = [r EXCEPT !.sent = tab[r.tab].session]] /\ flight' = flight
           ELSE Website!Await(c, r)
      /\ UNCHANGED <<issued, saved, tab, lock, seen, resent, signedOut, handled>>
  BY DEF Website!Rejected, Website!history
<1>1. /\ call \in CallSet /\ flight \in FlightSet /\ Handed' = Handed
      /\ handled \in [Calls -> [maker : Members \cup {None}, by : Seq(Members)]]
  BY <1>0, WebTypes DEF WebInv, Handed
<1>2. call[c] \in CallRecords
  BY <1>1 DEF CallSet, CallRecords
<1>3. /\ r \in CallRecords /\ r.tab = call[c].tab /\ r.gen = call[c].gen /\ r.pc = "asked"
  BY <1>0, <1>2 DEF CallRecords
<1> HIDE DEF r
<1>4. /\ handled[c].by = <<>> /\ r.tab \in Tabs
      /\ r.gen = tab[r.tab].gen /\ tab[r.tab].session # None
           => Website!Account(tab[r.tab].session) = handled[c].maker
  BY <1>0, <1>3 DEF WebInv, MadeCalls, MadeCall, Under
<1>5. tab[r.tab].session \in Handed /\ tab[r.tab].gen \in Nat
  BY <1>4, FlightTypes DEF Handed
<1>6. CASE ~Website!Current(r)
  BY <1>0, <1>6, CallEnds
<1>7. CASE Website!Current(r) /\ r.sent # tab[r.tab].session
  <2>0. call' = [call EXCEPT ![c] = [r EXCEPT !.sent = tab[r.tab].session]] /\ flight' = flight
    BY <1>0, <1>7
  <2>1. call' \in CallSet' /\ \A d \in Calls : d # c => call'[d] = call[d]
    BY <1>1, <1>3, <1>5, <2>0 DEF CallSet, CallRecords
  <2>2. call'[c].pc = "asked" /\ call'[c].tab = r.tab /\ call'[c].gen = r.gen /\ call'[c].sent = tab[r.tab].session
    BY <1>1, <1>3, <2>0 DEF CallSet, CallRecords
  <2>3. flight' \in FlightSet' /\ flight[c].pc = "idle" /\ flight[c].tab = None
    BY <1>0, <1>1, <2>0 DEF FlightSet, WebInv, Flights, Flying
  <2>4. Flying(c)'
    BY <2>0, <2>3 DEF Flying
  <2>5. r.gen = tab[r.tab].gen /\ tab[r.tab].session # None
    BY <1>7 DEF Website!Current
  <2>6. MadeCall(c)'
    BY <1>0, <1>4, <1>5, <2>2, <2>5 DEF MadeCall, Under, Website!Account
  <2> QED  BY <1>0, <1>1, <2>0, <2>1, <2>3, <2>4, <2>6, OneCallMoves
<1>8. CASE Website!Current(r) /\ r.sent = tab[r.tab].session
  <2>1. r.gen = tab[r.tab].gen /\ tab[r.tab].session # None
    BY <1>8 DEF Website!Current
  <2> QED  BY <1>0, <1>1, <1>3, <1>4, <1>8, <2>1, CallWaits
<1> QED  BY <1>6, <1>7, <1>8

LEMMA WebInit == Website!Init => WebInv
<1> SUFFICES ASSUME Website!Init PROVE WebInv
  OBVIOUS
<1>1. Website!TypeOK
  <2>1. issued = <<>> /\ MaxTokens \in Nat
    BY PartAssumption DEF Website!Init, Website!WebsiteAssumption
  <2>2. issued \in Seq([account : Members, signIn : Website!Tokens]) /\ Len(issued) <= MaxTokens
    BY <2>1
  <2>3. saved \in SavedSet /\ tab \in TabSet /\ lock \in Calls \cup {None} /\ flight \in FlightSet /\ call \in CallSet
    BY DEF Website!Init, SavedSet, TabSet, FlightSet, CallSet, Handed, Website!Idle, Website!Unmade
  <2>4. seen \subseteq DOMAIN issued /\ resent \subseteq seen
        /\ handled \in [Calls -> [maker : Members \cup {None}, by : Seq(Members)]]
    BY DEF Website!Init
  <2> QED  BY <2>2, <2>3, <2>4, WebTypes
<1>2. Storage
  <2>1. DOMAIN issued = {}
    BY DEF Website!Init
  <2>2. \A a \in Members : saved.session[a] = None /\ saved.mark[a] = None
    BY DEF Website!Init
  <2> QED  BY <2>1, <2>2 DEF Website!Init, Storage, Rooted, Website!SignOutFinal, Website!SentOnce
<1>3. Flights
  BY DEF Website!Init, Flights, Flying, Website!Idle
<1>4. MadeCalls
  BY DEF Website!Init, MadeCalls, MadeCall, Under, Website!Unmade
<1> QED  BY <1>1, <1>2, <1>3, <1>4 DEF WebInv

LEMMA WebNext == WebInv /\ [Website!Next]_websiteVars => WebInv'
<1> SUFFICES ASSUME WebInv, [Website!Next]_websiteVars PROVE WebInv'
  OBVIOUS
<1>1. CASE UNCHANGED websiteVars
  <2>1. UNCHANGED <<issued, saved, tab, lock, flight, call, seen, resent, handled, signedOut>>
    BY <1>1 DEF websiteVars
  <2>2. Website!TypeOK'
    BY <2>1 DEF WebInv, Website!TypeOK
  <2>3. Storage'
    BY <2>1, NothingIssued, StorageShrinks
  <2>4. Flights' /\ MadeCalls'
    BY <2>1 DEF WebInv, Flights, Flying, MadeCalls, MadeCall, Under, Website!Account
  <2> QED  BY <2>2, <2>3, <2>4 DEF WebInv
<1>2. ASSUME NEW t \in Tabs, Website!SignOut(t) \/ Website!Synchronize(t) \/ Website!Close(t) \/ Website!Open(t)
      PROVE  WebInv'
  BY <1>2, WebSignOut, WebTabs, WebClose
<1>3. ASSUME NEW t \in Tabs, NEW a \in Members, Website!SignIn(t, a) \/ Website!SwitchContext(t, a) PROVE WebInv'
  BY <1>3, WebSignIn, WebSwitch
<1>4. ASSUME NEW c \in Calls, NEW t \in Tabs, Website!Begin(c, t) PROVE WebInv'
  BY <1>4, WebBegin
<1>5. ASSUME NEW c \in Calls, Website!Handled(c) \/ Website!Failed(c) PROVE WebInv'
  <2>1. PICK pc \in {"done", "failed"} : Website!EndCall(c, pc)
    BY <1>5 DEF Website!Handled, Website!Failed
  <2>2. /\ call[c].pc = "asked"
        /\ handled' = handled \/ handled' = [handled EXCEPT ![c].by = Append(@, Website!Account(call[c].sent))]
        /\ UNCHANGED <<issued, saved, tab, lock, flight, seen, resent, signedOut>>
    BY <1>5 DEF Website!Handled, Website!Failed, Website!history
  <2> QED  BY <2>1, <2>2, CallEnds
<1>6. ASSUME NEW c \in Calls, Website!Rejected(c) PROVE WebInv'
  BY <1>6, WebRejected
<1>7. ASSUME NEW f \in Calls, Website!Renewal(f) PROVE WebInv'
  BY <1>7, WebGivesUp, WebAdopt, WebSubmit, WebRenewed, WebDeliver DEF Website!Renewal
<1> QED  BY <1>1, <1>2, <1>3, <1>4, <1>5, <1>6, <1>7 DEF Website!Next

LEMMA WebAlways == MCSpec => []WebInv
<1>1. MCInit => WebInv
  BY WebInit DEF MCInit
<1>2. WebInv /\ [MCNext]_<<part, vars, websiteVars>> => WebInv'
  BY WebNext DEF MCNext, CliPart, WebsitePart
<1> QED  BY <1>1, <1>2, PTL DEF MCSpec

(* However many tabs renew, close, sign in and out or switch at once: no    *)
(* refresh token is sent twice, no sign-in that was signed out of comes     *)
(* back, and a call is handled at most once, for the account that made it.  *)
THEOREM TabsAlwaysAgree == MCSpec => []TabsAgree
<1>1. WebInv => TabsAgree
  <2> SUFFICES ASSUME WebInv PROVE TabsAgree
    OBVIOUS
  <2>1. Website!HandledOnceForMaker
    BY DEF WebInv, MadeCalls, MadeCall, Website!HandledOnceForMaker
  <2> QED  BY <2>1 DEF WebInv, Storage, TabsAgree
<1> QED  BY <1>1, WebAlways, PTL

(* A saved session whose token was not sent is replaced only by its own     *)
(* renewal or by a person.                                                  *)
THEOREM LoginsSurvive == MCSpec => LoginSurvives
<1>1. WebInv /\ [MCNext]_<<part, vars, websiteVars>> =>
        [\A a \in Members : Website!Replaced(a) =>
           saved.session[a] \in seen \/ Website!OwnRenewal(a) \/ Website!ByPerson]_(Website!vars)
  <2> SUFFICES ASSUME WebInv, Website!Next, NEW a \in Members, Website!Replaced(a), ~Website!ByPerson
               PROVE  saved.session[a] \in seen \/ Website!OwnRenewal(a)
    BY DEF MCNext, CliPart, WebsitePart, websiteVars, Website!vars, Website!history
  <2>1. saved.session[a] # None /\ saved'.session[a] # saved.session[a]
    BY DEF Website!Replaced
  <2>2. PICK f \in Calls :
          \/ Website!GiveUp(f) \/ Website!Abandon(f) \/ Website!Renewed(f) \/ Website!NotRenewed(f)
    <3>1. ASSUME NEW t \in Tabs, NEW b \in Members, Website!SwitchContext(t, b) PROVE FALSE
      <4>1. saved.session \in [Members -> Handed]
        BY WebTypes DEF WebInv, SavedSet
      <4> QED  BY <2>1, <3>1, <4>1 DEF Website!SwitchContext, Website!Keeping
    <3>2. ASSUME NEW f \in Calls, Website!Submit(f) PROVE FALSE
      <4>1. saved \in SavedSet
        BY WebTypes DEF WebInv
      <4> QED  BY <2>1, <3>2, <4>1 DEF Website!Submit, SavedSet
    <3>3. saved' # saved
      BY <2>1
    <3> QED  BY <3>1, <3>2, <3>3
             DEF Website!Next, Website!ByPerson, Website!Renewal, Website!Synchronize, Website!Close, Website!Open,
                 Website!Begin, Website!Handled, Website!Failed, Website!Rejected, Website!Refused, Website!Adopt,
                 Website!Deliver
  <2> DEFINE m == Website!Account(flight[f].session)
  <2>3. flight[f].pc # "idle"
    BY <2>2, LockedFlight DEF Website!GiveUp, Website!Abandon, Website!Renewed, Website!NotRenewed, Website!Queued
  <2>4. m \in Members /\ Website!Latest(f) = saved.session[m] /\ flight \in FlightSet
    BY <2>3, FlightAccount, WebTypes DEF Website!Latest, WebInv
  <2>5. flight[f].pc # "result" => flight'[f].pc # flight[f].pc
    <3>1. \E r \in {None, Website!Fresh} : Website!Result(f, r)
      BY <2>2 DEF Website!GiveUp, Website!Abandon, Website!Renewed, Website!NotRenewed
    <3> QED  BY <2>4, <3>1 DEF Website!Result, FlightSet
  <2>6. a = m
    <3> HIDE DEF m
    <3>1. saved \in SavedSet
      BY WebTypes DEF WebInv
    <3>2. \/ saved' = saved \/ saved' = Website!Without(m)
          \/ saved' = [saved EXCEPT !.session[m] = Website!Fresh, !.mark[m] = None]
      BY <2>2 DEF Website!GiveUp, Website!Abandon, Website!Renewed, Website!NotRenewed, m
    <3>3. CASE saved' = Website!Without(m)
      <4>1. \A b \in Members : b # m => saved'.session[b] = saved.session[b]
        BY <3>1, <3>3 DEF Website!Without, SavedSet
      <4> QED  BY <2>1, <4>1
    <3>4. CASE saved' = [saved EXCEPT !.session[m] = Website!Fresh, !.mark[m] = None]
      <4>1. \A b \in Members : b # m => saved'.session[b] = saved.session[b]
        <5> DEFINE fresh == Website!Fresh
        <5>1. saved' = [saved EXCEPT !.session[m] = fresh, !.mark[m] = None]
          BY <3>4
        <5> HIDE DEF fresh
        <5> QED  BY <3>1, <5>1 DEF SavedSet
      <4> QED  BY <2>1, <4>1
    <3> QED  BY <2>1, <3>2, <3>3, <3>4
  <2>7. CASE Website!GiveUp(f)
    BY <2>1, <2>4, <2>6, <2>7, SavedTypes DEF Website!GiveUp, Website!Interrupted, WebInv, Storage
  <2>8. CASE saved.session[a] = flight[f].session /\ flight[f].pc # "result"
    BY <2>5, <2>8 DEF Website!OwnRenewal
  <2>9. CASE Website!Abandon(f) \/ Website!Renewed(f) \/ Website!NotRenewed(f)
    <3>1. flight[f].pc # "result"
      BY <2>9, LockedFlight DEF Website!Abandon, Website!Renewed, Website!NotRenewed, Website!Queued
    <3>2. saved.session[a] = flight[f].session
      BY <2>1, <2>4, <2>6, <2>9 DEF Website!Abandon, Website!Renewed, Website!NotRenewed, Website!Untouched
    <3> QED  BY <2>8, <3>1, <3>2
  <2> QED  BY <2>2, <2>7, <2>9
<1> QED  BY <1>1, WebAlways, PTL DEF MCSpec, LoginSurvives, Website!LoginSurvives
=============================================================================
