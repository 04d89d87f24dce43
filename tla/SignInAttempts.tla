--------------------------- MODULE SignInAttempts ---------------------------
(***************************************************************************)
(* Hosted sign-in (server/login.rs).  An attempt keeps the verifier of one *)
(* authorization; the browser comes back with a code of Accounts, which    *)
(* revokes the sign-in when a code reaches it twice.  So the attempt and   *)
(* then the code are claimed in the store before the code is presented.    *)
(***************************************************************************)
EXTENDS UsageLedger

CONSTANTS
  Attempts,
  Codes,
  MaxAttempts   \* pending attempts the table may hold

VARIABLES
  attempt,    \* rows of accounts_login_attempts
  submitted,  \* codes in accounts_token_operations
  presented   \* [attempt, code -> how often Accounts was given the two]

signInVars == <<attempt, submitted, presented>>

SignInInit ==
  /\ attempt = [a \in Attempts |-> [status |-> "absent", lapsed |-> FALSE]]
  /\ submitted = {}
  /\ presented = [x \in Attempts \X Codes |-> 0]

Pending == {a \in Attempts : attempt[a].status # "absent" /\ ~attempt[a].lapsed}

(* begin: lapsed rows go, whatever became of them, and there is room. *)
BeginAttempt(a) ==
  /\ attempt[a].status = "absent"
  /\ Cardinality(Pending) < MaxAttempts
  /\ attempt' = [b \in Attempts |->
       IF b = a THEN [status |-> "open", lapsed |-> FALSE]
       ELSE IF attempt[b].lapsed THEN [status |-> "deleted", lapsed |-> TRUE] ELSE attempt[b]]
  /\ Serve
  /\ UNCHANGED <<submitted, presented, storeVars, usageVars>>

AttemptLapses(a) ==
  /\ attempt[a].status \in {"open", "claimed"} /\ ~attempt[a].lapsed
  /\ attempt' = [attempt EXCEPT ![a].lapsed = TRUE]
  /\ UNCHANGED <<submitted, presented, sharingVars, usageVars>>

(* exchange: one UPDATE claims the attempt ... *)
ClaimAttempt(q, a, code) ==
  /\ attempt[a].status = "open" /\ ~attempt[a].lapsed
  /\ attempt' = [attempt EXCEPT ![a].status = "claimed"]
  /\ Start(q, [op |-> "claim code", attempt |-> a, code |-> code])
  /\ UNCHANGED <<submitted, presented, storeVars, usageVars>>

FaultyClaimCode(q) ==   \* mutant: a code that was submitted before passes
  /\ Working(q, "claim code")
  /\ submitted' = submitted \cup {handler[q].code}
  /\ Continue(q, [handler[q] EXCEPT !.op = "present"])
  /\ UNCHANGED <<attempt, presented, storeVars, usageVars>>

(* ... claim_token claims the code ... *)
ClaimCode(q) ==
  /\ Working(q, "claim code")
  /\ handler[q].code \notin submitted
  /\ submitted' = submitted \cup {handler[q].code}
  /\ Continue(q, [handler[q] EXCEPT !.op = "present"])
  /\ UNCHANGED <<attempt, presented, storeVars, usageVars>>

(* ... and Accounts is given it; its answer may be lost. *)
PresentCode(q) ==
  /\ Working(q, "present")
  /\ presented' = [presented EXCEPT ![<<handler[q].attempt, handler[q].code>>] = @ + 1]
  /\ Done(q)
  /\ UNCHANGED <<attempt, submitted, storeVars, usageVars>>

SignInStep ==
  \/ \E a \in Attempts : BeginAttempt(a) \/ AttemptLapses(a)
  \/ \E q \in Slots :
       \/ ClaimCode(q) \/ PresentCode(q)
       \/ \E a \in Attempts, code \in Codes : ClaimAttempt(q, a, code)
=============================================================================
