------------------------ MODULE ProfileProvisioning ------------------------
(***************************************************************************)
(* The life of a browser profile: its row in the store, the profile the    *)
(* provider keeps for it, the handler that creates both and the            *)
(* reconciliation loops that finish what a handler left half done.         *)
(*                                                                         *)
(* One action is one store transaction, one provider call or one provider  *)
(* event; a handler or a loop may stop between any two of them.            *)
(* A definition marked "Faulty:" is the next one with a bug put in, for    *)
(* the mutants of PROJECT.json.                                            *)
(***************************************************************************)
EXTENDS Integers, Sequences

CONSTANTS Profiles,  \* local profile ids, each reserved at most once
          Procs      \* processes that run the reconciliation loop

VARIABLES
  row,     \* profiles.status, "none" before the row exists
  order,   \* the rows by created_at
  busy,    \* profiles with a live session
  remote,  \* the profile at the provider; "alien" does not carry our user id
  stage,   \* where the creating handler stands
  todo,    \* listed by the loop of a process, not looked up yet
  found    \* looked up with success, not activated yet

loopVars == <<todo, found>>
vars == <<row, order, busy, remote, stage, loopVars>>

Listed == {order[i] : i \in DOMAIN order}

TypeOK ==
  /\ row \in [Profiles -> {"none", "provisioning", "active", "failed", "ended"}]
  /\ order \in Seq(Profiles)
  /\ busy \subseteq Profiles
  /\ remote \in [Profiles -> {"none", "requested", "exists", "alien"}]
  /\ stage \in [Profiles -> {"idle", "creating", "finding", "activate", "reject"}]
  /\ todo \in [Procs -> SUBSET Profiles]
  /\ found \in [Procs -> SUBSET Profiles]

Init ==
  /\ row = [p \in Profiles |-> "none"]
  /\ order = <<>> /\ busy = {}
  /\ remote = [p \in Profiles |-> "none"]
  /\ stage = [p \in Profiles |-> "idle"]
  /\ todo = [q \in Procs |-> {}]
  /\ found = [q \in Procs |-> {}]

-----------------------------------------------------------------------------
(* Provider *)

\* The provider acts on a request whether or not anyone still waits for it.
ProviderCreates(p) ==
  /\ remote[p] = "requested"
  /\ \E result \in {"exists", "alien"} : remote' = [remote EXCEPT ![p] = result]
  /\ UNCHANGED <<row, order, busy, stage, loopVars>>

-----------------------------------------------------------------------------
(* The creating handler: create_profile *)

Goto(p, where) == stage' = [stage EXCEPT ![p] = where]

Reserve(p) ==
  /\ row[p] = "none"
  /\ row' = [row EXCEPT ![p] = "provisioning"]
  /\ order' = Append(order, p)
  /\ remote' = [remote EXCEPT ![p] = "requested"]
  /\ Goto(p, "creating")
  /\ UNCHANGED <<busy, loopVars>>

\* The provider refuses; nothing is created.
Refused(p) ==
  /\ stage[p] = "creating" /\ remote[p] = "requested"
  /\ remote' = [remote EXCEPT ![p] = "none"]
  /\ Goto(p, "reject")
  /\ UNCHANGED <<row, order, busy, loopVars>>

\* A profile comes back; one that does not carry the user id is refused.
Answered(p) ==
  /\ stage[p] = "creating"
  /\ \/ remote[p] = "exists" /\ Goto(p, "activate")
     \/ remote[p] = "alien" /\ Goto(p, "reject")
  /\ UNCHANGED <<row, order, busy, remote, loopVars>>

\* The answer is lost or unreadable.
Ambiguous(p) ==
  /\ stage[p] = "creating" /\ Goto(p, "finding")
  /\ UNCHANGED <<row, order, busy, remote, loopVars>>

\* Faulty: a profile that is not found is taken to be on its way.
FindAssumed(p) ==
  /\ stage[p] = "finding" /\ Goto(p, "activate")
  /\ UNCHANGED <<row, order, busy, remote, loopVars>>

\* The exact search by user id; absence counts as a refusal.
Find(p) ==
  /\ stage[p] = "finding"
  /\ \/ remote[p] = "exists" /\ Goto(p, "activate")
     \/ remote[p] # "exists" /\ Goto(p, "reject")
  /\ UNCHANGED <<row, order, busy, remote, loopVars>>

\* activate_profile and fail_profile are compare-and-swaps from provisioning.
ActivateRow(p) ==
  row' = IF row[p] = "provisioning" THEN [row EXCEPT ![p] = "active"] ELSE row

FailRow(p) ==
  row' = IF row[p] = "provisioning" THEN [row EXCEPT ![p] = "failed"] ELSE row

Activate(p) ==
  /\ stage[p] = "activate" /\ Goto(p, "idle") /\ ActivateRow(p)
  /\ UNCHANGED <<order, busy, remote, loopVars>>

Reject(p) ==
  /\ stage[p] = "reject" /\ Goto(p, "idle") /\ FailRow(p)
  /\ UNCHANGED <<order, busy, remote, loopVars>>

\* The search fails, a store call fails, or the handler vanishes.
Abandon(p) ==
  /\ stage[p] # "idle" /\ Goto(p, "idle")
  /\ UNCHANGED <<row, order, busy, remote, loopVars>>

-----------------------------------------------------------------------------
(* The owner and the sessions of a profile *)

OpenSession(p) ==
  /\ row[p] = "active" /\ busy' = busy \cup {p}
  /\ UNCHANGED <<row, order, remote, stage, loopVars>>

CloseSession(p) ==
  /\ busy' = busy \ {p}
  /\ UNCHANGED <<row, order, remote, stage, loopVars>>

\* end_profile: any row that is not in use, a failed one included.
EndProfile(p) ==
  /\ row[p] # "none" /\ p \notin busy
  /\ row' = [row EXCEPT ![p] = "ended"]
  /\ UNCHANGED <<order, busy, remote, stage, loopVars>>

-----------------------------------------------------------------------------
(* The reconciliation loop of process q: reconcile_profiles_once *)

Pending(listed) == {p \in listed : row[p] = "provisioning"}

IdleLoop(q) == todo[q] = {} /\ found[q] = {}

\* Faulty: a limit on the rows, oldest first.
ListOldest(q) ==
  /\ IdleLoop(q)
  /\ LET waiting == SelectSeq(order, LAMBDA p : row[p] = "provisioning") IN
       todo' = [todo EXCEPT ![q] = {waiting[i] : i \in DOMAIN waiting \cap {1}}]
  /\ UNCHANGED <<row, order, busy, remote, stage, found>>

\* provisioning_profiles: every row, without a limit.
List(q) ==
  /\ IdleLoop(q)
  /\ todo' = [todo EXCEPT ![q] = Pending(Listed)]
  /\ UNCHANGED <<row, order, busy, remote, stage, found>>

LookUp(q, p) ==
  /\ p \in todo[q] /\ remote[p] = "exists"
  /\ todo' = [todo EXCEPT ![q] = @ \ {p}]
  /\ found' = [found EXCEPT ![q] = @ \cup {p}]
  /\ UNCHANGED <<row, order, busy, remote, stage>>

Adopt(q, p) ==
  /\ p \in found[q] /\ found' = [found EXCEPT ![q] = @ \ {p}] /\ ActivateRow(p)
  /\ UNCHANGED <<order, busy, remote, stage, todo>>

\* The search finds nothing or fails, the item times out, the process dies.
Skip(q, p) ==
  /\ p \in todo[q] \cup found[q]
  /\ todo' = [todo EXCEPT ![q] = @ \ {p}]
  /\ found' = [found EXCEPT ![q] = @ \ {p}]
  /\ UNCHANGED <<row, order, busy, remote, stage>>

-----------------------------------------------------------------------------

Create(p) ==
  Reserve(p) \/ Refused(p) \/ Answered(p) \/ Ambiguous(p) \/ Find(p) \/ Activate(p) \/ Reject(p)

Next ==
  \/ \E p \in Profiles :
       \/ ProviderCreates(p) \/ Create(p) \/ Abandon(p)
       \/ OpenSession(p) \/ CloseSession(p) \/ EndProfile(p)
       \/ \E q \in Procs : LookUp(q, p) \/ Adopt(q, p) \/ Skip(q, p)
  \/ \E q \in Procs : List(q)

Spec == Init /\ [][Next]_vars

\* The loop of every process ticks and works off its list; searches and
\* activations may fail again and again, but not forever.
Fairness ==
  /\ \A q \in Procs : WF_vars(List(q))
  /\ \A q \in Procs, p \in Profiles :
       /\ WF_vars(LookUp(q, p) \/ Adopt(q, p) \/ Skip(q, p))
       /\ SF_vars(LookUp(q, p)) /\ SF_vars(Adopt(q, p))

-----------------------------------------------------------------------------
(* What profile provisioning must guarantee. *)

\* A session is only ever started on a profile the provider has: no lost
\* answer, late search or racing loop activates a row before its remote
\* profile exists (create_profile, reconcile_profile).
ActiveHasRemote ==
  \A p \in Profiles : row[p] = "active" => remote[p] = "exists"

\* A profile stays active while a session uses it: end_profile and
\* reserve_session exclude each other.
BusyIsActive == \A p \in busy : row[p] = "active"

\* The fate of a reservation is decided once, whichever of the handler, the
\* loops and the owner comes first: a row never becomes active or failed
\* after it was decided, and an ended one stays ended.
DecidedOnce ==
  [][\A p \in Profiles : row[p] \notin {"none", "provisioning"} =>
       row'[p] \in {row[p], "ended"}]_vars

-----------------------------------------------------------------------------
(* The inductive invariant behind the properties above *)

\* A profile without a row has left no trace at the provider.
RowFirst == \A p \in Profiles : row[p] = "none" => remote[p] = "none"

\* Whoever is about to activate a row has seen its remote profile.
SeenBeforeActivation ==
  \A p \in Profiles :
    stage[p] = "activate" \/ (\E q \in Procs : p \in found[q]) => remote[p] = "exists"

\* The inductive invariant: a row is activated only by a task that saw the
\* remote profile carry the user id of the row, in a search or in an answer.
ProfileInv == TypeOK /\ RowFirst /\ SeenBeforeActivation /\ ActiveHasRemote /\ BusyIsActive

-----------------------------------------------------------------------------
(* Progress, and what the code hopes for *)

\* A profile the provider created is not left provisioning forever, however
\* its handler ended and however many older rows never resolve
\* (provisioning_profiles).
ExistingIsAdopted ==
  \A p \in Profiles :
    row[p] = "provisioning" /\ remote[p] = "exists" ~> row[p] # "provisioning"

\* create_profile holds that the exact lookup proves that the provider did not
\* commit the ambiguous create: a failed reservation has no remote profile.
AbsenceIsFinal ==
  \A p \in Profiles : row[p] = "failed" => remote[p] # "exists"
=============================================================================
