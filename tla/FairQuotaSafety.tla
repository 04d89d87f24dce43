--------------------------- MODULE FairQuotaSafety ---------------------------
(***************************************************************************)
(* What the quota scheduler must guarantee, over FairQuota.                *)
(***************************************************************************)
EXTENDS FairQuota

\* No key is charged more units than its quota in a window, whatever is
\* refunded, rejected or cancelled meanwhile (SlidingQuota).
WindowLimit ==
  \A p \in Providers : IsFiniteSet(used[p]) /\ Cardinality(Fresh(p)) <= MaxUnits

Returns == {m \in Members(channel) : m.kind \in {"refund", "reject"}}

\* A caller at work with a permit of the window is charged for all its units:
\* no refund or rejection of another reservation takes them off (refund).
PermitsCharged ==
  \A r \in Requests :
    stage[r] = "granted" /\ permit[r].reservation > stale =>
      Charges(permit[r].reservation, UnitsOf[r]) \subseteq used[permit[r].provider]

\* The other way round, a charge of the window is one of a permit that a
\* caller holds or ended with, or that is about to be taken off: a grant
\* nobody received and a rejected permit cost nothing in the end.
ChargesDelivered ==
  \A p \in Providers : \A c \in Fresh(p) :
    LET grant == [provider |-> p, reservation |-> c[1]] IN
    \/ \E r \in Requests :
         stage[r] \in {"granted", "gone"} /\ permit[r] = grant /\ c[2] <= UnitsOf[r]
    \/ \E m \in Returns : m.kind = "reject" /\ m.permit = grant /\ c[2] <= m.units

\* A permit, which can be copied, is returned once: nobody works with a
\* reservation that was returned or that somebody else works with.
ReturnedOnce ==
  /\ \A r, o \in Requests :
       stage[r] = "granted" /\ stage[o] = "granted" /\ r # o
         => permit[r].reservation # permit[o].reservation
  /\ \A r \in Requests : stage[r] = "granted" => \A m \in Returns : m.permit # permit[r]

\* Only reservations handed out before are known.
ReservationsKnown ==
  /\ stale < next
  /\ \A r \in Requests : permit[r].reservation < next
  /\ \A m \in Returns : m.permit.reservation < next

\* The inductive invariant of the quota.
QuotaInv ==
  /\ TypeOK
  /\ WindowLimit
  /\ PermitsCharged
  /\ ChargesDelivered
  /\ ReturnedOnce
  /\ ReservationsKnown

-----------------------------------------------------------------------------
(* Queues *)

\* The scheduler never finds a scheduled actor without a request, which would
\* end it and every search with it (the expect calls of run_quota_scheduler):
\* the order holds each actor with a queue, once.
OrderMatchesQueues ==
  /\ \A i, j \in DOMAIN order : order[i] = order[j] => i = j
  /\ Members(order) = {a \in Actors : queue[a] # <<>>}

\* Actors at the head of the queue receive one permit each before any actor
\* receives a second (FairSearchPool).
RoundRobin == \A a, b \in Actors : passed[a][b] <= 1

\* Who was passed over stands before whom it passed: a grant sends its actor
\* to the end of the order.
PassedComeFirst ==
  \A a, b \in Actors : passed[a][b] > 0 =>
    /\ passed[a][b] = 1
    /\ b \in Members(order)
    /\ \A i, j \in DOMAIN order : order[i] = a /\ order[j] = b => j < i

\* The inductive invariant of the order.
OrderInv ==
  /\ queue \in [Actors -> Seq(Requests)] /\ order \in Seq(Actors)
  /\ passed \in [Actors -> [Actors -> Nat]]
  /\ OrderMatchesQueues
  /\ PassedComeFirst

-----------------------------------------------------------------------------
(* Progress *)

\* Every request that stays is granted: no block, refund, cancellation or
\* request of another actor stalls it forever.
EventuallyServed ==
  \A r \in Requests : stage[r] = "waiting" ~> stage[r] # "waiting"
=============================================================================
