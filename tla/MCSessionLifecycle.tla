------------------------- MODULE MCSessionLifecycle -------------------------
(***************************************************************************)
(* Instances of SessionSafety for TLC.  A behaviour is that of one part,   *)
(* chosen by its initial state; the other parts rest:                      *)
(*   slot     sessions of one profile, as the cfg declares it              *)
(*   stalled  one incognito session whose stop attempts outlive their      *)
(*            lease, so that two processes stop it at once                 *)
(*   calls    one session over a provider that loses and garbles answers   *)
(***************************************************************************)
EXTENDS SessionSafety, TLC

CONSTANTS Parts,     \* parts of this run
          TwoProcs,  \* the processes of the stalled part
          Own, Foreign, NoId, MaxCalls  \* the calls part

VARIABLES part, remote, late, row, handler, client, reserved

callsVars == <<remote, late, row, handler, client, reserved>>

\* Every session asks for the same profile, or for none.
MCSameProfile == [s \in Sessions |-> CHOOSE p \in Profiles : TRUE]
MCIncognito == [s \in Sessions |-> Incognito]

Stalled == INSTANCE SessionLifecycle
  WITH Procs <- TwoProcs, Profiles <- {}, ProfileOf <- MCIncognito,
       LeaseCoversAttempt <- FALSE, Answers <- BOOLEAN

Calls == INSTANCE ProviderCalls WITH None <- NoId

ASSUME PartsAssumption == Calls!ProviderCallsAssumption

MCInit ==
  /\ part \in Parts
  /\ IF part = "stalled" THEN Stalled!Init ELSE Init
  /\ Calls!Init

SlotPart == part = "slot" /\ Next /\ UNCHANGED <<part, callsVars>>

\* One of the sessions, whichever; its runtime has no slot.  Bound: one request
\* to end it at a time, beside the workers.
StalledPart ==
  /\ part = "stalled" /\ Stalled!Next
  /\ Cardinality({s \in Sessions : status'[s] # "none"}) <= 1
  /\ Cardinality({t \in Stalled!Tasks : t.kind = "end" /\ pc'[t] # "idle"}) <= 1
  /\ UNCHANGED <<part, callsVars>>

CallsPart == part = "calls" /\ Calls!Next /\ UNCHANGED <<part, vars>>

\* A client that was answered may ask for nothing more.
Rest == part = "calls" /\ UNCHANGED <<part, vars, callsVars>>

MCNext == SlotPart \/ StalledPart \/ CallsPart \/ Rest

MCSpec == MCInit /\ [][MCNext]_<<part, vars, callsVars>>
MCFairSpec == MCSpec /\ Fairness

\* A session is failed or ended only if nothing of it runs: no start is under
\* way and no browser of a failed one is left, and that of an ended one was
\* stopped; and a creation that is sent again reserves no second one.
NothingLeftRunning ==
  /\ Calls!FailedLeavesNothing /\ Calls!EndedIsStopped
  /\ Calls!TooManyLeavesNothing /\ Calls!ReservedOnce

MCSymmetry == Permutations(Sessions) \cup Permutations(TwoProcs)
=============================================================================
