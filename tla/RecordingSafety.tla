-------------------------- MODULE RecordingSafety --------------------------
(***************************************************************************)
(* What the recording queue must guarantee, over RecordingQueue.           *)
(***************************************************************************)
EXTENDS RecordingQueue

\* A recording that waits once its session is settled waits for something: its
\* source is known or the intent to find it is open.  INSERT OR IGNORE never
\* reopens an intent that was closed, so a straggler that enqueues after the
\* resolution is over must not leave the recording pending.
PendingIsTraceable ==
  settled /\ recording = "pending" => source \/ resolve = "open"

\* A storage intent is queued only for a recording whose source is stored.
StoreNeedsSource == store # "none" => source

\* The owner's decision to trash a recording closes its intents, and neither a
\* late settling task nor a lookup that was already claimed opens one again.
TrashClosesIntents ==
  recording = "trashed" => resolve # "open" /\ store # "open"

\* Two processes never work on the same attempt: the number a claim takes is
\* what lets an answer of an expired lease be told from the current one.
OneLookupPerAttempt ==
  \A p, q \in Procs :
    lookup[p] # "idle" /\ lookup[q] # "idle" /\ mine[p] = mine[q] => p = q

\* However often a lookup is cancelled or crashes after its claim, the
\* provider is asked at most RECORDING_RECONCILIATION_MAX_ATTEMPTS times.
LookupsBounded == asked <= MaxAttempts

-----------------------------------------------------------------------------
(* The inductive invariants behind the properties above *)

\* A task that knows of a source knows it from the row.
KnowledgeTrue == knows # {} => source

\* A handler that is about to settle the session has enqueued its recording.
EnqueuedBeforeSettling ==
  \A t \in Enders : stage[t] = "settle" => recording # "recording"

\* A closed resolution left an outcome, so that a task that finds the event
\* closed does not need to open it again.
ClosedIsDecided == resolve = "done" => source \/ recording \in {"failed", "trashed"}

PendingHasSource == recording = "pending" => source \/ resolve = "open"

OutcomeInv ==
  /\ TypeOK
  /\ KnowledgeTrue
  /\ EnqueuedBeforeSettling
  /\ ClosedIsDecided
  /\ PendingHasSource
  /\ StoreNeedsSource
  /\ TrashClosesIntents
  /\ recording = "trashed" => settled

\* Claims that may still ask the provider.
MayAsk == {p \in Procs : lookup[p] = "claimed" /\ mine[p] <= MaxAttempts}

\* Every claim in use has a number of its own, and the requests made and those
\* that may still be made fit the numbers given out and the limit.
ClaimInv ==
  /\ TypeOK
  /\ \A p \in Procs : lookup[p] # "idle" => mine[p] <= attempts
  /\ OneLookupPerAttempt
  /\ asked + Cardinality(MayAsk) <= attempts
  /\ asked + Cardinality(MayAsk) <= MaxAttempts

-----------------------------------------------------------------------------
(* Steps *)

\* The outcome of a recording is final: once trashed it stays trashed and once
\* failed it only becomes trashed, whatever the provider answers late and
\* whichever settling task comes last.
OutcomeFinal ==
  [][/\ recording = "trashed" => recording' = "trashed"
     /\ recording = "failed" => recording' \in {"failed", "trashed"}]_vars

-----------------------------------------------------------------------------
(* Progress *)

\* A settled recording without a source does not wait forever: its source is
\* found, or the attempt limit fails it, or its owner trashes it.
EventuallyDecided ==
  settled /\ recording = "pending" /\ ~source
    ~> source \/ recording \in {"failed", "trashed"}
=============================================================================
