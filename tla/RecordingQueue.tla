--------------------------- MODULE RecordingQueue ---------------------------
(***************************************************************************)
(* The recording of one session from the confirmed stop of its browser on. *)
(*                                                                         *)
(* The tasks that settle the session (end handlers and reaper workers, and *)
(* the recovery of a failed creation) queue an intent to store the         *)
(* recording or, when its source is not known yet, to resolve the source.  *)
(* The reconciliation loop of every process claims the resolve intent and  *)
(* asks the provider; the owner may trash the recording meanwhile.  Claims *)
(* are fenced by the attempt number of the intent.                         *)
(*                                                                         *)
(* Clock readings are kept as the comparison the code makes:               *)
(* "next_attempt_at <= now" is the variable due.                           *)
(* A definition marked "Faulty:" is the next one with a bug put in, for    *)
(* the mutants of PROJECT.json.                                            *)
(***************************************************************************)
EXTENDS Integers, FiniteSets

CONSTANTS Enders,            \* end handlers and reaper workers past the stop
          Creators,          \* recoveries of a failed creation past the stop
          Procs,             \* processes that run the reconciliation loop
          MaxAttempts,       \* RECORDING_RECONCILIATION_MAX_ATTEMPTS
          AttemptCap,        \* bound: claims made in a behaviour
          LeaseCoversLookup  \* a lookup is over before its claim is

ASSUME QueueAssumption ==
  /\ Enders \cap Creators = {}
  /\ \A c, d \in Creators : c = d   \* a session is created by one task
  /\ MaxAttempts \in Nat \ {0}
  /\ AttemptCap \in Nat
  /\ IsFiniteSet(Procs)
  /\ LeaseCoversLookup \in BOOLEAN

VARIABLES
  settled,    \* sessions.status is terminal, ending otherwise
  recording,  \* recordings.status
  source,     \* a provider_recording_url_enc is stored
  resolve,    \* the recording.resolve event: not inserted, open or done
  attempts,   \* its attempts
  due,        \* its next_attempt_at <= now
  store,      \* the recording.store event
  upload,     \* the recording at the provider
  stage,      \* where each settling task stands
  knows,      \* settling tasks that know of a source
  lookup,     \* where the claim of each process stands
  mine,       \* the attempt number of that claim
  asked       \* provider requests made (history)

eventVars  == <<resolve, attempts, due, store>>
stopVars   == <<stage, knows>>
lookupVars == <<lookup, mine, asked>>
vars == <<settled, recording, source, eventVars, upload, stopVars, lookupVars>>

Tasks == Enders \cup Creators
Event == {"none", "open", "done"}

TypeOK ==
  /\ settled \in BOOLEAN
  /\ recording \in {"recording", "pending", "failed", "trashed"}
  /\ source \in BOOLEAN
  /\ resolve \in Event /\ store \in Event
  /\ attempts \in Nat /\ due \in BOOLEAN
  /\ upload \in {"processing", "ready", "missing"}
  /\ stage \in [Tasks -> {"stopped", "enqueue", "settle", "idle"}]
  /\ knows \subseteq Tasks
  /\ lookup \in [Procs -> {"idle", "claimed", "complete", "unavailable", "defer"}]
  /\ mine \in [Procs -> Nat]
  /\ asked \in Nat

\* The browser is stopped; the runtime in the row may carry a source or not.
Init ==
  /\ settled = FALSE
  /\ recording = "recording"
  /\ source \in BOOLEAN
  /\ resolve = "none" /\ store = "none" /\ attempts = 0 /\ due = FALSE
  /\ upload = "processing"
  /\ stage = [t \in Tasks |-> "stopped"]
  /\ knows \in SUBSET Tasks /\ (knows # {} => source)
  /\ lookup = [p \in Procs |-> "idle"]
  /\ mine = [p \in Procs |-> 0]
  /\ asked = 0

-----------------------------------------------------------------------------
(* Settling tasks *)

\* INSERT OR IGNORE: an event that exists, done or not, stays as it is.
Inserted(event) == IF event = "none" THEN "open" ELSE event

At(t, from, to) == stage[t] = from /\ stage' = [stage EXCEPT ![t] = to]

Abandon(t) ==
  /\ stage[t] # "idle"
  /\ stage' = [stage EXCEPT ![t] = "idle"]
  /\ UNCHANGED <<settled, recording, source, eventVars, upload, knows, lookupVars>>

\* The stop snapshot carries the URL, or not yet.
RememberSource(t) ==
  /\ At(t, "stopped", IF t \in Enders THEN "enqueue" ELSE "settle")
  /\ \/ UNCHANGED <<source, knows>>
     \/ upload = "ready" /\ source' = TRUE /\ knows' = knows \cup {t}
  /\ UNCHANGED <<settled, recording, eventVars, upload, lookupVars>>

\* mark_recording_pending with a source, queue_recording_source_resolution
\* without; the task gives up unless the row is as it expects.
Enqueue(t) ==
  /\ \/ /\ recording \in {"recording", "pending"}
        /\ source <=> t \in knows
        /\ recording' = "pending"
        /\ store' = IF t \in knows THEN Inserted(store) ELSE store
        /\ resolve' = IF t \in knows THEN resolve ELSE Inserted(resolve)
        /\ At(t, "enqueue", "settle")
     \/ /\ recording \notin {"recording", "pending"} \/ ~(source <=> t \in knows)
        /\ At(t, "enqueue", "idle")
        /\ UNCHANGED <<recording, store, resolve>>
  /\ UNCHANGED <<settled, source, attempts, due, upload, knows, lookupVars>>

\* finalize_end_session or finalize_expired_session.
Settle(t) ==
  /\ t \in Enders /\ At(t, "settle", "idle")
  /\ settled' = TRUE
  /\ recording' = IF recording = "recording" THEN "pending" ELSE recording
  /\ UNCHANGED <<source, eventVars, upload, knows, lookupVars>>

\* finalize_failed_session_after_stop; an error once the session is settled.
FinalizeFailed(t) ==
  /\ t \in Creators /\ At(t, "settle", "idle")
  /\ \/ /\ ~settled /\ settled' = TRUE
        /\ recording' = IF recording \in {"recording", "pending"} THEN "pending" ELSE recording
        /\ store' = IF t \in knows THEN Inserted(store) ELSE store
        /\ resolve' = IF t \in knows THEN resolve ELSE Inserted(resolve)
     \/ settled /\ UNCHANGED <<settled, recording, store, resolve>>
  /\ UNCHANGED <<source, attempts, due, upload, knows, lookupVars>>

Closed(event) == IF event = "open" THEN "done" ELSE event

\* trash_recording
Trash ==
  /\ settled /\ recording \in {"pending", "failed", "trashed"}
  /\ recording' = "trashed"
  /\ resolve' = Closed(resolve) /\ store' = Closed(store)
  /\ UNCHANGED <<settled, source, attempts, due, upload, stopVars, lookupVars>>

-----------------------------------------------------------------------------
(* Provider and clock *)

ProviderDecides ==
  /\ upload = "processing" /\ upload' \in {"ready", "missing"}
  /\ UNCHANGED <<settled, recording, source, eventVars, stopVars, lookupVars>>

\* The retry delay or the lease of a claim is over.  Without
\* LeaseCoversLookup a stalled process may still be at work.
DueAgain ==
  /\ resolve = "open" /\ ~due /\ due' = TRUE
  /\ LeaseCoversLookup => \A p \in Procs : lookup[p] = "idle" \/ mine[p] # attempts
  /\ UNCHANGED <<settled, recording, source, resolve, attempts, store, upload, stopVars, lookupVars>>

-----------------------------------------------------------------------------
(* The reconciliation loop of process p *)

Goto(p, where) == lookup' = [lookup EXCEPT ![p] = where]

Claimable ==
  /\ resolve = "open" /\ due
  /\ settled /\ ~source /\ recording \in {"recording", "pending", "failed"}

\* Faulty: an intent that spent its attempts is not claimed any more.
ClaimBelowLimit(p) ==
  /\ lookup[p] = "idle" /\ Claimable /\ attempts < AttemptCap
  /\ attempts < MaxAttempts
  /\ attempts' = attempts + 1 /\ due' = FALSE
  /\ mine' = [mine EXCEPT ![p] = attempts']
  /\ Goto(p, "claimed")
  /\ UNCHANGED <<settled, recording, source, resolve, store, upload, stopVars, asked>>

\* Faulty: the claim moves the due time only.
ClaimWithoutNumber(p) ==
  /\ lookup[p] = "idle" /\ Claimable
  /\ due' = FALSE
  /\ mine' = [mine EXCEPT ![p] = attempts]
  /\ Goto(p, "claimed")
  /\ UNCHANGED <<settled, recording, source, resolve, attempts, store, upload, stopVars, asked>>

\* claim_recording_source_resolutions
Claim(p) ==
  /\ lookup[p] = "idle" /\ Claimable /\ attempts < AttemptCap
  /\ attempts' = attempts + 1 /\ due' = FALSE
  /\ mine' = [mine EXCEPT ![p] = attempts']
  /\ Goto(p, "claimed")
  /\ UNCHANGED <<settled, recording, source, resolve, store, upload, stopVars, asked>>

\* reconcile_recording_source asks the provider, unless the limit is passed.
\* An error or a timeout is deferred like an answer that decides nothing.
LookUp(p) ==
  /\ lookup[p] = "claimed"
  /\ \/ mine[p] > MaxAttempts /\ Goto(p, "defer") /\ UNCHANGED asked
     \/ /\ mine[p] <= MaxAttempts /\ asked' = asked + 1
        /\ \/ upload = "ready" /\ Goto(p, "complete")
           \/ upload = "missing" /\ Goto(p, "unavailable")
           \/ Goto(p, "defer")
  /\ UNCHANGED <<settled, recording, source, eventVars, upload, stopVars, mine>>

\* The compare-and-swap on the attempt number.
Owns(p) == resolve = "open" /\ attempts = mine[p]

\* Faulty: a trashed recording is completed like any other.
CompleteTrashed(p) ==
  /\ lookup[p] = "complete" /\ Goto(p, "idle")
  /\ resolve' = "done" /\ source' = TRUE /\ recording' = "pending" /\ store' = Inserted(store)
  /\ UNCHANGED <<settled, attempts, due, upload, stopVars, mine, asked>>

\* complete_recording_source_resolution
Complete(p) ==
  /\ lookup[p] = "complete" /\ Goto(p, "idle")
  /\ \/ /\ Owns(p) /\ resolve' = "done"
        /\ \/ recording = "trashed" /\ UNCHANGED <<source, recording, store>>
           \/ /\ recording # "trashed"
              /\ source' = TRUE
              /\ recording' = IF recording = "failed" THEN "failed" ELSE "pending"
              /\ store' = Inserted(store)
     \/ ~Owns(p) /\ UNCHANGED <<resolve, source, recording, store>>
  /\ UNCHANGED <<settled, attempts, due, upload, stopVars, mine, asked>>

\* Faulty: the intent is closed but the recording is left waiting.
FailSilently(p) ==
  /\ Goto(p, "idle")
  /\ resolve' = IF Owns(p) THEN "done" ELSE resolve
  /\ UNCHANGED <<settled, recording, source, attempts, due, store, upload, stopVars, mine, asked>>

\* fail_recording_source_resolution
FailResolution(p) ==
  /\ Goto(p, "idle")
  /\ \/ /\ Owns(p) /\ resolve' = "done"
        /\ recording' = IF recording \in {"recording", "pending"} THEN "failed" ELSE recording
     \/ ~Owns(p) /\ UNCHANGED <<resolve, recording>>
  /\ UNCHANGED <<settled, source, attempts, due, store, upload, stopVars, mine, asked>>

Unavailable(p) == lookup[p] = "unavailable" /\ FailResolution(p)

\* defer_or_exhaust_recording_source: the last attempt fails the recording,
\* an earlier one waits for the next (reschedule_recording_source_resolution).
DeferOrExhaust(p) ==
  /\ lookup[p] = "defer"
  /\ \/ mine[p] >= MaxAttempts /\ FailResolution(p)
     \/ /\ mine[p] < MaxAttempts /\ Goto(p, "idle")
        /\ due' = IF Owns(p) THEN FALSE ELSE due
        /\ UNCHANGED <<settled, recording, source, resolve, attempts, store, upload,
                       stopVars, mine, asked>>

\* The item timeout drops a worker, which is then deferred.
TimesOut(p) ==
  /\ lookup[p] \in {"claimed", "complete", "unavailable"} /\ Goto(p, "defer")
  /\ UNCHANGED <<settled, recording, source, eventVars, upload, stopVars, mine, asked>>

\* The worker dies with its process or its cycle, or a database error ends it.
\* Bound: not the one that took the last claim of the behaviour.
Crash(p) ==
  /\ lookup[p] # "idle" /\ mine[p] < AttemptCap /\ Goto(p, "idle")
  /\ UNCHANGED <<settled, recording, source, eventVars, upload, stopVars, mine, asked>>

-----------------------------------------------------------------------------

Reconcile(p) == LookUp(p) \/ Complete(p) \/ Unavailable(p) \/ DeferOrExhaust(p)

Next ==
  \/ \E t \in Tasks : Abandon(t) \/ RememberSource(t) \/ Enqueue(t) \/ Settle(t) \/ FinalizeFailed(t)
  \/ Trash \/ ProviderDecides \/ DueAgain
  \/ \E p \in Procs : Claim(p) \/ Reconcile(p) \/ TimesOut(p) \/ Crash(p)

Spec == Init /\ [][Next]_vars

\* The retry delay passes, the loop of every process ticks, and its workers
\* finish what they claimed unless they crash.
Fairness == WF_vars(DueAgain) /\ \A p \in Procs : WF_vars(Claim(p)) /\ WF_vars(Reconcile(p))
=============================================================================
