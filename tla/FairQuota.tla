------------------------------ MODULE FairQuota ------------------------------
(***************************************************************************)
(* The quota scheduler behind search and fetch: callers ask for units of   *)
(* the provider quota over a bounded channel, one scheduler task grants    *)
(* them actor by actor, and callers return what the provider did not use.  *)
(*                                                                         *)
(* One action is one step of a caller or one stretch of the scheduler loop *)
(* between two points where a caller can be observed.  Charges are kept in *)
(* the order of their reservations, so the charges that left the window    *)
(* are those of the reservations up to stale; "blocked_until > now" is     *)
(* membership in blocked.                                                  *)
(* A definition marked "Faulty:" is the next one with a bug put in, for    *)
(* the mutants of PROJECT.json.                                            *)
(***************************************************************************)
EXTENDS Integers, Sequences, FiniteSets

CONSTANTS Requests,       \* calls of acquire and its retries
          Actors,         \* who the calls are for
          ActorOf,        \* the actor of each request
          UnitsOf,        \* the units each request asks for
          ProviderCount,  \* provider keys
          MaxUnits,       \* units per key and window
          QueueCapacity,  \* FAIR_SEARCH_QUEUE_CAPACITY
          MaxRetries      \* MAX_RATE_LIMIT_RETRIES, or what its deadline leaves a request of it

Providers == 1..ProviderCount

ASSUME QuotaAssumption ==
  /\ ActorOf \in [Requests -> Actors]
  /\ ProviderCount \in Nat \ {0}
  /\ MaxUnits \in Nat \ {0}
  /\ UnitsOf \in [Requests -> 1..MaxUnits]   \* acquire refuses the others
  /\ QueueCapacity \in Nat \ {0}
  /\ MaxRetries \in [Requests -> Nat]

VARIABLES
  stage,    \* where each request stands
  retries,  \* its RateLimitBudget.retries
  permit,   \* the last permit it was granted
  channel,  \* messages on their way to the scheduler
  queue,    \* by_actor
  order,    \* actor_order
  used,     \* used_at: the charges of each provider
  stale,    \* reservations up to this one are out of the window
  blocked,  \* providers with a blocked_until in the future
  next,     \* next_reservation
  sched,    \* where the scheduler loop stands
  need,     \* the units its timer waits for, 0 without a timer
  passed    \* grants to one actor while another waits (history)

callerVars == <<stage, retries, permit>>
queueVars  == <<queue, order, passed>>
quotaVars  == <<used, next>>
clockVars  == <<stale, blocked>>
schedVars  == <<sched, need>>
vars == <<callerVars, channel, queueVars, quotaVars, clockVars, schedVars>>

Permits  == [provider : Providers, reservation : Nat]
Acquires == [kind : {"acquire"}, request : Requests]
Controls == [kind : {"refund", "reject"}, permit : Permits, units : 1..MaxUnits]

TypeOK ==
  /\ stage \in [Requests -> {"idle", "waiting", "granted", "gone"}]
  /\ retries \in [Requests -> Nat]
  /\ \A r \in Requests : retries[r] <= MaxRetries[r]
  /\ permit \in [Requests -> Permits]
  /\ channel \in Seq(Acquires \cup Controls)
  /\ used \in [Providers -> SUBSET (Nat \X (1..MaxUnits))]
  /\ stale \in Nat /\ next \in Nat
  /\ blocked \subseteq Providers
  /\ sched \in {"drain", "serve", "asleep"}
  /\ need \in 0..MaxUnits

Init ==
  /\ stage = [r \in Requests |-> "idle"]
  /\ retries = [r \in Requests |-> 0]
  /\ permit = [r \in Requests |-> [provider |-> 1, reservation |-> 0]]
  /\ channel = <<>>
  /\ queue = [a \in Actors |-> <<>>]
  /\ order = <<>>
  /\ used = [p \in Providers |-> {}]
  /\ stale = 0 /\ blocked = {} /\ next = 1
  /\ sched = "drain" /\ need = 0
  /\ passed = [a \in Actors |-> [b \in Actors |-> 0]]

-----------------------------------------------------------------------------
(* The window *)

Members(s) == {s[i] : i \in DOMAIN s}

Charges(reservation, units) == {<<reservation, n>> : n \in 1..units}

Fresh(p) == {c \in used[p] : c[1] > stale}

\* Faulty: room for one unit is taken for room enough.
FitsOne(p, units) == p \notin blocked /\ Cardinality(Fresh(p)) < MaxUnits

Fits(p, units) == p \notin blocked /\ Cardinality(Fresh(p)) + units <= MaxUnits

\* The key with the fewest charges, the first of them.
LeastUsed(p, units) ==
  /\ Fits(p, units)
  /\ \A o \in Providers : Fits(o, units) =>
       \/ Cardinality(Fresh(p)) < Cardinality(Fresh(o))
       \/ Cardinality(Fresh(p)) = Cardinality(Fresh(o)) /\ p <= o

\* The oldest reservation leaves the window.
WindowElapses ==
  /\ stale < next - 1
  /\ stale' = stale + 1
  /\ UNCHANGED <<callerVars, channel, queueVars, quotaVars, blocked, schedVars>>

BlockElapses(p) ==
  /\ p \in blocked
  /\ blocked' = blocked \ {p}
  /\ UNCHANGED <<callerVars, channel, queueVars, quotaVars, stale, schedVars>>

-----------------------------------------------------------------------------
(* Callers: search_for, fetch_for *)

Goto(r, where) == stage' = [stage EXCEPT ![r] = where]

\* Requests that hold a queue slot, on the channel or in a queue.
Queued ==
  {r \in Requests : [kind |-> "acquire", request |-> r] \in Members(channel)
                    \/ r \in Members(queue[ActorOf[r]])}

Room == Len(channel) < QueueCapacity

\* A request asks for its units, or is refused because the queue is full.
Acquire(r) ==
  /\ stage[r] = "idle"
  /\ \/ /\ Cardinality(Queued) < QueueCapacity /\ Room
        /\ channel' = Append(channel, [kind |-> "acquire", request |-> r])
        /\ Goto(r, "waiting")
     \/ /\ ~(Cardinality(Queued) < QueueCapacity /\ Room)
        /\ Goto(r, "gone")
        /\ UNCHANGED channel
  /\ UNCHANGED <<retries, permit, queueVars, quotaVars, clockVars, schedVars>>

Send(r, kind, units) ==
  /\ stage[r] = "granted" /\ Room
  /\ channel' = Append(channel, [kind |-> kind, permit |-> permit[r], units |-> units])

\* The call is over: it used its units, or returns those of failed items or
\* of a failed call.
Finish(r) ==
  /\ stage[r] = "granted"
  /\ \/ UNCHANGED channel
     \/ \E units \in 1..UnitsOf[r] : Send(r, "refund", units)
  /\ Goto(r, "gone")
  /\ UNCHANGED <<retries, permit, queueVars, quotaVars, clockVars, schedVars>>

\* The provider answered 429, or the retry deadline cut a later attempt off,
\* which is reported like the last 429.  The request is retried while its
\* budget of retries and time lasts.
RateLimited(r) ==
  /\ Send(r, "reject", UnitsOf[r])
  /\ \/ /\ retries[r] < MaxRetries[r]
        /\ retries' = [retries EXCEPT ![r] = @ + 1]
        /\ Goto(r, "idle")
     \/ Goto(r, "gone") /\ UNCHANGED retries
  /\ UNCHANGED <<permit, queueVars, quotaVars, clockVars, schedVars>>

\* The caller is dropped, or its retry deadline passes while it waits.  A
\* permit it holds is not returned.
Cancel(r) ==
  /\ stage[r] \in {"idle", "waiting", "granted"}
  /\ Goto(r, "gone")
  /\ UNCHANGED <<retries, permit, channel, queueVars, quotaVars, clockVars, schedVars>>

-----------------------------------------------------------------------------
(* The scheduler: run_quota_scheduler *)

Enqueue(r) ==
  LET a == ActorOf[r] IN
  /\ queue' = [queue EXCEPT ![a] = Append(@, r)]
  /\ order' = IF queue[a] = <<>> THEN Append(order, a) ELSE order
  /\ UNCHANGED <<used, blocked>>

\* Faulty: the latest charges are taken off, whoever made them.
RefundLatest(grant, units) ==
  used' = [used EXCEPT ![grant.provider] = @ \ Charges(next - 1, units)]

Refund(grant, units) ==
  used' = [used EXCEPT ![grant.provider] = @ \ Charges(grant.reservation, units)]

\* apply_message
Receive ==
  /\ sched \in {"drain", "asleep"} /\ channel # <<>>
  /\ LET m == Head(channel) IN
       \/ m.kind = "acquire" /\ Enqueue(m.request)
       \/ /\ m.kind \in {"refund", "reject"}
          /\ Refund(m.permit, m.units)
          /\ blocked' = IF m.kind = "reject" THEN blocked \cup {m.permit.provider} ELSE blocked
          /\ UNCHANGED <<queue, order>>
  /\ channel' = Tail(channel)
  /\ sched' = "drain" /\ need' = 0
  /\ UNCHANGED <<callerVars, passed, stale, next>>

Waiting(r) == stage[r] = "waiting"

\* An actor that leaves the order is passed over no more.
Forget(history, present) ==
  [a \in Actors |-> [b \in Actors |-> IF b \in present THEN history[a][b] ELSE 0]]

\* The elements of a sequence that are in kept, in their order: SelectSeq, as a
\* function that proofs can unfold.
Retain(s, kept) ==
  LET retained[n \in 0..Len(s)] ==
        IF n = 0 THEN <<>>
        ELSE IF s[n] \in kept THEN Append(retained[n - 1], s[n]) ELSE retained[n - 1]
  IN retained[Len(s)]

\* discard_cancelled, once the channel is empty.
Sweep ==
  /\ sched = "drain" /\ channel = <<>>
  /\ queue' = [a \in Actors |-> Retain(queue[a], {r \in Requests : Waiting(r)})]
  /\ order' = Retain(order, {a \in Actors : queue'[a] # <<>>})
  /\ passed' = Forget(passed, Members(order'))
  /\ sched' = "serve"
  /\ UNCHANGED <<callerVars, channel, quotaVars, clockVars, need>>

\* The request whose turn it is.
Turn(r) ==
  /\ sched = "serve" /\ order # <<>>
  /\ r = Head(queue[Head(order)])

\* Faulty: an actor with more requests keeps its place.
KeepTurn(r) ==
  LET a == Head(order)
      rest == Tail(queue[a]) IN
  /\ queue' = [queue EXCEPT ![a] = rest]
  /\ order' = IF rest = <<>> THEN Tail(order) ELSE order
  /\ passed' = Forget([passed EXCEPT ![a] = [b \in Actors |-> IF b = a THEN 0 ELSE @[b] + 1]],
                      Members(Tail(order)))

\* The actor of a granted request goes to the end of the order.
Rotate(r) ==
  LET a == Head(order)
      rest == Tail(queue[a]) IN
  /\ queue' = [queue EXCEPT ![a] = rest]
  /\ order' = IF rest = <<>> THEN Tail(order) ELSE Append(Tail(order), a)
  /\ passed' = Forget([passed EXCEPT ![a] = [b \in Actors |-> IF b = a THEN 0 ELSE @[b] + 1]],
                      Members(Tail(order)))

\* take, then the permit is sent; a caller that left since the sweep is
\* refunded on the spot.
Grant(r, p) ==
  /\ Turn(r) /\ LeastUsed(p, UnitsOf[r])
  /\ \/ /\ Waiting(r)
        /\ used' = [o \in Providers |->
                      IF o = p THEN Fresh(o) \cup Charges(next, UnitsOf[r]) ELSE Fresh(o)]
        /\ permit' = [permit EXCEPT ![r] = [provider |-> p, reservation |-> next]]
        /\ Goto(r, "granted")
     \/ /\ ~Waiting(r)
        /\ used' = [o \in Providers |-> Fresh(o)]
        /\ UNCHANGED <<permit, stage>>
  /\ next' = next + 1
  /\ Rotate(r)
  /\ sched' = "drain"
  /\ UNCHANGED <<retries, channel, clockVars, need>>

\* Faulty: the scheduler waits for the next message only.
StallWithoutTimer(r) ==
  /\ Turn(r) /\ \A p \in Providers : ~Fits(p, UnitsOf[r])
  /\ used' = [o \in Providers |-> Fresh(o)]
  /\ sched' = "asleep" /\ need' = 0
  /\ UNCHANGED <<callerVars, channel, queueVars, next, clockVars>>

\* Nothing fits: the timer is set for the request whose turn it is.
Stall(r) ==
  /\ Turn(r) /\ \A p \in Providers : ~Fits(p, UnitsOf[r])
  /\ used' = [o \in Providers |-> Fresh(o)]
  /\ sched' = "asleep" /\ need' = UnitsOf[r]
  /\ UNCHANGED <<callerVars, channel, queueVars, next, clockVars>>

Rest ==
  /\ sched = "serve" /\ order = <<>>
  /\ sched' = "asleep" /\ need' = 0
  /\ UNCHANGED <<callerVars, channel, queueVars, quotaVars, clockVars>>

\* The timer of wait_for.
Wake ==
  /\ sched = "asleep" /\ need > 0
  /\ \E p \in Providers : Fits(p, need)
  /\ sched' = "drain" /\ need' = 0
  /\ UNCHANGED <<callerVars, channel, queueVars, quotaVars, clockVars>>

-----------------------------------------------------------------------------

Caller(r) == Acquire(r) \/ Finish(r) \/ RateLimited(r) \/ Cancel(r)

Serve == \E r \in Requests : Stall(r) \/ \E p \in Providers : Grant(r, p)

Scheduler == Receive \/ Sweep \/ Serve \/ Rest \/ Wake

Next ==
  \/ \E r \in Requests : Caller(r)
  \/ Scheduler
  \/ WindowElapses
  \/ \E p \in Providers : BlockElapses(p)

Spec == Init /\ [][Next]_vars

\* The scheduler task runs and time passes; callers owe nothing.
Fairness ==
  /\ WF_vars(Scheduler)
  /\ WF_vars(WindowElapses)
  /\ \A p \in Providers : WF_vars(BlockElapses(p))
=============================================================================
