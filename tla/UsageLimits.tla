------------------------------ MODULE UsageLimits ------------------------------
(***************************************************************************)
(* The limits of the provider's account (server/usage_limits.rs): one      *)
(* entry, kept for a time that depends on whether the check succeeded,     *)
(* behind a lock that is held while the provider is asked.  Time is        *)
(* counted in ticks.                                                       *)
(***************************************************************************)
EXTENDS Naturals, Sequences, FiniteSets

CONSTANTS
  Callers,
  SuccessTtl, FailureTtl,  \* SUCCESS_TTL, FAILURE_TTL
  CheckTimeout,            \* CHECK_TIMEOUT
  MaxAsks,                 \* bound: requests of a caller
  None

LimitsAssumption ==
  /\ {SuccessTtl, FailureTtl, CheckTimeout, MaxAsks} \subseteq Nat \ {0}

VARIABLES
  entry,    \* the cached result and the time it has left
  queue,    \* callers that wait for the lock, in order; the first holds it
  elapsed,  \* time the running check has taken, or None
  caller,   \* callers, and how long those that were refused were told to wait
  quiet     \* history: time since the last check ended, as far as it matters

vars == <<entry, queue, elapsed, caller, quiet>>

Empty == [result |-> None, left |-> 0, age |-> 0]
Longest == IF SuccessTtl > FailureTtl THEN SuccessTtl ELSE FailureTtl

Init ==
  /\ entry = Empty /\ queue = <<>> /\ elapsed = None
  /\ caller = [c \in Callers |-> [pc |-> "idle", asks |-> 0, wait |-> 0, told |-> None, age |-> 0]]
  /\ quiet = Longest

Usable == entry.result # None /\ entry.left > 0

Ask(c) ==
  /\ caller[c].pc = "idle" /\ caller[c].asks < MaxAsks
  /\ caller' = [caller EXCEPT ![c].pc = "waits", ![c].asks = @ + 1]
  /\ queue' = Append(queue, c)
  /\ UNCHANGED <<entry, elapsed, quiet>>

(* The answer, and with a failure the time to wait (retry-after). *)
Tell(c, e) ==
  /\ caller' = [caller EXCEPT ![c].pc = "told", ![c].told = e.result, ![c].age = e.age,
                              ![c].wait = IF e.result = "failed" THEN FailureTtl ELSE 0]
  /\ queue' = Tail(queue)

Hit(c) ==
  /\ queue # <<>> /\ Head(queue) = c /\ elapsed = None /\ Usable
  /\ Tell(c, entry)
  /\ UNCHANGED <<entry, elapsed, quiet>>

Check(c) ==
  /\ queue # <<>> /\ Head(queue) = c /\ elapsed = None /\ ~Usable
  /\ elapsed' = 0
  /\ UNCHANGED <<entry, queue, caller, quiet>>

FaultyKept(result) ==   \* mutant: a failure is kept as long as a success
  [result |-> result, left |-> SuccessTtl, age |-> 0]
Kept(result) ==
  [result |-> result, left |-> IF result = "ok" THEN SuccessTtl ELSE FailureTtl, age |-> 0]

(* The provider answers, with limits or an error, or takes too long. *)
CheckEnds(c) ==
  /\ queue # <<>> /\ Head(queue) = c /\ elapsed # None
  /\ \E result \in {"ok", "failed"} :
       /\ elapsed = CheckTimeout => result = "failed"
       /\ entry' = Kept(result)
       /\ Tell(c, Kept(result))
  /\ elapsed' = None /\ quiet' = 0

(* A client goes away: its check ends with it and nothing is kept. *)
Leave(c) ==
  /\ caller[c].pc = "waits"
  /\ caller' = [caller EXCEPT ![c].pc = "gone"]
  /\ queue' = SelectSeq(queue, LAMBDA other : other # c)
  /\ elapsed' = IF Head(queue) = c THEN None ELSE elapsed
  /\ UNCHANGED <<entry, quiet>>

(* It asks again once it waited as told. *)
Return(c) ==
  /\ caller[c].pc = "told" /\ caller[c].wait = 0
  /\ caller' = [caller EXCEPT ![c].pc = "idle"]
  /\ UNCHANGED <<entry, queue, elapsed, quiet>>

Less(n) == IF n = 0 THEN 0 ELSE n - 1
Aged(e) == [e EXCEPT !.left = Less(@), !.age = IF Usable THEN @ + 1 ELSE @]

Tick ==
  /\ elapsed # CheckTimeout
  /\ elapsed' = IF elapsed = None THEN None ELSE elapsed + 1
  /\ entry' = Aged(entry)
  /\ quiet' = IF quiet < Longest THEN quiet + 1 ELSE quiet
  /\ caller' = [c \in Callers |-> [caller[c] EXCEPT !.wait = Less(@)]]
  /\ UNCHANGED queue

Next ==
  \/ \E c \in Callers : Ask(c) \/ Hit(c) \/ Check(c) \/ CheckEnds(c) \/ Leave(c) \/ Return(c)
  \/ Tick

Spec == Init /\ [][Next]_vars

-----------------------------------------------------------------------------

TypeOK ==
  /\ entry.result \in {None, "ok", "failed"} /\ entry.left \in 0..Longest
  /\ queue \in Seq(Callers) /\ elapsed \in 0..CheckTimeout \cup {None}
  /\ caller \in [Callers -> [pc : {"idle", "waits", "told", "gone"}, asks : 0..MaxAsks, wait : 0..FailureTtl,
                             told : {None, "ok", "failed"}, age : 0..Longest]]

(* Nobody is shown limits that were checked longer ago than they are kept, *)
(* or told of a failure that is past, even if they queued behind checks    *)
(* that timed out.  (usage_limits.rs:24-27)                                *)
ToldRecent ==
  \A c \in Callers : caller[c].pc = "told" =>
    caller[c].age < (IF caller[c].told = "ok" THEN SuccessTtl ELSE FailureTtl)

=============================================================================
