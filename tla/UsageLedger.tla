---------------------------- MODULE UsageLedger ----------------------------
(***************************************************************************)
(* What a session has used (the usage table).  Anyone who looks at an      *)
(* active session has the provider's counters fetched and recorded; the    *)
(* end of the session records them a last time.  record_usage_snapshot     *)
(* reads the row and updates it in one deferred transaction: SQLite        *)
(* refuses the update when another transaction has committed meanwhile, so *)
(* a read that is no longer what the store holds never becomes a write.    *)
(* One number stands for the counters and one for the costs.               *)
(***************************************************************************)
EXTENDS Sharing

CONSTANTS MaxUsage   \* bound: what a session uses

ASSUME UsageAssumption == MaxUsage \in Nat

VARIABLES
  spent,   \* the provider's counters of each browser
  usage    \* rows of usage: counters and cost

usageVars == <<spent, usage>>

UsageInit ==
  /\ spent = [s \in Sessions |-> 0]
  /\ usage = [s \in Sessions |-> [counters |-> 0, cost |-> 0]]

Spend(s) ==
  /\ session[s].status \in Live
  /\ spent[s] < MaxUsage
  /\ spent' = [spent EXCEPT ![s] = @ + 1]
  /\ UNCHANGED <<usage, sharingVars>>

(* refresh_active_usage: the caller sees the session and the provider is asked. *)
BeginSample(q, p, s) ==
  /\ Visible(s, p)
  /\ Running(s)
  /\ Start(q, [op |-> "sample", session |-> s, counters |-> spent[s]])
  /\ UNCHANGED <<storeVars, usageVars>>

(* The transaction reads the session and its usage and compares. *)
ReadUsage(q) ==
  /\ Working(q, "sample")
  /\ LET s == handler[q].session  counters == handler[q].counters IN
       /\ Running(s)
       /\ usage[s].counters <= counters /\ usage[s].cost <= counters
       /\ Continue(q, [op |-> "update usage", session |-> s, counters |-> counters, row |-> usage[s]])
  /\ UNCHANGED <<storeVars, usageVars>>

FaultyWriteUsage(q) ==   \* mutant: the read and the update are two transactions
  /\ Working(q, "update usage")
  /\ LET s == handler[q].session  counters == handler[q].counters IN
       /\ Running(s)
       /\ usage' = [usage EXCEPT ![s] = [counters |-> counters, cost |-> counters]]
  /\ Done(q)
  /\ UNCHANGED <<storeVars, spent>>

(* The update applies to a session that is active and to the row it read; *)
(* otherwise the refresh fails and is only logged (Refuse).               *)
WriteUsage(q) ==
  /\ Working(q, "update usage")
  /\ LET s == handler[q].session  counters == handler[q].counters IN
       /\ Running(s)
       /\ usage[s] = handler[q].row
       /\ usage' = [usage EXCEPT ![s] = [counters |-> counters, cost |-> counters]]
  /\ Done(q)
  /\ UNCHANGED <<storeVars, spent>>

LargerOf(m, n) == IF m < n THEN n ELSE m

(* The browser was stopped and its last counters are recorded: never below *)
(* what is there, at the cost the provider settled on, and not at all once *)
(* the session has ended.                                                  *)
RecordTerminal(q, counters) ==
  /\ Working(q, "stop")
  /\ LET s == handler[q].session IN
       /\ usage' = IF session[s].status = "ending"
                   THEN [usage EXCEPT ![s] =
                     [counters |-> LargerOf(@.counters, counters), cost |-> counters]]
                   ELSE usage
       /\ Continue(q, [op |-> "finalize", session |-> s])
  /\ UNCHANGED <<storeVars, spent>>

UsageStep ==
  \/ \E s \in Sessions : Spend(s)
  \/ \E q \in Slots :
       \/ ReadUsage(q) \/ WriteUsage(q)
       \/ \E counters \in 0 .. MaxUsage : RecordTerminal(q, counters)
       \/ \E p \in People, s \in Sessions : BeginSample(q, p, s)
=============================================================================
