----------------------- MODULE FairQuotaSafety_proofs -----------------------
(***************************************************************************)
(* Proofs about the quota scheduler, for any set of requests and any       *)
(* number of keys, units, slots and retries; and about the bills: fetches  *)
(* of any pages in batches of any size, and decimals of any length.        *)
(***************************************************************************)
EXTENDS MCFairQuota, FiniteSetTheorems, WellFoundedInduction, TLAPS

-----------------------------------------------------------------------------
(* Messages and charges *)

LEMMA AppendMembers ==
  ASSUME NEW S, NEW s \in Seq(S), NEW m \in S
  PROVE  Append(s, m) \in Seq(S) /\ Members(Append(s, m)) = Members(s) \cup {m}
<1> DEFINE t == Append(s, m)
<1>1. t \in Seq(S) /\ DOMAIN t = 1..(Len(s) + 1) /\ DOMAIN s = 1..Len(s) /\ Len(s) \in Nat
  OBVIOUS
<1>2. t[Len(s) + 1] = m /\ \A i \in 1..Len(s) : t[i] = s[i]
  OBVIOUS
<1> QED
  BY <1>1, <1>2 DEF Members

LEMMA TailMembers ==
  ASSUME NEW S, NEW s \in Seq(S), s # <<>>
  PROVE  /\ Tail(s) \in Seq(S) /\ Head(s) \in Members(s) /\ Head(s) \in S
         /\ Members(Tail(s)) \subseteq Members(s)
         /\ Members(s) \subseteq Members(Tail(s)) \cup {Head(s)}
<1> DEFINE t == Tail(s)
<1>1. t \in Seq(S) /\ DOMAIN t = 1..(Len(s) - 1) /\ DOMAIN s = 1..Len(s)
      /\ Len(s) \in Nat /\ Len(s) > 0
  OBVIOUS
<1>2. Head(s) = s[1] /\ \A i \in 1..(Len(s) - 1) : t[i] = s[i + 1]
  OBVIOUS
<1>3. s[1] \in S
  BY <1>1
<1>4. \A i \in DOMAIN s : i = 1 \/ (i - 1 \in DOMAIN t /\ t[i - 1] = s[i])
  BY <1>1, <1>2
<1>5. \A i \in DOMAIN t : i + 1 \in DOMAIN s
  BY <1>1
<1>6. ASSUME NEW m \in Members(t) PROVE m \in Members(s)
  <2>1. PICK i \in DOMAIN t : m = t[i]
    BY <1>6 DEF Members
  <2>2. i \in 1..(Len(s) - 1) /\ m = s[i + 1] /\ i + 1 \in DOMAIN s
    BY <1>1, <1>2, <1>5, <2>1
  <2> QED
    BY <2>2 DEF Members
<1>7. ASSUME NEW m \in Members(s), m # s[1] PROVE m \in Members(t)
  <2>1. PICK i \in DOMAIN s : m = s[i]
    BY <1>7 DEF Members
  <2>2. i - 1 \in DOMAIN t /\ m = t[i - 1]
    BY <1>4, <1>7, <2>1
  <2> QED
    BY <2>2 DEF Members
<1>8. 1 \in DOMAIN s
  BY <1>1
<1>9. Head(s) \in Members(s)
  BY <1>2, <1>8 DEF Members
<1> QED
  BY <1>1, <1>2, <1>3, <1>6, <1>7, <1>9

\* A grant charges exactly the units of its request (take).
LEMMA ChargesCount ==
  ASSUME NEW n \in Nat, NEW units \in Nat
  PROVE  IsFiniteSet(Charges(n, units)) /\ Cardinality(Charges(n, units)) <= units
<1> DEFINE f == [i \in 1..units |-> <<n, i>>]
<1>1. f \in Surjection(1..units, Charges(n, units))
  BY DEF Surjection, Charges
<1>2. IsFiniteSet(1..units) /\ Cardinality(1..units) <= units
  BY FS_Interval
<1>3. Cardinality(1..units) \in Nat
  BY <1>2, FS_CardinalityType
<1>4. IsFiniteSet(Charges(n, units)) /\ Cardinality(Charges(n, units)) <= Cardinality(1..units)
  BY <1>1, <1>2, FS_Surjection
<1>5. Cardinality(Charges(n, units)) \in Nat
  BY <1>4, FS_CardinalityType
<1> QED
  BY <1>2, <1>3, <1>4, <1>5

\* Room for the units is room for the charges of a grant.
LEMMA ChargesFit ==
  ASSUME NEW S, IsFiniteSet(S), NEW n \in Nat, NEW units \in Nat,
         Cardinality(S) + units <= MaxUnits
  PROVE  /\ IsFiniteSet(S \cup Charges(n, units))
         /\ Cardinality(S \cup Charges(n, units)) <= MaxUnits
<1> DEFINE C == Charges(n, units)
<1>1. IsFiniteSet(C) /\ Cardinality(C) <= units
  BY ChargesCount
<1>2. IsFiniteSet(S \cap C)
  BY FS_Subset, S \cap C \in SUBSET S
<1>3. Cardinality(S) \in Nat /\ Cardinality(C) \in Nat /\ Cardinality(S \cap C) \in Nat
  BY <1>1, <1>2, FS_CardinalityType
<1>4. IsFiniteSet(S \cup C)
      /\ Cardinality(S \cup C) = Cardinality(S) + Cardinality(C) - Cardinality(S \cap C)
  BY <1>1, FS_Union
<1> QED
  BY <1>1, <1>3, <1>4, QuotaAssumption

-----------------------------------------------------------------------------
(* Types *)

LEMMA TypeInit == Init => TypeOK
BY QuotaAssumption DEF Init, TypeOK, Permits, Providers

LEMMA ChannelAppend ==
  ASSUME TypeOK, NEW m \in Acquires \cup Controls
  PROVE  /\ Append(channel, m) \in Seq(Acquires \cup Controls)
         /\ Members(Append(channel, m)) = Members(channel) \cup {m}
<1> DEFINE S == Acquires \cup Controls
<1>1. channel \in Seq(S) /\ m \in S
  BY DEF TypeOK
<1> HIDE DEF S
<1>2. Append(channel, m) \in Seq(S) /\ Members(Append(channel, m)) = Members(channel) \cup {m}
  BY <1>1, AppendMembers
<1> QED
  BY <1>2 DEF S

LEMMA ChannelTail ==
  ASSUME TypeOK, channel # <<>>
  PROVE  /\ Tail(channel) \in Seq(Acquires \cup Controls)
         /\ Head(channel) \in Members(channel)
         /\ Head(channel) \in Acquires \cup Controls
         /\ Members(Tail(channel)) \subseteq Members(channel)
         /\ Members(channel) \subseteq Members(Tail(channel)) \cup {Head(channel)}
<1> DEFINE S == Acquires \cup Controls
<1>1. channel \in Seq(S)
  BY DEF TypeOK
<1> HIDE DEF S
<1>2. /\ Tail(channel) \in Seq(S)
      /\ Head(channel) \in Members(channel)
      /\ Head(channel) \in S
      /\ Members(Tail(channel)) \subseteq Members(channel)
      /\ Members(channel) \subseteq Members(Tail(channel)) \cup {Head(channel)}
  BY <1>1, TailMembers
<1> QED
  BY <1>2 DEF S

LEMMA ControlTyped ==
  ASSUME TypeOK, NEW r \in Requests, NEW kind \in {"refund", "reject"},
         NEW units \in 1..UnitsOf[r]
  PROVE  [kind |-> kind, permit |-> permit[r], units |-> units] \in Controls
<1>1. UnitsOf[r] \in 1..MaxUnits /\ MaxUnits \in Nat
  BY QuotaAssumption
<1>2. units \in 1..MaxUnits
  BY <1>1
<1>3. permit[r] \in Permits
  BY DEF TypeOK
<1> QED
  BY <1>2, <1>3 DEF Controls

LEMMA SendTyped ==
  ASSUME TypeOK, NEW r \in Requests, NEW kind \in {"refund", "reject"},
         NEW units \in 1..UnitsOf[r], Send(r, kind, units)
  PROVE  /\ channel' \in Seq(Acquires \cup Controls)
         /\ Members(channel') = Members(channel)
              \cup {[kind |-> kind, permit |-> permit[r], units |-> units]}
<1>1. [kind |-> kind, permit |-> permit[r], units |-> units] \in Acquires \cup Controls
  BY ControlTyped
<1> QED
  BY <1>1, ChannelAppend DEF Send

LEMMA TypeStep == TypeOK /\ [Next]_vars => TypeOK'
<1> SUFFICES ASSUME TypeOK, [Next]_vars PROVE TypeOK'
  OBVIOUS
<1> USE DEF callerVars, queueVars, quotaVars, clockVars, schedVars
<1>1. ASSUME NEW r \in Requests, Acquire(r) PROVE TypeOK'
  <2>1. [kind |-> "acquire", request |-> r] \in Acquires \cup Controls
    BY DEF Acquires
  <2>2. channel' \in Seq(Acquires \cup Controls)
    BY <1>1, <2>1, ChannelAppend DEF Acquire, TypeOK
  <2> QED
    BY <1>1, <2>2 DEF Acquire, Goto, TypeOK
<1>2. ASSUME NEW r \in Requests, Finish(r) PROVE TypeOK'
  <2>1. channel' \in Seq(Acquires \cup Controls)
    BY <1>2, SendTyped DEF Finish, TypeOK
  <2> QED
    BY <1>2, <2>1 DEF Finish, Goto, TypeOK
<1>3. ASSUME NEW r \in Requests, RateLimited(r) PROVE TypeOK'
  <2>1. UnitsOf[r] \in 1..UnitsOf[r]
    BY QuotaAssumption
  <2>2. channel' \in Seq(Acquires \cup Controls)
    BY <1>3, <2>1, SendTyped DEF RateLimited
  <2>3. retries' \in [Requests -> Nat] /\ \A q \in Requests : retries'[q] <= MaxRetries[q]
    <3>1. CASE UNCHANGED retries
      BY <3>1 DEF TypeOK
    <3>2. CASE retries[r] < MaxRetries[r] /\ retries' = [retries EXCEPT ![r] = @ + 1]
      <4>1. /\ retries \in [Requests -> Nat] /\ MaxRetries \in [Requests -> Nat]
            /\ \A q \in Requests : retries[q] <= MaxRetries[q]
        BY QuotaAssumption DEF TypeOK
      <4>2. retries[r] + 1 \in Nat /\ retries[r] + 1 <= MaxRetries[r]
        BY <3>2, <4>1
      <4> QED
        BY <3>2, <4>1, <4>2
    <3> QED
      BY <1>3, <3>1, <3>2 DEF RateLimited
  <2> QED
    BY <1>3, <2>2, <2>3 DEF RateLimited, Goto, TypeOK
<1>4. ASSUME NEW r \in Requests, Cancel(r) PROVE TypeOK'
  BY <1>4 DEF Cancel, Goto, TypeOK
<1>5. CASE Receive
  <2>1. channel' \in Seq(Acquires \cup Controls) /\ Head(channel) \in Acquires \cup Controls
    BY <1>5, ChannelTail DEF Receive
  <2>2. CASE Head(channel).kind = "acquire" /\ Enqueue(Head(channel).request)
    <3>1. used' = used /\ blocked' = blocked
      BY <2>2 DEF Enqueue
    <3>2. UNCHANGED callerVars /\ stale' = stale /\ next' = next /\ sched' = "drain" /\ need' = 0
      BY <1>5 DEF Receive
    <3> QED
      BY <2>1, <3>1, <3>2, QuotaAssumption DEF callerVars, TypeOK
  <2>3. CASE Head(channel).kind \in {"refund", "reject"}
    <3>1. Head(channel) \in Controls
      BY <2>1, <2>3 DEF Acquires
    <3>2. Head(channel).permit.provider \in Providers
      BY <3>1 DEF Controls, Permits
    <3>3. used' \in [Providers -> SUBSET (Nat \X (1..MaxUnits))]
      BY <1>5, <2>3, <3>2 DEF Receive, Refund, Enqueue, TypeOK
    <3>4. blocked' \subseteq Providers
      BY <1>5, <2>3, <3>2 DEF Receive, Enqueue, TypeOK
    <3> QED
      BY <1>5, <2>1, <3>3, <3>4, QuotaAssumption DEF Receive, TypeOK
  <2> QED
    BY <1>5, <2>2, <2>3 DEF Receive
<1>6. CASE Sweep \/ Rest \/ Wake
  BY <1>6, QuotaAssumption DEF Sweep, Rest, Wake, TypeOK
<1>7. ASSUME NEW r \in Requests, Stall(r) PROVE TypeOK'
  <2>1. need' \in 0..MaxUnits
    BY <1>7, QuotaAssumption DEF Stall
  <2> QED
    BY <1>7, <2>1 DEF Stall, Fresh, TypeOK
<1>8. ASSUME NEW r \in Requests, NEW p \in Providers, Grant(r, p) PROVE TypeOK'
  <2>1. Charges(next, UnitsOf[r]) \subseteq Nat \X (1..MaxUnits)
    BY QuotaAssumption DEF Charges, TypeOK
  <2>2. used' \in [Providers -> SUBSET (Nat \X (1..MaxUnits))]
    BY <1>8, <2>1 DEF Grant, Fresh, TypeOK
  <2>3. [provider |-> p, reservation |-> next] \in Permits
    BY DEF Permits, TypeOK
  <2>4. permit' \in [Requests -> Permits]
    BY <1>8, <2>3 DEF Grant, TypeOK
  <2>5. stage' \in [Requests -> {"idle", "waiting", "granted", "gone"}]
    BY <1>8 DEF Grant, Goto, TypeOK
  <2> QED
    BY <1>8, <2>2, <2>4, <2>5 DEF Grant, TypeOK
<1>9. CASE WindowElapses \/ \E p \in Providers : BlockElapses(p)
  BY <1>9 DEF WindowElapses, BlockElapses, TypeOK
<1>10. CASE UNCHANGED vars
  BY <1>10 DEF vars, TypeOK
<1> QED
  BY <1>1, <1>2, <1>3, <1>4, <1>5, <1>6, <1>7, <1>8, <1>9, <1>10
     DEF Next, Caller, Scheduler, Serve

-----------------------------------------------------------------------------
(* The window *)

LEMMA WindowShrinks ==
  ASSUME TypeOK, TypeOK', WindowLimit,
         \A p \in Providers : used'[p] \subseteq used[p], stale' >= stale
  PROVE  WindowLimit'
<1> SUFFICES ASSUME NEW p \in Providers
             PROVE  IsFiniteSet(used'[p]) /\ Cardinality(Fresh(p)') <= MaxUnits
  BY DEF WindowLimit
<1>1. IsFiniteSet(used[p]) /\ Cardinality(Fresh(p)) <= MaxUnits
  BY DEF WindowLimit
<1>2. IsFiniteSet(used'[p]) /\ IsFiniteSet(Fresh(p))
  BY <1>1, FS_Subset DEF Fresh
<1>3. Fresh(p)' \subseteq Fresh(p)
  <2> SUFFICES ASSUME NEW c \in Fresh(p)' PROVE c \in Fresh(p)
    OBVIOUS
  <2>1. c \in used'[p] /\ c[1] > stale' /\ c \in used[p]
    BY DEF Fresh
  <2>2. c[1] \in Nat /\ stale \in Nat /\ stale' \in Nat
    BY <2>1 DEF TypeOK
  <2>3. c[1] > stale
    BY <2>1, <2>2
  <2> QED
    BY <2>1, <2>3 DEF Fresh
<1>4. IsFiniteSet(Fresh(p)') /\ Cardinality(Fresh(p)') <= Cardinality(Fresh(p))
  BY <1>2, <1>3, FS_Subset
<1>5. Cardinality(Fresh(p)) \in Nat /\ Cardinality(Fresh(p)') \in Nat
  BY <1>2, <1>4, FS_CardinalityType
<1> QED
  BY <1>1, <1>2, <1>4, <1>5, QuotaAssumption

LEMMA WindowGrant ==
  ASSUME TypeOK, TypeOK', WindowLimit,
         NEW r \in Requests, NEW q \in Providers, Grant(r, q)
  PROVE  WindowLimit'
<1>1. CASE ~Waiting(r)
  <2>1. \A p \in Providers : used'[p] \subseteq used[p]
    BY <1>1 DEF Grant, Fresh, TypeOK
  <2>2. stale' >= stale
    BY DEF Grant, clockVars, TypeOK
  <2> QED
    BY <2>1, <2>2, WindowShrinks
<1>2. CASE Waiting(r)
  <2> SUFFICES ASSUME NEW p \in Providers
               PROVE  IsFiniteSet(used'[p]) /\ Cardinality(Fresh(p)') <= MaxUnits
    BY DEF WindowLimit
  <2>1. IsFiniteSet(used[p]) /\ Cardinality(Fresh(p)) <= MaxUnits
    BY DEF WindowLimit
  <2>2. IsFiniteSet(Fresh(p))
    BY <2>1, FS_Subset DEF Fresh
  <2>3. used'[p] = IF p = q THEN Fresh(p) \cup Charges(next, UnitsOf[r]) ELSE Fresh(p)
    BY <1>2 DEF Grant
  <2>4. IsFiniteSet(used'[p]) /\ Cardinality(used'[p]) <= MaxUnits
    <3>1. CASE p # q
      BY <2>1, <2>2, <2>3, <3>1
    <3>2. CASE p = q
      <4>1. Cardinality(Fresh(p)) + UnitsOf[r] <= MaxUnits
        BY <3>2 DEF Grant, LeastUsed, Fits
      <4>2. next \in Nat /\ UnitsOf[r] \in Nat
        BY QuotaAssumption DEF TypeOK
      <4> QED
        BY <2>2, <2>3, <3>2, <4>1, <4>2, ChargesFit
    <3> QED
      BY <3>1, <3>2
  <2>5. Fresh(p)' \subseteq used'[p]
    BY DEF Fresh
  <2>6. IsFiniteSet(Fresh(p)') /\ Cardinality(Fresh(p)') <= Cardinality(used'[p])
    BY <2>4, <2>5, FS_Subset
  <2>7. Cardinality(used'[p]) \in Nat /\ Cardinality(Fresh(p)') \in Nat
    BY <2>4, <2>6, FS_CardinalityType
  <2> QED
    BY <2>4, <2>6, <2>7, QuotaAssumption
<1> QED
  BY <1>1, <1>2

LEMMA WindowStep == TypeOK /\ TypeOK' /\ WindowLimit /\ [Next]_vars => WindowLimit'
<1> SUFFICES ASSUME TypeOK, TypeOK', WindowLimit, [Next]_vars PROVE WindowLimit'
  OBVIOUS
<1> USE DEF callerVars, queueVars, quotaVars, clockVars, schedVars
<1>1. CASE UNCHANGED <<used, stale>>
  BY <1>1, WindowShrinks DEF TypeOK
<1>2. CASE WindowElapses
  BY <1>2, WindowShrinks DEF WindowElapses, TypeOK
<1>3. CASE Receive
  <2>1. UNCHANGED used \/ \E grant, units : Refund(grant, units)
    BY <1>3 DEF Receive, Enqueue
  <2>2. \A p \in Providers : used'[p] \subseteq used[p]
    BY <2>1 DEF Refund, TypeOK
  <2> QED
    BY <1>3, <2>2, WindowShrinks DEF Receive, TypeOK
<1>4. ASSUME NEW r \in Requests, Stall(r) PROVE WindowLimit'
  <2>1. \A p \in Providers : used'[p] \subseteq used[p]
    BY <1>4 DEF Stall, Fresh
  <2> QED
    BY <1>4, <2>1, WindowShrinks DEF Stall, TypeOK
<1>5. ASSUME NEW r \in Requests, NEW p \in Providers, Grant(r, p) PROVE WindowLimit'
  BY <1>5, WindowGrant
<1>6. ASSUME NEW r \in Requests, Caller(r) PROVE UNCHANGED <<used, stale>>
  BY <1>6 DEF Caller, Acquire, Finish, RateLimited, Cancel
<1>7. CASE Sweep \/ Rest \/ Wake \/ (\E p \in Providers : BlockElapses(p)) \/ UNCHANGED vars
  BY <1>1, <1>7 DEF Sweep, Rest, Wake, BlockElapses, vars
<1> QED
  BY <1>1, <1>2, <1>3, <1>4, <1>5, <1>6, <1>7 DEF Next, Scheduler, Serve

-----------------------------------------------------------------------------
(* Permits and charges *)

Ledger == PermitsCharged /\ ChargesDelivered /\ ReturnedOnce /\ ReservationsKnown

\* What a return adds to the channel and what the scheduler takes off it.
LEMMA ReturnsTyped ==
  ASSUME TypeOK, NEW m \in Returns
  PROVE  m \in Controls /\ m.permit \in Permits
<1>1. m \in Acquires \cup Controls /\ m.kind \in {"refund", "reject"}
  BY DEF Returns, Members, TypeOK
<1> QED
  BY <1>1 DEF Acquires, Controls

\* Steps that neither touch the quota nor return or deliver a permit.
LEMMA LedgerFrame ==
  ASSUME TypeOK, Ledger, UNCHANGED <<permit, used, stale, next>>, Returns' = Returns,
         \A r \in Requests : stage'[r] = "granted" => stage[r] = "granted",
         \A r \in Requests : stage[r] \in {"granted", "gone"} => stage'[r] \in {"granted", "gone"}
  PROVE  Ledger'
<1>1. PermitsCharged'
  BY DEF Ledger, PermitsCharged, Charges
<1>2. ChargesDelivered'
  <2>1. \A p \in Providers : Fresh(p)' = Fresh(p)
    BY DEF Fresh
  <2> QED
    BY <2>1 DEF Ledger, ChargesDelivered
<1>3. ReturnedOnce'
  BY DEF Ledger, ReturnedOnce
<1>4. ReservationsKnown'
  BY DEF Ledger, ReservationsKnown
<1> QED
  BY <1>1, <1>2, <1>3, <1>4 DEF Ledger

\* A permit is returned: its caller is done with it.
LEMMA LedgerSend ==
  ASSUME TypeOK, Ledger, UNCHANGED <<permit, used, stale, next>>,
         NEW r \in Requests, NEW kind \in {"refund", "reject"}, NEW units \in 1..UnitsOf[r],
         Send(r, kind, units), NEW where \in {"idle", "gone"}, Goto(r, where),
         where = "gone" \/ (kind = "reject" /\ units = UnitsOf[r])
  PROVE  Ledger'
<1> DEFINE m == [kind |-> kind, permit |-> permit[r], units |-> units]
<1>1. Returns' = Returns \cup {m}
  <2>1. Members(channel)' = Members(channel) \cup {m}
    BY SendTyped DEF Members
  <2> QED
    BY <2>1 DEF Returns
<1>2. stage[r] = "granted" /\ stage' = [stage EXCEPT ![r] = where]
  BY DEF Send, Goto
<1>3. \A o \in Requests : stage'[o] = "granted" => stage[o] = "granted" /\ o # r
  BY <1>2 DEF TypeOK
<1>4. PermitsCharged'
  BY <1>3 DEF Ledger, PermitsCharged, Charges
<1>5. ChargesDelivered'
  <2> SUFFICES ASSUME NEW p \in Providers, NEW c \in Fresh(p)',
                      NEW grant, grant = [provider |-> p, reservation |-> c[1]]
               PROVE  \/ \E o \in Requests :
                           stage'[o] \in {"granted", "gone"} /\ permit'[o] = grant
                             /\ c[2] <= UnitsOf[o]
                      \/ \E n \in Returns' :
                           n.kind = "reject" /\ n.permit = grant /\ c[2] <= n.units
    BY DEF ChargesDelivered
  <2>1. c \in Fresh(p)
    BY DEF Fresh
  <2>2. CASE \E n \in Returns : n.kind = "reject" /\ n.permit = grant /\ c[2] <= n.units
    BY <1>1, <2>2
  <2>3. ASSUME NEW o \in Requests, stage[o] \in {"granted", "gone"}, permit[o] = grant,
               c[2] <= UnitsOf[o]
        PROVE  \/ stage'[o] \in {"granted", "gone"}
               \/ m.kind = "reject" /\ m.permit = grant /\ c[2] <= m.units
    BY <1>2, <2>3 DEF TypeOK
  <2> QED
    BY <1>1, <2>1, <2>2, <2>3 DEF Ledger, ChargesDelivered
<1>6. ReturnedOnce'
  <2>1. \A o \in Requests : stage'[o] = "granted" =>
          permit[o].reservation # permit[r].reservation
    BY <1>2, <1>3 DEF Ledger, ReturnedOnce
  <2>2. \A o \in Requests : stage'[o] = "granted" => m.permit # permit'[o]
    BY <2>1
  <2> QED
    BY <1>1, <1>3, <2>2 DEF Ledger, ReturnedOnce
<1>7. ReservationsKnown'
  BY <1>1 DEF Ledger, ReservationsKnown
<1> QED
  BY <1>4, <1>5, <1>6, <1>7 DEF Ledger

\* Charges out of the window are dropped, and nothing else.
LEMMA LedgerPrune ==
  ASSUME TypeOK, TypeOK', Ledger, UNCHANGED <<stage, permit, channel, next>>,
         stale' >= stale, stale' < next,
         \A p \in Providers : used'[p] = used[p] \/ used'[p] = Fresh(p)
  PROVE  Ledger'
<1>1. \A p \in Providers : \A c \in used[p] : c[1] > stale' => c \in Fresh(p)
  BY DEF Fresh, TypeOK
<1>2. PermitsCharged'
  <2> SUFFICES ASSUME NEW r \in Requests, stage[r] = "granted", permit[r].reservation > stale'
               PROVE  Charges(permit[r].reservation, UnitsOf[r])
                        \subseteq used'[permit[r].provider]
    BY DEF PermitsCharged, Charges
  <2>1. permit[r].reservation \in Nat /\ permit[r].provider \in Providers
    BY DEF TypeOK, Permits
  <2>2. permit[r].reservation > stale
    BY <2>1 DEF TypeOK
  <2>3. Charges(permit[r].reservation, UnitsOf[r]) \subseteq used[permit[r].provider]
    BY <2>2 DEF Ledger, PermitsCharged
  <2>4. \A c \in Charges(permit[r].reservation, UnitsOf[r]) : c[1] > stale'
    BY DEF Charges
  <2> QED
    BY <1>1, <2>1, <2>3, <2>4
<1>3. ChargesDelivered'
  <2>1. \A p \in Providers : Fresh(p)' \subseteq Fresh(p)
    BY <1>1 DEF Fresh
  <2>2. Returns' = Returns
    BY DEF Returns, Members
  <2> QED
    BY <2>1, <2>2 DEF Ledger, ChargesDelivered
<1>4. ReturnedOnce'
  BY DEF Ledger, ReturnedOnce, Returns, Members
<1>5. ReservationsKnown'
  BY DEF Ledger, ReservationsKnown, Returns, Members
<1> QED
  BY <1>2, <1>3, <1>4, <1>5 DEF Ledger

\* A permit that came back is taken off, and none but that one.
LEMMA LedgerReceive ==
  ASSUME TypeOK, TypeOK', Ledger, Receive
  PROVE  Ledger'
<1> DEFINE m == Head(channel)
<1> USE DEF quotaVars, clockVars, callerVars
<1>1. /\ m \in Members(channel) /\ m \in Acquires \cup Controls
      /\ Members(channel)' \subseteq Members(channel)
      /\ Members(channel) \subseteq Members(channel)' \cup {m}
  BY ChannelTail DEF Receive, Members
<1>2. CASE m.kind = "acquire"
  <2>1. Returns' = Returns
    BY <1>1, <1>2 DEF Returns
  <2>2. UNCHANGED <<stage, permit, used, stale, next>>
    BY <1>2 DEF Receive, Enqueue
  <2> QED
    BY <2>1, <2>2, LedgerFrame
<1>3. CASE m.kind \in {"refund", "reject"}
  <2>1. Returns' \subseteq Returns /\ Returns \subseteq Returns' \cup {m} /\ m \in Returns
    BY <1>1, <1>3 DEF Returns
  <2>2. m.permit \in Permits
    BY <2>1, ReturnsTyped
  <2>3. Refund(m.permit, m.units) /\ UNCHANGED <<stage, permit, stale, next>>
    BY <1>3 DEF Receive
  <2>4. \A p \in Providers :
          used'[p] = IF p = m.permit.provider
                       THEN used[p] \ Charges(m.permit.reservation, m.units) ELSE used[p]
    BY <2>2, <2>3 DEF Refund, TypeOK, Permits
  <2>5. PermitsCharged'
    <3> SUFFICES ASSUME NEW r \in Requests, stage[r] = "granted", permit[r].reservation > stale
                 PROVE  Charges(permit[r].reservation, UnitsOf[r])
                          \subseteq used'[permit[r].provider]
      BY <2>3 DEF PermitsCharged, Charges
    <3>1. permit[r] \in Permits /\ permit[r] # m.permit
      BY <2>1 DEF TypeOK, Ledger, ReturnedOnce
    <3>2. permit[r].provider # m.permit.provider \/ permit[r].reservation # m.permit.reservation
      BY <2>2, <3>1 DEF Permits
    <3>3. Charges(permit[r].reservation, UnitsOf[r]) \subseteq used[permit[r].provider]
      BY DEF Ledger, PermitsCharged
    <3>4. permit[r].provider \in Providers
      BY <3>1 DEF Permits
    <3>5. CASE permit[r].provider # m.permit.provider
      BY <2>4, <3>3, <3>4, <3>5
    <3>6. CASE permit[r].reservation # m.permit.reservation
      <4>1. \A c \in Charges(permit[r].reservation, UnitsOf[r]) :
              c \notin Charges(m.permit.reservation, m.units)
        BY <3>6 DEF Charges
      <4> QED
        BY <2>4, <3>3, <3>4, <4>1
    <3> QED
      BY <3>2, <3>5, <3>6
  <2>6. ChargesDelivered'
    <3> SUFFICES ASSUME NEW p \in Providers, NEW c \in Fresh(p)',
                        NEW grant, grant = [provider |-> p, reservation |-> c[1]]
                 PROVE  \/ \E o \in Requests :
                             stage[o] \in {"granted", "gone"} /\ permit[o] = grant
                               /\ c[2] <= UnitsOf[o]
                        \/ \E n \in Returns' :
                             n.kind = "reject" /\ n.permit = grant /\ c[2] <= n.units
      BY <2>3 DEF ChargesDelivered
    <3>1. c \in used'[p] /\ c \in used[p] /\ c[1] > stale
      BY <2>3, <2>4 DEF Fresh
    <3>2. c \in Fresh(p) /\ c \in Nat \X (1..MaxUnits)
      BY <3>1 DEF Fresh, TypeOK
    <3>3. ~(m.permit = grant /\ c[2] <= m.units)
      <4> SUFFICES ASSUME m.permit = grant, c[2] <= m.units PROVE FALSE
        OBVIOUS
      <4>1. p = m.permit.provider /\ c[1] = m.permit.reservation
        OBVIOUS
      <4>2. m.units \in Nat /\ c[2] \in 1..m.units /\ c = <<c[1], c[2]>>
        BY <2>1, <3>2, ReturnsTyped, QuotaAssumption DEF Controls
      <4>3. c \in Charges(m.permit.reservation, m.units)
        BY <4>1, <4>2 DEF Charges
      <4> QED
        BY <2>4, <3>1, <4>1, <4>3
    <3> QED
      BY <2>1, <3>2, <3>3 DEF Ledger, ChargesDelivered
  <2>7. ReturnedOnce'
    BY <2>1, <2>3 DEF Ledger, ReturnedOnce
  <2>8. ReservationsKnown'
    BY <2>1, <2>3 DEF Ledger, ReservationsKnown
  <2> QED
    BY <2>5, <2>6, <2>7, <2>8 DEF Ledger
<1> QED
  BY <1>1, <1>2, <1>3 DEF Receive

\* A grant charges a reservation nobody knows yet, to the caller who gets it.
LEMMA LedgerGrant ==
  ASSUME TypeOK, TypeOK', Ledger,
         NEW r \in Requests, NEW q \in Providers, Grant(r, q), Waiting(r)
  PROVE  Ledger'
<1> DEFINE new == [provider |-> q, reservation |-> next]
<1>1. /\ \A p \in Providers :
           used'[p] = IF p = q THEN Fresh(p) \cup Charges(next, UnitsOf[r]) ELSE Fresh(p)
      /\ permit' = [permit EXCEPT ![r] = new]
      /\ stage' = [stage EXCEPT ![r] = "granted"]
      /\ next' = next + 1 /\ UNCHANGED <<channel, stale>>
  BY DEF Grant, Goto, clockVars
<1>2. /\ stage[r] = "waiting" /\ stage'[r] = "granted" /\ permit'[r] = new
      /\ \A o \in Requests : o # r => stage'[o] = stage[o] /\ permit'[o] = permit[o]
  BY <1>1 DEF Waiting, TypeOK
<1>3. /\ next \in Nat /\ stale \in Nat /\ stale < next
      /\ \A o \in Requests : permit[o] \in Permits /\ permit[o].reservation < next
      /\ \A m \in Returns : m.permit \in Permits /\ m.permit.reservation < next
  BY ReturnsTyped DEF Ledger, ReservationsKnown, TypeOK
<1>4. Returns' = Returns
  BY <1>1 DEF Returns, Members
<1>5. PermitsCharged'
  <2> SUFFICES ASSUME NEW o \in Requests, stage'[o] = "granted",
                      permit'[o].reservation > stale
               PROVE  Charges(permit'[o].reservation, UnitsOf[o])
                        \subseteq used'[permit'[o].provider]
    BY <1>1 DEF PermitsCharged, Charges
  <2>1. CASE o = r
    <3>1. permit'[o].reservation = next /\ permit'[o].provider = q
      BY <1>2, <2>1
    <3>2. used'[q] = Fresh(q) \cup Charges(next, UnitsOf[r])
      BY <1>1
    <3> QED
      BY <2>1, <3>1, <3>2
  <2>2. CASE o # r
    <3>1. Charges(permit[o].reservation, UnitsOf[o]) \subseteq used[permit[o].provider]
      BY <1>2, <2>2 DEF Ledger, PermitsCharged
    <3>2. permit[o].provider \in Providers
      BY <1>3 DEF Permits
    <3>3. \A c \in Charges(permit[o].reservation, UnitsOf[o]) : c[1] > stale
      BY <1>2, <2>2 DEF Charges
    <3>4. Charges(permit[o].reservation, UnitsOf[o]) \subseteq Fresh(permit[o].provider)
      BY <3>1, <3>3 DEF Fresh
    <3> QED
      BY <1>1, <1>2, <2>2, <3>2, <3>4
  <2> QED
    BY <2>1, <2>2
<1>6. ChargesDelivered'
  <2> SUFFICES ASSUME NEW p \in Providers, NEW c \in Fresh(p)',
                      NEW grant, grant = [provider |-> p, reservation |-> c[1]]
               PROVE  \/ \E o \in Requests :
                           stage'[o] \in {"granted", "gone"} /\ permit'[o] = grant
                             /\ c[2] <= UnitsOf[o]
                      \/ \E n \in Returns :
                           n.kind = "reject" /\ n.permit = grant /\ c[2] <= n.units
    BY <1>4 DEF ChargesDelivered
  <2>1. c \in used'[p]
    BY DEF Fresh
  <2>2. CASE c \in Fresh(p)
    <3>1. ASSUME NEW o \in Requests, stage[o] \in {"granted", "gone"}
          PROVE  stage'[o] = stage[o] /\ permit'[o] = permit[o]
      BY <1>2, <3>1
    <3> QED
      BY <2>2, <3>1 DEF Ledger, ChargesDelivered
  <2>3. CASE c \notin Fresh(p)
    <3>1. p = q /\ c \in Charges(next, UnitsOf[r])
      BY <1>1, <2>1, <2>3
    <3>2. c[1] = next /\ c[2] <= UnitsOf[r]
      BY <3>1, QuotaAssumption DEF Charges
    <3> QED
      BY <1>2, <3>1, <3>2
  <2> QED
    BY <2>2, <2>3
<1>7. ReturnedOnce'
  <2>1. ASSUME NEW o \in Requests, NEW n \in Requests, o # n,
               stage'[o] = "granted", stage'[n] = "granted"
        PROVE  permit'[o].reservation # permit'[n].reservation
    <3>1. CASE o # r /\ n # r
      BY <1>2, <2>1, <3>1 DEF Ledger, ReturnedOnce
    <3>2. CASE o = r \/ n = r
      BY <1>2, <1>3, <2>1, <3>2
    <3> QED
      BY <3>1, <3>2
  <2>2. ASSUME NEW o \in Requests, stage'[o] = "granted", NEW m \in Returns
        PROVE  m.permit # permit'[o]
    BY <1>2, <1>3, <2>2 DEF Ledger, ReturnedOnce
  <2> QED
    BY <1>4, <2>1, <2>2 DEF ReturnedOnce
<1>8. ReservationsKnown'
  <2>1. stale' < next'
    BY <1>1, <1>3
  <2>2. \A o \in Requests : permit'[o].reservation < next'
    BY <1>1, <1>2, <1>3 DEF Permits
  <2>3. \A m \in Returns' : m.permit.reservation < next'
    BY <1>1, <1>3, <1>4 DEF Permits
  <2> QED
    BY <2>1, <2>2, <2>3 DEF ReservationsKnown
<1> QED
  BY <1>5, <1>6, <1>7, <1>8 DEF Ledger

\* A grant to a caller that left changes no charge of the window.
LEMMA LedgerRefused ==
  ASSUME TypeOK, TypeOK', Ledger,
         NEW r \in Requests, NEW q \in Providers, Grant(r, q), ~Waiting(r)
  PROVE  Ledger'
<1>1. /\ \A p \in Providers : used'[p] = Fresh(p)
      /\ next' = next + 1 /\ UNCHANGED <<stage, permit, channel, stale>>
  BY DEF Grant, clockVars
<1>2. Returns' = Returns /\ \A p \in Providers : Fresh(p)' = Fresh(p)
  BY <1>1 DEF Returns, Members, Fresh
<1>3. PermitsCharged'
  <2> SUFFICES ASSUME NEW o \in Requests, stage[o] = "granted", permit[o].reservation > stale
               PROVE  Charges(permit[o].reservation, UnitsOf[o]) \subseteq Fresh(permit[o].provider)
    <3>1. \A o \in Requests : permit[o].provider \in Providers
      BY DEF TypeOK, Permits
    <3>2. \A o \in Requests : used'[permit[o].provider] = Fresh(permit[o].provider)
      BY <1>1, <3>1
    <3> QED
      BY <1>1, <3>2 DEF PermitsCharged, Charges
  <2>1. Charges(permit[o].reservation, UnitsOf[o]) \subseteq used[permit[o].provider]
    BY DEF Ledger, PermitsCharged
  <2> QED
    BY <2>1 DEF Fresh, Charges
<1>4. ChargesDelivered'
  BY <1>1, <1>2 DEF Ledger, ChargesDelivered
<1>5. ReturnedOnce'
  BY <1>1, <1>2 DEF Ledger, ReturnedOnce
<1>6. ReservationsKnown'
  <2>1. /\ next \in Nat /\ stale \in Nat
        /\ \A o \in Requests : permit[o].reservation \in Nat
        /\ \A m \in Returns : m.permit.reservation \in Nat
    BY ReturnsTyped DEF TypeOK, Permits
  <2> QED
    BY <1>1, <1>2, <2>1 DEF Ledger, ReservationsKnown
<1> QED
  BY <1>3, <1>4, <1>5, <1>6 DEF Ledger

LEMMA LedgerStep == TypeOK /\ TypeOK' /\ Ledger /\ [Next]_vars => Ledger'
<1> SUFFICES ASSUME TypeOK, TypeOK', Ledger, [Next]_vars PROVE Ledger'
  OBVIOUS
<1> USE DEF callerVars, queueVars, quotaVars, clockVars, schedVars
<1>1. ASSUME NEW r \in Requests, Acquire(r) PROVE Ledger'
  <2>1. [kind |-> "acquire", request |-> r] \in Acquires \cup Controls
    BY DEF Acquires
  <2>2. Returns' = Returns
    <3>1. CASE UNCHANGED channel
      BY <3>1 DEF Returns, Members
    <3>2. CASE channel' = Append(channel, [kind |-> "acquire", request |-> r])
      <4>1. Members(channel)' = Members(channel) \cup {[kind |-> "acquire", request |-> r]}
        BY <2>1, <3>2, ChannelAppend DEF Members
      <4> QED
        BY <4>1 DEF Returns
    <3> QED
      BY <1>1, <3>1, <3>2 DEF Acquire
  <2>3. \A o \in Requests : stage'[o] = stage[o] \/ (o = r /\ stage'[o] \in {"waiting", "gone"})
    BY <1>1 DEF Acquire, Goto, TypeOK
  <2>4. UNCHANGED <<permit, used, stale, next>> /\ stage[r] = "idle"
    BY <1>1 DEF Acquire
  <2> QED
    BY <2>2, <2>3, <2>4, LedgerFrame
<1>2. ASSUME NEW r \in Requests, Finish(r) PROVE Ledger'
  <2>1. /\ Goto(r, "gone") /\ stage[r] = "granted"
        /\ UNCHANGED <<permit, used, stale, next>>
    BY <1>2 DEF Finish
  <2>2. CASE UNCHANGED channel
    <3>1. Returns' = Returns
      BY <2>2 DEF Returns, Members
    <3>2. \A o \in Requests : stage'[o] = stage[o] \/ (o = r /\ stage'[o] = "gone")
      BY <2>1 DEF Goto, TypeOK
    <3> QED
      BY <2>1, <3>1, <3>2, LedgerFrame
  <2>3. ASSUME NEW units \in 1..UnitsOf[r], Send(r, "refund", units) PROVE Ledger'
    BY <2>1, <2>3, LedgerSend
  <2> QED
    BY <1>2, <2>2, <2>3 DEF Finish
<1>3. ASSUME NEW r \in Requests, RateLimited(r) PROVE Ledger'
  <2>1. UnitsOf[r] \in 1..UnitsOf[r]
    BY QuotaAssumption
  <2>2. Send(r, "reject", UnitsOf[r]) /\ UNCHANGED <<permit, used, stale, next>>
    BY <1>3 DEF RateLimited
  <2>3. PICK where \in {"idle", "gone"} : Goto(r, where)
    BY <1>3 DEF RateLimited
  <2> QED
    BY <2>1, <2>2, <2>3, LedgerSend
<1>4. ASSUME NEW r \in Requests, Cancel(r) PROVE Ledger'
  <2>1. Returns' = Returns
    BY <1>4 DEF Cancel, Returns, Members
  <2>2. \A o \in Requests : stage'[o] = stage[o] \/ stage'[o] = "gone"
    BY <1>4 DEF Cancel, Goto, TypeOK
  <2> QED
    BY <1>4, <2>1, <2>2, LedgerFrame DEF Cancel
<1>5. CASE Receive
  BY <1>5, LedgerReceive
<1>6. CASE WindowElapses
  <2>1. stale' = stale + 1 /\ stale' < next /\ UNCHANGED <<stage, permit, channel, used, next>>
    BY <1>6 DEF WindowElapses, TypeOK
  <2> QED
    BY <2>1, LedgerPrune DEF TypeOK
<1>7. ASSUME NEW r \in Requests, Stall(r) PROVE Ledger'
  <2>1. UNCHANGED <<stage, permit, channel, stale, next>>
        /\ \A p \in Providers : used'[p] = Fresh(p)
    BY <1>7 DEF Stall
  <2>2. stale' >= stale /\ stale' < next
    BY <2>1 DEF Ledger, ReservationsKnown, TypeOK
  <2> QED
    BY <2>1, <2>2, LedgerPrune
<1>8. ASSUME NEW r \in Requests, NEW p \in Providers, Grant(r, p) PROVE Ledger'
  BY <1>8, LedgerGrant, LedgerRefused
<1>9. CASE Sweep \/ Rest \/ Wake \/ (\E p \in Providers : BlockElapses(p)) \/ UNCHANGED vars
  <2>1. UNCHANGED <<stage, permit, channel, used, stale, next>>
    BY <1>9 DEF Sweep, Rest, Wake, BlockElapses, vars
  <2>2. Returns' = Returns
    BY <2>1 DEF Returns, Members
  <2> QED
    BY <2>1, <2>2, LedgerFrame
<1> QED
  BY <1>1, <1>2, <1>3, <1>4, <1>5, <1>6, <1>7, <1>8, <1>9 DEF Next, Caller, Scheduler, Serve

-----------------------------------------------------------------------------
(* The quota *)

LEMMA QuotaInit == Init => QuotaInv
<1> SUFFICES ASSUME Init PROVE QuotaInv
  OBVIOUS
<1>1. Members(channel) = {} /\ \A p \in Providers : used[p] = {} /\ Fresh(p) = {}
  BY DEF Init, Members, Fresh
<1>2. WindowLimit
  BY <1>1, FS_EmptySet, QuotaAssumption DEF WindowLimit
<1>3. PermitsCharged /\ ChargesDelivered /\ ReturnedOnce
  BY <1>1 DEF Init, PermitsCharged, ChargesDelivered, ReturnedOnce, Returns
<1>4. ReservationsKnown
  BY <1>1 DEF Init, ReservationsKnown, Returns
<1> QED
  BY <1>2, <1>3, <1>4, TypeInit DEF QuotaInv

LEMMA QuotaStep == QuotaInv /\ [Next]_vars => QuotaInv'
BY TypeStep, WindowStep, LedgerStep DEF QuotaInv, Ledger

\* Every state of the scheduler and its callers is well formed, and the
\* window, the charges and the permits agree (pool.rs).
THEOREM QuotaAlways == Spec => []QuotaInv
BY QuotaInit, QuotaStep, PTL DEF Spec

\* The variables keep their types.
THEOREM QuotaTypes == Spec => []TypeOK
BY QuotaAlways, PTL DEF QuotaInv

\* No key is charged beyond its quota in a window (SlidingQuota::take).
THEOREM WindowIsLimited == Spec => []WindowLimit
BY QuotaAlways, PTL DEF QuotaInv

\* A refund takes off the charges of its own permit only (SlidingQuota::refund).
THEOREM PermitsAreCharged == Spec => []PermitsCharged
BY QuotaAlways, PTL DEF QuotaInv

\* A grant nobody received and a rejected permit cost nothing in the end.
THEOREM ChargesAreDelivered == Spec => []ChargesDelivered
BY QuotaAlways, PTL DEF QuotaInv

-----------------------------------------------------------------------------
(* Induction, and what discard_cancelled retains *)

\* Induction over a set of numbers: no smallest number is missing from it.
LEMMA InductiveSet ==
  ASSUME NEW S, 0 \in S, \A n \in Nat : n \in S => n + 1 \in S
  PROVE  Nat \subseteq S
<1> DEFINE R == OpToRel(<, Nat)
           missing == Nat \ S
<1>1. IsWellFoundedOn(R, Nat)
  BY NatLessThanWellFounded
<1>2. \A x, y \in Nat : x < y => <<x, y>> \in R
  BY DEF OpToRel
<1>3. missing \subseteq Nat
  OBVIOUS
<1> HIDE DEF R, missing
<1>4. ASSUME missing # {} PROVE FALSE
  <2>1. PICK x \in missing : \A y \in missing : ~(<<y, x>> \in R)
    BY <1>1, <1>3, <1>4, WFMin
  <2>2. x \in Nat /\ x # 0 /\ x - 1 \in Nat /\ x - 1 < x
    BY <2>1 DEF missing
  <2>3. x - 1 \in S
    BY <1>2, <2>1, <2>2 DEF missing
  <2>4. x \in S
    BY <2>2, <2>3
  <2> QED
    BY <2>1, <2>4 DEF missing
<1> QED
  BY <1>4 DEF missing

\* What the function of Retain is.
Retains(f, s, kept, n) ==
  f = [i \in 0..n |->
         IF i = 0 THEN <<>>
         ELSE IF s[i] \in kept THEN Append(f[i - 1], s[i]) ELSE f[i - 1]]

LEMMA RetainsExists ==
  ASSUME NEW s, NEW kept
  PROVE  \A n \in Nat : \E f : Retains(f, s, kept, n)
<1> DEFINE S == {n \in Nat : \E f : Retains(f, s, kept, n)}
<1>1. 0 \in S
  <2>1. Retains([i \in 0..0 |-> <<>>], s, kept, 0)
    BY DEF Retains
  <2> QED
    BY <2>1
<1>2. ASSUME NEW n \in Nat, n \in S PROVE n + 1 \in S
  <2>1. PICK f : Retains(f, s, kept, n)
    BY <1>2
  <2> DEFINE last == IF s[n + 1] \in kept THEN Append(f[n], s[n + 1]) ELSE f[n]
             g == [i \in 0..(n + 1) |-> IF i = n + 1 THEN last ELSE f[i]]
  <2>2. \A i \in 0..n : g[i] = f[i]
    OBVIOUS
  <2>3. g[n + 1] = last
    OBVIOUS
  <2>4. \A i \in 0..n : f[i] = IF i = 0 THEN <<>>
                               ELSE IF s[i] \in kept THEN Append(f[i - 1], s[i]) ELSE f[i - 1]
    BY <2>1 DEF Retains
  <2>5. ASSUME NEW i \in 0..(n + 1)
        PROVE  g[i] = IF i = 0 THEN <<>>
                      ELSE IF s[i] \in kept THEN Append(g[i - 1], s[i]) ELSE g[i - 1]
    <3>1. CASE i = n + 1
      <4>1. i # 0 /\ i - 1 = n /\ n \in 0..n
        BY <3>1
      <4>2. g[i - 1] = f[n]
        BY <2>2, <4>1
      <4> QED
        BY <2>3, <3>1, <4>1, <4>2
    <3>2. CASE i \in 0..n
      <4>1. g[i] = f[i] /\ (i # 0 => g[i - 1] = f[i - 1])
        BY <2>2, <3>2
      <4> QED
        BY <2>4, <3>2, <4>1
    <3> QED
      BY <2>5, <3>1, <3>2
  <2>6. g = [i \in 0..(n + 1) |-> g[i]]
    OBVIOUS
  <2> HIDE DEF g
  <2>7. Retains(g, s, kept, n + 1)
    BY <2>5, <2>6 DEF Retains
  <2> QED
    BY <2>7
<1> HIDE DEF S
<1>3. Nat \subseteq S
  BY <1>1, <1>2, InductiveSet
<1> QED
  BY <1>3 DEF S

\* The places in s of the elements of t: those of the first n that are kept, in order.
Places(g, t, s, kept, n) ==
  /\ g \in [1..Len(t) -> 1..n]
  /\ \A i, j \in 1..Len(t) : i < j => g[i] < g[j]
  /\ \A i \in 1..Len(t) : t[i] = s[g[i]] /\ s[g[i]] \in kept
  /\ \A j \in 1..n : s[j] \in kept => \E i \in 1..Len(t) : g[i] = j

LEMMA PlacesExtend ==
  ASSUME NEW S, NEW s \in Seq(S), NEW kept, NEW n \in Nat, n + 1 <= Len(s),
         NEW t \in Seq(S), NEW g, Places(g, t, s, kept, n), NEW u,
         u = IF s[n + 1] \in kept THEN Append(t, s[n + 1]) ELSE t
  PROVE  u \in Seq(S) /\ \E h : Places(h, u, s, kept, n + 1)
<1>n. n + 1 \in 1..Len(s) /\ s[n + 1] \in S /\ Len(t) \in Nat
  OBVIOUS
<1>1. CASE s[n + 1] \in kept
  <2> DEFINE m == Len(t) + 1
             h == [i \in 1..m |-> IF i = m THEN n + 1 ELSE g[i]]
  <2>1. u = Append(t, s[n + 1]) /\ u \in Seq(S) /\ Len(u) = m /\ m \in Nat /\ u[m] = s[n + 1]
        /\ \A i \in 1..Len(t) : u[i] = t[i]
    BY <1>1, <1>n
  <2>2. h \in [1..m -> 1..(n + 1)] /\ h[m] = n + 1 /\ \A i \in 1..Len(t) : h[i] = g[i] /\ g[i] \in 1..n
    <3>1. g \in [1..Len(t) -> 1..n]
      BY DEF Places
    <3>2. \A i \in 1..Len(t) : i \in 1..m /\ i # m /\ g[i] \in 1..n
      BY <1>n, <3>1
    <3>3. \A i \in 1..m : i = m \/ i \in 1..Len(t)
      BY <1>n
    <3>4. n + 1 \in 1..(n + 1) /\ m \in 1..m /\ \A k \in 1..n : k \in 1..(n + 1)
      BY <1>n
    <3> HIDE DEF m
    <3>5. \A i \in 1..m : (IF i = m THEN n + 1 ELSE g[i]) \in 1..(n + 1)
      BY <3>2, <3>3, <3>4
    <3> QED
      BY <3>2, <3>4, <3>5
  <2>3. \A i \in 1..m : i = m \/ i \in 1..Len(t)
    BY <1>n
  <2> HIDE DEF h, m
  <2>4. \A i, j \in 1..m : i < j => i \in 1..Len(t)
    BY <1>n DEF m
  <2>5. \A i, j \in 1..m : i < j => h[i] < h[j]
    <3>1. ASSUME NEW i \in 1..m, NEW j \in 1..m, i < j PROVE h[i] < h[j]
      <4>1. i \in 1..Len(t) /\ h[i] = g[i] /\ g[i] \in 1..n
        BY <2>2, <2>4, <3>1
      <4>2. CASE j = m
        BY <2>2, <4>1, <4>2
      <4>3. CASE j \in 1..Len(t)
        BY <2>2, <3>1, <4>1, <4>3 DEF Places
      <4> QED
        BY <2>3, <4>2, <4>3
    <3> QED
      BY <3>1
  <2>6. \A i \in 1..m : u[i] = s[h[i]] /\ s[h[i]] \in kept
    BY <1>1, <2>1, <2>2, <2>3 DEF Places
  <2>7. \A j \in 1..(n + 1) : s[j] \in kept => \E i \in 1..m : h[i] = j
    <3>1. \A j \in 1..(n + 1) : j = n + 1 \/ j \in 1..n
      OBVIOUS
    <3>2. m \in 1..m /\ \A i \in 1..Len(t) : i \in 1..m
      BY <1>n DEF m
    <3> QED
      BY <2>2, <3>1, <3>2 DEF Places
  <2>8. Places(h, u, s, kept, n + 1)
    BY <2>1, <2>2, <2>5, <2>6, <2>7 DEF Places
  <2> QED
    BY <2>1, <2>8
<1>2. CASE s[n + 1] \notin kept
  <2>1. u = t /\ \A j \in 1..(n + 1) : s[j] \in kept => j \in 1..n
    BY <1>2
  <2>2. g \in [1..Len(t) -> 1..(n + 1)]
    BY <1>n DEF Places
  <2>3. Places(g, u, s, kept, n + 1)
    BY <2>1, <2>2 DEF Places
  <2> QED
    BY <2>1, <2>3
<1> QED
  BY <1>1, <1>2

LEMMA RetainFacts ==
  ASSUME NEW S, NEW s \in Seq(S), NEW kept
  PROVE  Retain(s, kept) \in Seq(S) /\ \E g : Places(g, Retain(s, kept), s, kept, Len(s))
<1> DEFINE f == CHOOSE f : Retains(f, s, kept, Len(s))
           N == {n \in Nat : n <= Len(s) => f[n] \in Seq(S) /\ \E g : Places(g, f[n], s, kept, n)}
<1>1. Retains(f, s, kept, Len(s)) /\ Len(s) \in Nat
  BY RetainsExists
<1>2. Retain(s, kept) = f[Len(s)]
  BY DEF Retain, Retains
<1> HIDE DEF f
<1>3. 0 \in N
  <2>1. f[0] = <<>>
    BY <1>1 DEF Retains
  <2>2. Places([i \in 1..0 |-> 0], <<>>, s, kept, 0)
    BY DEF Places
  <2>3. f[0] \in Seq(S) /\ \E g : Places(g, f[0], s, kept, 0)
    BY <2>1, <2>2
  <2> QED
    BY <2>3
<1>4. ASSUME NEW n \in Nat, n \in N PROVE n + 1 \in N
  <2>1. CASE n + 1 <= Len(s)
    <3>1. f[n] \in Seq(S) /\ \E g : Places(g, f[n], s, kept, n)
      BY <1>1, <1>4, <2>1
    <3>2. f[n + 1] = IF s[n + 1] \in kept THEN Append(f[n], s[n + 1]) ELSE f[n]
      <4>1. n + 1 \in 0..Len(s) /\ n + 1 # 0 /\ n + 1 - 1 = n
        BY <1>1, <2>1
      <4>2. \A i \in 0..Len(s) : f[i] = IF i = 0 THEN <<>>
                                      ELSE IF s[i] \in kept THEN Append(f[i - 1], s[i]) ELSE f[i - 1]
        BY <1>1 DEF Retains
      <4>3. f[n + 1] = IF s[n + 1] \in kept THEN Append(f[n + 1 - 1], s[n + 1]) ELSE f[n + 1 - 1]
        BY <4>1, <4>2
      <4> QED
        BY <4>1, <4>3
    <3>3. f[n + 1] \in Seq(S) /\ \E g : Places(g, f[n + 1], s, kept, n + 1)
      BY <2>1, <3>1, <3>2, PlacesExtend
    <3> QED
      BY <3>3
  <2> QED
    BY <2>1
<1> HIDE DEF N
<1>5. Nat \subseteq N
  BY <1>3, <1>4, InductiveSet
<1> QED
  BY <1>1, <1>2, <1>5 DEF N

-----------------------------------------------------------------------------
(* The order of the actors *)

Distinct(s) == \A i, j \in DOMAIN s : s[i] = s[j] => i = j
Before(b, a, s) == \A i, j \in DOMAIN s : s[i] = a /\ s[j] = b => j < i

LEMMA RetainOrder ==
  ASSUME NEW S, NEW s \in Seq(S), NEW kept
  PROVE  /\ Members(Retain(s, kept)) = Members(s) \cap kept
         /\ Distinct(s) => Distinct(Retain(s, kept))
         /\ \A a, b : Before(b, a, s) => Before(b, a, Retain(s, kept))
<1> DEFINE t == Retain(s, kept)
<1>1. t \in Seq(S) /\ \E g : Places(g, t, s, kept, Len(s))
  BY RetainFacts
<1> HIDE DEF t
<1>2. PICK g : Places(g, t, s, kept, Len(s))
  BY <1>1
<1>3. DOMAIN t = 1..Len(t) /\ DOMAIN s = 1..Len(s) /\ Len(t) \in Nat /\ Len(s) \in Nat
  BY <1>1
<1>4. \A i \in DOMAIN t : g[i] \in DOMAIN s /\ t[i] = s[g[i]] /\ s[g[i]] \in kept
  BY <1>2, <1>3 DEF Places
<1>5. \A i, j \in DOMAIN t : i < j => g[i] < g[j]
  BY <1>2, <1>3 DEF Places
<1>6. \A j \in DOMAIN s : s[j] \in kept => \E i \in DOMAIN t : g[i] = j
  BY <1>2, <1>3 DEF Places
<1>7. Members(t) = Members(s) \cap kept
  <2>1. \A m \in Members(t) : m \in Members(s) \cap kept
    BY <1>4 DEF Members
  <2>2. \A m \in Members(s) \cap kept : m \in Members(t)
    BY <1>4, <1>6 DEF Members
  <2> QED
    BY <2>1, <2>2
<1>8. ASSUME NEW i \in DOMAIN t, NEW j \in DOMAIN t
      PROVE  i \in Nat /\ j \in Nat /\ g[i] \in Nat /\ g[j] \in Nat /\ (g[i] < g[j] => i < j) /\ (g[i] = g[j] => i = j)
  <2>1. i \in Nat /\ j \in Nat /\ g[i] \in Nat /\ g[j] \in Nat
    BY <1>3, <1>4
  <2>2. (i < j => g[i] < g[j]) /\ (j < i => g[j] < g[i])
    BY <1>5
  <2> QED
    BY <2>1, <2>2
<1>9. ASSUME Distinct(s) PROVE Distinct(t)
  BY <1>4, <1>8, <1>9 DEF Distinct
<1>10. ASSUME NEW a, NEW b, Before(b, a, s) PROVE Before(b, a, t)
  BY <1>4, <1>8, <1>10 DEF Before
<1> QED
  BY <1>7, <1>9, <1>10 DEF t

LEMMA TailOrder ==
  ASSUME NEW S, NEW s \in Seq(S), s # <<>>, Distinct(s)
  PROVE  /\ Tail(s) \in Seq(S) /\ Distinct(Tail(s)) /\ Head(s) \in Members(s)
         /\ Members(Tail(s)) = Members(s) \ {Head(s)}
         /\ \A a, b : Before(b, a, s) => Before(b, a, Tail(s))
         /\ \A b \in Members(s) : ~Before(b, Head(s), s)
<1> DEFINE t == Tail(s)
<1>1. t \in Seq(S) /\ DOMAIN t = 1..(Len(s) - 1) /\ DOMAIN s = 1..Len(s) /\ Len(s) \in Nat /\ Len(s) > 0
      /\ Head(s) = s[1] /\ \A i \in 1..(Len(s) - 1) : t[i] = s[i + 1]
  OBVIOUS
<1> HIDE DEF t
<1>2. \A i \in DOMAIN t : i \in Nat /\ i + 1 \in DOMAIN s /\ t[i] = s[i + 1]
  BY <1>1
<1>3. 1 \in DOMAIN s /\ \A i \in DOMAIN s : i \in Nat /\ (i = 1 \/ i - 1 \in DOMAIN t)
  BY <1>1
<1>4. Distinct(t)
  <2>1. ASSUME NEW i \in DOMAIN t, NEW j \in DOMAIN t, t[i] = t[j] PROVE i = j
    <3>1. i + 1 = j + 1 /\ i \in Nat /\ j \in Nat
      BY <1>2, <2>1 DEF Distinct
    <3> QED
      BY <3>1
  <2> QED
    BY <2>1 DEF Distinct
<1>5. Members(t) \subseteq Members(s) /\ Head(s) \in Members(s) /\ Members(s) \subseteq Members(t) \cup {Head(s)}
  BY TailMembers DEF t
<1>6. Head(s) \notin Members(t)
  <2>1. ASSUME NEW i \in DOMAIN t, t[i] = s[1] PROVE FALSE
    <3>1. i + 1 = 1 /\ i \in Nat /\ i # 0
      BY <1>1, <1>2, <1>3, <2>1 DEF Distinct
    <3> QED
      BY <3>1
  <2> QED
    BY <1>1, <2>1 DEF Members
<1>7. ASSUME NEW a, NEW b, Before(b, a, s), NEW i \in DOMAIN t, NEW j \in DOMAIN t, t[i] = a, t[j] = b
      PROVE  j < i
  <2>1. j + 1 < i + 1 /\ i \in Nat /\ j \in Nat
    BY <1>2, <1>7 DEF Before
  <2> QED
    BY <2>1
<1>8. ASSUME NEW b \in Members(s), Before(b, Head(s), s) PROVE FALSE
  <2>1. PICK j \in DOMAIN s : s[j] = b
    BY DEF Members
  <2>2. j < 1 /\ j \in Nat /\ j # 0
    BY <1>1, <1>3, <1>8, <2>1 DEF Before
  <2> QED
    BY <2>2
<1>9. \A a, b : Before(b, a, s) => Before(b, a, t)
  BY <1>7 DEF Before
<1> QED
  BY <1>1, <1>4, <1>5, <1>6, <1>8, <1>9 DEF t

LEMMA AppendOrder ==
  ASSUME NEW S, NEW s \in Seq(S), Distinct(s), NEW a \in S, a \notin Members(s)
  PROVE  /\ Append(s, a) \in Seq(S) /\ Distinct(Append(s, a))
         /\ Members(Append(s, a)) = Members(s) \cup {a}
         /\ \A b, c : Before(b, c, s) /\ b # a /\ c # a => Before(b, c, Append(s, a))
         /\ \A b : b # a => Before(b, a, Append(s, a))
<1> DEFINE t == Append(s, a)
           m == Len(s) + 1
<1>1. t \in Seq(S) /\ DOMAIN t = 1..m /\ DOMAIN s = 1..Len(s) /\ Len(s) \in Nat /\ m \in Nat
      /\ t[m] = a /\ \A i \in 1..Len(s) : t[i] = s[i]
  OBVIOUS
<1>2. m \in DOMAIN t /\ \A i \in DOMAIN t : i = m \/ (i \in DOMAIN s /\ t[i] = s[i] /\ i < m)
  BY <1>1
<1> HIDE DEF t, m
<1>3. \A i \in DOMAIN s : s[i] # a
  BY DEF Members
<1>4. Distinct(t)
  BY <1>1, <1>2, <1>3 DEF Distinct
<1>5. ASSUME NEW b, NEW c, Before(b, c, s), b # a, c # a PROVE Before(b, c, t)
  BY <1>1, <1>2, <1>5 DEF Before
<1>6. ASSUME NEW b, b # a PROVE Before(b, a, t)
  BY <1>1, <1>2, <1>3, <1>6 DEF Before
<1>7. Members(t) = Members(s) \cup {a}
  BY AppendMembers DEF t
<1> QED
  BY <1>1, <1>4, <1>5, <1>6, <1>7 DEF t

QueuesTyped ==
  /\ queue \in [Actors -> Seq(Requests)] /\ order \in Seq(Actors)
  /\ passed \in [Actors -> [Actors -> Nat]]

LEMMA OrderParts ==
  OrderInv <=> /\ QueuesTyped /\ Distinct(order)
               /\ Members(order) = {a \in Actors : queue[a] # <<>>}
               /\ \A a, b \in Actors : passed[a][b] > 0 =>
                    passed[a][b] = 1 /\ b \in Members(order) /\ Before(b, a, order)
BY DEF OrderInv, QueuesTyped, OrderMatchesQueues, PassedComeFirst, Distinct, Before

LEMMA OrderPartsLater ==
  ASSUME QueuesTyped', Distinct(order'), Members(order') = {a \in Actors : queue'[a] # <<>>},
         \A a, b \in Actors : passed'[a][b] > 0 =>
           passed'[a][b] = 1 /\ b \in Members(order') /\ Before(b, a, order')
  PROVE  OrderInv'
BY DEF OrderInv, QueuesTyped, OrderMatchesQueues, PassedComeFirst, Distinct, Before, Members

LEMMA OrderInit == Init => OrderInv
<1> SUFFICES ASSUME Init PROVE OrderInv
  OBVIOUS
<1>1. QueuesTyped
  BY DEF Init, QueuesTyped
<1>2. Members(order) = {} /\ \A a \in Actors : queue[a] = <<>>
  BY DEF Init, Members
<1>3. Distinct(order)
  BY DEF Init, Distinct
<1>4. \A a, b \in Actors : passed[a][b] = 0
  BY DEF Init
<1> QED
  BY <1>1, <1>2, <1>3, <1>4, OrderParts

LEMMA OrderKept ==
  ASSUME OrderInv, UNCHANGED queueVars
  PROVE  OrderInv'
BY DEF queueVars, OrderInv, OrderMatchesQueues, PassedComeFirst, Members

LEMMA EnqueueOrder ==
  ASSUME OrderInv, NEW r \in Requests, Enqueue(r), passed' = passed
  PROVE  OrderInv'
<1> DEFINE a == ActorOf[r]
<1>p. /\ QueuesTyped /\ Distinct(order)
      /\ Members(order) = {b \in Actors : queue[b] # <<>>}
      /\ \A c, b \in Actors : passed[c][b] > 0 =>
           passed[c][b] = 1 /\ b \in Members(order) /\ Before(b, c, order)
  BY OrderParts
<1>1. a \in Actors
  BY QuotaAssumption
<1>2. /\ queue' = [queue EXCEPT ![a] = Append(@, r)]
      /\ order' = IF queue[a] = <<>> THEN Append(order, a) ELSE order
  BY DEF Enqueue
<1> HIDE DEF a
<1>3. /\ queue' \in [Actors -> Seq(Requests)] /\ queue'[a] # <<>>
      /\ \A b \in Actors : b # a => queue'[b] = queue[b]
  BY <1>1, <1>2, <1>p DEF QueuesTyped
<1>4. CASE queue[a] # <<>>
  <2>1. order' = order /\ Members(order) = {b \in Actors : queue'[b] # <<>>}
    BY <1>1, <1>2, <1>3, <1>4, <1>p
  <2> QED
    BY <1>3, <1>p, <2>1, OrderPartsLater DEF QueuesTyped
<1>5. CASE queue[a] = <<>>
  <2>1. order' = Append(order, a) /\ a \notin Members(order) /\ order \in Seq(Actors)
    BY <1>2, <1>5, <1>p DEF QueuesTyped
  <2>2. /\ order' \in Seq(Actors) /\ Distinct(order')
        /\ Members(order') = Members(order) \cup {a}
        /\ \A b, c : Before(b, c, order) /\ b # a /\ c # a => Before(b, c, order')
        /\ \A b : b # a => Before(b, a, order')
    BY <1>1, <1>p, <2>1, AppendOrder
  <2>3. Members(order') = {b \in Actors : queue'[b] # <<>>}
    BY <1>1, <1>3, <1>p, <2>2
  <2>4. \A c, b \in Actors : passed'[c][b] > 0 =>
          passed'[c][b] = 1 /\ b \in Members(order') /\ Before(b, c, order')
    BY <1>p, <2>1, <2>2
  <2> QED
    BY <1>3, <1>p, <2>2, <2>3, <2>4, OrderPartsLater DEF QueuesTyped
<1> QED
  BY <1>4, <1>5

\* What Forget leaves of who was passed over.
LEMMA Forgotten ==
  ASSUME NEW history \in [Actors -> [Actors -> Nat]], NEW present
  PROVE  /\ Forget(history, present) \in [Actors -> [Actors -> Nat]]
         /\ \A a, b \in Actors :
              Forget(history, present)[a][b] = IF b \in present THEN history[a][b] ELSE 0
BY DEF Forget

LEMMA SweepOrder ==
  ASSUME OrderInv, Sweep
  PROVE  OrderInv'
<1>p. /\ QueuesTyped /\ Distinct(order)
      /\ Members(order) = {b \in Actors : queue[b] # <<>>}
      /\ \A c, b \in Actors : passed[c][b] > 0 =>
           passed[c][b] = 1 /\ b \in Members(order) /\ Before(b, c, order)
  BY OrderParts
<1> DEFINE waiting == {r \in Requests : Waiting(r)}
           kept == {a \in Actors : queue'[a] # <<>>}
<1>1. /\ queue' = [a \in Actors |-> Retain(queue[a], waiting)]
      /\ order' = Retain(order, kept)
      /\ passed' = Forget(passed, Members(order'))
  BY DEF Sweep
<1> HIDE DEF waiting
<1>2. queue' \in [Actors -> Seq(Requests)]
  <2>1. \A a \in Actors : Retain(queue[a], waiting) \in Seq(Requests)
    BY <1>p, RetainFacts DEF QueuesTyped
  <2> QED
    BY <1>1, <2>1
<1>3. \A a \in kept : a \in Members(order)
  <2>1. ASSUME NEW a \in Actors, queue[a] = <<>> PROVE queue'[a] = <<>>
    <3>1. Places(CHOOSE g : Places(g, Retain(queue[a], waiting), queue[a], waiting, Len(queue[a])),
                 Retain(queue[a], waiting), queue[a], waiting, Len(queue[a]))
      BY <1>p, RetainFacts DEF QueuesTyped
    <3>2. Retain(queue[a], waiting) \in Seq(Requests)
      BY <1>p, RetainFacts DEF QueuesTyped
    <3>3. Len(Retain(queue[a], waiting)) = 0
      <4> DEFINE t == Retain(queue[a], waiting)
                 g == CHOOSE g : Places(g, t, queue[a], waiting, Len(queue[a]))
      <4>1. g \in [1..Len(t) -> 1..0] /\ Len(t) \in Nat
        BY <2>1, <3>1, <3>2 DEF Places
      <4> HIDE DEF g, t
      <4>2. Len(t) = 0
        BY <4>1
      <4> QED
        BY <4>2 DEF t
    <3> QED
      BY <1>1, <3>2, <3>3
  <2> QED
    BY <1>p, <2>1
<1>4. /\ Retain(order, kept) \in Seq(Actors)
      /\ Members(order') = Members(order) \cap kept
      /\ Distinct(order')
      /\ \A a, b : Before(b, a, order) => Before(b, a, order')
  <2> HIDE DEF kept
  <2> QED
    BY <1>1, <1>p, RetainFacts, RetainOrder DEF QueuesTyped
<1>5. Members(order') = {a \in Actors : queue'[a] # <<>>}
  BY <1>3, <1>4
<1>6. /\ passed' \in [Actors -> [Actors -> Nat]]
      /\ \A a, b \in Actors : passed'[a][b] = IF b \in Members(order') THEN passed[a][b] ELSE 0
  <2> DEFINE present == Members(order')
  <2>1. passed' = Forget(passed, present) /\ passed \in [Actors -> [Actors -> Nat]]
    BY <1>1, <1>p DEF QueuesTyped
  <2> HIDE DEF present
  <2>2. /\ passed' \in [Actors -> [Actors -> Nat]]
        /\ \A a, b \in Actors : passed'[a][b] = IF b \in present THEN passed[a][b] ELSE 0
    BY <2>1, Forgotten
  <2> QED
    BY <2>2 DEF present
<1>7. ASSUME NEW c \in Actors, NEW b \in Actors, passed'[c][b] > 0
      PROVE  passed'[c][b] = 1 /\ b \in Members(order') /\ Before(b, c, order')
  <2>1. b \in Members(order') /\ passed'[c][b] = passed[c][b]
    BY <1>6, <1>7
  <2>2. passed[c][b] = 1 /\ Before(b, c, order)
    BY <1>7, <1>p, <2>1
  <2> QED
    BY <1>4, <2>1, <2>2
<1>8. QueuesTyped'
  BY <1>1, <1>2, <1>4, <1>6 DEF QueuesTyped
<1> QED
  BY <1>4, <1>5, <1>7, <1>8, OrderPartsLater

LEMMA RotateOrder ==
  ASSUME OrderInv, NEW r \in Requests, order # <<>>, Rotate(r)
  PROVE  OrderInv'
<1> DEFINE a == Head(order)
           tail == Tail(order)
           rest == Tail(queue[a])
           counted == [passed EXCEPT ![a] = [b \in Actors |-> IF b = a THEN 0 ELSE @[b] + 1]]
<1>p. /\ QueuesTyped /\ Distinct(order)
      /\ Members(order) = {b \in Actors : queue[b] # <<>>}
      /\ \A c, b \in Actors : passed[c][b] > 0 =>
           passed[c][b] = 1 /\ b \in Members(order) /\ Before(b, c, order)
  BY OrderParts
<1>1. /\ tail \in Seq(Actors) /\ Distinct(tail) /\ a \in Members(order)
      /\ Members(tail) = Members(order) \ {a}
      /\ \A c, b : Before(b, c, order) => Before(b, c, tail)
      /\ \A b \in Members(order) : ~Before(b, a, order)
  BY <1>p, TailOrder DEF QueuesTyped
<1>2. a \in Actors /\ queue[a] # <<>> /\ queue[a] \in Seq(Requests)
  BY <1>1, <1>p DEF QueuesTyped
<1>3. rest \in Seq(Requests)
  BY <1>2
<1>4. /\ queue' = [queue EXCEPT ![a] = rest]
      /\ order' = IF rest = <<>> THEN tail ELSE Append(tail, a)
      /\ passed' = Forget(counted, Members(tail))
  BY DEF Rotate
<1>c. /\ counted \in [Actors -> [Actors -> Nat]]
      /\ \A c, b \in Actors : counted[c][b] = IF c = a THEN IF b = a THEN 0 ELSE passed[a][b] + 1 ELSE passed[c][b]
  <2>1. passed \in [Actors -> [Actors -> Nat]]
    BY <1>p DEF QueuesTyped
  <2> HIDE DEF a
  <2> QED
    BY <1>2, <2>1
<1> HIDE DEF a, tail, rest, counted
<1>5. /\ queue' \in [Actors -> Seq(Requests)] /\ queue'[a] = rest
      /\ \A b \in Actors : b # a => queue'[b] = queue[b]
  BY <1>2, <1>3, <1>4, <1>p DEF QueuesTyped
<1>6. /\ passed' \in [Actors -> [Actors -> Nat]]
      /\ \A c, b \in Actors : passed'[c][b] = IF b \in Members(tail) THEN counted[c][b] ELSE 0
  <2> DEFINE present == Members(tail)
  <2>1. passed' = Forget(counted, present)
    BY <1>4
  <2> HIDE DEF present
  <2>2. /\ passed' \in [Actors -> [Actors -> Nat]]
        /\ \A c, b \in Actors : passed'[c][b] = IF b \in present THEN counted[c][b] ELSE 0
    BY <1>c, <2>1, Forgotten
  <2> QED
    BY <2>2 DEF present
<1>7. \A b \in Members(tail) : b \in Members(order) /\ b # a /\ b \in Actors /\ passed[a][b] = 0
  <2>1. ASSUME NEW b \in Members(tail) PROVE b \in Members(order) /\ b # a /\ b \in Actors /\ passed[a][b] = 0
    <3>1. b \in Members(order) /\ b # a /\ b \in Actors
      BY <1>1, <1>p, <2>1
    <3>2. ~(passed[a][b] > 0)
      BY <1>1, <1>2, <1>p, <3>1
    <3>3. passed[a][b] \in Nat
      BY <1>2, <1>p, <3>1 DEF QueuesTyped
    <3> QED
      BY <3>1, <3>2, <3>3
  <2> QED
    BY <2>1
<1>8. ASSUME NEW c \in Actors, NEW b \in Actors, passed'[c][b] > 0
      PROVE  /\ passed'[c][b] = 1 /\ b \in Members(tail)
             /\ c # a => Before(b, c, tail)
  <2>1. b \in Members(tail) /\ passed'[c][b] = counted[c][b]
    BY <1>6, <1>8
  <2>2. CASE c = a
    BY <1>c, <1>7, <2>1, <2>2
  <2>3. CASE c # a
    <3>1. passed'[c][b] = passed[c][b]
      BY <1>c, <2>1, <2>3
    <3> QED
      BY <1>1, <1>8, <1>p, <2>1, <3>1
  <2> QED
    BY <2>2, <2>3
<1>9. CASE rest = <<>>
  <2>1. order' = tail
    BY <1>4, <1>9
  <2>2. Members(order') = {b \in Actors : queue'[b] # <<>>}
    BY <1>1, <1>2, <1>5, <1>9, <1>p, <2>1
  <2>3. \A b : Before(b, a, tail)
    <3>1. a \notin Members(tail)
      BY <1>1
    <3>2. \A i \in DOMAIN tail : tail[i] # a
      BY <3>1 DEF Members
    <3> QED
      BY <3>2 DEF Before
  <2>4. \A c, b \in Actors : passed'[c][b] > 0 =>
          passed'[c][b] = 1 /\ b \in Members(order') /\ Before(b, c, order')
    BY <1>8, <2>1, <2>3
  <2>5. QueuesTyped'
    BY <1>1, <1>5, <1>6, <2>1 DEF QueuesTyped
  <2> QED
    BY <1>1, <2>1, <2>2, <2>4, <2>5, OrderPartsLater
<1>10. CASE rest # <<>>
  <2>1. order' = Append(tail, a) /\ a \notin Members(tail)
    BY <1>1, <1>4, <1>10
  <2>2. /\ order' \in Seq(Actors) /\ Distinct(order')
        /\ Members(order') = Members(tail) \cup {a}
        /\ \A b, c : Before(b, c, tail) /\ b # a /\ c # a => Before(b, c, order')
        /\ \A b : b # a => Before(b, a, order')
    BY <1>1, <1>2, <2>1, AppendOrder
  <2>3. Members(order') = {b \in Actors : queue'[b] # <<>>}
    BY <1>1, <1>2, <1>5, <1>10, <1>p, <2>2
  <2>4. ASSUME NEW c \in Actors, NEW b \in Actors, passed'[c][b] > 0
        PROVE  passed'[c][b] = 1 /\ b \in Members(order') /\ Before(b, c, order')
    <3>1. passed'[c][b] = 1 /\ b \in Members(tail) /\ b # a /\ (c # a => Before(b, c, tail))
      BY <1>7, <1>8, <2>4
    <3> QED
      BY <2>2, <3>1
  <2>5. QueuesTyped'
    BY <1>5, <1>6, <2>2 DEF QueuesTyped
  <2> QED
    BY <2>2, <2>3, <2>4, <2>5, OrderPartsLater
<1> QED
  BY <1>9, <1>10

LEMMA OrderStep == TypeOK /\ OrderInv /\ [Next]_vars => OrderInv'
<1> SUFFICES ASSUME TypeOK, OrderInv, [Next]_vars PROVE OrderInv'
  OBVIOUS
<1>1. CASE UNCHANGED queueVars
  BY <1>1, OrderKept
<1>2. CASE Receive
  <2>1. Head(channel) \in Acquires \cup Controls
    BY <1>2, ChannelTail DEF Receive
  <2>2. ASSUME Head(channel).kind = "acquire", Enqueue(Head(channel).request) PROVE OrderInv'
    <3>1. Head(channel).request \in Requests
      BY <2>1, <2>2 DEF Acquires, Controls
    <3> QED
      BY <1>2, <2>2, <3>1, EnqueueOrder DEF Receive
  <2>3. ASSUME Head(channel).kind \in {"refund", "reject"}, UNCHANGED <<queue, order>> PROVE OrderInv'
    BY <1>1, <1>2, <2>3 DEF Receive, queueVars
  <2> QED
    BY <1>2, <2>2, <2>3 DEF Receive
<1>3. CASE Sweep
  BY <1>3, SweepOrder
<1>4. ASSUME NEW r \in Requests, NEW p \in Providers, Grant(r, p) PROVE OrderInv'
  BY <1>4, RotateOrder DEF Grant, Turn
<1>5. ASSUME NEW r \in Requests, Caller(r) \/ Stall(r) PROVE UNCHANGED queueVars
  BY <1>5 DEF Caller, Acquire, Finish, RateLimited, Cancel, Stall
<1>6. ASSUME Rest \/ Wake \/ WindowElapses \/ (\E p \in Providers : BlockElapses(p)) \/ UNCHANGED vars
      PROVE  UNCHANGED queueVars
  BY <1>6 DEF Rest, Wake, WindowElapses, BlockElapses, vars
<1> QED
  BY <1>1, <1>2, <1>3, <1>4, <1>5, <1>6 DEF Next, Scheduler, Serve

\* The inductive invariant of the order holds.
THEOREM OrderAlways == Spec => []OrderInv
BY OrderInit, OrderStep, QuotaTypes, PTL DEF Spec

\* An actor at the head of the order has a request: the expect calls of
\* run_quota_scheduler, which would end every search and fetch, succeed.
THEOREM SchedulerFindsRequests == Spec => []OrderMatchesQueues
<1>1. OrderInv => OrderMatchesQueues
  BY DEF OrderInv
<1> QED
  BY <1>1, OrderAlways, PTL

\* No actor is granted twice while another waits.
THEOREM GrantsTakeTurns == Spec => []RoundRobin
<1>1. OrderInv => RoundRobin
  <2>1. ASSUME OrderInv, NEW a \in Actors, NEW b \in Actors PROVE passed[a][b] <= 1
    <3>1. passed[a][b] \in Nat /\ (passed[a][b] > 0 => passed[a][b] = 1)
      BY <2>1 DEF OrderInv, PassedComeFirst
    <3> QED
      BY <3>1
  <2> QED
    BY <2>1 DEF RoundRobin
<1> QED
  BY <1>1, OrderAlways, PTL

-----------------------------------------------------------------------------
(* Recursive functions *)

(* f is what step makes of first, up to n. *)
Steps(f, first, step, n) ==
  /\ f[0] = first
  /\ \A i \in 1..n : f[i] = step[<<f[i - 1], i>>]

LEMMA StepsAgree ==
  ASSUME NEW first, NEW step, NEW m \in Nat, NEW n \in Nat, m <= n,
         NEW f, NEW g, Steps(f, first, step, m), Steps(g, first, step, n)
  PROVE  f[m] = g[m]
<1> DEFINE N == {i \in Nat : i <= m => f[i] = g[i]}
<1>1. 0 \in N
  BY DEF Steps
<1>2. ASSUME NEW i \in Nat, i \in N PROVE i + 1 \in N
  <2>1. SUFFICES ASSUME i + 1 <= m PROVE f[i + 1] = g[i + 1]
    OBVIOUS
  <2>2. i + 1 \in 1..m /\ i + 1 \in 1..n /\ (i + 1) - 1 = i
    BY <2>1
  <2>3. f[i] = g[i]
    BY <1>2, <2>1
  <2>4. f[i + 1] = step[<<f[(i + 1) - 1], i + 1>>] /\ g[i + 1] = step[<<g[(i + 1) - 1], i + 1>>]
    BY <2>2 DEF Steps
  <2> QED  BY <2>2, <2>3, <2>4
<1> HIDE DEF N
<1>3. Nat \subseteq N
  BY <1>1, <1>2, InductiveSet
<1> QED  BY <1>3 DEF N

LEMMA StepsExist ==
  ASSUME NEW S, NEW first \in S, NEW step \in [S \X Nat -> S]
  PROVE  \A n \in Nat : \E f \in [0..n -> S] : Steps(f, first, step, n)
<1> DEFINE N == {n \in Nat : \E f \in [0..n -> S] : Steps(f, first, step, n)}
<1>1. 0 \in N
  <2>1. [i \in 0..0 |-> first] \in [0..0 -> S] /\ Steps([i \in 0..0 |-> first], first, step, 0)
    BY DEF Steps
  <2> QED  BY <2>1
<1>2. ASSUME NEW n \in Nat, n \in N PROVE n + 1 \in N
  <2>1. PICK f \in [0..n -> S] : Steps(f, first, step, n)
    BY <1>2
  <2> DEFINE last == step[<<f[n], n + 1>>]
             g == [i \in 0..(n + 1) |-> IF i = n + 1 THEN last ELSE f[i]]
  <2>2. last \in S
    <3>1. f[n] \in S /\ n + 1 \in Nat
      OBVIOUS
    <3>2. <<f[n], n + 1>> \in S \X Nat
      BY <3>1
    <3> QED  BY <3>2
  <2>3. g \in [0..(n + 1) -> S]
    <3>1. ASSUME NEW i \in 0..(n + 1) PROVE (IF i = n + 1 THEN last ELSE f[i]) \in S
      <4>1. i = n + 1 \/ i \in 0..n
        OBVIOUS
      <4> HIDE DEF last
      <4> QED  BY <2>2, <4>1
    <3> HIDE DEF last
    <3> QED  BY <3>1
  <2>4. g[n + 1] = last /\ \A i \in 0..n : g[i] = f[i]
    OBVIOUS
  <2> HIDE DEF g
  <2>5. ASSUME NEW i \in 1..(n + 1) PROVE g[i] = step[<<g[i - 1], i>>]
    <3>1. CASE i = n + 1
      <4>1. i - 1 = n /\ n \in 0..n
        BY <3>1
      <4> QED  BY <2>4, <3>1, <4>1
    <3>2. CASE i # n + 1
      <4>1. i \in 1..n /\ i \in 0..n /\ i - 1 \in 0..n
        BY <3>2
      <4>2. f[i] = step[<<f[i - 1], i>>]
        BY <2>1, <4>1 DEF Steps
      <4> QED  BY <2>4, <4>1, <4>2
    <3> QED  BY <3>1, <3>2
  <2>6. g[0] = first
    BY <2>1, <2>4 DEF Steps
  <2>7. Steps(g, first, step, n + 1)
    BY <2>5, <2>6 DEF Steps
  <2> QED  BY <2>3, <2>7
<1> HIDE DEF N
<1>3. Nat \subseteq N
  BY <1>1, <1>2, InductiveSet
<1> QED  BY <1>3 DEF N

-----------------------------------------------------------------------------
(* Powers of ten *)

LEMMA PowersExist ==
  \E power \in [Nat -> Nat] :
    power = [n \in Nat |-> IF n = 0 THEN 1 ELSE 10 * power[n - 1]]
<1> DEFINE step == [x \in Nat \X Nat |-> 10 * x[1]]
           upto(n) == CHOOSE f \in [0..n -> Nat] : Steps(f, 1, step, n)
           power == [n \in Nat |-> upto(n)[n]]
<1>1. step \in [Nat \X Nat -> Nat] /\ \A a, b \in Nat : step[<<a, b>>] = 10 * a
  OBVIOUS
<1> HIDE DEF step
<1>2. \A n \in Nat : upto(n) \in [0..n -> Nat] /\ Steps(upto(n), 1, step, n)
  BY <1>1, StepsExist
<1> HIDE DEF upto
<1>3. power \in [Nat -> Nat]
  <2>1. ASSUME NEW n \in Nat PROVE upto(n)[n] \in Nat
    BY <1>2
  <2> QED  BY <2>1
<1>4. ASSUME NEW n \in Nat PROVE power[n] = IF n = 0 THEN 1 ELSE 10 * power[n - 1]
  <2>0. power[n] = upto(n)[n]
    OBVIOUS
  <2>1. CASE n = 0
    BY <1>2, <2>0, <2>1 DEF Steps
  <2>2. CASE n # 0
    <3>1. n - 1 \in Nat /\ n - 1 <= n /\ n \in 1..n /\ n - 1 \in 0..n
      BY <2>2
    <3>2. upto(n - 1)[n - 1] = upto(n)[n - 1]
      BY <1>2, <3>1, StepsAgree
    <3>3. upto(n)[n] = step[<<upto(n)[n - 1], n>>] /\ upto(n)[n - 1] \in Nat
      BY <1>2, <3>1 DEF Steps
    <3>4. upto(n)[n] = 10 * upto(n)[n - 1]
      BY <1>1, <3>3
    <3>5. power[n - 1] = upto(n - 1)[n - 1]
      BY <3>1
    <3> QED  BY <2>0, <2>2, <3>2, <3>4, <3>5
  <2> QED  BY <2>1, <2>2
<1>5. power = [n \in Nat |-> power[n]]
  OBVIOUS
<1> HIDE DEF power
<1>6. power = [n \in Nat |-> IF n = 0 THEN 1 ELSE 10 * power[n - 1]]
  BY <1>4, <1>5
<1> QED  BY <1>3, <1>6

LEMMA TenFacts ==
  /\ Costs!TenTo[0] = 1
  /\ \A n \in Nat : /\ Costs!TenTo[n] \in Nat \ {0}
                    /\ Costs!TenTo[n + 1] = 10 * Costs!TenTo[n]
<1> DEFINE T == Costs!TenTo
           N == {n \in Nat : T[n] \in Nat \ {0}}
<1>1. T = [n \in Nat |-> IF n = 0 THEN 1 ELSE 10 * T[n - 1]]
  BY PowersExist DEF Costs!TenTo
<1> HIDE DEF T
<1>2. T[0] = 1
  BY <1>1
<1>3. ASSUME NEW n \in Nat PROVE T[n + 1] = 10 * T[n]
  <2>1. n + 1 \in Nat /\ n + 1 # 0 /\ (n + 1) - 1 = n
    OBVIOUS
  <2>2. T[n + 1] = IF n + 1 = 0 THEN 1 ELSE 10 * T[(n + 1) - 1]
    BY <1>1, <2>1
  <2> QED  BY <2>1, <2>2
<1>4. 0 \in N
  BY <1>2
<1>5. \A n \in Nat : n \in N => n + 1 \in N
  BY <1>3
<1> HIDE DEF N
<1>6. Nat \subseteq N
  BY <1>4, <1>5, InductiveSet
<1>7. \A n \in Nat : T[n] \in Nat \ {0}
  BY <1>6 DEF N
<1>8. T[0] = 1 /\ \A n \in Nat : T[n] \in Nat \ {0} /\ T[n + 1] = 10 * T[n]
  BY <1>2, <1>3, <1>7
<1> QED  BY <1>8 DEF T

-----------------------------------------------------------------------------
(* Numbers *)

(* One digit more. *)
LEMMA MoreDigits ==
  ASSUME NEW a \in Nat, NEW c \in 0..9
  PROVE  10 * a + c \in Nat
OBVIOUS

LEMMA NextDigit ==
  ASSUME NEW a \in Nat, NEW b \in 0..9, NEW e \in Nat, NEW c \in 0..9, NEW r \in 0..(e - 1)
  PROVE  /\ 10 * r + c \in 0..(10 * e - 1)
         /\ 10 * (a * (10 * e) + b * e + r) + c = a * (100 * e) + b * (10 * e) + (10 * r + c)
<1>1. 10 * r + c \in 0..(10 * e - 1)
  OBVIOUS
<1>2. PICK x \in Nat, y \in Nat : x = a * e /\ y = b * e
  OBVIOUS
<1>3. a * (10 * e) = 10 * x /\ a * (100 * e) = 100 * x /\ b * (10 * e) = 10 * y
  BY <1>2
<1> QED  BY <1>1, <1>2, <1>3

(* v[n] is the number of the first n digits. *)
Values(v, digits) ==
  /\ v \in [0..Len(digits) -> Nat]
  /\ v[0] = 0
  /\ \A n \in 1..Len(digits) : v[n] = 10 * v[n - 1] + digits[n]

LEMMA NumberFacts ==
  ASSUME NEW digits \in Seq(0..9)
  PROVE  \E v : Values(v, digits) /\ Costs!Number(digits) = v[Len(digits)]
<1> DEFINE n == Len(digits)
           step == [x \in Nat \X Nat |-> IF x[2] \in 1..n THEN 10 * x[1] + digits[x[2]] ELSE 0]
           Value(v) == v = [i \in 0..n |-> IF i = 0 THEN 0 ELSE 10 * v[i - 1] + digits[i]]
           value == CHOOSE v : Value(v)
<1>0. n \in Nat /\ \A i \in 1..n : digits[i] \in 0..9
  OBVIOUS
<1> HIDE DEF n
<1>1. step \in [Nat \X Nat -> Nat]
      /\ \A a \in Nat : \A i \in 1..n : step[<<a, i>>] = 10 * a + digits[i]
  <2>1. ASSUME NEW x \in Nat \X Nat
        PROVE  (IF x[2] \in 1..n THEN 10 * x[1] + digits[x[2]] ELSE 0) \in Nat
    <3>1. x[1] \in Nat
      OBVIOUS
    <3>2. x[2] \in 1..n => 10 * x[1] + digits[x[2]] \in Nat
      BY <1>0, <3>1, MoreDigits
    <3> QED  BY <3>2
  <2>2. step \in [Nat \X Nat -> Nat]
    BY <2>1
  <2>3. ASSUME NEW a \in Nat, NEW i \in 1..n PROVE step[<<a, i>>] = 10 * a + digits[i]
    BY <1>0
  <2> QED  BY <2>2, <2>3
<1> HIDE DEF step
<1>2. PICK f \in [0..n -> Nat] : Steps(f, 0, step, n)
  BY <1>0, <1>1, StepsExist
<1>3. ASSUME NEW i \in 0..n PROVE f[i] = IF i = 0 THEN 0 ELSE 10 * f[i - 1] + digits[i]
  <2>1. CASE i = 0
    BY <1>2, <2>1 DEF Steps
  <2>2. CASE i # 0
    <3>1. i \in 1..n /\ i - 1 \in 0..n
      BY <1>0, <2>2
    <3> QED  BY <1>1, <1>2, <2>2, <3>1 DEF Steps
  <2> QED  BY <2>1, <2>2
<1>4. Value(f)
  <2>1. f = [i \in 0..n |-> f[i]]
    OBVIOUS
  <2> QED  BY <1>3, <2>1
<1>5. Value(value)
  BY <1>4
<1>6. Costs!Number(digits) = value[n]
  BY DEF Costs!Number, n
<1> HIDE DEF value
<1>7. value = [i \in 0..n |-> value[i]]
  BY <1>5
<1>8. \A i \in 0..n : value[i] = IF i = 0 THEN 0 ELSE 10 * value[i - 1] + digits[i]
  BY <1>5
<1> DEFINE N == {i \in Nat : i <= n => value[i] \in Nat}
<1>9. 0 \in N
  BY <1>0, <1>8
<1>10. ASSUME NEW i \in Nat, i \in N PROVE i + 1 \in N
  <2>1. SUFFICES ASSUME i + 1 <= n PROVE value[i + 1] \in Nat
    OBVIOUS
  <2>2. i + 1 \in 0..n /\ i + 1 \in 1..n /\ i + 1 # 0 /\ (i + 1) - 1 = i /\ value[i] \in Nat
    BY <1>0, <1>10, <2>1
  <2>3. value[i + 1] = 10 * value[i] + digits[i + 1]
    BY <1>8, <2>2
  <2>4. PICK m \in 1..n : m = i + 1
    BY <2>2
  <2>5. PICK c \in 0..9, a \in Nat : c = digits[m] /\ a = value[i]
    BY <1>0, <2>2, <2>4
  <2>6. value[i + 1] = 10 * a + c
    BY <2>3, <2>4, <2>5
  <2> QED  BY <2>6, MoreDigits
<1> HIDE DEF N
<1>11. Nat \subseteq N
  BY <1>9, <1>10, InductiveSet
<1>12. \A i \in 0..n : value[i] \in Nat
  BY <1>0, <1>11 DEF N
<1>13. value \in [0..n -> Nat]
  BY <1>7, <1>12
<1>14. value[0] = 0 /\ \A i \in 1..n : value[i] = 10 * value[i - 1] + digits[i]
  BY <1>0, <1>8
<1>15. Values(value, digits)
  BY <1>13, <1>14 DEF Values, n
<1> QED  BY <1>6, <1>15 DEF n

Ten(n) == Costs!TenTo[n]

LEMMA Tens ==
  Ten(0) = 1 /\ \A n \in Nat : Ten(n) \in Nat \ {0} /\ Ten(n + 1) = 10 * Ten(n)
<1> QED  BY TenFacts DEF Ten

(* A digit's place is worth more than all digits after it. *)
LEMMA LeadingDigit ==
  ASSUME NEW digits \in Seq(0..9), NEW v, Values(v, digits), NEW k \in Nat, k < Len(digits)
  PROVE  \E r \in 0..(Ten(Len(digits) - k - 1) - 1) :
           v[Len(digits)] =
             v[k] * Ten(Len(digits) - k) + digits[k + 1] * Ten(Len(digits) - k - 1) + r
<1> DEFINE Split(j) == \E r \in 0..(Ten(j) - 1) :
             v[k + j + 1] = v[k] * Ten(j + 1) + digits[k + 1] * Ten(j) + r
           N == {j \in Nat : k + j + 1 <= Len(digits) => Split(j)}
<1>a. Len(digits) \in Nat /\ \A i \in 1..Len(digits) : digits[i] \in 0..9
  OBVIOUS
<1>b. \A i \in 0..Len(digits) : v[i] \in Nat
  BY DEF Values
<1>0. /\ Len(digits) \in Nat /\ \A i \in 1..Len(digits) : digits[i] \in 0..9
      /\ \A i \in 0..Len(digits) : v[i] \in Nat
  BY <1>a, <1>b
<1>1. 0 \in N
  <2>1. k + 1 \in 1..Len(digits) /\ (k + 1) - 1 = k /\ k \in 0..Len(digits)
    BY <1>0
  <2>2. v[k + 1] = 10 * v[k] + digits[k + 1] /\ v[k] \in Nat /\ digits[k + 1] \in 0..9
    BY <1>0, <2>1 DEF Values
  <2>3. Ten(0) = 1 /\ Ten(0 + 1) = 10
    <3>1. Ten(0 + 1) = 10 * Ten(0)
      BY Tens
    <3> QED  BY <3>1, Tens
  <2>4. v[k + 0 + 1] = v[k] * Ten(0 + 1) + digits[k + 1] * Ten(0) + 0 /\ 0 \in 0..(Ten(0) - 1)
    BY <2>2, <2>3
  <2> QED  BY <2>4
<1>2. ASSUME NEW j \in Nat, j \in N PROVE j + 1 \in N
  <2>1. SUFFICES ASSUME k + (j + 1) + 1 <= Len(digits) PROVE Split(j + 1)
    OBVIOUS
  <2>2. PICK r \in 0..(Ten(j) - 1) : v[k + j + 1] = v[k] * Ten(j + 1) + digits[k + 1] * Ten(j) + r
    BY <1>0, <1>2, <2>1
  <2>3. k + j + 2 \in 1..Len(digits) /\ k + j + 1 = (k + j + 2) - 1 /\ k \in 0..Len(digits)
        /\ k + 1 \in 1..Len(digits) /\ (j + 1) + 1 = j + 2 /\ k + (j + 1) + 1 = k + j + 2
    BY <1>0, <2>1
  <2>4. v[k + j + 2] = 10 * v[k + j + 1] + digits[k + j + 2]
    BY <2>3 DEF Values
  <2>5. PICK e \in Nat : e = Ten(j)
    BY Tens
  <2>6. Ten(j + 1) = 10 * e /\ Ten(j + 2) = 100 * e
    <3>1. Ten(j + 1) = 10 * Ten(j) /\ Ten((j + 1) + 1) = 10 * Ten(j + 1)
      BY Tens
    <3> QED  BY <2>3, <2>5, <3>1
  <2>7. PICK a \in Nat, b \in 0..9, c \in 0..9 : a = v[k] /\ b = digits[k + 1] /\ c = digits[k + j + 2]
    BY <1>0, <2>3
  <2>8. v[k + j + 2] = 10 * (a * (10 * e) + b * e + r) + c
    BY <2>2, <2>3, <2>4, <2>5, <2>6, <2>7
  <2>9. r \in 0..(e - 1)
    BY <2>2, <2>5
  <2>10. /\ 10 * r + c \in 0..(10 * e - 1)
         /\ v[k + j + 2] = a * (100 * e) + b * (10 * e) + (10 * r + c)
    <3>1. /\ 10 * r + c \in 0..(10 * e - 1)
          /\ 10 * (a * (10 * e) + b * e + r) + c = a * (100 * e) + b * (10 * e) + (10 * r + c)
      BY <2>9, NextDigit
    <3> QED  BY <2>8, <3>1
  <2> QED  BY <2>3, <2>5, <2>6, <2>7, <2>10
<1> HIDE DEF N
<1>3. Nat \subseteq N
  BY <1>1, <1>2, InductiveSet
<1>4. PICK j \in Nat : j = Len(digits) - k - 1
  <2>1. Len(digits) - k - 1 \in Nat
    BY <1>0
  <2> QED  BY <2>1
<1>5. Split(j)
  BY <1>0, <1>3, <1>4 DEF N
<1>6. k + j + 1 = Len(digits) /\ j + 1 = Len(digits) - k
  BY <1>0, <1>4
<1> QED  BY <1>4, <1>5, <1>6

(* Digits left out at the end do not change the number of those before. *)
LEMMA PrefixValue ==
  ASSUME NEW digits \in Seq(0..9), NEW v, Values(v, digits), NEW k \in 0..Len(digits)
  PROVE  Costs!Number(SubSeq(digits, 1, k)) = v[k]
<1> DEFINE p == SubSeq(digits, 1, k)
<1>1. p \in Seq(0..9) /\ Len(p) = k /\ Len(digits) \in Nat /\ \A i \in 1..k : p[i] = digits[i]
  OBVIOUS
<1> HIDE DEF p
<1>2. PICK w : Values(w, p) /\ Costs!Number(p) = w[k]
  BY <1>1, NumberFacts
<1> DEFINE N == {n \in Nat : n <= k => w[n] = v[n]}
<1>3. 0 \in N
  BY <1>2 DEF Values
<1>4. ASSUME NEW n \in Nat, n \in N PROVE n + 1 \in N
  <2>1. SUFFICES ASSUME n + 1 <= k PROVE w[n + 1] = v[n + 1]
    OBVIOUS
  <2>2. n + 1 \in 1..k /\ n + 1 \in 1..Len(digits) /\ (n + 1) - 1 = n /\ w[n] = v[n]
    BY <1>1, <1>4, <2>1
  <2>3. w[n + 1] = 10 * w[n] + p[n + 1] /\ v[n + 1] = 10 * v[n] + digits[n + 1]
    BY <1>1, <1>2, <2>2 DEF Values
  <2> QED  BY <1>1, <2>2, <2>3
<1> HIDE DEF N
<1>5. Nat \subseteq N
  BY <1>3, <1>4, InductiveSet
<1> QED  BY <1>1, <1>2, <1>5 DEF N, p

(* Leading zeros do not change the number. *)
LEMMA SuffixValue ==
  ASSUME NEW digits \in Seq(0..9), NEW lead \in 0..Len(digits), \A i \in 1..lead : digits[i] = 0
  PROVE  /\ SubSeq(digits, lead + 1, Len(digits)) \in Seq(0..9)
         /\ Costs!Number(SubSeq(digits, lead + 1, Len(digits))) = Costs!Number(digits)
<1> DEFINE p == SubSeq(digits, lead + 1, Len(digits))
<1>1. /\ p \in Seq(0..9) /\ Len(p) = Len(digits) - lead /\ Len(digits) \in Nat
      /\ \A i \in 1..Len(p) : p[i] = digits[lead + i]
  OBVIOUS
<1> HIDE DEF p
<1>2. PICK v : Values(v, digits) /\ Costs!Number(digits) = v[Len(digits)]
  BY NumberFacts
<1>3. PICK w : Values(w, p) /\ Costs!Number(p) = w[Len(p)]
  BY <1>1, NumberFacts
<1>4. v[lead] = 0
  <2> DEFINE N == {n \in Nat : n <= lead => v[n] = 0}
  <2>1. 0 \in N
    BY <1>2 DEF Values
  <2>2. ASSUME NEW n \in Nat, n \in N PROVE n + 1 \in N
    <3>1. SUFFICES ASSUME n + 1 <= lead PROVE v[n + 1] = 0
      OBVIOUS
    <3>2. n + 1 \in 1..lead /\ n + 1 \in 1..Len(digits) /\ (n + 1) - 1 = n /\ v[n] = 0
      BY <1>1, <2>2, <3>1
    <3>3. v[n + 1] = 10 * v[n] + digits[n + 1] /\ digits[n + 1] = 0
      BY <1>2, <3>2 DEF Values
    <3> QED  BY <3>2, <3>3
  <2> HIDE DEF N
  <2>3. Nat \subseteq N
    BY <2>1, <2>2, InductiveSet
  <2> QED  BY <2>3 DEF N
<1> DEFINE N == {n \in Nat : n <= Len(p) => w[n] = v[lead + n]}
<1>5. 0 \in N
  BY <1>3, <1>4 DEF Values
<1>6. ASSUME NEW n \in Nat, n \in N PROVE n + 1 \in N
  <2>1. SUFFICES ASSUME n + 1 <= Len(p) PROVE w[n + 1] = v[lead + (n + 1)]
    OBVIOUS
  <2>2. /\ n + 1 \in 1..Len(p) /\ lead + n + 1 \in 1..Len(digits) /\ (n + 1) - 1 = n
        /\ lead + (n + 1) = lead + n + 1 /\ (lead + n + 1) - 1 = lead + n /\ w[n] = v[lead + n]
    BY <1>1, <1>6, <2>1
  <2>3. w[n + 1] = 10 * w[n] + p[n + 1] /\ v[lead + n + 1] = 10 * v[lead + n] + digits[lead + n + 1]
    BY <1>2, <1>3, <2>2 DEF Values
  <2>4. p[n + 1] = digits[lead + (n + 1)]
    BY <1>1, <2>2
  <2> QED  BY <2>2, <2>3, <2>4
<1> HIDE DEF N
<1>7. Nat \subseteq N
  BY <1>5, <1>6, InductiveSet
<1>8. w[Len(p)] = v[lead + Len(p)] /\ lead + Len(p) = Len(digits)
  BY <1>1, <1>7 DEF N
<1> QED  BY <1>1, <1>2, <1>3, <1>8 DEF p

LEMMA SignificantFacts ==
  ASSUME NEW d, d.whole \in Seq(0..9), d.fraction \in Seq(0..9)
  PROVE  /\ Costs!Significant(d) \in Seq(0..9)
         /\ Costs!Number(Costs!Significant(d)) = Costs!Numerator(d)
         /\ Costs!Significant(d) # <<>> => Costs!Significant(d)[1] # 0
<1> DEFINE all == d.whole \o d.fraction
           Zeros(n) == \A i \in 1..n : all[i] = 0
           lead == CHOOSE n \in 0..Len(all) : Zeros(n) /\ (n = Len(all) \/ all[n + 1] # 0)
           N == {n \in Nat : n <= Len(all) => Zeros(n)}
<1>1. all \in Seq(0..9) /\ Len(all) \in Nat
  <2>1. PICK s \in Seq(0..9), t \in Seq(0..9) : s = d.whole /\ t = d.fraction
    OBVIOUS
  <2>2. s \o t \in Seq(0..9) /\ Len(s \o t) \in Nat
    OBVIOUS
  <2> QED  BY <2>1, <2>2
<1> HIDE DEF all
<1>2. \E n \in 0..Len(all) : Zeros(n) /\ (n = Len(all) \/ all[n + 1] # 0)
  <2>1. SUFFICES ASSUME \A n \in 0..Len(all) : Zeros(n) => n # Len(all) /\ all[n + 1] = 0 PROVE FALSE
    OBVIOUS
  <2>2. 0 \in N
    OBVIOUS
  <2>3. ASSUME NEW n \in Nat, n \in N PROVE n + 1 \in N
    <3>1. SUFFICES ASSUME n + 1 <= Len(all) PROVE Zeros(n + 1)
      OBVIOUS
    <3>2. Zeros(n) /\ n \in 0..Len(all)
      BY <1>1, <2>3, <3>1
    <3>3. all[n + 1] = 0
      BY <2>1, <3>2
    <3>4. \A i \in 1..(n + 1) : i \in 1..n \/ i = n + 1
      OBVIOUS
    <3> QED  BY <3>2, <3>3, <3>4
  <2> HIDE DEF N
  <2>4. Nat \subseteq N
    BY <2>2, <2>3, InductiveSet
  <2>5. Zeros(Len(all))
    BY <1>1, <2>4 DEF N
  <2> QED  BY <1>1, <2>1, <2>5
<1>3. lead \in 0..Len(all) /\ Zeros(lead) /\ (lead = Len(all) \/ all[lead + 1] # 0)
  BY <1>2
<1>4. Costs!Significant(d) = SubSeq(all, lead + 1, Len(all))
  BY DEF Costs!Significant, all
<1> HIDE DEF lead
<1>5. /\ SubSeq(all, lead + 1, Len(all)) \in Seq(0..9)
      /\ Costs!Number(SubSeq(all, lead + 1, Len(all))) = Costs!Number(all)
  BY <1>1, <1>3, SuffixValue
<1>6. ASSUME SubSeq(all, lead + 1, Len(all)) # <<>> PROVE SubSeq(all, lead + 1, Len(all))[1] # 0
  <2>1. CASE lead = Len(all)
    BY <1>1, <1>6, <2>1
  <2>2. CASE lead # Len(all)
    <3>1. SubSeq(all, lead + 1, Len(all))[1] = all[lead + 1]
      BY <1>1, <1>3, <2>2
    <3> QED  BY <1>3, <2>2, <3>1
  <2> QED  BY <2>1, <2>2
<1> QED  BY <1>4, <1>5, <1>6 DEF Costs!Numerator, all

LEMMA DivUnique ==
  ASSUME NEW q \in Nat, NEW b \in Nat \ {0}, NEW r \in 0..(b - 1)
  PROVE  (q * b + r) \div b = q
<1>1. PICK a \in Nat : a = q * b + r
  OBVIOUS
<1>2. PICK e \in Int, m \in 0..(b - 1) : a \div b = e /\ a = b * e + m
  OBVIOUS
<1>3. b * (e - q) = r - m
  BY <1>1, <1>2
<1>4. CASE e - q >= 1
  <2>1. b * (e - q) >= b
    BY <1>4
  <2> QED  BY <1>3, <2>1
<1>5. CASE e - q <= -1
  <2>1. b * (e - q) <= -b
    BY <1>5
  <2> QED  BY <1>3, <2>1
<1> QED  BY <1>1, <1>2, <1>4, <1>5

LEMMA TensMultiply ==
  ASSUME NEW m \in Nat
  PROVE  \A n \in Nat : Ten(m + n) = Ten(m) * Ten(n) /\ Ten(m) <= Ten(m + n)
<1> DEFINE N == {n \in Nat : Ten(m + n) = Ten(m) * Ten(n) /\ Ten(m) <= Ten(m + n)}
<1>0. Ten(m) \in Nat
  BY Tens
<1>1. 0 \in N
  BY <1>0, Tens
<1>2. ASSUME NEW n \in Nat, n \in N PROVE n + 1 \in N
  <2>1. PICK a \in Nat, b \in Nat : a = Ten(m) /\ b = Ten(n)
    BY Tens
  <2>2. Ten(m + n) = a * b /\ a <= a * b
    BY <1>2, <2>1
  <2>3. Ten(n + 1) = 10 * b
    BY <2>1, Tens
  <2>4. m + n \in Nat /\ m + (n + 1) = (m + n) + 1
    OBVIOUS
  <2>5. Ten(m + (n + 1)) = 10 * (a * b)
    BY <2>2, <2>4, Tens
  <2>6. 10 * (a * b) = a * (10 * b) /\ a <= 10 * (a * b)
    <3>1. PICK c \in Nat : c = a * b
      OBVIOUS
    <3>2. 10 * c = a * (10 * b)
      BY <3>1
    <3> QED  BY <2>2, <3>1, <3>2
  <2>7. Ten(m + (n + 1)) = Ten(m) * Ten(n + 1) /\ Ten(m) <= Ten(m + (n + 1))
    BY <2>1, <2>3, <2>5, <2>6
  <2> QED  BY <2>7
<1> HIDE DEF N
<1>3. Nat \subseteq N
  BY <1>1, <1>2, InductiveSet
<1> QED  BY <1>3 DEF N

LEMMA TensGrow ==
  ASSUME NEW m \in Nat, NEW n \in Nat, m <= n
  PROVE  Ten(m) <= Ten(n)
<1>1. PICK j \in Nat : n = m + j
  <2>1. n - m \in Nat /\ n = m + (n - m)
    OBVIOUS
  <2> QED  BY <2>1
<1> QED  BY <1>1, TensMultiply

(* A number has its first digit's magnitude. *)
LEMMA Magnitude ==
  ASSUME NEW digits \in Seq(0..9), NEW v, Values(v, digits), digits # <<>>, digits[1] # 0
  PROVE  /\ v[Len(digits)] \in Nat
         /\ Ten(Len(digits) - 1) <= v[Len(digits)] /\ v[Len(digits)] < Ten(Len(digits))
<1>1. PICK n \in Nat : n = Len(digits) - 1
  <2>1. Len(digits) \in Nat /\ Len(digits) > 0
    OBVIOUS
  <2>2. Len(digits) - 1 \in Nat
    BY <2>1
  <2> QED  BY <2>2
<1>2. /\ Len(digits) = n + 1 /\ Len(digits) - 0 - 1 = n /\ Len(digits) - 0 = n + 1
      /\ 0 < Len(digits) /\ 0 + 1 = 1 /\ 1 \in 1..Len(digits)
  BY <1>1
<1>3. PICK c \in 1..9 : c = digits[1]
  <2>1. digits[1] \in 0..9
    BY <1>2
  <2>2. digits[1] \in 1..9
    BY <2>1
  <2> QED  BY <2>2
<1>4. PICK r \in 0..(Ten(n) - 1) : v[n + 1] = v[0] * Ten(n + 1) + c * Ten(n) + r
  <2>1. \E r \in 0..(Ten(Len(digits) - 0 - 1) - 1) :
           v[Len(digits)] =
             v[0] * Ten(Len(digits) - 0) + digits[0 + 1] * Ten(Len(digits) - 0 - 1) + r
    BY <1>2, LeadingDigit
  <2> QED  BY <1>2, <1>3, <2>1
<1>5. PICK e \in Nat : e = Ten(n) /\ Ten(n + 1) = 10 * e
  BY Tens
<1>6. v[0] = 0
  BY DEF Values
<1>7. v[n + 1] = c * e + r /\ r \in 0..(e - 1)
  <2>1. v[n + 1] = 0 * (10 * e) + c * e + r
    BY <1>4, <1>5, <1>6
  <2>2. r \in 0..(e - 1)
    BY <1>4, <1>5
  <2> QED  BY <1>3, <1>5, <2>1, <2>2
<1>8. c * e + r \in Nat /\ e <= c * e + r /\ c * e + r < 10 * e
  <2>1. r \in 0..(e - 1) /\ c \in 1..9 /\ e \in Nat
    BY <1>7
  <2>2. c * e \in Nat /\ e <= c * e /\ c * e <= 9 * e
    BY <2>1
  <2> QED  BY <2>1, <2>2
<1> QED  BY <1>2, <1>5, <1>7, <1>8

(* The first digit left out decides. *)
LEMMA RoundHalf ==
  ASSUME NEW a \in Nat, NEW t \in Nat \ {0}, NEW c \in 0..9, NEW r \in 0..(t - 1)
  PROVE  (2 * (a * (10 * t) + c * t + r) + 10 * t) \div (2 * (10 * t))
           = a + (IF c >= 5 THEN 1 ELSE 0)
<1>0. PICK x \in Nat, y \in Nat, b \in Nat \ {0} : x = a * t /\ y = c * t /\ b = 20 * t
  OBVIOUS
<1>1. a * (10 * t) = 10 * x /\ 2 * (10 * t) = b /\ a * b = 20 * x /\ (a + 1) * b = 20 * x + b
  BY <1>0
<1>2. 2 * (a * (10 * t) + c * t + r) + 10 * t = 20 * x + 2 * y + 2 * r + 10 * t
  BY <1>0, <1>1
<1>3. CASE c >= 5
  <2>1. 5 * t <= y /\ y <= 9 * t
    BY <1>0, <1>3
  <2>2. 2 * y + 2 * r - 10 * t \in 0..(b - 1)
    BY <1>0, <2>1
  <2>3. 2 * (a * (10 * t) + c * t + r) + 10 * t = (a + 1) * b + (2 * y + 2 * r - 10 * t)
    BY <1>0, <1>1, <1>2
  <2>4. a + 1 \in Nat
    OBVIOUS
  <2>5. ((a + 1) * b + (2 * y + 2 * r - 10 * t)) \div b = a + 1
    BY <2>2, <2>4, DivUnique
  <2> QED  BY <1>1, <1>3, <2>3, <2>5
<1>4. CASE ~(c >= 5)
  <2>1. y <= 4 * t
    BY <1>0, <1>4
  <2>2. 2 * y + 2 * r + 10 * t \in 0..(b - 1)
    BY <1>0, <2>1
  <2>3. 2 * (a * (10 * t) + c * t + r) + 10 * t = a * b + (2 * y + 2 * r + 10 * t)
    BY <1>0, <1>1, <1>2
  <2>4. (a * b + (2 * y + 2 * r + 10 * t)) \div b = a
    BY <2>2, DivUnique
  <2> QED  BY <1>1, <1>4, <2>3, <2>4
<1> QED  BY <1>3, <1>4

LEMMA AmountNearest ==
  ASSUME NEW d \in Costs!Decimals
  PROVE  /\ Costs!Nearest(d) \in Nat
         /\ Costs!Millionths(d) = IF Costs!Nearest(d) > Limit THEN Overflow ELSE Costs!Nearest(d)
<1> DEFINE digits == Costs!Significant(d)
           shift == Costs!Shift(d)
           kept == Len(digits) + shift
<1>1. /\ d.whole \in Seq(0..9) /\ d.fraction \in Seq(0..9) /\ d.exponent \in Int
      /\ DecimalPlaces \in Nat /\ LimitDigits \in Nat /\ Limit \in Nat /\ Limit < Ten(LimitDigits)
  <2>1. Costs!CostAssumption
    BY PartsAssumption
  <2>2. Costs!DigitStrings \subseteq Seq(0..9)
    <3>1. Digits \subseteq 0..9 /\ MaxDigits \in Nat
      BY <2>1 DEF Costs!CostAssumption
    <3>2. ASSUME NEW s \in Costs!DigitStrings PROVE s \in Seq(0..9)
      <4>1. PICK n \in 0..MaxDigits : s \in [1..n -> Digits]
        BY DEF Costs!DigitStrings
      <4>2. n \in Nat
        BY <3>1, <4>1
      <4>3. \A i \in 1..n : s[i] \in 0..9
        BY <3>1, <4>1
      <4>4. s \in [1..n -> 0..9]
        BY <4>1, <4>3
      <4> QED  BY <4>2, <4>4
    <3> QED  BY <3>2
  <2>3. d.whole \in Costs!DigitStrings /\ d.fraction \in Costs!DigitStrings
        /\ d.exponent \in (-MaxExponent)..MaxExponent
    BY DEF Costs!Decimals
  <2>4. d.exponent \in Int
    BY <2>1, <2>3 DEF Costs!CostAssumption
  <2>5. LimitDigits \in Nat /\ LimitDigits - 1 \in Nat /\ DecimalPlaces \in Nat
    BY <2>1 DEF Costs!CostAssumption
  <2>6. Limit \in Ten(LimitDigits - 1)..(Ten(LimitDigits) - 1)
    BY <2>1 DEF Costs!CostAssumption, Ten
  <2>7. Ten(LimitDigits - 1) \in Nat /\ Ten(LimitDigits) \in Nat
    BY <2>5, Tens
  <2> QED  BY <2>2, <2>3, <2>4, <2>5, <2>6, <2>7
<1>2. /\ digits \in Seq(0..9) /\ Costs!Number(digits) = Costs!Numerator(d)
      /\ digits # <<>> => digits[1] # 0
  BY <1>1, SignificantFacts
<1>3. shift \in Int
  BY <1>1 DEF Costs!Shift
<1>4. PICK v : Values(v, digits) /\ Costs!Number(digits) = v[Len(digits)]
  BY <1>2, NumberFacts
<1>5. Costs!Nearest(d) =
        (2 * v[Len(digits)] * Ten(IF shift > 0 THEN shift ELSE 0) + Ten(IF -shift > 0 THEN -shift ELSE 0))
          \div (2 * Ten(IF -shift > 0 THEN -shift ELSE 0))
  BY <1>2, <1>4 DEF Costs!Nearest, Costs!Power, Ten
<1>6. Costs!Millionths(d) =
        LET value == IF shift >= 0 THEN Costs!Number(digits) * Ten(shift)
                     ELSE Costs!Number(SubSeq(digits, 1, kept)) + Costs!Rounded(digits, kept)
        IN IF digits = <<>> THEN 0
           ELSE IF shift >= 0 /\ kept > LimitDigits THEN Overflow
           ELSE IF shift < 0 /\ kept < 0 THEN 0
           ELSE IF value > Limit THEN Overflow ELSE value
  BY DEF Costs!Millionths, Ten
<1> HIDE DEF digits, shift
<1>7. Len(digits) \in Nat
  BY <1>2
<1>8. CASE digits = <<>>
  <2>1. v[Len(digits)] = 0
    BY <1>4, <1>8 DEF Values
  <2>2. PICK up \in Nat, down \in Nat \ {0} :
          up = Ten(IF shift > 0 THEN shift ELSE 0) /\ down = Ten(IF -shift > 0 THEN -shift ELSE 0)
    <3>1. (IF shift > 0 THEN shift ELSE 0) \in Nat /\ (IF -shift > 0 THEN -shift ELSE 0) \in Nat
      BY <1>3
    <3> QED  BY <3>1, Tens
  <2>3. Costs!Nearest(d) = (2 * 0 * up + down) \div (2 * down)
    BY <1>5, <2>1, <2>2
  <2>4. 2 * 0 * up + down = 0 * (2 * down) + down /\ 2 * down \in Nat \ {0} /\ down \in 0..(2 * down - 1)
    OBVIOUS
  <2>5. (0 * (2 * down) + down) \div (2 * down) = 0
    BY <2>4, DivUnique
  <2>6. Costs!Nearest(d) = 0
    BY <2>3, <2>4, <2>5
  <2> QED  BY <1>1, <1>6, <1>8, <2>6
<1>9. CASE digits # <<>> /\ shift >= 0
  <2>1. shift \in Nat /\ (IF shift > 0 THEN shift ELSE 0) = shift /\ (IF -shift > 0 THEN -shift ELSE 0) = 0
    BY <1>3, <1>9
  <2>2. PICK n \in Nat, up \in Nat \ {0} : n = v[Len(digits)] /\ up = Ten(shift)
    BY <1>2, <1>4, <1>9, <2>1, Magnitude, Tens
  <2>3. PICK q \in Nat : q = n * up
    OBVIOUS
  <2>4. Costs!Nearest(d) = (2 * n * up + 1) \div (2 * 1)
    BY <1>5, <2>1, <2>2, Tens
  <2>5. 2 * n * up + 1 = q * 2 + 1
    BY <2>3
  <2>6. (q * 2 + 1) \div 2 = q
    <3>1. 1 \in 0..(2 - 1) /\ 2 \in Nat \ {0}
      OBVIOUS
    <3> QED  BY <3>1, DivUnique
  <2>7. Costs!Nearest(d) = q
    BY <2>4, <2>5, <2>6
  <2>8. ASSUME kept > LimitDigits PROVE q > Limit
    <3>1. Len(digits) - 1 \in Nat /\ LimitDigits <= (Len(digits) - 1) + shift
      BY <1>1, <1>2, <1>7, <1>9, <2>1, <2>8
    <3>2. PICK low \in Nat : low = Ten(Len(digits) - 1) /\ low <= n
      BY <1>2, <1>4, <1>9, <2>2, <3>1, Magnitude, Tens
    <3>3. Ten((Len(digits) - 1) + shift) = low * up
      BY <2>1, <2>2, <3>1, <3>2, TensMultiply
    <3>4. Ten(LimitDigits) <= low * up
      <4>1. (Len(digits) - 1) + shift \in Nat
        BY <2>1, <3>1
      <4> QED  BY <1>1, <3>1, <3>3, <4>1, TensGrow
    <3>5. low * up <= n * up
      BY <3>2
    <3>6. PICK b \in Nat : b = Ten(LimitDigits) /\ Limit < b
      BY <1>1, Tens
    <3>7. PICK a \in Nat : a = low * up
      OBVIOUS
    <3>8. b <= a /\ a <= q
      BY <2>3, <3>4, <3>5, <3>6, <3>7
    <3> QED  BY <1>1, <3>6, <3>8
  <2>9. Costs!Millionths(d) = IF kept > LimitDigits THEN Overflow ELSE IF q > Limit THEN Overflow ELSE q
    BY <1>3, <1>4, <1>6, <1>9, <2>2, <2>3
  <2> QED  BY <2>7, <2>8, <2>9
<1>10. CASE digits # <<>> /\ shift < 0
  <2>1. PICK m \in Nat \ {0} : m = -shift
    BY <1>3, <1>10
  <2>2. (IF shift > 0 THEN shift ELSE 0) = 0 /\ (IF -shift > 0 THEN -shift ELSE 0) = m
        /\ kept = Len(digits) - m /\ kept \in Int
    BY <1>3, <1>7, <1>10, <2>1
  <2>3. PICK n \in Nat, down \in Nat \ {0} : n = v[Len(digits)] /\ down = Ten(m)
    BY <1>2, <1>4, <1>10, Magnitude, Tens
  <2>4. Costs!Nearest(d) = (2 * n + down) \div (2 * down)
    <3>1. Costs!Nearest(d) = (2 * n * 1 + down) \div (2 * down)
      BY <1>5, <2>2, <2>3, Tens
    <3>2. 2 * n * 1 = 2 * n
      OBVIOUS
    <3> QED  BY <3>1, <3>2
  <2>5. CASE kept < 0
    <3>1. n < Ten(Len(digits)) /\ Ten(Len(digits)) \in Nat /\ Ten(Len(digits) + 1) = 10 * Ten(Len(digits))
      BY <1>2, <1>4, <1>7, <1>10, <2>3, Magnitude, Tens
    <3>2. Ten(Len(digits) + 1) <= down
      <4>1. Len(digits) + 1 \in Nat /\ Len(digits) + 1 <= m
        BY <1>7, <2>2, <2>5
      <4> QED  BY <2>3, <4>1, TensGrow
    <3>3. 2 * n + down = 0 * (2 * down) + (2 * n + down) /\ 2 * n + down \in 0..(2 * down - 1)
          /\ 2 * down \in Nat \ {0}
      BY <3>1, <3>2
    <3>4. (0 * (2 * down) + (2 * n + down)) \div (2 * down) = 0
      BY <3>3, DivUnique
    <3>5. Costs!Nearest(d) = 0
      BY <2>4, <3>3, <3>4
    <3>6. Costs!Millionths(d) = 0
      BY <1>3, <1>6, <1>10, <2>5
    <3> QED  BY <1>1, <3>5, <3>6
  <2>6. CASE kept >= 0
    <3>1. /\ kept \in Nat /\ kept < Len(digits) /\ kept \in 0..Len(digits) /\ kept + 1 \in 1..Len(digits)
          /\ Len(digits) - kept = m /\ Len(digits) - kept - 1 = m - 1 /\ m - 1 \in Nat /\ (m - 1) + 1 = m
      BY <1>7, <2>2, <2>6
    <3>2. PICK a \in Nat, c \in 0..9 : a = v[kept] /\ c = digits[kept + 1]
      <4>1. v[kept] \in Nat
        BY <1>4, <3>1 DEF Values
      <4>2. digits[kept + 1] \in 0..9
        BY <1>2, <3>1
      <4> QED  BY <4>1, <4>2
    <3>3. PICK t \in Nat \ {0} : t = Ten(m - 1) /\ down = 10 * t
      <4>1. Ten(m - 1) \in Nat \ {0} /\ Ten((m - 1) + 1) = 10 * Ten(m - 1)
        BY <3>1, Tens
      <4> QED  BY <2>3, <3>1, <4>1
    <3>4. PICK r \in 0..(t - 1) : n = a * (10 * t) + c * t + r
      <4>1. \E r \in 0..(Ten(Len(digits) - kept - 1) - 1) :
              v[Len(digits)] =
                v[kept] * Ten(Len(digits) - kept) + digits[kept + 1] * Ten(Len(digits) - kept - 1) + r
        BY <1>2, <1>4, <3>1, LeadingDigit
      <4> HIDE DEF kept
      <4> QED  BY <2>3, <3>1, <3>2, <3>3, <4>1
    <3>5. Costs!Nearest(d) = a + (IF c >= 5 THEN 1 ELSE 0)
      <4>1. Costs!Nearest(d) = (2 * (a * (10 * t) + c * t + r) + 10 * t) \div (2 * (10 * t))
        BY <2>4, <3>3, <3>4
      <4> QED  BY <4>1, RoundHalf
    <3>6. Costs!Number(SubSeq(digits, 1, kept)) = a /\ Costs!Rounded(digits, kept) = IF c >= 5 THEN 1 ELSE 0
      BY <1>2, <1>4, <3>1, <3>2, PrefixValue DEF Costs!Rounded
    <3>7. Costs!Millionths(d) = LET value == a + (IF c >= 5 THEN 1 ELSE 0)
                                IN IF value > Limit THEN Overflow ELSE value
      BY <1>3, <1>6, <1>10, <2>6, <3>1, <3>6
    <3> QED  BY <3>5, <3>7
  <2> QED  BY <2>2, <2>5, <2>6
<1> QED  BY <1>3, <1>8, <1>9, <1>10
-----------------------------------------------------------------------------
(* Shares of a cost *)

LEMMA SharesFit ==
  ASSUME NEW c \in Nat, NEW a \in Nat, NEW b \in Nat, NEW rest \in Nat, a + b + rest # 0
  PROVE  /\ (c * a) \div (a + b + rest) \in Nat /\ (c * b) \div (a + b + rest) \in Nat
         /\ (c * a) \div (a + b + rest) + (c * b) \div (a + b + rest) <= c
<1>1. PICK s \in Nat \ {0} : s = a + b + rest
  OBVIOUS
<1>2. PICK x \in Nat, y \in Nat : x = c * a /\ y = c * b
  OBVIOUS
<1>3. PICK p \in Int, i \in 0..(s - 1) : x \div s = p /\ x = s * p + i
  OBVIOUS
<1>4. PICK q \in Int, j \in 0..(s - 1) : y \div s = q /\ y = s * q + j
  OBVIOUS
<1>5. p >= 0
  <2>1. ASSUME p <= -1 PROVE FALSE
    <3>1. s * p <= -s
      BY <2>1
    <3> QED  BY <1>3, <3>1
  <2> QED  BY <2>1
<1>6. q >= 0
  <2>1. ASSUME q <= -1 PROVE FALSE
    <3>1. s * q <= -s
      BY <2>1
    <3> QED  BY <1>4, <3>1
  <2> QED  BY <2>1
<1>7. p + q <= c
  <2>1. ASSUME p + q >= c + 1 PROVE FALSE
    <3>1. s * (p + q) >= s * c + s
      <4>1. s * (p + q) >= s * (c + 1)
        BY <2>1
      <4> QED  BY <4>1
    <3>2. s * (p + q) <= x + y
      BY <1>3, <1>4
    <3>3. x + y <= s * c
      <4>1. c * rest >= 0 /\ s * c = c * a + c * b + c * rest
        BY <1>1
      <4> QED  BY <1>2, <4>1
    <3> QED  BY <3>1, <3>2, <3>3
  <2> QED  BY <2>1
<1> QED  BY <1>1, <1>2, <1>3, <1>4, <1>5, <1>6, <1>7

(* A cost and its parts. *)
CostParts == [in : Nat, out : Nat, rest : Nat, all : Nat]
Whole(row) ==
  /\ DOMAIN row = {"in", "out", "rest", "all"}
  /\ \A f \in DOMAIN row : row[f] \in Nat
  /\ row["in"] + row["out"] + row["rest"] = row["all"]

LEMMA SplitWhole ==
  ASSUME NEW c \in Nat, NEW bytes \in [in : Nat, out : Nat, rest : Nat]
  PROVE  Whole(Costs!Split(c, bytes)) /\ Costs!Split(c, bytes) \in CostParts
<1>1. PICK a \in Nat, b \in Nat, o \in Nat : a = bytes.in /\ b = bytes.out /\ o = bytes.rest
  OBVIOUS
<1>2. CASE a + b + o = 0
  <2>1. Costs!Split(c, bytes) = [in |-> 0, out |-> 0, rest |-> c, all |-> c]
    BY <1>1, <1>2 DEF Costs!Split
  <2> QED  BY <2>1 DEF Whole, CostParts
<1>3. CASE a + b + o # 0
  <2>1. PICK p \in Nat, q \in Nat : /\ p = (c * a) \div (a + b + o) /\ q = (c * b) \div (a + b + o)
                                    /\ p + q <= c
    BY <1>3, SharesFit
  <2>2. Costs!Split(c, bytes) = [in |-> p, out |-> q, rest |-> c - p - q, all |-> c]
    BY <1>1, <1>3, <2>1 DEF Costs!Split
  <2>3. c - p - q \in Nat /\ p + q + (c - p - q) = c
    BY <2>1
  <2> QED  BY <2>2, <2>3 DEF Whole, CostParts
<1> QED  BY <1>2, <1>3

LEMMA PlusWhole ==
  ASSUME NEW sum, sum = Overflow \/ Whole(sum), NEW row, Whole(row),
         NEW new, new = Costs!Plus(sum, row)
  PROVE  new = Overflow \/ Whole(new)
<1>1. CASE new = Overflow
  BY <1>1
<1>2. CASE new # Overflow
  <2>1. sum # Overflow /\ new = [f \in DOMAIN row |-> sum[f] + row[f]]
    BY <1>2 DEF Costs!Plus
  <2>2. /\ DOMAIN new = {"in", "out", "rest", "all"} /\ DOMAIN row = {"in", "out", "rest", "all"}
        /\ \A f \in DOMAIN new : new[f] = sum[f] + row[f] /\ sum[f] \in Nat /\ row[f] \in Nat
        /\ sum["in"] + sum["out"] + sum["rest"] = sum["all"]
        /\ row["in"] + row["out"] + row["rest"] = row["all"]
    BY <2>1 DEF Whole
  <2>3. \A f \in DOMAIN new : new[f] \in Nat
    BY <2>2
  <2>4. new["in"] + new["out"] + new["rest"] = new["all"]
    BY <2>2
  <2> QED  BY <2>2, <2>3, <2>4 DEF Whole
<1> QED  BY <1>1, <1>2

CostsInv ==
  /\ reported \in Costs!Decimals /\ amount = Costs!Millionths(reported)
  /\ rows \in Seq(CostParts) /\ \A i \in DOMAIN rows : Whole(rows[i])
  /\ total = Overflow \/ Whole(total)

LEMMA CostsInit == Costs!Init => CostsInv
<1> SUFFICES ASSUME Costs!Init PROVE CostsInv
  OBVIOUS
<1>1. total = [in |-> 0, out |-> 0, rest |-> 0, all |-> 0] /\ rows = <<>>
  BY DEF Costs!Init, Costs!Zero
<1>2. Whole(total)
  BY <1>1 DEF Whole
<1>3. rows \in Seq(CostParts) /\ \A i \in DOMAIN rows : Whole(rows[i])
  BY <1>1
<1> QED  BY <1>2, <1>3 DEF Costs!Init, CostsInv

LEMMA CostsStep == CostsInv /\ [Costs!Next]_costVars => CostsInv'
<1> SUFFICES ASSUME CostsInv, [Costs!Next]_costVars PROVE CostsInv'
  OBVIOUS
<1>1. CASE UNCHANGED costVars
  BY <1>1 DEF CostsInv, costVars
<1>2. CASE Costs!Next
  <2>1. PICK bytes \in [in : Counts, out : Counts, rest : Counts] :
          /\ amount # Overflow
          /\ rows' = Append(rows, Costs!Split(amount, bytes))
          /\ total' = Costs!Plus(total, Costs!Split(amount, bytes))
          /\ reported' \in Costs!Decimals /\ amount' = Costs!Millionths(reported')
    BY <1>2 DEF Costs!Next, Costs!MapRow
  <2>2. amount \in Nat
    BY <2>1, AmountNearest DEF CostsInv
  <2>3. Counts \subseteq Nat
    BY PartsAssumption DEF Costs!CostAssumption
  <2>4. bytes \in [in : Nat, out : Nat, rest : Nat]
    BY <2>3
  <2>5. PICK row \in CostParts : row = Costs!Split(amount, bytes) /\ Whole(row)
    BY <2>2, <2>4, SplitWhole
  <2>6. rows' \in Seq(CostParts) /\ \A i \in DOMAIN rows' : Whole(rows'[i])
    <3>1. rows' = Append(rows, row) /\ rows \in Seq(CostParts)
      BY <2>1, <2>5 DEF CostsInv
    <3>2. rows' \in Seq(CostParts)
      BY <3>1
    <3>3. ASSUME NEW i \in DOMAIN rows' PROVE Whole(rows'[i])
      <4>1. (i \in DOMAIN rows /\ rows'[i] = rows[i]) \/ rows'[i] = row
        BY <3>1
      <4> QED  BY <2>5, <4>1 DEF CostsInv
    <3> QED  BY <3>2, <3>3
  <2>7. total' = Overflow \/ Whole(total')
    <3>1. total' = Costs!Plus(total, row)
      BY <2>1, <2>5
    <3>2. PICK new : new = total'
      OBVIOUS
    <3>3. new = Overflow \/ Whole(new)
      BY <2>5, <3>1, <3>2, PlusWhole DEF CostsInv
    <3> QED  BY <3>2, <3>3
  <2>8. reported' \in Costs!Decimals /\ (amount = Costs!Millionths(reported))'
    BY <2>1
  <2> QED  BY <2>6, <2>7, <2>8 DEF CostsInv
<1> QED  BY <1>1, <1>2

LEMMA CostsRight == CostsInv => Costs!NearestUnit /\ Costs!PartsMakeCost
<1> SUFFICES ASSUME CostsInv PROVE Costs!NearestUnit /\ Costs!PartsMakeCost
  OBVIOUS
<1>1. Costs!NearestUnit
  BY AmountNearest DEF CostsInv, Costs!NearestUnit
<1>2. ASSUME NEW i \in DOMAIN rows
      PROVE  rows[i].rest >= 0 /\ rows[i].in + rows[i].out + rows[i].rest = rows[i].all
  <2>1. Whole(rows[i])
    BY DEF CostsInv
  <2> QED  BY <2>1 DEF Whole
<1>3. ASSUME total # Overflow PROVE total.in + total.out + total.rest = total.all
  BY <1>3 DEF CostsInv, Whole
<1> QED  BY <1>1, <1>2, <1>3 DEF Costs!PartsMakeCost

-----------------------------------------------------------------------------
(* Counting *)

LEMMA OneToOne ==
  ASSUME NEW S, IsFiniteSet(S), NEW T, NEW f \in [S -> T],
         \A a, b \in S : f[a] = f[b] => a = b, \A t \in T : \E s \in S : f[s] = t
  PROVE  Cardinality(T) = Cardinality(S)
<1>1. f \in Injection(S, T)
  BY DEF Injection, IsInjective
<1>a. f \in Surjection(S, T)
  BY DEF Surjection
<1>2. ExistsBijection(S, T)
  BY <1>1, <1>a DEF ExistsBijection, Bijection
<1> QED  BY <1>2, FS_Bijection

LEMMA PartsOfInterval ==
  ASSUME NEW n \in Nat, NEW S, S \subseteq 1..n
  PROVE  IsFiniteSet(S) /\ Cardinality(S) \in Nat /\ Cardinality((1..n) \ S) + Cardinality(S) = n
<1>1. IsFiniteSet(1..n) /\ Cardinality(1..n) = n
  BY FS_Interval
<1> DEFINE R == (1..n) \ S
<1>2. IsFiniteSet(S) /\ IsFiniteSet(R)
  BY <1>1, FS_Subset
<1>3. S \cap R = {} /\ S \cup R = 1..n
  OBVIOUS
<1> HIDE DEF R
<1>4. Cardinality(S) \in Nat /\ Cardinality(R) \in Nat
  BY <1>2, FS_CardinalityType
<1>5. Cardinality(S \cap R) = 0
  BY <1>3, FS_EmptySet
<1>6. Cardinality(S \cup R) = Cardinality(S) + Cardinality(R) - Cardinality(S \cap R)
  BY <1>2, FS_Union
<1>7. Cardinality(R) + Cardinality(S) = n
  <2>1. Cardinality(S \cup R) = n
    BY <1>1, <1>3
  <2>2. PICK a \in Nat, b \in Nat : a = Cardinality(S) /\ b = Cardinality(R)
    BY <1>4
  <2>3. n = a + b - 0
    BY <1>5, <1>6, <2>1, <2>2
  <2> QED  BY <2>2, <2>3
<1> QED  BY <1>2, <1>4, <1>7 DEF R

Outcomes == [url : Urls, page : DOMAIN Pages \cup {None}]

LEMMA FetchConstants ==
  /\ BatchSize \in Nat \ {0} /\ ErrorSize \in Nat \ {0} /\ Budget \in Nat
  /\ \A page \in DOMAIN Pages : Pages[page] \in Nat
  /\ None \notin DOMAIN Pages /\ MaxUrls \in Nat
BY PartsAssumption DEF Batches!FetchAssumption

Has(seq) == {i \in DOMAIN seq : seq[i].page # None}

LEMMA DeliveredCount ==
  ASSUME NEW s \in Seq(Outcomes)
  PROVE  /\ Batches!Delivered(s) = Cardinality(Has(s))
         /\ IsFiniteSet(Has(s)) /\ Cardinality(Has(s)) \in Nat
         /\ Batches!Refund(s) \in Nat /\ Batches!Refund(s) + Cardinality(Has(s)) = Len(s)
<1>1. Len(s) \in Nat /\ DOMAIN s = 1..Len(s) /\ Has(s) \subseteq 1..Len(s)
  BY DEF Has
<1> DEFINE lost == {i \in DOMAIN s : s[i].page = None}
<1>2. lost = (1..Len(s)) \ Has(s) /\ Has(s) = (1..Len(s)) \ lost /\ lost \subseteq 1..Len(s)
  BY <1>1 DEF Has
<1>3. Batches!Refund(s) = Cardinality(lost) /\ Batches!Delivered(s) = Cardinality(Has(s))
  BY DEF Batches!Refund, Batches!Delivered, Batches!Cardinality, Cardinality, Has
<1> HIDE DEF lost
<1>4. Cardinality(lost) \in Nat
  BY <1>1, <1>2, PartsOfInterval
<1> QED  BY <1>1, <1>2, <1>3, <1>4, PartsOfInterval

(* What two answers delivered is what the joint one does. *)
LEMMA DeliveredJoint ==
  ASSUME NEW s \in Seq(Outcomes), NEW t \in Seq(Outcomes)
  PROVE  Batches!Delivered(s \o t) = Batches!Delivered(s) + Batches!Delivered(t)
<1> DEFINE m == Len(s)
           u == s \o t
           moved == {m + i : i \in Has(t)}
           f == [i \in Has(t) |-> m + i]
<1>1. /\ m \in Nat /\ u \in Seq(Outcomes) /\ DOMAIN s = 1..m /\ DOMAIN t = 1..Len(t) /\ Len(t) \in Nat
      /\ DOMAIN u = 1..(m + Len(t))
      /\ \A i \in 1..m : u[i] = s[i]
      /\ \A i \in 1..Len(t) : u[m + i] = t[i]
  OBVIOUS
<1> HIDE DEF m, u
<1>2. Has(s) \subseteq 1..m /\ Has(t) \subseteq 1..Len(t)
  BY <1>1 DEF Has
<1>3. Has(u) = Has(s) \cup moved
  <2>1. ASSUME NEW i \in Has(u) PROVE i \in Has(s) \cup moved
    <3>1. i \in 1..(m + Len(t)) /\ u[i].page # None
      BY <1>1 DEF Has
    <3>2. CASE i <= m
      <4>1. i \in 1..m
        BY <1>1, <3>1, <3>2
      <4> QED  BY <1>1, <3>1, <4>1 DEF Has
    <3>3. CASE i > m
      <4>1. i - m \in 1..Len(t) /\ m + (i - m) = i
        BY <1>1, <3>1, <3>3
      <4>2. u[i] = t[i - m]
        BY <1>1, <4>1
      <4>3. i - m \in Has(t)
        BY <1>1, <3>1, <4>1, <4>2 DEF Has
      <4> QED  BY <4>1, <4>3
    <3> QED  BY <1>1, <3>1, <3>2, <3>3
  <2>2. ASSUME NEW i \in Has(s) PROVE i \in Has(u)
    <3>1. i \in 1..m /\ s[i].page # None /\ i \in 1..(m + Len(t))
      BY <1>1 DEF Has
    <3> QED  BY <1>1, <3>1 DEF Has
  <2>3. ASSUME NEW i \in Has(t) PROVE m + i \in Has(u)
    <3>1. i \in 1..Len(t) /\ t[i].page # None /\ m + i \in 1..(m + Len(t))
      BY <1>1 DEF Has
    <3> QED  BY <1>1, <3>1 DEF Has
  <2> QED  BY <2>1, <2>2, <2>3
<1>4. Has(s) \cap moved = {}
  BY <1>1, <1>2
<1>5. IsFiniteSet(Has(s)) /\ IsFiniteSet(Has(t)) /\ Cardinality(Has(s)) \in Nat /\ Cardinality(Has(t)) \in Nat
  BY DeliveredCount
<1>6. f \in [Has(t) -> moved] /\ (\A a, b \in Has(t) : f[a] = f[b] => a = b)
      /\ \A x \in moved : \E a \in Has(t) : f[a] = x
  BY <1>1, <1>2
<1>7. Cardinality(moved) = Cardinality(Has(t)) /\ IsFiniteSet(moved)
  <2>1. moved \in SUBSET (1..(m + Len(t)))
    BY <1>1, <1>2
  <2> HIDE DEF f, moved
  <2>2. Cardinality(moved) = Cardinality(Has(t))
    BY <1>5, <1>6, OneToOne
  <2>3. m + Len(t) \in Nat
    BY <1>1
  <2> QED  BY <2>1, <2>2, <2>3, PartsOfInterval
<1> HIDE DEF moved
<1>8. Cardinality(Has(s) \cup moved) = Cardinality(Has(s)) + Cardinality(moved) - Cardinality(Has(s) \cap moved)
  BY <1>5, <1>7, FS_Union
<1>9. Cardinality(Has(s) \cap moved) = 0
  BY <1>4, FS_EmptySet
<1>10. Batches!Delivered(u) = Cardinality(Has(s)) + Cardinality(Has(t))
  <2>1. Batches!Delivered(u) = Cardinality(Has(s) \cup moved)
    BY <1>1, <1>3, DeliveredCount
  <2>2. PICK a \in Nat, b \in Nat : a = Cardinality(Has(s)) /\ b = Cardinality(Has(t))
    BY <1>5
  <2>3. Batches!Delivered(u) = a + b - 0
    BY <1>7, <1>8, <1>9, <2>1, <2>2
  <2> QED  BY <2>2, <2>3
<1> QED  BY <1>10, DeliveredCount DEF u

-----------------------------------------------------------------------------
(* Outcomes and their places *)

LEMMA OccurrencesDiffer ==
  ASSUME NEW n \in Nat, NEW s, NEW i \in 1..n, NEW j \in 1..n,
         s[i] = s[j], Batches!Occurrence(s, i) = Batches!Occurrence(s, j)
  PROVE  i = j
<1> DEFINE Upto(k) == {l \in 1..k : s[l] = s[k]}
<1>1. ASSUME NEW a \in 1..n, NEW b \in 1..n, s[a] = s[b], a < b,
             Batches!Occurrence(s, a) = Batches!Occurrence(s, b)
      PROVE  FALSE
  <2>1. Cardinality(Upto(a)) = Cardinality(Upto(b))
    BY <1>1 DEF Batches!Occurrence, Batches!Cardinality, Cardinality
  <2>2. IsFiniteSet(Upto(b)) /\ Upto(a) \in SUBSET Upto(b)
    <3>1. Upto(b) \subseteq 1..b /\ b \in Nat
      OBVIOUS
    <3>2. Upto(a) \in SUBSET Upto(b)
      BY <1>1
    <3> HIDE DEF Upto
    <3> QED  BY <3>1, <3>2, PartsOfInterval
  <2>3. b \in Upto(b) /\ b \notin Upto(a)
    BY <1>1
  <2> HIDE DEF Upto
  <2> QED  BY <2>1, <2>2, <2>3, FS_Subset
<1>2. i < j \/ j < i \/ i = j
  OBVIOUS
<1> QED  BY <1>1, <1>2

LEMMA PlacedWell ==
  ASSUME NEW reply \in Seq(Outcomes), Batches!Batch \in Seq(Urls)
  PROVE  /\ Batches!Placed(reply) \in Seq(Outcomes)
         /\ Len(Batches!Placed(reply)) = Len(Batches!Batch)
         /\ \A i \in DOMAIN Batches!Batch : Batches!Placed(reply)[i].url = Batches!Batch[i]
<1> DEFINE n == Len(Batches!Batch)
           Outcome(i) == IF Batches!For(i, reply) # {} THEN reply[CHOOSE k \in Batches!For(i, reply) : TRUE]
                         ELSE [url |-> Batches!Batch[i], page |-> None]
<1>1. n \in Nat /\ DOMAIN Batches!Batch = 1..n /\ \A i \in 1..n : Batches!Batch[i] \in Urls
  <2>1. PICK b \in Seq(Urls) : b = Batches!Batch
    OBVIOUS
  <2>2. Len(b) \in Nat /\ DOMAIN b = 1..Len(b) /\ \A i \in 1..Len(b) : b[i] \in Urls
    OBVIOUS
  <2> QED  BY <2>1, <2>2
<1>2. ASSUME NEW i \in 1..n PROVE Outcome(i) \in Outcomes /\ Outcome(i).url = Batches!Batch[i]
  <2>1. CASE Batches!For(i, reply) # {}
    <3>1. PICK k : k = CHOOSE l \in Batches!For(i, reply) : TRUE
      OBVIOUS
    <3>2. k \in Batches!For(i, reply) /\ Outcome(i) = reply[k]
      BY <2>1, <3>1
    <3>3. k \in DOMAIN reply /\ reply[k].url = Batches!Batch[i]
      BY <3>2 DEF Batches!For
    <3>4. reply[k] \in Outcomes
      BY <3>3
    <3> QED  BY <3>2, <3>3, <3>4
  <2>2. CASE Batches!For(i, reply) = {}
    <3>1. Outcome(i) = [url |-> Batches!Batch[i], page |-> None]
      BY <2>2
    <3> QED  BY <1>1, <3>1 DEF Outcomes
  <2> QED  BY <2>1, <2>2
<1>3. Batches!Placed(reply) = [i \in 1..n |-> Outcome(i)]
  BY <1>1 DEF Batches!Placed
<1> HIDE DEF n, Outcome
<1>4. Batches!Placed(reply) \in [1..n -> Outcomes]
  BY <1>2, <1>3
<1>5. PICK p \in [1..n -> Outcomes] : p = Batches!Placed(reply)
  BY <1>4
<1>6. p \in Seq(Outcomes) /\ Len(p) = n
  BY <1>1
<1>7. \A i \in 1..n : p[i].url = Batches!Batch[i]
  BY <1>2, <1>3, <1>5
<1> QED  BY <1>1, <1>5, <1>6, <1>7 DEF n

(* Each page of the reply has its place. *)
LEMMA AllPlaced ==
  ASSUME NEW reply \in Seq(Outcomes), Batches!Batch \in Seq(Urls), ~Batches!Unrequested(reply)
  PROVE  Batches!Delivered(Batches!Placed(reply)) = Batches!Delivered(reply)
<1> DEFINE For(i) == Batches!For(i, reply)
           n == Len(Batches!Batch)
           placed == Batches!Placed(reply)
<1>1. n \in Nat /\ DOMAIN Batches!Batch = 1..n /\ Len(reply) \in Nat /\ DOMAIN reply = 1..Len(reply)
  <2>1. PICK b \in Seq(Urls) : b = Batches!Batch
    OBVIOUS
  <2>2. Len(b) \in Nat /\ DOMAIN b = 1..Len(b)
    OBVIOUS
  <2> QED  BY <2>1, <2>2
<1>2. ASSUME NEW i \in 1..n, NEW k \in For(i), NEW l \in For(i) PROVE k = l
  <2>1. /\ k \in 1..Len(reply) /\ l \in 1..Len(reply) /\ reply[k].url = reply[l].url
        /\ Batches!Occurrence(Batches!Addresses(reply), k) = Batches!Occurrence(Batches!Addresses(reply), l)
    BY <1>1 DEF Batches!For
  <2>2. Batches!Addresses(reply)[k] = Batches!Addresses(reply)[l]
    BY <1>1, <2>1 DEF Batches!Addresses
  <2> QED  BY <1>1, <2>1, <2>2, OccurrencesDiffer
<1>3. ASSUME NEW i \in 1..n, NEW j \in 1..n, NEW k \in For(i), k \in For(j) PROVE i = j
  <2>1. /\ Batches!Batch[i] = Batches!Batch[j]
        /\ Batches!Occurrence(Batches!Batch, i) = Batches!Occurrence(Batches!Batch, j)
    BY <1>3 DEF Batches!For
  <2> QED  BY <1>1, <2>1, OccurrencesDiffer
<1>4. ASSUME NEW k \in 1..Len(reply) PROVE \E i \in 1..n : k \in For(i)
  BY <1>1 DEF Batches!Unrequested
<1>5. ASSUME NEW i \in 1..n, NEW k \in For(i) PROVE placed[i] = reply[k] /\ k \in 1..Len(reply)
  <2>1. For(i) # {}
    OBVIOUS
  <2>2. placed[i] = reply[CHOOSE l \in For(i) : TRUE]
    BY <1>1, <2>1 DEF Batches!Placed
  <2>3. (CHOOSE l \in For(i) : TRUE) \in For(i)
    BY <2>1
  <2>4. k \in 1..Len(reply)
    BY <1>1 DEF Batches!For
  <2> QED  BY <1>2, <2>2, <2>3, <2>4
<1>6. ASSUME NEW i \in 1..n, For(i) = {} PROVE placed[i].page = None
  BY <1>1, <1>6 DEF Batches!Placed
<1>7. placed \in Seq(Outcomes) /\ DOMAIN placed = 1..n
  <2>1. PICK p \in Seq(Outcomes) : p = placed /\ Len(p) = n
    BY PlacedWell
  <2> QED  BY <2>1
<1> HIDE DEF For, n, placed
<1> DEFINE f == [k \in Has(reply) |-> CHOOSE i \in 1..n : k \in For(i)]
<1>8. ASSUME NEW k \in Has(reply) PROVE k \in 1..Len(reply) /\ f[k] \in 1..n /\ k \in For(f[k]) /\ f[k] \in Has(placed)
  <2>1. k \in 1..Len(reply) /\ reply[k].page # None
    BY <1>1 DEF Has
  <2>2. f[k] \in 1..n /\ k \in For(f[k])
    BY <1>4, <2>1
  <2> HIDE DEF f
  <2>3. placed[f[k]] = reply[k]
    BY <1>5, <2>2
  <2> QED  BY <1>7, <2>1, <2>2, <2>3 DEF Has
<1>9. f \in [Has(reply) -> Has(placed)]
  BY <1>8
<1> HIDE DEF f
<1>10. ASSUME NEW k \in Has(reply), NEW l \in Has(reply), f[k] = f[l] PROVE k = l
  BY <1>2, <1>8, <1>10
<1>11. ASSUME NEW i \in Has(placed) PROVE \E k \in Has(reply) : f[k] = i
  <2>1. i \in 1..n /\ placed[i].page # None
    BY <1>7 DEF Has
  <2>2. PICK k \in For(i) : TRUE
    BY <1>6, <2>1
  <2>3. placed[i] = reply[k] /\ k \in 1..Len(reply)
    BY <1>5, <2>1, <2>2
  <2>4. k \in Has(reply)
    BY <1>1, <2>1, <2>3 DEF Has
  <2> QED  BY <1>3, <1>8, <2>1, <2>2, <2>4
<1>12. IsFiniteSet(Has(reply))
  BY DeliveredCount
<1>13. Cardinality(Has(placed)) = Cardinality(Has(reply))
  BY <1>9, <1>10, <1>11, <1>12, OneToOne
<1> QED  BY <1>7, <1>13, DeliveredCount DEF placed
-----------------------------------------------------------------------------
(* The size of an answer *)

LEMMA EncodedSize ==
  ASSUME NEW item \in Outcomes
  PROVE  Batches!Encoded(item) \in Nat
<1>1. item.page \in DOMAIN Pages \/ item.page = None
  BY DEF Outcomes
<1> QED  BY <1>1, FetchConstants DEF Batches!Encoded

Apart(n) == IF n = 0 THEN 0 ELSE 1

(* e[n] is the size of the first n items. *)
Sizes(e, seq, before) ==
  /\ e \in [0..Len(seq) -> Nat]
  /\ e[0] = before
  /\ \A n \in 1..Len(seq) : e[n] = e[n - 1] + Batches!Encoded(seq[n]) + Apart(e[n - 1])

LEMMA EncodingsFacts ==
  ASSUME NEW seq \in Seq(Outcomes), NEW before \in Nat
  PROVE  \E e : Sizes(e, seq, before) /\ Batches!Encodings(seq, before) = e[Len(seq)]
<1> DEFINE n == Len(seq)
           code(i) == Batches!Encoded(seq[i])
           step == [x \in Nat \X Nat |-> IF x[2] \in 1..n THEN x[1] + code(x[2]) + Apart(x[1]) ELSE 0]
           Value(e) == e = [i \in 0..n |-> IF i = 0 THEN before ELSE e[i - 1] + code(i) + Apart(e[i - 1])]
           value == CHOOSE e : Value(e)
<1>0. n \in Nat /\ \A i \in 1..n : code(i) \in Nat
  <2>1. \A i \in 1..n : seq[i] \in Outcomes
    OBVIOUS
  <2> QED  BY <2>1, EncodedSize
<1>a. Batches!Encodings(seq, before) = value[n]
  BY DEF Batches!Encodings, Apart
<1> HIDE DEF n, code
<1>b. \A x \in Nat : Apart(x) \in Nat
  BY DEF Apart
<1>1. step \in [Nat \X Nat -> Nat]
      /\ \A a \in Nat : \A i \in 1..n : step[<<a, i>>] = a + code(i) + Apart(a)
  <2>1. ASSUME NEW x \in Nat \X Nat
        PROVE  (IF x[2] \in 1..n THEN x[1] + code(x[2]) + Apart(x[1]) ELSE 0) \in Nat
    <3>1. x[1] \in Nat /\ Apart(x[1]) \in Nat /\ (x[2] \in 1..n => code(x[2]) \in Nat)
      BY <1>0, <1>b
    <3> QED  BY <3>1
  <2>2. step \in [Nat \X Nat -> Nat]
    BY <2>1
  <2>3. ASSUME NEW a \in Nat, NEW i \in 1..n PROVE step[<<a, i>>] = a + code(i) + Apart(a)
    BY <1>0
  <2> QED  BY <2>2, <2>3
<1> HIDE DEF step
<1>2. PICK f \in [0..n -> Nat] : Steps(f, before, step, n)
  BY <1>0, <1>1, StepsExist
<1>3. ASSUME NEW i \in 0..n PROVE f[i] = IF i = 0 THEN before ELSE f[i - 1] + code(i) + Apart(f[i - 1])
  <2>1. CASE i = 0
    BY <1>2, <2>1 DEF Steps
  <2>2. CASE i # 0
    <3>1. i \in 1..n /\ i - 1 \in 0..n
      BY <1>0, <2>2
    <3> QED  BY <1>1, <1>2, <2>2, <3>1 DEF Steps
  <2> QED  BY <2>1, <2>2
<1>4. Value(f)
  <2>1. f = [i \in 0..n |-> f[i]]
    OBVIOUS
  <2> QED  BY <1>3, <2>1
<1>5. Value(value)
  BY <1>4
<1> HIDE DEF value
<1>6. value = [i \in 0..n |-> value[i]]
  BY <1>5
<1>7. \A i \in 0..n : value[i] = IF i = 0 THEN before ELSE value[i - 1] + code(i) + Apart(value[i - 1])
  BY <1>5
<1> DEFINE N == {i \in Nat : i <= n => value[i] \in Nat}
<1>8. 0 \in N
  BY <1>0, <1>7
<1>9. ASSUME NEW i \in Nat, i \in N PROVE i + 1 \in N
  <2>1. SUFFICES ASSUME i + 1 <= n PROVE value[i + 1] \in Nat
    OBVIOUS
  <2>2. i + 1 \in 0..n /\ i + 1 \in 1..n /\ i + 1 # 0 /\ (i + 1) - 1 = i /\ value[i] \in Nat
    BY <1>0, <1>9, <2>1
  <2>3. value[i + 1] = value[i] + code(i + 1) + Apart(value[i])
    BY <1>7, <2>2
  <2>4. PICK a \in Nat, b \in Nat, c \in Nat : a = value[i] /\ b = code(i + 1) /\ c = Apart(value[i])
    BY <1>0, <1>b, <2>2
  <2> QED  BY <2>3, <2>4
<1> HIDE DEF N
<1>10. Nat \subseteq N
  BY <1>8, <1>9, InductiveSet
<1>11. \A i \in 0..n : value[i] \in Nat
  BY <1>0, <1>10 DEF N
<1>12. value \in [0..n -> Nat]
  BY <1>6, <1>11
<1>13. value[0] = before /\ \A i \in 1..n : value[i] = value[i - 1] + code(i) + Apart(value[i - 1])
  BY <1>0, <1>7
<1>14. Sizes(value, seq, before)
  BY <1>12, <1>13 DEF Sizes, n, code
<1> QED  BY <1>a, <1>14 DEF n

LEMMA EncodingsJoint ==
  ASSUME NEW s \in Seq(Outcomes), NEW t \in Seq(Outcomes)
  PROVE  /\ Batches!Encodings(s, 0) \in Nat
         /\ Batches!Encodings(s \o t, 0) = Batches!Encodings(t, Batches!Encodings(s, 0))
<1> DEFINE m == Len(s)
           u == s \o t
<1>1. /\ m \in Nat /\ u \in Seq(Outcomes) /\ Len(t) \in Nat /\ Len(u) = m + Len(t)
      /\ \A i \in 1..m : u[i] = s[i]
      /\ \A i \in 1..Len(t) : u[m + i] = t[i]
  OBVIOUS
<1> HIDE DEF u
<1>2. PICK e : Sizes(e, s, 0) /\ Batches!Encodings(s, 0) = e[m]
  BY EncodingsFacts
<1>3. e[m] \in Nat
  <2>1. e \in [0..m -> Nat] /\ m \in 0..m
    BY <1>1, <1>2 DEF Sizes
  <2> QED  BY <2>1
<1>4. PICK f : Sizes(f, t, e[m]) /\ Batches!Encodings(t, e[m]) = f[Len(t)]
  BY <1>3, EncodingsFacts
<1>5. PICK g : Sizes(g, u, 0) /\ Batches!Encodings(u, 0) = g[Len(u)]
  BY <1>1, EncodingsFacts
<1> HIDE DEF m
<1> DEFINE N == {i \in Nat : i <= m => g[i] = e[i]}
<1>6. 0 \in N
  BY <1>2, <1>5 DEF Sizes
<1>7. ASSUME NEW i \in Nat, i \in N PROVE i + 1 \in N
  <2>1. SUFFICES ASSUME i + 1 <= m PROVE g[i + 1] = e[i + 1]
    OBVIOUS
  <2>2. i + 1 \in 1..m /\ i + 1 \in 1..Len(u) /\ (i + 1) - 1 = i /\ g[i] = e[i]
    <3>1. i <= m
      BY <1>1, <2>1
    <3>2. g[i] = e[i]
      BY <1>7, <3>1
    <3>3. i + 1 \in 1..m /\ i + 1 <= Len(u)
      BY <1>1, <2>1
    <3>4. i + 1 \in 1..Len(u)
      BY <1>1, <3>3
    <3> QED  BY <3>2, <3>3, <3>4
  <2>3. e[i + 1] = e[(i + 1) - 1] + Batches!Encoded(s[i + 1]) + Apart(e[(i + 1) - 1])
    BY <1>2, <2>2 DEF Sizes, m
  <2>4. g[i + 1] = g[(i + 1) - 1] + Batches!Encoded(u[i + 1]) + Apart(g[(i + 1) - 1])
    BY <1>5, <2>2 DEF Sizes
  <2>5. u[i + 1] = s[i + 1]
    BY <1>1, <2>2
  <2> QED  BY <2>2, <2>3, <2>4, <2>5
<1> HIDE DEF N
<1>8. g[m] = e[m]
  <2>1. Nat \subseteq N
    BY <1>6, <1>7, InductiveSet
  <2> QED  BY <1>1, <2>1 DEF N
<1> DEFINE M == {i \in Nat : i <= Len(t) => g[m + i] = f[i]}
<1>9. 0 \in M
  BY <1>1, <1>4, <1>8 DEF Sizes
<1>10. ASSUME NEW i \in Nat, i \in M PROVE i + 1 \in M
  <2>1. SUFFICES ASSUME i + 1 <= Len(t) PROVE g[m + (i + 1)] = f[i + 1]
    OBVIOUS
  <2>2. /\ i + 1 \in 1..Len(t) /\ m + (i + 1) \in 1..Len(u) /\ (i + 1) - 1 = i
        /\ (m + (i + 1)) - 1 = m + i /\ g[m + i] = f[i]
    BY <1>1, <1>10, <2>1
  <2>3. f[i + 1] = f[(i + 1) - 1] + Batches!Encoded(t[i + 1]) + Apart(f[(i + 1) - 1])
    BY <1>4, <2>2 DEF Sizes
  <2>4. g[m + (i + 1)] = g[(m + (i + 1)) - 1] + Batches!Encoded(u[m + (i + 1)]) + Apart(g[(m + (i + 1)) - 1])
    BY <1>5, <2>2 DEF Sizes
  <2>5. u[m + (i + 1)] = t[i + 1]
    BY <1>1, <2>2
  <2> QED  BY <2>2, <2>3, <2>4, <2>5
<1> HIDE DEF M
<1>11. g[m + Len(t)] = f[Len(t)]
  <2>1. Nat \subseteq M
    BY <1>9, <1>10, InductiveSet
  <2> QED  BY <1>1, <2>1 DEF M
<1>12. Batches!Encodings(u, 0) = Batches!Encodings(t, Batches!Encodings(s, 0))
  BY <1>1, <1>2, <1>4, <1>5, <1>11 DEF m
<1> QED  BY <1>2, <1>3, <1>12 DEF u, m

-----------------------------------------------------------------------------
(* The invariant of a fetch *)

FetchTyped ==
  /\ urls \in Seq(Urls) /\ items \in Seq(Outcomes) /\ Len(items) <= Len(urls)
  /\ charged \in Int /\ usable \in Nat

Answered ==
  /\ \A i \in DOMAIN items : items[i].url = urls[i]
  /\ phase \in {"acquire", "asked", "done"} => Batches!Delivered(items) = usable
  /\ phase = "done" => Len(items) = Len(urls)

Sized == size = Batches!Encodings(items, 0) /\ size <= Budget

Paid ==
  /\ phase \in {"acquire", "done", "failed"} => charged = usable
  /\ phase = "asked" => charged = usable + Len(Batches!Batch)

FetchInv == FetchTyped /\ Answered /\ Sized /\ Paid

LEMMA BatchFacts ==
  ASSUME FetchTyped
  PROVE  /\ Batches!Batch \in Seq(Urls) /\ Len(Batches!Batch) \in Nat
         /\ Len(items) \in Nat /\ Len(urls) \in Nat
         /\ Len(items) + Len(Batches!Batch) <= Len(urls)
         /\ DOMAIN Batches!Batch = 1..Len(Batches!Batch)
         /\ \A i \in DOMAIN Batches!Batch : Batches!Batch[i] = urls[Len(items) + i]
<1> DEFINE m == Len(items)
           l == IF m + BatchSize < Len(urls) THEN m + BatchSize ELSE Len(urls)
<1>1. m \in Nat /\ Len(urls) \in Nat /\ m <= Len(urls) /\ urls \in Seq(Urls)
  BY DEF FetchTyped
<1> HIDE DEF m
<1>2. l \in Nat /\ m <= l /\ l <= Len(urls)
  BY <1>1, FetchConstants
<1> HIDE DEF l
<1>3. /\ SubSeq(urls, m + 1, l) \in Seq(Urls) /\ Len(SubSeq(urls, m + 1, l)) = l - m
      /\ \A i \in 1..(l - m) : SubSeq(urls, m + 1, l)[i] = urls[m + i]
  BY <1>1, <1>2
<1>4. Batches!Batch = SubSeq(urls, m + 1, l)
  BY DEF Batches!Batch, m, l
<1>5. l - m \in Nat /\ m + (l - m) <= Len(urls)
  BY <1>1, <1>2
<1>6. PICK b \in Seq(Urls) : b = Batches!Batch /\ Len(b) = l - m
  BY <1>3, <1>4
<1>7. DOMAIN b = 1..(l - m)
  BY <1>5, <1>6
<1> QED  BY <1>1, <1>3, <1>4, <1>5, <1>6, <1>7 DEF m

LEMMA FetchInit == Batches!Init => FetchInv
<1> SUFFICES ASSUME Batches!Init PROVE FetchInv
  OBVIOUS
<1>1. items = <<>> /\ size = 0 /\ phase = "acquire" /\ charged = 0 /\ usable = 0
  BY DEF Batches!Init
<1>2. urls \in Seq(Urls)
  <2>1. PICK n \in 0..MaxUrls : urls \in [1..n -> Urls]
    BY DEF Batches!Init, Batches!Requested, Batches!UpTo
  <2>2. n \in Nat
    BY <2>1, FetchConstants
  <2> QED  BY <2>1, <2>2
<1>3. items \in Seq(Outcomes) /\ Len(items) = 0 /\ DOMAIN items = {}
  BY <1>1
<1>4. FetchTyped
  BY <1>1, <1>2, <1>3 DEF FetchTyped
<1>5. Batches!Delivered(items) = 0
  <2>1. Has(items) = {}
    BY <1>3 DEF Has
  <2> QED  BY <1>3, <2>1, DeliveredCount, FS_EmptySet
<1>6. Batches!Encodings(items, 0) = 0
  <2>1. PICK s \in Seq(Outcomes) : s = items /\ Len(s) = 0
    BY <1>3
  <2>2. PICK e : Sizes(e, s, 0) /\ Batches!Encodings(s, 0) = e[Len(s)]
    BY EncodingsFacts
  <2> QED  BY <2>1, <2>2 DEF Sizes
<1>7. Answered
  BY <1>1, <1>3, <1>5 DEF Answered
<1>8. Sized
  BY <1>1, <1>6, FetchConstants DEF Sized
<1>9. Paid
  BY <1>1 DEF Paid
<1> QED  BY <1>4, <1>7, <1>8, <1>9 DEF FetchInv

LEMMA RepliesTyped ==
  ASSUME NEW reply \in Batches!Replies
  PROVE  reply \in Seq(Outcomes)
<1>1. PICK pages \in Batches!Results, failures \in Batches!Failures : reply = pages \o failures
  BY DEF Batches!Replies
<1>2. pages \in Seq(Outcomes)
  <2>1. PICK n \in 0..Len(Batches!Batch) : pages \in [1..n -> [url : Urls, page : DOMAIN Pages]]
    BY <1>1 DEF Batches!Results, Batches!UpTo
  <2>2. \A x \in [url : Urls, page : DOMAIN Pages] : x \in Outcomes
    BY DEF Outcomes
  <2>3. n \in Nat
    BY <2>1
  <2>4. pages \in [1..n -> Outcomes]
    BY <2>1, <2>2
  <2> QED  BY <2>3, <2>4
<1>3. failures \in Seq(Outcomes)
  <2>1. PICK n \in 0..1 : failures \in [1..n -> [url : Urls, page : {None}]]
    BY <1>1 DEF Batches!Failures, Batches!UpTo
  <2>2. \A x \in [url : Urls, page : {None}] : x \in Outcomes
    BY DEF Outcomes
  <2>3. failures \in [1..n -> Outcomes]
    BY <2>1, <2>2
  <2> QED  BY <2>1, <2>3
<1> QED  BY <1>1, <1>2, <1>3

LEMMA TakenStep ==
  ASSUME FetchInv, NEW reply \in Batches!Replies, Batches!Taken(reply)
  PROVE  FetchInv'
<1> DEFINE b == Batches!Batch
           placed == Batches!Placed(reply)
<1>1. FetchTyped /\ Answered /\ Sized /\ Paid
  BY DEF FetchInv
<1>2. reply \in Seq(Outcomes)
  BY RepliesTyped
<1>3. /\ phase = "asked" /\ ~Batches!Unrequested(reply) /\ urls' = urls
      /\ charged' = charged - Batches!Refund(placed) /\ usable' = usable + Batches!Delivered(reply)
      /\ IF Batches!TooLarge(placed) THEN phase' = "failed" /\ items' = items /\ size' = size
         ELSE /\ items' = items \o placed
              /\ size' = Batches!Encodings(placed, size)
              /\ phase' = IF Len(items) + Len(placed) = Len(urls) THEN "done" ELSE "acquire"
  BY DEF Batches!Taken
<1>4. /\ b \in Seq(Urls) /\ Len(b) \in Nat /\ Len(items) \in Nat /\ Len(urls) \in Nat
      /\ Len(items) + Len(b) <= Len(urls)
      /\ \A i \in 1..Len(b) : b[i] = urls[Len(items) + i]
  BY <1>1, BatchFacts
<1>5. /\ placed \in Seq(Outcomes) /\ Len(placed) = Len(b)
      /\ \A i \in 1..Len(b) : placed[i].url = b[i]
  BY <1>1, <1>2, BatchFacts, PlacedWell
<1>6. Batches!Delivered(placed) = Batches!Delivered(reply)
  BY <1>2, <1>3, <1>4, AllPlaced
<1>7. PICK got \in Nat, lost \in Nat, had \in Nat :
        /\ got = Batches!Delivered(reply) /\ lost = Batches!Refund(placed) /\ had = Batches!Delivered(items)
        /\ lost + got = Len(b)
  BY <1>1, <1>2, <1>5, <1>6, DeliveredCount DEF FetchTyped
<1>8. had = usable /\ charged = usable + Len(b) /\ usable \in Nat /\ charged \in Int
  BY <1>1, <1>3, <1>7 DEF Answered, Paid, FetchTyped
<1>9. charged' = usable' /\ charged' \in Int /\ usable' \in Nat /\ usable' = had + got
  <2>1. PICK n \in Nat : n = Len(b)
    BY <1>4
  <2>2. charged' = (usable + n) - lost /\ usable' = usable + got /\ lost + got = n
    BY <1>3, <1>7, <1>8, <2>1
  <2> HIDE DEF b, placed
  <2>3. usable \in Nat /\ had = usable
    BY <1>8
  <2> QED  BY <2>2, <2>3
<1> HIDE DEF b, placed
<1>10. CASE Batches!TooLarge(placed)
  <2>1. phase' = "failed" /\ items' = items /\ size' = size
    BY <1>3, <1>10
  <2>2. FetchTyped' /\ Answered' /\ Paid'
    BY <1>1, <1>3, <1>9, <2>1 DEF FetchTyped, Answered, Paid
  <2>3. Sized'
    BY <1>1, <2>1 DEF Sized
  <2> QED  BY <2>2, <2>3 DEF FetchInv
<1>11. CASE ~Batches!TooLarge(placed)
  <2>1. /\ items' = items \o placed /\ size' = Batches!Encodings(placed, size)
        /\ phase' = IF Len(items) + Len(placed) = Len(urls) THEN "done" ELSE "acquire"
        /\ size' <= Budget
    <3>1. Batches!Encodings(placed, size) \in Nat
      <4>1. size \in Nat
        BY <1>1, <1>5, EncodingsJoint DEF Sized, FetchTyped
      <4>2. PICK e : Sizes(e, placed, size) /\ Batches!Encodings(placed, size) = e[Len(placed)]
        BY <1>5, <4>1, EncodingsFacts
      <4> QED  BY <1>4, <1>5, <4>2 DEF Sizes
    <3> QED  BY <1>3, <1>11, <3>1, FetchConstants DEF Batches!TooLarge
  <2>2. PICK new \in Seq(Outcomes) : /\ new = items \o placed /\ Len(new) = Len(items) + Len(b)
                                     /\ \A i \in 1..Len(items) : new[i] = items[i]
                                     /\ \A i \in 1..Len(b) : new[Len(items) + i] = placed[i]
                                     /\ DOMAIN items = 1..Len(items) /\ DOMAIN new = 1..(Len(items) + Len(b))
    <3>1. PICK s \in Seq(Outcomes), t \in Seq(Outcomes) : s = items /\ t = placed /\ Len(t) = Len(b)
      BY <1>1, <1>5 DEF FetchTyped
    <3>2. PICK new : new = s \o t
      OBVIOUS
    <3>3. /\ new \in Seq(Outcomes) /\ Len(new) = Len(s) + Len(t)
          /\ \A i \in 1..Len(s) : new[i] = s[i]
          /\ \A i \in 1..Len(t) : new[Len(s) + i] = t[i]
          /\ DOMAIN s = 1..Len(s) /\ DOMAIN new = 1..(Len(s) + Len(t))
      BY <3>2
    <3> QED  BY <3>1, <3>2, <3>3
  <2>3. FetchTyped'
    BY <1>1, <1>3, <1>4, <1>9, <2>1, <2>2 DEF FetchTyped
  <2>4. ASSUME NEW i \in DOMAIN new PROVE new[i].url = urls[i]
    <3>1. CASE i \in 1..Len(items)
      BY <1>1, <2>2, <3>1 DEF Answered
    <3>2. CASE i \notin 1..Len(items)
      <4>1. i - Len(items) \in 1..Len(b) /\ Len(items) + (i - Len(items)) = i
        BY <1>4, <2>2, <3>2
      <4>2. new[i] = placed[i - Len(items)] /\ placed[i - Len(items)].url = b[i - Len(items)]
            /\ b[i - Len(items)] = urls[i]
        BY <1>4, <1>5, <2>2, <4>1
      <4> QED  BY <4>2
    <3> QED  BY <3>1, <3>2
  <2>5. Batches!Delivered(items') = usable'
    <3>1. Batches!Delivered(new) = had + got
      BY <1>1, <1>5, <1>6, <1>7, <2>2, DeliveredJoint DEF FetchTyped
    <3>2. Batches!Delivered(items') = Batches!Delivered(new)
      BY <2>1, <2>2
    <3> QED  BY <1>9, <3>1, <3>2
  <2>6. phase' = "done" => Len(new) = Len(urls)
    BY <1>5, <2>1, <2>2
  <2>7. items' = new /\ urls' = urls
    BY <1>3, <2>1, <2>2
  <2>8. Answered'
    BY <2>4, <2>5, <2>6, <2>7 DEF Answered
  <2>9. size' = Batches!Encodings(items', 0)
    BY <1>1, <1>5, <2>1, EncodingsJoint DEF Sized, FetchTyped
  <2>10. Sized'
    BY <2>1, <2>9 DEF Sized
  <2>11. Paid'
    BY <1>9, <2>1 DEF Paid
  <2> QED  BY <2>3, <2>8, <2>10, <2>11 DEF FetchInv
<1> QED  BY <1>10, <1>11

LEMMA FetchStep == FetchInv /\ [Batches!Next]_fetchVars => FetchInv'
<1> SUFFICES ASSUME FetchInv, [Batches!Next]_fetchVars PROVE FetchInv'
  OBVIOUS
<1>0. FetchTyped /\ Answered /\ Sized /\ Paid
  BY DEF FetchInv
<1>b. PICK n \in Nat : n = Len(Batches!Batch)
  BY <1>0, BatchFacts
<1>s. ASSUME UNCHANGED <<urls, items, size, usable>>, charged' \in Int,
             phase' \in {"acquire", "asked", "done"} => phase \in {"acquire", "asked", "done"},
             phase' = "done" => phase = "done", Paid'
      PROVE  FetchInv'
  <2>1. FetchTyped' /\ Answered' /\ Sized'
    BY <1>0, <1>s DEF FetchTyped, Answered, Sized
  <2> QED  BY <1>s, <2>1 DEF FetchInv
<1>l. UNCHANGED <<urls, items>> => Len(Batches!Batch)' = n
  BY <1>b DEF Batches!Batch
<1>t. charged \in Int /\ usable \in Nat
  BY <1>0 DEF FetchTyped
<1>1. CASE UNCHANGED fetchVars
  <2>1. UNCHANGED <<urls, items, size, usable, charged, phase>>
    BY <1>1 DEF fetchVars
  <2>2. Paid'
    BY <1>0, <1>b, <1>l, <2>1 DEF Paid
  <2> QED  BY <1>s, <1>t, <2>1, <2>2
<1>2. CASE Batches!Acquire
  <2>1. /\ phase = "acquire" /\ phase' = "asked" /\ charged' = charged + n
        /\ UNCHANGED <<urls, items, size, usable>>
    BY <1>2, <1>b DEF Batches!Acquire
  <2>2. charged' = usable + n
    BY <1>0, <2>1 DEF Paid
  <2>3. Paid'
    BY <1>l, <2>1, <2>2 DEF Paid
  <2> QED  BY <1>s, <1>t, <2>1, <2>3
<1>3. CASE Batches!BatchFails \/ Batches!Limited
  <2>1. /\ phase = "asked" /\ phase' \in {"acquire", "failed"} /\ charged' = charged - n
        /\ UNCHANGED <<urls, items, size, usable>>
    BY <1>3, <1>b DEF Batches!BatchFails, Batches!Limited
  <2>2. charged' = usable
    BY <1>0, <1>b, <1>t, <2>1 DEF Paid
  <2>3. Paid'
    BY <2>1, <2>2 DEF Paid
  <2> QED  BY <1>s, <1>t, <2>1, <2>3
<1>4. CASE Batches!TurnExpires \/ Batches!Dropped
  <2>1. /\ phase \in {"acquire", "asked"} /\ phase' \in {"failed", "dropped"}
        /\ phase' = "failed" => phase = "acquire"
        /\ UNCHANGED <<urls, items, size, usable, charged>>
    BY <1>4 DEF Batches!TurnExpires, Batches!Dropped
  <2>2. Paid'
    BY <1>0, <2>1 DEF Paid
  <2> QED  BY <1>s, <1>t, <2>1, <2>2
<1>5. ASSUME NEW reply \in Batches!Replies, Batches!Taken(reply) PROVE FetchInv'
  BY <1>5, TakenStep
<1> QED  BY <1>1, <1>2, <1>3, <1>4, <1>5 DEF Batches!Next

LEMMA FetchRight == FetchInv => Batches!OneItemEach /\ Batches!WithinBudget /\ Batches!PaidForPages
<1> SUFFICES ASSUME FetchInv PROVE Batches!OneItemEach /\ Batches!WithinBudget /\ Batches!PaidForPages
  OBVIOUS
<1>1. FetchTyped /\ Answered /\ Sized /\ Paid
  BY DEF FetchInv
<1>2. ASSUME phase = "done"
      PROVE  [i \in DOMAIN items |-> items[i].url] = urls /\ Batches!Delivered(items) = usable
  <2>1. Len(items) = Len(urls) /\ Batches!Delivered(items) = usable
        /\ \A i \in DOMAIN items : items[i].url = urls[i]
    BY <1>1, <1>2 DEF Answered
  <2>2. urls \in Seq(Urls) /\ items \in Seq(Outcomes)
    BY <1>1 DEF FetchTyped
  <2>3. DOMAIN items = DOMAIN urls /\ urls = [i \in DOMAIN urls |-> urls[i]]
    BY <2>1, <2>2
  <2>4. [i \in DOMAIN items |-> items[i].url] = urls
    BY <2>1, <2>3
  <2> QED  BY <2>1, <2>4
<1> QED  BY <1>1, <1>2 DEF Batches!OneItemEach, Batches!WithinBudget, Batches!PaidForPages, Sized, Paid

(* A fetch answers every address in its place and within the budget and    *)
(* pays for the pages it got (fetch_for); an amount is the nearest unit to *)
(* the provider's decimal (decimal_to_millionths) and its parts make it up *)
(* (split_proxy_cost, usage_total).                                        *)
THEOREM BillsAlwaysAddUp == MCSpec => []BillsAddUp
<1> DEFINE I == FetchInv /\ CostsInv
<1>1. MCInit => I
  BY FetchInit, CostsInit DEF MCInit
<1>2. I /\ [MCNext]_<<part, vars, fetchVars, costVars>> => I'
  <2> SUFFICES ASSUME I, [MCNext]_<<part, vars, fetchVars, costVars>> PROVE I'
    OBVIOUS
  <2>1. [Batches!Next]_fetchVars /\ [Costs!Next]_costVars
    BY DEF MCNext, QuotaPart, FetchPart, CostsPart
  <2> QED  BY <2>1, FetchStep, CostsStep
<1>3. I => BillsAddUp
  BY FetchRight, CostsRight DEF BillsAddUp
<1> QED  BY <1>1, <1>2, <1>3, PTL DEF MCSpec
=============================================================================
