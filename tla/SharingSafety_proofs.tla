------------------------ MODULE SharingSafety_proofs ------------------------
(* The store's promises about profiles, usage, sign-ins and the change of    *)
(* account ids, for any people, sessions, requests, attempts and codes; then *)
(* about the other parts of MCSharing: servers that start on one file, lists *)
(* that are read while rows change, and the patterns that filter them.       *)
EXTENDS MCSharing, WellFoundedInduction, SequenceTheorems, TLAPS

\* A request that is about to write counters read smaller ones.
ReadsAreLower ==
  \A q \in Slots : Working(q, "update usage") =>
    /\ handler[q].row.counters <= handler[q].counters
    /\ handler[q].row.cost <= handler[q].counters

\* A logged command can be opened for the actor it is stored under.
CommandOpens == past.command.actor = past.command.sealedFor

\* An attempt belongs to one request once it is claimed, and a code once it is
\* submitted; nobody else has presented either.
Claimed(a) == attempt[a].status \in {"claimed", "deleted"}
Holds(q) == Working(q, "claim code") \/ Working(q, "present")

AttemptsClaimed ==
  /\ \A q \in Slots : Holds(q) =>
       /\ Claimed(handler[q].attempt)
       /\ Working(q, "present") => handler[q].code \in submitted
  /\ \A x \in Attempts \X Codes : presented[x] > 0 => Claimed(x[1]) /\ x[2] \in submitted

OneHolder ==
  /\ \A q, r \in Slots : q # r /\ Holds(q) /\ Holds(r) => handler[q].attempt # handler[r].attempt
  /\ \A q, r \in Slots :
       q # r /\ Working(q, "present") /\ Working(r, "present") => handler[q].code # handler[r].code

Unpresented ==
  \A q \in Slots, x \in Attempts \X Codes :
    /\ Holds(q) /\ x[1] = handler[q].attempt => presented[x] = 0
    /\ Working(q, "present") /\ x[2] = handler[q].code => presented[x] = 0

SignInInv == AttemptsClaimed /\ OneHolder /\ Unpresented /\ PresentedOnce

SharingInv == TypeOK /\ AccessAsGranted /\ ReadsAreLower /\ CommandOpens /\ SignInInv

-----------------------------------------------------------------------------
(* Types. *)

LEMMA FreeWork == Free \in Work
BY DEF Work, Free

LEMMA WorkMade ==
  /\ \A p \in People, people \in (SUBSET People) \cup {None}, read \in SUBSET Ids :
       [op |-> "update", by |-> p, people |-> people, read |-> read] \in Work
  /\ \A p \in People, s \in Sessions : [op |-> "reserve", by |-> p, session |-> s] \in Work
  /\ \A op \in {"start", "end", "stop", "finalize"}, s \in Sessions : [op |-> op, session |-> s] \in Work
  /\ \A s \in Sessions, n \in Nat : [op |-> "sample", session |-> s, counters |-> n] \in Work
  /\ \A s \in Sessions, n \in Nat, row \in [counters : Nat, cost : Nat] :
       [op |-> "update usage", session |-> s, counters |-> n, row |-> row] \in Work
  /\ \A op \in {"claim code", "present"}, a \in Attempts, c \in Codes :
       [op |-> op, attempt |-> a, code |-> c] \in Work
BY DEF Work

LEMMA WorkRead ==
  ASSUME NEW w \in Work
  PROVE  /\ w.op = "update" => w.by \in People /\ w.people \in (SUBSET People) \cup {None} /\ w.read \in SUBSET Ids
         /\ w.op = "reserve" => w.by \in People /\ w.session \in Sessions
         /\ w.op \in {"start", "end", "stop", "finalize"} => w.session \in Sessions
         /\ w.op = "sample" => w.session \in Sessions /\ w.counters \in Nat
         /\ w.op = "update usage" =>
              w.session \in Sessions /\ w.counters \in Nat /\ w.row \in [counters : Nat, cost : Nat]
         /\ w.op \in {"claim code", "present"} =>
              /\ w.attempt \in Attempts /\ w.code \in Codes
              /\ [w EXCEPT !.op = "present"] \in [op : {"present"}, attempt : {w.attempt}, code : {w.code}]
<1>1. CASE w \in [op : {"update"}, by : People, people : (SUBSET People) \cup {None}, read : SUBSET Ids]
  BY <1>1
<1>2. CASE w \in [op : {"reserve"}, by : People, session : Sessions]
  BY <1>2
<1>3. CASE w \in [op : {"start", "end", "stop", "finalize"}, session : Sessions]
  BY <1>3
<1>4. CASE w \in [op : {"sample"}, session : Sessions, counters : Nat]
  BY <1>4
<1>5. CASE w \in [op : {"update usage"}, session : Sessions, counters : Nat, row : [counters : Nat, cost : Nat]]
  BY <1>5
<1>6. CASE w \in [op : {"claim code", "present"}, attempt : Attempts, code : Codes]
  <2>1. [w EXCEPT !.op = "present"] \in [op : {"present"}, attempt : {w.attempt}, code : {w.code}]
    BY <1>6
  <2>2. w.attempt \in Attempts /\ w.code \in Codes /\ w.op \in {"claim code", "present"}
    BY <1>6
  <2> QED
    BY <2>1, <2>2
<1>7. CASE w = Free
  BY <1>7 DEF Free
<1> QED
  BY <1>1, <1>2, <1>3, <1>4, <1>5, <1>6, <1>7 DEF Work

\* The types of each part.
StoreOK ==
  /\ profile \in [owner : Ids, status : {"active", "ended"}, access : SUBSET Ids]
  /\ granted \subseteq People
  /\ session \in [Sessions -> Rows]
  /\ links \subseteq Sessions
WorkOK == handler \in [Slots -> Work] /\ begun \in Nat
UsageOK == spent \in [Sessions -> Nat] /\ usage \in [Sessions -> [counters : Nat, cost : Nat]]
SignInOK ==
  /\ attempt \in [Attempts -> [status : {"absent", "open", "claimed", "deleted"}, lapsed : BOOLEAN]]
  /\ submitted \subseteq Codes
  /\ presented \in [Attempts \X Codes -> Nat]
CutoverOK ==
  /\ past \in [participants : SUBSET Ids, recording : Ids, command : [actor : Ids, sealedFor : Ids]]
  /\ cutover \in (SUBSET People) \cup {None}

LEMMA TypeParts == TypeOK <=> StoreOK /\ WorkOK /\ UsageOK /\ SignInOK /\ CutoverOK
BY DEF TypeOK, StoreOK, WorkOK, UsageOK, SignInOK, CutoverOK

LEMMA Begun ==
  ASSUME WorkOK, NEW q \in Slots, NEW w \in Work, Start(q, w) \/ Continue(q, w) \/ Done(q)
  PROVE  WorkOK'
BY FreeWork DEF WorkOK, Start, Continue, Done

LEMMA NewIsId == \A p \in People : New(p) \in Ids
BY DEF New, Ids

LEMMA SharingTypes == TypeOK /\ SharingStep => StoreOK' /\ WorkOK'
<1> SUFFICES ASSUME TypeOK, SharingStep PROVE StoreOK' /\ WorkOK'
  OBVIOUS
<1> USE SharingAssumption
<1>t. StoreOK /\ WorkOK
  BY TypeParts
<1>1. ASSUME NEW q \in Slots, WriteUpdate(q) PROVE StoreOK' /\ WorkOK'
  <2> DEFINE people == handler[q].people
  <2>1. people \in (SUBSET People) \cup {None} /\ handler[q].by \in People
    <3>1. handler[q] \in Work /\ handler[q].op = "update"
      BY <1>1, <1>t DEF WriteUpdate, Working, WorkOK
    <3> QED
      BY <3>1, WorkRead
  <2>2. ASSUME people # None
        PROVE  people \subseteq People /\ Granted(people) \subseteq Ids
    <3>1. people \subseteq People
      BY <2>1, <2>2
    <3> QED
      BY <3>1, NewIsId DEF Granted
  <2>3. profile.owner \in Ids /\ Person(profile.owner) \in People
    <3>1. profile.owner \in Ids
      BY <1>t DEF StoreOK
    <3> QED
      BY <3>1 DEF Person, Ids
  <2>4. StoreOK'
    <3>1. CASE people = None
      BY <1>1, <1>t, <3>1 DEF WriteUpdate, StoreOK
    <3>2. CASE people # None
      <4>1. /\ profile' = [profile EXCEPT !.access = Granted(people) \cup {profile.owner}]
            /\ granted' = people \cup {Person(profile.owner)}
            /\ session' = session /\ links' = links
        BY <1>1, <3>2 DEF WriteUpdate
      <4> QED
        BY <1>t, <2>2, <2>3, <3>2, <4>1 DEF StoreOK
    <3> QED
      BY <3>1, <3>2
  <2> QED
    BY <1>1, <1>t, <2>4, FreeWork, Begun DEF WriteUpdate
<1>2. ASSUME NEW q \in Slots, Reserve(q) PROVE StoreOK' /\ WorkOK'
  <2>1. handler[q].by \in People /\ handler[q].session \in Sessions
    BY <1>2, <1>t, WorkRead DEF Reserve, Working, WorkOK
  <2>2. [status |-> "starting", late |-> FALSE, participants |-> {New(handler[q].by)}] \in Rows
    BY <2>1, NewIsId DEF Rows
  <2>3. StoreOK'
    BY <1>2, <1>t, <2>1, <2>2 DEF Reserve, StoreOK
  <2>4. [op |-> "start", session |-> handler[q].session] \in Work
    BY <2>1, WorkMade
  <2> QED
    BY <1>2, <1>t, <2>3, <2>4, Begun DEF Reserve
<1>3. ASSUME NEW q \in Slots, ClaimEnd(q) PROVE StoreOK' /\ WorkOK'
  <2>1. handler[q].session \in Sessions
    BY <1>3, <1>t, WorkRead DEF ClaimEnd, Working, WorkOK
  <2>2. StoreOK'
    BY <1>3, <1>t, <2>1 DEF ClaimEnd, StoreOK, Rows
  <2>3. [op |-> "stop", session |-> handler[q].session] \in Work
    BY <2>1, WorkMade
  <2> QED
    BY <1>3, <1>t, <2>2, <2>3, Begun DEF ClaimEnd
<1>4. ASSUME NEW q \in Slots, Finalize(q) PROVE StoreOK' /\ WorkOK'
  <2>1. StoreOK'
    BY <1>4, <1>t DEF Finalize, StoreOK, Rows
  <2> QED
    BY <1>4, <1>t, <2>1, FreeWork, Begun DEF Finalize
<1>5. ASSUME NEW q \in Slots, Refuse(q) PROVE StoreOK' /\ WorkOK'
  BY <1>5, <1>t, FreeWork, Begun DEF Refuse, storeVars, StoreOK
<1>6. ASSUME NEW q \in Slots, NEW status \in {"active", "ended"}, Started(q, status) PROVE StoreOK' /\ WorkOK'
  <2>1. StoreOK'
    BY <1>6, <1>t DEF Started, StoreOK, Rows
  <2> QED
    BY <1>6, <1>t, <2>1, FreeWork, Begun DEF Started
<1>7. ASSUME NEW q \in Slots, NEW s \in Sessions, Reap(q, s) PROVE StoreOK' /\ WorkOK'
  <2>1. StoreOK'
    BY <1>7, <1>t DEF Reap, StoreOK, Rows
  <2>2. [op |-> "stop", session |-> s] \in Work
    BY WorkMade
  <2> QED
    BY <1>7, <1>t, <2>1, <2>2, Begun DEF Reap
<1>8. ASSUME NEW q \in Slots, NEW p \in People, NEW people \in (SUBSET People) \cup {None}, BeginUpdate(q, p, people)
      PROVE  StoreOK' /\ WorkOK'
  <2>1. [op |-> "update", by |-> p, people |-> people, read |-> profile.access] \in Work
    BY <1>t, WorkMade DEF StoreOK
  <2> QED
    BY <1>8, <1>t, <2>1, Begun DEF BeginUpdate, storeVars, StoreOK
<1>9. ASSUME NEW q \in Slots, NEW p \in People, NEW s \in Sessions, BeginCreate(q, p, s) \/ BeginEnd(q, p, s)
      PROVE  StoreOK' /\ WorkOK'
  <2>1. [op |-> "reserve", by |-> p, session |-> s] \in Work /\ [op |-> "end", session |-> s] \in Work
    BY WorkMade
  <2> QED
    BY <1>9, <1>t, <2>1, Begun DEF BeginCreate, BeginEnd, storeVars, StoreOK
<1>10. ASSUME NEW p \in People, EndProfile(p) PROVE StoreOK' /\ WorkOK'
  BY <1>10, <1>t DEF EndProfile, Serve, StoreOK, WorkOK
<1>11. ASSUME NEW p \in People, NEW s \in Sessions, IssueLink(p, s) \/ Redeem(p, s) PROVE StoreOK' /\ WorkOK'
  BY <1>11, <1>t, NewIsId DEF IssueLink, Redeem, Associate, Serve, StoreOK, WorkOK, Rows
<1>12. ASSUME NEW s \in Sessions, TtlElapses(s) PROVE StoreOK' /\ WorkOK'
  BY <1>12, <1>t DEF TtlElapses, StoreOK, WorkOK, workVars, Rows
<1>13. CASE Restart
  BY <1>13, <1>t, FreeWork DEF Restart, storeVars, StoreOK, WorkOK
<1> QED
  BY <1>1, <1>2, <1>3, <1>4, <1>5, <1>6, <1>7, <1>8, <1>9, <1>10, <1>11, <1>12, <1>13 DEF SharingStep

LEMMA UsageTypes == TypeOK /\ UsageStep => StoreOK' /\ WorkOK' /\ UsageOK'
<1> SUFFICES ASSUME TypeOK, UsageStep PROVE StoreOK' /\ WorkOK' /\ UsageOK'
  OBVIOUS
<1> USE UsageAssumption
<1>t. StoreOK /\ WorkOK /\ UsageOK
  BY TypeParts
<1>s. storeVars' = storeVars => StoreOK'
  BY <1>t DEF storeVars, StoreOK
<1>1. ASSUME NEW s \in Sessions, Spend(s) PROVE StoreOK' /\ WorkOK' /\ UsageOK'
  BY <1>1, <1>t, <1>s DEF Spend, sharingVars, workVars, WorkOK, UsageOK
<1>2. ASSUME NEW q \in Slots, NEW p \in People, NEW s \in Sessions, BeginSample(q, p, s)
      PROVE  StoreOK' /\ WorkOK' /\ UsageOK'
  <2>1. [op |-> "sample", session |-> s, counters |-> spent[s]] \in Work
    BY <1>t, WorkMade DEF UsageOK
  <2> QED
    BY <1>2, <1>t, <1>s, <2>1, Begun DEF BeginSample, usageVars, UsageOK
<1>3. ASSUME NEW q \in Slots, ReadUsage(q) PROVE StoreOK' /\ WorkOK' /\ UsageOK'
  <2>1. handler[q] \in Work /\ handler[q].op = "sample"
    BY <1>3, <1>t DEF ReadUsage, Working, WorkOK
  <2>2. handler[q].session \in Sessions /\ handler[q].counters \in Nat
    BY <2>1, WorkRead
  <2>3. usage[handler[q].session] \in [counters : Nat, cost : Nat]
    BY <1>t, <2>2 DEF UsageOK
  <2>4. [op |-> "update usage", session |-> handler[q].session, counters |-> handler[q].counters,
         row |-> usage[handler[q].session]] \in Work
    BY <2>2, <2>3, WorkMade
  <2> QED
    BY <1>3, <1>t, <1>s, <2>4, Begun DEF ReadUsage, usageVars, UsageOK
<1>4. ASSUME NEW q \in Slots, WriteUsage(q) PROVE StoreOK' /\ WorkOK' /\ UsageOK'
  <2>1. handler[q] \in Work /\ handler[q].op = "update usage"
    BY <1>4, <1>t DEF WriteUsage, Working, WorkOK
  <2>2. handler[q].session \in Sessions /\ handler[q].counters \in Nat
    BY <2>1, WorkRead
  <2>3. UsageOK'
    BY <1>4, <1>t, <2>2 DEF WriteUsage, UsageOK
  <2> QED
    BY <1>4, <1>t, <1>s, <2>3, FreeWork, Begun DEF WriteUsage
<1>5. ASSUME NEW q \in Slots, NEW counters \in 0 .. MaxUsage, RecordTerminal(q, counters)
      PROVE  StoreOK' /\ WorkOK' /\ UsageOK'
  <2>1. handler[q] \in Work /\ handler[q].op = "stop"
    BY <1>5, <1>t DEF RecordTerminal, Working, WorkOK
  <2>2. handler[q].session \in Sessions
    BY <2>1, WorkRead
  <2>3. [op |-> "finalize", session |-> handler[q].session] \in Work
    BY <2>2, WorkMade
  <2>4. UsageOK'
    BY <1>5, <1>t, <2>2 DEF RecordTerminal, LargerOf, UsageOK
  <2> QED
    BY <1>5, <1>t, <1>s, <2>3, <2>4, Begun DEF RecordTerminal
<1> QED
  BY <1>1, <1>2, <1>3, <1>4, <1>5 DEF UsageStep

LEMMA SignInTypes == TypeOK /\ SignInStep => StoreOK' /\ WorkOK' /\ UsageOK' /\ SignInOK'
<1> SUFFICES ASSUME TypeOK, SignInStep PROVE StoreOK' /\ WorkOK' /\ UsageOK' /\ SignInOK'
  OBVIOUS
<1>t. StoreOK /\ WorkOK /\ UsageOK /\ SignInOK
  BY TypeParts
<1>s. storeVars' = storeVars /\ usageVars' = usageVars => StoreOK' /\ UsageOK'
  BY <1>t DEF storeVars, usageVars, StoreOK, UsageOK
<1>1. ASSUME NEW a \in Attempts, BeginAttempt(a) PROVE StoreOK' /\ WorkOK' /\ UsageOK' /\ SignInOK'
  BY <1>1, <1>t, <1>s DEF BeginAttempt, Serve, WorkOK, SignInOK
<1>2. ASSUME NEW a \in Attempts, AttemptLapses(a) PROVE StoreOK' /\ WorkOK' /\ UsageOK' /\ SignInOK'
  BY <1>2, <1>t, <1>s DEF AttemptLapses, sharingVars, workVars, WorkOK, SignInOK
<1>3. ASSUME NEW q \in Slots, ClaimCode(q) PROVE StoreOK' /\ WorkOK' /\ UsageOK' /\ SignInOK'
  <2>1. handler[q] \in Work /\ handler[q].op = "claim code"
    BY <1>3, <1>t DEF ClaimCode, Working, WorkOK
  <2>2. handler[q].code \in Codes /\ handler[q].attempt \in Attempts
        /\ [handler[q] EXCEPT !.op = "present"]
             \in [op : {"present"}, attempt : {handler[q].attempt}, code : {handler[q].code}]
    BY <2>1, WorkRead
  <2>3. [handler[q] EXCEPT !.op = "present"] \in Work
    BY <2>2 DEF Work
  <2>4. SignInOK'
    BY <1>3, <1>t, <2>2 DEF ClaimCode, SignInOK
  <2> QED
    BY <1>3, <1>t, <1>s, <2>3, <2>4, Begun DEF ClaimCode
<1>4. ASSUME NEW q \in Slots, PresentCode(q) PROVE StoreOK' /\ WorkOK' /\ UsageOK' /\ SignInOK'
  <2>1. handler[q] \in Work /\ handler[q].op = "present"
    BY <1>4, <1>t DEF PresentCode, Working, WorkOK
  <2>2. <<handler[q].attempt, handler[q].code>> \in Attempts \X Codes
    BY <2>1, WorkRead
  <2>3. SignInOK'
    BY <1>4, <1>t, <2>2 DEF PresentCode, SignInOK
  <2> QED
    BY <1>4, <1>t, <1>s, <2>3, FreeWork, Begun DEF PresentCode
<1>5. ASSUME NEW q \in Slots, NEW a \in Attempts, NEW code \in Codes, ClaimAttempt(q, a, code)
      PROVE  StoreOK' /\ WorkOK' /\ UsageOK' /\ SignInOK'
  <2>1. [op |-> "claim code", attempt |-> a, code |-> code] \in Work
    BY WorkMade
  <2>2. SignInOK'
    BY <1>5, <1>t DEF ClaimAttempt, SignInOK
  <2> QED
    BY <1>5, <1>t, <1>s, <2>1, <2>2, Begun DEF ClaimAttempt
<1> QED
  BY <1>1, <1>2, <1>3, <1>4, <1>5 DEF SignInStep

\* The change of ids spells the same people.
LEMMA RekeyedIds ==
  ASSUME NEW map \in SUBSET People
  PROVE  /\ \A id \in Ids : Rekeyed(map, id) \in Ids /\ Person(Rekeyed(map, id)) = Person(id)
         /\ \A ids \in SUBSET Ids : RekeyedAll(map, ids) \in SUBSET Ids
BY DEF Rekeyed, RekeyedAll, Ids, New, Person

LEMMA ApplyTypes ==
  ASSUME TypeOK, NEW map \in SUBSET People, Apply(map)
  PROVE  TypeOK'
<1>t. StoreOK /\ WorkOK /\ UsageOK /\ SignInOK /\ CutoverOK
  BY TypeParts
<1>1. StoreOK'
  BY <1>t, RekeyedIds DEF Apply, Rekey, StoreOK, Rows
<1>2. WorkOK' /\ UsageOK'
  BY <1>t DEF Apply, workVars, usageVars, WorkOK, UsageOK
<1>3. SignInOK'
  BY <1>t DEF Apply, Void, SignInOK
<1>4. CutoverOK'
  BY <1>t, RekeyedIds DEF Apply, Rekey, CutoverOK
<1> QED
  BY <1>1, <1>2, <1>3, <1>4 DEF TypeOK, StoreOK, WorkOK, UsageOK, SignInOK, CutoverOK

LEMMA TypeStep == TypeOK /\ [Next]_vars => TypeOK'
<1> SUFFICES ASSUME TypeOK, [Next]_vars PROVE TypeOK'
  OBVIOUS
<1>t. StoreOK /\ WorkOK /\ UsageOK /\ SignInOK /\ CutoverOK
  BY TypeParts
<1>p. StoreOK' /\ WorkOK' /\ UsageOK' /\ SignInOK' /\ CutoverOK' => TypeOK'
  BY DEF TypeOK, StoreOK, WorkOK, UsageOK, SignInOK, CutoverOK
<1>1. UNCHANGED usageVars => UsageOK'
  BY <1>t DEF usageVars, UsageOK
<1>2. UNCHANGED signInVars => SignInOK'
  BY <1>t DEF signInVars, SignInOK
<1>3. UNCHANGED cutoverVars => CutoverOK'
  BY <1>t DEF cutoverVars, CutoverOK
<1>4. UNCHANGED sharingVars => StoreOK' /\ WorkOK'
  BY <1>t DEF sharingVars, storeVars, workVars, StoreOK, WorkOK
<1>5. CASE SharingStep /\ UNCHANGED <<usageVars, signInVars, cutoverVars>>
  BY <1>5, <1>1, <1>2, <1>3, <1>p, SharingTypes
<1>6. CASE UsageStep /\ UNCHANGED <<signInVars, cutoverVars>>
  BY <1>6, <1>2, <1>3, <1>p, UsageTypes
<1>7. CASE SignInStep /\ UNCHANGED cutoverVars
  BY <1>7, <1>3, <1>p, SignInTypes
<1>8. CASE \E map \in SUBSET People : Apply(map)
  BY <1>8, ApplyTypes
<1>9. CASE UNCHANGED vars
  BY <1>9, <1>1, <1>2, <1>3, <1>4, <1>p DEF vars
<1> QED
  BY <1>5, <1>6, <1>7, <1>8, <1>9 DEF Next

-----------------------------------------------------------------------------
(* The access list. *)

LEMMA GrantedPersons ==
  ASSUME NEW people \in SUBSET People, NEW id \in Ids
  PROVE  {Person(i) : i \in Granted(people) \cup {id}} = people \cup {Person(id)}
<1>1. \A p \in people : New(p) \in Granted(people) /\ Person(New(p)) = p
  BY DEF Granted, New, Person
<1>2. \A i \in Granted(people) : Person(i) \in people
  BY DEF Granted, New, Person
<1> QED
  BY <1>1, <1>2

LEMMA AccessKept ==
  ASSUME AccessAsGranted, profile'.access = profile.access, profile'.owner = profile.owner, granted' = granted
  PROVE  AccessAsGranted'
BY DEF AccessAsGranted

LEMMA AccessStep == TypeOK /\ AccessAsGranted /\ [Next]_vars => AccessAsGranted'
<1> SUFFICES ASSUME TypeOK, AccessAsGranted, [Next]_vars PROVE AccessAsGranted'
  OBVIOUS
<1>t. StoreOK /\ WorkOK
  BY TypeParts
<1>o. profile.owner \in Ids
  BY <1>t DEF StoreOK
<1>1. ASSUME NEW q \in Slots, WriteUpdate(q) PROVE AccessAsGranted'
  <2>1. handler[q] \in Work /\ handler[q].op = "update"
    BY <1>1, <1>t DEF WriteUpdate, Working, WorkOK
  <2>2. handler[q].people \in (SUBSET People) \cup {None}
    BY <2>1, WorkRead
  <2>3. CASE handler[q].people = None
    BY <1>1, <2>3, AccessKept DEF WriteUpdate
  <2>4. CASE handler[q].people # None
    <3>1. /\ profile'.access = Granted(handler[q].people) \cup {profile.owner}
          /\ profile'.owner = profile.owner
          /\ granted' = handler[q].people \cup {Person(profile.owner)}
      BY <1>1, <1>t, <2>4 DEF WriteUpdate, StoreOK
    <3> QED
      BY <1>o, <2>2, <2>4, <3>1, GrantedPersons DEF AccessAsGranted
  <2> QED
    BY <2>3, <2>4
<1>2. ASSUME NEW map \in SUBSET People, Apply(map) PROVE AccessAsGranted'
  <2>1. /\ profile'.access = RekeyedAll(map, profile.access)
        /\ profile'.owner = Rekeyed(map, profile.owner)
        /\ granted' = granted
    BY <1>2, <1>t DEF Apply, Rekey, StoreOK
  <2>2. \A id \in profile.access : Person(Rekeyed(map, id)) = Person(id)
    BY <1>t, RekeyedIds DEF StoreOK
  <2>3. {Person(i) : i \in RekeyedAll(map, profile.access)} = {Person(i) : i \in profile.access}
    BY <2>2 DEF RekeyedAll
  <2>4. Rekeyed(map, profile.owner) \in RekeyedAll(map, profile.access)
    BY DEF AccessAsGranted, RekeyedAll
  <2> QED
    BY <2>1, <2>3, <2>4 DEF AccessAsGranted
<1>3. ASSUME NEW p \in People, EndProfile(p) PROVE AccessAsGranted'
  BY <1>3, <1>t, AccessKept DEF EndProfile, StoreOK
<1>4. CASE UNCHANGED <<profile, granted>>
  BY <1>4, AccessKept
<1>5. ASSUME NEW q \in Slots,
             \/ Reserve(q) \/ ClaimEnd(q) \/ Finalize(q) \/ Refuse(q)
             \/ \E status \in {"active", "ended"} : Started(q, status)
             \/ \E s \in Sessions : Reap(q, s)
             \/ \E p \in People, people \in (SUBSET People) \cup {None} : BeginUpdate(q, p, people)
             \/ \E p \in People, s \in Sessions : BeginCreate(q, p, s) \/ BeginEnd(q, p, s)
      PROVE  UNCHANGED <<profile, granted>>
  BY <1>5 DEF Reserve, ClaimEnd, Finalize, Refuse, Started, Reap, BeginUpdate, BeginCreate, BeginEnd, storeVars
<1>6. ASSUME Restart \/ \E s \in Sessions : TtlElapses(s) \/ \E p \in People : IssueLink(p, s) \/ Redeem(p, s)
      PROVE  UNCHANGED <<profile, granted>>
  BY <1>6 DEF Restart, TtlElapses, IssueLink, Redeem, storeVars
<1>7. ASSUME UsageStep \/ SignInStep PROVE UNCHANGED <<profile, granted>>
  BY <1>7 DEF UsageStep, SignInStep, Spend, BeginSample, ReadUsage, WriteUsage, RecordTerminal, BeginAttempt,
              AttemptLapses, ClaimCode, PresentCode, ClaimAttempt, sharingVars, storeVars
<1>8. CASE UNCHANGED vars
  BY <1>4, <1>8 DEF vars, sharingVars, storeVars
<1> QED
  BY <1>1, <1>2, <1>3, <1>4, <1>5, <1>6, <1>7, <1>8 DEF Next, SharingStep

-----------------------------------------------------------------------------
(* What the handlers are doing. *)

LEMMA OneChanges ==
  ASSUME WorkOK, NEW q \in Slots, NEW w, Start(q, w) \/ Continue(q, w)
  PROVE  \A r \in Slots : handler'[r] = IF r = q THEN w ELSE handler[r]
BY DEF WorkOK, Start, Continue

\* Requests about the profile and its sessions take up no work on usage or sign-ins.
Elsewhere(r) == handler'[r] = handler[r] \/ handler'[r].op \notin {"update usage", "claim code", "present"}

LEMMA SharingElsewhere ==
  ASSUME TypeOK, SharingStep, NEW r \in Slots
  PROVE  Elsewhere(r)
<1>t. WorkOK
  BY TypeParts
<1>1. ASSUME NEW q \in Slots, NEW w, Start(q, w) \/ Continue(q, w),
             w.op \notin {"update usage", "claim code", "present"}
      PROVE  Elsewhere(r)
  BY <1>1, <1>t, OneChanges DEF Elsewhere
<1>2. ASSUME NEW q \in Slots, WriteUpdate(q) \/ Finalize(q) \/ Refuse(q) \/ \E status \in {"active", "ended"} : Started(q, status)
      PROVE  Elsewhere(r)
  BY <1>1, <1>2 DEF WriteUpdate, Finalize, Refuse, Started, Done, Free
<1>3. ASSUME NEW q \in Slots, Reserve(q) \/ ClaimEnd(q) \/ \E s \in Sessions : Reap(q, s)
      PROVE  Elsewhere(r)
  BY <1>1, <1>3 DEF Reserve, ClaimEnd, Reap
<1>4. ASSUME NEW q \in Slots, NEW p \in People,
             \/ \E people \in (SUBSET People) \cup {None} : BeginUpdate(q, p, people)
             \/ \E s \in Sessions : BeginCreate(q, p, s) \/ BeginEnd(q, p, s)
      PROVE  Elsewhere(r)
  BY <1>1, <1>4 DEF BeginUpdate, BeginCreate, BeginEnd
<1>5. ASSUME NEW p \in People, EndProfile(p) \/ \E s \in Sessions : IssueLink(p, s) \/ Redeem(p, s)
      PROVE  Elsewhere(r)
  BY <1>5 DEF EndProfile, IssueLink, Redeem, Serve, Elsewhere
<1>6. ASSUME NEW s \in Sessions, TtlElapses(s) PROVE Elsewhere(r)
  BY <1>6 DEF TtlElapses, workVars, Elsewhere
<1>7. CASE Restart
  BY <1>7 DEF Restart, Elsewhere, Free
<1> QED
  BY <1>2, <1>3, <1>4, <1>5, <1>6, <1>7 DEF SharingStep

-----------------------------------------------------------------------------
(* Usage. *)

LEMMA ReadsStep == TypeOK /\ ReadsAreLower /\ [Next]_vars => ReadsAreLower'
<1> SUFFICES ASSUME TypeOK, ReadsAreLower, [Next]_vars PROVE ReadsAreLower'
  OBVIOUS
<1>t. WorkOK
  BY TypeParts
<1>1. CASE SharingStep
  BY <1>1, SharingElsewhere DEF Elsewhere, ReadsAreLower, Working
<1>2. ASSUME NEW q \in Slots, ReadUsage(q) PROVE ReadsAreLower'
  <2> DEFINE s == handler[q].session
             w == [op |-> "update usage", session |-> s, counters |-> handler[q].counters, row |-> usage[s]]
  <2>1. usage[s].counters <= handler[q].counters /\ usage[s].cost <= handler[q].counters
    BY <1>2 DEF ReadUsage
  <2>2. \A r \in Slots : handler'[r] = IF r = q THEN w ELSE handler[r]
    BY <1>2, <1>t, OneChanges DEF ReadUsage
  <2>3. ASSUME NEW r \in Slots, Working(r, "update usage")'
        PROVE  (handler[r].row.counters <= handler[r].counters /\ handler[r].row.cost <= handler[r].counters)'
    <3>1. CASE r = q
      <4>1. handler'[r] = w
        BY <2>2, <3>1
      <4>2. w.row = usage[s] /\ w.counters = handler[q].counters
        OBVIOUS
      <4> HIDE DEF w
      <4> QED
        BY <2>1, <4>1, <4>2
    <3>2. CASE r # q
      BY <2>2, <2>3, <3>2 DEF ReadsAreLower, Working
    <3> QED
      BY <3>1, <3>2
  <2> QED
    BY <2>3 DEF ReadsAreLower
<1>3. ASSUME NEW q \in Slots, NEW w, Start(q, w) \/ Continue(q, w), w.op # "update usage"
      PROVE  ReadsAreLower'
  BY <1>3, <1>t, OneChanges DEF ReadsAreLower, Working
<1>4. ASSUME NEW q \in Slots,
             \/ WriteUsage(q) \/ PresentCode(q)
             \/ \E counters \in 0 .. MaxUsage : RecordTerminal(q, counters)
             \/ \E p \in People, s \in Sessions : BeginSample(q, p, s)
             \/ \E a \in Attempts, code \in Codes : ClaimAttempt(q, a, code)
      PROVE  ReadsAreLower'
  <2>1. CASE WriteUsage(q) \/ PresentCode(q)
    BY <1>3, <2>1 DEF WriteUsage, PresentCode, Done, Free
  <2>2. ASSUME NEW counters \in 0 .. MaxUsage, RecordTerminal(q, counters) PROVE ReadsAreLower'
    <3> DEFINE w == [op |-> "finalize", session |-> handler[q].session]
    <3>1. w.op # "update usage" /\ Continue(q, w)
      BY <2>2 DEF RecordTerminal
    <3> QED
      BY <1>3, <3>1
  <2>3. ASSUME NEW p \in People, NEW s \in Sessions, BeginSample(q, p, s) PROVE ReadsAreLower'
    <3> DEFINE w == [op |-> "sample", session |-> s, counters |-> spent[s]]
    <3>1. w.op # "update usage" /\ Start(q, w)
      BY <2>3 DEF BeginSample
    <3> QED
      BY <1>3, <3>1
  <2>4. ASSUME NEW a \in Attempts, NEW code \in Codes, ClaimAttempt(q, a, code) PROVE ReadsAreLower'
    <3> DEFINE w == [op |-> "claim code", attempt |-> a, code |-> code]
    <3>1. w.op # "update usage" /\ Start(q, w)
      BY <2>4 DEF ClaimAttempt
    <3> QED
      BY <1>3, <3>1
  <2> QED
    BY <1>4, <2>1, <2>2, <2>3, <2>4
<1>5. ASSUME NEW q \in Slots, ClaimCode(q) PROVE ReadsAreLower'
  <2>1. handler[q] \in Work /\ handler[q].op = "claim code"
    BY <1>5, <1>t DEF ClaimCode, Working, WorkOK
  <2>2. [handler[q] EXCEPT !.op = "present"].op = "present"
    BY <2>1, WorkRead
  <2> QED
    BY <1>3, <1>5, <2>2 DEF ClaimCode
<1>6. ASSUME UNCHANGED handler PROVE ReadsAreLower'
  BY <1>6 DEF ReadsAreLower, Working
<1>7. ASSUME \/ \E s \in Sessions : Spend(s)
             \/ \E a \in Attempts : BeginAttempt(a) \/ AttemptLapses(a)
             \/ \E map \in SUBSET People : Apply(map)
             \/ UNCHANGED vars
      PROVE  UNCHANGED handler
  BY <1>7 DEF Spend, BeginAttempt, AttemptLapses, Apply, Serve, sharingVars, workVars, vars
<1> QED
  BY <1>1, <1>2, <1>4, <1>5, <1>6, <1>7 DEF Next, UsageStep, SignInStep

LEMMA UsageKept ==
  ASSUME TypeOK, ReadsAreLower, [Next]_vars, NEW s \in Sessions
  PROVE  /\ usage[s].counters <= usage'[s].counters
         /\ session[s].status = "active" => usage[s].cost <= usage'[s].cost
         /\ session[s].status = "ended" => usage'[s] = usage[s]
<1>t. WorkOK /\ UsageOK
  BY TypeParts
<1>u. usage[s].counters \in Nat /\ usage[s].cost \in Nat
  BY <1>t DEF UsageOK
<1>1. CASE usage' = usage
  BY <1>u, <1>1
<1>2. ASSUME NEW q \in Slots, WriteUsage(q)
      PROVE  /\ usage[s].counters <= usage'[s].counters
             /\ session[s].status = "active" => usage[s].cost <= usage'[s].cost
             /\ session[s].status = "ended" => usage'[s] = usage[s]
  <2>1. CASE s = handler[q].session
    <3>1. /\ usage'[s] = [counters |-> handler[q].counters, cost |-> handler[q].counters]
          /\ usage[s] = handler[q].row /\ session[s].status = "active"
      BY <1>2, <1>t, <2>1 DEF WriteUsage, Running, UsageOK
    <3>2. handler[q].row.counters <= handler[q].counters /\ handler[q].row.cost <= handler[q].counters
      BY <1>2 DEF WriteUsage, ReadsAreLower
    <3>3. usage'[s].counters = handler[q].counters /\ usage'[s].cost = handler[q].counters
      BY <3>1
    <3>4. usage[s].counters <= usage'[s].counters /\ usage[s].cost <= usage'[s].cost
      <4>1. usage[s] = handler[q].row
        BY <3>1
      <4> QED
        BY <3>2, <3>3, <4>1
    <3>5. session[s].status # "ended"
      BY <3>1
    <3> QED
      BY <3>4, <3>5
  <2>2. CASE s # handler[q].session
    <3>1. usage'[s] = usage[s]
      BY <1>2, <1>t, <2>2 DEF WriteUsage, UsageOK
    <3> QED
      BY <1>u, <3>1
  <2> QED
    BY <2>1, <2>2
<1>3. ASSUME NEW q \in Slots, NEW counters \in 0 .. MaxUsage, RecordTerminal(q, counters)
      PROVE  /\ usage[s].counters <= usage'[s].counters
             /\ session[s].status = "active" => usage[s].cost <= usage'[s].cost
             /\ session[s].status = "ended" => usage'[s] = usage[s]
  <2>1. CASE s = handler[q].session /\ session[s].status = "ending"
    <3>1. usage'[s] = [counters |-> LargerOf(usage[s].counters, counters), cost |-> counters]
      BY <1>3, <1>t, <2>1 DEF RecordTerminal, UsageOK
    <3>2. counters \in Nat
      BY UsageAssumption
    <3>3. usage[s].counters <= usage'[s].counters
      BY <1>u, <3>1, <3>2 DEF LargerOf
    <3> QED
      BY <2>1, <3>3
  <2>2. CASE s # handler[q].session \/ session[s].status # "ending"
    BY <1>3, <1>t, <1>u, <2>2 DEF RecordTerminal, UsageOK
  <2> QED
    BY <2>1, <2>2
<1>4. ASSUME NEW q \in Slots, ReadUsage(q) \/ \E p \in People, r \in Sessions : BeginSample(q, p, r)
      PROVE  usage' = usage
  BY <1>4 DEF ReadUsage, BeginSample, usageVars
<1>5. ASSUME \/ UNCHANGED usageVars \/ UNCHANGED vars \/ (\E r \in Sessions : Spend(r))
             \/ (\E map \in SUBSET People : Apply(map)) \/ SignInStep
      PROVE  usage' = usage
  BY <1>5 DEF Spend, Apply, SignInStep, BeginAttempt, AttemptLapses, ClaimCode, PresentCode, ClaimAttempt,
              usageVars, vars
<1> QED
  BY <1>1, <1>2, <1>3, <1>4, <1>5 DEF Next, UsageStep

-----------------------------------------------------------------------------
(* The change of ids. *)

LEMMA CommandStep == CommandOpens /\ [Next]_vars => CommandOpens'
<1>1. ASSUME CommandOpens, UNCHANGED cutoverVars PROVE CommandOpens'
  BY <1>1 DEF CommandOpens, cutoverVars
<1>2. ASSUME NEW map \in SUBSET People, Apply(map) PROVE CommandOpens'
  BY <1>2 DEF Apply, Rekey, CommandOpens
<1> QED
  BY <1>1, <1>2 DEF Next, vars, cutoverVars

LEMMA KindOfPair == ASSUME NEW a, NEW b PROVE Len(<<a, b>>) = 2 /\ <<a, b>>[1] = a
OBVIOUS
LEMMA KindOfTriple == ASSUME NEW a, NEW b, NEW c PROVE Len(<<a, b, c>>) = 3 /\ <<a, b, c>>[1] = a /\ <<a, b, c>>[2] = b
OBVIOUS

\* Rights, of the rows that give them, and the kinds they come to.
RightsOf(mine, owner, access, saw, recording, actor, sealed, rows) ==
  {<<"owns", id>> : id \in mine \cap {owner}}
  \cup {<<"uses", id>> : id \in mine \cap access}
  \cup {<<"saw", id>> : id \in mine \cap saw}
  \cup {<<"keeps", id>> : id \in mine \cap {recording}}
  \cup {<<"reads", id>> : id \in mine \cap {actor} \cap {sealed}}
  \cup UNION {{<<"sees", s, id>> : id \in mine \cap rows[s].participants} : s \in Sessions}

KindGiven(k, mine, owner, access, saw, recording, actor, sealed, rows) ==
  \/ k = <<"owns", None>> /\ owner \in mine
  \/ k = <<"uses", None>> /\ \E id \in mine : id \in access
  \/ k = <<"saw", None>> /\ \E id \in mine : id \in saw
  \/ k = <<"keeps", None>> /\ recording \in mine
  \/ k = <<"reads", None>> /\ actor \in mine /\ actor = sealed
  \/ \E s \in Sessions : k = <<"sees", s>> /\ \E id \in mine : id \in rows[s].participants

LEMMA KindsOfRights ==
  ASSUME NEW mine, NEW owner, NEW access, NEW saw, NEW recording, NEW actor, NEW sealed, NEW rows, NEW k
  PROVE  k \in Kinds(RightsOf(mine, owner, access, saw, recording, actor, sealed, rows))
           <=> KindGiven(k, mine, owner, access, saw, recording, actor, sealed, rows)
<1> DEFINE rights == RightsOf(mine, owner, access, saw, recording, actor, sealed, rows)
<1>r. rights = {<<"owns", id>> : id \in mine \cap {owner}}
                 \cup {<<"uses", id>> : id \in mine \cap access}
                 \cup {<<"saw", id>> : id \in mine \cap saw}
                 \cup {<<"keeps", id>> : id \in mine \cap {recording}}
                 \cup {<<"reads", id>> : id \in mine \cap {actor} \cap {sealed}}
                 \cup UNION {{<<"sees", s, id>> : id \in mine \cap rows[s].participants} : s \in Sessions}
  BY DEF RightsOf
<1> HIDE DEF rights
<1> DEFINE kind(r) == <<r[1], IF Len(r) = 3 THEN r[2] ELSE None>>
<1>1. \A a, id : kind(<<a, id>>) = <<a, None>>
  BY KindOfPair
<1>2. \A a, s, id : kind(<<a, s, id>>) = <<a, s>>
  BY KindOfTriple
<1>3. k \in Kinds(rights) <=> \E r \in rights : k = kind(r)
  BY DEF Kinds
<1> HIDE DEF kind
<1>4. ASSUME NEW r \in rights, k = kind(r)
      PROVE  \/ k = <<"owns", None>> /\ owner \in mine
             \/ k = <<"uses", None>> /\ \E id \in mine : id \in access
             \/ k = <<"saw", None>> /\ \E id \in mine : id \in saw
             \/ k = <<"keeps", None>> /\ recording \in mine
             \/ k = <<"reads", None>> /\ actor \in mine /\ actor = sealed
             \/ \E s \in Sessions : k = <<"sees", s>> /\ \E id \in mine : id \in rows[s].participants
  BY <1>1, <1>2, <1>4, <1>r
<1>5. ASSUME owner \in mine, k = <<"owns", None>> PROVE \E r \in rights : k = kind(r)
  BY <1>1, <1>5, <1>r
<1>6. ASSUME NEW id \in mine, id \in access, k = <<"uses", None>> PROVE \E r \in rights : k = kind(r)
  BY <1>1, <1>6, <1>r
<1>7. ASSUME NEW id \in mine, id \in saw, k = <<"saw", None>> PROVE \E r \in rights : k = kind(r)
  BY <1>1, <1>7, <1>r
<1>8. ASSUME recording \in mine, k = <<"keeps", None>> PROVE \E r \in rights : k = kind(r)
  BY <1>1, <1>8, <1>r
<1>9. ASSUME actor \in mine, actor = sealed, k = <<"reads", None>> PROVE \E r \in rights : k = kind(r)
  BY <1>1, <1>9, <1>r
<1>10. ASSUME NEW s \in Sessions, NEW id \in mine, id \in rows[s].participants, k = <<"sees", s>>
       PROVE  \E r \in rights : k = kind(r)
  <2>1. <<"sees", s, id>> \in rights
    BY <1>10, <1>r
  <2> QED
    BY <1>2, <1>10, <2>1
<1> QED
  BY <1>3, <1>4, <1>5, <1>6, <1>7, <1>8, <1>9, <1>10 DEF KindGiven, rights

\* Under a complete map, the new id is what either spelling was.
LEMMA RekeyedOne ==
  ASSUME NEW map \in SUBSET People, Complete(map), NEW id \in References, id \in Ids, NEW p \in People
  PROVE  /\ Rekeyed(map, id) = New(p) <=> id \in Spelled(p)
         /\ Rekeyed(map, id) # <<p, "old">>
<1>1. PICK o \in People, spelling \in {"old", "new"} : id = <<o, spelling>>
  BY DEF Ids
<1>2. spelling = "old" <=> o \in map
  BY <1>1 DEF Complete, Person
<1>3. Rekeyed(map, id) = <<o, "new">>
  BY <1>1, <1>2 DEF Rekeyed, New, Person
<1>4. id \in Spelled(p) <=> o = p
  BY <1>1 DEF Spelled, New
<1> QED
  BY <1>3, <1>4 DEF New

LEMMA RekeyedMany ==
  ASSUME NEW map \in SUBSET People, Complete(map), NEW ids \in SUBSET References, ids \subseteq Ids, NEW p \in People
  PROVE  /\ New(p) \in RekeyedAll(map, ids) <=> \E id \in Spelled(p) : id \in ids
         /\ <<p, "old">> \notin RekeyedAll(map, ids)
BY RekeyedOne DEF RekeyedAll

\* Rights and their kinds, before the change and after it.
LEMMA KindsNow ==
  ASSUME NEW mine, NEW k
  PROVE  k \in Kinds(Rights(mine)) <=>
           KindGiven(k, mine, profile.owner, profile.access, past.participants, past.recording,
                     past.command.actor, past.command.sealedFor, session)
<1>1. Rights(mine) = RightsOf(mine, profile.owner, profile.access, past.participants, past.recording,
                              past.command.actor, past.command.sealedFor, session)
  BY DEF Rights, RightsOf
<1> QED
  BY <1>1, KindsOfRights

LEMMA KindsThen ==
  ASSUME NEW p \in People, NEW k
  PROVE  k \in Kinds(Rights({New(p)}))' <=>
           KindGiven(k, {New(p)}, profile'.owner, profile'.access, past'.participants, past'.recording,
                     past'.command.actor, past'.command.sealedFor, session')
<1>1. Rights({New(p)})' = RightsOf({New(p)}, profile'.owner, profile'.access, past'.participants, past'.recording,
                                   past'.command.actor, past'.command.sealedFor, session')
  BY DEF Rights, RightsOf, New
<1>2. Kinds(Rights({New(p)}))' = Kinds(Rights({New(p)})')
  BY DEF Kinds
<1> QED
  BY <1>1, <1>2, KindsOfRights

LEMMA RightsStep ==
  ASSUME TypeOK, CommandOpens, NEW map \in SUBSET People, Apply(map), NEW p \in People
  PROVE  /\ Kinds(Rights({New(p)}))' = Kinds(Rights(Spelled(p)))
         /\ Rights({<<p, "old">>})' = {}
<1>t. StoreOK /\ CutoverOK
  BY TypeParts
<1>c. Complete(map)
  BY DEF Apply
<1>i. /\ profile.owner \in Ids /\ past.recording \in Ids /\ past.command.actor \in Ids
      /\ profile.access \subseteq Ids /\ past.participants \subseteq Ids
      /\ \A s \in Sessions : session[s].participants \subseteq Ids
  BY <1>t DEF StoreOK, CutoverOK, Rows
<1>r. /\ profile.owner \in References /\ past.recording \in References /\ past.command.actor \in References
      /\ profile.access \subseteq References /\ past.participants \subseteq References
      /\ \A s \in Sessions : session[s].participants \subseteq References
  BY DEF References
<1>a. /\ profile'.owner = Rekeyed(map, profile.owner)
      /\ profile'.access = RekeyedAll(map, profile.access)
  BY <1>t DEF Apply, Rekey, StoreOK
<1>b. /\ past'.participants = RekeyedAll(map, past.participants)
      /\ past'.recording = Rekeyed(map, past.recording)
      /\ past'.command.actor = Rekeyed(map, past.command.actor)
      /\ past'.command.sealedFor = past'.command.actor
  BY DEF Apply, Rekey
<1>s. \A s \in Sessions : session'[s].participants = RekeyedAll(map, session[s].participants)
  BY <1>t DEF Apply, Rekey, StoreOK, Rows
<1>1. /\ profile'.owner \in {New(p)} <=> profile.owner \in Spelled(p)
      /\ past'.recording \in {New(p)} <=> past.recording \in Spelled(p)
      /\ past'.command.actor \in {New(p)} <=> past.command.actor \in Spelled(p)
  BY <1>a, <1>b, <1>c, <1>i, <1>r, RekeyedOne
<1>2. /\ New(p) \in profile'.access <=> \E id \in Spelled(p) : id \in profile.access
      /\ New(p) \in past'.participants <=> \E id \in Spelled(p) : id \in past.participants
      /\ \A s \in Sessions :
           New(p) \in session'[s].participants <=> \E id \in Spelled(p) : id \in session[s].participants
  <2>1. \A ids \in SUBSET References : ids \subseteq Ids =>
          (New(p) \in RekeyedAll(map, ids) <=> \E id \in Spelled(p) : id \in ids)
    BY <1>c, RekeyedMany
  <2>2. New(p) \in profile'.access <=> \E id \in Spelled(p) : id \in profile.access
    BY <1>a, <1>i, <1>r, <2>1
  <2>3. New(p) \in past'.participants <=> \E id \in Spelled(p) : id \in past.participants
    BY <1>b, <1>i, <1>r, <2>1
  <2>4. ASSUME NEW s \in Sessions
        PROVE  New(p) \in session'[s].participants <=> \E id \in Spelled(p) : id \in session[s].participants
    BY <1>s, <1>i, <1>r, <2>1
  <2> QED
    BY <2>2, <2>3, <2>4
<1>3. ASSUME NEW k PROVE k \in Kinds(Rights({New(p)}))' <=> k \in Kinds(Rights(Spelled(p)))
  <2>1. KindGiven(k, {New(p)}, profile'.owner, profile'.access, past'.participants, past'.recording,
                  past'.command.actor, past'.command.sealedFor, session')
          <=> KindGiven(k, Spelled(p), profile.owner, profile.access, past.participants, past.recording,
                        past.command.actor, past.command.sealedFor, session)
    BY <1>1, <1>2, <1>b DEF KindGiven, CommandOpens
  <2> QED
    BY <2>1, KindsNow, KindsThen
<1>4. /\ <<p, "old">> # profile'.owner /\ <<p, "old">> # past'.recording
      /\ <<p, "old">> # past'.command.actor
  BY <1>a, <1>b, <1>c, <1>i, <1>r, RekeyedOne
<1>5. /\ <<p, "old">> \notin profile'.access /\ <<p, "old">> \notin past'.participants
      /\ \A s \in Sessions : <<p, "old">> \notin session'[s].participants
  BY <1>a, <1>b, <1>s, <1>c, <1>i, <1>r, RekeyedMany
<1>6. Rights({<<p, "old">>})' = {}
  BY <1>4, <1>5 DEF Rights
<1>7. Kinds(Rights({New(p)}))' = Kinds(Rights(Spelled(p)))
  BY <1>3 DEF Kinds
<1> QED
  BY <1>6, <1>7

-----------------------------------------------------------------------------
(* Sign-ins. *)

\* Nothing is claimed or presented, and no request turns to either.
LEMMA NothingPresented ==
  ASSUME SignInInv, submitted' = submitted, presented' = presented,
         \A a \in Attempts : Claimed(a) => Claimed(a)',
         \A r \in Slots : handler'[r] = handler[r] \/ handler'[r].op \notin {"claim code", "present"},
         \A r \in Slots : Holds(r) => handler[r].attempt \in Attempts
  PROVE  SignInInv'
<1>1. \A r \in Slots : /\ Holds(r)' => Holds(r) /\ handler'[r] = handler[r]
                       /\ Working(r, "present")' => Working(r, "present") /\ handler'[r] = handler[r]
  BY DEF Holds, Working
<1>2. AttemptsClaimed'
  BY <1>1 DEF SignInInv, AttemptsClaimed
<1>3. OneHolder'
  <2>1. \A p, r \in Slots : p # r /\ Holds(p)' /\ Holds(r)' => handler'[p].attempt # handler'[r].attempt
    BY <1>1 DEF SignInInv, OneHolder
  <2>2. \A p, r \in Slots :
          p # r /\ Working(p, "present")' /\ Working(r, "present")' => handler'[p].code # handler'[r].code
    BY <1>1 DEF SignInInv, OneHolder
  <2> QED
    BY <2>1, <2>2 DEF OneHolder
<1>4. Unpresented'
  <2> SUFFICES ASSUME NEW r \in Slots, NEW x \in Attempts \X Codes
               PROVE  /\ Holds(r)' /\ x[1] = handler'[r].attempt => presented[x] = 0
                      /\ Working(r, "present")' /\ x[2] = handler'[r].code => presented[x] = 0
    BY DEF Unpresented
  <2>1. /\ Holds(r) /\ x[1] = handler[r].attempt => presented[x] = 0
        /\ Working(r, "present") /\ x[2] = handler[r].code => presented[x] = 0
    BY DEF SignInInv, Unpresented
  <2> QED
    BY <1>1, <2>1
<1>5. PresentedOnce'
  BY DEF SignInInv, PresentedOnce
<1> QED
  BY <1>2, <1>3, <1>4, <1>5 DEF SignInInv

LEMMA ClaimAttemptStep ==
  ASSUME TypeOK, SignInInv, NEW q \in Slots, NEW a \in Attempts, NEW code \in Codes, ClaimAttempt(q, a, code)
  PROVE  SignInInv'
<1>t. WorkOK /\ SignInOK
  BY TypeParts
<1> DEFINE w == [op |-> "claim code", attempt |-> a, code |-> code]
<1>w. w.op = "claim code" /\ w.attempt = a
  OBVIOUS
<1>1. \A r \in Slots : handler'[r] = IF r = q THEN w ELSE handler[r]
  BY <1>t, OneChanges DEF ClaimAttempt
<1> HIDE DEF w
<1>2. \A r \in Slots : r # q => Holds(r)' = Holds(r) /\ Working(r, "present")' = Working(r, "present")
                                /\ handler'[r] = handler[r]
  BY <1>1 DEF Holds, Working
<1>3. handler'[q].attempt = a /\ ~Working(q, "present")'
  BY <1>1, <1>w DEF Working
<1>4. ~Claimed(a) /\ Claimed(a)' /\ \A b \in Attempts : Claimed(b) => Claimed(b)'
  BY <1>t DEF ClaimAttempt, Claimed, SignInOK
<1>5. submitted' = submitted /\ presented' = presented
  BY DEF ClaimAttempt
<1>6. \A r \in Slots : Holds(r) => handler[r].attempt # a
  BY <1>4 DEF SignInInv, AttemptsClaimed
<1>7. \A x \in Attempts \X Codes : x[1] = a => presented[x] = 0
  BY <1>4, <1>t DEF SignInInv, AttemptsClaimed, SignInOK
<1>h. \A r \in Slots : Holds(r) => handler[r].attempt \in Attempts
  BY <1>t, WorkRead DEF Holds, Working, WorkOK
<1>8. AttemptsClaimed'
  BY <1>2, <1>3, <1>4, <1>5, <1>h DEF SignInInv, AttemptsClaimed
<1>9. OneHolder'
  BY <1>2, <1>3, <1>6 DEF SignInInv, OneHolder
<1>10. Unpresented'
  BY <1>2, <1>3, <1>5, <1>7 DEF SignInInv, Unpresented
<1>11. PresentedOnce'
  BY <1>5 DEF SignInInv, PresentedOnce
<1> QED
  BY <1>8, <1>9, <1>10, <1>11 DEF SignInInv

LEMMA ClaimCodeStep ==
  ASSUME TypeOK, SignInInv, NEW q \in Slots, ClaimCode(q)
  PROVE  SignInInv'
<1>t. WorkOK /\ SignInOK
  BY TypeParts
<1>q. handler[q] \in Work /\ handler[q].op = "claim code"
  BY <1>t DEF ClaimCode, Working, WorkOK
<1> DEFINE code == handler[q].code
           w == [handler[q] EXCEPT !.op = "present"]
<1>w. w.op = "present" /\ w.attempt = handler[q].attempt /\ w.code = code
      /\ handler[q].attempt \in Attempts /\ code \in Codes
  <2>1. w \in [op : {"present"}, attempt : {handler[q].attempt}, code : {handler[q].code}]
        /\ handler[q].attempt \in Attempts /\ handler[q].code \in Codes
    BY <1>q, WorkRead
  <2> QED
    BY <2>1
<1>1. \A r \in Slots : handler'[r] = IF r = q THEN w ELSE handler[r]
  BY <1>t, OneChanges DEF ClaimCode
<1>c. code \notin submitted /\ submitted' = submitted \cup {code}
  BY DEF ClaimCode
<1> HIDE DEF w, code
<1>2. \A r \in Slots : /\ Holds(r)' = Holds(r) /\ handler'[r].attempt = handler[r].attempt
                       /\ r # q => Working(r, "present")' = Working(r, "present") /\ handler'[r] = handler[r]
  BY <1>1, <1>q, <1>w DEF Holds, Working
<1>3. Holds(q) /\ handler'[q].code = code /\ ~Working(q, "present")
  BY <1>1, <1>q, <1>w DEF Holds, Working
<1>5. attempt' = attempt /\ presented' = presented
  BY DEF ClaimCode
<1>6. \A r \in Slots : Working(r, "present") => handler[r].code # code
  BY <1>c DEF SignInInv, AttemptsClaimed, Holds
<1>7. \A x \in Attempts \X Codes : x[2] = code => presented[x] = 0
  BY <1>c, <1>t DEF SignInInv, AttemptsClaimed, SignInOK
<1>8. AttemptsClaimed'
  BY <1>2, <1>3, <1>5, <1>c DEF SignInInv, AttemptsClaimed, Claimed
<1>9. OneHolder'
  BY <1>2, <1>3, <1>6 DEF SignInInv, OneHolder
<1>10. Unpresented'
  BY <1>2, <1>3, <1>5, <1>7 DEF SignInInv, Unpresented
<1>11. PresentedOnce'
  BY <1>5 DEF SignInInv, PresentedOnce
<1> QED
  BY <1>8, <1>9, <1>10, <1>11 DEF SignInInv

LEMMA PresentCodeStep ==
  ASSUME TypeOK, SignInInv, NEW q \in Slots, PresentCode(q)
  PROVE  SignInInv'
<1>t. WorkOK /\ SignInOK
  BY TypeParts
<1>q. handler[q] \in Work /\ handler[q].op = "present"
  BY <1>t DEF PresentCode, Working, WorkOK
<1> DEFINE y == <<handler[q].attempt, handler[q].code>>
<1>y. y \in Attempts \X Codes /\ y[1] = handler[q].attempt /\ y[2] = handler[q].code
  BY <1>q, WorkRead
<1>p. presented' = [presented EXCEPT ![y] = @ + 1]
  BY DEF PresentCode
<1> HIDE DEF y
<1>h. Holds(q) /\ Working(q, "present")
  BY <1>q DEF Holds, Working
<1>1. \A r \in Slots : handler'[r] = IF r = q THEN Free ELSE handler[r]
  BY <1>t, OneChanges DEF PresentCode, Done
<1>2. \A r \in Slots : /\ Holds(r)' => r # q /\ Holds(r) /\ handler'[r] = handler[r]
                       /\ Working(r, "present")' => r # q /\ Working(r, "present") /\ handler'[r] = handler[r]
  <2>1. Free.op = "free"
    BY DEF Free
  <2> QED
    BY <1>1, <2>1 DEF Holds, Working
<1>3. attempt' = attempt /\ submitted' = submitted
  BY DEF PresentCode
<1>4. presented[y] = 0
  BY <1>h, <1>y DEF SignInInv, Unpresented
<1>5. \A x \in Attempts \X Codes : presented'[x] = IF x = y THEN 1 ELSE presented[x]
  BY <1>p, <1>t, <1>y, <1>4 DEF SignInOK
<1>6. AttemptsClaimed'
  BY <1>2, <1>3, <1>5, <1>y, <1>h DEF SignInInv, AttemptsClaimed, Claimed
<1>7. OneHolder'
  BY <1>2 DEF SignInInv, OneHolder
<1>8. Unpresented'
  BY <1>2, <1>5, <1>y, <1>h DEF SignInInv, Unpresented, OneHolder
<1>9. \A x \in Attempts \X Codes : x # y /\ presented[x] > 0 => x[1] # y[1] /\ x[2] # y[2]
  BY <1>h, <1>y DEF SignInInv, Unpresented
<1>10. PresentedOnce'
  BY <1>5, <1>9 DEF SignInInv, PresentedOnce
<1> QED
  BY <1>6, <1>7, <1>8, <1>10 DEF SignInInv

LEMMA SignInStepKeeps == TypeOK /\ SignInInv /\ [Next]_vars => SignInInv'
<1> SUFFICES ASSUME TypeOK, SignInInv, [Next]_vars PROVE SignInInv'
  OBVIOUS
<1>t. WorkOK /\ SignInOK
  BY TypeParts
<1>h. \A r \in Slots : Holds(r) => handler[r].attempt \in Attempts
  BY <1>t, WorkRead DEF Holds, Working, WorkOK
<1>1. ASSUME submitted' = submitted, presented' = presented,
             \A a \in Attempts : Claimed(a) => Claimed(a)',
             \A r \in Slots : Elsewhere(r)
      PROVE  SignInInv'
  BY <1>h, <1>1, NothingPresented DEF Elsewhere
<1>2. CASE SharingStep /\ UNCHANGED <<usageVars, signInVars, cutoverVars>>
  <2>1. \A r \in Slots : Elsewhere(r)
    BY <1>2, SharingElsewhere
  <2> QED
    BY <1>1, <1>2, <2>1 DEF signInVars, Claimed
<1>3. CASE UsageStep /\ UNCHANGED <<signInVars, cutoverVars>>
  <2>1. ASSUME NEW r \in Slots
        PROVE  handler'[r] = handler[r] \/ handler'[r].op \notin {"claim code", "present"}
    <3>1. ASSUME NEW q \in Slots, NEW w, Start(q, w) \/ Continue(q, w), w.op \notin {"claim code", "present"}
          PROVE  handler'[r] = handler[r] \/ handler'[r].op \notin {"claim code", "present"}
      BY <1>t, <3>1, OneChanges
    <3>2. ASSUME NEW q \in Slots, WriteUsage(q)
          PROVE  handler'[r] = handler[r] \/ handler'[r].op \notin {"claim code", "present"}
      BY <3>1, <3>2 DEF WriteUsage, Done, Free
    <3>3. ASSUME NEW q \in Slots, ReadUsage(q)
          PROVE  handler'[r] = handler[r] \/ handler'[r].op \notin {"claim code", "present"}
      <4> DEFINE w == [op |-> "update usage", session |-> handler[q].session,
                       counters |-> handler[q].counters, row |-> usage[handler[q].session]]
      <4>1. w.op \notin {"claim code", "present"} /\ Continue(q, w)
        BY <3>3 DEF ReadUsage
      <4> QED
        BY <3>1, <4>1
    <3>4. ASSUME NEW q \in Slots, NEW counters \in 0 .. MaxUsage, RecordTerminal(q, counters)
          PROVE  handler'[r] = handler[r] \/ handler'[r].op \notin {"claim code", "present"}
      <4> DEFINE w == [op |-> "finalize", session |-> handler[q].session]
      <4>1. w.op \notin {"claim code", "present"} /\ Continue(q, w)
        BY <3>4 DEF RecordTerminal
      <4> QED
        BY <3>1, <4>1
    <3>5. ASSUME NEW q \in Slots, NEW p \in People, NEW s \in Sessions, BeginSample(q, p, s)
          PROVE  handler'[r] = handler[r] \/ handler'[r].op \notin {"claim code", "present"}
      <4> DEFINE w == [op |-> "sample", session |-> s, counters |-> spent[s]]
      <4>1. w.op \notin {"claim code", "present"} /\ Start(q, w)
        BY <3>5 DEF BeginSample
      <4> QED
        BY <3>1, <4>1
    <3>6. ASSUME NEW s \in Sessions, Spend(s) PROVE handler'[r] = handler[r]
      BY <3>6 DEF Spend, sharingVars, workVars
    <3> QED
      BY <1>3, <3>2, <3>3, <3>4, <3>5, <3>6 DEF UsageStep
  <2> QED
    BY <1>3, <1>h, <2>1, NothingPresented DEF signInVars, Claimed
<1>4. ASSUME NEW a \in Attempts, BeginAttempt(a) \/ AttemptLapses(a) PROVE SignInInv'
  <2>1. \A b \in Attempts : Claimed(b) => Claimed(b)'
    BY <1>4, <1>t DEF BeginAttempt, AttemptLapses, Claimed, SignInOK
  <2>2. \A r \in Slots : Elsewhere(r)
    BY <1>4 DEF BeginAttempt, AttemptLapses, Serve, sharingVars, workVars, Elsewhere
  <2> QED
    BY <1>1, <1>4, <2>1, <2>2 DEF BeginAttempt, AttemptLapses
<1>5. CASE SignInStep /\ UNCHANGED cutoverVars
  BY <1>4, <1>5, ClaimAttemptStep, ClaimCodeStep, PresentCodeStep DEF SignInStep
<1>6. ASSUME NEW map \in SUBSET People, Apply(map) PROVE SignInInv'
  <2>1. \A b \in Attempts : Claimed(b) => Claimed(b)'
    BY <1>6, <1>t DEF Apply, Void, Claimed, SignInOK
  <2>2. \A r \in Slots : Elsewhere(r)
    BY <1>6 DEF Apply, workVars, Elsewhere
  <2> QED
    BY <1>1, <1>6, <2>1, <2>2 DEF Apply
<1>7. CASE UNCHANGED vars
  BY <1>1, <1>7 DEF vars, sharingVars, workVars, signInVars, Claimed, Elsewhere
<1> QED
  BY <1>2, <1>3, <1>5, <1>6, <1>7 DEF Next

-----------------------------------------------------------------------------
(* What holds of every behaviour. *)

LEMMA SharingInitially == Init => SharingInv
<1> SUFFICES ASSUME Init PROVE SharingInv
  OBVIOUS
<1> USE SharingAssumption DEF Init, SharingInit, UsageInit, SignInInit, CutoverInit
<1>1. PICK spelling \in {"old", "new"} :
        profile = [owner |-> <<Owner, spelling>>, status |-> "active",
                   access |-> {<<p, spelling>> : p \in People}]
  OBVIOUS
<1>2. StoreOK
  BY <1>1 DEF StoreOK, Rows, Absent, Ids
<1>3. WorkOK
  BY FreeWork DEF WorkOK
<1>4. UsageOK
  BY DEF UsageOK
<1>5. SignInOK
  BY DEF SignInOK
<1>6. CutoverOK
  <2>1. PICK p \in People :
          past = [participants |-> {<<p, profile.owner[2]>>, profile.owner}, recording |-> <<p, profile.owner[2]>>,
                  command |-> [actor |-> <<p, profile.owner[2]>>, sealedFor |-> <<p, profile.owner[2]>>]]
    OBVIOUS
  <2>2. profile.owner \in Ids /\ profile.owner[2] = spelling
    BY <1>1 DEF Ids
  <2>3. <<p, profile.owner[2]>> \in Ids
    BY <2>2 DEF Ids
  <2> QED
    BY <2>1, <2>2, <2>3 DEF CutoverOK
<1>7. AccessAsGranted
  <2>1. \A p \in People : Person(<<p, spelling>>) = p
    BY DEF Person
  <2>2. profile.access = {<<p, spelling>> : p \in People} /\ profile.owner = <<Owner, spelling>> /\ granted = People
    BY <1>1
  <2>3. {Person(id) : id \in profile.access} = People
    <3>1. \A id \in profile.access : Person(id) \in People
      BY <2>1, <2>2
    <3>2. \A p \in People : <<p, spelling>> \in profile.access
      BY <2>2
    <3> QED
      BY <2>1, <3>1, <3>2
  <2> QED
    BY <2>2, <2>3 DEF AccessAsGranted
<1>8. ReadsAreLower /\ \A q \in Slots : ~Holds(q)
  BY DEF ReadsAreLower, Holds, Working, Free
<1>9. CommandOpens
  BY DEF CommandOpens
<1>10. SignInInv
  <2>1. \A x \in Attempts \X Codes : presented[x] = 0
    OBVIOUS
  <2>2. \A q \in Slots : ~Working(q, "present")
    BY <1>8 DEF Holds
  <2>3. AttemptsClaimed
    BY <1>8, <2>1, <2>2 DEF AttemptsClaimed
  <2>4. OneHolder
    BY <1>8, <2>2 DEF OneHolder
  <2>5. Unpresented
    BY <2>1 DEF Unpresented
  <2>6. PresentedOnce
    BY <2>1 DEF PresentedOnce
  <2> QED
    BY <2>3, <2>4, <2>5, <2>6 DEF SignInInv
<1> QED
  BY <1>2, <1>3, <1>4, <1>5, <1>6, <1>7, <1>8, <1>9, <1>10, TypeParts DEF SharingInv

LEMMA SharingInvStep == SharingInv /\ [Next]_vars => SharingInv'
BY TypeStep, AccessStep, ReadsStep, CommandStep, SignInStepKeeps DEF SharingInv

\* The inductive invariant of profiles, usage, sign-ins and ids holds.
THEOREM SharingInvariant == Spec => []SharingInv
BY SharingInitially, SharingInvStep, PTL DEF Spec

\* Every row and every request has its type.
THEOREM TypeCorrect == Spec => []TypeOK
<1>1. SharingInv => TypeOK
  BY DEF SharingInv
<1> QED
  BY <1>1, SharingInvariant, PTL

\* A profile is shared with exactly the people its owner named last, whatever
\* updates are in flight and whenever the ids change (update_profile).
THEOREM SharedAsGranted == Spec => []AccessAsGranted
<1>1. SharingInv => AccessAsGranted
  BY DEF SharingInv
<1> QED
  BY <1>1, SharingInvariant, PTL

\* Accounts is given neither a verifier nor a code twice (exchange, claim_token).
THEOREM CodesPresentedOnce == Spec => []PresentedOnce
<1>1. SharingInv => PresentedOnce
  BY DEF SharingInv, SignInInv
<1> QED
  BY <1>1, SharingInvariant, PTL

\* Usage does not shrink, and an ended session's bill stays as it is
\* (record_usage_snapshot).
THEOREM UsageOnlyGrows == Spec => UsageNeverShrinks
<1>1. SharingInv /\ [Next]_vars =>
        [\A s \in Sessions :
           /\ usage[s].counters <= usage'[s].counters
           /\ session[s].status = "active" => usage[s].cost <= usage'[s].cost
           /\ session[s].status = "ended" => usage'[s] = usage[s]]_vars
  BY UsageKept DEF SharingInv
<1> QED
  BY <1>1, SharingInvariant, PTL DEF Spec, UsageNeverShrinks

\* The change of ids leaves everybody the rights they had, under the new id
\* (migrate_pool).
THEOREM RightsKept == Spec => RightsSurvive
<1>1. SharingInv /\ [Next]_vars =>
        [cutover' # cutover =>
           \A p \in People :
             /\ Kinds(Rights({New(p)}))' = Kinds(Rights(Spelled(p)))
             /\ Rights({<<p, "old">>})' = {}]_vars
  <2>1. UNCHANGED cutoverVars => cutover' = cutover
    BY DEF cutoverVars
  <2>2. ASSUME SharingInv, [Next]_vars, cutover' # cutover
        PROVE  \E map \in SUBSET People : Apply(map)
    BY <2>1, <2>2 DEF Next, vars
  <2> QED
    BY <2>2, RightsStep DEF SharingInv
<1> QED
  BY <1>1, SharingInvariant, PTL DEF Spec, RightsSurvive

-----------------------------------------------------------------------------
(* The database part of the runs (DatabaseStart), for any number of starts. *)

(* What the file holds tells which releases have written to it. *)
Ledgered ==
  /\ schema \in {0, 13, 14, 15} /\ ledger \in {"absent", "empty", "applied"}
  /\ records \subseteq (Database!AuthorityTables \cup Database!OwnedTables) \X {"iam", "short", "uuid"}
  /\ iam \in BOOLEAN /\ older \in BOOLEAN /\ overlapped \in BOOLEAN /\ strayed \in BOOLEAN
  /\ pc \in [Slots -> {"down", "refused", "checked", "migrate", "failed", "serving"}]
  /\ listed \in [Slots -> {0, 13, 14, 15}]
  /\ schema = 0 => records = {}

(* Short ids are written by the earlier release only, where the cutover finds *)
(* them, and none are left when it is done.                                   *)
ShortRows ==
  \A r \in records : r[2] = "short" =>
    /\ r[1] \in Database!OwnedTables /\ schema >= 14
    /\ ledger = "applied" => strayed

(* Releases that do not overlap find the file as the others left it: none    *)
(* is at work on it that would not start on it.                              *)
UpAlone ==
  /\ iam => schema >= 13
  /\ older => schema >= 14
  /\ ~overlapped =>
       /\ iam => schema = 13 /\ ~older /\ \A p \in Slots : pc[p] = "down"
       /\ older => ~Database!HasIam
       /\ \A p \in Slots : pc[p] \in {"checked", "migrate", "serving"} => ~Database!HasIam

(* What a start read is what the file still has, but for the migrations of   *)
(* others.                                                                   *)
ReadsAgree ==
  \A p \in Slots :
    /\ pc[p] = "migrate" => listed[p] <= schema /\ (listed[p] = schema \/ p \in together)
    /\ pc[p] = "serving" => schema = 15

DatabaseInv == Ledgered /\ ShortRows /\ UpAlone /\ ReadsAgree /\ FileHasOneOwner

LEMMA DatabaseInit == Database!Init => DatabaseInv
<1> SUFFICES ASSUME Database!Init PROVE DatabaseInv
  OBVIOUS
<1> USE DEF Database!Init, Database!AuthorityTables, Database!OwnedTables, Database!Iam, Database!Short
<1>0. records \subseteq {"login_attempts", "profiles", "discovery_log"} \X {"iam", "short"}
  BY SMT
<1>a. records \subseteq (Database!AuthorityTables \cup Database!OwnedTables) \X {"iam", "short", "uuid"}
  BY <1>0
<1>1. Ledgered
  <2>1. schema \in {0, 13, 14, 15} /\ (schema = 0 => records = {})
    BY SMT
  <2>2. /\ ledger = "absent" /\ iam \in BOOLEAN /\ older \in BOOLEAN /\ overlapped \in BOOLEAN /\ strayed \in BOOLEAN
        /\ pc \in [Slots -> {"down", "refused", "checked", "migrate", "failed", "serving"}]
        /\ listed \in [Slots -> {0, 13, 14, 15}]
    OBVIOUS
  <2> HIDE DEF Database!Init, Database!AuthorityTables, Database!OwnedTables
  <2> QED  BY <1>a, <2>1, <2>2 DEF Ledgered
<1>2. ShortRows
  BY DEF ShortRows
<1>3. UpAlone /\ ReadsAgree
  BY DEF UpAlone, ReadsAgree
<1>4. schema = 14 => ~Database!HasIam
  BY DEF Database!HasIam
<1>5. FileHasOneOwner
  BY <1>4 DEF FileHasOneOwner, Database!ServesOwned, Database!IamStillStarts, Database!Restarts,
              Database!MigratesAlone, Database!Servers
<1> QED  BY <1>1, <1>2, <1>3, <1>5 DEF DatabaseInv

(* What the check before a start lets pass holds no record of the IAM release, *)
(* and what it does not let pass holds one, or one written after the cutover.  *)
LEMMA WhatIsRefused ==
  ASSUME DatabaseInv
  PROVE  IF Database!Legacy THEN Database!HasIam \/ strayed \/ schema = 0
         ELSE ~Database!HasIam /\ (schema >= 14 /\ ledger = "applied" => \A r \in records : r[2] # "short")
BY DEF DatabaseInv, Ledgered, ShortRows, Database!Legacy, Database!HasIam, Database!Checked, Database!Iam, Database!Short

Unbarred == {"checked", "migrate", "serving"}

(* A step of one start, the file as it is but for migrations. *)
LEMMA StartStep ==
  ASSUME DatabaseInv, Database!Observed, NEW p \in Slots, 
         Database!Preflight(p) \/ Database!List(p) \/ Database!Migrate(p) \/ Database!Ensure(p)
           \/ Database!Serve(p) \/ Database!Stop(p)
  PROVE  DatabaseInv'
<1> USE DEF DatabaseInv, Database!Goto, Database!file
<1>h. UNCHANGED records => Database!HasIam' = Database!HasIam
  BY DEF Database!HasIam
<1>l. CASE Database!List(p)
  <2> USE <1>l DEF Database!List
  <2>1. Ledgered' /\ ShortRows'
    BY DEF Ledgered, ShortRows, Database!Observed
  <2>2. UpAlone' /\ ReadsAgree'
    BY <1>h DEF UpAlone, ReadsAgree, Ledgered, Database!Observed
  <2>3. FileHasOneOwner'
    BY <1>h DEF FileHasOneOwner, Database!ServesOwned, Database!IamStillStarts, Database!Restarts,
              Database!MigratesAlone, Database!Servers, Ledgered, Database!Observed
  <2> QED  BY <2>1, <2>2, <2>3
<1>p. CASE Database!Preflight(p)
  <2> USE <1>p DEF Database!Preflight
  <2>1. Ledgered' /\ ShortRows'
    BY DEF Ledgered, ShortRows, Database!Observed
  <2>0. pc'[p] = "checked" => ~Database!HasIam
    BY WhatIsRefused DEF Ledgered, Database!HasIam
  <2>4. pc'[p] = "refused" => Database!HasIam \/ strayed
    BY WhatIsRefused DEF Ledgered
  <2>2. UpAlone' /\ ReadsAgree'
    BY <1>h, <2>0 DEF UpAlone, ReadsAgree, Ledgered, Database!Observed
  <2>3. FileHasOneOwner'
    BY <1>h, <2>0, <2>4 DEF FileHasOneOwner, Database!ServesOwned, Database!IamStillStarts, Database!Restarts,
              Database!MigratesAlone, Database!Servers, Ledgered, Database!Observed
  <2> QED  BY <2>1, <2>2, <2>3
<1>m. CASE Database!Migrate(p)
  <2> USE <1>m DEF Database!Migrate
  <2> DEFINE next == CHOOSE n \in Database!Steps : n > listed[p] /\ \A m \in Database!Steps : m > listed[p] => n <= m
  <2>n. next \in {13, 14, 15} /\ next > listed[p] /\ \A m \in {13, 14, 15} : m > listed[p] => next <= m
    <3>1. \E n \in Database!Steps : n > listed[p] /\ \A m \in Database!Steps : m > listed[p] => n <= m
      BY DEF Ledgered, Database!Steps
    <3> QED  BY <3>1 DEF Database!Steps
  <2>i. schema \in Nat
    BY DEF Ledgered
  <2>k. IF schema < next THEN /\ schema' = next /\ listed' = [listed EXCEPT ![p] = next]
                              /\ ledger' = IF next = 15 /\ ledger = "absent" THEN "empty" ELSE ledger
                              /\ together' = together \cup {q \in Slots \ {p} : pc[q] = "migrate"}
                              /\ UNCHANGED <<records, pc>>
        ELSE pc' = [pc EXCEPT ![p] = "failed"] /\ UNCHANGED <<schema, ledger, records, listed, together>>
    BY DEF next, Database!Creates
  <2> HIDE DEF next
  <2>u. UNCHANGED <<records, iam, older, strayed, late>> /\ pc[p] = "migrate"
    BY <2>k
  <2>f. \/ /\ schema < next /\ schema' = next /\ listed' = [listed EXCEPT ![p] = next]
           /\ ledger' = IF next = 15 /\ ledger = "absent" THEN "empty" ELSE ledger
           /\ together' = together \cup {q \in Slots \ {p} : pc[q] = "migrate"}
           /\ UNCHANGED <<records, pc>>
        \/ /\ schema >= next /\ pc' = [pc EXCEPT ![p] = "failed"]
           /\ UNCHANGED <<schema, ledger, records, listed, together>>
    BY <2>k, <2>i, <2>n
  <2> HIDE <1>m DEF Database!Migrate
  <2>1. Ledgered' /\ ShortRows'
    BY <2>n, <2>f, <2>u DEF Ledgered, ShortRows, Database!Observed
  <2>4. ReadsAgree'
    BY <2>n, <2>f, <2>u DEF ReadsAgree, Ledgered
  <2>2. UpAlone'
    BY <1>h, <2>n, <2>f, <2>u DEF UpAlone, Ledgered, Database!Observed
  <2>5. FileHasOneOwner'
    BY <1>h, <2>n, <2>f, <2>u DEF FileHasOneOwner, Database!ServesOwned, Database!IamStillStarts, Database!Restarts,
              Database!MigratesAlone, Database!Servers, Ledgered, Database!Observed, UpAlone, ReadsAgree
  <2> QED  BY <2>1, <2>2, <2>4, <2>5
<1>e. CASE Database!Ensure(p)
  <2> USE <1>e DEF Database!Ensure, Database!Refuses
  <2>1. Ledgered' /\ ShortRows'
    BY DEF Ledgered, ShortRows, Database!Observed
  <2>s. schema = 15
    BY DEF Ledgered, ReadsAgree
  <2>0. pc'[p] = "serving" => ~Database!HasIam /\ (ledger = "applied" => \A r \in records : r[2] # "short")
    BY <2>s, WhatIsRefused DEF Ledgered
  <2>4. pc'[p] = "refused" => Database!HasIam \/ strayed
    BY <2>s, WhatIsRefused DEF Ledgered
  <2>2. UpAlone' /\ ReadsAgree'
    BY <1>h, <2>0, <2>s DEF UpAlone, ReadsAgree, Ledgered, Database!Observed
  <2>3. FileHasOneOwner'
    BY <1>h, <2>0, <2>4, <2>s DEF FileHasOneOwner, Database!ServesOwned, Database!IamStillStarts, Database!Restarts,
              Database!MigratesAlone, Database!Servers, Ledgered, Database!Observed, Database!Short
  <2> QED  BY <2>1, <2>2, <2>3
<1>s. CASE Database!Serve(p)
  <2> USE <1>s DEF Database!Serve
  <2>1. PICK t \in Database!OwnedTables : records' = records \cup {<<t, "uuid">>}
    BY DEF Database!Uuid
  <2>h. Database!HasIam' = Database!HasIam
    BY <2>1 DEF Database!HasIam, Database!Iam
  <2>r. \A r \in records' : r[2] = "short" => r \in records
    BY <2>1
  <2>2. Ledgered' /\ ShortRows'
    BY <2>1, <2>r DEF Ledgered, ShortRows, ReadsAgree, Database!Observed
  <2>3. UpAlone' /\ ReadsAgree'
    BY <2>h DEF UpAlone, ReadsAgree, Ledgered, Database!Observed
  <2>4. FileHasOneOwner'
    BY <2>h, <2>r DEF FileHasOneOwner, Database!ServesOwned, Database!IamStillStarts, Database!Restarts,
              Database!MigratesAlone, Database!Servers, Ledgered, Database!Observed, Database!Short
  <2> QED  BY <2>2, <2>3, <2>4
<1>t. CASE Database!Stop(p)
  <2> USE <1>t DEF Database!Stop
  <2>1. Ledgered' /\ ShortRows'
    BY DEF Ledgered, ShortRows, Database!Observed
  <2>2. UpAlone' /\ ReadsAgree'
    BY <1>h DEF UpAlone, ReadsAgree, Ledgered, Database!Observed
  <2>3. FileHasOneOwner'
    BY <1>h DEF FileHasOneOwner, Database!ServesOwned, Database!IamStillStarts, Database!Restarts,
              Database!MigratesAlone, Database!Servers, Ledgered, Database!Observed
  <2> QED  BY <2>1, <2>2, <2>3
<1> QED  BY <1>l, <1>p, <1>m, <1>e, <1>s, <1>t

(* The cutover leaves no short id. *)
LEMMA CutoverStep ==
  ASSUME DatabaseInv, Database!Observed, Database!Cutover
  PROVE  DatabaseInv'
<1> USE DEF DatabaseInv, Database!Cutover
<1>1. \A r \in records' : r \in (Database!AuthorityTables \cup Database!OwnedTables) \X {"iam", "uuid"}
  BY DEF Ledgered, ShortRows, Database!Rekeyed, Database!References, Database!Short, Database!Uuid
<1>2. ~Database!HasIam
  BY WhatIsRefused
<1>3. ~Database!HasIam'
  BY <1>2 DEF Database!HasIam, Database!Rekeyed, Database!Iam, Database!Uuid, Database!Short
<1>4. Ledgered' /\ ShortRows'
  BY <1>1 DEF Ledgered, ShortRows, Database!Observed
<1>5. UpAlone' /\ ReadsAgree'
  BY <1>2, <1>3 DEF UpAlone, ReadsAgree, Ledgered, Database!Observed
<1>6. FileHasOneOwner'
  BY <1>1, <1>2, <1>3 DEF FileHasOneOwner, Database!ServesOwned, Database!IamStillStarts, Database!Restarts,
              Database!MigratesAlone, Database!Servers, Ledgered, Database!Observed, Database!Short
<1> QED  BY <1>4, <1>5, <1>6

(* Records of another release are written. *)
LEMMA RowsWritten ==
  ASSUME Ledgered, schema >= 14, UNCHANGED <<schema, ledger, iam, older, pc, listed>>,
         (records \subseteq (Database!AuthorityTables \cup Database!OwnedTables) \X {"iam", "short", "uuid"})',
         strayed' \in BOOLEAN, overlapped' \in BOOLEAN
  PROVE  Ledgered'
BY DEF Ledgered

(* The other releases. *)
LEMMA OthersStep ==
  ASSUME DatabaseInv, Database!Observed,
         Database!IamStarts \/ Database!IamWrites \/ Database!IamStops
           \/ Database!OlderStarts \/ Database!OlderWrites \/ Database!OlderStops
  PROVE  DatabaseInv'
<1> USE DEF DatabaseInv, Database!file
<1>h. UNCHANGED records => Database!HasIam' = Database!HasIam
  BY DEF Database!HasIam
<1>1. CASE Database!IamStarts
  <2> USE <1>1 DEF Database!IamStarts, Database!Interrupted
  <2>1. Ledgered' /\ ShortRows'
    BY DEF Ledgered, ShortRows, Database!Observed
  <2>a. ~overlapped' => ~overlapped /\ ~older /\ \A p \in Slots : pc[p] = "down"
    BY Zenon DEF Database!Observed
  <2>2. UpAlone'
    BY <1>h, <2>a DEF UpAlone, Ledgered, Database!Observed
  <2>3. ReadsAgree'
    BY DEF ReadsAgree, Ledgered
  <2>4. FileHasOneOwner'
    BY <1>h DEF FileHasOneOwner, Database!ServesOwned, Database!IamStillStarts, Database!Restarts,
              Database!MigratesAlone, Database!Servers, Ledgered, UpAlone, Database!Observed
  <2> QED  BY <2>1, <2>2, <2>3, <2>4
<1>5. CASE Database!OlderStarts
  <2> USE <1>5 DEF Database!OlderStarts, Database!Interrupted
  <2>o. ~Database!HasIam
    BY DEF Database!HasIam, Database!Iam
  <2>1. Ledgered' /\ ShortRows'
    BY DEF Ledgered, ShortRows, Database!Observed
  <2>2. UpAlone'
    BY <1>h, <2>o DEF UpAlone, Ledgered, Database!Observed
  <2>3. ReadsAgree'
    BY DEF ReadsAgree, Ledgered
  <2>4. FileHasOneOwner'
    BY <1>h, <2>o DEF FileHasOneOwner, Database!ServesOwned, Database!IamStillStarts, Database!Restarts,
              Database!MigratesAlone, Database!Servers, Ledgered, UpAlone, Database!Observed
  <2> QED  BY <2>1, <2>2, <2>3, <2>4
<1>2. CASE Database!IamWrites
  <2> USE <1>2 DEF Database!IamWrites
  <2>1. PICK t \in Database!AuthorityTables \cup Database!OwnedTables : records' = records \cup {<<t, "iam">>}
    BY DEF Database!Iam
  <2>h. Database!HasIam'
    <3>1. <<t, "iam">> \in records' /\ <<t, "iam">>[2] = "iam"
      BY <2>1
    <3> QED  BY <3>1 DEF Database!HasIam, Database!Iam
  <2>r. \A r \in records' : r[2] = "short" => r \in records
    BY <2>1
  <2>2. Ledgered' /\ ShortRows'
    BY <2>1, <2>r DEF Ledgered, ShortRows, UpAlone, Database!Observed
  <2>3. UpAlone' /\ ReadsAgree'
    BY DEF UpAlone, ReadsAgree, Ledgered, Database!Observed
  <2>4. FileHasOneOwner'
    BY <2>h, <2>r DEF FileHasOneOwner, Database!ServesOwned, Database!IamStillStarts, Database!Restarts,
              Database!MigratesAlone, Database!Servers, Ledgered, UpAlone, Database!Observed, Database!Short
  <2> QED  BY <2>2, <2>3, <2>4
<1>3. CASE Database!OlderWrites
  <2> USE <1>3 DEF Database!OlderWrites
  <2>1. PICK t \in Database!OwnedTables : records' = records \cup {<<t, "short">>}
    BY DEF Database!Short
  <2>h. Database!HasIam' = Database!HasIam
    BY <2>1 DEF Database!HasIam, Database!Iam
  <2>b. strayed' \in BOOLEAN /\ overlapped' \in BOOLEAN
    BY Zenon DEF Database!Observed
  <2>c. /\ (records \subseteq (Database!AuthorityTables \cup Database!OwnedTables) \X {"iam", "short", "uuid"})'
        /\ schema >= 14
    BY <2>1 DEF Ledgered, UpAlone
  <2>u. UNCHANGED <<schema, ledger, iam, older, pc, listed>>
    OBVIOUS
  <2>d. Ledgered'
    BY <2>b, <2>c, <2>u, RowsWritten
  <2>e. \A r \in records' : r \in records \/ r[1] \in Database!OwnedTables
    BY <2>1
  <2>f. ledger = "applied" => strayed'
    BY Zenon
  <2>2. Ledgered' /\ ShortRows'
    BY <2>c, <2>d, <2>e, <2>f, <2>u DEF ShortRows
  <2>3. UpAlone' /\ ReadsAgree'
    BY <2>h DEF UpAlone, ReadsAgree, Ledgered, Database!Observed
  <2>4. FileHasOneOwner'
    BY <2>h DEF FileHasOneOwner, Database!ServesOwned, Database!IamStillStarts, Database!Restarts,
              Database!MigratesAlone, Database!Servers, Ledgered, UpAlone, Database!Observed
  <2> QED  BY <2>2, <2>3, <2>4
<1>4. CASE Database!IamStops \/ Database!OlderStops
  <2> USE <1>4 DEF Database!IamStops, Database!OlderStops
  <2>1. Ledgered' /\ ShortRows'
    BY DEF Ledgered, ShortRows, Database!Observed
  <2>2. UpAlone' /\ ReadsAgree'
    BY <1>h DEF UpAlone, ReadsAgree, Ledgered, Database!Observed
  <2>3. FileHasOneOwner'
    BY <1>h DEF FileHasOneOwner, Database!ServesOwned, Database!IamStillStarts, Database!Restarts,
              Database!MigratesAlone, Database!Servers, Ledgered, Database!Observed
  <2> QED  BY <2>1, <2>2, <2>3
<1> QED  BY <1>1, <1>2, <1>3, <1>4, <1>5

LEMMA DatabaseStep == DatabaseInv /\ [Database!Next]_databaseVars => DatabaseInv'
<1> SUFFICES ASSUME DatabaseInv, [Database!Next]_databaseVars PROVE DatabaseInv'
  OBVIOUS
<1>1. CASE UNCHANGED databaseVars
  BY <1>1 DEF databaseVars, DatabaseInv, Ledgered, ShortRows, UpAlone, ReadsAgree, FileHasOneOwner, Database!HasIam,
              Database!ServesOwned, Database!IamStillStarts, Database!Restarts, Database!MigratesAlone, Database!Servers
<1>2. CASE Database!Next
  BY <1>2, StartStep, CutoverStep, OthersStep DEF Database!Next, Database!Step
<1> QED  BY <1>1, <1>2

(* A file is served, migrated or refused according to whose records it       *)
(* holds, whatever releases start, crash, migrate and write at the same time *)
(* (check_accounts_ownership, open, migrate_pool).                           *)
THEOREM FileKeepsOneOwner == MCSpec => []FileHasOneOwner
<1>1. MCInit => DatabaseInv
  BY DatabaseInit DEF MCInit
<1>2. DatabaseInv /\ [MCNext]_<<part, vars, listingVars, filterVars, databaseVars>> => DatabaseInv'
  BY DatabaseStep DEF MCNext, SharingPart, ListingPart, FilterPart, DatabasePart
<1>3. DatabaseInv => FileHasOneOwner
  BY DEF DatabaseInv
<1> QED  BY <1>1, <1>2, <1>3, PTL DEF MCSpec

-----------------------------------------------------------------------------
(* The listing part (Listings), for any people, sessions, names and filters. *)

(* What is listed of given rows to a viewer, and what a filter then says of *)
(* a row that is shown.                                                     *)
ListingOf(rows, access, r) ==
  {List!Shown(rows, s) : s \in {s \in Sessions :
     /\ List!VisibleIn(rows, access, s, r.viewer)
     /\ List!Matches(r.kind, r.text, rows[s], s, r.viewer)}}

Against(stage, shown, row, viewer) ==
  \/ stage.key = "for" /\ stage.word \notin shown.participants
  \/ stage.key = "profile" /\ shown.id \notin OnProfile
  \/ stage.key = "name" /\ row.name # stage.word
  \/ stage.key = "between" /\ row.day \notin stage.from..stage.to
  \/ /\ stage.key = "is"
     /\ \/ stage.word \in {"active", "ended", "expired"} /\ shown.status # stage.word
        \/ stage.word = "incognito" /\ shown.id \in OnProfile
        \/ stage.word = "shared" /\ row.owner = viewer

LEMMA ListingNow ==
  /\ \A rows, access : List!Listing(rows, access) = ListingOf(rows, access, request)
  /\ List!Listing(listable, shared)' = ListingOf(listable', shared', request')
BY DEF List!Listing, ListingOf

LEMMA ContradictsNow ==
  /\ \A stage, shown : List!Contradicts(stage, shown) <=> Against(stage, shown, listable[shown.id], request.viewer)
BY DEF List!Contradicts, Against

(* What a row that matches shows, no stage is against. *)
LEMMA MatchesObeys ==
  ASSUME NEW kind, NEW filter, NEW row, NEW s, NEW viewer, NEW now, NEW shown,
         List!Matches(kind, filter, row, s, viewer), row.owner \in row.participants,
         now.owner = row.owner, now.name = row.name, now.day = row.day,
         shown.id = s, shown.participants = row.participants, shown.status = List!Status(row)
  PROVE  \A i \in DOMAIN filter : ~Against(filter[i], shown, now, viewer)
<1> TAKE i \in DOMAIN filter
<1>1. CASE List!Blank(filter)
  <2>1. filter[i].key = "blank"
    BY <1>1 DEF List!Blank
  <2> QED  BY <2>1 DEF Against
<1>2. CASE List!Holds(kind, filter[i], row, s, viewer)
  BY <1>2 DEF List!Holds, List!For, List!IsParticipant, Against
<1> QED  BY <1>1, <1>2 DEF List!Matches

-----------------------------------------------------------------------------
RowType == [status : {"absent", "starting", "active", "ending", "ended", "failed", "expired"},
            owner : People \cup {None}, participants : SUBSET People,
            name : Names \cup {None}, day : Days \cup {0}, usage : Nat]

RowsTyped ==
  /\ listable \in [Sessions -> RowType]
  /\ \A s \in Sessions : List!Exists(s) => listable[s].owner \in listable[s].participants

(* What is known of a row does not change once it exists. *)
Kept(row, now) == now.status # "absent" /\ now.owner = row.owner /\ now.name = row.name /\ now.day = row.day

Opening == {"resolve", "rows", "participants"}
Asking == {"row", "participant", "access", "actors", "usage"}

RequestShaped ==
  /\ request = [pc |-> request.pc, kind |-> request.kind, viewer |-> request.viewer, text |-> request.text,
                snapshot |-> request.snapshot, todo |-> request.todo, row |-> request.row, answer |-> request.answer]
  /\ request.pc \in Opening \cup Asking \cup {"idle", "each", "answered"}
  /\ request.pc \in Opening \cup Asking \cup {"idle"} => request.answer = {}
  /\ request.pc \in Opening => request.kind \in {"sessions", "recordings", "usage"}
  /\ request.pc = "each" => request.kind = "recordings"
  /\ request.pc \in Asking => request.kind = "one"
  /\ request.kind = "one" => request.text = <<>>
  /\ request.todo \subseteq Sessions

(* Between its two statements a list has a snapshot of one moment. *)
SnapshotKept ==
  request.pc = "participants" =>
    LET rows == request.snapshot.rows  access == request.snapshot.access IN
    /\ ListingOf(rows, access, request) \in answers
    /\ \A s \in Sessions :
         /\ List!VisibleIn(rows, access, s, request.viewer) => s \in seen
         /\ rows[s].status # "absent" => Kept(rows[s], listable[s]) /\ rows[s].owner \in rows[s].participants

(* What a list of recordings has still to read, or has read, could be seen,  *)
(* and nothing that was listed all the while is missing.                     *)
Always == {s \in Sessions : \A answer \in answers : \E shown \in answer : shown.id = s}
EachKept ==
  request.pc = "each" =>
    /\ request.todo \cup List!AnswerIds \subseteq seen
    /\ \A s \in request.todo : List!Exists(s)
    /\ Always \subseteq request.todo \cup List!AnswerIds

(* A single session was seen before it is read. *)
OneKept ==
  /\ request.pc \in Asking \ {"row"} => \A s \in request.todo : List!Exists(s)
  /\ request.pc = "access" => request.todo \subseteq OnProfile
  /\ request.pc \in {"actors", "usage"} => request.todo \subseteq seen

AnswerKept ==
  \A shown \in request.answer :
    /\ shown.id \in Sessions /\ List!Exists(shown.id)
    /\ \A i \in DOMAIN request.text : ~Against(request.text[i], shown, listable[shown.id], request.viewer)

AnsweredWell == List!ListIsOneMoment /\ List!RecordingsComplete /\ List!ShownWasVisible

ListInv == RowsTyped /\ RequestShaped /\ SnapshotKept /\ EachKept /\ OneKept /\ AnswerKept /\ AnsweredWell

LEMMA ListInvObeys == ListInv => List!StagesObeyed
BY ContradictsNow DEF ListInv, AnswerKept, List!StagesObeyed

LEMMA ListInit == List!Init => ListInv
<1> SUFFICES ASSUME List!Init PROVE ListInv
  OBVIOUS
<1>1. request = [pc |-> "idle", kind |-> None, viewer |-> None, text |-> <<>>, snapshot |-> None,
                 todo |-> {}, row |-> None, answer |-> {}]
  BY DEF List!Init, List!Idle
<1>2. \A s \in Sessions :
        listable[s] = [status |-> "absent", owner |-> None, participants |-> {}, name |-> None, day |-> 0, usage |-> 0]
  BY DEF List!Init, List!Absent
<1>3. RowsTyped
  BY <1>2 DEF RowsTyped, RowType, List!Exists, List!Init, List!Absent
<1>4. RequestShaped
  BY <1>1 DEF RequestShaped, Opening, Asking
<1>5. SnapshotKept /\ EachKept /\ OneKept /\ AnswerKept /\ AnsweredWell
  BY <1>1 DEF SnapshotKept, EachKept, OneKept, AnswerKept, AnsweredWell, Asking, List!ListIsOneMoment,
              List!RecordingsComplete, List!ShownWasVisible
<1> QED  BY <1>3, <1>4, <1>5 DEF ListInv

(* After a step the history holds what could be told before, and now. *)
LEMMA Observed ==
  ASSUME List!Observe, request'.pc # "idle"
  PROVE  /\ answers \subseteq answers' /\ ListingOf(listable', shared', request') \in answers'
         /\ seen \subseteq seen'
         /\ \A s \in Sessions : List!VisibleIn(listable', shared', s, request'.viewer) => s \in seen'
         /\ Always' \subseteq Always
<1>1. answers' = answers \cup {ListingOf(listable', shared', request')}
  BY ListingNow DEF List!Observe
<1>2. seen' = seen \cup {s \in Sessions : List!VisibleIn(listable', shared', s, request'.viewer)}
  BY DEF List!Observe
<1>3. Always' \subseteq Always
  BY <1>1 DEF Always
<1> QED  BY <1>1, <1>2, <1>3

LEMMA AnswersNow ==
  /\ List!AnswerIds = {shown.id : shown \in request.answer}
  /\ List!AnswerIds' = {shown.id : shown \in request'.answer}
BY DEF List!AnswerIds

(* Nothing is asserted of a request that has read nothing. *)
LEMMA NothingRead ==
  ASSUME request'.pc \in {"idle", "resolve", "rows", "row"}, request'.answer = {}
  PROVE  SnapshotKept' /\ EachKept' /\ OneKept' /\ AnswerKept' /\ AnsweredWell'
BY DEF Asking, SnapshotKept, EachKept, OneKept, AnswerKept, AnsweredWell, List!ListIsOneMoment,
       List!RecordingsComplete, List!ShownWasVisible

(* What others commit disturbs no request. *)
LEMMA CommitKeeps ==
  ASSUME ListInv, List!Observe, request' = request, RowsTyped',
         \A s \in Sessions : List!Exists(s) => Kept(listable[s], listable'[s])
  PROVE  ListInv'
<1>1. RequestShaped'
  BY DEF ListInv, RequestShaped
<1>2. CASE request.pc = "idle"
  <2>1. SnapshotKept' /\ EachKept' /\ OneKept' /\ AnswerKept' /\ AnsweredWell'
    <3>1. request'.pc = "idle" /\ request'.answer = {}
      BY <1>2 DEF ListInv, RequestShaped
    <3> QED  BY <3>1, NothingRead
  <2> QED  BY <1>1, <2>1 DEF ListInv
<1>3. CASE request.pc # "idle"
  <2>0. /\ answers \subseteq answers' /\ seen \subseteq seen' /\ Always' \subseteq Always
        /\ List!AnswerIds' = List!AnswerIds
        /\ \A s \in Sessions : List!Exists(s) => List!Exists(s)' /\ Kept(listable[s], listable'[s])
    BY <1>3, Observed, AnswersNow DEF List!Exists, Kept
  <2>1. SnapshotKept'
    <3>1. CASE request.pc = "participants"
      <4> DEFINE rows == request.snapshot.rows
                 access == request.snapshot.access
      <4>1. /\ ListingOf(rows, access, request) \in answers
            /\ \A s \in Sessions :
                 /\ List!VisibleIn(rows, access, s, request.viewer) => s \in seen
                 /\ rows[s].status # "absent" => Kept(rows[s], listable[s]) /\ rows[s].owner \in rows[s].participants
        BY <3>1 DEF ListInv, SnapshotKept
      <4>2. ASSUME NEW s \in Sessions, rows[s].status # "absent" PROVE Kept(rows[s], listable'[s])
        BY <2>0, <4>1, <4>2 DEF Kept, List!Exists
      <4> HIDE DEF rows, access
      <4>3. /\ ListingOf(rows, access, request) \in answers'
            /\ \A s \in Sessions :
                 /\ List!VisibleIn(rows, access, s, request.viewer) => s \in seen'
                 /\ rows[s].status # "absent" => Kept(rows[s], listable'[s]) /\ rows[s].owner \in rows[s].participants
        BY <2>0, <4>1, <4>2
      <4> QED  BY <4>3 DEF SnapshotKept, rows, access
    <3> QED  BY <3>1 DEF SnapshotKept
  <2>2. EachKept'
    BY <2>0 DEF ListInv, EachKept, RequestShaped
  <2>3. OneKept'
    BY <2>0 DEF ListInv, OneKept, RequestShaped
  <2>4. AnswerKept'
    BY <2>0 DEF ListInv, AnswerKept, Against, Kept
  <2>5. AnsweredWell'
    BY <2>0 DEF ListInv, AnsweredWell, List!ListIsOneMoment, List!RecordingsComplete, List!ShownWasVisible, Always
  <2> QED  BY <1>1, <2>1, <2>2, <2>3, <2>4, <2>5 DEF ListInv
<1> QED  BY <1>2, <1>3

LEMMA CommitStep ==
  ASSUME ListInv, List!Observe,
         \/ \E s \in Sessions, p \in People, name \in Names, day \in Days : List!Reserve(s, p, name, day)
         \/ \E s \in Sessions, p \in People : List!Associate(s, p)
         \/ \E s \in Sessions, status \in {"active", "failed", "ending", "ended", "expired"} : List!Advance(s, status)
         \/ \E s \in Sessions : List!RecordUsage(s)
         \/ \E people \in SUBSET People : List!Share(people)
  PROVE  ListInv'
<1>0. RowsTyped
  BY DEF ListInv
<1>1. request' = request
  BY DEF List!Reserve, List!Associate, List!Advance, List!RecordUsage, List!Share, List!Write
<1>2. ASSUME NEW s \in Sessions, NEW row \in RowType, List!Write(s, row), row.status # "absent",
             row.owner \in row.participants, List!Exists(s) => Kept(listable[s], row)
      PROVE  ListInv'
  <2>1. listable' = [listable EXCEPT ![s] = row]
    BY <1>2 DEF List!Write
  <2>2. RowsTyped'
    BY <1>0, <1>2, <2>1 DEF RowsTyped, List!Exists
  <2>3. \A i \in Sessions : List!Exists(i) => Kept(listable[i], listable'[i])
    BY <1>0, <1>2, <2>1 DEF RowsTyped, List!Exists, Kept
  <2> QED  BY <1>1, <2>2, <2>3, CommitKeeps
<1>3. ASSUME NEW s \in Sessions, NEW p \in People, NEW name \in Names, NEW day \in Days, List!Reserve(s, p, name, day)
      PROVE  ListInv'
  <2> DEFINE row == [status |-> "starting", owner |-> p, participants |-> {p}, name |-> name, day |-> day, usage |-> 0]
  <2>1. row \in RowType /\ row.status # "absent" /\ row.owner \in row.participants /\ ~List!Exists(s) /\ List!Write(s, row)
    BY <1>3 DEF List!Reserve, RowType
  <2> HIDE DEF row
  <2> QED  BY <1>2, <2>1
<1>4. ASSUME NEW s \in Sessions, NEW p \in People, List!Associate(s, p)
      PROVE  ListInv'
  <2> DEFINE row == [listable[s] EXCEPT !.participants = @ \cup {p}]
  <2>1. listable[s] \in RowType /\ listable[s].status = "active" /\ List!Write(s, row)
    BY <1>0, <1>4 DEF List!Associate, RowsTyped
  <2>2. row \in RowType /\ row.status = "active" /\ row.owner = listable[s].owner /\ row.name = listable[s].name
        /\ row.day = listable[s].day /\ row.participants = listable[s].participants \cup {p}
    BY <2>1 DEF RowType
  <2>3. row.owner \in row.participants /\ Kept(listable[s], row)
    BY <1>0, <2>1, <2>2 DEF RowsTyped, List!Exists, Kept
  <2> HIDE DEF row
  <2> QED  BY <1>2, <2>1, <2>2, <2>3
<1>5. ASSUME NEW s \in Sessions, NEW status \in {"active", "failed", "ending", "ended", "expired"}, List!Advance(s, status)
      PROVE  ListInv'
  <2> DEFINE row == [listable[s] EXCEPT !.status = status]
  <2>1. listable[s] \in RowType /\ listable[s].status # "absent" /\ List!Write(s, row)
    BY <1>0, <1>5 DEF List!Advance, RowsTyped
  <2>2. row \in RowType /\ row.status = status /\ row.owner = listable[s].owner /\ row.name = listable[s].name
        /\ row.day = listable[s].day /\ row.participants = listable[s].participants
    BY <2>1 DEF RowType
  <2>3. row.owner \in row.participants /\ Kept(listable[s], row)
    BY <1>0, <2>1, <2>2 DEF RowsTyped, List!Exists, Kept
  <2> HIDE DEF row
  <2> QED  BY <1>2, <2>1, <2>2, <2>3
<1>6. ASSUME NEW s \in Sessions, List!RecordUsage(s)
      PROVE  ListInv'
  <2> DEFINE row == [listable[s] EXCEPT !.usage = @ + 1]
  <2>1. listable[s] \in RowType /\ listable[s].status \in {"active", "ending"} /\ List!Write(s, row)
    BY <1>0, <1>6 DEF List!RecordUsage, RowsTyped
  <2>2. row \in RowType /\ row.status = listable[s].status /\ row.owner = listable[s].owner /\ row.name = listable[s].name
        /\ row.day = listable[s].day /\ row.participants = listable[s].participants
    BY <2>1 DEF RowType
  <2>3. row.owner \in row.participants /\ Kept(listable[s], row)
    BY <1>0, <2>1, <2>2 DEF RowsTyped, List!Exists, Kept
  <2> HIDE DEF row
  <2> QED  BY <1>2, <2>1, <2>2, <2>3
<1>7. ASSUME NEW people \in SUBSET People, List!Share(people)
      PROVE  ListInv'
  <2>1. listable' = listable
    BY <1>7 DEF List!Share
  <2>2. RowsTyped' /\ \A s \in Sessions : List!Exists(s) => Kept(listable[s], listable'[s])
    BY <1>0, <2>1 DEF RowsTyped, List!Exists, Kept
  <2> QED  BY <1>1, <2>2, CommitKeeps
<1> QED  BY <1>3, <1>4, <1>5, <1>6, <1>7

LEMMA RowsSame == RowsTyped /\ listable' = listable => RowsTyped'
BY DEF RowsTyped, List!Exists

LEMMA BeginStep ==
  ASSUME ListInv, List!Observe,
         \/ \E kind \in List!Kinds, p \in People, filter \in Filters : List!Begin(kind, p, filter)
         \/ \E p \in People, s \in Sessions : List!Ask(p, s)
         \/ List!Resolve
         \/ List!Done
  PROVE  ListInv'
<1>1. listable' = listable
  BY Zenon DEF List!Begin, List!Ask, List!Resolve, List!Done, List!Read
<1>2. RowsTyped'
  BY <1>1, RowsSame DEF ListInv
<1>3. ASSUME request'.pc \in {"idle", "resolve", "rows", "row"}, RequestShaped' PROVE ListInv'
  <2>1. request'.answer = {}
    BY <1>3 DEF RequestShaped, Opening, Asking
  <2> QED  BY <1>2, <1>3, <2>1, NothingRead DEF ListInv
<1>4. ASSUME request' = List!Idle PROVE ListInv'
  <2>1. request' = [pc |-> "idle", kind |-> None, viewer |-> None, text |-> <<>>, snapshot |-> None,
                    todo |-> {}, row |-> None, answer |-> {}]
    BY <1>4 DEF List!Idle
  <2>2. request'.pc = "idle" /\ RequestShaped'
    BY <2>1 DEF RequestShaped, Opening, Asking
  <2> QED  BY <1>3, <2>2
<1>5. ASSUME NEW kind \in List!Kinds, NEW p \in People, NEW filter \in Filters, List!Begin(kind, p, filter) PROVE ListInv'
  <2>1. kind \in {"sessions", "recordings", "usage"} /\ 
        request' = [pc |-> "resolve", kind |-> kind, viewer |-> p, text |-> filter, snapshot |-> None,
                    todo |-> {}, row |-> None, answer |-> {}]
    BY <1>5, Zenon DEF List!Begin, List!Idle, List!Kinds
  <2>2. request'.pc = "resolve" /\ RequestShaped'
    BY <2>1 DEF RequestShaped, Opening, Asking
  <2> QED  BY <1>3, <2>2
<1>6. ASSUME NEW p \in People, NEW s \in Sessions, List!Ask(p, s) PROVE ListInv'
  <2>1. request' = [pc |-> "row", kind |-> "one", viewer |-> p, text |-> <<>>, snapshot |-> None,
                    todo |-> {s}, row |-> None, answer |-> {}]
    BY <1>6, Zenon DEF List!Ask, List!Idle
  <2>2. request'.pc = "row" /\ RequestShaped'
    BY <2>1 DEF RequestShaped, Opening, Asking
  <2> QED  BY <1>3, <2>2
<1>7. ASSUME request.pc = "resolve", request' = [request EXCEPT !.pc = "rows"] PROVE ListInv'
  <2>1. RequestShaped /\ request' = [pc |-> "rows", kind |-> request.kind, viewer |-> request.viewer, text |-> request.text,
                    snapshot |-> request.snapshot, todo |-> request.todo, row |-> request.row, answer |-> request.answer]
    BY <1>7 DEF ListInv, RequestShaped
  <2>2. request'.pc = "rows" /\ RequestShaped'
    BY <1>7, <2>1 DEF RequestShaped, Opening, Asking
  <2> QED  BY <1>3, <2>2
<1> QED  BY <1>4, <1>5, <1>6, <1>7 DEF List!Resolve, List!Done, List!Read

(* The first statement of a list: the rows are those of this moment. *)
LEMMA RowsStep ==
  ASSUME ListInv, List!Observe, List!ReadRows
  PROVE  ListInv'
<1>1. /\ listable' = listable /\ shared' = shared /\ RowsTyped /\ RequestShaped /\ request.pc = "rows"
      /\ request' = [request EXCEPT !.pc = "participants", !.snapshot = [rows |-> listable, access |-> shared]]
  BY DEF List!ReadRows, List!Read, ListInv
<1>2. request' = [pc |-> "participants", kind |-> request.kind, viewer |-> request.viewer, text |-> request.text,
                  snapshot |-> [rows |-> listable, access |-> shared], todo |-> request.todo, row |-> request.row,
                  answer |-> request.answer]
  BY <1>1, Zenon DEF RequestShaped
<1>3. RowsTyped'
  BY <1>1, RowsSame
<1>4. RequestShaped'
  BY <1>1, <1>2, Zenon DEF RequestShaped, Opening, Asking
<1>5. SnapshotKept'
  <2>1. ListingOf(listable, shared, request') \in answers'
    BY <1>1, <1>2, Observed
  <2>2. \A s \in Sessions : List!VisibleIn(listable, shared, s, request'.viewer) => s \in seen'
    BY <1>1, <1>2, Observed
  <2>3. \A s \in Sessions :
          listable[s].status # "absent" => Kept(listable[s], listable'[s]) /\ listable[s].owner \in listable[s].participants
    BY <1>1 DEF RowsTyped, Kept, List!Exists
  <2>4. request'.snapshot.rows = listable /\ request'.snapshot.access = shared
    BY <1>2
  <2> QED  BY <2>1, <2>2, <2>3, <2>4 DEF SnapshotKept
<1>6. request'.answer = {}
  BY <1>1, <1>2 DEF RequestShaped, Opening
<1>7. EachKept' /\ OneKept' /\ AnswerKept' /\ AnsweredWell'
  BY <1>2, <1>6 DEF EachKept, OneKept, Asking, AnswerKept, AnsweredWell, List!ListIsOneMoment,
       List!RecordingsComplete, List!ShownWasVisible
<1> QED  BY <1>3, <1>4, <1>5, <1>7 DEF ListInv

(* The second: what is listed was so at the moment of the first. *)
LEMMA ParticipantsStep ==
  ASSUME ListInv, List!Observe, List!ReadParticipants
  PROVE  ListInv'
<1> DEFINE rows == request.snapshot.rows
           access == request.snapshot.access
<1>1. /\ listable' = listable /\ shared' = shared /\ RowsTyped /\ RequestShaped /\ request.pc = "participants"
      /\ request.kind \in {"sessions", "recordings", "usage"} /\ request.answer = {} /\ request.todo \subseteq Sessions
  BY DEF List!ReadParticipants, List!Answered, List!Read, ListInv, RequestShaped, Opening
<1>2. /\ ListingOf(rows, access, request) \in answers
      /\ \A s \in Sessions :
           /\ List!VisibleIn(rows, access, s, request.viewer) => s \in seen
           /\ rows[s].status # "absent" => Kept(rows[s], listable[s]) /\ rows[s].owner \in rows[s].participants
  BY <1>1 DEF ListInv, SnapshotKept
<1>3. RowsTyped'
  BY <1>1, RowsSame
<1>4. CASE request.kind = "recordings"
  <2> DEFINE visible == {s \in Sessions : List!VisibleIn(rows, access, s, request.viewer)}
  <2>1. request' = [request EXCEPT !.pc = "each", !.snapshot = None, !.todo = visible]
    BY <1>4 DEF List!ReadParticipants, List!Read
  <2> HIDE DEF visible
  <2>2. request' = [pc |-> "each", kind |-> request.kind, viewer |-> request.viewer, text |-> request.text,
                    snapshot |-> None, todo |-> visible, row |-> request.row, answer |-> {}]
    BY <1>1, <2>1, Zenon DEF RequestShaped
  <2>3. visible \subseteq Sessions /\ visible \subseteq seen /\ \A s \in visible : List!Exists(s)
    BY <1>2 DEF visible, List!VisibleIn, Kept, List!Exists
  <2>4. Always \subseteq visible
    <3>1. Always \subseteq {s \in Sessions : \E shown \in ListingOf(rows, access, request) : shown.id = s}
      BY <1>2 DEF Always
    <3>2. \A shown \in ListingOf(rows, access, request) : shown.id \in visible
      BY DEF ListingOf, List!Shown, visible
    <3> HIDE DEF rows, access
    <3> QED  BY <3>1, <3>2
  <2>5. RequestShaped'
    BY <1>1, <1>4, <2>2, <2>3 DEF RequestShaped, Opening, Asking
  <2>6. request'.pc # "idle" /\ List!AnswerIds' = {}
    BY <2>2, AnswersNow
  <2>7. EachKept'
    <3>1. \A s \in visible : List!Exists(s)'
      BY <1>1, <2>3 DEF List!Exists
    <3> QED  BY <2>2, <2>3, <2>4, <2>6, <3>1, Observed DEF EachKept
  <2>8. SnapshotKept' /\ OneKept' /\ AnswerKept' /\ AnsweredWell'
    BY <2>2 DEF SnapshotKept, OneKept, Asking, AnswerKept, AnsweredWell, List!ListIsOneMoment,
       List!RecordingsComplete, List!ShownWasVisible
  <2> QED  BY <1>3, <2>5, <2>7, <2>8 DEF ListInv
<1>5. CASE request.kind # "recordings"
  <2> DEFINE listing == ListingOf(rows, access, request)
  <2>1. request' = [[request EXCEPT !.snapshot = None] EXCEPT !.pc = "answered", !.answer = listing]
    BY <1>5, ListingNow, Zenon DEF List!ReadParticipants, List!Read, List!Answered
  <2>a. listing \in answers
    BY <1>2
  <2>b. \A shown \in listing : \E s \in Sessions :
          /\ shown.id = s /\ shown.participants = rows[s].participants /\ shown.status = List!Status(rows[s])
          /\ List!VisibleIn(rows, access, s, request.viewer)
          /\ List!Matches(request.kind, request.text, rows[s], s, request.viewer)
    BY DEF ListingOf, List!Shown
  <2> HIDE DEF listing
  <2>2. request' = [pc |-> "answered", kind |-> request.kind, viewer |-> request.viewer, text |-> request.text,
                    snapshot |-> None, todo |-> request.todo, row |-> request.row, answer |-> listing]
    BY <1>1, <2>1, Zenon DEF RequestShaped
  <2>3. RequestShaped'
    BY <1>1, <2>2 DEF RequestShaped, Opening, Asking
  <2>4. AnswerKept'
    <3>1. ASSUME NEW shown \in listing
          PROVE  /\ shown.id \in Sessions /\ listable'[shown.id].status # "absent"
                 /\ \A i \in DOMAIN request.text : ~Against(request.text[i], shown, listable'[shown.id], request.viewer)
      <4>1. PICK s \in Sessions :
              /\ shown.id = s /\ shown.participants = rows[s].participants /\ shown.status = List!Status(rows[s])
              /\ List!VisibleIn(rows, access, s, request.viewer)
              /\ List!Matches(request.kind, request.text, rows[s], s, request.viewer)
        BY <2>b, <3>1
      <4>2. Kept(rows[s], listable[s]) /\ rows[s].owner \in rows[s].participants
        BY <1>2, <4>1 DEF List!VisibleIn
      <4> HIDE DEF rows, access
      <4>3. \A i \in DOMAIN request.text : ~Against(request.text[i], shown, listable[s], request.viewer)
        BY <4>1, <4>2, MatchesObeys, Zenon DEF Kept
      <4> QED  BY <1>1, <4>1, <4>2, <4>3 DEF Kept
    <3> QED  BY <2>2, <3>1 DEF AnswerKept, List!Exists
  <2>5. List!ShownWasVisible'
    <3>1. \A shown \in listing : shown.id \in seen
      BY <1>2, <2>b
    <3>2. List!AnswerIds' \subseteq seen /\ request'.pc # "idle"
      BY <2>2, <3>1, AnswersNow
    <3> QED  BY <3>2, Observed DEF List!ShownWasVisible
  <2>6. List!ListIsOneMoment' /\ List!RecordingsComplete'
    BY <1>5, <2>2, <2>a, Observed DEF List!ListIsOneMoment, List!RecordingsComplete
  <2>7. SnapshotKept' /\ EachKept' /\ OneKept'
    BY <2>2 DEF SnapshotKept, OneKept, Asking, EachKept
  <2> QED  BY <1>3, <2>3, <2>4, <2>5, <2>6, <2>7 DEF ListInv, AnsweredWell
<1> QED  BY <1>4, <1>5

(* A recording is read at another moment than the list, and shown if it      *)
(* matches then.                                                             *)
LEMMA RecordingStep ==
  ASSUME ListInv, List!Observe, NEW s \in Sessions, List!ReadRecording(s)
  PROVE  ListInv'
<1> DEFINE found == IF List!Matches("recordings", request.text, listable[s], s, request.viewer)
                    THEN {List!Shown(listable, s)} ELSE {}
<1>1. /\ listable' = listable /\ shared' = shared /\ RowsTyped /\ RequestShaped /\ request.pc = "each"
      /\ request.kind = "recordings" /\ s \in request.todo /\ request.todo \subseteq Sessions
      /\ request' = [request EXCEPT !.todo = @ \ {s}, !.answer = @ \cup found]
  BY DEF List!ReadRecording, List!Read, ListInv, RequestShaped
<1>2. /\ \A shown \in found : /\ shown.id = s /\ shown.participants = listable[s].participants
                              /\ shown.status = List!Status(listable[s])
                              /\ List!Matches(request.kind, request.text, listable[s], s, request.viewer)
      /\ List!Matches(request.kind, request.text, listable[s], s, request.viewer) => \E shown \in found : shown.id = s
  <2>1. CASE List!Matches("recordings", request.text, listable[s], s, request.viewer)
    <3>1. found = {List!Shown(listable, s)} /\ List!Matches(request.kind, request.text, listable[s], s, request.viewer)
      BY <1>1, <2>1
    <3> HIDE DEF found
    <3> QED  BY <3>1 DEF List!Shown
  <2>2. CASE ~List!Matches("recordings", request.text, listable[s], s, request.viewer)
    <3>1. found = {} /\ ~List!Matches(request.kind, request.text, listable[s], s, request.viewer)
      BY <1>1, <2>2
    <3> HIDE DEF found
    <3> QED  BY <3>1
  <2> QED  BY <2>1, <2>2
<1> HIDE DEF found
<1>3. request' = [pc |-> "each", kind |-> request.kind, viewer |-> request.viewer, text |-> request.text,
                  snapshot |-> request.snapshot, todo |-> request.todo \ {s}, row |-> request.row,
                  answer |-> request.answer \cup found]
  BY <1>1, Zenon DEF RequestShaped
<1>4. /\ request.todo \cup List!AnswerIds \subseteq seen /\ (\A i \in request.todo : List!Exists(i))
      /\ Always \subseteq request.todo \cup List!AnswerIds
  BY <1>1 DEF ListInv, EachKept
<1>5. RowsTyped'
  BY <1>1, RowsSame
<1>6. RequestShaped'
  BY <1>1, <1>3, Zenon DEF RequestShaped, Opening, Asking
<1>7. List!AnswerIds' = List!AnswerIds \cup {shown.id : shown \in found} /\ {shown.id : shown \in found} \subseteq {s}
  BY <1>2, <1>3, AnswersNow
<1>8. s \in Always' => List!Matches(request.kind, request.text, listable[s], s, request.viewer)
  <2>1. ListingOf(listable, shared, request') \in answers'
    BY <1>1, <1>3, Observed
  <2>2. \A shown \in ListingOf(listable, shared, request') :
          shown.id = s => List!Matches(request.kind, request.text, listable[s], s, request.viewer)
    BY <1>3 DEF ListingOf, List!Shown
  <2> QED  BY <2>1, <2>2 DEF Always
<1>9. EachKept'
  <2>1. \A i \in request'.todo : List!Exists(i)'
    BY <1>1, <1>3, <1>4 DEF List!Exists
  <2>2. request'.todo \cup List!AnswerIds' \subseteq seen'
    BY <1>1, <1>3, <1>4, <1>7, Observed
  <2>3. Always' \subseteq request'.todo \cup List!AnswerIds'
    <3>1. Always' \subseteq Always
      BY <1>3, Observed
    <3>2. s \in Always' => s \in List!AnswerIds'
      BY <1>2, <1>7, <1>8
    <3>3. request'.todo = request.todo \ {s}
      BY <1>3
    <3> QED  BY <1>4, <1>7, <3>1, <3>2, <3>3
  <2> QED  BY <2>1, <2>2, <2>3 DEF EachKept
<1>10. AnswerKept'
  <2>1. ASSUME NEW shown \in found
        PROVE  /\ shown.id \in Sessions /\ listable[shown.id].status # "absent"
               /\ \A i \in DOMAIN request.text : ~Against(request.text[i], shown, listable[shown.id], request.viewer)
    <3>1. listable[s].owner \in listable[s].participants /\ listable[s].status # "absent"
      BY <1>1, <1>4 DEF RowsTyped, List!Exists
    <3>2. \A i \in DOMAIN request.text : ~Against(request.text[i], shown, listable[s], request.viewer)
      BY <1>2, <2>1, <3>1, MatchesObeys, Zenon
    <3> QED  BY <1>1, <1>2, <2>1, <3>1, <3>2
  <2>2. \A shown \in request.answer :
          /\ shown.id \in Sessions /\ listable[shown.id].status # "absent"
          /\ \A i \in DOMAIN request.text : ~Against(request.text[i], shown, listable[shown.id], request.viewer)
    BY DEF ListInv, AnswerKept, List!Exists
  <2> QED  BY <1>1, <1>3, <2>1, <2>2 DEF AnswerKept, List!Exists
<1>11. SnapshotKept' /\ OneKept' /\ AnsweredWell'
  BY <1>3 DEF SnapshotKept, OneKept, Asking, AnsweredWell, List!ListIsOneMoment, List!RecordingsComplete,
              List!ShownWasVisible
<1> QED  BY <1>5, <1>6, <1>9, <1>10, <1>11 DEF ListInv

(* An answer is given, or nothing is found. *)
LEMMA AnsweredStep ==
  ASSUME ListInv, List!Observe, List!Answered(request, request.answer),
         request.kind \notin {"sessions", "usage"},
         request.kind = "recordings" => request.pc = "each" /\ request.todo = {},
         List!AnswerIds \subseteq seen
  PROVE  ListInv'
<1>1. /\ listable' = listable /\ RowsTyped /\ RequestShaped
      /\ request' = [request EXCEPT !.pc = "answered", !.answer = request.answer]
  BY DEF List!Answered, List!Read, ListInv
<1>2. request' = [pc |-> "answered", kind |-> request.kind, viewer |-> request.viewer, text |-> request.text,
                  snapshot |-> request.snapshot, todo |-> request.todo, row |-> request.row, answer |-> request.answer]
  BY <1>1, Zenon DEF RequestShaped
<1>3. RowsTyped'
  BY <1>1, RowsSame
<1>4. RequestShaped'
  BY <1>1, <1>2, Zenon DEF RequestShaped, Opening, Asking
<1>5. AnswerKept'
  BY <1>1, <1>2 DEF ListInv, AnswerKept, List!Exists
<1>6. SnapshotKept' /\ EachKept' /\ OneKept'
  BY <1>2 DEF SnapshotKept, EachKept, OneKept, Asking
<1>7. List!AnswerIds' = List!AnswerIds
  BY <1>2, AnswersNow
<1>8. List!ShownWasVisible'
  BY <1>2, <1>7, Observed DEF List!ShownWasVisible
<1>9. List!ListIsOneMoment'
  BY <1>2 DEF List!ListIsOneMoment
<1>10. List!RecordingsComplete'
  <2>1. request.kind = "recordings" => Always' \subseteq List!AnswerIds'
    BY <1>2, <1>7, Observed DEF ListInv, EachKept
  <2> QED  BY <1>2, <2>1 DEF List!RecordingsComplete, Always
<1> QED  BY <1>3, <1>4, <1>5, <1>6, <1>8, <1>9, <1>10 DEF ListInv, AnsweredWell

LEMMA EndsStep ==
  ASSUME ListInv, List!Observe, List!ListEnds
  PROVE  ListInv'
<1>1. /\ request.pc = "each" /\ request.todo = {} /\ request.kind = "recordings" /\ List!AnswerIds \subseteq seen
      /\ List!Answered(request, request.answer)
  BY DEF List!ListEnds, ListInv, RequestShaped, EachKept
<1> QED  BY <1>1, AnsweredStep

(* One session: found, seen, and then read. *)
LEMMA OneStep ==
  ASSUME ListInv, List!Observe, NEW s \in Sessions, List!ReadOne(s)
  PROVE  ListInv'
<1>1. /\ listable' = listable /\ shared' = shared /\ RowsTyped /\ RequestShaped /\ request.pc \in Asking
      /\ request.kind = "one" /\ request.text = <<>> /\ request.answer = {} /\ request.todo = {s}
      /\ request.pc # "row" => List!Exists(s)
      /\ request.pc = "access" => s \in OnProfile
      /\ request.pc \in {"actors", "usage"} => s \in seen
  BY DEF List!ReadOne, List!ReadRow, List!CheckParticipant, List!CheckAccess, List!ReadActors, List!ReadUsage,
         List!Asked, List!Answered, List!Read, ListInv, RequestShaped, OneKept, Asking
<1>2. RowsTyped'
  BY <1>1, RowsSame
<1>3. ASSUME List!Answered(request, {}) PROVE ListInv'
  <2>1. List!AnswerIds = {}
    BY <1>1, AnswersNow
  <2> QED  BY <1>1, <1>3, <2>1, AnsweredStep
<1>4. ASSUME NEW next \in Asking \ {"row"}, NEW row,
             request' = [pc |-> next, kind |-> request.kind, viewer |-> request.viewer, text |-> request.text,
                         snapshot |-> request.snapshot, todo |-> request.todo, row |-> row, answer |-> request.answer],
             List!Exists(s), next = "access" => s \in OnProfile, next \in {"actors", "usage"} => s \in seen'
      PROVE  ListInv'
  <2>1. RequestShaped'
    BY <1>1, <1>4 DEF RequestShaped, Opening, Asking
  <2>2. OneKept'
    BY <1>1, <1>4 DEF OneKept, List!Exists
  <2>3. SnapshotKept' /\ EachKept' /\ AnswerKept' /\ AnsweredWell'
    BY <1>1, <1>4 DEF SnapshotKept, EachKept, Asking, AnswerKept, AnsweredWell, List!ListIsOneMoment,
       List!RecordingsComplete, List!ShownWasVisible
  <2> QED  BY <1>2, <2>1, <2>2, <2>3 DEF ListInv
<1>5. CASE List!ReadRow(s)
  <2>1. CASE List!Exists(s)
    <3>1. request' = [request EXCEPT !.pc = "participant", !.row = listable[s]]
      BY <1>5, <2>1 DEF List!ReadRow, List!Read
    <3>2. request' = [pc |-> "participant", kind |-> request.kind, viewer |-> request.viewer, text |-> request.text,
                      snapshot |-> request.snapshot, todo |-> request.todo, row |-> listable[s], answer |-> request.answer]
      BY <1>1, <3>1, Zenon DEF RequestShaped
    <3>3. "participant" \in Asking \ {"row"}
      BY DEF Asking
    <3> QED  BY <1>4, <2>1, <3>2, <3>3
  <2> QED  BY <1>3, <1>5, <2>1 DEF List!ReadRow
<1>6. CASE List!CheckParticipant(s)
  <2>1. request.pc = "participant" /\ List!Exists(s)
    BY <1>1, <1>6 DEF List!CheckParticipant
  <2>2. CASE request.viewer \in listable[s].participants
    <3>1. request' = [request EXCEPT !.pc = "actors"]
      BY <1>6, <2>2 DEF List!CheckParticipant, List!Read
    <3>2. request' = [pc |-> "actors", kind |-> request.kind, viewer |-> request.viewer, text |-> request.text,
                      snapshot |-> request.snapshot, todo |-> request.todo, row |-> request.row, answer |-> request.answer]
      BY <1>1, <3>1, Zenon DEF RequestShaped
    <3>3. List!VisibleIn(listable', shared', s, request'.viewer)
      BY <1>1, <2>1, <2>2, <3>2 DEF List!VisibleIn, List!Exists
    <3>4. s \in seen'
      BY <3>2, <3>3, Observed
    <3>5. "actors" \in Asking \ {"row"}
      BY DEF Asking
    <3> QED  BY <1>4, <2>1, <3>2, <3>4, <3>5
  <2>3. CASE request.viewer \notin listable[s].participants /\ s \in OnProfile
    <3>1. request' = [request EXCEPT !.pc = "access"]
      BY <1>6, <2>3 DEF List!CheckParticipant, List!Read
    <3>2. request' = [pc |-> "access", kind |-> request.kind, viewer |-> request.viewer, text |-> request.text,
                      snapshot |-> request.snapshot, todo |-> request.todo, row |-> request.row, answer |-> request.answer]
      BY <1>1, <3>1, Zenon DEF RequestShaped
    <3>5. "access" \in Asking \ {"row"}
      BY DEF Asking
    <3> QED  BY <1>4, <2>1, <2>3, <3>2, <3>5
  <2> QED  BY <1>3, <1>6, <2>2, <2>3 DEF List!CheckParticipant
<1>7. CASE List!CheckAccess(s)
  <2>1. request.pc = "access" /\ List!Exists(s) /\ s \in OnProfile
    BY <1>1, <1>7 DEF List!CheckAccess
  <2>2. CASE request.viewer \in shared
    <3>1. request' = [request EXCEPT !.pc = "actors"]
      BY <1>7, <2>2 DEF List!CheckAccess, List!Read
    <3>2. request' = [pc |-> "actors", kind |-> request.kind, viewer |-> request.viewer, text |-> request.text,
                      snapshot |-> request.snapshot, todo |-> request.todo, row |-> request.row, answer |-> request.answer]
      BY <1>1, <3>1, Zenon DEF RequestShaped
    <3>3. List!VisibleIn(listable', shared', s, request'.viewer)
      BY <1>1, <2>1, <2>2, <3>2 DEF List!VisibleIn, List!Exists
    <3>4. s \in seen'
      BY <3>2, <3>3, Observed
    <3>5. "actors" \in Asking \ {"row"}
      BY DEF Asking
    <3> QED  BY <1>4, <2>1, <3>2, <3>4, <3>5
  <2> QED  BY <1>3, <1>7, <2>2 DEF List!CheckAccess
<1>8. CASE List!ReadActors(s)
  <2>1. request.pc = "actors" /\ List!Exists(s) /\ s \in seen
    BY <1>1, <1>8 DEF List!ReadActors
  <2> DEFINE row == [request.row EXCEPT !.participants = listable[s].participants]
  <2>2. request' = [request EXCEPT !.pc = "usage", !.row = row]
    BY <1>8 DEF List!ReadActors, List!Read
  <2> HIDE DEF row
  <2>3. request' = [pc |-> "usage", kind |-> request.kind, viewer |-> request.viewer, text |-> request.text,
                    snapshot |-> request.snapshot, todo |-> request.todo, row |-> row, answer |-> request.answer]
    BY <1>1, <2>2, Zenon DEF RequestShaped
  <2>4. s \in seen'
    BY <2>1, <2>3, Observed
  <2>5. "usage" \in Asking \ {"row"}
    BY DEF Asking
  <2> QED  BY <1>4, <2>1, <2>3, <2>4, <2>5
<1>9. CASE List!ReadUsage(s)
  <2> DEFINE shown == [id |-> s, status |-> List!Status(request.row),
                       participants |-> request.row.participants, usage |-> listable[s].usage]
  <2>1. request.pc = "usage" /\ List!Exists(s) /\ s \in seen
    BY <1>1, <1>9 DEF List!ReadUsage
  <2>2. request' = [request EXCEPT !.pc = "answered", !.answer = {shown}]
    BY <1>9 DEF List!ReadUsage, List!Answered, List!Read
  <2>3. shown.id = s
    OBVIOUS
  <2> HIDE DEF shown
  <2>4. request' = [pc |-> "answered", kind |-> request.kind, viewer |-> request.viewer, text |-> request.text,
                    snapshot |-> request.snapshot, todo |-> request.todo, row |-> request.row, answer |-> {shown}]
    BY <1>1, <2>2, Zenon DEF RequestShaped
  <2>5. RequestShaped'
    BY <1>1, <2>4 DEF RequestShaped, Opening, Asking
  <2>6. AnswerKept'
    BY <1>1, <2>1, <2>3, <2>4 DEF AnswerKept, List!Exists
  <2>7. List!AnswerIds' = {s}
    BY <2>3, <2>4, AnswersNow
  <2>8. AnsweredWell'
    BY <1>1, <2>1, <2>4, <2>7, Observed DEF AnsweredWell, List!ListIsOneMoment, List!RecordingsComplete, List!ShownWasVisible
  <2>9. SnapshotKept' /\ EachKept' /\ OneKept'
    BY <2>4 DEF SnapshotKept, EachKept, OneKept, Asking
  <2> QED  BY <1>2, <2>5, <2>6, <2>8, <2>9 DEF ListInv
<1> QED  BY <1>5, <1>6, <1>7, <1>8, <1>9 DEF List!ReadOne

LEMMA ListStep == ListInv /\ [List!Next]_listingVars => ListInv'
<1> SUFFICES ASSUME ListInv, [List!Next]_listingVars PROVE ListInv'
  OBVIOUS
<1>1. CASE UNCHANGED listingVars
  <2>1. /\ listable' = listable /\ shared' = shared /\ request' = request /\ answers' = answers /\ seen' = seen
        /\ List!AnswerIds' = List!AnswerIds
    BY <1>1, AnswersNow DEF listingVars
  <2>2. RowsTyped' /\ RequestShaped'
    BY <2>1 DEF ListInv, RowsTyped, RequestShaped, List!Exists
  <2>3. SnapshotKept' /\ EachKept' /\ OneKept' /\ AnswerKept'
    BY <2>1 DEF ListInv, SnapshotKept, EachKept, OneKept, AnswerKept, List!Exists, Always
  <2>4. AnsweredWell'
    BY <2>1 DEF ListInv, AnsweredWell, List!ListIsOneMoment, List!RecordingsComplete, List!ShownWasVisible
  <2> QED  BY <2>2, <2>3, <2>4 DEF ListInv
<1>2. CASE List!Next
  <2>1. List!Step /\ List!Observe
    BY <1>2 DEF List!Next
  <2> QED  BY <2>1, CommitStep, BeginStep, RowsStep, ParticipantsStep, RecordingStep, EndsStep, OneStep DEF List!Step
<1> QED  BY <1>1, <1>2

-----------------------------------------------------------------------------
(* The filter part (TextFilter), for patterns and texts of any length. *)

\* A set of numbers has a least one.
LEMMA LeastNumber ==
  ASSUME NEW S, S \subseteq Nat, S # {}
  PROVE  \E n \in S : \A m \in S : n <= m
<1> DEFINE R == OpToRel(<, Nat)
<1>1. IsWellFoundedOn(R, Nat)
  BY NatLessThanWellFounded, Zenon
<1>2. \A x, y \in Nat : x < y => <<x, y>> \in R
  BY DEF OpToRel
<1> HIDE DEF R
<1>3. PICK n \in S : \A m \in S : ~(<<m, n>> \in R)
  BY <1>1, WFMin, Zenon
<1>4. \A m \in S : m \in Nat /\ n \in Nat /\ ~(m < n)
  BY <1>2, <1>3, Zenon
<1>5. \A m \in S : n <= m
  BY <1>4
<1> QED  BY <1>5

\* The first n characters of p are laid along t as `at` says.
Laid(p, n, t, at) ==
  /\ at[0] = 0
  /\ \A i \in 1..n : IF p[i] = Star THEN at[i - 1] <= at[i] ELSE at[i] = at[i - 1] + 1 /\ t[at[i]] = p[i]

\* Characters of p after the first `from`, up to the one at `to`.
Stars(p, from, to) == \A k \in (from + 1)..to : p[k] = Star
Plain(p, from, to) == \A k \in (from + 1)..to : p[k] # Star

Along(at, from, to) == \A i \in from..to : at[i] = at[from] + (i - from)

\* The first n characters of p are laid along the first o of t.
LaidUpTo(p, n, t, o) == \E at : (\A i \in 0..n : at[i] \in Nat) /\ Laid(p, n, t, at) /\ at[n] = o

\* The characters from..to of p occur in t after the first `found`.
OccursAt(p, from, to, t, found) == \A k \in from..to : t[found + 1 + k - from] = p[k]

\* All of p is laid along all of t.
LaidOut(p, length, t, size) ==
  \E at \in [0..length -> 0..size] : Laid(p, length, t, at) /\ at[length] = size

\* A longer stretch of the pattern does not end earlier in the text.
LEMMA LaidInOrder ==
  ASSUME NEW p, NEW n \in Nat, NEW t, NEW at, \A i \in 0..n : at[i] \in Nat, Laid(p, n, t, at),
         NEW i \in 0..n, NEW k \in i..n
  PROVE  at[i] <= at[k]
<1> DEFINE Back == {j \in i..n : ~(at[i] <= at[j])}
<1>1. ASSUME Back # {} PROVE FALSE
  <2>1. Back \subseteq Nat
    OBVIOUS
  <2>2. PICK j \in Back : \A m \in Back : j <= m
    BY <1>1, <2>1, LeastNumber, Zenon
  <2>3. j \in i..n /\ ~(at[i] <= at[j])
    BY <2>2
  <2>4. j # i /\ j \in 1..n /\ j - 1 \in i..n
    BY <2>3
  <2>5. at[i] <= at[j - 1]
    BY <2>2, <2>4
  <2>6. at[j - 1] <= at[j]
    BY <2>4 DEF Laid
  <2>7. at[i] \in Nat /\ at[j] \in Nat /\ at[j - 1] \in Nat
    BY <2>4
  <2> QED
    BY <2>3, <2>5, <2>6, <2>7
<1> QED  BY <1>1

\* Characters that are no stars stand for as many of the text.
LEMMA LaidPiece ==
  ASSUME NEW p, NEW n \in Nat, NEW t, NEW at, \A i \in 0..n : at[i] \in Nat, Laid(p, n, t, at),
         NEW from \in 0..n, NEW to \in from..n, Plain(p, from, to)
  PROVE  Along(at, from, to)
<1> DEFINE Off == {j \in from..to : at[j] # at[from] + (j - from)}
<1>1. ASSUME Off # {} PROVE FALSE
  <2>1. Off \subseteq Nat
    OBVIOUS
  <2>2. PICK j \in Off : \A m \in Off : j <= m
    BY <1>1, <2>1, LeastNumber, Zenon
  <2>3. j \in from..to /\ at[j] # at[from] + (j - from)
    BY <2>2
  <2>7. at[from] \in Nat
    OBVIOUS
  <2>4. j # from /\ j \in (from + 1)..to /\ j \in 1..n /\ j - 1 \in from..to
    BY <2>3, <2>7
  <2>5. at[j - 1] = at[from] + ((j - 1) - from)
    BY <2>2, <2>4
  <2>6. at[j] = at[j - 1] + 1
    BY <2>4 DEF Laid, Plain
  <2> QED
    BY <2>3, <2>4, <2>5, <2>6, <2>7
<1> QED  BY <1>1 DEF Along

\* What has been found can be laid on to the next piece.
LEMMA LayPiece ==
  ASSUME NEW p, NEW t, NEW n \in Nat, NEW o \in Nat, LaidUpTo(p, n, t, o),
         NEW from \in Nat, NEW to \in Nat, n < from, from <= to,
         Stars(p, n, from - 1), Plain(p, from - 1, to),
         NEW found \in Nat, o <= found, from = n + 1 => found = o,
         OccursAt(p, from, to, t, found)
  PROVE  LaidUpTo(p, to, t, found + (to - from + 1))
<1>a. PICK at : (\A i \in 0..n : at[i] \in Nat) /\ Laid(p, n, t, at) /\ at[n] = o
  BY DEF LaidUpTo
<1>b. /\ \A k \in (n + 1)..(from - 1) : p[k] = Star
      /\ \A k \in from..to : p[k] # Star /\ t[found + 1 + k - from] = p[k]
  BY DEF Stars, Plain, OccursAt
<1> DEFINE on == [i \in 0..to |-> IF i <= n THEN at[i] ELSE IF i < from THEN found ELSE found + 1 + i - from]
<1>1. \A i \in 0..n : on[i] = at[i]
  OBVIOUS
<1>2. \A i \in (n + 1)..(from - 1) : on[i] = found
  OBVIOUS
<1>3. \A i \in from..to : on[i] = found + 1 + i - from
  OBVIOUS
<1> HIDE DEF on
<1>4. on[from - 1] = found
  <2>1. CASE from = n + 1
    BY <1>1, <1>a, <2>1
  <2>2. CASE from # n + 1
    BY <1>2, <1>b, <2>2
  <2> QED  BY <2>1, <2>2
<1>5. ASSUME NEW i \in 1..to
      PROVE  IF p[i] = Star THEN on[i - 1] <= on[i] ELSE on[i] = on[i - 1] + 1 /\ t[on[i]] = p[i]
  <2>1. CASE i \in 1..n
    BY <1>1, <1>a, <2>1 DEF Laid
  <2>2. CASE i \in (n + 1)..(from - 1)
    <3>1. on[i] = found /\ p[i] = Star
      BY <1>2, <1>b, <2>2
    <3>2. on[i - 1] <= found
      <4>1. CASE i = n + 1
        BY <1>1, <1>a, <4>1
      <4>2. CASE i # n + 1
        BY <1>2, <2>2, <4>2
      <4> QED  BY <4>1, <4>2
    <3> QED  BY <3>1, <3>2
  <2>3. CASE i = from
    <3>1. on[i] = found + 1 /\ p[i] # Star /\ t[found + 1 + from - from] = p[from]
      BY <1>3, <1>b, <2>3
    <3>2. found + 1 + from - from = found + 1
      OBVIOUS
    <3> QED  BY <1>4, <2>3, <3>1, <3>2
  <2>4. CASE i \in (from + 1)..to
    <3>1. on[i] = found + 1 + i - from /\ on[i - 1] = found + 1 + (i - 1) - from
      BY <1>3, <2>4
    <3>2. p[i] # Star /\ t[found + 1 + i - from] = p[i]
      BY <1>b, <2>4
    <3>3. found + 1 + i - from = found + 1 + (i - 1) - from + 1
      BY <2>4
    <3> QED  BY <3>1, <3>2, <3>3
  <2> QED  BY <2>1, <2>2, <2>3, <2>4
<1>6. on[0] = 0
  BY <1>1, <1>a DEF Laid
<1>7. on[to] = found + (to - from + 1)
  BY <1>3
<1>8. \A i \in 0..to : on[i] \in Nat
  BY <1>1, <1>2, <1>3, <1>a
<1> QED  BY <1>5, <1>6, <1>7, <1>8 DEF Laid, LaidUpTo

\* The stars that are left stand for the rest of the text.
LEMMA LayRest ==
  ASSUME NEW p, NEW t, NEW n \in Nat, NEW o \in Nat, LaidUpTo(p, n, t, o),
         NEW length \in Nat, n <= length, Stars(p, n, length),
         NEW size \in Nat, o <= size, n < length \/ o = size
  PROVE  LaidOut(p, length, t, size)
<1>a. PICK at : (\A i \in 0..n : at[i] \in Nat) /\ Laid(p, n, t, at) /\ at[n] = o
  BY DEF LaidUpTo
<1> DEFINE on == [i \in 0..length |-> IF i <= n THEN at[i] ELSE size]
<1>1. \A i \in 0..n : on[i] = at[i]
  OBVIOUS
<1>2. \A i \in (n + 1)..length : on[i] = size
  OBVIOUS
<1>3. \A i \in 0..n : at[i] \in 0..size
  <2> TAKE i \in 0..n
  <2>1. at[i] <= at[n]
    BY <1>a, LaidInOrder
  <2> QED  BY <1>a, <2>1
<1>4. on \in [0..length -> 0..size]
  <2>1. \A i \in 0..length : (IF i <= n THEN at[i] ELSE size) \in 0..size
    BY <1>3
  <2> QED  BY <2>1
<1> HIDE DEF on
<1>5. ASSUME NEW i \in 1..length
      PROVE  IF p[i] = Star THEN on[i - 1] <= on[i] ELSE on[i] = on[i - 1] + 1 /\ t[on[i]] = p[i]
  <2>1. CASE i \in 1..n
    BY <1>1, <1>a, <2>1 DEF Laid
  <2>2. CASE i \in (n + 1)..length
    <3>1. on[i] = size /\ p[i] = Star /\ on[i - 1] \in 0..size
      BY <1>2, <1>4, <2>2 DEF Stars
    <3> QED  BY <3>1
  <2> QED  BY <2>1, <2>2
<1>6. on[0] = 0
  BY <1>1, <1>a DEF Laid
<1>7. on[length] = size
  BY <1>1, <1>2, <1>a
<1>8. Laid(p, length, t, on)
  BY <1>5, <1>6 DEF Laid
<1> QED  BY <1>4, <1>7, <1>8 DEF LaidOut

-----------------------------------------------------------------------------
(* The matcher *)

(* As much of the pattern as has been found is laid along the text that is   *)
(* used up, and no way to lay the pattern along the text uses up less.       *)
WalkInv ==
  /\ pattern \in [anchored : BOOLEAN, body : Filter!Texts(Filter!Chars \cup {Star}, MaxPattern)]
  /\ text \in Filter!Texts(Filter!Chars, MaxText)
  /\ used \in 0..Len(Filter!Body) /\ offset \in 0..Len(Filter!Candidate)
  /\ used = 0 => offset = 0
  /\ used = 0 \/ \E piece \in Filter!Pieces : piece[2] = used
  /\ LaidUpTo(Filter!Body, used, Filter!Candidate, offset)
  /\ \A at \in [0..Len(Filter!Body) -> 0..Len(Filter!Candidate)] :
       Laid(Filter!Body, Len(Filter!Body), Filter!Candidate, at) => offset <= at[used]

FilterInv == WalkInv /\ Filter!Sound /\ Filter!CompleteWhenOpen

LEMMA FoundUpTo ==
  ASSUME WalkInv, used # 0
  PROVE  /\ used \in 1..Len(Filter!Body) /\ Filter!Body[used] # Star /\ Filter!Pieces # {}
         /\ used = Len(Filter!Body) \/ Filter!Body[used + 1] = Star
<1>1. PICK piece \in Filter!Pieces : piece[2] = used
  BY DEF WalkInv
<1> QED  BY <1>1 DEF Filter!Pieces

LEMMA FoldedText ==
  ASSUME NEW S, NEW n \in Nat, NEW s \in Filter!Texts(S, n)
  PROVE  /\ Len(Filter!Fold(s)) \in Nat /\ DOMAIN Filter!Fold(s) = 1..Len(Filter!Fold(s))
         /\ \E T : Filter!Fold(s) \in Seq(T)
<1>1. PICK k \in Nat : s \in [1..k -> S]
  BY DEF Filter!Texts
<1> DEFINE T == {Filter!Fold(s)[i] : i \in 1..k}
<1>2. Filter!Fold(s) = [i \in 1..k |-> Filter!Fold(s)[i]]
  BY <1>1 DEF Filter!Fold
<1>3. Filter!Fold(s) \in [1..k -> T]
  BY <1>2
<1> HIDE DEF T
<1>4. Filter!Fold(s) \in Seq(T)
  BY <1>3
<1>5. Len(Filter!Fold(s)) \in Nat /\ DOMAIN Filter!Fold(s) = 1..Len(Filter!Fold(s))
  BY <1>4, LenProperties
<1> QED  BY <1>4, <1>5

LEMMA PatternRead ==
  ASSUME WalkInv
  PROVE  /\ Len(Filter!Body) \in Nat /\ DOMAIN Filter!Body = 1..Len(Filter!Body) /\ \E T : Filter!Body \in Seq(T)
         /\ Len(Filter!Candidate) \in Nat /\ DOMAIN Filter!Candidate = 1..Len(Filter!Candidate)
         /\ \E T : Filter!Candidate \in Seq(T)
         /\ pattern.anchored \in BOOLEAN
<1>1. MaxPattern \in Nat /\ MaxText \in Nat
  BY FilterConstants DEF Filter!FilterAssumption
<1>2. pattern.body \in Filter!Texts(Filter!Chars \cup {Star}, MaxPattern) /\ text \in Filter!Texts(Filter!Chars, MaxText)
      /\ pattern.anchored \in BOOLEAN
  BY DEF WalkInv
<1> QED  BY <1>1, <1>2, FoldedText DEF Filter!Body, Filter!Candidate

(* A character that is left belongs to a piece that is left. *)
LEMMA PieceOf ==
  ASSUME WalkInv, NEW j \in (used + 1)..Len(Filter!Body), Filter!Body[j] # Star
  PROVE  \E piece \in Filter!Left : piece[1] <= j
<1> DEFINE B == Filter!Body
           N == Len(B)
           Letters == {i \in (used + 1)..N : B[i] # Star}
<1>1. N \in Nat /\ used \in 0..N /\ (used = 0 \/ used = N \/ B[used + 1] = Star) /\ B[j] # Star
  BY PatternRead, FoundUpTo DEF WalkInv
<1> HIDE DEF B
<1>2. PICK from \in Letters : \A i \in Letters : from <= i
  <2>1. Letters \subseteq Nat /\ j \in Letters
    BY <1>1 DEF B
  <2> QED  BY <2>1, LeastNumber, Zenon
<1> DEFINE Ends == {i \in from..N : i = N \/ B[i + 1] = Star}
<1>3. PICK to \in Ends : \A i \in Ends : to <= i
  <2>1. Ends \subseteq Nat /\ N \in Ends
    BY <1>1, <1>2
  <2> QED  BY <2>1, LeastNumber, Zenon
<1>4. from \in (used + 1)..N /\ B[from] # Star /\ to \in from..N /\ (to = N \/ B[to + 1] = Star)
  BY <1>2, <1>3
<1>5. from <= j
  BY <1>1, <1>2 DEF B
<1>6. from = 1 \/ B[from - 1] = Star
  <2>1. CASE from = used + 1
    BY <1>1, <1>4, <2>1
  <2>2. CASE from # used + 1
    <3>1. from - 1 \in (used + 1)..N /\ ~(from <= from - 1)
      BY <1>1, <1>4, <2>2
    <3> QED  BY <1>2, <3>1
  <2> QED  BY <2>1, <2>2
<1>7. \A k \in from..to : B[k] # Star
  <2>1. ASSUME NEW k \in from..to, B[k] = Star PROVE FALSE
    <3>1. k # from /\ k - 1 \in from..N /\ k - 1 \in Ends /\ k - 1 < to
      <4>1. k # from
        BY <1>4, <2>1
      <4>2. k - 1 \in from..N /\ k - 1 + 1 = k /\ k - 1 < to
        BY <1>1, <1>4, <4>1
      <4> QED  BY <2>1, <4>1, <4>2
    <3>2. to <= k - 1
      BY <1>3, <3>1
    <3> QED  BY <1>4, <3>1, <3>2
  <2> QED  BY <2>1
<1>8. <<from, to>> \in Filter!Left
  <2>1. <<from, to>> \in (1..N) \X (1..N) /\ from <= to /\ from > used
    BY <1>1, <1>4
  <2> QED  BY <1>4, <1>6, <1>7, <2>1 DEF Filter!Left, Filter!Pieces, B
<1> QED  BY <1>5, <1>8

(* Of two patterns that begin alike, the beginnings are laid alike. *)
LEMMA LaidAlike ==
  ASSUME NEW p, NEW q, NEW n \in Nat, NEW t, NEW at, NEW on,
         \A i \in 1..n : p[i] = q[i], \A i \in 0..n : at[i] = on[i], Laid(p, n, t, at)
  PROVE  Laid(q, n, t, on)
BY DEF Laid

(* The pattern that an anchored one means. *)
LEMMA Anchored ==
  ASSUME WalkInv
  PROVE  LET P == Append(Filter!Body, Star) IN
         /\ Len(P) = Len(Filter!Body) + 1 /\ P[Len(Filter!Body) + 1] = Star
         /\ \A i \in 1..Len(Filter!Body) : P[i] = Filter!Body[i]
<1>1. PICK T : Filter!Body \in Seq(T)
  BY PatternRead
<1>2. Filter!Body \in Seq(T \cup {Star})
  BY <1>1, SeqMonotonic
<1> QED  BY <1>2, AppendProperties

(* What the whole pattern cannot be laid along, it does not mean. *)
LEMMA MeansNothing ==
  ASSUME WalkInv,
         \A at \in [0..Len(Filter!Body) -> 0..Len(Filter!Candidate)] :
           /\ Laid(Filter!Body, Len(Filter!Body), Filter!Candidate, at)
           => ~pattern.anchored /\ at[Len(Filter!Body)] # Len(Filter!Candidate)
  PROVE  ~Filter!Meaning
<1> DEFINE B == Filter!Body
           C == Filter!Candidate
<1>1. Len(B) \in Nat /\ Len(C) \in Nat /\ pattern.anchored \in BOOLEAN
  BY PatternRead
<1>2. CASE ~pattern.anchored
  BY <1>2 DEF Filter!Meaning, Filter!Matches, Laid
<1>3. CASE pattern.anchored
  <2> DEFINE P == Append(B, Star)
  <2>1. Len(P) = Len(B) + 1 /\ \A i \in 1..Len(B) : P[i] = B[i]
    BY Anchored
  <2>2. ASSUME NEW at \in [0..Len(P) -> 0..Len(C)], Laid(P, Len(P), C, at) PROVE FALSE
    <3> HIDE DEF P
    <3> DEFINE on == [i \in 0..Len(B) |-> at[i]]
    <3>1. on \in [0..Len(B) -> 0..Len(C)] /\ \A i \in 0..Len(B) : at[i] = on[i]
      BY <1>1, <2>1, <2>2
    <3>2. Laid(P, Len(B), C, at)
      BY <1>1, <2>1, <2>2 DEF Laid
    <3> HIDE DEF on, B, C
    <3>3. Laid(B, Len(B), C, on)
      BY <1>1, <2>1, <3>1, <3>2, LaidAlike, Zenon
    <3> QED  BY <1>3, <3>1, <3>3 DEF B, C
  <2>3. ~Filter!Matches(P, C)
    BY <2>2, Zenon DEF Filter!Matches, Laid
  <2> QED  BY <1>3, <2>3 DEF Filter!Meaning
<1> QED  BY <1>1, <1>2, <1>3

(* What is left of the pattern but stars means the rest of the text. *)
LEMMA MeansRest ==
  ASSUME WalkInv, \A k \in (used + 1)..Len(Filter!Body) : Filter!Body[k] = Star,
         pattern.anchored \/ used < Len(Filter!Body) \/ offset = Len(Filter!Candidate)
  PROVE  Filter!Meaning
<1> DEFINE B == Filter!Body
           C == Filter!Candidate
           P == IF pattern.anchored THEN Append(B, Star) ELSE B
<1>1. Len(B) \in Nat /\ Len(C) \in Nat /\ pattern.anchored \in BOOLEAN
  BY PatternRead
<1>2. used \in 0..Len(B) /\ offset \in 0..Len(C)
  BY DEF WalkInv
<1>3. LaidUpTo(B, used, C, offset)
  BY DEF WalkInv
<1>4. /\ Len(P) \in Nat /\ Len(P) >= Len(B) /\ \A i \in 1..Len(B) : P[i] = B[i]
      /\ \A i \in (used + 1)..Len(P) : P[i] = Star
      /\ used < Len(P) \/ offset = Len(C)
  <2>1. CASE pattern.anchored
    <3>1. Len(P) = Len(B) + 1 /\ P[Len(B) + 1] = Star /\ \A i \in 1..Len(B) : P[i] = B[i]
      BY <2>1, Anchored
    <3>2. \A i \in (used + 1)..Len(P) : i \in (used + 1)..Len(B) \/ i = Len(B) + 1
      BY <1>1, <1>2, <3>1
    <3>3. \A i \in (used + 1)..Len(B) : i \in 1..Len(B) /\ B[i] = Star
      BY <1>1, <1>2
    <3> HIDE DEF P, B
    <3>4. \A i \in (used + 1)..Len(P) : P[i] = Star
      BY <3>1, <3>2, <3>3
    <3> QED  BY <1>1, <1>2, <3>1, <3>4
  <2>2. CASE ~pattern.anchored
    BY <1>1, <1>2, <2>2
  <2> QED  BY <1>1, <2>1, <2>2, Zenon
<1> HIDE DEF P, B, C
<1>5. LaidUpTo(P, used, C, offset)
  <2>1. PICK at : (\A i \in 0..used : at[i] \in Nat) /\ Laid(B, used, C, at) /\ at[used] = offset
    BY <1>3 DEF LaidUpTo
  <2>2. Laid(P, used, C, at)
    BY <1>1, <1>2, <2>1, <1>4, LaidAlike
  <2> QED  BY <2>1, <2>2 DEF LaidUpTo
<1>6. used \in Nat /\ offset \in Nat /\ used <= Len(P) /\ offset <= Len(C)
  BY <1>1, <1>2, <1>4
<1>7. Stars(P, used, Len(P))
  BY <1>4 DEF Stars
<1>8. LaidOut(P, Len(P), C, Len(C))
  BY <1>1, <1>4, <1>5, <1>6, <1>7, LayRest
<1>9. Filter!Matches(P, C)
  BY <1>8, Zenon DEF Filter!Matches, LaidOut, Laid
<1> QED  BY <1>9 DEF Filter!Meaning, P, B, C

LEMMA FilterStill ==
  ASSUME WalkInv, UNCHANGED <<pattern, text, used, offset>>
  PROVE  WalkInv' /\ Filter!Body' = Filter!Body /\ Filter!Meaning' = Filter!Meaning /\ Filter!Wild' = Filter!Wild
<1>1. Filter!Body' = Filter!Body /\ Filter!Candidate' = Filter!Candidate /\ Filter!Pieces' = Filter!Pieces
  BY DEF Filter!Body, Filter!Candidate, Filter!Pieces
<1>2. WalkInv'
  BY <1>1 DEF WalkInv
<1> QED  BY <1>1, <1>2 DEF Filter!Meaning, Filter!Wild

(* Without a star the pattern means itself, or what begins with it. *)
LEMMA CompareStep ==
  ASSUME FilterInv, Filter!Compare
  PROVE  FilterInv'
<1> DEFINE B == Filter!Body
           C == Filter!Candidate
<1>1. WalkInv /\ verdict = None /\ ~Filter!Wild /\ UNCHANGED <<pattern, text, used, offset>>
      /\ verdict' = IF pattern.anchored THEN Filter!IsPrefix(B, C) ELSE B = C
  BY DEF FilterInv, Filter!Compare, Filter!Answer
<1>2. Len(B) \in Nat /\ Len(C) \in Nat /\ DOMAIN B = 1..Len(B) /\ DOMAIN C = 1..Len(C) /\ pattern.anchored \in BOOLEAN
  BY <1>1, PatternRead
<1>3. \A i \in 1..Len(B) : B[i] # Star
  BY <1>1, <1>2 DEF Filter!Wild
<1>4. Filter!IsPrefix(B, C) <=> Len(B) <= Len(C) /\ \A i \in 1..Len(B) : C[i] = B[i]
  <2>1. PICK T : B \in Seq(T)
    BY <1>1, PatternRead
  <2>2. PICK U : C \in Seq(U)
    BY <1>1, PatternRead
  <2>3. SubSeq(B, 1, Len(B)) \in Seq(T) /\ Len(SubSeq(B, 1, Len(B))) = Len(B)
        /\ \A i \in 1..Len(B) : SubSeq(B, 1, Len(B))[i] = B[i]
    BY <1>2, <2>1, ElementOfSeq, SubSeqFull
  <2>4. CASE Len(B) <= Len(C)
    <3>1. \A i \in 1..Len(B) : C[i] \in U
      BY <1>2, <2>2, <2>4, ElementOfSeq
    <3>2. 1 \in Int /\ Len(B) \in Int /\ (1 <= Len(B) \/ Len(B) = 0) /\ Len(B) - 1 + 1 = Len(B)
      BY <1>2
    <3>3. SubSeq(C, 1, Len(B)) \in Seq(U) /\ Len(SubSeq(C, 1, Len(B))) = Len(B)
          /\ \A i \in 1..Len(B) : SubSeq(C, 1, Len(B))[i] = C[1 + i - 1]
      BY <3>1, <3>2, SubSeqProperties
    <3>4. \A i \in 1..Len(B) : 1 + i - 1 = i
      OBVIOUS
    <3>5. SubSeq(C, 1, Len(B)) \in Seq(T \cup U) /\ SubSeq(B, 1, Len(B)) \in Seq(T \cup U)
      BY <2>3, <3>3, SeqMonotonic
    <3>6. SubSeq(B, 1, Len(B)) = SubSeq(C, 1, Len(B)) <=> \A i \in 1..Len(B) : C[i] = B[i]
      <4>1. ASSUME \A i \in 1..Len(B) : C[i] = B[i]
            PROVE  SubSeq(B, 1, Len(B)) = SubSeq(C, 1, Len(B))
        <5>1. \A i \in 1..Len(B) : SubSeq(B, 1, Len(B))[i] = SubSeq(C, 1, Len(B))[i]
          BY <2>3, <3>3, <3>4, <4>1
        <5> QED  BY <2>3, <3>3, <3>5, <5>1, SeqEqual
      <4> QED  BY <2>3, <3>3, <3>4, <4>1
    <3> QED  BY <2>4, <3>6 DEF Filter!IsPrefix
  <2> QED  BY <2>4 DEF Filter!IsPrefix
<1> DEFINE at0 == [i \in 0..Len(B) |-> i]
<1>5. ASSUME Len(B) <= Len(C), \A i \in 1..Len(B) : C[i] = B[i]
      PROVE  Laid(B, Len(B), C, at0)
  <2>1. at0[0] = 0 /\ \A i \in 1..Len(B) : at0[i] = i /\ at0[i - 1] = i - 1
    BY <1>2
  <2> QED  BY <1>2, <1>3, <1>5, <2>1 DEF Laid
<1>6. ASSUME NEW at \in [0..Len(B) -> 0..Len(C)], Laid(B, Len(B), C, at)
      PROVE  at[Len(B)] = Len(B) /\ Len(B) <= Len(C) /\ \A i \in 1..Len(B) : C[i] = B[i]
  <2>1. \A i \in 0..Len(B) : at[i] = at[0] + (i - 0)
    <3>1. \A i \in 0..Len(B) : at[i] \in Nat
      BY <1>2, <1>6
    <3>2. 0 \in 0..Len(B) /\ Len(B) \in 0..Len(B) /\ Plain(B, 0, Len(B))
      BY <1>2, <1>3 DEF Plain
    <3> HIDE DEF B, C
    <3>3. Along(at, 0, Len(B))
      BY <1>2, <1>6, <3>1, <3>2, LaidPiece
    <3> QED  BY <3>3 DEF Along
  <2>2. \A i \in 0..Len(B) : at[i] = i
    BY <1>6, <2>1 DEF Laid
  <2>3. \A i \in 1..Len(B) : C[at[i]] = B[i]
    BY <1>3, <1>6 DEF Laid
  <2> HIDE DEF B, C
  <2> QED  BY <1>2, <1>6, <2>2, <2>3
<1>7. ASSUME Filter!IsPrefix(B, C), pattern.anchored PROVE Filter!Meaning
  <2>1. Laid(B, Len(B), C, at0) /\ Len(B) <= Len(C)
    BY <1>4, <1>5, <1>7
  <2> DEFINE P == Append(B, Star)
             on == [i \in 0..(Len(B) + 1) |-> IF i <= Len(B) THEN i ELSE Len(C)]
  <2>2. Len(P) = Len(B) + 1 /\ P[Len(B) + 1] = Star /\ \A i \in 1..Len(B) : P[i] = B[i]
    BY <1>1, Anchored
  <2> HIDE DEF P
  <2>3. \A i \in 0..Len(B) : at0[i] = i /\ at0[i] \in Nat
    OBVIOUS
  <2> HIDE DEF at0
  <2>4. Laid(P, Len(B), C, at0)
    BY <1>2, <2>1, <2>2, LaidAlike
  <2>5. at0[Len(B)] = Len(B) /\ Len(P) \in Nat /\ Len(B) <= Len(P) /\ Len(B) < Len(P)
        /\ Stars(P, Len(B), Len(P))
    BY <1>2, <2>2, <2>3 DEF Stars
  <2> HIDE DEF B, C
  <2>6. LaidOut(P, Len(P), C, Len(C))
    <3>1. LaidUpTo(P, Len(B), C, Len(B))
      BY <2>3, <2>4, <2>5 DEF LaidUpTo
    <3> QED  BY <1>2, <2>1, <2>5, <3>1, LayRest
  <2>7. Filter!Matches(P, C)
    BY <2>6, Zenon DEF Filter!Matches, LaidOut, Laid
  <2> QED  BY <1>7, <2>7 DEF Filter!Meaning, P, B, C
<1>8. ASSUME B = C, ~pattern.anchored PROVE Filter!Meaning
  <2>1. Laid(B, Len(B), C, at0)
    BY <1>2, <1>5, <1>8
  <2>2. at0 \in [0..Len(B) -> 0..Len(C)] /\ at0[Len(B)] = Len(C) /\ at0[0] = 0
    BY <1>2, <1>8
  <2> HIDE DEF at0
  <2>3. Filter!Matches(B, C)
    BY <2>1, <2>2, Zenon DEF Filter!Matches, Laid
  <2> QED  BY <1>8, <2>3 DEF Filter!Meaning
<1>9. ASSUME IF pattern.anchored THEN ~Filter!IsPrefix(B, C) ELSE B # C
      PROVE  ~Filter!Meaning
  <2>1. ASSUME NEW at \in [0..Len(B) -> 0..Len(C)], Laid(B, Len(B), C, at)
        PROVE  ~pattern.anchored /\ at[Len(B)] # Len(C)
    <3>1. at[Len(B)] = Len(B) /\ Len(B) <= Len(C) /\ \A i \in 1..Len(B) : C[i] = B[i]
      BY <1>6, <2>1
    <3>2. Filter!IsPrefix(B, C)
      BY <1>4, <3>1
    <3>3. ~pattern.anchored /\ B # C
      BY <1>2, <1>9, <3>2
    <3>4. ASSUME Len(B) = Len(C) PROVE B = C
      <4>1. PICK T : B \in Seq(T)
        BY <1>1, PatternRead
      <4>2. PICK U : C \in Seq(U)
        BY <1>1, PatternRead
      <4>3. B \in Seq(T \cup U) /\ C \in Seq(T \cup U)
        BY <4>1, <4>2, SeqMonotonic
      <4> QED  BY <3>1, <3>4, <4>3, SeqEqual
    <3> QED  BY <3>1, <3>3, <3>4
  <2> QED  BY <1>1, <2>1, MeansNothing
<1>10. WalkInv' /\ Filter!Meaning' = Filter!Meaning
  BY <1>1, FilterStill
<1>11. (verdict' = TRUE => Filter!Meaning) /\ (verdict' = FALSE => ~Filter!Meaning)
  BY <1>1, <1>2, <1>7, <1>8, <1>9, Zenon
<1> QED  BY <1>10, <1>11 DEF FilterInv, Filter!Sound, Filter!CompleteWhenOpen

(* A way to lay the pattern along the text has the next piece in one of its  *)
(* places.                                                                   *)
LEMMA EveryPlace ==
  ASSUME WalkInv, NEW piece \in Filter!Left,
         NEW at \in [0..Len(Filter!Body) -> 0..Len(Filter!Candidate)],
         Laid(Filter!Body, Len(Filter!Body), Filter!Candidate, at)
  PROVE  /\ at[piece[1] - 1] \in Filter!Places(piece)
         /\ at[piece[2]] = at[piece[1] - 1] + Filter!Length(piece)
         /\ at[0] = 0
<1> DEFINE B == Filter!Body
           C == Filter!Candidate
           N == Len(B)
           from == piece[1]
           to == piece[2]
<1>1. N \in Nat /\ Len(C) \in Nat /\ used \in 0..N /\ offset \in 0..Len(C)
  BY PatternRead DEF WalkInv
<1>2. from \in 1..N /\ to \in from..N /\ used < from /\ \A k \in from..to : B[k] # Star
  BY <1>1 DEF Filter!Left, Filter!Pieces
<1>3. offset <= at[used] /\ (\A i \in 0..N : at[i] \in Nat) /\ \A i \in 0..N : at[i] <= Len(C)
  BY <1>1 DEF WalkInv
<1>4. used \in 0..N /\ from - 1 \in used..N /\ from - 1 \in 0..N /\ to \in (from - 1)..N
  BY <1>1, <1>2
<1>5. Plain(B, from - 1, to)
  BY <1>2 DEF Plain
<1>6. Laid(B, N, C, at)
  OBVIOUS
<1> HIDE DEF B, C, N, from, to
<1>7. offset <= at[from - 1]
  <2>1. at[used] <= at[from - 1]
    BY <1>1, <1>3, <1>4, <1>6, LaidInOrder, Zenon
  <2>2. offset \in Nat /\ at[used] \in Nat /\ at[from - 1] \in Nat
    BY <1>1, <1>3, <1>4
  <2> QED  BY <1>3, <2>1, <2>2
<1>8. \A i \in (from - 1)..to : at[i] = at[from - 1] + (i - (from - 1))
  <2> DEFINE before == from - 1
  <2>1. before \in 0..N /\ to \in before..N /\ Plain(B, before, to)
    BY <1>4, <1>5
  <2> HIDE DEF before
  <2>2. \A i \in before..to : at[i] = at[before] + (i - before)
    <3>1. N \in Nat /\ (\A i \in 0..N : at[i] \in Nat)
      BY <1>1, <1>3
    <3>2. Along(at, before, to)
      BY <1>6, <2>1, <3>1, LaidPiece
    <3> QED  BY <3>2 DEF Along
  <2> QED  BY <2>2 DEF before
<1>9. \A k \in from..to : C[at[from - 1] + 1 + k - from] = B[k]
  <2> TAKE k \in from..to
  <2>1. at[k] = at[from - 1] + (k - (from - 1)) /\ C[at[k]] = B[k]
    BY <1>1, <1>2, <1>6, <1>8 DEF Laid
  <2>2. at[from - 1] \in Nat
    BY <1>3, <1>4
  <2>3. at[from - 1] + (k - (from - 1)) = at[from - 1] + 1 + k - from
    BY <1>1, <1>2, <2>2
  <2> QED  BY <2>1, <2>3
<1>10. at[to] = at[from - 1] + (to - from + 1) /\ at[from - 1] + (to - from + 1) <= Len(C)
  <2>1. at[to] = at[from - 1] + (to - (from - 1)) /\ at[to] <= Len(C) /\ at[from - 1] \in Nat
    BY <1>1, <1>2, <1>3, <1>4, <1>8
  <2> QED  BY <1>1, <1>2, <2>1
<1>11. at[from - 1] \in offset..Len(C)
  BY <1>1, <1>3, <1>4, <1>7
<1>12. at[0] = 0
  BY <1>6 DEF Laid
<1> QED  BY <1>9, <1>10, <1>11, <1>12 DEF Filter!Places, Filter!Length, B, C, from, to

(* Before the next piece there are but stars, and none only at the beginning. *)
LEMMA BeforePiece ==
  ASSUME WalkInv, NEW piece \in Filter!Left, \A other \in Filter!Left : piece[1] <= other[1]
  PROVE  /\ piece[1] \in 1..Len(Filter!Body) /\ piece[2] \in piece[1]..Len(Filter!Body) /\ used < piece[1]
         /\ \A k \in piece[1]..piece[2] : Filter!Body[k] # Star
         /\ piece[2] = Len(Filter!Body) \/ Filter!Body[piece[2] + 1] = Star
         /\ \A k \in (used + 1)..(piece[1] - 1) : Filter!Body[k] = Star
         /\ piece[1] = used + 1 => used = 0
<1>1. Len(Filter!Body) \in Nat /\ used \in 0..Len(Filter!Body)
      /\ (used = 0 \/ used = Len(Filter!Body) \/ Filter!Body[used + 1] = Star)
  BY PatternRead, FoundUpTo DEF WalkInv
<1>2. piece[1] \in 1..Len(Filter!Body) /\ piece[2] \in piece[1]..Len(Filter!Body) /\ used < piece[1]
      /\ (\A k \in piece[1]..piece[2] : Filter!Body[k] # Star)
      /\ (piece[2] = Len(Filter!Body) \/ Filter!Body[piece[2] + 1] = Star)
  BY <1>1 DEF Filter!Left, Filter!Pieces
<1>3. ASSUME NEW k \in (used + 1)..(piece[1] - 1), Filter!Body[k] # Star PROVE FALSE
  <2>1. k \in (used + 1)..Len(Filter!Body) /\ k < piece[1]
    BY <1>1, <1>2, <1>3
  <2>2. PICK other \in Filter!Left : other[1] <= k
    BY <1>3, <2>1, PieceOf
  <2>3. piece[1] <= other[1] /\ other[1] \in 1..Len(Filter!Body)
    BY <1>1, Zenon DEF Filter!Left, Filter!Pieces
  <2> QED  BY <1>1, <1>2, <2>1, <2>2, <2>3
<1>4. piece[1] = used + 1 => used = 0
  BY <1>1, <1>2
<1> QED  BY <1>2, <1>3, <1>4

LEMMA NextPartStep ==
  ASSUME FilterInv, Filter!NextPart
  PROVE  FilterInv'
<1> DEFINE B == Filter!Body
           C == Filter!Candidate
<1>1. WalkInv /\ verdict = None
  BY DEF FilterInv, Filter!NextPart
<1>2. Len(B) \in Nat /\ Len(C) \in Nat /\ used \in 0..Len(B) /\ offset \in 0..Len(C) /\ (used = 0 => offset = 0)
  BY <1>1, PatternRead DEF WalkInv
<1>3. PICK piece \in Filter!Left :
        /\ \A other \in Filter!Left : piece[1] <= other[1]
        /\ \/ Filter!Places(piece) = {} /\ Filter!Answer(FALSE)
           \/ \E found \in Filter!Places(piece) :
                /\ \A i \in Filter!Places(piece) : found <= i
                /\ IF Filter!Misplaced(piece, found) THEN Filter!Answer(FALSE)
                   ELSE /\ used' = piece[2] /\ offset' = found + Filter!Length(piece)
                        /\ UNCHANGED <<pattern, text, verdict>>
  BY Zenon DEF Filter!NextPart
<1> DEFINE from == piece[1]
           to == piece[2]
<1>4. /\ from \in 1..Len(B) /\ to \in from..Len(B) /\ used < from /\ \A k \in from..to : B[k] # Star
      /\ to = Len(B) \/ B[to + 1] = Star
      /\ \A k \in (used + 1)..(from - 1) : B[k] = Star
      /\ from = used + 1 => used = 0
  BY <1>1, <1>3, BeforePiece
<1>5. ASSUME Filter!Answer(FALSE), \A at \in [0..Len(B) -> 0..Len(C)] : ~Laid(B, Len(B), C, at)
      PROVE  FilterInv'
  <2>1. WalkInv' /\ Filter!Meaning' = Filter!Meaning /\ verdict' = FALSE
    BY <1>1, <1>5, FilterStill DEF Filter!Answer
  <2>2. ~Filter!Meaning
    BY <1>1, <1>5, MeansNothing
  <2> QED  BY <2>1, <2>2 DEF FilterInv, Filter!Sound, Filter!CompleteWhenOpen
<1>6. CASE Filter!Places(piece) = {} /\ Filter!Answer(FALSE)
  BY <1>1, <1>3, <1>5, <1>6, EveryPlace
<1>7. ASSUME NEW found \in Filter!Places(piece), \A i \in Filter!Places(piece) : found <= i,
             Filter!Misplaced(piece, found), Filter!Answer(FALSE)
      PROVE  FilterInv'
  <2>1. ASSUME NEW at \in [0..Len(B) -> 0..Len(C)], Laid(B, Len(B), C, at) PROVE FALSE
    <3>1. at[from - 1] \in Filter!Places(piece) /\ at[0] = 0
      BY <1>1, <1>3, <2>1, EveryPlace
    <3>2. from - 1 = 0 /\ found # 0
      BY <1>7 DEF Filter!Misplaced
    <3>3. found <= 0 /\ found \in Nat
      BY <1>2, <1>7, <3>1, <3>2 DEF Filter!Places
    <3> QED  BY <3>2, <3>3
  <2> QED  BY <1>5, <1>7, <2>1
<1>8. ASSUME NEW found \in Filter!Places(piece), \A i \in Filter!Places(piece) : found <= i,
             ~Filter!Misplaced(piece, found), used' = to, offset' = found + Filter!Length(piece),
             UNCHANGED <<pattern, text, verdict>>
      PROVE  FilterInv'
  <2>1. found \in Nat /\ offset <= found /\ found + (to - from + 1) <= Len(C)
        /\ \A k \in from..to : C[found + 1 + k - from] = B[k]
    BY <1>2, <1>8 DEF Filter!Places, Filter!Length
  <2>2. from = used + 1 => found = offset
    BY <1>2, <1>4, <1>8 DEF Filter!Misplaced
  <2>3. offset' = found + (to - from + 1) /\ offset' \in 0..Len(C) /\ used' \in 0..Len(B) /\ used' # 0
    <3>1. offset' = found + (to - from + 1) /\ used' = to
      BY <1>8 DEF Filter!Length
    <3> HIDE DEF from, to, B, C
    <3>2. found + (to - from + 1) \in 0..Len(C) /\ to \in 0..Len(B) /\ to # 0
      BY <1>2, <1>4, <2>1
    <3> QED  BY <3>1, <3>2
  <2>4. Filter!Body' = B /\ Filter!Candidate' = C /\ Filter!Pieces' = Filter!Pieces
    BY <1>8 DEF Filter!Body, Filter!Candidate, Filter!Pieces
  <2>5. LaidUpTo(B, to, C, found + (to - from + 1))
    <3>1. LaidUpTo(B, used, C, offset)
      BY <1>1 DEF WalkInv
    <3>2. used \in Nat /\ offset \in Nat /\ from \in Nat /\ to \in Nat /\ used < from /\ from <= to
      BY <1>2, <1>4
    <3>3. Stars(B, used, from - 1) /\ Plain(B, from - 1, to) /\ OccursAt(B, from, to, C, found)
      BY <1>4, <2>1 DEF Stars, Plain, OccursAt
    <3> HIDE DEF from, to, B, C
    <3>4. found \in Nat /\ offset <= found /\ (from = used + 1 => found = offset)
      BY <2>1, <2>2
    <3> QED  BY <3>1, <3>2, <3>3, <3>4, LayPiece, SMTT(30)
  <2>6. ASSUME NEW at \in [0..Len(B) -> 0..Len(C)], Laid(B, Len(B), C, at)
        PROVE  found + (to - from + 1) <= at[to]
    <3>1. at[from - 1] \in Filter!Places(piece) /\ at[to] = at[from - 1] + Filter!Length(piece)
      BY <1>1, <1>3, <2>6, EveryPlace
    <3>2. found <= at[from - 1] /\ at[from - 1] \in Nat
      BY <1>2, <1>4, <1>8, <3>1
    <3> QED  BY <1>2, <1>4, <2>1, <3>1, <3>2 DEF Filter!Length
  <2>7. WalkInv'
    <3>1. pattern \in [anchored : BOOLEAN, body : Filter!Texts(Filter!Chars \cup {Star}, MaxPattern)]
          /\ text \in Filter!Texts(Filter!Chars, MaxText)
      BY <1>1 DEF WalkInv
    <3>2. used' = 0 \/ \E other \in Filter!Pieces : other[2] = used'
      BY <1>8 DEF Filter!Left
    <3> HIDE DEF from, to, B, C
    <3> QED  BY <1>8, <2>3, <2>4, <2>5, <2>6, <3>1, <3>2 DEF WalkInv
  <2>8. verdict' = None /\ None \notin BOOLEAN
    BY <1>1, <1>8, FilterConstants DEF Filter!FilterAssumption
  <2> QED  BY <2>7, <2>8, Zenon DEF FilterInv, Filter!Sound, Filter!CompleteWhenOpen
<1> QED  BY <1>3, <1>6, <1>7, <1>8, Zenon

(* At the end of the pattern the rest of the text must be stars, or nothing. *)
LEMMA FinishStep ==
  ASSUME FilterInv, Filter!Finish \/ Filter!OnlyStars
  PROVE  FilterInv'
<1>1. WalkInv /\ Filter!Wild /\ Filter!Left = {} /\ UNCHANGED <<pattern, text, used, offset>>
      /\ (verdict' = TRUE \/ verdict' = Filter!AtEnd) /\ (Filter!Finish \/ Filter!Pieces = {})
  BY DEF FilterInv, Filter!Finish, Filter!OnlyStars, Filter!Answer, Filter!Left
<1>2. Len(Filter!Body) \in Nat /\ DOMAIN Filter!Body = 1..Len(Filter!Body) /\ used \in 0..Len(Filter!Body)
  BY <1>1, PatternRead DEF WalkInv
<1>3. \A k \in (used + 1)..Len(Filter!Body) : Filter!Body[k] = Star
  BY <1>1, PieceOf
<1>4. WalkInv' /\ Filter!Meaning' = Filter!Meaning /\ Filter!Wild' = Filter!Wild /\ Filter!Body' = Filter!Body
      /\ pattern' = pattern
  BY <1>1, FilterStill
<1>5. Len(Filter!Body) > 0 /\ (used = 0 \/ (Filter!Body[used] # Star /\ Filter!Pieces # {}))
  <2>1. Len(Filter!Body) > 0
    BY <1>1, <1>2 DEF Filter!Wild
  <2> QED  BY <1>1, <2>1, FoundUpTo
<1>6. ASSUME verdict' = TRUE PROVE Filter!Meaning
  <2>1. CASE Filter!Pieces = {}
    <3>1. used < Len(Filter!Body)
      BY <1>2, <1>5, <2>1
    <3> QED  BY <1>1, <1>3, <3>1, MeansRest
  <2>2. CASE Filter!Finish
    <3>1. pattern.anchored \/ Filter!Body[Len(Filter!Body)] = Star \/ offset = Len(Filter!Candidate)
      <4>1. verdict' = Filter!AtEnd
        BY <2>2 DEF Filter!Finish, Filter!Answer
      <4> QED  BY <1>6, <4>1 DEF Filter!AtEnd, Filter!Last
    <3>2. pattern.anchored \/ used < Len(Filter!Body) \/ offset = Len(Filter!Candidate)
      BY <1>2, <1>5, <3>1
    <3> QED  BY <1>1, <1>3, <3>2, MeansRest
  <2> QED  BY <1>1, <2>1, <2>2
<1>7. ASSUME verdict' = FALSE PROVE ~pattern.anchored /\ Filter!Body[Len(Filter!Body)] # Star
  <2>1. verdict' = Filter!AtEnd
    BY <1>1, <1>7
  <2> QED  BY <1>7, <2>1 DEF Filter!AtEnd, Filter!Last
<1>8. Filter!Sound'
  BY <1>4, <1>6 DEF Filter!Sound
<1>9. Filter!CompleteWhenOpen'
  BY <1>1, <1>4, <1>7, Zenon DEF Filter!CompleteWhenOpen, Filter!Last
<1> QED  BY <1>4, <1>8, <1>9 DEF FilterInv

LEMMA FilterInit == Filter!Init => FilterInv
<1> SUFFICES ASSUME Filter!Init PROVE FilterInv
  OBVIOUS
<1>1. /\ pattern \in [anchored : BOOLEAN, body : Filter!Texts(Filter!Chars \cup {Star}, MaxPattern)]
      /\ text \in Filter!Texts(Filter!Chars, MaxText)
      /\ used = 0 /\ offset = 0 /\ verdict = None /\ verdict \notin BOOLEAN
  BY FilterConstants DEF Filter!Init, Filter!FilterAssumption
<1>2. Len(Filter!Body) \in Nat /\ Len(Filter!Candidate) \in Nat
  <2>1. pattern.body \in Filter!Texts(Filter!Chars \cup {Star}, MaxPattern) /\ MaxPattern \in Nat /\ MaxText \in Nat
    BY <1>1, FilterConstants DEF Filter!FilterAssumption
  <2> QED  BY <1>1, <2>1, FoldedText DEF Filter!Body, Filter!Candidate
<1> DEFINE at == [i \in 0..0 |-> 0]
<1>3. (\A i \in 0..0 : at[i] \in Nat) /\ at[0] = 0
  OBVIOUS
<1> HIDE DEF at
<1>4. Laid(Filter!Body, 0, Filter!Candidate, at)
  BY <1>3 DEF Laid
<1>5. LaidUpTo(Filter!Body, 0, Filter!Candidate, 0)
  BY <1>3, <1>4 DEF LaidUpTo
<1>6. WalkInv
  BY <1>1, <1>2, <1>5 DEF WalkInv, Laid
<1> QED  BY <1>1, <1>6 DEF FilterInv, Filter!Sound, Filter!CompleteWhenOpen

LEMMA FilterStep == FilterInv /\ [Filter!Next]_filterVars => FilterInv'
<1> SUFFICES ASSUME FilterInv, [Filter!Next]_filterVars PROVE FilterInv'
  OBVIOUS
<1>1. CASE UNCHANGED filterVars
  <2>1. UNCHANGED <<pattern, text, used, offset>> /\ verdict' = verdict /\ WalkInv
    BY <1>1 DEF filterVars, FilterInv
  <2> QED  BY <2>1, FilterStill DEF FilterInv, Filter!Sound, Filter!CompleteWhenOpen
<1>2. CASE Filter!Next
  BY <1>2, CompareStep, NextPartStep, FinishStep DEF Filter!Next
<1> QED  BY <1>1, <1>2

(* What is listed or shown could be seen at one moment of the request and is *)
(* what the filter means, whatever is committed while it is read; a text is  *)
(* kept only if the pattern means it, and lost by a pattern that is open at  *)
(* its end only if it does not (visible_sessions_with_usage,                 *)
(* recording_unchecked, session, glob_matches).                              *)
THEOREM ListsTellTruly == MCSpec => []ListedRightly
<1>1. MCInit => ListInv /\ FilterInv
  BY ListInit, FilterInit DEF MCInit
<1>2. ListInv /\ FilterInv /\ [MCNext]_<<part, vars, listingVars, filterVars, databaseVars>> => ListInv' /\ FilterInv'
  BY ListStep, FilterStep DEF MCNext, SharingPart, ListingPart, FilterPart, DatabasePart
<1>3. ListInv /\ FilterInv => ListedRightly
  BY ListInvObeys DEF ListInv, AnsweredWell, FilterInv, ListedRightly
<1> QED  BY <1>1, <1>2, <1>3, PTL DEF MCSpec
=============================================================================
