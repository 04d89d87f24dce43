--------------------------- MODULE SharingSafety ---------------------------
(* What the store promises about profiles, sessions, usage, sign-ins and the *)
(* change of account ids.                                                     *)
EXTENDS AccountCutover, Sequences

Rows == [status : {"absent", "starting", "active", "ending", "ended"},
         late : BOOLEAN, participants : SUBSET Ids]

Work ==
  {Free}
  \cup [op : {"update"}, by : People, people : (SUBSET People) \cup {None}, read : SUBSET Ids]
  \cup [op : {"reserve"}, by : People, session : Sessions]
  \cup [op : {"start", "end", "stop", "finalize"}, session : Sessions]
  \cup [op : {"sample"}, session : Sessions, counters : Nat]
  \cup [op : {"update usage"}, session : Sessions, counters : Nat, row : [counters : Nat, cost : Nat]]
  \cup [op : {"claim code", "present"}, attempt : Attempts, code : Codes]

TypeOK ==
  /\ profile \in [owner : Ids, status : {"active", "ended"}, access : SUBSET Ids]
  /\ granted \subseteq People
  /\ session \in [Sessions -> Rows]
  /\ links \subseteq Sessions
  /\ handler \in [Slots -> Work] /\ begun \in Nat
  /\ spent \in [Sessions -> Nat]
  /\ usage \in [Sessions -> [counters : Nat, cost : Nat]]
  /\ attempt \in [Attempts -> [status : {"absent", "open", "claimed", "deleted"}, lapsed : BOOLEAN]]
  /\ submitted \subseteq Codes
  /\ presented \in [Attempts \X Codes -> Nat]
  /\ past \in [participants : SUBSET Ids, recording : Ids, command : [actor : Ids, sealedFor : Ids]]
  /\ cutover \in (SUBSET People) \cup {None}

(* The profile is shared with exactly the people its owner named last, and  *)
(* with the owner: two updates in flight, one of them only a new name, never *)
(* bring somebody back who was removed (update_profile), nor does the change *)
(* of ids (migrate_pool).                                                    *)
AccessAsGranted ==
  /\ {Person(id) : id \in profile.access} = granted
  /\ profile.owner \in profile.access

(* Counters never go back, costs not before the session ends, and an ended *)
(* session's bill stays as it is, whatever refreshes are still in flight    *)
(* (record_usage_snapshot).                                                 *)
UsageNeverShrinks ==
  [][\A s \in Sessions :
       /\ usage[s].counters <= usage'[s].counters
       /\ session[s].status = "active" => usage[s].cost <= usage'[s].cost
       /\ session[s].status = "ended" => usage'[s] = usage[s]]_vars

(* Accounts sees neither an attempt's verifier nor a code twice, although   *)
(* requests race, answers are lost and the process may die in between       *)
(* (exchange, claim_token): a repetition would revoke the sign-in.          *)
PresentedOnce ==
  \A x, y \in Attempts \X Codes :
    /\ presented[x] <= 1
    /\ presented[x] > 0 /\ presented[y] > 0 /\ x # y => x[1] # y[1] /\ x[2] # y[2]

(* What the person behind an id may do: under either spelling, and as the *)
(* store would find it for the ids in `mine'.                              *)
Rights(mine) ==
  {<<"owns", id>> : id \in mine \cap {profile.owner}}
  \cup {<<"uses", id>> : id \in mine \cap profile.access}
  \cup {<<"saw", id>> : id \in mine \cap past.participants}
  \cup {<<"keeps", id>> : id \in mine \cap {past.recording}}
  \cup {<<"reads", id>> : id \in mine \cap {past.command.actor} \cap {past.command.sealedFor}}
  \cup UNION {{<<"sees", s, id>> : id \in mine \cap session[s].participants} : s \in Sessions}

Spelled(p) == {<<p, "old">>, New(p)}
Kinds(rights) == {<<r[1], IF Len(r) = 3 THEN r[2] ELSE None>> : r \in rights}

(* The change of ids takes nothing from anybody and gives nobody anything: *)
(* each person can do under the new id what either id allowed before, and   *)
(* the logged commands can still be opened (migrate_pool).                  *)
RightsSurvive ==
  [][cutover' # cutover =>
       \A p \in People :
         /\ Kinds(Rights({New(p)}))' = Kinds(Rights(Spelled(p)))
         /\ Rights({<<p, "old">>})' = {}]_vars
=============================================================================
