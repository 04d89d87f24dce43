--------------------------- MODULE AccountCutover ---------------------------
(***************************************************************************)
(* The change of account ids (store/account_uuids.rs), over a store that   *)
(* an earlier release filled under the old ids.  With the service stopped, *)
(* a map from old to new ids is applied to every reference in one          *)
(* transaction: owners, access lists, participants, recordings and the     *)
(* actors of logged commands, whose ciphertext is bound to the actor.      *)
(***************************************************************************)
EXTENDS SignInAttempts

VARIABLES
  past,     \* its participants, its recording's owner and its logged command
  cutover   \* the people of the applied map, or None

cutoverVars == <<past, cutover>>
vars == <<sharingVars, usageVars, signInVars, cutoverVars>>

(* The earlier release ran under the ids the profile is stored under. *)
CutoverInit ==
  /\ \E p \in People :
       LET id == <<p, profile.owner[2]>> IN
         past = [participants |-> {id, profile.owner}, recording |-> id,
                 command |-> [actor |-> id, sealedFor |-> id]]
  /\ cutover = None

Init == SharingInit /\ UsageInit /\ SignInInit /\ CutoverInit

-----------------------------------------------------------------------------

(* Every reference the migration declares. *)
References ==
  {profile.owner, past.recording, past.command.actor} \cup profile.access \cup past.participants
  \cup UNION {session[s].participants : s \in Sessions}

Rekeyed(map, id) == IF Person(id) \in map THEN New(Person(id)) ELSE id
RekeyedAll(map, ids) == {Rekeyed(map, id) : id \in ids}

FaultyComplete(map) ==   \* mutant: a reference the map does not know is passed over
  \A id \in References : id[2] = "new" => Person(id) \notin map

(* Every reference is a new id or in the map, whose targets nobody has yet: *)
(* a person who signed in before the cutover keeps it from being applied.   *)
Complete(map) ==
  \A id \in References : (id[2] = "old") = (Person(id) \in map)

Rekey(map) ==
  /\ profile' = [profile EXCEPT !.owner = Rekeyed(map, @), !.access = RekeyedAll(map, @)]
  /\ session' = [s \in Sessions |->
       [session[s] EXCEPT !.participants = RekeyedAll(map, @)]]
  /\ past' = [participants |-> RekeyedAll(map, past.participants),
              recording |-> Rekeyed(map, past.recording),
              command |-> [actor |-> Rekeyed(map, past.command.actor),
                           sealedFor |-> Rekeyed(map, past.command.actor)]]

\* Unclaimed sign-in attempts expire.
Void == [a \in Attempts |->
  IF attempt[a].status = "open" THEN [attempt[a] EXCEPT !.lapsed = TRUE] ELSE attempt[a]]

(* migrate_pool with `--apply --writers-stopped'; a dry run, a refusal and a *)
(* replay of the same map change nothing.                                    *)
Apply(map) ==
  /\ \A q \in Slots : Working(q, "free")
  /\ cutover = None
  /\ Complete(map)
  /\ Rekey(map)
  /\ attempt' = Void
  /\ cutover' = map
  /\ UNCHANGED <<granted, links, workVars, usageVars, submitted, presented>>

Next ==
  \/ SharingStep /\ UNCHANGED <<usageVars, signInVars, cutoverVars>>
  \/ UsageStep /\ UNCHANGED <<signInVars, cutoverVars>>
  \/ SignInStep /\ UNCHANGED cutoverVars
  \/ \E map \in SUBSET People : Apply(map)

Spec == Init /\ [][Next]_vars
=============================================================================
