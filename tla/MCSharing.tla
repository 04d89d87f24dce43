----------------------------- MODULE MCSharing -----------------------------
(***************************************************************************)
(* Instances for TLC of the store and of what is read from it.  A          *)
(* behaviour is that of one part, chosen by its initial state; the others  *)
(* rest:                                                                   *)
(*   sharing   SharingSafety, as the cfg declares it                       *)
(*   listing   one request that reads while one session, on the profile or *)
(*             not, changes twice                                          *)
(*   filter    patterns and texts of up to three characters                *)
(*   database  two starts of a backend among other releases                *)
(***************************************************************************)
EXTENDS SharingSafety, TLC

CONSTANTS
  Parts,
  Names, Days, Filters,    \* names, days and filters of sessions that are listed
  MaxStages, MaxListed, MaxChanges,
  Lower, Upper, Star,      \* characters of patterns and texts
  MaxPattern, MaxText

VARIABLES
  part,
  listable, shared, request, changes, answers, seen,                       \* listing
  pattern, text, used, offset, verdict,                                  \* filter
  schema, records, ledger, iam, older, pc, listed, together, late, overlapped, strayed  \* database

listingVars == <<listable, shared, request, changes, answers, seen>>
filterVars == <<pattern, text, used, offset, verdict>>
databaseVars == <<schema, records, ledger, iam, older, pc, listed, together, late, overlapped, strayed>>

List == INSTANCE Listings WITH Texts <- Filters, session <- listable
Filter == INSTANCE TextFilter

\* The starts bear the names of the slots: they are as alike.
Database == INSTANCE DatabaseStart WITH Starts <- Slots, rows <- records

ASSUME ListingConstants == List!ListingAssumption
ASSUME FilterConstants == Filter!FilterAssumption

MCInit ==
  /\ part \in Parts
  /\ IF part = "filter" THEN TRUE ELSE pattern = [anchored |-> TRUE, body |-> <<>>] /\ text = <<>>
  /\ Init /\ List!Init /\ Filter!Init /\ Database!Init
  /\ part # "sharing" => profile.owner = New(Owner) /\ past.recording = New(Owner)
  /\ part # "listing" => shared = {}
  /\ part # "database" => schema = 0

\* Bounds: one session, on the profile or not, in a behaviour; a second sign-in
\* only where there is none.
SharingPart ==
  /\ part = "sharing" /\ Next
  /\ Cardinality({s \in Sessions : session'[s].status # "absent"}) <= 1
  /\ \/ Cardinality({a \in Attempts : attempt'[a].status # "absent"}) <= 1
     \/ Cardinality({s \in Sessions : session'[s].status # "absent"}) = 0
  /\ UNCHANGED <<part, listingVars, filterVars, databaseVars>>
ListingPart ==
  /\ part = "listing" /\ List!Next
  /\ Cardinality({s \in Sessions : listable'[s].status # "absent"}) <= MaxListed
  /\ UNCHANGED <<part, vars, filterVars, databaseVars>>
FilterPart == part = "filter" /\ Filter!Next /\ UNCHANGED <<part, vars, listingVars, databaseVars>>
DatabasePart == part = "database" /\ Database!Next /\ UNCHANGED <<part, vars, listingVars, filterVars>>

MCNext == SharingPart \/ ListingPart \/ FilterPart \/ DatabasePart

MCSpec == MCInit /\ [][MCNext]_<<part, vars, listingVars, filterVars, databaseVars>>

\* What is listed or shown could be seen, at one moment of the request, and is
\* what the filter means.
ListedRightly ==
  /\ List!ListIsOneMoment /\ List!RecordingsComplete /\ List!ShownWasVisible /\ List!StagesObeyed
  /\ Filter!Sound /\ Filter!CompleteWhenOpen

\* Every text that a pattern means is kept, as the comment of the matcher says.
FilterComplete == part = "filter" => Filter!Complete

\* A file is served, migrated or refused according to whose records it holds.
FileHasOneOwner ==
  Database!ServesOwned /\ Database!IamStillStarts /\ Database!Restarts /\ Database!MigratesAlone

\* The filters of the runs: none, and the active sessions of somebody else.
Stage(key, word) == [key |-> key, word |-> word, from |-> 0, to |-> 0]
MCFilters == {<<>>} \cup {<<Stage("for", p), Stage("is", "active")>> : p \in People \ {Owner}}
MCUpper == "A" :> "a"

SharingSymmetry == Permutations(Slots)
=============================================================================
