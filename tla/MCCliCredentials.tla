--------------------------- MODULE MCCliCredentials ---------------------------
(***************************************************************************)
(* Instances for TLC of the sign-ins of the two clients.  A behaviour is   *)
(* that of one part, chosen by its initial state; the other part rests:    *)
(*   cli      CliSafety, as the cfg declares it                            *)
(*   website  WebsiteSession, as the cfg declares it                       *)
(***************************************************************************)
EXTENDS CliSafety, TLC

CONSTANTS
  Parts, k1, k2, alice, bob,
  Tabs, Members, Calls, MaxTokens, MaxGenerations  \* website; Members: its accounts

VARIABLES part, issued, saved, tab, lock, flight, call, seen, resent, handled, signedOut

websiteVars == <<issued, saved, tab, lock, flight, call, seen, resent, handled, signedOut>>

\* k1 signs in to another account than the sign-in before the partition
MCAccountOf == [g \in Grants |-> IF g = k1 THEN bob ELSE alice]

Website == INSTANCE WebsiteSession WITH Accounts <- Members, sent <- seen

ASSUME PartAssumption == Website!WebsiteAssumption

MCInit ==
  /\ part \in Parts /\ Init /\ Website!Init
  /\ part = "website" => legacy.access = Foreign

CliPart == part = "cli" /\ Next /\ UNCHANGED <<part, websiteVars>>
WebsitePart == part = "website" /\ Website!Next /\ UNCHANGED <<part, vars>>

MCNext == CliPart \/ WebsitePart

MCSpec == MCInit /\ [][MCNext]_<<part, vars, websiteVars>>

\* The tabs of a browser send a refresh token once, never bring back a sign-in
\* that was signed out of, and have a call handled once, for its maker.
TabsAgree == Website!SentOnce /\ Website!SignOutFinal /\ Website!HandledOnceForMaker

\* Nor does a late answer cost a person a sign-in that was not used.
LoginSurvives == Website!LoginSurvives

MCSymmetry ==
  Permutations(Procs) \cup Permutations(Tabs) \cup Permutations(Members) \cup Permutations(Calls)
=============================================================================
