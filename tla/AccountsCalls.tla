----------------------------- MODULE AccountsCalls -----------------------------
(***************************************************************************)
(* What the backend asks of Silicon Accounts (auth.rs), answer by answer:  *)
(* whom a bearer token belongs to, a session for a one-time credential,    *)
(* and the account behind each handle a profile is shared with             *)
(* (server.rs, access.rs).  Meanwhile accounts are closed and take other   *)
(* handles, tokens lapse, and answers are refusals, are cut or are lost.   *)
(***************************************************************************)
EXTENDS Naturals, FiniteSets, Sequences, SequencesExt

CONSTANTS
  Bearers, Exchanges, Shares,  \* requests of the three kinds
  Accounts, Handles,
  Owner,       \* the account that shares
  Asked,       \* [Shares -> a sequence of accounts and handles]
  Tokens,      \* access tokens and other tokens of Accounts
  Malformed,   \* those that do not look like a token (jwt)
  AccountOf, AppOf, KindOf,  \* of a token
  TokenOf,     \* the token a bearer request carries, or an exchange is given
  MaxEntries,  \* AccessList::MAX_ENTRIES
  MaxChanges,  \* bound: handles moved, accounts closed, tokens revoked or expired
  None

Signing == Bearers \cup Exchanges
Asking == Signing \cup Shares

CallsAssumption ==
  /\ Signing \cap Shares = {} /\ None \notin Accounts \cup Handles
  /\ AccountOf \in [Tokens -> Accounts]
  /\ DOMAIN AppOf = Tokens /\ DOMAIN KindOf = Tokens /\ Malformed \subseteq Tokens
  /\ TokenOf \in [Signing -> Tokens]
  /\ Asked \in [Shares -> Seq(Accounts \cup Handles)]
  /\ Owner \in Accounts /\ MaxEntries \in Nat \ {0} /\ MaxChanges \in Nat

VARIABLES
  holder,    \* the account that has a handle, or None
  former,    \* accounts that had it before
  active,    \* accounts that are not closed
  live, expired,  \* tokens that are not revoked; tokens past their time
  early,     \* tokens whose time (nbf) has not come by the backend's clock
  pc, answer,
  named,     \* what a share has resolved; the name that came with a token
  result,    \* of a request that has ended
  said,      \* history: Accounts has refused the request's sign-in
  held,      \* history: <<handle, account>> that were true while a share ran
  valid,     \* history: the token was good when Accounts was asked
  soon,      \* history: the token's time had not come when the request began
  changes

accountsVars == <<holder, former, active, live, expired, early, changes>>
historyVars == <<said, held, valid, soon>>
vars == <<accountsVars, pc, answer, named, result, historyVars>>

Held == {<<h, holder[h]>> : h \in {h \in Handles : holder[h] \in active}}
Good(t) == t \in live /\ t \notin expired /\ AccountOf[t] \in active
Name(account) ==
  IF \E h \in Handles : holder[h] = account THEN CHOOSE h \in Handles : holder[h] = account ELSE None

Init ==
  /\ holder \in {f \in [Handles -> Accounts \cup {None}] :
                   \A g, h \in Handles : f[g] = f[h] => g = h \/ f[g] = None}
  /\ former = [h \in Handles |-> {}] /\ active = Accounts /\ live = Tokens /\ expired = {}
  /\ early \in SUBSET Tokens /\ soon = {}
  /\ pc = [r \in Asking |-> "new"] /\ answer = [r \in Asking |-> None]
  /\ named = [r \in Asking |-> <<>>] /\ result = [r \in Asking |-> None]
  /\ said = {} /\ held = [r \in Shares |-> {}] /\ valid = {} /\ changes = 0

Put(f, r, value) == [f EXCEPT ![r] = value]
Goto(r, next) == pc' = Put(pc, r, next)
EndWith(r, what) ==
  /\ Goto(r, "done") /\ result' = Put(result, r, what) /\ answer' = Put(answer, r, None)

(* From<IdentityError>: the status a failure is answered with. *)
Public(kind, status) ==
  IF kind = "unauthenticated" THEN 401
  ELSE IF kind = "input" THEN 400
  ELSE IF kind = "upstream" THEN (IF status = 429 THEN 429 ELSE 503)
  ELSE IF kind = "rejected" /\ status \in {401, 403} THEN status ELSE 502
Fail(r, kind, status) == EndWith(r, [status |-> Public(kind, status)]) /\ UNCHANGED named

-----------------------------------------------------------------------------
(* Accounts answers a call, or its answer is lost; `grant' is the error    *)
(* invalid_grant.  401 is also what a wrong secret of the backend gets.    *)

Answered(told) == [status |-> 200, whole |-> TRUE, body |-> told]
Failures == [status : {0, 200}, whole : {FALSE}] \cup [status : {401, 403, 429, 500}, whole : BOOLEAN]
Refused == [status |-> 400, whole |-> TRUE, grant |-> TRUE]
Refusal(a) == a = Refused \/ (a.whole /\ a.status = 401)
Reply(r, a) ==
  /\ answer' = Put(answer, r, a)
  /\ said' = IF Refusal(a) THEN said \cup {r} ELSE said

(* The credential is taken, also if the answer is lost. *)
ServeToken(r) ==
  /\ pc[r] = "token" /\ answer[r] = None
  /\ \E a \in {Answered(Name(AccountOf[TokenOf[r]])), Refused} \cup Failures : Reply(r, a)
  /\ UNCHANGED <<accountsVars, pc, named, result, held, valid, soon>>

ServeIntrospection(r) ==
  /\ pc[r] = "introspect" /\ answer[r] = None
  /\ LET t == TokenOf[r]
         claims == [active |-> Good(t), app |-> AppOf[t], type |-> KindOf[t], name |-> Name(AccountOf[t])] IN
       /\ valid' = IF Good(t) THEN valid \cup {r} ELSE valid \ {r}
       /\ \/ /\ answer' = Put(answer, r, Answered(claims))
             /\ said' = IF Good(t) THEN said ELSE said \cup {r}
          \/ \E a \in Failures : Reply(r, a)
  /\ UNCHANGED <<accountsVars, pc, named, result, held, soon>>

Selector(r) == Asked[r][Len(named[r]) + 1]
Remain(r) == Len(named[r]) < Len(Asked[r])

(* An account is found by the handle it has, or by one that it had before. *)
ServeLookup(r) ==
  /\ pc[r] = "lookup" /\ answer[r] = None
  /\ LET h == Selector(r) IN
       \/ \E account \in ({holder[h]} \cup former[h]) \ {None} :
            Reply(r, Answered([account |-> account, id |-> Name(account), open |-> account \in active]))
       \/ \E a \in Failures \cup {[status |-> 404, whole |-> TRUE]} : Reply(r, a)
  /\ UNCHANGED <<accountsVars, pc, named, result, held, valid, soon>>

Change ==
  /\ changes < MaxChanges /\ changes' = changes + 1
  /\ \/ \E h \in Handles : \E account \in (active \cup {None}) \ {holder[h]} :
          /\ holder' = [g \in Handles |-> IF g = h THEN account
                                          ELSE IF holder[g] = account THEN None ELSE holder[g]]
          /\ former' = [g \in Handles |-> former[g] \cup ({holder[g]} \ {holder'[g], None})]
          /\ UNCHANGED <<active, live, expired, early>>
     \/ \E account \in active : active' = active \ {account} /\ UNCHANGED <<holder, former, live, expired, early>>
     \/ \E t \in live : live' = live \ {t} /\ UNCHANGED <<holder, former, active, expired, early>>
     \/ \E t \in Tokens \ (expired \cup early) :
          expired' = expired \cup {t} /\ UNCHANGED <<holder, former, active, live, early>>
     \/ \E t \in early : early' = early \ {t} /\ UNCHANGED <<holder, former, active, live, expired>>
  /\ held' = [r \in Shares |-> IF pc[r] \in {"share", "lookup"} THEN held[r] \cup Held' ELSE held[r]]
  /\ UNCHANGED <<pc, answer, named, result, said, valid, soon>>

-----------------------------------------------------------------------------
(* The backend. *)

Shapeless(r) == r \in Bearers /\ TokenOf[r] \in Malformed
(* introspect: what does not look like a token is not asked about. *)
Reject(r) ==
  /\ pc[r] = "new" /\ Shapeless(r) /\ Fail(r, "unauthenticated", 0)
  /\ UNCHANGED <<accountsVars, historyVars>>

Begin(r) ==
  /\ pc[r] = "new" /\ ~Shapeless(r)
  /\ Goto(r, IF r \in Shares THEN "share" ELSE IF r \in Exchanges THEN "token" ELSE "introspect")
  /\ held' = IF r \in Shares THEN Put(held, r, Held) ELSE held
  /\ soon' = IF r \in Signing /\ TokenOf[r] \in early THEN soon \cup {r} ELSE soon
  /\ UNCHANGED <<accountsVars, answer, named, result, said, valid>>

Usable(r) == answer[r].status = 200 /\ answer[r].whole

(* request: an answer that is lost or cut is an outage, whatever it was.   *)
Unusable(r) ==
  /\ answer[r] # None /\ ~Usable(r)
  /\ LET a == answer[r]
         outage == ~a.whole \/ a.status \in {429, 500} IN
       \/ outage /\ Fail(r, "upstream", IF a.whole THEN a.status ELSE 0)
       \/ ~outage /\ a = Refused /\ Fail(r, "unauthenticated", 0)
       \/ ~outage /\ a # Refused /\ Fail(r, "rejected", a.status)
  /\ UNCHANGED <<accountsVars, historyVars>>

(* exchange: the new access token is introspected at once, if it is one. *)
Exchanged(r) ==
  /\ pc[r] = "token" /\ answer[r] # None /\ Usable(r)
  /\ \/ TokenOf[r] \in Malformed /\ Fail(r, "contract", 0)
     \/ /\ TokenOf[r] \notin Malformed
        /\ named' = Put(named, r, <<answer[r].body>>)
        /\ answer' = Put(answer, r, None) /\ Goto(r, "introspect") /\ UNCHANGED result
  /\ UNCHANGED <<accountsVars, historyVars>>

(* identity_from_claims, and for a session what came with the token. *)
Bound(c) == c.name # None /\ c.type = "access_token" /\ c.app = "browser"
InTime(t) == t \notin expired \cup early
Introspected(r) ==
  /\ pc[r] = "introspect" /\ answer[r] # None /\ Usable(r)
  /\ LET c == answer[r].body IN
       \/ ~c.active /\ Fail(r, "unauthenticated", 0)
       \/ c.active /\ ~Bound(c) /\ Fail(r, "contract", 0)
       \/ c.active /\ Bound(c) /\ ~InTime(TokenOf[r]) /\ Fail(r, "unauthenticated", 0)
       \/ /\ c.active /\ Bound(c) /\ InTime(TokenOf[r])
          /\ IF r \in Exchanges /\ named[r] # <<c.name>> THEN Fail(r, "contract", 0)
             ELSE EndWith(r, [status |-> 200]) /\ UNCHANGED named
  /\ UNCHANGED <<accountsVars, historyVars>>

(* resolve_access: one selector after the other; an account stands for     *)
(* itself.                                                                 *)
Take(r) ==
  /\ pc[r] = "share" /\ Remain(r)
  /\ IF Selector(r) \in Accounts
     THEN named' = Put(named, r, Append(named[r], Selector(r))) /\ UNCHANGED pc
     ELSE Goto(r, "lookup") /\ UNCHANGED named
  /\ UNCHANGED <<accountsVars, answer, result, historyVars>>

FaultyIsIt(found, h) == found.open   \* mutant: also an account that had the handle
IsIt(found, h) == found.open /\ found.id = h
Looked(r) ==
  /\ pc[r] = "lookup" /\ answer[r] # None /\ Usable(r)
  /\ LET found == answer[r].body IN
       IF IsIt(found, Selector(r))
       THEN /\ named' = Put(named, r, Append(named[r], found.account))
            /\ answer' = Put(answer, r, None) /\ Goto(r, "share") /\ UNCHANGED result
       ELSE Fail(r, "input", 0)
  /\ UNCHANGED <<accountsVars, historyVars>>

(* AccessList::new, with_owner: each account where it first occurs, the    *)
(* owner before all others.                                                *)
Once(list) ==
  LET made[n \in 0..Len(list)] ==
        IF n = 0 THEN <<>>
        ELSE IF list[n] \in ToSet(made[n - 1]) THEN made[n - 1] ELSE Append(made[n - 1], list[n])
  IN made[Len(list)]
WithOwner(list) == Once(<<Owner>> \o list)
Store(r) ==
  /\ pc[r] = "share" /\ ~Remain(r)
  /\ IF Len(named[r]) > MaxEntries \/ Len(WithOwner(named[r])) > MaxEntries THEN Fail(r, "input", 0)
     ELSE EndWith(r, [status |-> 200, list |-> WithOwner(named[r])]) /\ UNCHANGED named
  /\ UNCHANGED <<accountsVars, historyVars>>

Step(r) ==
  \/ Reject(r) \/ Begin(r) \/ Unusable(r) \/ Exchanged(r) \/ Introspected(r) \/ Take(r) \/ Looked(r) \/ Store(r)
  \/ ServeToken(r) \/ ServeIntrospection(r) \/ ServeLookup(r)

Next == Change \/ \E r \in Asking : Step(r)

Spec == Init /\ [][Next]_vars

-----------------------------------------------------------------------------
TypeOK ==
  /\ active \subseteq Accounts /\ live \subseteq Tokens /\ expired \subseteq Tokens
  /\ early \subseteq Tokens /\ said \cup valid \cup soon \subseteq Asking

Ended(r, status) == result[r] # None /\ result[r].status = status

(* Clients give up their sign-in on a 401: an answer that is lost, cut or  *)
(* an outage is none, only what Accounts has refused, what is not a token  *)
(* at all, and a token outside of its time: one that is past it, or whose  *)
(* time had not come when the request began.                               *)
(* (server.rs:2019, auth.rs:226-253, 428-431)                              *)
OutageKeepsSignIn ==
  \A r \in Asking : Ended(r, 401) =>
    \/ r \in said
    \/ r \in Bearers /\ TokenOf[r] \in Malformed
    \/ r \in Signing /\ (TokenOf[r] \in expired \/ r \in soon)

(* Who is let in, or given a session, has an access token for this         *)
(* application that was good when Accounts was asked.                      *)
(* (auth.rs:249-281, 409-431)                                              *)
ForThisApp ==
  \A r \in Signing : Ended(r, 200) =>
    /\ AppOf[TokenOf[r]] = "browser" /\ KindOf[TokenOf[r]] = "access_token"
    /\ TokenOf[r] \notin Malformed /\ r \in valid

(* A profile is shared with no account that did not have the named handle, *)
(* or was closed, all the time of the request.  (auth.rs:326-332)          *)
GrantedHeld ==
  \A r \in Shares : Ended(r, 200) =>
    \A account \in ToSet(result[r].list) \ {Owner} :
      \E i \in DOMAIN Asked[r] : Asked[r][i] = account \/ <<Asked[r][i], account>> \in held[r]

(* What is stored is the whole list, each account once, with the owner     *)
(* first and within the limit, also if handles turn out to be one account. *)
(* (access.rs:40-50)                                                       *)
ListWhole ==
  \A r \in Shares : Ended(r, 200) =>
    LET list == result[r].list IN
      /\ list[1] = Owner /\ IsInjective(list) /\ Len(list) <= MaxEntries
      /\ ToSet(list) = {Owner} \cup ToSet(named[r]) /\ Len(named[r]) = Len(Asked[r])
=============================================================================
