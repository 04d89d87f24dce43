--------------------------- MODULE WebsiteSession ---------------------------
(***************************************************************************)
(* Sign-ins of the website (frontend/src/lib/session.ts and api.ts).  The  *)
(* tabs of a browser share one storage with a session per account, of      *)
(* which one is active; each tab holds the session it works with.  A       *)
(* session carries a refresh token that may be sent once.  A tab renews    *)
(* its session under a lock all tabs share, marks the token in the storage *)
(* before it sends it, and looks again before it stores the answer.        *)
(* Everything else (sign-in, sign-out, choice of an account) reads and     *)
(* writes the storage without the lock; a tab notices later, and a tab may *)
(* close at any moment.  What a tab does without awaiting is one step.     *)
(***************************************************************************)
EXTENDS Naturals, Sequences, FiniteSets

CONSTANTS
  Tabs, Accounts,
  Calls,           \* calls of the API, each made once, by any tab
  MaxTokens,       \* bound: sessions the backend gives out
  MaxGenerations,  \* bound: after so many changes of its session nobody touches a tab
  None

WebsiteAssumption ==
  /\ None \notin Tabs \cup Accounts \cup Calls \cup Nat
  /\ MaxTokens \in Nat /\ MaxGenerations \in Nat

VARIABLES
  issued,    \* sessions given out: account, and the sign-in it descends from
  saved,     \* the storage: active account, a session and a mark per account
  tab,       \* per tab: open, session in use, generation
  lock,      \* the flight that holds the lock
  flight,    \* per call: the renewal it began
  call,
  sent,      \* history: refresh tokens the backend has seen
  resent,    \* history: refresh tokens it has seen twice
  handled,   \* history: per call, the account that made it and those the backend handled it for
  signedOut  \* history: sign-ins somebody signed out of

history == <<sent, resent, handled, signedOut>>
vars == <<issued, saved, tab, lock, flight, call, history>>

Tokens == 1..MaxTokens
Account(token) == IF token = None THEN None ELSE issued[token].account
Fresh == Len(issued) + 1

Idle == [pc |-> "idle", tab |-> None, gen |-> 0, session |-> None, result |-> None]
Unmade == [pc |-> "unmade", tab |-> None, gen |-> 0, sent |-> None, joined |-> None, replay |-> FALSE]

Init ==
  /\ issued = <<>>
  /\ saved = [active |-> None, session |-> [a \in Accounts |-> None], mark |-> [a \in Accounts |-> None]]
  /\ tab = [t \in Tabs |-> [open |-> TRUE, session |-> None, gen |-> 0]]
  /\ lock = None
  /\ flight = [c \in Calls |-> Idle] /\ call = [c \in Calls |-> Unmade]
  /\ sent = {} /\ resent = {} /\ handled = [c \in Calls |-> [maker |-> None, by |-> <<>>]] /\ signedOut = {}

(* save and forget *)
Without(a) ==
  [active |-> IF saved.active = a THEN None ELSE saved.active,
   session |-> [saved.session EXCEPT ![a] = None],
   mark |-> [saved.mark EXCEPT ![a] = None]]
Keeping(a, token) ==
  [active |-> a,
   session |-> [saved.session EXCEPT ![a] = token],
   mark |-> [saved.mark EXCEPT ![a] = IF saved.session[a] = token THEN @ ELSE None]]
Load == IF saved.active = None THEN None ELSE saved.session[saved.active]

(* setSession *)
SetSession(t, token) == tab' = [tab EXCEPT ![t].session = token, ![t].gen = @ + 1]

-----------------------------------------------------------------------------
(* What people do.                                                         *)

Touched(t) == tab[t].open /\ tab[t].gen < MaxGenerations

SignIn(t, a) ==
  /\ Touched(t) /\ Fresh \in Tokens
  /\ issued' = Append(issued, [account |-> a, signIn |-> Fresh])
  /\ saved' = Keeping(a, Fresh)
  /\ SetSession(t, Fresh)
  /\ UNCHANGED <<lock, flight, call, history>>

SignOut(t) ==
  /\ Touched(t) /\ tab[t].session # None
  /\ LET a == Account(tab[t].session) IN
       /\ saved' = Without(a)
       /\ signedOut' = signedOut \cup
            (IF saved.session[a] = None THEN {} ELSE {issued[saved.session[a]].signIn})
  /\ SetSession(t, None)
  /\ UNCHANGED <<issued, lock, flight, call, sent, resent, handled>>

SwitchContext(t, a) ==
  /\ Touched(t) /\ saved.session[a] # None
  /\ Account(tab[t].session) # a
  /\ saved' = Keeping(a, saved.session[a])
  /\ SetSession(t, saved.session[a])
  /\ UNCHANGED <<issued, lock, flight, call, history>>

(* A tab hears of a change of the storage, or gets the focus. *)
Synchronize(t) ==
  /\ Touched(t)
  /\ Account(Load) # Account(tab[t].session)
  /\ SetSession(t, Load)
  /\ UNCHANGED <<issued, saved, lock, flight, call, history>>

Close(t) ==
  /\ tab[t].open
  /\ tab' = [tab EXCEPT ![t].open = FALSE, ![t].session = None]
  /\ lock' = IF lock # None /\ flight[lock].tab = t THEN None ELSE lock
  /\ flight' = [c \in Calls |-> IF flight[c].tab = t THEN Idle ELSE flight[c]]
  /\ call' = [c \in Calls |-> IF call[c].tab = t THEN [Unmade EXCEPT !.pc = "gone"] ELSE call[c]]
  /\ UNCHANGED <<issued, saved, history>>

Open(t) ==
  /\ ~tab[t].open /\ tab[t].gen < MaxGenerations
  /\ tab' = [tab EXCEPT ![t] = [open |-> TRUE, session |-> Load, gen |-> @.gen + 1]]
  /\ UNCHANGED <<issued, saved, lock, flight, call, history>>

-----------------------------------------------------------------------------
(* Calls of the API.                                                       *)

Current(r) == tab[r.tab].session # None /\ r.gen = tab[r.tab].gen
Refreshing(t) ==
  {f \in Calls : flight[f].tab = t /\ flight[f].gen = tab[t].gen}

(* refresh: a call joins the flight of its tab, or begins one. *)
Await(c, r) ==
  IF Refreshing(r.tab) # {}
  THEN /\ \E f \in Refreshing(r.tab) : call' = [call EXCEPT ![c] = [r EXCEPT !.pc = "await", !.joined = f]]
       /\ UNCHANGED flight
  ELSE /\ call' = [call EXCEPT ![c] = [r EXCEPT !.pc = "await", !.joined = c]]
       /\ flight' = [flight EXCEPT ![c] = [pc |-> "queued", tab |-> r.tab, gen |-> r.gen,
                                           session |-> tab[r.tab].session, result |-> None]]

Begin(c, t) ==
  /\ call[c].pc = "unmade" /\ tab[t].open /\ tab[t].session # None
  /\ LET r == [Unmade EXCEPT !.tab = t, !.gen = tab[t].gen, !.sent = tab[t].session] IN
       \/ call' = [call EXCEPT ![c] = [r EXCEPT !.pc = "asked"]] /\ UNCHANGED flight
       \/ Await(c, r)   \* the session is about to expire
  /\ handled' = [handled EXCEPT ![c].maker = Account(tab[t].session)]
  /\ UNCHANGED <<issued, saved, tab, lock, sent, resent, signedOut>>

EndCall(c, pc) == call' = [call EXCEPT ![c].pc = pc]

(* The backend handles a call; its answer may get lost. *)
Handled(c) ==
  /\ call[c].pc = "asked"
  /\ handled' = [handled EXCEPT ![c].by = Append(@, Account(call[c].sent))]
  /\ \/ EndCall(c, IF call[c].gen = tab[call[c].tab].gen THEN "done" ELSE "failed")
     \/ EndCall(c, "failed")
  /\ UNCHANGED <<issued, saved, tab, lock, flight, sent, resent, signedOut>>

(* Any other failure, or a second rejection. *)
Failed(c) ==
  /\ call[c].pc = "asked"
  /\ EndCall(c, "failed")
  /\ UNCHANGED <<issued, saved, tab, lock, flight, history>>

(* The backend rejects the access token before it handles the call. *)
Rejected(c) ==
  LET r == [call[c] EXCEPT !.replay = TRUE] IN
  /\ call[c].pc = "asked" /\ ~call[c].replay
  /\ IF ~Current(r) THEN EndCall(c, "failed") /\ UNCHANGED flight
     ELSE IF r.sent # tab[r.tab].session
       THEN /\ call' = [call EXCEPT ![c] = [r EXCEPT !.sent = tab[r.tab].session]]
            /\ UNCHANGED flight
       ELSE Await(c, r)
  /\ UNCHANGED <<issued, saved, tab, lock, history>>

-----------------------------------------------------------------------------
(* The renewal of a session.                                               *)

Result(f, result) == flight' = [flight EXCEPT ![f].pc = "result", ![f].result = result]

InUse(f) == tab[flight[f].tab].session = flight[f].session /\ flight[f].gen = tab[flight[f].tab].gen

(* The lock is free: what the storage says now decides.                    *)
Queued(f) == flight[f].pc = "queued" /\ lock = None
Latest(f) == saved.session[Account(flight[f].session)]
Selected(f) == saved.active = Account(flight[f].session) /\ Latest(f) # None
Interrupted(f) == saved.mark[Account(flight[f].session)] = Latest(f)

Refused(f) ==
  /\ Queued(f) /\ ~Selected(f)
  /\ Result(f, None)
  /\ UNCHANGED <<issued, saved, tab, lock, call, history>>

GiveUp(f) ==
  /\ Queued(f) /\ Selected(f) /\ Interrupted(f)
  /\ saved' = Without(Account(flight[f].session))
  /\ Result(f, None)
  /\ UNCHANGED <<issued, tab, lock, call, history>>

Adopt(f) ==
  /\ Queued(f) /\ Selected(f) /\ ~Interrupted(f)
  /\ Latest(f) # flight[f].session
  /\ Result(f, Latest(f))
  /\ UNCHANGED <<issued, saved, tab, lock, call, history>>

FaultySubmit(f) ==   \* mutant: the token is not marked before it is sent
  /\ Queued(f) /\ Selected(f) /\ ~Interrupted(f)
  /\ Latest(f) = flight[f].session /\ InUse(f)
  /\ sent' = sent \cup {Latest(f)}
  /\ resent' = resent \cup ({Latest(f)} \cap sent)
  /\ flight' = [flight EXCEPT ![f].pc = "asked"]
  /\ lock' = f
  /\ UNCHANGED <<issued, saved, tab, call, handled, signedOut>>
Submit(f) ==
  /\ Queued(f) /\ Selected(f) /\ ~Interrupted(f)
  /\ Latest(f) = flight[f].session /\ InUse(f)
  /\ saved' = [saved EXCEPT !.mark[Account(flight[f].session)] = Latest(f)]
  /\ sent' = sent \cup {Latest(f)}
  /\ resent' = resent \cup ({Latest(f)} \cap sent)
  /\ flight' = [flight EXCEPT ![f].pc = "asked"]
  /\ lock' = f
  /\ UNCHANGED <<issued, tab, call, handled, signedOut>>

(* The tab has another session by now: nothing is sent, and the session is *)
(* taken out of the storage all the same.                                  *)
Abandon(f) ==
  /\ Queued(f) /\ Selected(f) /\ ~Interrupted(f)
  /\ Latest(f) = flight[f].session /\ ~InUse(f)
  /\ saved' = Without(Account(flight[f].session))
  /\ Result(f, None)
  /\ UNCHANGED <<issued, tab, lock, call, history>>

Untouched(f) ==
  LET a == Account(flight[f].session) IN
  saved.session[a] = flight[f].session /\ saved.mark[a] = flight[f].session

Renewed(f) ==
  /\ lock = f /\ Fresh \in Tokens
  /\ issued' = Append(issued, issued[flight[f].session])
  /\ IF Untouched(f)
       THEN /\ saved' = [saved EXCEPT !.session[Account(flight[f].session)] = Fresh,
                                      !.mark[Account(flight[f].session)] = None]
            /\ Result(f, Fresh)
       ELSE /\ saved' = IF Latest(f) = flight[f].session THEN Without(Account(flight[f].session)) ELSE saved
            /\ Result(f, None)
  /\ lock' = None
  /\ UNCHANGED <<tab, call, history>>

FaultyNotRenewed(f) ==   \* mutant: whatever session the account has is dropped
  /\ lock = f
  /\ saved' = Without(Account(flight[f].session))
  /\ Result(f, None)
  /\ lock' = None
  /\ UNCHANGED <<issued, tab, call, history>>
NotRenewed(f) ==
  /\ lock = f
  /\ saved' = IF Latest(f) = flight[f].session THEN Without(Account(flight[f].session)) ELSE saved
  /\ Result(f, None)
  /\ lock' = None
  /\ UNCHANGED <<issued, tab, call, history>>

(* The tab takes the result, and so do the calls that waited for it. *)
Proceed(f, session) ==
  [c \in Calls |->
     IF call[c].pc # "await" \/ call[c].joined # f THEN call[c]
     ELSE IF session = None THEN [call[c] EXCEPT !.pc = "failed"]
     ELSE [call[c] EXCEPT !.pc = "asked", !.sent = session]]

Deliver(f) ==
  /\ flight[f].pc = "result"
  /\ IF ~InUse(f) THEN call' = Proceed(f, None) /\ UNCHANGED tab
     ELSE /\ IF flight[f].result = None THEN SetSession(flight[f].tab, None)
             ELSE tab' = [tab EXCEPT ![flight[f].tab].session = flight[f].result]
          /\ call' = Proceed(f, flight[f].result)
  /\ flight' = [flight EXCEPT ![f] = Idle]
  /\ UNCHANGED <<issued, saved, lock, history>>

Renewal(f) ==
  \/ Refused(f) \/ GiveUp(f) \/ Adopt(f) \/ Submit(f) \/ Abandon(f)
  \/ Renewed(f) \/ NotRenewed(f) \/ Deliver(f)

Next ==
  \/ \E t \in Tabs : SignOut(t) \/ Synchronize(t) \/ Close(t) \/ Open(t)
  \/ \E t \in Tabs, a \in Accounts : SignIn(t, a) \/ SwitchContext(t, a)
  \/ \E c \in Calls, t \in Tabs : Begin(c, t)
  \/ \E c \in Calls : Handled(c) \/ Failed(c) \/ Rejected(c) \/ Renewal(c)

Spec == Init /\ [][Next]_vars

-----------------------------------------------------------------------------
(* What the website promises about sign-ins, whatever its tabs do. *)

TypeOK ==
  /\ issued \in Seq([account : Accounts, signIn : Tokens]) /\ Len(issued) <= MaxTokens
  /\ saved \in [active : Accounts \cup {None}, session : [Accounts -> DOMAIN issued \cup {None}],
               mark : [Accounts -> DOMAIN issued \cup {None}]]
  /\ tab \in [Tabs -> [open : BOOLEAN, session : DOMAIN issued \cup {None}, gen : Nat]]
  /\ lock \in Calls \cup {None}
  /\ flight \in [Calls -> [pc : {"idle", "queued", "asked", "result"}, tab : Tabs \cup {None}, gen : Nat,
                           session : DOMAIN issued \cup {None}, result : DOMAIN issued \cup {None}]]
  /\ call \in [Calls -> [pc : {"unmade", "await", "asked", "done", "failed", "gone"}, tab : Tabs \cup {None},
                         gen : Nat, sent : DOMAIN issued \cup {None}, joined : Calls \cup {None}, replay : BOOLEAN]]
  /\ sent \subseteq DOMAIN issued /\ resent \subseteq sent
  /\ handled \in [Calls -> [maker : Accounts \cup {None}, by : Seq(Accounts)]]

(* No refresh token is sent twice, whichever tabs renew at once, close     *)
(* between sending and storing, or lose their answer: Accounts would       *)
(* revoke the sign-in.  (session.ts:89-101)                                *)
SentOnce == resent = {}

(* A sign-in somebody signed out of is in the storage no more: a renewal   *)
(* that was on its way, in whatever tab, does not bring it back, and does  *)
(* not end up in a later sign-in either.  (session.ts:81-88, 104-109)      *)
SignOutFinal ==
  \A a \in Accounts : saved.session[a] # None =>
    /\ issued[saved.session[a]].signIn \notin signedOut
    /\ Account(saved.session[a]) = a

(* A saved session whose token was not sent yet is taken away or replaced  *)
(* only by its own renewal or by a person: a late answer to an earlier     *)
(* session of the account, or its failure, does not cost a new sign-in.    *)
(* (session.ts:66-80, 106-113)                                             *)
Replaced(a) == saved.session[a] \notin {None, saved'.session[a]}
ByPerson == \E t \in Tabs : SignOut(t) \/ \E a \in Accounts : SignIn(t, a)
OwnRenewal(a) == \E f \in Calls : flight[f].session = saved.session[a] /\ flight'[f].pc # flight[f].pc
LoginSurvives ==
  [][\A a \in Accounts : Replaced(a) => saved.session[a] \in sent \/ OwnRenewal(a) \/ ByPerson]_vars

(* A call is handled once, for the account that made it: it is repeated    *)
(* only after a rejection, and not with the session of an account the tab  *)
(* changed to meanwhile.  (api.ts:88-107)                                  *)
HandledOnceForMaker ==
  \A c \in Calls : handled[c].by \in {<<>>, <<handled[c].maker>>}

(* tests/session.test.ts:201: "switching accounts during rotation          *)
(* preserves both families and the selected account" - a session that was  *)
(* not sent is lost to a person only who signs out or in again.            *)
SwitchKeepsFamilies ==
  [][\A a \in Accounts : Replaced(a) => saved'.session[a] # None \/ saved.session[a] \in sent \/ ByPerson]_vars
=============================================================================
