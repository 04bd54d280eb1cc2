---------------------------- MODULE PartnerLogin ----------------------------
(***************************************************************************)
(* The partner sign-in of Choice: backend/app/services/choice_oauth.py and *)
(* its two endpoints in backend/app/api/v1/auth.py.  Choice sends the      *)
(* user's browser back with the state token the flow began with; a browser *)
(* may follow the link again, at any time and from two windows at once.    *)
(* The store of states is used under its lock, so each use is one step.    *)
(***************************************************************************)
EXTENDS Integers, Sequences

CONSTANTS
  User,    \* platform users
  State,   \* state tokens; a nonce never repeats
  Thread,  \* threads that serve callbacks
  Ttl      \* STATE_TTL_SECONDS, in ticks

VARIABLES
  configured, \* the deployment has a key to decrypt callbacks with
  store,      \* _states: the tokens in it
  bound,      \* bound[s]: the user token s was issued to, "no" before
  age,        \* age[s]: ticks since then, up to Ttl + 1
  active,     \* users whose account is active
  callback,   \* callback[t]: the redirect thread t serves
  attached,   \* history: attached[s], the users whose session came from s,
              \* in order
  punctual    \* history: no token was accepted after its time

vars == <<configured, store, bound, age, active, callback, attached, punctual>>

Idle == [pc |-> "idle", state |-> "no", user |-> "no"]

TypeOK ==
  /\ configured \in BOOLEAN /\ punctual \in BOOLEAN
  /\ store \subseteq State /\ active \subseteq User
  /\ bound \in [State -> User \cup {"no"}] /\ age \in [State -> 0 .. Ttl + 1]
  /\ callback \in [Thread -> [pc : {"idle", "decrypt", "user", "attach"},
                              state : State \cup {"no"}, user : User \cup {"no"}]]
  /\ \A s \in State : Len(attached[s]) <= 2

Init ==
  /\ configured \in BOOLEAN
  /\ store = {} /\ active = User
  /\ bound = [s \in State |-> "no"] /\ age = [s \in State |-> 0]
  /\ callback = [t \in Thread |-> Idle]
  /\ attached = [s \in State |-> <<>>] /\ punctual = TRUE

Purged(states) == {s \in states : age[s] <= Ttl}

\* /choice/oauth/start: a token for the signed-in user, if the flow is on.
Issue(u, s) ==
  /\ configured /\ u \in active /\ bound[s] = "no"
  /\ store' = Purged(store) \cup {s}
  /\ bound' = [bound EXCEPT ![s] = u]
  /\ UNCHANGED <<configured, age, active, callback, attached, punctual>>

\* Mutant: the token stays in the store.
Taken_kept(s) == Purged(store)
Taken(s) == Purged(store) \ {s}

\* /choice/oauth/callback: the token is taken out first, whatever follows.
Consume(t, s) ==
  /\ callback[t].pc = "idle" /\ bound[s] # "no"
  /\ store' = Taken(s)
  /\ callback' = [callback EXCEPT ![t] =
       IF s \in Purged(store) THEN [pc |-> "decrypt", state |-> s, user |-> bound[s]]
       ELSE Idle]
  /\ punctual' = (punctual /\ (s \in Purged(store) => age[s] <= Ttl))
  /\ UNCHANGED <<configured, bound, age, active, attached>>

Goes(t, r) ==
  /\ callback' = [callback EXCEPT ![t] = r]
  /\ UNCHANGED <<configured, store, bound, age, active, punctual>>

\* What Choice sent can be read with the key, or not.
Decrypt(t) ==
  LET r == callback[t]
  IN  /\ r.pc = "decrypt"
      /\ \/ configured /\ Goes(t, [r EXCEPT !.pc = "user"])
         \/ Goes(t, Idle)
      /\ UNCHANGED attached

\* The account is looked up; without an active one the answer is 401.
FindUser(t) ==
  LET r == callback[t]
  IN  /\ r.pc = "user"
      /\ Goes(t, IF r.user \in active THEN [r EXCEPT !.pc = "attach"] ELSE Idle)
      /\ UNCHANGED attached

\* attach_partner_session; its effect on the session is in ChoiceSession.
Attach(t) ==
  LET r == callback[t]
  IN  /\ r.pc = "attach"
      /\ attached' = [attached EXCEPT ![r.state] = Append(@, r.user)]
      /\ Goes(t, Idle)

\* An administrator switches an account off or on.
SetActive(u) ==
  /\ active' = IF u \in active THEN active \ {u} ELSE active \cup {u}
  /\ UNCHANGED <<configured, store, bound, age, callback, attached, punctual>>

Tick ==
  /\ age' = [s \in State |-> IF bound[s] # "no" /\ age[s] <= Ttl THEN age[s] + 1 ELSE age[s]]
  /\ UNCHANGED <<configured, store, bound, active, callback, attached, punctual>>

\* The store lives in memory.
Restart ==
  /\ store' = {} /\ callback' = [t \in Thread |-> Idle]
  /\ UNCHANGED <<configured, bound, age, active, attached, punctual>>

Next ==
  \/ \E u \in User : SetActive(u) \/ \E s \in State : Issue(u, s)
  \/ \E t \in Thread :
       \/ \E s \in State : Consume(t, s)
       \/ Decrypt(t) \/ FindUser(t) \/ Attach(t)
  \/ Tick \/ Restart

Spec == Init /\ [][Next]_vars

-----------------------------------------------------------------------------
\* Thread t serves a redirect that came with token s.
Carries(t, s) == callback[t].pc # "idle" /\ callback[t].state = s

(* A sign-in link is good for one broker session, of the user who asked    *)
(* for it, and for Ttl: also if the redirect arrives twice at once, if     *)
(* another user's link is handled in between, if the account is switched   *)
(* off and on or the server restarts on the way.                           *)
OneSessionPerLink ==
  /\ punctual
  /\ \A s \in State :
       /\ Len(attached[s]) <= 1
       /\ \A i \in DOMAIN attached[s] : attached[s][i] = bound[s]
       /\ \A t \in Thread : Carries(t, s) =>
            /\ attached[s] = <<>> /\ callback[t].user = bound[s]
            /\ \A other \in Thread : Carries(other, s) => other = t
=============================================================================
