-------------------------------- MODULE SignIn --------------------------------
(* Browser sign-in and what a session may do (api/identity.py, api/session.py,       *)
(* api/auth.py, adapters/identity/oidc.py): one browser with several tabs that share  *)
(* its two cookies, the stateless API that signs them, the identity provider, and the *)
(* authorization of a request. The signature of a cookie is not modelled: a cookie is *)
(* one the API issued.                                                                *)
EXTENDS Integers, FiniteSets

CONSTANTS
  Tabs, Users,
  Personal, Shared,                      \* roles in the project: of each user, of the group
  Rules,                                 \* what requests need, see Verdict
  Chief,                                 \* the user who is a platform admin at first
  LoginTtl, Configured, SessionCap, AdminCap,    \* lifetimes: the pending sign-in, sessions
  CallLimit,                             \* the identity provider answers within it
  MaxTime, MaxStarts, MaxChanges         \* bounds

None  == "none"
Ranks == [none |-> 0, invoker |-> 1, viewer |-> 2, operator |-> 3, admin |-> 4]

VARIABLES
  time,
  account,         \* who is signed in at the identity provider in this browser
  chief, group,    \* the users who are platform admins, and in the group, over there
  left,            \* per user and claim, how long it has not been true (history)
  login, session,  \* the two cookies of the browser
  tab,             \* what each tab does
  used,            \* codes redeemed
  starts, changes

cookies == <<login, session>>
people  == <<account, chief, group, changes>>
vars    == <<time, people, left, cookies, tab, used, starts>>

Nobody == [user |-> None, exp |-> 0]
Idle   == [pc |-> "idle"]
Claims == {"chief", "group"}

Init ==
  /\ time = 0 /\ account \in Users
  /\ chief = {Chief} /\ group = Users
  /\ left = [u \in Users |-> [c \in Claims |-> IF c = "chief" /\ u # Chief THEN MaxTime ELSE 0]]
  /\ login = [id |-> 0, exp |-> 0] /\ session = Nobody
  /\ tab = [t \in Tabs |-> Idle]
  /\ used = {} /\ starts = 0 /\ changes = 0

(* A cookie is worth something until it expires.                                      *)
Loads_Forever(cookie) == TRUE
Loads(cookie) == cookie.exp >= time

Go(t, x) == tab' = [tab EXCEPT ![t] = x]

(* GET /auth/login: state, nonce and verifier are new; the answer carries them in a   *)
(* cookie and sends the tab to the identity provider.                                 *)
Start(t) ==
  /\ tab[t].pc = "idle" /\ starts < MaxStarts
  /\ starts' = starts + 1
  /\ login' = [id |-> starts', exp |-> time + LoginTtl]
  /\ Go(t, [pc |-> "away", id |-> starts'])
  /\ UNCHANGED <<time, people, left, session, used>>

(* The identity provider issues a code for this sign-in, and the tab comes back with  *)
(* the cookies the browser has by now; another tab may have replaced them.            *)
ComeBack(t) ==
  /\ tab[t].pc = "away"
  /\ Go(t, [pc |-> "back", id |-> tab[t].id, by |-> account, login |-> login])
  /\ UNCHANGED <<time, people, left, cookies, used, starts>>

(* GET /auth/callback: the sign-in must be the pending one. The provider redeems the  *)
(* code once, for the verifier of the sign-in it was issued to, and tells who it is   *)
(* with the claims of now; or it refuses or does not answer.                          *)
Pending(t) == tab[t].login.id = tab[t].id /\ Loads(tab[t].login)

Redeems(t) == tab[t].id \notin used /\ tab[t].login.id = tab[t].id

Callback(t) ==
  /\ tab[t].pc = "back"
  /\ UNCHANGED <<time, people, left, cookies, starts>>
  /\ \/ ~Pending(t) /\ Go(t, [pc |-> "failed", id |-> tab[t].id, by |-> tab[t].by]) /\ UNCHANGED used
     \/ /\ Pending(t)
        /\ \/ /\ Redeems(t) /\ used' = used \cup {tab[t].id}
              /\ Go(t, [pc |-> "redeemed", id |-> tab[t].id, by |-> tab[t].by, since |-> time,
                        chief |-> tab[t].by \in chief, group |-> tab[t].by \in group])
           \/ /\ used' \in {used, used \cup {tab[t].id}}
              /\ Go(t, [pc |-> "failed", id |-> tab[t].id, by |-> tab[t].by])

(* The lifetime of a session: platform admins get a shorter one.                      *)
Least(S) == CHOOSE n \in S : \A m \in S : n <= m
Ttl_Same(admin) == Least({Configured, SessionCap})
Ttl(admin) == Least({Configured, IF admin THEN AdminCap ELSE SessionCap})

(* The answer of the provider is in; the session is issued.                           *)
Issue(t) ==
  /\ tab[t].pc = "redeemed"
  /\ Go(t, [pc |-> "answered", id |-> tab[t].id, by |-> tab[t].by,
            session |-> [user |-> tab[t].by, exp |-> time + Ttl(tab[t].chief),
                         chief |-> tab[t].chief, group |-> tab[t].group]])
  /\ UNCHANGED <<time, people, left, cookies, used, starts>>

(* The answer arrives and sets both cookies, or is lost and the tab shows an error.   *)
Arrive(t) ==
  /\ tab[t].pc = "answered"
  /\ \/ /\ session' = tab[t].session /\ login' = [id |-> 0, exp |-> 0]
        /\ Go(t, Idle)
     \/ Go(t, [pc |-> "failed", id |-> tab[t].id, by |-> tab[t].by]) /\ UNCHANGED cookies
  /\ UNCHANGED <<time, people, left, used, starts>>

(* The user reloads the page of the callback, or closes it.                           *)
Reload(t) ==
  /\ tab[t].pc = "failed"
  /\ \/ Go(t, Idle)
     \/ Go(t, [pc |-> "back", id |-> tab[t].id, by |-> tab[t].by, login |-> login])
  /\ UNCHANGED <<time, people, left, cookies, used, starts>>

(* POST /auth/logout forgets the cookie; nothing is kept on the server.               *)
Logout(t) ==
  /\ tab[t].pc = "idle" /\ session # Nobody
  /\ session' = Nobody
  /\ UNCHANGED <<time, people, left, login, tab, used, starts>>

(* A request leaves with the session of that moment.                                  *)
Ask(t) ==
  /\ tab[t].pc = "idle" /\ session # Nobody
  /\ \A u \in Tabs : tab[u].pc \notin {"asking", "told"}
  /\ \E rule \in Rules : Go(t, [pc |-> "asking", rule |-> rule, session |-> session])
  /\ UNCHANGED <<time, people, left, cookies, used, starts>>

(* The highest of the roles of the user and of the group in the session.              *)
Best(a, b) == IF Ranks[a] >= Ranks[b] THEN a ELSE b
RoleIn(s) == Best(Personal[s.user], IF s.group THEN Shared ELSE None)

Includes(role, needed) == Ranks[role] >= Ranks[needed]

(* What a request needs (a role, or more, or less) is looked up by its route.          *)
Verdict(s, rule) ==
  CASE ~Loads(s)                           -> "denied"
    [] Loads(s) /\ rule = "signed-in"      -> "signed-in"
    [] Loads(s) /\ rule # "signed-in" /\ s.chief -> "chief"
    [] Loads(s) /\ ~s.chief /\ rule = "platform-admin" -> "denied"
    [] OTHER -> IF ~Includes(RoleIn(s), rule) THEN "denied"
                ELSE IF Ranks[Personal[s.user]] >= Ranks[rule] THEN "personal" ELSE "group"

(* The API authenticates and authorizes the request.                                  *)
Decide(t) ==
  /\ tab[t].pc = "asking"
  /\ LET s  == tab[t].session
         by == Verdict(s, tab[t].rule)
     IN Go(t, [pc |-> "told", rule |-> tab[t].rule, by |-> by,
               stale |-> IF by \in Claims THEN left[s.user][by] ELSE 0])
  /\ UNCHANGED <<time, people, left, cookies, used, starts>>

Read(t) ==
  /\ tab[t].pc = "told" /\ Go(t, Idle)
  /\ UNCHANGED <<time, people, left, cookies, used, starts>>

(* The provider's administrators, and the user who switches accounts over there. What *)
(* the project grants is changed in Members.                                          *)
Change ==
  /\ changes < MaxChanges /\ changes' = changes + 1
  /\ \/ chief # {} /\ chief' = {} /\ UNCHANGED <<account, group>>
     \/ \E u \in group : group' = group \ {u} /\ UNCHANGED <<account, chief>>
     \/ account' \in Users \ {account} /\ UNCHANGED <<chief, group>>
  /\ UNCHANGED <<time, left, cookies, tab, used, starts>>

Holds(u, c) == IF c = "chief" THEN u \in chief ELSE u \in group

Tick ==
  /\ time < MaxTime /\ time' = time + 1
  /\ \A t \in Tabs : tab[t].pc = "redeemed" => time - tab[t].since < CallLimit
  /\ left' = [u \in Users |-> [c \in Claims |-> IF Holds(u, c) THEN 0 ELSE left[u][c] + 1]]
  /\ UNCHANGED <<people, cookies, tab, used, starts>>

Move(t) ==
  \/ Start(t) \/ ComeBack(t) \/ Callback(t) \/ Issue(t)
  \/ Arrive(t) \/ Reload(t) \/ Logout(t) \/ Ask(t) \/ Decide(t) \/ Read(t)
Next == (\E t \in Tabs : Move(t)) \/ Change \/ Tick

Spec == Init /\ [][Next]_vars

(* SAFETY. A request passes as one of a platform admin only if the user was one       *)
(* within the shorter lifetime (and the time of one call), and by the role of a group *)
(* only if the user was in it within the longer one (docs/identity.md:61): signing in *)
(* in several tabs, answers lost or late and pages loaded again make it no longer.    *)
SessionsAreShort ==
  \A t \in Tabs : tab[t].pc = "told" =>
    /\ tab[t].by = "chief" => tab[t].stale <= Least({AdminCap, Configured}) + CallLimit
    /\ tab[t].by = "group" => tab[t].stale <= Least({SessionCap, Configured}) + CallLimit
    /\ tab[t].rule = "platform-admin" => tab[t].by \in {"chief", "denied"}

=============================================================================
