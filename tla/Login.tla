------------------------------- MODULE Login -------------------------------
(***************************************************************************)
(* Signing in and out of the judges' pages: the routes of                  *)
(* server/src/routes/auth.ts, the session cookie of                        *)
(* server/src/auth/session.ts, which every judge and admin route resolves  *)
(* and renews, the OpenID Connect client of server/src/auth/oidc.ts, and   *)
(* the pages' requests (spa/src/api/client.ts).                            *)
(*                                                                         *)
(* The windows of a browser share its cookies.  A request carries them as  *)
(* they are when it is sent, the server answers from what was carried, and *)
(* the cookies it sets count from when the answer arrives.  A window has   *)
(* one request under way: several at once are those of several windows.    *)
(* The development bypass is left out; the server is configured, or its    *)
(* login route says that it is not.                                        *)
(***************************************************************************)
EXTENDS LoginState

CONSTANTS MaxLogins,     \* bound: logins begun
          MaxClock       \* bound: instants

VARIABLE logins          \* login intents made; the last one's state

vars == <<clock, session, intent, window, exchange, logins, who, mixed, lastUse, alone>>

Routes == {"me", "judge", "logout", "login", "callback"}
Idle == [stage |-> "idle"]
Request == [stage : {"sent", "redeeming"}, route : Routes, since : Nat,
            session : Session \cup {NoCookie}, intent : Intent \cup {NoCookie},
            account : Accounts \cup {Nobody}]
Answer == [stage : {"answered"}, route : Routes, since : Nat,
           session : Session \cup {NoCookie}, intent : Intent \cup {NoCookie},
           account : Accounts \cup {Nobody},
           status : {"ok", "unauthorised", "refused"}, handled : Nat,
           setSession : Session \cup {NoCookie, Keep}, setIntent : Intent \cup {NoCookie, Keep}]
Window == [place : {"page", "provider", "refused"}, state : Nat, exp : Nat]
AtPage == [place |-> "page", state |-> 0, exp |-> 0]
Refused == [place |-> "refused", state |-> 0, exp |-> 0]

TypeOK ==
  /\ clock \in Nat /\ logins \in Nat /\ lastUse \in Nat
  /\ session \in Session \cup {NoCookie} /\ intent \in Intent \cup {NoCookie}
  /\ window \in [Windows -> Window]
  /\ exchange \in [Windows -> {Idle} \cup Request \cup Answer]
  /\ who \in Accounts \cup {Nobody} /\ mixed \in BOOLEAN /\ alone \subseteq Windows

Init ==
  /\ clock = 0 /\ session = NoCookie /\ intent = NoCookie
  /\ window = [w \in Windows |-> AtPage]
  /\ exchange = [w \in Windows |-> Idle]
  /\ logins = 0
  /\ who = Nobody /\ mixed = FALSE /\ lastUse = 0 /\ alone = {}
----------------------------------------------------------------------------
\* The windows' requests.
RequestOf(route, account) ==
  [stage |-> "sent", route |-> route, since |-> clock,
   session |-> session, intent |-> intent, account |-> account]

\* A page asks who is signed in, or for data.
PageAsks(w) ==
  /\ exchange[w] = Idle /\ window[w].place = "page"
  /\ \E route \in {"me", "judge"} :
       exchange' = [exchange EXCEPT ![w] = RequestOf(route, Nobody)]
  /\ UNCHANGED <<clock, session, intent, window, logins, who, mixed, lastUse, alone>>

SignOut(w) ==
  /\ exchange[w] = Idle /\ window[w].place = "page"
  /\ exchange' = [exchange EXCEPT ![w] = RequestOf("logout", Nobody)]
  /\ UNCHANGED <<clock, session, intent, window, logins, who, mixed, lastUse, alone>>

\* The provider sends the browser back, with a code for the account that
\* authenticated there or with an error.
ProviderReturns(w) ==
  /\ exchange[w] = Idle /\ window[w].place = "provider"
  /\ \E a \in Accounts \cup {Nobody} :
       exchange' = [exchange EXCEPT ![w] = RequestOf("callback", a)]
  /\ UNCHANGED <<clock, session, intent, window, logins, who, mixed, lastUse, alone>>

\* The judge leaves the provider or an error and loads the page again.
Reload(w) ==
  /\ exchange[w] = Idle /\ window[w].place # "page"
  /\ window' = [window EXCEPT ![w] = AtPage]
  /\ UNCHANGED <<clock, session, intent, exchange, logins, who, mixed, lastUse, alone>>
----------------------------------------------------------------------------
\* The server.
Answered(e, status, setSession, setIntent) ==
  [stage |-> "answered", route |-> e.route, since |-> e.since, session |-> e.session,
   intent |-> e.intent, account |-> e.account, status |-> status, handled |-> clock,
   setSession |-> setSession, setIntent |-> setIntent]

NewSession(account) == [user |-> account, iat |-> clock, exp |-> clock + SessionTtl]

IsLive(cookie) == cookie # NoCookie /\ cookie.exp >= clock

\* Seeded fault: only the time of issue moves.
RenewedInName(s) ==
  IF clock - s.iat < RenewAfter THEN Keep ELSE [s EXCEPT !.iat = clock]

\* maybeRenewSession, and the cookie that is set if it renews.
Renewed(s) ==
  IF clock - s.iat < RenewAfter THEN Keep
  ELSE [s EXCEPT !.iat = clock, !.exp = clock + SessionTtl]

\* 401: the page is to send the browser to the login.
NoSession(e) == Answered(e, "unauthorised", Keep, Keep)

\* The session that was carried, and the cookie that is set if there is a reply to
\* renew it on.
IdentityFromRequest(e, renewed) ==
  IF IsLive(e.session) THEN Answered(e, "ok", renewed, Keep) ELSE NoSession(e)

\* api/auth/me asks who is signed in and renews nothing.
ServeMe(w) ==
  LET e == exchange[w]
  IN /\ e.stage = "sent" /\ e.route = "me"
     /\ exchange' = [exchange EXCEPT ![w] = IdentityFromRequest(e, Keep)]
     /\ UNCHANGED <<clock, session, intent, window, logins, who, mixed, lastUse, alone>>

\* Every judge and admin route.
ServeJudge(w) ==
  LET e == exchange[w]
  IN /\ e.stage = "sent" /\ e.route = "judge"
     /\ exchange' = [exchange EXCEPT ![w] = IdentityFromRequest(e, Renewed(e.session))]
     /\ UNCHANGED <<clock, session, intent, window, logins, who, mixed, lastUse, alone>>

\* Seeded fault: the cookie stays.
ServeLogoutOnly(w) ==
  LET e == exchange[w]
  IN /\ e.stage = "sent" /\ e.route = "logout"
     /\ exchange' = [exchange EXCEPT ![w] = Answered(e, "ok", Keep, Keep)]
     /\ UNCHANGED <<clock, session, intent, window, logins, who, mixed, lastUse, alone>>

ServeLogout(w) ==
  LET e == exchange[w]
  IN /\ e.stage = "sent" /\ e.route = "logout"
     /\ exchange' = [exchange EXCEPT ![w] = Answered(e, "ok", NoCookie, Keep)]
     /\ UNCHANGED <<clock, session, intent, window, logins, who, mixed, lastUse, alone>>

NewLoginIntent(w) == [state |-> logins + 1, returnTo |-> w, exp |-> clock + IntentTtl]

\* The server or the provider is not configured, or cannot be reached.
LoginUnavailable(w) ==
  LET e == exchange[w]
  IN /\ e.stage = "sent" /\ e.route = "login"
     /\ exchange' = [exchange EXCEPT ![w] = Answered(e, "refused", Keep, Keep)]
     /\ UNCHANGED <<clock, session, intent, window, logins, who, mixed, lastUse, alone>>

\* Seeded fault: a login under way in another window lends its cookie.
ServeLoginShared(w) ==
  LET e == exchange[w]
  IN /\ e.stage = "sent" /\ e.route = "login" /\ logins < MaxLogins
     /\ logins' = logins + 1
     /\ exchange' = [exchange EXCEPT ![w] =
          Answered(e, "ok", Keep, IF IsLive(e.intent) THEN e.intent ELSE NewLoginIntent(w))]
     /\ UNCHANGED <<clock, session, intent, window, who, mixed, lastUse, alone>>

\* A redirect to the provider that carries the state of the new intent.
ServeLogin(w) ==
  LET e == exchange[w]
  IN /\ e.stage = "sent" /\ e.route = "login" /\ logins < MaxLogins
     /\ logins' = logins + 1
     /\ exchange' = [exchange EXCEPT ![w] = Answered(e, "ok", Keep, NewLoginIntent(w))]
     /\ UNCHANGED <<clock, session, intent, window, who, mixed, lastUse, alone>>

\* The callback reads the intent that was carried, then redeems the code.
CallbackBegins(w) ==
  LET e == exchange[w]
  IN /\ e.stage = "sent" /\ e.route = "callback"
     /\ exchange' = [exchange EXCEPT ![w] =
          IF IsLive(e.intent) THEN [e EXCEPT !.stage = "redeeming"]
          ELSE Answered(e, "refused", Keep, Keep)]
     /\ UNCHANGED <<clock, session, intent, window, logins, who, mixed, lastUse, alone>>

\* completeLogin refuses a state that is not the intent's.
CallbackEnds(w) ==
  LET e == exchange[w]
  IN /\ e.stage = "redeeming"
     /\ exchange' = [exchange EXCEPT ![w] =
          IF e.intent.state = window[w].state /\ e.account # Nobody
          THEN Answered(e, "ok", NewSession(e.account), NoCookie)
          ELSE Answered(e, "refused", Keep, NoCookie)]
     /\ UNCHANGED <<clock, session, intent, window, logins, who, mixed, lastUse, alone>>
----------------------------------------------------------------------------
\* The browser: what an answer does to the cookies, and to the window.
OrKept(set, cookie) == IF set = Keep THEN cookie ELSE set

\* A session other than u's that request e still may bring.
MayBringAnother(e, u) ==
  \/ e.stage = "sent" /\ e.route = "judge" /\ e.session # NoCookie /\ e.session.user # u
  \/ /\ e.stage = "answered" /\ e.route = "judge" /\ e.setSession # Keep
     /\ e.setSession.user # u

SetCookies(w, u) ==
  LET e == exchange[w]
  IN /\ session' = OrKept(e.setSession, session)
     /\ intent' = OrKept(e.setIntent, intent)
     /\ who' = u
     /\ mixed' = IF u = who THEN mixed
                 ELSE \E v \in Windows \ {w} : MayBringAnother(exchange[v], u)
     /\ alone' = IF e.setIntent = Keep THEN alone
                 ELSE {v \in alone \ {w} : exchange[v] # Idle /\ exchange[v].route = "callback"}
                      \cup IF e.route = "login" THEN {w} ELSE {}

\* The page has its data, or takes the browser to the login (redirectToLogin).
AskArrives(w) ==
  LET e == exchange[w]
  IN /\ e.stage = "answered" /\ e.route \in {"me", "judge"}
     /\ SetCookies(w, who)
     /\ lastUse' = IF e.route = "judge" /\ e.status = "ok" /\ e.handled > lastUse
                   THEN e.handled ELSE lastUse
     /\ exchange' = [exchange EXCEPT ![w] =
          IF e.status = "ok" THEN Idle ELSE RequestOf("login", Nobody)]
     /\ UNCHANGED <<clock, window, logins>>

LogoutArrives(w) ==
  LET e == exchange[w]
  IN /\ e.stage = "answered" /\ e.route = "logout"
     /\ SetCookies(w, Nobody)
     /\ exchange' = [exchange EXCEPT ![w] = Idle]
     /\ UNCHANGED <<clock, window, logins, lastUse>>

LoginArrives(w) ==
  LET e == exchange[w]
  IN /\ e.stage = "answered" /\ e.route = "login"
     /\ SetCookies(w, who)
     /\ exchange' = [exchange EXCEPT ![w] = Idle]
     /\ window' = [window EXCEPT ![w] =
          IF e.status = "ok"
          THEN [place |-> "provider", state |-> e.setIntent.state, exp |-> e.setIntent.exp]
          ELSE Refused]
     /\ UNCHANGED <<clock, logins, lastUse>>

CallbackArrives(w) ==
  LET e == exchange[w]
  IN /\ e.stage = "answered" /\ e.route = "callback"
     /\ SetCookies(w, IF e.status = "ok" THEN e.account ELSE who)
     /\ lastUse' = IF e.status = "ok" /\ e.handled > lastUse THEN e.handled ELSE lastUse
     /\ exchange' = [exchange EXCEPT ![w] = Idle]
     /\ window' = [window EXCEPT ![w] = IF e.status = "ok" THEN AtPage ELSE Refused]
     /\ UNCHANGED <<clock, logins>>

\* The network loses a request or its answer: a page goes on without, anything
\* else shows the browser's error.
Lost(w) ==
  /\ exchange[w] # Idle
  /\ exchange' = [exchange EXCEPT ![w] = Idle]
  /\ window' = [window EXCEPT ![w] =
       IF exchange[w].route \in {"login", "callback"} THEN Refused ELSE window[w]]
  /\ UNCHANGED <<clock, session, intent, logins, who, mixed, lastUse, alone>>

Tick ==
  /\ clock < MaxClock
  /\ \A w \in Windows : exchange[w] # Idle => clock < exchange[w].since + MaxDelay
  /\ clock' = clock + 1
  /\ UNCHANGED <<session, intent, window, exchange, logins, who, mixed, lastUse, alone>>

Serve(w) ==
  \/ ServeMe(w) \/ ServeJudge(w) \/ ServeLogout(w) \/ LoginUnavailable(w) \/ ServeLogin(w)
  \/ CallbackBegins(w) \/ CallbackEnds(w)

Browse(w) ==
  \/ PageAsks(w) \/ SignOut(w) \/ ProviderReturns(w) \/ Reload(w) \/ Lost(w)
  \/ AskArrives(w) \/ LogoutArrives(w) \/ LoginArrives(w) \/ CallbackArrives(w)

Next == Tick \/ \E w \in Windows : Serve(w) \/ Browse(w)

Spec == Init /\ [][Next]_vars
============================================================================
