---------------------------- MODULE PanelSession ----------------------------
(***************************************************************************)
(* The session of the admin panel in a browser (apps/admin: lib/auth-store, *)
(* lib/api, hooks/use-session, middleware, the routes of api/auth).  Every  *)
(* tab has an access token of its own, in memory and sessionStorage; all    *)
(* tabs share one httpOnly cookie with the refresh token, which the route   *)
(* handlers of the panel's server forward, replace and delete.  A refresh   *)
(* rotates the token: the old one is dead as soon as the backend has        *)
(* answered, the cookie changes when the answer reaches the browser.        *)
(*                                                                         *)
(* Sessions of the backend are modelled as far as refresh needs them: alive *)
(* or not (AdminAuth models the rest); one nobody holds is forgotten and    *)
(* its identifier free again.  A browser that leaves a page drops the       *)
(* answers it waits for; a request under way may still reach the backend.   *)
(* Refreshes begun by a mutation, which do not navigate when they fail, are *)
(* left out.                                                               *)
(***************************************************************************)
EXTENDS Integers, FiniteSets

CONSTANTS
    Tabs,           \* tabs of one browser
    Tokens,         \* refresh tokens: more than can be held at a time
    NoToken,        \* no cookie
    MaxTroubles     \* bound on ended sessions, reloads and logouts

ASSUME PanelSessionAssumption == NoToken \notin Tokens /\ MaxTroubles \in Nat

\* The backend never runs out of tokens: whatever the cookie, a request on its own
\* and the two requests of every tab hold, there is one more.
ASSUME TokensSuffice ==
    \A c, s \in Tokens \cup {NoToken}, f \in [Tabs -> [1..2 -> Tokens \cup {NoToken}]] :
        \E new \in Tokens : new \notin {c, s} /\ \A t \in Tabs, i \in 1..2 : f[t][i] # new

VARIABLES
    cookie,         \* REFRESH_COOKIE
    live,           \* tokens the backend would accept
    screen,         \* screen[t]: what tab t shows
    access,         \* access[t]: its access token; "none" once it has expired
    flight,         \* flight[t][i]: its requests to /api/auth
    stray,          \* token of a request whose tab went elsewhere
    healthy,        \* whether the backend is within reach and answers as it should
    troubles        \* ended sessions, reloads and logouts so far

PanelSessionVars == <<cookie, live, screen, access, flight, stray, healthy, troubles>>

Flight == [kind : {"none", "refresh", "login", "logout"},
           token : Tokens \cup {NoToken},       \* carried; once granted, the new one
           answer : {"none", "granted", "refused", "unwell", "down", "anonymous"},
           raced : BOOLEAN]                      \* a flight of another tab overlapped
NoFlight == [kind |-> "none", token |-> NoToken, answer |-> "none", raced |-> FALSE]
Slots == 1..2

PanelSessionTypeOK ==
    /\ cookie \in Tokens \cup {NoToken} /\ live \subseteq Tokens
    /\ screen \in [Tabs -> {"closed", "login", "panel"}]
    /\ access \in [Tabs -> {"none", "good"}]
    /\ flight \in [Tabs -> [Slots -> Flight]]
    /\ stray \in Tokens \cup {NoToken} /\ troubles \in 0..MaxTroubles
    /\ healthy \in BOOLEAN

PanelSessionInit ==
    /\ cookie = NoToken /\ live = {} /\ stray = NoToken /\ troubles = 0 /\ healthy = TRUE
    /\ screen = [t \in Tabs |-> "closed"] /\ access = [t \in Tabs |-> "none"]
    /\ flight = [t \in Tabs |-> [i \in Slots |-> NoFlight]]

-----------------------------------------------------------------------------
(* Helpers. *)

Held == {cookie, stray} \cup {flight[t][i].token : t \in Tabs, i \in Slots}
NewToken == CHOOSE s \in Tokens \ Held : TRUE
LiveBecomes(set) == live' = set \cap Held'          \* last conjunct of an action

Sent(t, i) == flight[t][i].kind # "none" /\ flight[t][i].answer = "none"
Flying(t, kind) == \E i \in Slots : flight[t][i].kind = kind

\* middleware.ts: the cookie alone decides which side of the login one lands on.
Landing(c) == IF c = NoToken THEN "login" ELSE "panel"

\* A page load with the cookie c: answers are dropped, a request may go on alone.
Leaves(t, c) ==
    /\ screen' = [screen EXCEPT ![t] = Landing(c)]
    /\ flight' = [flight EXCEPT ![t] = [i \in Slots |-> NoFlight]]
    /\ stray' \in {stray} \cup
                  (IF stray # NoToken THEN {}
                   ELSE {flight[t][i].token : i \in {j \in Slots : Sent(t, j)}})

Trouble == troubles < MaxTroubles /\ troubles' = troubles + 1 /\ UNCHANGED healthy
NoTrouble == UNCHANGED <<healthy, troubles>>

-----------------------------------------------------------------------------
(* Tabs. *)

OpenTab(t) ==
    /\ screen[t] = "closed"
    /\ screen' = [screen EXCEPT ![t] = Landing(cookie)]
    /\ UNCHANGED <<cookie, live, access, flight, stray>> /\ NoTrouble

\* A reload keeps the sessionStorage, and with it the access token.
Reload(t) ==
    /\ screen[t] # "closed" /\ Trouble
    /\ Leaves(t, cookie)
    /\ UNCHANGED <<cookie, access>>
    /\ LiveBecomes(live)

AccessLapses(t) ==
    /\ access[t] = "good"
    /\ access' = [access EXCEPT ![t] = "none"]
    /\ UNCHANGED <<cookie, live, screen, flight, stray>> /\ NoTrouble

\* fetch("/api/auth/..."): the browser attaches the cookie of this moment.
Sends(t, kind) ==
    LET i == IF flight[t][1] = NoFlight THEN 1 ELSE 2 IN
        /\ flight[t][i] = NoFlight
        /\ flight' = [u \in Tabs |->
              IF u # t THEN [j \in Slots |-> [flight[u][j] EXCEPT
                                 !.raced = @ \/ flight[u][j].kind # "none"]]
              ELSE [flight[t] EXCEPT ![i] =
                       [kind |-> kind, token |-> IF kind = "login" THEN NoToken ELSE cookie,
                        answer |-> "none",
                        raced |-> \E v \in Tabs \ {t}, j \in Slots : flight[v][j].kind # "none"]]]
        /\ UNCHANGED <<cookie, live, screen, access, stray>>

SingleFlightMutant(t) == TRUE
SingleFlight(t) == ~Flying(t, "refresh")

\* useSession on mount, apiFetch without a token or after a 401: one refresh at a time.
StartRefresh(t) ==
    /\ screen[t] = "panel" /\ access[t] # "good"
    /\ SingleFlight(t)
    /\ Sends(t, "refresh") /\ NoTrouble

StartLogin(t) == screen[t] = "login" /\ ~Flying(t, "login") /\ Sends(t, "login") /\ NoTrouble
StartLogout(t) == screen[t] = "panel" /\ ~Flying(t, "logout") /\ Sends(t, "logout") /\ Trouble

-----------------------------------------------------------------------------
(* The panel's server and the backend. *)

Answers(t, i, answer, token) ==
    /\ flight' = [flight EXCEPT ![t][i] =
           [kind |-> @.kind, token |-> token, answer |-> answer, raced |-> @.raced]]
    /\ UNCHANGED <<cookie, screen, access, stray>>

\* refresh/route.ts and AuthService.refresh, which rotates.
AnswerRefresh(t, i) ==
    LET s == flight[t][i].token IN
    /\ Sent(t, i) /\ flight[t][i].kind = "refresh" /\ NoTrouble
    /\ \/ s = NoToken /\ Answers(t, i, "anonymous", NoToken) /\ LiveBecomes(live)
       \/ /\ s \in live /\ healthy
          /\ Answers(t, i, "granted", NewToken)
          /\ LiveBecomes((live \ {s}) \cup {NewToken})
       \/ /\ s \in Tokens \ live /\ healthy
          /\ Answers(t, i, "refused", NoToken) /\ LiveBecomes(live)
       \* Throttled or failing: an answer that is not ok, and says nothing of the token.
       \/ s # NoToken /\ ~healthy /\ Answers(t, i, "unwell", NoToken) /\ LiveBecomes(live)
       \* Unhealthy, or its answer lost, before or after the rotation.
       \/ /\ s # NoToken /\ ~healthy /\ Answers(t, i, "down", NoToken)
          /\ \E set \in {live, live \ {s}} : LiveBecomes(set)

\* login/route.ts: granted, or refused whatever the reason.
AnswerLogin(t, i) ==
    /\ Sent(t, i) /\ flight[t][i].kind = "login" /\ NoTrouble
    /\ \/ healthy /\ Answers(t, i, "granted", NewToken) /\ LiveBecomes(live \cup {NewToken})
       \/ Answers(t, i, "refused", NoToken) /\ LiveBecomes(live)

\* logout/route.ts deletes the cookie whether or not the backend could be told.
AnswerLogout(t, i) ==
    LET s == flight[t][i].token IN
    /\ Sent(t, i) /\ flight[t][i].kind = "logout"
    /\ \/ Answers(t, i, "granted", NoToken) /\ LiveBecomes(live \ {s}) /\ NoTrouble
       \/ Answers(t, i, "granted", NoToken) /\ LiveBecomes(live) /\ NoTrouble
       \/ Answers(t, i, "down", NoToken) /\ LiveBecomes(live) /\ NoTrouble

\* The backend goes away or falls ill, or recovers.
Outage ==
    /\ healthy' = ~healthy
    /\ UNCHANGED <<cookie, screen, access, flight, stray, troubles>>
    /\ LiveBecomes(live)

Serve(t, i) == AnswerRefresh(t, i) \/ AnswerLogin(t, i) \/ AnswerLogout(t, i)

\* The backend rotates, or revokes, for a tab that no longer listens.
StrayArrives ==
    /\ stray # NoToken
    /\ stray' = NoToken
    /\ UNCHANGED <<cookie, screen, access, flight>> /\ NoTrouble
    /\ LiveBecomes(live \ {stray})

\* Seven days, a deactivation, a change of password.
SessionEnds ==
    /\ cookie \in live /\ Trouble
    /\ live' = live \ {cookie}
    /\ UNCHANGED <<cookie, screen, access, flight, stray>>

-----------------------------------------------------------------------------
(* Answers reach the browser. *)

Landed(t, i) == flight' = [flight EXCEPT ![t][i] = NoFlight] /\ UNCHANGED stray

DeletesCookieMutant(answer) == answer = "unwell"

\* Every answer that is not ok clears the cookie; a failure of the route does not.
DeletesCookie(answer) == answer \in {"refused", "unwell"}

\* doRefresh: a new access token, or clearSession and the way to /login.
RefreshLands(t, i) ==
    LET f == flight[t][i] IN
    /\ f.kind = "refresh" /\ f.answer # "none"
    /\ IF f.answer = "granted"
       THEN /\ cookie' = f.token
            /\ access' = [access EXCEPT ![t] = "good"]
            /\ Landed(t, i) /\ UNCHANGED screen
       ELSE /\ cookie' = IF DeletesCookie(f.answer) THEN NoToken ELSE cookie
            /\ access' = [access EXCEPT ![t] = "none"]
            /\ Leaves(t, cookie')
    /\ NoTrouble
    /\ LiveBecomes(live)

\* onSubmit of the login page.
LoginLands(t, i) ==
    LET f == flight[t][i] IN
    /\ f.kind = "login" /\ f.answer # "none"
    /\ IF f.answer = "granted"
       THEN /\ cookie' = f.token
            /\ access' = [access EXCEPT ![t] = "good"]
            /\ screen' = [screen EXCEPT ![t] = "panel"]
       ELSE UNCHANGED <<cookie, access, screen>>
    /\ Landed(t, i) /\ NoTrouble
    /\ LiveBecomes(live)

\* logout of useSession: clearSession and /login, also when the request failed,
\* in which case the cookie is still there and the middleware leads back.
LogoutLands(t, i) ==
    LET f == flight[t][i] IN
    /\ f.kind = "logout" /\ f.answer # "none"
    /\ cookie' = IF f.answer = "granted" THEN NoToken ELSE cookie
    /\ access' = [access EXCEPT ![t] = "none"]
    /\ Leaves(t, cookie')
    /\ NoTrouble
    /\ LiveBecomes(live)

Lands(t, i) == RefreshLands(t, i) \/ LoginLands(t, i) \/ LogoutLands(t, i)

PanelSessionNext ==
    \/ \E t \in Tabs : OpenTab(t) \/ Reload(t) \/ AccessLapses(t)
                       \/ StartRefresh(t) \/ StartLogin(t) \/ StartLogout(t)
    \/ \E t \in Tabs, i \in Slots : Serve(t, i) \/ Lands(t, i)
    \/ StrayArrives \/ SessionEnds \/ Outage

-----------------------------------------------------------------------------
(* Properties. *)

\* A cookie whose session is alive is lost to a logout, to a backend that is not
\* well, or to a refresh that raced with another tab; never to the requests of
\* one tab alone, however they and its reloads interleave.
LosesLiveCookie == cookie \in live /\ cookie' = NoToken
LiveCookieKept ==
    [][LosesLiveCookie =>
          \E t \in Tabs, i \in Slots :
              /\ flight[t][i].answer # "none" /\ flight'[t][i] = NoFlight
              /\ \/ flight[t][i].kind = "logout"
                 \/ flight[t][i].answer = "unwell"
                 \/ flight[t][i].raced]_PanelSessionVars

\* When the backend stays within reach and healthy from some point on, a tab of the panel
\* without a usable token gets one or ends at the login page: refused refreshes, lapses,
\* reloads and the requests of another tab do not leave it going round.  While the backend
\* is out of reach it does go round, between /login, the middleware and /dashboard, once
\* per attempt: the failure of the route leaves the cookie, and useSession leaves for /login.
RefreshSettles ==
    <>[]healthy =>
        \A t \in Tabs : (screen[t] = "panel" /\ access[t] # "good")
                            ~> (access[t] = "good" \/ screen[t] = "login")
=============================================================================
