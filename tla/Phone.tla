------------------------------- MODULE Phone -------------------------------
(***************************************************************************)
(* A phone from its start to a channel on the screen (apps/mobile:          *)
(* app/index, lib/activation, the area of the tabs, app/channel/[id]) and   *)
(* the session it holds.  A stream, once its address is known, comes from   *)
(* elsewhere: what ends it is the app, which asks for the status of the     *)
(* account when the channel opens and every 20 s.                           *)
(*                                                                         *)
(* Licensing has the tables; here they are the verdict on the session.  A   *)
(* screen that is left drops the answers it waits for.                      *)
(***************************************************************************)
EXTENDS Integers, FiniteSets

CONSTANTS
    StatusSlots,         \* status checks one screen may be waiting for
    NoStatus,       \* accountStatus is null
    MaxTurns        \* bound on changes of the account, lost answers, failing players, taps

ASSUME PhoneAssumption == MaxTurns \in Nat

VARIABLES
    account,        \* what getAccountStatus would say of the customer and device
    alive,          \* the session is ACTIVE and not over
    token,          \* a session token is stored on the phone
    view,           \* the screen
    status,         \* accountStatus of the channel screen
    statusChecks,        \* its status checks
    broken,         \* the player shows its error
    turns

PhoneVars == <<account, alive, token, view, status, statusChecks, broken, turns>>

Accounts == {"ACTIVE", "SUSPENDED", "EXPIRED", "DEVICE_REVOKED"}
StatusCheck == {"none", "asked", "lost"} \cup Accounts      \* asked; what it was answered

PhoneTypeOK ==
    /\ account \in Accounts /\ alive \in BOOLEAN /\ token \in BOOLEAN
    /\ view \in {"checking", "form", "activating", "tabs", "loading", "missing", "channel"}
    /\ status \in Accounts \cup {NoStatus}
    /\ statusChecks \in [StatusSlots -> StatusCheck] /\ broken \in BOOLEAN /\ turns \in 0..MaxTurns

PhoneInit ==
    /\ account \in Accounts /\ alive = FALSE /\ token = FALSE /\ view = "checking"
    /\ status = NoStatus /\ statusChecks = [i \in StatusSlots |-> "none"] /\ broken = FALSE /\ turns = 0

Turn == turns < MaxTurns /\ turns' = turns + 1
NoTurn == UNCHANGED turns
Account == <<account, alive>>

\* A screen other than a channel's.
Shows(v) ==
    /\ view' = v /\ status' = NoStatus /\ broken' = FALSE
    /\ statusChecks' = [i \in StatusSlots |-> "none"]

\* SessionVerdict of Activation: the guard of every request but the status.
LetIn == token /\ alive /\ account = "ACTIVE"

-----------------------------------------------------------------------------
(* Start, activation, logout. *)

\* validateSession: anything but a yes, a lost answer included, shows the form.
SessionChecked ==
    /\ view = "checking"
    /\ \/ LetIn /\ Shows("tabs") /\ NoTurn
       \/ ~LetIn /\ Shows("form") /\ NoTurn
       \/ token /\ Turn /\ Shows("form")
    /\ UNCHANGED <<Account, token>>

\* onSubmit, with a code of at least eight characters.
SubmitCode == view = "form" /\ Shows("activating") /\ NoTurn /\ UNCHANGED <<Account, token>>

\* Activated and stored; refused; or activated, and the answer lost.
CodeAnswered ==
    /\ view = "activating" /\ UNCHANGED account
    /\ \/ account = "ACTIVE" /\ alive' = TRUE /\ token' = TRUE /\ Shows("tabs") /\ NoTurn
       \/ UNCHANGED <<alive, token>> /\ Shows("form") /\ NoTurn
       \/ account = "ACTIVE" /\ Turn /\ UNCHANGED <<alive, token>> /\ Shows("form")

\* The token goes whether or not the backend could be told.
LogoutPhone ==
    /\ view = "tabs"
    /\ \/ alive' = FALSE /\ NoTurn
       \/ Turn /\ UNCHANGED alive
    /\ token' = FALSE /\ Shows("checking") /\ UNCHANGED account

RestartApp == Turn /\ Shows("checking") /\ UNCHANGED <<Account, token>>

-----------------------------------------------------------------------------
(* A channel. *)

AskStatus(i) == statusChecks[i] = "none" /\ statusChecks' = [statusChecks EXCEPT ![i] = "asked"]
OnChannel == view \in {"loading", "missing", "channel"}

\* The screen is mounted: the channel and the status are asked for at once.
OpenChannel ==
    /\ view = "tabs" \/ view = "channel"           \* or a related channel, in its place
    /\ view' = "loading" /\ status' = NoStatus /\ broken' = FALSE
    /\ \E i \in StatusSlots : statusChecks' = [[j \in StatusSlots |-> "none"] EXCEPT ![i] = "asked"]
    /\ UNCHANGED <<Account, token>> /\ NoTurn

ChannelLoads ==
    /\ view = "loading"
    /\ \/ LetIn /\ view' = "channel" /\ NoTurn
       \/ ~LetIn /\ view' = "missing" /\ NoTurn
       \/ Turn /\ view' = "missing"
    /\ UNCHANGED <<Account, token, status, statusChecks, broken>>

PollAgainMutant == FALSE
\* setInterval(check, POLL_MS), while the screen is mounted.
PollAgain == OnChannel

Poll ==
    /\ PollAgain /\ \E i \in StatusSlots : AskStatus(i)
    /\ UNCHANGED <<Account, token, view, status, broken, turns>>

\* getAccountStatus: 401 for a session that is over; answers come in any order.
StatusAnswered(i) ==
    /\ statusChecks[i] = "asked"
    /\ \/ /\ statusChecks' = [statusChecks EXCEPT ![i] = IF token /\ alive THEN account ELSE "lost"]
          /\ NoTurn
       \/ Turn /\ statusChecks' = [statusChecks EXCEPT ![i] = "lost"]
    /\ UNCHANGED <<Account, token, view, status, broken>>

\* A 401, like any failure, does not interrupt what is playing.
StatusLands(i) ==
    /\ statusChecks[i] \notin {"none", "asked"}
    /\ status' = IF statusChecks[i] = "lost" THEN status ELSE statusChecks[i]
    /\ statusChecks' = [statusChecks EXCEPT ![i] = "none"]
    /\ broken' = (broken /\ status' \in {NoStatus, "ACTIVE"})
    /\ UNCHANGED <<Account, token, view, turns>>

Blocked == status # NoStatus /\ status # "ACTIVE"
\* What the channel screen renders: the overlay of a blocked account unmounts the
\* player, which with the next good answer starts anew.
Playing == view = "channel" /\ ~Blocked /\ ~broken

PlayerFails == Playing /\ Turn /\ broken' = TRUE
               /\ UNCHANGED <<Account, token, view, status, statusChecks>>
RetryPlayer == view = "channel" /\ ~Blocked /\ broken /\ broken' = FALSE
               /\ UNCHANGED <<Account, token, view, status, statusChecks, turns>>

GoBack == OnChannel /\ Shows("tabs") /\ NoTurn /\ UNCHANGED <<Account, token>>

-----------------------------------------------------------------------------
(* Administrators, time. *)

AccountChanges(a) ==
    /\ Turn /\ a # account /\ account' = a
    /\ UNCHANGED <<alive, token, view, status, statusChecks, broken>>

SessionOver ==
    /\ alive /\ Turn /\ alive' = FALSE
    /\ UNCHANGED <<account, token, view, status, statusChecks, broken>>

PhoneNext ==
    \/ SessionChecked \/ SubmitCode \/ CodeAnswered \/ LogoutPhone \/ RestartApp
    \/ OpenChannel \/ ChannelLoads \/ Poll \/ PlayerFails \/ RetryPlayer \/ GoBack
    \/ \E i \in StatusSlots : StatusAnswered(i) \/ StatusLands(i)
    \/ \E a \in Accounts : AccountChanges(a)
    \/ SessionOver

-----------------------------------------------------------------------------
(* Property. *)

\* "If the administrator suspends while the customer watches, it is cut": however
\* checks overlap, are lost or answered late, a channel does not go on playing for
\* an account that stays suspended, expired or revoked, as long as the session lives
\* (when it does not, the 401 is ignored).
ShutOut == alive /\ token /\ account # "ACTIVE"
ChannelIsCut == (Playing /\ ShutOut) ~> (~Playing \/ ~ShutOut)
=============================================================================
