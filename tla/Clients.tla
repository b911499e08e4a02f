------------------------------ MODULE Clients ------------------------------
(***************************************************************************)
(* The admin panel and the app, checked in one run: a behaviour exercises   *)
(* one part, the one it drew at the start, so that the state spaces of the  *)
(* parts add up instead of multiplying (as Services).                       *)
(***************************************************************************)
EXTENDS PanelSession, PanelPages, MobileLists, Favourites, Movies, Phone

VARIABLE part

vars == <<part, PanelSessionVars, PanelPagesVars, MobileListsVars, FavouritesVars,
          MoviesVars, PhoneVars>>

\* A part that is not exercised starts, and stays, in one of its initial states.
Init ==
    /\ part \in {"session", "pages", "lists", "stars", "search", "watch", "phone"}
    /\ PanelSessionInit /\ PanelPagesInit /\ MobileListsInit /\ FavouritesInit
    /\ MoviesInit /\ PhoneInit
    /\ role = "SUPER_ADMIN"                        \* RoleChanges has the others
    /\ part # "pages" => page = "planes" /\ table = CHOOSE f \in Fill("planes") : TRUE
    /\ part # "lists" => cached = {} /\ wanted = CHOOSE f \in Filters : TRUE
    /\ part # "stars" => stored = {} /\ reads[CHOOSE i \in StarSlots : TRUE].step = "asked"
    /\ part # "phone" => account = "ACTIVE"

NotSession == UNCHANGED <<part, PanelPagesVars, MobileListsVars, FavouritesVars, MoviesVars, PhoneVars>>
NotPages == UNCHANGED <<part, PanelSessionVars, MobileListsVars, FavouritesVars, MoviesVars, PhoneVars>>
NotLists == UNCHANGED <<part, PanelSessionVars, PanelPagesVars, FavouritesVars, MoviesVars, PhoneVars>>
NotStars == UNCHANGED <<part, PanelSessionVars, PanelPagesVars, MobileListsVars, MoviesVars, PhoneVars>>
NotMovies == UNCHANGED <<part, PanelSessionVars, PanelPagesVars, MobileListsVars, FavouritesVars, PhoneVars>>
NotPhone == UNCHANGED <<part, PanelSessionVars, PanelPagesVars, MobileListsVars, FavouritesVars, MoviesVars>>

Next ==
    \/ part = "session" /\ PanelSessionNext /\ NotSession
    \/ part = "pages" /\ PanelPagesNext /\ NotPages
    \/ part = "lists" /\ MobileListsNext /\ NotLists
    \/ part = "stars" /\ FavouritesNext /\ NotStars
    \/ part = "search" /\ SearchNext /\ NotMovies
    \/ part = "watch" /\ WatchNext /\ NotMovies
    \/ part = "phone" /\ PhoneNext /\ NotPhone

(* A tab without a token asks for one, and what it asked is answered, or fails, *)
(* and is handled; a channel on the screen polls, and its polls are answered.  *)
(* Nothing is assumed of users, administrators, time or outages; RefreshSettles *)
(* says itself that outages end.                                               *)
Fairness ==
    /\ \A t \in Tabs :
          /\ WF_PanelSessionVars(part = "session" /\ StartRefresh(t))
          /\ WF_PanelSessionVars(part = "session" /\ \E i \in Slots : Serve(t, i) \/ Lands(t, i))
    /\ WF_PhoneVars(part = "phone" /\ Poll)
    /\ \A i \in StatusSlots :
          /\ WF_PhoneVars(part = "phone" /\ StatusAnswered(i))
          /\ WF_PhoneVars(part = "phone" /\ StatusLands(i))

Spec == Init /\ [][Next]_vars /\ Fairness

-----------------------------------------------------------------------------
(* Properties that join those of the parts. *)

\* State of every part is of its type.
ClientsTypeOK ==
    /\ PanelSessionTypeOK /\ PanelPagesTypeOK /\ MobileListsTypeOK
    /\ FavouritesTypeOK /\ MoviesTypeOK /\ PhoneTypeOK

\* The lists of the app say what the backend, or the phone, holds, once their calls
\* are answered: channels, favourite stars, films found, films to continue.  Exempt
\* is what the code is known to get wrong: lists of channels whose calls met one of
\* another kind or filter, show a cached page or failed to load first (muddled); stars
\* that others changed or two requests at once (uncertain), or all after a failed read;
\* positions once two saves overlapped (clobbered), and a film whose stream arrived
\* before its position was read.
ListsTellTheTruth == PagesInOrder /\ HeartsAreStored /\ ResultsBelong /\ ResumesWhereLeft

\* In the part that has a phone, playback is cut (Phone).
PlaybackIsCut == part = "phone" => ChannelIsCut
=============================================================================
