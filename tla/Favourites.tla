----------------------------- MODULE Favourites -----------------------------
(***************************************************************************)
(* Favourite channels: the stars of one screen of the app (hooks/use-me,   *)
(* shown by favoritos and by the header of a channel) and the rows of the   *)
(* customer in the backend (customer-area/me.service).  A star changes at   *)
(* once, the request follows; only a failure reads the favourites again.    *)
(* Requests are answered in any order.  Other screens, and other phones of  *)
(* the customer, write the same rows, and nobody tells this screen.         *)
(***************************************************************************)
EXTENDS Integers, FiniteSets

CONSTANTS
    Starred,        \* channels
    StarSlots,         \* requests and reads this screen may have under way
    MaxStars        \* bound on taps, failures and writes of others

ASSUME FavouritesAssumption == Starred # {} /\ MaxStars \in Nat

VARIABLES
    stored,         \* favorites of the customer
    hearts,         \* favorites of the screen
    heartsError,    \* error; loading only chooses a skeleton
    toggles,        \* toggles[i]: a request to add or to remove
    reads,          \* reads[i]: a GET /me/favorites
    uncertain,      \* channels whose star met another request for them
    stars           \* taps, failures and writes of others so far

FavouritesVars == <<stored, hearts, heartsError, toggles, reads, uncertain, stars>>

Toggle == [step : {"none", "asked", "done", "lost"}, kind : {"add", "remove"}, channel : Starred]
Read == [step : {"none", "asked", "read"}, data : SUBSET Starred,
         touched : SUBSET Starred]        \* with a request under way since the read
NoToggle == [step |-> "none", kind |-> "add", channel |-> CHOOSE c \in Starred : TRUE]
NoRead == [step |-> "none", data |-> {}, touched |-> {}]

FavouritesTypeOK ==
    /\ stored \subseteq Starred /\ hearts \subseteq Starred /\ uncertain \subseteq Starred
    /\ heartsError \in BOOLEAN
    /\ toggles \in [StarSlots -> Toggle] /\ reads \in [StarSlots -> Read]
    /\ stars \in 0..MaxStars

Waiting == {toggles[i].channel : i \in {j \in StarSlots : toggles[j].step # "none"}}
FreeToggle(i) == toggles[i].step = "none"
FreeRead(i) == reads[i].step = "none"
Star == stars < MaxStars /\ stars' = stars + 1

Touches(c) == [i \in StarSlots |-> IF reads[i].step = "read"
                                THEN [reads[i] EXCEPT !.touched = @ \cup {c}] ELSE reads[i]]

\* The screen is mounted and reads the favourites.
FavouritesInit ==
    /\ stored \in SUBSET Starred /\ hearts = {}
    /\ heartsError = FALSE /\ uncertain = {} /\ stars = 0
    /\ toggles = [i \in StarSlots |-> NoToggle]
    /\ \E i \in StarSlots : reads = [[j \in StarSlots |-> NoRead] EXCEPT ![i].step = "asked"]

-----------------------------------------------------------------------------
(* Reads. *)

\* listFavorites.
ReadFavourites(i) ==
    /\ reads[i].step = "asked"
    /\ reads' = [reads EXCEPT ![i] = [step |-> "read", data |-> stored, touched |-> Waiting]]
    /\ UNCHANGED <<stored, hearts, heartsError, toggles, uncertain, stars>>

ReadLands(i) ==
    /\ reads[i].step = "read"
    /\ hearts' = reads[i].data /\ heartsError' = FALSE
    /\ uncertain' = reads[i].touched
    /\ reads' = [reads EXCEPT ![i] = NoRead]
    /\ UNCHANGED <<stored, toggles, stars>>

ReadFails(i) ==
    /\ ~FreeRead(i) /\ Star
    /\ heartsError' = TRUE
    /\ reads' = [reads EXCEPT ![i] = NoRead]
    /\ UNCHANGED <<stored, hearts, toggles, uncertain>>

\* onRetry of the error of favoritos, which stays until a read lands.
Retry ==
    /\ heartsError
    /\ \E i \in StarSlots : FreeRead(i) /\ reads' = [reads EXCEPT ![i].step = "asked"]
    /\ UNCHANGED <<stored, hearts, heartsError, toggles, uncertain, stars>>

-----------------------------------------------------------------------------
(* Stars. *)

\* toggle: what is shown decides what is asked, and changes before it is.
TapStar(c) ==
    /\ Star
    /\ \E i \in StarSlots : FreeToggle(i) /\ toggles' = [toggles EXCEPT ![i] =
           [step |-> "asked", kind |-> IF c \in hearts THEN "remove" ELSE "add", channel |-> c]]
    /\ hearts' = IF c \in hearts THEN hearts \ {c} ELSE hearts \cup {c}
    /\ uncertain' = IF c \in Waiting THEN uncertain \cup {c} ELSE uncertain
    /\ reads' = Touches(c)
    /\ UNCHANGED <<stored, heartsError>>

\* addFavorite upserts, removeFavorite deletes what there is: repeated calls agree.
Write(kind, c) == stored' = IF kind = "add" THEN stored \cup {c} ELSE stored \ {c}

ToggleArrives(i) ==
    /\ toggles[i].step = "asked"
    /\ \/ Write(toggles[i].kind, toggles[i].channel)
          /\ toggles' = [toggles EXCEPT ![i].step = "done"] /\ UNCHANGED stars
       \* Refused (an inactive channel, a session that ended) or lost, before or after.
       \/ /\ Star /\ toggles' = [toggles EXCEPT ![i].step = "lost"]
          /\ Write(toggles[i].kind, toggles[i].channel) \/ UNCHANGED stored
    /\ UNCHANGED <<hearts, heartsError, reads, uncertain>>

ReloadsMutant(i) == reads' = reads

\* The catch of toggle: reload.
Reloads(i) == \E j \in StarSlots : FreeRead(j) /\ reads' = [reads EXCEPT ![j].step = "asked"]

ToggleLands(i) ==
    /\ toggles[i].step \in {"done", "lost"}
    /\ IF toggles[i].step = "lost" THEN Reloads(i) ELSE UNCHANGED reads
    /\ toggles' = [toggles EXCEPT ![i] = NoToggle]
    /\ UNCHANGED <<stored, hearts, heartsError, uncertain, stars>>

\* Another screen or phone, or a channel that is deleted.
OthersStar(c) ==
    /\ Star
    /\ \E kind \in {"add", "remove"} : Write(kind, c)
    /\ uncertain' = uncertain \cup {c} /\ reads' = Touches(c)
    /\ UNCHANGED <<hearts, heartsError, toggles>>

FavouritesNext ==
    \/ \E i \in StarSlots : ReadFavourites(i) \/ ReadLands(i) \/ ReadFails(i)
                        \/ ToggleArrives(i) \/ ToggleLands(i)
    \/ Retry
    \/ \E c \in Starred : TapStar(c) \/ OthersStar(c)

-----------------------------------------------------------------------------
(* Property. *)

\* When everything has been answered and no read has failed, the stars are the
\* rows of the backend, for every channel that neither others changed nor two
\* requests at once: whatever failed, and however answers were ordered.
HeartsAreStored ==
    (~heartsError /\ \A i \in StarSlots : FreeToggle(i) /\ FreeRead(i)) =>
        \A c \in Starred \ uncertain : c \in hearts <=> c \in stored
=============================================================================
