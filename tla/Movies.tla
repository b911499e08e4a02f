------------------------------- MODULE Movies -------------------------------
(***************************************************************************)
(* Films in the app (apps/mobile: app/movies, movie/[id], watch/[id] and    *)
(* lib/progress): the search, and "continue watching", a list of positions  *)
(* in AsyncStorage that the player screen reads when it opens and rewrites  *)
(* when it closes, by reading the list and writing it back.                 *)
(*                                                                         *)
(* Positions are a few marks of a film.  Results are told apart by the      *)
(* search they answer; the rows by genre are loaded once and left out.      *)
(***************************************************************************)
EXTENDS Integers, Sequences, SequencesExt, FiniteSetsExt

CONSTANTS
    Films,
    Terms,          \* search terms, NoTerm among them
    Languages,
    LENGTH,         \* of a film; marks are 0..LENGTH
    EARLY, LATE,    \* positions worth keeping are after EARLY and before LATE
    MAX_PROGRESS,   \* positions kept
    MaxSearches,    \* bound on changes of the search
    MaxVisits       \* bound on visits of the player

NoTerm == ""                                \* the empty search box

ASSUME MoviesAssumption == /\ Films # {} /\ NoTerm \in Terms /\ Languages # {}
                           /\ {LENGTH, EARLY, LATE, MaxSearches, MaxVisits} \subseteq Nat
                           /\ EARLY < LATE /\ LATE <= LENGTH /\ MAX_PROGRESS \in Nat \ {0}

VARIABLES
    query,          \* the text of the search box and the language chosen
    search,         \* what is searched, 300 ms later
    results,        \* the search the results on the screen answer
    asks,           \* searches under way
    progress,       \* the stored list: the newest first
    watching,       \* the player screen
    saves,          \* saveProgress calls under way, by visit
    recent,         \* what was left, and where, as the viewer would tell it
    clobbered,      \* two saves overlapped
    searches, visits

MoviesVars == <<query, search, results, asks, progress, watching, saves, recent,
                clobbered, searches, visits>>

Search == [term : Terms, language : Languages]
Nothing == [term |-> NoTerm, language |-> CHOOSE l \in Languages : TRUE]
Mark == [film : Films, at : 0..LENGTH]
Watch == [film : Films, open : BOOLEAN, startAt : 0..LENGTH, read : BOOLEAN,
          url : BOOLEAN, failed : BOOLEAN,
          from : 0..LENGTH,                  \* where the player began
          at : 0..LENGTH, timed : BOOLEAN,   \* positionRef; durationRef > 0
          calm : BOOLEAN]                    \* no save was under way at the read
NoWatch == [film |-> CHOOSE f \in Films : TRUE, open |-> FALSE, startAt |-> 0, read |-> FALSE,
            url |-> FALSE, failed |-> FALSE, from |-> 0, at |-> 0, timed |-> FALSE, calm |-> FALSE]
Save == [item : Mark, list : Seq(Mark), read : BOOLEAN]

MoviesTypeOK ==
    /\ query \in Search /\ search \in Search /\ results \in Search
    /\ \A a \in asks : a.of \in Search /\ a.alive \in BOOLEAN
    /\ progress \in Seq(Mark) /\ Len(progress) <= MAX_PROGRESS
    /\ watching \in Watch /\ recent \in Seq(Mark)
    /\ \A v \in DOMAIN saves : saves[v].item \in Mark /\ saves[v].list \in Seq(Mark)
    /\ searches \in 0..MaxSearches /\ visits \in 0..MaxVisits

MoviesInit ==
    /\ query = Nothing /\ search = Nothing /\ results = Nothing /\ asks = {}
    /\ progress = <<>> /\ watching = NoWatch /\ saves = <<>> /\ recent = <<>>
    /\ clobbered = FALSE /\ searches = 0 /\ visits = 0

WatchVars == <<progress, watching, saves, recent, clobbered, visits>>
SearchVars == <<query, search, results, asks, searches>>

-----------------------------------------------------------------------------
(* The search. *)

\* The text box and the chips of the languages.
TypeFilm(term) ==
    /\ searches < MaxSearches /\ searches' = searches + 1
    /\ query' = [query EXCEPT !.term = term]
    /\ UNCHANGED <<search, results, asks, WatchVars>>

StillAliveMutant(a) == a
\* The cleanup of the effect: alive = false.
StillAlive(a) == [a EXCEPT !.alive = FALSE]

\* The effect on [search, language]: no term, no results, else fetchMovies.
SearchFor(s) ==
    /\ search' = s
    /\ LET old == {StillAlive(a) : a \in asks} IN
          IF s.term = NoTerm THEN results' = s /\ asks' = old
          ELSE asks' = old \cup {[of |-> s, alive |-> TRUE]} /\ UNCHANGED results

PickLanguage(l) ==
    /\ searches < MaxSearches /\ searches' = searches + 1
    /\ query.language # l
    /\ query' = [query EXCEPT !.language = l]
    /\ SearchFor([search EXCEPT !.language = l])
    /\ UNCHANGED WatchVars

SearchDebounced ==
    /\ query.term # search.term
    /\ SearchFor([search EXCEPT !.term = query.term])
    /\ UNCHANGED <<query, searches, WatchVars>>

\* An answer, or a failure, which empties the list: it says no more of another search.
ResultsArrive(a) ==
    /\ asks' = asks \ {a}
    /\ results' = IF a.alive THEN a.of ELSE results
    /\ UNCHANGED <<query, search, searches, WatchVars>>

-----------------------------------------------------------------------------
(* The player screen. *)

MarkOf(list, f) ==
    LET found == {i \in DOMAIN list : list[i].film = f}
    IN IF found = {} THEN 0 ELSE list[Min(found)].at

\* "Reproducir" of the film, or its card in "Continuar viendo".
OpenFilm(f) ==
    /\ ~watching.open /\ visits < MaxVisits /\ visits' = visits + 1
    /\ watching' = [NoWatch EXCEPT !.film = f, !.open = TRUE]
    /\ UNCHANGED <<progress, saves, recent, clobbered, SearchVars>>

\* getProgressById; an answer after the player was created moves nothing.
ProgressRead ==
    /\ watching.open /\ ~watching.read
    /\ watching' = [watching EXCEPT !.read = TRUE, !.calm = (saves = <<>>),
                                    !.startAt = MarkOf(progress, watching.film)]
    /\ UNCHANGED <<progress, saves, recent, clobbered, visits, SearchVars>>

\* fetchMovieStream: the player is created, and goes to startAt as it is now.
StreamArrives ==
    /\ watching.open /\ ~watching.url /\ ~watching.failed
    /\ \/ watching' = [watching EXCEPT !.url = TRUE, !.from = watching.startAt]
       \/ watching' = [watching EXCEPT !.failed = TRUE]
    /\ UNCHANGED <<progress, saves, recent, clobbered, visits, SearchVars>>

\* timeUpdate: the film goes on, or the viewer goes to another place.
Plays(p) ==
    /\ watching.url
    /\ watching' = [watching EXCEPT !.at = p, !.timed = TRUE]
    /\ UNCHANGED <<progress, saves, recent, clobbered, visits, SearchVars>>

Keeps(p) == p > EARLY /\ p < LATE

\* The list without the film: filter.
Spared(f, kept, m) == IF m.film = f THEN kept ELSE Append(kept, m)
Without(list, f) == FoldLeft(LAMBDA kept, m : Spared(f, kept, m), <<>>, list)

NextListMutant(list, item) ==
    SubSeq(Append(Without(list, item.film), item), 1,
           IF Len(list) < MAX_PROGRESS THEN Len(list) + 1 ELSE MAX_PROGRESS)

NextListLongMutant(list, item) == <<item>> \o Without(list, item.film)

\* The newest first, one row per film, no more than MAX_PROGRESS.
NextList(list, item) ==
    LET all == <<item>> \o Without(list, item.film)
    IN IF Len(all) > MAX_PROGRESS THEN SubSeq(all, 1, MAX_PROGRESS) ELSE all

\* Unmounted: a position worth keeping is saved, without waiting for it.
CloseFilm ==
    LET item == [film |-> watching.film, at |-> watching.at] IN
    /\ watching.open /\ watching' = NoWatch
    /\ IF Keeps(watching.at) /\ watching.timed
       THEN /\ saves' = Append(saves, [item |-> item, list |-> <<>>, read |-> FALSE])
            /\ clobbered' = (clobbered \/ saves # <<>>)
            /\ recent' = <<item>> \o Without(recent, item.film)
       ELSE UNCHANGED <<saves, clobbered, recent>>
    /\ UNCHANGED <<progress, visits, SearchVars>>

SaveReads(v) ==
    /\ ~saves[v].read
    /\ saves' = [saves EXCEPT ![v].read = TRUE, ![v].list = progress]
    /\ UNCHANGED <<progress, watching, recent, clobbered, visits, SearchVars>>

SaveWrites(v) ==
    /\ saves[v].read
    /\ progress' = NextList(saves[v].list, saves[v].item)
    /\ saves' = RemoveAt(saves, v)
    /\ UNCHANGED <<watching, recent, clobbered, visits, SearchVars>>

SearchNext ==
    \/ \E term \in Terms : TypeFilm(term)
    \/ \E l \in Languages : PickLanguage(l)
    \/ SearchDebounced
    \/ \E a \in asks : ResultsArrive(a)

WatchNext ==
    \/ \E f \in Films : OpenFilm(f)
    \/ ProgressRead \/ StreamArrives \/ CloseFilm
    \/ \E p \in 0..LENGTH : Plays(p)
    \/ \E v \in DOMAIN saves : SaveReads(v) \/ SaveWrites(v)

-----------------------------------------------------------------------------
(* Properties. *)

\* Results that are shown with no answer awaited answer the search made.
ResultsBelong ==
    (search.term # NoTerm /\ ~\E a \in asks : a.alive) => results = search

\* Unless two saves overlapped, the list has the films left last, each with the
\* place where it was left; and a film whose position was read before its stream
\* arrived begins there.
ResumesWhereLeft ==
    ~clobbered =>
        /\ saves = <<>> =>
              progress = SubSeq(recent, 1,
                             IF Len(recent) < MAX_PROGRESS THEN Len(recent) ELSE MAX_PROGRESS)
        /\ watching.url /\ watching.startAt = watching.from /\ watching.calm =>
              \/ watching.from = MarkOf(recent, watching.film)
              \/ watching.from = 0 /\ MarkOf(progress, watching.film) = 0
=============================================================================
