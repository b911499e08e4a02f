---------------------------- MODULE MobileLists ----------------------------
(***************************************************************************)
(* The channel lists of the app (apps/mobile: hooks/use-channels, shown by  *)
(* canales, buscar, home and the related channels of a channel).  A list    *)
(* has a filter; page 1 comes from the local cache and then from the        *)
(* network, further pages are appended, a pull reloads page 1.              *)
(*                                                                         *)
(* Every call is made with the filter and the page number of the render     *)
(* that made it; a state update is taken to be rendered before the list      *)
(* asks again, so that page number is the present one.  Only the first load  *)
(* of a filter is cancelled when the filter changes.  An item stands for a   *)
(* page of channels: what matters is which filter and which page it came     *)
(* from.  The catalogue does not change under the reader (Paging has the     *)
(* pages of a table).                                                       *)
(***************************************************************************)
EXTENDS Integers, Sequences, FiniteSets

CONSTANTS
    Filters,        \* country and category, or a search
    Searches,       \* the filters that are searches: never cached
    LastPage,       \* totalPages of every filter
    MaxTaps         \* bound on changes of the filter, pulls and failures

ASSUME MobileListsAssumption == /\ Searches \subseteq Filters /\ LastPage \in Nat \ {0}
                                /\ MaxTaps \in Nat

VARIABLES
    wanted,         \* filters
    items, at, totalPages, loading, error, offline,     \* of useChannels
    call,           \* call[k]: the call of kind k under way
    cached,         \* the filters whose page 1 is in the cache
    muddled,        \* the list holds the answer of a call that met another one
    taps            \* changes, pulls and failures so far

MobileListsVars == <<wanted, items, at, totalPages, loading, error, offline,
                     call, cached, muddled, taps>>

Piece == [filter : Filters, page : 1..(LastPage + 1)]
Kinds == {"first", "more", "more2", "pull"}     \* loadMore has room for two
Call == [step : {"none", "cache", "asked"}, of : Piece,
         fromCache : BOOLEAN,       \* cached # null
         met : BOOLEAN]             \* another kind of call, or of filter, overlapped
NoCall == [step |-> "none", of |-> [filter |-> CHOOSE f \in Filters : TRUE, page |-> 1],
           fromCache |-> FALSE, met |-> FALSE]
Going(k) == call[k].step # "none"
LoadingMore == Going("more") \/ Going("more2")

MobileListsTypeOK ==
    /\ wanted \in Filters /\ items \in Seq(Piece)
    /\ at \in 1..(LastPage + 1) /\ totalPages \in 1..LastPage
    /\ loading \in BOOLEAN /\ error \in BOOLEAN /\ offline \in BOOLEAN
    /\ call \in [Kinds -> Call] /\ cached \subseteq Filters
    /\ muddled \in BOOLEAN /\ taps \in 0..MaxTaps

\* buildUrl(page) of the filters of this render.
buildUrl(page) == [filter |-> wanted, page |-> page]
canCache(f) == f \notin Searches

Tap == taps < MaxTaps /\ taps' = taps + 1
NoTap == UNCHANGED taps

\* The call k starts, in the place of one of its kind: it and the calls under way have met each other.
WithCall(k, c, step) ==
    [j \in Kinds |->
        IF j = k THEN [NoCall EXCEPT !.step = step, !.of = c, !.met =
                           \E i \in Kinds \ {k} : /\ Going(i)
                                                  /\ {i, k} # {"more", "more2"}]
        ELSE IF Going(j) /\ {j, k} # {"more", "more2"} THEN [call[j] EXCEPT !.met = TRUE]
        ELSE call[j]]
WithoutCall(k) == [call EXCEPT ![k] = NoCall]

\* The screen is mounted with a filter: its first load begins.
MobileListsInit ==
    /\ wanted \in Filters /\ items = <<>> /\ at = 1 /\ totalPages = 1
    /\ loading = TRUE /\ error = FALSE /\ offline = FALSE
    /\ cached \in SUBSET {f \in Filters : canCache(f)}
    /\ muddled = FALSE /\ taps = 0
    /\ call = [k \in Kinds |->
                  IF k # "first" THEN NoCall
                  ELSE [NoCall EXCEPT !.step = IF canCache(wanted) THEN "cache" ELSE "asked",
                                      !.of = buildUrl(1)]]

-----------------------------------------------------------------------------
(* What the screens show, and so what can be touched. *)

\* canales and buscar: the skeleton, the error with its retry, or the list (in
\* buscar without a term a hint in its place).
Shown == IF loading /\ items = <<>> THEN "skeleton"
         ELSE IF error /\ items = <<>> THEN "error"
         ELSE "list"

\* The params of the tab, or 300 ms after the last key of a search.  The chips of
\* canales change nothing: the next render sets the filters back to the params.
\* The cleanup of the effect cancels the first load of the old filter.
ChangeFilter(f) ==
    /\ f # wanted /\ Tap
    /\ wanted' = f
    /\ call' = WithCall("first", [filter |-> f, page |-> 1],
                        IF canCache(f) THEN "cache" ELSE "asked")
    /\ UNCHANGED <<items, at, totalPages, loading, error, offline, cached, muddled>>

-----------------------------------------------------------------------------
(* The first load. *)

\* cache.get: null when nothing is stored or it cannot be read.
ReadCache ==
    LET c == call["first"] IN
    /\ c.step = "cache"
    /\ IF c.of.filter \in cached
       THEN /\ items' = <<c.of>> /\ loading' = FALSE
            /\ call' = [call EXCEPT !["first"].step = "asked", !["first"].fromCache = TRUE]
            /\ muddled' = TRUE          \* until the network has answered
       ELSE /\ call' = [call EXCEPT !["first"].step = "asked"]
            /\ UNCHANGED <<items, loading, muddled>>
    /\ NoTap
    /\ UNCHANGED <<wanted, at, totalPages, error, offline, cached>>

\* Page 1 replaces what is shown, and is cached.
Replaces(k) ==
    LET c == call[k] IN
    /\ items' = <<c.of>> /\ at' = 1 /\ totalPages' = LastPage
    /\ error' = FALSE /\ offline' = FALSE
    /\ cached' = IF canCache(c.of.filter) THEN cached \cup {c.of.filter} ELSE cached
    /\ muddled' = c.met
    /\ call' = WithoutCall(k) /\ NoTap /\ UNCHANGED wanted

FirstArrives ==
    /\ call["first"].step = "asked"
    /\ Replaces("first") /\ loading' = FALSE

\* Offline: the cache stays, or an error is shown over the items of the old filter.
FirstFails ==
    LET c == call["first"] IN
    /\ c.step = "asked" /\ Tap
    /\ offline' = TRUE /\ error' = (error \/ ~c.fromCache) /\ loading' = FALSE
    /\ muddled' = TRUE /\ call' = WithoutCall("first")
    /\ UNCHANGED <<wanted, items, at, totalPages, cached>>

-----------------------------------------------------------------------------
(* More pages, and the pull. *)

NotLoadingMoreMutant == ~Going("more2")
\* loadingMoreRef.
NotLoadingMore == ~LoadingMore

\* onEndReached, which a list may call again and again.
loadMore(k) ==
    /\ Shown = "list" /\ k \in {"more", "more2"} /\ ~Going(k)
    /\ NotLoadingMore /\ at < totalPages
    /\ call' = WithCall(k, buildUrl(at + 1), "asked") /\ NoTap
    /\ UNCHANGED <<wanted, items, at, totalPages, loading, error, offline, cached, muddled>>

MoreArrives(k) ==
    LET c == call[k] IN
    /\ k \in {"more", "more2"} /\ Going(k)
    /\ items' = Append(items, c.of) /\ at' = at + 1 /\ totalPages' = LastPage
    /\ offline' = FALSE /\ muddled' = (muddled \/ c.met)
    /\ call' = WithoutCall(k) /\ NoTap
    /\ UNCHANGED <<wanted, loading, error, cached>>

\* The list is not replaced by an error.
MoreFails(k) ==
    /\ k \in {"more", "more2"} /\ Going(k) /\ Tap
    /\ call' = WithoutCall(k)
    /\ UNCHANGED <<wanted, items, at, totalPages, loading, error, offline, cached, muddled>>

\* onRefresh of the list, onRetry of the error; one at a time while refreshing shows.
refresh ==
    /\ Shown \in {"list", "error"} /\ ~Going("pull") /\ Tap
    /\ call' = WithCall("pull", buildUrl(1), "asked")
    /\ UNCHANGED <<wanted, items, at, totalPages, loading, error, offline, cached, muddled>>

RefreshArrives == Going("pull") /\ Replaces("pull") /\ UNCHANGED loading

RefreshFails ==
    /\ Going("pull") /\ Tap
    /\ offline' = TRUE /\ error' = TRUE /\ call' = WithoutCall("pull")
    /\ UNCHANGED <<wanted, items, at, totalPages, loading, cached, muddled>>

MobileListsNext ==
    \/ \E f \in Filters : ChangeFilter(f)
    \/ ReadCache \/ FirstArrives \/ FirstFails
    \/ \E k \in Kinds : loadMore(k) \/ MoreArrives(k) \/ MoreFails(k)
    \/ refresh \/ RefreshArrives \/ RefreshFails

-----------------------------------------------------------------------------
(* Property. *)

\* Once the network has answered, and unless a call met one of another kind or of
\* another filter, the list holds the pages 1, 2, ... of the filter asked for: each
\* once, in order, and no more than its page number says (useChannels).
PagesInOrder ==
    (~muddled /\ ~Going("first") /\ items # <<>>) =>
        /\ Len(items) = at
        /\ \A i \in DOMAIN items : items[i] = [filter |-> wanted, page |-> i]
=============================================================================
