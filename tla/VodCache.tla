------------------------------ MODULE VodCache ------------------------------
(***************************************************************************)
(* The cache of VodService (backend/src/vod/vod.service.ts) in front of    *)
(* the Xtream API of the provider.  api() looks the key up, awaits the     *)
(* provider for at most TIMEOUT and stamps the answer with the time it     *)
(* arrives.  Nothing keeps two requests for a key from being in flight, so *)
(* an answer made earlier may arrive later and take the place of a newer.  *)
(* Only the age of data is modelled: an answer is the instant at which the *)
(* provider made it.                                                       *)
(***************************************************************************)
EXTENDS Integers

CONSTANTS
    VodKeys,        \* action and extra parameters of a request
    Calls,          \* requests in flight
    TTL,            \* TTL_MS
    TIMEOUT,        \* AbortSignal.timeout(60000)
    LastTick,       \* bound on the clock
    NoAnswer

ASSUME VodAssumption ==
    /\ TTL \in Nat \ {0} /\ TIMEOUT \in Nat /\ LastTick \in Nat
    /\ NoAnswer \notin Nat /\ NoAnswer \notin VodKeys

VARIABLES
    cache,          \* cache[k]: when the entry was stored and its data made
    vodTime,
    calls,          \* calls[c]: key, start, and when the provider answered
    oldest          \* age of the data last handed out

VodVars == <<cache, vodTime, calls, oldest>>

CacheEntry == [at : Nat, made : Nat]
Call == [key : VodKeys \cup {NoAnswer}, since : Nat, made : Nat \cup {NoAnswer}]
NoCall == [key |-> NoAnswer, since |-> 0, made |-> NoAnswer]

VodInit ==
    /\ cache = [k \in VodKeys |-> NoAnswer]
    /\ vodTime = 0
    /\ calls = [c \in Calls |-> NoCall]
    /\ oldest = 0

FreshMutant(k) == cache[k] # NoAnswer

\* hit: stored less than TTL ago.
Fresh(k) == cache[k] # NoAnswer /\ vodTime - cache[k].at < TTL

\* movies, series, details and stream URLs are computed from a hit,
Hit(k) ==
    /\ Fresh(k)
    /\ oldest' = vodTime - cache[k].made
    /\ UNCHANGED <<cache, vodTime, calls>>

\* or wait for the provider.
Miss(c, k) ==
    /\ calls[c] = NoCall
    /\ ~Fresh(k)
    /\ calls' = [calls EXCEPT ![c] = [key |-> k, since |-> vodTime, made |-> NoAnswer]]
    /\ UNCHANGED <<cache, vodTime, oldest>>

\* The provider makes its answer.
ProviderAnswers(c) ==
    /\ calls[c] # NoCall /\ calls[c].made = NoAnswer
    /\ calls' = [calls EXCEPT ![c].made = vodTime]
    /\ UNCHANGED <<cache, vodTime, oldest>>

\* It arrives, is stored and handed out.
Arrives(c) ==
    /\ calls[c].made # NoAnswer
    /\ cache' = [cache EXCEPT ![calls[c].key] = [at |-> vodTime, made |-> calls[c].made]]
    /\ oldest' = vodTime - calls[c].made
    /\ calls' = [calls EXCEPT ![c] = NoCall]
    /\ UNCHANGED vodTime

\* HTTP error or timeout: the caller gets an error, nothing is stored.
GivesUp(c) ==
    /\ calls[c] # NoCall
    /\ calls' = [calls EXCEPT ![c] = NoCall]
    /\ UNCHANGED <<cache, vodTime, oldest>>

\* No request outlives its timeout.
VodTick ==
    /\ vodTime < LastTick
    /\ \A c \in Calls : calls[c] # NoCall => vodTime - calls[c].since < TIMEOUT
    /\ vodTime' = vodTime + 1
    /\ UNCHANGED <<cache, calls, oldest>>

VodNext ==
    \/ \E k \in VodKeys : Hit(k)
    \/ \E c \in Calls, k \in VodKeys : Miss(c, k)
    \/ \E c \in Calls : ProviderAnswers(c) \/ Arrives(c) \/ GivesUp(c)
    \/ VodTick

VodSpec == VodInit /\ [][VodNext]_VodVars

-----------------------------------------------------------------------------
(* Properties *)

\* Entries, calls and clock are of their types.
VodTypeOK ==
    /\ cache \in [VodKeys -> CacheEntry \cup {NoAnswer}]
    /\ vodTime \in Nat /\ oldest \in Nat
    /\ calls \in [Calls -> Call]

\* What a customer is shown, and what a stream URL is built from, was made by the
\* provider less than TTL plus one timeout ago, although answers overtake each
\* other and the cache is stamped on arrival.
ServedIsRecent == oldest < TTL + TIMEOUT
=============================================================================
