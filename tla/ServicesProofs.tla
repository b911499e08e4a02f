--------------------------- MODULE ServicesProofs ---------------------------
(***************************************************************************)
(* What the services of the backend promise, each for itself and together,  *)
(* for any number of keys, requests, connections, channels and rows, any    *)
(* times and sizes (the catalogue is in CatalogueProofs).                  *)
(***************************************************************************)
EXTENDS Services, CatalogueProofs

-----------------------------------------------------------------------------
(* AbuseGuard.  A block counts from the failure that reaches the limit, which *)
(* is no earlier than the failure that opened the window.                    *)

GuardInv ==
    /\ GuardTypeOK
    /\ \A k \in GuardKeys :
          /\ records[k].firstAt <= instant
          /\ records[k].count >= MAX_FAILURES =>
                 records[k].blockedUntil >= records[k].firstAt + BLOCK

\* The record after a failure, for every record before it.
LEMMA FailureIsCounted ==
    ASSUME NEW k \in GuardKeys, GuardInv
    PROVE  /\ AfterFailure(k) \in AbuseRecord
           /\ AfterFailure(k).firstAt <= instant
           /\ AfterFailure(k).count >= MAX_FAILURES =>
                  AfterFailure(k).blockedUntil >= AfterFailure(k).firstAt + BLOCK
<1>0. /\ records[k] \in AbuseRecord /\ instant \in Nat
      /\ records[k].firstAt <= instant
  BY DEF GuardInv, GuardTypeOK
<1>1. CASE records[k].count = 0 \/ WindowOver(k)
  <2>1. AfterFailure(k) = [count |-> 1, firstAt |-> instant, blockedUntil |-> 0]
    BY <1>1 DEF AfterFailure, Fresh1
  <2> QED
    BY <1>0, <2>1, GuardAssumption, GuardBites DEF AbuseRecord
<1>2. CASE ~(records[k].count = 0 \/ WindowOver(k))
  <2>1. AfterFailure(k) = Counted(records[k])
    BY <1>2 DEF AfterFailure
  <2> DEFINE until == IF records[k].count + 1 >= MAX_FAILURES THEN instant + BLOCK
                      ELSE records[k].blockedUntil
  <2>2. until \in Nat /\ records[k].count + 1 \in Nat
    BY <1>0, GuardAssumption, GuardBites DEF AbuseRecord
  <2>3. /\ Counted(records[k]) \in AbuseRecord
        /\ Counted(records[k]).count = records[k].count + 1
        /\ Counted(records[k]).firstAt = records[k].firstAt
        /\ Counted(records[k]).blockedUntil = until
    <3> DEFINE n == records[k].count + 1
               after == [records[k] EXCEPT !.count = n, !.blockedUntil = until]
    <3>1. Counted(records[k]) = after
      BY DEF Counted
    <3>2. n \in Nat /\ until \in Nat
      BY <2>2
    <3> HIDE DEF until, n
    <3>3. after \in AbuseRecord /\ after.count = n /\ after.firstAt = records[k].firstAt
            /\ after.blockedUntil = until
      BY <1>0, <3>2 DEF AbuseRecord
    <3> HIDE DEF after
    <3> QED
      BY <3>1, <3>3 DEF n
  <2>4. records[k].count + 1 >= MAX_FAILURES => until >= records[k].firstAt + BLOCK
    BY <1>0, GuardAssumption, GuardBites DEF AbuseRecord
  <2> HIDE DEF until
  <2> QED
    BY <1>0, <2>1, <2>2, <2>3, <2>4 DEF AbuseRecord
<1> QED
  BY <1>1, <1>2

\* The records after isBlocked: some are gone, the others as they were.
LEMMA AskingForgets ==
    ASSUME NEW asked, GuardInv
    PROVE  \A k \in GuardKeys : Asked(asked)[k] \in {NoRecord, records[k]}
BY DEF Asked

\* The invariant is inductive.
LEMMA GuardInductive == GuardInv /\ [GuardNext]_GuardVars => GuardInv'
<1> SUFFICES ASSUME GuardInv, [GuardNext]_GuardVars
             PROVE  GuardInv'
  OBVIOUS
<1> USE GuardAssumption, GuardBites
<1> NoRecord \in AbuseRecord
  BY DEF NoRecord, AbuseRecord
<1>1. ASSUME NEW asked, records' = Asked(asked), instant' = instant,
             attempts' \in [Attempts -> SUBSET GuardKeys]
      PROVE  GuardInv'
  <2>1. records' \in [GuardKeys -> AbuseRecord]
    BY <1>1, AskingForgets DEF Asked, GuardInv, GuardTypeOK
  <2>2. ASSUME NEW k \in GuardKeys
        PROVE  /\ records'[k].firstAt <= instant'
               /\ records'[k].count >= MAX_FAILURES =>
                      records'[k].blockedUntil >= records'[k].firstAt + BLOCK
    <3>1. records'[k] = NoRecord \/ records'[k] = records[k]
      BY <1>1, AskingForgets
    <3> QED
      BY <3>1, <1>1 DEF GuardInv, GuardTypeOK, NoRecord
  <2> QED
    BY <1>1, <2>1, <2>2 DEF GuardInv, GuardTypeOK
<1>2. ASSUME NEW ip \in GuardKeys, NEW device \in GuardKeys, Refuse(ip, device)
      PROVE  GuardInv'
  BY <1>1, <1>2 DEF Refuse, GuardInv, GuardTypeOK
<1>3. ASSUME NEW a \in Attempts, NEW ip \in GuardKeys, NEW device \in GuardKeys,
             Attempt(a, ip, device)
      PROVE  GuardInv'
  <2>1. attempts' \in [Attempts -> SUBSET GuardKeys]
    BY <1>3 DEF Attempt, GuardInv, GuardTypeOK
  <2> QED
    BY <1>1, <1>3, <2>1 DEF Attempt
<1>4. ASSUME NEW a \in Attempts, Fails(a)
      PROVE  GuardInv'
  <2>1. \A k \in GuardKeys : records'[k] \in {records[k], AfterFailure(k)}
    BY <1>4 DEF Fails
  <2>2. records' \in [GuardKeys -> AbuseRecord]
    BY <1>4, FailureIsCounted DEF Fails, GuardInv, GuardTypeOK
  <2>3. ASSUME NEW k \in GuardKeys
        PROVE  /\ records'[k].firstAt <= instant'
               /\ records'[k].count >= MAX_FAILURES =>
                      records'[k].blockedUntil >= records'[k].firstAt + BLOCK
    <3>1. instant' = instant
      BY <1>4 DEF Fails
    <3>2. records'[k] = records[k] \/ records'[k] = AfterFailure(k)
      BY <2>1
    <3> QED
      BY <3>1, <3>2, FailureIsCounted DEF GuardInv
  <2>4. attempts' \in [Attempts -> SUBSET GuardKeys] /\ instant' \in Nat
    BY <1>4 DEF Fails, GuardInv, GuardTypeOK
  <2> QED
    BY <2>2, <2>3, <2>4 DEF GuardInv, GuardTypeOK
<1>5. ASSUME NEW a \in Attempts, Ends(a)
      PROVE  GuardInv'
  BY <1>5 DEF Ends, GuardInv, GuardTypeOK
<1>6. ASSUME GuardRestart
      PROVE  GuardInv'
  BY <1>6 DEF GuardRestart, GuardInv, GuardTypeOK, NoRecord
<1>7. ASSUME GuardTick
      PROVE  GuardInv'
  BY <1>7 DEF GuardTick, GuardInv, GuardTypeOK, AbuseRecord
<1>8. ASSUME UNCHANGED GuardVars
      PROVE  GuardInv'
  BY <1>8 DEF GuardVars, GuardInv, GuardTypeOK
<1> QED
  BY <1>2, <1>3, <1>4, <1>5, <1>6, <1>7, <1>8 DEF GuardNext

LEMMA GuardStarts == GuardInit => GuardInv
BY GuardAssumption, GuardBites DEF GuardInit, GuardInv, GuardTypeOK, NoRecord, AbuseRecord

\* A key that has used up its failures is blocked until its window is over, for any
\* numbers of keys and attempts and any limit, window and block (BLOCK > WINDOW).
THEOREM ExhaustedStaysBlocked == GuardSpec => []ExhaustedIsBlocked
<1>1. GuardInv => ExhaustedIsBlocked
  BY GuardAssumption, GuardBites
     DEF GuardInv, GuardTypeOK, ExhaustedIsBlocked, Blocked, WindowOver, AbuseRecord
<1> QED
  BY <1>1, GuardStarts, GuardInductive, PTL DEF GuardSpec

(* Guesses.  What a key has failed and may still fail is limited when it passes *)
(* the guard, with at most one attempt of each request in flight.             *)

Held(k) == {a \in Attempts : k \in attempts[a]}
AllHeld == Cardinality(Attempts)
Within(k) == records[k].count + Cardinality(Held(k)) <= MAX_FAILURES + AllHeld - 1

GuessInv == GuardInv /\ GuessesAreBounded

\* The attempts that hold a key are finitely many, no more than there are attempts.
LEMMA HeldIsSmall ==
    ASSUME NEW k
    PROVE  /\ IsFiniteSet(Held(k)) /\ Cardinality(Held(k)) \in Nat /\ AllHeld \in Nat
           /\ Cardinality(Held(k)) <= AllHeld
           /\ IsFiniteSet(Held(k)') /\ Cardinality(Held(k)') \in Nat
           /\ Cardinality(Held(k)') <= AllHeld
<1>1. Held(k) \in SUBSET Attempts /\ Held(k)' \in SUBSET Attempts
  BY DEF Held
<1>2. IsFiniteSet(Attempts)
  BY GuardAssumption
<1> QED
  BY <1>1, <1>2, FS_Subset, FS_CardinalityType DEF AllHeld

\* A key that has no failures is within its bound, and so is one within it of which
\* neither the record nor the attempts have grown.
LEMMA StaysWithin ==
    ASSUME GuardInv, NEW k \in GuardKeys, records[k].count \in Nat, records'[k].count \in Nat,
           \/ records'[k].count <= 1 /\ Cardinality(Held(k)') < AllHeld
           \/ records'[k].count < MAX_FAILURES
           \/ Within(k) /\ records'[k].count + Cardinality(Held(k)')
                              <= records[k].count + Cardinality(Held(k))
    PROVE  Within(k)'
<1> HIDE DEF Held, AllHeld
<1>1. AllHeld' = AllHeld
  BY DEF AllHeld
<1> QED
  BY <1>1, HeldIsSmall, GuardAssumption, GuardBites DEF Within

\* A key keeps within its bound, or its window is over, whatever step is taken.
LEMMA GuessInductive == GuessInv /\ [GuardNext]_GuardVars => GuessInv'
<1> SUFFICES ASSUME GuessInv, [GuardNext]_GuardVars
             PROVE  GuessInv'
  OBVIOUS
<1>0. GuardInv /\ GuardInv' /\ \A k \in GuardKeys : Within(k) \/ WindowOver(k)
  BY GuardInductive DEF GuessInv, GuessesAreBounded, Within, Held, AllHeld
<1>t. \A k \in GuardKeys : /\ records[k] \in AbuseRecord /\ records'[k] \in AbuseRecord
                            /\ records[k].count \in Nat /\ records'[k].count \in Nat
  BY <1>0 DEF GuardInv, GuardTypeOK, AbuseRecord
<1>s. SUFFICES ASSUME NEW k \in GuardKeys
               PROVE  Within(k)' \/ WindowOver(k)'
  BY <1>0 DEF GuessInv, GuessesAreBounded, Within, Held, AllHeld
<1>n. NoRecord.count = 0 /\ 0 < MAX_FAILURES
  BY GuardAssumption, GuardBites DEF NoRecord
<1>1. ASSUME NEW ip \in GuardKeys, NEW device \in GuardKeys, Refuse(ip, device)
      PROVE  Within(k)' \/ WindowOver(k)'
  <2>1. /\ attempts' = attempts /\ instant' = instant
        /\ records'[k] \in {NoRecord, records[k]}
    BY <1>1, <1>0, AskingForgets DEF Refuse
  <2>2. CASE records'[k] = NoRecord
    BY <1>0, <1>t, <1>n, <2>2, StaysWithin
  <2>3. CASE records'[k] = records[k]
    <3>1. Held(k)' = Held(k) /\ WindowOver(k)' = WindowOver(k)
      BY <2>1, <2>3 DEF Held, WindowOver
    <3> QED
      BY <1>0, <2>3, <3>1 DEF Within, AllHeld
  <2> QED
    BY <2>1, <2>2, <2>3
<1>2. ASSUME NEW a \in Attempts, NEW ip \in GuardKeys, NEW device \in GuardKeys,
             Attempt(a, ip, device)
      PROVE  Within(k)' \/ WindowOver(k)'
  <2>1. /\ attempts' = [attempts EXCEPT ![a] = {ip, device}] /\ instant' = instant
        /\ records' = Asked({ip, device}) /\ ~Blocked(ip) /\ ~Blocked(device)
        /\ attempts[a] = {}
    BY <1>2 DEF Attempt
  <2>2. records'[k] = NoRecord \/ records'[k] = records[k]
    BY <1>0, <2>1, AskingForgets
  <2>3. CASE records'[k] = NoRecord
    BY <1>0, <1>t, <1>n, <2>3, StaysWithin
  <2>4. CASE records'[k] = records[k] /\ k \in {ip, device} /\ ~WindowOver(k)
    <3>1. ~Blocked(k)
      BY <2>1, <2>4
    <3>2. ~(records[k].count >= MAX_FAILURES)
      BY <1>0, <2>4, <3>1, GuardAssumption, GuardBites
         DEF GuardInv, GuardTypeOK, Blocked, WindowOver, AbuseRecord
    <3>3. records'[k].count < MAX_FAILURES
      BY <1>t, <2>4, <3>2, GuardAssumption
    <3> QED
      BY <1>0, <1>t, <3>3, StaysWithin
  <2>5. CASE records'[k] = records[k] /\ k \in {ip, device} /\ WindowOver(k)
    BY <2>1, <2>5 DEF WindowOver
  <2>6. CASE records'[k] = records[k] /\ k \notin {ip, device}
    <3>1. attempts \in [Attempts -> SUBSET GuardKeys]
      BY <1>0 DEF GuardInv, GuardTypeOK
    <3>2. Held(k)' = Held(k) /\ WindowOver(k)' = WindowOver(k)
      BY <2>1, <2>6, <3>1 DEF Held, WindowOver
    <3> QED
      BY <1>0, <2>6, <3>2 DEF Within, AllHeld
  <2> QED
    BY <2>2, <2>3, <2>4, <2>5, <2>6
<1>3. ASSUME NEW a \in Attempts, Fails(a) \/ Ends(a)
      PROVE  Within(k)' \/ WindowOver(k)'
  <2>1. /\ attempts' = [attempts EXCEPT ![a] = {}] /\ instant' = instant
        /\ attempts \in [Attempts -> SUBSET GuardKeys]
    BY <1>0, <1>3 DEF Fails, Ends, GuardInv, GuardTypeOK
  <2>2. Held(k)' = Held(k) \ {a}
    BY <2>1 DEF Held
  <2>3. /\ Cardinality(Held(k)') <= Cardinality(Held(k))
        /\ a \in Held(k) => Cardinality(Held(k)') = Cardinality(Held(k)) - 1
    <3>1. IsFiniteSet(Held(k)) /\ Cardinality(Held(k)) \in Nat
      BY HeldIsSmall
    <3>2. Cardinality(Held(k) \ {a}) =
              IF a \in Held(k) THEN Cardinality(Held(k)) - 1 ELSE Cardinality(Held(k))
      BY <3>1, FS_RemoveElement
    <3>3. Cardinality(Held(k)') = Cardinality(Held(k) \ {a})
      BY <2>2
    <3> QED
      BY <3>1, <3>2, <3>3
  <2>4. CASE records'[k] = records[k]
    <3>1. WindowOver(k)' = WindowOver(k)
      BY <2>1, <2>4 DEF WindowOver
    <3>2. records'[k].count + Cardinality(Held(k)') <= records[k].count + Cardinality(Held(k))
      BY <1>t, <2>3, <2>4, HeldIsSmall
    <3> QED
      BY <1>0, <1>t, <3>1, <3>2, StaysWithin
  <2>5. CASE records'[k] = AfterFailure(k) /\ a \in Held(k)
    <3>1. CASE records[k].count = 0 \/ WindowOver(k)
      <4>1. records'[k].count <= 1
        BY <2>5, <3>1 DEF AfterFailure, Fresh1
      <4>2. Cardinality(Held(k)') < AllHeld
        BY <2>3, <2>5, HeldIsSmall
      <4> QED
        BY <1>0, <1>t, <4>1, <4>2, StaysWithin
    <3>2. CASE ~(records[k].count = 0 \/ WindowOver(k))
      <4>1. AfterFailure(k) = Counted(records[k])
        BY <3>2 DEF AfterFailure
      <4>2. Counted(records[k]).count = records[k].count + 1
        BY <1>t DEF Counted, AbuseRecord
      <4>3. records'[k].count + Cardinality(Held(k)') <= records[k].count + Cardinality(Held(k))
        BY <1>t, <2>3, <2>5, <4>1, <4>2, HeldIsSmall
      <4> QED
        BY <1>0, <1>t, <3>2, <4>3, StaysWithin
    <3> QED
      BY <3>1, <3>2
  <2> QED
    BY <1>0, <1>3, <2>4, <2>5 DEF Fails, Ends, Held
<1>4. ASSUME GuardRestart
      PROVE  Within(k)' \/ WindowOver(k)'
  BY <1>0, <1>t, <1>n, <1>4, StaysWithin DEF GuardRestart
<1>5. ASSUME GuardTick \/ UNCHANGED GuardVars
      PROVE  Within(k)' \/ WindowOver(k)'
  <2>1. /\ records' = records /\ attempts' = attempts /\ instant \in Nat
        /\ instant' = instant \/ instant' = instant + 1
    BY <1>0, <1>5 DEF GuardTick, GuardVars, GuardInv, GuardTypeOK
  <2>2. Held(k)' = Held(k)
    BY <2>1 DEF Held
  <2>3. WindowOver(k) => WindowOver(k)'
    BY <1>t, <2>1, GuardAssumption DEF WindowOver, AbuseRecord
  <2> QED
    BY <1>0, <2>1, <2>2, <2>3 DEF Within, AllHeld
<1> QED
  BY <1>1, <1>2, <1>3, <1>4, <1>5 DEF GuardNext

\* In a window a key fails no more often than its limit and the other attempts that
\* were past the guard, for any numbers of keys and attempts.
THEOREM GuessesStayBounded == GuardSpec => []GuessesAreBounded
<1>1. GuardInit => GuessInv
  <2> SUFFICES ASSUME GuardInit
               PROVE  GuessInv
    OBVIOUS
  <2>1. GuardInv
    BY GuardStarts
  <2>2. ASSUME NEW k \in GuardKeys
        PROVE  Within(k)
    <3>1. records[k].count = 0
      BY DEF GuardInit, NoRecord
    <3> QED
      BY <3>1, HeldIsSmall, GuardAssumption DEF Within
  <2> QED
    BY <2>1, <2>2 DEF GuessInv, GuessesAreBounded, Within, Held, AllHeld
<1>2. GuessInv => GuessesAreBounded
  BY DEF GuessInv
<1> QED
  BY <1>1, <1>2, GuessInductive, PTL DEF GuardSpec

-----------------------------------------------------------------------------
(* VodCache.  Data is made while the call that fetches it is in flight, and   *)
(* no call is in flight for longer than TIMEOUT.                             *)

VodInv ==
    /\ VodTypeOK
    /\ \A c \in Calls : calls[c] # NoCall =>
          /\ calls[c].key \in VodKeys
          /\ calls[c].since <= vodTime /\ vodTime - calls[c].since <= TIMEOUT
          /\ calls[c].made # NoAnswer =>
                 calls[c].since <= calls[c].made /\ calls[c].made <= vodTime
    /\ \A k \in VodKeys : cache[k] # NoAnswer =>
          /\ cache[k].made <= cache[k].at /\ cache[k].at <= vodTime
          /\ cache[k].at - cache[k].made <= TIMEOUT
    /\ ServedIsRecent

\* The invariant is inductive.
LEMMA VodInductive == VodInv /\ [VodNext]_VodVars => VodInv'
<1> SUFFICES ASSUME VodInv, [VodNext]_VodVars
             PROVE  VodInv'
  OBVIOUS
<1> USE VodAssumption
<1> USE DEF VodInv, VodTypeOK, ServedIsRecent
<1>1. ASSUME NEW k \in VodKeys, Hit(k)
      PROVE  VodInv'
  <2>1. cache[k] \in CacheEntry /\ vodTime - cache[k].at < TTL
    BY <1>1 DEF Hit, Fresh
  <2>2. oldest' = vodTime - cache[k].made /\ UNCHANGED <<cache, vodTime, calls>>
    BY <1>1 DEF Hit
  <2>3. oldest' \in Nat /\ oldest' < TTL + TIMEOUT
    BY <2>1, <2>2, <1>1 DEF CacheEntry, Hit, Fresh
  <2> QED
    BY <2>2, <2>3
<1>2. ASSUME NEW c \in Calls, NEW k \in VodKeys, Miss(c, k)
      PROVE  VodInv'
  <2>1. [key |-> k, since |-> vodTime, made |-> NoAnswer] \in Call
    BY DEF Call
  <2>2. calls' \in [Calls -> Call]
    BY <1>2, <2>1 DEF Miss
  <2>3. \A d \in Calls : calls'[d] = IF d = c
                         THEN [key |-> k, since |-> vodTime, made |-> NoAnswer] ELSE calls[d]
    BY <1>2 DEF Miss
  <2>4. UNCHANGED <<cache, vodTime, oldest>>
    BY <1>2 DEF Miss
  <2> QED
    BY <2>2, <2>3, <2>4
<1>3. ASSUME NEW c \in Calls, ProviderAnswers(c)
      PROVE  VodInv'
  <2>1. calls[c] \in Call
    OBVIOUS
  <2>2. [calls[c] EXCEPT !.made = vodTime] \in Call
    BY <2>1 DEF Call
  <2>3. calls' \in [Calls -> Call]
    BY <1>3, <2>2 DEF ProviderAnswers
  <2>4. \A d \in Calls : calls'[d] = IF d = c THEN [calls[c] EXCEPT !.made = vodTime]
                                     ELSE calls[d]
    BY <1>3 DEF ProviderAnswers
  <2>5. UNCHANGED <<cache, vodTime, oldest>> /\ calls[c] # NoCall
    BY <1>3 DEF ProviderAnswers
  <2>6. /\ [calls[c] EXCEPT !.made = vodTime].key = calls[c].key
        /\ [calls[c] EXCEPT !.made = vodTime].since = calls[c].since
        /\ [calls[c] EXCEPT !.made = vodTime].made = vodTime
    BY <2>1 DEF Call
  <2>7. ASSUME NEW d \in Calls, calls'[d] # NoCall
        PROVE  /\ calls'[d].key \in VodKeys
               /\ calls'[d].since <= vodTime' /\ vodTime' - calls'[d].since <= TIMEOUT
               /\ calls'[d].made # NoAnswer =>
                      calls'[d].since <= calls'[d].made /\ calls'[d].made <= vodTime'
    <3>1. CASE d = c
      BY <3>1, <2>1, <2>4, <2>5, <2>6 DEF Call
    <3>2. CASE d # c
      BY <3>2, <2>4, <2>5, <2>7
    <3> QED
      BY <3>1, <3>2
  <2> QED
    BY <2>3, <2>5, <2>7
<1>4. ASSUME NEW c \in Calls, Arrives(c)
      PROVE  VodInv'
  <2> DEFINE call == calls[c]
  <2>1. call \in Call /\ call # NoCall /\ call.made \in Nat /\ call.key \in VodKeys
    BY <1>4 DEF Arrives, Call, NoCall
  <2>2. [at |-> vodTime, made |-> call.made] \in CacheEntry
    BY <2>1 DEF CacheEntry
  <2>3. vodTime - call.made \in Nat /\ vodTime - call.made <= TIMEOUT /\ call.made <= vodTime
    BY <2>1 DEF Call
  <2>4. /\ cache' = [cache EXCEPT ![call.key] = [at |-> vodTime, made |-> call.made]]
        /\ oldest' = vodTime - call.made
        /\ calls' = [calls EXCEPT ![c] = NoCall]
        /\ vodTime' = vodTime
    BY <1>4 DEF Arrives
  <2>5. NoCall \in Call
    BY DEF NoCall, Call
  <2>6. cache' \in [VodKeys -> CacheEntry \cup {NoAnswer}] /\ calls' \in [Calls -> Call]
    BY <2>1, <2>2, <2>4, <2>5
  <2>7. \A d \in Calls : calls'[d] = NoCall \/ calls'[d] = calls[d]
    BY <2>4
  <2>8. \A k \in VodKeys : cache'[k] = IF k = call.key THEN [at |-> vodTime, made |-> call.made]
                                       ELSE cache[k]
    BY <2>4
  <2> HIDE DEF call
  <2> QED
    BY <2>3, <2>4, <2>6, <2>7, <2>8
<1>5. ASSUME NEW c \in Calls, GivesUp(c)
      PROVE  VodInv'
  <2>1. NoCall \in Call
    BY DEF NoCall, Call
  <2> QED
    BY <1>5, <2>1 DEF GivesUp
<1>6. ASSUME VodTick
      PROVE  VodInv'
  BY <1>6 DEF VodTick, Call, CacheEntry, NoCall
<1>7. ASSUME UNCHANGED VodVars
      PROVE  VodInv'
  BY <1>7 DEF VodVars
<1> QED
  BY <1>1, <1>2, <1>3, <1>4, <1>5, <1>6, <1>7 DEF VodNext

LEMMA VodStarts == VodInit => VodInv
BY VodAssumption DEF VodInit, VodInv, VodTypeOK, ServedIsRecent, NoCall, Call, CacheEntry

\* What is handed out is younger than TTL plus one timeout, for any numbers of keys
\* and requests, any time to live and any timeout, however answers overtake.
THEOREM ServedStaysRecent == VodSpec => []ServedIsRecent
<1>1. VodInv => ServedIsRecent
  BY DEF VodInv
<1> QED
  BY <1>1, VodStarts, VodInductive, PTL DEF VodSpec

-----------------------------------------------------------------------------
(* ConnectionPool. *)

\* Phases and audits left stay of their types.
LEMMA PoolInductive == PoolTypeOK /\ [PoolNext]_PoolVars => PoolTypeOK'
<1> SUFFICES ASSUME PoolTypeOK, [PoolNext]_PoolVars
             PROVE  PoolTypeOK'
  OBVIOUS
<1>1. ASSUME NEW a \in Activations, PoolStep(a)
      PROVE  PoolTypeOK'
  <2>1. phase' \in [Activations -> Phases]
    BY <1>1 DEF PoolTypeOK, PoolStep, Phases, Goes, Begin, Work, Ask, Log, WaitEnds,
                PoolCommit, RollBack, PoolTimeout
  <2>2. audits' \in [Activations -> 0..2]
    <3>1. CASE Work(a)
      BY <3>1 DEF PoolTypeOK, Work
    <3> QED
      BY <1>1, <3>1 DEF PoolTypeOK, PoolStep, Begin, Ask, Log, WaitEnds, PoolCommit, RollBack,
                        PoolTimeout
  <2> QED
    BY <2>1, <2>2 DEF PoolTypeOK
<1> QED
  BY <1>1 DEF PoolNext, PoolVars, PoolTypeOK

LEMMA PoolStarts == PoolInit => PoolTypeOK
BY DEF PoolInit, PoolTypeOK, Phases

-----------------------------------------------------------------------------
(* Lists page by page. *)

PagingSpec == PagingInit /\ [][PagingNext]_PagingVars

\* The page size a list uses, and how many pages that makes.
Per == AtMost(AtLeast(IF size = 0 THEN DEFAULT_SIZE ELSE size, 1), MAX_SIZE)
Pages == TotalPages(total, Per)

\* A reader on the way has the rows of the pages walked so far, each once.
WalkInv ==
    /\ total \in 0..MaxRows /\ size \in AskedSizes
    /\ reader.page \in Nat /\ reader.more \in BOOLEAN /\ ~reader.twice
    /\ reader.page > 0 =>
          /\ reader.rows = 1..AtMost(reader.page * Per, total)
          /\ reader.page <= Pages
          /\ reader.more <=> reader.page < Pages
    /\ reader.page = 0 /\ reader.more => reader.rows = {}
    /\ reader.page = 0 /\ ~reader.more /\ total > 0 => reader.rows # {}

\* The pages hold all rows, and each but the first has some.
LEMMA PagesHoldAll ==
    ASSUME NEW rows \in Nat, NEW per \in Nat \ {0}
    PROVE  /\ TotalPages(rows, per) \in Nat \ {0}
           /\ rows <= TotalPages(rows, per) * per
           /\ \A p \in Nat : p < TotalPages(rows, per) => p * per \in Nat /\ (p = 0 \/ p * per < rows)
<1> DEFINE q == (rows + per - 1) \div per
<1>1. q \in Nat /\ rows + per - 1 \in Nat
  OBVIOUS
<1>2. q * per <= rows + per - 1 /\ rows + per - 1 < q * per + per
  OBVIOUS
<1> HIDE DEF q
<1>3. TotalPages(rows, per) = IF q < 1 THEN 1 ELSE q
  BY DEF TotalPages, AtLeast, q
<1>4. q = 0 => q * per = 0
  BY <1>1
<1>5. rows <= q * per
  BY <1>1, <1>2
<1>6. ASSUME NEW p \in Nat, p < q PROVE p * per \in Nat /\ p * per + per <= q * per
  <2>1. p * per + per = (p + 1) * per
    OBVIOUS
  <2>2. PICK d \in Nat : q = (p + 1) + d
    <3>1. q - (p + 1) \in Nat /\ q = (p + 1) + (q - (p + 1))
      BY <1>1, <1>6
    <3> QED BY <3>1
  <2>3. q * per = (p + 1) * per + d * per /\ d * per \in Nat
    BY <2>2
  <2> QED BY <2>1, <2>3
<1> QED BY <1>1, <1>2, <1>3, <1>4, <1>5, <1>6

\* A page has at least one row to offer, whatever was asked for.
LEMMA PerIsPositive == ASSUME size \in AskedSizes PROVE Per \in Nat \ {0}
BY PagingAssumption DEF Per, AtMost, AtLeast

\* The next page begins where the rows received end.
LEMMA WalkGoesOn == ASSUME WalkInv, ReadNext PROVE WalkInv'
<1> DEFINE p == reader.page
           next == [page |-> p + 1, rows |-> reader.rows \cup PageOf(p + 1, size),
                    twice |-> reader.twice \/ PageOf(p + 1, size) \cap reader.rows # {},
                    more |-> BuildPagination(p + 1, size, total).hasNext]
<1>1. p \in Nat /\ total \in Nat /\ size \in AskedSizes /\ reader.more /\ reader.more = TRUE
  BY PagingAssumption DEF WalkInv, ReadNext
<1>2. Per \in Nat \ {0}
  BY <1>1, PerIsPositive
<1>3. /\ Pages \in Nat \ {0} /\ total <= Pages * Per
      /\ \A n \in Nat : n < Pages => n * Per \in Nat /\ (n = 0 \/ n * Per < total)
  BY <1>1, <1>2, PagesHoldAll DEF Pages
<1>4. p < Pages
  BY <1>1, <1>3 DEF WalkInv
<1>5. p * Per \in Nat /\ (p = 0 \/ p * Per < total) /\ (p + 1) * Per = p * Per + Per
  <2>1. p * Per \in Nat /\ (p = 0 \/ p * Per < total)
    BY <1>1, <1>3, <1>4
  <2>2. \A a, c \in Nat : (a + 1) * c = a * c + c
    OBVIOUS
  <2> QED BY <1>1, <1>2, <2>1, <2>2
<1>6. /\ PageOf(p + 1, size) = (p * Per + 1)..AtMost((p + 1) * Per, total)
      /\ BuildPagination(p + 1, size, total).hasNext = (p + 1 < Pages)
  <2> DEFINE bp == BuildPagination(p + 1, size, total)
             at == AtMost(AtLeast(IF p + 1 = 0 THEN 1 ELSE p + 1, 1), Pages)
  <2>1. at = p + 1
    BY <1>1, <1>3, <1>4 DEF AtMost, AtLeast
  <2>2. bp = [page |-> at, pageSize |-> Per, totalPages |-> Pages, offset |-> (at - 1) * Per,
              hasNext |-> at < Pages]
    BY DEF BuildPagination, Per, Pages
  <2> HIDE DEF at
  <2>3. bp.offset = (at - 1) * Per /\ bp.pageSize = Per /\ bp.hasNext = (at < Pages)
    BY <2>2
  <2> HIDE DEF bp
  <2>4. PageOf(p + 1, size) = (bp.offset + 1)..AtMost(bp.offset + bp.pageSize, total)
    BY DEF PageOf, bp
  <2>5. at - 1 = p
    BY <1>1, <2>1
  <2>6. bp.offset = p * Per /\ bp.offset + bp.pageSize = (p + 1) * Per
    BY <1>5, <2>3, <2>5
  <2> QED BY <2>1, <2>3, <2>4, <2>6 DEF bp
<1>7. reader' = next /\ UNCHANGED <<total, size>>
  BY DEF ReadNext
<1>8. /\ next.page = p + 1 /\ next.rows = reader.rows \cup PageOf(p + 1, size)
      /\ next.twice = (reader.twice \/ PageOf(p + 1, size) \cap reader.rows # {})
      /\ next.more = BuildPagination(p + 1, size, total).hasNext
  OBVIOUS
<1> HIDE DEF next
<1>9. reader.rows = IF p = 0 THEN {} ELSE 1..(p * Per)
  <2>1. p > 0 => AtMost(p * Per, total) = p * Per
    BY <1>1, <1>5 DEF AtMost
  <2>2. p = 0 => reader.rows = {}
    BY <1>1 DEF WalkInv
  <2>3. p > 0 => reader.rows = 1..AtMost(p * Per, total)
    BY DEF WalkInv
  <2>4. p > 0 => reader.rows = 1..(p * Per)
    BY <2>1, <2>3
  <2>5. p = 0 \/ p > 0
    BY <1>1
  <2> QED BY <2>2, <2>4, <2>5
<1>10. p = 0 => p * Per = 0
  BY <1>2
<1> DEFINE b == p * Per
           e == AtMost((p + 1) * Per, total)
<1>11. b \in Nat /\ e \in Nat /\ (p = 0 => b = 0) /\ (p # 0 => b < e)
  BY <1>1, <1>2, <1>5, <1>10 DEF AtMost
<1>12. reader.rows = 1..b /\ PageOf(p + 1, size) = (b + 1)..e
  BY <1>6, <1>9, <1>11
<1> HIDE DEF b, e
<1>13. (1..b) \cup ((b + 1)..e) = 1..e /\ (1..b) \cap ((b + 1)..e) = {}
  BY <1>11
<1>14. next.rows = 1..e /\ ~next.twice
  BY <1>8, <1>12, <1>13 DEF WalkInv
<1>15. next.page \in Nat /\ next.page > 0 /\ next.page <= Pages
  BY <1>1, <1>3, <1>4, <1>8
<1>16. next.more = (next.page < Pages) /\ next.more \in BOOLEAN
  <2>1. next.more = (p + 1 < Pages)
    BY <1>6, <1>8
  <2>2. (p + 1 < Pages) \in BOOLEAN
    OBVIOUS
  <2> QED BY <1>8, <2>1, <2>2
<1>17. Per' = Per /\ Pages' = Pages
  BY <1>7 DEF Per, Pages
<1>18. next.rows = 1..AtMost(next.page * Per, total)
  BY <1>8, <1>14 DEF e
<1>19. /\ total' = total /\ size' = size /\ reader'.page = next.page /\ reader'.rows = next.rows
       /\ reader'.twice = next.twice /\ reader'.more = next.more
  BY <1>7
<1> HIDE DEF p
<1>20. total' \in 0..MaxRows /\ size' \in AskedSizes
  BY <1>19 DEF WalkInv
<1>21. reader'.page \in Nat /\ reader'.more \in BOOLEAN /\ ~reader'.twice /\ reader'.page # 0
  BY <1>14, <1>15, <1>16, <1>19
<1>22. /\ reader'.rows = 1..AtMost(reader'.page * Per', total')
       /\ reader'.page <= Pages' /\ (reader'.more <=> reader'.page < Pages')
  BY <1>15, <1>16, <1>17, <1>18, <1>19
<1> QED BY <1>20, <1>21, <1>22 DEF WalkInv

\* A page out of range is answered with the page at that end.
LEMMA AnyPageHasRows == ASSUME WalkInv, ReadAny PROVE WalkInv'
<1>1. PICK page \in AskedPages :
          reader' = [page |-> 0, rows |-> PageOf(page, size), twice |-> FALSE, more |-> FALSE]
  BY DEF ReadAny
<1>2. total \in Nat /\ size \in AskedSizes /\ UNCHANGED <<total, size>> /\ page \in Int
  BY PagingAssumption DEF WalkInv, ReadAny
<1>3. Per \in Nat \ {0}
  BY <1>2, PerIsPositive
<1>4. /\ Pages \in Nat \ {0}
      /\ \A n \in Nat : n < Pages => n * Per \in Nat /\ (n = 0 \/ n * Per < total)
  BY <1>2, <1>3, PagesHoldAll DEF Pages
<1> DEFINE at == AtMost(AtLeast(IF page = 0 THEN 1 ELSE page, 1), Pages)
           bp == BuildPagination(page, size, total)
<1>5. at \in 1..Pages
  BY <1>2, <1>4 DEF AtMost, AtLeast
<1>6. bp = [page |-> at, pageSize |-> Per, totalPages |-> Pages, offset |-> (at - 1) * Per,
            hasNext |-> at < Pages]
  BY DEF BuildPagination, Per, Pages
<1> HIDE DEF at
<1>7. bp.offset = (at - 1) * Per /\ bp.pageSize = Per
  BY <1>6
<1> HIDE DEF bp
<1>8. PageOf(page, size) = (bp.offset + 1)..AtMost(bp.offset + bp.pageSize, total)
  BY DEF PageOf, bp
<1>9. at - 1 \in Nat /\ at - 1 < Pages
  BY <1>4, <1>5
<1>10. (at - 1) * Per \in Nat /\ (at - 1 = 0 \/ (at - 1) * Per < total)
  BY <1>4, <1>9
<1> DEFINE b == (at - 1) * Per
<1>11. b \in Nat /\ (total > 0 => b < total)
  <2>1. at - 1 = 0 => b = 0
    BY <1>3
  <2> QED BY <1>2, <1>10, <2>1
<1> HIDE DEF b
<1>12. total > 0 => b + 1 \in PageOf(page, size)
  BY <1>2, <1>3, <1>7, <1>8, <1>11 DEF AtMost, b
<1>13. /\ reader'.page = 0 /\ reader'.rows = PageOf(page, size)
       /\ reader'.twice = FALSE /\ reader'.more = FALSE
  BY <1>1
<1>14. total' \in 0..MaxRows /\ size' \in AskedSizes /\ total' = total
  BY <1>2 DEF WalkInv
<1>15. /\ reader'.page \in Nat /\ ~(reader'.page > 0) /\ reader'.more \in BOOLEAN
       /\ ~reader'.twice /\ ~reader'.more
  <2>1. FALSE \in BOOLEAN
    OBVIOUS
  <2>2. reader'.page = 0
    BY <1>13
  <2>3. reader'.page \in Nat /\ ~(reader'.page > 0)
    BY <2>2
  <2>4. reader'.more \in BOOLEAN /\ ~reader'.twice /\ ~reader'.more
    BY <1>13, <2>1
  <2> QED BY <2>3, <2>4
<1>16. total' > 0 => reader'.rows # {}
  BY <1>12, <1>13, <1>14
<1> QED BY <1>14, <1>15, <1>16 DEF WalkInv

\* The walk keeps the invariant.
LEMMA WalkInductive == WalkInv /\ [PagingNext]_PagingVars => WalkInv'
<1> SUFFICES ASSUME WalkInv, [PagingNext]_PagingVars
             PROVE  WalkInv'
  OBVIOUS
<1>1. CASE PagingNext
  BY <1>1, WalkGoesOn, AnyPageHasRows DEF PagingNext
<1>2. CASE UNCHANGED PagingVars
  BY <1>2 DEF PagingVars, WalkInv, Per, Pages
<1> QED BY <1>1, <1>2

LEMMA WalkStarts == PagingInit => WalkInv
BY DEF PagingInit, WalkInv

\* A reader who follows the pages of a table that does not change receives every row
\* once, and a page out of range has rows whenever there are any: for any numbers of
\* rows and any sizes and pages asked for (buildPagination).
THEOREM WalksSeeAll == PagingSpec => []WalkSeesAll
<1>1. ASSUME WalkInv PROVE WalkSeesAll
  <2>1. total \in Nat /\ size \in AskedSizes /\ reader.page \in Nat
    BY <1>1, PagingAssumption DEF WalkInv
  <2>2. Per \in Nat \ {0} /\ Pages \in Nat \ {0} /\ total <= Pages * Per
    BY <2>1, PerIsPositive, PagesHoldAll DEF Pages
  <2>3. ASSUME ~reader.more, reader.page > 0 PROVE reader.rows = 1..total
    <3>1. reader.page = Pages /\ reader.rows = 1..AtMost(reader.page * Per, total)
      BY <1>1, <2>1, <2>2, <2>3 DEF WalkInv
    <3>2. Pages * Per \in Nat
      BY <2>2
    <3>3. AtMost(Pages * Per, total) = total
      BY <2>1, <2>2, <3>2 DEF AtMost
    <3> QED BY <3>1, <3>3
  <2>4. ASSUME ~reader.more, ~(reader.page > 0) PROVE total > 0 => reader.rows # {}
    BY <1>1, <2>1, <2>4 DEF WalkInv
  <2>5. ~reader.twice
    BY <1>1 DEF WalkInv
  <2> QED BY <2>3, <2>4, <2>5 DEF WalkSeesAll
<1> QED BY <1>1, WalkStarts, WalkInductive, PTL DEF PagingSpec

\* There are no more pages than rows, but for the one of an empty table.
LEMMA PagesAreFew ==
    ASSUME NEW rows \in Nat, NEW per \in Nat \ {0}
    PROVE  TotalPages(rows, per) <= rows + 1
<1> DEFINE p == TotalPages(rows, per) - 1
<1>1. TotalPages(rows, per) \in Nat \ {0} /\ p \in Nat
  BY PagesHoldAll
<1>2. p = 0 \/ p * per < rows
  <2>1. \A n \in Nat : n < TotalPages(rows, per) => n = 0 \/ n * per < rows
    BY PagesHoldAll
  <2>2. p < TotalPages(rows, per)
    BY <1>1
  <2> HIDE DEF p
  <2> QED BY <1>1, <2>1, <2>2
<1>3. p * per \in Nat /\ p <= p * per
  <2>1. PICK d \in Nat : per = 1 + d
    <3>1. per - 1 \in Nat /\ per = 1 + (per - 1)
      OBVIOUS
    <3> QED BY <3>1
  <2> HIDE DEF p
  <2>2. p * per = p + p * d /\ p * d \in Nat
    BY <1>1, <2>1
  <2> QED BY <1>1, <2>2
<1> QED BY <1>1, <1>2, <1>3

\* A page has rows of the table and no others, whatever was asked for.
LEMMA PageIsOfRows ==
    ASSUME total \in Nat, size \in AskedSizes, NEW page \in Int
    PROVE  /\ PageOf(page, size) \subseteq 1..total
           /\ BuildPagination(page, size, total).hasNext \in BOOLEAN
<1>1. Per \in Nat \ {0}
  BY PerIsPositive
<1>2. Pages \in Nat \ {0}
  BY <1>1, PagesHoldAll DEF Pages
<1> DEFINE at == AtMost(AtLeast(IF page = 0 THEN 1 ELSE page, 1), Pages)
           bp == BuildPagination(page, size, total)
<1>3. at - 1 \in Nat
  BY <1>2 DEF AtMost, AtLeast
<1>4. bp = [page |-> at, pageSize |-> Per, totalPages |-> Pages, offset |-> (at - 1) * Per,
            hasNext |-> at < Pages]
  BY DEF BuildPagination, Per, Pages
<1> HIDE DEF at
<1>5. bp.offset = (at - 1) * Per /\ bp.pageSize = Per /\ bp.hasNext = (at < Pages)
  BY <1>4
<1> HIDE DEF bp
<1>6. PageOf(page, size) = (bp.offset + 1)..AtMost(bp.offset + bp.pageSize, total)
  BY DEF PageOf, bp
<1>7. bp.offset \in Nat
  BY <1>1, <1>3, <1>5
<1>8. PageOf(page, size) \subseteq 1..total
  BY <1>1, <1>5, <1>6, <1>7 DEF AtMost
<1>9. bp.hasNext \in BOOLEAN
  BY <1>5
<1> QED BY <1>8, <1>9 DEF bp

\* The reader's state is of its type: she never holds a row the table has not, and never
\* walks past the page after the last row.
THEOREM ReadersAreTyped == PagingSpec => []PagingTypeOK
<1>1. PagingInit => PagingTypeOK
  <2>1. 0 \in 0..(MaxRows + 1) /\ FALSE \in BOOLEAN /\ TRUE \in BOOLEAN
    BY PagingAssumption
  <2> QED BY <2>1 DEF PagingInit, PagingTypeOK
<1>2. WalkInv /\ PagingTypeOK /\ [PagingNext]_PagingVars => PagingTypeOK'
  <2> SUFFICES ASSUME WalkInv, PagingTypeOK, [PagingNext]_PagingVars
               PROVE  PagingTypeOK'
    OBVIOUS
  <2>0. /\ total \in Nat /\ total <= MaxRows /\ MaxRows \in Nat /\ size \in AskedSizes
        /\ UNCHANGED <<total, size>>
    BY PagingAssumption DEF PagingTypeOK, PagingNext, ReadNext, ReadAny, PagingVars
  <2>1. CASE ReadNext
    <3> DEFINE p == reader.page
    <3>1. p \in Nat
      BY DEF PagingTypeOK
    <3>2. /\ PageOf(p + 1, size) \subseteq 1..MaxRows
          /\ BuildPagination(p + 1, size, total).hasNext \in BOOLEAN
      BY <2>0, <3>1, PageIsOfRows
    <3>3. p + 1 \in 0..(MaxRows + 1)
      <4>1. WalkInv'
        BY <2>1, WalkGoesOn
      <4>2. reader'.page = p + 1 /\ Pages' = Pages
        BY <2>0, <2>1 DEF ReadNext, Pages, Per
      <4>3. p + 1 <= Pages
        BY <3>1, <4>1, <4>2 DEF WalkInv
      <4>4. Pages \in Nat /\ Pages <= total + 1
        BY <2>0, PerIsPositive, PagesHoldAll, PagesAreFew DEF Pages
      <4> QED BY <2>0, <3>1, <4>3, <4>4
    <3>4. (reader.twice \/ PageOf(p + 1, size) \cap reader.rows # {}) \in BOOLEAN
      BY DEF PagingTypeOK
    <3>5. reader.rows \cup PageOf(p + 1, size) \in SUBSET (1..MaxRows)
      BY <3>2 DEF PagingTypeOK
    <3> QED BY <2>0, <2>1, <3>2, <3>3, <3>4, <3>5 DEF ReadNext, PagingTypeOK
  <2>2. CASE ReadAny
    <3>1. PICK page \in AskedPages :
              reader' = [page |-> 0, rows |-> PageOf(page, size), twice |-> FALSE, more |-> FALSE]
      BY <2>2 DEF ReadAny
    <3>2. PageOf(page, size) \subseteq 1..MaxRows
      BY <2>0, PageIsOfRows, PagingAssumption
    <3>3. 0 \in 0..(MaxRows + 1) /\ FALSE \in BOOLEAN
      BY <2>0
    <3> QED BY <2>0, <3>1, <3>2, <3>3 DEF PagingTypeOK
  <2>3. CASE UNCHANGED PagingVars
    BY <2>3 DEF PagingVars, PagingTypeOK
  <2> QED BY <2>1, <2>2, <2>3 DEF PagingNext
<1> QED BY <1>1, <1>2, WalkStarts, WalkInductive, PTL DEF PagingSpec

-----------------------------------------------------------------------------
(* Guide.  A sync deletes and fills what it fetched and found relevant.      *)

\* What is fetched is told by the source and relevant until it is deleted for: no slot
\* passes meanwhile.
FetchedIsRelevant ==
    \A g \in GuideSyncs : guideJobs[g].pc = "delete" =>
        /\ guideJobs[g].rows = {}
        /\ \A e \in guideJobs[g].relevant : e[2] + 1 >= slot

GuideInv == GuideTypeOK /\ FetchedIsRelevant

\* An idle job is a job.
LEMMA NoGuideJobIsJob == NoGuideJob \in GuideJob
BY DEF NoGuideJob, GuideJob

\* The rows of a sync are slots of channels.
LEMMA RowsAreRows ==
    ASSUME NEW relevant
    PROVE  RowsFor(relevant) \in SUBSET (GuideChannels \X Slots)
BY DEF RowsFor

\* A step of one job leaves the others as they are.
LEMMA OneJobGoes ==
    ASSUME GuideTypeOK, NEW g \in GuideSyncs, NEW job \in GuideJob, GuideGoes(g, job)
    PROVE  /\ guideJobs' \in [GuideSyncs -> GuideJob]
           /\ guideJobs'[g] = job
           /\ \A h \in GuideSyncs \ {g} : guideJobs'[h] = guideJobs[h]
BY DEF GuideTypeOK, GuideGoes

-----------------------------------------------------------------------------
(* The jobs, whatever number of them overlap. *)

\* Types and what a fetching job knows are kept.
LEMMA GuideInductive == GuideInv /\ [GuideNext]_GuideVars => GuideInv'
<1> SUFFICES ASSUME GuideInv, [GuideNext]_GuideVars
             PROVE  GuideInv'
  OBVIOUS
<1> USE GuideAssumption
<1>0. GuideTypeOK /\ FetchedIsRelevant /\ slot \in Nat /\ slot \in Slots
  BY DEF GuideInv, GuideTypeOK, Slots
<1>1. ASSUME NEW g \in GuideSyncs, FetchGuide(g)
      PROVE  GuideInv'
  <2>1. PICK entries \in SUBSET Entries :
            GuideGoes(g, [pc |-> "delete", relevant |-> {e \in entries : Relevant(e)},
                          rows |-> {}])
    BY <1>1 DEF FetchGuide
  <2> DEFINE told == {e \in entries : Relevant(e)}
             job == [pc |-> "delete", relevant |-> told, rows |-> {}]
  <2>a. told \in SUBSET Entries /\ \A e \in told : e[2] + 1 >= slot
    BY DEF Relevant
  <2>b. GuideGoes(g, job)
    BY <2>1
  <2> HIDE DEF told
  <2>2. job \in GuideJob
    BY <2>a DEF GuideJob
  <2>3. \A e \in job.relevant : e[2] + 1 >= slot
    BY <2>a
  <2>4. job.pc = "delete" /\ job.rows = {}
    OBVIOUS
  <2> HIDE DEF job
  <2>5. /\ guideJobs' \in [GuideSyncs -> GuideJob] /\ guideJobs'[g] = job
        /\ \A h \in GuideSyncs \ {g} : guideJobs'[h] = guideJobs[h]
    BY <1>0, <2>b, <2>2, OneJobGoes
  <2>6. programs' = programs /\ slot' = slot /\ mixed' = mixed
    BY <1>1 DEF FetchGuide
  <2> QED
    BY <1>0, <2>3, <2>4, <2>5, <2>6 DEF GuideInv, GuideTypeOK, FetchedIsRelevant
<1>2. ASSUME NEW g \in GuideSyncs, DeleteGuide(g)
      PROVE  GuideInv'
  <2> DEFINE job == [pc |-> "create", relevant |-> {}, rows |-> RowsFor(guideJobs[g].relevant)]
  <2>1. job \in GuideJob /\ job.pc = "create"
    BY <1>0, RowsAreRows DEF GuideTypeOK, GuideJob
  <2>2. GuideGoes(g, job) /\ slot' = slot
    BY <1>2 DEF DeleteGuide
  <2> HIDE DEF job
  <2>3. /\ guideJobs' \in [GuideSyncs -> GuideJob] /\ guideJobs'[g] = job
        /\ \A h \in GuideSyncs \ {g} : guideJobs'[h] = guideJobs[h]
    BY <1>0, <2>1, <2>2, OneJobGoes
  <2>4. programs' \in [GuideChannels -> [Slots -> 0..MaxCopies]]
    BY <1>0, <1>2 DEF DeleteGuide, GuideTypeOK
  <2>5. mixed' \subseteq GuideChannels
    BY <1>0, <1>2 DEF DeleteGuide, GuideTypeOK, Mapped
  <2> QED
    BY <1>0, <2>1, <2>2, <2>3, <2>4, <2>5 DEF GuideInv, GuideTypeOK, FetchedIsRelevant
<1>3. ASSUME NEW g \in GuideSyncs, CreateRows(g)
      PROVE  GuideInv'
  <2>1. PICK batch \in SUBSET guideJobs[g].rows :
            /\ \A row \in batch : programs[row[1]][row[2]] < MaxCopies
            /\ programs' = [c \in GuideChannels |-> [s \in Slots |->
                               programs[c][s] + IF <<c, s>> \in batch THEN 1 ELSE 0]]
            /\ GuideGoes(g, IF batch = guideJobs[g].rows THEN NoGuideJob
                            ELSE [guideJobs[g] EXCEPT !.rows = @ \ batch])
    BY <1>3 DEF CreateRows
  <2> DEFINE job == IF batch = guideJobs[g].rows THEN NoGuideJob
                    ELSE [guideJobs[g] EXCEPT !.rows = @ \ batch]
  <2>2. guideJobs[g] \in GuideJob /\ guideJobs[g].pc = "create"
    BY <1>0, <1>3 DEF GuideTypeOK, CreateRows
  <2>3. job \in GuideJob /\ job.pc # "delete"
    BY <2>2, NoGuideJobIsJob DEF GuideJob, NoGuideJob
  <2>4. GuideGoes(g, job) /\ slot' = slot /\ mixed' = mixed
    BY <1>3, <2>1 DEF CreateRows
  <2> HIDE DEF job
  <2>5. /\ guideJobs' \in [GuideSyncs -> GuideJob] /\ guideJobs'[g] = job
        /\ \A h \in GuideSyncs \ {g} : guideJobs'[h] = guideJobs[h]
    BY <1>0, <2>3, <2>4, OneJobGoes
  <2>6. ASSUME NEW c \in GuideChannels, NEW s \in Slots
        PROVE  programs[c][s] + (IF <<c, s>> \in batch THEN 1 ELSE 0) \in 0..MaxCopies
    <3>1. programs[c][s] \in 0..MaxCopies
      BY <1>0 DEF GuideTypeOK
    <3>2. <<c, s>> \in batch => programs[c][s] < MaxCopies
      BY <2>1
    <3> QED
      BY <3>1, <3>2
  <2>7. programs' \in [GuideChannels -> [Slots -> 0..MaxCopies]]
    BY <2>1, <2>6
  <2> QED
    BY <1>0, <2>3, <2>4, <2>5, <2>7 DEF GuideInv, GuideTypeOK, FetchedIsRelevant
<1>4. ASSUME NEW g \in GuideSyncs, GuideFails(g)
      PROVE  GuideInv'
  <2>1. /\ guideJobs' \in [GuideSyncs -> GuideJob] /\ guideJobs'[g] = NoGuideJob
        /\ \A h \in GuideSyncs \ {g} : guideJobs'[h] = guideJobs[h]
    BY <1>0, <1>4, NoGuideJobIsJob, OneJobGoes DEF GuideFails
  <2>2. programs' = programs /\ slot' = slot /\ mixed' = mixed /\ NoGuideJob.pc # "delete"
    BY <1>4 DEF GuideFails, NoGuideJob
  <2> QED
    BY <1>0, <2>1, <2>2 DEF GuideInv, GuideTypeOK, FetchedIsRelevant
<1>5. ASSUME GuideTick
      PROVE  GuideInv'
  BY <1>0, <1>5 DEF GuideTick, GuideInv, GuideTypeOK, FetchedIsRelevant, Slots
<1>6. ASSUME UNCHANGED GuideVars
      PROVE  GuideInv'
  BY <1>0, <1>6 DEF GuideVars, GuideInv, GuideTypeOK, FetchedIsRelevant
<1> QED
  BY <1>1, <1>2, <1>3, <1>4, <1>5, <1>6 DEF GuideNext

\* The invariant holds at the start.
LEMMA GuideStarts == GuideInit => GuideInv
BY GuideAssumption, NoGuideJobIsJob
   DEF GuideInit, GuideInv, GuideTypeOK, FetchedIsRelevant, Slots, NoGuideJob

-----------------------------------------------------------------------------
(* Filling.  The rows a sync still has to write into a channel that is not    *)
(* mixed are not there yet, and no other sync writes into that channel.        *)

Pending(g, c) == {row \in guideJobs[g].rows : row[1] = c}

FilledByOne ==
    \A c \in GuideChannels \ mixed :
        /\ \A s \in Slots : programs[c][s] <= 1
        /\ \A g \in GuideSyncs : \A row \in Pending(g, c) : programs[c][row[2]] = 0
        /\ \A g, h \in GuideSyncs : Pending(g, c) # {} /\ Pending(h, c) # {} => g = h

FillInv == GuideInv /\ FilledByOne

\* The deletion empties every channel the sync has rows for.
LEMMA RowsAreOfMapped ==
    ASSUME NEW relevant, NEW row \in RowsFor(relevant)
    PROVE  row[1] \in Mapped(relevant) /\ row[1] \in GuideChannels /\ row[2] \in Slots
BY DEF RowsFor, Mapped

\* Jobs that lose rows and programmes that stay keep what is known.
LEMMA FewerRowsFill ==
    ASSUME FilledByOne, programs' = programs, mixed' = mixed,
           \A g \in GuideSyncs : guideJobs'[g].rows \subseteq guideJobs[g].rows
    PROVE  FilledByOne'
<1>1. \A g \in GuideSyncs : \A c : Pending(g, c)' \subseteq Pending(g, c)
  BY DEF Pending
<1> QED
  BY <1>1 DEF FilledByOne

\* A deletion empties its channels, and marks those another sync is filling.
LEMMA DeletionFills ==
    ASSUME FillInv, NEW g \in GuideSyncs, DeleteGuide(g)
    PROVE  FilledByOne'
<1> DEFINE told == Mapped(guideJobs[g].relevant)
<1>1. /\ guideJobs \in [GuideSyncs -> GuideJob] /\ guideJobs[g].pc = "delete"
      /\ guideJobs[g].rows = {} /\ FilledByOne
  BY DEF FillInv, GuideInv, GuideTypeOK, FetchedIsRelevant, DeleteGuide
<1>2. /\ guideJobs'[g].rows = RowsFor(guideJobs[g].relevant)
      /\ \A h \in GuideSyncs \ {g} : guideJobs'[h].rows = guideJobs[h].rows
  BY <1>1 DEF DeleteGuide, GuideGoes, GuideJob
<1>3. mixed' = (mixed \ told) \cup (told \cap BeingFilled(g))
  BY DEF DeleteGuide
<1>4. /\ \A c \in told, s \in Slots : programs'[c][s] = 0
      /\ \A c \in GuideChannels \ told : programs'[c] = programs[c]
      /\ told \subseteq GuideChannels
  BY DEF DeleteGuide, Mapped
<1>5. \A h \in GuideSyncs \ {g} : \A c : Pending(h, c)' = Pending(h, c)
  BY <1>2 DEF Pending
<1>6. \A row \in guideJobs'[g].rows : row[1] \in told /\ row[2] \in Slots
  BY <1>2, RowsAreOfMapped
<1> HIDE DEF told
<1>7. ASSUME NEW c \in GuideChannels, c \notin mixed', c \in told
      PROVE  /\ \A s \in Slots : programs'[c][s] <= 1
             /\ \A h \in GuideSyncs : \A row \in Pending(h, c)' : programs'[c][row[2]] = 0
             /\ \A h \in GuideSyncs \ {g} : Pending(h, c)' = {}
  <2>1. \A h \in GuideSyncs \ {g} : Pending(h, c)' = {}
    BY <1>3, <1>5, <1>7 DEF BeingFilled, Pending
  <2>2. \A row \in Pending(g, c)' : row[2] \in Slots
    BY <1>6 DEF Pending
  <2> QED
    BY <1>4, <1>7, <2>1, <2>2
<1>8. ASSUME NEW c \in GuideChannels, c \notin mixed', c \notin told
      PROVE  /\ \A s \in Slots : programs'[c][s] <= 1
             /\ \A h \in GuideSyncs : \A row \in Pending(h, c)' : programs'[c][row[2]] = 0
             /\ \A h, k \in GuideSyncs : Pending(h, c)' # {} /\ Pending(k, c)' # {} => h = k
  <2>1. c \notin mixed /\ programs'[c] = programs[c]
    BY <1>3, <1>4, <1>8
  <2>2. Pending(g, c)' = {}
    BY <1>6, <1>8 DEF Pending
  <2> QED
    BY <1>1, <1>5, <2>1, <2>2 DEF FilledByOne
<1> QED
  BY <1>7, <1>8 DEF FilledByOne

\* A batch fills slots of a channel that were empty, and is not written again.
LEMMA BatchFills ==
    ASSUME FillInv, NEW g \in GuideSyncs, CreateRows(g)
    PROVE  FilledByOne'
<1>1. PICK batch \in SUBSET guideJobs[g].rows :
          /\ programs' = [c \in GuideChannels |-> [s \in Slots |->
                             programs[c][s] + IF <<c, s>> \in batch THEN 1 ELSE 0]]
          /\ GuideGoes(g, IF batch = guideJobs[g].rows THEN NoGuideJob
                          ELSE [guideJobs[g] EXCEPT !.rows = @ \ batch])
  BY DEF CreateRows
<1>2. /\ guideJobs \in [GuideSyncs -> GuideJob] /\ mixed' = mixed /\ FilledByOne
      /\ programs \in [GuideChannels -> [Slots -> 0..MaxCopies]]
      /\ guideJobs[g].rows \subseteq GuideChannels \X Slots
  BY DEF FillInv, GuideInv, GuideTypeOK, CreateRows, GuideJob
<1>3. /\ guideJobs'[g].rows = guideJobs[g].rows \ batch
      /\ \A h \in GuideSyncs \ {g} : guideJobs'[h] = guideJobs[h]
  BY <1>1, <1>2 DEF GuideGoes, NoGuideJob, GuideJob
<1>4. ASSUME NEW c \in GuideChannels \ mixed, NEW s \in Slots
      PROVE  /\ programs'[c][s] = programs[c][s] + IF <<c, s>> \in batch THEN 1 ELSE 0
             /\ programs'[c][s] <= 1
  <2>1. programs[c][s] \in 0..MaxCopies /\ programs[c][s] <= 1
    BY <1>2 DEF FilledByOne
  <2>2. <<c, s>> \in batch => <<c, s>> \in Pending(g, c)
    BY DEF Pending
  <2>3. <<c, s>> \in batch => programs[c][s] = 0
    BY <1>2, <2>2 DEF FilledByOne
  <2> QED
    BY <1>1, <2>1, <2>3
<1>5. \A h \in GuideSyncs : \A c : Pending(h, c)' \subseteq Pending(h, c)
  BY <1>3 DEF Pending
<1>6. ASSUME NEW c \in GuideChannels \ mixed, NEW h \in GuideSyncs, NEW row \in Pending(h, c)'
      PROVE  programs'[c][row[2]] = 0
  <2>1. row \in Pending(h, c) /\ row[1] = c /\ row \in guideJobs[h].rows
    BY <1>5 DEF Pending
  <2>2. programs[c][row[2]] = 0
    BY <1>2, <2>1 DEF FilledByOne
  <2>3. row = <<c, row[2]>> /\ row[2] \in Slots
    BY <1>2, <2>1 DEF GuideJob
  <2>4. row \notin batch
    <3>1. CASE h = g
      BY <1>3, <3>1 DEF Pending
    <3>2. CASE h # g
      <4>1. Pending(g, c) = {}
        BY <1>2, <2>1, <3>2 DEF FilledByOne
      <4> QED
        BY <2>1, <4>1 DEF Pending
    <3> QED
      BY <3>1, <3>2
  <2>5. <<c, row[2]>> \notin batch
    BY <2>3, <2>4
  <2>6. programs'[c][row[2]] = programs[c][row[2]] + 0
    BY <1>4, <2>3, <2>5
  <2> QED
    BY <2>2, <2>6
<1>7. \A c \in GuideChannels \ mixed : \A h, k \in GuideSyncs :
          Pending(h, c)' # {} /\ Pending(k, c)' # {} => h = k
  BY <1>2, <1>5 DEF FilledByOne
<1>8. \A c \in GuideChannels \ mixed, s \in Slots : programs'[c][s] <= 1
  BY <1>4
<1> QED
  BY <1>2, <1>6, <1>7, <1>8 DEF FilledByOne

\* The invariant of filling is inductive, however many syncs overlap.
LEMMA FillInductive == FillInv /\ [GuideNext]_GuideVars => FillInv'
<1> SUFFICES ASSUME FillInv, [GuideNext]_GuideVars
             PROVE  FilledByOne'
  BY GuideInductive DEF FillInv
<1>0. FilledByOne /\ guideJobs \in [GuideSyncs -> GuideJob]
  BY DEF FillInv, GuideInv, GuideTypeOK
<1>1. ASSUME NEW g \in GuideSyncs, FetchGuide(g) \/ GuideFails(g)
      PROVE  FilledByOne'
  <2>1. \A h \in GuideSyncs : guideJobs'[h].rows \subseteq guideJobs[h].rows
    BY <1>0, <1>1 DEF FetchGuide, GuideFails, GuideGoes, NoGuideJob
  <2> QED
    BY <1>0, <1>1, <2>1, FewerRowsFill DEF FetchGuide, GuideFails
<1>2. ASSUME GuideTick \/ UNCHANGED GuideVars
      PROVE  FilledByOne'
  BY <1>0, <1>2, FewerRowsFill DEF GuideTick, GuideVars
<1> QED
  BY <1>1, <1>2, DeletionFills, BatchFills DEF GuideNext

\* For any number of overlapping syncs, any catalogue, source and batch, and wherever
\* syncs fail half way: a programme is stored twice only in a channel that was emptied
\* while another sync was filling it.
THEOREM GuideIsNotDoubled == GuideSpec => []GuideNotDoubled
<1>1. GuideInit => FillInv
  BY GuideStarts DEF GuideInit, FillInv, FilledByOne, Pending, NoGuideJob
<1>2. FillInv => GuideNotDoubled
  BY DEF FillInv, FilledByOne, GuideNotDoubled
<1> QED
  BY <1>1, <1>2, FillInductive, PTL DEF GuideSpec

-----------------------------------------------------------------------------
(* Erasure. *)

\* A step that takes away the last programme of a channel without time passing is
\* the deletion of a sync that has a relevant programme of that channel.
LEMMA ErasedIsReplaced ==
    ASSUME GuideInv, [GuideNext]_GuideVars, NEW c \in GuideChannels,
           ForChannel(c) # {}, ForChannel(c)' = {}, slot' = slot
    PROVE  \E g \in GuideSyncs : \E row \in guideJobs'[g].rows :
               row[1] = c /\ row[2] + 1 >= slot
<1>1. PICK s \in Slots : programs[c][s] > 0 /\ s + 1 > slot /\ ~(programs'[c][s] > 0)
  BY DEF ForChannel
<1>2. programs \in [GuideChannels -> [Slots -> 0..MaxCopies]]
  BY DEF GuideInv, GuideTypeOK
<1>3. programs' # programs
  BY <1>1
<1>4. ASSUME NEW g \in GuideSyncs, CreateRows(g)
      PROVE  FALSE
  <2>1. PICK batch : programs' = [d \in GuideChannels |-> [t \in Slots |->
                         programs[d][t] + IF <<d, t>> \in batch THEN 1 ELSE 0]]
    BY <1>4 DEF CreateRows
  <2>2. programs'[c][s] = programs[c][s] + IF <<c, s>> \in batch THEN 1 ELSE 0
    BY <2>1
  <2> QED
    BY <1>1, <1>2, <2>2
<1>5. PICK g \in GuideSyncs : DeleteGuide(g)
  BY <1>3, <1>4 DEF GuideNext, FetchGuide, GuideFails, GuideTick, GuideVars
<1>6. c \in Mapped(guideJobs[g].relevant)
  BY <1>1, <1>5 DEF DeleteGuide
<1>7. guideJobs[g] \in GuideJob /\ guideJobs[g].pc = "delete"
  BY <1>5 DEF DeleteGuide, GuideInv, GuideTypeOK
<1>8. PICK e \in guideJobs[g].relevant : ExternalIdOf[c] = e[1]
  BY <1>6 DEF Mapped
<1>9. e \in Entries /\ e[2] + 1 >= slot
  BY <1>7, <1>8 DEF GuideJob, GuideInv, FetchedIsRelevant
<1>10. e = <<ExternalIdOf[c], e[2]>> /\ e[2] \in Slots
  BY <1>8, <1>9 DEF Entries
<1>11. <<c, e[2]>> \in RowsFor(guideJobs[g].relevant)
  BY <1>8, <1>10 DEF RowsFor
<1>12. guideJobs'[g].rows = RowsFor(guideJobs[g].relevant)
  BY <1>5, <1>7 DEF DeleteGuide, GuideGoes, GuideInv, GuideTypeOK, GuideJob
<1> QED
  BY <1>9, <1>11, <1>12

\* However many syncs overlap, and wherever they fail, a channel loses what it would
\* show only to a sync that has other programmes for it.
THEOREM OnlyReplaced == GuideSpec => ReplacedNotErased
<1>1. GuideInv /\ [GuideNext]_GuideVars =>
          [\A c \in GuideChannels :
              ForChannel(c) # {} /\ ForChannel(c)' = {} /\ slot' = slot =>
                  \E g \in GuideSyncs : \E row \in guideJobs'[g].rows :
                      row[1] = c /\ row[2] + 1 >= slot]_GuideVars
  BY ErasedIsReplaced
<1> QED
  BY <1>1, GuideStarts, GuideInductive, PTL DEF GuideSpec, ReplacedNotErased

-----------------------------------------------------------------------------
(* All of them together: a behaviour of Services is a behaviour of each service,  *)
(* which takes its steps or stutters.                                          *)

PartSpecs ==
    GuardSpec /\ VodSpec /\ PoolSpec /\ CatalogueSpec /\ GuideSpec /\ PagingSpec

\* A step of Services is a step of one of them; the others stutter.
LEMMA PartsStep ==
    ASSUME [Next]_vars
    PROVE  /\ [GuardNext]_GuardVars /\ [VodNext]_VodVars /\ [PoolNext]_PoolVars
           /\ [CatalogueNext]_CatalogueVars /\ [GuideNext]_GuideVars /\ [PagingNext]_PagingVars
<1>1. CASE UNCHANGED vars
  BY <1>1 DEF vars
<1>2. CASE GuardNext /\ NotGuard
  BY <1>2 DEF NotGuard
<1>3. CASE VodNext /\ NotVod
  BY <1>3 DEF NotVod
<1>4. CASE PoolNext /\ NotPool
  BY <1>4 DEF NotPool
<1>5. CASE CatalogueNext /\ NotCatalogue
  BY <1>5 DEF NotCatalogue
<1>6. CASE GuideNext /\ NotGuide
  BY <1>6 DEF NotGuide
<1>7. CASE PagingNext /\ NotPaging
  BY <1>7 DEF NotPaging
<1> QED
  BY <1>1, <1>2, <1>3, <1>4, <1>5, <1>6, <1>7 DEF Next

LEMMA PartsBehave == Spec => PartSpecs
<1>1. Init => /\ GuardInit /\ VodInit /\ PoolInit
              /\ CatalogueInit /\ GuideInit /\ PagingInit
  BY DEF Init
<1>2. [Next]_vars =>
          /\ [GuardNext]_GuardVars /\ [VodNext]_VodVars /\ [PoolNext]_PoolVars
          /\ [CatalogueNext]_CatalogueVars /\ [GuideNext]_GuideVars /\ [PagingNext]_PagingVars
  BY PartsStep
<1> QED
  BY <1>1, <1>2, PTL DEF Spec, PartSpecs, GuardSpec, VodSpec, PoolSpec, CatalogueSpec,
                         GuideSpec, PagingSpec

\* The services are always in a state of their type: counters within their ranges, jobs and
\* records of the form the code that reads them takes them for, in any order of their steps.
THEOREM ServicesAreTyped == Spec => []ServicesTypeOK
<1>1. GuardInv => GuardTypeOK
  BY DEF GuardInv
<1>2. VodInv => VodTypeOK
  BY DEF VodInv
<1>4. GuideInv => GuideTypeOK
  BY DEF GuideInv
<1>5. GuardTypeOK /\ VodTypeOK /\ PoolTypeOK /\ CatalogueTypeOK /\ GuideTypeOK /\ PagingTypeOK
          => ServicesTypeOK
  BY DEF ServicesTypeOK
<1>6. GuardSpec => []GuardTypeOK
  BY <1>1, GuardStarts, GuardInductive, PTL DEF GuardSpec
<1>7. VodSpec => []VodTypeOK
  BY <1>2, VodStarts, VodInductive, PTL DEF VodSpec
<1>8. PoolSpec => []PoolTypeOK
  BY PoolStarts, PoolInductive, PTL DEF PoolSpec
<1>9. GuideSpec => []GuideTypeOK
  BY <1>4, GuideStarts, GuideInductive, PTL DEF GuideSpec
<1> QED
  BY <1>5, <1>6, <1>7, <1>8, <1>9, CatalogueTypes, ReadersAreTyped, PartsBehave, PTL
     DEF PartSpecs

\* Together, whichever of them runs: guesses are limited, what is served is recent, a sync
\* writes the best of what its sources gave, a walk sees all rows, and a guide sync erases
\* only what it replaces and doubles only what another was filling.
THEOREM ServicesKeepTheirWord ==
    Spec => /\ []ExhaustedIsBlocked /\ []GuessesAreBounded /\ []ServedIsRecent
            /\ []SyncKeepsBest /\ []UrlIsItsOwn /\ []WalkSeesAll
            /\ []GuideNotDoubled /\ ReplacedNotErased
BY ExhaustedStaysBlocked, GuessesStayBounded, ServedStaysRecent,
   CatalogueKeepsBest, CatalogueUrlsAreTheirOwn, WalksSeeAll, GuideIsNotDoubled, OnlyReplaced,
   PartsBehave, PTL
   DEF PartSpecs
=============================================================================
