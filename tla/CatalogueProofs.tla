-------------------------- MODULE CatalogueProofs --------------------------
(***************************************************************************)
(* What the playlist parser of M3U computes, for every playlist, and what   *)
(* the catalogue promises on top of it, for any number of sources, syncs,  *)
(* checks and workers.                                                     *)
(***************************************************************************)
EXTENDS Catalogue, Folding, FiniteSetTheorems

-----------------------------------------------------------------------------
(* dedupeChannels: one turn, then all of them. *)

\* A turn keeps a sequence of entries.
LEMMA TurnKeepsEntries ==
    ASSUME NEW E, NEW kept \in Seq(E), NEW entry \in E
    PROVE  KeepBetter(kept, entry) \in Seq(E)
<1>1. Append(kept, entry) \in Seq(E)
  OBVIOUS
<1>2. [n \in DOMAIN kept |->
          IF kept[n].id = entry.id /\ entry.rank > kept[n].rank THEN entry ELSE kept[n]] \in Seq(E)
  OBVIOUS
<1> QED
  BY <1>1, <1>2 DEF KeepBetter

\* The map after each turn of the loop.
LEMMA DedupeTurns ==
    ASSUME NEW E, NEW parsed \in Seq(E)
    PROVE  \E kept : /\ kept[0] = <<>>
                     /\ \A k \in 1..Len(parsed) : kept[k] = KeepBetter(kept[k - 1], parsed[k])
                     /\ DedupeChannels(parsed) = kept[Len(parsed)]
<1> DEFINE n == Len(parsed)
           X == Seq(E)
           empty == <<>>
           step == [p \in X \X (1..n) |-> KeepBetter(p[1], parsed[p[2]])]
<1>1. n \in Nat /\ DOMAIN parsed = 1..n
  OBVIOUS
<1>2. step \in [X \X (1..n) -> X]
  <2> SUFFICES ASSUME NEW p \in X \X (1..n)
               PROVE  KeepBetter(p[1], parsed[p[2]]) \in X
    OBVIOUS
  <2>1. p[1] \in X /\ parsed[p[2]] \in E
    OBVIOUS
  <2> QED
    BY <2>1, TurnKeepsEntries
<1>3. PICK iter \in [SUBSET (1..n) -> X] : Iterates(iter, n, empty, step)
  <2>1. empty \in X
    OBVIOUS
  <2>2. n \in Nat
    BY <1>1
  <2> HIDE DEF X, n, step, empty
  <2> QED
    BY <1>2, <2>1, <2>2, FoldExists
<1>4. \A s \in SUBSET (1..n) : s # {} =>
          step[<<iter[s \ {Max(s)}], Max(s)>>] = KeepBetter(iter[s \ {Max(s)}], parsed[Max(s)])
  <2> SUFFICES ASSUME NEW s \in SUBSET (1..n), s # {}
               PROVE  <<iter[s \ {Max(s)}], Max(s)>> \in X \X (1..n)
    OBVIOUS
  <2>1. Max(s) \in 1..n
    BY <1>1, Greatest
  <2> HIDE DEF X, n
  <2> QED
    BY <2>1
<1> DEFINE Folds(f) == f = [s \in SUBSET DOMAIN parsed |->
                            IF s = {} THEN <<>>
                            ELSE KeepBetter(f[s \ {Max(s)}], parsed[Max(s)])]
           folded == CHOOSE f : Folds(f)
<1>5. Folds(iter)
  <2> HIDE DEF step, X
  <2> QED
    BY <1>1, <1>3, <1>4 DEF Iterates
<1>6. Folds(folded)
  BY <1>5
<1>7. DedupeChannels(parsed) = folded[1..n]
  <2>1. DedupeChannels(parsed) = folded[DOMAIN parsed]
    BY DEF DedupeChannels, FoldLeft, MapThenFoldSet
  <2> QED
    BY <1>1, <2>1
<1> DEFINE kept == [k \in 0..n |-> folded[1..k]]
<1> HIDE DEF folded
<1>8. kept[0] = <<>>
  BY <1>1, <1>6, InitialSegments
<1>9. \A k \in 1..n : kept[k] = KeepBetter(kept[k - 1], parsed[k])
  <2> SUFFICES ASSUME NEW k \in 1..n
               PROVE  folded[1..k] = KeepBetter(folded[1..(k - 1)], parsed[k])
    OBVIOUS
  <2>1. 1..k \in SUBSET DOMAIN parsed
    BY <1>1
  <2>2. 1..k # {} /\ Max(1..k) = k /\ (1..k) \ {Max(1..k)} = 1..(k - 1)
    BY <1>1, InitialSegments
  <2> QED
    BY <1>6, <2>1, <2>2
<1> QED
  <2>1. kept[n] = folded[1..n]
    BY <1>1
  <2> HIDE DEF kept
  <2> QED
    BY <1>7, <1>8, <1>9, <2>1

\* BestOf for the first k entries.
BestSoFar(parsed, k, kept) ==
    /\ \A m \in 1..k : \E n \in DOMAIN kept : kept[n].id = parsed[m].id
    /\ \A m, n \in DOMAIN kept : kept[m].id = kept[n].id => m = n
    /\ \A n \in DOMAIN kept :
          \E first \in 1..k :
             /\ parsed[first] = kept[n]
             /\ \A j \in 1..k :
                   parsed[j].id = kept[n].id =>
                      \/ parsed[j].rank < kept[n].rank
                      \/ parsed[j].rank = kept[n].rank /\ j >= first

\* A turn of the loop keeps what the turns before it achieved.
LEMMA TurnKeepsBest ==
    ASSUME NEW E, \A e \in E : e.rank \in Int,
           NEW parsed \in Seq(E), NEW k \in 1..Len(parsed), NEW kept \in Seq(E),
           BestSoFar(parsed, k - 1, kept)
    PROVE  BestSoFar(parsed, k, KeepBetter(kept, parsed[k]))
<1> DEFINE e == parsed[k]
           next == KeepBetter(kept, e)
<1>1. /\ e \in E /\ \A m \in 1..k : m \in 1..(k - 1) \/ m = k
      /\ 1..(k - 1) \subseteq 1..k /\ k \in 1..k /\ k \in Nat /\ \A m \in 1..k : m \in Nat /\ m <= k
      /\ \A m \in 1..k : parsed[m].rank \in Int
      /\ \A n \in DOMAIN kept : kept[n].rank \in Int
  OBVIOUS
<1>2. CASE \E n \in DOMAIN kept : kept[n].id = e.id
  <2>1. next = [n \in DOMAIN kept |->
                   IF kept[n].id = e.id /\ e.rank > kept[n].rank THEN e ELSE kept[n]]
    BY <1>2 DEF KeepBetter
  <2> HIDE DEF next
  <2>2. DOMAIN next = DOMAIN kept /\ \A n \in DOMAIN kept : next[n].id = kept[n].id
    BY <2>1
  <2>3. \A m \in 1..k : \E n \in DOMAIN next : next[n].id = parsed[m].id
    <3> SUFFICES ASSUME NEW m \in 1..k PROVE \E n \in DOMAIN kept : kept[n].id = parsed[m].id
      BY <2>2
    <3>1. CASE m = k
      BY <1>2, <3>1
    <3>2. CASE m \in 1..(k - 1)
      BY <3>2 DEF BestSoFar
    <3> QED
      BY <1>1, <3>1, <3>2
  <2>4. \A m, n \in DOMAIN next : next[m].id = next[n].id => m = n
    BY <2>2 DEF BestSoFar
  <2>5. ASSUME NEW n \in DOMAIN next
        PROVE  \E first \in 1..k :
                  /\ parsed[first] = next[n]
                  /\ \A j \in 1..k :
                        parsed[j].id = next[n].id =>
                           \/ parsed[j].rank < next[n].rank
                           \/ parsed[j].rank = next[n].rank /\ j >= first
    <3>1. PICK first \in 1..(k - 1) :
              /\ parsed[first] = kept[n]
              /\ \A j \in 1..(k - 1) :
                    parsed[j].id = kept[n].id =>
                       \/ parsed[j].rank < kept[n].rank
                       \/ parsed[j].rank = kept[n].rank /\ j >= first
      BY <2>2 DEF BestSoFar
    <3>2. CASE kept[n].id = e.id /\ e.rank > kept[n].rank
      <4>1. next[n] = e
        BY <2>1, <2>2, <3>2
      <4>2. ASSUME NEW j \in 1..k, parsed[j].id = e.id
            PROVE  parsed[j].rank < e.rank \/ (parsed[j].rank = e.rank /\ j >= k)
        BY <1>1, <2>2, <3>1, <3>2, <4>2
      <4> QED
        BY <1>1, <4>1, <4>2
    <3>3. CASE ~(kept[n].id = e.id /\ e.rank > kept[n].rank)
      <4>1. next[n] = kept[n]
        BY <2>1, <2>2, <3>3
      <4>2. ASSUME NEW j \in 1..k, parsed[j].id = kept[n].id
            PROVE  \/ parsed[j].rank < kept[n].rank
                   \/ parsed[j].rank = kept[n].rank /\ j >= first
        <5>1. CASE j = k
          BY <1>1, <2>2, <3>1, <3>3, <4>2, <5>1
        <5>2. CASE j \in 1..(k - 1)
          BY <3>1, <4>2, <5>2
        <5> QED
          BY <1>1, <5>1, <5>2
      <4> QED
        BY <1>1, <3>1, <4>1, <4>2
    <3> QED
      BY <3>2, <3>3
  <2> QED
    BY <2>3, <2>4, <2>5 DEF BestSoFar, next
<1>3. CASE ~ \E n \in DOMAIN kept : kept[n].id = e.id
  <2> DEFINE l == Len(kept) + 1
  <2>1. next = Append(kept, e)
    BY <1>3 DEF KeepBetter
  <2> HIDE DEF next
  <2>2. /\ DOMAIN next = DOMAIN kept \cup {l} /\ l \notin DOMAIN kept
        /\ \A n \in DOMAIN kept : next[n] = kept[n]
        /\ next[l] = e
    BY <1>1, <2>1
  <2> HIDE DEF l
  <2>3. \A m \in 1..k : \E n \in DOMAIN next : next[n].id = parsed[m].id
    <3> SUFFICES ASSUME NEW m \in 1..k PROVE \E n \in DOMAIN next : next[n].id = parsed[m].id
      OBVIOUS
    <3>1. CASE m = k
      BY <2>2, <3>1
    <3>2. CASE m \in 1..(k - 1)
      <4>1. PICK n \in DOMAIN kept : kept[n].id = parsed[m].id
        BY <3>2 DEF BestSoFar
      <4>2. n \in DOMAIN next /\ next[n] = kept[n]
        BY <2>2
      <4> QED
        BY <4>1, <4>2
    <3> QED
      BY <1>1, <3>1, <3>2
  <2>4. \A m, n \in DOMAIN next : next[m].id = next[n].id => m = n
    BY <1>3, <2>2 DEF BestSoFar
  <2>5. ASSUME NEW n \in DOMAIN next
        PROVE  \E first \in 1..k :
                  /\ parsed[first] = next[n]
                  /\ \A j \in 1..k :
                        parsed[j].id = next[n].id =>
                           \/ parsed[j].rank < next[n].rank
                           \/ parsed[j].rank = next[n].rank /\ j >= first
    <3>1. CASE n = l
      <4>1. \A j \in 1..k : parsed[j].id = e.id => j = k
        BY <1>1, <1>3 DEF BestSoFar
      <4> QED
        BY <1>1, <2>2, <3>1, <4>1
    <3>2. CASE n \in DOMAIN kept
      <4>1. PICK first \in 1..(k - 1) :
                /\ parsed[first] = kept[n]
                /\ \A j \in 1..(k - 1) :
                      parsed[j].id = kept[n].id =>
                         \/ parsed[j].rank < kept[n].rank
                         \/ parsed[j].rank = kept[n].rank /\ j >= first
        BY <3>2 DEF BestSoFar
      <4>2. e.id # kept[n].id /\ next[n] = kept[n]
        BY <1>3, <2>2, <3>2
      <4> QED
        BY <1>1, <4>1, <4>2
    <3> QED
      BY <2>2, <3>1, <3>2
  <2> QED
    BY <2>3, <2>4, <2>5 DEF BestSoFar, next
<1> QED
  BY <1>2, <1>3

\* What dedupeChannels promises it does, for every list of entries.
THEOREM DedupeKeepsBest ==
    ASSUME NEW E, \A e \in E : e.rank \in Int, NEW parsed \in Seq(E)
    PROVE  DedupeChannels(parsed) \in Seq(E) /\ BestOf(parsed, DedupeChannels(parsed))
<1> DEFINE n == Len(parsed)
<1>1. n \in Nat /\ DOMAIN parsed = 1..n
  OBVIOUS
<1>2. PICK kept : /\ kept[0] = <<>>
                  /\ \A k \in 1..n : kept[k] = KeepBetter(kept[k - 1], parsed[k])
                  /\ DedupeChannels(parsed) = kept[n]
  BY DedupeTurns
<1> HIDE DEF n
<1> DEFINE S == {k \in 0..n : kept[k] \in Seq(E) /\ BestSoFar(parsed, k, kept[k])}
<1>3. 0 \in S
  <2>1. BestSoFar(parsed, 0, kept[0])
    <3>1. DOMAIN kept[0] = {} /\ 1..0 = {}
      BY <1>2
    <3> QED
      BY <3>1 DEF BestSoFar
  <2>2. kept[0] \in Seq(E) /\ 0 \in 0..n
    BY <1>1, <1>2
  <2> QED
    BY <2>1, <2>2
<1>4. ASSUME NEW k \in 0..(n - 1), k \in S
      PROVE  k + 1 \in S
  <2> DEFINE i == k + 1
  <2>1. i \in 1..n /\ k = i - 1 /\ i \in 0..n
    BY <1>1
  <2>2. kept[i] = KeepBetter(kept[i - 1], parsed[i]) /\ kept[i - 1] \in Seq(E)
        /\ BestSoFar(parsed, i - 1, kept[i - 1])
    BY <1>2, <1>4, <2>1
  <2> HIDE DEF i
  <2>3. kept[i] \in Seq(E)
    BY <1>1, <2>1, <2>2, TurnKeepsEntries
  <2>4. BestSoFar(parsed, i, kept[i])
    BY <2>1, <2>2, TurnKeepsBest DEF n
  <2> QED
    BY <2>1, <2>3, <2>4 DEF i
<1>5. n \in S
  <2> HIDE DEF S
  <2>1. n \in Nat /\ n \in 0..n
    BY <1>1
  <2>2. \A k \in 0..n : k \in S
    BY <1>3, <1>4, <2>1, Induction
  <2> QED
    BY <2>1, <2>2
<1>6. ASSUME BestSoFar(parsed, n, kept[n])
      PROVE  BestOf(parsed, kept[n])
  <2> DEFINE out == kept[n]
  <2>1. \A m \in DOMAIN parsed : \E i \in DOMAIN out : out[i].id = parsed[m].id
    BY <1>1, <1>6 DEF BestSoFar
  <2>2. \A i \in DOMAIN out : \E m \in DOMAIN parsed : out[i].id = parsed[m].id
    BY <1>1, <1>6 DEF BestSoFar
  <2>3. {parsed[m].id : m \in DOMAIN parsed} = {out[i].id : i \in DOMAIN out}
    <3> HIDE DEF out
    <3>1. {parsed[m].id : m \in DOMAIN parsed} \subseteq {out[i].id : i \in DOMAIN out}
      BY <2>1
    <3>2. {out[i].id : i \in DOMAIN out} \subseteq {parsed[m].id : m \in DOMAIN parsed}
      BY <2>2
    <3> QED
      BY <3>1, <3>2
  <2>4. \A i, j \in DOMAIN out : out[i].id = out[j].id => i = j
    BY <1>6 DEF BestSoFar
  <2>5. \A i \in DOMAIN out :
          \E first \in DOMAIN parsed :
             /\ parsed[first] = out[i]
             /\ \A j \in DOMAIN parsed :
                   parsed[j].id = out[i].id =>
                      \/ parsed[j].rank < out[i].rank
                      \/ parsed[j].rank = out[i].rank /\ j >= first
    BY <1>1, <1>6 DEF BestSoFar
  <2> QED
    BY <2>3, <2>4, <2>5 DEF BestOf
<1> QED
  BY <1>2, <1>5, <1>6

-----------------------------------------------------------------------------
(* parseM3U. *)

Declared(lines) == {ParsedChannel(lines, i) : i \in {j \in DOMAIN lines : Declares(lines, j)}}

\* A turn keeps a sequence of declared entries.
LEMMA TurnCollects ==
    ASSUME NEW lines, NEW i \in DOMAIN lines, NEW parsed \in Seq(Declared(lines))
    PROVE  Collect(lines, parsed, i) \in Seq(Declared(lines))
<1>1. CASE Declares(lines, i)
  <2> DEFINE e == ParsedChannel(lines, i)
  <2>1. e \in Declared(lines)
    BY <1>1 DEF Declared
  <2>2. Collect(lines, parsed, i) = Append(parsed, e)
    BY <1>1 DEF Collect
  <2> HIDE DEF e
  <2> QED
    BY <2>1, <2>2
<1>2. CASE ~Declares(lines, i)
  BY <1>2 DEF Collect
<1> QED
  BY <1>1, <1>2

\* The entries after each turn of the loop.
LEMMA ParseTurns ==
    ASSUME NEW L, NEW lines \in Seq(L)
    PROVE  \E parsed : /\ parsed[0] = <<>>
                       /\ \A k \in 1..Len(lines) : parsed[k] = Collect(lines, parsed[k - 1], k)
                       /\ ParseM3U(lines) = parsed[Len(lines)]
<1> DEFINE n == Len(lines)
           X == Seq(Declared(lines))
           empty == <<>>
           step == [p \in X \X (1..n) |-> Collect(lines, p[1], p[2])]
<1>1. n \in Nat /\ DOMAIN lines = 1..n
  OBVIOUS
<1>2. step \in [X \X (1..n) -> X]
  <2> SUFFICES ASSUME NEW p \in X \X (1..n)
               PROVE  Collect(lines, p[1], p[2]) \in X
    OBVIOUS
  <2> QED
    BY <1>1, TurnCollects
<1>3. PICK iter \in [SUBSET (1..n) -> X] : Iterates(iter, n, empty, step)
  <2>1. empty \in X
    OBVIOUS
  <2>2. n \in Nat
    BY <1>1
  <2> HIDE DEF X, n, step, empty
  <2> QED
    BY <1>2, <2>1, <2>2, FoldExists
<1>4. \A s \in SUBSET (1..n) : s # {} =>
          step[<<iter[s \ {Max(s)}], Max(s)>>] = Collect(lines, iter[s \ {Max(s)}], Max(s))
  <2> SUFFICES ASSUME NEW s \in SUBSET (1..n), s # {}
               PROVE  <<iter[s \ {Max(s)}], Max(s)>> \in X \X (1..n)
    OBVIOUS
  <2>1. Max(s) \in 1..n
    BY <1>1, Greatest
  <2> HIDE DEF X, n
  <2> QED
    BY <2>1
<1> DEFINE indices == [i \in DOMAIN lines |-> i]
           Folds(f) == f = [s \in SUBSET DOMAIN indices |->
                            IF s = {} THEN <<>>
                            ELSE Collect(lines, f[s \ {Max(s)}], indices[Max(s)])]
           folded == CHOOSE f : Folds(f)
<1>5. Folds(iter)
  <2>1. \A s \in SUBSET (1..n) : s # {} => indices[Max(s)] = Max(s)
    BY <1>1, Greatest
  <2>2. DOMAIN indices = 1..n
    BY <1>1
  <2> HIDE DEF step, X, indices
  <2> QED
    BY <1>3, <1>4, <2>1, <2>2 DEF Iterates
<1>6. Folds(folded)
  BY <1>5
<1>7. ParseM3U(lines) = folded[1..n]
  <2>1. ParseM3U(lines) = folded[DOMAIN indices]
    BY DEF ParseM3U, FoldLeftDomain, FoldLeft, MapThenFoldSet
  <2> QED
    BY <1>1, <2>1
<1> DEFINE parsed == [k \in 0..n |-> folded[1..k]]
<1> HIDE DEF folded
<1>8. parsed[0] = <<>>
  BY <1>1, <1>6, InitialSegments
<1>9. \A k \in 1..n : parsed[k] = Collect(lines, parsed[k - 1], k)
  <2> SUFFICES ASSUME NEW k \in 1..n
               PROVE  folded[1..k] = Collect(lines, folded[1..(k - 1)], k)
    OBVIOUS
  <2>1. 1..k \in SUBSET DOMAIN indices /\ indices[k] = k
    BY <1>1
  <2>2. 1..k # {} /\ Max(1..k) = k /\ (1..k) \ {Max(1..k)} = 1..(k - 1)
    BY <1>1, InitialSegments
  <2> HIDE DEF indices
  <2> QED
    BY <1>6, <2>1, <2>2
<1> QED
  <2>1. parsed[n] = folded[1..n]
    BY <1>1
  <2> HIDE DEF parsed
  <2> QED
    BY <1>7, <1>8, <1>9, <2>1

\* The parser returns the entries that a playlist declares, all of them and nothing else.
THEOREM ParseTakesEntries ==
    ASSUME NEW L, NEW lines \in Seq(L)
    PROVE  /\ ParseM3U(lines) \in Seq(Declared(lines))
           /\ \A i \in DOMAIN lines : Declares(lines, i) =>
                 \E m \in DOMAIN ParseM3U(lines) : ParseM3U(lines)[m] = ParsedChannel(lines, i)
<1> DEFINE n == Len(lines)
           E == Declared(lines)
<1>1. n \in Nat /\ DOMAIN lines = 1..n
  OBVIOUS
<1>2. PICK parsed : /\ parsed[0] = <<>>
                    /\ \A k \in 1..n : parsed[k] = Collect(lines, parsed[k - 1], k)
                    /\ ParseM3U(lines) = parsed[n]
  BY ParseTurns
<1> HIDE DEF n, E
<1> DEFINE Taken(k) == \A i \in 1..k : Declares(lines, i) =>
                           \E m \in DOMAIN parsed[k] : parsed[k][m] = ParsedChannel(lines, i)
           S == {k \in 0..n : parsed[k] \in Seq(E) /\ Taken(k)}
<1>3. 0 \in S
  <2>1. parsed[0] \in Seq(E) /\ 0 \in 0..n /\ 1..0 = {}
    BY <1>1, <1>2
  <2> QED
    BY <2>1
<1>4. ASSUME NEW k \in 0..(n - 1), k \in S
      PROVE  k + 1 \in S
  <2> DEFINE j == k + 1
  <2>1. j \in 1..n /\ k = j - 1 /\ j \in 0..n /\ \A i \in 1..j : i = j \/ i \in 1..k
    BY <1>1
  <2>2. parsed[j] = Collect(lines, parsed[k], j) /\ parsed[k] \in Seq(E) /\ Taken(k)
    BY <1>2, <1>4, <2>1
  <2> HIDE DEF j
  <2>3. parsed[j] \in Seq(E)
    BY <1>1, <2>1, <2>2, TurnCollects DEF E
  <2>4. ASSUME NEW i \in 1..j, Declares(lines, i)
        PROVE  \E m \in DOMAIN parsed[j] : parsed[j][m] = ParsedChannel(lines, i)
    <3>1. CASE Declares(lines, j)
      <4> DEFINE e == ParsedChannel(lines, j)
                 l == Len(parsed[k]) + 1
      <4>1. e \in E
        BY <1>1, <2>1, <3>1 DEF E, Declared
      <4>2. parsed[j] = Append(parsed[k], e)
        BY <2>2, <3>1 DEF Collect
      <4> HIDE DEF e
      <4>3. /\ l \in DOMAIN parsed[j] /\ parsed[j][l] = e
            /\ \A m \in DOMAIN parsed[k] : m \in DOMAIN parsed[j] /\ parsed[j][m] = parsed[k][m]
        BY <2>2, <4>1, <4>2
      <4>4. CASE i = j
        BY <4>3, <4>4 DEF e
      <4>5. CASE i \in 1..k
        <5>1. PICK m \in DOMAIN parsed[k] : parsed[k][m] = ParsedChannel(lines, i)
          BY <2>2, <2>4, <4>5
        <5> QED
          BY <4>3, <5>1
      <4> QED
        BY <2>1, <4>4, <4>5
    <3>2. CASE ~Declares(lines, j)
      BY <2>1, <2>2, <2>4, <3>2 DEF Collect
    <3> QED
      BY <3>1, <3>2
  <2>5. Taken(j)
    BY <2>4
  <2> QED
    BY <2>1, <2>3, <2>5 DEF j
<1>5. n \in S
  <2> HIDE DEF S
  <2>1. n \in Nat /\ n \in 0..n
    BY <1>1
  <2>2. \A k \in 0..n : k \in S
    BY <1>3, <1>4, <2>1, Induction
  <2> QED
    BY <2>1, <2>2
<1> QED
  BY <1>1, <1>2, <1>5 DEF E

-----------------------------------------------------------------------------
(* What the sources answer, put together. *)

\* The entries of several playlists, one after the other, are entries.
LEMMA FlattenKeepsEntries ==
    ASSUME NEW E, NEW seqs \in Seq(Seq(E))
    PROVE  FlattenSeq(seqs) \in Seq(E)
<1> DEFINE n == Len(seqs)
           X == Seq(E)
<1>1. n \in Nat /\ DOMAIN seqs = 1..n /\ \A i \in 1..n : seqs[i] \in X
  OBVIOUS
<1>2. \A s, t \in X : s \o t \in X
  OBVIOUS
<1>3. CASE n = 0
  <2>1. FlattenSeq(seqs) = seqs /\ seqs = <<>>
    BY <1>3 DEF FlattenSeq
  <2> QED
    BY <2>1
<1>4. CASE n # 0
  <2> DEFINE Flat(f, m) == \A i \in 1..m : f[i] = IF i = 1 THEN seqs[i] ELSE f[i - 1] \o seqs[i]
             S == {k \in 0..(n - 1) : \E f \in [1..(k + 1) -> X] : Flat(f, k + 1)}
  <2>1. n - 1 \in Nat /\ n = (n - 1) + 1
    BY <1>1, <1>4
  <2>2. 0 \in S
    <3> DEFINE f == [i \in 1..(0 + 1) |-> seqs[1]]
    <3>1. f \in [1..(0 + 1) -> X]
      BY <1>1, <1>4
    <3>2. Flat(f, 0 + 1)
      OBVIOUS
    <3> HIDE DEF f, Flat, n, X
    <3>3. \E g \in [1..(0 + 1) -> X] : Flat(g, 0 + 1)
      BY <3>1, <3>2
    <3> QED
      BY <2>1, <3>3
  <2>3. ASSUME NEW k \in 0..((n - 1) - 1), k \in S
        PROVE  k + 1 \in S
    <3> DEFINE j == k + 1
    <3>1. PICK f \in [1..j -> X] : Flat(f, j)
      BY <2>3
    <3>2. j \in 0..(n - 1) /\ j \in 1..n /\ j + 1 \in 1..n /\ j \in Nat /\ j # 0
      BY <1>1, <2>3
    <3> DEFINE g == [i \in 1..(j + 1) |-> IF i = j + 1 THEN f[j] \o seqs[i] ELSE f[i]]
    <3> HIDE DEF j, X, n
    <3>3. g \in [1..(j + 1) -> X]
      BY <1>1, <1>2, <3>2
    <3>4. Flat(g, j + 1)
      <4> SUFFICES ASSUME NEW i \in 1..(j + 1)
                   PROVE  g[i] = IF i = 1 THEN seqs[i] ELSE g[i - 1] \o seqs[i]
        OBVIOUS
      <4>1. CASE i = j + 1
        <5>1. i # 1 /\ i - 1 = j /\ j \in 1..(j + 1) /\ j # j + 1
          BY <3>2, <4>1
        <5>2. g[i] = f[j] \o seqs[i] /\ g[j] = f[j]
          BY <4>1, <5>1
        <5> QED
          BY <5>1, <5>2
      <4>2. CASE i \in 1..j
        <5>1. i # j + 1 /\ (i # 1 => i - 1 \in 1..j /\ i - 1 # j + 1 /\ i - 1 \in 1..(j + 1))
          BY <3>2, <4>2
        <5>2. g[i] = f[i] /\ (i # 1 => g[i - 1] = f[i - 1])
          BY <5>1
        <5>3. f[i] = IF i = 1 THEN seqs[i] ELSE f[i - 1] \o seqs[i]
          BY <3>1, <4>2
        <5> QED
          BY <5>2, <5>3
      <4> QED
        BY <3>2, <4>1, <4>2
    <3> HIDE DEF g, Flat
    <3>5. \E h \in [1..(j + 1) -> X] : Flat(h, j + 1)
      BY <3>3, <3>4
    <3> QED
      BY <3>2, <3>5 DEF j
  <2>4. n - 1 \in S
    <3> HIDE DEF S, n
    <3>1. \A k \in 0..(n - 1) : k \in S
      BY <2>1, <2>2, <2>3, Induction
    <3> QED
      BY <2>1, <3>1
  <2>5. PICK f \in [1..n -> X] : Flat(f, n)
    BY <2>1, <2>4
  <2> DEFINE Flattens(h) == h = [i \in 1..Len(seqs) |->
                                    IF i = 1 THEN seqs[i] ELSE h[i - 1] \o seqs[i]]
             flatten == CHOOSE h : Flattens(h)
  <2>6. Flattens(f)
    BY <2>5
  <2>7. Flattens(flatten)
    BY <2>6
  <2>8. FlattenSeq(seqs) = flatten[n]
    BY <1>4 DEF FlattenSeq
  <2> HIDE DEF flatten
  <2> DEFINE T == {k \in 0..(n - 1) : flatten[k + 1] \in X}
  <2>9. 0 \in T
    BY <1>1, <1>4, <2>7
  <2>10. ASSUME NEW k \in 0..((n - 1) - 1), k \in T
         PROVE  k + 1 \in T
    <3> DEFINE i == (k + 1) + 1
    <3>1. i \in 1..n /\ i # 1 /\ i - 1 = k + 1 /\ k + 1 \in 0..(n - 1)
      BY <1>1
    <3> HIDE DEF i
    <3>2. flatten[i] = flatten[i - 1] \o seqs[i]
      BY <2>7, <3>1
    <3> HIDE DEF X, n
    <3>3. flatten[i] \in X
      BY <1>1, <1>2, <2>10, <3>1, <3>2
    <3> QED
      BY <3>1, <3>3 DEF i
  <2>11. n - 1 \in T
    <3> HIDE DEF T, n
    <3>1. \A k \in 0..(n - 1) : k \in T
      BY <2>1, <2>9, <2>10, Induction
    <3> QED
      BY <2>1, <3>1
  <2> HIDE DEF n
  <2> QED
    BY <2>1, <2>8, <2>11
<1> QED
  BY <1>3, <1>4

\* An entry as the jobs keep it: some playlist gives its URL for its channel.
Entry == {e \in [id : Ids, country : {line.country : line \in Lines}, url : Urls, rank : 1..5] :
              Given(e.id, e.url)}

\* The URL of a declared entry is its own.
LEMMA DeclaredAreGiven ==
    ASSUME NEW list \in Playlists
    PROVE  Declared(list) \subseteq Entry
<1> SUFFICES ASSUME NEW i \in DOMAIN list, Declares(list, i)
             PROVE  ParsedChannel(list, i) \in Entry
  BY DEF Declared
<1> DEFINE below == {j \in (i + 1)..Len(list) : list[j].kind \in {"url", "extinf"}}
           j == Min(below)
<1>1. /\ list \in Seq(Lines) /\ i \in 1..Len(list) /\ list[i] \in Lines
      /\ \A k \in DOMAIN list : /\ list[k].kind \in {"extinf", "url", "comment", "blank"}
                                /\ list[k].kind = "extinf" => list[k].url = Absent
  BY PlaylistAssumption
<1>2. below # {} /\ StreamUrl(list, i) = list[j].url /\ list[j].url # Absent
  BY DEF Declares, StreamUrl
<1>3. below \in SUBSET Nat
  BY <1>1
<1>4. j \in below /\ \A k \in below : j <= k
  <2> HIDE DEF below
  <2> QED
    BY <1>2, <1>3, Least
<1> HIDE DEF j
<1>5. j \in (i + 1)..Len(list) /\ j \in DOMAIN list /\ list[j] \in Lines
  BY <1>1, <1>4
<1>6. \A k \in (i + 1)..(j - 1) : list[k].kind \in {"comment", "blank"}
  <2> SUFFICES ASSUME NEW k \in (i + 1)..(j - 1) PROVE list[k].kind \in {"comment", "blank"}
    OBVIOUS
  <2>1. k \in (i + 1)..Len(list) /\ k \in DOMAIN list /\ k < j
    BY <1>1, <1>5
  <2>2. k \notin below
    BY <1>3, <1>4, <2>1
  <2> QED
    BY <1>1, <2>1, <2>2
<1>7. list[i].kind = "extinf" /\ ExternalId(list[i]) \in Ids
  BY <1>1 DEF Declares, Ids
<1>8. Given(ExternalId(list[i]), list[j].url)
  BY <1>5, <1>6, <1>7 DEF Given
<1>9. list[j].url \in Urls
  BY <1>2, <1>5 DEF Urls
<1>10. QualityRank(list[i].quality) \in 1..5
  BY DEF QualityRank
<1> QED
  BY <1>1, <1>2, <1>7, <1>8, <1>9, <1>10 DEF ParsedChannel, Entry

\* What a source answers is parsed into such entries.
LEMMA AnswersAreEntries ==
    ASSUME NEW list \in Playlists \cup {<<>>}
    PROVE  ParseM3U(list) \in Seq(Entry)
<1>1. list \in Seq(Lines)
  <2>1. CASE list = <<>>
    BY <2>1
  <2>2. CASE list \in Playlists
    BY <2>2, PlaylistAssumption
  <2> QED
    BY <2>1, <2>2
<1>2. Declared(list) \subseteq Entry
  <2>1. CASE list = <<>>
    BY <2>1 DEF Declared
  <2> QED
    BY <2>1, DeclaredAreGiven
<1>3. ParseM3U(list) \in Seq(Declared(list))
  BY <1>1, ParseTakesEntries
<1>4. \A s \in Seq(Declared(list)) : s \in Seq(Entry)
  BY <1>2
<1> QED
  BY <1>3, <1>4

\* The merge of what all sources answer.
LEMMA CollectedAreEntries ==
    ASSUME NEW answer \in [Sources -> Playlists \cup {<<>>}]
    PROVE  FlattenSeq([n \in 1..Cardinality(Sources) |->
               ParseM3U(answer[SetToSeq(Sources)[n]])]) \in Seq(Entry)
<1> DEFINE c == Cardinality(Sources)
           order == SetToSeq(Sources)
<1>1. c \in Nat /\ ExistsBijection(1..c, Sources)
  BY CatalogueAssumption, FS_CardinalityType
<1>2. order \in [1..c -> Sources]
  <2>1. \E f \in [1..c -> Sources] : IsInjective(f)
    BY <1>1 DEF ExistsBijection, Bijection, Injection, IsInjective
  <2> QED
    BY <2>1 DEF SetToSeq
<1> HIDE DEF order
<1>3. \A n \in 1..c : ParseM3U(answer[order[n]]) \in Seq(Entry)
  BY <1>2, AnswersAreEntries
<1> HIDE DEF c
<1>4. [n \in 1..c |-> ParseM3U(answer[order[n]])] \in Seq(Seq(Entry))
  BY <1>1, <1>3
<1> QED
  BY <1>4, FlattenKeepsEntries DEF c, order

-----------------------------------------------------------------------------
(* The jobs. *)

CatalogueSpec == CatalogueInit /\ [][CatalogueNext]_CatalogueVars

SyncRow == [pc : {"new", "write", "done"}, collected : Seq(Entry), parsed : Seq(Entry), i : Nat]
CheckRow == [on : BOOLEAN, queue : SUBSET Snapshot, probing : SUBSET Probe]

\* Whatever is in the table or on its way into it is an entry of some playlist.
CatalogueInv ==
    /\ channels \in [Ids -> ChannelRow]
    /\ countries \subseteq {line.country : line \in Lines} \ {Absent}
    /\ syncs \in [Syncs -> SyncRow]
    /\ checks \in [Checks -> CheckRow]
    /\ tool \in [looked : BOOLEAN, available : BOOLEAN, installed : BOOLEAN]
    /\ crashes \in 0..MaxCrashes
    /\ SyncKeepsBest
    /\ UrlIsItsOwn

\* It says more than the type.
LEMMA CatalogueIsTyped == CatalogueInv => CatalogueTypeOK
<1> SUFFICES ASSUME CatalogueInv PROVE CatalogueTypeOK
  OBVIOUS
<1>1. ASSUME NEW s \in Syncs
      PROVE  /\ syncs[s].pc \in {"new", "write", "done"}
             /\ \A n \in DOMAIN syncs[s].parsed : syncs[s].parsed[n].id \in Ids
  <2>1. syncs[s].pc \in {"new", "write", "done"} /\ syncs[s].parsed \in Seq(Entry)
    BY DEF CatalogueInv, SyncRow
  <2>2. \A n \in DOMAIN syncs[s].parsed : syncs[s].parsed[n] \in Entry
    BY <2>1
  <2> QED
    BY <2>1, <2>2 DEF Entry
<1>2. \A c \in Checks : checks[c].queue \subseteq Snapshot /\ checks[c].probing \subseteq Probe
  BY DEF CatalogueInv, CheckRow
<1> QED
  BY <1>1, <1>2 DEF CatalogueInv, CatalogueTypeOK

\* The URL of an entry of a list, by its channel.
LEMMA EntryOf ==
    ASSUME NEW entries \in Seq(Entry), NEW id, \E n \in DOMAIN entries : entries[n].id = id
    PROVE  LET url == (CHOOSE e \in Range(entries) : e.id = id).url
           IN  url \in Urls /\ Given(id, url)
<1> DEFINE e == CHOOSE e \in Range(entries) : e.id = id
<1>1. \E x \in Range(entries) : x.id = id
  BY DEF Range
<1>2. e \in Range(entries) /\ e.id = id
  BY <1>1
<1>3. e \in Entry
  BY <1>2 DEF Range
<1> HIDE DEF e
<1>4. e.url \in Urls /\ Given(id, e.url)
  BY <1>2, <1>3 DEF Entry
<1> QED
  BY <1>4 DEF e

\* Countries of entries are countries of lines.
LEMMA CountriesAreOfLines ==
    ASSUME NEW entries \in Seq(Entry)
    PROVE  CountriesOf(entries) \subseteq {line.country : line \in Lines} \ {Absent}
<1>1. \A n \in DOMAIN entries : entries[n] \in Entry
  OBVIOUS
<1> QED
  BY <1>1 DEF CountriesOf, Entry

\* The table starts empty or as the sync of one playlist has left it.
LEMMA CatalogueStarts == CatalogueInit => CatalogueInv
<1> SUFFICES ASSUME CatalogueInit PROVE CatalogueInv
  OBVIOUS
<1>1. PICK list \in Playlists \cup {<<>>} :
          LET parsed == DedupeChannels(ParseM3U(list)) IN
          /\ channels = [id \in Ids |->
                 IF \E n \in DOMAIN parsed : parsed[n].id = id
                 THEN [NoChannel EXCEPT !.url = (CHOOSE e \in Range(parsed) : e.id = id).url]
                 ELSE NoChannel]
          /\ countries = CountriesOf(parsed)
  BY DEF CatalogueInit
<1> DEFINE parsed == DedupeChannels(ParseM3U(list))
           url(id) == (CHOOSE e \in Range(parsed) : e.id = id).url
<1>2. parsed \in Seq(Entry)
  <2>1. ParseM3U(list) \in Seq(Entry)
    BY AnswersAreEntries
  <2>2. \A e \in Entry : e.rank \in Int
    BY DEF Entry
  <2> QED
    BY <2>1, <2>2, DedupeKeepsBest
<1> HIDE DEF parsed
<1>3. \A id \in Ids : (\E n \in DOMAIN parsed : parsed[n].id = id) => url(id) \in Urls /\ Given(id, url(id))
  BY <1>2, EntryOf
<1>4. /\ channels = [id \in Ids |-> IF \E n \in DOMAIN parsed : parsed[n].id = id
                                    THEN [NoChannel EXCEPT !.url = url(id)] ELSE NoChannel]
      /\ countries = CountriesOf(parsed)
  BY <1>1 DEF parsed
<1> HIDE DEF url
<1>5. channels \in [Ids -> ChannelRow]
  BY <1>3, <1>4 DEF ChannelRow, NoChannel
<1>6. UrlIsItsOwn
  BY <1>3, <1>4 DEF UrlIsItsOwn, Row, NoChannel
<1>7. countries \subseteq {line.country : line \in Lines} \ {Absent}
  BY <1>2, <1>4, CountriesAreOfLines
<1>8. /\ syncs \in [Syncs -> SyncRow] /\ checks \in [Checks -> CheckRow]
      /\ tool \in [looked : BOOLEAN, available : BOOLEAN, installed : BOOLEAN]
      /\ crashes \in 0..MaxCrashes
  BY CatalogueAssumption DEF CatalogueInit, NoSync, SyncRow, NoCheck, CheckRow
<1>9. SyncKeepsBest
  BY DEF CatalogueInit, SyncKeepsBest, NoSync
<1> QED
  BY <1>5, <1>6, <1>7, <1>8, <1>9 DEF CatalogueInv

\* A sync that has collected nothing, before or after it ran.
LEMMA NothingCollected ==
    /\ NoSync \in SyncRow /\ [NoSync EXCEPT !.pc = "done"] \in SyncRow
    /\ NoSync.pc = "new" /\ [NoSync EXCEPT !.pc = "done"].pc = "done"
<1> DEFINE none == <<>>
           over == [NoSync EXCEPT !.pc = "done"]
<1>1. none \in Seq(Entry)
  OBVIOUS
<1>2. NoSync = [pc |-> "new", collected |-> none, parsed |-> none, i |-> 0]
      /\ over = [pc |-> "done", collected |-> none, parsed |-> none, i |-> 0]
  BY DEF NoSync
<1> HIDE DEF none, over
<1>3. NoSync \in SyncRow /\ over \in SyncRow /\ NoSync.pc = "new" /\ over.pc = "done"
  BY <1>1, <1>2 DEF SyncRow
<1> QED
  BY <1>3 DEF over

\* The entries of a batch are entries.
LEMMA ChunkIsEntries ==
    ASSUME NEW s \in Syncs, syncs[s] \in SyncRow
    PROVE  Chunk(s) \in Seq(Entry)
<1> DEFINE parsed == syncs[s].parsed
           first == syncs[s].i + 1
           last == Min({syncs[s].i + BATCH, Len(parsed)})
<1>1. parsed \in Seq(Entry) /\ Len(parsed) \in Nat /\ first \in Nat \ {0}
      /\ syncs[s].i + BATCH \in Nat
  BY CatalogueAssumption DEF SyncRow
<1>2. last \in Nat /\ last <= Len(parsed)
  <2>1. {syncs[s].i + BATCH, Len(parsed)} \in SUBSET Nat
    BY <1>1
  <2> QED
    BY <2>1, Least
<1>3. Chunk(s) = SubSeq(parsed, first, last)
  BY DEF Chunk
<1> HIDE DEF parsed, first, last
<1>4. \A k \in first..last : parsed[k] \in Entry
  BY <1>1, <1>2
<1>5. SubSeq(parsed, first, last) \in Seq(Entry)
  BY <1>1, <1>2, <1>4
<1> QED
  BY <1>3, <1>5

-----------------------------------------------------------------------------
(* Every step keeps the invariant. *)

\* The merge a sync writes is the best of what it has collected.
LEMMA FetchKeepsInv ==
    ASSUME CatalogueInv, NEW s \in Syncs, FetchSources(s)
    PROVE  CatalogueInv'
<1>1. PICK answer \in [Sources -> Playlists \cup {<<>>}] :
          LET parsed == FlattenSeq([n \in 1..Cardinality(Sources) |->
                            ParseM3U(answer[SetToSeq(Sources)[n]])])
          IN  SyncGoes(s, IF parsed = <<>> THEN [NoSync EXCEPT !.pc = "done"]
                          ELSE [pc |-> "write", collected |-> parsed,
                                parsed |-> DedupeChannels(parsed), i |-> 0])
  BY DEF FetchSources
<1> DEFINE parsed == FlattenSeq([n \in 1..Cardinality(Sources) |->
                         ParseM3U(answer[SetToSeq(Sources)[n]])])
           row == IF parsed = <<>> THEN [NoSync EXCEPT !.pc = "done"]
                  ELSE [pc |-> "write", collected |-> parsed,
                        parsed |-> DedupeChannels(parsed), i |-> 0]
<1>2. parsed \in Seq(Entry)
  BY CollectedAreEntries
<1>3. SyncGoes(s, row)
  BY <1>1
<1> HIDE DEF parsed
<1>4. DedupeChannels(parsed) \in Seq(Entry) /\ BestOf(parsed, DedupeChannels(parsed))
  <2>1. \A e \in Entry : e.rank \in Int
    BY DEF Entry
  <2> QED
    BY <1>2, <2>1, DedupeKeepsBest
<1>5. row \in SyncRow /\ (row.pc = "write" => BestOf(row.collected, row.parsed))
  BY <1>2, <1>4 DEF SyncRow, NoSync
<1> HIDE DEF row
<1>6. syncs' = [syncs EXCEPT ![s] = row] /\ syncs \in [Syncs -> SyncRow]
      /\ UNCHANGED <<channels, countries, checks, tool, crashes>>
  BY <1>3 DEF SyncGoes, FetchSources, TablesOnly, CatalogueInv
<1>7. syncs' \in [Syncs -> SyncRow]
  BY <1>5, <1>6
<1>8. SyncKeepsBest'
  BY <1>5, <1>6 DEF SyncKeepsBest, CatalogueInv
<1>9. UrlIsItsOwn'
  BY <1>6 DEF UrlIsItsOwn, Row, CatalogueInv
<1> QED
  BY <1>6, <1>7, <1>8, <1>9 DEF CatalogueInv

\* Countries written are countries of entries.
LEMMA UpsertCountryKeepsInv ==
    ASSUME CatalogueInv, NEW s \in Syncs, UpsertCountry(s)
    PROVE  CatalogueInv'
<1>1. syncs[s].parsed \in Seq(Entry)
  BY DEF CatalogueInv, SyncRow
<1>2. countries' \subseteq {line.country : line \in Lines} \ {Absent}
  <2>1. Missing(s) \subseteq {line.country : line \in Lines} \ {Absent}
    BY <1>1, CountriesAreOfLines DEF Missing
  <2> QED
    BY <2>1 DEF UpsertCountry, CatalogueInv
<1>3. UNCHANGED <<channels, syncs, checks, tool, crashes>>
  BY DEF UpsertCountry, TablesOnly
<1>4. SyncKeepsBest' /\ UrlIsItsOwn'
  BY <1>3 DEF SyncKeepsBest, UrlIsItsOwn, Row, CatalogueInv
<1> QED
  BY <1>2, <1>3, <1>4 DEF CatalogueInv

\* URLs written are URLs of entries of the same channel.
LEMMA UpsertBatchKeepsInv ==
    ASSUME CatalogueInv, NEW s \in Syncs, UpsertBatch(s)
    PROVE  CatalogueInv'
<1> DEFINE url(id) == (CHOOSE e \in Range(Chunk(s)) : e.id = id).url
<1>1. Chunk(s) \in Seq(Entry)
  BY ChunkIsEntries DEF CatalogueInv
<1>2. \A id \in Ids : (\E n \in DOMAIN Chunk(s) : Chunk(s)[n].id = id)
                          => url(id) \in Urls /\ Given(id, url(id))
  BY <1>1, EntryOf
<1>3. channels' = [id \in Ids |-> IF \E n \in DOMAIN Chunk(s) : Chunk(s)[n].id = id
                                  THEN Upserted(channels[id], url(id)) ELSE channels[id]]
  BY DEF UpsertBatch
<1> HIDE DEF url
<1>4. channels' \in [Ids -> ChannelRow]
  BY <1>2, <1>3 DEF Upserted, ChannelRow, CatalogueInv
<1>5. UrlIsItsOwn'
  <2> SUFFICES ASSUME NEW id \in Ids, Row(id)'
               PROVE  Given(id, channels'[id].url)
    BY DEF UrlIsItsOwn
  <2>1. CASE \E n \in DOMAIN Chunk(s) : Chunk(s)[n].id = id
    BY <1>2, <1>3, <2>1 DEF Upserted, ChannelRow, CatalogueInv
  <2>2. CASE ~ \E n \in DOMAIN Chunk(s) : Chunk(s)[n].id = id
    BY <1>3, <2>2 DEF UrlIsItsOwn, Row, CatalogueInv
  <2> QED
    BY <2>1, <2>2
<1>6. syncs' = [syncs EXCEPT ![s] = [syncs[s] EXCEPT !.i = @ + BATCH]]
      /\ syncs \in [Syncs -> SyncRow] /\ UNCHANGED <<countries, checks, tool, crashes>>
  BY DEF UpsertBatch, SyncGoes, TablesOnly, CatalogueInv
<1>7. syncs' \in [Syncs -> SyncRow]
  <2> DEFINE row == [syncs[s] EXCEPT !.i = @ + BATCH]
  <2>1. syncs[s] \in SyncRow /\ BATCH \in Nat
    BY <1>6, CatalogueAssumption
  <2>2. row \in SyncRow
    BY <2>1 DEF SyncRow
  <2> HIDE DEF row
  <2>3. syncs' = [syncs EXCEPT ![s] = row]
    BY <1>6 DEF row
  <2> QED
    BY <1>6, <2>2, <2>3
<1>8. SyncKeepsBest'
  BY <1>6 DEF SyncKeepsBest, CatalogueInv, SyncRow
<1> QED
  BY <1>4, <1>5, <1>6, <1>7, <1>8 DEF CatalogueInv

\* A sync that is over has nothing left to write.
LEMMA SyncEndsKeepsInv ==
    ASSUME CatalogueInv, NEW s \in Syncs, SyncEnds(s)
    PROVE  CatalogueInv'
<1>1. syncs' = [syncs EXCEPT ![s] = [NoSync EXCEPT !.pc = "done"]]
      /\ syncs \in [Syncs -> SyncRow] /\ UNCHANGED <<channels, countries, checks, tool, crashes>>
  BY DEF SyncEnds, SyncGoes, TablesOnly, CatalogueInv
<1>2. syncs' \in [Syncs -> SyncRow]
  BY <1>1, NothingCollected
<1>3. SyncKeepsBest'
  BY <1>1, NothingCollected DEF SyncKeepsBest, CatalogueInv
<1>4. UrlIsItsOwn'
  BY <1>1 DEF UrlIsItsOwn, Row, CatalogueInv
<1> QED
  BY <1>1, <1>2, <1>3, <1>4 DEF CatalogueInv

\* What a check does to its own queue and workers.
LEMMA CheckGoesKeepsInv ==
    ASSUME CatalogueInv, NEW c \in Checks, NEW check \in CheckRow, CheckGoes(c, check),
           tool' \in [looked : BOOLEAN, available : BOOLEAN, installed : BOOLEAN], NotTheTable
    PROVE  CatalogueInv'
<1>1. checks' \in [Checks -> CheckRow]
  BY DEF CheckGoes, CatalogueInv
<1>2. UNCHANGED <<channels, countries, syncs, crashes>>
  BY DEF NotTheTable
<1>3. SyncKeepsBest' /\ UrlIsItsOwn'
  BY <1>2 DEF SyncKeepsBest, UrlIsItsOwn, Row, CatalogueInv
<1> QED
  BY <1>1, <1>2, <1>3 DEF CatalogueInv

\* The snapshot holds URLs of the table, and so do the probes.
LEMMA HealthKeepsInv ==
    ASSUME CatalogueInv, NEW c \in Checks, HealthStep(c)
    PROVE  CatalogueInv'
<1>1. checks[c] \in CheckRow /\ channels \in [Ids -> ChannelRow]
      /\ tool \in [looked : BOOLEAN, available : BOOLEAN, installed : BOOLEAN]
  BY DEF CatalogueInv
<1>2. ASSUME StartCheck(c) PROVE CatalogueInv'
  <2> DEFINE check == [on |-> TRUE, probing |-> {},
                       queue |-> {[id |-> id, url |-> channels[id].url] :
                                     id \in {i \in Ids : Eligible(i)}}]
  <2>1. check \in CheckRow
    <3>1. \A id \in Ids : Eligible(id) => channels[id].url \in Urls
      BY <1>1 DEF Eligible, Row, ChannelRow
    <3> QED
      BY <3>1 DEF CheckRow, Snapshot
  <2>2. CheckGoes(c, check) /\ UNCHANGED tool /\ NotTheTable
    BY <1>2 DEF StartCheck
  <2> HIDE DEF check
  <2> QED
    BY <1>1, <2>1, <2>2, CheckGoesKeepsInv
<1>3. ASSUME TakeNext(c) PROVE CatalogueInv'
  <2>1. PICK next \in checks[c].queue :
            CheckGoes(c, [checks[c] EXCEPT
                !.queue = @ \ {next},
                !.probing = @ \cup {[id |-> next.id, url |-> next.url, stage |-> "probe"]}])
    BY <1>3 DEF TakeNext
  <2>2. next \in Snapshot
    BY <1>1 DEF CheckRow
  <2>3. [id |-> next.id, url |-> next.url, stage |-> "probe"] \in Probe
    BY <2>2 DEF Snapshot, Probe
  <2>4. [checks[c] EXCEPT
            !.queue = @ \ {next},
            !.probing = @ \cup {[id |-> next.id, url |-> next.url, stage |-> "probe"]}] \in CheckRow
    BY <1>1, <2>3 DEF CheckRow
  <2>5. UNCHANGED tool /\ NotTheTable
    BY <1>3 DEF TakeNext
  <2> QED
    BY <1>1, <2>1, <2>4, <2>5, CheckGoesKeepsInv
<1>4. ASSUME CheckEnds(c) PROVE CatalogueInv'
  <2>1. NoCheck \in CheckRow
    BY DEF NoCheck, CheckRow
  <2>2. CheckGoes(c, NoCheck) /\ UNCHANGED tool /\ NotTheTable
    BY <1>4 DEF CheckEnds
  <2> QED
    BY <1>1, <2>1, <2>2, CheckGoesKeepsInv
<1>5. ASSUME NEW p \in checks[c].probing, ProbeStep(c, p) PROVE CatalogueInv'
  <2>1. p \in Probe
    BY <1>1 DEF CheckRow
  <2>2. ASSUME NEW stage \in {"probe", "version", "listen", "ONLINE", "OFFLINE", "TIMEOUT"},
               Reaches(c, p, stage), NotTheTable,
               tool' \in [looked : BOOLEAN, available : BOOLEAN, installed : BOOLEAN]
        PROVE  CatalogueInv'
    <3>1. [checks[c] EXCEPT !.probing = (@ \ {p}) \cup {[p EXCEPT !.stage = stage]}] \in CheckRow
      BY <1>1, <2>1 DEF CheckRow, Probe
    <3> QED
      BY <2>2, <3>1, CheckGoesKeepsInv DEF Reaches
  <2>3. CASE ProbeAnswers(c, p)
    <3>1. NotTheTable
      BY <2>3 DEF ProbeAnswers
    <3>2. CASE StreamOf[p.url] = "down"
      <4>1. Reaches(c, p, "OFFLINE") /\ UNCHANGED tool
        BY <2>3, <3>2 DEF ProbeAnswers
      <4> QED
        BY <1>1, <2>2, <3>1, <4>1
    <3>3. CASE StreamOf[p.url] = "slow"
      <4>1. Reaches(c, p, "TIMEOUT") /\ UNCHANGED tool
        BY <2>3, <3>3 DEF ProbeAnswers
      <4> QED
        BY <1>1, <2>2, <3>1, <4>1
    <3>4. CASE StreamOf[p.url] \notin {"down", "slow"} /\ ~tool.looked
      <4>1. Reaches(c, p, "version") /\ tool' = [tool EXCEPT !.looked = TRUE]
        BY <2>3, <3>4 DEF ProbeAnswers
      <4> QED
        BY <1>1, <2>2, <3>1, <4>1
    <3>5. CASE StreamOf[p.url] \notin {"down", "slow"} /\ tool.looked
      <4>1. Reaches(c, p, IF tool.available THEN "listen" ELSE "ONLINE") /\ UNCHANGED tool
        BY <2>3, <3>5 DEF ProbeAnswers
      <4> QED
        BY <1>1, <2>2, <3>1, <4>1
    <3> QED
      BY <3>2, <3>3, <3>4, <3>5
  <2>4. CASE VersionAnswers(c, p)
    <3>1. PICK answered \in {FALSE, tool.installed} :
              /\ tool' = [tool EXCEPT !.available = answered]
              /\ Reaches(c, p, IF answered THEN "listen" ELSE "ONLINE")
      BY <2>4 DEF VersionAnswers
    <3>2. tool' \in [looked : BOOLEAN, available : BOOLEAN, installed : BOOLEAN]
      BY <1>1, <3>1
    <3>3. NotTheTable
      BY <2>4 DEF VersionAnswers
    <3> QED
      BY <1>1, <2>2, <3>1, <3>2, <3>3
  <2>5. CASE ListenAnswers(c, p)
    <3>1. UNCHANGED tool /\ NotTheTable
          /\ Reaches(c, p, IF StreamOf[p.url] = "mute" THEN "OFFLINE" ELSE "ONLINE")
      BY <2>5 DEF ListenAnswers
    <3> QED
      BY <1>1, <2>2, <3>1
  <2>6. CASE WriteVerdict(c, p)
    <3>1. /\ p.id \in Ids /\ p.stage \in {"ONLINE", "OFFLINE", "TIMEOUT"}
          /\ channels' = [channels EXCEPT ![p.id].status = p.stage, ![p.id].recent = TRUE]
          /\ CheckGoes(c, [checks[c] EXCEPT !.probing = @ \ {p}])
          /\ UNCHANGED <<countries, syncs, tool, crashes>>
      BY <2>1, <2>6 DEF WriteVerdict, Probe
    <3>2. /\ channels' \in [Ids -> ChannelRow]
          /\ \A id \in Ids : channels'[id].url = channels[id].url
      BY <1>1, <3>1 DEF ChannelRow
    <3>3. UrlIsItsOwn'
      BY <3>2 DEF UrlIsItsOwn, Row, CatalogueInv
    <3>4. checks' \in [Checks -> CheckRow]
      BY <3>1 DEF CheckGoes, CheckRow, CatalogueInv
    <3>5. SyncKeepsBest'
      BY <3>1 DEF SyncKeepsBest, CatalogueInv
    <3> QED
      BY <3>1, <3>2, <3>3, <3>4, <3>5 DEF CatalogueInv
  <2> QED
    BY <1>5, <2>3, <2>4, <2>5, <2>6 DEF ProbeStep
<1> QED
  BY <1>2, <1>3, <1>4, <1>5 DEF HealthStep

\* Time and restarts leave the URLs of the table alone.
LEMMA HalfDayKeepsInv ==
    ASSUME CatalogueInv, NEW id \in Ids, HalfDay(id)
    PROVE  CatalogueInv'
<1>1. channels \in [Ids -> ChannelRow] /\ channels' = [channels EXCEPT ![id].recent = FALSE]
      /\ UNCHANGED <<countries, syncs, checks, tool, crashes>>
  BY DEF HalfDay, TablesOnly, CatalogueInv
<1>2. channels' \in [Ids -> ChannelRow] /\ \A i \in Ids : channels'[i].url = channels[i].url
  BY <1>1 DEF ChannelRow
<1>3. UrlIsItsOwn'
  BY <1>2 DEF UrlIsItsOwn, Row, CatalogueInv
<1>4. SyncKeepsBest'
  BY <1>1 DEF SyncKeepsBest, CatalogueInv
<1> QED
  BY <1>1, <1>2, <1>3, <1>4 DEF CatalogueInv

LEMMA CatalogueCrashKeepsInv ==
    ASSUME CatalogueInv, CatalogueCrash
    PROVE  CatalogueInv'
<1>1. UNCHANGED <<channels, countries>> /\ crashes' \in 0..MaxCrashes
  BY CatalogueAssumption DEF CatalogueCrash, CatalogueInv
<1>2. syncs' \in [Syncs -> SyncRow] /\ \A s \in Syncs : syncs'[s].pc # "write"
  BY NothingCollected DEF CatalogueCrash
<1>3. checks' \in [Checks -> CheckRow]
  BY DEF CatalogueCrash, NoCheck, CheckRow
<1>4. tool' \in [looked : BOOLEAN, available : BOOLEAN, installed : BOOLEAN]
  BY DEF CatalogueCrash, CatalogueInv
<1>5. SyncKeepsBest'
  BY <1>2 DEF SyncKeepsBest
<1>6. UrlIsItsOwn'
  BY <1>1 DEF UrlIsItsOwn, Row, CatalogueInv
<1> QED
  BY <1>1, <1>2, <1>3, <1>4, <1>5, <1>6 DEF CatalogueInv

LEMMA CatalogueKeepsInv == CatalogueInv /\ [CatalogueNext]_CatalogueVars => CatalogueInv'
<1> SUFFICES ASSUME CatalogueInv, [CatalogueNext]_CatalogueVars PROVE CatalogueInv'
  OBVIOUS
<1>1. CASE UNCHANGED CatalogueVars
  <2>1. UNCHANGED <<channels, countries, syncs, checks, tool, crashes>>
    BY <1>1 DEF CatalogueVars
  <2>2. SyncKeepsBest' /\ UrlIsItsOwn'
    BY <2>1 DEF SyncKeepsBest, UrlIsItsOwn, Row, CatalogueInv
  <2> QED
    BY <2>1, <2>2 DEF CatalogueInv
<1>2. CASE CatalogueNext
  BY <1>2, FetchKeepsInv, UpsertCountryKeepsInv, UpsertBatchKeepsInv, SyncEndsKeepsInv,
     HealthKeepsInv, HalfDayKeepsInv, CatalogueCrashKeepsInv DEF CatalogueNext
<1> QED
  BY <1>1, <1>2

\* The inductive invariant of the catalogue.
THEOREM CatalogueIsInvariant == CatalogueSpec => []CatalogueInv
<1> QED
  BY CatalogueStarts, CatalogueKeepsInv, PTL DEF CatalogueSpec

\* A sync writes each channel it has collected once, with the URL of the first entry
\* of the best quality, for any playlists, sources and number of syncs.
THEOREM CatalogueKeepsBest == CatalogueSpec => []SyncKeepsBest
<1>1. CatalogueInv => SyncKeepsBest
  BY DEF CatalogueInv
<1> QED
  BY <1>1, CatalogueIsInvariant, PTL

\* No parse, merge of sources or quality variants, batch of an overlapping sync or late
\* verdict ever gives a channel the URL of another entry.
THEOREM CatalogueUrlsAreTheirOwn == CatalogueSpec => []UrlIsItsOwn
<1>1. CatalogueInv => UrlIsItsOwn
  BY DEF CatalogueInv
<1> QED
  BY <1>1, CatalogueIsInvariant, PTL

\* Tables, jobs and tool are of their types.
THEOREM CatalogueTypes == CatalogueSpec => []CatalogueTypeOK
<1> QED
  BY CatalogueIsTyped, CatalogueIsInvariant, PTL
=============================================================================
