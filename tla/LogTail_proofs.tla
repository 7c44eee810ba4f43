--------------------------- MODULE LogTail_proofs ---------------------------
(***************************************************************************)
(* LogTail implements TailBuffer, for every capacity, every chunk length   *)
(* and every set of bytes.                                                 *)
(***************************************************************************)
EXTENDS LogTail, SequenceTheorems, TLAPS

LEMMA CapType == Cap \in Nat \ {0}
BY CapAssumption DEF Cap

(* A function on 1..n is a sequence of length n. *)
LEMMA FunIsSeq ==
  ASSUME NEW S, NEW n \in Nat, NEW f \in [1..n -> S]
  PROVE  f \in Seq(S) /\ Len(f) = n
<1>1. f \in Seq(S)
  BY SeqDef
<1>2. Len(f) \in Nat /\ 1..n = 1..Len(f)
  BY <1>1, LenProperties
<1>3. Len(f) = n
  BY <1>2
<1> QED BY <1>1, <1>3

LEMMA ChunkIsSeq == ASSUME NEW p \in Chunks PROVE p \in Seq(Bytes)
<1>1. PICK n \in 0..MaxChunk : p \in [1..n -> Bytes]
  BY DEF Chunks
<1> QED BY <1>1, FunIsSeq, ChunkAssumption

(* copy() keeps the length of its destination. *)
LEMMA CopyAtFacts ==
  ASSUME NEW S, NEW dst \in Seq(S), NEW off \in Nat, NEW src \in Seq(S)
  PROVE  /\ CopyAt(dst, off, src) \in Seq(S)
         /\ Len(CopyAt(dst, off, src)) = Len(dst)
         /\ \A i \in 1..Len(dst) :
              CopyAt(dst, off, src)[i] =
                IF off < i /\ i <= off + Len(src) THEN src[i - off] ELSE dst[i]
<1> DEFINE f == CopyAt(dst, off, src)
<1>1. ASSUME NEW i \in 1..Len(dst), off < i, i <= off + Len(src)
      PROVE  src[i - off] \in S
  <2>1. i - off \in 1..Len(src)
    BY <1>1
  <2> QED BY <2>1, ElementOfSeq
<1>2. ASSUME NEW i \in 1..Len(dst) PROVE dst[i] \in S
  BY ElementOfSeq
<1>3. f \in [1..Len(dst) -> S]
  BY <1>1, <1>2 DEF CopyAt
<1>4. \A i \in 1..Len(dst) :
        f[i] = IF off < i /\ i <= off + Len(src) THEN src[i - off] ELSE dst[i]
  BY DEF CopyAt
<1> HIDE DEF f
<1>5. f \in Seq(S) /\ Len(f) = Len(dst)
  BY <1>3, FunIsSeq
<1> QED BY <1>4, <1>5 DEF f

(* Reading round the ring is a rotation. *)
LEMMA UnrolledFacts ==
  ASSUME NEW S, NEW d \in Seq(S), NEW w \in 0..Len(d)
  PROVE  /\ Unrolled(d, w) \in Seq(S)
         /\ Len(Unrolled(d, w)) = Len(d)
         /\ \A i \in 1..Len(d) :
              Unrolled(d, w)[i] =
                IF i <= Len(d) - w THEN d[w + i] ELSE d[i - (Len(d) - w)]
<1> DEFINE a == SubSeq(d, w + 1, Len(d))
           b == SubSeq(d, 1, w)
<1>1. \A i \in 1..Len(d) : d[i] \in S
  BY ElementOfSeq
<1>2. /\ a \in Seq(S)
      /\ Len(a) = Len(d) - w
      /\ \A i \in 1..(Len(d) - w) : a[i] = d[w + i]
  BY <1>1, SubSeqProperties
<1>3. /\ b \in Seq(S)
      /\ Len(b) = w
      /\ \A i \in 1..w : b[i] = d[i]
  BY <1>1, SubSeqProperties
<1> HIDE DEF a, b
<1>4. /\ a \o b \in Seq(S)
      /\ Len(a \o b) = Len(d)
      /\ \A i \in 1..Len(d) :
           (a \o b)[i] = IF i <= Len(d) - w THEN d[w + i] ELSE d[i - (Len(d) - w)]
  <2>1. /\ a \o b \in Seq(S)
        /\ Len(a \o b) = Len(a) + Len(b)
        /\ \A i \in 1..Len(a) + Len(b) :
             (a \o b)[i] = IF i <= Len(a) THEN a[i] ELSE b[i - Len(a)]
    BY <1>2, <1>3, ConcatProperties
  <2>2. Len(a) + Len(b) = Len(d)
    BY <1>2, <1>3
  <2>3. ASSUME NEW i \in 1..Len(d), i <= Len(d) - w PROVE (a \o b)[i] = d[w + i]
    BY <1>2, <2>1, <2>2, <2>3
  <2>4. ASSUME NEW i \in 1..Len(d), ~(i <= Len(d) - w)
        PROVE  (a \o b)[i] = d[i - (Len(d) - w)]
    <3>1. i - (Len(d) - w) \in 1..w
      BY <2>4
    <3> QED BY <1>2, <1>3, <2>1, <2>2, <2>4, <3>1
  <2> QED BY <2>1, <2>2, <2>3, <2>4
<1> QED BY <1>4 DEF Unrolled, a, b

(* The end of a sequence. *)
LEMMA LastOfFacts ==
  ASSUME NEW S, NEW s \in Seq(S), NEW n \in Nat
  PROVE  /\ Promise!LastOf(s, n) \in Seq(S)
         /\ Len(Promise!LastOf(s, n)) = IF Len(s) <= n THEN Len(s) ELSE n
         /\ \A i \in 1..n : i <= Len(s) =>
              Promise!LastOf(s, n)[i] =
                IF Len(s) <= n THEN s[i] ELSE s[Len(s) - n + i]
<1>1. CASE Len(s) <= n
  BY <1>1 DEF Promise!LastOf
<1>2. CASE Len(s) > n
  <2> DEFINE e == SubSeq(s, Len(s) - n + 1, Len(s))
  <2>1. \A i \in Len(s) - n + 1 .. Len(s) : s[i] \in S
    BY <1>2, ElementOfSeq
  <2>2. /\ e \in Seq(S)
        /\ Len(e) = n
        /\ \A i \in 1..n : e[i] = s[Len(s) - n + i]
    BY <1>2, <2>1, SubSeqProperties
  <2>3. Promise!LastOf(s, n) = e
    BY <1>2 DEF Promise!LastOf
  <2> HIDE DEF e
  <2> QED BY <1>2, <2>2, <2>3
<1> QED BY <1>1, <1>2

-----------------------------------------------------------------------------
(* String is the slice read round the ring, also before the ring is full.  *)
LEMMA StringFacts ==
  ASSUME IInv
  PROVE  /\ String \in Seq(Bytes)
         /\ Len(String) = Len(data)
         /\ \A i \in 1..Len(data) :
              String[i] = IF i <= Len(data) - wPos THEN data[wPos + i]
                                                   ELSE data[i - (Len(data) - wPos)]
<1>1. wPos \in 0..Len(data)
  BY CapType DEF IInv, TypeOK, RingShape
<1>2. CASE full
  BY <1>1, <1>2, UnrolledFacts DEF IInv, TypeOK, String
<1>3. CASE ~full
  BY <1>3 DEF IInv, TypeOK, RingShape, String
<1> QED BY <1>2, <1>3

(* What is left to show of a write: its effect on the invariant and on     *)
(* what a reader sees.                                                     *)
WriteIsRight(p) ==
  IInv' /\ String' = Promise!LastOf(String \o p, Cap)

LEMMA FastIsRight ==
  ASSUME IInv, NEW p \in Seq(Bytes), p # <<>>, arg' = p, WriteFast(p)
  PROVE  WriteIsRight(p)
<1>1. /\ data \o p \in Seq(Bytes)
      /\ Len(data \o p) = Len(data) + Len(p)
  BY ConcatProperties DEF IInv, TypeOK
<1>2. IInv'
  BY <1>1, CapType DEF IInv, TypeOK, RingShape, WriteFast
<1>3. String' = data'
  <2>1. CASE ~full'
    BY <2>1 DEF String
  <2>2. CASE full'
    <3>1. wPos' = 0
      BY DEF IInv, RingShape, WriteFast
    <3>2. SubSeq(data', 1, Len(data')) = data'
      BY <1>2, SubSeqFull DEF IInv, TypeOK
    <3>3. SubSeq(data', 1, 0) = <<>>
      BY SubSeqEmpty
    <3> QED BY <1>2, <2>2, <3>1, <3>2, <3>3, ConcatEmptySeq
             DEF String, Unrolled, IInv, TypeOK
  <2> QED BY <2>1, <2>2
<1>4. String = data
  BY DEF WriteFast, String
<1>5. Promise!LastOf(data \o p, Cap) = data \o p
  BY <1>1 DEF WriteFast, Promise!LastOf
<1> QED BY <1>2, <1>3, <1>4, <1>5 DEF WriteFast, WriteIsRight

(* The last bytes of what was read before a write and the chunk written.   *)
LEMMA Expected ==
  ASSUME IInv, NEW p \in Seq(Bytes), full \/ Len(data) + Len(p) > Cap
  PROVE  /\ Promise!LastOf(String \o p, Cap) \in Seq(Bytes)
         /\ Len(Promise!LastOf(String \o p, Cap)) = Cap
         /\ \A i \in 1..Cap :
              Promise!LastOf(String \o p, Cap)[i] =
                IF i <= Cap - Len(p) THEN String[Len(data) + Len(p) - Cap + i]
                                     ELSE p[Len(p) - Cap + i]
<1>1. /\ String \o p \in Seq(Bytes)
      /\ Len(String \o p) = Len(data) + Len(p)
      /\ \A i \in 1..Len(data) + Len(p) :
           (String \o p)[i] = IF i <= Len(data) THEN String[i] ELSE p[i - Len(data)]
  <2>1. String \in Seq(Bytes) /\ Len(String) = Len(data)
    BY StringFacts
  <2> HIDE DEF String
  <2>2. /\ String \o p \in Seq(Bytes)
        /\ Len(String \o p) = Len(String) + Len(p)
        /\ \A i \in 1..Len(String) + Len(p) :
             (String \o p)[i] = IF i <= Len(String) THEN String[i] ELSE p[i - Len(String)]
    BY <2>1, ConcatProperties
  <2> QED BY <2>1, <2>2
<1>2. Len(data) \in Nat /\ Len(p) \in Nat /\ Len(data) + Len(p) >= Cap
  BY LenProperties, CapType DEF IInv, TypeOK, RingShape
<1> DEFINE s == String \o p
<1>3. /\ Promise!LastOf(s, Cap) \in Seq(Bytes)
      /\ Len(Promise!LastOf(s, Cap)) = Cap
      /\ \A i \in 1..Cap : Promise!LastOf(s, Cap)[i] = s[Len(s) - Cap + i]
  <2> HIDE DEF s
  <2>1. s \in Seq(Bytes) /\ Len(s) >= Cap
    BY <1>1, <1>2 DEF s
  <2>2. /\ Promise!LastOf(s, Cap) \in Seq(Bytes)
        /\ Len(Promise!LastOf(s, Cap)) = Cap
    BY <2>1, CapType, LastOfFacts
  <2>3. ASSUME NEW i \in 1..Cap PROVE Promise!LastOf(s, Cap)[i] = s[Len(s) - Cap + i]
    BY <2>1, CapType, LastOfFacts
  <2> QED BY <2>2, <2>3
<1>4. ASSUME NEW i \in 1..Cap
      PROVE  s[Len(s) - Cap + i] =
               IF i <= Cap - Len(p) THEN String[Len(data) + Len(p) - Cap + i]
                                    ELSE p[Len(p) - Cap + i]
  <2> DEFINE j == Len(data) + Len(p) - Cap + i
  <2>1. /\ j \in 1..Len(data) + Len(p)
        /\ j - Len(data) = Len(p) - Cap + i
        /\ j <= Len(data) <=> i <= Cap - Len(p)
        /\ Len(s) - Cap + i = j
    BY <1>1, <1>2, CapType
  <2> HIDE DEF j
  <2>2. s[j] = IF j <= Len(data) THEN String[j] ELSE p[j - Len(data)]
    BY <1>1, <2>1
  <2> HIDE DEF s
  <2>3. s[j] = IF i <= Cap - Len(p) THEN String[j] ELSE p[Len(p) - Cap + i]
    BY <2>1, <2>2
  <2> QED BY <2>1, <2>3 DEF j
<1> HIDE DEF s
<1>5. ASSUME NEW i \in 1..Cap
      PROVE  Promise!LastOf(s, Cap)[i] =
               IF i <= Cap - Len(p) THEN String[Len(data) + Len(p) - Cap + i]
                                    ELSE p[Len(p) - Cap + i]
  BY <1>3, <1>4
<1> QED BY <1>3, <1>5 DEF s

(* The slice the slow path works on: full length, the old bytes in place.  *)
Filled == Bytes \cup {Zero}

LEMMA GrownFacts ==
  ASSUME IInv
  PROVE  /\ Grown \in Seq(Filled)
         /\ Len(Grown) = Cap
         /\ \A i \in 1..Len(data) : Grown[i] = data[i]
         /\ GrownPos \in 0..Cap - 1
         /\ Len(data) \in 0..Cap
<1>1. /\ data \in Seq(Filled)
      /\ Len(data) \in 0..Cap
      /\ wPos \in 0..Cap - 1
  BY CapType, LenProperties, SeqMonotonic DEF IInv, TypeOK, RingShape, Filled
<1>2. CASE Len(data) < Cap
  <2> DEFINE z == [i \in 1..Cap |-> Zero]
  <2>1. z \in Seq(Filled) /\ Len(z) = Cap
    BY FunIsSeq, CapType DEF Filled
  <2> HIDE DEF z
  <2>2. /\ CopyAt(z, 0, data) \in Seq(Filled)
        /\ Len(CopyAt(z, 0, data)) = Cap
        /\ \A i \in 1..Cap :
             CopyAt(z, 0, data)[i] =
               IF 0 < i /\ i <= 0 + Len(data) THEN data[i - 0] ELSE z[i]
    BY <1>1, <2>1, CopyAtFacts
  <2>3. Grown = CopyAt(z, 0, data) /\ GrownPos = Len(data)
    BY <1>2 DEF Grown, GrownPos, z
  <2>4. ASSUME NEW i \in 1..Len(data) PROVE Grown[i] = data[i]
    <3>1. i \in 1..Cap /\ 0 < i /\ i <= 0 + Len(data) /\ i - 0 = i
      BY <1>1, CapType
    <3> QED BY <2>2, <2>3, <3>1
  <2> QED BY <1>1, <1>2, <2>2, <2>3, <2>4, CapType
<1>3. CASE ~(Len(data) < Cap)
  BY <1>1, <1>3, CapType DEF Grown, GrownPos
<1> QED BY <1>2, <1>3

(* A slice of full length all of whose elements are bytes, with an index   *)
(* inside it and the ring marked full, restores the invariant.             *)
LEMMA FullShape ==
  ASSUME data' \in Seq(Filled), Len(data') = Cap, full' = TRUE, wPos' \in 0..Cap - 1,
         arg' \in Seq(Bytes),
         \A i \in 1..Cap : data'[i] \in Bytes
  PROVE  /\ IInv'
         /\ String' \in Seq(Bytes)
         /\ Len(String') = Cap
         /\ \A i \in 1..Cap :
              String'[i] = IF i <= Cap - wPos' THEN data'[wPos' + i]
                                               ELSE data'[i - (Cap - wPos')]
<1>1. data' \in Seq(Bytes)
  <2>1. data' \in [1..Cap -> Filled]
    BY LenProperties
  <2>2. data' \in [1..Cap -> Bytes]
    BY <2>1
  <2> QED BY <2>2, FunIsSeq, CapType
<1>2. IInv'
  BY <1>1, CapType DEF IInv, TypeOK, RingShape
<1>3. String' = Unrolled(data', wPos')
  BY DEF String
<1>4. wPos' \in 0..Len(data')
  BY CapType
<1> QED BY <1>1, <1>2, <1>3, <1>4, UnrolledFacts

LEMMA AllIsRight ==
  ASSUME IInv, NEW p \in Seq(Bytes), p # <<>>, arg' = p, WriteAll(p)
  PROVE  WriteIsRight(p)
<1> DEFINE src == SubSeq(p, Len(p) - Cap + 1, Len(p))
<1>1. Len(p) \in Nat /\ Len(p) >= Cap
  BY LenProperties DEF WriteAll
<1>2. /\ src \in Seq(Bytes)
      /\ Len(src) = Cap
      /\ \A i \in 1..Cap : src[i] = p[Len(p) - Cap + i]
  <2>1. \A i \in Len(p) - Cap + 1 .. Len(p) : p[i] \in Bytes
    BY <1>1, CapType, ElementOfSeq
  <2> QED BY <1>1, <2>1, CapType, SubSeqProperties
<1>3. data' = CopyAt(Grown, 0, src) /\ wPos' = 0 /\ full' = TRUE
  BY DEF WriteAll
<1> HIDE DEF src
<1>4. /\ data' \in Seq(Filled)
      /\ Len(data') = Cap
      /\ \A i \in 1..Cap : data'[i] = src[i]
  <2>1. src \in Seq(Filled)
    BY <1>2, SeqMonotonic DEF Filled
  <2>2. /\ data' \in Seq(Filled)
        /\ Len(data') = Cap
        /\ \A i \in 1..Cap :
             data'[i] = IF 0 < i /\ i <= 0 + Cap THEN src[i - 0] ELSE Grown[i]
    BY <1>2, <1>3, <2>1, GrownFacts, CopyAtFacts
  <2>3. ASSUME NEW i \in 1..Cap PROVE data'[i] = src[i]
    <3>1. 0 < i /\ i <= 0 + Cap /\ i - 0 = i
      BY CapType
    <3> QED BY <2>2, <3>1
  <2> QED BY <2>2, <2>3
<1>5. \A i \in 1..Cap : data'[i] \in Bytes
  BY <1>2, <1>4, ElementOfSeq
<1>6. /\ IInv'
      /\ String' \in Seq(Bytes)
      /\ Len(String') = Cap
      /\ \A i \in 1..Cap : String'[i] = data'[i]
  <2>1. wPos' \in 0..Cap - 1
    BY <1>3, CapType
  <2>2. \A i \in 1..Cap : i <= Cap - 0 /\ 0 + i = i
    BY CapType
  <2> QED BY <1>3, <1>4, <1>5, <2>1, <2>2, FullShape
<1> DEFINE e == Promise!LastOf(String \o p, Cap)
<1>7. /\ e \in Seq(Bytes)
      /\ Len(e) = Cap
      /\ \A i \in 1..Cap : e[i] = p[Len(p) - Cap + i]
  <2>1. \A i \in 1..Cap : ~(i <= Cap - Len(p))
    BY <1>1, CapType
  <2> QED BY <2>1, Expected DEF WriteAll
<1> HIDE DEF e
<1>8. String' = e
  BY <1>2, <1>4, <1>6, <1>7, SeqEqual
<1> QED BY <1>6, <1>8 DEF e, WriteIsRight

(* The slice after a write that goes round: the chunk up to the end, the   *)
(* rest of it at the start, the old bytes elsewhere.                       *)
FirstLen(p) == IF Len(p) <= Cap - GrownPos THEN Len(p) ELSE Cap - GrownPos

LEMMA AroundSlice ==
  ASSUME IInv, NEW p \in Seq(Bytes), p # <<>>, arg' = p, WriteAround(p)
  PROVE  /\ data' \in Seq(Filled)
         /\ Len(data') = Cap
         /\ \A i \in 1..Cap :
              data'[i] = IF GrownPos < i /\ i <= GrownPos + FirstLen(p)
                           THEN p[i - GrownPos]
                         ELSE IF i <= Len(p) - FirstLen(p) THEN p[FirstLen(p) + i]
                         ELSE Grown[i]
<1> DEFINE n == Len(p)
           g == GrownPos
           f == FirstLen(p)
           front == SubSeq(p, 1, f)
           back == SubSeq(p, f + 1, n)
           atEnd == CopyAt(Grown, g, front)
<1>1. n \in 1..Cap - 1 /\ g \in 0..Cap - 1
  BY GrownFacts, EmptySeq, LenProperties, CapType DEF WriteAround
<1>2. /\ f \in 1..n
      /\ f = n \/ f = Cap - g
      /\ f <= Cap - g
  BY <1>1, CapType DEF FirstLen
<1>3. /\ front \in Seq(Filled) /\ Len(front) = f /\ \A i \in 1..f : front[i] = p[i]
      /\ back \in Seq(Filled) /\ Len(back) = n - f /\ \A i \in 1..n - f : back[i] = p[f + i]
  <2>1. p \in Seq(Filled)
    BY SeqMonotonic DEF Filled
  <2>2. \A i \in 1..n : p[i] \in Filled
    BY <2>1, ElementOfSeq
  <2> HIDE DEF f
  <2>3. /\ front \in Seq(Filled) /\ Len(front) = f
        /\ \A i \in 1..f : front[i] = p[i]
    BY <1>1, <1>2, <2>2, SubSeqProperties
  <2>4. /\ back \in Seq(Filled) /\ Len(back) = n - f
        /\ \A i \in 1..n - f : back[i] = p[f + i]
    BY <1>1, <1>2, <2>2, SubSeqProperties
  <2> QED BY <2>3, <2>4
<1>4. data' = IF f < n THEN CopyAt(atEnd, 0, back) ELSE atEnd
  BY DEF WriteAround, FirstLen
<1> HIDE DEF front, back, f, g, n
<1>5. /\ atEnd \in Seq(Filled) /\ Len(atEnd) = Cap
      /\ \A i \in 1..Cap :
           atEnd[i] = IF g < i /\ i <= g + f THEN front[i - g] ELSE Grown[i]
  BY <1>1, <1>3, GrownFacts, CopyAtFacts
<1>6. \A i \in 1..Cap :
        atEnd[i] = IF g < i /\ i <= g + f THEN p[i - g] ELSE Grown[i]
  <2> TAKE i \in 1..Cap
  <2>1. CASE g < i /\ i <= g + f
    <3>1. i - g \in 1..f
      BY <1>1, <1>2, <2>1, CapType
    <3> QED BY <1>3, <1>5, <2>1, <3>1
  <2>2. CASE ~(g < i /\ i <= g + f)
    BY <1>5, <2>2
  <2> QED BY <2>1, <2>2
<1>7. CASE f < n
  <2>1. f = Cap - g /\ n - f < g /\ n - f \in Nat
    BY <1>1, <1>2, <1>7, CapType
  <2> HIDE DEF atEnd
  <2>2. /\ data' \in Seq(Filled) /\ Len(data') = Cap
        /\ \A i \in 1..Cap :
             data'[i] = IF 0 < i /\ i <= 0 + (n - f) THEN back[i - 0] ELSE atEnd[i]
    BY <1>3, <1>4, <1>5, <1>7, CopyAtFacts
  <2>3. ASSUME NEW i \in 1..Cap, i <= n - f
        PROVE  data'[i] = p[f + i] /\ ~(g < i)
    <3>1. i \in 1..n - f /\ 0 < i /\ i <= 0 + (n - f) /\ i - 0 = i /\ ~(g < i)
      BY <1>1, <2>1, <2>3, CapType
    <3> QED BY <1>3, <2>2, <3>1
  <2>4. ASSUME NEW i \in 1..Cap, ~(i <= n - f) PROVE data'[i] = atEnd[i]
    <3>1. ~(i <= 0 + (n - f))
      BY <2>1, <2>4
    <3> QED BY <2>2, <3>1
  <2>5. \A i \in 1..Cap :
          data'[i] = IF g < i /\ i <= g + f THEN p[i - g]
                     ELSE IF i <= n - f THEN p[f + i] ELSE Grown[i]
    BY <1>6, <2>3, <2>4
  <2> QED BY <2>2, <2>5 DEF f, g, n
<1>8. CASE ~(f < n)
  <2>1. f = n
    BY <1>1, <1>2, <1>8
  <2>2. \A i \in 1..Cap : ~(i <= n - f)
    BY <1>1, <2>1, CapType
  <2> HIDE DEF atEnd
  <2>3. \A i \in 1..Cap :
          data'[i] = IF g < i /\ i <= g + f THEN p[i - g]
                     ELSE IF i <= n - f THEN p[f + i] ELSE Grown[i]
    BY <1>4, <1>6, <1>8, <2>2
  <2> QED BY <1>4, <1>5, <1>8, <2>3 DEF f, g, n
<1> QED BY <1>7, <1>8

LEMMA AroundIsRight ==
  ASSUME IInv, NEW p \in Seq(Bytes), p # <<>>, arg' = p, WriteAround(p)
  PROVE  WriteIsRight(p)
<1> DEFINE m == Len(data)
           n == Len(p)
           g == GrownPos
           f == FirstLen(p)
           w == IF f < n THEN n - f ELSE IF g + f = Cap THEN 0 ELSE g + f
           e == Promise!LastOf(String \o p, Cap)
<1>1. n \in 1..Cap - 1 /\ g \in 0..Cap - 1 /\ m \in 0..Cap /\ wPos \in 0..Cap - 1
  BY GrownFacts, EmptySeq, LenProperties, CapType DEF WriteAround, IInv, TypeOK, RingShape
<1>2. /\ m < Cap => g = m /\ wPos = 0 /\ m + n > Cap /\ ~full
      /\ m = Cap => g = wPos /\ full
  BY <1>1, CapType DEF WriteAround, GrownPos, IInv, RingShape
<1>3. wPos' = w /\ full' = (full \/ g + f = Cap)
  BY DEF WriteAround, FirstLen
<1>4. f = IF n <= Cap - g THEN n ELSE Cap - g
  BY DEF FirstLen
<1>5. \A i \in 1..Cap :
        data'[i] = IF g < i /\ i <= g + f THEN p[i - g]
                   ELSE IF i <= n - f THEN p[f + i] ELSE Grown[i]
  BY AroundSlice
<1>6. \A i \in 1..m : Grown[i] = data[i]
  BY GrownFacts
<1>7. \A i \in 1..n : p[i] \in Bytes
  BY ElementOfSeq
<1>8. \A i \in 1..m : data[i] \in Bytes
  BY ElementOfSeq DEF IInv, TypeOK
<1>9. \A k \in 1..m :
        String[k] = IF k <= m - wPos THEN data[wPos + k] ELSE data[k - (m - wPos)]
  BY StringFacts
<1>10. /\ e \in Seq(Bytes)
       /\ Len(e) = Cap
       /\ \A i \in 1..Cap :
            e[i] = IF i <= Cap - n THEN String[m + n - Cap + i] ELSE p[n - Cap + i]
  BY Expected DEF WriteAround
<1> HIDE DEF m, n, g, f, e
<1>11. full' = TRUE /\ w \in 0..Cap - 1
  <2>1. f \in 1..n /\ g + f \in 1..Cap
    BY <1>1, <1>4, CapType
  <2>2. CASE m = Cap
    <3>1. full' = TRUE
      BY <1>2, <1>3, <2>2
    <3>2. w \in 0..Cap - 1
      BY <1>1, <2>1, CapType
    <3> QED BY <3>1, <3>2
  <2>3. CASE m < Cap
    <3>1. g + f = Cap
      BY <1>1, <1>2, <1>4, <2>3, CapType
    <3>2. full' = TRUE
      BY <1>3, <3>1
    <3>3. w \in 0..Cap - 1
      BY <1>1, <2>1, CapType
    <3> QED BY <3>2, <3>3
  <2>4. m = Cap \/ m < Cap
    BY <1>1, CapType
  <2> HIDE DEF w
  <2> QED BY <2>2, <2>3, <2>4
<1>12. \A i \in 1..Cap : data'[i] \in Bytes
  <2> TAKE i \in 1..Cap
  <2>1. CASE g < i /\ i <= g + f
    <3>1. i - g \in 1..n
      BY <1>1, <1>4, <2>1, CapType
    <3> QED BY <1>5, <1>7, <2>1, <3>1
  <2>2. CASE ~(g < i /\ i <= g + f) /\ i <= n - f
    <3>1. f + i \in 1..n
      BY <1>1, <1>4, <2>2, CapType
    <3> QED BY <1>5, <1>7, <2>2, <3>1
  <2>3. CASE ~(g < i /\ i <= g + f) /\ ~(i <= n - f)
    <3>1. i \in 1..m
      BY <1>1, <1>2, <1>4, <2>3, CapType
    <3> QED BY <1>5, <1>6, <1>8, <2>3, <3>1
  <2> QED BY <2>1, <2>2, <2>3
<1>13. /\ IInv'
       /\ String' \in Seq(Bytes)
       /\ Len(String') = Cap
       /\ \A i \in 1..Cap :
            String'[i] = IF i <= Cap - w THEN data'[w + i] ELSE data'[i - (Cap - w)]
  <2> HIDE DEF w
  <2> QED BY <1>3, <1>11, <1>12, AroundSlice, FullShape
<1>14. ASSUME NEW i \in 1..Cap PROVE String'[i] = e[i]
  <2> DEFINE j == IF i <= Cap - w THEN w + i ELSE i - (Cap - w)
             k == m + n - Cap + i
  <2>1. j \in 1..Cap /\ String'[i] = data'[j]
    BY <1>11, <1>13, CapType
  <2>2. CASE i <= Cap - n
    <3>1. /\ j \in 1..m /\ k \in 1..m
          /\ ~(g < j /\ j <= g + f) /\ ~(j <= n - f)
          /\ j = IF k <= m - wPos THEN wPos + k ELSE k - (m - wPos)
      BY <1>1, <1>2, <1>4, <2>2, CapType
    <3> HIDE DEF j, k, w
    <3>2. data'[j] = data[j]
      BY <1>5, <1>6, <2>1, <3>1
    <3>3. String[k] = data[j]
      BY <1>9, <3>1
    <3>4. e[i] = String[k]
      BY <1>10, <2>2 DEF k
    <3> QED BY <2>1, <3>2, <3>3, <3>4
  <2>3. CASE ~(i <= Cap - n)
    <3>1. \/ g < j /\ j <= g + f /\ j - g = n - Cap + i
          \/ ~(g < j /\ j <= g + f) /\ j <= n - f /\ f + j = n - Cap + i
      BY <1>1, <1>2, <1>4, <2>3, CapType
    <3> HIDE DEF j, k, w
    <3>2. data'[j] = p[n - Cap + i]
      BY <1>5, <2>1, <3>1
    <3> QED BY <1>10, <2>1, <2>3, <3>2
  <2> QED BY <2>2, <2>3
<1>15. String' = e
  BY <1>10, <1>13, <1>14, SeqEqual
<1> QED BY <1>13, <1>15 DEF e, WriteIsRight

-----------------------------------------------------------------------------
LEMMA InitRing == Init => IInv /\ Promise!Init
<1> SUFFICES ASSUME Init PROVE IInv /\ Promise!Init
  OBVIOUS
<1>1. data = <<>> /\ wPos = 0 /\ full = FALSE /\ arg = <<>>
  BY DEF Init
<1>2. data \in Seq(Bytes) /\ Len(data) = 0
  BY <1>1, EmptySeq
<1>3. TypeOK
  BY <1>1, <1>2 DEF TypeOK
<1>4. RingShape
  BY <1>1, <1>2, CapType DEF RingShape
<1>5. Promise!Init
  BY <1>1 DEF Init, Promise!Init, String
<1> QED BY <1>3, <1>4, <1>5 DEF IInv

LEMMA StepRing == IInv /\ [Next]_vars => IInv' /\ [Promise!Next]_<<String, arg>>
<1> SUFFICES ASSUME IInv, [Next]_vars PROVE IInv' /\ [Promise!Next]_<<String, arg>>
  OBVIOUS
<1>1. ASSUME NEW p \in Chunks, Write(p) PROVE IInv' /\ Promise!Write(p)
  <2>1. CASE p # <<>>
    <3>1. WriteIsRight(p)
      BY <1>1, <2>1, ChunkIsSeq, FastIsRight, AllIsRight, AroundIsRight DEF Write
    <3> QED BY <1>1, <3>1 DEF WriteIsRight, Promise!Write, Write
  <2>2. CASE p = <<>>
    <3>1. UNCHANGED ring /\ arg' = <<>>
      BY <1>1, <2>2 DEF Write
    <3>2. IInv' /\ String' = String
      BY <3>1, EmptySeq DEF ring, IInv, TypeOK, RingShape, String, Unrolled
    <3>3. String \in Seq(Bytes) /\ Len(String) <= Cap
      BY StringFacts DEF IInv, RingShape
    <3>4. Promise!LastOf(String \o <<>>, Cap) = String
      BY <3>3, ConcatEmptySeq DEF Promise!LastOf
    <3> QED BY <2>2, <3>1, <3>2, <3>4 DEF Promise!Write
  <2> QED BY <2>1, <2>2
<1>2. CASE UNCHANGED vars
  BY <1>2 DEF vars, IInv, TypeOK, RingShape, String, Unrolled
<1> QED BY <1>1, <1>2 DEF Next, Promise!Next

(* The three fields of the ring always agree.                              *)
THEOREM ShapeIsInvariant == Spec => []IInv
<1>1. Init => IInv
  BY InitRing
<1>2. IInv /\ [Next]_vars => IInv'
  BY StepRing
<1> QED BY <1>1, <1>2, PTL DEF Spec

(* Whatever the capacity, the chunk boundaries and the bytes, a reader     *)
(* sees exactly the last Cap bytes written.                                *)
THEOREM TailIsKept == Spec => ImplementsTail
BY InitRing, StepRing, PTL DEF Spec, ImplementsTail, Promise!Spec, Promise!vars

-----------------------------------------------------------------------------
(* Of the end of a sequence, lengthened, and of the whole, lengthened the  *)
(* same way, the end is the same: nothing that was dropped is missed.      *)
LEMMA EndOfEnd ==
  ASSUME NEW S, NEW s \in Seq(S), NEW p \in Seq(S), NEW n \in Nat
  PROVE  Promise!LastOf(Promise!LastOf(s, n) \o p, n) = Promise!LastOf(s \o p, n)
<1>1. CASE Len(s) <= n
  BY <1>1 DEF Promise!LastOf
<1>2. CASE Len(s) > n
  <2> DEFINE l == Promise!LastOf(s, n)
  <2>1. /\ Len(s) \in Nat /\ Len(p) \in Nat
        /\ l \in Seq(S) /\ Len(l) = n
        /\ \A i \in 1..n : l[i] = s[Len(s) - n + i]
    BY <1>2, LastOfFacts, LenProperties
  <2> HIDE DEF l
  <2> DEFINE lp == l \o p
             sp == s \o p
  <2>2. /\ lp \in Seq(S) /\ Len(lp) = n + Len(p)
        /\ \A i \in 1..n + Len(p) : lp[i] = IF i <= n THEN l[i] ELSE p[i - n]
    BY <2>1, ConcatProperties
  <2>3. /\ sp \in Seq(S) /\ Len(sp) = Len(s) + Len(p)
        /\ \A i \in 1..Len(s) + Len(p) :
             sp[i] = IF i <= Len(s) THEN s[i] ELSE p[i - Len(s)]
    BY ConcatProperties
  <2> HIDE DEF lp, sp
  <2>4. /\ Promise!LastOf(lp, n) \in Seq(S) /\ Len(Promise!LastOf(lp, n)) = n
        /\ \A i \in 1..n : Promise!LastOf(lp, n)[i] = lp[Len(p) + i]
    <3>1. /\ Promise!LastOf(lp, n) \in Seq(S) /\ Len(Promise!LastOf(lp, n)) = n
      BY <2>1, <2>2, LastOfFacts
    <3>2. ASSUME NEW i \in 1..n PROVE Promise!LastOf(lp, n)[i] = lp[Len(p) + i]
      <4>0. /\ lp \in Seq(S) /\ Len(lp) = n + Len(p) /\ Len(p) \in Nat
            /\ n \in Nat /\ i \in Nat /\ i <= n /\ i <= n + Len(p)
        BY <2>1, <2>2
      <4>1. Promise!LastOf(lp, n)[i] = IF Len(lp) <= n THEN lp[i] ELSE lp[Len(lp) - n + i]
        BY <4>0, LastOfFacts
      <4>2. Len(lp) <= n => i = Len(p) + i
        BY <4>0
      <4>3. Len(lp) - n + i = Len(p) + i
        BY <4>0
      <4> QED
        BY <4>1, <4>2, <4>3
    <3> QED
      BY <3>1, <3>2
  <2>5. /\ Promise!LastOf(sp, n) \in Seq(S) /\ Len(Promise!LastOf(sp, n)) = n
        /\ \A i \in 1..n : Promise!LastOf(sp, n)[i] = sp[Len(s) + Len(p) - n + i]
    <3>1. Len(sp) > n /\ Len(sp) - n = Len(s) + Len(p) - n
      BY <1>2, <2>1, <2>3
    <3>2. /\ Promise!LastOf(sp, n) \in Seq(S) /\ Len(Promise!LastOf(sp, n)) = n
      BY <2>3, <3>1, LastOfFacts
    <3>3. ASSUME NEW i \in 1..n
          PROVE  Promise!LastOf(sp, n)[i] = sp[Len(s) + Len(p) - n + i]
      <4>0. /\ sp \in Seq(S) /\ Len(sp) \in Nat /\ ~(Len(sp) <= n)
            /\ n \in Nat /\ i \in Nat /\ i <= Len(sp)
        BY <2>1, <2>3, <3>1
      <4>1. Promise!LastOf(sp, n)[i] = sp[Len(sp) - n + i]
        BY <4>0, LastOfFacts
      <4> QED
        BY <3>1, <4>1
    <3> QED
      BY <3>2, <3>3
  <2>6. ASSUME NEW i \in 1..n PROVE lp[Len(p) + i] = sp[Len(s) + Len(p) - n + i]
    <3> DEFINE j == Len(p) + i
               k == Len(s) + Len(p) - n + i
    <3>1. j \in 1..n + Len(p) /\ k \in 1..Len(s) + Len(p)
      BY <1>2, <2>1
    <3>2. /\ j <= n <=> k <= Len(s)
          /\ j - n = k - Len(s) /\ Len(s) - n + j = k
      BY <1>2, <2>1
    <3> HIDE DEF j, k
    <3>3. /\ lp[j] = IF j <= n THEN l[j] ELSE p[j - n]
          /\ sp[k] = IF k <= Len(s) THEN s[k] ELSE p[k - Len(s)]
      BY <2>2, <2>3, <3>1
    <3>4. j \in 1..n + Len(p) => j \in Int /\ 1 <= j
      BY <2>1
    <3>5. j <= n => l[j] = s[k]
      BY <2>1, <3>1, <3>2, <3>4
    <3>6. lp[j] = sp[k]
      BY <3>2, <3>3, <3>5
    <3> QED
      BY <3>6 DEF j, k
  <2>7. Promise!LastOf(lp, n) = Promise!LastOf(sp, n)
    BY <2>4, <2>5, <2>6, SeqEqual
  <2> QED
    BY <2>7 DEF l, lp, sp
<1> QED
  BY <1>1, <1>2, LenProperties

(* The ring forgets nothing it owes: if a reader sees the last Cap bytes of*)
(* whatever was written so far, w, then after a Write of arg it sees the   *)
(* last Cap bytes of w and arg together.                                   *)
THEOREM TailOfEverything ==
  ASSUME NEW w \in Seq(Bytes)
  PROVE  Spec => [][String = Promise!LastOf(w, Cap)
                      => String' = Promise!LastOf(w \o arg', Cap)]_vars
<1>1. ASSUME IInv, Next, String = Promise!LastOf(w, Cap)
      PROVE  String' = Promise!LastOf(w \o arg', Cap)
  <2>1. PICK p \in Chunks : Write(p)
    BY <1>1 DEF Next
  <2>2. arg' = p /\ p \in Seq(Bytes)
    BY <2>1, ChunkIsSeq DEF Write
  <2>3. String' = Promise!LastOf(String \o p, Cap)
    <3>1. CASE p # <<>>
      BY <1>1, <2>1, <2>2, <3>1, FastIsRight, AllIsRight, AroundIsRight
         DEF Write, WriteIsRight
    <3>2. CASE p = <<>>
      <4>1. String' = String
        BY <2>1, <3>2 DEF Write, WriteFast, WriteAll, WriteAround, ring, String, Unrolled
      <4>2. String \in Seq(Bytes) /\ Len(String) <= Cap
        BY <1>1, StringFacts DEF IInv, RingShape
      <4>3. Promise!LastOf(String \o <<>>, Cap) = String
        BY <4>2, ConcatEmptySeq DEF Promise!LastOf
      <4> QED
        BY <3>2, <4>1, <4>3
    <3> QED
      BY <3>1, <3>2
  <2> QED
    BY <1>1, <2>2, <2>3, EndOfEnd, CapType
<1>2. IInv /\ [Next]_vars =>
        [String = Promise!LastOf(w, Cap) => String' = Promise!LastOf(w \o arg', Cap)]_vars
  BY <1>1
<1> QED
  BY <1>2, ShapeIsInvariant, PTL DEF Spec

=============================================================================
