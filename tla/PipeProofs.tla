----------------------------- MODULE PipeProofs -----------------------------
(***************************************************************************)
(* Pipes, for every size of the ring and of the counters and for every set *)
(* of readers and writers: a pipe implements the queue of PipeAbs, no      *)
(* wakeup is lost, and the page is not used after it is freed.             *)
(***************************************************************************)
EXTENDS Pipe, SequenceTheorems, TLAPS

(* Arithmetic of counters that wrap. *)

\* Quotient and remainder are the only ones.
LEMMA Unique ==
  ASSUME NEW n \in Nat \ {0}, NEW q \in Int, NEW s \in Int, NEW r \in 0..(n - 1), NEW t \in 0..(n - 1),
         n * q + r = n * s + t
  PROVE  r = t
<1>1. n * (q - s) = t - r
  BY SMTT(30)
<1>2. t - r < n /\ t - r > -n
  OBVIOUS
<1>3. q - s < 1
  BY <1>1, <1>2, SMTT(30)
<1>4. q - s > -1
  BY <1>1, <1>2, SMTT(30)
<1> QED  BY <1>1, <1>3, <1>4, SMTT(30)

LEMMA Remainder ==
  ASSUME NEW n \in Nat \ {0}, NEW q \in Int, NEW r \in 0..(n - 1)
  PROVE  (n * q + r) % n = r
<1> DEFINE a == n * q + r
<1>1. a \in Int
  OBVIOUS
<1> HIDE DEF a
<1>2. (a % n) \in 0..(n - 1) /\ (a \div n) \in Int /\ a = n * (a \div n) + (a % n)
  BY <1>1
<1>3. n * q + r = n * (a \div n) + (a % n)
  BY <1>2 DEF a
<1>4. r = a % n
  BY <1>2, <1>3, Unique
<1> QED  BY <1>4 DEF a

\* Multiples of n do not count.
LEMMA Shift ==
  ASSUME NEW n \in Nat \ {0}, NEW a \in Int, NEW k \in Int
  PROVE  (a + n * k) % n = a % n
<1> DEFINE q == a \div n
           r == a % n
<1>1. q \in Int /\ r \in 0..(n - 1) /\ a = n * q + r
  OBVIOUS
<1> HIDE DEF q, r
<1>2. a + n * k = n * (q + k) + r
  BY <1>1, SMTT(30)
<1>3. q + k \in Int
  BY <1>1
<1>4. (n * (q + k) + r) % n = r
  BY <1>1, <1>3, Remainder
<1> QED  BY <1>2, <1>4 DEF r

\* The sum or difference of remainders.
LEMMA Inner ==
  ASSUME NEW n \in Nat \ {0}, NEW a \in Int, NEW b \in Int
  PROVE  ((a % n) + b) % n = (a + b) % n
<1> DEFINE q == a \div n
           r == a % n
<1>1. q \in Int /\ r \in 0..(n - 1) /\ a = n * q + r
  OBVIOUS
<1> HIDE DEF q, r
<1>2. a + b = (r + b) + n * q
  BY <1>1, SMTT(30)
<1>3. r + b \in Int
  BY <1>1
<1>4. ((r + b) + n * q) % n = (r + b) % n
  BY <1>1, <1>3, Shift
<1> QED  BY <1>2, <1>4 DEF r

\* The same for b - (a % n).
LEMMA InnerMinus ==
  ASSUME NEW n \in Nat \ {0}, NEW a \in Int, NEW b \in Int
  PROVE  (b - (a % n)) % n = (b - a) % n
<1> DEFINE q == a \div n
           r == a % n
<1>1. q \in Int /\ r \in 0..(n - 1) /\ a = n * q + r
  OBVIOUS
<1> HIDE DEF q, r
<1>2. b - r = (b - a) + n * q
  BY <1>1, SMTT(30)
<1>3. b - a \in Int
  OBVIOUS
<1>4. ((b - a) + n * q) % n = (b - a) % n
  BY <1>1, <1>3, Shift
<1> QED  BY <1>2, <1>4 DEF r

LEMMA Small ==
  ASSUME NEW n \in Nat \ {0}, NEW r \in 0..(n - 1)
  PROVE  r % n = r
<1>1. (n * 0 + r) % n = r
  BY Remainder
<1>2. n * 0 + r = r
  OBVIOUS
<1> QED  BY <1>1, <1>2

\* A remainder modulo a multiple of n.
LEMMA Coarser ==
  ASSUME NEW n \in Nat \ {0}, NEW m \in Nat \ {0}, m % n = 0, NEW a \in Int, NEW b \in Int
  PROVE  ((a % m) + b) % n = (a + b) % n
<1> DEFINE q == a \div m
           r == a % m
           k == m \div n
<1>1. q \in Int /\ r \in 0..(m - 1) /\ a = m * q + r
  OBVIOUS
<1>2. k \in Int /\ m = n * k
  OBVIOUS
<1> HIDE DEF q, r, k
<1>3. m * q = n * (k * q) /\ k * q \in Int
  BY <1>1, <1>2, SMTT(30)
<1>4. a + b = (r + b) + n * (k * q)
  BY <1>1, <1>3
<1>5. r + b \in Int
  BY <1>1
<1>6. ((r + b) + n * (k * q)) % n = (r + b) % n
  BY <1>3, <1>5, Shift
<1> QED  BY <1>4, <1>6 DEF r

\* Less than n places apart, two places of a ring of n are different.
LEMMA Apart ==
  ASSUME NEW n \in Nat \ {0}, NEW a \in Int, NEW b \in Int, a % n = b % n, b - a \in 0..(n - 1)
  PROVE  a = b
<1>1. (b - a) % n = b - a
  BY Small
<1>2. (b - (a % n)) % n = (b - a) % n
  BY InnerMinus
<1>3. (b - (b % n)) % n = (b - b) % n
  BY InnerMinus
<1>4. (b - b) % n = 0
  BY Small
<1> QED  BY <1>1, <1>2, <1>3, <1>4

-----------------------------------------------------------------------------
(* The ring. *)

\* The variables of the ring; the counters are never further apart than its
\* size, whether they have wrapped or not.
Ring ==
  /\ data \in [0..(PIPESIZE - 1) -> Byte]
  /\ nread \in 0..(UINT - 1) /\ nwrite \in 0..(UINT - 1)
  /\ Count <= PIPESIZE

LEMMA Sizes == PipeAssumption => PIPESIZE \in Nat \ {0} /\ UINT \in Nat \ {0}
BY DEF PipeAssumption

LEMMA Counted ==
  ASSUME PipeAssumption, nread \in Int, nwrite \in Int
  PROVE  Count \in 0..(UINT - 1)
BY Sizes DEF Count

LEMMA FunctionIsSeq ==
  ASSUME NEW S, NEW n \in Nat, NEW f \in [1..n -> S]
  PROVE  f \in Seq(S) /\ Len(f) = n
<1>1. f \in Seq(S)
  BY SeqDef
<1> QED  BY <1>1, LenProperties

\* The place in the ring of the i-th byte after counter c.
LEMMA Place ==
  ASSUME PipeAssumption, NEW c \in Int, NEW i \in Int
  PROVE  (c + i) % PIPESIZE \in 0..(PIPESIZE - 1)
BY Sizes

\* A counter that wraps keeps its place in the ring.
LEMMA PlaceWraps ==
  ASSUME PipeAssumption, NEW a \in Int, NEW b \in Int
  PROVE  ((a % UINT) + b) % PIPESIZE = (a + b) % PIPESIZE
<1>1. UINT % PIPESIZE = 0 /\ UINT \in Nat \ {0} /\ PIPESIZE \in Nat \ {0}
  BY Sizes DEF PipeAssumption
<1> QED  BY <1>1, Coarser, ZenonT(30)

LEMMA ContentsSeq ==
  ASSUME PipeAssumption, Ring
  PROVE  /\ Contents \in [1..Count -> Byte] /\ Contents \in Seq(Byte) /\ Len(Contents) = Count
         /\ \A i \in 1..Count : Contents[i] = data[(nread + i - 1) % PIPESIZE]
<1>1. Count \in Nat
  BY Counted DEF Ring
<1>2. ASSUME NEW i \in 1..Count  PROVE (nread + i - 1) % PIPESIZE \in 0..(PIPESIZE - 1)
  <2>1. nread + i - 1 = nread + (i - 1) /\ i - 1 \in Int /\ nread \in Int
    BY <1>1 DEF Ring
  <2> QED  BY <2>1, Place
<1>3. Contents \in [1..Count -> Byte]
  BY <1>2 DEF Contents, Ring
<1>4. \A i \in 1..Count : Contents[i] = data[(nread + i - 1) % PIPESIZE]
  BY DEF Contents
<1> QED  BY <1>1, <1>3, <1>4, FunctionIsSeq

\* p->nwrite is at the same place as the end of the contents.
LEMMA WritePlace ==
  ASSUME PipeAssumption, Ring, NEW j \in Int
  PROVE  (nwrite + j) % PIPESIZE = (nread + Count + j) % PIPESIZE
<1>2. nread \in Int /\ nwrite \in Int /\ Count \in Int
  BY Counted DEF Ring
<1>3. (((nwrite - nread) % UINT) + (nread + j)) % PIPESIZE = (nwrite - nread + (nread + j)) % PIPESIZE
  <2>1. nwrite - nread \in Int /\ nread + j \in Int
    BY <1>2
  <2> QED  BY <2>1, PlaceWraps, Zenon
<1>4. nwrite - nread + (nread + j) = nwrite + j
  BY <1>2
<1>5. ((nwrite - nread) % UINT) + (nread + j) = nread + Count + j
  BY <1>2 DEF Count
<1> QED  BY <1>3, <1>4, <1>5

LEMMA PutAppends ==
  ASSUME PipeAssumption, Ring, NEW s \in Seq(Byte), NEW k \in 0..Len(s),
         Count + k <= PIPESIZE, Put(s, k), nread' = nread
  PROVE  Ring' /\ Count' = Count + k /\ Contents' = Contents \o SubSeq(s, 1, k)
<1>1. /\ UINT \in Nat \ {0} /\ PIPESIZE \in Nat \ {0} /\ PIPESIZE < UINT
  BY Sizes DEF PipeAssumption
<1>2. nread \in Int /\ nwrite \in Int /\ Count \in Nat
  BY Counted DEF Ring
<1>3. k \in Nat /\ Len(s) \in Nat
  BY LenProperties
<1>4. nwrite' = (nwrite + k) % UINT
  BY DEF Put
<1>5. nwrite' \in 0..(UINT - 1)
  BY <1>1, <1>2, <1>3, <1>4
<1>6. Count' = Count + k
  <2>1. Count' = (((nwrite + k) % UINT) - nread) % UINT
    BY <1>4 DEF Count
  <2>0. nwrite + k \in Int /\ -nread \in Int /\ nwrite - nread \in Int /\ k \in Int
    BY <1>2, <1>3
  <2>2. (((nwrite + k) % UINT) + (-nread)) % UINT = (nwrite + k + (-nread)) % UINT
    BY <1>1, <2>0, Inner, Zenon
  <2>3. (((nwrite - nread) % UINT) + k) % UINT = (nwrite - nread + k) % UINT
    BY <1>1, <2>0, Inner, Zenon
  <2>4. (nwrite + k) % UINT \in Int
    BY <1>4, <1>5
  <2>5. Count' = (Count + k) % UINT
    <3>1. nwrite + k + (-nread) = nwrite - nread + k
      BY <1>2, <1>3
    <3>2. ((nwrite + k) % UINT) - nread = ((nwrite + k) % UINT) + (-nread)
      BY <1>2, <2>4
    <3> QED  BY <2>1, <2>2, <2>3, <3>1, <3>2 DEF Count
  <2>6. Count + k \in 0..(UINT - 1)
    BY <1>1, <1>2, <1>3
  <2> QED  BY <1>1, <2>5, <2>6, Small
<1>7. \A i \in 1..k : (nwrite + i - 1) % PIPESIZE = (nread + Count + i - 1) % PIPESIZE
  <2> SUFFICES ASSUME NEW i \in 1..k
               PROVE  (nwrite + i - 1) % PIPESIZE = (nread + Count + i - 1) % PIPESIZE
    OBVIOUS
  <2>1. i - 1 \in Int /\ nwrite + (i - 1) = nwrite + i - 1 /\ nread + Count + (i - 1) = nread + Count + i - 1
    BY <1>2, <1>3
  <2> QED  BY <2>1, WritePlace
\* Each byte that is written has a place of its own, apart from the old ones.
<1>8. ASSUME NEW i \in 1..(Count + k), NEW j \in 1..k,
             (nwrite + j - 1) % PIPESIZE = (nread + i - 1) % PIPESIZE
      PROVE  i = Count + j
  <2>1. (nread + Count + j - 1) % PIPESIZE = (nread + i - 1) % PIPESIZE
    BY <1>7, <1>8
  <2>2. nread + Count + j - 1 \in Int /\ nread + i - 1 \in Int
    BY <1>2, <1>3
  <2>3. CASE i <= Count + j
    <3>1. (nread + Count + j - 1) - (nread + i - 1) \in 0..(PIPESIZE - 1)
      BY <1>1, <1>2, <1>3, <2>3
    <3>2. nread + i - 1 = nread + Count + j - 1
      BY <1>1, <2>1, <2>2, <3>1, Apart
    <3> QED  BY <1>2, <1>3, <3>2
  <2>4. CASE i > Count + j
    <3>1. (nread + i - 1) - (nread + Count + j - 1) \in 0..(PIPESIZE - 1)
      BY <1>1, <1>2, <1>3, <2>4
    <3>2. nread + Count + j - 1 = nread + i - 1
      BY <1>1, <2>1, <2>2, <3>1, Apart
    <3> QED  BY <1>2, <1>3, <3>2
  <2> QED  BY <1>2, <1>3, <2>3, <2>4
\* What the ring holds at a place after the write.
<1>9. \A j \in 1..k : (nwrite + j - 1) % PIPESIZE \in 0..(PIPESIZE - 1)
  <2> SUFFICES ASSUME NEW j \in 1..k
               PROVE  (nwrite + j - 1) % PIPESIZE \in 0..(PIPESIZE - 1)
    OBVIOUS
  <2>1. j - 1 \in Int /\ nwrite + (j - 1) = nwrite + j - 1
    BY <1>2, <1>3
  <2> QED  BY <1>2, <2>1, Place
<1>10. \A i \in 1..(Count + k) : (nread + i - 1) % PIPESIZE \in 0..(PIPESIZE - 1)
  <2> SUFFICES ASSUME NEW i \in 1..(Count + k)
               PROVE  (nread + i - 1) % PIPESIZE \in 0..(PIPESIZE - 1)
    OBVIOUS
  <2>1. i - 1 \in Int /\ nread + (i - 1) = nread + i - 1
    BY <1>2, <1>3
  <2> QED  BY <1>2, <2>1, Place
<1>11. ASSUME NEW j \in 1..k
       PROVE  data'[(nwrite + j - 1) % PIPESIZE] = s[j]
  <2> DEFINE at == (nwrite + j - 1) % PIPESIZE
             i == CHOOSE i \in 1..k : (nwrite + i - 1) % PIPESIZE = at
  <2>1. at \in 0..(PIPESIZE - 1)
    BY <1>9
  <2>2. i \in 1..k /\ (nwrite + i - 1) % PIPESIZE = at
    OBVIOUS
  <2>3. (nwrite + i - 1) % PIPESIZE = (nread + (Count + j) - 1) % PIPESIZE
    <3>1. nread + (Count + j) - 1 = nread + Count + j - 1
      BY <1>2, <1>3
    <3> QED  BY <1>7, <2>2, <3>1
  <2>4. Count + j \in 1..(Count + k)
    BY <1>2, <1>3
  <2> HIDE DEF i
  <2>5. Count + j = Count + i
    BY <1>8, <2>2, <2>3, <2>4
  <2>6. i = j
    BY <1>2, <1>3, <2>2, <2>5
  <2>7. data'[at] = s[i]
    BY <2>1, <2>2 DEF Put, i
  <2> QED  BY <2>6, <2>7
<1>12. ASSUME NEW i \in 1..Count
       PROVE  data'[(nread + i - 1) % PIPESIZE] = data[(nread + i - 1) % PIPESIZE]
  <2>1. i \in 1..(Count + k)
    BY <1>2, <1>3
  <2>2. \A j \in 1..k : (nwrite + j - 1) % PIPESIZE # (nread + i - 1) % PIPESIZE
    <3> SUFFICES ASSUME NEW j \in 1..k, (nwrite + j - 1) % PIPESIZE = (nread + i - 1) % PIPESIZE
                 PROVE  FALSE
      OBVIOUS
    <3>1. i = Count + j
      BY <1>8, <2>1
    <3> QED  BY <1>2, <1>3, <3>1
  <2> QED  BY <1>10, <2>1, <2>2 DEF Put
<1>13. data' \in [0..(PIPESIZE - 1) -> Byte]
  <2>1. \A j \in 1..k : s[j] \in Byte
    BY <1>3, ElementOfSeq
  <2> QED  BY <2>1 DEF Put, Ring
<1>14. Ring'
  BY <1>5, <1>6, <1>13 DEF Ring
<1>15. PipeAssumption /\ Contents' = [i \in 1..(Count + k) |-> data'[(nread + i - 1) % PIPESIZE]]
  BY <1>6 DEF Contents
<1> DEFINE t == SubSeq(s, 1, k)
<1>16. t \in Seq(Byte) /\ Len(t) = k /\ \A j \in 1..k : t[j] = s[j]
  BY <1>3, SubSeqProperties
<1> HIDE DEF t
<1>17. /\ Contents \o t \in Seq(Byte) /\ Len(Contents \o t) = Count + k
       /\ \A i \in 1..Count : (Contents \o t)[i] = Contents[i]
       /\ \A i \in 1..(Count + k) : i > Count => (Contents \o t)[i] = t[i - Count]
  <2>1. Contents \in Seq(Byte) /\ Len(Contents) = Count
    BY ContentsSeq
  <2>2. /\ Contents \o t \in Seq(Byte) /\ Len(Contents \o t) = Len(Contents) + Len(t)
        /\ \A i \in 1..(Len(Contents) + Len(t)) :
             (Contents \o t)[i] = IF i <= Len(Contents) THEN Contents[i] ELSE t[i - Len(Contents)]
    BY <1>16, <2>1, ConcatProperties
  <2> HIDE DEF Contents
  <2> QED  BY <1>2, <1>3, <1>16, <2>1, <2>2
<1>18. ASSUME NEW i \in 1..(Count + k)
       PROVE  data'[(nread + i - 1) % PIPESIZE] = (Contents \o t)[i]
  <2>1. CASE i <= Count
    <3>1. i \in 1..Count
      BY <1>2, <1>3, <2>1
    <3> QED  BY <1>12, <1>17, <3>1, ContentsSeq
  <2>2. CASE i > Count
    <3>1. i - Count \in 1..k /\ nread + Count + (i - Count) - 1 = nread + i - 1
      BY <1>2, <1>3, <2>2
    <3>2. (nread + i - 1) % PIPESIZE = (nwrite + (i - Count) - 1) % PIPESIZE
      BY <1>7, <3>1
    <3>3. data'[(nread + i - 1) % PIPESIZE] = s[i - Count]
      BY <1>11, <3>1, <3>2
    <3>4. (Contents \o t)[i] = t[i - Count]
      BY <1>17, <2>2
    <3>5. t[i - Count] = s[i - Count]
      BY <1>16, <3>1
    <3> QED  BY <3>3, <3>4, <3>5, Zenon
  <2>3. i <= Count \/ i > Count
    BY <1>2, <1>3
  <2> QED  BY <2>1, <2>2, <2>3, Zenon
<1>19. Contents' = Contents \o t
  <2>1. \A i \in 1..(Count + k) : data'[(nread + i - 1) % PIPESIZE] \in Byte
    BY <1>10, <1>13
  <2>2. Contents' \in [1..(Count + k) -> Byte]
    BY <1>15, <2>1
  <2>3. Count + k \in Nat
    BY <1>2, <1>3
  <2>4. Contents' \in Seq(Byte) /\ Len(Contents') = Count + k
    BY <2>2, <2>3, FunctionIsSeq
  <2>5. \A i \in 1..(Count + k) : Contents'[i] = (Contents \o t)[i]
    BY <1>15, <1>18
  <2> QED  BY <1>17, <2>4, <2>5, SeqEqual
<1> QED  BY <1>6, <1>14, <1>19 DEF t

LEMMA GetDrops ==
  ASSUME PipeAssumption, Ring, NEW n \in 0..Count,
         nread' = (nread + n) % UINT, data' = data, nwrite' = nwrite
  PROVE  /\ Ring' /\ Count' = Count - n
         /\ Contents' = SubSeq(Contents, n + 1, Len(Contents))
<1>1. /\ UINT \in Nat \ {0} /\ PIPESIZE \in Nat \ {0} /\ UINT % PIPESIZE = 0
  BY Sizes DEF PipeAssumption
<1>2. nread \in Int /\ nwrite \in Int /\ Count \in 0..(UINT - 1) /\ n \in Nat
  BY Counted DEF Ring
<1>3. nread' \in 0..(UINT - 1)
  BY <1>1, <1>2
<1>4. Count' = Count - n
  <2>1. nread + n \in Int /\ nwrite - nread \in Int /\ -n \in Int
    BY <1>2
  <2>2. (nwrite - ((nread + n) % UINT)) % UINT = (nwrite - (nread + n)) % UINT
    BY <1>1, <1>2, <2>1, InnerMinus, Zenon
  <2>3. (((nwrite - nread) % UINT) + (-n)) % UINT = (nwrite - nread + (-n)) % UINT
    BY <1>1, <2>1, Inner, Zenon
  <2>4. nwrite - (nread + n) = nwrite - nread + (-n) /\ Count + (-n) = Count - n
    BY <1>2
  <2>5. Count' = (Count - n) % UINT
    BY <2>2, <2>3, <2>4 DEF Count
  <2>6. Count - n \in 0..(UINT - 1)
    BY <1>1, <1>2
  <2> QED  BY <1>1, <2>5, <2>6, Small
<1>5. Ring'
  BY <1>1, <1>2, <1>3, <1>4 DEF Ring
<1>6. PipeAssumption /\ Count' \in Nat
  BY <1>2, <1>4
<1>7. /\ Contents' \in Seq(Byte) /\ Len(Contents') = Count - n
      /\ \A i \in 1..(Count - n) : Contents'[i] = data[(nread' + i - 1) % PIPESIZE]
  <2>1. /\ Contents' \in Seq(Byte) /\ Len(Contents') = Count'
        /\ \A i \in 1..Count' : Contents'[i] = data'[(nread' + i - 1) % PIPESIZE]
    <3>1. \A i \in 1..Count' : (nread' + i - 1) % PIPESIZE \in 0..(PIPESIZE - 1)
      BY <1>1, <1>3, <1>6
    <3>2. Contents' \in [1..Count' -> Byte]
      BY <1>5, <3>1 DEF Contents, Ring
    <3>3. \A i \in 1..Count' : Contents'[i] = data'[(nread' + i - 1) % PIPESIZE]
      BY DEF Contents
    <3> QED  BY <1>6, <3>2, <3>3, FunctionIsSeq
  <2> QED  BY <1>4, <2>1
<1>8. ASSUME NEW i \in 1..(Count - n)
      PROVE  Contents'[i] = Contents[n + i]
  <2>1. nread + n \in Int /\ i - 1 \in Int
    BY <1>2
  <2> DEFINE a == nread + n
             b == i - 1
  <2>2. ((a % UINT) + b) % PIPESIZE = (a + b) % PIPESIZE
    <3> HIDE DEF a, b
    <3>1. a \in Int /\ b \in Int
      BY <2>1 DEF a, b
    <3> QED  BY <3>1, PlaceWraps, Zenon
  <2>3. nread' + i - 1 = ((nread + n) % UINT) + (i - 1) /\ nread + n + (i - 1) = nread + (n + i) - 1
    BY <1>2, <1>3
  <2>4. n + i \in 1..Count
    BY <1>2
  <2>5. Contents[n + i] = data[(nread + (n + i) - 1) % PIPESIZE]
    BY <2>4, ContentsSeq
  <2>6. (nread' + i - 1) % PIPESIZE = (nread + (n + i) - 1) % PIPESIZE
    BY <2>2, <2>3, Zenon
  <2> QED  BY <1>7, <2>5, <2>6
<1> DEFINE t == SubSeq(Contents, n + 1, Len(Contents))
<1>9. Contents \in Seq(Byte) /\ Len(Contents) = Count /\ \A i \in 1..Count : Contents[i] \in Byte
  BY ContentsSeq
<1>10. t \in Seq(Byte) /\ Len(t) = Count - n /\ \A i \in 1..(Count - n) : t[i] = Contents[n + i]
  <2>1. n + 1 \in Int /\ Count \in Int
    BY <1>2
  <2>2. \A i \in (n + 1)..Count : Contents[i] \in Byte
    BY <1>2, <1>9
  <2>3. /\ SubSeq(Contents, n + 1, Count) \in Seq(Byte)
        /\ Len(SubSeq(Contents, n + 1, Count)) = (IF n + 1 <= Count THEN Count - (n + 1) + 1 ELSE 0)
        /\ \A i \in 1..(Count - (n + 1) + 1) : SubSeq(Contents, n + 1, Count)[i] = Contents[n + 1 + i - 1]
    BY <2>1, <2>2, SubSeqProperties
  <2> HIDE DEF Contents, Count
  <2>4. t \in Seq(Byte) /\ Len(t) = Count - n
    BY <1>2, <1>9, <2>3
  <2>5. ASSUME NEW i \in 1..(Count - n)  PROVE t[i] = Contents[n + i]
    <3>1. i \in 1..(Count - (n + 1) + 1) /\ n + 1 + i - 1 = n + i
      BY <1>2
    <3> QED  BY <1>9, <2>3, <3>1
  <2> QED  BY <2>4, <2>5
<1> HIDE DEF t
<1>11. \A i \in 1..(Count - n) : Contents'[i] = t[i]
  BY <1>8, <1>10
<1>12. Contents' = t
  BY <1>7, <1>10, <1>11, SeqEqual
<1> QED  BY <1>4, <1>5, <1>12 DEF t

\* The tests of pipe.c on the counters are tests on the number of bytes.
LEMMA Distance ==
  ASSUME NEW u \in Nat \ {0}, NEW d \in 0..(u - 1), NEW r \in 0..(u - 1), NEW w \in 0..(u - 1)
  PROVE  w = (r + d) % u <=> (w - r) % u = d
<1>1. r \in Int /\ w \in Int /\ d \in Int /\ r + d \in Int /\ -r \in Int /\ w - r \in Int
  OBVIOUS
<1>2. ASSUME w = (r + d) % u  PROVE (w - r) % u = d
  <2>1. (((r + d) % u) + (-r)) % u = (r + d + (-r)) % u
    BY <1>1, Inner
  <2>2. r + d + (-r) = d /\ w - r = w + (-r)
    BY <1>1
  <2> QED  BY <1>2, <2>1, <2>2, Small
<1>3. ASSUME (w - r) % u = d  PROVE w = (r + d) % u
  <2>1. (((w - r) % u) + r) % u = (w - r + r) % u
    BY <1>1, Inner
  <2>2. w - r + r = w /\ d + r = r + d
    BY <1>1
  <2> QED  BY <1>3, <2>1, <2>2, Small
<1> QED  BY <1>2, <1>3

LEMMA Met ==
  ASSUME NEW u \in Nat \ {0}, NEW r \in 0..(u - 1), NEW w \in 0..(u - 1)
  PROVE  r = w <=> (w - r) % u = 0
<1>1. 0 \in 0..(u - 1) /\ r + 0 = r
  OBVIOUS
<1>2. r % u = r
  BY Small
<1>3. w = (r + 0) % u <=> (w - r) % u = 0
  BY <1>1, Distance
<1> QED  BY <1>1, <1>2, <1>3

LEMMA FullEmpty ==
  ASSUME PipeAssumption, Ring
  PROVE  (Full <=> Count = PIPESIZE) /\ (Empty <=> Count = 0)
<1>1. /\ UINT \in Nat \ {0} /\ PIPESIZE \in 0..(UINT - 1)
      /\ nread \in 0..(UINT - 1) /\ nwrite \in 0..(UINT - 1)
  BY DEF PipeAssumption, Ring
<1>2. nwrite = (nread + PIPESIZE) % UINT <=> (nwrite - nread) % UINT = PIPESIZE
  BY <1>1, Distance
<1>3. nread = nwrite <=> (nwrite - nread) % UINT = 0
  BY <1>1, Met
<1> QED  BY <1>2, <1>3 DEF Full, Empty, Count

LEMMA FullEmptyNext ==
  ASSUME PipeAssumption, Ring'
  PROVE  (Full' <=> Count' = PIPESIZE) /\ (Empty' <=> Count' = 0)
<1> DEFINE r == nread'
           w == nwrite'
<1>1. /\ UINT \in Nat \ {0} /\ PIPESIZE \in 0..(UINT - 1)
      /\ r \in 0..(UINT - 1) /\ w \in 0..(UINT - 1)
  BY DEF PipeAssumption, Ring
<1> HIDE DEF r, w
<1>2. w = (r + PIPESIZE) % UINT <=> (w - r) % UINT = PIPESIZE
  BY <1>1, Distance
<1>3. r = w <=> (w - r) % UINT = 0
  BY <1>1, Met
<1> QED  BY <1>2, <1>3 DEF r, w, Full, Empty, Count

-----------------------------------------------------------------------------
(* The inductive invariant. *)

Places == {"user", "start", "check", "sleep", "asleep"}

TypeOK ==
  /\ Ring
  /\ readopen \in BOOLEAN /\ writeopen \in BOOLEAN /\ freed \in BOOLEAN
  /\ lock \in Proc \cup {None} /\ open \subseteq Proc
  /\ pc \in [Proc -> Places]
  /\ buf \in [Writer -> Seq(Byte)] /\ want \in [Reader -> Nat]
  /\ killed \in [Proc -> BOOLEAN]

\* Who holds p->lock between two steps, and that whoever is in pipewrite() or
\* piperead() has a descriptor open.
Inside ==
  \A p \in Proc :
    /\ pc[p] \in {"check", "sleep"} <=> lock = p
    /\ pc[p] # "user" => p \in open

\* p->readopen and p->writeopen against the descriptors.
Ends ==
  /\ open \cap Reader # {} => readopen
  /\ open \cap Writer # {} => writeopen
  /\ freed => open = {}

\* A process in or before sleep() has a reason.  Between WriteFills and its
\* wakeup() a writer owes one to the readers.
Waiting ==
  /\ \A p \in Writer :
       /\ pc[p] \in {"check", "sleep", "asleep"} => Full
       /\ pc[p] \in {"sleep", "asleep"} => readopen
  /\ \A p \in Reader :
       /\ pc[p] = "sleep" => Empty /\ writeopen
       /\ pc[p] = "asleep" => writeopen
       /\ pc[p] = "asleep" => \/ Empty
                              \/ \E w \in Writer : killed[w]
                              \/ \E w \in Writer : pc[w] = "check"

IInv == TypeOK /\ Inside /\ Ends /\ Waiting

-----------------------------------------------------------------------------
(* What pipewrite() and piperead() do to the ring, here and in PipeAbs. *)

LEMMA Empties ==
  ASSUME NEW S, NEW s \in Seq(S)
  PROVE  s \o <<>> = s /\ SubSeq(s, 1, 0) = <<>> /\ SubSeq(s, 1, Len(s)) = s
<1>1. s \o <<>> = s
  BY ConcatEmptySeq
<1>2. SubSeq(s, 1, 0) = <<>>
  BY SubSeqEmpty
<1>3. SubSeq(s, 1, Len(s)) = s
  BY SubSeqFull
<1> QED  BY <1>1, <1>2, <1>3

\* k bytes of s are written: a step of PipeAbs, or none at all.
LEMMA PutStep ==
  ASSUME PipeAssumption, Ring, NEW s \in Seq(Byte), NEW k \in 0..Len(s),
         Count + k <= PIPESIZE, Put(s, k), nread' = nread,
         writeopen, readopen' = readopen, writeopen' = writeopen
  PROVE  [Abs!Next]_(Abs!vars)
<1>1. Contents' = Contents \o SubSeq(s, 1, k)
  BY PutAppends
<1>2. Contents \in Seq(Byte) /\ Len(Contents) = Count /\ Count \in Nat /\ k \in Nat /\ Len(s) \in Nat
  BY Counted, ContentsSeq, LenProperties DEF Ring
<1>3. CASE k = 0
  <2>1. Contents' = Contents
    BY <1>1, <1>2, <1>3, Empties
  <2> QED  BY <2>1 DEF Abs!vars
<1>4. CASE k # 0
  <2>1. k \in 1..(PIPESIZE - Len(Contents))
    BY <1>2, <1>4, Sizes
  <2>2. \A j \in 1..k : s[j] \in Byte
    BY <1>2, ElementOfSeq
  <2>3. /\ SubSeq(s, 1, k) \in Seq(Byte) /\ Len(SubSeq(s, 1, k)) = k
    BY <1>2, <1>4, <2>2, SubSeqProperties
  <2>4. SubSeq(s, 1, k) \in [1..k -> Byte]
    BY <2>3, LenProperties
  <2>5. Abs!Put
    BY <1>1, <2>1, <2>4 DEF Abs!Put
  <2> QED  BY <2>5 DEF Abs!Next
<1> QED  BY <1>3, <1>4

LEMMA GetStep ==
  ASSUME PipeAssumption, Ring, NEW n \in 0..Count,
         nread' = (nread + n) % UINT, data' = data, nwrite' = nwrite,
         readopen, readopen' = readopen, writeopen' = writeopen
  PROVE  [Abs!Next]_(Abs!vars)
<1>1. Contents' = SubSeq(Contents, n + 1, Len(Contents))
  BY GetDrops
<1>2. Contents \in Seq(Byte) /\ Len(Contents) = Count /\ Count \in Nat /\ n \in Nat
  BY Counted, ContentsSeq DEF Ring
<1>3. CASE n = 0
  <2>1. Contents' = SubSeq(Contents, 1, Len(Contents))
    BY <1>1, <1>3
  <2>2. Contents' = Contents
    BY <1>2, <2>1, Empties
  <2> QED  BY <2>2 DEF Abs!vars
<1>4. CASE n # 0
  <2>1. n \in 1..Len(Contents)
    BY <1>2, <1>4
  <2>2. Abs!Get
    BY <1>1, <2>1 DEF Abs!Get
  <2> QED  BY <2>2 DEF Abs!Next
<1> QED  BY <1>3, <1>4

LEMMA WriteEffect ==
  ASSUME PipeAssumption, TypeOK, Inside, Ends, NEW p \in Writer,
         WriteReturns(p) \/ WriteFills(p)
  PROVE  /\ Ring' /\ [Abs!Next]_(Abs!vars)
         /\ WriteReturns(p) => (Full => Full')
         /\ WriteFills(p) => Full'
<1> DEFINE k == Room(buf[p])
<1>1. buf[p] \in Seq(Byte) /\ Len(buf[p]) \in Nat
  BY LenProperties DEF TypeOK
<1>2. Count \in Nat /\ Count <= PIPESIZE /\ PIPESIZE \in Nat
  BY Counted, Sizes DEF TypeOK, Ring
<1>3. k \in 0..Len(buf[p]) /\ Count + k <= PIPESIZE
  BY <1>1, <1>2 DEF Room
<1>4. Put(buf[p], k) /\ nread' = nread /\ readopen' = readopen /\ writeopen' = writeopen
  BY DEF WriteReturns, WriteFills
<1>5. writeopen
  <2>1. p \in open
    BY DEF WriteReturns, WriteFills, Inside, Proc
  <2>2. open \cap Writer # {}
    BY <2>1
  <2> QED  BY <2>2, Zenon DEF Ends
<1>6. Ring
  BY DEF TypeOK
<1>7. [Abs!Next]_(Abs!vars)
  <2> HIDE DEF k
  <2> QED  BY <1>1, <1>3, <1>4, <1>5, <1>6, PutStep
<1>8. Ring' /\ Count' = Count + k
  <2> HIDE DEF k
  <2> QED  BY <1>1, <1>3, <1>4, <1>6, PutAppends
<1>9. WriteReturns(p) => (Full => Full')
  <2>1. Full => Count = PIPESIZE
    BY <1>6, FullEmpty
  <2>2. Full => Count' = PIPESIZE
    BY <1>1, <1>2, <1>3, <1>8, <2>1
  <2> QED  BY <1>8, <2>2, FullEmptyNext
<1>10. WriteFills(p) => Full'
  <2>1. WriteFills(p) => Count' = PIPESIZE
    BY <1>1, <1>2, <1>8 DEF WriteFills, Room
  <2> QED  BY <1>8, <2>1, FullEmptyNext
<1> QED  BY <1>7, <1>8, <1>9, <1>10

LEMMA ReadEffect ==
  ASSUME PipeAssumption, TypeOK, Inside, Ends, NEW p \in Reader, ReadReturns(p)
  PROVE  Ring' /\ [Abs!Next]_(Abs!vars) /\ (Empty => Empty')
<1> DEFINE n == IF want[p] <= Count THEN want[p] ELSE Count
<1>1. want[p] \in Nat
  BY DEF TypeOK
<1>2. Count \in Nat /\ Ring
  BY Counted DEF TypeOK, Ring
<1>3. n \in 0..Count
  BY <1>1, <1>2
<1>4. /\ nread' = (nread + n) % UINT /\ data' = data /\ nwrite' = nwrite
      /\ readopen' = readopen /\ writeopen' = writeopen
  BY DEF ReadReturns
<1>5. readopen
  <2>1. p \in open
    BY DEF ReadReturns, Inside, Proc
  <2>2. open \cap Reader # {}
    BY <2>1
  <2> QED  BY <2>2, Zenon DEF Ends
<1> HIDE DEF n
<1>6. [Abs!Next]_(Abs!vars)
  BY <1>2, <1>3, <1>4, <1>5, GetStep
<1>7. Ring' /\ Count' = Count - n
  BY <1>2, <1>3, <1>4, GetDrops
<1>8. Empty => Empty'
  <2>1. Empty => Count = 0
    BY <1>2, FullEmpty
  <2>2. Empty => Count' = 0
    BY <1>2, <1>3, <1>7, <2>1
  <2> QED  BY <1>7, <2>2, FullEmptyNext
<1> QED  BY <1>6, <1>7, <1>8

-----------------------------------------------------------------------------
(* Every step keeps the invariant. *)

LEMMA Starts ==
  ASSUME PipeAssumption, Init
  PROVE  IInv /\ Abs!Init
<1>1. Count = 0
  BY Sizes, Small DEF Init, Count
<1>2. Ring
  BY <1>1, Sizes DEF Init, Ring, PipeAssumption
<1>3. \A p \in Proc : pc[p] = "user"
  BY DEF Init
<1>4. TypeOK
  <2>1. <<>> \in Seq(Byte)
    BY EmptySeq
  <2> QED  BY <1>2, <2>1 DEF Init, TypeOK, Places
<1>5. Inside
  BY <1>3 DEF Inside, Init, Proc, PipeAssumption
<1>6. Ends
  BY DEF Ends, Init
<1>7. Waiting
  BY <1>3 DEF Waiting, Proc
<1>8. Contents = <<>>
  <2>1. Contents \in Seq(Byte) /\ Len(Contents) = 0
    BY <1>1, <1>2, ContentsSeq
  <2> QED  BY <2>1, EmptySeq
<1> QED  BY <1>4, <1>5, <1>6, <1>7, <1>8 DEF IInv, Abs!Init, Init

\* A step that leaves the ring alone.
LEMMA RingKept ==
  ASSUME Ring, data' = data, nread' = nread, nwrite' = nwrite
  PROVE  Ring' /\ Full' = Full /\ Empty' = Empty /\ Contents' = Contents
BY DEF Ring, Full, Empty, Contents, Count

\* write() and read() are called.
LEMMA CallKeeps ==
  ASSUME PipeAssumption, IInv, NEW p \in Proc, CallWrite(p) \/ CallRead(p)
  PROVE  IInv'
<1> USE DEF IInv, PipeAssumption
<1>1. Ring' /\ Full' = Full /\ Empty' = Empty
  BY RingKept DEF CallWrite, CallRead, pipeVars, TypeOK
<1>2. /\ pc' = [pc EXCEPT ![p] = "start"] /\ pc[p] = "user" /\ p \in open
      /\ UNCHANGED <<readopen, writeopen, freed, lock, open, killed>>
  BY DEF CallWrite, CallRead, Goto, pipeVars
<1>3. buf' \in [Writer -> Seq(Byte)] /\ want' \in [Reader -> Nat]
  <2>1. CASE CallWrite(p)
    <3>1. PICK s \in Buffers : buf' = [buf EXCEPT ![p] = s]
      BY <2>1 DEF CallWrite
    <3>2. s \in Seq(Byte)
      BY FunctionIsSeq DEF Buffers
    <3> QED  BY <2>1, <3>1, <3>2 DEF CallWrite, TypeOK
  <2>2. CASE CallRead(p)
    BY <2>2 DEF CallRead, TypeOK
  <2> QED  BY <2>1, <2>2
<1>4. TypeOK'
  BY <1>1, <1>2, <1>3 DEF TypeOK, Places
<1>5. Inside'
  BY <1>2 DEF Inside, TypeOK
<1>6. Ends'
  BY <1>2 DEF Ends
<1>7. Waiting'
  BY <1>1, <1>2 DEF Waiting, TypeOK, Proc
<1> QED  BY <1>4, <1>5, <1>6, <1>7

LEMMA WriteKeeps ==
  ASSUME PipeAssumption, IInv, NEW p \in Writer, WriteReturns(p) \/ WriteFills(p)
  PROVE  IInv'
<1> USE DEF IInv, PipeAssumption
<1>0. p \in Proc /\ lock = None /\ pc[p] = "start"
  BY DEF Proc, WriteReturns, WriteFills
<1>1. /\ Ring'
      /\ WriteReturns(p) => (Full => Full')
      /\ WriteFills(p) => Full'
  BY WriteEffect
<1>2. UNCHANGED <<readopen, writeopen, freed, open, want, killed>>
  BY DEF WriteReturns, WriteFills
<1>3. \A q \in Proc : pc[q] \notin {"check", "sleep"}
  BY <1>0 DEF Inside, Proc
<1>4. Ends'
  BY <1>2 DEF Ends
<1>5. CASE WriteReturns(p)
  <2>1. /\ pc' = [wakeup(Reader) EXCEPT ![p] = "user"]
        /\ buf' = [buf EXCEPT ![p] = <<>>] /\ lock' = lock
    BY <1>5 DEF WriteReturns
  <2>2. TypeOK'
    <3>1. <<>> \in Seq(Byte)
      BY EmptySeq
    <3> QED  BY <1>1, <1>2, <2>1, <3>1 DEF TypeOK, Places, wakeup
  <2>3. Inside'
    BY <1>0, <1>2, <2>1 DEF Inside, TypeOK, wakeup
  <2>4. Waiting'
    BY <1>0, <1>1, <1>2, <1>3, <1>5, <2>1 DEF Waiting, TypeOK, wakeup, Proc
  <2> QED  BY <1>4, <2>2, <2>3, <2>4
<1>6. CASE WriteFills(p)
  <2>1. /\ pc' = [pc EXCEPT ![p] = "check"] /\ lock' = p
        /\ buf' = [buf EXCEPT ![p] = SubSeq(buf[p], Room(buf[p]) + 1, Len(buf[p]))]
    BY <1>6 DEF WriteFills, Goto, TypeOK
  <2>2. buf' \in [Writer -> Seq(Byte)]
    <3>1. buf[p] \in Seq(Byte) /\ Len(buf[p]) \in Nat
      BY LenProperties DEF TypeOK
    <3>2. Room(buf[p]) + 1 \in 1..(Len(buf[p]) + 1)
      BY <3>1, Counted, Sizes DEF Room, TypeOK, Ring
    <3>3. \A i \in (Room(buf[p]) + 1)..Len(buf[p]) : buf[p][i] \in Byte
      BY <3>1, <3>2, ElementOfSeq
    <3>4. SubSeq(buf[p], Room(buf[p]) + 1, Len(buf[p])) \in Seq(Byte)
      BY <3>1, <3>2, <3>3, SubSeqProperties
    <3> QED  BY <2>1, <3>4 DEF TypeOK
  <2>3. TypeOK'
    BY <1>0, <1>1, <1>2, <2>1, <2>2 DEF TypeOK, Places
  <2>4. Inside'
    BY <1>0, <1>2, <1>3, <2>1 DEF Inside, TypeOK
  <2>5. Waiting'
    BY <1>0, <1>1, <1>2, <1>3, <1>6, <2>1 DEF Waiting, TypeOK, Proc
  <2> QED  BY <1>4, <2>3, <2>4, <2>5
<1> QED  BY <1>5, <1>6

\* pipewrite() with a full ring.
LEMMA FullKeeps ==
  ASSUME PipeAssumption, IInv, NEW p \in Writer, WriteGivesUp(p) \/ WriteWaits(p)
  PROVE  IInv'
<1> USE DEF IInv, PipeAssumption
<1>0. p \in Proc /\ lock = p /\ pc[p] = "check" /\ p \in open /\ Full
  BY DEF Proc, WriteGivesUp, WriteWaits, Inside, Waiting
<1>1. Ring' /\ Full' = Full /\ Empty' = Empty
  BY RingKept DEF WriteGivesUp, WriteWaits, pipeVars, TypeOK
<1>2. UNCHANGED <<readopen, writeopen, freed, open, want, killed>>
  BY DEF WriteGivesUp, WriteWaits, pipeVars
<1>3. Ends'
  BY <1>2 DEF Ends
<1>4. CASE WriteGivesUp(p)
  <2>1. /\ pc' = [pc EXCEPT ![p] = "user"] /\ lock' = None
        /\ buf' = [buf EXCEPT ![p] = <<>>]
    BY <1>4 DEF WriteGivesUp, Goto
  <2>2. TypeOK'
    <3>1. <<>> \in Seq(Byte)
      BY EmptySeq
    <3> QED  BY <1>1, <1>2, <2>1, <3>1 DEF TypeOK, Places
  <2>3. Inside'
    BY <1>0, <1>2, <2>1 DEF Inside, TypeOK, Proc
  \* A reader that sleeps has the read end open, so the writer was killed.
  <2>4. ASSUME NEW q \in Reader, pc[q] = "asleep"
        PROVE  \E w \in Writer : killed[w]
    <3>1. q \in open \cap Reader
      BY <2>4 DEF Inside, Proc
    <3>2. readopen
      BY <3>1, Zenon DEF Ends
    <3> QED  BY <1>4, <3>2, Zenon DEF WriteGivesUp
  <2>5. Waiting'
    BY <1>0, <1>1, <1>2, <2>1, <2>4 DEF Waiting, TypeOK, Proc
  <2> QED  BY <1>3, <2>2, <2>3, <2>5
<1>5. CASE WriteWaits(p)
  <2>1. /\ pc' = [wakeup(Reader) EXCEPT ![p] = "sleep"]
        /\ UNCHANGED <<lock, buf>>
    BY <1>5 DEF WriteWaits
  <2>2. TypeOK'
    BY <1>1, <1>2, <2>1 DEF TypeOK, Places, wakeup
  <2>3. Inside'
    BY <1>0, <1>2, <2>1 DEF Inside, TypeOK, wakeup
  <2>4. readopen
    BY <1>5 DEF WriteWaits
  <2>5. Waiting'
    BY <1>0, <1>1, <1>2, <2>1, <2>4 DEF Waiting, TypeOK, Proc, wakeup
  <2> QED  BY <1>3, <2>2, <2>3, <2>5
<1> QED  BY <1>4, <1>5

LEMMA ReadKeeps ==
  ASSUME PipeAssumption, IInv, NEW p \in Reader, ReadReturns(p) \/ ReadEmpty(p)
  PROVE  IInv'
<1> USE DEF IInv, PipeAssumption
<1>0. p \in Proc /\ p \notin Writer /\ lock = None /\ pc[p] = "start" /\ p \in open
  BY DEF Proc, ReadReturns, ReadEmpty, Inside
<1>1. UNCHANGED <<readopen, writeopen, freed, open, buf, killed>>
  BY DEF ReadReturns, ReadEmpty, pipeVars
<1>2. \A q \in Proc : pc[q] \notin {"check", "sleep"}
  BY <1>0 DEF Inside, Proc
<1>3. Ends'
  BY <1>1 DEF Ends
<1>4. CASE ReadReturns(p)
  <2>1. /\ pc' = [wakeup(Writer) EXCEPT ![p] = "user"]
        /\ want' = [want EXCEPT ![p] = 0] /\ lock' = lock
    BY <1>4 DEF ReadReturns
  <2>2. Ring' /\ (Empty => Empty')
    BY <1>4, ReadEffect
  <2>3. TypeOK'
    BY <1>1, <2>1, <2>2 DEF TypeOK, Places, wakeup
  <2>4. Inside'
    BY <1>0, <1>1, <2>1 DEF Inside, TypeOK, wakeup
  <2>5. Waiting'
    BY <1>0, <1>1, <1>2, <2>1, <2>2 DEF Waiting, TypeOK, wakeup, Proc
  <2> QED  BY <1>3, <2>3, <2>4, <2>5
<1>5. CASE ReadEmpty(p)
  <2>1. Ring' /\ Full' = Full /\ Empty' = Empty
    BY <1>5, RingKept DEF ReadEmpty, pipeVars, TypeOK
  <2>2. Empty /\ writeopen
    BY <1>5 DEF ReadEmpty
  <2>3. /\ want' \in [Reader -> Nat]
        /\ \/ pc' = [pc EXCEPT ![p] = "user"] /\ lock' = None
           \/ pc' = [pc EXCEPT ![p] = "sleep"] /\ lock' = p
    <3>1. CASE killed[p]
      BY <1>0, <1>5, <3>1 DEF ReadEmpty, Goto, TypeOK
    <3>2. CASE ~killed[p]
      BY <1>0, <1>5, <3>2 DEF ReadEmpty, Goto, TypeOK
    <3> QED  BY <3>1, <3>2
  <2>4. TypeOK'
    BY <1>0, <1>1, <2>1, <2>3 DEF TypeOK, Places
  <2>5. Inside'
    BY <1>0, <1>1, <1>2, <2>3 DEF Inside, TypeOK, Proc
  <2>6. Waiting'
    BY <1>0, <1>1, <1>2, <2>1, <2>2, <2>3 DEF Waiting, TypeOK, Proc
  <2> QED  BY <1>3, <2>4, <2>5, <2>6
<1> QED  BY <1>4, <1>5

LEMMA SleepKeeps ==
  ASSUME PipeAssumption, IInv, NEW p \in Proc, sleep(p)
  PROVE  IInv'
<1> USE DEF IInv, PipeAssumption
<1>0. lock = p /\ pc[p] = "sleep" /\ p \in open
  BY DEF sleep, Inside
<1>1. Ring' /\ Full' = Full /\ Empty' = Empty
  BY RingKept DEF sleep, pipeVars, TypeOK
<1>2. /\ pc' = [pc EXCEPT ![p] = "asleep"] /\ lock' = None
      /\ UNCHANGED <<readopen, writeopen, freed, open, buf, want, killed>>
  BY DEF sleep, Goto, pipeVars
<1>3. TypeOK'
  BY <1>1, <1>2 DEF TypeOK, Places
<1>4. Inside'
  BY <1>0, <1>2 DEF Inside, TypeOK, Proc
<1>5. Ends'
  BY <1>2 DEF Ends
<1>6. Waiting'
  BY <1>0, <1>1, <1>2 DEF Waiting, TypeOK, Proc
<1> QED  BY <1>3, <1>4, <1>5, <1>6

LEMMA KillKeeps ==
  ASSUME PipeAssumption, IInv, NEW p \in Proc, kill(p)
  PROVE  IInv'
<1> USE DEF IInv, PipeAssumption
<1>1. Ring' /\ Full' = Full /\ Empty' = Empty
  BY RingKept DEF kill, pipeVars, TypeOK
<1>2. /\ pc' = wakeup({p}) /\ killed' = [killed EXCEPT ![p] = TRUE]
      /\ UNCHANGED <<readopen, writeopen, freed, lock, open, buf, want>>
  BY DEF kill, pipeVars
<1>3. TypeOK'
  BY <1>1, <1>2 DEF TypeOK, Places, wakeup
<1>4. Inside'
  BY <1>2 DEF Inside, TypeOK, wakeup
<1>5. Ends'
  BY <1>2 DEF Ends
<1>6. \A w \in Writer : killed[w] => killed'[w]
  BY <1>2 DEF TypeOK, Proc
<1>7. Waiting'
  BY <1>1, <1>2, <1>6 DEF Waiting, TypeOK, Proc, wakeup
<1> QED  BY <1>3, <1>4, <1>5, <1>7

\* close(): pipeclose() runs for the last descriptor of an end, with nobody of
\* that end in the pipe.
LEMMA CloseKeeps ==
  ASSUME PipeAssumption, IInv, NEW p \in Proc, Close(p)
  PROVE  IInv' /\ [Abs!Next]_(Abs!vars)
<1> USE DEF IInv, PipeAssumption
<1>0. lock = None /\ pc[p] = "user" /\ p \in open
  BY DEF Close
<1>1. Ring' /\ Full' = Full /\ Empty' = Empty /\ Contents' = Contents
  BY RingKept DEF Close, TypeOK
<1>2. open' = open \ {p} /\ UNCHANGED <<lock, buf, want, killed>>
  BY DEF Close
<1>3. CASE ~(open \cap Reader = {p} \/ open \cap Writer = {p})
  <2>1. UNCHANGED <<readopen, writeopen, freed, pc>>
    BY <1>3 DEF Close
  <2>2. TypeOK'
    BY <1>1, <1>2, <2>1 DEF TypeOK
  <2>3. Inside'
    BY <1>0, <1>2, <2>1 DEF Inside
  <2>4. Ends'
    BY <1>0, <1>2, <2>1 DEF Ends
  <2>5. Waiting'
    BY <1>1, <1>2, <2>1 DEF Waiting
  <2>6. UNCHANGED Abs!vars
    BY <1>1, <2>1 DEF Abs!vars
  <2> QED  BY <2>2, <2>3, <2>4, <2>5, <2>6
<1>4. CASE p \in Reader /\ open \cap Reader = {p}
  <2>1. pipeclose(p) /\ p \notin Writer /\ open \cap Writer # {p}
    BY <1>4 DEF Close
  <2>2. readopen /\ readopen' = FALSE /\ writeopen' = writeopen
    BY <1>0, <1>4, <2>1, Zenon DEF pipeclose, Ends, TypeOK
  <2>3. /\ freed' = (~readopen' /\ ~writeopen')
        /\ pc' = [wakeup(Writer) EXCEPT ![p] = "user"]
    BY <1>4, <2>1 DEF pipeclose
  <2>4. \A q \in Reader : q # p => pc[q] = "user"
    BY <1>4 DEF Inside, Proc
  <2>5. \A q \in Proc : pc[q] \notin {"check", "sleep"}
    BY <1>0 DEF Inside, Proc
  <2>6. \A q \in Proc : pc'[q] \in {"user", "start"} /\ (pc'[q] = "start" => pc[q] # "user" /\ q # p)
    BY <1>0, <2>3, <2>4, <2>5 DEF TypeOK, Places, wakeup, Proc
  <2>7. TypeOK'
    <3>1. readopen' \in BOOLEAN /\ writeopen' \in BOOLEAN /\ freed' \in BOOLEAN
      BY <2>2, <2>3, Zenon DEF TypeOK
    <3> QED  BY <1>1, <1>2, <2>3, <3>1 DEF TypeOK, Places, wakeup
  <2>8. Inside'
    BY <1>0, <1>2, <2>6 DEF Inside, Proc
  <2>9. Ends'
    <3>1. open' \cap Reader = {} /\ open' \cap Writer \subseteq open \cap Writer /\ open' \subseteq Writer
      BY <1>2, <1>4, <2>1 DEF TypeOK, Proc
    <3>2. writeopen' \/ open' \cap Writer = {}
      BY <2>2, <3>1 DEF Ends
    <3>3. freed' => open' = {}
      BY <2>3, <3>1, <3>2
    <3> QED  BY <3>1, <3>2, <3>3 DEF Ends
  <2>10. Waiting'
    BY <2>6 DEF Waiting, Proc
  <2>11. Abs!CloseRead
    BY <1>1, <2>2, Zenon DEF Abs!CloseRead
  <2> QED  BY <2>7, <2>8, <2>9, <2>10, <2>11 DEF Abs!Next
<1>5. CASE p \in Writer /\ open \cap Writer = {p}
  <2>1. pipeclose(p) /\ p \notin Reader /\ open \cap Reader # {p}
    BY <1>5 DEF Close
  <2>2. writeopen /\ writeopen' = FALSE /\ readopen' = readopen
    BY <1>0, <1>5, <2>1, Zenon DEF pipeclose, Ends, TypeOK
  <2>3. /\ freed' = (~readopen' /\ ~writeopen')
        /\ pc' = [wakeup(Reader) EXCEPT ![p] = "user"]
    BY <1>5, <2>1 DEF pipeclose
  <2>4. \A q \in Writer : q # p => pc[q] = "user"
    BY <1>5 DEF Inside, Proc
  <2>5. \A q \in Proc : pc[q] \notin {"check", "sleep"}
    BY <1>0 DEF Inside, Proc
  <2>6. \A q \in Proc : pc'[q] \in {"user", "start"} /\ (pc'[q] = "start" => pc[q] # "user" /\ q # p)
    BY <1>0, <2>3, <2>4, <2>5 DEF TypeOK, Places, wakeup, Proc
  <2>7. TypeOK'
    <3>1. readopen' \in BOOLEAN /\ writeopen' \in BOOLEAN /\ freed' \in BOOLEAN
      BY <2>2, <2>3, Zenon DEF TypeOK
    <3> QED  BY <1>1, <1>2, <2>3, <3>1 DEF TypeOK, Places, wakeup
  <2>8. Inside'
    BY <1>0, <1>2, <2>6 DEF Inside, Proc
  <2>9. Ends'
    <3>1. open' \cap Writer = {} /\ open' \cap Reader \subseteq open \cap Reader /\ open' \subseteq Reader
      BY <1>2, <1>5, <2>1 DEF TypeOK, Proc
    <3>2. readopen' \/ open' \cap Reader = {}
      BY <2>2, <3>1 DEF Ends
    <3>3. freed' => open' = {}
      BY <2>3, <3>1, <3>2
    <3> QED  BY <3>1, <3>2, <3>3 DEF Ends
  <2>10. Waiting'
    BY <2>6 DEF Waiting, Proc
  <2>11. Abs!CloseWrite
    BY <1>1, <2>2, Zenon DEF Abs!CloseWrite
  <2> QED  BY <2>7, <2>8, <2>9, <2>10, <2>11 DEF Abs!Next
<1>6. \/ ~(open \cap Reader = {p} \/ open \cap Writer = {p})
      \/ p \in Reader /\ open \cap Reader = {p}
      \/ p \in Writer /\ open \cap Writer = {p}
  OBVIOUS
<1> QED  BY <1>3, <1>4, <1>5, <1>6

LEMMA Kept ==
  ASSUME PipeAssumption, IInv, [Next]_vars
  PROVE  IInv'
<1>1. ASSUME NEW p \in Proc, Run(p)  PROVE IInv'
  <2>1. CASE p \in Writer /\ (WriteReturns(p) \/ WriteFills(p))
    BY <2>1, WriteKeeps
  <2>2. CASE p \in Writer /\ (WriteGivesUp(p) \/ WriteWaits(p))
    BY <2>2, FullKeeps
  <2>3. CASE p \in Reader /\ (ReadReturns(p) \/ ReadEmpty(p))
    BY <2>3, ReadKeeps
  <2>4. CASE sleep(p)
    BY <2>4, SleepKeeps
  <2> QED
    BY <1>1, <2>1, <2>2, <2>3, <2>4
       DEF Run, WriteReturns, WriteFills, WriteGivesUp, WriteWaits, ReadReturns, ReadEmpty
<1>2. ASSUME NEW p \in Proc, CallWrite(p) \/ CallRead(p) \/ Close(p) \/ kill(p)  PROVE IInv'
  BY <1>2, CallKeeps, CloseKeeps, KillKeeps
<1>3. CASE UNCHANGED vars
  <2>1. Ring' /\ Full' = Full /\ Empty' = Empty
    BY <1>3, RingKept DEF vars, pipeVars, IInv, TypeOK
  <2>2. UNCHANGED <<readopen, writeopen, freed, lock, open, pc, buf, want, killed>>
    BY <1>3 DEF vars, pipeVars
  <2> QED  BY <2>1, <2>2 DEF IInv, TypeOK, Inside, Ends, Waiting
<1> QED  BY <1>1, <1>2, <1>3 DEF Next

\* Every step is a step of the queue of PipeAbs, or leaves it alone.
LEMMA Refines ==
  ASSUME PipeAssumption, IInv, [Next]_vars
  PROVE  [Abs!Next]_(Abs!vars)
<1>1. TypeOK /\ Inside /\ Ends /\ Ring
  BY DEF IInv, TypeOK
<1>2. ASSUME NEW p \in Proc, WriteReturns(p) \/ WriteFills(p)  PROVE [Abs!Next]_(Abs!vars)
  <2>1. p \in Writer
    BY <1>2 DEF WriteReturns, WriteFills
  <2> QED  BY <1>1, <1>2, <2>1, WriteEffect
<1>3. ASSUME NEW p \in Proc, ReadReturns(p)  PROVE [Abs!Next]_(Abs!vars)
  <2>1. p \in Reader
    BY <1>3 DEF ReadReturns
  <2> QED  BY <1>1, <1>3, <2>1, ReadEffect
<1>4. ASSUME NEW p \in Proc, Close(p)  PROVE [Abs!Next]_(Abs!vars)
  BY <1>4, CloseKeeps
<1>5. ASSUME UNCHANGED pipeVars  PROVE [Abs!Next]_(Abs!vars)
  <2>1. Contents' = Contents /\ readopen' = readopen /\ writeopen' = writeopen
    BY <1>1, <1>5, RingKept DEF pipeVars
  <2> QED  BY <2>1 DEF Abs!vars
<1>6. ASSUME NEW p \in Proc,
             \/ CallWrite(p) \/ CallRead(p) \/ kill(p)
             \/ WriteGivesUp(p) \/ WriteWaits(p) \/ ReadEmpty(p) \/ sleep(p)
      PROVE  UNCHANGED pipeVars
  BY <1>6 DEF CallWrite, CallRead, kill, WriteGivesUp, WriteWaits, ReadEmpty, sleep
<1>7. CASE UNCHANGED vars
  BY <1>5, <1>7 DEF vars
<1> QED  BY <1>2, <1>3, <1>4, <1>5, <1>6, <1>7 DEF Next, Run

LEMMA Inductive == ASSUME PipeAssumption PROVE Spec => []IInv
<1>1. Init => IInv
  BY Starts
<1>2. IInv /\ [Next]_vars => IInv'
  BY Kept
<1> QED  BY <1>1, <1>2, PTL DEF Spec

-----------------------------------------------------------------------------
\* pipewrite() and piperead() implement a bounded queue: no byte is lost,
\* repeated, overwritten or out of order, for every size of the ring, every
\* multiple of it at which the counters wrap, and every set of readers and
\* writers.
THEOREM FifoHolds == ASSUME PipeAssumption PROVE Spec => Fifo
<1>1. Init => Abs!Init
  BY Starts
<1>2. IInv /\ [Next]_vars => [Abs!Next]_(Abs!vars)
  BY Refines
<1> QED  BY <1>1, <1>2, Inductive, PTL DEF Spec, Fifo, Abs!Spec

\* With p->lock free, a writer sleeps only while the ring is full and a reader
\* only while it is empty, but for the bytes that a killed writer left: no
\* wakeup() of pipe.c is lost.
THEOREM NoLostWakeupHolds == ASSUME PipeAssumption PROVE Spec => []NoLostWakeup
<1>1. IInv => NoLostWakeup
  <2> SUFFICES ASSUME IInv, lock = None
               PROVE  /\ \A p \in Writer : pc[p] = "asleep" => Full /\ readopen
                      /\ \A p \in Reader : pc[p] = "asleep" =>
                           writeopen /\ (Empty \/ \E w \in Writer : killed[w])
    BY DEF NoLostWakeup
  <2>1. \A w \in Writer : pc[w] # "check"
    BY DEF IInv, Inside, Proc, PipeAssumption
  <2> QED  BY <2>1 DEF IInv, Waiting
<1> QED  BY <1>1, Inductive, PTL

\* When pipeclose() has given the page back, nobody is in pipewrite() or
\* piperead() and no descriptor for the pipe is open.
THEOREM NotUsedAfterFreeHolds == ASSUME PipeAssumption PROVE Spec => []NotUsedAfterFree
<1>1. IInv => NotUsedAfterFree
  <2> SUFFICES ASSUME IInv, freed
               PROVE  open = {} /\ lock = None /\ \A p \in Proc : pc[p] = "user"
    BY DEF NotUsedAfterFree
  <2>1. open = {}
    BY DEF IInv, Ends
  <2>2. \A p \in Proc : pc[p] = "user"
    BY <2>1 DEF IInv, Inside
  <2>3. lock = None
    BY <2>2 DEF IInv, Inside, TypeOK
  <2> QED  BY <2>1, <2>2, <2>3
<1> QED  BY <1>1, Inductive, PTL
=============================================================================
