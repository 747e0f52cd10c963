----------------------- MODULE UploadValidation_proofs -----------------------
(***************************************************************************)
(* Proofs about the validation of uploads, for files and archives of every *)
(* length and every setting of the limits.                                 *)
(*                                                                         *)
(* The library's induction theorems take an operator as a parameter. Here  *)
(* induction is over a set: the numbers for which a statement holds        *)
(* contain 0 and are closed under successor, so they are all the numbers.  *)
(***************************************************************************)
EXTENDS UploadValidation, FiniteSetTheorems, SequenceTheorems, WellFoundedInduction, TLAPS

---------------------------------------------------------------------------
(* Induction over the natural numbers and recursive functions.             *)

LEMMA SmallestOfSet ==
  ASSUME NEW T \in SUBSET Nat, T # {}
  PROVE  \E m \in T : \A k \in T : m <= k
<1> DEFINE Below(n) == 0 .. n
           D == {Below(n) : n \in T}
           R == StrictSubsetOrdering(Nat)
<1>1. D \subseteq FiniteSubsetsOf(Nat)
  <2> SUFFICES ASSUME NEW n \in T PROVE Below(n) \in FiniteSubsetsOf(Nat)
    OBVIOUS
  <2>1. IsFiniteSet(0 .. n)
    BY FS_Interval
  <2> QED
    BY <2>1 DEF FiniteSubsetsOf
<1>2. PICK x \in D : \A y \in D : ~(<<y, x>> \in R)
  <2>1. IsWellFoundedOn(R, FiniteSubsetsOf(Nat)) /\ D # {}
    BY FS_StrictSubsetOrderingWellFounded
  <2> HIDE DEF D, R
  <2> QED
    BY <1>1, <2>1, WFMin
<1>3. PICK m \in T : x = Below(m)
  BY <1>2
<1>4. ASSUME NEW k \in T, k < m PROVE FALSE
  <2>1. Below(k) \in SUBSET Nat /\ Below(m) \in SUBSET Nat
    OBVIOUS
  <2>2. Below(k) \subseteq Below(m) /\ m \in Below(m) /\ m \notin Below(k)
    BY <1>4
  <2>3. <<Below(k), Below(m)>> \in R
    BY <2>1, <2>2 DEF StrictSubsetOrdering
  <2> QED
    BY <1>2, <1>3, <2>3
<1> QED
  BY <1>4

LEMMA SetInduction ==
  ASSUME NEW T \in SUBSET Nat, 0 \in T, \A n \in T : n + 1 \in T
  PROVE  T = Nat
<1> SUFFICES ASSUME Nat \ T # {} PROVE FALSE
  OBVIOUS
<1>1. PICK m \in Nat \ T : \A k \in Nat \ T : m <= k
  BY SmallestOfSet
<1>2. m - 1 \in Nat /\ m - 1 \in T
  BY <1>1
<1>3. (m - 1) + 1 \in T
  BY <1>2
<1> QED
  BY <1>1, <1>3

(* A function that is defined from its value at the number before exists.  *)
IsStep(step, D, n) == step \in [D \X (1 .. n) -> D]
HasRecursion(step, D, n, c) ==
  \E g \in [0 .. n -> D] : g[0] = c /\ \A i \in 1 .. n : g[i] = step[<<g[i - 1], i>>]
LEMMA RecursionExists ==
  ASSUME NEW D, NEW c \in D, NEW n \in Nat, NEW step, IsStep(step, D, n)
  PROVE  HasRecursion(step, D, n, c)
<1> USE DEF IsStep
<1> DEFINE Good(g, k) == /\ g \in [0 .. k -> D] /\ g[0] = c
                         /\ \A i \in 1 .. k : g[i] = step[<<g[i - 1], i>>]
           T == {k \in Nat : k <= n => \E g : Good(g, k)}
<1>1. 0 \in T
  <2>1. Good([i \in 0 .. 0 |-> c], 0)
    OBVIOUS
  <2> QED
    BY <2>1
<1>2. ASSUME NEW k \in T PROVE k + 1 \in T
  <2> SUFFICES ASSUME k + 1 <= n PROVE \E g : Good(g, k + 1)
    OBVIOUS
  <2>1. PICK g : Good(g, k)
    BY <1>2
  <2>2. k \in 0 .. k /\ k + 1 \in 1 .. n /\ g[k] \in D
    BY <2>1
  <2> DEFINE h == [i \in 0 .. k + 1 |-> IF i <= k THEN g[i] ELSE step[<<g[k], k + 1>>]]
  <2>3. step[<<g[k], k + 1>>] \in D
    BY <2>2
  <2>4. h \in [0 .. k + 1 -> D]
    BY <2>1, <2>3
  <2>5. h[0] = c
    BY <2>1
  <2>6. ASSUME NEW i \in 1 .. k + 1 PROVE h[i] = step[<<h[i - 1], i>>]
    <3>1. CASE i <= k
      BY <2>1, <3>1
    <3>2. CASE ~(i <= k)
      <4>1. i = k + 1 /\ i - 1 = k
        BY <3>2
      <4>2. h[i] = step[<<g[k], k + 1>>] /\ h[i - 1] = g[k]
        BY <4>1
      <4> QED
        BY <4>1, <4>2
    <3> QED
      BY <3>1, <3>2
  <2>7. Good(h, k + 1)
    BY <2>4, <2>5, <2>6
  <2> QED
    BY <2>7
<1>3. T \in SUBSET Nat
  OBVIOUS
<1> HIDE DEF T
<1>4. T = Nat
  BY <1>1, <1>2, <1>3, SetInduction
<1>5. \E g : Good(g, n)
  <2>1. n \in T
    BY <1>4
  <2> HIDE DEF Good
  <2> QED
    BY <2>1 DEF T
<1> QED
  BY <1>5 DEF HasRecursion

---------------------------------------------------------------------------
(* The chunk that is read next.                                            *)

LEMMA PrefixProperties ==
  ASSUME NEW S, NEW s \in Seq(S), NEW n \in Nat
  PROVE  LET k == IF n < Len(s) THEN n ELSE Len(s) IN
         /\ Prefix(s, n) \in Seq(S) /\ Len(Prefix(s, n)) = k
         /\ \A i \in 1 .. k : Prefix(s, n)[i] = s[i]
<1> DEFINE k == IF n < Len(s) THEN n ELSE Len(s)
<1>1. Len(s) \in Nat /\ k \in 0 .. Len(s) /\ \A i \in 1 .. Len(s) : s[i] \in S
  BY LenProperties, ElementOfSeq
<1>2. Prefix(s, n) = SubSeq(s, 1, k)
  BY DEF Prefix
<1> HIDE DEF k
<1>3. /\ SubSeq(s, 1, k) \in Seq(S) /\ Len(SubSeq(s, 1, k)) = IF 1 <= k THEN k - 1 + 1 ELSE 0
      /\ \A i \in 1 .. k - 1 + 1 : SubSeq(s, 1, k)[i] = s[1 + i - 1]
  <2>1. \A i \in 1 .. k : s[i] \in S
    BY <1>1
  <2> QED
    BY <1>1, <2>1, SubSeqProperties
<1>4. Len(SubSeq(s, 1, k)) = k /\ \A i \in 1 .. k : SubSeq(s, 1, k)[i] = s[i]
  BY <1>1, <1>3
<1> QED
  BY <1>2, <1>3, <1>4 DEF k

(* Part of a sequence, as it is used below.                                *)
LEMMA PartProperties ==
  ASSUME NEW S, NEW s \in Seq(S), NEW n \in 0 .. Len(s), NEW k \in 0 .. Len(s) - n
  PROVE  /\ SubSeq(s, n + 1, n + k) \in Seq(S) /\ Len(SubSeq(s, n + 1, n + k)) = k
         /\ DOMAIN SubSeq(s, n + 1, n + k) = 1 .. k
         /\ \A i \in 1 .. k : SubSeq(s, n + 1, n + k)[i] = s[n + i]
<1> DEFINE part == SubSeq(s, n + 1, n + k)
<1>1. Len(s) \in Nat /\ \A i \in 1 .. Len(s) : s[i] \in S
  BY LenProperties, ElementOfSeq
<1>2. \A i \in n + 1 .. n + k : s[i] \in S
  BY <1>1
<1>3. /\ part \in Seq(S) /\ Len(part) = IF n + 1 <= n + k THEN n + k - (n + 1) + 1 ELSE 0
      /\ \A i \in 1 .. n + k - (n + 1) + 1 : part[i] = s[n + 1 + i - 1]
  BY <1>1, <1>2, SubSeqProperties
<1> HIDE DEF part
<1>4. Len(part) = k /\ \A i \in 1 .. k : part[i] = s[n + i]
  BY <1>1, <1>3
<1> QED
  BY <1>3, <1>4, LenProperties DEF part

(* What is read so far and the chunk are what is read afterwards.          *)
LEMMA ChunkIsNext ==
  ASSUME upload.bytes \in Seq(Bytes), position \in 0 .. Len(upload.bytes), ChunkSize \in Nat \ {0}
  PROVE  LET k == Len(Chunk) IN
         /\ k \in 0 .. Len(upload.bytes) - position
         /\ Chunk = SubSeq(upload.bytes, position + 1, position + k)
         /\ Chunk = << >> <=> position = Len(upload.bytes)
<1> DEFINE s == upload.bytes
           n == position
           rest == SubSeq(s, n + 1, Len(s))
           k == IF ChunkSize < Len(rest) THEN ChunkSize ELSE Len(rest)
<1>1. Len(s) \in Nat /\ Len(s) - n \in 0 .. Len(s) - n /\ n + (Len(s) - n) = Len(s)
  BY LenProperties
<1> HIDE DEF s, n
<1>2. /\ rest \in Seq(Bytes) /\ Len(rest) = Len(s) - n
      /\ \A i \in 1 .. Len(s) - n : rest[i] = s[n + i]
  <2>1. s \in Seq(Bytes) /\ n \in 0 .. Len(s)
    BY DEF s, n
  <2>2. PICK j \in 0 .. Len(s) - n : n + j = Len(s) /\ j = Len(s) - n
    BY <1>1
  <2>3. /\ SubSeq(s, n + 1, n + j) \in Seq(Bytes) /\ Len(SubSeq(s, n + 1, n + j)) = j
        /\ \A i \in 1 .. j : SubSeq(s, n + 1, n + j)[i] = s[n + i]
    BY <2>1, PartProperties
  <2>4. rest = SubSeq(s, n + 1, n + j)
    BY <2>2
  <2> HIDE DEF rest
  <2> QED
    BY <2>2, <2>3, <2>4
<1>3. Chunk = Prefix(rest, ChunkSize)
  BY DEF Chunk, s, n
<1>4. /\ Prefix(rest, ChunkSize) \in Seq(Bytes) /\ Len(Prefix(rest, ChunkSize)) = k
      /\ \A i \in 1 .. k : Prefix(rest, ChunkSize)[i] = rest[i]
  <2> HIDE DEF rest
  <2> QED
    BY <1>2, PrefixProperties
<1> HIDE DEF rest
<1>5. k \in 0 .. Len(s) - n /\ (k = 0 <=> n = Len(s))
  BY <1>1, <1>2 DEF n, s
<1>6. /\ SubSeq(s, n + 1, n + k) \in Seq(Bytes) /\ Len(SubSeq(s, n + 1, n + k)) = k
      /\ \A i \in 1 .. k : SubSeq(s, n + 1, n + k)[i] = s[n + i]
  <2>1. s \in Seq(Bytes) /\ n \in 0 .. Len(s)
    BY DEF s, n
  <2> HIDE DEF k
  <2> QED
    BY <1>5, <2>1, PartProperties
<1> HIDE DEF k
<1>7. Chunk \in Seq(Bytes) /\ Len(Chunk) = k /\ \A i \in 1 .. k : Chunk[i] = s[n + i]
  BY <1>1, <1>2, <1>3, <1>4, <1>5
<1>8. Chunk = SubSeq(s, n + 1, n + k)
  BY <1>6, <1>7, SeqEqual, SMTT(40)
<1>9. Chunk = << >> <=> k = 0
  BY <1>7, EmptySeq
<1> QED
  BY <1>5, <1>7, <1>8, <1>9 DEF s, n

---------------------------------------------------------------------------
(* Counting the bytes of a class, and keeping the first bytes.             *)

CountTo(s, n, class) == Cardinality({i \in 1 .. n : s[i] \in class})

LEMMA CountToIsCount ==
  ASSUME NEW s \in Seq(Bytes), NEW n \in 0 .. Len(s), NEW class
  PROVE  Count(SubSeq(s, 1, n), class) = CountTo(s, n, class)
<1> DEFINE part == SubSeq(s, 1, n)
<1>1. DOMAIN part = 1 .. n /\ \A i \in 1 .. n : part[i] = s[i]
  <2>1. Len(s) \in Nat
    BY LenProperties
  <2>2. 0 \in 0 .. Len(s) /\ n \in 0 .. Len(s) - 0 /\ 0 + 1 = 1 /\ 0 + n = n
    BY <2>1
  <2>3. DOMAIN SubSeq(s, 0 + 1, 0 + n) = 1 .. n /\ \A i \in 1 .. n : SubSeq(s, 0 + 1, 0 + n)[i] = s[0 + i]
    BY <2>2, PartProperties
  <2>4. part = SubSeq(s, 0 + 1, 0 + n) /\ \A i \in 1 .. n : 0 + i = i
    BY <2>2
  <2> HIDE DEF part
  <2> QED
    BY <2>3, <2>4
<1> HIDE DEF part
<1>2. {i \in DOMAIN part : part[i] \in class} = {i \in 1 .. n : s[i] \in class}
  BY <1>1
<1> QED
  BY <1>2 DEF Count, CountTo, part

(* The count of what was read and of the chunk add up.                     *)
LEMMA CountChunk ==
  ASSUME NEW s \in Seq(Bytes), NEW n \in 0 .. Len(s), NEW k \in 0 .. Len(s) - n, NEW class
  PROVE  CountTo(s, n + k, class) = CountTo(s, n, class) + Count(SubSeq(s, n + 1, n + k), class)
<1> DEFINE chunk == SubSeq(s, n + 1, n + k)
           A == {i \in 1 .. n : s[i] \in class}
           B == {i \in n + 1 .. n + k : s[i] \in class}
           C == {i \in DOMAIN chunk : chunk[i] \in class}
           f == [i \in C |-> n + i]
<1>1. DOMAIN chunk = 1 .. k /\ \A i \in 1 .. k : chunk[i] = s[n + i]
  BY PartProperties
<1>2. Len(s) \in Nat /\ n \in Nat /\ k \in Nat
  BY LenProperties
<1> HIDE DEF chunk
<1>3. IsFiniteSet(A) /\ IsFiniteSet(B) /\ IsFiniteSet(C)
  <2>1. IsFiniteSet(1 .. n) /\ IsFiniteSet(n + 1 .. n + k) /\ IsFiniteSet(1 .. k)
    BY <1>2, FS_Interval
  <2>2. A \in SUBSET (1 .. n) /\ B \in SUBSET (n + 1 .. n + k) /\ C \in SUBSET (1 .. k)
    BY <1>1
  <2> HIDE DEF A, B, C
  <2> QED
    BY <2>1, <2>2, FS_Subset
<1>4. {i \in 1 .. n + k : s[i] \in class} = A \cup B /\ A \cap B = {}
  BY <1>2
<1>5. f \in Bijection(C, B)
  <2>1. f \in [C -> B]
    BY <1>1, <1>2
  <2>2. \A i, j \in C : f[i] = f[j] => i = j
    BY <1>1, <1>2
  <2>3. \A b \in B : \E i \in C : f[i] = b
    <3> TAKE b \in B
    <3>1. b - n \in C
      BY <1>1, <1>2
    <3>2. f[b - n] = b
      BY <3>1, <1>2
    <3> QED
      BY <3>1, <3>2
  <2> HIDE DEF f, B, C
  <2> QED
    BY <2>1, <2>2, <2>3 DEF Bijection, Injection, Surjection, IsInjective
<1> HIDE DEF f, A, B, C
<1>6. Cardinality(B) = Cardinality(C)
  <2>1. ExistsBijection(C, B)
    BY <1>5 DEF ExistsBijection
  <2> QED
    BY <1>3, <2>1, FS_Bijection
<1>7. Cardinality(A \cup B) = Cardinality(A) + Cardinality(B)
  <2>1. Cardinality(A \cup B) = Cardinality(A) + Cardinality(B) - Cardinality(A \cap B)
    BY <1>3, FS_Union
  <2>2. Cardinality(A \cap B) = 0
    BY <1>4, FS_EmptySet
  <2>3. Cardinality(A) \in Nat /\ Cardinality(B) \in Nat
    BY <1>3, FS_CardinalityType
  <2> QED
    BY <2>1, <2>2, <2>3
<1> QED
  BY <1>4, <1>6, <1>7 DEF CountTo, Count, A, C, chunk

(* There is a byte of the class among the first n if and only if the count *)
(* is not 0.                                                               *)
LEMMA CountPositive ==
  ASSUME NEW s \in Seq(Bytes), NEW n \in 0 .. Len(s), NEW class
  PROVE  CountTo(s, n, class) \in Nat /\ (CountTo(s, n, class) > 0 <=> \E i \in 1 .. n : s[i] \in class)
<1> DEFINE A == {i \in 1 .. n : s[i] \in class}
<1>1. Len(s) \in Nat
  BY LenProperties
<1>2. IsFiniteSet(1 .. n) /\ A \in SUBSET (1 .. n)
  BY <1>1, FS_Interval
<1>3. (A # {}) <=> \E i \in 1 .. n : s[i] \in class
  OBVIOUS
<1> HIDE DEF A
<1>4. IsFiniteSet(A)
  BY <1>2, FS_Subset
<1>5. Cardinality(A) \in Nat /\ (Cardinality(A) = 0 <=> A = {})
  BY <1>4, FS_CardinalityType, FS_EmptySet
<1> QED
  BY <1>3, <1>5 DEF CountTo, A

(* The first bytes that are kept are those of the file.                    *)
LEMMA FirstBytes ==
  ASSUME NEW s \in Seq(Bytes), NEW n \in 0 .. Len(s), NEW k \in 0 .. Len(s) - n, NEW limit \in Nat,
         NEW first, first = Prefix(SubSeq(s, 1, n), limit)
  PROVE  /\ limit - Len(first) \in Nat
         /\ first \o Prefix(SubSeq(s, n + 1, n + k), limit - Len(first)) = Prefix(SubSeq(s, 1, n + k), limit)
<1> DEFINE read == SubSeq(s, 1, n)
           chunk == SubSeq(s, n + 1, n + k)
           all == SubSeq(s, 1, n + k)
           room == limit - Len(first)
           more == Prefix(chunk, room)
           after == first \o more
           want == Prefix(all, limit)
<1>1. Len(s) \in Nat /\ n \in Nat /\ k \in Nat
  BY LenProperties
<1>2. /\ read \in Seq(Bytes) /\ Len(read) = n /\ \A i \in 1 .. n : read[i] = s[i]
      /\ all \in Seq(Bytes) /\ Len(all) = n + k /\ \A i \in 1 .. n + k : all[i] = s[i]
  <2>1. \A j \in 0 .. Len(s) :
          LET part == SubSeq(s, 0 + 1, 0 + j) IN
          part \in Seq(Bytes) /\ Len(part) = j /\ \A i \in 1 .. j : part[i] = s[0 + i]
    <3> TAKE j \in 0 .. Len(s)
    <3>1. 0 \in 0 .. Len(s) /\ j \in 0 .. Len(s) - 0
      BY <1>1
    <3> QED
      BY <3>1, PartProperties
  <2>2. \A j \in 0 .. Len(s) :
          LET part == SubSeq(s, 1, j) IN
          part \in Seq(Bytes) /\ Len(part) = j /\ \A i \in 1 .. j : part[i] = s[i]
    <3> TAKE j \in 0 .. Len(s)
    <3>1. 0 + 1 = 1 /\ 0 + j = j /\ \A i \in 1 .. j : 0 + i = i
      OBVIOUS
    <3> QED
      BY <2>1, <3>1
  <2>3. n + k \in 0 .. Len(s)
    BY <1>1
  <2> QED
    BY <2>2, <2>3
<1>3. chunk \in Seq(Bytes) /\ Len(chunk) = k /\ \A i \in 1 .. k : chunk[i] = s[n + i]
  BY PartProperties
<1> HIDE DEF read, chunk, all
<1>4. /\ first \in Seq(Bytes) /\ Len(first) = (IF limit < n THEN limit ELSE n)
      /\ \A i \in 1 .. Len(first) : first[i] = s[i]
  <2>1. first = Prefix(read, limit)
    BY DEF read
  <2> QED
    BY <1>1, <1>2, <2>1, PrefixProperties, SMTT(40)
<1>5. room \in Nat
  BY <1>1, <1>4
<1>6. /\ more \in Seq(Bytes) /\ Len(more) = (IF room < k THEN room ELSE k)
      /\ \A i \in 1 .. Len(more) : more[i] = s[n + i]
  <2> HIDE DEF room
  <2> QED
    BY <1>1, <1>3, <1>5, PrefixProperties, SMTT(40)
<1>7. /\ want \in Seq(Bytes) /\ Len(want) = (IF limit < n + k THEN limit ELSE n + k)
      /\ \A i \in 1 .. Len(want) : want[i] = s[i]
  BY <1>1, <1>2, PrefixProperties
<1> HIDE DEF more, want
<1>8. /\ after \in Seq(Bytes) /\ Len(after) = Len(first) + Len(more)
      /\ \A i \in 1 .. Len(first) + Len(more) : after[i] = IF i <= Len(first) THEN first[i] ELSE more[i - Len(first)]
  BY <1>4, <1>6, ConcatProperties, ZenonT(60)
<1> HIDE DEF after
<1>9. Len(after) = Len(want)
  BY <1>1, <1>4, <1>6, <1>7, <1>8
<1>10. ASSUME NEW i \in 1 .. Len(after) PROVE after[i] = want[i]
  <2>1. CASE i <= Len(first)
    <3>1. i \in 1 .. Len(first) /\ i \in 1 .. Len(first) + Len(more) /\ i \in 1 .. Len(want)
      BY <1>1, <1>4, <1>6, <1>8, <1>9, <1>10, <2>1
    <3> QED
      BY <1>4, <1>7, <1>8, <2>1, <3>1
  <2>2. CASE ~(i <= Len(first))
    <3>1. Len(first) = n /\ i - n \in 1 .. Len(more)
      BY <1>1, <1>4, <1>6, <1>8, <1>10, <2>2
    <3>2. after[i] = s[n + (i - n)]
      BY <1>1, <1>6, <1>8, <1>10, <2>2, <3>1
    <3>3. n + (i - n) = i /\ i \in 1 .. Len(want)
      BY <1>1, <1>9, <3>1, <1>10
    <3> QED
      BY <1>7, <3>2, <3>3
  <2> QED
    BY <2>1, <2>2
<1>11. after = want
  BY <1>7, <1>8, <1>9, <1>10, SeqEqual
<1> QED
  BY <1>5, <1>11 DEF after, want, more, read, chunk, all

---------------------------------------------------------------------------
(* The decoder. The first n bytes are viable where some continuation of    *)
(* them is UTF-8, and owe the bytes that complete the last character.      *)

Viable(s, n) ==
  \A i \in 1 .. n :
     /\ s[i] # "bad"
     /\ \A k \in 1 .. Followers(s[i]) : i + k <= n => s[i + k] = "tail"
     /\ s[i] = "tail" => \E k \in 1 .. 3 : i - k >= 1 /\ Followers(s[i - k]) >= k
Owed(s, n) ==
  IF n >= 1 /\ Followers(s[n]) > 0 THEN Followers(s[n])
  ELSE IF n >= 2 /\ Followers(s[n - 1]) >= 2 THEN Followers(s[n - 1]) - 1
  ELSE IF n >= 3 /\ Followers(s[n - 2]) = 3 THEN 1 ELSE 0

LEMMA FollowersValue ==
  \A b : Followers(b) \in {0, 1, 2, 3} /\ (Followers(b) > 0 => b # "tail" /\ b # "bad")
BY DEF Followers

LEMMA ViableMonotone ==
  ASSUME NEW s, NEW n \in Nat, NEW k \in Nat, Viable(s, n + k)
  PROVE  Viable(s, n)
BY FollowersValue DEF Viable

(* A byte is owed where a sequence that has begun reaches beyond the end.  *)
LEMMA OwedReaches ==
  ASSUME NEW s, NEW n \in Nat
  PROVE  Owed(s, n) > 0 <=> \E k \in 1 .. 3 : n + 1 - k >= 1 /\ Followers(s[n + 1 - k]) >= k
<1>1. /\ n + 1 - 1 = n /\ (n + 1 - 1 >= 1 <=> n >= 1)
      /\ n + 1 - 2 = n - 1 /\ (n + 1 - 2 >= 1 <=> n >= 2)
      /\ n + 1 - 3 = n - 2 /\ (n + 1 - 3 >= 1 <=> n >= 3)
  OBVIOUS
<1>2. (\E k \in 1 .. 3 : n + 1 - k >= 1 /\ Followers(s[n + 1 - k]) >= k)
        <=> \/ n >= 1 /\ Followers(s[n]) >= 1
            \/ n >= 2 /\ Followers(s[n - 1]) >= 2
            \/ n >= 3 /\ Followers(s[n - 2]) >= 3
  <2>1. \A k \in 1 .. 3 : k = 1 \/ k = 2 \/ k = 3
    OBVIOUS
  <2> QED
    BY <1>1, <2>1
<1>3. Owed(s, n) > 0
        <=> \/ n >= 1 /\ Followers(s[n]) >= 1
            \/ n >= 2 /\ Followers(s[n - 1]) >= 2
            \/ n >= 3 /\ Followers(s[n - 2]) >= 3
  BY FollowersValue DEF Owed
<1> QED
  BY <1>2, <1>3

(* One more byte: it must continue the character exactly where one is owed.*)
LEMMA ViableNext ==
  ASSUME NEW s, NEW n \in Nat, Viable(s, n)
  PROVE  /\ Viable(s, n + 1) <=> s[n + 1] # "bad" /\ (Owed(s, n) > 0 <=> s[n + 1] = "tail")
         /\ Viable(s, n + 1) =>
              Owed(s, n + 1) = IF s[n + 1] = "tail" THEN Owed(s, n) - 1 ELSE Followers(s[n + 1])
<1> DEFINE b == s[n + 1]
<1>1. ASSUME Viable(s, n + 1) PROVE b # "bad" /\ (Owed(s, n) > 0 <=> b = "tail")
  <2>1. ASSUME Owed(s, n) > 0 PROVE b = "tail"
    <3>1. PICK k \in 1 .. 3 : n + 1 - k >= 1 /\ Followers(s[n + 1 - k]) >= k
      BY <2>1, OwedReaches
    <3>2. /\ n + 1 - k \in 1 .. n + 1 /\ k \in 1 .. Followers(s[n + 1 - k])
          /\ (n + 1 - k) + k = n + 1
      BY <3>1, FollowersValue
    <3> QED
      BY <1>1, <3>2 DEF Viable
  <2>2. n + 1 \in 1 .. n + 1
    OBVIOUS
  <2>3. ASSUME b = "tail" PROVE Owed(s, n) > 0
    BY <1>1, <2>2, <2>3, OwedReaches DEF Viable
  <2> QED
    BY <1>1, <2>1, <2>2, <2>3 DEF Viable
<1>2. ASSUME b # "bad", Owed(s, n) > 0 <=> b = "tail" PROVE Viable(s, n + 1)
  <2>1. ASSUME NEW i \in 1 .. n + 1, NEW k \in 1 .. Followers(s[i]), i + k <= n + 1
        PROVE  s[i + k] = "tail"
    <3>1. CASE i + k <= n
      <4>1. i \in 1 .. n
        BY <2>1, <3>1, FollowersValue
      <4> QED
        BY <2>1, <3>1, <4>1 DEF Viable
    <3>2. CASE i + k = n + 1
      <4>1. k \in 1 .. 3 /\ Followers(s[i]) >= k /\ i = n + 1 - k /\ n + 1 - k >= 1
        BY <2>1, <3>2, FollowersValue
      <4>2. Owed(s, n) > 0
        BY <4>1, OwedReaches
      <4> QED
        BY <1>2, <3>2, <4>2
    <3> QED
      BY <2>1, <3>1, <3>2, FollowersValue
  <2>2. ASSUME NEW i \in 1 .. n + 1, s[i] = "tail"
        PROVE  \E k \in 1 .. 3 : i - k >= 1 /\ Followers(s[i - k]) >= k
    <3>1. CASE i <= n
      BY <2>2, <3>1 DEF Viable
    <3>2. CASE i = n + 1
      BY <1>2, <2>2, <3>2, OwedReaches
    <3> QED
      BY <3>1, <3>2
  <2>3. ASSUME NEW i \in 1 .. n + 1 PROVE s[i] # "bad"
    <3>1. i \in 1 .. n \/ i = n + 1
      OBVIOUS
    <3> QED
      BY <1>2, <3>1 DEF Viable
  <2> QED
    BY <2>1, <2>2, <2>3 DEF Viable
<1>3. ASSUME Viable(s, n + 1)
      PROVE  Owed(s, n + 1) = IF b = "tail" THEN Owed(s, n) - 1 ELSE Followers(b)
  <2>1. Owed(s, n) > 0 <=> b = "tail"
    BY <1>1, <1>3
  <2>2. /\ n + 1 >= 1 /\ n + 1 - 1 = n /\ (n + 1 >= 2 <=> n >= 1)
        /\ n + 1 - 2 = n - 1 /\ (n + 1 >= 3 <=> n >= 2)
    OBVIOUS
  <2>3. Owed(s, n + 1) = IF Followers(b) > 0 THEN Followers(b)
                         ELSE IF n >= 1 /\ Followers(s[n]) >= 2 THEN Followers(s[n]) - 1
                         ELSE IF n >= 2 /\ Followers(s[n - 1]) = 3 THEN 1 ELSE 0
    BY <2>2 DEF Owed
  <2>4. n >= 2 /\ Followers(s[n - 1]) >= 1 => Followers(s[n]) = 0
    <3> SUFFICES ASSUME n >= 2, Followers(s[n - 1]) >= 1 PROVE Followers(s[n]) = 0
      OBVIOUS
    <3>1. n - 1 \in 1 .. n /\ 1 \in 1 .. Followers(s[n - 1]) /\ (n - 1) + 1 <= n /\ (n - 1) + 1 = n
      BY FollowersValue
    <3>2. s[n] = "tail"
      BY <3>1 DEF Viable
    <3> QED
      BY <3>2 DEF Followers
  <2>5. CASE b = "tail"
    <3>1. Followers(b) = 0 /\ Owed(s, n) > 0
      BY <2>1, <2>5 DEF Followers
    <3>2. CASE n >= 1 /\ Followers(s[n]) > 0
      <4>1. Owed(s, n) = Followers(s[n]) /\ ~(n >= 2 /\ Followers(s[n - 1]) = 3)
        BY <2>4, <3>2 DEF Owed
      <4>2. Followers(s[n]) \in {1, 2, 3}
        BY <3>2, FollowersValue
      <4> QED
        BY <2>3, <2>5, <3>1, <3>2, <4>1, <4>2
    <3>3. CASE ~(n >= 1 /\ Followers(s[n]) > 0)
      <4>1. ~(n >= 1 /\ Followers(s[n]) >= 2)
        BY <3>3, FollowersValue
      <4>2. Owed(s, n + 1) = IF n >= 2 /\ Followers(s[n - 1]) = 3 THEN 1 ELSE 0
        BY <2>3, <3>1, <4>1
      <4>3. Owed(s, n) = IF n >= 2 /\ Followers(s[n - 1]) >= 2 THEN Followers(s[n - 1]) - 1
                         ELSE IF n >= 3 /\ Followers(s[n - 2]) = 3 THEN 1 ELSE 0
        BY <3>3 DEF Owed
      <4>4. Followers(s[n - 1]) \in {0, 1, 2, 3}
        BY FollowersValue
      <4> QED
        BY <2>5, <3>1, <4>2, <4>3, <4>4
    <3> QED
      BY <3>2, <3>3
  <2>6. CASE b # "tail"
    <3>1. ~(Owed(s, n) > 0)
      BY <2>1, <2>6
    <3>2. /\ ~(n >= 1 /\ Followers(s[n]) >= 2)
          /\ ~(n >= 2 /\ Followers(s[n - 1]) = 3)
      BY <3>1, FollowersValue DEF Owed
    <3>3. Followers(b) \in {0, 1, 2, 3}
      BY FollowersValue
    <3> QED
      BY <2>3, <2>6, <3>2, <3>3
  <2> QED
    BY <2>5, <2>6
<1> QED
  BY <1>1, <1>2, <1>3

LEMMA OwedValue ==
  \A s : \A n \in Nat : Owed(s, n) \in {0, 1, 2, 3}
BY FollowersValue DEF Owed

LEMMA DecodeByteValue ==
  \A m \in 0 .. 4 : \A b : DecodeByte(m, b) \in 0 .. 4
BY DEF DecodeByte, Wrong

(* What the decoder makes of the next byte.                                *)
LEMMA DecodeStep ==
  ASSUME NEW s, NEW n \in Nat
  PROVE  LET m(k) == IF Viable(s, k) THEN Owed(s, k) ELSE Wrong
         IN m(n + 1) = DecodeByte(m(n), s[n + 1])
<1>1. CASE Viable(s, n)
  <2> DEFINE o == Owed(s, n)
             b == s[n + 1]
  <2>1. o \in {0, 1, 2, 3} /\ o # Wrong
    BY OwedValue DEF Wrong
  <2>2. /\ Viable(s, n + 1) <=> b # "bad" /\ (o > 0 <=> b = "tail")
        /\ Viable(s, n + 1) => Owed(s, n + 1) = IF b = "tail" THEN o - 1 ELSE Followers(b)
    BY <1>1, ViableNext
  <2> HIDE DEF o, b
  <2>3. CASE b = "tail"
    <3>1. DecodeByte(o, b) = IF o = 0 THEN Wrong ELSE o - 1
      BY <2>1, <2>3 DEF DecodeByte
    <3> QED
      BY <1>1, <2>1, <2>2, <2>3, <3>1 DEF o, b
  <2>4. CASE b # "tail"
    <3>1. DecodeByte(o, b) = IF o # 0 \/ b = "bad" THEN Wrong ELSE Followers(b)
      BY <2>1, <2>4 DEF DecodeByte, Followers
    <3> QED
      BY <1>1, <2>1, <2>2, <2>4, <3>1 DEF o, b
  <2> QED
    BY <2>3, <2>4
<1>2. CASE ~Viable(s, n)
  <2>1. ~Viable(s, n + 1)
    BY <1>2, ViableMonotone
  <2>2. DecodeByte(Wrong, s[n + 1]) = Wrong
    BY DEF DecodeByte
  <2> QED
    BY <1>2, <2>1, <2>2
<1> QED
  BY <1>1, <1>2

(* The recursive definition of Decoded defines a function.                 *)
LEMMA DecodedUnfolds ==
  ASSUME NEW missing \in 0 .. 4, NEW chunk \in Seq(Bytes)
  PROVE  LET after == Decoded(missing, chunk) IN
         /\ after[0] = missing
         /\ \A n \in 1 .. Len(chunk) : after[n] = DecodeByte(after[n - 1], chunk[n])
<1> DEFINE N == Len(chunk)
           Def(g) == [n \in 0 .. N |-> IF n = 0 THEN missing ELSE DecodeByte(g[n - 1], chunk[n])]
           step == [p \in (0 .. 4) \X (1 .. N) |-> DecodeByte(p[1], chunk[p[2]])]
<1>1. N \in Nat
  BY LenProperties
<1>2. step \in [(0 .. 4) \X (1 .. N) -> 0 .. 4]
  BY DecodeByteValue
<1>3. PICK g \in [0 .. N -> 0 .. 4] : g[0] = missing /\ \A i \in 1 .. N : g[i] = step[<<g[i - 1], i>>]
  <2> DEFINE D == 0 .. 4
  <2>1. missing \in D /\ IsStep(step, D, N)
    BY <1>2 DEF IsStep
  <2> HIDE DEF step, N, D
  <2>2. HasRecursion(step, D, N, missing)
    BY <1>1, <2>1, RecursionExists
  <2> QED
    BY <2>2 DEF D, HasRecursion
<1>4. ASSUME NEW i \in 1 .. N PROVE g[i] = DecodeByte(g[i - 1], chunk[i])
  <2>1. g[i - 1] \in 0 .. 4
    BY <1>1, <1>3
  <2> QED
    BY <1>3, <2>1
<1>5. g = Def(g)
  <2>1. \A i \in 0 .. N : g[i] = IF i = 0 THEN missing ELSE DecodeByte(g[i - 1], chunk[i])
    <3> TAKE i \in 0 .. N
    <3>1. i = 0 \/ i \in 1 .. N
      BY <1>1
    <3> QED
      BY <1>3, <1>4, <3>1
  <2> QED
    BY <1>3, <2>1
<1>6. Decoded(missing, chunk) = CHOOSE f : f = Def(f)
  BY DEF Decoded
<1>7. Decoded(missing, chunk) = Def(Decoded(missing, chunk))
  <2> HIDE DEF Def
  <2> QED
    BY <1>5, <1>6
<1> QED
  BY <1>1, <1>7

(* A chunk is decoded to the state of what is read, wherever it is cut.    *)
LEMMA DecodeChunk ==
  ASSUME NEW s \in Seq(Bytes), NEW n \in 0 .. Len(s), NEW k \in 0 .. Len(s) - n, Viable(s, n)
  PROVE  Decode(Owed(s, n), SubSeq(s, n + 1, n + k)) =
           IF Viable(s, n + k) THEN Owed(s, n + k) ELSE Wrong
<1> DEFINE chunk == SubSeq(s, n + 1, n + k)
           after == Decoded(Owed(s, n), chunk)
           m(i) == IF Viable(s, n + i) THEN Owed(s, n + i) ELSE Wrong
           T == {i \in Nat : i <= k => after[i] = m(i)}
<1>1. Len(s) \in Nat /\ n \in Nat /\ k \in Nat
  BY LenProperties
<1>2. chunk \in Seq(Bytes) /\ Len(chunk) = k /\ \A i \in 1 .. k : chunk[i] = s[n + i]
  BY PartProperties
<1> HIDE DEF chunk
<1>3. Owed(s, n) \in 0 .. 4
  BY <1>1, OwedValue
<1>4. after[0] = Owed(s, n) /\ \A i \in 1 .. k : after[i] = DecodeByte(after[i - 1], chunk[i])
  BY <1>2, <1>3, DecodedUnfolds
<1> HIDE DEF after
<1>5. 0 \in T
  BY <1>1, <1>4
<1>6. ASSUME NEW i \in T PROVE i + 1 \in T
  <2> SUFFICES ASSUME i + 1 <= k PROVE after[i + 1] = m(i + 1)
    OBVIOUS
  <2>1. after[i] = m(i) /\ i + 1 \in 1 .. k /\ (i + 1) - 1 = i
    BY <1>1, <1>6
  <2>2. after[i + 1] = DecodeByte(m(i), s[n + (i + 1)])
    <3> HIDE DEF m
    <3> QED
      BY <1>2, <1>4, <2>1
  <2>3. n + i \in Nat /\ (n + i) + 1 = n + (i + 1)
    BY <1>1
  <2>4. m(i + 1) = DecodeByte(m(i), s[n + (i + 1)])
    BY <2>3, DecodeStep
  <2> QED
    BY <2>2, <2>4
<1>7. T = Nat
  <2>1. T \in SUBSET Nat
    OBVIOUS
  <2> HIDE DEF T
  <2> QED
    BY <1>5, <1>6, <2>1, SetInduction
<1>8. k \in T
  BY <1>1, <1>7
<1>9. after[k] = m(k)
  <2> HIDE DEF m
  <2> QED
    BY <1>8
<1> QED
  BY <1>2, <1>9 DEF Decode, after, chunk

(* A whole sequence is UTF-8 if it is viable and owes nothing.             *)
LEMMA WellFormedIsViable ==
  ASSUME NEW t \in Seq(Bytes)
  PROVE  WellFormed(t) <=> Viable(t, Len(t)) /\ Owed(t, Len(t)) = 0
<1> DEFINE L == Len(t)
<1>1. L \in Nat /\ DOMAIN t = 1 .. L
  BY LenProperties
<1> HIDE DEF L
<1>2. ASSUME WellFormed(t) PROVE Viable(t, L) /\ Owed(t, L) = 0
  <2>1. Viable(t, L)
    <3>1. ASSUME NEW i \in 1 .. L, NEW k \in 1 .. Followers(t[i]) PROVE t[i + k] = "tail"
      BY <1>1, <1>2, <3>1 DEF WellFormed
    <3>2. ASSUME NEW i \in 1 .. L, t[i] = "tail"
          PROVE  \E k \in 1 .. 3 : i - k >= 1 /\ Followers(t[i - k]) >= k
      <4>1. PICK k \in 1 .. 3 : i - k \in DOMAIN t /\ Followers(t[i - k]) >= k
        BY <1>1, <1>2, <3>2 DEF WellFormed
      <4> QED
        BY <1>1, <4>1
    <3>3. \A i \in 1 .. L : t[i] # "bad"
      BY <1>1, <1>2 DEF WellFormed
    <3> QED
      BY <3>1, <3>2, <3>3 DEF Viable
  <2>2. ASSUME Owed(t, L) > 0 PROVE FALSE
    <3>1. PICK k \in 1 .. 3 : L + 1 - k >= 1 /\ Followers(t[L + 1 - k]) >= k
      BY <1>1, <2>2, OwedReaches
    <3>2. /\ L + 1 - k \in DOMAIN t /\ k \in 1 .. Followers(t[L + 1 - k])
          /\ (L + 1 - k) + k \notin DOMAIN t
      BY <1>1, <3>1, FollowersValue
    <3> QED
      BY <1>2, <3>2 DEF WellFormed
  <2>3. Owed(t, L) \in {0, 1, 2, 3}
    BY <1>1, FollowersValue DEF Owed
  <2> QED
    BY <2>1, <2>2, <2>3
<1>3. ASSUME Viable(t, L), Owed(t, L) = 0 PROVE WellFormed(t)
  <2>1. ASSUME NEW i \in DOMAIN t, NEW k \in 1 .. Followers(t[i])
        PROVE  i + k \in DOMAIN t /\ t[i + k] = "tail"
    <3>1. k \in 1 .. 3 /\ Followers(t[i]) >= k /\ i \in 1 .. L
      BY <1>1, <2>1, FollowersValue
    <3>2. ASSUME ~(i + k <= L) PROVE FALSE
      <4> DEFINE j == L + 1 - i
      <4>1. j \in 1 .. 3 /\ L + 1 - j = i /\ i >= 1 /\ j <= k
        BY <1>1, <3>1, <3>2
      <4>2. Followers(t[i]) >= j
        BY <3>1, <4>1, FollowersValue
      <4> HIDE DEF j
      <4>3. L + 1 - j >= 1 /\ Followers(t[L + 1 - j]) >= j
        BY <4>1, <4>2
      <4> QED
        BY <1>1, <1>3, <4>1, <4>3, OwedReaches
    <3> QED
      BY <1>1, <1>3, <3>1, <3>2 DEF Viable
  <2>2. ASSUME NEW i \in DOMAIN t, t[i] = "tail"
        PROVE  \E k \in 1 .. 3 : i - k \in DOMAIN t /\ Followers(t[i - k]) >= k
    <3>1. PICK k \in 1 .. 3 : i - k >= 1 /\ Followers(t[i - k]) >= k
      BY <1>1, <1>3, <2>2 DEF Viable
    <3>2. i - k \in DOMAIN t
      BY <1>1, <3>1
    <3> QED
      BY <3>1, <3>2
  <2>3. \A i \in DOMAIN t : t[i] # "bad"
    BY <1>1, <1>3 DEF Viable
  <2> QED
    BY <2>1, <2>2, <2>3 DEF WellFormed
<1> QED
  BY <1>2, <1>3 DEF L

LEMMA AgreeingPrefix ==
  ASSUME NEW s, NEW t, NEW n \in Nat, \A i \in 1 .. n : s[i] = t[i]
  PROVE  (Viable(s, n) <=> Viable(t, n)) /\ Owed(s, n) = Owed(t, n)
<1>1. ASSUME NEW a, NEW b, \A i \in 1 .. n : a[i] = b[i], Viable(a, n) PROVE Viable(b, n)
  <2>1. ASSUME NEW i \in 1 .. n, NEW k \in 1 .. Followers(b[i]), i + k <= n PROVE b[i + k] = "tail"
    <3>1. i + k \in 1 .. n
      BY <2>1, FollowersValue
    <3> QED
      BY <1>1, <2>1, <3>1 DEF Viable
  <2>2. ASSUME NEW i \in 1 .. n, b[i] = "tail" PROVE \E k \in 1 .. 3 : i - k >= 1 /\ Followers(b[i - k]) >= k
    <3>1. PICK k \in 1 .. 3 : i - k >= 1 /\ Followers(a[i - k]) >= k
      BY <1>1, <2>2 DEF Viable
    <3>2. a[i - k] = b[i - k]
      BY <1>1, <3>1
    <3> QED
      BY <3>1, <3>2
  <2>3. \A i \in 1 .. n : b[i] # "bad"
    BY <1>1 DEF Viable
  <2> QED
    BY <2>1, <2>2, <2>3 DEF Viable
<1>2. Owed(s, n) = Owed(t, n)
  <2>1. n >= 1 => s[n] = t[n]
    OBVIOUS
  <2>2. n >= 2 => s[n - 1] = t[n - 1]
    <3>1. n >= 2 => n - 1 \in 1 .. n
      OBVIOUS
    <3> QED
      BY <3>1
  <2>3. n >= 3 => s[n - 2] = t[n - 2]
    <3>1. n >= 3 => n - 2 \in 1 .. n
      OBVIOUS
    <3> QED
      BY <3>1
  <2> QED
    BY <2>1, <2>2, <2>3 DEF Owed
<1> QED
  BY <1>1, <1>2

(* The first n bytes: whether they are UTF-8, and whether they can become  *)
(* it.                                                                     *)
LEMMA PrefixWellFormed ==
  ASSUME NEW s \in Seq(Bytes), NEW n \in 0 .. Len(s)
  PROVE  LET read == SubSeq(s, 1, n) IN
         /\ read \in Seq(Bytes) /\ Len(read) = n /\ DOMAIN read = 1 .. n
         /\ \A i \in 1 .. n : read[i] = s[i]
         /\ WellFormed(read) <=> Viable(s, n) /\ Owed(s, n) = 0
<1> DEFINE read == SubSeq(s, 1, n)
<1>1. n \in Nat
  BY LenProperties
<1>2. read \in Seq(Bytes) /\ Len(read) = n /\ DOMAIN read = 1 .. n /\ \A i \in 1 .. n : read[i] = s[i]
  <2>1. 0 \in 0 .. Len(s) /\ n \in 0 .. Len(s) - 0
    BY LenProperties
  <2>2. LET part == SubSeq(s, 0 + 1, 0 + n) IN
        part \in Seq(Bytes) /\ Len(part) = n /\ DOMAIN part = 1 .. n /\ \A i \in 1 .. n : part[i] = s[0 + i]
    BY <2>1, PartProperties
  <2>3. 0 + 1 = 1 /\ 0 + n = n /\ \A i \in 1 .. n : 0 + i = i
    BY <1>1
  <2> QED
    BY <2>2, <2>3
<1> HIDE DEF read
<1>3. WellFormed(read) <=> Viable(read, n) /\ Owed(read, n) = 0
  BY <1>2, WellFormedIsViable
<1>4. (Viable(s, n) <=> Viable(read, n)) /\ Owed(s, n) = Owed(read, n)
  BY <1>1, <1>2, AgreeingPrefix
<1> QED
  BY <1>2, <1>3, <1>4 DEF read

(* Appending the bytes that are owed, or any other number of them.         *)
Completed(read, m) == read \o [i \in 1 .. m |-> "tail"]

LEMMA Completion ==
  ASSUME NEW s \in Seq(Bytes), NEW n \in 0 .. Len(s)
  PROVE  (\E m \in 0 .. 3 : WellFormed(Completed(SubSeq(s, 1, n), m))) <=> Viable(s, n)
<1> DEFINE read == SubSeq(s, 1, n)
           t(m) == Completed(read, m)
<1>1. n \in Nat /\ read \in Seq(Bytes) /\ Len(read) = n /\ \A i \in 1 .. n : read[i] = s[i]
  BY PrefixWellFormed, LenProperties
<1> HIDE DEF read
<1>2. ASSUME NEW m \in 0 .. 3
      PROVE  /\ t(m) \in Seq(Bytes) /\ Len(t(m)) = n + m
             /\ \A i \in 1 .. n : t(m)[i] = s[i]
             /\ \A i \in 1 .. m : t(m)[n + i] = "tail"
             /\ Viable(t(m), n) <=> Viable(s, n)
             /\ Owed(t(m), n) = Owed(s, n)
  <2> DEFINE more == [i \in 1 .. m |-> "tail"]
             all == read \o more
  <2>1. more \in Seq(Bytes) /\ Len(more) = m /\ \A i \in 1 .. m : more[i] = "tail"
    BY DEF Bytes
  <2> HIDE DEF more
  <2>2. /\ all \in Seq(Bytes) /\ Len(all) = n + m
        /\ \A i \in 1 .. n + m : all[i] = IF i <= n THEN read[i] ELSE more[i - n]
    BY <1>1, <2>1, ConcatProperties
  <2>3. t(m) = all
    BY DEF Completed, more
  <2> HIDE DEF all, t
  <2>4. \A i \in 1 .. n : all[i] = s[i]
    <3> TAKE i \in 1 .. n
    <3>1. i \in 1 .. n + m /\ i <= n
      BY <1>1
    <3> QED
      BY <1>1, <2>2, <3>1
  <2>5. \A i \in 1 .. m : all[n + i] = "tail"
    <3> TAKE i \in 1 .. m
    <3>1. n + i \in 1 .. n + m /\ ~(n + i <= n) /\ (n + i) - n = i
      BY <1>1
    <3> QED
      BY <2>1, <2>2, <3>1
  <2>6. (Viable(all, n) <=> Viable(s, n)) /\ Owed(all, n) = Owed(s, n)
    BY <1>1, <2>4, AgreeingPrefix
  <2> QED
    BY <2>2, <2>3, <2>4, <2>5, <2>6
<1> HIDE DEF t
<1>3. ASSUME NEW m \in 0 .. 3, WellFormed(t(m)) PROVE Viable(s, n)
  <2>1. Viable(t(m), n + m)
    BY <1>2, <1>3, WellFormedIsViable
  <2>2. Viable(t(m), n)
    BY <1>1, <2>1, ViableMonotone
  <2> QED
    BY <1>2, <2>2
<1>4. ASSUME Viable(s, n) PROVE \E m \in 0 .. 3 : WellFormed(t(m))
  <2> DEFINE o == Owed(s, n)
             c == t(o)
  <2>1. o \in 0 .. 3
    BY <1>1, OwedValue
  <2> HIDE DEF o
  <2>2. /\ c \in Seq(Bytes) /\ Len(c) = n + o /\ \A i \in 1 .. o : c[n + i] = "tail"
        /\ Viable(c, n) /\ Owed(c, n) = o
    BY <1>2, <1>4, <2>1 DEF o
  <2> HIDE DEF c
  <2>3. o >= 1 => Viable(c, n + 1) /\ Owed(c, n + 1) = o - 1
    <3>1. o >= 1 => c[n + 1] = "tail"
      BY <2>1, <2>2
    <3> QED
      BY <1>1, <2>1, <2>2, <3>1, ViableNext
  <2>4. o >= 2 => Viable(c, n + 2) /\ Owed(c, n + 2) = o - 2
    <3>1. o >= 2 => o >= 1 /\ c[n + 2] = "tail" /\ n + 1 \in Nat /\ (n + 1) + 1 = n + 2
      BY <1>1, <2>1, <2>2
    <3>2. o >= 2 => Viable(c, n + 2) /\ Owed(c, n + 2) = (o - 1) - 1
      BY <1>1, <2>1, <2>3, <3>1, ViableNext
    <3> QED
      BY <2>1, <3>2
  <2>5. o = 3 => Viable(c, n + 3) /\ Owed(c, n + 3) = 0
    <3>1. o = 3 => o >= 2 /\ c[n + 3] = "tail" /\ n + 2 \in Nat /\ (n + 2) + 1 = n + 3
      BY <1>1, <2>1, <2>2
    <3>2. o = 3 => Viable(c, n + 3) /\ Owed(c, n + 3) = (o - 2) - 1
      BY <1>1, <2>1, <2>4, <3>1, ViableNext
    <3> QED
      BY <3>2
  <2>6. Viable(c, n + o) /\ Owed(c, n + o) = 0
    <3>1. CASE o = 0
      BY <1>1, <2>2, <3>1
    <3>2. CASE o = 1
      BY <2>3, <3>2
    <3>3. CASE o = 2
      BY <2>4, <3>3
    <3>4. CASE o = 3
      BY <2>5, <3>4
    <3> QED
      BY <2>1, <3>1, <3>2, <3>3, <3>4
  <2>7. WellFormed(c)
    BY <2>2, <2>6, WellFormedIsViable
  <2> QED
    BY <2>1, <2>7 DEF c
<1> QED
  BY <1>3, <1>4 DEF t, read

(* Whatever was decoded before, the decoder holds a number of bytes.       *)
LEMMA DecodeValue ==
  ASSUME NEW missing \in 0 .. 4, NEW chunk \in Seq(Bytes)
  PROVE  Decode(missing, chunk) \in 0 .. 4
<1> DEFINE after == Decoded(missing, chunk)
           T == {i \in Nat : i <= Len(chunk) => after[i] \in 0 .. 4}
<1>1. Len(chunk) \in Nat
  BY LenProperties
<1>2. after[0] = missing /\ \A i \in 1 .. Len(chunk) : after[i] = DecodeByte(after[i - 1], chunk[i])
  BY DecodedUnfolds
<1> HIDE DEF after
<1>3. 0 \in T
  BY <1>2
<1>4. ASSUME NEW i \in T PROVE i + 1 \in T
  <2> SUFFICES ASSUME i + 1 <= Len(chunk) PROVE after[i + 1] \in 0 .. 4
    OBVIOUS
  <2>1. after[i] \in 0 .. 4 /\ i + 1 \in 1 .. Len(chunk) /\ (i + 1) - 1 = i
    BY <1>1, <1>4
  <2> QED
    BY <1>2, <2>1, DecodeByteValue
<1>5. T = Nat
  <2>1. T \in SUBSET Nat
    OBVIOUS
  <2> HIDE DEF T
  <2> QED
    BY <1>3, <1>4, <2>1, SetInduction
<1> QED
  BY <1>1, <1>5 DEF Decode, after

---------------------------------------------------------------------------
(* A signature is found in the first bytes if the file starts with it.     *)

LEMMA SignatureFound ==
  ASSUME NEW s \in Seq(Bytes), NEW signature \in Seq(Bytes), NEW limit \in Nat, Len(signature) <= limit
  PROVE  Prefix(Prefix(SubSeq(s, 1, Len(s)), limit), Len(signature)) = signature <=> Starts(s, signature)
<1> DEFINE m == Len(signature)
           first == Prefix(s, limit)
           start == Prefix(first, m)
<1>1. Len(s) \in Nat /\ m \in Nat /\ m <= limit /\ SubSeq(s, 1, Len(s)) = s /\ SubSeq(signature, 1, m) = signature
  BY LenProperties, SubSeqFull
<1>2. /\ first \in Seq(Bytes) /\ Len(first) = (IF limit < Len(s) THEN limit ELSE Len(s))
      /\ \A i \in 1 .. Len(first) : first[i] = s[i]
  BY <1>1, PrefixProperties
<1> HIDE DEF m, first
<1>3. /\ start \in Seq(Bytes) /\ Len(start) = (IF m < Len(first) THEN m ELSE Len(first))
      /\ \A i \in 1 .. Len(start) : start[i] = first[i]
  BY <1>1, <1>2, PrefixProperties
<1> HIDE DEF start
<1>4. ASSUME m <= Len(s)
      PROVE  start = SubSeq(s, 1, m)
  <2> DEFINE part == SubSeq(s, 1, m)
  <2>1. m \in 0 .. Len(s) /\ Len(start) = m
    <3>1. m \in 0 .. Len(s)
      BY <1>1, <1>4
    <3>2. Len(first) >= m /\ Len(first) \in Nat
      BY <1>1, <1>2, <1>4
    <3>3. Len(start) = m
      BY <1>1, <1>3, <3>2
    <3> QED
      BY <3>1, <3>3
  <2>2. part \in Seq(Bytes) /\ Len(part) = m /\ \A i \in 1 .. m : part[i] = s[i]
    BY <2>1, PrefixWellFormed
  <2> HIDE DEF part
  <2>3. \A i \in 1 .. m : i \in 1 .. Len(first)
    BY <1>1, <1>2, <1>4
  <2>4. \A i \in 1 .. m : start[i] = part[i]
    BY <1>2, <1>3, <2>1, <2>2, <2>3
  <2>5. start = part
    BY <1>3, <2>1, <2>2, <2>4, SeqEqual
  <2> QED
    BY <2>5 DEF part
<1>5. ASSUME ~(m <= Len(s)) PROVE start # signature
  <2>1. Len(start) < m
    BY <1>1, <1>2, <1>3, <1>5
  <2> QED
    BY <1>1, <2>1 DEF m
<1>6. Starts(s, signature) <=> m <= Len(s) /\ signature = SubSeq(s, 1, m)
  BY <1>1 DEF Starts, IsPrefix, m
<1> QED
  BY <1>1, <1>4, <1>5, <1>6 DEF start, first, m

---------------------------------------------------------------------------
(* The archive: sizes add up, and do not shrink.                           *)

LEMMA UncompressedUnfolds ==
  ASSUME NEW entries, Len(entries) \in Nat, \A i \in 1 .. Len(entries) : entries[i].size \in Nat
  PROVE  LET size == Uncompressed(entries) IN
         /\ size[0] = 0 /\ \A n \in 0 .. Len(entries) : size[n] \in Nat
         /\ \A n \in 1 .. Len(entries) : size[n] = size[n - 1] + entries[n].size
<1> DEFINE N == Len(entries)
           Def(g) == [n \in 0 .. N |-> IF n = 0 THEN 0 ELSE g[n - 1] + entries[n].size]
           step == [p \in Nat \X (1 .. N) |-> p[1] + entries[p[2]].size]
<1>1. N \in Nat
  OBVIOUS
<1>2. IsStep(step, Nat, N)
  BY DEF IsStep
<1>3. PICK g \in [0 .. N -> Nat] : g[0] = 0 /\ \A i \in 1 .. N : g[i] = step[<<g[i - 1], i>>]
  <2> HIDE DEF step, N
  <2>1. HasRecursion(step, Nat, N, 0)
    BY <1>1, <1>2, RecursionExists
  <2> QED
    BY <2>1 DEF HasRecursion
<1>4. ASSUME NEW i \in 1 .. N PROVE g[i] = g[i - 1] + entries[i].size
  <2>1. g[i - 1] \in Nat
    BY <1>1, <1>3
  <2> QED
    BY <1>3, <2>1
<1>5. g = Def(g)
  <2>1. \A i \in 0 .. N : g[i] = IF i = 0 THEN 0 ELSE g[i - 1] + entries[i].size
    <3> TAKE i \in 0 .. N
    <3>1. i = 0 \/ i \in 1 .. N
      BY <1>1
    <3> QED
      BY <1>3, <1>4, <3>1
  <2> QED
    BY <1>3, <2>1
<1>6. Uncompressed(entries) = CHOOSE f : f = Def(f)
  BY DEF Uncompressed
<1> DEFINE size == Uncompressed(entries)
<1>7. size = Def(size)
  <2> HIDE DEF Def
  <2> QED
    BY <1>5, <1>6
<1> HIDE DEF size
<1>8. size[0] = 0 /\ \A n \in 1 .. N : size[n] = size[n - 1] + entries[n].size
  BY <1>1, <1>7
<1>9. \A n \in 0 .. N : size[n] \in Nat
  <2> DEFINE T == {n \in Nat : n <= N => size[n] \in Nat}
  <2>1. 0 \in T
    BY <1>8
  <2>2. ASSUME NEW n \in T PROVE n + 1 \in T
    <3> SUFFICES ASSUME n + 1 <= N PROVE size[n + 1] \in Nat
      OBVIOUS
    <3>1. size[n] \in Nat /\ n + 1 \in 1 .. N /\ (n + 1) - 1 = n
      BY <1>1, <2>2
    <3> QED
      BY <1>8, <3>1
  <2>3. T = Nat
    <3>1. T \in SUBSET Nat
      OBVIOUS
    <3> HIDE DEF T
    <3> QED
      BY <2>1, <2>2, <3>1, SetInduction
  <2> QED
    BY <2>3
<1> QED
  BY <1>8, <1>9 DEF size

LEMMA UncompressedGrows ==
  ASSUME NEW entries, Len(entries) \in Nat, \A i \in 1 .. Len(entries) : entries[i].size \in Nat,
         NEW n \in 0 .. Len(entries)
  PROVE  Uncompressed(entries)[n] <= Uncompressed(entries)[Len(entries)]
<1> DEFINE N == Len(entries)
           size == Uncompressed(entries)
           T == {k \in Nat : n + k <= N => size[n] <= size[n + k]}
<1>1. /\ \A i \in 0 .. N : size[i] \in Nat
      /\ \A i \in 1 .. N : size[i] = size[i - 1] + entries[i].size
  BY UncompressedUnfolds
<1> HIDE DEF size
<1>2. 0 \in T
  BY <1>1
<1>3. ASSUME NEW k \in T PROVE k + 1 \in T
  <2> SUFFICES ASSUME n + (k + 1) <= N PROVE size[n] <= size[n + (k + 1)]
    OBVIOUS
  <2>1. /\ size[n] <= size[n + k] /\ n + (k + 1) \in 1 .. N /\ (n + (k + 1)) - 1 = n + k
        /\ n + k \in 0 .. N
    BY <1>3
  <2> QED
    BY <1>1, <2>1, SMTT(40)
<1>4. T = Nat
  <2>1. T \in SUBSET Nat
    OBVIOUS
  <2> HIDE DEF T
  <2> QED
    BY <1>2, <1>3, <2>1, SetInduction
<1>5. N - n \in Nat /\ n + (N - n) = N
  BY DEF N
<1>6. N - n \in T
  <2> HIDE DEF T
  <2> QED
    BY <1>4, <1>5
<1>7. n + (N - n) <= N => size[n] <= size[n + (N - n)]
  <2> DEFINE k == N - n
  <2>1. k \in T
    BY <1>6
  <2> HIDE DEF k
  <2>2. n + k <= N => size[n] <= size[n + k]
    BY <2>1
  <2> QED
    BY <2>2 DEF k
<1>8. n + (N - n) <= N
  BY <1>1, <1>5
<1> QED
  BY <1>5, <1>7, <1>8 DEF size

---------------------------------------------------------------------------
(* The invariant: what is known while an upload is validated.              *)

Size == Len(upload.bytes)
Named ==
  /\ upload.extension \in AllowedExtensions \cap DOMAIN MimeTypes
  /\ upload.mime \in MimeTypes[upload.extension]

ScanType ==
  scan \in [ total : Nat, first : Seq(Bytes), control : Nat, nul : BOOLEAN,
             missing : 0 .. 4, utf8_error : BOOLEAN ]
TypeInv ==
  /\ upload \in Uploads /\ position \in 0 .. Size
  /\ at \in {"names", "scan", "type", "entries", "done"}
  /\ at # "done" => verdict = None
  /\ ScanType

\* The counters are those of the first n bytes.
Counted(n) ==
  /\ scan.total = n
  /\ scan.control = CountTo(upload.bytes, n, Control)
  /\ scan.nul <=> CountTo(upload.bytes, n, {"nul"}) > 0
  /\ scan.first = Prefix(SubSeq(upload.bytes, 1, n), FirstLimit)

NamesInv == at \in {"names", "scan", "type"} => archive = EmptyArchive
StartInv == at = "names" => scan = EmptyScan
ScanInv ==
  at = "scan" =>
    /\ Named /\ position <= MaxSize /\ Counted(position)
    /\ ~scan.utf8_error <=> Viable(upload.bytes, position)
    /\ ~scan.utf8_error => scan.missing = Owed(upload.bytes, position)
ReadInv ==
  at \in {"type", "entries"} =>
    /\ Named /\ 0 < Size /\ Size <= MaxSize /\ Counted(Size)
    /\ ~scan.utf8_error <=> WellFormed(upload.bytes)

\* The entries seen so far would be accepted.
Plain(entry) == ~entry.encrypted /\ ~Unsafe(entry.name)
ArchiveInv ==
  at = "entries" =>
    LET entries == upload.entries
        seen == archive.seen
    IN /\ upload.extension \in DOMAIN RequiredEntries /\ upload.zip \notin {"damaged", "unsupported"}
       /\ Len(entries) <= MaxEntries
       /\ seen \in 0 .. Len(entries)
       /\ archive.uncompressed = Uncompressed(entries)[seen]
       /\ archive.uncompressed <= MaxUncompressed
       /\ archive.names = {entries[i].name.parts : i \in 1 .. seen}
       /\ \A i \in 1 .. seen : Plain(entries[i])
Inv ==
  /\ TypeInv /\ StartInv /\ NamesInv /\ ScanInv /\ ReadInv /\ ArchiveInv
  /\ VerdictMatchesFile /\ RewoundForStorage

LEMMA UploadTypes ==
  ASSUME upload \in Uploads
  PROVE  /\ upload.bytes \in Seq(Bytes) /\ Size \in Nat
         /\ Len(upload.entries) \in Nat
         /\ \A i \in 1 .. Len(upload.entries) :
              upload.entries[i].size \in Nat /\ upload.entries[i].encrypted \in BOOLEAN
<1>1. /\ upload.bytes \in Seq(Bytes)
      /\ upload.entries \in Seq([name : [separator : STRING, absolute : BOOLEAN, parts : Seq(STRING)],
                                 encrypted : BOOLEAN, size : Nat])
  BY UploadAssumption
<1>2. \A i \in 1 .. Len(upload.entries) :
        upload.entries[i] \in [name : [separator : STRING, absolute : BOOLEAN, parts : Seq(STRING)],
                               encrypted : BOOLEAN, size : Nat]
  BY <1>1, ElementOfSeq
<1> QED
  BY <1>1, <1>2, LenProperties DEF Size

LEMMA Limits ==
  /\ ChunkSize \in Nat \ {0} /\ MaxSize \in Nat /\ FirstLimit \in Nat
  /\ MaxEntries \in Nat /\ MaxUncompressed \in Nat
BY LimitAssumption

(* What an upload deserves, question by question.                          *)
LEMMA DeservedValue ==
  ASSUME NEW u
  PROVE  LET named == /\ u.extension \in AllowedExtensions \cap DOMAIN MimeTypes
                      /\ u.mime \in MimeTypes[u.extension]
             sized == ~(Len(u.bytes) > MaxSize) /\ Len(u.bytes) # 0
         IN /\ u.extension \notin AllowedExtensions \cap DOMAIN MimeTypes =>
                 Deserved(u) = "DOCUMENT_INVALID_EXTENSION"
            /\ u.extension \in AllowedExtensions \cap DOMAIN MimeTypes /\ u.mime \notin MimeTypes[u.extension] =>
                 Deserved(u) = "DOCUMENT_INVALID_MIME_TYPE"
            /\ named /\ Len(u.bytes) > MaxSize => Deserved(u) = "DOCUMENT_FILE_TOO_LARGE"
            /\ named /\ ~(Len(u.bytes) > MaxSize) /\ Len(u.bytes) = 0 => Deserved(u) = "DOCUMENT_EMPTY_FILE"
            /\ named /\ sized /\ u.extension \in DOMAIN RequiredEntries /\ u.zip = "unsupported" =>
                 Deserved(u) = "unhandled"
            /\ named /\ sized /\ ~(u.extension \in DOMAIN RequiredEntries /\ u.zip = "unsupported") =>
                 Deserved(u) = IF SoundType(u) THEN "ok" ELSE "DOCUMENT_INVALID_MIME_TYPE"
<1> DEFINE e == u.extension
           known == e \in AllowedExtensions \cap DOMAIN MimeTypes
           typed == u.mime \in MimeTypes[e]
           large == Len(u.bytes) > MaxSize
           empty == Len(u.bytes) = 0
           exotic == e \in DOMAIN RequiredEntries /\ u.zip = "unsupported"
           last == IF SoundType(u) THEN "ok" ELSE "DOCUMENT_INVALID_MIME_TYPE"
           content == CASE exotic -> "unhandled" [] OTHER -> last
           size == CASE large -> "DOCUMENT_FILE_TOO_LARGE" [] empty -> "DOCUMENT_EMPTY_FILE" [] OTHER -> content
           mime == CASE ~typed -> "DOCUMENT_INVALID_MIME_TYPE" [] OTHER -> size
<1>1. Deserved(u) = CASE ~known -> "DOCUMENT_INVALID_EXTENSION" [] OTHER -> mime
  BY DEF Deserved
<1>0. ~(large /\ empty)
  BY Limits
<1> HIDE DEF known, typed, large, empty, exotic, last
<1>2. /\ exotic => content = "unhandled"
      /\ ~exotic => content = last
  OBVIOUS
<1> HIDE DEF content
<1>3. /\ large => size = "DOCUMENT_FILE_TOO_LARGE"
      /\ ~large /\ empty => size = "DOCUMENT_EMPTY_FILE"
      /\ ~large /\ ~empty => size = content
  BY <1>0
<1> HIDE DEF size
<1>4. /\ ~known => Deserved(u) = "DOCUMENT_INVALID_EXTENSION"
      /\ known /\ ~typed => Deserved(u) = "DOCUMENT_INVALID_MIME_TYPE"
      /\ known /\ typed => Deserved(u) = size
  BY <1>1
<1> QED
  BY <1>2, <1>3, <1>4 DEF known, typed, large, empty, exotic, last

LEMMA InitInv == Init => Inv
<1> SUFFICES ASSUME Init PROVE Inv
  OBVIOUS
<1>1. upload \in Uploads /\ Size \in Nat /\ position \in {0, Size}
  BY UploadTypes DEF Init, Size
<1>2. ScanType
  <2>1. << >> \in Seq(Bytes)
    BY EmptySeq
  <2> QED
    BY <2>1 DEF Init, EmptyScan, ScanType
<1> QED
  BY <1>1, <1>2 DEF Init, Inv, TypeInv, StartInv, NamesInv, ScanInv, ReadInv, ArchiveInv,
                    VerdictMatchesFile, RewoundForStorage, None

(* A step that decides leaves little to show.                              *)
LEMMA Decided ==
  ASSUME Inv, NEW code, Decide(code), code = Deserved(upload), upload' = upload, archive' = archive,
         position' \in 0 .. Size, ScanType', code = "ok" => position' = 0 /\ scan'.total = Size
  PROVE  Inv'
<1>1. at' = "done" /\ verdict' = code /\ Size' = Size
  BY DEF Decide, Size
<1>2. TypeInv'
  BY <1>1 DEF Inv, TypeInv
<1>3. VerdictMatchesFile' /\ RewoundForStorage'
  BY <1>1 DEF VerdictMatchesFile, RewoundForStorage, Size
<1> QED
  BY <1>1, <1>2, <1>3 DEF Inv, StartInv, NamesInv, ScanInv, ReadInv, ArchiveInv

LEMMA CheckNamesInv ==
  ASSUME Inv, CheckNames PROVE Inv'
<1> DEFINE e == upload.extension
<1>1. /\ at = "names" /\ verdict = None /\ upload \in Uploads /\ position \in 0 .. Size /\ ScanType
      /\ upload' = upload /\ scan' = scan /\ archive' = archive
      /\ scan = EmptyScan /\ archive = EmptyArchive
  BY DEF Inv, TypeInv, StartInv, NamesInv, CheckNames
<1>2. ScanType'
  BY <1>1 DEF ScanType
<1>3. CASE e \notin AllowedExtensions \cap DOMAIN MimeTypes
  <2>1. Decide("DOCUMENT_INVALID_EXTENSION") /\ position' = position
    BY <1>3 DEF CheckNames
  <2>2. Deserved(upload) = "DOCUMENT_INVALID_EXTENSION"
    BY <1>3, DeservedValue
  <2> QED
    BY <1>1, <1>2, <2>1, <2>2, Decided
<1>4. CASE e \in AllowedExtensions \cap DOMAIN MimeTypes /\ upload.mime \notin MimeTypes[e]
  <2>1. Decide("DOCUMENT_INVALID_MIME_TYPE") /\ position' = position
    BY <1>4 DEF CheckNames
  <2>2. Deserved(upload) = "DOCUMENT_INVALID_MIME_TYPE"
    BY <1>4, DeservedValue
  <2> QED
    BY <1>1, <1>2, <2>1, <2>2, Decided
<1>5. CASE e \in AllowedExtensions \cap DOMAIN MimeTypes /\ upload.mime \in MimeTypes[e]
  <2>1. at' = "scan" /\ verdict' = None /\ position' = 0 /\ Size' = Size /\ Size \in Nat
    BY <1>1, <1>5, UploadTypes DEF CheckNames, Goto, Size
  <2>2. TypeInv'
    BY <1>1, <1>2, <2>1 DEF TypeInv
  <2>3. ScanInv'
    <3> DEFINE s == upload.bytes
    <3>1. s \in Seq(Bytes)
      BY <1>1, UploadTypes
    <3>2. CountTo(s, 0, Control) = 0 /\ CountTo(s, 0, {"nul"}) = 0
      <4>1. \A class : {i \in 1 .. 0 : s[i] \in class} = {}
        OBVIOUS
      <4> QED
        BY <4>1, FS_EmptySet DEF CountTo
    <3>3. Prefix(SubSeq(s, 1, 0), FirstLimit) = << >>
      <4>1. SubSeq(s, 1, 0) \in Seq(Bytes) /\ Len(SubSeq(s, 1, 0)) = 0
        BY <3>1, <2>1, PrefixWellFormed DEF Size
      <4>2. Prefix(SubSeq(s, 1, 0), FirstLimit) \in Seq(Bytes) /\ Len(Prefix(SubSeq(s, 1, 0), FirstLimit)) = 0
        <5> DEFINE none == SubSeq(s, 1, 0)
        <5>1. none \in Seq(Bytes) /\ Len(none) = 0 /\ FirstLimit \in Nat
          BY <4>1, Limits
        <5> HIDE DEF none
        <5>2. /\ Prefix(none, FirstLimit) \in Seq(Bytes)
              /\ Len(Prefix(none, FirstLimit)) = IF FirstLimit < Len(none) THEN FirstLimit ELSE Len(none)
          BY <5>1, PrefixProperties
        <5> QED
          BY <5>1, <5>2 DEF none
      <4> QED
        BY <4>2, EmptySeq
    <3>4. Viable(s, 0) /\ Owed(s, 0) = 0
      BY DEF Viable, Owed
    <3>5. Named
      BY <1>5 DEF Named
    <3>6. scan' = EmptyScan
      BY <1>1
    <3>7. (Counted(position))'
      BY <1>1, <2>1, <3>2, <3>3, <3>6 DEF Counted, EmptyScan
    <3>8. (~scan.utf8_error <=> Viable(upload.bytes, position))' /\ (scan.missing = Owed(upload.bytes, position))'
      BY <1>1, <2>1, <3>4, <3>6 DEF EmptyScan
    <3>9. position' <= MaxSize
      BY <2>1, Limits
    <3> QED
      BY <1>1, <3>5, <3>7, <3>8, <3>9 DEF ScanInv, Named
  <2> QED
    BY <1>1, <2>1, <2>2, <2>3
       DEF Inv, StartInv, NamesInv, ReadInv, ArchiveInv, VerdictMatchesFile, RewoundForStorage, None
<1> QED
  BY <1>3, <1>4, <1>5

(* A chunk that is not too large: the counters follow.                     *)
LEMMA GatheredCounts ==
  ASSUME Inv, at = "scan", Chunk # << >>, scan' = Gathered(Chunk), upload' = upload,
         position' = position + Len(Chunk)
  PROVE  /\ position' \in 0 .. Size /\ ScanType' /\ (Counted(position))'
         /\ (~scan.utf8_error <=> Viable(upload.bytes, position))'
         /\ (~scan.utf8_error => scan.missing = Owed(upload.bytes, position))'
<1> DEFINE s == upload.bytes
           n == position
           k == Len(Chunk)
           chunk == SubSeq(s, n + 1, n + k)
           missing == Decode(scan.missing, Chunk)
           first == scan.first \o Prefix(Chunk, FirstLimit - Len(scan.first))
<1>1. /\ upload \in Uploads /\ n \in 0 .. Len(s) /\ ScanType /\ Counted(n)
      /\ ~scan.utf8_error <=> Viable(s, n)
      /\ ~scan.utf8_error => scan.missing = Owed(s, n)
  BY DEF Inv, TypeInv, ScanInv, Size
<1>2. s \in Seq(Bytes) /\ Len(s) \in Nat /\ n \in Nat
  BY <1>1, UploadTypes DEF Size
<1>3. k \in 0 .. Len(s) - n /\ Chunk = chunk
  BY <1>1, <1>2, Limits, ChunkIsNext
<1>4. /\ chunk \in Seq(Bytes) /\ Len(chunk) = k /\ DOMAIN chunk = 1 .. k
      /\ \A i \in 1 .. k : chunk[i] = s[n + i]
  BY <1>1, <1>2, <1>3, PartProperties
<1>5. position' = n + k /\ n + k \in 0 .. Len(s) /\ k \in Nat /\ (upload.bytes)' = s /\ Size' = Len(s)
  BY <1>2, <1>3 DEF Size
<1>6. /\ scan'.total = scan.total + k /\ scan'.first = first
      /\ scan'.control = scan.control + Count(Chunk, Control)
      /\ scan'.nul = (scan.nul \/ "nul" \in ToSet(Chunk))
      /\ scan'.missing = (IF missing = Wrong THEN scan.missing ELSE missing)
      /\ scan'.utf8_error = (scan.utf8_error \/ missing = Wrong)
      /\ scan' = [ total |-> scan'.total, first |-> scan'.first, control |-> scan'.control,
                   nul |-> scan'.nul, missing |-> scan'.missing, utf8_error |-> scan'.utf8_error ]
  BY DEF Gathered
<1> HIDE DEF s, n, k, chunk, missing, first
<1>7. scan'.total = n + k
  BY <1>1, <1>6 DEF Counted
<1>8. scan'.control = CountTo(s, n + k, Control) /\ scan'.control \in Nat
  <2>1. CountTo(s, n + k, Control) = CountTo(s, n, Control) + Count(chunk, Control)
    BY <1>1, <1>2, <1>3, CountChunk DEF chunk
  <2>2. CountTo(s, n + k, Control) \in Nat
    BY <1>2, <1>5, CountPositive
  <2> QED
    BY <1>1, <1>3, <1>6, <2>1, <2>2 DEF Counted, s
<1>9. scan'.nul <=> CountTo(s, n + k, {"nul"}) > 0
  <2>1. CountTo(s, n + k, {"nul"}) > 0 <=> \E i \in 1 .. n + k : s[i] \in {"nul"}
    BY <1>2, <1>5, CountPositive
  <2>2. CountTo(s, n, {"nul"}) > 0 <=> \E i \in 1 .. n : s[i] \in {"nul"}
    BY <1>1, <1>2, CountPositive
  <2>3. "nul" \in ToSet(Chunk) <=> \E i \in 1 .. k : s[n + i] = "nul"
    BY <1>3, <1>4 DEF ToSet
  <2>4. (\E i \in 1 .. n + k : s[i] \in {"nul"}) <=>
          (\E i \in 1 .. n : s[i] \in {"nul"}) \/ (\E i \in 1 .. k : s[n + i] = "nul")
    <3>1. ASSUME NEW i \in 1 .. n + k, s[i] \in {"nul"}
          PROVE  (\E j \in 1 .. n : s[j] \in {"nul"}) \/ (\E j \in 1 .. k : s[n + j] = "nul")
      <4>1. CASE i <= n
        <5>1. i \in 1 .. n
          BY <1>2, <3>1, <4>1
        <5> QED
          BY <3>1, <5>1
      <4>2. CASE ~(i <= n)
        <5>1. i - n \in 1 .. k /\ n + (i - n) = i
          BY <1>2, <1>5, <3>1, <4>2
        <5> QED
          BY <3>1, <5>1
      <4> QED
        BY <4>1, <4>2
    <3>2. \A i \in 1 .. n : i \in 1 .. n + k
      BY <1>2, <1>5
    <3>3. \A i \in 1 .. k : n + i \in 1 .. n + k
      BY <1>2, <1>5
    <3> QED
      BY <3>1, <3>2, <3>3
  <2>5. scan.nul <=> CountTo(s, n, {"nul"}) > 0
    BY <1>1 DEF Counted, s
  <2> QED
    BY <1>6, <2>1, <2>2, <2>3, <2>4, <2>5
<1>10. scan'.first = Prefix(SubSeq(s, 1, n + k), FirstLimit) /\ scan'.first \in Seq(Bytes)
  <2>1. scan.first = Prefix(SubSeq(s, 1, n), FirstLimit)
    BY <1>1 DEF Counted, s
  <2>2. scan.first \o Prefix(chunk, FirstLimit - Len(scan.first)) = Prefix(SubSeq(s, 1, n + k), FirstLimit)
    BY <1>1, <1>2, <1>3, <2>1, Limits, FirstBytes, ZenonT(60) DEF chunk
  <2>3. SubSeq(s, 1, n + k) \in Seq(Bytes)
    BY <1>2, <1>5, PrefixWellFormed
  <2>4. Prefix(SubSeq(s, 1, n + k), FirstLimit) \in Seq(Bytes)
    BY <2>3, Limits, PrefixProperties
  <2> QED
    BY <1>3, <1>6, <2>2, <2>4 DEF first
<1>11. scan.missing \in 0 .. 4 /\ missing \in 0 .. 4 /\ scan'.missing \in 0 .. 4
  <2>1. scan.missing \in 0 .. 4
    BY <1>1 DEF ScanType
  <2>2. Chunk \in Seq(Bytes)
    BY <1>3, <1>4
  <2>3. missing \in 0 .. 4
    BY <2>1, <2>2, DecodeValue DEF missing
  <2> QED
    BY <1>6, <2>1, <2>3
<1>12. /\ ~scan'.utf8_error <=> Viable(s, n + k)
       /\ ~scan'.utf8_error => scan'.missing = Owed(s, n + k)
  <2>1. CASE scan.utf8_error
    <3>1. ~Viable(s, n) /\ scan'.utf8_error
      BY <1>1, <1>6, <2>1
    <3>2. ~Viable(s, n + k)
      BY <1>2, <1>5, <3>1, ViableMonotone
    <3> QED
      BY <3>1, <3>2
  <2>2. CASE ~scan.utf8_error
    <3>1. Viable(s, n) /\ scan.missing = Owed(s, n)
      BY <1>1, <2>2
    <3>2. missing = IF Viable(s, n + k) THEN Owed(s, n + k) ELSE Wrong
      BY <1>1, <1>2, <1>3, <3>1, DecodeChunk DEF missing, chunk
    <3>3. Owed(s, n + k) # Wrong
      <4>1. Owed(s, n + k) \in {0, 1, 2, 3}
        BY <1>2, <1>5, OwedValue
      <4> QED
        BY <4>1 DEF Wrong
    <3> QED
      BY <1>6, <2>2, <3>2, <3>3
  <2> QED
    BY <2>1, <2>2
<1>13. ScanType'
  <2>1. scan.utf8_error \in BOOLEAN /\ scan.nul \in BOOLEAN
    BY <1>1 DEF ScanType
  <2>2. scan'.utf8_error \in BOOLEAN /\ scan'.nul \in BOOLEAN
    BY <1>6, <2>1
  <2>3. scan'.total \in Nat
    BY <1>2, <1>5, <1>7
  <2> QED
    BY <1>6, <1>8, <1>10, <1>11, <2>2, <2>3 DEF ScanType
<1>14. (Counted(position))'
  BY <1>5, <1>7, <1>8, <1>9, <1>10 DEF Counted
<1>15. /\ (~scan.utf8_error <=> Viable(upload.bytes, position))'
       /\ (~scan.utf8_error => scan.missing = Owed(upload.bytes, position))'
  BY <1>5, <1>12
<1>16. position' \in 0 .. Size
  BY <1>5 DEF s, Size
<1> QED
  BY <1>13, <1>14, <1>15, <1>16

LEMMA ReadChunkInv ==
  ASSUME Inv, ReadChunk PROVE Inv'
<1>1. /\ at = "scan" /\ upload \in Uploads /\ position \in 0 .. Size /\ ScanType /\ Chunk # << >>
      /\ Named /\ scan.total = position /\ archive = EmptyArchive /\ verdict = None
      /\ upload' = upload /\ archive' = archive /\ position' = position + Len(Chunk)
  BY DEF Inv, TypeInv, ScanInv, NamesInv, Counted, ReadChunk
<1>2. Size \in Nat /\ position' \in 0 .. Size
  <2>1. upload.bytes \in Seq(Bytes) /\ Size \in Nat
    BY <1>1, UploadTypes
  <2>2. Len(Chunk) \in 0 .. Size - position
    BY <1>1, <2>1, Limits, ChunkIsNext DEF Size
  <2> QED
    BY <1>1, <2>1, <2>2
<1>3. CASE TooLarge(scan.total + Len(Chunk))
  <2>1. Decide("DOCUMENT_FILE_TOO_LARGE") /\ scan' = scan
    BY <1>3 DEF ReadChunk
  <2>2. Len(upload.bytes) > MaxSize
    BY <1>1, <1>2, <1>3, Limits DEF TooLarge, Size
  <2>3. Deserved(upload) = "DOCUMENT_FILE_TOO_LARGE"
    BY <1>1, <2>2, DeservedValue DEF Named
  <2>4. ScanType'
    BY <1>1, <2>1 DEF ScanType
  <2> QED
    BY <1>1, <1>2, <2>1, <2>3, <2>4, Decided
<1>4. CASE ~TooLarge(scan.total + Len(Chunk))
  <2>1. scan' = Gathered(Chunk) /\ at' = "scan" /\ verdict' = None
    BY <1>1, <1>4 DEF ReadChunk, Goto
  <2>2. /\ ScanType' /\ (Counted(position))'
        /\ (~scan.utf8_error <=> Viable(upload.bytes, position))'
        /\ (~scan.utf8_error => scan.missing = Owed(upload.bytes, position))'
    BY <1>1, <2>1, GatheredCounts
  <2>3. position' <= MaxSize
    BY <1>1, <1>2, <1>4, Limits DEF TooLarge
  <2>4. Size' = Size /\ Named'
    BY <1>1 DEF Size, Named
  <2>5. TypeInv'
    BY <1>1, <1>2, <2>1, <2>2, <2>4 DEF TypeInv
  <2>6. ScanInv'
    BY <2>2, <2>3, <2>4 DEF ScanInv
  <2> QED
    BY <1>1, <2>1, <2>5, <2>6
       DEF Inv, StartInv, NamesInv, ReadInv, ArchiveInv, VerdictMatchesFile, RewoundForStorage, None
<1> QED
  BY <1>3, <1>4

LEMMA EndOfFileInv ==
  ASSUME Inv, EndOfFile PROVE Inv'
<1> DEFINE s == upload.bytes
<1>1. /\ at = "scan" /\ upload \in Uploads /\ position \in 0 .. Size /\ ScanType /\ Chunk = << >>
      /\ Named /\ position <= MaxSize /\ Counted(position) /\ archive = EmptyArchive /\ verdict = None
      /\ ~scan.utf8_error <=> Viable(s, position)
      /\ ~scan.utf8_error => scan.missing = Owed(s, position)
      /\ upload' = upload /\ archive' = archive
  BY DEF Inv, TypeInv, ScanInv, NamesInv, EndOfFile
<1>2. s \in Seq(Bytes) /\ Size \in Nat /\ Size' = Size
  BY <1>1, UploadTypes DEF Size
<1>3. position = Size /\ scan.total = Size
  BY <1>1, <1>2, Limits, ChunkIsNext DEF Size, Counted
<1>4. CASE scan.total = 0
  <2>1. Decide("DOCUMENT_EMPTY_FILE") /\ scan' = scan /\ position' = position
    BY <1>4 DEF EndOfFile
  <2>2. Deserved(upload) = "DOCUMENT_EMPTY_FILE"
    <3>1. Len(upload.bytes) = 0 /\ ~(Len(upload.bytes) > MaxSize)
      BY <1>3, <1>4, Limits DEF Size
    <3> QED
      BY <1>1, <3>1, DeservedValue DEF Named
  <2>3. ScanType'
    BY <1>1, <2>1 DEF ScanType
  <2> QED
    BY <1>1, <2>1, <2>2, <2>3, Decided
<1>5. CASE scan.total # 0
  <2>1. /\ scan' = [scan EXCEPT !.utf8_error = scan.utf8_error \/ scan.missing # 0]
        /\ position' = 0 /\ at' = "type" /\ verdict' = None
    BY <1>1, <1>5 DEF EndOfFile, Goto
  <2>2. /\ ScanType' /\ scan'.total = scan.total /\ scan'.control = scan.control
        /\ scan'.nul = scan.nul /\ scan'.first = scan.first
        /\ scan'.utf8_error = (scan.utf8_error \/ scan.missing # 0)
    BY <1>1, <2>1 DEF ScanType
  <2>3. ~scan'.utf8_error <=> WellFormed(s)
    <3>1. WellFormed(s) <=> Viable(s, Size) /\ Owed(s, Size) = 0
      BY <1>2, WellFormedIsViable DEF Size
    <3> QED
      BY <1>1, <1>3, <2>2, <3>1
  <2>4. Counted(Size)'
    BY <1>1, <1>2, <1>3, <2>2 DEF Counted
  <2>5. 0 < Size /\ Size <= MaxSize
    BY <1>1, <1>2, <1>3, <1>5
  <2>6. ReadInv'
    BY <1>1, <1>2, <2>3, <2>4, <2>5 DEF ReadInv, Named
  <2>7. TypeInv'
    BY <1>1, <1>2, <2>1, <2>2 DEF TypeInv
  <2> QED
    BY <1>1, <2>1, <2>6, <2>7
       DEF Inv, StartInv, NamesInv, ScanInv, ArchiveInv, VerdictMatchesFile, RewoundForStorage, None
<1> QED
  BY <1>4, <1>5

(* What is known once the whole file has been read.                        *)
LEMMA WholeFile ==
  ASSUME Inv, at \in {"type", "entries"}
  PROVE  /\ upload \in Uploads /\ upload.bytes \in Seq(Bytes) /\ Size \in Nat /\ ScanType /\ Named
         /\ Len(upload.bytes) # 0 /\ ~(Len(upload.bytes) > MaxSize)
         /\ scan.total = Size /\ verdict = None
         /\ scan.control = Count(upload.bytes, Control)
         /\ scan.nul <=> Count(upload.bytes, {"nul"}) # 0
         /\ ~scan.utf8_error <=> WellFormed(upload.bytes)
         /\ \A b \in BinarySignatures \cup {PdfSignature} : StartsWith(b) <=> Starts(upload.bytes, b)
<1> DEFINE s == upload.bytes
<1>1. /\ upload \in Uploads /\ ScanType /\ Named /\ 0 < Size /\ Size <= MaxSize /\ Counted(Size)
      /\ verdict = None /\ (~scan.utf8_error <=> WellFormed(s))
  BY DEF Inv, TypeInv, ReadInv
<1>2. s \in Seq(Bytes) /\ Size = Len(s) /\ Size \in Nat /\ SubSeq(s, 1, Size) = s
  BY <1>1, UploadTypes, SubSeqFull DEF Size
<1>3. \A class : CountTo(s, Size, class) \in Nat /\ Count(s, class) = CountTo(s, Size, class)
  <2>1. Size \in 0 .. Len(s)
    BY <1>2
  <2> HIDE DEF s
  <2> QED
    BY <1>2, <2>1, CountToIsCount, CountPositive
<1>4. \A b \in BinarySignatures \cup {PdfSignature} : StartsWith(b) <=> Starts(s, b)
  <2> TAKE b \in BinarySignatures \cup {PdfSignature}
  <2>1. b \in Seq(Bytes) /\ Len(b) <= FirstLimit
    BY TypesAssumption
  <2>2. Prefix(Prefix(SubSeq(s, 1, Len(s)), FirstLimit), Len(b)) = b <=> Starts(s, b)
    BY <1>2, <2>1, Limits, SignatureFound
  <2>3. scan.first = Prefix(SubSeq(s, 1, Len(s)), FirstLimit)
    BY <1>1, <1>2 DEF Counted
  <2> QED
    BY <2>2, <2>3 DEF StartsWith
<1>5. scan.total = Size /\ scan.control = Count(s, Control) /\ (scan.nul <=> Count(s, {"nul"}) # 0)
  <2>1. CountTo(s, Size, {"nul"}) > 0 <=> CountTo(s, Size, {"nul"}) # 0
    BY <1>3
  <2> QED
    BY <1>1, <1>3, <2>1 DEF Counted
<1>6. Len(s) # 0 /\ ~(Len(s) > MaxSize)
  BY <1>1, <1>2, Limits
<1> QED
  BY <1>1, <1>2, <1>4, <1>5, <1>6

(* The three checks of a type end with an answer.                          *)
LEMMA Accepted ==
  ASSUME Inv, at \in {"type", "entries"}, NEW condition \in BOOLEAN, Accept(condition),
         ~(upload.extension \in DOMAIN RequiredEntries /\ upload.zip = "unsupported"),
         condition <=> SoundType(upload),
         upload' = upload /\ scan' = scan /\ archive' = archive /\ position' = 0
  PROVE  Inv'
<1> DEFINE code == IF condition THEN "ok" ELSE "DOCUMENT_INVALID_MIME_TYPE"
<1>1. /\ Size \in Nat /\ ScanType /\ scan.total = Size /\ Named
      /\ Len(upload.bytes) # 0 /\ ~(Len(upload.bytes) > MaxSize)
  BY WholeFile
<1>2. Decide(code) /\ code = Deserved(upload)
  BY <1>1, DeservedValue DEF Accept, Named
<1>3. ScanType' /\ position' \in 0 .. Size /\ scan'.total = Size
  BY <1>1 DEF ScanType
<1> HIDE DEF code
<1> QED
  BY <1>2, <1>3, Decided

LEMMA CheckPdfInv ==
  ASSUME Inv, CheckPdf PROVE Inv'
<1>1. /\ at = "type" /\ upload.extension = ".pdf" /\ Accept(StartsWith(PdfSignature))
      /\ upload' = upload /\ scan' = scan /\ archive' = archive /\ position' = 0
  BY DEF CheckPdf
<1>2. upload.extension \notin DOMAIN RequiredEntries
  BY <1>1, TypesAssumption
<1>3. StartsWith(PdfSignature) <=> SoundType(upload)
  <2>0. upload.extension \notin TextExtensions
    BY <1>1 DEF TextExtensions
  <2>1. SoundType(upload) = Starts(upload.bytes, PdfSignature)
    BY <1>1, <2>0 DEF SoundType
  <2>2. StartsWith(PdfSignature) <=> Starts(upload.bytes, PdfSignature)
    <3>1. PdfSignature \in BinarySignatures \cup {PdfSignature}
      OBVIOUS
    <3>2. \A b \in BinarySignatures \cup {PdfSignature} : StartsWith(b) <=> Starts(upload.bytes, b)
      BY <1>1, WholeFile
    <3> QED
      BY <3>1, <3>2
  <2> QED
    BY <2>1, <2>2
<1>4. StartsWith(PdfSignature) \in BOOLEAN
  BY DEF StartsWith
<1> QED
  BY <1>1, <1>2, <1>3, <1>4, Accepted

LEMMA CheckTextInv ==
  ASSUME Inv, CheckText PROVE Inv'
<1> DEFINE sound == /\ ~scan.nul /\ \A s \in BinarySignatures : ~StartsWith(s)
                    /\ scan.control * MaxControl[2] <= scan.total * MaxControl[1]
                    /\ ~scan.utf8_error
<1>1. /\ at = "type" /\ upload.extension \in TextExtensions /\ Accept(sound)
      /\ upload' = upload /\ scan' = scan /\ archive' = archive /\ position' = 0
  BY DEF CheckText
<1>2. upload.extension \notin DOMAIN RequiredEntries /\ upload.extension # ".pdf"
  BY <1>1, TypesAssumption DEF TextExtensions
<1>3. sound <=> SoundType(upload)
  <2>1. SoundType(upload) <=> SoundText(upload.bytes)
    BY <1>1, <1>2 DEF SoundType
  <2>2. \A s \in BinarySignatures : StartsWith(s) <=> Starts(upload.bytes, s)
    BY <1>1, WholeFile
  <2>3. /\ scan.nul <=> Count(upload.bytes, {"nul"}) # 0
        /\ scan.control = Count(upload.bytes, Control) /\ scan.total = Len(upload.bytes)
        /\ ~scan.utf8_error <=> WellFormed(upload.bytes)
    BY <1>1, WholeFile DEF Size
  <2> QED
    BY <2>1, <2>2, <2>3 DEF SoundText
<1>4. sound \in BOOLEAN
  OBVIOUS
<1> HIDE DEF sound
<1> QED
  BY <1>1, <1>2, <1>3, <1>4, Accepted

(* An archive that has what is refused is not sound.                       *)
LEMMA OfficeType ==
  ASSUME Inv, at \in {"type", "entries"}, upload.extension \in DOMAIN RequiredEntries
  PROVE  SoundType(upload) <=>
           upload.zip # "damaged" /\ SoundArchive(upload.entries, RequiredEntries[upload.extension])
<1>1. upload.extension # ".pdf" /\ upload.extension \notin TextExtensions
  BY TypesAssumption
<1> QED
  BY <1>1 DEF SoundType

LEMMA Refused ==
  ASSUME Inv, at \in {"type", "entries"}, Decide("DOCUMENT_INVALID_MIME_TYPE"), ~SoundType(upload),
         ~(upload.extension \in DOMAIN RequiredEntries /\ upload.zip = "unsupported"),
         upload' = upload /\ scan' = scan /\ archive' = archive /\ position' = 0
  PROVE  Inv'
<1>1. Accept(FALSE)
  BY DEF Accept
<1> QED
  BY <1>1, Accepted

LEMMA OpenArchiveInv ==
  ASSUME Inv, OpenArchive PROVE Inv'
<1>1. /\ at = "type" /\ upload.extension \in DOMAIN RequiredEntries
      /\ upload' = upload /\ scan' = scan /\ archive' = archive /\ archive = EmptyArchive
  BY DEF OpenArchive, Inv, NamesInv
<1>2. /\ upload \in Uploads /\ Size \in Nat /\ ScanType /\ Named /\ verdict = None
      /\ Len(upload.bytes) # 0 /\ ~(Len(upload.bytes) > MaxSize)
  BY <1>1, WholeFile
<1>3. CASE upload.zip = "damaged"
  <2>1. Decide("DOCUMENT_INVALID_MIME_TYPE") /\ position' = 0
    BY <1>3 DEF OpenArchive
  <2>2. ~SoundType(upload)
    BY <1>1, <1>3, OfficeType
  <2> QED
    BY <1>1, <1>3, <2>1, <2>2, Refused
<1>4. CASE upload.zip = "unsupported"
  <2>1. Decide("unhandled") /\ position' = 0
    BY <1>4 DEF OpenArchive
  <2>2. Deserved(upload) = "unhandled"
    BY <1>1, <1>2, <1>4, DeservedValue DEF Named
  <2>3. ScanType' /\ position' \in 0 .. Size
    BY <1>1, <1>2, <2>1 DEF ScanType
  <2> QED
    BY <1>1, <2>1, <2>2, <2>3, Decided
<1>5. CASE upload.zip \notin {"damaged", "unsupported"} /\ Len(upload.entries) > MaxEntries
  <2>1. Decide("DOCUMENT_INVALID_MIME_TYPE") /\ position' = 0
    BY <1>5 DEF OpenArchive
  <2>2. ~SoundType(upload)
    <3>1. ~(Len(upload.entries) <= MaxEntries)
      BY <1>2, <1>5, Limits, UploadTypes
    <3> QED
      BY <1>1, <3>1, OfficeType DEF SoundArchive
  <2> QED
    BY <1>1, <1>5, <2>1, <2>2, Refused
<1>6. CASE upload.zip \notin {"damaged", "unsupported"} /\ ~(Len(upload.entries) > MaxEntries)
  <2>1. at' = "entries" /\ verdict' = None /\ position' = Size /\ Size' = Size /\ Named'
    BY <1>1, <1>2, <1>6 DEF OpenArchive, Goto, Size, Named
  <2>2. TypeInv'
    BY <1>1, <1>2, <2>1 DEF TypeInv, ScanType
  <2>3. ReadInv'
    BY <1>1, <1>2, <2>1 DEF Inv, ReadInv, Counted
  <2>4. ArchiveInv'
    <3> DEFINE entries == upload.entries
    <3>1. Len(entries) \in Nat /\ \A i \in 1 .. Len(entries) : entries[i].size \in Nat
      BY <1>2, UploadTypes
    <3>2. Uncompressed(entries)[0] = 0
      BY <3>1, UncompressedUnfolds
    <3>3. Len(entries) <= MaxEntries /\ 0 <= MaxUncompressed
      BY <1>6, <3>1, Limits
    <3>4. {entries[i].name.parts : i \in 1 .. 0} = {} /\ \A i \in 1 .. 0 : Plain(entries[i])
      OBVIOUS
    <3>5. archive'.seen = 0 /\ archive'.uncompressed = 0 /\ archive'.names = {} /\ 0 \in 0 .. Len(entries)
      BY <1>1, <3>1 DEF EmptyArchive
    <3> QED
      BY <1>1, <1>6, <3>2, <3>3, <3>4, <3>5 DEF ArchiveInv, Plain
  <2> QED
    BY <1>1, <2>1, <2>2, <2>3, <2>4
       DEF Inv, StartInv, NamesInv, ScanInv, VerdictMatchesFile, RewoundForStorage, None
<1> QED
  BY <1>3, <1>4, <1>5, <1>6

LEMMA ReadEntryInv ==
  ASSUME Inv, ReadEntry PROVE Inv'
<1> DEFINE entries == upload.entries
           n == archive.seen
           entry == entries[n + 1]
           size == archive.uncompressed + entry.size
           required == RequiredEntries[upload.extension]
<1>1. /\ at = "entries" /\ n < Len(entries) /\ upload' = upload /\ scan' = scan
      /\ upload.extension \in DOMAIN RequiredEntries /\ upload.zip \notin {"damaged", "unsupported"}
      /\ Len(entries) <= MaxEntries /\ n \in 0 .. Len(entries)
      /\ archive.uncompressed = Uncompressed(entries)[n]
      /\ archive.names = {entries[i].name.parts : i \in 1 .. n}
      /\ \A i \in 1 .. n : Plain(entries[i])
  BY DEF ReadEntry, Inv, ArchiveInv
<1>2. /\ upload \in Uploads /\ Size \in Nat /\ ScanType /\ Named /\ verdict = None /\ position \in 0 .. Size
  BY <1>1, WholeFile DEF Inv, TypeInv
<1>3. Len(entries) \in Nat /\ \A i \in 1 .. Len(entries) : entries[i].size \in Nat
  BY <1>2, UploadTypes
<1>4. n + 1 \in 1 .. Len(entries) /\ n + 1 \in 0 .. Len(entries) /\ n \in Nat /\ (n + 1) - 1 = n
  BY <1>1, <1>3
<1>5. size = Uncompressed(entries)[n + 1] /\ size \in Nat
  <2>1. Uncompressed(entries)[n + 1] = Uncompressed(entries)[(n + 1) - 1] + entries[n + 1].size
    BY <1>3, <1>4, UncompressedUnfolds
  <2>2. Uncompressed(entries)[n + 1] \in Nat
    BY <1>3, <1>4, UncompressedUnfolds
  <2> QED
    BY <1>1, <1>4, <2>1, <2>2
<1>6. CASE Unsafe(entry.name) \/ entry.encrypted \/ size > MaxUncompressed
  <2>1. Decide("DOCUMENT_INVALID_MIME_TYPE") /\ position' = 0 /\ archive' = archive
    BY <1>6 DEF ReadEntry
  <2>2. ~SoundArchive(entries, required)
    <3>1. CASE Unsafe(entry.name) \/ entry.encrypted
      <4>1. n + 1 \in DOMAIN entries
        <5>1. DOMAIN entries = 1 .. Len(entries)
          BY <1>2, UploadAssumption, LenProperties
        <5> QED
          BY <1>4, <5>1
      <4> QED
        BY <3>1, <4>1 DEF SoundArchive
    <3>2. CASE size > MaxUncompressed
      <4>1. Uncompressed(entries)[n + 1] <= Uncompressed(entries)[Len(entries)]
        BY <1>3, <1>4, UncompressedGrows
      <4>2. Uncompressed(entries)[Len(entries)] \in Nat
        <5>1. Len(entries) \in 0 .. Len(entries)
          BY <1>3
        <5> QED
          BY <1>3, <5>1, UncompressedUnfolds
      <4>3. ~(Uncompressed(entries)[Len(entries)] <= MaxUncompressed)
        BY <1>5, <3>2, <4>1, <4>2, Limits
      <4> QED
        BY <4>3 DEF SoundArchive
    <3> QED
      BY <1>6, <3>1, <3>2
  <2>3. ~SoundType(upload)
    BY <1>1, <2>2, OfficeType
  <2> QED
    BY <1>1, <2>1, <2>3, Refused
<1>7. CASE ~(Unsafe(entry.name) \/ entry.encrypted \/ size > MaxUncompressed)
  <2>1. /\ archive' = [ seen |-> n + 1, uncompressed |-> size, names |-> archive.names \cup {Parts(entry.name)} ]
        /\ at' = "entries" /\ verdict' = None /\ position' = position /\ Size' = Size /\ Named'
    BY <1>1, <1>2, <1>7 DEF ReadEntry, Goto, Size, Named
  <2>2. TypeInv'
    BY <1>1, <1>2, <2>1 DEF TypeInv, ScanType
  <2>3. ReadInv'
    BY <1>1, <1>2, <2>1 DEF Inv, ReadInv, Counted
  <2>4. ArchiveInv'
    <3>1. archive'.seen = n + 1 /\ archive'.uncompressed = size
          /\ archive'.names = archive.names \cup {entry.name.parts}
      BY <2>1 DEF Parts
    <3>2. \A i \in 1 .. n + 1 : i \in 1 .. n \/ i = n + 1
      BY <1>4
    <3>3. archive'.names = {entries[i].name.parts : i \in 1 .. n + 1}
      <4>1. \A i \in 1 .. n : i \in 1 .. n + 1
        BY <1>4
      <4>2. n + 1 \in 1 .. n + 1
        BY <1>4
      <4> HIDE DEF entries, n
      <4> QED
        BY <1>1, <3>1, <3>2, <4>1, <4>2 DEF entry
    <3>4. \A i \in 1 .. n + 1 : Plain(entries[i])
      <4>1. Plain(entries[n + 1])
        BY <1>7 DEF Plain
      <4> HIDE DEF entries, n
      <4> QED
        BY <1>1, <3>2, <4>1
    <3>5. size <= MaxUncompressed
      BY <1>5, <1>7, Limits
    <3> QED
      BY <1>1, <1>4, <1>5, <3>1, <3>3, <3>4, <3>5 DEF ArchiveInv, Plain
  <2> QED
    BY <1>1, <2>1, <2>2, <2>3, <2>4
       DEF Inv, StartInv, NamesInv, ScanInv, VerdictMatchesFile, RewoundForStorage, None
<1> QED
  BY <1>6, <1>7

LEMMA CheckEntriesInv ==
  ASSUME Inv, CheckEntries PROVE Inv'
<1> DEFINE entries == upload.entries
           required == RequiredEntries[upload.extension]
           complete == required \subseteq archive.names
<1>1. /\ at = "entries" /\ archive.seen = Len(entries) /\ Accept(complete)
      /\ upload' = upload /\ scan' = scan /\ archive' = archive /\ position' = 0
      /\ upload.extension \in DOMAIN RequiredEntries /\ upload.zip \notin {"damaged", "unsupported"}
      /\ Len(entries) <= MaxEntries
      /\ Uncompressed(entries)[Len(entries)] <= MaxUncompressed
      /\ archive.names = {entries[i].name.parts : i \in 1 .. Len(entries)}
      /\ \A i \in 1 .. Len(entries) : Plain(entries[i])
  BY DEF CheckEntries, Inv, ArchiveInv
<1>2. DOMAIN entries = 1 .. Len(entries)
  <2>1. upload \in Uploads
    BY <1>1, WholeFile
  <2> QED
    BY <2>1, UploadAssumption, LenProperties
<1>3. complete <=> SoundArchive(entries, required)
  <2>1. complete <=> \A name \in required : \E i \in DOMAIN entries : entries[i].name.parts = name
    BY <1>1, <1>2
  <2> QED
    BY <1>1, <1>2, <2>1 DEF SoundArchive, Plain
<1>4. complete <=> SoundType(upload)
  BY <1>1, <1>3, OfficeType
<1>5. complete \in BOOLEAN
  OBVIOUS
<1> HIDE DEF complete
<1> QED
  BY <1>1, <1>4, <1>5, Accepted

LEMMA NextInv ==
  ASSUME Inv, [Next]_vars PROVE Inv'
<1>1. CASE UNCHANGED vars
  <2>1. /\ upload' = upload /\ position' = position /\ scan' = scan
        /\ archive' = archive /\ at' = at /\ verdict' = verdict
    BY <1>1 DEF vars
  <2> QED
    BY <2>1 DEF Inv, TypeInv, ScanType, StartInv, NamesInv, ScanInv, ReadInv, Counted, ArchiveInv, Plain,
                VerdictMatchesFile, RewoundForStorage, Size, Named
<1> QED
  BY <1>1, CheckNamesInv, ReadChunkInv, EndOfFileInv, CheckPdfInv, CheckTextInv, OpenArchiveInv,
     ReadEntryInv, CheckEntriesInv DEF Next

LEMMA Invariant == Spec => []Inv
BY InitInv, NextInv, PTL DEF Spec

---------------------------------------------------------------------------
(* The properties.                                                         *)

(* The answer to an upload is the one its whole file deserves, for files   *)
(* and archives of every length, chunks of every size and all limits       *)
(* (validators.py:154).                                                    *)
THEOREM VerdictIsDeserved == Spec => []VerdictMatchesFile
<1>1. Inv => VerdictMatchesFile
  BY DEF Inv
<1> QED
  BY <1>1, Invariant, PTL

(* An accepted file was read to its end and is handed to the storage from  *)
(* its first byte, with its true size (validators.py:167).                 *)
THEOREM StoredFromTheStart == Spec => []RewoundForStorage
<1>1. Inv => RewoundForStorage
  BY DEF Inv
<1> QED
  BY <1>1, Invariant, PTL

LEMMA InvScanCounts == ASSUME Inv PROVE ScanCountsPrefix
<1> DEFINE s == upload.bytes
           n == scan.total
           read == SubSeq(s, 1, n)
           completed == { read \o [i \in 1 .. m |-> "tail"] : m \in 0 .. 3 }
<1>1. CASE at \in {"scan", "type"}
  <2>1. /\ upload \in Uploads /\ Counted(n) /\ (at = "scan" => n = position) /\ n \in 0 .. Len(s)
        /\ at = "scan" => (~scan.utf8_error <=> Viable(s, n))
        /\ at = "type" => (~scan.utf8_error <=> WellFormed(s)) /\ n = Len(s)
    BY <1>1 DEF Inv, TypeInv, ScanInv, ReadInv, Counted, Size
  <2>2. s \in Seq(Bytes) /\ Len(s) \in Nat /\ n \in Nat
    BY <2>1, UploadTypes DEF Size
  <2>3. read \in Seq(Bytes) /\ Len(read) = n
    BY <2>1, <2>2, PrefixWellFormed
  <2>4. \A class : Count(read, class) = CountTo(s, n, class)
    BY <2>1, <2>2, CountToIsCount
  <2>5. scan.control = Count(read, Control) /\ (scan.nul <=> Count(read, {"nul"}) > 0)
    BY <2>1, <2>4 DEF Counted
  <2>6. scan.first = SubSeq(read, 1, IF Len(read) < FirstLimit THEN Len(read) ELSE FirstLimit)
    <3>1. scan.first = SubSeq(read, 1, IF FirstLimit < Len(read) THEN FirstLimit ELSE Len(read))
      BY <2>1 DEF Counted, Prefix
    <3>2. (IF FirstLimit < Len(read) THEN FirstLimit ELSE Len(read))
            = (IF Len(read) < FirstLimit THEN Len(read) ELSE FirstLimit)
      BY <2>2, <2>3, Limits
    <3> QED
      BY <3>1, <3>2
  <2>7. at = "scan" => (~scan.utf8_error <=> \E t \in completed : WellFormed(t))
    <3>1. (\E t \in completed : WellFormed(t)) <=> \E m \in 0 .. 3 : WellFormed(Completed(read, m))
      BY DEF Completed
    <3>2. (\E m \in 0 .. 3 : WellFormed(Completed(read, m))) <=> Viable(s, n)
      BY <2>1, <2>2, Completion
    <3> HIDE DEF completed
    <3> QED
      BY <2>1, <3>1, <3>2
  <2>8. at = "type" => (~scan.utf8_error <=> \E t \in {read} : WellFormed(t))
    <3>1. at = "type" => read = s
      BY <2>1, <2>2, SubSeqFull
    <3> QED
      BY <2>1, <3>1
  <2> HIDE DEF completed, read, s, n
  <2> QED
    BY <1>1, <2>1, <2>5, <2>6, <2>7, <2>8 DEF ScanCountsPrefix, completed, read, n, s
<1>2. CASE at \notin {"scan", "type"}
  BY <1>2 DEF ScanCountsPrefix
<1> QED
  BY <1>1, <1>2

(* After every chunk the counters are those of the bytes read so far, and  *)
(* the decoder has failed exactly when no continuation of them is UTF-8    *)
(* (validators.py:82).                                                     *)
THEOREM ScanIsOfPrefix == Spec => []ScanCountsPrefix
BY InvScanCounts, Invariant, PTL

---------------------------------------------------------------------------
(* Every validation comes to its end.                                      *)

Listed == Len(upload.entries)

\* What is ahead: the bytes not read, the entries not seen, and the stages.
StepsLeft ==
  CASE at = "names" -> Size + Listed + 4
    [] at = "scan" -> (Size - position) + Listed + 3
    [] at = "type" -> Listed + 2
    [] at = "entries" -> (Listed - archive.seen) + 1
    [] at = "done" -> 0

LEMMA StepsBounded ==
  ASSUME Inv
  PROVE  /\ StepsLeft \in 0 .. Size + Listed + 4
         /\ StepsLeft = 0 <=> at = "done"
<1>1. /\ Size \in Nat /\ Listed \in Nat /\ position \in 0 .. Size
      /\ at \in {"names", "scan", "type", "entries", "done"}
      /\ at = "entries" => archive.seen \in 0 .. Listed
  BY UploadTypes DEF Inv, TypeInv, ArchiveInv, Listed
<1> QED
  BY <1>1 DEF StepsLeft

LEMMA StepShrinks ==
  ASSUME Inv, Next
  PROVE  StepsLeft' < StepsLeft /\ upload' = upload
<1>1. /\ upload \in Uploads /\ upload.bytes \in Seq(Bytes) /\ Size \in Nat
      /\ Listed \in Nat /\ position \in 0 .. Size
      /\ at = "entries" => archive.seen \in 0 .. Listed
      /\ at = "type" => archive.seen = 0
      /\ upload' = upload /\ Size' = Size /\ Listed' = Listed
  <2>1. upload' = upload
    BY DEF Next, CheckNames, ReadChunk, EndOfFile, CheckPdf, CheckText, OpenArchive, ReadEntry, CheckEntries
  <2>2. Size' = Size /\ Listed' = Listed
    BY <2>1 DEF Size, Listed
  <2>3. at = "type" => archive.seen = 0
    BY DEF Inv, NamesInv, EmptyArchive
  <2>4. /\ upload \in Uploads /\ position \in 0 .. Size
        /\ at = "entries" => archive.seen \in 0 .. Listed
    BY DEF Inv, TypeInv, ArchiveInv, Listed
  <2> QED
    BY <2>1, <2>2, <2>3, <2>4, UploadTypes DEF Listed
<1>2. CASE CheckNames
  <2>1. at = "names" /\ (at' = "done" \/ (at' = "scan" /\ position' = 0))
    BY <1>2 DEF CheckNames, Decide, Goto
  <2> QED
    BY <1>1, <2>1 DEF StepsLeft
<1>3. CASE ReadChunk
  <2>1. /\ at = "scan" /\ (at' = "done" \/ at' = "scan")
        /\ position' = position + Len(Chunk) /\ Chunk # << >>
    BY <1>3 DEF ReadChunk, Decide, Goto
  <2>2. Len(Chunk) \in 1 .. Size - position
    <3>1. /\ Len(Chunk) \in 0 .. Size - position
          /\ Chunk = << >> <=> position = Size
          /\ Chunk = SubSeq(upload.bytes, position + 1, position + Len(Chunk))
      BY <1>1, ChunkIsNext, Limits DEF Size
    <3>2. Chunk \in Seq(Bytes)
      <4>1. \A k \in 0 .. Len(upload.bytes) - position :
              SubSeq(upload.bytes, position + 1, position + k) \in Seq(Bytes)
        BY <1>1, PartProperties DEF Size
      <4> QED
        BY <3>1, <4>1 DEF Size
    <3>3. Len(Chunk) # 0
      BY <2>1, <3>2, EmptySeq
    <3> QED
      BY <1>1, <3>1, <3>3
  <2> QED
    BY <1>1, <2>1, <2>2 DEF StepsLeft
<1>4. CASE EndOfFile
  <2>1. at = "scan" /\ (at' = "done" \/ at' = "type")
    BY <1>4 DEF EndOfFile, Decide, Goto
  <2> QED
    BY <1>1, <2>1 DEF StepsLeft
<1>5. CASE CheckPdf \/ CheckText \/ CheckEntries
  <2>1. at \in {"type", "entries"} /\ at' = "done"
    BY <1>5 DEF CheckPdf, CheckText, CheckEntries, Accept, Decide
  <2> QED
    BY <1>1, <2>1 DEF StepsLeft
<1>6. CASE OpenArchive
  <2>1. at = "type" /\ archive' = archive /\ (at' = "done" \/ at' = "entries")
    BY <1>6 DEF OpenArchive, Decide, Goto
  <2> QED
    BY <1>1, <2>1 DEF StepsLeft
<1>7. CASE ReadEntry
  <2>1. /\ at = "entries" /\ archive.seen < Listed
        /\ at' = "done" \/ (at' = "entries" /\ archive'.seen = archive.seen + 1)
    BY <1>7 DEF ReadEntry, Decide, Goto, Listed
  <2> QED
    BY <1>1, <2>1 DEF StepsLeft
<1> QED
  BY <1>1, <1>2, <1>3, <1>4, <1>5, <1>6, <1>7 DEF Next

\* Something is left to do: the conditions under which a stage has a step.
CheckApplies ==
  CASE at \in {"names", "scan", "done"} -> TRUE
    [] at = "type" -> upload.extension \in {".pdf"} \cup TextExtensions \cup DOMAIN RequiredEntries
    [] at = "entries" -> archive.seen \in 0 .. Listed

LEMMA InvApplies == Inv => CheckApplies
BY TypesAssumption DEF Inv, TypeInv, ReadInv, Named, ArchiveInv, CheckApplies, Listed

(* A validation is a bounded pass: each of its steps brings it nearer to a *)
(* verdict, which it has after at most one step per byte and entry and     *)
(* four more, and no stage is left without a check that applies, so there  *)
(* is no content type that the dispatch misses (validators.py:86, :154).   *)
THEOREM ValidationIsBounded ==
  Spec => /\ [](/\ StepsLeft \in 0 .. Size + Listed + 4
                /\ StepsLeft = 0 <=> at = "done"
                /\ CheckApplies)
          /\ [][StepsLeft' < StepsLeft /\ upload' = upload]_vars
<1>1. Inv /\ [Next]_vars => [StepsLeft' < StepsLeft /\ upload' = upload]_vars
  BY StepShrinks
<1>2. Inv => /\ StepsLeft \in 0 .. Size + Listed + 4
             /\ StepsLeft = 0 <=> at = "done"
             /\ CheckApplies
  BY StepsBounded, InvApplies
<1> QED
  BY <1>1, <1>2, Invariant, PTL DEF Spec
=============================================================================
