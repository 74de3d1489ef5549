--------------------------- MODULE RateLimitProofs ---------------------------
(***************************************************************************)
(* Proofs about RateLimit, for every site and every length of the lists.   *)
(* First the restrict list: what the functions of ntp_restrict.c make of a *)
(* sorted list and of the count of the entries with RES_LIMITED.  Then the *)
(* list of recent sources that ntp_monitor.c keeps, the invariants of the  *)
(* two together, and the theorems at the end of the module.                *)
(***************************************************************************)
EXTENDS RateLimit, FiniteSetTheorems, TLAPS

(* Zenon is the default prover of the leaves below; those that need arithmetic
   or that only the SMT solver finds cite SMT.                              *)
USE Zenon

-----------------------------------------------------------------------------
(* Sequences and sets of positions.                                        *)

(* The length, the positions and the elements of a list.                   *)
LEMMA ListFacts ==
  ASSUME NEW S, NEW s \in Seq(S)
  PROVE  /\ Len(s) \in Nat /\ DOMAIN s = 1 .. Len(s) /\ s \in [1 .. Len(s) -> S]
         /\ \A k \in 1 .. Len(s) : s[k] \in S
BY SMT

(* The empty list, and the others.                                         *)
LEMMA ListEmpty ==
  ASSUME NEW S
  PROVE  /\ <<>> \in Seq(S) /\ Len(<<>>) = 0
         /\ \A s \in Seq(S) : s # <<>> => Len(s) \in Nat \ {0}
BY SMT

(* The part of a list between two of its positions.                        *)
LEMMA SubList ==
  ASSUME NEW S, NEW s, NEW from \in Int, NEW to \in Int,
         \A k \in from .. to : s[k] \in S
  PROVE  /\ SubSeq(s, from, to) \in Seq(S)
         /\ Len(SubSeq(s, from, to)) = IF from <= to THEN to - from + 1 ELSE 0
         /\ \A k \in 1 .. to - from + 1 : SubSeq(s, from, to)[k] = s[from + k - 1]
BY SMT

(* Two lists, one after the other.                                         *)
LEMMA ListJoin ==
  ASSUME NEW S, NEW s \in Seq(S), NEW t \in Seq(S)
  PROVE  /\ s \o t \in Seq(S) /\ Len(s \o t) = Len(s) + Len(t)
         /\ \A k \in 1 .. Len(s) + Len(t) :
              (s \o t)[k] = IF k <= Len(s) THEN s[k] ELSE t[k - Len(s)]
BY SMT

(* A set of positions has a first one.                                     *)
LEMMA FirstIn ==
  ASSUME NEW S \in SUBSET Nat, S # {}
  PROVE  Min(S) \in S /\ \A y \in S : Min(S) <= y
<1> DEFINE R == OpToRel(<, Nat)
<1>1. IsWellFoundedOn(R, Nat)
  BY NatLessThanWellFounded
<1>2. \A x, y \in Nat : <<y, x>> \in R <=> y < x
  BY DEF OpToRel
<1> HIDE DEF R
<1>3. \E x \in S : \A y \in S : ~ (<<y, x>> \in R)
  BY <1>1, WFMin
<1> PICK x \in S : \A y \in S : ~ (<<y, x>> \in R)
  BY <1>3
<1>4. \A y \in S : x \in Nat /\ y \in Nat /\ ~ (y < x)
  BY <1>2
<1>5. \A y \in S : x <= y
  BY <1>4, SMT
<1> QED
  BY <1>5 DEF Min

(* A list without one of its elements.                                     *)
LEMMA Removed ==
  ASSUME NEW S, NEW s \in Seq(S), NEW i \in 1 .. Len(s)
  PROVE  /\ Unlink(s, i) \in Seq(S)
         /\ Len(Unlink(s, i)) = Len(s) - 1
         /\ \A j \in 1 .. Len(s) - 1 :
              Unlink(s, i)[j] = IF j < i THEN s[j] ELSE s[j + 1]
<1> DEFINE l == SubSeq(s, 1, i - 1)
           r == SubSeq(s, i + 1, Len(s))
<1>1. Len(s) \in Nat /\ i \in Int /\ 1 <= i /\ i <= Len(s)
      /\ \A k \in 1 .. Len(s) : s[k] \in S
  BY ListFacts, SMT
<1>2. /\ l \in Seq(S) /\ Len(l) = i - 1
      /\ \A k \in 1 .. i - 1 : l[k] = s[k]
  <2>1. \A k \in 1 .. i - 1 : s[k] \in S
    BY <1>1, SMT
  <2>2. 1 \in Int /\ i - 1 \in Int
    BY <1>1, SMT
  <2>3. /\ l \in Seq(S) /\ Len(l) = IF 1 <= i - 1 THEN (i - 1) - 1 + 1 ELSE 0
        /\ \A k \in 1 .. (i - 1) - 1 + 1 : l[k] = s[1 + k - 1]
    BY <2>1, <2>2, SubList, SMT
  <2> HIDE DEF l
  <2> QED
    BY <1>1, <2>3, SMT
<1>3. /\ r \in Seq(S) /\ Len(r) = Len(s) - i
      /\ \A k \in 1 .. Len(s) - i : r[k] = s[i + k]
  <2>1. \A k \in i + 1 .. Len(s) : s[k] \in S
    BY <1>1, SMT
  <2>2. i + 1 \in Int /\ Len(s) \in Int
    BY <1>1, SMT
  <2>3. /\ r \in Seq(S) /\ Len(r) = IF i + 1 <= Len(s) THEN Len(s) - (i + 1) + 1 ELSE 0
        /\ \A k \in 1 .. Len(s) - (i + 1) + 1 : r[k] = s[(i + 1) + k - 1]
    BY <2>1, <2>2, SubList, SMT
  <2> HIDE DEF r
  <2> QED
    BY <1>1, <2>3, SMT
<1>4. Unlink(s, i) = l \o r
  BY DEF Unlink
<1> HIDE DEF l, r
<1> DEFINE w == l \o r
<1>5. /\ w \in Seq(S) /\ Len(w) = Len(l) + Len(r)
      /\ \A k \in 1 .. Len(l) + Len(r) :
           w[k] = IF k <= Len(l) THEN l[k] ELSE r[k - Len(l)]
  BY <1>2, <1>3, ListJoin
<1> HIDE DEF w
<1>6. ASSUME NEW j \in 1 .. Len(s) - 1
      PROVE  w[j] = IF j < i THEN s[j] ELSE s[j + 1]
  <2>1. w[j] = IF j <= i - 1 THEN l[j] ELSE r[j - (i - 1)]
    BY <1>1, <1>2, <1>3, <1>5, SMT
  <2>2. j <= i - 1 => l[j] = s[j]
    BY <1>2, SMT
  <2>3. ~(j <= i - 1) => r[j - (i - 1)] = s[j + 1]
    <3>1. ~(j <= i - 1) => j - (i - 1) \in 1 .. Len(s) - i /\ i + (j - (i - 1)) = j + 1
      BY <1>1, SMT
    <3> QED
      BY <1>3, <3>1
  <2> QED
    BY <1>1, <2>1, <2>2, <2>3, SMT
<1>7. Len(w) = Len(s) - 1
  BY <1>1, <1>2, <1>3, <1>5, SMT
<1>8. Unlink(s, i) = w
  BY <1>4 DEF w
<1> QED
  BY <1>5, <1>6, <1>7, <1>8

(* A list with a new head.                                                 *)
LEMMA Consed ==
  ASSUME NEW S, NEW s \in Seq(S), NEW e \in S
  PROVE  /\ <<e>> \o s \in Seq(S)
         /\ Len(<<e>> \o s) = Len(s) + 1
         /\ (<<e>> \o s)[1] = e
         /\ \A j \in 2 .. Len(s) + 1 : (<<e>> \o s)[j] = s[j - 1]
<1>1. <<e>> \in Seq(S) /\ Len(<<e>>) = 1 /\ <<e>>[1] = e
  BY SMT
<1>2. Len(s) \in Nat
  BY ListFacts
<1>3. /\ <<e>> \o s \in Seq(S) /\ Len(<<e>> \o s) = Len(<<e>>) + Len(s)
      /\ \A k \in 1 .. Len(<<e>>) + Len(s) :
           (<<e>> \o s)[k] = IF k <= Len(<<e>>) THEN <<e>>[k] ELSE s[k - Len(<<e>>)]
  BY <1>1, ListJoin
<1> QED
  BY <1>1, <1>2, <1>3, SMT

(* A list with an element put in before the i-th.                          *)
InsertAt(s, i, e) == SubSeq(s, 1, i - 1) \o <<e>> \o SubSeq(s, i, Len(s))

(* Inserting an entry before position i moves the entries from i on by     *)
(* one.                                                                    *)
LEMMA Inserted ==
  ASSUME NEW S, NEW s \in Seq(S), NEW i \in 1 .. Len(s), NEW e \in S
  PROVE  /\ InsertAt(s, i, e) \in Seq(S)
         /\ Len(InsertAt(s, i, e)) = Len(s) + 1
         /\ \A j \in 1 .. Len(s) + 1 :
              InsertAt(s, i, e)[j] =
                IF j < i THEN s[j] ELSE IF j = i THEN e ELSE s[j - 1]
<1> DEFINE l == SubSeq(s, 1, i - 1)
           r == SubSeq(s, i, Len(s))
<1>1. Len(s) \in Nat /\ i \in Int /\ 1 <= i /\ i <= Len(s)
      /\ \A k \in 1 .. Len(s) : s[k] \in S
  BY ListFacts, SMT
<1>2. /\ l \in Seq(S) /\ Len(l) = i - 1
      /\ \A k \in 1 .. i - 1 : l[k] = s[k]
  <2>1. \A k \in 1 .. i - 1 : s[k] \in S
    BY <1>1, SMT
  <2>2. 1 \in Int /\ i - 1 \in Int
    BY <1>1, SMT
  <2>3. /\ l \in Seq(S) /\ Len(l) = IF 1 <= i - 1 THEN (i - 1) - 1 + 1 ELSE 0
        /\ \A k \in 1 .. (i - 1) - 1 + 1 : l[k] = s[1 + k - 1]
    BY <2>1, <2>2, SubList, SMT
  <2> HIDE DEF l
  <2> QED
    BY <1>1, <2>3, SMT
<1>3. /\ r \in Seq(S) /\ Len(r) = Len(s) - i + 1
      /\ \A k \in 1 .. Len(s) - i + 1 : r[k] = s[i + k - 1]
  <2>1. \A k \in i .. Len(s) : s[k] \in S
    BY <1>1, SMT
  <2>2. i \in Int /\ Len(s) \in Int
    BY <1>1, SMT
  <2>3. /\ r \in Seq(S) /\ Len(r) = IF i <= Len(s) THEN Len(s) - i + 1 ELSE 0
        /\ \A k \in 1 .. Len(s) - i + 1 : r[k] = s[i + k - 1]
    BY <2>1, <2>2, SubList, SMT
  <2> HIDE DEF r
  <2> QED
    BY <1>1, <2>3
<1>4. InsertAt(s, i, e) = (l \o <<e>>) \o r
  BY DEF InsertAt
<1> HIDE DEF l, r
<1>5. <<e>> \in Seq(S) /\ Len(<<e>>) = 1 /\ <<e>>[1] = e
  BY SMT
<1> DEFINE m == l \o <<e>>
<1>6. /\ m \in Seq(S) /\ Len(m) = Len(l) + Len(<<e>>)
      /\ \A k \in 1 .. Len(l) + Len(<<e>>) :
           m[k] = IF k <= Len(l) THEN l[k] ELSE <<e>>[k - Len(l)]
  BY <1>2, <1>5, ListJoin
<1> HIDE DEF m
<1>7. Len(m) = i /\ m[i] = e /\ \A k \in 1 .. i - 1 : m[k] = s[k]
  <2>1. Len(m) = i /\ Len(l) = i - 1
    BY <1>1, <1>2, <1>5, <1>6, SMT
  <2>2. \A k \in 1 .. i : m[k] = IF k <= i - 1 THEN l[k] ELSE <<e>>[k - (i - 1)]
    <3>1. Len(l) + Len(<<e>>) = i
      BY <1>1, <1>5, <2>1, SMT
    <3> QED
      BY <1>6, <2>1, <3>1
  <2>3. m[i] = e
    <3>1. i \in 1 .. i /\ ~(i <= i - 1) /\ i - (i - 1) = 1
      BY <1>1, SMT
    <3> QED
      BY <1>5, <2>2, <3>1
  <2>4. ASSUME NEW k \in 1 .. i - 1 PROVE m[k] = s[k]
    <3>1. k \in 1 .. i /\ k <= i - 1
      BY <1>1, SMT
    <3> QED
      BY <1>2, <2>2, <3>1
  <2> QED
    BY <2>1, <2>3, <2>4
<1> DEFINE w == m \o r
<1>8. /\ w \in Seq(S) /\ Len(w) = Len(m) + Len(r)
      /\ \A k \in 1 .. Len(m) + Len(r) :
           w[k] = IF k <= Len(m) THEN m[k] ELSE r[k - Len(m)]
  <2>1. m \in Seq(S) /\ r \in Seq(S)
    BY <1>3, <1>6
  <2> QED
    BY <2>1, ListJoin
<1>9. InsertAt(s, i, e) = w
  BY <1>4 DEF m
<1> HIDE DEF w
<1>10. ASSUME NEW j \in 1 .. Len(s) + 1
       PROVE  w[j] = IF j < i THEN s[j] ELSE IF j = i THEN e ELSE s[j - 1]
  <2>1. w[j] = IF j <= i THEN m[j] ELSE r[j - i]
    BY <1>1, <1>3, <1>7, <1>8, SMT
  <2>2. j < i => m[j] = s[j]
    BY <1>1, <1>7, SMT
  <2>3. ~(j <= i) => r[j - i] = s[j - 1]
    <3>1. ~(j <= i) => j - i \in 1 .. Len(s) - i + 1 /\ i + (j - i) - 1 = j - 1
      BY <1>1, SMT
    <3> QED
      BY <1>3, <3>1
  <2> QED
    BY <1>1, <1>7, <2>1, <2>2, <2>3, SMT
<1>11. Len(w) = Len(s) + 1
  BY <1>1, <1>3, <1>7, <1>8, SMT
<1> QED
  BY <1>8, <1>9, <1>10, <1>11

(* The position of the n-th element of a sublist.                          *)
Nth(I, n) == CHOOSE i \in I : Cardinality({j \in I : j <= i}) = n

(* Counting up to a position, every number is met.                         *)
LEMMA NthIn ==
  ASSUME NEW l \in Nat, NEW I \in SUBSET (1 .. l), NEW n \in 1 .. Cardinality(I)
  PROVE  Nth(I, n) \in I /\ Cardinality({j \in I : j <= Nth(I, n)}) = n
<1> DEFINE Upto(i) == {j \in I : j <= i}
           X == {i \in 0 .. l : Cardinality(Upto(i)) >= n}
<1>0. \A j \in I : j \in Int /\ 1 <= j /\ j <= l /\ ~(j <= 0)
  BY SMT
<1>1. IsFiniteSet(I)
  <2>1. IsFiniteSet(1 .. l)
    BY FS_Interval, SMT
  <2> QED
    BY <2>1, FS_Subset
<1>2. \A i : IsFiniteSet(Upto(i)) /\ Cardinality(Upto(i)) \in Nat
  <2> SUFFICES ASSUME NEW i PROVE IsFiniteSet(Upto(i)) /\ Cardinality(Upto(i)) \in Nat
    OBVIOUS
  <2>1. Upto(i) \in SUBSET I
    OBVIOUS
  <2>2. IsFiniteSet(Upto(i))
    BY <1>1, <2>1, FS_Subset
  <2> QED
    BY <2>2, FS_CardinalityType
<1>3. Cardinality(I) \in Nat /\ n \in Nat /\ n >= 1 /\ n <= Cardinality(I)
  BY <1>1, FS_CardinalityType, SMT
<1>4. l \in X
  <2>1. Upto(l) = I
    BY <1>0
  <2> QED
    BY <1>3, <2>1, SMT
<1> DEFINE k == Min(X)
<1>5. k \in X /\ \A y \in X : k <= y
  <2>1. X \in SUBSET Nat
    BY SMT
  <2> HIDE DEF X
  <2> QED
    BY <1>4, <2>1, FirstIn
<1> HIDE DEF k
<1>6. k \in 0 .. l /\ Cardinality(Upto(k)) >= n
  BY <1>5
<1>7. k # 0
  <2>1. Upto(0) = {}
    BY <1>0
  <2>2. Cardinality(Upto(0)) = 0
    BY <2>1, FS_EmptySet
  <2> QED
    BY <1>3, <1>6, <2>2, SMT
<1>8. k - 1 \in 0 .. l /\ k - 1 \notin X
  <2> HIDE DEF X
  <2>1. k - 1 \in 0 .. l /\ ~(k <= k - 1)
    BY <1>6, <1>7, SMT
  <2> QED
    BY <1>5, <2>1
<1>9. Cardinality(Upto(k - 1)) < n
  <2>1. ~(Cardinality(Upto(k - 1)) >= n)
    BY <1>8
  <2>2. Cardinality(Upto(k - 1)) \in Nat
    BY <1>2
  <2> HIDE DEF Upto
  <2> QED
    BY <1>3, <2>1, <2>2, SMT
<1>10. k \in I
  <2> SUFFICES ASSUME k \notin I PROVE FALSE
    OBVIOUS
  <2>1. \A j \in I : j <= k <=> j <= k - 1
    BY <1>0, <1>6, SMT
  <2>2. Upto(k) = Upto(k - 1)
    BY <2>1
  <2> QED
    BY <1>2, <1>3, <1>6, <1>9, <2>2, SMT
<1>11. Cardinality(Upto(k)) = n
  <2>0. /\ \A j \in I : j <= k <=> j <= k - 1 \/ j = k
        /\ ~(k <= k - 1)
    BY <1>0, <1>6, SMT
  <2>1. Upto(k) = Upto(k - 1) \cup {k} /\ k \notin Upto(k - 1)
    BY <1>10, <2>0
  <2> DEFINE U == Upto(k - 1)
  <2>2. IsFiniteSet(U) /\ Cardinality(U) \in Nat /\ Cardinality(U) < n
    BY <1>2, <1>9
  <2>3. Upto(k) = U \cup {k} /\ k \notin U
    BY <2>1
  <2> HIDE DEF U
  <2>4. Cardinality(U \cup {k}) = Cardinality(U) + 1
    BY <2>2, <2>3, FS_AddElement
  <2> HIDE DEF Upto
  <2> QED
    BY <1>2, <1>3, <1>6, <2>2, <2>3, <2>4, SMT
<1>12. \E i \in I : Cardinality({j \in I : j <= i}) = n
  BY <1>10, <1>11
<1> QED
  BY <1>12 DEF Nth

(* A sublist has the elements at the positions given, each once.           *)
LEMMA Sublisted ==
  ASSUME NEW S, NEW s \in Seq(S), NEW I \in SUBSET (1 .. Len(s))
  PROVE  /\ Sublist(s, I) \in Seq(S)
         /\ Cardinality(I) \in 0 .. Len(s)
         /\ Len(Sublist(s, I)) = Cardinality(I)
         /\ \A n \in 1 .. Cardinality(I) :
              Nth(I, n) \in I /\ Sublist(s, I)[n] = s[Nth(I, n)]
         /\ \A m, n \in 1 .. Cardinality(I) : Nth(I, m) = Nth(I, n) => m = n
<1> DEFINE c == Cardinality(I)
           t == [n \in 1 .. c |-> s[Nth(I, n)]]
<1>1. Len(s) \in Nat /\ \A i \in 1 .. Len(s) : s[i] \in S
  BY ListFacts
<1>2. c \in 0 .. Len(s)
  <2> DEFINE u == Len(s)
  <2>0. u \in Nat /\ 1 \in Int /\ u \in Int
    BY <1>1, SMT
  <2> HIDE DEF u
  <2>a. /\ IsFiniteSet(1 .. u)
        /\ Cardinality(1 .. u) = IF 1 > u THEN 0 ELSE u - 1 + 1
    BY <2>0, FS_Interval
  <2>1. IsFiniteSet(1 .. Len(s)) /\ Cardinality(1 .. Len(s)) <= Len(s)
    BY <2>0, <2>a, SMT DEF u
  <2>2. IsFiniteSet(I) /\ c <= Cardinality(1 .. Len(s))
    BY <2>1, FS_Subset
  <2>3. c \in Nat /\ Cardinality(1 .. Len(s)) \in Nat
    BY <2>1, <2>2, FS_CardinalityType
  <2> QED
    BY <1>1, <2>1, <2>2, <2>3, SMT
<1>3. \A n \in 1 .. c : Nth(I, n) \in I /\ Cardinality({j \in I : j <= Nth(I, n)}) = n
  BY <1>1, NthIn
<1>4. Sublist(s, I) = t
  BY DEF Sublist, Nth
<1>5. \A m, n \in 1 .. c : Nth(I, m) = Nth(I, n) => m = n
  BY <1>3
<1> HIDE DEF c
<1>6. \A n \in 1 .. c : s[Nth(I, n)] \in S
  BY <1>1, <1>3
<1>7. t \in [1 .. c -> S] /\ \A n \in 1 .. c : t[n] = s[Nth(I, n)]
  BY <1>6
<1> HIDE DEF t
<1>8. t \in Seq(S) /\ Len(t) = c
  BY <1>2, <1>7, SMT
<1> QED
  BY <1>2, <1>3, <1>4, <1>5, <1>7, <1>8 DEF c

-----------------------------------------------------------------------------
(* One list is another with e put in at position i.  Both lists change in  *)
(* no other way, read forwards or backwards.                               *)
Wider(l, i, e, m) ==
  /\ i \in 1 .. Len(l) + 1
  /\ Len(m) = Len(l) + 1
  /\ \A j \in 1 .. Len(l) + 1 :
       m[j] = IF j < i THEN l[j] ELSE IF j = i THEN e ELSE l[j - 1]

(* A list is wider than itself without its i-th entry by that entry: what  *)
(* UNLINK_SLIST does.                                                      *)
LEMMA RemoveWider ==
  ASSUME NEW S, NEW s \in Seq(S), NEW i \in 1 .. Len(s)
  PROVE  /\ Unlink(s, i) \in Seq(S) /\ Len(Unlink(s, i)) = Len(s) - 1
         /\ Wider(Unlink(s, i), i, s[i], s)
<1> DEFINE l == Unlink(s, i)
<1>1. /\ l \in Seq(S) /\ Len(l) = Len(s) - 1
      /\ \A j \in 1 .. Len(s) - 1 : l[j] = IF j < i THEN s[j] ELSE s[j + 1]
  BY Removed
<1>2. Len(s) \in Nat
  BY ListFacts
<1> HIDE DEF l
<1>3. ASSUME NEW j \in 1 .. Len(s)
      PROVE  s[j] = IF j < i THEN l[j] ELSE IF j = i THEN s[i] ELSE l[j - 1]
  <2>1. j < i => l[j] = s[j]
    BY <1>1, <1>2, SMT
  <2>2. j > i => l[j - 1] = s[j]
    <3>1. j > i => j - 1 \in 1 .. Len(s) - 1 /\ ~(j - 1 < i) /\ (j - 1) + 1 = j
      BY <1>2, SMT
    <3> QED
      BY <1>1, <3>1
  <2> QED
    BY <1>2, <2>1, <2>2, SMT
<1>4. i \in 1 .. Len(l) + 1 /\ Len(l) + 1 = Len(s)
  BY <1>1, <1>2, SMT
<1>5. Wider(l, i, s[i], s)
  BY <1>3, <1>4 DEF Wider
<1> QED
  BY <1>1, <1>5 DEF l

(* A list with a new head is wider by that head: what LINK_SLIST does.     *)
LEMMA ConsWider ==
  ASSUME NEW S, NEW s \in Seq(S), NEW e \in S
  PROVE  /\ <<e>> \o s \in Seq(S) /\ Len(<<e>> \o s) = Len(s) + 1
         /\ Wider(s, 1, e, <<e>> \o s)
<1> DEFINE m == <<e>> \o s
<1>1. /\ m \in Seq(S) /\ Len(m) = Len(s) + 1 /\ m[1] = e
      /\ \A j \in 2 .. Len(s) + 1 : m[j] = s[j - 1]
  BY Consed, SMT
<1>2. Len(s) \in Nat
  BY ListFacts
<1> HIDE DEF m
<1>3. Wider(s, 1, e, m)
  BY <1>1, <1>2, SMT DEF Wider
<1> QED
  BY <1>1, <1>3 DEF m

(* What a list has in it, ...                                              *)
LEMMA WiderElements ==
  ASSUME NEW S, NEW l \in Seq(S), NEW m \in Seq(S), NEW i, NEW e, Wider(l, i, e, m)
  PROVE  Range(m) = Range(l) \cup {e}
<1>1. /\ Len(l) \in Nat /\ i \in 1 .. Len(l) + 1
      /\ DOMAIN l = 1 .. Len(l) /\ DOMAIN m = 1 .. Len(l) + 1
  BY ListFacts DEF Wider
<1>2. ASSUME NEW j \in DOMAIN m PROVE m[j] \in Range(l) \cup {e}
  <2>1. \/ j < i /\ j \in DOMAIN l /\ m[j] = l[j]
        \/ m[j] = e
        \/ j > i /\ j - 1 \in DOMAIN l /\ m[j] = l[j - 1]
    BY <1>1, SMT DEF Wider
  <2> QED
    BY <2>1 DEF Range
<1>3. ASSUME NEW j \in DOMAIN l PROVE l[j] \in Range(m)
  <2>1. \/ j \in DOMAIN m /\ m[j] = l[j]
        \/ j + 1 \in DOMAIN m /\ m[j + 1] = l[j]
    <3>1. CASE j < i
      BY <1>1, <3>1, SMT DEF Wider
    <3>2. CASE ~(j < i)
      <4>1. j + 1 \in 1 .. Len(l) + 1 /\ ~(j + 1 < i) /\ j + 1 # i /\ (j + 1) - 1 = j
        BY <1>1, <3>2, SMT
      <4> QED
        BY <1>1, <4>1 DEF Wider
    <3> QED
      BY <3>1, <3>2
  <2> QED
    BY <2>1 DEF Range
<1>4. e \in Range(m)
  <2>1. i \in DOMAIN m /\ m[i] = e
    BY <1>1, SMT DEF Wider
  <2> QED
    BY <2>1 DEF Range
<1> QED
  BY <1>2, <1>3, <1>4 DEF Range

(* ... how many rules of it are limited, ...                               *)
Lim(l) == {j \in DOMAIN l : "limited" \in l[j].flags}

(* The entries with RES_LIMITED are finitely many.                         *)
LEMMA LimFinite ==
  ASSUME NEW S, NEW l \in Seq(S)
  PROVE  IsFiniteSet(Lim(l)) /\ Cardinality(Lim(l)) \in Nat
<1>1. Len(l) \in Nat /\ DOMAIN l = 1 .. Len(l)
  BY ListFacts
<1>2. IsFiniteSet(1 .. Len(l))
  BY <1>1, FS_Interval, SMT
<1>3. Lim(l) \in SUBSET (1 .. Len(l))
  BY <1>1 DEF Lim
<1>4. IsFiniteSet(Lim(l))
  BY <1>2, <1>3, FS_Subset
<1> QED
  BY <1>4, FS_CardinalityType

(* Linking an entry changes the number of RES_LIMITED entries by one when  *)
(* it has the flag, and by nothing otherwise.                              *)
LEMMA WiderCount ==
  ASSUME NEW S, NEW l \in Seq(S), NEW m \in Seq(S), NEW i, NEW e, Wider(l, i, e, m)
  PROVE  Cardinality(Lim(m)) =
           Cardinality(Lim(l)) + IF "limited" \in e.flags THEN 1 ELSE 0
<1> DEFINE X == Lim(l)
           Y == Lim(m) \ {i}
           f == [j \in X |-> IF j < i THEN j ELSE j + 1]
           n == Len(l)
<1>1. /\ n \in Nat /\ i \in 1 .. n + 1
      /\ DOMAIN l = 1 .. n /\ DOMAIN m = 1 .. n + 1
  BY ListFacts DEF Wider
<1>2. \A j \in 1 .. n + 1 : m[j] = IF j < i THEN l[j] ELSE IF j = i THEN e ELSE l[j - 1]
  BY DEF Wider
<1>3. X \in SUBSET (1 .. n) /\ Lim(m) \in SUBSET (1 .. n + 1)
  BY <1>1 DEF Lim
<1> HIDE DEF n
<1>4. ASSUME NEW j \in X PROVE f[j] \in Y
  <2>1. j \in 1 .. n /\ "limited" \in l[j].flags
    BY <1>1, <1>3 DEF Lim
  <2>2. CASE j < i
    <3>1. j \in 1 .. n + 1 /\ j # i /\ m[j] = l[j]
      BY <1>1, <1>2, <2>1, <2>2, SMT
    <3> QED
      BY <1>1, <2>1, <2>2, <3>1 DEF Lim
  <2>3. CASE ~(j < i)
    <3>1. j + 1 \in 1 .. n + 1 /\ j + 1 # i /\ ~(j + 1 < i) /\ (j + 1) - 1 = j
      BY <1>1, <2>1, <2>3, SMT
    <3>2. m[j + 1] = l[j]
      BY <1>2, <3>1
    <3> QED
      BY <1>1, <2>1, <2>3, <3>1, <3>2 DEF Lim
  <2> QED
    BY <2>2, <2>3
<1>5. \A j, k \in X : f[j] = f[k] => j = k
  <2>1. \A j \in X : f[j] = IF j < i THEN j ELSE j + 1
    OBVIOUS
  <2> HIDE DEF f, X
  <2> QED
    BY <1>1, <1>3, <2>1, SMT
<1>6. ASSUME NEW k \in Y PROVE \E j \in X : f[j] = k
  <2>1. k \in 1 .. n + 1 /\ k # i /\ "limited" \in m[k].flags
    BY <1>1, <1>3 DEF Lim
  <2>2. CASE k < i
    <3>1. k \in 1 .. n /\ m[k] = l[k]
      BY <1>1, <1>2, <2>1, <2>2, SMT
    <3>2. k \in X
      BY <1>1, <2>1, <3>1 DEF Lim
    <3> QED
      BY <2>2, <3>2
  <2>3. CASE ~(k < i)
    <3>1. k - 1 \in 1 .. n /\ ~(k - 1 < i) /\ (k - 1) + 1 = k /\ m[k] = l[k - 1]
      BY <1>1, <1>2, <2>1, <2>3, SMT
    <3>2. k - 1 \in X
      BY <1>1, <2>1, <3>1 DEF Lim
    <3>3. f[k - 1] = k
      BY <3>1, <3>2
    <3> QED
      BY <3>2, <3>3
  <2> QED
    BY <2>2, <2>3
<1>7. f \in [X -> Y]
  BY <1>4
<1>8. ExistsBijection(X, Y)
  <2> HIDE DEF X, Y, f
  <2>1. f \in Injection(X, Y)
    BY <1>5, <1>7 DEF Injection, IsInjective
  <2>2. f \in Surjection(X, Y)
    BY <1>6, <1>7 DEF Surjection
  <2> QED
    BY <2>1, <2>2 DEF ExistsBijection, Bijection
<1>9. /\ IsFiniteSet(X) /\ Cardinality(X) \in Nat
      /\ IsFiniteSet(Lim(m)) /\ Cardinality(Lim(m)) \in Nat
  BY LimFinite
<1>10. Cardinality(Y) = Cardinality(X)
  <2> HIDE DEF X, Y
  <2> QED
    BY <1>8, <1>9, FS_Bijection
<1>11. Cardinality(Y) = IF i \in Lim(m) THEN Cardinality(Lim(m)) - 1 ELSE Cardinality(Lim(m))
  BY <1>9, FS_RemoveElement
<1>12. i \in Lim(m) <=> "limited" \in e.flags
  <2>1. i \in DOMAIN m /\ m[i] = e
    BY <1>1, <1>2, SMT
  <2> QED
    BY <2>1 DEF Lim
<1> HIDE DEF X, Y
<1> QED
  BY <1>9, <1>10, <1>11, <1>12, SMT DEF X

(* ... and whether each source has one entry.                              *)
Unique(l) == \A j, k \in DOMAIN l : l[j].src = l[k].src => j = k

(* Linking a client keeps the addresses of the MRU list distinct exactly   *)
(* when its address is new.                                                *)
LEMMA WiderUnique ==
  ASSUME NEW S, NEW l \in Seq(S), NEW m \in Seq(S), NEW i, NEW e, Wider(l, i, e, m)
  PROVE  Unique(m) <=> Unique(l) /\ \A x \in Range(l) : x.src # e.src
<1>1. /\ Len(l) \in Nat /\ i \in 1 .. Len(l) + 1
      /\ DOMAIN l = 1 .. Len(l) /\ DOMAIN m = 1 .. Len(l) + 1
  BY ListFacts DEF Wider
<1> DEFINE At(j) == IF j < i THEN j ELSE j + 1
<1>2. \A j \in DOMAIN l : At(j) \in DOMAIN m /\ At(j) # i /\ m[At(j)] = l[j]
  <2> SUFFICES ASSUME NEW j \in DOMAIN l
               PROVE  At(j) \in DOMAIN m /\ At(j) # i /\ m[At(j)] = l[j]
    OBVIOUS
  <2>1. CASE j < i
    BY <1>1, <2>1, SMT DEF Wider
  <2>2. CASE ~(j < i)
    <3>1. j + 1 \in 1 .. Len(l) + 1 /\ ~(j + 1 < i) /\ j + 1 # i /\ (j + 1) - 1 = j
      BY <1>1, <2>2, SMT
    <3> QED
      BY <1>1, <2>2, <3>1, SMT DEF Wider
  <2> QED
    BY <2>1, <2>2
<1>3. \A j, k \in DOMAIN l : At(j) = At(k) => j = k
  BY <1>1, SMT
<1>4. \A k \in DOMAIN m : k = i \/ \E j \in DOMAIN l : At(j) = k
  <2> SUFFICES ASSUME NEW k \in DOMAIN m, k # i PROVE \E j \in DOMAIN l : At(j) = k
    OBVIOUS
  <2>1. CASE k < i
    BY <1>1, <2>1, SMT
  <2>2. CASE ~(k < i)
    <3>1. k - 1 \in DOMAIN l /\ At(k - 1) = k
      BY <1>1, <2>2, SMT
    <3> QED
      BY <3>1
  <2> QED
    BY <2>1, <2>2
<1>5. i \in DOMAIN m /\ m[i] = e
  BY <1>1, SMT DEF Wider
<1> HIDE DEF At
<1>6. ASSUME Unique(m) PROVE Unique(l) /\ \A x \in Range(l) : x.src # e.src
  <2>1. ASSUME NEW j \in DOMAIN l, NEW k \in DOMAIN l, l[j].src = l[k].src
        PROVE  j = k
    <3>1. At(j) = At(k)
      BY <1>2, <1>6, <2>1 DEF Unique
    <3> QED
      BY <1>3, <3>1
  <2>2. ASSUME NEW j \in DOMAIN l, l[j].src = e.src
        PROVE  FALSE
    <3>1. m[At(j)].src = m[i].src
      BY <1>2, <1>5, <2>2
    <3> QED
      BY <1>2, <1>5, <1>6, <3>1 DEF Unique
  <2> QED
    BY <2>1, <2>2 DEF Unique, Range
<1>7. ASSUME Unique(l), \A x \in Range(l) : x.src # e.src PROVE Unique(m)
  <2>1. \A j \in DOMAIN l : l[j].src # e.src
    BY <1>7 DEF Range
  <2> SUFFICES ASSUME NEW a \in DOMAIN m, NEW b \in DOMAIN m, m[a].src = m[b].src
               PROVE  a = b
    BY DEF Unique
  <2>4. \A k \in DOMAIN m : k = i \/ m[k].src # e.src
    <3> SUFFICES ASSUME NEW k \in DOMAIN m, k # i PROVE m[k].src # e.src
      OBVIOUS
    <3>1. PICK j \in DOMAIN l : At(j) = k
      BY <1>4
    <3>2. m[k] = l[j] /\ l[j].src # e.src
      BY <1>2, <2>1, <3>1
    <3> QED
      BY <3>2
  <2>2. CASE a = i \/ b = i
    BY <1>5, <2>2, <2>4
  <2>3. CASE a # i /\ b # i
    <3>1. PICK j \in DOMAIN l : At(j) = a
      BY <1>4, <2>3
    <3>2. PICK k \in DOMAIN l : At(k) = b
      BY <1>4, <2>3
    <3> QED
      BY <1>2, <1>7, <3>1, <3>2 DEF Unique
  <2> QED
    BY <2>2, <2>3
<1> QED
  BY <1>6, <1>7

(* The order of the rules is kept when one goes, and when one comes that   *)
(* fits in.                                                                *)
Sorted(l) == \A j, k \in DOMAIN l : j < k => SortsBefore(l[j].key, l[k].key)

(* Linking an entry at a place where it sorts keeps the restriction list   *)
(* sorted, and unlinking one always does.                                  *)
LEMMA WiderSorted ==
  ASSUME NEW S, NEW l \in Seq(S), NEW m \in Seq(S), NEW i, NEW e, Wider(l, i, e, m)
  PROVE  /\ Sorted(m) => Sorted(l)
         /\ (/\ Sorted(l)
             /\ \A j \in DOMAIN l : IF j < i THEN SortsBefore(l[j].key, e.key)
                                             ELSE SortsBefore(e.key, l[j].key))
            => Sorted(m)
<1>1. /\ Len(l) \in Nat /\ i \in 1 .. Len(l) + 1
      /\ DOMAIN l = 1 .. Len(l) /\ DOMAIN m = 1 .. Len(l) + 1
  BY ListFacts DEF Wider
<1>2. \A j \in 1 .. Len(l) + 1 : m[j] = IF j < i THEN l[j] ELSE IF j = i THEN e ELSE l[j - 1]
  BY DEF Wider
<1>3. ASSUME Sorted(m), NEW j \in DOMAIN l, NEW k \in DOMAIN l, j < k
      PROVE  SortsBefore(l[j].key, l[k].key)
  <2> DEFINE a == IF j < i THEN j ELSE j + 1
             b == IF k < i THEN k ELSE k + 1
  <2>1. a \in DOMAIN m /\ b \in DOMAIN m /\ a < b
    BY <1>1, <1>3, SMT
  <2>2. m[a] = l[j] /\ m[b] = l[k]
    BY <1>1, <1>2, SMT
  <2> HIDE DEF a, b
  <2> QED
    BY <1>3, <2>1, <2>2 DEF Sorted
<1>4. ASSUME Sorted(l),
             \A j \in DOMAIN l : IF j < i THEN SortsBefore(l[j].key, e.key)
                                         ELSE SortsBefore(e.key, l[j].key),
             NEW a \in DOMAIN m, NEW b \in DOMAIN m, a < b
      PROVE  SortsBefore(m[a].key, m[b].key)
  <2> DEFINE j == IF a < i THEN a ELSE a - 1
             k == IF b < i THEN b ELSE b - 1
  <2>1. CASE a # i /\ b # i
    <3>1. j \in DOMAIN l /\ k \in DOMAIN l /\ j < k
      BY <1>1, <1>4, <2>1, SMT
    <3>2. m[a] = l[j] /\ m[b] = l[k]
      BY <1>1, <1>2, <2>1
    <3> HIDE DEF j, k
    <3> QED
      BY <1>4, <3>1, <3>2 DEF Sorted
  <2>2. CASE a = i
    <3>1. k \in DOMAIN l /\ ~(k < i) /\ m[b] = l[k] /\ m[a] = e
      BY <1>1, <1>2, <1>4, <2>2, SMT
    <3> HIDE DEF k
    <3> QED
      BY <1>4, <3>1
  <2>3. CASE b = i
    <3>1. j \in DOMAIN l /\ j < i /\ m[a] = l[j] /\ m[b] = e
      BY <1>1, <1>2, <1>4, <2>3, SMT
    <3> HIDE DEF j
    <3> QED
      BY <1>4, <3>1
  <2> QED
    BY <2>1, <2>2, <2>3
<1> QED
  BY <1>3, <1>4 DEF Sorted

-----------------------------------------------------------------------------
(* What the invariant says of a state as the functions pass it along, w    *)
(* being the site.                                                         *)

(* The rules are sorted, no two for the same key.  Neither the rule for    *)
(* everyone nor one of an interface ever expires, and the first is never   *)
(* removed.                                                                *)
Listed(l) ==
  /\ l \in Seq(Rules) /\ Sorted(l)
  /\ \E x \in Range(l) : x.key = DefaultKey /\ x.expire = "never"
  /\ \A x \in Range(l) : x.key.mflags = Interface => x.expire = "never"

(* A source whose last KoD is Headway or less ago cannot have another:     *)
(* what has leaked since, and what will have when it calls now, leaves the *)
(* bucket full.                                                            *)
Waiting(e) ==
  e.kod <= Headway => e.leak >= Limit + Headway - e.kod + (IF e.age > 0 THEN e.age ELSE 0)

GoodClients ==
  {e \in Clients : /\ e.kod >= e.age \/ e.kod = Headway + 1
                   /\ Waiting(e)
                   /\ e.age < 0 => e.leak <= Limit + Headway}

Bound(w) == Max({w.initalloc, w.maxdepth + w.incalloc - 1, w.mindepth + w.incalloc - 1})

Mons == [enabled : SUBSET {"on", "res"}, mru : Seq(GoodClients),
         entries : Nat, free : Nat, alloc : Nat \ {0}]

Monitored(w, m) ==
  /\ m \in Mons
  /\ m.entries = Len(m.mru) /\ m.free + Len(m.mru) = m.alloc
  /\ Unique(m.mru)
  /\ m.alloc <= Bound(w)

(* The monitor is on while a rule is limited.                              *)
Linked(s) ==
  s.drift \/ /\ s.refcnt = Cardinality(Lim(s.list))
             /\ "res" \in s.mon.enabled <=> s.refcnt > 0

(* The interfaces that are there, or were when a packet came in.           *)
Ends(w, l) ==
  {0, Stale} \cup {a \in w.ifaces : \E x \in Range(l) : x.key = HostKey(a, Interface)}

States == [list : Seq(Rules), refcnt : Int, drift : BOOLEAN, mon : Mons]

Good(w, s) ==
  /\ s \in States
  /\ Listed(s.list) /\ Monitored(w, s.mon) /\ Linked(s)
  /\ \A x \in Range(s.mon.mru) : x.lcladr \in Ends(w, s.list)

RateInv ==
  site \in Sites /\ Good(site, Now) /\ deleted \in BOOLEAN /\ kodgap = Headway + 1

-----------------------------------------------------------------------------
(* mon_start and mon_stop.                                                 *)
LEMMA Started ==
  ASSUME NEW w, NEW m, Monitored(w, m), NEW mode \in {"on", "res"}
  PROVE  /\ Monitored(w, MonStart(m, mode))
         /\ MonStart(m, mode).mru = m.mru
         /\ MonStart(m, mode).enabled = m.enabled \cup {mode}
<1> DEFINE n == [m EXCEPT !.enabled = @ \cup {mode}]
<1>1. m \in Mons
  BY DEF Monitored
<1>2. /\ n \in Mons /\ n.mru = m.mru /\ n.enabled = m.enabled \cup {mode}
      /\ n.entries = m.entries /\ n.free = m.free /\ n.alloc = m.alloc
  BY <1>1 DEF Mons
<1>3. MonStart(m, mode) = n
  BY DEF MonStart
<1> HIDE DEF n
<1> QED
  BY <1>2, <1>3 DEF Monitored

(* mon_stop() clears one reason to monitor and forgets clients only.       *)
LEMMA Stopped ==
  ASSUME NEW w, NEW m, Monitored(w, m), NEW mode \in {"on", "res"}
  PROVE  /\ Monitored(w, MonStop(m, mode))
         /\ Range(MonStop(m, mode).mru) \subseteq Range(m.mru)
         /\ MonStop(m, mode).enabled = m.enabled \ {mode}
<1>1. m \in Mons
  BY DEF Monitored
<1>2. CASE m.enabled = {mode}
  <2> DEFINE n == [m EXCEPT !.enabled = {}, !.mru = <<>>, !.entries = 0,
                            !.free = @ + Len(m.mru)]
  <2>0. m.mru \in Seq(GoodClients) /\ Len(m.mru) \in Nat
    BY <1>1, ListFacts DEF Mons
  <2>a. m.free \in Nat /\ m.free + Len(m.mru) \in Nat /\ <<>> \in Seq(GoodClients)
    BY <1>1, <2>0, SMT DEF Mons
  <2>1. /\ n \in Mons /\ n.mru = <<>> /\ n.enabled = {}
        /\ n.entries = 0 /\ n.free = m.free + Len(m.mru) /\ n.alloc = m.alloc
    BY <1>1, <2>a DEF Mons
  <2>2. MonStop(m, mode) = n
    BY <1>2 DEF MonStop
  <2> HIDE DEF n
  <2>3. Len(n.mru) = 0 /\ DOMAIN n.mru = {}
    BY <2>1, SMT
  <2>4. Unique(n.mru) /\ Range(n.mru) = {}
    BY <2>3 DEF Unique, Range
  <2>5. n.free + Len(n.mru) = n.alloc /\ n.entries = Len(n.mru)
    <3>1. m.free + Len(m.mru) = m.alloc
      BY DEF Monitored
    <3> QED
      BY <2>a, <2>1, <2>3, <3>1, SMT
  <2> QED
    BY <1>2, <2>1, <2>2, <2>4, <2>5 DEF Monitored
<1>3. CASE m.enabled # {mode}
  <2> DEFINE n == [m EXCEPT !.enabled = @ \ {mode}]
  <2>1. /\ n \in Mons /\ n.mru = m.mru /\ n.enabled = m.enabled \ {mode}
        /\ n.entries = m.entries /\ n.free = m.free /\ n.alloc = m.alloc
    BY <1>1 DEF Mons
  <2>2. MonStop(m, mode) = n
    BY <1>3 DEF MonStop
  <2> HIDE DEF n
  <2> QED
    BY <2>1, <2>2 DEF Monitored
<1> QED
  BY <1>2, <1>3

(* The reference count switches the monitor and touches no rule.           *)
Adjusted(w, s, t) ==
  /\ t \in States /\ Monitored(w, t.mon)
  /\ t.list = s.list /\ t.drift = s.drift
  /\ Range(t.mon.mru) \subseteq Range(s.mon.mru)

(* A state is an adjustment of itself: the path through restrict that      *)
(* leaves the count alone.                                                 *)
LEMMA Unadjusted ==
  ASSUME NEW w, NEW s \in States, Monitored(w, s.mon)
  PROVE  Adjusted(w, s, s)
BY DEF Adjusted

(* inc_res_limited() counts one entry more and starts monitoring at the    *)
(* first.                                                                  *)
LEMMA Incremented ==
  ASSUME NEW w, NEW s \in States, Monitored(w, s.mon)
  PROVE  /\ Adjusted(w, s, IncLimited(s))
         /\ IncLimited(s).refcnt = s.refcnt + 1
         /\ "res" \in IncLimited(s).mon.enabled <=>
              s.refcnt = 0 \/ "res" \in s.mon.enabled
<1> DEFINE n == IF s.refcnt = 0 THEN MonStart(s.mon, "res") ELSE s.mon
           c == s.refcnt + 1
           t == [s EXCEPT !.refcnt = c, !.mon = n]
<1>1. /\ Monitored(w, n) /\ n.mru = s.mon.mru
      /\ "res" \in n.enabled <=> s.refcnt = 0 \/ "res" \in s.mon.enabled
  BY Started
<1>2. n \in Mons
  BY <1>1 DEF Monitored
<1>3. IncLimited(s) = t
  BY DEF IncLimited
<1>5. c \in Int
  BY SMT DEF States
<1> HIDE DEF n, c
<1>4. /\ t \in States /\ t.list = s.list /\ t.drift = s.drift
      /\ t.refcnt = c /\ t.mon = n
  BY <1>2, <1>5 DEF States
<1> HIDE DEF t
<1> QED
  BY <1>1, <1>3, <1>4 DEF Adjusted, c

(* dec_res_limited() counts one entry less and stops monitoring at the     *)
(* last.                                                                   *)
LEMMA Decremented ==
  ASSUME NEW w, NEW s \in States, Monitored(w, s.mon)
  PROVE  /\ Adjusted(w, s, DecLimited(s))
         /\ DecLimited(s).refcnt = s.refcnt - 1
         /\ "res" \in DecLimited(s).mon.enabled <=>
              s.refcnt # 1 /\ "res" \in s.mon.enabled
<1> DEFINE n == IF s.refcnt = 1 THEN MonStop(s.mon, "res") ELSE s.mon
           c == s.refcnt - 1
           t == [s EXCEPT !.refcnt = c, !.mon = n]
<1>1. /\ Monitored(w, n) /\ Range(n.mru) \subseteq Range(s.mon.mru)
      /\ "res" \in n.enabled <=> s.refcnt # 1 /\ "res" \in s.mon.enabled
  <2>1. CASE s.refcnt = 1
    <3>1. n = MonStop(s.mon, "res")
      BY <2>1
    <3> HIDE DEF n
    <3> QED
      BY <2>1, <3>1, Stopped
  <2>2. CASE s.refcnt # 1
    <3>1. n = s.mon
      BY <2>2
    <3> HIDE DEF n
    <3> QED
      BY <2>2, <3>1
  <2> QED
    BY <2>1, <2>2
<1>2. n \in Mons
  BY <1>1 DEF Monitored
<1>3. DecLimited(s) = t
  BY DEF DecLimited
<1>5. c \in Int
  BY SMT DEF States
<1> HIDE DEF n, c
<1>4. /\ t \in States /\ t.list = s.list /\ t.drift = s.drift
      /\ t.refcnt = c /\ t.mon = n
  BY <1>2, <1>5 DEF States
<1> HIDE DEF t
<1> QED
  BY <1>1, <1>3, <1>4 DEF Adjusted, c

(* A count that agrees with the rules agrees after a rule has come or gone *)
(* with the count.                                                         *)
LEMMA LinkedDown ==
  ASSUME NEW w, NEW s \in States, Monitored(w, s.mon), Linked(s), s.drift = FALSE,
         NEW l \in Seq(Rules), Cardinality(Lim(s.list)) = Cardinality(Lim(l)) + 1
  PROVE  /\ DecLimited(s).refcnt = Cardinality(Lim(l))
         /\ "res" \in DecLimited(s).mon.enabled <=> DecLimited(s).refcnt > 0
<1>1. Cardinality(Lim(l)) \in Nat
  BY LimFinite
<1>2. /\ s.refcnt = Cardinality(Lim(s.list))
      /\ "res" \in s.mon.enabled <=> s.refcnt > 0
  BY DEF Linked
<1>3. DecLimited(s).refcnt = s.refcnt - 1
  BY Decremented
<1>4. "res" \in DecLimited(s).mon.enabled <=> s.refcnt # 1 /\ "res" \in s.mon.enabled
  BY Decremented
<1>5. DecLimited(s).refcnt = Cardinality(Lim(l))
  BY <1>1, <1>2, <1>3, SMT
<1>6. s.refcnt # 1 /\ s.refcnt > 0 <=> DecLimited(s).refcnt > 0
  BY <1>1, <1>2, <1>3, SMT
<1> QED
  BY <1>2, <1>4, <1>5, <1>6

(* inc_res_limited() restores the link between the count and the list when *)
(* one RES_LIMITED entry joins.                                            *)
LEMMA LinkedUp ==
  ASSUME NEW w, NEW s \in States, Monitored(w, s.mon), Linked(s), s.drift = FALSE,
         NEW l \in Seq(Rules), Cardinality(Lim(l)) = Cardinality(Lim(s.list)) + 1
  PROVE  /\ IncLimited(s).refcnt = Cardinality(Lim(l))
         /\ "res" \in IncLimited(s).mon.enabled <=> IncLimited(s).refcnt > 0
<1>0. s.list \in Seq(Rules)
  BY DEF States
<1>1. Cardinality(Lim(s.list)) \in Nat
  BY <1>0, LimFinite
<1>2. /\ s.refcnt = Cardinality(Lim(s.list))
      /\ "res" \in s.mon.enabled <=> s.refcnt > 0
  BY DEF Linked
<1>3. IncLimited(s).refcnt = s.refcnt + 1
  BY Incremented
<1>4. "res" \in IncLimited(s).mon.enabled <=> s.refcnt = 0 \/ "res" \in s.mon.enabled
  BY Incremented
<1>5. IncLimited(s).refcnt = Cardinality(Lim(l))
  BY <1>1, <1>2, <1>3
<1>6. (s.refcnt = 0 \/ s.refcnt > 0) /\ IncLimited(s).refcnt > 0
  BY <1>1, <1>2, <1>3, SMT
<1> QED
  BY <1>2, <1>4, <1>5, <1>6

(* free_res() of a rule that may go: not the one for everyone, nor that of *)
(* an interface some entry refers to.                                      *)
Freed(w, s, e, t) ==
  /\ Good(w, t)
  /\ \A a \in Ends(w, s.list) : e.key # HostKey(a, Interface) => a \in Ends(w, t.list)

(* free_res() of an entry other than the default, or than the one of an    *)
(* interface in use, keeps the invariant.                                  *)
LEMMA FreeGood ==
  ASSUME NEW w, NEW s, Good(w, s), 0 \notin w.ifaces, NEW i \in 1 .. Len(s.list),
         ~(s.list[i].key = DefaultKey /\ s.list[i].expire = "never"),
         \A x \in Range(s.mon.mru) : s.list[i].key # HostKey(x.lcladr, Interface)
  PROVE  /\ Freed(w, s, s.list[i], FreeRes(s, i))
         /\ FreeRes(s, i).list = Unlink(s.list, i)
<1> DEFINE e == s.list[i]
           l == Unlink(s.list, i)
           t == IF e.flags # {} THEN DecLimited(s) ELSE s
           d == s.drift \/ (e.flags # {} /\ "limited" \notin e.flags)
           u == [t EXCEPT !.list = l, !.drift = t.drift \/ (e.flags # {} /\ "limited" \notin e.flags)]
<1>1. s \in States /\ Monitored(w, s.mon) /\ Linked(s) /\ Listed(s.list)
  BY DEF Good
<1>2. s.list \in Seq(Rules) /\ s.drift \in BOOLEAN
  BY <1>1 DEF States
<1>3. l \in Seq(Rules) /\ Wider(l, i, e, s.list)
  BY <1>2, RemoveWider
<1>5. Adjusted(w, s, t)
  BY <1>1, Decremented, Unadjusted
<1>4. FreeRes(s, i) = u
  <2>1. FreeRes(s, i) =
          [t EXCEPT !.list = Unlink(t.list, i),
                    !.drift = t.drift \/ (e.flags # {} /\ "limited" \notin e.flags)]
    BY DEF FreeRes
  <2>2. t.list = s.list
    BY <1>5 DEF Adjusted
  <2> QED
    BY <2>1, <2>2
<1> HIDE DEF t, l
<1>6. /\ u \in States /\ u.list = l /\ u.drift = d
      /\ u.refcnt = t.refcnt /\ u.mon = t.mon
  <2>1. t \in States /\ t.drift = s.drift
    BY <1>5 DEF Adjusted
  <2> HIDE DEF e
  <2>2. d \in BOOLEAN
    BY <1>2
  <2>3. u = [t EXCEPT !.list = l, !.drift = d]
    BY <2>1
  <2> HIDE DEF d, u
  <2> QED
    BY <1>3, <2>1, <2>2, <2>3 DEF States
<1>7. Range(s.list) = Range(l) \cup {e}
  BY <1>2, <1>3, WiderElements, SMT
<1>8. Cardinality(Lim(s.list)) = Cardinality(Lim(l)) + IF "limited" \in e.flags THEN 1 ELSE 0
  BY <1>2, <1>3, WiderCount
<1> HIDE DEF u
<1>9. Linked(u)
  <2>1. CASE e.flags # {} /\ "limited" \notin e.flags
    <3>1. u.drift = TRUE
      BY <1>6, <2>1
    <3> QED
      BY <3>1 DEF Linked
  <2>2. CASE s.drift
    <3>1. u.drift = TRUE
      BY <1>6, <2>2
    <3> QED
      BY <3>1 DEF Linked
  <2>3. CASE ~s.drift /\ "limited" \in e.flags
    <3>1. t = DecLimited(s)
      BY <2>3 DEF t
    <3>2. Cardinality(Lim(s.list)) = Cardinality(Lim(l)) + 1
      BY <1>8, <2>3
    <3>3. s.drift = FALSE
      BY <1>2, <2>3
    <3>4. /\ t.refcnt = Cardinality(Lim(l))
          /\ "res" \in t.mon.enabled <=> t.refcnt > 0
      BY <1>1, <1>3, <3>1, <3>2, <3>3, LinkedDown
    <3> QED
      BY <1>6, <3>4 DEF Linked
  <2>4. CASE ~s.drift /\ e.flags = {}
    <3>1. t = s
      BY <2>4 DEF t
    <3>2. Cardinality(Lim(s.list)) = Cardinality(Lim(l))
      <4>1. Cardinality(Lim(l)) \in Nat /\ "limited" \notin {}
        BY <1>3, LimFinite
      <4> QED
        BY <1>8, <2>4, <4>1, SMT
    <3> QED
      BY <1>1, <1>6, <2>4, <3>1, <3>2 DEF Linked
  <2> QED
    BY <2>1, <2>2, <2>3, <2>4
<1>10. Listed(l)
  <2>1. Sorted(s.list)
    BY <1>1 DEF Listed
  <2>2. Sorted(l)
    BY <1>2, <1>3, <2>1, WiderSorted
  <2> QED
    BY <1>1, <1>3, <1>7, <2>2 DEF Listed
<1>11. \A a \in Ends(w, s.list) : e.key # HostKey(a, Interface) => a \in Ends(w, l)
  BY <1>7 DEF Ends
<1>12. \A x \in Range(u.mon.mru) : x.lcladr \in Ends(w, l)
  <2>1. Range(u.mon.mru) \subseteq Range(s.mon.mru)
    BY <1>5, <1>6 DEF Adjusted
  <2>2. \A x \in Range(s.mon.mru) : x.lcladr \in Ends(w, s.list)
    BY DEF Good
  <2> QED
    BY <1>11, <2>1, <2>2
<1>13. Good(w, u)
  BY <1>5, <1>6, <1>9, <1>10, <1>12 DEF Good, Adjusted
<1> QED
  BY <1>4, <1>6, <1>11, <1>13 DEF Freed, l, e

(* The empty mask leaves nothing of an address.                            *)
LEMMA AllMasked ==
  ASSUME NEW a \in Addrs
  PROVE  Masked(a, 0) = 0
<1> DEFINE P == 2^Bits
<1>1. Bits \in Nat /\ Bits - 0 = Bits
  BY RateConstants, SMT
<1>2. P \in Nat \ {0}
  BY <1>1, MaskPowers, SMT
<1>3. a \in Nat /\ a < P
  BY <1>2, SMT DEF Addrs
<1>4. Masked(a, 0) = a - (a % P)
  BY <1>1 DEF Masked
<1> HIDE DEF P
<1>5. a % P = a
  BY <1>2, <1>3, SMT
<1> QED
  BY <1>3, <1>4, <1>5, SMT

(* The default entry has a key, and a zeroed entry is a rule.              *)
LEMMA DefaultIsKey == 0 \in Addrs /\ DefaultKey \in Keys /\ Zeroed \in Rules
<1>1. Bits \in Nat /\ 2^Bits \in Nat \ {0}
  BY RateConstants, MaskPowers, SMT
<1>2. 0 \in Addrs
  BY <1>1, SMT DEF Addrs
<1>3. Masked(0, 0) = 0
  BY <1>2, AllMasked
<1>4. DefaultKey \in Keys
  BY <1>1, <1>2, <1>3, SMT DEF DefaultKey, Keys
<1> QED
  BY <1>2, <1>4 DEF Zeroed, Rules

(* match_restrict_entry()                                                  *)
LEMMA Found ==
  ASSUME NEW S, NEW s, s.list \in Seq(S), NEW key
  PROVE  /\ Find(s, key) = 0 => \A x \in Range(s.list) : x.key # key
         /\ Find(s, key) # 0 => /\ Find(s, key) \in 1 .. Len(s.list)
                                /\ s.list[Find(s, key)].key = key
<1> DEFINE I == {i \in 1 .. Len(s.list) : s.list[i].key = key}
<1>2. DOMAIN s.list = 1 .. Len(s.list)
  BY ListFacts
<1>1. Find(s, key) = IF I = {} THEN 0 ELSE Min(I)
  BY <1>2 DEF Find
<1>3. I # {} => Min(I) \in I /\ Min(I) # 0
  <2>1. I \in SUBSET Nat /\ 0 \notin I
    BY SMT
  <2> HIDE DEF I
  <2> QED
    BY <2>1, FirstIn
<1> QED
  BY <1>1, <1>2, <1>3 DEF Range

(* match_restrict4_addr() always finds a rule, and frees none but one that *)
(* has expired.                                                            *)
Matched(w, s, m) ==
  /\ Good(w, m.s)
  /\ Ends(w, s.list) \subseteq Ends(w, m.s.list)
  /\ m.res \in Rules
  /\ m.res = Zeroed \/ (m.s = s /\ m.res \in Range(s.list) /\ m.res.expire # "past")

(* match_restrict4_addr() keeps the invariant: it frees what has expired   *)
(* and counts the match.                                                   *)
LEMMA MatchGood ==
  ASSUME NEW w, NEW s, Good(w, s), 0 \notin w.ifaces, NEW a \in Addrs,
         NEW ntpport \in BOOLEAN
  PROVE  Matched(w, s, MatchRestrict(s, a, ntpport))
<1> DEFINE J == {j \in DOMAIN s.list : \/ s.list[j].expire = "past"
                                       \/ Matches(s.list[j], a, ntpport)}
           i == Min(J)
<1>1. s \in States /\ Listed(s.list)
  BY DEF Good
<1>2. /\ s.list \in Seq(Rules) /\ DOMAIN s.list = 1 .. Len(s.list)
      /\ Len(s.list) \in Nat
      /\ \A j \in 1 .. Len(s.list) : s.list[j] \in Rules /\ s.list[j] \in Range(s.list)
  <2>1. s.list \in Seq(Rules)
    BY <1>1 DEF States
  <2>2. DOMAIN s.list = 1 .. Len(s.list) /\ Len(s.list) \in Nat
    BY <2>1, ListFacts
  <2> QED
    BY <2>1, <2>2, ListFacts DEF Range
<1>3. J # {}
  <2>1. PICK j \in DOMAIN s.list : s.list[j].key = DefaultKey
    BY <1>1 DEF Listed, Range
  <2>2. s.list[j].key.addr = 0 /\ s.list[j].key.len = 0 /\ s.list[j].key.mflags = 0
    BY <2>1, SMT DEF DefaultKey
  <2>3. Matches(s.list[j], a, ntpport)
    BY <2>2, AllMasked DEF Matches
  <2> QED
    BY <2>3
<1>4. i \in J
  <2>1. J \in SUBSET Nat
    BY <1>2, SMT
  <2> HIDE DEF J
  <2> QED
    BY <1>3, <2>1, FirstIn
<1>5. MatchRestrict(s, a, ntpport) =
        IF s.list[i].expire = "past" THEN [s |-> FreeRes(s, i), res |-> Zeroed]
        ELSE [s |-> s, res |-> s.list[i]]
  BY DEF MatchRestrict
<1> HIDE DEF J, i
<1>6. i \in 1 .. Len(s.list) /\ s.list[i] \in Rules /\ s.list[i] \in Range(s.list)
  BY <1>2, <1>4 DEF J
<1>7. CASE s.list[i].expire = "past"
  <2>1. s.list[i].key.mflags # Interface
    BY <1>1, <1>6, <1>7 DEF Listed
  <2>2. \A b : s.list[i].key # HostKey(b, Interface)
    BY <2>1, SMT DEF HostKey
  <2>3. Freed(w, s, s.list[i], FreeRes(s, i))
    BY <1>6, <1>7, <2>2, FreeGood
  <2>4. Good(w, FreeRes(s, i)) /\ Ends(w, s.list) \subseteq Ends(w, FreeRes(s, i).list)
    BY <2>2, <2>3 DEF Freed
  <2>5. Zeroed \in Rules
    BY DefaultIsKey
  <2> DEFINE m == [s |-> FreeRes(s, i), res |-> Zeroed]
  <2>6. m.s = FreeRes(s, i) /\ m.res = Zeroed
    OBVIOUS
  <2> HIDE DEF m
  <2>7. Matched(w, s, m)
    BY <2>4, <2>5, <2>6 DEF Matched
  <2> QED
    BY <1>5, <1>7, <2>7 DEF m
<1>8. CASE s.list[i].expire # "past"
  <2> DEFINE m == [s |-> s, res |-> s.list[i]]
  <2>1. m.s = s /\ m.res = s.list[i]
    OBVIOUS
  <2> HIDE DEF m
  <2>2. Matched(w, s, m)
    BY <1>6, <1>8, <2>1 DEF Matched
  <2> QED
    BY <1>5, <1>8, <2>2 DEF m
<1> QED
  BY <1>7, <1>8

-----------------------------------------------------------------------------
(* hack_restrict()                                                         *)

(* Where a new rule goes.                                                  *)
Place(l, e) ==
  LET after == {i \in DOMAIN l : SortsBefore(e.key, l[i].key)} IN
  IF after = {} THEN Len(l) + 1 ELSE Min(after)

(* Inserting a rule in sort order widens the list by it.                   *)
LEMMA InsertWider ==
  ASSUME NEW l \in Seq(Rules), NEW e \in Rules
  PROVE  /\ Insert(l, e) \in Seq(Rules)
         /\ Wider(l, Place(l, e), e, Insert(l, e))
<1> DEFINE A == {i \in DOMAIN l : SortsBefore(e.key, l[i].key)}
<1>1. Len(l) \in Nat /\ DOMAIN l = 1 .. Len(l)
  BY ListFacts
<1>2. CASE A = {}
  <2> DEFINE m == Append(l, e)
  <2>1. /\ m \in Seq(Rules) /\ Len(m) = Len(l) + 1
        /\ \A j \in 1 .. Len(l) : m[j] = l[j]
        /\ m[Len(l) + 1] = e
    BY SMT
  <2>2. Insert(l, e) = m /\ Place(l, e) = Len(l) + 1
    BY <1>2 DEF Insert, Place
  <2> HIDE DEF m
  <2>3. Wider(l, Len(l) + 1, e, m)
    BY <1>1, <2>1, SMT DEF Wider
  <2> QED
    BY <2>1, <2>2, <2>3
<1>3. CASE A # {}
  <2> DEFINE k == Min(A)
             m == InsertAt(l, k, e)
  <2>1. k \in 1 .. Len(l)
    <3>1. A \in SUBSET Nat /\ A \in SUBSET (1 .. Len(l))
      BY <1>1, SMT
    <3> HIDE DEF A
    <3> QED
      BY <1>3, <3>1, FirstIn
  <2>2. Insert(l, e) = m /\ Place(l, e) = k
    BY <1>3 DEF Insert, InsertAt, Place
  <2> HIDE DEF k
  <2>3. /\ m \in Seq(Rules) /\ Len(m) = Len(l) + 1
        /\ \A j \in 1 .. Len(l) + 1 :
             m[j] = IF j < k THEN l[j] ELSE IF j = k THEN e ELSE l[j - 1]
    BY <2>1, Inserted, SMT
  <2> HIDE DEF m
  <2>4. k \in 1 .. Len(l) + 1
    BY <1>1, <2>1, SMT
  <2>5. Wider(l, k, e, m)
    BY <2>3, <2>4 DEF Wider
  <2> QED
    BY <2>2, <2>3, <2>5
<1> QED
  BY <1>2, <1>3

(* A rule with other flags.                                                *)
Reflag(l, i, f) == [l EXCEPT ![i].flags = f]

(* Changing the flags of one entry, as RESTRICT_FLAGS and RESTRICT_UNFLAG  *)
(* do, keeps the order of the list and its ends.                           *)
LEMMA Reflagged ==
  ASSUME NEW w, NEW l, Listed(l), NEW i \in 1 .. Len(l), NEW f \in SUBSET Flags
  PROVE  /\ Listed(Reflag(l, i, f))
         /\ Ends(w, l) \subseteq Ends(w, Reflag(l, i, f))
         /\ Lim(Reflag(l, i, f)) =
              IF "limited" \in f THEN Lim(l) \cup {i} ELSE Lim(l) \ {i}
         /\ i \in Lim(l) <=> "limited" \in l[i].flags
<1> DEFINE m == Reflag(l, i, f)
           x == [l[i] EXCEPT !.flags = f]
<1>1. /\ l \in Seq(Rules) /\ Len(l) \in Nat /\ DOMAIN l = 1 .. Len(l)
      /\ l \in [1 .. Len(l) -> Rules]
  <2>1. l \in Seq(Rules)
    BY DEF Listed
  <2> QED
    BY <2>1, ListFacts
<1>2. x \in Rules /\ x.key = l[i].key /\ x.expire = l[i].expire /\ x.flags = f
  <2>1. l[i] \in Rules
    BY <1>1
  <2> QED
    BY <2>1 DEF Rules
<1>3. m = [l EXCEPT ![i] = x]
  BY DEF Reflag
<1> HIDE DEF m, x
<1>4. /\ DOMAIN m = 1 .. Len(l) /\ m \in [1 .. Len(l) -> Rules]
      /\ m[i] = x /\ \A j \in 1 .. Len(l) : j # i => m[j] = l[j]
  BY <1>1, <1>2, <1>3
<1>5. m \in Seq(Rules)
  BY <1>1, <1>4, SMT
<1>6. \A j \in 1 .. Len(l) : m[j].key = l[j].key /\ m[j].expire = l[j].expire
  BY <1>2, <1>4
<1>7. Listed(m)
  <2>1. PICK j \in DOMAIN l : l[j].key = DefaultKey /\ l[j].expire = "never"
    BY DEF Listed, Range
  <2>2. m[j] \in Range(m) /\ m[j].key = DefaultKey /\ m[j].expire = "never"
    BY <1>1, <1>4, <1>6, <2>1 DEF Range
  <2>3. \A y \in Range(m) : y.key.mflags = Interface => y.expire = "never"
    <3> SUFFICES ASSUME NEW k \in 1 .. Len(l), m[k].key.mflags = Interface
                 PROVE  m[k].expire = "never"
      BY <1>4 DEF Range
    <3>1. l[k] \in Range(l)
      BY <1>1 DEF Range
    <3> QED
      BY <1>6, <3>1 DEF Listed
  <2>4. Sorted(m)
    BY <1>1, <1>4, <1>6 DEF Listed, Sorted
  <2> QED
    BY <1>5, <2>2, <2>3, <2>4 DEF Listed
<1>8. Ends(w, l) \subseteq Ends(w, m)
  <2>1. \A k : (\E y \in Range(m) : y.key = k) <=> (\E y \in Range(l) : y.key = k)
    <3> SUFFICES ASSUME NEW k
                 PROVE  (\E y \in Range(m) : y.key = k) <=> (\E y \in Range(l) : y.key = k)
      OBVIOUS
    <3>1. (\E y \in Range(m) : y.key = k) <=> \E j \in 1 .. Len(l) : m[j].key = k
      BY <1>4 DEF Range
    <3>2. (\E y \in Range(l) : y.key = k) <=> \E j \in 1 .. Len(l) : l[j].key = k
      BY <1>1 DEF Range
    <3> QED
      BY <1>6, <3>1, <3>2
  <2> QED
    BY <2>1 DEF Ends
<1>9. \A j : j \in Lim(m) <=> IF j = i THEN "limited" \in f ELSE j \in Lim(l)
  BY <1>1, <1>2, <1>4 DEF Lim
<1>10. Lim(m) = IF "limited" \in f THEN Lim(l) \cup {i} ELSE Lim(l) \ {i}
  <2>1. CASE "limited" \in f
    BY <1>9, <2>1
  <2>2. CASE "limited" \notin f
    BY <1>9, <2>2
  <2> QED
    BY <2>1, <2>2
<1>11. i \in Lim(l) <=> "limited" \in l[i].flags
  BY <1>1 DEF Lim
<1> QED
  BY <1>7, <1>8, <1>10, <1>11 DEF m

(* The order is total and transitive.                                      *)
LEMMA Ordered ==
  ASSUME NEW k \in Keys, NEW l \in Keys, NEW m \in Keys
  PROVE  /\ k # l /\ ~SortsBefore(k, l) => SortsBefore(l, k)
         /\ SortsBefore(k, l) /\ SortsBefore(l, m) => SortsBefore(k, m)
<1>1. ASSUME NEW x \in Keys
      PROVE  /\ x = [addr |-> x.addr, len |-> x.len, mflags |-> x.mflags]
             /\ x.addr \in Int /\ x.len \in Int /\ x.mflags \in Int
  BY RateConstants, SMT DEF Keys, Addrs, NtpOnly, Interface, Source, SourceNtpOnly
<1>2. k # l => k.addr # l.addr \/ k.len # l.len \/ k.mflags # l.mflags
  BY <1>1
<1>3. /\ k.addr \in Int /\ k.len \in Int /\ k.mflags \in Int
      /\ l.addr \in Int /\ l.len \in Int /\ l.mflags \in Int
      /\ m.addr \in Int /\ m.len \in Int /\ m.mflags \in Int
  BY <1>1
<1> QED
  BY <1>2, <1>3, SMT DEF SortsBefore

(* hack_restrict() links a new entry in order and the number of            *)
(* RES_LIMITED entries follows its flags.                                  *)
LEMMA InsertListed ==
  ASSUME NEW w, NEW l, Listed(l), NEW e \in Rules,
         \A x \in Range(l) : x.key # e.key,
         e.key.mflags = Interface => e.expire = "never"
  PROVE  /\ Listed(Insert(l, e))
         /\ Ends(w, l) \subseteq Ends(w, Insert(l, e))
         /\ Cardinality(Lim(Insert(l, e))) =
              Cardinality(Lim(l)) + IF "limited" \in e.flags THEN 1 ELSE 0
<1> DEFINE m == Insert(l, e)
           p == Place(l, e)
           A == {i \in DOMAIN l : SortsBefore(e.key, l[i].key)}
<1>1. l \in Seq(Rules) /\ Sorted(l)
  BY DEF Listed
<1>2. m \in Seq(Rules) /\ Wider(l, p, e, m)
  BY <1>1, InsertWider
<1>3. /\ Len(l) \in Nat /\ DOMAIN l = 1 .. Len(l)
      /\ \A j \in DOMAIN l : l[j].key \in Keys /\ l[j].key # e.key
  <2>1. Len(l) \in Nat /\ DOMAIN l = 1 .. Len(l)
    BY <1>1, ListFacts
  <2>2. \A j \in DOMAIN l : l[j] \in Rules /\ l[j] \in Range(l)
    BY <1>1, <2>1, SMT DEF Range
  <2> QED
    BY <2>1, <2>2 DEF Rules
<1>4. e.key \in Keys
  BY DEF Rules
<1>5. p = IF A = {} THEN Len(l) + 1 ELSE Min(A)
  BY DEF Place
<1>6. A # {} => Min(A) \in A /\ \A j \in A : Min(A) <= j
  <2>1. A \in SUBSET Nat
    BY <1>3, SMT
  <2> HIDE DEF A
  <2> QED
    BY <2>1, FirstIn
<1> HIDE DEF m, p, A
<1>7. ASSUME NEW j \in DOMAIN l
      PROVE  IF j < p THEN SortsBefore(l[j].key, e.key) ELSE SortsBefore(e.key, l[j].key)
  <2>1. CASE j < p
    <3>1. j \notin A
      <4>1. A # {} => p \in DOMAIN l /\ \A k \in A : p <= k
        BY <1>5, <1>6 DEF A
      <4>2. ASSUME j \in A PROVE p <= j /\ p \in DOMAIN l
        BY <4>1, <4>2
      <4> QED
        BY <1>3, <2>1, <4>2, SMT
    <3>2. ~SortsBefore(e.key, l[j].key)
      BY <3>1 DEF A
    <3>3. SortsBefore(l[j].key, e.key)
      BY <1>3, <1>4, <3>2, Ordered
    <3> QED
      BY <2>1, <3>3
  <2>2. CASE ~(j < p)
    <3>1. A # {}
      BY <1>3, <1>5, <2>2, SMT
    <3>2. p \in DOMAIN l /\ SortsBefore(e.key, l[p].key)
      BY <1>5, <1>6, <3>1 DEF A
    <3>3. j = p \/ p < j
      BY <1>3, <2>2, <3>2, SMT
    <3>4. CASE j = p
      BY <2>2, <3>2, <3>4
    <3>5. CASE p < j
      <4>1. SortsBefore(l[p].key, l[j].key)
        BY <1>1, <3>2, <3>5 DEF Sorted
      <4>2. SortsBefore(e.key, l[j].key)
        BY <1>3, <1>4, <3>2, <4>1, Ordered, SMT
      <4> QED
        BY <2>2, <4>2
    <3> QED
      BY <3>3, <3>4, <3>5
  <2> QED
    BY <2>1, <2>2
<1>8. Sorted(m)
  BY <1>1, <1>2, <1>7, WiderSorted, SMT
<1>9. Range(m) = Range(l) \cup {e}
  BY <1>1, <1>2, WiderElements, SMT
<1>10. Cardinality(Lim(m)) = Cardinality(Lim(l)) + IF "limited" \in e.flags THEN 1 ELSE 0
  BY <1>1, <1>2, WiderCount
<1>11. Listed(m)
  BY <1>2, <1>8, <1>9 DEF Listed
<1>12. Ends(w, l) \subseteq Ends(w, m)
  BY <1>9 DEF Ends
<1> QED
  BY <1>10, <1>11, <1>12 DEF m

(* A state with another list of rules.                                     *)
LEMMA Relisted ==
  ASSUME NEW w, NEW s, Good(w, s), NEW t, Adjusted(w, s, t),
         NEW l, Listed(l), Ends(w, s.list) \subseteq Ends(w, l),
         \/ s.drift
         \/ /\ t.refcnt = Cardinality(Lim(l))
            /\ "res" \in t.mon.enabled <=> t.refcnt > 0
  PROVE  Good(w, [t EXCEPT !.list = l])
<1> DEFINE u == [t EXCEPT !.list = l]
<1>1. t \in States /\ l \in Seq(Rules) /\ t.drift = s.drift
  BY DEF Adjusted, Listed
<1>2. /\ u \in States /\ u.list = l /\ u.drift = s.drift
      /\ u.refcnt = t.refcnt /\ u.mon = t.mon
  BY <1>1 DEF States
<1> HIDE DEF u
<1>3. Linked(u)
  BY <1>2 DEF Linked
<1>4. \A x \in Range(u.mon.mru) : x.lcladr \in Ends(w, l)
  BY <1>2 DEF Adjusted, Good
<1>5. Good(w, u)
  BY <1>2, <1>3, <1>4 DEF Good, Adjusted
<1> QED
  BY <1>5 DEF u

(* The number of RES_LIMITED entries follows a change of one entry's       *)
(* flags.                                                                  *)
LEMMA Recounted ==
  ASSUME NEW l, Listed(l), NEW i \in 1 .. Len(l), NEW f \in SUBSET Flags
  PROVE  /\ "limited" \in f /\ "limited" \notin l[i].flags =>
              Cardinality(Lim(Reflag(l, i, f))) = Cardinality(Lim(l)) + 1
         /\ "limited" \notin f /\ "limited" \in l[i].flags =>
              Cardinality(Lim(l)) = Cardinality(Lim(Reflag(l, i, f))) + 1
         /\ ("limited" \in f <=> "limited" \in l[i].flags) =>
              Cardinality(Lim(Reflag(l, i, f))) = Cardinality(Lim(l))
<1>1. /\ Lim(Reflag(l, i, f)) = IF "limited" \in f THEN Lim(l) \cup {i} ELSE Lim(l) \ {i}
      /\ i \in Lim(l) <=> "limited" \in l[i].flags
  BY Reflagged
<1>2. l \in Seq(Rules)
  BY DEF Listed
<1>3. IsFiniteSet(Lim(l)) /\ Cardinality(Lim(l)) \in Nat
  BY <1>2, LimFinite
<1>4. Cardinality(Lim(l) \cup {i}) =
        IF i \in Lim(l) THEN Cardinality(Lim(l)) ELSE Cardinality(Lim(l)) + 1
  BY <1>3, FS_AddElement
<1>5. Cardinality(Lim(l) \ {i}) =
        IF i \in Lim(l) THEN Cardinality(Lim(l)) - 1 ELSE Cardinality(Lim(l))
  BY <1>3, FS_RemoveElement
<1> QED
  BY <1>1, <1>3, <1>4, <1>5, SMT

(* hack_restrict(RESTRICT_FLAGS)                                           *)
LEMMA RestrictGood ==
  ASSUME NEW w, NEW s, Good(w, s), NEW key \in Keys, NEW flags \in SUBSET Flags,
         NEW expire \in {"never", "pending", "past"},
         key.mflags = Interface => expire = "never"
  PROVE  Good(w, RestrictFlags(s, key, flags, expire))
<1> DEFINE i == Find(s, key)
           new == /\ "limited" \in flags
                  /\ i = 0 \/ "limited" \notin s.list[i].flags
           t == IF new THEN IncLimited(s) ELSE s
           e == [key |-> key, flags |-> flags, expire |-> expire]
<1>1. s \in States /\ Monitored(w, s.mon) /\ Linked(s) /\ Listed(s.list)
  BY DEF Good
<1>2. s.list \in Seq(Rules) /\ s.drift \in BOOLEAN
  BY <1>1 DEF States
<1>3. Adjusted(w, s, t) /\ t.list = s.list
  <2>1. Adjusted(w, s, t)
    BY <1>1, Incremented, Unadjusted
  <2> QED
    BY <2>1 DEF Adjusted
<1>4. RestrictFlags(s, key, flags, expire) =
        IF i = 0 THEN [t EXCEPT !.list = Insert(t.list, e)]
        ELSE [t EXCEPT !.list[i].flags = t.list[i].flags \cup flags]
  BY DEF RestrictFlags
<1>5. /\ i = 0 => \A x \in Range(s.list) : x.key # key
      /\ i # 0 => i \in 1 .. Len(s.list) /\ s.list[i].key = key
  BY <1>2, Found, SMT
<1>6. /\ new => t = IncLimited(s)
      /\ ~new => t = s
  OBVIOUS
<1> HIDE DEF i, t
<1>7. ASSUME NEW l, l \in Seq(Rules),
             IF new THEN Cardinality(Lim(l)) = Cardinality(Lim(s.list)) + 1
                    ELSE Cardinality(Lim(l)) = Cardinality(Lim(s.list))
      PROVE  \/ s.drift
             \/ /\ t.refcnt = Cardinality(Lim(l))
                /\ "res" \in t.mon.enabled <=> t.refcnt > 0
  <2>1. CASE s.drift
    BY <2>1
  <2>2. CASE s.drift = FALSE /\ new
    <3>1. Cardinality(Lim(l)) = Cardinality(Lim(s.list)) + 1
      BY <1>7, <2>2
    <3> HIDE DEF new
    <3>2. /\ IncLimited(s).refcnt = Cardinality(Lim(l))
          /\ "res" \in IncLimited(s).mon.enabled <=> IncLimited(s).refcnt > 0
      BY <1>1, <1>7, <2>2, <3>1, LinkedUp
    <3> QED
      BY <1>6, <2>2, <3>2
  <2>3. CASE s.drift = FALSE /\ ~new
    BY <1>1, <1>6, <1>7, <2>3 DEF Linked
  <2> QED
    BY <1>2, <2>1, <2>2, <2>3
<1>8. CASE i = 0
  <2> DEFINE l == Insert(s.list, e)
  <2>1. e \in Rules /\ e.key = key /\ e.flags = flags /\ e.expire = expire
    BY DEF Rules
  <2> HIDE DEF e
  <2>2. /\ Listed(l) /\ Ends(w, s.list) \subseteq Ends(w, l)
        /\ Cardinality(Lim(l)) =
             Cardinality(Lim(s.list)) + IF "limited" \in flags THEN 1 ELSE 0
    BY <1>1, <1>5, <1>8, <2>1, InsertListed
  <2> HIDE DEF l
  <2>3. l \in Seq(Rules)
    BY <2>2 DEF Listed
  <2>4. IF new THEN Cardinality(Lim(l)) = Cardinality(Lim(s.list)) + 1
               ELSE Cardinality(Lim(l)) = Cardinality(Lim(s.list))
    <3>1. Cardinality(Lim(s.list)) \in Nat
      BY <1>2, LimFinite
    <3> QED
      BY <1>8, <2>2, <3>1, SMT
  <2>5. \/ s.drift
        \/ /\ t.refcnt = Cardinality(Lim(l))
           /\ "res" \in t.mon.enabled <=> t.refcnt > 0
    BY <1>7, <2>3, <2>4
  <2>6. Good(w, [t EXCEPT !.list = l])
    BY <1>3, <2>2, <2>5, Relisted
  <2> QED
    BY <1>3, <1>4, <1>8, <2>6 DEF l
<1>9. CASE i # 0
  <2> DEFINE f == s.list[i].flags \cup flags
             l == Reflag(s.list, i, f)
  <2>1. i \in 1 .. Len(s.list) /\ f \in SUBSET Flags
    <3>1. i \in 1 .. Len(s.list)
      BY <1>5, <1>9
    <3>2. s.list[i] \in Rules
      BY <1>2, <3>1, ListFacts
    <3> QED
      BY <3>1, <3>2 DEF Rules
  <2>2. "limited" \in f <=> "limited" \in s.list[i].flags \/ "limited" \in flags
    OBVIOUS
  <2> HIDE DEF f
  <2>3. Listed(l) /\ Ends(w, s.list) \subseteq Ends(w, l)
    <3>1. Listed(s.list)
      BY <1>1
    <3>2. Listed(Reflag(s.list, i, f))
      BY <2>1, <3>1, Reflagged
    <3>3. Ends(w, s.list) \subseteq Ends(w, Reflag(s.list, i, f))
      BY <2>1, <3>1, Reflagged
    <3> QED
      BY <3>2, <3>3
  <2>4. RestrictFlags(s, key, flags, expire) = [t EXCEPT !.list = l]
    <3>1. RestrictFlags(s, key, flags, expire) = [t EXCEPT !.list[i].flags = f]
      BY <1>3, <1>4, <1>9 DEF f
    <3>2. [t EXCEPT !.list[i].flags = f] = [t EXCEPT !.list = [t.list EXCEPT ![i].flags = f]]
      OBVIOUS
    <3> QED
      BY <1>3, <3>1, <3>2 DEF Reflag
  <2>5. IF new THEN Cardinality(Lim(l)) = Cardinality(Lim(s.list)) + 1
               ELSE Cardinality(Lim(l)) = Cardinality(Lim(s.list))
    BY <1>1, <1>9, <2>1, <2>2, Recounted
  <2> HIDE DEF l
  <2>6. l \in Seq(Rules)
    BY <2>3 DEF Listed
  <2>7. \/ s.drift
        \/ /\ t.refcnt = Cardinality(Lim(l))
           /\ "res" \in t.mon.enabled <=> t.refcnt > 0
    BY <1>7, <2>5, <2>6
  <2>8. Good(w, [t EXCEPT !.list = l])
    BY <1>3, <2>3, <2>7, Relisted
  <2> QED
    BY <2>4, <2>8
<1> QED
  BY <1>8, <1>9

(* hack_restrict(RESTRICT_UNFLAG)                                          *)
LEMMA UnflagGood ==
  ASSUME NEW w, NEW s, Good(w, s), NEW key \in Keys, NEW flags \in SUBSET Flags
  PROVE  Good(w, RestrictUnflag(s, key, flags))
<1> DEFINE i == Find(s, key)
           old == "limited" \in s.list[i].flags \cap flags
           t == IF old THEN DecLimited(s) ELSE s
           f == s.list[i].flags \ flags
           l == Reflag(s.list, i, f)
<1>1. s \in States /\ Monitored(w, s.mon) /\ Linked(s) /\ Listed(s.list)
  BY DEF Good
<1>2. s.list \in Seq(Rules) /\ s.drift \in BOOLEAN
  BY <1>1 DEF States
<1>3. Adjusted(w, s, t) /\ t.list = s.list
  <2>1. Adjusted(w, s, t)
    BY <1>1, Decremented, Unadjusted
  <2> QED
    BY <2>1 DEF Adjusted
<1>4. i # 0 => RestrictUnflag(s, key, flags) =
                 [t EXCEPT !.list[i].flags = t.list[i].flags \ flags]
  BY DEF RestrictUnflag
<1>5. i = 0 => RestrictUnflag(s, key, flags) = s
  BY DEF RestrictUnflag
<1>6. i # 0 => i \in 1 .. Len(s.list)
  BY <1>2, Found
<1>7. /\ old => t = DecLimited(s)
      /\ ~old => t = s
  OBVIOUS
<1> HIDE DEF i, t
<1>8. CASE i # 0
  <2>1. i \in 1 .. Len(s.list) /\ f \in SUBSET Flags
    <3>1. i \in 1 .. Len(s.list)
      BY <1>6, <1>8
    <3>2. s.list[i] \in Rules
      BY <1>2, <3>1, ListFacts
    <3> QED
      BY <3>1, <3>2 DEF Rules
  <2>2. /\ old => "limited" \in s.list[i].flags /\ "limited" \notin f
        /\ ~old => ("limited" \in s.list[i].flags <=> "limited" \in f)
    OBVIOUS
  <2> HIDE DEF f, old
  <2>3. Listed(l) /\ Ends(w, s.list) \subseteq Ends(w, l)
    <3>1. Listed(s.list)
      BY <1>1
    <3>2. Listed(Reflag(s.list, i, f))
      BY <2>1, <3>1, Reflagged
    <3>3. Ends(w, s.list) \subseteq Ends(w, Reflag(s.list, i, f))
      BY <2>1, <3>1, Reflagged
    <3> QED
      BY <3>2, <3>3
  <2>4. RestrictUnflag(s, key, flags) = [t EXCEPT !.list = l]
    <3>1. RestrictUnflag(s, key, flags) = [t EXCEPT !.list[i].flags = f]
      BY <1>3, <1>4, <1>8 DEF f
    <3>2. [t EXCEPT !.list[i].flags = f] = [t EXCEPT !.list = [t.list EXCEPT ![i].flags = f]]
      OBVIOUS
    <3> QED
      BY <1>3, <3>1, <3>2 DEF Reflag
  <2>5. IF old THEN Cardinality(Lim(s.list)) = Cardinality(Lim(l)) + 1
               ELSE Cardinality(Lim(l)) = Cardinality(Lim(s.list))
    BY <1>1, <2>1, <2>2, Recounted
  <2> HIDE DEF l
  <2>6. l \in Seq(Rules)
    BY <2>3 DEF Listed
  <2>7. \/ s.drift
        \/ /\ t.refcnt = Cardinality(Lim(l))
           /\ "res" \in t.mon.enabled <=> t.refcnt > 0
    <3>1. CASE s.drift
      BY <3>1
    <3>2. CASE s.drift = FALSE /\ old
      <4>1. /\ DecLimited(s).refcnt = Cardinality(Lim(l))
            /\ "res" \in DecLimited(s).mon.enabled <=> DecLimited(s).refcnt > 0
        BY <1>1, <2>5, <2>6, <3>2, LinkedDown
      <4> QED
        BY <1>7, <3>2, <4>1
    <3>3. CASE s.drift = FALSE /\ ~old
      BY <1>1, <1>7, <2>5, <3>3 DEF Linked
    <3> QED
      BY <1>2, <3>1, <3>2, <3>3
  <2>8. Good(w, [t EXCEPT !.list = l])
    BY <1>3, <2>3, <2>7, Relisted
  <2> QED
    BY <2>4, <2>8
<1> QED
  BY <1>5, <1>8

(* hack_restrict(RESTRICT_REMOVE)                                          *)
LEMMA RemoveGood ==
  ASSUME NEW w, NEW s, Good(w, s), 0 \notin w.ifaces, NEW key,
         \A x \in Range(s.mon.mru) : key # HostKey(x.lcladr, Interface)
  PROVE  Good(w, RestrictRemove(s, key))
<1> DEFINE i == Find(s, key)
<1>1. s.list \in Seq(Rules)
  BY DEF Good, Listed
<1>2. i # 0 => i \in 1 .. Len(s.list) /\ s.list[i].key = key
  BY <1>1, Found
<1>3. RestrictRemove(s, key) = IF i = 0 \/ key = DefaultKey THEN s ELSE FreeRes(s, i)
  BY DEF RestrictRemove
<1> HIDE DEF i
<1>4. CASE i # 0 /\ key # DefaultKey
  <2>1. Freed(w, s, s.list[i], FreeRes(s, i))
    BY <1>2, <1>4, FreeGood
  <2> QED
    BY <1>3, <1>4, <2>1 DEF Freed
<1> QED
  BY <1>3, <1>4

(* A mask of all ones leaves an address as it is.                          *)
LEMMA HostIsKey ==
  ASSUME NEW a \in Addrs, NEW mflags \in {0, NtpOnly, Interface, Source, SourceNtpOnly}
  PROVE  HostKey(a, mflags) \in Keys
<1>1. Bits \in Nat /\ Bits \in 0 .. Bits /\ Bits - Bits = 0
  BY RateConstants, SMT
<1>2. 2^(Bits - Bits) = 1
  BY <1>1, MaskPowers
<1>3. 2^Bits \in Nat
  BY <1>1, MaskPowers
<1>4. a \in Nat
  BY <1>3, SMT DEF Addrs
<1>5. Masked(a, Bits) = a
  BY <1>2, <1>4, SMT DEF Masked
<1> DEFINE k == HostKey(a, mflags)
<1>6. /\ k \in [addr : Addrs, len : 0 .. Bits,
                mflags : {0, NtpOnly, Interface, Source, SourceNtpOnly}]
      /\ k.addr = a /\ k.len = Bits
  BY <1>1 DEF HostKey
<1> HIDE DEF k
<1>7. k \in Keys
  BY <1>5, <1>6 DEF Keys
<1> QED
  BY <1>7 DEF k

(* restrict_source(): a rule that it takes away is one that it had given   *)
(* for a time only, thus neither the default nor an interface's.           *)
LEMMA SourceGood ==
  ASSUME NEW w, NEW s, Good(w, s), 0 \notin w.ifaces, NEW a \in Addrs,
         NEW expire \in {"never", "pending"}
  PROVE  Good(w, RestrictSource(s, a, expire))
<1> DEFINE m == MatchRestrict(s, a, TRUE)
           specific == m.res.key.len = Bits
           fleeting == expire = "never" /\ m.res.expire # "never"
           i == Find(m.s, m.res.key)
           t == IF specific /\ fleeting THEN FreeRes(m.s, i) ELSE m.s
           k == HostKey(a, SourceMflags)
<1>1. Matched(w, s, m)
  BY MatchGood
<1>2. RestrictSource(s, a, expire) =
        IF specific /\ ~fleeting THEN m.s
        ELSE RestrictFlags(t, k, SourceFlags, expire)
  BY DEF RestrictSource
<1> HIDE DEF m
<1>3. Good(w, m.s) /\ m.res \in Rules
  BY <1>1 DEF Matched
<1>4. Good(w, t)
  <2>1. ASSUME specific, fleeting PROVE Good(w, FreeRes(m.s, i))
    <3>1. m.res # Zeroed
      BY <2>1, SMT DEF Zeroed
    <3>2. m.s = s /\ m.res \in Range(m.s.list)
      BY <1>1, <3>1 DEF Matched
    <3>3. m.s.list \in Seq(Rules)
      BY <1>3 DEF Good, Listed
    <3>4. i \in 1 .. Len(m.s.list) /\ m.s.list[i].key = m.res.key
      <4>1. i # 0
        BY <3>2, <3>3, Found
      <4> QED
        BY <3>3, <4>1, Found, SMT
    <3>5. m.res.key # DefaultKey
      <4>1. Bits # 0
        BY RateConstants
      <4> QED
        BY <2>1, <4>1, SMT DEF DefaultKey
    <3>6. m.res.key.mflags # Interface
      BY <1>3, <2>1, <3>2 DEF Good, Listed
    <3>7. \A b : m.res.key # HostKey(b, Interface)
      BY <3>6, SMT DEF HostKey
    <3> HIDE DEF i
    <3>8. Freed(w, m.s, m.s.list[i], FreeRes(m.s, i))
      BY <1>3, <3>4, <3>5, <3>7, FreeGood, SMT
    <3> QED
      BY <3>8 DEF Freed
  <2> QED
    BY <1>3, <2>1
<1>5. k \in Keys /\ k.mflags # Interface
  <2>1. SourceMflags \in {Source, SourceNtpOnly}
    BY RateConstants
  <2>2. k \in Keys
    BY <2>1, HostIsKey
  <2>3. k.mflags = SourceMflags
    BY DEF HostKey
  <2> QED
    BY <2>1, <2>2, <2>3, SMT DEF Source, SourceNtpOnly, Interface
<1>6. SourceFlags \in SUBSET Flags
  BY RateConstants
<1> HIDE DEF t, k
<1>7. Good(w, RestrictFlags(t, k, SourceFlags, expire))
  BY <1>4, <1>5, <1>6, RestrictGood
<1> QED
  BY <1>2, <1>3, <1>7



-----------------------------------------------------------------------------
(* ntp_monitor()                                                           *)

(* The larger and the smaller of two integers.                             *)
LEMMA OfTwo ==
  ASSUME NEW a \in Int, NEW b \in Int
  PROVE  /\ Max({a, b}) = IF a >= b THEN a ELSE b
         /\ Min({a, b}) = IF a <= b THEN a ELSE b
<1>1. Max({a, b}) = CHOOSE x \in {a, b} : \A y \in {a, b} : x >= y
  BY DEF Max
<1>2. Min({a, b}) = CHOOSE x \in {a, b} : \A y \in {a, b} : x =< y
  BY DEF Min
<1>3. (\E x \in {a, b} : \A y \in {a, b} : x >= y) /\ (\E x \in {a, b} : \A y \in {a, b} : x =< y)
  BY SMT
<1>4. Max({a, b}) \in {a, b} /\ \A y \in {a, b} : Max({a, b}) >= y
  BY <1>1, <1>3
<1>5. Min({a, b}) \in {a, b} /\ \A y \in {a, b} : Min({a, b}) =< y
  BY <1>2, <1>3
<1> QED
  BY <1>4, <1>5, SMT

(* The limits of the leaky bucket are naturals.                            *)
LEMMA LimitIsNat == Limit \in Nat /\ Headway \in Nat
<1>1. Shift \in Nat /\ Headway \in Nat
  BY RateConstants
<1> QED
  BY <1>1, SMT DEF Limit

(* What a source is left with when it calls, and that it has no KoD too    *)
(* soon after the last.                                                    *)
Poured(e, interval, flags) == Bucket(Max({0, e.leak - interval}), interval, flags)
Refilled(e, b) ==
  [e EXCEPT !.leak = b.leak, !.age = 0, !.kod = IF SendsKod(b.flags) THEN 0 ELSE @]

(* One packet through the leaky bucket of ntp_monitor() keeps a client's   *)
(* entry in order, and a kiss-o'-death is asked for only when the last one *)
(* is a headway ago.                                                       *)
LEMMA BucketGood ==
  ASSUME NEW e \in GoodClients, NEW interval \in Seconds(e.age), NEW flags
  PROVE  /\ Refilled(e, Poured(e, interval, flags)) \in GoodClients
         /\ Refilled(e, Poured(e, interval, flags)).src = e.src
         /\ Refilled(e, Poured(e, interval, flags)).lcladr = e.lcladr
         /\ SendsKod(Poured(e, interval, flags).flags) => e.kod = Headway + 1
<1> DEFINE b == Poured(e, interval, flags)
           new == Refilled(e, b)
           left == Max({0, e.leak - interval})
           kod == IF SendsKod(b.flags) THEN 0 ELSE e.kod
<1>1. /\ Limit \in Nat /\ Headway \in Nat /\ Headway >= 2 /\ AgeMax \in Nat
      /\ AgeMax > Headway /\ Back \in Nat \ {0}
  BY LimitIsNat, RateConstants
<1>2. /\ e \in Clients /\ Waiting(e)
      /\ e.kod >= e.age \/ e.kod = Headway + 1
      /\ e.age < 0 => e.leak <= Limit + Headway
  BY DEF GoodClients
<1>3. /\ e.age \in -Back .. AgeMax /\ e.leak \in 0 .. Limit + Headway + Back
      /\ e.kod \in 0 .. Headway + 1
  BY <1>2 DEF Clients
<1>4. /\ interval \in Int
      /\ e.age < AgeMax => interval = (e.age + 1) \div 2
      /\ e.age = AgeMax => interval >= 0
  <2>1. CASE e.age < AgeMax
    BY <1>1, <1>3, <2>1, SMT DEF Seconds
  <2>2. CASE e.age = AgeMax
    <3>1. interval \in ((AgeMax + 1) \div 2) .. (Limit + Headway)
      BY <1>1, <2>2, SMT DEF Seconds
    <3> QED
      BY <1>1, <2>2, <3>1, SMT
  <2> QED
    BY <1>1, <1>3, <2>1, <2>2, SMT
<1>5. left = IF 0 >= e.leak - interval THEN 0 ELSE e.leak - interval
  <2>1. e.leak - interval \in Int
    BY <1>1, <1>3, <1>4, SMT
  <2> QED
    BY <2>1, OfTwo, SMT
<1>6. b = Bucket(left, interval, flags)
  BY DEF Poured
<1> HIDE DEF left, b
<1>7. left \in 0 .. Limit + Headway + Back
  <2>1. e.age >= 0 => interval >= 0
    BY <1>1, <1>3, <1>4, SMT
  <2>2. e.age < 0 => interval >= -Back
    BY <1>1, <1>3, <1>4, SMT
  <2> QED
    BY <1>1, <1>2, <1>3, <1>4, <1>5, <2>1, <2>2, SMT
<1>8. e.kod <= Headway => left >= Limit + Headway - e.kod
  <2> SUFFICES ASSUME e.kod <= Headway PROVE left >= Limit + Headway - e.kod
    OBVIOUS
  <2>1. e.age <= Headway /\ e.leak >= Limit + Headway - e.kod + (IF e.age > 0 THEN e.age ELSE 0)
    BY <1>1, <1>2, <1>3, SMT DEF Waiting
  <2>2. interval <= IF e.age > 0 THEN e.age ELSE 0
    BY <1>1, <1>3, <1>4, <2>1, SMT
  <2> QED
    BY <1>1, <1>3, <1>4, <1>5, <2>1, <2>2, SMT
<1>9. MinPkt \in Int
  BY RateConstants, SMT
<1> DEFINE one == interval + 1 >= MinPkt /\ left + Headway < Limit
           two == ~one /\ left < Limit
           three == ~one /\ ~two
<1>10. /\ one => b.leak = left + Headway - 2 /\ b.flags = Unlimited(flags)
       /\ two => b.leak = Limit + Headway
       /\ three => b.leak = left /\ b.flags = flags \ {"kod"}
  BY <1>6 DEF Bucket
<1>11. one \/ three => ~SendsKod(b.flags)
  <2>1. "limited" \notin Unlimited(flags)
    BY DEF Unlimited
  <2>2. "kod" \notin flags \ {"kod"}
    OBVIOUS
  <2> HIDE DEF one, two, three
  <2> QED
    BY <1>10, <2>1, <2>2 DEF SendsKod
<1>12. b.leak \in 0 .. Limit + Headway + Back
  BY <1>1, <1>3, <1>4, <1>7, <1>9, <1>10, SMT
<1>13. e.kod <= Headway => three
  BY <1>1, <1>3, <1>7, <1>8, SMT
<1>14. SendsKod(b.flags) => e.kod = Headway + 1 /\ b.leak = Limit + Headway
  <2>1. SendsKod(b.flags) => two
    BY <1>11
  <2>2. SendsKod(b.flags) => ~(e.kod <= Headway)
    BY <1>11, <1>13
  <2> HIDE DEF two
  <2> QED
    BY <1>1, <1>3, <1>10, <2>1, <2>2, SMT
<1>15. kod \in 0 .. Headway + 1
  BY <1>1, <1>3, SMT
<1>16. kod <= Headway => b.leak >= Limit + Headway - kod
  <2>1. CASE SendsKod(b.flags)
    BY <1>1, <1>14, <2>1, SMT
  <2>2. CASE ~SendsKod(b.flags)
    BY <1>1, <1>3, <1>8, <1>10, <1>13, <2>2
  <2> QED
    BY <2>1, <2>2
<1> HIDE DEF kod, one, two, three
<1>17. /\ new \in Clients /\ new.src = e.src /\ new.lcladr = e.lcladr
       /\ new.leak = b.leak /\ new.age = 0 /\ new.kod = kod
  <2>1. new = [e EXCEPT !.leak = b.leak, !.age = 0, !.kod = kod]
    BY DEF kod, Refilled
  <2>2. 0 \in -Back .. AgeMax
    BY <1>1, SMT
  <2> DEFINE L == 0 .. Limit + Headway + Back
             A == -Back .. AgeMax
             K == 0 .. Headway + 1
             y == b.leak
  <2>3. y \in L /\ 0 \in A /\ kod \in K
    BY <1>12, <1>15, <2>2
  <2>4. Clients = [src : Addrs, lcladr : Addrs \cup {Stale}, age : A, leak : L, kod : K]
    BY DEF Clients
  <2>5. new = [e EXCEPT !.leak = y, !.age = 0, !.kod = kod]
    BY <2>1
  <2> HIDE DEF L, A, K, y, new
  <2>6. /\ new \in Clients /\ new.src = e.src /\ new.lcladr = e.lcladr
        /\ new.leak = y /\ new.age = 0 /\ new.kod = kod
    BY <1>2, <2>3, <2>4, <2>5
  <2> QED
    BY <2>6 DEF y
<1> HIDE DEF new
<1>18. new \in GoodClients
  <2>1. Waiting(new)
    BY <1>1, <1>12, <1>15, <1>16, <1>17, SMT DEF Waiting
  <2>2. new.kod >= new.age /\ ~(new.age < 0)
    BY <1>15, <1>17, SMT
  <2> QED
    BY <1>17, <2>1, <2>2 DEF GoodClients
<1> QED
  BY <1>14, <1>17, <1>18 DEF new, b

(* What ntp_monitor() makes of the list: no interface that was not there   *)
(* before but the one that the packet has come in by, and no KoD too soon. *)
Answered(w, m, lcladr, r) ==
  /\ Monitored(w, r.mon) /\ r.mon.enabled = m.enabled
  /\ \A x \in Range(r.mon.mru) :
       x.lcladr = lcladr \/ \E y \in Range(m.mru) : x.lcladr = y.lcladr
  /\ SendsKod(r.flags) => r.gap = Headway + 1

(* ntp_monitor() on a client it knows keeps the MRU list in order.         *)
LEMMA KnownGood ==
  ASSUME NEW w, NEW m, Monitored(w, m), NEW i \in 1 .. Len(m.mru), NEW flags,
         NEW r \in MonitorKnown(m, i, flags), NEW lcladr
  PROVE  Answered(w, m, lcladr, r)
<1> DEFINE e == m.mru[i]
<1>1. m \in Mons /\ Unique(m.mru)
  BY DEF Monitored
<1>2. m.mru \in Seq(GoodClients) /\ e \in GoodClients /\ e \in Range(m.mru)
  <2>1. m.mru \in Seq(GoodClients)
    BY <1>1 DEF Mons
  <2>2. DOMAIN m.mru = 1 .. Len(m.mru)
    BY <2>1, ListFacts
  <2> QED
    BY <2>1, <2>2, ListFacts DEF Range
<1> HIDE DEF e
<1>3. PICK interval \in Seconds(e.age) :
        r = LET b == Bucket(Max({0, e.leak - interval}), interval, flags)
                new == [e EXCEPT !.leak = b.leak, !.age = 0,
                                 !.kod = IF SendsKod(b.flags) THEN 0 ELSE e.kod]
            IN [mon |-> [m EXCEPT !.mru = <<new>> \o Unlink(m.mru, i)],
                flags |-> b.flags, gap |-> e.kod]
  BY DEF MonitorKnown, e
<1> DEFINE b == Poured(e, interval, flags)
           new == Refilled(e, b)
           rest == Unlink(m.mru, i)
           l == <<new>> \o rest
           n == [m EXCEPT !.mru = l]
<1>4. r = [mon |-> n, flags |-> b.flags, gap |-> e.kod]
  BY <1>3 DEF Poured, Refilled
<1>5. /\ new \in GoodClients /\ new.src = e.src /\ new.lcladr = e.lcladr
      /\ SendsKod(b.flags) => e.kod = Headway + 1
  BY <1>2, BucketGood
<1> HIDE DEF b, new
<1>6. rest \in Seq(GoodClients) /\ Wider(rest, i, e, m.mru) /\ Len(rest) = Len(m.mru) - 1
  BY <1>2, RemoveWider DEF e
<1> HIDE DEF rest
<1>7. l \in Seq(GoodClients) /\ Len(l) = Len(rest) + 1 /\ Wider(rest, 1, new, l)
  BY <1>5, <1>6, ConsWider
<1> HIDE DEF l
<1>8. Range(m.mru) = Range(rest) \cup {e}
  BY <1>2, <1>6, WiderElements, SMT
<1>9. Range(l) = Range(rest) \cup {new}
  BY <1>6, <1>7, WiderElements, SMT
<1>10. Unique(l)
  <2>1. Unique(rest) /\ \A x \in Range(rest) : x.src # e.src
    BY <1>1, <1>2, <1>6, WiderUnique
  <2>2. \A x \in Range(rest) : x.src # new.src
    BY <1>5, <2>1
  <2> QED
    BY <1>6, <1>7, <2>1, <2>2, WiderUnique, SMT
<1>11. Len(l) = Len(m.mru)
  <2>1. Len(m.mru) \in Nat
    BY <1>2, ListFacts
  <2> QED
    BY <1>6, <1>7, <2>1, SMT
<1>12. /\ n \in Mons /\ n.mru = l /\ n.enabled = m.enabled
       /\ n.entries = m.entries /\ n.free = m.free /\ n.alloc = m.alloc
  BY <1>1, <1>7 DEF Mons
<1> HIDE DEF n
<1>13. Monitored(w, n)
  BY <1>10, <1>11, <1>12 DEF Monitored
<1>14. \A x \in Range(n.mru) : \E y \in Range(m.mru) : x.lcladr = y.lcladr
  BY <1>5, <1>8, <1>9, <1>12
<1>15. r.mon = n /\ r.flags = b.flags /\ r.gap = e.kod
  BY <1>4
<1> QED
  BY <1>5, <1>12, <1>13, <1>14, <1>15 DEF Answered

(* The bound on the memory, and what a site is.                            *)
LEMMA SiteFacts ==
  ASSUME NEW w \in Sites
  PROVE  /\ w.mindepth \in Nat /\ w.maxdepth \in Nat
         /\ w.initalloc \in Nat \ {0} /\ w.incalloc \in Nat \ {0}
         /\ 0 \notin w.ifaces
         /\ w.ifaces \subseteq Addrs /\ w.peers \subseteq Addrs /\ w.clients \subseteq Addrs
         /\ w.keys \subseteq {k \in Keys : k.mflags \in {0, NtpOnly}}
         /\ Bound(w) \in Nat /\ Bound(w) >= w.initalloc
         /\ Bound(w) >= w.maxdepth + w.incalloc - 1
         /\ Bound(w) >= w.mindepth + w.incalloc - 1
<1>1. /\ {w.mindepth, w.maxdepth} \subseteq Nat
      /\ {w.initalloc, w.incalloc} \subseteq Nat \ {0}
      /\ 0 \notin w.ifaces
      /\ w.ifaces \cup w.peers \cup w.clients \subseteq Addrs
      /\ w.keys \subseteq {k \in Keys : k.mflags \in {0, NtpOnly}}
  BY RateConstants
<1>2. /\ w.mindepth \in Nat /\ w.maxdepth \in Nat
      /\ w.initalloc \in Nat \ {0} /\ w.incalloc \in Nat \ {0}
      /\ w.ifaces \subseteq Addrs /\ w.peers \subseteq Addrs /\ w.clients \subseteq Addrs
  BY <1>1
<1> DEFINE a == w.initalloc
           b == w.maxdepth + w.incalloc - 1
           c == w.mindepth + w.incalloc - 1
           S == {a, b, c}
<1>3. a \in Nat /\ b \in Nat /\ c \in Nat
  BY <1>2, SMT
<1>4. Bound(w) = CHOOSE x \in S : \A y \in S : x >= y
  BY DEF Bound, Max
<1> HIDE DEF a, b, c
<1>5. \E x \in S : \A y \in S : x >= y
  BY <1>3, SMT
<1>6. Bound(w) \in S /\ \A y \in S : Bound(w) >= y
  BY <1>4, <1>5
<1>7. Bound(w) \in Nat /\ Bound(w) >= a /\ Bound(w) >= b /\ Bound(w) >= c
  BY <1>3, <1>6
<1> QED
  BY <1>1, <1>2, <1>7 DEF a, b, c

(* A monitor that has taken an entry out for a new source.                 *)
Spare(w, m, n) ==
  /\ n \in Mons /\ n.enabled = m.enabled
  /\ n.entries = Len(n.mru) /\ n.free + Len(n.mru) + 1 = n.alloc
  /\ Unique(n.mru)
  /\ n.alloc <= Bound(w)
  /\ Range(n.mru) \subseteq Range(m.mru)

(* mon_reclaim_entry()                                                     *)
LEMMA Reclaimed ==
  ASSUME NEW w, NEW m, Monitored(w, m), m.mru # <<>>
  PROVE  Spare(w, m, MonReclaimEntry(m))
<1> DEFINE l == Unlink(m.mru, Len(m.mru))
           c == m.entries - 1
           n == [m EXCEPT !.mru = l, !.entries = c]
<1>1. /\ m \in Mons /\ m.entries = Len(m.mru) /\ m.free + Len(m.mru) = m.alloc
      /\ Unique(m.mru) /\ m.alloc <= Bound(w)
  BY DEF Monitored
<1>2. m.mru \in Seq(GoodClients)
  BY <1>1 DEF Mons
<1>3. /\ l \in Seq(GoodClients) /\ Len(l) = Len(m.mru) - 1
      /\ Len(m.mru) \in Nat \ {0}
      /\ Wider(l, Len(m.mru), m.mru[Len(m.mru)], m.mru)
  <2>1. Len(m.mru) \in Nat \ {0}
    BY <1>2, ListEmpty, ListFacts
  <2>2. Len(m.mru) \in 1 .. Len(m.mru)
    BY <2>1, SMT
  <2> QED
    BY <1>2, <2>1, <2>2, RemoveWider
<1>4. MonReclaimEntry(m) = n
  BY DEF MonReclaimEntry
<1>5. c \in Nat
  BY <1>1, <1>3, SMT
<1> HIDE DEF l, c
<1>6. /\ n \in Mons /\ n.mru = l /\ n.enabled = m.enabled
      /\ n.entries = c /\ n.free = m.free /\ n.alloc = m.alloc
  BY <1>1, <1>3, <1>5 DEF Mons
<1> HIDE DEF n
<1>7. Range(l) \subseteq Range(m.mru)
  <2>1. Range(m.mru) = Range(l) \cup {m.mru[Len(m.mru)]}
    BY <1>2, <1>3, WiderElements, SMT
  <2> QED
    BY <2>1
<1>8. Unique(l)
  BY <1>1, <1>2, <1>3, WiderUnique
<1>9. n.entries = Len(n.mru) /\ n.free + Len(n.mru) + 1 = n.alloc
  <2>1. m.free \in Nat
    BY <1>1 DEF Mons
  <2>2. Len(l) = Len(m.mru) - 1 /\ c = Len(m.mru) - 1
    BY <1>1, <1>3 DEF c
  <2> QED
    BY <1>1, <1>3, <1>6, <2>1, <2>2, SMT
<1> QED
  BY <1>1, <1>4, <1>6, <1>7, <1>8, <1>9 DEF Spare

(* mon_getmoremem(), and an entry from the free list: an increment is      *)
(* allocated below one of the two depths only.                             *)
LEMMA Allocated ==
  ASSUME site \in Sites, NEW m, Monitored(site, m),
         m.free > 0 \/ m.alloc < site.maxdepth \/ m.alloc < site.mindepth
  PROVE  Spare(site, m, MonAllocEntry(m))
<1> DEFINE more == m.free = 0
           f == IF more THEN m.free + site.incalloc ELSE m.free
           a == IF more THEN m.alloc + site.incalloc ELSE m.alloc
           k == IF more THEN MonGetMoreMem(m) ELSE m
           g == f - 1
           n == [k EXCEPT !.free = g]
<1>1. /\ m \in Mons /\ m.entries = Len(m.mru) /\ m.free + Len(m.mru) = m.alloc
      /\ Unique(m.mru) /\ m.alloc <= Bound(site)
  BY DEF Monitored
<1>2. m.mru \in Seq(GoodClients) /\ m.free \in Nat /\ m.alloc \in Nat \ {0} /\ Len(m.mru) \in Nat
  <2>1. m.mru \in Seq(GoodClients) /\ m.free \in Nat /\ m.alloc \in Nat \ {0}
    BY <1>1 DEF Mons
  <2> QED
    BY <2>1, ListFacts
<1>3. /\ site.incalloc \in Nat \ {0} /\ Bound(site) \in Nat
      /\ site.mindepth \in Nat /\ site.maxdepth \in Nat
      /\ Bound(site) >= site.maxdepth + site.incalloc - 1
      /\ Bound(site) >= site.mindepth + site.incalloc - 1
  BY SiteFacts
<1>4. /\ f \in Nat \ {0} /\ a \in Nat \ {0} /\ f + Len(m.mru) = a /\ a <= Bound(site)
      /\ g \in Nat /\ g + Len(m.mru) + 1 = a
  <2>1. CASE more
    <3>1. f = m.free + site.incalloc /\ a = m.alloc + site.incalloc
      BY <2>1
    <3>2. m.alloc < site.maxdepth \/ m.alloc < site.mindepth
      BY <2>1, SMT
    <3>3. a <= Bound(site)
      <4> DEFINE x == m.alloc
                 y == site.incalloc
                 z == Bound(site)
                 lo == site.mindepth
                 hi == site.maxdepth
      <4>1. /\ x \in Nat /\ y \in Nat /\ z \in Nat /\ lo \in Nat /\ hi \in Nat
            /\ x < hi \/ x < lo
            /\ z >= hi + y - 1 /\ z >= lo + y - 1 /\ a = x + y
        BY <1>2, <1>3, <3>1, <3>2
      <4> HIDE DEF x, y, z, lo, hi, a
      <4>2. a <= z
        BY <4>1, SMT
      <4> QED
        BY <4>2 DEF z
    <3>4. f \in Nat \ {0} /\ a \in Nat \ {0} /\ f + Len(m.mru) = a
      <4> DEFINE x == m.alloc
                 y == site.incalloc
                 z == m.free
                 u == Len(m.mru)
      <4>1. /\ x \in Nat /\ y \in Nat \ {0} /\ z \in Nat /\ u \in Nat
            /\ z + u = x /\ a = x + y /\ f = z + y
        BY <1>1, <1>2, <1>3, <3>1
      <4> HIDE DEF x, y, z, u, a, f
      <4>2. f \in Nat \ {0} /\ a \in Nat \ {0} /\ f + u = a
        BY <4>1, SMT
      <4> QED
        BY <4>2 DEF u
    <3> HIDE DEF f, a
    <3> QED
      BY <1>2, <3>3, <3>4, SMT
  <2>2. CASE ~more
    <3>1. f = m.free /\ a = m.alloc
      BY <2>2
    <3> HIDE DEF f, a
    <3> QED
      BY <1>1, <1>2, <2>2, <3>1, SMT
  <2> QED
    BY <2>1, <2>2
<1>5. /\ k \in Mons /\ k.free = f /\ k.alloc = a /\ k.mru = m.mru
      /\ k.enabled = m.enabled /\ k.entries = m.entries
  <2>1. CASE more
    <3> DEFINE c == m.free + site.incalloc
               d == m.alloc + site.incalloc
    <3>1. k = [m EXCEPT !.free = c, !.alloc = d] /\ f = c /\ a = d
      BY <2>1 DEF MonGetMoreMem
    <3> HIDE DEF c, d, k, f, a
    <3> QED
      BY <1>1, <1>4, <3>1 DEF Mons
  <2>2. CASE ~more
    BY <1>1, <2>2
  <2> QED
    BY <2>1, <2>2
<1>6. MonAllocEntry(m) = n
  <2>1. MonAllocEntry(m) = [k EXCEPT !.free = k.free - 1]
    BY DEF MonAllocEntry
  <2> HIDE DEF k, f
  <2> QED
    BY <1>5, <2>1
<1> HIDE DEF k, f, a, g
<1>7. /\ n \in Mons /\ n.free = g /\ n.alloc = a /\ n.mru = m.mru
      /\ n.enabled = m.enabled /\ n.entries = m.entries
  BY <1>4, <1>5 DEF Mons
<1> HIDE DEF n
<1> QED
  BY <1>1, <1>4, <1>6, <1>7 DEF Spare

(* Where the entry for a new source comes from: when nothing is left there *)
(* is an oldest one to reclaim.                                            *)
LEMMA EntryFound ==
  ASSUME site \in Sites, NEW m, Monitored(site, m), NEW n \in MonitorEntry(m)
  PROVE  n = m \/ Spare(site, m, n)
<1>1. /\ m \in Mons /\ m.entries = Len(m.mru) /\ m.free + Len(m.mru) = m.alloc
  BY DEF Monitored
<1>2. m.mru \in Seq(GoodClients) /\ m.free \in Nat /\ m.alloc \in Nat \ {0} /\ Len(m.mru) \in Nat
  <2>1. m.mru \in Seq(GoodClients) /\ m.free \in Nat /\ m.alloc \in Nat \ {0}
    BY <1>1 DEF Mons
  <2> QED
    BY <2>1, ListFacts
<1>3. site.mindepth \in Nat /\ site.maxdepth \in Nat
  BY SiteFacts
<1>4. ASSUME m.mru # <<>> PROVE Spare(site, m, MonReclaimEntry(m))
  BY <1>4, Reclaimed
<1>5. CASE m.entries < site.mindepth
  <2>1. n = MonAllocEntry(m)
    BY <1>5 DEF MonitorEntry
  <2>2. m.free > 0 \/ m.alloc < site.mindepth
    BY <1>1, <1>2, <1>3, <1>5, SMT
  <2> QED
    BY <2>1, <2>2, Allocated
<1>6. CASE ~(m.entries < site.mindepth)
  <2>1. \/ m.mru # <<>> /\ n = MonReclaimEntry(m)
        \/ (m.free > 0 \/ m.alloc < site.maxdepth) /\ n = MonAllocEntry(m)
        \/ ~(m.free > 0) /\ n \in {MonReclaimEntry(m), m}
    <3> DEFINE Ages == IF m.mru = <<>> THEN {0} ELSE Seconds(m.mru[Len(m.mru)].age)
               From(age) ==
                 IF m.mru # <<>> /\ MaxAge < age THEN {MonReclaimEntry(m)}
                 ELSE IF m.free > 0 \/ m.alloc < site.maxdepth THEN {MonAllocEntry(m)}
                 ELSE {MonReclaimEntry(m), m}
    <3>1. MonitorEntry(m) = UNION {From(age) : age \in Ages}
      BY <1>6 DEF MonitorEntry
    <3> HIDE DEF Ages
    <3>2. PICK age \in Ages : n \in From(age)
      BY <3>1
    <3> QED
      BY <3>2
  <2>2. ~(m.free > 0) => m.mru # <<>>
    <3>1. ~(m.free > 0) => Len(m.mru) # 0
      BY <1>1, <1>2, SMT
    <3> QED
      BY <1>2, <3>1, ListEmpty
  <2>3. (m.free > 0 \/ m.alloc < site.maxdepth) => Spare(site, m, MonAllocEntry(m))
    BY Allocated
  <2> QED
    BY <1>4, <2>1, <2>2, <2>3
<1> QED
  BY <1>5, <1>6

(* ntp_monitor() for a source that has no entry.                           *)
Fresh(src, lcladr) ==
  [src |-> src, lcladr |-> lcladr, age |-> 0, leak |-> 0, kod |-> Headway + 1]

(* ntp_monitor() on a new client keeps the MRU list in order, whether it   *)
(* allocates an entry, takes a free one or recycles the oldest.            *)
LEMMA NewGood ==
  ASSUME site \in Sites, NEW m, Monitored(site, m), NEW src \in Addrs,
         NEW lcladr \in Addrs \cup {Stale}, \A x \in Range(m.mru) : x.src # src,
         NEW flags, NEW r \in MonitorNew(m, src, lcladr, flags)
  PROVE  Answered(site, m, lcladr, r)
<1> DEFINE e == Fresh(src, lcladr)
<1>1. PICK n \in MonitorEntry(m) :
        r = [mon |-> IF n = m THEN m
                     ELSE [n EXCEPT !.entries = n.entries + 1, !.mru = <<e>> \o n.mru],
             flags |-> Unlimited(flags), gap |-> Headway + 1]
  BY DEF MonitorNew, Fresh
<1>2. r.flags = Unlimited(flags)
  BY <1>1
<1>3. ~SendsKod(r.flags)
  BY <1>2 DEF SendsKod, Unlimited
<1>4. CASE n = m
  <2>1. r.mon = m
    BY <1>1, <1>4
  <2> QED
    BY <1>3, <2>1 DEF Answered
<1>5. CASE n # m
  <2> DEFINE c == n.entries + 1
             l == <<e>> \o n.mru
             k == [n EXCEPT !.entries = c, !.mru = l]
  <2>1. r.mon = k
    BY <1>1, <1>5
  <2>2. Spare(site, m, n)
    BY <1>5, EntryFound
  <2>3. /\ n \in Mons /\ n.enabled = m.enabled
        /\ n.entries = Len(n.mru) /\ n.free + Len(n.mru) + 1 = n.alloc
        /\ Unique(n.mru) /\ n.alloc <= Bound(site)
        /\ Range(n.mru) \subseteq Range(m.mru)
    BY <2>2 DEF Spare
  <2>4. n.mru \in Seq(GoodClients) /\ n.free \in Nat
    BY <2>3 DEF Mons
  <2>5. Len(n.mru) \in Nat
    BY <2>4, ListFacts
  <2>6. e \in GoodClients /\ e.src = src /\ e.lcladr = lcladr
    <3>1. /\ Limit \in Nat /\ Headway \in Nat /\ AgeMax \in Nat /\ Back \in Nat
      BY LimitIsNat, RateConstants
    <3>2. /\ 0 \in -Back .. AgeMax /\ 0 \in 0 .. Limit + Headway + Back
          /\ Headway + 1 \in 0 .. Headway + 1 /\ ~(Headway + 1 <= Headway)
      BY <3>1, SMT
    <3>3. e \in Clients
      BY <3>2 DEF Clients, Fresh
    <3>4. e.kod = Headway + 1 /\ e.age = 0 /\ e.src = src /\ e.lcladr = lcladr
      BY DEF Fresh
    <3> HIDE DEF e
    <3>5. Waiting(e)
      BY <3>1, <3>4, SMT DEF Waiting
    <3>6. ~(e.age < 0)
      BY <3>4, SMT
    <3> QED
      BY <3>3, <3>4, <3>5, <3>6 DEF GoodClients
  <2> HIDE DEF e
  <2>7. l \in Seq(GoodClients) /\ Len(l) = Len(n.mru) + 1 /\ Wider(n.mru, 1, e, l)
    BY <2>4, <2>6, ConsWider
  <2> HIDE DEF l
  <2>8. Range(l) = Range(n.mru) \cup {e}
    BY <2>4, <2>7, WiderElements, SMTT(30)
  <2>9. Unique(l)
    <3>1. \A x \in Range(n.mru) : x.src # e.src
      BY <2>3, <2>6
    <3> QED
      BY <2>3, <2>4, <2>7, <3>1, WiderUnique, SMTT(30)
  <2>10. c \in Nat /\ c = Len(l) /\ n.free + Len(l) = n.alloc
    <3> DEFINE f == n.free
               a == n.alloc
               p == Len(n.mru)
               q == Len(l)
    <3>1. /\ f \in Nat /\ p \in Nat /\ c = p + 1 /\ q = p + 1
          /\ f + p + 1 = a
      BY <2>3, <2>4, <2>5, <2>7
    <3> HIDE DEF f, a, p, q, c
    <3>2. c \in Nat /\ c = q /\ f + q = a
      BY <3>1, SMT
    <3> QED
      BY <3>2 DEF f, a, q
  <2> HIDE DEF c
  <2>11. /\ k \in Mons /\ k.mru = l /\ k.entries = c /\ k.enabled = n.enabled
         /\ k.free = n.free /\ k.alloc = n.alloc
    BY <2>3, <2>7, <2>10 DEF Mons
  <2> HIDE DEF k
  <2>12. Monitored(site, k)
    BY <2>3, <2>9, <2>10, <2>11 DEF Monitored
  <2>13. \A x \in Range(k.mru) : x.lcladr = lcladr \/ \E y \in Range(m.mru) : x.lcladr = y.lcladr
    BY <2>3, <2>6, <2>8, <2>11
  <2> QED
    BY <1>3, <2>1, <2>3, <2>11, <2>12, <2>13 DEF Answered
<1> QED
  BY <1>4, <1>5

(* ntp_monitor()                                                           *)
LEMMA MonitorGood ==
  ASSUME site \in Sites, NEW m, Monitored(site, m), NEW src \in Addrs,
         NEW lcladr \in Addrs \cup {Stale}, NEW flags, NEW r \in NtpMonitor(m, src, lcladr, flags)
  PROVE  Answered(site, m, lcladr, r)
<1> DEFINE known == {i \in DOMAIN m.mru : m.mru[i].src = src}
<1>1. m.mru \in Seq(GoodClients) /\ DOMAIN m.mru = 1 .. Len(m.mru)
  <2>1. m.mru \in Seq(GoodClients)
    BY DEF Monitored, Mons
  <2> QED
    BY <2>1, ListFacts
<1>2. CASE m.enabled = {}
  <2>1. r = [mon |-> m, flags |-> Unlimited(flags), gap |-> Headway + 1]
    BY <1>2 DEF NtpMonitor
  <2>2. r.mon = m /\ r.gap = Headway + 1
    BY <2>1
  <2> QED
    BY <2>2 DEF Answered
<1>3. CASE m.enabled # {} /\ known # {}
  <2>1. r \in MonitorKnown(m, Min(known), flags)
    BY <1>3 DEF NtpMonitor
  <2>2. known \in SUBSET Nat
    BY <1>1, SMT
  <2>3. Min(known) \in known
    <3> HIDE DEF known
    <3> QED
      BY <1>3, <2>2, FirstIn
  <2>4. Min(known) \in 1 .. Len(m.mru)
    BY <1>1, <2>3
  <2> HIDE DEF known
  <2> QED
    BY <2>1, <2>4, KnownGood
<1>4. CASE m.enabled # {} /\ known = {}
  <2>1. r \in MonitorNew(m, src, lcladr, flags)
    BY <1>4 DEF NtpMonitor
  <2>2. \A x \in Range(m.mru) : x.src # src
    BY <1>4 DEF Range
  <2> QED
    BY <2>1, <2>2, NewGood
<1> QED
  BY <1>2, <1>3, <1>4

-----------------------------------------------------------------------------
(* Steps that change the list of sources only.                             *)

(* A state stays good when the monitor is exchanged for one that is good,  *)
(* is on for the same reason and refers to interfaces that are there.      *)
LEMMA Remonitored ==
  ASSUME NEW w, NEW s, Good(w, s), NEW n, Monitored(w, n),
         "res" \in n.enabled <=> "res" \in s.mon.enabled,
         \A x \in Range(n.mru) : x.lcladr \in Ends(w, s.list)
  PROVE  Good(w, [s EXCEPT !.mon = n])
<1> DEFINE t == [s EXCEPT !.mon = n]
<1>1. s \in States /\ n \in Mons
  BY DEF Good, Monitored
<1>2. /\ t \in States /\ t.mon = n /\ t.list = s.list /\ t.drift = s.drift
      /\ t.refcnt = s.refcnt
  BY <1>1 DEF States
<1> HIDE DEF t
<1>3. Linked(t)
  BY <1>2 DEF Good, Linked
<1>4. Good(w, t)
  BY <1>2, <1>3 DEF Good
<1> QED
  BY <1>4 DEF t

(* mon_clearinterface(): what it keeps, it keeps once and in order.        *)
LEMMA Cleared ==
  ASSUME NEW w, NEW m, Monitored(w, m), NEW a
  PROVE  /\ Monitored(w, MonClearInterface(m, a))
         /\ MonClearInterface(m, a).enabled = m.enabled
         /\ Range(MonClearInterface(m, a).mru) \subseteq Range(m.mru)
         /\ \A x \in Range(MonClearInterface(m, a).mru) : x.lcladr # a
<1> DEFINE kept == {i \in DOMAIN m.mru : m.mru[i].lcladr # a}
           gone == Len(m.mru) - Cardinality(kept)
           l == Sublist(m.mru, kept)
           c == m.entries - gone
           f == m.free + gone
           n == [m EXCEPT !.mru = l, !.entries = c, !.free = f]
<1>1. /\ m \in Mons /\ m.entries = Len(m.mru) /\ m.free + Len(m.mru) = m.alloc
      /\ Unique(m.mru) /\ m.alloc <= Bound(w)
  BY DEF Monitored
<1>2. m.mru \in Seq(GoodClients) /\ m.free \in Nat /\ m.alloc \in Nat
  BY <1>1 DEF Mons
<1>3. Len(m.mru) \in Nat /\ DOMAIN m.mru = 1 .. Len(m.mru)
  BY <1>2, ListFacts
<1>4. kept \in SUBSET (1 .. Len(m.mru)) /\ \A i \in kept : m.mru[i].lcladr # a
  BY <1>3
<1>5. MonClearInterface(m, a) = n
  BY DEF MonClearInterface
<1> HIDE DEF kept
<1>6. /\ l \in Seq(GoodClients) /\ Cardinality(kept) \in 0 .. Len(m.mru)
      /\ Len(l) = Cardinality(kept)
      /\ \A k \in 1 .. Cardinality(kept) :
           Nth(kept, k) \in kept /\ l[k] = m.mru[Nth(kept, k)]
      /\ \A j, k \in 1 .. Cardinality(kept) : Nth(kept, j) = Nth(kept, k) => j = k
  BY <1>2, <1>4, Sublisted, SMT
<1> HIDE DEF l
<1>7. DOMAIN l = 1 .. Cardinality(kept)
  BY <1>6, ListFacts
<1>8. c \in Nat /\ f \in Nat /\ c = Len(l) /\ f + Len(l) = m.alloc
  <2> DEFINE k == Cardinality(kept)
             u == Len(m.mru)
             unused == m.free
  <2>1. /\ k \in 0 .. u /\ u \in Nat /\ unused \in Nat /\ Len(l) = k
        /\ c = u - (u - k) /\ f = unused + (u - k) /\ unused + u = m.alloc
    BY <1>1, <1>2, <1>3, <1>6
  <2> HIDE DEF k, u, unused, c, f
  <2>2. c = k /\ k \in Nat /\ f \in Nat /\ f + k = unused + u
    BY <2>1, SMT
  <2> QED
    BY <2>1, <2>2
<1> HIDE DEF c, f
<1>9. /\ n \in Mons /\ n.mru = l /\ n.entries = c /\ n.free = f
      /\ n.enabled = m.enabled /\ n.alloc = m.alloc
  BY <1>1, <1>6, <1>8 DEF Mons
<1> HIDE DEF n
<1>10. Unique(l)
  <2> SUFFICES ASSUME NEW j \in 1 .. Cardinality(kept), NEW k \in 1 .. Cardinality(kept),
                      l[j].src = l[k].src
               PROVE  j = k
    BY <1>7 DEF Unique
  <2>1. Nth(kept, j) \in DOMAIN m.mru /\ Nth(kept, k) \in DOMAIN m.mru
    BY <1>3, <1>4, <1>6
  <2>2. m.mru[Nth(kept, j)].src = m.mru[Nth(kept, k)].src
    BY <1>6
  <2>3. Nth(kept, j) = Nth(kept, k)
    BY <1>1, <2>1, <2>2 DEF Unique
  <2> QED
    BY <1>6, <2>3
<1>11. \A x \in Range(l) : x \in Range(m.mru) /\ x.lcladr # a
  <2> SUFFICES ASSUME NEW k \in 1 .. Cardinality(kept)
               PROVE  l[k] \in Range(m.mru) /\ l[k].lcladr # a
    BY <1>7 DEF Range
  <2> QED
    BY <1>3, <1>4, <1>6 DEF Range
<1>12. Monitored(w, n)
  BY <1>1, <1>8, <1>9, <1>10 DEF Monitored
<1> QED
  BY <1>5, <1>9, <1>11, <1>12

(* A client with other ages.                                               *)
Retimed(e, x, y) == [e EXCEPT !.age = x, !.kod = y]

(* An entry whose times alone change stays an entry.                       *)
LEMMA Reaged ==
  ASSUME NEW e \in Clients, NEW x \in -Back .. AgeMax, NEW y \in 0 .. Headway + 1
  PROVE  /\ Retimed(e, x, y) \in Clients
         /\ Retimed(e, x, y).age = x /\ Retimed(e, x, y).kod = y
         /\ Retimed(e, x, y).leak = e.leak
         /\ Retimed(e, x, y).src = e.src /\ Retimed(e, x, y).lcladr = e.lcladr
<1> DEFINE A == -Back .. AgeMax
           K == 0 .. Headway + 1
           L == 0 .. Limit + Headway + Back
<1>1. Clients = [src : Addrs, lcladr : Addrs \cup {Stale}, age : A, leak : L, kod : K]
  BY DEF Clients
<1>2. x \in A /\ y \in K
  OBVIOUS
<1> HIDE DEF A, K, L
<1> QED
  BY <1>1, <1>2 DEF Retimed

(* A clock that advances, by running or by a step, keeps a client's entry  *)
(* in order.                                                               *)
LEMMA AgedGood ==
  ASSUME NEW e \in GoodClients, NEW d \in Nat \ {0}
  PROVE  /\ Aged(e, d) \in GoodClients
         /\ Aged(e, d).src = e.src /\ Aged(e, d).lcladr = e.lcladr
<1> DEFINE x == Min({e.age + d, AgeMax})
           y == Min({e.kod + d, Headway + 1})
           t == Retimed(e, x, y)
<1>1. /\ Limit \in Nat /\ Headway \in Nat /\ AgeMax \in Nat /\ Back \in Nat
      /\ AgeMax > Headway
  BY LimitIsNat, RateConstants
<1>2. /\ e \in Clients /\ Waiting(e)
      /\ e.kod >= e.age \/ e.kod = Headway + 1
      /\ e.age < 0 => e.leak <= Limit + Headway
  BY DEF GoodClients
<1>3. /\ e.age \in -Back .. AgeMax /\ e.kod \in 0 .. Headway + 1
      /\ e.leak \in 0 .. Limit + Headway + Back
  BY <1>2 DEF Clients
<1>4. /\ e.age + d \in Int /\ AgeMax \in Int /\ e.kod + d \in Int /\ Headway + 1 \in Int
  BY <1>1, <1>3, SMT
<1>5. /\ x = IF e.age + d <= AgeMax THEN e.age + d ELSE AgeMax
      /\ y = IF e.kod + d <= Headway + 1 THEN e.kod + d ELSE Headway + 1
  BY <1>4, OfTwo
<1> HIDE DEF x, y
<1>6. x \in -Back .. AgeMax /\ y \in 0 .. Headway + 1
  BY <1>1, <1>3, <1>5, SMT
<1>7. /\ t \in Clients /\ t.age = x /\ t.kod = y /\ t.leak = e.leak
      /\ t.src = e.src /\ t.lcladr = e.lcladr
  BY <1>2, <1>6, Reaged, SMT
<1>8. Aged(e, d) = t
  BY DEF Aged, Retimed, x, y
<1> HIDE DEF t
<1>9. t.kod >= t.age \/ t.kod = Headway + 1
  <2>1. y >= x \/ y = Headway + 1
    BY <1>1, <1>2, <1>3, <1>5, SMT
  <2> QED
    BY <1>7, <2>1
<1>10. t.age < 0 => t.leak <= Limit + Headway
  <2>1. x < 0 => e.leak <= Limit + Headway
    BY <1>1, <1>2, <1>3, <1>5, SMTT(30)
  <2> QED
    BY <1>7, <2>1
<1>11. Waiting(t)
  <2> SUFFICES ASSUME y <= Headway
               PROVE  e.leak >= Limit + Headway - y + (IF x > 0 THEN x ELSE 0)
    BY <1>7 DEF Waiting
  <2>1. e.kod <= Headway /\ y = e.kod + d
    BY <1>1, <1>3, <1>5, SMT
  <2>2. e.leak >= Limit + Headway - e.kod + (IF e.age > 0 THEN e.age ELSE 0)
    BY <1>2, <2>1 DEF Waiting
  <2>3. (IF x > 0 THEN x ELSE 0) <= (IF e.age > 0 THEN e.age ELSE 0) + d
    BY <1>1, <1>3, <1>5, SMT
  <2> QED
    BY <1>1, <1>3, <1>6, <2>1, <2>2, <2>3, SMTT(30)
<1> QED
  BY <1>7, <1>8, <1>9, <1>10, <1>11 DEF GoodClients

(* A step of the clock backwards keeps a client's entry in order, within   *)
(* the bound on what the bucket holds.                                     *)
LEMMA RewoundGood ==
  ASSUME NEW e \in GoodClients, e.age >= 0, e.leak <= Limit + Headway
  PROVE  /\ Rewound(e) \in GoodClients
         /\ Rewound(e).src = e.src /\ Rewound(e).lcladr = e.lcladr
<1> DEFINE x == IF e.age = AgeMax THEN e.age ELSE e.age - Back
           y == e.kod
           t == Retimed(e, x, y)
<1>1. /\ Limit \in Nat /\ Headway \in Nat /\ AgeMax \in Nat /\ Back \in Nat
      /\ AgeMax > Headway
  BY LimitIsNat, RateConstants
<1>2. /\ e \in Clients /\ Waiting(e)
      /\ e.kod >= e.age \/ e.kod = Headway + 1
  BY DEF GoodClients
<1>3. /\ e.age \in -Back .. AgeMax /\ e.kod \in 0 .. Headway + 1
      /\ e.leak \in 0 .. Limit + Headway + Back
  BY <1>2 DEF Clients
<1>4. x \in -Back .. AgeMax /\ x <= e.age /\ y \in 0 .. Headway + 1 /\ y = e.kod
  BY <1>1, <1>3, SMT
<1>5. Rewound(e) = t
  <2>1. Rewound(e) = [e EXCEPT !.age = x]
    BY DEF Rewound
  <2> HIDE DEF x
  <2>2. [e EXCEPT !.age = x] = Retimed(e, x, e.kod)
    BY <1>2 DEF Clients, Retimed
  <2> QED
    BY <2>1, <2>2
<1> HIDE DEF x, y
<1>6. /\ t \in Clients /\ t.age = x /\ t.kod = y /\ t.leak = e.leak
      /\ t.src = e.src /\ t.lcladr = e.lcladr
  BY <1>2, <1>4, Reaged, SMT
<1> HIDE DEF t
<1>7. t.kod >= t.age \/ t.kod = Headway + 1
  <2>1. y >= x \/ y = Headway + 1
    BY <1>1, <1>2, <1>3, <1>4, SMT
  <2> QED
    BY <1>6, <2>1
<1>8. t.age < 0 => t.leak <= Limit + Headway
  BY <1>6
<1>9. Waiting(t)
  <2> SUFFICES ASSUME e.kod <= Headway
               PROVE  e.leak >= Limit + Headway - e.kod + (IF x > 0 THEN x ELSE 0)
    BY <1>4, <1>6 DEF Waiting
  <2>1. e.leak >= Limit + Headway - e.kod + (IF e.age > 0 THEN e.age ELSE 0)
    BY <1>2 DEF Waiting
  <2>2. (IF x > 0 THEN x ELSE 0) <= (IF e.age > 0 THEN e.age ELSE 0)
    BY <1>3, <1>4, SMT
  <2> QED
    BY <1>1, <1>3, <1>4, <2>1, <2>2, SMTT(30)
<1> QED
  BY <1>5, <1>6, <1>7, <1>8, <1>9 DEF GoodClients

(* A list of sources in which only the ages are others.                    *)
LEMMA ReagedList ==
  ASSUME NEW w, NEW s, Good(w, s), NEW n, NEW l, n = [s.mon EXCEPT !.mru = l],
         DOMAIN l = DOMAIN s.mon.mru,
         \A i \in DOMAIN l : /\ l[i] \in GoodClients
                             /\ l[i].src = s.mon.mru[i].src
                             /\ l[i].lcladr = s.mon.mru[i].lcladr,
         l = [i \in DOMAIN l |-> l[i]]
  PROVE  Good(w, [s EXCEPT !.mon = n])
<1> DEFINE m == s.mon
<1>1. /\ Monitored(w, m) /\ m \in Mons
      /\ \A x \in Range(m.mru) : x.lcladr \in Ends(w, s.list)
  BY DEF Good, Monitored
<1>2. m.mru \in Seq(GoodClients)
  BY <1>1 DEF Mons
<1>3. Len(m.mru) \in Nat /\ DOMAIN m.mru = 1 .. Len(m.mru)
  BY <1>2, ListFacts
<1>4. l \in Seq(GoodClients) /\ Len(l) = Len(m.mru)
  <2>1. l \in [1 .. Len(m.mru) -> GoodClients]
    BY <1>3
  <2> QED
    BY <1>3, <2>1, SMT
<1> HIDE DEF m
<1>5. n = [m EXCEPT !.mru = l]
  BY DEF m
<1>6. /\ n \in Mons /\ n.mru = l /\ n.enabled = m.enabled /\ n.entries = m.entries
      /\ n.free = m.free /\ n.alloc = m.alloc
  BY <1>1, <1>4, <1>5 DEF Mons
<1>7. Unique(l)
  <2>1. Unique(m.mru)
    BY <1>1 DEF Monitored
  <2> SUFFICES ASSUME NEW j \in DOMAIN l, NEW k \in DOMAIN l, l[j].src = l[k].src
               PROVE  j = k
    BY DEF Unique
  <2>2. m.mru[j].src = m.mru[k].src /\ j \in DOMAIN m.mru /\ k \in DOMAIN m.mru
    BY DEF m
  <2> QED
    BY <2>1, <2>2 DEF Unique
<1>8. Monitored(w, n)
  BY <1>1, <1>4, <1>6, <1>7 DEF Monitored
<1>9. \A x \in Range(n.mru) : x.lcladr \in Ends(w, s.list)
  <2> SUFFICES ASSUME NEW i \in DOMAIN l PROVE l[i].lcladr \in Ends(w, s.list)
    BY <1>6, SMT DEF Range
  <2>1. i \in DOMAIN m.mru /\ l[i].lcladr = m.mru[i].lcladr
    BY DEF m
  <2>2. m.mru[i] \in Range(m.mru)
    BY <2>1 DEF Range
  <2> QED
    BY <1>1, <2>1, <2>2
<1>10. "res" \in n.enabled <=> "res" \in s.mon.enabled
  BY <1>6 DEF m
<1> QED
  BY <1>8, <1>9, <1>10, Remonitored

(* A rule for a time expires: it is neither the default nor an interface's.*)
Expire(l, i) == [l EXCEPT ![i].expire = "past"]

(* An entry whose time runs out stays where it is in the list.             *)
LEMMA Expired ==
  ASSUME NEW w, NEW l, Listed(l), NEW i \in DOMAIN l, l[i].expire = "pending"
  PROVE  /\ Listed(Expire(l, i)) /\ Lim(Expire(l, i)) = Lim(l)
         /\ Ends(w, l) \subseteq Ends(w, Expire(l, i))
<1> DEFINE m == Expire(l, i)
           x == [l[i] EXCEPT !.expire = "past"]
<1>1. /\ l \in Seq(Rules) /\ Len(l) \in Nat /\ DOMAIN l = 1 .. Len(l)
      /\ l \in [1 .. Len(l) -> Rules]
  <2>1. l \in Seq(Rules)
    BY DEF Listed
  <2> QED
    BY <2>1, ListFacts
<1>2. x \in Rules /\ x.key = l[i].key /\ x.flags = l[i].flags
  <2>1. l[i] \in Rules
    BY <1>1
  <2> QED
    BY <2>1 DEF Rules
<1>3. m = [l EXCEPT ![i] = x]
  BY DEF Expire
<1> HIDE DEF m, x
<1>4. /\ DOMAIN m = 1 .. Len(l) /\ m \in [1 .. Len(l) -> Rules]
      /\ m[i] = x /\ \A j \in 1 .. Len(l) : j # i => m[j] = l[j]
  BY <1>1, <1>2, <1>3
<1>5. m \in Seq(Rules)
  BY <1>1, <1>4, SMT
<1>6. \A j \in 1 .. Len(l) : m[j].key = l[j].key /\ m[j].flags = l[j].flags
  BY <1>2, <1>4
<1>7. Listed(m)
  <2>1. PICK j \in DOMAIN l : l[j].key = DefaultKey /\ l[j].expire = "never"
    BY DEF Listed, Range
  <2>2. j # i
    BY <2>1
  <2>3. m[j] \in Range(m) /\ m[j].key = DefaultKey /\ m[j].expire = "never"
    BY <1>1, <1>4, <2>1, <2>2 DEF Range
  <2>4. \A y \in Range(m) : y.key.mflags = Interface => y.expire = "never"
    <3> SUFFICES ASSUME NEW k \in 1 .. Len(l), m[k].key.mflags = Interface
                 PROVE  m[k].expire = "never"
      BY <1>4 DEF Range
    <3>1. l[k] \in Range(l) /\ l[k].key.mflags = Interface
      BY <1>1, <1>6 DEF Range
    <3>2. l[k].expire = "never"
      BY <3>1 DEF Listed
    <3>3. k # i
      BY <3>2
    <3> QED
      BY <1>4, <3>2, <3>3
  <2>5. Sorted(m)
    BY <1>1, <1>4, <1>6 DEF Listed, Sorted
  <2> QED
    BY <1>5, <2>3, <2>4, <2>5 DEF Listed
<1>8. Ends(w, l) \subseteq Ends(w, m)
  <2>1. \A k : (\E y \in Range(l) : y.key = k) => (\E y \in Range(m) : y.key = k)
    <3> SUFFICES ASSUME NEW k, NEW j \in 1 .. Len(l), l[j].key = k
                 PROVE  \E y \in Range(m) : y.key = k
      BY <1>1 DEF Range
    <3>1. m[j] \in Range(m) /\ m[j].key = k
      BY <1>4, <1>6 DEF Range
    <3> QED
      BY <3>1
  <2> QED
    BY <2>1 DEF Ends
<1>9. Lim(m) = Lim(l)
  <2>1. \A j : j \in Lim(m) <=> j \in Lim(l)
    BY <1>1, <1>4, <1>6 DEF Lim
  <2> QED
    BY <2>1
<1> QED
  BY <1>7, <1>8, <1>9 DEF m

-----------------------------------------------------------------------------
(* The invariant is inductive.                                             *)

(* The endpoints are the interfaces that have a rule.                      *)
LEMMA EndpointsAreEnds ==
  ASSUME RateInv
  PROVE  /\ Endpoints \cup {Stale} = Ends(site, restrictlist)
         /\ Now.list = restrictlist /\ Now.mon = mon
<1>1. Now.list = restrictlist /\ Now.mon = mon
  BY DEF Now
<1>2. Now.list \in Seq(Rules)
  BY DEF RateInv, Good, Listed
<1>3. ASSUME NEW a
      PROVE  Find(Now, HostKey(a, Interface)) # 0 <=>
               \E x \in Range(restrictlist) : x.key = HostKey(a, Interface)
  <2> DEFINE key == HostKey(a, Interface)
             i == Find(Now, key)
  <2> HIDE DEF key
  <2>1. /\ i = 0 => \A x \in Range(Now.list) : x.key # key
        /\ i # 0 => i \in 1 .. Len(Now.list) /\ Now.list[i].key = key
    BY <1>2, Found
  <2>2. DOMAIN Now.list = 1 .. Len(Now.list)
    BY <1>2, ListFacts
  <2> HIDE DEF i
  <2>3. i # 0 => \E x \in Range(Now.list) : x.key = key
    BY <2>1, <2>2 DEF Range
  <2>4. i # 0 <=> \E x \in Range(restrictlist) : x.key = key
    BY <1>1, <2>1, <2>3
  <2> QED
    BY <2>4 DEF i, key
<1>4. \A a : a \in Endpoints \cup {Stale} <=> a \in Ends(site, restrictlist)
  BY <1>3 DEF Endpoints, Ends
<1> QED
  BY <1>1, <1>4

(* An action that leaves a good state keeps the invariant.                 *)
LEMMA Kept ==
  ASSUME RateInv, NEW s, Good(site, s), Becomes(s), deleted' \in BOOLEAN,
         kodgap' = Headway + 1
  PROVE  RateInv'
<1>1. s \in States
  BY DEF Good
<1>2. /\ restrictlist' = s.list /\ res_limited_refcnt' = s.refcnt
      /\ drift' = s.drift /\ mon' = s.mon /\ site' = site
  BY DEF Becomes
<1>3. Now' = [list |-> s.list, refcnt |-> s.refcnt, drift |-> s.drift, mon |-> s.mon]
  BY <1>2 DEF Now
<1>4. s = [list |-> s.list, refcnt |-> s.refcnt, drift |-> s.drift, mon |-> s.mon]
  BY <1>1 DEF States
<1>5. Now' = s
  BY <1>3, <1>4
<1>6. site' \in Sites /\ Good(site', Now')
  BY <1>2, <1>5 DEF RateInv
<1> QED
  BY <1>6 DEF RateInv

(* Commands and interfaces.                                                *)
LEMMA CommandKeeps ==
  ASSUME RateInv, NEW key \in site.keys,
         \/ \E flags \in FlagSets : AddRestrict(key, flags)
         \/ Unrestrict(key)
  PROVE  RateInv'
<1>1. /\ site \in Sites /\ Good(site, Now) /\ deleted \in BOOLEAN /\ kodgap = Headway + 1
  BY DEF RateInv
<1>2. 0 \notin site.ifaces /\ key \in Keys /\ key.mflags \in {0, NtpOnly}
  <2>1. 0 \notin site.ifaces /\ site.keys \subseteq {k \in Keys : k.mflags \in {0, NtpOnly}}
    BY <1>1, SiteFacts
  <2> QED
    BY <2>1
<1>3. key.mflags # Interface /\ \A a : key # HostKey(a, Interface)
  BY <1>2, SMT DEF NtpOnly, Interface, HostKey
<1>4. \A flags \in FlagSets : flags \in SUBSET Flags
  BY RateConstants
<1>5. ASSUME NEW flags \in FlagSets, AddRestrict(key, flags) PROVE RateInv'
  <2>1. Becomes(RestrictFlags(Now, key, flags, "never")) /\ UNCHANGED <<deleted, kodgap>>
    BY <1>5 DEF AddRestrict
  <2>2. Good(site, RestrictFlags(Now, key, flags, "never"))
    BY <1>1, <1>2, <1>4, RestrictGood
  <2> QED
    BY <1>1, <2>1, <2>2, Kept
<1>6. ASSUME NEW flags \in FlagSets, Becomes(RestrictUnflag(Now, key, flags)),
             UNCHANGED <<deleted, kodgap>>
      PROVE  RateInv'
  <2>1. Good(site, RestrictUnflag(Now, key, flags))
    BY <1>1, <1>2, <1>4, UnflagGood
  <2> QED
    BY <1>1, <1>6, <2>1, Kept
<1>7. ASSUME Becomes(RestrictRemove(Now, key)), UNCHANGED <<deleted, kodgap>> PROVE RateInv'
  <2>1. Good(site, RestrictRemove(Now, key))
    BY <1>1, <1>2, <1>3, RemoveGood
  <2> QED
    BY <1>1, <1>7, <2>1, Kept
<1> QED
  BY <1>5, <1>6, <1>7 DEF Unrestrict

(* The monitor switch is not the switch of the rules.                      *)
LEMMA SwitchKeeps ==
  ASSUME RateInv, Monitor
  PROVE  RateInv'
<1>1. /\ Good(site, Now) /\ deleted \in BOOLEAN /\ kodgap = Headway + 1
      /\ Monitored(site, Now.mon)
      /\ \A x \in Range(Now.mon.mru) : x.lcladr \in Ends(site, Now.list)
  BY DEF RateInv, Good
<1> DEFINE a == MonStart(Now.mon, "on")
           b == MonStop(Now.mon, "on")
<1>2. Becomes([Now EXCEPT !.mon = a]) \/ Becomes([Now EXCEPT !.mon = b])
  BY DEF Monitor
<1>3. UNCHANGED <<deleted, kodgap>>
  BY DEF Monitor
<1>4. Monitored(site, a) /\ a.mru = Now.mon.mru /\ a.enabled = Now.mon.enabled \cup {"on"}
  BY <1>1, Started
<1>5. /\ Monitored(site, b) /\ Range(b.mru) \subseteq Range(Now.mon.mru)
      /\ b.enabled = Now.mon.enabled \ {"on"}
  BY <1>1, Stopped
<1> HIDE DEF a, b
<1>6. /\ "res" \in a.enabled <=> "res" \in Now.mon.enabled
      /\ "res" \in b.enabled <=> "res" \in Now.mon.enabled
  BY <1>4, <1>5
<1>7. Good(site, [Now EXCEPT !.mon = a])
  <2>1. \A x \in Range(a.mru) : x.lcladr \in Ends(site, Now.list)
    BY <1>1, <1>4
  <2> QED
    BY <1>1, <1>4, <1>6, <2>1, Remonitored
<1>8. Good(site, [Now EXCEPT !.mon = b])
  <2>1. \A x \in Range(b.mru) : x.lcladr \in Ends(site, Now.list)
    BY <1>1, <1>5
  <2> QED
    BY <1>1, <1>5, <1>6, <2>1, Remonitored
<1> QED
  BY <1>1, <1>2, <1>3, <1>7, <1>8, Kept

(* add_interface() and delete_interface(): the sources that came in by an  *)
(* interface go before its rule.                                           *)
LEMMA InterfaceKeeps ==
  ASSUME RateInv, NEW a \in site.ifaces, InterfaceUp(a) \/ InterfaceDown(a)
  PROVE  RateInv'
<1>1. /\ site \in Sites /\ Good(site, Now) /\ deleted \in BOOLEAN /\ kodgap = Headway + 1
      /\ Monitored(site, Now.mon)
      /\ \A x \in Range(Now.mon.mru) : x.lcladr \in Ends(site, Now.list)
  BY DEF RateInv, Good
<1>2. 0 \notin site.ifaces /\ a \in Addrs
  BY <1>1, SiteFacts
<1> DEFINE key == HostKey(a, Interface)
<1>3. key \in Keys
  BY <1>2, HostIsKey
<1>4. \A b : b # a => key # HostKey(b, Interface)
  BY DEF HostKey
<1>5. ASSUME InterfaceUp(a) PROVE RateInv'
  <2>1. Becomes(RestrictFlags(Now, key, {"ignore"}, "never")) /\ UNCHANGED <<deleted, kodgap>>
    BY <1>5 DEF InterfaceUp
  <2>2. {"ignore"} \in SUBSET Flags
    BY DEF Flags
  <2> HIDE DEF key
  <2>3. Good(site, RestrictFlags(Now, key, {"ignore"}, "never"))
    BY <1>1, <1>3, <2>2, RestrictGood
  <2> QED
    BY <1>1, <2>1, <2>3, Kept
<1>6. ASSUME InterfaceDown(a) PROVE RateInv'
  <2> DEFINE n == MonClearInterface(Now.mon, a)
             s == [Now EXCEPT !.mon = n]
  <2>1. Becomes(RestrictRemove(s, key)) /\ deleted' = TRUE /\ kodgap' = kodgap
    BY <1>6 DEF InterfaceDown
  <2>2. /\ Monitored(site, n) /\ n.enabled = Now.mon.enabled
        /\ Range(n.mru) \subseteq Range(Now.mon.mru)
        /\ \A x \in Range(n.mru) : x.lcladr # a
    BY <1>1, Cleared, SMT
  <2> HIDE DEF n, key
  <2>3. \A x \in Range(n.mru) : x.lcladr \in Ends(site, Now.list)
    BY <1>1, <2>2
  <2>4. "res" \in n.enabled <=> "res" \in Now.mon.enabled
    BY <2>2
  <2>5. Good(site, s)
    BY <1>1, <2>2, <2>3, <2>4, Remonitored
  <2>6. s.mon = n
    BY DEF Now
  <2> HIDE DEF s
  <2>7. \A x \in Range(s.mon.mru) : key # HostKey(x.lcladr, Interface)
    BY <1>4, <2>2, <2>6
  <2>8. Good(site, RestrictRemove(s, key))
    BY <1>2, <2>5, <2>7, RemoveGood
  <2> QED
    BY <1>1, <2>1, <2>8, Kept
<1> QED
  BY <1>5, <1>6

(* Associations: restrict_source(), and the search that pool_xmit() makes. *)
LEMMA PeerKeeps ==
  ASSUME RateInv, NEW a \in site.peers, NewPeer(a) \/ UnPeer(a) \/ PoolXmit(a)
  PROVE  RateInv'
<1>1. /\ site \in Sites /\ Good(site, Now) /\ deleted \in BOOLEAN /\ kodgap = Headway + 1
  BY DEF RateInv
<1>2. 0 \notin site.ifaces /\ a \in Addrs
  BY <1>1, SiteFacts
<1>3. ASSUME NewPeer(a) PROVE RateInv'
  <2>1. Becomes(RestrictSource(Now, a, "never")) /\ UNCHANGED <<deleted, kodgap>>
    BY <1>3 DEF NewPeer
  <2>2. Good(site, RestrictSource(Now, a, "never"))
    BY <1>1, <1>2, SourceGood
  <2> QED
    BY <1>1, <2>1, <2>2, Kept
<1>4. ASSUME UnPeer(a) PROVE RateInv'
  <2> DEFINE key == HostKey(a, 0)
  <2>1. Becomes(RestrictRemove(Now, key)) /\ UNCHANGED <<deleted, kodgap>>
    BY <1>4 DEF UnPeer
  <2>2. \A b : key # HostKey(b, Interface)
    BY SMT DEF HostKey, Interface
  <2> HIDE DEF key
  <2>3. Good(site, RestrictRemove(Now, key))
    BY <1>1, <1>2, <2>2, RemoveGood
  <2> QED
    BY <1>1, <2>1, <2>3, Kept
<1>5. ASSUME PoolXmit(a) PROVE RateInv'
  <2> DEFINE m == MatchRestrict(Now, a, TRUE)
             s == IF m.res.flags \ {"kod"} = {} THEN m.s ELSE RestrictSource(m.s, a, "pending")
  <2>1. Becomes(s) /\ UNCHANGED <<deleted, kodgap>>
    BY <1>5 DEF PoolXmit
  <2>2. Matched(site, Now, m)
    BY <1>1, <1>2, MatchGood
  <2> HIDE DEF m
  <2>3. Good(site, m.s)
    BY <2>2 DEF Matched
  <2>4. Good(site, RestrictSource(m.s, a, "pending"))
    BY <1>2, <2>3, SourceGood
  <2>5. Good(site, s)
    BY <2>3, <2>4
  <2> QED
    BY <1>1, <2>1, <2>5, Kept
<1> QED
  BY <1>3, <1>4, <1>5

(* receive(): the rules, then the monitor.                                 *)
LEMMA ReceiveKeeps ==
  ASSUME RateInv, NEW a \in site.clients, NEW lcladr \in Arrivals, NEW ntpport \in BOOLEAN,
         Receive(a, lcladr, ntpport)
  PROVE  RateInv'
<1> DEFINE m == MatchRestrict(Now, a, ntpport)
<1>1. /\ site \in Sites /\ Good(site, Now) /\ deleted \in BOOLEAN /\ kodgap = Headway + 1
  BY DEF RateInv
<1>2. 0 \notin site.ifaces /\ a \in Addrs /\ site.ifaces \subseteq Addrs
  BY <1>1, SiteFacts
<1>3. lcladr \in Ends(site, Now.list) /\ lcladr \in Addrs \cup {Stale}
  <2>1. lcladr \in Ends(site, Now.list)
    BY EndpointsAreEnds DEF Arrivals
  <2>2. 0 \in Addrs
    BY DefaultIsKey
  <2> QED
    BY <1>2, <2>1, <2>2 DEF Ends
<1>4. Matched(site, Now, m)
  BY <1>1, <1>2, MatchGood
<1>5. \/ Becomes(m.s) /\ UNCHANGED <<deleted, kodgap>>
      \/ \E r \in NtpMonitor(m.s.mon, a, lcladr, m.res.flags) :
           /\ Becomes([m.s EXCEPT !.mon = r.mon])
           /\ kodgap' = IF SendsKod(r.flags) THEN r.gap ELSE kodgap
           /\ deleted' = deleted
  BY DEF Receive
<1> HIDE DEF m
<1>6. /\ Good(site, m.s) /\ Ends(site, Now.list) \subseteq Ends(site, m.s.list)
      /\ Monitored(site, m.s.mon)
      /\ \A x \in Range(m.s.mon.mru) : x.lcladr \in Ends(site, m.s.list)
  BY <1>4 DEF Matched, Good
<1>7. ASSUME NEW r \in NtpMonitor(m.s.mon, a, lcladr, m.res.flags),
             Becomes([m.s EXCEPT !.mon = r.mon]),
             kodgap' = IF SendsKod(r.flags) THEN r.gap ELSE kodgap, deleted' = deleted
      PROVE  RateInv'
  <2>1. Answered(site, m.s.mon, lcladr, r)
    BY <1>1, <1>2, <1>3, <1>6, MonitorGood
  <2>2. \A x \in Range(r.mon.mru) : x.lcladr \in Ends(site, m.s.list)
    BY <1>3, <1>6, <2>1 DEF Answered
  <2>3. Monitored(site, r.mon) /\ ("res" \in r.mon.enabled <=> "res" \in m.s.mon.enabled)
    BY <2>1 DEF Answered
  <2>4. Good(site, [m.s EXCEPT !.mon = r.mon])
    BY <1>6, <2>2, <2>3, Remonitored
  <2>5. kodgap' = Headway + 1
    BY <1>1, <1>7, <2>1 DEF Answered
  <2> QED
    BY <1>1, <1>7, <2>4, <2>5, Kept
<1> QED
  BY <1>1, <1>5, <1>6, <1>7, Kept

(* Time passes, and the clock is stepped.                                  *)
LEMMA TimeKeeps ==
  ASSUME RateInv, Tick \/ StepClock
  PROVE  RateInv'
<1> DEFINE m == mon.mru
<1>1. /\ site \in Sites /\ Good(site, Now) /\ deleted \in BOOLEAN /\ kodgap = Headway + 1
      /\ Now.mon \in Mons
  BY DEF RateInv, Good, Monitored
<1>2. /\ Now.list = restrictlist /\ Now.mon = mon /\ Now.refcnt = res_limited_refcnt
      /\ Now.drift = drift
  BY DEF Now
<1>3. \A i \in DOMAIN m : m[i] \in GoodClients
  <2>1. mon.mru \in Seq(GoodClients)
    BY <1>1, <1>2 DEF Mons
  <2>2. DOMAIN m = 1 .. Len(m) /\ \A i \in 1 .. Len(m) : m[i] \in GoodClients
    BY <2>1, ListFacts
  <2> QED
    BY <2>2
<1> HIDE DEF m
<1>4. ASSUME NEW l, mon' = [mon EXCEPT !.mru = l], l = [i \in DOMAIN m |-> l[i]],
             \A i \in DOMAIN m : /\ l[i] \in GoodClients
                                 /\ l[i].src = m[i].src /\ l[i].lcladr = m[i].lcladr
      PROVE  Good(site, [Now EXCEPT !.mon = mon'])
  <2>1. DOMAIN l = DOMAIN m
    BY <1>4
  <2>2. /\ mon' = [Now.mon EXCEPT !.mru = l] /\ DOMAIN l = DOMAIN Now.mon.mru
        /\ \A i \in DOMAIN l : /\ l[i] \in GoodClients
                               /\ l[i].src = Now.mon.mru[i].src
                               /\ l[i].lcladr = Now.mon.mru[i].lcladr
    BY <1>2, <1>4, <2>1 DEF m
  <2>3. l = [i \in DOMAIN l |-> l[i]]
    BY <1>4, <2>1
  <2> QED
    BY <1>1, <2>2, <2>3, ReagedList
<1>5. ASSUME Good(site, [Now EXCEPT !.mon = mon']), restrictlist' = restrictlist,
             UNCHANGED <<site, res_limited_refcnt, drift, deleted, kodgap>>
      PROVE  RateInv'
  <2>1. Now' = [Now EXCEPT !.mon = mon']
    BY <1>5, SMT DEF Now
  <2> QED
    BY <1>1, <1>5, <2>1 DEF RateInv
<1>6. ASSUME Tick PROVE RateInv'
  <2> DEFINE l == [i \in DOMAIN m |-> Aged(m[i], 1)]
  <2>1. mon' = [mon EXCEPT !.mru = l] /\ UNCHANGED <<site, res_limited_refcnt, drift, deleted, kodgap>>
    BY <1>6 DEF Tick, m
  <2>2. \A i \in DOMAIN m : /\ l[i] \in GoodClients
                            /\ l[i].src = m[i].src /\ l[i].lcladr = m[i].lcladr
    <3>1. 1 \in Nat \ {0}
      BY SMT
    <3> QED
      BY <1>3, <3>1, AgedGood
  <2>3. Good(site, [Now EXCEPT !.mon = mon'])
    BY <1>4, <2>1, <2>2
  <2>4. ASSUME NEW i \in DOMAIN restrictlist, restrictlist[i].expire = "pending",
               restrictlist' = Expire(restrictlist, i)
        PROVE  RateInv'
    <3> DEFINE s == [Now EXCEPT !.mon = mon']
               e == Expire(restrictlist, i)
    <3>1. s.list = restrictlist
      BY DEF Now
    <3>2. Now' = [s EXCEPT !.list = e]
      <4>1. Now' = [list |-> e, refcnt |-> res_limited_refcnt, drift |-> drift, mon |-> mon']
        BY <2>1, <2>4 DEF Now
      <4>2. s = [list |-> restrictlist, refcnt |-> res_limited_refcnt, drift |-> drift,
                 mon |-> mon']
        BY SMT DEF Now
      <4> HIDE DEF s, e
      <4> QED
        BY <4>1, <4>2, SMT
    <3> HIDE DEF s
    <3>3. s \in States /\ Monitored(site, s.mon) /\ Linked(s) /\ Listed(s.list)
      BY <2>3 DEF Good, s
    <3>4. /\ Listed(e) /\ Lim(e) = Lim(s.list)
          /\ Ends(site, s.list) \subseteq Ends(site, e)
      BY <2>4, <3>1, <3>3, Expired
    <3>5. Adjusted(site, s, s)
      BY <3>3, Unadjusted
    <3>6. \/ s.drift
          \/ /\ s.refcnt = Cardinality(Lim(e))
             /\ "res" \in s.mon.enabled <=> s.refcnt > 0
      BY <3>3, <3>4 DEF Linked
    <3> HIDE DEF e
    <3>7. Good(site, s)
      BY <2>3 DEF s
    <3>8. Good(site, [s EXCEPT !.list = e])
      BY <3>4, <3>5, <3>6, <3>7, Relisted
    <3> QED
      BY <1>1, <2>1, <3>2, <3>8 DEF RateInv
  <2>5. \/ restrictlist' = restrictlist
        \/ \E i \in DOMAIN restrictlist :
             restrictlist[i].expire = "pending" /\ restrictlist' = Expire(restrictlist, i)
    BY <1>6 DEF Tick, Expire
  <2> QED
    BY <1>5, <2>1, <2>3, <2>4, <2>5
<1>7. ASSUME StepClock PROVE RateInv'
  <2> DEFINE l == [i \in DOMAIN m |-> Rewound(m[i])]
             k == [i \in DOMAIN m |-> Aged(m[i], Ahead)]
  <2>1. /\ UNCHANGED <<site, restrictlist, res_limited_refcnt, drift, deleted, kodgap>>
        /\ \/ mon' = [mon EXCEPT !.mru = k]
           \/ /\ mon' = [mon EXCEPT !.mru = l]
              /\ \A i \in DOMAIN m : m[i].age >= 0 /\ m[i].leak <= Limit + Headway
    BY <1>7 DEF StepClock, m
  <2>2. ASSUME mon' = [mon EXCEPT !.mru = l],
               \A i \in DOMAIN m : m[i].age >= 0 /\ m[i].leak <= Limit + Headway
        PROVE  Good(site, [Now EXCEPT !.mon = mon'])
    <3>1. \A i \in DOMAIN m : /\ l[i] \in GoodClients
                              /\ l[i].src = m[i].src /\ l[i].lcladr = m[i].lcladr
      BY <1>3, <2>2, RewoundGood
    <3> QED
      BY <1>4, <2>2, <3>1
  <2>3. ASSUME mon' = [mon EXCEPT !.mru = k]
        PROVE  Good(site, [Now EXCEPT !.mon = mon'])
    <3>1. \A i \in DOMAIN m : /\ k[i] \in GoodClients
                              /\ k[i].src = m[i].src /\ k[i].lcladr = m[i].lcladr
      BY <1>3, RateConstants, AgedGood
    <3> QED
      BY <1>4, <2>3, <3>1
  <2> QED
    BY <1>5, <2>1, <2>2, <2>3
<1> QED
  BY <1>6, <1>7

(* The initial state is good.                                              *)
LEMMA InitGood ==
  ASSUME Init
  PROVE  RateInv
<1> DEFINE m == [enabled |-> {"on"}, mru |-> <<>>, entries |-> 0,
                 free |-> site.initalloc, alloc |-> site.initalloc]
           l == <<Zeroed>>
           s == [list |-> l, refcnt |-> 0, drift |-> FALSE, mon |-> m]
<1>1. site \in Sites /\ Now = s /\ deleted \in BOOLEAN /\ kodgap = Headway + 1
  BY DEF Init, Now, Zeroed
<1>2. site.initalloc \in Nat \ {0} /\ site.initalloc <= Bound(site)
  BY <1>1, SiteFacts
<1>3. l \in Seq(Rules) /\ Len(l) = 1 /\ DOMAIN l = 1 .. 1 /\ l[1] = Zeroed
  BY DefaultIsKey, SMT
<1>4. /\ m.enabled = {"on"} /\ m.mru = <<>> /\ m.entries = 0
      /\ m.free = site.initalloc /\ m.alloc = site.initalloc
  OBVIOUS
<1>5. <<>> \in Seq(GoodClients) /\ Len(<<>>) = 0 /\ DOMAIN <<>> = {}
  BY SMT
<1>6. m \in Mons
  BY <1>2, <1>5 DEF Mons
<1> HIDE DEF m
<1>7. m.free + Len(m.mru) = m.alloc
  BY <1>2, <1>4, <1>5, SMT
<1>8. Unique(m.mru)
  BY <1>4, <1>5 DEF Unique
<1>9. Monitored(site, m)
  BY <1>2, <1>4, <1>5, <1>6, <1>7, <1>8 DEF Monitored
<1>10. Range(m.mru) = {}
  BY <1>4, <1>5 DEF Range
<1>11. Listed(l)
  <2>1. \A j, k \in DOMAIN l : ~(j < k)
    BY <1>3, SMT
  <2>2. \A x \in Range(l) : x = Zeroed
    <3>1. \A j \in DOMAIN l : l[j] = Zeroed
      BY <1>3, SMT
    <3> QED
      BY <3>1 DEF Range
  <2>3. Zeroed \in Range(l)
    <3>1. 1 \in DOMAIN l
      BY <1>3, SMT
    <3> QED
      BY <1>3, <3>1 DEF Range
  <2>4. Zeroed.key = DefaultKey /\ Zeroed.expire = "never"
    BY DEF Zeroed
  <2> HIDE DEF l
  <2> QED
    BY <1>3, <2>1, <2>2, <2>3, <2>4 DEF Listed, Sorted
<1>12. Lim(l) = {}
  <2>1. \A j \in DOMAIN l : "limited" \notin l[j].flags
    BY <1>3, SMT DEF Zeroed
  <2> HIDE DEF l
  <2> QED
    BY <2>1 DEF Lim
<1>13. Cardinality({}) = 0
  BY FS_EmptySet
<1> HIDE DEF l
<1>14. s \in States /\ s.list = l /\ s.refcnt = 0 /\ s.mon = m
  BY <1>3, <1>6, SMT DEF States
<1> HIDE DEF s
<1>15. Linked(s)
  <2>1. s.refcnt = Cardinality(Lim(s.list))
    BY <1>12, <1>13, <1>14
  <2>2. "res" \notin s.mon.enabled /\ ~(s.refcnt > 0)
    BY <1>4, <1>14, SMT
  <2> QED
    BY <2>1, <2>2 DEF Linked
<1>16. Good(site, s)
  BY <1>9, <1>10, <1>11, <1>14, <1>15 DEF Good
<1> QED
  BY <1>1, <1>16 DEF RateInv

(* No step leaves the good states.                                         *)
LEMMA StepGood ==
  ASSUME RateInv, [Next]_vars
  PROVE  RateInv'
<1>1. CASE Next
  BY <1>1, CommandKeeps, SwitchKeeps, InterfaceKeeps, PeerKeeps, ReceiveKeeps, TimeKeeps DEF Next
<1>2. CASE UNCHANGED vars
  BY <1>2 DEF vars, RateInv, Now
<1> QED
  BY <1>1, <1>2

(* The state of the restrict list and of the monitor is good always.       *)
LEMMA AlwaysGood == Spec => []RateInv
<1>1. Init => RateInv
  BY InitGood
<1>2. RateInv /\ [Next]_vars => RateInv'
  BY StepGood
<1> QED
  BY <1>1, <1>2, PTL DEF Spec

-----------------------------------------------------------------------------
(* The theorems.                                                           *)

(* Types, for lists of any length: no rule and no source is ever made up.  *)
THEOREM TypeCorrect == Spec => []TypeOK
<1>1. RateInv => TypeOK
  <2> SUFFICES ASSUME RateInv PROVE TypeOK
    OBVIOUS
  <2>1. site \in Sites /\ Now \in States /\ deleted \in BOOLEAN /\ kodgap = Headway + 1
    BY DEF RateInv, Good
  <2>2. /\ restrictlist \in Seq(Rules) /\ res_limited_refcnt \in Int
        /\ drift \in BOOLEAN /\ mon \in Mons
    BY <2>1 DEF Now, States
  <2>3. Mons \subseteq [enabled : SUBSET {"on", "res"}, mru : Seq(GoodClients),
                        entries : Nat, free : Nat, alloc : Nat]
    BY DEF Mons
  <2>4. Seq(GoodClients) \subseteq Seq(Clients)
    <3>1. GoodClients \subseteq Clients
      BY DEF GoodClients
    <3> QED
      BY <3>1, SMT
  <2>5. mon \in [enabled : SUBSET {"on", "res"}, mru : Seq(Clients),
                 entries : Nat, free : Nat, alloc : Nat]
    BY <2>2, <2>3, <2>4
  <2>6. kodgap \in 0 .. Headway + 1
    BY <2>1, LimitIsNat, SMTT(30)
  <2> QED
    BY <2>1, <2>2, <2>5, <2>6 DEF TypeOK
<1> QED
  BY <1>1, AlwaysGood, PTL

(* ntp_monitor() spaces the KoDs: whatever the packets and the steps of    *)
(* the clock, from one KoD to the next on account of one entry of the MRU  *)
(* list the clock advances by more than half of 1 << ntp_minpoll.  A       *)
(* source whose entry is taken away or recycled in between begins anew.    *)
THEOREM KodSpacingHolds == Spec => []KodSpacing
<1>1. RateInv => KodSpacing
  BY LimitIsNat, SMT DEF RateInv, KodSpacing
<1> QED
  BY <1>1, AlwaysGood, PTL

(* inc_res_limited() and dec_res_limited() keep the count of the limited   *)
(* rules, and with it the switch of the monitor, until free_res() counts a *)
(* rule down that was not counted up.                                      *)
THEOREM LimitedCountedHolds == Spec => []LimitedCounted
<1>1. RateInv => LimitedCounted
  <2> SUFFICES ASSUME RateInv PROVE LimitedCounted
    OBVIOUS
  <2>1. Linked(Now)
    BY DEF RateInv, Good
  <2>2. /\ Now.list = restrictlist /\ Now.mon = mon /\ Now.refcnt = res_limited_refcnt
        /\ Now.drift = drift
    BY DEF Now
  <2> QED
    BY <2>1, <2>2 DEF Linked, LimitedCounted, Lim
<1> QED
  BY <1>1, AlwaysGood, PTL

(* The MRU list of ntp_monitor.c: every entry is on it or free, a source   *)
(* has one, none is left of an interface that has gone but one made after  *)
(* that, and the memory is bounded, whatever the depths and for increments *)
(* of at least one entry.                                                  *)
THEOREM MruAccountedHolds == Spec => []MruAccounted
<1>1. RateInv => MruAccounted
  <2> SUFFICES ASSUME RateInv PROVE MruAccounted
    OBVIOUS
  <2>1. /\ Endpoints \cup {Stale} = Ends(site, restrictlist)
        /\ Now.list = restrictlist /\ Now.mon = mon
    BY EndpointsAreEnds
  <2>2. /\ Monitored(site, mon)
        /\ \A x \in Range(mon.mru) : x.lcladr \in Endpoints \cup {Stale}
    BY <2>1 DEF RateInv, Good
  <2>3. \A i \in DOMAIN mon.mru : mon.mru[i].lcladr \in Endpoints \cup {Stale}
    BY <2>2 DEF Range
  <2> QED
    BY <2>2, <2>3 DEF Monitored, Unique, Bound, MruAccounted
<1> QED
  BY <1>1, AlwaysGood, PTL

(* A product of at least one and a positive number is at least that.       *)
LEMMA Multiple ==
  ASSUME NEW q \in Nat \ {0}, NEW k \in Int, k >= 1
  PROVE  q * k >= q
BY SMT

(* Division with remainder, and that there is but one.                     *)
LEMMA Divided ==
  ASSUME NEW a \in Nat, NEW q \in Nat \ {0}
  PROVE  /\ a \div q \in Nat /\ a % q \in Nat /\ a % q \in 0 .. q - 1 /\ a % q <= a
         /\ a = q * (a \div q) + (a % q)
BY SMT

(* Two numbers with different quotients differ, whatever their remainders: *)
(* the order on (address, mask) is total.                                  *)
LEMMA OneRemainder ==
  ASSUME NEW q \in Nat \ {0}, NEW k \in Int, NEW l \in Int, l >= k + 1,
         NEW y \in 0 .. q - 1, NEW z \in 0 .. q - 1
  PROVE  q * k + y # q * l + z
<1>1. q * (l - k) >= q
  BY Multiple, SMT
<1>2. q * (l - k) = q * l - q * k
  BY SMT
<1> DEFINE A == q * k
           B == q * l
           C == q * (l - k)
<1>3. A \in Int /\ B \in Int /\ C \in Int /\ C = B - A /\ C >= q
  BY <1>1, <1>2, SMT
<1> HIDE DEF A, B, C
<1>4. A + y # B + z
  BY <1>3, SMT
<1> QED
  BY <1>4 DEF A, B

(* A longer mask leaves more of an address.                                *)
LEMMA MaskedMonotone ==
  ASSUME NEW a \in Addrs, NEW i \in 0 .. Bits, NEW j \in 0 .. Bits, i <= j
  PROVE  /\ Masked(a, i) \in Int /\ Masked(a, j) \in Int
         /\ Masked(a, i) <= Masked(a, j)
<1> DEFINE p == 2^(Bits - i)
           q == 2^(Bits - j)
<1>1. /\ Bits \in Nat /\ Bits - i \in 0 .. Bits /\ Bits - j \in 0 .. Bits
      /\ Bits - i \in (Bits - j) .. Bits
  BY RateConstants, SMT
<1>2. p \in Nat \ {0} /\ q \in Nat \ {0}
  BY <1>1, MaskPowers
<1>3. PICK r \in 1 .. 2^Bits : p = r * q
  BY <1>1, MaskPowers
<1>4. 2^Bits \in Nat
  BY <1>1, MaskPowers, SMT
<1>5. r \in Nat
  BY <1>4, SMT
<1>6. a \in Nat
  BY <1>4, SMT DEF Addrs
<1>7. Masked(a, i) = a - (a % p) /\ Masked(a, j) = a - (a % q)
  BY DEF Masked
<1> HIDE DEF p, q
<1> DEFINE x == a % p
           d == a \div p
           y == x % q
           e == x \div q
           z == a % q
           f == a \div q
<1>8. x \in Nat /\ d \in Nat /\ a = p * d + x
  BY <1>2, <1>6, Divided
<1> HIDE DEF x, d
<1>9. y \in 0 .. q - 1 /\ e \in Nat /\ y <= x /\ x = q * e + y
  BY <1>2, <1>8, Divided
<1>10. z \in 0 .. q - 1 /\ f \in Nat /\ a = q * f + z
  BY <1>2, <1>6, Divided
<1> HIDE DEF y, e, z, f
<1> DEFINE g == r * d + e
<1>11. g \in Nat /\ a = q * g + y
  <2>1. p * d = q * (r * d)
    BY <1>2, <1>3, <1>5, <1>8, SMTT(30)
  <2>2. q * (r * d) + q * e = q * g
    BY <1>2, <1>5, <1>8, <1>9, SMTT(30)
  <2> DEFINE u == q * (r * d)
             v == q * e
             t == q * g
  <2>3. u \in Int /\ v \in Int /\ t \in Int /\ a = u + x /\ x = v + y /\ u + v = t
    BY <1>2, <1>5, <1>8, <1>9, <2>1, <2>2, SMTT(30)
  <2>4. g \in Nat
    BY <1>5, <1>8, <1>9, SMT
  <2> HIDE DEF u, v, t
  <2>5. a = t + y
    BY <1>9, <1>2, <2>3, SMTT(30)
  <2> QED
    BY <2>4, <2>5 DEF t
<1> HIDE DEF g
<1>12. g = f
  <2>1. ~(g >= f + 1)
    BY <1>2, <1>9, <1>10, <1>11, OneRemainder, SMTT(30)
  <2>2. ~(f >= g + 1)
    BY <1>2, <1>9, <1>10, <1>11, OneRemainder, SMTT(30)
  <2> QED
    BY <1>10, <1>11, <2>1, <2>2, SMTT(30)
<1>13. y = z
  <2> DEFINE t == q * g
  <2>1. t \in Int /\ a = t + y /\ a = t + z
    BY <1>2, <1>10, <1>11, <1>12, SMT
  <2> HIDE DEF t
  <2> QED
    BY <1>2, <1>9, <1>10, <2>1, SMTT(30)
<1>14. z <= x
  BY <1>9, <1>13
<1> QED
  BY <1>2, <1>6, <1>7, <1>8, <1>10, <1>14, SMTT(30) DEF x, z

(* match_restrict4_addr() leaves a shorter list when it frees what has     *)
(* expired.                                                                *)
LEMMA FreeShortens ==
  ASSUME NEW w, NEW s, Good(w, s), NEW i \in 1 .. Len(s.list)
  PROVE  FreeRes(s, i).list # s.list
<1> DEFINE e == s.list[i]
           t == IF e.flags # {} THEN DecLimited(s) ELSE s
<1>1. s \in States /\ Monitored(w, s.mon)
  BY DEF Good
<1>2. s.list \in Seq(Rules)
  BY <1>1 DEF States
<1>3. t.list = s.list /\ t \in States
  BY <1>1, Decremented, Unadjusted DEF Adjusted
<1>4. FreeRes(s, i) =
        [t EXCEPT !.list = Unlink(t.list, i),
                  !.drift = t.drift \/ (e.flags # {} /\ "limited" \notin e.flags)]
  BY DEF FreeRes
<1> HIDE DEF t
<1>5. FreeRes(s, i).list = Unlink(s.list, i)
  BY <1>3, <1>4 DEF States
<1>6. Len(Unlink(s.list, i)) + 1 = Len(s.list)
  BY <1>2, RemoveWider DEF Wider
<1>7. Len(s.list) \in Nat
  BY <1>2, ListFacts
<1>8. Unlink(s.list, i) # s.list
  BY <1>6, <1>7, SMT
<1> QED
  BY <1>5, <1>8

(* The order in which hack_restrict() keeps the rules makes the first that *)
(* match_restrict4_addr() meets the most specific, for addresses of any    *)
(* length and for any set of rules, unless it meets an expired one first.  *)
THEOREM MostSpecificHolds == Spec => []MostSpecific
<1>1. RateInv => MostSpecific
  <2> SUFFICES ASSUME RateInv, NEW a \in Addrs, NEW ntpport \in BOOLEAN,
                      MatchRestrict(Now, a, ntpport).s.list = restrictlist,
                      NEW j \in DOMAIN restrictlist, Matches(restrictlist[j], a, ntpport)
               PROVE  LET m == MatchRestrict(Now, a, ntpport).res IN
                      \/ m.key.len > restrictlist[j].key.len
                      \/ /\ m.key.len = restrictlist[j].key.len
                         /\ m.key.mflags >= restrictlist[j].key.mflags
    BY DEF MostSpecific
  <2> DEFINE l == restrictlist
             J == {i \in DOMAIN Now.list : \/ Now.list[i].expire = "past"
                                           \/ Matches(Now.list[i], a, ntpport)}
             i == Min(J)
  <2>1. Now.list = l
    BY DEF Now
  <2>2. Listed(l)
    BY <2>1 DEF RateInv, Good
  <2>3. l \in Seq(Rules) /\ Sorted(l)
    BY <2>2 DEF Listed
  <2>4. DOMAIN l = 1 .. Len(l) /\ Len(l) \in Nat /\ \A k \in 1 .. Len(l) : l[k] \in Rules
    BY <2>3, ListFacts
  <2>5. j \in J /\ J \in SUBSET Nat
    BY <2>1, <2>4, SMT
  <2>6. i \in J /\ i <= j
    <3> HIDE DEF J
    <3> QED
      BY <2>5, FirstIn
  <2>8. MatchRestrict(Now, a, ntpport) =
          IF Now.list[i].expire = "past" THEN [s |-> FreeRes(Now, i), res |-> Zeroed]
          ELSE [s |-> Now, res |-> Now.list[i]]
    BY DEF MatchRestrict
  <2> HIDE DEF i
  <2>13. l[i].expire # "past"
    <3> SUFFICES ASSUME l[i].expire = "past" PROVE FALSE
      OBVIOUS
    <3>1. i \in 1 .. Len(Now.list) /\ Now.list[i].expire = "past"
      BY <2>1, <2>4, <2>6
    <3>2. MatchRestrict(Now, a, ntpport).s = FreeRes(Now, i)
      BY <2>8, <3>1, SMT
    <3>3. FreeRes(Now, i).list # Now.list
      BY <3>1, FreeShortens DEF RateInv
    <3>4. MatchRestrict(Now, a, ntpport).s.list = Now.list
      BY <2>1
    <3> HIDE DEF l
    <3>5. FreeRes(Now, i).list = Now.list
      BY <3>2, <3>4
    <3> QED
      BY <3>3, <3>5
  <2>7. i \in DOMAIN l /\ Matches(l[i], a, ntpport) /\ l[i].expire # "past"
    BY <2>1, <2>6, <2>13
  <2> HIDE DEF l
  <2>9. MatchRestrict(Now, a, ntpport).res = l[i]
    BY <2>1, <2>7, <2>8, SMTT(30)
  <2> DEFINE k == l[i].key
             h == l[j].key
  <2>10. /\ k.len \in 0 .. Bits /\ h.len \in 0 .. Bits /\ k.mflags \in Int /\ h.mflags \in Int
         /\ k.addr = Masked(a, k.len) /\ h.addr = Masked(a, h.len)
    <3>1. l[i] \in Rules /\ l[j] \in Rules
      BY <2>4, <2>7 DEF l
    <3>2. k \in Keys /\ h \in Keys
      BY <3>1 DEF Rules
    <3>3. /\ k.len \in 0 .. Bits /\ h.len \in 0 .. Bits
          /\ k.mflags \in {0, NtpOnly, Interface, Source, SourceNtpOnly}
          /\ h.mflags \in {0, NtpOnly, Interface, Source, SourceNtpOnly}
      BY <3>2 DEF Keys
    <3>4. k.addr = Masked(a, k.len) /\ h.addr = Masked(a, h.len)
      BY <2>7 DEF Matches, l
    <3> QED
      BY <3>3, <3>4, SMT DEF NtpOnly, Interface, Source, SourceNtpOnly
  <2>11. i = j \/ SortsBefore(k, h)
    <3>0. i \in Int /\ j \in Int /\ i <= j
      BY <2>4, <2>6, <2>7, SMT DEF l
    <3>1. i = j \/ i < j
      BY <3>0, SMT
    <3> QED
      BY <2>3, <2>7, <3>1 DEF Sorted, l
  <2>12. k.len > h.len \/ (k.len = h.len /\ k.mflags >= h.mflags)
    <3>1. CASE i = j
      BY <2>10, <3>1, SMTT(30)
    <3>2. CASE SortsBefore(k, h)
      <4>0. Bits \in Nat
        BY RateConstants
      <4>1. k.addr > h.addr => ~(k.len <= h.len)
        <5> DEFINE u == k.len
                   v == h.len
        <5>1. u \in 0 .. Bits /\ v \in 0 .. Bits
          BY <2>10
        <5> HIDE DEF u, v
        <5>2. u <= v => /\ Masked(a, u) \in Int /\ Masked(a, v) \in Int
                        /\ Masked(a, u) <= Masked(a, v)
          BY <5>1, MaskedMonotone
        <5>3. k.addr = Masked(a, u) /\ h.addr = Masked(a, v)
          BY <2>10 DEF u, v
        <5>4. k.addr > h.addr => ~(u <= v)
          BY <5>2, <5>3, SMT
        <5> QED
          BY <5>4 DEF u, v
      <4>2. \/ k.addr > h.addr
            \/ k.len > h.len
            \/ k.len = h.len /\ k.mflags > h.mflags
        BY <3>2 DEF SortsBefore
      <4> HIDE DEF k, h
      <4> QED
        BY <2>10, <4>0, <4>1, <4>2, SMTT(30)
    <3> QED
      BY <2>11, <3>1, <3>2
  <2> QED
    BY <2>9, <2>12 DEF l
<1> QED
  BY <1>1, AlwaysGood, PTL

=============================================================================
