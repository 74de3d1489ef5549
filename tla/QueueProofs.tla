---------------------------- MODULE QueueProofs -----------------------------
(***************************************************************************)
(* Proofs about the queue that the blocking worker (Worker) makes of its   *)
(* two rings, on the way to ResolverProofs.  A ring is read as the queue   *)
(* of its requests in the order of their distance from the reader; storing *)
(* a request, taking one and extending the ring are then appending to the  *)
(* queue, taking its head and leaving it alone, given where the writer and *)
(* the reader are.                                                         *)
(***************************************************************************)
EXTENDS WorkerProofs

(* Zenon is the default prover of the leaves below; those that need arithmetic
   or that only the SMT solver finds cite SMT.                              *)
USE Zenon

-----------------------------------------------------------------------------
(* The queue that is read off a ring.                                      *)

(* The members of a set of numbers below one of them, and its n-th member. *)
Below(I, i) == {j \in I : j < i}
Nth(I, n) == CHOOSE i \in I : Cardinality(Below(I, i)) = n - 1

(* A larger member has more members below it.                              *)
LEMMA Ranks ==
  ASSUME NEW I \in SUBSET Nat, IsFiniteSet(I)
  PROVE  /\ Cardinality(I) \in Nat
         /\ \A i \in I : /\ IsFiniteSet(Below(I, i))
                         /\ Cardinality(Below(I, i)) \in Nat
                         /\ Cardinality(Below(I, i)) < Cardinality(I)
         /\ \A i, j \in I : i < j =>
              Cardinality(Below(I, i)) < Cardinality(Below(I, j))
<1>1. Cardinality(I) \in Nat
  BY FS_CardinalityType
<1>2. ASSUME NEW S \in SUBSET I, NEW T \in SUBSET S, S # T
      PROVE  /\ IsFiniteSet(T) /\ Cardinality(T) \in Nat
             /\ Cardinality(T) < Cardinality(S)
  <2>1. IsFiniteSet(S)
    BY FS_Subset
  <2>2. /\ IsFiniteSet(T) /\ Cardinality(T) <= Cardinality(S)
        /\ Cardinality(S) # Cardinality(T)
    BY <1>2, <2>1, FS_Subset
  <2>3. Cardinality(S) \in Nat /\ Cardinality(T) \in Nat
    BY <2>1, <2>2, FS_CardinalityType
  <2> QED
    BY <2>2, <2>3, SMT
<1>3. ASSUME NEW i \in I
      PROVE  /\ IsFiniteSet(Below(I, i)) /\ Cardinality(Below(I, i)) \in Nat
             /\ Cardinality(Below(I, i)) < Cardinality(I)
  <2>1. Below(I, i) \in SUBSET I /\ I # Below(I, i)
    BY SMT DEF Below
  <2> QED
    BY <1>2, <2>1
<1>4. ASSUME NEW i \in I, NEW j \in I, i < j
      PROVE  Cardinality(Below(I, i)) < Cardinality(Below(I, j))
  <2>1. /\ Below(I, j) \in SUBSET I /\ Below(I, i) \in SUBSET Below(I, j)
        /\ Below(I, j) # Below(I, i)
    <3>1. \A k \in I : k < i => k < j
      <4> SUFFICES ASSUME NEW k \in I, k < i PROVE k < j
        OBVIOUS
      <4>1. i \in Nat /\ j \in Nat /\ k \in Nat
        OBVIOUS
      <4> QED
        BY <1>4, <4>1, SMT
    <3>2. ~(i < i)
      <4>1. i \in Nat
        OBVIOUS
      <4> QED
        BY <4>1, SMT
    <3>3. i \in Below(I, j) /\ i \notin Below(I, i)
      BY <1>4, <3>2 DEF Below
    <3> QED
      BY <3>1, <3>3 DEF Below
  <2> QED
    BY <1>2, <2>1
<1> QED
  BY <1>1, <1>3, <1>4

(* The member with n - 1 members below it is the n-th ...                  *)
LEMMA NthOf ==
  ASSUME NEW I \in SUBSET Nat, IsFiniteSet(I), NEW i \in I, NEW n \in Nat,
         Cardinality(Below(I, i)) = n - 1
  PROVE  Nth(I, n) = i
<1>1. \A j \in I : Cardinality(Below(I, j)) = n - 1 => j = i
  <2> SUFFICES ASSUME NEW j \in I, Cardinality(Below(I, j)) = n - 1 PROVE j = i
    OBVIOUS
  <2>1. ~(i < j) /\ ~(j < i)
    BY Ranks, SMT
  <2> QED
    BY <2>1, SMT
<1> QED
  BY <1>1 DEF Nth

(* ... and there is one for every n up to their number.                    *)
LEMMA NthIn ==
  ASSUME NEW I \in SUBSET Nat, IsFiniteSet(I), NEW n \in 1 .. Cardinality(I)
  PROVE  Nth(I, n) \in I /\ Cardinality(Below(I, Nth(I, n))) = n - 1
<1> DEFINE c == Cardinality(I)
           f == [i \in I |-> Cardinality(Below(I, i))]
<1>1. c \in Nat
  BY Ranks
<1>2. \A i \in I : f[i] \in 0 .. (c - 1)
  BY <1>1, Ranks, SMT
<1>3. \A i, j \in I : f[i] = f[j] => i = j
  <2> SUFFICES ASSUME NEW i \in I, NEW j \in I, f[i] = f[j] PROVE i = j
    OBVIOUS
  <2>1. ~(i < j) /\ ~(j < i)
    BY Ranks, SMT
  <2> QED
    BY <2>1, SMT
<1>4. f \in Injection(I, 0 .. (c - 1))
  <2>1. f \in [I -> 0 .. (c - 1)]
    BY <1>2
  <2> HIDE DEF f, c
  <2> QED
    BY <1>3, <2>1 DEF Injection, IsInjective
<1>5. IsFiniteSet(0 .. (c - 1)) /\ Cardinality(0 .. (c - 1)) = c
  <2> HIDE DEF c
  <2> QED
    BY <1>1, FS_Interval, SMT
<1>6. f \in Surjection(I, 0 .. (c - 1))
  <2> HIDE DEF f
  <2> QED
    BY <1>4, <1>5, FS_Injection
<1>7. PICK i \in I : f[i] = n - 1
  <2>1. n - 1 \in 0 .. (c - 1)
    BY <1>1, SMT
  <2> HIDE DEF f, c
  <2> QED
    BY <1>6, <2>1 DEF Surjection
<1>8. Cardinality(Below(I, i)) = n - 1
  BY <1>7
<1>9. Nth(I, n) = i
  BY <1>8, NthOf, SMT
<1> QED
  BY <1>8, <1>9

(* A member above all others is the last.                                  *)
LEMMA NthLast ==
  ASSUME NEW I \in SUBSET Nat, IsFiniteSet(I), NEW b \in Nat, \A i \in I : i < b
  PROVE  /\ IsFiniteSet(I \cup {b})
         /\ Cardinality(I \cup {b}) = Cardinality(I) + 1
         /\ \A n \in 1 .. Cardinality(I) : Nth(I \cup {b}, n) = Nth(I, n)
         /\ Nth(I \cup {b}, Cardinality(I) + 1) = b
<1> DEFINE J == I \cup {b}
<1>1. b \notin I /\ J \in SUBSET Nat
  BY SMT
<1>2. IsFiniteSet(J) /\ Cardinality(J) = Cardinality(I) + 1
  BY <1>1, FS_AddElement
<1>3. Cardinality(I) \in Nat
  BY Ranks
<1>4. b \in J /\ Below(J, b) = I
  <2>1. ~(b < b)
    BY SMT
  <2> QED
    BY <2>1 DEF Below
<1>5. Nth(J, Cardinality(I) + 1) = b
  <2>1. Cardinality(I) + 1 \in Nat /\ Cardinality(Below(J, b)) = (Cardinality(I) + 1) - 1
    BY <1>3, <1>4, SMT
  <2> HIDE DEF J
  <2> QED
    BY <1>1, <1>2, <1>4, <2>1, NthOf
<1>6. ASSUME NEW n \in 1 .. Cardinality(I) PROVE Nth(J, n) = Nth(I, n)
  <2> DEFINE i == Nth(I, n)
  <2>1. i \in I /\ Cardinality(Below(I, i)) = n - 1
    BY NthIn
  <2> HIDE DEF i
  <2>2. i \in J /\ Below(J, i) = Below(I, i) /\ n \in Nat
    BY <1>3, <2>1, SMT DEF Below
  <2>3. Cardinality(Below(J, i)) = n - 1
    BY <2>1, <2>2
  <2> HIDE DEF J
  <2>4. Nth(J, n) = i
    BY <1>1, <1>2, <2>2, <2>3, NthOf
  <2> QED
    BY <2>4 DEF i
<1> QED
  BY <1>2, <1>5, <1>6

(* The numbers of a set, each larger by one.                               *)
Up(J) == {j + 1 : j \in J}

(* They are as many: the occupied slots of a ring are as many when counted
   from the next slot.                                                      *)
LEMMA UpCount ==
  ASSUME NEW J \in SUBSET Nat, IsFiniteSet(J)
  PROVE  IsFiniteSet(Up(J)) /\ Cardinality(Up(J)) = Cardinality(J)
<1> DEFINE f == [j \in J |-> j + 1]
<1>1. f \in [J -> Up(J)] /\ \A x \in Up(J) : \E j \in J : f[j] = x
  BY DEF Up
<1>2. \A i, j \in J : f[i] = f[j] => i = j
  <2> SUFFICES ASSUME NEW i \in J, NEW j \in J, f[i] = f[j] PROVE i = j
    OBVIOUS
  <2>1. i \in Nat /\ j \in Nat /\ i + 1 = j + 1
    OBVIOUS
  <2> QED
    BY <2>1, SMT
<1> HIDE DEF f
<1>3. f \in Bijection(J, Up(J))
  BY <1>1, <1>2 DEF Bijection, Injection, Surjection, IsInjective
<1> QED
  BY <1>3, FS_Bijection DEF ExistsBijection

(* Without its first member, and counted from one later.                   *)
LEMMA NthRest ==
  ASSUME NEW I \in SUBSET Nat, IsFiniteSet(I), NEW J \in SUBSET Nat,
         IsFiniteSet(J), \A j \in Nat : j \in J <=> j + 1 \in I
  PROVE  /\ 0 \notin I =>
              /\ Cardinality(I) = Cardinality(J)
              /\ \A n \in 1 .. Cardinality(J) : Nth(I, n) = Nth(J, n) + 1
         /\ 0 \in I =>
              /\ Cardinality(I) = Cardinality(J) + 1 /\ Nth(I, 1) = 0
              /\ \A n \in 1 .. Cardinality(J) : Nth(I, n + 1) = Nth(J, n) + 1
<1>1. Cardinality(I) \in Nat /\ Cardinality(J) \in Nat
  BY Ranks
<1>2. \A i \in I : i # 0 => i \in Nat /\ i - 1 \in Nat /\ i - 1 \in J /\ (i - 1) + 1 = i
  <2> SUFFICES ASSUME NEW i \in I, i # 0
               PROVE  i \in Nat /\ i - 1 \in Nat /\ i - 1 \in J /\ (i - 1) + 1 = i
    OBVIOUS
  <2>1. i \in Nat
    OBVIOUS
  <2>2. i - 1 \in Nat /\ (i - 1) + 1 = i
    BY <2>1, SMT
  <2> QED
    BY <2>1, <2>2
<1>3. \A j \in J : j \in Nat /\ j + 1 \in I /\ j + 1 # 0
  <2> SUFFICES ASSUME NEW j \in J PROVE j \in Nat /\ j + 1 \in I /\ j + 1 # 0
    OBVIOUS
  <2>1. j \in Nat
    OBVIOUS
  <2> QED
    BY <2>1, SMT
<1>4. Cardinality(I) = IF 0 \in I THEN Cardinality(J) + 1 ELSE Cardinality(J)
  <2>1. I \ {0} = Up(J)
    BY <1>2, <1>3 DEF Up
  <2>2. Cardinality(I \ {0}) = IF 0 \in I THEN Cardinality(I) - 1 ELSE Cardinality(I)
    BY FS_RemoveElement
  <2>3. Cardinality(Up(J)) = Cardinality(J)
    BY UpCount
  <2> QED
    BY <1>1, <2>1, <2>2, <2>3, SMT
<1>5. ASSUME NEW j \in J
      PROVE  /\ Cardinality(Below(I, j + 1)) =
                  IF 0 \in I THEN Cardinality(Below(J, j)) + 1
                             ELSE Cardinality(Below(J, j))
             /\ Cardinality(Below(J, j)) \in Nat
  <2>1. /\ IsFiniteSet(Below(J, j)) /\ Cardinality(Below(J, j)) \in Nat
        /\ Below(J, j) \in SUBSET Nat
    BY Ranks DEF Below
  <2>2. /\ IsFiniteSet(Below(I, j + 1)) /\ Cardinality(Below(I, j + 1)) \in Nat
    BY <1>3, Ranks
  <2>3. Below(I, j + 1) \ {0} = Up(Below(J, j))
    <3>1. ASSUME NEW i \in I, i < j + 1, i # 0 PROVE i \in Up(Below(J, j))
      <4>1. i - 1 \in J /\ i - 1 < j /\ (i - 1) + 1 = i
        BY <1>2, <1>3, <3>1, SMT
      <4> QED
        BY <4>1 DEF Up, Below
    <3>2. ASSUME NEW k \in J, k < j PROVE k + 1 \in I /\ k + 1 < j + 1 /\ k + 1 # 0
      <4>1. k \in Nat /\ j \in Nat /\ k + 1 \in I /\ k + 1 # 0
        BY <1>3
      <4> QED
        BY <3>2, <4>1, SMT
    <3> QED
      BY <3>1, <3>2 DEF Up, Below
  <2>4. 0 \in Below(I, j + 1) <=> 0 \in I
    <3>1. 0 < j + 1
      BY <1>3, SMT
    <3> QED
      BY <3>1 DEF Below
  <2>5. Cardinality(Below(I, j + 1) \ {0}) =
          IF 0 \in I THEN Cardinality(Below(I, j + 1)) - 1
                     ELSE Cardinality(Below(I, j + 1))
    BY <2>2, <2>4, FS_RemoveElement
  <2>6. Cardinality(Up(Below(J, j))) = Cardinality(Below(J, j))
    BY <2>1, UpCount
  <2>7. Cardinality(Below(J, j)) =
          IF 0 \in I THEN Cardinality(Below(I, j + 1)) - 1
                     ELSE Cardinality(Below(I, j + 1))
    BY <2>3, <2>5, <2>6
  <2> QED
    BY <2>1, <2>2, <2>7, SMT
<1>6. ASSUME NEW n \in 1 .. Cardinality(J)
      PROVE  (IF 0 \in I THEN Nth(I, n + 1) ELSE Nth(I, n)) = Nth(J, n) + 1
  <2> DEFINE j == Nth(J, n)
  <2>1. j \in J /\ Cardinality(Below(J, j)) = n - 1
    BY NthIn
  <2> HIDE DEF j
  <2>2. j + 1 \in I
    BY <1>3, <2>1
  <2>3. n \in Nat /\ n + 1 \in Nat
    BY <1>1, SMT
  <2>4. CASE 0 \in I
    <3>1. Cardinality(Below(I, j + 1)) = (n + 1) - 1
      BY <1>5, <2>1, <2>3, <2>4, SMT
    <3>2. Nth(I, n + 1) = j + 1
      BY <2>2, <2>3, <3>1, NthOf
    <3> QED
      BY <2>4, <3>2 DEF j
  <2>5. CASE 0 \notin I
    <3>1. Cardinality(Below(I, j + 1)) = n - 1
      BY <1>5, <2>1, <2>5
    <3>2. Nth(I, n) = j + 1
      BY <2>2, <2>3, <3>1, NthOf
    <3> QED
      BY <2>5, <3>2 DEF j
  <2> QED
    BY <2>4, <2>5
<1>7. 0 \in I => Nth(I, 1) = 0
  <2> SUFFICES ASSUME 0 \in I PROVE Nth(I, 1) = 0
    OBVIOUS
  <2>1. Below(I, 0) = {}
    <3>1. \A i \in I : ~(i < 0)
      BY SMT
    <3> QED
      BY <3>1 DEF Below
  <2>2. Cardinality(Below(I, 0)) = 1 - 1
    BY <2>1, FS_EmptySet, SMT
  <2> QED
    BY <2>2, NthOf
<1> QED
  BY <1>4, <1>6, <1>7

(* How far from the reader a ring holds requests.                          *)
Held(ring, from) ==
  {i \in 0 .. (Alloc(ring) - 1) : ring[Slot(Alloc(ring), from, i)] \in Requests}

(* The queue takes them in the order of their distances.                   *)
LEMMA QueueIs ==
  ASSUME NEW S, NEW ring \in Rings(S), NEW from, Pointer(from, ring)
  PROVE  /\ Held(ring, from) \in SUBSET Nat /\ IsFiniteSet(Held(ring, from))
         /\ InRing(ring, from) =
              [n \in 1 .. Cardinality(Held(ring, from)) |->
                 ring[Slot(Alloc(ring), from, Nth(Held(ring, from), n))]]
<1> DEFINE A == Alloc(ring)
           I == Held(ring, from)
<1>1. A \in Nat /\ \A i \in 0 .. (A - 1) : from \in 0 .. (A - 1)
  BY RingFacts, SMT DEF Pointer
<1>2. \A i \in 0 .. (A - 1) : (from + i) % A = Slot(A, from, i)
  <2> HIDE DEF A
  <2> QED
    BY <1>1, SlotIs
<1>3. I \in SUBSET (0 .. (A - 1)) /\ I \in SUBSET Nat /\ IsFiniteSet(I)
  <2>1. IsFiniteSet(0 .. (A - 1)) /\ 0 .. (A - 1) \subseteq Nat
    BY <1>1, FS_Interval, SMTT(30)
  <2>2. I \in SUBSET (0 .. (A - 1))
    BY DEF Held
  <2> HIDE DEF I, A
  <2> QED
    BY <2>1, <2>2, FS_Subset
<1> DEFINE J == {i \in 0 .. (A - 1) : ring[(from + i) % A] \in Requests}
           Q(K) == [n \in 1 .. Cardinality(K) |-> ring[(from + Nth(K, n)) % A]]
<1>4. J = I
  BY <1>2 DEF Held
<1>5. InRing(ring, from) = Q(I)
  <2>1. InRing(ring, from) = Q(J)
    BY DEF InRing, Nth, Below
  <2> HIDE DEF Q, J, I
  <2> QED
    BY <1>4, <2>1
<1> HIDE DEF I, A
<1>6. \A n \in 1 .. Cardinality(I) : Nth(I, n) \in 0 .. (A - 1)
  BY <1>3, NthIn
<1>7. InRing(ring, from) =
        [n \in 1 .. Cardinality(I) |-> ring[Slot(A, from, Nth(I, n))]]
  BY <1>2, <1>5, <1>6
<1> QED
  BY <1>3, <1>7 DEF A, I

(* The queue is a sequence of requests, and has all those of the ring.     *)
LEMMA QueueRange ==
  ASSUME NEW S, NEW ring \in Rings(S), NEW from, Pointer(from, ring)
  PROVE  /\ InRing(ring, from) \in Seq(Requests)
         /\ Range(InRing(ring, from)) = Req(ring)
<1> DEFINE A == Alloc(ring)
           I == Held(ring, from)
           s == InRing(ring, from)
<1>1. A \in Nat /\ DOMAIN ring = 0 .. (A - 1)
  BY RingFacts
<1>2. /\ I \in SUBSET Nat /\ IsFiniteSet(I) /\ Cardinality(I) \in Nat
      /\ s = [n \in 1 .. Cardinality(I) |-> ring[Slot(A, from, Nth(I, n))]]
  BY QueueIs, Ranks, SMT
<1>3. \A i \in I : /\ from \in 0 .. (A - 1) /\ i \in 0 .. (A - 1)
                   /\ Slot(A, from, i) \in DOMAIN ring
                   /\ ring[Slot(A, from, i)] \in Requests
  <2> SUFFICES ASSUME NEW i \in I
               PROVE  /\ from \in 0 .. (A - 1) /\ i \in 0 .. (A - 1)
                      /\ Slot(A, from, i) \in DOMAIN ring
                      /\ ring[Slot(A, from, i)] \in Requests
    OBVIOUS
  <2>1. i \in 0 .. (A - 1) /\ ring[Slot(A, from, i)] \in Requests
    BY DEF Held
  <2>2. from \in 0 .. (A - 1)
    BY <1>1, <2>1, SMT DEF Pointer
  <2> HIDE DEF A, I
  <2> QED
    BY <1>1, <2>1, <2>2, SlotIs
<1>4. \A k \in DOMAIN ring : ring[k] \in Requests =>
        Off(A, from, k) \in I /\ Slot(A, from, Off(A, from, k)) = k
  <2> SUFFICES ASSUME NEW k \in DOMAIN ring, ring[k] \in Requests
               PROVE  Off(A, from, k) \in I /\ Slot(A, from, Off(A, from, k)) = k
    OBVIOUS
  <2>1. from \in 0 .. (A - 1) /\ k \in 0 .. (A - 1)
    BY <1>1, SMT DEF Pointer
  <2>2. Off(A, from, k) \in 0 .. (A - 1) /\ Slot(A, from, Off(A, from, k)) = k
    <3> HIDE DEF A, I
    <3> QED
      BY <1>1, <2>1, OffIs
  <2> QED
    BY <2>2 DEF Held
<1> HIDE DEF I, A, s
<1>5. \A n \in 1 .. Cardinality(I) : Nth(I, n) \in I
  BY <1>2, NthIn
<1>6. \A n \in 1 .. Cardinality(I) : s[n] \in Requests /\ s[n] \in Range(ring)
  BY <1>2, <1>3, <1>5 DEF Range
<1>7. s \in Seq(Requests) /\ DOMAIN s = 1 .. Cardinality(I)
  BY <1>2, <1>6, SMT
<1>8. ASSUME NEW k \in DOMAIN ring, ring[k] \in Requests PROVE ring[k] \in Range(s)
  <2> DEFINE i == Off(A, from, k)
             n == Cardinality(Below(I, i)) + 1
  <2>1. i \in I /\ Slot(A, from, i) = k
    BY <1>4, <1>8
  <2> HIDE DEF i
  <2>2. Cardinality(Below(I, i)) \in Nat /\ Cardinality(Below(I, i)) < Cardinality(I)
    BY <1>2, <2>1, Ranks
  <2>3. n \in 1 .. Cardinality(I) /\ n \in Nat /\ Cardinality(Below(I, i)) = n - 1
    BY <1>2, <2>2, SMT
  <2> HIDE DEF n
  <2>4. Nth(I, n) = i
    BY <1>2, <2>1, <2>3, NthOf
  <2>5. s[n] = ring[k]
    BY <1>2, <2>1, <2>3, <2>4
  <2> QED
    BY <1>7, <2>3, <2>5 DEF Range
<1>9. Range(s) = Req(ring)
  BY <1>6, <1>7, <1>8 DEF Req, Range
<1> QED
  BY <1>7, <1>9 DEF s

(* Rings with the same requests in the same slots.                         *)
LEMMA QueueSame ==
  ASSUME NEW S, NEW ring \in Rings(S), NEW new \in Rings(S), NEW from,
         Pointer(from, ring), DOMAIN new = DOMAIN ring,
         \A k \in DOMAIN ring :
           ring[k] \in Requests \/ new[k] \in Requests => new[k] = ring[k]
  PROVE  InRing(new, from) = InRing(ring, from)
<1> DEFINE A == Alloc(ring)
           I == Held(ring, from)
<1>1. A \in Nat /\ DOMAIN ring = 0 .. (A - 1) /\ Alloc(new) = A
  BY RingFacts DEF Alloc
<1>2. \A i \in 0 .. (A - 1) : Slot(A, from, i) \in DOMAIN ring
  <2> SUFFICES ASSUME NEW i \in 0 .. (A - 1) PROVE Slot(A, from, i) \in DOMAIN ring
    OBVIOUS
  <2>1. from \in 0 .. (A - 1)
    BY <1>1, SMT DEF Pointer
  <2> HIDE DEF A
  <2> QED
    BY <1>1, <2>1, SlotIs
<1>3. Pointer(from, new)
  BY <1>1 DEF Pointer
<1>4. Held(new, from) = I
  BY <1>1, <1>2 DEF Held
<1>5. /\ I \in SUBSET Nat /\ IsFiniteSet(I)
      /\ InRing(ring, from) =
           [n \in 1 .. Cardinality(I) |-> ring[Slot(A, from, Nth(I, n))]]
  BY QueueIs
<1>6. InRing(new, from) =
        [n \in 1 .. Cardinality(I) |-> new[Slot(A, from, Nth(I, n))]]
  BY <1>1, <1>3, <1>4, QueueIs, SMT
<1>7. \A i \in I : new[Slot(A, from, i)] = ring[Slot(A, from, i)]
  BY <1>2 DEF Held
<1> HIDE DEF I, A
<1>8. \A n \in 1 .. Cardinality(I) : Nth(I, n) \in I
  BY <1>5, NthIn
<1> QED
  BY <1>5, <1>6, <1>7, <1>8

(* A request stored behind all others is the last of the queue.            *)
LEMMA QueuePut ==
  ASSUME NEW S, NEW ring \in Rings(S), NEW from, Pointer(from, ring),
         NEW at \in DOMAIN ring, ring[at] \notin Requests,
         NEW r \in Requests, r \in S,
         \A k \in DOMAIN ring : ring[k] \in Requests =>
           Off(Alloc(ring), from, k) < Off(Alloc(ring), from, at)
  PROVE  InRing(Put(ring, at, r), from) = Append(InRing(ring, from), r)
<1> DEFINE A == Alloc(ring)
           I == Held(ring, from)
           b == Off(A, from, at)
           new == Put(ring, at, r)
<1>1. /\ A \in Nat /\ DOMAIN ring = 0 .. (A - 1) /\ from \in 0 .. (A - 1)
      /\ at \in Nat /\ at \in 0 .. (A - 1)
  BY RingFacts, SMT DEF Pointer
<1>2. /\ new \in Rings(S) /\ Alloc(new) = A /\ DOMAIN new = DOMAIN ring
      /\ \A k \in DOMAIN ring : new[k] = IF k = at THEN r ELSE ring[k]
  BY <1>1, PutRing, SMT
<1> HIDE DEF A, new
<1>3. b \in 0 .. (A - 1) /\ Slot(A, from, b) = at /\ b \in Nat
  BY <1>1, OffIs, SMT
<1>4. \A i \in 0 .. (A - 1) : /\ Slot(A, from, i) \in DOMAIN ring
                              /\ Off(A, from, Slot(A, from, i)) = i
  BY <1>1, SlotIs
<1>5. /\ I \in SUBSET Nat /\ IsFiniteSet(I) /\ Cardinality(I) \in Nat
      /\ InRing(ring, from) =
           [n \in 1 .. Cardinality(I) |-> ring[Slot(A, from, Nth(I, n))]]
  BY QueueIs, Ranks, SMT DEF A
<1>6. \A i \in I : i \in 0 .. (A - 1) /\ ring[Slot(A, from, i)] \in Requests
  BY DEF Held, A
<1>7. \A i \in I : i < b
  <2> SUFFICES ASSUME NEW i \in I PROVE i < b
    OBVIOUS
  <2>1. i \in 0 .. (A - 1) /\ ring[Slot(A, from, i)] \in Requests
    BY <1>6
  <2>2. Slot(A, from, i) \in DOMAIN ring /\ Off(A, from, Slot(A, from, i)) = i
    BY <1>4, <2>1
  <2> QED
    BY <2>1, <2>2 DEF A
<1>8. Held(new, from) = I \cup {b}
  <2>1. \A i \in 0 .. (A - 1) : Slot(A, from, i) = at => i = b
    BY <1>4
  <2>2. \A i \in 0 .. (A - 1) :
          new[Slot(A, from, i)] \in Requests <=>
            ring[Slot(A, from, i)] \in Requests \/ i = b
    BY <1>2, <1>3, <1>4, <2>1, ZenonT(40)
  <2>3. Held(new, from) = {i \in 0 .. (A - 1) : new[Slot(A, from, i)] \in Requests}
    BY <1>2 DEF Held
  <2>4. I = {i \in 0 .. (A - 1) : ring[Slot(A, from, i)] \in Requests}
    BY DEF Held, A
  <2> HIDE DEF I
  <2> QED
    BY <1>3, <2>2, <2>3, <2>4
<1> DEFINE c == Cardinality(I)
           J == I \cup {b}
<1>9. /\ Cardinality(J) = c + 1 /\ Nth(J, c + 1) = b
      /\ \A n \in 1 .. c : Nth(J, n) = Nth(I, n)
  BY <1>3, <1>5, <1>7, NthLast
<1>10. InRing(new, from) =
         [n \in 1 .. (c + 1) |-> new[Slot(A, from, Nth(J, n))]]
  <2>1. Pointer(from, new)
    BY <1>1, <1>2, SMT DEF Pointer
  <2>2. InRing(new, from) =
          [n \in 1 .. Cardinality(Held(new, from)) |->
             new[Slot(Alloc(new), from, Nth(Held(new, from), n))]]
    BY <1>2, <2>1, QueueIs, SMT
  <2> HIDE DEF J
  <2> QED
    BY <1>2, <1>8, <1>9, <2>2 DEF J
<1>11. \A n \in 1 .. c : new[Slot(A, from, Nth(J, n))] = ring[Slot(A, from, Nth(I, n))]
  <2> SUFFICES ASSUME NEW n \in 1 .. c
               PROVE  new[Slot(A, from, Nth(J, n))] = ring[Slot(A, from, Nth(I, n))]
    OBVIOUS
  <2>1. Nth(I, n) \in I /\ Nth(J, n) = Nth(I, n)
    BY <1>5, <1>9, NthIn
  <2> HIDE DEF I, J, b
  <2> QED
    BY <1>2, <1>4, <1>6, <2>1
<1>12. new[Slot(A, from, Nth(J, c + 1))] = r
  BY <1>1, <1>2, <1>3, <1>9
<1> DEFINE s == InRing(ring, from)
           t == InRing(new, from)
<1>13. s \in Seq(Requests) /\ Len(s) = c /\ c \in Nat
  <2>1. s \in Seq(Requests)
    BY QueueRange
  <2> HIDE DEF I, s
  <2>2. DOMAIN s = 1 .. c
    BY <1>5 DEF s
  <2> QED
    BY <1>5, <2>1, <2>2, SMT
<1>14. /\ t = [n \in 1 .. (c + 1) |-> t[n]] /\ t[c + 1] = r
       /\ \A n \in 1 .. c : t[n] = s[n]
  <2> HIDE DEF I, J
  <2>1. c + 1 \in 1 .. (c + 1) /\ \A n \in 1 .. c : n \in 1 .. (c + 1)
    BY <1>5, SMT
  <2> QED
    BY <1>5, <1>10, <1>11, <1>12, <2>1
<1> HIDE DEF s, t, c
<1>15. t = Append(s, r)
  <2> DEFINE u == Append(s, r)
  <2>1. u \in Seq(Requests) /\ Len(u) = c + 1
    BY <1>13, SMT
  <2>2. u[c + 1] = r /\ \A n \in 1 .. c : u[n] = s[n]
    BY <1>13, SMT
  <2> HIDE DEF u
  <2>3. u = [n \in 1 .. (c + 1) |-> u[n]]
    BY <1>13, <2>1, SMT
  <2>4. \A n \in 1 .. (c + 1) : n \in 1 .. c \/ n = c + 1
    BY <1>13, SMT
  <2>5. \A n \in 1 .. (c + 1) : t[n] = u[n]
    BY <1>14, <2>2, <2>4
  <2>6. t = u
    BY <1>14, <2>3, <2>5
  <2> QED
    BY <2>6 DEF u
<1> QED
  BY <1>15 DEF s, t, new

(* Without its first slot, which has or has not the first request.         *)
LEMMA QueueTake ==
  ASSUME NEW S, NEW ring \in Rings(S), NEW from \in DOMAIN ring, Null \in S
  PROVE  /\ ring[from] \notin Requests =>
              InRing(Put(ring, from, Null), Advance(ring, from)) = InRing(ring, from)
         /\ ring[from] \in Requests =>
              InRing(ring, from) =
                <<ring[from]>> \o InRing(Put(ring, from, Null), Advance(ring, from))
<1> DEFINE A == Alloc(ring)
           next == Advance(ring, from)
           new == Put(ring, from, Null)
           I == Held(ring, from)
           J == Held(new, next)
           s == InRing(ring, from)
           t == InRing(new, next)
<1>1. A \in Nat /\ DOMAIN ring = 0 .. (A - 1) /\ from \in 0 .. (A - 1) /\ from \in Nat
  BY RingFacts, SMT
<1>2. /\ new \in Rings(S) /\ Alloc(new) = A /\ DOMAIN new = DOMAIN ring
      /\ \A k \in DOMAIN ring : new[k] = IF k = from THEN Null ELSE ring[k]
  BY <1>1, PutRing, SMT
<1>3. /\ next = After(A, from)
  BY <1>1, AdvanceAfter
<1>4. Pointer(from, ring) /\ Pointer(next, new)
  <2>1. Pointer(from, ring) /\ Pointer(next, ring)
    BY <1>1, AdvanceIs, SMT DEF Pointer
  <2> QED
    BY <1>2, <2>1 DEF Pointer
<1>5. /\ I \in SUBSET Nat /\ IsFiniteSet(I) /\ Cardinality(I) \in Nat
      /\ s = [n \in 1 .. Cardinality(I) |-> ring[Slot(A, from, Nth(I, n))]]
  BY <1>4, QueueIs, Ranks, SMT
<1>6. /\ J \in SUBSET Nat /\ IsFiniteSet(J) /\ Cardinality(J) \in Nat
      /\ t = [n \in 1 .. Cardinality(J) |-> new[Slot(A, next, Nth(J, n))]]
  <2> HIDE DEF new, next
  <2>1. /\ J \in SUBSET Nat /\ IsFiniteSet(J)
        /\ t = [n \in 1 .. Cardinality(J) |-> new[Slot(Alloc(new), next, Nth(J, n))]]
    BY <1>2, <1>4, QueueIs, SMT
  <2> QED
    BY <1>2, <2>1, Ranks
<1>7. s \in Seq(Requests) /\ t \in Seq(Requests)
  BY <1>2, <1>4, QueueRange
<1>8. Null \notin Requests
  BY Sentinels
<1>9. /\ I = {i \in 0 .. (A - 1) : ring[Slot(A, from, i)] \in Requests}
      /\ J = {i \in 0 .. (A - 1) : new[Slot(A, next, i)] \in Requests}
  <2> HIDE DEF new, next
  <2> QED
    BY <1>2 DEF Held
<1> HIDE DEF A, next, new, I, J, s, t
<1>10. \A i \in 0 .. (A - 1) : Slot(A, next, i) = Slot(A, from, i + 1)
  BY <1>1, <1>3, NextOff
<1>11. /\ Slot(A, from, 0) = from
       /\ \A j \in 0 .. (A - 2) : /\ Slot(A, from, j + 1) # from
                                  /\ Slot(A, from, j + 1) \in 0 .. (A - 1)
                                  /\ j \in 0 .. (A - 1) /\ j + 1 \in 0 .. (A - 1)
       /\ Slot(A, from, A) = from
  BY <1>1, SMT DEF Slot
<1>12. ASSUME NEW j \in 0 .. (A - 2)
       PROVE  new[Slot(A, next, j)] = ring[Slot(A, from, j + 1)]
  BY <1>1, <1>2, <1>10, <1>11
<1>13. new[Slot(A, next, A - 1)] = Null
  <2>1. A - 1 \in 0 .. (A - 1) /\ (A - 1) + 1 = A
    BY <1>1, SMT
  <2> QED
    BY <1>1, <1>2, <1>10, <1>11, <2>1
<1>14. \A j \in Nat : j \in J <=> j + 1 \in I
  <2> SUFFICES ASSUME NEW j \in Nat PROVE j \in J <=> j + 1 \in I
    OBVIOUS
  <2>1. CASE j \in 0 .. (A - 2)
    BY <1>9, <1>11, <1>12, <2>1
  <2>2. CASE j = A - 1
    <3>1. j \notin J
      BY <1>8, <1>9, <1>13, <2>2
    <3>2. j + 1 \notin 0 .. (A - 1)
      BY <1>1, <2>2, SMT
    <3> QED
      BY <1>9, <3>1, <3>2
  <2>3. CASE j > A - 1
    <3>1. j \notin 0 .. (A - 1) /\ j + 1 \notin 0 .. (A - 1)
      BY <1>1, <2>3, SMT
    <3> QED
      BY <1>9, <3>1
  <2> QED
    BY <1>1, <2>1, <2>2, <2>3, SMT
<1>15. 0 \in I <=> ring[from] \in Requests
  <2>1. 0 \in 0 .. (A - 1)
    BY <1>1, SMT
  <2> QED
    BY <1>9, <1>11, <2>1
<1> DEFINE c == Cardinality(J)
<1>16. /\ 0 \notin I => /\ Cardinality(I) = c
                        /\ \A n \in 1 .. c : Nth(I, n) = Nth(J, n) + 1
       /\ 0 \in I => /\ Cardinality(I) = c + 1 /\ Nth(I, 1) = 0
                     /\ \A n \in 1 .. c : Nth(I, n + 1) = Nth(J, n) + 1
  BY <1>5, <1>6, <1>14, NthRest
<1>17. \A n \in 1 .. c : t[n] = ring[Slot(A, from, Nth(J, n) + 1)]
  <2> SUFFICES ASSUME NEW n \in 1 .. c
               PROVE  t[n] = ring[Slot(A, from, Nth(J, n) + 1)]
    OBVIOUS
  <2> DEFINE j == Nth(J, n)
  <2>1. j \in J
    BY <1>6, NthIn
  <2> HIDE DEF j
  <2>2. j \in 0 .. (A - 2)
    <3>1. j \in 0 .. (A - 1) /\ j # A - 1
      BY <1>8, <1>9, <1>13, <2>1
    <3> QED
      BY <1>1, <3>1, SMT
  <2>3. t[n] = new[Slot(A, next, j)]
    BY <1>6 DEF j
  <2> QED
    BY <1>12, <2>2, <2>3 DEF j
<1>18. CASE ring[from] \notin Requests
  <2>1. s = [n \in 1 .. c |-> ring[Slot(A, from, Nth(I, n))]] /\ 0 \notin I
    BY <1>5, <1>15, <1>16, <1>18
  <2>2. t = [n \in 1 .. c |-> t[n]]
    BY <1>6
  <2>3. \A n \in 1 .. c : t[n] = ring[Slot(A, from, Nth(I, n))]
    BY <1>16, <1>17, <2>1
  <2>4. t = s
    BY <2>1, <2>2, <2>3
  <2> QED
    BY <1>18, <2>4 DEF s, t, new, next
<1>19. CASE ring[from] \in Requests
  <2>1. /\ s = [n \in 1 .. (c + 1) |-> ring[Slot(A, from, Nth(I, n))]] /\ 0 \in I
        /\ Nth(I, 1) = 0 /\ \A n \in 1 .. c : Nth(I, n + 1) = Nth(J, n) + 1
    BY <1>5, <1>15, <1>16, <1>19
  <2>2. DOMAIN t = 1 .. c /\ c \in Nat
    BY <1>6
  <2> HIDE DEF c
  <2>3. Len(t) = c /\ DOMAIN s = 1 .. (c + 1) /\ Len(s) = c + 1
    BY <1>7, <2>1, <2>2, SMT
  <2>4. s[1] = ring[from]
    BY <1>11, <2>1, <2>2, SMT
  <2>5. \A n \in 1 .. c : n + 1 \in 1 .. (c + 1) /\ s[n + 1] = t[n]
    <3>1. \A n \in 1 .. c : n + 1 \in 1 .. (c + 1)
      BY <2>2, SMT
    <3> QED
      BY <1>17, <2>1, <3>1 DEF c
  <2>6. s = <<ring[from]>> \o t
    <3> DEFINE x == ring[from]
    <3>1. x = s[1] /\ x \in Requests
      BY <1>19, <2>4
    <3> HIDE DEF x
    <3> QED
      BY <1>7, <2>2, <2>3, <2>5, <3>1, SMT DEF x
  <2> QED
    BY <1>19, <2>6 DEF s, t, new, next
<1> QED
  BY <1>18, <1>19

(* No requests, no queue.                                                  *)
LEMMA QueueEmpty ==
  ASSUME NEW S, NEW ring \in Rings(S), NEW from, Pointer(from, ring), Req(ring) = {}
  PROVE  InRing(ring, from) = <<>>
<1> DEFINE s == InRing(ring, from)
<1>1. s \in Seq(Requests) /\ Range(s) = {}
  BY QueueRange
<1> HIDE DEF s
<1>2. ~(Len(s) > 0)
  <2> SUFFICES ASSUME Len(s) > 0 PROVE FALSE
    OBVIOUS
  <2>1. 1 \in DOMAIN s
    BY <1>1, SMT
  <2> QED
    BY <1>1, <2>1 DEF Range
<1>3. s = <<>>
  BY <1>1, <1>2, SMT
<1> QED
  BY <1>3 DEF s

(* A ring extended where no request lies before the reader.                *)
LEMMA QueueGrow ==
  ASSUME NEW S, NEW ring \in Rings(S), NEW from \in DOMAIN ring, Null \in S,
         NEW inc \in Nat,
         \A k \in DOMAIN ring : ring[k] \in Requests => k >= from
  PROVE  InRing(Extended(ring, inc), from) = InRing(ring, from)
<1> DEFINE A == Alloc(ring)
           ext == Extended(ring, inc)
           B == Alloc(ext)
           I == Held(ring, from)
<1>1. A \in Nat /\ DOMAIN ring = 0 .. (A - 1) /\ from \in 0 .. (A - 1) /\ from \in Nat
  BY RingFacts, SMT
<1>2. /\ ext \in Rings(S) /\ B = A + inc
      /\ \A k \in DOMAIN ext : ext[k] = IF k < A THEN ring[k] ELSE Null
  BY ExtendRing
<1>3. DOMAIN ext = 0 .. (B - 1) /\ B \in Nat /\ B >= A
  BY <1>1, <1>2, RingFacts, SMT
<1>4. Pointer(from, ring) /\ Pointer(from, ext)
  BY <1>1, <1>3, SMT DEF Pointer
<1>5. /\ I \in SUBSET Nat /\ IsFiniteSet(I)
      /\ InRing(ring, from) =
           [n \in 1 .. Cardinality(I) |-> ring[Slot(A, from, Nth(I, n))]]
  BY <1>4, QueueIs, SMT
<1> HIDE DEF ext
<1>6. InRing(ext, from) =
        [n \in 1 .. Cardinality(Held(ext, from)) |->
           ext[Slot(B, from, Nth(Held(ext, from), n))]]
  BY <1>2, <1>4, QueueIs, SMT
<1>7. /\ I = {i \in 0 .. (A - 1) : ring[Slot(A, from, i)] \in Requests}
      /\ Held(ext, from) = {i \in 0 .. (B - 1) : ext[Slot(B, from, i)] \in Requests}
  BY DEF Held
<1>8. Null \notin Requests
  BY Sentinels
<1> HIDE DEF A, B, I
<1>9. ASSUME NEW i \in I
      PROVE  /\ i \in 0 .. (B - 1) /\ ext[Slot(B, from, i)] \in Requests
             /\ ext[Slot(B, from, i)] = ring[Slot(A, from, i)]
  <2> DEFINE k == Slot(A, from, i)
  <2>1. i \in 0 .. (A - 1) /\ ring[k] \in Requests
    BY <1>7
  <2>2. k \in DOMAIN ring /\ k \in 0 .. (A - 1)
    BY <1>1, <2>1, SlotIs
  <2>3. k >= from
    BY <2>1, <2>2
  <2>4. i \in 0 .. (B - 1) /\ Slot(B, from, i) = k /\ k < A /\ k \in 0 .. (B - 1)
    BY <1>1, <1>3, <2>1, <2>2, <2>3, SMT DEF Slot
  <2> HIDE DEF k
  <2>5. ext[k] = ring[k]
    BY <1>2, <1>3, <2>4
  <2> QED
    BY <2>1, <2>4, <2>5 DEF k
<1>10. ASSUME NEW i \in 0 .. (B - 1), ext[Slot(B, from, i)] \in Requests
       PROVE  i \in I
  <2> DEFINE k == Slot(B, from, i)
  <2>1. k \in 0 .. (B - 1) /\ from \in 0 .. (B - 1)
    BY <1>1, <1>3, SMT DEF Slot
  <2>2. ext[k] = IF k < A THEN ring[k] ELSE Null
    BY <1>2, <1>3, <2>1
  <2>3. k < A /\ ring[k] \in Requests
    BY <1>8, <1>10, <2>2
  <2>4. k \in DOMAIN ring
    BY <1>1, <2>1, <2>3, SMT
  <2>5. k >= from
    BY <2>3, <2>4
  <2>6. i \in 0 .. (A - 1) /\ Slot(A, from, i) = k
    BY <1>1, <1>3, <2>1, <2>3, <2>5, SMTT(30) DEF Slot
  <2> HIDE DEF k
  <2> QED
    BY <1>7, <2>3, <2>6
<1>11. Held(ext, from) = I
  BY <1>7, <1>9, <1>10
<1>12. \A n \in 1 .. Cardinality(I) : Nth(I, n) \in I
  BY <1>5, NthIn
<1>13. InRing(ext, from) =
         [n \in 1 .. Cardinality(I) |-> ext[Slot(B, from, Nth(I, n))]]
  BY <1>6, <1>11
<1>14. InRing(ext, from) = InRing(ring, from)
  BY <1>5, <1>9, <1>12, <1>13
<1> QED
  BY <1>14 DEF ext

-----------------------------------------------------------------------------
(* The places of the requests in a ring.                                   *)

(* How far the writer is ahead of the reader: a full ring's length when it *)
(* has caught up.  Every request lies before the writer (Line); so does    *)
(* every item, and nothing else (Solid).                                   *)
Lead(ring, from, to) ==
  IF to = from /\ ring[to] # Null THEN Alloc(ring) ELSE Off(Alloc(ring), from, to)
Line(ring, from, to) ==
  \A k \in DOMAIN ring :
    ring[k] \in Requests => Off(Alloc(ring), from, k) < Lead(ring, from, to)
Solid(ring, from, to) ==
  \A k \in DOMAIN ring :
    ring[k] # Null <=> Off(Alloc(ring), from, k) < Lead(ring, from, to)

(* A solid ring has its requests before the writer, and the first item is  *)
(* at the reader.                                                          *)
LEMMA SolidLine ==
  ASSUME NEW S, NEW ring \in Rings(S), NEW from \in DOMAIN ring,
         NEW to \in DOMAIN ring, Solid(ring, from, to)
  PROVE  /\ Line(ring, from, to)
         /\ ring[from] # Null \/ to = from
<1>1. Line(ring, from, to)
  BY Sentinels DEF Line, Solid
<1> DEFINE A == Alloc(ring)
<1>2. A \in Nat /\ DOMAIN ring = 0 .. (A - 1)
  BY RingFacts
<1> HIDE DEF A
<1>3. Off(A, from, from) = 0 /\ (to # from => Off(A, from, to) > 0)
  BY <1>2, SMT DEF Off
<1>4. to # from => ring[from] # Null
  <2> SUFFICES ASSUME to # from PROVE ring[from] # Null
    OBVIOUS
  <2>1. Lead(ring, from, to) = Off(A, from, to)
    BY DEF Lead, A
  <2>2. Off(A, from, from) < Lead(ring, from, to)
    BY <1>3, <2>1
  <2> QED
    BY <2>2 DEF Solid, A
<1> QED
  BY <1>1, <1>4

(* How far the writer gets when it stores something in a free slot.        *)
LEMMA LeadPut ==
  ASSUME NEW S, NEW ring \in Rings(S), NEW from \in DOMAIN ring,
         NEW to \in DOMAIN ring, ring[to] = Null, NEW item \in S, item # Null,
         ring[from] # Null \/ to = from
  PROVE  /\ Lead(ring, from, to) = Off(Alloc(ring), from, to)
         /\ Lead(Put(ring, to, item), from, Advance(ring, to)) =
              Off(Alloc(ring), from, to) + 1
         /\ Put(ring, to, item)[from] # Null
<1> DEFINE A == Alloc(ring)
           new == Put(ring, to, item)
           next == Advance(ring, to)
<1>1. /\ A \in Nat /\ DOMAIN ring = 0 .. (A - 1)
      /\ from \in 0 .. (A - 1) /\ to \in 0 .. (A - 1) /\ to \in Nat
  BY RingFacts, SMT
<1>2. /\ Alloc(new) = A /\ \A k \in DOMAIN ring : new[k] = IF k = to THEN item ELSE ring[k]
  BY <1>1, PutRing, SMT
<1>3. next = After(A, to)
  BY <1>1, AdvanceAfter
<1> HIDE DEF A, new, next
<1>4. new[from] # Null
  BY <1>2
<1>5. next \in 0 .. (A - 1)
  BY <1>1, <1>3, SMT DEF After
<1>6. /\ next = from => Off(A, from, to) + 1 = A
      /\ next # from => Off(A, from, next) = Off(A, from, to) + 1
  BY <1>1, <1>3, SMTT(30) DEF After, Off
<1>7. Lead(new, from, next) = Off(A, from, to) + 1
  BY <1>2, <1>4, <1>6 DEF Lead
<1> QED
  BY <1>4, <1>7 DEF Lead, new, next, A

(* The queue of a ring in which an item was stored has one request more,   *)
(* if the item is one.                                                     *)
Gains(new, ring, from, item) ==
  /\ item \in Requests => InRing(new, from) = Append(InRing(ring, from), item)
  /\ item \notin Requests => InRing(new, from) = InRing(ring, from)

(* An item stored in a free slot: the ring stays in line.                  *)
LEMMA RingPut ==
  ASSUME NEW S, NEW ring \in Rings(S), NEW from \in DOMAIN ring,
         NEW to \in DOMAIN ring, ring[to] = Null, NEW item \in S, item # Null,
         ring[from] # Null \/ to = from, Line(ring, from, to)
  PROVE  /\ Line(Put(ring, to, item), from, Advance(ring, to))
         /\ Solid(ring, from, to) =>
              Solid(Put(ring, to, item), from, Advance(ring, to))
         /\ Put(ring, to, item)[from] # Null
         /\ Gains(Put(ring, to, item), ring, from, item)
<1> DEFINE A == Alloc(ring)
           new == Put(ring, to, item)
           next == Advance(ring, to)
<1>1. /\ A \in Nat /\ DOMAIN ring = 0 .. (A - 1)
      /\ from \in 0 .. (A - 1) /\ to \in 0 .. (A - 1) /\ to \in Nat
      /\ Pointer(from, ring)
  BY RingFacts, SMT DEF Pointer
<1>2. /\ new \in Rings(S) /\ Alloc(new) = A /\ DOMAIN new = DOMAIN ring
      /\ \A k \in DOMAIN ring : new[k] = IF k = to THEN item ELSE ring[k]
  BY <1>1, PutRing, SMT
<1>3. /\ Lead(ring, from, to) = Off(A, from, to)
      /\ Lead(new, from, next) = Off(A, from, to) + 1
      /\ new[from] # Null
  BY LeadPut
<1>4. Null \notin Requests
  BY Sentinels
<1>5. \A k \in DOMAIN ring : ring[k] \in Requests => Off(A, from, k) < Off(A, from, to)
  BY <1>3 DEF Line
<1>6. item \notin Requests => InRing(new, from) = InRing(ring, from)
  <2> SUFFICES ASSUME item \notin Requests PROVE InRing(new, from) = InRing(ring, from)
    OBVIOUS
  <2> HIDE DEF new
  <2>1. \A k \in DOMAIN ring :
          ring[k] \in Requests \/ new[k] \in Requests => new[k] = ring[k]
    BY <1>2, <1>4
  <2> QED
    BY <1>1, <1>2, <2>1, QueueSame
<1>7. item \in Requests => InRing(new, from) = Append(InRing(ring, from), item)
  BY <1>1, <1>4, <1>5, QueuePut, SMTT(30)
<1> HIDE DEF A, new, next
<1>8. \A k \in DOMAIN ring : /\ Off(A, from, k) \in Nat
                             /\ k # to => Off(A, from, k) # Off(A, from, to)
  <2> SUFFICES ASSUME NEW k \in 0 .. (A - 1)
               PROVE  /\ Off(A, from, k) \in Nat
                      /\ k # to => Off(A, from, k) # Off(A, from, to)
    BY <1>1
  <2>1. /\ Off(A, from, k) \in 0 .. (A - 1) /\ Slot(A, from, Off(A, from, k)) = k
        /\ Slot(A, from, Off(A, from, to)) = to
    BY <1>1, OffIs
  <2> QED
    BY <2>1, SMT
<1>9. \A k \in DOMAIN ring :
        /\ k = to => Off(A, from, k) < Off(A, from, to) + 1
        /\ k # to => (Off(A, from, k) < Off(A, from, to) + 1
                        <=> Off(A, from, k) < Off(A, from, to))
  BY <1>1, <1>8, SMT
<1>10. Line(new, from, next)
  BY <1>2, <1>3, <1>5, <1>9 DEF Line
<1>11. Solid(ring, from, to) => Solid(new, from, next)
  <2> SUFFICES ASSUME Solid(ring, from, to) PROVE Solid(new, from, next)
    OBVIOUS
  <2>1. \A k \in DOMAIN ring : ring[k] # Null <=> Off(A, from, k) < Off(A, from, to)
    BY <1>3 DEF Solid, A
  <2> QED
    BY <1>2, <1>3, <1>9, <2>1 DEF Solid
<1> QED
  BY <1>3, <1>6, <1>7, <1>10, <1>11 DEF new, next, Gains

(* The reader takes what it is at and moves on.                            *)
LEMMA RingTake ==
  ASSUME NEW S, NEW ring \in Rings(S), NEW from \in DOMAIN ring, Null \in S,
         NEW to \in DOMAIN ring, ring[from] # Null, Line(ring, from, to)
  PROVE  /\ Line(Put(ring, from, Null), Advance(ring, from), to)
         /\ Solid(ring, from, to) =>
              Solid(Put(ring, from, Null), Advance(ring, from), to)
<1> DEFINE A == Alloc(ring)
           new == Put(ring, from, Null)
           next == Advance(ring, from)
           lead == Lead(ring, from, to)
<1>1. /\ A \in Nat /\ DOMAIN ring = 0 .. (A - 1)
      /\ from \in 0 .. (A - 1) /\ to \in 0 .. (A - 1) /\ from \in Nat
  BY RingFacts, SMT
<1>2. /\ Alloc(new) = A /\ DOMAIN new = DOMAIN ring
      /\ \A k \in DOMAIN ring : new[k] = IF k = from THEN Null ELSE ring[k]
  BY <1>1, PutRing, SMT
<1>3. next = After(A, from)
  BY <1>1, AdvanceAfter
<1>4. lead = IF to = from THEN A ELSE Off(A, from, to)
  BY DEF Lead
<1> HIDE DEF A, new, next, lead
<1>5. /\ next \in 0 .. (A - 1)
      /\ \A k \in 0 .. (A - 1) :
           /\ k = from => Off(A, from, k) = 0 /\ Off(A, next, k) = A - 1
           /\ k # from => /\ Off(A, from, k) > 0
                          /\ Off(A, next, k) = Off(A, from, k) - 1
  BY <1>1, <1>3, NextOff
<1>6. \A k \in 0 .. (A - 1) : Off(A, from, k) \in 0 .. (A - 1)
  BY <1>1, OffIs
<1>7. lead \in 0 .. A
  BY <1>1, <1>4, <1>6, SMT
<1>8. \/ Lead(new, next, to) = lead - 1
      \/ to # from /\ ring[to] # Null /\ Lead(new, next, to) = A
  <2>1. CASE to = from
    <3>1. new[to] = Null
      BY <1>1, <1>2, <2>1
    <3>2. Lead(new, next, to) = Off(A, next, to)
      BY <1>2, <3>1 DEF Lead
    <3> QED
      BY <1>1, <1>4, <1>5, <2>1, <3>2
  <2>2. CASE to # from
    <3>1. new[to] = ring[to]
      BY <1>1, <1>2, <2>2
    <3>2. \/ Lead(new, next, to) = Off(A, next, to)
          \/ ring[to] # Null /\ Lead(new, next, to) = A
      BY <1>2, <3>1 DEF Lead
    <3> QED
      BY <1>1, <1>4, <1>5, <2>2, <3>2
  <2> QED
    BY <2>1, <2>2
<1>9. Line(new, next, to)
  <2> SUFFICES ASSUME NEW k \in DOMAIN ring, new[k] \in Requests
               PROVE  Off(A, next, k) < Lead(new, next, to)
    BY <1>2 DEF Line
  <2>1. k # from /\ ring[k] \in Requests
    BY <1>2, Sentinels
  <2>2. Off(A, from, k) < lead
    BY <2>1 DEF Line, A, lead
  <2>3. Off(A, next, k) < lead - 1 /\ Off(A, next, k) < A
    <3>1. /\ Off(A, next, k) = Off(A, from, k) - 1 /\ Off(A, from, k) \in 0 .. (A - 1)
      BY <1>1, <1>5, <1>6, <2>1
    <3> QED
      BY <1>1, <1>7, <2>2, <3>1, SMT
  <2> QED
    BY <1>8, <2>3
<1>10. Solid(ring, from, to) => Solid(new, next, to)
  <2> SUFFICES ASSUME Solid(ring, from, to), NEW k \in DOMAIN ring
               PROVE  new[k] # Null <=> Off(A, next, k) < Lead(new, next, to)
    BY <1>2 DEF Solid
  <2>1. \A j \in DOMAIN ring : ring[j] # Null <=> Off(A, from, j) < lead
    BY DEF Solid, A, lead
  <2>2. Lead(new, next, to) = lead - 1
    <3>1. to # from => ring[to] = Null
      <4>1. to # from => ~(Off(A, from, to) < lead)
        BY <1>1, <1>4, <1>6, SMT
      <4> QED
        BY <2>1, <4>1
    <3> QED
      BY <1>8, <3>1
  <2>3. CASE k = from
    <3>1. ~(Off(A, next, k) < lead - 1)
      BY <1>1, <1>5, <1>7, <2>3, SMTT(30)
    <3> QED
      BY <1>2, <2>2, <2>3, <3>1
  <2>4. CASE k # from
    <3>1. Off(A, next, k) < lead - 1 <=> Off(A, from, k) < lead
      <4>1. /\ Off(A, next, k) = Off(A, from, k) - 1
            /\ Off(A, from, k) \in 0 .. (A - 1)
        BY <1>1, <1>5, <1>6, <2>4
      <4> QED
        BY <1>1, <1>7, <4>1, SMT
    <3> QED
      BY <1>2, <2>1, <2>2, <2>4, <3>1
  <2> QED
    BY <2>3, <2>4
<1> QED
  BY <1>9, <1>10 DEF new, next

(* An item stored behind the old end of a ring extended at its start.      *)
LEMMA RingGrow ==
  ASSUME NEW S, NEW ring \in Rings(S), NEW from \in DOMAIN ring, Null \in S,
         NEW inc \in Nat, inc > 0, NEW item \in S, item # Null,
         ring[from] # Null, Line(ring, from, 0)
  PROVE  /\ Line(Put(Extended(ring, inc), Alloc(ring), item), from,
                 Advance(Extended(ring, inc), Alloc(ring)))
         /\ Solid(ring, from, 0) =>
              Solid(Put(Extended(ring, inc), Alloc(ring), item), from,
                    Advance(Extended(ring, inc), Alloc(ring)))
         /\ Gains(Put(Extended(ring, inc), Alloc(ring), item), ring, from, item)
<1> DEFINE A == Alloc(ring)
           ext == Extended(ring, inc)
           B == A + inc
           new == Put(ext, A, item)
           next == Advance(ext, A)
<1>1. A \in Nat /\ DOMAIN ring = 0 .. (A - 1) /\ from \in 0 .. (A - 1) /\ from \in Nat
  BY RingFacts, SMT
<1>2. /\ ext \in Rings(S) /\ Alloc(ext) = B
      /\ \A k \in DOMAIN ext : ext[k] = IF k < A THEN ring[k] ELSE Null
  BY ExtendRing
<1>3. B \in Nat /\ B > A /\ DOMAIN ext = 0 .. (B - 1)
  <2>1. DOMAIN ext = 0 .. (Alloc(ext) - 1)
    BY <1>2, RingFacts
  <2> QED
    BY <1>1, <1>2, <2>1, SMT
<1> HIDE DEF ext, B
<1>4. /\ new \in Rings(S) /\ Alloc(new) = B /\ DOMAIN new = 0 .. (B - 1)
      /\ \A k \in DOMAIN ext : new[k] = IF k = A THEN item ELSE ext[k]
  <2>1. /\ new \in Rings(S) /\ Alloc(new) = Alloc(ext) /\ DOMAIN new = DOMAIN ext
        /\ \A k \in DOMAIN ext : new[k] = IF k = A THEN item ELSE ext[k]
    <3>1. A \in Nat /\ ext \in Rings(S)
      BY <1>1, <1>2
    <3> HIDE DEF A
    <3> QED
      BY <3>1, PutRing, SMT
  <2> HIDE DEF new
  <2> QED
    BY <1>2, <1>3, <2>1
<1>5. next = After(B, A)
  <2>1. Alloc(ext) \in Nat /\ A \in 0 .. (Alloc(ext) - 1)
    BY <1>1, <1>2, <1>3, SMT
  <2> HIDE DEF A
  <2> QED
    BY <1>2, <2>1, AdvanceAfter
<1>6. Lead(ring, from, 0) = A - from
  <2>1. from = 0 => Lead(ring, from, 0) = A
    BY DEF Lead
  <2>2. from # 0 => Lead(ring, from, 0) = Off(A, from, 0)
    BY DEF Lead
  <2> HIDE DEF A
  <2> QED
    BY <1>1, <2>1, <2>2, SMT DEF Off
<1>7. /\ \A k \in DOMAIN ring : ring[k] \in Requests => Off(A, from, k) < A - from
      /\ Solid(ring, from, 0) =>
           \A k \in DOMAIN ring : ring[k] # Null <=> Off(A, from, k) < A - from
  BY <1>6 DEF Line, Solid
<1>8. \A k \in DOMAIN ring : (Off(A, from, k) < A - from) <=> k >= from
  <2> HIDE DEF A
  <2> QED
    BY <1>1, SMT DEF Off
<1>9. /\ \A k \in DOMAIN ring : ring[k] \in Requests => k >= from
      /\ Solid(ring, from, 0) => \A k \in DOMAIN ring : ring[k] # Null <=> k >= from
  BY <1>7, <1>8
<1>10. InRing(ext, from) = InRing(ring, from)
  BY <1>9, QueueGrow DEF ext
<1> HIDE DEF A, next
<1>11. ASSUME NEW k \in 0 .. (B - 1)
       PROVE  /\ k < A => k \in DOMAIN ring /\ new[k] = ring[k]
              /\ k = A => new[k] = item
              /\ k > A => new[k] = Null
  BY <1>1, <1>2, <1>3, <1>4, SMTT(30)
<1>12. \A k \in 0 .. (B - 1) :
         (Off(B, from, k) < (A + 1) - from) <=> (k >= from /\ k <= A)
  BY <1>1, <1>3, SMT DEF Off
<1>13. Lead(new, from, next) = (A + 1) - from
  <2>1. new[from] # Null
    BY <1>1, <1>3, <1>11, SMT
  <2>2. /\ next = from => B = (A + 1) - from
        /\ next # from => Off(B, from, next) = (A + 1) - from
    BY <1>1, <1>3, <1>5, SMT DEF After, Off
  <2> QED
    BY <1>4, <2>1, <2>2 DEF Lead
<1>14. Line(new, from, next)
  <2> SUFFICES ASSUME NEW k \in 0 .. (B - 1), new[k] \in Requests
               PROVE  Off(B, from, k) < (A + 1) - from
    BY <1>4, <1>13 DEF Line
  <2>1. k <= A
    BY <1>1, <1>3, <1>11, Sentinels, SMTT(30)
  <2>2. k >= from
    BY <1>1, <1>9, <1>11, <2>1, SMT
  <2> QED
    BY <1>12, <2>1, <2>2
<1>15. Solid(ring, from, 0) => Solid(new, from, next)
  <2> SUFFICES ASSUME Solid(ring, from, 0), NEW k \in 0 .. (B - 1)
               PROVE  new[k] # Null <=> Off(B, from, k) < (A + 1) - from
    BY <1>4, <1>13 DEF Solid
  <2>1. new[k] # Null <=> k >= from /\ k <= A
    BY <1>1, <1>3, <1>9, <1>11, SMTT(30)
  <2> QED
    BY <1>12, <2>1
<1>16. Pointer(from, ext) /\ A \in DOMAIN ext /\ ext[A] = Null
  BY <1>1, <1>2, <1>3, SMT DEF Pointer
<1>17. item \notin Requests => InRing(new, from) = InRing(ext, from)
  <2> SUFFICES ASSUME item \notin Requests PROVE InRing(new, from) = InRing(ext, from)
    OBVIOUS
  <2> HIDE DEF new
  <2>1. \A k \in DOMAIN ext :
          ext[k] \in Requests \/ new[k] \in Requests => new[k] = ext[k]
    BY <1>4, <1>16, Sentinels
  <2>2. DOMAIN new = DOMAIN ext
    BY <1>3, <1>4
  <2> QED
    BY <1>2, <1>4, <1>16, <2>1, <2>2, QueueSame
<1>18. item \in Requests => InRing(new, from) = Append(InRing(ext, from), item)
  <2> SUFFICES ASSUME item \in Requests
               PROVE  InRing(new, from) = Append(InRing(ext, from), item)
    OBVIOUS
  <2>1. ASSUME NEW k \in DOMAIN ext, ext[k] \in Requests
        PROVE  Off(Alloc(ext), from, k) < Off(Alloc(ext), from, A)
    <3>1. k < A /\ k \in DOMAIN ring /\ ring[k] \in Requests
      BY <1>1, <1>2, <1>3, <2>1, Sentinels, SMTT(30)
    <3>2. k >= from
      BY <1>9, <3>1
    <3>3. Off(B, from, k) < Off(B, from, A)
      BY <1>1, <1>3, <3>1, <3>2, SMTT(30) DEF Off
    <3> QED
      BY <1>2, <3>3
  <2>2. ext[A] \notin Requests
    BY <1>16, Sentinels
  <2> QED
    BY <1>2, <1>16, <2>1, <2>2, QueuePut, SMTT(30)
<1>19. Gains(new, ring, from, item)
  BY <1>10, <1>17, <1>18 DEF Gains
<1> HIDE DEF new
<1> QED
  BY <1>14, <1>15, <1>19 DEF new, next, A, ext

-----------------------------------------------------------------------------
(* The steps of the abstract queue.                                        *)

(* What the worker shows of itself while it is intact.                     *)
LEMMA StepSame ==
  ASSUME Intact' <=> Intact,
         Intact => Waiting' = Waiting /\ (Leaving' <=> Leaving) /\ lost' = lost
  PROVE  UNCHANGED Promise!vars
<1>1. (IF Intact THEN Waiting ELSE <<>>)' = (IF Intact THEN Waiting ELSE <<>>)
  OBVIOUS
<1>2. (Intact /\ Leaving)' = (Intact /\ Leaving)
  OBVIOUS
<1>3. (IF Intact THEN lost ELSE {})' = (IF Intact THEN lost ELSE {})
  OBVIOUS
<1>4. Intact' = Intact
  BY DEF Intact
<1> QED
  BY <1>1, <1>2, <1>3, <1>4 DEF Promise!vars

(* A request joins the queue.                                              *)
LEMMA StepAsk ==
  ASSUME Intact, Intact', NEW r \in Requests, r \notin Range(Waiting),
         r \notin lost, Waiting' = Append(Waiting, r), Leaving' <=> Leaving,
         lost' = lost
  PROVE  Promise!Next
<1>1. Promise!Ask(r)
  BY DEF Promise!Ask, Promise!Range, Range, Intact
<1> QED
  BY <1>1 DEF Promise!Next

(* The first one is answered ...                                           *)
LEMMA StepAnswer ==
  ASSUME Intact, Intact', Waiting # <<>>, Waiting' = Tail(Waiting),
         Leaving' <=> Leaving, lost' = lost
  PROVE  Promise!Next
<1>1. Promise!Answer
  BY DEF Promise!Answer, Intact
<1> QED
  BY <1>1 DEF Promise!Next

(* ... or goes to the end of the line.                                     *)
LEMMA StepRetry ==
  ASSUME Intact, Intact', Waiting # <<>>, Head(Waiting) \in Persistent,
         Waiting' = Append(Tail(Waiting), Head(Waiting)),
         Leaving' <=> Leaving, lost' = lost
  PROVE  Promise!Next
<1>1. Promise!Retry
  BY DEF Promise!Retry, Intact
<1> QED
  BY <1>1 DEF Promise!Next

(* The worker is dismissed, or was before.                                 *)
LEMMA StepDismiss ==
  ASSUME Intact, Intact', Waiting = <<>>, Waiting' = <<>>, Leaving', lost = {},
         lost' = {}
  PROVE  Promise!Next \/ UNCHANGED Promise!vars
<1>1. CASE Leaving
  BY <1>1, StepSame
<1>2. CASE ~Leaving
  <2>1. Promise!Dismiss
    BY <1>2 DEF Promise!Dismiss, Intact
  <2> QED
    BY <2>1 DEF Promise!Next
<1> QED
  BY <1>1, <1>2

(* The worker departs.                                                     *)
LEMMA StepDepart ==
  ASSUME Intact, Intact', Leaving, ~Leaving', Waiting' = <<>>,
         lost' = lost \cup Range(Waiting)
  PROVE  Promise!Next
<1>1. Promise!Depart
  BY DEF Promise!Depart, Promise!Range, Range, Intact
<1> QED
  BY <1>1 DEF Promise!Next

(* The promise ends.                                                       *)
LEMMA StepBreak ==
  ASSUME Intact, ~Intact'
  PROVE  Promise!Next
<1>1. Promise!Break
  BY DEF Promise!Break, Intact
<1> QED
  BY <1>1 DEF Promise!Next

-----------------------------------------------------------------------------
(* The queue in four parts.                                                *)

AnswerQ == InRing(responses, next_workresp)
ChildQ == IF WithChild # {} THEN <<child.req>> ELSE <<>>
RequestQ == InRing(workitems, next_workeritem)
ParentQ == IF WithParent # {} THEN <<parent.req>> ELSE <<>>

(* They are queues of requests, and have between them all that are under   *)
(* way.                                                                    *)
LEMMA Parts ==
  ASSUME WorkerInv
  PROVE  /\ Waiting = AnswerQ \o ChildQ \o RequestQ \o ParentQ
         /\ AnswerQ \in Seq(Requests) /\ Range(AnswerQ) = Req(responses)
         /\ ChildQ \in Seq(Requests) /\ Range(ChildQ) = WithChild
         /\ RequestQ \in Seq(Requests) /\ Range(RequestQ) = Req(workitems)
         /\ ParentQ \in Seq(Requests) /\ Range(ParentQ) = WithParent
<1>1. Waiting = AnswerQ \o ChildQ \o RequestQ \o ParentQ
  BY DEF Waiting, AnswerQ, ChildQ, RequestQ, ParentQ
<1>2. /\ AnswerQ \in Seq(Requests) /\ Range(AnswerQ) = Req(responses)
      /\ RequestQ \in Seq(Requests) /\ Range(RequestQ) = Req(workitems)
  BY QueueRange DEF AnswerQ, RequestQ, WorkerInv, Typed
<1>3. \A x \in Requests : /\ <<x>> \in Seq(Requests) /\ Range(<<x>>) = {x}
  BY SMT DEF Range
<1>4. <<>> \in Seq(Requests) /\ Range(<<>>) = {}
  BY SMT DEF Range
<1>5. WithChild = {} \/ (child.req \in Requests /\ WithChild = {child.req})
  BY DEF WithChild
<1>6. WithParent = {} \/ (parent.req \in Requests /\ WithParent = {parent.req})
  BY DEF WithParent
<1>7. ChildQ \in Seq(Requests) /\ Range(ChildQ) = WithChild
  BY <1>3, <1>4, <1>5 DEF ChildQ
<1>8. ParentQ \in Seq(Requests) /\ Range(ParentQ) = WithParent
  BY <1>3, <1>4, <1>6 DEF ParentQ
<1> QED
  BY <1>1, <1>2, <1>7, <1>8

(* A request that moves from the head of one sequence to the end of the one
   before it leaves their join the same.                                   *)
LEMMA MovedOver ==
  ASSUME NEW S, NEW s \in Seq(S), NEW x \in S
  PROVE  Append(s, x) \o <<>> = s \o <<x>>
<1>1. Append(s, x) \in Seq(S) /\ Append(s, x) = s \o <<x>>
  BY SMT
<1>2. \A t \in Seq(S) : t \o <<>> = t
  BY SMT
<1> QED
  BY <1>1, <1>2

(* Joining sequences is associative, and the range is that of both.        *)
LEMMA Joined ==
  ASSUME NEW S, NEW s \in Seq(S), NEW t \in Seq(S), NEW u \in Seq(S)
  PROVE  /\ s \o t \in Seq(S) /\ (s \o t) \o u = s \o (t \o u)
         /\ Range(s \o t) = Range(s) \cup Range(t)
         /\ s \o <<>> = s /\ <<>> \o s = s
<1>1. s \o t \in Seq(S) /\ t \o u \in Seq(S)
  BY SMT
<1>2. (s \o t) \o u = s \o (t \o u)
  BY SMTT(30)
<1>3. s \o <<>> = s /\ <<>> \o s = s
  BY SMT
<1>4. /\ Len(s) \in Nat /\ Len(t) \in Nat /\ DOMAIN s = 1 .. Len(s)
      /\ DOMAIN t = 1 .. Len(t) /\ DOMAIN (s \o t) = 1 .. (Len(s) + Len(t))
  BY SMT
<1>5. \A k \in DOMAIN (s \o t) :
        (s \o t)[k] = IF k <= Len(s) THEN s[k] ELSE t[k - Len(s)]
  BY SMT
<1>6. ASSUME NEW x \in Range(s \o t) PROVE x \in Range(s) \cup Range(t)
  <2>1. PICK k \in DOMAIN (s \o t) : (s \o t)[k] = x
    BY DEF Range
  <2>2. CASE k <= Len(s)
    <3>1. k \in DOMAIN s /\ s[k] = x
      BY <1>4, <1>5, <2>1, <2>2, SMT
    <3> QED
      BY <3>1 DEF Range
  <2>3. CASE ~(k <= Len(s))
    <3>1. k - Len(s) \in DOMAIN t /\ t[k - Len(s)] = x
      BY <1>4, <1>5, <2>1, <2>3, SMT
    <3> QED
      BY <3>1 DEF Range
  <2> QED
    BY <2>2, <2>3
<1>7. ASSUME NEW x \in Range(s) PROVE x \in Range(s \o t)
  <2>1. PICK k \in DOMAIN s : s[k] = x
    BY DEF Range
  <2>2. k \in DOMAIN (s \o t) /\ (s \o t)[k] = x
    BY <1>4, <1>5, <2>1, SMT
  <2> QED
    BY <2>2 DEF Range
<1>8. ASSUME NEW x \in Range(t) PROVE x \in Range(s \o t)
  <2>1. PICK k \in DOMAIN t : t[k] = x
    BY DEF Range
  <2>2. k + Len(s) \in DOMAIN (s \o t) /\ (s \o t)[k + Len(s)] = x
    BY <1>4, <1>5, <2>1, SMT
  <2> QED
    BY <2>2 DEF Range
<1>9. Range(s \o t) = Range(s) \cup Range(t)
  BY <1>6, <1>7, <1>8
<1> QED
  BY <1>1, <1>2, <1>3, <1>9

(* All that wait are under way.                                            *)
LEMMA WaitingRange ==
  ASSUME WorkerInv
  PROVE  Waiting \in Seq(Requests) /\ Range(Waiting) = Underway
<1>1. /\ Waiting = AnswerQ \o ChildQ \o RequestQ \o ParentQ
      /\ AnswerQ \in Seq(Requests) /\ Range(AnswerQ) = Req(responses)
      /\ ChildQ \in Seq(Requests) /\ Range(ChildQ) = WithChild
      /\ RequestQ \in Seq(Requests) /\ Range(RequestQ) = Req(workitems)
      /\ ParentQ \in Seq(Requests) /\ Range(ParentQ) = WithParent
  BY Parts
<1> HIDE DEF AnswerQ, ChildQ, RequestQ, ParentQ
<1>2. /\ AnswerQ \o ChildQ \in Seq(Requests)
      /\ Range(AnswerQ \o ChildQ) = Req(responses) \cup WithChild
  BY <1>1, Joined, SMT
<1> DEFINE two == AnswerQ \o ChildQ
           three == two \o RequestQ
<1>3. two \in Seq(Requests) /\ Range(two) = Req(responses) \cup WithChild
  BY <1>2
<1>4. Waiting = three \o ParentQ
  BY <1>1
<1> HIDE DEF two
<1>5. /\ three \in Seq(Requests)
      /\ Range(three) = (Req(responses) \cup WithChild) \cup Req(workitems)
  BY <1>1, <1>3, Joined, SMTT(30)
<1> HIDE DEF three
<1>6. /\ Waiting \in Seq(Requests)
      /\ Range(Waiting) =
           ((Req(responses) \cup WithChild) \cup Req(workitems)) \cup WithParent
  BY <1>1, <1>4, <1>5, Joined, SMTT(30)
<1> QED
  BY <1>6 DEF Underway, Req

(* Two parts of the queue, one behind the other.                           *)
Cat(s, t) == s \o t

(* Joining the parts is associative.                                       *)
LEMMA Associative ==
  ASSUME NEW S, NEW s \in Seq(S), NEW t \in Seq(S), NEW u \in Seq(S)
  PROVE  Cat(s, t) \in Seq(S) /\ Cat(Cat(s, t), u) = Cat(s, Cat(t, u))
<1>1. s \o t \in Seq(S)
  BY SMT
<1>2. (s \o t) \o u = s \o (t \o u)
  BY SMTT(30)
<1> QED
  BY <1>1, <1>2 DEF Cat

(* The queue rests on the order of its parts, however they are joined: the
   four places a request can be in, from the response ring back to the parent
   that is still queueing it, in pairs or with the first set apart.         *)
LEMMA FourParts ==
  ASSUME NEW S, NEW a \in Seq(S), NEW c \in Seq(S), NEW w \in Seq(S), NEW p \in Seq(S)
  PROVE  /\ Cat(Cat(Cat(a, c), w), p) = Cat(Cat(a, c), Cat(w, p))
         /\ Cat(Cat(Cat(a, c), w), p) = Cat(a, Cat(Cat(c, w), p))
<1>1. ASSUME NEW s \in Seq(S), NEW t \in Seq(S), NEW u \in Seq(S)
      PROVE  Cat(s, t) \in Seq(S) /\ Cat(Cat(s, t), u) = Cat(s, Cat(t, u))
  BY Associative, SMT
<1>2. Cat(a, c) \in Seq(S) /\ Cat(c, w) \in Seq(S)
  BY <1>1
<1>3. /\ Cat(Cat(Cat(a, c), w), p) = Cat(Cat(a, c), Cat(w, p))
      /\ Cat(Cat(a, c), w) = Cat(a, Cat(c, w))
      /\ Cat(Cat(a, Cat(c, w)), p) = Cat(a, Cat(Cat(c, w), p))
  BY <1>1, <1>2, SMT
<1> QED
  BY <1>3

(* Appending to the last part, and taking the first of the first part.     *)
LEMMA EndParts ==
  ASSUME NEW S, NEW s \in Seq(S), NEW t \in Seq(S), NEW x \in S
  PROVE  /\ s \o Append(t, x) = Append(s \o t, x)
         /\ <<x>> \o s # <<>> /\ Head(<<x>> \o s) = x /\ Tail(<<x>> \o s) = s
<1>1. s \o Append(t, x) = Append(s \o t, x)
  BY SMT
<1>2. <<x>> \o s # <<>> /\ Head(<<x>> \o s) = x
  BY SMT
<1>3. Tail(<<x>> \o s) = s
  BY SMT
<1> QED
  BY <1>1, <1>2, <1>3

(* The parts before and after a step.                                      *)
Parted ==
  /\ Waiting = AnswerQ \o ChildQ \o RequestQ \o ParentQ
  /\ AnswerQ \in Seq(Requests) /\ ChildQ \in Seq(Requests)
  /\ RequestQ \in Seq(Requests) /\ ParentQ \in Seq(Requests)

(* They are such in all states of the invariant.                           *)
LEMMA PartedWhen == WorkerInv => Parted
BY Parts DEF Parted

(* A request moves from one part to the next: the queue is the same.       *)
LEMMA PartsMove ==
  ASSUME Parted, Parted',
         \/ /\ AnswerQ' \o ChildQ' = AnswerQ \o ChildQ
            /\ RequestQ' \o ParentQ' = RequestQ \o ParentQ
         \/ /\ AnswerQ' = AnswerQ /\ ParentQ' = ParentQ
            /\ ChildQ' \o RequestQ' = ChildQ \o RequestQ
  PROVE  Waiting' = Waiting
<1> DEFINE a == AnswerQ  c == ChildQ  w == RequestQ  p == ParentQ
           a2 == AnswerQ'  c2 == ChildQ'  w2 == RequestQ'  p2 == ParentQ'
<1>1. /\ a \in Seq(Requests) /\ c \in Seq(Requests)
      /\ w \in Seq(Requests) /\ p \in Seq(Requests)
      /\ Waiting = Cat(Cat(Cat(a, c), w), p)
  BY DEF Parted, Cat
<1>2. /\ a2 \in Seq(Requests) /\ c2 \in Seq(Requests)
      /\ w2 \in Seq(Requests) /\ p2 \in Seq(Requests)
      /\ Waiting' = Cat(Cat(Cat(a2, c2), w2), p2)
  BY DEF Parted, Cat
<1>3. \/ Cat(a2, c2) = Cat(a, c) /\ Cat(w2, p2) = Cat(w, p)
      \/ a2 = a /\ p2 = p /\ Cat(c2, w2) = Cat(c, w)
  BY DEF Cat
<1> HIDE DEF a, c, w, p, a2, c2, w2, p2
<1>4. /\ Waiting = Cat(Cat(a, c), Cat(w, p))
      /\ Waiting = Cat(a, Cat(Cat(c, w), p))
  BY <1>1, FourParts, SMTT(30)
<1>5. /\ Waiting' = Cat(Cat(a2, c2), Cat(w2, p2))
      /\ Waiting' = Cat(a2, Cat(Cat(c2, w2), p2))
  BY <1>2, FourParts, SMT
<1> QED
  BY <1>3, <1>4, <1>5

(* A request joins the last part, the first part loses its first, or both. *)
LEMMA PartsEnd ==
  ASSUME Parted, Parted', NEW r \in Requests, ChildQ' = ChildQ
  PROVE  /\ AnswerQ' = AnswerQ
              /\ RequestQ' \o ParentQ' = Append(RequestQ \o ParentQ, r)
              => Waiting' = Append(Waiting, r)
         /\ AnswerQ = <<r>> \o AnswerQ' =>
              /\ Waiting # <<>> /\ Head(Waiting) = r
              /\ RequestQ' \o ParentQ' = RequestQ \o ParentQ
                   => Waiting' = Tail(Waiting)
              /\ RequestQ' \o ParentQ' = Append(RequestQ \o ParentQ, r)
                   => Waiting' = Append(Tail(Waiting), r)
<1> DEFINE a == AnswerQ  c == ChildQ  w == RequestQ  p == ParentQ
           a2 == AnswerQ'  w2 == RequestQ'  p2 == ParentQ'
<1>1. /\ a \in Seq(Requests) /\ c \in Seq(Requests)
      /\ w \in Seq(Requests) /\ p \in Seq(Requests)
      /\ Waiting = Cat(Cat(Cat(a, c), w), p)
  BY DEF Parted, Cat
<1>2. /\ a2 \in Seq(Requests) /\ w2 \in Seq(Requests) /\ p2 \in Seq(Requests)
      /\ Waiting' = Cat(Cat(Cat(a2, c), w2), p2)
  BY DEF Parted, Cat
<1> HIDE DEF a, c, w, p, a2, w2, p2
<1> DEFINE f == a \o c  l == w \o p  f2 == a2 \o c  l2 == w2 \o p2
<1>3. /\ f \in Seq(Requests) /\ l \in Seq(Requests) /\ Waiting = f \o l
      /\ f2 \in Seq(Requests) /\ l2 \in Seq(Requests) /\ Waiting' = f2 \o l2
  <2>1. Waiting = Cat(Cat(a, c), Cat(w, p))
    BY <1>1, FourParts, SMT
  <2>2. Waiting' = Cat(Cat(a2, c), Cat(w2, p2))
    BY <1>1, <1>2, FourParts, SMT
  <2>3. /\ f \in Seq(Requests) /\ l \in Seq(Requests)
        /\ f2 \in Seq(Requests) /\ l2 \in Seq(Requests)
    BY <1>1, <1>2, SMT
  <2> QED
    BY <2>1, <2>2, <2>3 DEF Cat
<1>4. a = <<r>> \o a2 => f = <<r>> \o f2
  <2>1. <<r>> \in Seq(Requests)
    BY SMT
  <2>2. (<<r>> \o a2) \o c = <<r>> \o (a2 \o c)
    <3>1. a2 \in Seq(Requests) /\ c \in Seq(Requests)
      BY <1>1, <1>2
    <3> QED
      BY <2>1, <3>1, Joined, SMT
  <2> QED
    BY <2>2
<1>5. a2 = a => f2 = f
  OBVIOUS
<1> HIDE DEF f, l, f2, l2
<1>6. ASSUME f2 = f, l2 = Append(l, r) PROVE Waiting' = Append(Waiting, r)
  BY <1>3, <1>6, EndParts, SMTT(30)
<1>7. ASSUME f = <<r>> \o f2
      PROVE  Waiting # <<>> /\ Head(Waiting) = r /\ Tail(Waiting) = f2 \o l
  <2>1. <<r>> \in Seq(Requests) /\ f2 \o l \in Seq(Requests)
    BY <1>3, SMT
  <2>2. (<<r>> \o f2) \o l = <<r>> \o (f2 \o l)
    BY <1>3, <2>1, Joined, SMT
  <2>3. Waiting = <<r>> \o (f2 \o l)
    BY <1>3, <1>7, <2>2
  <2> DEFINE s == f2 \o l
  <2> HIDE DEF s
  <2>4. s \in Seq(Requests) /\ Waiting = <<r>> \o s
    BY <2>1, <2>3 DEF s
  <2> QED
    BY <2>4, EndParts, SMT DEF s
<1>8. ASSUME l2 = Append(l, r) PROVE f2 \o l2 = Append(f2 \o l, r)
  BY <1>3, <1>8, EndParts, SMT
<1> QED
  BY <1>3, <1>4, <1>5, <1>6, <1>7, <1>8 DEF a, a2, w, w2, p, p2, l, l2

-----------------------------------------------------------------------------
(* The request to exit in the ring of requests.                            *)

(* If it is first, another item is next to it, or the writer is.           *)
Second(ring, from, to) ==
  ring[from] = ChildExitReq =>
    ring[Advance(ring, from)] # Null \/ to = Advance(ring, from)

(* It is so after an item was stored where the writer was ...              *)
LEMMA SecondPut ==
  ASSUME NEW ring \in Rings(Items), NEW from \in DOMAIN ring,
         NEW to \in DOMAIN ring, NEW item \in Items, item # Null,
         ring[from] # Null \/ to = from
  PROVE  /\ Put(ring, to, item)[from] # Null
         /\ Second(ring, from, to) =>
              Second(Put(ring, to, item), from, Advance(ring, to))
<1> DEFINE A == Alloc(ring)
           new == Put(ring, to, item)
           next == Advance(ring, from)
<1>1. A \in Nat /\ DOMAIN ring = 0 .. (A - 1) /\ to \in Nat
  BY RingFacts, SMT
<1>2. /\ Alloc(new) = A
      /\ \A k \in DOMAIN ring : new[k] = IF k = to THEN item ELSE ring[k]
  BY <1>1, PutRing, SMT
<1>3. next \in DOMAIN ring
  BY <1>1, AdvanceIs, SMT DEF Pointer
<1>4. Advance(new, from) = next
  BY <1>2 DEF Advance
<1> HIDE DEF new, next
<1>5. new[from] # Null
  BY <1>2
<1>6. ASSUME Second(ring, from, to), new[from] = ChildExitReq
      PROVE  new[next] # Null \/ Advance(ring, to) = next
  <2>1. CASE to = from
    BY <2>1 DEF next
  <2>2. CASE to # from
    <3>1. ring[from] = ChildExitReq
      BY <1>2, <1>6, <2>2
    <3>2. ring[next] # Null \/ to = next
      BY <1>6, <3>1 DEF Second, next
    <3> QED
      BY <1>2, <1>3, <3>2
  <2> QED
    BY <2>1, <2>2
<1>7. Second(ring, from, to) => Second(new, from, Advance(ring, to))
  BY <1>4, <1>6 DEF Second
<1> QED
  BY <1>5, <1>7 DEF new

(* ... or where an extended ring has its first new slot ...                *)
LEMMA SecondGrow ==
  ASSUME NEW ring \in Rings(Items), NEW from \in DOMAIN ring, NEW inc \in Nat,
         inc > 0, NEW item \in Items, item # Null, ring[from] # Null
  PROVE  /\ Put(Extended(ring, inc), Alloc(ring), item)[from] # Null
         /\ Second(ring, from, 0) =>
              Second(Put(Extended(ring, inc), Alloc(ring), item), from,
                     Advance(Extended(ring, inc), Alloc(ring)))
<1> DEFINE A == Alloc(ring)
           ext == Extended(ring, inc)
           new == Put(ext, A, item)
<1>1. A \in Nat /\ DOMAIN ring = 0 .. (A - 1) /\ from \in 0 .. (A - 1)
  BY RingFacts
<1>2. /\ ext \in Rings(Items) /\ Alloc(ext) = A + inc
      /\ DOMAIN ext = 0 .. (A + inc - 1)
      /\ \A k \in DOMAIN ext : ext[k] = IF k < A THEN ring[k] ELSE Null
  BY ExtendRing, Sentinels
<1>3. Advance(ring, from) = After(A, from)
  BY <1>1, AdvanceAfter
<1> HIDE DEF A, ext
<1>4. /\ Alloc(new) = A + inc
      /\ \A k \in DOMAIN ext : new[k] = IF k = A THEN item ELSE ext[k]
  <2>1. ext \in Rings(Items) /\ A \in Nat /\ item \in Items
    BY <1>1, <1>2
  <2>2. /\ Alloc(new) = Alloc(ext)
        /\ \A k \in DOMAIN ext : new[k] = IF k = A THEN item ELSE ext[k]
    BY <2>1, PutRing, SMT
  <2> QED
    BY <1>2, <2>2
<1> HIDE DEF new
<1>5. \A k \in DOMAIN ring : new[k] = ring[k]
  BY <1>1, <1>2, <1>4, SMTT(30)
<1>6. new[A] = item
  BY <1>1, <1>2, <1>4, SMTT(30)
<1>7. Advance(new, from) = from + 1
  <2>1. Alloc(new) \in Nat /\ from \in Nat /\ from + 1 < Alloc(new)
    BY <1>1, <1>4, SMT
  <2> QED
    BY <2>1, AdvanceIs, SMTT(30)
<1>8. ASSUME Second(ring, from, 0), ring[from] = ChildExitReq
      PROVE  new[from + 1] # Null
  <2>1. CASE from + 1 = A
    BY <1>6, <2>1
  <2>2. CASE from + 1 # A
    <3>1. Advance(ring, from) = from + 1 /\ from + 1 \in DOMAIN ring /\ from + 1 # 0
      BY <1>1, <1>3, <2>2, SMTT(30) DEF After
    <3>2. ring[from + 1] # Null
      BY <1>8, <3>1 DEF Second
    <3> QED
      BY <1>5, <3>1, <3>2
  <2> QED
    BY <2>1, <2>2
<1>9. new[from] = ring[from]
  BY <1>5
<1>10. Second(ring, from, 0) => Second(new, from, Advance(ext, A))
  <2> SUFFICES ASSUME Second(ring, from, 0) PROVE Second(new, from, Advance(ext, A))
    OBVIOUS
  <2>1. new[from] = ChildExitReq => new[from + 1] # Null
    BY <1>8, <1>9
  <2> QED
    BY <1>7, <2>1 DEF Second
<1> QED
  BY <1>9, <1>10 DEF new, ext, A

(* ... and then the next reader has an item, or the writer is there.       *)
LEMMA SecondTake ==
  ASSUME NEW ring \in Rings(Items), NEW from \in DOMAIN ring,
         NEW to \in DOMAIN ring, ring[from] = ChildExitReq,
         Second(ring, from, to)
  PROVE  \/ Put(ring, from, Null)[Advance(ring, from)] # Null
         \/ to = Advance(ring, from)
<1> DEFINE A == Alloc(ring)
           new == Put(ring, from, Null)
           next == Advance(ring, from)
<1>1. A \in Nat /\ DOMAIN ring = 0 .. (A - 1) /\ from \in Nat
  BY RingFacts, SMT
<1>2. \A k \in DOMAIN ring : new[k] = IF k = from THEN Null ELSE ring[k]
  BY <1>1, PutRing, Sentinels, SMT
<1>3. next = After(A, from)
  BY <1>1, AdvanceAfter
<1>4. ring[next] # Null \/ to = next
  BY DEF Second
<1> HIDE DEF new, next, A
<1>5. CASE next = from
  <2>1. A = 1
    BY <1>1, <1>3, <1>5, SMT DEF After
  <2> QED
    BY <1>1, <1>3, <2>1, SMT DEF After, next
<1>6. CASE next # from
  <2>1. next \in DOMAIN ring
    BY <1>1, <1>3, SMT DEF After
  <2>2. new[next] = ring[next]
    BY <1>2, <1>6, <2>1
  <2> QED
    BY <1>4, <2>2 DEF new, next
<1> QED
  BY <1>5, <1>6

(* A ring with requests only.                                              *)
LEMMA SecondEven ==
  ASSUME NEW ring \in Rings(Items), NEW from \in DOMAIN ring, NEW to, NEW n,
         Even(ring, from, to, n)
  PROVE  /\ ring[from] # Null \/ to = from
         /\ Second(ring, from, to)
<1> DEFINE A == Alloc(ring)
<1>1. A \in Nat /\ DOMAIN ring = 0 .. (A - 1) /\ from \in 0 .. (A - 1)
  BY RingFacts
<1>2. /\ n \in 0 .. A /\ to = Slot(A, from, n)
      /\ IF Off(A, from, from) < n THEN ring[from] \in Requests ELSE ring[from] = Null
  BY DEF Even
<1> HIDE DEF A
<1>3. Off(A, from, from) = 0
  BY <1>1, SMT DEF Off
<1>4. n = 0 => to = from
  BY <1>1, <1>2, SMT DEF Slot
<1>5. n # 0 => ring[from] \in Requests
  BY <1>1, <1>2, <1>3, SMT
<1>6. ring[from] # ChildExitReq
  BY <1>2, Sentinels
<1> QED
  BY <1>4, <1>5, <1>6, Sentinels DEF Second

(* An empty ring is in line.                                               *)
LEMMA EmptyLine ==
  ASSUME NEW S, NEW ring \in Rings(S), \A k \in DOMAIN ring : ring[k] = Null
  PROVE  /\ Pointer(0, ring) /\ Req(ring) = {} /\ InRing(ring, 0) = <<>>
         /\ Alloc(ring) > 0 =>
              /\ 0 \in DOMAIN ring /\ ring[0] = Null
              /\ Line(ring, 0, 0) /\ Second(ring, 0, 0) /\ Solid(ring, 0, 0)
<1> DEFINE A == Alloc(ring)
<1>1. A \in Nat /\ DOMAIN ring = 0 .. (A - 1)
  BY RingFacts
<1>2. Pointer(0, ring)
  BY <1>1, SMT DEF Pointer
<1>3. Req(ring) = {}
  BY Sentinels DEF Req, Range
<1>4. InRing(ring, 0) = <<>>
  BY <1>2, <1>3, QueueEmpty
<1>5. ASSUME A > 0
      PROVE  /\ 0 \in DOMAIN ring /\ ring[0] = Null
             /\ Line(ring, 0, 0) /\ Second(ring, 0, 0) /\ Solid(ring, 0, 0)
  <2>1. 0 \in DOMAIN ring
    BY <1>1, <1>5, SMT
  <2>2. ring[0] = Null /\ Null # ChildExitReq /\ Null \notin Requests
    BY <2>1, Sentinels
  <2>3. Lead(ring, 0, 0) = Off(A, 0, 0)
    BY <2>2 DEF Lead
  <2> HIDE DEF A
  <2>4. \A k \in DOMAIN ring : ~(Off(A, 0, k) < Off(A, 0, 0))
    BY <1>1, SMT DEF Off
  <2>5. Solid(ring, 0, 0)
    BY <2>3, <2>4 DEF Solid, A
  <2> QED
    BY <2>1, <2>2, <2>5 DEF Line, Second
<1> QED
  BY <1>2, <1>3, <1>4, <1>5

(* What else a ring has in it besides requests.                            *)
LEMMA PutOther ==
  ASSUME NEW S, NEW ring \in Rings(S), NEW at \in DOMAIN ring, NEW item \in S,
         NEW x, x # ring[at]
  PROVE  x \in Range(Put(ring, at, item)) <=> x \in Range(ring) \/ x = item
<1> DEFINE new == Put(ring, at, item)
<1>1. at \in Nat
  BY RingFacts, SMT
<1>2. /\ DOMAIN new = DOMAIN ring
      /\ \A k \in DOMAIN ring : new[k] = IF k = at THEN item ELSE ring[k]
  BY <1>1, PutRing, SMT
<1> HIDE DEF new
<1>3. x \in Range(new) <=> x \in Range(ring) \/ x = item
  BY <1>2 DEF Range
<1> QED
  BY <1>3 DEF new

(* Extending a ring brings in nothing.                                     *)
LEMMA ExtendOther ==
  ASSUME NEW S, NEW ring \in Rings(S), Null \in S, NEW inc \in Nat, NEW x, x # Null
  PROVE  x \in Range(Extended(ring, inc)) <=> x \in Range(ring)
<1> DEFINE A == Alloc(ring)
           ext == Extended(ring, inc)
<1>1. A \in Nat /\ DOMAIN ring = 0 .. (A - 1)
  BY RingFacts
<1>2. /\ DOMAIN ext = 0 .. (A + inc - 1)
      /\ \A k \in DOMAIN ext : ext[k] = IF k < A THEN ring[k] ELSE Null
  BY ExtendRing
<1> HIDE DEF ext, A
<1>3. \A k \in DOMAIN ring : k \in DOMAIN ext /\ ext[k] = ring[k]
  BY <1>1, <1>2, SMTT(30)
<1>4. \A k \in DOMAIN ext : ext[k] # Null => k \in DOMAIN ring
  BY <1>1, <1>2, SMTT(30)
<1> QED
  BY <1>3, <1>4 DEF Range, ext

(* The requests lie between the reader and the writer, and the reader has  *)
(* the first item before it, or none.                                      *)
Ahead(ring, from, to) == Line(ring, from, to) /\ (ring[from] # Null \/ to = from)

(* The first request for a new child: the ring has no other in it, and     *)
(* either is empty or has an old ChildExitReq at its start.                *)
LEMMA FirstRequest ==
  ASSUME NEW w \in Rings(Items), NEW to, Pointer(to, w), NEW r \in Requests,
         Req(w) = {}, NEW ring, NEW at, NEW new, NEW next
  PROVE  (/\ Alloc(w) > 0 => Ahead(w, 0, to) /\ Second(w, 0, to)
          /\ Full(w, to) => to = 0
          /\ ring = IF Full(w, to) THEN Extended(w, WorkInc) ELSE w
          /\ at = IF Full(w, to) THEN ExtendedAt(w, to) ELSE to
          /\ new = Put(ring, at, r) /\ next = Advance(ring, at))
         => /\ Line(new, 0, next) /\ new[0] # Null /\ Second(new, 0, next)
            /\ InRing(new, 0) = Append(<<>>, r)
            /\ ChildExitReq \in Range(new) <=> ChildExitReq \in Range(w)
<1>0. SUFFICES ASSUME Alloc(w) > 0 => Ahead(w, 0, to) /\ Second(w, 0, to),
                      Full(w, to) => to = 0,
                      ring = IF Full(w, to) THEN Extended(w, WorkInc) ELSE w,
                      at = IF Full(w, to) THEN ExtendedAt(w, to) ELSE to,
                      new = Put(ring, at, r), next = Advance(ring, at)
               PROVE  /\ Line(new, 0, next) /\ new[0] # Null /\ Second(new, 0, next)
                      /\ InRing(new, 0) = Append(<<>>, r)
                      /\ ChildExitReq \in Range(new) <=> ChildExitReq \in Range(w)
  OBVIOUS
<1>1. /\ Alloc(w) \in Nat /\ DOMAIN w = 0 .. (Alloc(w) - 1) /\ Pointer(0, w)
      /\ Alloc(w) > 0 => 0 \in DOMAIN w /\ to \in DOMAIN w
  BY RingFacts, SMT DEF Pointer
<1>2. InRing(w, 0) = <<>>
  BY <1>1, QueueEmpty
<1>3. /\ r \in Items /\ r # Null /\ Null \in Items /\ ChildExitReq # Null
      /\ r # ChildExitReq
  BY Sentinels
<1>4. CASE Alloc(w) = 0
  <2>1. Full(w, to) /\ at = 0 /\ ring = Extended(w, WorkInc)
    BY <1>0, <1>1, <1>4 DEF Full, ExtendedAt
  <2>2. /\ ring \in Rings(Items) /\ Alloc(ring) > 0
        /\ \A k \in DOMAIN ring : ring[k] = Null
    <3>1. WorkInc \in Nat /\ WorkInc > 0
      BY Increments
    <3>2. /\ ring \in Rings(Items) /\ Alloc(ring) = Alloc(w) + WorkInc
          /\ DOMAIN ring = 0 .. (Alloc(w) + WorkInc - 1)
          /\ \A k \in DOMAIN ring : ring[k] = IF k < Alloc(w) THEN w[k] ELSE Null
      <4> DEFINE ext == Extended(w, WorkInc)
      <4>1. /\ ext \in Rings(Items) /\ Alloc(ext) = Alloc(w) + WorkInc
            /\ DOMAIN ext = 0 .. (Alloc(w) + WorkInc - 1)
            /\ \A k \in DOMAIN ext : ext[k] = IF k < Alloc(w) THEN w[k] ELSE Null
        BY <1>3, <3>1, ExtendRing
      <4>2. ring = ext
        BY <2>1
      <4> HIDE DEF ext
      <4> QED
        BY <4>1, <4>2
    <3>3. Alloc(ring) > 0
      BY <1>4, <3>1, <3>2, SMTT(30)
    <3>4. \A k \in DOMAIN ring : ~(k < Alloc(w))
      BY <1>4, <3>1, <3>2, SMTT(30)
    <3> QED
      BY <3>2, <3>3, <3>4
  <2>3. /\ 0 \in DOMAIN ring /\ ring[0] = Null /\ InRing(ring, 0) = <<>>
        /\ Line(ring, 0, 0) /\ Second(ring, 0, 0)
    BY <2>2, EmptyLine
  <2>4. ChildExitReq \in Range(Put(ring, 0, r)) <=> ChildExitReq \in Range(ring)
    BY <1>3, <2>2, <2>3, PutOther, SMTT(30)
  <2>5. ChildExitReq \in Range(ring) <=> ChildExitReq \in Range(w)
    BY <1>3, <2>1, ExtendOther, Increments
  <2>6. /\ Line(Put(ring, 0, r), 0, Advance(ring, 0))
        /\ Put(ring, 0, r)[0] # Null
        /\ InRing(Put(ring, 0, r), 0) = Append(InRing(ring, 0), r)
    <3>1. /\ Line(Put(ring, 0, r), 0, Advance(ring, 0))
          /\ Put(ring, 0, r)[0] # Null /\ Gains(Put(ring, 0, r), ring, 0, r)
      BY <1>3, <2>2, <2>3, RingPut
    <3> QED
      BY <3>1 DEF Gains
  <2>7. Second(Put(ring, 0, r), 0, Advance(ring, 0))
    BY <1>3, <2>2, <2>3, SecondPut
  <2> QED
    BY <1>0, <2>1, <2>3, <2>4, <2>5, <2>6, <2>7
<1>5. CASE Alloc(w) > 0 /\ Full(w, to)
  <2>1. w[0] # Null /\ to = 0 /\ at = Alloc(w) /\ ring = Extended(w, WorkInc)
    BY <1>0, <1>1, <1>5, SMTT(30) DEF Full, ExtendedAt
  <2>2. 0 \in DOMAIN w /\ w[0] # Null /\ Line(w, 0, 0) /\ Second(w, 0, 0)
    BY <1>0, <1>1, <1>5, <2>1 DEF Ahead
  <2>3. WorkInc \in Nat /\ WorkInc > 0
    BY Increments
  <2> DEFINE ext == Extended(w, WorkInc)
             big == Put(ext, Alloc(w), r)
  <2>4. /\ Line(big, 0, Advance(ext, Alloc(w)))
        /\ InRing(big, 0) = Append(InRing(w, 0), r)
    <3>1. Line(big, 0, Advance(ext, Alloc(w))) /\ Gains(big, w, 0, r)
      BY <1>3, <2>2, <2>3, RingGrow
    <3> QED
      BY <3>1 DEF Gains
  <2>5. big[0] # Null /\ Second(big, 0, Advance(ext, Alloc(w)))
    BY <1>3, <2>2, <2>3, SecondGrow
  <2>6. ext \in Rings(Items) /\ Alloc(w) \in DOMAIN ext /\ ext[Alloc(w)] = Null
    <3>1. /\ ext \in Rings(Items) /\ DOMAIN ext = 0 .. (Alloc(w) + WorkInc - 1)
          /\ \A k \in DOMAIN ext : ext[k] = IF k < Alloc(w) THEN w[k] ELSE Null
      BY <1>3, <2>3, ExtendRing
    <3> HIDE DEF ext
    <3> QED
      BY <1>1, <2>3, <3>1, SMTT(30)
  <2>7. ChildExitReq \in Range(ext) <=> ChildExitReq \in Range(w)
    BY <1>3, <2>3, ExtendOther
  <2> HIDE DEF ext
  <2>8. ChildExitReq \in Range(big) <=> ChildExitReq \in Range(ext)
    BY <1>3, <2>6, PutOther, SMTT(30)
  <2> QED
    BY <1>0, <1>2, <2>1, <2>4, <2>5, <2>7, <2>8 DEF ext
<1>6. CASE Alloc(w) > 0 /\ ~Full(w, to)
  <2>1. w[to] = Null /\ at = to /\ ring = w
    BY <1>0, <1>1, <1>6 DEF Full
  <2>2. /\ 0 \in DOMAIN w /\ to \in DOMAIN w /\ Line(w, 0, to) /\ Second(w, 0, to)
        /\ w[to] = Null /\ (w[0] # Null \/ to = 0)
    BY <1>0, <1>1, <1>6, <2>1 DEF Ahead
  <2>3. /\ Line(Put(w, to, r), 0, Advance(w, to))
        /\ Put(w, to, r)[0] # Null
        /\ InRing(Put(w, to, r), 0) = Append(InRing(w, 0), r)
    <3>1. /\ Line(Put(w, to, r), 0, Advance(w, to))
          /\ Put(w, to, r)[0] # Null /\ Gains(Put(w, to, r), w, 0, r)
      BY <1>3, <2>2, RingPut
    <3> QED
      BY <3>1 DEF Gains
  <2>4. Second(Put(w, to, r), 0, Advance(w, to))
    BY <1>3, <2>2, SecondPut, ZenonT(40)
  <2>5. ChildExitReq \in Range(Put(w, to, r)) <=> ChildExitReq \in Range(w)
    BY <1>3, <2>1, <2>2, PutOther, SMTT(30)
  <2> QED
    BY <1>0, <1>2, <2>1, <2>3, <2>4, <2>5
<1> QED
  BY <1>1, <1>4, <1>5, <1>6, SMTT(30)

=============================================================================
