---------------------------- MODULE WorkerProofs ----------------------------
(***************************************************************************)
(* Proofs about the blocking worker: that its counter of pending requests  *)
(* is exact, that its idle timer never runs with a request pending, and    *)
(* that its semaphore never lets the child past an empty slot.             *)
(***************************************************************************)
EXTENDS Worker, FiniteSetTheorems, TLAPS

(* Zenon is the default prover of the leaves below; those that need arithmetic
   or that only the SMT solver finds cite SMT.                              *)
USE Zenon

-----------------------------------------------------------------------------
(* Rings.                                                                  *)

Rings(S) == UNION {[0 .. (n - 1) -> S] : n \in Nat}
Put(ring, at, item) == [ring EXCEPT ![at] = item]
Req(ring) == Range(ring) \cap Requests
Once(ring) ==
  \A i, j \in DOMAIN ring : ring[i] = ring[j] /\ ring[i] \in Requests => i = j
Pointer(next, ring) ==
  next \in Nat /\ (IF Alloc(ring) = 0 THEN next = 0 ELSE next < Alloc(ring))

(* The sentinels are no requests, and differ.                              *)
LEMMA Sentinels ==
  /\ Null \notin Requests /\ ChildExitReq \notin Requests
  /\ ChildGoneResp \notin Requests
  /\ Null # ChildExitReq /\ Null # ChildGoneResp
  /\ Null \in Items /\ ChildExitReq \in Items /\ Requests \subseteq Items
  /\ Null \in Responses /\ ChildGoneResp \in Responses
  /\ Requests \subseteq Responses
BY WorkerConstants DEF Null, ChildExitReq, ChildGoneResp, Items, Responses

(* The increments are positive.                                            *)
LEMMA Increments ==
  /\ WorkInc \in Nat /\ WorkInc > 0 /\ RespInc \in Nat /\ RespInc > 0
BY WorkerConstants, SMT

(* The allocation of a function on 0 .. n - 1 is n.                        *)
LEMMA RingAlloc ==
  ASSUME NEW S, NEW n \in Nat, NEW ring \in [0 .. (n - 1) -> S]
  PROVE  Alloc(ring) = n /\ ring \in Rings(S)
<1>1. Cardinality(0 .. (n - 1)) = n
  BY FS_Interval, SMT
<1> QED
  BY <1>1 DEF Alloc, Rings

(* A ring is a function on the slots below its allocation.                 *)
LEMMA RingFacts ==
  ASSUME NEW S, NEW ring \in Rings(S)
  PROVE  /\ Alloc(ring) \in Nat
         /\ ring \in [0 .. (Alloc(ring) - 1) -> S]
         /\ DOMAIN ring = 0 .. (Alloc(ring) - 1)
<1>1. PICK n \in Nat : ring \in [0 .. (n - 1) -> S]
  BY DEF Rings
<1> QED
  BY <1>1, RingAlloc

(* An empty ring.                                                          *)
LEMMA EmptyRing ==
  ASSUME NEW S, Null \in S, NEW n \in Nat
  PROVE  /\ Ring(n) \in Rings(S) /\ Alloc(Ring(n)) = n
         /\ Req(Ring(n)) = {} /\ Once(Ring(n))
         /\ \A i \in DOMAIN Ring(n) : Ring(n)[i] = Null
<1>1. Ring(n) \in [0 .. (n - 1) -> S]
  BY DEF Ring
<1>2. \A i \in DOMAIN Ring(n) : Ring(n)[i] = Null
  BY DEF Ring
<1> QED
  BY <1>1, <1>2, RingAlloc, Sentinels DEF Req, Range, Once

(* Storing in a slot: the ring keeps its length.                           *)
LEMMA PutRing ==
  ASSUME NEW S, NEW ring \in Rings(S), NEW at \in Nat, NEW item \in S
  PROVE  /\ Put(ring, at, item) \in Rings(S)
         /\ Alloc(Put(ring, at, item)) = Alloc(ring)
         /\ DOMAIN Put(ring, at, item) = DOMAIN ring
         /\ \A i \in DOMAIN ring :
              Put(ring, at, item)[i] = IF i = at THEN item ELSE ring[i]
<1>1. /\ Alloc(ring) \in Nat
      /\ ring \in [0 .. (Alloc(ring) - 1) -> S]
      /\ DOMAIN ring = 0 .. (Alloc(ring) - 1)
  BY RingFacts
<1> DEFINE n == Alloc(ring)
<1>2. n \in Nat /\ ring \in [0 .. (n - 1) -> S] /\ DOMAIN ring = 0 .. (n - 1)
  BY <1>1
<1> HIDE DEF n
<1>3. Put(ring, at, item) \in [0 .. (n - 1) -> S]
  BY <1>2 DEF Put
<1>4. Alloc(Put(ring, at, item)) = n /\ Put(ring, at, item) \in Rings(S)
  BY <1>2, <1>3, RingAlloc
<1>5. \A i \in DOMAIN ring :
        Put(ring, at, item)[i] = IF i = at THEN item ELSE ring[i]
  BY <1>2 DEF Put
<1>6. DOMAIN Put(ring, at, item) = DOMAIN ring
  BY DEF Put
<1> QED
  BY <1>4, <1>5, <1>6 DEF n

(* An extended ring: the old slots and new empty ones.                     *)
LEMMA ExtendRing ==
  ASSUME NEW S, Null \in S, NEW ring \in Rings(S), NEW inc \in Nat
  PROVE  /\ Extended(ring, inc) \in Rings(S)
         /\ Alloc(Extended(ring, inc)) = Alloc(ring) + inc
         /\ DOMAIN Extended(ring, inc) = 0 .. (Alloc(ring) + inc - 1)
         /\ \A i \in DOMAIN Extended(ring, inc) :
              Extended(ring, inc)[i] = IF i < Alloc(ring) THEN ring[i] ELSE Null
         /\ Req(Extended(ring, inc)) = Req(ring)
         /\ Once(ring) => Once(Extended(ring, inc))
<1> DEFINE n == Alloc(ring)
           new == Extended(ring, inc)
<1>1. n \in Nat /\ ring \in [0 .. (n - 1) -> S] /\ DOMAIN ring = 0 .. (n - 1)
  BY RingFacts
<1>2. new = [i \in 0 .. (n + inc - 1) |-> IF i < n THEN ring[i] ELSE Null]
  BY DEF Extended
<1> HIDE DEF n
<1>3. /\ DOMAIN new = 0 .. (n + inc - 1)
      /\ \A i \in DOMAIN new : new[i] = IF i < n THEN ring[i] ELSE Null
  BY <1>2
<1>4. new \in [0 .. (n + inc - 1) -> S]
  BY <1>1, <1>2, SMT
<1> HIDE DEF new
<1>5. Alloc(new) = n + inc /\ new \in Rings(S)
  BY <1>1, <1>4, RingAlloc, SMT
<1>6. \A x \in Requests : (\E i \in DOMAIN new : new[i] = x)
                            <=> (\E i \in DOMAIN ring : ring[i] = x)
  BY <1>1, <1>3, Sentinels, SMT
<1>7. Req(new) = Req(ring)
  BY <1>6 DEF Req, Range
<1>8. Once(ring) => Once(new)
  BY <1>1, <1>3, Sentinels, SMT DEF Once
<1> QED
  BY <1>3, <1>5, <1>7, <1>8 DEF n, new

(* Storing something new where no request is adds it; elsewhere it may     *)
(* replace a request.                                                      *)
LEMMA PutReq ==
  ASSUME NEW S, NEW ring \in Rings(S), NEW at \in DOMAIN ring, NEW item \in S,
         item \notin Req(ring), Once(ring)
  PROVE  /\ Once(Put(ring, at, item))
         /\ Req(Put(ring, at, item)) \subseteq Req(ring) \cup ({item} \cap Requests)
         /\ ring[at] \notin Requests =>
              Req(Put(ring, at, item)) = Req(ring) \cup ({item} \cap Requests)
<1> DEFINE new == Put(ring, at, item)
<1>1. DOMAIN ring \subseteq Nat
  BY RingFacts, SMT
<1>2. /\ DOMAIN new = DOMAIN ring
      /\ \A i \in DOMAIN ring : new[i] = IF i = at THEN item ELSE ring[i]
  BY <1>1, PutRing, SMT
<1> HIDE DEF new
<1>3. \A i \in DOMAIN ring : item \in Requests => ring[i] # item
  BY DEF Req, Range
<1>4. Once(new)
  BY <1>2, <1>3 DEF Once
<1>5. Req(new) \subseteq Req(ring) \cup ({item} \cap Requests)
  BY <1>2 DEF Req, Range
<1>6. ASSUME ring[at] \notin Requests
      PROVE  Req(new) = Req(ring) \cup ({item} \cap Requests)
  <2>1. ASSUME NEW x \in Req(ring) PROVE x \in Req(new)
    <3>1. PICK i \in DOMAIN ring : ring[i] = x /\ x \in Requests
      BY <2>1 DEF Req, Range
    <3>2. new[i] = x
      BY <1>2, <1>6, <3>1
    <3> QED
      BY <1>2, <3>1, <3>2 DEF Req, Range
  <2>2. item \in Requests => item \in Req(new)
    BY <1>2 DEF Req, Range
  <2> QED
    BY <1>5, <2>1, <2>2
<1> QED
  BY <1>4, <1>5, <1>6 DEF new

(* Clearing a slot takes out the request it held.                          *)
LEMMA ClearReq ==
  ASSUME NEW S, NEW ring \in Rings(S), NEW at \in DOMAIN ring, Null \in S,
         Once(ring)
  PROVE  /\ Once(Put(ring, at, Null))
         /\ Req(Put(ring, at, Null)) = Req(ring) \ {ring[at]}
         /\ ring[at] \in Requests => ring[at] \in Req(ring)
<1> DEFINE new == Put(ring, at, Null)
<1>1. DOMAIN ring \subseteq Nat
  BY RingFacts, SMT
<1>2. /\ DOMAIN new = DOMAIN ring
      /\ \A i \in DOMAIN ring : new[i] = IF i = at THEN Null ELSE ring[i]
  BY <1>1, PutRing, SMT
<1> HIDE DEF new
<1>3. Once(new)
  BY <1>2, Sentinels DEF Once
<1>4. ASSUME NEW x PROVE x \in Req(new) <=> x \in Req(ring) \ {ring[at]}
  <2>1. ASSUME x \in Req(new) PROVE x \in Req(ring) \ {ring[at]}
    <3>1. PICK i \in DOMAIN ring : new[i] = x /\ x \in Requests
      BY <1>2, <2>1 DEF Req, Range
    <3>2. i # at /\ ring[i] = x
      BY <1>2, <3>1, Sentinels
    <3>3. ring[at] # x
      BY <3>1, <3>2 DEF Once
    <3> QED
      BY <3>1, <3>2, <3>3 DEF Req, Range
  <2>2. ASSUME x \in Req(ring) \ {ring[at]} PROVE x \in Req(new)
    <3>1. PICK i \in DOMAIN ring : ring[i] = x /\ x \in Requests
      BY <2>2 DEF Req, Range
    <3>2. i # at /\ new[i] = x
      BY <1>2, <2>2, <3>1
    <3> QED
      BY <1>2, <3>1, <3>2 DEF Req, Range
  <2> QED
    BY <2>1, <2>2
<1>5. Req(new) = Req(ring) \ {ring[at]}
  BY <1>4
<1>6. ring[at] \in Requests => ring[at] \in Req(ring)
  BY DEF Req, Range
<1> QED
  BY <1>3, <1>5, <1>6 DEF new

(* The place after the last slot is the first one.                         *)
LEMMA AdvanceIs ==
  ASSUME NEW ring, NEW next \in Nat, Alloc(ring) \in Nat, next < Alloc(ring)
  PROVE  /\ Advance(ring, next) =
              IF next + 1 = Alloc(ring) THEN 0 ELSE next + 1
         /\ Pointer(Advance(ring, next), ring)
<1> DEFINE n == Alloc(ring)
<1>1. n \in Nat \ {0} /\ next < n /\ Advance(ring, next) = (next + 1) % n
  BY SMT DEF Advance
<1> HIDE DEF n
<1>2. next + 1 = n => (next + 1) % n = 0
  BY <1>1, SMT
<1>3. next + 1 # n => (next + 1) % n = next + 1
  BY <1>1, SMT
<1> QED
  BY <1>1, <1>2, <1>3, SMT DEF n, Pointer

-----------------------------------------------------------------------------
(* The invariant behind the counter.                                       *)

Parents ==
  [pc : {"idle", "read", "look", "grow"}, req : Requests \cup {Null},
   copy : Rings(Items), after : {"idle", "read"}]
Children ==
  [pc : {"none", "wait", "work", "grow", "write"},
   req : Requests \cup {Null, ChildGoneResp}, copy : Rings(Responses)]

Typed ==
  /\ workitems \in Rings(Items) /\ responses \in Rings(Responses)
  /\ Pointer(next_workitem, workitems) /\ Pointer(next_workeritem, workitems)
  /\ Pointer(next_response, responses) /\ Pointer(next_workresp, responses)
  /\ blocking_req_ready \in Nat /\ pipe \in Nat /\ intres_req_pending \in Nat
  /\ thread_ref \in BOOLEAN /\ reusable \in BOOLEAN
  /\ worker_idle_timer \in BOOLEAN /\ stray \in BOOLEAN /\ aborted \in BOOLEAN
  /\ parent \in Parents /\ child \in Children
  /\ lost \subseteq Requests
  /\ damage \in {"none", "lapped", "raced"}

(* A thread that extends a ring has a copy of the ring's length, in which  *)
(* the slot it wants is taken; the child holds something from when it      *)
(* takes a request until it has written its byte; without a child there is *)
(* nothing in the rings to do.                                             *)
Growing ==
  /\ parent.pc = "grow" =>
       /\ parent.req \in Requests /\ DOMAIN parent.copy = DOMAIN workitems
       /\ parent.copy[next_workitem] # Null
  /\ child.pc = "grow" =>
       /\ DOMAIN child.copy = DOMAIN responses
       /\ child.copy[next_response] # Null
Holding ==
  /\ child.pc \in {"work", "grow", "write"} <=> child.req # Null
  /\ thread_ref => Alloc(workitems) > 0 /\ Alloc(responses) > 0
  /\ worker_idle_timer => Alloc(workitems) > 0
Childless ==
  ~thread_ref =>
    /\ child = Gone /\ parent.pc = "idle"
    /\ Req(workitems) = {} /\ Req(responses) = {}

(* Five places a request can be in, no two of them at once.                *)
Places(R, C, W, P, L) ==
  /\ R \cap C = {} /\ R \cap W = {} /\ R \cap P = {} /\ R \cap L = {}
  /\ C \cap W = {} /\ C \cap P = {} /\ C \cap L = {}
  /\ W \cap P = {} /\ W \cap L = {} /\ P \cap L = {}
Apart ==
  /\ Once(workitems) /\ Once(responses)
  /\ Places(Req(responses), WithChild, Req(workitems), WithParent, lost)

(* The requests the counter stands for.                                    *)
Owed == Underway \cup lost
Counted ==
  /\ intres_req_pending >= Cardinality(Owed)
  /\ Intact => intres_req_pending = Cardinality(Owed)

WorkerInv ==
  /\ Typed /\ Growing /\ Holding /\ Childless /\ IdleWhenArmed
  /\ damage # "raced" => Apart /\ Counted

(* The union of the five places.                                           *)
LEMMA OwedIs ==
  Owed = Req(responses) \cup WithChild \cup Req(workitems)
           \cup WithParent \cup lost
BY DEF Owed, Underway, Req

(* What is owed is a finite set.                                           *)
LEMMA OwedFinite ==
  ASSUME Typed
  PROVE  /\ IsFiniteSet(Owed) /\ Cardinality(Owed) \in Nat
         /\ Owed \subseteq Requests
<1>1. Owed \subseteq Requests
  BY OwedIs DEF Typed, Req, WithChild, WithParent
<1> QED
  BY <1>1, WorkerConstants, FS_Subset, FS_CardinalityType

(* Nothing is owed when the timer runs.                                    *)
LEMMA NothingOwed ==
  ASSUME WorkerInv, damage # "raced", worker_idle_timer
  PROVE  Owed = {}
<1>1. Cardinality(Owed) = 0
  BY OwedFinite, SMT DEF WorkerInv, IdleWhenArmed, Counted, Typed
<1> QED
  BY <1>1, OwedFinite, FS_EmptySet DEF WorkerInv

-----------------------------------------------------------------------------
(* The steps of the parent.                                                *)

(* The initial state: no rings, no child.                                  *)
LEMMA InitWorker == Init => WorkerInv
<1> SUFFICES ASSUME Init PROVE WorkerInv
  OBVIOUS
<1>1. /\ Ring(0) \in Rings(Items) /\ Ring(0) \in Rings(Responses)
      /\ Alloc(Ring(0)) = 0 /\ Req(Ring(0)) = {} /\ Once(Ring(0))
  BY EmptyRing, Sentinels
<1>2. Idle \in Parents /\ Gone \in Children
  BY <1>1 DEF Idle, Gone, Parents, Children
<1>3. Idle.pc = "idle" /\ Gone.pc = "none" /\ Gone.req = Null
  BY DEF Idle, Gone
<1>4. Typed
  BY <1>1, <1>2 DEF Init, Typed, Pointer
<1>5. Growing /\ Holding /\ Childless /\ IdleWhenArmed
  BY <1>1, <1>3 DEF Init, Growing, Holding, Childless, IdleWhenArmed
<1>6. WithChild = {} /\ WithParent = {}
  BY <1>3 DEF Init, WithChild, WithParent
<1>7. Owed = {}
  BY <1>1, <1>6, OwedIs DEF Init
<1>8. Apart
  BY <1>1, <1>6 DEF Init, Apart, Places
<1>9. Counted
  BY <1>7, FS_EmptySet, SMT DEF Init, Counted
<1> QED
  BY <1>4, <1>5, <1>8, <1>9 DEF WorkerInv

(* The union of the five places after a step.                              *)
LEMMA OwedNext ==
  Owed' = Req(responses') \cup WithChild' \cup Req(workitems')
            \cup WithParent' \cup lost'
BY DEF Owed, Underway, Req

(* Damage is not undone, and growth without damage finds the writer at 0   *)
(* and the ring in place.                                                  *)
LEMMA GrowthFacts ==
  ASSUME NEW ring, NEW copy, NEW block, NEW writer, NEW reader,
         damage \in {"none", "lapped"}
  PROVE  /\ Growth(ring, copy, block, writer, reader) \in {"none", "lapped", "raced"}
         /\ Growth(ring, copy, block, writer, reader) # "raced" =>
              block = ring /\ ~(reader = 0 /\ ring # copy)
         /\ Growth(ring, copy, block, writer, reader) = "none" =>
              writer = 0 /\ block = ring /\ damage = "none"
BY DEF Growth

-----------------------------------------------------------------------------
(* The steps of the child.                                                 *)

-----------------------------------------------------------------------------
(* The parent completes requests.                                          *)

(* receive_blocking_resp_internal() takes a request from the responses.    *)
LEMMA Taken ==
  ASSUME WorkerInv, damage # "raced", TakeResponse
  PROVE  /\ parent.pc = "look" /\ thread_ref /\ Found \in Requests
         /\ next_workresp \in Nat /\ next_workresp < Alloc(responses)
         /\ responses' = Put(responses, next_workresp, Null)
         /\ responses' \in Rings(Responses) /\ Alloc(responses') = Alloc(responses)
         /\ DOMAIN responses' = DOMAIN responses
         /\ Pointer(next_workresp', responses') /\ Pointer(next_response, responses')
         /\ Once(responses') /\ Req(responses') = Req(responses) \ {Found}
         /\ Found \in Req(responses)
<1>1. /\ parent.pc = "look" /\ Found \in Requests
      /\ responses' = Put(responses, next_workresp, Null)
      /\ next_workresp' = Advance(responses, next_workresp)
  BY DEF TakeResponse, Put
<1>2. thread_ref
  BY <1>1 DEF WorkerInv, Childless
<1>3. /\ responses \in Rings(Responses) /\ Alloc(responses) \in Nat
      /\ next_workresp \in Nat /\ next_workresp < Alloc(responses)
      /\ next_workresp \in DOMAIN responses /\ Once(responses)
      /\ Pointer(next_response, responses)
  BY <1>2, RingFacts, SMT DEF WorkerInv, Typed, Holding, Apart, Pointer
<1>4. /\ responses' \in Rings(Responses) /\ Alloc(responses') = Alloc(responses)
      /\ DOMAIN responses' = DOMAIN responses
  BY <1>1, <1>3, PutRing, Sentinels, SMT
<1>5. /\ Once(responses') /\ Req(responses') = Req(responses) \ {Found}
      /\ Found \in Req(responses)
  BY <1>1, <1>3, ClearReq, Sentinels DEF Found
<1>6. Pointer(next_workresp', responses') /\ Pointer(next_response, responses')
  BY <1>1, <1>3, <1>4, AdvanceIs DEF Pointer
<1> QED
  BY <1>1, <1>2, <1>3, <1>4, <1>5, <1>6

-----------------------------------------------------------------------------
(* Every step keeps the invariant.                                         *)
LEMMA WorkerStep == WorkerInv /\ [Next]_vars => WorkerInv'
(* Counting on: one more request is owed ...                               *)
<1>CountMore.
      ASSUME Typed, Counted, NEW r, r \notin Owed, NEW S, S \subseteq Owed \cup {r},
             NEW p, p = intres_req_pending + 1
      PROVE  /\ p >= Cardinality(S)
             /\ (Intact /\ S = Owed \cup {r}) => p = Cardinality(S)
  <2> USE <1>CountMore
  <2>1. IsFiniteSet(Owed) /\ Cardinality(Owed) \in Nat
    BY OwedFinite
  <2>2. /\ IsFiniteSet(Owed \cup {r})
        /\ Cardinality(Owed \cup {r}) = Cardinality(Owed) + 1
    BY <2>1, FS_AddElement
  <2>3. Cardinality(S) <= Cardinality(Owed \cup {r}) /\ Cardinality(S) \in Nat
    BY <2>2, FS_Subset, FS_CardinalityType
  <2> DEFINE c == Cardinality(Owed)
             d == Cardinality(S)
  <2>4. /\ intres_req_pending \in Nat /\ intres_req_pending >= c
        /\ Intact => intres_req_pending = c
    BY DEF Typed, Counted
  <2>5. /\ c \in Nat /\ d \in Nat /\ d <= c + 1
        /\ S = Owed \cup {r} => d = c + 1
    BY <2>1, <2>2, <2>3
  <2> HIDE DEF c, d
  <2>6. p >= d /\ ((Intact /\ S = Owed \cup {r}) => p = d)
    BY <2>4, <2>5, SMT
  <2> QED
    BY <2>6 DEF d
(* ... or the same ones, some of them overwritten perhaps ...              *)
<1>CountSame.
      ASSUME Typed, Counted, NEW S, S \subseteq Owed
      PROVE  /\ intres_req_pending >= Cardinality(S)
             /\ (Intact /\ S = Owed) => intres_req_pending = Cardinality(S)
  <2> USE <1>CountSame
  <2>1. IsFiniteSet(Owed) /\ Cardinality(Owed) \in Nat
    BY OwedFinite
  <2>2. Cardinality(S) <= Cardinality(Owed) /\ Cardinality(S) \in Nat
    BY <2>1, FS_Subset, FS_CardinalityType
  <2> QED
    BY <2>1, <2>2, SMT DEF Typed, Counted
(* ... or one less.                                                        *)
<1>CountLess.
      ASSUME Typed, Counted, NEW r \in Owed
      PROVE  /\ intres_req_pending - 1 \in Nat
             /\ intres_req_pending - 1 >= Cardinality(Owed \ {r})
             /\ Intact => intres_req_pending - 1 = Cardinality(Owed \ {r})
  <2> USE <1>CountLess
  <2>1. IsFiniteSet(Owed) /\ Cardinality(Owed) \in Nat
    BY OwedFinite
  <2>2. /\ Cardinality(Owed \ {r}) = Cardinality(Owed) - 1
        /\ Cardinality(Owed \ {r}) \in Nat
    BY <2>1, FS_RemoveElement, FS_CardinalityType
  <2> QED
    BY <2>1, <2>2, SMT DEF Typed, Counted
(* queue_req_pointer() into a ring with a request not yet in it.           *)
<1>Queued.
      ASSUME NEW ring \in Rings(Items), Once(ring),
             NEW at \in Nat, at < Alloc(ring),
             NEW item \in Items \ {Null}, item \notin Req(ring),
             NEW sem \in Nat, QueueReqPointer(ring, at, item, sem)
      PROVE  /\ workitems' = Put(ring, at, item)
             /\ workitems' \in Rings(Items) /\ Alloc(workitems') = Alloc(ring)
             /\ DOMAIN workitems' = DOMAIN ring
             /\ Pointer(next_workitem', workitems')
             /\ blocking_req_ready' = sem + 1 /\ blocking_req_ready' \in Nat
             /\ Once(workitems')
             /\ Req(workitems') \subseteq Req(ring) \cup ({item} \cap Requests)
             /\ ring[at] \notin Requests =>
                  Req(workitems') = Req(ring) \cup ({item} \cap Requests)
  <2> USE <1>Queued
  <2>1. Alloc(ring) \in Nat /\ at \in DOMAIN ring
    BY RingFacts, SMT
  <2>2. workitems' = Put(ring, at, item)
    BY DEF QueueReqPointer, Put
  <2>3. /\ workitems' \in Rings(Items) /\ Alloc(workitems') = Alloc(ring)
        /\ DOMAIN workitems' = DOMAIN ring
    BY <2>2, PutRing, SMT
  <2>4. Pointer(next_workitem', workitems')
    <3>1. Pointer(next_workitem', ring)
      BY <2>1, AdvanceIs DEF QueueReqPointer
    <3> QED
      BY <2>3, <3>1 DEF Pointer
  <2>5. blocking_req_ready' = sem + 1 /\ blocking_req_ready' \in Nat
    BY SMT DEF QueueReqPointer
  <2>6. /\ Once(workitems')
        /\ Req(workitems') \subseteq Req(ring) \cup ({item} \cap Requests)
        /\ ring[at] \notin Requests =>
             Req(workitems') = Req(ring) \cup ({item} \cap Requests)
    BY <2>1, <2>2, PutReq
  <2> QED
    BY <2>2, <2>3, <2>4, <2>5, <2>6
(* send_blocking_req_internal(): the request is in the ring or with the    *)
(* parent afterwards.                                                      *)
<1>Sent.
      ASSUME WorkerInv, damage # "raced", thread_ref, parent.pc # "grow",
             NEW r \in Requests, r \notin Req(workitems),
             NEW after \in {"idle", "read"}, SendToChild(r, after)
      PROVE  /\ workitems' \in Rings(Items) /\ Alloc(workitems') = Alloc(workitems)
             /\ DOMAIN workitems' = DOMAIN workitems
             /\ Pointer(next_workitem', workitems')
             /\ Pointer(next_workeritem, workitems')
             /\ blocking_req_ready' \in Nat /\ parent' \in Parents
             /\ parent'.pc = "grow" =>
                  /\ parent'.req \in Requests
                  /\ DOMAIN parent'.copy = DOMAIN workitems'
                  /\ parent'.copy[next_workitem'] # Null
             /\ Once(workitems') /\ WithParent = {}
             /\ Req(workitems') \cup WithParent' = Req(workitems) \cup {r}
             /\ Req(workitems') \cap WithParent' = {}
  <2> USE <1>Sent
  <2>1. /\ workitems \in Rings(Items) /\ Alloc(workitems) \in Nat
        /\ next_workitem \in Nat /\ next_workitem < Alloc(workitems)
        /\ Pointer(next_workeritem, workitems) /\ Once(workitems)
        /\ blocking_req_ready \in Nat
    BY RingFacts DEF WorkerInv, Typed, Holding, Apart, Pointer
  <2>2. WithParent = {}
    BY DEF WithParent
  <2>3. r \in Items \ {Null}
    BY Sentinels
  <2>4. Ring(0) \in Rings(Items)
    BY EmptyRing, Sentinels
  <2>5. CASE /\ ~Full(workitems, next_workitem)
             /\ QueueReqPointer(workitems, next_workitem, r, blocking_req_ready)
             /\ parent' = [Idle EXCEPT !.pc = after]
    <3>1. workitems[next_workitem] = Null
      BY <2>5 DEF Full
    <3>2. /\ workitems' \in Rings(Items) /\ Alloc(workitems') = Alloc(workitems)
          /\ DOMAIN workitems' = DOMAIN workitems
          /\ Pointer(next_workitem', workitems')
          /\ blocking_req_ready' \in Nat /\ Once(workitems')
          /\ Req(workitems') = Req(workitems) \cup {r}
      BY <2>1, <2>3, <2>5, <3>1, <1>Queued, Sentinels, SMT
    <3>3. parent' \in Parents /\ parent'.pc = after
      BY <2>4, <2>5 DEF Idle, Parents
    <3>4. WithParent' = {}
      BY <3>3 DEF WithParent
    <3>5. Pointer(next_workeritem, workitems')
      BY <2>1, <3>2 DEF Pointer
    <3> QED
      BY <2>2, <3>2, <3>3, <3>4, <3>5
  <2>6. CASE /\ Full(workitems, next_workitem)
             /\ parent' = [pc |-> "grow", req |-> r, copy |-> workitems,
                           after |-> after]
             /\ UNCHANGED <<workitems, next_workitem, blocking_req_ready>>
    <3>1. workitems[next_workitem] # Null
      BY <2>1, <2>6, SMT DEF Full
    <3>2. /\ parent' \in Parents /\ parent'.pc = "grow" /\ parent'.req = r
          /\ parent'.copy = workitems
      BY <2>1, <2>6 DEF Parents
    <3>3. WithParent' = {r}
      BY <3>2 DEF WithParent
    <3> QED
      BY <2>1, <2>2, <2>6, <3>1, <3>2, <3>3 DEF WorkerInv, Typed
  <2> QED
    BY <2>5, <2>6 DEF SendToChild
(* A request made while there is a child.                                  *)
<1>AskKeeps.
      ASSUME WorkerInv, Running, NEW r \in Requests, Ask(r)
      PROVE  WorkerInv'
  <2> USE <1>AskKeeps
  <2>1. /\ Typed /\ Growing /\ Holding /\ Childless /\ IdleWhenArmed
        /\ damage # "raced" /\ Apart /\ Counted
    BY DEF WorkerInv, Running
  <2>2. /\ parent.pc = "idle" /\ thread_ref /\ r \notin Owed
        /\ QueueBlockingRequest(intres_req_pending) /\ SendToChild(r, "idle")
        /\ UNCHANGED <<next_workeritem, responses, next_response, next_workresp,
                       pipe, thread_ref, child, stray, lost, damage, aborted>>
    BY DEF Ask, Owed
  <2>3. r \notin Req(workitems)
    BY <2>2, OwedIs
  <2>4. /\ workitems' \in Rings(Items) /\ Alloc(workitems') = Alloc(workitems)
        /\ DOMAIN workitems' = DOMAIN workitems
        /\ Pointer(next_workitem', workitems')
        /\ Pointer(next_workeritem, workitems')
        /\ blocking_req_ready' \in Nat /\ parent' \in Parents
        /\ parent'.pc = "grow" =>
             /\ parent'.req \in Requests
             /\ DOMAIN parent'.copy = DOMAIN workitems'
             /\ parent'.copy[next_workitem'] # Null
        /\ Once(workitems') /\ WithParent = {}
        /\ Req(workitems') \cup WithParent' = Req(workitems) \cup {r}
        /\ Req(workitems') \cap WithParent' = {}
    BY <2>1, <2>2, <2>3, <1>Sent
  <2>5. /\ reusable' = FALSE /\ intres_req_pending' = intres_req_pending + 1
        /\ worker_idle_timer' = (worker_idle_timer /\ intres_req_pending # 0)
    BY <2>2 DEF QueueBlockingRequest
  <2>6. worker_idle_timer' = FALSE
    BY <2>1, <2>5 DEF IdleWhenArmed
  <2>7. Typed'
    <3>1. intres_req_pending' \in Nat
      BY <2>1, <2>5, SMT DEF Typed
    <3>2. Pointer(next_workeritem', workitems')
      BY <2>2, <2>4
    <3>3. /\ responses' = responses /\ next_response' = next_response
          /\ next_workresp' = next_workresp /\ pipe' = pipe
          /\ thread_ref' = thread_ref /\ child' = child /\ stray' = stray
          /\ lost' = lost /\ damage' = damage /\ aborted' = aborted
      BY <2>2
    <3> QED
      BY <2>1, <2>4, <2>5, <2>6, <3>1, <3>2, <3>3 DEF Typed
  <2>8. Growing' /\ Holding' /\ Childless' /\ IdleWhenArmed'
    BY <2>1, <2>2, <2>4, <2>6 DEF Growing, Holding, Childless, IdleWhenArmed
  <2>9. WithChild' = WithChild /\ Req(responses') = Req(responses)
    BY <2>2 DEF WithChild
  <2>10. Owed' = Owed \cup {r}
    BY <2>2, <2>4, <2>9, OwedIs, OwedNext
  <2>11. Apart'
    <3>1. Once(responses')
      BY <2>1, <2>2 DEF Apart
    <3>2. \A x : x \in Req(workitems') \cup WithParent' => x \in Req(workitems) \/ x = r
      BY <2>4
    <3>3. /\ r \notin Req(responses) /\ r \notin WithChild /\ r \notin lost
      BY <2>2, OwedIs
    <3>4. Places(Req(responses), WithChild, Req(workitems), WithParent, lost)
      BY <2>1 DEF Apart
    <3>5. Places(Req(responses), WithChild, Req(workitems'), WithParent', lost)
      BY <2>4, <3>2, <3>3, <3>4, ZenonT(40) DEF Places
    <3> QED
      BY <2>2, <2>4, <2>9, <3>1, <3>5 DEF Apart
  <2>12. Counted'
    BY <2>1, <2>2, <2>5, <2>10, <1>CountMore DEF Counted, Intact
  <2> QED
    BY <2>7, <2>8, <2>11, <2>12 DEF WorkerInv
(* A request that starts a child.                                          *)
<1>AskAndStartKeeps.
      ASSUME WorkerInv, Running, NEW r \in Requests, AskAndStart(r)
      PROVE  WorkerInv'
  <2> USE <1>AskAndStartKeeps
  <2>1. /\ Typed /\ Growing /\ Holding /\ Childless /\ IdleWhenArmed
        /\ damage # "raced" /\ Apart /\ Counted
    BY DEF WorkerInv, Running
  <2> DEFINE grow == Full(workitems, next_workitem)
             ring == IF grow THEN Extended(workitems, WorkInc) ELSE workitems
             at == IF grow THEN ExtendedAt(workitems, next_workitem)
                           ELSE next_workitem
  <2>2. /\ parent.pc = "idle" /\ ~thread_ref /\ r \notin lost
        /\ QueueBlockingRequest(intres_req_pending)
        /\ responses' = IF Full(responses, next_response)
                          THEN Extended(responses, RespInc) ELSE responses
        /\ StartChild(r, ring, at)
        /\ damage' = IF grow /\ next_workitem # 0 THEN "lapped" ELSE damage
        /\ UNCHANGED <<next_workeritem, next_response, next_workresp, parent,
                       stray, lost, aborted>>
    BY DEF AskAndStart
  <2>3. /\ workitems \in Rings(Items) /\ Alloc(workitems) \in Nat
        /\ responses \in Rings(Responses) /\ Alloc(responses) \in Nat
        /\ Pointer(next_workitem, workitems) /\ Pointer(next_workeritem, workitems)
        /\ Pointer(next_response, responses) /\ Pointer(next_workresp, responses)
        /\ Once(workitems) /\ Once(responses)
        /\ Req(workitems) = {} /\ Req(responses) = {}
        /\ child = Gone
    BY <2>1, <2>2, RingFacts DEF Typed, Apart, Childless
  <2>4. /\ ring \in Rings(Items) /\ Once(ring) /\ Req(ring) = {}
        /\ Alloc(ring) \in Nat /\ Alloc(ring) >= Alloc(workitems)
        /\ at \in Nat /\ at < Alloc(ring)
    <3>1. /\ Extended(workitems, WorkInc) \in Rings(Items)
          /\ Once(Extended(workitems, WorkInc)) /\ Req(Extended(workitems, WorkInc)) = {}
          /\ Alloc(Extended(workitems, WorkInc)) = Alloc(workitems) + WorkInc
      BY <2>3, ExtendRing, Increments, Sentinels
    <3>2. CASE grow
      <4>1. /\ ExtendedAt(workitems, next_workitem) \in Nat
            /\ ExtendedAt(workitems, next_workitem) < Alloc(workitems) + WorkInc
        BY <2>3, Increments, SMT DEF ExtendedAt, Pointer
      <4> QED
        BY <2>3, <3>1, <3>2, <4>1, Increments, SMT
    <3>3. CASE ~grow
      BY <2>3, <3>3, SMT DEF Full, Pointer
    <3> QED
      BY <3>2, <3>3
  <2> HIDE DEF grow, ring, at
  <2>5. /\ QueueReqPointer(ring, at, r, 0) /\ thread_ref' = TRUE
        /\ child' = [Gone EXCEPT !.pc = "wait"] /\ pipe' = 0
    BY <2>2 DEF StartChild
  <2>6. /\ workitems' \in Rings(Items) /\ Alloc(workitems') = Alloc(ring)
        /\ Pointer(next_workitem', workitems')
        /\ blocking_req_ready' \in Nat /\ Once(workitems')
        /\ Req(workitems') = {r}
    <3>1. /\ r \in Items \ {Null} /\ r \notin Req(ring)
      BY <2>4, Sentinels
    <3>2. ring[at] \notin Requests
      <4>1. at \in DOMAIN ring
        BY <2>4, RingFacts, SMT
      <4> QED
        BY <2>4, <4>1 DEF Req, Range
    <3> QED
      BY <2>4, <2>5, <3>1, <3>2, <1>Queued, SMT
  <2>7. /\ responses' \in Rings(Responses) /\ Alloc(responses') \in Nat
        /\ Alloc(responses') >= Alloc(responses) /\ Alloc(responses') > 0
        /\ Once(responses') /\ Req(responses') = {}
    <3>1. /\ Extended(responses, RespInc) \in Rings(Responses)
          /\ Once(Extended(responses, RespInc)) /\ Req(Extended(responses, RespInc)) = {}
          /\ Alloc(Extended(responses, RespInc)) = Alloc(responses) + RespInc
      BY <2>3, ExtendRing, Increments, Sentinels
    <3>2. CASE Full(responses, next_response)
      BY <2>2, <2>3, <3>1, <3>2, Increments, SMT
    <3>3. CASE ~Full(responses, next_response)
      BY <2>2, <2>3, <3>3, SMT DEF Full
    <3> QED
      BY <3>2, <3>3
  <2>8. /\ child' \in Children /\ child'.pc = "wait" /\ child'.req = Null
    <3>1. Ring(0) \in Rings(Responses)
      BY EmptyRing, Sentinels
    <3> QED
      BY <2>5, <3>1 DEF Gone, Children
  <2>9. /\ reusable' = FALSE /\ intres_req_pending' = intres_req_pending + 1
        /\ worker_idle_timer' = FALSE
    BY <2>1, <2>2 DEF QueueBlockingRequest, IdleWhenArmed
  <2>10. /\ Pointer(next_workeritem', workitems')
         /\ Pointer(next_response', responses') /\ Pointer(next_workresp', responses')
    BY <2>2, <2>3, <2>4, <2>6, <2>7, SMT DEF Pointer
  <2>11. Typed'
    <3>1. intres_req_pending' \in Nat /\ pipe' \in Nat
      BY <2>1, <2>5, <2>9, SMT DEF Typed
    <3>2. damage' \in {"none", "lapped", "raced"}
      BY <2>1, <2>2 DEF Typed
    <3>3. stray' = stray /\ parent' = parent /\ lost' = lost /\ aborted' = aborted
      BY <2>2
    <3> QED
      BY <2>1, <2>5, <2>6, <2>7, <2>8, <2>9, <2>10, <3>1, <3>2, <3>3
         DEF Typed
  <2>12. Growing' /\ Holding' /\ Childless' /\ IdleWhenArmed'
    BY <2>2, <2>4, <2>5, <2>6, <2>7, <2>8, <2>9, SMT
       DEF Growing, Holding, Childless, IdleWhenArmed
  <2>13. /\ WithChild = {} /\ WithParent = {} /\ WithChild' = {}
         /\ WithParent' = {}
    BY <2>2, <2>3, <2>8 DEF WithChild, WithParent, Gone
  <2>14. Owed = lost /\ Owed' = lost \cup {r}
    BY <2>2, <2>3, <2>6, <2>7, <2>13, OwedIs, OwedNext
  <2>15. Apart'
    BY <2>2, <2>6, <2>7, <2>13 DEF Apart, Places
  <2>16. Counted'
    <3>1. Intact' => Intact
      BY <2>2 DEF Intact
    <3> QED
      BY <2>1, <2>2, <2>9, <2>14, <3>1, <1>CountMore DEF Counted
  <2> QED
    BY <2>11, <2>12, <2>15, <2>16 DEF WorkerInv
(* What a thread that extends a ring finds in it: the block may be the     *)
(* copy, but then the ring is spoilt; else nothing but the slots was new.  *)
<1>Grown.
      ASSUME NEW S, Null \in S, NEW ring \in Rings(S), NEW copy \in Rings(S),
             DOMAIN copy = DOMAIN ring, NEW next, Pointer(next, ring),
             Alloc(ring) > 0, NEW inc \in Nat, inc > 0,
             NEW block \in Moved(ring, copy)
      PROVE  /\ block \in Rings(S) /\ Alloc(block) = Alloc(ring) /\ Alloc(ring) \in Nat
             /\ Extended(block, inc) \in Rings(S)
             /\ Alloc(Extended(block, inc)) = Alloc(ring) + inc
             /\ ExtendedAt(block, next) \in Nat
             /\ ExtendedAt(block, next) < Alloc(ring) + inc
             /\ next = 0 => Extended(block, inc)[ExtendedAt(block, next)] = Null
             /\ Req(Extended(block, inc)) = Req(block)
             /\ Once(block) => Once(Extended(block, inc))
  <2> USE <1>Grown
  <2>1. block \in Rings(S) /\ Alloc(block) = Alloc(ring)
    BY DEF Moved, Alloc
  <2>2. Alloc(ring) \in Nat
    BY RingFacts
  <2>3. /\ Extended(block, inc) \in Rings(S)
        /\ Alloc(Extended(block, inc)) = Alloc(block) + inc
        /\ DOMAIN Extended(block, inc) = 0 .. (Alloc(block) + inc - 1)
        /\ \A i \in DOMAIN Extended(block, inc) :
             Extended(block, inc)[i] = IF i < Alloc(block) THEN block[i] ELSE Null
        /\ Req(Extended(block, inc)) = Req(block)
        /\ Once(block) => Once(Extended(block, inc))
    BY <2>1, ExtendRing
  <2>4. /\ ExtendedAt(block, next) \in Nat
        /\ ExtendedAt(block, next) < Alloc(ring) + inc
        /\ next = 0 => ExtendedAt(block, next) = Alloc(ring)
    BY <2>1, <2>2, SMT DEF ExtendedAt, Pointer
  <2>5. next = 0 => Extended(block, inc)[ExtendedAt(block, next)] = Null
    BY <2>1, <2>2, <2>3, <2>4, SMT
  <2> QED
    BY <2>1, <2>2, <2>3, <2>4, <2>5
(* The parent publishes the extended ring and queues.                      *)
<1>GrowWorkitemsKeeps.
      ASSUME WorkerInv, Running, GrowWorkitems
      PROVE  WorkerInv'
  <2> USE <1>GrowWorkitemsKeeps
  <2>1. /\ Typed /\ Growing /\ Holding /\ Childless /\ IdleWhenArmed
        /\ damage # "raced" /\ Apart /\ Counted
    BY DEF WorkerInv, Running
  <2>2. PICK block \in Moved(workitems, parent.copy) :
          /\ QueueReqPointer(Extended(block, WorkInc),
                             ExtendedAt(block, next_workitem),
                             parent.req, blocking_req_ready)
          /\ damage' = Growth(workitems, parent.copy, block,
                              next_workitem, next_workeritem)
    BY DEF GrowWorkitems
  <2>3. /\ parent.pc = "grow" /\ parent' = [Idle EXCEPT !.pc = parent.after]
        /\ next_workeritem' = next_workeritem /\ responses' = responses
        /\ next_response' = next_response /\ next_workresp' = next_workresp
        /\ pipe' = pipe /\ thread_ref' = thread_ref /\ reusable' = reusable
        /\ intres_req_pending' = intres_req_pending
        /\ worker_idle_timer' = worker_idle_timer /\ child' = child
        /\ stray' = stray /\ lost' = lost /\ aborted' = aborted
    BY DEF GrowWorkitems
  <2> DEFINE r == parent.req
             at == ExtendedAt(block, next_workitem)
             ring == Extended(block, WorkInc)
  <2>4. /\ r \in Requests /\ r \in Items \ {Null} /\ thread_ref
        /\ parent.copy \in Rings(Items) /\ parent.after \in {"idle", "read"}
        /\ DOMAIN parent.copy = DOMAIN workitems
        /\ workitems \in Rings(Items) /\ Alloc(workitems) > 0
        /\ Pointer(next_workitem, workitems) /\ Pointer(next_workeritem, workitems)
        /\ blocking_req_ready \in Nat /\ WithParent = {r}
    BY <2>1, <2>3, Sentinels
       DEF Typed, Parents, Growing, Holding, Childless, WithParent
  <2>5. /\ Alloc(workitems) \in Nat /\ ring \in Rings(Items)
        /\ Alloc(ring) = Alloc(workitems) + WorkInc
        /\ at \in Nat /\ at < Alloc(ring)
        /\ next_workitem = 0 => ring[at] = Null
        /\ Req(ring) = Req(block) /\ (Once(block) => Once(ring))
    BY <2>4, <1>Grown, Increments, Sentinels, SMT
  <2>6. /\ damage' \in {"none", "lapped", "raced"}
        /\ damage' # "raced" => block = workitems
        /\ Intact' => next_workitem = 0 /\ Intact
    BY <2>1, <2>2, GrowthFacts, SMT DEF Typed, Intact
  <2> HIDE DEF r, at, ring
  <2>7. QueueReqPointer(ring, at, r, blocking_req_ready)
    BY <2>2 DEF r, at, ring
  <2>8. /\ workitems' \in Rings(Items) /\ Alloc(workitems') = Alloc(ring)
        /\ Pointer(next_workitem', workitems') /\ blocking_req_ready' \in Nat
    <3>1. workitems' = Put(ring, at, r)
      BY <2>7 DEF QueueReqPointer, Put
    <3>2. workitems' \in Rings(Items) /\ Alloc(workitems') = Alloc(ring)
      BY <2>4, <2>5, <3>1, PutRing, SMT
    <3>3. Alloc(ring) \in Nat
      BY <2>5, Increments, SMT
    <3>4. Pointer(next_workitem', ring)
      BY <2>5, <2>7, <3>3, AdvanceIs DEF QueueReqPointer
    <3>5. blocking_req_ready' \in Nat
      BY <2>4, <2>7, SMT DEF QueueReqPointer
    <3> QED
      BY <3>2, <3>4, <3>5 DEF Pointer
  <2>9. parent' \in Parents /\ parent'.pc = parent.after /\ parent'.pc # "grow"
    <3>1. Ring(0) \in Rings(Items)
      BY EmptyRing, Sentinels
    <3> QED
      BY <2>3, <2>4, <3>1 DEF Idle, Parents
  <2>10. Pointer(next_workeritem', workitems')
    BY <2>3, <2>4, <2>5, <2>8, Increments, SMT DEF Pointer
  <2>11. Typed'
    BY <2>1, <2>3, <2>6, <2>8, <2>9, <2>10 DEF Typed
  <2>12. Alloc(workitems') > 0
    BY <2>4, <2>5, <2>8, Increments, SMT
  <2>13. Growing' /\ Holding' /\ Childless' /\ IdleWhenArmed'
    BY <2>1, <2>3, <2>4, <2>9, <2>12
       DEF Growing, Holding, Childless, IdleWhenArmed
  <2>14. WithChild' = WithChild /\ WithParent' = {}
    BY <2>3, <2>9 DEF WithChild, WithParent
  <2>15. ASSUME damage' # "raced" PROVE Apart' /\ Counted'
    <3>1. Once(ring) /\ Req(ring) = Req(workitems)
      BY <2>1, <2>5, <2>6, <2>15 DEF Apart
    <3>2. r \notin Req(workitems)
      BY <2>1, <2>4 DEF Apart, Places
    <3>3. /\ Once(workitems')
          /\ Req(workitems') \subseteq Req(ring) \cup ({r} \cap Requests)
          /\ ring[at] \notin Requests =>
               Req(workitems') = Req(ring) \cup ({r} \cap Requests)
      BY <2>4, <2>5, <2>7, <3>1, <3>2, <1>Queued
    <3>4. Req(workitems') \subseteq Req(workitems) \cup {r}
      BY <3>1, <3>3
    <3>5. Intact' => Req(workitems') = Req(workitems) \cup {r}
      BY <2>4, <2>5, <2>6, <3>1, <3>3, Sentinels
    <3>6. Owed' \subseteq Owed /\ (Intact' => Owed' = Owed)
      BY <2>3, <2>4, <2>14, <3>4, <3>5, OwedIs, OwedNext
    <3>7. Counted'
      BY <2>1, <2>3, <2>6, <3>6, <1>CountSame DEF Counted
    <3>8. Places(Req(responses), WithChild, Req(workitems), WithParent, lost)
      BY <2>1 DEF Apart
    <3>9. Places(Req(responses), WithChild, Req(workitems'), {}, lost)
      BY <2>4, <3>4, <3>8 DEF Places
    <3>10. Apart'
      BY <2>1, <2>3, <2>14, <3>3, <3>9 DEF Apart
    <3> QED
      BY <3>7, <3>10
  <2> QED
    BY <2>11, <2>13, <2>15 DEF WorkerInv
(* worker_idle_timer_fired(): nothing is owed, so no request is            *)
(* overwritten.                                                            *)
<1>TimerKeeps.
      ASSUME WorkerInv, Running, WorkerIdleTimerFired
      PROVE  WorkerInv'
  <2> USE <1>TimerKeeps
  <2>1. /\ Typed /\ Growing /\ Holding /\ Childless /\ IdleWhenArmed
        /\ damage # "raced" /\ Apart /\ Counted
    BY DEF WorkerInv, Running
  <2>2. /\ parent.pc = "idle" /\ worker_idle_timer /\ worker_idle_timer' = FALSE
        /\ QueueReqPointer(workitems, next_workitem, ChildExitReq,
                           blocking_req_ready)
        /\ next_workeritem' = next_workeritem /\ responses' = responses
        /\ next_response' = next_response /\ next_workresp' = next_workresp
        /\ pipe' = pipe /\ thread_ref' = thread_ref /\ reusable' = reusable
        /\ intres_req_pending' = intres_req_pending
        /\ parent' = parent /\ child' = child
        /\ stray' = stray /\ lost' = lost /\ damage' = damage
        /\ aborted' = aborted
    BY DEF WorkerIdleTimerFired
  <2>3. Owed = {} /\ Req(workitems) = {}
    BY <2>1, <2>2, NothingOwed, OwedIs
  <2>4. /\ workitems \in Rings(Items) /\ Alloc(workitems) \in Nat
        /\ Once(workitems) /\ next_workitem \in Nat
        /\ next_workitem < Alloc(workitems) /\ blocking_req_ready \in Nat
    BY <2>1, <2>2, RingFacts DEF Typed, Holding, Apart, Pointer
  <2>5. /\ ChildExitReq \in Items \ {Null} /\ ChildExitReq \notin Req(workitems)
        /\ {ChildExitReq} \cap Requests = {}
    BY <2>3, Sentinels
  <2>6. /\ workitems' \in Rings(Items) /\ Alloc(workitems') = Alloc(workitems)
        /\ DOMAIN workitems' = DOMAIN workitems
        /\ Pointer(next_workitem', workitems') /\ blocking_req_ready' \in Nat
        /\ Once(workitems')
        /\ Req(workitems') \subseteq Req(workitems) \cup ({ChildExitReq} \cap Requests)
    BY <2>2, <2>4, <2>5, <1>Queued
  <2>7. Req(workitems') = {}
    BY <2>3, <2>5, <2>6
  <2>8. Pointer(next_workeritem', workitems')
    BY <2>1, <2>2, <2>6 DEF Typed, Pointer
  <2>9. Typed'
    BY <2>1, <2>2, <2>6, <2>8 DEF Typed
  <2>10. Growing' /\ Holding' /\ Childless' /\ IdleWhenArmed'
    BY <2>1, <2>2, <2>6, <2>7 DEF Growing, Holding, Childless, IdleWhenArmed
  <2>11. WithChild' = WithChild /\ WithParent' = WithParent
    BY <2>2 DEF WithChild, WithParent
  <2>12. Owed' = Owed
    BY <2>2, <2>3, <2>7, <2>11, OwedIs, OwedNext
  <2>13. Counted'
    BY <2>1, <2>2, <2>12 DEF Counted, Intact
  <2>14. Apart'
    BY <2>1, <2>2, <2>3, <2>6, <2>7, <2>11 DEF Apart
  <2> QED
    BY <2>9, <2>10, <2>13, <2>14 DEF WorkerInv
(* receive_blocking_req_internal().                                        *)
<1>ReceiveKeeps.
      ASSUME WorkerInv, Running, ReceiveBlockingReq
      PROVE  WorkerInv'
  <2> USE <1>ReceiveKeeps
  <2>1. /\ Typed /\ Growing /\ Holding /\ Childless /\ IdleWhenArmed
        /\ damage # "raced" /\ Apart /\ Counted
    BY DEF WorkerInv, Running
  <2>2. /\ child.pc = "wait" /\ blocking_req_ready > 0
        /\ blocking_req_ready' = blocking_req_ready - 1
        /\ pipe' = pipe /\ thread_ref' = thread_ref /\ reusable' = reusable
        /\ intres_req_pending' = intres_req_pending
        /\ worker_idle_timer' = worker_idle_timer /\ parent' = parent
        /\ stray' = stray /\ lost' = lost /\ damage' = damage
    BY DEF ReceiveBlockingReq
  <2>3. blocking_req_ready' \in Nat
    BY <2>1, <2>2, SMT DEF Typed
  <2>4. thread_ref
    BY <2>1, <2>2, SMT DEF Childless, Gone
  <2> DEFINE req == workitems[next_workeritem]
  <2>5. CASE req = Null /\ aborted' = TRUE /\ UNCHANGED <<rings, child>>
    <3>1. /\ workitems' = workitems /\ next_workitem' = next_workitem
          /\ next_workeritem' = next_workeritem
          /\ responses' = responses /\ next_response' = next_response
          /\ next_workresp' = next_workresp /\ child' = child
      BY <2>5 DEF rings
    <3>2. Typed'
      BY <2>1, <2>2, <2>3, <2>5, <3>1 DEF Typed
    <3>3. Growing' /\ Holding' /\ Childless' /\ IdleWhenArmed'
      BY <2>1, <2>2, <3>1 DEF Growing, Holding, Childless, IdleWhenArmed
    <3>4. Apart' /\ Counted'
      BY <2>1, <2>2, <3>1
         DEF Apart, Counted, Intact, WithChild, WithParent, Owed, Underway
    <3> QED
      BY <3>2, <3>3, <3>4 DEF WorkerInv
  <2>6. CASE /\ req # Null
             /\ workitems' = [workitems EXCEPT ![next_workeritem] = Null]
             /\ next_workeritem' = Advance(workitems, next_workeritem)
             /\ child' = [child EXCEPT
                            !.pc = "work",
                            !.req = IF req = ChildExitReq THEN ChildGoneResp
                                                          ELSE req]
             /\ UNCHANGED <<next_workitem, responses, next_response,
                            next_workresp, aborted>>
    <3>1. /\ workitems \in Rings(Items) /\ Alloc(workitems) \in Nat
          /\ next_workeritem \in DOMAIN workitems /\ next_workeritem \in Nat
          /\ next_workeritem < Alloc(workitems)
          /\ req \in Items /\ Once(workitems)
      BY <2>1, <2>4, RingFacts, SMT DEF Typed, Holding, Apart, Pointer
    <3>2. workitems' = Put(workitems, next_workeritem, Null)
      BY <2>6 DEF Put
    <3>3. /\ workitems' \in Rings(Items) /\ Alloc(workitems') = Alloc(workitems)
          /\ DOMAIN workitems' = DOMAIN workitems
      BY <3>1, <3>2, PutRing, Sentinels, SMT
    <3>4. /\ Once(workitems') /\ Req(workitems') = Req(workitems) \ {req}
          /\ req \in Requests => req \in Req(workitems)
      BY <3>1, <3>2, ClearReq, Sentinels, SMT
    <3>5. /\ child' \in Children /\ child'.pc = "work"
          /\ req \in Requests => child'.req = req
          /\ req \notin Requests => child'.req = ChildGoneResp
          /\ child'.req # Null
      BY <2>1, <2>6, <3>1, Sentinels DEF Typed, Children, Items
    <3> HIDE DEF req
    <3>6. Pointer(next_workeritem', workitems')
      BY <2>6, <3>1, <3>3, AdvanceIs DEF Pointer
    <3>7. Pointer(next_workitem', workitems')
      BY <2>1, <2>6, <3>3 DEF Typed, Pointer
    <3>8. /\ responses' = responses /\ next_response' = next_response
          /\ next_workresp' = next_workresp /\ aborted' = aborted
          /\ next_workitem' = next_workitem
      BY <2>6
    <3>9. Typed'
      BY <2>1, <2>2, <2>3, <3>3, <3>5, <3>6, <3>7, <3>8 DEF Typed
    <3>10. Growing' /\ Holding' /\ Childless' /\ IdleWhenArmed'
      BY <2>1, <2>2, <2>4, <3>3, <3>5, <3>8
         DEF Growing, Holding, Childless, IdleWhenArmed
    <3>11. WithChild = {} /\ WithParent' = WithParent
      BY <2>2 DEF WithChild, WithParent
    <3>12. WithChild' = {req} \cap Requests
      BY <3>5, Sentinels DEF WithChild
    <3>13. Owed' = Owed
      <4>1. Req(workitems') \cup WithChild' = Req(workitems)
        BY <3>4, <3>12 DEF Req
      <4> QED
        BY <2>2, <3>8, <3>11, <4>1, OwedIs, OwedNext
    <3>14. Counted'
      BY <2>1, <2>2, <3>13 DEF Counted, Intact
    <3>15. Places(Req(responses), WithChild, Req(workitems), WithParent, lost)
      BY <2>1 DEF Apart
    <3>16. Places(Req(responses), WithChild', Req(workitems'), WithParent, lost)
      BY <3>4, <3>11, <3>12, <3>15, ZenonT(40) DEF Places
    <3>17. Apart'
      BY <2>1, <2>2, <3>4, <3>8, <3>11, <3>16 DEF Apart
    <3> QED
      BY <3>9, <3>10, <3>14, <3>17 DEF WorkerInv
  <2> QED
    BY <2>5, <2>6 DEF ReceiveBlockingReq
(* The child's request and the responses after it stored it there.         *)
<1>Answered.
      ASSUME WorkerInv, damage # "raced", child.pc \in {"work", "grow"},
             NEW ring \in Rings(Responses), Once(ring), Req(ring) = Req(responses),
             NEW at \in Nat, at < Alloc(ring),
             responses' = [ring EXCEPT ![at] = child.req],
             next_response' = Advance(ring, at)
      PROVE  /\ responses' = Put(ring, at, child.req)
             /\ responses' \in Rings(Responses) /\ Alloc(responses') = Alloc(ring)
             /\ DOMAIN responses' = DOMAIN ring
             /\ Pointer(next_response', responses') /\ Once(responses')
             /\ Req(responses') \subseteq Req(responses) \cup WithChild
             /\ ring[at] = Null => Req(responses') = Req(responses) \cup WithChild
  <2> USE <1>Answered
  <2>1. Alloc(ring) \in Nat /\ at \in DOMAIN ring
    BY RingFacts, SMT
  <2>2. child.req \in Responses
    BY DEF WorkerInv, Typed, Children, Responses
  <2>3. responses' = Put(ring, at, child.req)
    BY DEF Put
  <2> DEFINE q == child.req
             new == Put(ring, at, q)
  <2>a. q \in Responses /\ responses' = new
    BY <2>2, <2>3
  <2> HIDE DEF q
  <2>4. /\ responses' \in Rings(Responses) /\ Alloc(responses') = Alloc(ring)
        /\ DOMAIN responses' = DOMAIN ring
    <3>1. /\ new \in Rings(Responses) /\ Alloc(new) = Alloc(ring)
          /\ DOMAIN new = DOMAIN ring
      BY <2>a, PutRing, SMT
    <3> QED
      BY <2>a, <3>1
  <2>5. Pointer(next_response', responses')
    BY <2>1, <2>4, AdvanceIs DEF Pointer
  <2>6. WithChild = {q} \cap Requests
    BY DEF WithChild, q
  <2>7. q \notin Req(ring)
    BY <2>6 DEF WorkerInv, Apart, Places, Req
  <2>8. /\ Once(responses')
        /\ Req(responses') \subseteq Req(ring) \cup ({q} \cap Requests)
        /\ ring[at] \notin Requests =>
             Req(responses') = Req(ring) \cup ({q} \cap Requests)
    <3>1. /\ Once(new)
          /\ Req(new) \subseteq Req(ring) \cup ({q} \cap Requests)
          /\ ring[at] \notin Requests =>
               Req(new) = Req(ring) \cup ({q} \cap Requests)
      BY <2>1, <2>a, <2>7, PutReq
    <3> QED
      BY <2>a, <3>1
  <2> HIDE DEF new
  <2> QED
    BY <2>3, <2>4, <2>5, <2>6, <2>8, Sentinels
(* send_blocking_resp_internal() with room in the ring.                    *)
<1>StoreKeeps.
      ASSUME WorkerInv, Running, StoreResponse
      PROVE  WorkerInv'
  <2> USE <1>StoreKeeps
  <2>1. /\ Typed /\ Growing /\ Holding /\ Childless /\ IdleWhenArmed
        /\ damage # "raced" /\ Apart /\ Counted
    BY DEF WorkerInv, Running
  <2>2. /\ child.pc = "work" /\ ~Full(responses, next_response)
        /\ responses' = [responses EXCEPT ![next_response] = child.req]
        /\ next_response' = Advance(responses, next_response)
        /\ child' = [child EXCEPT !.pc = "write"]
        /\ workitems' = workitems /\ next_workitem' = next_workitem
        /\ next_workeritem' = next_workeritem /\ next_workresp' = next_workresp
        /\ blocking_req_ready' = blocking_req_ready
        /\ pipe' = pipe /\ thread_ref' = thread_ref /\ reusable' = reusable
        /\ intres_req_pending' = intres_req_pending
        /\ worker_idle_timer' = worker_idle_timer /\ parent' = parent
        /\ stray' = stray /\ lost' = lost /\ damage' = damage
        /\ aborted' = aborted
    BY DEF StoreResponse
  <2>3. thread_ref
    BY <2>1, <2>2, SMT DEF Childless, Gone
  <2>4. /\ responses \in Rings(Responses) /\ Once(responses)
        /\ next_response \in Nat /\ next_response < Alloc(responses)
        /\ responses[next_response] = Null /\ Pointer(next_workresp, responses)
    BY <2>1, <2>2, <2>3 DEF Typed, Holding, Apart, Pointer, Full
  <2>5. /\ responses' \in Rings(Responses) /\ Alloc(responses') = Alloc(responses)
        /\ Pointer(next_response', responses') /\ Once(responses')
        /\ Req(responses') = Req(responses) \cup WithChild
    BY <2>1, <2>2, <2>4, <1>Answered
  <2>6. child' \in Children /\ child'.pc = "write" /\ child'.req = child.req
    BY <2>1, <2>2 DEF Typed, Children
  <2>7. Pointer(next_workresp', responses')
    BY <2>2, <2>4, <2>5 DEF Pointer
  <2>8. Typed'
    BY <2>1, <2>2, <2>5, <2>6, <2>7 DEF Typed
  <2>9. Growing' /\ Childless' /\ IdleWhenArmed'
    BY <2>1, <2>2, <2>3, <2>6 DEF Growing, Childless, IdleWhenArmed
  <2>10. Holding'
    BY <2>1, <2>2, <2>5, <2>6 DEF Holding
  <2>11. WithChild' = {} /\ WithParent' = WithParent
    BY <2>2, <2>6 DEF WithChild, WithParent
  <2>12. Owed' = Owed
    BY <2>2, <2>5, <2>11, OwedIs, OwedNext
  <2>13. Counted'
    BY <2>1, <2>2, <2>12 DEF Counted, Intact
  <2>14. Places(Req(responses), WithChild, Req(workitems), WithParent, lost)
    BY <2>1 DEF Apart
  <2>15. Places(Req(responses'), {}, Req(workitems), WithParent, lost)
    BY <2>5, <2>14 DEF Places
  <2>16. Apart'
    BY <2>1, <2>2, <2>5, <2>11, <2>15 DEF Apart
  <2> QED
    BY <2>8, <2>9, <2>10, <2>13, <2>16 DEF WorkerInv
(* send_blocking_resp_internal() with a full ring: the copy.               *)
<1>BeginGrowthKeeps.
      ASSUME WorkerInv, Running, BeginResponseGrowth
      PROVE  WorkerInv'
  <2> USE <1>BeginGrowthKeeps
  <2>1. /\ Typed /\ Growing /\ Holding /\ Childless /\ IdleWhenArmed
        /\ damage # "raced" /\ Apart /\ Counted
    BY DEF WorkerInv, Running
  <2>2. /\ child.pc = "work" /\ Full(responses, next_response)
        /\ child' = [child EXCEPT !.pc = "grow", !.copy = responses]
        /\ workitems' = workitems /\ next_workitem' = next_workitem
        /\ next_workeritem' = next_workeritem
        /\ responses' = responses /\ next_response' = next_response
        /\ next_workresp' = next_workresp
        /\ blocking_req_ready' = blocking_req_ready
        /\ pipe' = pipe /\ thread_ref' = thread_ref /\ reusable' = reusable
        /\ intres_req_pending' = intres_req_pending
        /\ worker_idle_timer' = worker_idle_timer /\ parent' = parent
        /\ stray' = stray /\ lost' = lost /\ damage' = damage
        /\ aborted' = aborted
    BY DEF BeginResponseGrowth, rings
  <2>3. thread_ref
    BY <2>1, <2>2, SMT DEF Childless, Gone
  <2>4. /\ child' \in Children /\ child'.pc = "grow" /\ child'.req = child.req
        /\ child'.copy = responses
    BY <2>1, <2>2 DEF Typed, Children
  <2>5. responses[next_response] # Null
    BY <2>1, <2>2, <2>3, SMT DEF Full, Holding
  <2>6. Typed'
    BY <2>1, <2>2, <2>4 DEF Typed
  <2>7. Growing' /\ Holding' /\ Childless' /\ IdleWhenArmed'
    BY <2>1, <2>2, <2>3, <2>4, <2>5
       DEF Growing, Holding, Childless, IdleWhenArmed
  <2>8. WithChild' = WithChild /\ WithParent' = WithParent
    BY <2>2, <2>4 DEF WithChild, WithParent
  <2>9. Apart' /\ Counted'
    BY <2>1, <2>2, <2>8 DEF Apart, Counted, Intact, Owed, Underway
  <2> QED
    BY <2>6, <2>7, <2>9 DEF WorkerInv
(* The child publishes the extended ring and stores its answer.            *)
<1>GrowResponsesKeeps.
      ASSUME WorkerInv, Running, GrowResponses
      PROVE  WorkerInv'
  <2> USE <1>GrowResponsesKeeps
  <2>1. /\ Typed /\ Growing /\ Holding /\ Childless /\ IdleWhenArmed
        /\ damage # "raced" /\ Apart /\ Counted
    BY DEF WorkerInv, Running
  <2>2. PICK block \in Moved(responses, child.copy) :
          /\ responses' = [Extended(block, RespInc)
                             EXCEPT ![ExtendedAt(block, next_response)] = child.req]
          /\ next_response' = Advance(Extended(block, RespInc),
                                      ExtendedAt(block, next_response))
          /\ damage' = Growth(responses, child.copy, block,
                              next_response, next_workresp)
    BY DEF GrowResponses
  <2>3. /\ child.pc = "grow"
        /\ child' = [child EXCEPT !.pc = "write", !.copy = Ring(0)]
        /\ workitems' = workitems /\ next_workitem' = next_workitem
        /\ next_workeritem' = next_workeritem /\ next_workresp' = next_workresp
        /\ blocking_req_ready' = blocking_req_ready
        /\ pipe' = pipe /\ thread_ref' = thread_ref /\ reusable' = reusable
        /\ intres_req_pending' = intres_req_pending
        /\ worker_idle_timer' = worker_idle_timer /\ parent' = parent
        /\ stray' = stray /\ lost' = lost /\ aborted' = aborted
    BY DEF GrowResponses
  <2>4. thread_ref
    BY <2>1, <2>3, SMT DEF Childless, Gone
  <2> DEFINE at == ExtendedAt(block, next_response)
             ring == Extended(block, RespInc)
  <2>5. /\ responses \in Rings(Responses) /\ Once(responses)
        /\ child.copy \in Rings(Responses) /\ DOMAIN child.copy = DOMAIN responses
        /\ Alloc(responses) > 0 /\ Pointer(next_response, responses)
        /\ Pointer(next_workresp, responses) /\ child.req \in Responses
    BY <2>1, <2>3, <2>4
       DEF Typed, Children, Growing, Holding, Apart, Responses
  <2>6. /\ Alloc(responses) \in Nat /\ ring \in Rings(Responses)
        /\ Alloc(ring) = Alloc(responses) + RespInc
        /\ at \in Nat /\ at < Alloc(ring)
        /\ next_response = 0 => ring[at] = Null
        /\ Req(ring) = Req(block) /\ (Once(block) => Once(ring))
    <3>1. Null \in Responses /\ RespInc \in Nat /\ RespInc > 0
      BY Increments, Sentinels
    <3> QED
      BY <2>5, <3>1, <1>Grown, SMT
  <2>7. /\ damage' \in {"none", "lapped", "raced"}
        /\ damage' # "raced" => block = responses
        /\ Intact' => next_response = 0 /\ Intact
    BY <2>1, <2>2, GrowthFacts, SMT DEF Typed, Intact
  <2> HIDE DEF at, ring
  <2>8. /\ responses' = [ring EXCEPT ![at] = child.req]
        /\ next_response' = Advance(ring, at)
    BY <2>2 DEF at, ring
  <2>9. /\ responses' \in Rings(Responses) /\ Alloc(responses') = Alloc(ring)
        /\ Pointer(next_response', responses')
    <3> DEFINE q == child.req
               new == Put(ring, at, q)
    <3>1. q \in Responses /\ responses' = new
      BY <2>5, <2>8 DEF Put
    <3> HIDE DEF q
    <3>2. new \in Rings(Responses) /\ Alloc(new) = Alloc(ring)
      BY <2>6, <3>1, PutRing, SMT
    <3>3. Alloc(ring) \in Nat
      BY <2>6, Increments, SMT
    <3>4. Pointer(next_response', ring)
      BY <2>6, <2>8, <3>3, AdvanceIs
    <3> HIDE DEF new
    <3> QED
      BY <3>1, <3>2, <3>4 DEF Pointer
  <2>10. child' \in Children /\ child'.pc = "write" /\ child'.req = child.req
    <3>1. Ring(0) \in Rings(Responses)
      BY EmptyRing, Sentinels
    <3> QED
      BY <2>1, <2>3, <3>1 DEF Typed, Children
  <2>11. Pointer(next_workresp', responses') /\ Alloc(responses') > 0
    BY <2>3, <2>5, <2>6, <2>9, Increments, SMT DEF Pointer
  <2>12. Typed'
    BY <2>1, <2>3, <2>7, <2>9, <2>10, <2>11 DEF Typed
  <2>13. Growing' /\ Childless' /\ IdleWhenArmed'
    BY <2>1, <2>3, <2>4, <2>10 DEF Growing, Childless, IdleWhenArmed
  <2>14. Holding'
    BY <2>1, <2>3, <2>10, <2>11 DEF Holding
  <2>15. WithChild' = {} /\ WithParent' = WithParent
    BY <2>3, <2>10 DEF WithChild, WithParent
  <2>16. ASSUME damage' # "raced" PROVE Apart' /\ Counted'
    <3>1. Once(ring) /\ Req(ring) = Req(responses)
      BY <2>5, <2>6, <2>7, <2>16
    <3>2. /\ Once(responses')
          /\ Req(responses') \subseteq Req(responses) \cup WithChild
          /\ ring[at] = Null => Req(responses') = Req(responses) \cup WithChild
      BY <2>1, <2>3, <2>6, <2>8, <3>1, <1>Answered
    <3>3. Owed' \subseteq Owed /\ (Intact' => Owed' = Owed)
      BY <2>3, <2>6, <2>7, <2>15, <3>2, OwedIs, OwedNext
    <3>4. Counted'
      BY <2>1, <2>3, <2>7, <3>3, <1>CountSame DEF Counted
    <3>5. Places(Req(responses), WithChild, Req(workitems), WithParent, lost)
      BY <2>1 DEF Apart
    <3>6. Places(Req(responses'), {}, Req(workitems), WithParent, lost)
      BY <3>2, <3>5 DEF Places
    <3>7. Apart'
      BY <2>1, <2>3, <2>15, <3>2, <3>6 DEF Apart
    <3> QED
      BY <3>4, <3>7
  <2> QED
    BY <2>12, <2>13, <2>14, <2>16 DEF WorkerInv
(* The bytes in the pipe say nothing of the requests.                      *)
<1>BytesKeep.
      ASSUME WorkerInv, Running, WriteByte \/ StrayByte
      PROVE  WorkerInv'
  <2> USE <1>BytesKeep
  <2>1. /\ Typed /\ Growing /\ Holding /\ Childless /\ IdleWhenArmed
        /\ damage # "raced" /\ Apart /\ Counted
    BY DEF WorkerInv, Running
  <2>2. /\ workitems' = workitems /\ next_workitem' = next_workitem
        /\ next_workeritem' = next_workeritem
        /\ responses' = responses /\ next_response' = next_response
        /\ next_workresp' = next_workresp
        /\ blocking_req_ready' = blocking_req_ready
        /\ thread_ref' = thread_ref /\ reusable' = reusable
        /\ intres_req_pending' = intres_req_pending
        /\ worker_idle_timer' = worker_idle_timer /\ parent' = parent
        /\ lost' = lost /\ damage' = damage /\ aborted' = aborted
    BY DEF WriteByte, StrayByte, rings
  <2>3. pipe' \in Nat
    BY <2>1, SMT DEF Typed, WriteByte, StrayByte
  <2>a. stray' \in BOOLEAN
    BY <2>1 DEF Typed, WriteByte, StrayByte
  <2>4. CASE WriteByte
    <3>1. /\ child.pc = "write" /\ child' \in Children /\ child'.req = Null
          /\ child'.pc \in {"none", "wait"}
      BY <2>1, <2>4, Sentinels DEF WriteByte, Typed, Children
    <3>2. thread_ref
      BY <2>1, <3>1, SMT DEF Childless, Gone
    <3>3. Typed'
      BY <2>1, <2>2, <2>3, <2>a, <3>1 DEF Typed
    <3>4. Growing' /\ Childless' /\ IdleWhenArmed'
      BY <2>1, <2>2, <3>1, <3>2 DEF Growing, Childless, IdleWhenArmed
    <3>5. Holding'
      BY <2>1, <2>2, <3>1 DEF Holding
    <3>6. WithChild' = WithChild /\ WithParent' = WithParent
      BY <2>2, <3>1 DEF WithChild, WithParent
    <3>7. Apart' /\ Counted'
      BY <2>1, <2>2, <3>6 DEF Apart, Counted, Intact, Owed, Underway
    <3> QED
      BY <3>3, <3>4, <3>5, <3>7 DEF WorkerInv
  <2>5. CASE StrayByte
    <3>1. child' = child
      BY <2>5 DEF StrayByte
    <3>2. Typed'
      BY <2>1, <2>2, <2>3, <2>a, <3>1 DEF Typed
    <3>3. Growing' /\ Childless' /\ IdleWhenArmed' /\ Holding'
      BY <2>1, <2>2, <3>1 DEF Growing, Childless, IdleWhenArmed, Holding
    <3>4. WithChild' = WithChild /\ WithParent' = WithParent
      BY <2>2, <3>1 DEF WithChild, WithParent
    <3>5. Apart' /\ Counted'
      BY <2>1, <2>2, <3>4 DEF Apart, Counted, Intact, Owed, Underway
    <3> QED
      BY <3>2, <3>3, <3>5 DEF WorkerInv
  <2> QED
    BY <2>4, <2>5
(* The parent reads the pipe, or finds no response.                        *)
<1>LookKeeps.
      ASSUME WorkerInv, Running, ReadPipe \/ NoResponse
      PROVE  WorkerInv'
  <2> USE <1>LookKeeps
  <2>1. /\ Typed /\ Growing /\ Holding /\ Childless /\ IdleWhenArmed
        /\ damage # "raced" /\ Apart /\ Counted
    BY DEF WorkerInv, Running
  <2>2. /\ workitems' = workitems /\ next_workitem' = next_workitem
        /\ next_workeritem' = next_workeritem
        /\ responses' = responses /\ next_response' = next_response
        /\ next_workresp' = next_workresp
        /\ blocking_req_ready' = blocking_req_ready
        /\ thread_ref' = thread_ref /\ reusable' = reusable
        /\ intres_req_pending' = intres_req_pending
        /\ child' = child /\ stray' = stray
        /\ lost' = lost /\ damage' = damage /\ aborted' = aborted
    BY DEF ReadPipe, NoResponse, rings
  <2>3. thread_ref /\ parent.pc # "grow"
    BY <2>1 DEF ReadPipe, NoResponse, Childless
  <2>4. Ring(0) \in Rings(Items)
    BY EmptyRing, Sentinels
  <2>5. parent' \in Parents /\ parent'.pc # "grow" /\ pipe' \in Nat
    <3>1. CASE ReadPipe
      BY <2>1, <3>1 DEF ReadPipe, Typed, Parents
    <3>2. CASE NoResponse
      BY <2>1, <2>4, <3>2 DEF NoResponse, Typed, Parents, Idle
    <3> QED
      BY <3>1, <3>2
  <2>6. worker_idle_timer' \in BOOLEAN /\ IdleWhenArmed'
    <3>1. \/ worker_idle_timer' = worker_idle_timer
          \/ worker_idle_timer' = (worker_idle_timer \/ intres_req_pending = 0)
      BY DEF ReadPipe, NoResponse, ArmIfIdle
    <3>2. worker_idle_timer' \in BOOLEAN
      BY <2>1, <3>1 DEF Typed
    <3>3. worker_idle_timer' => worker_idle_timer \/ intres_req_pending = 0
      BY <3>1
    <3> QED
      BY <2>1, <2>2, <3>2, <3>3 DEF IdleWhenArmed
  <2>7. Typed'
    BY <2>1, <2>2, <2>5, <2>6 DEF Typed
  <2>8. Growing' /\ Childless'
    BY <2>1, <2>2, <2>3, <2>5 DEF Growing, Childless
  <2>9. Holding'
    BY <2>1, <2>2, <2>3 DEF Holding
  <2>10. WithChild' = WithChild /\ WithParent' = WithParent
    BY <2>2, <2>3, <2>5 DEF WithChild, WithParent
  <2>11. Apart' /\ Counted'
    BY <2>1, <2>2, <2>10 DEF Apart, Counted, Intact, Owed, Underway
  <2> QED
    BY <2>6, <2>7, <2>8, <2>9, <2>11 DEF WorkerInv
(* A request is completed.                                                 *)
<1>CompleteKeeps.
      ASSUME WorkerInv, Running, Complete
      PROVE  WorkerInv'
  <2> USE <1>CompleteKeeps
  <2>1. /\ Typed /\ Growing /\ Holding /\ Childless /\ IdleWhenArmed
        /\ damage # "raced" /\ Apart /\ Counted
    BY DEF WorkerInv, Running
  <2>2. /\ TakeResponse /\ intres_req_pending' = intres_req_pending - 1
        /\ parent' = [parent EXCEPT !.pc = "read"]
        /\ workitems' = workitems /\ next_workitem' = next_workitem
        /\ next_workeritem' = next_workeritem /\ next_response' = next_response
        /\ blocking_req_ready' = blocking_req_ready
        /\ pipe' = pipe /\ thread_ref' = thread_ref /\ reusable' = reusable
        /\ worker_idle_timer' = worker_idle_timer
        /\ child' = child /\ stray' = stray
        /\ lost' = lost /\ damage' = damage /\ aborted' = aborted
    BY DEF Complete
  <2>3. /\ parent.pc = "look" /\ thread_ref /\ Found \in Requests
        /\ responses' \in Rings(Responses) /\ Alloc(responses') = Alloc(responses)
        /\ DOMAIN responses' = DOMAIN responses
        /\ Pointer(next_workresp', responses') /\ Pointer(next_response, responses')
        /\ Once(responses') /\ Req(responses') = Req(responses) \ {Found}
        /\ Found \in Req(responses)
    BY <2>1, <2>2, Taken
  <2> DEFINE r == Found
  <2>4. r \in Owed
    BY <2>3, OwedIs
  <2> HIDE DEF r
  <2>5. /\ intres_req_pending' \in Nat
        /\ intres_req_pending' >= Cardinality(Owed \ {r})
        /\ Intact => intres_req_pending' = Cardinality(Owed \ {r})
    BY <2>1, <2>2, <2>4, <1>CountLess
  <2>6. worker_idle_timer = FALSE
    BY <2>1, <2>4, NothingOwed DEF Typed
  <2>7. parent' \in Parents /\ parent'.pc = "read"
    BY <2>1, <2>2 DEF Typed, Parents
  <2>8. Pointer(next_response', responses')
    BY <2>2, <2>3
  <2>9. Typed'
    BY <2>1, <2>2, <2>3, <2>5, <2>7, <2>8 DEF Typed
  <2>10. Growing' /\ Childless' /\ IdleWhenArmed'
    BY <2>1, <2>2, <2>3, <2>6, <2>7 DEF Growing, Childless, IdleWhenArmed
  <2>11. Holding'
    BY <2>1, <2>2, <2>3 DEF Holding
  <2>12. WithChild' = WithChild /\ WithParent' = WithParent /\ WithParent = {}
    BY <2>2, <2>3, <2>7 DEF WithChild, WithParent
  <2>13. Places(Req(responses), WithChild, Req(workitems), WithParent, lost)
    BY <2>1 DEF Apart
  <2>14. Owed' = Owed \ {r}
    BY <2>2, <2>3, <2>12, <2>13, OwedIs, OwedNext DEF Places, r
  <2>15. Counted'
    BY <2>2, <2>5, <2>14 DEF Counted, Intact
  <2>16. Places(Req(responses'), WithChild, Req(workitems), WithParent, lost)
    BY <2>3, <2>13 DEF Places
  <2>17. Apart'
    BY <2>1, <2>2, <2>3, <2>12, <2>16 DEF Apart
  <2> QED
    BY <2>9, <2>10, <2>11, <2>15, <2>17 DEF WorkerInv
(* A request taken from the answers and queued again is in one place.      *)
<1>Requeued.
      ASSUME NEW R, NEW C, NEW W, NEW P, NEW L, Places(R, C, W, P, L), NEW r,
             r \notin W, r \notin C, r \notin L,
             NEW Rn, Rn = R \ {r},
             NEW Wn, NEW Pn, Wn \cup Pn = W \cup {r}, Wn \cap Pn = {}
      PROVE  Places(Rn, C, Wn, Pn, L)
  <2> USE <1>Requeued
  <2>1. \A x : x \in Wn \/ x \in Pn => x \in W \/ x = r
    OBVIOUS
  <2>2. \A x \in Wn \cup Pn : x \notin Rn /\ x \notin C /\ x \notin L
    BY <2>1 DEF Places
  <2>3. Rn \cap C = {} /\ Rn \cap L = {} /\ C \cap L = {}
    BY DEF Places
  <2>4. Rn \cap Wn = {} /\ Rn \cap Pn = {} /\ C \cap Wn = {} /\ C \cap Pn = {}
    BY <2>2
  <2>5. Wn \cap L = {} /\ Pn \cap L = {}
    BY <2>2
  <2> QED
    BY <2>3, <2>4, <2>5 DEF Places
(* A name that could not be looked up is queued again.                     *)
<1>RetryKeeps.
      ASSUME WorkerInv, Running, Retry
      PROVE  WorkerInv'
  <2> USE <1>RetryKeeps
  <2>1. /\ Typed /\ Growing /\ Holding /\ Childless /\ IdleWhenArmed
        /\ damage # "raced" /\ Apart /\ Counted
    BY DEF WorkerInv, Running
  <2>2. /\ TakeResponse /\ QueueBlockingRequest(intres_req_pending - 1)
        /\ SendToChild(Found, "read")
        /\ next_workeritem' = next_workeritem /\ next_response' = next_response
        /\ pipe' = pipe /\ thread_ref' = thread_ref
        /\ child' = child /\ stray' = stray
        /\ lost' = lost /\ damage' = damage /\ aborted' = aborted
    BY DEF Retry
  <2>3. /\ parent.pc = "look" /\ thread_ref /\ Found \in Requests
        /\ responses' \in Rings(Responses) /\ Alloc(responses') = Alloc(responses)
        /\ DOMAIN responses' = DOMAIN responses
        /\ Pointer(next_workresp', responses') /\ Pointer(next_response, responses')
        /\ Once(responses') /\ Req(responses') = Req(responses) \ {Found}
        /\ Found \in Req(responses)
    BY <2>1, <2>2, Taken
  <2> DEFINE r == Found
  <2>4. r \in Owed /\ r \in Requests /\ r \in Req(responses) /\ SendToChild(r, "read")
    BY <2>2, <2>3, OwedIs
  <2>5. Places(Req(responses), WithChild, Req(workitems), WithParent, lost)
    BY <2>1 DEF Apart
  <2> HIDE DEF r
  <2>6. r \notin Req(workitems) /\ r \notin WithChild /\ r \notin lost
    BY <2>4, <2>5 DEF Places
  <2>7. /\ workitems' \in Rings(Items) /\ Alloc(workitems') = Alloc(workitems)
        /\ DOMAIN workitems' = DOMAIN workitems
        /\ Pointer(next_workitem', workitems')
        /\ Pointer(next_workeritem, workitems')
        /\ blocking_req_ready' \in Nat /\ parent' \in Parents
        /\ parent'.pc = "grow" =>
             /\ parent'.req \in Requests
             /\ DOMAIN parent'.copy = DOMAIN workitems'
             /\ parent'.copy[next_workitem'] # Null
        /\ Once(workitems') /\ WithParent = {}
        /\ Req(workitems') \cup WithParent' = Req(workitems) \cup {r}
        /\ Req(workitems') \cap WithParent' = {}
    BY <2>1, <2>3, <2>4, <2>6, <1>Sent
  <2>8. worker_idle_timer = FALSE
    BY <2>1, <2>4, NothingOwed DEF Typed
  <2>9. /\ reusable' = FALSE /\ intres_req_pending' = intres_req_pending
        /\ worker_idle_timer' = FALSE
    BY <2>1, <2>2, <2>8, SMT DEF QueueBlockingRequest, Typed
  <2>10. Pointer(next_response', responses') /\ Pointer(next_workeritem', workitems')
    BY <2>2, <2>3, <2>7
  <2>11. Typed'
    BY <2>1, <2>2, <2>3, <2>7, <2>9, <2>10 DEF Typed
  <2>12. Growing' /\ Childless' /\ IdleWhenArmed'
    BY <2>1, <2>2, <2>3, <2>7, <2>9 DEF Growing, Childless, IdleWhenArmed
  <2>13. Holding'
    BY <2>1, <2>2, <2>3, <2>7, <2>9 DEF Holding
  <2>14. WithChild' = WithChild
    BY <2>2 DEF WithChild
  <2>15. Req(responses') = Req(responses) \ {r}
    BY <2>3 DEF r
  <2>16. Owed' = Owed
    BY <2>2, <2>4, <2>7, <2>14, <2>15, OwedIs, OwedNext
  <2>17. Counted'
    BY <2>1, <2>2, <2>9, <2>16 DEF Counted, Intact
  <2>18. Places(Req(responses'), WithChild, Req(workitems'), WithParent', lost)
    BY <2>5, <2>6, <2>7, <2>15, <1>Requeued
  <2>19. Apart'
    BY <2>2, <2>3, <2>7, <2>14, <2>18 DEF Apart
  <2> QED
    BY <2>11, <2>12, <2>13, <2>17, <2>19 DEF WorkerInv
(* cleanup_after_child() loses what is under way, and the counter keeps it. *)
<1>CleanupKeeps.
      ASSUME WorkerInv, Running, CleanupAfterChild
      PROVE  WorkerInv'
  <2> USE <1>CleanupKeeps
  <2>1. /\ Typed /\ Growing /\ Holding /\ Childless /\ IdleWhenArmed
        /\ damage # "raced" /\ Apart /\ Counted
    BY DEF WorkerInv, Running
  <2>2. /\ parent.pc = "look" /\ lost' = lost \cup Underway
        /\ workitems' = Ring(Alloc(workitems))
        /\ next_workitem' = 0 /\ next_workeritem' = 0
        /\ responses' = Ring(Alloc(responses))
        /\ next_response' = 0 /\ next_workresp' = 0
        /\ thread_ref' = FALSE /\ reusable' = TRUE /\ pipe' = 0
        /\ stray' = (child.pc = "write") /\ child' = Gone
        /\ ArmIfIdle(intres_req_pending) /\ parent' = Idle
        /\ blocking_req_ready' = blocking_req_ready
        /\ intres_req_pending' = intres_req_pending
        /\ damage' \in {damage, "raced"} /\ aborted' = aborted
    BY DEF CleanupAfterChild
  <2>3. Alloc(workitems) \in Nat /\ Alloc(responses) \in Nat
    BY <2>1, RingFacts DEF Typed
  <2>4. /\ workitems' \in Rings(Items) /\ Alloc(workitems') = Alloc(workitems)
        /\ Req(workitems') = {} /\ Once(workitems')
        /\ responses' \in Rings(Responses) /\ Alloc(responses') = Alloc(responses)
        /\ Req(responses') = {} /\ Once(responses')
    BY <2>2, <2>3, EmptyRing, Sentinels
  <2>5. Ring(0) \in Rings(Items) /\ Ring(0) \in Rings(Responses)
    BY EmptyRing, Sentinels
  <2>6. /\ parent' \in Parents /\ parent'.pc = "idle"
        /\ child' \in Children /\ child'.pc = "none" /\ child'.req = Null
    BY <2>2, <2>5 DEF Idle, Gone, Parents, Children
  <2>7. /\ Pointer(next_workitem', workitems') /\ Pointer(next_workeritem', workitems')
        /\ Pointer(next_response', responses') /\ Pointer(next_workresp', responses')
    BY <2>2, <2>3, <2>4, SMT DEF Pointer
  <2>8. worker_idle_timer' = (worker_idle_timer \/ intres_req_pending = 0)
    BY <2>2 DEF ArmIfIdle
  <2>9. worker_idle_timer' \in BOOLEAN /\ IdleWhenArmed'
    <3>1. worker_idle_timer' \in BOOLEAN
      BY <2>8
    <3>2. worker_idle_timer' => worker_idle_timer \/ intres_req_pending = 0
      BY <2>8
    <3> QED
      BY <2>1, <2>2, <3>1, <3>2 DEF IdleWhenArmed
  <2>10. lost' = Owed /\ lost' \subseteq Requests
    BY <2>1, <2>2, OwedFinite DEF Owed
  <2>11. Typed'
    <3>1. pipe' \in Nat
      BY <2>2
    <3>2. stray' \in BOOLEAN
      BY <2>2
    <3> QED
      BY <2>1, <2>2, <2>4, <2>6, <2>7, <2>9, <2>10, <3>1, <3>2 DEF Typed
  <2>12. Growing' /\ Childless'
    BY <2>2, <2>4, <2>6 DEF Growing, Childless
  <2>13. Holding'
    <3>1. Alloc(workitems) > 0
      BY <2>1, <2>2 DEF Holding, Childless
    <3> QED
      BY <2>2, <2>4, <2>6, <3>1 DEF Holding
  <2>14. WithChild' = {} /\ WithParent' = {}
    BY <2>6 DEF WithChild, WithParent
  <2>15. Owed' = Owed
    BY <2>4, <2>10, <2>14, OwedNext
  <2>16. Counted'
    BY <2>1, <2>2, <2>15 DEF Counted, Intact
  <2>17. Apart'
    BY <2>4, <2>14 DEF Apart, Places
  <2> QED
    BY <2>9, <2>11, <2>12, <2>13, <2>16, <2>17 DEF WorkerInv
<1> SUFFICES ASSUME WorkerInv, [Next]_vars PROVE WorkerInv'
  OBVIOUS
<1>1. ASSUME Running, NEW r \in Requests, Ask(r) \/ AskAndStart(r) PROVE WorkerInv'
  BY <1>1, <1>AskKeeps, <1>AskAndStartKeeps
<1>2. ASSUME Running, GrowWorkitems \/ WorkerIdleTimerFired PROVE WorkerInv'
  BY <1>2, <1>GrowWorkitemsKeeps, <1>TimerKeeps
<1>3. ASSUME Running, ParentResponds PROVE WorkerInv'
  BY <1>3, <1>LookKeeps, <1>CompleteKeeps, <1>RetryKeeps, <1>CleanupKeeps DEF ParentResponds
<1>4. ASSUME Running, ChildStep PROVE WorkerInv'
  BY <1>4, <1>ReceiveKeeps, <1>StoreKeeps, <1>BeginGrowthKeeps, <1>GrowResponsesKeeps,
     <1>BytesKeep DEF ChildStep
<1>5. ASSUME UNCHANGED vars PROVE WorkerInv'
  <2>1. /\ workitems' = workitems /\ next_workitem' = next_workitem
        /\ next_workeritem' = next_workeritem
        /\ responses' = responses /\ next_response' = next_response
        /\ next_workresp' = next_workresp
        /\ blocking_req_ready' = blocking_req_ready /\ pipe' = pipe
        /\ thread_ref' = thread_ref /\ reusable' = reusable
        /\ intres_req_pending' = intres_req_pending
        /\ worker_idle_timer' = worker_idle_timer
        /\ parent' = parent /\ child' = child /\ stray' = stray
        /\ lost' = lost /\ damage' = damage /\ aborted' = aborted
    BY <1>5 DEF vars, rings
  <2>2. Typed' /\ Growing' /\ Holding' /\ Childless' /\ IdleWhenArmed'
    BY <2>1, ZenonT(40) DEF WorkerInv, Typed, Growing, Holding, Childless, IdleWhenArmed
  <2>3. damage' # "raced" => Apart' /\ Counted'
    BY <2>1 DEF WorkerInv, Apart, Counted, Intact, WithChild, WithParent, Owed,
                Underway
  <2> QED
    BY <2>2, <2>3 DEF WorkerInv
<1> QED
  BY <1>1, <1>2, <1>3, <1>4, <1>5 DEF Next

(* The invariant always holds.                                             *)
LEMMA WorkerHolds == Spec => []WorkerInv
BY InitWorker, WorkerStep, PTL DEF Spec

(* Every variable keeps its type, and every index of a ring lies within    *)
(* the ring, however often it was extended.                                *)
THEOREM TypeCorrect == Spec => []TypeOK
<1>1. WorkerInv => TypeOK
  <2> SUFFICES ASSUME WorkerInv PROVE TypeOK
    OBVIOUS
  <2>1. Typed
    BY DEF WorkerInv
  <2>2. /\ Alloc(workitems) \in Nat /\ Alloc(responses) \in Nat
        /\ workitems \in [0 .. (Alloc(workitems) - 1) -> Items]
        /\ responses \in [0 .. (Alloc(responses) - 1) -> Responses]
        /\ DOMAIN workitems = 0 .. (Alloc(workitems) - 1)
        /\ DOMAIN responses = 0 .. (Alloc(responses) - 1)
    BY <2>1, RingFacts DEF Typed
  <2>3. /\ next_workitem \in DOMAIN workitems \cup {0}
        /\ next_workeritem \in DOMAIN workitems \cup {0}
        /\ next_response \in DOMAIN responses \cup {0}
        /\ next_workresp \in DOMAIN responses \cup {0}
    BY <2>1, <2>2, SMT DEF Typed, Pointer
  <2>4. /\ parent.pc \in {"idle", "read", "look", "grow"}
        /\ child.pc \in {"none", "wait", "work", "grow", "write"}
    BY <2>1 DEF Typed, Parents, Children
  <2> QED
    BY <2>1, <2>2, <2>3, <2>4 DEF Typed, TypeOK
<1> QED
  BY <1>1, WorkerHolds, PTL

(* DEBUG_REQUIRE(0 == intres_req_pending) of worker_idle_timer_fired():    *)
(* the timer never runs with a request pending, for any set of requests    *)
(* and whatever becomes of the rings.                                      *)
THEOREM IdleWhenArmedHolds == Spec => []IdleWhenArmed
<1>1. WorkerInv => IdleWhenArmed
  BY DEF WorkerInv
<1> QED
  BY <1>1, WorkerHolds, PTL

-----------------------------------------------------------------------------
(* The counter and the queue.                                              *)

(* In a ring of n slots: the slot at a distance from the reader, and the   *)
(* distance of a slot.                                                     *)
Slot(n, from, i) == IF from + i < n THEN from + i ELSE from + i - n
Off(n, from, k) == IF k >= from THEN k - from ELSE k - from + n

(* Going round a ring is subtracting its length once.                      *)
LEMMA SlotIs ==
  ASSUME NEW n \in Nat, NEW from \in 0 .. (n - 1), NEW i \in 0 .. (n - 1)
  PROVE  /\ (from + i) % n = Slot(n, from, i)
         /\ Slot(n, from, i) \in 0 .. (n - 1)
         /\ Off(n, from, Slot(n, from, i)) = i
<1>1. n \in Nat \ {0} /\ from \in Nat /\ from < n /\ i \in Nat /\ i < n
  BY SMT
<1>2. from + i < n => (from + i) % n = from + i
  BY <1>1, SMT
<1>3. ~(from + i < n) => (from + i) % n = from + i - n
  <2> SUFFICES ASSUME ~(from + i < n) PROVE (from + i) % n = from + i - n
    OBVIOUS
  <2>1. from + i - n \in 0 .. n - 1 /\ from + i = n * 1 + (from + i - n)
    BY <1>1, SMT
  <2> QED
    BY <1>1, <2>1, SMT
<1>4. (from + i) % n = IF from + i < n THEN from + i ELSE from + i - n
  BY <1>2, <1>3
<1> QED
  BY <1>1, <1>4, SMT DEF Slot, Off

(* And back.                                                               *)
LEMMA OffIs ==
  ASSUME NEW n \in Nat, NEW from \in 0 .. (n - 1), NEW k \in 0 .. (n - 1)
  PROVE  /\ Off(n, from, k) \in 0 .. (n - 1)
         /\ Slot(n, from, Off(n, from, k)) = k
BY SMT DEF Slot, Off

(* intres_req_pending is exactly the number of requests on their way and   *)
(* of those cleanup_after_child() dropped, for any number of requests and  *)
(* rings of any length, while the rings and their indices are intact.      *)
THEOREM AccountedHolds == Spec => []Accounted
(* The queue read off a ring has as many requests as the ring.             *)
<1>RingCount.
      ASSUME NEW S, NEW ring \in Rings(S), NEW from, Pointer(from, ring), Once(ring)
      PROVE  /\ IsFiniteSet(Req(ring)) /\ Cardinality(Req(ring)) \in Nat
             /\ InRing(ring, from) \in Seq(Range(InRing(ring, from)))
             /\ Len(InRing(ring, from)) = Cardinality(Req(ring))
  <2> USE <1>RingCount
  <2> DEFINE A == Alloc(ring)
             At(i) == ring[(from + i) % A]
             I == {i \in 0 .. (A - 1) : At(i) \in Requests}
             f == [i \in I |-> At(i)]
             s == InRing(ring, from)
  <2>1. A \in Nat /\ DOMAIN ring = 0 .. (A - 1)
    BY RingFacts
  <2>2. IsFiniteSet(I) /\ Cardinality(I) \in Nat
    <3>1. IsFiniteSet(0 .. (A - 1))
      BY <2>1, FS_Interval, SMT
    <3> QED
      BY <3>1, FS_Subset, FS_CardinalityType
  <2>a. ASSUME NEW i \in 0 .. (A - 1)
        PROVE  /\ from \in 0 .. (A - 1) /\ (from + i) % A = Slot(A, from, i)
               /\ Slot(A, from, i) \in 0 .. (A - 1)
               /\ Off(A, from, Slot(A, from, i)) = i
    <3>1. A \in Nat /\ from \in 0 .. (A - 1)
      BY <2>1, SMT DEF Pointer
    <3> HIDE DEF A
    <3> QED
      BY <3>1, SlotIs
  <2>3. f \in Bijection(I, Req(ring))
    <3>1. ASSUME NEW i \in I PROVE f[i] \in Req(ring)
      BY <2>1, <2>a DEF Req, Range
    <3>2. ASSUME NEW i \in I, NEW j \in I, f[i] = f[j] PROVE i = j
      <4>1. /\ ring[Slot(A, from, i)] = ring[Slot(A, from, j)]
            /\ ring[Slot(A, from, i)] \in Requests
        BY <2>a, <3>2
      <4>2. Slot(A, from, i) = Slot(A, from, j)
        BY <2>1, <2>a, <4>1 DEF Once
      <4> QED
        BY <2>a, <4>2
    <3>3. ASSUME NEW x \in Req(ring) PROVE \E i \in I : f[i] = x
      <4>1. PICK k \in 0 .. (A - 1) : ring[k] = x /\ x \in Requests
        BY <2>1 DEF Req, Range
      <4> DEFINE i == Off(A, from, k)
      <4>2. i \in 0 .. (A - 1) /\ Slot(A, from, i) = k
        BY <2>1, <2>a, OffIs
      <4> HIDE DEF i
      <4>3. i \in I /\ f[i] = x
        BY <2>a, <4>1, <4>2
      <4> QED
        BY <4>3
    <3>4. f \in [I -> Req(ring)]
      BY <3>1
    <3> HIDE DEF I, f
    <3>5. f \in Injection(I, Req(ring))
      BY <3>2, <3>4 DEF Injection, IsInjective
    <3>6. f \in Surjection(I, Req(ring))
      BY <3>3, <3>4 DEF Surjection
    <3> QED
      BY <3>5, <3>6 DEF Bijection
  <2>4. IsFiniteSet(Req(ring)) /\ Cardinality(Req(ring)) = Cardinality(I)
    <3> HIDE DEF I, f
    <3> QED
      BY <2>2, <2>3, FS_Bijection DEF ExistsBijection
  <2>5. DOMAIN s = 1 .. Cardinality(I)
    BY DEF InRing
  <2> HIDE DEF I, s
  <2>6. s = [n \in 1 .. Cardinality(I) |-> s[n]]
    BY <2>5, SMT DEF InRing, s
  <2>7. s \in Seq(Range(s)) /\ Len(s) = Cardinality(I)
    BY <2>2, <2>5, <2>6, SMT DEF Range
  <2> QED
    BY <2>2, <2>4, <2>7 DEF s
(* Two sets that have nothing in common.                                   *)
<1>CountBoth.
      ASSUME NEW S, NEW T, IsFiniteSet(S), IsFiniteSet(T), S \cap T = {}
      PROVE  /\ IsFiniteSet(S \cup T) /\ Cardinality(S \cup T) \in Nat
             /\ Cardinality(S \cup T) = Cardinality(S) + Cardinality(T)
  <2> USE <1>CountBoth
  <2>1. /\ IsFiniteSet(S \cup T)
        /\ Cardinality(S \cup T)
             = Cardinality(S) + Cardinality(T) - Cardinality(S \cap T)
    BY FS_Union
  <2>2. Cardinality(S \cap T) = 0
    BY FS_EmptySet
  <2>3. Cardinality(S) \in Nat /\ Cardinality(T) \in Nat /\ Cardinality(S \cup T) \in Nat
    BY <2>1, FS_CardinalityType
  <2> QED
    BY <2>1, <2>2, <2>3, SMT
(* A sequence of one element, or none.                                     *)
<1>AtMostOne.
      ASSUME NEW C, NEW x, NEW cond \in BOOLEAN, C = IF cond THEN {x} ELSE {}
      PROVE  /\ IsFiniteSet(C) /\ Cardinality(C) \in Nat
             /\ (IF C # {} THEN <<x>> ELSE <<>>) \in Seq({x})
             /\ Len(IF C # {} THEN <<x>> ELSE <<>>) = Cardinality(C)
  <2> USE <1>AtMostOne
  <2>1. CASE cond
    <3>1. C = {x} /\ C # {}
      BY <2>1
    <3>2. IsFiniteSet(C) /\ Cardinality(C) = 1
      <4>1. IsFiniteSet({x}) /\ Cardinality({x}) = 1
        BY FS_Singleton
      <4> QED
        BY <3>1, <4>1
    <3>3. <<x>> \in Seq({x}) /\ Len(<<x>>) = 1
      BY SMT
    <3> QED
      BY <3>1, <3>2, <3>3, SMT
  <2>2. CASE ~cond
    BY <2>2, FS_EmptySet, SMT
  <2> QED
    BY <2>1, <2>2
(* The length of four sequences in a row.                                  *)
<1>FourLong.
      ASSUME NEW R, NEW C, NEW W, NEW P,
             NEW r \in Seq(R), NEW c \in Seq(C), NEW w \in Seq(W), NEW p \in Seq(P)
      PROVE  Len(r \o c \o w \o p) = Len(r) + Len(c) + Len(w) + Len(p)
  <2> USE <1>FourLong
  <2> DEFINE S == R \cup C \cup W \cup P
  <2>1. r \in Seq(S) /\ c \in Seq(S) /\ w \in Seq(S) /\ p \in Seq(S)
    BY SMT
  <2> HIDE DEF S
  <2>2. r \o c \in Seq(S) /\ Len(r \o c) = Len(r) + Len(c)
    BY <2>1, SMT
  <2>3. (r \o c) \o w \in Seq(S) /\ Len((r \o c) \o w) = Len(r \o c) + Len(w)
    BY <2>1, <2>2, SMT
  <2>4. Len(((r \o c) \o w) \o p) = Len((r \o c) \o w) + Len(p)
    BY <2>1, <2>3, SMT
  <2> QED
    BY <2>2, <2>3, <2>4
(* The queue is as long as the set of requests under way is large.         *)
<1>WaitingCount.
      ASSUME WorkerInv, damage # "raced"
      PROVE  /\ Len(Waiting) = Cardinality(Underway) /\ Len(Waiting) \in Nat
             /\ IsFiniteSet(Underway)
  <2> USE <1>WaitingCount
  <2> DEFINE r == InRing(responses, next_workresp)
             c == IF WithChild # {} THEN <<child.req>> ELSE <<>>
             w == InRing(workitems, next_workeritem)
             p == IF WithParent # {} THEN <<parent.req>> ELSE <<>>
             R == Req(responses)
             W == Req(workitems)
  <2>1. /\ IsFiniteSet(R) /\ Cardinality(R) \in Nat
        /\ r \in Seq(Range(r)) /\ Len(r) = Cardinality(R)
    BY <1>RingCount DEF WorkerInv, Typed, Apart
  <2>2. /\ IsFiniteSet(W) /\ Cardinality(W) \in Nat
        /\ w \in Seq(Range(w)) /\ Len(w) = Cardinality(W)
    BY <1>RingCount DEF WorkerInv, Typed, Apart
  <2>3. /\ IsFiniteSet(WithChild) /\ Cardinality(WithChild) \in Nat
        /\ c \in Seq({child.req}) /\ Len(c) = Cardinality(WithChild)
    <3> DEFINE cond == child.pc \in {"work", "grow"} /\ child.req \in Requests
    <3>1. WithChild = IF cond THEN {child.req} ELSE {}
      BY DEF WithChild
    <3>2. cond \in BOOLEAN
      OBVIOUS
    <3> HIDE DEF cond
    <3> QED
      BY <3>1, <3>2, <1>AtMostOne
  <2>4. /\ IsFiniteSet(WithParent) /\ Cardinality(WithParent) \in Nat
        /\ p \in Seq({parent.req}) /\ Len(p) = Cardinality(WithParent)
    <3> DEFINE cond == parent.pc = "grow" /\ parent.req \in Requests
    <3>1. WithParent = IF cond THEN {parent.req} ELSE {}
      BY DEF WithParent
    <3>2. cond \in BOOLEAN
      OBVIOUS
    <3> HIDE DEF cond
    <3> QED
      BY <3>1, <3>2, <1>AtMostOne
  <2>5. Waiting = r \o c \o w \o p
    BY DEF Waiting
  <2>6. Underway = ((R \cup WithChild) \cup W) \cup WithParent
    BY DEF Underway, Req
  <2>7. Places(R, WithChild, W, WithParent, lost)
    BY DEF WorkerInv, Apart
  <2> HIDE DEF r, c, w, p, R, W
  <2>8. Len(Waiting) = Len(r) + Len(c) + Len(w) + Len(p)
    <3> DEFINE S1 == Range(r)
               S2 == {child.req}
               S3 == Range(w)
               S4 == {parent.req}
    <3>1. r \in Seq(S1) /\ c \in Seq(S2) /\ w \in Seq(S3) /\ p \in Seq(S4)
      BY <2>1, <2>2, <2>3, <2>4
    <3> HIDE DEF S1, S2, S3, S4
    <3>2. Len(r \o c \o w \o p) = Len(r) + Len(c) + Len(w) + Len(p)
      BY <3>1, <1>FourLong, SMT
    <3> QED
      BY <2>5, <3>2
  <2>9. /\ R \cap WithChild = {} /\ (R \cup WithChild) \cap W = {}
        /\ ((R \cup WithChild) \cup W) \cap WithParent = {}
    BY <2>7 DEF Places
  <2>10. /\ IsFiniteSet(R \cup WithChild)
         /\ Cardinality(R \cup WithChild) = Cardinality(R) + Cardinality(WithChild)
    BY <2>1, <2>3, <2>9, <1>CountBoth
  <2>11. /\ IsFiniteSet((R \cup WithChild) \cup W)
         /\ Cardinality((R \cup WithChild) \cup W)
              = Cardinality(R \cup WithChild) + Cardinality(W)
    BY <2>2, <2>9, <2>10, <1>CountBoth
  <2>12. /\ IsFiniteSet(Underway)
         /\ Cardinality(Underway)
              = Cardinality((R \cup WithChild) \cup W) + Cardinality(WithParent)
    BY <2>4, <2>6, <2>9, <2>11, <1>CountBoth
  <2> QED
    BY <2>1, <2>2, <2>3, <2>4, <2>8, <2>10, <2>11, <2>12, SMTT(30)
<1>1. WorkerInv => Accounted
  <2> SUFFICES ASSUME WorkerInv, Intact
               PROVE  intres_req_pending = Len(Waiting) + Cardinality(lost)
    BY DEF Accounted
  <2>1. damage # "raced"
    BY DEF Intact
  <2>2. Len(Waiting) = Cardinality(Underway) /\ IsFiniteSet(Underway)
    BY <2>1, <1>WaitingCount
  <2>3. IsFiniteSet(lost)
    BY WorkerConstants, FS_Subset DEF WorkerInv, Typed
  <2>4. Underway \cap lost = {}
    BY <2>1 DEF WorkerInv, Apart, Places, Underway, Req
  <2>5. Cardinality(Owed) = Cardinality(Underway) + Cardinality(lost)
    BY <2>2, <2>3, <2>4, <1>CountBoth DEF Owed
  <2> QED
    BY <2>1, <2>2, <2>5 DEF WorkerInv, Counted
<1> QED
  BY <1>1, WorkerHolds, PTL

-----------------------------------------------------------------------------
(* The semaphore and the ring of requests.                                 *)

(* The slot after slot k.                                                  *)
After(n, k) == IF k + 1 = n THEN 0 ELSE k + 1

(* The place that a writer or a reader moves on to.                        *)
LEMMA AdvanceAfter ==
  ASSUME NEW ring, Alloc(ring) \in Nat, NEW k \in 0 .. (Alloc(ring) - 1)
  PROVE  Advance(ring, k) = After(Alloc(ring), k)
BY AdvanceIs, SMT DEF After

(* When the reader moves on, every slot but the one it left is one nearer. *)
LEMMA NextOff ==
  ASSUME NEW n \in Nat, NEW from \in 0 .. (n - 1)
  PROVE  /\ After(n, from) \in 0 .. (n - 1)
         /\ \A k \in 0 .. (n - 1) :
              /\ k = from => /\ Off(n, from, k) = 0
                             /\ Off(n, After(n, from), k) = n - 1
              /\ k # from => /\ Off(n, from, k) > 0
                             /\ Off(n, After(n, from), k) = Off(n, from, k) - 1
         /\ \A i \in 0 .. (n - 1) :
              Slot(n, After(n, from), i) = Slot(n, from, i + 1)
BY SMT DEF Off, Slot, After

(* The ring holds n requests from the reader to the writer, and nothing    *)
(* else.                                                                   *)
Even(ring, from, to, n) ==
  /\ n \in 0 .. Alloc(ring) /\ to = Slot(Alloc(ring), from, n)
  /\ \A k \in DOMAIN ring : IF Off(Alloc(ring), from, k) < n
                              THEN ring[k] \in Requests ELSE ring[k] = Null

(* ... after the child took the first ...                                  *)
LEMMA EvenTake ==
  ASSUME NEW ring \in Rings(Items), NEW from, Pointer(from, ring), Alloc(ring) > 0,
         NEW to, NEW n, Even(ring, from, to, n), n > 0
  PROVE  /\ ring[from] \in Requests
         /\ Even(Put(ring, from, Null), Advance(ring, from), to, n - 1)
<1> DEFINE A == Alloc(ring)
           new == Put(ring, from, Null)
           next == Advance(ring, from)
<1>1. A \in Nat /\ DOMAIN ring = 0 .. (A - 1) /\ from \in 0 .. (A - 1)
  BY RingFacts, SMT DEF Pointer
<1>2. /\ n \in 0 .. A /\ to = Slot(A, from, n)
      /\ \A k \in 0 .. (A - 1) : IF Off(A, from, k) < n
                                   THEN ring[k] \in Requests ELSE ring[k] = Null
  BY <1>1 DEF Even
<1>3. /\ Alloc(new) = A /\ DOMAIN new = 0 .. (A - 1)
      /\ \A k \in 0 .. (A - 1) : new[k] = IF k = from THEN Null ELSE ring[k]
  <2>1. from \in Nat /\ Null \in Items
    BY <1>1, Sentinels, SMT
  <2>2. /\ Alloc(new) = Alloc(ring) /\ DOMAIN new = DOMAIN ring
        /\ \A k \in DOMAIN ring : new[k] = IF k = from THEN Null ELSE ring[k]
    BY <2>1, PutRing, SMT
  <2> HIDE DEF new
  <2> QED
    BY <1>1, <2>2
<1>4. next = After(A, from)
  BY <1>1, AdvanceAfter
<1> HIDE DEF A, new, next
<1>5. /\ \A k \in 0 .. (A - 1) :
           /\ k = from => Off(A, from, k) = 0 /\ Off(A, next, k) = A - 1
           /\ k # from => /\ Off(A, from, k) > 0
                          /\ Off(A, next, k) = Off(A, from, k) - 1
      /\ \A i \in 0 .. (A - 1) : Slot(A, next, i) = Slot(A, from, i + 1)
  BY <1>1, <1>4, NextOff
<1>6. ring[from] \in Requests
  BY <1>1, <1>2, <1>5
<1>7. n - 1 \in 0 .. A /\ to = Slot(A, next, n - 1)
  <2>1. n - 1 \in 0 .. (A - 1) /\ (n - 1) + 1 = n
    BY <1>1, <1>2, SMT
  <2> QED
    BY <1>1, <1>2, <1>5, <2>1, SMT
<1>8. ASSUME NEW k \in 0 .. (A - 1)
      PROVE  IF Off(A, next, k) < n - 1 THEN new[k] \in Requests ELSE new[k] = Null
  <2>1. Off(A, from, k) \in Int
    BY <1>1, OffIs, SMT
  <2>2. CASE k = from
    BY <1>1, <1>2, <1>3, <1>5, <2>2, SMT
  <2>3. CASE k # from
    <3>1. Off(A, next, k) < n - 1 <=> Off(A, from, k) < n
      BY <1>2, <1>5, <2>1, <2>3, SMT
    <3> QED
      BY <1>2, <1>3, <2>3, <3>1
  <2> QED
    BY <2>2, <2>3
<1>9. Even(new, next, to, n - 1)
  BY <1>3, <1>7, <1>8 DEF Even
<1> QED
  BY <1>6, <1>9 DEF new, next

(* The child has been told to exit, or has gone.                           *)
Parting == thread_ref /\ (child.pc = "none" \/ child.req = ChildGoneResp)

(* What a child that may take a request finds: the request to exit, or as  *)
(* many requests as the semaphore counts.                                  *)
Fed ==
  (thread_ref /\ ~Parting) =>
    \/ workitems[next_workeritem] = ChildExitReq
    \/ Even(workitems, next_workeritem, next_workitem, blocking_req_ready)

(* What the next child will find.                                          *)
Vacant ==
  ~thread_ref =>
    /\ next_workeritem = 0 /\ next_response = 0 /\ next_workresp = 0
    /\ \A k \in DOMAIN responses : responses[k] = Null
    /\ \/ Alloc(workitems) > 0 /\ workitems[0] = ChildExitReq
       \/ next_workitem = 0 /\ \A k \in DOMAIN workitems : workitems[k] = Null

FedInv == Intact => ~aborted /\ Fed /\ Vacant

(* Every step.                                                             *)
LEMMA FedStep == WorkerInv /\ FedInv /\ [Next]_vars => FedInv'
(* The slot after the one at distance i.                                   *)
<1>NextSlot.
      ASSUME NEW n \in Nat, NEW from \in 0 .. (n - 1), NEW i \in 0 .. (n - 1)
      PROVE  After(n, Slot(n, from, i)) = Slot(n, from, i + 1)
  BY <1>NextSlot, SMT DEF Slot, After
(* Where the slots of an extended ring lie: those before the old end where *)
(* they were, the first new one next, all others behind.                   *)
<1>GrownOff.
      ASSUME NEW n \in Nat, NEW from \in 0 .. (n - 1), NEW m \in Nat, m > n,
             NEW k \in 0 .. (m - 1)
      PROVE  /\ k = n => Off(m, from, k) = n - from
             /\ (k < n /\ k >= from) =>
                  Off(m, from, k) = Off(n, from, k) /\ Off(n, from, k) < n - from
             /\ (k < n /\ k < from) =>
                  Off(m, from, k) > n - from /\ Off(n, from, k) >= n - from
             /\ k > n => Off(m, from, k) > n - from
  BY <1>GrownOff, SMT DEF Off
(* The writer at slot 0 is as far from the reader as the ring's end.       *)
<1>WriterAtStart.
      ASSUME NEW n \in Nat, NEW from \in 0 .. (n - 1), NEW h \in 1 .. n,
             Slot(n, from, h) = 0
      PROVE  from + h = n
  BY <1>WriterAtStart, SMT DEF Slot
(* It does after a request is queued in a free slot ...                    *)
<1>EvenPut.
      ASSUME NEW ring \in Rings(Items), NEW from, Pointer(from, ring), Alloc(ring) > 0,
             NEW to, NEW n, Even(ring, from, to, n), ring[to] = Null, NEW r \in Requests
      PROVE  Even(Put(ring, to, r), from, Advance(ring, to), n + 1)
  <2> USE <1>EvenPut
  <2> DEFINE A == Alloc(ring)
             new == Put(ring, to, r)
  <2>1. A \in Nat /\ DOMAIN ring = 0 .. (A - 1) /\ from \in 0 .. (A - 1)
    BY RingFacts, SMT DEF Pointer
  <2>2. /\ n \in 0 .. A /\ to = Slot(A, from, n)
        /\ \A k \in 0 .. (A - 1) : IF Off(A, from, k) < n
                                     THEN ring[k] \in Requests ELSE ring[k] = Null
    BY <2>1 DEF Even
  <2>3. r \in Items /\ r # Null /\ Null \notin Requests
    BY Sentinels
  <2> HIDE DEF A
  <2>4. n < A
    <3>1. n = A => to = from /\ Off(A, from, from) = 0
      BY <2>1, <2>2, SMT DEF Slot, Off
    <3> QED
      BY <2>1, <2>2, <2>3, <3>1, SMT
  <2>5. /\ to \in 0 .. (A - 1) /\ Off(A, from, to) = n
    BY <2>1, <2>2, <2>4, SlotIs, SMT
  <2>6. /\ Alloc(new) = A /\ DOMAIN new = 0 .. (A - 1)
        /\ \A k \in 0 .. (A - 1) : new[k] = IF k = to THEN r ELSE ring[k]
    <3>1. to \in Nat
      BY <2>1, <2>5, SMT
    <3>2. /\ Alloc(new) = Alloc(ring) /\ DOMAIN new = DOMAIN ring
          /\ \A k \in DOMAIN ring : new[k] = IF k = to THEN r ELSE ring[k]
      BY <2>3, <3>1, PutRing, SMT
    <3> HIDE DEF new
    <3> QED
      BY <2>1, <3>2 DEF A
  <2>7. Advance(ring, to) = After(A, to)
    BY <2>1, <2>5, AdvanceAfter DEF A
  <2>8. Advance(ring, to) = Slot(A, from, n + 1)
    BY <2>1, <2>2, <2>4, <2>7, <1>NextSlot, SMT
  <2> HIDE DEF new
  <2>9. ASSUME NEW k \in 0 .. (A - 1)
        PROVE  IF Off(A, from, k) < n + 1 THEN new[k] \in Requests ELSE new[k] = Null
    <3>1. Off(A, from, k) \in 0 .. (A - 1) /\ Slot(A, from, Off(A, from, k)) = k
      BY <2>1, OffIs
    <3>2. CASE k = to
      BY <2>2, <2>5, <2>6, <3>2, SMT
    <3>3. CASE k # to
      <4>1. Off(A, from, k) # n
        BY <2>2, <3>1, <3>3
      <4>2. Off(A, from, k) < n + 1 <=> Off(A, from, k) < n
        BY <2>2, <3>1, <4>1, SMT
      <4> QED
        BY <2>2, <2>6, <3>3, <4>2
    <3> QED
      BY <3>2, <3>3
  <2>10. n + 1 \in 0 .. A
    BY <2>1, <2>2, <2>4, SMT
  <2>11. Even(new, from, Advance(ring, to), n + 1)
    BY <2>6, <2>8, <2>9, <2>10 DEF Even
  <2> QED
    BY <2>11 DEF new
(* ... and after the ring was extended at its start.                       *)
<1>EvenGrow.
      ASSUME NEW ring \in Rings(Items), NEW from, Pointer(from, ring), Alloc(ring) > 0,
             NEW n, Even(ring, from, 0, n), n > 0, NEW r \in Requests
      PROVE  Even(Put(Extended(ring, WorkInc), Alloc(ring), r), from,
                  Advance(Extended(ring, WorkInc), Alloc(ring)), n + 1)
  <2> USE <1>EvenGrow
  <2> DEFINE A == Alloc(ring)
             B == A + WorkInc
             ext == Extended(ring, WorkInc)
             new == Put(ext, A, r)
             to == Advance(ext, A)
  <2>1. A \in Nat /\ DOMAIN ring = 0 .. (A - 1) /\ from \in 0 .. (A - 1)
    BY RingFacts, SMT DEF Pointer
  <2>2. /\ n \in 0 .. A /\ 0 = Slot(A, from, n)
        /\ \A k \in 0 .. (A - 1) : IF Off(A, from, k) < n
                                     THEN ring[k] \in Requests ELSE ring[k] = Null
    BY <2>1 DEF Even
  <2>3. /\ ext \in Rings(Items) /\ Alloc(ext) = B /\ DOMAIN ext = 0 .. (B - 1)
        /\ \A k \in DOMAIN ext : ext[k] = IF k < A THEN ring[k] ELSE Null
    <3>1. Null \in Items /\ WorkInc \in Nat
      BY Increments, Sentinels
    <3>2. ext \in Rings(Items) /\ Alloc(ext) = B
      BY <3>1, ExtendRing
    <3>3. DOMAIN ext = 0 .. (B - 1)
      BY <3>2, RingFacts
    <3>4. \A k \in DOMAIN ext : ext[k] = IF k < A THEN ring[k] ELSE Null
      BY <3>1, ExtendRing
    <3> QED
      BY <3>2, <3>3, <3>4
  <2>4. B \in Nat /\ A < B /\ B = A + WorkInc
    BY <2>1, Increments, SMT
  <2> HIDE DEF A, B, ext
  <2>5. /\ Alloc(new) = B /\ DOMAIN new = 0 .. (B - 1)
        /\ \A k \in DOMAIN ext : new[k] = IF k = A THEN r ELSE ext[k]
    <3>1. r \in Items /\ ext \in Rings(Items) /\ A \in Nat
      BY <2>1, <2>3, Sentinels
    <3>2. /\ Alloc(new) = Alloc(ext) /\ DOMAIN new = DOMAIN ext
          /\ \A k \in DOMAIN ext : new[k] = IF k = A THEN r ELSE ext[k]
      BY <3>1, PutRing, SMT
    <3> HIDE DEF new
    <3> QED
      BY <2>3, <3>2
  <2>6. to = After(B, A)
    BY <2>1, <2>3, <2>4, AdvanceAfter, SMT
  <2> HIDE DEF new, to
  <2>7. from + n = A
    BY <2>1, <2>2, <1>WriterAtStart, SMT
  <2>8. n + 1 \in 0 .. B /\ to = Slot(B, from, n + 1)
    BY <2>1, <2>2, <2>4, <2>6, <2>7, SMTT(30) DEF Slot, After
  <2>9. ASSUME NEW k \in 0 .. (B - 1)
        PROVE  IF Off(B, from, k) < n + 1 THEN new[k] \in Requests ELSE new[k] = Null
    <3>a. k \in DOMAIN ext
      BY <2>3
    <3>1. /\ k = A => Off(B, from, k) = n
          /\ (k < A /\ k >= from) => Off(B, from, k) = Off(A, from, k) /\ Off(A, from, k) < n
          /\ (k < A /\ k < from) => Off(B, from, k) > n /\ Off(A, from, k) >= n
          /\ k > A => Off(B, from, k) > n
      <4>1. A - from = n
        BY <2>1, <2>2, <2>7, SMT
      <4>2. /\ k = A => Off(B, from, k) = A - from
            /\ (k < A /\ k >= from) =>
                 Off(B, from, k) = Off(A, from, k) /\ Off(A, from, k) < A - from
            /\ (k < A /\ k < from) =>
                 Off(B, from, k) > A - from /\ Off(A, from, k) >= A - from
            /\ k > A => Off(B, from, k) > A - from
        BY <2>1, <2>4, <1>GrownOff
      <4> QED
        BY <4>1, <4>2
    <3>2. CASE k = A
      BY <2>2, <2>5, <3>a, <3>1, <3>2, SMT
    <3>3. CASE k < A /\ k >= from
      <4>1. Off(A, from, k) \in Int /\ k \in 0 .. (A - 1)
        BY <2>1, <3>3, OffIs, SMTT(30)
      <4>2. ring[k] \in Requests /\ new[k] = ring[k] /\ Off(B, from, k) < n + 1
        BY <2>1, <2>2, <2>3, <2>5, <3>a, <3>1, <3>3, <4>1, SMTT(30)
      <4> QED
        BY <4>2
    <3>4. CASE k < A /\ k < from
      <4>1. Off(A, from, k) \in Int /\ k \in 0 .. (A - 1) /\ Off(B, from, k) \in Int
        BY <2>1, <2>4, <3>4, OffIs, SMTT(30) DEF Off
      <4>2. ring[k] = Null /\ new[k] = ring[k] /\ ~(Off(B, from, k) < n + 1)
        BY <2>1, <2>2, <2>3, <2>5, <3>a, <3>1, <3>4, <4>1, SMTT(30)
      <4> QED
        BY <4>2
    <3>5. CASE k > A
      <4>1. Off(B, from, k) \in Int
        BY <2>1, <2>4, SMTT(30) DEF Off
      <4>2. new[k] = Null /\ ~(Off(B, from, k) < n + 1)
        BY <2>1, <2>2, <2>3, <2>5, <3>a, <3>1, <3>5, <4>1, SMTT(30)
      <4> QED
        BY <4>2
    <3> QED
      BY <2>1, <3>2, <3>3, <3>4, <3>5, SMTT(30)
  <2>10. Even(new, from, to, n + 1)
    BY <2>5, <2>8, <2>9 DEF Even
  <2> QED
    BY <2>10 DEF A, ext, new, to
(* Steps that leave the requests and the semaphore alone.                  *)
<1>FedSame.
      ASSUME FedInv, Intact' => Intact, aborted' = aborted,
             workitems' = workitems, next_workitem' = next_workitem,
             next_workeritem' = next_workeritem,
             blocking_req_ready' = blocking_req_ready, thread_ref' = thread_ref,
             Parting => Parting',
             \/ thread_ref
             \/ /\ responses' = responses /\ next_response' = next_response
                /\ next_workresp' = next_workresp
      PROVE  FedInv'
  <2> USE <1>FedSame
  <2>1. SUFFICES ASSUME Intact' PROVE ~aborted' /\ Fed' /\ Vacant'
    BY DEF FedInv
  <2>2. ~aborted /\ Fed /\ Vacant
    BY <2>1 DEF FedInv
  <2>3. Fed'
    BY <2>2 DEF Fed
  <2>4. Vacant'
    BY <2>2 DEF Vacant
  <2> QED
    BY <2>2, <2>3, <2>4
(* The steps of the child after it took a request, and of the parent when  *)
(* it queues nothing.                                                      *)
<1>FedQuiet.
      ASSUME WorkerInv, FedInv, Running,
             \/ StoreResponse \/ BeginResponseGrowth \/ GrowResponses
             \/ WriteByte \/ StrayByte \/ ReadPipe \/ NoResponse \/ Complete
      PROVE  FedInv'
  <2> USE <1>FedQuiet
  <2>1. /\ workitems' = workitems /\ next_workitem' = next_workitem
        /\ next_workeritem' = next_workeritem
        /\ blocking_req_ready' = blocking_req_ready
        /\ thread_ref' = thread_ref /\ aborted' = aborted
    BY DEF StoreResponse, BeginResponseGrowth, GrowResponses, WriteByte,
       StrayByte, ReadPipe, NoResponse, Complete, rings
  <2>2. child \in Children /\ (child.pc # "none" => thread_ref)
    BY SMT DEF WorkerInv, Typed, Childless, Gone
  <2>3. \/ thread_ref
        \/ /\ responses' = responses /\ next_response' = next_response
           /\ next_workresp' = next_workresp
    <3>1. ASSUME BeginResponseGrowth \/ WriteByte \/ StrayByte \/ ReadPipe \/ NoResponse
          PROVE  /\ responses' = responses /\ next_response' = next_response
                 /\ next_workresp' = next_workresp
      BY <3>1
         DEF BeginResponseGrowth, WriteByte, StrayByte, ReadPipe, NoResponse, rings
    <3>2. ASSUME StoreResponse \/ GrowResponses PROVE thread_ref
      BY <2>2, <3>2 DEF StoreResponse, GrowResponses
    <3>3. ASSUME Complete PROVE thread_ref
      BY <3>3, Taken DEF Complete, Running
    <3> QED
      BY <3>1, <3>2, <3>3
  <2>4. Intact' => Intact
    <3>1. ASSUME GrowResponses, Intact' PROVE Intact
      <4>1. PICK block : damage' = Growth(responses, child.copy, block,
                                          next_response, next_workresp)
        BY <3>1 DEF GrowResponses
      <4> QED
        BY <3>1, <4>1, GrowthFacts, SMT DEF Intact, WorkerInv, Typed, Running
    <3>2. ~GrowResponses => damage' = damage
      BY DEF StoreResponse, BeginResponseGrowth, WriteByte, StrayByte,
         ReadPipe, NoResponse, Complete
    <3> QED
      BY <3>1, <3>2 DEF Intact
  <2>5. Parting => Parting'
    <3>1. ASSUME StoreResponse \/ BeginResponseGrowth \/ GrowResponses
          PROVE  child'.req = child.req /\ child.pc # "none"
      BY <2>2, <3>1 DEF StoreResponse, BeginResponseGrowth, GrowResponses, Children
    <3>2. ASSUME WriteByte, child.req = ChildGoneResp PROVE child'.pc = "none"
      BY <2>2, <3>2 DEF WriteByte, Children
    <3>3. WriteByte => child.pc # "none"
      BY DEF WriteByte
    <3>4. ASSUME StrayByte \/ ReadPipe \/ NoResponse \/ Complete PROVE child' = child
      BY <3>4 DEF StrayByte, ReadPipe, NoResponse, Complete
    <3> QED
      BY <2>1, <3>1, <3>2, <3>3, <3>4 DEF Parting
  <2> QED
    BY <2>1, <2>3, <2>4, <2>5, <1>FedSame
(* send_blocking_req_internal() queues behind the request to exit, or      *)
(* posts the semaphore for what it queued.                                 *)
<1>FedSent.
      ASSUME WorkerInv, FedInv, Running, thread_ref, NEW r \in Requests,
             NEW after, SendToChild(r, after), next_workeritem' = next_workeritem,
             thread_ref' = thread_ref, child' = child, damage' = damage,
             aborted' = aborted
      PROVE  FedInv'
  <2> USE <1>FedSent
  <2>1. SUFFICES ASSUME Intact' PROVE ~aborted' /\ Fed' /\ Vacant'
    BY DEF FedInv
  <2>2. Intact /\ ~aborted /\ Fed
    BY <2>1 DEF FedInv, Intact
  <2>3. Vacant'
    BY DEF Vacant
  <2>4. Parting' <=> Parting
    BY DEF Parting
  <2>5. ASSUME ~Parting
        PROVE  \/ workitems'[next_workeritem'] = ChildExitReq
               \/ Even(workitems', next_workeritem', next_workitem', blocking_req_ready')
    <3>1. \/ workitems[next_workeritem] = ChildExitReq
          \/ Even(workitems, next_workeritem, next_workitem, blocking_req_ready)
      BY <2>2, <2>5 DEF Fed
    <3>2. CASE UNCHANGED <<workitems, next_workitem, blocking_req_ready>>
      BY <3>1, <3>2
    <3>3. CASE /\ ~Full(workitems, next_workitem)
               /\ QueueReqPointer(workitems, next_workitem, r, blocking_req_ready)
      <4>1. /\ workitems \in Rings(Items) /\ Alloc(workitems) > 0
            /\ Pointer(next_workeritem, workitems) /\ next_workitem \in Nat
            /\ next_workitem < Alloc(workitems)
            /\ next_workeritem \in DOMAIN workitems
        BY RingFacts, SMT DEF WorkerInv, Typed, Holding, Pointer
      <4>2. /\ workitems[next_workitem] = Null
            /\ workitems' = Put(workitems, next_workitem, r)
            /\ next_workitem' = Advance(workitems, next_workitem)
            /\ blocking_req_ready' = blocking_req_ready + 1
        BY <3>3 DEF Full, QueueReqPointer, Put
      <4>3. CASE Even(workitems, next_workeritem, next_workitem, blocking_req_ready)
        BY <4>1, <4>2, <4>3, <1>EvenPut
      <4>4. CASE workitems[next_workeritem] = ChildExitReq
        <5>1. next_workeritem # next_workitem /\ r \in Items
          BY <4>2, <4>4, Sentinels
        <5>2. \A k \in DOMAIN workitems :
                Put(workitems, next_workitem, r)[k] =
                  IF k = next_workitem THEN r ELSE workitems[k]
          <6>1. workitems \in Rings(Items) /\ next_workitem \in Nat
            BY <4>1
          <6> QED
            BY <5>1, <6>1, PutRing, SMT
        <5>3. workitems'[next_workeritem] = workitems[next_workeritem]
          BY <4>1, <4>2, <5>1, <5>2
        <5> QED
          BY <4>4, <5>3
      <4> QED
        BY <3>1, <4>3, <4>4
    <3> QED
      BY <3>2, <3>3 DEF SendToChild
  <2> QED
    BY <2>2, <2>3, <2>4, <2>5 DEF Fed
(* start_blocking_thread() resets the semaphore; the rings are empty then, *)
(* or the request to exit is where the child will read first.              *)
<1>FedStart.
      ASSUME WorkerInv, FedInv, Running, NEW r \in Requests, AskAndStart(r)
      PROVE  FedInv'
  <2> USE <1>FedStart
  <2>1. SUFFICES ASSUME Intact' PROVE ~aborted' /\ Fed' /\ Vacant'
    BY DEF FedInv
  <2> DEFINE grow == Full(workitems, next_workitem)
             ring == IF grow THEN Extended(workitems, WorkInc) ELSE workitems
             at == IF grow THEN ExtendedAt(workitems, next_workitem)
                           ELSE next_workitem
  <2>2. /\ ~thread_ref /\ thread_ref' /\ aborted' = aborted
        /\ next_workeritem' = next_workeritem
        /\ damage' = IF grow /\ next_workitem # 0 THEN "lapped" ELSE damage
        /\ workitems' = Put(ring, at, r) /\ next_workitem' = Advance(ring, at)
        /\ blocking_req_ready' = 0 + 1
    BY DEF AskAndStart, StartChild, QueueReqPointer, Put
  <2>3. Intact /\ (grow => next_workitem = 0)
    BY <2>1, <2>2 DEF Intact
  <2>4. /\ ~aborted /\ next_workeritem = 0
        /\ \/ Alloc(workitems) > 0 /\ workitems[0] = ChildExitReq
           \/ next_workitem = 0 /\ \A k \in DOMAIN workitems : workitems[k] = Null
    BY <2>2, <2>3 DEF FedInv, Vacant
  <2>5. /\ workitems \in Rings(Items) /\ Alloc(workitems) \in Nat
        /\ DOMAIN workitems = 0 .. (Alloc(workitems) - 1)
        /\ Pointer(next_workitem, workitems)
    BY RingFacts DEF WorkerInv, Typed
  <2> DEFINE ext == Extended(workitems, WorkInc)
  <2>6. /\ ext \in Rings(Items) /\ Alloc(ext) = Alloc(workitems) + WorkInc
        /\ \A k \in DOMAIN ext :
             ext[k] = IF k < Alloc(workitems) THEN workitems[k] ELSE Null
    BY <2>5, ExtendRing, Increments, Sentinels
  <2>7. DOMAIN ext = 0 .. (Alloc(ext) - 1) /\ Alloc(ext) \in Nat
    BY <2>6, RingFacts
  <2>8. r \in Items /\ r # Null /\ ChildExitReq # Null
    BY Sentinels
  <2> HIDE DEF ext
  <2>9. ring = (IF grow THEN ext ELSE workitems)
    BY DEF ext
  <2>10. /\ ring \in Rings(Items) /\ Alloc(ring) \in Nat /\ Alloc(ring) > 0
         /\ 0 \in DOMAIN ring /\ at \in Nat
    BY <2>3, <2>5, <2>6, <2>7, <2>9, Increments, SMT DEF Full, ExtendedAt, Pointer
  <2>11. CASE Alloc(workitems) > 0 /\ workitems[0] = ChildExitReq
    <3>1. at # 0
      BY <2>3, <2>8, <2>11, SMT DEF Full, ExtendedAt
    <3>2. ring[0] = ChildExitReq
      BY <2>5, <2>6, <2>7, <2>9, <2>11, Increments, SMTT(30)
    <3> HIDE DEF ring, at
    <3>3. workitems'[0] = ring[0]
      BY <2>2, <2>8, <2>10, <3>1, PutRing, SMT
    <3> QED
      BY <2>2, <2>4, <3>2, <3>3 DEF Fed, Vacant
  <2>12. CASE next_workitem = 0 /\ \A k \in DOMAIN workitems : workitems[k] = Null
    <3>1. at = 0 /\ \A k \in DOMAIN ring : ring[k] = Null
      <4>1. CASE Alloc(workitems) = 0
        BY <2>6, <2>7, <2>9, <2>12, <4>1, SMTT(30) DEF Full, ExtendedAt
      <4>2. CASE Alloc(workitems) # 0
        <5>1. ~grow
          BY <2>5, <2>12, <4>2, SMT DEF Full
        <5> QED
          BY <2>9, <2>12, <5>1
      <4> QED
        BY <4>1, <4>2
    <3> HIDE DEF ring, at
    <3> DEFINE A == Alloc(ring)
    <3>2. A \in Nat /\ A > 0 /\ DOMAIN ring = 0 .. (A - 1)
      BY <2>10, RingFacts
    <3>3. Even(ring, 0, 0, 0)
      <4> HIDE DEF A
      <4>1. /\ 0 \in 0 .. A /\ 0 = Slot(A, 0, 0)
            /\ \A k \in DOMAIN ring : ~(Off(A, 0, k) < 0)
        BY <3>2, SMT DEF Slot, Off
      <4> QED
        BY <3>1, <4>1 DEF Even, A
    <3>4. Pointer(0, ring)
      BY <3>2 DEF Pointer
    <3>5. ring[0] = Null
      BY <2>10, <3>1
    <3>6. Even(Put(ring, 0, r), 0, Advance(ring, 0), 0 + 1)
      BY <2>10, <3>3, <3>4, <3>5, <1>EvenPut
    <3> QED
      BY <2>2, <2>4, <3>1, <3>6 DEF Fed, Vacant
  <2> QED
    BY <2>4, <2>11, <2>12
(* A ring extended at its start still has its requests in a row.           *)
<1>FedGrow.
      ASSUME WorkerInv, FedInv, Running, GrowWorkitems
      PROVE  FedInv'
  <2> USE <1>FedGrow
  <2>1. SUFFICES ASSUME Intact' PROVE ~aborted' /\ Fed' /\ Vacant'
    BY DEF FedInv
  <2>2. PICK block \in Moved(workitems, parent.copy) :
          /\ QueueReqPointer(Extended(block, WorkInc),
                             ExtendedAt(block, next_workitem),
                             parent.req, blocking_req_ready)
          /\ damage' = Growth(workitems, parent.copy, block,
                              next_workitem, next_workeritem)
    BY DEF GrowWorkitems
  <2>3. /\ parent.pc = "grow" /\ next_workeritem' = next_workeritem
        /\ thread_ref' = thread_ref /\ child' = child /\ aborted' = aborted
    BY DEF GrowWorkitems
  <2>4. /\ Intact /\ next_workitem = 0 /\ block = workitems
        /\ ~(next_workeritem = 0 /\ workitems # parent.copy)
    BY <2>1, <2>2, GrowthFacts, SMT DEF Intact, WorkerInv, Typed, Running
  <2>5. /\ thread_ref /\ ~aborted /\ Fed
        /\ parent.req \in Requests /\ parent.copy[0] # Null
    BY <2>3, <2>4 DEF FedInv, WorkerInv, Childless, Growing
  <2> DEFINE A == Alloc(workitems)
             ext == Extended(workitems, WorkInc)
             r == parent.req
  <2>6. /\ workitems' = Put(ext, A, r) /\ next_workitem' = Advance(ext, A)
        /\ blocking_req_ready' = blocking_req_ready + 1
    <3>1. ExtendedAt(workitems, next_workitem) = A
      BY <2>4 DEF ExtendedAt
    <3> QED
      BY <2>2, <2>4, <3>1 DEF QueueReqPointer, Put
  <2>7. /\ workitems \in Rings(Items) /\ A \in Nat /\ A > 0
        /\ DOMAIN workitems = 0 .. (A - 1)
        /\ Pointer(next_workeritem, workitems)
        /\ next_workeritem \in 0 .. (A - 1)
    BY <2>5, RingFacts, SMT DEF WorkerInv, Typed, Holding, Pointer
  <2>8. r \in Requests /\ r \in Items
    BY <2>5, Sentinels
  <2>9. ASSUME ~Parting
        PROVE  \/ workitems'[next_workeritem'] = ChildExitReq
               \/ Even(workitems', next_workeritem', next_workitem', blocking_req_ready')
    <3>1. CASE workitems[next_workeritem] = ChildExitReq
      <4>1. /\ ext \in Rings(Items)
            /\ \A k \in DOMAIN ext : ext[k] = IF k < A THEN workitems[k] ELSE Null
            /\ DOMAIN ext = 0 .. (A + WorkInc - 1)
        BY <2>7, ExtendRing, Increments, Sentinels
      <4>2. next_workeritem \in DOMAIN ext /\ next_workeritem < A
        BY <2>7, <4>1, Increments, SMTT(30)
      <4> HIDE DEF ext, A, r
      <4>3. \A k \in DOMAIN ext : Put(ext, A, r)[k] = IF k = A THEN r ELSE ext[k]
        <5>1. r \in Items /\ ext \in Rings(Items) /\ A \in Nat
          BY <2>7, <2>8, <4>1
        <5> QED
          BY <5>1, PutRing, SMT
      <4>4. next_workeritem # A
        BY <2>7, <4>2, SMT
      <4>5. workitems'[next_workeritem] = ext[next_workeritem]
        BY <2>6, <4>2, <4>3, <4>4
      <4> QED
        BY <2>3, <3>1, <4>1, <4>2, <4>5
    <3>2. CASE Even(workitems, next_workeritem, next_workitem, blocking_req_ready)
      <4>1. Even(workitems, next_workeritem, 0, blocking_req_ready)
        BY <2>4, <3>2
      <4>2. blocking_req_ready > 0
        <5>1. blocking_req_ready \in Nat
          BY DEF WorkerInv, Typed
        <5> SUFFICES ASSUME blocking_req_ready = 0 PROVE FALSE
          BY <5>1, SMT
        <5>2. /\ 0 = Slot(A, next_workeritem, 0)
              /\ \A k \in DOMAIN workitems : IF Off(A, next_workeritem, k) < 0
                   THEN workitems[k] \in Requests ELSE workitems[k] = Null
          BY <4>1 DEF Even
        <5> HIDE DEF A
        <5>3. next_workeritem = 0
          BY <2>7, <5>2, SMT DEF Slot
        <5>4. 0 \in DOMAIN workitems /\ ~(Off(A, 0, 0) < 0)
          BY <2>7, SMT DEF Off
        <5>5. workitems[0] = Null
          BY <5>2, <5>3, <5>4
        <5> QED
          BY <2>4, <2>5, <5>3, <5>5
      <4>3. Even(Put(ext, A, r), next_workeritem, Advance(ext, A), blocking_req_ready + 1)
        BY <2>7, <2>8, <4>1, <4>2, <1>EvenGrow
      <4> QED
        BY <2>3, <2>6, <4>3
    <3> QED
      BY <2>5, <2>9, <3>1, <3>2 DEF Fed
  <2> QED
    BY <2>3, <2>5, <2>9 DEF Fed, Vacant, Parting
(* The request to exit goes where the child reads next, since nothing      *)
(* waits when the idle timer fires.                                        *)
<1>FedTimer.
      ASSUME WorkerInv, FedInv, Running, WorkerIdleTimerFired
      PROVE  FedInv'
  <2> USE <1>FedTimer
  <2>1. SUFFICES ASSUME Intact' PROVE ~aborted' /\ Fed' /\ Vacant'
    BY DEF FedInv
  <2>2. /\ worker_idle_timer
        /\ workitems' = Put(workitems, next_workitem, ChildExitReq)
        /\ next_workeritem' = next_workeritem /\ responses' = responses
        /\ next_response' = next_response /\ next_workresp' = next_workresp
        /\ thread_ref' = thread_ref /\ child' = child /\ damage' = damage
        /\ aborted' = aborted
    BY DEF WorkerIdleTimerFired, QueueReqPointer, Put
  <2>3. ~aborted /\ Fed /\ Vacant
    BY <2>1, <2>2 DEF FedInv, Intact
  <2> DEFINE A == Alloc(workitems)
  <2>4. /\ workitems \in Rings(Items) /\ A \in Nat /\ A > 0
        /\ DOMAIN workitems = 0 .. (A - 1)
        /\ next_workitem \in Nat /\ next_workeritem \in 0 .. (A - 1)
        /\ blocking_req_ready \in Nat
    BY <2>2, RingFacts, SMT DEF WorkerInv, Typed, Holding, Pointer
  <2>5. \A k \in DOMAIN workitems : workitems[k] \notin Requests
    <3>1. Req(workitems) = {}
      BY <2>2, NothingOwed, OwedIs DEF Running
    <3> QED
      BY <3>1 DEF Req, Range
  <2>6. /\ DOMAIN workitems' = DOMAIN workitems /\ Alloc(workitems') = A
        /\ \A k \in DOMAIN workitems :
             workitems'[k] = IF k = next_workitem THEN ChildExitReq ELSE workitems[k]
    <3> DEFINE new == Put(workitems, next_workitem, ChildExitReq)
    <3>1. /\ DOMAIN new = DOMAIN workitems /\ Alloc(new) = A
          /\ \A k \in DOMAIN workitems :
               new[k] = IF k = next_workitem THEN ChildExitReq ELSE workitems[k]
      <4>1. ChildExitReq \in Items /\ workitems \in Rings(Items) /\ next_workitem \in Nat
        BY <2>4, Sentinels
      <4> QED
        BY <4>1, PutRing, SMT
    <3> HIDE DEF new
    <3>2. workitems' = new
      BY <2>2 DEF new
    <3> QED
      BY <3>1, <3>2
  <2>7. ASSUME thread_ref, ~Parting
        PROVE  workitems'[next_workeritem] = ChildExitReq
    <3>1. CASE workitems[next_workeritem] = ChildExitReq
      BY <2>4, <2>6, <3>1
    <3>2. CASE Even(workitems, next_workeritem, next_workitem, blocking_req_ready)
      <4>1. /\ next_workitem = Slot(A, next_workeritem, blocking_req_ready)
            /\ Off(A, next_workeritem, next_workeritem) < blocking_req_ready =>
                 workitems[next_workeritem] \in Requests
        BY <2>4, <3>2 DEF Even
      <4> HIDE DEF A
      <4>2. blocking_req_ready = 0
        BY <2>4, <2>5, <4>1, SMT DEF Off
      <4>3. next_workitem = next_workeritem
        BY <2>4, <4>1, <4>2, SMT DEF Slot
      <4> QED
        BY <2>4, <2>6, <4>3
    <3> QED
      BY <2>3, <2>7, <3>1, <3>2 DEF Fed
  <2>8. ASSUME ~thread_ref
        PROVE  /\ next_workeritem = 0 /\ next_response = 0 /\ next_workresp = 0
               /\ \A k \in DOMAIN responses : responses[k] = Null
               /\ workitems'[0] = ChildExitReq
    <3>1. 0 \in DOMAIN workitems
      BY <2>4, SMT
    <3> QED
      BY <2>3, <2>6, <2>8, <3>1 DEF Vacant
  <2>9. Fed'
    BY <2>2, <2>7 DEF Fed, Parting
  <2>10. Vacant'
    <3>1. Alloc(workitems') > 0
      BY <2>4, <2>6
    <3> QED
      BY <2>2, <2>8, <3>1 DEF Vacant
  <2> QED
    BY <2>2, <2>3, <2>9, <2>10
(* The child finds a request, or the one to exit, whenever the semaphore   *)
(* lets it pass.                                                           *)
<1>FedReceive.
      ASSUME WorkerInv, FedInv, Running, ReceiveBlockingReq
      PROVE  FedInv'
  <2> USE <1>FedReceive
  <2>1. SUFFICES ASSUME Intact' PROVE ~aborted' /\ Fed' /\ Vacant'
    BY DEF FedInv
  <2>2. /\ child.pc = "wait" /\ blocking_req_ready > 0
        /\ blocking_req_ready' = blocking_req_ready - 1
        /\ thread_ref' = thread_ref /\ damage' = damage
    BY DEF ReceiveBlockingReq
  <2>3. ~aborted /\ Fed
    BY <2>1, <2>2 DEF FedInv, Intact
  <2>4. child \in Children /\ thread_ref /\ child.req = Null
    BY <2>2, SMT DEF WorkerInv, Typed, Childless, Holding, Gone
  <2>5. ~Parting
    BY <2>2, <2>4, Sentinels DEF Parting
  <2>6. /\ workitems \in Rings(Items) /\ Alloc(workitems) > 0
        /\ Pointer(next_workeritem, workitems)
    BY <2>4 DEF WorkerInv, Typed, Holding
  <2>7. CASE workitems[next_workeritem] = ChildExitReq
    <3>1. child'.req = ChildGoneResp /\ aborted' = aborted
      BY <2>4, <2>7, Sentinels DEF ReceiveBlockingReq, Children
    <3> QED
      BY <2>2, <2>3, <2>4, <3>1 DEF Fed, Vacant, Parting
  <2>8. CASE Even(workitems, next_workeritem, next_workitem, blocking_req_ready)
    <3>1. /\ workitems[next_workeritem] \in Requests
          /\ Even(Put(workitems, next_workeritem, Null),
                  Advance(workitems, next_workeritem), next_workitem,
                  blocking_req_ready - 1)
      BY <2>2, <2>6, <2>8, EvenTake
    <3>2. /\ workitems' = Put(workitems, next_workeritem, Null)
          /\ next_workeritem' = Advance(workitems, next_workeritem)
          /\ next_workitem' = next_workitem /\ aborted' = aborted
      BY <3>1, Sentinels DEF ReceiveBlockingReq, Put
    <3> QED
      BY <2>2, <2>3, <2>4, <3>1, <3>2 DEF Fed, Vacant
  <2> QED
    BY <2>3, <2>4, <2>5, <2>7, <2>8 DEF Fed
(* cleanup_after_child() leaves empty rings.                               *)
<1>FedCleanup.
      ASSUME WorkerInv, FedInv, CleanupAfterChild
      PROVE  FedInv'
  <2> USE <1>FedCleanup
  <2>1. SUFFICES ASSUME Intact' PROVE ~aborted' /\ Fed' /\ Vacant'
    BY DEF FedInv
  <2>2. /\ workitems' = Ring(Alloc(workitems)) /\ responses' = Ring(Alloc(responses))
        /\ next_workitem' = 0 /\ next_workeritem' = 0
        /\ next_response' = 0 /\ next_workresp' = 0
        /\ ~thread_ref' /\ damage' \in {damage, "raced"} /\ aborted' = aborted
    BY DEF CleanupAfterChild
  <2>3. ~aborted
    BY <2>1, <2>2 DEF FedInv, Intact
  <2>4. /\ \A k \in DOMAIN workitems' : workitems'[k] = Null
        /\ \A k \in DOMAIN responses' : responses'[k] = Null
    BY <2>2 DEF Ring
  <2> QED
    BY <2>2, <2>3, <2>4 DEF Fed, Vacant
<1> SUFFICES ASSUME WorkerInv, FedInv, [Next]_vars PROVE FedInv'
  OBVIOUS
<1>1. CASE UNCHANGED vars
  <2>1. /\ workitems' = workitems /\ next_workitem' = next_workitem
        /\ next_workeritem' = next_workeritem /\ responses' = responses
        /\ next_response' = next_response /\ next_workresp' = next_workresp
        /\ blocking_req_ready' = blocking_req_ready /\ thread_ref' = thread_ref
        /\ child' = child /\ damage' = damage /\ aborted' = aborted
    BY <1>1 DEF vars, rings
  <2>2. (Intact' => Intact) /\ (Parting => Parting')
    BY <2>1 DEF Intact, Parting
  <2> QED
    BY <2>1, <2>2, <1>FedSame
<1>2. CASE Next
  <2>1. Running
    BY <1>2 DEF Next
  <2>2. ASSUME NEW r \in Requests, Ask(r) PROVE FedInv'
    <3>1. /\ thread_ref /\ SendToChild(r, "idle")
          /\ next_workeritem' = next_workeritem /\ thread_ref' = thread_ref
          /\ child' = child /\ damage' = damage /\ aborted' = aborted
      BY <2>2 DEF Ask
    <3> QED
      BY <2>1, <3>1, <1>FedSent
  <2>3. ASSUME NEW r \in Requests, AskAndStart(r) PROVE FedInv'
    BY <2>1, <2>3, <1>FedStart
  <2>4. CASE Retry
    <3>1. /\ TakeResponse /\ SendToChild(Found, "read")
          /\ next_workeritem' = next_workeritem /\ thread_ref' = thread_ref
          /\ child' = child /\ damage' = damage /\ aborted' = aborted
      BY <2>4 DEF Retry
    <3>2. thread_ref /\ Found \in Requests
      BY <2>1, <3>1, Taken DEF Running
    <3> QED
      BY <2>1, <3>1, <3>2, <1>FedSent
  <2>5. CASE \/ StoreResponse \/ BeginResponseGrowth \/ GrowResponses
             \/ WriteByte \/ StrayByte \/ ReadPipe \/ NoResponse \/ Complete
    BY <2>1, <2>5, <1>FedQuiet
  <2> QED
    BY <1>2, <2>1, <2>2, <2>3, <2>4, <2>5, <1>FedGrow, <1>FedTimer, <1>FedReceive,
       <1>FedCleanup DEF Next, ParentResponds, ChildStep
<1> QED
  BY <1>1, <1>2

(* The rings are right in every reachable state.                           *)
LEMMA FedHolds == Spec => []FedInv
<1>1. Init => FedInv
  <2> SUFFICES ASSUME Init PROVE ~aborted /\ Fed /\ Vacant
    BY DEF FedInv
  <2>1. /\ \A k \in DOMAIN workitems : workitems[k] = Null
        /\ \A k \in DOMAIN responses : responses[k] = Null
    BY DEF Init, Ring
  <2> QED
    BY <2>1 DEF Init, Fed, Vacant
<1> QED
  BY <1>1, FedStep, WorkerHolds, PTL DEF Spec

(* INSIST(NULL != req) of receive_blocking_req_internal() never fails: for *)
(* any number of requests and any sizes of the rings, a child that the     *)
(* semaphore lets pass finds a request, as long as no ring was extended    *)
(* away from its start, and neither a ring nor its index was changed under *)
(* the other thread's hands.                                               *)
THEOREM InsistReqHolds == Spec => []InsistReq
<1>1. FedInv => InsistReq
  BY DEF FedInv, InsistReq
<1> QED
  BY <1>1, FedHolds, PTL
=============================================================================
