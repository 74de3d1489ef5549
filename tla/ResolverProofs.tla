--------------------------- MODULE ResolverProofs ---------------------------
(***************************************************************************)
(* The proof that the blocking worker (Worker) implements the queue of     *)
(* Resolver: the invariant that places the reader and the writer of each   *)
(* ring, and for each step of the parent and of the child the step of the  *)
(* queue it is, or none.                                                   *)
(***************************************************************************)
EXTENDS QueueProofs

(* Zenon is the default prover of the leaves below; those that need arithmetic
   or that only the SMT solver finds cite SMT.                              *)
USE Zenon

-----------------------------------------------------------------------------
(* The invariant of the rings, and the steps.                              *)

(* The requests lie between the child and the parent; the child has the    *)
(* first item before it, or none; so it is still when the request to exit  *)
(* is the first.                                                           *)
Requested ==
  Alloc(workitems) > 0 =>
    /\ Ahead(workitems, next_workeritem, next_workitem)
    /\ ~Parting => Second(workitems, next_workeritem, next_workitem)

(* The answers lie between the parent and the child; a child that said it  *)
(* is gone has left that among them.                                       *)
Answering == Alloc(responses) > 0 => Solid(responses, next_workresp, next_response)
Said ==
  (thread_ref /\ (child.pc = "none" \/ (child.pc = "write" /\ child.req = ChildGoneResp)))
    => ChildGoneResp \in Range(responses)

LineInv == Intact => Requested /\ Answering /\ Said

(* A step of the abstract queue, or none.                                  *)
Refined == Promise!Next \/ UNCHANGED Promise!vars

(* Nothing more is asked of rings that are spoilt.                         *)
LEMMA Broken ==
  ASSUME ~Intact'
  PROVE  LineInv' /\ Refined
<1>1. LineInv'
  BY DEF LineInv
<1>2. CASE Intact
  BY <1>1, <1>2, StepBreak DEF Refined
<1>3. CASE ~Intact
  <2>1. /\ Intact' <=> Intact
        /\ Intact => Waiting' = Waiting /\ (Leaving' <=> Leaving) /\ lost' = lost
    BY <1>3
  <2>2. UNCHANGED Promise!vars
    BY <2>1, StepSame
  <2> QED
    BY <1>1, <2>2 DEF Refined
<1> QED
  BY <1>2, <1>3

(* Where the pointers of rings in use are.                                 *)
LEMMA InUse ==
  ASSUME WorkerInv
  PROVE  /\ workitems \in Rings(Items) /\ responses \in Rings(Responses)
         /\ Alloc(workitems) > 0 =>
              next_workitem \in DOMAIN workitems /\ next_workeritem \in DOMAIN workitems
         /\ Alloc(responses) > 0 =>
              next_response \in DOMAIN responses /\ next_workresp \in DOMAIN responses
         /\ thread_ref => Alloc(workitems) > 0 /\ Alloc(responses) > 0
<1>1. /\ workitems \in Rings(Items) /\ responses \in Rings(Responses)
      /\ Pointer(next_workitem, workitems) /\ Pointer(next_workeritem, workitems)
      /\ Pointer(next_response, responses) /\ Pointer(next_workresp, responses)
      /\ thread_ref => Alloc(workitems) > 0 /\ Alloc(responses) > 0
  BY DEF WorkerInv, Typed, Holding
<1>2. ASSUME NEW S, NEW ring \in Rings(S), NEW next, Pointer(next, ring), Alloc(ring) > 0
      PROVE  next \in DOMAIN ring
  BY <1>2, RingFacts, SMT DEF Pointer
<1> QED
  BY <1>1, <1>2

(* Steps that leave the rings alone.                                       *)
LEMMA QuietRefines ==
  ASSUME LineInv, Intact, Intact',
         workitems' = workitems, next_workitem' = next_workitem,
         next_workeritem' = next_workeritem, responses' = responses,
         next_response' = next_response, next_workresp' = next_workresp,
         lost' = lost, ChildQ' = ChildQ, ParentQ' = ParentQ,
         Parting => Parting', Said', Leaving' <=> Leaving
  PROVE  LineInv' /\ Refined
<1>1. Requested /\ Answering
  BY DEF LineInv
<1>2. Requested'
  BY <1>1 DEF Requested
<1>3. Answering'
  BY <1>1 DEF Answering
<1>4. Waiting' = Waiting
  <2>1. /\ Waiting = InRing(responses, next_workresp) \o ChildQ
                       \o InRing(workitems, next_workeritem) \o ParentQ
        /\ Waiting' = InRing(responses', next_workresp') \o ChildQ'
                        \o InRing(workitems', next_workeritem') \o ParentQ'
    BY DEF Waiting, ChildQ, ParentQ
  <2> HIDE DEF ChildQ, ParentQ
  <2> QED
    BY <2>1
<1>5. UNCHANGED Promise!vars
  BY <1>4, StepSame
<1> QED
  BY <1>2, <1>3, <1>5 DEF LineInv, Refined

(* A child that is about to go does not stay.                              *)
LEMMA PartingStays ==
  ASSUME WorkerInv,
         \/ StoreResponse \/ BeginResponseGrowth \/ GrowResponses
         \/ WriteByte \/ StrayByte \/ ReadPipe \/ NoResponse \/ Complete
  PROVE  thread_ref' = thread_ref /\ (Parting => Parting')
<1>1. child \in Children
  BY DEF WorkerInv, Typed
<1>2. thread_ref' = thread_ref
  BY DEF StoreResponse, BeginResponseGrowth, GrowResponses, WriteByte,
     StrayByte, ReadPipe, NoResponse, Complete
<1>3. ASSUME StoreResponse \/ BeginResponseGrowth \/ GrowResponses
      PROVE  child'.req = child.req /\ child.pc # "none"
  BY <1>1, <1>3 DEF StoreResponse, BeginResponseGrowth, GrowResponses, Children
<1>4. ASSUME WriteByte, child.req = ChildGoneResp PROVE child'.pc = "none"
  BY <1>1, <1>4 DEF WriteByte, Children
<1>5. WriteByte => child.pc # "none"
  BY DEF WriteByte
<1>6. ASSUME StrayByte \/ ReadPipe \/ NoResponse \/ Complete PROVE child' = child
  BY <1>6 DEF StrayByte, ReadPipe, NoResponse, Complete
<1> QED
  BY <1>2, <1>3, <1>4, <1>5, <1>6 DEF Parting

(* What the child holds, by where it is, and what the parent does.         *)
ChildHas ==
  /\ child.pc \in {"work", "grow"} =>
       ChildQ = IF child.req \in Requests THEN <<child.req>> ELSE <<>>
  /\ child.pc \notin {"work", "grow"} => ChildQ = <<>>
ParentHas ==
  /\ parent.pc = "grow" =>
       ParentQ = IF parent.req \in Requests THEN <<parent.req>> ELSE <<>>
  /\ parent.pc # "grow" => ParentQ = <<>>

(* It is so by what the two parts of the queue are.                        *)
LEMMA ChildHolds == ChildHas
<1>1. child.pc \in {"work", "grow"} /\ child.req \in Requests => child.req \in WithChild
  BY DEF WithChild
<1>2. WithChild # {} => child.pc \in {"work", "grow"} /\ child.req \in Requests
  BY DEF WithChild
<1> QED
  BY <1>1, <1>2 DEF ChildQ, ChildHas

(* The same for the parent.                                                *)
LEMMA ParentHolds == ParentHas
<1>1. parent.pc = "grow" /\ parent.req \in Requests => parent.req \in WithParent
  BY DEF WithParent
<1>2. WithParent # {} => parent.pc = "grow" /\ parent.req \in Requests
  BY DEF WithParent
<1> QED
  BY <1>1, <1>2 DEF ParentQ, ParentHas

(* The child copies a ring or writes its byte, the parent reads the pipe   *)
(* or finds no response: the queue does not change.                        *)
LEMMA BytesRefine ==
  ASSUME WorkerInv, LineInv,
         BeginResponseGrowth \/ WriteByte \/ StrayByte \/ ReadPipe \/ NoResponse
  PROVE  LineInv' /\ Refined
<1>1. SUFFICES ASSUME Intact' PROVE LineInv' /\ Refined
  BY Broken
<1>2. /\ workitems' = workitems /\ next_workitem' = next_workitem
      /\ next_workeritem' = next_workeritem /\ responses' = responses
      /\ next_response' = next_response /\ next_workresp' = next_workresp
      /\ damage' = damage /\ lost' = lost
  BY DEF BeginResponseGrowth, WriteByte, StrayByte, ReadPipe, NoResponse, rings
<1>3. Intact
  BY <1>1, <1>2 DEF Intact
<1>4. child \in Children /\ parent \in Parents /\ Said
  BY <1>3 DEF WorkerInv, Typed, LineInv
<1>5. thread_ref' = thread_ref /\ (Parting => Parting')
  BY PartingStays
<1>6. ASSUME BeginResponseGrowth
      PROVE  /\ child.pc = "work" /\ child'.pc = "grow" /\ child'.req = child.req
             /\ parent' = parent
  BY <1>4, <1>6 DEF BeginResponseGrowth, Children
<1>7. ASSUME WriteByte
      PROVE  /\ child.pc = "write" /\ child'.req = Null /\ parent' = parent
             /\ child'.pc = IF child.req = ChildGoneResp THEN "none" ELSE "wait"
  BY <1>4, <1>7 DEF WriteByte, Children
<1>8. ASSUME StrayByte \/ ReadPipe \/ NoResponse PROVE child' = child
  BY <1>8 DEF StrayByte, ReadPipe, NoResponse
<1>9. ASSUME ReadPipe \/ NoResponse PROVE parent.pc # "grow" /\ parent'.pc # "grow"
  BY <1>4, <1>9, SMT DEF ReadPipe, NoResponse, Parents, Idle
<1>10. StrayByte => parent' = parent
  BY DEF StrayByte
<1>11. ChildHas /\ ChildHas' /\ ParentHas /\ ParentHas'
  BY ChildHolds, ParentHolds, PTL
<1>12. ChildQ' = ChildQ
  <2>1. CASE BeginResponseGrowth
    BY <1>6, <1>11, <2>1 DEF ChildHas
  <2>2. CASE WriteByte
    <3>1. child.pc \notin {"work", "grow"} /\ child'.pc \notin {"work", "grow"}
      BY <1>7, <2>2
    <3> QED
      BY <1>11, <3>1 DEF ChildHas
  <2>3. CASE StrayByte \/ ReadPipe \/ NoResponse
    BY <1>8, <2>3 DEF ChildQ, WithChild
  <2> QED
    BY <2>1, <2>2, <2>3
<1>13. ParentQ' = ParentQ
  <2>1. CASE parent' = parent
    BY <2>1 DEF ParentQ, WithParent
  <2>2. CASE ReadPipe \/ NoResponse
    BY <1>9, <1>11, <2>2 DEF ParentHas
  <2> QED
    BY <1>6, <1>7, <1>10, <2>1, <2>2
<1>14. Said' /\ (Leaving' <=> Leaving)
  <2>1. CASE BeginResponseGrowth
    <3>1. Said'
      BY <1>6, <2>1 DEF Said
    <3> QED
      BY <1>2, <1>6, <2>1, <3>1 DEF Leaving
  <2>2. CASE WriteByte /\ child.req = ChildGoneResp
    <3>1. thread_ref
      BY <1>7, <2>2, SMT DEF WorkerInv, Childless, Gone
    <3>2. ChildGoneResp \in Range(responses)
      BY <1>4, <1>7, <2>2, <3>1 DEF Said
    <3> QED
      BY <1>2, <2>2, <3>2 DEF Said, Leaving
  <2>3. CASE WriteByte /\ child.req # ChildGoneResp
    <3>1. child'.pc = "wait" /\ child'.req # ChildGoneResp
      BY <1>7, <2>3, Sentinels
    <3>2. Said'
      BY <3>1 DEF Said
    <3> QED
      BY <1>2, <2>3, <3>1, <3>2 DEF Leaving
  <2>4. CASE StrayByte \/ ReadPipe \/ NoResponse
    BY <1>2, <1>4, <1>5, <1>8, <2>4 DEF Said, Leaving
  <2> QED
    BY <2>1, <2>2, <2>3, <2>4
<1> QED
  BY <1>1, <1>2, <1>3, <1>5, <1>12, <1>13, <1>14, QuietRefines

(* send_blocking_req_internal() with a child: the request is the last of   *)
(* those queued or about to be.                                            *)
LEMMA SentRefines ==
  ASSUME WorkerInv, Requested, thread_ref, NEW r \in Requests, NEW after,
         after # "grow", parent.pc # "grow", SendToChild(r, after),
         next_workeritem' = next_workeritem, thread_ref' = thread_ref,
         child' = child
  PROVE  /\ Requested'
         /\ ParentQ = <<>> /\ RequestQ' \o ParentQ' = Append(RequestQ, r)
         /\ ChildExitReq \in Range(workitems') <=> ChildExitReq \in Range(workitems)
<1>1. /\ workitems \in Rings(Items) /\ Alloc(workitems) > 0
      /\ next_workitem \in DOMAIN workitems /\ next_workeritem \in DOMAIN workitems
  BY InUse
<1>2. /\ Line(workitems, next_workeritem, next_workitem)
      /\ workitems[next_workeritem] # Null \/ next_workitem = next_workeritem
      /\ ~Parting => Second(workitems, next_workeritem, next_workitem)
  BY <1>1 DEF Requested, Ahead
<1>3. Parting' <=> Parting
  BY DEF Parting
<1>4. ChildHas /\ ParentHas /\ ParentHas'
  BY ChildHolds, ParentHolds, PTL
<1>5. ParentQ = <<>>
  BY <1>4 DEF ParentHas
<1>6. RequestQ \in Seq(Requests)
  BY Parts
<1>7. CASE /\ ~Full(workitems, next_workitem)
           /\ QueueReqPointer(workitems, next_workitem, r, blocking_req_ready)
           /\ parent' = [Idle EXCEPT !.pc = after]
  <2>1. /\ workitems[next_workitem] = Null
        /\ workitems' = Put(workitems, next_workitem, r)
        /\ next_workitem' = Advance(workitems, next_workitem)
    BY <1>7 DEF Full, QueueReqPointer, Put
  <2>2. r \in Items /\ r # Null /\ r # ChildExitReq /\ Null # ChildExitReq
    BY Sentinels
  <2> DEFINE new == Put(workitems, next_workitem, r)
             next == Advance(workitems, next_workitem)
  <2>3. /\ Line(new, next_workeritem, next)
        /\ new[next_workeritem] # Null
        /\ InRing(new, next_workeritem) = Append(InRing(workitems, next_workeritem), r)
    <3>1. /\ Line(new, next_workeritem, next)
          /\ new[next_workeritem] # Null
          /\ Gains(new, workitems, next_workeritem, r)
      BY <1>1, <1>2, <2>1, <2>2, RingPut
    <3> QED
      BY <3>1 DEF Gains
  <2>4. ~Parting => Second(new, next_workeritem, next)
    <3>1. Second(workitems, next_workeritem, next_workitem) =>
            Second(new, next_workeritem, next)
      BY <1>1, <1>2, <2>2, SecondPut
    <3> QED
      BY <1>2, <3>1
  <2>5. ChildExitReq \in Range(new) <=> ChildExitReq \in Range(workitems)
    BY <1>1, <2>1, <2>2, PutOther, SMTT(30)
  <2> HIDE DEF new, next
  <2>6. workitems' = new /\ next_workitem' = next
    BY <2>1 DEF new, next
  <2>7. Requested'
    BY <1>3, <2>3, <2>4, <2>6 DEF Requested, Ahead
  <2>8. RequestQ' = Append(RequestQ, r)
    BY <2>3, <2>6 DEF RequestQ
  <2>9. parent'.pc # "grow"
    BY <1>7 DEF Idle
  <2>10. ParentQ' = <<>>
    BY <1>4, <2>9 DEF ParentHas
  <2>11. Append(RequestQ, r) \o <<>> = Append(RequestQ, r)
    <3> HIDE DEF RequestQ
    <3> QED
      BY <1>6, SMT
  <2> QED
    BY <1>5, <2>5, <2>6, <2>7, <2>8, <2>10, <2>11
<1>8. CASE /\ parent' = [pc |-> "grow", req |-> r, copy |-> workitems,
                         after |-> after]
           /\ UNCHANGED <<workitems, next_workitem>>
  <2>1. parent'.pc = "grow" /\ parent'.req = r
    BY <1>8
  <2>2. ParentQ' = <<r>>
    BY <1>4, <2>1 DEF ParentHas
  <2>3. Requested'
    BY <1>2, <1>3, <1>8 DEF Requested, Ahead
  <2>4. RequestQ' = RequestQ
    BY <1>8 DEF RequestQ
  <2>5. RequestQ \o <<r>> = Append(RequestQ, r)
    <3> HIDE DEF RequestQ
    <3> QED
      BY <1>6, SMT
  <2> QED
    BY <1>5, <1>8, <2>2, <2>3, <2>4, <2>5
<1> QED
  BY <1>7, <1>8 DEF SendToChild

(* The rest of ensure_workitems_empty_slot(): what the parent held is now  *)
(* the last in the ring.                                                   *)
LEMMA GrowRefines ==
  ASSUME WorkerInv, WorkerInv', LineInv, Running, GrowWorkitems
  PROVE  LineInv' /\ Refined
<1>1. SUFFICES ASSUME Intact' PROVE LineInv' /\ Refined
  BY Broken
<1>2. PICK block \in Moved(workitems, parent.copy) :
        /\ QueueReqPointer(Extended(block, WorkInc),
                           ExtendedAt(block, next_workitem),
                           parent.req, blocking_req_ready)
        /\ damage' = Growth(workitems, parent.copy, block,
                            next_workitem, next_workeritem)
  BY DEF GrowWorkitems
<1>3. /\ parent.pc = "grow" /\ next_workeritem' = next_workeritem
      /\ responses' = responses /\ next_response' = next_response
      /\ next_workresp' = next_workresp /\ lost' = lost
      /\ thread_ref' = thread_ref /\ child' = child
      /\ parent' = [Idle EXCEPT !.pc = parent.after]
  BY DEF GrowWorkitems
<1>4. /\ Intact /\ next_workitem = 0 /\ block = workitems
      /\ ~(next_workeritem = 0 /\ workitems # parent.copy)
  BY <1>1, <1>2, GrowthFacts, SMT DEF Intact, WorkerInv, Typed, Running
<1>5. /\ thread_ref /\ parent.req \in Requests /\ parent.copy[0] # Null
      /\ parent \in Parents
  BY <1>3, <1>4 DEF WorkerInv, Typed, Childless, Growing
<1> DEFINE A == Alloc(workitems)
           ext == Extended(workitems, WorkInc)
           r == parent.req
           new == Put(ext, A, r)
           next == Advance(ext, A)
<1>6. workitems' = new /\ next_workitem' = next
  BY <1>2, <1>4 DEF QueueReqPointer, ExtendedAt, Put
<1>7. /\ workitems \in Rings(Items) /\ A > 0
      /\ next_workitem \in DOMAIN workitems /\ next_workeritem \in DOMAIN workitems
  BY <1>5, InUse
<1>8. /\ Requested /\ Answering /\ Said
      /\ Line(workitems, next_workeritem, 0)
      /\ workitems[next_workeritem] # Null \/ next_workeritem = 0
      /\ ~Parting => Second(workitems, next_workeritem, 0)
  BY <1>4, <1>7 DEF LineInv, Requested, Ahead
<1>9. workitems[next_workeritem] # Null
  BY <1>4, <1>5, <1>8
<1>10. r \in Items /\ r # Null /\ r # ChildExitReq /\ Null \in Items /\ r \in Requests
  BY <1>5, Sentinels
<1>11. /\ Line(new, next_workeritem, next)
       /\ InRing(new, next_workeritem) = Append(InRing(workitems, next_workeritem), r)
  <2>1. Line(new, next_workeritem, next) /\ Gains(new, workitems, next_workeritem, r)
    BY <1>7, <1>8, <1>9, <1>10, RingGrow, Increments
  <2> QED
    BY <1>10, <2>1 DEF Gains
<1>12. /\ new[next_workeritem] # Null
       /\ ~Parting => Second(new, next_workeritem, next)
  <2>1. /\ new[next_workeritem] # Null
        /\ Second(workitems, next_workeritem, 0) => Second(new, next_workeritem, next)
    BY <1>7, <1>9, <1>10, SecondGrow, Increments
  <2> QED
    BY <1>8, <2>1
<1>13. ChildExitReq \in Range(new) <=> ChildExitReq \in Range(workitems)
  <2>1. /\ ext \in Rings(Items) /\ A \in DOMAIN ext /\ ext[A] = Null
        /\ ChildExitReq \in Range(ext) <=> ChildExitReq \in Range(workitems)
    <3>1. A \in Nat
      BY <1>7, RingFacts
    <3>2. /\ ext \in Rings(Items) /\ DOMAIN ext = 0 .. (A + WorkInc - 1)
          /\ \A k \in DOMAIN ext : ext[k] = IF k < A THEN workitems[k] ELSE Null
      BY <1>7, <1>10, ExtendRing, Increments
    <3>3. ChildExitReq \in Range(ext) <=> ChildExitReq \in Range(workitems)
      BY <1>7, <1>10, ExtendOther, Increments, Sentinels
    <3> HIDE DEF ext, A
    <3> QED
      BY <3>1, <3>2, <3>3, Increments, SMTT(30)
  <2> HIDE DEF ext, A, r
  <2>2. ext \in Rings(Items) /\ A \in DOMAIN ext /\ r \in Items /\ ChildExitReq # ext[A]
    BY <1>10, <2>1, Sentinels
  <2>3. ChildExitReq \in Range(new) <=> ChildExitReq \in Range(ext) \/ ChildExitReq = r
    BY <2>2, PutOther
  <2> QED
    BY <1>10, <2>1, <2>3
<1> HIDE DEF new, next, ext, A, r
<1>14. Parting' <=> Parting
  BY <1>3 DEF Parting
<1>15. Requested' /\ Answering' /\ Said'
  BY <1>3, <1>6, <1>8, <1>11, <1>12, <1>14
     DEF Requested, Ahead, Answering, Said
<1>16. Leaving' <=> Leaving
  BY <1>3, <1>6, <1>13 DEF Leaving
<1>17. ParentHas /\ ParentHas' /\ parent'.pc # "grow"
  <2>1. ParentHas /\ ParentHas'
    BY ParentHolds, PTL
  <2>2. parent'.pc # "grow"
    BY <1>3, <1>5 DEF Parents, Idle
  <2> QED
    BY <2>1, <2>2
<1>18. ParentQ = <<r>> /\ ParentQ' = <<>>
  BY <1>3, <1>5, <1>17 DEF ParentHas, r
<1>19. RequestQ' = Append(RequestQ, r) /\ AnswerQ' = AnswerQ /\ ChildQ' = ChildQ
  BY <1>3, <1>6, <1>11 DEF RequestQ, AnswerQ, ChildQ, WithChild
<1>21. Waiting' = Waiting
  <2>1. Parted /\ Parted'
    BY PartedWhen, PTL
  <2>2. RequestQ \in Seq(Requests)
    BY <2>1 DEF Parted
  <2>3. Append(RequestQ, r) \o <<>> = RequestQ \o <<r>>
    <3> HIDE DEF RequestQ
    <3> QED
      BY <1>10, <2>2, SMT
  <2> QED
    BY <1>18, <1>19, <2>1, <2>3, PartsMove
<1> QED
  BY <1>1, <1>3, <1>4, <1>15, <1>16, <1>21, StepSame DEF LineInv, Refined

(* A request queued with a child is the last of all.                       *)
LEMMA AskRefines ==
  ASSUME WorkerInv, WorkerInv', LineInv, Running, NEW r \in Requests, Ask(r)
  PROVE  LineInv' /\ Refined
<1>1. SUFFICES ASSUME Intact' PROVE LineInv' /\ Refined
  BY Broken
<1>2. /\ parent.pc = "idle" /\ thread_ref /\ r \notin Underway /\ r \notin lost
      /\ SendToChild(r, "idle") /\ next_workeritem' = next_workeritem
      /\ responses' = responses /\ next_response' = next_response
      /\ next_workresp' = next_workresp /\ thread_ref' = thread_ref
      /\ child' = child /\ lost' = lost /\ damage' = damage
  BY DEF Ask
<1>3. Intact /\ Requested /\ Answering /\ Said
  BY <1>1, <1>2 DEF Intact, LineInv
<1>4. /\ Requested' /\ ParentQ = <<>> /\ RequestQ' \o ParentQ' = Append(RequestQ, r)
      /\ ChildExitReq \in Range(workitems') <=> ChildExitReq \in Range(workitems)
  <2>1. parent.pc # "grow" /\ "idle" # "grow"
    BY <1>2
  <2> QED
    BY <1>2, <1>3, <2>1, SentRefines
<1>5. AnswerQ' = AnswerQ /\ ChildQ' = ChildQ
  BY <1>2 DEF AnswerQ, ChildQ, WithChild
<1>6. Parted /\ Parted'
  BY PartedWhen, PTL
<1>7. Append(RequestQ, r) = Append(RequestQ \o ParentQ, r)
  <2>1. RequestQ \in Seq(Requests)
    BY <1>6 DEF Parted
  <2> HIDE DEF RequestQ, ParentQ
  <2> QED
    BY <1>4, <2>1, SMT
<1>8. Waiting' = Append(Waiting, r)
  BY <1>4, <1>5, <1>6, <1>7, PartsEnd
<1>9. Answering' /\ Said' /\ (Leaving' <=> Leaving)
  BY <1>2, <1>3, <1>4 DEF Answering, Said, Leaving
<1>10. r \notin Range(Waiting)
  BY <1>2, WaitingRange
<1>11. Promise!Next
  BY <1>1, <1>2, <1>3, <1>8, <1>9, <1>10, StepAsk
<1> QED
  BY <1>4, <1>9, <1>11 DEF LineInv, Refined

(* process_blocking_resp() takes the first answer.                         *)
LEMMA TakenRefines ==
  ASSUME WorkerInv, Answering, thread_ref, TakeResponse,
         next_response' = next_response
  PROVE  /\ Answering' /\ Found \in Requests
         /\ AnswerQ = <<Found>> \o AnswerQ'
         /\ ChildGoneResp \in Range(responses') <=> ChildGoneResp \in Range(responses)
<1> DEFINE new == Put(responses, next_workresp, Null)
           next == Advance(responses, next_workresp)
<1>1. /\ responses \in Rings(Responses) /\ Alloc(responses) > 0
      /\ next_response \in DOMAIN responses /\ next_workresp \in DOMAIN responses
  BY InUse
<1>2. /\ responses' = new /\ next_workresp' = next
      /\ responses[next_workresp] \in Requests /\ Found = responses[next_workresp]
  BY DEF TakeResponse, Put, Found
<1>3. /\ Null \in Responses /\ responses[next_workresp] # Null
      /\ ChildGoneResp # Null /\ ChildGoneResp # responses[next_workresp]
  BY <1>2, Sentinels
<1>4. Solid(responses, next_workresp, next_response)
  BY <1>1 DEF Answering
<1>5. Line(responses, next_workresp, next_response)
  BY <1>1, <1>4, SolidLine
<1>6. Solid(new, next, next_response)
  BY <1>1, <1>3, <1>4, <1>5, RingTake
<1>7. InRing(responses, next_workresp) =
        <<responses[next_workresp]>> \o InRing(new, next)
  BY <1>1, <1>2, <1>3, QueueTake
<1>8. ChildGoneResp \in Range(new) <=> ChildGoneResp \in Range(responses)
  BY <1>1, <1>3, PutOther, SMTT(30)
<1> HIDE DEF new, next
<1> QED
  BY <1>2, <1>6, <1>7, <1>8 DEF Answering, AnswerQ

(* done_func() completes the first request ...                             *)
LEMMA CompleteRefines ==
  ASSUME WorkerInv, WorkerInv', LineInv, Running, Complete
  PROVE  LineInv' /\ Refined
<1>1. SUFFICES ASSUME Intact' PROVE LineInv' /\ Refined
  BY Broken
<1>2. /\ TakeResponse /\ workitems' = workitems /\ next_workitem' = next_workitem
      /\ next_workeritem' = next_workeritem /\ next_response' = next_response
      /\ child' = child /\ lost' = lost /\ damage' = damage
      /\ parent' = [parent EXCEPT !.pc = "read"]
  BY DEF Complete
<1>3. Intact /\ Requested /\ Answering /\ Said /\ thread_ref
  <2>1. Intact
    BY <1>1, <1>2 DEF Intact
  <2> QED
    BY <1>2, <2>1, Taken DEF LineInv, Running
<1>4. /\ Answering' /\ Found \in Requests
      /\ AnswerQ = <<Found>> \o AnswerQ'
      /\ ChildGoneResp \in Range(responses') <=> ChildGoneResp \in Range(responses)
  BY <1>2, <1>3, TakenRefines
<1>5. thread_ref' = thread_ref /\ (Parting => Parting')
  BY PartingStays
<1>6. ChildQ' = ChildQ /\ RequestQ' = RequestQ
  BY <1>2 DEF RequestQ, ChildQ, WithChild
<1>7. ParentQ' = <<>> /\ ParentQ = <<>>
  <2>1. ParentHas /\ ParentHas'
    BY ParentHolds, PTL
  <2>2. parent.pc # "grow" /\ parent'.pc # "grow"
    BY <1>2 DEF TakeResponse, WorkerInv, Typed, Parents
  <2> QED
    BY <2>1, <2>2 DEF ParentHas
<1>8. Parted /\ Parted'
  BY PartedWhen, PTL
<1>9. Waiting # <<>> /\ Waiting' = Tail(Waiting)
  BY <1>4, <1>6, <1>7, <1>8, PartsEnd
<1>10. Requested' /\ Said' /\ (Leaving' <=> Leaving)
  BY <1>2, <1>3, <1>4, <1>5 DEF Requested, Said, Leaving
<1>11. Promise!Next
  BY <1>1, <1>2, <1>3, <1>9, <1>10, StepAnswer
<1> QED
  BY <1>4, <1>10, <1>11 DEF LineInv, Refined

(* ... or queues it again, behind all others.                              *)
LEMMA RetryRefines ==
  ASSUME WorkerInv, WorkerInv', LineInv, Running, Retry
  PROVE  LineInv' /\ Refined
<1>1. SUFFICES ASSUME Intact' PROVE LineInv' /\ Refined
  BY Broken
<1>2. /\ TakeResponse /\ Found \in Persistent /\ SendToChild(Found, "read")
      /\ next_workeritem' = next_workeritem /\ next_response' = next_response
      /\ thread_ref' = thread_ref /\ child' = child /\ lost' = lost
      /\ damage' = damage
  BY DEF Retry
<1>3. Intact /\ Requested /\ Answering /\ Said /\ thread_ref /\ parent.pc = "look"
  <2>1. Intact
    BY <1>1, <1>2 DEF Intact
  <2> QED
    BY <1>2, <2>1, Taken DEF LineInv, Running
<1>4. /\ Answering' /\ Found \in Requests
      /\ AnswerQ = <<Found>> \o AnswerQ'
      /\ ChildGoneResp \in Range(responses') <=> ChildGoneResp \in Range(responses)
  BY <1>2, <1>3, TakenRefines
<1> DEFINE r == Found
<1> HIDE DEF r
<1>5. /\ Requested' /\ ParentQ = <<>> /\ RequestQ' \o ParentQ' = Append(RequestQ, r)
      /\ ChildExitReq \in Range(workitems') <=> ChildExitReq \in Range(workitems)
  <2>1. parent.pc # "grow" /\ "read" # "grow" /\ r \in Requests /\ SendToChild(r, "read")
    BY <1>2, <1>3, <1>4 DEF r
  <2> QED
    BY <1>2, <1>3, <2>1, SentRefines
<1>6. ChildQ' = ChildQ
  BY <1>2 DEF ChildQ, WithChild
<1>7. Parted /\ Parted'
  BY PartedWhen, PTL
<1>8. Append(RequestQ, r) = Append(RequestQ \o ParentQ, r)
  <2>1. RequestQ \in Seq(Requests)
    BY <1>7 DEF Parted
  <2> HIDE DEF RequestQ, ParentQ
  <2> QED
    BY <1>5, <2>1, SMT
<1>9. /\ Waiting # <<>> /\ Head(Waiting) = r
      /\ Waiting' = Append(Tail(Waiting), r)
  <2>1. r \in Requests /\ AnswerQ = <<r>> \o AnswerQ'
    BY <1>4 DEF r
  <2> QED
    BY <1>5, <1>6, <1>7, <1>8, <2>1, PartsEnd
<1>10. Said' /\ (Leaving' <=> Leaving)
  BY <1>2, <1>3, <1>4, <1>5 DEF Said, Leaving
<1>11. Promise!Next
  BY <1>1, <1>2, <1>3, <1>9, <1>10, StepRetry DEF r
<1> QED
  BY <1>4, <1>5, <1>10, <1>11 DEF LineInv, Refined

(* send_blocking_resp_internal(): what the child held is the last answer.  *)
LEMMA Stored ==
  ASSUME WorkerInv, WorkerInv', LineInv, Intact, Intact',
         child.pc \in {"work", "grow"}, child'.pc = "write", child'.req = child.req,
         workitems' = workitems, next_workitem' = next_workitem,
         next_workeritem' = next_workeritem, parent' = parent, lost' = lost,
         thread_ref' = thread_ref,
         Solid(responses', next_workresp', next_response'),
         AnswerQ' = IF child.req \in Requests THEN Append(AnswerQ, child.req)
                                              ELSE AnswerQ,
         ChildGoneResp \in Range(responses')
           <=> ChildGoneResp \in Range(responses) \/ ChildGoneResp = child.req
  PROVE  LineInv' /\ Refined
<1>1. Requested /\ Said
  BY DEF LineInv
<1>2. Parting' <=> Parting
  BY DEF Parting
<1>3. Requested' /\ Answering'
  BY <1>1, <1>2 DEF Requested, Answering
<1>4. child'.pc # "none" /\ child'.pc \notin {"work", "grow"}
  OBVIOUS
<1>5. Said' /\ (Leaving' <=> Leaving)
  BY <1>1, <1>4 DEF Said, Leaving
<1>6. Parted /\ Parted' /\ ChildHas /\ ChildHas'
  BY PartedWhen, ChildHolds, PTL
<1>7. RequestQ' = RequestQ /\ ParentQ' = ParentQ
  BY DEF RequestQ, ParentQ, WithParent
<1>8. ChildQ' = <<>>
  BY <1>4, <1>6 DEF ChildHas
<1>9. AnswerQ' \o ChildQ' = AnswerQ \o ChildQ
  <2>1. AnswerQ \in Seq(Requests) /\ AnswerQ' \in Seq(Requests)
    BY <1>6 DEF Parted
  <2> DEFINE a == AnswerQ  b == AnswerQ'  x == child.req
  <2>2. ChildQ = IF x \in Requests THEN <<x>> ELSE <<>>
    BY <1>6 DEF ChildHas
  <2>3. /\ a \in Seq(Requests) /\ b \in Seq(Requests)
        /\ b = IF x \in Requests THEN Append(a, x) ELSE a
    BY <2>1
  <2> HIDE DEF a, b, x
  <2>4. x \in Requests => b \o <<>> = a \o <<x>>
    BY <2>3, MovedOver
  <2>5. x \notin Requests => b \o <<>> = a \o <<>>
    BY <2>3
  <2> QED
    BY <1>8, <2>2, <2>4, <2>5 DEF a, b
<1>10. Waiting' = Waiting
  BY <1>6, <1>7, <1>9, PartsMove
<1>11. UNCHANGED Promise!vars
  BY <1>5, <1>10, StepSame
<1> QED
  BY <1>3, <1>5, <1>11 DEF LineInv, Refined

(* It is stored at once ...                                                *)
LEMMA StoreRefines ==
  ASSUME WorkerInv, WorkerInv', LineInv, Running, StoreResponse
  PROVE  LineInv' /\ Refined
<1>1. SUFFICES ASSUME Intact' PROVE LineInv' /\ Refined
  BY Broken
<1>2. /\ child.pc = "work" /\ ~Full(responses, next_response)
      /\ responses' = Put(responses, next_response, child.req)
      /\ next_response' = Advance(responses, next_response)
      /\ child' = [child EXCEPT !.pc = "write"]
      /\ workitems' = workitems /\ next_workitem' = next_workitem
      /\ next_workeritem' = next_workeritem /\ next_workresp' = next_workresp
      /\ thread_ref' = thread_ref /\ parent' = parent /\ lost' = lost
      /\ damage' = damage
  BY DEF StoreResponse, Put
<1>3. Intact /\ Answering
  BY <1>1, <1>2 DEF Intact, LineInv
<1>4. child \in Children /\ child.req # Null /\ child.req \in Responses
  <2>1. child \in Children /\ child.req # Null
    BY <1>2 DEF WorkerInv, Typed, Holding
  <2> QED
    BY <2>1 DEF Children, Responses
<1>5. child'.pc = "write" /\ child'.req = child.req /\ child.pc \in {"work", "grow"}
  BY <1>2, <1>4 DEF Children
<1> DEFINE x == child.req
           new == Put(responses, next_response, x)
           next == Advance(responses, next_response)
<1>6. /\ responses \in Rings(Responses) /\ Alloc(responses) # 0
      /\ responses[next_response] = Null
  BY <1>2, InUse DEF Full
<1>7. /\ next_response \in DOMAIN responses /\ next_workresp \in DOMAIN responses
      /\ Alloc(responses) > 0
  BY <1>6, InUse, RingFacts, SMTT(30)
<1>8. x \in Responses /\ x # Null /\ ChildGoneResp # Null
  BY <1>4, Sentinels
<1> HIDE DEF x
<1>9. Solid(responses, next_workresp, next_response)
  BY <1>3, <1>7 DEF Answering
<1>10. /\ Line(responses, next_workresp, next_response)
       /\ responses[next_workresp] # Null \/ next_response = next_workresp
  BY <1>6, <1>7, <1>9, SolidLine
<1>11. /\ Solid(new, next_workresp, next)
       /\ x \in Requests => InRing(new, next_workresp) =
                               Append(InRing(responses, next_workresp), x)
       /\ x \notin Requests => InRing(new, next_workresp) =
                                  InRing(responses, next_workresp)
  <2>1. /\ next_workresp \in DOMAIN responses /\ next_response \in DOMAIN responses
        /\ x \in Responses /\ x # Null
    BY <1>7, <1>8
  <2>2. Solid(new, next_workresp, next) /\ Gains(new, responses, next_workresp, x)
    BY <1>6, <1>9, <1>10, <2>1, RingPut
  <2> QED
    BY <2>2 DEF Gains
<1>12. ChildGoneResp \in Range(new)
         <=> ChildGoneResp \in Range(responses) \/ ChildGoneResp = x
  BY <1>6, <1>7, <1>8, PutOther
<1> HIDE DEF new, next
<1>13. responses' = new /\ next_response' = next /\ x = child.req
  BY <1>2 DEF new, next, x
<1> QED
  BY <1>1, <1>2, <1>3, <1>5, <1>11, <1>12, <1>13, Stored DEF AnswerQ

(* ... or behind the old end of a ring extended at its start.              *)
LEMMA GrowResponsesRefines ==
  ASSUME WorkerInv, WorkerInv', LineInv, Running, GrowResponses
  PROVE  LineInv' /\ Refined
<1>1. SUFFICES ASSUME Intact' PROVE LineInv' /\ Refined
  BY Broken
<1>2. PICK block \in Moved(responses, child.copy) :
        /\ responses' = [Extended(block, RespInc) EXCEPT
                           ![ExtendedAt(block, next_response)] = child.req]
        /\ next_response' = Advance(Extended(block, RespInc),
                                    ExtendedAt(block, next_response))
        /\ damage' = Growth(responses, child.copy, block,
                            next_response, next_workresp)
  BY DEF GrowResponses
<1>3. /\ child.pc = "grow"
      /\ child' = [child EXCEPT !.pc = "write", !.copy = Ring(0)]
      /\ workitems' = workitems /\ next_workitem' = next_workitem
      /\ next_workeritem' = next_workeritem /\ next_workresp' = next_workresp
      /\ thread_ref' = thread_ref /\ parent' = parent /\ lost' = lost
  BY DEF GrowResponses
<1>4. /\ Intact /\ next_response = 0 /\ block = responses
      /\ ~(next_workresp = 0 /\ responses # child.copy)
  BY <1>1, <1>2, GrowthFacts, SMTT(30) DEF Intact, WorkerInv, Typed, Running
<1>5. /\ child \in Children /\ child.req # Null /\ child.req \in Responses
      /\ child.copy[0] # Null /\ thread_ref
  <2>1. child \in Children /\ child.req # Null /\ child.copy[0] # Null /\ thread_ref
    BY <1>3, <1>4 DEF WorkerInv, Typed, Holding, Growing, Childless, Gone
  <2> QED
    BY <2>1 DEF Children, Responses
<1>6. child'.pc = "write" /\ child'.req = child.req /\ child.pc \in {"work", "grow"}
  BY <1>3, <1>5 DEF Children
<1> DEFINE A == Alloc(responses)
           ext == Extended(responses, RespInc)
           x == child.req
           new == Put(ext, A, x)
           next == Advance(ext, A)
<1>7. responses' = new /\ next_response' = next
  BY <1>2, <1>4 DEF ExtendedAt, Put
<1>8. /\ responses \in Rings(Responses) /\ A > 0
      /\ next_response \in DOMAIN responses /\ next_workresp \in DOMAIN responses
  BY <1>5, InUse
<1>9. /\ Solid(responses, next_workresp, 0) /\ Line(responses, next_workresp, 0)
      /\ responses[next_workresp] # Null
  <2>1. Solid(responses, next_workresp, next_response)
    BY <1>4, <1>8 DEF LineInv, Answering
  <2>2. /\ Line(responses, next_workresp, next_response)
        /\ responses[next_workresp] # Null \/ next_response = next_workresp
    BY <1>8, <2>1, SolidLine
  <2> QED
    BY <1>4, <1>5, <2>1, <2>2
<1>10. x \in Responses /\ x # Null /\ ChildGoneResp # Null /\ Null \in Responses
  BY <1>5, Sentinels
<1>11. /\ Solid(new, next_workresp, next)
       /\ x \in Requests => InRing(new, next_workresp) =
                               Append(InRing(responses, next_workresp), x)
       /\ x \notin Requests => InRing(new, next_workresp) =
                                  InRing(responses, next_workresp)
  <2>1. RespInc \in Nat /\ RespInc > 0
    BY Increments
  <2> HIDE DEF x
  <2>2. Solid(new, next_workresp, next) /\ Gains(new, responses, next_workresp, x)
    BY <1>8, <1>9, <1>10, <2>1, RingGrow
  <2> QED
    BY <2>2 DEF Gains
<1>12. ChildGoneResp \in Range(new)
         <=> ChildGoneResp \in Range(responses) \/ ChildGoneResp = x
  <2>1. A \in Nat
    BY <1>8, RingFacts
  <2>2. /\ ext \in Rings(Responses) /\ DOMAIN ext = 0 .. (A + RespInc - 1)
        /\ \A k \in DOMAIN ext : ext[k] = IF k < A THEN responses[k] ELSE Null
    BY <1>8, <1>10, ExtendRing, Increments
  <2>3. ChildGoneResp \in Range(ext) <=> ChildGoneResp \in Range(responses)
    BY <1>8, <1>10, ExtendOther, Increments
  <2> HIDE DEF ext, A, x
  <2>4. /\ ext \in Rings(Responses) /\ A \in DOMAIN ext /\ x \in Responses
        /\ ChildGoneResp # ext[A]
    BY <1>10, <2>1, <2>2, Increments, SMTT(30)
  <2>5. ChildGoneResp \in Range(new) <=> ChildGoneResp \in Range(ext) \/ ChildGoneResp = x
    BY <2>4, PutOther
  <2> QED
    BY <2>3, <2>5
<1> HIDE DEF new, next
<1> QED
  BY <1>1, <1>3, <1>4, <1>6, <1>7, <1>11, <1>12, Stored DEF AnswerQ

(* receive_blocking_req_internal(): the first in the ring goes to the      *)
(* child.                                                                  *)
LEMMA ReceiveRefines ==
  ASSUME WorkerInv, WorkerInv', FedInv, LineInv, Running, ReceiveBlockingReq
  PROVE  LineInv' /\ Refined
<1>1. SUFFICES ASSUME Intact' PROVE LineInv' /\ Refined
  BY Broken
<1> DEFINE x == workitems[next_workeritem]
           new == Put(workitems, next_workeritem, Null)
           next == Advance(workitems, next_workeritem)
<1>2. /\ child.pc = "wait" /\ blocking_req_ready > 0
      /\ blocking_req_ready' = blocking_req_ready - 1
      /\ thread_ref' = thread_ref /\ damage' = damage /\ lost' = lost
      /\ parent' = parent
  BY DEF ReceiveBlockingReq
<1>3. Intact /\ Fed /\ Requested /\ Answering /\ Said
  BY <1>1, <1>2 DEF FedInv, LineInv, Intact
<1>4. child \in Children /\ thread_ref /\ child.req = Null
  BY <1>2, SMT DEF WorkerInv, Typed, Childless, Holding, Gone
<1>5. ~Parting
  BY <1>2, <1>4, Sentinels DEF Parting
<1>6. /\ workitems \in Rings(Items) /\ Alloc(workitems) > 0
      /\ Pointer(next_workeritem, workitems)
      /\ next_workitem \in DOMAIN workitems /\ next_workeritem \in DOMAIN workitems
  BY <1>4, InUse DEF WorkerInv, Typed
<1>7. /\ Line(workitems, next_workeritem, next_workitem)
      /\ Second(workitems, next_workeritem, next_workitem)
  BY <1>3, <1>5, <1>6 DEF Requested, Ahead
<1>8. \/ x = ChildExitReq
      \/ /\ x \in Requests
         /\ Even(new, next, next_workitem, blocking_req_ready - 1)
  <2>1. \/ x = ChildExitReq
        \/ Even(workitems, next_workeritem, next_workitem, blocking_req_ready)
    BY <1>3, <1>4, <1>5 DEF Fed
  <2> QED
    BY <1>2, <1>6, <2>1, EvenTake
<1>9. x # Null /\ Null \in Items /\ ChildExitReq # Null /\ ChildExitReq \notin Requests
  BY <1>8, Sentinels
<1>10. /\ workitems' = new /\ next_workeritem' = next
       /\ next_workitem' = next_workitem /\ responses' = responses
       /\ next_response' = next_response /\ next_workresp' = next_workresp
       /\ child' = [child EXCEPT !.pc = "work",
                      !.req = IF x = ChildExitReq THEN ChildGoneResp ELSE x]
  BY <1>9 DEF ReceiveBlockingReq, Put
<1>11. /\ child'.pc = "work"
       /\ child'.req = IF x = ChildExitReq THEN ChildGoneResp ELSE x
  BY <1>4, <1>10 DEF Children
<1>12. Line(new, next, next_workitem)
  BY <1>6, <1>7, <1>9, RingTake
<1>13. /\ x \notin Requests => InRing(new, next) = InRing(workitems, next_workeritem)
       /\ x \in Requests =>
            InRing(workitems, next_workeritem) = <<x>> \o InRing(new, next)
  BY <1>6, <1>9, QueueTake
<1>14. /\ new \in Rings(Items) /\ next \in DOMAIN new
  <2>1. next_workeritem \in Nat /\ next_workeritem < Alloc(workitems)
    BY <1>6 DEF Pointer
  <2>2. new \in Rings(Items) /\ DOMAIN new = DOMAIN workitems
    BY <1>6, <1>9, <2>1, PutRing, SMTT(30)
  <2>3. next \in DOMAIN workitems
    BY <1>6, <2>1, RingFacts, AdvanceIs, SMTT(30) DEF Pointer
  <2> QED
    BY <2>2, <2>3
<1> HIDE DEF x, new, next
<1>15. \/ x = ChildExitReq /\ Parting'
       \/ x \in Requests /\ Second(new, next, next_workitem)
  <2>1. CASE x = ChildExitReq
    BY <1>2, <1>4, <1>11, <2>1 DEF Parting
  <2>2. CASE x \in Requests /\ Even(new, next, next_workitem, blocking_req_ready - 1)
    BY <1>14, <2>2, SecondEven
  <2> QED
    BY <1>8, <2>1, <2>2
<1>16. new[next] # Null \/ next_workitem = next
  <2>1. CASE x = ChildExitReq
    BY <1>6, <1>7, <2>1, SecondTake DEF x, new, next
  <2>2. CASE x \in Requests /\ Even(new, next, next_workitem, blocking_req_ready - 1)
    BY <1>14, <2>2, SecondEven
  <2> QED
    BY <1>8, <2>1, <2>2
<1>17. Requested' /\ Answering'
  BY <1>3, <1>9, <1>10, <1>12, <1>15, <1>16 DEF Requested, Ahead, Answering
<1>18. Said'
  BY <1>11 DEF Said
<1>19. Leaving' <=> Leaving
  <2>1. CASE x = ChildExitReq
    <3>1. ChildExitReq \in Range(workitems)
      BY <1>6, <2>1 DEF Range, x
    <3>2. child'.req = ChildGoneResp
      BY <1>11, <2>1
    <3> QED
      BY <3>1, <3>2 DEF Leaving
  <2>2. CASE x \in Requests
    <3>1. ChildExitReq # x /\ x # ChildGoneResp /\ Null # ChildGoneResp
      BY <2>2, Sentinels
    <3>2. ChildExitReq \in Range(new)
            <=> ChildExitReq \in Range(workitems) \/ ChildExitReq = Null
      BY <1>6, <1>9, <3>1, PutOther DEF x, new
    <3>3. child'.req # ChildGoneResp /\ child.req # ChildGoneResp
      BY <1>4, <1>11, <3>1
    <3> QED
      BY <1>9, <1>10, <3>2, <3>3 DEF Leaving
  <2> QED
    BY <1>8, <2>1, <2>2
<1>20. Parted /\ Parted' /\ ChildHas /\ ChildHas'
  BY PartedWhen, ChildHolds, PTL
<1>21. AnswerQ' = AnswerQ /\ ParentQ' = ParentQ
  BY <1>2, <1>10 DEF AnswerQ, ParentQ, WithParent
<1>22. ChildQ' \o RequestQ' = ChildQ \o RequestQ
  <2>1. /\ ChildQ = <<>>
        /\ ChildQ' = IF child'.req \in Requests THEN <<child'.req>> ELSE <<>>
    <3>1. child.pc \notin {"work", "grow"} /\ child'.pc \in {"work", "grow"}
      BY <1>2, <1>11
    <3> QED
      BY <1>20, <3>1 DEF ChildHas
  <2>2. CASE x = ChildExitReq
    <3>1. child'.req \notin Requests /\ x \notin Requests
      BY <1>9, <1>11, <2>2, Sentinels
    <3>2. RequestQ' = RequestQ
      BY <1>10, <1>13, <3>1 DEF RequestQ
    <3> QED
      BY <2>1, <3>1, <3>2
  <2>3. CASE x \in Requests
    <3>1. child'.req = x
      BY <1>9, <1>11, <2>3
    <3>2. RequestQ = <<x>> \o RequestQ'
      BY <1>10, <1>13, <2>3 DEF RequestQ
    <3>3. RequestQ \in Seq(Requests)
      BY <1>20 DEF Parted
    <3>4. <<>> \o RequestQ = RequestQ
      <4> HIDE DEF RequestQ
      <4> QED
        BY <3>3, SMT
    <3> QED
      BY <2>1, <2>3, <3>1, <3>2, <3>4
  <2> QED
    BY <1>8, <2>2, <2>3
<1>23. Waiting' = Waiting
  BY <1>20, <1>21, <1>22, PartsMove
<1>24. UNCHANGED Promise!vars
  BY <1>1, <1>2, <1>3, <1>19, <1>23, StepSame
<1> QED
  BY <1>17, <1>18, <1>24 DEF LineInv, Refined

(* worker_idle_timer_fired(): nothing waits when the child is dismissed.   *)
LEMMA TimerRefines ==
  ASSUME WorkerInv, LineInv, Running, WorkerIdleTimerFired
  PROVE  LineInv' /\ Refined
<1>1. SUFFICES ASSUME Intact' PROVE LineInv' /\ Refined
  BY Broken
<1> DEFINE new == Put(workitems, next_workitem, ChildExitReq)
           next == Advance(workitems, next_workitem)
<1>2. /\ worker_idle_timer /\ workitems' = new /\ next_workitem' = next
      /\ next_workeritem' = next_workeritem /\ responses' = responses
      /\ next_response' = next_response /\ next_workresp' = next_workresp
      /\ thread_ref' = thread_ref /\ child' = child /\ damage' = damage
      /\ lost' = lost /\ parent' = parent
  BY DEF WorkerIdleTimerFired, QueueReqPointer, Put
<1>3. Intact /\ Requested /\ Answering /\ Said
  BY <1>1, <1>2 DEF LineInv, Intact
<1>4. Underway = {} /\ lost = {} /\ Req(workitems) = {}
  <2>1. Owed = {}
    BY <1>2, NothingOwed DEF Running
  <2> QED
    BY <2>1 DEF Owed, Underway, Req
<1>5. /\ workitems \in Rings(Items) /\ Alloc(workitems) > 0
      /\ next_workitem \in DOMAIN workitems /\ next_workeritem \in DOMAIN workitems
      /\ Pointer(next_workeritem, workitems)
  BY <1>2, InUse DEF WorkerInv, Typed, Holding
<1>6. ChildExitReq \in Items /\ ChildExitReq # Null /\ ChildExitReq \notin Requests
  BY Sentinels
<1>7. /\ new[next_workeritem] # Null
      /\ Second(workitems, next_workeritem, next_workitem) =>
           Second(new, next_workeritem, next)
  <2>1. workitems[next_workeritem] # Null \/ next_workitem = next_workeritem
    BY <1>3, <1>5 DEF Requested, Ahead
  <2> QED
    BY <1>5, <1>6, <2>1, SecondPut
<1>8. /\ new \in Rings(Items) /\ DOMAIN new = DOMAIN workitems
      /\ Alloc(new) = Alloc(workitems)
      /\ \A k \in DOMAIN workitems :
           new[k] = IF k = next_workitem THEN ChildExitReq ELSE workitems[k]
  <2>1. next_workitem \in Nat
    BY <1>5, RingFacts, SMT
  <2> QED
    BY <1>5, <1>6, <2>1, PutRing, SMTT(30)
<1> HIDE DEF new, next
<1>9. \A k \in DOMAIN new : new[k] \notin Requests
  <2>1. \A k \in DOMAIN workitems : workitems[k] \notin Requests
    BY <1>4 DEF Req, Range
  <2> QED
    BY <1>6, <1>8, <2>1
<1>10. Line(new, next_workeritem, next)
  BY <1>9 DEF Line
<1>11. Parting' <=> Parting
  BY <1>2 DEF Parting
<1>12. Requested' /\ Answering' /\ Said'
  <2>1. ~Parting => Second(workitems, next_workeritem, next_workitem)
    BY <1>3, <1>5 DEF Requested
  <2> QED
    BY <1>2, <1>3, <1>7, <1>10, <1>11, <2>1
       DEF Requested, Ahead, Answering, Said
<1>13. Leaving'
  <2>1. new[next_workitem] = ChildExitReq
    BY <1>5, <1>8
  <2> QED
    BY <1>2, <1>5, <1>8, <2>1 DEF Leaving, Range
<1>14. RequestQ' = RequestQ
  <2>1. InRing(workitems, next_workeritem) = <<>>
    BY <1>4, <1>5, QueueEmpty
  <2>2. Req(new) = {}
    BY <1>9 DEF Req, Range
  <2>3. Pointer(next_workeritem, new)
    BY <1>5, <1>8 DEF Pointer
  <2>4. InRing(new, next_workeritem) = <<>>
    BY <1>8, <2>2, <2>3, QueueEmpty
  <2> QED
    BY <1>2, <2>1, <2>4 DEF RequestQ
<1>15. Waiting = <<>> /\ Waiting' = <<>>
  <2>1. Waiting \in Seq(Requests) /\ Range(Waiting) = {}
    BY <1>4, WaitingRange
  <2>2. Waiting = <<>>
    <3> HIDE DEF Waiting
    <3>1. Len(Waiting) # 0 => 1 \in DOMAIN Waiting
      BY <2>1, SMT
    <3>2. Len(Waiting) = 0
      BY <2>1, <3>1 DEF Range
    <3> QED
      BY <2>1, <3>2, SMTT(30)
  <2>3. /\ Waiting = InRing(responses, next_workresp) \o ChildQ \o RequestQ \o ParentQ
        /\ Waiting' = InRing(responses', next_workresp') \o ChildQ' \o RequestQ' \o ParentQ'
    BY DEF Waiting, ChildQ, RequestQ, ParentQ
  <2>4. ChildQ' = ChildQ /\ ParentQ' = ParentQ
    BY <1>2 DEF ChildQ, WithChild, ParentQ, WithParent
  <2> QED
    BY <1>2, <1>14, <2>2, <2>3, <2>4
<1>16. Refined
  BY <1>1, <1>2, <1>3, <1>4, <1>13, <1>15, StepDismiss DEF Refined
<1> QED
  BY <1>12, <1>16 DEF LineInv

(* cleanup_after_child(): the parent has found the child's last message;   *)
(* what waited is lost and the rings are empty.                            *)
LEMMA CleanupRefines ==
  ASSUME WorkerInv, WorkerInv', LineInv, Running, CleanupAfterChild
  PROVE  LineInv' /\ Refined
<1>1. SUFFICES ASSUME Intact' PROVE LineInv' /\ Refined
  BY Broken
<1>2. /\ parent.pc = "look" /\ Found = ChildGoneResp
      /\ lost' = lost \cup Underway
      /\ workitems' = Ring(Alloc(workitems)) /\ responses' = Ring(Alloc(responses))
      /\ next_workitem' = 0 /\ next_workeritem' = 0
      /\ next_response' = 0 /\ next_workresp' = 0
      /\ ~thread_ref' /\ child' = Gone /\ parent' = Idle
      /\ damage' \in {damage, "raced"}
  BY DEF CleanupAfterChild
<1>3. Intact
  BY <1>1, <1>2 DEF Intact
<1>4. /\ workitems' \in Rings(Items) /\ responses' \in Rings(Responses)
      /\ \A k \in DOMAIN workitems' : workitems'[k] = Null
      /\ \A k \in DOMAIN responses' : responses'[k] = Null
  <2>1. workitems' \in Rings(Items) /\ responses' \in Rings(Responses)
    BY <1>3 DEF WorkerInv, Typed
  <2> QED
    BY <1>2, <2>1 DEF Ring
<1>5. /\ Alloc(workitems') > 0 =>
           Line(workitems', 0, 0) /\ Second(workitems', 0, 0)
      /\ Alloc(responses') > 0 => Solid(responses', 0, 0)
      /\ InRing(workitems', 0) = <<>> /\ InRing(responses', 0) = <<>>
  BY <1>4, EmptyLine
<1>6. Requested' /\ Answering' /\ Said'
  BY <1>2, <1>5 DEF Requested, Ahead, Answering, Said
<1>7. Leaving /\ ~Leaving'
  <2>1. next_workresp \in DOMAIN responses
    <3>1. thread_ref
      BY <1>2 DEF WorkerInv, Childless
    <3> QED
      BY <3>1, InUse
  <2>2. ChildGoneResp \in Range(responses)
    BY <1>2, <2>1 DEF Found, Range
  <2>3. Null # ChildExitReq /\ Null # ChildGoneResp
    BY Sentinels
  <2>4. ChildExitReq \notin Range(workitems') /\ ChildGoneResp \notin Range(responses')
    BY <1>4, <2>3 DEF Range
  <2>5. child'.req = Null
    BY <1>2 DEF Gone
  <2> QED
    BY <2>2, <2>3, <2>4, <2>5 DEF Leaving
<1>8. Waiting' = <<>>
  <2>1. child'.pc = "none" /\ parent'.pc = "idle"
    BY <1>2 DEF Gone, Idle
  <2>2. ChildQ' = <<>> /\ ParentQ' = <<>>
    BY <2>1 DEF ChildQ, ParentQ, WithChild, WithParent
  <2>3. InRing(workitems', next_workeritem') = <<>> /\ InRing(responses', next_workresp') = <<>>
    BY <1>2, <1>5
  <2>4. Waiting' = InRing(responses', next_workresp') \o ChildQ'
                   \o InRing(workitems', next_workeritem') \o ParentQ'
    BY DEF Waiting, ChildQ, ParentQ
  <2>5. Waiting' = <<>> \o <<>> \o <<>> \o <<>>
    BY <2>2, <2>3, <2>4
  <2> QED
    BY <2>5, SMT
<1>9. lost' = lost \cup Range(Waiting)
  BY <1>2, WaitingRange
<1>10. Refined
  BY <1>1, <1>3, <1>7, <1>8, <1>9, StepDepart DEF Refined
<1> QED
  BY <1>6, <1>10 DEF LineInv

(* queue_blocking_request() with no child: the request waits for the new   *)
(* one.                                                                    *)
LEMMA StartRefines ==
  ASSUME WorkerInv, FedInv, LineInv, Running, NEW r \in Requests, AskAndStart(r)
  PROVE  LineInv' /\ Refined
<1>1. SUFFICES ASSUME Intact' PROVE LineInv' /\ Refined
  BY Broken
<1> DEFINE grow == Full(workitems, next_workitem)
           ring == IF grow THEN Extended(workitems, WorkInc) ELSE workitems
           at == IF grow THEN ExtendedAt(workitems, next_workitem)
                         ELSE next_workitem
<1>2. /\ parent.pc = "idle" /\ ~thread_ref /\ r \notin lost
      /\ responses' = IF Full(responses, next_response)
                        THEN Extended(responses, RespInc) ELSE responses
      /\ workitems' = Put(ring, at, r) /\ next_workitem' = Advance(ring, at)
      /\ child' = [Gone EXCEPT !.pc = "wait"]
      /\ damage' = IF grow /\ next_workitem # 0 THEN "lapped" ELSE damage
      /\ next_workeritem' = next_workeritem /\ next_response' = next_response
      /\ next_workresp' = next_workresp /\ parent' = parent /\ lost' = lost
  BY DEF AskAndStart, StartChild, QueueReqPointer, Put
<1>3. Intact /\ (grow => next_workitem = 0)
  BY <1>1, <1>2 DEF Intact
<1>4. /\ Requested /\ child = Gone /\ Req(workitems) = {} /\ Req(responses) = {}
      /\ next_workeritem = 0 /\ next_response = 0 /\ next_workresp = 0
      /\ \A k \in DOMAIN responses : responses[k] = Null
  BY <1>2, <1>3 DEF LineInv, WorkerInv, Childless, FedInv, Vacant
<1>5. /\ workitems \in Rings(Items) /\ responses \in Rings(Responses)
      /\ Pointer(next_workitem, workitems)
  BY DEF WorkerInv, Typed
<1>6. Alloc(workitems) > 0 =>
        Ahead(workitems, 0, next_workitem) /\ Second(workitems, 0, next_workitem)
  BY <1>2, <1>4 DEF Requested, Parting
<1>7. /\ Line(workitems', 0, next_workitem') /\ workitems'[0] # Null
      /\ Second(workitems', 0, next_workitem')
      /\ InRing(workitems', 0) = Append(<<>>, r)
      /\ ChildExitReq \in Range(workitems') <=> ChildExitReq \in Range(workitems)
  <2>1. /\ Full(workitems, next_workitem) => next_workitem = 0
        /\ ring = IF Full(workitems, next_workitem)
                    THEN Extended(workitems, WorkInc) ELSE workitems
        /\ at = IF Full(workitems, next_workitem)
                  THEN ExtendedAt(workitems, next_workitem) ELSE next_workitem
    BY <1>3
  <2> HIDE DEF ring, at
  <2>2. workitems' = Put(ring, at, r) /\ next_workitem' = Advance(ring, at)
    BY <1>2 DEF ring, at
  <2> QED
    BY <1>4, <1>5, <1>6, <2>1, <2>2, FirstRequest, SMTT(30)
<1> HIDE DEF grow, ring, at
<1>8. responses' \in Rings(Responses) /\ \A k \in DOMAIN responses' : responses'[k] = Null
  <2> DEFINE ext == Extended(responses, RespInc)
  <2>1. /\ ext \in Rings(Responses)
        /\ \A k \in DOMAIN ext : ext[k] = IF k < Alloc(responses) THEN responses[k] ELSE Null
    BY <1>5, ExtendRing, Increments, Sentinels
  <2>2. \A k \in DOMAIN ext : k < Alloc(responses) => k \in DOMAIN responses
    <3>1. Alloc(responses) \in Nat /\ DOMAIN responses = 0 .. (Alloc(responses) - 1)
      BY <1>5, RingFacts
    <3>2. DOMAIN ext \subseteq Nat
      BY <2>1, RingFacts, SMTT(30)
    <3> HIDE DEF ext
    <3> QED
      BY <3>1, <3>2, SMTT(30)
  <2> HIDE DEF ext
  <2>3. responses' = responses \/ responses' = ext
    BY <1>2 DEF ext
  <2>4. \A k \in DOMAIN ext : ext[k] = Null
    BY <1>4, <2>1, <2>2
  <2> QED
    BY <1>4, <1>5, <2>1, <2>3, <2>4
<1>9. /\ InRing(responses', 0) = <<>>
      /\ Alloc(responses') > 0 => Solid(responses', 0, 0)
  BY <1>8, EmptyLine
<1>10. child'.pc = "wait" /\ child'.req = Null /\ child.req = Null /\ child.pc = "none"
  BY <1>2, <1>4 DEF Gone
<1>11. Requested' /\ Answering' /\ Said'
  BY <1>2, <1>4, <1>7, <1>9, <1>10 DEF Requested, Ahead, Answering, Said
<1>12. Leaving' <=> Leaving
  <2>1. Null # ChildExitReq /\ Null # ChildGoneResp
    BY Sentinels
  <2>2. ChildGoneResp \notin Range(responses') /\ ChildGoneResp \notin Range(responses)
    BY <1>4, <1>8, <2>1 DEF Range
  <2> QED
    BY <1>7, <1>10, <2>1, <2>2 DEF Leaving
<1>13. Waiting = <<>> /\ Waiting' = Append(<<>>, r)
  <2>1. ChildQ = <<>> /\ ParentQ = <<>> /\ ChildQ' = <<>> /\ ParentQ' = <<>>
    BY <1>2, <1>10 DEF ChildQ, ParentQ, WithChild, WithParent
  <2>2. InRing(workitems, 0) = <<>> /\ InRing(responses, 0) = <<>>
    <3>1. Pointer(0, workitems) /\ Pointer(0, responses)
      BY <1>4 DEF WorkerInv, Typed
    <3> QED
      BY <1>4, <1>5, <3>1, QueueEmpty
  <2>3. /\ Waiting = InRing(responses, next_workresp) \o ChildQ
                     \o InRing(workitems, next_workeritem) \o ParentQ
        /\ Waiting' = InRing(responses', next_workresp') \o ChildQ'
                      \o InRing(workitems', next_workeritem') \o ParentQ'
    BY DEF Waiting, ChildQ, ParentQ
  <2>4. /\ Waiting = <<>> \o <<>> \o <<>> \o <<>>
        /\ Waiting' = <<>> \o <<>> \o Append(<<>>, r) \o <<>>
    BY <1>2, <1>4, <1>7, <1>9, <2>1, <2>2, <2>3
  <2>5. <<>> \o <<>> \o <<>> \o <<>> = <<>>
    BY SMT
  <2>6. <<>> \o <<>> \o Append(<<>>, r) \o <<>> = Append(<<>>, r)
    BY SMT
  <2> QED
    BY <2>4, <2>5, <2>6
<1>14. r \notin Range(Waiting)
  BY <1>13, SMT DEF Range
<1>15. Promise!Next
  BY <1>1, <1>2, <1>3, <1>12, <1>13, <1>14, StepAsk
<1> QED
  BY <1>11, <1>15 DEF LineInv, Refined

(* Every step of the worker keeps the rings in line, and is a step of the  *)
(* abstract queue or none.                                                 *)
LEMMA LineStep == WorkerInv /\ FedInv /\ LineInv /\ [Next]_vars => LineInv' /\ Refined
<1> SUFFICES ASSUME WorkerInv, FedInv, LineInv, [Next]_vars PROVE LineInv' /\ Refined
  OBVIOUS
<1>1. CASE UNCHANGED vars
  <2>1. /\ workitems' = workitems /\ next_workitem' = next_workitem
        /\ next_workeritem' = next_workeritem /\ responses' = responses
        /\ next_response' = next_response /\ next_workresp' = next_workresp
        /\ thread_ref' = thread_ref /\ child' = child /\ parent' = parent
        /\ lost' = lost /\ damage' = damage
    BY <1>1 DEF vars, rings
  <2>2. CASE Intact'
    <3>1. /\ Intact /\ ChildQ' = ChildQ /\ ParentQ' = ParentQ
          /\ (Parting => Parting') /\ (Leaving' <=> Leaving)
      BY <2>1, <2>2 DEF Intact, ChildQ, ParentQ, WithChild, WithParent, Parting,
                               Leaving
    <3>2. Said'
      BY <2>1, <3>1 DEF LineInv, Said
    <3> QED
      BY <2>1, <2>2, <3>1, <3>2, QuietRefines
  <2> QED
    BY <2>2, Broken
<1>2. CASE Next
  <2>1. Running /\ WorkerInv'
    BY <1>2, WorkerStep DEF Next
  <2>2. ASSUME NEW r \in Requests, Ask(r) PROVE LineInv' /\ Refined
    BY <2>1, <2>2, AskRefines
  <2>3. ASSUME NEW r \in Requests, AskAndStart(r) PROVE LineInv' /\ Refined
    BY <2>1, <2>3, StartRefines
  <2>4. CASE GrowWorkitems \/ WorkerIdleTimerFired
    BY <2>1, <2>4, GrowRefines, TimerRefines
  <2>5. CASE Complete \/ Retry \/ CleanupAfterChild
    BY <2>1, <2>5, CompleteRefines, RetryRefines, CleanupRefines
  <2>6. CASE ReceiveBlockingReq \/ StoreResponse \/ GrowResponses
    BY <2>1, <2>6, ReceiveRefines, StoreRefines, GrowResponsesRefines
  <2>7. CASE \/ BeginResponseGrowth \/ WriteByte \/ StrayByte \/ ReadPipe \/ NoResponse
    BY <2>1, <2>7, BytesRefine
  <2> QED
    BY <1>2, <2>2, <2>3, <2>4, <2>5, <2>6, <2>7
       DEF Next, ParentResponds, ChildStep
<1> QED
  BY <1>1, <1>2

(* Before the first request nothing waits, and the rings are in line.      *)
LEMMA LineInit == Init => LineInv /\ Promise!Init
<1> SUFFICES ASSUME Init PROVE LineInv /\ Promise!Init
  OBVIOUS
<1>1. /\ \A k \in DOMAIN workitems : workitems[k] = Null
      /\ \A k \in DOMAIN responses : responses[k] = Null
      /\ next_workitem = 0 /\ next_workeritem = 0 /\ next_response = 0
      /\ next_workresp = 0 /\ ~thread_ref /\ child = Gone /\ parent = Idle
      /\ lost = {} /\ damage = "none"
  BY DEF Init, Ring
<1>2. workitems \in Rings(Items) /\ responses \in Rings(Responses)
  BY InitWorker DEF WorkerInv, Typed
<1>3. /\ Alloc(workitems) > 0 => Line(workitems, 0, 0) /\ Second(workitems, 0, 0)
      /\ Alloc(responses) > 0 => Solid(responses, 0, 0)
      /\ InRing(workitems, 0) = <<>> /\ InRing(responses, 0) = <<>>
  BY <1>1, <1>2, EmptyLine
<1>4. LineInv
  BY <1>1, <1>3 DEF LineInv, Requested, Ahead, Answering, Said
<1>5. child.pc = "none" /\ child.req = Null /\ parent.pc = "idle"
  BY <1>1 DEF Gone, Idle
<1>6. ~Leaving
  <2>1. Null # ChildExitReq /\ Null # ChildGoneResp
    BY Sentinels
  <2> QED
    BY <1>1, <1>5, <2>1 DEF Leaving, Range
<1>7. Waiting = <<>>
  <2>1. ChildQ = <<>> /\ ParentQ = <<>>
    BY <1>5 DEF ChildQ, ParentQ, WithChild, WithParent
  <2>2. Waiting = InRing(responses, next_workresp) \o ChildQ
                  \o InRing(workitems, next_workeritem) \o ParentQ
    BY DEF Waiting, ChildQ, ParentQ
  <2>3. Waiting = <<>> \o <<>> \o <<>> \o <<>>
    BY <1>1, <1>3, <2>1, <2>2
  <2> QED
    BY <2>3, SMT
<1> QED
  BY <1>1, <1>4, <1>6, <1>7 DEF Promise!Init, Intact

(* The rings are in line in every reachable state.                         *)
LEMMA LineHolds == Spec => []LineInv
BY LineInit, LineStep, WorkerHolds, FedHolds, PTL DEF Spec

(* The worker implements Resolver: for any number of requests and any      *)
(* sizes of the rings, ask, store, wake and answer through two rings, a    *)
(* semaphore and a pipe behave as one first-in first-out queue, until a    *)
(* ring is extended away from its start, or a ring or its index is changed *)
(* under the other thread's hands.                                         *)
THEOREM ImplementsResolverHolds == Spec => ImplementsResolver
<1>1. Init => Promise!Init
  BY LineInit
<1>2. WorkerInv /\ FedInv /\ LineInv /\ [Next]_vars => [Promise!Next]_(Promise!vars)
  BY LineStep DEF Refined
<1> QED
  BY <1>1, <1>2, WorkerHolds, FedHolds, LineHolds, PTL
     DEF Spec, ImplementsResolver, Promise!Spec
=============================================================================
