------------------------------- MODULE Worker -------------------------------
(***************************************************************************)
(* The blocking worker of libntp: ntp_worker.c, work_thread.c and the part *)
(* of ntp_intres.c that queues a request and completes it.  The daemon's   *)
(* thread (the parent) queues requests in the ring workitems and posts a   *)
(* semaphore; the worker thread (the child) takes them, looks the name up, *)
(* stores its answer in the ring responses and writes a byte to a pipe.    *)
(* The rings are shared without a lock: each thread tells a full slot from *)
(* an empty one by NULL, and a ring that is full is reallocated by the     *)
(* thread that fills it.  When nothing has been pending for CHILD_MAX_IDLE *)
(* seconds the child is told to exit, and a later request starts another.  *)
(*                                                                         *)
(* The variable damage records that a ring has been extended away from its *)
(* start, which lets the writer lap the reader, or under the hands of the  *)
(* other thread, or that both threads set next_response at once.  After    *)
(* the latter two the model stops: the source no longer says what happens. *)
(* Other accesses to the rings are taken to be sequentially consistent.    *)
(* There is one child, since ntpd never sets worker_per_query.             *)
(***************************************************************************)
EXTENDS Integers, FiniteSets, Sequences, Functions

CONSTANTS
  Requests,     \* the names and addresses to look up
  Persistent,   \* those asked for with retry > 0
  WorkInc,      \* WORKITEMS_ALLOC_INC (16)
  RespInc,      \* RESPONSES_ALLOC_INC (4)
  MaxAlloc      \* bound: the length of a ring

Null == "NULL"
ChildExitReq == "CHILD_EXIT_REQ"
ChildGoneResp == "CHILD_GONE_RESP"

ASSUME WorkerConstants ==
  /\ IsFiniteSet(Requests) /\ Persistent \subseteq Requests
  /\ Requests \cap {Null, ChildExitReq, ChildGoneResp} = {}
  /\ {WorkInc, RespInc, MaxAlloc} \subseteq Nat \ {0}

Items == Requests \cup {Null, ChildExitReq}
Responses == Requests \cup {Null, ChildGoneResp}

VARIABLES
  workitems, next_workitem, next_workeritem,
  responses, next_response, next_workresp,
  blocking_req_ready,  \* the semaphore's count
  pipe,                \* the bytes in the response pipe
  thread_ref,          \* is there a child?
  reusable,            \* has a child been cleaned up after?
  intres_req_pending,
  worker_idle_timer,   \* is it set?
  parent,              \* where the parent is, and what it holds
  child,               \* the same for the child
  stray,               \* a child cleaned up after has yet to write its byte
  lost,                \* history: the requests cleanup_after_child dropped
  damage,              \* history: was a ring spoilt, and how?
  aborted              \* has an INSIST failed?

rings == <<workitems, next_workitem, next_workeritem,
           responses, next_response, next_workresp>>
vars == <<rings, blocking_req_ready, pipe, thread_ref, reusable,
          intres_req_pending, worker_idle_timer, parent, child, stray, lost,
          damage, aborted>>

(* A ring is a function on 0 .. alloc - 1; the empty one is NULL.          *)
Ring(n) == [i \in 0 .. (n - 1) |-> Null]
Alloc(ring) == Cardinality(DOMAIN ring)
Full(ring, next) == Alloc(ring) = 0 \/ ring[next] # Null
Extended(ring, inc) ==
  [i \in 0 .. (Alloc(ring) + inc - 1) |->
     IF i < Alloc(ring) THEN ring[i] ELSE Null]
Advance(ring, next) == (next + 1) % Alloc(ring)

(* The requests in a ring, in the order in which its reader meets them.    *)
InRing(ring, from) ==
  LET At(i) == ring[(from + i) % Alloc(ring)]
      I == {i \in 0 .. (Alloc(ring) - 1) : At(i) \in Requests} IN
  [n \in 1 .. Cardinality(I) |->
     At(CHOOSE i \in I : Cardinality({j \in I : j < i}) = n - 1)]

(* The requests that await completion: answered, with the child, queued,   *)
(* and one the parent is about to queue; all of them, and in their order.  *)
WithChild ==
  {r \in Requests : child.pc \in {"work", "grow"} /\ child.req = r}
WithParent == {r \in Requests : parent.pc = "grow" /\ parent.req = r}
Underway ==
  (Range(responses) \cap Requests) \cup WithChild
    \cup (Range(workitems) \cap Requests) \cup WithParent

Waiting ==
  InRing(responses, next_workresp)
    \o (IF WithChild # {} THEN <<child.req>> ELSE <<>>)
    \o InRing(workitems, next_workeritem)
    \o (IF WithParent # {} THEN <<parent.req>> ELSE <<>>)

Idle == [pc |-> "idle", req |-> Null, copy |-> Ring(0), after |-> "idle"]
Gone == [pc |-> "none", req |-> Null, copy |-> Ring(0)]

Init ==
  /\ workitems = Ring(0) /\ next_workitem = 0 /\ next_workeritem = 0
  /\ responses = Ring(0) /\ next_response = 0 /\ next_workresp = 0
  /\ blocking_req_ready = 0 /\ pipe = 0
  /\ thread_ref = FALSE /\ reusable = FALSE
  /\ intres_req_pending = 0 /\ worker_idle_timer = FALSE
  /\ parent = Idle /\ child = Gone /\ stray = FALSE
  /\ lost = {} /\ damage = "none" /\ aborted = FALSE

-----------------------------------------------------------------------------
(* The parent queues.                                                      *)

(* Mutant of QueueReqPointer: the semaphore is not posted.                 *)
QueueReqPointerNoPost(ring, at, item, sem) ==
  /\ workitems' = [ring EXCEPT ![at] = item]
  /\ next_workitem' = Advance(ring, at)
  /\ blocking_req_ready' = sem

(* queue_req_pointer, into the given ring at the given place.              *)
QueueReqPointer(ring, at, item, sem) ==
  /\ workitems' = [ring EXCEPT ![at] = item]
  /\ next_workitem' = Advance(ring, at)
  /\ blocking_req_ready' = sem + 1

(* ensure_workitems_empty_slot leaves next_workitem alone unless it is 0.  *)
ExtendedAt(ring, next) == IF next = 0 THEN Alloc(ring) ELSE next

(* Mutant of QueueBlockingRequest: the idle timer is left running.         *)
QueueBlockingRequestTimer(pending) ==
  /\ reusable' = FALSE
  /\ UNCHANGED worker_idle_timer
  /\ intres_req_pending' = pending + 1

(* queue_blocking_request, with the given number pending, up to the call   *)
(* of send_blocking_req_internal.                                          *)
QueueBlockingRequest(pending) ==
  /\ reusable' = FALSE
  /\ worker_idle_timer' = (worker_idle_timer /\ pending # 0)
  /\ intres_req_pending' = pending + 1

(* send_blocking_req_internal when there is a child: the request is queued *)
(* at once, or erealloc_zero copies the ring and has yet to publish it.    *)
SendToChild(r, after) ==
  \/ /\ ~Full(workitems, next_workitem)
     /\ QueueReqPointer(workitems, next_workitem, r, blocking_req_ready)
     /\ parent' = [Idle EXCEPT !.pc = after]
  \/ /\ Full(workitems, next_workitem)
     /\ Alloc(workitems) + WorkInc <= MaxAlloc
     /\ parent' = [pc |-> "grow", req |-> r, copy |-> workitems,
                   after |-> after]
     /\ UNCHANGED <<workitems, next_workitem, blocking_req_ready>>

(* Mutant of StartChild: the semaphore keeps its count.                    *)
StartChildSem(r, ring, at) ==
  /\ QueueReqPointer(ring, at, r, blocking_req_ready)
  /\ thread_ref' = TRUE /\ child' = [Gone EXCEPT !.pc = "wait"]
  /\ pipe' = 0

(* start_blocking_thread, and the request it is started for.               *)
StartChild(r, ring, at) ==
  /\ QueueReqPointer(ring, at, r, 0)
  /\ thread_ref' = TRUE /\ child' = [Gone EXCEPT !.pc = "wait"]
  /\ pipe' = 0

(* getaddrinfo_sometime or getnameinfo_sometime with a child ...           *)
Ask(r) ==
  /\ parent.pc = "idle" /\ thread_ref
  /\ r \notin Underway \cup lost
  /\ QueueBlockingRequest(intres_req_pending)
  /\ SendToChild(r, "idle")
  /\ UNCHANGED <<next_workeritem, responses, next_response, next_workresp,
                 pipe, thread_ref, child, stray, lost, damage, aborted>>

(* ... and without: the rings are made ready with nobody to race.          *)
AskAndStart(r) ==
  LET grow == Full(workitems, next_workitem)
      ring == IF grow THEN Extended(workitems, WorkInc) ELSE workitems
      at == IF grow THEN ExtendedAt(workitems, next_workitem)
                    ELSE next_workitem
  IN
  /\ parent.pc = "idle" /\ ~thread_ref
  /\ r \notin lost
  /\ QueueBlockingRequest(intres_req_pending)
  /\ responses' = IF Full(responses, next_response)
                    THEN Extended(responses, RespInc) ELSE responses
  /\ StartChild(r, ring, at)
  /\ damage' = IF grow /\ next_workitem # 0 THEN "lapped" ELSE damage
  /\ UNCHANGED <<next_workeritem, next_response, next_workresp, parent,
                 stray, lost, aborted>>

(* What erealloc_zero makes of a ring of which copy was the content: the   *)
(* block moved, and what was cleared meanwhile is back, or it stayed.      *)
Moved(ring, copy) == {ring, copy}

(* The other thread has used the ring meanwhile, and either its changes    *)
(* are undone or it has gone around the old ring; or the writer was not at *)
(* the start, where the next item belongs after the last one.              *)
Growth(ring, copy, block, writer, reader) ==
  IF block # ring \/ (reader = 0 /\ ring # copy) THEN "raced"
  ELSE IF writer # 0 THEN "lapped"
  ELSE damage

(* The rest of ensure_workitems_empty_slot, and queue_req_pointer.         *)
GrowWorkitems ==
  /\ parent.pc = "grow"
  /\ \E block \in Moved(workitems, parent.copy) :
       /\ QueueReqPointer(Extended(block, WorkInc),
                          ExtendedAt(block, next_workitem),
                          parent.req, blocking_req_ready)
       /\ damage' = Growth(workitems, parent.copy, block,
                           next_workitem, next_workeritem)
  /\ parent' = [Idle EXCEPT !.pc = parent.after]
  /\ UNCHANGED <<next_workeritem, responses, next_response, next_workresp,
                 pipe, thread_ref, reusable, intres_req_pending,
                 worker_idle_timer, child, stray, lost, aborted>>

(* worker_idle_timer_fired, from timer(): the child is told to exit, or    *)
(* the ring of one that is gone already gets the request to exit.          *)
WorkerIdleTimerFired ==
  /\ parent.pc = "idle" /\ worker_idle_timer
  /\ worker_idle_timer' = FALSE
  /\ QueueReqPointer(workitems, next_workitem, ChildExitReq,
                     blocking_req_ready)
  /\ UNCHANGED <<next_workeritem, responses, next_response, next_workresp,
                 pipe, thread_ref, reusable, intres_req_pending, parent,
                 child, stray, lost, damage, aborted>>

-----------------------------------------------------------------------------
(* The child.                                                              *)

(* receive_blocking_req_internal: the semaphore, then the next slot.       *)
ReceiveBlockingReq ==
  /\ child.pc = "wait" /\ blocking_req_ready > 0 /\ ~aborted
  /\ blocking_req_ready' = blocking_req_ready - 1
  /\ LET req == workitems[next_workeritem] IN
     \/ /\ req = Null
        /\ aborted' = TRUE
        /\ UNCHANGED <<rings, child>>
     \/ /\ req # Null
        /\ workitems' = [workitems EXCEPT ![next_workeritem] = Null]
        /\ next_workeritem' = Advance(workitems, next_workeritem)
        /\ child' = [child EXCEPT
                       !.pc = "work",
                       !.req = IF req = ChildExitReq THEN ChildGoneResp
                                                     ELSE req]
        /\ UNCHANGED <<next_workitem, responses, next_response,
                       next_workresp, aborted>>
  /\ UNCHANGED <<pipe, thread_ref, reusable, intres_req_pending,
                 worker_idle_timer, parent, stray, lost, damage>>

(* The lookup is over: send_blocking_resp_internal stores the answer, and  *)
(* advances next_response, which but for CleanupAfterChild is the child's  *)
(* own ...                                                                 *)
StoreResponse ==
  /\ child.pc = "work" /\ ~Full(responses, next_response)
  /\ responses' = [responses EXCEPT ![next_response] = child.req]
  /\ next_response' = Advance(responses, next_response)
  /\ child' = [child EXCEPT !.pc = "write"]
  /\ UNCHANGED <<workitems, next_workitem, next_workeritem, next_workresp,
                 blocking_req_ready, pipe, thread_ref, reusable,
                 intres_req_pending, worker_idle_timer, parent, stray, lost,
                 damage, aborted>>

(* ... or finds the ring full and copies it ...                            *)
BeginResponseGrowth ==
  /\ child.pc = "work" /\ Full(responses, next_response)
  /\ Alloc(responses) + RespInc <= MaxAlloc
  /\ child' = [child EXCEPT !.pc = "grow", !.copy = responses]
  /\ UNCHANGED <<rings, blocking_req_ready, pipe, thread_ref, reusable,
                 intres_req_pending, worker_idle_timer, parent, stray, lost,
                 damage, aborted>>

(* ... and publishes the copy and stores there.                            *)
GrowResponses ==
  /\ child.pc = "grow"
  /\ \E block \in Moved(responses, child.copy) :
       LET ring == Extended(block, RespInc)
           at == ExtendedAt(block, next_response)
       IN
       /\ responses' = [ring EXCEPT ![at] = child.req]
       /\ next_response' = Advance(ring, at)
       /\ damage' = Growth(responses, child.copy, block,
                           next_response, next_workresp)
  /\ child' = [child EXCEPT !.pc = "write", !.copy = Ring(0)]
  /\ UNCHANGED <<workitems, next_workitem, next_workeritem, next_workresp,
                 blocking_req_ready, pipe, thread_ref, reusable,
                 intres_req_pending, worker_idle_timer, parent, stray, lost,
                 aborted>>

(* The byte that wakes the parent; a child that said it is gone exits.     *)
WriteByte ==
  /\ child.pc = "write"
  /\ pipe' = pipe + 1
  /\ child' = [child EXCEPT !.pc = IF child.req = ChildGoneResp
                                     THEN "none" ELSE "wait",
                            !.req = Null]
  /\ UNCHANGED <<rings, blocking_req_ready, thread_ref, reusable,
                 intres_req_pending, worker_idle_timer, parent, stray, lost,
                 damage, aborted>>

(* A child whose farewell was read before it wrote its byte writes it      *)
(* after all: into the pipe of the next child, if there is one by then.    *)
StrayByte ==
  /\ stray
  /\ stray' = FALSE
  /\ pipe' = IF thread_ref THEN pipe + 1 ELSE pipe
  /\ UNCHANGED <<rings, blocking_req_ready, thread_ref, reusable,
                 intres_req_pending, worker_idle_timer, parent, child, lost,
                 damage, aborted>>

-----------------------------------------------------------------------------
(* The parent completes: process_blocking_resp, when the pipe is readable. *)

(* receive_blocking_resp_internal reads the pipe before it looks.          *)
ReadPipe ==
  /\ \/ parent.pc = "idle" /\ thread_ref /\ pipe > 0
     \/ parent.pc = "read"
  /\ pipe' = 0
  /\ parent' = [parent EXCEPT !.pc = "look"]
  /\ UNCHANGED <<rings, blocking_req_ready, thread_ref, reusable,
                 intres_req_pending, worker_idle_timer, child, stray, lost,
                 damage, aborted>>

(* Mutants of ArmIfIdle: the timer is set whatever is pending; never.      *)
ArmAlways(pending) == worker_idle_timer' = TRUE
ArmNever(pending) == UNCHANGED worker_idle_timer

(* The end of process_blocking_resp: an idle child starts the timer.       *)
ArmIfIdle(pending) ==
  worker_idle_timer' = (worker_idle_timer \/ pending = 0)

Found == responses[next_workresp]

NoResponse ==
  /\ parent.pc = "look" /\ Found = Null
  /\ ArmIfIdle(intres_req_pending)
  /\ parent' = Idle
  /\ UNCHANGED <<rings, blocking_req_ready, pipe, thread_ref, reusable,
                 intres_req_pending, child, stray, lost, damage, aborted>>

TakeResponse ==
  /\ parent.pc = "look" /\ Found \in Requests
  /\ responses' = [responses EXCEPT ![next_workresp] = Null]
  /\ next_workresp' = Advance(responses, next_workresp)

(* Mutant of Complete: the request stays pending.                          *)
CompleteUncounted ==
  /\ TakeResponse
  /\ parent' = [parent EXCEPT !.pc = "read"]
  /\ UNCHANGED <<workitems, next_workitem, next_workeritem, next_response,
                 blocking_req_ready, pipe, thread_ref, reusable,
                 intres_req_pending, worker_idle_timer, child, stray, lost,
                 damage, aborted>>

(* done_func calls the callback ...                                        *)
Complete ==
  /\ TakeResponse
  /\ intres_req_pending' = intres_req_pending - 1
  /\ parent' = [parent EXCEPT !.pc = "read"]
  /\ UNCHANGED <<workitems, next_workitem, next_workeritem, next_response,
                 blocking_req_ready, pipe, thread_ref, reusable,
                 worker_idle_timer, child, stray, lost, damage, aborted>>

(* ... or, for a name that could not be looked up yet, queues it again.    *)
Retry ==
  /\ TakeResponse
  /\ Found \in Persistent
  /\ QueueBlockingRequest(intres_req_pending - 1)
  /\ SendToChild(Found, "read")
  /\ UNCHANGED <<next_workeritem, next_response, pipe, thread_ref, child,
                 stray, lost, damage, aborted>>

(* The child is gone: cleanup_after_child empties both rings.  The parent  *)
(* may find the farewell before the byte is written, and then the child    *)
(* may have yet to advance next_response, which this resets.               *)
CleanupAfterChild ==
  /\ parent.pc = "look" /\ Found = ChildGoneResp
  /\ lost' = lost \cup Underway
  /\ workitems' = Ring(Alloc(workitems))
  /\ next_workitem' = 0 /\ next_workeritem' = 0
  /\ responses' = Ring(Alloc(responses))
  /\ next_response' = 0 /\ next_workresp' = 0
  /\ thread_ref' = FALSE /\ reusable' = TRUE /\ pipe' = 0
  /\ stray' = (child.pc = "write")
  /\ child' = Gone
  /\ damage' \in {damage} \cup (IF child.pc = "write" THEN {"raced"} ELSE {})
  /\ ArmIfIdle(intres_req_pending)
  /\ parent' = Idle
  /\ UNCHANGED <<blocking_req_ready, intres_req_pending, aborted>>

-----------------------------------------------------------------------------
ParentResponds ==
  ReadPipe \/ NoResponse \/ Complete \/ Retry \/ CleanupAfterChild

ChildStep ==
  \/ ReceiveBlockingReq
  \/ StoreResponse \/ BeginResponseGrowth \/ GrowResponses
  \/ WriteByte \/ StrayByte

(* A failed INSIST ends the process; a race on a ring or its index ends    *)
(* what the source says of it.                                             *)
Running == ~aborted /\ damage # "raced"

Next ==
  /\ Running
  /\ \/ \E r \in Requests : Ask(r) \/ AskAndStart(r)
     \/ GrowWorkitems
     \/ WorkerIdleTimerFired
     \/ ParentResponds
     \/ ChildStep

Spec == Init /\ [][Next]_vars
FairSpec ==
  /\ Spec
  /\ WF_vars(Running /\ ChildStep)
  /\ WF_vars(Running /\ (GrowWorkitems \/ ParentResponds))
  /\ WF_vars(Running /\ WorkerIdleTimerFired)

-----------------------------------------------------------------------------
(* The types; every index of a ring lies within it.                        *)
TypeOK ==
  /\ {Alloc(workitems), Alloc(responses)} \subseteq Nat
  /\ workitems \in [0 .. (Alloc(workitems) - 1) -> Items]
  /\ responses \in [0 .. (Alloc(responses) - 1) -> Responses]
  /\ {next_workitem, next_workeritem} \subseteq DOMAIN workitems \cup {0}
  /\ {next_response, next_workresp} \subseteq DOMAIN responses \cup {0}
  /\ {blocking_req_ready, pipe, intres_req_pending} \subseteq Nat
  /\ {thread_ref, reusable, worker_idle_timer, stray, aborted}
        \subseteq BOOLEAN
  /\ parent.pc \in {"idle", "read", "look", "grow"}
  /\ child.pc \in {"none", "wait", "work", "grow", "write"}
  /\ lost \subseteq Requests
  /\ damage \in {"none", "lapped", "raced"}

Intact == damage = "none"

(* The counter intres_req_pending, which nothing ties to the rings, counts *)
(* exactly the requests on their way and those dropped with a child that   *)
(* went: so a dropped request keeps the counter from 0 for good.           *)
Accounted ==
  Intact => intres_req_pending = Len(Waiting) + Cardinality(lost)

(* DEBUG_REQUIRE(0 == intres_req_pending) of worker_idle_timer_fired: the  *)
(* timer, set when a response leaves nothing pending, never runs while a   *)
(* request is pending.                                                     *)
IdleWhenArmed == worker_idle_timer => intres_req_pending = 0

(* INSIST(NULL != req) of receive_blocking_req_internal: the semaphore     *)
(* never lets the child past an empty slot, unless a ring was spoilt       *)
(* before.                                                                 *)
InsistReq == aborted => ~Intact

(* What the worker implements: Resolver, for as long as it is intact.      *)
Leaving ==
  \/ ChildExitReq \in Range(workitems)
  \/ ChildGoneResp \in Range(responses)
  \/ child.req = ChildGoneResp

Promise ==
  INSTANCE Resolver WITH
    waiting <- IF Intact THEN Waiting ELSE <<>>,
    leaving <- Intact /\ Leaving,
    lost <- IF Intact THEN lost ELSE {},
    sound <- Intact

(* The two rings, the semaphore and the pipe together are one first-in     *)
(* first-out queue; requests are dropped only by a child that was told to  *)
(* exit before they were made.                                             *)
ImplementsResolver == Promise!Spec

(* A request made without retries is completed, or is dropped with a child *)
(* that was told to exit, or the rings are spoilt: no interleaving leaves  *)
(* it waiting for ever.                                                    *)
Completed ==
  \A r \in Requests \ Persistent :
    r \in Underway ~> r \notin Underway \/ ~Intact

(* "Once the timer expires, the child is sent packing": when no request    *)
(* comes any more and none was dropped, the child exits and stays away.    *)
SentPacking ==
  <>[](intres_req_pending = 0 /\ Intact) => <>[](~thread_ref)
=============================================================================
