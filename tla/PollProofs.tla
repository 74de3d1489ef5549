----------------------------- MODULE PollProofs -----------------------------
(***************************************************************************)
(* Proofs about the poll process (Poll), for every kind of association,    *)
(* every range of poll exponents, every size of the reach register and of  *)
(* bursts, and any number of restarts.                                     *)
(***************************************************************************)
EXTENDS Poll, TLAPS

(* Zenon is the default prover of the leaves below; those that need arithmetic
   or that only the SMT solver finds cite SMT.                              *)
USE Zenon

-----------------------------------------------------------------------------
(* What the operators of the model make of struct peer *)

(* struct peer in the middle of a handler, when the next poll may be past. *)
PeerRecord ==
  [minpoll : Polls, hpoll : Polls, ppoll : Polls,
   reach : 0 .. (2^ReachBits - 1), unreach : 0 .. UnreachCap,
   burst : 0 .. PMax(IBurst, Shift), retry : 0 .. Retry,
   throttle : Nat, next : Int, out : 0 .. Horizon, ttl : 0 .. TTLMax]

(* The product of two naturals is a natural, for the intervals 2^poll that *)
(* the throttle is measured in.                                            *)
LEMMA Product == ASSUME NEW a \in Nat, NEW b \in Nat PROVE a * b \in Nat
BY SMT

(* The poll exponents in use and their seconds.                            *)
LEMMA Seconds ==
  ASSUME NEW e \in Polls
  PROVE  e \in Nat /\ 2^e \in Nat /\ 4 <= 2^e /\ 2^MinPoll <= 2^e
BY PollConstants, PollPowers, SMT DEF Polls

(* The bounds made from the constants.                                     *)
LEMMA Bounds ==
  /\ Horizon \in Nat \ {0} /\ UnreachCap \in Nat \ {0} /\ Unreach <= UnreachCap
  /\ MinGap \in Nat /\ MinPkt <= MinGap /\ 2^MinPoll <= MinGap
  /\ PMax(IBurst, Shift) \in Nat
  /\ IBurst <= PMax(IBurst, Shift) /\ Shift <= PMax(IBurst, Shift)
<1>1. 2^MinPoll \in Nat /\ 2^PollCap \in Nat \ {0}
  BY PollConstants, PollPowers, SMT
<1> QED
  BY <1>1, PollConstants, SMT DEF Horizon, UnreachCap, MinGap, PMax

(* poll_update() changes hpoll and nextdate only.  The next poll is where  *)
(* it was in the middle of a burst, or as far away as the guard time, the  *)
(* throttle and, outside a burst, the poll interval demand.                *)
SameCounters(p, q) ==
  /\ q.minpoll = p.minpoll /\ q.reach = p.reach /\ q.unreach = p.unreach
  /\ q.burst = p.burst /\ q.retry = p.retry
  /\ q.throttle = p.throttle /\ q.out = p.out

InRange(q) ==
  /\ q \in PeerRecord /\ q.next \in Nat
  /\ q.minpoll <= q.hpoll /\ q.hpoll <= PMax(MaxPoll, q.minpoll)

(* What poll_update() returns: a record in range with the counters         *)
(* untouched, whose next poll is in the burst, or respects both the guard  *)
(* time and the throttle.                                                  *)
LEMMA PollUpdated ==
  ASSUME NEW p \in PeerRecord, NEW mpoll \in Int, NEW q \in PollUpdate(p, mpoll)
  PROVE  /\ InRange(q) /\ SameCounters(p, q)
         /\ \/ p.burst > 0 /\ p.next > 0 /\ q.next = p.next
            \/ /\ q.next >= MinPkt
               /\ q.next >= p.throttle - (Shift - 1) * 2^p.minpoll
         /\ p.burst = 0 => q.next + p.out >= 2^MinPoll
<1> DEFINE h == Clamp(p, mpoll)
           r == [p EXCEPT !.hpoll = h]
<1>1. h \in Polls /\ p.minpoll <= h /\ h <= PMax(MaxPoll, p.minpoll)
  BY PollConstants, SMT DEF Clamp, PMax, PMin, PeerRecord, Polls
<1> HIDE DEF h
<1>2. r \in PeerRecord /\ r.burst = p.burst /\ r.next = p.next /\ r.out = p.out
      /\ r.throttle = p.throttle /\ r.minpoll = p.minpoll /\ r.hpoll = h
  BY <1>1 DEF PeerRecord
<1>3. 2^p.minpoll \in Nat /\ (Shift - 1) * 2^p.minpoll \in Int
  BY Seconds, PollConstants, SMT DEF PeerRecord
<1>4. /\ Earliest(r) \in Nat /\ Earliest(r) >= MinPkt
      /\ Earliest(r) >= p.throttle - (Shift - 1) * 2^p.minpoll
  BY <1>2, <1>3, PollConstants, SMT DEF Earliest, PMax, PeerRecord
<1>5. Exponent(r) \in Polls
  BY <1>2 DEF Exponent, PMin, PeerRecord, Polls
<1>6. Headroom(r) \in Nat
  BY PollConstants DEF Headroom
<1>7. ASSUME NEW n \in Nat, q = [r EXCEPT !.next = n]
      PROVE  /\ q \in PeerRecord /\ q.next = n /\ q.hpoll = h
             /\ SameCounters(p, q)
  <2>1. SameCounters(p, r)
    BY DEF SameCounters, PeerRecord
  <2> HIDE DEF r
  <2>2. q \in PeerRecord /\ q.next = n /\ q.hpoll = h
    BY <1>2, <1>7, SMT DEF PeerRecord
  <2>3. SameCounters(r, q)
    BY <1>2, <1>7 DEF SameCounters, PeerRecord
  <2> QED
    BY <2>1, <2>2, <2>3 DEF SameCounters
<1>8. CASE p.burst > 0
  <2> DEFINE n == IF r.next > 0 THEN r.next ELSE Earliest(r)
  <2>1. q = [r EXCEPT !.next = n]
    BY <1>2, <1>8 DEF PollUpdate, h
  <2>2. n \in Nat
    BY <1>2, <1>4, SMT DEF PeerRecord
  <2>3. \/ p.next > 0 /\ n = p.next
        \/ n >= MinPkt /\ n >= p.throttle - (Shift - 1) * 2^p.minpoll
    BY <1>2, <1>4
  <2> HIDE DEF n, r
  <2> QED
    BY <1>1, <1>7, <1>8, <2>1, <2>2, <2>3, SMT DEF InRange, SameCounters
<1>9. CASE p.burst = 0
  <2>1. PICK i \in Interval(Exponent(r)) :
          q = [r EXCEPT !.next = PMax(i - r.out, Earliest(r)) + Headroom(r)]
    <3>1. ~(r.burst > 0)
      BY <1>2, <1>9, SMT
    <3> QED
      BY <3>1 DEF PollUpdate, h
  <2> HIDE DEF r
  <2>2. i \in Nat /\ 2^MinPoll <= i /\ 2^MinPoll \in Nat
    <3>1. PICK j \in 0 .. ((2^Exponent(r) * 255) \div 4096) :
            i = 2^Exponent(r) + j
      BY SMT DEF Interval
    <3> QED
      BY <1>5, <3>1, Seconds, PollConstants, PollPowers, SMT
  <2> DEFINE n == PMax(i - r.out, Earliest(r)) + Headroom(r)
  <2>3. p.out \in Nat
    BY Bounds, SMT DEF PeerRecord
  <2>4. n \in Nat /\ n >= Earliest(r) /\ n >= i - p.out
    BY <1>2, <1>4, <1>6, <2>2, <2>3, SMT DEF PMax
  <2>5. q = [r EXCEPT !.next = n]
    BY <2>1
  <2> HIDE DEF n
  <2>6. /\ n >= MinPkt /\ n >= p.throttle - (Shift - 1) * 2^p.minpoll
        /\ n + p.out >= 2^MinPoll
    BY <1>3, <1>4, <2>2, <2>3, <2>4, PollConstants, SMT DEF PeerRecord
  <2> QED
    BY <1>1, <1>7, <2>4, <2>5, <2>6 DEF InRange, SameCounters
<1> QED
  BY <1>8, <1>9, SMT DEF PeerRecord

(* The second that goes by.                                                *)
LEMMA Seconded ==
  ASSUME NEW p \in PeerRecord
  PROVE  /\ Second(p) \in PeerRecord
         /\ Second(p).minpoll = p.minpoll /\ Second(p).hpoll = p.hpoll
         /\ Second(p).reach = p.reach /\ Second(p).unreach = p.unreach
         /\ Second(p).burst = p.burst /\ Second(p).retry = p.retry
         /\ Second(p).throttle = PMax(p.throttle - 1, 0)
         /\ Second(p).next = p.next - 1
         /\ Second(p).out = PMin(p.out + 1, Horizon)
<1> DEFINE t == PMax(p.throttle - 1, 0)
           n == p.next - 1
           o == PMin(p.out + 1, Horizon)
<1>1. t \in Nat /\ n \in Int /\ o \in 0 .. Horizon
  BY Bounds, SMT DEF PMax, PMin, PeerRecord
<1>2. Second(p) = [p EXCEPT !.throttle = t, !.next = n, !.out = o]
  BY DEF Second, PeerRecord
<1> HIDE DEF t, n, o
<1>3. /\ Second(p) \in PeerRecord
      /\ Second(p).minpoll = p.minpoll /\ Second(p).hpoll = p.hpoll
      /\ Second(p).reach = p.reach /\ Second(p).unreach = p.unreach
      /\ Second(p).burst = p.burst /\ Second(p).retry = p.retry
      /\ Second(p).throttle = t /\ Second(p).next = n /\ Second(p).out = o
  BY <1>1, <1>2 DEF PeerRecord
<1> QED
  BY <1>3 DEF t, n, o

(* peer_xmit() or pool_xmit() charges the throttle of an association whose *)
(* time has come, and poll_update() looks for the next poll: never one in  *)
(* the past, because the old one is.                                       *)
Charged(p, sent) ==
  IF sent THEN p.throttle + 2^p.minpoll - 2 ELSE p.throttle

(* What transmit() leaves after it charged the throttle and called         *)
(* poll_update().                                                          *)
LEMMA Transmitted ==
  ASSUME NEW p \in PeerRecord, p.next <= 0, NEW sent \in BOOLEAN,
         NEW mpoll \in Int, NEW q \in PollUpdate(Charge(p, sent), mpoll)
  PROVE  /\ InRange(q) /\ q.throttle = Charged(p, sent)
         /\ q.minpoll = p.minpoll /\ q.reach = p.reach
         /\ q.unreach = p.unreach /\ q.burst = p.burst
         /\ q.retry = p.retry /\ q.out = p.out
         /\ q.next >= MinPkt
         /\ q.next >= q.throttle - (Shift - 1) * 2^q.minpoll
         /\ q.burst = 0 => q.next + q.out >= 2^MinPoll
<1> DEFINE c == Charge(p, sent)
<1>1. Charged(p, sent) \in Nat
  BY Seconds, SMT DEF Charged, PeerRecord
<1>2. c = [p EXCEPT !.throttle = Charged(p, sent)]
  <2>1. CASE sent
    BY <2>1 DEF Charge, Charged, PeerRecord
  <2>2. CASE ~sent
    BY <2>2 DEF Charge, Charged, PeerRecord
  <2> QED
    BY <2>1, <2>2
<1>3. /\ c \in PeerRecord /\ c.throttle = Charged(p, sent) /\ c.next = p.next
      /\ c.minpoll = p.minpoll /\ c.reach = p.reach /\ c.unreach = p.unreach
      /\ c.burst = p.burst /\ c.retry = p.retry /\ c.out = p.out
  BY <1>1, <1>2 DEF PeerRecord
<1> HIDE DEF c
<1>4. q \in PollUpdate(c, mpoll)
  BY DEF c
<1> QED
  BY <1>3, <1>4, PollUpdated, SMT DEF SameCounters, PeerRecord

(* A new poll shifts the reach register; it starts no burst.               *)
LEMMA NewPolled ==
  ASSUME NEW p \in PeerRecord, NEW fit
  PROVE  /\ NewPoll(p, fit) \in PeerRecord
         /\ NewPoll(p, fit).minpoll = p.minpoll
         /\ NewPoll(p, fit).hpoll = p.hpoll
         /\ NewPoll(p, fit).reach = (p.reach * 2) % 2^ReachBits
         /\ NewPoll(p, fit).unreach =
              IF (p.reach * 2) % 2^ReachBits # 0 /\ ~kind.preempt THEN 0
              ELSE Bump(p.unreach)
         /\ NewPoll(p, fit).burst = p.burst
         /\ NewPoll(p, fit).retry \in {p.retry, Retry}
         /\ ~kind.iburst /\ ~kind.burst => NewPoll(p, fit).retry = p.retry
         /\ NewPoll(p, fit).throttle = p.throttle
         /\ NewPoll(p, fit).next = p.next /\ NewPoll(p, fit).out = 0
<1> DEFINE reach == (p.reach * 2) % 2^ReachBits
           again == IF reach = 0 THEN kind.iburst ELSE kind.burst /\ fit
           unreach == IF reach # 0 /\ ~kind.preempt THEN 0 ELSE Bump(p.unreach)
           retry == IF again /\ p.retry = 0 THEN Retry ELSE p.retry
           q == NewPoll(p, fit)
<1>1. reach \in 0 .. (2^ReachBits - 1)
  BY PollPowers, SMT DEF PeerRecord
<1>2. unreach \in 0 .. UnreachCap
  BY Bounds, SMT DEF Bump, PMin, PeerRecord
<1>3. retry \in 0 .. Retry /\ retry \in {p.retry, Retry}
  BY PollConstants, SMT DEF PeerRecord
<1>4. ~kind.iburst /\ ~kind.burst => retry = p.retry
  OBVIOUS
<1>5. q = [p EXCEPT !.out = 0, !.reach = reach, !.unreach = unreach,
                    !.retry = retry]
  BY DEF NewPoll, PeerRecord
<1> HIDE DEF reach, unreach, retry, q
<1>6. 0 \in 0 .. Horizon
  BY Bounds, SMT
<1>7. /\ q \in PeerRecord /\ q.reach = reach /\ q.unreach = unreach
      /\ q.retry = retry /\ q.out = 0 /\ q.minpoll = p.minpoll
      /\ q.hpoll = p.hpoll /\ q.burst = p.burst
      /\ q.throttle = p.throttle /\ q.next = p.next
  BY <1>1, <1>2, <1>3, <1>5, <1>6 DEF PeerRecord
<1> QED
  BY <1>3, <1>4, <1>7 DEF reach, unreach, q

(* The reply to a poll that armed a burst starts it: with packets to send  *)
(* it is due at once.                                                      *)
LEMMA BurstStarted ==
  ASSUME NEW p \in PeerRecord, p.minpoll <= p.hpoll
  PROVE  LET q == StartBurst(p) IN
         /\ q \in PeerRecord /\ q.retry = 0
         /\ q.minpoll = p.minpoll /\ q.hpoll = p.hpoll /\ q.reach = p.reach
         /\ q.unreach = p.unreach /\ q.throttle = p.throttle /\ q.out = p.out
         /\ \/ p.retry = 0 /\ q.burst = p.burst /\ q.next = p.next
            \/ p.retry > 0 /\ q.burst > 0 /\ q.next = 0
            \/ p.retry > 0 /\ q.burst = 0
<1> DEFINE q == StartBurst(p)
           n == IF p.reach # 0 THEN PMin(2^(p.hpoll - p.minpoll), Shift) - 1
                ELSE IBurst - 1
           x == IF n > 0 THEN 0 ELSE p.next
<1>1. n \in 0 .. PMax(IBurst, Shift)
  <2>1. p.hpoll - p.minpoll \in 0 .. PollCap
    BY PollConstants, SMT DEF PeerRecord, Polls
  <2>2. 2^(p.hpoll - p.minpoll) \in Nat \ {0}
    BY <2>1, PollPowers
  <2> QED
    BY <2>2, Bounds, PollConstants, SMT DEF PMin
<1>2. CASE p.retry = 0
  <2>1. q = p
    BY <1>2 DEF StartBurst
  <2> QED
    BY <1>2, <2>1
<1>3. CASE p.retry > 0
  <2>1. p.retry # 0
    BY <1>3, SMT
  <2>2. q = [p EXCEPT !.retry = 0, !.burst = n, !.next = x]
    BY <2>1 DEF StartBurst, PeerRecord
  <2>3. x \in Int /\ (n > 0 => x = 0) /\ 0 \in 0 .. Retry
    BY PollConstants, SMT DEF PeerRecord
  <2> HIDE DEF n, x, q
  <2>4. /\ q \in PeerRecord /\ q.retry = 0 /\ q.burst = n /\ q.next = x
        /\ q.minpoll = p.minpoll /\ q.hpoll = p.hpoll /\ q.reach = p.reach
        /\ q.unreach = p.unreach /\ q.throttle = p.throttle /\ q.out = p.out
    BY <1>1, <2>2, <2>3 DEF PeerRecord
  <2> QED
    BY <1>1, <1>3, <2>3, <2>4, Bounds, SMT DEF q
<1> QED
  BY <1>2, <1>3, SMT DEF PeerRecord

(* Interleaved hosts move apart by a second, never to a poll in the past.  *)
LEMMA Phased ==
  ASSUME NEW p, InRange(p)
  PROVE  /\ InRange(Phase(p)) /\ SameCounters(p, Phase(p))
         /\ ~kind.xleave => Phase(p).next = p.next
         /\ Phase(p).next >= p.next \/ Phase(p).next = p.next - 1
         /\ Phase(p).next < p.next => 2 * p.next >= 2^MinPoll
<1>1. CASE ~kind.xleave
  BY <1>1, SMT DEF Phase, InRange, SameCounters
<1>2. CASE kind.xleave
  <2> DEFINE e == PMin(p.ppoll, p.hpoll)
             n == IF 2 * p.next < 2^e THEN p.next + 1 ELSE p.next - 1
  <2>1. e \in Polls
    BY DEF PMin, InRange, PeerRecord
  <2>2. 2^e \in Nat /\ 4 <= 2^e /\ 2^MinPoll <= 2^e /\ 2^MinPoll \in Nat
    BY <2>1, Seconds, PollConstants, PollPowers, SMT
  <2>3. Phase(p) = [p EXCEPT !.next = n]
    BY <1>2 DEF Phase, InRange, PeerRecord
  <2>4. /\ n \in Nat /\ (n >= p.next \/ n = p.next - 1)
        /\ n < p.next => 2 * p.next >= 2^MinPoll
    <3> HIDE DEF e
    <3> QED
      BY <2>2, SMT DEF InRange
  <2> HIDE DEF n
  <2>5. /\ Phase(p) \in PeerRecord /\ Phase(p).next = n
        /\ Phase(p).hpoll = p.hpoll /\ SameCounters(p, Phase(p))
    BY <2>3, <2>4, SMT DEF InRange, PeerRecord, SameCounters
  <2> QED
    BY <1>2, <2>4, <2>5 DEF InRange, SameCounters
<1> QED
  BY <1>1, <1>2

(* peer_clear() forgets the polling state, but neither minpoll nor the     *)
(* throttle.                                                               *)
LEMMA PeerCleared ==
  ASSUME NEW p \in PeerRecord, NEW q \in PeerClear(p)
  PROVE  /\ InRange(q) /\ q.minpoll = p.minpoll /\ q.throttle = p.throttle
         /\ q.unreach = p.unreach /\ q.reach = 0 /\ q.burst = 0
         /\ q.retry = 0 /\ q.out = 0
<1>1. PICK n \in FirstPoll(p) :
        q = [p EXCEPT !.ppoll = MaxPoll, !.hpoll = p.minpoll, !.reach = 0,
                      !.burst = 0, !.retry = 0, !.out = 0, !.next = n]
  BY DEF PeerClear
<1>2. n \in Nat /\ n \in Int
  BY PollConstants, SMT DEF FirstPoll, PeerRecord, Polls
<1>3. /\ MaxPoll \in Polls /\ 0 \in 0 .. (2^ReachBits - 1)
      /\ 0 \in 0 .. PMax(IBurst, Shift) /\ 0 \in 0 .. Retry /\ 0 \in 0 .. Horizon
  BY PollConstants, PollPowers, Bounds, SMT DEF Polls
<1>4. q \in PeerRecord
  <2> DEFINE r == [p EXCEPT !.ppoll = MaxPoll, !.hpoll = p.minpoll,
                            !.reach = 0, !.burst = 0]
  <2>1. r \in PeerRecord
    BY <1>3 DEF PeerRecord
  <2>2. q = [r EXCEPT !.retry = 0, !.out = 0, !.next = n]
    BY <1>1
  <2> HIDE DEF r
  <2> QED
    BY <1>2, <1>3, <2>1, <2>2 DEF PeerRecord
<1>5. /\ q.next = n /\ q.hpoll = p.minpoll /\ q.minpoll = p.minpoll
      /\ q.throttle = p.throttle /\ q.unreach = p.unreach /\ q.reach = 0
      /\ q.burst = 0 /\ q.retry = 0 /\ q.out = 0
  BY <1>1 DEF PeerRecord
<1>6. p.minpoll <= PMax(MaxPoll, p.minpoll) /\ p.minpoll <= p.minpoll
  BY PollConstants, SMT DEF PMax, PeerRecord, Polls
<1> QED
  BY <1>2, <1>4, <1>5, <1>6 DEF InRange

(* What process_packet() makes of the association before the packet is     *)
(* looked at: a burst may start, and the headway is computed.              *)
LEMMA Processed ==
  ASSUME InRange(peer), NEW pkt \in Polls, NEW p \in Process(pkt)
  PROVE  /\ InRange(p) /\ p.retry = 0
         /\ p.minpoll = peer.minpoll /\ p.reach = peer.reach
         /\ p.unreach = peer.unreach /\ p.throttle = peer.throttle
         /\ p.out = peer.out
         /\ \/ peer.burst > 0 /\ p.burst > 0 /\ p.next = peer.next
            \/ /\ p.next >= MinPkt
               /\ p.next >= p.throttle - (Shift - 1) * 2^p.minpoll
         /\ p.burst = 0 => p.next + p.out >= 2^MinPoll
         /\ peer.retry = 0 => p.burst = peer.burst
<1> DEFINE m == PMax(peer.minpoll, pkt)
           r == [peer EXCEPT !.ppoll = m]
           s == StartBurst(r)
<1>1. m \in Polls
  BY DEF PMax, InRange, PeerRecord, Polls
<1> HIDE DEF m
<1>2. /\ r \in PeerRecord /\ SameCounters(peer, r) /\ r.next = peer.next
      /\ r.minpoll <= r.hpoll
  BY <1>1 DEF InRange, PeerRecord, SameCounters
<1>3. p \in PollUpdate(s, s.hpoll)
  BY DEF Process, m
<1> HIDE DEF r
<1>4. /\ s \in PeerRecord /\ s.retry = 0
      /\ s.minpoll = r.minpoll /\ s.hpoll = r.hpoll /\ s.reach = r.reach
      /\ s.unreach = r.unreach /\ s.throttle = r.throttle /\ s.out = r.out
      /\ \/ r.retry = 0 /\ s.burst = r.burst /\ s.next = r.next
         \/ r.retry > 0 /\ s.burst > 0 /\ s.next = 0
         \/ r.retry > 0 /\ s.burst = 0
  BY <1>2, BurstStarted
<1> HIDE DEF s
<1>5. s.hpoll \in Int
  BY <1>4, PollConstants, SMT DEF PeerRecord, Polls
<1>6. /\ InRange(p) /\ SameCounters(s, p)
      /\ \/ s.burst > 0 /\ s.next > 0 /\ p.next = s.next
         \/ /\ p.next >= MinPkt
            /\ p.next >= s.throttle - (Shift - 1) * 2^s.minpoll
      /\ s.burst = 0 => p.next + s.out >= 2^MinPoll
  BY <1>3, <1>4, <1>5, PollUpdated
<1>7. p.next = s.next /\ s.next > 0 /\ s.burst > 0 =>
        peer.burst > 0 /\ p.burst > 0 /\ p.next = peer.next
  <2>1. s.next > 0 /\ s.burst > 0 => s.burst = r.burst /\ s.next = r.next
    BY <1>4, SMT DEF PeerRecord
  <2> QED
    BY <1>2, <1>6, <2>1 DEF SameCounters
<1>8. peer.retry = 0 => p.burst = peer.burst
  BY <1>2, <1>4, <1>6, SMT DEF SameCounters
<1> QED
  BY <1>2, <1>4, <1>6, <1>7, <1>8 DEF SameCounters

-----------------------------------------------------------------------------
(* What every step does to the association *)

(* The type invariant says that struct peer is in range.                   *)
LEMMA RangeIsType ==
  ASSUME NEW q
  PROVE  InRange(q) <=>
           /\ q \in [minpoll : Polls, hpoll : Polls, ppoll : Polls,
                     reach : 0 .. (2^ReachBits - 1), unreach : 0 .. UnreachCap,
                     burst : 0 .. PMax(IBurst, Shift), retry : 0 .. Retry,
                     throttle : Nat, next : Nat, out : 0 .. Horizon,
                     ttl : 0 .. TTLMax]
           /\ q.minpoll <= q.hpoll /\ q.hpoll <= PMax(MaxPoll, q.minpoll)
BY SMT DEF InRange, PeerRecord

(* The type invariant bounds the fields of the peer.                       *)
LEMMA TypeRange == TypeOK => InRange(peer)
BY RangeIsType DEF TypeOK

(* The packet of a second that had one to send, and its price.             *)
Polled(sent) ==
  /\ InRange(peer')
  /\ peer'.minpoll = peer.minpoll
  /\ peer'.throttle = IF sent
                        THEN PMax(peer.throttle - 1, 0) + 2^peer.minpoll - 2
                        ELSE PMax(peer.throttle - 1, 0)
  /\ peer'.next >= MinPkt
  /\ peer'.next >= peer'.throttle - (Shift - 1) * 2^peer'.minpoll
  /\ peer'.burst = 0 => peer'.next + peer'.out >= 2^MinPoll

(* A transmit() that starts from a record made of the association after    *)
(* the timer's second is a poll.                                           *)
LEMMA PolledFrom ==
  ASSUME InRange(peer), peer.next <= 1, NEW p \in PeerRecord,
         p.next = Second(peer).next, p.minpoll = peer.minpoll,
         p.throttle = Second(peer).throttle, NEW sent \in BOOLEAN,
         NEW mpoll \in Int, peer' \in PollUpdate(Charge(p, sent), mpoll)
  PROVE  /\ Polled(sent) /\ peer'.reach = p.reach
         /\ peer'.unreach = p.unreach /\ peer'.burst = p.burst
         /\ peer'.retry = p.retry /\ peer'.out = p.out
<1>1. /\ Second(peer).next = peer.next - 1
      /\ Second(peer).throttle = PMax(peer.throttle - 1, 0)
      /\ peer.next \in Nat
  BY Seconded DEF InRange
<1>2. p.next <= 0
  BY <1>1, SMT
<1>3. /\ InRange(peer') /\ peer'.throttle = Charged(p, sent)
      /\ peer'.minpoll = p.minpoll /\ peer'.reach = p.reach
      /\ peer'.unreach = p.unreach /\ peer'.burst = p.burst
      /\ peer'.retry = p.retry /\ peer'.out = p.out
      /\ peer'.next >= MinPkt
      /\ peer'.next >= peer'.throttle - (Shift - 1) * 2^peer'.minpoll
      /\ peer'.burst = 0 => peer'.next + peer'.out >= 2^MinPoll
  BY <1>2, Transmitted
<1>4. Charged(p, sent) = IF sent
                           THEN PMax(peer.throttle - 1, 0) + 2^peer.minpoll - 2
                           ELSE PMax(peer.throttle - 1, 0)
  BY <1>1 DEF Charged
<1> QED
  BY <1>3, <1>4 DEF Polled

(* Broadcast, manycast and pool associations.                              *)
Beaconed ==
  /\ up /\ peer.next <= 1 /\ kind.cast # "ucast"
  /\ \E sent \in BOOLEAN :
       /\ Polled(sent) /\ Sent(sent)
       /\ peer'.burst = peer.burst /\ peer'.retry = peer.retry
       /\ peer'.reach = peer.reach /\ peer'.out = 0
  /\ UNCHANGED <<kind, up, sample, restarts, heard, good, silence>>

(* transmit() on a broadcast or a pool association is a beacon: it leaves  *)
(* the reach register and the burst alone.                                 *)
LEMMA BroadcastBeacon ==
  TypeOK /\ (TransmitBroadcast \/ TransmitPool) => Beaconed
<1> SUFFICES ASSUME TypeOK, TransmitBroadcast \/ TransmitPool PROVE Beaconed
  OBVIOUS
<1> DEFINE p == [Second(peer) EXCEPT !.out = 0]
<1>1. PICK sent \in BOOLEAN :
        /\ peer' \in PollUpdate(Charge(p, sent), peer.hpoll) /\ Sent(sent)
        /\ Due /\ kind.cast # "ucast"
        /\ UNCHANGED <<kind, up, sample, restarts, heard, good, silence>>
  BY DEF TransmitBroadcast, TransmitPool
<1>2. InRange(peer) /\ peer.hpoll \in Int /\ peer \in PeerRecord
  BY TypeRange, PollConstants, SMT DEF InRange, PeerRecord, Polls
<1>3. /\ p \in PeerRecord /\ p.next = Second(peer).next
      /\ p.minpoll = peer.minpoll /\ p.throttle = Second(peer).throttle
      /\ p.out = 0 /\ p.burst = peer.burst /\ p.retry = peer.retry
      /\ p.reach = peer.reach
  BY <1>2, Seconded, Bounds, SMT DEF PeerRecord
<1> HIDE DEF p
<1>4. /\ Polled(sent) /\ peer'.reach = p.reach
      /\ peer'.unreach = p.unreach /\ peer'.burst = p.burst
      /\ peer'.retry = p.retry /\ peer'.out = p.out
  BY <1>1, <1>2, <1>3, PolledFrom DEF Due
<1> QED
  BY <1>1, <1>3, <1>4 DEF Beaconed, Due

(* transmit() on a manycast client is a beacon whether or not the ttl has  *)
(* run out.                                                                *)
LEMMA ManycastBeacon == TypeOK /\ TransmitManycast => Beaconed
<1> SUFFICES ASSUME TypeOK, TransmitManycast PROVE Beaconed
  OBVIOUS
<1> DEFINE p == [Second(peer) EXCEPT !.out = 0]
           beacon == p.unreach > Beacon
           q(wanted) == IF beacon THEN [p EXCEPT !.unreach = 0, !.ttl = 0]
                        ELSE IF wanted THEN [p EXCEPT !.ttl = PMin(@ + 1, TTLMax)]
                        ELSE p
           u(wanted) == [q(wanted) EXCEPT !.unreach = Bump(@)]
<1>1. PICK wanted \in BOOLEAN :
        /\ peer' \in PollUpdate([Charge(q(wanted), beacon \/ wanted)
                                   EXCEPT !.unreach = Bump(@)], p.hpoll)
        /\ Sent(beacon \/ wanted)
        /\ Due /\ kind.cast # "ucast"
        /\ UNCHANGED <<kind, up, sample, restarts, heard, good, silence>>
  BY DEF TransmitManycast
<1> DEFINE sent == beacon \/ wanted
<1>2. InRange(peer) /\ peer \in PeerRecord
  BY TypeRange DEF InRange
<1>3. /\ p \in PeerRecord /\ p.next = Second(peer).next
      /\ p.minpoll = peer.minpoll /\ p.throttle = Second(peer).throttle
      /\ p.out = 0 /\ p.burst = peer.burst /\ p.retry = peer.retry
      /\ p.reach = peer.reach
  BY <1>2, Seconded, Bounds, SMT DEF PeerRecord
<1> HIDE DEF p
<1>4. /\ q(wanted) \in PeerRecord /\ q(wanted).next = p.next
      /\ q(wanted).minpoll = p.minpoll /\ q(wanted).throttle = p.throttle
      /\ q(wanted).out = 0 /\ q(wanted).burst = p.burst
      /\ q(wanted).retry = p.retry /\ q(wanted).reach = p.reach
  <2>1. 0 \in 0 .. UnreachCap /\ 0 \in 0 .. TTLMax
        /\ PMin(p.ttl + 1, TTLMax) \in 0 .. TTLMax
    BY <1>3, Bounds, PollConstants, SMT DEF PMin, PeerRecord
  <2> QED
    BY <1>3, <2>1 DEF PeerRecord
<1> HIDE DEF q
<1>5. /\ u(wanted) \in PeerRecord /\ u(wanted).next = p.next
      /\ u(wanted).minpoll = p.minpoll /\ u(wanted).throttle = p.throttle
      /\ u(wanted).out = 0 /\ u(wanted).burst = p.burst
      /\ u(wanted).retry = p.retry /\ u(wanted).reach = p.reach
  <2>1. Bump(q(wanted).unreach) \in 0 .. UnreachCap
    BY <1>4, Bounds, SMT DEF Bump, PMin, PeerRecord
  <2> QED
    BY <1>4, <2>1 DEF PeerRecord
<1>6. [Charge(q(wanted), sent) EXCEPT !.unreach = Bump(@)]
        = Charge(u(wanted), sent)
  <2>1. CASE sent
    BY <1>4, <2>1 DEF Charge, PeerRecord
  <2>2. CASE ~sent
    BY <2>2 DEF Charge
  <2> QED
    BY <2>1, <2>2
<1>7. sent \in BOOLEAN /\ p.hpoll \in Int
  BY <1>3, PollConstants, SMT DEF PeerRecord, Polls
<1> HIDE DEF u, beacon
<1>8. peer' \in PollUpdate(Charge(u(wanted), sent), p.hpoll)
  BY <1>1, <1>6
<1> HIDE DEF sent
<1>9. /\ Polled(sent) /\ peer'.reach = u(wanted).reach
      /\ peer'.unreach = u(wanted).unreach /\ peer'.burst = u(wanted).burst
      /\ peer'.retry = u(wanted).retry /\ peer'.out = u(wanted).out
  BY <1>1, <1>2, <1>3, <1>5, <1>7, <1>8, PolledFrom DEF Due
<1>10. Sent(sent)
  BY <1>1 DEF sent
<1> QED
  BY <1>1, <1>3, <1>5, <1>7, <1>9, <1>10 DEF Beaconed, Due

(* The end of transmit(): the retry counter, the packet, the next poll.    *)
LEMMA Finished ==
  ASSUME InRange(peer), peer.next <= 1, NEW p \in PeerRecord,
         p.next = Second(peer).next, p.minpoll = peer.minpoll,
         p.throttle = Second(peer).throttle,
         NEW mpoll \in Int, FinishTransmit(p, mpoll)
  PROVE  \E sent \in BOOLEAN :
           /\ Polled(sent) /\ Sent(sent) /\ peer'.reach = p.reach
           /\ peer'.unreach = p.unreach /\ peer'.burst = p.burst
           /\ peer'.retry = PMax(p.retry - 1, 0) /\ peer'.out = p.out
<1> DEFINE q == [p EXCEPT !.retry = PMax(@ - 1, 0)]
<1>1. PICK sent \in BOOLEAN :
        peer' \in PollUpdate(Charge(q, sent), mpoll) /\ Sent(sent)
  BY DEF FinishTransmit
<1>2. PMax(p.retry - 1, 0) \in 0 .. Retry
  BY PollConstants, SMT DEF PMax, PeerRecord
<1>3. /\ q \in PeerRecord /\ q.next = p.next /\ q.minpoll = p.minpoll
      /\ q.throttle = p.throttle /\ q.reach = p.reach /\ q.unreach = p.unreach
      /\ q.burst = p.burst /\ q.retry = PMax(p.retry - 1, 0) /\ q.out = p.out
  BY <1>2 DEF PeerRecord
<1> HIDE DEF q
<1>4. /\ Polled(sent) /\ peer'.reach = q.reach
      /\ peer'.unreach = q.unreach /\ peer'.burst = q.burst
      /\ peer'.retry = q.retry /\ peer'.out = q.out
  BY <1>1, <1>3, PolledFrom
<1> QED
  BY <1>1, <1>3, <1>4

(* A new poll of a unicast association, and the end of one that did not    *)
(* answer.                                                                 *)
NewReach == (peer.reach * 2) % 2^ReachBits
NewUnreach == IF NewReach # 0 /\ ~kind.preempt THEN 0 ELSE Bump(peer.unreach)

Tosses ==
  /\ up' = FALSE /\ Sent(FALSE)
  /\ InRange(peer') /\ peer'.minpoll = peer.minpoll
  /\ peer'.throttle = PMax(peer.throttle - 1, 0)
  /\ peer'.burst = 0 /\ peer'.retry = 0 /\ peer'.out = 0
  /\ NewUnreach >= Unreach

Asks ==
  /\ up' = up
  /\ \E sent \in BOOLEAN : Polled(sent) /\ Sent(sent)
  /\ peer'.reach = NewReach /\ peer'.unreach = NewUnreach
  /\ peer'.burst = 0 /\ peer'.out = 0
  /\ peer.retry = 0 /\ ~kind.iburst /\ ~kind.burst => peer'.retry = 0

NewPolls ==
  /\ up /\ peer.next <= 1 /\ kind.cast = "ucast" /\ peer.burst = 0
  /\ Tosses \/ Asks
  /\ heard' = FALSE /\ good' = FALSE
  /\ silence' = IF good THEN 0 ELSE PMin(silence + 1, Unreach)
  /\ UNCHANGED <<kind, sample, restarts>>

(* transmit() outside a burst opens a new poll: it shifts the reach        *)
(* register and may start a burst.                                         *)
LEMMA PollIsNew == TypeOK /\ TransmitPoll => NewPolls
<1> SUFFICES ASSUME TypeOK, TransmitPoll PROVE NewPolls
  OBVIOUS
<1>1. InRange(peer) /\ peer \in PeerRecord
  BY TypeRange DEF InRange
<1>2. /\ up /\ peer.next <= 1 /\ kind.cast = "ucast" /\ peer.burst = 0
      /\ heard' = FALSE /\ good' = FALSE
      /\ silence' = IF good THEN 0 ELSE PMin(silence + 1, Unreach)
      /\ UNCHANGED <<kind, sample, restarts>>
  BY DEF TransmitPoll, Due
<1> DEFINE p(fit) == NewPoll(Second(peer), fit)
           expired(fit) == p(fit).unreach >= Unreach
           base(fit, s) == IF p(fit).reach = 0 THEN p(fit).hpoll ELSE s
           mpoll(fit, s) == IF expired(fit) THEN base(fit, s) + 1 ELSE base(fit, s)
<1>3. PICK fit \in BOOLEAN, sysPoll \in Polls :
        \/ /\ expired(fit) /\ up' = FALSE
           /\ peer' \in PeerClear(p(fit)) /\ Sent(FALSE)
        \/ /\ up' = up /\ FinishTransmit(p(fit), mpoll(fit, sysPoll))
  BY DEF TransmitPoll
<1>4. /\ p(fit) \in PeerRecord /\ p(fit).minpoll = peer.minpoll
      /\ p(fit).throttle = Second(peer).throttle
      /\ p(fit).next = Second(peer).next /\ p(fit).out = 0
      /\ p(fit).reach = NewReach /\ p(fit).unreach = NewUnreach
      /\ p(fit).burst = 0 /\ p(fit).retry \in {peer.retry, Retry}
      /\ ~kind.iburst /\ ~kind.burst => p(fit).retry = peer.retry
      /\ Second(peer).throttle = PMax(peer.throttle - 1, 0)
  <2>1. /\ Second(peer) \in PeerRecord
        /\ Second(peer).minpoll = peer.minpoll
        /\ Second(peer).reach = peer.reach
        /\ Second(peer).unreach = peer.unreach
        /\ Second(peer).burst = peer.burst /\ Second(peer).retry = peer.retry
        /\ Second(peer).throttle = PMax(peer.throttle - 1, 0)
    BY <1>1, Seconded
  <2> QED
    BY <1>2, <2>1, NewPolled, SMT DEF NewReach, NewUnreach
<1>5. mpoll(fit, sysPoll) \in Int
  <2>1. p(fit).hpoll \in Int /\ sysPoll \in Int
    BY <1>4, PollConstants, SMT DEF PeerRecord, Polls
  <2> HIDE DEF p, expired
  <2> QED
    BY <2>1, SMT
<1> HIDE DEF p, mpoll
<1>6. ASSUME expired(fit), up' = FALSE, peer' \in PeerClear(p(fit)), Sent(FALSE)
      PROVE  Tosses
  BY <1>4, <1>6, PeerCleared DEF Tosses
<1>7. ASSUME up' = up, FinishTransmit(p(fit), mpoll(fit, sysPoll))
      PROVE  Asks
  <2>1. PICK sent \in BOOLEAN :
          /\ Polled(sent) /\ Sent(sent) /\ peer'.reach = p(fit).reach
          /\ peer'.unreach = p(fit).unreach /\ peer'.burst = p(fit).burst
          /\ peer'.retry = PMax(p(fit).retry - 1, 0) /\ peer'.out = p(fit).out
    BY <1>1, <1>2, <1>4, <1>5, <1>7, Finished
  <2>2. PMax(0 - 1, 0) = 0
    BY SMT DEF PMax
  <2> QED
    BY <1>4, <1>7, <2>1, <2>2 DEF Asks
<1> QED
  BY <1>2, <1>3, <1>6, <1>7 DEF NewPolls

(* The next packet of a burst.                                             *)
Bursts ==
  /\ up /\ peer.next <= 1 /\ kind.cast = "ucast" /\ peer.burst > 0
  /\ \E sent \in BOOLEAN : Polled(sent) /\ Sent(sent)
  /\ peer'.reach = peer.reach /\ peer'.unreach = peer.unreach
  /\ peer'.burst = peer.burst - 1
  /\ peer'.retry = PMax(peer.retry - 1, 0)
  /\ UNCHANGED <<kind, up, sample, restarts, heard, good, silence>>

(* transmit() within a burst counts it down and leaves the reach register  *)
(* alone.                                                                  *)
LEMMA BurstGoesOn == TypeOK /\ TransmitBurst => Bursts
<1> SUFFICES ASSUME TypeOK, TransmitBurst PROVE Bursts
  OBVIOUS
<1> DEFINE p == [Second(peer) EXCEPT !.burst = @ - 1]
<1>1. /\ up /\ peer.next <= 1 /\ kind.cast = "ucast" /\ peer.burst > 0
      /\ FinishTransmit(p, peer.hpoll)
      /\ UNCHANGED <<kind, up, sample, restarts, heard, good, silence>>
  BY DEF TransmitBurst, Due
<1>2. InRange(peer) /\ peer.hpoll \in Int /\ peer \in PeerRecord
  BY TypeRange, PollConstants, SMT DEF InRange, PeerRecord, Polls
<1>3. /\ p \in PeerRecord /\ p.next = Second(peer).next
      /\ p.minpoll = peer.minpoll /\ p.throttle = Second(peer).throttle
      /\ p.burst = peer.burst - 1 /\ p.retry = peer.retry
      /\ p.reach = peer.reach /\ p.unreach = peer.unreach
  <2>1. /\ Second(peer) \in PeerRecord /\ Second(peer).burst = peer.burst
        /\ Second(peer).minpoll = peer.minpoll
        /\ Second(peer).reach = peer.reach
        /\ Second(peer).unreach = peer.unreach
        /\ Second(peer).retry = peer.retry
    BY <1>2, Seconded
  <2>2. peer.burst - 1 \in 0 .. PMax(IBurst, Shift)
    BY <1>1, <1>2, Bounds, SMT DEF PeerRecord
  <2> QED
    BY <2>1, <2>2 DEF PeerRecord
<1> HIDE DEF p
<1>4. PICK sent \in BOOLEAN :
        /\ Polled(sent) /\ Sent(sent) /\ peer'.reach = p.reach
        /\ peer'.unreach = p.unreach /\ peer'.burst = p.burst
        /\ peer'.retry = PMax(p.retry - 1, 0) /\ peer'.out = p.out
  BY <1>1, <1>2, <1>3, Finished
<1> QED
  BY <1>1, <1>3, <1>4 DEF Bursts

(* A kiss-o'-death raises minpoll and the throttle, and ends the burst.    *)
Kissed ==
  /\ Arrives /\ kind.hmode = "client"
  /\ InRange(peer') /\ peer.minpoll <= peer'.minpoll
  /\ peer'.throttle = (Shift + 1) * 2^peer'.minpoll
  /\ peer'.reach = peer.reach /\ peer'.unreach = peer.unreach
  /\ peer'.burst = 0 /\ peer'.retry = 0 /\ peer'.out = peer.out
  /\ peer'.next >= MinPkt
  /\ peer'.next >= peer'.throttle - (Shift - 1) * 2^peer'.minpoll
  /\ peer'.next + peer'.out >= 2^MinPoll
  /\ UNCHANGED <<sample, restarts, cleared, heard, good, silence>>

(* A RATE kiss-o'-death in receive() raises minpoll and the throttle and   *)
(* ends the burst.                                                         *)
LEMMA KissIsKissed == TypeOK /\ ReceiveKoD => Kissed
<1> SUFFICES ASSUME TypeOK, ReceiveKoD PROVE Kissed
  OBVIOUS
<1>1. InRange(peer) /\ peer \in PeerRecord
  BY TypeRange DEF InRange
<1> DEFINE m(pkt) == PMax(peer.minpoll, pkt)
           p(pkt) == [peer EXCEPT !.ppoll = m(pkt), !.minpoll = m(pkt),
                                  !.burst = 0, !.retry = 0,
                                  !.throttle = (Shift + 1) * 2^m(pkt)]
<1>2. PICK pkt \in Polls : peer' \in PollUpdate(p(pkt), pkt)
  BY DEF ReceiveKoD
<1>3. /\ Arrives /\ kind.hmode = "client"
      /\ UNCHANGED <<sample, restarts, cleared, heard, good, silence>>
  BY DEF ReceiveKoD
<1>4. m(pkt) \in Polls /\ peer.minpoll <= m(pkt) /\ pkt \in Int
  BY <1>1, PollConstants, SMT DEF PMax, PeerRecord, Polls
<1>5. (Shift + 1) * 2^m(pkt) \in Nat
  <2> HIDE DEF m
  <2>1. 2^m(pkt) \in Nat
    BY <1>4, Seconds
  <2>2. Shift + 1 \in Nat
    BY PollConstants, SMT
  <2> QED
    BY <2>1, <2>2, Product
<1>6. 0 \in 0 .. PMax(IBurst, Shift) /\ 0 \in 0 .. Retry
  BY Bounds, PollConstants, SMT
<1> HIDE DEF m
<1>7. /\ p(pkt) \in PeerRecord /\ p(pkt).minpoll = m(pkt)
      /\ p(pkt).throttle = (Shift + 1) * 2^m(pkt) /\ p(pkt).reach = peer.reach
      /\ p(pkt).unreach = peer.unreach /\ p(pkt).burst = 0
      /\ p(pkt).retry = 0 /\ p(pkt).out = peer.out
  <2> DEFINE t == (Shift + 1) * 2^m(pkt)
  <2>1. p(pkt) = [peer EXCEPT !.ppoll = m(pkt), !.minpoll = m(pkt),
                              !.burst = 0, !.retry = 0, !.throttle = t]
    OBVIOUS
  <2>2. t \in Nat
    BY <1>5
  <2> HIDE DEF t, p
  <2>3. p(pkt) \in PeerRecord
    <3> DEFINE r == [peer EXCEPT !.ppoll = m(pkt), !.minpoll = m(pkt)]
    <3>1. r \in PeerRecord
      BY <1>1, <1>4 DEF PeerRecord
    <3>2. p(pkt) = [r EXCEPT !.burst = 0, !.retry = 0, !.throttle = t]
      BY <2>1
    <3> HIDE DEF r
    <3> QED
      BY <1>6, <2>2, <3>1, <3>2 DEF PeerRecord
  <2>4. /\ p(pkt).minpoll = m(pkt) /\ p(pkt).throttle = t
        /\ p(pkt).reach = peer.reach /\ p(pkt).unreach = peer.unreach
        /\ p(pkt).burst = 0 /\ p(pkt).retry = 0 /\ p(pkt).out = peer.out
    BY <1>1, <2>1 DEF PeerRecord
  <2> QED
    BY <2>3, <2>4 DEF t
<1> HIDE DEF p
<1>8. /\ InRange(peer') /\ SameCounters(p(pkt), peer')
      /\ \/ p(pkt).burst > 0 /\ p(pkt).next > 0 /\ peer'.next = p(pkt).next
         \/ /\ peer'.next >= MinPkt
            /\ peer'.next >= p(pkt).throttle - (Shift - 1) * 2^p(pkt).minpoll
      /\ p(pkt).burst = 0 => peer'.next + p(pkt).out >= 2^MinPoll
  BY <1>2, <1>4, <1>7, PollUpdated
<1> QED
  BY <1>3, <1>4, <1>7, <1>8, SMT DEF SameCounters, Kissed

(* Any other packet of the association, unless the clock is stepped.  n is *)
(* the distance of the next poll before interleaved hosts move apart.      *)
Moved(n) ==
  /\ n \in Nat
  /\ ~kind.xleave => peer'.next = n
  /\ peer'.next >= n \/ peer'.next = n - 1
  /\ peer'.next < n => 2 * n >= 2^MinPoll
  /\ \/ peer.burst > 0 /\ peer'.burst > 0 /\ n = peer.next
     \/ n >= MinPkt /\ n >= peer'.throttle - (Shift - 1) * 2^peer'.minpoll
  /\ peer'.burst = 0 => n + peer'.out >= 2^MinPoll

Heard ==
  /\ Arrives /\ InRange(peer')
  /\ peer'.minpoll = peer.minpoll /\ peer'.throttle = peer.throttle
  /\ peer'.out = peer.out /\ peer'.retry = 0
  /\ peer.retry = 0 => peer'.burst = peer.burst
  /\ \E n \in Nat : Moved(n)
  /\ heard' = TRUE /\ sample' \in BOOLEAN
  /\ good' \in BOOLEAN
  /\ (peer'.reach = peer.reach /\ good' = good) \/ peer'.reach % 2 = 1
  /\ peer'.unreach = peer.unreach \/ peer'.unreach = 0
  /\ UNCHANGED <<restarts, cleared, silence>>

(* From a record that poll_update() left to the end of receive().          *)
LEMMA MovedFrom ==
  ASSUME NEW p, InRange(p), peer' = Phase(p),
         \/ peer.burst > 0 /\ p.burst > 0 /\ p.next = peer.next
         \/ p.next >= MinPkt /\ p.next >= p.throttle - (Shift - 1) * 2^p.minpoll,
         p.burst = 0 => p.next + p.out >= 2^MinPoll
  PROVE  InRange(peer') /\ SameCounters(p, peer') /\ Moved(p.next)
BY Phased DEF InRange, SameCounters, Moved

(* A packet that fails a test of receive() or process_packet() answers the *)
(* poll and counts no sample.                                              *)
LEMMA BadIsHeard == TypeOK /\ ReceiveBad => Heard
<1> SUFFICES ASSUME TypeOK, ReceiveBad PROVE Heard
  OBVIOUS
<1>1. InRange(peer) /\ sample \in BOOLEAN /\ good \in BOOLEAN
  BY TypeRange DEF TypeOK
<1>2. /\ Arrives /\ heard' = TRUE
      /\ UNCHANGED <<sample, restarts, cleared, good, silence>>
  BY DEF ReceiveBad
<1>3. PICK pkt \in Polls : \E p \in Process(pkt) : peer' = Phase(p)
  BY DEF ReceiveBad
<1>4. PICK p \in Process(pkt) : peer' = Phase(p)
  BY <1>3
<1>5. /\ InRange(p) /\ p.retry = 0
      /\ p.minpoll = peer.minpoll /\ p.reach = peer.reach
      /\ p.unreach = peer.unreach /\ p.throttle = peer.throttle
      /\ p.out = peer.out
      /\ \/ peer.burst > 0 /\ p.burst > 0 /\ p.next = peer.next
         \/ /\ p.next >= MinPkt
            /\ p.next >= p.throttle - (Shift - 1) * 2^p.minpoll
      /\ p.burst = 0 => p.next + p.out >= 2^MinPoll
      /\ peer.retry = 0 => p.burst = peer.burst
  BY <1>1, Processed
<1>6. InRange(peer') /\ SameCounters(p, peer') /\ Moved(p.next)
  BY <1>4, <1>5, MovedFrom
<1> QED
  BY <1>1, <1>2, <1>5, <1>6 DEF Heard, SameCounters, InRange

(* The peer becomes reachable: the last bit of the register is set.        *)
LEMMA Reached ==
  ASSUME NEW p, InRange(p), NEW survivor \in BOOLEAN
  PROVE  LET q == [p EXCEPT !.reach = IF @ % 2 = 0 THEN @ + 1 ELSE @,
                            !.unreach = IF survivor THEN 0 ELSE @] IN
         /\ InRange(q) /\ q.reach % 2 = 1
         /\ q.unreach = p.unreach \/ q.unreach = 0
         /\ q.minpoll = p.minpoll /\ q.burst = p.burst /\ q.retry = p.retry
         /\ q.throttle = p.throttle /\ q.next = p.next /\ q.out = p.out
<1> DEFINE reach == IF p.reach % 2 = 0 THEN p.reach + 1 ELSE p.reach
           unreach == IF survivor THEN 0 ELSE p.unreach
           q == [p EXCEPT !.reach = IF @ % 2 = 0 THEN @ + 1 ELSE @,
                          !.unreach = IF survivor THEN 0 ELSE @]
<1>1. reach \in 0 .. (2^ReachBits - 1) /\ reach % 2 = 1
  BY PollPowers, SMT DEF InRange, PeerRecord
<1>2. unreach \in 0 .. UnreachCap
  BY Bounds, SMT DEF InRange, PeerRecord
<1>3. q = [p EXCEPT !.reach = reach, !.unreach = unreach]
  BY DEF InRange, PeerRecord
<1> HIDE DEF reach, unreach, q
<1>4. /\ q \in PeerRecord /\ q.reach = reach /\ q.hpoll = p.hpoll
      /\ q.unreach = unreach
      /\ q.minpoll = p.minpoll /\ q.burst = p.burst /\ q.retry = p.retry
      /\ q.throttle = p.throttle /\ q.next = p.next /\ q.out = p.out
  BY <1>1, <1>2, <1>3 DEF InRange, PeerRecord
<1>5. unreach = p.unreach \/ unreach = 0
  BY DEF unreach
<1> QED
  BY <1>1, <1>4, <1>5 DEF InRange, q

(* A packet that process_packet() accepts answers the poll; of the polling *)
(* state it moves what a rejected one may.                                 *)
LEMMA GoodIsHeard == TypeOK /\ ReceiveGood => Heard
<1> SUFFICES ASSUME TypeOK, ReceiveGood PROVE Heard
  OBVIOUS
<1>1. InRange(peer)
  BY TypeRange
<1>2. /\ Arrives /\ heard' = TRUE /\ good' = TRUE
      /\ UNCHANGED <<restarts, cleared, silence>>
  BY DEF ReceiveGood
<1> DEFINE q(p, survivor) ==
             [p EXCEPT !.reach = IF @ % 2 = 0 THEN @ + 1 ELSE @,
                       !.unreach = IF survivor THEN 0 ELSE @]
<1>3. PICK pkt \in Polls, sysPoll \in Polls,
           survivor \in BOOLEAN, chosen \in BOOLEAN :
        \E p \in Process(pkt) :
          \E r \in IF chosen THEN PollUpdate(q(p, survivor), sysPoll)
                   ELSE {q(p, survivor)} :
            peer' = Phase(r) /\ sample' = ~chosen
  BY DEF ReceiveGood
<1>4. PICK p \in Process(pkt) :
        \E r \in IF chosen THEN PollUpdate(q(p, survivor), sysPoll)
                 ELSE {q(p, survivor)} :
          peer' = Phase(r) /\ sample' = ~chosen
  BY <1>3
<1>5. PICK r \in IF chosen THEN PollUpdate(q(p, survivor), sysPoll)
                 ELSE {q(p, survivor)} :
        peer' = Phase(r) /\ sample' = ~chosen
  BY <1>4
<1>6. /\ InRange(p) /\ p.retry = 0
      /\ p.minpoll = peer.minpoll /\ p.reach = peer.reach
      /\ p.unreach = peer.unreach /\ p.throttle = peer.throttle
      /\ p.out = peer.out
      /\ \/ peer.burst > 0 /\ p.burst > 0 /\ p.next = peer.next
         \/ /\ p.next >= MinPkt
            /\ p.next >= p.throttle - (Shift - 1) * 2^p.minpoll
      /\ p.burst = 0 => p.next + p.out >= 2^MinPoll
      /\ peer.retry = 0 => p.burst = peer.burst
  BY <1>1, Processed
<1> DEFINE u == q(p, survivor)
<1>7. /\ InRange(u) /\ u.reach % 2 = 1
      /\ u.unreach = p.unreach \/ u.unreach = 0
      /\ u.minpoll = p.minpoll /\ u.burst = p.burst /\ u.retry = p.retry
      /\ u.throttle = p.throttle /\ u.next = p.next /\ u.out = p.out
  BY <1>6, Reached
<1>8. (chosen /\ r \in PollUpdate(u, sysPoll)) \/ r = u
  BY <1>5
<1> HIDE DEF u, q
<1>9. /\ InRange(r) /\ SameCounters(u, r)
      /\ \/ peer.burst > 0 /\ r.burst > 0 /\ r.next = peer.next
         \/ /\ r.next >= MinPkt
            /\ r.next >= r.throttle - (Shift - 1) * 2^r.minpoll
      /\ r.burst = 0 => r.next + r.out >= 2^MinPoll
  <2>1. CASE r = u
    BY <1>6, <1>7, <2>1 DEF SameCounters
  <2>2. CASE r \in PollUpdate(u, sysPoll)
    <3>1. u \in PeerRecord /\ sysPoll \in Int
      BY <1>7, PollConstants, SMT DEF InRange, Polls
    <3>2. /\ InRange(r) /\ SameCounters(u, r)
          /\ \/ u.burst > 0 /\ u.next > 0 /\ r.next = u.next
             \/ /\ r.next >= MinPkt
                /\ r.next >= u.throttle - (Shift - 1) * 2^u.minpoll
          /\ u.burst = 0 => r.next + u.out >= 2^MinPoll
      BY <2>2, <3>1, PollUpdated
    <3>3. r.minpoll = p.minpoll /\ r.burst = p.burst
          /\ r.throttle = p.throttle /\ r.out = p.out
      BY <1>7, <3>2 DEF SameCounters
    <3>4. r.burst = 0 => r.next + r.out >= 2^MinPoll
      BY <1>7, <3>2, <3>3
    <3>5. CASE u.burst > 0 /\ u.next > 0 /\ r.next = u.next
      BY <1>6, <1>7, <3>2, <3>3, <3>4, <3>5
    <3>6. CASE /\ r.next >= MinPkt
               /\ r.next >= u.throttle - (Shift - 1) * 2^u.minpoll
      BY <1>7, <3>2, <3>3, <3>4, <3>6
    <3> QED
      BY <3>2, <3>5, <3>6
  <2> QED
    BY <1>8, <2>1, <2>2
<1>10. InRange(peer') /\ SameCounters(r, peer') /\ Moved(r.next)
  BY <1>5, <1>9, MovedFrom
<1>11. sample' \in BOOLEAN
  BY <1>5
<1>12. r.next \in Nat
  BY <1>9 DEF InRange
<1>13. /\ peer'.minpoll = peer.minpoll /\ peer'.throttle = peer.throttle
       /\ peer'.out = peer.out /\ peer'.retry = 0 /\ peer'.reach % 2 = 1
       /\ peer'.unreach = peer.unreach \/ peer'.unreach = 0
       /\ peer.retry = 0 => peer'.burst = peer.burst
  BY <1>6, <1>7, <1>9, <1>10 DEF SameCounters
<1> QED
  BY <1>2, <1>10, <1>11, <1>12, <1>13 DEF Heard

(* peer_clear() after a step of the clock, or because of a restart.        *)
Clears ==
  /\ up /\ restarts < MaxRestarts
  /\ InRange(peer')
  /\ peer'.minpoll = peer.minpoll /\ peer'.throttle = peer.throttle
  /\ peer'.reach = 0 /\ peer'.burst = 0 /\ peer'.retry = 0 /\ peer'.out = 0
  /\ restarts' = restarts + 1 /\ cleared' = TRUE /\ sample' = FALSE
  /\ good' = FALSE
  /\ \/ Arrives /\ heard' = TRUE /\ silence' = 0 /\ peer'.unreach = 0
     \/ /\ peer'.unreach = peer.unreach
        /\ UNCHANGED <<owed, quiet, heard, silence>>
  /\ UNCHANGED <<kind, up, gap, headway, unheard>>

(* A sample that steps the clock clears the association in clock_update(). *)
LEMMA StepClears == TypeOK /\ ReceiveStep => Clears
<1> SUFFICES ASSUME TypeOK, ReceiveStep PROVE Clears
  OBVIOUS
<1>1. InRange(peer)
  BY TypeRange
<1>2. /\ Arrives /\ restarts < MaxRestarts /\ sample' = FALSE
      /\ restarts' = restarts + 1 /\ cleared' = TRUE
      /\ heard' = TRUE /\ good' = FALSE /\ silence' = 0
  BY DEF ReceiveStep
<1>3. PICK pkt \in Polls : \E p \in Process(pkt) :
        \E q \in PeerClear([p EXCEPT !.unreach = 0]) : peer' = Phase(q)
  BY DEF ReceiveStep
<1>4. PICK p \in Process(pkt) :
        \E q \in PeerClear([p EXCEPT !.unreach = 0]) : peer' = Phase(q)
  BY <1>3
<1> DEFINE u == [p EXCEPT !.unreach = 0]
<1>5. PICK q \in PeerClear(u) : peer' = Phase(q)
  BY <1>4
<1>6. /\ InRange(p) /\ p.minpoll = peer.minpoll /\ p.throttle = peer.throttle
  BY <1>1, Processed
<1>7. /\ u \in PeerRecord /\ u.minpoll = p.minpoll /\ u.throttle = p.throttle
      /\ u.unreach = 0
  BY <1>6, Bounds, SMT DEF InRange, PeerRecord
<1> HIDE DEF u
<1>8. /\ InRange(q) /\ q.minpoll = u.minpoll /\ q.throttle = u.throttle
      /\ q.unreach = u.unreach /\ q.reach = 0 /\ q.burst = 0 /\ q.retry = 0 /\ q.out = 0
  BY <1>7, PeerCleared
<1>9. InRange(peer') /\ SameCounters(q, peer')
  BY <1>5, <1>8, Phased
<1> QED
  BY <1>2, <1>6, <1>7, <1>8, <1>9 DEF Clears, Arrives, SameCounters

(* A restart of the association goes through peer_clear().                 *)
LEMMA RestartClears == TypeOK /\ Restart => Clears
<1> SUFFICES ASSUME TypeOK, Restart PROVE Clears
  OBVIOUS
<1>1. peer \in PeerRecord /\ peer' \in PeerClear(peer)
  BY TypeRange DEF InRange, Restart
<1>2. /\ InRange(peer') /\ peer'.minpoll = peer.minpoll
      /\ peer'.throttle = peer.throttle /\ peer'.unreach = peer.unreach
      /\ peer'.reach = 0 /\ peer'.burst = 0 /\ peer'.retry = 0 /\ peer'.out = 0
  BY <1>1, PeerCleared
<1> QED
  BY <1>2 DEF Clears, Restart

(* The association becomes the system peer: the next poll is recomputed.   *)
Reselected ==
  /\ up /\ InRange(peer') /\ sample' = FALSE
  /\ peer'.minpoll = peer.minpoll /\ peer'.throttle = peer.throttle
  /\ peer'.reach = peer.reach /\ peer'.unreach = 0
  /\ peer'.burst = peer.burst /\ peer'.retry = peer.retry
  /\ peer'.out = peer.out
  /\ \/ peer.burst > 0 /\ peer'.next = peer.next
     \/ /\ peer'.next >= MinPkt
        /\ peer'.next >= peer'.throttle - (Shift - 1) * 2^peer'.minpoll
  /\ peer'.burst = 0 => peer'.next + peer'.out >= 2^MinPoll
  /\ UNCHANGED <<kind, up, owed, restarts, gap, cleared, headway, unheard,
                 quiet, heard, good, silence>>

(* A selection may move the poll interval of the peer through              *)
(* poll_update(), and nothing else of it.                                  *)
LEMMA SelectedIsReselected == TypeOK /\ Selected => Reselected
<1> SUFFICES ASSUME TypeOK, Selected PROVE Reselected
  OBVIOUS
<1> DEFINE p == [peer EXCEPT !.unreach = 0]
<1>1. PICK sysPoll \in Polls : peer' \in PollUpdate(p, sysPoll)
  BY DEF Selected
<1>2. /\ up /\ sample' = FALSE
      /\ UNCHANGED <<kind, up, owed, restarts, gap, cleared, headway, unheard,
                     quiet, heard, good, silence>>
  BY DEF Selected, history
<1>3. /\ p \in PeerRecord /\ p.minpoll = peer.minpoll
      /\ p.throttle = peer.throttle /\ p.reach = peer.reach /\ p.unreach = 0
      /\ p.burst = peer.burst /\ p.retry = peer.retry /\ p.out = peer.out
      /\ p.next = peer.next /\ sysPoll \in Int
  BY TypeRange, Bounds, PollConstants, SMT DEF InRange, PeerRecord, Polls
<1> HIDE DEF p
<1>4. /\ InRange(peer') /\ SameCounters(p, peer')
      /\ \/ p.burst > 0 /\ p.next > 0 /\ peer'.next = p.next
         \/ /\ peer'.next >= MinPkt
            /\ peer'.next >= p.throttle - (Shift - 1) * 2^p.minpoll
      /\ p.burst = 0 => peer'.next + p.out >= 2^MinPoll
  BY <1>1, <1>3, PollUpdated
<1> QED
  BY <1>2, <1>3, <1>4 DEF Reselected, SameCounters

(* A second in which the next poll is still ahead.                         *)
Idles ==
  /\ up /\ peer.next > 1 /\ InRange(peer') /\ peer'.next = peer.next - 1
  /\ peer'.throttle = PMax(peer.throttle - 1, 0)
  /\ peer'.out = PMin(peer.out + 1, Horizon)
  /\ peer'.minpoll = peer.minpoll /\ peer'.reach = peer.reach
  /\ peer'.unreach = peer.unreach
  /\ peer'.burst = peer.burst /\ peer'.retry = peer.retry
  /\ Sent(FALSE)
  /\ UNCHANGED <<kind, up, sample, restarts, heard, good, silence>>

(* A second of timer() in which no poll is due only moves the clocks of    *)
(* the peer.                                                               *)
LEMMA TimerIdles == TypeOK /\ TimerIdle => Idles
<1> SUFFICES ASSUME TypeOK, TimerIdle PROVE Idles
  OBVIOUS
<1>1. InRange(peer) /\ peer \in PeerRecord
  BY TypeRange DEF InRange
<1>2. /\ up /\ peer.next > 1 /\ peer' = Second(peer) /\ Sent(FALSE)
      /\ UNCHANGED <<kind, up, sample, restarts, heard, good, silence>>
  BY DEF TimerIdle
<1>3. /\ peer' \in PeerRecord /\ peer'.minpoll = peer.minpoll
      /\ peer'.hpoll = peer.hpoll /\ peer'.reach = peer.reach
      /\ peer'.unreach = peer.unreach /\ peer'.burst = peer.burst
      /\ peer'.retry = peer.retry
      /\ peer'.throttle = PMax(peer.throttle - 1, 0)
      /\ peer'.next = peer.next - 1 /\ peer'.out = PMin(peer.out + 1, Horizon)
  BY <1>1, <1>2, Seconded
<1>4. InRange(peer')
  BY <1>1, <1>2, <1>3, SMT DEF InRange
<1> QED
  BY <1>2, <1>3, <1>4 DEF Idles

(* Every step is of one of these kinds.                                    *)
Steps ==
  \/ Idles \/ Beaconed \/ NewPolls \/ Bursts
  \/ Kissed \/ Heard \/ Clears \/ Reselected

(* Every step of the peer is one of the kinds above, or changes nothing.   *)
LEMMA StepKinds == TypeOK /\ [Next]_vars => Steps \/ UNCHANGED vars
BY TimerIdles, BroadcastBeacon, ManycastBeacon, PollIsNew, BurstGoesOn,
   KissIsKissed, BadIsHeard, GoodIsHeard, StepClears, RestartClears,
   SelectedIsReselected DEF Next, Timer, Steps

-----------------------------------------------------------------------------
(* Type correctness *)

(* The observers keep their ranges over a packet sent.                     *)
LEMMA SentType ==
  ASSUME TypeOK, NEW sent \in BOOLEAN, Sent(sent)
  PROVE  /\ owed' \in 0 .. MaxOwed /\ quiet' \in 0 .. Calm
         /\ gap' \in 0 .. MinGap /\ headway' \in 0 .. MinGap
         /\ unheard' \in 0 .. MinGap /\ cleared' \in BOOLEAN
<1>1. cleared' \in BOOLEAN
  BY DEF Sent
<1>2. /\ owed \in 0 .. MaxOwed /\ quiet \in 0 .. Calm
      /\ gap \in 0 .. MinGap /\ headway \in 0 .. MinGap
      /\ unheard \in 0 .. MinGap
  BY DEF TypeOK
<1>3. owed' \in 0 .. MaxOwed /\ quiet' \in 0 .. Calm
  BY <1>2, PollConstants, SMT DEF Sent, PMin
<1>4. gap' \in 0 .. MinGap /\ headway' \in 0 .. MinGap
  BY <1>2, Bounds, SMT DEF Sent, PMin
<1>5. unheard' \in 0 .. MinGap
  BY <1>2, Bounds, SMT DEF Sent, PMin
<1> QED
  BY <1>1, <1>3, <1>4, <1>5

(* The observers keep their ranges over a packet that arrives.             *)
LEMMA ArrivesType ==
  ASSUME TypeOK, Arrives
  PROVE  /\ owed' \in 0 .. MaxOwed /\ quiet' \in 0 .. Calm
         /\ UNCHANGED <<kind, up, gap, headway, unheard>>
BY PollConstants, SMT DEF TypeOK, Arrives, PMax

(* The type invariant in two parts: struct peer and the other variables.   *)
Others ==
  /\ kind \in Kinds
  /\ up \in BOOLEAN /\ sample \in BOOLEAN
  /\ owed \in 0 .. MaxOwed /\ restarts \in 0 .. MaxRestarts
  /\ gap \in 0 .. MinGap /\ headway \in 0 .. MinGap
  /\ unheard \in 0 .. MinGap /\ cleared \in BOOLEAN
  /\ quiet \in 0 .. Calm
  /\ heard \in BOOLEAN /\ good \in BOOLEAN /\ silence \in 0 .. Unreach

(* The type invariant is the range of the peer's fields and the ranges of  *)
(* the others.                                                             *)
LEMMA TypeParts == TypeOK <=> InRange(peer) /\ Others
<1>1. {gap, headway, unheard} \subseteq 0 .. MinGap <=>
        /\ gap \in 0 .. MinGap /\ headway \in 0 .. MinGap
        /\ unheard \in 0 .. MinGap
  OBVIOUS
<1> QED
  BY <1>1, RangeIsType DEF TypeOK, Others

(* The same for the state after a step.                                    *)
LEMMA TypePartsNext == InRange(peer') /\ Others' => TypeOK'
<1>1. (InRange(peer) /\ Others)' => TypeOK'
  BY TypeParts, PTL
<1> QED
  BY <1>1

(* Every variable stays in its range.                                      *)
LEMMA TypeStep == TypeOK /\ [Next]_vars => TypeOK'
<1> SUFFICES ASSUME TypeOK, [Next]_vars PROVE TypeOK'
  OBVIOUS
<1> USE TypeParts, TypePartsNext
<1>1. PMin(silence + 1, Unreach) \in 0 .. Unreach /\ 0 \in 0 .. Unreach
  BY PollConstants, SMT DEF PMin, Others
<1>2. ASSUME Idles PROVE TypeOK'
  BY <1>2, SentType DEF Idles, Others
<1>3. ASSUME Beaconed PROVE TypeOK'
  BY <1>3, SentType DEF Beaconed, Polled, Others
<1>4. ASSUME NewPolls PROVE TypeOK'
  <2>1. PICK sent \in BOOLEAN : Sent(sent)
    BY <1>4 DEF NewPolls, Tosses, Asks
  <2>2. up' \in BOOLEAN /\ InRange(peer')
    BY <1>4 DEF NewPolls, Tosses, Asks, Polled, Others
  <2> QED
    BY <1>1, <1>4, <2>1, <2>2, SentType DEF NewPolls, Others
<1>5. ASSUME Bursts PROVE TypeOK'
  BY <1>5, SentType DEF Bursts, Polled, Others
<1>6. ASSUME Kissed PROVE TypeOK'
  BY <1>6, ArrivesType DEF Kissed, Others
<1>7. ASSUME Heard PROVE TypeOK'
  BY <1>1, <1>7, ArrivesType DEF Heard, Others
<1>8. ASSUME Clears PROVE TypeOK'
  <2>1. restarts' \in 0 .. MaxRestarts
    BY <1>8, PollConstants, SMT DEF Clears, Others
  <2> QED
    BY <1>1, <1>8, <2>1, ArrivesType DEF Clears, Others
<1>9. ASSUME Reselected PROVE TypeOK'
  BY <1>9 DEF Reselected, Others
<1>10. ASSUME UNCHANGED vars PROVE TypeOK'
  BY <1>10 DEF vars, history, TypeOK
<1> QED
  BY <1>2, <1>3, <1>4, <1>5, <1>6, <1>7, <1>8, <1>9, <1>10, StepKinds
  DEF Steps

(* The structure newpeer() starts from.                                    *)
Zeroed ==
  [minpoll |-> MinPoll, hpoll |-> MinPoll, ppoll |-> MaxPoll, reach |-> 0,
   unreach |-> 0, burst |-> 0, retry |-> 0, throttle |-> 0,
   next |-> 0, out |-> 0, ttl |-> 0]

(* The record peer_clear() leaves is a peer record.                        *)
LEMMA ZeroedType == Zeroed \in PeerRecord
BY Bounds, PollConstants, PollPowers, SMT DEF Zeroed, PeerRecord, Polls

(* The first association is in range.                                      *)
LEMMA TypeInit == Init => TypeOK
<1> SUFFICES ASSUME Init PROVE TypeOK
  OBVIOUS
<1>1. Zeroed \in PeerRecord
  BY ZeroedType
<1>2. peer \in PeerClear(Zeroed)
  BY DEF Init, Zeroed
<1>3. InRange(peer)
  BY <1>1, <1>2, PeerCleared
<1>4. Others
  <2>1. /\ kind \in Kinds /\ up = TRUE /\ sample = FALSE
        /\ owed = 0 /\ restarts = 0 /\ cleared = TRUE
        /\ gap = MinGap /\ headway = MinPkt /\ unheard = MinGap
        /\ quiet = Calm /\ heard = FALSE /\ good = FALSE /\ silence = 0
    BY DEF Init
  <2>2. /\ 0 \in 0 .. MaxOwed /\ 0 \in 0 .. MaxRestarts
        /\ MinGap \in 0 .. MinGap /\ MinPkt \in 0 .. MinGap
        /\ Calm \in 0 .. Calm /\ 0 \in 0 .. Unreach
    BY Bounds, PollConstants, SMT
  <2> QED
    BY <2>1, <2>2 DEF Others
<1> QED
  BY <1>3, <1>4, TypeParts

(* Every variable keeps to its range, whatever the kisses-o'-death do to   *)
(* minpoll: 2^(hpoll - minpoll), the next poll, the reach register and the *)
(* counters that transmit() and receive() share.                           *)
THEOREM TypeCorrect == Spec => []TypeOK
BY TypeInit, TypeStep, PTL DEF Spec

-----------------------------------------------------------------------------
(* Bursts, and the load on a server that does not answer *)

(* What a second with a packet, or without one, does to the history.       *)
LEMMA SentFacts ==
  ASSUME NEW sent \in BOOLEAN, Sent(sent)
  PROVE  /\ sent => gap' = 0 /\ ~cleared'
         /\ ~sent => gap' = PMin(gap + 1, MinGap) /\ (cleared' <=> cleared)
         /\ ~sent => owed' = owed
         /\ ~sent \/ cleared => headway' = headway /\ unheard' = unheard
         /\ sent /\ ~cleared => headway' = PMin(headway, gap + 1)
         /\ heard => unheard' = unheard
         /\ sent /\ ~cleared /\ ~heard => unheard' = PMin(unheard, gap + 1)
BY DEF Sent

(* The counters in arithmetic.                                             *)
LEMMA Numbers ==
  TypeOK => /\ gap \in Nat /\ gap <= MinGap /\ headway \in Nat /\ unheard \in Nat
            /\ owed \in Nat /\ restarts \in Nat /\ silence \in Nat
            /\ peer.next \in Nat /\ peer.out \in Nat /\ peer.burst \in Nat
            /\ peer.retry \in Nat /\ peer.throttle \in Nat
            /\ peer.reach \in 0 .. (2^ReachBits - 1) /\ peer.unreach \in Nat
            /\ peer.minpoll \in Polls
            /\ 2^MinPoll \in Nat /\ MinPkt \in Nat /\ 0 < MinPkt
            /\ MinGap \in Nat /\ MinPkt <= MinGap /\ 2^MinPoll <= MinGap
<1>1. TypeOK => InRange(peer) /\ Others
  BY TypeParts
<1> QED
  BY <1>1, Bounds, PollConstants, PollPowers, SMT DEF InRange, PeerRecord, Others

(* The type invariant after a step, as the arithmetic facts the steps      *)
(* below use.                                                              *)
LEMMA NumbersNext ==
  TypeOK' => /\ gap' \in Nat /\ gap' <= MinGap /\ headway' \in Nat
             /\ unheard' \in Nat /\ owed' \in Nat /\ restarts' \in Nat
             /\ silence' \in Nat
             /\ peer'.next \in Nat /\ peer'.out \in Nat /\ peer'.burst \in Nat
             /\ peer'.retry \in Nat /\ peer'.throttle \in Nat
             /\ peer'.reach \in 0 .. (2^ReachBits - 1) /\ peer'.unreach \in Nat
             /\ peer'.minpoll \in Polls
<1>1. TypeOK' => (/\ gap \in Nat /\ gap <= MinGap /\ headway \in Nat
                  /\ unheard \in Nat /\ owed \in Nat /\ restarts \in Nat
                  /\ silence \in Nat
                  /\ peer.next \in Nat /\ peer.out \in Nat /\ peer.burst \in Nat
                  /\ peer.retry \in Nat /\ peer.throttle \in Nat
                  /\ peer.reach \in 0 .. (2^ReachBits - 1)
                  /\ peer.unreach \in Nat /\ peer.minpoll \in Polls)'
  <2>1. TypeOK => /\ gap \in Nat /\ gap <= MinGap /\ headway \in Nat
                  /\ unheard \in Nat /\ owed \in Nat /\ restarts \in Nat
                  /\ silence \in Nat
                  /\ peer.next \in Nat /\ peer.out \in Nat /\ peer.burst \in Nat
                  /\ peer.retry \in Nat /\ peer.throttle \in Nat
                  /\ peer.reach \in 0 .. (2^ReachBits - 1)
                  /\ peer.unreach \in Nat /\ peer.minpoll \in Polls
    BY Numbers
  <2> QED
    BY <2>1, PTL
<1> QED
  BY <1>1

(* Every step keeps OneBurst: transmit() starts a burst only when none is  *)
(* under way and the last one is answered or over.                         *)
LEMMA BurstStep == TypeOK /\ OneBurst /\ [Next]_vars => OneBurst'
<1> SUFFICES ASSUME TypeOK, OneBurst, [Next]_vars PROVE OneBurst'
  OBVIOUS
<1> USE DEF OneBurst
<1>1. ASSUME Idles PROVE OneBurst'
  BY <1>1 DEF Idles
<1>2. ASSUME Beaconed PROVE OneBurst'
  BY <1>2 DEF Beaconed
<1>3. ASSUME NewPolls PROVE OneBurst'
  <2>1. peer'.burst = 0
    BY <1>3 DEF NewPolls, Tosses, Asks
  <2> QED
    BY <2>1, SMT
<1>4. ASSUME Bursts PROVE OneBurst'
  BY <1>4, Numbers, SMT DEF Bursts, PMax
<1>5. ASSUME Kissed PROVE OneBurst'
  BY <1>5, SMT DEF Kissed
<1>6. ASSUME Heard PROVE OneBurst'
  <2>1. peer'.retry = 0 /\ heard' = TRUE
    BY <1>6 DEF Heard
  <2> QED
    BY <2>1
<1>7. ASSUME Clears PROVE OneBurst'
  <2>1. peer'.burst = 0
    BY <1>7 DEF Clears
  <2> QED
    BY <2>1, SMT
<1>8. ASSUME Reselected PROVE OneBurst'
  BY <1>8 DEF Reselected
<1>9. ASSUME UNCHANGED vars PROVE OneBurst'
  BY <1>9 DEF vars, history
<1> QED
  BY <1>1, <1>2, <1>3, <1>4, <1>5, <1>6, <1>7, <1>8, <1>9, StepKinds
  DEF Steps

(* What newpeer() leaves in the fields the invariants speak of.            *)
LEMMA FirstPeer ==
  Init => /\ peer.minpoll = MinPoll /\ peer.throttle = 0 /\ peer.unreach = 0
          /\ peer.burst = 0 /\ peer.retry = 0 /\ peer.out = 0
<1> SUFFICES ASSUME Init
             PROVE  /\ peer.minpoll = MinPoll /\ peer.throttle = 0
                    /\ peer.unreach = 0 /\ peer.burst = 0 /\ peer.retry = 0
                    /\ peer.out = 0
  OBVIOUS
<1>1. Zeroed \in PeerRecord /\ peer \in PeerClear(Zeroed)
  BY ZeroedType DEF Init, Zeroed
<1>2. /\ peer.minpoll = Zeroed.minpoll /\ peer.throttle = Zeroed.throttle
      /\ peer.unreach = Zeroed.unreach /\ peer.burst = 0
      /\ peer.retry = 0 /\ peer.out = 0
  BY <1>1, PeerCleared
<1> QED
  BY <1>2 DEF Zeroed

(* A burst and the retries of its first packet exclude each other, and a   *)
(* burst goes on only after the other end answered: transmit() starts none *)
(* by itself.                                                              *)
THEOREM OneBurstHolds == Spec => []OneBurst
<1>1. Init => OneBurst
  BY FirstPeer, SMT DEF OneBurst
<1> QED
  BY <1>1, BurstStep, TypeCorrect, PTL DEF Spec

(* Until something arrives, a packet is as old as the poll it belongs to,  *)
(* and the next one is a poll interval away from it.                       *)
LoadInv ==
  /\ ~heard => gap >= peer.out \/ gap = MinGap
  /\ up /\ ~cleared /\ ~heard => gap + peer.next >= 2^MinPoll
  /\ UnansweredLoad

(* Every step keeps the invariant behind UnansweredLoad: while nothing     *)
(* arrives, the packets of transmit() are a poll interval apart.           *)
LEMMA LoadStep == TypeOK /\ OneBurst /\ LoadInv /\ [Next]_vars => LoadInv'
<1> SUFFICES ASSUME TypeOK, OneBurst, LoadInv, [Next]_vars PROVE LoadInv'
  OBVIOUS
<1>0. TypeOK'
  BY TypeStep
<1> USE <1>0, Numbers, NumbersNext DEF LoadInv, UnansweredLoad
<1>1. ASSUME Idles PROVE LoadInv'
  <2>1. /\ up /\ peer.next > 1 /\ peer'.next = peer.next - 1
        /\ peer'.out = PMin(peer.out + 1, Horizon) /\ Sent(FALSE)
        /\ up' = up /\ heard' = heard
    BY <1>1 DEF Idles
  <2>2. /\ gap' = PMin(gap + 1, MinGap) /\ (cleared' <=> cleared)
        /\ unheard' = unheard
    BY <2>1, SentFacts
  <2>3. peer'.out <= peer.out + 1
    BY <2>1, Bounds, SMT DEF PMin
  <2>4. ~heard' => gap' >= peer'.out \/ gap' = MinGap
    BY <2>1, <2>2, <2>3, SMT DEF PMin
  <2>5. up' /\ ~cleared' /\ ~heard' => gap' + peer'.next >= 2^MinPoll
    BY <2>1, <2>2, SMT DEF PMin
  <2> QED
    BY <2>2, <2>4, <2>5
<1>2. ASSUME up, peer.next <= 1, up => peer.burst = 0 \/ heard,
             NEW sent \in BOOLEAN, Polled(sent), Sent(sent),
             peer'.out = 0, ~heard' => peer'.burst = 0
      PROVE  LoadInv'
  <2>1. /\ sent => gap' = 0 /\ ~cleared'
        /\ ~sent => gap' = PMin(gap + 1, MinGap) /\ (cleared' <=> cleared)
        /\ ~sent \/ cleared => unheard' = unheard
        /\ heard => unheard' = unheard
        /\ sent /\ ~cleared /\ ~heard => unheard' = PMin(unheard, gap + 1)
    BY <1>2, SentFacts
  <2>2. ~heard' => peer'.next >= 2^MinPoll
    BY <1>2, SMT DEF Polled
  <2>3. unheard' >= 2^MinPoll
    BY <1>2, <2>1, SMT DEF PMin
  <2> QED
    BY <1>2, <2>2, <2>3, SMT
<1>3. ASSUME Beaconed PROVE LoadInv'
  <2>1. PICK sent \in BOOLEAN :
          /\ Polled(sent) /\ Sent(sent)
          /\ peer'.burst = peer.burst /\ peer'.out = 0
    BY <1>3 DEF Beaconed
  <2>2. /\ up /\ peer.next <= 1 /\ heard' = heard
        /\ ~heard => peer.burst = 0
    BY <1>3, SMT DEF Beaconed, OneBurst
  <2> QED
    BY <1>2, <2>1, <2>2
<1>4. ASSUME NewPolls PROVE LoadInv'
  <2>1. /\ up /\ peer.next <= 1 /\ peer.burst = 0 /\ peer'.burst = 0
        /\ peer'.out = 0
    BY <1>4 DEF NewPolls, Tosses, Asks
  <2>2. CASE Asks
    <3>1. PICK sent \in BOOLEAN : Polled(sent) /\ Sent(sent)
      BY <2>2 DEF Asks
    <3> QED
      BY <1>2, <2>1, <3>1
  <2>3. CASE Tosses
    <3>1. ~up' /\ Sent(FALSE)
      BY <2>3 DEF Tosses
    <3>2. unheard' = unheard
      BY <3>1, SentFacts
    <3> QED
      BY <2>1, <3>1, <3>2, SMT
  <2> QED
    BY <1>4, <2>2, <2>3 DEF NewPolls
<1>5. ASSUME Bursts PROVE LoadInv'
  <2>1. heard /\ heard'
    BY <1>5 DEF Bursts, OneBurst
  <2>2. PICK sent \in BOOLEAN : Sent(sent)
    BY <1>5 DEF Bursts
  <2>3. unheard' = unheard
    BY <2>1, <2>2, SentFacts
  <2> QED
    BY <2>1, <2>3
<1>6. ASSUME Kissed PROVE LoadInv'
  BY <1>6, SMT DEF Kissed, Arrives
<1>7. ASSUME Heard PROVE LoadInv'
  BY <1>7 DEF Heard, Arrives
<1>8. ASSUME Clears PROVE LoadInv'
  <2>1. /\ cleared' /\ peer'.out = 0 /\ unheard' = unheard /\ gap' = gap
        /\ heard' \/ heard' = heard
    BY <1>8 DEF Clears
  <2> QED
    BY <1>8, <2>1, SMT
<1>9. ASSUME Reselected PROVE LoadInv'
  <2>1. ~heard => peer.burst = 0
    BY SMT DEF OneBurst
  <2> QED
    BY <1>9, <2>1, SMT DEF Reselected
<1>10. ASSUME UNCHANGED vars PROVE LoadInv'
  BY <1>10 DEF vars, history
<1> HIDE <1>0, Numbers, NumbersNext
<1> QED
  BY <1>1, <1>3, <1>4, <1>5, <1>6, <1>7, <1>8, <1>9, <1>10, StepKinds
  DEF Steps

(* A server that does not answer is polled no more often than every        *)
(* 2^minpoll seconds, however many retries and bursts are configured.      *)
THEOREM UnansweredLoadHolds == Spec => []UnansweredLoad
<1>1. Init => LoadInv
  <2> SUFFICES ASSUME Init PROVE LoadInv
    OBVIOUS
  <2>1. cleared = TRUE /\ gap = MinGap /\ unheard = MinGap
    BY DEF Init
  <2> QED
    BY <2>1, Bounds, FirstPeer, PollPowers, PollConstants
    DEF LoadInv, UnansweredLoad
<1>2. LoadInv => UnansweredLoad
  BY DEF LoadInv
<1> QED
  BY <1>1, <1>2, LoadStep, OneBurstHolds, TypeCorrect, PTL DEF Spec

-----------------------------------------------------------------------------
(* The guard time *)

(* The next packet is the guard time away from the last.                   *)
GuardInv ==
  /\ up /\ ~cleared => gap + peer.next >= MinPkt
  /\ GuardTime

(* Interleaved hosts move by a second, towards the guard time only from    *)
(* half a poll interval away: ntp_minpkt is 2, and the least poll interval *)
(* of the daemon is 8 s.                                                   *)
PhaseFits == \A k \in Kinds : k.xleave => 2 * MinPkt + 2 <= 2^MinPoll

(* Every step keeps the invariant behind GuardTime: nextdate stays a guard *)
(* time after the last packet.                                             *)
LEMMA GuardStep ==
  ASSUME PhaseFits
  PROVE  TypeOK /\ GuardInv /\ [Next]_vars => GuardInv'
<1> SUFFICES ASSUME TypeOK, GuardInv, [Next]_vars PROVE GuardInv'
  OBVIOUS
<1>0. TypeOK'
  BY TypeStep
<1> USE <1>0, Numbers, NumbersNext DEF GuardInv, GuardTime
<1>1. ASSUME Idles PROVE GuardInv'
  <2>1. /\ up /\ peer.next > 1 /\ peer'.next = peer.next - 1 /\ Sent(FALSE)
    BY <1>1 DEF Idles
  <2>2. /\ gap' = PMin(gap + 1, MinGap) /\ (cleared' <=> cleared)
        /\ headway' = headway
    BY <2>1, SentFacts
  <2> QED
    BY <2>1, <2>2, SMT DEF PMin
<1>2. ASSUME up, peer.next <= 1, NEW sent \in BOOLEAN, Polled(sent), Sent(sent)
      PROVE  GuardInv'
  <2>1. /\ ~sent \/ cleared => headway' = headway
        /\ sent /\ ~cleared => headway' = PMin(headway, gap + 1)
    BY <1>2, SentFacts
  <2>2. headway' >= MinPkt
    BY <1>2, <2>1, SMT DEF PMin
  <2> QED
    BY <1>2, <2>2, SMT DEF Polled
<1>3. ASSUME Beaconed PROVE GuardInv'
  BY <1>2, <1>3 DEF Beaconed
<1>4. ASSUME NewPolls PROVE GuardInv'
  <2>1. CASE Asks
    BY <1>2, <1>4, <2>1 DEF NewPolls, Asks
  <2>2. CASE Tosses
    <3>1. ~up' /\ Sent(FALSE)
      BY <2>2 DEF Tosses
    <3>2. headway' = headway
      BY <3>1, SentFacts
    <3> QED
      BY <3>1, <3>2
  <2> QED
    BY <1>4, <2>1, <2>2 DEF NewPolls
<1>5. ASSUME Bursts PROVE GuardInv'
  BY <1>2, <1>5 DEF Bursts
<1>6. ASSUME Kissed PROVE GuardInv'
  BY <1>6, SMT DEF Kissed, Arrives
<1>7. ASSUME Heard PROVE GuardInv'
  <2>1. PICK n \in Nat : Moved(n)
    BY <1>7 DEF Heard
  <2>2. up /\ UNCHANGED <<up, gap, headway, cleared>>
    BY <1>7 DEF Heard, Arrives
  <2>3. n = peer.next \/ n >= MinPkt
    BY <2>1 DEF Moved
  <2>4. kind.xleave => 2 * MinPkt + 2 <= 2^MinPoll
    BY DEF PhaseFits, TypeOK
  <2>5. peer'.next >= n \/ peer'.next >= MinPkt
    BY <2>1, <2>4, SMT DEF Moved
  <2> QED
    BY <2>2, <2>3, <2>5, SMT
<1>8. ASSUME Clears PROVE GuardInv'
  BY <1>8 DEF Clears
<1>9. ASSUME Reselected PROVE GuardInv'
  BY <1>9, SMT DEF Reselected
<1>10. ASSUME UNCHANGED vars PROVE GuardInv'
  BY <1>10 DEF vars, history
<1> HIDE <1>0, Numbers, NumbersNext
<1> QED
  BY <1>1, <1>3, <1>4, <1>5, <1>6, <1>7, <1>8, <1>9, <1>10, StepKinds
  DEF Steps

(* The guard time: two packets of an association are never less than       *)
(* ntp_minpkt apart, whatever bursts, retries, late replies, changes of    *)
(* the poll interval and kisses-o'-death come between them; only the first *)
(* packet after peer_clear() is exempt.                                    *)
THEOREM GuardTimeHolds ==
  ASSUME PhaseFits
  PROVE  Spec => []GuardTime
<1>1. Init => GuardInv
  <2> SUFFICES ASSUME Init PROVE GuardInv
    OBVIOUS
  <2>1. cleared = TRUE /\ headway = MinPkt
    BY DEF Init
  <2> QED
    BY <2>1, PollConstants, SMT DEF GuardInv, GuardTime
<1>2. GuardInv => GuardTime
  BY DEF GuardInv
<1>3. TypeOK /\ GuardInv /\ [Next]_vars => GuardInv'
  BY GuardStep
<1> QED
  BY <1>1, <1>2, <1>3, TypeCorrect, PTL DEF Spec

-----------------------------------------------------------------------------
(* The throttle *)

(* The ceiling of the throttle that poll_update() enforces, for the packet *)
(* that is due and with the second an interleaved host may take from it.   *)
(* Until the first packet after peer_clear() there is no ceiling, but that *)
(* packet has not been charged yet.                                        *)
Ceiling(p, n) == (Shift + 1) * 2^p.minpoll + n * (2^p.minpoll - 2)

(* The packets in excess after r restarts: those of one interleaved burst, *)
(* and for each restart a packet and such a burst.                         *)
Allowance(r) == r + (r + 1) * BurstExcess

ThrottleInv ==
  /\ (~kind.iburst /\ ~kind.burst) \/ kind.cast # "ucast" =>
       peer.burst = 0 /\ peer.retry = 0
  /\ up /\ ~cleared /\ (peer.burst = 0 \/ BurstExcess = 0) =>
       peer.throttle - peer.next <= (Shift - 1) * 2^peer.minpoll + 1
  /\ cleared /\ restarts = 0 => peer.throttle = 0 /\ owed = 0
  /\ cleared /\ restarts > 0 =>
       peer.throttle <= Ceiling(peer, Allowance(restarts - 1))
  /\ peer.retry > 0 =>
       peer.throttle <= Ceiling(peer, Allowance(restarts) - BurstExcess)
  /\ peer.burst > 0 /\ BurstExcess # 0 =>
       peer.throttle <= Ceiling(peer, Allowance(restarts) - peer.burst)
  /\ Throttled

(* What a burst may exceed the throttle by, in numbers.                    *)
LEMMA Allowances ==
  ASSUME TypeOK, NEW r \in Nat
  PROVE  /\ BurstExcess \in Nat /\ Allowance(r) \in Nat
         /\ Allowance(r) - BurstExcess \in Nat
         /\ Allowance(0) = BurstExcess
         /\ Allowance(r + 1) - BurstExcess = Allowance(r) + 1
         /\ BurstExcess # 0 => peer.burst <= BurstExcess
         /\ BurstExcess = 0 => ~kind.xleave \/ (~kind.iburst /\ ~kind.burst)
<1>1. /\ PMax(IBurst, Shift) \in Nat /\ PMax(IBurst, Shift) # 0
      /\ peer.burst \in 0 .. PMax(IBurst, Shift)
  BY TypeRange, Bounds, PollConstants, SMT DEF InRange, PeerRecord
<1>2. BurstExcess = PMax(IBurst, Shift) \/ BurstExcess = 0
  BY DEF BurstExcess
<1>3. BurstExcess = 0 => ~kind.xleave \/ (~kind.iburst /\ ~kind.burst)
  BY <1>1 DEF BurstExcess
<1> DEFINE x == BurstExcess
<1>4. x \in Nat /\ (x # 0 => peer.burst <= x)
  BY <1>1, <1>2, SMT
<1> HIDE DEF x
<1>5. /\ (r + 1) * x = r * x + x /\ ((r + 1) + 1) * x = r * x + x + x
      /\ r * x \in Nat /\ (0 + 1) * x = x
  BY <1>4, Product, SMT
<1>6. /\ Allowance(r) = r + (r + 1) * x
      /\ Allowance(r + 1) = (r + 1) + ((r + 1) + 1) * x
      /\ Allowance(0) = 0 + (0 + 1) * x
  BY DEF Allowance, x
<1>7. /\ Allowance(r) \in Nat /\ Allowance(r) - x \in Nat
      /\ Allowance(0) = x /\ Allowance(r + 1) - x = Allowance(r) + 1
  BY <1>4, <1>5, <1>6, SMT
<1> QED
  BY <1>3, <1>4, <1>7 DEF x

(* A burst is no longer than its excess, before a step and after it.       *)
LEMMA BurstWithin ==
  /\ TypeOK => (BurstExcess # 0 => peer.burst <= BurstExcess)
  /\ TypeOK' => (BurstExcess # 0 => peer.burst <= BurstExcess)'
<1>1. TypeOK => (BurstExcess # 0 => peer.burst <= BurstExcess)
  <2>1. 0 \in Nat
    BY SMT
  <2> QED
    BY <2>1, Allowances
<1> QED
  BY <1>1, PTL

(* The products of the ceilings.                                           *)
LEMMA Ceilings ==
  ASSUME NEW p, p.minpoll \in Polls, NEW n \in Nat
  PROVE  /\ 2^p.minpoll \in Nat /\ 4 <= 2^p.minpoll
         /\ (Shift - 1) * 2^p.minpoll \in Nat
         /\ Ceiling(p, n) \in Nat
         /\ Ceiling(p, 0) = (Shift - 1) * 2^p.minpoll + 2 * 2^p.minpoll
         /\ Ceiling(p, 0) = (Shift + 1) * 2^p.minpoll
         /\ Ceiling(p, 0) <= Ceiling(p, n)
         /\ Ceiling(p, n + 1) = Ceiling(p, n) + 2^p.minpoll - 2
         /\ \A k \in Nat : n <= k => Ceiling(p, n) <= Ceiling(p, k)
<1> DEFINE m == 2^p.minpoll
<1>1. m \in Nat /\ 4 <= m
  BY Seconds
<1> HIDE DEF m
<1>2. Shift \in Nat /\ 0 < Shift
  BY PollConstants
<1>3. (Shift - 1) * m \in Nat /\ n * (m - 2) \in Nat
  BY <1>1, <1>2, Product, SMT
<1>4. /\ (Shift + 1) * m = (Shift - 1) * m + 2 * m
      /\ (n + 1) * (m - 2) = n * (m - 2) + m - 2
      /\ 0 * (m - 2) = 0
  BY <1>1, <1>2, SMT
<1>5. /\ Ceiling(p, n) = (Shift + 1) * m + n * (m - 2)
      /\ Ceiling(p, 0) = (Shift + 1) * m + 0 * (m - 2)
      /\ Ceiling(p, n + 1) = (Shift + 1) * m + (n + 1) * (m - 2)
  BY DEF Ceiling, m
<1> DEFINE a == (Shift - 1) * m
           b == n * (m - 2)
<1>6. /\ a \in Nat /\ b \in Nat
      /\ Ceiling(p, n) = a + 2 * m + b /\ Ceiling(p, 0) = a + 2 * m
      /\ Ceiling(p, n + 1) = a + 2 * m + (b + m - 2)
      /\ (Shift + 1) * m = a + 2 * m
  BY <1>1, <1>2, <1>3, <1>4, <1>5, SMT
<1> HIDE DEF a, b
<1>7. /\ Ceiling(p, n) \in Nat /\ Ceiling(p, 0) <= Ceiling(p, n)
      /\ Ceiling(p, n + 1) = Ceiling(p, n) + m - 2
      /\ Ceiling(p, 0) = (Shift + 1) * m
  BY <1>1, <1>6, SMT
<1>8. ASSUME NEW k \in Nat, n <= k PROVE Ceiling(p, n) <= Ceiling(p, k)
  <2>1. Ceiling(p, k) = (Shift + 1) * m + k * (m - 2)
    BY DEF Ceiling, m
  <2>2. k - n \in Nat /\ m - 2 \in Nat
    BY <1>1, <1>8, SMT
  <2>3. (k - n) * (m - 2) \in Nat
    BY <2>2, Product
  <2>4. /\ k * (m - 2) = n * (m - 2) + (k - n) * (m - 2)
        /\ (Shift + 1) * m \in Int /\ n * (m - 2) \in Int
    BY <1>1, <1>2, <1>8, SMT
  <2> QED
    BY <1>5, <2>1, <2>3, <2>4, SMT
<1> QED
  BY <1>1, <1>3, <1>6, <1>7, <1>8 DEF m, a

(* Every step keeps the invariant behind Throttled: poll_update() puts the *)
(* next packet off until the throttle is below its ceiling.                *)
LEMMA ThrottleStep ==
  TypeOK /\ OneBurst /\ ThrottleInv /\ [Next]_vars => ThrottleInv'
<1> SUFFICES ASSUME TypeOK, OneBurst, ThrottleInv, [Next]_vars
    PROVE  ThrottleInv'
  OBVIOUS
<1>0. TypeOK'
  BY TypeStep
<1> DEFINE M == 2^peer.minpoll
           C == (Shift - 1) * M
           T(n) == Ceiling(peer, n)
           X == BurstExcess
           A == Allowance(restarts)
           Q == T(Allowance(restarts - 1))
<1>a. /\ peer.minpoll \in Polls /\ peer'.minpoll \in Polls
      /\ restarts \in Nat /\ restarts' \in Nat /\ owed \in Nat
      /\ peer.throttle \in Nat /\ peer'.throttle \in Nat
      /\ peer.next \in Nat /\ peer'.next \in Nat
      /\ peer.burst \in Nat /\ peer'.burst \in Nat
      /\ peer.retry \in Nat /\ peer'.retry \in Nat
  BY <1>0, Numbers, NumbersNext
<1>b. /\ M \in Nat /\ 4 <= M /\ C \in Nat /\ T(0) = C + 2 * M
      /\ \A n \in Nat : /\ T(n) \in Nat /\ T(0) <= T(n)
                        /\ T(n + 1) = T(n) + M - 2
                        /\ \A k \in Nat : n <= k => T(n) <= T(k)
  BY <1>a, Ceilings
<1>n. M \in Nat /\ 4 <= M /\ C \in Nat /\ T(0) \in Nat /\ T(0) = C + 2 * M
  <2>1. 0 \in Nat
    BY SMT
  <2> QED
    BY <1>b, <2>1
<1>x. /\ X \in Nat /\ A \in Nat /\ A - X \in Nat
      /\ restarts = 0 => A = X
      /\ X # 0 => peer.burst <= X
      /\ X = 0 => ~kind.xleave \/ (~kind.iburst /\ ~kind.burst)
  BY <1>a, Allowances
<1>y. kind' = kind => BurstExcess' = X /\ (X # 0 => peer'.burst <= X)
  <2>1. (BurstExcess # 0 => peer.burst <= BurstExcess)'
    BY <1>0, BurstWithin
  <2>2. kind' = kind => BurstExcess' = X
    BY DEF BurstExcess, X
  <2> QED
    BY <2>1, <2>2
<1>z. restarts > 0 => /\ Allowance(restarts - 1) \in Nat
                      /\ Allowance(restarts - 1) + 1 = A - X
  <2>1. restarts > 0 => restarts - 1 \in Nat /\ (restarts - 1) + 1 = restarts
    BY <1>a, SMT
  <2> QED
    BY <2>1, Allowances
<1> HIDE DEF X, A
<1>t. /\ T(A) \in Nat /\ T(A - X) \in Nat /\ T(0) <= T(A - X)
      /\ T(A - X) <= T(A)
      /\ restarts > 0 => Q \in Nat /\ T(A - X) = Q + M - 2
  <2>1. A - X <= A
    BY <1>x, SMT
  <2> QED
    BY <1>b, <1>x, <1>z, <2>1
<1> HIDE DEF M, C, T, Q
<1>c. /\ (~kind.iburst /\ ~kind.burst) \/ kind.cast # "ucast" =>
           peer.burst = 0 /\ peer.retry = 0
      /\ up /\ ~cleared /\ (peer.burst = 0 \/ X = 0) =>
           peer.throttle - peer.next <= C + 1
      /\ cleared /\ restarts = 0 => peer.throttle = 0 /\ owed = 0
      /\ cleared /\ restarts > 0 => peer.throttle <= Q
      /\ peer.retry > 0 => peer.throttle <= T(A - X)
      /\ peer.burst > 0 /\ X # 0 => peer.throttle <= T(A - peer.burst)
      /\ peer.throttle <= T(A)
  BY DEF ThrottleInv, Throttled, Ceiling, Allowance, M, C, T, X, A, Q
<1>d. ASSUME peer'.minpoll = peer.minpoll, kind' = kind, restarts' = restarts,
             (~kind.iburst /\ ~kind.burst) \/ kind.cast # "ucast" =>
               peer'.burst = 0 /\ peer'.retry = 0,
             up' /\ ~cleared' /\ (peer'.burst = 0 \/ X = 0) =>
               peer'.throttle - peer'.next <= C + 1,
             cleared' /\ restarts = 0 => peer'.throttle = 0 /\ owed' = 0,
             cleared' /\ restarts > 0 => peer'.throttle <= Q,
             peer'.retry > 0 => peer'.throttle <= T(A - X),
             peer'.burst > 0 /\ X # 0 => peer'.throttle <= T(A - peer'.burst),
             peer'.throttle <= T(A)
      PROVE  ThrottleInv'
  <2>1. BurstExcess' = X
    BY <1>d, <1>y
  <2> QED
    BY <1>d, <2>1
    DEF ThrottleInv, Throttled, Ceiling, Allowance, M, C, T, X, A, Q
<1>e. ASSUME peer'.minpoll = peer.minpoll, kind' = kind, restarts' = restarts,
             (~kind.iburst /\ ~kind.burst) \/ kind.cast # "ucast" =>
               peer'.burst = 0 /\ peer'.retry = 0,
             up' /\ ~cleared' /\ (peer'.burst = 0 \/ X = 0) =>
               peer'.throttle - peer'.next <= C + 1,
             cleared' /\ restarts = 0 => peer'.throttle = 0 /\ owed' = 0,
             cleared' /\ restarts > 0 => peer'.throttle <= Q,
             peer'.throttle <= T(A - X)
      PROVE  ThrottleInv'
  <2>1. X # 0 => A - peer'.burst \in Nat /\ A - X <= A - peer'.burst
    BY <1>a, <1>e, <1>x, <1>y, SMT
  <2>2. X # 0 => T(A - X) <= T(A - peer'.burst) /\ T(A - peer'.burst) \in Nat
    BY <1>b, <1>x, <2>1
  <2>3. X # 0 => peer'.throttle <= T(A - peer'.burst)
    BY <1>a, <1>e, <1>t, <2>2, SMT
  <2>4. peer'.throttle <= T(A)
    BY <1>a, <1>e, <1>t, SMT
  <2> QED
    BY <1>d, <1>e, <2>3, <2>4
<1>1. ASSUME Idles PROVE ThrottleInv'
  <2>1. /\ up /\ peer.next > 1 /\ peer'.next = peer.next - 1 /\ Sent(FALSE)
        /\ peer'.throttle = PMax(peer.throttle - 1, 0)
        /\ peer'.minpoll = peer.minpoll /\ peer'.burst = peer.burst
        /\ peer'.retry = peer.retry /\ UNCHANGED <<kind, up, restarts>>
    BY <1>1 DEF Idles
  <2>2. (cleared' <=> cleared) /\ owed' = owed
    BY <2>1, SentFacts
  <2>3. /\ peer'.throttle <= peer.throttle
        /\ peer.throttle = 0 => peer'.throttle = 0
        /\ peer'.throttle = IF peer.throttle > 0 THEN peer.throttle - 1 ELSE 0
    BY <1>a, <2>1, SMT DEF PMax
  <2>4. peer.throttle - peer.next <= C + 1 => peer'.throttle - peer'.next <= C + 1
    BY <1>a, <1>n, <2>1, <2>3, SMT
  <2>5. ASSUME NEW n \in Nat, peer.throttle <= n PROVE peer'.throttle <= n
    BY <1>a, <2>3, <2>5, SMT
  <2>6. X # 0 => A - peer.burst \in Nat
    BY <1>a, <1>x, SMT
  <2>7. X # 0 => T(A - peer.burst) \in Nat
    BY <1>b, <2>6
  <2> QED
    BY <1>c, <1>d, <1>t, <2>1, <2>2, <2>3, <2>4, <2>5, <2>7
<1>2. ASSUME up, up' \in BOOLEAN, peer.next <= 1, kind' = kind,
             restarts' = restarts, NEW sent \in BOOLEAN, Sent(sent),
             peer.burst = 0 \/ X = 0,
             peer'.minpoll = peer.minpoll,
             peer'.throttle = (IF sent THEN PMax(peer.throttle - 1, 0) + M - 2
                               ELSE PMax(peer.throttle - 1, 0)),
             up' => peer'.next >= peer'.throttle - C,
             (~kind.iburst /\ ~kind.burst) \/ kind.cast # "ucast" =>
               peer'.burst = 0 /\ peer'.retry = 0
      PROVE  ThrottleInv'
  <2>1. /\ sent => ~cleared'
        /\ ~sent => (cleared' <=> cleared) /\ owed' = owed
    BY <1>2, SentFacts
  <2>2. up' => peer'.throttle - peer'.next <= C + 1
    BY <1>2, <1>a, <1>n, SMT
  <2>3. /\ ~sent => /\ peer'.throttle <= peer.throttle
                    /\ peer.throttle = 0 => peer'.throttle = 0
        /\ sent => peer'.throttle <= peer.throttle + M - 2
        /\ sent /\ peer.throttle > 0 => peer'.throttle <= peer.throttle + M - 3
        /\ sent /\ peer.throttle = 0 => peer'.throttle = M - 2
    BY <1>2, <1>a, <1>n, SMT DEF PMax
  <2>4. ~cleared => peer.throttle <= C + 2
    BY <1>2, <1>a, <1>n, <1>c, SMT
  <2>5. peer'.throttle <= T(A - X)
    <3>1. CASE ~cleared
      BY <1>a, <1>n, <1>t, <2>3, <2>4, <3>1, SMT
    <3>2. CASE cleared /\ restarts = 0
      <4>1. peer.throttle = 0
        BY <1>c, <3>2
      <4> QED
        BY <1>a, <1>n, <1>t, <2>3, <4>1, SMT
    <3>3. CASE cleared /\ restarts > 0
      <4>1. peer.throttle <= Q /\ Q \in Nat /\ T(A - X) = Q + M - 2
        BY <1>c, <1>t, <3>3
      <4> QED
        BY <1>a, <1>n, <1>t, <2>3, <4>1, SMT
    <3>4. restarts = 0 \/ restarts > 0
      BY <1>a, SMT
    <3> QED
      BY <3>1, <3>2, <3>3, <3>4
  <2>6. cleared' => ~sent /\ cleared
    BY <2>1
  <2>7. cleared' /\ restarts > 0 => peer'.throttle <= Q
    <3>1. cleared' /\ restarts > 0 =>
            /\ peer'.throttle <= peer.throttle /\ peer.throttle <= Q /\ Q \in Nat
      BY <1>c, <1>t, <2>3, <2>6
    <3> QED
      BY <1>a, <3>1, SMT
  <2>8. cleared' /\ restarts = 0 => peer'.throttle = 0 /\ owed' = 0
    BY <1>c, <2>1, <2>3, <2>6
  <2> QED
    BY <1>2, <1>e, <2>2, <2>5, <2>7, <2>8
<1>3. ASSUME NEW sent \in BOOLEAN, Polled(sent)
      PROVE  /\ peer'.minpoll = peer.minpoll
             /\ peer'.throttle = (IF sent THEN PMax(peer.throttle - 1, 0) + M - 2
                                  ELSE PMax(peer.throttle - 1, 0))
             /\ peer'.next >= peer'.throttle - C
  BY <1>3 DEF Polled, M, C
<1>4. ASSUME Beaconed PROVE ThrottleInv'
  <2>1. PICK sent \in BOOLEAN :
          /\ Polled(sent) /\ Sent(sent)
          /\ peer'.burst = peer.burst /\ peer'.retry = peer.retry
    BY <1>4 DEF Beaconed
  <2>2. /\ up /\ peer.next <= 1 /\ UNCHANGED <<kind, up, restarts>>
        /\ up' \in BOOLEAN /\ kind.cast # "ucast"
    BY <1>0, <1>4, TypeParts, TypePartsNext DEF Beaconed, Others
  <2>3. peer.burst = 0 /\ peer.retry = 0
    BY <1>c, <2>2
  <2> QED
    BY <1>2, <1>3, <2>1, <2>2, <2>3
<1>5. ASSUME NewPolls PROVE ThrottleInv'
  <2>1. /\ up /\ peer.next <= 1 /\ peer.burst = 0 /\ kind.cast = "ucast"
        /\ kind' = kind /\ restarts' = restarts
    BY <1>5 DEF NewPolls
  <2>2. CASE Asks
    <3>1. PICK sent \in BOOLEAN : Polled(sent) /\ Sent(sent)
      BY <2>2 DEF Asks
    <3>2. /\ up' \in BOOLEAN /\ peer'.burst = 0
          /\ ~kind.iburst /\ ~kind.burst => peer'.retry = 0
      BY <1>c, <2>2, TypeParts DEF Asks, Others
    <3> QED
      BY <1>2, <1>3, <2>1, <3>1, <3>2
  <2>3. CASE Tosses
    <3>1. /\ up' = FALSE /\ Sent(FALSE) /\ peer'.minpoll = peer.minpoll
          /\ peer'.throttle = PMax(peer.throttle - 1, 0)
          /\ peer'.burst = 0 /\ peer'.retry = 0
      BY <2>3 DEF Tosses
    <3> QED
      BY <1>2, <2>1, <3>1
  <2> QED
    BY <1>5, <2>2, <2>3 DEF NewPolls
<1>6. ASSUME Bursts PROVE ThrottleInv'
  <2>1. PICK sent \in BOOLEAN : Polled(sent) /\ Sent(sent)
    BY <1>6 DEF Bursts
  <2>2. /\ up /\ peer.next <= 1 /\ UNCHANGED <<kind, up, restarts>>
        /\ up' \in BOOLEAN /\ peer.burst > 0 /\ peer'.burst = peer.burst - 1
        /\ peer'.retry = PMax(peer.retry - 1, 0)
    BY <1>6, TypeParts DEF Bursts, Others
  <2>3. (kind.iburst \/ kind.burst) /\ kind.cast = "ucast"
    BY <1>c, <1>6, SMT DEF Bursts
  <2>4. CASE X = 0
    BY <1>2, <1>3, <2>1, <2>2, <2>3, <2>4
  <2>5. CASE X # 0
    <3>1. peer.throttle <= T(A - peer.burst)
      BY <1>c, <2>2, <2>5
    <3>2. /\ A - peer.burst \in Nat
          /\ (A - peer.burst) + 1 = A - peer'.burst /\ A - peer'.burst <= A
          /\ A - peer'.burst \in Nat
      BY <1>a, <1>x, <2>2, <2>5, SMT
    <3>3. /\ T(A - peer.burst) \in Nat /\ T(0) <= T(A - peer.burst)
          /\ T(A - peer'.burst) = T(A - peer.burst) + M - 2
          /\ T(A - peer'.burst) <= T(A)
      BY <1>b, <1>x, <3>2
    <3>4. /\ peer'.throttle <= T(A - peer'.burst)
          /\ peer'.throttle <= T(A)
          /\ peer'.throttle - peer'.next <= C + 1
          /\ ~sent => peer'.throttle <= peer.throttle
          /\ ~sent /\ peer.throttle = 0 => peer'.throttle = 0
      <4>1. /\ peer'.throttle = (IF sent THEN PMax(peer.throttle - 1, 0) + M - 2
                                 ELSE PMax(peer.throttle - 1, 0))
            /\ peer'.next >= peer'.throttle - C
        BY <1>3, <2>1
      <4>2. /\ PMax(peer.throttle - 1, 0) \in Nat
            /\ PMax(peer.throttle - 1, 0) <= peer.throttle
        BY <1>a, SMT DEF PMax
      <4>3. /\ peer'.throttle <= peer.throttle + M - 2
            /\ ~sent => peer'.throttle <= peer.throttle
        BY <1>a, <1>n, <4>1, <4>2, SMT
      <4>4. peer'.throttle <= T(A - peer'.burst)
        BY <1>a, <1>n, <3>1, <3>3, <4>3, SMT
      <4>5. peer'.throttle <= T(A)
        BY <1>a, <1>n, <1>t, <3>3, <4>4, SMT
      <4>6. peer'.throttle - peer'.next <= C + 1
        BY <1>a, <1>n, <4>1, SMT
      <4>7. ~sent /\ peer.throttle = 0 => peer'.throttle = 0
        BY <1>a, <4>3, SMT
      <4> QED
        BY <4>3, <4>4, <4>5, <4>6, <4>7
    <3>5. /\ sent => ~cleared'
          /\ ~sent => (cleared' <=> cleared) /\ owed' = owed
      BY <2>1, SentFacts
    <3>6. peer'.retry = 0
      <4>1. peer.retry = 0
        BY <2>2 DEF OneBurst
      <4> QED
        BY <2>2, <4>1, SMT DEF PMax
    <3>7. cleared' /\ restarts > 0 => peer'.throttle <= Q
      <4>1. cleared' /\ restarts > 0 =>
              peer'.throttle <= peer.throttle /\ peer.throttle <= Q /\ Q \in Nat
        BY <1>c, <1>t, <3>4, <3>5
      <4> QED
        BY <1>a, <4>1, SMT
    <3>8. cleared' /\ restarts = 0 => peer'.throttle = 0 /\ owed' = 0
      BY <1>c, <3>4, <3>5
    <3>9. ~(peer'.retry > 0)
      BY <3>6, SMT
    <3>10. peer'.minpoll = peer.minpoll
      BY <1>3, <2>1
    <3> QED
      BY <1>d, <2>2, <2>3, <3>4, <3>7, <3>8, <3>9, <3>10
  <2> QED
    BY <2>4, <2>5
<1>7. ASSUME Kissed PROVE ThrottleInv'
  <2>1. /\ peer'.burst = 0 /\ peer'.retry = 0
        /\ peer'.throttle = (Shift + 1) * 2^peer'.minpoll
        /\ peer'.next >= peer'.throttle - (Shift - 1) * 2^peer'.minpoll
        /\ UNCHANGED <<kind, restarts, cleared>>
        /\ owed > 0
    BY <1>7 DEF Kissed, Arrives
  <2>2. cleared => restarts > 0
    BY <1>a, <1>c, <2>1, SMT
  <2>3. /\ (Shift - 1) * 2^peer'.minpoll \in Nat
        /\ Ceiling(peer', 0) = (Shift + 1) * 2^peer'.minpoll
        /\ \A n \in Nat : Ceiling(peer', 0) <= Ceiling(peer', n)
    BY <1>a, Ceilings
  <2>4. peer'.throttle - peer'.next <= (Shift - 1) * 2^peer'.minpoll + 1
    <3> DEFINE c == (Shift - 1) * 2^peer'.minpoll
    <3>1. c \in Nat /\ peer'.next >= peer'.throttle - c
      BY <2>1, <2>3
    <3> HIDE DEF c
    <3>2. peer'.throttle - peer'.next <= c + 1
      BY <1>a, <3>1, SMT
    <3> QED
      BY <3>2 DEF c
  <2>5. /\ restarts > 0 =>
             peer'.throttle <= Ceiling(peer', Allowance(restarts - 1))
        /\ peer'.throttle <= Ceiling(peer', A)
    BY <1>x, <1>z, <2>1, <2>3
  <2>6. /\ restarts' = restarts /\ (cleared' <=> cleared) /\ BurstExcess' = X
    BY <1>y, <2>1
  <2>7. ~(cleared /\ restarts = 0) /\ ~(peer'.burst > 0) /\ ~(peer'.retry > 0)
    BY <2>1, <2>2, SMT
  <2> QED
    BY <2>1, <2>4, <2>5, <2>6, <2>7
    DEF ThrottleInv, Throttled, Ceiling, Allowance, X, A
<1>8. ASSUME Heard PROVE ThrottleInv'
  <2>1. /\ up /\ UNCHANGED <<kind, up, restarts, cleared>>
        /\ peer'.minpoll = peer.minpoll /\ peer'.throttle = peer.throttle
        /\ peer'.retry = 0 /\ owed' = PMax(owed - 1, 0)
        /\ peer.retry = 0 => peer'.burst = peer.burst
    BY <1>8 DEF Heard, Arrives
  <2>2. PICK n \in Nat : Moved(n)
    BY <1>8 DEF Heard
  <2>3. /\ ~kind.xleave => peer'.next = n
        /\ peer'.next >= n \/ peer'.next = n - 1
        /\ \/ peer.burst > 0 /\ peer'.burst > 0 /\ n = peer.next
           \/ n >= peer.throttle - C
    BY <2>1, <2>2 DEF Moved, C, M
  <2>4. (~kind.iburst /\ ~kind.burst) \/ kind.cast # "ucast" =>
          peer'.burst = 0 /\ peer'.retry = 0
    BY <1>c, <2>1
  <2>5. ASSUME up', ~cleared', peer'.burst = 0 \/ X = 0
        PROVE  peer'.throttle - peer'.next <= C + 1
    <3>1. CASE n >= peer.throttle - C
      BY <1>a, <1>n, <2>1, <2>3, <3>1, SMT
    <3>2. CASE peer.burst > 0 /\ peer'.burst > 0 /\ n = peer.next
      <4>1. X = 0
        BY <2>5, <3>2, SMT
      <4>2. peer'.burst # 0
        BY <3>2, SMT
      <4>3. ~kind.xleave
        BY <1>x, <2>4, <4>1, <4>2
      <4>4. peer'.next = peer.next /\ peer.throttle - peer.next <= C + 1
        BY <1>c, <2>1, <2>3, <2>5, <3>2, <4>1, <4>3
      <4> QED
        BY <2>1, <4>4
    <3> QED
      BY <2>3, <3>1, <3>2
  <2>6. owed = 0 => owed' = 0
    BY <2>1, SMT DEF PMax
  <2>7. ~(peer'.retry > 0) /\ (peer.retry = 0 \/ peer.retry > 0)
    BY <1>a, <2>1, SMT
  <2>8. CASE peer.retry = 0
    BY <1>c, <1>d, <2>1, <2>4, <2>5, <2>6, <2>7, <2>8
  <2>9. CASE peer.retry > 0
    BY <1>c, <1>e, <2>1, <2>4, <2>5, <2>6, <2>9
  <2> QED
    BY <2>7, <2>8, <2>9
<1>9. ASSUME Clears PROVE ThrottleInv'
  <2>1. /\ cleared' = TRUE /\ restarts' = restarts + 1 /\ kind' = kind
        /\ peer'.minpoll = peer.minpoll /\ peer'.throttle = peer.throttle
        /\ peer'.burst = 0 /\ peer'.retry = 0
    BY <1>9 DEF Clears
  <2>2. restarts' > 0 /\ restarts' - 1 = restarts /\ restarts' # 0
    BY <1>a, <2>1, SMT
  <2>3. ~(peer'.burst > 0) /\ ~(peer'.retry > 0)
    BY <2>1, SMT
  <2>4. BurstExcess' = X
    BY <1>y, <2>1
  <2>5. Allowance(restarts + 1) \in Nat /\ Allowance(restarts + 1) - X = A + 1
    <3>1. restarts + 1 \in Nat
      BY <1>a, SMT
    <3> QED
      BY <1>a, <3>1, Allowances DEF X, A
  <2>6. A <= Allowance(restarts + 1)
    BY <1>x, <2>5, SMT
  <2>7. T(A) <= T(Allowance(restarts + 1)) /\ T(Allowance(restarts + 1)) \in Nat
    BY <1>b, <1>x, <2>5, <2>6
  <2>8. peer'.throttle <= T(A) /\ peer'.throttle <= T(Allowance(restarts + 1))
    BY <1>a, <1>c, <1>t, <2>1, <2>7, SMT
  <2>9. /\ (peer.throttle <= Ceiling(peer, Allowance(restarts - 1)))'
        /\ Throttled'
    BY <2>1, <2>2, <2>4, <2>8
    DEF Throttled, Ceiling, Allowance, T, X, A
  <2> QED
    BY <2>1, <2>2, <2>3, <2>4, <2>9 DEF ThrottleInv, Ceiling, Allowance
<1>10. ASSUME Reselected PROVE ThrottleInv'
  <2>1. /\ UNCHANGED <<kind, up, restarts, cleared, owed>>
        /\ peer'.minpoll = peer.minpoll /\ peer'.throttle = peer.throttle
        /\ peer'.burst = peer.burst /\ peer'.retry = peer.retry
    BY <1>10 DEF Reselected
  <2>2. peer'.next = peer.next \/ peer'.next >= peer.throttle - C
    BY <1>10, <2>1 DEF Reselected, C, M
  <2>3. peer'.next = peer.next \/ peer'.throttle - peer'.next <= C + 1
    BY <1>a, <1>n, <2>1, <2>2, SMT
  <2> QED
    BY <1>c, <1>d, <2>1, <2>3
<1>11. ASSUME UNCHANGED vars PROVE ThrottleInv'
  <2>1. BurstExcess' = X
    BY <1>11, <1>y DEF vars
  <2> QED
    BY <1>11, <2>1
    DEF ThrottleInv, Throttled, Ceiling, Allowance, vars, history, X
<1> QED
  BY <1>1, <1>4, <1>5, <1>6, <1>7, <1>8, <1>9, <1>10, <1>11, StepKinds
  DEF Steps

(* The transmit throttle: the output counter of an association never       *)
(* exceeds the ceiling of a kiss-o'-death by more than one packet for each *)
(* time the association was cleared, whatever replies, bursts and changes  *)
(* of the system peer make poll_update() recompute the next poll.  Where   *)
(* bursts are interleaved, one burst more for each of these times and one  *)
(* burst more come on top.                                                 *)
THEOREM ThrottledHolds == Spec => []Throttled
<1>1. Init => ThrottleInv
  <2> SUFFICES ASSUME Init PROVE ThrottleInv
    OBVIOUS
  <2>1. cleared = TRUE /\ restarts = 0 /\ owed = 0
    BY DEF Init
  <2>2. /\ peer.throttle = 0 /\ peer.burst = 0 /\ peer.retry = 0
        /\ peer.minpoll \in Polls
    BY FirstPeer, PollConstants, SMT DEF Polls
  <2>3. Allowance(restarts) \in Nat
    BY <2>1, TypeInit, Allowances
  <2>4. Ceiling(peer, Allowance(restarts)) \in Nat
    BY <2>2, <2>3, Ceilings
  <2>5. 0 <= Ceiling(peer, Allowance(restarts)) /\ ~(0 > 0)
    BY <2>4, SMT
  <2>6. Throttled
    BY <2>2, <2>5 DEF Throttled, Ceiling, Allowance
  <2> QED
    BY <2>1, <2>2, <2>5, <2>6 DEF ThrottleInv
<1>2. ThrottleInv => Throttled
  BY DEF ThrottleInv
<1> QED
  BY <1>1, <1>2, ThrottleStep, OneBurstHolds, TypeCorrect, PTL DEF Spec

-----------------------------------------------------------------------------
(* When an ephemeral association is tossed *)

(* unreach counts no more polls than went without a good packet, and a     *)
(* good packet is still in the reach register.                             *)
TossInv ==
  /\ Ephemeral /\ up /\ kind.cast = "ucast" =>
       peer.unreach <= silence \/ silence >= Unreach
  /\ up /\ good => peer.reach % 2 = 1
  /\ TossedWhenSilent

(* A register with its last bit set is not empty after a shift.            *)
LEMMA Shifted ==
  ASSUME NEW r \in 0 .. (2^ReachBits - 1), (r * 2) % 2^ReachBits = 0
  PROVE  r % 2 # 1
<1> DEFINE m == 2^ReachBits
<1>1. m \in Nat \ {0} /\ m % 4 = 0
  BY PollPowers
<1>2. r \in 0 .. (m - 1) /\ (r * 2) % m = 0
  OBVIOUS
<1> HIDE DEF m
<1> QED
  BY <1>1, <1>2, SMT

(* Every step keeps the invariant behind TossedWhenSilent: reach and       *)
(* unreach tell how long the server has been silent.                       *)
LEMMA TossStep == TypeOK /\ TossInv /\ [Next]_vars => TossInv'
<1> SUFFICES ASSUME TypeOK, TossInv, [Next]_vars PROVE TossInv'
  OBVIOUS
<1>0. TypeOK'
  BY TypeStep
<1>a. /\ silence \in Nat /\ silence' \in Nat
      /\ peer.unreach \in Nat /\ peer'.unreach \in Nat
      /\ peer.reach \in 0 .. (2^ReachBits - 1)
      /\ Unreach \in Nat /\ UnreachCap \in Nat
  BY <1>0, Numbers, NumbersNext, PollConstants, Bounds
<1>b. ASSUME kind' = kind, up, up',
             peer.unreach <= silence \/ silence >= Unreach
               => peer'.unreach <= silence' \/ silence' >= Unreach,
             (good => peer.reach % 2 = 1) => (good' => peer'.reach % 2 = 1)
      PROVE  TossInv'
  BY <1>b DEF TossInv, TossedWhenSilent, Ephemeral
<1>1. ASSUME Idles PROVE TossInv'
  BY <1>b, <1>1 DEF Idles
<1>2. ASSUME Beaconed PROVE TossInv'
  <2>1. /\ kind' = kind /\ kind.cast # "ucast" /\ up /\ up' /\ good' = good
        /\ peer'.reach = peer.reach
    BY <1>2 DEF Beaconed
  <2> QED
    BY <2>1 DEF TossInv, TossedWhenSilent, Ephemeral
<1>3. ASSUME NewPolls PROVE TossInv'
  <2>1. /\ up /\ kind.cast = "ucast" /\ kind' = kind /\ good' = FALSE
        /\ silence' = IF good THEN 0 ELSE PMin(silence + 1, Unreach)
    BY <1>3 DEF NewPolls
  <2>2. ~good => silence' = silence + 1 \/ silence' >= Unreach
    BY <1>a, <2>1, SMT DEF PMin
  <2>3. ASSUME Ephemeral
        PROVE  NewUnreach <= silence' \/ silence' >= Unreach
    <3>1. ~kind.preempt
      BY <2>3 DEF Ephemeral
    <3>2. CASE NewReach # 0
      <4>1. NewUnreach = 0
        BY <3>1, <3>2 DEF NewUnreach
      <4> QED
        BY <1>a, <4>1, SMT
    <3>3. CASE NewReach = 0
      <4>1. NewUnreach = Bump(peer.unreach)
        BY <3>3 DEF NewUnreach
      <4>2. peer.reach % 2 # 1
        BY <1>a, <3>3, Shifted DEF NewReach
      <4>3. ~good /\ (peer.unreach <= silence \/ silence >= Unreach)
        BY <2>1, <2>3, <4>2 DEF TossInv
      <4>4. NewUnreach \in Nat /\ NewUnreach <= peer.unreach + 1
        BY <1>a, <4>1, SMT DEF Bump, PMin
      <4>5. silence' = silence + 1 \/ silence' >= Unreach
        BY <2>2, <4>3
      <4> QED
        BY <1>a, <4>3, <4>4, <4>5, SMT
    <3> QED
      BY <3>2, <3>3
  <2>4. CASE Asks
    <3>1. up' /\ peer'.unreach = NewUnreach
      BY <2>1, <2>4 DEF Asks
    <3>2. Ephemeral => peer'.unreach <= silence' \/ silence' >= Unreach
      BY <2>3, <3>1
    <3> QED
      BY <2>1, <3>1, <3>2 DEF TossInv, TossedWhenSilent, Ephemeral
  <2>5. CASE Tosses
    <3>1. ~up' /\ NewUnreach >= Unreach
      BY <2>5 DEF Tosses
    <3>2. NewUnreach \in Nat
      BY <1>a, SMT DEF NewUnreach, Bump, PMin
    <3>3. Ephemeral => silence' >= Unreach
      BY <1>a, <2>3, <3>1, <3>2, SMT
    <3> QED
      BY <2>1, <3>1, <3>3 DEF TossInv, TossedWhenSilent, Ephemeral
  <2> QED
    BY <1>3, <2>4, <2>5 DEF NewPolls
<1>4. ASSUME Bursts PROVE TossInv'
  BY <1>b, <1>4 DEF Bursts
<1>5. ASSUME Kissed PROVE TossInv'
  BY <1>b, <1>5 DEF Kissed, Arrives
<1>6. ASSUME Heard PROVE TossInv'
  <2>1. up /\ UNCHANGED <<kind, up, silence>>
    BY <1>6 DEF Heard, Arrives
  <2>2. /\ (peer'.reach = peer.reach /\ good' = good) \/ peer'.reach % 2 = 1
        /\ peer'.unreach = peer.unreach \/ peer'.unreach = 0
    BY <1>6 DEF Heard
  <2>3. peer'.unreach = peer.unreach \/ peer'.unreach <= silence'
    BY <1>a, <2>2, SMT
  <2>4. (good => peer.reach % 2 = 1) => (good' => peer'.reach % 2 = 1)
    BY <2>2
  <2>5. peer.unreach <= silence \/ silence >= Unreach =>
          peer'.unreach <= silence' \/ silence' >= Unreach
    BY <2>1, <2>3
  <2>6. kind' = kind /\ up'
    BY <2>1
  <2> QED
    BY <1>b, <2>1, <2>4, <2>5, <2>6
<1>7. ASSUME Clears PROVE TossInv'
  <2>1. up /\ UNCHANGED <<kind, up>> /\ good' = FALSE
    BY <1>7 DEF Clears
  <2>2. \/ peer'.unreach = peer.unreach /\ silence' = silence
        \/ peer'.unreach = 0
    BY <1>7 DEF Clears
  <2>3. \/ peer'.unreach = peer.unreach /\ silence' = silence
        \/ peer'.unreach <= silence'
    BY <1>a, <2>2, SMT
  <2> QED
    BY <1>b, <2>1, <2>3
<1>8. ASSUME Reselected PROVE TossInv'
  <2>1. /\ up /\ UNCHANGED <<kind, up, good, silence>> /\ peer'.unreach = 0
        /\ peer'.reach = peer.reach
    BY <1>8 DEF Reselected
  <2>2. peer'.unreach <= silence'
    BY <1>a, <2>1, SMT
  <2> QED
    BY <1>b, <2>1, <2>2
<1>9. ASSUME UNCHANGED vars PROVE TossInv'
  BY <1>9 DEF TossInv, TossedWhenSilent, Ephemeral, vars, history
<1> QED
  BY <1>1, <1>2, <1>3, <1>4, <1>5, <1>6, <1>7, <1>8, <1>9, StepKinds
  DEF Steps

(* transmit() tosses an ephemeral association only when Unreach new polls  *)
(* in a row went without a good packet, however often peer_clear() forgets *)
(* the reach register between them.                                        *)
THEOREM TossedWhenSilentHolds == Spec => []TossedWhenSilent
<1>1. Init => TossInv
  <2> SUFFICES ASSUME Init PROVE TossInv
    OBVIOUS
  <2>1. up = TRUE /\ silence = 0 /\ good = FALSE /\ peer.unreach = 0
    BY FirstPeer DEF Init
  <2>2. 0 <= 0
    BY SMT
  <2> QED
    BY <2>1, <2>2 DEF TossInv, TossedWhenSilent
<1>2. TossInv => TossedWhenSilent
  BY DEF TossInv
<1> QED
  BY <1>1, <1>2, TossStep, TypeCorrect, PTL DEF Spec
=============================================================================
