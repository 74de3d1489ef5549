-------------------------- MODULE DisciplineProofs --------------------------
(***************************************************************************)
(* Proofs about the clock discipline and the system variables              *)
(* (Discipline), for every set of sources, every stepout threshold, orphan *)
(* wait, length of the month and limit of the jiggle counter, with the     *)
(* kernel loop and without it.                                             *)
(***************************************************************************)
EXTENDS Discipline, TLAPS

-----------------------------------------------------------------------------
(* Types *)

(* The poll exponent stays a natural number, and the jiggle counter within *)
(* its limits.                                                             *)
LEMMA AdjustedType ==
  ASSUME NEW p \in Peers, NEW poll \in Nat, NEW counter \in -Limit .. Limit,
         NEW cnt \in Nat, NEW calm \in BOOLEAN
  PROVE  /\ Adjusted(p, poll, counter, cnt, calm).poll \in Nat
         /\ Adjusted(p, poll, counter, cnt, calm).tc \in -Limit .. Limit
<1>1. Limit \in Nat /\ p.minpoll \in Nat /\ p.maxpoll \in Nat
  BY DisciplineConstants
<1> QED
  BY <1>1 DEF Adjusted

(* What poll_update's bounds leave of sys_poll is a natural number.        *)
LEMMA ClampedType ==
  ASSUME NEW p \in Peers, TypeOK
  PROVE  Clamped(p) \in Nat
<1>1. p.minpoll \in Nat /\ p.maxpoll \in Nat
  BY DisciplineConstants
<1> QED
  BY <1>1 DEF Clamped, Least, Most, TypeOK

(* Every variable stays in its range.                                      *)
LEMMA TypeStep == TypeOK /\ [Next]_vars => TypeOK'
<1> SUFFICES ASSUME TypeOK, [Next]_vars PROVE TypeOK'
  OBVIOUS
<1> USE DisciplineConstants
<1>1. ASSUME NEW p \in Peers, UpdatePanic(p) PROVE TypeOK'
  BY <1>1, ClampedType DEF UpdatePanic, TakePeer, TypeOK, clock
<1>2. ASSUME NEW p \in Peers, NEW size \in Inliers \cup Outliers,
             UpdateIgnored(p, size)
      PROVE  TypeOK'
  <2>1. spikes' \in 0 .. 2
    BY <1>2 DEF UpdateIgnored, TypeOK, Least
  <2>2. state' \in States /\ mu' \in 0 .. MinStep
    BY <1>2 DEF UpdateIgnored, Wait, TypeOK, States
  <2> QED
    BY <1>2, <2>1, <2>2, ClampedType DEF UpdateIgnored, TakePeer, TypeOK, clock
<1>3. ASSUME NEW p \in Peers, NEW size \in Inliers \cup Outliers,
             UpdateStep(p, size)
      PROVE  TypeOK'
  <2> DEFINE after == Adjusted(p, Clamped(p), 0, freq_cnt, TRUE)
  <2>0. IF state = "NSET"
          THEN /\ state' = "FREQ" /\ mu' = 0
               /\ sys_poll' = Clamped(p) /\ tc_counter' = 0
          ELSE /\ state' = "SYNC" /\ mu' = 0
               /\ sys_poll' = after.poll /\ tc_counter' = after.tc
    BY <1>3, Zenon DEF UpdateStep, Rstclock, AdjustPoll
  <2> HIDE DEF after
  <2>1. state' \in States /\ mu' \in 0 .. MinStep
    BY <2>0 DEF States
  <2>2. sys_poll' \in Nat /\ tc_counter' \in -Limit .. Limit
    <3>1. 0 \in -Limit .. Limit /\ freq_cnt \in Nat /\ TRUE \in BOOLEAN
      BY DEF TypeOK
    <3>2. after.poll \in Nat /\ after.tc \in -Limit .. Limit
      BY <3>1, ClampedType, AdjustedType, Zenon DEF after
    <3> QED
      BY <2>0, <3>1, <3>2, ClampedType
  <2>3. /\ leap_sec' \in {"none", "future", "past"}
        /\ stepped' \in Outliers \cup {"none"}
    BY <1>3 DEF UpdateStep, TypeOK
  <2>4. /\ sys_peer' = p /\ alone' = 0
        /\ sys_leap' = "notinsync" /\ sys_stratum' = "unspec" /\ leapsec' = 0
        /\ left' \in 1 .. Month /\ spikes' = 0 /\ overdue' = FALSE
        /\ UNCHANGED <<freq_cnt, allow_panic, orphwait, alarm_flag,
                       ntp_enable, exited, settled>>
    BY <1>3, Zenon DEF UpdateStep, TakePeer
  <2>5. {allow_panic, ntp_enable, alarm_flag, exited, settled, overdue}'
           \subseteq BOOLEAN
    BY <2>4, Zenon DEF TypeOK
  <2>6. /\ freq_cnt' \in 0 .. MinStep /\ orphwait' \in -1 .. OrphWait
        /\ alone' \in 0 .. (OrphWait + 1) /\ leapsec' \in 0 .. Month
        /\ spikes' \in 0 .. 2
    BY <2>4 DEF TypeOK
  <2> QED
    BY <2>1, <2>2, <2>3, <2>4, <2>5, <2>6 DEF TypeOK
<1>4. ASSUME NEW p \in Peers, NEW size \in Inliers \cup Outliers,
             NEW vote \in BOOLEAN, NEW calm \in BOOLEAN,
             UpdateSlew(p, size, vote, calm)
      PROVE  TypeOK'
  <2>1. state' \in States /\ mu' \in 0 .. MinStep /\ freq_cnt' \in 0 .. MinStep
    BY <1>4 DEF UpdateSlew, Slew, Rstclock, States, TypeOK
  <2>2. sys_poll' \in Nat /\ tc_counter' \in -Limit .. Limit
    <3>1. freq_cnt' \in Nat /\ tc_counter \in -Limit .. Limit
      BY <2>1 DEF TypeOK
    <3> QED
      BY <1>4, <3>1, ClampedType, AdjustedType, Zenon DEF UpdateSlew, Slew, AdjustPoll
  <2>3. leapsec' \in 0 .. Month
    BY <1>4 DEF UpdateSlew, Scheduled, TypeOK
  <2>4. sys_leap' \in {"nowarning", "addsecond", "notinsync"}
    BY <1>4 DEF UpdateSlew, Scheduled, TypeOK
  <2>5. {allow_panic, settled, overdue}' \subseteq BOOLEAN
    BY <1>4, Zenon DEF UpdateSlew, Slew, TypeOK
  <2> QED
    BY <1>4, <2>1, <2>2, <2>3, <2>4, <2>5
    DEF UpdateSlew, TakePeer, TypeOK, clock
<1>5. CASE LosePeer
  BY <1>5 DEF LosePeer, TypeOK, loop, clock
<1>6. CASE ConfigNtp
  BY <1>6 DEF ConfigNtp, TypeOK, loop, system, clock
<1>7. CASE SystemSecond
  BY <1>7 DEF SystemSecond, TypeOK, loop, system
<1>8. CASE Timer
  <2>1. /\ mu' \in 0 .. MinStep /\ freq_cnt' \in 0 .. MinStep
        /\ orphwait' \in -1 .. OrphWait /\ alone' \in 0 .. (OrphWait + 1)
    BY <1>8 DEF Timer, AdjHostClock, TypeOK, Least, Most
  <2>2. leapsec' \in 0 .. Month /\ left' \in 1 .. Month
    BY <1>8 DEF Timer, Countdown, InsertLeap, TypeOK
  <2>3. /\ sys_leap' \in {"nowarning", "addsecond", "notinsync"}
        /\ sys_stratum' \in {"peer", "orphan", "unspec"}
        /\ leap_sec' \in {"none", "future", "past"}
    BY <1>8 DEF Timer, Countdown, InsertLeap, TypeOK
  <2> QED
    BY <1>8, <2>1, <2>2, <2>3, Zenon DEF Timer, TypeOK
<1>9. CASE UNCHANGED vars
  BY <1>9 DEF vars, TypeOK, loop, system, clock, history
<1> QED
  BY <1>1, <1>2, <1>3, <1>4, <1>5, <1>6, <1>7, <1>8, <1>9
  DEF Next, Update

(* Every variable of the discipline and of the system process stays in its *)
(* range, whatever the updates, losses and lost ticks.                     *)
THEOREM TypeCorrect == Spec => []TypeOK
<1>1. Init => TypeOK
  <2> SUFFICES ASSUME Init PROVE TypeOK
    OBVIOUS
  <2>1. {allow_panic, ntp_enable, alarm_flag, exited, settled, overdue}
           \subseteq BOOLEAN
    BY Zenon DEF Init
  <2>2. sys_poll \in Nat
    BY DisciplineConstants DEF Init
  <2> QED
    BY <2>1, <2>2, DisciplineConstants DEF Init, TypeOK, States
<1> QED
  BY <1>1, TypeStep, PTL DEF Spec

-----------------------------------------------------------------------------
(* The state machine of local_clock *)

(* An outlier led to SPIK and no good update came since; a clock that was  *)
(* disciplined forgives no panic.                                          *)
LoopInv ==
  /\ state = "SPIK" => spikes > 0
  /\ settled => ~allow_panic

(* Every step, clock_update() and the restart of the discipline among      *)
(* them, keeps the invariant of the state machine of local_clock().        *)
LEMMA LoopStep == TypeOK /\ LoopInv /\ [Next]_vars => LoopInv'
<1> SUFFICES ASSUME TypeOK, LoopInv, [Next]_vars PROVE LoopInv'
  OBVIOUS
<1>1. ASSUME NEW p \in Peers, UpdatePanic(p) PROVE LoopInv'
  BY <1>1 DEF UpdatePanic, LoopInv
<1>2. ASSUME NEW p \in Peers, NEW size \in Inliers \cup Outliers,
             UpdateIgnored(p, size)
      PROVE  LoopInv'
  <2>1. state' = "SPIK" => spikes' > 0
    BY <1>2 DEF UpdateIgnored, Ignores, Wait, Least, Outliers, LoopInv, TypeOK
  <2>2. settled' => ~allow_panic'
    BY <1>2 DEF UpdateIgnored, LoopInv
  <2> QED
    BY <2>1, <2>2 DEF LoopInv
<1>3. ASSUME NEW p \in Peers, NEW size \in Inliers \cup Outliers,
             UpdateStep(p, size)
      PROVE  LoopInv'
  <2>1. state' # "SPIK" /\ UNCHANGED <<settled, allow_panic>>
    BY <1>3, Zenon DEF UpdateStep, Rstclock
  <2> QED
    BY <2>1 DEF LoopInv
<1>4. ASSUME NEW p \in Peers, NEW size \in Inliers \cup Outliers,
             NEW vote \in BOOLEAN, NEW calm \in BOOLEAN,
             UpdateSlew(p, size, vote, calm)
      PROVE  LoopInv'
  <2>1. state' # "SPIK"
    BY <1>4 DEF UpdateSlew, Slew, Rstclock
  <2>2. settled' => ~allow_panic'
    BY <1>4, Zenon DEF UpdateSlew, Slew, LoopInv
  <2> QED
    BY <2>1, <2>2 DEF LoopInv
<1>5. CASE LosePeer \/ ConfigNtp \/ SystemSecond \/ Timer
  BY <1>5 DEF LosePeer, ConfigNtp, SystemSecond, Timer, LoopInv, loop
<1>6. CASE UNCHANGED vars
  BY <1>6 DEF vars, LoopInv, loop, history
<1> QED
  BY <1>1, <1>2, <1>3, <1>4, <1>5, <1>6 DEF Next, Update

(* What a step of the clock requires: the state machine has not locked, or *)
(* has waited in SPIK for the stepout threshold, and a panic is forgiven.  *)
LEMMA StepRequires ==
  ASSUME TypeOK, LoopInv, Next, stepped' # "none"
  PROVE  /\ state \in {"SYNC", "SPIK"} => spikes > 0 /\ mu = MinStep
         /\ stepped' = "panic" => ~settled
<1>1. PICK p \in Peers, size \in Inliers \cup Outliers : UpdateStep(p, size)
  BY Zenon DEF Next, Update, UpdatePanic, UpdateIgnored, UpdateSlew, LosePeer,
     ConfigNtp, SystemSecond, Timer
<1>2. size \in Outliers /\ ~Panics(size) /\ ~Ignores(size) /\ stepped' = size
  BY <1>1, Zenon DEF UpdateStep
<1>3. ~(state = "SYNC") /\ ~(state = "SPIK" /\ mu < MinStep)
  BY <1>2, Zenon DEF Ignores
<1>4. state = "SPIK" => spikes > 0 /\ mu = MinStep
  BY <1>3, DisciplineConstants DEF LoopInv, TypeOK
<1>5. stepped' = "panic" => ~settled
  BY <1>2, Zenon DEF Panics, Ignores, LoopInv
<1> QED
  BY <1>3, <1>4, <1>5

(* The invariant of the state machine of local_clock() holds throughout    *)
(* every behaviour.                                                        *)
LEMMA LoopInvariant == Spec => [](TypeOK /\ LoopInv)
<1>1. Init => LoopInv
  BY DEF Init, LoopInv
<1> QED
  BY <1>1, LoopStep, TypeCorrect, PTL DEF Spec

(* A clock that has locked is stepped only by an outlier that follows      *)
(* another one with no good update between them, when the last good update *)
(* is a stepout interval old.                                              *)
THEOREM SpikesAreSuppressed == Spec => SpikeSuppressed
<1>1. TypeOK /\ LoopInv /\ [Next]_vars =>
        [stepped' # "none" /\ state \in {"SYNC", "SPIK"} =>
           spikes > 0 /\ mu = MinStep]_vars
  BY StepRequires
<1> QED
  BY <1>1, LoopInvariant, PTL DEF Spec, SpikeSuppressed

(* After an update has disciplined the clock no panic is forgiven.         *)
THEOREM NoSecondPanic == Spec => PanicOnce
<1>1. TypeOK /\ LoopInv /\ [Next]_vars =>
        [stepped' = "panic" => ~settled]_vars
  BY StepRequires
<1> QED
  BY <1>1, LoopInvariant, PTL DEF Spec, PanicOnce

-----------------------------------------------------------------------------
(* The leap second *)

(* LeapBits is not inductive: it takes the relation between the countdown, *)
(* which the timer keeps, and the month, which runs by itself.  Until the  *)
(* month is over the countdown is at most one tick ahead of it, and not at *)
(* all while a tick is pending; a tick that is lost only makes it late.    *)
LeapInv ==
  /\ LeapBits
  /\ leapsec > 0 /\ ~overdue =>
       left <= IF alarm_flag THEN leapsec ELSE leapsec + 1
  /\ sys_leap = "addsecond" /\ ~overdue => left <= Day

(* Every step keeps the relation between sys_leap, the countdown leapsec   *)
(* of the timer and the end of the month.                                  *)
LEMMA LeapStep == TypeOK /\ LeapInv /\ [Next]_vars => LeapInv'
<1> SUFFICES ASSUME TypeOK, LeapInv, [Next]_vars PROVE LeapInv'
  OBVIOUS
<1> USE DisciplineConstants
<1>1. ASSUME NEW p \in Peers, UpdatePanic(p) PROVE LeapInv'
  BY <1>1 DEF UpdatePanic, LeapInv, LeapBits, clock
<1>2. ASSUME NEW p \in Peers, NEW size \in Inliers \cup Outliers,
             UpdateIgnored(p, size)
      PROVE  LeapInv'
  BY <1>2 DEF UpdateIgnored, LeapInv, LeapBits, clock
<1>3. ASSUME NEW p \in Peers, NEW size \in Inliers \cup Outliers,
             UpdateStep(p, size)
      PROVE  LeapInv'
  <2>1. sys_leap' = "notinsync" /\ leapsec' = 0
    BY <1>3, Zenon DEF UpdateStep
  <2> QED
    BY <2>1 DEF LeapInv, LeapBits
<1>4. ASSUME NEW p \in Peers, NEW size \in Inliers \cup Outliers,
             NEW vote \in BOOLEAN, NEW calm \in BOOLEAN,
             UpdateSlew(p, size, vote, calm)
      PROVE  LeapInv'
  <2>1. /\ leapsec' = Scheduled(vote).leapsec /\ sys_leap' = Scheduled(vote).leap
        /\ overdue' = (overdue /\ leapsec' > 0)
        /\ UNCHANGED <<left, alarm_flag>>
    BY <1>4, Zenon DEF UpdateSlew, clock
  <2>2. /\ sys_leap' # "notinsync"
        /\ \/ leapsec' = left
           \/ leapsec' = 0 /\ sys_leap' = "nowarning"
           \/ leapsec' = leapsec
        /\ sys_leap' = "addsecond" => sys_leap = "addsecond"
    BY <2>1 DEF Scheduled, TypeOK
  <2>3. CASE leapsec' = left
    BY <2>1, <2>2, <2>3 DEF LeapInv, LeapBits, TypeOK
  <2>4. CASE leapsec' = 0 /\ sys_leap' = "nowarning"
    BY <2>4 DEF LeapInv, LeapBits
  <2>5. CASE leapsec' = leapsec
    BY <2>1, <2>2, <2>5 DEF LeapInv, LeapBits, TypeOK
  <2> QED
    BY <2>2, <2>3, <2>4, <2>5
<1>5. CASE LosePeer
  BY <1>5 DEF LosePeer, LeapInv, LeapBits, clock
<1>6. CASE ConfigNtp
  BY <1>6 DEF ConfigNtp, LeapInv, LeapBits, clock, system
<1>7. CASE SystemSecond
  <2>1. /\ UNCHANGED <<leapsec, sys_leap>> /\ alarm_flag' = TRUE
        /\ left' = IF left = 1 THEN Month ELSE left - 1
        /\ overdue' = (overdue \/ (left = 1 /\ leapsec > 0))
    BY <1>7, Zenon DEF SystemSecond, system
  <2>2. ~overdue' => ~overdue /\ ~(left = 1 /\ leapsec > 0)
    BY <2>1, Zenon
  <2>3. overdue => overdue'
    BY <2>1, Zenon
  <2>4. LeapBits'
    BY <2>1, <2>3 DEF LeapInv, LeapBits
  <2>5. ASSUME ~overdue', leapsec' > 0 \/ sys_leap' = "addsecond"
        PROVE  left' = left - 1
    BY <2>1, <2>2, <2>5 DEF LeapInv, LeapBits
  <2> QED
    BY <2>1, <2>2, <2>4, <2>5 DEF LeapInv, LeapBits, TypeOK
<1>8. CASE Timer
  <2> DEFINE leap == IF OrphanMode /\ sys_leap = "notinsync" THEN "nowarning"
                                                            ELSE sys_leap
  <2>1. /\ alarm_flag /\ alarm_flag' = FALSE
        /\ Countdown(leap) /\ InsertLeap
        /\ overdue' = (overdue /\ leapsec' > 0)
    BY <1>8, Zenon DEF Timer
  <2>2. leap = sys_leap \/ (leap = "nowarning" /\ sys_leap = "notinsync")
    OBVIOUS
  <2> HIDE DEF leap
  <2>3. CASE leapsec > 1
    <3>1. leapsec' = leapsec - 1 /\ left' = left
      BY <2>1, <2>3 DEF Countdown, InsertLeap, TypeOK
    <3>2. sys_leap' = IF leapsec' < Day THEN "addsecond" ELSE leap
      BY <2>1, <2>3 DEF Countdown, TypeOK
    <3> QED
      BY <2>1, <2>2, <2>3, <3>1, <3>2 DEF LeapInv, LeapBits, TypeOK
  <2>4. CASE leapsec = 1
    <3>1. leapsec' = 0 /\ sys_leap' = "nowarning"
      BY <2>1, <2>4 DEF Countdown
    <3> QED
      BY <3>1 DEF LeapInv, LeapBits
  <2>5. CASE leapsec = 0
    <3>1. leapsec' = 0 /\ sys_leap' = leap
      BY <2>1, <2>5 DEF Countdown
    <3> QED
      BY <2>2, <2>5, <3>1 DEF LeapInv, LeapBits
  <2> QED
    BY <2>3, <2>4, <2>5 DEF TypeOK
<1>9. CASE UNCHANGED vars
  BY <1>9 DEF vars, LeapInv, LeapBits, system, clock, history
<1> QED
  BY <1>1, <1>2, <1>3, <1>4, <1>5, <1>6, <1>7, <1>8, <1>9 DEF Next, Update

(* A leap second is pending only while the clock is set, and announced     *)
(* only on its last day, unless its month has gone by.                     *)
THEOREM LeapBitsHold == Spec => []LeapBits
<1>1. Init => LeapInv
  BY DEF Init, LeapInv, LeapBits
<1>2. LeapInv => LeapBits
  BY DEF LeapInv
<1> QED
  BY <1>1, <1>2, LeapStep, TypeCorrect, PTL DEF Spec

-----------------------------------------------------------------------------
(* Orphan mode *)

(* The wait that the timer counts down and the time without a system peer  *)
(* add up.                                                                 *)
OrphanInv ==
  /\ OrphanAlone
  /\ sys_peer # NoPeer => alone = 0
  /\ sys_peer = NoPeer => alone + orphwait >= OrphWait

(* Every step keeps the sum of orphwait, which timer() counts down, and of *)
(* the time without a system peer.                                         *)
LEMMA OrphanStep == TypeOK /\ OrphanInv /\ [Next]_vars => OrphanInv'
<1> SUFFICES ASSUME TypeOK, OrphanInv, [Next]_vars PROVE OrphanInv'
  OBVIOUS
<1> USE DisciplineConstants
<1>1. ASSUME NEW p \in Peers,
             \/ UpdatePanic(p)
             \/ \E size \in Inliers \cup Outliers :
                  \/ UpdateIgnored(p, size)
                  \/ UpdateStep(p, size)
                  \/ \E vote, calm \in BOOLEAN : UpdateSlew(p, size, vote, calm)
      PROVE  OrphanInv'
  <2>1. sys_peer' = p /\ alone' = 0 /\ sys_stratum' \in {"peer", "unspec"}
    BY <1>1, Zenon DEF UpdatePanic, UpdateIgnored, UpdateStep, UpdateSlew, TakePeer
  <2>2. p # NoPeer
    OBVIOUS
  <2> QED
    BY <2>1, <2>2 DEF OrphanInv, OrphanAlone
<1>2. CASE LosePeer
  BY <1>2 DEF LosePeer, OrphanInv, OrphanAlone, TypeOK
<1>3. CASE ConfigNtp \/ SystemSecond
  BY <1>3 DEF ConfigNtp, SystemSecond, OrphanInv, OrphanAlone, system
<1>4. CASE Timer
  <2>1. /\ orphwait' = Most(orphwait - 1, -1) /\ UNCHANGED sys_peer
        /\ alone' = IF sys_peer = NoPeer THEN Least(alone + 1, OrphWait + 1) ELSE 0
        /\ sys_stratum' = IF OrphanMode THEN "orphan" ELSE sys_stratum
    BY <1>4, Zenon DEF Timer
  <2> QED
    BY <2>1 DEF OrphanInv, OrphanAlone, OrphanMode, Most, Least, TypeOK
<1>5. CASE UNCHANGED vars
  BY <1>5 DEF vars, OrphanInv, OrphanAlone, system, history
<1> QED
  BY <1>1, <1>2, <1>3, <1>4, <1>5 DEF Next, Update

(* The daemon serves time at the orphan stratum only after sys_orphwait    *)
(* seconds without a system peer.                                          *)
THEOREM OrphansAreAlone == Spec => []OrphanAlone
<1>1. Init => OrphanInv
  BY DisciplineConstants DEF Init, OrphanInv, OrphanAlone
<1>2. OrphanInv => OrphanAlone
  BY DEF OrphanInv
<1> QED
  BY <1>1, <1>2, OrphanStep, TypeCorrect, PTL DEF Spec
=============================================================================
