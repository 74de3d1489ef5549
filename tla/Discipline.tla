----------------------------- MODULE Discipline -----------------------------
(***************************************************************************)
(* The clock discipline: local_clock() and its state machine               *)
(* (ntpd/ntp_loopfilter.c), driven by clock_update() (ntpd/ntp_proto.c)    *)
(* with each offset the system process combines, and by the one-second     *)
(* timer (ntpd/ntp_timer.c), which slews, counts a pending leap second     *)
(* down and turns to orphan mode when there is no system peer.             *)
(*                                                                         *)
(* An offset is known by its size: below CLOCK_FLOOR, below the step       *)
(* threshold, above it, above the panic threshold (after the huff-n'-puff  *)
(* correction, if any).  The interval mu counts timer ticks since          *)
(* clock_epoch up to the stepout threshold.  The system clock runs by      *)
(* itself: a second of it raises SIGALRM, which is lost when the last one  *)
(* has not been served yet.  What the frequency is, and how the kernel     *)
(* loop computes it, is left out.                                          *)
(***************************************************************************)
EXTENDS Integers

CONSTANTS
  Peers,        \* the sources: records of minpoll and maxpoll
  NoPeer,       \* NULL
  MinStep,      \* clock_minstep, the stepout threshold; also freq_cnt's start
  Limit,        \* CLOCK_LIMIT (30)
  OrphWait,     \* sys_orphwait
  Month,        \* the seconds of a month
  Day,          \* DAY
  KernelLoop    \* pll_control && kern_enable: the kernel inserts leap seconds

ASSUME DisciplineConstants ==
  /\ \A p \in Peers : /\ {p.minpoll, p.maxpoll} \subseteq Nat
                      /\ p.minpoll <= p.maxpoll
  /\ NoPeer \notin Peers
  /\ {MinStep, Limit, OrphWait, Month, Day} \subseteq Nat \ {0}
  /\ Day < Month
  /\ KernelLoop \in BOOLEAN

VARIABLES
  state,        \* EVNT_NSET ... EVNT_SPIK
  mu,           \* current_time - clock_epoch, up to MinStep
  freq_cnt, allow_panic, ntp_enable,
  sys_poll, tc_counter,
  sys_peer,
  sys_stratum,  \* of a peer, the orphan stratum, or STRATUM_UNSPEC
  sys_leap,
  leapsec,
  orphwait,     \* orphwait - current_time, down to -1
  left,         \* the seconds left of the month, by the system clock
  leap_sec,     \* the leap second the file announces: none, future, past
  alarm_flag,
  exited,
  spikes,       \* history: outliers since the last update below the step
  settled,      \* history: has such an update disciplined the clock?
  stepped,      \* history: the size of the offset this action stepped by
  alone,        \* history: ticks since there was a system peer
  overdue       \* history: has the month of the pending leap second ended?

loop == <<state, mu, freq_cnt, allow_panic, sys_poll, tc_counter>>
system == <<sys_peer, sys_stratum, sys_leap, leapsec, orphwait>>
clock == <<left, leap_sec, alarm_flag>>
history == <<spikes, settled, stepped, alone, overdue>>
vars == <<loop, system, clock, ntp_enable, exited, history>>

States == {"NSET", "FSET", "FREQ", "SYNC", "SPIK"}
Outliers == {"out", "panic"}
Inliers == {"floor", "in"}

Least(a, b) == IF a < b THEN a ELSE b
Most(a, b) == IF a > b THEN a ELSE b
Clamped(p) == Least(Most(sys_poll, p.minpoll), p.maxpoll)

Init ==
  /\ state \in {"NSET", "FSET"} /\ mu = 0
  /\ freq_cnt = MinStep /\ allow_panic \in BOOLEAN /\ ntp_enable = TRUE
  /\ sys_poll \in {p.minpoll : p \in Peers} /\ tc_counter = 0
  /\ sys_peer = NoPeer /\ sys_stratum = "unspec"
  /\ sys_leap = "notinsync" /\ leapsec = 0
  /\ orphwait = OrphWait
  /\ left \in 1 .. Month /\ leap_sec \in {"none", "future"}
  /\ alarm_flag = FALSE /\ exited = FALSE
  /\ spikes = 0 /\ settled = FALSE /\ stepped = "none"
  /\ alone = 0 /\ overdue = FALSE

-----------------------------------------------------------------------------
(* An update of the clock.                                                 *)

(* The time constant: longer while the offset is within the jitter, with   *)
(* hysteresis, and left alone during the startup clamp.                    *)
Adjusted(p, poll, counter, cnt, calm) ==
  LET up == counter + poll
      down == counter - 2 * poll
  IN
  IF cnt > 0 THEN [poll |-> poll, tc |-> 0]
  ELSE IF calm
    THEN IF up <= Limit THEN [poll |-> poll, tc |-> up]
         ELSE IF poll < p.maxpoll THEN [poll |-> poll + 1, tc |-> 0]
         ELSE [poll |-> poll, tc |-> Limit]
    ELSE IF down >= -Limit THEN [poll |-> poll, tc |-> down]
         ELSE IF poll > p.minpoll THEN [poll |-> poll - 1, tc |-> 0]
         ELSE [poll |-> poll, tc |-> -Limit]

AdjustPoll(p, counter, cnt, calm) ==
  LET a == Adjusted(p, Clamped(p), counter, cnt, calm) IN
  sys_poll' = a.poll /\ tc_counter' = a.tc

(* rstclock *)
Rstclock(trans) == state' = trans /\ mu' = 0

(* The head of clock_update, which precedes local_clock and stays whatever *)
(* becomes of the update.                                                  *)
TakePeer(p) == sys_peer' = p /\ alone' = 0

(* Mutant of Ignores: SPIK does not wait for the stepout threshold.        *)
IgnoresNoStepout(size) ==
  \/ ~ntp_enable
  \/ state = "FREQ" /\ mu < MinStep
  \/ size \in Outliers /\ state = "SYNC"

(* local_clock returns 0: the loop is open, or the state machine waits.    *)
Ignores(size) ==
  \/ ~ntp_enable
  \/ state = "FREQ" /\ mu < MinStep
  \/ size \in Outliers /\ state = "SYNC"
  \/ size \in Outliers /\ state = "SPIK" /\ mu < MinStep

Panics(size) == ntp_enable /\ size = "panic" /\ ~allow_panic

UpdatePanic(p) ==
  /\ Panics("panic")
  /\ exited' = TRUE
  /\ TakePeer(p)
  /\ sys_poll' = Clamped(p)
  /\ sys_stratum' = "peer"
  /\ stepped' = "none"
  /\ UNCHANGED <<state, mu, freq_cnt, allow_panic, tc_counter, sys_leap,
                 leapsec, orphwait, clock, ntp_enable, spikes, settled,
                 overdue>>

(* Mutant of Wait: an update that is ignored restarts the interval.        *)
WaitAnew ==
  Rstclock(IF ntp_enable /\ state = "SYNC" THEN "SPIK" ELSE state)

(* The first outlier in SYNC leads to SPIK; clock_epoch stays.             *)
Wait ==
  /\ state' = IF ntp_enable /\ state = "SYNC" THEN "SPIK" ELSE state
  /\ UNCHANGED mu

UpdateIgnored(p, size) ==
  /\ ~Panics(size) /\ Ignores(size)
  /\ TakePeer(p)
  /\ sys_poll' = Clamped(p)
  /\ sys_stratum' = "peer"
  /\ Wait
  /\ spikes' = IF ~ntp_enable THEN spikes
               ELSE IF size \in Outliers THEN Least(spikes + 1, 2) ELSE 0
  /\ stepped' = "none"
  /\ UNCHANGED <<freq_cnt, allow_panic, tc_counter, sys_leap, leapsec,
                 orphwait, clock, ntp_enable, exited, settled, overdue>>

(* The clock is stepped: local_clock returns 2, and clock_update clears    *)
(* the associations and the system variables.  The system clock is now     *)
(* anywhere.                                                               *)
UpdateStep(p, size) ==
  /\ size \in Outliers /\ ~Panics(size) /\ ~Ignores(size)
  /\ TakePeer(p)
  /\ IF state = "NSET"
       THEN /\ Rstclock("FREQ")
            /\ sys_poll' = Clamped(p) /\ tc_counter' = 0
       ELSE /\ Rstclock("SYNC")
            /\ AdjustPoll(p, 0, freq_cnt, TRUE)
  /\ sys_leap' = "notinsync" /\ sys_stratum' = "unspec" /\ leapsec' = 0
  /\ left' \in 1 .. Month
  /\ leap_sec' \in IF leap_sec = "none" THEN {"none"} ELSE {"future", "past"}
  /\ spikes' = 0 /\ stepped' = size /\ overdue' = FALSE
  /\ UNCHANGED <<freq_cnt, allow_panic, orphwait, alarm_flag, ntp_enable,
                 exited, settled>>

(* The leap second clock_update schedules, from the file or by a vote of   *)
(* the survivors, or takes back, and the leap bits it leaves.              *)
Scheduled(vote) ==
  LET announced == leap_sec = "future" \/ (leap_sec = "none" /\ vote)
      disarmed == leap_sec = "none" /\ ~vote /\ leapsec > 0
  IN
  [leapsec |-> IF announced THEN left
               ELSE IF disarmed THEN 0
               ELSE leapsec,
   leap |-> IF disarmed \/ sys_leap = "notinsync" THEN "nowarning"
            ELSE sys_leap]

(* Mutant of Slew: the panic of a later update is still forgiven.          *)
SlewForgiving(p, size, calm) ==
  /\ Rstclock(IF state = "NSET" THEN "FREQ" ELSE "SYNC")
  /\ freq_cnt' = IF state # "NSET" /\ size = "floor" THEN 0 ELSE freq_cnt
  /\ AdjustPoll(p, tc_counter, freq_cnt', calm)
  /\ UNCHANGED allow_panic
  /\ settled' = (settled \/ state # "NSET")

(* The inlier branch of local_clock.  The first update of a clock whose    *)
(* frequency is not known opens the measurement of the frequency.          *)
Slew(p, size, calm) ==
  /\ Rstclock(IF state = "NSET" THEN "FREQ" ELSE "SYNC")
  /\ freq_cnt' = IF state # "NSET" /\ size = "floor" THEN 0 ELSE freq_cnt
  /\ AdjustPoll(p, tc_counter, freq_cnt', calm)
  /\ allow_panic' = (allow_panic /\ state = "NSET")
  /\ settled' = (settled \/ state # "NSET")

UpdateSlew(p, size, vote, calm) ==
  /\ size \in Inliers /\ ~Ignores(size)
  /\ TakePeer(p)
  /\ Slew(p, size, calm)
  /\ sys_stratum' = "peer"
  /\ leapsec' = Scheduled(vote).leapsec
  /\ sys_leap' = Scheduled(vote).leap
  /\ spikes' = 0 /\ stepped' = "none"
  /\ overdue' = (overdue /\ leapsec' > 0)
  /\ UNCHANGED <<orphwait, clock, ntp_enable, exited>>

Update ==
  \E p \in Peers :
    \/ UpdatePanic(p)
    \/ \E size \in Inliers \cup Outliers :
         \/ UpdateIgnored(p, size)
         \/ UpdateStep(p, size)
         \/ \E vote, calm \in BOOLEAN : UpdateSlew(p, size, vote, calm)

(* clock_select finds no survivor: there is no system peer any more.       *)
LosePeer ==
  /\ sys_peer # NoPeer
  /\ sys_peer' = NoPeer
  /\ orphwait' = OrphWait
  /\ stepped' = "none"
  /\ UNCHANGED <<loop, sys_stratum, sys_leap, leapsec, clock, ntp_enable,
                 exited, spikes, settled, alone, overdue>>

(* "enable ntp" and "disable ntp", at run time.                            *)
ConfigNtp ==
  /\ ntp_enable' = ~ntp_enable
  /\ stepped' = "none"
  /\ UNCHANGED <<loop, system, clock, exited, spikes, settled, alone,
                 overdue>>

-----------------------------------------------------------------------------
(* Time.                                                                   *)

(* A second of the system clock, and SIGALRM.                              *)
SystemSecond ==
  /\ left' = IF left = 1 THEN Month ELSE left - 1
  /\ leap_sec' = IF left = 1 /\ leap_sec = "future" THEN "past" ELSE leap_sec
  /\ alarm_flag' = TRUE
  /\ overdue' = (overdue \/ (left = 1 /\ leapsec > 0))
  /\ stepped' = "none"
  /\ UNCHANGED <<loop, system, ntp_enable, exited, spikes, settled, alone>>

(* Mutant of OrphanMode: no waiting.                                       *)
OrphanModeAtOnce == sys_peer = NoPeer

OrphanMode == sys_peer = NoPeer /\ orphwait' < 0

(* Mutant of Countdown: the leap bits stay.                                *)
CountdownKeepsBits(leap) ==
  /\ leapsec' = IF leapsec > 0 THEN leapsec - 1 ELSE 0
  /\ sys_leap' = IF leapsec' > 0 /\ leapsec' < Day THEN "addsecond" ELSE leap

(* The leap second comes nearer; at the last one the leap bits go.         *)
Countdown(leap) ==
  /\ leapsec' = IF leapsec > 0 THEN leapsec - 1 ELSE 0
  /\ sys_leap' = IF leapsec = 1 THEN "nowarning"
                 ELSE IF leapsec > 0 /\ leapsec' < Day THEN "addsecond"
                 ELSE leap

(* It is inserted by a step of -1 s, unless the kernel does that.          *)
InsertLeap ==
  IF leapsec = 1 /\ ~KernelLoop
    THEN /\ left' = IF left = Month THEN 1 ELSE left + 1
         /\ leap_sec' = IF left = Month /\ leap_sec = "past"
                          THEN "future" ELSE leap_sec
    ELSE UNCHANGED <<left, leap_sec>>

(* adj_host_clock: a second of slewing, which also wears off the startup   *)
(* clamp.                                                                  *)
AdjHostClock ==
  freq_cnt' = IF ntp_enable /\ state = "SYNC" /\ freq_cnt > 0
                THEN freq_cnt - 1 ELSE freq_cnt

(* timer(): adj_host_clock, the orphan and the leap second.                *)
Timer ==
  /\ alarm_flag /\ alarm_flag' = FALSE
  /\ mu' = Least(mu + 1, MinStep)
  /\ AdjHostClock
  /\ orphwait' = Most(orphwait - 1, -1)
  /\ alone' = IF sys_peer = NoPeer THEN Least(alone + 1, OrphWait + 1) ELSE 0
  /\ sys_stratum' = IF OrphanMode THEN "orphan" ELSE sys_stratum
  /\ Countdown(IF OrphanMode /\ sys_leap = "notinsync" THEN "nowarning"
                                                        ELSE sys_leap)
  /\ InsertLeap
  /\ stepped' = "none"
  /\ overdue' = (overdue /\ leapsec' > 0)
  /\ UNCHANGED <<state, allow_panic, sys_poll, tc_counter, sys_peer,
                 ntp_enable, exited, spikes, settled>>

Next ==
  /\ ~exited
  /\ Update \/ LosePeer \/ ConfigNtp \/ SystemSecond \/ Timer

Spec == Init /\ [][Next]_vars
FairSpec ==
  /\ Spec
  /\ WF_vars(~exited /\ Update)
  /\ WF_vars(~exited /\ SystemSecond)
  /\ WF_vars(~exited /\ Timer)

-----------------------------------------------------------------------------
TypeOK ==
  /\ state \in States /\ mu \in 0 .. MinStep /\ freq_cnt \in 0 .. MinStep
  /\ {allow_panic, ntp_enable, alarm_flag, exited, settled, overdue}
        \subseteq BOOLEAN
  /\ sys_poll \in Nat /\ tc_counter \in -Limit .. Limit
  /\ sys_peer \in Peers \cup {NoPeer}
  /\ sys_stratum \in {"peer", "orphan", "unspec"}
  /\ sys_leap \in {"nowarning", "addsecond", "notinsync"}
  /\ leapsec \in 0 .. Month /\ left \in 1 .. Month
  /\ orphwait \in -1 .. OrphWait /\ alone \in 0 .. (OrphWait + 1)
  /\ leap_sec \in {"none", "future", "past"}
  /\ spikes \in 0 .. 2 /\ stepped \in Outliers \cup {"none"}

(* A clock that has locked is stepped only by an outlier that follows      *)
(* another one with no good update between them, and only when the last    *)
(* good update is a stepout interval old, whatever the polls, the loss of  *)
(* peers and the switching of the loop in between: the SYNC and SPIK rows  *)
(* of the state table.                                                     *)
SpikeSuppressed ==
  [][stepped' # "none" /\ state \in {"SYNC", "SPIK"} =>
       spikes > 0 /\ mu = MinStep]_vars

(* "allow_panic will be set FALSE when the update is less than the step    *)
(* threshold; so, subsequent panics will exit": once an inlier has been    *)
(* used to discipline the clock, the clock is never stepped by more than   *)
(* the panic threshold.  (The inlier that opens the measurement of the     *)
(* frequency in NSET, and those ignored in FREQ, do not count.)            *)
PanicOnce == [][stepped' = "panic" => ~settled]_vars

(* "Note a leap cannot be pending unless the clock is set": a leap second  *)
(* is counted down only while the leap bits do not say unsynchronized.     *)
(* And the leap bits announce one only during the last day before it,      *)
(* unless it was missed: an update between the end of the month and the    *)
(* tick that completes the countdown schedules the leap second for the end *)
(* of the next month and leaves the bits on.  (The day has a second's      *)
(* slack: the tick of the second in which an update reads the clock may    *)
(* have been counted or not.)                                              *)
LeapBits ==
  /\ leapsec > 0 => sys_leap # "notinsync"
  /\ sys_leap = "addsecond" => 0 < leapsec /\ (leapsec <= Day \/ overdue)

(* A daemon serves time at the orphan stratum only while it has no system  *)
(* peer and has had none for sys_orphwait seconds.                         *)
OrphanAlone ==
  sys_stratum = "orphan" => sys_peer = NoPeer /\ alone > OrphWait

(* With the loop closed and updates coming in, a clock that measures its   *)
(* frequency or ignores outliers ends up in SYNC: the stepout threshold    *)
(* ends both, whatever the offsets are.                                    *)
Settles ==
  <>[]ntp_enable =>
    (state \in {"FREQ", "SPIK"} ~> state = "SYNC" \/ exited)
=============================================================================
