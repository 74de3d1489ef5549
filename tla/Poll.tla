-------------------------------- MODULE Poll --------------------------------
(***************************************************************************)
(* The poll process of one association: when transmit() of                 *)
(* ntpd/ntp_proto.c sends, how poll_update() schedules the next poll, and  *)
(* how the receive process, the one-second timer and protocol restarts     *)
(* interfere with it.                                                      *)
(*                                                                         *)
(* Dates are kept relative to current_time: next is nextdate -             *)
(* current_time, out is current_time - outdate.  What a packet or the      *)
(* system process decides elsewhere (is the packet good, is the peer       *)
(* selected, is the clock stepped) is a choice of the environment.         *)
(***************************************************************************)
EXTENDS Integers

CONSTANTS
  Kinds,        \* the associations examined: cast_flags, hmode, flags
  MinPoll,      \* the minpoll an association is configured with
  MaxPoll,      \* its maxpoll
  PollCap,      \* bound: the largest poll exponent in a packet or sys_poll
  Shift,        \* NTP_SHIFT (8)
  ReachBits,    \* the width of peer->reach (8)
  Unreach,      \* NTP_UNREACH (10)
  Retry,        \* NTP_RETRY (3)
  IBurst,       \* NTP_IBURST (6)
  MinPkt,       \* ntp_minpkt (2 s)
  Calm,         \* the pause between packets that ends a postponement
  Beacon,       \* sys_beacon (7200)
  TTLMax,       \* sys_ttlmax
  MaxOwed,      \* bound: requests that may still be answered
  MaxRestarts   \* bound: how often the association is cleared

Casts == {"ucast", "bcast", "acast", "pool"}
HostModes == {"client", "active", "passive", "bclient", "broadcast"}
Polls == MinPoll .. PollCap

ASSUME KindsAssumption ==
  Kinds \subseteq
    [cast : Casts, hmode : HostModes, config : BOOLEAN, preempt : BOOLEAN,
     iburst : BOOLEAN, burst : BOOLEAN, xleave : BOOLEAN]
ASSUME PollConstants ==
  /\ {MinPoll, MaxPoll, PollCap, Shift, ReachBits, Unreach, Retry, IBurst,
      MinPkt, Calm, Beacon, TTLMax, MaxOwed, MaxRestarts} \subseteq Nat
  /\ 0 < MinPoll /\ MinPoll <= MaxPoll /\ MaxPoll <= PollCap
  /\ 0 < Shift /\ 0 < ReachBits /\ 0 < Retry /\ 0 < IBurst /\ 0 < MinPkt
(* A poll takes 4 s or more, the reach register has two bits or more; the  *)
(* rest is arithmetic.                                                     *)
ASSUME PollPowers ==
  /\ 4 <= 2^MinPoll
  /\ \A e \in 0 .. PollCap : 2^e \in Nat \ {0}
  /\ \A d, e \in 0 .. PollCap : d <= e => 2^d <= 2^e
  /\ 2^ReachBits \in Nat \ {0} /\ 2^ReachBits % 4 = 0

VARIABLES
  kind,      \* cast_flags, hmode and the flags FLAG_CONFIG ... FLAG_XLEAVE
  up,        \* the association is mobilized
  peer,      \* struct peer: the polling state
  sample,    \* peer->epoch > sys_epoch: clock_update() has not seen it yet
  owed,      \* a client's requests that the server may still answer
  restarts,  \* how often the association has been cleared
  gap,       \* history: seconds since the last packet was sent
  cleared,   \* history: has the association been cleared since then?
  headway,   \* history: the least gap between two packets so far, not
             \* counting the first packet after the association is cleared
  unheard,   \* history: the same for the packets sent while nothing had
             \* arrived since the last new poll
  quiet,     \* history: seconds since the last packet arrived
  heard,     \* history: has a packet arrived since the last new poll?
  good,      \* history: has a good packet arrived since the last new poll,
             \* and the association not been cleared after it?
  silence    \* history: new polls in a row without such a packet

history == <<gap, cleared, headway, unheard, quiet, heard, good, silence>>
vars == <<kind, up, peer, sample, owed, restarts, history>>

PMin(a, b) == IF a < b THEN a ELSE b
PMax(a, b) == IF a > b THEN a ELSE b

(* The interval of one poll at exponent h: 2^h seconds, lengthened by a    *)
(* random fraction of at most 255/4096.                                    *)
Interval(h) == {2^h + j : j \in 0 .. ((2^h * 255) \div 4096)}
Horizon == 2 * 2^PollCap
MinGap == PMax(MinPkt, 2^MinPoll)

(* unreach counts without end; past this no test tells its values apart.   *)
UnreachCap == PMax(Unreach, Beacon + 1)
Bump(n) == PMin(n + 1, UnreachCap)

(* peer_clear: the cleared region of struct peer, and a first poll soon.   *)
FirstPoll(p) ==
  IF kind.hmode = "passive" THEN {MinPkt} ELSE 0 .. (p.minpoll - 1)

PeerClear(p) ==
  {[p EXCEPT !.ppoll = MaxPoll, !.hpoll = p.minpoll, !.reach = 0,
             !.burst = 0, !.retry = 0, !.out = 0, !.next = n] :
     n \in FirstPoll(p)}

(* Mutants of Earliest: no guard time; no throttle.                        *)
EarliestThrottle(p) == PMax(p.throttle - (Shift - 1) * 2^p.minpoll, 0)
EarliestGuard(p) == MinPkt

(* poll_update: how soon the throttle and the guard time let it send.      *)
Earliest(p) == PMax(p.throttle - (Shift - 1) * 2^p.minpoll, MinPkt)

Exponent(p) ==
  IF p.retry > 0 THEN p.minpoll
  ELSE IF p.reach = 0 THEN p.hpoll
  ELSE PMin(p.ppoll, p.hpoll)

(* Mutant of Clamp: the lower bound is forgotten.                          *)
ClampAbove(p, mpoll) == PMin(MaxPoll, mpoll)

Clamp(p, mpoll) == PMax(PMin(MaxPoll, mpoll), p.minpoll)

Headroom(p) == IF p.throttle > 2^p.minpoll THEN MinPkt ELSE 0

(* Mutant of PollUpdate: the interval starts now, not at the last poll.    *)
PollUpdateFromNow(p, mpoll) ==
  LET q == [p EXCEPT !.hpoll = Clamp(p, mpoll)] IN
  IF q.burst > 0
    THEN {[q EXCEPT !.next = IF @ > 0 THEN @ ELSE Earliest(q)]}
    ELSE {[q EXCEPT !.next = PMax(i, Earliest(q)) + Headroom(q)] :
            i \in Interval(Exponent(q))}

(* The associations that poll_update(p, mpoll) may leave behind.           *)
PollUpdate(p, mpoll) ==
  LET q == [p EXCEPT !.hpoll = Clamp(p, mpoll)] IN
  IF q.burst > 0
    THEN {[q EXCEPT !.next = IF @ > 0 THEN @ ELSE Earliest(q)]}
    ELSE {[q EXCEPT !.next = PMax(i - q.out, Earliest(q)) + Headroom(q)] :
            i \in Interval(Exponent(q))}

(* peer_xmit, pool_xmit: what a packet that is really sent costs.          *)
Charge(p, sent) ==
  IF sent THEN [p EXCEPT !.throttle = @ + 2^p.minpoll - 2] ELSE p

-----------------------------------------------------------------------------
(* timer(): the second that goes by before the association is looked at.   *)
Second(p) ==
  [p EXCEPT !.throttle = PMax(@ - 1, 0), !.next = @ - 1,
            !.out = PMin(@ + 1, Horizon)]

(* What a second in which a packet is sent, or none, leaves behind.        *)
Sent(sent) ==
  /\ owed' = IF sent /\ kind.hmode = "client" THEN PMin(owed + 1, MaxOwed)
             ELSE owed
  /\ gap' = IF sent THEN 0 ELSE PMin(gap + 1, MinGap)
  /\ headway' = IF sent /\ ~cleared THEN PMin(headway, gap + 1) ELSE headway
  /\ unheard' = IF sent /\ ~cleared /\ ~heard THEN PMin(unheard, gap + 1)
                ELSE unheard
  /\ cleared' = (cleared /\ ~sent)
  /\ quiet' = PMin(quiet + 1, Calm)

(* The timer finds the next poll still ahead.                              *)
TimerIdle ==
  /\ up
  /\ peer.next > 1
  /\ peer' = Second(peer)
  /\ Sent(FALSE)
  /\ UNCHANGED <<kind, up, sample, restarts, heard, good, silence>>

Due == up /\ peer.next <= 1

(* transmit(): broadcast, manycast and pool associations.                  *)
TransmitBroadcast ==
  /\ Due /\ kind.cast = "bcast"
  /\ \E sent \in BOOLEAN :   \* sys_leap # LEAP_NOTINSYNC
       /\ peer' \in PollUpdate(Charge([Second(peer) EXCEPT !.out = 0], sent),
                               peer.hpoll)
       /\ Sent(sent)
  /\ UNCHANGED <<kind, up, sample, restarts, heard, good, silence>>

TransmitManycast ==
  /\ Due /\ kind.cast = "acast"
  /\ \E wanted \in BOOLEAN :   \* too few survivors or associations
       LET p == [Second(peer) EXCEPT !.out = 0]
           beacon == p.unreach > Beacon
           q == IF beacon THEN [p EXCEPT !.unreach = 0, !.ttl = 0]
                ELSE IF wanted THEN [p EXCEPT !.ttl = PMin(@ + 1, TTLMax)]
                ELSE p IN
         /\ peer' \in PollUpdate([Charge(q, beacon \/ wanted)
                                    EXCEPT !.unreach = Bump(@)], p.hpoll)
         /\ Sent(beacon \/ wanted)
  /\ UNCHANGED <<kind, up, sample, restarts, heard, good, silence>>

TransmitPool ==
  /\ Due /\ kind.cast = "pool"
  /\ \E sent \in BOOLEAN :   \* room for associations, and an address
       /\ peer' \in PollUpdate(Charge([Second(peer) EXCEPT !.out = 0], sent),
                               peer.hpoll)
       /\ Sent(sent)
  /\ UNCHANGED <<kind, up, sample, restarts, heard, good, silence>>

(* The end of transmit() for unicast associations: hpoll is its local.     *)
FinishTransmit(p, hpoll) ==
  \E sent \in IF kind.hmode = "bclient" THEN {FALSE} ELSE BOOLEAN :
    /\ peer' \in PollUpdate(Charge([p EXCEPT !.retry = PMax(@ - 1, 0)], sent),
                            hpoll)
    /\ Sent(sent)

(* Mutants of NewPoll: the burst does not wait for the reply; unreach is   *)
(* not reset when the peer is reachable; unreach is always reset.          *)
NewPollBursts(p, fit) ==
  [p EXCEPT !.out = 0, !.reach = (@ * 2) % 2^ReachBits,
            !.unreach = Bump(@), !.burst = IF kind.iburst THEN IBurst ELSE 0]
NewPollCounts(p, fit) ==
  [p EXCEPT !.out = 0, !.reach = (@ * 2) % 2^ReachBits, !.unreach = Bump(@)]
NewPollForgets(p, fit) ==
  [p EXCEPT !.out = 0, !.reach = (@ * 2) % 2^ReachBits, !.unreach = 0]

(* A new poll: the reachability register, the retry counter and unreach.   *)
NewPoll(p, fit) ==
  LET reach == (p.reach * 2) % 2^ReachBits
      again == IF reach = 0 THEN kind.iburst ELSE kind.burst /\ fit IN
  [p EXCEPT !.out = 0,
            !.reach = reach,
            !.unreach = IF reach # 0 /\ ~kind.preempt THEN 0 ELSE Bump(@),
            !.retry = IF again /\ @ = 0 THEN Retry ELSE @]

Ephemeral == ~kind.config /\ ~kind.preempt

TransmitPoll ==
  /\ Due /\ kind.cast = "ucast" /\ peer.burst = 0
  /\ \E fit, surplus \in BOOLEAN, sysPoll \in Polls :
       LET p == NewPoll(Second(peer), fit)
           expired == p.unreach >= Unreach
           tossed == expired /\ (Ephemeral \/ (kind.preempt /\ surplus))
           base == IF p.reach = 0 THEN p.hpoll ELSE sysPoll IN
         \/ /\ tossed
            /\ up' = FALSE
            /\ peer' \in PeerClear(p)
            /\ Sent(FALSE)
         \/ /\ ~tossed
            /\ up' = up
            /\ FinishTransmit(p, IF expired THEN base + 1 ELSE base)
  /\ heard' = FALSE /\ good' = FALSE
  /\ silence' = IF good THEN 0 ELSE PMin(silence + 1, Unreach)
  /\ UNCHANGED <<kind, sample, restarts>>

TransmitBurst ==
  /\ Due /\ kind.cast = "ucast" /\ peer.burst > 0
  /\ FinishTransmit([Second(peer) EXCEPT !.burst = @ - 1], peer.hpoll)
  /\ UNCHANGED <<kind, up, sample, restarts, heard, good, silence>>

-----------------------------------------------------------------------------
(* A packet the other end sends arrives.  A server only answers requests,  *)
(* however late.                                                           *)
Arrives ==
  /\ up /\ kind.cast = "ucast"
  /\ kind.hmode = "client" => owed > 0
  /\ owed' = PMax(owed - 1, 0)
  /\ quiet' = 0
  /\ UNCHANGED <<kind, up, gap, headway, unheard>>

(* receive(): the poll exponent of the packet, and a kiss-o'-death.        *)
ReceiveKoD ==
  /\ Arrives /\ kind.hmode = "client"
  /\ \E pkt \in Polls :
       LET m == PMax(peer.minpoll, pkt) IN
       peer' \in PollUpdate([peer EXCEPT !.ppoll = m, !.minpoll = m,
                                         !.burst = 0, !.retry = 0,
                                         !.throttle = (Shift + 1) * 2^m], pkt)
  /\ UNCHANGED <<sample, restarts, cleared, heard, good, silence>>

(* Mutant of StartBurst: the retry that armed the burst stays armed.       *)
StartBurstArmed(p) ==
  IF p.retry = 0 THEN p ELSE [p EXCEPT !.burst = IBurst - 1, !.next = 0]

(* process_packet(): an armed burst starts, then the headway is computed.  *)
StartBurst(p) ==
  LET n == IF p.reach # 0
             THEN PMin(2^(p.hpoll - p.minpoll), Shift) - 1
             ELSE IBurst - 1 IN
  IF p.retry = 0 THEN p
  ELSE [p EXCEPT !.retry = 0, !.burst = n, !.next = IF n > 0 THEN 0 ELSE @]

Process(pkt) ==
  LET p == StartBurst([peer EXCEPT !.ppoll = PMax(peer.minpoll, pkt)])
  IN  PollUpdate(p, p.hpoll)

(* The end of receive(): interleaved hosts move apart.                     *)
Phase(p) ==
  IF ~kind.xleave THEN p
  ELSE [p EXCEPT !.next = IF 2 * @ < 2^PMin(p.ppoll, p.hpoll) THEN @ + 1
                          ELSE @ - 1]

(* A packet that fails a test of receive() or process_packet().            *)
ReceiveBad ==
  /\ Arrives
  /\ \E pkt \in Polls : \E p \in Process(pkt) : peer' = Phase(p)
  /\ heard' = TRUE
  /\ UNCHANGED <<sample, restarts, cleared, good, silence>>

(* A good packet: the peer is reachable.  clock_select() may find it among *)
(* the survivors, and clock_update() may then poll it at sys_poll.         *)
ReceiveGood ==
  /\ Arrives
  /\ \E pkt, sysPoll \in Polls, survivor, chosen \in BOOLEAN :
       \E p \in Process(pkt) :
         LET q == [p EXCEPT !.reach = IF @ % 2 = 0 THEN @ + 1 ELSE @,
                            !.unreach = IF survivor THEN 0 ELSE @] IN
         \E r \in IF chosen THEN PollUpdate(q, sysPoll) ELSE {q} :
           /\ peer' = Phase(r)
           /\ sample' = ~chosen
  /\ heard' = TRUE /\ good' = TRUE
  /\ UNCHANGED <<restarts, cleared, silence>>

(* A good packet after which the clock is stepped: clear_all().            *)
ReceiveStep ==
  /\ Arrives
  /\ restarts < MaxRestarts
  /\ \E pkt \in Polls : \E p \in Process(pkt) :
       \E q \in PeerClear([p EXCEPT !.unreach = 0]) : peer' = Phase(q)
  /\ sample' = FALSE
  /\ restarts' = restarts + 1
  /\ cleared' = TRUE
  /\ heard' = TRUE /\ good' = FALSE
  /\ silence' = 0

(* A packet of another association makes this one the system peer.         *)
Selected ==
  /\ up /\ sample
  /\ sample' = FALSE
  /\ \E sysPoll \in Polls :
       peer' \in PollUpdate([peer EXCEPT !.unreach = 0], sysPoll)
  /\ UNCHANGED <<kind, up, owed, restarts, history>>

(* Another association's packet steps the clock, the address of the local  *)
(* interface changes, or an operator resets the association: peer_clear(). *)
Restart ==
  /\ up /\ restarts < MaxRestarts
  /\ peer' \in PeerClear(peer)
  /\ sample' = FALSE
  /\ restarts' = restarts + 1
  /\ cleared' = TRUE
  /\ good' = FALSE
  /\ UNCHANGED <<kind, up, owed, gap, headway, unheard, quiet, heard, silence>>

-----------------------------------------------------------------------------
(* newpeer(): peer_clear() of a zeroed structure.                          *)
Init ==
  /\ kind \in Kinds
  /\ up = TRUE
  /\ peer \in PeerClear([minpoll |-> MinPoll, hpoll |-> MinPoll,
                         ppoll |-> MaxPoll, reach |-> 0, unreach |-> 0,
                         burst |-> 0, retry |-> 0, throttle |-> 0,
                         next |-> 0, out |-> 0, ttl |-> 0])
  /\ sample = FALSE
  /\ owed = 0 /\ restarts = 0
  /\ cleared = TRUE
  /\ gap = MinGap /\ headway = MinPkt /\ unheard = MinGap
  /\ quiet = Calm /\ heard = FALSE /\ good = FALSE /\ silence = 0

Timer ==
  \/ TimerIdle
  \/ TransmitBroadcast \/ TransmitManycast \/ TransmitPool
  \/ TransmitPoll \/ TransmitBurst

Next ==
  \/ Timer
  \/ ReceiveKoD \/ ReceiveBad \/ ReceiveGood \/ ReceiveStep
  \/ Selected \/ Restart

Spec == Init /\ [][Next]_vars

(* The one-second timer never stops.                                       *)
FairSpec == Spec /\ WF_vars(Timer)
-----------------------------------------------------------------------------
(* Every variable keeps to its range, whatever the kiss-o'-death packets   *)
(* do to minpoll: 2^(hpoll - minpoll) is always defined, and the register  *)
(* and the counters stay within the bounds the code relies on.             *)
TypeOK ==
  /\ kind \in Kinds
  /\ up \in BOOLEAN /\ sample \in BOOLEAN
  /\ owed \in 0 .. MaxOwed /\ restarts \in 0 .. MaxRestarts
  /\ peer \in
       [minpoll : Polls, hpoll : Polls, ppoll : Polls,
        reach : 0 .. (2^ReachBits - 1), unreach : 0 .. UnreachCap,
        burst : 0 .. PMax(IBurst, Shift), retry : 0 .. Retry,
        throttle : Nat, next : Nat, out : 0 .. Horizon, ttl : 0 .. TTLMax]
  /\ peer.minpoll <= peer.hpoll
  /\ peer.hpoll <= PMax(MaxPoll, peer.minpoll)
  /\ {gap, headway, unheard} \subseteq 0 .. MinGap
  /\ cleared \in BOOLEAN
  /\ quiet \in 0 .. Calm
  /\ heard \in BOOLEAN /\ good \in BOOLEAN /\ silence \in 0 .. Unreach

(* The guard time: two packets of an association are never less than       *)
(* ntp_minpkt apart, whatever bursts, retries, late replies, changes of    *)
(* the poll interval and kisses-o'-death come between them.  Only the      *)
(* first packet after peer_clear() is exempt.                              *)
GuardTime == headway >= MinPkt

(* The packets by which a burst may exceed the throttle: packets of the    *)
(* other end pull those of an interleaved burst towards the middle of the  *)
(* poll interval, however long the throttle asks to wait.                  *)
BurstExcess ==
  IF kind.xleave /\ (kind.burst \/ kind.iburst) THEN PMax(IBurst, Shift) ELSE 0

(* The transmit throttle: the output counter of an association never       *)
(* exceeds the ceiling of a kiss-o'-death by more than one packet for each *)
(* time the association was cleared and, where bursts are interleaved, the *)
(* packets of one burst for each of these times and one more.              *)
Throttled ==
  peer.throttle <= (Shift + 1) * 2^peer.minpoll
                   + (restarts + (restarts + 1) * BurstExcess)
                     * (2^peer.minpoll - 2)

(* Both at once, as the interleaved associations are examined for them:    *)
(* the second by which receive() moves a poll takes it neither below the   *)
(* guard time nor, outside bursts, below the throttle.                     *)
Paced == GuardTime /\ Throttled

(* A server that does not answer is polled no more often than every        *)
(* 2^minpoll seconds, however many retries and bursts are configured       *)
(* (html/poll.html).                                                       *)
UnansweredLoad == unheard >= 2^MinPoll

(* A burst and the retries of its first packet exclude each other: no poll *)
(* is both one of a burst and the beginning of another.                    *)
OneBurst == peer.burst > 0 => peer.retry = 0 /\ heard

(* An ephemeral association is tossed only when Unreach new polls in a row *)
(* went without a good packet, whatever clears it in between: peer_clear() *)
(* keeps unreach.  A good packet counts unless the association is cleared  *)
(* before the next new poll, which loses it with the reach register.       *)
TossedWhenSilent == ~up /\ Ephemeral => silence >= Unreach

(* Every packet moves the next poll: poll_update() puts it off by the      *)
(* guard time, an interleaved packet by a second more, and the selection   *)
(* of its sample by the guard time again.  If pauses that outlast this     *)
(* come again and again (2 * MinPkt is enough), packets do not postpone    *)
(* the new polls for ever.  Without the pauses they do.                    *)
PollsAgain == []<>(quiet = Calm) => [](up => <>(peer.out = 0 \/ ~up))

(* An ephemeral association that hears no good packet any more is tossed,  *)
(* whatever else arrives with such pauses.                                 *)
EphemeralTimeout ==
  []<>(quiet = Calm) => [](Ephemeral => <>(~up \/ silence = 0))
=============================================================================
