------------------------------- MODULE OnWire -------------------------------
(***************************************************************************)
(* The on-wire protocol of ntpd/ntp_proto.c: the timestamps two hosts put  *)
(* in their packets (peer_xmit, fast_xmit), the schedule of timestamp      *)
(* checks of receive() and the choice of t1..t4 in process_packet().       *)
(*                                                                         *)
(* The network loses, duplicates and reorders packets: net only grows and  *)
(* a packet of it may be received any number of times, or never.  Every    *)
(* event takes place at an instant of its own, so that an instant names    *)
(* one event; 0 is the unset timestamp, far from every instant (Epoch).    *)
(* A packet carries, beside its three header timestamps, the instant at    *)
(* which it really left (id): ground truth that no code reads.             *)
(***************************************************************************)
EXTENDS Integers

CONSTANTS
  A, B,       \* the two hosts
  Configs,    \* the pairs of roles examined
  Epoch,      \* the first instant
  MaxTime,    \* bound: the last instant
  MaxDelay,   \* the one second limit of process_packet, in instants
  MinPkt,     \* ntp_minpkt (2 s), the least distance of two polls unless
              \* the association is cleared between them
  MaxFaults   \* bound: duplications, clears, steps and refusals

Hosts == {A, B}
Other(h) == IF h = A THEN B ELSE A
Modes == {"active", "client", "server", "broadcast", "bclient"}

ASSUME HostsDiffer == A # B
ASSUME TimeConstants ==
  /\ MaxDelay \in Nat
  /\ MinPkt \in Nat /\ MinPkt >= 2 * MaxDelay
  /\ Epoch \in Nat /\ Epoch > MaxDelay
  /\ MaxTime \in Nat /\ MaxTime >= Epoch
  /\ MaxFaults \in Nat
(* The unset timestamp is so far from every instant that no difference of  *)
(* two instants makes up for it.                                           *)
ASSUME EraAssumption == MaxTime + MaxDelay < 2 * Epoch
ASSUME ConfigsAssumption ==
  Configs \subseteq
    [mode : [Hosts -> Modes], xleave : SUBSET Hosts, limited : SUBSET Hosts,
     prompt : BOOLEAN]

VARIABLES
  config,   \* host modes, the hosts configured with FLAG_XLEAVE and those
            \* whose restriction list has "limited kod"; whether the network
            \* delays every packet by less than MaxDelay
  now,      \* the next instant
  assoc,    \* struct peer: the timestamps of each host's association
  net,      \* every packet ever sent
  recvd,    \* history: <<packet id, instant>> of each host's receptions
  samples,  \* history: what each host handed to clock_filter()
  sentAt,   \* the instant of each host's last poll since it was cleared
  stepped,  \* history: the instant of each host's last clock step
  faults    \* how many of the events that MaxFaults bounds have happened

vars == <<config, now, assoc, net, recvd, samples, sentAt, stepped, faults>>

Instants == Epoch .. (MaxTime + 1)
Timestamps == {0} \cup Instants

(* A packet: an ordinary one, a crypto-NAK or a kiss-o'-death.             *)
Packets ==
  [from : Hosts, id : Instants, kind : {"time", "nak", "kod"},
   org : Timestamps, rec : Timestamps, xmt : Timestamps]

(* The timestamps of struct peer, its flip switch and its flags FLAG_XBOGUS *)
(* and FLAG_XB.                                                            *)
Assocs ==
  [aorg : Timestamps, borg : Timestamps, rec : Timestamps, dst : Timestamps,
   xmt : Timestamps, flip : {-1, 0, 1}, xbogus : BOOLEAN, xb : BOOLEAN]

(* What reaches the clock filter: the four timestamps of the offset. The    *)
(* one-way kinds use t3 and t4 alone.                                      *)
Samples ==
  [kind : {"basic", "symmetric", "oneway", "interleaved_oneway"},
   t1 : Timestamps, t2 : Timestamps, t3 : Timestamps, t4 : Timestamps]

Mode(h) == config.mode[h]
Symmetric(h) == Mode(h) = "active"
FromBroadcast(m) == Mode(m.from) = "broadcast"

(* Mutant of PeerClear: the saved origin timestamps are left standing.     *)
PeerClearKeepsOrigin(h, a) ==
  [a EXCEPT !.rec = 0, !.dst = 0, !.xmt = 0,
            !.flip = IF h \in config.xleave THEN 1 ELSE 0]

(* peer_clear(): every timestamp is zeroed and the switch armed if the     *)
(* association is interleaved. FLAG_XBOGUS and FLAG_XB are not in the      *)
(* cleared part of struct peer and survive.                                *)
PeerClear(h, a) ==
  [a EXCEPT !.aorg = 0, !.borg = 0, !.rec = 0, !.dst = 0, !.xmt = 0,
            !.flip = IF h \in config.xleave THEN 1 ELSE 0]

(* The network has delivered m to h before.                                *)
Seen(h, m) == \E r \in recvd[h] : r[1] = m.id

(* The network may deliver m now.                                          *)
Deliverable(m) == config.prompt => now - m.id < MaxDelay

(* An event that is counted against MaxFaults, if it is one.               *)
Fault(isFault) ==
  /\ isFault => faults < MaxFaults
  /\ faults' = IF isFault THEN faults + 1 ELSE faults

-----------------------------------------------------------------------------
(* Transmission *)

(* The timestamp captured after the previous interleaved transmission.     *)
Previous(a) == IF a.flip > 0 THEN a.borg ELSE a.aorg

(* The header timestamps of peer_xmit() at instant t.                      *)
PeerXmitPacket(h, t) ==
  LET a == assoc[h]
      bcast == Mode(h) = "broadcast"
  IN [from |-> h, id |-> t, kind |-> "time",
      org |-> IF a.flip # 0 /\ bcast THEN Previous(a) ELSE a.rec,
      rec |-> a.dst,
      xmt |-> IF a.flip # 0 /\ ~bcast THEN Previous(a) ELSE t]

(* Mutant of PeerXmitAssoc: the switch is complemented, not negated.       *)
PeerXmitAssocComplement(a, t) ==
  CASE a.flip = 0 -> [a EXCEPT !.aorg = t]
    [] a.flip > 0 -> [a EXCEPT !.aorg = t, !.flip = -2]
    [] OTHER      -> [a EXCEPT !.borg = t, !.flip = 1]

(* The association once peer_xmit() returns: basic mode saves the a-priori *)
(* timestamp, the interleaved modes the a-posteriori one, alternately.     *)
PeerXmitAssoc(a, t) ==
  CASE a.flip = 0 -> [a EXCEPT !.aorg = t]
    [] a.flip > 0 -> [a EXCEPT !.aorg = t, !.flip = -1]
    [] OTHER      -> [a EXCEPT !.borg = t, !.flip = 1]

(* Polls of one host are at least ntp_minpkt apart (poll_update), and time *)
(* passes as it must.  peer_clear() schedules a first poll at any moment   *)
(* from then on, however soon after the last one.                          *)
PollTime(h) ==
  IF sentAt[h] = 0 \/ now - sentAt[h] >= MinPkt THEN now
  ELSE sentAt[h] + MinPkt

Polls(h) ==
  /\ Mode(h) \in {"active", "client", "broadcast"}
  /\ PollTime(h) <= MaxTime
  /\ sentAt' = [sentAt EXCEPT ![h] = PollTime(h)]
  /\ now' = PollTime(h) + 1

PeerXmit(h) ==
  /\ Polls(h)
  /\ net' = net \cup {PeerXmitPacket(h, PollTime(h))}
  /\ assoc' = [assoc EXCEPT ![h] = PeerXmitAssoc(@, PollTime(h))]
  /\ UNCHANGED <<config, recvd, samples, stepped, faults>>

(* authencrypt() finds no key: nothing is sent, but in basic mode the      *)
(* origin timestamp has already been replaced.                             *)
PeerXmitNoKey(h) ==
  /\ Polls(h)
  /\ Fault(TRUE)
  /\ assoc' = [assoc EXCEPT ![h].aorg =
                 IF assoc[h].flip = 0 THEN PollTime(h) ELSE @]
  /\ UNCHANGED <<config, net, recvd, samples, stepped>>

(* fast_xmit(): a reply made from the packet m alone. A kiss-o'-death      *)
(* echoes m's transmit timestamp in all three fields.                      *)
FastXmitPacket(h, m, kind, received, sent) ==
  IF kind = "kod"
  THEN [from |-> h, id |-> sent, kind |-> kind,
        org |-> m.xmt, rec |-> m.xmt, xmt |-> m.xmt]
  ELSE [from |-> h, id |-> sent, kind |-> kind,
        org |-> m.xmt, rec |-> received, xmt |-> sent]

(* A packet the host answers without touching an association: a server's   *)
(* reply, the crypto-NAK it sends when the digest fails, or the            *)
(* kiss-o'-death a rate limit provokes in either mode.                     *)
FastXmit(h, m, kind) ==
  /\ now < MaxTime
  /\ Deliverable(m)
  /\ m.from = Other(h)
  /\ kind = "kod" => h \in config.limited
  /\ Fault(kind # "time" \/ Seen(h, m))
  /\ \/ Mode(h) = "server" /\ Mode(m.from) = "client"
     \/ Symmetric(h) /\ Symmetric(m.from) /\ kind = "kod"
  /\ net' = net \cup {FastXmitPacket(h, m, kind, now, now + 1)}
  /\ recvd' = [recvd EXCEPT ![h] = @ \cup {<<m.id, now>>}]
  /\ now' = now + 2
  /\ UNCHANGED <<config, assoc, samples, sentAt, stepped>>

-----------------------------------------------------------------------------
(* Reception *)

(* The association table (AM_PROCPKT): h has an association that takes m.  *)
Matches(h, m) ==
  /\ m.from = Other(h)
  /\ <<Mode(h), Mode(m.from)>> \in
       {<<"active", "active">>, <<"client", "server">>,
        <<"bclient", "broadcast">>}

(* TEST1: the transmit timestamp of the last packet again.                 *)
Duplicate(a, m) == m.xmt # 0 /\ m.xmt = a.xmt

(* The first packet that shows the server to be an interleaved broadcast.  *)
BeginsXB(a, m) ==
  FromBroadcast(m) /\ m.xmt # 0 /\ m.org # 0 /\ ~a.xb

(* The remaining branches of the schedule of timestamp checks. A zero      *)
(* transmit timestamp (TEST3) skips them all.                              *)
Unicast(m) == ~FromBroadcast(m) /\ m.xmt # 0

(* Mutant of BasicMatch: TEST2 only asks for a nonzero origin timestamp.   *)
BasicMatchAnyOrigin(a, m) == Unicast(m) /\ a.flip = 0 /\ m.org # 0

BasicMatch(a, m) == Unicast(m) /\ a.flip = 0 /\ m.org = a.aorg

BasicSwitch(a, m) ==
  Unicast(m) /\ a.flip = 0 /\ m.org # a.aorg /\ a.dst # 0 /\ m.org = a.dst

SymmetricUnsync(a, m) == m.org = 0 \/ m.rec = 0 \/ a.dst = 0

SymmetricMatch(a, m) ==
  Unicast(m) /\ a.flip # 0 /\ ~SymmetricUnsync(a, m) /\ m.org = a.dst

SymmetricCrossed(a, m) ==
  Unicast(m) /\ a.flip # 0 /\ ~SymmetricUnsync(a, m) /\ m.org # a.dst

(* No packet test bit of flash is lit when the checks are over.            *)
TestsPass(a, m) ==
  /\ ~a.xbogus
  /\ m.xmt # 0
  /\ FromBroadcast(m) \/ BasicMatch(a, m) \/ SymmetricMatch(a, m)

(* Mutant of Checked: a matched origin timestamp is not cleared.           *)
CheckedKeepsOrigin(a, m) ==
  LET flip == IF BasicSwitch(a, m) THEN 1 ELSE a.flip
  IN [a EXCEPT
       !.xbogus = SymmetricCrossed(a, m),
       !.flip = flip,
       !.rec = IF flip = 0 /\ ~FromBroadcast(m) THEN m.xmt ELSE @,
       !.dst = IF flip = 0 THEN now ELSE @,
       !.xmt = m.xmt]

(* The association after the checks and "Update the state variables".      *)
Checked(a, m) ==
  LET flip == IF BasicSwitch(a, m) THEN 1 ELSE a.flip
  IN [a EXCEPT
       !.xbogus = SymmetricCrossed(a, m),
       !.aorg = IF BasicMatch(a, m) THEN 0 ELSE @,
       !.flip = flip,
       !.rec = IF flip = 0 /\ ~FromBroadcast(m) THEN m.xmt ELSE @,
       !.dst = IF flip = 0 THEN now ELSE @,
       !.xmt = m.xmt]

(* The timestamps process_packet() computes offset and delay from, given   *)
(* the association c left by the checks.                                   *)
SampleOf(c, m) ==
  IF c.flip # 0
  THEN [kind |-> "symmetric",
        t1 |-> Previous(c), t2 |-> m.rec, t3 |-> m.xmt, t4 |-> c.dst]
  ELSE IF FromBroadcast(m) /\ c.xb
  THEN [kind |-> "interleaved_oneway",
        t1 |-> 0, t2 |-> 0, t3 |-> m.org, t4 |-> c.borg]
  ELSE IF FromBroadcast(m)
  THEN [kind |-> "oneway", t1 |-> 0, t2 |-> 0, t3 |-> m.xmt, t4 |-> c.dst]
  ELSE [kind |-> "basic", t1 |-> m.org, t2 |-> m.rec, t3 |-> m.xmt, t4 |-> c.dst]

(* Mutant of DelayOK: a negative delay is let through.                     *)
DelayOKNegative(c, m) ==
  /\ c.flip # 0 =>
       (m.rec - Previous(c)) - (m.xmt - c.dst) <= MaxDelay
  /\ FromBroadcast(m) /\ c.xb => m.org - c.aorg \in 0 .. MaxDelay

(* Mutant of DelayOK: interleaved broadcast is not checked.                *)
DelayOKSymmetricOnly(c, m) ==
  c.flip # 0 => (m.rec - Previous(c)) - (m.xmt - c.dst) \in 0 .. MaxDelay

(* The sanity checks of the interleaved modes (event XERR).                *)
DelayOK(c, m) ==
  /\ c.flip # 0 =>
       (m.rec - Previous(c)) - (m.xmt - c.dst) \in 0 .. MaxDelay
  /\ FromBroadcast(m) /\ c.xb => m.org - c.aorg \in 0 .. MaxDelay

(* Interleaved broadcast keeps the timestamps of this packet for the next. *)
SaveXB(c, m) ==
  IF FromBroadcast(m) /\ c.xb THEN [c EXCEPT !.aorg = m.xmt, !.borg = c.dst]
  ELSE c

(* "In interleaved mode update the state variables", the end of receive(). *)
Finish(a, m) ==
  IF a.flip # 0 THEN [a EXCEPT !.rec = m.rec, !.dst = now] ELSE a

Received(h, m, fault) ==
  /\ Fault(fault \/ Seen(h, m))
  /\ now <= MaxTime
  /\ Deliverable(m)
  /\ Matches(h, m)
  /\ recvd' = [recvd EXCEPT ![h] = @ \cup {<<m.id, now>>}]
  /\ UNCHANGED config

ReceiveDuplicate(h, m) ==
  /\ Received(h, m, FALSE)
  /\ Duplicate(assoc[h], m)
  /\ assoc' = [assoc EXCEPT ![h] = [@ EXCEPT !.xbogus = FALSE]]
  /\ now' = now + 1
  /\ UNCHANGED <<net, samples, sentAt, stepped>>

ReceiveBeginXB(h, m) ==
  /\ Received(h, m, FALSE)
  /\ ~Duplicate(assoc[h], m)
  /\ BeginsXB(assoc[h], m)
  /\ assoc' = [assoc EXCEPT ![h] =
       [@ EXCEPT !.xbogus = FALSE, !.xb = TRUE, !.aorg = m.xmt, !.borg = now]]
  /\ now' = now + 1
  /\ UNCHANGED <<net, samples, sentAt, stepped>>

Checks(h, m, fault) ==
  Received(h, m, fault) /\ ~Duplicate(assoc[h], m) /\ ~BeginsXB(assoc[h], m)

(* A crypto-NAK, or a server's kiss-o'-death: the timestamps have been     *)
(* taken, the packet is not processed.  (A preemptable association is      *)
(* demobilized here and on a bad digest: its host stops, as any host may.) *)
ReceiveRefusal(h, m) ==
  /\ Checks(h, m, FALSE)
  /\ m.kind = "nak" \/ (m.kind = "kod" /\ Mode(m.from) = "server")
  /\ assoc' = [assoc EXCEPT ![h] = Checked(@, m)]
  /\ now' = now + 1
  /\ UNCHANGED <<net, samples, sentAt, stepped>>

(* The digest fails (TEST5). In symmetric mode a crypto-NAK goes back.     *)
ReceiveBadAuth(h, m) ==
  /\ Checks(h, m, TRUE)
  /\ m.kind # "nak"
  /\ now < MaxTime
  /\ assoc' = [assoc EXCEPT ![h] = Checked(@, m)]
  /\ net' = net \cup
       (IF Symmetric(m.from) THEN {FastXmitPacket(h, m, "nak", now, now + 1)}
        ELSE {})
  /\ now' = now + 2
  /\ UNCHANGED <<samples, sentAt, stepped>>

(* The packet reaches process_packet(), which ends before the sample: a    *)
(* timestamp check has failed, the header is not acceptable (a kiss never  *)
(* is) or the delay is not.                                                *)
ReceiveNoSample(h, m, headerOK) ==
  LET c == Checked(assoc[h], m)
      tested == TestsPass(assoc[h], m) /\ headerOK /\ m.kind # "kod"
  IN /\ Checks(h, m, ~headerOK)
     /\ m.kind = "time" \/ (m.kind = "kod" /\ Mode(m.from) # "server")
     /\ ~(tested /\ DelayOK(c, m))
     /\ assoc' = [assoc EXCEPT ![h] = Finish(IF tested THEN SaveXB(c, m) ELSE c, m)]
     /\ now' = now + 1
     /\ UNCHANGED <<net, samples, sentAt, stepped>>

(* The packet yields a sample. The clock filter and selection may step the *)
(* clock on the spot, which clears the association (clear_all) before      *)
(* receive() finishes.                                                     *)
ReceiveSample(h, m, step) ==
  LET c == Checked(assoc[h], m)
      s == SaveXB(c, m)
  IN /\ Checks(h, m, step)
     /\ m.kind = "time"
     /\ TestsPass(assoc[h], m)
     /\ DelayOK(c, m)
     /\ samples' = [samples EXCEPT ![h] = @ \cup {SampleOf(c, m)}]
     /\ assoc' = [assoc EXCEPT ![h] = Finish(IF step THEN PeerClear(h, s) ELSE s, m)]
     /\ stepped' = [stepped EXCEPT ![h] = IF step THEN now ELSE @]
     /\ sentAt' = [sentAt EXCEPT ![h] = IF step THEN 0 ELSE @]
     /\ now' = now + 1
     /\ UNCHANGED net

(* A new local endpoint (peer_refresh_interface) or a clock step that      *)
(* another association causes (clear_all) clears this one.                 *)
Clear(h) ==
  /\ now <= MaxTime
  /\ Fault(TRUE)
  /\ assoc' = [assoc EXCEPT ![h] = PeerClear(h, @)]
  /\ sentAt' = [sentAt EXCEPT ![h] = 0]
  /\ now' = now + 1
  /\ UNCHANGED <<config, net, recvd, samples, stepped>>

Init ==
  /\ config \in Configs
  /\ now = Epoch
  /\ assoc = [h \in Hosts |->
       [aorg |-> 0, borg |-> 0, rec |-> 0, dst |-> 0, xmt |-> 0,
        flip |-> IF h \in config.xleave THEN 1 ELSE 0,
        xbogus |-> FALSE, xb |-> FALSE]]
  /\ net = {}
  /\ recvd = [h \in Hosts |-> {}]
  /\ samples = [h \in Hosts |-> {}]
  /\ sentAt = [h \in Hosts |-> 0]
  /\ stepped = [h \in Hosts |-> 0]
  /\ faults = 0

Next ==
  \E h \in Hosts :
    \/ PeerXmit(h)
    \/ PeerXmitNoKey(h)
    \/ Clear(h)
    \/ \E m \in net :
         \/ \E kind \in {"time", "nak", "kod"} : FastXmit(h, m, kind)
         \/ ReceiveDuplicate(h, m)
         \/ ReceiveBeginXB(h, m)
         \/ ReceiveRefusal(h, m)
         \/ ReceiveBadAuth(h, m)
         \/ \E headerOK \in BOOLEAN : ReceiveNoSample(h, m, headerOK)
         \/ \E step \in BOOLEAN : ReceiveSample(h, m, step)

Spec == Init /\ [][Next]_vars

-----------------------------------------------------------------------------
(* Types: a timestamp field of an association or a packet is unset or an  *)
(* instant that has a name, whatever peer_xmit and receive store in it.    *)
TypeOK ==
  /\ config \in Configs
  /\ now \in Instants
  /\ assoc \in [Hosts -> Assocs]
  /\ net \subseteq Packets
  /\ recvd \in [Hosts -> SUBSET (Instants \X Instants)]
  /\ samples \in [Hosts -> SUBSET Samples]
  /\ sentAt \in [Hosts -> Timestamps]
  /\ stepped \in [Hosts -> Timestamps]
  /\ faults \in 0 .. MaxFaults

(* A packet that left h at t was received by the other host at r.          *)
Travelled(h, t, r) ==
  (\E m \in net : m.from = h /\ m.id = t) /\ <<t, r>> \in recvd[Other(h)]

(* The four timestamps of a sample are those of one packet out and one     *)
(* packet back.                                                            *)
RoundTrip(h, s) == Travelled(h, s.t1, s.t2) /\ Travelled(Other(h), s.t3, s.t4)

(* Basic mode (client/server and symmetric): a sample whose origin         *)
(* timestamp is set measures one poll of this association and the answer   *)
(* to it, whatever the network loses, repeats or reorders, and across      *)
(* clears, steps, crypto-NAKs and kisses (receive(), TEST1 and TEST2).     *)
BasicSound ==
  \A h \in Hosts : \A s \in samples[h] :
    s.kind = "basic" /\ s.t1 # 0 => RoundTrip(h, s)

(* The poll of h at t followed another within ntp_minpkt: peer_clear() has *)
(* scheduled it.                                                           *)
Hurried(h, t) ==
  \E m \in net :
    m.from = h /\ m.kind = "time" /\ m.id < t /\ t < m.id + MinPkt

(* Interleaved symmetric mode: the timestamps saved alternately in aorg    *)
(* and borg are paired with the packets they belong to, however packets    *)
(* are lost, repeated or crossed, on a network that delays none as long as *)
(* the limit process_packet() puts on the delay.  A hurried poll of the    *)
(* other host that is lost may be taken for the one before it, which the   *)
(* limit on the delay no longer tells apart: samples of such are exempt.   *)
(* It is stated for two hosts configured to interleave.  Where one of them *)
(* is, and the other follows (the switch of receive() to interleaved       *)
(* mode), it is stated up to one fault: a switch on a packet whose digest  *)
(* fails leaves dst standing, and after a second one that is when a        *)
(* crypto-NAK came in.                                                     *)
SymmetricSound ==
  config.prompt /\ (config.xleave = Hosts \/ faults <= 1) =>
    \A h \in Hosts : \A s \in samples[h] :
      s.kind = "symmetric" /\ ~Hurried(Other(h), s.t3) => RoundTrip(h, s)

(* A sample without a measurement: FLAG_XB outlives peer_clear(), and the  *)
(* zero origin timestamp of a server that has been cleared as well agrees  *)
(* with the zeros its client has saved.                                    *)
NullSample(s) == s.kind = "interleaved_oneway" /\ s.t3 = 0 /\ s.t4 = 0

(* Broadcast: the transmit and receive timestamps of a sample are those of *)
(* one packet, also when interleaving reports the former one packet late,  *)
(* unless the packet reported is a hurried one, or the sample is the null  *)
(* sample that two cleared associations make.                              *)
BroadcastSound ==
  \A h \in Hosts : \A s \in samples[h] :
    s.kind \in {"oneway", "interleaved_oneway"} =>
      \/ Travelled(Other(h), s.t3, s.t4)
      \/ NullSample(s)
      \/ s.kind = "interleaved_oneway" /\ Hurried(Other(h), s.t3)

(* A poll is answered at most once: receive() zeroes aorg on the first     *)
(* match, so no late or repeated reply yields a second sample.             *)
OneSamplePerPoll ==
  \A h \in Hosts : \A s1, s2 \in samples[h] :
    s1.kind = "basic" /\ s2.kind = "basic" /\ s1.t1 = s2.t1 /\ s1.t1 # 0 =>
      s1 = s2

(* Every sample of a unicast association is a measured round trip: "runs   *)
(* the on-wire protocol that uses four raw timestamps" (html/warp.html).   *)
SamplesAreMeasured ==
  \A h \in Hosts : \A s \in samples[h] :
    s.kind = "basic" => RoundTrip(h, s)

(* Once the clock has been stepped, no sample uses a local timestamp of    *)
(* before the step: "all previously saved time values are untrusted"       *)
(* (ntp_peer.c, clear_all).                                                *)
AfterStep(h, s) ==
  /\ s.t4 # 0 => s.t4 > stepped[h]
  /\ s.t1 # 0 => s.t1 > stepped[h]

StepFlushes ==
  [][\A h \in Hosts : \A s \in samples'[h] \ samples[h] : AfterStep(h, s)]_vars

(* The same of every mode but interleaved symmetric, whose final update of *)
(* rec and dst in receive() follows the step.                              *)
BasicStepFlushes ==
  [][\A h \in Hosts : \A s \in samples'[h] \ samples[h] :
       s.kind # "symmetric" => AfterStep(h, s)]_vars
=============================================================================
