---------------------------- MODULE OnWireProofs ----------------------------
(***************************************************************************)
(* Proofs about the on-wire protocol (OnWire), for every length of the     *)
(* run, every number of duplications, clears and refusals and every set of *)
(* configurations: types, the samples of basic, broadcast and interleaved  *)
(* symmetric mode, and what a poll and a step of the clock may lead to.    *)
(***************************************************************************)
EXTENDS OnWire, TLAPS

(* Zenon is the default prover of the leaves below; those that need arithmetic
   or that only the SMT solver finds cite SMT.                              *)
USE Zenon

-----------------------------------------------------------------------------
(* Types of the operators that build packets, associations and samples.    *)

(* peer_clear() leaves an association.                                     *)
LEMMA PeerClearType ==
  ASSUME NEW h, NEW a \in Assocs
  PROVE  PeerClear(h, a) \in Assocs
BY DEF PeerClear, Assocs, Timestamps

(* The state update of receive() leaves an association.                    *)
LEMMA CheckedType ==
  ASSUME NEW a \in Assocs, NEW m \in Packets, now \in Instants
  PROVE  Checked(a, m) \in Assocs
<1> DEFINE flip == IF BasicSwitch(a, m) THEN 1 ELSE a.flip
           xbogus == SymmetricCrossed(a, m)
           aorg == IF BasicMatch(a, m) THEN 0 ELSE a.aorg
           rec == IF flip = 0 /\ ~FromBroadcast(m) THEN m.xmt ELSE a.rec
           dst == IF flip = 0 THEN now ELSE a.dst
<1>1. flip \in {-1, 0, 1}
  BY DEF Assocs
<1>2. xbogus \in BOOLEAN
  BY DEF SymmetricCrossed, Unicast, SymmetricUnsync
<1>3. m.xmt \in Timestamps /\ aorg \in Timestamps /\ rec \in Timestamps
      /\ dst \in Timestamps
  BY DEF Packets, Timestamps, Assocs
<1>4. Checked(a, m) = [a EXCEPT !.xbogus = xbogus, !.aorg = aorg, !.flip = flip,
                                !.rec = rec, !.dst = dst, !.xmt = m.xmt]
  BY DEF Checked
<1> HIDE DEF flip, xbogus, aorg, rec, dst
<1> QED
  BY <1>1, <1>2, <1>3, <1>4 DEF Assocs

(* What process_packet() and the end of receive() do to it.                *)
LEMMA FinishType ==
  ASSUME NEW a \in Assocs, NEW m \in Packets, now \in Instants
  PROVE  /\ Finish(a, m) \in Assocs
         /\ SaveXB(a, m) \in Assocs
         /\ SampleOf(a, m) \in Samples
<1>1. Finish(a, m) \in Assocs
  BY DEF Finish, Assocs, Packets, Timestamps
<1>2. SaveXB(a, m) \in Assocs
  BY DEF SaveXB, Assocs, Packets
<1>3. SampleOf(a, m) \in Samples
  BY DEF SampleOf, Samples, Assocs, Packets, Timestamps, Previous
<1> QED
  BY <1>1, <1>2, <1>3

(* A poll takes place now or later, and its packet is one.                 *)
LEMMA PollType ==
  ASSUME NEW h \in Hosts, TypeOK, PollTime(h) <= MaxTime
  PROVE  /\ PollTime(h) \in Instants /\ PollTime(h) >= now
         /\ PollTime(h) + 1 \in Instants
         /\ PeerXmitPacket(h, PollTime(h)) \in Packets
         /\ PeerXmitAssoc(assoc[h], PollTime(h)) \in Assocs
<1>1. /\ PollTime(h) \in Instants /\ PollTime(h) >= now
      /\ PollTime(h) + 1 \in Instants
  BY TimeConstants, SMT DEF TypeOK, PollTime, Instants, Timestamps
<1>2. assoc[h] \in Assocs
  BY DEF TypeOK
<1> DEFINE t == PollTime(h)
<1>3. t \in Timestamps
  BY <1>1 DEF Timestamps
<1> HIDE DEF t
<1>4. PeerXmitPacket(h, t) \in Packets
  BY <1>1, <1>2, <1>3 DEF PeerXmitPacket, Packets, Previous, Assocs, Timestamps, t
<1>5. PeerXmitAssoc(assoc[h], t) \in Assocs
  <2>1. CASE assoc[h].flip = 0
    BY <1>2, <1>3, <2>1 DEF PeerXmitAssoc, Assocs
  <2>2. CASE assoc[h].flip = 1
    BY <1>2, <1>3, <2>2 DEF PeerXmitAssoc, Assocs
  <2>3. CASE assoc[h].flip = -1
    BY <1>2, <1>3, <2>3 DEF PeerXmitAssoc, Assocs
  <2> QED
    BY <1>2, <2>1, <2>2, <2>3 DEF Assocs
<1> QED
  BY <1>1, <1>4, <1>5 DEF t

-----------------------------------------------------------------------------
(* The type invariant *)

(* Every field stays in its range, and no event happens after MaxTime + 1. *)
LEMMA TypeStep == TypeOK /\ [Next]_vars => TypeOK'
(* The start of interleaved broadcast leaves an association.               *)
<1>BeginXBType.
      ASSUME NEW a \in Assocs, NEW s \in Timestamps, NEW t \in Timestamps
      PROVE  [a EXCEPT !.xbogus = FALSE, !.xb = TRUE, !.aorg = s, !.borg = t] \in Assocs
  <2> USE <1>BeginXBType
  <2>1. ASSUME NEW x \in BOOLEAN, NEW y \in BOOLEAN
        PROVE  [a EXCEPT !.xbogus = x, !.xb = y, !.aorg = s, !.borg = t] \in Assocs
    BY DEF Assocs
  <2> QED
    BY <2>1
(* A reply of fast_xmit() is a packet.                                     *)
<1>FastXmitType.
      ASSUME NEW h \in Hosts, NEW m \in Packets, NEW kind \in {"time", "nak", "kod"},
             NEW r \in Instants, NEW s \in Instants
      PROVE  FastXmitPacket(h, m, kind, r, s) \in Packets
  BY <1>FastXmitType DEF FastXmitPacket, Packets, Timestamps
<1> SUFFICES ASSUME TypeOK, [Next]_vars PROVE TypeOK'
  OBVIOUS
<1> USE DEF Hosts
<1>1. ASSUME NEW h \in Hosts, PeerXmit(h) PROVE TypeOK'
  <2>1. /\ PollTime(h) \in Instants /\ PollTime(h) + 1 \in Instants
        /\ PeerXmitPacket(h, PollTime(h)) \in Packets
        /\ PeerXmitAssoc(assoc[h], PollTime(h)) \in Assocs
    BY <1>1, PollType DEF PeerXmit, Polls
  <2> QED
    BY <1>1, <2>1 DEF PeerXmit, Polls, TypeOK, Timestamps
<1>2. ASSUME NEW h \in Hosts, PeerXmitNoKey(h) PROVE TypeOK'
  <2>1. PollTime(h) \in Instants /\ PollTime(h) + 1 \in Instants
    BY <1>2, PollType DEF PeerXmitNoKey, Polls
  <2>2. assoc' \in [Hosts -> Assocs]
    BY <1>2, <2>1, SMT DEF PeerXmitNoKey, TypeOK, Assocs, Timestamps
  <2>3. faults' \in 0 .. MaxFaults
    BY <1>2, TimeConstants, SMT DEF PeerXmitNoKey, Fault, TypeOK
  <2> QED
    BY <1>2, <2>1, <2>2, <2>3 DEF PeerXmitNoKey, Polls, TypeOK, Timestamps
<1>3. ASSUME NEW h \in Hosts, Clear(h) PROVE TypeOK'
  <2>1. now + 1 \in Instants
    BY <1>3, TimeConstants, SMT DEF Clear, TypeOK, Instants
  <2>2. PeerClear(h, assoc[h]) \in Assocs
    BY PeerClearType DEF TypeOK
  <2>3. faults' \in 0 .. MaxFaults
    BY <1>3, TimeConstants, SMT DEF Clear, Fault, TypeOK
  <2> QED
    BY <1>3, <2>1, <2>2, <2>3 DEF Clear, TypeOK, Timestamps
<1>4. ASSUME NEW h \in Hosts, NEW m \in net, NEW kind \in {"time", "nak", "kod"},
             FastXmit(h, m, kind)
      PROVE TypeOK'
  <2>1. now + 1 \in Instants /\ now + 2 \in Instants
    BY <1>4, TimeConstants, SMT DEF FastXmit, TypeOK, Instants
  <2>2. m \in Packets
    BY DEF TypeOK
  <2>3. FastXmitPacket(h, m, kind, now, now + 1) \in Packets
    BY <2>1, <2>2, <1>FastXmitType DEF TypeOK
  <2>4. faults' \in 0 .. MaxFaults
    BY <1>4, TimeConstants, SMT DEF FastXmit, Fault, TypeOK
  <2>5. <<m.id, now>> \in Instants \X Instants
    BY <2>2 DEF TypeOK, Packets
  <2> QED
    BY <1>4, <2>1, <2>3, <2>4, <2>5 DEF FastXmit, TypeOK
<1>5. ASSUME NEW h \in Hosts, NEW m \in net, NEW fault \in BOOLEAN,
             Received(h, m, fault)
      PROVE /\ m \in Packets /\ assoc[h] \in Assocs /\ now \in Instants
            /\ now + 1 \in Instants
            /\ now < MaxTime => now + 2 \in Instants
            /\ faults' \in 0 .. MaxFaults
            /\ recvd' \in [Hosts -> SUBSET (Instants \X Instants)]
            /\ Checked(assoc[h], m) \in Assocs
            /\ Finish(Checked(assoc[h], m), m) \in Assocs
            /\ SaveXB(Checked(assoc[h], m), m) \in Assocs
            /\ Finish(SaveXB(Checked(assoc[h], m), m), m) \in Assocs
            /\ Finish(PeerClear(h, SaveXB(Checked(assoc[h], m), m)), m) \in Assocs
            /\ SampleOf(Checked(assoc[h], m), m) \in Samples
  <2>1. m \in Packets /\ assoc[h] \in Assocs /\ now \in Instants
    BY DEF TypeOK
  <2>2. now + 1 \in Instants /\ (now < MaxTime => now + 2 \in Instants)
    BY <1>5, TimeConstants, SMT DEF Received, TypeOK, Instants
  <2>3. faults' \in 0 .. MaxFaults
    BY <1>5, TimeConstants, SMT DEF Received, Fault, TypeOK
  <2>4. recvd' \in [Hosts -> SUBSET (Instants \X Instants)]
    <3>1. <<m.id, now>> \in Instants \X Instants
      BY <2>1 DEF Packets
    <3> QED
      BY <1>5, <3>1 DEF Received, TypeOK
  <2> QED
    BY <2>1, <2>2, <2>3, <2>4, CheckedType, FinishType, PeerClearType
<1>6. ASSUME NEW h \in Hosts, NEW m \in net, ReceiveDuplicate(h, m)
      PROVE TypeOK'
  <2>1. assoc' \in [Hosts -> Assocs]
    <3>1. ASSUME NEW a \in Assocs, NEW x \in BOOLEAN
          PROVE  [a EXCEPT !.xbogus = x] \in Assocs
      BY DEF Assocs
    <3>2. [assoc[h] EXCEPT !.xbogus = FALSE] \in Assocs
      BY <3>1 DEF TypeOK
    <3> QED
      BY <1>6, <3>2 DEF ReceiveDuplicate, TypeOK
  <2> QED
    BY <1>5, <1>6, <2>1 DEF ReceiveDuplicate, Received, TypeOK
<1>7. ASSUME NEW h \in Hosts, NEW m \in net, ReceiveBeginXB(h, m)
      PROVE TypeOK'
  <2>1. assoc' \in [Hosts -> Assocs]
    <3>1. m.xmt \in Timestamps /\ now \in Timestamps
      BY DEF TypeOK, Packets, Timestamps
    <3>2. [assoc[h] EXCEPT !.xbogus = FALSE, !.xb = TRUE,
                           !.aorg = m.xmt, !.borg = now] \in Assocs
      BY <3>1, <1>BeginXBType DEF TypeOK
    <3> QED
      BY <1>7, <3>2 DEF ReceiveBeginXB, TypeOK
  <2> QED
    BY <1>5, <1>7, <2>1 DEF ReceiveBeginXB, Received, TypeOK
<1>8. ASSUME NEW h \in Hosts, NEW m \in net, ReceiveRefusal(h, m)
      PROVE TypeOK'
  BY <1>5, <1>8 DEF ReceiveRefusal, Checks, Received, TypeOK
<1>9. ASSUME NEW h \in Hosts, NEW m \in net, ReceiveBadAuth(h, m)
      PROVE TypeOK'
  <2>1. Received(h, m, TRUE) /\ now < MaxTime
    BY <1>9 DEF ReceiveBadAuth, Checks
  <2>2. now + 1 \in Instants /\ m \in Packets /\ now \in Instants
    BY <1>5, <2>1
  <2>3. FastXmitPacket(h, m, "nak", now, now + 1) \in Packets
    BY <2>2, <1>FastXmitType
  <2>4. net' \subseteq Packets
    BY <1>9, <2>3 DEF ReceiveBadAuth, TypeOK
  <2> QED
    BY <1>5, <1>9, <2>1, <2>4 DEF ReceiveBadAuth, Received, TypeOK
<1>10. ASSUME NEW h \in Hosts, NEW m \in net, NEW headerOK \in BOOLEAN,
              ReceiveNoSample(h, m, headerOK)
       PROVE TypeOK'
  <2>1. Received(h, m, ~headerOK)
    BY <1>10 DEF ReceiveNoSample, Checks
  <2> QED
    BY <1>5, <1>10, <2>1 DEF ReceiveNoSample, Received, TypeOK
<1>11. ASSUME NEW h \in Hosts, NEW m \in net, NEW step \in BOOLEAN,
              ReceiveSample(h, m, step)
       PROVE TypeOK'
  <2>1. Received(h, m, step)
    BY <1>11 DEF ReceiveSample, Checks
  <2>2. stepped' \in [Hosts -> Timestamps] /\ sentAt' \in [Hosts -> Timestamps]
    BY <1>11 DEF ReceiveSample, TypeOK, Timestamps
  <2> QED
    BY <1>5, <1>11, <2>1, <2>2 DEF ReceiveSample, Received, TypeOK
<1>12. CASE UNCHANGED vars
  BY <1>12 DEF vars, TypeOK
<1> QED
  BY <1>1, <1>2, <1>3, <1>4, <1>6, <1>7, <1>8, <1>9, <1>10, <1>11, <1>12 DEF Next

(* The on-wire protocol keeps its types: timestamps are zero or instants   *)
(* that have been, the interleave switch is -1, 0 or 1, and what is sent   *)
(* and handed to the clock filter is made of them.                         *)
THEOREM TypeCorrect == Spec => []TypeOK
<1>1. Init => TypeOK
  BY TimeConstants, SMT DEF Init, TypeOK, Instants, Timestamps, Assocs, Hosts
<1> QED
  BY <1>1, TypeStep, PTL DEF Spec

-----------------------------------------------------------------------------
(* Basic mode: the inductive invariant *)

(* No association is configured to interleave, and at most one of the two  *)
(* hosts answers excessive polls with a kiss-o'-death.                     *)
Ordinary ==
  config.xleave = {} /\ ~(A \in config.limited /\ B \in config.limited)

(* An instant at which host h sent a packet.                               *)
SentBy(h, t) == \E m \in net : m.from = h /\ m.id = t

(* The pair <<o, d>> that h is about to send as origin and receive         *)
(* timestamps: nothing, a packet of the other host and the instant it came *)
(* in, or one of h's own that a kiss-o'-death echoed.                      *)
Origin(h, o, d) == o = 0 \/ Travelled(Other(h), o, d) \/ SentBy(h, o)

(* Every recorded instant is in the past, so that the next one is fresh.   *)
Past ==
  /\ \A m \in net : m.id < now
  /\ \A h \in Hosts : assoc[h].aorg < now /\ \A r \in recvd[h] : r[2] < now

(* An instant names one event: the packets of two hosts differ, and no     *)
(* packet leaves as another arrives.                                       *)
Names ==
  /\ \A m1, m2 \in net : m1.id = m2.id => m1.from = m2.from
  /\ \A m \in net, h \in Hosts : \A r \in recvd[h] : r[2] # m.id

(* What the packets on the network say.                                    *)
PacketInv ==
  \A m \in net :
    /\ m.kind # "kod" => m.xmt = m.id /\ Origin(m.from, m.org, m.rec)
    /\ m.kind = "kod" => /\ m.from \in config.limited
                         /\ m.org = m.xmt /\ SentBy(Other(m.from), m.xmt)

(* What the association of host h holds: basic mode, an origin timestamp   *)
(* of its own, and a pair that belongs together.                           *)
AssocInvOf(h, a) ==
  /\ a.flip = 0
  /\ Mode(Other(h)) # "broadcast" => a.aorg = 0 \/ ~SentBy(Other(h), a.aorg)
  /\ Mode(Other(h)) = "broadcast" => a.rec = 0
  /\ Origin(h, a.rec, a.dst)
  /\ a.dst = 0 \/ \E r \in recvd[h] : r[2] = a.dst

AssocInv == \A h \in Hosts : AssocInvOf(h, assoc[h])

(* The strengthening of BasicSound that every step preserves.              *)
BasicInv ==
  Ordinary => Past /\ Names /\ PacketInv /\ AssocInv /\ BasicSound

(* The other host of the other host.                                       *)
LEMMA OtherHost ==
  ASSUME NEW h \in Hosts
  PROVE  Other(h) \in Hosts /\ Other(h) # h /\ Other(Other(h)) = h
BY HostsDiffer, SMT DEF Hosts, Other

(* What has been sent and received stays so.                               *)
Grows ==
  /\ config' = config
  /\ net \subseteq net'
  /\ \A h \in Hosts : recvd[h] \subseteq recvd'[h]

(* A pair that belongs together goes on doing so.                          *)
LEMMA OriginGrows ==
  ASSUME Grows, NEW h \in Hosts, NEW o, NEW d
  PROVE  /\ SentBy(h, o) => SentBy(h, o)'
         /\ Travelled(h, o, d) => Travelled(h, o, d)'
         /\ Origin(h, o, d) => Origin(h, o, d)'
<1>1. SentBy(h, o) => SentBy(h, o)'
  BY DEF SentBy, Grows
<1>2. \A g \in Hosts : Travelled(g, o, d) => Travelled(g, o, d)'
  BY OtherHost DEF Travelled, Grows
<1> QED
  BY <1>1, <1>2, OtherHost DEF Origin

(* One host acts: it sends packets with fresh instants, receives something *)
(* now, and changes its own association.                                   *)
ActsOn(h) ==
  /\ Grows
  /\ now' > now
  /\ \A m \in net' \ net : m.from = h /\ m.id >= now /\ m.id < now'
  /\ \A g \in Hosts \ {h} : /\ assoc'[g] = assoc[g]
                             /\ recvd'[g] = recvd[g]
                             /\ samples'[g] = samples[g]
  /\ \A r \in recvd'[h] \ recvd[h] :
       r[2] = now /\ \A m \in net' \ net : m.id # now

-----------------------------------------------------------------------------
(* Every step preserves the invariant *)

BasicParts == Past /\ Names /\ PacketInv /\ AssocInv /\ BasicSound

-----------------------------------------------------------------------------
(* Every step preserves the invariant of the ordinary configurations.      *)
LEMMA BasicInvStep == TypeOK /\ TypeOK' /\ BasicInv /\ [Next]_vars => BasicInv'
(* An acting host keeps the invariant if what it sends, keeps and samples  *)
(* is in order.                                                            *)
<1>BasicActs.
      ASSUME TypeOK, TypeOK', Past, Names, PacketInv, AssocInv, BasicSound,
             NEW h \in Hosts, ActsOn(h),
             assoc'[h].aorg < now',
             AssocInvOf(h, assoc[h])',
             \A m \in net' \ net :
               /\ m.kind # "kod" => m.xmt = m.id /\ Origin(m.from, m.org, m.rec)'
               /\ m.kind = "kod" => /\ m.from \in config.limited
                                    /\ m.org = m.xmt /\ SentBy(Other(m.from), m.xmt)',
             \A s \in samples'[h] \ samples[h] :
               s.kind = "basic" /\ s.t1 # 0 => RoundTrip(h, s)'
      PROVE  Past' /\ Names' /\ PacketInv' /\ AssocInv' /\ BasicSound'
  <2> USE <1>BasicActs
  <2>1. now \in Int /\ now' \in Int /\ now < now'
    BY TimeConstants, SMT DEF ActsOn, TypeOK, Instants
  <2>2. \A m \in net' : m \in Packets /\ m.id \in Int /\ m.from \in Hosts
    BY TimeConstants, SMT DEF TypeOK, Packets, Instants
  <2>3. \A g \in Hosts : \A r \in recvd'[g] : r[2] \in Int
    BY TimeConstants, SMT DEF TypeOK, Instants
  <2>4. \A g \in Hosts : assoc'[g].aorg \in Int /\ assoc[g].aorg \in Int
    BY TimeConstants, SMT DEF TypeOK, Assocs, Timestamps, Instants
  <2>5. Past'
    <3>1. \A m \in net' : m.id < now'
      BY <2>1, <2>2, SMT DEF ActsOn, Past
    <3>2. ASSUME NEW g \in Hosts
          PROVE  assoc'[g].aorg < now' /\ \A r \in recvd'[g] : r[2] < now'
      BY <2>1, <2>3, <2>4, SMT DEF ActsOn, Past
    <3> QED
      BY <3>1, <3>2 DEF Past
  <2>6. Names'
    <3>1. ASSUME NEW m1 \in net', NEW m2 \in net', m1.id = m2.id
          PROVE  m1.from = m2.from
      BY <2>1, <2>2, <3>1, SMT DEF ActsOn, Past, Names
    <3>2. ASSUME NEW m \in net', NEW g \in Hosts, NEW r \in recvd'[g]
          PROVE  r[2] # m.id
      <4>1. CASE m \in net /\ r \in recvd[g]
        BY <4>1 DEF Names
      <4>2. CASE m \in net /\ r \notin recvd[g]
        BY <2>1, <2>2, <4>2, SMT DEF ActsOn, Past
      <4>3. CASE m \notin net /\ r \in recvd[g]
        BY <2>1, <2>2, <2>3, <4>3, SMT DEF ActsOn, Past
      <4>4. CASE m \notin net /\ r \notin recvd[g]
        BY <4>4 DEF ActsOn
      <4> QED
        BY <4>1, <4>2, <4>3, <4>4
    <3> QED
      BY <3>1, <3>2 DEF Names
  <2>7. PacketInv'
    <3> SUFFICES ASSUME NEW m \in net'
                 PROVE /\ m.kind # "kod" => m.xmt = m.id /\ Origin(m.from, m.org, m.rec)'
                       /\ m.kind = "kod" => /\ m.from \in config'.limited
                                            /\ m.org = m.xmt
                                            /\ SentBy(Other(m.from), m.xmt)'
      BY DEF PacketInv
    <3>1. CASE m \in net
      BY <2>2, <3>1, OriginGrows, OtherHost DEF PacketInv, ActsOn, Grows
    <3>2. CASE m \notin net
      BY <3>2 DEF ActsOn, Grows
    <3> QED
      BY <3>1, <3>2
  <2>8. AssocInv'
    <3> SUFFICES ASSUME NEW g \in Hosts, g # h PROVE AssocInvOf(g, assoc[g])'
      BY DEF AssocInv
    <3> DEFINE a == assoc[g]
    <3>1. assoc'[g] = a /\ AssocInvOf(g, a) /\ Other(g) = h
      BY HostsDiffer, SMT DEF ActsOn, AssocInv, Hosts, Other
    <3>2. Mode(h)' = Mode(h)
      BY DEF Mode, ActsOn, Grows
    <3>3. a.aorg = 0 \/ ~SentBy(h, a.aorg) => a.aorg = 0 \/ ~SentBy(h, a.aorg)'
      BY <2>1, <2>2, <2>4, SMT DEF SentBy, ActsOn, Past
    <3>4. Origin(g, a.rec, a.dst)'
      BY <3>1, OriginGrows DEF AssocInvOf, ActsOn
    <3>5. a.dst = 0 \/ \E r \in recvd'[g] : r[2] = a.dst
      BY <3>1 DEF AssocInvOf, ActsOn, Grows
    <3> QED
      BY <3>1, <3>2, <3>3, <3>4, <3>5 DEF AssocInvOf
  <2>9. BasicSound'
    <3> SUFFICES ASSUME NEW g \in Hosts, NEW s \in samples'[g],
                        s.kind = "basic", s.t1 # 0
                 PROVE  RoundTrip(g, s)'
      BY DEF BasicSound
    <3>1. CASE s \in samples[g]
      BY <3>1, OriginGrows, OtherHost DEF BasicSound, RoundTrip, ActsOn
    <3>2. CASE s \notin samples[g]
      BY <3>2 DEF ActsOn
    <3> QED
      BY <3>1, <3>2
  <2> QED
    BY <2>5, <2>6, <2>7, <2>8, <2>9
(* A basic association is never switched to interleaved mode: what comes   *)
(* back as an origin timestamp is an instant at which a packet left, and   *)
(* dst is an instant at which one arrived.                                 *)
<1>CheckedBasic.
      ASSUME TypeOK, Names, PacketInv, AssocInv,
             NEW h \in Hosts, NEW m \in net, m.from = Other(h)
      PROVE  /\ Checked(assoc[h], m).flip = 0
             /\ Checked(assoc[h], m).aorg \in {0, assoc[h].aorg}
             /\ Checked(assoc[h], m).rec = IF FromBroadcast(m) THEN assoc[h].rec ELSE m.xmt
             /\ Checked(assoc[h], m).dst = now
             /\ Checked(assoc[h], m) \in Assocs
  <2> USE <1>CheckedBasic
  <2> DEFINE a == assoc[h]
  <2>1. a \in Assocs /\ a.flip = 0 /\ m \in Packets
    BY DEF TypeOK, AssocInv, AssocInvOf
  <2>2. m.org = 0 \/ \E p \in net : p.id = m.org
    <3>1. CASE m.kind = "kod"
      <4>1. m.org = m.xmt /\ SentBy(Other(m.from), m.xmt)
        BY <3>1 DEF PacketInv
      <4> QED
        BY <4>1 DEF SentBy
    <3>2. CASE m.kind # "kod"
      <4>1. Origin(m.from, m.org, m.rec)
        BY <3>2 DEF PacketInv
      <4> QED
        BY <4>1 DEF Origin, Travelled, SentBy
    <3> QED
      BY <3>1, <3>2
  <2>3. ~BasicSwitch(a, m)
    BY <2>2 DEF BasicSwitch, AssocInv, AssocInvOf, Names
  <2>4. Checked(a, m) \in Assocs
    BY <2>1, CheckedType DEF TypeOK
  <2> HIDE DEF a
  <2>5. /\ Checked(a, m).flip = a.flip
        /\ Checked(a, m).aorg \in {0, a.aorg}
        /\ Checked(a, m).rec = IF a.flip = 0 /\ ~FromBroadcast(m) THEN m.xmt ELSE a.rec
        /\ Checked(a, m).dst = IF a.flip = 0 THEN now ELSE a.dst
    <3> DEFINE xbogus == SymmetricCrossed(a, m)
               aorg == IF BasicMatch(a, m) THEN 0 ELSE a.aorg
               rec == IF a.flip = 0 /\ ~FromBroadcast(m) THEN m.xmt ELSE a.rec
               dst == IF a.flip = 0 THEN now ELSE a.dst
    <3>1. Checked(a, m) = [a EXCEPT !.xbogus = xbogus, !.aorg = aorg,
                                    !.flip = a.flip, !.rec = rec, !.dst = dst,
                                    !.xmt = m.xmt]
      BY <2>3 DEF Checked
    <3>2. aorg \in {0, a.aorg}
      OBVIOUS
    <3> HIDE DEF xbogus, aorg, rec, dst
    <3>3. /\ Checked(a, m).flip = a.flip
          /\ Checked(a, m).aorg = aorg
          /\ Checked(a, m).rec = rec
          /\ Checked(a, m).dst = dst
      BY <2>1, <3>1 DEF Assocs
    <3> QED
      BY <3>2, <3>3 DEF rec, dst
  <2> QED
    BY <2>1, <2>4, <2>5 DEF a
(* The transmit timestamp of a packet just received, with the instant of   *)
(* its reception, is a pair that belongs together.                         *)
<1>EchoOrigin.
      ASSUME TypeOK, PacketInv, Grows, NEW h \in Hosts, NEW m \in net, m.from = Other(h),
             <<m.id, now>> \in recvd'[h], NEW t, t = now
      PROVE  Origin(h, m.xmt, t)'
  <2> USE <1>EchoOrigin
  <2>1. CASE m.kind = "kod"
    <3>1. SentBy(h, m.xmt)
      BY <2>1, OtherHost DEF PacketInv
    <3> QED
      BY <3>1, OriginGrows DEF Origin
  <2>2. CASE m.kind # "kod"
    <3>1. m.xmt = m.id
      BY <2>2 DEF PacketInv
    <3>2. m \in net'
      BY DEF Grows
    <3>3. Travelled(Other(h), m.xmt, t)'
      BY <3>1, <3>2, OtherHost DEF Travelled
    <3> QED
      BY <3>3 DEF Origin
  <2> QED
    BY <2>1, <2>2
(* The transmit timestamp of every packet is in the past.                  *)
<1>XmtPast.
      ASSUME PacketInv, Past, NEW m \in net
      PROVE  m.xmt < now
  <2> USE <1>XmtPast
  <2>1. CASE m.kind = "kod"
    BY <2>1 DEF PacketInv, Past, SentBy
  <2>2. CASE m.kind # "kod"
    BY <2>2 DEF PacketInv, Past
  <2> QED
    BY <2>1, <2>2
(* A host that receives m and sends nothing with its instant acts.         *)
<1>ReceivedActs.
      ASSUME TypeOK, NEW h \in Hosts, NEW m \in net, NEW fault, Received(h, m, fault)
      PROVE  /\ m.from = Other(h)
             /\ <<m.id, now>> \in recvd'[h]
             /\ \A g \in Hosts \ {h} : recvd'[g] = recvd[g]
             /\ \A r \in recvd'[h] \ recvd[h] : r[2] = now
             /\ \A g \in Hosts : recvd[g] \subseteq recvd'[g]
             /\ config' = config
  BY <1>ReceivedActs, SMT DEF Received, Matches, TypeOK
(* What every path of receive() beyond the duplicate check leaves of the   *)
(* association is in order.                                                *)
<1>ReceivedAssoc.
      ASSUME TypeOK, TypeOK', Ordinary, Past, Names, PacketInv, AssocInv, Grows,
             NEW h \in Hosts, NEW m \in net, NEW fault, Received(h, m, fault),
             net' \ net = {} \/ \A p \in net' \ net : p.from = h,
             assoc'[h].flip = 0,
             FromBroadcast(m) \/ assoc'[h].aorg \in {0, assoc[h].aorg},
             \/ assoc'[h].rec = 0 /\ assoc'[h].dst = 0
             \/ /\ assoc'[h].rec = IF FromBroadcast(m) THEN assoc[h].rec ELSE m.xmt
                /\ assoc'[h].dst = now
             \/ assoc'[h].rec = assoc[h].rec /\ assoc'[h].dst = assoc[h].dst
      PROVE  AssocInvOf(h, assoc[h])'
  <2> USE <1>ReceivedAssoc
  <2>1. m.from = Other(h) /\ <<m.id, now>> \in recvd'[h] /\ config' = config
    BY <1>ReceivedActs
  <2>2. Mode(Other(h))' = Mode(Other(h))
    BY <2>1 DEF Mode
  <2>3. FromBroadcast(m) <=> Mode(Other(h)) = "broadcast"
    BY <2>1 DEF FromBroadcast
  <2>4. AssocInvOf(h, assoc[h])
    BY DEF AssocInv
  <2>5. Mode(Other(h)) # "broadcast" =>
          assoc'[h].aorg = 0 \/ ~SentBy(Other(h), assoc[h].aorg)'
    <3> SUFFICES ASSUME Mode(Other(h)) # "broadcast",
                        NEW p \in net', p.from = Other(h), p.id = assoc'[h].aorg,
                        assoc'[h].aorg # 0
                 PROVE  FALSE
      BY DEF SentBy
    <3>1. assoc'[h].aorg = assoc[h].aorg
      BY <2>3
    <3>2. p \in net
      BY OtherHost
    <3> QED
      BY <2>4, <3>1, <3>2 DEF AssocInvOf, SentBy
  <2>6. Mode(Other(h)) = "broadcast" => assoc'[h].rec = 0
    BY <2>3, <2>4 DEF AssocInvOf
  <2>7. Origin(h, assoc[h].rec, assoc[h].dst)'
    <3>1. CASE assoc'[h].rec = 0
      BY <3>1 DEF Origin
    <3>2. CASE assoc'[h].rec = m.xmt /\ assoc'[h].dst = now
      BY <2>1, <3>2, <1>EchoOrigin
    <3>3. CASE assoc'[h].rec = assoc[h].rec /\ assoc'[h].dst = assoc[h].dst
      BY <2>4, <3>3, OriginGrows DEF AssocInvOf
    <3> QED
      BY <2>3, <2>6, <3>1, <3>2, <3>3
  <2>8. assoc'[h].dst = 0 \/ \E r \in recvd'[h] : r[2] = assoc'[h].dst
    BY <2>1, <2>4 DEF AssocInvOf, Grows
  <2> QED
    BY <2>2, <2>5, <2>6, <2>7, <2>8 DEF AssocInvOf
(* A poll: the pair in the packet is the association's, the new origin     *)
(* timestamp is fresh.                                                     *)
<1>PollStep.
      ASSUME TypeOK, TypeOK', Ordinary, BasicParts, NEW h \in Hosts,
             PeerXmit(h) \/ PeerXmitNoKey(h)
      PROVE  BasicParts'
  <2> USE <1>PollStep
  <2> USE DEF BasicParts
  <2> DEFINE t == PollTime(h)
             p == PeerXmitPacket(h, t)
  <2>1. /\ t \in Instants /\ t >= now /\ now' = t + 1 /\ net \subseteq net'
        /\ config' = config /\ recvd' = recvd /\ samples' = samples
    BY PollType DEF PeerXmit, PeerXmitNoKey, Polls
  <2>2. t \in Int /\ now \in Int /\ t # 0
    BY <2>1, TimeConstants, SMT DEF TypeOK, Instants
  <2>3. assoc[h] \in Assocs /\ AssocInvOf(h, assoc[h])
    BY DEF TypeOK, AssocInv
  <2>4. /\ p.from = h /\ p.id = t /\ p.kind = "time" /\ p.xmt = t
        /\ p.org = assoc[h].rec /\ p.rec = assoc[h].dst
    BY <2>3 DEF PeerXmitPacket, AssocInvOf
  <2>5. net' = net \/ net' = net \cup {p}
    BY DEF PeerXmit, PeerXmitNoKey
  <2>6. /\ assoc'[h] = [assoc[h] EXCEPT !.aorg = t]
        /\ \A g \in Hosts \ {h} : assoc'[g] = assoc[g]
    <3>1. CASE PeerXmit(h)
      BY <2>3, <3>1, SMT DEF PeerXmit, PeerXmitAssoc, AssocInvOf, TypeOK
    <3>2. CASE PeerXmitNoKey(h)
      BY <2>3, <3>2 DEF PeerXmitNoKey, AssocInvOf, TypeOK
    <3> QED
      BY <3>1, <3>2
  <2>7. /\ assoc'[h].aorg = t /\ assoc'[h].flip = 0
        /\ assoc'[h].rec = assoc[h].rec /\ assoc'[h].dst = assoc[h].dst
    BY <2>3, <2>6 DEF Assocs, AssocInvOf
  <2> HIDE DEF t, p
  <2>8. Grows
    BY <2>1 DEF Grows
  <2>9. ActsOn(h)
    BY <2>1, <2>2, <2>4, <2>5, <2>6, <2>8, SMT DEF ActsOn
  <2>10. AssocInvOf(h, assoc[h])'
    <3>1. ~SentBy(Other(h), assoc[h].aorg)'
      <4> SUFFICES ASSUME NEW m \in net', m.from = Other(h), m.id = t
                   PROVE FALSE
        BY <2>7 DEF SentBy
      <4>1. m \in net
        BY <2>4, <2>5, OtherHost, SMT
      <4> QED
        BY <2>1, <2>2, <4>1, SMT DEF Past
    <3>2. Origin(h, assoc[h].rec, assoc[h].dst)'
      BY <2>3, <2>7, <2>8, OriginGrows DEF AssocInvOf
    <3>3. Mode(Other(h))' = Mode(Other(h))
      BY <2>1 DEF Mode
    <3> QED
      BY <2>1, <2>3, <2>7, <3>1, <3>2, <3>3 DEF AssocInvOf
  <2>11. ASSUME NEW m \in net' \ net
         PROVE  m.kind = "time" /\ m.xmt = m.id /\ Origin(m.from, m.org, m.rec)'
    <3>1. m = p
      BY <2>5
    <3>2. Origin(h, assoc[h].rec, assoc[h].dst)'
      BY <2>10 DEF AssocInvOf
    <3> QED
      BY <2>4, <2>7, <3>1, <3>2
  <2>12. assoc'[h].aorg < now'
    BY <2>1, <2>2, <2>7, SMT
  <2> QED
    BY <2>1, <2>9, <2>10, <2>11, <2>12, <1>BasicActs
(* peer_clear() on its own: the association forgets everything.            *)
<1>ClearStep.
      ASSUME TypeOK, TypeOK', Ordinary, BasicParts, NEW h \in Hosts, Clear(h)
      PROVE  BasicParts'
  <2> USE <1>ClearStep
  <2> USE DEF BasicParts
  <2>1. /\ now' = now + 1 /\ net' = net /\ config' = config
        /\ recvd' = recvd /\ samples' = samples
        /\ assoc'[h] = PeerClear(h, assoc[h])
        /\ \A g \in Hosts \ {h} : assoc'[g] = assoc[g]
    BY DEF Clear, TypeOK
  <2>2. assoc[h] \in Assocs /\ now \in Int /\ now > 0
    BY TimeConstants, SMT DEF TypeOK, Instants
  <2>3. /\ assoc'[h].aorg = 0 /\ assoc'[h].flip = 0
        /\ assoc'[h].rec = 0 /\ assoc'[h].dst = 0
    BY <2>1, <2>2 DEF PeerClear, Assocs, Ordinary
  <2>4. ActsOn(h)
    BY <2>1, <2>2, SMT DEF ActsOn, Grows
  <2>5. AssocInvOf(h, assoc[h])'
    BY <2>3 DEF AssocInvOf, Origin
  <2>6. assoc'[h].aorg < now'
    BY <2>1, <2>2, <2>3, SMT
  <2>7. net' \ net = {} /\ samples'[h] \ samples[h] = {}
    BY <2>1
  <2> QED
    BY <2>4, <2>5, <2>6, <2>7, <1>BasicActs
(* A reply made from the packet alone, or a kiss-o'-death.                 *)
<1>FastXmitStep.
      ASSUME TypeOK, TypeOK', Ordinary, BasicParts, NEW h \in Hosts, NEW m \in net,
             NEW kind \in {"time", "nak", "kod"}, FastXmit(h, m, kind)
      PROVE  BasicParts'
  <2> USE <1>FastXmitStep
  <2> USE DEF BasicParts
  <2>0. PICK p : p = FastXmitPacket(h, m, kind, now, now + 1)
    OBVIOUS
  <2>1. /\ now' = now + 2 /\ net' = net \cup {p} /\ config' = config
        /\ assoc' = assoc /\ samples' = samples /\ m.from = Other(h)
        /\ kind = "kod" => h \in config.limited
        /\ recvd' = [recvd EXCEPT ![h] = @ \cup {<<m.id, now>>}]
    BY <2>0 DEF FastXmit
  <2>2. now \in Int /\ AssocInvOf(h, assoc[h]) /\ assoc[h] \in Assocs
    BY TimeConstants, SMT DEF TypeOK, Instants, AssocInv
  <2>3. p.from = h /\ p.id = now + 1 /\ p.kind = kind /\ p.org = m.xmt
    BY <2>0 DEF FastXmitPacket
  <2>4. /\ kind # "kod" => p.xmt = now + 1 /\ p.rec = now
        /\ kind = "kod" => p.xmt = m.xmt
    BY <2>0 DEF FastXmitPacket
  <2>5. /\ <<m.id, now>> \in recvd'[h] /\ Grows
        /\ \A g \in Hosts \ {h} : recvd'[g] = recvd[g]
        /\ \A r \in recvd'[h] \ recvd[h] : r[2] = now
    BY <2>1, SMT DEF TypeOK, Grows
  <2>6. ActsOn(h)
    BY <2>1, <2>2, <2>3, <2>5, SMT DEF ActsOn
  <2>7. AssocInvOf(h, assoc[h])'
    <3>1. Origin(h, assoc[h].rec, assoc[h].dst)'
      BY <2>1, <2>2, <2>5, OriginGrows DEF AssocInvOf
    <3>2. Mode(Other(h))' = Mode(Other(h))
      BY <2>1 DEF Mode
    <3>3. Mode(Other(h)) # "broadcast" =>
            assoc[h].aorg = 0 \/ ~SentBy(Other(h), assoc[h].aorg)'
      BY <2>1, <2>2, <2>3, OtherHost DEF AssocInvOf, SentBy
    <3> QED
      BY <2>1, <2>2, <2>5, <3>1, <3>2, <3>3 DEF AssocInvOf, Grows
  <2>9. kind # "kod" => p.xmt = p.id /\ Origin(p.from, p.org, p.rec)'
    BY <2>1, <2>3, <2>4, <2>5, <1>EchoOrigin
  <2>10. kind = "kod" => p.org = p.xmt /\ SentBy(Other(p.from), p.xmt)'
    <3> SUFFICES ASSUME kind = "kod" PROVE SentBy(Other(h), m.xmt)'
      BY <2>3, <2>4
    <3>1. m.kind # "kod"
      BY <2>1, OtherHost DEF PacketInv, Ordinary, Hosts
    <3>2. m.xmt = m.id
      BY <3>1 DEF PacketInv
    <3> QED
      BY <2>1, <3>2 DEF SentBy
  <2>11. assoc'[h].aorg < now'
    BY <2>1, <2>2, TimeConstants, SMT DEF Past, Assocs, Timestamps, Instants
  <2> QED
    BY <2>1, <2>3, <2>6, <2>7, <2>9, <2>10, <2>11, <1>BasicActs
(* Receptions that send nothing and sample nothing.                        *)
<1>QuietStep.
      ASSUME TypeOK, TypeOK', Ordinary, BasicParts, NEW h \in Hosts, NEW m \in net,
             \/ ReceiveDuplicate(h, m)
             \/ ReceiveBeginXB(h, m)
             \/ ReceiveRefusal(h, m)
             \/ \E headerOK \in BOOLEAN : ReceiveNoSample(h, m, headerOK)
      PROVE  BasicParts'
  <2> USE <1>QuietStep
  <2> USE DEF BasicParts
  <2>1. PICK fault \in BOOLEAN : Received(h, m, fault)
    BY DEF ReceiveDuplicate, ReceiveBeginXB, ReceiveRefusal, ReceiveNoSample, Checks
  <2>2. now' = now + 1 /\ net' = net /\ samples' = samples
    BY DEF ReceiveDuplicate, ReceiveBeginXB, ReceiveRefusal, ReceiveNoSample
  <2>3. /\ now \in Int /\ now > 0 /\ assoc[h] \in Assocs /\ m \in Packets
        /\ AssocInvOf(h, assoc[h])
    BY TimeConstants, SMT DEF TypeOK, Instants, AssocInv
  <2>4. m.from = Other(h) /\ Grows
    BY <2>1, <2>2, <1>ReceivedActs DEF Grows
  <2>5. \A g \in Hosts \ {h} : assoc'[g] = assoc[g]
    BY DEF ReceiveDuplicate, ReceiveBeginXB, ReceiveRefusal, ReceiveNoSample, TypeOK
  <2>6. /\ assoc'[h].flip = 0
        /\ assoc'[h].aorg \in {0, assoc[h].aorg} \cup (IF FromBroadcast(m) THEN {m.xmt} ELSE {})
        /\ \/ assoc'[h].rec = assoc[h].rec /\ assoc'[h].dst = assoc[h].dst
           \/ /\ assoc'[h].rec = IF FromBroadcast(m) THEN assoc[h].rec ELSE m.xmt
              /\ assoc'[h].dst = now
    <3>1. CASE ReceiveDuplicate(h, m)
      <4>1. assoc'[h] = [assoc[h] EXCEPT !.xbogus = FALSE]
        BY <3>1 DEF ReceiveDuplicate, TypeOK
      <4> QED
        BY <2>3, <4>1 DEF Assocs, AssocInvOf
    <3>2. CASE ReceiveBeginXB(h, m)
      <4>1. assoc'[h] = [assoc[h] EXCEPT !.xbogus = FALSE, !.xb = TRUE,
                                         !.aorg = m.xmt, !.borg = now]
        BY <3>2 DEF ReceiveBeginXB, TypeOK
      <4>2. FromBroadcast(m)
        BY <3>2 DEF ReceiveBeginXB, BeginsXB
      <4>3. /\ assoc'[h].flip = assoc[h].flip /\ assoc'[h].aorg = m.xmt
            /\ assoc'[h].rec = assoc[h].rec /\ assoc'[h].dst = assoc[h].dst
        BY <2>3, <4>1 DEF Assocs
      <4> QED
        BY <2>3, <4>2, <4>3 DEF AssocInvOf
    <3>3. CASE ReceiveRefusal(h, m)
      <4>1. assoc'[h] = Checked(assoc[h], m)
        BY <3>3 DEF ReceiveRefusal, TypeOK
      <4> QED
        BY <2>4, <4>1, <1>CheckedBasic
    <3>4. CASE \E headerOK \in BOOLEAN : ReceiveNoSample(h, m, headerOK)
      <4> DEFINE c == Checked(assoc[h], m)
      <4>1. c \in Assocs /\ c.flip = 0
        BY <2>4, <1>CheckedBasic
      <4>2. assoc'[h] \in {Finish(c, m), Finish(SaveXB(c, m), m)}
        BY <3>4 DEF ReceiveNoSample, TypeOK
      <4>3. Finish(c, m) = c
        BY <4>1 DEF Finish
      <4>4. /\ SaveXB(c, m).flip = c.flip /\ SaveXB(c, m).rec = c.rec
            /\ SaveXB(c, m).dst = c.dst
            /\ SaveXB(c, m).aorg = c.aorg \/ (FromBroadcast(m) /\ SaveXB(c, m).aorg = m.xmt)
        BY <4>1 DEF SaveXB, Assocs
      <4>5. Finish(SaveXB(c, m), m) = SaveXB(c, m)
        BY <4>1, <4>4 DEF Finish
      <4>6. assoc'[h] = c \/ assoc'[h] = SaveXB(c, m)
        BY <4>2, <4>3, <4>5
      <4>7. /\ c.aorg \in {0, assoc[h].aorg} /\ c.dst = now
            /\ c.rec = IF FromBroadcast(m) THEN assoc[h].rec ELSE m.xmt
        BY <2>4, <1>CheckedBasic
      <4> HIDE DEF c
      <4> QED
        BY <4>1, <4>4, <4>6, <4>7
    <3> QED
      BY <3>1, <3>2, <3>3, <3>4
  <2>7. AssocInvOf(h, assoc[h])'
    <3>1. FromBroadcast(m) \/ assoc'[h].aorg \in {0, assoc[h].aorg}
      BY <2>6
    <3>2. net' \ net = {}
      BY <2>2
    <3> QED
      BY <2>1, <2>4, <2>6, <3>1, <3>2, <1>ReceivedAssoc
  <2>8. assoc'[h].aorg < now'
    <3>1. assoc[h].aorg < now /\ m.xmt < now
      BY <1>XmtPast DEF Past
    <3>2. assoc[h].aorg \in Int /\ m.xmt \in Int
      BY <2>3, TimeConstants, SMT DEF Assocs, Packets, Timestamps, Instants
    <3>3. assoc'[h].aorg \in {0, assoc[h].aorg, m.xmt}
      BY <2>6
    <3> QED
      BY <2>2, <2>3, <3>1, <3>2, <3>3, SMT
  <2>9. ActsOn(h)
    <3>1. /\ \A g \in Hosts \ {h} : recvd'[g] = recvd[g]
          /\ \A r \in recvd'[h] \ recvd[h] : r[2] = now
      BY <2>1, <1>ReceivedActs
    <3>2. now' > now /\ net' \ net = {}
      BY <2>2, <2>3, SMT
    <3> QED
      BY <2>2, <2>4, <2>5, <3>1, <3>2 DEF ActsOn
  <2> QED
    BY <2>2, <2>7, <2>8, <2>9, <1>BasicActs
(* A packet that fails authentication, and the crypto-NAK it provokes.     *)
<1>BadAuthStep.
      ASSUME TypeOK, TypeOK', Ordinary, BasicParts, NEW h \in Hosts, NEW m \in net,
             ReceiveBadAuth(h, m)
      PROVE  BasicParts'
  <2> USE <1>BadAuthStep
  <2> USE DEF BasicParts
  <2>0. PICK p : p = FastXmitPacket(h, m, "nak", now, now + 1)
    OBVIOUS
  <2>1. Received(h, m, TRUE) /\ now' = now + 2 /\ samples' = samples
    BY DEF ReceiveBadAuth, Checks
  <2>2. net' = net \/ net' = net \cup {p}
    BY <2>0 DEF ReceiveBadAuth
  <2>3. /\ p.from = h /\ p.id = now + 1 /\ p.kind = "nak" /\ p.org = m.xmt
        /\ p.xmt = now + 1 /\ p.rec = now
    BY <2>0 DEF FastXmitPacket
  <2>4. now \in Int /\ now > 0 /\ assoc[h] \in Assocs
    BY TimeConstants, SMT DEF TypeOK, Instants
  <2>5. m.from = Other(h) /\ Grows /\ <<m.id, now>> \in recvd'[h]
    BY <2>1, <2>2, <1>ReceivedActs DEF Grows
  <2>6. /\ \A g \in Hosts \ {h} : assoc'[g] = assoc[g]
        /\ assoc'[h] = Checked(assoc[h], m)
    BY DEF ReceiveBadAuth, TypeOK
  <2>7. AssocInvOf(h, assoc[h])'
    <3>1. \A q \in net' \ net : q.from = h
      BY <2>2, <2>3
    <3>2. /\ assoc'[h].flip = 0 /\ assoc'[h].aorg \in {0, assoc[h].aorg}
          /\ assoc'[h].rec = IF FromBroadcast(m) THEN assoc[h].rec ELSE m.xmt
          /\ assoc'[h].dst = now
      BY <2>5, <2>6, <1>CheckedBasic
    <3> QED
      BY <2>1, <2>5, <3>1, <3>2, <1>ReceivedAssoc
  <2>8. assoc'[h].aorg < now'
    <3>1. assoc[h].aorg < now
      BY DEF Past
    <3>2. assoc[h].aorg \in Int
      BY <2>4, TimeConstants, SMT DEF Assocs, Timestamps, Instants
    <3>3. assoc'[h].aorg \in {0, assoc[h].aorg}
      BY <2>5, <2>6, <1>CheckedBasic
    <3> QED
      BY <2>1, <2>4, <3>1, <3>2, <3>3, SMT
  <2>9. ActsOn(h)
    <3>1. /\ \A g \in Hosts \ {h} : recvd'[g] = recvd[g]
          /\ \A r \in recvd'[h] \ recvd[h] : r[2] = now
      BY <2>1, <1>ReceivedActs
    <3>2. now' > now /\ now + 1 >= now /\ now + 1 # now /\ now + 1 < now'
      BY <2>1, <2>4, SMT
    <3>3. \A q \in net' \ net :
            q.from = h /\ q.id >= now /\ q.id # now /\ q.id < now'
      <4>1. \A q \in net' \ net : q = p
        BY <2>2
      <4> QED
        BY <2>3, <3>2, <4>1
    <3>4. \A g \in Hosts : samples'[g] = samples[g]
      BY <2>1
    <3> QED
      BY <2>5, <2>6, <3>1, <3>2, <3>3, <3>4 DEF ActsOn
  <2>10. Origin(h, m.xmt, p.rec)'
    BY <2>3, <2>5, <1>EchoOrigin
  <2> QED
    BY <2>1, <2>2, <2>3, <2>7, <2>8, <2>9, <2>10, <1>BasicActs
(* A sample: its origin timestamp is aorg, an instant of this host, so the *)
(* packet answers the poll of that instant.                                *)
<1>SampleStep.
      ASSUME TypeOK, TypeOK', Ordinary, BasicParts, NEW h \in Hosts, NEW m \in net,
             NEW step \in BOOLEAN, ReceiveSample(h, m, step)
      PROVE  BasicParts'
  <2> USE <1>SampleStep
  <2> USE DEF BasicParts
  <2>1. /\ Received(h, m, step) /\ now' = now + 1 /\ net' = net /\ m.kind = "time"
        /\ TestsPass(assoc[h], m)
    BY DEF ReceiveSample, Checks
  <2>2. /\ now \in Int /\ now > 0 /\ assoc[h] \in Assocs /\ m \in Packets
        /\ AssocInvOf(h, assoc[h])
    BY TimeConstants, SMT DEF TypeOK, Instants, AssocInv
  <2>3. m.from = Other(h) /\ Grows /\ <<m.id, now>> \in recvd'[h]
    BY <2>1, <1>ReceivedActs DEF Grows
  <2>4. \A g \in Hosts \ {h} : assoc'[g] = assoc[g] /\ samples'[g] = samples[g]
    BY DEF ReceiveSample, TypeOK
  <2>5. PICK c : c = Checked(assoc[h], m)
    OBVIOUS
  <2>6. /\ c \in Assocs /\ c.flip = 0 /\ c.aorg \in {0, assoc[h].aorg} /\ c.dst = now
        /\ c.rec = IF FromBroadcast(m) THEN assoc[h].rec ELSE m.xmt
    BY <2>3, <2>5, <1>CheckedBasic
  <2>7. /\ assoc'[h].flip = 0
        /\ assoc'[h].aorg \in {0, assoc[h].aorg} \cup (IF FromBroadcast(m) THEN {m.xmt} ELSE {})
        /\ \/ assoc'[h].rec = 0 /\ assoc'[h].dst = 0
           \/ /\ assoc'[h].rec = IF FromBroadcast(m) THEN assoc[h].rec ELSE m.xmt
              /\ assoc'[h].dst = now
    <3>1. PICK x : x = SaveXB(c, m)
      OBVIOUS
    <3>2. /\ x \in Assocs /\ x.flip = 0 /\ x.rec = c.rec /\ x.dst = c.dst
          /\ x.aorg = c.aorg \/ (FromBroadcast(m) /\ x.aorg = m.xmt)
      <4>1. x \in Assocs
        BY <2>2, <2>6, <3>1, FinishType DEF TypeOK
      <4> QED
        BY <2>6, <3>1, <4>1 DEF SaveXB, Assocs
    <3>3. /\ PeerClear(h, x).flip = 0 /\ PeerClear(h, x).rec = 0
          /\ PeerClear(h, x).dst = 0 /\ PeerClear(h, x).aorg = 0
      BY <3>2 DEF PeerClear, Assocs, Ordinary
    <3>4. assoc'[h] = Finish(IF step THEN PeerClear(h, x) ELSE x, m)
      BY <2>5, <3>1 DEF ReceiveSample, TypeOK
    <3>5. assoc'[h] = x \/ assoc'[h] = PeerClear(h, x)
      BY <3>2, <3>3, <3>4 DEF Finish
    <3> QED
      BY <2>6, <3>2, <3>3, <3>5
  <2>8. AssocInvOf(h, assoc[h])'
    <3>1. FromBroadcast(m) \/ assoc'[h].aorg \in {0, assoc[h].aorg}
      BY <2>7
    <3>2. net' \ net = {}
      BY <2>1
    <3> QED
      BY <2>1, <2>3, <2>7, <3>1, <3>2, <1>ReceivedAssoc
  <2>9. assoc'[h].aorg < now'
    <3>1. assoc[h].aorg < now /\ m.xmt < now
      BY <1>XmtPast DEF Past
    <3>2. assoc[h].aorg \in Int /\ m.xmt \in Int
      BY <2>2, TimeConstants, SMT DEF Assocs, Packets, Timestamps, Instants
    <3>3. assoc'[h].aorg \in {0, assoc[h].aorg, m.xmt}
      BY <2>7
    <3>4. now' = now + 1 /\ now \in Int /\ now > 0
      BY <2>1, <2>2
    <3>5. ASSUME NEW t \in {0, assoc[h].aorg, m.xmt} PROVE t < now'
      BY <3>1, <3>2, <3>4, <3>5, SMT
    <3> QED
      BY <3>3, <3>5
  <2>10. ActsOn(h)
    <3>1. /\ \A g \in Hosts \ {h} : recvd'[g] = recvd[g]
          /\ \A r \in recvd'[h] \ recvd[h] : r[2] = now
      BY <2>1, <1>ReceivedActs
    <3>2. now' > now /\ net' \ net = {}
      BY <2>1, <2>2, SMT
    <3> QED
      BY <2>3, <2>4, <3>1, <3>2 DEF ActsOn
  <2>11. ASSUME NEW s \in samples'[h] \ samples[h], s.kind = "basic", s.t1 # 0
         PROVE  RoundTrip(h, s)'
    <3>1. s = SampleOf(c, m)
      BY <2>5 DEF ReceiveSample, TypeOK
    <3>2. /\ ~FromBroadcast(m)
          /\ s.t1 = m.org /\ s.t2 = m.rec /\ s.t3 = m.xmt /\ s.t4 = now
      BY <2>6, <2>11, <3>1 DEF SampleOf
    <3>3. m.org = assoc[h].aorg
      BY <2>1, <2>2, <3>2 DEF TestsPass, BasicMatch, SymmetricMatch, AssocInvOf
    <3>4. m.xmt = m.id /\ Origin(Other(h), m.org, m.rec)
      BY <2>1, <2>3 DEF PacketInv
    <3>5. ~SentBy(Other(h), m.org)
      BY <2>2, <2>3, <2>11, <3>2, <3>3 DEF AssocInvOf, FromBroadcast
    <3>6. Travelled(h, m.org, m.rec)
      BY <2>11, <3>2, <3>4, <3>5, OtherHost DEF Origin
    <3>7. Travelled(h, m.org, m.rec)'
      BY <2>3, <3>6, OriginGrows
    <3>8. Travelled(Other(h), m.xmt, s.t4)'
      BY <2>1, <2>3, <3>2, <3>4, OtherHost DEF Travelled
    <3> QED
      BY <3>2, <3>7, <3>8 DEF RoundTrip
  <2> QED
    BY <2>1, <2>8, <2>9, <2>10, <2>11, <1>BasicActs
<1> SUFFICES ASSUME TypeOK, TypeOK', BasicInv, [Next]_vars, Ordinary'
             PROVE  BasicParts'
  BY DEF BasicInv, BasicParts
<1>1. config' = config
  <2>1. ASSUME NEW h \in Hosts, PeerXmit(h) \/ PeerXmitNoKey(h) \/ Clear(h)
        PROVE  config' = config
    BY <2>1 DEF PeerXmit, PeerXmitNoKey, Clear
  <2>2. ASSUME NEW h \in Hosts, NEW m \in net, NEW kind, FastXmit(h, m, kind)
        PROVE  config' = config
    BY <2>2 DEF FastXmit
  <2>3. ASSUME NEW h \in Hosts, NEW m \in net, NEW fault, Received(h, m, fault)
        PROVE  config' = config
    BY <2>3 DEF Received
  <2>4. ASSUME NEW h \in Hosts, NEW m \in net,
               \/ ReceiveDuplicate(h, m) \/ ReceiveBeginXB(h, m)
               \/ ReceiveRefusal(h, m) \/ ReceiveBadAuth(h, m)
               \/ \E headerOK \in BOOLEAN : ReceiveNoSample(h, m, headerOK)
               \/ \E step \in BOOLEAN : ReceiveSample(h, m, step)
        PROVE  config' = config
    BY <2>3, <2>4 DEF ReceiveDuplicate, ReceiveBeginXB, ReceiveRefusal,
       ReceiveBadAuth, ReceiveNoSample, ReceiveSample, Checks
  <2> QED
    BY <2>1, <2>2, <2>4 DEF Next, vars
<1>2. Ordinary /\ BasicParts
  BY <1>1 DEF Ordinary, BasicInv, BasicParts
<1>3. CASE UNCHANGED vars
  <2>1. UNCHANGED <<config, now, assoc, net, recvd, samples>>
    BY <1>3 DEF vars
  <2>2. Past' /\ Names'
    BY <1>2, <2>1 DEF BasicParts, Past, Names
  <2>3. PacketInv'
    BY <1>2, <2>1 DEF BasicParts, PacketInv, Origin, Travelled, SentBy
  <2>4. AssocInv'
    <3>1. ASSUME NEW h \in Hosts PROVE AssocInvOf(h, assoc[h])'
      <4>1. AssocInvOf(h, assoc[h])
        BY <1>2 DEF BasicParts, AssocInv
      <4> QED
        BY <4>1, <2>1 DEF AssocInvOf, Origin, Travelled, SentBy, Mode
    <3> QED
      BY <3>1 DEF AssocInv
  <2>5. BasicSound'
    BY <1>2, <2>1 DEF BasicParts, BasicSound, RoundTrip, Travelled
  <2> QED
    BY <2>2, <2>3, <2>4, <2>5 DEF BasicParts
<1>4. CASE Next
  BY <1>2, <1>4, <1>PollStep, <1>ClearStep, <1>FastXmitStep, <1>QuietStep, <1>BadAuthStep, <1>SampleStep
  DEF Next
<1> QED
  BY <1>3, <1>4

(* For every number of polls, losses, duplications, reorderings, clears,   *)
(* steps and refusals: a sample that process_packet() takes from an        *)
(* association in basic mode, with a nonzero origin timestamp, is made of  *)
(* the instants at which one packet left and came in and one packet        *)
(* returned. It holds where no association is configured to interleave and *)
(* not both hosts send kisses.                                             *)
THEOREM BasicSoundness == Spec => [](Ordinary => BasicSound)
<1>1. Init => BasicInv
  <2> SUFFICES ASSUME Init, Ordinary PROVE BasicParts
    BY DEF BasicInv, BasicParts
  <2>1. /\ now > 0 /\ net = {}
        /\ \A h \in Hosts :
             /\ recvd[h] = {} /\ samples[h] = {}
             /\ assoc[h].flip = 0 /\ assoc[h].aorg = 0
             /\ assoc[h].rec = 0 /\ assoc[h].dst = 0
    <3>1. now > 0 /\ net = {}
      <4>1. now = Epoch /\ net = {}
        BY DEF Init
      <4> QED
        BY <4>1, TimeConstants, SMT
    <3>2. ASSUME NEW h \in Hosts
          PROVE  /\ recvd[h] = {} /\ samples[h] = {}
                 /\ assoc[h].aorg = 0 /\ assoc[h].rec = 0 /\ assoc[h].dst = 0
      BY DEF Init
    <3>3. ASSUME NEW h \in Hosts PROVE assoc[h].flip = 0
      <4>1. assoc[h].flip = IF h \in config.xleave THEN 1 ELSE 0
        BY DEF Init
      <4>2. h \notin config.xleave
        BY DEF Ordinary
      <4> QED
        BY <4>1, <4>2
    <3> QED
      BY <3>1, <3>2, <3>3
  <2>2. Past /\ Names /\ PacketInv /\ BasicSound
    BY <2>1 DEF Past, Names, PacketInv, BasicSound
  <2>3. AssocInv
    BY <2>1 DEF AssocInv, AssocInvOf, Origin
  <2> QED
    BY <2>2, <2>3 DEF BasicParts
<1>2. BasicInv => (Ordinary => BasicSound)
  BY DEF BasicInv
<1> QED
  BY <1>1, <1>2, TypeCorrect, BasicInvStep, PTL DEF Spec

-----------------------------------------------------------------------------
(* The samples beyond basic mode.                                          *)

(* The clock shows a positive number.                                      *)
LEMMA NowType ==
  ASSUME TypeOK
  PROVE  now \in Int /\ now > 0
<1>1. now \in Instants
  BY DEF TypeOK
<1> QED
  BY <1>1, TimeConstants, SMT DEF Instants

(* The origin timestamps a host has saved: they are in the past, younger   *)
(* than the last step, and not the ones of a sample already taken.  Of a   *)
(* broadcast server's packets aorg holds a copy of theirs; there the saved *)
(* arrival is borg.                                                        *)
OriginInvOf(h) ==
  /\ stepped[h] < now
  /\ Mode(Other(h)) # "broadcast" =>
       /\ assoc[h].aorg < now
       /\ assoc[h].aorg # 0 => assoc[h].aorg > stepped[h]
  /\ Mode(Other(h)) = "broadcast" =>
       /\ assoc[h].flip = 0 <=> h \notin config.xleave
       /\ h \notin config.xleave /\ assoc[h].borg # 0 =>
            assoc[h].borg > stepped[h]
  /\ \A s \in samples[h] :
       s.kind = "basic" =>
         /\ Mode(Other(h)) # "broadcast"
         /\ s.t1 < now
         /\ s.t1 # 0 => s.t1 # assoc[h].aorg

OriginInv == \A h \in Hosts : OriginInvOf(h)

(* A broadcast server g: its packets carry the instants at which they and  *)
(* an earlier one left.                                                    *)
ServerInv(g) ==
  /\ assoc[g].rec = 0
  /\ assoc[g].flip # 0 => /\ assoc[g].aorg = 0 \/ SentBy(g, assoc[g].aorg)
                          /\ assoc[g].borg = 0 \/ SentBy(g, assoc[g].borg)
  /\ \A m \in net : m.from = g =>
       /\ m.kind = "time" /\ m.xmt = m.id /\ m.id < now
       /\ m.org = 0 \/ SentBy(g, m.org)

(* What BroadcastSound says of one sample.                                 *)
Paired(h, s) ==
  s.kind \in {"oneway", "interleaved_oneway"} =>
    \/ Travelled(Other(h), s.t3, s.t4)
    \/ NullSample(s)
    \/ s.kind = "interleaved_oneway" /\ Hurried(Other(h), s.t3)

(* Its client h has saved when one of them left and came in, or nothing.   *)
ClientInv(h) ==
  /\ h \notin config.xleave =>
       /\ assoc[h].flip = 0
       /\ \/ assoc[h].aorg = 0 /\ assoc[h].borg = 0
          \/ Travelled(Other(h), assoc[h].aorg, assoc[h].borg)
  /\ \A s \in samples[h] : Paired(h, s)

BroadcastInv ==
  \A h \in Hosts :
    /\ Mode(h) = "broadcast" => ServerInv(h)
    /\ Mode(h) = "bclient" /\ Mode(Other(h)) = "broadcast" => ClientInv(h)
    /\ ~(Mode(h) = "bclient" /\ Mode(Other(h)) = "broadcast") =>
         \A s \in samples[h] : s.kind \notin {"oneway", "interleaved_oneway"}

-----------------------------------------------------------------------------
(* What the operations do to an association.                               *)

(* The schedule of timestamp checks, field by field.                       *)
LEMMA CheckedFields ==
  ASSUME NEW a \in Assocs, NEW m \in Packets
  PROVE  LET c == Checked(a, m) IN
         /\ c.aorg = IF BasicMatch(a, m) THEN 0 ELSE a.aorg
         /\ c.borg = a.borg /\ c.xb = a.xb
         /\ c.flip = IF BasicSwitch(a, m) THEN 1 ELSE a.flip
         /\ c.rec = IF c.flip = 0 /\ ~FromBroadcast(m) THEN m.xmt ELSE a.rec
         /\ c.dst = IF c.flip = 0 THEN now ELSE a.dst
BY DEF Checked, Assocs

(* The operations that follow the checks, field by field.                  *)
LEMMA LateFields ==
  ASSUME NEW c \in Assocs, NEW m \in Packets, NEW h \in Hosts
  PROVE  /\ Finish(c, m).aorg = c.aorg /\ Finish(c, m).borg = c.borg
         /\ Finish(c, m).flip = c.flip
         /\ Finish(c, m).rec = IF c.flip # 0 THEN m.rec ELSE c.rec
         /\ Finish(c, m).dst = IF c.flip # 0 THEN now ELSE c.dst
         /\ SaveXB(c, m).flip = c.flip
         /\ SaveXB(c, m).rec = c.rec /\ SaveXB(c, m).dst = c.dst
         /\ SaveXB(c, m).aorg = IF FromBroadcast(m) /\ c.xb THEN m.xmt ELSE c.aorg
         /\ SaveXB(c, m).borg = IF FromBroadcast(m) /\ c.xb THEN c.dst ELSE c.borg
         /\ PeerClear(h, c).aorg = 0 /\ PeerClear(h, c).borg = 0
         /\ PeerClear(h, c).rec = 0 /\ PeerClear(h, c).dst = 0
         /\ PeerClear(h, c).flip = IF h \in config.xleave THEN 1 ELSE 0
<1>1. /\ Finish(c, m).aorg = c.aorg /\ Finish(c, m).borg = c.borg
      /\ Finish(c, m).flip = c.flip
      /\ Finish(c, m).rec = IF c.flip # 0 THEN m.rec ELSE c.rec
      /\ Finish(c, m).dst = IF c.flip # 0 THEN now ELSE c.dst
  BY DEF Finish, Assocs
<1>2. /\ SaveXB(c, m).flip = c.flip
      /\ SaveXB(c, m).rec = c.rec /\ SaveXB(c, m).dst = c.dst
      /\ SaveXB(c, m).aorg = IF FromBroadcast(m) /\ c.xb THEN m.xmt ELSE c.aorg
      /\ SaveXB(c, m).borg = IF FromBroadcast(m) /\ c.xb THEN c.dst ELSE c.borg
  BY DEF SaveXB, Assocs
<1>3. /\ PeerClear(h, c).aorg = 0 /\ PeerClear(h, c).borg = 0
      /\ PeerClear(h, c).rec = 0 /\ PeerClear(h, c).dst = 0
      /\ PeerClear(h, c).flip = IF h \in config.xleave THEN 1 ELSE 0
  BY DEF PeerClear, Assocs
<1> QED
  BY <1>1, <1>2, <1>3

(* receive() runs at h on m, whichever way it returns.                     *)
Hears(h, m) ==
  \/ ReceiveDuplicate(h, m)
  \/ ReceiveBeginXB(h, m)
  \/ ReceiveRefusal(h, m)
  \/ ReceiveBadAuth(h, m)
  \/ \E headerOK \in BOOLEAN : ReceiveNoSample(h, m, headerOK)
  \/ \E step \in BOOLEAN : ReceiveSample(h, m, step)

(* What receive() may leave of the association a: what was there, or an    *)
(* answered poll is struck out, or the association is switched to          *)
(* interleaved mode, saves the broadcast packet's timestamps, is cleared,  *)
(* takes the packet's receive timestamp, in that order.                    *)
Heard(h, m, a, b) ==
  /\ ~FromBroadcast(m) => b.aorg \in {0, a.aorg} /\ b.borg \in {0, a.borg}
  /\ FromBroadcast(m) =>
       /\ b.flip = a.flip \/ b.flip = IF h \in config.xleave THEN 1 ELSE 0
       /\ a.flip = 0 => \/ b.aorg = a.aorg /\ b.borg = a.borg
                        \/ b.aorg = m.xmt /\ b.borg = now
                        \/ b.aorg = 0 /\ b.borg = 0
  /\ a.flip # 0 /\ ~FromBroadcast(m) =>
       /\ \/ b.aorg = a.aorg /\ b.borg = a.borg /\ b.flip = a.flip
          \/ /\ b.aorg = 0 /\ b.borg = 0
             /\ b.flip = IF h \in config.xleave THEN 1 ELSE 0
       /\ \/ b.rec = a.rec /\ b.dst = a.dst
          \/ m.kind # "nak" /\ b.rec = m.rec /\ b.dst = now
          \/ b.rec = 0 /\ b.dst = 0

(* Whatever receive() and process_packet() do to an association on the way *)
(* of a packet, a clear in between included, is what Heard allows.         *)
LEMMA HeardChecked ==
  ASSUME NEW a \in Assocs, NEW m \in Packets, NEW h \in Hosts, now \in Instants
  PROVE  /\ Heard(h, m, a, Checked(a, m))
         /\ m.kind # "nak" =>
              LET c == Checked(a, m) IN
              /\ Heard(h, m, a, Finish(c, m))
              /\ Heard(h, m, a, Finish(SaveXB(c, m), m))
              /\ Heard(h, m, a, Finish(PeerClear(h, SaveXB(c, m)), m))
<1> DEFINE c == Checked(a, m)
           s == SaveXB(c, m)
           z == PeerClear(h, s)
<1>1. c \in Assocs
  BY CheckedType
<1>2. s \in Assocs
  BY <1>1, FinishType
<1>3. z \in Assocs
  BY <1>2, PeerClearType
<1>4. /\ c.aorg = IF BasicMatch(a, m) THEN 0 ELSE a.aorg
      /\ c.borg = a.borg /\ c.xb = a.xb
      /\ c.flip = IF BasicSwitch(a, m) THEN 1 ELSE a.flip
      /\ c.rec = IF c.flip = 0 /\ ~FromBroadcast(m) THEN m.xmt ELSE a.rec
      /\ c.dst = IF c.flip = 0 THEN now ELSE a.dst
  BY CheckedFields
<1> HIDE DEF c
<1>5. /\ s.flip = c.flip /\ s.rec = c.rec /\ s.dst = c.dst
      /\ s.aorg = IF FromBroadcast(m) /\ c.xb THEN m.xmt ELSE c.aorg
      /\ s.borg = IF FromBroadcast(m) /\ c.xb THEN c.dst ELSE c.borg
  BY <1>1, LateFields
<1> HIDE DEF s
<1>6. /\ z.aorg = 0 /\ z.borg = 0 /\ z.rec = 0 /\ z.dst = 0
      /\ z.flip = IF h \in config.xleave THEN 1 ELSE 0
  BY <1>2, LateFields
<1> HIDE DEF z
<1>7. /\ FromBroadcast(m) => ~BasicMatch(a, m) /\ ~BasicSwitch(a, m)
      /\ a.flip # 0 => ~BasicMatch(a, m) /\ ~BasicSwitch(a, m)
  BY DEF BasicMatch, BasicSwitch, Unicast
<1>8. Heard(h, m, a, c)
  BY <1>4, <1>7 DEF Heard
<1>9. ASSUME m.kind # "nak", NEW e \in {c, s, z}
      PROVE  Heard(h, m, a, Finish(e, m))
  <2>1. /\ Finish(e, m).aorg = e.aorg /\ Finish(e, m).borg = e.borg
        /\ Finish(e, m).flip = e.flip
        /\ Finish(e, m).rec = IF e.flip # 0 THEN m.rec ELSE e.rec
        /\ Finish(e, m).dst = IF e.flip # 0 THEN now ELSE e.dst
    BY <1>1, <1>2, <1>3, LateFields, ZenonT(40)
  <2> DEFINE f == Finish(e, m)
  <2> HIDE DEF f
  <2>2. /\ f.aorg = e.aorg /\ f.borg = e.borg /\ f.flip = e.flip
        /\ f.rec = IF e.flip # 0 THEN m.rec ELSE e.rec
        /\ f.dst = IF e.flip # 0 THEN now ELSE e.dst
    BY <2>1 DEF f
  <2>3. Heard(h, m, a, f)
    <3>1. CASE e = c
      BY <1>4, <1>7, <1>9, <2>2, <3>1 DEF Heard
    <3>2. CASE e = s
      BY <1>4, <1>5, <1>7, <1>9, <2>2, <3>2 DEF Heard
    <3>3. CASE e = z
      BY <1>6, <1>9, <2>2, <3>3 DEF Heard
    <3> QED
      BY <3>1, <3>2, <3>3
  <2> QED
    BY <2>3 DEF f
<1> QED
  BY <1>8, <1>9 DEF c, s, z

(* Everything else that receive() does, and does not do.                   *)
LEMMA HearsShape ==
  ASSUME TypeOK, NEW h \in Hosts, NEW m \in net, Hears(h, m)
  PROVE  /\ m.from = Other(h) /\ Matches(h, m) /\ Deliverable(m)
         /\ config' = config
         /\ now' \in {now + 1, now + 2}
         /\ recvd' = [recvd EXCEPT ![h] = @ \cup {<<m.id, now>>}]
         /\ \A g \in Hosts \ {h} : /\ assoc'[g] = assoc[g]
                                    /\ samples'[g] = samples[g]
                                    /\ stepped'[g] = stepped[g]
                                    /\ sentAt'[g] = sentAt[g]
         /\ \/ sentAt'[h] = sentAt[h]
            \/ assoc'[h].flip # 0 => assoc'[h].dst = now
         /\ Heard(h, m, assoc[h], assoc'[h])
         /\ \/ net' = net
            \/ /\ Symmetric(m.from) /\ now' = now + 2
               /\ net' = net \cup {FastXmitPacket(h, m, "nak", now, now + 1)}
         /\ \/ samples'[h] = samples[h] /\ stepped'[h] = stepped[h]
            \/ \E step \in BOOLEAN : ReceiveSample(h, m, step)
<1> DEFINE a == assoc[h]
           c == Checked(a, m)
<1>1. a \in Assocs /\ m \in Packets /\ now \in Instants
  BY DEF TypeOK
<1>2. /\ DOMAIN assoc = Hosts /\ DOMAIN samples = Hosts /\ DOMAIN stepped = Hosts
      /\ DOMAIN sentAt = Hosts
  BY DEF TypeOK
<1>3. PICK fault \in BOOLEAN : Received(h, m, fault)
  BY DEF Hears, ReceiveDuplicate, ReceiveBeginXB, ReceiveRefusal,
     ReceiveBadAuth, ReceiveNoSample, ReceiveSample, Checks
<1>4. /\ m.from = Other(h) /\ Matches(h, m) /\ Deliverable(m)
      /\ config' = config
      /\ recvd' = [recvd EXCEPT ![h] = @ \cup {<<m.id, now>>}]
  BY <1>3 DEF Received, Matches
<1>5. /\ Heard(h, m, a, c)
      /\ m.kind # "nak" => /\ Heard(h, m, a, Finish(c, m))
                           /\ Heard(h, m, a, Finish(SaveXB(c, m), m))
                           /\ Heard(h, m, a, Finish(PeerClear(h, SaveXB(c, m)), m))
  BY <1>1, HeardChecked
<1> DEFINE Rest == /\ now' \in {now + 1, now + 2}
                   /\ \A g \in Hosts \ {h} : /\ assoc'[g] = assoc[g]
                                              /\ samples'[g] = samples[g]
                                              /\ stepped'[g] = stepped[g]
                                              /\ sentAt'[g] = sentAt[g]
                   /\ \/ sentAt'[h] = sentAt[h]
                      \/ assoc'[h].flip # 0 => assoc'[h].dst = now
                   /\ Heard(h, m, a, assoc'[h])
                   /\ \/ net' = net
                      \/ /\ Symmetric(m.from) /\ now' = now + 2
                         /\ net' = net \cup {FastXmitPacket(h, m, "nak", now, now + 1)}
                   /\ \/ samples'[h] = samples[h] /\ stepped'[h] = stepped[h]
                      \/ \E step \in BOOLEAN : ReceiveSample(h, m, step)
<1>6. ASSUME ReceiveDuplicate(h, m)
      PROVE  Rest
  <2>1. /\ now' = now + 1 /\ net' = net /\ samples' = samples /\ stepped' = stepped
        /\ sentAt' = sentAt
        /\ assoc' = [assoc EXCEPT ![h] = [@ EXCEPT !.xbogus = FALSE]]
    BY <1>6 DEF ReceiveDuplicate
  <2> DEFINE b == [a EXCEPT !.xbogus = FALSE]
  <2>2. /\ b.aorg = a.aorg /\ b.borg = a.borg /\ b.rec = a.rec
        /\ b.dst = a.dst /\ b.flip = a.flip
    BY <1>1 DEF Assocs
  <2>3. assoc'[h] = b /\ \A g \in Hosts \ {h} : assoc'[g] = assoc[g]
    BY <1>2, <2>1
  <2> HIDE DEF b
  <2>4. Heard(h, m, a, b)
    BY <2>2 DEF Heard
  <2> QED
    BY <2>1, <2>3, <2>4
<1>7. ASSUME ReceiveBeginXB(h, m)
      PROVE  Rest
  <2> DEFINE b == [a EXCEPT !.xbogus = FALSE, !.xb = TRUE,
                            !.aorg = m.xmt, !.borg = now]
  <2>1. /\ now' = now + 1 /\ net' = net /\ samples' = samples /\ stepped' = stepped
        /\ sentAt' = sentAt
        /\ assoc' = [assoc EXCEPT ![h] = b]
        /\ FromBroadcast(m)
    BY <1>7 DEF ReceiveBeginXB, BeginsXB
  <2>2. b.aorg = m.xmt /\ b.borg = now /\ b.flip = a.flip
    BY <1>1 DEF Assocs
  <2> HIDE DEF b
  <2>3. assoc'[h] = b /\ \A g \in Hosts \ {h} : assoc'[g] = assoc[g]
    BY <1>2, <2>1
  <2>4. Heard(h, m, a, b)
    BY <2>1, <2>2 DEF Heard
  <2> QED
    BY <2>1, <2>3, <2>4
<1>8. ASSUME ReceiveRefusal(h, m) \/ ReceiveBadAuth(h, m)
      PROVE  Rest
  <2>1. /\ samples' = samples /\ stepped' = stepped /\ sentAt' = sentAt
        /\ assoc' = [assoc EXCEPT ![h] = c]
        /\ now' \in {now + 1, now + 2}
        /\ \/ net' = net
           \/ /\ Symmetric(m.from) /\ now' = now + 2
              /\ net' = net \cup {FastXmitPacket(h, m, "nak", now, now + 1)}
    BY <1>8 DEF ReceiveRefusal, ReceiveBadAuth
  <2>2. assoc'[h] = c /\ \A g \in Hosts \ {h} : assoc'[g] = assoc[g]
    BY <1>2, <2>1
  <2> QED
    BY <1>5, <2>1, <2>2
<1>9. ASSUME \E headerOK \in BOOLEAN : ReceiveNoSample(h, m, headerOK)
      PROVE  Rest
  <2>1. /\ now' = now + 1 /\ net' = net /\ samples' = samples /\ stepped' = stepped
        /\ sentAt' = sentAt
        /\ m.kind # "nak"
        /\ \E e \in {c, SaveXB(c, m)} : assoc' = [assoc EXCEPT ![h] = Finish(e, m)]
    BY <1>9 DEF ReceiveNoSample
  <2>2. PICK e \in {c, SaveXB(c, m)} : assoc' = [assoc EXCEPT ![h] = Finish(e, m)]
    BY <2>1
  <2>3. assoc'[h] = Finish(e, m) /\ \A g \in Hosts \ {h} : assoc'[g] = assoc[g]
    BY <1>2, <2>2
  <2>4. Heard(h, m, a, Finish(e, m))
    BY <1>5, <2>1
  <2> QED
    BY <2>1, <2>3, <2>4
<1>10. ASSUME \E step \in BOOLEAN : ReceiveSample(h, m, step)
      PROVE  Rest
  <2>1. PICK step \in BOOLEAN : ReceiveSample(h, m, step)
    BY <1>10
  <2> DEFINE e == IF step THEN PeerClear(h, SaveXB(c, m)) ELSE SaveXB(c, m)
  <2>2. /\ now' = now + 1 /\ net' = net /\ m.kind = "time"
        /\ samples' = [samples EXCEPT ![h] = @ \cup {SampleOf(c, m)}]
        /\ stepped' = [stepped EXCEPT ![h] = IF step THEN now ELSE @]
        /\ sentAt' = [sentAt EXCEPT ![h] = IF step THEN 0 ELSE @]
        /\ assoc' = [assoc EXCEPT ![h] = Finish(e, m)]
    BY <2>1 DEF ReceiveSample
  <2>3. Heard(h, m, a, Finish(e, m))
    BY <1>5, <2>2
  <2>6. e \in Assocs
    BY <1>1, CheckedType, FinishType, PeerClearType
  <2> HIDE DEF e
  <2>7. Finish(e, m).flip # 0 => Finish(e, m).dst = now
    BY <1>1, <2>6, LateFields
  <2>4. assoc'[h] = Finish(e, m) /\ \A g \in Hosts \ {h} : assoc'[g] = assoc[g]
    BY <1>2, <2>2
  <2>5. \A g \in Hosts \ {h} : /\ samples'[g] = samples[g] /\ stepped'[g] = stepped[g]
                                 /\ sentAt'[g] = sentAt[g]
    BY <1>2, <2>2
  <2> QED
    BY <1>10, <2>2, <2>3, <2>4, <2>5, <2>7
<1>11. Rest
  BY <1>6, <1>7, <1>8, <1>9, <1>10 DEF Hears
<1> QED
  BY <1>4, <1>11

(* A poll at t, sent or not: in basic mode it is saved as origin in either *)
(* case, in interleaved mode when it is sent, alternately.                 *)
LEMMA PollShape ==
  ASSUME TypeOK, NEW h \in Hosts, PeerXmit(h) \/ PeerXmitNoKey(h)
  PROVE  LET t == PollTime(h)
             a == assoc[h]
             b == assoc'[h]
         IN
         /\ Mode(h) \in {"active", "client", "broadcast"}
         /\ config' = config /\ recvd' = recvd
         /\ samples' = samples /\ stepped' = stepped
         /\ t \in Instants /\ t >= now /\ now' = t + 1
         /\ t >= sentAt[h] + MinPkt \/ sentAt[h] = 0
         /\ sentAt' = [sentAt EXCEPT ![h] = t]
         /\ \A g \in Hosts \ {h} : assoc'[g] = assoc[g]
         /\ b.rec = a.rec /\ b.dst = a.dst
         /\ a.flip = 0 => b.aorg = t /\ b.borg = a.borg /\ b.flip = 0
         /\ \/ PeerXmit(h) /\ net' = net \cup {PeerXmitPacket(h, t)}
            \/ /\ net' = net
               /\ a.flip # 0 => /\ b.aorg = a.aorg /\ b.borg = a.borg
                                /\ b.flip = a.flip
         /\ PeerXmit(h) /\ a.flip > 0 =>
              b.aorg = t /\ b.borg = a.borg /\ b.flip = -1
         /\ PeerXmit(h) /\ a.flip < 0 =>
              b.aorg = a.aorg /\ b.borg = t /\ b.flip = 1
<1> DEFINE t == PollTime(h)
           a == assoc[h]
<1>1. a \in Assocs /\ now \in Instants /\ sentAt[h] \in Timestamps
  BY DEF TypeOK
<1>2. DOMAIN assoc = Hosts
  BY DEF TypeOK
<1>3. /\ Mode(h) \in {"active", "client", "broadcast"}
      /\ config' = config /\ recvd' = recvd
      /\ samples' = samples /\ stepped' = stepped
      /\ now' = t + 1 /\ sentAt' = [sentAt EXCEPT ![h] = t]
      /\ t <= MaxTime
  BY DEF PeerXmit, PeerXmitNoKey, Polls
<1>4. t \in Instants /\ t >= now
  BY <1>3, PollType
<1>5. t >= sentAt[h] + MinPkt \/ sentAt[h] = 0
  BY <1>1, TimeConstants, SMT DEF PollTime, Instants, Timestamps
<1> HIDE DEF t
<1>6. CASE PeerXmit(h)
  <2> DEFINE b == PeerXmitAssoc(a, t)
  <2>1. /\ net' = net \cup {PeerXmitPacket(h, t)}
        /\ assoc' = [assoc EXCEPT ![h] = b]
    BY <1>6 DEF PeerXmit, t
  <2>2. /\ b.rec = a.rec /\ b.dst = a.dst
        /\ a.flip = 0 => b.aorg = t /\ b.borg = a.borg /\ b.flip = 0
        /\ a.flip > 0 => b.aorg = t /\ b.borg = a.borg /\ b.flip = -1
        /\ a.flip < 0 => b.aorg = a.aorg /\ b.borg = t /\ b.flip = 1
    BY <1>1, SMT DEF PeerXmitAssoc, Assocs
  <2> HIDE DEF b
  <2>3. assoc'[h] = b /\ \A g \in Hosts \ {h} : assoc'[g] = assoc[g]
    BY <1>2, <2>1
  <2> QED
    BY <1>3, <1>4, <1>5, <1>6, <2>1, <2>2, <2>3 DEF t
<1>7. CASE PeerXmitNoKey(h) /\ ~PeerXmit(h)
  <2> DEFINE b == [a EXCEPT !.aorg = IF a.flip = 0 THEN t ELSE @]
  <2>1. net' = net /\ assoc' = [assoc EXCEPT ![h] = b]
    BY <1>7 DEF PeerXmitNoKey, t
  <2>2. /\ b.rec = a.rec /\ b.dst = a.dst /\ b.flip = a.flip /\ b.borg = a.borg
        /\ b.aorg = IF a.flip = 0 THEN t ELSE a.aorg
    BY <1>1 DEF Assocs
  <2> HIDE DEF b
  <2>3. assoc'[h] = b /\ \A g \in Hosts \ {h} : assoc'[g] = assoc[g]
    BY <1>2, <2>1
  <2> QED
    BY <1>3, <1>4, <1>5, <1>7, <2>1, <2>2, <2>3 DEF t
<1> QED
  BY <1>6, <1>7

(* A sample s, and what process_packet() has checked when it hands it on.  *)
Sampled(h, m, step, s) ==
  LET a == assoc[h]
      b == assoc'[h]
  IN
  /\ samples'[h] = samples[h] \cup {s}
  /\ stepped'[h] = IF step THEN now ELSE stepped[h]
  /\ step => b.aorg = 0 /\ b.borg = 0
  /\ m.kind = "time" /\ m.xmt # 0
  /\ s.kind = "basic" =>
       /\ ~FromBroadcast(m) /\ a.flip = 0 /\ b.aorg = 0
       /\ s.t1 = a.aorg /\ s.t4 = now
  /\ s.kind = "symmetric" =>
       /\ ~FromBroadcast(m) => m.org = a.dst /\ a.dst # 0 /\ m.rec # 0
       /\ a.flip # 0
       /\ s.t1 = Previous(a) /\ s.t2 = m.rec
       /\ s.t3 = m.xmt /\ s.t4 = a.dst
       /\ (s.t2 - s.t1) - (s.t3 - s.t4) \in 0 .. MaxDelay
  /\ s.kind = "oneway" =>
       /\ FromBroadcast(m) /\ a.flip = 0
       /\ s.t1 = 0 /\ s.t3 = m.xmt /\ s.t4 = now
  /\ s.kind = "interleaved_oneway" =>
       /\ FromBroadcast(m) /\ a.flip = 0
       /\ s.t1 = 0 /\ s.t3 = m.org /\ s.t4 = a.borg
       /\ m.org - a.aorg \in 0 .. MaxDelay

(* A packet that yields a sample in process_packet() builds it from its    *)
(* own timestamps and those the association has saved.                     *)
LEMMA SampleShape ==
  ASSUME TypeOK, NEW h \in Hosts, NEW m \in net, NEW step \in BOOLEAN,
         ReceiveSample(h, m, step)
  PROVE  \E s \in Samples : Sampled(h, m, step, s)
<1> DEFINE a == assoc[h]
           c == Checked(a, m)
           x == SaveXB(c, m)
           z == PeerClear(h, x)
           s == SampleOf(c, m)
           b == assoc'[h]
<1>1. a \in Assocs /\ m \in Packets /\ now \in Instants
  BY DEF TypeOK
<1>2. DOMAIN assoc = Hosts /\ DOMAIN samples = Hosts /\ DOMAIN stepped = Hosts
  BY DEF TypeOK
<1>3. /\ m.kind = "time" /\ TestsPass(a, m) /\ DelayOK(c, m)
      /\ samples' = [samples EXCEPT ![h] = @ \cup {s}]
      /\ stepped' = [stepped EXCEPT ![h] = IF step THEN now ELSE @]
      /\ assoc' = [assoc EXCEPT ![h] = Finish(IF step THEN z ELSE x, m)]
  BY DEF ReceiveSample
<1>4. c \in Assocs
  BY <1>1, CheckedType
<1>5. s \in Samples
  BY <1>1, <1>4, FinishType
<1>6. /\ c.aorg = IF BasicMatch(a, m) THEN 0 ELSE a.aorg
      /\ c.borg = a.borg /\ c.xb = a.xb
      /\ c.flip = IF BasicSwitch(a, m) THEN 1 ELSE a.flip
      /\ c.dst = IF c.flip = 0 THEN now ELSE a.dst
  BY <1>1, CheckedFields
<1> HIDE DEF c
<1>7. x \in Assocs
  BY <1>1, <1>4, FinishType
<1>8. z \in Assocs
  BY <1>7, PeerClearType
<1>9. /\ z.aorg = 0 /\ z.borg = 0
      /\ x.aorg = IF FromBroadcast(m) /\ c.xb THEN m.xmt ELSE c.aorg
  BY <1>1, <1>4, <1>7, LateFields
<1> HIDE DEF x, z
<1>10. b.aorg = (IF step THEN z ELSE x).aorg /\ b.borg = (IF step THEN z ELSE x).borg
  <2>1. b = Finish(IF step THEN z ELSE x, m)
    BY <1>2, <1>3
  <2> QED
    BY <1>1, <1>7, <1>8, <2>1, LateFields, SMT
<1>11. /\ samples'[h] = samples[h] \cup {s}
       /\ stepped'[h] = IF step THEN now ELSE stepped[h]
       /\ step => b.aorg = 0 /\ b.borg = 0
  BY <1>2, <1>3, <1>9, <1>10
<1>12. m.xmt # 0 /\ (FromBroadcast(m) \/ BasicMatch(a, m) \/ SymmetricMatch(a, m))
  BY <1>3 DEF TestsPass
<1>13. /\ FromBroadcast(m) => ~BasicMatch(a, m) /\ ~BasicSwitch(a, m)
       /\ BasicMatch(a, m) => ~BasicSwitch(a, m) /\ a.flip = 0 /\ m.org = a.aorg
       /\ SymmetricMatch(a, m) => /\ ~BasicMatch(a, m) /\ ~BasicSwitch(a, m)
                                  /\ a.flip # 0 /\ m.org = a.dst
                                  /\ a.dst # 0 /\ m.rec # 0
  BY DEF BasicMatch, BasicSwitch, SymmetricMatch, SymmetricUnsync, Unicast
<1>14. ~BasicSwitch(a, m) /\ c.flip = a.flip
  BY <1>6, <1>12, <1>13
<1>15. s.kind = "basic" =>
         /\ ~FromBroadcast(m) /\ a.flip = 0 /\ b.aorg = 0
         /\ s.t1 = a.aorg /\ s.t4 = now
  BY <1>6, <1>9, <1>10, <1>12, <1>13, <1>14 DEF SampleOf
<1>16. s.kind = "symmetric" =>
         /\ ~FromBroadcast(m) => m.org = a.dst /\ a.dst # 0 /\ m.rec # 0
         /\ a.flip # 0
         /\ s.t1 = Previous(a) /\ s.t2 = m.rec
         /\ s.t3 = m.xmt /\ s.t4 = a.dst
         /\ (s.t2 - s.t1) - (s.t3 - s.t4) \in 0 .. MaxDelay
  <2>1. SUFFICES ASSUME s.kind = "symmetric"
                 PROVE  /\ ~FromBroadcast(m) => m.org = a.dst /\ a.dst # 0 /\ m.rec # 0
                        /\ a.flip # 0
                        /\ s.t1 = Previous(a) /\ s.t2 = m.rec
                        /\ s.t3 = m.xmt /\ s.t4 = a.dst
                        /\ (s.t2 - s.t1) - (s.t3 - s.t4) \in 0 .. MaxDelay
    OBVIOUS
  <2>2. /\ c.flip # 0 /\ s.t1 = Previous(c) /\ s.t2 = m.rec
        /\ s.t3 = m.xmt /\ s.t4 = c.dst
    BY <2>1 DEF SampleOf
  <2>3. a.flip # 0 /\ ~BasicMatch(a, m)
    BY <1>13, <1>14, <2>2
  <2>4. Previous(c) = Previous(a) /\ c.dst = a.dst
    BY <1>6, <1>14, <2>3 DEF Previous
  <2>5. (m.rec - Previous(c)) - (m.xmt - c.dst) \in 0 .. MaxDelay
    BY <1>3, <2>2 DEF DelayOK
  <2> HIDE DEF s
  <2> QED
    BY <1>12, <1>13, <2>2, <2>3, <2>4, <2>5
<1>17. s.kind = "oneway" =>
         /\ FromBroadcast(m) /\ a.flip = 0
         /\ s.t1 = 0 /\ s.t3 = m.xmt /\ s.t4 = now
  BY <1>6, <1>14 DEF SampleOf
<1>18. s.kind = "interleaved_oneway" =>
         /\ FromBroadcast(m) /\ a.flip = 0
         /\ s.t1 = 0 /\ s.t3 = m.org /\ s.t4 = a.borg
         /\ m.org - a.aorg \in 0 .. MaxDelay
  <2>1. s.kind = "interleaved_oneway" =>
         /\ FromBroadcast(m) /\ c.xb /\ c.flip = 0
         /\ s.t1 = 0 /\ s.t3 = m.org /\ s.t4 = c.borg
    BY DEF SampleOf
  <2>2. FromBroadcast(m) /\ c.xb => m.org - c.aorg \in 0 .. MaxDelay
    BY <1>3 DEF DelayOK
  <2> HIDE DEF s
  <2> QED
    BY <1>6, <1>13, <1>14, <2>1, <2>2
<1> HIDE DEF s, a, b
<1>19. Sampled(h, m, step, s)
  BY <1>3, <1>11, <1>12, <1>15, <1>16, <1>17, <1>18 DEF Sampled, a, b
<1> QED
  BY <1>5, <1>19

-----------------------------------------------------------------------------
(* Saved origin timestamps.                                                *)

(* Every step keeps what is known of the saved origin timestamps.          *)
LEMMA OriginStep ==
  TypeOK /\ TypeOK' /\ OriginInv /\ [Next]_vars => OriginInv'
(* A host that no operation runs on keeps the invariant.                   *)
<1>OriginKeeps.
      ASSUME TypeOK, TypeOK', NEW g \in Hosts, OriginInvOf(g),
             config' = config, now' >= now, assoc'[g] = assoc[g],
             samples'[g] = samples[g], stepped'[g] = stepped[g]
      PROVE  OriginInvOf(g)'
  <2> USE <1>OriginKeeps
  <2>1. /\ now \in Int /\ now' \in Int /\ stepped[g] \in Int /\ assoc[g].aorg \in Int
        /\ \A s \in samples[g] : s.t1 \in Int
    BY TimeConstants, SMT DEF TypeOK, Instants, Timestamps, Assocs, Samples
  <2>2. Mode(Other(g))' = Mode(Other(g))
    BY DEF Mode
  <2> QED
    BY <2>1, <2>2, SMT DEF OriginInvOf
(* peer_xmit() saves an instant that no sample and no step is younger than. *)
<1>OriginPoll.
      ASSUME TypeOK, TypeOK', NEW h \in Hosts, OriginInvOf(h),
             PeerXmit(h) \/ PeerXmitNoKey(h)
      PROVE  OriginInvOf(h)'
  <2> USE <1>OriginPoll
  <2> DEFINE t == PollTime(h)
             a == assoc[h]
             b == assoc'[h]
  <2>1. /\ config' = config /\ samples' = samples /\ stepped' = stepped
        /\ t \in Instants /\ t >= now /\ now' = t + 1
        /\ a.flip = 0 => b.aorg = t /\ b.borg = a.borg /\ b.flip = 0
        /\ PeerXmit(h) \/ (a.flip # 0 => /\ b.aorg = a.aorg /\ b.borg = a.borg
                                         /\ b.flip = a.flip)
        /\ PeerXmit(h) /\ a.flip > 0 => b.aorg = t /\ b.borg = a.borg /\ b.flip = -1
        /\ PeerXmit(h) /\ a.flip < 0 => b.aorg = a.aorg /\ b.borg = t /\ b.flip = 1
    BY PollShape
  <2>2. /\ now \in Int /\ t \in Int /\ stepped[h] \in Int /\ a.aorg \in Int
        /\ a.flip \in {-1, 0, 1}
        /\ \A s \in samples[h] : s.t1 \in Int
    BY <2>1, TimeConstants, SMT DEF TypeOK, Instants, Timestamps, Assocs, Samples
  <2>3. Mode(Other(h))' = Mode(Other(h))
    BY <2>1 DEF Mode
  <2>4. /\ b.aorg \in {t, a.aorg}
        /\ a.flip = 0 => b.flip = 0 /\ b.borg = a.borg
        /\ a.flip # 0 => b.flip # 0
    BY <2>1, <2>2, SMT
  <2> HIDE DEF t, a, b
  <2> QED
    BY <2>1, <2>2, <2>3, <2>4, SMT DEF OriginInvOf, a, b
(* receive() only strikes out, or copies a broadcast packet's timestamps.  *)
<1>OriginHears.
      ASSUME TypeOK, TypeOK', NEW h \in Hosts, NEW m \in net, OriginInvOf(h),
             Hears(h, m)
      PROVE  OriginInvOf(h)'
  <2> USE <1>OriginHears
  <2> DEFINE a == assoc[h]
             b == assoc'[h]
  <2>1. /\ m.from = Other(h) /\ config' = config
        /\ now' \in {now + 1, now + 2}
        /\ Heard(h, m, a, b)
        /\ \/ samples'[h] = samples[h] /\ stepped'[h] = stepped[h]
           \/ \E step \in BOOLEAN : ReceiveSample(h, m, step)
    <3>1. m.from = Other(h) /\ config' = config /\ now' \in {now + 1, now + 2}
      BY HearsShape
    <3>2. Heard(h, m, a, b)
      BY HearsShape
    <3>3. \/ samples'[h] = samples[h] /\ stepped'[h] = stepped[h]
          \/ \E step \in BOOLEAN : ReceiveSample(h, m, step)
      BY HearsShape
    <3> QED
      BY <3>1, <3>2, <3>3
  <2>2. /\ now \in Int /\ now > 0 /\ stepped[h] \in Int /\ a.aorg \in Int
        /\ a.borg \in Int /\ a.flip \in {-1, 0, 1}
        /\ \A s \in samples[h] : s.t1 \in Int
    BY TimeConstants, SMT DEF TypeOK, Instants, Timestamps, Assocs, Samples
  <2>3. Mode(Other(h))' = Mode(Other(h)) /\ (FromBroadcast(m) <=> Mode(Other(h)) = "broadcast")
    BY <2>1 DEF Mode, FromBroadcast
  <2>4. /\ ~FromBroadcast(m) => b.aorg \in {0, a.aorg}
        /\ FromBroadcast(m) =>
             /\ b.flip = a.flip \/ b.flip = IF h \in config.xleave THEN 1 ELSE 0
             /\ a.flip = 0 => b.borg \in {a.borg, now, 0}
    BY <2>1 DEF Heard
  <2>5. CASE samples'[h] = samples[h] /\ stepped'[h] = stepped[h]
    <3>1. now' \in Int /\ now' > now
      BY <2>1, <2>2, SMT
    <3>2. config' = config /\ m.from = Other(h)
      BY <2>1
    <3> HIDE DEF a, b
    <3> QED
      BY <2>2, <2>3, <2>4, <2>5, <3>1, <3>2, SMT DEF OriginInvOf, a, b
  <2>6. ASSUME NEW step \in BOOLEAN, ReceiveSample(h, m, step)
        PROVE  OriginInvOf(h)'
    <3>1. PICK s \in Samples : Sampled(h, m, step, s)
      BY <2>6, SampleShape
    <3>2. /\ samples'[h] = samples[h] \cup {s}
          /\ stepped'[h] = IF step THEN now ELSE stepped[h]
          /\ step => b.aorg = 0 /\ b.borg = 0
          /\ s.kind = "basic" =>
               ~FromBroadcast(m) /\ a.flip = 0 /\ b.aorg = 0 /\ s.t1 = a.aorg
      BY <3>1 DEF Sampled
    <3> HIDE DEF a, b
    <3> QED
      BY <2>1, <2>2, <2>3, <2>4, <3>2, SMT DEF OriginInvOf, a, b
  <2> QED
    BY <2>1, <2>5, <2>6
<1> SUFFICES ASSUME TypeOK, TypeOK', OriginInv, [Next]_vars, NEW g \in Hosts
             PROVE  OriginInvOf(g)'
  BY DEF OriginInv
<1>1. OriginInvOf(g) /\ now \in Int
  BY TimeConstants, SMT DEF OriginInv, TypeOK, Instants
<1>2. CASE UNCHANGED vars
  BY <1>1, <1>2, <1>OriginKeeps, SMT DEF vars
<1>3. ASSUME NEW h \in Hosts, PeerXmit(h) \/ PeerXmitNoKey(h)
      PROVE  OriginInvOf(g)'
  <2>1. CASE g = h
    BY <1>1, <1>3, <2>1, <1>OriginPoll
  <2>2. CASE g # h
    <3>1. /\ config' = config /\ samples' = samples /\ stepped' = stepped
          /\ PollTime(h) \in Instants /\ PollTime(h) >= now /\ now' = PollTime(h) + 1
          /\ assoc'[g] = assoc[g]
      BY <1>3, <2>2, PollShape
    <3>2. now' >= now
      BY <1>1, <3>1, TimeConstants, SMT DEF Instants
    <3> QED
      BY <1>1, <3>1, <3>2, <1>OriginKeeps
  <2> QED
    BY <2>1, <2>2
<1>4. ASSUME NEW h \in Hosts, Clear(h)
      PROVE  OriginInvOf(g)'
  <2> DEFINE b == PeerClear(h, assoc[h])
  <2>1. /\ config' = config /\ samples' = samples /\ stepped' = stepped
        /\ now' = now + 1 /\ assoc' = [assoc EXCEPT ![h] = b]
    BY <1>4 DEF Clear
  <2>2. DOMAIN assoc = Hosts /\ assoc[h] \in Assocs
    BY DEF TypeOK
  <2>3. b.aorg = 0 /\ b.borg = 0 /\ b.flip = IF h \in config.xleave THEN 1 ELSE 0
    BY <2>2 DEF PeerClear, Assocs
  <2> HIDE DEF b
  <2>4. CASE g = h
    <3>1. assoc'[g] = b
      BY <2>1, <2>2, <2>4
    <3>2. /\ now > 0 /\ stepped[g] \in Int
          /\ \A s \in samples[g] : s.t1 \in Int
      BY TimeConstants, SMT DEF TypeOK, Instants, Timestamps, Samples
    <3>3. Mode(Other(g))' = Mode(Other(g))
      BY <2>1 DEF Mode
    <3> QED
      BY <1>1, <2>1, <2>3, <2>4, <3>1, <3>2, <3>3, SMT DEF OriginInvOf
  <2>5. CASE g # h
    <3>1. assoc'[g] = assoc[g]
      BY <2>1, <2>2, <2>5
    <3> QED
      BY <1>1, <2>1, <3>1, <1>OriginKeeps, SMT
  <2> QED
    BY <2>4, <2>5
<1>5. ASSUME NEW h \in Hosts, NEW m \in net, NEW kind, FastXmit(h, m, kind)
      PROVE  OriginInvOf(g)'
  <2>1. /\ config' = config /\ samples' = samples /\ stepped' = stepped
        /\ now' = now + 2 /\ assoc' = assoc
    BY <1>5 DEF FastXmit
  <2> QED
    BY <1>1, <2>1, <1>OriginKeeps, SMT
<1>6. ASSUME NEW h \in Hosts, NEW m \in net, Hears(h, m)
      PROVE  OriginInvOf(g)'
  <2>1. CASE g = h
    BY <1>1, <1>6, <2>1, <1>OriginHears
  <2>2. CASE g # h
    <3>1. /\ config' = config /\ assoc'[g] = assoc[g]
          /\ samples'[g] = samples[g] /\ stepped'[g] = stepped[g]
          /\ now' \in {now + 1, now + 2}
      BY <1>6, <2>2, HearsShape
    <3>2. now' >= now
      BY <1>1, <3>1, SMT
    <3> QED
      BY <1>1, <3>1, <3>2, <1>OriginKeeps
  <2> QED
    BY <2>1, <2>2
<1> QED
  BY <1>2, <1>3, <1>4, <1>5, <1>6 DEF Next, Hears

(* Nothing is saved, and nothing sampled, in the beginning.                *)
LEMMA OriginStart == Init => OriginInv
<1> SUFFICES ASSUME Init, NEW h \in Hosts
             PROVE  OriginInvOf(h)
  BY DEF OriginInv
<1>1. /\ now = Epoch /\ stepped[h] = 0 /\ samples[h] = {}
      /\ assoc[h].aorg = 0 /\ assoc[h].borg = 0
      /\ assoc[h].flip = IF h \in config.xleave THEN 1 ELSE 0
  BY DEF Init
<1> QED
  BY <1>1, TimeConstants, SMT DEF OriginInvOf

(* OriginInv is an invariant.                                              *)
LEMMA OriginHolds == Spec => [](TypeOK /\ OriginInv)
<1>1. Init => OriginInv
  BY OriginStart
<1>2. TypeOK /\ TypeOK' /\ OriginInv /\ [Next]_vars => OriginInv'
  BY OriginStep
<1> QED
  BY <1>1, <1>2, TypeCorrect, PTL DEF Spec

(* A new sample is one that receive() has taken from a packet.             *)
LEMMA NewSample ==
  ASSUME TypeOK, [Next]_vars, NEW h \in Hosts, samples'[h] # samples[h]
  PROVE  \E m \in net : /\ Hears(h, m)
                        /\ \E step \in BOOLEAN, s \in Samples : Sampled(h, m, step, s)
<1>1. ASSUME NEW g \in Hosts, PeerXmit(g) \/ PeerXmitNoKey(g)
      PROVE  samples' = samples
  BY <1>1 DEF PeerXmit, PeerXmitNoKey
<1>2. ASSUME NEW g \in Hosts, Clear(g)
      PROVE  samples' = samples
  BY <1>2 DEF Clear
<1>3. ASSUME NEW g \in Hosts, NEW m \in net, NEW kind, FastXmit(g, m, kind)
      PROVE  samples' = samples
  BY <1>3 DEF FastXmit
<1>4. \E g \in Hosts : \E m \in net : Hears(g, m)
  <2>1. samples' # samples
    OBVIOUS
  <2>2. ~(UNCHANGED vars)
    BY <2>1 DEF vars
  <2> QED
    BY <1>1, <1>2, <1>3, <2>1, <2>2 DEF Next, Hears
<1>5. PICK g \in Hosts : \E m \in net : Hears(g, m)
  BY <1>4
<1>6. PICK m \in net : Hears(g, m)
  BY <1>5
<1>7. /\ \A f \in Hosts \ {g} : samples'[f] = samples[f]
      /\ samples'[g] = samples[g] \/ \E step \in BOOLEAN : ReceiveSample(g, m, step)
  BY <1>6, HearsShape
<1>8. g = h
  BY <1>7
<1>9. PICK step \in BOOLEAN : ReceiveSample(h, m, step)
  BY <1>7, <1>8
<1>10. \E s \in Samples : Sampled(h, m, step, s)
  BY <1>9, SampleShape
<1> QED
  BY <1>6, <1>8, <1>10

(* A step gives no poll a second sample: the origin timestamp that a new   *)
(* one matches is not that of a former one.                                *)
LEMMA OneSampleStep ==
  TypeOK /\ OriginInv /\ OneSamplePerPoll /\ [Next]_vars => OneSamplePerPoll'
<1> SUFFICES ASSUME TypeOK, OriginInv, OneSamplePerPoll, [Next]_vars, NEW h \in Hosts,
                    NEW s1 \in samples'[h], NEW s2 \in samples'[h],
                    s1.kind = "basic", s2.kind = "basic", s1.t1 = s2.t1, s1.t1 # 0
             PROVE  s1 = s2
  BY DEF OneSamplePerPoll
<1>1. CASE samples'[h] = samples[h]
  BY <1>1 DEF OneSamplePerPoll
<1>2. CASE samples'[h] # samples[h]
  <2>1. PICK m \in net : \E step \in BOOLEAN, s \in Samples : Sampled(h, m, step, s)
    BY <1>2, NewSample
  <2>2. PICK step \in BOOLEAN, s \in Samples : Sampled(h, m, step, s)
    BY <2>1
  <2>3. /\ samples'[h] = samples[h] \cup {s}
        /\ s.kind = "basic" => s.t1 = assoc[h].aorg
    BY <2>2 DEF Sampled
  <2>4. \A r \in samples[h] : r.kind = "basic" /\ r.t1 # 0 => r.t1 # assoc[h].aorg
    BY DEF OriginInv, OriginInvOf
  <2> QED
    BY <2>3, <2>4 DEF OneSamplePerPoll
<1> QED
  BY <1>1, <1>2

(* A poll in basic mode is answered at most once, however often the        *)
(* network repeats a reply and however many replies the server sends:      *)
(* receive() strikes out aorg at the first match.                          *)
THEOREM OneSamplePerPollHolds == Spec => []OneSamplePerPoll
<1>1. Init => OneSamplePerPoll
  BY DEF Init, OneSamplePerPoll
<1>2. TypeOK /\ OriginInv /\ OneSamplePerPoll /\ [Next]_vars => OneSamplePerPoll'
  BY OneSampleStep
<1> QED
  BY <1>1, <1>2, OriginHolds, PTL DEF Spec

(* A sample, but for interleaved symmetric mode, uses local timestamps     *)
(* younger than the last step of the clock.                                *)
LEMMA FlushStep ==
  ASSUME TypeOK, OriginInv, [Next]_vars, NEW h \in Hosts,
         NEW r \in samples'[h] \ samples[h], r.kind # "symmetric"
  PROVE  AfterStep(h, r)
<1>1. PICK m \in net : /\ Hears(h, m)
                       /\ \E step \in BOOLEAN, s \in Samples : Sampled(h, m, step, s)
  BY NewSample
<1>2. PICK step \in BOOLEAN, s \in Samples : Sampled(h, m, step, s)
  BY <1>1
<1>3. r = s
  BY <1>2 DEF Sampled
<1>4. m.from = Other(h)
  BY <1>1, HearsShape
<1>5. /\ now \in Int /\ stepped[h] \in Int /\ now > 0
      /\ r.kind \in {"basic", "symmetric", "oneway", "interleaved_oneway"}
  BY <1>3, TimeConstants, SMT DEF TypeOK, Instants, Timestamps, Samples
<1>6. stepped[h] < now
  BY DEF OriginInv, OriginInvOf
<1>7. CASE r.kind = "basic"
  <2>1. ~FromBroadcast(m) /\ r.t1 = assoc[h].aorg /\ r.t4 = now
    BY <1>2, <1>3, <1>7 DEF Sampled
  <2>2. assoc[h].aorg # 0 => assoc[h].aorg > stepped[h]
    BY <1>4, <2>1 DEF OriginInv, OriginInvOf, FromBroadcast
  <2> QED
    BY <1>5, <1>6, <2>1, <2>2 DEF AfterStep
<1>8. CASE r.kind = "oneway"
  <2>1. r.t1 = 0 /\ r.t4 = now
    BY <1>2, <1>3, <1>8 DEF Sampled
  <2> QED
    BY <1>5, <1>6, <2>1 DEF AfterStep
<1>9. CASE r.kind = "interleaved_oneway"
  <2>1. FromBroadcast(m) /\ assoc[h].flip = 0 /\ r.t1 = 0 /\ r.t4 = assoc[h].borg
    BY <1>2, <1>3, <1>9 DEF Sampled
  <2>2. assoc[h].borg # 0 => assoc[h].borg > stepped[h]
    BY <1>4, <2>1 DEF OriginInv, OriginInvOf, FromBroadcast
  <2> QED
    BY <2>1, <2>2 DEF AfterStep
<1> QED
  BY <1>5, <1>7, <1>8, <1>9

(* Once the clock has been stepped no basic or broadcast sample uses a     *)
(* local timestamp of before: clear_all() zeroes the saved ones, and what  *)
(* receive() saves after it returns is not used by these modes.            *)
THEOREM BasicStepFlushesHolds == Spec => BasicStepFlushes
<1> DEFINE Flushes == \A h \in Hosts : \A s \in samples'[h] \ samples[h] :
                        s.kind # "symmetric" => AfterStep(h, s)
<1>1. TypeOK /\ OriginInv /\ [Next]_vars => [Flushes]_vars
  BY FlushStep
<1>2. BasicStepFlushes <=> [][Flushes]_vars
  BY DEF BasicStepFlushes
<1> HIDE DEF Flushes
<1> QED
  BY <1>1, <1>2, OriginHolds, PTL DEF Spec

-----------------------------------------------------------------------------
(* Broadcast.                                                              *)

(* A reply made by fast_xmit() comes from the host that makes it.          *)
LEMMA FastXmitFields ==
  ASSUME NEW h, NEW m, NEW kind, NEW r, NEW t
  PROVE  LET p == FastXmitPacket(h, m, kind, r, t)
         IN  p.from = h /\ p.id = t /\ p.kind = kind
BY DEF FastXmitPacket

(* What one host does, seen from the network and from the other host.      *)
Alone(h) ==
  /\ Grows /\ now' > now
  /\ \A p \in net' \ net : p.from = h
  /\ \A g \in Hosts \ {h} : /\ assoc'[g] = assoc[g] /\ samples'[g] = samples[g]
                             /\ recvd'[g] = recvd[g] /\ sentAt'[g] = sentAt[g]

(* Every operation is of that kind.                                        *)
LEMMA ActsAlone ==
  ASSUME TypeOK, NEW h \in Hosts
  PROVE  /\ PeerXmit(h) \/ PeerXmitNoKey(h) => Alone(h)
         /\ Clear(h) => Alone(h) /\ net' = net /\ samples' = samples
         /\ \A m \in net : \A kind \in {"time", "nak", "kod"} :
              FastXmit(h, m, kind) =>
                Alone(h) /\ assoc' = assoc /\ samples' = samples
         /\ \A m \in net : Hears(h, m) => Alone(h)
<1>1. /\ now \in Int /\ DOMAIN assoc = Hosts /\ DOMAIN sentAt = Hosts
      /\ DOMAIN recvd = Hosts
  BY TimeConstants, SMT DEF TypeOK, Instants
<1>2. ASSUME PeerXmit(h) \/ PeerXmitNoKey(h)
      PROVE  Alone(h)
  <2> DEFINE t == PollTime(h)
  <2>1. /\ config' = config /\ recvd' = recvd /\ samples' = samples
        /\ t \in Instants /\ t >= now /\ now' = t + 1
        /\ sentAt' = [sentAt EXCEPT ![h] = t]
        /\ \A g \in Hosts \ {h} : assoc'[g] = assoc[g]
        /\ net' = net \cup {PeerXmitPacket(h, t)} \/ net' = net
    BY <1>2, PollShape
  <2>2. PeerXmitPacket(h, t).from = h
    BY DEF PeerXmitPacket
  <2>3. now' > now
    BY <1>1, <2>1, TimeConstants, SMT DEF Instants
  <2> HIDE DEF t
  <2> QED
    BY <1>1, <2>1, <2>2, <2>3 DEF Alone, Grows
<1>3. ASSUME Clear(h)
      PROVE  Alone(h) /\ net' = net /\ samples' = samples
  <2>1. /\ config' = config /\ recvd' = recvd /\ samples' = samples /\ net' = net
        /\ now' = now + 1 /\ sentAt' = [sentAt EXCEPT ![h] = 0]
        /\ assoc' = [assoc EXCEPT ![h] = PeerClear(h, @)]
    BY <1>3 DEF Clear
  <2> QED
    BY <1>1, <2>1, SMT DEF Alone, Grows
<1>4. ASSUME NEW m \in net, NEW kind \in {"time", "nak", "kod"}, FastXmit(h, m, kind)
      PROVE  Alone(h) /\ assoc' = assoc /\ samples' = samples
  <2> DEFINE p == FastXmitPacket(h, m, kind, now, now + 1)
  <2>1. /\ config' = config /\ samples' = samples /\ assoc' = assoc
        /\ now' = now + 2 /\ sentAt' = sentAt /\ net' = net \cup {p}
        /\ recvd' = [recvd EXCEPT ![h] = @ \cup {<<m.id, now>>}]
    BY <1>4 DEF FastXmit
  <2>2. p.from = h
    BY FastXmitFields, SMT
  <2> HIDE DEF p
  <2> QED
    BY <1>1, <2>1, <2>2, SMT DEF Alone, Grows
<1>5. ASSUME NEW m \in net, Hears(h, m)
      PROVE  Alone(h)
  <2> DEFINE p == FastXmitPacket(h, m, "nak", now, now + 1)
  <2>1. /\ config' = config
        /\ now' \in {now + 1, now + 2}
        /\ recvd' = [recvd EXCEPT ![h] = @ \cup {<<m.id, now>>}]
        /\ \A g \in Hosts \ {h} : /\ assoc'[g] = assoc[g] /\ samples'[g] = samples[g]
                                   /\ sentAt'[g] = sentAt[g]
        /\ net' = net \/ net' = net \cup {p}
    BY <1>5, HearsShape
  <2>2. p.from = h
    BY FastXmitFields, SMT
  <2> HIDE DEF p
  <2> QED
    BY <1>1, <2>1, <2>2, SMT DEF Alone, Grows
<1> QED
  BY <1>2, <1>3, <1>4, <1>5

(* The invariant of a server that does nothing.                            *)
LEMMA ServerKeeps ==
  ASSUME TypeOK, NEW g \in Hosts, ServerInv(g), Grows, now' \in Int, now' >= now,
         assoc'[g] = assoc[g],
         \A p \in net' \ net : p.from # g
  PROVE  ServerInv(g)'
<1>1. /\ now \in Int /\ \A m \in net : m.id \in Int
  BY TimeConstants, SMT DEF TypeOK, Instants, Packets
<1>2. \A o : SentBy(g, o) => SentBy(g, o)'
  BY OriginGrows
<1>3. \A m \in net' : m.from = g => m \in net
  OBVIOUS
<1>4. \A m \in net' : m.from = g => m.id < now'
  BY <1>1, <1>3, SMT DEF ServerInv
<1> QED
  BY <1>2, <1>3, <1>4 DEF ServerInv

(* A packet of a broadcast server, in either mode, and what it keeps.      *)
LEMMA ServerPoll ==
  ASSUME TypeOK, TypeOK', NEW g \in Hosts, Mode(g) = "broadcast", ServerInv(g),
         PeerXmit(g) \/ PeerXmitNoKey(g)
  PROVE  ServerInv(g)'
<1> DEFINE t == PollTime(g)
           a == assoc[g]
           b == assoc'[g]
           p == PeerXmitPacket(g, t)
           Later(x) == \E m \in net' : m.from = g /\ m.id = x
<1>1. /\ t \in Instants /\ t >= now /\ now' = t + 1
      /\ b.rec = a.rec /\ b.dst = a.dst
      /\ a.flip = 0 => b.flip = 0
      /\ \/ PeerXmit(g) /\ net' = net \cup {p}
         \/ /\ net' = net
            /\ a.flip # 0 => b.aorg = a.aorg /\ b.borg = a.borg /\ b.flip = a.flip
      /\ PeerXmit(g) /\ a.flip > 0 => b.aorg = t /\ b.borg = a.borg
      /\ PeerXmit(g) /\ a.flip < 0 => b.aorg = a.aorg /\ b.borg = t
  BY PollShape
<1>2. p.from = g /\ p.id = t /\ p.xmt = t /\ p.kind = "time"
      /\ p.org = IF a.flip # 0 THEN Previous(a) ELSE a.rec
  BY DEF PeerXmitPacket
<1>3. /\ now \in Int /\ now > 0 /\ t \in Int
      /\ a.flip \in {-1, 0, 1}
      /\ \A m \in net : m.id \in Int /\ m.id > 0
  BY <1>1, TimeConstants, SMT DEF TypeOK, Instants, Timestamps, Assocs, Packets
<1>4. Grows
  BY ActsAlone DEF Alone
<1>5. \A o : SentBy(g, o) => Later(o)
  BY <1>4 DEF SentBy, Grows
<1> HIDE DEF t, p
<1>6. p \in net' => Later(t)
  BY <1>2
<1>7. \A m \in net : m.from = g =>
        m.kind = "time" /\ m.xmt = m.id /\ m.id < now /\ (m.org = 0 \/ SentBy(g, m.org))
  BY DEF ServerInv
<1>8. t >= now /\ now' = t + 1
  BY <1>1
<1>9. \A m \in net : m.from = g => m.id < now'
  BY <1>3, <1>7, <1>8, SMT
<1>10. p.org = 0 \/ SentBy(g, p.org)
  BY <1>2 DEF ServerInv, Previous
<1>11. b.rec = 0
  BY <1>1 DEF ServerInv
<1>12. b.flip # 0 => /\ b.aorg = 0 \/ Later(b.aorg)
                     /\ b.borg = 0 \/ Later(b.borg)
  <2> SUFFICES ASSUME b.flip # 0
               PROVE  /\ b.aorg = 0 \/ Later(b.aorg)
                      /\ b.borg = 0 \/ Later(b.borg)
    OBVIOUS
  <2>1. a.flip # 0
    BY <1>1
  <2>2. /\ a.aorg = 0 \/ Later(a.aorg)
        /\ a.borg = 0 \/ Later(a.borg)
    BY <1>5, <2>1 DEF ServerInv
  <2>3. a.flip > 0 \/ a.flip < 0
    BY <1>3, <2>1, SMT
  <2> HIDE DEF a, b, Later
  <2>4. CASE PeerXmit(g) /\ net' = net \cup {p}
    <3>1. p \in net'
      BY <2>4
    <3> QED
      BY <1>1, <1>6, <2>2, <2>3, <2>4, <3>1
  <2>5. CASE ~(PeerXmit(g) /\ net' = net \cup {p})
    BY <1>1, <2>1, <2>2, <2>5
  <2> QED
    BY <2>4, <2>5
<1>13. \A m \in net' : m.from = g =>
         /\ m.kind = "time" /\ m.xmt = m.id /\ m.id < now'
         /\ m.org = 0 \/ Later(m.org)
  <2> SUFFICES ASSUME NEW m \in net', m.from = g
               PROVE  /\ m.kind = "time" /\ m.xmt = m.id /\ m.id < now'
                      /\ m.org = 0 \/ Later(m.org)
    OBVIOUS
  <2>1. CASE m \in net
    BY <1>3, <1>5, <1>7, <1>9, <2>1
  <2>2. CASE m = p
    BY <1>1, <1>2, <1>3, <1>5, <1>10, <2>2, SMT
  <2> QED
    BY <1>1, <2>1, <2>2
<1> QED
  BY <1>11, <1>12, <1>13 DEF ServerInv, SentBy

(* A cleared association.                                                  *)
LEMMA ClearedFields ==
  ASSUME TypeOK, NEW h \in Hosts, Clear(h)
  PROVE  /\ assoc'[h].aorg = 0 /\ assoc'[h].borg = 0
         /\ assoc'[h].rec = 0 /\ assoc'[h].dst = 0
         /\ assoc'[h].flip = IF h \in config.xleave THEN 1 ELSE 0
<1>1. assoc[h] \in Assocs /\ DOMAIN assoc = Hosts
  BY DEF TypeOK
<1>2. assoc' = [assoc EXCEPT ![h] = PeerClear(h, assoc[h])]
  BY DEF Clear
<1>3. assoc'[h] = PeerClear(h, assoc[h])
  BY <1>1, <1>2
<1> QED
  BY <1>1, <1>3 DEF PeerClear, Assocs

(* A step of a broadcast server, or of its client, or of the other one.    *)
LEMMA ServerStep ==
  ASSUME TypeOK, TypeOK', [Next]_vars, NEW g \in Hosts, Mode(g) = "broadcast",
         ServerInv(g)
  PROVE  ServerInv(g)'
<1>1. now \in Int /\ now' \in Int
  BY TimeConstants, SMT DEF TypeOK, Instants
<1>2. ASSUME NEW h \in Hosts, Alone(h), g # h
      PROVE  ServerInv(g)'
  <2>1. /\ Grows /\ now' > now /\ assoc'[g] = assoc[g]
        /\ \A p \in net' \ net : p.from # g
    BY <1>2 DEF Alone
  <2>2. now' >= now
    BY <1>1, <2>1, SMT
  <2> QED
    BY <1>1, <2>1, <2>2, ServerKeeps
<1>3. CASE UNCHANGED vars
  <2>1. Grows /\ assoc' = assoc /\ net' = net /\ now' = now
    BY <1>3 DEF vars, Grows
  <2> QED
    BY <1>1, <2>1, ServerKeeps, SMT
<1>4. ASSUME NEW h \in Hosts, PeerXmit(h) \/ PeerXmitNoKey(h)
      PROVE  ServerInv(g)'
  <2>1. Alone(h)
    BY <1>4, ActsAlone
  <2> QED
    BY <1>2, <1>4, <2>1, ServerPoll
<1>5. ASSUME NEW h \in Hosts, Clear(h)
      PROVE  ServerInv(g)'
  <2>1. Alone(h) /\ net' = net
    BY <1>5, ActsAlone
  <2>2. CASE g = h
    <3>1. assoc'[g].rec = 0 /\ assoc'[g].aorg = 0 /\ assoc'[g].borg = 0
      BY <1>5, <2>2, ClearedFields
    <3>2. \A m \in net : m.id \in Int
      BY TimeConstants, SMT DEF TypeOK, Packets, Instants
    <3>3. \A m \in net : m.from = g => m.id < now'
      BY <1>1, <2>1, <3>2, SMT DEF ServerInv, Alone
    <3> QED
      BY <2>1, <3>1, <3>3 DEF ServerInv, SentBy
  <2> QED
    BY <1>2, <2>1, <2>2
<1>6. ASSUME NEW h \in Hosts, NEW m \in net, NEW kind \in {"time", "nak", "kod"},
             FastXmit(h, m, kind)
      PROVE  ServerInv(g)'
  <2>1. Alone(h)
    BY <1>6, ActsAlone
  <2>2. Mode(h) # "broadcast"
    BY <1>6 DEF FastXmit, Symmetric
  <2> QED
    BY <1>2, <2>1, <2>2
<1>7. ASSUME NEW h \in Hosts, NEW m \in net, Hears(h, m)
      PROVE  ServerInv(g)'
  <2>1. Alone(h)
    BY <1>7, ActsAlone
  <2>2. Matches(h, m)
    BY <1>7, HearsShape
  <2>3. Mode(h) # "broadcast"
    BY <2>2 DEF Matches
  <2> QED
    BY <1>2, <2>1, <2>3
<1> QED
  BY <1>3, <1>4, <1>5, <1>6, <1>7 DEF Next, Hears

(* A sample that has been paired stays so.                                 *)
LEMMA PairedGrows ==
  ASSUME Grows, NEW h \in Hosts, NEW s, Paired(h, s)
  PROVE  Paired(h, s)'
<1>1. Other(h) \in Hosts
  BY OtherHost
<1>2. Hurried(Other(h), s.t3) => Hurried(Other(h), s.t3)'
  BY DEF Hurried, Grows
<1>3. Travelled(Other(h), s.t3, s.t4) => Travelled(Other(h), s.t3, s.t4)'
  BY <1>1, OriginGrows
<1> QED
  BY <1>2, <1>3 DEF Paired, NullSample

(* Every step keeps what a broadcast client has saved.                     *)
LEMMA ClientStep ==
  ASSUME TypeOK, TypeOK', OriginInv, [Next]_vars, NEW g \in Hosts,
         Mode(g) = "bclient", Mode(Other(g)) = "broadcast",
         ServerInv(Other(g)), ClientInv(g)
  PROVE  ClientInv(g)'
(* The invariant of a client that does nothing.                            *)
<1>ClientKeeps.
      ASSUME NEW h \in Hosts, ClientInv(h), Grows,
             assoc'[h] = assoc[h], samples'[h] = samples[h]
      PROVE  ClientInv(h)'
  <2> USE <1>ClientKeeps
  <2>1. Other(h) \in Hosts /\ config' = config
    BY OtherHost DEF Grows
  <2>2. \A o, d : Travelled(Other(h), o, d) => Travelled(Other(h), o, d)'
    BY <2>1, OriginGrows
  <2> DEFINE Went(o, d) == Travelled(Other(h), o, d)
             Gone(o, d) == /\ \E m \in net' : m.from = Other(h) /\ m.id = o
                           /\ <<o, d>> \in recvd'[Other(Other(h))]
  <2>3. \A o, d : Went(o, d) => Gone(o, d)
    BY <2>2 DEF Travelled
  <2>4. \A s \in samples'[h] : Paired(h, s)'
    BY PairedGrows DEF ClientInv
  <2> HIDE DEF Gone
  <2> QED
    BY <2>1, <2>3, <2>4 DEF ClientInv, Gone, Travelled
(* A one-way sample reports the packet whose arrival has been saved: two   *)
(* broadcasts are too far apart to be taken for each other.                *)
<1>SavedBroadcast.
      ASSUME TypeOK, NEW h \in Hosts, ServerInv(Other(h)), ClientInv(h),
             h \notin config.xleave, NEW m \in net, m.from = Other(h), m.org # 0,
             m.org - assoc[h].aorg \in 0 .. MaxDelay, ~Hurried(Other(h), m.org)
      PROVE  Travelled(Other(h), m.org, assoc[h].borg)
  <2> USE <1>SavedBroadcast
  <2> DEFINE a == assoc[h]
  <2>1. a \in Assocs /\ m \in Packets
    BY DEF TypeOK
  <2>2. m.org \in Instants /\ a.aorg \in Timestamps
    BY <2>1 DEF Packets, Assocs, Timestamps
  <2>3. a.aorg # 0 /\ m.org \in Int /\ a.aorg \in Int
    BY <2>2, TimeConstants, SMT DEF Timestamps, Instants
  <2>4. Travelled(Other(h), a.aorg, a.borg)
    BY <2>3 DEF ClientInv
  <2>5. PICK p \in net : p.from = Other(h) /\ p.id = a.aorg
    BY <2>4 DEF Travelled
  <2>6. p.kind = "time"
    BY <2>5 DEF ServerInv
  <2>7. ~(p.id < m.org /\ m.org < p.id + MinPkt)
    BY <2>5, <2>6 DEF Hurried
  <2>8. a.aorg = m.org
    BY <2>3, <2>5, <2>7, TimeConstants, SMT
  <2> QED
    BY <2>4, <2>8
(* A report of nothing passes only where nothing has been saved.           *)
<1>SavedNothing.
      ASSUME TypeOK, NEW h \in Hosts, ClientInv(h), h \notin config.xleave,
             0 - assoc[h].aorg \in 0 .. MaxDelay
      PROVE  assoc[h].borg = 0
  <2> USE <1>SavedNothing
  <2>1. assoc[h].aorg \in Timestamps
    BY DEF TypeOK, Assocs
  <2>2. ~(0 - assoc[h].aorg \in 0 .. MaxDelay) \/ assoc[h].aorg = 0
    BY <2>1, TimeConstants, SMT DEF Timestamps, Instants
  <2>3. Epoch > 0
    BY TimeConstants, SMT
  <2>4. ~Travelled(Other(h), 0, assoc[h].borg)
    <3>1. \A p \in net : p.id # 0
      BY TimeConstants, SMT DEF TypeOK, Packets, Instants
    <3> QED
      BY <3>1 DEF Travelled
  <2> QED
    BY <2>2, <2>4 DEF ClientInv
(* What a client keeps and samples of a broadcast packet.                  *)
<1>ClientHears.
      ASSUME TypeOK, TypeOK', OriginInv, NEW h \in Hosts, NEW m \in net, Hears(h, m),
             Mode(Other(h)) = "broadcast", ServerInv(Other(h)), ClientInv(h)
      PROVE  ClientInv(h)'
  <2> USE <1>ClientHears
  <2> DEFINE a == assoc[h]
             b == assoc'[h]
             Went(o, d) == Travelled(Other(h), o, d)
             Gone(o, d) == /\ \E p \in net' : p.from = Other(h) /\ p.id = o
                           /\ <<o, d>> \in recvd'[Other(Other(h))]
  <2>1. /\ m.from = Other(h)
        /\ recvd' = [recvd EXCEPT ![h] = @ \cup {<<m.id, now>>}]
        /\ Heard(h, m, a, b)
        /\ \/ samples'[h] = samples[h]
           \/ \E step \in BOOLEAN : ReceiveSample(h, m, step)
    BY HearsShape
  <2>2. Other(h) \in Hosts /\ Other(Other(h)) = h
    BY OtherHost
  <2>3. Grows
    BY ActsAlone DEF Alone
  <2>4. \A o, d : Went(o, d) => Gone(o, d)
    BY <2>2, <2>3 DEF Travelled, Grows
  <2>5. FromBroadcast(m)
    BY <2>1 DEF FromBroadcast
  <2>6. m.xmt = m.id
    BY <2>1 DEF ServerInv
  <2>7. Gone(m.xmt, now)
    <3>1. <<m.id, now>> \in recvd'[h]
      BY <2>1 DEF TypeOK
    <3>2. m \in net'
      BY <2>3 DEF Grows
    <3> QED
      BY <2>1, <2>2, <2>6, <3>1, <3>2
  <2>8. config' = config
    BY <2>3 DEF Grows
  <2> HIDE DEF Gone
  <2>9. h \notin config.xleave =>
          b.flip = 0 /\ ((b.aorg = 0 /\ b.borg = 0) \/ Gone(b.aorg, b.borg))
    <3> SUFFICES ASSUME h \notin config.xleave
                 PROVE  b.flip = 0 /\ ((b.aorg = 0 /\ b.borg = 0) \/ Gone(b.aorg, b.borg))
      OBVIOUS
    <3>1. a.flip = 0 /\ ((a.aorg = 0 /\ a.borg = 0) \/ Gone(a.aorg, a.borg))
      BY <2>4 DEF ClientInv
    <3>2. /\ b.flip = a.flip \/ b.flip = 0
          /\ \/ b.aorg = a.aorg /\ b.borg = a.borg
             \/ b.aorg = m.xmt /\ b.borg = now
             \/ b.aorg = 0 /\ b.borg = 0
      BY <2>1, <2>5, <3>1 DEF Heard
    <3> HIDE DEF a, b
    <3> QED
      BY <2>7, <3>1, <3>2
  <2>10. \A s \in samples'[h] : Paired(h, s)'
    <3>1. \A s \in samples[h] : Paired(h, s)'
      BY <2>3, PairedGrows DEF ClientInv
    <3>2. ASSUME NEW step \in BOOLEAN, ReceiveSample(h, m, step)
          PROVE  \A r \in samples'[h] : Paired(h, r)'
      <4>1. PICK s \in Samples : Sampled(h, m, step, s)
        BY <3>2, SampleShape
      <4>2. samples'[h] = samples[h] \cup {s}
        BY <4>1 DEF Sampled
      <4>3. CASE s.kind = "oneway"
        <5>1. s.t3 = m.xmt /\ s.t4 = now
          BY <4>1, <4>3 DEF Sampled
        <5>2. Paired(h, s)'
          BY <2>7, <5>1 DEF Paired, Gone, Travelled
        <5> QED
          BY <3>1, <4>2, <5>2
      <4>4. CASE s.kind = "interleaved_oneway"
        <5>1. /\ a.flip = 0 /\ s.t3 = m.org /\ s.t4 = a.borg
              /\ m.org - a.aorg \in 0 .. MaxDelay
          BY <4>1, <4>4 DEF Sampled
        <5>2. h \notin config.xleave
          BY <5>1 DEF OriginInv, OriginInvOf
        <5>3. m.org # 0 /\ ~Hurried(Other(h), m.org) => Went(m.org, a.borg)
          BY <2>1, <5>1, <5>2, <1>SavedBroadcast
        <5>4. m.org = 0 => a.borg = 0
          BY <5>1, <5>2, <1>SavedNothing
        <5>5. Paired(h, s)
          BY <4>4, <5>1, <5>3, <5>4 DEF Paired, NullSample
        <5>6. Paired(h, s)'
          BY <2>3, <5>5, PairedGrows
        <5> QED
          BY <3>1, <4>2, <5>6
      <4>5. CASE s.kind \notin {"oneway", "interleaved_oneway"}
        BY <3>1, <4>2, <4>5 DEF Paired
      <4> QED
        BY <4>3, <4>4, <4>5
    <3> QED
      BY <2>1, <3>1, <3>2
  <2> QED
    BY <2>8, <2>9, <2>10 DEF ClientInv, Gone, Travelled
<1>1. ASSUME NEW h \in Hosts, Alone(h), g # h
      PROVE  ClientInv(g)'
  BY <1>1, <1>ClientKeeps DEF Alone
<1>2. CASE UNCHANGED vars
  <2>1. Grows /\ assoc' = assoc /\ samples' = samples
    BY <1>2 DEF vars, Grows
  <2> QED
    BY <2>1, <1>ClientKeeps
<1>3. ASSUME NEW h \in Hosts, PeerXmit(h) \/ PeerXmitNoKey(h)
      PROVE  ClientInv(g)'
  <2>1. Alone(h)
    BY <1>3, ActsAlone
  <2>2. Mode(h) \in {"active", "client", "broadcast"}
    BY <1>3, PollShape
  <2>3. g # h
    BY <2>2
  <2> QED
    BY <1>1, <2>1, <2>3
<1>4. ASSUME NEW h \in Hosts, Clear(h)
      PROVE  ClientInv(g)'
  <2>1. Alone(h) /\ net' = net /\ samples' = samples
    BY <1>4, ActsAlone
  <2>2. CASE g = h
    <3>1. /\ assoc'[g].aorg = 0 /\ assoc'[g].borg = 0
          /\ assoc'[g].flip = IF g \in config.xleave THEN 1 ELSE 0
      BY <1>4, <2>2, ClearedFields
    <3>2. Grows /\ config' = config
      BY <2>1 DEF Alone, Grows
    <3>3. \A s \in samples'[g] : Paired(g, s)'
      BY <2>1, <3>2, PairedGrows DEF ClientInv
    <3> QED
      BY <3>1, <3>2, <3>3 DEF ClientInv
  <2> QED
    BY <1>1, <2>1, <2>2
<1>5. ASSUME NEW h \in Hosts, NEW m \in net, NEW kind \in {"time", "nak", "kod"},
             FastXmit(h, m, kind)
      PROVE  ClientInv(g)'
  <2>1. Alone(h) /\ assoc' = assoc /\ samples' = samples
    BY <1>5, ActsAlone
  <2> QED
    BY <2>1, <1>ClientKeeps DEF Alone
<1>6. ASSUME NEW h \in Hosts, NEW m \in net, Hears(h, m)
      PROVE  ClientInv(g)'
  <2>1. Alone(h)
    BY <1>6, ActsAlone
  <2> QED
    BY <1>1, <1>6, <2>1, <1>ClientHears
<1> QED
  BY <1>2, <1>3, <1>4, <1>5, <1>6 DEF Next, Hears

(* Every step keeps what is known of broadcast servers and clients.        *)
LEMMA BroadcastStep ==
  TypeOK /\ TypeOK' /\ OriginInv /\ BroadcastInv /\ [Next]_vars => BroadcastInv'
<1> SUFFICES ASSUME TypeOK, TypeOK', OriginInv, BroadcastInv, [Next]_vars,
                    NEW h \in Hosts
             PROVE  /\ Mode(h)' = "broadcast" => ServerInv(h)'
                    /\ Mode(h)' = "bclient" /\ Mode(Other(h))' = "broadcast" => ClientInv(h)'
                    /\ ~(Mode(h)' = "bclient" /\ Mode(Other(h))' = "broadcast") =>
                         \A s \in samples'[h] :
                           s.kind \notin {"oneway", "interleaved_oneway"}
  BY DEF BroadcastInv
<1>1. config' = config
  <2>1. ASSUME NEW g \in Hosts, Alone(g) PROVE config' = config
    BY <2>1 DEF Alone, Grows
  <2>2. CASE UNCHANGED vars
    BY <2>2 DEF vars
  <2>3. CASE Next
    <3>1. \E g \in Hosts : Alone(g)
      BY <2>3, ActsAlone DEF Next, Hears
    <3> QED
      BY <2>1, <3>1
  <2> QED
    BY <2>2, <2>3
<1>2. Mode(h)' = Mode(h) /\ Mode(Other(h))' = Mode(Other(h)) /\ Other(h) \in Hosts
  BY <1>1, OtherHost DEF Mode
<1>3. Mode(h) = "broadcast" => ServerInv(h)'
  BY ServerStep DEF BroadcastInv
<1>4. Mode(h) = "bclient" /\ Mode(Other(h)) = "broadcast" => ClientInv(h)'
  BY <1>2, ClientStep DEF BroadcastInv
<1>5. ASSUME ~(Mode(h) = "bclient" /\ Mode(Other(h)) = "broadcast")
      PROVE  \A s \in samples'[h] : s.kind \notin {"oneway", "interleaved_oneway"}
  <2>1. \A s \in samples[h] : s.kind \notin {"oneway", "interleaved_oneway"}
    BY <1>5 DEF BroadcastInv
  <2>2. CASE samples'[h] # samples[h]
    <3>1. PICK m \in net : /\ Hears(h, m)
                           /\ \E step \in BOOLEAN, s \in Samples : Sampled(h, m, step, s)
      BY <2>2, NewSample
    <3>2. PICK step \in BOOLEAN, s \in Samples : Sampled(h, m, step, s)
      BY <3>1
    <3>3. Matches(h, m) /\ m.from = Other(h)
      BY <3>1, HearsShape
    <3>4. ~FromBroadcast(m)
      BY <1>5, <3>3 DEF Matches, FromBroadcast
    <3>5. /\ samples'[h] = samples[h] \cup {s}
          /\ s.kind # "oneway" /\ s.kind # "interleaved_oneway"
      BY <3>2, <3>4 DEF Sampled
    <3> QED
      BY <2>1, <3>5
  <2> QED
    BY <2>1, <2>2
<1> QED
  BY <1>2, <1>3, <1>4, <1>5

(* The associations that newpeer() leaves satisfy the invariant of         *)
(* broadcast mode.                                                         *)
LEMMA BroadcastStart == Init => BroadcastInv
<1> SUFFICES ASSUME Init, NEW h \in Hosts
             PROVE  ServerInv(h) /\ ClientInv(h) /\ samples[h] = {}
  BY DEF BroadcastInv
<1>1. /\ net = {} /\ samples[h] = {} /\ assoc[h].aorg = 0 /\ assoc[h].borg = 0
      /\ assoc[h].rec = 0 /\ assoc[h].flip = IF h \in config.xleave THEN 1 ELSE 0
  BY DEF Init
<1> QED
  BY <1>1 DEF ServerInv, ClientInv

(* A broadcast sample pairs the departure and the arrival of one packet,   *)
(* also where the server reports the departure one packet later            *)
(* (interleaved broadcast), however packets are lost, repeated, delayed or *)
(* reordered: process_packet() takes none whose report is more than        *)
(* MaxDelay away from the one it has saved, and the server's packets are   *)
(* MinPkt apart.  Exempt is what breaks the argument: a packet that a      *)
(* clear has sent sooner, and the null sample after both ends have been    *)
(* cleared.                                                                *)
THEOREM BroadcastSoundHolds == Spec => []BroadcastSound
<1>1. Init => BroadcastInv
  BY BroadcastStart
<1>2. TypeOK /\ TypeOK' /\ OriginInv /\ BroadcastInv /\ [Next]_vars => BroadcastInv'
  BY BroadcastStep
<1>3. BroadcastInv => BroadcastSound
  BY DEF BroadcastInv, ClientInv, BroadcastSound, Paired
<1> QED
  BY <1>1, <1>2, <1>3, OriginHolds, PTL DEF Spec

-----------------------------------------------------------------------------
(* The samples of interleaved symmetric mode.                              *)

(* Two symmetric hosts that interleave, on a network that is prompt, and   *)
(* do not answer with a kiss-o'-death.                                     *)
Interleaved ==
  /\ \A h \in Hosts : Symmetric(h)
  /\ config.xleave = Hosts /\ config.limited = {} /\ config.prompt

(* h polled at t.                                                          *)
PolledAt(h, t) == \E m \in net : m.from = h /\ m.kind = "time" /\ m.id = t

(* A poll of the other host that reports o came in at h at r, promptly.    *)
Arrived(h, r, o) ==
  /\ r < now
  /\ \E m \in net : /\ m.from = Other(h) /\ m.kind = "time" /\ m.rec = o
                    /\ <<m.id, r>> \in recvd[h]
                    /\ m.id < r /\ r - m.id < MaxDelay

(* The polls of h after d are MinPkt apart.                                *)
Spaced(h, d) ==
  \A p \in net : p.from = h /\ p.kind = "time" /\ p.id > d =>
    /\ p.id <= sentAt[h]
    /\ \A q \in net : q.from = h /\ q.kind = "time" /\ p.id < q.id =>
         p.id + MinPkt <= q.id

(* h has saved when its last poll left, or nothing, and when a poll of the *)
(* other came in since it was last cleared.                                *)
SavedInv(h) ==
  LET a == assoc[h] IN
  /\ a.flip # 0
  /\ a.rec < now
  /\ a.dst # 0 => Arrived(h, a.dst, a.rec) /\ Spaced(h, a.dst)
  /\ Previous(a) # 0 =>
       /\ PolledAt(h, Previous(a))
       /\ \A m \in net : m.from = h /\ m.kind = "time" => m.id <= Previous(a)

(* A poll reports when the one before left, or nothing, and when a poll of *)
(* the other host came in, and what that one reported.                     *)
PollInv(m) ==
  /\ m.id < now
  /\ m.org < m.id /\ m.rec < m.id
  /\ m.rec # 0 => Arrived(m.from, m.rec, m.org)
  /\ m.xmt # 0 =>
       /\ PolledAt(m.from, m.xmt)
       /\ \A p \in net : p.from = m.from /\ p.kind = "time" /\ p.id < m.id =>
            p.id <= m.xmt

PollsInv == \A m \in net : m.kind = "nak" \/ (m.kind = "time" /\ PollInv(m))

(* What SymmetricSound says of one sample.                                 *)
Trip(h, s) == s.kind = "symmetric" /\ ~Hurried(Other(h), s.t3) => RoundTrip(h, s)

SymmetricInv ==
  Interleaved =>
    /\ \A h \in Hosts : SavedInv(h)
    /\ PollsInv
    /\ \A h \in Hosts : \A s \in samples[h] : Trip(h, s)

-----------------------------------------------------------------------------
(* PolledAt, Arrived and Spaced of the next state, of an instant of this   *)
(* one.                                                                    *)
Polled(h, t) == \E m \in net' : m.from = h /\ m.kind = "time" /\ m.id = t

ArrivedBy(h, r, o) ==
  /\ r < now'
  /\ \E m \in net' : /\ m.from = Other(h) /\ m.kind = "time" /\ m.rec = o
                     /\ <<m.id, r>> \in recvd'[h]
                     /\ m.id < r /\ r - m.id < MaxDelay

SpacedBy(h, d) ==
  \A p \in net' : p.from = h /\ p.kind = "time" /\ p.id > d =>
    /\ p.id <= sentAt'[h]
    /\ \A q \in net' : q.from = h /\ q.kind = "time" /\ p.id < q.id =>
         p.id + MinPkt <= q.id

(* A poll that was sent, and one that came in, stays so.                   *)
LEMMA StillArrived ==
  ASSUME TypeOK, Grows, now' \in Int, now' >= now, NEW h \in Hosts,
         NEW t \in Timestamps, NEW o
  PROVE  /\ PolledAt(h, t) => Polled(h, t)
         /\ Arrived(h, t, o) => ArrivedBy(h, t, o)
<1>1. PolledAt(h, t) => Polled(h, t)
  BY DEF PolledAt, Polled, Grows
<1>2. ASSUME Arrived(h, t, o) PROVE ArrivedBy(h, t, o)
  <2>1. t < now'
    BY <1>2, TimeConstants, SMT DEF Arrived, TypeOK, Timestamps, Instants
  <2> QED
    BY <1>2, <2>1 DEF Arrived, ArrivedBy, Grows
<1> QED
  BY <1>1, <1>2

(* The invariants of the next state in these terms.                        *)
LEMMA SavedNext ==
  ASSUME NEW h \in Hosts,
         assoc'[h].flip # 0, assoc'[h].rec < now',
         assoc'[h].dst # 0 => /\ ArrivedBy(h, assoc'[h].dst, assoc'[h].rec)
                              /\ SpacedBy(h, assoc'[h].dst),
         Previous(assoc'[h]) # 0 =>
           /\ Polled(h, Previous(assoc'[h]))
           /\ \A m \in net' : m.from = h /\ m.kind = "time" =>
                m.id <= Previous(assoc'[h])
  PROVE  SavedInv(h)'
<1> DEFINE P == Previous(assoc'[h])
<1>1. Previous(assoc[h])' = P
  BY DEF Previous
<1> HIDE DEF P
<1>2. /\ Arrived(h, assoc[h].dst, assoc[h].rec)'
           <=> ArrivedBy(h, assoc'[h].dst, assoc'[h].rec)
      /\ Spaced(h, assoc[h].dst)' <=> SpacedBy(h, assoc'[h].dst)
  BY DEF Arrived, ArrivedBy, Spaced, SpacedBy
<1>3. PolledAt(h, Previous(assoc[h]))' <=> Polled(h, P)
  BY <1>1 DEF PolledAt, Polled
<1> QED
  BY <1>1, <1>2, <1>3 DEF SavedInv, P

(* PollInv of the state after a step, from its parts.                      *)
LEMMA PollNext ==
  ASSUME NEW m,
         m.id < now', m.org < m.id, m.rec < m.id,
         m.rec # 0 => ArrivedBy(m.from, m.rec, m.org),
         m.xmt # 0 => Polled(m.from, m.xmt),
         \A p \in net' : p.from = m.from /\ p.kind = "time" /\ p.id < m.id /\ m.xmt # 0 =>
           p.id <= m.xmt
  PROVE  PollInv(m)'
<1>1. Arrived(m.from, m.rec, m.org)' <=> ArrivedBy(m.from, m.rec, m.org)
  BY DEF Arrived, ArrivedBy
<1>2. PolledAt(m.from, m.xmt)' <=> Polled(m.from, m.xmt)
  BY DEF PolledAt, Polled
<1> QED
  BY <1>1, <1>2 DEF PollInv

(* A host and a packet that the step does not concern.                     *)
NoPollOf(h) == \A p \in net' \ net : p.from # h \/ p.kind # "time"

(* A host that neither sends nor receives keeps what it has saved.         *)
LEMMA SavedKeeps ==
  ASSUME TypeOK, Grows, now' \in Int, now' >= now, NEW h \in Hosts, SavedInv(h),
         assoc'[h] = assoc[h], sentAt'[h] = sentAt[h], NoPollOf(h)
  PROVE  SavedInv(h)'
<1>1. /\ assoc[h].dst \in Timestamps /\ Previous(assoc[h]) \in Timestamps
      /\ assoc[h].rec \in Timestamps
  BY DEF TypeOK, Assocs, Previous
<1>2. assoc[h].rec < now'
  <2> DEFINE t == assoc[h].rec
  <2>1. t \in Int /\ now \in Int
    BY <1>1, NowType, TimeConstants, SMT DEF Timestamps, Instants
  <2>2. t < now
    BY DEF SavedInv
  <2> HIDE DEF t
  <2>3. t < now'
    BY <2>1, <2>2, SMT
  <2> QED
    BY <2>3 DEF t
<1>3. assoc[h].dst # 0 => ArrivedBy(h, assoc[h].dst, assoc[h].rec)
  BY <1>1, StillArrived DEF SavedInv
<1>4. Previous(assoc[h]) # 0 =>
        /\ Polled(h, Previous(assoc[h]))
        /\ \A m \in net : m.from = h /\ m.kind = "time" => m.id <= Previous(assoc[h])
  BY <1>1, StillArrived DEF SavedInv
<1>5. assoc[h].flip # 0
  BY DEF SavedInv
<1>6. \A m \in net' : m.from = h /\ m.kind = "time" => m \in net
  BY DEF NoPollOf
<1>7. assoc[h].dst # 0 => SpacedBy(h, assoc[h].dst)
  BY <1>6 DEF SavedInv, Spaced, SpacedBy
<1> QED
  BY <1>2, <1>3, <1>4, <1>5, <1>6, <1>7, SavedNext

NoPollBefore(m) ==
  \A p \in net' \ net : p.from = m.from /\ p.kind = "time" => ~(p.id < m.id)

(* A poll on its way keeps its meaning while its sender sends no earlier   *)
(* one.                                                                    *)
LEMMA PollKeeps ==
  ASSUME TypeOK, Grows, now' \in Int, now' >= now, NEW m \in net, PollInv(m),
         NoPollBefore(m)
  PROVE  PollInv(m)'
<1>1. /\ m.from \in Hosts /\ m.id \in Int /\ m.rec \in Timestamps
      /\ m.xmt \in Timestamps /\ now \in Int
  BY TimeConstants, SMT DEF TypeOK, Packets, Timestamps, Instants
<1>2. m.id < now'
  <2>1. m.id < now
    BY DEF PollInv
  <2> QED
    BY <1>1, <2>1, SMT
<1>3. /\ m.rec # 0 => ArrivedBy(m.from, m.rec, m.org)
      /\ m.xmt # 0 => Polled(m.from, m.xmt)
  BY <1>1, StillArrived DEF PollInv
<1>4. \A p \in net' : p.from = m.from /\ p.kind = "time" /\ p.id < m.id /\ m.xmt # 0 =>
        p.id <= m.xmt
  BY DEF PollInv, NoPollBefore
<1>5. m.org < m.id /\ m.rec < m.id
  BY DEF PollInv
<1> QED
  BY <1>2, <1>3, <1>4, <1>5, PollNext

(* A poll of an interleaved association.                                   *)
LEMMA SymmetricPoll ==
  ASSUME TypeOK, TypeOK', NEW h \in Hosts, Mode(h) # "broadcast", SavedInv(h),
         PollsInv,
         PeerXmit(h) \/ PeerXmitNoKey(h)
  PROVE  /\ SavedInv(h)'
         /\ \A m \in net' : m.kind = "nak" \/ (m.kind = "time" /\ PollInv(m)')
<1> DEFINE t == PollTime(h)
           a == assoc[h]
           b == assoc'[h]
           p == PeerXmitPacket(h, t)
<1>1. /\ t \in Instants /\ t >= now /\ now' = t + 1
      /\ t >= sentAt[h] + MinPkt \/ sentAt[h] = 0
      /\ sentAt' = [sentAt EXCEPT ![h] = t]
      /\ b.rec = a.rec /\ b.dst = a.dst
      /\ \/ PeerXmit(h) /\ net' = net \cup {p}
         \/ /\ net' = net
            /\ a.flip # 0 => b.aorg = a.aorg /\ b.borg = a.borg /\ b.flip = a.flip
      /\ PeerXmit(h) /\ a.flip > 0 => b.aorg = t /\ b.borg = a.borg /\ b.flip = -1
      /\ PeerXmit(h) /\ a.flip < 0 => b.aorg = a.aorg /\ b.borg = t /\ b.flip = 1
  BY PollShape
<1>a. /\ t \in Instants /\ t >= now /\ now' = t + 1
      /\ t >= sentAt[h] + MinPkt \/ sentAt[h] = 0
      /\ sentAt' = [sentAt EXCEPT ![h] = t]
  BY <1>1
<1>b. net' = net \/ net' = net \cup {p}
  BY <1>1
<1>2. a.flip # 0 /\ a.flip \in {-1, 0, 1}
  BY DEF SavedInv, TypeOK, Assocs
<1>3. /\ p.from = h /\ p.id = t /\ p.kind = "time" /\ p.org = a.rec
      /\ p.rec = a.dst /\ p.xmt = Previous(a)
  BY <1>2 DEF PeerXmitPacket
<1>4. /\ now \in Int /\ now > 0 /\ t \in Int /\ sentAt[h] \in Int /\ MinPkt \in Nat
      /\ sentAt'[h] = t /\ now' \in Int /\ a.rec \in Int
      /\ a.dst \in Timestamps /\ Previous(a) \in Timestamps
      /\ \A m \in net : m.id \in Int /\ m.id > 0
  <2> HIDE DEF t
  <2>1. now \in Int /\ now > 0 /\ t \in Int /\ MinPkt \in Nat
    BY <1>a, TimeConstants, SMT DEF TypeOK, Instants
  <2>2. now' \in Int
    BY <1>a, <2>1, SMT
  <2>3. sentAt[h] \in Int /\ sentAt'[h] = t
    BY <1>a, TimeConstants, SMT DEF TypeOK, Timestamps, Instants
  <2>4. a.rec \in Int /\ a.dst \in Timestamps /\ Previous(a) \in Timestamps
    BY TimeConstants, SMT DEF TypeOK, Timestamps, Instants, Assocs, Previous
  <2>5. \A m \in net : m.id \in Int /\ m.id > 0
    BY TimeConstants, SMT DEF TypeOK, Instants, Packets
  <2> QED
    BY <2>1, <2>2, <2>3, <2>4, <2>5
<1>5. Grows
  BY ActsAlone DEF Alone
<1> HIDE DEF t, p
<1>6. now' >= now
  BY <1>a, <1>4, SMT
<1>7. \A m \in net : m.kind = "time" => m.id < now
  BY DEF PollInv, PollsInv
<1>8. \A m \in net : m.kind = "time" => m.id < t
  BY <1>a, <1>4, <1>7, SMT
<1>9. /\ a.dst # 0 => ArrivedBy(h, a.dst, a.rec)
      /\ Previous(a) # 0 => Polled(h, Previous(a))
  BY <1>4, <1>5, <1>6, StillArrived DEF SavedInv
<1>10. a.rec < now /\ a.rec < t /\ a.rec < now'
  <2>1. a.rec < now
    BY DEF SavedInv
  <2> HIDE DEF a
  <2> QED
    BY <1>a, <1>4, <2>1, SMT
<1>d. a.dst < t
  <2>1. a.dst = 0 \/ a.dst < now
    BY DEF SavedInv, Arrived
  <2> HIDE DEF a
  <2>2. a.dst \in Int
    BY <1>4, TimeConstants, SMT DEF Timestamps, Instants
  <2> QED
    BY <1>a, <1>4, <2>1, <2>2, SMT
<1>11. Previous(a) # 0 => \A m \in net : m.from = h /\ m.kind = "time" => m.id <= Previous(a)
  BY DEF SavedInv
<1>e. a.dst # 0 => SpacedBy(h, a.dst)
  <2> SUFFICES ASSUME a.dst # 0,
                      NEW k \in net', k.from = h, k.kind = "time", k.id > a.dst
               PROVE  /\ k.id <= t
                      /\ \A q \in net' : q.from = h /\ q.kind = "time" /\ k.id < q.id =>
                           k.id + MinPkt <= q.id
    BY <1>4 DEF SpacedBy
  <2>1. Spaced(h, a.dst)
    BY DEF SavedInv
  <2> HIDE DEF a
  <2>2. CASE k \in net
    <3>1. /\ k.id <= sentAt[h]
          /\ \A q \in net : q.from = h /\ q.kind = "time" /\ k.id < q.id =>
               k.id + MinPkt <= q.id
      BY <2>1, <2>2 DEF Spaced
    <3>2. k.id < t /\ k.id \in Int /\ k.id > 0
      BY <1>4, <1>8, <2>2
    <3>3. k.id + MinPkt <= t /\ k.id <= t
      BY <1>a, <1>4, <3>1, <3>2, SMT
    <3> QED
      BY <1>b, <1>3, <3>1, <3>3
  <2>3. CASE k = p
    <3>1. \A q \in net' : q.kind = "time" => ~(t < q.id)
      <4>1. \A q \in net : q.kind = "time" => ~(t < q.id)
        BY <1>4, <1>8, SMT
      <4>2. ~(t < t) /\ p.id = t
        BY <1>3, <1>4, SMT
      <4> QED
        BY <1>b, <4>1, <4>2
    <3>2. t <= t
      BY <1>4, SMT
    <3>3. k.id = t
      BY <1>3, <2>3
    <3> QED
      BY <3>1, <3>2, <3>3
  <2>4. k \in net \/ k = p
    BY <1>b
  <2> QED
    BY <2>2, <2>3, <2>4
<1>12. SavedInv(h)'
  <2>1. CASE PeerXmit(h) /\ net' = net \cup {p}
    <3>1. \/ b.aorg = t /\ b.flip = -1
          \/ b.borg = t /\ b.flip = 1
      <4>1. a.flip > 0 \/ a.flip < 0
        BY <1>2, SMT
      <4> QED
        BY <1>1, <2>1, <4>1
    <3>4. Previous(b) = t /\ b.flip # 0
      BY <3>1, SMT DEF Previous
    <3>2. Polled(h, t)
      BY <1>3, <2>1 DEF Polled
    <3>3. \A m \in net' : m.from = h /\ m.kind = "time" => m.id <= t
      BY <1>3, <1>4, <1>8, <2>1, SMT
    <3> HIDE DEF a
    <3> QED
      BY <1>1, <1>9, <1>10, <1>e, <3>2, <3>3, <3>4, SavedNext
  <2>2. CASE ~(PeerXmit(h) /\ net' = net \cup {p})
    <3>1. net' = net /\ Previous(b) = Previous(a) /\ b.flip # 0
      BY <1>1, <1>2, <2>2 DEF Previous
    <3> HIDE DEF a
    <3> QED
      BY <1>1, <1>9, <1>10, <1>11, <1>e, <3>1, SavedNext
  <2> QED
    BY <2>1, <2>2
<1>13. ASSUME NEW m \in net, m.kind = "time", PollInv(m)
       PROVE  PollInv(m)'
  <2>1. NoPollBefore(m)
    <3> SUFFICES ASSUME NEW q \in net' \ net, q.from = m.from, q.kind = "time"
                 PROVE  ~(q.id < m.id)
      BY DEF NoPollBefore
    <3>1. q = p
      BY <1>b
    <3>2. m.id < t /\ q.id = t
      BY <1>3, <1>8, <1>13, <3>1
    <3>3. m.id \in Int
      BY <1>4
    <3> QED
      BY <1>4, <3>2, <3>3, SMT
  <2> QED
    BY <1>4, <1>5, <1>6, <1>13, <2>1, PollKeeps
<1>14. ASSUME NEW m \in net', m = p
       PROVE  PollInv(m)'
  <2>1. \A q \in net' : q.from = m.from /\ q.kind = "time" /\ q.id < m.id /\ m.xmt # 0 =>
          q.id <= m.xmt
    <3> SUFFICES ASSUME NEW q \in net', q.from = h, q.kind = "time", q.id < t
                 PROVE  Previous(a) # 0 => q.id <= Previous(a)
      BY <1>3, <1>14
    <3>1. q # p
      BY <1>3, <1>4, SMT
    <3>2. q \in net
      BY <1>b, <3>1
    <3> QED
      BY <1>11, <3>2
  <2>2. m.id < now' /\ m.org < m.id /\ m.rec < m.id
    <3> HIDE DEF a
    <3>1. m.id = t /\ m.org = a.rec /\ m.rec = a.dst
      BY <1>3, <1>14
    <3>2. t < t + 1
      BY <1>4, SMT
    <3> QED
      BY <1>a, <1>d, <1>10, <3>1, <3>2
  <2>3. /\ m.rec # 0 => ArrivedBy(m.from, m.rec, m.org)
        /\ m.xmt # 0 => Polled(m.from, m.xmt)
    BY <1>3, <1>9, <1>14
  <2> QED
    BY <2>1, <2>2, <2>3, PollNext
<1>15. \A m \in net' : m \in net \/ m = p
  BY <1>b
<1> QED
  BY <1>3, <1>12, <1>13, <1>14, <1>15 DEF PollsInv

(* A packet that comes in at an interleaved association.                   *)
LEMMA SymmetricHears ==
  ASSUME TypeOK, TypeOK', NEW h \in Hosts, Mode(Other(h)) # "broadcast",
         config.prompt, h \in config.xleave, SavedInv(h),
         PollsInv,
         NEW m \in net, Hears(h, m)
  PROVE  SavedInv(h)'
<1> DEFINE a == assoc[h]
           b == assoc'[h]
<1>1. /\ m.from = Other(h) /\ Deliverable(m)
      /\ now' \in {now + 1, now + 2}
      /\ recvd' = [recvd EXCEPT ![h] = @ \cup {<<m.id, now>>}]
      /\ Heard(h, m, a, b)
      /\ net' = net \/ net' = net \cup {FastXmitPacket(h, m, "nak", now, now + 1)}
      /\ sentAt'[h] = sentAt[h] \/ (b.flip # 0 => b.dst = now)
  BY HearsShape
<1>2. Grows
  BY ActsAlone DEF Alone
<1>3. a.flip # 0 /\ ~FromBroadcast(m)
  BY <1>1 DEF SavedInv, FromBroadcast
<1>4. /\ \/ b.aorg = a.aorg /\ b.borg = a.borg /\ b.flip = a.flip
         \/ b.aorg = 0 /\ b.borg = 0 /\ b.flip = 1
      /\ \/ b.rec = a.rec /\ b.dst = a.dst
         \/ m.kind # "nak" /\ b.rec = m.rec /\ b.dst = now
         \/ b.rec = 0 /\ b.dst = 0
  BY <1>1, <1>3 DEF Heard
<1>a. now' \in {now + 1, now + 2}
  BY <1>1
<1>b. net' = net \/ net' = net \cup {FastXmitPacket(h, m, "nak", now, now + 1)}
  BY <1>1
<1>5. /\ now \in Int /\ now > 0 /\ now' \in Int /\ now' > now /\ m.id \in Int
      /\ a.rec \in Int /\ a.dst \in Timestamps /\ Previous(a) \in Timestamps
      /\ m.rec \in Int
  <2>1. now \in Int /\ now > 0
    BY NowType
  <2>2. now' \in Int /\ now' > now
    BY <1>a, <2>1, SMT
  <2>3. a.rec \in Int /\ a.dst \in Timestamps /\ Previous(a) \in Timestamps
    BY TimeConstants, SMTT(30) DEF TypeOK, Timestamps, Instants, Assocs, Previous
  <2>4. m.id \in Int /\ m.rec \in Int
    BY TimeConstants, SMT DEF TypeOK, Timestamps, Instants, Packets
  <2> QED
    BY <2>1, <2>2, <2>3, <2>4
<1>6. \A q \in net' : q.kind = "time" => q \in net
  BY <1>b, FastXmitFields, SMT
<1>7. /\ a.dst # 0 => ArrivedBy(h, a.dst, a.rec)
      /\ Previous(a) # 0 => /\ Polled(h, Previous(a))
                            /\ \A q \in net : q.from = h /\ q.kind = "time" =>
                                 q.id <= Previous(a)
  <2>1. now' >= now
    BY <1>5, SMT
  <2> QED
    BY <1>2, <1>5, <2>1, StillArrived DEF SavedInv
<1>8. m.kind # "nak" => m.kind = "time" /\ m.id < now /\ m.rec < now /\ ArrivedBy(h, now, m.rec)
  <2> SUFFICES ASSUME m.kind # "nak"
               PROVE  m.kind = "time" /\ m.id < now /\ m.rec < now /\ ArrivedBy(h, now, m.rec)
    OBVIOUS
  <2>1. m.kind = "time" /\ PollInv(m)
    BY DEF PollsInv
  <2>2. m.id < now /\ (m.rec = 0 \/ m.rec < now)
    BY <2>1 DEF PollInv, Arrived
  <2>3. now - m.id < MaxDelay
    BY <1>1 DEF Deliverable
  <2>4. <<m.id, now>> \in recvd'[h] /\ m \in net'
    BY <1>1 DEF TypeOK
  <2>5. now < now' /\ m.rec < now
    BY <1>5, <2>2
  <2> QED
    BY <1>1, <2>1, <2>2, <2>3, <2>4, <2>5 DEF ArrivedBy
<1>9. a.rec < now
  BY DEF SavedInv
<1>10. b.rec < now'
  <2>1. b.rec = a.rec \/ (b.rec = m.rec /\ m.rec < now) \/ b.rec = 0
    BY <1>4, <1>8
  <2> HIDE DEF a, b
  <2> QED
    BY <1>5, <1>9, <2>1, SMT
<1>11. b.dst # 0 => ArrivedBy(h, b.dst, b.rec)
  BY <1>4, <1>7, <1>8
<1>12. b.flip # 0 /\ Previous(b) \in {0, Previous(a)}
  BY <1>3, <1>4, SMT DEF Previous
<1>14. b.dst # 0 => SpacedBy(h, b.dst)
  <2> SUFFICES ASSUME b.dst # 0 PROVE SpacedBy(h, b.dst)
    OBVIOUS
  <2>1. CASE b.dst = now
    <3>1. \A q \in net : q.kind = "time" => q.id < now /\ q.id \in Int
      <4>1. \A q \in net : q.kind = "time" => q.id < now
        BY DEF PollsInv, PollInv
      <4>2. \A q \in net : q.id \in Int
        BY TimeConstants, SMT DEF TypeOK, Packets, Instants
      <4> QED
        BY <4>1, <4>2
    <3>2. \A q \in net' : q.kind = "time" => ~(q.id > now)
      BY <1>5, <1>6, <3>1, SMT
    <3> QED
      BY <2>1, <3>2 DEF SpacedBy
  <2>2. CASE b.dst # now
    <3>1. b.dst = a.dst /\ sentAt'[h] = sentAt[h]
      BY <1>1, <1>4, <1>12, <2>2
    <3>2. Spaced(h, a.dst)
      BY <3>1 DEF SavedInv
    <3> HIDE DEF a, b
    <3> QED
      BY <1>6, <3>1, <3>2 DEF Spaced, SpacedBy
  <2> QED
    BY <2>1, <2>2
<1>13. Previous(b) # 0 => /\ Polled(h, Previous(b))
                          /\ \A q \in net' : q.from = h /\ q.kind = "time" =>
                               q.id <= Previous(b)
  BY <1>6, <1>7, <1>12
<1> QED
  BY <1>10, <1>11, <1>12, <1>13, <1>14, SavedNext

(* A sample pairs what belongs together: timestamps of another poll would  *)
(* be MinPkt off, and the delay negative.                                  *)
LEMMA PairedSample ==
  ASSUME TypeOK, NEW h \in Hosts, SavedInv(h),
         PollsInv,
         NEW m \in net, m.from = Other(h), m.kind = "time", m.xmt # 0, m.rec # 0,
         m.org = assoc[h].dst, assoc[h].dst # 0, ~Hurried(Other(h), m.xmt),
         (m.rec - Previous(assoc[h])) - (m.xmt - assoc[h].dst) \in 0 .. MaxDelay
  PROVE  /\ Travelled(h, Previous(assoc[h]), m.rec)
         /\ Travelled(Other(h), m.xmt, assoc[h].dst)
<1> DEFINE t1 == Previous(assoc[h])
           t4 == assoc[h].dst
<1>1. Other(Other(h)) = h /\ PollInv(m)
  BY OtherHost DEF PollsInv
<1>2. Arrived(h, t4, assoc[h].rec) /\ Arrived(Other(h), m.rec, t4)
  BY <1>1 DEF SavedInv, PollInv
<1>3. PICK p \in net : /\ p.from = Other(h) /\ p.kind = "time"
                       /\ <<p.id, t4>> \in recvd[h]
                       /\ p.id < t4 /\ t4 - p.id < MaxDelay
  BY <1>2 DEF Arrived
<1>4. PICK q \in net : /\ q.from = h /\ q.kind = "time" /\ q.rec = t4
                       /\ <<q.id, m.rec>> \in recvd[Other(h)]
                       /\ q.id < m.rec /\ m.rec - q.id < MaxDelay
  BY <1>1, <1>2 DEF Arrived
<1>5. PICK r \in net : r.from = Other(h) /\ r.kind = "time" /\ r.id = m.xmt
  BY <1>1 DEF PollInv, PolledAt
<1>6. /\ m.org < m.id
      /\ p.id < m.id => p.id <= m.xmt
      /\ ~(p.id < r.id /\ r.id < p.id + MinPkt)
  BY <1>1, <1>3, <1>5 DEF PollInv, Hurried
<1>7. /\ m.id \in Int /\ p.id \in Int /\ q.id \in Int /\ m.rec \in Int
      /\ m.xmt \in Int /\ t1 \in Int /\ t4 \in Int /\ MinPkt \in Int
      /\ q.id >= Epoch /\ p.id >= Epoch /\ m.xmt <= MaxTime + 1
  BY TimeConstants, SMT DEF TypeOK, Packets, Assocs, Timestamps, Instants, Previous
<1> HIDE DEF t1, t4
<1>8. (m.rec - t1) - (m.xmt - t4) \in 0 .. MaxDelay
  BY DEF t1, t4
<1>9. t1 # 0
  <2>1. q.id < m.rec /\ p.id < t4
    BY <1>3, <1>4
  <2>2. m.rec > Epoch /\ t4 > Epoch /\ m.xmt <= MaxTime + 1
    BY <1>7, <2>1, TimeConstants, SMT
  <2>3. (m.rec - t1) - (m.xmt - t4) <= MaxDelay
    BY <1>7, <1>8, TimeConstants, SMT
  <2> QED
    BY <1>7, <2>2, <2>3, TimeConstants, EraAssumption, SMT
<1>10. PICK k \in net : k.from = h /\ k.kind = "time" /\ k.id = t1
  BY <1>9 DEF SavedInv, PolledAt, t1
<1>11. q.id <= t1 /\ (q.id < t1 => q.id + MinPkt <= t1)
  <2>1. q.id > t4
    <3>1. q.rec < q.id
      BY <1>4 DEF PollsInv, PollInv
    <3> QED
      BY <1>4, <1>7, <3>1, SMT
  <2>2. q.id <= t1
    BY <1>4, <1>9 DEF SavedInv, t1
  <2>3. q.id < k.id => q.id + MinPkt <= k.id
    BY <1>4, <1>10, <2>1 DEF SavedInv, Spaced, t4
  <2> QED
    BY <1>10, <2>2, <2>3
<1>12. p.id <= m.xmt /\ (p.id < m.xmt => p.id + MinPkt <= m.xmt)
  <2>1. p.id < m.id
    BY <1>3, <1>6, <1>7, SMT DEF t4
  <2>2. p.id <= m.xmt /\ ~(p.id < m.xmt /\ m.xmt < p.id + MinPkt)
    BY <1>5, <1>6, <2>1
  <2> QED
    BY <1>7, <2>2, SMT
<1>13. q.id = t1 /\ p.id = m.xmt
  <2>1. m.rec - q.id < MaxDelay /\ t4 - p.id < MaxDelay
    BY <1>3, <1>4
  <2>2. (m.rec - t1) - (m.xmt - t4) >= 0
    BY <1>7, <1>8, TimeConstants, SMT
  <2> QED
    BY <1>7, <1>11, <1>12, <2>1, <2>2, TimeConstants, SMT
<1> QED
  BY <1>1, <1>3, <1>4, <1>13 DEF Travelled, t1, t4

(* A round trip stays one.                                                 *)
LEMMA TripGrows ==
  ASSUME Grows, NEW h \in Hosts, NEW s
  PROVE  Trip(h, s) => Trip(h, s)'
<1>1. Other(h) \in Hosts /\ Other(Other(h)) = h
  BY OtherHost
<1>2. RoundTrip(h, s) => RoundTrip(h, s)'
  BY <1>1 DEF RoundTrip, Travelled, Grows
<1>3. Hurried(Other(h), s.t3) => Hurried(Other(h), s.t3)'
  BY DEF Hurried, Grows
<1> QED
  BY <1>2, <1>3 DEF Trip

(* Every step keeps what is known of two interleaved symmetric hosts.      *)
LEMMA SymmetricStep ==
  TypeOK /\ TypeOK' /\ SymmetricInv /\ [Next]_vars => SymmetricInv'
<1> SUFFICES ASSUME TypeOK, TypeOK', SymmetricInv, [Next]_vars, Interleaved'
             PROVE  /\ \A h \in Hosts : SavedInv(h)'
                    /\ \A m \in net' : m.kind = "nak" \/ (m.kind = "time" /\ PollInv(m)')
                    /\ \A h \in Hosts : \A s \in samples'[h] :
                         Trip(h, s)'
  BY DEF SymmetricInv, PollsInv
<1> DEFINE Packs == PollsInv
           Saves == \A h \in Hosts : SavedInv(h)
           Trips == \A h \in Hosts : \A s \in samples[h] :
                      Trip(h, s)
           Goal == /\ \A h \in Hosts : SavedInv(h)'
                   /\ \A m \in net' : m.kind = "nak" \/ (m.kind = "time" /\ PollInv(m)')
                   /\ \A h \in Hosts : \A s \in samples'[h] :
                        Trip(h, s)'
<1>1. config' = config => Interleaved /\ Packs /\ Saves /\ Trips
  BY DEF Interleaved, Symmetric, Mode, SymmetricInv
<1>b. \A h \in Hosts : (\A p \in net' \ net : p.from # h \/ p.kind # "time") => NoPollOf(h)
  BY DEF NoPollOf
<1>c. Packs => \A m \in net : m.kind = "nak" \/ (m.kind = "time" /\ PollInv(m))
  BY DEF PollsInv
<1>d. \A m \in net : (\A p \in net' \ net : p.from # m.from \/ p.kind # "time")
        => NoPollBefore(m)
  BY DEF NoPollBefore
<1>2. now \in Int /\ now' \in Int
  BY TimeConstants, SMT DEF TypeOK, Instants
<1>3. CASE UNCHANGED vars
  <2>1. Grows /\ Interleaved /\ Packs /\ Saves /\ Trips
    BY <1>1, <1>3 DEF vars, Grows
  <2>2. /\ now' = now /\ assoc' = assoc /\ net' = net /\ sentAt' = sentAt
        /\ samples' = samples
    BY <1>3 DEF vars
  <2>3. \A h \in Hosts : SavedInv(h)'
    BY <1>b, <1>2, <2>1, <2>2, SavedKeeps, SMT
  <2>4. ASSUME NEW m \in net, m.kind = "time", PollInv(m)
        PROVE  PollInv(m)'
    BY <1>d, <1>2, <2>1, <2>2, <2>4, PollKeeps, SMT
  <2>5. \A h \in Hosts : \A s \in samples'[h] : Trip(h, s)'
    BY <2>1, <2>2, TripGrows
  <2> QED
    BY <1>c, <2>1, <2>2, <2>3, <2>4, <2>5
<1> DEFINE Still(h) == /\ Grows /\ Interleaved /\ Packs /\ Saves /\ Trips
                       /\ now' >= now
                       /\ \A g \in Hosts \ {h} : SavedInv(g)'
<1>4. ASSUME NEW h \in Hosts, Alone(h)
      PROVE  Still(h)
  <2>1. /\ Grows /\ now' > now /\ config' = config
        /\ \A p \in net' \ net : p.from = h
        /\ \A g \in Hosts \ {h} : assoc'[g] = assoc[g] /\ sentAt'[g] = sentAt[g]
    BY <1>4 DEF Alone, Grows
  <2>2. Interleaved /\ Packs /\ Saves /\ Trips
    BY <1>1, <2>1
  <2>3. now' >= now
    BY <1>2, <2>1, SMT
  <2> QED
    BY <1>b, <1>2, <2>1, <2>2, <2>3, SavedKeeps
<1>5. ASSUME NEW h \in Hosts, Still(h),
             \A p \in net' \ net : p.kind = "nak"
      PROVE  \A m \in net' : m.kind = "nak" \/ (m.kind = "time" /\ PollInv(m)')
  <2> SUFFICES ASSUME NEW m \in net, m.kind = "time", PollInv(m)
               PROVE  PollInv(m)'
    BY <1>c, <1>5
  <2> QED
    BY <1>d, <1>2, <1>5, PollKeeps, SMT
<1>6. ASSUME NEW h \in Hosts, Still(h)
      PROVE  \A g \in Hosts : \A s \in samples[g] : Trip(g, s)'
  BY <1>6, TripGrows
<1>7. ASSUME NEW h \in Hosts, PeerXmit(h) \/ PeerXmitNoKey(h)
      PROVE  Goal
  <2>1. Still(h)
    BY <1>4, <1>7, ActsAlone
  <2>2. Mode(h) # "broadcast"
    BY <2>1 DEF Interleaved, Symmetric
  <2>3. /\ SavedInv(h)'
        /\ \A m \in net' : m.kind = "nak" \/ (m.kind = "time" /\ PollInv(m)')
    BY <1>7, <2>1, <2>2, SymmetricPoll
  <2>4. samples' = samples
    BY <1>7 DEF PeerXmit, PeerXmitNoKey
  <2> QED
    BY <1>6, <2>1, <2>3, <2>4
<1>8. ASSUME NEW h \in Hosts, Clear(h)
      PROVE  Goal
  <2>1. Alone(h) /\ net' = net /\ samples' = samples
    BY <1>8, ActsAlone
  <2>2. Still(h)
    BY <1>4, <2>1
  <2>3. /\ assoc'[h].aorg = 0 /\ assoc'[h].borg = 0 /\ assoc'[h].rec = 0
        /\ assoc'[h].dst = 0 /\ assoc'[h].flip = 1
    BY <1>8, <2>2, ClearedFields DEF Interleaved
  <2>4. SavedInv(h)'
    <3>1. now' > 0 /\ Previous(assoc'[h]) = 0
      BY <2>3, TimeConstants, SMT DEF TypeOK, Instants, Previous
    <3> QED
      BY <2>3, <3>1, SavedNext, SMT
  <2> QED
    BY <1>5, <1>6, <2>1, <2>2, <2>4
<1>9. ASSUME NEW h \in Hosts, NEW m \in net, NEW kind \in {"time", "nak", "kod"},
             FastXmit(h, m, kind)
      PROVE  Goal
  <2>1. Still(h)
    BY <1>4, <1>9, ActsAlone
  <2> QED
    BY <1>9, <2>1 DEF FastXmit, Interleaved, Symmetric
<1>10. ASSUME NEW h \in Hosts, NEW m \in net, Hears(h, m)
       PROVE  Goal
  <2>1. Alone(h)
    BY <1>10, ActsAlone
  <2>2. Still(h)
    BY <1>4, <2>1
  <2>3. Other(h) \in Hosts /\ Mode(Other(h)) # "broadcast" /\ h \in config.xleave
        /\ config.prompt
    BY <2>2, OtherHost DEF Interleaved, Symmetric
  <2>4. SavedInv(h)'
    BY <1>10, <2>2, <2>3, SymmetricHears
  <2>5. /\ m.from = Other(h)
        /\ net' = net \/ net' = net \cup {FastXmitPacket(h, m, "nak", now, now + 1)}
        /\ \A g \in Hosts \ {h} : samples'[g] = samples[g]
        /\ \/ samples'[h] = samples[h]
           \/ \E step \in BOOLEAN : ReceiveSample(h, m, step)
    BY <1>10, HearsShape
  <2>6. \A p \in net' \ net : p.kind = "nak"
    BY <2>5, FastXmitFields, SMT
  <2>7. \A s \in samples'[h] : Trip(h, s)'
    <3>1. CASE samples'[h] = samples[h]
      BY <1>6, <2>2, <3>1
    <3>2. ASSUME NEW step \in BOOLEAN, ReceiveSample(h, m, step)
          PROVE  \A s \in samples'[h] : Trip(h, s)'
      <4>1. PICK s \in Samples : Sampled(h, m, step, s)
        BY <3>2, SampleShape
      <4>2. samples'[h] = samples[h] \cup {s}
        BY <4>1 DEF Sampled
      <4>3. ASSUME s.kind = "symmetric", ~Hurried(Other(h), s.t3)
            PROVE  RoundTrip(h, s)
        <5>1. ~FromBroadcast(m)
          BY <2>3, <2>5 DEF FromBroadcast
        <5>2. /\ m.kind = "time" /\ m.xmt # 0
              /\ m.org = assoc[h].dst /\ assoc[h].dst # 0 /\ m.rec # 0
              /\ s.t1 = Previous(assoc[h]) /\ s.t2 = m.rec
              /\ s.t3 = m.xmt /\ s.t4 = assoc[h].dst
              /\ (s.t2 - s.t1) - (s.t3 - s.t4) \in 0 .. MaxDelay
          BY <4>1, <4>3, <5>1 DEF Sampled
        <5>3. /\ (m.rec - Previous(assoc[h])) - (m.xmt - assoc[h].dst) \in 0 .. MaxDelay
              /\ ~Hurried(Other(h), m.xmt)
          BY <4>3, <5>2
        <5>4. /\ Travelled(h, Previous(assoc[h]), m.rec)
              /\ Travelled(Other(h), m.xmt, assoc[h].dst)
          BY <2>2, <2>5, <5>2, <5>3, PairedSample
        <5> QED
          BY <5>2, <5>4 DEF RoundTrip
      <4>4. Trip(h, s)'
        BY <2>2, <4>3, TripGrows DEF Trip
      <4> QED
        BY <1>6, <2>2, <4>2, <4>4
    <3> QED
      BY <2>5, <3>1, <3>2
  <2> QED
    BY <1>5, <1>6, <2>1, <2>2, <2>4, <2>5, <2>6, <2>7
<1> QED
  BY <1>3, <1>7, <1>8, <1>9, <1>10 DEF Next, Hears

(* The associations that newpeer() leaves satisfy the invariant of         *)
(* interleaved symmetric mode.                                             *)
LEMMA SymmetricStart == Init => SymmetricInv
<1> SUFFICES ASSUME Init, Interleaved, NEW h \in Hosts
             PROVE  SavedInv(h)
  BY DEF SymmetricInv, PollsInv, Init
<1>1. /\ net = {} /\ now = Epoch /\ assoc[h].aorg = 0 /\ assoc[h].borg = 0
      /\ assoc[h].rec = 0 /\ assoc[h].dst = 0
      /\ assoc[h].flip = IF h \in config.xleave THEN 1 ELSE 0
  BY DEF Init
<1>2. assoc[h].flip = 1 /\ Previous(assoc[h]) = 0
  BY <1>1 DEF Interleaved, Previous
<1> QED
  BY <1>1, <1>2, TimeConstants, SMT DEF SavedInv

(* Two hosts configured to interleave, on a prompt network: the four       *)
(* timestamps of a sample are those of one poll out and one back, however  *)
(* packets are lost, repeated or crossed, and across clears, steps, failed *)
(* digests and crypto-NAKs, however many.  Exempt are samples of a poll    *)
(* that the other host sent within MinPkt of the one before, which only a  *)
(* clear makes it do.                                                      *)
THEOREM SymmetricSoundHolds == Spec => [](Interleaved => SymmetricSound)
<1>1. Init => SymmetricInv
  BY SymmetricStart
<1>2. TypeOK /\ TypeOK' /\ SymmetricInv /\ [Next]_vars => SymmetricInv'
  BY SymmetricStep
<1>3. SymmetricInv => (Interleaved => SymmetricSound)
  BY DEF SymmetricInv, SymmetricSound, Trip
<1> QED
  BY <1>1, <1>2, <1>3, TypeCorrect, PTL DEF Spec

=============================================================================
