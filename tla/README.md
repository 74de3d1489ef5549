# A verification model of ntpd

TLA+ modules, model-checking runs and proofs for the NTP daemon in `src/ntpd`.
They follow a measurement through the daemon: which packets it sends and when,
which of those it receives become samples, which sources it believes and
follows, and what it does to the clock; and with it the tables this rests on:
the associations, the restrictions, the list of recent clients, and the queues
to the thread that resolves names.

## 1. The system

ntpd is a single-threaded event loop (`ntpd.c`): packets and a one-second timer
are handled one at a time, each handler to its end.  A second thread or process
resolves names.  What makes the daemon hard is not threads but the network on
the other side, the many modes that share one state, and handlers that call
each other in depth (a packet can step the clock, which clears the association
the packet is being processed for).

| Component | Source | State | Operations |
|---|---|---|---|
| On-wire protocol | `ntp_proto.c` `receive`, `process_packet`, `peer_xmit`, `fast_xmit` | `aorg borg rec dst xmt flip`, `FLAG_XB`, `FLAG_XBOGUS` of `struct peer` | send a poll, answer a packet, check and use a packet |
| Poll process | `ntp_proto.c` `transmit`, `poll_update`, `peer_clear`; `ntp_timer.c` `timer` | `hpoll minpoll ppoll burst retry reach unreach throttle nextdate outdate` | poll, burst, kiss-o'-death, restart, one second |
| Association table | `ntp_peer.c`; the dispatch in `receive` | free list, peer list, two hash tables, list per endpoint, counters, next ID | configure, mobilize, demobilize, rebind, find |
| Clock filter | `clock_filter` | shift register of eight samples | add a sample, suppress old ones and popcorn spikes |
| Selection, clustering, combining | `clock_select`, `clock_combine` | `sys_peer`, statuses, `sys_survivors`, clockhop | select |
| System process | `clock_update`, `timer` | `sys_leap sys_stratum`, orphan and leap second timers | update, step, lose the system peer |
| Clock discipline | `ntp_loopfilter.c` `local_clock` | `state`, `clock_epoch`, `sys_poll`, `tc_counter` | slew, ignore a spike, step, panic |
| Access restrictions | `ntp_restrict.c` | two sorted lists, `res_limited_refcnt` | add, change, remove, expire, match |
| Monitoring and rate limit | `ntp_monitor.c` | MRU list, leaky buckets | record a packet, evict, limit |
| Name resolution | `libntp/ntp_worker.c`, `work_thread.c`, `ntp_intres.c` | rings of requests and responses, idle timer | request, respond, exit when idle |
| Receive buffers | `libntp/recvbuff.c` | free and full lists | get, fill, return |
| Endpoints | `ntp_io.c` | list of local endpoints | rescan, add, remove |
| Reference clocks, Autokey, keys, configuration, control protocols, utilities | `ntp_refclock.c`, `ntp_crypto.c`, `authkeys.c`, `ntp_config.c`, `ntp_control.c`, `ntp_request.c`, `ntpq/`, `ntpdc/`, `sntp/` | | |

How the parts interact: `timer` calls `transmit` for every association that is
due; `transmit` counts silence, sends through `peer_xmit` and reschedules
through `poll_update`, or demobilizes the association.  `receive` finds or
mobilizes an association (`findpeer`, `newpeer`), runs the timestamp checks and
hands the packet to `process_packet`, which may start a burst, reschedules,
computes a sample and calls the clock filter; the filter calls selection,
selection calls `clock_update`, and that calls `local_clock`, which may step the
clock; `clear_all` then clears every association before control returns to
`receive`.  `update_interfaces` rebinds associations when endpoints come and go.

The hard behaviours are listed, each at its line, under `hazards` in
`PROJECT.json`: lost, repeated, late and crossed packets; zero as "unset"; a
clear in the middle of a handler; two processes rescheduling the same poll;
counters that are reset in several places; structures on four lists; a
constructor that fails half way; identifiers that wrap around; rings that two
threads share without a lock; a pointer to a freed system peer; a list searched
while its entries expire.

## 2. The modules

### OnWire: the timestamps of two hosts

Two hosts, each with one association with the other (or a stateless server),
in the roles of `config`: client and server, two symmetric peers, a broadcaster
and its client, each basic or interleaved.

* `assoc[h]` holds the timestamp fields of `struct peer` under their names.
* `net` is the set of all packets ever sent; a packet may be received never,
  once or repeatedly, and in any order.
* Every event has an instant of its own, so a timestamp names one event and the
  four timestamps of a sample can be compared with what really happened
  (`recvd`, and `id` of a packet).  0 is the unset timestamp, as in the code.
* `PeerXmit`, `PeerXmitNoKey` are `peer_xmit` (the copy for associations without
  a key and the copy at its end for those with one); `FastXmit` is `fast_xmit`
  with a server's reply, the crypto-NAK it sends when the digest fails, or a
  kiss-o'-death.
* Polls of a host are `MinPkt` apart (`PollTime`), but `peer_clear` schedules a
  first poll at any moment from then on: a poll within `MinPkt` of the one before
  is a hurried one (`Hurried`).
* `Receive...` are the ways through `receive` and `process_packet`: a
  duplicate (TEST1), the start of interleaved broadcast, a crypto-NAK or
  kiss-o'-death, a bad digest (TEST5), a packet that yields no sample (TEST2,
  TEST3, TEST6, TEST7 or an unacceptable delay) and one that yields a sample
  (`samples`), with or without a clock step inside.
* `Clear` is `peer_clear` called from elsewhere.

Left out: Autokey; the volley of a broadcast client; the values of the offsets; that
a preemptable association is demobilized by a refusal or a bad digest, after which
there are no timestamps to speak of (Associations has that).

### Poll: when one association sends

One association of each kind (`kind`: unicast client, symmetric passive,
preemptable broadcast client, broadcaster, manycast client, pool; with `iburst`,
`burst` and `xleave`), the one-second timer and an environment that answers, does
not answer or answers late.

* `peer` holds the polling fields under the source's names; `next` and `out`
  are `nextdate` and `outdate` relative to `current_time`.
* `PollUpdate` is `poll_update` (a set, because of its random fraction),
  `PeerClear` is `peer_clear`.
* `TimerIdle`, `TransmitBroadcast`, `TransmitManycast`, `TransmitPool`,
  `TransmitPoll`, `TransmitBurst` are one call of `timer` for the association.
* `ReceiveKoD`, `ReceiveBad`, `ReceiveGood`, `ReceiveStep` are the ways through
  `receive`; `Selected` is `clock_update` for this association; `Restart` is a
  clear from elsewhere.
* `gap`, `cleared`, `headway`, `unheard`, `quiet`, `heard`, `good` and `silence` are
  history variables.  `silence` counts the new polls in a row before which no good
  packet was in the reach register; `quiet` the seconds since the last packet, up
  to `Calm`.

Left out: the wait for the first poll while the daemon is initializing; Autokey's
pending messages; ntpdate mode; reference clocks, which are polled by drivers.

### Associations: the table

* `table` is the data of `ntp_peer.c`: the structures by number, `peer_list`,
  `peer_free`, the hash tables `peer_hash` and `assoc_hash`, the list `peers`
  of every endpoint, the two counters and the next association ID.
* `Configure`, `ConfigureFails` (the reference clock does not start) and
  `Unconfigure` are the operator's; `Timeout` is the end of `transmit`;
  `Solicit` is `pool_xmit` and a manycast client's `peer_xmit`;
  `EndpointChange` is `update_interfaces` with `refresh_all_peerinterfaces`.
* A receive buffer names the structure of the endpoint it came in by, and the timer
  may delete that before the main loop gets to the buffer (`ntpd.c:1026`).  A
  packet may therefore name an endpoint that is gone; when it binds an association
  to it, `stale` is set and the model stops, as nothing defines what follows.
* `failed` counts the reference clocks that did not start, preemptable and others.
* `ReceiveProcpkt`, `ReceiveNewpass`, `ReceiveNewbcl`, `ReceiveManycast` are the
  cases of `receive` that change the table, chosen by `FindPeer` and `Match`
  (the matrix `AM`).

Left out: statistics; the scores that decide which preemptable association
goes first (any may); `sys_peer` (see ClockSelect).

### Resolver and Worker: name resolution

`Resolver` is what the users of `getaddrinfo_sometime` may expect: a queue,
answered in order, with a worker that is dismissed when idle.  `Worker` is how
`ntp_worker.c`, `work_thread.c` and `ntp_intres.c` do it.

* `workitems` and `responses` are the two rings with the indices of their
  writers and readers; `blocking_req_ready` is the semaphore, `pipe` the number
  of bytes in the pipe, `thread_ref` the thread.
* `Ask` and `AskAndStart` are `queue_blocking_request` with a child there and
  with one to start; `GrowWorkitems` is the second half of
  `ensure_workitems_empty_slot`, a step of its own because the child runs
  meanwhile. `WorkerIdleTimerFired` queues the order to exit; `ParentResponds`
  is `process_blocking_resp` with the completion, the retry and
  `cleanup_after_child`.
* `ChildStep` is the child: wait, take an item, look it up, store the response
  (extending the ring if it is full) and write its byte.
* `damage` is a history variable: was a ring extended where that lets its
  writer lap its reader ("lapped"), or while the other thread was using it
  ("raced")?  What follows a race is undefined and the model stops.
* The parent reads responses until it meets an empty slot, so it may find the
  child's farewell before its byte is in the pipe, and `cleanup_after_child` then
  resets `next_response` (`work_thread.c:712`) while the child has yet to advance it
  (288).  Which of the two writes comes last is the other case of "raced".
  Everywhere else the index is the child's own, and storing a response and
  advancing the index are one step.
* `Promise` maps Worker to Resolver: the requests on their way, in the order of
  the two rings, are `waiting`.  Resolver's `Break` is the loss of that order.

Left out: `fork`ed and Windows workers, backoff times, weak memory.

### Discipline: what is done to the clock

* The variables of `local_clock`, `clock_update` and `timer` under their names.
  An offset is known by its size (`floor`, `in`, `out`, `panic`); `mu` is the
  age of the last update; `left` is the rest of the month.
* `Update` is `clock_update` with all of `local_clock`: ignore, slew, step or
  exit, then the system variables and the leap second.  `LosePeer` is the part
  of `clock_select` that clears `sys_peer`; `ConfigNtp` is `enable ntp`.
* `SystemSecond` is the clock and SIGALRM, `Timer` its handler in the event
  loop (with `AdjHostClock`): a second that passes before the last one is served
  is lost.

Left out: the frequency and the kernel loop's arithmetic; ntpdate mode.

### ClockSelect: who is followed

* `peer[p]` says whether the structure is mobilized, fit (`peer_unfit`), what its
  last sample says, and whether that is later than `sys_epoch`.
* `FilterAndSelect`, `FilterNoSelect` and `FilterEmpty` are the ends of
  `clock_filter` together with the `clock_select` that follows; `Unfit` is a peer
  that becomes unfit by itself; `PeerClear` clears an association; `Unpeer` and
  `Newpeer` free and reuse structures.
* `sys_peer` is a peer, 0 for none, or `Ghost`, the structure of an association
  that is gone.  `Newpeer` may be given that structure, whichever association it is
  for.  An association that is mobilized again keeps its number in the model.  A
  "caster" is a prototype (broadcast, manycast, pool), which never has samples.
  `lost` is a history variable: a PPS driver was cleared or freed while followed.
* `Found` is the scan of sorted endpoints; `ClockSelect` goes on to truechimers,
  trimming, `sys_minsane`, prefer, clockhop, PPS, and `clock_update`.

Left to chance: the metrics that trim and rank survivors, the discipline's
verdict, when an orphan parent may be used.

### RateLimit: restrictions and recent clients

* `restrictlist` is the sorted IPv4 list; `mon` the state of `ntp_monitor.c`: what
  turned it on, the MRU list with its buckets, and the counts of structures.
* `AddRestrict`, `Unrestrict` and `Monitor` are the operator's commands;
  `InterfaceUp`, `InterfaceDown`, `NewPeer`, `UnPeer` and `PoolXmit` bring and
  remove the entries of interfaces and of `restrict source`, and clear the MRU
  list of an interface that goes.
* `Receive` is a packet: `restrictions`, which frees what has expired on its way,
  then `ntp_monitor`.  A packet may name an interface deleted since (`Stale`).
  `Tick` is half a second, `StepClock` a step of the clock, forward or back.

Left out: IPv6 (the same code on another list), the hash table, packet counts, and
masks with holes: `Keys` has prefixes, for which alone "most specific" has a
meaning.  A restrict command has one entry.  A request may carry several; but the
loop of `do_restrict` that checks them uses up their count (`ntp_request.c:1733`),
and the loop that applies them (1766) starts from what is left of it.  MRU
increments are at least 1; `ntp_config.c:2270` accepts 0 too.

## 3. The runs

| Run | Question | Result |
|---|---|---|
| `OnWire` | Is every sample a measurement of packets that travelled, is no poll answered twice, does a step flush? | holds, with the exceptions named in the properties |
| `OnWireZero` | Is that so for an unset origin timestamp too? | no: see below |
| `OnWireStep` | Does a step flush interleaved timestamps too? | no: see below |
| `Poll` | Guard time, throttle, load on a silent server, bursts, timeouts | holds |
| `PollLive` | Does polling go on, do silent ephemeral associations end; are interleaved bursts paced? | holds if packets pause now and then |
| `Associations` | Do lists, tables, counters and IDs agree; does configuration last? | holds, but for a packet of a deleted endpoint |
| `AssociationsTwins` | Are there no duplicates, as `newpeer` says? | there are: see below |
| `AssociationsClock` | Does `peer_associations` count the mobilized associations? | no: see below |
| `Worker` | Do two rings, a semaphore and a pipe make one queue; does every request end; does an idle child exit? | holds while the rings are intact |
| `Discipline` | Does a single spike step a locked clock, is there a second panic, do leap bits and orphan mode mean what they say, does the loop settle? | holds |
| `ClockSelect` | Does the scan find the majority's interval, is the peer followed a truechimer and the one reported, is a freed one left? | holds |
| `RateLimit` | Is the most specific restriction found, are counts and memory right, are kisses spaced? | holds, with the exceptions named in the properties |

What the four disagreements show:

* `OnWireZero`.  In basic mode `receive` compares the packet's origin timestamp
  with `aorg`, which is zero after a match, a clear or before the first poll.
  A symmetric peer that has not heard from us sends zero as its origin
  timestamp.  The two zeros match, and a sample is computed with the origin
  time zero.  (`html/warp.html`: "the origin timestamp T1 upon departure of the
  client request".)  `BasicSound` therefore speaks of samples whose origin is
  set.
* `OnWireStep`.  After a step `clear_all` zeroes the association, then `receive`
  goes on and stores the receive time of the packet, read before the step, in
  `dst` of an interleaved association; the next sample uses it.
  `BasicStepFlushes` is the same statement for the other modes.
* `AssociationsTwins`.  `newpeer` looks for a duplicate on the endpoint the
  packet came in by, but binds the new association to another one.
  `NearlyUnique` states what remains true.
* `AssociationsClock`.  When `refclock_newpeer` fails, the structure is freed
  but `peer_associations` stays incremented.  `Counted` states the exact
  difference.

Where the code does other than a comment says, or than one would wish, the
properties of the passing runs name the exception:

* `OnWire`.  The limit on the delay tells a poll from the one before it because they
  are `ntp_minpkt` apart.  After a clear they may not be, and a sample may then pair
  the report of one with the arrival of the other: `SymmetricSound` and
  `BroadcastSound` exempt hurried polls.  `FLAG_XB` outlives `peer_clear`, so that a
  broadcast client and its server, both cleared, make a sample of zeros
  (`NullSample`).
* `Poll`.  `poll_update` moves the next poll at every packet.  Packets that come
  without a pause can move it for ever, so `PollsAgain` and `EphemeralTimeout` ask
  for pauses.  Packets of the other end pull those of an interleaved burst towards
  the middle of the poll interval, whatever the throttle asks (`BurstExcess` in
  `Throttled`).  A clear forgets the reach register and keeps `unreach`: a good
  packet that is cleared away before the next new poll does not prevent a timeout
  (`TossedWhenSilent`).
* `Associations`.  A packet handled after its endpoint was deleted binds an
  association to it (`ListsAgree`).  Once as many IDs have been given out as there
  are, one in use may be given out again (`FoundById`).
* `Worker`. A ring that is full is extended at its end, but its indices are only
  adjusted when the writer stands at its start (`work_thread.c:144`): at any other
  place the writer then overwrites an item that has not been read, and the INSIST
  at line 265 may fail later. The other thread may also be using the ring that is
  being moved, or have yet to advance the index that `cleanup_after_child` resets.
  `InsistReq`, `Accounted`, `Completed` and `ImplementsResolver` speak of intact
  rings and indices. A request that is queued after the order to exit, and before
  the child has said it is gone, is dropped with it; so is the first request after
  the idle timer, which the farewell itself starts again, has queued an order to
  exit for a child no longer there. `intres_req_pending` then never returns to 0
  (`Accounted`), and the idle timer never runs again.
* `Discipline`.  `allow_panic` is not cleared by every update below the step
  threshold (the comment at `ntp_loopfilter.c:238`), but by those that discipline
  the clock: not by the one that ends NSET nor by those ignored in FREQ
  (`PanicOnce`).  A single spike is suppressed in SYNC and SPIK only
  (`SpikeSuppressed`; the comment at 383 says always).  An update between the
  end of the month and the tick that completes the countdown puts the leap second
  off to the next month with the leap bits set (`LeapBits`).
* `ClockSelect`.  A PPS driver is chosen even with fewer than `sys_minsane`
  survivors (`ntp_proto.c:2786`), and the prefer peer is reported as the system
  peer while it is (`HopsToTruechimer`, `StatusAgrees`).  When that driver is
  cleared or freed its status word is zeroed, and the prefer peer's stays (`lost`).
  When every association but prototypes is gone, `sys_peer` goes on pointing at a
  freed one (`SysPeerLeaves`).  `HopsToTruechimer` is about changes of the system
  peer: that an old one is kept, though no survivor, is the clockhop dance.
* `RateLimit`. `free_res` tests `RES_LIMITED && res->flags`
  (`ntp_restrict.c:218`), so freeing an entry with other flags lowers
  `res_limited_refcnt` (`LimitedCounted`). The search compares with an entry it
  has just freed, which is all zeros and matches, so that no restriction applies
  this once (269, `MostSpecific`). `mru_maxdepth` is exceeded by an increment,
  by the first allocation or up to `mru_mindepth`, and a packet handled after its
  interface was deleted makes an entry that refers to it (`MruAccounted`). The
  intervals are rounded up to seconds, so that the kisses of one entry may be spaced
  by little more than half the headway; the entry of a source that is recycled
  begins anew (`KodSpacing`).

### Bounds

* OnWire: 14 instants, at least 6 apart between polls of one host, so up to
  three polls of each side with their answers, in 6 configurations; one
  duplication, clear, step or refusal in each behaviour.  The pairing of timestamps
  depends on at most two consecutive polls of each side, and the proofs remove the
  bound.  A hurried symmetric poll happens in the run; a hurried broadcast that is
  reported late needs two instants more and a null sample a second fault, and these
  are covered by the proof only.
* Poll: poll exponents 2 and 3, a two-bit reach register, `NTP_SHIFT` 2,
  `NTP_UNREACH` 2, bursts of 3, two unanswered requests, one restart.  Bursts
  on top of retries, kisses that raise `minpoll` and late replies all happen;
  the counters reach their limits.  `PollCap` is the largest poll exponent, so that
  the runs never have `minpoll` above `maxpoll`; `TypeCorrect` is proved for that
  too.  `PollLive` has the one poll exponent 3, at which the second of interleaved
  mode fits into the headway, `NTP_SHIFT` 1, bursts of 5, one unanswered request,
  no restart, and kinds that take part in what it asks: a client, an interleaved
  peer with bursts, and a passive one.  `Calm` is 4 s, twice the guard time, the
  shortest pause for which the two liveness properties hold.
* Associations: one host reachable by two endpoints and a multicast group, a
  reference clock and a pool; three mobilizations with three IDs (so they wrap
  around), one static structure and increments of two (so structures are
  allocated and reused), two buckets.

* Worker: three requests, one of them retried; rings that grow by 2 up to 4
  slots.  They fill, wrap around, are extended at and away from their start and
  under the other thread; requests meet a child that is leaving.
* Discipline: one source with a fixed and one with a variable poll exponent, two
  ticks of stepout, a jiggle counter of up to 2, a month of 3 seconds with a
  last day of 2, so that the countdown, lost ticks and updates meet in every
  order.  The kernel does not insert leap seconds.
* ClockSelect: three peers in five casts (three servers; prefer and ATOM;
  a true chimer, the local clock and an orphan parent; another PPS driver; a PPS
  driver and a prototype), with
  samples that agree, touch or are apart, `sys_minclock` 2, `sys_minsane` 1 or 2,
  and three halvings of the clockhop threshold.
* RateLimit: addresses of two bits, so that default, network and host entries with
  and without match flags overlap; six sites, each with what one question needs:
  four keys, an interface with a server, the same with a client, and two or three
  clients with MRU options that make the list reach each of its limits.  A
  silence is counted up to 5 half seconds, past the headway of 4; a step takes the
  clock forward by 3 or back by 2; the reference count may fall 1 below zero (in the
  code it wraps around).

Every run has CHECK_DEADLOCK FALSE because its bounds, or the program, end it:
the last instant, a demobilized association, no more mobilizations, rings that
may not grow further or have been raced, an association bound to a deleted
endpoint, a daemon that has exited on a panic.

### Fairness

* `PollLive` assumes weak fairness of `Timer` only: the one-second timer keeps
  firing (`setitimer`, and the loop in `ntpdmain` serves a pending alarm before it
  waits again).  Of the network its two properties assume `[]<>(quiet = Calm)`, as
  their premise: packets pause for 4 s again and again.  What comes between the
  pauses, and how much, is open; good packets may never come.  The code needs the
  premise: with shorter pauses TLC finds a behaviour in which packets put the poll
  off for ever.
* `Worker`: both threads are scheduled (a lookup ends, and the event loop serves a
  readable pipe), and the idle timer is served.  No request need ever be
  made, and a retry may go on for ever.
* `Discipline`: time passes, the event loop serves the alarm, and updates keep
  coming, of any size.  `Settles` asks moreover that the loop stays closed.
* `ClockSelect`: a mobilized peer other than a prototype is polled for ever (what
  `PollsAgain` says of one association), so either it has samples later than
  `sys_epoch` again and again, or its register runs empty: samples leave it after
  `NTP_SHIFT` polls.  `SysPeerLeaves` asks moreover that associations cease to
  come, go and be cleared.

## 4. The proofs

Every module but Associations has its proofs in a module of its own
(`OnWireProofs`, `PollProofs`, `DisciplineProofs`, `ClockSelectProofs`,
`RateLimitProofs`); those of Worker are in three that extend each other:
`WorkerProofs`, `QueueProofs` with the lemmas about the rings read as a queue, and
`ResolverProofs` with the refinement.  The theorems hold for every value of the
constants that satisfies the named assumptions of the component's module: any
number of instants, faults, peers, requests and clients, lists and rings of any
length.  The runs evaluate these assumptions on their instances.  Two of them are
facts of arithmetic that the prover has no theory for, about powers of two:
`PollPowers` (`Poll`) and `MaskPowers` (`RateLimit`).

### OnWire

* `TypeCorrect`: `Spec => []TypeOK`.
* `BasicSoundness`: `Spec => [](Ordinary => BasicSound)`.  `Ordinary`
  configurations are those where no host is configured to interleave and not
  both hosts are rate limited.  The inductive invariant `BasicInv` is needed
  because a sample is built from what two packets and two associations carried
  for a while.  It says that all recorded instants are in the past and name one
  event each (`Past`, `Names`); that the origin and receive timestamps of a
  packet are unset, or a packet of the other host and the instant it came in, or
  a packet of the sender's own that a kiss-o'-death echoed (`PacketInv`); and
  that an association holds such a pair in `rec` and `dst`, and in `aorg` never
  an instant at which the other host sent (`AssocInv`).  Each action
  has a step that shows it preserves the invariant; receiving a sample turns
  `AssocInv` and `PacketInv` into `RoundTrip`.
* `OneSamplePerPollHolds` and `BasicStepFlushesHolds`, in all configurations, from
  `OriginInv`: a saved origin timestamp is in the past, younger than the last
  step, and not that of a sample already taken.
* `BroadcastSoundHolds`, in all configurations, from `BroadcastInv`: a server's
  packets are `MinPkt` apart and each reports when it, and when an earlier one,
  left (`ServerInv`); its client has saved a pair that travelled (`ClientInv`).
  The limit on the delay then leaves only one packet a late report can mean, or a
  hurried one; a sample of zeros is the null sample.
* `SymmetricSoundHolds`: `Spec => [](Interleaved => SymmetricSound)`.
  `Interleaved` configurations are two symmetric hosts that both interleave and do
  not send kisses, on a prompt network.  `SymmetricInv` relates what a host has
  saved (`SavedInv`: its last poll, or nothing, and a poll of the other that came
  in) to what polls report (`PollInv`).  Samples of hurried polls are exempt.
  Where one host is configured to interleave and the other follows,
  `SymmetricSound` speaks of at most one fault and is model-checked.
* `EraAssumption` says that the unset timestamp is farther from every instant
  than two instants are from each other: 1900 is out of the range of the delays.

### Poll

* `TypeCorrect`: the exponents, `nextdate`, the reach register and the counters
  stay in range, also where kisses have raised `minpoll` above `maxpoll`; the
  lemmas say, for each way through `transmit` and `receive`, what it may change
  (`StepKinds`), and the other proofs use only that.
* `OneBurstHolds`, which is inductive; `UnansweredLoadHolds` from `LoadInv` (while
  nothing arrives, the last packet is as old as its poll and the next a poll
  interval away); `TossedWhenSilentHolds` from `TossInv` (`unreach` counts no more
  polls than went without a good packet in the reach register).
* `GuardTimeHolds` from `GuardInv`, when `PhaseFits`: the second by which
  interleaved hosts move apart does not reach the guard time, as with the daemon's
  numbers (a poll interval of at least 8 s, a guard time of 2 s).  Nothing is claimed
  where it fails.
* `ThrottledHolds` from `ThrottleInv`, for every kind: outside interleaved bursts a
  poll waits until the counter has drained; within one, each packet may add what
  `BurstExcess` allows.

### Discipline

`TypeCorrect`; `SpikesAreSuppressed` and `NoSecondPanic` from `LoopInv`;
`LeapBitsHold` from `LeapInv`, which relates the countdown that `timer` keeps to
the month that runs by itself: at most one tick ahead, and late by the ticks
lost; `OrphansAreAlone` from `OrphanInv`: `orphwait` and the time without a system
peer add up.

### ClockSelect

`TypeCorrect`; `StatusAgreesHolds`, which is inductive with the types; and the action
property `HopsToTruechimerHolds`.  They hold for any number of peers, whatever
interval the scan of the endpoints finds.  That it finds the majority's is
`Intersects`, which is model-checked: the sort and the scan are recursive, and
what they compute is proved by induction over data.

### RateLimit

All five theorems follow from `RateInv`.  The restriction list is strictly sorted
and keeps its default entry, an interface's entry does not expire (`Listed`); the
MRU list has one entry for a source, every entry is listed or free, and their
number is bounded by the options (`Monitored`); the leaky bucket of a client and
the time of its last kiss go together (`GoodClients`); the reference count is the
number of limited entries, and with it the monitor is on, until it drifts
(`Linked`); and an MRU entry refers to an interface that is there, or was deleted
before the packet was handled.
`RateLimitProofs` first shows what inserting, unlinking and changing one entry does
to order, uniqueness and counts, then the same of `free_res`, `mon_stop`,
`match_restrict4_addr` and `hack_restrict`; its second half has `ntp_monitor` and
the steps.  `MostSpecificHolds` follows from the order alone: of two
entries that match an address, that with the longer mask sorts first; a search that
frees an entry shortens the list, and is exempt.

### Worker and Resolver

* `WorkerProofs`: `TypeCorrect`, `IdleWhenArmedHolds` and `AccountedHolds` from
  `WorkerInv`: every request that is owed is in exactly one of five places (the
  two rings, the hands of either thread, or among those dropped), and
  `intres_req_pending` counts them.  `InsistReqHolds` from `FedInv`: the
  semaphore counts the items between the reader and the writer of the ring, which
  lie without a gap, and a ring that waits for a new child is in its first state.
* `QueueProofs` shows what storing, taking and extending do to the sequence read
  out of a ring (`InRing`), and what that does to the four parts of the queue of
  waiting requests.  It has lemmas only.
* `ResolverProofs`: `ImplementsResolverHolds`, `Spec => ImplementsResolver`. Its
  invariant `LineInv` says that both rings hold their items without gaps from
  reader to writer, and that a child that is gone has said so.  Each action is a
  step of the queue or none: `Ask` puts at the end, `Complete` takes the first,
  everything else leaves `waiting` as it is, until a ring is extended away from
  its start, or it or its index is changed under the other thread's hands.

### Only model-checked

* Associations: its properties compare lists that the code filters and folds
  over, which needs induction over data.
* `Intersects` (above), and `SymmetricSound` outside `Interleaved`.
* The six liveness properties (`PollsAgain`, `EphemeralTimeout`, `Completed`,
  `SentPacking`, `Settles`, `SysPeerLeaves`), since fairness is out of the prover's
  reach.

`TypeOK` of Worker, Discipline, ClockSelect and RateLimit is proved, and not listed
in the runs.

Except in `DisciplineProofs`, Zenon is the prover of a leaf that names none (`USE
Zenon` at the head of the module).  Leaves that need arithmetic, or that only the
SMT solver finds, cite `SMT`; `SMTT` and `ZenonT` allow more time than the default.

## 5. Plan

In order of importance:

1. Composition of Worker with Associations for pool names: stale IDs, and the
   limit on pools while answers are under way.
2. Composition of Poll with RateLimit: a client that keeps to GuardTime and
   Throttled is not limited by a server with the same parameters.
3. Proofs of Counted and FoundById of Associations.
4. The key store (`authkeys.c`) and the receive buffers.

## 6. Not modelled

* Autokey, a protocol of its own on top of OpenSSL.
* Reference clock drivers and sockets: device and system I/O.
* The configuration parser, which is generated; the control and request
  protocols, which format; the separate utilities.
* The floating-point arithmetic of the clock filter, of clustering and combining,
  and of the discipline loop.  Where it decides between branches the model takes
  any of them.
* The key store and the receive buffers: lists used by one thread, on the plan.
* What `restrict source` entries live for.  `unpeer` removes the entry of a
  host without match flags (`ntp_restrict.c:633`), while those that
  `restrict_source` adds have `RESM_SOURCE`; RateLimit's `UnPeer` does as the code
  does, and no property is stated about it (`html/accopt.html:47` says they are
  removed with the association).
