------------------------- MODULE ClockSelectProofs --------------------------
(***************************************************************************)
(* What is proved of ClockSelect, for any number of peers, whatever their  *)
(* flags and whatever samples they bring.  The result of the intersection  *)
(* algorithm enters as the operator Found, of which nothing is used: that  *)
(* it finds the right interval is left to the model checker.               *)
(***************************************************************************)
EXTENDS ClockSelect, TLAPS, FiniteSetTheorems, WellFoundedInduction

(* Zenon is the default prover of the leaves below; those that need arithmetic
   or that only the SMT solver finds cite SMT.                              *)
USE Zenon

-----------------------------------------------------------------------------
(* Least and greatest elements.                                            *)

(* A set of peers has a first one in the order of peer_list.               *)
LEMMA MinIn ==
  ASSUME NEW S \in SUBSET Nat, S # {}
  PROVE  Min(S) \in S /\ \A y \in S : Min(S) <= y
<1> DEFINE R == OpToRel(<, Nat)
<1>1. IsWellFoundedOn(R, Nat)
  BY NatLessThanWellFounded
<1>2. \A x, y \in Nat : <<y, x>> \in R <=> y < x
  BY DEF OpToRel
<1> HIDE DEF R
<1>3. \E x \in S : \A y \in S : ~ (<<y, x>> \in R)
  BY <1>1, WFMin
<1> PICK x \in S : \A y \in S : ~ (<<y, x>> \in R)
  BY <1>3
<1>4. \A y \in S : x \in Nat /\ y \in Nat /\ ~ (y < x)
  BY <1>2
<1>5. \A y \in S : x <= y
  BY <1>4, SMT
<1> QED
  BY <1>5 DEF Min

(* A set of peers has a last one.                                          *)
LEMMA MaxIn ==
  ASSUME NEW S \in SUBSET Peers, S # {}
  PROVE  Max(S) \in S
<1>1. N \in Nat
  BY SelectConstants
<1> DEFINE T == {N - x : x \in S}
<1>2. T \in SUBSET Nat /\ T # {}
  <2>1. \A x \in S : N - x \in Nat
    BY <1>1, SMT DEF Peers
  <2> QED
    BY <2>1
<1>3. Min(T) \in T /\ \A y \in T : Min(T) <= y
  BY <1>2, MinIn
<1> HIDE DEF T
<1>4. PICK x \in S : Min(T) = N - x
  BY <1>3 DEF T
<1>5. \A y \in S : N - x <= N - y
  BY <1>3, <1>4 DEF T
<1>6. \A y \in S : x >= y
  BY <1>1, <1>5, SMT DEF Peers
<1> QED
  BY <1>6 DEF Max

-----------------------------------------------------------------------------
(* What clock_select settles on.                                           *)

(* What every outcome of clock_select has in common: survivors that are    *)
(* truechimers, or a last resort when there are none; a choice among them, *)
(* or the old system peer, if there are enough; a PPS driver, if any, that *)
(* is a truechimer and replaces the choice.                                *)
Settles(pr, o) ==
  \E surv \in SUBSET Fit(pr), c \in 0 .. Ghost,
     pps \in {0} \cup (Truechimers(pr) \cap PpsPeers) :
    /\ o.hop \in 0 .. HopMax
    /\ o.status = NewStatus(surv, c, pps)
    /\ o.peer = IF pps # 0 THEN pps ELSE c
    /\ c # 0 => /\ c \in surv \/ c = sys_peer
                /\ Cardinality(surv) >= sys_minsane
    /\ \/ surv \subseteq Truechimers(pr)
       \/ /\ Truechimers(pr) \subseteq PpsPeers
          /\ \A p \in surv : kind[p] \in {"local", "orphan"}

(* The parts of the type of the state that a choice depends on.            *)
LEMMA Scalars ==
  ASSUME TypeOK
  PROVE  /\ kind \in [Peers -> Kinds]
         /\ brings \in [Peers -> SUBSET [off : Int, dist : Nat \ {0}]]
         /\ sys_minsane \in Nat
         /\ sys_peer \in 0 .. Ghost
         /\ sys_clockhop \in 0 .. HopMax
         /\ N \in Nat /\ HopMax \in Nat \ {0}
         /\ IsFiniteSet(Peers)
<1> DEFINE c == [kind |-> kind, brings |-> brings, minsane |-> sys_minsane]
<1>1. c \in Casts
  BY DEF TypeOK
<1> DEFINE Ivs == SUBSET [off : Int, dist : Nat \ {0}]
<1>2. c \in [kind : [Peers -> Kinds], minsane : Nat, brings : [Peers -> Ivs]]
  BY <1>1, SelectConstants
<1> HIDE DEF Ivs
<1>3. kind \in [Peers -> Kinds] /\ brings \in [Peers -> Ivs] /\ sys_minsane \in Nat
  BY <1>2
<1>4. N \in Nat /\ HopMax \in Nat \ {0}
  BY SelectConstants
<1>5. IsFiniteSet(Peers)
  BY <1>4, FS_Interval, SMT DEF Peers
<1> QED
  BY <1>3, <1>4, <1>5 DEF TypeOK, Ivs

(* No association is NULL or the freed structure that sys_peer points at.  *)
LEMMA GhostIsNone ==
  /\ Ghost \in Nat /\ 0 \in 0 .. Ghost /\ Ghost \in 0 .. Ghost
  /\ \A p \in Peers : p \in 0 .. Ghost /\ p # Ghost /\ p # 0
BY SelectConstants, SMT DEF Ghost, Peers

(* The survivors are fit, and are truechimers or a last resort.            *)
LEMMA SurvivorsFrom ==
  ASSUME NEW pr, NEW chimers \in SUBSET Fit(pr),
         NEW surv \in Survivors(pr, chimers)
  PROVE  /\ surv \subseteq Fit(pr)
         /\ \/ surv \subseteq chimers
            \/ chimers = {} /\ \A p \in surv : kind[p] \in {"local", "orphan"}
<1>1. CASE chimers # {}
  BY <1>1 DEF Survivors
<1>2. CASE chimers = {}
  <2> DEFINE local == {p \in Fit(pr) : kind[p] = "local"}
             orphans == {p \in Fit(pr) : kind[p] = "orphan"}
  <2>1. local \in SUBSET Nat
    BY SelectConstants, SMT DEF Fit, Peers
  <2>2. local # {} => Min(local) \in local
    BY <2>1, MinIn
  <2>3. surv \in Fallback(pr)
    BY <1>2 DEF Survivors
  <2>4. \/ local # {} /\ surv = {Min(local)}
        \/ surv = {}
        \/ \E p \in orphans : surv = {p}
    BY <2>3 DEF Fallback
  <2> HIDE DEF local, orphans
  <2>5. surv \subseteq local \/ surv \subseteq orphans
    BY <2>2, <2>4
  <2> QED
    BY <1>2, <2>5 DEF local, orphans
<1> QED
  BY <1>1, <1>2

(* The choice is a survivor or the system peer, if there are enough.       *)
LEMMA ChoiceFrom ==
  ASSUME TypeOK, NEW pr, NEW surv \in SUBSET Peers,
         NEW best \in Best(surv)
  PROVE  LET c == Preferred(surv, Choice(pr, surv, best)) IN
         /\ c.peer \in 0 .. Ghost
         /\ c.hop \in 0 .. HopMax
         /\ c.peer # 0 => /\ c.peer \in surv \/ c.peer = sys_peer
                          /\ Cardinality(surv) >= sys_minsane
<1> DEFINE d == Choice(pr, surv, best)
           e == Dance(pr, best)
<1>1. /\ sys_peer \in 0 .. Ghost /\ sys_clockhop \in 0 .. HopMax
      /\ Ghost \in Nat /\ HopMax \in Nat \ {0} /\ sys_minsane \in Nat
  BY Scalars, GhostIsNone
<1>2. surv \subseteq 0 .. Ghost /\ best \in 0 .. Ghost
  BY GhostIsNone DEF Best
<1>3. e.peer \in {sys_peer, best} /\ e.hop \in 0 .. HopMax
  <2> DEFINE hop == Min({sys_clockhop + 1, HopMax})
  <2>1. {sys_clockhop + 1, HopMax} \in SUBSET Nat
    BY <1>1, SMT
  <2>2. hop \in {sys_clockhop + 1, HopMax} /\ hop <= HopMax
    BY <2>1, MinIn
  <2>3. hop \in 0 .. HopMax /\ 0 \in 0 .. HopMax
    BY <1>1, <2>2, SMT
  <2> HIDE DEF hop
  <2>4. e \in {[peer |-> sys_peer, hop |-> hop], [peer |-> best, hop |-> 0]}
    BY DEF Dance, hop
  <2> HIDE DEF e
  <2> QED
    BY <2>3, <2>4, SMT
<1>4. IF surv = {} \/ Cardinality(surv) < sys_minsane
        THEN d = [peer |-> 0, hop |-> sys_clockhop]
        ELSE d \in {[peer |-> best, hop |-> 0], e}
  BY DEF Choice
<1> HIDE DEF d, e
<1>5. IsFiniteSet(surv) /\ Cardinality(surv) \in Nat
  BY Scalars, FS_Subset, FS_CardinalityType
<1>6. /\ d.peer \in 0 .. Ghost /\ d.hop \in 0 .. HopMax
      /\ d.peer # 0 => /\ d.peer \in surv \/ d.peer = sys_peer
                       /\ Cardinality(surv) >= sys_minsane
  <2>1. CASE surv = {} \/ Cardinality(surv) < sys_minsane
    BY <1>1, <1>4, <2>1, SMT
  <2>2. CASE ~ (surv = {} \/ Cardinality(surv) < sys_minsane)
    <3>1. d \in {[peer |-> best, hop |-> 0], e} /\ best \in surv
      BY <1>4, <2>2 DEF Best
    <3>2. Cardinality(surv) >= sys_minsane
      BY <1>1, <1>5, <2>2, SMTT(30)
    <3> QED
      BY <1>1, <1>2, <1>3, <3>1, <3>2, SMTT(30)
  <2> QED
    BY <2>1, <2>2
<1>7. CASE {p \in surv : kind[p] = "prefer"} # {} /\ d.peer # 0
  <2> DEFINE prefer == {p \in surv : kind[p] = "prefer"}
  <2>1. Max(prefer) \in prefer
    BY <1>7, MaxIn
  <2>2. Preferred(surv, d) = [peer |-> Max(prefer), hop |-> 0]
    BY <1>7 DEF Preferred
  <2> HIDE DEF prefer
  <2>3. Max(prefer) \in surv
    BY <2>1 DEF prefer
  <2>4. Preferred(surv, d).peer = Max(prefer) /\ Preferred(surv, d).hop = 0
    BY <2>2, SMT
  <2>5. Max(prefer) \in 0 .. Ghost
    BY <1>2, <2>3
  <2>6. Cardinality(surv) >= sys_minsane
    BY <1>6, <1>7
  <2>7. 0 \in 0 .. HopMax
    BY <1>1, SMT
  <2> QED
    BY <2>3, <2>4, <2>5, <2>6, <2>7 DEF d
<1>8. CASE ~ ({p \in surv : kind[p] = "prefer"} # {} /\ d.peer # 0)
  <2>1. Preferred(surv, d) = d
    BY <1>8 DEF Preferred
  <2> QED
    BY <1>6, <2>1 DEF d
<1> QED
  BY <1>7, <1>8

(* clock_select settles on nothing else.                                   *)
LEMMA OutcomesSettle ==
  ASSUME TypeOK, NEW pr, NEW o \in Outcomes(pr)
  PROVE  Settles(pr, o)
<1> DEFINE true == Truechimers(pr)
           drivers == true \cap PpsPeers
<1>0. PICK surv \in Survivors(pr, true \ PpsPeers) :
        o \in {Outcome(pr, surv, b, q) : b \in Best(surv),
                                        q \in {0, First(drivers)}}
  BY SMT DEF Outcomes
<1>1. PICK best \in Best(surv), pps \in {0, First(drivers)} :
        o = Outcome(pr, surv, best, pps)
  BY <1>0, SMT
<1>2. true \subseteq Fit(pr) /\ Fit(pr) \subseteq Peers
  BY DEF Truechimers, Candidates, Fit
<1>3. /\ surv \subseteq Fit(pr)
      /\ \/ surv \subseteq true \ PpsPeers
         \/ /\ true \ PpsPeers = {}
            /\ \A p \in surv : kind[p] \in {"local", "orphan"}
  BY <1>2, SurvivorsFrom
<1>4. pps \in {0} \cup drivers
  <2>1. drivers \in SUBSET Nat
    BY <1>2, SelectConstants, SMT DEF Peers
  <2>2. drivers # {} => Min(drivers) \in drivers
    BY <2>1, MinIn
  <2> QED
    BY <1>1, <2>2 DEF First
<1> DEFINE c == Preferred(surv, Choice(pr, surv, best))
<1>5. /\ c.peer \in 0 .. Ghost /\ c.hop \in 0 .. HopMax
      /\ c.peer # 0 => /\ c.peer \in surv \/ c.peer = sys_peer
                       /\ Cardinality(surv) >= sys_minsane
  BY <1>2, <1>3, ChoiceFrom
<1> DEFINE replaced == pps # 0 /\ PpsApplies(surv, c, pps)
<1>6. o = IF replaced
            THEN [peer |-> pps, hop |-> 0,
                  status |-> NewStatus(surv, c.peer, pps)]
            ELSE [peer |-> c.peer, hop |-> c.hop,
                  status |-> NewStatus(surv, c.peer, 0)]
  BY <1>1 DEF Outcome
<1>7. 0 \in 0 .. HopMax
  BY SelectConstants, SMT
<1> HIDE DEF c, true
<1>8. /\ surv \in SUBSET Fit(pr)
      /\ surv \subseteq true \/ /\ true \subseteq PpsPeers
                                /\ \A p \in surv : kind[p] \in {"local", "orphan"}
  BY <1>3
<1>9. CASE replaced
  <2>1. /\ o.peer = pps /\ pps # 0 /\ o.hop = 0
        /\ o.status = NewStatus(surv, c.peer, pps)
    BY <1>6, <1>9
  <2> QED
    BY <1>4, <1>5, <1>7, <1>8, <2>1 DEF Settles, true
<1>10. CASE ~replaced
  <2>1. /\ o.peer = c.peer /\ o.hop = c.hop
        /\ o.status = NewStatus(surv, c.peer, 0)
    BY <1>6, <1>10
  <2> QED
    BY <1>5, <1>8, <2>1 DEF Settles, true
<1> QED
  BY <1>9, <1>10

-----------------------------------------------------------------------------
(* The shape of a step.                                                    *)

(* The peer structures.                                                    *)
PeerRecord == [mob : BOOLEAN, fit : BOOLEAN, fresh : BOOLEAN,
               iv : (UNION Range(brings)) \cup {Zero}]
PeerType == [Peers -> PeerRecord]

(* clock_select runs on the peers as they are after the filter.            *)
SelectsOn(pr, o) ==
  /\ sys_clockhop' = o.hop
  /\ IF o.peer = 0 THEN NoSysPeer(pr, o.status)
     ELSE IF ~Fresh(pr, o.peer) THEN OldData(pr, o.status)
     ELSE ClockUpdate(pr, o.peer, o.status)
  /\ UNCHANGED config

Selects == \E pr \in PeerType : \E o \in Outcomes(pr) : SelectsOn(pr, o)

(* A sample that a peer may bring is one of the samples.                    *)
LEMMA BringsIn ==
  ASSUME TypeOK, NEW p \in Peers, NEW iv \in brings[p]
  PROVE  iv \in UNION Range(brings)
<1>1. p \in DOMAIN brings
  BY Scalars
<1> QED
  BY <1>1 DEF Range

(* The filter leaves the peers well formed.                                *)
LEMMA SampledType ==
  ASSUME TypeOK, NEW p \in Peers, NEW iv \in brings[p],
         NEW fresh \in {TRUE, peer[p].fresh}
  PROVE  /\ Sampled(p, iv, fresh) \in PeerType
         /\ [peer EXCEPT ![p].iv = iv] \in PeerType
<1> DEFINE Ivs == (UNION Range(brings)) \cup {Zero}
           Rec == [mob : BOOLEAN, fit : BOOLEAN, fresh : BOOLEAN, iv : Ivs]
           q1 == [peer[p] EXCEPT !.iv = iv]
           q2 == [[q1 EXCEPT !.fit = TRUE] EXCEPT !.fresh = fresh]
<1>1. iv \in Ivs
  BY BringsIn
<1> HIDE DEF Ivs
<1>2. peer \in [Peers -> Rec] /\ PeerType = [Peers -> Rec]
  BY DEF TypeOK, PeerType, PeerRecord, Ivs
<1>3. peer[p] \in Rec
  BY <1>2
<1>4. fresh \in BOOLEAN
  BY <1>3
<1>5. q1 \in Rec /\ q2 \in Rec
  BY <1>1, <1>3, <1>4
<1>6. /\ Sampled(p, iv, fresh) = [peer EXCEPT ![p] = q2]
      /\ [peer EXCEPT ![p].iv = iv] = [peer EXCEPT ![p] = q1]
  BY <1>2 DEF Sampled
<1> HIDE DEF q1, q2, Rec
<1> QED
  BY <1>2, <1>5, <1>6

(* So does what makes a peer unfit, frees it or mobilizes it.              *)
LEMMA UnfitType ==
  ASSUME TypeOK, NEW p \in Peers
  PROVE  /\ [peer EXCEPT ![p].fit = FALSE] \in PeerType
         /\ [peer EXCEPT ![p] = Cleared] \in PeerType
         /\ [peer EXCEPT ![p] = Freed] \in PeerType
         /\ Cleared \in PeerRecord /\ Freed \in PeerRecord
<1> DEFINE Ivs == (UNION Range(brings)) \cup {Zero}
           Rec == [mob : BOOLEAN, fit : BOOLEAN, fresh : BOOLEAN, iv : Ivs]
           q == [peer[p] EXCEPT !.fit = FALSE]
<1>1. Zero \in Ivs
  OBVIOUS
<1> HIDE DEF Ivs
<1>2. /\ peer \in [Peers -> Rec] /\ PeerType = [Peers -> Rec]
      /\ PeerRecord = Rec
  BY DEF TypeOK, PeerType, PeerRecord, Ivs
<1>3. peer[p] \in Rec
  BY <1>2
<1>4. q \in Rec
  BY <1>3
<1>5. Cleared \in Rec /\ Freed \in Rec
  BY <1>1 DEF Cleared, Freed
<1>6. [peer EXCEPT ![p].fit = FALSE] = [peer EXCEPT ![p] = q]
  BY <1>2
<1> HIDE DEF q, Rec
<1> QED
  BY <1>2, <1>4, <1>5, <1>6

(* One peer's structure is zeroed; sys_peer may have pointed at it.        *)
Zeroes ==
  \E p \in Peers :
    /\ Zeroed(p)
    /\ \/ UNCHANGED sys_peer
       \/ sys_peer = p /\ sys_peer' = Ghost /\ ~SameMobilized

(* A new peer takes the freed structure that sys_peer points at.           *)
Takes ==
  \E p \in Peers :
    /\ sys_peer = Ghost /\ sys_peer' = p /\ ~SameMobilized
    /\ UNCHANGED <<config, status, sys_clockhop, lost>>

(* clock_select runs, or nothing but the peers change, or one peer's       *)
(* structure is zeroed, or the freed one is taken.                         *)
LEMMA StepKinds ==
  ASSUME TypeOK, Next
  PROVE  /\ turn' \in -N .. N
         /\ UNCHANGED config
         /\ \/ Selects
            \/ /\ peer' \in PeerType
               /\ \/ UNCHANGED <<status, sys_peer, sys_clockhop, lost>>
                  \/ Zeroes
                  \/ Takes
<1> PICK p \in Peers : \/ \E fresh \in {TRUE, peer[p].fresh} :
                            FilterAndSelect(p, fresh)
                       \/ FilterNoSelect(p)
                       \/ FilterEmpty(p)
                       \/ Unfit(p)
                       \/ PeerClear(p)
                       \/ Unpeer(p)
                       \/ Newpeer(p)
  BY DEF Next
<1>0. 0 \in -N .. N /\ p \in -N .. N /\ -p \in -N .. N
  BY Scalars, SMT DEF Peers
<1>1. CASE \E fresh \in {TRUE, peer[p].fresh} : FilterAndSelect(p, fresh)
  <2>1. PICK fresh \in {TRUE, peer[p].fresh} : FilterAndSelect(p, fresh)
    BY <1>1
  <2>2. PICK iv \in brings[p] : ClockSelect(Sampled(p, iv, fresh))
    BY <2>1 DEF FilterAndSelect
  <2>3. Sampled(p, iv, fresh) \in PeerType
    BY SampledType
  <2>4. turn' \in {0, p}
    BY <2>1 DEF FilterAndSelect
  <2> QED
    BY <1>0, <2>2, <2>3, <2>4 DEF ClockSelect, Selects, SelectsOn
<1>2. CASE FilterEmpty(p)
  <2>1. [peer EXCEPT ![p].fit = FALSE] \in PeerType
    BY UnfitType
  <2> QED
    BY <1>0, <1>2, <2>1 DEF FilterEmpty, ClockSelect, Selects, SelectsOn
<1>3. CASE FilterNoSelect(p)
  <2>1. peer' \in PeerType
    BY <1>3, SampledType DEF FilterNoSelect
  <2> QED
    BY <1>0, <1>3, <2>1 DEF FilterNoSelect, SystemUnchanged
<1>4. CASE Unfit(p)
  <2>1. peer' \in PeerType
    BY <1>4, UnfitType DEF Unfit
  <2> QED
    BY <1>0, <1>4, <2>1 DEF Unfit, SystemUnchanged
<1>5. p \in DOMAIN peer
  BY DEF TypeOK
<1>6. CASE PeerClear(p)
  <2>1. peer' \in PeerType
    BY <1>6, UnfitType DEF PeerClear
  <2>2. Zeroes
    BY <1>6 DEF PeerClear, Zeroes
  <2> QED
    BY <1>0, <1>6, <2>1, <2>2 DEF PeerClear, Zeroed
<1>7. CASE Unpeer(p)
  <2>1. peer' \in PeerType
    BY <1>7, UnfitType DEF Unpeer
  <2>2. ~SameMobilized
    <3>1. peer'[p] = Freed /\ peer[p].mob
      BY <1>5, <1>7 DEF Unpeer
    <3>2. ~Freed.mob
      BY DEF Freed, Cleared
    <3> QED
      BY <3>1, <3>2 DEF SameMobilized
  <2>3. Zeroes
    BY <1>7, <2>2 DEF Unpeer, Zeroes
  <2> QED
    BY <1>0, <1>7, <2>1, <2>3 DEF Unpeer, Zeroed
<1>8. CASE Newpeer(p)
  <2>1. peer' \in PeerType
    BY <1>8, UnfitType DEF Newpeer
  <2>2. ~SameMobilized
    <3>1. peer'[p] = Cleared /\ ~peer[p].mob
      BY <1>5, <1>8 DEF Newpeer
    <3>2. Cleared.mob
      BY DEF Cleared
    <3> QED
      BY <3>1, <3>2 DEF SameMobilized
  <2>3. UNCHANGED sys_peer \/ Takes
    BY <1>8, <2>2 DEF Newpeer, Takes
  <2> QED
    BY <1>0, <1>8, <2>1, <2>3 DEF Newpeer
<1> QED
  BY <1>1, <1>2, <1>3, <1>4, <1>6, <1>7, <1>8

(* The peers after clock_select: as the filter left them, with some        *)
(* samples used, or all cleared by a step.                                 *)
LEMMA UpdatedType ==
  ASSUME TypeOK, NEW pr \in PeerType, NEW t, NEW new, ClockUpdate(pr, t, new)
  PROVE  peer' \in PeerType
<1> DEFINE used == [p \in Peers |-> [pr[p] EXCEPT !.fresh = FALSE]]
<1>1. \A p \in Peers : Cleared \in PeerRecord /\ Freed \in PeerRecord
  BY UnfitType
<1>2. \A p \in Peers : pr[p] \in PeerRecord
  BY DEF PeerType
<1>3. \A r \in PeerRecord : [r EXCEPT !.fresh = FALSE] \in PeerRecord
  <2> DEFINE Ivs == (UNION Range(brings)) \cup {Zero}
  <2> HIDE DEF Ivs
  <2>1. PeerRecord = [mob : BOOLEAN, fit : BOOLEAN, fresh : BOOLEAN, iv : Ivs]
    BY DEF PeerRecord, Ivs
  <2> QED
    BY <2>1
<1>4. \A p \in Peers : used[p] \in PeerRecord
  BY <1>2, <1>3
<1>5. CASE \E behind :
             peer' = [p \in Peers |->
                        IF p \in behind THEN [pr[p] EXCEPT !.fresh = FALSE]
                                        ELSE pr[p]]
  <2>1. PICK behind : peer' = [p \in Peers |->
                                 IF p \in behind THEN used[p] ELSE pr[p]]
    BY <1>5
  <2> HIDE DEF used
  <2> QED
    BY <1>2, <1>4, <2>1 DEF PeerType
<1>6. CASE peer' = [p \in Peers |-> IF pr[p].mob THEN Cleared ELSE Freed]
  BY <1>1, <1>6 DEF PeerType
<1> QED
  BY <1>5, <1>6 DEF ClockUpdate

(* The status words after clock_select.                                    *)
LEMMA StatusType ==
  ASSUME NEW surv, NEW c, NEW pps
  PROVE  NewStatus(surv, c, pps) \in
           [Peers -> {"reject", "survivor", "syspeer", "pps"}]
BY DEF NewStatus

(* Type correctness.                                                       *)
THEOREM TypeCorrect == Spec => []TypeOK
<1>1. Init => TypeOK
  <2> SUFFICES ASSUME Init PROVE TypeOK
    OBVIOUS
  <2>1. PICK c \in Casts :
          kind = c.kind /\ brings = c.brings /\ sys_minsane = c.minsane
    BY DEF Init
  <2> DEFINE Ivs == SUBSET [off : Int, dist : Nat \ {0}]
  <2>2. c \in [kind : [Peers -> Kinds], minsane : Nat, brings : [Peers -> Ivs]]
    BY SelectConstants
  <2> HIDE DEF Ivs
  <2>3. [kind |-> kind, brings |-> brings, minsane |-> sys_minsane] = c
    BY <2>1, <2>2
  <2>4. Freed \in PeerRecord
    BY DEF Freed, Cleared, PeerRecord
  <2>5. peer \in PeerType
    BY <2>4 DEF Init, PeerType
  <2>6. /\ 0 \in 0 .. Ghost /\ 0 \in 0 .. HopMax /\ 0 \in -N .. N
    BY SelectConstants, SMTT(30) DEF Ghost
  <2>7. status \in [Peers -> {"reject", "survivor", "syspeer", "pps"}]
    BY DEF Init
  <2> QED
    BY <2>3, <2>5, <2>6, <2>7 DEF Init, TypeOK, PeerType, PeerRecord
<1>2. TypeOK /\ [Next]_vars => TypeOK'
  <2> SUFFICES ASSUME TypeOK, [Next]_vars PROVE TypeOK'
    OBVIOUS
  <2> DEFINE Words == [Peers -> {"reject", "survivor", "syspeer", "pps"}]
  <2>1. CASE UNCHANGED vars
    BY <2>1 DEF vars, config, TypeOK
  <2>2. CASE Next
    <3>1. turn' \in -N .. N /\ UNCHANGED config
      BY <2>2, StepKinds
    <3>2. /\ [kind |-> kind, brings |-> brings, minsane |-> sys_minsane] \in Casts
          /\ status \in Words /\ sys_peer \in 0 .. Ghost
          /\ sys_clockhop \in 0 .. HopMax /\ lost \in BOOLEAN
      BY DEF TypeOK
    <3>3. SUFFICES /\ peer' \in PeerType /\ status' \in Words
                   /\ sys_peer' \in 0 .. Ghost /\ sys_clockhop' \in 0 .. HopMax
                   /\ lost' \in BOOLEAN
      BY <3>1, <3>2 DEF TypeOK, config, PeerType, PeerRecord
    <3>4. CASE Selects
      <4>0. PICK pr \in PeerType : \E o \in Outcomes(pr) : SelectsOn(pr, o)
        BY <3>4 DEF Selects
      <4> PICK o \in Outcomes(pr) : SelectsOn(pr, o)
        BY <4>0
      <4>1. /\ sys_clockhop' = o.hop
            /\ IF o.peer = 0 THEN NoSysPeer(pr, o.status)
               ELSE IF ~Fresh(pr, o.peer) THEN OldData(pr, o.status)
               ELSE ClockUpdate(pr, o.peer, o.status)
        BY DEF SelectsOn
      <4>2. Settles(pr, o)
        BY OutcomesSettle
      <4>3. o.hop \in 0 .. HopMax /\ o.peer \in 0 .. Ghost /\ o.status \in Words
        <5>1. \A q \in Peers : q \in 0 .. Ghost
          BY GhostIsNone
        <5>2. \A q \in PpsPeers : q \in Peers
          BY DEF PpsPeers
        <5>3. o.peer \in 0 .. Ghost
          BY <4>2, <5>1, <5>2 DEF Settles
        <5>4. \A surv, c, pps : NewStatus(surv, c, pps) \in Words
          BY StatusType
        <5> HIDE DEF Words
        <5>5. o.hop \in 0 .. HopMax /\ o.status \in Words
          BY <4>2, <5>4 DEF Settles
        <5> QED
          BY <5>3, <5>5
      <4>4. [p \in Peers |-> "reject"] \in Words
        OBVIOUS
      <4>5. CASE NoSysPeer(pr, o.status) \/ OldData(pr, o.status)
        <5>1. 0 \in 0 .. Ghost
          BY GhostIsNone
        <5> QED
          BY <3>2, <4>1, <4>3, <4>5, <5>1 DEF NoSysPeer, OldData
      <4>6. CASE ClockUpdate(pr, o.peer, o.status)
        <5>1. peer' \in PeerType
          BY <4>6, UpdatedType
        <5> QED
          BY <4>1, <4>3, <4>4, <4>6, <5>1 DEF ClockUpdate
      <4> QED
        BY <4>1, <4>5, <4>6
    <3>5. CASE /\ peer' \in PeerType
               /\ UNCHANGED <<status, sys_peer, sys_clockhop, lost>>
      BY <3>2, <3>5
    <3>6. CASE peer' \in PeerType /\ Zeroes
      <4>1. PICK p \in Peers : /\ Zeroed(p)
                               /\ sys_peer' = sys_peer \/ sys_peer' = Ghost
        BY <3>6 DEF Zeroes
      <4>2. status' \in Words /\ UNCHANGED sys_clockhop /\ lost' \in BOOLEAN
        BY <3>2, <4>1 DEF Zeroed
      <4> QED
        BY <3>2, <3>6, <4>1, <4>2, GhostIsNone
    <3>7. CASE peer' \in PeerType /\ Takes
      BY <3>2, <3>7, GhostIsNone DEF Takes
    <3> QED
      BY <2>2, <3>4, <3>5, <3>6, <3>7, StepKinds
  <2> QED
    BY <2>1, <2>2
<1> QED
  BY <1>1, <1>2, PTL DEF Spec

-----------------------------------------------------------------------------
(* What a choice says of a peer that is shown as chosen.                   *)
LEMMA ChosenIsShown ==
  ASSUME NEW pr, NEW o, Settles(pr, o), NEW p \in Peers
  PROVE  /\ o.status[p] = "syspeer" =>
              /\ \/ o.peer = p
                 \/ \E q \in Peers : o.peer = q /\ o.status[q] = "pps"
              /\ \A q \in Peers : o.status[q] = "syspeer" => p = q
         /\ o.status[p] = "pps" => o.peer = p
<1>1. PICK surv \in SUBSET Fit(pr), c \in 0 .. Ghost,
           pps \in {0} \cup (Truechimers(pr) \cap PpsPeers) :
        /\ o.status = NewStatus(surv, c, pps)
        /\ o.peer = IF pps # 0 THEN pps ELSE c
  BY DEF Settles
<1>2. \A q \in Peers : o.status[q] = IF q = pps THEN "pps"
                                     ELSE IF q = c THEN "syspeer"
                                     ELSE IF q \in surv THEN "survivor"
                                     ELSE "reject"
  BY <1>1 DEF NewStatus
<1>3. \A q \in Peers : /\ o.status[q] = "syspeer" => q = c
                       /\ o.status[q] = "pps" <=> q = pps
  <2> TAKE q \in Peers
  <2>1. CASE q = pps
    BY <1>2, <2>1
  <2>2. CASE q # pps /\ q = c
    BY <1>2, <2>2
  <2>3. CASE q # pps /\ q # c /\ q \in surv
    BY <1>2, <2>3
  <2>4. CASE q # pps /\ q # c /\ q \notin surv
    BY <1>2, <2>4
  <2> QED
    BY <2>1, <2>2, <2>3, <2>4
<1>4. p # 0
  BY GhostIsNone
<1>5. CASE pps # 0
  <2>1. pps \in Peers /\ o.peer = pps
    BY <1>1, <1>5 DEF PpsPeers
  <2> QED
    BY <1>3, <2>1
<1>6. CASE pps = 0
  <2>1. o.peer = c
    BY <1>1, <1>6
  <2> QED
    BY <1>3, <1>4, <1>6, <2>1
<1> QED
  BY <1>5, <1>6

(* The status words of the peers never contradict sys_peer, through every  *)
(* early return of clock_select, a step of the clock, and structures that  *)
(* are cleared, freed and taken again, whichever association takes the one *)
(* that sys_peer still points at.                                          *)
THEOREM StatusAgreesHolds == Spec => []StatusAgrees
<1>1. Init => StatusAgrees
  <2> SUFFICES ASSUME Init, NEW p \in Peers
               PROVE  status[p] # "syspeer" /\ status[p] # "pps"
    BY DEF StatusAgrees
  <2> QED
    BY DEF Init
<1>2. TypeOK /\ StatusAgrees /\ [Next]_vars => StatusAgrees'
  <2> SUFFICES ASSUME TypeOK, StatusAgrees, [Next]_vars, NEW p \in Peers
               PROVE  /\ status'[p] = "syspeer" =>
                           /\ \/ sys_peer' = p
                              \/ \E q \in Peers : /\ sys_peer' = q
                                                   /\ status'[q] = "pps"
                              \/ lost'
                           /\ \A q \in Peers : status'[q] = "syspeer" => p = q
                      /\ status'[p] = "pps" => sys_peer' = p
    BY DEF StatusAgrees
  <2>1. \A x \in Peers :
          /\ status[x] = "syspeer" =>
               /\ \/ sys_peer = x
                  \/ \E q \in Peers : sys_peer = q /\ status[q] = "pps"
                  \/ lost
               /\ \A q \in Peers : status[q] = "syspeer" => x = q
          /\ status[x] = "pps" => sys_peer = x
    BY DEF StatusAgrees
  <2>2. CASE UNCHANGED <<status, sys_peer, lost>>
    BY <2>1, <2>2
  <2>3. CASE Selects
    <3>0. PICK pr \in PeerType : \E o \in Outcomes(pr) : SelectsOn(pr, o)
      BY <2>3 DEF Selects
    <3> PICK o \in Outcomes(pr) : SelectsOn(pr, o)
      BY <3>0
    <3>1. /\ o.status[p] = "syspeer" =>
               /\ \/ o.peer = p
                  \/ \E q \in Peers : o.peer = q /\ o.status[q] = "pps"
               /\ \A q \in Peers : o.status[q] = "syspeer" => p = q
          /\ o.status[p] = "pps" => o.peer = p
      BY OutcomesSettle, ChosenIsShown
    <3>2. \/ sys_peer' = o.peer /\ status' = o.status
          \/ UNCHANGED <<sys_peer, status, lost>>
          \/ status' = [q \in Peers |-> "reject"]
      BY DEF SelectsOn, NoSysPeer, OldData, ClockUpdate
    <3>3. CASE sys_peer' = o.peer /\ status' = o.status
      BY <3>1, <3>3
    <3>4. CASE status' = [q \in Peers |-> "reject"]
      BY <3>4
    <3> QED
      BY <2>2, <3>2, <3>3, <3>4
  <2>4. CASE Zeroes
    <3>1. PICK z \in Peers :
            /\ Zeroed(z)
            /\ UNCHANGED sys_peer \/ sys_peer = z
      BY <2>4 DEF Zeroes
    <3>2. /\ status' = [status EXCEPT ![z] = "reject"]
          /\ lost' = (lost \/ (z = sys_peer /\ status[z] = "pps"))
      BY <3>1 DEF Zeroed
    <3>3. status'[z] = "reject" /\ \A q \in Peers \ {z} : status'[q] = status[q]
      BY <3>2 DEF TypeOK
    <3>4. status'[p] \in {"syspeer", "pps"} => p # z /\ status[p] = status'[p]
      BY <3>3
    <3>5. \A q \in Peers : status'[q] = "syspeer" => status[q] = "syspeer"
      BY <3>3
    <3>6. CASE sys_peer = z
      <4>1. status'[p] # "pps"
        BY <2>1, <3>4, <3>6
      <4>2. status'[p] = "syspeer" => lost'
        <5> SUFFICES ASSUME status'[p] = "syspeer" PROVE lost'
          OBVIOUS
        <5>1. status[p] = "syspeer" /\ p # z
          BY <3>4
        <5>2. (\E q \in Peers : sys_peer = q /\ status[q] = "pps") \/ lost
          BY <2>1, <3>6, <5>1
        <5> QED
          BY <3>2, <3>6, <5>2
      <4> QED
        BY <2>1, <3>4, <3>5, <4>1, <4>2
    <3>7. CASE sys_peer # z /\ UNCHANGED sys_peer
      <4>1. \A q \in Peers :
              sys_peer = q /\ status[q] = "pps" => status'[q] = "pps"
        BY <3>3, <3>7
      <4>2. status'[p] = "pps" => sys_peer' = p
        BY <2>1, <3>4, <3>7
      <4>3. lost => lost'
        BY <3>2
      <4> QED
        BY <2>1, <3>4, <3>5, <3>7, <4>1, <4>2, <4>3
    <3> QED
      BY <3>1, <3>6, <3>7
  <2>5. CASE Takes
    <3>1. sys_peer = Ghost /\ UNCHANGED <<status, lost>>
      BY <2>5 DEF Takes
    <3>2. \A q \in Peers : sys_peer # q /\ status[q] # "pps"
      BY <2>1, <3>1, GhostIsNone
    <3> QED
      BY <2>1, <3>1, <3>2
  <2> QED
    BY <2>2, <2>3, <2>4, <2>5, StepKinds DEF vars
<1> QED
  BY <1>1, <1>2, TypeCorrect, PTL DEF Spec

-----------------------------------------------------------------------------
(* The peers after clock_update, if the clock is slewed.                   *)
Used(pr, behind) ==
  [p \in Peers |-> IF p \in behind THEN [pr[p] EXCEPT !.fresh = FALSE]
                                   ELSE pr[p]]

(* Candidates and their samples depend on the peers only through what      *)
(* clock_update leaves alone.                                              *)
LEMMA UsedSamples ==
  ASSUME NEW pr \in PeerType, NEW behind, NEW q, q = Used(pr, behind)
  PROVE  /\ Fit(q) = Fit(pr)
         /\ Candidates(q) = Candidates(pr)
         /\ \A p \in Peers : q[p].iv = pr[p].iv
         /\ Samples(q) = Samples(pr)
<1>1. \A p \in Peers : pr[p] \in PeerRecord
  BY DEF PeerType
<1>2. \A r \in PeerRecord : /\ [r EXCEPT !.fresh = FALSE].mob = r.mob
                            /\ [r EXCEPT !.fresh = FALSE].fit = r.fit
                            /\ [r EXCEPT !.fresh = FALSE].iv = r.iv
  <2> DEFINE Ivs == (UNION Range(brings)) \cup {Zero}
  <2> HIDE DEF Ivs
  <2>1. PeerRecord = [mob : BOOLEAN, fit : BOOLEAN, fresh : BOOLEAN, iv : Ivs]
    BY DEF PeerRecord, Ivs
  <2> QED
    BY <2>1
<1>3. \A p \in Peers : /\ q[p].mob = pr[p].mob
                       /\ q[p].fit = pr[p].fit
                       /\ q[p].iv = pr[p].iv
  <2> TAKE p \in Peers
  <2>1. CASE p \in behind
    <3>1. q[p] = [pr[p] EXCEPT !.fresh = FALSE]
      BY <2>1 DEF Used
    <3> QED
      BY <1>1, <1>2, <3>1
  <2>2. CASE p \notin behind
    BY <2>2 DEF Used
  <2> QED
    BY <2>1, <2>2
<1>4. Fit(q) = Fit(pr)
  BY <1>3 DEF Fit
<1>5. Candidates(q) = Candidates(pr)
  BY <1>4 DEF Candidates
<1>6. \A p \in Candidates(pr) : p \in Peers
  BY DEF Candidates, Fit
<1>7. Samples(q) = Samples(pr)
  BY <1>3, <1>5, <1>6 DEF Samples
<1> QED
  BY <1>3, <1>4, <1>5, <1>7

(* A survivor is not shown as rejected.                                    *)
LEMMA SurvivorsShown ==
  ASSUME NEW surv \in SUBSET Peers, NEW c, NEW pps, N \in Nat
  PROVE  /\ IsFiniteSet({p \in Peers : NewStatus(surv, c, pps)[p] # "reject"})
         /\ Cardinality(surv) <=
              Cardinality({p \in Peers : NewStatus(surv, c, pps)[p] # "reject"})
<1> DEFINE Shown == {p \in Peers : NewStatus(surv, c, pps)[p] # "reject"}
<1>1. surv \subseteq Shown
  BY DEF NewStatus
<1>2. Shown \subseteq Peers
  OBVIOUS
<1> HIDE DEF Shown
<1>3. IsFiniteSet(Peers)
  BY FS_Interval, SMT DEF Peers
<1>4. IsFiniteSet(Shown)
  BY <1>2, <1>3, FS_Subset
<1>5. Cardinality(surv) <= Cardinality(Shown)
  BY <1>1, <1>4, FS_Subset
<1> QED
  BY <1>4, <1>5 DEF Shown

(* A system peer that clock_select changes to is fit, agrees with the      *)
(* interval found for the samples of that moment, or is a last resort when *)
(* no one does, and has sys_minsane survivors behind it.                   *)
THEOREM HopsToTruechimerHolds == Spec => HopsToTruechimer
<1> DEFINE Hops == sys_peer' \notin {0, sys_peer} /\ SameMobilized /\ ~Stepped
           Sound == /\ sys_peer' \in Fit(peer')
                    /\ IF sys_peer' \in Candidates(peer')
                         THEN InAgreement(sys_peer', peer')
                         ELSE \A p \in Candidates(peer') \ PpsPeers :
                                ~InAgreement(p, peer')
                    /\ \/ sys_peer' \in PpsPeers
                       \/ Cardinality({p \in Peers : status'[p] # "reject"})
                            >= sys_minsane
<1>1. TypeOK /\ [Next]_vars => [Hops => Sound]_vars
  <2> SUFFICES ASSUME TypeOK, Next, Hops PROVE Sound
    BY DEF vars
  <2>1. Selects
    BY StepKinds DEF Zeroes, Takes
  <2>2. PICK pr \in PeerType : \E o \in Outcomes(pr) : SelectsOn(pr, o)
    BY <2>1 DEF Selects
  <2> PICK o \in Outcomes(pr) : SelectsOn(pr, o)
    BY <2>2
  <2>3. ~ (peer' = [p \in Peers |-> IF pr[p].mob THEN Cleared ELSE Freed])
    <3> SUFFICES ASSUME peer' = [p \in Peers |->
                                   IF pr[p].mob THEN Cleared ELSE Freed]
                 PROVE  FALSE
      OBVIOUS
    <3>1. /\ ~Cleared.fit /\ ~Cleared.fresh /\ ~Freed.fit /\ ~Freed.fresh
      BY DEF Cleared, Freed
    <3>2. \A p \in Peers : peer'[p] \in {Cleared, Freed}
      OBVIOUS
    <3>3. Stepped
      BY <3>1, <3>2 DEF Stepped
    <3> QED
      BY <3>3
  <2>4. ClockUpdate(pr, o.peer, o.status)
    BY DEF SelectsOn, NoSysPeer, OldData
  <2>5. /\ sys_peer' = o.peer /\ status' = o.status
        /\ \E behind : peer' = [p \in Peers |->
             IF p \in behind THEN [pr[p] EXCEPT !.fresh = FALSE] ELSE pr[p]]
    BY <2>3, <2>4 DEF ClockUpdate
  <2>6. /\ Fit(peer') = Fit(pr) /\ Candidates(peer') = Candidates(pr)
        /\ \A p \in Peers : peer'[p].iv = pr[p].iv
        /\ Samples(peer') = Samples(pr)
    <3>1. PICK behind : peer' = Used(pr, behind)
      BY <2>5 DEF Used
    <3> QED
      BY <3>1, UsedSamples
  <2>7. /\ \A p \in Candidates(pr) :
             InAgreement(p, peer') <=> p \in Truechimers(pr)
        /\ Truechimers(pr) \subseteq Candidates(pr)
        /\ Candidates(pr) \subseteq Fit(pr)
        /\ Fit(pr) \subseteq Peers
    <3>1. Candidates(pr) \subseteq Fit(pr) /\ Fit(pr) \subseteq Peers
      BY DEF Candidates, Fit
    <3> QED
      BY <2>6, <3>1 DEF InAgreement, Truechimers
  <2>8. PICK surv \in SUBSET Fit(pr), c \in 0 .. Ghost,
             pps \in {0} \cup (Truechimers(pr) \cap PpsPeers) :
          /\ o.status = NewStatus(surv, c, pps)
          /\ o.peer = IF pps # 0 THEN pps ELSE c
          /\ c # 0 => /\ c \in surv \/ c = sys_peer
                      /\ Cardinality(surv) >= sys_minsane
          /\ \/ surv \subseteq Truechimers(pr)
             \/ /\ Truechimers(pr) \subseteq PpsPeers
                /\ \A p \in surv : kind[p] \in {"local", "orphan"}
    <3>1. Settles(pr, o)
      BY OutcomesSettle
    <3> QED
      BY <3>1 DEF Settles
  <2>9. CASE pps # 0
    BY <2>5, <2>6, <2>7, <2>8, <2>9
  <2>10. CASE pps = 0
    <3>1. sys_peer' = c /\ c \in surv /\ Cardinality(surv) >= sys_minsane
      BY <2>5, <2>8, <2>10
    <3>2. Cardinality({p \in Peers : status'[p] # "reject"}) >= sys_minsane
      <4> DEFINE Shown == {p \in Peers : status'[p] # "reject"}
      <4>1. IsFiniteSet(Shown) /\ Cardinality(surv) <= Cardinality(Shown)
        <5>1. Shown = {p \in Peers : NewStatus(surv, c, pps)[p] # "reject"}
          BY <2>5, <2>8
        <5>2. N \in Nat /\ surv \in SUBSET Peers
          BY <2>7, Scalars
        <5> HIDE DEF Shown
        <5> QED
          BY <5>1, <5>2, SurvivorsShown, ZenonT(40)
      <4>2. Cardinality(Shown) \in Nat
        BY <4>1, FS_CardinalityType
      <4>3. IsFiniteSet(surv)
        BY <2>7, Scalars, FS_Subset
      <4>4. Cardinality(surv) \in Nat
        BY <4>3, FS_CardinalityType
      <4> HIDE DEF Shown
      <4>5. sys_minsane \in Nat
        BY Scalars
      <4>6. Cardinality(Shown) >= sys_minsane
        BY <3>1, <4>1, <4>2, <4>4, <4>5, SMTT(30)
      <4> QED
        BY <4>6 DEF Shown
    <3>3. CASE surv \subseteq Truechimers(pr)
      BY <2>6, <2>7, <3>1, <3>2, <3>3
    <3>4. CASE /\ Truechimers(pr) \subseteq PpsPeers
               /\ \A p \in surv : kind[p] \in {"local", "orphan"}
      <4>1. c \notin Candidates(pr) /\ c \in Fit(pr)
        BY <3>1, <3>4 DEF Candidates
      <4> QED
        BY <2>6, <2>7, <3>1, <3>2, <3>4, <4>1
    <3> QED
      BY <2>8, <3>3, <3>4
  <2> QED
    BY <2>9, <2>10
<1> QED
  BY <1>1, TypeCorrect, PTL DEF Spec, HopsToTruechimer
=============================================================================
