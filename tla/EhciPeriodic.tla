---------------------------- MODULE EhciPeriodic ----------------------------
(***************************************************************************)
(* The periodic schedule of the EHCI driver (src/usb/ehci/ehci.c): the     *)
(* frame list periodicList (read by the controller), the parallel owner    *)
(* array periodicNodes (read by the driver), and the QH chains hanging off *)
(* them through the driver's qh->next and the hardware's horizontal        *)
(* pointer.  An interrupt pipe's QH is allocated, configured               *)
(* (ehci_qhConf), given a phase and microframe (ehci_bandAlloc) and linked *)
(* (ehci_qhLinkPeriodic) in one step; ehci_pipeDestroy unlinks it          *)
(* (ehci_qhUnlinkPeriodic) and returns it to the QH pool (ehci_qhPut).     *)
(* Both operations hold periodicLock, so each is one atomic step.          *)
(***************************************************************************)
EXTENDS Naturals, Sequences, FiniteSets, SequencesExt

CONSTANTS
    QHs,        \* QH records (model values)
    N,          \* EHCI_PERIODIC_SIZE, the number of frame-list slots
    Intervals,  \* bInterval values of the interrupt endpoints opened
    NULL        \* NULL in periodicNodes/qh->next, QH_PTR_INVALID in hardware

ASSUME Assumption ==
    /\ N \in Nat \ {0}
    /\ Intervals \subseteq 1..16
    /\ NULL \notin QHs

Slots == 0 .. N - 1
NoUframe == 255                 \* qh->uframe = 0xff: every microframe
Periods == {2^k : k \in 0 .. 15}

VARIABLES
    nodes,    \* periodicNodes[i]: head QH of slot i as the driver sees it
    list,     \* periodicList[i]: head QH of slot i as the controller sees it
    next,     \* qh->next
    horiz,    \* qh->hw->horizontal
    period,   \* qh->period, in frames
    phase,    \* qh->phase
    uframe,   \* qh->uframe
    hs,       \* QH_HIGH_SPEED in qh->hw->info[0]
    interval, \* pipe->interval, the bInterval of the QH's endpoint
    qstate    \* "free" (pooled or not yet allocated) or "linked"

vars == <<nodes, list, next, horiz, period, phase, uframe, hs, interval, qstate>>

----------------------------------------------------------------------------
(* ehci_qhConf: the period of an interrupt QH from the endpoint's          *)
(* bInterval.  High speed: 2^(bInterval-1) microframes, in frames, at      *)
(* least one.  Full/low speed: the largest power of two below bInterval.   *)
ConfPeriodNoClamp(isHs, iv) ==
    IF isHs THEN (2^(iv - 1)) \div 8
    ELSE LET RECURSIVE Up(_)
             Up(p) == IF p * 2 < iv THEN Up(p * 2) ELSE p
         IN Up(1)

(* Mutant: the full-speed loop rounding bInterval up to a power of two    *)
(* (while (period < interval)) instead of down.                           *)
ConfPeriodRoundUp(isHs, iv) ==
    IF isHs THEN IF (2^(iv - 1)) \div 8 = 0 THEN 1 ELSE (2^(iv - 1)) \div 8
    ELSE LET RECURSIVE Up(_)
             Up(p) == IF p < iv THEN Up(p * 2) ELSE p
         IN Up(1)

ConfPeriod(isHs, iv) ==
    IF isHs THEN IF (2^(iv - 1)) \div 8 = 0 THEN 1 ELSE (2^(iv - 1)) \div 8
    ELSE LET RECURSIVE Up(_)
             Up(p) == IF p * 2 < iv THEN Up(p * 2) ELSE p
         IN Up(1)

(* A chain from x along the pointer function nxt.  A chain never holds     *)
(* more than Cardinality(QHs) QHs unless the pointers form a cycle; the    *)
(* walk is cut one QH later so that a cycle shows as a repeated QH.        *)
RECURSIVE ChainFrom(_, _, _)
ChainFrom(x, nxt, k) ==
    IF x = NULL \/ k = 0 THEN <<>> ELSE <<x>> \o ChainFrom(nxt[x], nxt, k - 1)

DriverChain(i) == ChainFrom(nodes[i], next, Cardinality(QHs) + 1)
HwChain(i) == ChainFrom(list[i], horiz, Cardinality(QHs) + 1)

(* ehci_bandAlloc, first loop: the least loaded of the first min(P, N)     *)
(* slots, the lowest index on a tie.                                       *)
BandPhase(P) ==
    LET cand == {i \in Slots : i < P}
        load(i) == Len(DriverChain(i))
    IN IF cand = {} THEN 0
       ELSE CHOOSE i \in cand : \A j \in cand :
                load(i) < load(j) \/ (load(i) = load(j) /\ i <= j)

(* ehci_bandAlloc, second loop: for a high-speed QH of period > 1, the     *)
(* least used microframe among the QHs on the chain of its phase.          *)
BandUframe(P, isHs, ph) ==
    IF isHs /\ P > 1
    THEN LET c == DriverChain(ph)
             ucnt(u) == Cardinality({k \in 1..Len(c) : uframe[c[k]] = u})
         IN CHOOSE u \in 0..7 : \A v \in 0..7 :
                ucnt(u) < ucnt(v) \/ (ucnt(u) = ucnt(v) /\ u <= v)
    ELSE NoUframe

(* ehci_qhLinkPeriodic: walk the chain of the phase while the next QH's    *)
(* period is at least the new one's.                                       *)
RECURSIVE Walk(_, _)
Walk(t, P) ==
    IF t # NULL /\ next[t] # NULL /\ period[next[t]] >= P THEN Walk(next[t], P) ELSE t

(* The walk found no QH, or stopped at one of shorter period: the new QH   *)
(* becomes the head of its phase's slots.                                  *)
NewHeadIfEmpty(t, P) == t = NULL

NewHead(t, P) == t = NULL \/ period[t] < P

(* ehci_qhUnlinkPeriodic, the search for the predecessor of qh in a slot.  *)
RECURSIVE FindPred(_, _, _)
FindPred(tmp, q, nxt) == IF tmp # NULL /\ nxt[tmp] # q THEN FindPred(nxt[tmp], q, nxt) ELSE tmp

(* ehci_qhUnlinkPeriodic, the body of the loop for slot i, on the record   *)
(* st of the four pointer arrays.                                          *)
UnlinkSlotKeepList(q, st, i) ==
    IF st.nodes[i] = q
    THEN [st EXCEPT !.nodes[i] = st.next[q]]
    ELSE LET tmp == FindPred(st.nodes[i], q, st.next) IN
         IF tmp # NULL /\ st.next[tmp] = q
         THEN [st EXCEPT !.next[tmp] = st.next[q], !.horiz[tmp] = st.next[q]]
         ELSE st

UnlinkSlotKeepNode(q, st, i) ==
    IF st.nodes[i] = q
    THEN [st EXCEPT !.list[i] = st.next[q]]
    ELSE LET tmp == FindPred(st.nodes[i], q, st.next) IN
         IF tmp # NULL /\ st.next[tmp] = q
         THEN [st EXCEPT !.next[tmp] = st.next[q], !.horiz[tmp] = st.next[q]]
         ELSE st

UnlinkSlot(q, st, i) ==
    IF st.nodes[i] = q
    THEN [st EXCEPT !.list[i] = st.next[q], !.nodes[i] = st.next[q]]
    ELSE LET tmp == FindPred(st.nodes[i], q, st.next) IN
         IF tmp # NULL /\ st.next[tmp] = q
         THEN [st EXCEPT !.next[tmp] = st.next[q], !.horiz[tmp] = st.next[q]]
         ELSE st

----------------------------------------------------------------------------
Init ==
    /\ nodes = [i \in Slots |-> NULL]
    /\ list = [i \in Slots |-> NULL]
    /\ next = [q \in QHs |-> NULL]
    /\ horiz = [q \in QHs |-> NULL]
    /\ period = [q \in QHs |-> 0]
    /\ phase = [q \in QHs |-> 0]
    /\ uframe = [q \in QHs |-> 0]
    /\ hs = [q \in QHs |-> FALSE]
    /\ interval = [q \in QHs |-> 0]
    /\ qstate = [q \in QHs |-> "free"]

(* ehci_transferEnqueue on an interrupt pipe without a QH: ehci_qhAlloc    *)
(* (every pointer reset), ehci_qhConf, then ehci_qhLinkPeriodic.  The new  *)
(* QH becomes the head of every slot phase + kP when the chain of its      *)
(* phase is empty or starts with a shorter period; otherwise it goes after *)
(* the QH the walk stops at.                                               *)
Link(q) ==
    /\ qstate[q] = "free"
    /\ \E isHs \in BOOLEAN, iv \in Intervals :
        LET P == ConfPeriod(isHs, iv)
            ph == BandPhase(P)
            t == Walk(nodes[ph], P)
            heads == {ph + k * P : k \in 0 .. N} \cap Slots
        IN /\ qstate' = [qstate EXCEPT ![q] = "linked"]
           /\ period' = [period EXCEPT ![q] = P]
           /\ phase' = [phase EXCEPT ![q] = ph]
           /\ uframe' = [uframe EXCEPT ![q] = BandUframe(P, isHs, ph)]
           /\ hs' = [hs EXCEPT ![q] = isHs]
           /\ interval' = [interval EXCEPT ![q] = iv]
           /\ IF NewHead(t, P)
              THEN /\ next' = [next EXCEPT ![q] = nodes[ph]]
                   /\ horiz' = [horiz EXCEPT ![q] = NULL]
                   /\ nodes' = [i \in Slots |-> IF i \in heads THEN q ELSE nodes[i]]
                   /\ list' = [i \in Slots |-> IF i \in heads THEN q ELSE list[i]]
              ELSE /\ next' = [next EXCEPT ![q] = next[t], ![t] = q]
                   /\ horiz' = [horiz EXCEPT ![q] = next[t], ![t] = q]
                   /\ UNCHANGED <<nodes, list>>

(* ehci_pipeDestroy on a periodic QH: ehci_qhUnlinkPeriodic over every     *)
(* slot in order, then ehci_qhPut.                                         *)
Unlink(q) ==
    /\ qstate[q] = "linked"
    /\ LET st == FoldLeft(LAMBDA s, i : UnlinkSlot(q, s, i),
                          [nodes |-> nodes, list |-> list, next |-> next, horiz |-> horiz],
                          [k \in 1..N |-> k - 1])
       IN /\ nodes' = st.nodes
          /\ list' = st.list
          /\ next' = st.next
          /\ horiz' = st.horiz
    /\ qstate' = [qstate EXCEPT ![q] = "free"]
    /\ UNCHANGED <<period, phase, uframe, hs, interval>>

Next == \E q \in QHs : Link(q) \/ Unlink(q)

Spec == Init /\ [][Next]_vars

----------------------------------------------------------------------------
(* Every pointer is a QH or NULL, and every linked QH has a power-of-two   *)
(* period, as the slot arithmetic of ehci_qhLinkPeriodic needs.            *)
TypeOK ==
    /\ nodes \in [Slots -> QHs \cup {NULL}]
    /\ list \in [Slots -> QHs \cup {NULL}]
    /\ next \in [QHs -> QHs \cup {NULL}]
    /\ horiz \in [QHs -> QHs \cup {NULL}]
    /\ phase \in [QHs -> Slots]
    /\ uframe \in [QHs -> 0..7 \cup {NoUframe}]
    /\ hs \in [QHs -> BOOLEAN]
    /\ qstate \in [QHs -> {"free", "linked"}]
    /\ \A q \in QHs : qstate[q] = "linked" => period[q] \in Periods

(* What the controller walks in a frame is what the driver believes is     *)
(* there, or a part of it: the hardware chain of every slot is a prefix of *)
(* the driver chain, through any sequence of links and unlinks.            *)
HwChainIsDriverPrefix == \A i \in Slots : IsPrefix(HwChain(i), DriverChain(i))

(* After ehci_qhUnlinkPeriodic the QH is on no slot's chain, so no pooled  *)
(* or reused QH is reachable from the frame list.                          *)
ChainsHoldOnlyLinked ==
    \A i \in Slots : \A q \in ToSet(DriverChain(i)) : qstate[q] = "linked"

(* Sibling QHs at a slot are ordered by non-increasing period (spec 3,     *)
(* ehci_qhLinkPeriodic's walk), so a QH shared by several slots is always  *)
(* after the slot-specific ones.                                           *)
ChainOrdered ==
    \A i \in Slots : LET c == DriverChain(i) IN
        \A k \in 1 .. Len(c) - 1 : period[c[k]] >= period[c[k + 1]]

(* A linked QH is polled at least as often as its endpoint asks: USB 2.0  *)
(* gives a high-speed endpoint 2^(bInterval-1) microframes and a full or   *)
(* low speed one bInterval frames.  The QH sits in the frames phase +      *)
(* k*period; in them it is polled in the microframe ehci_bandAlloc chose,  *)
(* so the longest gap is 8*period microframes, or in every microframe when *)
(* it chose none (S-mask 0xff, line 418), so the longest gap runs from the *)
(* last microframe of one of its frames to the first of the next,          *)
(* 8*(period-1)+1.  Broken by a period from ehci_qhConf that rounds the    *)
(* wrong way at either speed, or a single microframe given to a period-1   *)
(* QH whose endpoint asks for fewer than 8 microframes.                    *)
PolledEvery(q) ==
    IF uframe[q] = NoUframe THEN 8 * (period[q] - 1) + 1 ELSE 8 * period[q]
AskedEvery(q) == IF hs[q] THEN 2^(interval[q] - 1) ELSE 8 * interval[q]

PeriodHonoursInterval ==
    \A q \in QHs : qstate[q] = "linked" => PolledEvery(q) <= AskedEvery(q)

(* The controller polls every linked QH in every frame phase + k*period:   *)
(* the frame list slot reaches it through horizontal pointers.             *)
SlotsOf(q) == {i \in Slots : i >= phase[q] /\ (i - phase[q]) % period[q] = 0}

HwServesEveryPeriod ==
    \A q \in QHs : qstate[q] = "linked" =>
        \A i \in SlotsOf(q) : q \in ToSet(HwChain(i))
=============================================================================
