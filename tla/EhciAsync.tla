----------------------------- MODULE EhciAsync -----------------------------
(***************************************************************************)
(* The asynchronous schedule of the EHCI driver (src/usb/ehci/ehci.c) and  *)
(* the QH pool behind it.  The schedule is a ring through a dummy head QH  *)
(* (ehci->asyncList), kept twice: the driver's prev/next list and the      *)
(* controller's horizontal pointers.  Control and bulk pipes allocate a QH *)
(* (ehci_qhAlloc: ehci_qhGet or malloc) and link it after the head         *)
(* (ehci_qhLinkAsync); ehci_pipeDestroy unlinks it with the schedule       *)
(* stopped and restarted (ehci_qhUnlinkAsync) and returns it to the pool   *)
(* (ehci_qhPut).  The controller walks the ring concurrently, taking no    *)
(* lock: it is the cursor cur, moved by HcAdvance.  Between unlink and    *)
(* put, ehci_pipeDestroy deactivates the qTDs of the pipe's transfers and  *)
(* reaps them (ehci_qtdsDeactivate, ehci_transUpdate); a transfer is kept  *)
(* as the QH it is queued on.                                              *)
(***************************************************************************)
EXTENDS Naturals, Sequences, FiniteSets, SequencesExt

CONSTANTS
    QHs,          \* QH records of control/bulk pipes (model values)
    Dummy,        \* the dummy head ehci->asyncList, allocated by ehci_init
    MaxQhPool,    \* EHCI_MAX_QH_POOL
    MaxPipeOps,   \* bound on pipe openings and destructions in a behaviour
    MaxTrans,     \* bound on the transfers in flight at once
    NULL          \* NULL / QH_PTR_INVALID

ASSUME Assumption ==
    /\ Dummy \notin QHs /\ NULL \notin QHs \cup {Dummy}
    /\ MaxQhPool \in Nat \ {0} /\ {MaxPipeOps, MaxTrans} \subseteq Nat

Nodes == QHs \cup {Dummy}

VARIABLES
    horiz,    \* qh->hw->horizontal
    nxt,      \* qh->next
    prv,      \* qh->prev
    cur,      \* the QH the controller is at (asynclistaddr and its walk)
    qstate,   \* "free" (no memory), "pooled", "linking", "linked",
              \* "unlinked", "reaped" (ehci_pipeDestroy past its reap)
    pool,     \* ehci->qhPool, oldest first; nqhs is Len(pool)
    transfers,\* hcd->transfers in list order: the QH of each transfer
    ops       \* pipe openings and destructions so far

vars == <<horiz, nxt, prv, cur, qstate, pool, transfers, ops>>

----------------------------------------------------------------------------
(* ehci_qhGet takes the oldest pooled QH (LIST_REMOVE).                    *)
PoolAfterGetKeep(pl) == pl

PoolAfterGet(pl) == Tail(pl)

(* ehci_qhPut: at the cap the oldest pooled QH is freed first, then the    *)
(* QH is added at the tail (LIST_ADD).                                     *)
PoolAfterPutNoCap(pl, q) == Append(pl, q)

PoolAfterPut(pl, q) ==
    IF Len(pl) >= MaxQhPool THEN Append(Tail(pl), q) ELSE Append(pl, q)

Evicted(pl) == IF Len(pl) >= MaxQhPool THEN {pl[1]} ELSE {}

(* ehci_qtdsDeactivate on the ring of every transfer queued on q, then    *)
(* ehci_transUpdate: a deactivated ring is finished, so those transfers    *)
(* leave the list.                                                        *)
ReapPipe(ts, q) == SelectSeq(ts, LAMBDA x : x # q)

(* The ring from the head along ptr; a NULL in it marks a broken ring.     *)
RECURSIVE RingFrom(_, _, _)
RingFrom(x, ptr, k) ==
    IF x = Dummy THEN <<>>
    ELSE IF x = NULL \/ k = 0 THEN <<NULL>>
    ELSE <<x>> \o RingFrom(ptr[x], ptr, k - 1)

HwRing == RingFrom(horiz[Dummy], horiz, Cardinality(QHs) + 1)
DriverRing == RingFrom(nxt[Dummy], nxt, Cardinality(QHs) + 1)

(* The async lock is held across the two steps of ehci_qhLinkAsync.        *)
Unlocked == \A q \in QHs : qstate[q] # "linking"

----------------------------------------------------------------------------
(* ehci_init: the dummy head, alone in a ring of itself, then              *)
(* ehci_startAsync puts the controller on it.                              *)
Init ==
    /\ horiz = [n \in Nodes |-> IF n = Dummy THEN Dummy ELSE NULL]
    /\ nxt = [n \in Nodes |-> IF n = Dummy THEN Dummy ELSE NULL]
    /\ prv = [n \in Nodes |-> IF n = Dummy THEN Dummy ELSE NULL]
    /\ cur = Dummy
    /\ qstate = [q \in QHs |-> "free"]
    /\ pool = <<>>
    /\ transfers = <<>>
    /\ ops = 0

(* ehci_qhAlloc: the oldest pooled QH (ehci_qhGet), or, with the pool     *)
(* empty, a QH from memory (malloc, usb_alloc); with none left it returns  *)
(* NULL and the enqueue fails with ENOMEM, a step that changes nothing.    *)
QhAlloc(q) ==
    \/ pool # <<>> /\ q = pool[1] /\ pool' = PoolAfterGet(pool)
    \/ pool = <<>> /\ qstate[q] = "free" /\ UNCHANGED pool

(* ehci_transferEnqueue on a control/bulk pipe without a QH: ehci_qhAlloc  *)
(* (pooled QH, else a new one; every pointer reset), then                  *)
(* ehci_qhLinkAsync up to line 465: the driver list, and the new QH's      *)
(* horizontal pointer copied from the head's.  The controller cannot reach *)
(* the QH yet.                                                             *)
LinkPrepareNoHoriz(q) ==
    /\ Unlocked /\ ops < MaxPipeOps
    /\ QhAlloc(q)
    /\ horiz' = [horiz EXCEPT ![q] = NULL]
    /\ nxt' = [nxt EXCEPT ![q] = nxt[Dummy], ![Dummy] = q]
    /\ prv' = [prv EXCEPT ![q] = Dummy, ![nxt[Dummy]] = q]
    /\ qstate' = [qstate EXCEPT ![q] = "linking"]
    /\ ops' = ops + 1
    /\ UNCHANGED <<cur, transfers>>

LinkPrepareSelf(q) ==
    /\ Unlocked /\ ops < MaxPipeOps
    /\ QhAlloc(q)
    /\ horiz' = [horiz EXCEPT ![q] = Dummy]
    /\ nxt' = [nxt EXCEPT ![q] = nxt[Dummy], ![Dummy] = q]
    /\ prv' = [prv EXCEPT ![q] = Dummy, ![nxt[Dummy]] = q]
    /\ qstate' = [qstate EXCEPT ![q] = "linking"]
    /\ ops' = ops + 1
    /\ UNCHANGED <<cur, transfers>>

LinkPrepare(q) ==
    /\ Unlocked /\ ops < MaxPipeOps
    /\ QhAlloc(q)
    /\ horiz' = [horiz EXCEPT ![q] = horiz[Dummy]]
    /\ nxt' = [nxt EXCEPT ![q] = nxt[Dummy], ![Dummy] = q]
    /\ prv' = [prv EXCEPT ![q] = Dummy, ![nxt[Dummy]] = q]
    /\ qstate' = [qstate EXCEPT ![q] = "linking"]
    /\ ops' = ops + 1
    /\ UNCHANGED <<cur, transfers>>

(* ehci_qhLinkAsync, line 466: the head points at the new QH; unlock.      *)
LinkPublish(q) ==
    /\ qstate[q] = "linking"
    /\ horiz' = [horiz EXCEPT ![Dummy] = q]
    /\ qstate' = [qstate EXCEPT ![q] = "linked"]
    /\ UNCHANGED <<nxt, prv, cur, pool, transfers, ops>>

(* ehci_pipeDestroy -> ehci_qhUnlinkAsync, under the async lock:           *)
(* ehci_stopAsync waits for the schedule to stop, the predecessor's        *)
(* horizontal pointer skips the QH, ehci_startAsync restarts the           *)
(* controller at the head (asynclistaddr), then the driver list.           *)
UnlinkNoRestart(q) ==
    /\ Unlocked /\ ops < MaxPipeOps
    /\ qstate[q] = "linked"
    /\ horiz' = [horiz EXCEPT ![prv[q]] = horiz[q]]
    /\ nxt' = [nxt EXCEPT ![prv[q]] = nxt[q]]
    /\ prv' = [prv EXCEPT ![nxt[q]] = prv[q]]
    /\ qstate' = [qstate EXCEPT ![q] = "unlinked"]
    /\ ops' = ops + 1
    /\ UNCHANGED <<cur, pool, transfers>>

Unlink(q) ==
    /\ Unlocked /\ ops < MaxPipeOps
    /\ qstate[q] = "linked"
    /\ horiz' = [horiz EXCEPT ![prv[q]] = horiz[q]]
    /\ cur' = Dummy
    /\ nxt' = [nxt EXCEPT ![prv[q]] = nxt[q]]
    /\ prv' = [prv EXCEPT ![nxt[q]] = prv[q]]
    /\ qstate' = [qstate EXCEPT ![q] = "unlinked"]
    /\ ops' = ops + 1
    /\ UNCHANGED <<pool, transfers>>

(* ehci_pipeDestroy after the unlink, under the transfer lock: the qTDs of *)
(* every transfer queued on the QH are deactivated, ehci_transUpdate reaps *)
(* them, and pipe->hcdpriv is cleared.                                     *)
PipeReap(q) ==
    /\ qstate[q] = "unlinked"
    /\ transfers' = ReapPipe(transfers, q)
    /\ qstate' = [qstate EXCEPT ![q] = "reaped"]
    /\ UNCHANGED <<horiz, nxt, prv, cur, pool, ops>>

(* The end of ehci_pipeDestroy: ehci_qhPut, under the async lock.          *)
QhPut(q) ==
    /\ Unlocked
    /\ qstate[q] = "reaped"
    /\ pool' = PoolAfterPut(pool, q)
    /\ qstate' = [p \in QHs |-> IF p = q THEN "pooled"
                                ELSE IF p \in Evicted(pool) THEN "free"
                                ELSE qstate[p]]
    /\ UNCHANGED <<horiz, nxt, prv, cur, transfers, ops>>

(* ehci_transferEnqueue on an open pipe whose QH is linked: under the      *)
(* transfer lock the transfer joins hcd->transfers (LIST_ADD) and          *)
(* ehci_enqueue appends its qTDs to the QH under the async lock.           *)
Enqueue(q) ==
    /\ Unlocked
    /\ qstate[q] = "linked"
    /\ Len(transfers) < MaxTrans
    /\ transfers' = Append(transfers, q)
    /\ UNCHANGED <<horiz, nxt, prv, cur, qstate, pool, ops>>

(* The controller retires the qTDs of a transfer on a QH of the schedule   *)
(* and the worker's ehci_transUpdate reaps it (LIST_REMOVE).               *)
TransDone(i) ==
    /\ qstate[transfers[i]] = "linked"
    /\ transfers' = RemoveAt(transfers, i)
    /\ UNCHANGED <<horiz, nxt, prv, cur, qstate, pool, ops>>

(* The controller follows the horizontal pointer of the QH it is at.       *)
HcAdvance ==
    /\ horiz[cur] # NULL
    /\ cur' = horiz[cur]
    /\ UNCHANGED <<horiz, nxt, prv, qstate, pool, transfers, ops>>

Next ==
    \/ HcAdvance
    \/ \E q \in QHs : LinkPrepare(q) \/ LinkPublish(q) \/ Unlink(q) \/ PipeReap(q)
                     \/ QhPut(q) \/ Enqueue(q)
    \/ \E i \in DOMAIN transfers : TransDone(i)

(* The controller runs while ASE is set; a thread holding the async lock   *)
(* finishes its critical section; ehci_pipeDestroy runs to its end.        *)
Fairness ==
    /\ WF_vars(HcAdvance)
    /\ \A q \in QHs : WF_vars(LinkPublish(q)) /\ WF_vars(PipeReap(q))
                    /\ WF_vars(QhPut(q))

Spec == Init /\ [][Next]_vars /\ Fairness

----------------------------------------------------------------------------
(* Types; the pool never holds more than EHCI_MAX_QH_POOL QHs.             *)
TypeOK ==
    /\ horiz \in [Nodes -> Nodes \cup {NULL}]
    /\ nxt \in [Nodes -> Nodes \cup {NULL}]
    /\ prv \in [Nodes -> Nodes \cup {NULL}]
    /\ cur \in Nodes
    /\ qstate \in [QHs -> {"free", "pooled", "linking", "linked", "unlinked", "reaped"}]
    /\ pool \in Seq(QHs) /\ Len(pool) <= MaxQhPool
    /\ transfers \in Seq(QHs) /\ Len(transfers) <= MaxTrans
    /\ ops \in 0 .. MaxPipeOps

(* A QH is in the pool exactly when it is marked pooled, and at most once: *)
(* ehci_qhGet and ehci_qhPut keep the pool list and the QHs in use apart.  *)
QhOwnership ==
    /\ IsInjective(pool)
    /\ \A q \in QHs : q \in ToSet(pool) <=> qstate[q] = "pooled"

(* The controller's ring is closed through the head (no INVALID pointer on *)
(* it) and holds exactly the linked QHs, in the order of the driver's      *)
(* list, while links and unlinks of other threads come and go.             *)
Linked(x) == x # NULL /\ qstate[x] = "linked"

HwRingClosed ==
    /\ NULL \notin ToSet(HwRing)
    /\ HwRing = SelectSeq(DriverRing, Linked)

(* The schedule implements AsyncSchedule: the controller only ever goes to *)
(* a linked QH, and once ehci_qhUnlinkAsync returns it is off the QH, so   *)
(* ehci_qhPut may hand the QH to the next pipe.                            *)
AS == INSTANCE AsyncSchedule WITH sched <- {q \in QHs : qstate[q] = "linked"}, at <- cur

AsyncRefined == AS!Spec

(* Every QH that stays linked is eventually reached by the controller:     *)
(* links and unlinks never cut it out of the ring.                         *)
QhVisited == \A q \in QHs : qstate[q] = "linked" ~> (cur = q \/ qstate[q] # "linked")
=============================================================================
