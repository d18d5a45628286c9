------------------------------ MODULE EhciQueue ------------------------------
(***************************************************************************)
(* The transfer queue of one EHCI queue head (src/usb/ehci/ehci.c): client *)
(* threads submitting and cancelling transfers, the qTD pool they draw     *)
(* from, the host controller executing qTDs through the QH overlay, the    *)
(* interrupt handler latching USBSTS, and the worker thread that reaps     *)
(* finished transfers under the transfer lock.                             *)
(*                                                                         *)
(* A qTD is a record identity (driver record plus its DMA block).  Its     *)
(* hardware token is abstracted to the bits the driver and the controller  *)
(* decide on: Active, Halted, an error bit standing for XACT/BABBLE/BUFERR *)
(* and IOC; byte counts and buffer pointers are left out (EhciQtd).        *)
(* The QH is linked into the asynchronous schedule for the whole run; its  *)
(* allocation and linking are the subject of EhciAsync.                    *)
(***************************************************************************)
EXTENDS Naturals, Sequences, FiniteSets, SequencesExt

CONSTANTS
  Trans,        \* transfer objects, each submitted by its own client thread
  Qtds,         \* qTD record identities: the memory qTDs can ever occupy
  QtdCount,     \* [Trans -> Nat \ {0}]: qTDs the builder makes per transfer
  MaxQtdPool,   \* EHCI_MAX_QTD_POOL
  MaxSubmit,    \* bound: ehci_transferEnqueue calls per transfer object
  MaxCancel,    \* bound: ehci_transferDequeue calls in a behaviour
  MaxHcErrors,  \* bound: transaction errors the controller reports
  INVALID,      \* QTD_PTR_INVALID, the T-bit pointer
  NONE          \* NULL driver pointer / free lock

ASSUME Assumption ==
  /\ QtdCount \in [Trans -> Nat \ {0}]
  /\ MaxQtdPool \in Nat \ {0}
  /\ {MaxSubmit, MaxCancel, MaxHcErrors} \subseteq Nat
  /\ INVALID \notin Qtds /\ NONE \notin Qtds \cup Trans

Worker == "worker"
UI  == "UI"     \* USBSTS_UI: a qTD with IOC completed
UEI == "UEI"    \* USBSTS_UEI: a transaction ended in error
Ptr == Qtds \cup {INVALID}

(* The byte count t->size - QTD_LEN(token) a finished transfer reports;    *)
(* its value is abstracted, only its sign is kept.                         *)
Bytes == 0

VARIABLES
  mem,        \* qTD hardware blocks: token bits and the next pointer
  qh,         \* the QH overlay: current, nextQtd and the copied token
  lastQtd,    \* qh->lastQtd, the driver's tail cursor (NONE = NULL)
  pool,       \* ehci->qtdPool, oldest first; nqtds = Len(pool)
  free,       \* qTD identities not allocated (free'd or never malloc'ed)
  ring,       \* t->hcdpriv: the qTD ring of each transfer, first to last
  tstate,     \* client view: "idle", "built" (hcdpriv set), "inflight"
  transfers,  \* hcd->transfers, the in-flight list in insertion order
  usbsts,     \* interrupt bits the controller has raised in USBSTS
  status,     \* ehci->status, bits the ISR latched for the worker
  pending,    \* a wakeup of irqCond not yet consumed by the worker
  wpc,        \* worker thread: "wait", "lock" (clear done), "reap"
  transLock,  \* hcd->transLock holder: NONE, Worker, or the thread of t
  rt,         \* ehci_transUpdate's t, NONE when its loop is not running
  rn,         \* its n, t->next read before t is removed
  due,        \* ghost: the transfers finished when ehci_transUpdate began
  rpc,        \* reaper: "check" rt next, or "finish" it
  rstatus,    \* status computed by ehci_qtdsCheck for rt
  submits, cancels, hcErrors

vars == <<mem, qh, lastQtd, pool, free, ring, tstate, transfers, usbsts,
          status, pending, wpc, transLock, rt, rn, due, rpc, rstatus,
          submits, cancels, hcErrors>>

(* A qTD block as the controller sees it, as left in fresh memory.        *)
Idle == [active |-> FALSE, halted |-> FALSE, err |-> FALSE, ioc |-> FALSE,
         next |-> INVALID]

-----------------------------------------------------------------------------
(* The qTDs of transfers the controller may be given: those on the         *)
(* in-flight list.                                                         *)
LiveQtds == UNION {ToSet(ring[t]) : t \in ToSet(transfers)}

(* Mutant: the pool cap test of ehci_qtdsPut left out.                    *)
QtdPutNoCap(st, q) == [pool |-> Append(st.pool, q), free |-> st.free]

(* ehci_qtdsPut for one qTD: when the pool is at its cap the oldest pooled *)
(* record is destroyed (usb_free/free) before q is added at the tail.      *)
QtdPut(st, q) ==
  IF Len(st.pool) >= MaxQtdPool
  THEN [pool |-> Append(Tail(st.pool), q), free |-> st.free \cup {Head(st.pool)}]
  ELSE [pool |-> Append(st.pool, q), free |-> st.free]

(* ehci_qtdsPut of a whole ring, head first.                               *)
QtdsPut(p, f, qs) == FoldLeft(QtdPut, [pool |-> p, free |-> f], qs)

(* The token ehci_qtdAlloc writes: Active, PID, CERR; IOC clear.           *)
Fresh == [Idle EXCEPT !.active = TRUE]

(* ehci_qtdsCheck: error count over the ring, then the last qTD decides.   *)
ErrCount(t) == Cardinality({i \in DOMAIN ring[t] :
                              mem[ring[t][i]].err \/ mem[ring[t][i]].halted})
(* Mutant: the first qTD's token tested where the last one's is meant.    *)
LastDoneFirst(t) == ~mem[Head(ring[t])].active \/ mem[Head(ring[t])].halted
LastDone(t) == ~mem[Last(ring[t])].active \/ mem[Last(ring[t])].halted
Finished(t) == ErrCount(t) > 0 \/ LastDone(t)
CheckStatus(t) == IF LastDone(t) THEN Bytes ELSE -ErrCount(t)

(* The qTDs k calls of ehci_qtdGet take from the pool head, oldest first,  *)
(* until it is empty.                                                      *)
QtdGets(k) == SubSeq(pool, 1, IF k < Len(pool) THEN k ELSE Len(pool))

(* hcd->transfers is a circular list: its head, and the element after t.  *)
FirstOf(ts) == IF ts = <<>> THEN NONE ELSE Head(ts)
NextOf(ts, t) == LET i == CHOOSE j \in DOMAIN ts : ts[j] = t IN ts[(i % Len(ts)) + 1]

(* The condition of ehci_transUpdate's do-while: the list is not empty and *)
(* n is not its head, or the last pass removed a transfer (cont).  Mutant: *)
(* the cont flag left out.                                                 *)
LoopGoesOnNoCont(ts, n, cont) == ts # <<>> /\ n # Head(ts)

LoopGoesOn(ts, n, cont) == ts # <<>> /\ (n # Head(ts) \/ cont)

-----------------------------------------------------------------------------
(* Client thread of t, ehci_transferEnqueue up to the transfer lock: the   *)
(* qTDs are taken by ehci_qtdAlloc from the pool head (ehci_qtdGet) or     *)
(* malloc'ed, initialised, and linked into a ring by ehci_qtdLink, the     *)
(* last one pointing back to the first; t->hcdpriv is set.  When malloc    *)
(* fails, the qTDs got so far go back through ehci_qtdsPut (ENOMEM).       *)
Build(t) ==
  LET k        == QtdCount[t]
      fromPool == QtdGets(k)
      rest     == SubSeq(pool, Len(fromPool) + 1, Len(pool))
      need     == k - Len(fromPool)
  IN
  /\ tstate[t] = "idle"
  /\ submits[t] < MaxSubmit
  /\ submits' = [submits EXCEPT ![t] = @ + 1]
  /\ \/ /\ need <= Cardinality(free)
        /\ \E fresh \in [1..need -> free] :
             LET qs == fromPool \o fresh IN
             /\ IsInjective(fresh)
             /\ mem' = [q \in Qtds |->
                          IF q \in ToSet(qs)
                          THEN LET i == CHOOSE j \in DOMAIN qs : qs[j] = q IN
                               [Fresh EXCEPT !.next = qs[(i % k) + 1]]
                          ELSE mem[q]]
             /\ ring' = [ring EXCEPT ![t] = qs]
             /\ pool' = rest
             /\ free' = free \ ToSet(fresh)
             /\ tstate' = [tstate EXCEPT ![t] = "built"]
     \/ /\ need > Cardinality(free)
        /\ \E fresh \in [1..Cardinality(free) -> free] :
             LET got == fromPool \o fresh
                 st  == QtdsPut(rest, free \ ToSet(fresh), got)
             IN /\ IsInjective(fresh)
                /\ mem' = [q \in Qtds |->
                             IF q \in ToSet(got)
                             THEN Fresh ELSE mem[q]]
                /\ pool' = st.pool
                /\ free' = st.free
                /\ UNCHANGED <<ring, tstate>>
  /\ UNCHANGED <<qh, lastQtd, transfers, usbsts, status, pending, wpc,
                 transLock, rt, rn, due, rpc, rstatus, cancels, hcErrors>>

(* Mutant: the new ring written to the QH's nextQtd even when the queue   *)
(* has a tail, as if ehci_enqueue ignored qh->lastQtd.                     *)
PublishAtHead(t) ==
  LET first == Head(ring[t])
      last  == Last(ring[t])
  IN
  /\ tstate[t] = "built"
  /\ transLock = NONE
  /\ transfers' = Append(transfers, t)
  /\ qh' = [qh EXCEPT !.nextQtd = first]
  /\ mem' = [mem EXCEPT ![last].next = INVALID, ![last].ioc = TRUE]
  /\ lastQtd' = last
  /\ tstate' = [tstate EXCEPT ![t] = "inflight"]
  /\ UNCHANGED <<pool, free, ring, usbsts, status, pending, wpc, transLock,
                 rt, rn, due, rpc, rstatus, submits, cancels, hcErrors>>

(* The rest of ehci_transferEnqueue: under the transfer lock t joins the   *)
(* in-flight list and ehci_enqueue (under the async lock) terminates the   *)
(* ring, sets IOC on its last qTD and appends it to the QH: to nextQtd if  *)
(* the driver's tail cursor is NULL, else to the old tail's next pointer.  *)
Publish(t) ==
  LET first == Head(ring[t])
      last  == Last(ring[t])
      m1    == [mem EXCEPT ![last].next = INVALID, ![last].ioc = TRUE]
  IN
  /\ tstate[t] = "built"
  /\ transLock = NONE
  /\ transfers' = Append(transfers, t)
  /\ IF lastQtd = NONE
     THEN /\ qh' = [qh EXCEPT !.nextQtd = first]
          /\ mem' = m1
     ELSE /\ mem' = [m1 EXCEPT ![lastQtd].next = first]
          /\ UNCHANGED qh
  /\ lastQtd' = last
  /\ tstate' = [tstate EXCEPT ![t] = "inflight"]
  /\ UNCHANGED <<pool, free, ring, usbsts, status, pending, wpc, transLock,
                 rt, rn, due, rpc, rstatus, submits, cancels, hcErrors>>

(* ehci_transferDequeue, called by t's owner once its enqueue has returned *)
(* (a timeout or a cancel): under the transfer lock, clear Active in every *)
(* qTD of t's ring if it has one, then run ehci_transUpdate.               *)
Dequeue(t) ==
  /\ tstate[t] # "built"
  /\ transLock = NONE
  /\ cancels < MaxCancel
  /\ cancels' = cancels + 1
  /\ transLock' = t
  /\ mem' = [q \in Qtds |-> IF q \in ToSet(ring[t])
                            THEN [mem[q] EXCEPT !.active = FALSE] ELSE mem[q]]
  /\ rt' = FirstOf(transfers)
  /\ due' = {x \in ToSet(transfers) : Finished(x) \/ x = t}
  /\ UNCHANGED <<qh, lastQtd, pool, free, ring, tstate, transfers, usbsts,
                 status, pending, wpc, rn, rpc, rstatus, submits, hcErrors>>

-----------------------------------------------------------------------------
(* Host controller on this QH (EHCI 4.10).  Advance: with the overlay     *)
(* neither active nor halted and nextQtd valid, fetch that qTD if it is    *)
(* Active: current := its address, nextQtd := its next, token copied.      *)
HcFetch ==
  LET n == qh.nextQtd IN
  /\ ~qh.active /\ ~qh.halted
  /\ n # INVALID
  /\ mem[n].active
  /\ qh' = [current |-> n, nextQtd |-> mem[n].next, active |-> TRUE,
            halted |-> mem[n].halted, err |-> mem[n].err, ioc |-> mem[n].ioc]
  /\ UNCHANGED <<mem, lastQtd, pool, free, ring, tstate, transfers, usbsts,
                 status, pending, wpc, transLock, rt, rn, due, rpc, rstatus, submits,
                 cancels, hcErrors>>

(* Execute: the overlay's transfer completes; the token is written back to *)
(* the qTD at current and, with IOC, USBSTS.UI is raised.                  *)
HcComplete ==
  /\ qh.active
  /\ qh' = [qh EXCEPT !.active = FALSE]
  /\ mem' = [mem EXCEPT ![qh.current] = [@ EXCEPT !.active = FALSE]]
  /\ usbsts' = IF qh.ioc THEN usbsts \cup {UI} ELSE usbsts
  /\ UNCHANGED <<lastQtd, pool, free, ring, tstate, transfers, status,
                 pending, wpc, transLock, rt, rn, due, rpc, rstatus, submits,
                 cancels, hcErrors>>

(* Execute: the transaction fails (CERR exhausted, babble, buffer error):  *)
(* the overlay halts with the error bit, is written back, USBSTS.UEI.      *)
HcFail ==
  /\ qh.active
  /\ hcErrors < MaxHcErrors
  /\ hcErrors' = hcErrors + 1
  /\ qh' = [qh EXCEPT !.active = FALSE, !.halted = TRUE, !.err = TRUE]
  /\ mem' = [mem EXCEPT ![qh.current] = [@ EXCEPT !.active = FALSE,
                                                  !.halted = TRUE, !.err = TRUE]]
  /\ usbsts' = usbsts \cup {UEI}
  /\ UNCHANGED <<lastQtd, pool, free, ring, tstate, transfers, status,
                 pending, wpc, transLock, rt, rn, due, rpc, rstatus, submits, cancels>>

-----------------------------------------------------------------------------
(* ehci_irqHandler: write the raised bits back to USBSTS, OR them into     *)
(* ehci->status, repeat until USBSTS is stable; the kernel then signals    *)
(* irqCond since ehci->status holds an interrupt bit.                      *)
IrqHandler ==
  /\ usbsts # {}
  /\ status' = status \cup usbsts
  /\ usbsts' = {}
  /\ pending' = TRUE
  /\ UNCHANGED <<mem, qh, lastQtd, pool, free, ring, tstate, transfers, wpc,
                 transLock, rt, rn, due, rpc, rstatus, submits, cancels, hcErrors>>

(* ehci_irqThread returns from condWait; if UI or UEI is latched it clears *)
(* them and goes for the transfer lock.                                    *)
WorkerWake ==
  /\ wpc = "wait"
  /\ pending
  /\ pending' = FALSE
  /\ IF status \cap {UI, UEI} # {}
     THEN /\ status' = status \ {UI, UEI}
          /\ wpc' = "lock"
     ELSE UNCHANGED <<status, wpc>>
  /\ UNCHANGED <<mem, qh, lastQtd, pool, free, ring, tstate, transfers,
                 usbsts, transLock, rt, rn, due, rpc, rstatus, submits, cancels,
                 hcErrors>>

WorkerLock ==
  /\ wpc = "lock"
  /\ transLock = NONE
  /\ transLock' = Worker
  /\ rt' = FirstOf(transfers)
  /\ due' = {x \in ToSet(transfers) : Finished(x)}
  /\ wpc' = "reap"
  /\ UNCHANGED <<mem, qh, lastQtd, pool, free, ring, tstate, transfers,
                 usbsts, status, pending, rn, rpc, rstatus, submits, cancels,
                 hcErrors>>

(* ehci_transUpdate, one pass of its do-while: n = t->next, then          *)
(* ehci_qtdsCheck reads the ring's tokens.  An unfinished transfer is      *)
(* passed over and the loop goes on to n unless n is the list head.        *)
ReapCheck ==
  LET n == NextOf(transfers, rt) IN
  /\ rt # NONE
  /\ rpc = "check"
  /\ IF Finished(rt)
     THEN /\ rpc' = "finish"
          /\ rstatus' = CheckStatus(rt)
          /\ rn' = n
          /\ UNCHANGED rt
     ELSE /\ rt' = IF LoopGoesOn(transfers, n, FALSE) THEN n ELSE NONE
          /\ UNCHANGED <<rn, rpc, rstatus>>
  /\ UNCHANGED <<mem, qh, lastQtd, pool, free, ring, tstate, transfers,
                 usbsts, status, pending, wpc, transLock, due, submits,
                 cancels, hcErrors>>

(* Mutants of ehci_continue: the stuck-queue repair left out; the tail     *)
(* cursor reset to QTD_PTR_INVALID instead of NULL.                        *)
ContinueNoRepair(last) ==
  LET idle  == lastQtd = last
      nq1   == IF idle THEN INVALID ELSE qh.nextQtd
      erred == qh.err \/ qh.halted
  IN [lastQtd |-> IF idle THEN NONE ELSE lastQtd,
      qh |-> IF erred
             THEN [qh EXCEPT !.nextQtd = mem[last].next, !.halted = FALSE,
                             !.err = FALSE]
             ELSE [qh EXCEPT !.nextQtd = nq1]]
ContinueInvalidTail(last) ==
  LET idle  == lastQtd = last
      nq1   == IF idle THEN INVALID ELSE qh.nextQtd
      nq2   == IF nq1 = INVALID /\ qh.current = last THEN mem[last].next ELSE nq1
      erred == qh.err \/ qh.halted
  IN [lastQtd |-> IF idle THEN INVALID ELSE lastQtd,
      qh |-> IF erred
             THEN [qh EXCEPT !.nextQtd = mem[last].next, !.halted = FALSE,
                             !.err = FALSE]
             ELSE [qh EXCEPT !.nextQtd = nq2]]

(* ehci_continue(qh, last) under the async lock: an idle queue drops its   *)
(* tail cursor; a queue stuck because the overlay copied the old tail's    *)
(* INVALID next is restarted; an error state is cleared and nextQtd moved  *)
(* past the transfer.  Yields the new tail cursor and QH overlay.          *)
Continue(last) ==
  LET idle  == lastQtd = last
      nq1   == IF idle THEN INVALID ELSE qh.nextQtd
      nq2   == IF nq1 = INVALID /\ qh.current = last THEN mem[last].next ELSE nq1
      erred == qh.err \/ qh.halted
  IN [lastQtd |-> IF idle THEN NONE ELSE lastQtd,
      qh |-> IF erred
             THEN [qh EXCEPT !.nextQtd = mem[last].next, !.halted = FALSE,
                             !.err = FALSE]
             ELSE [qh EXCEPT !.nextQtd = nq2]]

(* The finished transfer leaves: ehci_continue, ehci_qtdsPut of its ring,  *)
(* LIST_REMOVE, t->hcdpriv = NULL and usb_transferFinished; cont is set   *)
(* when t was not alone, and the loop goes on to n.                        *)
ReapFinish ==
  LET t  == rt
      ts == Remove(transfers, t)
      c  == Continue(Last(ring[t]))
      st == QtdsPut(pool, free, ring[t])
  IN
  /\ rpc = "finish"
  /\ lastQtd' = c.lastQtd
  /\ qh' = c.qh
  /\ pool' = st.pool
  /\ free' = st.free
  /\ transfers' = ts
  /\ ring' = [ring EXCEPT ![t] = <<>>]
  /\ tstate' = [tstate EXCEPT ![t] = "idle"]
  /\ rt' = IF LoopGoesOn(ts, rn, rn # t) THEN rn ELSE NONE
  /\ rpc' = "check"
  /\ UNCHANGED <<mem, usbsts, status, pending, wpc, transLock, rn, due, rstatus,
                 submits, cancels, hcErrors>>

(* ehci_transUpdate returns; the holder unlocks the transfer lock.         *)
ReapDone ==
  /\ transLock # NONE
  /\ rt = NONE
  /\ rpc = "check"
  /\ transLock' = NONE
  /\ wpc' = IF transLock = Worker THEN "wait" ELSE wpc
  /\ UNCHANGED <<mem, qh, lastQtd, pool, free, ring, tstate, transfers,
                 usbsts, status, pending, rt, rn, due, rpc, rstatus, submits,
                 cancels, hcErrors>>

-----------------------------------------------------------------------------
Init ==
  /\ mem = [q \in Qtds |-> Idle]
  /\ qh = [current |-> INVALID, nextQtd |-> INVALID, active |-> FALSE,
           halted |-> FALSE, err |-> FALSE, ioc |-> FALSE]
  /\ lastQtd = NONE
  /\ pool = <<>>
  /\ free = Qtds
  /\ ring = [t \in Trans |-> <<>>]
  /\ tstate = [t \in Trans |-> "idle"]
  /\ transfers = <<>>
  /\ usbsts = {}
  /\ status = {}
  /\ pending = FALSE
  /\ wpc = "wait"
  /\ transLock = NONE
  /\ rt = NONE
  /\ rn = NONE
  /\ due = {}
  /\ rpc = "check"
  /\ rstatus = Bytes
  /\ submits = [t \in Trans |-> 0]
  /\ cancels = 0
  /\ hcErrors = 0

Next ==
  \/ \E t \in Trans : Build(t) \/ Publish(t) \/ Dequeue(t)
  \/ HcFetch \/ HcComplete \/ HcFail
  \/ IrqHandler \/ WorkerWake \/ WorkerLock
  \/ ReapCheck \/ ReapFinish \/ ReapDone

(* The controller runs the schedule and the device answers (no endless     *)
(* NAK); the ISR runs when USBSTS holds a bit; the threads are scheduled.  *)
(* Submitting, cancelling and failing are choices, not obligations.        *)
Fairness ==
  /\ WF_vars(HcFetch) /\ WF_vars(HcComplete)
  /\ WF_vars(IrqHandler) /\ WF_vars(WorkerWake) /\ WF_vars(WorkerLock)
  /\ WF_vars(ReapCheck) /\ WF_vars(ReapFinish) /\ WF_vars(ReapDone)
  /\ \A t \in Trans : WF_vars(Publish(t))

Spec == Init /\ [][Next]_vars /\ Fairness

-----------------------------------------------------------------------------
TypeOK ==
  /\ mem \in [Qtds -> [active : BOOLEAN, halted : BOOLEAN, err : BOOLEAN,
                       ioc : BOOLEAN, next : Ptr]]
  /\ qh \in [current : Ptr, nextQtd : Ptr, active : BOOLEAN, halted : BOOLEAN,
             err : BOOLEAN, ioc : BOOLEAN]
  /\ lastQtd \in Qtds \cup {NONE}
  /\ pool \in Seq(Qtds) /\ free \subseteq Qtds
  /\ ring \in [Trans -> Seq(Qtds)]
  /\ tstate \in [Trans -> {"idle", "built", "inflight"}]
  /\ transfers \in Seq(Trans)
  /\ usbsts \subseteq {UI, UEI} /\ status \subseteq {UI, UEI}
  /\ pending \in BOOLEAN
  /\ wpc \in {"wait", "lock", "reap"}
  /\ transLock \in {NONE, Worker} \cup Trans
  /\ rt \in Trans \cup {NONE} /\ rn \in Trans \cup {NONE} /\ due \subseteq Trans
  /\ rpc \in {"check", "finish"}
  /\ rstatus \in Int

(* Descriptor ownership (spec section 3): every qTD record is in exactly   *)
(* one place, free memory, the pool or the ring of one transfer, and the   *)
(* pool holds at most EHCI_MAX_QTD_POOL records.  Broken by a pool put or  *)
(* an ENOMEM unwind that loses or duplicates a record.                     *)
QtdOwnership ==
  /\ Len(pool) <= MaxQtdPool
  /\ Len(pool) = Cardinality(ToSet(pool))
  /\ \A t \in Trans : Len(ring[t]) = Cardinality(ToSet(ring[t]))
  /\ \A q \in Qtds :
       Cardinality({t \in Trans : q \in ToSet(ring[t])})
         + (IF q \in free THEN 1 ELSE 0) + (IF q \in ToSet(pool) THEN 1 ELSE 0) = 1

(* The controller only touches live qTDs: while the overlay is active its  *)
(* current qTD, and whenever nextQtd is valid the qTD it names, belong to  *)
(* a transfer on the in-flight list.  Otherwise the controller would write *)
(* back into, or fetch, a qTD that ehci_qtdsPut has pooled, freed or given *)
(* to another transfer.                                                    *)
HwRefsLive ==
  /\ qh.active => qh.current \in LiveQtds
  /\ qh.nextQtd # INVALID => qh.nextQtd \in LiveQtds

(* The controller works the QH's transfers in submission order: while it  *)
(* executes a qTD of a transfer, no transfer queued before it on the       *)
(* in-flight list still has an Active qTD.  Broken when ehci_enqueue or    *)
(* ehci_continue points nextQtd at a later ring than the one in progress. *)
InOrder ==
  qh.active =>
    \A i, j \in DOMAIN transfers :
      (i < j /\ qh.current \in ToSet(ring[transfers[j]]))
        => \A q \in ToSet(ring[transfers[i]]) : ~mem[q].active

(* One ehci_transUpdate reaps every transfer that had finished when it    *)
(* began: when its loop ends, none of them is still on hcd->transfers.     *)
(* The list head changes under the loop when the head is reaped, and only  *)
(* the cont flag carries the loop past it; a transfer missed here waits    *)
(* for another interrupt that may never come.                              *)
ReapSweepsFinished ==
  (transLock # NONE /\ rt = NONE /\ rpc = "check") => due \cap ToSet(transfers) = {}

(* usb_transferFinished gets a negative status (minus the error count)    *)
(* for every transfer one of whose qTDs the controller ended in error.     *)
ErrorsReported ==
  [][rpc = "finish" /\ rpc' = "check" => (ErrCount(rt) > 0 => rstatus < 0)]_vars

(* Every submitted transfer is eventually handed back to the USB stack     *)
(* through usb_transferFinished (or its enqueue fails with ENOMEM).        *)
TransfersComplete ==
  \A t \in Trans : tstate[t] # "idle" ~> tstate[t] = "idle"
=============================================================================
