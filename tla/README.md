# TLA+ models of the Phoenix-RTOS EHCI host-controller driver

The models cover `src/usb/ehci/ehci.c`, the EHCI (USB 2.0) host-controller driver. The
other source file, `src/multi/imxrt-multi/Makefile`, is build configuration and has no
behaviour to model. Every module is translated from `ehci.c`; `PROJECT.json` (`map`)
names the lines behind each definition.

## 1. Inventory

### Components and their state

| Component | Code | State it keeps | Operations |
|---|---|---|---|
| qTD pool | `ehci_qtdGet`, `ehci_qtdsPut`, the pool half of `ehci_qtdAlloc` | `qtdPool` list (oldest first), `nqtds` | take the head or `malloc` a new record; put back at the tail, destroying the oldest when `nqtds >= EHCI_MAX_QTD_POOL` |
| QH pool | `ehci_qhGet`, `ehci_qhPut`, `ehci_qhAlloc` | `qhPool`, `nqhs` | the same scheme for QHs; `ehci_qhAlloc` resets every field (horizontal, current, nextQtd INVALID) |
| qTD builder | `ehci_qtdAlloc`, `ehci_qtdAdd` | none (pure), writes the qTD token and buffer pointers | split a buffer into qTDs of at most 5 pages, truncating to whole packets on the fifth; flip the data toggle once per qTD |
| QH configuration | `ehci_qhConf`, refresh in `ehci_transferEnqueue` | `info[0]`, `info[1]`, `period` | encode address/endpoint/speed/max packet; compute `period` from `bInterval` |
| Asynchronous list | `ehci_qhLinkAsync`, `ehci_qhUnlinkAsync`, `ehci_startAsync`, `ehci_stopAsync` | driver ring `prev/next` and hardware `horizontal` pointers, dummy head with H bit | insert after the head; unlink with the schedule stopped, then restarted at the head |
| Periodic list | `ehci_bandAlloc`, `ehci_qhLinkPeriodic`, `ehci_qhUnlinkPeriodic` | `periodicList[N]` (hardware), `periodicNodes[N]` (driver), per-QH `next`, `phase`, `uframe` | choose the least loaded phase and microframe; insert ordered by period; unlink from every slot |
| Transfer queue of a QH | `ehci_transferEnqueue`, `ehci_enqueue`, `ehci_transferDequeue`, `ehci_transUpdate`, `ehci_qtdsCheck`, `ehci_continue` | `hcd->transfers`, `t->hcdpriv` (qTD ring), `qh->lastQtd`, the QH overlay (`current`, `nextQtd`, token) | append a ring to the QH; cancel by clearing Active; reap finished transfers and re-home the QH |
| Interrupt path | `ehci_irqHandler`, `ehci_irqThread`, `ehci_portStatusChanged` | `ehci->status`, `irqCond` | ISR ORs USBSTS into `status` and signals; the worker clears the bits it handles, reaps, notifies the roothub |
| Pipe destruction | `ehci_pipeDestroy` | none of its own | unlink the QH, deactivate its transfers, reap, pool the QH |
| Bring-up | `ehci_init`, `ehci_free` | all of the above, registers | allocate, program registers, start schedules; unwind on error |

### How they interact

Client threads call the `hcd_ops` entry points: `transferEnqueue`, `transferDequeue`
and `pipeDestroy`. They share the driver state with one worker thread (`ehci_irqThread`)
and with the interrupt handler. There are four locks. The transfer lock (`hcd->transLock`)
guards the in-flight list and every run of the reaper. The async lock guards the pools,
the async ring and `lastQtd`. The periodic lock guards the frame list. The IRQ lock
guards only the condition variable.

The host controller is a fifth, independent actor. It reads and writes the descriptors
in DMA memory without taking any lock: it follows `horizontal` pointers, copies a qTD
into the QH overlay, and writes the token back when a transaction ends. It raises
USBSTS bits, which the ISR latches into `ehci->status`.

### What makes it hard

- **Concurrency with hardware.** Every driver write to a linked descriptor races the
  controller. In the overlay protocol, the controller copies `next` when it fetches a
  qTD and writes the token back when the qTD ends. The driver repairs a stalled queue
  in `ehci_continue`, but only after the fact.
- **Recycling.** qTDs and QHs go back to a pool and are reused while the controller
  may still hold their addresses. Cancellation and pipe destruction clear Active bits
  in memory but never stop the controller.
- **Ordering.** One reaper pass handles all finished transfers in list order. The QH's
  overlay state (errors, `nextQtd`) is shared by all the transfers queued on that QH.
- **Interrupt latching.** The ISR ORs bits into `ehci->status`. The worker clears them
  with a plain read-modify-write and waits on a condition without testing a predicate
  first.
- **Arithmetic.** The page-boundary fragmentation, the byte count in a 15-bit field,
  `period` from `bInterval` by shifts, and the microframe choice.

### Correctness properties by component

- **qTD/QH pools.** Each record is in exactly one place: free memory, the pool, or one
  transfer or schedule. A pool never exceeds its cap.
- **Transfer queue.** The controller only fetches or writes back qTDs of live transfers.
  Every submitted transfer is eventually handed back. An error is reported as a negative
  status. Transfers on a QH execute in submission order.
- **Async list.** The hardware ring is one cycle through the dummy head, and every QH on
  it has a valid horizontal pointer. The controller's cursor never points at a QH that
  has been unlinked and pooled.
- **Periodic list.** For every slot, the hardware chain equals the driver chain. Every
  linked QH with phase φ and period P is reachable from every slot φ + kP. Each chain is
  ordered by non-increasing period. Every QH is polled at least as often as its
  endpoint's bInterval asks.
- **qTD builder.** The qTDs' byte counts add up to the transfer size. Each qTD spans at
  most 5 pages. Every qTD but the last is a whole number of packets. (Spec 4.2 asks for
  the toggle to flip once per qTD, which is what the code does; see section 7.)
- **Interrupt path.** No latched interrupt bit is lost, and a raised interrupt is
  eventually handled.

## 2. Plan

Modules, in the order they are built. The order puts the behaviour that most affects
correctness first.

1. **EhciQueue** (done). One QH in the async schedule. Client threads build, publish
   and cancel transfers. The qTD pool. The controller fetches, completes and fails qTDs
   through the overlay. The ISR and the worker's reaper run in two steps per transfer
   (`ehci_qtdsCheck`, then `ehci_continue` plus pooling and reporting).
   `MCEhciQueue` instantiates it.
2. **EhciPeriodic** (done). `periodicNodes`/`periodicList` with 4 slots,
   `ehci_qhConf`'s period, `ehci_bandAlloc`, link and unlink (section 4). Still to add:
   the controller's walk through one frame, to check the unlink hazard (TODO at line 511).
3. **EhciAsync** (done, section 5). The async ring with the dummy head, linking as
   two hardware-visible writes, unlinking with the schedule stopped and restarted, the
   controller's cursor and the QH pool. It refines the abstract `AsyncSchedule`.
4. **EhciIrq** (done, section 6). The ISR against the worker's non-atomic clears of
   `ehci->status`, with the UI, SEI and PCI branches.
5. **EhciQtd** (done, section 7). `ehci_transferEnqueue`'s stages, each an
   `ehci_qtdAdd` loop of `ehci_qtdAlloc`, with the page fill as a RECURSIVE operator.

Composition: EhciQueue keeps its QH permanently linked, and its qTD count per transfer
is a constant; EhciAsync and EhciQtd model the linking and the qTD construction it takes
as given. EhciAsync composes `ehci_pipeDestroy` on an async pipe: unlink, the
deactivation and reap of the pipe's transfers, and `ehci_qhPut`. The 12 runs are 6 for EhciQueue, 2
for EhciPeriodic, 1 for EhciAsync, 2 for EhciIrq and 1 for EhciQtd.

## 3. EhciQueue: the transfer queue of a QH

**State and correspondence.**

- `mem[q]` is the DMA block of qTD record `q`: Active, Halted, an error bit standing for
  XACT/BABBLE/BUFERR, IOC, and `next`.
- `qh` is the overlay: `current`, `nextQtd` and the copied token.
- `lastQtd` is `qh->lastQtd`.
- `pool` is `ehci->qtdPool` with the oldest record first; `nqtds` is its length.
- `free` holds the record identities not allocated. `malloc` takes one; `free()` on pool
  overflow gives one back. When `free` is empty, `malloc` fails.
- `ring[t]` is `t->hcdpriv`, and `transfers` is `hcd->transfers`.
- `usbsts`, `status` and `pending` are USBSTS, `ehci->status`, and a latched `irqCond`
  wakeup.
- `transLock` records who holds the transfer lock. `rt`, `rn`, `rpc` and `rstatus` are
  the reaper's position in `ehci_transUpdate`: its `t`, its `n` (`t->next`, read before
  `t` is removed), and whether `t` is to be checked or finished. `due` is a ghost
  variable: the transfers that were finished when the current `ehci_transUpdate` began.

**Actions.**

- `Build(t)` is `ehci_transferEnqueue` up to line 800: the qTDs of all stages come from
  the pool head or `malloc`, are initialised, and are linked into a ring. If allocation
  fails (ENOMEM), the partial ring goes back through `ehci_qtdsPut`.
- `Publish(t)` is lines 804–807 with `ehci_enqueue`.
- `Dequeue(t)` is `ehci_transferDequeue`. It deactivates the ring and starts a reaper pass.
- `HcFetch`, `HcComplete` and `HcFail` are the controller (EHCI 4.10). They have no
  `map` entry because they model hardware, not code.
- `IrqHandler` is the ISR. `WorkerWake` and `WorkerLock` are `ehci_irqThread`.
- `ReapCheck` is one pass of the do-while of `ehci_transUpdate`: `n = t->next`
  (`NextOf` on the circular list), then `ehci_qtdsCheck`. An unfinished transfer is
  passed over, and the loop test (`LoopGoesOn`, line 621) decides whether to go on to
  `n`.
- `ReapFinish` is `ehci_continue` (`Continue`), `ehci_qtdsPut`, `LIST_REMOVE` and
  `usb_transferFinished`. It sets `cont` when `t` was not alone, then applies the same
  loop test to the shortened list.
- `ReapDone` unlocks.

Each step that holds the async lock (pool operations, `ehci_enqueue`, `ehci_continue`)
is one atomic step. The lock excludes the other threads, and the controller cannot
change anything the step reads in between: in `ehci_continue`, each branch that writes
`nextQtd` is reached only with the overlay inactive. The reaper is split between the
check and the continue, because the controller can run in that gap. The qTD builder is
one step: the qTDs are private to the calling thread until they are published.

**Abstractions.** Byte counts and buffers are left out; a reported status keeps only
its sign (`Bytes`). The control/bulk distinction is reduced to the number of qTDs a
transfer gets (`QtdCount`). The QH stays linked all run. Partial progress of a qTD is
not modelled: a qTD either completes or fails. The short-packet alt-next path is not
modelled because `altnext` is always INVALID. `ehci_transUpdate` visits a snapshot of
the list. The code can visit a transfer twice after removing its predecessor, which
changes nothing. `Dequeue(t)` is called only after t's own enqueue returned (see
hazards).

**Fairness.** Weak fairness is assumed for the controller's fetch and complete steps:
the schedule runs and the device answers, so there is no endless NAK. It is also
assumed for the ISR (USBINTR enables UI/UEI, so a raised bit interrupts), for the
worker and reaper steps, and for `Publish` (threads are scheduled). Submitting,
cancelling and failing are never forced.

**Runs.** All runs use `MCEhciQueue` and allow at most 2 pooled qTDs (`MaxQtdPool` 2).

| Run | Bounds | Checks | Result |
|---|---|---|---|
| `queue_ok` | t1 (1 qTD), t2 (2 qTDs), 3 records, 2 submissions each, 2 errors, no cancel | TypeOK, HwRefsLive, InOrder, ReapSweepsFinished, TransfersComplete | pass, 171,544 states |
| `queue_cancel_pool` | t1, t2 (2 qTDs each), 3 records, 2 submissions each, 1 cancel, 1 error | QtdOwnership | pass, 138,340 states |
| `queue_error3` | t1, t2, t3 (1, 2, 1 qTDs), 4 records, 1 error | HwRefsLive | violation |
| `queue_cancel_later` | t1, t2, 1 cancel | TransfersComplete | violation |
| `queue_cancel_active` | t1, t2, 1 cancel | HwRefsLive | violation |
| `queue_babble` | t1, t2, 1 error | ErrorsReported | violation |

**Why these bounds are enough.** Three records for two transfers needing three qTDs in
total exercise pool reuse and overflow past a cap of 2. They never run out, so
`queue_cancel_pool` gives both transfers two qTDs: whenever one holds its ring of two,
the other can get at most one record, and `ehci_qtdAlloc` fails (ENOMEM) with a
partial ring to hand back, from the pool, from `malloc`, or both.
The ring of two qTDs makes the last and first qTDs differ. Two submissions per transfer
object re-use qTD records while the controller may still hold them. Two transfers are
enough for the stall repair of line 121: the overlay copies INVALID before the second
transfer is linked. The third transfer object is used only by the run that needs it.

**What the runs show.**

- Without cancellation, and with at most two transfers on a QH, the overlay protocol is
  sound. This holds even with transaction errors: the controller touches only live
  qTDs, and every transfer completes. The stall repair is needed; its mutant breaks
  TransfersComplete.
- The transfers run in submission order (`InOrder`): while the overlay executes a qTD
  of a transfer, no transfer earlier on the in-flight list has an Active qTD. This
  rests on `ehci_enqueue` writing `nextQtd` only when `qh->lastQtd` is NULL. Writing it
  unconditionally (mutant `PublishAtHead`) lets a later transfer overtake one whose
  second qTD is still queued.
- One `ehci_transUpdate` reaps every transfer that had finished when it began
  (`ReapSweepsFinished`). The loop removes elements from the circular list it walks.
  When it reaps the head, `hcd->transfers` moves on to `n`, and the test
  `n != hcd->transfers` alone would end the loop there. The `cont` flag carries it on.
  Without it (mutant `LoopGoesOnNoCont`), with both transfers finished before the worker
  runs, only the first is reaped. The second then waits for an interrupt that may
  never come.
- **Finding (line 125).** Take three transfers on one QH. The first completes and the
  second fails before the worker runs. Reaping the first clears the second's error and
  sets `nextQtd` to the failed qTD. That qTD is pooled when the second transfer is
  reaped, and the third transfer never runs.
- Every qTD record is in exactly one place: free memory, the pool or one transfer's
  ring, and the pool never exceeds its cap (`QtdOwnership`). This holds through
  cancels, pool eviction at the cap and the ENOMEM unwind of a partial ring (line 764).
  A put that ignores the cap (mutant `QtdPutNoCap`) grows the pool past 2.
- **Finding (line 115).** Cancelling the later of two queued transfers sets `nextQtd`
  to INVALID and strands the earlier one.
- **Finding (lines 724, 616).** Cancelling a transfer that is in the overlay pools its
  qTD while the controller still executes it.
- **Finding (line 588).** A failure of a transfer's last qTD is reported as a byte
  count, not a negative status (spec, scenario 5).

## 4. EhciPeriodic: the periodic frame list

**State and correspondence.**

- `nodes[i]` is `periodicNodes[i]`, the driver's head of slot i.
- `list[i]` is `periodicList[i]`, the controller's head. QH_PTR_INVALID is `NULL`.
- `next[q]` is `qh->next`, and `horiz[q]` is `qh->hw->horizontal`.
- `period`, `phase`, `uframe` and `hs` (the QH_HIGH_SPEED bit) are per-QH fields.
  `interval[q]` is `pipe->interval` of the pipe holding the QH, the input of `ehci_qhConf`.
- `qstate[q]` is "free" when the QH is pooled or not yet allocated, and "linked" when a
  pipe holds it on the frame list.

**Actions.** Both hold `periodicLock` and are atomic.

- `Link(q)` is the interrupt branch of `ehci_transferEnqueue` (lines 739–749).
  `ehci_qhAlloc` resets every pointer. `ehci_qhConf` gives the period (`ConfPeriod`) for
  a nondeterministic speed and bInterval. `ehci_bandAlloc` picks the phase (`BandPhase`)
  and the microframe (`BandUframe`). `ehci_qhLinkPeriodic` then walks (`Walk`) and takes
  one of two branches: the new QH becomes the head of slots phase + k*P (`NewHead`), or
  it is inserted after the QH the walk stopped at.
- `Unlink(q)` is the periodic part of `ehci_pipeDestroy`: `ehci_qhUnlinkPeriodic` folds
  `UnlinkSlot` over slots 0..N-1 in order, then `ehci_qhPut` returns the QH. Deactivating
  and reaping the QH's transfers is the same code as `PipeReap` in EhciAsync (section 5).

**Abstractions.** The info words are reduced to the high-speed bit. The controller is
represented by the chain it would walk in each slot (`HwChain`); its position inside a
frame is not yet modelled.

**Bounds.** There are 3 QHs, 4 slots, and bInterval ∈ {1, 5, 6}. That gives periods 1, 2
and 4 at high speed, and 1, 4 and 4 at full speed. So a QH can cover all, half or one of
the slots. Three QHs are enough for a chain of two with a head from a third, and for
both link branches. The QHs are symmetric, so `MCSymmetry` permutes them. Deadlock is
checked: a QH can always be linked or unlinked.

| Run | Checks | Result |
|---|---|---|
| `periodic_ok` | TypeOK, HwChainIsDriverPrefix, ChainsHoldOnlyLinked, ChainOrdered, PeriodHonoursInterval | pass, 28,689 states |
| `periodic_served` | HwServesEveryPeriod | violation |

**What the runs show.** Through any sequence of links and unlinks, three things hold.
The controller's chain at each slot is a prefix of the driver's. No unlinked QH stays
reachable, even though `ehci_qhUnlinkPeriodic` edits shared pointers slot by slot.
Chains stay ordered by period. Every linked QH is polled at least as often as its
endpoint asks (`PeriodHonoursInterval`): USB 2.0 gives 2^(bInterval-1) microframes at
high speed and bInterval frames at full speed. The property compares that with the
longest gap between two polls: 8·period microframes when `ehci_bandAlloc` chose one
microframe, and 8·(period-1)+1 when it chose none, because S-mask 0xff polls every
microframe of each frame the QH is in (hazards at lines 351 and 392). Full-speed QHs
never get a microframe, so their half of the property is period ≤ bInterval. Rounding
bInterval up instead of down in the loop at line 358 (mutant `ConfPeriodRoundUp`,
`period < interval`) gives a bInterval-5 endpoint period 8, a gap of 57 microframes
where 40 are allowed. Shifting the high-speed period by bInterval instead of bInterval - 1
also breaks it: a bInterval-5 endpoint is polled every 32 microframes instead of 16.
Full-speed endpoints of bInterval 2^k are polled twice as often as asked, because the
loop stops at the largest power of two strictly below bInterval; this is allowed, not
a defect. The controller does **not** poll every QH at its period
(**finding, line 428**). A new head never gets a horizontal pointer: after a period-1
QH, linking a period-4 QH at slot 0 cuts the period-1 QH out of frame 0. The same
property also covers the other linking gaps (hazard at line 430): an overwritten slot,
and a mid-chain insert seen only from its phase slot.

## 5. EhciAsync: the asynchronous schedule and the QH pool

**State and correspondence.** `horiz[q]` is `qh->hw->horizontal`; `nxt`/`prv` are the
driver's `qh->next`/`qh->prev`; `Dummy` is `ehci->asyncList`. `cur` is the QH the
controller is at (its walk from `asynclistaddr`). `pool` is `ehci->qhPool`, oldest
first, and `Len(pool)` is `nqhs`. `qstate[q]` is "free" (no memory), "pooled",
"linking" (inside `ehci_qhLinkAsync`, holding the async lock), "linked", "unlinked"
(after `ehci_qhUnlinkAsync` in `ehci_pipeDestroy`) or "reaped" (after its reap, before
`ehci_qhPut`). `transfers` is `hcd->transfers`, each transfer kept as the QH it is
queued on.

**Actions.** `LinkPrepare(q)` is `ehci_qhAlloc` (a pooled QH via `PoolAfterGet`, or a
new one) and `ehci_qhLinkAsync` up to line 465: the driver list, then the QH's
horizontal pointer copied from the head's. `LinkPublish(q)` is line 466, the write that
makes the QH visible to the controller, and the unlock. `Unlink(q)` is
`ehci_qhUnlinkAsync`: with the schedule stopped the predecessor skips the QH, and
`ehci_startAsync` restarts the controller at the head (`cur' = Dummy`); then the
driver list. `QhPut(q)` is the end of `ehci_pipeDestroy`, with the cap of
`ehci_qhPut` (`PoolAfterPut`, `Evicted`). Between the two, `PipeReap(q)` is lines
829–843: under the transfer lock, `ehci_qtdsDeactivate` on the ring of every transfer
whose QH is this one, then `ehci_transUpdate`, which reaps each deactivated ring
(`ReapPipe`), and `pipe->hcdpriv = NULL`. `Enqueue(q)` is the end of
`ehci_transferEnqueue` on a pipe whose QH is linked (LIST_ADD, lines 804–807), and
`TransDone(i)` is the worker's `ehci_transUpdate` reaping a transfer the controller
retired. Transfers of other QHs that happen to be finished are left to `TransDone`
instead of being reaped inside `PipeReap`; the interleavings cover both orders.
`HcAdvance` is the controller following a
horizontal pointer; it takes no lock and interleaves with every driver step, including
between the two halves of the link.

**Refinement.** `AsyncSchedule` is what the schedule promises, without pointers: a set
`sched` of QHs and a position `at` that is the head or a member of `sched`. Removing a
QH also takes the controller off it. `EhciAsync` implements it under the mapping
`sched <- {linked QHs}`, `at <- cur` (`AS == INSTANCE AsyncSchedule WITH ...`), checked as
the property `AsyncRefined`.

**Fairness.** The controller advances while the schedule is enabled (WF `HcAdvance`).
A thread inside the async lock finishes its critical section (WF `LinkPublish`), and
`ehci_pipeDestroy` runs to its end (WF `PipeReap`, WF `QhPut`). Linking and unlinking themselves are
client choices and have no fairness.

**Bounds.** 3 QHs, a pool cap of 1 (so `ehci_qhPut` evicts whenever the pool is
non-empty), 6 pipe operations and 2 transfers in flight: enough to link all three, unlink, pool,
evict and reuse, and to put two transfers of one pipe on the list behind another
pipe's. Deadlock is checked: the controller can always advance around the head.

| Run | Checks | Result |
|---|---|---|
| `async_ok` | TypeOK, QhOwnership, HwRingClosed, AsyncRefined, QhVisited | pass, 24,543 states |

**What the run shows.** Copying the head's horizontal pointer into the new QH before the
head is pointed at it is what keeps the controller's ring closed: a link that leaves
the new pointer unset breaks `HwRingClosed`, and one that points it back at the head
cuts the older QHs out of the controller's walk (`QhVisited`). The ring always equals the driver's list restricted to linked
QHs. The restart at the head in `ehci_startAsync` is what makes pooling right after the
unlink safe (`AsyncRefined`; dropping the restart lets the controller sit on a pooled
QH). Every QH that stays linked is eventually visited (`QhVisited`). The pool never
exceeds its cap and never holds a QH in use. No transfer is ever on a pooled or freed
QH, but no property is stated about it: the model reaps the pipe's transfers as one
filter of `hcd->transfers` and lets transfers join only a linked QH, so it would hold by
the model's form. The sweep of `ehci_transUpdate` that does the reap (line 839) is
checked in EhciQueue (`ReapSweepsFinished`). Submissions on a pipe
are assumed not to race its destruction: `pipe->hcdpriv` is cleared only at line 843,
so an enqueue between the unlink and that line would use the unlinked QH (hazard at
line 843; the USB stack outside `src/` is what serialises the two).

## 6. EhciIrq: interrupt handler and worker

**State and correspondence.** `usbsts` is the register's pending bits, and `status`
is `ehci->status`. `pending` is a wakeup of `irqCond` latched by the kernel. `wpc` is
the worker's position in its loop, and `reg` is its loaded copy of `ehci->status`
during a clear. `unreaped` says that a completion has not been followed by
`ehci_transUpdate`. `halted` records a
host system error.

**Actions.** `HcEvent(b)` is the controller raising UI, PCI or SEI. `IrqHandler` is
`ehci_irqHandler`, one step because it runs in interrupt context. It is taken only
when USBSTS holds a bit USBINTR enables (UI or SEI, line 992); a port change is
latched into `ehci->status` by the next such run; the kernel signals
when it returns 0 (`IrqSignals`). The worker's loop is split at every shared access:
`WorkerWait` (condWait), `WorkerTest` for each `if`, and `WorkerLoad`/`WorkerStore`
for each `ehci->status &= ~bit`. On the single-core target the handler preempts the
worker between any two of them. `WorkerReap` and `WorkerPort` are the handlers.

**Fairness.** Weak fairness of the handler (an asserted interrupt is taken) and of
the worker (the thread is scheduled). Deadlock is not checked: at rest the worker
waits in condWait and the controller raises nothing more.

**Bounds.** All three event kinds, 3 events in all: enough for an event of one kind to
arrive while the worker clears another.

| Run | Checks | Result |
|---|---|---|
| `irq_ok` | NoSleepOnWork | pass, 549 states |
| `irq_lost` | UiReaped | violation |

**What the runs show.** The worker never goes back to sleep with an unhandled bit and
no latched wakeup: the handler's return value and the latch make up for the condWait
that tests no predicate. The latch is the kernel's and is assumed, so the run checks
the driver's half: a handler whose return test is inverted (mutant
`IrqSignalsInverted`) leaves the worker asleep on latched work. But a bit can still be lost (**finding, line 695**): the
worker loads `{PCI}`, the handler ORs in UI and signals, the worker stores `{}`; the
wakeup then finds nothing, and the completed transfer is never reaped. The clears at
lines 681 and 688 have the same shape.

## 7. EhciQtd: cutting a transfer into qTDs

**State and correspondence.** The inputs `type`, `size`, `mps` (`maxPacketLen`),
`setupOff` and `dataOff` (the page offsets of `t->setup` and `t->buffer`) are chosen
in Init. `stage` is the stage `ehci_transferEnqueue` is building. `remaining` and `dt`
are `ehci_qtdAdd`'s locals, and `qtds` is the list built so far, with each qTD's
stage, page offset, byte count and toggle.

**Actions.** `QtdAlloc` is one iteration of the `ehci_qtdAdd` do-while:
`ehci_qtdAlloc` computes the byte count with `QtdBytes` (the first page from the
offset, then `Fill`, RECURSIVE over buffers 1..4 with the fifth-page truncation),
`remaining` drops by it, `dt` flips. `QtdAllocFail` is `ehci_qtdAlloc` returning NULL:
`-ENOMEM` and `ehci_qtdsPut` of everything built. `StageEnd` ends the loop and starts
the next stage (`StageAfter`), or links the ring and returns.

**Bounds.** The page size (4096) and five buffers are the real ones. The sizes are 0, 8,
16384, 20480, 20481, 40960 and 65535, which give one, two and four qTDs and the largest
control transfer. The offsets are 0, 100 and 4095 (the last byte of a page), and the
packet sizes are 64 and 512. The types are control, bulk and interrupt; interrupt
takes the same data-only path as bulk (line 772). Deadlock is not checked: a built transfer is a final state.

| Run | Checks | Result |
|---|---|---|
| `qtd_ok` | QtdsCoverBuffer, QtdFits, WholePackets, EnqueueReturns | pass, 2,898 states |

**What the run shows.** Every stage's qTDs cover its buffer once, in order. No qTD needs
a sixth page or overflows the 15-bit byte field. Only the last qTD of a stage can be
short, and every loop ends.

**The data toggle.** `ehci_qtdAdd` flips `dt` once per qTD, and control QHs take the
toggle from the qTD (`QH_DT`, line 340). The toggle the device expects flips once per
packet. A control data stage of 40960 bytes with 64-byte packets starts with a qTD of
320 packets, an even number. Its second qTD should then start with DATA1, but it gets
DATA0. Spec 4.2 prescribes the per-qTD flip, and USB control data stages are rarely
larger than one qTD. So no run claims a requirement here; the hazard list records it.

## 8. Not modelled, and why

- `ehci_init`/`ehci_free`: sequential register programming with busy-waits on hardware
  bits. Only their result (empty schedules, dummy head, INVALID slots) enters as the
  Init of the modules. Their error paths have defects, recorded as hazards rather than
  runs because they involve no interleaving: `ehci_free` never destroys
  `periodicLock` (line 862); the dummy QH is never freed on a later failure (line
  924); a failed `interrupt()` returns without any cleanup (line 961); and a failed
  `beginthread` frees `ehci` while the interrupt handler stays attached, with
  `hcd->priv` (line 890) dangling (line 964).
- The roothub emulator and PHY (`ehci_roothubReq`, `ehci_getHubStatus`, `phy_init`) are
  not in `src/`.
- Debug dumps and logging (`ehci_qtdDump`, `ehci_printIrq`) have no behaviour to check.
- `ehci_memDmb` is assumed to give sequential consistency between the CPU and the
  controller. Every modelled step is seen by the controller in program order.
- The info-word encoding of `ehci_qhConf` and the S-mask: fixed bit layouts with no
  interaction, and the spec states no requirement on them beyond the period.
- The controller's walk inside one frame of the periodic schedule is not modelled. It
  could only show what the TODO at line 511 already says: `ehci_qhUnlinkPeriodic` does
  not wait for the frame to end, so the controller may still be on a QH that has been
  pooled. This is recorded as a hazard, not a run.
- The QH info-word refresh in `ehci_transferEnqueue` (lines 755–759) writes the device
  address and packet size into a linked QH. Whether a pipe's address can change while
  transfers are queued on it is decided by the USB stack outside `src/`, so the QH
  configuration component stays partly modelled.
- The kernel's `condWait`/interrupt signalling is assumed to keep one pending wakeup
  (`pending`); it is kernel code outside this repository.
