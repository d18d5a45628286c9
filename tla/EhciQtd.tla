------------------------------- MODULE EhciQtd -------------------------------
(***************************************************************************)
(* How ehci_transferEnqueue (src/usb/ehci/ehci.c) cuts a transfer into     *)
(* qTDs: a control transfer gets a setup stage, a data stage when it has   *)
(* data, and a status stage; a bulk or interrupt transfer only the data    *)
(* stage.  Each stage is one ehci_qtdAdd, a do-while loop of ehci_qtdAlloc *)
(* calls: a qTD covers the rest of the buffer's first page and up to four  *)
(* more pages, and when the data goes on past it, it ends on a whole       *)
(* packet.  Each qTD takes the next data toggle.  Buffers are positions    *)
(* within a page (QTD_OFFSET); lengths are byte counts.                    *)
(***************************************************************************)
EXTENDS Naturals, Sequences, SequencesExt

CONSTANTS
    PageSize,        \* EHCI_PAGE_SIZE
    NBufs,           \* EHCI_QH_NBUFS, buffer pointers of a qTD
    SetupSize,       \* sizeof(usb_setup_packet_t)
    Types,           \* transfer types enumerated: subset of {"control", "bulk", "interrupt"}
    Sizes,           \* t->size values enumerated
    Offsets,         \* page offsets of t->buffer and t->setup enumerated
    MaxPackets,      \* pipe->maxPacketLen values enumerated
    MaxStageQtds     \* bound on the qTDs of one stage

ASSUME /\ PageSize \in Nat \ {0} /\ NBufs \in Nat \ {0, 1}
       /\ Offsets \subseteq 0 .. PageSize - 1
       /\ MaxPackets \subseteq 1 .. PageSize

VARIABLES
    type, mps,       \* t->type and pipe->maxPacketLen
    size,            \* t->size
    setupOff,        \* page offset of t->setup
    dataOff,         \* page offset of t->buffer
    stage,           \* "setup", "data", "status", "done" (0 returned), "failed"
    remaining,       \* ehci_qtdAdd's remaining
    dt,              \* ehci_qtdAdd's dt
    qtds             \* the qTDs built: [stage, off, bytes, dt]

vars == <<type, mps, size, setupOff, dataOff, stage, remaining, dt, qtds>>

----------------------------------------------------------------------------
min(a, b) == IF a < b THEN a ELSE b

(* The pages of ehci_qtdAlloc after the first: buffer i takes a page, or   *)
(* the rest; the last one ends the qTD on a whole packet when the data     *)
(* goes on past it.  The result is the qTD's byte count.                   *)
RECURSIVE FillNoTrunc(_, _, _, _)
FillNoTrunc(i, bytes, sz, m) ==
    IF i >= NBufs \/ bytes = sz THEN bytes
    ELSE FillNoTrunc(i + 1, bytes + min(sz - bytes, PageSize), sz, m)

RECURSIVE FillOneMore(_, _, _, _)
FillOneMore(i, bytes, sz, m) ==
    IF i > NBufs \/ bytes = sz THEN bytes
    ELSE LET offs == min(sz - bytes, PageSize)
             cut == IF i = NBufs /\ bytes + offs < sz
                    THEN ((bytes + offs) \div m) * m - bytes
                    ELSE offs
         IN  FillOneMore(i + 1, bytes + cut, sz, m)

RECURSIVE Fill(_, _, _, _)
Fill(i, bytes, sz, m) ==
    IF i >= NBufs \/ bytes = sz THEN bytes
    ELSE LET offs == min(sz - bytes, PageSize)
             cut == IF i = NBufs - 1 /\ bytes + offs < sz
                    THEN ((bytes + offs) \div m) * m - bytes
                    ELSE offs
         IN  Fill(i + 1, bytes + cut, sz, m)

(* ehci_qtdAlloc's byte count for data at page offset off, *size = sz.     *)
QtdBytes(off, sz, m) == Fill(1, min(PageSize - off, sz), sz, m)

(* ehci_transferEnqueue: the stage after st, and its ehci_qtdAdd inputs.   *)
StageAfter(st) ==
    CASE st = "setup" -> IF size > 0 THEN "data" ELSE "status"
      [] st = "data"  -> IF type = "control" THEN "status" ELSE "done"
      [] st = "status" -> "done"

StageSize(st) == CASE st = "setup" -> SetupSize [] st = "data" -> size [] st = "status" -> 0
StageOff(st) == CASE st = "setup" -> setupOff [] st = "data" -> dataOff [] st = "status" -> 0
StageDt(st) == IF st = "setup" THEN 0 ELSE 1

(* Where the qTD starts: buf + size - remaining.                           *)
StartOffStuck(st) == StageOff(st)

StartOff(st) == (StageOff(st) + StageSize(st) - remaining) % PageSize

(* The stages ehci_transferEnqueue runs for the transfer.                   *)
StagesRun ==
    IF type = "control"
    THEN {"setup", "status"} \cup (IF size > 0 THEN {"data"} ELSE {})
    ELSE {"data"}

StageQtds(st) == SelectSeq(qtds, LAMBDA q : q.stage = st)

----------------------------------------------------------------------------
(* A transfer submitted on a pipe, and the first stage of its enqueue.     *)
Init ==
    /\ type \in Types /\ mps \in MaxPackets /\ size \in Sizes
    /\ setupOff \in Offsets /\ dataOff \in Offsets
    /\ stage = IF type = "control" THEN "setup" ELSE "data"
    /\ remaining = IF type = "control" THEN SetupSize ELSE size
    /\ dt = StageDt(stage)
    /\ qtds = <<>>

(* One ehci_qtdAlloc of the ehci_qtdAdd loop (a qTD from the pool or       *)
(* malloc), LIST_ADD, dt = 1 - dt.  The status stage has no data.          *)
QtdAllocKeep ==
    /\ stage \in {"setup", "data", "status"}
    /\ Len(StageQtds(stage)) = 0 \/ remaining > 0
    /\ Len(StageQtds(stage)) < MaxStageQtds
    /\ LET off == StartOff(stage)
           bytes == IF stage = "status" THEN 0 ELSE QtdBytes(off, remaining, mps)
       IN  qtds' = Append(qtds, [stage |-> stage, off |-> off, bytes |-> bytes, dt |-> dt])
    /\ dt' = 1 - dt
    /\ UNCHANGED <<type, mps, size, setupOff, dataOff, stage, remaining>>

QtdAlloc ==
    /\ stage \in {"setup", "data", "status"}
    /\ Len(StageQtds(stage)) = 0 \/ remaining > 0
    /\ Len(StageQtds(stage)) < MaxStageQtds
    /\ LET off == StartOff(stage)
           bytes == IF stage = "status" THEN 0 ELSE QtdBytes(off, remaining, mps)
       IN  /\ qtds' = Append(qtds, [stage |-> stage, off |-> off, bytes |-> bytes, dt |-> dt])
           /\ remaining' = remaining - bytes
    /\ dt' = 1 - dt
    /\ UNCHANGED <<type, mps, size, setupOff, dataOff, stage>>

(* ehci_qtdAlloc finds no pooled qTD and malloc or usb_alloc fails:        *)
(* ehci_qtdAdd returns -ENOMEM, and ehci_qtdsPut gives back every qTD.     *)
QtdAllocFail ==
    /\ stage \in {"setup", "data", "status"}
    /\ Len(StageQtds(stage)) = 0 \/ remaining > 0
    /\ stage' = "failed"
    /\ qtds' = <<>>
    /\ UNCHANGED <<type, mps, size, setupOff, dataOff, remaining, dt>>

(* The do-while ends; ehci_transferEnqueue starts the next stage, or links *)
(* the qTDs and queues the transfer.                                       *)
StageEnd ==
    /\ stage \in {"setup", "data", "status"}
    /\ Len(StageQtds(stage)) > 0 /\ remaining = 0
    /\ stage' = StageAfter(stage)
    /\ remaining' = IF stage' = "done" THEN 0 ELSE StageSize(stage')
    /\ dt' = IF stage' = "done" THEN dt ELSE StageDt(stage')
    /\ UNCHANGED <<type, mps, size, setupOff, dataOff, qtds>>

Next == QtdAlloc \/ QtdAllocFail \/ StageEnd

(* ehci_transferEnqueue runs on its caller's thread to its return.         *)
Spec == Init /\ [][Next]_vars /\ WF_vars(QtdAlloc \/ StageEnd)

----------------------------------------------------------------------------
Stages == {"setup", "data", "status"}

(* The qTDs of each stage cover its buffer exactly once and in order: each *)
(* starts where the last one ended and their lengths add up to the size.   *)
QtdsCoverBuffer ==
    stage = "done" =>
        \A st \in StagesRun :
            LET s == StageQtds(st) IN
            /\ s # <<>>
            /\ FoldLeft(LAMBDA acc, q : acc + q.bytes, 0, s) = StageSize(st)
            /\ \A k \in 1 .. Len(s) - 1 :
                   s[k + 1].off = (s[k].off + s[k].bytes) % PageSize

(* A qTD never needs a sixth page and its length fits the 15-bit Total     *)
(* Bytes field of the token, where it is or-ed in next to the toggle bit.  *)
QtdFits ==
    \A k \in 1 .. Len(qtds) :
        /\ qtds[k].off + qtds[k].bytes <= NBufs * PageSize
        /\ qtds[k].bytes < 2^15

(* Only the last qTD of a stage may end in a short packet (the comment at  *)
(* line 239): a short packet in the middle would end the transfer early.  *)
WholePackets ==
    \A st \in Stages :
        LET s == StageQtds(st) IN
        \A k \in 1 .. Len(s) - 1 : s[k].bytes % mps = 0

(* Every enqueue returns: the ehci_qtdAdd loops end.                       *)
EnqueueReturns == <>(stage \in {"done", "failed"})
=============================================================================
