------------------------------ MODULE EhciIrq ------------------------------
(***************************************************************************)
(* The interrupt path of the EHCI driver (src/usb/ehci/ehci.c): the        *)
(* interrupt handler ehci_irqHandler latches USBSTS into ehci->status and  *)
(* the kernel signals irqCond; the worker ehci_irqThread wakes, clears the *)
(* bits it handles with a plain `ehci->status &= ~bit` and runs their      *)
(* handlers.  The clear is a load and a store; the handler may run between *)
(* them (it preempts the worker on the single-core target).  The handler's *)
(* polling loop runs in interrupt context and is one step: a bit the       *)
(* controller raises during the loop is caught by the loop's re-read.      *)
(* The kernel keeps one pending wakeup for a condition signalled with no   *)
(* waiter (pending), which condWait consumes.                              *)
(***************************************************************************)
EXTENDS Naturals, FiniteSets

CONSTANTS
    Events,     \* interrupt sources the controller raises: subset of Bits
    MaxEvents   \* bound on the controller's events in a behaviour

UI == "UI"     \* USBSTS_UI | USBSTS_UEI: a qTD completed or failed
PCI == "PCI"   \* USBSTS_PCI: a port changed state
SEI == "SEI"   \* USBSTS_SEI: host system error, the controller halts
Bits == {UI, PCI, SEI}

(* ehci_init enables only these in USBINTR (line 992): a port change alone *)
(* raises no interrupt and is latched by the next handler run.             *)
Enabled == {UI, SEI}

ASSUME Events \subseteq Bits /\ MaxEvents \in Nat

VARIABLES
    usbsts,      \* interrupt bits pending in the USBSTS register
    status,      \* ehci->status
    pending,     \* a wakeup of irqCond latched by the kernel
    wpc,         \* where the worker is in its loop
    reg,         \* the worker's loaded copy of ehci->status during a clear
    unreaped,    \* a completion no ehci_transUpdate has run after
    events,      \* events raised so far
    halted       \* a host system error has halted the controller

vars == <<usbsts, status, pending, wpc, reg, unreaped, events, halted>>

----------------------------------------------------------------------------
Init ==
    /\ usbsts = {} /\ status = {} /\ pending = FALSE
    /\ wpc = "wait" /\ reg = {}
    /\ unreaped = FALSE /\ events = 0 /\ halted = FALSE

(* The controller finishes a qTD with IOC, a port changes, or a host      *)
(* system error halts the controller (no event after it).                  *)
HcEvent(b) ==
    /\ events < MaxEvents /\ ~halted
    /\ usbsts' = usbsts \cup {b}
    /\ events' = events + 1
    /\ halted' = (b = SEI)
    /\ unreaped' = (unreaped \/ b = UI)
    /\ UNCHANGED <<status, pending, wpc, reg>>

(* ehci_irqHandler: acknowledge and latch USBSTS until it reads stable;    *)
(* the kernel signals irqCond when the handler returns 0, that is when     *)
(* ehci->status holds an interrupt bit.  Mutant: the return value's test  *)
(* inverted (-!! for -!), so the handler asks for no signal when it has    *)
(* latched work.                                                           *)
IrqSignalsInverted(st) == st = {}

IrqSignals(st) == st # {}

IrqHandler ==
    /\ usbsts \cap Enabled # {}
    /\ status' = status \cup usbsts
    /\ usbsts' = {}
    /\ pending' = (pending \/ IrqSignals(status \cup usbsts))
    /\ UNCHANGED <<wpc, reg, unreaped, events, halted>>

(* ehci_irqThread, the condWait at the top of the loop.                    *)
WorkerWait ==
    /\ wpc = "wait" /\ pending
    /\ pending' = FALSE
    /\ wpc' = "sei"
    /\ UNCHANGED <<usbsts, status, reg, unreaped, events, halted>>

(* `if (ehci->status & bit)`: go on to clear it, or to the next test.      *)
WorkerTest(at, b, clear, skip) ==
    /\ wpc = at
    /\ wpc' = IF b \in status THEN clear ELSE skip
    /\ UNCHANGED <<usbsts, status, pending, reg, unreaped, events, halted>>

(* `ehci->status &= ~bit`, first the load, then the store.                 *)
WorkerLoad(at, then) ==
    /\ wpc = at
    /\ reg' = status
    /\ wpc' = then
    /\ UNCHANGED <<usbsts, status, pending, unreaped, events, halted>>

WorkerStore(at, b, then) ==
    /\ wpc = at
    /\ status' = reg \ {b}
    /\ wpc' = then
    /\ UNCHANGED <<usbsts, pending, reg, unreaped, events, halted>>

(* ehci_transUpdate under the transfer lock: every completion so far is    *)
(* reaped.                                                                 *)
WorkerReap ==
    /\ wpc = "reap"
    /\ unreaped' = FALSE
    /\ wpc' = "pci"
    /\ UNCHANGED <<usbsts, status, pending, reg, events, halted>>

(* ehci_portStatusChanged: the hub's status transfer is completed.         *)
WorkerPort ==
    /\ wpc = "port"
    /\ wpc' = "wait"
    /\ UNCHANGED <<usbsts, status, pending, reg, unreaped, events, halted>>

Worker ==
    \/ WorkerWait
    \/ WorkerTest("sei", SEI, "sei_ld", "ui")
    \/ WorkerLoad("sei_ld", "sei_st")
    \/ WorkerStore("sei_st", SEI, "wait")
    \/ WorkerTest("ui", UI, "ui_ld", "pci")
    \/ WorkerLoad("ui_ld", "ui_st")
    \/ WorkerStore("ui_st", UI, "reap")
    \/ WorkerReap
    \/ WorkerTest("pci", PCI, "pci_ld", "wait")
    \/ WorkerLoad("pci_ld", "pci_st")
    \/ WorkerStore("pci_st", PCI, "port")
    \/ WorkerPort

Next == (\E b \in Events : HcEvent(b)) \/ IrqHandler \/ Worker

(* An asserted interrupt is taken, and the worker thread is scheduled.     *)
Spec == Init /\ [][Next]_vars /\ WF_vars(IrqHandler) /\ WF_vars(Worker)

----------------------------------------------------------------------------
(* The worker never goes back to condWait while ehci->status holds a bit  *)
(* it has not handled and no wakeup is latched: the handler's return value *)
(* and the kernel's latch make up for a condWait that tests no predicate   *)
(* (line 671).  A host system error, after which the worker gives up       *)
(* (`continue` at line 685), is the exception.                             *)
NoSleepOnWork == (wpc = "wait" /\ ~pending) => (status = {} \/ halted)

(* Every completion interrupt leads to an ehci_transUpdate that sees it,   *)
(* although the worker's clear of ehci->status may erase a UI bit the      *)
(* handler latched between the load and the store; only a host system     *)
(* error, after which the driver does not recover (TODO at line 684),      *)
(* excuses it.                                                             *)
UiReaped == unreaped ~> (~unreaped \/ halted)
=============================================================================
