--------------------------- MODULE AsyncSchedule ---------------------------
(***************************************************************************)
(* What the asynchronous schedule promises the rest of the EHCI driver,    *)
(* stated without rings or pointers: a set of QHs is in the schedule, and  *)
(* the controller is at the dummy head or at a QH of that set.  Adding a   *)
(* QH (ehci_qhLinkAsync) makes it visitable; removing one                  *)
(* (ehci_qhUnlinkAsync) also takes the controller off it, so the QH may be *)
(* pooled and reused at once.  EhciAsync is shown to implement this.       *)
(***************************************************************************)
CONSTANTS QHs, Dummy

VARIABLES sched, at

Init == sched = {} /\ at = Dummy

Add(q) == q \notin sched /\ sched' = sched \cup {q} /\ UNCHANGED at

Remove(q) ==
    /\ q \in sched
    /\ sched' = sched \ {q}
    /\ at' \in {Dummy} \cup ({at} \ {q})

Visit == at' \in sched \cup {Dummy} /\ UNCHANGED sched

Next == Visit \/ \E q \in QHs : Add(q) \/ Remove(q)

Spec == Init /\ [][Next]_<<sched, at>>
=============================================================================
