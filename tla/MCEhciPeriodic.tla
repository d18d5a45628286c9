--------------------------- MODULE MCEhciPeriodic ---------------------------
(* Three QH records, a frame list of four slots, and endpoints of          *)
(* bInterval 1, 5 and 6: periods 1, 2 and 4 at high speed, 1, 4 and 4 at  *)
(* full speed, so every head/inside case of ehci_qhLinkPeriodic and every  *)
(* slot of ehci_qhUnlinkPeriodic is reached.                               *)
EXTENDS EhciPeriodic, TLC

CONSTANTS p1, p2, p3

MCQHs == {p1, p2, p3}
MCIntervals == {1, 5, 6}
MCSymmetry == Permutations(MCQHs)
=============================================================================
