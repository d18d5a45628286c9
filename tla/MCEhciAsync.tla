---------------------------- MODULE MCEhciAsync ----------------------------
(* Three control/bulk QHs behind the dummy head, a pool of one, and up to  *)
(* six pipe openings and destructions: enough for two QHs on the ring at   *)
(* once, a pooled QH reused, and one freed at the pool's cap.              *)
EXTENDS EhciAsync

CONSTANTS a1, a2, a3

MCQHs == {a1, a2, a3}
=============================================================================
