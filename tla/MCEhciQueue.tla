---------------------------- MODULE MCEhciQueue ----------------------------
(* EhciQueue instantiated for TLC: two transfer objects, one of one qTD    *)
(* and one of two, sharing three qTD records and a pool of cap 2.          *)
EXTENDS EhciQueue, TLC

CONSTANTS t1, t2, t3, q1, q2, q3, q4

MCTrans == {t1, t2}
MCQtds == {q1, q2, q3}
MCQtdCount == (t1 :> 1) @@ (t2 :> 2)

(* Three transfers queued together on the QH, one qTD each but the second. *)
MCTrans3 == {t1, t2, t3}
MCQtds4 == {q1, q2, q3, q4}
MCQtdCount3 == (t1 :> 1) @@ (t2 :> 2) @@ (t3 :> 1)

(* Two transfers of two qTDs each over three records: the second one to   *)
(* build while the first holds its ring runs out of memory (ENOMEM).      *)
MCQtdCount22 == (t1 :> 2) @@ (t2 :> 2)
=============================================================================
