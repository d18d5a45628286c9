------------------------------ MODULE MCEhciQtd ------------------------------
(* Transfer sizes at the edges of one qTD (four and five pages), two and   *)
(* four qTDs, and the largest control transfer; buffers at the start, in   *)
(* the middle and at the last byte of a page; full- and high-speed bulk    *)
(* packet sizes.                                                           *)
EXTENDS EhciQtd

MCSizes == {0, 8, 16384, 20480, 20481, 40960, 65535}
MCOffsets == {0, 100, 4095}
MCMaxPackets == {64, 512}
=============================================================================
