----------------------------- MODULE MCEhciIrq -----------------------------
(* Completions, port changes and a host system error, three events in all: *)
(* enough for one event to arrive while the worker clears another.         *)
EXTENDS EhciIrq

MCEvents == {UI, PCI, SEI}
=============================================================================
