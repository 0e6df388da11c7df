-------------------------- MODULE MCSymbolWorker ---------------------------
(* Four submissions to a queue of two: one of a simulation that may be
   cancelled, one whose handler raises.                                    *)
EXTENDS SymbolWorker

CONSTANTS c1, c2, c3, c4
=============================================================================
