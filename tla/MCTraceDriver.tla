--------------------------- MODULE MCTraceDriver ---------------------------
(* Up to four blocks on a heap of ten units; the allocator may return     *)
(* a misaligned address and one beyond the heap.                            *)
EXTENDS TraceDriver
=============================================================================
