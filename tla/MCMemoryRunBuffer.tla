------------------------- MODULE MCMemoryRunBuffer -------------------------
(* Model checking of MemoryRunBuffer alone.                                *)
EXTENDS MemoryRunBuffer
=============================================================================
