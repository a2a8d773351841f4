--------------------------- MODULE MCBoundedBuffer --------------------------
(* BoundedBuffer with the sizes of the code: 20 values through 5 slots, so *)
(* that the ring wraps around four times.                                  *)
EXTENDS BoundedBuffer
=============================================================================
