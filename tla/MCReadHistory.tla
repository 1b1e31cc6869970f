--------------------------- MODULE MCReadHistory ----------------------------
(* A small instance of the block device with its read history, for TLC. *)
EXTENDS ReadHistory

\* A read within one object, and one that ends on an object boundary and goes on
\* to read ahead.
MCReadOne == {[offset |-> 0, len |-> 2], [offset |-> 2, len |-> 1]}

MCWriteTwo == {[offset |-> 0, bytes |-> <<1, 1>>], [offset |-> 1, bytes |-> <<2, 2>>]}
=============================================================================
