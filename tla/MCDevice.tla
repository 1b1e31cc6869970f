------------------------------ MODULE MCDevice ------------------------------
(* Small instances of the block device for TLC. *)
EXTENDS DeviceRefinement, TLC

Partial(offset, v) == [offset |-> offset, bytes |-> <<v>>]

\* A read of everything, one that ends on an object boundary (read-ahead), and reads of
\* the first and the last of three objects.
MCReads == {[offset |-> 0, len |-> 2], [offset |-> 1, len |-> 2]}
MCReadAhead == {[offset |-> 0, len |-> 2]}
MCReadEnds == {[offset |-> 0, len |-> 1], [offset |-> 2, len |-> 1]}

\* A whole object, part of one, part of the last one, a range over two objects.
MCWrites == {[offset |-> 0, bytes |-> <<1, 2>>], [offset |-> 1, bytes |-> <<2, 1>>],
             Partial(0, 2), Partial(2, 1)}
MCWholeObjects == {[offset |-> 0, bytes |-> <<1, 1>>], Partial(0, 2), Partial(2, 1)}
MCThreeObjects == {[offset |-> 0, bytes |-> <<2, 1>>], Partial(2, 1)}
MCParts == {Partial(0, 2), Partial(2, 1)}
MCTwoSectors == {Partial(0, 1), Partial(1, 2)}

\* Connections with the same roles are interchangeable.
MCSymmetry == Permutations(Clients)
=============================================================================
