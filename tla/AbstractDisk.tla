---------------------------- MODULE AbstractDisk ----------------------------
(***************************************************************************)
(* What README.md promises of the device: a disk with a write-back cache.  *)
(* Writes change the disk at once, a flush makes the disk of some moment   *)
(* durable remotely, and losing the local state falls back to what is      *)
(* durable.                                                                *)
(***************************************************************************)
EXTENDS Integers, Sequences

CONSTANTS
  Units,           \* addresses
  Value,
  WriteRequests    \* set of [offset, bytes]

VARIABLES disk, durable

Zeroes == [u \in Units |-> 0]

Init == disk = Zeroes /\ durable = Zeroes

\* Part of a write request reaches the disk: some consecutive units of its range.
WritePart(w, from, to) ==
  disk' = [u \in Units |-> IF w.offset + from <= u /\ u < w.offset + to
                           THEN w.bytes[u - w.offset + 1] ELSE disk[u]]

Write ==
  /\ \E w \in WriteRequests : \E from, to \in 0 .. Len(w.bytes) :
       from < to /\ WritePart(w, from, to)
  /\ UNCHANGED durable

\* The flush commits.
Sync == durable' = disk /\ UNCHANGED disk

\* The machine is lost and another one takes over from the channel.
LoseLocal == disk' = durable /\ UNCHANGED durable

Next == Write \/ Sync \/ LoseLocal

Spec == Init /\ [][Next]_<<disk, durable>>
=============================================================================
