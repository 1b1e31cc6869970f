-------------------------- MODULE DeviceRefinement --------------------------
(***************************************************************************)
(* The block device implements the disk with a write-back cache: the disk  *)
(* is what a read returns, the durable contents are what a fresh machine   *)
(* recovers from the channel.                                              *)
(***************************************************************************)
EXTENDS BlockDevice

Disk == INSTANCE AbstractDisk WITH disk <- Content, durable <- RecoveredContent

\* Whatever connections, retries and failures do, the device changes as the disk
\* does: only by writing a request's bytes to its own range, by making the whole
\* contents durable at once, or by falling back to the durable contents.
ImplementsDisk == Disk!Spec
=============================================================================
