---------------------------- MODULE MCScanWindow -----------------------------
(* The small instances of MCDevice with the count of what the flushes send, for TLC. *)
EXTENDS MCDevice, ScanWindow
=============================================================================
