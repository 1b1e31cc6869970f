----------------------------- MODULE ScanWindow -----------------------------
(***************************************************************************)
(* The block device with a history variable that counts the messages its   *)
(* flushes have set out to send since the last superblock arrived.         *)
(***************************************************************************)
EXTENDS BlockDevice

\* A flush sends its objects and its manifest before its superblock; one that fails, or
\* dies, leaves some of them on the channel, and no superblock after them.
VARIABLE exposed

Arrives == Superblocks(channel') # Superblocks(channel)

\* flush has listed its rows, and begins to send.
Starts(c) == pc[c] = "flush_lock" /\ pc'[c] = "flush_object"

ScanInit == Init /\ exposed = 0

Counts ==
  \/ /\ Arrives
     /\ exposed' = 0
  \/ \E c \in Clients :
       /\ ~Arrives /\ Starts(c)
       /\ exposed' = exposed + Cardinality(DirtyIds(loc[c].snapshot)) + 1
  \/ /\ ~Arrives /\ \A c \in Clients : ~Starts(c)
     /\ exposed' = exposed

ScanNext == Next /\ Counts

ScanSpec == ScanInit /\ [][ScanNext]_<<vars, exposed>>

\* The flushes that ended without a superblock, and the one under way, are short enough
\* together for the window of recover_superblock_text, 200 messages in the code.
ShortFlushes == exposed < scan_limit

\* Then recover_superblock_text reaches the superblock in force: a flush that fails with
\* some of its objects on the channel, and the ones after it, push it out of the window
\* only by what they set out to send.
WindowSuffices == ShortFlushes => ScanReaches
=============================================================================
