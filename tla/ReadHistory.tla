---------------------------- MODULE ReadHistory -----------------------------
(***************************************************************************)
(* The block device with a history variable that records, for the request  *)
(* each connection is serving, every value each unit has had since the     *)
(* request arrived.                                                        *)
(***************************************************************************)
EXTENDS BlockDevice

VARIABLE window

NoWindow == [u \in Units |-> {}]

HistoryInit == Init /\ window = [c \in Clients |-> NoWindow]

HistoryNext ==
  /\ Next
  /\ window' = [c \in Clients |->
                  IF pc'[c] = "idle"
                  THEN NoWindow
                  ELSE [u \in Units |-> window[c][u] \cup {Content[u], Content'[u]}]]

HistorySpec == HistoryInit /\ [][HistoryNext]_<<vars, window>>

\* read_at takes no lock across its objects, checks for a dirty row, the manifest
\* entry and the cache one after the other, and may return bytes it fetched long
\* ago; each unit it returns still had that value at some moment of the request.
ReadsCurrent ==
  \A c \in Clients : pc[c] = "reply" =>
    LET out == loc[c].out
    IN  \A i \in DOMAIN out : out[i] \in window[c][loc[c].cursor - Len(out) + i - 1]
=============================================================================
