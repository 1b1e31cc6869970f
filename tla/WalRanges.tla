----------------------------- MODULE WalRanges ------------------------------
(***************************************************************************)
(* The wal_entries table of crates/tgdrive-core/src/cache.rs, for one      *)
(* object and one generation: mark_dirty merges the range just written     *)
(* into the rows it overlaps or touches.                                   *)
(***************************************************************************)
EXTENDS FiniteSetsExt

CONSTANT object_size

ASSUME WalAssumption == object_size \in Nat \ {0}

VARIABLES
  wal_entries,   \* the rows: a set of [offset, len]
  marked         \* history: the units mark_dirty has been told about

vars == <<wal_entries, marked>>

WalRow == [offset : 0 .. object_size - 1, len : 1 .. object_size]

End(r) == r.offset + r.len

UnitsOf(r) == r.offset .. End(r) - 1

\* Mutant: rows that are adjacent to the range are left alone.
Overlapping(rows, start, end) == {r \in rows : r.offset < end /\ End(r) > start}

\* The WHERE clause of mark_dirty's SELECT and DELETE: overlapping or adjacent.
Touching(rows, start, end) == {r \in rows : r.offset <= end /\ End(r) >= start}

\* Mutant: the end of the merged range is stored as its length.
MergedToEnd(rows, offset, len) ==
  LET existing == Touching(rows, offset, offset + len)
  IN  [offset |-> Min({offset} \cup {r.offset : r \in existing}),
       len |-> Max({offset + len} \cup {End(r) : r \in existing})]

\* Mutant: the rows found are deleted without being merged.
NotMerged(rows, offset, len) == [offset |-> offset, len |-> len]

\* The range that replaces the rows offset .. offset + len touches.
Merged(rows, offset, len) ==
  LET existing == Touching(rows, offset, offset + len)
      start == Min({offset} \cup {r.offset : r \in existing})
      end   == Max({offset + len} \cup {End(r) : r \in existing})
  IN  [offset |-> start, len |-> end - start]

\* DELETE what the merged range touches, then INSERT it.
Coalesce(rows, offset, len) ==
  LET merged == Merged(rows, offset, len)
  IN  (rows \ Touching(rows, merged.offset, End(merged))) \cup {merged}

Init == wal_entries = {} /\ marked = {}

\* write_dirty_object passes a non-empty range within the object.
MarkDirty(offset, len) ==
  /\ offset + len <= object_size
  /\ wal_entries' = Coalesce(wal_entries, offset, len)
  /\ marked' = marked \cup offset .. offset + len - 1

\* clear_dirty_and_wal.
ClearDirtyAndWal == wal_entries' = {} /\ marked' = {}

Next ==
  \/ \E offset \in 0 .. object_size - 1, len \in 1 .. object_size : MarkDirty(offset, len)
  \/ ClearDirtyAndWal

Spec == Init /\ [][Next]_vars

\* The rows stay ranges of the object.
WalTypeOK ==
  /\ wal_entries \subseteq WalRow
  /\ \A r \in wal_entries : End(r) <= object_size
  /\ marked \subseteq 0 .. object_size - 1

\* However the ranges arrive, mark_dirty leaves rows that neither overlap nor touch,
\* so no unit is listed twice and the table cannot grow beyond one row per gap.
WalSeparated ==
  \A r, s \in wal_entries : r # s => End(r) < s.offset \/ End(s) < r.offset

\* The rows list exactly the units written since the last flush: merging loses none
\* and adds none.
WalCovers == UNION {UnitsOf(r) : r \in wal_entries} = marked
=============================================================================
