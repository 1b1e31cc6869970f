-------------------------- MODULE WalRangesProofs ---------------------------
(* Merging ranges in mark_dirty, for objects of any size. *)
EXTENDS WalRanges, ExtremaProofs

\* The facts that together are preserved by every mark_dirty.
WalInv == WalTypeOK /\ IsFiniteSet(wal_entries) /\ WalSeparated /\ WalCovers

\* The merged range starts and ends at the new range or at a row it touches, and
\* reaches over all of them (SELECT MIN(offset), MAX(offset + len), then min and max).
LEMMA MergedEnds ==
  ASSUME NEW rows \in SUBSET WalRow, IsFiniteSet(rows),
         NEW offset \in Nat, NEW len \in Nat \ {0}
  PROVE  LET m == Merged(rows, offset, len)
             E == Touching(rows, offset, offset + len)
         IN  /\ m = [offset |-> m.offset, len |-> m.len]
             /\ m.offset \in Nat /\ m.len \in Nat \ {0} /\ End(m) \in Nat
             /\ m.offset = offset \/ \E t \in E : t.offset = m.offset
             /\ End(m) = offset + len \/ \E t \in E : End(t) = End(m)
             /\ m.offset <= offset /\ offset + len <= End(m)
             /\ \A t \in E : m.offset <= t.offset /\ End(t) <= End(m)
<1> DEFINE m == Merged(rows, offset, len)
           E == Touching(rows, offset, offset + len)
           starts == {offset} \cup {r.offset : r \in E}
           ends == {offset + len} \cup {End(r) : r \in E}
<1>1. IsFiniteSet(E) /\ E \subseteq WalRow
  BY FS_Subset DEF Touching
<1>2. \A r \in E : r.offset \in Nat /\ r.len \in Nat /\ End(r) \in Nat
  BY <1>1, WalAssumption DEF WalRow, End
<1>3. IsFiniteSet({r.offset : r \in E}) /\ IsFiniteSet({End(r) : r \in E})
  <2> DEFINE f == [r \in E |-> r.offset]
             g == [r \in E |-> End(r)]
  <2>1. f \in [E -> Nat] /\ g \in [E -> Nat]
    BY <1>2
  <2>2. {f[r] : r \in E} = {r.offset : r \in E} /\ {g[r] : r \in E} = {End(r) : r \in E}
    OBVIOUS
  <2> HIDE DEF f, g
  <2>3. IsFiniteSet({f[r] : r \in E}) /\ IsFiniteSet({g[r] : r \in E})
    BY <1>1, <2>1, FiniteImage
  <2> QED BY <2>2, <2>3
<1>4. IsFiniteSet(starts) /\ starts \in SUBSET Int /\ starts # {}
  <2>1. IsFiniteSet(starts)
    BY <1>3, FS_AddElement
  <2> QED BY <2>1, <1>2
<1>5. IsFiniteSet(ends) /\ ends \in SUBSET Int /\ ends # {}
  <2>1. IsFiniteSet(ends)
    <3> DEFINE others == {End(r) : r \in E}
    <3>1. IsFiniteSet(others)
      BY <1>3
    <3> HIDE DEF others
    <3>2. IsFiniteSet(others \cup {offset + len})
      BY <3>1, FS_AddElement
    <3>3. ends = others \cup {offset + len}
      BY DEF others
    <3> QED BY <3>2, <3>3
  <2> QED BY <2>1, <1>2
<1>6. Min(starts) \in starts /\ \A y \in starts : Min(starts) <= y
  <2> HIDE DEF starts
  <2> QED BY <1>4, MinIsSmallest
<1>7. Max(ends) \in ends /\ \A y \in ends : y <= Max(ends)
  <2> HIDE DEF ends
  <2> QED BY <1>5, MaxIsLargest
<1>8. m = [offset |-> Min(starts), len |-> Max(ends) - Min(starts)]
  BY DEF Merged
<1> DEFINE lo == Min(starts)
           hi == Max(ends)
<1>9. /\ lo \in Nat /\ hi \in Nat /\ lo <= offset /\ offset + len <= hi
      /\ lo = offset \/ \E t \in E : t.offset = lo
      /\ hi = offset + len \/ \E t \in E : End(t) = hi
      /\ \A t \in E : lo <= t.offset /\ End(t) <= hi
  <2>1. lo \in starts /\ (\A y \in starts : lo <= y) /\ hi \in ends /\ (\A y \in ends : y <= hi)
    BY <1>6, <1>7
  <2>2. starts \subseteq Nat /\ ends \subseteq Nat
    BY <1>2
  <2> HIDE DEF lo, hi
  <2>3. lo \in Nat /\ hi \in Nat /\ lo <= offset /\ offset + len <= hi
    BY <2>1, <2>2
  <2>4. /\ lo = offset \/ \E t \in E : t.offset = lo
        /\ hi = offset + len \/ \E t \in E : End(t) = hi
    BY <2>1
  <2>5. \A t \in E : lo <= t.offset /\ End(t) <= hi
    BY <2>1
  <2> QED BY <2>3, <2>4, <2>5
<1>10. m.offset = lo /\ m.len = hi - lo
  BY <1>8
<1>11. End(m) = hi /\ m.len \in Nat \ {0}
  <2> HIDE DEF lo, hi
  <2> QED BY <1>9, <1>10 DEF End
<1>12. m = [offset |-> m.offset, len |-> m.len]
  BY <1>8
<1> HIDE DEF m, E, lo, hi
<1>13. /\ m.offset \in Nat /\ End(m) \in Nat
       /\ m.offset = offset \/ \E t \in E : t.offset = m.offset
       /\ End(m) = offset + len \/ \E t \in E : End(t) = End(m)
       /\ m.offset <= offset /\ offset + len <= End(m)
       /\ \A t \in E : m.offset <= t.offset /\ End(t) <= End(m)
  BY <1>9, <1>10, <1>11
<1> QED BY <1>11, <1>12, <1>13 DEF m, E

\* A row the merged range touches is one the new range touches already: the DELETE,
\* which looks at the merged range, removes exactly the rows that were merged.
LEMMA TouchesMerged ==
  ASSUME WalInv, NEW offset \in Nat, NEW len \in Nat \ {0},
         NEW r \in wal_entries, NEW m, m = Merged(wal_entries, offset, len),
         r \in Touching(wal_entries, m.offset, End(m))
  PROVE  r \in Touching(wal_entries, offset, offset + len)
<1> DEFINE E == Touching(wal_entries, offset, offset + len)
<1>1. /\ wal_entries \subseteq WalRow /\ IsFiniteSet(wal_entries)
      /\ \A s, t \in wal_entries : s # t => End(s) < t.offset \/ End(t) < s.offset
  BY DEF WalInv, WalTypeOK, WalSeparated
<1>2. \A t \in wal_entries : t.offset \in Nat /\ End(t) \in Nat /\ t.offset < End(t)
  BY <1>1, WalAssumption DEF WalRow, End
<1>3. /\ m.offset \in Nat /\ End(m) \in Nat
      /\ m.offset = offset \/ \E t \in E : t.offset = m.offset
      /\ End(m) = offset + len \/ \E t \in E : End(t) = End(m)
  BY <1>1, MergedEnds
<1>4. E \subseteq wal_entries /\ \A t \in E : t.offset <= offset + len /\ End(t) >= offset
  BY DEF Touching
<1>5. r.offset <= End(m) /\ End(r) >= m.offset
  BY DEF Touching
<1>6. r.offset <= offset + len
  <2> SUFFICES ASSUME r.offset > offset + len PROVE FALSE
    BY <1>2
  <2>1. PICK t \in E : End(t) = End(m)
    BY <1>2, <1>3, <1>5
  <2> HIDE DEF E
  <2> QED BY <2>1, <1>1, <1>2, <1>4, <1>5
<1>7. End(r) >= offset
  <2> SUFFICES ASSUME End(r) < offset PROVE FALSE
    BY <1>2
  <2>1. PICK t \in E : t.offset = m.offset
    BY <1>2, <1>3, <1>5
  <2> HIDE DEF E
  <2> QED BY <2>1, <1>1, <1>2, <1>4, <1>5
<1> QED BY <1>6, <1>7 DEF Touching

\* One mark_dirty keeps the table merged and complete.
LEMMA MarkDirtyKeeps ==
  ASSUME WalInv, NEW offset \in 0 .. object_size - 1, NEW len \in 1 .. object_size,
         MarkDirty(offset, len)
  PROVE  WalInv'
<1> DEFINE m == Merged(wal_entries, offset, len)
           E == Touching(wal_entries, offset, offset + len)
           D == Touching(wal_entries, m.offset, End(m))
<1>0. /\ offset \in Nat /\ len \in Nat \ {0} /\ object_size \in Nat
      /\ offset + len <= object_size
      /\ wal_entries' = (wal_entries \ D) \cup {m}
      /\ marked' = marked \cup offset .. offset + len - 1
  BY WalAssumption DEF MarkDirty, Coalesce
<1>1. /\ wal_entries \subseteq WalRow /\ IsFiniteSet(wal_entries)
      /\ \A s, t \in wal_entries : s # t => End(s) < t.offset \/ End(t) < s.offset
      /\ \A t \in wal_entries : End(t) <= object_size
      /\ marked \subseteq 0 .. object_size - 1
      /\ UNION {UnitsOf(r) : r \in wal_entries} = marked
  BY DEF WalInv, WalTypeOK, WalSeparated, WalCovers
<1>2. \A t \in wal_entries : t.offset \in Nat /\ End(t) \in Nat /\ t.offset < End(t)
  BY <1>1, WalAssumption DEF WalRow, End
<1>3. /\ m = [offset |-> m.offset, len |-> m.len]
      /\ m.offset \in Nat /\ m.len \in Nat \ {0} /\ End(m) \in Nat
      /\ m.offset = offset \/ \E t \in E : t.offset = m.offset
      /\ End(m) = offset + len \/ \E t \in E : End(t) = End(m)
      /\ m.offset <= offset /\ offset + len <= End(m)
      /\ \A t \in E : m.offset <= t.offset /\ End(t) <= End(m)
  BY <1>0, <1>1, MergedEnds
<1>4. E \subseteq wal_entries /\ \A t \in E : t.offset <= offset + len /\ End(t) >= offset
  BY DEF Touching
<1>5. D \subseteq E
  <2> SUFFICES ASSUME NEW r \in D PROVE r \in E
    OBVIOUS
  <2>1. r \in wal_entries
    BY DEF Touching
  <2> HIDE DEF m
  <2> QED BY <1>0, <2>1, TouchesMerged DEF m
<1>6. \A r \in wal_entries \ D : r.offset > End(m) \/ End(r) < m.offset
  BY <1>2, <1>3 DEF Touching
<1>7. End(m) <= object_size /\ m \in WalRow
  <2>1. End(m) <= object_size
    <3> HIDE DEF m, E
    <3> QED BY <1>0, <1>1, <1>3, <1>4
  <2> HIDE DEF m
  <2>2. m.offset \in 0 .. object_size - 1 /\ m.len \in 1 .. object_size
    BY <1>0, <1>3, <2>1 DEF End
  <2> QED BY <2>1, <2>2, <1>3 DEF WalRow
<1>8. UnitsOf(m) = (UNION {UnitsOf(r) : r \in E}) \cup offset .. offset + len - 1
  <2> HIDE DEF m, E
  <2>1. ASSUME NEW x \in UnitsOf(m), x \notin offset .. offset + len - 1
        PROVE  \E r \in E : x \in UnitsOf(r)
    <3>1. x \in Nat /\ m.offset <= x /\ x < End(m)
      BY <1>3, <2>1 DEF UnitsOf
    <3>2. CASE x < offset
      <4>1. PICK t \in E : t.offset = m.offset
        BY <1>0, <1>3, <3>1, <3>2
      <4>2. x \in UnitsOf(t)
        BY <4>1, <1>0, <1>2, <1>4, <3>1, <3>2 DEF UnitsOf
      <4> QED BY <4>2
    <3>3. CASE x >= offset + len
      <4>1. PICK t \in E : End(t) = End(m)
        BY <1>0, <1>3, <3>1, <3>3
      <4>2. x \in UnitsOf(t)
        BY <4>1, <1>0, <1>2, <1>4, <3>1, <3>3 DEF UnitsOf
      <4> QED BY <4>2
    <3> QED BY <1>0, <2>1, <3>1, <3>2, <3>3
  <2>2. \A r \in E : UnitsOf(r) \subseteq UnitsOf(m)
    BY <1>2, <1>3, <1>4 DEF UnitsOf
  <2>3. offset .. offset + len - 1 \subseteq UnitsOf(m)
    BY <1>0, <1>3 DEF UnitsOf
  <2> QED BY <2>1, <2>2, <2>3
<1> HIDE DEF m, E
<1>9. WalTypeOK'
  BY <1>0, <1>1, <1>7 DEF WalTypeOK
<1>10. IsFiniteSet(wal_entries')
  <2>1. IsFiniteSet(wal_entries \ D)
    BY <1>1, FS_Subset
  <2> QED BY <1>0, <2>1, FS_AddElement
<1>11. WalSeparated'
  BY <1>0, <1>1, <1>6 DEF WalSeparated
<1>12. WalCovers'
  <2>1. \A r \in D : UnitsOf(r) \subseteq UnitsOf(m)
    BY <1>5, <1>8
  <2>2. UNION {UnitsOf(r) : r \in (wal_entries \ D) \cup {m}}
          = (UNION {UnitsOf(r) : r \in wal_entries}) \cup UnitsOf(m)
    <3> HIDE DEF D
    <3> QED BY <2>1, <1>4, <1>5
  <2>3. (UNION {UnitsOf(r) : r \in wal_entries}) \cup UnitsOf(m)
          = marked \cup offset .. offset + len - 1
    BY <1>1, <1>4, <1>8
  <2> QED BY <2>2, <2>3, <1>0 DEF WalCovers
<1> QED BY <1>9, <1>10, <1>11, <1>12 DEF WalInv

\* Every sequence of writes and flushes keeps the invariant.
THEOREM WalInvariance == Spec => []WalInv
<1>1. Init => WalInv
  BY FS_EmptySet DEF Init, WalInv, WalTypeOK, WalSeparated, WalCovers
<1>2. WalInv /\ [Next]_vars => WalInv'
  <2> SUFFICES ASSUME WalInv, [Next]_vars PROVE WalInv'
    OBVIOUS
  <2>1. CASE \E offset \in 0 .. object_size - 1, len \in 1 .. object_size :
               MarkDirty(offset, len)
    BY <2>1, MarkDirtyKeeps
  <2>2. CASE ClearDirtyAndWal
    BY <2>2, FS_EmptySet
       DEF ClearDirtyAndWal, WalInv, WalTypeOK, WalSeparated, WalCovers
  <2>3. CASE UNCHANGED vars
    BY <2>3 DEF vars, WalInv, WalTypeOK, WalSeparated, WalCovers
  <2> QED BY <2>1, <2>2, <2>3 DEF Next
<1> QED BY <1>1, <1>2, PTL DEF Spec

\* For objects of any size and any sequence of writes and flushes, every row of the
\* table is a non-empty range inside its object.
THEOREM WalTypeCorrect == Spec => []WalTypeOK
<1>1. WalInv => WalTypeOK
  BY DEF WalInv
<1> QED BY <1>1, WalInvariance, PTL

\* The rows stay apart: no unit is listed twice, and no two rows could be one.
THEOREM WalApart == Spec => []WalSeparated
<1>1. WalInv => WalSeparated
  BY DEF WalInv
<1> QED BY <1>1, WalInvariance, PTL

\* The rows list exactly the units written since the last flush: merging loses none
\* and adds none.
THEOREM WalMerged == Spec => []WalCovers
<1>1. WalInv => WalCovers
  BY DEF WalInv
<1> QED BY <1>1, WalInvariance, PTL
=============================================================================
