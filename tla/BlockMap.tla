------------------------------ MODULE BlockMap ------------------------------
(***************************************************************************)
(* The address arithmetic of crates/tgdrive-core/src/block.rs: a device of *)
(* device_size units cut into objects of object_size units.  A unit stands *)
(* for the smallest range a request can address (a logical sector).        *)
(***************************************************************************)
EXTENDS Integers

CONSTANTS
  device_size,      \* size of the export, in units
  object_size       \* size of one object, in units

ASSUME SizeAssumption ==
  /\ device_size \in Nat \ {0}
  /\ object_size \in Nat \ {0}

\* div_ceil: how many objects hold size units.
ObjectsFor(size) == (size + object_size - 1) \div object_size

\* BlockMap::object_count.
object_count == ObjectsFor(device_size)

\* BlockMap::locate: the object an in-bounds offset lies in, and where in it.
ObjectOf(offset) == offset \div object_size
OffsetIn(offset) == offset % object_size

\* How much of a request one pass of the loops of read_at and write_at takes.
Take(cursor, remaining) ==
  LET room == object_size - OffsetIn(cursor)
  IN  IF remaining < room THEN remaining ELSE room

\* write_at: the pass replaces the whole object, which is then not read first.
FullObject(cursor, remaining) ==
  OffsetIn(cursor) = 0 /\ Take(cursor, remaining) = object_size

\* The bounds check of read_at and write_at (and of the NBD server).
InBounds(offset, len) == offset + len <= device_size

Units == 0 .. device_size - 1
Objects == 0 .. object_count - 1
=============================================================================
