------------------------- MODULE BlockDeviceProofs --------------------------
(***************************************************************************)
(* The block device keeps its types, no superblock is ever published whose *)
(* data is not all on the channel, and the dirty limit is exceeded by less *)
(* than the number of connections: for any number of connections, objects, *)
(* requests, failures, crashes and moves to another machine.               *)
(***************************************************************************)
EXTENDS BlockDevice, ExtremaProofs

(* The address arithmetic, for every device size and object size *)

\* Division with remainder, as locate uses it.
LEMMA DivMod ==
  ASSUME NEW x \in Nat
  PROVE  /\ ObjectOf(x) \in Nat
         /\ OffsetIn(x) \in 0 .. object_size - 1
         /\ x = object_size * ObjectOf(x) + OffsetIn(x)
BY SizeAssumption DEF ObjectOf, OffsetIn

\* div_ceil rounds up: the objects counted are enough for the size.
LEMMA EnoughObjects ==
  ASSUME NEW size \in Nat
  PROVE  ObjectsFor(size) \in Nat /\ object_size * ObjectsFor(size) >= size
BY SizeAssumption DEF ObjectsFor

\* The objects are enough for the device.
LEMMA ObjectCount ==
  /\ object_count \in Nat
  /\ object_size * object_count >= device_size
BY EnoughObjects, SizeAssumption DEF object_count

\* BlockMap::locate, for an offset that passed its bounds check, names an object that
\* exists: object_count rounds up exactly as the division rounds down.
THEOREM LocateInRange ==
  ASSUME NEW x \in Nat, x < device_size
  PROVE  ObjectOf(x) \in Objects
<1>1. /\ ObjectOf(x) \in Nat /\ OffsetIn(x) \in 0 .. object_size - 1
      /\ x = object_size * ObjectOf(x) + OffsetIn(x)
  BY DivMod
<1>2. object_count \in Nat /\ object_size * object_count >= device_size
  BY ObjectCount
<1>3. object_size * ObjectOf(x) < object_size * object_count
  BY <1>1, <1>2, SizeAssumption
<1>4. ObjectOf(x) < object_count
  BY <1>1, <1>2, <1>3, SizeAssumption
<1> QED BY <1>1, <1>2, <1>4 DEF Objects

\* One pass of the loops of read_at and write_at takes at least one unit, stays in
\* its object and does not run past the request.
LEMMA TakeBounds ==
  ASSUME NEW x \in Nat, NEW remaining \in Nat
  PROVE  /\ Take(x, remaining) \in 0 .. remaining
         /\ OffsetIn(x) + Take(x, remaining) <= object_size
         /\ remaining > 0 => Take(x, remaining) > 0
<1>1. OffsetIn(x) \in 0 .. object_size - 1
  BY DivMod
<1> QED BY <1>1, SizeAssumption DEF Take

\* The units one pass covers are those of its object whose offsets it covers.
LEMMA UnitsOfPass ==
  ASSUME NEW x \in Nat, NEW u \in Nat, NEW n \in Nat, OffsetIn(x) + n <= object_size
  PROVE  /\ ObjectOf(u) = ObjectOf(x) => u - x = OffsetIn(u) - OffsetIn(x)
         /\ x <= u /\ u < x + n <=> /\ ObjectOf(u) = ObjectOf(x)
                                    /\ OffsetIn(x) <= OffsetIn(u)
                                    /\ OffsetIn(u) < OffsetIn(x) + n
<1> DEFINE p == ObjectOf(x)  q == ObjectOf(u)  a == OffsetIn(x)  b == OffsetIn(u)
<1>1. /\ p \in Nat /\ q \in Nat /\ a \in 0 .. object_size - 1 /\ b \in 0 .. object_size - 1
      /\ x = object_size * p + a /\ u = object_size * q + b
  BY DivMod
<1>2. object_size \in Nat /\ a + n <= object_size
  BY SizeAssumption
<1> HIDE DEF p, q, a, b
<1>3. q = p => u - x = b - a
  BY <1>1, <1>2
<1>4. ASSUME x <= u, u < x + n
      PROVE  q = p
  <2>1. ASSUME q < p PROVE FALSE
    <3>1. PICK d \in Nat : p = q + 1 + d
      BY <1>1, <2>1
    <3>2. object_size * p = object_size * q + object_size + object_size * d
      BY <1>1, <1>2, <3>1
    <3>3. object_size * d \in Nat /\ object_size * q \in Nat
      BY <1>1, <1>2, <3>1
    <3> QED BY <1>1, <1>2, <1>4, <3>2, <3>3
  <2>2. ASSUME p < q PROVE FALSE
    <3>1. PICK d \in Nat : q = p + 1 + d
      BY <1>1, <2>2
    <3>2. object_size * q = object_size * p + object_size + object_size * d
      BY <1>1, <1>2, <3>1
    <3>3. object_size * d \in Nat /\ object_size * p \in Nat
      BY <1>1, <1>2, <3>1
    <3> QED BY <1>1, <1>2, <1>4, <3>2, <3>3
  <2> QED BY <1>1, <2>1, <2>2
<1>5. q = p => (x <= u /\ u < x + n <=> a <= b /\ b < a + n)
  BY <1>1, <1>2, <1>3
<1> QED BY <1>3, <1>4, <1>5 DEF p, q, a, b

(* Basic facts *)

Payload == [0 .. object_size - 1 -> Value]

\* The initial manifest, and the locals of an idle connection, have their types.
LEMMA InitialValues ==
  /\ EmptyManifest \in Manifest
  /\ NoLocals \in Locals
  /\ ZeroObject \in Payload
  /\ NoRows \in Rows
  /\ NoEntry \in Entry
<1>1. ZeroObject \in Payload
  BY FormatAssumption DEF ZeroObject, Payload
<1>2. NoRows \in Rows
  BY DEF NoRows, Rows
<1>3. NoEntry \in Entry
  BY DEF NoEntry, Entry, ZeroEntry
<1>4. EmptyManifest \in Manifest
  BY DEF EmptyManifest, Manifest, Entry, ZeroEntry
<1>5. NoLocals \in Locals
  BY <1>1, <1>2, <1>3 DEF NoLocals, Locals, Payload
<1> QED BY <1>1, <1>2, <1>3, <1>4, <1>5

\* ch2 is ch with messages appended.
Grows(ch, ch2) ==
  /\ ch2 \in Seq(Message)
  /\ DOMAIN ch \subseteq DOMAIN ch2
  /\ \A i \in DOMAIN ch : ch2[i] = ch[i]

\* send_message appends one message, and changes none.
LEMMA AppendGrows ==
  ASSUME NEW ch \in Seq(Message), NEW msg \in Message
  PROVE  /\ Grows(ch, Append(ch, msg))
         /\ Len(Append(ch, msg)) = Len(ch) + 1
         /\ Len(ch) + 1 \in DOMAIN Append(ch, msg)
         /\ Append(ch, msg)[Len(ch) + 1] = msg
         /\ Len(ch) \in Nat /\ Len(ch) + 1 \notin DOMAIN ch
         /\ DOMAIN ch = 1 .. Len(ch)
         /\ DOMAIN Append(ch, msg) = 1 .. Len(ch) + 1
BY DEF Grows

\* What the channel served, it still serves after more messages.
LEMMA GrowsKeeps ==
  ASSUME NEW ch \in Seq(Message), NEW ch2, Grows(ch, ch2)
  PROVE  /\ \A m : Backed(ch, m) => Backed(ch2, m)
         /\ \A ref : Served(ch, ref) => Served(ch2, ref)
         /\ \A m : ManifestOK(ch, m) => ManifestOK(ch2, m)
         /\ \A sb : SuperblockOK(ch, sb) => SuperblockOK(ch2, sb)
         /\ \A p, l : ConnectionOK(ch, p, l) => ConnectionOK(ch2, p, l)
         /\ \A i, kind : Exists(ch, i, kind) => Exists(ch2, i, kind)
<1>1. \A i, kind : Exists(ch, i, kind) => Exists(ch2, i, kind) /\ ch2[i] = ch[i]
  BY DEF Grows, Exists
<1>2. \A m : Backed(ch, m) => Backed(ch2, m)
  BY <1>1 DEF Backed
<1>3. \A ref : Served(ch, ref) => Served(ch2, ref)
  BY <1>1, <1>2 DEF Served
<1>4. \A m : ManifestOK(ch, m) => ManifestOK(ch2, m)
  BY <1>2 DEF ManifestOK, Grows
<1>5. \A sb : SuperblockOK(ch, sb) => SuperblockOK(ch2, sb)
  BY <1>3 DEF SuperblockOK
<1>6. \A p, l : ConnectionOK(ch, p, l) => ConnectionOK(ch2, p, l)
  BY <1>1, <1>5 DEF ConnectionOK
<1> QED BY <1>1, <1>2, <1>3, <1>4, <1>5, <1>6

\* Appending a message that is in order keeps the channel in order.
LEMMA AppendOK ==
  ASSUME NEW ch \in Seq(Message), ChannelOK(ch), NEW msg \in Message,
         msg.kind = "manifest" => ManifestOK(ch, msg.body),
         msg.kind = "superblock" => SuperblockOK(ch, msg.body)
  PROVE  ChannelOK(Append(ch, msg))
<1> DEFINE ch2 == Append(ch, msg)
<1>1. /\ Grows(ch, ch2) /\ DOMAIN ch2 = DOMAIN ch \cup {Len(ch) + 1}
      /\ ch2[Len(ch) + 1] = msg
  BY AppendGrows
<1> HIDE DEF ch2
<1>2. ASSUME NEW i \in DOMAIN ch
      PROVE  /\ ch2[i].kind = "manifest" => ManifestOK(ch2, ch2[i].body)
             /\ ch2[i].kind = "superblock" => SuperblockOK(ch2, ch2[i].body)
  BY <1>1, <1>2, GrowsKeeps DEF ChannelOK, Grows
<1>3. /\ msg.kind = "manifest" => ManifestOK(ch2, msg.body)
      /\ msg.kind = "superblock" => SuperblockOK(ch2, msg.body)
  BY <1>1, GrowsKeeps
<1>4. ChannelOK(ch2)
  BY <1>1, <1>2, <1>3 DEF ChannelOK
<1> QED BY <1>4 DEF ch2

-----------------------------------------------------------------------------
(* The control helpers *)

\* A connection that moves on with locals in order leaves all of them in order.
LEMMA GotoKeeps ==
  ASSUME DeviceInv, NEW c \in Clients, NEW next, NEW l, Goto(c, next, l),
         channel' = channel \/ Grows(channel, channel'),
         ConnectionOK(channel', next, l)
  PROVE  ConnectionsOK'
<1>1. ConnectionOK(channel', "idle", NoLocals)
  BY InitialValues, FS_EmptySet DEF ConnectionOK, NoLocals, Labels
<1>2. \A d \in Clients : ConnectionOK(channel', pc[d], loc[d])
  BY GrowsKeeps DEF DeviceInv, RemoteOK, ConnectionsOK
<1> DEFINE l2 == IF next = "idle" THEN NoLocals ELSE l
<1>3. ConnectionOK(channel', next, l2) /\ next \in Labels /\ l2 \in Locals
  BY <1>1, InitialValues DEF ConnectionOK
<1> HIDE DEF l2
<1>4. /\ pc' = [pc EXCEPT ![c] = next] /\ loc' = [loc EXCEPT ![c] = l2]
      /\ pc \in [Clients -> Labels] /\ loc \in [Clients -> Locals]
  BY DEF Goto, l2, DeviceInv, ConnectionsOK
<1>5. pc' \in [Clients -> Labels] /\ loc' \in [Clients -> Locals]
  BY <1>3, <1>4
<1>6. \A d \in Clients : ConnectionOK(channel', pc'[d], loc'[d])
  BY <1>2, <1>3, <1>4
<1> QED BY <1>5, <1>6 DEF ConnectionsOK

\* An idle connection is always in order.
LEMMA IdleOK == \A ch, l : l = NoLocals => ConnectionOK(ch, "idle", l)
BY InitialValues, FS_EmptySet DEF ConnectionOK, NoLocals, Labels

\* Returning an error closes the connection and lets go of the mutexes.
LEMMA AbortKeeps ==
  ASSUME DeviceInv, NEW c \in Clients, Abort(c),
         channel' = channel \/ Grows(channel, channel')
  PROVE  /\ ConnectionsOK'
         /\ manifest_lock' \in Clients \cup {None}
         /\ store_lock' \in Clients \cup {None}
<1>1. ConnectionsOK'
  <2>1. Goto(c, "idle", NoLocals) /\ ConnectionOK(channel', "idle", NoLocals)
    BY IdleOK DEF Abort
  <2> QED BY <2>1, GotoKeeps
<1>2. /\ manifest_lock' \in Clients \cup {None}
      /\ store_lock' \in Clients \cup {None}
  BY DEF Abort, DeviceInv, VariablesOK
<1> QED BY <1>1, <1>2

\* Spending part of a bound.
LEMMA SpendKeeps ==
  ASSUME DeviceInv,
         NEW what \in {"writes", "flushes", "faults", "store_faults", "crashes", "moves"},
         Spend(what)
  PROVE  budget' \in [writes : Nat, flushes : Nat, faults : Nat, store_faults : Nat,
                     crashes : Nat, moves : Nat]
BY DEF Spend, DeviceInv, VariablesOK

\* A step that changes only the connections, the mutexes and the bounds.
LEMMA QuietStep ==
  ASSUME DeviceInv, UNCHANGED <<local, manifest, remote>>, ConnectionsOK',
         manifest_lock' \in Clients \cup {None}, store_lock' \in Clients \cup {None},
         budget' = budget \/ budget' \in [writes : Nat, flushes : Nat, faults : Nat,
                                        store_faults : Nat, crashes : Nat, moves : Nat]
  PROVE  DeviceInv'
<1>1. VariablesOK'
  BY DEF DeviceInv, VariablesOK, local
<1>2. RemoteOK'
  BY DEF DeviceInv, RemoteOK, local, remote
<1> QED BY <1>1, <1>2 DEF DeviceInv

\* A step that goes on with the locals it has, or with others in order.
LEMMA QuietGoto ==
  ASSUME DeviceInv, NEW c \in Clients, NEW next, NEW l, Goto(c, next, l),
         ConnectionOK(channel, next, l),
         UNCHANGED <<local, manifest, locks, remote, budget>>
  PROVE  DeviceInv'
<1>1. channel' = channel
  BY DEF remote
<1>2. ConnectionsOK'
  BY <1>1, GotoKeeps
<1>3. /\ manifest_lock' \in Clients \cup {None} /\ store_lock' \in Clients \cup {None}
      /\ budget' = budget
  BY DEF locks, DeviceInv, VariablesOK
<1> QED BY <1>2, <1>3, QuietStep

\* A step that only returns an error.
LEMMA QuietAbort ==
  ASSUME DeviceInv, NEW c \in Clients, Abort(c), UNCHANGED <<local, manifest, remote>>,
         budget' = budget \/ budget' \in [writes : Nat, flushes : Nat, faults : Nat,
                                        store_faults : Nat, crashes : Nat, moves : Nat]
  PROVE  DeviceInv'
<1>1. channel' = channel
  BY DEF remote
<1> QED BY <1>1, AbortKeeps, QuietStep

\* fs::write, either half, keeps the cache directory a table of encoded objects.
LEMMA WithFileOK ==
  ASSUME DeviceInv, NEW o \in Nat, NEW g \in Nat, NEW bytes \in Encoded \cup {Torn}
  PROVE  /\ DOMAIN WithFile(o, g, bytes) \subseteq Nat \X Nat
         /\ \A k \in DOMAIN WithFile(o, g, bytes) :
              WithFile(o, g, bytes)[k] \in Encoded \cup {Torn}
BY DEF DeviceInv, VariablesOK, WithFile

-----------------------------------------------------------------------------
(* The loops of read_at and write_at *)

\* The steps the loops can go on at ask nothing more of the locals than this.
LEMMA LoopLabelOK ==
  ASSUME NEW ch, NEW p, NEW l \in Locals,
         p \in {"limit", "read_object", "prefetch", "reply", "idle"},
         l.op \in {"read", "write"}, InBounds(l.cursor, l.remaining),
         l.op = "write" => l.remaining <= Len(l.bytes), IsFiniteSet(l.entries),
         p \in {"limit", "read_object"} => l.remaining > 0,
         p = "limit" => l.op = "write"
  PROVE  ConnectionOK(ch, p, l)
<1>1. p \in Labels
  BY DEF Labels
<1>2. p \notin {"read_entry", "read_cache", "fetch", "fill", "filling", "generation",
               "write_cache", "write_bytes", "mark_dirty", "prefetch_fill",
               "prefetch_filling", "flush_lock", "flush_object", "flush_superblock",
               "flush_pin", "flush_backup"}
  OBVIOUS
<1> QED BY <1>1, <1>2 DEF ConnectionOK

\* The head of the loop finds its locals in order.
LEMMA LoopHeadOK ==
  ASSUME NEW ch, NEW l \in Locals, l.op \in {"read", "write"},
         InBounds(l.cursor, l.remaining), l.op = "write" => l.remaining <= Len(l.bytes),
         IsFiniteSet(l.entries)
  PROVE  ConnectionOK(ch, LoopHead(l), l)
<1>1. LoopHead(l) \in {"limit", "read_object", "prefetch", "reply", "idle"}
  BY DEF LoopHead
<1>2. LoopHead(l) \in {"limit", "read_object"} => l.remaining > 0
  BY DEF LoopHead
<1>3. LoopHead(l) = "limit" => l.op = "write"
  BY DEF LoopHead
<1> QED BY <1>1, <1>2, <1>3, LoopLabelOK

\* A pass of the loop moves the cursor within the request.
LEMMA AdvanceOK ==
  ASSUME NEW l \in Locals, InBounds(l.cursor, l.remaining)
  PROVE  /\ Advance(l) \in Locals
         /\ InBounds(Advance(l).cursor, Advance(l).remaining)
         /\ Advance(l).remaining <= l.remaining
         /\ Advance(l).op = l.op /\ Advance(l).bytes = l.bytes
         /\ Advance(l).entries = l.entries
<1>1. l.cursor \in Nat /\ l.remaining \in Nat
  BY DEF Locals
<1>2. Take(l.cursor, l.remaining) \in 0 .. l.remaining
  BY <1>1, TakeBounds
<1>3. /\ Advance(l).cursor = l.cursor + Take(l.cursor, l.remaining)
      /\ Advance(l).remaining = l.remaining - Take(l.cursor, l.remaining)
  BY DEF Advance, Locals
<1>4. /\ Advance(l).cursor \in Nat /\ Advance(l).remaining \in Nat
      /\ Advance(l).remaining <= l.remaining
      /\ Advance(l).cursor + Advance(l).remaining = l.cursor + l.remaining
  BY <1>1, <1>2, <1>3
<1>5. Advance(l) \in Locals
  BY <1>3, <1>4, InitialValues DEF Advance, Locals, Payload
<1>6. /\ Advance(l).op = l.op /\ Advance(l).bytes = l.bytes
      /\ Advance(l).entries = l.entries
  BY DEF Advance, Locals
<1> QED BY <1>4, <1>5, <1>6 DEF InBounds

\* What read_at has copied so far stays a sequence of values.
LEMMA CopyOutOK ==
  ASSUME NEW l \in Locals, NEW payload \in Payload
  PROVE  CopyOut(l, payload) \in Seq(Value)
<1> DEFINE n == Take(l.cursor, l.remaining)
           at == OffsetIn(l.cursor)
           piece == [i \in 1 .. n |-> payload[at + i - 1]]
<1>1. l.cursor \in Nat /\ l.remaining \in Nat /\ l.out \in Seq(Value)
  BY DEF Locals
<1>2. n \in Nat /\ at \in 0 .. object_size - 1 /\ at + n <= object_size
  <2>1. n \in 0 .. l.remaining /\ at + n <= object_size
    BY <1>1, TakeBounds
  <2>2. at \in 0 .. object_size - 1
    BY <1>1, DivMod
  <2> QED BY <1>1, <2>1, <2>2
<1> HIDE DEF n, at
<1>3. \A i \in 1 .. n : payload[at + i - 1] \in Value
  BY <1>2, SizeAssumption DEF Payload
<1>4. piece \in Seq(Value)
  BY <1>2, <1>3
<1> HIDE DEF piece
<1>5. CopyOut(l, payload) = l.out \o piece
  BY DEF CopyOut, piece, n, at
<1> QED BY <1>1, <1>4, <1>5

\* The object write_at builds is made of values: input_offset stays in the request.
LEMMA OverlayOK ==
  ASSUME NEW l \in Locals, NEW payload \in Payload, l.remaining <= Len(l.bytes)
  PROVE  Overlay(l, payload) \in Payload
<1> DEFINE n == Take(l.cursor, l.remaining)
           at == OffsetIn(l.cursor)
<1>1. l.cursor \in Nat /\ l.remaining \in Nat /\ l.bytes \in Seq(Value) /\ Len(l.bytes) \in Nat
  BY DEF Locals
<1>2. n \in 0 .. l.remaining /\ at \in 0 .. object_size - 1
  BY <1>1, TakeBounds, DivMod
<1> HIDE DEF n, at
<1>3. ASSUME NEW i \in 0 .. object_size - 1, at <= i, i < at + n
      PROVE  l.bytes[Len(l.bytes) - l.remaining + (i - at) + 1] \in Value
  <2>1. Len(l.bytes) - l.remaining + (i - at) + 1 \in 1 .. Len(l.bytes)
    BY <1>1, <1>2, <1>3, SizeAssumption
  <2> QED BY <1>1, <2>1
<1>4. \A i \in 0 .. object_size - 1 : payload[i] \in Value
  BY DEF Payload
<1> QED BY <1>3, <1>4 DEF Overlay, Payload, n, at

\* read_object hands its payload to read_at or write_at.
LEMMA ReturnKeeps ==
  ASSUME DeviceInv, NEW c \in Clients, NEW payload \in Payload, Return(c, payload),
         pc[c] \in {"read_object", "read_entry", "read_cache", "fetch", "fill", "filling"},
         channel' = channel
  PROVE  ConnectionsOK'
<1> DEFINE l == loc[c]
<1>1. ConnectionOK(channel, pc[c], l)
  BY DEF DeviceInv, ConnectionsOK
<1>2. /\ l \in Locals /\ l.op \in {"read", "write"} /\ InBounds(l.cursor, l.remaining)
      /\ l.remaining > 0
      /\ l.op = "write" => l.remaining <= Len(l.bytes)
      /\ IsFiniteSet(l.entries)
  BY <1>1 DEF ConnectionOK
<1>3. CASE l.op = "read"
  <2> DEFINE r == [l EXCEPT !.out = CopyOut(l, payload)]
  <2>1. r \in Locals /\ r.op = "read" /\ InBounds(r.cursor, r.remaining) /\ IsFiniteSet(r.entries)
    BY <1>2, <1>3, CopyOutOK DEF Locals
  <2>2. Goto(c, LoopHead(Advance(r)), Advance(r))
    BY <1>3 DEF Return
  <2> HIDE DEF r, l
  <2>3. ConnectionOK(channel, LoopHead(Advance(r)), Advance(r))
    BY <2>1, AdvanceOK, LoopHeadOK
  <2> QED BY <2>2, <2>3, GotoKeeps
<1>4. CASE l.op = "write"
  <2> DEFINE r == [l EXCEPT !.object = payload, !.entry = NoEntry, !.encoded = None]
  <2>1. ConnectionOK(channel, "limit", r)
    <3>1. r \in Locals
      BY <1>2, InitialValues DEF Locals, Payload
    <3>2. /\ r.op = "write" /\ r.cursor = l.cursor /\ r.remaining = l.remaining
          /\ r.bytes = l.bytes /\ r.entries = l.entries
      BY <1>2, <1>4 DEF Locals
    <3> HIDE DEF r, l
    <3>3. InBounds(r.cursor, r.remaining) /\ r.remaining > 0 /\ IsFiniteSet(r.entries)
      BY <1>2, <3>2
    <3>4. r.remaining <= Len(r.bytes)
      BY <1>2, <1>4, <3>2
    <3> QED BY <3>1, <3>2, <3>3, <3>4, LoopLabelOK
  <2>2. Goto(c, "limit", r)
    BY <1>4 DEF Return
  <2> HIDE DEF r
  <2> QED BY <2>1, <2>2, GotoKeeps
<1> QED BY <1>2, <1>3, <1>4

\* What the invariant says of one connection.
LEMMA OneConnection ==
  ASSUME DeviceInv, NEW c \in Clients
  PROVE  ConnectionOK(channel, pc[c], loc[c]) /\ loc[c] \in Locals /\ pc[c] \in Labels
BY DEF DeviceInv, ConnectionsOK

\* The object under the cursor of a request exists.
LEMMA TargetOK ==
  ASSUME DeviceInv, NEW c \in Clients,
         pc[c] \in {"read_object", "read_entry", "read_cache", "fetch", "fill", "filling",
                    "limit", "generation", "write_cache", "write_bytes", "mark_dirty"}
  PROVE  Target(c) \in Objects /\ Target(c) \in Nat
<1>1. /\ loc[c].cursor \in Nat /\ loc[c].remaining \in Nat /\ loc[c].remaining > 0
      /\ loc[c].cursor + loc[c].remaining <= device_size
  BY OneConnection DEF ConnectionOK, InBounds, Locals
<1>2. loc[c].cursor < device_size
  BY <1>1, SizeAssumption
<1> QED BY <1>1, <1>2, LocateInRange, DivMod DEF Target

\* Some steps ask nothing of the locals.
LEMMA PlainOK ==
  ASSUME NEW ch, NEW p, NEW l \in Locals, IsFiniteSet(l.entries),
         l.op = "write" => l.remaining <= Len(l.bytes),
         p \in {"idle", "reply", "prefetch", "prefetch_lock", "prefetch_scan", "prefetch_fetch",
                "flush_list", "flush_manifest", "flush_replace", "flush_clear"}
  PROVE  ConnectionOK(ch, p, l)
<1>1. p \in Labels
  BY DEF Labels
<1>2. p \notin {"read_object", "read_entry", "read_cache", "fetch", "fill", "filling", "limit",
               "generation", "write_cache", "write_bytes", "mark_dirty", "prefetch_fill",
               "prefetch_filling", "flush_lock", "flush_object", "flush_superblock",
               "flush_pin", "flush_backup"}
  OBVIOUS
<1> QED BY <1>1, <1>2 DEF ConnectionOK

\* Others ask only what the step before them asked.
LEMMA SameOK ==
  ASSUME NEW ch, NEW p, NEW q, NEW l, ConnectionOK(ch, p, l),
         <<p, q>> \in {<<"read_object", "read_entry">>, <<"read_cache", "fetch">>,
                       <<"fill", "filling">>, <<"limit", "generation">>,
                       <<"write_cache", "write_bytes">>, <<"write_bytes", "mark_dirty">>,
                       <<"prefetch_fill", "prefetch_filling">>,
                       <<"flush_lock", "flush_object">>, <<"flush_pin", "flush_backup">>}
  PROVE  ConnectionOK(ch, q, l)
<1>1. q \in Labels
  BY DEF Labels
<1>2. CASE p = "read_object" /\ q = "read_entry"
  BY <1>1, <1>2 DEF ConnectionOK
<1>3. CASE p = "read_cache" /\ q = "fetch"
  BY <1>1, <1>3 DEF ConnectionOK
<1>4. CASE p = "fill" /\ q = "filling"
  BY <1>1, <1>4 DEF ConnectionOK
<1>5. CASE p = "limit" /\ q = "generation"
  BY <1>1, <1>5 DEF ConnectionOK
<1>6. CASE p \in {"write_cache", "write_bytes"} /\ q \in {"write_bytes", "mark_dirty"}
  BY <1>1, <1>6 DEF ConnectionOK
<1>7. CASE p = "prefetch_fill" /\ q = "prefetch_filling"
  BY <1>1, <1>7 DEF ConnectionOK
<1>8. CASE p = "flush_lock" /\ q = "flush_object"
  BY <1>1, <1>8 DEF ConnectionOK
<1>9. CASE p = "flush_pin" /\ q = "flush_backup"
  BY <1>1, <1>9 DEF ConnectionOK
<1> QED BY <1>2, <1>3, <1>4, <1>5, <1>6, <1>7, <1>8, <1>9

-----------------------------------------------------------------------------
(* One lemma per group of actions *)

\* A request that arrives.
LEMMA BeginKeeps ==
  ASSUME DeviceInv, NEW c \in Clients, Begin(c)
  PROVE  DeviceInv'
<1>1. CASE BeginRead(c)
  <2>1. PICK r \in ReadRequests :
          LET l == [NoLocals EXCEPT !.op = "read", !.cursor = r.offset, !.remaining = r.len]
          IN  Goto(c, LoopHead(l), l)
    BY <1>1 DEF BeginRead
  <2> DEFINE l == [NoLocals EXCEPT !.op = "read", !.cursor = r.offset, !.remaining = r.len]
  <2>2. r.offset \in Nat /\ r.len \in Nat /\ InBounds(r.offset, r.len)
    BY DeviceAssumption
  <2>3. /\ l \in Locals /\ l.op = "read" /\ l.cursor = r.offset /\ l.remaining = r.len
        /\ l.entries = {}
    BY <2>2, InitialValues DEF NoLocals, Locals
  <2>4. Goto(c, LoopHead(l), l)
    BY <2>1
  <2> HIDE DEF l
  <2>5. ConnectionOK(channel, LoopHead(l), l)
    BY <2>2, <2>3, LoopHeadOK, FS_EmptySet
  <2>6. UNCHANGED <<local, manifest, locks, remote, budget>>
    BY <1>1 DEF BeginRead
  <2> QED BY <2>4, <2>5, <2>6, QuietGoto
<1>2. CASE BeginWrite(c)
  <2>1. PICK w \in WriteRequests :
          LET l == [NoLocals EXCEPT !.op = "write", !.cursor = w.offset, !.bytes = w.bytes,
                                    !.remaining = Len(w.bytes)]
          IN  Goto(c, LoopHead(l), l)
    BY <1>2 DEF BeginWrite
  <2> DEFINE l == [NoLocals EXCEPT !.op = "write", !.cursor = w.offset, !.bytes = w.bytes,
                                   !.remaining = Len(w.bytes)]
  <2>2. w.offset \in Nat /\ w.bytes \in Seq(Value) /\ InBounds(w.offset, Len(w.bytes))
    BY DeviceAssumption
  <2>3. /\ l \in Locals /\ l.op = "write" /\ l.cursor = w.offset
        /\ l.remaining = Len(w.bytes) /\ l.bytes = w.bytes /\ l.entries = {}
    <3>1. /\ l.op = "write" /\ l.cursor = w.offset /\ l.remaining = Len(w.bytes)
          /\ l.bytes = w.bytes /\ l.entries = {}
      BY DEF NoLocals
    <3>2. Len(w.bytes) \in Nat
      BY <2>2
    <3>3. l \in Locals
      BY <2>2, <3>2, InitialValues DEF Locals
    <3> QED BY <3>1, <3>3
  <2>4. Goto(c, LoopHead(l), l)
    BY <2>1
  <2> HIDE DEF l
  <2>5. l.remaining <= Len(l.bytes)
    BY <2>2, <2>3
  <2>6. ConnectionOK(channel, LoopHead(l), l)
    BY <2>2, <2>3, <2>5, LoopHeadOK, FS_EmptySet
  <2>7. UNCHANGED <<local, manifest, locks, remote>> /\ Spend("writes")
    BY <1>2 DEF BeginWrite
  <2>8. channel' = channel
    BY <2>7 DEF remote
  <2>9. ConnectionsOK'
    BY <2>4, <2>6, <2>8, GotoKeeps
  <2> QED BY <2>7, <2>9, SpendKeeps, QuietStep DEF locks, DeviceInv, VariablesOK
<1>3. CASE BeginFlush(c)
  <2> DEFINE l == [NoLocals EXCEPT !.op = "flush"]
  <2>1. /\ Goto(c, "flush_list", l) /\ Spend("flushes")
        /\ UNCHANGED <<local, manifest, locks, remote>>
    BY <1>3 DEF BeginFlush
  <2>2. l \in Locals /\ l.op = "flush" /\ l.entries = {}
    BY InitialValues DEF NoLocals, Locals
  <2> HIDE DEF l
  <2>3. ConnectionOK(channel, "flush_list", l)
    BY <2>2, PlainOK, FS_EmptySet
  <2>4. channel' = channel
    BY <2>1 DEF remote
  <2>5. ConnectionsOK'
    BY <2>1, <2>3, <2>4, GotoKeeps
  <2> QED BY <2>1, <2>5, SpendKeeps, QuietStep DEF locks, DeviceInv, VariablesOK
<1> QED BY <1>1, <1>2, <1>3 DEF Begin

\* A step that, besides, writes one cache file.
LEMMA FileStep ==
  ASSUME DeviceInv, NEW o \in Nat, NEW g \in Nat, NEW bytes \in Encoded \cup {Torn},
         files' = files \/ files' = WithFile(o, g, bytes),
         UNCHANGED <<dirty_objects, manifest_state, manifest, remote>>, ConnectionsOK',
         manifest_lock' \in Clients \cup {None}, store_lock' \in Clients \cup {None},
         budget' = budget \/ budget' \in [writes : Nat, flushes : Nat, faults : Nat,
                                        store_faults : Nat, crashes : Nat, moves : Nat]
  PROVE  DeviceInv'
<1>1. DOMAIN files' \subseteq Nat \X Nat /\ \A k \in DOMAIN files' : files'[k] \in Encoded \cup {Torn}
  BY WithFileOK DEF DeviceInv, VariablesOK
<1>2. VariablesOK'
  BY <1>1 DEF DeviceInv, VariablesOK
<1>3. RemoteOK'
  BY DEF DeviceInv, RemoteOK, remote
<1> QED BY <1>2, <1>3 DEF DeviceInv

\* read_object ends.
LEMMA QuietReturn ==
  ASSUME DeviceInv, NEW c \in Clients, NEW payload \in Payload, Return(c, payload),
         pc[c] \in {"read_object", "read_entry", "read_cache", "fetch", "fill", "filling"},
         UNCHANGED <<local, manifest, locks, remote, budget>>
  PROVE  DeviceInv'
<1>1. channel' = channel
  BY DEF remote
<1>2. ConnectionsOK'
  BY <1>1, ReturnKeeps
<1> QED BY <1>2, QuietStep DEF locks, DeviceInv, VariablesOK

\* The steps of read_object, and the reply.
LEMMA ReadKeeps ==
  ASSUME DeviceInv, NEW c \in Clients, ReadStep(c)
  PROVE  DeviceInv'
<1> USE OneConnection
<1>1. CASE ReadDirty(c)
  <2> DEFINE row == dirty_objects[Target(c)]
  <2>1. pc[c] = "read_object" /\ row # None /\ Return(c, row.sha256.payload)
    BY <1>1 DEF ReadDirty
  <2>2. row \in Row
    BY <2>1, TargetOK DEF DeviceInv, VariablesOK, Rows
  <2>3. row.sha256.payload \in Payload
    BY <2>2 DEF Row, Encoded, Payload
  <2>4. UNCHANGED <<local, manifest, locks, remote, budget>>
    BY <1>1 DEF ReadDirty
  <2> HIDE DEF row
  <2> QED BY <2>1, <2>3, <2>4, QuietReturn
<1>2. CASE ReadDirtyRejected(c)
  BY <1>2, QuietAbort DEF ReadDirtyRejected
<1>3. CASE ReadNotDirty(c)
  <2>1. ConnectionOK(channel, "read_entry", loc[c])
    BY <1>3, SameOK DEF ReadNotDirty
  <2> QED BY <1>3, <2>1, QuietGoto DEF ReadNotDirty
<1>4. CASE ReadEntry(c)
  <2> DEFINE entry == manifest.objects[Target(c)]
  <2>1. /\ pc[c] = "read_entry" /\ UNCHANGED <<local, manifest, locks, remote, budget>>
        /\ Target(c) \in ManifestObjects
    BY <1>4 DEF ReadEntry
  <2>2. entry \in Entry
    BY <2>1 DEF DeviceInv, VariablesOK, Manifest
  <2>3. CASE entry.zero /\ Return(c, ZeroObject)
    BY <2>1, <2>3, InitialValues, QuietReturn
  <2>4. CASE ~entry.zero /\ Goto(c, "read_cache", [loc[c] EXCEPT !.entry = entry])
    <3> DEFINE l == [loc[c] EXCEPT !.entry = entry]
    <3>1. entry \in StoredEntry
      BY <2>2, <2>4 DEF Entry, ZeroEntry
    <3>2. /\ l \in Locals /\ l.op = loc[c].op /\ l.cursor = loc[c].cursor
          /\ l.remaining = loc[c].remaining /\ l.bytes = loc[c].bytes
          /\ l.entries = loc[c].entries /\ l.entry = entry
      BY <2>2 DEF Locals
    <3> HIDE DEF l, entry
    <3>3. "read_cache" \in Labels
      BY DEF Labels
    <3>4. ConnectionOK(channel, "read_cache", l)
      <4>1. ConnectionOK(channel, "read_entry", loc[c])
        BY <2>1
      <4> QED BY <3>1, <3>2, <3>3, <4>1 DEF ConnectionOK
    <3>5. Goto(c, "read_cache", l)
      BY <2>4 DEF l
    <3> QED BY <2>1, <3>4, <3>5, QuietGoto
  <2> QED BY <1>4, <2>3, <2>4 DEF ReadEntry
<1>5. CASE ReadOutOfRange(c)
  BY <1>5, QuietAbort DEF ReadOutOfRange
<1>6. CASE ReadCache(c)
  <2> DEFINE entry == loc[c].entry
             bytes == File(Target(c), entry.generation)
  <2>1. pc[c] = "read_cache" /\ UNCHANGED <<local, manifest, locks, remote, budget>>
    BY <1>6 DEF ReadCache
  <2>2. CASE Goto(c, "fetch", loc[c])
    <3>1. ConnectionOK(channel, "fetch", loc[c])
      BY <2>1, SameOK
    <3> QED BY <2>1, <2>2, <3>1, QuietGoto
  <2>3. CASE bytes = entry.sha256 /\ Return(c, bytes.payload)
    <3>1. entry.sha256 \in Encoded
      BY <2>1 DEF ConnectionOK, StoredEntry
    <3>2. bytes.payload \in Payload
      BY <2>3, <3>1 DEF Encoded, Payload
    <3> HIDE DEF bytes
    <3> QED BY <2>1, <2>3, <3>2, QuietReturn
  <2> QED BY <1>6, <2>2, <2>3 DEF ReadCache
<1>7. CASE ReadCacheRejected(c)
  BY <1>7, QuietAbort DEF ReadCacheRejected
<1>8. CASE FetchObject(c)
  <2> DEFINE entry == loc[c].entry
             body == channel[entry.remote].body
             l == [loc[c] EXCEPT !.encoded = body]
  <2>1. /\ pc[c] = "fetch" /\ UNCHANGED <<local, manifest, locks, remote, budget>>
        /\ body = entry.sha256 /\ Goto(c, "fill", l)
    BY <1>8 DEF FetchObject, Verifies
  <2>2. ConnectionOK(channel, "fetch", loc[c])
    BY <2>1
  <2>3. entry \in StoredEntry /\ body \in Encoded
    BY <2>1, <2>2 DEF ConnectionOK, StoredEntry
  <2> HIDE DEF body
  <2>4. /\ l \in Locals /\ l.op = loc[c].op /\ l.cursor = loc[c].cursor
        /\ l.remaining = loc[c].remaining /\ l.bytes = loc[c].bytes
        /\ l.entries = loc[c].entries /\ l.entry = entry /\ l.encoded = body
    BY <2>3 DEF Locals
  <2> HIDE DEF l, entry
  <2>5. "fill" \in Labels
    BY DEF Labels
  <2>6. ConnectionOK(channel, "fill", l)
    BY <2>2, <2>3, <2>4, <2>5 DEF ConnectionOK
  <2> QED BY <2>1, <2>6, QuietGoto
<1>9. CASE FillOpen(c)
  <2>1. /\ pc[c] = "fill" /\ Goto(c, "filling", loc[c]) /\ store_lock' = c
        /\ files' = WithFile(Target(c), loc[c].entry.generation, Torn)
        /\ UNCHANGED <<dirty_objects, manifest_state, manifest, manifest_lock, remote, budget>>
    BY <1>9 DEF FillOpen
  <2>2. ConnectionOK(channel, "filling", loc[c])
    BY <2>1, SameOK
  <2>3. ConnectionsOK'
    BY <2>1, <2>2, GotoKeeps DEF remote
  <2>4. loc[c].entry.generation \in Nat /\ Target(c) \in Nat
    BY <2>1, TargetOK DEF ConnectionOK, StoredEntry
  <2>5. manifest_lock' \in Clients \cup {None} /\ store_lock' \in Clients \cup {None}
    BY <2>1 DEF DeviceInv, VariablesOK
  <2> QED BY <2>1, <2>3, <2>4, <2>5, FileStep
<1>10. CASE FillBytes(c)
  <2>1. /\ pc[c] = "filling" /\ store_lock' = None
        /\ files' = WithFile(Target(c), loc[c].entry.generation, loc[c].encoded)
        /\ Return(c, loc[c].encoded.payload)
        /\ UNCHANGED <<dirty_objects, manifest_state, manifest, manifest_lock, remote, budget>>
    BY <1>10 DEF FillBytes
  <2>2. /\ loc[c].entry.generation \in Nat /\ Target(c) \in Nat /\ loc[c].encoded \in Encoded
    BY <2>1, TargetOK DEF ConnectionOK, StoredEntry
  <2>3. loc[c].encoded.payload \in Payload
    BY <2>2 DEF Encoded, Payload
  <2>4. ConnectionsOK'
    BY <2>1, <2>3, ReturnKeeps DEF remote
  <2>5. manifest_lock' \in Clients \cup {None} /\ store_lock' \in Clients \cup {None}
    BY <2>1 DEF DeviceInv, VariablesOK
  <2> QED BY <2>1, <2>2, <2>4, <2>5, FileStep
<1>11. CASE Reply(c)
  BY <1>11, IdleOK, QuietGoto DEF Reply
<1> QED BY <1>1, <1>2, <1>3, <1>4, <1>5, <1>6, <1>7, <1>8, <1>9, <1>10, <1>11 DEF ReadStep

\* A step that, besides, changes the dirty_objects table.
LEMMA RowsStep ==
  ASSUME DeviceInv, dirty_objects' \in Rows,
         UNCHANGED <<files, manifest_state, manifest, remote>>, ConnectionsOK',
         manifest_lock' \in Clients \cup {None}, store_lock' \in Clients \cup {None},
         budget' = budget \/ budget' \in [writes : Nat, flushes : Nat, faults : Nat,
                                        store_faults : Nat, crashes : Nat, moves : Nat]
  PROVE  DeviceInv'
<1>1. VariablesOK'
  BY DEF DeviceInv, VariablesOK
<1>2. RemoteOK'
  BY DEF DeviceInv, RemoteOK, remote
<1> QED BY <1>1, <1>2 DEF DeviceInv

\* mark_dirty's row is a row of the table.
LEMMA DirtyRowOK ==
  ASSUME DeviceInv, NEW c \in Clients, pc[c] = "mark_dirty"
  PROVE  [dirty_objects EXCEPT ![Target(c)] = DirtyRow(c)] \in Rows
<1>1. loc[c].generation \in Nat /\ loc[c].encoded \in Encoded
  BY OneConnection DEF ConnectionOK, Locals
<1>2. DirtyRow(c) \in Row
  BY <1>1 DEF DirtyRow, Row
<1> QED BY <1>2, TargetOK DEF DeviceInv, VariablesOK, Rows

\* The steps of write_dirty_object.
LEMMA WriteKeeps ==
  ASSUME DeviceInv, NEW c \in Clients, WriteStep(c)
  PROVE  DeviceInv'
<1> USE OneConnection
<1>1. CASE CheckLimit(c)
  <2>1. ConnectionOK(channel, "generation", loc[c])
    BY <1>1, SameOK DEF CheckLimit
  <2> QED BY <1>1, <2>1, QuietGoto DEF CheckLimit
<1>2. CASE LimitReached(c)
  BY <1>2, QuietAbort DEF LimitReached
<1>3. CASE NextGeneration(c)
  <2> DEFINE g == manifest.generation + 1
             bytes == Encode(Target(c), g, Overlay(loc[c], loc[c].object))
             l == [loc[c] EXCEPT !.generation = g, !.encoded = bytes]
  <2>1. /\ pc[c] = "generation" /\ Goto(c, "write_cache", l)
        /\ UNCHANGED <<local, manifest, locks, remote, budget>>
    BY <1>3 DEF NextGeneration
  <2>2. ConnectionOK(channel, "generation", loc[c])
    BY <2>1
  <2>3. g \in Nat /\ Target(c) \in Nat
    BY <2>1, TargetOK DEF DeviceInv, VariablesOK, Manifest
  <2>4. Overlay(loc[c], loc[c].object) \in Payload
    <3>1. loc[c].object \in Payload
      BY DEF Locals, Payload
    <3>2. loc[c].remaining <= Len(loc[c].bytes)
      BY <2>2 DEF ConnectionOK
    <3> QED BY <3>1, <3>2, OverlayOK
  <2>5. bytes \in Encoded
    BY <2>3, <2>4 DEF Encode, Encoded, Payload
  <2> HIDE DEF bytes, g
  <2>6. /\ l \in Locals /\ l.op = loc[c].op /\ l.cursor = loc[c].cursor
        /\ l.remaining = loc[c].remaining /\ l.bytes = loc[c].bytes
        /\ l.entries = loc[c].entries /\ l.encoded = bytes
    BY <2>3, <2>5 DEF Locals
  <2> HIDE DEF l
  <2>7. "write_cache" \in Labels
    BY DEF Labels
  <2>8. ConnectionOK(channel, "write_cache", l)
    BY <2>2, <2>5, <2>6, <2>7 DEF ConnectionOK
  <2> QED BY <2>1, <2>8, QuietGoto
<1>4. CASE WriteCacheOpen(c)
  <2>1. /\ pc[c] = "write_cache" /\ Goto(c, "write_bytes", loc[c]) /\ store_lock' = c
        /\ files' = WithFile(Target(c), loc[c].generation, Torn)
        /\ UNCHANGED <<dirty_objects, manifest_state, manifest, manifest_lock, remote, budget>>
    BY <1>4 DEF WriteCacheOpen
  <2>2. ConnectionOK(channel, "write_bytes", loc[c])
    BY <2>1, SameOK
  <2>3. ConnectionsOK'
    BY <2>1, <2>2, GotoKeeps DEF remote
  <2>4. loc[c].generation \in Nat /\ Target(c) \in Nat
    BY <2>1, TargetOK DEF Locals
  <2>5. manifest_lock' \in Clients \cup {None} /\ store_lock' \in Clients \cup {None}
    BY <2>1 DEF DeviceInv, VariablesOK
  <2> QED BY <2>1, <2>3, <2>4, <2>5, FileStep
<1>5. CASE WriteCacheBytes(c)
  <2>1. /\ pc[c] = "write_bytes" /\ Goto(c, "mark_dirty", loc[c])
        /\ files' = WithFile(Target(c), loc[c].generation, loc[c].encoded)
        /\ UNCHANGED <<dirty_objects, manifest_state, manifest, locks, remote, budget>>
    BY <1>5 DEF WriteCacheBytes
  <2>2. ConnectionOK(channel, "mark_dirty", loc[c])
    BY <2>1, SameOK
  <2>3. ConnectionsOK'
    BY <2>1, <2>2, GotoKeeps DEF remote
  <2>4. loc[c].generation \in Nat /\ Target(c) \in Nat /\ loc[c].encoded \in Encoded
    BY <2>1, TargetOK DEF Locals, ConnectionOK
  <2>5. manifest_lock' \in Clients \cup {None} /\ store_lock' \in Clients \cup {None}
    BY <2>1 DEF DeviceInv, VariablesOK, locks
  <2> QED BY <2>1, <2>3, <2>4, <2>5, FileStep
<1>6. CASE MarkDirty(c)
  <2> DEFINE l == Advance(loc[c])
  <2>1. /\ pc[c] = "mark_dirty" /\ Goto(c, LoopHead(l), l) /\ store_lock' = None
        /\ dirty_objects' = [dirty_objects EXCEPT ![Target(c)] = DirtyRow(c)]
        /\ UNCHANGED <<files, manifest_state, manifest, manifest_lock, remote, budget>>
    BY <1>6 DEF MarkDirty
  <2>2. /\ loc[c].op = "write" /\ InBounds(loc[c].cursor, loc[c].remaining)
        /\ loc[c].remaining <= Len(loc[c].bytes) /\ IsFiniteSet(loc[c].entries)
    BY <2>1 DEF ConnectionOK
  <2>3. /\ l \in Locals /\ InBounds(l.cursor, l.remaining) /\ l.op = "write"
        /\ l.bytes = loc[c].bytes /\ l.remaining <= loc[c].remaining
        /\ IsFiniteSet(l.entries)
    BY <2>2, AdvanceOK
  <2> HIDE DEF l
  <2>4. l.remaining <= Len(l.bytes)
    <3>1. /\ l.remaining \in Nat /\ loc[c].remaining \in Nat /\ Len(loc[c].bytes) \in Nat
      BY <2>3 DEF Locals
    <3> QED BY <2>2, <2>3, <3>1
  <2>5. ConnectionOK(channel, LoopHead(l), l)
    BY <2>3, <2>4, LoopHeadOK
  <2>6. ConnectionsOK'
    BY <2>1, <2>5, GotoKeeps DEF remote
  <2>7. dirty_objects' \in Rows
    BY <2>1, DirtyRowOK
  <2>8. manifest_lock' \in Clients \cup {None} /\ store_lock' \in Clients \cup {None}
    BY <2>1 DEF DeviceInv, VariablesOK
  <2> QED BY <2>1, <2>6, <2>7, <2>8, RowsStep
<1> QED BY <1>1, <1>2, <1>3, <1>4, <1>5, <1>6 DEF WriteStep

\* A step that goes on, takes or lets go of a mutex, and may use up part of a bound.
LEMMA LockGoto ==
  ASSUME DeviceInv, NEW c \in Clients, NEW next, NEW l, Goto(c, next, l),
         ConnectionOK(channel, next, l), UNCHANGED <<local, manifest, remote>>,
         manifest_lock' \in Clients \cup {None}, store_lock' \in Clients \cup {None},
         budget' = budget \/ budget' \in [writes : Nat, flushes : Nat, faults : Nat,
                                        store_faults : Nat, crashes : Nat, moves : Nat]
  PROVE  DeviceInv'
<1>1. channel' = channel
  BY DEF remote
<1>2. ConnectionsOK'
  BY <1>1, GotoKeeps
<1> QED BY <1>2, QuietStep

\* What every step keeps of the locals.
LEMMA BasicsOK ==
  ASSUME DeviceInv, NEW c \in Clients
  PROVE  /\ loc[c] \in Locals /\ IsFiniteSet(loc[c].entries)
         /\ loc[c].op = "write" => loc[c].remaining <= Len(loc[c].bytes)
         /\ ConnectionOK(channel, "reply", loc[c])
         /\ manifest_lock \in Clients \cup {None} /\ store_lock \in Clients \cup {None}
<1>1. /\ loc[c] \in Locals /\ IsFiniteSet(loc[c].entries)
      /\ loc[c].op = "write" => loc[c].remaining <= Len(loc[c].bytes)
  BY OneConnection DEF ConnectionOK
<1>2. ConnectionOK(channel, "reply", loc[c])
  BY <1>1, PlainOK
<1> QED BY <1>1, <1>2 DEF DeviceInv, VariablesOK

\* The read-ahead fills the object with the smallest id first.
LEMMA NextFillOK ==
  ASSUME DeviceInv, NEW c \in Clients, pc[c] \in {"prefetch_fill", "prefetch_filling"}
  PROVE  /\ NextFill(c) \in loc[c].entries
         /\ NextFill(c).object_id \in Nat /\ NextFill(c).entry.generation \in Nat
         /\ NextFill(c).entry.sha256 \in Encoded
<1> DEFINE S == loc[c].entries
           f == [e \in S |-> 0 - e.object_id]
<1>1. IsFiniteSet(S) /\ S # {} /\ S \subseteq [object_id : ManifestObjects, entry : StoredEntry]
  BY OneConnection DEF ConnectionOK, Locals
<1>2. \A e \in S : e.object_id \in Nat /\ e.entry \in StoredEntry
  BY <1>1, FormatAssumption DEF ManifestObjects
<1>3. f \in [S -> Int]
  BY <1>2
<1>4. PICK x \in S : \A y \in S : f[y] <= f[x]
  <2> HIDE DEF f, S
  <2> QED BY <1>1, <1>3, ArgMax
<1>5. \A y \in S : x.object_id <= y.object_id
  <2>1. \A y \in S : f[y] = 0 - y.object_id
    OBVIOUS
  <2> HIDE DEF f, S
  <2> QED BY <1>2, <1>4, <2>1
<1>6. NextFill(c) \in S
  <2> HIDE DEF f, S
  <2>1. \E e \in S : \A y \in S : e.object_id <= y.object_id
    BY <1>5
  <2>2. NextFill(c) = CHOOSE e \in S : \A y \in S : e.object_id <= y.object_id
    BY DEF NextFill, S
  <2> QED BY <2>1, <2>2
<1>7. NextFill(c).object_id \in Nat /\ NextFill(c).entry \in StoredEntry
  BY <1>2, <1>6
<1> QED BY <1>6, <1>7 DEF StoredEntry

\* What the fill steps of the read-ahead ask of the locals.
LEMMA EntriesOK ==
  ASSUME NEW ch, NEW l \in Locals, IsFiniteSet(l.entries), l.entries # {},
         l.op = "write" => l.remaining <= Len(l.bytes), NEW p, p = "prefetch_fill"
  PROVE  ConnectionOK(ch, p, l)
<1>1. p \in Labels
  BY DEF Labels
<1> QED BY <1>1 DEF ConnectionOK

\* The steps of prefetch_objects.
LEMMA PrefetchKeeps ==
  ASSUME DeviceInv, NEW c \in Clients, PrefetchStep(c)
  PROVE  DeviceInv'
<1> USE BasicsOK
<1>1. CASE PrefetchDirtyIds(c)
  <2> DEFINE l == [loc[c] EXCEPT !.snapshot = dirty_objects]
  <2>1. Goto(c, "prefetch_lock", l) /\ UNCHANGED <<local, manifest, locks, remote, budget>>
    BY <1>1 DEF PrefetchDirtyIds
  <2>2. /\ l \in Locals /\ l.op = loc[c].op /\ l.remaining = loc[c].remaining
        /\ l.bytes = loc[c].bytes /\ l.entries = loc[c].entries
    BY DEF Locals, DeviceInv, VariablesOK
  <2> HIDE DEF l
  <2>3. ConnectionOK(channel, "prefetch_lock", l)
    BY <2>2, PlainOK
  <2> QED BY <2>1, <2>3, QuietGoto
<1>2. CASE PrefetchLock(c)
  <2> DEFINE l == [loc[c] EXCEPT !.scan = Target(c)]
  <2>1. /\ Goto(c, "prefetch_scan", l) /\ manifest_lock' = c
        /\ UNCHANGED <<local, manifest, store_lock, remote, budget>>
    BY <1>2 DEF PrefetchLock
  <2>2. Target(c) \in Nat
    BY DivMod DEF Target, Locals
  <2>3. /\ l \in Locals /\ l.op = loc[c].op /\ l.remaining = loc[c].remaining
        /\ l.bytes = loc[c].bytes /\ l.entries = loc[c].entries
    BY <2>2 DEF Locals
  <2> HIDE DEF l
  <2>4. ConnectionOK(channel, "prefetch_scan", l)
    BY <2>3, PlainOK
  <2> QED BY <2>1, <2>4, LockGoto
<1>3. CASE PrefetchSkip(c)
  <2> DEFINE l == [loc[c] EXCEPT !.scan = loc[c].scan + 1]
  <2>1. Goto(c, "prefetch_scan", l) /\ UNCHANGED <<local, manifest, locks, remote, budget>>
    BY <1>3 DEF PrefetchSkip
  <2>2. /\ l \in Locals /\ l.op = loc[c].op /\ l.remaining = loc[c].remaining
        /\ l.bytes = loc[c].bytes /\ l.entries = loc[c].entries
    <3>1. loc[c].scan + 1 \in Nat
      BY DEF Locals
    <3> QED BY <3>1 DEF Locals
  <2> HIDE DEF l
  <2>3. ConnectionOK(channel, "prefetch_scan", l)
    BY <2>2, PlainOK
  <2> QED BY <2>1, <2>3, QuietGoto
<1>4. CASE PrefetchWant(c)
  <2> DEFINE o == loc[c].scan
             e == [object_id |-> o, entry |-> manifest.objects[o]]
             l == [loc[c] EXCEPT !.scan = o + 1, !.entries = @ \cup {e}]
  <2>1. /\ Goto(c, "prefetch_scan", l) /\ UNCHANGED <<local, manifest, locks, remote, budget>>
        /\ o \in ManifestObjects /\ ~manifest.objects[o].zero
    BY <1>4 DEF PrefetchWant
  <2>2. manifest.objects[o] \in StoredEntry
    BY <2>1 DEF DeviceInv, VariablesOK, Manifest, Entry, ZeroEntry
  <2>3. e \in [object_id : ManifestObjects, entry : StoredEntry]
    BY <2>1, <2>2
  <2> HIDE DEF e
  <2>4. /\ l \in Locals /\ l.op = loc[c].op /\ l.remaining = loc[c].remaining
        /\ l.bytes = loc[c].bytes /\ l.entries = loc[c].entries \cup {e}
    <3>1. o + 1 \in Nat
      BY DEF Locals
    <3>2. loc[c].entries \cup {e} \in SUBSET [object_id : ManifestObjects, entry : StoredEntry]
      BY <2>3 DEF Locals
    <3> QED BY <3>1, <3>2 DEF Locals
  <2> HIDE DEF l
  <2>5. IsFiniteSet(l.entries)
    BY <2>4, FS_AddElement
  <2>6. ConnectionOK(channel, "prefetch_scan", l)
    BY <2>4, <2>5, PlainOK
  <2> QED BY <2>1, <2>6, QuietGoto
<1>5. CASE PrefetchRejected(c)
  <2>1. /\ Goto(c, "reply", loc[c]) /\ manifest_lock' = None
        /\ UNCHANGED <<local, manifest, store_lock, remote, budget>>
    BY <1>5 DEF PrefetchRejected
  <2> QED BY <2>1, LockGoto
<1>6. CASE PrefetchScanned(c)
  <2> DEFINE next == IF loc[c].entries = {} THEN "reply" ELSE "prefetch_fetch"
  <2>1. /\ Goto(c, next, loc[c]) /\ manifest_lock' = None
        /\ UNCHANGED <<local, manifest, store_lock, remote, budget>>
    BY <1>6 DEF PrefetchScanned
  <2>2. ConnectionOK(channel, next, loc[c])
    BY PlainOK
  <2> HIDE DEF next
  <2> QED BY <2>1, <2>2, LockGoto
<1>7. CASE PrefetchFetch(c)
  <2> DEFINE l == [loc[c] EXCEPT !.entries = Fetched(c)]
             next == IF Fetched(c) = {} THEN "reply" ELSE "prefetch_fill"
  <2>1. Goto(c, next, l) /\ UNCHANGED <<local, manifest, locks, remote, budget>>
    BY <1>7 DEF PrefetchFetch
  <2>2. Fetched(c) \subseteq loc[c].entries
    BY DEF Fetched
  <2>3. /\ l \in Locals /\ l.op = loc[c].op /\ l.remaining = loc[c].remaining
        /\ l.bytes = loc[c].bytes /\ l.entries = Fetched(c)
    BY <2>2 DEF Locals
  <2> HIDE DEF l
  <2>4. IsFiniteSet(l.entries)
    BY <2>2, <2>3, FS_Subset
  <2>5. ConnectionOK(channel, next, l)
    BY <2>3, <2>4, PlainOK, EntriesOK
  <2> HIDE DEF next
  <2> QED BY <2>1, <2>5, QuietGoto
<1>8. CASE PrefetchFillOpen(c)
  <2>1. /\ pc[c] = "prefetch_fill" /\ store_lock' = c
        /\ files' = WithFile(NextFill(c).object_id, NextFill(c).entry.generation, Torn)
        /\ Goto(c, "prefetch_filling", loc[c])
        /\ UNCHANGED <<dirty_objects, manifest_state, manifest, manifest_lock, remote, budget>>
    BY <1>8 DEF PrefetchFillOpen
  <2>2. ConnectionOK(channel, "prefetch_filling", loc[c])
    BY <2>1, OneConnection, SameOK
  <2>3. ConnectionsOK'
    BY <2>1, <2>2, GotoKeeps DEF remote
  <2> QED BY <2>1, <2>3, NextFillOK, FileStep
<1>9. CASE PrefetchFillBytes(c)
  <2> DEFINE e == NextFill(c)
             rest == loc[c].entries \ {e}
             l == [loc[c] EXCEPT !.entries = rest]
             next == IF rest = {} THEN "reply" ELSE "prefetch_fill"
  <2>1. /\ pc[c] = "prefetch_filling" /\ store_lock' = None /\ Goto(c, next, l)
        /\ files' = WithFile(e.object_id, e.entry.generation, e.entry.sha256)
        /\ UNCHANGED <<dirty_objects, manifest_state, manifest, manifest_lock, remote, budget>>
    BY <1>9 DEF PrefetchFillBytes
  <2>2. /\ l \in Locals /\ l.op = loc[c].op /\ l.remaining = loc[c].remaining
        /\ l.bytes = loc[c].bytes /\ l.entries = rest
    BY DEF Locals
  <2>3. IsFiniteSet(rest)
    BY FS_Subset
  <2> HIDE DEF l, rest
  <2>4. ConnectionOK(channel, next, l)
    BY <2>2, <2>3, PlainOK, EntriesOK
  <2> HIDE DEF next
  <2>5. ConnectionsOK'
    BY <2>1, <2>4, GotoKeeps DEF remote
  <2>6. /\ e.object_id \in Nat /\ e.entry.generation \in Nat /\ e.entry.sha256 \in Encoded
    BY <2>1, NextFillOK
  <2> HIDE DEF e
  <2> QED BY <2>1, <2>5, <2>6, FileStep
<1> QED BY <1>1, <1>2, <1>3, <1>4, <1>5, <1>6, <1>7, <1>8, <1>9 DEF PrefetchStep

-----------------------------------------------------------------------------
(* The flush *)

\* A step of the flush: it may send a message, pin one, change the manifest.
LEMMA RemoteStep ==
  ASSUME DeviceInv, channel' = channel \/ Grows(channel, channel'), ChannelOK(channel'),
         manifest' \in Manifest, ManifestOK(channel', manifest'),
         pinned' = pinned \/ (pinned' \in Nat /\ Exists(channel', pinned', "superblock")),
         UNCHANGED <<dirty_objects, files, manifest_state>>, ConnectionsOK',
         manifest_lock' \in Clients \cup {None}, store_lock' \in Clients \cup {None},
         budget' = budget \/ budget' \in [writes : Nat, flushes : Nat, faults : Nat,
                                        store_faults : Nat, crashes : Nat, moves : Nat]
  PROVE  DeviceInv'
<1>1. VariablesOK'
  BY DEF DeviceInv, VariablesOK
<1>2. channel' \in Seq(Message) /\ ManifestOK(channel', manifest_state)
  BY GrowsKeeps DEF DeviceInv, RemoteOK, Grows
<1>3. pinned' \in Nat /\ (pinned' # 0 => Exists(channel', pinned', "superblock"))
  BY GrowsKeeps DEF DeviceInv, RemoteOK
<1>4. RemoteOK'
  BY <1>2, <1>3 DEF RemoteOK
<1> QED BY <1>1, <1>4 DEF DeviceInv

\* A message of a kind has a body of that kind.
LEMMA KindOK ==
  ASSUME NEW msg \in Message
  PROVE  /\ msg.kind = "object" => msg.body \in Encoded
         /\ msg.kind = "manifest" => msg.body \in Manifest
         /\ msg.kind = "superblock" => msg.body \in Superblock
BY DEF Message

\* The dirty objects of a table are finitely many, and are objects.
LEMMA DirtyIdsOK ==
  ASSUME NEW rows \in Rows
  PROVE  /\ IsFiniteSet(DirtyIds(rows)) /\ DirtyIds(rows) \subseteq Objects
         /\ DirtyIds(rows) \subseteq Nat
         /\ \A o \in DirtyIds(rows) : rows[o] \in Row
<1>1. object_count \in Nat
  BY ObjectCount
<1>2. IsFiniteSet(Objects)
  BY <1>1, FS_Interval DEF Objects
<1>3. DirtyIds(rows) \subseteq Objects
  BY DEF DirtyIds
<1>4. IsFiniteSet(DirtyIds(rows))
  BY <1>2, <1>3, FS_Subset
<1>5. \A o \in DirtyIds(rows) : rows[o] \in Row
  BY DEF DirtyIds, Rows
<1>6. Objects \subseteq Nat
  BY <1>1 DEF Objects
<1> QED BY <1>3, <1>4, <1>5, <1>6

\* The object a flush uploads next is one of its snapshot.
LEMMA FlushTargetOK ==
  ASSUME DeviceInv, NEW c \in Clients, pc[c] = "flush_object"
  PROVE  /\ FlushTarget(c) \in DirtyIds(loc[c].snapshot)
         /\ FlushTarget(c) \in Objects
         /\ loc[c].snapshot[FlushTarget(c)] \in Row
<1>1. loc[c].snapshot \in Rows /\ DirtyIds(loc[c].snapshot) # {}
  BY OneConnection DEF ConnectionOK, Locals
<1> DEFINE D == DirtyIds(loc[c].snapshot)
<1>2. /\ IsFiniteSet(D) /\ D \subseteq Objects /\ D \in SUBSET Int /\ D # {}
      /\ \A o \in D : loc[c].snapshot[o] \in Row
  BY <1>1, DirtyIdsOK
<1> HIDE DEF D
<1>3. Min(D) \in D
  BY <1>2, MinIsSmallest
<1>4. FlushTarget(c) = Min(D)
  BY DEF FlushTarget, D
<1> QED BY <1>2, <1>3, <1>4 DEF D

\* What the steps over the snapshot of a flush ask of the locals.
LEMMA SnapshotOK ==
  ASSUME NEW ch, NEW l \in Locals, IsFiniteSet(l.entries), DirtyIds(l.snapshot) # {},
         l.op = "write" => l.remaining <= Len(l.bytes),
         NEW p, p \in {"flush_lock", "flush_object"}
  PROVE  ConnectionOK(ch, p, l)
<1>1. p \in Labels
  BY DEF Labels
<1> QED BY <1>1 DEF ConnectionOK

\* A table with a row has a dirty object.
LEMMA NotEmptyOK ==
  ASSUME NEW rows \in Rows, rows # NoRows
  PROVE  DirtyIds(rows) # {}
BY DEF DirtyIds, NoRows, Rows

\* A row the flush could read is the encoding of its own object.
LEMMA ReadableOK ==
  ASSUME DeviceInv, NEW c \in Clients, pc[c] = "flush_object", FlushReadable(c)
  PROVE  LET bytes == loc[c].snapshot[FlushTarget(c)].sha256
         IN  /\ bytes \in Encoded /\ bytes.object_id = FlushTarget(c)
             /\ ObjectMessage(bytes) \in Message
<1>1. loc[c].snapshot[FlushTarget(c)].sha256 \in Encoded
  BY FlushTargetOK DEF Row
<1>2. loc[c].snapshot[FlushTarget(c)].sha256.object_id = FlushTarget(c)
  BY DEF FlushReadable, Verifies
<1> QED BY <1>1, <1>2 DEF ObjectMessage, Message

\* Uploading an object under a message id that was never used keeps the manifest safe
\* to commit: the new entry is backed, the one it replaces becomes garbage, and no
\* other entry refers to that garbage, because a message is of one object only.
LEMMA UploadedOK ==
  ASSUME NEW ch \in Seq(Message), NEW m \in Manifest, ManifestOK(ch, m),
         NEW o \in ManifestObjects, NEW bytes \in Encoded, bytes.object_id = o
  PROVE  /\ WithUploaded(m, o, bytes, Len(ch) + 1) \in Manifest
         /\ ManifestOK(Append(ch, ObjectMessage(bytes)), WithUploaded(m, o, bytes, Len(ch) + 1))
<1> DEFINE id == Len(ch) + 1
           ch2 == Append(ch, ObjectMessage(bytes))
           e == [generation |-> bytes.generation, remote |-> id, sha256 |-> bytes, zero |-> FALSE]
           old == m.objects[o].remote
           g2 == IF old # 0 THEN m.garbage \cup {old} ELSE m.garbage
           m2 == WithUploaded(m, o, bytes, id)
<1>1. ObjectMessage(bytes) \in Message
  BY DEF ObjectMessage, Message
<1>2. /\ Grows(ch, ch2) /\ ch2[id] = ObjectMessage(bytes) /\ id \in DOMAIN ch2
      /\ id \notin DOMAIN ch /\ id \in Nat \ {0} /\ DOMAIN ch \subseteq Nat
  BY <1>1, AppendGrows
<1> HIDE DEF ch2, id
<1>3. e \in StoredEntry /\ e \in Entry
  BY <1>2 DEF StoredEntry, Entry, Encoded
<1>4. /\ m2.objects = [m.objects EXCEPT ![o] = e] /\ m2.garbage = g2
      /\ m2.generation = m.generation /\ m2 = [m EXCEPT !.objects = m2.objects, !.garbage = g2]
  BY DEF WithUploaded, Manifest
<1>5. /\ m.objects \in [ManifestObjects -> Entry] /\ m.garbage \in SUBSET Nat
      /\ m.objects[o] \in Entry
  BY DEF Manifest
<1>6. old # 0 => old \in DOMAIN ch /\ ~m.objects[o].zero
  BY <1>5 DEF ManifestOK, Backed, Exists, Entry, ZeroEntry, StoredEntry
<1> HIDE DEF e, m2, old
<1>7. g2 \subseteq DOMAIN ch
  BY <1>6 DEF ManifestOK
<1>8. m2 \in Manifest
  <2>1. m2.objects \in [ManifestObjects -> Entry]
    BY <1>3, <1>4, <1>5
  <2>2. g2 \in SUBSET Nat
    BY <1>2, <1>7
  <2> HIDE DEF g2
  <2> QED BY <1>4, <2>1, <2>2 DEF Manifest
<1>9. \A p \in ManifestObjects : p # o => m2.objects[p] = m.objects[p]
  BY <1>4, <1>5
<1>10. m2.objects[o] = e
  BY <1>4, <1>5
<1>11. Backed(ch2, m2)
  <2> SUFFICES ASSUME NEW p \in ManifestObjects, ~m2.objects[p].zero
               PROVE  /\ Exists(ch2, m2.objects[p].remote, "object")
                      /\ Verifies(ch2[m2.objects[p].remote].body, p,
                                  m2.objects[p].generation, m2.objects[p].sha256)
    BY DEF Backed
  <2>1. CASE p = o
    <3>1. e.remote = id /\ e.sha256 = bytes /\ e.generation = bytes.generation
      BY DEF e
    <3>2. ch2[id].kind = "object" /\ ch2[id].body = bytes
      BY <1>2 DEF ObjectMessage
    <3>3. bytes # Torn
      BY FormatAssumption
    <3> QED BY <1>2, <1>10, <2>1, <3>1, <3>2, <3>3 DEF Exists, Verifies
  <2>2. CASE p # o
    <3>1. Backed(ch2, m)
      BY <1>2, GrowsKeeps DEF ManifestOK
    <3> QED BY <1>9, <2>2, <3>1 DEF Backed
  <2> QED BY <2>1, <2>2
<1>12. g2 \cap Live(m2) = {}
  <2> SUFFICES ASSUME NEW p \in ManifestObjects, m2.objects[p].remote \in g2,
                      m2.objects[p].remote # 0
               PROVE  FALSE
    BY DEF Live
  <2>1. p # o
    BY <1>2, <1>7, <1>10 DEF e
  <2>2. m2.objects[p] = m.objects[p] /\ m.objects[p] \in Entry
    BY <1>5, <1>9, <2>1
  <2>3. m.objects[p].remote \notin m.garbage
    BY <2>2 DEF ManifestOK, Live
  <2>4. m.objects[p].remote = old /\ old # 0
    BY <2>2, <2>3
  <2>5. ~m.objects[p].zero /\ ~m.objects[o].zero
    BY <1>6, <2>2, <2>4 DEF Entry, ZeroEntry, StoredEntry
  <2>6. ch[old].body.object_id = p
    BY <2>4, <2>5 DEF ManifestOK, Backed, Verifies
  <2>7. ch[old].body.object_id = o
    BY <2>5 DEF ManifestOK, Backed, Verifies, old
  <2> QED BY <2>1, <2>6, <2>7
<1>13. ManifestOK(ch2, m2)
  BY <1>2, <1>4, <1>7, <1>11, <1>12 DEF ManifestOK, Grows
<1> QED BY <1>8, <1>13 DEF m2, id, ch2

\* A manifest is judged by its entries and its garbage alone.
LEMMA SameObjectsOK ==
  ASSUME NEW ch, NEW m, NEW m2, ManifestOK(ch, m), m2.objects = m.objects,
         m2.garbage = m.garbage
  PROVE  ManifestOK(ch, m2)
BY DEF ManifestOK, Backed, Live

\* commit_manifest: the manifest it uploads is served under the reference it puts in
\* the superblock, and so is the one the pinned superblock calls current.
LEMMA CommitOK ==
  ASSUME DeviceInv, NEW c \in Clients, FlushManifest(c)
  PROVE  LET ref == [message_id |-> Len(channel) + 1, generation |-> manifest.generation]
             sb == ForManifest(channel, pinned, ref)
         IN  /\ ManifestMessage(manifest) \in Message
             /\ channel' = Append(channel, ManifestMessage(manifest))
             /\ sb \in Superblock /\ SuperblockOK(channel', sb)
<1> DEFINE id == Len(channel) + 1
           ref == [message_id |-> id, generation |-> manifest.generation]
           sb == ForManifest(channel, pinned, ref)
<1>1. /\ channel \in Seq(Message) /\ manifest \in Manifest /\ ManifestOK(channel, manifest)
      /\ ChannelOK(channel)
  BY DEF DeviceInv, RemoteOK, VariablesOK
<1>2. ManifestMessage(manifest) \in Message
  BY <1>1 DEF ManifestMessage, Message
<1>3. channel' = Append(channel, ManifestMessage(manifest))
  BY DEF FlushManifest
<1>4. /\ Grows(channel, channel') /\ id \in DOMAIN channel' /\ id \in Nat
      /\ channel'[id] = ManifestMessage(manifest)
  BY <1>1, <1>2, <1>3, AppendGrows
<1> HIDE DEF id
<1>5. ref \in ManifestRef
  BY <1>1, <1>4 DEF ManifestRef, Manifest
<1>6. Served(channel', ref)
  <2>1. Backed(channel', manifest)
    BY <1>1, <1>4, GrowsKeeps DEF ManifestOK
  <2>2. channel'[id].kind = "manifest" /\ channel'[id].body = manifest
    BY <1>4 DEF ManifestMessage
  <2> QED BY <1>4, <2>1, <2>2 DEF Served, Exists
<1>7. /\ sb.current = ref
      /\ sb.previous = IF pinned = 0 THEN None ELSE channel[pinned].body.current
      /\ sb = [device_size |-> device_size, current |-> ref, previous |-> sb.previous]
      /\ device_size \in Nat
  BY SizeAssumption DEF ForManifest
<1> HIDE DEF sb, ref
<1>8. CASE pinned = 0
  BY <1>5, <1>6, <1>7, <1>8, <1>2, <1>3 DEF Superblock, SuperblockOK, sb, ref, id
<1>9. CASE pinned # 0
  <2>1. pinned \in DOMAIN channel /\ channel[pinned].kind = "superblock"
    BY <1>9 DEF DeviceInv, RemoteOK, Exists
  <2>2. channel[pinned] \in Message
    BY <1>1, <2>1
  <2>3. channel[pinned].body \in Superblock
    BY <2>1, <2>2, KindOK
  <2>4. channel[pinned].body.current \in ManifestRef
    BY <2>3 DEF Superblock
  <2>5. Served(channel, channel[pinned].body.current)
    BY <1>1, <2>1 DEF ChannelOK, SuperblockOK
  <2>6. Served(channel', channel[pinned].body.current)
    BY <1>1, <1>4, <2>5, GrowsKeeps
  <2>7. sb \in Superblock
    BY <1>5, <1>7, <1>9, <2>4 DEF Superblock
  <2>8. SuperblockOK(channel', sb)
    BY <1>6, <1>7, <1>9, <2>6 DEF SuperblockOK
  <2> QED BY <1>2, <1>3, <2>7, <2>8 DEF sb, ref, id
<1> QED BY <1>8, <1>9

\* What the steps between the manifest and the end of the commit ask of the locals.
LEMMA SuperblockLocalsOK ==
  ASSUME NEW ch, NEW l \in Locals, IsFiniteSet(l.entries),
         l.op = "write" => l.remaining <= Len(l.bytes),
         l.superblock \in Superblock, SuperblockOK(ch, l.superblock),
         NEW p, p \in {"flush_superblock", "flush_pin", "flush_backup"},
         p = "flush_pin" => Exists(ch, l.message, "superblock")
  PROVE  ConnectionOK(ch, p, l)
<1>1. p \in Labels
  BY DEF Labels
<1> QED BY <1>1 DEF ConnectionOK

\* Sending the superblock a flush has built keeps the channel in order.
LEMMA SendSuperblockOK ==
  ASSUME DeviceInv, NEW c \in Clients, pc[c] \in {"flush_superblock", "flush_backup"}
  PROVE  /\ SuperblockMessage(loc[c].superblock) \in Message
         /\ ChannelOK(Append(channel, SuperblockMessage(loc[c].superblock)))
         /\ loc[c].superblock \in Superblock /\ SuperblockOK(channel, loc[c].superblock)
<1> DEFINE msg == SuperblockMessage(loc[c].superblock)
<1>1. loc[c].superblock \in Superblock /\ SuperblockOK(channel, loc[c].superblock)
  BY OneConnection DEF ConnectionOK
<1>2. msg \in Message /\ msg.kind = "superblock" /\ msg.body = loc[c].superblock
  BY <1>1 DEF SuperblockMessage, Message
<1>3. channel \in Seq(Message) /\ ChannelOK(channel)
  BY DEF DeviceInv, RemoteOK
<1> HIDE DEF msg
<1>4. ChannelOK(Append(channel, msg))
  BY <1>1, <1>2, <1>3, AppendOK
<1> QED BY <1>1, <1>2, <1>4 DEF msg

\* Sending an object of the snapshot keeps the channel in order.
LEMMA SendObjectOK ==
  ASSUME DeviceInv, NEW c \in Clients, pc[c] = "flush_object", FlushReadable(c)
  PROVE  LET msg == ObjectMessage(loc[c].snapshot[FlushTarget(c)].sha256)
         IN  msg \in Message /\ ChannelOK(Append(channel, msg)) /\ Grows(channel, Append(channel, msg))
<1> DEFINE msg == ObjectMessage(loc[c].snapshot[FlushTarget(c)].sha256)
<1>1. msg \in Message /\ msg.kind = "object"
  BY ReadableOK DEF ObjectMessage
<1>2. channel \in Seq(Message) /\ ChannelOK(channel)
  BY DEF DeviceInv, RemoteOK
<1> HIDE DEF msg
<1>3. ChannelOK(Append(channel, msg))
  BY <1>1, <1>2, AppendOK
<1>4. Grows(channel, Append(channel, msg))
  BY <1>1, <1>2, AppendGrows
<1> QED BY <1>1, <1>3, <1>4 DEF msg

\* The steps of flush.
LEMMA FlushKeeps ==
  ASSUME DeviceInv, NEW c \in Clients, FlushStep(c)
  PROVE  DeviceInv'
<1> USE BasicsOK
<1>a. /\ channel \in Seq(Message) /\ ChannelOK(channel) /\ manifest \in Manifest
      /\ ManifestOK(channel, manifest)
  BY DEF DeviceInv, RemoteOK, VariablesOK
<1>1. CASE FlushList(c)
  <2> DEFINE l == [loc[c] EXCEPT !.snapshot = dirty_objects]
             next == IF dirty_objects = NoRows THEN "idle" ELSE "flush_lock"
  <2>1. Goto(c, next, l) /\ UNCHANGED <<local, manifest, locks, remote, budget>>
    BY <1>1 DEF FlushList
  <2>2. /\ l \in Locals /\ l.op = loc[c].op /\ l.remaining = loc[c].remaining
        /\ l.bytes = loc[c].bytes /\ l.entries = loc[c].entries
        /\ l.snapshot = dirty_objects /\ dirty_objects \in Rows
    BY DEF Locals, DeviceInv, VariablesOK
  <2> HIDE DEF l
  <2>3. ConnectionOK(channel, next, l)
    <3>1. CASE dirty_objects = NoRows
      BY <2>2, <3>1, PlainOK
    <3>2. CASE dirty_objects # NoRows
      BY <2>2, <3>2, NotEmptyOK, SnapshotOK
    <3> QED BY <3>1, <3>2
  <2> HIDE DEF next
  <2> QED BY <2>1, <2>3, QuietGoto
<1>2. CASE FlushLock(c)
  <2> DEFINE rows == loc[c].snapshot
             f == [o \in DirtyIds(rows) |-> rows[o].generation]
             G == {f[o] : o \in DirtyIds(rows)}
             H == {rows[o].generation : o \in DirtyIds(rows)}
  <2>1. /\ pc[c] = "flush_lock" /\ manifest_lock' = c /\ Goto(c, "flush_object", loc[c])
        /\ manifest' = [manifest EXCEPT !.generation = Max(H)]
        /\ UNCHANGED <<local, store_lock, remote, budget>>
    BY <1>2 DEF FlushLock
  <2>2. rows \in Rows /\ DirtyIds(rows) # {}
    BY <2>1, OneConnection DEF ConnectionOK, Locals
  <2>3. f \in [DirtyIds(rows) -> Nat]
    BY <2>2, DirtyIdsOK DEF Row
  <2>4. IsFiniteSet(G) /\ G \in SUBSET Int /\ G # {}
    <3>1. IsFiniteSet(DirtyIds(rows))
      BY <2>2, DirtyIdsOK
    <3>2. G \in SUBSET Int /\ G # {}
      BY <2>2, <2>3
    <3> HIDE DEF f, rows
    <3>3. IsFiniteSet(G)
      BY <2>3, <3>1, FiniteImage
    <3> QED BY <3>2, <3>3
  <2>5. G \subseteq Nat
    <3> HIDE DEF f, rows
    <3> QED BY <2>3
  <2>6. G = H
    OBVIOUS
  <2> HIDE DEF G, H, f, rows
  <2>7. Max(H) \in Nat
    BY <2>4, <2>5, <2>6, MaxIsLargest
  <2>8. /\ manifest' \in Manifest /\ manifest'.objects = manifest.objects
        /\ manifest'.garbage = manifest.garbage
    BY <1>a, <2>1, <2>7 DEF Manifest
  <2>9. ManifestOK(channel, manifest')
    BY <1>a, <2>8, SameObjectsOK
  <2>10. ConnectionOK(channel, "flush_object", loc[c])
    BY <2>1, OneConnection, SameOK
  <2>11. /\ channel' = channel /\ pinned' = pinned
         /\ UNCHANGED <<dirty_objects, files, manifest_state>>
    BY <2>1 DEF remote, local
  <2>12. ConnectionsOK'
    BY <2>1, <2>10, <2>11, GotoKeeps
  <2> QED BY <1>a, <2>1, <2>8, <2>9, <2>11, <2>12, RemoteStep
<1>3. CASE FlushObject(c)
  <2> DEFINE o == FlushTarget(c)
             bytes == loc[c].snapshot[o].sha256
             rest == [loc[c].snapshot EXCEPT ![o] = None]
             l == [loc[c] EXCEPT !.snapshot = rest]
             next == IF rest = NoRows THEN "flush_manifest" ELSE "flush_object"
  <2>1. /\ pc[c] = "flush_object" /\ FlushReadable(c) /\ o \in ManifestObjects
        /\ channel' = Append(channel, ObjectMessage(bytes))
        /\ manifest' = WithUploaded(manifest, o, bytes, Len(channel) + 1)
        /\ Goto(c, next, l) /\ UNCHANGED <<local, locks, pinned, budget>>
    BY <1>3 DEF FlushObject
  <2>2. bytes \in Encoded /\ bytes.object_id = o
    BY <2>1, ReadableOK
  <2>3. ChannelOK(channel') /\ Grows(channel, channel')
    BY <2>1, SendObjectOK
  <2>4. rest \in Rows
    BY <2>1, FlushTargetOK DEF Locals, Rows
  <2>5. /\ l \in Locals /\ l.op = loc[c].op /\ l.remaining = loc[c].remaining
        /\ l.bytes = loc[c].bytes /\ l.entries = loc[c].entries /\ l.snapshot = rest
    BY <2>4 DEF Locals
  <2> HIDE DEF l, rest, bytes, o
  <2>6. manifest' \in Manifest /\ ManifestOK(channel', manifest')
    BY <1>a, <2>1, <2>2, UploadedOK
  <2>7. ConnectionOK(channel', next, l)
    <3>1. CASE rest = NoRows
      BY <2>5, <3>1, PlainOK
    <3>2. CASE rest # NoRows
      BY <2>4, <2>5, <3>2, NotEmptyOK, SnapshotOK
    <3> QED BY <3>1, <3>2
  <2> HIDE DEF next
  <2>8. ConnectionsOK'
    BY <2>1, <2>3, <2>7, GotoKeeps
  <2>9. /\ UNCHANGED <<dirty_objects, files, manifest_state>>
        /\ manifest_lock' = manifest_lock /\ store_lock' = store_lock
    BY <2>1 DEF locks, local
  <2> QED BY <2>1, <2>3, <2>6, <2>8, <2>9, RemoteStep
<1>4. CASE FlushRejected(c)
  BY <1>4, QuietAbort DEF FlushRejected
<1>5. CASE FlushMissingObject(c)
  <2>1. /\ pc[c] = "flush_object" /\ FlushReadable(c) /\ Abort(c)
        /\ channel' = Append(channel, ObjectMessage(loc[c].snapshot[FlushTarget(c)].sha256))
        /\ UNCHANGED <<local, manifest, pinned, budget>>
    BY <1>5 DEF FlushMissingObject
  <2>2. ChannelOK(channel') /\ Grows(channel, channel')
    BY <2>1, SendObjectOK
  <2>3. ManifestOK(channel', manifest)
    BY <1>a, <2>2, GrowsKeeps
  <2>4. /\ ConnectionsOK' /\ manifest_lock' \in Clients \cup {None}
        /\ store_lock' \in Clients \cup {None}
    BY <2>1, <2>2, AbortKeeps
  <2>5. UNCHANGED <<dirty_objects, files, manifest_state>>
    BY <2>1 DEF local
  <2> QED BY <1>a, <2>1, <2>2, <2>3, <2>4, <2>5, RemoteStep
<1>6. CASE FlushManifest(c)
  <2> DEFINE ref == [message_id |-> Len(channel) + 1, generation |-> manifest.generation]
             sb == ForManifest(channel, pinned, ref)
             msg == ManifestMessage(manifest)
             l == [loc[c] EXCEPT !.superblock = sb]
             next == IF pinned = 0 THEN "flush_superblock" ELSE "flush_backup"
  <2>1. Goto(c, next, l) /\ UNCHANGED <<local, manifest, locks, pinned, budget>>
    BY <1>6 DEF FlushManifest
  <2>2. /\ channel' = Append(channel, msg) /\ msg \in Message /\ sb \in Superblock
        /\ SuperblockOK(channel', sb)
    BY <1>6, CommitOK
  <2>3. msg.kind = "manifest" /\ msg.body = manifest
    BY DEF ManifestMessage
  <2> HIDE DEF msg, sb
  <2>4. ChannelOK(channel') /\ Grows(channel, channel')
    BY <1>a, <2>2, <2>3, AppendOK, AppendGrows
  <2>5. ManifestOK(channel', manifest)
    BY <1>a, <2>4, GrowsKeeps
  <2>6. /\ l \in Locals /\ l.op = loc[c].op /\ l.remaining = loc[c].remaining
        /\ l.bytes = loc[c].bytes /\ l.entries = loc[c].entries /\ l.superblock = sb
    BY <2>2 DEF Locals
  <2> HIDE DEF l
  <2>7. ConnectionOK(channel', next, l)
    BY <2>2, <2>6, SuperblockLocalsOK
  <2> HIDE DEF next
  <2>8. ConnectionsOK'
    BY <2>1, <2>4, <2>7, GotoKeeps
  <2>9. /\ UNCHANGED <<dirty_objects, files, manifest_state>>
        /\ manifest_lock' = manifest_lock /\ store_lock' = store_lock
    BY <2>1 DEF locks, local
  <2> QED BY <1>a, <2>1, <2>4, <2>5, <2>8, <2>9, RemoteStep
<1>7. CASE FlushSuperblock(c)
  <2> DEFINE id == Len(channel) + 1
             msg == SuperblockMessage(loc[c].superblock)
             l == [loc[c] EXCEPT !.message = id]
  <2>1. /\ pc[c] = "flush_superblock" /\ channel' = Append(channel, msg)
        /\ Goto(c, "flush_pin", l) /\ UNCHANGED <<local, manifest, locks, pinned, budget>>
    BY <1>7 DEF FlushSuperblock
  <2>2. /\ msg \in Message /\ ChannelOK(channel') /\ loc[c].superblock \in Superblock
        /\ SuperblockOK(channel, loc[c].superblock) /\ msg.kind = "superblock"
    BY <2>1, SendSuperblockOK DEF SuperblockMessage
  <2> HIDE DEF msg
  <2>3. /\ Grows(channel, channel') /\ id \in Nat /\ id \in DOMAIN channel' /\ channel'[id] = msg
    BY <1>a, <2>1, <2>2, AppendGrows
  <2> HIDE DEF id
  <2>4. Exists(channel', id, "superblock")
    BY <2>2, <2>3 DEF Exists
  <2>5. /\ l \in Locals /\ l.op = loc[c].op /\ l.remaining = loc[c].remaining
        /\ l.bytes = loc[c].bytes /\ l.entries = loc[c].entries
        /\ l.superblock = loc[c].superblock /\ l.message = id
    BY <2>3 DEF Locals
  <2> HIDE DEF l
  <2>6. SuperblockOK(channel', l.superblock) /\ ManifestOK(channel', manifest)
    BY <1>a, <2>2, <2>3, <2>5, GrowsKeeps
  <2>7. ConnectionOK(channel', "flush_pin", l)
    BY <2>2, <2>4, <2>5, <2>6, SuperblockLocalsOK
  <2>8. ConnectionsOK'
    BY <2>1, <2>3, <2>7, GotoKeeps
  <2>9. /\ UNCHANGED <<dirty_objects, files, manifest_state>>
        /\ manifest_lock' = manifest_lock /\ store_lock' = store_lock
    BY <2>1 DEF locks, local
  <2> QED BY <1>a, <2>1, <2>2, <2>3, <2>6, <2>8, <2>9, RemoteStep
<1>8. CASE FlushPin(c)
  <2>1. /\ pc[c] = "flush_pin" /\ pinned' = loc[c].message /\ Goto(c, "flush_backup", loc[c])
        /\ UNCHANGED <<local, manifest, locks, channel, budget>>
    BY <1>8 DEF FlushPin
  <2>2. Exists(channel, loc[c].message, "superblock") /\ loc[c].message \in Nat
    BY <2>1, OneConnection DEF ConnectionOK, Locals
  <2>3. ConnectionOK(channel, "flush_backup", loc[c])
    BY <2>1, OneConnection, SameOK
  <2>4. ConnectionsOK'
    BY <2>1, <2>3, GotoKeeps
  <2>5. /\ UNCHANGED <<dirty_objects, files, manifest_state>>
        /\ manifest_lock' = manifest_lock /\ store_lock' = store_lock
    BY <2>1 DEF locks, local
  <2> QED BY <1>a, <2>1, <2>2, <2>4, <2>5, RemoteStep
<1>9. CASE FlushBackup(c)
  <2> DEFINE msg == SuperblockMessage(loc[c].superblock)
  <2>1. /\ pc[c] = "flush_backup" /\ channel' = Append(channel, msg)
        /\ Goto(c, "flush_replace", loc[c])
        /\ UNCHANGED <<local, manifest, locks, pinned, budget>>
    BY <1>9 DEF FlushBackup
  <2>2. msg \in Message /\ ChannelOK(channel')
    BY <2>1, SendSuperblockOK
  <2> HIDE DEF msg
  <2>3. Grows(channel, channel')
    BY <1>a, <2>1, <2>2, AppendGrows
  <2>4. ManifestOK(channel', manifest)
    BY <1>a, <2>3, GrowsKeeps
  <2>5. ConnectionOK(channel', "flush_replace", loc[c])
    BY PlainOK
  <2>6. ConnectionsOK'
    BY <2>1, <2>3, <2>5, GotoKeeps
  <2>7. /\ UNCHANGED <<dirty_objects, files, manifest_state>>
        /\ manifest_lock' = manifest_lock /\ store_lock' = store_lock
    BY <2>1 DEF locks, local
  <2> QED BY <1>a, <2>1, <2>2, <2>3, <2>4, <2>6, <2>7, RemoteStep
<1>10. CASE FlushReplace(c)
  <2>1. /\ store_lock' = c /\ manifest_state' = manifest /\ Goto(c, "flush_clear", loc[c])
        /\ UNCHANGED <<dirty_objects, files, manifest, manifest_lock, remote, budget>>
    BY <1>10 DEF FlushReplace
  <2>2. ConnectionOK(channel, "flush_clear", loc[c])
    BY PlainOK
  <2>3. ConnectionsOK'
    BY <2>1, <2>2, GotoKeeps DEF remote
  <2>4. VariablesOK'
    BY <1>a, <2>1 DEF DeviceInv, VariablesOK
  <2>5. RemoteOK'
    BY <1>a, <2>1 DEF DeviceInv, RemoteOK, remote
  <2> QED BY <2>3, <2>4, <2>5 DEF DeviceInv
<1>11. CASE FlushClear(c)
  <2>1. /\ dirty_objects' = NoRows /\ manifest_lock' = None /\ store_lock' = None
        /\ Goto(c, "idle", NoLocals)
        /\ UNCHANGED <<files, manifest_state, manifest, remote, budget>>
    BY <1>11 DEF FlushClear
  <2>2. ConnectionsOK'
    BY <2>1, IdleOK, GotoKeeps DEF remote
  <2>3. dirty_objects' \in Rows
    BY <2>1, InitialValues
  <2> QED BY <2>1, <2>2, <2>3, RowsStep
<1> QED BY <1>1, <1>2, <1>3, <1>4, <1>5, <1>6, <1>7, <1>8, <1>9, <1>10, <1>11 DEF FlushStep

-----------------------------------------------------------------------------
(* Failures, crashes and moves *)

\* A call that fails, before its effect, halfway or after it.
LEMMA FaultKeeps ==
  ASSUME DeviceInv, NEW c \in Clients, Fault(c)
  PROVE  DeviceInv'
<1> USE BasicsOK
<1>a. /\ channel \in Seq(Message) /\ ChannelOK(channel) /\ manifest \in Manifest
      /\ ManifestOK(channel, manifest)
  BY DEF DeviceInv, RemoteOK, VariablesOK
<1>1. CASE SendFails(c)
  <2> DEFINE message == CASE pc[c] = "flush_object" ->
                               ObjectMessage(loc[c].snapshot[FlushTarget(c)].sha256)
                          [] pc[c] = "flush_manifest" -> ManifestMessage(manifest)
                          [] OTHER -> SuperblockMessage(loc[c].superblock)
  <2>1. /\ pc[c] \in {"flush_object", "flush_manifest", "flush_superblock", "flush_backup"}
        /\ pc[c] = "flush_object" => FlushReadable(c)
        /\ Spend("faults") /\ channel' \in {channel, Append(channel, message)}
        /\ Abort(c) /\ UNCHANGED <<local, manifest, pinned>>
    BY <1>1 DEF SendFails
  <2>2. message \in Message /\ ChannelOK(Append(channel, message))
    <3>1. CASE pc[c] = "flush_object"
      BY <2>1, <3>1, SendObjectOK
    <3>2. CASE pc[c] = "flush_manifest"
      <4>1. message = ManifestMessage(manifest)
        BY <3>2
      <4>2. message \in Message /\ message.kind = "manifest" /\ message.body = manifest
        BY <1>a, <4>1 DEF ManifestMessage, Message
      <4> HIDE DEF message
      <4> QED BY <1>a, <4>2, AppendOK
    <3>3. CASE pc[c] \in {"flush_superblock", "flush_backup"}
      BY <3>3, SendSuperblockOK
    <3> QED BY <2>1, <3>1, <3>2, <3>3
  <2> HIDE DEF message
  <2>3. ChannelOK(channel') /\ (channel' = channel \/ Grows(channel, channel'))
    <3>1. Grows(channel, Append(channel, message))
      BY <1>a, <2>2, AppendGrows
    <3>2. CASE channel' = channel
      BY <1>a, <3>2
    <3>3. CASE channel' = Append(channel, message)
      BY <2>2, <3>1, <3>3
    <3> QED BY <2>1, <3>2, <3>3
  <2>4. ManifestOK(channel', manifest')
    <3>1. manifest' = manifest
      BY <2>1
    <3> QED BY <1>a, <2>3, <3>1, GrowsKeeps
  <2>5. /\ ConnectionsOK' /\ manifest_lock' \in Clients \cup {None}
        /\ store_lock' \in Clients \cup {None}
    BY <2>1, <2>3, AbortKeeps
  <2>6. UNCHANGED <<dirty_objects, files, manifest_state>>
    BY <2>1 DEF local
  <2> QED BY <1>a, <2>1, <2>3, <2>4, <2>5, <2>6, SpendKeeps, RemoteStep
<1>2. CASE PinFails(c)
  <2>1. /\ pc[c] = "flush_pin" /\ Spend("faults") /\ pinned' \in {pinned, loc[c].message}
        /\ Abort(c) /\ UNCHANGED <<local, manifest, channel>>
    BY <1>2 DEF PinFails
  <2>2. Exists(channel, loc[c].message, "superblock") /\ loc[c].message \in Nat
    BY <2>1, OneConnection DEF ConnectionOK, Locals
  <2>3. /\ ConnectionsOK' /\ manifest_lock' \in Clients \cup {None}
        /\ store_lock' \in Clients \cup {None}
    BY <2>1, AbortKeeps
  <2>4. UNCHANGED <<dirty_objects, files, manifest_state>>
    BY <2>1 DEF local
  <2> QED BY <1>a, <2>1, <2>2, <2>3, <2>4, SpendKeeps, RemoteStep
<1>3. CASE FetchFails(c)
  <2>1. Spend("faults") /\ UNCHANGED <<local, manifest, remote>>
    BY <1>3 DEF FetchFails
  <2>2. CASE Abort(c)
    BY <2>1, <2>2, SpendKeeps, QuietAbort
  <2>3. CASE Goto(c, "reply", loc[c]) /\ UNCHANGED locks
    <3>1. manifest_lock' = manifest_lock /\ store_lock' = store_lock
      BY <2>3 DEF locks
    <3> QED BY <2>1, <2>3, <3>1, SpendKeeps, LockGoto
  <2> QED BY <1>3, <2>2, <2>3 DEF FetchFails
<1>4. CASE QueryFails(c)
  <2>1. Spend("store_faults") /\ Abort(c) /\ UNCHANGED <<local, manifest, remote>>
    BY <1>4 DEF QueryFails
  <2> QED BY <2>1, SpendKeeps, QuietAbort
<1>5. CASE WriteCacheFails(c)
  <2> DEFINE g == IF pc[c] = "filling" THEN loc[c].entry.generation ELSE loc[c].generation
  <2>1. /\ pc[c] \in {"filling", "write_bytes"} /\ Spend("store_faults") /\ Abort(c)
        /\ files' \in {files, WithFile(Target(c), g, loc[c].encoded)}
        /\ UNCHANGED <<dirty_objects, manifest_state, manifest, remote>>
    BY <1>5 DEF WriteCacheFails
  <2>2. loc[c].encoded \in Encoded /\ Target(c) \in Nat
    BY <2>1, OneConnection, TargetOK DEF ConnectionOK
  <2>3. g \in Nat
    <3>1. CASE pc[c] = "filling"
      BY <3>1, OneConnection DEF ConnectionOK, StoredEntry
    <3>2. CASE pc[c] # "filling"
      BY <3>2 DEF Locals
    <3> QED BY <3>1, <3>2
  <2> HIDE DEF g
  <2>4. /\ ConnectionsOK' /\ manifest_lock' \in Clients \cup {None}
        /\ store_lock' \in Clients \cup {None}
    BY <2>1, AbortKeeps DEF remote
  <2>5. files' = files \/ files' = WithFile(Target(c), g, loc[c].encoded)
    BY <2>1
  <2> QED BY <2>1, <2>2, <2>3, <2>4, <2>5, SpendKeeps, FileStep
<1>6. CASE PrefetchQueryFails(c)
  <2>1. /\ Spend("store_faults") /\ Goto(c, "reply", loc[c])
        /\ manifest_lock' = (IF manifest_lock = c THEN None ELSE manifest_lock)
        /\ UNCHANGED <<local, manifest, store_lock, remote>>
    BY <1>6 DEF PrefetchQueryFails
  <2>2. manifest_lock' \in Clients \cup {None} /\ store_lock' \in Clients \cup {None}
    BY <2>1
  <2> QED BY <2>1, <2>2, SpendKeeps, LockGoto
<1>7. CASE PrefetchFillFails(c)
  <2> DEFINE e == NextFill(c)
  <2>1. /\ pc[c] = "prefetch_filling" /\ Spend("store_faults") /\ store_lock' = None
        /\ files' \in {files, WithFile(e.object_id, e.entry.generation, e.entry.sha256)}
        /\ Goto(c, "reply", loc[c])
        /\ UNCHANGED <<dirty_objects, manifest_state, manifest, manifest_lock, remote>>
    BY <1>7 DEF PrefetchFillFails
  <2>2. /\ e.object_id \in Nat /\ e.entry.generation \in Nat /\ e.entry.sha256 \in Encoded
    BY <2>1, NextFillOK
  <2> HIDE DEF e
  <2>3. ConnectionsOK'
    BY <2>1, GotoKeeps DEF remote
  <2>4. files' = files \/ files' = WithFile(e.object_id, e.entry.generation, e.entry.sha256)
    BY <2>1
  <2> QED BY <2>1, <2>2, <2>3, <2>4, SpendKeeps, FileStep
<1>8. CASE MarkDirtyFails(c)
  <2>1. /\ pc[c] = "mark_dirty" /\ Spend("store_faults") /\ Abort(c)
        /\ dirty_objects' \in {dirty_objects, [dirty_objects EXCEPT ![Target(c)] = DirtyRow(c)]}
        /\ UNCHANGED <<files, manifest_state, manifest, remote>>
    BY <1>8 DEF MarkDirtyFails
  <2>2. dirty_objects' \in Rows
    BY <2>1, DirtyRowOK DEF DeviceInv, VariablesOK
  <2>3. /\ ConnectionsOK' /\ manifest_lock' \in Clients \cup {None}
        /\ store_lock' \in Clients \cup {None}
    BY <2>1, AbortKeeps DEF remote
  <2> QED BY <2>1, <2>2, <2>3, SpendKeeps, RowsStep
<1>9. CASE FlushClearFails(c)
  <2>1. /\ Spend("store_faults") /\ Abort(c) /\ dirty_objects' \in {dirty_objects, NoRows}
        /\ UNCHANGED <<files, manifest_state, manifest, remote>>
    BY <1>9 DEF FlushClearFails
  <2>2. dirty_objects' \in Rows
    BY <2>1, InitialValues DEF DeviceInv, VariablesOK
  <2>3. /\ ConnectionsOK' /\ manifest_lock' \in Clients \cup {None}
        /\ store_lock' \in Clients \cup {None}
    BY <2>1, AbortKeeps DEF remote
  <2> QED BY <2>1, <2>2, <2>3, SpendKeeps, RowsStep
<1> QED BY <1>1, <1>2, <1>3, <1>4, <1>5, <1>6, <1>7, <1>8, <1>9 DEF Fault

\* The superblock recovery picks exists, in a window that holds one.
LEMMA RecoverOK ==
  ASSUME DeviceInv, RecoverSuperblock(channel, pinned, scan_limit) # 0
  PROVE  Exists(channel, RecoverSuperblock(channel, pinned, scan_limit), "superblock")
<1> DEFINE W == InWindow(channel, scan_limit)
           G(i) == Generation(channel, i)
<1>1. channel \in Seq(Message) /\ scan_limit \in Nat
  BY DeviceAssumption DEF DeviceInv, RemoteOK
<1>2. W \subseteq 1 .. Len(channel) /\ \A i \in W : Exists(channel, i, "superblock")
  BY <1>1 DEF InWindow, Exists
<1>3. \A i \in W : G(i) \in Nat
  <2> SUFFICES ASSUME NEW i \in W PROVE G(i) \in Nat
    OBVIOUS
  <2>1. channel[i] \in Message /\ channel[i].kind = "superblock"
    BY <1>1, <1>2 DEF Exists
  <2>2. channel[i].body \in Superblock
    BY <2>1, KindOK
  <2> QED BY <2>2 DEF Generation, Superblock, ManifestRef
<1>4. CASE W = {}
  BY <1>4 DEF RecoverSuperblock, DeviceInv, RemoteOK
<1>5. CASE W # {}
  <2>1. IsFiniteSet(W) /\ W \subseteq Int
    <3>1. Len(channel) \in Nat
      BY <1>1
    <3>2. IsFiniteSet(1 .. Len(channel))
      BY <3>1, FS_Interval
    <3> QED BY <1>2, <3>1, <3>2, FS_Subset
  <2> DEFINE f == [i \in W |-> G(i)]
  <2>2. f \in [W -> Int]
    BY <1>3
  <2>3. PICK x \in W : \A y \in W : f[y] <= f[x]
    <3> HIDE DEF f, W
    <3> QED BY <1>5, <2>1, <2>2, ArgMax
  <2> DEFINE T == {i \in W : G(i) = G(x)}
             Best(i) == \A j \in W : G(j) < G(i) \/ (G(j) = G(i) /\ j <= i)
  <2>4. \A y \in W : G(y) <= G(x)
    <3>1. \A y \in W : f[y] = G(y)
      OBVIOUS
    <3> HIDE DEF f, W, G
    <3> QED BY <2>3, <3>1
  <2> HIDE DEF f, W, G
  <2>5. IsFiniteSet(T) /\ T \in SUBSET Int /\ T # {}
    <3>1. T \subseteq W /\ x \in T
      BY <2>3
    <3> QED BY <2>1, <3>1, FS_Subset
  <2>6. Max(T) \in T /\ \A y \in T : y <= Max(T)
    <3> HIDE DEF T
    <3> QED BY <2>5, MaxIsLargest
  <2>7. Max(T) \in W /\ Best(Max(T))
    <3>1. Max(T) \in W /\ G(Max(T)) = G(x)
      BY <2>6
    <3>2. \A j \in W : G(j) = G(x) => j <= Max(T)
      BY <2>6
    <3>3. \A j \in W : G(j) < G(x) \/ G(j) = G(x)
      BY <1>3, <2>3, <2>4
    <3> HIDE DEF T
    <3> QED BY <3>1, <3>2, <3>3
  <2>8. \E i \in W : Best(i)
    <3> HIDE DEF Best, T
    <3> QED BY <2>7
  <2>9. RecoverSuperblock(channel, pinned, scan_limit) = CHOOSE i \in W : Best(i)
    BY <1>5 DEF RecoverSuperblock, W, G
  <2>10. RecoverSuperblock(channel, pinned, scan_limit) \in W
    <3> HIDE DEF Best
    <3> QED BY <2>8, <2>9
  <2> QED BY <1>2, <2>10
<1> QED BY <1>4, <1>5

\* What a manifest reference the channel serves leads to is a manifest in order.
LEMMA FetchOK ==
  ASSUME DeviceInv, NEW ref, Served(channel, ref)
  PROVE  /\ FetchManifest(channel, ref) \in Manifest
         /\ ManifestOK(channel, FetchManifest(channel, ref))
<1>1. channel \in Seq(Message) /\ ChannelOK(channel)
  BY DEF DeviceInv, RemoteOK
<1>2. ref.message_id \in DOMAIN channel /\ channel[ref.message_id].kind = "manifest"
  BY DEF Served, Exists
<1>3. channel[ref.message_id] \in Message
  BY <1>1, <1>2
<1> QED BY <1>1, <1>2, <1>3, KindOK DEF FetchManifest, ChannelOK

\* The superblock a recovery reads is in order.
LEMMA RecoveredSuperblockOK ==
  ASSUME DeviceInv, NEW i, Exists(channel, i, "superblock")
  PROVE  SuperblockOK(channel, channel[i].body)
BY DEF DeviceInv, RemoteOK, ChannelOK, Exists

\* A process that starts from a manifest in order.
LEMMA RestartedKeeps ==
  ASSUME DeviceInv, NEW m \in Manifest, ManifestOK(channel, m), Restarted(m),
         UNCHANGED remote, dirty_objects' \in Rows,
         files' = files \/ files' = [k \in {} |-> None],
         manifest_state' = manifest_state \/ manifest_state' = m,
         budget' \in [writes : Nat, flushes : Nat, faults : Nat,
                      store_faults : Nat, crashes : Nat, moves : Nat]
  PROVE  DeviceInv'
<1>1. DOMAIN files' \subseteq Nat \X Nat /\ \A k \in DOMAIN files' : files'[k] \in Encoded \cup {Torn}
  BY DEF DeviceInv, VariablesOK
<1>2. VariablesOK'
  BY <1>1 DEF DeviceInv, VariablesOK, Restarted
<1>3. RemoteOK'
  BY DEF DeviceInv, RemoteOK, Restarted, remote
<1>4. ConnectionsOK'
  <2>1. pc' = [c \in Clients |-> "idle"] /\ loc' = [c \in Clients |-> NoLocals]
    BY DEF Restarted
  <2>2. "idle" \in Labels
    BY DEF Labels
  <2> QED BY <2>1, <2>2, IdleOK, InitialValues DEF ConnectionsOK
<1> QED BY <1>2, <1>3, <1>4 DEF DeviceInv

\* The process or the machine is lost.
LEMMA RestartKeeps ==
  ASSUME DeviceInv, Crash \/ RestartElsewhere \/ RestartOnPrevious
  PROVE  DeviceInv'
<1> DEFINE i == RecoverSuperblock(channel, pinned, scan_limit)
<1>1. CASE Crash
  <2>1. Spend("crashes") /\ Restarted(manifest_state) /\ UNCHANGED <<local, remote>>
    BY <1>1 DEF Crash
  <2>2. /\ manifest_state \in Manifest /\ ManifestOK(channel, manifest_state)
        /\ dirty_objects \in Rows
    BY DEF DeviceInv, VariablesOK, RemoteOK
  <2>3. dirty_objects' = dirty_objects /\ files' = files /\ manifest_state' = manifest_state
    BY <2>1 DEF local
  <2> QED BY <2>1, <2>2, <2>3, SpendKeeps, RestartedKeeps
<1>2. CASE RestartElsewhere
  <2>1. i # 0 /\ Spend("moves") /\ RestartsElsewhere(Recovered)
    BY <1>2 DEF RestartElsewhere
  <2>2. Served(channel, channel[i].body.current)
    BY <2>1, RecoverOK, RecoveredSuperblockOK DEF SuperblockOK
  <2>3. Recovered \in Manifest /\ ManifestOK(channel, Recovered)
    BY <2>2, FetchOK DEF Recovered
  <2>4. /\ dirty_objects' \in Rows /\ files' = [k \in {} |-> None]
        /\ manifest_state' = Recovered /\ Restarted(Recovered) /\ UNCHANGED remote
    BY <2>1, InitialValues DEF RestartsElsewhere
  <2> QED BY <2>1, <2>3, <2>4, SpendKeeps, RestartedKeeps
<1>3. CASE RestartOnPrevious
  <2> DEFINE m == FetchManifest(channel, channel[i].body.previous)
  <2>1. /\ i # 0 /\ channel[i].body.previous # None /\ RestartsElsewhere(m)
        /\ budget.moves > 0 /\ budget.faults > 0
        /\ budget' = [budget EXCEPT !.moves = @ - 1, !.faults = @ - 1]
    BY <1>3 DEF RestartOnPrevious
  <2>2. Served(channel, channel[i].body.previous)
    BY <2>1, RecoverOK, RecoveredSuperblockOK DEF SuperblockOK
  <2>3. m \in Manifest /\ ManifestOK(channel, m)
    BY <2>2, FetchOK
  <2> HIDE DEF m
  <2>4. /\ dirty_objects' \in Rows /\ files' = [k \in {} |-> None]
        /\ manifest_state' = m /\ Restarted(m) /\ UNCHANGED remote
    BY <2>1, InitialValues DEF RestartsElsewhere
  <2>5. budget' \in [writes : Nat, flushes : Nat, faults : Nat,
                     store_faults : Nat, crashes : Nat, moves : Nat]
    <3>1. budget \in [writes : Nat, flushes : Nat, faults : Nat,
                      store_faults : Nat, crashes : Nat, moves : Nat]
      BY DEF DeviceInv, VariablesOK
    <3>2. budget.moves - 1 \in Nat /\ budget.faults - 1 \in Nat
      BY <2>1, <3>1
    <3> QED BY <2>1, <3>1, <3>2
  <2> QED BY <2>3, <2>4, <2>5, RestartedKeeps
<1> QED BY <1>1, <1>2, <1>3

-----------------------------------------------------------------------------
(* The theorems *)

\* A formatted device, with nothing read or written yet, is in order.
LEMMA InitOK == Init => DeviceInv
<1> SUFFICES ASSUME Init PROVE DeviceInv
  OBVIOUS
<1> USE InitialValues
<1>1. VariablesOK
  BY DeviceAssumption DEF Init, VariablesOK
<1>2. \A ch : ManifestOK(ch, EmptyManifest)
  BY DEF ManifestOK, Backed, Live, EmptyManifest
<1>3. RemoteOK
  <2>1. CASE channel = FormattedChannel /\ pinned = 2
    <3> DEFINE ref == [message_id |-> 1, generation |-> 0]
               sb == [device_size |-> formatted_size, current |-> ref, previous |-> None]
    <3>1. ref \in ManifestRef /\ sb \in Superblock
      BY FormatAssumption DEF ManifestRef, Superblock
    <3>2. channel = <<ManifestMessage(EmptyManifest), SuperblockMessage(sb), SuperblockMessage(sb)>>
      BY <2>1 DEF FormattedChannel
    <3>3. /\ ManifestMessage(EmptyManifest) \in Message /\ SuperblockMessage(sb) \in Message
      BY <3>1 DEF ManifestMessage, SuperblockMessage, Message
    <3>4. /\ channel \in Seq(Message) /\ DOMAIN channel = 1 .. 3
          /\ channel[1] = ManifestMessage(EmptyManifest)
          /\ channel[2] = SuperblockMessage(sb) /\ channel[3] = SuperblockMessage(sb)
      <4> HIDE DEF sb
      <4> QED BY <3>2, <3>3
    <3>5. Served(channel, ref)
      <4>1. channel[1].kind = "manifest" /\ channel[1].body = EmptyManifest
        BY <3>4 DEF ManifestMessage
      <4>2. Backed(channel, EmptyManifest)
        BY <1>2 DEF ManifestOK
      <4>3. EmptyManifest.generation = 0
        BY DEF EmptyManifest
      <4> QED BY <3>4, <4>1, <4>2, <4>3 DEF Served, Exists
    <3>6. SuperblockOK(channel, sb)
      BY <3>5 DEF SuperblockOK
    <3>7. ChannelOK(channel)
      BY <1>2, <3>4, <3>6 DEF ChannelOK, ManifestMessage, SuperblockMessage
    <3>8. Exists(channel, 2, "superblock")
      BY <3>4 DEF Exists, SuperblockMessage
    <3> QED BY <1>2, <2>1, <3>4, <3>7, <3>8 DEF RemoteOK, Init
  <2>2. CASE channel = <<>> /\ pinned = 0
    BY <1>2, <2>2 DEF RemoteOK, ChannelOK, Init
  <2> QED BY <2>1, <2>2 DEF Init
<1>4. ConnectionsOK
  <2>1. pc = [c \in Clients |-> "idle"] /\ loc = [c \in Clients |-> NoLocals]
    BY DEF Init
  <2>2. "idle" \in Labels
    BY DEF Labels
  <2> QED BY <2>1, <2>2, IdleOK DEF ConnectionsOK
<1> QED BY <1>1, <1>3, <1>4 DEF DeviceInv

\* Every step keeps the device in order.
LEMMA NextKeeps == DeviceInv /\ [Next]_vars => DeviceInv'
<1> SUFFICES ASSUME DeviceInv, [Next]_vars PROVE DeviceInv'
  OBVIOUS
<1>1. CASE UNCHANGED vars
  <2>1. /\ UNCHANGED <<dirty_objects, files, manifest_state, manifest>>
        /\ UNCHANGED <<manifest_lock, store_lock, channel, pinned>>
        /\ UNCHANGED <<pc, loc, budget>>
    BY <1>1 DEF vars, local, locks, remote
  <2>2. VariablesOK'
    BY <2>1 DEF DeviceInv, VariablesOK
  <2>3. RemoteOK'
    BY <2>1 DEF DeviceInv, RemoteOK
  <2>4. ConnectionsOK'
    BY <2>1 DEF DeviceInv, ConnectionsOK
  <2> QED BY <2>2, <2>3, <2>4 DEF DeviceInv
<1>2. ASSUME NEW c \in Clients, Begin(c) \/ Step(c) \/ Fault(c)
      PROVE  DeviceInv'
  BY <1>2, BeginKeeps, ReadKeeps, WriteKeeps, PrefetchKeeps, FlushKeeps, FaultKeeps DEF Step
<1>3. CASE Crash \/ RestartElsewhere \/ RestartOnPrevious
  BY <1>3, RestartKeeps
<1>4. CASE Wait
  BY <1>1, <1>4 DEF Wait
<1> QED BY <1>1, <1>2, <1>3, <1>4 DEF Next

\* The inductive invariant: every variable has its type, each handler's locals fit the
\* step it is at, what is on the channel and every manifest held in memory or locally
\* can be served, and no manifest reads what it calls garbage.
THEOREM Invariance == Spec => []DeviceInv
BY InitOK, NextKeeps, PTL DEF Spec

\* Every variable keeps the type the code declares for it, for any number of
\* connections, objects and requests, and under every failure the model has.
THEOREM TypeCorrect == Spec => []TypeOK
<1>1. DeviceInv => TypeOK
  <2> SUFFICES ASSUME DeviceInv PROVE TypeOK
    OBVIOUS
  <2>1. pinned \in 0 .. Len(channel)
    <3>1. channel \in Seq(Message) /\ pinned \in Nat /\ (pinned # 0 => pinned \in DOMAIN channel)
      BY DEF DeviceInv, RemoteOK, Exists
    <3> QED BY <3>1
  <2> QED BY <2>1 DEF DeviceInv, VariablesOK, RemoteOK, ConnectionsOK, TypeOK
<1> QED BY <1>1, Invariance, PTL

\* No superblock is ever published, by a flush that succeeds, fails or dies, whose
\* manifest or whose objects are not all on the channel: a recovery from any of them,
\* current or previous, finds everything it needs.
THEOREM CommitsAreBacked == Spec => []CommittedBacked
<1>1. DeviceInv => CommittedBacked
  BY DEF DeviceInv, RemoteOK, ChannelOK, SuperblockOK, CommittedBacked
<1> QED BY <1>1, Invariance, PTL

\* No manifest, in memory, in the local store or on the channel, lists as garbage a
\* message one of its entries reads: deleting the garbage of a manifest never breaks it.
THEOREM GarbageIsDead == Spec => []NoLiveGarbage
<1>1. DeviceInv => NoLiveGarbage
  BY DEF DeviceInv, RemoteOK, ChannelOK, ManifestOK, NoLiveGarbage
<1> QED BY <1>1, Invariance, PTL

-----------------------------------------------------------------------------
(* The dirty limit: connections exceed it by less than their number *)

\* The sets that are counted are finite.
LEMMA CountsOK ==
  ASSUME DeviceInv, OnlyWritersWrite
  PROVE  /\ PastLimit \subseteq Writers /\ IsFiniteSet(PastLimit)
         /\ Cardinality(PastLimit) \in Nat
         /\ Cardinality(PastLimit) <= Cardinality(Writers)
         /\ Cardinality(Writers) \in Nat
         /\ IsFiniteSet(DirtyIds(dirty_objects))
         /\ Cardinality(DirtyIds(dirty_objects)) \in Nat
<1>1. PastLimit \subseteq Writers
  BY DEF PastLimit, PastLabels, OnlyWritersWrite, DeviceInv, ConnectionsOK, ConnectionOK
<1>2. IsFiniteSet(Writers)
  BY DeviceAssumption
<1>3. IsFiniteSet(DirtyIds(dirty_objects))
  BY DirtyIdsOK DEF DeviceInv, VariablesOK
<1> QED BY <1>1, <1>2, <1>3, FS_Subset, FS_CardinalityType

\* A step that marks nothing and lets nobody through.
LEMMA CalmKeeps ==
  ASSUME DeviceInv, DeviceInv', LimitInv, OnlyWritersWrite',
         PastLimit' \subseteq PastLimit,
         DirtyIds(dirty_objects') \subseteq DirtyIds(dirty_objects)
  PROVE  LimitInv'
<1> DEFINE D == DirtyIds(dirty_objects)  E == DirtyIds(dirty_objects')
           P == PastLimit  Q == PastLimit'
<1>1. IsFiniteSet(P) /\ IsFiniteSet(D) /\ Q \in SUBSET P /\ E \in SUBSET D
  BY CountsOK DEF LimitInv
<1>2. Cardinality(Q) <= Cardinality(P) /\ Cardinality(E) <= Cardinality(D)
  BY <1>1, FS_Subset
<1>3. /\ Cardinality(Q) \in Nat /\ Cardinality(E) \in Nat
      /\ Cardinality(P) \in Nat /\ Cardinality(D) \in Nat
  BY <1>1, FS_Subset, FS_CardinalityType
<1>4. max_dirty_objects + Cardinality(Writers) - 1 \in Int
  BY CountsOK, DeviceAssumption DEF LimitInv
<1>5. Q # {} \/ E # {} => P # {} \/ D # {}
  BY <1>1
<1>6. P # {} \/ D # {} =>
        Cardinality(D) + Cardinality(P) <= max_dirty_objects + Cardinality(Writers) - 1
  BY DEF LimitInv, LimitKept
<1> HIDE DEF D, E, P, Q
<1>7. Q # {} \/ E # {} =>
        Cardinality(E) + Cardinality(Q) <= max_dirty_objects + Cardinality(Writers) - 1
  BY <1>2, <1>3, <1>4, <1>5, <1>6
<1> QED BY <1>7 DEF D, E, P, Q, LimitInv, LimitKept

\* Only a connection of the operator's writers has a write under way.
LEMMA GotoWriters ==
  ASSUME DeviceInv, OnlyWritersWrite, NEW c \in Clients, NEW next, NEW l, Goto(c, next, l),
         l.op = "write" => c \in Writers
  PROVE  OnlyWritersWrite'
<1>1. NoLocals.op # "write"
  BY DEF NoLocals
<1>2. \A d \in Clients : loc'[d] = loc[d] \/ (d = c /\ loc'[d] \in {NoLocals, l})
  BY DEF Goto, DeviceInv, ConnectionsOK
<1> QED BY <1>1, <1>2 DEF OnlyWritersWrite

\* A handler that goes on, without being let through and without marking.
LEMMA CalmGoto ==
  ASSUME DeviceInv, DeviceInv', LimitInv, NEW c \in Clients, NEW next, NEW l,
         Goto(c, next, l), next \notin PastLabels \/ pc[c] \in PastLabels,
         l.op = "write" => c \in Writers,
         dirty_objects' = dirty_objects \/ dirty_objects' = NoRows
  PROVE  LimitInv'
<1>1. OnlyWritersWrite'
  BY GotoWriters DEF LimitInv
<1>2. PastLimit' \subseteq PastLimit
  BY DEF PastLimit, Goto, DeviceInv, ConnectionsOK
<1>3. DirtyIds(dirty_objects') \subseteq DirtyIds(dirty_objects)
  BY DEF DirtyIds, NoRows
<1> QED BY <1>1, <1>2, <1>3, CalmKeeps

\* A handler that returns an error.
LEMMA CalmAbort ==
  ASSUME DeviceInv, DeviceInv', LimitInv, NEW c \in Clients, Abort(c),
         dirty_objects' = dirty_objects \/ dirty_objects' = NoRows
  PROVE  LimitInv'
<1>1. NoLocals.op # "write" /\ "idle" \notin PastLabels
  BY DEF NoLocals, PastLabels
<1> QED BY <1>1, CalmGoto DEF Abort

\* The limit lets a connection through: there was room for one.
LEMMA CheckKeeps ==
  ASSUME DeviceInv, DeviceInv', LimitInv, NEW c \in Clients, CheckLimit(c)
  PROVE  LimitInv'
<1> DEFINE D == DirtyIds(dirty_objects)
<1>1. loc[c].op = "write" => c \in Writers
  BY DEF LimitInv, OnlyWritersWrite
<1>2. OnlyWritersWrite'
  BY <1>1, GotoWriters DEF CheckLimit, LimitInv
<1>3. dirty_objects' = dirty_objects
  BY DEF CheckLimit, local
<1>4. Cardinality(D) < max_dirty_objects /\ max_dirty_objects \in Nat
  BY DeviceAssumption DEF CheckLimit
<1>5. Cardinality(D) \in Nat /\ Cardinality(Writers) \in Nat
  BY CountsOK DEF LimitInv
<1>6. Cardinality(PastLimit') \in Nat /\ Cardinality(PastLimit') <= Cardinality(Writers)
  <2>1. IsFiniteSet(Writers)
    BY DeviceAssumption
  <2>2. PastLimit' \subseteq Writers
    BY <1>2 DEF PastLimit, PastLabels, OnlyWritersWrite, DeviceInv, ConnectionsOK, ConnectionOK
  <2> QED BY <2>1, <2>2, FS_Subset, FS_CardinalityType
<1> HIDE DEF D
<1>7. Cardinality(D) + Cardinality(PastLimit') <= max_dirty_objects + Cardinality(Writers) - 1
  BY <1>4, <1>5, <1>6
<1> QED BY <1>2, <1>3, <1>7 DEF D, LimitInv, LimitKept

\* mark_dirty: one more object, by a connection that no longer counts.
LEMMA MarkKeeps ==
  ASSUME DeviceInv, DeviceInv', LimitInv, NEW c \in Clients, NEW next, NEW l,
         Goto(c, next, l), pc[c] = "mark_dirty", next \notin PastLabels,
         l.op = "write" => c \in Writers,
         dirty_objects' = [dirty_objects EXCEPT ![Target(c)] = DirtyRow(c)]
  PROVE  LimitInv'
<1> DEFINE D == DirtyIds(dirty_objects)  E == DirtyIds(dirty_objects')
           P == PastLimit
<1>1. OnlyWritersWrite'
  BY GotoWriters DEF LimitInv
<1>2. c \in P /\ PastLimit' = P \ {c}
  BY DEF PastLimit, PastLabels, Goto, DeviceInv, ConnectionsOK
<1>3. E \in SUBSET (D \cup {Target(c)})
  BY DEF DirtyIds, DeviceInv, VariablesOK, Rows
<1>4. IsFiniteSet(P) /\ IsFiniteSet(D)
  BY CountsOK DEF LimitInv
<1>5. /\ IsFiniteSet(D \cup {Target(c)})
      /\ Cardinality(D \cup {Target(c)}) \in {Cardinality(D), Cardinality(D) + 1}
  BY <1>4, FS_AddElement
<1>6. IsFiniteSet(E) /\ Cardinality(E) <= Cardinality(D \cup {Target(c)})
  BY <1>3, <1>5, FS_Subset
<1>7. Cardinality(PastLimit') = Cardinality(P) - 1
  BY <1>2, <1>4, FS_RemoveElement
<1>8. Cardinality(D) \in Nat /\ Cardinality(P) \in Nat /\ Cardinality(E) \in Nat
  BY <1>4, <1>6, FS_CardinalityType
<1>9. Cardinality(D) + Cardinality(P) <= max_dirty_objects + Cardinality(Writers) - 1
  BY <1>2 DEF LimitInv, LimitKept
<1>10. Cardinality(Writers) \in Nat /\ max_dirty_objects \in Nat
  BY CountsOK, DeviceAssumption DEF LimitInv
<1>11. Cardinality(E) <= Cardinality(D) + 1
  BY <1>5, <1>6, <1>8
<1> HIDE DEF D, E, P
<1>12. Cardinality(E) + Cardinality(PastLimit') <= max_dirty_objects + Cardinality(Writers) - 1
  BY <1>7, <1>8, <1>9, <1>10, <1>11
<1> QED BY <1>1, <1>12 DEF E, LimitInv, LimitKept

-----------------------------------------------------------------------------
(* The steps of a handler *)

\* The loops of read_at and write_at do not lead past the limit.
LEMMA LoopHeadCalm == \A l : LoopHead(l) \notin PastLabels
BY DEF LoopHead, PastLabels

\* A pass of a loop stays in its request.
LEMMA AdvanceOp ==
  ASSUME NEW l \in Locals
  PROVE  Advance(l).op = l.op
BY DEF Advance, Locals

\* read_object returns.
LEMMA CalmReturn ==
  ASSUME DeviceInv, DeviceInv', LimitInv, NEW c \in Clients, NEW payload, Return(c, payload),
         dirty_objects' = dirty_objects
  PROVE  LimitInv'
<1> DEFINE l == loc[c]
           next == Advance([l EXCEPT !.out = CopyOut(l, payload)])
           merge == [l EXCEPT !.object = payload, !.entry = NoEntry, !.encoded = None]
<1>1. l \in Locals /\ (l.op = "write" => c \in Writers)
  BY DEF DeviceInv, ConnectionsOK, LimitInv, OnlyWritersWrite
<1>2. CASE l.op = "read"
  <2>1. Goto(c, LoopHead(next), next)
    BY <1>2 DEF Return
  <2>2. next.op = "read"
    BY <1>1, <1>2 DEF Advance, Locals
  <2> HIDE DEF next
  <2> QED BY <2>1, <2>2, LoopHeadCalm, CalmGoto
<1>3. CASE l.op # "read"
  <2>1. Goto(c, "limit", merge)
    BY <1>3 DEF Return
  <2>2. merge.op = l.op
    BY <1>1 DEF Locals
  <2>3. "limit" \notin PastLabels
    BY DEF PastLabels
  <2> HIDE DEF merge
  <2> QED BY <1>1, <2>1, <2>2, <2>3, CalmGoto
<1> QED BY <1>2, <1>3

\* A handler that goes on at a step before the limit, with the same request.
LEMMA CalmOn ==
  ASSUME DeviceInv, DeviceInv', LimitInv, NEW c \in Clients, NEW next, NEW l,
         Goto(c, next, l), l.op = loc[c].op,
         next \notin PastLabels \/ pc[c] \in PastLabels,
         dirty_objects' = dirty_objects
  PROVE  LimitInv'
<1>1. l.op = "write" => c \in Writers
  BY DEF LimitInv, OnlyWritersWrite
<1> QED BY <1>1, CalmGoto

\* A request begins.
LEMMA BeginBounded ==
  ASSUME DeviceInv, DeviceInv', LimitInv, NEW c \in Clients, Begin(c)
  PROVE  LimitInv'
<1>1. CASE BeginRead(c)
  <2>1. PICK r \in ReadRequests :
          LET l == [NoLocals EXCEPT !.op = "read", !.cursor = r.offset, !.remaining = r.len]
          IN  Goto(c, LoopHead(l), l)
    BY <1>1 DEF BeginRead
  <2> DEFINE l == [NoLocals EXCEPT !.op = "read", !.cursor = r.offset, !.remaining = r.len]
  <2>2. l.op = "read"
    BY DEF NoLocals
  <2>3. Goto(c, LoopHead(l), l) /\ dirty_objects' = dirty_objects
    BY <1>1, <2>1 DEF BeginRead, local
  <2> HIDE DEF l
  <2> QED BY <2>2, <2>3, LoopHeadCalm, CalmGoto
<1>2. CASE BeginWrite(c)
  <2>1. PICK w \in WriteRequests :
          LET l == [NoLocals EXCEPT !.op = "write", !.cursor = w.offset, !.bytes = w.bytes,
                                    !.remaining = Len(w.bytes)]
          IN  Goto(c, LoopHead(l), l)
    BY <1>2 DEF BeginWrite
  <2> DEFINE l == [NoLocals EXCEPT !.op = "write", !.cursor = w.offset, !.bytes = w.bytes,
                                   !.remaining = Len(w.bytes)]
  <2>2. Goto(c, LoopHead(l), l) /\ dirty_objects' = dirty_objects /\ c \in Writers
    BY <1>2, <2>1 DEF BeginWrite, local
  <2> HIDE DEF l
  <2> QED BY <2>2, LoopHeadCalm, CalmGoto
<1>3. CASE BeginFlush(c)
  <2> DEFINE l == [NoLocals EXCEPT !.op = "flush"]
  <2>1. l.op = "flush" /\ "flush_list" \notin PastLabels
    BY DEF NoLocals, PastLabels
  <2>2. Goto(c, "flush_list", l) /\ dirty_objects' = dirty_objects
    BY <1>3 DEF BeginFlush, local
  <2> HIDE DEF l
  <2> QED BY <2>1, <2>2, CalmGoto
<1> QED BY <1>1, <1>2, <1>3 DEF Begin

\* The steps of read_object.
LEMMA ReadBounded ==
  ASSUME DeviceInv, DeviceInv', LimitInv, NEW c \in Clients, ReadStep(c)
  PROVE  LimitInv'
<1> USE DEF local
<1>0. loc[c] \in Locals
  BY DEF DeviceInv, ConnectionsOK
<1>1. CASE ReadDirty(c)
  BY <1>1, CalmReturn DEF ReadDirty
<1>2. CASE ReadDirtyRejected(c) \/ ReadOutOfRange(c) \/ ReadCacheRejected(c)
  BY <1>2, CalmAbort DEF ReadDirtyRejected, ReadOutOfRange, ReadCacheRejected
<1>3. CASE ReadNotDirty(c)
  BY <1>3, CalmOn DEF ReadNotDirty, PastLabels
<1>4. CASE ReadEntry(c)
  <2> DEFINE l == [loc[c] EXCEPT !.entry = manifest.objects[Target(c)]]
  <2>1. l.op = loc[c].op
    BY <1>0 DEF Locals
  <2>2. /\ Return(c, ZeroObject) \/ Goto(c, "read_cache", l)
        /\ dirty_objects' = dirty_objects
    BY <1>4 DEF ReadEntry
  <2>3. "read_cache" \notin PastLabels
    BY DEF PastLabels
  <2> HIDE DEF l
  <2> QED BY <2>1, <2>2, <2>3, CalmReturn, CalmOn
<1>5. CASE ReadCache(c)
  <2>1. "fetch" \notin PastLabels
    BY DEF PastLabels
  <2>2. /\ \/ Goto(c, "fetch", loc[c])
           \/ Return(c, File(Target(c), loc[c].entry.generation).payload)
        /\ dirty_objects' = dirty_objects
    BY <1>5 DEF ReadCache
  <2> QED BY <2>1, <2>2, CalmReturn, CalmOn
<1>6. CASE FetchObject(c)
  <2> DEFINE l == [loc[c] EXCEPT !.encoded = channel[loc[c].entry.remote].body]
  <2>1. l.op = loc[c].op /\ "fill" \notin PastLabels
    BY <1>0 DEF Locals, PastLabels
  <2>2. Goto(c, "fill", l) /\ dirty_objects' = dirty_objects
    BY <1>6 DEF FetchObject
  <2> HIDE DEF l
  <2> QED BY <2>1, <2>2, CalmOn
<1>7. CASE FillOpen(c)
  BY <1>7, CalmOn DEF FillOpen, PastLabels
<1>8. CASE FillBytes(c)
  BY <1>8, CalmReturn DEF FillBytes
<1>9. CASE Reply(c)
  <2>1. NoLocals.op # "write" /\ "idle" \notin PastLabels
    BY DEF NoLocals, PastLabels
  <2> QED BY <1>9, <2>1, CalmGoto DEF Reply
<1> QED BY <1>1, <1>2, <1>3, <1>4, <1>5, <1>6, <1>7, <1>8, <1>9 DEF ReadStep

\* The steps of write_dirty_object: one lets a connection through, one marks.
LEMMA WriteBounded ==
  ASSUME DeviceInv, DeviceInv', LimitInv, NEW c \in Clients, WriteStep(c)
  PROVE  LimitInv'
<1> USE DEF local
<1>0. loc[c] \in Locals /\ (loc[c].op = "write" => c \in Writers)
  BY DEF DeviceInv, ConnectionsOK, LimitInv, OnlyWritersWrite
<1>1. CASE CheckLimit(c)
  BY <1>1, CheckKeeps
<1>2. CASE LimitReached(c)
  BY <1>2, CalmAbort DEF LimitReached
<1>3. CASE NextGeneration(c)
  <2> DEFINE g == manifest.generation + 1
             l == [loc[c] EXCEPT !.generation = g,
                     !.encoded = Encode(Target(c), g, Overlay(loc[c], loc[c].object))]
  <2>1. l.op = loc[c].op
    BY <1>0 DEF Locals
  <2>2. /\ pc[c] = "generation" /\ Goto(c, "write_cache", l) /\ dirty_objects' = dirty_objects
    BY <1>3 DEF NextGeneration
  <2>3. pc[c] \in PastLabels
    BY <2>2 DEF PastLabels
  <2> HIDE DEF l
  <2> QED BY <2>1, <2>2, <2>3, CalmOn
<1>4. CASE WriteCacheOpen(c)
  BY <1>4, CalmOn DEF WriteCacheOpen, PastLabels
<1>5. CASE WriteCacheBytes(c)
  BY <1>5, CalmOn DEF WriteCacheBytes, PastLabels
<1>6. CASE MarkDirty(c)
  <2> DEFINE l == Advance(loc[c])
  <2>1. l.op = loc[c].op
    BY <1>0, AdvanceOp
  <2>2. /\ pc[c] = "mark_dirty" /\ Goto(c, LoopHead(l), l)
        /\ dirty_objects' = [dirty_objects EXCEPT ![Target(c)] = DirtyRow(c)]
    BY <1>6 DEF MarkDirty
  <2> HIDE DEF l
  <2> QED BY <1>0, <2>1, <2>2, LoopHeadCalm, MarkKeeps
<1> QED BY <1>1, <1>2, <1>3, <1>4, <1>5, <1>6 DEF WriteStep

\* The steps of prefetch_objects.
LEMMA PrefetchBounded ==
  ASSUME DeviceInv, DeviceInv', LimitInv, NEW c \in Clients, PrefetchStep(c)
  PROVE  LimitInv'
<1> USE DEF local
<1>0. /\ loc[c] \in Locals
      /\ \A rows : [loc[c] EXCEPT !.snapshot = rows].op = loc[c].op
      /\ \A o : [loc[c] EXCEPT !.scan = o].op = loc[c].op
      /\ \A set : [loc[c] EXCEPT !.entries = set].op = loc[c].op
      /\ \A o, set : [loc[c] EXCEPT !.scan = o, !.entries = set].op = loc[c].op
  BY DEF DeviceInv, ConnectionsOK, Locals
<1>1. /\ "prefetch_lock" \notin PastLabels /\ "prefetch_scan" \notin PastLabels
      /\ "prefetch_fetch" \notin PastLabels /\ "prefetch_fill" \notin PastLabels
      /\ "prefetch_filling" \notin PastLabels /\ "reply" \notin PastLabels
  BY DEF PastLabels
<1>2. CASE PrefetchDirtyIds(c)
  BY <1>0, <1>1, <1>2, CalmOn DEF PrefetchDirtyIds
<1>3. CASE PrefetchLock(c)
  BY <1>0, <1>1, <1>3, CalmOn DEF PrefetchLock
<1>4. CASE PrefetchSkip(c)
  BY <1>0, <1>1, <1>4, CalmOn DEF PrefetchSkip
<1>5. CASE PrefetchWant(c)
  <2> DEFINE o == loc[c].scan
             l == [loc[c] EXCEPT
                     !.scan = o + 1,
                     !.entries = @ \cup {[object_id |-> o, entry |-> manifest.objects[o]]}]
  <2>1. Goto(c, "prefetch_scan", l) /\ dirty_objects' = dirty_objects
    BY <1>5 DEF PrefetchWant
  <2>2. l.op = loc[c].op
    BY <1>0 DEF Locals
  <2> HIDE DEF l
  <2> QED BY <1>1, <2>1, <2>2, CalmOn
<1>6. CASE PrefetchRejected(c)
  BY <1>1, <1>6, CalmOn DEF PrefetchRejected
<1>7. CASE PrefetchScanned(c)
  BY <1>1, <1>7, CalmOn DEF PrefetchScanned
<1>8. CASE PrefetchFetch(c)
  BY <1>0, <1>1, <1>8, CalmOn DEF PrefetchFetch
<1>9. CASE PrefetchFillOpen(c)
  BY <1>1, <1>9, CalmOn DEF PrefetchFillOpen
<1>10. CASE PrefetchFillBytes(c)
  BY <1>0, <1>1, <1>10, CalmOn DEF PrefetchFillBytes
<1> QED BY <1>2, <1>3, <1>4, <1>5, <1>6, <1>7, <1>8, <1>9, <1>10 DEF PrefetchStep

\* The steps of flush, the last of which deletes all rows.
LEMMA FlushBounded ==
  ASSUME DeviceInv, DeviceInv', LimitInv, NEW c \in Clients, FlushStep(c)
  PROVE  LimitInv'
<1> USE DEF local
<1>0. /\ loc[c] \in Locals
      /\ \A rows : [loc[c] EXCEPT !.snapshot = rows].op = loc[c].op
      /\ \A sb : [loc[c] EXCEPT !.superblock = sb].op = loc[c].op
      /\ \A id : [loc[c] EXCEPT !.message = id].op = loc[c].op
  BY DEF DeviceInv, ConnectionsOK, Locals
<1>1. /\ "idle" \notin PastLabels /\ "flush_lock" \notin PastLabels
      /\ "flush_object" \notin PastLabels /\ "flush_manifest" \notin PastLabels
      /\ "flush_superblock" \notin PastLabels /\ "flush_pin" \notin PastLabels
      /\ "flush_backup" \notin PastLabels /\ "flush_replace" \notin PastLabels
      /\ "flush_clear" \notin PastLabels
  BY DEF PastLabels
<1>2. CASE FlushList(c)
  BY <1>0, <1>1, <1>2, CalmOn DEF FlushList
<1>3. CASE FlushLock(c)
  BY <1>1, <1>3, CalmOn DEF FlushLock
<1>4. CASE FlushObject(c)
  BY <1>0, <1>1, <1>4, CalmOn DEF FlushObject
<1>5. CASE FlushRejected(c) \/ FlushMissingObject(c)
  BY <1>5, CalmAbort DEF FlushRejected, FlushMissingObject
<1>6. CASE FlushManifest(c)
  BY <1>0, <1>1, <1>6, CalmOn DEF FlushManifest
<1>7. CASE FlushSuperblock(c)
  BY <1>0, <1>1, <1>7, CalmOn DEF FlushSuperblock
<1>8. CASE FlushPin(c) \/ FlushBackup(c)
  BY <1>1, <1>8, CalmOn DEF FlushPin, FlushBackup
<1>9. CASE FlushReplace(c)
  BY <1>1, <1>9, CalmOn DEF FlushReplace
<1>10. CASE FlushClear(c)
  <2>1. NoLocals.op # "write"
    BY DEF NoLocals
  <2> QED BY <1>1, <1>10, <2>1, CalmGoto DEF FlushClear
<1> QED BY <1>2, <1>3, <1>4, <1>5, <1>6, <1>7, <1>8, <1>9, <1>10 DEF FlushStep

\* Failed calls: mark_dirty may have written its row before it failed.
LEMMA FaultBounded ==
  ASSUME DeviceInv, DeviceInv', LimitInv, NEW c \in Clients, Fault(c)
  PROVE  LimitInv'
<1> USE DEF local
<1>0. "reply" \notin PastLabels /\ "idle" \notin PastLabels /\ NoLocals.op # "write"
  BY DEF PastLabels, NoLocals
<1>1. CASE SendFails(c) \/ PinFails(c) \/ QueryFails(c) \/ WriteCacheFails(c)
  BY <1>1, CalmAbort DEF SendFails, PinFails, QueryFails, WriteCacheFails
<1>2. CASE FetchFails(c)
  BY <1>0, <1>2, CalmAbort, CalmOn DEF FetchFails
<1>3. CASE PrefetchQueryFails(c) \/ PrefetchFillFails(c)
  BY <1>0, <1>3, CalmOn DEF PrefetchQueryFails, PrefetchFillFails
<1>4. CASE MarkDirtyFails(c)
  <2>1. /\ pc[c] = "mark_dirty" /\ Abort(c) /\ Goto(c, "idle", NoLocals)
        /\ \/ dirty_objects' = dirty_objects
           \/ dirty_objects' = [dirty_objects EXCEPT ![Target(c)] = DirtyRow(c)]
    BY <1>4 DEF MarkDirtyFails, Abort
  <2> QED BY <1>0, <2>1, CalmAbort, MarkKeeps
<1>5. CASE FlushClearFails(c)
  BY <1>5, CalmAbort DEF FlushClearFails
<1> QED BY <1>1, <1>2, <1>3, <1>4, <1>5 DEF Fault

\* A new process has no handlers, and a new machine no rows.
LEMMA RestartBounded ==
  ASSUME DeviceInv, DeviceInv', LimitInv, Crash \/ RestartElsewhere \/ RestartOnPrevious
  PROVE  LimitInv'
<1>1. /\ pc' = [c \in Clients |-> "idle"] /\ loc' = [c \in Clients |-> NoLocals]
      /\ dirty_objects' = dirty_objects \/ dirty_objects' = NoRows
  BY DEF Crash, RestartElsewhere, RestartOnPrevious, RestartsElsewhere, Restarted, local
<1>2. OnlyWritersWrite'
  BY <1>1 DEF OnlyWritersWrite, NoLocals
<1>3. PastLimit' \subseteq PastLimit
  BY <1>1 DEF PastLimit, PastLabels
<1>4. DirtyIds(dirty_objects') \subseteq DirtyIds(dirty_objects)
  BY <1>1 DEF DirtyIds, NoRows
<1> QED BY <1>2, <1>3, <1>4, CalmKeeps

-----------------------------------------------------------------------------

\* Nothing is dirty at the start, and nobody is past the limit.
LEMMA InitBounded == Init => LimitInv
<1> SUFFICES ASSUME Init PROVE LimitInv
  OBVIOUS
<1>1. OnlyWritersWrite
  BY DEF Init, OnlyWritersWrite, NoLocals
<1>2. PastLimit = {} /\ DirtyIds(dirty_objects) = {}
  BY DEF Init, PastLimit, PastLabels, DirtyIds, NoRows
<1> QED BY <1>1, <1>2 DEF LimitInv, LimitKept

\* Every step keeps the count.
LEMMA NextBounded == DeviceInv /\ LimitInv /\ [Next]_vars => LimitInv'
<1> SUFFICES ASSUME DeviceInv, LimitInv, [Next]_vars PROVE LimitInv'
  OBVIOUS
<1>0. DeviceInv'
  BY NextKeeps
<1>1. CASE UNCHANGED vars
  BY <1>1 DEF vars, local, LimitInv, LimitKept, OnlyWritersWrite, PastLimit
<1>2. ASSUME NEW c \in Clients, Begin(c) \/ Step(c) \/ Fault(c)
      PROVE  LimitInv'
  BY <1>0, <1>2, BeginBounded, ReadBounded, WriteBounded, PrefetchBounded, FlushBounded,
     FaultBounded DEF Step
<1>3. CASE Crash \/ RestartElsewhere \/ RestartOnPrevious
  BY <1>0, <1>3, RestartBounded
<1>4. CASE Wait
  BY <1>1, <1>4 DEF Wait
<1> QED BY <1>1, <1>2, <1>3, <1>4 DEF Next

\* The backpressure of write_dirty_object: whatever the connections do between the count
\* of the dirty objects and mark_dirty, and whatever fails, they exceed the limit together
\* by less than the number of those that write.
THEOREM BackpressureHolds == Spec => []DirtyBounded
<1>1. DeviceInv /\ LimitInv => DirtyBounded
  <2> SUFFICES ASSUME DeviceInv, LimitInv, DirtyIds(dirty_objects) # {}
               PROVE  Cardinality(DirtyIds(dirty_objects))
                        <= max_dirty_objects + Cardinality(Writers) - 1
    BY DEF DirtyBounded
  <2>1. Cardinality(DirtyIds(dirty_objects)) + Cardinality(PastLimit)
          <= max_dirty_objects + Cardinality(Writers) - 1
    BY DEF LimitInv, LimitKept
  <2>2. /\ Cardinality(DirtyIds(dirty_objects)) \in Nat /\ Cardinality(PastLimit) \in Nat
        /\ Cardinality(Writers) \in Nat /\ max_dirty_objects \in Nat
    BY CountsOK, DeviceAssumption DEF LimitInv
  <2> QED BY <2>1, <2>2
<1> QED BY <1>1, InitBounded, NextBounded, Invariance, PTL DEF Spec
=============================================================================
