-------------------------- MODULE ReadHistoryProofs -------------------------
(***************************************************************************)
(* Reads are current: for any number of readers beside one connection that *)
(* writes and flushes, and whatever fails, crashes or moves.               *)
(***************************************************************************)
EXTENDS ReadableProofs, ReadHistory

(* The inductive invariant *)

PrefetchLabels == {"prefetch_scan", "prefetch_fetch", "prefetch_fill", "prefetch_filling"}

ReadAheadLabels == {"prefetch", "prefetch_lock"} \cup PrefetchLabels

\* Every unit of object o has had, during the request, the value payload gives it.
Seen(win, o, payload) == \A u \in Units : ObjectOf(u) = o => payload[OffsetIn(u)] \in win[u]

\* What a read has copied out was current, and so is what it is about to: the entry it
\* will find once it has seen that the object is not dirty, the entry it holds, and the
\* bytes it fetched for that entry.
HistoryOK(m, p, l, win) ==
  /\ p = "idle" => l.op # "read"
  /\ p \in {"reply"} \cup ReadAheadLabels => l.op = "read"
  /\ l.op = "read" =>
       /\ Len(l.out) <= l.cursor /\ l.cursor <= device_size
       /\ \A i \in DOMAIN l.out : l.out[i] \in win[l.cursor - Len(l.out) + i - 1]
       /\ p = "read_entry" => Seen(win, ObjectOf(l.cursor), EntryPayload(m, ObjectOf(l.cursor)))
       /\ p \in LookupLabels => Seen(win, ObjectOf(l.cursor), l.entry.sha256.payload)
       /\ p \in {"fill", "filling"} => l.encoded = l.entry.sha256

HistoryInv == \A c \in Clients : HistoryOK(manifest, pc[c], loc[c], window[c])

\* A request that is under way sees what its step began with, and forgets nothing.
WindowGrows ==
  \A c \in Clients : pc'[c] # "idle" =>
    \A u \in Units : window[c][u] \subseteq window'[c][u] /\ Content[u] \in window'[c][u]

-----------------------------------------------------------------------------
(* The window *)

\* The history variable is updated so.
LEMMA HistoryGrows == HistoryNext => WindowGrows
<1> SUFFICES ASSUME HistoryNext, NEW c \in Clients, pc'[c] # "idle", NEW u \in Units
             PROVE  window[c][u] \subseteq window'[c][u] /\ Content[u] \in window'[c][u]
  BY DEF WindowGrows
<1>1. window'[c] = [v \in Units |-> window[c][v] \cup {Content[v], Content'[v]}]
  BY DEF HistoryNext
<1>2. window'[c][u] = window[c][u] \cup {Content[u], Content'[u]}
  BY <1>1
<1> QED BY <1>2

\* What an object holds when a step begins has been seen after it.
LEMMA ContentSeen ==
  ASSUME WindowGrows, NEW c \in Clients, pc'[c] # "idle", NEW o \in Objects
  PROVE  Seen(window'[c], o, PayloadOf(dirty_objects, manifest, o))
<1>1. \A u \in Units : Content[u] = PayloadOf(dirty_objects, manifest, ObjectOf(u))[OffsetIn(u)]
  BY ContentIs
<1> QED BY <1>1 DEF WindowGrows, Seen

\* What has been seen stays seen.
LEMMA SeenStays ==
  ASSUME WindowGrows, NEW c \in Clients, pc'[c] # "idle", NEW o, NEW payload,
         Seen(window[c], o, payload)
  PROVE  Seen(window'[c], o, payload)
BY DEF WindowGrows, Seen

\* What was copied out lies in the range that was read.
LEMMA OutInUnits ==
  ASSUME NEW l \in Locals, Len(l.out) <= l.cursor, l.cursor <= device_size,
         NEW i \in DOMAIN l.out
  PROVE  l.cursor - Len(l.out) + i - 1 \in Units
<1>1. /\ l.cursor \in Nat /\ Len(l.out) \in Nat /\ i \in 1 .. Len(l.out)
  BY DEF Locals
<1>2. l.cursor - Len(l.out) + i - 1 \in 0 .. device_size - 1
  BY <1>1, SizeAssumption
<1> QED BY <1>2 DEF Units

\* A step may change the manifest entry of an object only to what the object holds.
LEMMA EntryMoves ==
  ASSUME DeviceInv, NEW w, SnapshotInv(w), NEW c \in Clients, Begin(c) \/ Step(c) \/ Fault(c)
  PROVE  \A o \in Objects : EntryPayload(manifest', o)
                              \in {EntryPayload(manifest, o), PayloadOf(dirty_objects, manifest, o)}
<1> USE DEF local, remote
<1>1. CASE manifest' = manifest
  BY <1>1
<1>2. CASE FlushLock(c)
  <2>1. manifest'.objects = manifest.objects
    BY <1>2 DEF FlushLock, DeviceInv, VariablesOK, Manifest
  <2> QED BY <2>1, SameEntries
<1>3. CASE FlushObject(c)
  <2> DEFINE o == FlushTarget(c)
             bytes == loc[c].snapshot[o].sha256
  <2>1. /\ pc[c] = "flush_object" /\ o \in ManifestObjects
        /\ manifest' = WithUploaded(manifest, o, bytes, Len(channel) + 1)
    BY <1>3 DEF FlushObject
  <2>2. o \in Objects /\ loc[c].snapshot[o] # None
    BY <2>1, FlushTargetOK DEF DirtyIds
  <2>3. loc[c].snapshot[o] = dirty_objects[o]
    BY <2>1, <2>2 DEF SnapshotInv, SnapshotOf
  <2>4. manifest \in Manifest
    BY DEF DeviceInv, VariablesOK
  <2>5. PayloadOf(dirty_objects, manifest, o) = bytes.payload
    BY <2>2, <2>3 DEF PayloadOf
  <2> HIDE DEF o, bytes
  <2>6. /\ EntryPayload(manifest', o) = bytes.payload
        /\ \A p : p # o => EntryPayload(manifest', p) = EntryPayload(manifest, p)
    BY <2>1, <2>4, UploadedPayload
  <2> QED BY <2>5, <2>6
<1>4. manifest' = manifest \/ FlushLock(c) \/ FlushObject(c)
  <2>1. CASE \/ MarkDirty(c) \/ MarkDirtyFails(c) \/ FlushClear(c) \/ FlushClearFails(c)
             \/ FlushMissingObject(c) \/ FlushManifest(c) \/ FlushSuperblock(c)
             \/ FlushBackup(c) \/ SendFails(c)
    BY <2>1 DEF MarkDirty, MarkDirtyFails, FlushClear, FlushClearFails, FlushMissingObject,
       FlushManifest, FlushSuperblock, FlushBackup, SendFails
  <2> QED BY <2>1, QuietActions DEF Step, WriteStep, FlushStep, Fault
<1> QED BY <1>1, <1>2, <1>3, <1>4

-----------------------------------------------------------------------------
(* One connection steps *)

\* The other connections go on seeing what they saw.
LEMMA OthersHistory ==
  ASSUME DeviceInv, NEW w, SnapshotInv(w), HistoryInv, WindowGrows, NEW c \in Clients,
         Begin(c) \/ Step(c) \/ Fault(c),
         NEW d \in Clients, pc'[d] = pc[d], loc'[d] = loc[d]
  PROVE  HistoryOK(manifest', pc'[d], loc'[d], window'[d])
<1> DEFINE l == loc[d]  o == ObjectOf(l.cursor)
<1>1. HistoryOK(manifest, pc[d], l, window[d]) /\ l \in Locals
  BY OneConnection DEF HistoryInv
<1>2. CASE l.op # "read"
  BY <1>1, <1>2 DEF HistoryOK
<1>3. CASE l.op = "read"
  <2>1. pc'[d] # "idle"
    BY <1>1, <1>3 DEF HistoryOK
  <2>2. \A i \in DOMAIN l.out : l.out[i] \in window'[d][l.cursor - Len(l.out) + i - 1]
    <3> SUFFICES ASSUME NEW i \in DOMAIN l.out
                 PROVE  l.out[i] \in window'[d][l.cursor - Len(l.out) + i - 1]
      OBVIOUS
    <3>1. l.cursor - Len(l.out) + i - 1 \in Units
      BY <1>1, <1>3, OutInUnits DEF HistoryOK
    <3>2. l.out[i] \in window[d][l.cursor - Len(l.out) + i - 1]
      BY <1>1, <1>3 DEF HistoryOK
    <3> QED BY <2>1, <3>1, <3>2 DEF WindowGrows
  <2>3. CASE pc[d] = "read_entry"
    <3>1. o \in Objects
      BY <2>3, TargetOK DEF Target
    <3>2. Seen(window[d], o, EntryPayload(manifest, o))
      BY <1>1, <1>3, <2>3 DEF HistoryOK
    <3>3. Seen(window'[d], o, EntryPayload(manifest, o))
      BY <2>1, <3>2, SeenStays
    <3>4. Seen(window'[d], o, PayloadOf(dirty_objects, manifest, o))
      BY <2>1, <3>1, ContentSeen
    <3>5. EntryPayload(manifest', o) \in {EntryPayload(manifest, o),
                                          PayloadOf(dirty_objects, manifest, o)}
      BY <3>1, EntryMoves
    <3>6. Seen(window'[d], o, EntryPayload(manifest', o))
      BY <3>3, <3>4, <3>5
    <3> QED BY <1>1, <1>3, <2>2, <2>3, <3>6 DEF HistoryOK, LookupLabels
  <2>4. CASE pc[d] \in LookupLabels
    <3>1. Seen(window[d], o, l.entry.sha256.payload)
      BY <1>1, <1>3, <2>4 DEF HistoryOK
    <3>2. Seen(window'[d], o, l.entry.sha256.payload)
      BY <2>1, <3>1, SeenStays
    <3> QED BY <1>1, <1>3, <2>2, <2>4, <3>2 DEF HistoryOK, LookupLabels
  <2>5. CASE pc[d] \notin {"read_entry"} \cup LookupLabels
    BY <1>1, <1>3, <2>2, <2>5 DEF HistoryOK, LookupLabels
  <2> QED BY <2>3, <2>4, <2>5
<1> QED BY <1>2, <1>3

\* One connection steps: it is enough to look at that one.
LEMMA StepHistory ==
  ASSUME DeviceInv, NEW w, SnapshotInv(w), HistoryInv, WindowGrows, NEW c \in Clients,
         Begin(c) \/ Step(c) \/ Fault(c), NEW next, NEW l, Goto(c, next, l),
         next # "idle" => HistoryOK(manifest', next, l, window'[c])
  PROVE  HistoryInv'
<1>1. NoLocals.op = "none"
  BY DEF NoLocals
<1>2. \A m, win : HistoryOK(m, "idle", NoLocals, win)
  BY <1>1 DEF HistoryOK, ReadAheadLabels, PrefetchLabels
<1>3. HistoryOK(manifest', pc'[c], loc'[c], window'[c])
  BY <1>2, GotoSets
<1>4. ASSUME NEW d \in Clients, d # c
      PROVE  HistoryOK(manifest', pc'[d], loc'[d], window'[d])
  <2>1. pc'[d] = pc[d] /\ loc'[d] = loc[d]
    BY <1>4, GotoSets
  <2> QED BY <2>1, OthersHistory
<1> QED BY <1>3, <1>4 DEF HistoryInv

\* Writes and flushes are no concern of the history.
LEMMA NotReading ==
  ASSUME NEW m, NEW p, NEW l, NEW win, l.op # "read", p \notin {"reply"} \cup ReadAheadLabels
  PROVE  HistoryOK(m, p, l, win)
BY DEF HistoryOK

\* A read goes on, having copied out nothing more and being about to look nothing up.
LEMMA ReadingOn ==
  ASSUME DeviceInv, HistoryInv, WindowGrows, NEW c \in Clients, NEW next, NEW l \in Locals,
         NEW m, pc'[c] = next, loc[c].op = "read",
         l.op = "read", l.out = loc[c].out, l.cursor = loc[c].cursor,
         next \notin {"idle", "read_entry"} \cup LookupLabels
  PROVE  HistoryOK(m, next, l, window'[c])
<1>1. HistoryOK(manifest, pc[c], loc[c], window[c])
  BY DEF HistoryInv
<1>2. ASSUME NEW i \in DOMAIN l.out
      PROVE  l.out[i] \in window'[c][l.cursor - Len(l.out) + i - 1]
  <2>1. l.cursor - Len(l.out) + i - 1 \in Units
    BY <1>1, OutInUnits DEF HistoryOK
  <2>2. l.out[i] \in window[c][l.cursor - Len(l.out) + i - 1]
    BY <1>1 DEF HistoryOK
  <2> QED BY <2>1, <2>2 DEF WindowGrows
<1> QED BY <1>1, <1>2 DEF HistoryOK, LookupLabels

\* The same, when it is about to look something up that it has seen.
LEMMA LookingUp ==
  ASSUME DeviceInv, HistoryInv, WindowGrows, NEW c \in Clients, NEW next, NEW l \in Locals,
         NEW m, pc'[c] = next, loc[c].op = "read",
         l.op = "read", l.out = loc[c].out, l.cursor = loc[c].cursor,
         next \in {"read_entry"} \cup LookupLabels,
         next = "read_entry" => Seen(window'[c], Target(c), EntryPayload(m, Target(c))),
         next \in LookupLabels => Seen(window'[c], Target(c), l.entry.sha256.payload),
         next \in {"fill", "filling"} => l.encoded = l.entry.sha256
  PROVE  HistoryOK(m, next, l, window'[c])
<1>1. HistoryOK(manifest, pc[c], loc[c], window[c])
  BY DEF HistoryInv
<1>2. next \notin {"idle", "reply"} \cup ReadAheadLabels
  BY DEF LookupLabels, ReadAheadLabels, PrefetchLabels
<1>3. ASSUME NEW i \in DOMAIN l.out
      PROVE  l.out[i] \in window'[c][l.cursor - Len(l.out) + i - 1]
  <2>1. l.cursor - Len(l.out) + i - 1 \in Units
    BY <1>1, OutInUnits DEF HistoryOK
  <2>2. l.out[i] \in window[c][l.cursor - Len(l.out) + i - 1]
    BY <1>1 DEF HistoryOK
  <2> QED BY <1>2, <2>1, <2>2 DEF WindowGrows
<1> QED BY <1>1, <1>2, <1>3 DEF HistoryOK, Target
\* The units one pass of read_at takes from an object are the ones after the cursor.
LEMMA PassUnits ==
  ASSUME NEW x \in Nat, NEW r \in Nat, r > 0, InBounds(x, r), NEW j \in 1 .. Take(x, r)
  PROVE  /\ x + j - 1 \in Units /\ ObjectOf(x + j - 1) = ObjectOf(x)
         /\ OffsetIn(x + j - 1) = OffsetIn(x) + j - 1
<1> DEFINE n == Take(x, r)  u == x + j - 1
<1>1. n \in 0 .. r /\ OffsetIn(x) + n <= object_size /\ x + r <= device_size
  BY TakeBounds DEF InBounds
<1>2. n \in Nat /\ j \in 1 .. n
  BY <1>1
<1> HIDE DEF n
<1>3. u \in Nat /\ x <= u /\ u < x + n /\ u < device_size /\ j \in Nat
  BY <1>1, <1>2, SizeAssumption
<1>4. OffsetIn(u) \in Nat /\ OffsetIn(x) \in Nat
  BY <1>3, DivMod, SizeAssumption
<1>5. ObjectOf(u) = ObjectOf(x) /\ u - x = OffsetIn(u) - OffsetIn(x)
  BY <1>1, <1>2, <1>3, UnitsOfPass
<1>6. OffsetIn(u) = OffsetIn(x) + j - 1
  BY <1>3, <1>4, <1>5
<1>7. u \in Units
  BY <1>3, SizeAssumption DEF Units
<1> QED BY <1>5, <1>6, <1>7

\* extend_from_slice keeps what was there and puts the rest after it.
LEMMA AppendedTo ==
  ASSUME NEW s \in Seq(Value), NEW t \in Seq(Value)
  PROVE  /\ Len(s \o t) = Len(s) + Len(t) /\ DOMAIN (s \o t) = 1 .. Len(s) + Len(t)
         /\ \A i \in 1 .. Len(s) : (s \o t)[i] = s[i]
         /\ \A j \in 1 .. Len(t) : (s \o t)[Len(s) + j] = t[j]
<1>1. s \o t \in Seq(Value) /\ Len(s \o t) = Len(s) + Len(t)
  OBVIOUS
<1>2. Len(s) \in Nat /\ Len(t) \in Nat
  OBVIOUS
<1>3. \A i \in 1 .. Len(s) : (s \o t)[i] = s[i]
  BY <1>2
<1>4. ASSUME NEW j \in 1 .. Len(t)
      PROVE  (s \o t)[Len(s) + j] = t[j]
  <2>1. Len(s) + j \in 1 .. Len(s) + Len(t) /\ ~(Len(s) + j <= Len(s)) /\ Len(s) + j - Len(s) = j
    BY <1>2
  <2> QED BY <2>1
<1> QED BY <1>1, <1>2, <1>3, <1>4

\* read_at copies out what it has seen.
LEMMA CopyOutSeen ==
  ASSUME DeviceInv, HistoryInv, WindowGrows, NEW c \in Clients, pc'[c] # "idle",
         loc[c].op = "read", loc[c].remaining > 0, InBounds(loc[c].cursor, loc[c].remaining),
         NEW payload \in Payload, Seen(window'[c], Target(c), payload),
         NEW a, a = Advance([loc[c] EXCEPT !.out = CopyOut(loc[c], payload)])
  PROVE  /\ a.op = "read" /\ Len(a.out) <= a.cursor /\ a.cursor <= device_size
         /\ \A i \in DOMAIN a.out : a.out[i] \in window'[c][a.cursor - Len(a.out) + i - 1]
<1> DEFINE l == loc[c]
           n == Take(l.cursor, l.remaining)
           at == OffsetIn(l.cursor)
           piece == [i \in 1 .. n |-> payload[at + i - 1]]
<1>1. /\ l \in Locals /\ l.cursor \in Nat /\ l.remaining \in Nat /\ l.out \in Seq(Value)
      /\ Len(l.out) \in Nat /\ HistoryOK(manifest, pc[c], l, window[c])
  BY OneConnection DEF Locals, HistoryInv
<1>2. n \in Nat /\ n <= l.remaining /\ at + n <= object_size
  <2>1. n \in 0 .. l.remaining /\ at + n <= object_size
    BY <1>1, TakeBounds
  <2> QED BY <1>1, <2>1
<1>3. l.cursor + l.remaining <= device_size /\ at \in 0 .. object_size - 1
  BY <1>1, DivMod DEF InBounds
<1>4. /\ Len(l.out) <= l.cursor /\ l.cursor <= device_size
      /\ \A i \in DOMAIN l.out : l.out[i] \in window[c][l.cursor - Len(l.out) + i - 1]
  BY <1>1 DEF HistoryOK
<1>5. a.op = "read" /\ a.cursor = l.cursor + n /\ a.out = CopyOut(l, payload)
  BY <1>1 DEF Advance, Locals
<1>6. CopyOut(l, payload) = l.out \o piece
  BY DEF CopyOut
<1>7. ASSUME NEW j \in 1 .. n
      PROVE  payload[at + j - 1] \in window'[c][l.cursor + j - 1]
  BY <1>1, <1>7, PassUnits DEF Seen, Target
<1>8. ASSUME NEW i \in DOMAIN l.out
      PROVE  l.out[i] \in window'[c][l.cursor - Len(l.out) + i - 1]
  <2>1. l.cursor - Len(l.out) + i - 1 \in Units
    BY <1>1, <1>4, OutInUnits
  <2> HIDE DEF l
  <2> QED BY <1>4, <2>1 DEF WindowGrows
<1> HIDE DEF n, at
<1>9. \A j \in 1 .. n : payload[at + j - 1] \in Value
  BY <1>2, <1>3, SizeAssumption DEF Payload
<1>10. piece \in Seq(Value) /\ Len(piece) = n /\ \A j \in 1 .. n : piece[j] = payload[at + j - 1]
  BY <1>2, <1>9
<1> HIDE DEF piece, l
<1>11. /\ Len(a.out) = Len(l.out) + n /\ DOMAIN a.out = 1 .. Len(l.out) + n
       /\ \A i \in 1 .. Len(l.out) : a.out[i] = l.out[i]
       /\ \A j \in 1 .. n : a.out[Len(l.out) + j] = piece[j]
  <2>1. a.out = l.out \o piece
    BY <1>5, <1>6
  <2> DEFINE s == l.out
  <2>2. s \in Seq(Value)
    BY <1>1
  <2> HIDE DEF s
  <2>3. /\ Len(s \o piece) = Len(s) + Len(piece) /\ DOMAIN (s \o piece) = 1 .. Len(s) + Len(piece)
        /\ \A i \in 1 .. Len(s) : (s \o piece)[i] = s[i]
        /\ \A j \in 1 .. Len(piece) : (s \o piece)[Len(s) + j] = piece[j]
    <3>1. piece \in Seq(Value)
      BY <1>10
    <3> QED BY <2>2, <3>1, AppendedTo
  <2> DEFINE t == s \o piece
  <2>4. Len(piece) = n /\ a.out = t
    BY <1>10, <2>1 DEF s
  <2> HIDE DEF t
  <2> QED BY <2>3, <2>4 DEF s, t
<1>12. Len(a.out) <= a.cursor /\ a.cursor <= device_size
  BY <1>1, <1>2, <1>3, <1>4, <1>5, <1>11, SizeAssumption
<1>13. ASSUME NEW i \in DOMAIN a.out
       PROVE  a.out[i] \in window'[c][a.cursor - Len(a.out) + i - 1]
  <2>1. a.cursor - Len(a.out) + i - 1 = l.cursor - Len(l.out) + i - 1
    BY <1>1, <1>2, <1>5, <1>11
  <2>2. CASE i \in 1 .. Len(l.out)
    <3>1. i \in DOMAIN l.out
      BY <1>1, <2>2
    <3>2. l.out[i] \in window'[c][l.cursor - Len(l.out) + i - 1]
      BY <1>8, <3>1
    <3> QED BY <1>11, <2>1, <2>2, <3>2
  <2>3. CASE i \notin 1 .. Len(l.out)
    <3>1. PICK j \in 1 .. n : i = Len(l.out) + j
      <4>1. i - Len(l.out) \in 1 .. n
        BY <1>1, <1>2, <1>11, <2>3
      <4>2. i = Len(l.out) + (i - Len(l.out))
        BY <1>1, <1>11
      <4> QED BY <4>1, <4>2
    <3>2. l.cursor - Len(l.out) + i - 1 = l.cursor + j - 1
      BY <1>1, <1>2, <3>1
    <3> QED BY <1>7, <1>10, <1>11, <2>1, <3>1, <3>2
  <2> QED BY <2>2, <2>3
<1> QED BY <1>5, <1>12, <1>13

\* read_object returns what has been seen.
LEMMA ReturnHistory ==
  ASSUME DeviceInv, NEW w, SnapshotInv(w), HistoryInv, WindowGrows, NEW c \in Clients,
         ReadStep(c), NEW payload \in Payload, Return(c, payload),
         pc[c] \in {"read_object", "read_entry"} \cup LookupLabels,
         loc[c].op = "read" /\ pc'[c] # "idle" => Seen(window'[c], Target(c), payload)
  PROVE  HistoryInv'
<1> DEFINE a == Advance([loc[c] EXCEPT !.out = CopyOut(loc[c], payload)])
           b == [loc[c] EXCEPT !.object = payload, !.entry = NoEntry, !.encoded = None]
<1>1. /\ loc[c] \in Locals /\ loc[c].op \in {"read", "write"} /\ loc[c].remaining > 0
      /\ InBounds(loc[c].cursor, loc[c].remaining)
  BY OneConnection DEF ConnectionOK, LookupLabels
<1>2. Begin(c) \/ Step(c) \/ Fault(c)
  BY DEF Step
<1>3. CASE loc[c].op = "read"
  <2>1. Goto(c, LoopHead(a), a)
    BY <1>3 DEF Return
  <2>2. a.op = "read"
    BY <1>1, <1>3 DEF Advance, Locals
  <2> HIDE DEF a
  <2>3. LoopHead(a) \in {"read_object", "prefetch", "reply"}
    BY <2>2 DEF LoopHead
  <2>4. pc'[c] = LoopHead(a)
    BY <2>1, GotoSets
  <2>5. /\ Len(a.out) <= a.cursor /\ a.cursor <= device_size
        /\ \A i \in DOMAIN a.out : a.out[i] \in window'[c][a.cursor - Len(a.out) + i - 1]
    BY <1>1, <1>3, <2>3, <2>4, CopyOutSeen DEF a
  <2>6. HistoryOK(manifest', LoopHead(a), a, window'[c])
    BY <2>2, <2>3, <2>5 DEF HistoryOK, LookupLabels
  <2> QED BY <1>2, <2>1, <2>6, StepHistory
<1>4. CASE loc[c].op = "write"
  <2>1. Goto(c, "limit", b)
    BY <1>4 DEF Return
  <2>2. b.op = "write"
    BY <1>1, <1>4 DEF Locals
  <2> HIDE DEF b
  <2>3. HistoryOK(manifest', "limit", b, window'[c])
    BY <2>2, NotReading DEF ReadAheadLabels, PrefetchLabels
  <2> QED BY <1>2, <2>1, <2>3, StepHistory
<1> QED BY <1>1, <1>3, <1>4

-----------------------------------------------------------------------------
(* One lemma per group of actions *)

\* A handler that is not reading goes on, or ends.
LEMMA BystanderHistory ==
  ASSUME DeviceInv, NEW w, SnapshotInv(w), HistoryInv, WindowGrows, NEW c \in Clients,
         Begin(c) \/ Step(c) \/ Fault(c), NEW next, NEW l, Goto(c, next, l),
         next = "idle" \/ (l.op # "read" /\ next \notin {"reply"} \cup ReadAheadLabels)
  PROVE  HistoryInv'
<1>1. next # "idle" => HistoryOK(manifest', next, l, window'[c])
  BY NotReading
<1> QED BY <1>1, StepHistory

\* The handler returns an error.
LEMMA AbortHistory ==
  ASSUME DeviceInv, NEW w, SnapshotInv(w), HistoryInv, WindowGrows, NEW c \in Clients,
         Begin(c) \/ Step(c) \/ Fault(c), Abort(c)
  PROVE  HistoryInv'
BY BystanderHistory DEF Abort

\* A request arrives: nothing is copied out yet.
LEMMA BeginHistory ==
  ASSUME DeviceInv, NEW w, SnapshotInv(w), HistoryInv, WindowGrows, NEW c \in Clients, Begin(c)
  PROVE  HistoryInv'
<1>1. CASE BeginRead(c)
  <2>1. PICK r \in ReadRequests :
          LET l == [NoLocals EXCEPT !.op = "read", !.cursor = r.offset, !.remaining = r.len]
          IN  Goto(c, LoopHead(l), l)
    BY <1>1 DEF BeginRead
  <2> DEFINE l == [NoLocals EXCEPT !.op = "read", !.cursor = r.offset, !.remaining = r.len]
  <2>2. l.op = "read" /\ l.out = <<>> /\ l.cursor = r.offset
    BY DEF NoLocals
  <2>3. r.offset \in Nat /\ r.len \in Nat /\ r.offset + r.len <= device_size
    BY DeviceAssumption DEF InBounds
  <2>4. r.offset <= device_size
    BY <2>3, SizeAssumption
  <2>5. Goto(c, LoopHead(l), l)
    BY <2>1
  <2> HIDE DEF l
  <2>6. LoopHead(l) \in {"read_object", "prefetch", "reply"}
    BY <2>2 DEF LoopHead
  <2>7. Len(l.out) = 0 /\ DOMAIN l.out = {}
    BY <2>2
  <2>8. HistoryOK(manifest', LoopHead(l), l, window'[c])
    BY <2>2, <2>3, <2>4, <2>6, <2>7 DEF HistoryOK, LookupLabels
  <2> QED BY <2>5, <2>8, StepHistory
<1>2. CASE BeginWrite(c)
  <2>1. PICK l : l.op = "write" /\ Goto(c, LoopHead(l), l)
    BY <1>2 DEF BeginWrite, NoLocals
  <2>2. LoopHead(l) \notin {"reply"} \cup ReadAheadLabels
    BY <2>1 DEF LoopHead, ReadAheadLabels, PrefetchLabels
  <2> QED BY <2>1, <2>2, BystanderHistory
<1>3. CASE BeginFlush(c)
  <2>1. PICK l : l.op = "flush" /\ Goto(c, "flush_list", l)
    BY <1>3 DEF BeginFlush, NoLocals
  <2>2. "flush_list" \notin {"reply"} \cup ReadAheadLabels
    BY DEF ReadAheadLabels, PrefetchLabels
  <2> QED BY <2>1, <2>2, BystanderHistory
<1> QED BY <1>1, <1>2, <1>3 DEF Begin

\* A step of read_object on the way to what it looks up.
LEMMA LookupHistory ==
  ASSUME DeviceInv, NEW w, SnapshotInv(w), HistoryInv, WindowGrows, NEW c \in Clients,
         ReadStep(c), NEW next, NEW l \in Locals, Goto(c, next, l),
         l.op = loc[c].op, l.out = loc[c].out, l.cursor = loc[c].cursor,
         next \in {"read_entry"} \cup LookupLabels, manifest' = manifest,
         loc[c].op = "read" =>
           /\ next = "read_entry" => Seen(window'[c], Target(c), EntryPayload(manifest, Target(c)))
           /\ next \in LookupLabels => Seen(window'[c], Target(c), l.entry.sha256.payload)
           /\ next \in {"fill", "filling"} => l.encoded = l.entry.sha256
  PROVE  HistoryInv'
<1>1. Begin(c) \/ Step(c) \/ Fault(c)
  BY DEF Step
<1>2. pc'[c] = next
  BY GotoSets
<1>3. CASE loc[c].op = "read"
  <2>1. HistoryOK(manifest', next, l, window'[c])
    BY <1>2, <1>3, LookingUp
  <2> QED BY <1>1, <2>1, StepHistory
<1>4. CASE loc[c].op # "read"
  <2>1. next \notin {"reply"} \cup ReadAheadLabels
    BY DEF LookupLabels, ReadAheadLabels, PrefetchLabels
  <2> QED BY <1>1, <1>4, <2>1, BystanderHistory
<1> QED BY <1>3, <1>4

\* The bytes of an encoded object make up an object.
LEMMA PayloadType ==
  ASSUME NEW e \in Encoded
  PROVE  e.payload \in Payload
BY DEF Encoded, Payload

\* The steps of read_object: each returns, or is about to return, what it has seen.
LEMMA ReadHistoryKept ==
  ASSUME DeviceInv, NEW w, SnapshotInv(w), HistoryInv, WindowGrows, NEW c \in Clients, ReadStep(c)
  PROVE  HistoryInv'
<1> USE DEF local, remote
<1> DEFINE o == Target(c)
<1>0. /\ loc[c] \in Locals /\ HistoryOK(manifest, pc[c], loc[c], window[c])
      /\ ConnectionOK(channel, pc[c], loc[c])
      /\ Begin(c) \/ Step(c) \/ Fault(c)
  BY OneConnection DEF HistoryInv, Step
<1>1. CASE ReadDirtyRejected(c) \/ ReadOutOfRange(c) \/ ReadCacheRejected(c)
  BY <1>0, <1>1, AbortHistory DEF ReadDirtyRejected, ReadOutOfRange, ReadCacheRejected
<1>2. CASE Reply(c)
  BY <1>0, <1>2, BystanderHistory DEF Reply
<1>3. pc[c] \in {"read_object", "read_entry"} => o \in Objects
  BY TargetOK
<1>4. pc[c] \in LookupLabels /\ loc[c].op = "read" /\ pc'[c] # "idle"
        => Seen(window'[c], o, loc[c].entry.sha256.payload)
  <2> SUFFICES ASSUME pc[c] \in LookupLabels, loc[c].op = "read", pc'[c] # "idle"
               PROVE  Seen(window'[c], o, loc[c].entry.sha256.payload)
    OBVIOUS
  <2>1. Seen(window[c], o, loc[c].entry.sha256.payload)
    BY <1>0 DEF HistoryOK, Target
  <2> QED BY <2>1, SeenStays
<1>5. CASE ReadDirty(c)
  <2> DEFINE payload == dirty_objects[o].sha256.payload
  <2>1. pc[c] = "read_object" /\ dirty_objects[o] # None /\ Return(c, payload)
    BY <1>5 DEF ReadDirty
  <2>2. dirty_objects[o] \in Row
    BY <1>3, <2>1 DEF DeviceInv, VariablesOK, Rows
  <2>3. payload \in Payload
    BY <2>2, PayloadType DEF Row
  <2>4. PayloadOf(dirty_objects, manifest, o) = payload
    BY <2>1 DEF PayloadOf
  <2>5. pc'[c] # "idle" => Seen(window'[c], o, payload)
    BY <1>3, <2>1, <2>4, ContentSeen
  <2> HIDE DEF payload
  <2> QED BY <2>1, <2>3, <2>5, ReturnHistory
<1>6. CASE ReadNotDirty(c)
  <2>1. /\ pc[c] = "read_object" /\ dirty_objects[o] = None /\ manifest' = manifest
        /\ Goto(c, "read_entry", loc[c])
    BY <1>6 DEF ReadNotDirty
  <2>2. PayloadOf(dirty_objects, manifest, o) = EntryPayload(manifest, o)
    BY <2>1 DEF PayloadOf
  <2>3. pc'[c] = "read_entry"
    BY <2>1, GotoSets
  <2>4. Seen(window'[c], o, EntryPayload(manifest, o))
    BY <1>3, <2>1, <2>2, <2>3, ContentSeen
  <2> QED BY <1>0, <2>1, <2>4, LookupHistory DEF LookupLabels
<1>7. CASE ReadEntry(c)
  <2> DEFINE e == manifest.objects[o]
             l == [loc[c] EXCEPT !.entry = e]
  <2>1. /\ pc[c] = "read_entry" /\ o \in ManifestObjects /\ manifest' = manifest
        /\ (e.zero /\ Return(c, ZeroObject)) \/ (~e.zero /\ Goto(c, "read_cache", l))
    BY <1>7 DEF ReadEntry
  <2>2. loc[c].op = "read" /\ pc'[c] # "idle" => Seen(window'[c], o, EntryPayload(manifest, o))
    <3> SUFFICES ASSUME loc[c].op = "read", pc'[c] # "idle"
                 PROVE  Seen(window'[c], o, EntryPayload(manifest, o))
      OBVIOUS
    <3>1. Seen(window[c], o, EntryPayload(manifest, o))
      BY <1>0, <2>1 DEF HistoryOK, Target
    <3> QED BY <3>1, SeenStays
  <2>3. CASE e.zero /\ Return(c, ZeroObject)
    <3>1. EntryPayload(manifest, o) = ZeroObject
      BY <2>3 DEF EntryPayload
    <3>2. ZeroObject \in Payload
      BY FormatAssumption DEF ZeroObject, Payload
    <3> QED BY <2>1, <2>2, <2>3, <3>1, <3>2, ReturnHistory
  <2>4. CASE ~e.zero /\ Goto(c, "read_cache", l)
    <3>1. EntryPayload(manifest, o) = e.sha256.payload
      BY <2>1, <2>4 DEF EntryPayload
    <3>2. e \in Entry
      BY <2>1 DEF DeviceInv, VariablesOK, Manifest
    <3>3. /\ l \in Locals /\ l.op = loc[c].op /\ l.out = loc[c].out /\ l.cursor = loc[c].cursor
          /\ l.entry = e
      BY <1>0, <3>2 DEF Locals
    <3>4. pc'[c] = "read_cache"
      BY <2>4, GotoSets
    <3> HIDE DEF l, e
    <3>5. loc[c].op = "read" => Seen(window'[c], o, l.entry.sha256.payload)
      BY <2>2, <3>1, <3>3, <3>4
    <3> QED BY <2>1, <2>4, <3>3, <3>5, LookupHistory DEF LookupLabels
  <2> QED BY <2>1, <2>3, <2>4
<1>8. CASE ReadCache(c)
  <2> DEFINE bytes == File(o, loc[c].entry.generation)
  <2>1. /\ pc[c] = "read_cache" /\ manifest' = manifest
        /\ \/ Goto(c, "fetch", loc[c])
           \/ bytes = loc[c].entry.sha256 /\ Return(c, bytes.payload)
    BY <1>8 DEF ReadCache
  <2>2. CASE Goto(c, "fetch", loc[c])
    <3>1. pc'[c] = "fetch"
      BY <2>2, GotoSets
    <3>2. loc[c].op = "read" => Seen(window'[c], o, loc[c].entry.sha256.payload)
      BY <1>4, <2>1, <3>1 DEF LookupLabels
    <3> QED BY <1>0, <2>1, <2>2, <3>2, LookupHistory DEF LookupLabels
  <2>3. CASE bytes = loc[c].entry.sha256 /\ Return(c, bytes.payload)
    <3>1. loc[c].entry.sha256 \in Encoded
      BY <1>0, <2>1 DEF ConnectionOK, StoredEntry
    <3>2. bytes.payload \in Payload
      BY <2>3, <3>1, PayloadType
    <3>3. loc[c].op = "read" /\ pc'[c] # "idle" => Seen(window'[c], o, bytes.payload)
      BY <1>4, <2>1, <2>3 DEF LookupLabels
    <3> HIDE DEF bytes
    <3> QED BY <2>1, <2>3, <3>2, <3>3, ReturnHistory DEF LookupLabels
  <2> QED BY <2>1, <2>2, <2>3
<1>9. CASE FetchObject(c)
  <2> DEFINE body == channel[loc[c].entry.remote].body
             l == [loc[c] EXCEPT !.encoded = body]
  <2>1. /\ pc[c] = "fetch" /\ manifest' = manifest /\ Goto(c, "fill", l)
        /\ body = loc[c].entry.sha256
    BY <1>9 DEF FetchObject, Verifies
  <2>2. body \in Encoded
    BY <1>0, <2>1 DEF ConnectionOK, StoredEntry
  <2>3. /\ l \in Locals /\ l.op = loc[c].op /\ l.out = loc[c].out /\ l.cursor = loc[c].cursor
        /\ l.entry = loc[c].entry /\ l.encoded = body
    BY <1>0, <2>2 DEF Locals
  <2>4. pc'[c] = "fill"
    BY <2>1, GotoSets
  <2> HIDE DEF l, body
  <2>5. loc[c].op = "read" => Seen(window'[c], o, l.entry.sha256.payload)
    BY <1>4, <2>1, <2>3, <2>4 DEF LookupLabels
  <2> QED BY <2>1, <2>3, <2>5, LookupHistory DEF LookupLabels
<1>10. CASE FillOpen(c)
  <2>1. pc[c] = "fill" /\ manifest' = manifest /\ Goto(c, "filling", loc[c])
    BY <1>10 DEF FillOpen
  <2>2. pc'[c] = "filling"
    BY <2>1, GotoSets
  <2>3. loc[c].op = "read" => /\ Seen(window'[c], o, loc[c].entry.sha256.payload)
                              /\ loc[c].encoded = loc[c].entry.sha256
    BY <1>0, <1>4, <2>1, <2>2 DEF LookupLabels, HistoryOK
  <2> QED BY <1>0, <2>1, <2>3, LookupHistory DEF LookupLabels
<1>11. CASE FillBytes(c)
  <2>1. pc[c] = "filling" /\ Return(c, loc[c].encoded.payload)
    BY <1>11 DEF FillBytes
  <2>2. loc[c].encoded.payload \in Payload
    BY <1>0, <2>1, PayloadType DEF ConnectionOK
  <2>3. loc[c].op = "read" /\ pc'[c] # "idle" => Seen(window'[c], o, loc[c].encoded.payload)
    BY <1>0, <1>4, <2>1 DEF LookupLabels, HistoryOK
  <2> QED BY <2>1, <2>2, <2>3, ReturnHistory DEF LookupLabels
<1> QED BY <1>1, <1>2, <1>5, <1>6, <1>7, <1>8, <1>9, <1>10, <1>11 DEF ReadStep

\* The read-ahead keeps what the read copied out.
LEMMA ReadAheadHistory ==
  ASSUME DeviceInv, NEW w, SnapshotInv(w), HistoryInv, WindowGrows, NEW c \in Clients,
         Begin(c) \/ Step(c) \/ Fault(c), pc[c] \in ReadAheadLabels,
         NEW next \in {"reply"} \cup ReadAheadLabels, NEW l, Goto(c, next, l),
         l.op = loc[c].op, l.out = loc[c].out, l.cursor = loc[c].cursor
  PROVE  HistoryInv'
<1>1. loc[c].op = "read" /\ loc[c] \in Locals
  BY OneConnection DEF HistoryInv, HistoryOK
<1>2. pc'[c] = next /\ next \notin {"idle", "read_entry"} \cup LookupLabels
  BY GotoSets DEF ReadAheadLabels, PrefetchLabels, LookupLabels
<1>3. HistoryOK(manifest, pc[c], loc[c], window[c])
  BY DEF HistoryInv
<1>4. HistoryOK(manifest', next, loc[c], window'[c])
  BY <1>1, <1>2, ReadingOn
<1>5. HistoryOK(manifest', next, l, window'[c])
  BY <1>1, <1>2, <1>4 DEF HistoryOK, LookupLabels
<1> QED BY <1>5, StepHistory

\* The steps of prefetch_objects.
LEMMA PrefetchHistory ==
  ASSUME DeviceInv, NEW w, SnapshotInv(w), HistoryInv, WindowGrows, NEW c \in Clients,
         PrefetchStep(c)
  PROVE  HistoryInv'
<1> DEFINE Same(l) == l.op = loc[c].op /\ l.out = loc[c].out /\ l.cursor = loc[c].cursor
<1>0. loc[c] \in Locals /\ (Begin(c) \/ Step(c) \/ Fault(c))
  BY OneConnection DEF Step
<1>2. \E next \in {"reply"} \cup ReadAheadLabels : \E l : Goto(c, next, l) /\ Same(l)
  <2> USE DEF ReadAheadLabels, PrefetchLabels
  <2>1. CASE PrefetchDirtyIds(c)
    <3> DEFINE l == [loc[c] EXCEPT !.snapshot = dirty_objects]
               next == "prefetch_lock"
    <3>1. Goto(c, next, l)
      BY <2>1 DEF PrefetchDirtyIds
    <3>2. Same(l)
      BY <1>0 DEF Locals
    <3>3. next \in {"reply"} \cup ReadAheadLabels
      OBVIOUS
    <3> HIDE DEF l, next
    <3> QED BY <3>1, <3>2, <3>3
  <2>2. CASE PrefetchLock(c)
    <3> DEFINE l == [loc[c] EXCEPT !.scan = Target(c)]
               next == "prefetch_scan"
    <3>1. Goto(c, next, l)
      BY <2>2 DEF PrefetchLock
    <3>2. Same(l)
      BY <1>0 DEF Locals
    <3>3. next \in {"reply"} \cup ReadAheadLabels
      OBVIOUS
    <3> HIDE DEF l, next
    <3> QED BY <3>1, <3>2, <3>3
  <2>3. CASE PrefetchSkip(c)
    <3> DEFINE l == [loc[c] EXCEPT !.scan = loc[c].scan + 1]
               next == "prefetch_scan"
    <3>1. Goto(c, next, l)
      BY <2>3 DEF PrefetchSkip
    <3>2. Same(l)
      BY <1>0 DEF Locals
    <3>3. next \in {"reply"} \cup ReadAheadLabels
      OBVIOUS
    <3> HIDE DEF l, next
    <3> QED BY <3>1, <3>2, <3>3
  <2>4. CASE PrefetchWant(c)
    <3> DEFINE o == loc[c].scan
               l == [loc[c] EXCEPT !.scan = o + 1,
                       !.entries = @ \cup {[object_id |-> o, entry |-> manifest.objects[o]]}]
    <3>1. Goto(c, "prefetch_scan", l)
      BY <2>4 DEF PrefetchWant
    <3>2. Same(l)
      BY <1>0 DEF Locals
    <3> HIDE DEF l
    <3> QED BY <3>1, <3>2
  <2>5. CASE PrefetchRejected(c) \/ PrefetchScanned(c)
    BY <2>5 DEF PrefetchRejected, PrefetchScanned
  <2>6. CASE PrefetchFetch(c)
    <3> DEFINE l == [loc[c] EXCEPT !.entries = Fetched(c)]
               next == IF Fetched(c) = {} THEN "reply" ELSE "prefetch_fill"
    <3>1. Goto(c, next, l)
      BY <2>6 DEF PrefetchFetch
    <3>2. Same(l)
      BY <1>0 DEF Locals
    <3>3. next \in {"reply"} \cup ReadAheadLabels
      OBVIOUS
    <3> HIDE DEF l, next
    <3> QED BY <3>1, <3>2, <3>3
  <2>7. CASE PrefetchFillOpen(c)
    BY <2>7 DEF PrefetchFillOpen
  <2>8. CASE PrefetchFillBytes(c)
    <3> DEFINE l == [loc[c] EXCEPT !.entries = loc[c].entries \ {NextFill(c)}]
               next == IF loc[c].entries \ {NextFill(c)} = {} THEN "reply" ELSE "prefetch_fill"
    <3>1. Goto(c, next, l)
      BY <2>8 DEF PrefetchFillBytes
    <3>2. Same(l)
      BY <1>0 DEF Locals
    <3>3. next \in {"reply"} \cup ReadAheadLabels
      OBVIOUS
    <3> HIDE DEF l, next
    <3> QED BY <3>1, <3>2, <3>3
  <2> QED BY <2>1, <2>2, <2>3, <2>4, <2>5, <2>6, <2>7, <2>8 DEF PrefetchStep
<1>3. pc[c] \in ReadAheadLabels
  BY DEF PrefetchStep, PrefetchDirtyIds, PrefetchLock, PrefetchSkip, PrefetchWant,
     PrefetchRejected, PrefetchScanned, PrefetchFetch, PrefetchFillOpen, PrefetchFillBytes,
     ReadAheadLabels, PrefetchLabels
<1> QED BY <1>0, <1>2, <1>3, ReadAheadHistory

\* The steps of write_dirty_object and of flush.
LEMMA WriteFlushHistory ==
  ASSUME DeviceInv, NEW w, SnapshotInv(w), HistoryInv, WindowGrows, NEW c \in Clients,
         WriteStep(c) \/ FlushStep(c)
  PROVE  HistoryInv'
<1> DEFINE Elsewhere(next) == next \notin {"reply"} \cup ReadAheadLabels
<1>0. /\ loc[c] \in Locals /\ ConnectionOK(channel, pc[c], loc[c]) /\ RoleOK(w, c, pc[c], loc[c])
      /\ Begin(c) \/ Step(c) \/ Fault(c)
  BY OneConnection DEF SnapshotInv, Step
<1>1. ASSUME NEW next, NEW l, Goto(c, next, l),
             next = "idle" \/ (l.op # "read" /\ Elsewhere(next))
      PROVE  HistoryInv'
  BY <1>0, <1>1, BystanderHistory
<1>2. \A x \in {"generation", "write_cache", "write_bytes", "mark_dirty", "limit", "read_object",
                "idle"} \cup FlushLabels : Elsewhere(x)
  BY DEF ReadAheadLabels, PrefetchLabels, FlushLabels, FlushingLabels, CommitLabels
<1> HIDE DEF Elsewhere
<1>3. CASE WriteStep(c)
  <2>1. loc[c].op = "write"
    BY <1>0, <1>3 DEF ConnectionOK, WriteStep, CheckLimit, LimitReached, NextGeneration,
       WriteCacheOpen, WriteCacheBytes, MarkDirty
  <2>2. CASE CheckLimit(c) \/ WriteCacheOpen(c) \/ WriteCacheBytes(c)
    BY <1>1, <1>2, <2>1, <2>2 DEF CheckLimit, WriteCacheOpen, WriteCacheBytes
  <2>3. CASE LimitReached(c)
    BY <1>0, <2>3, AbortHistory DEF LimitReached
  <2>4. CASE NextGeneration(c)
    <3> DEFINE g == manifest.generation + 1
               l == [loc[c] EXCEPT !.generation = g,
                       !.encoded = Encode(Target(c), g, Overlay(loc[c], loc[c].object))]
    <3>1. Goto(c, "write_cache", l)
      BY <2>4 DEF NextGeneration
    <3>2. l.op = loc[c].op
      BY <1>0 DEF Locals
    <3> HIDE DEF l
    <3> QED BY <1>1, <1>2, <2>1, <3>1, <3>2
  <2>5. CASE MarkDirty(c)
    <3>1. Goto(c, LoopHead(Advance(loc[c])), Advance(loc[c]))
      BY <2>5 DEF MarkDirty
    <3>2. Advance(loc[c]).op = "write"
      BY <1>0, <2>1, AdvanceGoes
    <3>3. LoopHead(Advance(loc[c])) \in {"limit", "read_object", "idle"}
      BY <3>2 DEF LoopHead
    <3> QED BY <1>1, <1>2, <3>1, <3>2, <3>3
  <2> QED BY <1>3, <2>2, <2>3, <2>4, <2>5 DEF WriteStep
<1>4. CASE FlushStep(c)
  <2>1. loc[c].op = "flush"
    BY <1>0, <1>4 DEF RoleOK, FlushLabels, FlushingLabels, CommitLabels, FlushStep, FlushList,
       FlushLock, FlushObject, FlushRejected, FlushMissingObject, FlushManifest,
       FlushSuperblock, FlushPin, FlushBackup, FlushReplace, FlushClear
  <2>2. CASE FlushRejected(c) \/ FlushMissingObject(c)
    BY <1>0, <2>2, AbortHistory DEF FlushRejected, FlushMissingObject
  <2>3. \A x : /\ [loc[c] EXCEPT !.snapshot = x].op # "read"
               /\ [loc[c] EXCEPT !.superblock = x].op # "read"
               /\ [loc[c] EXCEPT !.message = x].op # "read"
    BY <1>0, <2>1 DEF Locals
  <2>4. CASE FlushList(c)
    BY <1>1, <1>2, <2>3, <2>4 DEF FlushList, FlushLabels
  <2>5. CASE FlushLock(c) \/ FlushPin(c) \/ FlushBackup(c) \/ FlushReplace(c)
    BY <1>1, <1>2, <2>1, <2>5 DEF FlushLock, FlushPin, FlushBackup, FlushReplace,
       FlushLabels, FlushingLabels, CommitLabels
  <2>6. CASE FlushObject(c)
    BY <1>1, <1>2, <2>3, <2>6 DEF FlushObject, FlushLabels, FlushingLabels
  <2>7. CASE FlushManifest(c)
    BY <1>1, <1>2, <2>3, <2>7 DEF FlushManifest, FlushLabels, FlushingLabels, CommitLabels
  <2>8. CASE FlushSuperblock(c)
    BY <1>1, <1>2, <2>3, <2>8 DEF FlushSuperblock, FlushLabels, FlushingLabels, CommitLabels
  <2>9. CASE FlushClear(c)
    BY <1>1, <2>9 DEF FlushClear
  <2> QED BY <1>4, <2>2, <2>4, <2>5, <2>6, <2>7, <2>8, <2>9 DEF FlushStep
<1> QED BY <1>3, <1>4

\* Failures: a read that fails gives no answer, a read-ahead that fails is dropped.
LEMMA FaultHistory ==
  ASSUME DeviceInv, NEW w, SnapshotInv(w), HistoryInv, WindowGrows, NEW c \in Clients, Fault(c)
  PROVE  HistoryInv'
<1>1. CASE Abort(c)
  BY <1>1, AbortHistory
<1>2. CASE pc[c] \in ReadAheadLabels /\ Goto(c, "reply", loc[c])
  BY <1>2, ReadAheadHistory
<1>3. Abort(c) \/ (pc[c] \in ReadAheadLabels /\ Goto(c, "reply", loc[c]))
  BY DEF Fault, SendFails, PinFails, FetchFails, QueryFails, WriteCacheFails,
     PrefetchQueryFails, PrefetchFillFails, MarkDirtyFails, FlushClearFails,
     ReadAheadLabels, PrefetchLabels
<1> QED BY <1>1, <1>2, <1>3

\* A new process has no request under way.
LEMMA IdleHistory ==
  ASSUME NEW m, NEW win
  PROVE  HistoryOK(m, "idle", NoLocals, win)
<1>1. NoLocals.op = "none"
  BY DEF NoLocals
<1> QED BY <1>1 DEF HistoryOK, ReadAheadLabels, PrefetchLabels

\* Every step keeps the invariant.
LEMMA NextHistory ==
  ASSUME NEW w
  PROVE  DeviceInv /\ SnapshotInv(w) /\ HistoryInv /\ [HistoryNext]_<<vars, window>> => HistoryInv'
<1> SUFFICES ASSUME DeviceInv, SnapshotInv(w), HistoryInv, [HistoryNext]_<<vars, window>>
             PROVE  HistoryInv'
  OBVIOUS
<1>1. CASE UNCHANGED <<vars, window>>
  BY <1>1 DEF vars, HistoryInv
<1>2. CASE HistoryNext
  <2>1. WindowGrows /\ Next
    BY <1>2, HistoryGrows DEF HistoryNext
  <2>2. ASSUME NEW c \in Clients, Begin(c) \/ Step(c) \/ Fault(c)
        PROVE  HistoryInv'
    BY <2>1, <2>2, BeginHistory, ReadHistoryKept, PrefetchHistory, WriteFlushHistory,
       FaultHistory DEF Step
  <2>3. CASE \A c \in Clients : pc'[c] = "idle" /\ loc'[c] = NoLocals
    BY <2>3, IdleHistory DEF HistoryInv
  <2>4. CASE Crash \/ RestartElsewhere \/ RestartOnPrevious
    BY <2>3, <2>4 DEF Crash, RestartElsewhere, RestartOnPrevious, RestartsElsewhere, Restarted
  <2>5. CASE Wait
    <3>1. \A c \in Clients : pc'[c] = "idle" /\ loc'[c] = loc[c]
      BY <2>5 DEF Wait, vars
    <3>2. \A c \in Clients : loc[c].op # "read"
      BY <2>5 DEF Wait, HistoryInv, HistoryOK
    <3> QED BY <3>1, <3>2, NotReading DEF HistoryInv, HistoryOK, ReadAheadLabels, PrefetchLabels
  <2> QED BY <2>1, <2>2, <2>4, <2>5 DEF Next
<1> QED BY <1>1, <1>2

\* Reads are current: with one connection that writes and flushes beside any number of
\* readers, every unit a read returns had that value at some moment while the request
\* was under way, although read_at takes no lock across its steps, and whatever sends,
\* downloads and store operations fail, wherever processes die and machines are replaced.
THEOREM ReadsAreCurrent ==
  ASSUME NEW w, OneWriter(w)
  PROVE  HistorySpec => []ReadsCurrent
<1>1. HistorySpec => Spec
  <2>1. HistoryInit => Init
    BY DEF HistoryInit
  <2>2. [HistoryNext]_<<vars, window>> => [Next]_vars
    BY DEF HistoryNext
  <2> QED BY <2>1, <2>2, PTL DEF HistorySpec, Spec
<1>2. HistoryInit => HistoryInv
  <2> SUFFICES ASSUME HistoryInit PROVE HistoryInv
    OBVIOUS
  <2>1. \A c \in Clients : pc[c] = "idle" /\ loc[c] = NoLocals
    BY DEF HistoryInit, Init
  <2> QED BY <2>1, IdleHistory DEF HistoryInv
<1>3. DeviceInv /\ SnapshotInv(w) /\ HistoryInv /\ [HistoryNext]_<<vars, window>> => HistoryInv'
  BY NextHistory
<1>4. HistoryInv => ReadsCurrent
  BY DEF HistoryInv, HistoryOK, ReadsCurrent
<1> QED BY <1>1, <1>2, <1>3, <1>4, Invariance, SnapshotInvariance, PTL DEF HistorySpec
=============================================================================
