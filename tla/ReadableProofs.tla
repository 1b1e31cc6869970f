--------------------------- MODULE ReadableProofs ---------------------------
(***************************************************************************)
(* What the cache directory promises, for any number of objects, readers,  *)
(* requests, failures of the network, crashes and changes of machine: as   *)
(* long as no operation of the store fails, and no process dies in the     *)
(* middle of a cache file and is followed by another one on what it left,  *)
(* whoever finds the store free can read every object, dirty or clean, and *)
(* flush finds its files whole although it takes no lock.  Then neither    *)
(* crashes nor changes of machine lose anything, however many.             *)
(*                                                                         *)
(* The runs FlushRace and CrashDirty show what two connections that write, *)
(* or one crash in the middle of a file, do to that promise.               *)
(***************************************************************************)
EXTENDS DurabilityProofs

(* The snapshot of a flush *)

\* The rows a flush took a copy of are still the rows: nobody writes beside it.
SnapshotOf(rows, p, l) ==
  /\ p = "flush_lock" => l.snapshot = rows
  /\ p = "flush_object" => \A o \in Objects : l.snapshot[o] \in {None, rows[o]}

SnapshotInv(w) ==
  \A c \in Clients : /\ RoleOK(w, c, pc[c], loc[c])
                     /\ SnapshotOf(dirty_objects, pc[c], loc[c])

-----------------------------------------------------------------------------
(* The inductive invariant *)

\* A claim <<o, g, sha256>>: whoever looks object o up under generation g will compare
\* the file with sha256.  The dirty rows make some, the manifest makes others, and so does
\* an entry that a handler copied from it; and the saved manifest makes those of the next
\* process.
Claim(o, e) == <<o, e.generation, e.sha256>>

RowClaims(rows) == {Claim(o, rows[o]) : o \in DirtyIds(rows)}

EntryClaims(m) == {Claim(o, m.objects[o]) : o \in {x \in ManifestObjects : ~m.objects[x].zero}}

HeldClaims(p, l) ==
  {Claim(e.object_id, e.entry) : e \in l.entries}
    \cup IF p \in LookupLabels THEN {Claim(ObjectOf(l.cursor), l.entry)} ELSE {}

\* The claims of clean objects, present and past.
CleanClaims ==
  EntryClaims(manifest) \cup EntryClaims(manifest_state)
    \cup UNION {HeldClaims(pc[c], loc[c]) : c \in Clients}

Claims == CleanClaims \cup RowClaims(dirty_objects)

\* The file that the holder of the store mutex is in the middle of writing.
WorkLabels == {"filling", "prefetch_filling", "write_bytes", "mark_dirty"}

FirstOf(entries) == CHOOSE e \in entries : \A f \in entries : e.object_id <= f.object_id

FileOf(p, l) ==
  CASE p = "filling" -> <<ObjectOf(l.cursor), l.entry.generation>>
    [] p = "prefetch_filling" ->
         <<FirstOf(l.entries).object_id, FirstOf(l.entries).entry.generation>>
    [] OTHER -> <<ObjectOf(l.cursor), l.generation>>

Busy(k) == \E c \in Clients : pc[c] \in WorkLabels /\ FileOf(pc[c], loc[c]) = k

\* No two claims on one file differ, and a file that nobody is writing is as claimed.
ClaimsAgree ==
  \A x, y \in Claims : x[1] = y[1] /\ x[2] = y[2] => x[3] = y[3]

FilesAgree ==
  \A x \in Claims : <<x[1], x[2]>> \in DOMAIN files =>
    files[<<x[1], x[2]>>] = x[3] \/ Busy(<<x[1], x[2]>>)

\* A dirty row's file is there, and holds that object under that generation.
RowsOK(rows, fs) ==
  \A o \in DirtyIds(rows) :
    /\ <<o, rows[o].generation>> \in DOMAIN fs
    /\ rows[o].sha256.object_id = o /\ rows[o].sha256.generation = rows[o].generation

\* The next write is under a generation that no clean object has had, and the next
\* flush does not go back.
CleanBelow == \A x \in CleanClaims : x[2] <= manifest.generation

EntriesBelow(m) == \A x \in EntryClaims(m) : x[2] <= m.generation

\* Nor does the next process.
SavedBelow ==
  EntriesBelow(manifest_state) /\ manifest_state.generation <= manifest.generation

ManifestsBelow(ch) == \A i \in DOMAIN ch : ch[i].kind = "manifest" => EntriesBelow(ch[i].body)

RowsAbove(rows, m) == rows # NoRows => \E o \in DirtyIds(rows) : rows[o].generation >= m.generation

\* What a handler is about to put into a file or into the manifest.
WorkOK(m, fs, p, l) ==
  /\ p \in {"fill", "filling"} => l.encoded = l.entry.sha256
  /\ p = "flush_object" => \A o \in DirtyIds(l.snapshot) : l.snapshot[o].generation <= m.generation
  /\ p \in EncodedLabels => /\ l.generation = m.generation + 1
                            /\ l.encoded.object_id = ObjectOf(l.cursor)
                            /\ l.encoded.generation = l.generation
  /\ p = "mark_dirty" => /\ <<ObjectOf(l.cursor), l.generation>> \in DOMAIN fs
                         /\ fs[<<ObjectOf(l.cursor), l.generation>>] = l.encoded

\* The store mutex is held by whoever writes a file, a row or the saved manifest.
StoreHeld == \A c \in Clients : pc[c] \in WorkLabels \cup {"flush_clear"} => store_lock = c

ReadableInv(w) ==
  /\ SnapshotInv(w)
  /\ StoreHeld
  /\ ClaimsAgree /\ FilesAgree /\ CleanBelow
  /\ RowsOK(dirty_objects, files)
  /\ RowsAbove(dirty_objects, manifest)
  /\ SavedBelow
  /\ ManifestsBelow(channel)
  /\ \A c \in Clients : WorkOK(manifest, files, pc[c], loc[c])

\* A process that dies in the middle of a cache file, or between the file and its row.
TornCrash == Crash /\ \E c \in Clients : pc[c] \in WorkLabels

\* A handler leaves the saved manifest alone, or makes it the one in memory.
Saves == manifest_state' = manifest_state \/ (manifest_state' = manifest /\ manifest' = manifest)

-----------------------------------------------------------------------------
(* Where a handler goes *)

\* A step of one connection is not seen by the others.
LEMMA GotoSets ==
  ASSUME DeviceInv, NEW c \in Clients, NEW next, NEW l, Goto(c, next, l)
  PROVE  /\ pc'[c] = next
         /\ loc'[c] = IF next = "idle" THEN NoLocals ELSE l
         /\ \A d \in Clients : d # c => pc'[d] = pc[d] /\ loc'[d] = loc[d]
BY DEF Goto, DeviceInv, ConnectionsOK

\* The loops go on at the steps of a request that has nothing in hand.
LoopLabels == {"limit", "read_object", "prefetch", "reply", "idle"}

\* So does read_object when it returns.
LEMMA ReturnGoes ==
  ASSUME DeviceInv, NEW c \in Clients, NEW payload, Return(c, payload)
  PROVE  \E next \in LoopLabels :
           \E l : Goto(c, next, l) /\ l.op = loc[c].op /\ l.entries = loc[c].entries
<1> DEFINE a == Advance([loc[c] EXCEPT !.out = CopyOut(loc[c], payload)])
           b == [loc[c] EXCEPT !.object = payload, !.entry = NoEntry, !.encoded = None]
<1>1. loc[c] \in Locals
  BY OneConnection
<1>2. /\ a.op = loc[c].op /\ b.op = loc[c].op
      /\ a.entries = loc[c].entries /\ b.entries = loc[c].entries
  BY <1>1 DEF Locals, Advance
<1>3. Goto(c, LoopHead(a), a) \/ Goto(c, "limit", b)
  BY DEF Return
<1>4. \A l : LoopHead(l) \in LoopLabels
  BY DEF LoopHead, LoopLabels
<1>5. "limit" \in LoopLabels
  BY DEF LoopLabels
<1> HIDE DEF a, b
<1> QED BY <1>2, <1>3, <1>4, <1>5

\* The loop of write_at after a pass.
LEMMA AdvanceGoes ==
  ASSUME NEW l \in Locals
  PROVE  /\ LoopHead(Advance(l)) \in LoopLabels /\ Advance(l).op = l.op
         /\ Advance(l).entries = l.entries
BY DEF LoopHead, LoopLabels, Advance, Locals

\* Connections other than w neither write nor flush.
LEMMA StepSnapshot ==
  ASSUME DeviceInv, NEW w, SnapshotInv(w), NEW c \in Clients, NEW next, NEW l,
         Goto(c, next, l), c = w \/ dirty_objects' = dirty_objects,
         next # "idle" => RoleOK(w, c, next, l) /\ SnapshotOf(dirty_objects', next, l)
  PROVE  SnapshotInv(w)'
<1>1. RoleOK(w, c, "idle", NoLocals) /\ SnapshotOf(dirty_objects', "idle", NoLocals)
  BY IdleDurable DEF SnapshotOf
<1>2. RoleOK(w, c, pc'[c], loc'[c]) /\ SnapshotOf(dirty_objects', pc'[c], loc'[c])
  BY <1>1, GotoSets
<1>3. ASSUME NEW d \in Clients, d # c
      PROVE  RoleOK(w, d, pc'[d], loc'[d]) /\ SnapshotOf(dirty_objects', pc'[d], loc'[d])
  <2>1. /\ pc'[d] = pc[d] /\ loc'[d] = loc[d]
        /\ RoleOK(w, d, pc[d], loc[d]) /\ SnapshotOf(dirty_objects, pc[d], loc[d])
    BY <1>3, GotoSets DEF SnapshotInv
  <2>2. CASE c = w
    BY <1>3, <2>1, <2>2 DEF RoleOK, SnapshotOf, FlushLabels, FlushingLabels
  <2>3. CASE dirty_objects' = dirty_objects
    BY <2>1, <2>3
  <2> QED BY <2>2, <2>3
<1> QED BY <1>2, <1>3 DEF SnapshotInv

\* A handler that goes on with the same request and no snapshot, or ends it.
LEMMA PlainSnapshot ==
  ASSUME DeviceInv, NEW w, SnapshotInv(w), NEW c \in Clients, NEW next, NEW l,
         Goto(c, next, l),
         \/ dirty_objects' = dirty_objects
         \/ loc[c].op = "write" \/ pc[c] \in FlushLabels,
         \/ next = "idle"
         \/ /\ l.op = loc[c].op /\ next \notin {"flush_lock", "flush_object"}
            /\ next \in FlushLabels => pc[c] \in FlushLabels
  PROVE  SnapshotInv(w)'
<1>1. RoleOK(w, c, pc[c], loc[c])
  BY DEF SnapshotInv
<1>2. c = w \/ dirty_objects' = dirty_objects
  BY <1>1 DEF RoleOK
<1>3. next # "idle" => RoleOK(w, c, next, l) /\ SnapshotOf(dirty_objects', next, l)
  BY <1>1 DEF RoleOK, SnapshotOf
<1> QED BY <1>2, <1>3, StepSnapshot

\* The handler returns an error.
LEMMA AbortSnapshot ==
  ASSUME DeviceInv, NEW w, SnapshotInv(w), NEW c \in Clients, Abort(c),
         \/ dirty_objects' = dirty_objects
         \/ loc[c].op = "write" \/ pc[c] \in FlushLabels
  PROVE  SnapshotInv(w)'
BY PlainSnapshot DEF Abort

\* read_object returns.
LEMMA ReturnSnapshot ==
  ASSUME DeviceInv, NEW w, SnapshotInv(w), NEW c \in Clients, NEW payload,
         Return(c, payload), dirty_objects' = dirty_objects
  PROVE  SnapshotInv(w)'
<1>0. PICK next \in LoopLabels : \E l : Goto(c, next, l) /\ l.op = loc[c].op
  BY ReturnGoes
<1>1. PICK l : Goto(c, next, l) /\ l.op = loc[c].op
  BY <1>0
<1>2. next \notin FlushLabels /\ next \notin {"flush_lock", "flush_object"}
  BY DEF LoopLabels, FlushLabels, FlushingLabels, CommitLabels
<1> QED BY <1>1, <1>2, PlainSnapshot

\* A request that arrives is in its role.
LEMMA BeginSnapshot ==
  ASSUME DeviceInv, NEW w, OneWriter(w), SnapshotInv(w), NEW c \in Clients, Begin(c)
  PROVE  SnapshotInv(w)'
<1> USE DEF local
<1>1. CASE BeginRead(c)
  <2>1. PICK l : l.op = "read" /\ Goto(c, LoopHead(l), l)
    BY <1>1 DEF BeginRead, NoLocals
  <2>2. LoopHead(l) \in LoopLabels
    BY DEF LoopHead, LoopLabels
  <2>3. RoleOK(w, c, LoopHead(l), l) /\ SnapshotOf(dirty_objects, LoopHead(l), l)
    BY <2>1, <2>2 DEF RoleOK, SnapshotOf, LoopLabels, FlushLabels, FlushingLabels, CommitLabels
  <2> QED BY <1>1, <2>1, <2>3, StepSnapshot DEF BeginRead
<1>2. CASE BeginWrite(c)
  <2>1. PICK l : l.op = "write" /\ Goto(c, LoopHead(l), l)
    BY <1>2 DEF BeginWrite, NoLocals
  <2>2. LoopHead(l) \in LoopLabels /\ c = w
    BY <1>2 DEF LoopHead, LoopLabels, BeginWrite, OneWriter
  <2>3. RoleOK(w, c, LoopHead(l), l) /\ SnapshotOf(dirty_objects, LoopHead(l), l)
    BY <2>1, <2>2 DEF RoleOK, SnapshotOf, LoopLabels, FlushLabels, FlushingLabels, CommitLabels
  <2> QED BY <1>2, <2>1, <2>3, StepSnapshot DEF BeginWrite
<1>3. CASE BeginFlush(c)
  <2>1. PICK l : l.op = "flush" /\ Goto(c, "flush_list", l)
    BY <1>3 DEF BeginFlush, NoLocals
  <2>2. c = w
    BY <1>3 DEF BeginFlush, OneWriter
  <2>3. RoleOK(w, c, "flush_list", l) /\ SnapshotOf(dirty_objects, "flush_list", l)
    BY <2>1, <2>2 DEF RoleOK, SnapshotOf
  <2> QED BY <1>3, <2>1, <2>3, StepSnapshot DEF BeginFlush
<1> QED BY <1>1, <1>2, <1>3 DEF Begin

\* The steps of reads and of the read-ahead.
LEMMA ReadSnapshot ==
  ASSUME DeviceInv, NEW w, SnapshotInv(w), NEW c \in Clients, ReadStep(c) \/ PrefetchStep(c)
  PROVE  SnapshotInv(w)'
<1> USE DEF local
<1>0. loc[c] \in Locals
  BY OneConnection
<1>1. dirty_objects' = dirty_objects
  BY QuietActions
<1>2. CASE ReadDirtyRejected(c) \/ ReadOutOfRange(c) \/ ReadCacheRejected(c)
  BY <1>1, <1>2, AbortSnapshot DEF ReadDirtyRejected, ReadOutOfRange, ReadCacheRejected
<1>3. ASSUME NEW payload, Return(c, payload)
      PROVE  SnapshotInv(w)'
  BY <1>1, <1>3, ReturnSnapshot
<1>4. ASSUME NEW next, NEW l, Goto(c, next, l), l.op = loc[c].op,
             next \notin FlushLabels
      PROVE  SnapshotInv(w)'
  <2>1. next \notin {"flush_lock", "flush_object"}
    BY <1>4 DEF FlushLabels, FlushingLabels
  <2> QED BY <1>1, <1>4, <2>1, PlainSnapshot
<1>5. {"idle", "reply", "read_entry", "read_cache", "fetch", "fill", "filling",
       "prefetch_lock", "prefetch_scan", "prefetch_fetch", "prefetch_fill",
       "prefetch_filling"} \cap FlushLabels = {}
  BY DEF FlushLabels, FlushingLabels, CommitLabels
<1>6. CASE \/ ReadDirty(c) \/ ReadNotDirty(c) \/ ReadCache(c) \/ FillOpen(c) \/ FillBytes(c)
           \/ Reply(c)
  <2>1. CASE ReadDirty(c)
    BY <1>3, <2>1 DEF ReadDirty
  <2>2. CASE ReadNotDirty(c)
    BY <1>4, <1>5, <2>2 DEF ReadNotDirty
  <2>3. CASE ReadCache(c)
    BY <1>3, <1>4, <1>5, <2>3 DEF ReadCache
  <2>4. CASE FillOpen(c) \/ FillBytes(c)
    BY <1>3, <1>4, <1>5, <2>4 DEF FillOpen, FillBytes
  <2>5. CASE Reply(c)
    BY <1>1, <2>5, PlainSnapshot DEF Reply
  <2> QED BY <1>6, <2>1, <2>2, <2>3, <2>4, <2>5
<1>7. CASE ReadEntry(c)
  <2> DEFINE l == [loc[c] EXCEPT !.entry = manifest.objects[Target(c)]]
  <2>1. Return(c, ZeroObject) \/ Goto(c, "read_cache", l)
    BY <1>7 DEF ReadEntry
  <2>2. l.op = loc[c].op
    BY <1>0 DEF Locals
  <2> HIDE DEF l
  <2> QED BY <1>3, <1>4, <1>5, <2>1, <2>2
<1>8. CASE FetchObject(c)
  <2> DEFINE l == [loc[c] EXCEPT !.encoded = channel[loc[c].entry.remote].body]
  <2>1. Goto(c, "fill", l)
    BY <1>8 DEF FetchObject
  <2>2. l.op = loc[c].op
    BY <1>0 DEF Locals
  <2> HIDE DEF l
  <2> QED BY <1>4, <1>5, <2>1, <2>2
<1>9. CASE PrefetchStep(c)
  <2>1. \A x : /\ [loc[c] EXCEPT !.snapshot = x].op = loc[c].op
               /\ [loc[c] EXCEPT !.scan = x].op = loc[c].op
               /\ [loc[c] EXCEPT !.entries = x].op = loc[c].op
    BY <1>0 DEF Locals
  <2>2. \E next \in {"reply", "prefetch_lock", "prefetch_scan", "prefetch_fetch",
                     "prefetch_fill", "prefetch_filling"} :
          \E l : Goto(c, next, l) /\ l.op = loc[c].op
    <3>1. CASE PrefetchDirtyIds(c)
      BY <2>1, <3>1 DEF PrefetchDirtyIds
    <3>2. CASE PrefetchLock(c)
      BY <2>1, <3>2 DEF PrefetchLock
    <3>3. CASE PrefetchSkip(c)
      BY <2>1, <3>3 DEF PrefetchSkip
    <3>4. CASE PrefetchWant(c)
      <4> DEFINE o == loc[c].scan
                 l == [loc[c] EXCEPT !.scan = o + 1,
                         !.entries = @ \cup {[object_id |-> o, entry |-> manifest.objects[o]]}]
      <4>1. Goto(c, "prefetch_scan", l)
        BY <3>4 DEF PrefetchWant
      <4>2. l.op = loc[c].op
        BY <1>0 DEF Locals
      <4> HIDE DEF l
      <4> QED BY <4>1, <4>2
    <3>5. CASE PrefetchRejected(c) \/ PrefetchScanned(c)
      BY <3>5 DEF PrefetchRejected, PrefetchScanned
    <3>6. CASE PrefetchFetch(c)
      BY <2>1, <3>6 DEF PrefetchFetch
    <3>7. CASE PrefetchFillOpen(c)
      BY <3>7 DEF PrefetchFillOpen
    <3>8. CASE PrefetchFillBytes(c)
      BY <2>1, <3>8 DEF PrefetchFillBytes
    <3> QED BY <1>9, <3>1, <3>2, <3>3, <3>4, <3>5, <3>6, <3>7, <3>8 DEF PrefetchStep
  <2> QED BY <1>4, <1>5, <2>2
<1> QED BY <1>2, <1>6, <1>7, <1>8, <1>9 DEF ReadStep

\* The steps of write_dirty_object.
LEMMA WriteSnapshot ==
  ASSUME DeviceInv, NEW w, SnapshotInv(w), NEW c \in Clients, WriteStep(c)
  PROVE  SnapshotInv(w)'
<1> USE DEF local
<1>0. loc[c] \in Locals
  BY OneConnection
<1>1. {"generation", "write_cache", "write_bytes", "mark_dirty"} \cap FlushLabels = {}
  BY DEF FlushLabels, FlushingLabels, CommitLabels
<1>2. ASSUME NEW next, NEW l, Goto(c, next, l), l.op = loc[c].op, next \notin FlushLabels,
             dirty_objects' = dirty_objects
      PROVE  SnapshotInv(w)'
  <2>1. next \notin {"flush_lock", "flush_object"}
    BY <1>2 DEF FlushLabels, FlushingLabels
  <2> QED BY <1>2, <2>1, PlainSnapshot
<1>3. CASE CheckLimit(c) \/ WriteCacheOpen(c) \/ WriteCacheBytes(c)
  BY <1>1, <1>2, <1>3 DEF CheckLimit, WriteCacheOpen, WriteCacheBytes
<1>4. CASE LimitReached(c)
  BY <1>4, AbortSnapshot DEF LimitReached
<1>5. CASE NextGeneration(c)
  <2> DEFINE g == manifest.generation + 1
             l == [loc[c] EXCEPT !.generation = g,
                     !.encoded = Encode(Target(c), g, Overlay(loc[c], loc[c].object))]
  <2>1. Goto(c, "write_cache", l) /\ dirty_objects' = dirty_objects
    BY <1>5 DEF NextGeneration
  <2>2. l.op = loc[c].op
    BY <1>0 DEF Locals
  <2> HIDE DEF l
  <2> QED BY <1>1, <1>2, <2>1, <2>2
<1>6. CASE MarkDirty(c)
  <2>1. loc[c].op = "write"
    BY <1>6, OneConnection DEF ConnectionOK, MarkDirty
  <2>2. Goto(c, LoopHead(Advance(loc[c])), Advance(loc[c]))
    BY <1>6 DEF MarkDirty
  <2>3. LoopHead(Advance(loc[c])) \in LoopLabels /\ Advance(loc[c]).op = loc[c].op
    BY <1>0, AdvanceGoes
  <2>4. LoopHead(Advance(loc[c])) \notin FlushLabels \cup {"flush_lock", "flush_object"}
    BY <2>3 DEF LoopLabels, FlushLabels, FlushingLabels, CommitLabels
  <2> QED BY <2>1, <2>2, <2>3, <2>4, PlainSnapshot
<1> QED BY <1>3, <1>4, <1>5, <1>6 DEF WriteStep

\* The steps of flush: the snapshot is taken, loses one row after the other, and ends.
LEMMA FlushSnapshot ==
  ASSUME DeviceInv, NEW w, SnapshotInv(w), NEW c \in Clients, FlushStep(c)
  PROVE  SnapshotInv(w)'
<1> USE DEF local
<1>0. loc[c] \in Locals /\ RoleOK(w, c, pc[c], loc[c])
  BY OneConnection DEF SnapshotInv
<1>1. ASSUME NEW next, NEW l, Goto(c, next, l), l.op = loc[c].op, pc[c] \in FlushLabels,
             next \notin {"flush_lock", "flush_object"}
      PROVE  SnapshotInv(w)'
  BY <1>1, PlainSnapshot
<1>2. CASE FlushRejected(c) \/ FlushMissingObject(c)
  BY <1>2, AbortSnapshot DEF FlushRejected, FlushMissingObject
<1>3. CASE FlushList(c)
  <2> DEFINE next == IF dirty_objects = NoRows THEN "idle" ELSE "flush_lock"
             l == [loc[c] EXCEPT !.snapshot = dirty_objects]
  <2>1. Goto(c, next, l) /\ dirty_objects' = dirty_objects /\ pc[c] = "flush_list"
    BY <1>3 DEF FlushList
  <2>2. l.op = loc[c].op /\ l.snapshot = dirty_objects
    BY <1>0 DEF Locals
  <2> HIDE DEF l
  <2>3. next # "idle" => RoleOK(w, c, next, l) /\ SnapshotOf(dirty_objects', next, l)
    BY <1>0, <2>1, <2>2 DEF RoleOK, SnapshotOf, FlushLabels
  <2> HIDE DEF next
  <2> QED BY <2>1, <2>3, StepSnapshot
<1>4. CASE FlushLock(c)
  <2>1. Goto(c, "flush_object", loc[c]) /\ dirty_objects' = dirty_objects /\ pc[c] = "flush_lock"
    BY <1>4 DEF FlushLock
  <2>2. RoleOK(w, c, "flush_object", loc[c])
    BY <1>0, <2>1 DEF RoleOK, FlushLabels
  <2>3. SnapshotOf(dirty_objects', "flush_object", loc[c])
    BY <2>1 DEF SnapshotInv, SnapshotOf
  <2> QED BY <2>1, <2>2, <2>3, StepSnapshot
<1>5. CASE FlushObject(c)
  <2> DEFINE rest == [loc[c].snapshot EXCEPT ![FlushTarget(c)] = None]
             next == IF rest = NoRows THEN "flush_manifest" ELSE "flush_object"
             l == [loc[c] EXCEPT !.snapshot = rest]
  <2>1. Goto(c, next, l) /\ dirty_objects' = dirty_objects /\ pc[c] = "flush_object"
    BY <1>5 DEF FlushObject
  <2>2. l.op = loc[c].op /\ l.snapshot = rest
    BY <1>0 DEF Locals
  <2>3. \A o \in Objects : rest[o] \in {None, dirty_objects[o]}
    BY <1>0, <2>1 DEF SnapshotInv, SnapshotOf, Locals, Rows
  <2> HIDE DEF l, rest
  <2>4. RoleOK(w, c, next, l) /\ SnapshotOf(dirty_objects', next, l)
    BY <1>0, <2>1, <2>2, <2>3 DEF RoleOK, SnapshotOf, FlushLabels, FlushingLabels
  <2> HIDE DEF next
  <2> QED BY <2>1, <2>4, StepSnapshot
<1>6. CASE FlushManifest(c)
  <2> DEFINE next == IF pinned = 0 THEN "flush_superblock" ELSE "flush_backup"
             ref == [message_id |-> Len(channel) + 1, generation |-> manifest.generation]
             l == [loc[c] EXCEPT !.superblock = ForManifest(channel, pinned, ref)]
  <2>1. Goto(c, next, l) /\ pc[c] \in FlushLabels
    BY <1>6 DEF FlushManifest, FlushLabels, FlushingLabels
  <2>2. l.op = loc[c].op /\ next \notin {"flush_lock", "flush_object"}
    BY <1>0 DEF Locals
  <2> HIDE DEF l, next
  <2> QED BY <1>1, <2>1, <2>2
<1>7. CASE FlushSuperblock(c)
  <2> DEFINE l == [loc[c] EXCEPT !.message = Len(channel) + 1]
  <2>1. Goto(c, "flush_pin", l) /\ pc[c] \in FlushLabels
    BY <1>7 DEF FlushSuperblock, FlushLabels, FlushingLabels, CommitLabels
  <2>2. l.op = loc[c].op
    BY <1>0 DEF Locals
  <2> HIDE DEF l
  <2> QED BY <1>1, <2>1, <2>2
<1>8. CASE FlushPin(c) \/ FlushBackup(c) \/ FlushReplace(c)
  BY <1>1, <1>8 DEF FlushPin, FlushBackup, FlushReplace, FlushLabels, FlushingLabels, CommitLabels
<1>9. CASE FlushClear(c)
  <2>1. Goto(c, "idle", NoLocals) /\ pc[c] \in FlushLabels
    BY <1>9 DEF FlushClear, FlushLabels, FlushingLabels
  <2> QED BY <2>1, PlainSnapshot
<1> QED BY <1>2, <1>3, <1>4, <1>5, <1>6, <1>7, <1>8, <1>9 DEF FlushStep

\* Failures end the request, or the read-ahead.
LEMMA FaultSnapshot ==
  ASSUME DeviceInv, NEW w, SnapshotInv(w), NEW c \in Clients, Fault(c)
  PROVE  SnapshotInv(w)'
<1> USE DEF local
<1>1. CASE SendFails(c) \/ PinFails(c) \/ QueryFails(c) \/ WriteCacheFails(c)
  BY <1>1, AbortSnapshot DEF SendFails, PinFails, QueryFails, WriteCacheFails
<1>2. CASE FetchFails(c) \/ PrefetchQueryFails(c) \/ PrefetchFillFails(c)
  <2>1. dirty_objects' = dirty_objects /\ (Abort(c) \/ Goto(c, "reply", loc[c]))
    BY <1>2 DEF FetchFails, PrefetchQueryFails, PrefetchFillFails
  <2>2. "reply" \notin FlushLabels \cup {"flush_lock", "flush_object"}
    BY DEF FlushLabels, FlushingLabels, CommitLabels
  <2> QED BY <2>1, <2>2, AbortSnapshot, PlainSnapshot
<1>3. CASE MarkDirtyFails(c)
  <2>1. loc[c].op = "write" /\ Abort(c)
    BY <1>3, OneConnection DEF ConnectionOK, MarkDirtyFails
  <2> QED BY <2>1, AbortSnapshot
<1>4. CASE FlushClearFails(c)
  <2>1. pc[c] \in FlushLabels /\ Abort(c)
    BY <1>4 DEF FlushClearFails, FlushLabels, FlushingLabels
  <2> QED BY <2>1, AbortSnapshot
<1> QED BY <1>1, <1>2, <1>3, <1>4 DEF Fault

\* A new process has no request under way.
LEMMA RestartSnapshot ==
  ASSUME NEW w, NEW m, Restarted(m)
  PROVE  SnapshotInv(w)'
BY IdleDurable DEF Restarted, SnapshotInv, SnapshotOf

\* With one connection that writes and flushes, whatever fails, a flush uploads the
\* rows as they are.
THEOREM SnapshotInvariance ==
  ASSUME NEW w, OneWriter(w)
  PROVE  Spec => []SnapshotInv(w)
<1>1. Init => SnapshotInv(w)
  BY IdleDurable DEF Init, SnapshotInv, SnapshotOf
<1>2. DeviceInv /\ SnapshotInv(w) /\ [Next]_vars => SnapshotInv(w)'
  <2> SUFFICES ASSUME DeviceInv, SnapshotInv(w), [Next]_vars
               PROVE  SnapshotInv(w)'
    OBVIOUS
  <2>1. CASE UNCHANGED vars
    BY <2>1 DEF vars, local, SnapshotInv
  <2>2. ASSUME NEW c \in Clients, Begin(c) \/ Step(c) \/ Fault(c)
        PROVE  SnapshotInv(w)'
    BY <2>2, BeginSnapshot, ReadSnapshot, WriteSnapshot, FlushSnapshot, FaultSnapshot DEF Step
  <2>3. CASE Crash \/ RestartElsewhere \/ RestartOnPrevious
    BY <2>3, RestartSnapshot DEF Crash, RestartElsewhere, RestartOnPrevious, RestartsElsewhere
  <2>4. CASE Wait
    BY <2>1, <2>4 DEF Wait
  <2> QED BY <2>1, <2>2, <2>3, <2>4 DEF Next
<1> QED BY <1>1, <1>2, Invariance, PTL DEF Spec

-----------------------------------------------------------------------------
(* Claims and files *)

\* An idle connection makes no claim and is writing nothing.
LEMMA IdleHolds ==
  /\ HeldClaims("idle", NoLocals) = {}
  /\ \A m, fs : WorkOK(m, fs, "idle", NoLocals)
<1>1. NoLocals.entries = {} /\ "idle" \notin LookupLabels
  BY DEF NoLocals, LookupLabels
<1> QED BY <1>1 DEF HeldClaims, WorkOK, EncodedLabels

\* The claims that a handler makes after a step it made before.
LEMMA HeldKept ==
  ASSUME NEW c \in Clients, NEW next, NEW l, l.entries \subseteq loc[c].entries,
         next \in LookupLabels => Claim(ObjectOf(l.cursor), l.entry) \in CleanClaims
  PROVE  HeldClaims(next, l) \subseteq CleanClaims
<1>1. HeldClaims(pc[c], loc[c]) \subseteq CleanClaims
  BY DEF CleanClaims
<1>2. {Claim(e.object_id, e.entry) : e \in l.entries} \subseteq HeldClaims(pc[c], loc[c])
  BY DEF HeldClaims
<1> QED BY <1>1, <1>2 DEF HeldClaims

\* A handler in read_object claims what its entry says.
LEMMA LookupClaim ==
  ASSUME NEW c \in Clients, pc[c] \in LookupLabels
  PROVE  Claim(Target(c), loc[c].entry) \in CleanClaims
BY DEF CleanClaims, HeldClaims, Target

\* The read-ahead claims what its entries say.
LEMMA EntryClaim ==
  ASSUME NEW c \in Clients, NEW e \in loc[c].entries
  PROVE  Claim(e.object_id, e.entry) \in CleanClaims
BY DEF CleanClaims, HeldClaims

\* The manifest claims what its entries say.
LEMMA ManifestClaim ==
  ASSUME NEW o \in ManifestObjects, ~manifest.objects[o].zero
  PROVE  Claim(o, manifest.objects[o]) \in CleanClaims
BY DEF CleanClaims, EntryClaims

\* A step makes no new claim on a clean object when its handler and the manifest do not.
LEMMA CleanKept ==
  ASSUME DeviceInv, NEW c \in Clients, NEW next, NEW l, Goto(c, next, l),
         HeldClaims(next, l) \subseteq CleanClaims, NEW S, CleanClaims \subseteq S,
         EntryClaims(manifest') \subseteq S, Saves
  PROVE  CleanClaims' \subseteq S
<1>1. HeldClaims(pc'[c], loc'[c]) \subseteq S
  BY GotoSets, IdleHolds
<1>2. ASSUME NEW d \in Clients, d # c
      PROVE  HeldClaims(pc'[d], loc'[d]) \subseteq S
  <2>1. HeldClaims(pc'[d], loc'[d]) = HeldClaims(pc[d], loc[d])
    BY <1>2, GotoSets
  <2> QED BY <2>1 DEF CleanClaims
<1>3. EntryClaims(manifest_state') \subseteq S
  BY DEF Saves, CleanClaims
<1>4. CleanClaims' = EntryClaims(manifest') \cup EntryClaims(manifest_state')
                       \cup UNION {HeldClaims(pc'[d], loc'[d]) : d \in Clients}
  BY DEF CleanClaims
<1> QED BY <1>1, <1>2, <1>3, <1>4

\* The rows and the clean objects make the claims.
LEMMA ClaimsKept ==
  ASSUME CleanClaims' \subseteq Claims, RowClaims(dirty_objects') \subseteq Claims
  PROVE  Claims' \subseteq Claims
<1>1. Claims' = CleanClaims' \cup RowClaims(dirty_objects')
  BY DEF Claims
<1> QED BY <1>1

\* Fewer claims agree as well.
LEMMA AgreeKept ==
  ASSUME ClaimsAgree, Claims' \subseteq Claims
  PROVE  ClaimsAgree'
<1>1. \A x, y \in Claims' : x[1] = y[1] /\ x[2] = y[2] => x[3] = y[3]
  BY DEF ClaimsAgree
<1> QED BY <1>1 DEF ClaimsAgree

\* Whoever was writing a file still is, unless it was the handler that took the step.
LEMMA BusyKept ==
  ASSUME DeviceInv, NEW c \in Clients, NEW next, NEW l, Goto(c, next, l), NEW k, Busy(k),
         pc[c] \notin WorkLabels \/ FileOf(pc[c], loc[c]) # k
  PROVE  Busy(k)'
<1>1. PICK d \in Clients : pc[d] \in WorkLabels /\ FileOf(pc[d], loc[d]) = k
  BY DEF Busy
<1>2. d # c /\ pc'[d] = pc[d] /\ loc'[d] = loc[d]
  BY <1>1, GotoSets
<1>3. pc'[d] \in WorkLabels /\ FileOf(pc'[d], loc'[d]) = k
  BY <1>1, <1>2
<1> QED BY <1>3 DEF Busy

\* The handler that took the step is writing file k.
LEMMA BusyNow ==
  ASSUME DeviceInv, NEW c \in Clients, NEW next \in WorkLabels, NEW l, Goto(c, next, l)
  PROVE  Busy(FileOf(next, l))'
<1>1. pc'[c] = next /\ loc'[c] = l
  BY GotoSets DEF WorkLabels
<1>2. pc'[c] \in WorkLabels /\ FileOf(pc'[c], loc'[c]) = FileOf(next, l)
  BY <1>1
<1> QED BY <1>2 DEF Busy

\* Nobody writes a file while the store is free, and only its holder while it is not.
LEMMA StoreBusy ==
  ASSUME StoreHeld, NEW k, Busy(k)
  PROVE  \E d \in Clients : store_lock = d /\ pc[d] \in WorkLabels /\ FileOf(pc[d], loc[d]) = k
BY DEF StoreHeld, Busy

\* A step that changes no file and makes no new claim.
LEMMA FilesKept ==
  ASSUME DeviceInv, FilesAgree, NEW c \in Clients, NEW next, NEW l, Goto(c, next, l),
         Claims' \subseteq Claims, files' = files, pc[c] \notin WorkLabels
  PROVE  FilesAgree'
<1>1. ASSUME NEW x \in Claims', <<x[1], x[2]>> \in DOMAIN files'
      PROVE  files'[<<x[1], x[2]>>] = x[3] \/ Busy(<<x[1], x[2]>>)'
  BY <1>1, BusyKept DEF FilesAgree
<1> QED BY <1>1 DEF FilesAgree

\* A step after which every part of the invariant holds of the shared state and of the
\* handler that took it.
LEMMA StepReadable ==
  ASSUME DeviceInv, NEW w, ReadableInv(w), SnapshotInv(w)', Saves, NEW c \in Clients, NEW next, NEW l,
         Goto(c, next, l),
         \A d \in Clients : d # c /\ store_lock = d => store_lock' = d,
         next \in WorkLabels \cup {"flush_clear"} => store_lock' = c,
         ClaimsAgree', FilesAgree', CleanBelow',
         \/ manifest' = manifest
         \/ manifest'.generation \in Nat /\ manifest.generation <= manifest'.generation,
         RowsOK(dirty_objects', files'), RowsAbove(dirty_objects', manifest'),
         ManifestsBelow(channel'),
         \A d \in Clients : d # c => WorkOK(manifest', files', pc[d], loc[d]),
         WorkOK(manifest', files', next, l)
  PROVE  ReadableInv(w)'
<1>1. ASSUME NEW d \in Clients
      PROVE  /\ pc'[d] \in WorkLabels \cup {"flush_clear"} => store_lock' = d
             /\ WorkOK(manifest', files', pc'[d], loc'[d])
  <2>1. CASE d = c
    BY <2>1, GotoSets, IdleHolds
  <2>2. CASE d # c
    BY <2>2, GotoSets DEF ReadableInv, StoreHeld
  <2> QED BY <2>1, <2>2
<1>2. StoreHeld'
  BY <1>1 DEF StoreHeld
<1>3. manifest.generation \in Nat /\ manifest_state.generation \in Nat
  BY DEF DeviceInv, VariablesOK, Manifest
<1>4. SavedBelow'
  <2>1. CASE manifest_state' = manifest_state
    BY <1>3, <2>1 DEF ReadableInv, SavedBelow, EntriesBelow
  <2>2. CASE manifest_state' = manifest /\ manifest' = manifest
    BY <1>3, <2>2 DEF ReadableInv, CleanBelow, CleanClaims, SavedBelow, EntriesBelow
  <2> QED BY <2>1, <2>2 DEF Saves
<1> QED BY <1>1, <1>2, <1>4 DEF ReadableInv

\* A step that changes no file, no row and not the manifest.
LEMMA QuietReadable ==
  ASSUME DeviceInv, NEW w, ReadableInv(w), SnapshotInv(w)', Saves, NEW c \in Clients, NEW next, NEW l,
         Goto(c, next, l), UNCHANGED <<dirty_objects, files, manifest>>,
         \A d \in Clients : d # c /\ store_lock = d => store_lock' = d,
         pc[c] \notin WorkLabels, next \notin WorkLabels,
         next = "flush_clear" => store_lock' = c,
         HeldClaims(next, l) \subseteq CleanClaims,
         WorkOK(manifest, files, next, l), ManifestsBelow(channel')
  PROVE  ReadableInv(w)'
<1>1. EntryClaims(manifest') \subseteq CleanClaims
  BY DEF CleanClaims
<1>2. CleanClaims' \subseteq CleanClaims
  BY <1>1, CleanKept
<1>3. Claims' \subseteq Claims
  BY <1>2, ClaimsKept DEF Claims
<1>4. ClaimsAgree'
  BY <1>3, AgreeKept DEF ReadableInv
<1>5. FilesAgree'
  BY <1>3, FilesKept DEF ReadableInv
<1>6. CleanBelow'
  BY <1>2 DEF ReadableInv, CleanBelow
<1> QED BY <1>4, <1>5, <1>6, StepReadable DEF ReadableInv

\* The steps at which a handler has nothing in hand.
PlainLabels ==
  {"idle", "reply", "read_object", "read_entry", "limit", "generation", "prefetch",
   "prefetch_lock", "prefetch_scan", "prefetch_fetch", "prefetch_fill", "flush_list",
   "flush_lock", "flush_manifest", "flush_replace"} \cup CommitLabels

LEMMA PlainWork ==
  /\ \A next \in PlainLabels :
       /\ next \notin WorkLabels \cup LookupLabels \cup {"flush_clear"}
       /\ \A m, fs, l : WorkOK(m, fs, next, l)
  /\ LoopLabels \subseteq PlainLabels
BY DEF PlainLabels, CommitLabels, WorkLabels, LookupLabels, EncodedLabels, WorkOK, LoopLabels

\* A step to one of them.
LEMMA PlainReadable ==
  ASSUME DeviceInv, NEW w, ReadableInv(w), SnapshotInv(w)', Saves, NEW c \in Clients,
         NEW next \in PlainLabels, NEW l,
         Goto(c, next, l), UNCHANGED <<dirty_objects, files, manifest>>,
         \A d \in Clients : d # c /\ store_lock = d => store_lock' = d,
         pc[c] \notin WorkLabels, l.entries \subseteq loc[c].entries, ManifestsBelow(channel')
  PROVE  ReadableInv(w)'
<1>1. HeldClaims(next, l) \subseteq CleanClaims
  BY PlainWork, HeldKept
<1> QED BY <1>1, PlainWork, QuietReadable

\* The handler returns an error, holding no half-written file.
LEMMA AbortReadable ==
  ASSUME DeviceInv, NEW w, ReadableInv(w), SnapshotInv(w)', Saves, NEW c \in Clients, Abort(c),
         UNCHANGED <<dirty_objects, files, manifest>>, pc[c] \notin WorkLabels,
         ManifestsBelow(channel')
  PROVE  ReadableInv(w)'
<1>1. Goto(c, "idle", NoLocals) /\ "idle" \in PlainLabels
  BY DEF Abort, PlainLabels
<1>2. NoLocals.entries \subseteq loc[c].entries
  BY DEF NoLocals
<1>3. \A d \in Clients : d # c /\ store_lock = d => store_lock' = d
  BY DEF Abort
<1> QED BY <1>1, <1>2, <1>3, PlainReadable

\* read_object returns, and its handler was writing no file.
LEMMA ReturnReadable ==
  ASSUME DeviceInv, NEW w, ReadableInv(w), SnapshotInv(w)', Saves, NEW c \in Clients, NEW payload,
         Return(c, payload), UNCHANGED <<local, manifest, locks, remote>>,
         pc[c] \notin WorkLabels
  PROVE  ReadableInv(w)'
<1> USE DEF local, locks, remote
<1>1. PICK next \in LoopLabels :
        \E l : Goto(c, next, l) /\ l.op = loc[c].op /\ l.entries = loc[c].entries
  BY ReturnGoes
<1>2. PICK l : Goto(c, next, l) /\ l.op = loc[c].op /\ l.entries = loc[c].entries
  BY <1>1
<1>3. next \in PlainLabels /\ ManifestsBelow(channel')
  BY PlainWork DEF ReadableInv
<1> QED BY <1>2, <1>3, PlainReadable

\* What is sent to the channel keeps the manifests there in order.
LEMMA SentBelow ==
  ASSUME DeviceInv, NEW w, ReadableInv(w), NEW msg \in Message,
         msg.kind = "manifest" => msg.body = manifest
  PROVE  ManifestsBelow(Append(channel, msg)) /\ ManifestsBelow(channel)
<1>1. channel \in Seq(Message)
  BY DEF DeviceInv, RemoteOK
<1>2. EntriesBelow(manifest)
  BY DEF ReadableInv, CleanBelow, CleanClaims, EntriesBelow
<1>3. ManifestsBelow(channel)
  BY DEF ReadableInv
<1> DEFINE ch == Append(channel, msg)
<1>4. /\ DOMAIN ch = DOMAIN channel \cup {Len(channel) + 1}
      /\ \A i \in DOMAIN channel : ch[i] = channel[i]
      /\ ch[Len(channel) + 1] = msg
  BY <1>1, AppendGrows DEF Grows
<1> HIDE DEF ch
<1>5. ManifestsBelow(ch)
  BY <1>2, <1>3, <1>4 DEF ManifestsBelow
<1> QED BY <1>3, <1>5 DEF ch

-----------------------------------------------------------------------------
(* The steps of the handlers *)

\* A request arrives.
LEMMA BeginReadable ==
  ASSUME DeviceInv, NEW w, ReadableInv(w), SnapshotInv(w)', Saves, NEW c \in Clients, Begin(c)
  PROVE  ReadableInv(w)'
<1> USE DEF local, locks, remote
<1>1. /\ UNCHANGED <<dirty_objects, files, manifest, store_lock, channel>> /\ pc[c] = "idle"
      /\ \E next \in PlainLabels : \E l : Goto(c, next, l) /\ l.entries = {}
  <2>1. \A l : LoopHead(l) \in PlainLabels
    BY PlainWork DEF LoopHead, LoopLabels
  <2>2. CASE BeginRead(c)
    <3>1. PICK l : l.entries = {} /\ Goto(c, LoopHead(l), l)
      BY <2>2 DEF BeginRead, NoLocals
    <3> QED BY <2>1, <2>2, <3>1 DEF BeginRead
  <2>3. CASE BeginWrite(c)
    <3>1. PICK l : l.entries = {} /\ Goto(c, LoopHead(l), l)
      BY <2>3 DEF BeginWrite, NoLocals
    <3> QED BY <2>1, <2>3, <3>1 DEF BeginWrite
  <2>4. CASE BeginFlush(c)
    <3>1. PICK l : l.entries = {} /\ Goto(c, "flush_list", l)
      BY <2>4 DEF BeginFlush, NoLocals
    <3> QED BY <2>4, <3>1 DEF BeginFlush, PlainLabels
  <2> QED BY <2>2, <2>3, <2>4 DEF Begin
<1>2. ManifestsBelow(channel') /\ pc[c] \notin WorkLabels
  BY <1>1 DEF ReadableInv, WorkLabels
<1>3. PICK next \in PlainLabels : \E l : Goto(c, next, l) /\ l.entries = {}
  BY <1>1
<1>4. PICK l : Goto(c, next, l) /\ l.entries = {}
  BY <1>3
<1>5. l.entries \subseteq loc[c].entries
  BY <1>4
<1> QED BY <1>1, <1>2, <1>4, <1>5, PlainReadable

\* The steps of read_object up to the file of a clean object.
LEMMA ReadReadable ==
  ASSUME DeviceInv, NEW w, ReadableInv(w), SnapshotInv(w)', Saves, NEW c \in Clients, ReadStep(c),
         ~FillOpen(c), ~FillBytes(c)
  PROVE  ReadableInv(w)'
<1> USE DEF local, locks, remote
<1>0. loc[c] \in Locals /\ ManifestsBelow(channel)
  BY OneConnection DEF ReadableInv
<1>1. CASE ReadDirty(c)
  BY <1>1, ReturnReadable DEF ReadDirty, WorkLabels
<1>2. CASE ReadDirtyRejected(c)
  BY <1>0, <1>2, AbortReadable DEF ReadDirtyRejected, WorkLabels
<1>3. CASE ReadNotDirty(c)
  <2>1. /\ Goto(c, "read_entry", loc[c]) /\ "read_entry" \in PlainLabels
        /\ pc[c] = "read_object" /\ pc[c] \notin WorkLabels
    BY <1>3 DEF ReadNotDirty, PlainLabels, WorkLabels
  <2> QED BY <1>0, <1>3, <2>1, PlainReadable DEF ReadNotDirty
<1>4. CASE ReadEntry(c)
  <2> DEFINE l == [loc[c] EXCEPT !.entry = manifest.objects[Target(c)]]
  <2>1. pc[c] \notin WorkLabels
    BY <1>4 DEF ReadEntry, WorkLabels
  <2>2. CASE Return(c, ZeroObject)
    BY <1>4, <2>1, <2>2, ReturnReadable DEF ReadEntry
  <2>3. CASE ~manifest.objects[Target(c)].zero /\ Goto(c, "read_cache", l)
    <3>1. /\ l.entries = loc[c].entries /\ l.cursor = loc[c].cursor
          /\ l.entry = manifest.objects[Target(c)]
      BY <1>0 DEF Locals
    <3> HIDE DEF l
    <3>2. Claim(ObjectOf(l.cursor), l.entry) \in CleanClaims
      BY <1>4, <2>3, <3>1, ManifestClaim DEF ReadEntry, Target
    <3>3. HeldClaims("read_cache", l) \subseteq CleanClaims
      BY <3>1, <3>2, HeldKept
    <3>4. WorkOK(manifest, files, "read_cache", l) /\ "read_cache" \notin WorkLabels
      BY DEF WorkOK, EncodedLabels, WorkLabels
    <3> QED BY <1>0, <1>4, <2>1, <2>3, <3>3, <3>4, QuietReadable DEF ReadEntry
  <2> QED BY <1>4, <2>2, <2>3 DEF ReadEntry
<1>5. CASE ReadOutOfRange(c)
  BY <1>0, <1>5, AbortReadable DEF ReadOutOfRange, WorkLabels
<1>6. CASE ReadCache(c)
  <2>1. pc[c] = "read_cache" /\ pc[c] \notin WorkLabels /\ pc[c] \in LookupLabels
    BY <1>6 DEF ReadCache, WorkLabels, LookupLabels
  <2>2. CASE Goto(c, "fetch", loc[c])
    <3>1. HeldClaims("fetch", loc[c]) \subseteq CleanClaims
      BY <2>1, LookupClaim, HeldKept DEF Target
    <3>2. WorkOK(manifest, files, "fetch", loc[c]) /\ "fetch" \notin WorkLabels
      BY DEF WorkOK, EncodedLabels, WorkLabels
    <3> QED BY <1>0, <1>6, <2>1, <2>2, <3>1, <3>2, QuietReadable DEF ReadCache
  <2>3. ASSUME NEW payload, Return(c, payload) PROVE ReadableInv(w)'
    BY <1>6, <2>1, <2>3, ReturnReadable DEF ReadCache
  <2> QED BY <1>6, <2>2, <2>3 DEF ReadCache
<1>7. CASE ReadCacheRejected(c)
  BY <1>0, <1>7, AbortReadable DEF ReadCacheRejected, WorkLabels
<1>8. CASE FetchObject(c)
  <2> DEFINE l == [loc[c] EXCEPT !.encoded = channel[loc[c].entry.remote].body]
  <2>1. /\ pc[c] = "fetch" /\ pc[c] \notin WorkLabels /\ pc[c] \in LookupLabels
        /\ Goto(c, "fill", l)
    BY <1>8 DEF FetchObject, WorkLabels, LookupLabels
  <2>2. channel[loc[c].entry.remote].body = loc[c].entry.sha256
    BY <1>8 DEF FetchObject, Verifies
  <2>3. /\ l.entries = loc[c].entries /\ l.cursor = loc[c].cursor /\ l.entry = loc[c].entry
        /\ l.encoded = l.entry.sha256
    BY <1>0, <2>2 DEF Locals
  <2> HIDE DEF l
  <2>4. HeldClaims("fill", l) \subseteq CleanClaims
    BY <2>1, <2>3, LookupClaim, HeldKept DEF Target
  <2>5. WorkOK(manifest, files, "fill", l) /\ "fill" \notin WorkLabels
    BY <2>3 DEF WorkOK, EncodedLabels, WorkLabels
  <2> QED BY <1>0, <1>8, <2>1, <2>4, <2>5, QuietReadable DEF FetchObject
<1>9. CASE Reply(c)
  <2>1. Goto(c, "idle", NoLocals) /\ "idle" \in PlainLabels /\ pc[c] \notin WorkLabels
    BY <1>9 DEF Reply, PlainLabels, WorkLabels
  <2>2. NoLocals.entries \subseteq loc[c].entries
    BY DEF NoLocals
  <2> QED BY <1>0, <1>9, <2>1, <2>2, PlainReadable DEF Reply
<1> QED BY <1>1, <1>2, <1>3, <1>4, <1>5, <1>6, <1>7, <1>8, <1>9 DEF ReadStep

-----------------------------------------------------------------------------
(* Writing files *)

\* What a file holds after another was written, or itself.
LEMMA WithFileHolds ==
  ASSUME NEW o, NEW g, NEW b
  PROVE  /\ DOMAIN WithFile(o, g, b) = DOMAIN files \cup {<<o, g>>}
         /\ WithFile(o, g, b)[<<o, g>>] = b
         /\ \A k \in DOMAIN files : k # <<o, g>> => WithFile(o, g, b)[k] = files[k]
BY DEF WithFile

\* Only the holder of the store mutex is at one of the steps that need it.
LEMMA OnlyHolder ==
  ASSUME StoreHeld, NEW c \in Clients, store_lock \in {None, c}, NEW d \in Clients, d # c
  PROVE  pc[d] \notin WorkLabels \cup {"flush_clear"} /\ store_lock # d
BY DeviceAssumption DEF StoreHeld

\* A step after which its handler is in the middle of file <<o, g>>.
LEMMA WritingReadable ==
  ASSUME DeviceInv, NEW w, ReadableInv(w), SnapshotInv(w)', Saves, NEW c \in Clients,
         NEW next \in WorkLabels, Goto(c, next, loc[c]), NEW o, NEW g, NEW b,
         FileOf(next, loc[c]) = <<o, g>>, files' = WithFile(o, g, b),
         UNCHANGED <<dirty_objects, manifest, channel>>, store_lock \in {None, c}, store_lock' = c,
         pc[c] \in WorkLabels => FileOf(pc[c], loc[c]) = <<o, g>>,
         next \in LookupLabels => pc[c] \in LookupLabels,
         WorkOK(manifest, files', next, loc[c])
  PROVE  ReadableInv(w)'
<1>0. /\ DOMAIN files' = DOMAIN files \cup {<<o, g>>} /\ files'[<<o, g>>] = b
      /\ \A k \in DOMAIN files : k # <<o, g>> => files'[k] = files[k]
  BY WithFileHolds
<1>1. EntryClaims(manifest') \subseteq CleanClaims
  BY DEF CleanClaims
<1>2. HeldClaims(next, loc[c]) \subseteq CleanClaims
  BY HeldKept, LookupClaim DEF Target
<1>3. CleanClaims' \subseteq CleanClaims
  BY <1>1, <1>2, CleanKept
<1>4. Claims' \subseteq Claims
  BY <1>3, ClaimsKept DEF Claims
<1>5. ClaimsAgree'
  BY <1>4, AgreeKept DEF ReadableInv
<1>6. StoreHeld /\ FilesAgree
  BY DEF ReadableInv
<1>7. FilesAgree'
  <2>1. ASSUME NEW x \in Claims', <<x[1], x[2]>> \in DOMAIN files'
        PROVE  files'[<<x[1], x[2]>>] = x[3] \/ Busy(<<x[1], x[2]>>)'
    <3>1. CASE <<x[1], x[2]>> = <<o, g>>
      BY <3>1, BusyNow
    <3>2. CASE <<x[1], x[2]>> # <<o, g>>
      <4>1. /\ <<x[1], x[2]>> \in DOMAIN files
            /\ files'[<<x[1], x[2]>>] = files[<<x[1], x[2]>>]
        BY <1>0, <2>1, <3>2
      <4>2. ~Busy(<<x[1], x[2]>>)
        <5>1. ASSUME NEW d \in Clients, pc[d] \in WorkLabels PROVE d = c
          BY <1>6, <5>1, OnlyHolder
        <5> QED BY <3>2, <5>1 DEF Busy
      <4>3. x \in Claims
        BY <1>4
      <4> QED BY <1>6, <4>1, <4>2, <4>3 DEF FilesAgree
    <3> QED BY <3>1, <3>2
  <2> QED BY <2>1 DEF FilesAgree
<1>8. CleanBelow'
  BY <1>3 DEF ReadableInv, CleanBelow
<1>9. RowsOK(dirty_objects', files')
  BY <1>0 DEF ReadableInv, RowsOK
<1>10. ASSUME NEW d \in Clients, d # c
       PROVE  WorkOK(manifest', files', pc[d], loc[d]) /\ store_lock # d
  <2>1. pc[d] # "mark_dirty" /\ store_lock # d
    BY <1>6, <1>10, OnlyHolder DEF WorkLabels
  <2>2. WorkOK(manifest, files, pc[d], loc[d])
    BY DEF ReadableInv
  <2> QED BY <2>1, <2>2 DEF WorkOK
<1>11. ManifestsBelow(channel') /\ RowsAbove(dirty_objects', manifest')
  BY DEF ReadableInv
<1> QED BY <1>5, <1>7, <1>8, <1>9, <1>10, <1>11, StepReadable

\* A step that completes the file of a clean object.
LEMMA FilledReadable ==
  ASSUME DeviceInv, NEW w, ReadableInv(w), SnapshotInv(w)', Saves, NEW c \in Clients,
         pc[c] \in WorkLabels, NEW next \in PlainLabels, NEW l, Goto(c, next, l),
         NEW o, NEW g, NEW b, FileOf(pc[c], loc[c]) = <<o, g>>, files' = WithFile(o, g, b),
         <<o, g, b>> \in CleanClaims, l.entries \subseteq loc[c].entries,
         UNCHANGED <<dirty_objects, manifest, channel>>
  PROVE  ReadableInv(w)'
<1>0. /\ DOMAIN files' = DOMAIN files \cup {<<o, g>>} /\ files'[<<o, g>>] = b
      /\ \A k \in DOMAIN files : k # <<o, g>> => files'[k] = files[k]
  BY WithFileHolds
<1>1. EntryClaims(manifest') \subseteq CleanClaims
  BY DEF CleanClaims
<1>2. HeldClaims(next, l) \subseteq CleanClaims
  BY PlainWork, HeldKept
<1>3. CleanClaims' \subseteq CleanClaims
  BY <1>1, <1>2, CleanKept
<1>4. Claims' \subseteq Claims
  BY <1>3, ClaimsKept DEF Claims
<1>5. ClaimsAgree'
  BY <1>4, AgreeKept DEF ReadableInv
<1>6. StoreHeld /\ FilesAgree /\ ClaimsAgree /\ store_lock = c
  BY DEF ReadableInv, StoreHeld
<1>7. FilesAgree'
  <2>1. ASSUME NEW x \in Claims', <<x[1], x[2]>> \in DOMAIN files'
        PROVE  files'[<<x[1], x[2]>>] = x[3] \/ Busy(<<x[1], x[2]>>)'
    <3>0. x \in Claims /\ <<o, g, b>> \in Claims
      BY <1>4 DEF Claims
    <3>1. CASE x[1] = o /\ x[2] = g
      <4>1. x[3] = b
        BY <1>6, <3>0, <3>1 DEF ClaimsAgree
      <4> QED BY <1>0, <3>1, <4>1
    <3>2. CASE ~(x[1] = o /\ x[2] = g)
      <4>1. /\ <<x[1], x[2]>> \in DOMAIN files
            /\ files'[<<x[1], x[2]>>] = files[<<x[1], x[2]>>]
        BY <1>0, <2>1, <3>2
      <4>2. ~Busy(<<x[1], x[2]>>)
        <5>1. ASSUME NEW d \in Clients, pc[d] \in WorkLabels PROVE d = c
          BY <1>6, <5>1, OnlyHolder
        <5> QED BY <3>2, <5>1 DEF Busy
      <4> QED BY <1>6, <3>0, <4>1, <4>2 DEF FilesAgree
    <3> QED BY <3>1, <3>2
  <2> QED BY <2>1 DEF FilesAgree
<1>8. CleanBelow'
  BY <1>3 DEF ReadableInv, CleanBelow
<1>9. RowsOK(dirty_objects', files')
  BY <1>0 DEF ReadableInv, RowsOK
<1>10. ASSUME NEW d \in Clients, d # c
       PROVE  WorkOK(manifest', files', pc[d], loc[d]) /\ store_lock # d
  <2>1. pc[d] # "mark_dirty" /\ store_lock # d
    BY <1>6, <1>10, OnlyHolder DEF WorkLabels
  <2>2. WorkOK(manifest, files, pc[d], loc[d])
    BY DEF ReadableInv
  <2> QED BY <2>1, <2>2 DEF WorkOK
<1>11. ManifestsBelow(channel') /\ RowsAbove(dirty_objects', manifest')
  BY DEF ReadableInv
<1>12. WorkOK(manifest', files', next, l) /\ next \notin WorkLabels \cup {"flush_clear"}
  BY PlainWork
<1> QED BY <1>5, <1>7, <1>8, <1>9, <1>10, <1>11, <1>12, StepReadable

\* write_cache of a clean object, after a fetch.
LEMMA FillReadable ==
  ASSUME DeviceInv, NEW w, ReadableInv(w), SnapshotInv(w)', Saves, NEW c \in Clients,
         FillOpen(c) \/ FillBytes(c)
  PROVE  ReadableInv(w)'
<1> USE DEF remote
<1>0. WorkOK(manifest, files, pc[c], loc[c])
  BY DEF ReadableInv
<1>1. CASE FillOpen(c)
  <2>1. /\ pc[c] = "fill" /\ Goto(c, "filling", loc[c])
        /\ files' = WithFile(Target(c), loc[c].entry.generation, Torn)
    BY <1>1 DEF FillOpen
  <2>2. /\ FileOf("filling", loc[c]) = <<Target(c), loc[c].entry.generation>>
        /\ "filling" \in WorkLabels /\ pc[c] \notin WorkLabels /\ pc[c] \in LookupLabels
    BY <2>1 DEF FileOf, Target, WorkLabels, LookupLabels
  <2>3. WorkOK(manifest, files', "filling", loc[c])
    BY <1>0, <2>1 DEF WorkOK, EncodedLabels
  <2> QED BY <1>1, <2>1, <2>2, <2>3, WritingReadable DEF FillOpen
<1>2. CASE FillBytes(c)
  <2>1. /\ pc[c] = "filling" /\ Return(c, loc[c].encoded.payload)
        /\ files' = WithFile(Target(c), loc[c].entry.generation, loc[c].encoded)
    BY <1>2 DEF FillBytes
  <2>2. /\ FileOf(pc[c], loc[c]) = <<Target(c), loc[c].entry.generation>>
        /\ pc[c] \in WorkLabels /\ pc[c] \in LookupLabels /\ loc[c].encoded = loc[c].entry.sha256
    BY <1>0, <2>1 DEF FileOf, Target, WorkLabels, LookupLabels, WorkOK
  <2>3. <<Target(c), loc[c].entry.generation, loc[c].encoded>> \in CleanClaims
    BY <2>2, LookupClaim DEF Claim
  <2>4. PICK next \in LoopLabels :
          \E l : Goto(c, next, l) /\ l.op = loc[c].op /\ l.entries = loc[c].entries
    BY <2>1, ReturnGoes
  <2>5. PICK l : Goto(c, next, l) /\ l.op = loc[c].op /\ l.entries = loc[c].entries
    BY <2>4
  <2>6. next \in PlainLabels /\ l.entries \subseteq loc[c].entries
    BY <2>5, PlainWork
  <2> QED BY <1>2, <2>1, <2>2, <2>3, <2>5, <2>6, FilledReadable DEF FillBytes
<1> QED BY <1>1, <1>2

\* The steps of prefetch_objects.
LEMMA PrefetchReadable ==
  ASSUME DeviceInv, NEW w, ReadableInv(w), SnapshotInv(w)', Saves, NEW c \in Clients, PrefetchStep(c)
  PROVE  ReadableInv(w)'
<1> USE DEF local, locks, remote
<1>0. loc[c] \in Locals /\ ManifestsBelow(channel)
  BY OneConnection DEF ReadableInv
<1>1. ASSUME NEW next \in PlainLabels, NEW l, Goto(c, next, l), l.entries \subseteq loc[c].entries,
             UNCHANGED <<dirty_objects, files, manifest, store_lock, channel>>,
             pc[c] \in {"prefetch", "prefetch_lock", "prefetch_scan", "prefetch_fetch"}
      PROVE  ReadableInv(w)'
  BY <1>0, <1>1, PlainReadable DEF WorkLabels
<1>2. CASE PrefetchDirtyIds(c)
  <2> DEFINE l == [loc[c] EXCEPT !.snapshot = dirty_objects]
  <2>1. Goto(c, "prefetch_lock", l) /\ "prefetch_lock" \in PlainLabels
    BY <1>2 DEF PrefetchDirtyIds, PlainLabels
  <2>2. l.entries = loc[c].entries
    BY <1>0 DEF Locals
  <2> HIDE DEF l
  <2> QED BY <1>1, <1>2, <2>1, <2>2 DEF PrefetchDirtyIds
<1>3. CASE PrefetchLock(c)
  <2> DEFINE l == [loc[c] EXCEPT !.scan = Target(c)]
  <2>1. Goto(c, "prefetch_scan", l) /\ "prefetch_scan" \in PlainLabels
    BY <1>3 DEF PrefetchLock, PlainLabels
  <2>2. l.entries = loc[c].entries
    BY <1>0 DEF Locals
  <2> HIDE DEF l
  <2> QED BY <1>1, <1>3, <2>1, <2>2 DEF PrefetchLock
<1>4. CASE PrefetchSkip(c)
  <2> DEFINE l == [loc[c] EXCEPT !.scan = loc[c].scan + 1]
  <2>1. Goto(c, "prefetch_scan", l) /\ "prefetch_scan" \in PlainLabels
    BY <1>4 DEF PrefetchSkip, PlainLabels
  <2>2. l.entries = loc[c].entries
    BY <1>0 DEF Locals
  <2> HIDE DEF l
  <2> QED BY <1>1, <1>4, <2>1, <2>2 DEF PrefetchSkip
<1>5. CASE PrefetchWant(c)
  <2> DEFINE o == loc[c].scan
             e == [object_id |-> o, entry |-> manifest.objects[o]]
             l == [loc[c] EXCEPT !.scan = o + 1, !.entries = @ \cup {e}]
  <2>1. /\ Goto(c, "prefetch_scan", l) /\ o \in ManifestObjects /\ ~manifest.objects[o].zero
        /\ pc[c] \notin WorkLabels
    BY <1>5 DEF PrefetchWant, WorkLabels
  <2>2. l.entries = loc[c].entries \cup {e}
    BY <1>0 DEF Locals
  <2>3. Claim(e.object_id, e.entry) \in CleanClaims
    BY <2>1, ManifestClaim
  <2> HIDE DEF l, e
  <2>4. HeldClaims("prefetch_scan", l) \subseteq CleanClaims
    BY <2>2, <2>3, EntryClaim DEF HeldClaims, LookupLabels
  <2>5. /\ WorkOK(manifest, files, "prefetch_scan", l)
        /\ "prefetch_scan" \notin WorkLabels /\ "prefetch_scan" # "flush_clear"
    BY PlainWork DEF PlainLabels
  <2> QED BY <1>0, <1>5, <2>1, <2>4, <2>5, QuietReadable DEF PrefetchWant
<1>6. CASE PrefetchRejected(c)
  <2>1. Goto(c, "reply", loc[c]) /\ "reply" \in PlainLabels
    BY <1>6 DEF PrefetchRejected, PlainLabels
  <2> QED BY <1>1, <1>6, <2>1 DEF PrefetchRejected
<1>7. CASE PrefetchScanned(c)
  <2> DEFINE next == IF loc[c].entries = {} THEN "reply" ELSE "prefetch_fetch"
  <2>1. Goto(c, next, loc[c]) /\ next \in PlainLabels
    BY <1>7 DEF PrefetchScanned, PlainLabels
  <2> HIDE DEF next
  <2> QED BY <1>1, <1>7, <2>1 DEF PrefetchScanned
<1>8. CASE PrefetchFetch(c)
  <2> DEFINE next == IF Fetched(c) = {} THEN "reply" ELSE "prefetch_fill"
             l == [loc[c] EXCEPT !.entries = Fetched(c)]
  <2>1. Goto(c, next, l) /\ next \in PlainLabels
    BY <1>8 DEF PrefetchFetch, PlainLabels
  <2>2. l.entries = Fetched(c)
    BY <1>0 DEF Locals
  <2>3. Fetched(c) \subseteq loc[c].entries
    BY DEF Fetched
  <2> HIDE DEF l, next
  <2> QED BY <1>1, <1>8, <2>1, <2>2, <2>3 DEF PrefetchFetch
<1>9. NextFill(c) = FirstOf(loc[c].entries)
  BY DEF NextFill, FirstOf
<1>10. CASE PrefetchFillOpen(c)
  <2> DEFINE e == NextFill(c)
  <2>1. /\ pc[c] = "prefetch_fill" /\ Goto(c, "prefetch_filling", loc[c])
        /\ files' = WithFile(e.object_id, e.entry.generation, Torn)
    BY <1>10 DEF PrefetchFillOpen
  <2>2. /\ FileOf("prefetch_filling", loc[c]) = <<e.object_id, e.entry.generation>>
        /\ "prefetch_filling" \in WorkLabels /\ pc[c] \notin WorkLabels
        /\ "prefetch_filling" \notin LookupLabels
    BY <1>9, <2>1 DEF FileOf, WorkLabels, LookupLabels
  <2>3. WorkOK(manifest, files', "prefetch_filling", loc[c])
    BY DEF WorkOK, EncodedLabels
  <2> HIDE DEF e
  <2> QED BY <1>10, <2>1, <2>2, <2>3, WritingReadable DEF PrefetchFillOpen
<1>11. CASE PrefetchFillBytes(c)
  <2> DEFINE e == NextFill(c)
             rest == loc[c].entries \ {e}
             next == IF rest = {} THEN "reply" ELSE "prefetch_fill"
             l == [loc[c] EXCEPT !.entries = rest]
  <2>1. /\ pc[c] = "prefetch_filling" /\ Goto(c, next, l)
        /\ files' = WithFile(e.object_id, e.entry.generation, e.entry.sha256)
        /\ UNCHANGED <<dirty_objects, manifest, channel>>
    BY <1>11 DEF PrefetchFillBytes
  <2>2. /\ FileOf(pc[c], loc[c]) = <<e.object_id, e.entry.generation>> /\ pc[c] \in WorkLabels
    BY <1>9, <2>1 DEF FileOf, WorkLabels
  <2>3. e \in loc[c].entries
    BY <2>1, NextFillOK
  <2>4. <<e.object_id, e.entry.generation, e.entry.sha256>> \in CleanClaims
    BY <2>3, EntryClaim DEF Claim
  <2>5. next \in PlainLabels /\ l.entries \subseteq loc[c].entries
    BY <1>0 DEF PlainLabels, Locals
  <2> HIDE DEF e, rest, next, l
  <2> QED BY <2>1, <2>2, <2>4, <2>5, FilledReadable
<1> QED BY <1>2, <1>3, <1>4, <1>5, <1>6, <1>7, <1>8, <1>10, <1>11 DEF PrefetchStep

-----------------------------------------------------------------------------
(* write_dirty_object *)

\* Generations are numbers.
LEMMA ClaimsTyped ==
  ASSUME DeviceInv
  PROVE  \A x \in CleanClaims : x[2] \in Nat
<1>1. ASSUME NEW m \in Manifest
      PROVE  \A x \in EntryClaims(m) : x[2] \in Nat
  <2>1. \A o \in ManifestObjects : m.objects[o].generation \in Nat
    BY DEF Manifest, Entry, ZeroEntry, StoredEntry
  <2> QED BY <2>1 DEF EntryClaims, Claim
<1>2. \A x \in EntryClaims(manifest) \cup EntryClaims(manifest_state) : x[2] \in Nat
  BY <1>1 DEF DeviceInv, VariablesOK
<1>3. ASSUME NEW c \in Clients
      PROVE  \A x \in HeldClaims(pc[c], loc[c]) : x[2] \in Nat
  <2>1. /\ loc[c].entry.generation \in Nat
        /\ \A e \in loc[c].entries : e.entry.generation \in Nat
    BY OneConnection DEF Locals, Entry, ZeroEntry, StoredEntry
  <2> QED BY <2>1 DEF HeldClaims, Claim
<1> QED BY <1>2, <1>3 DEF CleanClaims

\* The steps of write_dirty_object up to its row.
LEMMA WriteReadable ==
  ASSUME DeviceInv, NEW w, ReadableInv(w), SnapshotInv(w)', Saves, NEW c \in Clients, WriteStep(c),
         ~MarkDirty(c)
  PROVE  ReadableInv(w)'
<1> USE DEF local, locks, remote
<1>0. loc[c] \in Locals /\ ManifestsBelow(channel) /\ WorkOK(manifest, files, pc[c], loc[c])
  BY OneConnection DEF ReadableInv
<1>1. CASE CheckLimit(c)
  <2>1. Goto(c, "generation", loc[c]) /\ "generation" \in PlainLabels /\ pc[c] \notin WorkLabels
    BY <1>1 DEF CheckLimit, PlainLabels, WorkLabels
  <2> QED BY <1>0, <1>1, <2>1, PlainReadable DEF CheckLimit
<1>2. CASE LimitReached(c)
  BY <1>0, <1>2, AbortReadable DEF LimitReached, WorkLabels
<1>3. CASE NextGeneration(c)
  <2> DEFINE g == manifest.generation + 1
             b == Encode(Target(c), g, Overlay(loc[c], loc[c].object))
             l == [loc[c] EXCEPT !.generation = g, !.encoded = b]
  <2>1. Goto(c, "write_cache", l) /\ pc[c] \notin WorkLabels
    BY <1>3 DEF NextGeneration, WorkLabels
  <2>2. /\ l.entries = loc[c].entries /\ l.cursor = loc[c].cursor
        /\ l.generation = g /\ l.encoded = b
    BY <1>0 DEF Locals
  <2>3. b.object_id = Target(c) /\ b.generation = g
    BY DEF Encode
  <2> HIDE DEF l, b
  <2>4. WorkOK(manifest, files, "write_cache", l)
    BY <2>2, <2>3 DEF WorkOK, Target
  <2>5. "write_cache" \notin WorkLabels \cup LookupLabels
    BY DEF WorkLabels, LookupLabels
  <2>6. HeldClaims("write_cache", l) \subseteq CleanClaims
    BY <2>2, <2>5, HeldKept
  <2> QED BY <1>0, <1>3, <2>1, <2>4, <2>5, <2>6, QuietReadable DEF NextGeneration
<1>4. CASE WriteCacheOpen(c)
  <2>1. /\ pc[c] = "write_cache" /\ Goto(c, "write_bytes", loc[c])
        /\ files' = WithFile(Target(c), loc[c].generation, Torn)
    BY <1>4 DEF WriteCacheOpen
  <2>2. /\ FileOf("write_bytes", loc[c]) = <<Target(c), loc[c].generation>>
        /\ "write_bytes" \in WorkLabels /\ pc[c] \notin WorkLabels
        /\ "write_bytes" \notin LookupLabels
    BY <2>1 DEF FileOf, Target, WorkLabels, LookupLabels
  <2>3. WorkOK(manifest, files', "write_bytes", loc[c])
    BY <1>0, <2>1 DEF WorkOK, EncodedLabels
  <2> QED BY <1>4, <2>1, <2>2, <2>3, WritingReadable DEF WriteCacheOpen
<1>5. CASE WriteCacheBytes(c)
  <2>1. /\ pc[c] = "write_bytes" /\ Goto(c, "mark_dirty", loc[c])
        /\ files' = WithFile(Target(c), loc[c].generation, loc[c].encoded)
    BY <1>5 DEF WriteCacheBytes
  <2>2. /\ FileOf("mark_dirty", loc[c]) = <<Target(c), loc[c].generation>>
        /\ FileOf(pc[c], loc[c]) = <<Target(c), loc[c].generation>>
        /\ "mark_dirty" \in WorkLabels /\ pc[c] \in WorkLabels
        /\ "mark_dirty" \notin LookupLabels
    BY <2>1 DEF FileOf, Target, WorkLabels, LookupLabels
  <2>3. store_lock = c
    BY <2>2 DEF ReadableInv, StoreHeld
  <2>4. /\ <<Target(c), loc[c].generation>> \in DOMAIN files'
        /\ files'[<<Target(c), loc[c].generation>>] = loc[c].encoded
    BY <2>1 DEF WithFile
  <2>5. WorkOK(manifest, files', "mark_dirty", loc[c])
    BY <1>0, <2>1, <2>4 DEF WorkOK, EncodedLabels, Target
  <2> QED BY <1>5, <2>1, <2>2, <2>3, <2>5, WritingReadable DEF WriteCacheBytes
<1> QED BY <1>1, <1>2, <1>3, <1>4, <1>5 DEF WriteStep

\* mark_dirty: the row's file is complete, and its generation is above that of every
\* clean object.
LEMMA MarkReadable ==
  ASSUME DeviceInv, NEW w, ReadableInv(w), SnapshotInv(w)', Saves, NEW c \in Clients, MarkDirty(c)
  PROVE  ReadableInv(w)'
<1> USE DEF remote
<1> DEFINE o == Target(c)
           row == DirtyRow(c)
           g == loc[c].generation
           l == Advance(loc[c])
<1>1. /\ pc[c] = "mark_dirty" /\ dirty_objects' = [dirty_objects EXCEPT ![o] = row]
      /\ store_lock' = None /\ UNCHANGED <<files, manifest, channel>>
      /\ Goto(c, LoopHead(l), l)
  BY DEF MarkDirty
<1>2. /\ o \in Objects /\ dirty_objects \in Rows
      /\ loc[c] \in Locals /\ loc[c].encoded \in Encoded
      /\ manifest.generation \in Nat
  BY <1>1, TargetOK, OneConnection DEF DeviceInv, VariablesOK, ConnectionOK, Manifest
<1>3. row \in Row /\ row.generation = g /\ row.sha256 = loc[c].encoded
  BY <1>2 DEF DirtyRow, Row, Locals
<1>4. /\ g = manifest.generation + 1 /\ loc[c].encoded.object_id = o
      /\ loc[c].encoded.generation = g
      /\ <<o, g>> \in DOMAIN files /\ files[<<o, g>>] = loc[c].encoded
  BY <1>1 DEF ReadableInv, WorkOK, EncodedLabels, Target
<1>5. LoopHead(l) \in PlainLabels /\ l.entries = loc[c].entries
  BY <1>2, AdvanceGoes, PlainWork
<1>6. /\ DirtyIds(dirty_objects') = DirtyIds(dirty_objects) \cup {o}
      /\ dirty_objects'[o] = row
      /\ \A p \in Objects : p # o => dirty_objects'[p] = dirty_objects[p]
  <2> HIDE DEF o, row
  <2> QED BY <1>1, <1>2, <1>3, DeviceAssumption DEF DirtyIds, Rows
<1>7. FileOf(pc[c], loc[c]) = <<o, g>> /\ pc[c] \in WorkLabels /\ store_lock = c
  BY <1>1 DEF FileOf, Target, WorkLabels, ReadableInv, StoreHeld
<1> HIDE DEF o, row, g, l
<1> DEFINE new == <<o, g, loc[c].encoded>>
           Others == {Claim(p, dirty_objects[p]) : p \in DirtyIds(dirty_objects) \ {o}}
<1>8. CleanClaims' \subseteq CleanClaims
  <2>1. HeldClaims(LoopHead(l), l) \subseteq CleanClaims
    BY <1>5, PlainWork, HeldKept
  <2>2. EntryClaims(manifest') \subseteq CleanClaims
    BY <1>1 DEF CleanClaims
  <2> QED BY <1>1, <2>1, <2>2, CleanKept
<1>9. Claims' \subseteq CleanClaims \cup Others \cup {new}
  <2>1. Claims' = CleanClaims' \cup RowClaims(dirty_objects')
    BY DEF Claims
  <2>2. ASSUME NEW x \in RowClaims(dirty_objects')
        PROVE  x \in Others \cup {new}
    <3>1. PICK p \in DirtyIds(dirty_objects') : x = Claim(p, dirty_objects'[p])
      BY DEF RowClaims
    <3>2. CASE p = o
      BY <1>3, <1>6, <3>1, <3>2 DEF Claim
    <3>3. CASE p # o
      <4>1. p \in DirtyIds(dirty_objects) \ {o} /\ p \in Objects
        BY <1>6, <3>3 DEF DirtyIds
      <4>2. x = Claim(p, dirty_objects[p])
        BY <1>6, <3>1, <3>3, <4>1
      <4> QED BY <4>1, <4>2
    <3> QED BY <3>2, <3>3
  <2> QED BY <1>8, <2>1, <2>2
<1>10. /\ Others \subseteq Claims /\ CleanClaims \subseteq Claims
       /\ \A x \in Others : x[1] # o
  <2>1. \A x \in Others : x[1] # o
    BY DEF Claim
  <2>2. Others \subseteq RowClaims(dirty_objects)
    BY DEF RowClaims
  <2> QED BY <2>1, <2>2 DEF Claims
<1>11. \A x \in CleanClaims : x[2] # g
  <2>1. \A x \in CleanClaims : x[2] \in Nat /\ x[2] <= manifest.generation
    BY ClaimsTyped DEF ReadableInv, CleanBelow
  <2> QED BY <1>2, <1>4, <2>1
<1>12. /\ \A x \in Claims' : x = new \/ (x \in Claims /\ ~(x[1] = o /\ x[2] = g))
       /\ new[1] = o /\ new[2] = g /\ new[3] = loc[c].encoded
  <2> HIDE DEF Others
  <2> QED BY <1>9, <1>10, <1>11
<1> HIDE DEF Others, new
<1>13. ClaimsAgree'
  <2>1. \A x, y \in Claims' : x[1] = y[1] /\ x[2] = y[2] => x[3] = y[3]
    BY <1>12 DEF ReadableInv, ClaimsAgree
  <2> QED BY <2>1 DEF ClaimsAgree
<1>14. FilesAgree'
  <2>1. ASSUME NEW x \in Claims', <<x[1], x[2]>> \in DOMAIN files'
        PROVE  files'[<<x[1], x[2]>>] = x[3] \/ Busy(<<x[1], x[2]>>)'
    <3>1. CASE x = new
      BY <1>1, <1>4, <1>12, <3>1
    <3>2. CASE x \in Claims /\ ~(x[1] = o /\ x[2] = g)
      <4>1. ~Busy(<<x[1], x[2]>>)
        <5>1. ASSUME NEW d \in Clients, pc[d] \in WorkLabels PROVE d = c
          BY <1>7, <5>1, OnlyHolder DEF ReadableInv
        <5> QED BY <1>7, <3>2, <5>1 DEF Busy
      <4> QED BY <1>1, <2>1, <3>2, <4>1 DEF ReadableInv, FilesAgree
    <3> QED BY <1>12, <3>1, <3>2
  <2> QED BY <2>1 DEF FilesAgree
<1>15. CleanBelow'
  BY <1>1, <1>8 DEF ReadableInv, CleanBelow
<1>16. RowsOK(dirty_objects', files')
  <2>1. ASSUME NEW p \in DirtyIds(dirty_objects')
        PROVE  /\ <<p, dirty_objects'[p].generation>> \in DOMAIN files'
               /\ dirty_objects'[p].sha256.object_id = p
               /\ dirty_objects'[p].sha256.generation = dirty_objects'[p].generation
    <3>1. CASE p = o
      BY <1>1, <1>3, <1>4, <1>6, <3>1
    <3>2. CASE p # o
      <4>1. p \in DirtyIds(dirty_objects) /\ dirty_objects'[p] = dirty_objects[p]
        BY <1>6, <3>2 DEF DirtyIds
      <4> QED BY <1>1, <4>1 DEF ReadableInv, RowsOK
    <3> QED BY <3>1, <3>2
  <2> QED BY <2>1 DEF RowsOK
<1>17. RowsAbove(dirty_objects', manifest')
  <2>1. o \in DirtyIds(dirty_objects') /\ dirty_objects'[o].generation = manifest.generation + 1
    BY <1>3, <1>4, <1>6
  <2>2. dirty_objects'[o].generation >= manifest'.generation
    BY <1>1, <1>2, <2>1
  <2> QED BY <2>1, <2>2 DEF RowsAbove
<1>18. ASSUME NEW d \in Clients, d # c
       PROVE  WorkOK(manifest', files', pc[d], loc[d]) /\ store_lock # d
  BY <1>1, <1>7, <1>18, OnlyHolder DEF ReadableInv
<1>19. ManifestsBelow(channel')
  BY <1>1 DEF ReadableInv
<1>20. /\ WorkOK(manifest', files', LoopHead(l), l)
       /\ LoopHead(l) \notin WorkLabels \cup {"flush_clear"}
  BY <1>5, PlainWork
<1> QED BY <1>1, <1>13, <1>14, <1>15, <1>16, <1>17, <1>18, <1>19, <1>20, StepReadable

-----------------------------------------------------------------------------
(* flush *)

\* flush raises the generation of the manifest, never lowers it, and bounds that of
\* every row it is about to upload.
LEMMA LockReadable ==
  ASSUME DeviceInv, NEW w, ReadableInv(w), SnapshotInv(w)', Saves, NEW c \in Clients, FlushLock(c)
  PROVE  ReadableInv(w)'
<1> USE DEF local, remote
<1> DEFINE rows == loc[c].snapshot
           g == Max({rows[o].generation : o \in DirtyIds(rows)})
<1>1. /\ pc[c] = "flush_lock" /\ manifest' = [manifest EXCEPT !.generation = g]
      /\ Goto(c, "flush_object", loc[c])
      /\ UNCHANGED <<dirty_objects, files, store_lock, channel>>
  BY DEF FlushLock
<1>2. /\ rows = dirty_objects /\ rows \in Rows /\ DirtyIds(rows) # {} /\ c = w
      /\ manifest \in Manifest
  BY <1>1, OneConnection DEF ReadableInv, SnapshotInv, SnapshotOf, RoleOK, FlushLabels,
     DeviceInv, VariablesOK, ConnectionOK
<1>3. \A o \in DirtyIds(rows) : rows[o].generation \in Nat
  BY <1>2, DirtyIdsOK DEF Row
<1>4. /\ g \in Nat /\ \A o \in DirtyIds(rows) : rows[o].generation <= g
      /\ \E o \in DirtyIds(rows) : rows[o].generation = g
  BY <1>2, HighestRow
<1> HIDE DEF g
<1>5. /\ manifest'.generation = g /\ manifest'.objects = manifest.objects
      /\ manifest.generation \in Nat
  BY <1>1, <1>2 DEF Manifest
<1>6. PICK m \in DirtyIds(rows) : rows[m].generation = g
  BY <1>4
<1>7. g >= manifest.generation
  <2>1. dirty_objects # NoRows
    BY <1>2 DEF DirtyIds, NoRows
  <2>2. PICK o \in DirtyIds(rows) : rows[o].generation >= manifest.generation
    BY <1>2, <2>1 DEF ReadableInv, RowsAbove
  <2> QED BY <1>3, <1>4, <1>5, <2>2
<1>8. EntryClaims(manifest') \subseteq CleanClaims
  BY <1>5 DEF EntryClaims, CleanClaims
<1>9. HeldClaims("flush_object", loc[c]) \subseteq CleanClaims
  BY HeldKept DEF LookupLabels
<1>10. CleanClaims' \subseteq CleanClaims
  BY <1>1, <1>8, <1>9, CleanKept
<1>11. Claims' \subseteq Claims
  BY <1>1, <1>10, ClaimsKept DEF Claims
<1>12. ClaimsAgree'
  BY <1>11, AgreeKept DEF ReadableInv
<1>13. FilesAgree'
  <2>1. pc[c] \notin WorkLabels
    BY <1>1 DEF WorkLabels
  <2> QED BY <1>1, <1>11, <2>1, FilesKept DEF ReadableInv
<1>14. CleanBelow'
  <2>1. \A x \in CleanClaims : x[2] \in Nat /\ x[2] <= manifest.generation
    BY ClaimsTyped DEF ReadableInv, CleanBelow
  <2>2. \A x \in CleanClaims : x[2] <= g
    BY <1>4, <1>5, <1>7, <2>1
  <2>3. \A x \in CleanClaims' : x[2] <= manifest'.generation
    BY <1>5, <1>10, <2>2
  <2> QED BY <2>3 DEF CleanBelow
<1>15. RowsAbove(dirty_objects', manifest')
  <2>1. m \in DirtyIds(dirty_objects') /\ dirty_objects'[m].generation >= manifest'.generation
    BY <1>1, <1>2, <1>3, <1>5, <1>6
  <2> QED BY <2>1 DEF RowsAbove
<1>16. WorkOK(manifest', files', "flush_object", loc[c])
  <2>1. \A o \in DirtyIds(loc[c].snapshot) : loc[c].snapshot[o].generation <= manifest'.generation
    BY <1>4, <1>5
  <2> HIDE DEF rows
  <2> QED BY <2>1 DEF WorkOK, EncodedLabels
<1>17. ASSUME NEW d \in Clients, d # c
       PROVE  WorkOK(manifest', files', pc[d], loc[d])
  <2>1. pc[d] \notin FlushLabels /\ loc[d].op # "write"
    BY <1>2, <1>17 DEF ReadableInv, SnapshotInv, RoleOK
  <2>2. pc[d] \notin EncodedLabels /\ pc[d] # "flush_object" /\ pc[d] # "mark_dirty"
    BY <2>1, OneConnection DEF ConnectionOK, EncodedLabels, FlushLabels, FlushingLabels
  <2>3. WorkOK(manifest, files, pc[d], loc[d])
    BY DEF ReadableInv
  <2> QED BY <2>2, <2>3 DEF WorkOK
<1>18. /\ RowsOK(dirty_objects', files') /\ ManifestsBelow(channel')
       /\ "flush_object" \notin WorkLabels \cup {"flush_clear"}
  BY <1>1 DEF ReadableInv, WorkLabels
<1>19. manifest'.generation \in Nat /\ manifest.generation <= manifest'.generation
  BY <1>4, <1>5, <1>7
<1> QED BY <1>1, <1>12, <1>13, <1>14, <1>15, <1>16, <1>17, <1>18, <1>19, StepReadable

\* An upload turns the claim of a dirty row into a claim of the manifest.
LEMMA UploadReadable ==
  ASSUME DeviceInv, NEW w, ReadableInv(w), SnapshotInv(w)', Saves, NEW c \in Clients, FlushObject(c)
  PROVE  ReadableInv(w)'
<1> USE DEF local, locks
<1> DEFINE o == FlushTarget(c)
           row == loc[c].snapshot[o]
           id == Len(channel) + 1
           rest == [loc[c].snapshot EXCEPT ![o] = None]
           next == IF rest = NoRows THEN "flush_manifest" ELSE "flush_object"
           l == [loc[c] EXCEPT !.snapshot = rest]
           new == <<o, row.generation, row.sha256>>
<1>1. /\ pc[c] = "flush_object" /\ FlushReadable(c) /\ o \in ManifestObjects
      /\ channel' = Append(channel, ObjectMessage(row.sha256))
      /\ manifest' = WithUploaded(manifest, o, row.sha256, id)
      /\ Goto(c, next, l) /\ UNCHANGED <<dirty_objects, files, store_lock>>
  BY DEF FlushObject
<1>2. /\ o \in DirtyIds(loc[c].snapshot) /\ o \in Objects /\ row \in Row
      /\ loc[c] \in Locals /\ loc[c].snapshot \in Rows /\ manifest \in Manifest
  BY <1>1, FlushTargetOK, OneConnection DEF Locals, DeviceInv, VariablesOK
<1>3. row = dirty_objects[o] /\ o \in DirtyIds(dirty_objects)
  BY <1>1, <1>2 DEF ReadableInv, SnapshotInv, SnapshotOf, DirtyIds
<1>4. row.sha256.generation = row.generation
  BY <1>3 DEF ReadableInv, RowsOK
<1>5. row.generation <= manifest.generation
  BY <1>1, <1>2 DEF ReadableInv, WorkOK
<1>6. /\ l.entries = loc[c].entries /\ l.snapshot = rest
      /\ next \in {"flush_manifest", "flush_object"}
  BY <1>2 DEF Locals
<1>7. \A p \in DirtyIds(rest) : p \in DirtyIds(loc[c].snapshot) /\ rest[p] = loc[c].snapshot[p]
  BY <1>2 DEF DirtyIds, Rows
<1>8. /\ manifest'.generation = manifest.generation
      /\ manifest'.objects = [manifest.objects EXCEPT ![o] =
           [generation |-> row.sha256.generation, remote |-> id, sha256 |-> row.sha256,
            zero |-> FALSE]]
  BY <1>1, <1>2 DEF WithUploaded, Manifest
<1> HIDE DEF o, row, id, rest, next, l
<1>9. EntryClaims(manifest') \subseteq CleanClaims \cup {new}
  <2>1. ASSUME NEW x \in EntryClaims(manifest') PROVE x \in CleanClaims \cup {new}
    <3>1. PICK p \in ManifestObjects : /\ ~manifest'.objects[p].zero
                                       /\ x = Claim(p, manifest'.objects[p])
      BY DEF EntryClaims
    <3>2. CASE p = o
      <4>1. /\ manifest'.objects[p].generation = row.generation
            /\ manifest'.objects[p].sha256 = row.sha256
        BY <1>2, <1>4, <1>8, <3>2 DEF Manifest
      <4> QED BY <3>1, <3>2, <4>1 DEF Claim
    <3>3. CASE p # o
      <4>1. manifest'.objects[p] = manifest.objects[p]
        BY <1>2, <1>8, <3>3 DEF Manifest
      <4> QED BY <3>1, <4>1, ManifestClaim
    <3> QED BY <3>2, <3>3
  <2> QED BY <2>1
<1>10. HeldClaims(next, l) \subseteq CleanClaims
  BY <1>6, HeldKept DEF LookupLabels
<1>11. CleanClaims' \subseteq CleanClaims \cup {new}
  <2> DEFINE S == CleanClaims \cup {new}
  <2>1. CleanClaims \subseteq S
    OBVIOUS
  <2> HIDE DEF S, new
  <2>2. EntryClaims(manifest') \subseteq S
    BY <1>9 DEF S
  <2>3. CleanClaims' \subseteq S
    BY <1>1, <1>10, <2>1, <2>2, CleanKept
  <2> QED BY <2>3 DEF S
<1>12. new \in RowClaims(dirty_objects) /\ new[2] <= manifest.generation
  BY <1>3, <1>5 DEF RowClaims, Claim
<1>13. Claims' \subseteq Claims
  <2> HIDE DEF new
  <2>1. CleanClaims' \subseteq Claims /\ RowClaims(dirty_objects') \subseteq Claims
    BY <1>1, <1>11, <1>12 DEF Claims
  <2> QED BY <2>1, ClaimsKept
<1>14. ClaimsAgree'
  BY <1>13, AgreeKept DEF ReadableInv
<1>15. FilesAgree'
  <2>1. pc[c] \notin WorkLabels
    BY <1>1 DEF WorkLabels
  <2> QED BY <1>1, <1>13, <2>1, FilesKept DEF ReadableInv
<1>16. CleanBelow'
  <2>1. \A x \in CleanClaims' : x[2] <= manifest'.generation
    BY <1>8, <1>11, <1>12 DEF ReadableInv, CleanBelow
  <2> QED BY <2>1 DEF CleanBelow
<1>17. RowsAbove(dirty_objects', manifest')
  BY <1>1, <1>8 DEF ReadableInv, RowsAbove
<1>18. WorkOK(manifest', files', next, l)
  <2>1. \A p \in DirtyIds(l.snapshot) : l.snapshot[p].generation <= manifest'.generation
    BY <1>1, <1>6, <1>7, <1>8 DEF ReadableInv, WorkOK
  <2> QED BY <1>6, <2>1 DEF WorkOK, EncodedLabels
<1>19. ASSUME NEW d \in Clients
       PROVE  WorkOK(manifest', files', pc[d], loc[d])
  BY <1>1, <1>8 DEF ReadableInv, WorkOK
<1>20. RowsOK(dirty_objects', files') /\ next \notin WorkLabels \cup {"flush_clear"}
  BY <1>1, <1>6 DEF ReadableInv, WorkLabels
<1>21. ManifestsBelow(channel')
  <2>1. ObjectMessage(row.sha256) \in Message
    BY <1>1, SendObjectOK DEF row, o
  <2>2. ObjectMessage(row.sha256).kind # "manifest"
    BY DEF ObjectMessage
  <2> QED BY <1>1, <2>1, <2>2, SentBelow
<1>22. manifest'.generation \in Nat /\ manifest.generation <= manifest'.generation
  BY <1>2, <1>8 DEF Manifest
<1> QED BY <1>1, <1>14, <1>15, <1>16, <1>17, <1>18, <1>19, <1>20, <1>21, <1>22, StepReadable

\* clear_dirty_and_wal takes claims away.
LEMMA ClearReadable ==
  ASSUME DeviceInv, NEW w, ReadableInv(w), SnapshotInv(w)', Saves, NEW c \in Clients, FlushClear(c)
  PROVE  ReadableInv(w)'
<1> USE DEF remote
<1>1. /\ pc[c] = "flush_clear" /\ dirty_objects' = NoRows /\ Goto(c, "idle", NoLocals)
      /\ store_lock' = None /\ UNCHANGED <<files, manifest, channel>>
  BY DEF FlushClear
<1>2. store_lock = c /\ pc[c] \notin WorkLabels
  BY <1>1 DEF ReadableInv, StoreHeld, WorkLabels
<1>3. DirtyIds(NoRows) = {}
  BY DEF DirtyIds, NoRows
<1>4. RowClaims(dirty_objects') = {}
  BY <1>1, <1>3 DEF RowClaims
<1>5. CleanClaims' \subseteq CleanClaims
  <2>1. EntryClaims(manifest') \subseteq CleanClaims /\ HeldClaims("idle", NoLocals) = {}
    BY <1>1, IdleHolds DEF CleanClaims
  <2> QED BY <1>1, <2>1, CleanKept
<1>6. Claims' \subseteq Claims
  BY <1>4, <1>5, ClaimsKept DEF Claims
<1>7. ClaimsAgree'
  BY <1>6, AgreeKept DEF ReadableInv
<1>8. FilesAgree'
  BY <1>1, <1>2, <1>6, FilesKept DEF ReadableInv
<1>9. CleanBelow'
  BY <1>1, <1>5 DEF ReadableInv, CleanBelow
<1>10. RowsOK(dirty_objects', files') /\ RowsAbove(dirty_objects', manifest')
  BY <1>1, <1>3 DEF RowsOK, RowsAbove
<1>11. /\ WorkOK(manifest', files', "idle", NoLocals)
       /\ "idle" \notin WorkLabels \cup {"flush_clear"}
  BY IdleHolds DEF WorkLabels
<1>12. /\ \A d \in Clients : WorkOK(manifest', files', pc[d], loc[d])
       /\ ManifestsBelow(channel')
  BY <1>1 DEF ReadableInv
<1> QED BY <1>1, <1>2, <1>7, <1>8, <1>9, <1>10, <1>11, <1>12, StepReadable

\* The steps of flush.
LEMMA FlushStepReadable ==
  ASSUME DeviceInv, NEW w, ReadableInv(w), SnapshotInv(w)', Saves, NEW c \in Clients, FlushStep(c)
  PROVE  ReadableInv(w)'
<1> USE DEF local, locks, remote
<1>0. loc[c] \in Locals /\ ManifestsBelow(channel)
  BY OneConnection DEF ReadableInv
<1>1. ASSUME NEW next \in PlainLabels, NEW l, Goto(c, next, l), l.entries = loc[c].entries,
             UNCHANGED <<dirty_objects, files, manifest, store_lock>>, ManifestsBelow(channel'),
             pc[c] \in FlushLabels
      PROVE  ReadableInv(w)'
  <2>1. pc[c] \notin WorkLabels
    BY <1>1 DEF WorkLabels, FlushLabels, FlushingLabels, CommitLabels
  <2> QED BY <1>1, <2>1, PlainReadable
<1>2. CASE FlushList(c)
  <2> DEFINE next == IF dirty_objects = NoRows THEN "idle" ELSE "flush_lock"
             l == [loc[c] EXCEPT !.snapshot = dirty_objects]
  <2>1. Goto(c, next, l) /\ next \in PlainLabels /\ pc[c] \in FlushLabels
    BY <1>2 DEF FlushList, PlainLabels, FlushLabels
  <2>2. l.entries = loc[c].entries
    BY <1>0 DEF Locals
  <2> HIDE DEF next, l
  <2> QED BY <1>0, <1>1, <1>2, <2>1, <2>2 DEF FlushList
<1>3. CASE FlushRejected(c)
  BY <1>0, <1>3, AbortReadable DEF FlushRejected, WorkLabels
<1>4. CASE FlushMissingObject(c)
  <2> DEFINE msg == ObjectMessage(loc[c].snapshot[FlushTarget(c)].sha256)
  <2>1. /\ pc[c] = "flush_object" /\ FlushReadable(c) /\ channel' = Append(channel, msg)
        /\ Abort(c) /\ UNCHANGED <<dirty_objects, files, manifest>>
    BY <1>4 DEF FlushMissingObject
  <2>2. msg \in Message /\ msg.kind # "manifest"
    BY <2>1, SendObjectOK DEF ObjectMessage
  <2> HIDE DEF msg
  <2>3. ManifestsBelow(channel')
    BY <2>1, <2>2, SentBelow
  <2> QED BY <2>1, <2>3, AbortReadable DEF WorkLabels
<1>5. CASE FlushManifest(c)
  <2> DEFINE next == IF pinned = 0 THEN "flush_superblock" ELSE "flush_backup"
             ref == [message_id |-> Len(channel) + 1, generation |-> manifest.generation]
             l == [loc[c] EXCEPT !.superblock = ForManifest(channel, pinned, ref)]
             msg == ManifestMessage(manifest)
  <2>1. /\ Goto(c, next, l) /\ next \in PlainLabels /\ pc[c] \in FlushLabels
        /\ channel' = Append(channel, msg)
    BY <1>5 DEF FlushManifest, PlainLabels, CommitLabels, FlushLabels, FlushingLabels
  <2>2. l.entries = loc[c].entries
    BY <1>0 DEF Locals
  <2>3. msg \in Message /\ msg.body = manifest
    BY <1>5, CommitOK DEF ManifestMessage
  <2> HIDE DEF next, l, msg
  <2>4. ManifestsBelow(channel')
    BY <2>1, <2>3, SentBelow
  <2> QED BY <1>1, <1>5, <2>1, <2>2, <2>4 DEF FlushManifest
<1>6. ASSUME pc[c] \in {"flush_superblock", "flush_backup"},
             channel' = Append(channel, SuperblockMessage(loc[c].superblock))
      PROVE  ManifestsBelow(channel')
  <2>1. SuperblockMessage(loc[c].superblock) \in Message
    BY <1>6, SendSuperblockOK
  <2>2. SuperblockMessage(loc[c].superblock).kind # "manifest"
    BY DEF SuperblockMessage
  <2> QED BY <1>6, <2>1, <2>2, SentBelow
<1>7. CASE FlushSuperblock(c)
  <2> DEFINE l == [loc[c] EXCEPT !.message = Len(channel) + 1]
  <2>1. /\ Goto(c, "flush_pin", l) /\ "flush_pin" \in PlainLabels /\ pc[c] \in FlushLabels
        /\ ManifestsBelow(channel')
    BY <1>6, <1>7 DEF FlushSuperblock, PlainLabels, CommitLabels, FlushLabels, FlushingLabels
  <2>2. l.entries = loc[c].entries
    BY <1>0 DEF Locals
  <2> HIDE DEF l
  <2> QED BY <1>1, <1>7, <2>1, <2>2 DEF FlushSuperblock
<1>8. CASE FlushPin(c)
  <2>1. Goto(c, "flush_backup", loc[c]) /\ "flush_backup" \in PlainLabels /\ pc[c] \in FlushLabels
    BY <1>8 DEF FlushPin, PlainLabels, CommitLabels, FlushLabels, FlushingLabels
  <2> QED BY <1>0, <1>1, <1>8, <2>1 DEF FlushPin
<1>9. CASE FlushBackup(c)
  <2>1. /\ Goto(c, "flush_replace", loc[c]) /\ "flush_replace" \in PlainLabels
        /\ pc[c] \in FlushLabels /\ ManifestsBelow(channel')
    BY <1>6, <1>9 DEF FlushBackup, PlainLabels, CommitLabels, FlushLabels, FlushingLabels
  <2> QED BY <1>1, <1>9, <2>1 DEF FlushBackup
<1>10. CASE FlushReplace(c)
  <2>1. /\ Goto(c, "flush_clear", loc[c]) /\ pc[c] \notin WorkLabels
        /\ "flush_clear" \notin WorkLabels \cup LookupLabels
        /\ WorkOK(manifest, files, "flush_clear", loc[c])
    BY <1>10 DEF FlushReplace, WorkLabels, LookupLabels, WorkOK, EncodedLabels
  <2>2. HeldClaims("flush_clear", loc[c]) \subseteq CleanClaims
    BY <2>1, HeldKept
  <2>3. \A d \in Clients : d # c /\ store_lock = d => store_lock' = d
    BY <1>10, DeviceAssumption DEF FlushReplace
  <2> QED BY <1>0, <1>10, <2>1, <2>2, <2>3, QuietReadable DEF FlushReplace
<1> QED BY <1>2, <1>3, <1>4, <1>5, <1>7, <1>8, <1>9, <1>10, LockReadable, UploadReadable,
           ClearReadable DEF FlushStep

-----------------------------------------------------------------------------
(* Failures of the network, and other machines *)

\* A send, a pin or a download fails.
LEMMA FaultReadable ==
  ASSUME DeviceInv, NEW w, ReadableInv(w), SnapshotInv(w)', Saves, Gone("store_faults"), NEW c \in Clients, Fault(c)
  PROVE  ReadableInv(w)'
<1> USE DEF local, locks, remote
<1>0. ManifestsBelow(channel)
  BY DEF ReadableInv
<1>1. CASE SendFails(c)
  <2> DEFINE msg == CASE pc[c] = "flush_object" ->
                           ObjectMessage(loc[c].snapshot[FlushTarget(c)].sha256)
                      [] pc[c] = "flush_manifest" -> ManifestMessage(manifest)
                      [] OTHER -> SuperblockMessage(loc[c].superblock)
  <2>1. /\ channel' \in {channel, Append(channel, msg)} /\ Abort(c)
        /\ UNCHANGED <<dirty_objects, files, manifest>>
        /\ pc[c] \in {"flush_object", "flush_manifest", "flush_superblock", "flush_backup"}
        /\ pc[c] = "flush_object" => FlushReadable(c)
    BY <1>1 DEF SendFails
  <2>2. msg \in Message /\ (msg.kind = "manifest" => msg.body = manifest)
    <3>1. CASE pc[c] = "flush_object"
      BY <2>1, <3>1, SendObjectOK DEF ObjectMessage
    <3>2. CASE pc[c] = "flush_manifest"
      <4>1. manifest \in Manifest
        BY DEF DeviceInv, VariablesOK
      <4> QED BY <3>2, <4>1 DEF ManifestMessage, Message
    <3>3. CASE pc[c] \in {"flush_superblock", "flush_backup"}
      BY <3>3, SendSuperblockOK DEF SuperblockMessage
    <3> QED BY <2>1, <3>1, <3>2, <3>3
  <2> HIDE DEF msg
  <2>3. ManifestsBelow(channel')
    BY <1>0, <2>1, <2>2, SentBelow
  <2> QED BY <2>1, <2>3, AbortReadable DEF WorkLabels
<1>2. CASE PinFails(c)
  BY <1>0, <1>2, AbortReadable DEF PinFails, WorkLabels
<1>3. CASE FetchFails(c)
  <2>1. CASE pc[c] = "fetch" /\ Abort(c)
    BY <1>0, <1>3, <2>1, AbortReadable DEF FetchFails, WorkLabels
  <2>2. CASE pc[c] = "prefetch_fetch" /\ Goto(c, "reply", loc[c]) /\ UNCHANGED locks
    <3>1. pc[c] \notin WorkLabels /\ "reply" \in PlainLabels
      BY <2>2 DEF WorkLabels, PlainLabels
    <3> QED BY <1>0, <1>3, <2>2, <3>1, PlainReadable DEF FetchFails
  <2> QED BY <1>3, <2>1, <2>2 DEF FetchFails
<1>4. ~Spend("store_faults")
  BY DEF Spend, Gone
<1> QED BY <1>1, <1>2, <1>3, <1>4 DEF Fault, QueryFails, WriteCacheFails, PrefetchQueryFails,
           PrefetchFillFails, MarkDirtyFails, FlushClearFails

\* serve-nbd starts on a machine with an empty cache.
LEMMA ElsewhereReadable ==
  ASSUME DeviceInv, NEW w, ReadableInv(w), SnapshotInv(w)', NEW ref, Served(channel, ref),
         RestartsElsewhere(FetchManifest(channel, ref))
  PROVE  ReadableInv(w)'
<1> USE DEF remote
<1> DEFINE m == FetchManifest(channel, ref)
<1>1. /\ dirty_objects' = NoRows /\ files' = [k \in {} |-> None] /\ manifest' = m
      /\ manifest_state' = m /\ channel' = channel
      /\ \A c \in Clients : pc'[c] = "idle" /\ loc'[c] = NoLocals
  BY DEF RestartsElsewhere, Restarted
<1>2. EntriesBelow(m)
  BY DEF Served, Exists, FetchManifest, ReadableInv, ManifestsBelow
<1> HIDE DEF m
<1>3. DirtyIds(NoRows) = {}
  BY DEF DirtyIds, NoRows
<1>4. /\ CleanClaims' = EntryClaims(m) /\ Claims' = EntryClaims(m)
  <2>1. \A c \in Clients : HeldClaims(pc'[c], loc'[c]) = {}
    BY <1>1, IdleHolds
  <2>2. CleanClaims' = EntryClaims(m)
    BY <1>1, <2>1 DEF CleanClaims
  <2>3. RowClaims(dirty_objects') = {}
    BY <1>1, <1>3 DEF RowClaims
  <2> QED BY <2>2, <2>3 DEF Claims
<1>5. ClaimsAgree'
  <2>1. \A x, y \in EntryClaims(m) : x[1] = y[1] => x[3] = y[3]
    BY DEF EntryClaims, Claim
  <2>2. \A x, y \in Claims' : x[1] = y[1] /\ x[2] = y[2] => x[3] = y[3]
    BY <1>4, <2>1
  <2> QED BY <2>2 DEF ClaimsAgree
<1>6. FilesAgree'
  <2>1. DOMAIN files' = {}
    BY <1>1
  <2> QED BY <2>1 DEF FilesAgree
<1>7. CleanBelow'
  <2>1. \A x \in CleanClaims' : x[2] <= manifest'.generation
    BY <1>1, <1>2, <1>4 DEF EntriesBelow
  <2> QED BY <2>1 DEF CleanBelow
<1>8. /\ RowsOK(dirty_objects', files') /\ RowsAbove(dirty_objects', manifest')
      /\ ManifestsBelow(channel')
  BY <1>1, <1>3 DEF RowsOK, RowsAbove, ReadableInv
<1>9. \A c \in Clients : WorkOK(manifest', files', pc'[c], loc'[c])
  BY <1>1, IdleHolds
<1>10. StoreHeld'
  BY <1>1 DEF StoreHeld, WorkLabels
<1>11. SavedBelow'
  <2>1. m.generation \in Nat
    BY FetchOK DEF Manifest, m
  <2> QED BY <1>1, <1>2, <2>1 DEF SavedBelow
<1> QED BY <1>5, <1>6, <1>7, <1>8, <1>9, <1>10, <1>11 DEF ReadableInv

\* A process dies, away from the files: the next one starts with the saved manifest, the
\* rows and the files.
LEMMA CrashReadable ==
  ASSUME DeviceInv, NEW w, ReadableInv(w), SnapshotInv(w)', Crash, ~TornCrash
  PROVE  ReadableInv(w)'
<1>1. /\ UNCHANGED <<dirty_objects, files, manifest_state, channel>>
      /\ manifest' = manifest_state
      /\ \A c \in Clients : pc'[c] = "idle" /\ loc'[c] = NoLocals
      /\ \A c \in Clients : pc[c] \notin WorkLabels
  BY DEF Crash, TornCrash, Restarted, local, remote
<1>2. CleanClaims' = EntryClaims(manifest_state)
  <2>1. \A c \in Clients : HeldClaims(pc'[c], loc'[c]) = {}
    BY <1>1, IdleHolds
  <2> QED BY <1>1, <2>1 DEF CleanClaims
<1>3. Claims' \subseteq Claims
  <2>1. CleanClaims' \subseteq CleanClaims
    BY <1>2 DEF CleanClaims
  <2> QED BY <1>1, <2>1, ClaimsKept DEF Claims
<1>4. ClaimsAgree'
  BY <1>3, AgreeKept DEF ReadableInv
<1>5. FilesAgree'
  <2>1. \A k : ~Busy(k)
    BY <1>1 DEF Busy
  <2>2. \A x \in Claims' : <<x[1], x[2]>> \in DOMAIN files' => files'[<<x[1], x[2]>>] = x[3]
    BY <1>1, <1>3, <2>1 DEF ReadableInv, FilesAgree
  <2> QED BY <2>2 DEF FilesAgree
<1>6. manifest.generation \in Nat /\ manifest_state.generation \in Nat
  BY DEF DeviceInv, VariablesOK, Manifest
<1>7. CleanBelow' /\ SavedBelow'
  BY <1>1, <1>2, <1>6 DEF CleanBelow, ReadableInv, SavedBelow, EntriesBelow
<1>8. RowsOK(dirty_objects', files') /\ ManifestsBelow(channel')
  BY <1>1 DEF ReadableInv
<1>9. RowsAbove(dirty_objects', manifest')
  <2> SUFFICES ASSUME dirty_objects # NoRows
               PROVE  \E o \in DirtyIds(dirty_objects) :
                        dirty_objects[o].generation >= manifest_state.generation
    BY <1>1 DEF RowsAbove
  <2>1. PICK o \in DirtyIds(dirty_objects) : dirty_objects[o].generation >= manifest.generation
    BY DEF ReadableInv, RowsAbove
  <2>2. dirty_objects[o].generation \in Nat
    BY DirtyIdsOK DEF DeviceInv, VariablesOK, Row
  <2>3. manifest_state.generation <= manifest.generation
    BY DEF ReadableInv, SavedBelow
  <2> QED BY <1>6, <2>1, <2>2, <2>3
<1>10. \A c \in Clients : WorkOK(manifest', files', pc'[c], loc'[c])
  BY <1>1, IdleHolds
<1>11. StoreHeld'
  BY <1>1 DEF StoreHeld, WorkLabels
<1> QED BY <1>4, <1>5, <1>7, <1>8, <1>9, <1>10, <1>11 DEF ReadableInv

\* The machine is lost.
LEMMA RestartReadable ==
  ASSUME DeviceInv, NEW w, ReadableInv(w), SnapshotInv(w)',
         RestartElsewhere \/ RestartOnPrevious
  PROVE  ReadableInv(w)'
<1> DEFINE i == RecoverSuperblock(channel, pinned, scan_limit)
<1>1. i # 0
  BY DEF RestartElsewhere, RestartOnPrevious
<1>2. SuperblockOK(channel, channel[i].body)
  BY <1>1, RecoverOK, RecoveredSuperblockOK
<1>3. CASE RestartElsewhere
  <2>1. Served(channel, channel[i].body.current)
    BY <1>2 DEF SuperblockOK
  <2> QED BY <1>3, <2>1, ElsewhereReadable DEF RestartElsewhere, Recovered
<1>4. CASE RestartOnPrevious
  <2>1. Served(channel, channel[i].body.previous)
    BY <1>2, <1>4 DEF SuperblockOK, RestartOnPrevious
  <2> QED BY <1>4, <2>1, ElsewhereReadable DEF RestartOnPrevious
<1> QED BY <1>3, <1>4

-----------------------------------------------------------------------------
(* The theorems *)

\* Only the end of a flush saves the manifest.
LEMMA SaveSteps ==
  ASSUME NEW c \in Clients, Begin(c) \/ Step(c) \/ Fault(c)
  PROVE  Saves
<1> USE DEF local
<1>1. CASE FlushReplace(c)
  BY <1>1 DEF FlushReplace, Saves
<1> SUFFICES ASSUME ~FlushReplace(c)
             PROVE  manifest_state' = manifest_state
  BY <1>1 DEF Saves
<1>2. CASE Begin(c)
  BY <1>2 DEF Begin, BeginRead, BeginWrite, BeginFlush
<1>3. CASE ReadStep(c)
  BY <1>3 DEF ReadStep, ReadDirty, ReadDirtyRejected, ReadNotDirty, ReadEntry,
     ReadOutOfRange, ReadCache, ReadCacheRejected, FetchObject, FillOpen, FillBytes, Reply
<1>4. CASE WriteStep(c)
  BY <1>4 DEF WriteStep, CheckLimit, LimitReached, NextGeneration, WriteCacheOpen,
     WriteCacheBytes, MarkDirty
<1>5. CASE PrefetchStep(c)
  BY <1>5 DEF PrefetchStep, PrefetchDirtyIds, PrefetchLock, PrefetchSkip, PrefetchWant,
     PrefetchRejected, PrefetchScanned, PrefetchFetch, PrefetchFillOpen, PrefetchFillBytes
<1>6. CASE FlushStep(c)
  BY <1>6 DEF FlushStep, FlushList, FlushLock, FlushObject, FlushRejected,
     FlushMissingObject, FlushManifest, FlushSuperblock, FlushPin, FlushBackup, FlushClear
<1>7. CASE Fault(c)
  BY <1>7 DEF Fault, SendFails, PinFails, FetchFails, QueryFails, WriteCacheFails,
     PrefetchQueryFails, PrefetchFillFails, MarkDirtyFails, FlushClearFails
<1> QED BY <1>2, <1>3, <1>4, <1>5, <1>6, <1>7 DEF Step

\* One step keeps the invariant.
LEMMA NextReadable ==
  ASSUME NEW w
  PROVE  DeviceInv /\ ReadableInv(w) /\ SnapshotInv(w)' /\ Gone("store_faults")
           /\ [Next]_vars /\ [~TornCrash]_vars => ReadableInv(w)'
<1> SUFFICES ASSUME DeviceInv, ReadableInv(w), SnapshotInv(w)', Gone("store_faults"),
                    [Next]_vars, [~TornCrash]_vars
             PROVE  ReadableInv(w)'
  OBVIOUS
<1>1. ASSUME NEW c \in Clients, Begin(c) \/ Step(c) \/ Fault(c)
      PROVE  ReadableInv(w)'
  <2>0. Saves
    BY <1>1, SaveSteps
  <2>1. CASE ReadStep(c)
    BY <2>0, <2>1, ReadReadable, FillReadable
  <2>2. CASE WriteStep(c)
    BY <2>0, <2>2, WriteReadable, MarkReadable
  <2> QED BY <1>1, <2>0, <2>1, <2>2, BeginReadable, PrefetchReadable, FlushStepReadable,
             FaultReadable DEF Step
<1>2. CASE Crash /\ ~TornCrash
  BY <1>2, CrashReadable
<1>3. CASE UNCHANGED vars
  <2>1. UNCHANGED <<dirty_objects, files, manifest, manifest_state, store_lock, channel, pc, loc>>
    BY <1>3 DEF vars, local, locks, remote
  <2>2. Claims' = Claims /\ CleanClaims' = CleanClaims
    BY <2>1 DEF Claims, CleanClaims
  <2>3. \A k : Busy(k)' = Busy(k)
    BY <2>1 DEF Busy
  <2>4. ClaimsAgree' /\ FilesAgree' /\ CleanBelow'
    BY <2>1, <2>2, <2>3 DEF ReadableInv, ClaimsAgree, FilesAgree, CleanBelow
  <2> QED BY <2>1, <2>4 DEF ReadableInv, StoreHeld, SavedBelow
<1>4. CASE Wait
  BY <1>3, <1>4 DEF Wait
<1> QED BY <1>1, <1>2, <1>3, <1>4, RestartReadable DEF Next

\* A device that was just formatted has neither rows nor files.
LEMMA InitReadable ==
  ASSUME NEW w
  PROVE  Init /\ SnapshotInv(w) => ReadableInv(w)
<1> SUFFICES ASSUME Init, SnapshotInv(w) PROVE ReadableInv(w)
  OBVIOUS
<1>1. /\ dirty_objects = NoRows /\ DOMAIN files = {} /\ manifest = EmptyManifest
      /\ manifest_state = EmptyManifest
      /\ \A c \in Clients : pc[c] = "idle" /\ loc[c] = NoLocals
  BY DEF Init
<1>2. EntryClaims(EmptyManifest) = {}
  BY DEF EntryClaims, EmptyManifest
<1>3. DirtyIds(NoRows) = {}
  BY DEF DirtyIds, NoRows
<1>4. CleanClaims = {} /\ Claims = {}
  <2>1. \A c \in Clients : HeldClaims(pc[c], loc[c]) = {}
    BY <1>1, IdleHolds
  <2>2. CleanClaims = {}
    BY <1>1, <1>2, <2>1 DEF CleanClaims
  <2> QED BY <1>1, <1>3, <2>2 DEF Claims, RowClaims
<1>5. ClaimsAgree /\ FilesAgree /\ CleanBelow
  BY <1>4 DEF ClaimsAgree, FilesAgree, CleanBelow
<1>6. RowsOK(dirty_objects, files) /\ RowsAbove(dirty_objects, manifest)
  BY <1>1, <1>3 DEF RowsOK, RowsAbove
<1>7. ManifestsBelow(channel)
  <2>1. EntriesBelow(EmptyManifest)
    BY <1>2 DEF EntriesBelow
  <2>2. \A i \in DOMAIN channel : channel[i].kind = "manifest" => channel[i].body = EmptyManifest
    BY DEF Init, FormattedChannel, ManifestMessage, SuperblockMessage
  <2> QED BY <2>1, <2>2 DEF ManifestsBelow
<1>8. \A c \in Clients : WorkOK(manifest, files, pc[c], loc[c])
  BY <1>1, IdleHolds
<1>9. StoreHeld
  BY <1>1 DEF StoreHeld, WorkLabels
<1>10. SavedBelow
  <2>1. EntriesBelow(manifest_state)
    BY <1>1, <1>2 DEF EntriesBelow
  <2>2. EmptyManifest.generation = 0
    BY DEF EmptyManifest
  <2> QED BY <1>1, <2>1, <2>2 DEF SavedBelow
<1> QED BY <1>5, <1>6, <1>7, <1>8, <1>9, <1>10 DEF ReadableInv

\* With one connection that writes and flushes, a store that does its work and no process
\* that dies in the middle of a file, the cache files stay what the rows, the manifests and
\* the handlers say.
THEOREM ReadableInvariance ==
  ASSUME NEW w, OneWriter(w), MaxStoreFaults = 0
  PROVE  Spec /\ [][~TornCrash]_vars => []ReadableInv(w)
<1>1. Init => Gone("store_faults")
  BY DEF Init, Gone
<1>2. Init /\ SnapshotInv(w) => ReadableInv(w)
  BY InitReadable
<1>3. DeviceInv /\ ReadableInv(w) /\ SnapshotInv(w)' /\ Gone("store_faults")
        /\ [Next]_vars /\ [~TornCrash]_vars => ReadableInv(w)'
  BY NextReadable
<1>4. Spec => []SnapshotInv(w)
  BY SnapshotInvariance
<1>5. DeviceInv /\ Gone("store_faults") /\ [Next]_vars => Gone("store_faults")'
  BY GoneForGood
<1> QED BY <1>1, <1>2, <1>3, <1>4, <1>5, Invariance, PTL DEF Spec

\* While nobody is in the middle of a store operation, every dirty object can be read and
\* flushed: no order of requests, no failure of the network, no change of machine and no
\* crash away from a file makes read_object or flush report "dirty cache checksum mismatch".
THEOREM DirtyIsReadable ==
  ASSUME NEW w, OneWriter(w), MaxStoreFaults = 0
  PROVE  Spec /\ [][~TornCrash]_vars => []DirtyReadable
<1>1. DeviceInv /\ ReadableInv(w) => DirtyReadable
  <2> SUFFICES ASSUME DeviceInv, ReadableInv(w), store_lock = None,
                      NEW o \in DirtyIds(dirty_objects)
               PROVE  Verifies(File(o, dirty_objects[o].generation), o,
                               dirty_objects[o].generation, dirty_objects[o].sha256)
    BY DEF DirtyReadable
  <2> DEFINE row == dirty_objects[o]
  <2>1. /\ <<o, row.generation>> \in DOMAIN files
        /\ row.sha256.object_id = o /\ row.sha256.generation = row.generation
    BY DEF ReadableInv, RowsOK
  <2>2. <<o, row.generation, row.sha256>> \in Claims
    BY DEF Claims, RowClaims, Claim
  <2>3. ~Busy(<<o, row.generation>>)
    BY StoreBusy, DeviceAssumption DEF ReadableInv
  <2>4. files[<<o, row.generation>>] = row.sha256
    BY <2>1, <2>2, <2>3 DEF ReadableInv, FilesAgree
  <2>5. row \in Row
    BY DirtyIdsOK DEF DeviceInv, VariablesOK
  <2>6. row.sha256 # Torn
    BY <2>5, FormatAssumption DEF Row
  <2> QED BY <2>1, <2>4, <2>6 DEF Verifies, File
<1>2. Spec /\ [][~TornCrash]_vars => []ReadableInv(w)
  BY ReadableInvariance
<1> QED BY <1>1, <1>2, Invariance, PTL

\* Likewise every clean object: its cache file, if there is one, is the one the manifest
\* names, and read_cache does not fail on it.
THEOREM CleanIsReadable ==
  ASSUME NEW w, OneWriter(w), MaxStoreFaults = 0
  PROVE  Spec /\ [][~TornCrash]_vars => []CleanReadable
<1>1. DeviceInv /\ ReadableInv(w) => CleanReadable
  <2> SUFFICES ASSUME DeviceInv, ReadableInv(w), store_lock = None, NEW o \in ManifestObjects,
                      ~manifest.objects[o].zero
               PROVE  File(o, manifest.objects[o].generation)
                        \in {None, manifest.objects[o].sha256}
    BY DEF CleanReadable
  <2> DEFINE e == manifest.objects[o]
  <2>1. <<o, e.generation, e.sha256>> \in Claims
    BY ManifestClaim DEF Claims, Claim
  <2>2. ~Busy(<<o, e.generation>>)
    BY StoreBusy, DeviceAssumption DEF ReadableInv
  <2> QED BY <2>1, <2>2 DEF ReadableInv, FilesAgree, File
<1>2. Spec /\ [][~TornCrash]_vars => []ReadableInv(w)
  BY ReadableInvariance
<1> QED BY <1>1, <1>2, Invariance, PTL

-----------------------------------------------------------------------------
(* The files that a flush reads *)

\* flush reads its files without the store mutex, and read_object and prefetch_objects
\* write theirs while it does.

\* A handler at one of these steps is about to write the file of its entry.
FillLabels == {"fetch", "fill", "filling"}

\* The files that it, or its read-ahead, is about to write.
FillKeys(p, l) ==
  {<<e.object_id, e.entry.generation>> : e \in l.entries}
    \cup IF p \in FillLabels THEN {<<ObjectOf(l.cursor), l.entry.generation>>} ELSE {}

\* The files of the rows.
RowKeys(rows) == {<<o, rows[o].generation>> : o \in DirtyIds(rows)}

\* They are never the same: what is dirty is in the cache, and what a handler is about to
\* write was not.
FillsApart == \A c \in Clients : FillKeys(pc[c], loc[c]) \cap RowKeys(dirty_objects) = {}

\* A connection at rest, and an empty store, have none.
LEMMA NoKeys == FillKeys("idle", NoLocals) = {} /\ RowKeys(NoRows) = {}
<1>1. NoLocals.entries = {} /\ "idle" \notin FillLabels
  BY DEF NoLocals, FillLabels
<1>2. DirtyIds(NoRows) = {}
  BY DEF DirtyIds, NoRows
<1> QED BY <1>1, <1>2 DEF FillKeys, RowKeys

\* A step that adds no row, after which its handler is about to write no file of a row.
LEMMA ApartKept ==
  ASSUME DeviceInv, FillsApart, NEW c \in Clients, NEW next, NEW l, Goto(c, next, l),
         RowKeys(dirty_objects') \subseteq RowKeys(dirty_objects),
         FillKeys(next, l) \cap RowKeys(dirty_objects) = {}
  PROVE  FillsApart'
<1>1. ASSUME NEW d \in Clients
      PROVE  FillKeys(pc'[d], loc'[d]) \cap RowKeys(dirty_objects) = {}
  <2>1. CASE d = c
    BY <2>1, GotoSets, NoKeys
  <2>2. CASE d # c
    BY <2>2, GotoSets DEF FillsApart
  <2> QED BY <2>1, <2>2
<1> QED BY <1>1 DEF FillsApart

\* Handler c goes on without a file to write that it had not before.
NoNewFill(c, next, l) ==
  /\ l.entries \subseteq loc[c].entries
  /\ next \in FillLabels => /\ pc[c] \in FillLabels
                            /\ l.cursor = loc[c].cursor /\ l.entry = loc[c].entry

\* Such a step, unless it adds a row, keeps them apart.
LEMMA ApartQuiet ==
  ASSUME DeviceInv, FillsApart, NEW c \in Clients, NEW next, NEW l, Goto(c, next, l),
         NoNewFill(c, next, l), RowKeys(dirty_objects') \subseteq RowKeys(dirty_objects)
  PROVE  FillsApart'
<1>1. FillKeys(next, l) \subseteq FillKeys(pc[c], loc[c])
  BY DEF FillKeys, NoNewFill
<1>2. FillKeys(pc[c], loc[c]) \cap RowKeys(dirty_objects) = {}
  BY DEF FillsApart
<1> QED BY <1>1, <1>2, ApartKept

\* Locals that change elsewhere.
LEMMA SameFills ==
  ASSUME NEW l \in Locals, NEW x
  PROVE  /\ [l EXCEPT !.snapshot = x].entries = l.entries
         /\ [l EXCEPT !.scan = x].entries = l.entries
         /\ [l EXCEPT !.entry = x].entries = l.entries
         /\ [l EXCEPT !.encoded = x].entries = l.entries
         /\ [l EXCEPT !.encoded = x].cursor = l.cursor
         /\ [l EXCEPT !.encoded = x].entry = l.entry
         /\ [l EXCEPT !.superblock = x].entries = l.entries
         /\ [l EXCEPT !.message = x].entries = l.entries
         /\ [l EXCEPT !.entries = x].entries = x
         /\ \A y : [l EXCEPT !.generation = x, !.encoded = y].entries = l.entries
BY DEF Locals

\* read_object returns without a file to write.
LEMMA ReturnNoFill ==
  ASSUME DeviceInv, NEW c \in Clients, NEW payload, Return(c, payload)
  PROVE  \E next, l : Goto(c, next, l) /\ NoNewFill(c, next, l)
<1>1. PICK next \in LoopLabels : \E l : Goto(c, next, l) /\ l.entries = loc[c].entries
  BY ReturnGoes
<1>2. next \notin FillLabels
  BY DEF LoopLabels, FillLabels
<1> QED BY <1>1, <1>2 DEF NoNewFill

\* The end of a request, with its reply or with an error.
LEMMA EndNoFill ==
  ASSUME NEW c
  PROVE  NoNewFill(c, "idle", NoLocals)
BY DEF NoNewFill, NoLocals, FillLabels

\* A request that arrives.
LEMMA BeginNoFill ==
  ASSUME NEW c \in Clients, Begin(c)
  PROVE  \E next, l : Goto(c, next, l) /\ NoNewFill(c, next, l)
<1>1. \E l : l.entries = {} /\ (Goto(c, LoopHead(l), l) \/ Goto(c, "flush_list", l))
  BY DEF Begin, BeginRead, BeginWrite, BeginFlush, NoLocals
<1>2. \A l : LoopHead(l) \notin FillLabels
  BY DEF LoopHead, FillLabels
<1>3. "flush_list" \notin FillLabels
  BY DEF FillLabels
<1> QED BY <1>1, <1>2, <1>3 DEF NoNewFill

\* The steps of read_object but the one that finds no file.
LEMMA ReadNoFill ==
  ASSUME DeviceInv, NEW c \in Clients, ReadStep(c),
         ~(pc[c] = "read_cache" /\ Goto(c, "fetch", loc[c]))
  PROVE  \E next, l : Goto(c, next, l) /\ NoNewFill(c, next, l)
<1>0. loc[c] \in Locals
  BY OneConnection
<1>1. CASE ReadDirtyRejected(c) \/ ReadOutOfRange(c) \/ ReadCacheRejected(c) \/ Reply(c)
  <2>1. Goto(c, "idle", NoLocals)
    BY <1>1 DEF ReadDirtyRejected, ReadOutOfRange, ReadCacheRejected, Reply, Abort
  <2> QED BY <2>1, EndNoFill
<1>2. CASE ReadDirty(c) \/ ReadCache(c) \/ FillBytes(c)
  <2>1. \E payload : Return(c, payload)
    BY <1>2 DEF ReadDirty, ReadCache, FillBytes
  <2> QED BY <2>1, ReturnNoFill
<1>3. CASE ReadNotDirty(c)
  <2>1. Goto(c, "read_entry", loc[c]) /\ NoNewFill(c, "read_entry", loc[c])
    BY <1>3 DEF ReadNotDirty, NoNewFill, FillLabels
  <2> QED BY <2>1
<1>4. CASE ReadEntry(c)
  <2> DEFINE l == [loc[c] EXCEPT !.entry = manifest.objects[Target(c)]]
  <2>1. Return(c, ZeroObject) \/ Goto(c, "read_cache", l)
    BY <1>4 DEF ReadEntry
  <2>2. l.entries = loc[c].entries
    BY <1>0, SameFills
  <2> HIDE DEF l
  <2>3. NoNewFill(c, "read_cache", l)
    BY <2>2 DEF NoNewFill, FillLabels
  <2> QED BY <2>1, <2>3, ReturnNoFill
<1>5. CASE FetchObject(c)
  <2> DEFINE l == [loc[c] EXCEPT !.encoded = channel[loc[c].entry.remote].body]
  <2>1. Goto(c, "fill", l) /\ pc[c] = "fetch"
    BY <1>5 DEF FetchObject
  <2>2. l.entries = loc[c].entries /\ l.cursor = loc[c].cursor /\ l.entry = loc[c].entry
    BY <1>0, SameFills
  <2> HIDE DEF l
  <2>3. NoNewFill(c, "fill", l)
    BY <2>1, <2>2 DEF NoNewFill, FillLabels
  <2> QED BY <2>1, <2>3
<1>6. CASE FillOpen(c)
  <2>1. Goto(c, "filling", loc[c]) /\ NoNewFill(c, "filling", loc[c])
    BY <1>6 DEF FillOpen, NoNewFill, FillLabels
  <2> QED BY <2>1
<1> QED BY <1>1, <1>2, <1>3, <1>4, <1>5, <1>6 DEF ReadStep

\* The steps of write_dirty_object.
LEMMA WriteNoFill ==
  ASSUME DeviceInv, NEW c \in Clients, WriteStep(c)
  PROVE  \E next, l : Goto(c, next, l) /\ NoNewFill(c, next, l)
<1>0. loc[c] \in Locals
  BY OneConnection
<1>1. CASE LimitReached(c)
  <2>1. Goto(c, "idle", NoLocals)
    BY <1>1 DEF LimitReached, Abort
  <2> QED BY <2>1, EndNoFill
<1>2. CASE CheckLimit(c) \/ WriteCacheOpen(c) \/ WriteCacheBytes(c)
  <2>1. PICK next \in {"generation", "write_bytes", "mark_dirty"} : Goto(c, next, loc[c])
    BY <1>2 DEF CheckLimit, WriteCacheOpen, WriteCacheBytes
  <2>2. NoNewFill(c, next, loc[c])
    BY DEF NoNewFill, FillLabels
  <2> QED BY <2>1, <2>2
<1>3. CASE NextGeneration(c)
  <2> DEFINE g == manifest.generation + 1
             l == [loc[c] EXCEPT !.generation = g,
                                 !.encoded = Encode(Target(c), g, Overlay(loc[c], loc[c].object))]
  <2>1. Goto(c, "write_cache", l)
    BY <1>3 DEF NextGeneration
  <2>2. l.entries = loc[c].entries
    BY <1>0, SameFills
  <2> HIDE DEF l
  <2>3. NoNewFill(c, "write_cache", l)
    BY <2>2 DEF NoNewFill, FillLabels
  <2> QED BY <2>1, <2>3
<1>4. CASE MarkDirty(c)
  <2> DEFINE l == Advance(loc[c])
  <2>1. Goto(c, LoopHead(l), l)
    BY <1>4 DEF MarkDirty
  <2>2. LoopHead(l) \in LoopLabels /\ l.entries = loc[c].entries
    BY <1>0, AdvanceGoes
  <2> HIDE DEF l
  <2>3. NoNewFill(c, LoopHead(l), l)
    BY <2>2 DEF NoNewFill, FillLabels, LoopLabels
  <2> QED BY <2>1, <2>3
<1> QED BY <1>1, <1>2, <1>3, <1>4 DEF WriteStep

\* The steps of prefetch_objects but the one that finds no file.
LEMMA PrefetchNoFill ==
  ASSUME DeviceInv, NEW c \in Clients, PrefetchStep(c), ~PrefetchWant(c)
  PROVE  \E next, l : Goto(c, next, l) /\ NoNewFill(c, next, l)
<1>0. loc[c] \in Locals
  BY OneConnection
<1> DEFINE Off == {"reply", "prefetch_lock", "prefetch_scan", "prefetch_fetch", "prefetch_fill",
                   "prefetch_filling"}
<1>1. \A x : /\ [loc[c] EXCEPT !.snapshot = x].entries = loc[c].entries
             /\ [loc[c] EXCEPT !.scan = x].entries = loc[c].entries
             /\ [loc[c] EXCEPT !.entries = x].entries = x
  BY <1>0, SameFills
<1>2. \E next \in Off : \E l : Goto(c, next, l) /\ l.entries \subseteq loc[c].entries
  <2>1. CASE PrefetchDirtyIds(c)
    <3> DEFINE l == [loc[c] EXCEPT !.snapshot = dirty_objects]
    <3>1. Goto(c, "prefetch_lock", l)
      BY <2>1 DEF PrefetchDirtyIds
    <3>2. l.entries = loc[c].entries
      BY <1>1
    <3> HIDE DEF l
    <3> QED BY <3>1, <3>2
  <2>2. CASE PrefetchLock(c)
    <3> DEFINE l == [loc[c] EXCEPT !.scan = Target(c)]
    <3>1. Goto(c, "prefetch_scan", l)
      BY <2>2 DEF PrefetchLock
    <3>2. l.entries = loc[c].entries
      BY <1>1
    <3> HIDE DEF l
    <3> QED BY <3>1, <3>2
  <2>3. CASE PrefetchSkip(c)
    <3> DEFINE l == [loc[c] EXCEPT !.scan = loc[c].scan + 1]
    <3>1. Goto(c, "prefetch_scan", l)
      BY <2>3 DEF PrefetchSkip
    <3>2. l.entries = loc[c].entries
      BY <1>1
    <3> HIDE DEF l
    <3> QED BY <3>1, <3>2
  <2>4. CASE PrefetchRejected(c) \/ PrefetchScanned(c)
    BY <2>4 DEF PrefetchRejected, PrefetchScanned
  <2>5. CASE PrefetchFetch(c)
    <3> DEFINE l == [loc[c] EXCEPT !.entries = Fetched(c)]
    <3>1. l.entries = Fetched(c) /\ Fetched(c) \subseteq loc[c].entries
      BY <1>1 DEF Fetched
    <3>2. Goto(c, "reply", l) \/ Goto(c, "prefetch_fill", l)
      BY <2>5 DEF PrefetchFetch
    <3> HIDE DEF l
    <3> QED BY <3>1, <3>2
  <2>6. CASE PrefetchFillOpen(c)
    BY <2>6 DEF PrefetchFillOpen
  <2>7. CASE PrefetchFillBytes(c)
    <3> DEFINE rest == loc[c].entries \ {NextFill(c)}
               l == [loc[c] EXCEPT !.entries = rest]
    <3>1. l.entries = rest /\ rest \subseteq loc[c].entries
      BY <1>1
    <3>2. Goto(c, "reply", l) \/ Goto(c, "prefetch_fill", l)
      BY <2>7 DEF PrefetchFillBytes
    <3> HIDE DEF l, rest
    <3> QED BY <3>1, <3>2
  <2> QED BY <2>1, <2>2, <2>3, <2>4, <2>5, <2>6, <2>7 DEF PrefetchStep
<1>3. Off \cap FillLabels = {}
  BY DEF FillLabels
<1> QED BY <1>2, <1>3 DEF NoNewFill

\* The steps of flush.
LEMMA FlushNoFill ==
  ASSUME DeviceInv, NEW c \in Clients, FlushStep(c)
  PROVE  \E next, l : Goto(c, next, l) /\ NoNewFill(c, next, l)
<1>0. loc[c] \in Locals
  BY OneConnection
<1>1. \A x : /\ [loc[c] EXCEPT !.snapshot = x].entries = loc[c].entries
             /\ [loc[c] EXCEPT !.superblock = x].entries = loc[c].entries
             /\ [loc[c] EXCEPT !.message = x].entries = loc[c].entries
  BY <1>0, SameFills
<1>2. CASE FlushRejected(c) \/ FlushMissingObject(c) \/ FlushClear(c)
  <2>1. Goto(c, "idle", NoLocals)
    BY <1>2 DEF FlushRejected, FlushMissingObject, FlushClear, Abort
  <2> QED BY <2>1, EndNoFill
<1> DEFINE On == {"idle"} \cup FlushLabels
<1>3. CASE ~(FlushRejected(c) \/ FlushMissingObject(c) \/ FlushClear(c))
  <2>1. \E next \in On : \E l : Goto(c, next, l) /\ l.entries = loc[c].entries
    <3> USE DEF FlushLabels, FlushingLabels, CommitLabels
    <3>1. CASE FlushList(c)
      BY <1>1, <3>1 DEF FlushList
    <3>2. CASE FlushLock(c) \/ FlushPin(c) \/ FlushBackup(c) \/ FlushReplace(c)
      BY <3>2 DEF FlushLock, FlushPin, FlushBackup, FlushReplace
    <3>3. CASE FlushObject(c)
      BY <1>1, <3>3 DEF FlushObject
    <3>4. CASE FlushManifest(c)
      <4> DEFINE ref == [message_id |-> Len(channel) + 1, generation |-> manifest.generation]
                 l == [loc[c] EXCEPT !.superblock = ForManifest(channel, pinned, ref)]
      <4>1. l.entries = loc[c].entries
        BY <1>1
      <4>2. Goto(c, "flush_superblock", l) \/ Goto(c, "flush_backup", l)
        BY <3>4 DEF FlushManifest
      <4> HIDE DEF l
      <4> QED BY <4>1, <4>2
    <3>5. CASE FlushSuperblock(c)
      <4> DEFINE l == [loc[c] EXCEPT !.message = Len(channel) + 1]
      <4>1. l.entries = loc[c].entries
        BY <1>1
      <4>2. Goto(c, "flush_pin", l)
        BY <3>5 DEF FlushSuperblock
      <4> HIDE DEF l
      <4> QED BY <4>1, <4>2
    <3> QED BY <1>3, <3>1, <3>2, <3>3, <3>4, <3>5 DEF FlushStep
  <2>2. On \cap FillLabels = {}
    BY DEF FillLabels, FlushLabels, FlushingLabels, CommitLabels
  <2> QED BY <2>1, <2>2 DEF NoNewFill
<1> QED BY <1>2, <1>3

\* Failures.
LEMMA FaultNoFill ==
  ASSUME NEW c \in Clients, Fault(c)
  PROVE  \E next, l : Goto(c, next, l) /\ NoNewFill(c, next, l)
<1>1. Goto(c, "idle", NoLocals) \/ Goto(c, "reply", loc[c])
  BY DEF Fault, SendFails, PinFails, FetchFails, QueryFails, WriteCacheFails,
     PrefetchQueryFails, PrefetchFillFails, MarkDirtyFails, FlushClearFails, Abort
<1>2. NoNewFill(c, "reply", loc[c])
  BY DEF NoNewFill, FillLabels
<1> QED BY <1>1, <1>2, EndNoFill

\* A file that is not there is no row's.
LEMMA AbsentKey ==
  ASSUME DeviceInv, NEW w, ReadableInv(w), NEW o, NEW g, File(o, g) = None
  PROVE  <<o, g>> \notin RowKeys(dirty_objects)
<1>1. <<o, g>> \notin DOMAIN files
  <2>1. \A k \in DOMAIN files : files[k] # None
    BY FormatAssumption DEF DeviceInv, VariablesOK
  <2> QED BY <2>1 DEF File
<1>2. \A k \in RowKeys(dirty_objects) : k \in DOMAIN files
  BY DEF RowKeys, ReadableInv, RowsOK
<1> QED BY <1>1, <1>2

\* read_object looks for a file and does not find it.
LEMMA MissApart ==
  ASSUME DeviceInv, NEW w, ReadableInv(w), FillsApart, NEW c \in Clients, ReadCache(c),
         Goto(c, "fetch", loc[c])
  PROVE  FillsApart'
<1>1. dirty_objects' = dirty_objects /\ pc[c] = "read_cache"
  BY DEF ReadCache, local
<1>2. File(Target(c), loc[c].entry.generation) = None
  <2>1. pc'[c] = "fetch"
    BY GotoSets
  <2>2. ASSUME NEW payload, Return(c, payload) PROVE FALSE
    <3>1. PICK next \in LoopLabels : \E l : Goto(c, next, l)
      BY <2>2, ReturnGoes
    <3>2. pc'[c] = next
      BY <3>1, GotoSets
    <3> QED BY <2>1, <3>2 DEF LoopLabels
  <2> QED BY <2>2 DEF ReadCache
<1>3. <<Target(c), loc[c].entry.generation>> \notin RowKeys(dirty_objects)
  BY <1>2, AbsentKey
<1>4. FillKeys("fetch", loc[c]) \subseteq
        FillKeys(pc[c], loc[c]) \cup {<<Target(c), loc[c].entry.generation>>}
  BY DEF FillKeys, FillLabels, Target
<1>5. FillKeys(pc[c], loc[c]) \cap RowKeys(dirty_objects) = {}
  BY DEF FillsApart
<1> QED BY <1>1, <1>3, <1>4, <1>5, ApartKept

\* So does prefetch_objects.
LEMMA WantApart ==
  ASSUME DeviceInv, NEW w, ReadableInv(w), FillsApart, NEW c \in Clients, PrefetchWant(c)
  PROVE  FillsApart'
<1> DEFINE o == loc[c].scan
           entry == manifest.objects[o]
           e == [object_id |-> o, entry |-> entry]
           l == [loc[c] EXCEPT !.scan = o + 1, !.entries = @ \cup {e}]
<1>1. /\ Goto(c, "prefetch_scan", l) /\ dirty_objects' = dirty_objects
      /\ File(o, entry.generation) = None
  BY DEF PrefetchWant, local
<1>2. l.entries = loc[c].entries \cup {e}
  BY OneConnection DEF Locals
<1>3. e.object_id = o /\ e.entry.generation = entry.generation
  OBVIOUS
<1> HIDE DEF l, e, entry, o
<1>4. <<o, entry.generation>> \notin RowKeys(dirty_objects)
  BY <1>1, AbsentKey
<1>5. FillKeys("prefetch_scan", l)
        = {<<x.object_id, x.entry.generation>> : x \in loc[c].entries \cup {e}}
  BY <1>2 DEF FillKeys, FillLabels
<1>6. FillKeys("prefetch_scan", l)
        \subseteq FillKeys(pc[c], loc[c]) \cup {<<o, entry.generation>>}
  BY <1>3, <1>5 DEF FillKeys
<1>7. FillKeys(pc[c], loc[c]) \cap RowKeys(dirty_objects) = {}
  BY DEF FillsApart
<1> QED BY <1>1, <1>4, <1>6, <1>7, ApartKept

\* A new row is of a generation that no handler has an entry of.
LEMMA MarkApart ==
  ASSUME DeviceInv, NEW w, ReadableInv(w), FillsApart, NEW c \in Clients, MarkDirty(c)
  PROVE  FillsApart'
<1> DEFINE o == Target(c)
           g == loc[c].generation
           row == DirtyRow(c)
<1>1. dirty_objects' = [dirty_objects EXCEPT ![o] = row] /\ pc[c] = "mark_dirty"
  BY DEF MarkDirty
<1>2. /\ g = manifest.generation + 1 /\ row.generation = g /\ manifest.generation \in Nat
      /\ dirty_objects \in Rows
  BY <1>1 DEF ReadableInv, WorkOK, EncodedLabels, DirtyRow, DeviceInv, VariablesOK, Manifest
<1> HIDE DEF o, g, row
<1>3. \A k \in RowKeys(dirty_objects') : k \in RowKeys(dirty_objects) \/ k[2] = g
  <2>1. ASSUME NEW p \in DirtyIds(dirty_objects')
        PROVE  <<p, dirty_objects'[p].generation>> \in RowKeys(dirty_objects)
                 \/ dirty_objects'[p].generation = g
    <3>1. p \in Objects /\ dirty_objects'[p] # None
      BY DEF DirtyIds
    <3>2. CASE p = o
      BY <1>1, <1>2, <3>1, <3>2 DEF Rows
    <3>3. CASE p # o
      BY <1>1, <1>2, <3>1, <3>3 DEF Rows, RowKeys, DirtyIds
    <3> QED BY <3>2, <3>3
  <2> QED BY <2>1 DEF RowKeys
<1>4. ASSUME NEW d \in Clients, NEW k \in FillKeys(pc[d], loc[d])
      PROVE  k[2] \in Nat /\ k[2] <= manifest.generation
  <2>1. \E x \in CleanClaims : k[2] = x[2]
    <3>1. CASE \E e \in loc[d].entries : k = <<e.object_id, e.entry.generation>>
      <4>1. PICK e \in loc[d].entries : k = <<e.object_id, e.entry.generation>>
        BY <3>1
      <4>2. Claim(e.object_id, e.entry) \in CleanClaims
        BY EntryClaim
      <4>3. Claim(e.object_id, e.entry)[2] = k[2]
        BY <4>1 DEF Claim
      <4> QED BY <4>2, <4>3
    <3>2. CASE pc[d] \in FillLabels /\ k = <<ObjectOf(loc[d].cursor), loc[d].entry.generation>>
      <4>1. pc[d] \in LookupLabels
        BY <3>2 DEF FillLabels, LookupLabels
      <4> QED BY <3>2, <4>1, LookupClaim DEF Claim
    <3> QED BY <1>4, <3>1, <3>2 DEF FillKeys
  <2> QED BY <2>1, ClaimsTyped DEF ReadableInv, CleanBelow
<1>5. PICK next, l : Goto(c, next, l) /\ NoNewFill(c, next, l)
  BY WriteNoFill DEF WriteStep
<1>6. FillKeys(next, l) \subseteq FillKeys(pc[c], loc[c])
  BY <1>5 DEF FillKeys, NoNewFill
<1>7. ASSUME NEW d \in Clients
      PROVE  FillKeys(pc'[d], loc'[d]) \subseteq FillKeys(pc[d], loc[d])
  BY <1>5, <1>6, GotoSets, NoKeys
<1>8. ASSUME NEW d \in Clients, NEW k \in FillKeys(pc[d], loc[d])
      PROVE  k \notin RowKeys(dirty_objects')
  <2>1. k \notin RowKeys(dirty_objects)
    BY <1>8 DEF FillsApart
  <2>2. k[2] # g
    BY <1>2, <1>4, <1>8
  <2> QED BY <1>3, <2>1, <2>2
<1>9. \A d \in Clients : FillKeys(pc'[d], loc'[d]) \cap RowKeys(dirty_objects') = {}
  BY <1>7, <1>8
<1> QED BY <1>9 DEF FillsApart

\* One step keeps the files apart.
LEMMA NextApart ==
  ASSUME NEW w
  PROVE  DeviceInv /\ ReadableInv(w) /\ FillsApart /\ Gone("store_faults") /\ [Next]_vars
           => FillsApart'
<1> SUFFICES ASSUME DeviceInv, ReadableInv(w), FillsApart, Gone("store_faults"), [Next]_vars
             PROVE  FillsApart'
  OBVIOUS
<1>1. ASSUME NEW c \in Clients, Begin(c) \/ Step(c) \/ Fault(c)
      PROVE  FillsApart'
  <2>1. CASE MarkDirty(c)
    BY <2>1, MarkApart
  <2>2. CASE PrefetchWant(c)
    BY <2>2, WantApart
  <2>3. CASE ReadStep(c) /\ pc[c] = "read_cache" /\ Goto(c, "fetch", loc[c])
    <3>1. ReadCache(c) \/ ReadCacheRejected(c)
      BY <2>3 DEF ReadStep, ReadDirty, ReadDirtyRejected, ReadNotDirty, ReadEntry, ReadOutOfRange,
         FetchObject, FillOpen, FillBytes, Reply
    <3>2. ~ReadCacheRejected(c)
      <4>1. pc'[c] = "fetch"
        BY <2>3, GotoSets
      <4>2. ReadCacheRejected(c) => Goto(c, "idle", NoLocals)
        BY DEF ReadCacheRejected, Abort
      <4> QED BY <4>1, <4>2, GotoSets
    <3> QED BY <2>3, <3>1, <3>2, MissApart
  <2>4. CASE ~ \/ MarkDirty(c) \/ PrefetchWant(c)
               \/ (ReadStep(c) /\ pc[c] = "read_cache" /\ Goto(c, "fetch", loc[c]))
    <3>1. \E next, l : Goto(c, next, l) /\ NoNewFill(c, next, l)
      BY <1>1, <2>4, BeginNoFill, ReadNoFill, WriteNoFill, PrefetchNoFill, FlushNoFill,
         FaultNoFill DEF Step
    <3>2. dirty_objects' = dirty_objects \/ dirty_objects' = NoRows
      <4>1. CASE FlushLock(c) \/ FlushObject(c) \/ FlushMissingObject(c) \/ FlushManifest(c)
                 \/ FlushSuperblock(c) \/ FlushBackup(c) \/ FlushClear(c) \/ SendFails(c)
        BY <4>1 DEF FlushLock, FlushObject, FlushMissingObject, FlushManifest, FlushSuperblock,
           FlushBackup, FlushClear, SendFails, local
      <4>2. ~MarkDirtyFails(c) /\ ~FlushClearFails(c)
        BY DEF MarkDirtyFails, FlushClearFails, Spend, Gone
      <4> QED BY <1>1, <2>4, <4>1, <4>2, QuietActions DEF Step, WriteStep, FlushStep, Fault
    <3>3. RowKeys(dirty_objects') \subseteq RowKeys(dirty_objects)
      BY <3>2, NoKeys
    <3> QED BY <3>1, <3>3, ApartQuiet
  <2> QED BY <2>1, <2>2, <2>3, <2>4
<1>2. CASE Crash \/ RestartElsewhere \/ RestartOnPrevious
  <2>1. \A c \in Clients : pc'[c] = "idle" /\ loc'[c] = NoLocals
    BY <1>2 DEF Crash, RestartElsewhere, RestartOnPrevious, RestartsElsewhere, Restarted
  <2>2. \A c \in Clients : FillKeys(pc'[c], loc'[c]) = {}
    BY <2>1, NoKeys
  <2> QED BY <2>2 DEF FillsApart
<1>3. CASE UNCHANGED vars
  BY <1>3 DEF vars, local, FillsApart
<1>4. CASE Wait
  BY <1>3, <1>4 DEF Wait
<1> QED BY <1>1, <1>2, <1>3, <1>4 DEF Next

\* So the file a flush reads next is whole, although it takes no lock to read it.
LEMMA FlushFinds ==
  ASSUME NEW w
  PROVE  DeviceInv /\ ReadableInv(w) /\ FillsApart
           => FlushFindsFiles
<1> SUFFICES ASSUME DeviceInv, ReadableInv(w), FillsApart, NEW c \in Clients,
                    pc[c] = "flush_object"
             PROVE  FlushReadable(c)
  BY DEF FlushFindsFiles
<1> DEFINE o == FlushTarget(c)
           row == dirty_objects[o]
           key == <<o, row.generation>>
<1>1. o \in Objects /\ loc[c].snapshot[o] = row /\ o \in DirtyIds(dirty_objects) /\ row \in Row
  <2>1. /\ o \in DirtyIds(loc[c].snapshot) /\ o \in Objects /\ loc[c].snapshot[o] \in Row
    BY FlushTargetOK
  <2>2. loc[c].snapshot[o] \in {None, row}
    BY <2>1 DEF ReadableInv, SnapshotInv, SnapshotOf
  <2>3. loc[c].snapshot[o] # None
    BY <2>1 DEF DirtyIds
  <2> QED BY <2>1, <2>2, <2>3 DEF DirtyIds
<1>2. key \in DOMAIN files /\ row.sha256.object_id = o /\ row.sha256.generation = row.generation
  BY <1>1 DEF ReadableInv, RowsOK
<1>3. key \in RowKeys(dirty_objects)
  BY <1>1 DEF RowKeys
<1> HIDE DEF o
<1>4. <<o, row.generation, row.sha256>> \in Claims
  BY <1>1 DEF Claims, RowClaims, Claim
<1>5. ~Busy(key)
  <2> SUFFICES ASSUME NEW d \in Clients, pc[d] \in WorkLabels, FileOf(pc[d], loc[d]) = key
               PROVE  FALSE
    BY DEF Busy
  <2>1. key \notin FillKeys(pc[d], loc[d])
    BY <1>3 DEF FillsApart
  <2>2. CASE pc[d] = "filling"
    BY <2>1, <2>2 DEF FileOf, FillKeys, FillLabels
  <2>3. CASE pc[d] = "prefetch_filling"
    <3>1. FirstOf(loc[d].entries) \in loc[d].entries
      BY <2>3, NextFillOK DEF NextFill, FirstOf
    <3>2. key = <<FirstOf(loc[d].entries).object_id, FirstOf(loc[d].entries).entry.generation>>
      BY <2>3 DEF FileOf
    <3> QED BY <2>1, <3>1, <3>2 DEF FillKeys
  <2>4. CASE pc[d] \in {"write_bytes", "mark_dirty"}
    <3>1. loc[d].op = "write"
      BY <2>4, OneConnection DEF ConnectionOK
    <3>2. d = w
      BY <3>1 DEF ReadableInv, SnapshotInv, RoleOK
    <3>3. c = w
      BY DEF ReadableInv, SnapshotInv, RoleOK, FlushLabels, FlushingLabels
    <3> QED BY <2>4, <3>2, <3>3
  <2> QED BY <2>2, <2>3, <2>4 DEF WorkLabels
<1>6. files[key] = row.sha256
  BY <1>2, <1>4, <1>5 DEF ReadableInv, FilesAgree
<1>7. row.sha256 # Torn
  BY <1>1, FormatAssumption DEF Row
<1> HIDE DEF row
<1> QED BY <1>1, <1>2, <1>6, <1>7 DEF FlushReadable, Verifies, File, o

\* flush reads its cache files without the store mutex, while other connections fill the
\* cache: it never finds one missing or half written.  With one connection that writes, a
\* store that does not fail and a process that does not die in the middle of a file, "dirty
\* cache checksum mismatch" is never its answer.
THEOREM FlushReadsWholeFiles ==
  ASSUME NEW w, OneWriter(w), MaxStoreFaults = 0
  PROVE  Spec /\ [][~TornCrash]_vars => []FlushFindsFiles
<1>1. Init => Gone("store_faults")
  BY DEF Init, Gone
<1>2. Init => FillsApart
  BY NoKeys DEF Init, FillsApart
<1>3. DeviceInv /\ ReadableInv(w) /\ FillsApart /\ Gone("store_faults") /\ [Next]_vars
        => FillsApart'
  BY NextApart
<1>4. DeviceInv /\ ReadableInv(w) /\ FillsApart => FlushFindsFiles
  BY FlushFinds
<1>5. Spec /\ [][~TornCrash]_vars => []ReadableInv(w)
  BY ReadableInvariance
<1>6. DeviceInv /\ Gone("store_faults") /\ [Next]_vars => Gone("store_faults")'
  BY GoneForGood
<1> QED BY <1>1, <1>2, <1>3, <1>4, <1>5, <1>6, Invariance, PTL DEF Spec

\* On such a device a flush finds what it is to upload, if the manifest has every object.
LEMMA FlushesGoWell ==
  ASSUME Objects \subseteq ManifestObjects
  PROVE  DeviceInv /\ FlushFindsFiles => FlushesWell
<1> SUFFICES ASSUME DeviceInv, FlushFindsFiles, NEW c \in Clients
             PROVE  ~FlushRejected(c) /\ ~FlushMissingObject(c)
  BY DEF FlushesWell
<1>1. ~FlushRejected(c)
  BY DEF FlushRejected, FlushFindsFiles
<1>2. pc[c] = "flush_object" => FlushTarget(c) \in ManifestObjects
  BY FlushTargetOK
<1> QED BY <1>1, <1>2 DEF FlushMissingObject

-----------------------------------------------------------------------------
(* Crashes *)

\* The last process to die may die in the middle of a cache file, the others do not.
TearsLast == TornCrash => Gone("crashes")'

\* Until it does, flush finds its files whole.
SoundUntilTorn(w) == Gone("crashes") \/ (ReadableInv(w) /\ FillsApart)

\* Every step keeps that.
LEMMA NextSound ==
  ASSUME NEW w
  PROVE  DeviceInv /\ SnapshotInv(w)' /\ Gone("store_faults") /\ SoundUntilTorn(w)
           /\ [Next]_vars /\ [TearsLast]_vars => SoundUntilTorn(w)'
<1> SUFFICES ASSUME DeviceInv, SnapshotInv(w)', Gone("store_faults"), SoundUntilTorn(w),
                    [Next]_vars, [TearsLast]_vars
             PROVE  SoundUntilTorn(w)'
  OBVIOUS
<1>1. CASE Gone("crashes")
  <2>1. Gone("crashes")'
    BY <1>1, GoneForGood
  <2> QED BY <2>1 DEF SoundUntilTorn
<1>2. CASE ReadableInv(w) /\ FillsApart /\ [~TornCrash]_vars
  <2>1. ReadableInv(w)'
    BY <1>2, NextReadable
  <2>2. FillsApart'
    BY <1>2, NextApart
  <2> QED BY <2>1, <2>2 DEF SoundUntilTorn
<1>3. CASE TornCrash /\ ~UNCHANGED vars
  BY <1>3 DEF TearsLast, SoundUntilTorn
<1> QED BY <1>1, <1>2, <1>3 DEF SoundUntilTorn

\* And then its flushes go well.
LEMMA SoundFlushes ==
  ASSUME NEW w, Objects \subseteq ManifestObjects
  PROVE  DeviceInv /\ SoundUntilTorn(w) => (budget.crashes > 0 => FlushesWell)
<1> SUFFICES ASSUME DeviceInv, SoundUntilTorn(w), budget.crashes > 0
             PROVE  FlushesWell
  OBVIOUS
<1>1. ~Gone("crashes")
  BY DEF Gone
<1>2. FlushFindsFiles
  BY <1>1, FlushFinds DEF SoundUntilTorn
<1> QED BY <1>2, FlushesGoWell

\* A process that dies leaves a local manifest that the next flush can count on from, at
\* whatever moment it dies and however often, where no call fails besides: what
\* RestartsCountOn asks of a device is then a fact, and so is ScanReaches.  One connection
\* writes, the manifest has every object, the flushes are short enough for the window, and a
\* process that dies in the middle of a cache file is the last to die.  (After it, a flush
\* that needs the torn file fails, and the generations of the rows run ahead.)
THEOREM RestartsDoCountOn ==
  ASSUME NEW w, OneWriter(w), MaxFaults = 0, MaxStoreFaults = 0, Objects \subseteq ManifestObjects
  PROVE  ScanSpec /\ []ShortFlushes /\ [][TearsLast]_vars => []ScanReaches /\ RestartsCountOn
<1>1. Init /\ exposed = 0 /\ DeviceInv => DurableInv(w) /\ ExposedInv(w) /\ SteadyInv(w)
  BY InitDurable, InitExposed, InitSteady
<1>2. Init /\ SnapshotInv(w) => SoundUntilTorn(w)
  BY InitReadable, NoKeys DEF Init, FillsApart, SoundUntilTorn
<1>3. DeviceInv /\ ExposedInv(w) /\ ShortFlushes => ScanReaches
  BY ExposedReaches
<1>4. DeviceInv /\ SteadyInv(w) => [RestartsWell]_vars
  BY SteadyRestarts
<1>5. DeviceInv /\ DurableInv(w) /\ ScanReaches /\ [Next]_vars /\ [RestartsWell]_vars
        => DurableInv(w)'
  BY NextDurable
<1>6. DeviceInv /\ DeviceInv' /\ DurableInv(w) /\ ExposedInv(w) /\ [ScanNext]_<<vars, exposed>>
        => ExposedInv(w)'
  BY NextExposed
<1>7. DeviceInv /\ SoundUntilTorn(w) => (budget.crashes > 0 => FlushesWell)
  BY SoundFlushes
<1>8. DeviceInv /\ DeviceInv' /\ DurableInv(w) /\ DurableInv(w)' /\ SteadyInv(w) /\ ScanReaches
        /\ (budget.crashes > 0 => FlushesWell) /\ [Next]_vars => SteadyInv(w)'
  BY NextSteady
<1>9. DeviceInv /\ SnapshotInv(w)' /\ SteadyInv(w) /\ SoundUntilTorn(w)
        /\ [Next]_vars /\ [TearsLast]_vars => SoundUntilTorn(w)'
  BY NextSound DEF SteadyInv
<1>10. [ScanNext]_<<vars, exposed>> => [Next]_vars
  BY DEF ScanNext
<1>11. Spec => []SnapshotInv(w)
  BY SnapshotInvariance
<1> QED BY <1>1, <1>2, <1>3, <1>4, <1>5, <1>6, <1>7, <1>8, <1>9, <1>10, <1>11, Invariance,
           ScanIsSpec, PTL DEF ScanSpec, ScanInit, RestartsCountOn

\* So crashes, any number of them, lose nothing that was flushed, wherever they strike and
\* whatever machine takes over: with nothing dirty the channel has what the device has,
\* `tgdrive gc` deletes nothing that a recovery reads, and the device is the abstract disk.
THEOREM CrashesLoseNothing ==
  ASSUME NEW w, OneWriter(w), MaxFaults = 0, MaxStoreFaults = 0, Objects \subseteq ManifestObjects
  PROVE  ScanSpec /\ []ShortFlushes /\ [][TearsLast]_vars
           => /\ []CleanMeansDurable /\ []GcSafe
              /\ ImplementsDisk /\ FlushKeepsContent /\ RecoveryNeverGoesBack
BY RestartsDoCountOn, LosesNothing, ScanIsSpec, PTL
=============================================================================
