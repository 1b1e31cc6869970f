---------------------------- MODULE BlockDevice -----------------------------
(***************************************************************************)
(* The block device of crates/tgdrive-core/src/block.rs, over the local    *)
(* store of cache.rs and the Telegram channel of client.rs, driven by the  *)
(* connections of crates/tgdrive-nbd/src/server.rs (one request at a time  *)
(* on each, any number of connections).                                    *)
(*                                                                         *)
(* An action is the stretch of a handler between two points where another  *)
(* task may run: an await of the store mutex, of the manifest mutex, or of *)
(* the network.  Writing a cache file is two steps (truncate, then fill),  *)
(* because flush reads the files without the store mutex and because the   *)
(* process may die in between.                                             *)
(***************************************************************************)
EXTENDS Format, FiniteSetsExt

CONSTANTS
  Clients,              \* NBD connections
  Readers, Writers, Flushers,   \* which of them issue which requests
  ReadRequests,         \* set of [offset, len]
  WriteRequests,        \* set of [offset, bytes]
  max_dirty_objects,    \* BlockDevice::new: 4096
  read_ahead_objects,   \* BlockDevice::new: 4
  scan_limit,           \* recover_superblock_text(200)
  FormatModes,          \* how the device was formatted: "remote", "local_only"
  MaxWrites, MaxFlushes,                \* bounds on the requests explored
  MaxFaults, MaxStoreFaults,            \* bounds on the calls that fail
  MaxCrashes, MaxMoves                  \* bounds on process and machine losses

\* A row of the table dirty_objects: the generation it was written under and the
\* checksum of its cache file.
Row == [generation : Nat, sha256 : Encoded]

ASSUME DeviceAssumption ==
  /\ None \notin Clients /\ None \notin Row
  /\ Readers \subseteq Clients /\ Writers \subseteq Clients /\ Flushers \subseteq Clients
  /\ IsFiniteSet(Writers)
  /\ ReadRequests \subseteq [offset : Nat, len : Nat]
  /\ \A r \in ReadRequests : InBounds(r.offset, r.len)
  /\ WriteRequests \subseteq [offset : Nat, bytes : Seq(Value)]
  /\ \A w \in WriteRequests : InBounds(w.offset, Len(w.bytes))
  /\ max_dirty_objects \in Nat /\ read_ahead_objects \in Nat /\ scan_limit \in Nat
  /\ FormatModes \subseteq {"remote", "local_only"}
  /\ MaxWrites \in Nat /\ MaxFlushes \in Nat
  /\ MaxFaults \in Nat /\ MaxStoreFaults \in Nat /\ MaxCrashes \in Nat /\ MaxMoves \in Nat

VARIABLES
  \* LocalStore: survives the process, not the machine
  dirty_objects,   \* table dirty_objects: per object, its row or None
  files,           \* cache_dir/objects: <<object_id, generation>> -> bytes
  manifest_state,  \* table manifest_state: the manifest of the last flush
  \* the daemon's memory
  manifest, manifest_lock, store_lock,
  \* the Telegram channel
  channel, pinned,
  \* the connections: what each is doing, and the locals of its handler
  pc, loc,
  \* what is left of the bounds
  budget

local == <<dirty_objects, files, manifest_state>>
remote == <<channel, pinned>>
locks == <<manifest_lock, store_lock>>
vars == <<local, manifest, locks, remote, pc, loc, budget>>

-----------------------------------------------------------------------------
NoRows == [o \in Objects |-> None]

NoEntry == [generation |-> 0, remote |-> 0, sha256 |-> None, zero |-> TRUE]

\* The locals of a handler: op, cursor, remaining, bytes, out and object belong
\* to read_at and write_at; entry and encoded to read_object; generation to
\* write_dirty_object; snapshot to flush and prefetch_objects; scan and entries
\* to prefetch_objects; superblock and message, the id of the superblock just sent,
\* to commit_manifest.
NoLocals ==
  [op |-> "none", cursor |-> 0, remaining |-> 0, bytes |-> <<>>, out |-> <<>>,
   object |-> ZeroObject, entry |-> NoEntry, encoded |-> None, generation |-> 0,
   snapshot |-> NoRows, scan |-> 0, entries |-> {}, superblock |-> None,
   message |-> 0]

\* The bytes of a cache file, None when it does not exist.
File(o, g) == IF <<o, g>> \in DOMAIN files THEN files[<<o, g>>] ELSE None

\* fs::write, one half or the whole of it.
WithFile(o, g, bytes) ==
  [k \in DOMAIN files \cup {<<o, g>>} |-> IF k = <<o, g>> THEN bytes ELSE files[k]]

DirtyIds(rows) == {o \in Objects : rows[o] # None}

Target(c) == ObjectOf(loc[c].cursor)

\* What is on the channel after `tgdrive format` without --local-only: the
\* manifest, the pinned superblock and its backup.
FormattedChannel ==
  LET ref == [message_id |-> 1, generation |-> 0]
      sb  == SuperblockMessage([device_size |-> formatted_size, current |-> ref,
                                previous |-> None])
  IN  <<ManifestMessage(EmptyManifest), sb, sb>>

Init ==
  /\ dirty_objects = NoRows
  /\ files = [k \in {} |-> None]
  /\ manifest_state = EmptyManifest
  /\ manifest = EmptyManifest
  /\ manifest_lock = None
  /\ store_lock = None
  /\ \/ /\ "remote" \in FormatModes
        /\ channel = FormattedChannel
        /\ pinned = 2
     \/ /\ "local_only" \in FormatModes
        /\ channel = <<>>
        /\ pinned = 0
  /\ pc = [c \in Clients |-> "idle"]
  /\ loc = [c \in Clients |-> NoLocals]
  /\ budget = [writes |-> MaxWrites, flushes |-> MaxFlushes, faults |-> MaxFaults,
               store_faults |-> MaxStoreFaults, crashes |-> MaxCrashes,
               moves |-> MaxMoves]

-----------------------------------------------------------------------------
(* Control helpers. *)

\* Connection c goes on at step next with locals l.
Goto(c, next, l) ==
  /\ pc' = [pc EXCEPT ![c] = next]
  /\ loc' = [loc EXCEPT ![c] = IF next = "idle" THEN NoLocals ELSE l]

\* The handler returns an error: its guards are dropped, handle_client leaves its
\* loop and the connection closes; a new one takes its place.
Abort(c) ==
  /\ Goto(c, "idle", NoLocals)
  /\ manifest_lock' = IF manifest_lock = c THEN None ELSE manifest_lock
  /\ store_lock' = IF store_lock = c THEN None ELSE store_lock

Spend(what) ==
  /\ budget[what] > 0
  /\ budget' = [budget EXCEPT ![what] = @ - 1]

\* The head of the loops of read_at and write_at, and what follows them.
LoopHead(l) ==
  IF l.remaining > 0
  THEN IF l.op = "write" /\ FullObject(l.cursor, l.remaining) THEN "limit" ELSE "read_object"
  ELSE IF l.op = "read"
       THEN IF l.cursor < device_size /\ OffsetIn(l.cursor) = 0 THEN "prefetch" ELSE "reply"
       ELSE "idle"

\* Mutant: the loop does not advance.
StandsStill(l) ==
  [l EXCEPT !.object = ZeroObject, !.entry = NoEntry, !.encoded = None, !.generation = 0]

\* remaining -= take; cursor += take.
Advance(l) ==
  [l EXCEPT !.cursor = @ + Take(l.cursor, l.remaining),
            !.remaining = @ - Take(l.cursor, l.remaining),
            !.object = ZeroObject, !.entry = NoEntry, !.encoded = None,
            !.generation = 0]

\* read_at: out.extend_from_slice.
CopyOut(l, payload) ==
  l.out \o [i \in 1 .. Take(l.cursor, l.remaining) |-> payload[OffsetIn(l.cursor) + i - 1]]

\* Mutant: every object gets the start of the request's bytes.
OverlayFromStart(l, payload) ==
  LET at == OffsetIn(l.cursor)
  IN  [i \in 0 .. object_size - 1 |->
         IF at <= i /\ i < at + Take(l.cursor, l.remaining) THEN l.bytes[i - at + 1] ELSE payload[i]]

\* write_at: copy_from_slice, input_offset being how much was taken already.
Overlay(l, payload) ==
  LET at == OffsetIn(l.cursor)
      input_offset == Len(l.bytes) - l.remaining
  IN  [i \in 0 .. object_size - 1 |->
         IF at <= i /\ i < at + Take(l.cursor, l.remaining)
         THEN l.bytes[input_offset + (i - at) + 1]
         ELSE payload[i]]

\* read_object returned payload to read_at, or to write_at.
Return(c, payload) ==
  LET l == loc[c]
  IN  IF l.op = "read"
      THEN LET next == Advance([l EXCEPT !.out = CopyOut(l, payload)])
           IN  Goto(c, LoopHead(next), next)
      ELSE Goto(c, "limit", [l EXCEPT !.object = payload, !.entry = NoEntry,
                                      !.encoded = None])

-----------------------------------------------------------------------------
(* A request arrives on an idle connection. *)

BeginRead(c) ==
  /\ pc[c] = "idle" /\ c \in Readers
  /\ \E r \in ReadRequests :
       LET l == [NoLocals EXCEPT !.op = "read", !.cursor = r.offset, !.remaining = r.len]
       IN  Goto(c, LoopHead(l), l)
  /\ UNCHANGED <<local, manifest, locks, remote, budget>>

BeginWrite(c) ==
  /\ pc[c] = "idle" /\ c \in Writers
  /\ Spend("writes")
  /\ \E w \in WriteRequests :
       LET l == [NoLocals EXCEPT !.op = "write", !.cursor = w.offset, !.bytes = w.bytes,
                                 !.remaining = Len(w.bytes)]
       IN  Goto(c, LoopHead(l), l)
  /\ UNCHANGED <<local, manifest, locks, remote>>

\* CMD_FLUSH, or the flush of CMD_DISC.
BeginFlush(c) ==
  /\ pc[c] = "idle" /\ c \in Flushers
  /\ Spend("flushes")
  /\ Goto(c, "flush_list", [NoLocals EXCEPT !.op = "flush"])
  /\ UNCHANGED <<local, manifest, locks, remote>>

Reply(c) ==
  /\ pc[c] = "reply"
  /\ Goto(c, "idle", NoLocals)
  /\ UNCHANGED <<local, manifest, locks, remote, budget>>

-----------------------------------------------------------------------------
(* read_object *)

\* A dirty object is served from its cache file, under the store mutex.
ReadDirty(c) ==
  LET o == Target(c)  row == dirty_objects[o]
  IN  /\ pc[c] = "read_object" /\ store_lock = None
      /\ row # None
      /\ Verifies(File(o, row.generation), o, row.generation, row.sha256)
      /\ Return(c, row.sha256.payload)
      /\ UNCHANGED <<local, manifest, locks, remote, budget>>

\* "dirty cache checksum mismatch", or the file is missing.
ReadDirtyRejected(c) ==
  LET o == Target(c)  row == dirty_objects[o]
  IN  /\ pc[c] = "read_object" /\ store_lock = None
      /\ row # None
      /\ ~Verifies(File(o, row.generation), o, row.generation, row.sha256)
      /\ Abort(c)
      /\ UNCHANGED <<local, manifest, remote, budget>>

\* Mutant: the dirty rows are not consulted.
ReadIgnoresDirty(c) ==
  /\ pc[c] = "read_object" /\ store_lock = None
  /\ Goto(c, "read_entry", loc[c])
  /\ UNCHANGED <<local, manifest, locks, remote, budget>>

ReadNotDirty(c) ==
  /\ pc[c] = "read_object" /\ store_lock = None
  /\ dirty_objects[Target(c)] = None
  /\ Goto(c, "read_entry", loc[c])
  /\ UNCHANGED <<local, manifest, locks, remote, budget>>

\* The manifest entry, copied under the manifest mutex.
ReadEntry(c) ==
  /\ pc[c] = "read_entry" /\ manifest_lock = None
  /\ Target(c) \in ManifestObjects
  /\ LET entry == manifest.objects[Target(c)]
     IN  \/ entry.zero /\ Return(c, ZeroObject)
         \/ ~entry.zero /\ Goto(c, "read_cache", [loc[c] EXCEPT !.entry = entry])
  /\ UNCHANGED <<local, manifest, locks, remote, budget>>

\* "object out of manifest range".
ReadOutOfRange(c) ==
  /\ pc[c] = "read_entry" /\ manifest_lock = None
  /\ Target(c) \notin ManifestObjects
  /\ Abort(c)
  /\ UNCHANGED <<local, manifest, remote, budget>>

ReadCache(c) ==
  LET o == Target(c)  entry == loc[c].entry  bytes == File(o, entry.generation)
  IN  /\ pc[c] = "read_cache" /\ store_lock = None
      /\ \/ bytes = None /\ Goto(c, "fetch", loc[c])
         \/ bytes = entry.sha256 /\ Return(c, bytes.payload)
      /\ UNCHANGED <<local, manifest, locks, remote, budget>>

\* read_cache: "cache checksum mismatch".
ReadCacheRejected(c) ==
  LET o == Target(c)  entry == loc[c].entry  bytes == File(o, entry.generation)
  IN  /\ pc[c] = "read_cache" /\ store_lock = None
      /\ bytes # None /\ bytes # entry.sha256
      /\ Abort(c)
      /\ UNCHANGED <<local, manifest, remote, budget>>

FetchObject(c) ==
  LET o == Target(c)  entry == loc[c].entry
  IN  /\ pc[c] = "fetch"
      /\ Exists(channel, entry.remote, "object")
      /\ Verifies(channel[entry.remote].body, o, entry.generation, entry.sha256)
      /\ Goto(c, "fill", [loc[c] EXCEPT !.encoded = channel[entry.remote].body])
      /\ UNCHANGED <<local, manifest, locks, remote, budget>>

\* write_cache of a clean object.
FillOpen(c) ==
  /\ pc[c] = "fill" /\ store_lock = None
  /\ store_lock' = c
  /\ files' = WithFile(Target(c), loc[c].entry.generation, Torn)
  /\ Goto(c, "filling", loc[c])
  /\ UNCHANGED <<dirty_objects, manifest_state, manifest, manifest_lock, remote, budget>>

\* Mutant: the file is created but never written.
FillNothing(c) ==
  /\ pc[c] = "filling"
  /\ store_lock' = None
  /\ Return(c, loc[c].encoded.payload)
  /\ UNCHANGED <<local, manifest, manifest_lock, remote, budget>>

FillBytes(c) ==
  /\ pc[c] = "filling"
  /\ store_lock' = None
  /\ files' = WithFile(Target(c), loc[c].entry.generation, loc[c].encoded)
  /\ Return(c, loc[c].encoded.payload)
  /\ UNCHANGED <<dirty_objects, manifest_state, manifest, manifest_lock, remote, budget>>

-----------------------------------------------------------------------------
(* write_dirty_object *)

\* Mutant: the limit itself is let through.
CheckLimitLate(c) ==
  /\ pc[c] = "limit" /\ store_lock = None
  /\ Cardinality(DirtyIds(dirty_objects)) <= max_dirty_objects
  /\ Goto(c, "generation", loc[c])
  /\ UNCHANGED <<local, manifest, locks, remote, budget>>

CheckLimit(c) ==
  /\ pc[c] = "limit" /\ store_lock = None
  /\ Cardinality(DirtyIds(dirty_objects)) < max_dirty_objects
  /\ Goto(c, "generation", loc[c])
  /\ UNCHANGED <<local, manifest, locks, remote, budget>>

\* "dirty object backpressure limit reached".
LimitReached(c) ==
  /\ pc[c] = "limit" /\ store_lock = None
  /\ Cardinality(DirtyIds(dirty_objects)) >= max_dirty_objects
  /\ Abort(c)
  /\ UNCHANGED <<local, manifest, remote, budget>>

\* Mutant: a write reuses the generation of the manifest.
SameGeneration(c) ==
  /\ pc[c] = "generation" /\ manifest_lock = None
  /\ LET g == manifest.generation
     IN  Goto(c, "write_cache",
              [loc[c] EXCEPT !.generation = g,
                             !.encoded = Encode(Target(c), g, Overlay(loc[c], loc[c].object))])
  /\ UNCHANGED <<local, manifest, locks, remote, budget>>

NextGeneration(c) ==
  /\ pc[c] = "generation" /\ manifest_lock = None
  /\ LET g == manifest.generation + 1
     IN  Goto(c, "write_cache",
              [loc[c] EXCEPT !.generation = g,
                             !.encoded = Encode(Target(c), g, Overlay(loc[c], loc[c].object))])
  /\ UNCHANGED <<local, manifest, locks, remote, budget>>

WriteCacheOpen(c) ==
  /\ pc[c] = "write_cache" /\ store_lock = None
  /\ store_lock' = c
  /\ files' = WithFile(Target(c), loc[c].generation, Torn)
  /\ Goto(c, "write_bytes", loc[c])
  /\ UNCHANGED <<dirty_objects, manifest_state, manifest, manifest_lock, remote, budget>>

WriteCacheBytes(c) ==
  /\ pc[c] = "write_bytes"
  /\ files' = WithFile(Target(c), loc[c].generation, loc[c].encoded)
  /\ Goto(c, "mark_dirty", loc[c])
  /\ UNCHANGED <<dirty_objects, manifest_state, manifest, locks, remote, budget>>

\* mark_dirty's row; the wal_entries rows it also keeps are never read back
\* (module WalRanges).
DirtyRow(c) == [generation |-> loc[c].generation, sha256 |-> loc[c].encoded]

MarkDirty(c) ==
  /\ pc[c] = "mark_dirty"
  /\ dirty_objects' = [dirty_objects EXCEPT ![Target(c)] = DirtyRow(c)]
  /\ store_lock' = None
  /\ Goto(c, LoopHead(Advance(loc[c])), Advance(loc[c]))
  /\ UNCHANGED <<files, manifest_state, manifest, manifest_lock, remote, budget>>

-----------------------------------------------------------------------------
(* prefetch_objects, after a read that ended on an object boundary.  Its errors *)
(* are dropped by read_at. *)

PrefetchDirtyIds(c) ==
  /\ pc[c] = "prefetch" /\ store_lock = None
  /\ Goto(c, "prefetch_lock", [loc[c] EXCEPT !.snapshot = dirty_objects])
  /\ UNCHANGED <<local, manifest, locks, remote, budget>>

PrefetchLock(c) ==
  /\ pc[c] = "prefetch_lock" /\ manifest_lock = None
  /\ manifest_lock' = c
  /\ Goto(c, "prefetch_scan", [loc[c] EXCEPT !.scan = Target(c)])
  /\ UNCHANGED <<local, manifest, store_lock, remote, budget>>

InScan(c) == loc[c].scan < Target(c) + read_ahead_objects

SkipsDirty(c) == loc[c].scan \in DirtyIds(loc[c].snapshot)

\* The object is dirty, all zero, or cached already.
PrefetchSkip(c) ==
  LET o == loc[c].scan  entry == manifest.objects[o]
  IN  /\ pc[c] = "prefetch_scan" /\ InScan(c)
      /\ \/ SkipsDirty(c)
         \/ /\ ~SkipsDirty(c) /\ o \in ManifestObjects
            /\ \/ entry.zero
               \/ ~entry.zero /\ store_lock = None /\ File(o, entry.generation) = entry.sha256
      /\ Goto(c, "prefetch_scan", [loc[c] EXCEPT !.scan = o + 1])
      /\ UNCHANGED <<local, manifest, locks, remote, budget>>

PrefetchWant(c) ==
  LET o == loc[c].scan  entry == manifest.objects[o]
  IN  /\ pc[c] = "prefetch_scan" /\ InScan(c) /\ store_lock = None
      /\ ~SkipsDirty(c) /\ o \in ManifestObjects
      /\ ~entry.zero /\ File(o, entry.generation) = None
      /\ Goto(c, "prefetch_scan",
              [loc[c] EXCEPT !.scan = o + 1,
                             !.entries = @ \cup {[object_id |-> o, entry |-> entry]}])
      /\ UNCHANGED <<local, manifest, locks, remote, budget>>

\* read_cache found other bytes: prefetch_objects returns the error.
PrefetchRejected(c) ==
  LET o == loc[c].scan  entry == manifest.objects[o]
  IN  /\ pc[c] = "prefetch_scan" /\ InScan(c) /\ store_lock = None
      /\ ~SkipsDirty(c) /\ o \in ManifestObjects
      /\ ~entry.zero /\ File(o, entry.generation) \notin {None, entry.sha256}
      /\ manifest_lock' = None
      /\ Goto(c, "reply", loc[c])
      /\ UNCHANGED <<local, manifest, store_lock, remote, budget>>

PrefetchScanned(c) ==
  /\ pc[c] = "prefetch_scan"
  /\ ~InScan(c) \/ (~SkipsDirty(c) /\ loc[c].scan \notin ManifestObjects)
  /\ manifest_lock' = None
  /\ Goto(c, IF loc[c].entries = {} THEN "reply" ELSE "prefetch_fetch", loc[c])
  /\ UNCHANGED <<local, manifest, store_lock, remote, budget>>

\* get_messages_by_id, and the checks on what it returned.
Fetched(c) ==
  {e \in loc[c].entries :
     /\ Exists(channel, e.entry.remote, "object")
     /\ Verifies(channel[e.entry.remote].body, e.object_id, e.entry.generation, e.entry.sha256)}

PrefetchFetch(c) ==
  /\ pc[c] = "prefetch_fetch"
  /\ Goto(c, IF Fetched(c) = {} THEN "reply" ELSE "prefetch_fill",
          [loc[c] EXCEPT !.entries = Fetched(c)])
  /\ UNCHANGED <<local, manifest, locks, remote, budget>>

\* The next object prefetch_objects writes into the cache.
NextFill(c) ==
  CHOOSE e \in loc[c].entries : \A f \in loc[c].entries : e.object_id <= f.object_id

PrefetchFillOpen(c) ==
  /\ pc[c] = "prefetch_fill" /\ store_lock = None
  /\ store_lock' = c
  /\ files' = WithFile(NextFill(c).object_id, NextFill(c).entry.generation, Torn)
  /\ Goto(c, "prefetch_filling", loc[c])
  /\ UNCHANGED <<dirty_objects, manifest_state, manifest, manifest_lock, remote, budget>>

PrefetchFillBytes(c) ==
  LET e == NextFill(c)  rest == loc[c].entries \ {e}
  IN  /\ pc[c] = "prefetch_filling"
      /\ store_lock' = None
      /\ files' = WithFile(e.object_id, e.entry.generation, e.entry.sha256)
      /\ Goto(c, IF rest = {} THEN "reply" ELSE "prefetch_fill",
              [loc[c] EXCEPT !.entries = rest])
      /\ UNCHANGED <<dirty_objects, manifest_state, manifest, manifest_lock, remote, budget>>

-----------------------------------------------------------------------------
(* flush *)

FlushList(c) ==
  /\ pc[c] = "flush_list" /\ store_lock = None
  /\ Goto(c, IF dirty_objects = NoRows THEN "idle" ELSE "flush_lock",
          [loc[c] EXCEPT !.snapshot = dirty_objects])
  /\ UNCHANGED <<local, manifest, locks, remote, budget>>

FlushLock(c) ==
  LET rows == loc[c].snapshot
  IN  /\ pc[c] = "flush_lock" /\ manifest_lock = None
      /\ manifest_lock' = c
      /\ manifest' = [manifest EXCEPT !.generation =
                        Max({rows[o].generation : o \in DirtyIds(rows)})]
      /\ Goto(c, "flush_object", loc[c])
      /\ UNCHANGED <<local, store_lock, remote, budget>>

\* The objects of the snapshot are uploaded in the order of their ids.
FlushTarget(c) == Min(DirtyIds(loc[c].snapshot))

FlushReadable(c) ==
  LET o == FlushTarget(c)  row == loc[c].snapshot[o]
  IN  Verifies(File(o, row.generation), o, row.generation, row.sha256)

\* One object: read and verify the file, send it, point the manifest at it.
FlushObject(c) ==
  LET o     == FlushTarget(c)
      bytes == loc[c].snapshot[o].sha256
      rest  == [loc[c].snapshot EXCEPT ![o] = None]
  IN  /\ pc[c] = "flush_object"
      /\ FlushReadable(c) /\ o \in ManifestObjects
      /\ channel' = Append(channel, ObjectMessage(bytes))
      /\ manifest' = WithUploaded(manifest, o, bytes, Len(channel) + 1)
      /\ Goto(c, IF rest = NoRows THEN "flush_manifest" ELSE "flush_object",
              [loc[c] EXCEPT !.snapshot = rest])
      /\ UNCHANGED <<local, locks, pinned, budget>>

\* "dirty cache checksum mismatch", a missing file, a file that does not decode.
FlushRejected(c) ==
  /\ pc[c] = "flush_object"
  /\ ~FlushReadable(c)
  /\ Abort(c)
  /\ UNCHANGED <<local, manifest, remote, budget>>

\* "manifest missing object", found after the upload.
FlushMissingObject(c) ==
  /\ pc[c] = "flush_object"
  /\ FlushReadable(c) /\ FlushTarget(c) \notin ManifestObjects
  /\ channel' = Append(channel, ObjectMessage(loc[c].snapshot[FlushTarget(c)].sha256))
  /\ Abort(c)
  /\ UNCHANGED <<local, manifest, pinned, budget>>

\* commit_manifest: upload the manifest and read it back.
FlushManifest(c) ==
  LET ref == [message_id |-> Len(channel) + 1, generation |-> manifest.generation]
  IN  /\ pc[c] = "flush_manifest"
      /\ channel' = Append(channel, ManifestMessage(manifest))
      /\ Goto(c, IF pinned = 0 THEN "flush_superblock" ELSE "flush_backup",
              [loc[c] EXCEPT !.superblock = ForManifest(channel, pinned, ref)])
      /\ UNCHANGED <<local, manifest, locks, pinned, budget>>

\* upsert_pinned_superblock, when nothing is pinned yet: send and pin first.
FlushSuperblock(c) ==
  /\ pc[c] = "flush_superblock"
  /\ channel' = Append(channel, SuperblockMessage(loc[c].superblock))
  /\ Goto(c, "flush_pin", [loc[c] EXCEPT !.message = Len(channel) + 1])
  /\ UNCHANGED <<local, manifest, locks, pinned, budget>>

FlushPin(c) ==
  /\ pc[c] = "flush_pin"
  /\ pinned' = loc[c].message
  /\ Goto(c, "flush_backup", loc[c])
  /\ UNCHANGED <<local, manifest, locks, channel, budget>>

\* Mutant: the backup is not sent.
FlushWithoutBackup(c) ==
  /\ pc[c] = "flush_backup"
  /\ Goto(c, "flush_replace", loc[c])
  /\ UNCHANGED <<local, manifest, locks, remote, budget>>

\* send_superblock_backup: the commit point of every later flush.
FlushBackup(c) ==
  /\ pc[c] = "flush_backup"
  /\ channel' = Append(channel, SuperblockMessage(loc[c].superblock))
  /\ Goto(c, "flush_replace", loc[c])
  /\ UNCHANGED <<local, manifest, locks, pinned, budget>>

\* Mutant: the new manifest is not saved.
FlushUnsaved(c) ==
  /\ pc[c] = "flush_replace" /\ store_lock = None
  /\ store_lock' = c
  /\ Goto(c, "flush_clear", loc[c])
  /\ UNCHANGED <<local, manifest, manifest_lock, remote, budget>>

\* replace_from_manifest, one transaction.
FlushReplace(c) ==
  /\ pc[c] = "flush_replace" /\ store_lock = None
  /\ store_lock' = c
  /\ manifest_state' = manifest
  /\ Goto(c, "flush_clear", loc[c])
  /\ UNCHANGED <<dirty_objects, files, manifest, manifest_lock, remote, budget>>

\* clear_dirty_and_wal, one transaction.
FlushClear(c) ==
  /\ pc[c] = "flush_clear"
  /\ dirty_objects' = NoRows
  /\ manifest_lock' = None
  /\ store_lock' = None
  /\ Goto(c, "idle", NoLocals)
  /\ UNCHANGED <<files, manifest_state, manifest, remote, budget>>

-----------------------------------------------------------------------------
(* Failures. *)

\* A send returns an error; the message may have reached the channel all the same.
SendFails(c) ==
  LET message == CASE pc[c] = "flush_object" ->
                        ObjectMessage(loc[c].snapshot[FlushTarget(c)].sha256)
                   [] pc[c] = "flush_manifest" -> ManifestMessage(manifest)
                   [] OTHER -> SuperblockMessage(loc[c].superblock)
  IN  /\ pc[c] \in {"flush_object", "flush_manifest", "flush_superblock", "flush_backup"}
      /\ pc[c] = "flush_object" => FlushReadable(c)
      /\ Spend("faults")
      /\ channel' \in {channel, Append(channel, message)}
      /\ Abort(c)
      /\ UNCHANGED <<local, manifest, pinned>>

\* pin_message returns an error, having pinned the message or not.
PinFails(c) ==
  /\ pc[c] = "flush_pin"
  /\ Spend("faults")
  /\ pinned' \in {pinned, loc[c].message}
  /\ Abort(c)
  /\ UNCHANGED <<local, manifest, channel>>

\* A download fails: read_object returns the error, prefetch_objects drops it.
FetchFails(c) ==
  /\ Spend("faults")
  /\ \/ pc[c] = "fetch" /\ Abort(c)
     \/ pc[c] = "prefetch_fetch" /\ Goto(c, "reply", loc[c]) /\ UNCHANGED locks
  /\ UNCHANGED <<local, manifest, remote>>

\* A query of the store, or a file, fails before anything changed.
QueryFails(c) ==
  /\ pc[c] \in {"read_object", "read_cache", "fill", "limit", "write_cache",
                "flush_list", "flush_object", "flush_replace"}
  /\ pc[c] # "flush_object" => store_lock = None
  /\ Spend("store_faults")
  /\ Abort(c)
  /\ UNCHANGED <<local, manifest, remote>>

\* write_cache fails: the file is left torn, or complete when it was the
\* cache_entries row that could not be written.
WriteCacheFails(c) ==
  /\ pc[c] \in {"filling", "write_bytes"}
  /\ Spend("store_faults")
  /\ LET g == IF pc[c] = "filling" THEN loc[c].entry.generation ELSE loc[c].generation
     IN  files' \in {files, WithFile(Target(c), g, loc[c].encoded)}
  /\ Abort(c)
  /\ UNCHANGED <<dirty_objects, manifest_state, manifest, remote>>

\* The same failures in prefetch_objects, whose error is dropped.
PrefetchQueryFails(c) ==
  /\ pc[c] \in {"prefetch", "prefetch_scan", "prefetch_fill"} /\ store_lock = None
  /\ Spend("store_faults")
  /\ manifest_lock' = IF manifest_lock = c THEN None ELSE manifest_lock
  /\ Goto(c, "reply", loc[c])
  /\ UNCHANGED <<local, manifest, store_lock, remote>>

PrefetchFillFails(c) ==
  LET e == NextFill(c)
  IN  /\ pc[c] = "prefetch_filling"
      /\ Spend("store_faults")
      /\ files' \in {files, WithFile(e.object_id, e.entry.generation, e.entry.sha256)}
      /\ store_lock' = None
      /\ Goto(c, "reply", loc[c])
      /\ UNCHANGED <<dirty_objects, manifest_state, manifest, manifest_lock, remote>>

\* mark_dirty fails, before its dirty_objects row was written or after it.
MarkDirtyFails(c) ==
  /\ pc[c] = "mark_dirty"
  /\ Spend("store_faults")
  /\ dirty_objects' \in {dirty_objects, [dirty_objects EXCEPT ![Target(c)] = DirtyRow(c)]}
  /\ Abort(c)
  /\ UNCHANGED <<files, manifest_state, manifest, remote>>

\* clear_dirty_and_wal fails: in the transaction, or in the checkpoint after it.
FlushClearFails(c) ==
  /\ pc[c] = "flush_clear"
  /\ Spend("store_faults")
  /\ dirty_objects' \in {dirty_objects, NoRows}
  /\ Abort(c)
  /\ UNCHANGED <<files, manifest_state, manifest, remote>>

\* What a new process starts from: no handler, no lock, the manifest it loads.
Restarted(m) ==
  /\ manifest' = m
  /\ manifest_lock' = None
  /\ store_lock' = None
  /\ pc' = [c \in Clients |-> "idle"]
  /\ loc' = [c \in Clients |-> NoLocals]

\* The process dies (the TGDRIVE_CRASH_AFTER_MANIFEST_UPLOAD hook is one place),
\* its stale mount.lock is removed by hand, and serve-nbd finds a local manifest.
Crash ==
  /\ Spend("crashes")
  /\ Restarted(manifest_state)
  /\ UNCHANGED <<local, remote>>

\* What recover_remote_manifest fetches on a fresh machine.
Recovered ==
  LET i == RecoverSuperblock(channel, pinned, scan_limit)
  IN  FetchManifest(channel, channel[i].body.current)

RestartsElsewhere(m) ==
  /\ dirty_objects' = NoRows
  /\ files' = [k \in {} |-> None]
  /\ manifest_state' = m
  /\ Restarted(m)
  /\ UNCHANGED remote

\* The machine is lost and serve-nbd starts on another one.  A superblock written
\* under another device_size is refused.
RestartElsewhere ==
  /\ RecoverSuperblock(channel, pinned, scan_limit) # 0
  /\ channel[RecoverSuperblock(channel, pinned, scan_limit)].body.device_size = device_size
  /\ Spend("moves")
  /\ RestartsElsewhere(Recovered)

\* The same when fetching the current manifest fails: "latest manifest
\* verification failed; recovering previous generation".
RestartOnPrevious ==
  LET i == RecoverSuperblock(channel, pinned, scan_limit)
  IN  /\ i # 0
      /\ channel[i].body.device_size = device_size
      /\ channel[i].body.previous # None
      /\ budget.moves > 0 /\ budget.faults > 0
      /\ budget' = [budget EXCEPT !.moves = @ - 1, !.faults = @ - 1]
      /\ RestartsElsewhere(FetchManifest(channel, channel[i].body.previous))

-----------------------------------------------------------------------------
Begin(c) == BeginRead(c) \/ BeginWrite(c) \/ BeginFlush(c)

ReadStep(c) ==
  \/ ReadDirty(c) \/ ReadDirtyRejected(c) \/ ReadNotDirty(c)
  \/ ReadEntry(c) \/ ReadOutOfRange(c) \/ ReadCache(c) \/ ReadCacheRejected(c)
  \/ FetchObject(c) \/ FillOpen(c) \/ FillBytes(c) \/ Reply(c)

WriteStep(c) ==
  \/ CheckLimit(c) \/ LimitReached(c) \/ NextGeneration(c)
  \/ WriteCacheOpen(c) \/ WriteCacheBytes(c) \/ MarkDirty(c)

PrefetchStep(c) ==
  \/ PrefetchDirtyIds(c) \/ PrefetchLock(c) \/ PrefetchSkip(c) \/ PrefetchWant(c)
  \/ PrefetchRejected(c) \/ PrefetchScanned(c) \/ PrefetchFetch(c)
  \/ PrefetchFillOpen(c) \/ PrefetchFillBytes(c)

FlushStep(c) ==
  \/ FlushList(c) \/ FlushLock(c) \/ FlushObject(c) \/ FlushRejected(c)
  \/ FlushMissingObject(c) \/ FlushManifest(c) \/ FlushSuperblock(c) \/ FlushPin(c)
  \/ FlushBackup(c) \/ FlushReplace(c) \/ FlushClear(c)

\* A step of the handler of connection c, while nothing fails.
Step(c) == ReadStep(c) \/ WriteStep(c) \/ PrefetchStep(c) \/ FlushStep(c)

Fault(c) ==
  \/ SendFails(c) \/ PinFails(c) \/ FetchFails(c) \/ QueryFails(c)
  \/ WriteCacheFails(c) \/ PrefetchQueryFails(c) \/ PrefetchFillFails(c)
  \/ MarkDirtyFails(c) \/ FlushClearFails(c)

\* Every connection is idle and none sends a request: the server waits.
Wait == (\A c \in Clients : pc[c] = "idle") /\ UNCHANGED vars

Next ==
  \/ \E c \in Clients : Begin(c) \/ Step(c) \/ Fault(c)
  \/ Crash \/ RestartElsewhere \/ RestartOnPrevious
  \/ Wait

Spec == Init /\ [][Next]_vars

\* tokio's mutexes are first come first served, so a handler whose step is enabled
\* again and again is not passed over for ever.
FairSpec == Spec /\ \A c \in Clients : SF_vars(Step(c))

-----------------------------------------------------------------------------
(* Properties *)

Labels == {"idle", "reply", "read_object", "read_entry", "read_cache", "fetch", "fill",
           "filling", "limit", "generation", "write_cache", "write_bytes", "mark_dirty",
           "prefetch", "prefetch_lock", "prefetch_scan", "prefetch_fetch",
           "prefetch_fill", "prefetch_filling", "flush_list", "flush_lock",
           "flush_object", "flush_manifest", "flush_superblock", "flush_pin",
           "flush_backup", "flush_replace", "flush_clear"}

Rows == [Objects -> Row \cup {None}]

Locals ==
  [op : {"none", "read", "write", "flush"}, cursor : Nat, remaining : Nat,
   bytes : Seq(Value), out : Seq(Value), object : [0 .. object_size - 1 -> Value],
   entry : Entry, encoded : Encoded \cup {None}, generation : Nat, snapshot : Rows,
   scan : Nat, entries : SUBSET [object_id : ManifestObjects, entry : StoredEntry],
   superblock : Superblock \cup {None}, message : Nat]

\* Every variable holds a value of the type the code declares for it.
TypeOK ==
  /\ dirty_objects \in Rows
  /\ DOMAIN files \subseteq Nat \X Nat
  /\ \A k \in DOMAIN files : files[k] \in Encoded \cup {Torn}
  /\ manifest_state \in Manifest
  /\ manifest \in Manifest
  /\ manifest_lock \in Clients \cup {None}
  /\ store_lock \in Clients \cup {None}
  /\ channel \in Seq(Message)
  /\ pinned \in 0 .. Len(channel)
  /\ pc \in [Clients -> Labels]
  /\ loc \in [Clients -> Locals]
  /\ budget \in [writes : Nat, flushes : Nat, faults : Nat, store_faults : Nat,
                 crashes : Nat, moves : Nat]

\* commit_manifest publishes a superblock only when the manifest it names and every
\* object that manifest names have been uploaded: whatever superblock a recovery
\* picks, current or previous, all of its data can be fetched and verifies.
CommittedBacked ==
  \A i \in DOMAIN channel : channel[i].kind = "superblock" =>
    /\ Served(channel, channel[i].body.current)
    /\ channel[i].body.previous # None => Served(channel, channel[i].body.previous)

\* flush moves a reference to the garbage list only when no entry needs it any
\* more, so `tgdrive gc`, which deletes the garbage of a manifest, never deletes a
\* message the same manifest reads.
NoLiveGarbage ==
  /\ manifest.garbage \cap Live(manifest) = {}
  /\ manifest_state.garbage \cap Live(manifest_state) = {}
  /\ \A i \in DOMAIN channel : channel[i].kind = "manifest" =>
       channel[i].body.garbage \cap Live(channel[i].body) = {}

\* While nobody is in the middle of a store operation, every dirty object can be read
\* and flushed: the file its row names holds the bytes the row's checksum is of.
DirtyReadable ==
  store_lock = None =>
    \A o \in DirtyIds(dirty_objects) :
      LET row == dirty_objects[o]
      IN  Verifies(File(o, row.generation), o, row.generation, row.sha256)

\* Likewise every clean object: its cache file, if there is one, is what the manifest
\* names.  read_cache fails on any other file and does not go back to the channel.
CleanReadable ==
  store_lock = None =>
    \A o \in (Objects \cap ManifestObjects) \ DirtyIds(dirty_objects) :
      LET e == manifest.objects[o]
      IN  ~e.zero => File(o, e.generation) \in {None, e.sha256}

\* flush reads its cache files without the store mutex, while other connections fill the
\* cache: the file it comes to next is there and whole all the same.
FlushFindsFiles == \A c \in Clients : pc[c] = "flush_object" => FlushReadable(c)

\* What the device holds: read_object, when nothing fails.
ObjectPayload(o) ==
  IF dirty_objects[o] # None THEN dirty_objects[o].sha256.payload ELSE EntryPayload(manifest, o)

Content == [u \in Units |-> ObjectPayload(ObjectOf(u))[OffsetIn(u)]]

\* What a fresh machine would hold after recover_remote_manifest.
RecoveredContent ==
  IF RecoverSuperblock(channel, pinned, scan_limit) = 0
  THEN [u \in Units |-> 0]
  ELSE [u \in Units |-> EntryPayload(Recovered, ObjectOf(u))[OffsetIn(u)]]

\* Once the store lists nothing as dirty and no flush is under way, the channel alone
\* gives back what the device holds: losing the machine then loses nothing.
CleanMeansDurable ==
  dirty_objects = NoRows /\ (\A c \in Clients : loc[c].op # "flush")
    => Content = RecoveredContent

\* `tgdrive gc` deletes the garbage of the local manifest: never a message the
\* manifest a recovery would choose still reads.
GcSafe ==
  RecoverSuperblock(channel, pinned, scan_limit) # 0 =>
    manifest_state.garbage \cap Live(Recovered) = {}

\* Backpressure: write_dirty_object counts the dirty objects and marks one more only
\* after it gave the store up, so the limit is not exact, but connections that race past
\* it exceed it together by less than their number, whatever flushes, failures and
\* crashes come between.
DirtyBounded ==
  DirtyIds(dirty_objects) # {} =>
    Cardinality(DirtyIds(dirty_objects)) <= max_dirty_objects + Cardinality(Writers) - 1

\* clear_dirty_and_wal, at the end of a flush, changes nothing that a read returns: the
\* rows it deletes are all in the manifest by then.
FlushKeepsContent ==
  [][\A c \in Clients : pc[c] = "flush_clear" => Content' = Content]_vars

\* Nothing that happens on the channel makes a recovery fall back to an older
\* generation than the one it would have found before: the superblock in force stays
\* among the messages recover_superblock_text scans until the next one is there.
RecoveryNeverGoesBack ==
  [][LET i == RecoverSuperblock(channel, pinned, scan_limit)
         j == RecoverSuperblock(channel', pinned', scan_limit)
     IN  i # 0 => j # 0 /\ Generation(channel', j) >= Generation(channel, i)]_vars

Superblocks(ch) == {i \in DOMAIN ch : ch[i].kind = "superblock"}

\* The superblock a scan of the whole channel would choose.
InForce(ch, i) ==
  /\ i \in Superblocks(ch)
  /\ \A j \in Superblocks(ch) : \/ Generation(ch, j) < Generation(ch, i)
                                \/ Generation(ch, j) = Generation(ch, i) /\ j <= i

\* recover_superblock_text reaches the superblock in force: it is among the scan_limit
\* newest messages, or no superblock is and the pinned one, which it then takes, says the
\* same.
ScanReaches ==
  \A i \in Superblocks(channel) : InForce(channel, i) =>
    LET window == InWindow(channel, scan_limit)
    IN  \/ i \in window
        \/ /\ window = {}
           /\ pinned \in Superblocks(channel) /\ channel[pinned].body = channel[i].body

\* The local manifest is at most one generation behind the channel.
NotBehind ==
  \A i \in Superblocks(channel) : Generation(channel, i) <= manifest_state.generation + 1

RestartsWell == (Crash => NotBehind) /\ ~RestartOnPrevious

\* A process that dies leaves a local manifest at most one generation behind the channel,
\* so that the next flush, which counts on from it, is not passed over by a recovery; and
\* no recovery has to make do with the previous manifest of a superblock.
RestartsCountOn == [][RestartsWell]_vars

\* A request that was begun ends, with its reply or with an error: no handler waits
\* for ever for a mutex, and no loop of read_at, write_at or flush runs for ever.
RequestsEnd == \A c \in Clients : pc[c] # "idle" ~> pc[c] = "idle"

-----------------------------------------------------------------------------
(* The inductive invariant behind CommittedBacked and NoLiveGarbage. *)

\* A manifest is safe to commit: what it refers to is on the channel, and what it
\* calls garbage is on the channel too and is not what it refers to.
ManifestOK(ch, m) ==
  /\ Backed(ch, m)
  /\ m.garbage \subseteq DOMAIN ch
  /\ m.garbage \cap Live(m) = {}

SuperblockOK(ch, sb) ==
  Served(ch, sb.current) /\ (sb.previous # None => Served(ch, sb.previous))

ChannelOK(ch) ==
  \A i \in DOMAIN ch :
    /\ ch[i].kind = "manifest" => ManifestOK(ch, ch[i].body)
    /\ ch[i].kind = "superblock" => SuperblockOK(ch, ch[i].body)

\* What the locals of a handler hold at each of its steps.
ConnectionOK(ch, p, l) ==
  /\ p \in Labels
  /\ l \in Locals
  /\ p \in {"read_object", "read_entry", "read_cache", "fetch", "fill", "filling", "limit",
           "generation", "write_cache", "write_bytes", "mark_dirty"}
       => /\ l.op \in {"read", "write"}
          /\ l.remaining > 0
          /\ InBounds(l.cursor, l.remaining)
  /\ p \in {"limit", "generation", "write_cache", "write_bytes", "mark_dirty"}
       => l.op = "write"
  /\ l.op = "write" => l.remaining <= Len(l.bytes)
  /\ p \in {"read_cache", "fetch", "fill", "filling"} => l.entry \in StoredEntry
  /\ p \in {"fill", "filling", "write_cache", "write_bytes", "mark_dirty"}
       => l.encoded \in Encoded
  /\ IsFiniteSet(l.entries)
  /\ p \in {"prefetch_fill", "prefetch_filling"} => l.entries # {}
  /\ p \in {"flush_lock", "flush_object"} => DirtyIds(l.snapshot) # {}
  /\ p \in {"flush_superblock", "flush_pin", "flush_backup"}
       => l.superblock \in Superblock /\ SuperblockOK(ch, l.superblock)
  /\ p = "flush_pin" => Exists(ch, l.message, "superblock")

VariablesOK ==
  /\ dirty_objects \in Rows
  /\ DOMAIN files \subseteq Nat \X Nat
  /\ \A k \in DOMAIN files : files[k] \in Encoded \cup {Torn}
  /\ manifest_state \in Manifest
  /\ manifest \in Manifest
  /\ manifest_lock \in Clients \cup {None}
  /\ store_lock \in Clients \cup {None}
  /\ budget \in [writes : Nat, flushes : Nat, faults : Nat, store_faults : Nat,
                 crashes : Nat, moves : Nat]

RemoteOK ==
  /\ channel \in Seq(Message)
  /\ ChannelOK(channel)
  /\ pinned \in Nat
  /\ pinned # 0 => Exists(channel, pinned, "superblock")
  /\ ManifestOK(channel, manifest)
  /\ ManifestOK(channel, manifest_state)

ConnectionsOK ==
  /\ pc \in [Clients -> Labels]
  /\ loc \in [Clients -> Locals]
  /\ \A c \in Clients : ConnectionOK(channel, pc[c], loc[c])

DeviceInv == VariablesOK /\ RemoteOK /\ ConnectionsOK

-----------------------------------------------------------------------------
(* The inductive invariant behind DirtyBounded. *)

PastLabels == {"generation", "write_cache", "write_bytes", "mark_dirty"}

\* The connections that were let through by the limit and have not marked yet.
PastLimit == {c \in Clients : pc[c] \in PastLabels}

OnlyWritersWrite == \A c \in Clients : loc[c].op = "write" => c \in Writers

\* Objects marked, and objects about to be.
LimitKept ==
  PastLimit # {} \/ DirtyIds(dirty_objects) # {} =>
    Cardinality(DirtyIds(dirty_objects)) + Cardinality(PastLimit)
      <= max_dirty_objects + Cardinality(Writers) - 1

LimitInv == OnlyWritersWrite /\ LimitKept
=============================================================================
