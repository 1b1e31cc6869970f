# A TLA+ model of Telegram Block Device

Telegram Block Device exports a block device over NBD and keeps its contents as
messages of a Telegram channel. This directory holds a TLA+ model of it: the device,
the life of a device across the commands of the program, and the NBD server; the
TLC configurations that check it on small instances, and TLAPS
proofs, for instances of every size, that the device, across a whole life of commands
too, and the server keep their invariants and implement a disk with a write-back cache. Paths below are relative to the
repository (`crates/...`).

## 1. The system

| Component | State | Operations | Interacts with |
|---|---|---|---|
| `BlockMap` (`tgdrive-core/src/block.rs`) | none (three sizes) | `object_count`, `locate` | used by the request loops |
| `BlockDevice` (`block.rs`) | `manifest` behind a tokio mutex; limits | `read_at`, `write_at`, `flush`; internally `read_object`, `prefetch_objects`, `write_dirty_object` | store mutex, manifest mutex, the backend (network) |
| `LocalStore` (`cache.rs`) | SQLite tables `dirty_objects`, `wal_entries`, `manifest_state`, `cache_entries`, `objects`, `remote_refs`; the cache files | `read_cache`, `write_cache`, `mark_dirty`, `dirty_objects`, `replace_from_manifest`, `clear_dirty_and_wal`, `evict_clean_lru` | owned by the device, behind a tokio mutex |
| Stored formats (`format.rs`) | none | object envelope, manifest, manifest tree, superblock: encode, decode, verify | what is on the channel and in the cache |
| Backends (`backend.rs`) | `MemoryBackend`: a map | `send_object`, `fetch_object`, `get_messages_by_id`, `commit_manifest` | implemented by `TelegramStorage` |
| `TelegramStorage` (`tgdrive-telegram/src/client.rs`) | the channel, its pinned message | the above, `upsert_pinned_superblock`, `recover_superblock_text`, `fetch_manifest_from_superblock`, `delete_messages` | Telegram, through the vendored grammers |
| NBD server (`tgdrive-nbd/src/server.rs`) | connections | negotiate, READ, WRITE, FLUSH, DISC | one task per connection, all on one `BlockDevice` |
| CLI (`tgdrive-cli/src/main.rs`) | `mount.lock` | `format`, `serve-nbd`, `recover-from-remote`, `recover`, `gc`, `flush`, `fsck`, `status` | starts the daemon, or works on the store and the channel beside it |
| Configuration, login, bench, scripts | | | |

A READ or WRITE goes through the objects it covers one at a time. A read takes a
dirty object from its cache file, any other from the cache or, failing that,
from the channel. A write stores the whole object in a cache file and marks it
dirty. A flush uploads every dirty object, points the manifest at the new
messages, uploads the manifest, publishes a superblock that names it, saves the
manifest locally and clears the dirty rows. A machine without a local manifest
looks for the superblock with the highest generation among the newest 200
messages, and otherwise takes the pinned one.

What is hard:

- **Interleaving.** The server accepts any number of connections and runs one
  task for each. No lock spans a request: the store mutex and the manifest mutex
  are taken and released many times in one, and the network is awaited between.
  A second connection is ordinary: a client that reconnects while the handler of
  its old connection is still flushing makes one.
- **Partial failure.** A commit is a sequence of separate messages. Each send may
  fail, or succeed without the acknowledgement arriving, and the next flush
  starts over with the manifest the failed one left in memory.
- **Crashes.** The store, the cache files, the memory of the daemon and the
  channel change at different moments; a process or a machine may be lost
  between any two.
- **Choice at recovery.** What a fresh machine sees depends on the order of
  messages, on generations and on a window.
- **Commands beside the daemon.** Only `serve-nbd` takes the mount lock; every
  other command opens the same store and the same channel beside it, and a killed
  daemon leaves the lock behind.
- **Framing.** A connection is a stream of bytes: a request that is refused or not
  supported has to leave the stream exactly where the next one begins, with
  requests pipelined and sockets that fill up in both directions.

`PROJECT.json` lists the hazards one by one, at their lines, with the properties
that would catch them.

What makes each part correct: the device is a disk (a read returns what was
written, a write changes only its range, a flush makes everything durable, losing
the machine falls back to what was durable); every published superblock can be
recovered in full; garbage is never in use; a cache file never contradicts what
refers to it; every request ends; `wal_entries` lists exactly what was written;
a manifest kept as a tree reads back as itself; no command changes what the device
holds except as a disk may change; a client is answered as if its requests were
executed one by one.

## 2. The modules

| Module | Models |
|---|---|
| `BlockMap` | sizes, `object_count`, `locate`, the `take` of the loops, bounds |
| `Format` | envelopes, manifests, superblocks, channel messages; choosing and reading back a superblock |
| `BlockDevice` | the daemon: connections, `read_at`, `write_at`, `flush`, the store, the channel, failures, crashes, restarts. Properties and the inductive invariant at its end |
| `AbstractDisk` | the abstract specification: a disk with a write-back cache |
| `DeviceRefinement` | the mapping from `BlockDevice` to `AbstractDisk` |
| `ReadHistory` | `BlockDevice` with a history variable, to say which values a read may return |
| `ScanWindow` | `BlockDevice` with a history variable that counts the messages flushes set out to send since the last superblock |
| `WalRanges` | the `wal_entries` rows of one object and generation |
| `ManifestTree` | how a manifest is put on the channel, flat or as a tree of leaves, and found again |
| `Lifecycle` | the commands of the CLI, the mount lock, a channel whose messages can be deleted |
| `LifecycleDisk` | `Lifecycle` with what the device holds and what is durable, and the mapping to `AbstractDisk` |
| `NbdServer` | the connections of an export: negotiation, the request loop, sockets, clients |
| `MCDevice`, `MCReadHistory`, `MCScanWindow`, `MCLifecycle`, `MCNbd` | small request sets, scenarios and clients for TLC |
| `ExtremaProofs`, `WalRangesProofs` | proofs about minima and maxima, sequences of sequences, `wal_entries` |
| `BlockDeviceProofs`, `DurabilityProofs`, `ReadableProofs`, `ReadHistoryProofs` | proofs about the device, each on top of the one before |
| `LifecycleProofs` | proofs about manifest trees and the life of a device |
| `NbdServerProofs` | proofs about the server |

### BlockDevice

An action is the stretch of a handler between two points where another task can
run (an await of a mutex or of the network); the label `pc[c]` says where
connection `c` stands and `loc[c]` holds its handler's locals.

- `dirty_objects`, `files`, `manifest_state` survive the process and not the
  machine. `files` maps (object, generation) to contents, because that pair makes
  the file name. Writing a file takes two actions, since `fs::write` truncates
  first, a flush reads files without the store mutex, and a process may die in
  between; the value `Torn` is the file in the meantime.
- `manifest`, `manifest_lock`, `store_lock` are the daemon's memory. A mutex held
  for less than one action is only tested; one held longer (the manifest mutex by
  prefetch and flush, the store mutex across a file write) is recorded.
- `channel` is the sequence of messages, `pinned` the id of the pinned one.
- `budget` holds what is left of the bounds: requests, failing calls, crashes,
  moves. Reads are not bounded.

| Code | Actions |
|---|---|
| `handle_client` | `BeginRead`, `BeginWrite`, `BeginFlush`, `Reply`; `Abort` for an error, which closes the connection |
| `read_object` | `ReadDirty`, `ReadDirtyRejected`, `ReadNotDirty`, `ReadEntry`, `ReadOutOfRange`, `ReadCache`, `ReadCacheRejected`, `FetchObject`, `FillOpen`, `FillBytes` |
| `write_dirty_object` | `CheckLimit`, `LimitReached`, `NextGeneration`, `WriteCacheOpen`, `WriteCacheBytes`, `MarkDirty` |
| `prefetch_objects` | `PrefetchDirtyIds`, `PrefetchLock`, `PrefetchSkip`, `PrefetchWant`, `PrefetchRejected`, `PrefetchScanned`, `PrefetchFetch`, `PrefetchFillOpen`, `PrefetchFillBytes` |
| `flush`, `commit_manifest`, `upsert_pinned_superblock` | `FlushList`, `FlushLock`, `FlushObject`, `FlushRejected`, `FlushMissingObject`, `FlushManifest`, `FlushSuperblock`, `FlushPin`, `FlushBackup`, `FlushReplace`, `FlushClear` |
| a network call fails | `SendFails`, `PinFails` (the effect may have happened all the same), `FetchFails` |
| a store call fails | `QueryFails`, `WriteCacheFails`, `PrefetchQueryFails`, `PrefetchFillFails`, `MarkDirtyFails`, `FlushClearFails` |
| process death and restart with the local store | `Crash` |
| start on a fresh machine | `RestartElsewhere`; `RestartOnPrevious` when the current manifest cannot be fetched |

What is abstracted:

- A unit is a logical sector and holds one of a few values.
- SHA-256 is injective: a digest is modelled by the bytes it is of, and `Verifies`
  is what `ObjectEnvelope::decode` and the digest comparison accept.
- A message is never edited; its id is its position. The service message that
  Telegram adds for a pin is left out.
- The digest in a superblock is left out, being settled by the message id. The
  device size is kept, because recovery compares it with the configuration. The
  device UUID is the same everywhere (one device per channel).
- The readback of an uploaded manifest and the lookup of the pinned message are
  part of the send they go with; their failures are those of `SendFails`.
- A crash loses the process. Loss of writes the operating system had not yet put
  on the disk (a power failure) is not modelled.
- Messages are never deleted, so a fetch of what a manifest refers to fails only
  when the network does (that everything referred to is there is
  `CommittedBacked`, proved).
- `formatted_size` is the configured size when `format` ran and `device_size` the
  one the daemon runs with; they differ in one run, since `serve-nbd` does not
  compare them.
- `FormatModes` says which of `format` and `format --local-only` made the device;
  the second leaves the channel empty, which is the only way the daemon comes to
  pin a superblock itself.

### ManifestTree and Lifecycle

`BlockDevice` splits the daemon into its smallest steps on a channel that only
grows. `Lifecycle` looks at a device for longer: it is formatted, served, killed,
collected, rolled back, formatted again, recovered elsewhere. A command, or a
request to the daemon, is one action there, and inside it only the sends to the
channel can fail half way; `FlushFails` and `FormatFails` stop after any number of
messages, with the last one acknowledged or not. `gc` and `recover-from-remote` hold
something they read before they use it and take no lock, so they are split there.

| Code (`main.rs`) | Actions |
|---|---|
| `serve-nbd` on each backend, its end, `MountLock` | `Serve`, `ServeLocal`, `Stop`, `RemoveLock` |
| requests to the daemon | `Write`, `Read`, `Flush`, `FlushFails`, `FlushLocal` |
| `format`, with and without `--force`, `--local-only` | `Format`, `FormatFails` |
| `recover-from-remote` | `RecoverFetch`, `RecoverReplace` |
| `gc --yes` | `GcStart`, `GcDelete`, `GcFails` |
| `recover` | `Rollback`, `RollbackFails` |
| `flush` | `FlushCommand` |
| `status`, `fsck`, a `serve-nbd` that refuses to start | `OpenStore` |
| the cache directory is lost | `LoseMachine` |

- `messages` maps the ids that still exist to messages; `last_id` never goes back, so
  an id is not used twice. `pinned` is 0 when nothing is pinned, also after the
  pinned message was deleted.
- `store` is the sqlite file and the cache files together; `store.files` is keyed by
  object and generation like the cache directory, and outlives every manifest.
- `daemons[p]` holds a process's manifest and, with the local backend, the messages in
  its `MemoryBackend`, which end with it.
- `config` is the scenario: the size of the device, the commands its operator uses,
  the bounds. Bounds are `formats`, `writes`, `flushes`, `rollbacks`, `faults`,
  `losses`. The UUID of a format is the number of formats left, which is never the
  same twice.

What is abstracted: an object holds one value; the digest next to a message id is
settled by the id; the channel is shorter than the scan window; the sizes of a
device do not change once it is formatted; the writes of an operator cover whole
objects.

Two premises say which practices the properties are about. `Sound` leaves out the
commands after which a manifest may refer to messages that are gone or were never
sent: `recover`, `flush`, and `recover-from-remote` beside a daemon; and, on a device
that is served with `--backend local`, the commands that use the channel with its saved
manifest: `gc`, and a later `serve-nbd --backend telegram`. `Careful` also leaves out
formatting over a device that was in use, and `recover-from-remote` on a device that is
served locally. Section 3 says what the program does beyond them. Which of the commands
an operator uses is part of the scenario, `recover-from-remote` too.

### NbdServer

`BlockDevice` has what the handlers of several connections do to the device step by
step; `NbdServer` has what they do to their streams, over the device `AbstractDisk`
promises. A stream is a sequence of tokens, a header or one unit of data, and only
the protocol says which is which: the server takes a data unit for a bad magic where
it reads a header, and a header for data where it reads a payload. A socket holds
`Buffer` tokens in each direction; writing to a full one waits.

| Code (`server.rs`) | Actions |
|---|---|
| `NbdExport::serve`, `handle_client` | `Accept`, `Drain`, `Eof` |
| `negotiate`, `parse_go_export_name` | `ReadFlags`, `ReadOption` |
| `Request::read_from`, the payload, `discard_payload` | `ReadRequest`, `TakeData` |
| the commands | `ServeRead`, `ServeWrite`, `ServeFlush`, `ServeDisc`, `ServeUnsupported` |
| an error of the device | `DeviceFails` |
| an NBD client (external) | `SendFlags`, `SendOption`, `SendRequest`, `Receive`, `HangUp` |

`bounds_ok` is a checked sum, the one in the device wraps; `MAX` stands for 2^64 in
both. The semaphore of `handle_client` is left out: a connection holds one permit at
a time and serves one request at a time. `Keeps` is a client that keeps to the
protocol; one that takes up the offer of no zeroes and then uses `EXPORT_NAME` is left
out, because the server sends it the zeroes all the same (section 3).

## 3. What is checked

In the device runs objects are two units and the device three (three objects of one
unit in `DeviceHostile`), so that a request may cover part of an object, a whole one,
two of them, and the last object lies partly outside the device. Values are 0, 1, 2:
what was there, and two writes that can be told apart. Two connections suffice for
every race of a pair; two or three flushes let a generation be superseded, fail and
be retried.

| Run | Instance | Properties |
|---|---|---|
| `DeviceHostile` | two connections that do everything (symmetric); one failed network call, one failed store call, one crash, one move; dirty limit 1; device of three objects configured on a manifest of two | `TypeOK`, `CommittedBacked`, `NoLiveGarbage`, `DirtyBounded` |
| `DeviceFaults` | one connection; two writes, three flushes; one failed network call and one failed store call; both ways of formatting; a scan window of 7 messages | `CleanMeansDurable`, `WindowSuffices`, `ImplementsDisk` |
| `DeviceCrashes` | one connection; one crash and one move; three flushes; a scan window of 5 messages | `GcSafe`, `CleanMeansDurable`, `ImplementsDisk`, `RecoveryNeverGoesBack`, `ScanReaches`, `RestartsCountOn` |
| `DeviceLiveness` | a reader with read-ahead beside a writer that flushes; one failed store call, one failed network call; a device that was formatted locally, so that the first flush pins; fairness | `RequestsEnd` |
| `ReadHistory` | the same two connections with the read history; one failed network call, one move | `ReadsCurrent`, `DirtyReadable`, `CleanReadable`, `FlushFindsFiles` |
| `WalRanges` | one object of nine units, all orders of writes | `WalTypeOK`, `WalSeparated`, `WalCovers` |
| `Lifecycle` | two processes; devices of three objects (a tree of two leaves) and of two (flat); telegram and local backends; each unsound command in a scenario of its own | `LifecycleTypeOK`, `Readable`, `RecoveryComplete`, `ServeStarts`, `CommandsKeepDisk`, `StartsCountOn`, `ServesDurable` |
| `NbdServer` | twelve clients alone and one pair; sockets of two tokens; one failing call of the device; hang-ups anywhere; fairness | `NbdTypeOK`, `InStep`, `NotDropped`, `AnswersSequential`, `FlushedDurable`, `ServesDisk`, `Answered` |

`ImplementsDisk` is the refinement: `disk` is mapped to what a read would return
(`Content`) and `durable` to what a fresh machine would recover
(`RecoveredContent`). It says that the device changes only by writing part of a
request to its own range, by making the whole contents durable in one step (the
superblock message), or by falling back to what is durable. `CommandsKeepDisk` is
the same refinement for the commands, with the contents computed by `Content` and
`Durable`; `ServesDisk` says of the server that its connections change the device
only by writes that clients sent.

`DirtyBounded` is about the dirty limit, which is counted under the store mutex and
used after its release: connections can exceed it, by less than their number.
`RecoveryNeverGoesBack` uses a window that is just long enough for the flushes of its
run; one message less and it fails (its mutant). `ScanReaches` (a recovery reaches the
superblock in force) and `RestartsCountOn` (a process that dies leaves a local manifest
at most one generation behind the channel, and no recovery has to take the previous
manifest) are the premises of the proofs of section 4 about durability: the run shows
that they hold where a crash and a move can happen anywhere in three flushes, and the
theorems `RecoveryReaches`, `FailuresLoseNothing` and `RestartsDoCountOn` say when they
hold of any number.

`WindowSuffices` says when the window is long enough: `exposed` counts, when a flush
begins to send, its objects and its manifest, and a superblock that arrives sets it to 0;
while it is below `scan_limit` (200 in the program), a recovery reaches the superblock in
force. In the run `DeviceFaults` a flush sets out to send two or three messages, so that
a failed one and the next come to within one of the window of 7, and one message less
breaks the property (its mutant). The limit is one of the program: up to 4096 objects may
be dirty, and a flush of 199 of them, or failed ones that add up to that, does hide the
superblock in force.

`ServesDurable` compares the device and the channel where the refinement does not: as
`AbstractDisk` may lose its local state at any step, `CommandsKeepDisk` does not say that a
restart finds what was flushed. `ServesDurable` does, for a daemon that starts over a store
without dirty rows, after any commands, kills and failures of the sound scenarios.

`FlushFindsFiles` is about the files of the dirty rows, which `flush` reads one after the
other without the store mutex while reads and read-ahead write files beside it.

Sizes of `Lifecycle`: three objects with a leaf span of two make a full leaf and a
short one; two writes and two flushes make one message garbage and one superblock
old; two formats make one device follow another. Sizes of `NbdServer`: sockets of two
tokens are shorter than a request with its payload and shorter than a reply with its
data, so both directions fill up; three units with `MAX` 8 let a range end at, after
and far after the device, and wrap.

`StartsCountOn` is for `Lifecycle` what `RestartsCountOn` is for the device: a daemon that
starts with a saved manifest is at most one generation behind the channel. It holds in
every scenario of the run, whose budgets allow one failing commit. With two it does not:
in a scenario of three writes, three flushes and two faults TLC finds a first flush that
fails before its superblock and leaves the manifest in memory at generation 1, a write
that takes generation 2, a second flush that fails after its superblock, and a restart
with the saved manifest of generation 0.

**Fairness.** `RequestsEnd` assumes strong fairness of the steps of each
connection. tokio's mutexes are first come, first served, so a handler that finds
the mutex free again and again gets it; network calls that neither answer nor
fail are excluded, as the client library times them out. Failures may happen, and
no fairness is assumed of them. `Answered` assumes weak fairness of each server task,
which the runtime gives, and of the client's `Receive`: a client goes on reading what
it is sent. It need not go on sending, and may hang up. `CHECK_DEADLOCK FALSE` in
`NbdServer.cfg`: clients run out of requests and everything ends.

### Where the code and its documents disagree

Four runs show, each with one property, that the code does not do what a
document, a message or a test of the repository says. The passing runs
above stay on the side of the line these runs draw: one connection, or one that
writes and one that only reads; crashes and failed calls not together; a window long
enough for its flushes; and the premises `Sound`, `Careful` and `Keeps`.

| Run | What happens |
|---|---|
| `FlushRace` (`FlushKeepsContent`) | a write acknowledged during another connection's flush is deleted when that flush clears all dirty rows |
| `CrashDirty` (`DirtyReadable`) | a crash while a dirty object is rewritten in place leaves a row whose file does not verify: neither reads nor flushes succeed again |
| `GenerationRegress` (`CleanMeansDurable`) | after a failed flush and a crash during the next commit, a successful flush has a lower generation than the one on the channel, and recovery passes it over |
| `FlushCommand` (`TakesEffect`) | `tgdrive flush` uploads the dirty objects into a memory backend of its own and clears the dirty rows: nothing reaches the channel |

Further places where the program leaves the premises of the passing runs, seen on the
same models and not kept as runs; no property of the passing runs covers them, which the
hazards in PROJECT.json say too:

- With two connections that write different sectors of one object at the same time,
  `write_at` reads, merges and writes back without a lock, and the sector written first is
  taken back. It takes a client that writes on two connections, which the server accepts
  without announcing that it supports several.
- A crash while a fetched object is cached leaves a torn file of a clean object, which is
  an error at every later read and not a miss: `CleanReadable` fails with one crash and one
  move to another machine.
- A flush of as many messages as the scan window hides the superblock in force until its
  own arrives; a recovery meanwhile, or after the flush failed, falls back to the pinned,
  first one: `RecoveryNeverGoesBack` fails with a window of three messages and a flush of
  two objects.
- The manifest that `recover` publishes has a lower generation, and the next recovery
  undoes the rollback: `TakesEffect` fails in the scenario `MCRollback`.
- `recover` publishes the root of a tree as a flat manifest. Where generations tie, on a
  tree device that was formatted twice, it is in force and does not decode, and nothing can
  be recovered.
- `format` over a device in use publishes generation 0, which is passed over in favour of
  the old device: `TakesEffect` fails in the scenario `MCReformat`.
- `recover-from-remote` beside a daemon saves a manifest it fetched before the daemon
  flushed; the restarted daemon does not have the flushed writes. Without its premise
  `ServesDurable` fails in the scenario `MCBeside`.
- A client that takes up the offer of `NO_ZEROES` and uses `EXPORT_NAME` gets the 124
  zeroes all the same, and takes them for a reply. `InStep` without the conjunct of
  `Keeps` about it fails.
- The pinned message is never replaced, so the previous manifest of every superblock
  is that of the first.
- After `recover`, or `recover-from-remote` beside a daemon, generations are used
  again, and a cache file of the old life is met under the name of the new one:
  `Readable` fails with a checksum mismatch.
- A device is served with `--backend local`, whose references are ids of the daemon's
  memory, and is then served on Telegram or collected: the saved references are ids of
  other messages, so reads fail and `gc` deletes messages that are in use. (Found when the
  proof of `RecoveryComplete` failed: `Sound` used to allow it, and the scenarios of the
  run did not contain it.)
- `recover-from-remote` on a device that is served locally replaces the saved manifest by
  the empty one of the channel and keeps the dirty rows: objects that were flushed
  locally fall back to zeroes, objects that were not keep their contents.

## 4. What is proved

All proofs are checked by TLAPS with its SMT, Zenon and LS4 backends, for every
value of the constants that satisfies `SizeAssumption`, `FormatAssumption`,
`DeviceAssumption`, `WalAssumption`, `NbdAssumption`, `TreeAssumption` and
`LifecycleAssumption`: sizes and sockets are positive,
requests to the device are in bounds (the server's `bounds_ok`), 0 is a value, `None` and
`Torn` are not contents, the bounds are numbers, 2^64 is more than the device size, and
an NBD client sends options and requests, each WRITE with as much data as its header
says; leaves have a positive span, and the scenarios of `Lifecycle` are finitely many. The number of connections, objects, failures, crashes, and the programs of the
clients are arbitrary; the connections that write are finitely many.

| Theorem | States | Under |
|---|---|---|
| `BlockDeviceProofs!Invariance` | `[]DeviceInv` | |
| `BlockDeviceProofs!TypeCorrect` | `[]TypeOK` | |
| `BlockDeviceProofs!CommitsAreBacked` | `[]CommittedBacked` | |
| `BlockDeviceProofs!GarbageIsDead` | `[]NoLiveGarbage` | |
| `BlockDeviceProofs!BackpressureHolds` | `[]DirtyBounded` | |
| `DurabilityProofs!RecoveryGoesForward` | `RecoveryNeverGoesBack` | `[]ScanReaches` |
| `DurabilityProofs!DurableInvariance` | `[]DurableInv(w)` | (D) |
| `DurabilityProofs!CleanIsDurable` | `[]CleanMeansDurable` | (D) |
| `DurabilityProofs!GcIsSafe` | `[]GcSafe` | (D) |
| `DurabilityProofs!DeviceImplementsDisk` | `ImplementsDisk` | (D) |
| `DurabilityProofs!FlushLosesNothing` | `FlushKeepsContent` | (D) |
| `DurabilityProofs!RecoveryReaches` | `[](DurableInv(w) /\ ScanReaches)` | one writer, (W), `RestartsCountOn` |
| `DurabilityProofs!FailuresLoseNothing` | `[]ScanReaches`, `[]CleanMeansDurable`, `[]GcSafe`, `ImplementsDisk`, `FlushKeepsContent`, `RecoveryNeverGoesBack` | one writer, (W), (N) |
| `ReadableProofs!SnapshotInvariance` | `[]SnapshotInv(w)` | one writer |
| `ReadableProofs!ReadableInvariance` | `[]ReadableInv(w)` | (R) |
| `ReadableProofs!DirtyIsReadable` | `[]DirtyReadable` | (R) |
| `ReadableProofs!CleanIsReadable` | `[]CleanReadable` | (R) |
| `ReadableProofs!FlushReadsWholeFiles` | `[]FlushFindsFiles` | (R) |
| `ReadableProofs!RestartsDoCountOn` | `[]ScanReaches`, `RestartsCountOn` | one writer, (W), (C) |
| `ReadableProofs!CrashesLoseNothing` | `[]CleanMeansDurable`, `[]GcSafe`, `ImplementsDisk`, `FlushKeepsContent`, `RecoveryNeverGoesBack` | one writer, (W), (C) |
| `ReadHistoryProofs!ReadsAreCurrent` | `[]ReadsCurrent` | one writer |
| `NbdServerProofs!NbdInvariance` | `[]NbdInv` | |
| `NbdServerProofs!NbdTypeCorrect` | `[]NbdTypeOK` | |
| `NbdServerProofs!StaysInStep` | `[]InStep` | |
| `NbdServerProofs!KeepsClients` | `[]NotDropped` | |
| `NbdServerProofs!AnswersAreSequential` | `[]AnswersSequential` | |
| `NbdServerProofs!FlushesAreDurable` | `[]FlushedDurable` | |
| `NbdServerProofs!ServerServesDisk` | `ServesDisk` | |
| `WalRangesProofs!WalTypeCorrect`, `WalApart`, `WalMerged` | `[]WalTypeOK`, `[]WalSeparated`, `[]WalCovers` | |
| `BlockDeviceProofs!LocateInRange` | an in-bounds offset lies in an object that exists | |
| `LifecycleProofs!TreeReadsBack` | a tree that was sent reads back as its manifest | |
| `LifecycleProofs!LifecycleTypes` | `[]LifecycleTypeOK` | |
| `LifecycleProofs!MachineServes` | `[]ServeStarts` | |
| `LifecycleProofs!RecoveryHolds` | `[]RecoveryComplete` | `StartsCountOn` |
| `LifecycleProofs!ReadableHolds` | `[]Readable` | `StartsCountOn` |
| `LifecycleProofs!DiskKept` | `CommandsKeepDisk` | `StartsCountOn` |
| `LifecycleProofs!RestartsServeDurable` | `ServesDurable` | `StartsCountOn` |
| `LifecycleProofs!StartsHold` | `StartsCountOn` | (F) |
| `LifecycleProofs!OneFaultLife` | `[]Readable`, `[]RecoveryComplete`, `CommandsKeepDisk`, `ServesDurable` | (F) |

The premises keep out the histories that the violation runs show, and no more than the
argument needs. All but the fixed ones are premises on the history, not on the size of the
device.

- *One writer*, `OneWriter(w)`: one connection writes and flushes, any number read. With
  two the run `FlushRace` loses a write.
- *(D)*: one writer, `[]ScanReaches` and `RestartsCountOn`. Failed calls of the network
  and of the store are allowed, in any number. `RestartsCountOn` excludes what the run
  `GenerationRegress` does, and a recovery that falls back to the previous manifest of a
  superblock, which is an older state by design. It is a premise on the history and not a
  bound on crashes, because whether it holds depends on where they fall: with two
  crashes it can fail even without a failing send. A flush that meets a file torn by the first crash is rejected
  with the manifest in memory already raised, and a second crash between the superblock
  of the next flush and `replace_from_manifest` leaves the channel two generations ahead.
  (W), (N) and (C) are what the two premises come down to.
- *(W)*: the device makes its steps with the count of module `ScanWindow`, and
  `[]ShortFlushes`: the flushes begun since the last superblock arrived, those that ended
  early and the one under way, set out to send fewer messages than the scan window has,
  their objects and their manifests together. In the program that is 199 messages: of a
  default device of 256 objects, or of any other, 198 may be dirty when a flush begins, or
  48 while up to three flushes fail one after the other and a fourth succeeds. How often
  flushes fail otherwise does not matter, since each superblock starts the count anew. The
  premise cannot be left out: where it fails, so does the program (section 3: a flush that
  sets out to send exactly as many messages as the window has).
- *(N)*: `MaxCrashes = 0`, and no recovery that makes do with a previous manifest. Calls
  of the network and of the store may fail in any number and machines may be changed.
- *(C)*: `MaxFaults = 0`, `MaxStoreFaults = 0`, a manifest that has every object of the
  device, and `[][TearsLast]_vars`: a process that dies in the middle of a cache file is
  the last that dies. Any number of processes may die anywhere else, and machines may be
  changed. One crash and one failed call together is what `GenerationRegress` shows; a
  crash that tears the file of a dirty row makes later flushes fail (`CrashDirty`), and a
  flush that fails followed by a crash is again that history.
- *(F)*: `FewFaults`, every scenario's budget allows at most one commit that fails. The
  number of everything else is arbitrary: formats, writes, flushes, restarts, kills, lost
  machines, collections, recoveries, objects, processes. `StartsCountOn` can be had with
  more failures too, and is the weaker premise; section 3 has a history with two in which
  it fails.
- *(R)*: one writer, `MaxStoreFaults = 0`, and `[][~TornCrash]_vars`: no process dies in the
  middle of a cache file. The network may fail, processes may die anywhere else, and
  machines may be changed. What the premise leaves out is what the run `CrashDirty`
  shows of a dirty object; section 3 tells of the clean one.

### The device

`CommittedBacked` is not inductive: what is published comes from the manifest in
memory, which a failed flush leaves half changed and a restart replaces. The
strengthening `DeviceInv` has three parts. `VariablesOK` is typing. `RemoteOK`
says that the manifest in memory, the saved one and every one on the channel refer
only to messages that are there and verify, and list as garbage only messages that
exist and that they do not refer to; that every superblock refers to such
manifests; and that the pinned message is a superblock. `ConnectionsOK` says what
a handler's locals hold at each label: that a request still lies within the
device, that a superblock about to be sent is backed, that the message about to be
pinned is one. The key steps are that an upload keeps a manifest backed even when
the commit then fails (`UploadedOK`; a new message has an id no manifest knows, so
the reference given up is not in use), that a channel that grows serves what it
served before (`GrowsKeeps`), that the superblock built from the pinned one is
backed (`CommitOK`), and that whatever recovery chooses is a superblock on the
channel (`RecoverOK`).

`DirtyBounded` is not inductive either: it says nothing of the connections that were
let through and have yet to mark their object. `LimitInv` counts them with the rows
(`LimitKept`): a connection let through finds room and adds one, `mark_dirty` moves it
from one count to the other, and nothing else adds to either. That at most all
writing connections are let through at once needs that only they have a write under
way (`OnlyWritersWrite`) and, from `DeviceInv`, what a handler's locals hold at these
steps.

### Durability and the refinement

`CleanMeansDurable` compares the two ends of a commit and says nothing of what lies
between. `DurableInv(w)` does, for the one writer `w`:

- `GenerationsOK`: the generation the next flush will publish, taken from the dirty rows,
  is at least that of every superblock on the channel. This is where a commit becomes
  visible to a recovery, and what a restart two generations behind would break.
- `AgreementOK`: the manifest in memory, the saved one and the one in force on the
  channel agree on the contents of every object that has no dirty row, and what the saved
  one calls garbage the one in force does not use. Objects with a row may differ: a failed
  flush has uploaded some of them and not others.
- `FlusherOK`, `WriterOK`, `RoleOK`: at each label, what a flush has uploaded so far is
  what its rows say, what the superblock it holds refers to is the manifest in memory,
  and the object a write is merging into is the one the device holds.

The refinement follows step by step: only `MarkDirty` changes `Content`, by the bytes of
the request that fall into one object (a `Disk!Write` of part of the request); only the
send of a superblock changes `RecoveredContent`, to `Content` (a `Disk!Sync`); a move to
another machine falls back to `RecoveredContent`; every other step stutters.

`ScanReaches` is about the whole of the channel since the last superblock. `ExposedInv(w)`
is a balance: the messages sent since the superblock in force, and those that the flush
under way has still to send before its own (`ToSend`), never exceed `exposed`. A flush that
begins adds to both what it sets out to send; an object or a manifest sent moves one
message from the second to the first; a flush that fails, or dies, only gives up the second;
a superblock sets them to 0. `ExposedInv` and `DurableInv` are inductive only together: the
superblock a flush sends is in force because of `GenerationsOK`, and a restart on another
machine finds it because of `ExposedInv` and `ShortFlushes`.

Where no process dies, `RestartsCountOn` holds of itself (`FailuresLoseNothing`). Where no
call fails it takes a third part, `SteadyInv(w)`: as long as a process may
still die, the channel is at most one generation ahead of the store, the manifest in
memory is ahead of the store only between the lock of a flush and its end, and then no row
is ahead of the manifest. A crash in a flush takes the manifest back by one and finds the
rows one ahead, which is where a device at rest may have them; the next flush takes that
generation again. A flush that is rejected would be different: it leaves the manifest in
memory raised and no flush under way, and the next write takes the generation after. That
none is, as long as a process may still die, is a fact about the files: `SoundUntilTorn`
carries `ReadableInv` of the next section up to the crash that tears a file, and what that
one leaves is the last that counts.

### Readability and reads

`DirtyReadable` and `CleanReadable` are about files whose names are pairs of object and
generation. `ReadableInv(w)` speaks of *claims* <<object, generation, digest>>: a dirty
row makes one, so does an entry of the manifest, and so does an entry that a reader or
a read-ahead copied before the manifest moved on; so do the entries of the saved manifest,
since they are those of the next process. A crash leaves the files and the rows and drops
the claims of the handlers; what it must not leave is a file half written. Claims with the same name agree
(`ClaimsAgree`), a file that nobody is writing is what is claimed of it (`FilesAgree`),
whoever writes a file holds the store mutex, and generations of clean claims are not
above that of the manifest, so that a write, which takes the next one, never lands on a
file that a clean claim names.

`FlushFindsFiles` adds the one thing that `FilesAgree` leaves open, a file that somebody
is writing at the moment at which `flush` reads it. `FillsApart` says that no file a
handler or its read-ahead is about to fill, from the decision on, is that of a row: what
they are about to write was not in the cache when they looked, what has a row is, and a new
row is of a generation above every clean claim. The other files are written by writes, and
the writer is the connection that flushes.

`ReadsCurrent` needs no premise on failures: a reader copies the entry or the row it
finds, and `HistoryInv` says that what it has copied, what it holds and what it is about
to find was the content at some moment of its window. The delicate label is `read_entry`,
where the reader has seen that the object is not dirty and has not yet looked at the
manifest: a write in between is not in the manifest, and a flush that puts it there has
been under way during the window (`SnapshotInv`: the rows a flush copied are still the
rows, since nobody writes beside it).

### The server

`NbdInv` relates the two ends of each connection. `FramingOK`: what is in the socket
followed by what the client has yet to send is the client's stream from the point the
task has taken (`Taken`), token by token; this is what makes the server find a header
where there is one. `NegotiationOK` gives the joint position of client and task while
options are exchanged. `AnswersOK` and `RepliesOK`: the tokens in the other direction,
those the task is still writing included, are the next ones of the `Plan` of replies that
the requests call for. `ContentOK`: a unit that no other client writes holds what the
requests carried out so far have left there (`UnitAfter`), with the one exception of a
write that failed half way. `DurableOK` is the same for what the last flush covered.

A stream is defined by folding over requests. What the fold gives at each position
(`StreamPlaces`, `PlanPlaces`, `Flattened`, `Layout`) is proved by induction on sets of
numbers: the set of lengths for which the statement holds contains 0 and with n also
n + 1 (`SetInduction`), which avoids the induction theorems with an operator parameter.

### The life of a device

The invariants of `Lifecycle` come in layers, each of which uses those before it.

- `TypesOK` and `Exclusive`: types, and that the mount lock keeps a second daemon out,
  also when a killed one left the lock behind and it was removed.
- `SoundInv`, for `Sound` scenarios: every manifest that a superblock names, that is
  saved, served or held by `recover-from-remote` refers only to messages that are objects,
  or were until `gc` deleted them (`RefsOK`); every superblock names a manifest that can
  be fetched and has its UUID, and a UUID is not used by a later format. The key lemma
  is `Commits` (`FlushCommits`, `FormatCommits` and their failing forms): whatever part
  of a commit reaches the channel, either no superblock is new or the new ones name the
  whole manifest. For a tree this rests on `TreeReadsBack`, an induction on sets of
  numbers as for the server's streams.
- `SameDevice`, for `Careful` scenarios: saved, served and published manifests are of one
  device. It gives `ServeStarts`.
- `StepInv`, for `Sound` scenarios on Telegram: the local store is in step with the channel. The
  manifest in force has all its messages (`There`); rows are not behind it (`Ahead`), so
  the next flush cannot be passed over; a cache file that stands under the name of one of
  its entries holds it (`Fresh`); manifests that are saved or served agree with it in every
  object that has no dirty row (`Agrees`); and what `gc` is deleting, or would read from
  the saved manifest, is garbage of the manifest in force. Readable and RecoveryComplete
  are not inductive without it: nothing else says that what `gc` took from an older saved
  manifest is not live.

`StepInv` is kept by every step but a start of a daemon on a manifest two generations
behind, which is what `StartsCountOn` excludes. `FaultInv` proves that premise from (F):
while the one fault is left all generations are even (saved, served, in force), and
after it the saved manifest is at most one behind (`Near`), which a write that takes the
next generation, and a flush with the rows the failed one kept, never increase.

`DiskKept` computes the disk from these: by `StepInv` what a reader gets is the dirty file
or what the manifest in force on the channel says (`Shown`; of a local device, the saved
manifest), whoever serves it. A write changes one object of it (`WriteShown`); a commit
makes it durable and leaves it (`CommitShown`), also one that fails after its superblock;
a lost machine falls back to the channel; every other step changes neither rows nor what
clean objects hold (`NothingChanges`). `RestartsServeDurable` needs less: by `StepInv` a daemon
that just started agrees with the channel on every object without a dirty row.

### wal_entries

`WalInv` rests on what the minimum and maximum of a finite set are
(`ExtremaProofs`) and on the rows a merged range touches being exactly the rows
the written range touched.

### Only model-checked

- `RequestsEnd` and `Answered`: liveness, which this version of the prover does not do.
- That the premises of section 4 cannot be weakened: the counterexamples for what they
  leave out are TLC's.

## 5. What is not modelled

- The byte layouts of envelopes, manifests, superblocks and NBD messages, and their
  JSON: a decoded message is a record with what verification tells apart.
- Login, the session file and channel resolution (`client.rs`), the `login`
  and `resolve-channel` commands: they talk to the user and to a third-party library
  and touch no contents of the device. The session file is rewritten in place and can
  be torn; that hazard is listed without a property.
- Configuration parsing: its results are constants here.
- `classify_error`, which nothing calls; metrics and benchmarks, which nothing decides
  on; `evict_clean_lru`, which only tests call.
- The vendored Telegram client, and the scripts.
- Power failures that lose writes the operating system had not put on the disk.

## 6. Plan

1. A property like `ServesDurable` for the restarts of the device, in `BlockDevice`, where
   reads and flushes are taken apart at every await.
2. The cache as a module of its own with `evict_clean_lru`, should it be called.
