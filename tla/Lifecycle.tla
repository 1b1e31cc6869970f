------------------------------ MODULE Lifecycle ------------------------------
(***************************************************************************)
(* The life of a device across commands: the subcommands of                *)
(* crates/tgdrive-cli/src/main.rs, run by an operator on one machine over  *)
(* its local store (cache.rs), the channel (client.rs) and the mount lock. *)
(*                                                                         *)
(* A command, or a request to the daemon, is one action; inside it only    *)
(* the sends to the channel can fail half way (module BlockDevice has the  *)
(* steps of the daemon).  gc and recover-from-remote take no lock, so they *)
(* are split where they hold something they read before.                   *)
(***************************************************************************)
EXTENDS ManifestTree

CONSTANTS
  Processes,       \* tgdrive serve-nbd processes
  Value,           \* what an object can hold, 0 included
  Scenarios        \* set of [object_count, commands, budget]: the size of the device,
                   \* the commands its operator makes use of, the bounds

Budget ==
  [formats : Nat, writes : Nat, flushes : Nat, rollbacks : Nat, faults : Nat, losses : Nat]

Commands == {"serve --backend telegram", "serve --backend local", "gc", "recover", "flush",
             "reformat", "recover-from-remote", "recover-from-remote beside a daemon"}

Manifest ==
  [device_uuid : Nat, generation : Nat, garbage : SUBSET Nat,
   objects : Seq([object_id : Nat, generation : Nat, remote : Nat, payload : Value])]

\* The objects of a MemoryBackend.
Memory == Seq([kind : {"object"}, object_id : Nat, generation : Nat, payload : Value])

\* A running daemon.
Process == [manifest : Manifest, memory : Memory \cup {None}]

ASSUME LifecycleAssumption ==
  /\ 0 \in Value
  /\ None \notin Value /\ None \notin Manifest /\ None \notin Memory /\ None \notin Process
  /\ IsFiniteSet(Scenarios)
  /\ \A s \in Scenarios : /\ s.object_count \in Nat \ {0}
                          /\ s.commands \subseteq Commands
                          /\ s.budget \in Budget

VARIABLES
  config,        \* the scenario
  messages,      \* the channel: id -> message, deleted ones removed
  last_id,       \* the id of the newest message
  pinned,        \* the id of the pinned superblock, 0 when there is none
  store,         \* LocalStore: the sqlite file and the cache files
  mount_lock,    \* cache_dir/mount.lock exists
  daemons,       \* per process: None, or its manifest and its backend's memory
  gc,            \* the ids a running `tgdrive gc` has yet to delete
  fetched,       \* the manifest a running recover-from-remote is about to save
  budget

remote == <<messages, last_id, pinned>>
commands == <<gc, fetched>>
vars == <<config, remote, store, mount_lock, daemons, commands, budget>>

-----------------------------------------------------------------------------
Units == 0 .. Max({s.object_count : s \in Scenarios}) - 1
Objects == 0 .. config.object_count - 1

Allowed(command) == command \in config.commands

NoFiles == [k \in {} |-> 0]
NoDirty == [o \in Units |-> 0]

\* Before LocalStore::open created the sqlite file.
NoStore == [exists |-> FALSE, manifest |-> None, dirty |-> NoDirty, files |-> NoFiles]

\* LocalStore::open.
Opened == [store EXCEPT !.exists = TRUE]

\* replace_from_manifest: dirty_objects rows and cache files stay.
Replaced(m) == [Opened EXCEPT !.manifest = m]

\* Mutant: the rows go, and the manifest that was committed is not saved.
FlushedUnsaved(m) == [Opened EXCEPT !.dirty = NoDirty]

\* replace_from_manifest and clear_dirty_and_wal.
Flushed(m) == [Opened EXCEPT !.manifest = m, !.dirty = NoDirty]

\* The ids of dirty_objects; a row holds the generation, 0 stands for no row.
DirtyIds == {o \in Objects : store.dirty[o] # 0}

Running == {p \in Processes : daemons[p] # None}

Spend(what) ==
  /\ budget[what] > 0
  /\ budget' = [budget EXCEPT ![what] = @ - 1]

PinnedSuperblock == IF pinned = 0 THEN None ELSE messages[pinned]

Init ==
  /\ config \in Scenarios
  /\ messages = [i \in {} |-> None]
  /\ last_id = 0
  /\ pinned = 0
  /\ store = NoStore
  /\ mount_lock = FALSE
  /\ daemons = [p \in Processes |-> None]
  /\ gc = {}
  /\ fetched = None
  /\ budget = config.budget

-----------------------------------------------------------------------------
(* Sending: the first k of a sequence of messages reach the channel. *)

Send(sequence, k) ==
  /\ messages' = [i \in DOMAIN messages \cup last_id + 1 .. last_id + k |->
                    IF i <= last_id THEN messages[i] ELSE sequence[i - last_id]]
  /\ last_id' = last_id + k
  /\ LET sent == {i \in last_id + 1 .. last_id + k : sequence[i - last_id].kind = "superblock"}
     IN  IF pinned # 0 \/ sent = {}
         THEN pinned' = pinned
         ELSE IF Cardinality(sent) = 1
              THEN pinned' \in {0, Min(sent)}    \* pin_message did its work, or not
              ELSE pinned' = Min(sent)

-----------------------------------------------------------------------------
(* flush: the uploads of the dirty objects, in the order of their ids. *)

\* The position of a dirty object among the uploads.
Position(o) == Cardinality({q \in DirtyIds : q <= o})

Uploads ==
  [k \in 1 .. Cardinality(DirtyIds) |->
     LET o == CHOOSE q \in DirtyIds : Position(q) = k
     IN  ObjectMessage(o, store.dirty[o], store.files[<<o, store.dirty[o]>>])]

NewGeneration(m) ==
  IF DirtyIds = {} THEN m.generation ELSE Max({store.dirty[o] : o \in DirtyIds})

\* Mutant: it is the reference just uploaded that becomes garbage.
UploadedWrongGarbage(m, n, base) ==
  LET done == {o \in DirtyIds : Position(o) <= n}
  IN  [m EXCEPT
        !.generation = NewGeneration(m),
        !.objects = [k \in DOMAIN m.objects |->
                       IF k - 1 \in done
                       THEN ManifestObject(k - 1, store.dirty[k - 1], base + Position(k - 1),
                                           store.files[<<k - 1, store.dirty[k - 1]>>])
                       ELSE m.objects[k]],
        !.garbage = @ \cup {base + Position(o) : o \in done}]

\* The manifest after n uploads, the first of which got the id base + 1.
Uploaded(m, n, base) ==
  LET done == {o \in DirtyIds : Position(o) <= n}
  IN  [m EXCEPT
        !.generation = NewGeneration(m),
        !.objects = [k \in DOMAIN m.objects |->
                       IF k - 1 \in done
                       THEN ManifestObject(k - 1, store.dirty[k - 1], base + Position(k - 1),
                                           store.files[<<k - 1, store.dirty[k - 1]>>])
                       ELSE m.objects[k]],
        !.garbage = @ \cup ({m.objects[o + 1].remote : o \in done} \ {0})]

\* All that a flush of manifest m through Telegram sends.
FlushMessages(m) ==
  LET n == Len(Uploads)
  IN  Uploads \o CommitMessages(Uploaded(m, n, last_id), PinnedSuperblock, last_id + n + 1)

-----------------------------------------------------------------------------
(* The daemon: serve-nbd and the requests it serves. *)

\* Mutant: an existing mount.lock is not looked at.
AcquireAnyway == mount_lock' = TRUE

\* MountLock::acquire: create_new.
Acquire == ~mount_lock /\ mount_lock' = TRUE

\* serve-nbd --backend telegram, with a local manifest of the device on the channel,
\* or without one.
Serve(p) ==
  /\ Allowed("serve --backend telegram")
  /\ daemons[p] = None /\ fetched = None
  /\ Acquire
  /\ LET i == RecoverSuperblock(messages)
     IN  \/ /\ store.manifest # None
            /\ i # 0 => messages[i].device_uuid = store.manifest.device_uuid
            /\ store' = Opened
         \/ /\ store.manifest = None
            /\ RecoverManifest(messages) # None
            /\ store' = Replaced(RecoverManifest(messages))
  /\ daemons' = [daemons EXCEPT ![p] = [manifest |-> store'.manifest, memory |-> None]]
  /\ UNCHANGED <<config, remote, commands, budget>>

\* serve-nbd --backend local: a MemoryBackend and no committer.
ServeLocal(p) ==
  /\ Allowed("serve --backend local")
  /\ daemons[p] = None /\ fetched = None
  /\ Acquire
  /\ store.manifest # None
  /\ daemons' = [daemons EXCEPT ![p] = [manifest |-> store.manifest, memory |-> <<>>]]
  /\ UNCHANGED <<config, remote, store, commands, budget>>

\* The process is killed, which leaves mount.lock behind, or its listener fails and
\* the lock is dropped.
Stop(p) ==
  /\ daemons[p] # None
  /\ daemons' = [daemons EXCEPT ![p] = None]
  /\ mount_lock' \in BOOLEAN
  /\ UNCHANGED <<config, remote, store, commands, budget>>

\* The operator removes a stale mount.lock, as the test scripts do.
RemoveLock ==
  /\ mount_lock /\ Running = {}
  /\ mount_lock' = FALSE
  /\ UNCHANGED <<config, remote, store, daemons, commands, budget>>

\* write_at of a whole object: its cache file, then its dirty row.
Write(p, o, v) ==
  LET g == daemons[p].manifest.generation + 1
  IN  /\ daemons[p] # None
      /\ Spend("writes")
      /\ store' = [store EXCEPT
                    !.dirty[o] = g,
                    !.files = [k \in DOMAIN @ \cup {<<o, g>>} |->
                                 IF k = <<o, g>> THEN v ELSE @[k]]]
      /\ UNCHANGED <<config, remote, mount_lock, daemons, commands>>

\* What a process with the given memory can fetch.
Reachable(ms, memory) == IF memory = None THEN ms ELSE memory

\* read_at of an object that is neither dirty nor cached: fetched and cached.
Read(p, o) ==
  LET e == daemons[p].manifest.objects[o + 1]
  IN  /\ daemons[p] # None
      /\ store.dirty[o] = 0 /\ e.remote # 0
      /\ <<o, e.generation>> \notin DOMAIN store.files
      /\ Fetches(Reachable(messages, daemons[p].memory), e)
      /\ store' = [store EXCEPT
                    !.files = [k \in DOMAIN @ \cup {<<o, e.generation>>} |->
                                 IF k = <<o, e.generation>> THEN e.payload ELSE @[k]]]
      /\ UNCHANGED <<config, remote, mount_lock, daemons, commands, budget>>

\* FLUSH through Telegram.
Flush(p) ==
  LET m == daemons[p].manifest
      committed == Uploaded(m, Len(Uploads), last_id)
  IN  /\ daemons[p] # None /\ daemons[p].memory = None
      /\ DirtyIds # {}
      /\ Spend("flushes")
      /\ Send(FlushMessages(m), Len(FlushMessages(m)))
      /\ daemons' = [daemons EXCEPT ![p].manifest = committed]
      /\ store' = Flushed(committed)
      /\ UNCHANGED <<config, mount_lock, commands>>

\* The same when a send fails, the store fails after all of them, or the process
\* dies: k messages reached the channel, and the last may not be acknowledged.
FlushFails(p) ==
  LET m == daemons[p].manifest
      n == Len(Uploads)
      all == FlushMessages(m)
  IN  /\ daemons[p] # None /\ daemons[p].memory = None
      /\ DirtyIds # {}
      /\ budget.flushes > 0 /\ budget.faults > 0
      /\ budget' = [budget EXCEPT !.flushes = @ - 1, !.faults = @ - 1]
      /\ \E k \in 0 .. Len(all) :
           /\ Send(all, k)
           /\ \/ \E acked \in {k - 1, k} \cap Nat :
                   daemons' = [daemons EXCEPT
                                ![p].manifest = Uploaded(m, Min({acked, n}), last_id)]
              \/ daemons' = [daemons EXCEPT ![p] = None]
           /\ \/ store' = store
              \/ k = Len(all) /\ store' = Replaced(Uploaded(m, n, last_id))
      /\ UNCHANGED <<config, mount_lock, commands>>

\* FLUSH with a MemoryBackend.
FlushLocal(p) ==
  LET base == Len(daemons[p].memory)
      m == Uploaded(daemons[p].manifest, Len(Uploads), base)
  IN  /\ daemons[p] # None /\ daemons[p].memory # None
      /\ DirtyIds # {}
      /\ Spend("flushes")
      /\ daemons' = [daemons EXCEPT ![p] = [manifest |-> m, memory |-> @.memory \o Uploads]]
      /\ store' = Flushed(m)
      /\ UNCHANGED <<config, remote, mount_lock, commands>>

-----------------------------------------------------------------------------
(* The other commands.  None of them looks at mount.lock. *)

\* status and fsck; also serve-nbd when it refuses to start: the sqlite file is
\* created.
OpenStore ==
  /\ store' = Opened
  /\ UNCHANGED <<config, remote, mount_lock, daemons, commands, budget>>

\* Uuid::new_v4: never the same twice.
NewUuid == budget.formats

\* Nothing was ever flushed, and there is no local device: what an operator may
\* format who does not reformat.
Blank(local_only) ==
  /\ store.manifest = None
  /\ \A i \in Superblocks(messages) : Generation(messages, i) = 0 /\ ~local_only

\* "already exists; pass --force to replace local metadata".
Formattable(force, local_only) ==
  /\ store.exists => force
  /\ fetched = None
  /\ Allowed("reformat") \/ Blank(local_only)

\* format: commit an empty manifest unless --local-only, then save it.
Format(force, local_only) ==
  LET m   == EmptyManifest(NewUuid, config.object_count)
      all == CommitMessages(m, PinnedSuperblock, last_id + 1)
  IN  /\ Formattable(force, local_only)
      /\ Spend("formats")
      /\ \/ local_only /\ UNCHANGED remote
         \/ ~local_only /\ Send(all, Len(all))
      /\ store' = Replaced(m)
      /\ UNCHANGED <<config, mount_lock, daemons, commands>>

FormatFails(force) ==
  LET m   == EmptyManifest(NewUuid, config.object_count)
      all == CommitMessages(m, PinnedSuperblock, last_id + 1)
  IN  /\ Formattable(force, FALSE)
      /\ budget.formats > 0 /\ budget.faults > 0
      /\ budget' = [budget EXCEPT !.formats = @ - 1, !.faults = @ - 1]
      /\ \E k \in 0 .. Len(all) : Send(all, k)
      /\ store' = Opened
      /\ UNCHANGED <<config, mount_lock, daemons, commands>>

\* recover-from-remote: fetch the manifest, then save it.
RecoverFetch ==
  /\ \/ Allowed("recover-from-remote") /\ Running = {}
     \/ Allowed("recover-from-remote beside a daemon")
  /\ fetched = None
  /\ RecoverManifest(messages) # None
  /\ fetched' = RecoverManifest(messages)
  /\ UNCHANGED <<config, remote, store, mount_lock, daemons, gc, budget>>

RecoverReplace ==
  /\ fetched # None
  /\ store' = Replaced(fetched)
  /\ fetched' = None
  /\ UNCHANGED <<config, remote, mount_lock, daemons, gc, budget>>

\* gc --yes: the garbage of the saved manifest, deleted chunk by chunk.
GcStart ==
  /\ Allowed("gc")
  /\ gc = {} /\ store.manifest # None
  /\ store.manifest.garbage # {}
  /\ gc' = store.manifest.garbage
  /\ UNCHANGED <<config, remote, store, mount_lock, daemons, fetched, budget>>

GcDelete(id) ==
  /\ id \in gc
  /\ gc' = gc \ {id}
  /\ messages' = [i \in DOMAIN messages \ {id} |-> messages[i]]
  /\ pinned' = IF pinned = id THEN 0 ELSE pinned
  /\ UNCHANGED <<config, last_id, store, mount_lock, daemons, fetched, budget>>

GcFails ==
  /\ gc # {}
  /\ gc' = {}
  /\ UNCHANGED <<config, remote, store, mount_lock, daemons, fetched, budget>>

\* recover: publish the previous manifest of the superblock in force as a flat one,
\* then save it locally.
Rollback ==
  LET i       == RecoverSuperblock(messages)
      current == messages[i]
      m       == FetchManifest(messages, current.encoding, current.previous)
      all     == Published(ForManifest(m.device_uuid, "flat_json", current.previous, current),
                           pinned # 0)
  IN  /\ Allowed("recover")
      /\ i # 0 /\ current.previous # None
      /\ m # None
      /\ Spend("rollbacks")
      /\ Send(all, Len(all))
      /\ store' = Replaced(m)
      /\ UNCHANGED <<config, mount_lock, daemons, commands>>

\* The same when the local store fails after the superblock was sent.
RollbackFails ==
  LET i       == RecoverSuperblock(messages)
      current == messages[i]
      m       == FetchManifest(messages, current.encoding, current.previous)
      all     == Published(ForManifest(m.device_uuid, "flat_json", current.previous, current),
                           pinned # 0)
  IN  /\ Allowed("recover")
      /\ i # 0 /\ current.previous # None
      /\ m # None
      /\ Spend("faults")
      /\ \E k \in 0 .. Len(all) : Send(all, k)
      /\ UNCHANGED <<config, store, mount_lock, daemons, commands>>

\* flush: through a MemoryBackend of its own, without a committer.
FlushCommand ==
  /\ Allowed("flush")
  /\ store.manifest # None
  /\ DirtyIds # {}
  /\ store' = Flushed(Uploaded(store.manifest, Len(Uploads), 0))
  /\ UNCHANGED <<config, remote, mount_lock, daemons, commands, budget>>

\* The machine is lost, or its cache directory is.
LoseMachine ==
  /\ Spend("losses")
  /\ store' = NoStore
  /\ mount_lock' = FALSE
  /\ daemons' = [p \in Processes |-> None]
  /\ gc' = {}
  /\ fetched' = None
  /\ UNCHANGED <<config, remote>>

-----------------------------------------------------------------------------
Daemon(p) ==
  \/ Serve(p) \/ ServeLocal(p) \/ Stop(p)
  \/ \E o \in Objects : Read(p, o) \/ \E v \in Value : Write(p, o, v)
  \/ Flush(p) \/ FlushFails(p) \/ FlushLocal(p)

Command ==
  \/ OpenStore \/ RemoveLock \/ LoseMachine
  \/ \E force \in BOOLEAN :
       FormatFails(force) \/ \E local_only \in BOOLEAN : Format(force, local_only)
  \/ RecoverFetch \/ RecoverReplace
  \/ GcStart \/ GcFails \/ \E id \in gc : GcDelete(id)
  \/ Rollback \/ RollbackFails \/ FlushCommand

Next == Command \/ \E p \in Processes : Daemon(p)

Spec == Init /\ [][Next]_vars

-----------------------------------------------------------------------------
(* What the device holds, and the properties. *)

\* The manifest the next request is served with: the daemon's, the saved one, or the
\* one a start without a local manifest would recover.
InForce(ms, st, ds) ==
  IF \E p \in Processes : ds[p] # None
  THEN ds[CHOOSE p \in Processes : ds[p] # None].manifest
  ELSE IF st.manifest # None THEN st.manifest ELSE RecoverManifest(ms)

ServedFrom(ms, ds) ==
  IF \E p \in Processes : ds[p] # None
  THEN Reachable(ms, ds[CHOOSE p \in Processes : ds[p] # None].memory)
  ELSE ms

Entry(m, o) ==
  IF m # None /\ o + 1 \in DOMAIN m.objects
  THEN m.objects[o + 1]
  ELSE ManifestObject(o, 0, 0, 0)

\* What a reader of entry e gets from the given messages, None when it fails.
Fetched(from, e) == IF Fetches(from, e) THEN e.payload ELSE None

\* read_object: the dirty file, the cache file, or the channel.
ObjectContent(st, m, from, o) ==
  LET e   == Entry(m, o)
      key == <<o, e.generation>>
  IN  CASE st.dirty[o] # 0 -> st.files[<<o, st.dirty[o]>>]
        [] st.dirty[o] = 0 /\ e.remote = 0 -> 0
        [] st.dirty[o] = 0 /\ e.remote # 0 /\ key \in DOMAIN st.files ->
             IF st.files[key] = e.payload THEN e.payload ELSE None
        [] OTHER -> Fetched(from, e)

\* What the device holds, when the channel, the store and the processes are these.
Content(ms, st, ds) ==
  LET m == InForce(ms, st, ds)  from == ServedFrom(ms, ds)
  IN  [o \in Units |-> ObjectContent(st, m, from, o)]

\* The same on a machine that has only the channel.
Durable(ms) ==
  LET m == RecoverManifest(ms)
  IN  [o \in Units |-> LET e == Entry(m, o)
                       IN  IF e.remote = 0 THEN 0 ELSE Fetched(ms, e)]

\* Commands after which a manifest may name messages that are gone or were never sent:
\* also those that use the channel with what a daemon saved that never wrote to it.
Unsound == {"recover", "flush", "recover-from-remote beside a daemon"}
OnChannel == {"serve --backend telegram", "gc"}

Sound ==
  /\ config.commands \cap Unsound = {}
  /\ Allowed("serve --backend local") => config.commands \cap OnChannel = {}

\* Nor does a device take the place of another one, or of what was only flushed locally.
Careful ==
  /\ Sound
  /\ ~Allowed("reformat")
  /\ Allowed("serve --backend local") => ~Allowed("recover-from-remote")

LifecycleTypeOK ==
  /\ config \in Scenarios
  /\ DOMAIN messages \subseteq 1 .. last_id
  /\ pinned # 0 => pinned \in Superblocks(messages)
  /\ store.exists \in BOOLEAN /\ mount_lock \in BOOLEAN
  /\ \A o \in Units : store.dirty[o] # 0 => <<o, store.dirty[o]>> \in DOMAIN store.files
  /\ \A k \in DOMAIN store.files : store.files[k] \in Value
  /\ \A p \in Processes : daemons[p] # None => Len(daemons[p].manifest.objects) = config.object_count
  /\ budget \in Budget

\* The superblock in force can be recovered in full: its manifest, if need be from
\* the leaves of its tree, and every object that one names, after failed commits,
\* failed formats, formats over an old device and garbage collection.
RecoveryComplete ==
  LET i == RecoverSuperblock(messages)
      m == FetchManifest(messages, messages[i].encoding, messages[i].current)
  IN  i # 0 /\ Sound =>
        /\ m # None
        /\ \A k \in DOMAIN m.objects : m.objects[k].remote # 0 => Fetches(messages, m.objects[k])

\* serve-nbd does not refuse the machine's own device: its saved manifest has the UUID
\* of the superblock in force.
ServeStarts ==
  RecoverSuperblock(messages) # 0 /\ store.manifest # None /\ Careful =>
    messages[RecoverSuperblock(messages)].device_uuid = store.manifest.device_uuid

\* A daemon that starts with a saved manifest is at most one generation behind the
\* channel: the next generation it gives out, the one after its manifest's, is not one
\* that the channel has left behind.
StartsCountOn ==
  [][\A p \in Processes :
       Sound /\ Serve(p) /\ store.manifest # None =>
         \A i \in Superblocks(messages) :
           Generation(messages, i) <= store.manifest.generation + 1]_vars

\* A command that reports success has done on the channel what it did locally: what
\* a fresh machine would recover is what this one holds.
TakesEffect ==
  [][(\/ \E force \in BOOLEAN : Format(force, FALSE)
      \/ \E p \in Processes : Flush(p)
      \/ Rollback \/ FlushCommand)
     => RecoverManifest(messages') = store'.manifest]_vars

=============================================================================
