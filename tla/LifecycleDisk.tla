--------------------------- MODULE LifecycleDisk ----------------------------
(***************************************************************************)
(* The life of a device, with variables that show what it holds after each *)
(* step: disk, what a reader gets, and durable, what a machine that has    *)
(* only the channel would get.                                             *)
(***************************************************************************)
EXTENDS Lifecycle

VARIABLES disk, durable

ViewInit ==
  Init /\ disk = Content(messages, store, daemons) /\ durable = Durable(messages)

ViewNext ==
  Next /\ disk' = Content(messages', store', daemons') /\ durable' = Durable(messages')

ViewSpec == ViewInit /\ [][ViewNext]_<<vars, disk, durable>>

\* Every object of the device can be read: the file of a dirty one, the cache file or
\* the message of any other.  gc deletes no message that is needed, and neither a format
\* over an old device nor a recovery meets a cache file of another life of the device
\* under the same generation.
Readable ==
  Sound => \A o \in Objects : disk[o] # None

\* A daemon that starts over a store without dirty rows serves what is durable, the writes
\* of every flush that was answered: no command, failure or kill before it left the store
\* with an older manifest than the channel, or with one of another life of the device.
ServesDurable ==
  [][\A p \in Processes : Sound /\ Serve(p) /\ store.dirty = NoDirty => disk' = durable'
    ]_<<vars, disk, durable>>

\* The view of an operator who uses no careless command.
Seen(contents) == IF Careful THEN contents ELSE [o \in Units |-> 0]

Disk == INSTANCE AbstractDisk WITH
          WriteRequests <- [offset : Units, bytes : {<<v>> : v \in Value}],
          disk <- Seen(disk), durable <- Seen(durable)

\* Across formats, restarts, kills that leave the lock behind, failed flushes, garbage
\* collection, recoveries and lost machines, the device changes only by a write, by
\* making everything durable, or by falling back to what is durable.
CommandsKeepDisk == Disk!Spec
=============================================================================
