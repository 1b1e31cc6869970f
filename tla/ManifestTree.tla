---------------------------- MODULE ManifestTree ----------------------------
(***************************************************************************)
(* How crates/tgdrive-telegram/src/client.rs puts a manifest on the        *)
(* channel and reads it back: as one message, or, above a number of        *)
(* objects, as a tree of leaf messages under a root (the trees of          *)
(* crates/tgdrive-core/src/format.rs).                                     *)
(*                                                                         *)
(* An object is one value here (module BlockDevice splits it into units).  *)
(* A message is never edited, so the digest that goes with a message id is *)
(* left out; `messages` maps the id of each message that exists to it.     *)
(***************************************************************************)
EXTENDS Integers, SequencesExt

CONSTANTS
  MANIFEST_TREE_LEAF_SPAN,   \* objects in a leaf: 4096
  None                       \* an absent Option, and the result of a failed call

ASSUME TreeAssumption == MANIFEST_TREE_LEAF_SPAN \in Nat \ {0}

-----------------------------------------------------------------------------
(* Manifest, with its objects in a sequence; remote = 0 is a zero object.  *)

ManifestObject(o, g, id, payload) ==
  [object_id |-> o, generation |-> g, remote |-> id, payload |-> payload]

\* Mutant: the last object is left out.
ShortManifest(uuid, object_count) ==
  [device_uuid |-> uuid, generation |-> 0,
   objects |-> [k \in 1 .. object_count - 1 |-> ManifestObject(k - 1, 0, 0, 0)],
   garbage |-> {}]

\* Manifest::empty.
EmptyManifest(uuid, object_count) ==
  [device_uuid |-> uuid, generation |-> 0,
   objects |-> [k \in 1 .. object_count |-> ManifestObject(k - 1, 0, 0, 0)],
   garbage |-> {}]

ObjectMessage(o, g, payload) ==
  [kind |-> "object", object_id |-> o, generation |-> g, payload |-> payload]

\* fetch_object: the message is there and is the object the entry names.
Fetches(messages, e) ==
  /\ e.remote \in DOMAIN messages
  /\ messages[e.remote] = ObjectMessage(e.object_id, e.generation, e.payload)

-----------------------------------------------------------------------------
(* The tree. *)

\* Mutant: a last leaf that is not full is left out.
tree_leaves_full(m) ==
  [k \in 1 .. Len(m.objects) \div MANIFEST_TREE_LEAF_SPAN |->
     [kind |-> "leaf", device_uuid |-> m.device_uuid, generation |-> m.generation,
      leaf_index |-> k - 1,
      objects |-> SubSeq(m.objects, (k - 1) * MANIFEST_TREE_LEAF_SPAN + 1,
                         k * MANIFEST_TREE_LEAF_SPAN)]]

\* Manifest::tree_leaves: the objects in chunks, the last of which may be short.
tree_leaves(m) ==
  LET span == MANIFEST_TREE_LEAF_SPAN
  IN  [k \in 1 .. (Len(m.objects) + span - 1) \div span |->
         [kind |-> "leaf", device_uuid |-> m.device_uuid, generation |-> m.generation,
          leaf_index |-> k - 1,
          objects |-> SubSeq(m.objects, (k - 1) * span + 1,
                             Min({k * span, Len(m.objects)}))]]

\* The root of a tree whose leaves were sent as messages first, first + 1, ...
TreeRoot(m, first) ==
  [kind |-> "root", device_uuid |-> m.device_uuid, generation |-> m.generation,
   object_count |-> Len(m.objects), garbage |-> m.garbage,
   leaves |-> [k \in DOMAIN tree_leaves(m) |->
                 [leaf_index |-> k - 1, message_id |-> first + k - 1]]]

\* leaves.sort_by_key: by leaf_index, and those of one index as they come.
Before(leaves, i, j) ==
  \/ leaves[i].leaf_index < leaves[j].leaf_index
  \/ leaves[i].leaf_index = leaves[j].leaf_index /\ i < j

SortedLeaves(leaves) ==
  [k \in DOMAIN leaves |->
     leaves[CHOOSE j \in DOMAIN leaves :
              Cardinality({i \in DOMAIN leaves : Before(leaves, i, j)}) = k - 1]]

\* Manifest::from_tree_root_and_leaves, None when one of its checks fails.
from_tree_root_and_leaves(root, leaves) ==
  LET sorted  == SortedLeaves(leaves)
      objects == FlattenSeq([k \in DOMAIN sorted |-> sorted[k].objects])
  IN  IF /\ \A k \in DOMAIN sorted : /\ sorted[k].device_uuid = root.device_uuid
                                     /\ sorted[k].generation = root.generation
                                     /\ sorted[k].leaf_index = k - 1
         /\ Len(objects) = root.object_count
         /\ \A k \in DOMAIN objects : objects[k].object_id = k - 1
      THEN [device_uuid |-> root.device_uuid, generation |-> root.generation,
            objects |-> objects, garbage |-> root.garbage]
      ELSE None

\* fetch_manifest_tree_leaves: every leaf is there, under the object id of its
\* index (object_id_for_index) and at the generation of the root.
LeavesThere(messages, root) ==
  \A k \in DOMAIN root.leaves :
    LET ref == root.leaves[k]
    IN  /\ ref.message_id \in DOMAIN messages
        /\ messages[ref.message_id].kind = "leaf"
        /\ messages[ref.message_id].leaf_index = ref.leaf_index
        /\ messages[ref.message_id].generation = root.generation

FetchTree(messages, root) ==
  IF LeavesThere(messages, root)
  THEN from_tree_root_and_leaves(
         root, [k \in DOMAIN root.leaves |-> messages[root.leaves[k].message_id]])
  ELSE None

-----------------------------------------------------------------------------
(* Committing a manifest, and finding it again. *)

ManifestMessage(m) == [kind |-> "manifest", generation |-> m.generation, body |-> m]

UseTree(m) == Len(m.objects) > MANIFEST_TREE_LEAF_SPAN

\* for_manifest and for_tree_manifest; previous is a superblock or None.
ForManifest(uuid, encoding, ref, previous) ==
  [kind |-> "superblock", device_uuid |-> uuid, encoding |-> encoding, current |-> ref,
   previous |-> IF previous = None THEN None ELSE previous.current]

\* upsert_pinned_superblock: the backup alone, or the message to pin before it.
Published(superblock, has_pinned) ==
  IF has_pinned THEN <<superblock>> ELSE <<superblock, superblock>>

\* commit_manifest: the messages it sends, in order, from id first on.
CommitMessages(m, previous, first) ==
  LET leaves == tree_leaves(m)
      body   == IF UseTree(m)
                THEN Append(leaves, TreeRoot(m, first))
                ELSE <<ManifestMessage(m)>>
      ref    == [message_id |-> first + Len(body) - 1, generation |-> m.generation]
  IN  body \o Published(ForManifest(m.device_uuid, IF UseTree(m) THEN "tree" ELSE "flat_json",
                                    ref, previous),
                        previous # None)

\* fetch_manifest_from_superblock: a root does not decode as a manifest, nor a
\* manifest as a root.
FetchManifest(messages, encoding, ref) ==
  IF \/ ref.message_id \notin DOMAIN messages
     \/ messages[ref.message_id].kind # (IF encoding = "tree" THEN "root" ELSE "manifest")
     \/ messages[ref.message_id].generation # ref.generation
  THEN None
  ELSE IF encoding = "tree"
       THEN FetchTree(messages, messages[ref.message_id])
       ELSE messages[ref.message_id].body

Superblocks(messages) == {i \in DOMAIN messages : messages[i].kind = "superblock"}

Generation(messages, i) == messages[i].current.generation

\* Mutant: a superblock of the same generation replaces the candidate too.
OldestSuperblock(messages) ==
  IF Superblocks(messages) = {}
  THEN 0
  ELSE CHOOSE i \in Superblocks(messages) :
         \A j \in Superblocks(messages) :
           \/ Generation(messages, j) < Generation(messages, i)
           \/ Generation(messages, j) = Generation(messages, i) /\ i <= j

\* recover_superblock_text, on a channel no longer than it scans: the newest of
\* the superblocks with the highest generation, 0 when there is none.
RecoverSuperblock(messages) ==
  IF Superblocks(messages) = {}
  THEN 0
  ELSE CHOOSE i \in Superblocks(messages) :
         \A j \in Superblocks(messages) :
           \/ Generation(messages, j) < Generation(messages, i)
           \/ Generation(messages, j) = Generation(messages, i) /\ j <= i

\* recover_remote_manifest: the current manifest of that superblock or, should it
\* not verify, the previous one, read with the same encoding; it has to be a manifest
\* of the superblock's device.
RecoverManifest(messages) ==
  LET i  == RecoverSuperblock(messages)
      sb == messages[i]
      current == FetchManifest(messages, sb.encoding, sb.current)
      m  == IF current = None /\ sb.previous # None
            THEN FetchManifest(messages, sb.encoding, sb.previous)
            ELSE current
  IN  IF i = 0 \/ m = None
      THEN None
      ELSE IF m.device_uuid = sb.device_uuid THEN m ELSE None
=============================================================================
