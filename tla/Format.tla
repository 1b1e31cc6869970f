------------------------------- MODULE Format -------------------------------
(***************************************************************************)
(* The stored formats of crates/tgdrive-core/src/format.rs and backend.rs, *)
(* and the Telegram channel of crates/tgdrive-telegram/src/client.rs that  *)
(* holds them.                                                             *)
(*                                                                         *)
(* SHA-256 is taken to be injective: the digest of a byte string is        *)
(* modelled by the byte string itself.  A message id is the position of    *)
(* the message in the channel, which only grows; 0 stands for no message.  *)
(***************************************************************************)
EXTENDS BlockMap, Sequences

CONSTANTS
  Value,            \* what one unit of the device can hold, 0 included
  formatted_size,   \* device_size in the configuration `tgdrive format` ran with
  None,             \* an absent Option
  Torn              \* the bytes of a partly written file

Encoded == [object_id : Nat, generation : Nat,
            payload : [0 .. object_size - 1 -> Value]]

ASSUME FormatAssumption ==
  /\ 0 \in Value
  /\ formatted_size \in Nat
  /\ None \notin Encoded /\ Torn \notin Encoded /\ None # Torn

ZeroObject == [i \in 0 .. object_size - 1 |-> 0]

\* ObjectEnvelope::encode.
Encode(o, g, payload) == [object_id |-> o, generation |-> g, payload |-> payload]

\* ObjectEnvelope::decode succeeds, and the digest is the expected one.
Verifies(bytes, o, g, sha256) ==
  bytes # Torn /\ bytes = sha256 /\ bytes.object_id = o /\ bytes.generation = g

-----------------------------------------------------------------------------
(* Manifest and its per-object entries. *)

\* TgDriveConfig::object_count, when the device was formatted.
manifest_object_count == ObjectsFor(formatted_size)

ManifestObjects == 0 .. manifest_object_count - 1

\* A zero entry has no reference and no checksum; any other has both.
ZeroEntry == [generation : Nat, remote : {0}, sha256 : {None}, zero : {TRUE}]
StoredEntry == [generation : Nat, remote : Nat \ {0}, sha256 : Encoded, zero : {FALSE}]
Entry == ZeroEntry \cup StoredEntry

Manifest == [generation : Nat, objects : [ManifestObjects -> Entry],
             garbage : SUBSET Nat]

\* Manifest::empty, what `tgdrive format` creates.
EmptyManifest ==
  [generation |-> 0,
   objects |-> [o \in ManifestObjects |->
                  [generation |-> 0, remote |-> 0, sha256 |-> None, zero |-> TRUE]],
   garbage |-> {}]

\* Mutant: the zero flag of the entry is not cleared.
StaysZero(m, o, bytes, id) ==
  [m EXCEPT !.objects[o].generation = bytes.generation, !.objects[o].remote = id,
            !.objects[o].sha256 = bytes]

\* Mutant: the entry is updated first, so it is the new reference that becomes garbage.
DiscardsNew(m, o, bytes, id) ==
  [m EXCEPT !.objects[o] = [generation |-> bytes.generation, remote |-> id,
                            sha256 |-> bytes, zero |-> FALSE],
            !.garbage = IF m.objects[o].remote # 0 THEN m.garbage \cup {id} ELSE m.garbage]

\* flush, after an upload: the old reference becomes garbage, the entry names
\* the new one.
WithUploaded(m, o, bytes, id) ==
  [m EXCEPT !.objects[o] = [generation |-> bytes.generation, remote |-> id,
                            sha256 |-> bytes, zero |-> FALSE],
            !.garbage = IF m.objects[o].remote # 0
                        THEN m.garbage \cup {m.objects[o].remote}
                        ELSE m.garbage]

\* What a reader of manifest m sees in object o when it holds nothing newer.
EntryPayload(m, o) ==
  IF o \in ManifestObjects /\ ~m.objects[o].zero
  THEN m.objects[o].sha256.payload
  ELSE ZeroObject

\* The messages a manifest depends on.
Live(m) == {m.objects[o].remote : o \in ManifestObjects} \ {0}

-----------------------------------------------------------------------------
(* Superblock: which manifest is current, and which one was before it. *)

\* The digest a superblock keeps is left out: a message, once sent, is never edited,
\* so its digest is settled by its id.
ManifestRef == [message_id : Nat, generation : Nat]

Superblock == [device_size : Nat, current : ManifestRef,
               previous : ManifestRef \cup {None}]

Message ==    [kind : {"object"}, body : Encoded]
         \cup [kind : {"manifest"}, body : Manifest]
         \cup [kind : {"superblock"}, body : Superblock]

ObjectMessage(bytes) == [kind |-> "object", body |-> bytes]
ManifestMessage(m) == [kind |-> "manifest", body |-> m]
SuperblockMessage(sb) == [kind |-> "superblock", body |-> sb]

\* Mutant: the id of the pinned superblock is taken for the id of its manifest.
PreviousIsPinned(channel, pinned, ref) ==
  [device_size |-> device_size,
   current |-> ref,
   previous |-> IF pinned = 0 THEN None
                ELSE [channel[pinned].body.current EXCEPT !.message_id = pinned]]

\* Superblock::for_manifest: previous is what the pinned superblock calls current.
ForManifest(channel, pinned, ref) ==
  [device_size |-> device_size,
   current |-> ref,
   previous |-> IF pinned = 0 THEN None ELSE channel[pinned].body.current]

-----------------------------------------------------------------------------
(* Reading the channel back. *)

\* get_messages_by_id.
Exists(channel, id, kind) == id \in DOMAIN channel /\ channel[id].kind = kind

\* Mutant: the scan ends one message early.
InShorterWindow(channel, scan_limit) ==
  {i \in DOMAIN channel : channel[i].kind = "superblock" /\ i > Len(channel) - scan_limit + 1}

\* The superblocks among the newest scan_limit messages.
InWindow(channel, scan_limit) ==
  {i \in DOMAIN channel : channel[i].kind = "superblock" /\ i > Len(channel) - scan_limit}

Generation(channel, i) == channel[i].body.current.generation

\* Mutant: the channel is not scanned.
RecoverPinned(channel, pinned, scan_limit) == pinned

\* Mutant: a superblock of the same generation replaces the candidate too.
RecoverOldest(channel, pinned, scan_limit) ==
  LET window == InWindow(channel, scan_limit)
  IN  IF window = {}
      THEN pinned
      ELSE CHOOSE i \in window :
             \A j \in window : \/ Generation(channel, j) < Generation(channel, i)
                               \/ /\ Generation(channel, j) = Generation(channel, i)
                                  /\ i <= j

\* recover_superblock_text: newest first, replaced only by a strictly higher
\* generation, so the newest of those with the highest generation; the pinned
\* message when there is none in the window; 0 when there is no superblock.
RecoverSuperblock(channel, pinned, scan_limit) ==
  LET window == InWindow(channel, scan_limit)
  IN  IF window = {}
      THEN pinned
      ELSE CHOOSE i \in window :
             \A j \in window : \/ Generation(channel, j) < Generation(channel, i)
                               \/ /\ Generation(channel, j) = Generation(channel, i)
                                  /\ j <= i

\* fetch_manifest_from_superblock, for a reference the channel can serve.
FetchManifest(channel, ref) == channel[ref.message_id].body

\* The channel holds the bytes manifest m promises for each of its objects.
Backed(channel, m) ==
  \A o \in ManifestObjects :
    LET e == m.objects[o]
    IN  ~e.zero => /\ Exists(channel, e.remote, "object")
                   /\ Verifies(channel[e.remote].body, o, e.generation, e.sha256)

\* The channel holds the manifest a superblock refers to, and all that one refers to.
Served(channel, ref) ==
  /\ Exists(channel, ref.message_id, "manifest")
  /\ channel[ref.message_id].body.generation = ref.generation
  /\ Backed(channel, channel[ref.message_id].body)
=============================================================================
