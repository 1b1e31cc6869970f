-------------------------- MODULE DurabilityProofs --------------------------
(***************************************************************************)
(* What a flush promises, for any number of objects, readers, requests,    *)
(* failures and crashes: once nothing is dirty the channel alone gives     *)
(* back what the device holds, `tgdrive gc` never deletes what a recovery  *)
(* would read, and the device implements the disk with a write-back cache. *)
(*                                                                         *)
(* The runs FlushRace and GenerationRegress show which histories break     *)
(* these promises; the premises exclude them.                              *)
(***************************************************************************)
EXTENDS BlockDeviceProofs, DeviceRefinement, ScanWindow

(* The premises.  ScanReaches and RestartsCountOn are stated with the device; the run      *)
(* DeviceCrashes checks that they hold throughout its behaviours.  The last two sections   *)
(* prove them: the first from how much the flushes send between two superblocks, the       *)
(* second for processes that die where no call fails.                                      *)

\* One connection writes and flushes, the others read.
OneWriter(w) == Writers \cup Flushers \subseteq {w}

-----------------------------------------------------------------------------
(* The inductive invariant *)

CommitLabels == {"flush_superblock", "flush_pin", "flush_backup"}

FlushingLabels ==
  {"flush_object", "flush_manifest", "flush_replace", "flush_clear"} \cup CommitLabels

FlushLabels == {"flush_list", "flush_lock"} \cup FlushingLabels

WriteLabels == {"limit", "generation", "write_cache", "write_bytes", "mark_dirty"}

EncodedLabels == {"write_cache", "write_bytes", "mark_dirty"}

LookupLabels == {"read_cache", "fetch", "fill", "filling"}

\* What read_object returns when the rows, and the manifest behind them, are these.
PayloadOf(rows, m, o) == IF rows[o] # None THEN rows[o].sha256.payload ELSE EntryPayload(m, o)

\* The manifest that superblock i names.
ManifestOf(ch, i) == FetchManifest(ch, ch[i].body.current)

\* A commit under generation g is one that recovery will choose.
NotBelow(ch, g) == \A i \in Superblocks(ch) : Generation(ch, i) <= g

\* Some dirty row will make the next flush outrank the superblocks of the channel.
GenerationsOK(rows, m, ms, ch) ==
  /\ NotBelow(ch, m.generation + 1)
  /\ rows = NoRows => NotBelow(ch, m.generation) /\ NotBelow(ch, ms.generation)
  /\ rows # NoRows => \E o \in DirtyIds(rows) : NotBelow(ch, rows[o].generation)

\* The manifest in memory, the one in the store and the one on the channel agree on
\* every object that is not dirty, and garbage of the store's is dead on the channel.
AgreementOK(rows, m, ms, ch) ==
  /\ \A o \in Objects \ DirtyIds(rows) : EntryPayload(m, o) = EntryPayload(ms, o)
  /\ ms.garbage \subseteq m.garbage
  /\ \/ /\ Superblocks(ch) = {}
        /\ \A o \in Objects \ DirtyIds(rows) : EntryPayload(ms, o) = ZeroObject
     \/ \E i \in Superblocks(ch) :
          /\ InForce(ch, i)
          /\ \A o \in Objects \ DirtyIds(rows) :
               EntryPayload(ManifestOf(ch, i), o) = EntryPayload(ms, o)
          /\ ms.garbage \cap Live(ManifestOf(ch, i)) = {}

\* A flush: what it has uploaded is what is dirty, it will outrank the channel, and
\* the manifest it commits, and then saves, is the one in memory.
FlusherOK(rows, m, ms, ch, p, l) ==
  /\ p = "flush_lock" => l.snapshot = rows
  /\ p = "flush_object" => \A o \in Objects : l.snapshot[o] \in {None, rows[o]}
  /\ p \in FlushingLabels =>
       /\ NotBelow(ch, m.generation)
       /\ \E o \in DirtyIds(rows) : rows[o].generation >= m.generation
       /\ \A o \in DirtyIds(rows) : (p = "flush_object" => l.snapshot[o] = None)
                                      => EntryPayload(m, o) = rows[o].sha256.payload
  /\ p \in CommitLabels => /\ l.superblock.current.generation = m.generation
                           /\ FetchManifest(ch, l.superblock.current) = m
  /\ p \in {"flush_replace", "flush_clear"} =>
       \E i \in Superblocks(ch) : InForce(ch, i) /\ ManifestOf(ch, i) = m
  /\ p = "flush_clear" => ms = m

\* What is left of a write request.
OfRequest(l) ==
  \E w \in WriteRequests : /\ l.bytes = w.bytes
                            /\ l.cursor = w.offset + Len(w.bytes) - l.remaining

\* A write: it is part of a request, and the object it builds is the current one with
\* the request's bytes in place.
WriterOK(rows, m, p, l) ==
  l.op = "write" =>
    /\ OfRequest(l)
    /\ p \in {"read_entry"} \cup LookupLabels => rows[ObjectOf(l.cursor)] = None
    /\ p \in LookupLabels => /\ ObjectOf(l.cursor) \in ManifestObjects
                             /\ l.entry = m.objects[ObjectOf(l.cursor)]
    /\ p \in {"fill", "filling"} => l.encoded = l.entry.sha256
    /\ p \in WriteLabels => \/ FullObject(l.cursor, l.remaining)
                            \/ l.object = PayloadOf(rows, m, ObjectOf(l.cursor))
    /\ p \in EncodedLabels => /\ l.generation = m.generation + 1
                              /\ l.encoded.payload = Overlay(l, l.object)

\* Only connection w writes and flushes.
RoleOK(w, c, p, l) ==
  /\ l.op \in {"write", "flush"} => c = w
  /\ p \in FlushLabels => l.op = "flush"

DurableInv(w) ==
  /\ GenerationsOK(dirty_objects, manifest, manifest_state, channel)
  /\ AgreementOK(dirty_objects, manifest, manifest_state, channel)
  /\ \A c \in Clients :
       /\ RoleOK(w, c, pc[c], loc[c])
       /\ FlusherOK(dirty_objects, manifest, manifest_state, channel, pc[c], loc[c])
       /\ WriterOK(dirty_objects, manifest, pc[c], loc[c])

-----------------------------------------------------------------------------
(* The channel *)

\* The generation of a superblock is a number.
LEMMA SuperblockTypes ==
  ASSUME NEW ch \in Seq(Message), NEW i \in Superblocks(ch)
  PROVE  /\ ch[i].body \in Superblock /\ i \in Nat
         /\ Generation(ch, i) \in Nat
BY DEF Superblocks, Generation, Message, Superblock, ManifestRef

\* Only one superblock is in force.
LEMMA OneInForce ==
  ASSUME NEW ch \in Seq(Message), NEW i, NEW j, InForce(ch, i), InForce(ch, j)
  PROVE  i = j
<1>1. i \in Superblocks(ch) /\ j \in Superblocks(ch)
  BY DEF InForce
<1>2. i \in Nat /\ j \in Nat /\ Generation(ch, i) \in Nat /\ Generation(ch, j) \in Nat
  BY <1>1, SuperblockTypes
<1> QED BY <1>1, <1>2 DEF InForce

\* An uploaded object or manifest changes nothing about the superblocks.
LEMMA SendOther ==
  ASSUME NEW ch \in Seq(Message), ChannelOK(ch), NEW msg \in Message,
         msg.kind # "superblock", NEW ch2, ch2 = Append(ch, msg)
  PROVE  /\ Superblocks(ch2) = Superblocks(ch)
         /\ \A i : InForce(ch2, i) <=> InForce(ch, i)
         /\ \A i \in Superblocks(ch) : ManifestOf(ch2, i) = ManifestOf(ch, i)
         /\ \A g : NotBelow(ch2, g) <=> NotBelow(ch, g)
<1>1. /\ DOMAIN ch2 = DOMAIN ch \cup {Len(ch) + 1}
      /\ ch2[Len(ch) + 1] = msg
      /\ \A i \in DOMAIN ch : ch2[i] = ch[i]
  BY AppendGrows DEF Grows
<1>2. Superblocks(ch2) = Superblocks(ch)
  BY <1>1 DEF Superblocks
<1>3. \A i \in Superblocks(ch) : ch2[i] = ch[i] /\ Generation(ch2, i) = Generation(ch, i)
  BY <1>1 DEF Superblocks, Generation
<1>4. \A i \in Superblocks(ch) : ch[i].body.current.message_id \in DOMAIN ch
  BY DEF ChannelOK, Superblocks, SuperblockOK, Served, Exists
<1>5. \A i \in Superblocks(ch) : ManifestOf(ch2, i) = ManifestOf(ch, i)
  BY <1>1, <1>3, <1>4 DEF ManifestOf, FetchManifest
<1>6. \A i : InForce(ch2, i) <=> InForce(ch, i)
  BY <1>2, <1>3 DEF InForce
<1>7. \A g : NotBelow(ch2, g) <=> NotBelow(ch, g)
  BY <1>2, <1>3 DEF NotBelow
<1> QED BY <1>2, <1>5, <1>6, <1>7

\* A superblock that nothing on the channel outranks is in force once it is sent.
LEMMA SendSuperblock ==
  ASSUME NEW ch \in Seq(Message), NEW sb \in Superblock, SuperblockOK(ch, sb),
         NotBelow(ch, sb.current.generation),
         NEW ch2, ch2 = Append(ch, SuperblockMessage(sb))
  PROVE  \E i \in Superblocks(ch2) :
           /\ InForce(ch2, i) /\ i = Len(ch2)
           /\ ManifestOf(ch2, i) = FetchManifest(ch, sb.current)
           /\ FetchManifest(ch2, sb.current) = FetchManifest(ch, sb.current)
           /\ \A g \in Nat : sb.current.generation <= g => NotBelow(ch2, g)
<1> DEFINE i == Len(ch) + 1  msg == SuperblockMessage(sb)
<1>0. msg \in Message
  BY DEF SuperblockMessage, Message
<1>1. /\ DOMAIN ch2 = DOMAIN ch \cup {i}
      /\ ch2[i] = msg /\ i = Len(ch2)
      /\ \A j \in DOMAIN ch : ch2[j] = ch[j] /\ j <= i
      /\ i \in Nat
  BY <1>0, AppendGrows DEF Grows
<1>2. Superblocks(ch2) = Superblocks(ch) \cup {i}
  BY <1>1 DEF Superblocks, SuperblockMessage
<1>3. Generation(ch2, i) = sb.current.generation /\ ch2[i].body = sb
  BY <1>1 DEF Generation, SuperblockMessage
<1>4. \A j \in Superblocks(ch) : /\ Generation(ch2, j) = Generation(ch, j) /\ j <= i
                                 /\ Generation(ch, j) \in Nat
                                 /\ Generation(ch, j) <= sb.current.generation
  BY <1>1, SuperblockTypes DEF Superblocks, Generation, NotBelow
<1>5. sb.current.generation \in Nat
  BY DEF Superblock, ManifestRef
<1> HIDE DEF i, msg
<1>6. InForce(ch2, i)
  BY <1>1, <1>2, <1>3, <1>4, <1>5 DEF InForce
<1>7. FetchManifest(ch2, sb.current) = FetchManifest(ch, sb.current)
  BY <1>1 DEF SuperblockOK, Served, Exists, FetchManifest
<1>8. ASSUME NEW g \in Nat, sb.current.generation <= g
      PROVE  NotBelow(ch2, g)
  BY <1>2, <1>3, <1>4, <1>5, <1>8 DEF NotBelow
<1>9. ManifestOf(ch2, i) = FetchManifest(ch, sb.current)
  BY <1>3, <1>7 DEF ManifestOf
<1> QED BY <1>1, <1>2, <1>6, <1>7, <1>8, <1>9

\* recover_superblock_text finds the superblock in force.
LEMMA RecoverFinds ==
  ASSUME DeviceInv, ScanReaches, NEW i, InForce(channel, i)
  PROVE  /\ RecoverSuperblock(channel, pinned, scan_limit) \in Superblocks(channel) \ {0}
         /\ Generation(channel, RecoverSuperblock(channel, pinned, scan_limit)) = Generation(channel, i)
         /\ Recovered = ManifestOf(channel, i)
<1> DEFINE W == InWindow(channel, scan_limit)
           Best(j) == \A k \in W : \/ Generation(channel, k) < Generation(channel, j)
                                   \/ /\ Generation(channel, k) = Generation(channel, j)
                                      /\ k <= j
<1>1. channel \in Seq(Message)
  BY DEF DeviceInv, RemoteOK
<1>2. W \subseteq Superblocks(channel) /\ i \in Superblocks(channel)
      /\ \/ i \in W
         \/ W = {} /\ pinned \in Superblocks(channel) /\ channel[pinned].body = channel[i].body
  BY DEF InWindow, Superblocks, InForce, ScanReaches
<1>3. \A j \in Superblocks(channel) : j \in Nat /\ Generation(channel, j) \in Nat
  BY <1>1, SuperblockTypes
<1>4. Best(i)
  BY <1>2 DEF InForce
<1>5. \A j \in W : Best(j) => j = i
  BY <1>2, <1>3, <1>4
<1>6. RecoverSuperblock(channel, pinned, scan_limit) = IF W = {} THEN pinned ELSE CHOOSE j \in W : Best(j)
  BY DEF RecoverSuperblock
<1> HIDE DEF W, Best
<1> DEFINE s == RecoverSuperblock(channel, pinned, scan_limit)
<1>7. s \in Superblocks(channel) /\ channel[s].body = channel[i].body
  BY <1>2, <1>4, <1>5, <1>6
<1>8. s # 0
  BY <1>1, <1>7 DEF Superblocks
<1> QED BY <1>7, <1>8 DEF Recovered, ManifestOf, Generation

\* A channel without a superblock has nothing to recover.
LEMMA RecoverNothing ==
  ASSUME DeviceInv, Superblocks(channel) = {}
  PROVE  RecoverSuperblock(channel, pinned, scan_limit) = 0
<1>1. InWindow(channel, scan_limit) = {}
  BY DEF InWindow, Superblocks
<1>2. pinned = 0
  BY DEF DeviceInv, RemoteOK, Exists, Superblocks
<1> QED BY <1>1, <1>2 DEF RecoverSuperblock

-----------------------------------------------------------------------------
(* The connections *)

\* A connection that neither writes nor flushes depends on none of the data.
LEMMA BystanderOK ==
  ASSUME NEW p, NEW l, l.op \notin {"write", "flush"}, p \notin FlushLabels
  PROVE  \A rows, m, ms, ch : FlusherOK(rows, m, ms, ch, p, l) /\ WriterOK(rows, m, p, l)
BY DEF FlusherOK, WriterOK, FlushLabels, FlushingLabels, CommitLabels

\* Nor does an idle one.
LEMMA IdleDurable ==
  /\ NoLocals.op \notin {"write", "flush"}
  /\ "idle" \notin FlushLabels
  /\ \A w, c : RoleOK(w, c, "idle", NoLocals)
  /\ \A rows, m, ms, ch : /\ FlusherOK(rows, m, ms, ch, "idle", NoLocals)
                          /\ WriterOK(rows, m, "idle", NoLocals)
<1>1. NoLocals.op \notin {"write", "flush"}
  BY DEF NoLocals
<1>2. "idle" \notin FlushLabels
  BY DEF FlushLabels, FlushingLabels, CommitLabels
<1> QED BY <1>1, <1>2, BystanderOK DEF RoleOK

\* One connection steps; when it changes the data, it is the writing one.
LEMMA StepDurable ==
  ASSUME DeviceInv, NEW w, DurableInv(w), NEW c \in Clients, NEW next, NEW l,
         Goto(c, next, l),
         c = w \/ UNCHANGED <<dirty_objects, manifest, manifest_state, channel>>,
         GenerationsOK(dirty_objects', manifest', manifest_state', channel'),
         AgreementOK(dirty_objects', manifest', manifest_state', channel'),
         next # "idle" =>
           /\ RoleOK(w, c, next, l)
           /\ FlusherOK(dirty_objects', manifest', manifest_state', channel', next, l)
           /\ WriterOK(dirty_objects', manifest', next, l)
  PROVE  DurableInv(w)'
<1> DEFINE Conn(d, p, x) ==
             /\ RoleOK(w, d, p, x)
             /\ FlusherOK(dirty_objects', manifest', manifest_state', channel', p, x)
             /\ WriterOK(dirty_objects', manifest', p, x)
           l2 == IF next = "idle" THEN NoLocals ELSE l
<1>1. Conn(c, next, l2)
  BY IdleDurable
<1>2. ASSUME NEW d \in Clients, d # c
      PROVE  Conn(d, pc[d], loc[d])
  <2>1. /\ RoleOK(w, d, pc[d], loc[d])
        /\ FlusherOK(dirty_objects, manifest, manifest_state, channel, pc[d], loc[d])
        /\ WriterOK(dirty_objects, manifest, pc[d], loc[d])
    BY DEF DurableInv
  <2>2. CASE c = w
    <3>1. loc[d].op \notin {"write", "flush"} /\ pc[d] \notin FlushLabels
      BY <1>2, <2>1, <2>2 DEF RoleOK
    <3> QED BY <2>1, <3>1, BystanderOK
  <2>3. CASE UNCHANGED <<dirty_objects, manifest, manifest_state, channel>>
    BY <2>1, <2>3
  <2> QED BY <2>2, <2>3
<1>3. pc' = [pc EXCEPT ![c] = next] /\ loc' = [loc EXCEPT ![c] = l2]
  BY DEF Goto
<1>4. pc \in [Clients -> Labels] /\ loc \in [Clients -> Locals]
  BY DEF DeviceInv, ConnectionsOK
<1> HIDE DEF l2, Conn
<1>5. \A d \in Clients : Conn(d, pc'[d], loc'[d])
  BY <1>1, <1>2, <1>3, <1>4
<1> QED BY <1>5 DEF DurableInv, Conn

\* One connection steps and changes none of the data.
LEMMA QuietDurable ==
  ASSUME DeviceInv, NEW w, DurableInv(w), NEW c \in Clients, NEW next, NEW l,
         Goto(c, next, l), UNCHANGED <<dirty_objects, manifest, manifest_state, channel>>,
         next # "idle" =>
           /\ RoleOK(w, c, next, l)
           /\ FlusherOK(dirty_objects, manifest, manifest_state, channel, next, l)
           /\ WriterOK(dirty_objects, manifest, next, l)
  PROVE  DurableInv(w)'
<1>1. /\ GenerationsOK(dirty_objects', manifest', manifest_state', channel')
      /\ AgreementOK(dirty_objects', manifest', manifest_state', channel')
  BY DEF DurableInv
<1>2. next # "idle" =>
        /\ RoleOK(w, c, next, l)
        /\ FlusherOK(dirty_objects', manifest', manifest_state', channel', next, l)
        /\ WriterOK(dirty_objects', manifest', next, l)
  OBVIOUS
<1> QED BY <1>1, <1>2, StepDurable

\* The handler returns an error, having changed none of the data.
LEMMA AbortDurable ==
  ASSUME DeviceInv, NEW w, DurableInv(w), NEW c \in Clients, Abort(c),
         UNCHANGED <<dirty_objects, manifest, manifest_state, channel>>
  PROVE  DurableInv(w)'
BY QuietDurable DEF Abort

\* A read goes on.
LEMMA ReaderDurable ==
  ASSUME DeviceInv, NEW w, DurableInv(w), NEW c \in Clients, NEW next, NEW l,
         Goto(c, next, l), UNCHANGED <<dirty_objects, manifest, manifest_state, channel>>,
         l.op \notin {"write", "flush"}, next \notin FlushLabels
  PROVE  DurableInv(w)'
<1>1. RoleOK(w, c, next, l)
  BY DEF RoleOK
<1> QED BY <1>1, BystanderOK, QuietDurable

\* The loops never go on inside a flush.
LEMMA LoopHeadDurable == \A l : LoopHead(l) \notin FlushLabels
BY DEF LoopHead, FlushLabels, FlushingLabels, CommitLabels

\* A pass of the loop of write_at stays in its request.
LEMMA AdvanceRequest ==
  ASSUME NEW l \in Locals, OfRequest(l), l.op = "write"
  PROVE  OfRequest(Advance(l)) /\ Advance(l).op = "write"
<1>1. PICK w \in WriteRequests : /\ l.bytes = w.bytes
                                 /\ l.cursor = w.offset + Len(w.bytes) - l.remaining
  BY DEF OfRequest
<1>2. w.offset \in Nat /\ w.bytes \in Seq(Value)
  BY DeviceAssumption
<1>3. Len(w.bytes) \in Nat
  BY <1>2
<1>4. l.cursor \in Nat /\ l.remaining \in Nat
  BY DEF Locals
<1>5. Take(l.cursor, l.remaining) \in 0 .. l.remaining
  BY <1>4, TakeBounds
<1>6. /\ Advance(l).cursor = l.cursor + Take(l.cursor, l.remaining)
      /\ Advance(l).remaining = l.remaining - Take(l.cursor, l.remaining)
      /\ Advance(l).bytes = l.bytes /\ Advance(l).op = l.op
  BY DEF Advance, Locals
<1>7. Advance(l).cursor = w.offset + Len(w.bytes) - Advance(l).remaining
  BY <1>1, <1>2, <1>3, <1>4, <1>5, <1>6
<1> QED BY <1>1, <1>6, <1>7 DEF OfRequest

\* At the head of the loop of write_at, only the request matters: an object that is
\* replaced as a whole is not read first.
LEMMA LoopHeadWriter ==
  ASSUME NEW l \in Locals, OfRequest(l), l.op = "write", NEW w, LoopHead(l) # "idle"
  PROVE  /\ RoleOK(w, w, LoopHead(l), l)
         /\ \A rows, m, ms, ch : /\ FlusherOK(rows, m, ms, ch, LoopHead(l), l)
                                 /\ WriterOK(rows, m, LoopHead(l), l)
<1>1. LoopHead(l) \in {"limit", "read_object"}
  BY DEF LoopHead
<1>2. LoopHead(l) = "limit" => FullObject(l.cursor, l.remaining)
  BY DEF LoopHead
<1>3. RoleOK(w, w, LoopHead(l), l)
  BY <1>1 DEF RoleOK, FlushLabels, FlushingLabels, CommitLabels
<1>4. ASSUME NEW rows, NEW m, NEW ms, NEW ch
      PROVE  FlusherOK(rows, m, ms, ch, LoopHead(l), l)
  BY <1>1 DEF FlusherOK, FlushingLabels, CommitLabels
<1>5. ASSUME NEW rows, NEW m
      PROVE  WriterOK(rows, m, LoopHead(l), l)
  BY <1>1, <1>2 DEF WriterOK, LookupLabels, WriteLabels, EncodedLabels
<1> QED BY <1>3, <1>4, <1>5

\* A write goes on at a step of its own.
LEMMA WriterDurable ==
  ASSUME DeviceInv, NEW w, DurableInv(w), NEW c \in Clients, NEW next, NEW l,
         Goto(c, next, l), UNCHANGED <<dirty_objects, manifest, manifest_state, channel>>,
         loc[c].op = "write", l.op = "write", next \notin FlushLabels,
         WriterOK(dirty_objects, manifest, next, l)
  PROVE  DurableInv(w)'
<1>1. c = w
  BY DEF DurableInv, RoleOK
<1>2. RoleOK(w, c, next, l)
  BY <1>1 DEF RoleOK
<1>3. FlusherOK(dirty_objects, manifest, manifest_state, channel, next, l)
  BY DEF FlusherOK, FlushLabels, FlushingLabels, CommitLabels
<1> QED BY <1>2, <1>3, QuietDurable

\* read_object returns: to write_at, it returns what the object holds.
LEMMA ReturnDurable ==
  ASSUME DeviceInv, NEW w, DurableInv(w), NEW c \in Clients, NEW payload,
         Return(c, payload), UNCHANGED <<dirty_objects, manifest, manifest_state, channel>>,
         loc[c].op \in {"read", "write"},
         loc[c].op = "write" => payload = PayloadOf(dirty_objects, manifest, Target(c))
  PROVE  DurableInv(w)'
<1> DEFINE l == loc[c]
           next == Advance([l EXCEPT !.out = CopyOut(l, payload)])
           merge == [l EXCEPT !.object = payload, !.entry = NoEntry, !.encoded = None]
<1>1. l \in Locals /\ WriterOK(dirty_objects, manifest, pc[c], l)
  BY DEF DeviceInv, ConnectionsOK, DurableInv
<1>2. CASE l.op = "read"
  <2>1. Goto(c, LoopHead(next), next)
    BY <1>2 DEF Return
  <2>2. next.op = "read"
    BY <1>1, <1>2 DEF Advance, Locals
  <2> HIDE DEF next
  <2> QED BY <2>1, <2>2, LoopHeadDurable, ReaderDurable
<1>3. CASE l.op = "write"
  <2>1. Goto(c, "limit", merge)
    BY <1>3 DEF Return
  <2>2. /\ merge.op = "write" /\ merge.bytes = l.bytes /\ merge.cursor = l.cursor
        /\ merge.remaining = l.remaining /\ merge.object = payload
    BY <1>1, <1>3 DEF Locals
  <2>3. payload = PayloadOf(dirty_objects, manifest, ObjectOf(l.cursor))
    BY <1>3 DEF Target
  <2>4. OfRequest(l)
    BY <1>1, <1>3 DEF WriterOK
  <2> HIDE DEF merge
  <2>5. OfRequest(merge)
    BY <2>2, <2>4 DEF OfRequest
  <2>6. WriterOK(dirty_objects, manifest, "limit", merge)
    BY <2>2, <2>3, <2>5 DEF WriterOK, LookupLabels, EncodedLabels
  <2>7. "limit" \notin FlushLabels
    BY DEF FlushLabels, FlushingLabels, CommitLabels
  <2> QED BY <1>3, <2>1, <2>2, <2>6, <2>7, WriterDurable
<1> QED BY <1>2, <1>3

-----------------------------------------------------------------------------
(* One lemma per group of actions *)

\* A request begins.
LEMMA BeginDurable ==
  ASSUME DeviceInv, NEW w, OneWriter(w), DurableInv(w), NEW c \in Clients, Begin(c)
  PROVE  DurableInv(w)'
<1> USE DEF local, remote
<1>1. CASE BeginRead(c)
  <2>1. PICK r \in ReadRequests :
          LET l == [NoLocals EXCEPT !.op = "read", !.cursor = r.offset, !.remaining = r.len]
          IN  Goto(c, LoopHead(l), l)
    BY <1>1 DEF BeginRead
  <2> DEFINE l == [NoLocals EXCEPT !.op = "read", !.cursor = r.offset, !.remaining = r.len]
  <2>2. l.op = "read"
    BY DEF NoLocals
  <2>3. /\ Goto(c, LoopHead(l), l)
        /\ UNCHANGED <<dirty_objects, manifest, manifest_state, channel>>
    BY <1>1, <2>1 DEF BeginRead
  <2> HIDE DEF l
  <2> QED BY <2>2, <2>3, LoopHeadDurable, ReaderDurable
<1>2. CASE BeginWrite(c)
  <2>1. PICK r \in WriteRequests :
          LET l == [NoLocals EXCEPT !.op = "write", !.cursor = r.offset, !.bytes = r.bytes,
                                    !.remaining = Len(r.bytes)]
          IN  Goto(c, LoopHead(l), l)
    BY <1>2 DEF BeginWrite
  <2> DEFINE l == [NoLocals EXCEPT !.op = "write", !.cursor = r.offset, !.bytes = r.bytes,
                                   !.remaining = Len(r.bytes)]
  <2>2. /\ Goto(c, LoopHead(l), l)
        /\ UNCHANGED <<dirty_objects, manifest, manifest_state, channel>>
    BY <1>2, <2>1 DEF BeginWrite
  <2>3. c = w
    BY <1>2 DEF BeginWrite, OneWriter
  <2>4. r.offset \in Nat /\ r.bytes \in Seq(Value) /\ Len(r.bytes) \in Nat
    BY DeviceAssumption
  <2>5. /\ l.op = "write" /\ l.cursor = r.offset /\ l.bytes = r.bytes
        /\ l.remaining = Len(r.bytes)
    BY DEF NoLocals
  <2>6. l \in Locals
    BY <2>4, InitialValues DEF Locals, NoLocals
  <2> HIDE DEF l
  <2>7. OfRequest(l)
    <3>1. \A a, b \in Nat : a = a + b - b
      OBVIOUS
    <3>2. l.cursor = r.offset + Len(r.bytes) - l.remaining
      BY <2>4, <2>5, <3>1
    <3> QED BY <2>5, <3>2 DEF OfRequest
  <2> QED BY <2>2, <2>3, <2>5, <2>6, <2>7, LoopHeadWriter, QuietDurable
<1>3. CASE BeginFlush(c)
  <2> DEFINE l == [NoLocals EXCEPT !.op = "flush"]
  <2>1. l.op = "flush"
    BY DEF NoLocals
  <2>2. /\ Goto(c, "flush_list", l) /\ c = w
        /\ UNCHANGED <<dirty_objects, manifest, manifest_state, channel>>
    BY <1>3 DEF BeginFlush, OneWriter
  <2> HIDE DEF l
  <2>3. RoleOK(w, c, "flush_list", l)
    BY <2>1, <2>2 DEF RoleOK
  <2>4. FlusherOK(dirty_objects, manifest, manifest_state, channel, "flush_list", l)
    BY DEF FlusherOK, FlushingLabels, CommitLabels
  <2>5. WriterOK(dirty_objects, manifest, "flush_list", l)
    BY <2>1 DEF WriterOK
  <2> QED BY <2>2, <2>3, <2>4, <2>5, QuietDurable
<1> QED BY <1>1, <1>2, <1>3 DEF Begin

\* The steps of read_object.
LEMMA ReadDurable ==
  ASSUME DeviceInv, NEW w, DurableInv(w), NEW c \in Clients, ReadStep(c)
  PROVE  DurableInv(w)'
<1> USE DEF local, remote
<1> DEFINE l == loc[c]
           Calm == UNCHANGED <<dirty_objects, manifest, manifest_state, channel>>
<1>0. l \in Locals /\ WriterOK(dirty_objects, manifest, pc[c], l)
  BY DEF DeviceInv, ConnectionsOK, DurableInv
<1>a. pc[c] \in {"read_object", "read_entry", "read_cache", "fetch", "fill", "filling"}
        => l.op \in {"read", "write"} /\ Target(c) \in Objects
  BY OneConnection, TargetOK DEF ConnectionOK
<1>b. Target(c) = ObjectOf(l.cursor)
  BY DEF Target
<1>c. {"read_object", "read_entry", "read_cache", "fetch", "fill", "filling", "reply"}
         \cap FlushLabels = {}
  BY DEF FlushLabels, FlushingLabels, CommitLabels
<1>1. CASE ReadDirty(c)
  <2>1. Return(c, dirty_objects[Target(c)].sha256.payload) /\ Calm /\ l.op \in {"read", "write"}
    BY <1>1, <1>a DEF ReadDirty
  <2>2. dirty_objects[Target(c)].sha256.payload = PayloadOf(dirty_objects, manifest, Target(c))
    BY <1>1 DEF ReadDirty, PayloadOf
  <2> QED BY <2>1, <2>2, ReturnDurable
<1>2. CASE ReadDirtyRejected(c) \/ ReadOutOfRange(c) \/ ReadCacheRejected(c)
  BY <1>2, AbortDurable DEF ReadDirtyRejected, ReadOutOfRange, ReadCacheRejected
<1>3. CASE ReadNotDirty(c)
  <2>1. Goto(c, "read_entry", l) /\ Calm /\ l.op \in {"read", "write"}
    BY <1>3, <1>a DEF ReadNotDirty
  <2>2. CASE l.op = "read"
    BY <1>c, <2>1, <2>2, ReaderDurable
  <2>3. CASE l.op = "write"
    <3>1. dirty_objects[ObjectOf(l.cursor)] = None
      BY <1>3 DEF ReadNotDirty, Target
    <3>2. WriterOK(dirty_objects, manifest, "read_entry", l)
      BY <1>0, <3>1 DEF WriterOK, LookupLabels, WriteLabels, EncodedLabels
    <3> QED BY <1>c, <2>1, <2>3, <3>2, WriterDurable
  <2> QED BY <2>1, <2>2, <2>3
<1>4. CASE ReadEntry(c)
  <2> DEFINE entry == manifest.objects[Target(c)]
             k == [l EXCEPT !.entry = entry]
  <2>1. /\ Calm /\ pc[c] = "read_entry" /\ l.op \in {"read", "write"}
        /\ Target(c) \in ManifestObjects
        /\ \/ entry.zero /\ Return(c, ZeroObject)
           \/ ~entry.zero /\ Goto(c, "read_cache", k)
    BY <1>4, <1>a DEF ReadEntry
  <2>2. l.op = "write" => dirty_objects[Target(c)] = None /\ OfRequest(l)
    BY <1>0, <1>b, <2>1 DEF WriterOK
  <2>3. CASE entry.zero /\ Return(c, ZeroObject)
    <3>1. l.op = "write" => ZeroObject = PayloadOf(dirty_objects, manifest, Target(c))
      BY <2>2, <2>3 DEF PayloadOf, EntryPayload
    <3> QED BY <2>1, <2>3, <3>1, ReturnDurable
  <2>4. CASE Goto(c, "read_cache", k)
    <3>1. /\ k.op = l.op /\ k.cursor = l.cursor /\ k.bytes = l.bytes
          /\ k.remaining = l.remaining /\ k.entry = entry
      BY <1>0 DEF Locals
    <3> HIDE DEF k
    <3>2. CASE l.op = "read"
      BY <1>c, <2>1, <2>4, <3>1, <3>2, ReaderDurable
    <3>3. CASE l.op = "write"
      <4>1. OfRequest(k)
        BY <2>2, <3>1, <3>3 DEF OfRequest
      <4>2. WriterOK(dirty_objects, manifest, "read_cache", k)
        BY <1>b, <2>1, <2>2, <3>1, <3>3, <4>1 DEF WriterOK, LookupLabels, WriteLabels, EncodedLabels
      <4> QED BY <1>c, <2>1, <2>4, <3>1, <3>3, <4>2, WriterDurable
    <3> QED BY <2>1, <3>2, <3>3
  <2> QED BY <2>1, <2>3, <2>4
<1>d. ASSUME pc[c] \in LookupLabels, l.op = "write"
      PROVE  l.entry.sha256.payload = PayloadOf(dirty_objects, manifest, Target(c))
  <2>1. /\ l.entry = manifest.objects[Target(c)] /\ Target(c) \in ManifestObjects
        /\ dirty_objects[Target(c)] = None
    BY <1>0, <1>b, <1>d DEF WriterOK
  <2>2. l.entry \in StoredEntry
    BY <1>d, OneConnection DEF ConnectionOK, LookupLabels
  <2>3. ~l.entry.zero
    BY <2>2 DEF StoredEntry
  <2> QED BY <2>1, <2>3 DEF PayloadOf, EntryPayload
<1>5. CASE ReadCache(c)
  <2> DEFINE bytes == File(Target(c), l.entry.generation)
  <2>1. /\ pc[c] = "read_cache" /\ Calm /\ l.op \in {"read", "write"}
        /\ \/ Goto(c, "fetch", l)
           \/ bytes = l.entry.sha256 /\ Return(c, bytes.payload)
    BY <1>5, <1>a DEF ReadCache
  <2>2. CASE Goto(c, "fetch", l)
    <3>1. l.op = "write" => WriterOK(dirty_objects, manifest, "fetch", l)
      BY <1>0, <2>1 DEF WriterOK, LookupLabels, WriteLabels, EncodedLabels
    <3> QED BY <1>c, <2>1, <2>2, <3>1, ReaderDurable, WriterDurable
  <2>3. CASE bytes = l.entry.sha256 /\ Return(c, bytes.payload)
    <3>1. pc[c] \in LookupLabels
      BY <2>1 DEF LookupLabels
    <3> QED BY <1>d, <2>1, <2>3, <3>1, ReturnDurable
  <2> QED BY <2>1, <2>2, <2>3
<1>6. CASE FetchObject(c)
  <2> DEFINE body == channel[l.entry.remote].body
             k == [l EXCEPT !.encoded = body]
  <2>1. /\ pc[c] = "fetch" /\ Calm /\ l.op \in {"read", "write"} /\ Goto(c, "fill", k)
        /\ body = l.entry.sha256
    BY <1>6, <1>a DEF FetchObject, Verifies
  <2>2. /\ k.op = l.op /\ k.cursor = l.cursor /\ k.bytes = l.bytes
        /\ k.remaining = l.remaining /\ k.entry = l.entry /\ k.encoded = body
    BY <1>0 DEF Locals
  <2> HIDE DEF k
  <2>3. l.op = "write" => WriterOK(dirty_objects, manifest, "fill", k)
    BY <1>0, <2>1, <2>2 DEF WriterOK, OfRequest, LookupLabels, WriteLabels, EncodedLabels
  <2> QED BY <1>c, <2>1, <2>2, <2>3, ReaderDurable, WriterDurable
<1>7. CASE FillOpen(c)
  <2>1. pc[c] = "fill" /\ Calm /\ l.op \in {"read", "write"} /\ Goto(c, "filling", l)
    BY <1>7, <1>a DEF FillOpen
  <2>2. l.op = "write" => WriterOK(dirty_objects, manifest, "filling", l)
    BY <1>0, <2>1 DEF WriterOK, LookupLabels, WriteLabels, EncodedLabels
  <2> QED BY <1>c, <2>1, <2>2, ReaderDurable, WriterDurable
<1>8. CASE FillBytes(c)
  <2>1. pc[c] = "filling" /\ Calm /\ l.op \in {"read", "write"} /\ Return(c, l.encoded.payload)
    BY <1>8, <1>a DEF FillBytes
  <2>2. l.op = "write" => l.encoded = l.entry.sha256
    BY <1>0, <2>1 DEF WriterOK
  <2>3. pc[c] \in LookupLabels
    BY <2>1 DEF LookupLabels
  <2> QED BY <1>d, <2>1, <2>2, <2>3, ReturnDurable
<1>9. CASE Reply(c)
  <2>1. Goto(c, "idle", NoLocals) /\ Calm
    BY <1>9 DEF Reply
  <2> QED BY <2>1, QuietDurable
<1> QED BY <1>1, <1>2, <1>3, <1>4, <1>5, <1>6, <1>7, <1>8, <1>9 DEF ReadStep

\* The read-ahead of a read goes on, or is given up.
LEMMA PrefetchGoes ==
  ASSUME DeviceInv, NEW w, DurableInv(w), NEW c \in Clients, NEW next, NEW k,
         Goto(c, next, k), UNCHANGED <<dirty_objects, manifest, manifest_state, channel>>,
         k.op = loc[c].op, k.bytes = loc[c].bytes, k.cursor = loc[c].cursor,
         k.remaining = loc[c].remaining,
         next \in {"reply", "prefetch_lock", "prefetch_scan", "prefetch_fetch",
                   "prefetch_fill", "prefetch_filling"}
  PROVE  DurableInv(w)'
<1>1. next \notin FlushLabels
  BY DEF FlushLabels, FlushingLabels, CommitLabels
<1>2. RoleOK(w, c, next, k)
  BY <1>1 DEF DurableInv, RoleOK
<1>3. FlusherOK(dirty_objects, manifest, manifest_state, channel, next, k)
  BY DEF FlusherOK, FlushingLabels, CommitLabels
<1>4. k.op = "write" => OfRequest(k)
  BY DEF DurableInv, WriterOK, OfRequest
<1>5. WriterOK(dirty_objects, manifest, next, k)
  BY <1>4 DEF WriterOK, LookupLabels, WriteLabels, EncodedLabels
<1> QED BY <1>2, <1>3, <1>5, QuietDurable

\* The steps of prefetch_objects.
LEMMA PrefetchDurable ==
  ASSUME DeviceInv, NEW w, DurableInv(w), NEW c \in Clients, PrefetchStep(c)
  PROVE  DurableInv(w)'
<1> USE DEF local, remote
<1> DEFINE l == loc[c]
           Calm == UNCHANGED <<dirty_objects, manifest, manifest_state, channel>>
           Same(k) == /\ k.op = l.op /\ k.bytes = l.bytes /\ k.cursor = l.cursor
                      /\ k.remaining = l.remaining
<1>0. l \in Locals
  BY DEF DeviceInv, ConnectionsOK
<1>1. CASE PrefetchDirtyIds(c)
  <2> DEFINE k == [l EXCEPT !.snapshot = dirty_objects]
  <2>1. Goto(c, "prefetch_lock", k) /\ Calm /\ Same(k)
    BY <1>0, <1>1 DEF PrefetchDirtyIds, Locals
  <2> HIDE DEF k
  <2> QED BY <2>1, PrefetchGoes
<1>2. CASE PrefetchLock(c)
  <2> DEFINE k == [l EXCEPT !.scan = Target(c)]
  <2>1. Goto(c, "prefetch_scan", k) /\ Calm /\ Same(k)
    BY <1>0, <1>2 DEF PrefetchLock, Locals
  <2> HIDE DEF k
  <2> QED BY <2>1, PrefetchGoes
<1>3. CASE PrefetchSkip(c)
  <2> DEFINE k == [l EXCEPT !.scan = l.scan + 1]
  <2>1. Goto(c, "prefetch_scan", k) /\ Calm /\ Same(k)
    BY <1>0, <1>3 DEF PrefetchSkip, Locals
  <2> HIDE DEF k
  <2> QED BY <2>1, PrefetchGoes
<1>4. CASE PrefetchWant(c)
  <2> DEFINE k == [l EXCEPT !.scan = l.scan + 1,
                            !.entries = @ \cup {[object_id |-> l.scan,
                                                 entry |-> manifest.objects[l.scan]]}]
  <2>1. Goto(c, "prefetch_scan", k) /\ Calm /\ Same(k)
    BY <1>0, <1>4 DEF PrefetchWant, Locals
  <2> HIDE DEF k
  <2> QED BY <2>1, PrefetchGoes
<1>5. CASE PrefetchRejected(c) \/ PrefetchScanned(c) \/ PrefetchFillOpen(c)
  <2>1. PICK next \in {"reply", "prefetch_fetch", "prefetch_filling"} : Goto(c, next, l)
    BY <1>5 DEF PrefetchRejected, PrefetchScanned, PrefetchFillOpen
  <2>2. Calm
    BY <1>5 DEF PrefetchRejected, PrefetchScanned, PrefetchFillOpen
  <2> QED BY <2>1, <2>2, PrefetchGoes
<1>6. CASE PrefetchFetch(c)
  <2> DEFINE k == [l EXCEPT !.entries = Fetched(c)]
  <2>1. Same(k)
    BY <1>0 DEF Locals
  <2>2. Calm /\ \E next \in {"reply", "prefetch_fill"} : Goto(c, next, k)
    BY <1>6 DEF PrefetchFetch
  <2> HIDE DEF k
  <2> QED BY <2>1, <2>2, PrefetchGoes
<1>7. CASE PrefetchFillBytes(c)
  <2> DEFINE k == [l EXCEPT !.entries = l.entries \ {NextFill(c)}]
  <2>1. Same(k)
    BY <1>0 DEF Locals
  <2>2. Calm /\ \E next \in {"reply", "prefetch_fill"} : Goto(c, next, k)
    BY <1>7 DEF PrefetchFillBytes
  <2> HIDE DEF k
  <2> QED BY <2>1, <2>2, PrefetchGoes
<1> QED BY <1>1, <1>2, <1>3, <1>4, <1>5, <1>6, <1>7 DEF PrefetchStep

\* Marking an object dirty asks less of the objects that are not.
LEMMA MoreDirty ==
  ASSUME NEW rows, NEW rows2, NEW m, NEW ms, NEW ch, AgreementOK(rows, m, ms, ch),
         DirtyIds(rows) \subseteq DirtyIds(rows2)
  PROVE  AgreementOK(rows2, m, ms, ch)
BY DEF AgreementOK

\* mark_dirty's row: the object is dirty, under a generation that outranks the channel.
LEMMA MarkedOK ==
  ASSUME DeviceInv, NEW w, DurableInv(w), NEW c \in Clients, pc[c] = "mark_dirty",
         NEW rows, rows = [dirty_objects EXCEPT ![Target(c)] = DirtyRow(c)]
  PROVE  /\ GenerationsOK(rows, manifest, manifest_state, channel)
         /\ AgreementOK(rows, manifest, manifest_state, channel)
<1>1. Target(c) \in Objects /\ dirty_objects \in Rows /\ manifest.generation \in Nat
  BY TargetOK DEF DeviceInv, VariablesOK, Manifest
<1>2. loc[c].op = "write" /\ loc[c].encoded \in Encoded /\ loc[c].generation \in Nat
  BY OneConnection DEF ConnectionOK, Locals
<1>3. loc[c].generation = manifest.generation + 1
  BY <1>2 DEF DurableInv, WriterOK, EncodedLabels
<1>4. DirtyRow(c) # None /\ DirtyRow(c).generation = manifest.generation + 1
  BY <1>2, <1>3, DeviceAssumption DEF DirtyRow, Row
<1>5. rows[Target(c)] = DirtyRow(c) /\ \A o \in Objects : o # Target(c) => rows[o] = dirty_objects[o]
  BY <1>1 DEF Rows
<1>6. Target(c) \in DirtyIds(rows) /\ DirtyIds(dirty_objects) \subseteq DirtyIds(rows)
  BY <1>1, <1>4, <1>5 DEF DirtyIds
<1>7. AgreementOK(rows, manifest, manifest_state, channel)
  BY <1>6, MoreDirty DEF DurableInv
<1>8. rows # NoRows
  BY <1>1, <1>6 DEF DirtyIds, NoRows
<1>9. NotBelow(channel, manifest.generation + 1)
  BY DEF DurableInv, GenerationsOK
<1> QED BY <1>4, <1>5, <1>6, <1>7, <1>8, <1>9 DEF GenerationsOK

\* The steps of write_dirty_object.
LEMMA WriteDurable ==
  ASSUME DeviceInv, NEW w, DurableInv(w), NEW c \in Clients, WriteStep(c)
  PROVE  DurableInv(w)'
<1> USE DEF local, remote
<1> DEFINE l == loc[c]
           Calm == UNCHANGED <<dirty_objects, manifest, manifest_state, channel>>
<1>0. l \in Locals /\ WriterOK(dirty_objects, manifest, pc[c], l) /\ RoleOK(w, c, pc[c], l)
  BY DEF DeviceInv, ConnectionsOK, DurableInv
<1>a. pc[c] \in WriteLabels => l.op = "write" /\ OfRequest(l) /\ c = w
  BY <1>0, OneConnection DEF ConnectionOK, WriteLabels, WriterOK, RoleOK
<1>b. WriteLabels \cap FlushLabels = {}
  BY DEF WriteLabels, FlushLabels, FlushingLabels, CommitLabels
<1>1. CASE CheckLimit(c)
  <2>1. pc[c] = "limit" /\ Goto(c, "generation", l) /\ Calm
    BY <1>1 DEF CheckLimit
  <2>2. l.op = "write" /\ "generation" \notin FlushLabels
    BY <1>a, <1>b, <2>1 DEF WriteLabels
  <2>3. WriterOK(dirty_objects, manifest, "generation", l)
    BY <1>0, <2>1, <2>2 DEF WriterOK, WriteLabels, LookupLabels, EncodedLabels
  <2> QED BY <2>1, <2>2, <2>3, WriterDurable
<1>2. CASE LimitReached(c)
  BY <1>2, AbortDurable DEF LimitReached
<1>3. CASE NextGeneration(c)
  <2> DEFINE g == manifest.generation + 1
             k == [l EXCEPT !.generation = g,
                     !.encoded = Encode(Target(c), g, Overlay(l, l.object))]
  <2>1. pc[c] = "generation" /\ Goto(c, "write_cache", k) /\ Calm
    BY <1>3 DEF NextGeneration
  <2>2. l.op = "write" /\ OfRequest(l) /\ "write_cache" \notin FlushLabels
    BY <1>a, <1>b, <2>1 DEF WriteLabels
  <2>3. /\ k.op = l.op /\ k.cursor = l.cursor /\ k.bytes = l.bytes /\ k.object = l.object
        /\ k.remaining = l.remaining /\ k.generation = g
        /\ k.encoded = Encode(Target(c), g, Overlay(l, l.object))
    BY <1>0 DEF Locals
  <2> HIDE DEF k
  <2>4. Overlay(k, k.object) = Overlay(l, l.object)
    BY <2>3 DEF Overlay
  <2>5. k.encoded.payload = Overlay(k, k.object)
    BY <2>3, <2>4 DEF Encode
  <2>6. OfRequest(k)
    BY <2>2, <2>3 DEF OfRequest
  <2>7. \/ FullObject(l.cursor, l.remaining)
        \/ l.object = PayloadOf(dirty_objects, manifest, ObjectOf(l.cursor))
    BY <1>0, <2>1, <2>2 DEF WriterOK, WriteLabels
  <2>8. WriterOK(dirty_objects, manifest, "write_cache", k)
    BY <2>2, <2>3, <2>5, <2>6, <2>7 DEF WriterOK, LookupLabels
  <2> QED BY <2>1, <2>2, <2>3, <2>8, WriterDurable
<1>4. CASE WriteCacheOpen(c) \/ WriteCacheBytes(c)
  <2>1. PICK next \in {"write_bytes", "mark_dirty"} : Goto(c, next, l)
    BY <1>4 DEF WriteCacheOpen, WriteCacheBytes
  <2>2. Calm /\ pc[c] \in {"write_cache", "write_bytes"}
    BY <1>4 DEF WriteCacheOpen, WriteCacheBytes
  <2>3. l.op = "write" /\ next \notin FlushLabels
    BY <1>a, <1>b, <2>1, <2>2 DEF WriteLabels
  <2>4. WriterOK(dirty_objects, manifest, next, l)
    BY <1>0, <2>1, <2>2, <2>3 DEF WriterOK, WriteLabels, LookupLabels, EncodedLabels
  <2> QED BY <2>1, <2>2, <2>3, <2>4, WriterDurable
<1>5. CASE MarkDirty(c)
  <2> DEFINE k == Advance(l)
  <2>1. /\ pc[c] = "mark_dirty" /\ Goto(c, LoopHead(k), k)
        /\ dirty_objects' = [dirty_objects EXCEPT ![Target(c)] = DirtyRow(c)]
        /\ UNCHANGED <<manifest, manifest_state, channel>>
    BY <1>5 DEF MarkDirty
  <2>2. l.op = "write" /\ OfRequest(l) /\ c = w
    BY <1>a, <2>1 DEF WriteLabels
  <2>3. InBounds(l.cursor, l.remaining)
    BY <2>1, OneConnection DEF ConnectionOK
  <2>4. k \in Locals /\ OfRequest(k) /\ k.op = "write"
    BY <1>0, <2>2, <2>3, AdvanceOK, AdvanceRequest
  <2>5. /\ GenerationsOK(dirty_objects', manifest', manifest_state', channel')
        /\ AgreementOK(dirty_objects', manifest', manifest_state', channel')
    BY <2>1, MarkedOK
  <2> HIDE DEF k
  <2>6. LoopHead(k) # "idle" =>
          /\ RoleOK(w, c, LoopHead(k), k)
          /\ FlusherOK(dirty_objects', manifest', manifest_state', channel', LoopHead(k), k)
          /\ WriterOK(dirty_objects', manifest', LoopHead(k), k)
    BY <2>2, <2>4, LoopHeadWriter
  <2> QED BY <2>1, <2>2, <2>5, <2>6, StepDurable
<1> QED BY <1>1, <1>2, <1>3, <1>4, <1>5 DEF WriteStep

-----------------------------------------------------------------------------
(* flush *)

\* An uploaded object or manifest changes nothing the invariant says of the data.
LEMMA SendOtherDurable ==
  ASSUME DeviceInv, NEW w, DurableInv(w), NEW msg \in Message, msg.kind # "superblock",
         NEW ch, ch = Append(channel, msg)
  PROVE  /\ GenerationsOK(dirty_objects, manifest, manifest_state, ch)
         /\ AgreementOK(dirty_objects, manifest, manifest_state, ch)
         /\ \A g : NotBelow(ch, g) <=> NotBelow(channel, g)
<1>1. channel \in Seq(Message) /\ ChannelOK(channel)
  BY DEF DeviceInv, RemoteOK
<1>2. /\ Superblocks(ch) = Superblocks(channel)
      /\ \A i : InForce(ch, i) <=> InForce(channel, i)
      /\ \A i \in Superblocks(channel) : ManifestOf(ch, i) = ManifestOf(channel, i)
      /\ \A g : NotBelow(ch, g) <=> NotBelow(channel, g)
  BY <1>1, SendOther
<1>3. GenerationsOK(dirty_objects, manifest, manifest_state, ch)
  BY <1>2 DEF DurableInv, GenerationsOK
<1>4. AgreementOK(dirty_objects, manifest, manifest_state, ch)
  BY <1>2 DEF DurableInv, AgreementOK
<1> QED BY <1>2, <1>3, <1>4

\* What the invariant says of a flush past its lock.
LEMMA FlushFacts ==
  ASSUME DeviceInv, NEW w, DurableInv(w), NEW c \in Clients, pc[c] \in FlushLabels
  PROVE  /\ c = w /\ loc[c].op = "flush" /\ loc[c] \in Locals
         /\ FlusherOK(dirty_objects, manifest, manifest_state, channel, pc[c], loc[c])
         /\ dirty_objects \in Rows /\ manifest \in Manifest /\ manifest.generation \in Nat
         /\ \A o \in DirtyIds(dirty_objects) : dirty_objects[o].generation \in Nat
         /\ channel \in Seq(Message) /\ ChannelOK(channel) /\ ManifestOK(channel, manifest)
<1>1. /\ dirty_objects \in Rows /\ manifest \in Manifest /\ loc[c] \in Locals
      /\ channel \in Seq(Message) /\ ChannelOK(channel) /\ ManifestOK(channel, manifest)
  BY DEF DeviceInv, VariablesOK, RemoteOK, ConnectionsOK
<1>2. \A o \in DirtyIds(dirty_objects) : dirty_objects[o].generation \in Nat
  BY <1>1, DirtyIdsOK DEF Row
<1>3. manifest.generation \in Nat
  BY <1>1 DEF Manifest
<1> QED BY <1>1, <1>2, <1>3 DEF DurableInv, RoleOK

\* The superblock of a flush, once it has arrived, makes the manifest in memory the one
\* a recovery finds.
LEMMA PublishDurable ==
  ASSUME DeviceInv, NEW w, DurableInv(w), NEW c \in Clients,
         pc[c] \in {"flush_superblock", "flush_backup"},
         NEW ch, ch = Append(channel, SuperblockMessage(loc[c].superblock))
  PROVE  /\ GenerationsOK(dirty_objects, manifest, manifest_state, ch)
         /\ AgreementOK(dirty_objects, manifest, manifest_state, ch)
         /\ NotBelow(ch, manifest.generation)
         /\ \E i \in Superblocks(ch) : InForce(ch, i) /\ ManifestOf(ch, i) = manifest
         /\ FetchManifest(ch, loc[c].superblock.current) = manifest
         /\ loc[c].superblock.current.generation = manifest.generation
<1> DEFINE sb == loc[c].superblock
<1>1. /\ FlusherOK(dirty_objects, manifest, manifest_state, channel, pc[c], loc[c])
      /\ channel \in Seq(Message) /\ ManifestOK(channel, manifest)
      /\ dirty_objects \in Rows /\ manifest.generation \in Nat
      /\ \A o \in DirtyIds(dirty_objects) : dirty_objects[o].generation \in Nat
  BY FlushFacts DEF FlushLabels, FlushingLabels, CommitLabels
<1>2. /\ NotBelow(channel, manifest.generation)
      /\ \E o \in DirtyIds(dirty_objects) : dirty_objects[o].generation >= manifest.generation
      /\ sb.current.generation = manifest.generation
      /\ FetchManifest(channel, sb.current) = manifest
  BY <1>1 DEF FlusherOK, FlushingLabels, CommitLabels
<1>3. sb \in Superblock /\ SuperblockOK(channel, sb)
  BY SendSuperblockOK
<1> HIDE DEF sb
<1>4. PICK i \in Superblocks(ch) :
        /\ InForce(ch, i) /\ ManifestOf(ch, i) = manifest
        /\ FetchManifest(ch, sb.current) = manifest
        /\ \A g \in Nat : manifest.generation <= g => NotBelow(ch, g)
  BY <1>1, <1>2, <1>3, SendSuperblock DEF sb
<1>5. dirty_objects # NoRows
  BY <1>2 DEF DirtyIds, NoRows
<1>6. GenerationsOK(dirty_objects, manifest, manifest_state, ch)
  <2>1. NotBelow(ch, manifest.generation + 1)
    BY <1>1, <1>4
  <2>2. PICK o \in DirtyIds(dirty_objects) : dirty_objects[o].generation >= manifest.generation
    BY <1>2
  <2>3. NotBelow(ch, dirty_objects[o].generation)
    BY <1>1, <1>4, <2>2
  <2> QED BY <1>5, <2>1, <2>3 DEF GenerationsOK
<1>7. AgreementOK(dirty_objects, manifest, manifest_state, ch)
  <2>1. /\ \A o \in Objects \ DirtyIds(dirty_objects) :
             EntryPayload(manifest, o) = EntryPayload(manifest_state, o)
        /\ manifest_state.garbage \subseteq manifest.garbage
    BY DEF DurableInv, AgreementOK
  <2>2. manifest_state.garbage \cap Live(manifest) = {}
    BY <1>1, <2>1 DEF ManifestOK
  <2> QED BY <1>4, <2>1, <2>2 DEF AgreementOK
<1>8. NotBelow(ch, manifest.generation)
  BY <1>1, <1>4
<1> QED BY <1>2, <1>4, <1>6, <1>7, <1>8 DEF sb

\* Pointing the manifest at an upload changes the object uploaded and no other, and only
\* adds garbage.
LEMMA UploadedPayload ==
  ASSUME NEW m \in Manifest, NEW o \in ManifestObjects, NEW bytes, NEW id, NEW m2,
         m2 = WithUploaded(m, o, bytes, id)
  PROVE  /\ m2.generation = m.generation /\ m.garbage \subseteq m2.garbage
         /\ EntryPayload(m2, o) = bytes.payload
         /\ \A p : p # o => EntryPayload(m2, p) = EntryPayload(m, p)
<1> DEFINE e == [generation |-> bytes.generation, remote |-> id, sha256 |-> bytes, zero |-> FALSE]
<1>1. /\ m2.objects = [m.objects EXCEPT ![o] = e] /\ m2.generation = m.generation
      /\ m2.garbage \in {m.garbage, m.garbage \cup {m.objects[o].remote}}
  BY DEF WithUploaded, Manifest
<1>2. m.objects \in [ManifestObjects -> Entry]
  BY DEF Manifest
<1>3. m2.objects[o] = e /\ \A p \in ManifestObjects : p # o => m2.objects[p] = m.objects[p]
  BY <1>1, <1>2
<1>4. e.zero = FALSE /\ e.sha256 = bytes
  OBVIOUS
<1> HIDE DEF e
<1>5. EntryPayload(m2, o) = bytes.payload
  BY <1>3, <1>4 DEF EntryPayload
<1>6. \A p : p # o => EntryPayload(m2, p) = EntryPayload(m, p)
  BY <1>3 DEF EntryPayload
<1> QED BY <1>1, <1>5, <1>6

\* What read_object returns depends on the entries of a manifest alone.
LEMMA SameEntries ==
  ASSUME NEW m, NEW m2, m2.objects = m.objects
  PROVE  \A o : EntryPayload(m2, o) = EntryPayload(m, o)
BY DEF EntryPayload

\* flush takes the highest generation of its rows.
LEMMA HighestRow ==
  ASSUME NEW rows \in Rows, DirtyIds(rows) # {},
         NEW g, g = Max({rows[o].generation : o \in DirtyIds(rows)})
  PROVE  /\ g \in Nat
         /\ \A o \in DirtyIds(rows) : rows[o].generation <= g
         /\ \E o \in DirtyIds(rows) : rows[o].generation = g
<1> DEFINE f == [o \in DirtyIds(rows) |-> rows[o].generation]
           F == {f[o] : o \in DirtyIds(rows)}
           G == {rows[o].generation : o \in DirtyIds(rows)}
<1>1. IsFiniteSet(DirtyIds(rows)) /\ \A o \in DirtyIds(rows) : rows[o].generation \in Nat
  BY DirtyIdsOK DEF Row
<1>2. f \in [DirtyIds(rows) -> Nat]
  BY <1>1
<1>3. F = G
  OBVIOUS
<1> HIDE DEF f
<1>4. IsFiniteSet(F)
  BY <1>1, <1>2, FiniteImage
<1>5. G \in SUBSET Int /\ G # {} /\ IsFiniteSet(G)
  <2>1. G \in SUBSET Int
    BY <1>1
  <2>2. G # {}
    OBVIOUS
  <2> HIDE DEF F, G
  <2> QED BY <1>3, <1>4, <2>1, <2>2
<1> HIDE DEF G
<1>6. Max(G) \in G /\ \A y \in G : y <= Max(G)
  BY <1>5, MaxIsLargest
<1>7. g = Max(G)
  BY DEF G
<1> QED BY <1>1, <1>6, <1>7 DEF G

\* The steps that prepare the flush and upload the objects.
LEMMA UploadDurable ==
  ASSUME DeviceInv, NEW w, DurableInv(w), NEW c \in Clients,
         FlushList(c) \/ FlushLock(c) \/ FlushObject(c)
  PROVE  DurableInv(w)'
<1> USE DEF local, remote
<1> DEFINE l == loc[c]
<1>0. pc[c] \in FlushLabels
  BY DEF FlushList, FlushLock, FlushObject, FlushLabels, FlushingLabels
<1>a. /\ c = w /\ l.op = "flush" /\ l \in Locals
      /\ FlusherOK(dirty_objects, manifest, manifest_state, channel, pc[c], l)
      /\ dirty_objects \in Rows /\ manifest \in Manifest /\ manifest.generation \in Nat
      /\ \A o \in DirtyIds(dirty_objects) : dirty_objects[o].generation \in Nat
      /\ channel \in Seq(Message) /\ ChannelOK(channel)
  BY <1>0, FlushFacts
<1>b. {"flush_lock", "flush_object", "flush_manifest"} \cap CommitLabels = {}
  BY DEF CommitLabels
<1>1. CASE FlushList(c)
  <2> DEFINE k == [l EXCEPT !.snapshot = dirty_objects]
  <2>1. PICK next \in {"idle", "flush_lock"} : Goto(c, next, k)
    BY <1>1 DEF FlushList
  <2>2. UNCHANGED <<dirty_objects, manifest, manifest_state, channel>>
    BY <1>1 DEF FlushList
  <2>3. k.op = "flush" /\ k.snapshot = dirty_objects
    BY <1>a DEF Locals
  <2> HIDE DEF k
  <2>4. RoleOK(w, c, next, k) /\ WriterOK(dirty_objects, manifest, next, k)
    BY <1>a, <2>3 DEF RoleOK, WriterOK
  <2>5. FlusherOK(dirty_objects, manifest, manifest_state, channel, next, k)
    BY <2>1, <2>3 DEF FlusherOK, FlushingLabels, CommitLabels
  <2> QED BY <2>1, <2>2, <2>4, <2>5, QuietDurable
<1>2. CASE FlushLock(c)
  <2> DEFINE rows == dirty_objects
             g == Max({rows[o].generation : o \in DirtyIds(rows)})
             m == [manifest EXCEPT !.generation = g]
  <2>1. pc[c] = "flush_lock" /\ l.snapshot = rows /\ DirtyIds(rows) # {}
    BY <1>2, <1>a, OneConnection DEF FlushLock, FlusherOK, ConnectionOK
  <2>2. /\ manifest' = m /\ Goto(c, "flush_object", l)
        /\ UNCHANGED <<dirty_objects, manifest_state, channel>>
    BY <1>2, <2>1 DEF FlushLock
  <2>3. /\ g \in Nat /\ \A o \in DirtyIds(rows) : rows[o].generation <= g
        /\ \E o \in DirtyIds(rows) : rows[o].generation = g
    BY <1>a, <2>1, HighestRow
  <2>4. m.generation = g /\ m.objects = manifest.objects /\ m.garbage = manifest.garbage
    BY <1>a DEF Manifest
  <2> HIDE DEF g, m
  <2>5. rows # NoRows
    BY <2>1 DEF DirtyIds, NoRows
  <2>6. PICK o \in DirtyIds(rows) : NotBelow(channel, rows[o].generation)
    BY <2>5 DEF DurableInv, GenerationsOK
  <2>7. NotBelow(channel, g) /\ NotBelow(channel, g + 1)
    <3>1. \A i \in Superblocks(channel) : Generation(channel, i) \in Nat
      BY <1>a, SuperblockTypes
    <3>2. rows[o].generation <= g /\ rows[o].generation \in Nat
      BY <1>a, <2>3, <2>6
    <3> HIDE DEF rows
    <3> QED BY <2>3, <2>6, <3>1, <3>2 DEF NotBelow
  <2>8. GenerationsOK(rows, m, manifest_state, channel)
    BY <2>4, <2>5, <2>6, <2>7 DEF GenerationsOK
  <2>9. AgreementOK(rows, m, manifest_state, channel)
    <3>1. \A p : EntryPayload(m, p) = EntryPayload(manifest, p)
      BY <2>4, SameEntries
    <3> QED BY <2>4, <3>1 DEF DurableInv, AgreementOK
  <2>10. FlusherOK(rows, m, manifest_state, channel, "flush_object", l)
    <3>1. \E p \in DirtyIds(rows) : rows[p].generation >= m.generation
      BY <1>a, <2>3, <2>4
    <3>2. \A p \in DirtyIds(rows) : l.snapshot[p] # None
      BY <2>1 DEF DirtyIds
    <3> QED BY <1>b, <2>1, <2>4, <2>7, <3>1, <3>2 DEF FlusherOK
  <2>11. RoleOK(w, c, "flush_object", l) /\ WriterOK(rows, m, "flush_object", l)
    BY <1>a DEF RoleOK, WriterOK
  <2> QED BY <1>a, <2>2, <2>8, <2>9, <2>10, <2>11, StepDurable
<1>3. CASE FlushObject(c)
  <2> DEFINE rows == dirty_objects
             o == FlushTarget(c)
             bytes == l.snapshot[o].sha256
             rest == [l.snapshot EXCEPT ![o] = None]
             next == IF rest = NoRows THEN "flush_manifest" ELSE "flush_object"
             k == [l EXCEPT !.snapshot = rest]
             m == WithUploaded(manifest, o, bytes, Len(channel) + 1)
             msg == ObjectMessage(bytes)
             ch == Append(channel, msg)
  <2>1. /\ pc[c] = "flush_object" /\ FlushReadable(c) /\ o \in ManifestObjects
        /\ channel' = ch /\ manifest' = m /\ Goto(c, next, k)
        /\ UNCHANGED <<dirty_objects, manifest_state>>
    BY <1>3 DEF FlushObject
  <2>2. /\ o \in Objects /\ l.snapshot[o] # None /\ l.snapshot \in Rows
    BY <1>a, <2>1, FlushTargetOK DEF DirtyIds, Locals
  <2>3. l.snapshot[o] = rows[o] /\ o \in DirtyIds(rows)
    BY <1>a, <2>1, <2>2 DEF FlusherOK, DirtyIds
  <2>4. msg \in Message /\ msg.kind = "object"
    BY <2>1, ReadableOK DEF ObjectMessage
  <2>5. /\ m.generation = manifest.generation /\ manifest.garbage \subseteq m.garbage
        /\ EntryPayload(m, o) = rows[o].sha256.payload
        /\ \A p : p # o => EntryPayload(m, p) = EntryPayload(manifest, p)
    BY <1>a, <2>1, <2>3, UploadedPayload
  <2>6. k.op = "flush" /\ k.snapshot = rest
    BY <1>a DEF Locals
  <2>7. rest[o] = None /\ \A p \in Objects : p # o => rest[p] = l.snapshot[p]
    BY <2>2 DEF Rows
  <2>8. next = "flush_manifest" => \A p \in Objects : rest[p] = None
    BY DEF NoRows
  <2>9. next \in {"flush_manifest", "flush_object"}
    OBVIOUS
  <2> HIDE DEF o, k, m, msg, rest, next
  <2>10. /\ GenerationsOK(rows, manifest, manifest_state, ch)
         /\ AgreementOK(rows, manifest, manifest_state, ch)
         /\ NotBelow(ch, manifest.generation) <=> NotBelow(channel, manifest.generation)
    BY <2>4, SendOtherDurable
  <2> HIDE DEF ch
  <2>11. GenerationsOK(rows, m, manifest_state, ch)
    BY <2>5, <2>10 DEF GenerationsOK
  <2>12. AgreementOK(rows, m, manifest_state, ch)
    BY <2>3, <2>5, <2>10 DEF AgreementOK
  <2>13. /\ NotBelow(ch, m.generation)
         /\ \E p \in DirtyIds(rows) : rows[p].generation >= m.generation
    BY <1>a, <2>1, <2>5, <2>10 DEF FlusherOK, FlushingLabels
  <2>14. ASSUME NEW p \in DirtyIds(rows), rest[p] = None
         PROVE  EntryPayload(m, p) = rows[p].sha256.payload
    <3>1. CASE p = o
      BY <2>5, <3>1
    <3>2. CASE p # o
      <4>1. p \in Objects
        BY DEF DirtyIds
      <4>2. l.snapshot[p] = None
        BY <2>7, <2>14, <3>2, <4>1
      <4>3. EntryPayload(manifest, p) = rows[p].sha256.payload
        BY <1>a, <2>1, <4>2 DEF FlusherOK, FlushingLabels
      <4> QED BY <2>5, <3>2, <4>3
    <3> QED BY <3>1, <3>2
  <2>15. \A p \in Objects : rest[p] \in {None, rows[p]}
    <3>1. \A p \in Objects : l.snapshot[p] \in {None, rows[p]}
      BY <1>a, <2>1 DEF FlusherOK
    <3> QED BY <2>7, <3>1
  <2>16. \A p \in DirtyIds(rows) : (next = "flush_object" => rest[p] = None)
                                     => EntryPayload(m, p) = rows[p].sha256.payload
    BY <2>8, <2>9, <2>14 DEF DirtyIds
  <2>17. FlusherOK(rows, m, manifest_state, ch, next, k)
    BY <1>b, <2>6, <2>9, <2>13, <2>15, <2>16 DEF FlusherOK
  <2>18. RoleOK(w, c, next, k) /\ WriterOK(rows, m, next, k)
    BY <1>a, <2>6 DEF RoleOK, WriterOK
  <2> QED BY <1>a, <2>1, <2>11, <2>12, <2>17, <2>18, StepDurable
<1> QED BY <1>1, <1>2, <1>3

\* clear_dirty_and_wal: everything is in the manifest, which is saved and in force.
LEMMA ClearedDurable ==
  ASSUME DeviceInv, NEW w, DurableInv(w), NEW c \in Clients, pc[c] = "flush_clear"
  PROVE  /\ GenerationsOK(NoRows, manifest, manifest_state, channel)
         /\ AgreementOK(NoRows, manifest, manifest_state, channel)
         /\ \A o \in DirtyIds(dirty_objects) :
              EntryPayload(manifest, o) = dirty_objects[o].sha256.payload
<1>1. /\ FlusherOK(dirty_objects, manifest, manifest_state, channel, pc[c], loc[c])
      /\ ManifestOK(channel, manifest) /\ manifest.generation \in Nat
      /\ channel \in Seq(Message)
  BY FlushFacts DEF FlushLabels, FlushingLabels
<1>2. /\ NotBelow(channel, manifest.generation) /\ manifest_state = manifest
      /\ \A o \in DirtyIds(dirty_objects) :
           EntryPayload(manifest, o) = dirty_objects[o].sha256.payload
  BY <1>1 DEF FlusherOK, FlushingLabels
<1>3. PICK i \in Superblocks(channel) : InForce(channel, i) /\ ManifestOf(channel, i) = manifest
  BY <1>1 DEF FlusherOK
<1>4. manifest.garbage \cap Live(manifest) = {}
  BY <1>1 DEF ManifestOK
<1>5. AgreementOK(NoRows, manifest, manifest_state, channel)
  BY <1>2, <1>3, <1>4 DEF AgreementOK
<1>6. NotBelow(channel, manifest.generation + 1)
  BY DEF DurableInv, GenerationsOK
<1>7. GenerationsOK(NoRows, manifest, manifest_state, channel)
  BY <1>2, <1>6 DEF GenerationsOK
<1> QED BY <1>2, <1>5, <1>7

\* The steps of commit_manifest and what follows it.
LEMMA CommitDurable ==
  ASSUME DeviceInv, NEW w, DurableInv(w), NEW c \in Clients,
         \/ FlushManifest(c) \/ FlushSuperblock(c) \/ FlushPin(c) \/ FlushBackup(c)
         \/ FlushReplace(c) \/ FlushClear(c)
  PROVE  DurableInv(w)'
<1> USE DEF local, remote
<1> DEFINE l == loc[c]
           rows == dirty_objects
<1>0. pc[c] \in FlushLabels /\ pc[c] \in FlushingLabels /\ pc[c] # "flush_object"
  BY DEF FlushManifest, FlushSuperblock, FlushPin, FlushBackup, FlushReplace, FlushClear,
     FlushLabels, FlushingLabels, CommitLabels
<1>a. /\ c = w /\ l.op = "flush" /\ l \in Locals
      /\ FlusherOK(rows, manifest, manifest_state, channel, pc[c], l)
      /\ rows \in Rows /\ manifest \in Manifest /\ manifest.generation \in Nat
      /\ channel \in Seq(Message) /\ ChannelOK(channel) /\ ManifestOK(channel, manifest)
  BY <1>0, FlushFacts
<1>b. /\ NotBelow(channel, manifest.generation)
      /\ \E o \in DirtyIds(rows) : rows[o].generation >= manifest.generation
      /\ \A o \in DirtyIds(rows) : EntryPayload(manifest, o) = rows[o].sha256.payload
  BY <1>0, <1>a DEF FlusherOK
<1>c. ASSUME NEW k, k.op = "flush", NEW next, NEW m
      PROVE  RoleOK(w, c, next, k) /\ WriterOK(rows, m, next, k)
  BY <1>a, <1>c DEF RoleOK, WriterOK
<1>d. rows # NoRows
  BY <1>b DEF DirtyIds, NoRows
<1>1. CASE FlushManifest(c)
  <2> DEFINE ref == [message_id |-> Len(channel) + 1, generation |-> manifest.generation]
             sb == ForManifest(channel, pinned, ref)
             k == [l EXCEPT !.superblock = sb]
             msg == ManifestMessage(manifest)
             ch == Append(channel, msg)
             next == IF pinned = 0 THEN "flush_superblock" ELSE "flush_backup"
  <2>1. /\ channel' = ch /\ Goto(c, next, k)
        /\ UNCHANGED <<dirty_objects, manifest, manifest_state>>
    BY <1>1 DEF FlushManifest
  <2>2. msg \in Message /\ msg.kind = "manifest" /\ msg.body = manifest
    BY <1>a DEF ManifestMessage, Message
  <2>3. sb.current = ref
    BY DEF ForManifest
  <2>4. k.op = "flush" /\ k.superblock.current = ref
    BY <1>a, <2>3 DEF Locals
  <2>5. ref.message_id = Len(channel) + 1 /\ ref.generation = manifest.generation
    OBVIOUS
  <2>6. next \in {"flush_superblock", "flush_backup"}
    OBVIOUS
  <2> HIDE DEF ref, sb, k, msg, next
  <2>7. FetchManifest(ch, ref) = manifest
    BY <1>a, <2>2, <2>5, AppendGrows DEF FetchManifest
  <2>8. /\ GenerationsOK(rows, manifest, manifest_state, ch)
        /\ AgreementOK(rows, manifest, manifest_state, ch)
        /\ NotBelow(ch, manifest.generation)
    BY <1>b, <2>2, SendOtherDurable
  <2> HIDE DEF ch
  <2>9. FlusherOK(rows, manifest, manifest_state, ch, next, k)
    BY <1>b, <2>4, <2>5, <2>6, <2>7, <2>8 DEF FlusherOK
  <2> QED BY <1>a, <1>c, <2>1, <2>4, <2>8, <2>9, StepDurable
<1>2. CASE FlushSuperblock(c) \/ FlushBackup(c)
  <2> DEFINE ch == Append(channel, SuperblockMessage(l.superblock))
  <2>1. /\ channel' = ch /\ pc[c] \in {"flush_superblock", "flush_backup"}
        /\ UNCHANGED <<dirty_objects, manifest, manifest_state>>
    BY <1>2 DEF FlushSuperblock, FlushBackup
  <2>2. PICK next \in {"flush_pin", "flush_replace"},
             k \in {l, [l EXCEPT !.message = Len(channel) + 1]} : Goto(c, next, k)
    BY <1>2 DEF FlushSuperblock, FlushBackup
  <2>3. k.op = "flush" /\ k.superblock = l.superblock
    BY <1>a, <2>2 DEF Locals
  <2>4. /\ GenerationsOK(rows, manifest, manifest_state, ch)
        /\ AgreementOK(rows, manifest, manifest_state, ch)
        /\ NotBelow(ch, manifest.generation)
        /\ \E i \in Superblocks(ch) : InForce(ch, i) /\ ManifestOf(ch, i) = manifest
        /\ FetchManifest(ch, l.superblock.current) = manifest
        /\ l.superblock.current.generation = manifest.generation
    BY <2>1, PublishDurable
  <2> HIDE DEF ch
  <2>5. FlusherOK(rows, manifest, manifest_state, ch, next, k)
    BY <1>b, <2>2, <2>3, <2>4 DEF FlusherOK
  <2> QED BY <1>a, <1>c, <2>1, <2>2, <2>3, <2>4, <2>5, StepDurable
<1>3. CASE FlushPin(c)
  <2>1. /\ pc[c] = "flush_pin" /\ Goto(c, "flush_backup", l)
        /\ UNCHANGED <<dirty_objects, manifest, manifest_state, channel>>
    BY <1>3 DEF FlushPin
  <2>2. FlusherOK(rows, manifest, manifest_state, channel, "flush_backup", l)
    BY <1>a, <1>b, <2>1 DEF FlusherOK, CommitLabels
  <2> QED BY <1>a, <1>c, <2>1, <2>2, QuietDurable
<1>4. CASE FlushReplace(c)
  <2>1. /\ pc[c] = "flush_replace" /\ Goto(c, "flush_clear", l) /\ manifest_state' = manifest
        /\ UNCHANGED <<dirty_objects, manifest, channel>>
    BY <1>4 DEF FlushReplace
  <2>2. PICK i \in Superblocks(channel) : InForce(channel, i) /\ ManifestOf(channel, i) = manifest
    BY <1>a, <2>1 DEF FlusherOK
  <2>3. manifest.garbage \cap Live(manifest) = {}
    BY <1>a DEF ManifestOK
  <2>4. AgreementOK(rows, manifest, manifest, channel)
    BY <2>2, <2>3 DEF AgreementOK
  <2>5. GenerationsOK(rows, manifest, manifest, channel)
    BY <1>d DEF DurableInv, GenerationsOK
  <2>6. FlusherOK(rows, manifest, manifest, channel, "flush_clear", l)
    BY <1>b, <2>2 DEF FlusherOK, CommitLabels
  <2> QED BY <1>a, <1>c, <2>1, <2>4, <2>5, <2>6, StepDurable
<1>5. CASE FlushClear(c)
  <2>1. /\ pc[c] = "flush_clear" /\ Goto(c, "idle", NoLocals) /\ dirty_objects' = NoRows
        /\ UNCHANGED <<manifest_state, manifest, channel>>
    BY <1>5 DEF FlushClear
  <2>2. /\ GenerationsOK(NoRows, manifest, manifest_state, channel)
        /\ AgreementOK(NoRows, manifest, manifest_state, channel)
    BY <2>1, ClearedDurable
  <2> QED BY <1>a, <2>1, <2>2, StepDurable
<1> QED BY <1>1, <1>2, <1>3, <1>4, <1>5

\* A message of a failed flush may have arrived all the same.
LEMMA SentDurable ==
  ASSUME DeviceInv, NEW w, DurableInv(w), NEW c \in Clients, Abort(c),
         pc[c] \in FlushLabels, UNCHANGED <<dirty_objects, manifest, manifest_state>>,
         GenerationsOK(dirty_objects, manifest, manifest_state, channel'),
         AgreementOK(dirty_objects, manifest, manifest_state, channel')
  PROVE  DurableInv(w)'
<1>1. c = w
  BY FlushFacts
<1> QED BY <1>1, StepDurable DEF Abort

\* The steps of flush.
LEMMA FlushDurable ==
  ASSUME DeviceInv, NEW w, DurableInv(w), NEW c \in Clients, FlushStep(c)
  PROVE  DurableInv(w)'
<1> USE DEF local, remote
<1>1. CASE FlushRejected(c)
  BY <1>1, AbortDurable DEF FlushRejected
<1>2. CASE FlushMissingObject(c)
  <2> DEFINE msg == ObjectMessage(loc[c].snapshot[FlushTarget(c)].sha256)
  <2>1. /\ pc[c] = "flush_object" /\ FlushReadable(c) /\ Abort(c)
        /\ channel' = Append(channel, msg)
        /\ UNCHANGED <<dirty_objects, manifest, manifest_state>>
    BY <1>2 DEF FlushMissingObject
  <2>2. msg \in Message /\ msg.kind # "superblock"
    BY <2>1, ReadableOK DEF ObjectMessage
  <2>3. pc[c] \in FlushLabels
    BY <2>1 DEF FlushLabels, FlushingLabels
  <2> HIDE DEF msg
  <2> QED BY <2>1, <2>2, <2>3, SendOtherDurable, SentDurable
<1> QED BY <1>1, <1>2, UploadDurable, CommitDurable DEF FlushStep

\* The failures.
LEMMA FaultDurable ==
  ASSUME DeviceInv, NEW w, DurableInv(w), NEW c \in Clients, Fault(c)
  PROVE  DurableInv(w)'
<1> USE DEF local, remote
<1> DEFINE l == loc[c]
<1>1. CASE SendFails(c)
  <2> DEFINE message == CASE pc[c] = "flush_object" ->
                               ObjectMessage(l.snapshot[FlushTarget(c)].sha256)
                          [] pc[c] = "flush_manifest" -> ManifestMessage(manifest)
                          [] OTHER -> SuperblockMessage(l.superblock)
  <2>1. /\ pc[c] \in {"flush_object", "flush_manifest", "flush_superblock", "flush_backup"}
        /\ pc[c] = "flush_object" => FlushReadable(c)
        /\ channel' \in {channel, Append(channel, message)} /\ Abort(c)
        /\ UNCHANGED <<dirty_objects, manifest, manifest_state>>
    BY <1>1 DEF SendFails
  <2>2. pc[c] \in FlushLabels
    BY <2>1 DEF FlushLabels, FlushingLabels, CommitLabels
  <2>3. CASE channel' = channel
    BY <2>1, <2>3, AbortDurable
  <2>4. CASE pc[c] \in {"flush_object", "flush_manifest"} /\ channel' = Append(channel, message)
    <3>1. message \in Message /\ message.kind # "superblock"
      <4>1. CASE pc[c] = "flush_object"
        BY <2>1, <4>1, ReadableOK DEF ObjectMessage
      <4>2. CASE pc[c] = "flush_manifest"
        <5>1. message = ManifestMessage(manifest)
          BY <4>2
        <5>2. manifest \in Manifest
          BY DEF DeviceInv, VariablesOK
        <5> HIDE DEF message
        <5> QED BY <5>1, <5>2 DEF ManifestMessage, Message
      <4> QED BY <2>4, <4>1, <4>2
    <3> HIDE DEF message
    <3> QED BY <2>1, <2>2, <2>4, <3>1, SendOtherDurable, SentDurable
  <2>5. CASE /\ pc[c] \in {"flush_superblock", "flush_backup"}
             /\ channel' = Append(channel, message)
    <3>1. message = SuperblockMessage(l.superblock)
      BY <2>5
    <3> HIDE DEF message
    <3> QED BY <2>1, <2>2, <2>5, <3>1, PublishDurable, SentDurable
  <2> HIDE DEF message
  <2> QED BY <2>1, <2>3, <2>4, <2>5
<1>2. CASE PinFails(c) \/ QueryFails(c) \/ WriteCacheFails(c)
  BY <1>2, AbortDurable DEF PinFails, QueryFails, WriteCacheFails
<1>3. CASE FetchFails(c) \/ PrefetchQueryFails(c) \/ PrefetchFillFails(c)
  <2>1. UNCHANGED <<dirty_objects, manifest, manifest_state, channel>>
    BY <1>3 DEF FetchFails, PrefetchQueryFails, PrefetchFillFails
  <2>2. Abort(c) \/ Goto(c, "reply", l)
    BY <1>3 DEF FetchFails, PrefetchQueryFails, PrefetchFillFails
  <2> QED BY <2>1, <2>2, AbortDurable, PrefetchGoes
<1>4. CASE MarkDirtyFails(c)
  <2>1. /\ pc[c] = "mark_dirty" /\ Abort(c) /\ UNCHANGED <<manifest, manifest_state, channel>>
        /\ \/ dirty_objects' = dirty_objects
           \/ dirty_objects' = [dirty_objects EXCEPT ![Target(c)] = DirtyRow(c)]
    BY <1>4 DEF MarkDirtyFails
  <2>2. c = w
    BY <2>1, OneConnection DEF DurableInv, RoleOK, ConnectionOK
  <2>3. /\ GenerationsOK(dirty_objects', manifest', manifest_state', channel')
        /\ AgreementOK(dirty_objects', manifest', manifest_state', channel')
    BY <2>1, MarkedOK DEF DurableInv
  <2> QED BY <2>1, <2>2, <2>3, StepDurable DEF Abort
<1>5. CASE FlushClearFails(c)
  <2>1. /\ pc[c] = "flush_clear" /\ Abort(c) /\ UNCHANGED <<manifest, manifest_state, channel>>
        /\ \/ dirty_objects' = dirty_objects
           \/ dirty_objects' = NoRows
    BY <1>5 DEF FlushClearFails
  <2>2. pc[c] \in FlushLabels
    BY <2>1 DEF FlushLabels, FlushingLabels
  <2>3. c = w
    BY <2>2, FlushFacts
  <2>4. /\ GenerationsOK(dirty_objects', manifest', manifest_state', channel')
        /\ AgreementOK(dirty_objects', manifest', manifest_state', channel')
    BY <2>1, ClearedDurable DEF DurableInv
  <2> QED BY <2>1, <2>3, <2>4, StepDurable DEF Abort
<1> QED BY <1>1, <1>2, <1>3, <1>4, <1>5 DEF Fault

-----------------------------------------------------------------------------
(* Restarts *)

\* A new process has no handlers: only the data counts.
LEMMA RestartedDurable ==
  ASSUME NEW w, NEW m, Restarted(m),
         GenerationsOK(dirty_objects', manifest', manifest_state', channel'),
         AgreementOK(dirty_objects', manifest', manifest_state', channel')
  PROVE  DurableInv(w)'
<1>1. \A c \in Clients : pc'[c] = "idle" /\ loc'[c] = NoLocals
  BY DEF Restarted
<1> QED BY <1>1, IdleDurable DEF DurableInv

\* The manifest that the superblock in force names is one to start from.
LEMMA InForceManifest ==
  ASSUME DeviceInv, NEW i, InForce(channel, i), NEW m, m = ManifestOf(channel, i)
  PROVE  /\ m \in Manifest /\ ManifestOK(channel, m) /\ NotBelow(channel, m.generation)
<1>1. channel \in Seq(Message) /\ ChannelOK(channel) /\ i \in Superblocks(channel)
  BY DEF DeviceInv, RemoteOK, InForce
<1>2. Served(channel, channel[i].body.current)
  BY <1>1 DEF ChannelOK, Superblocks, SuperblockOK
<1>3. m.generation = Generation(channel, i)
  BY <1>2 DEF Served, ManifestOf, FetchManifest, Generation
<1>4. /\ channel[i].body.current.message_id \in DOMAIN channel
      /\ channel[channel[i].body.current.message_id].kind = "manifest"
  BY <1>2 DEF Served, Exists
<1>5. m \in Manifest /\ ManifestOK(channel, m)
  BY <1>1, <1>4, KindOK DEF ChannelOK, ManifestOf, FetchManifest
<1>6. \A j \in Superblocks(channel) : Generation(channel, j) \in Nat
  BY <1>1, SuperblockTypes
<1> QED BY <1>1, <1>3, <1>5, <1>6 DEF InForce, NotBelow

\* A restart on the local manifest that is not too far behind, or on the one in force.
LEMMA RestartDurable ==
  ASSUME DeviceInv, NEW w, DurableInv(w), ScanReaches,
         (Crash /\ NotBehind) \/ RestartElsewhere
  PROVE  DurableInv(w)'
<1> USE DEF local, remote
<1>1. CASE Crash /\ NotBehind
  <2>1. /\ Restarted(manifest_state) /\ manifest' = manifest_state
        /\ UNCHANGED <<dirty_objects, manifest_state, channel>>
    BY <1>1 DEF Crash, Restarted
  <2>2. NotBelow(channel, manifest_state.generation + 1)
    BY <1>1 DEF NotBehind, NotBelow
  <2>3. GenerationsOK(dirty_objects, manifest_state, manifest_state, channel)
    BY <2>2 DEF DurableInv, GenerationsOK
  <2>4. AgreementOK(dirty_objects, manifest_state, manifest_state, channel)
    BY DEF DurableInv, AgreementOK
  <2> QED BY <2>1, <2>3, <2>4, RestartedDurable
<1>2. CASE RestartElsewhere
  <2>1. /\ RecoverSuperblock(channel, pinned, scan_limit) # 0
        /\ Restarted(Recovered) /\ manifest' = Recovered /\ manifest_state' = Recovered
        /\ dirty_objects' = NoRows /\ channel' = channel
    BY <1>2 DEF RestartElsewhere, RestartsElsewhere, Restarted
  <2>2. Superblocks(channel) # {}
    BY <2>1, RecoverNothing
  <2>3. PICK i \in Superblocks(channel) : InForce(channel, i)
    BY <2>2 DEF DurableInv, AgreementOK
  <2>4. Recovered = ManifestOf(channel, i)
    BY <2>3, RecoverFinds
  <2> DEFINE m == Recovered
  <2>5. m \in Manifest /\ ManifestOK(channel, m) /\ NotBelow(channel, m.generation)
    BY <2>3, <2>4, InForceManifest
  <2> HIDE DEF m
  <2>6. m.generation \in Nat /\ channel \in Seq(Message)
    BY <2>5 DEF Manifest, DeviceInv, RemoteOK
  <2>7. \A j \in Superblocks(channel) : Generation(channel, j) \in Nat
    BY <2>6, SuperblockTypes
  <2>8. NotBelow(channel, m.generation + 1)
    BY <2>5, <2>6, <2>7 DEF NotBelow
  <2>9. GenerationsOK(NoRows, m, m, channel)
    BY <2>5, <2>8 DEF GenerationsOK
  <2>10. AgreementOK(NoRows, m, m, channel)
    BY <2>3, <2>4, <2>5 DEF AgreementOK, ManifestOK, m
  <2> QED BY <2>1, <2>9, <2>10, RestartedDurable DEF m
<1> QED BY <1>1, <1>2

-----------------------------------------------------------------------------
(* The invariant *)

\* A formatted device, with or without a channel, is durable: it is all zero.
LEMMA InitDurable ==
  ASSUME NEW w, Init
  PROVE  DurableInv(w)
<1>1. \A c \in Clients : pc[c] = "idle" /\ loc[c] = NoLocals
  BY DEF Init
<1>2. /\ dirty_objects = NoRows /\ manifest = EmptyManifest /\ manifest_state = EmptyManifest
  BY DEF Init
<1>3. /\ EmptyManifest.generation = 0 /\ EmptyManifest.garbage = {}
      /\ \A o : EntryPayload(EmptyManifest, o) = ZeroObject
  BY DEF EmptyManifest, EntryPayload
<1>4. DirtyIds(NoRows) = {}
  BY DEF DirtyIds, NoRows
<1>5. CASE channel = <<>>
  <2>1. Superblocks(channel) = {}
    BY <1>5 DEF Superblocks
  <2>2. GenerationsOK(NoRows, EmptyManifest, EmptyManifest, channel)
    BY <2>1 DEF GenerationsOK, NotBelow
  <2>3. AgreementOK(NoRows, EmptyManifest, EmptyManifest, channel)
    BY <1>3, <2>1 DEF AgreementOK
  <2> QED BY <1>1, <1>2, <2>2, <2>3, IdleDurable DEF DurableInv
<1>6. CASE channel = FormattedChannel
  <2> DEFINE ref == [message_id |-> 1, generation |-> 0]
             sb == SuperblockMessage([device_size |-> formatted_size, current |-> ref,
                                      previous |-> None])
             mm == ManifestMessage(EmptyManifest)
  <2>1. channel = <<mm, sb, sb>>
    BY <1>6 DEF FormattedChannel
  <2>2. sb.kind = "superblock" /\ sb.body.current = ref /\ mm.kind = "manifest" /\ mm.body = EmptyManifest
    BY DEF SuperblockMessage, ManifestMessage
  <2>3. ref.message_id = 1 /\ ref.generation = 0
    OBVIOUS
  <2> HIDE DEF ref, sb, mm
  <2>4. /\ DOMAIN channel = 1 .. 3 /\ channel[1] = mm /\ channel[2] = sb /\ channel[3] = sb
    BY <2>1
  <2>5. Superblocks(channel) = {2, 3}
    BY <2>2, <2>4 DEF Superblocks
  <2>6. \A i \in {2, 3} : Generation(channel, i) = 0
    BY <2>2, <2>3, <2>4 DEF Generation
  <2>7. InForce(channel, 3)
    BY <2>5, <2>6 DEF InForce
  <2>8. ManifestOf(channel, 3) = EmptyManifest
    BY <2>2, <2>3, <2>4 DEF ManifestOf, FetchManifest
  <2>9. GenerationsOK(NoRows, EmptyManifest, EmptyManifest, channel)
    BY <1>3, <2>5, <2>6 DEF GenerationsOK, NotBelow
  <2>10. AgreementOK(NoRows, EmptyManifest, EmptyManifest, channel)
    BY <1>3, <2>5, <2>7, <2>8 DEF AgreementOK
  <2> QED BY <1>1, <1>2, <2>9, <2>10, IdleDurable DEF DurableInv
<1> QED BY <1>5, <1>6 DEF Init

\* Every step that the premises allow keeps the invariant.
LEMMA NextDurable ==
  ASSUME NEW w, OneWriter(w), DeviceInv, DurableInv(w), ScanReaches,
         [Next]_vars, [RestartsWell]_vars
  PROVE  DurableInv(w)'
<1>1. CASE UNCHANGED vars
  BY <1>1 DEF vars, local, remote, DurableInv
<1>2. ASSUME NEW c \in Clients, Begin(c) \/ Step(c) \/ Fault(c)
      PROVE  DurableInv(w)'
  BY <1>2, BeginDurable, ReadDurable, WriteDurable, PrefetchDurable, FlushDurable,
     FaultDurable DEF Step
<1>3. CASE RestartsWell /\ (Crash \/ RestartElsewhere \/ RestartOnPrevious)
  BY <1>3, RestartDurable DEF RestartsWell
<1>4. CASE Wait
  BY <1>1, <1>4 DEF Wait
<1> QED BY <1>1, <1>2, <1>3, <1>4 DEF Next

\* Under the premises, the generations, the manifests and the requests under way stay
\* in the relation that makes a flush durable.
THEOREM DurableInvariance ==
  ASSUME NEW w, OneWriter(w)
  PROVE  Spec /\ []ScanReaches /\ RestartsCountOn => []DurableInv(w)
<1>1. Init => DurableInv(w)
  BY InitDurable
<1>2. DeviceInv /\ DurableInv(w) /\ ScanReaches /\ [Next]_vars /\ [RestartsWell]_vars
        => DurableInv(w)'
  BY NextDurable
<1> QED BY <1>1, <1>2, Invariance, PTL DEF Spec, RestartsCountOn

-----------------------------------------------------------------------------
(* Durability *)

\* Every unit lies in an object, at an offset in it.
LEMMA UnitsOK ==
  ASSUME NEW u \in Units
  PROVE  /\ u \in Nat /\ ObjectOf(u) \in Objects /\ OffsetIn(u) \in 0 .. object_size - 1
         /\ ZeroObject[OffsetIn(u)] = 0
<1>1. u \in Nat /\ u < device_size
  BY SizeAssumption DEF Units
<1> QED BY <1>1, LocateInRange, DivMod DEF ZeroObject

\* What a read returns, in terms of the rows and the manifest.
LEMMA ContentIs ==
  Content = [u \in Units |-> PayloadOf(dirty_objects, manifest, ObjectOf(u))[OffsetIn(u)]]
BY DEF Content, ObjectPayload, PayloadOf

\* What a fresh machine recovers: the manifest in force, or nothing.
RecoversInForce ==
  /\ \A i : InForce(channel, i) =>
       RecoveredContent =
         [u \in Units |-> EntryPayload(ManifestOf(channel, i), ObjectOf(u))[OffsetIn(u)]]
  /\ Superblocks(channel) = {} => RecoveredContent = [u \in Units |-> 0]

\* recover_remote_manifest does so while its scan reaches far enough.
LEMMA RecoveredIs == DeviceInv /\ ScanReaches => RecoversInForce
<1> SUFFICES ASSUME DeviceInv, ScanReaches PROVE RecoversInForce
  OBVIOUS
<1>1. ASSUME NEW i, InForce(channel, i)
      PROVE  RecoveredContent =
               [u \in Units |-> EntryPayload(ManifestOf(channel, i), ObjectOf(u))[OffsetIn(u)]]
  BY <1>1, RecoverFinds DEF RecoveredContent
<1>2. Superblocks(channel) = {} => RecoveredContent = [u \in Units |-> 0]
  BY RecoverNothing DEF RecoveredContent
<1> QED BY <1>1, <1>2 DEF RecoversInForce

\* With nothing dirty, the channel holds what the device holds.
LEMMA CleanIs ==
  ASSUME NEW w
  PROVE  DeviceInv /\ DurableInv(w) /\ ScanReaches /\ dirty_objects = NoRows
           => Content = RecoveredContent
<1> SUFFICES ASSUME DeviceInv, DurableInv(w), ScanReaches, dirty_objects = NoRows
             PROVE  Content = RecoveredContent
  OBVIOUS
<1>1. DirtyIds(dirty_objects) = {} /\ \A o \in Objects : dirty_objects[o] = None
  BY DEF DirtyIds, NoRows
<1>2. Content = [u \in Units |-> EntryPayload(manifest, ObjectOf(u))[OffsetIn(u)]]
  BY <1>1, ContentIs, UnitsOK DEF PayloadOf
<1>3. AgreementOK(dirty_objects, manifest, manifest_state, channel)
  BY DEF DurableInv
<1>4. CASE Superblocks(channel) = {} /\ \A o \in Objects : EntryPayload(manifest_state, o) = ZeroObject
  <2>1. \A u \in Units : EntryPayload(manifest, ObjectOf(u))[OffsetIn(u)] = 0
    BY <1>1, <1>3, <1>4, UnitsOK DEF AgreementOK
  <2> QED BY <1>2, <1>4, <2>1, RecoveredIs DEF RecoversInForce
<1>5. CASE \E i \in Superblocks(channel) :
             /\ InForce(channel, i)
             /\ \A o \in Objects : EntryPayload(ManifestOf(channel, i), o) = EntryPayload(manifest_state, o)
  <2>1. PICK i \in Superblocks(channel) :
             /\ InForce(channel, i)
             /\ \A o \in Objects : EntryPayload(ManifestOf(channel, i), o) = EntryPayload(manifest_state, o)
    BY <1>5
  <2>2. \A u \in Units : EntryPayload(manifest, ObjectOf(u))
                           = EntryPayload(ManifestOf(channel, i), ObjectOf(u))
    BY <1>1, <1>3, <2>1, UnitsOK DEF AgreementOK
  <2> QED BY <1>2, <2>1, <2>2, RecoveredIs DEF RecoversInForce
<1> QED BY <1>1, <1>3, <1>4, <1>5 DEF AgreementOK

\* Durability: once the store lists nothing as dirty, losing the machine loses nothing,
\* whatever sends, uploads and store operations failed before and wherever the process
\* died, as long as one connection writes, recovery still reaches the superblock in
\* force, and no process restarts two generations behind it.
THEOREM CleanIsDurable ==
  ASSUME NEW w, OneWriter(w)
  PROVE  Spec /\ []ScanReaches /\ RestartsCountOn => []CleanMeansDurable
<1>1. DeviceInv /\ DurableInv(w) /\ ScanReaches => CleanMeansDurable
  BY CleanIs DEF CleanMeansDurable
<1> QED BY <1>1, Invariance, DurableInvariance, PTL

\* `tgdrive gc` deletes the garbage of the local manifest and never a message that a
\* recovery would read, under the same premises.
THEOREM GcIsSafe ==
  ASSUME NEW w, OneWriter(w)
  PROVE  Spec /\ []ScanReaches /\ RestartsCountOn => []GcSafe
<1>1. DeviceInv /\ DurableInv(w) /\ ScanReaches => GcSafe
  <2> SUFFICES ASSUME DeviceInv, DurableInv(w), ScanReaches,
                      RecoverSuperblock(channel, pinned, scan_limit) # 0
               PROVE  manifest_state.garbage \cap Live(Recovered) = {}
    BY DEF GcSafe
  <2>1. Superblocks(channel) # {}
    BY RecoverNothing
  <2>2. PICK i \in Superblocks(channel) :
          InForce(channel, i) /\ manifest_state.garbage \cap Live(ManifestOf(channel, i)) = {}
    BY <2>1 DEF DurableInv, AgreementOK
  <2> QED BY <2>2, RecoverFinds
<1> QED BY <1>1, Invariance, DurableInvariance, PTL

-----------------------------------------------------------------------------
(* Refinement *)

\* A step after which every object reads as before leaves the disk alone.
LEMMA SameContent ==
  ASSUME \A o \in Objects : PayloadOf(dirty_objects', manifest', o)
                              = PayloadOf(dirty_objects, manifest, o)
  PROVE  Content' = Content
<1>1. /\ Content = [u \in Units |-> PayloadOf(dirty_objects, manifest, ObjectOf(u))[OffsetIn(u)]]
      /\ Content' = [u \in Units |-> PayloadOf(dirty_objects', manifest', ObjectOf(u))[OffsetIn(u)]]
  BY DEF Content, ObjectPayload, PayloadOf
<1> QED BY <1>1, UnitsOK

\* A step that sends nothing, or an object or a manifest, leaves what is durable alone.
LEMMA SameRecovered ==
  ASSUME DeviceInv, DeviceInv', ScanReaches, ScanReaches', NEW w, DurableInv(w),
         \/ channel' = channel
         \/ \E msg \in Message : msg.kind # "superblock" /\ channel' = Append(channel, msg)
  PROVE  RecoveredContent' = RecoveredContent
<1>1. channel \in Seq(Message) /\ ChannelOK(channel)
  BY DEF DeviceInv, RemoteOK
<1>2. /\ Superblocks(channel') = Superblocks(channel)
      /\ \A i : InForce(channel', i) <=> InForce(channel, i)
      /\ \A i \in Superblocks(channel) : ManifestOf(channel', i) = ManifestOf(channel, i)
  BY <1>1, SendOther
<1>3. RecoversInForce
  BY RecoveredIs
<1>4. RecoversInForce'
  BY RecoveredIs, PTL
<1>5. Superblocks(channel) = {} \/ \E i \in Superblocks(channel) : InForce(channel, i)
  BY DEF DurableInv, AgreementOK
<1> QED BY <1>2, <1>3, <1>4, <1>5 DEF RecoversInForce

\* mark_dirty writes one pass of the request to the disk: the units the pass covers get
\* the bytes the request has for them, the rest of the object keeps its own.
LEMMA MarkRefines ==
  ASSUME DeviceInv, NEW w, DurableInv(w), NEW c \in Clients, pc[c] = "mark_dirty",
         dirty_objects' = [dirty_objects EXCEPT ![Target(c)] = DirtyRow(c)],
         manifest' = manifest, RecoveredContent' = RecoveredContent
  PROVE  Disk!Write
<1> DEFINE l == loc[c]
           o == Target(c)
           x == l.cursor
           n == Take(l.cursor, l.remaining)
           old(u) == PayloadOf(dirty_objects, manifest, ObjectOf(u))[OffsetIn(u)]
           new(u) == PayloadOf(dirty_objects', manifest', ObjectOf(u))[OffsetIn(u)]
<1>1. /\ l \in Locals /\ l.op = "write" /\ l.encoded \in Encoded /\ l.generation \in Nat
      /\ x \in Nat /\ l.remaining \in Nat /\ l.remaining > 0
      /\ l.remaining <= Len(l.bytes)
  BY OneConnection DEF ConnectionOK, Locals
<1>2. /\ OfRequest(l) /\ l.encoded.payload = Overlay(l, l.object)
      /\ \/ FullObject(x, l.remaining)
         \/ l.object = PayloadOf(dirty_objects, manifest, o)
  BY <1>1 DEF DurableInv, WriterOK, WriteLabels, EncodedLabels, Target
<1>3. PICK r \in WriteRequests : l.bytes = r.bytes /\ x = r.offset + Len(r.bytes) - l.remaining
  BY <1>2 DEF OfRequest
<1>4. r.offset \in Nat /\ Len(r.bytes) \in Nat
  BY DeviceAssumption
<1>5. n \in 1 .. l.remaining /\ OffsetIn(x) + n <= object_size
  <2>1. n \in 0 .. l.remaining /\ n > 0 /\ OffsetIn(x) + n <= object_size
    BY <1>1, TakeBounds
  <2> HIDE DEF n
  <2> QED BY <1>1, <2>1
<1>6. o \in Objects /\ dirty_objects \in Rows /\ o = ObjectOf(x)
  BY TargetOK DEF DeviceInv, VariablesOK, Target
<1>7. /\ dirty_objects'[o] = DirtyRow(c) /\ DirtyRow(c) # None
      /\ DirtyRow(c).sha256 = l.encoded
      /\ \A p \in Objects : p # o => dirty_objects'[p] = dirty_objects[p]
  BY <1>1, <1>6, DeviceAssumption DEF Rows, DirtyRow, Row
<1>8. /\ PayloadOf(dirty_objects', manifest', o) = Overlay(l, l.object)
      /\ \A p \in Objects : p # o => PayloadOf(dirty_objects', manifest', p)
                                       = PayloadOf(dirty_objects, manifest, p)
  BY <1>2, <1>6, <1>7 DEF PayloadOf
<1> DEFINE from == Len(r.bytes) - l.remaining
           to == from + n
<1>9. /\ from \in 0 .. Len(r.bytes) /\ to \in 0 .. Len(r.bytes) /\ from < to
      /\ r.offset + from = x /\ r.offset + to = x + n
  BY <1>1, <1>3, <1>4, <1>5
<1>10. ASSUME NEW u \in Units
       PROVE  new(u) = IF r.offset + from <= u /\ u < r.offset + to
                       THEN r.bytes[u - r.offset + 1] ELSE old(u)
  <2> DEFINE i == OffsetIn(u)  at == OffsetIn(x)
  <2>1. u \in Nat /\ ObjectOf(u) \in Objects /\ i \in 0 .. object_size - 1
    BY UnitsOK
  <2>2. at \in 0 .. object_size - 1
    BY <1>1, DivMod
  <2>3. /\ ObjectOf(u) = o => u - x = i - at
        /\ x <= u /\ u < x + n <=> ObjectOf(u) = o /\ at <= i /\ i < at + n
    BY <1>1, <1>5, <1>6, <2>1, UnitsOfPass
  <2>4. CASE ObjectOf(u) # o
    BY <1>8, <1>9, <2>1, <2>3, <2>4
  <2>5. CASE ObjectOf(u) = o
    <3>1. new(u) = IF at <= i /\ i < at + n
                   THEN l.bytes[Len(l.bytes) - l.remaining + (i - at) + 1] ELSE l.object[i]
      BY <1>8, <2>1, <2>5 DEF Overlay
    <3>2. CASE x <= u /\ u < x + n
      <4>1. Len(l.bytes) - l.remaining + (i - at) + 1 = u - r.offset + 1
        <5>1. i - at = u - x /\ Len(l.bytes) = Len(r.bytes)
          BY <1>3, <2>3, <2>5
        <5>2. x = r.offset + Len(r.bytes) - l.remaining
          BY <1>3
        <5>3. l.remaining \in Int /\ x \in Int /\ u \in Int /\ r.offset \in Int /\ Len(r.bytes) \in Int
          BY <1>1, <1>4, <2>1
        <5>4. ASSUME NEW len \in Int, NEW left \in Int, NEW first \in Int, NEW next \in Int,
                     NEW unit \in Int, NEW step, next = first + len - left, step = unit - next
              PROVE  len - left + step + 1 = unit - first + 1
          BY <5>4
        <5> HIDE DEF i, at, x, l
        <5>5. Len(r.bytes) - l.remaining + (i - at) + 1 = u - r.offset + 1
          BY <5>1, <5>2, <5>3, <5>4
        <5> QED BY <5>1, <5>5
      <4>2. at <= i /\ i < at + n
        BY <2>3, <3>2
      <4> QED BY <1>3, <1>9, <3>1, <3>2, <4>1, <4>2
    <3>3. CASE ~(x <= u /\ u < x + n)
      <4>1. ~(at <= i /\ i < at + n)
        BY <2>3, <2>5, <3>3
      <4>2. ~FullObject(x, l.remaining)
        <5>1. FullObject(x, l.remaining) => at = 0 /\ n = object_size
          BY DEF FullObject
        <5> HIDE DEF i, at, n
        <5> QED BY <2>1, <2>2, <4>1, <5>1, SizeAssumption
      <4>3. l.object[i] = old(u)
        BY <1>2, <2>5, <4>2
      <4> QED BY <1>9, <3>1, <3>3, <4>1, <4>3
    <3> QED BY <3>2, <3>3
  <2> QED BY <2>4, <2>5
<1>11. Content = [u \in Units |-> old(u)] /\ Content' = [u \in Units |-> new(u)]
  BY DEF Content, ObjectPayload, PayloadOf
<1> HIDE DEF old, new, from, to
<1>12. Content' = [u \in Units |-> IF r.offset + from <= u /\ u < r.offset + to
                                   THEN r.bytes[u - r.offset + 1] ELSE Content[u]]
  BY <1>10, <1>11
<1>13. Disk!WritePart(r, from, to)
  BY <1>12 DEF Disk!WritePart
<1> QED BY <1>9, <1>13 DEF Disk!Write

\* The superblock of a flush, once it has arrived, makes the whole disk durable.
LEMMA PublishRefines ==
  ASSUME DeviceInv, DeviceInv', ScanReaches', NEW w, DurableInv(w), NEW c \in Clients,
         pc[c] \in {"flush_superblock", "flush_backup"},
         channel' = Append(channel, SuperblockMessage(loc[c].superblock)),
         UNCHANGED <<dirty_objects, manifest>>
  PROVE  Disk!Sync
<1>1. PICK i \in Superblocks(channel') : InForce(channel', i) /\ ManifestOf(channel', i) = manifest
  BY PublishDurable
<1>2. RecoversInForce'
  BY RecoveredIs, PTL
<1>3. RecoveredContent' = [u \in Units |-> EntryPayload(manifest, ObjectOf(u))[OffsetIn(u)]]
  BY <1>1, <1>2 DEF RecoversInForce
<1>4. \A o \in DirtyIds(dirty_objects) :
        EntryPayload(manifest, o) = dirty_objects[o].sha256.payload
  BY DEF DurableInv, FlusherOK, FlushingLabels, CommitLabels
<1>5. \A o \in Objects : PayloadOf(dirty_objects, manifest, o) = EntryPayload(manifest, o)
  BY <1>4 DEF PayloadOf, DirtyIds
<1>6. Content = [u \in Units |-> EntryPayload(manifest, ObjectOf(u))[OffsetIn(u)]]
  BY <1>5, ContentIs, UnitsOK
<1>7. Content' = Content
  BY SameContent
<1> QED BY <1>3, <1>6, <1>7 DEF Disk!Sync

\* The machine is lost: the device falls back to what is durable.
LEMMA LoseRefines ==
  ASSUME DeviceInv, DeviceInv', ScanReaches, ScanReaches', NEW w, DurableInv(w),
         RestartElsewhere
  PROVE  Disk!LoseLocal
<1>1. /\ RecoverSuperblock(channel, pinned, scan_limit) # 0
      /\ channel' = channel /\ dirty_objects' = NoRows /\ manifest' = Recovered
  BY DEF RestartElsewhere, RestartsElsewhere, Restarted, remote
<1>2. RecoveredContent' = RecoveredContent
  BY <1>1, SameRecovered
<1>3. RecoveredContent = [u \in Units |-> EntryPayload(Recovered, ObjectOf(u))[OffsetIn(u)]]
  BY <1>1 DEF RecoveredContent
<1>4. Content' = [u \in Units |-> PayloadOf(NoRows, Recovered, ObjectOf(u))[OffsetIn(u)]]
  BY <1>1 DEF Content, ObjectPayload, PayloadOf
<1>5. \A o \in Objects : PayloadOf(NoRows, Recovered, o) = EntryPayload(Recovered, o)
  BY DEF PayloadOf, NoRows
<1>6. Content' = RecoveredContent
  BY <1>3, <1>4, <1>5, UnitsOK
<1> QED BY <1>2, <1>6 DEF Disk!LoseLocal

\* The process dies: an object that is not dirty reads the same from the local manifest.
LEMMA CrashRefines ==
  ASSUME DeviceInv, NEW w, DurableInv(w), Crash
  PROVE  Content' = Content
<1>1. dirty_objects' = dirty_objects /\ manifest' = manifest_state
  BY DEF Crash, Restarted, local
<1>2. \A o \in Objects : PayloadOf(dirty_objects, manifest_state, o)
                           = PayloadOf(dirty_objects, manifest, o)
  BY DEF DurableInv, AgreementOK, PayloadOf, DirtyIds
<1> QED BY <1>1, <1>2, SameContent

\* A flush changes the manifest, and clears the rows, behind the back of a reader.
LEMMA FlushRefines ==
  ASSUME DeviceInv, NEW w, DurableInv(w), NEW c \in Clients,
         \/ FlushLock(c) \/ FlushObject(c) \/ FlushClear(c)
         \/ FlushClearFails(c) /\ dirty_objects' = NoRows
  PROVE  Content' = Content
<1> USE DEF local, remote
<1>1. CASE FlushLock(c)
  <2>1. dirty_objects' = dirty_objects /\ manifest'.objects = manifest.objects
    BY <1>1 DEF FlushLock, DeviceInv, VariablesOK, Manifest
  <2>2. \A o : EntryPayload(manifest', o) = EntryPayload(manifest, o)
    BY <2>1, SameEntries
  <2>3. \A o \in Objects : PayloadOf(dirty_objects', manifest', o)
                             = PayloadOf(dirty_objects, manifest, o)
    BY <2>1, <2>2 DEF PayloadOf
  <2> QED BY <2>3, SameContent
<1>2. CASE FlushObject(c)
  <2> DEFINE o == FlushTarget(c)
             bytes == loc[c].snapshot[o].sha256
  <2>1. /\ pc[c] = "flush_object" /\ o \in ManifestObjects
        /\ manifest' = WithUploaded(manifest, o, bytes, Len(channel) + 1)
        /\ dirty_objects' = dirty_objects
    BY <1>2 DEF FlushObject
  <2>2. o \in Objects /\ loc[c].snapshot[o] # None
    BY <2>1, FlushTargetOK DEF DirtyIds
  <2>3. dirty_objects[o] # None
    BY <2>1, <2>2 DEF DurableInv, FlusherOK
  <2>4. manifest \in Manifest
    BY DEF DeviceInv, VariablesOK
  <2> HIDE DEF o, bytes
  <2>5. \A p : p # o => EntryPayload(manifest', p) = EntryPayload(manifest, p)
    BY <2>1, <2>4, UploadedPayload
  <2>6. \A p \in Objects : PayloadOf(dirty_objects', manifest', p)
                             = PayloadOf(dirty_objects, manifest, p)
    BY <2>1, <2>3, <2>5 DEF PayloadOf
  <2> QED BY <2>6, SameContent
<1>3. CASE FlushClear(c) \/ (FlushClearFails(c) /\ dirty_objects' = NoRows)
  <2>1. pc[c] = "flush_clear" /\ dirty_objects' = NoRows /\ manifest' = manifest
    BY <1>3 DEF FlushClear, FlushClearFails
  <2>2. \A o \in DirtyIds(dirty_objects) :
          EntryPayload(manifest, o) = dirty_objects[o].sha256.payload
    BY <2>1, ClearedDurable
  <2>3. \A p \in Objects : PayloadOf(NoRows, manifest, p) = PayloadOf(dirty_objects, manifest, p)
    BY <2>2 DEF PayloadOf, NoRows, DirtyIds
  <2> QED BY <2>1, <2>3, SameContent
<1> QED BY <1>1, <1>2, <1>3

\* A step that leaves the rows and the manifest alone and publishes no superblock.
LEMMA QuietRefines ==
  ASSUME DeviceInv, DeviceInv', ScanReaches, ScanReaches', NEW w, DurableInv(w),
         UNCHANGED <<dirty_objects, manifest>>,
         \/ channel' = channel
         \/ \E msg \in Message : msg.kind # "superblock" /\ channel' = Append(channel, msg)
  PROVE  UNCHANGED <<Content, RecoveredContent>>
<1>1. Content' = Content
  BY SameContent
<1>2. RecoveredContent' = RecoveredContent
  BY SameRecovered
<1> QED BY <1>1, <1>2

\* Requests, reads, prefetches and the first steps of a write change none of the data.
LEMMA QuietActions ==
  ASSUME NEW c \in Clients,
         \/ Begin(c) \/ ReadStep(c) \/ PrefetchStep(c)
         \/ CheckLimit(c) \/ LimitReached(c) \/ NextGeneration(c)
         \/ WriteCacheOpen(c) \/ WriteCacheBytes(c)
         \/ FlushList(c) \/ FlushRejected(c) \/ FlushPin(c) \/ FlushReplace(c)
         \/ PinFails(c) \/ FetchFails(c) \/ QueryFails(c)
         \/ WriteCacheFails(c) \/ PrefetchQueryFails(c) \/ PrefetchFillFails(c)
  PROVE  UNCHANGED <<dirty_objects, manifest, channel>>
<1> USE DEF local, remote
<1>1. CASE Begin(c)
  BY <1>1 DEF Begin, BeginRead, BeginWrite, BeginFlush
<1>2. CASE ReadStep(c)
  BY <1>2 DEF ReadStep, ReadDirty, ReadDirtyRejected, ReadNotDirty, ReadEntry,
     ReadOutOfRange, ReadCache, ReadCacheRejected, FetchObject, FillOpen, FillBytes, Reply
<1>3. CASE PrefetchStep(c)
  BY <1>3 DEF PrefetchStep, PrefetchDirtyIds, PrefetchLock, PrefetchSkip, PrefetchWant,
     PrefetchRejected, PrefetchScanned, PrefetchFetch, PrefetchFillOpen, PrefetchFillBytes
<1>4. CASE \/ CheckLimit(c) \/ LimitReached(c) \/ NextGeneration(c)
           \/ WriteCacheOpen(c) \/ WriteCacheBytes(c)
  BY <1>4 DEF CheckLimit, LimitReached, NextGeneration, WriteCacheOpen, WriteCacheBytes
<1>5. CASE FlushList(c) \/ FlushRejected(c) \/ FlushPin(c) \/ FlushReplace(c)
  BY <1>5 DEF FlushList, FlushRejected, FlushPin, FlushReplace
<1>6. CASE \/ PinFails(c) \/ FetchFails(c) \/ QueryFails(c)
           \/ WriteCacheFails(c) \/ PrefetchQueryFails(c) \/ PrefetchFillFails(c)
  BY <1>6 DEF PinFails, FetchFails, QueryFails, WriteCacheFails, PrefetchQueryFails,
     PrefetchFillFails
<1> QED BY <1>1, <1>2, <1>3, <1>4, <1>5, <1>6

\* A cache file that flush sends is a message, and not a superblock.
LEMMA SentObject ==
  ASSUME DeviceInv, NEW c \in Clients, pc[c] = "flush_object",
         channel' = Append(channel, ObjectMessage(loc[c].snapshot[FlushTarget(c)].sha256))
  PROVE  \E msg \in Message : msg.kind # "superblock" /\ channel' = Append(channel, msg)
<1> DEFINE msg == ObjectMessage(loc[c].snapshot[FlushTarget(c)].sha256)
<1>1. loc[c].snapshot[FlushTarget(c)].sha256 \in Encoded
  BY FlushTargetOK DEF Row
<1>2. msg \in Message /\ msg.kind # "superblock"
  BY <1>1 DEF ObjectMessage, Message
<1>3. channel' = Append(channel, msg)
  OBVIOUS
<1> HIDE DEF msg
<1> QED BY <1>2, <1>3

\* So is the manifest.
LEMMA SentManifest ==
  ASSUME DeviceInv, channel' = Append(channel, ManifestMessage(manifest))
  PROVE  \E msg \in Message : msg.kind # "superblock" /\ channel' = Append(channel, msg)
<1> DEFINE msg == ManifestMessage(manifest)
<1>1. manifest \in Manifest
  BY DEF DeviceInv, VariablesOK
<1>2. msg \in Message /\ msg.kind # "superblock"
  BY <1>1 DEF ManifestMessage, Message
<1>3. channel' = Append(channel, msg)
  OBVIOUS
<1> HIDE DEF msg
<1> QED BY <1>2, <1>3

\* Every step of a connection writes a part of a request, makes the disk durable, or
\* is not seen.
LEMMA StepRefines ==
  ASSUME DeviceInv, DeviceInv', ScanReaches, ScanReaches', NEW w, DurableInv(w),
         NEW c \in Clients, Begin(c) \/ Step(c) \/ Fault(c)
  PROVE  [Disk!Next]_<<Content, RecoveredContent>>
<1> USE DEF local, remote
<1>1. CASE UNCHANGED <<dirty_objects, manifest, channel>>
  BY <1>1, QuietRefines
<1>2. ASSUME pc[c] = "mark_dirty", manifest' = manifest, channel' = channel,
             dirty_objects' = [dirty_objects EXCEPT ![Target(c)] = DirtyRow(c)]
      PROVE  Disk!Next
  <2>1. RecoveredContent' = RecoveredContent
    BY <1>2, SameRecovered
  <2> QED BY <1>2, <2>1, MarkRefines DEF Disk!Next
<1>3. CASE MarkDirty(c) \/ MarkDirtyFails(c)
  <2>1. /\ pc[c] = "mark_dirty" /\ manifest' = manifest /\ channel' = channel
        /\ dirty_objects' \in {dirty_objects, [dirty_objects EXCEPT ![Target(c)] = DirtyRow(c)]}
    BY <1>3 DEF MarkDirty, MarkDirtyFails
  <2> QED BY <1>1, <1>2, <2>1
<1>4. ASSUME channel' = channel, Content' = Content
      PROVE  UNCHANGED <<Content, RecoveredContent>>
  BY <1>4, SameRecovered
<1>5. CASE FlushLock(c) \/ FlushClear(c) \/ FlushClearFails(c)
  <2>1. channel' = channel
    BY <1>5 DEF FlushLock, FlushClear, FlushClearFails
  <2>2. CASE dirty_objects' = NoRows \/ FlushLock(c) \/ FlushClear(c)
    <3>1. Content' = Content
      BY <1>5, <2>2, FlushRefines
    <3> QED BY <1>4, <2>1, <3>1
  <2>3. CASE FlushClearFails(c) /\ dirty_objects' = dirty_objects
    BY <1>1, <2>3 DEF FlushClearFails
  <2> QED BY <1>5, <2>2, <2>3 DEF FlushClearFails
<1>6. CASE FlushObject(c)
  <2>1. /\ pc[c] = "flush_object"
        /\ channel' = Append(channel, ObjectMessage(loc[c].snapshot[FlushTarget(c)].sha256))
    BY <1>6 DEF FlushObject
  <2>2. \E msg \in Message : msg.kind # "superblock" /\ channel' = Append(channel, msg)
    BY <2>1, SentObject
  <2>3. RecoveredContent' = RecoveredContent
    BY <2>2, SameRecovered
  <2>4. Content' = Content
    BY <1>6, FlushRefines
  <2> QED BY <2>3, <2>4
<1>7. CASE FlushMissingObject(c) \/ FlushManifest(c)
  <2>1. /\ UNCHANGED <<dirty_objects, manifest>>
        /\ \/ /\ pc[c] = "flush_object"
              /\ channel' = Append(channel, ObjectMessage(loc[c].snapshot[FlushTarget(c)].sha256))
           \/ /\ pc[c] = "flush_manifest"
              /\ channel' = Append(channel, ManifestMessage(manifest))
    BY <1>7 DEF FlushMissingObject, FlushManifest
  <2>2. \E msg \in Message : msg.kind # "superblock" /\ channel' = Append(channel, msg)
    BY <2>1, SentObject, SentManifest
  <2> QED BY <2>1, <2>2, QuietRefines
<1>8. ASSUME pc[c] \in {"flush_superblock", "flush_backup"},
             channel' = Append(channel, SuperblockMessage(loc[c].superblock)),
             UNCHANGED <<dirty_objects, manifest>>
      PROVE  Disk!Next
  BY <1>8, PublishRefines DEF Disk!Next
<1>9. CASE FlushSuperblock(c) \/ FlushBackup(c)
  BY <1>8, <1>9 DEF FlushSuperblock, FlushBackup
<1>10. CASE SendFails(c)
  <2>1. /\ UNCHANGED <<dirty_objects, manifest>>
        /\ \/ channel' = channel
           \/ /\ pc[c] = "flush_object"
              /\ channel' = Append(channel, ObjectMessage(loc[c].snapshot[FlushTarget(c)].sha256))
           \/ /\ pc[c] = "flush_manifest"
              /\ channel' = Append(channel, ManifestMessage(manifest))
           \/ /\ pc[c] \in {"flush_superblock", "flush_backup"}
              /\ channel' = Append(channel, SuperblockMessage(loc[c].superblock))
    BY <1>10 DEF SendFails
  <2>2. CASE channel' = channel
    BY <1>1, <2>1, <2>2
  <2>3. CASE \E msg \in Message : msg.kind # "superblock" /\ channel' = Append(channel, msg)
    BY <2>1, <2>3, QuietRefines
  <2>4. CASE /\ pc[c] \in {"flush_superblock", "flush_backup"}
             /\ channel' = Append(channel, SuperblockMessage(loc[c].superblock))
    BY <1>8, <2>1, <2>4
  <2> QED BY <2>1, <2>2, <2>3, <2>4, SentObject, SentManifest
<1>11. \/ MarkDirty(c) \/ MarkDirtyFails(c) \/ FlushLock(c) \/ FlushClear(c)
       \/ FlushClearFails(c) \/ FlushObject(c) \/ FlushMissingObject(c) \/ FlushManifest(c)
       \/ FlushSuperblock(c) \/ FlushBackup(c) \/ SendFails(c)
       \/ UNCHANGED <<dirty_objects, manifest, channel>>
  BY QuietActions DEF Step, WriteStep, FlushStep, Fault
<1> QED BY <1>1, <1>3, <1>5, <1>6, <1>7, <1>9, <1>10, <1>11

\* A device that was just formatted is a disk of zeroes, here and on the channel.
LEMMA InitRefines ==
  ASSUME NEW w
  PROVE  Init /\ DeviceInv /\ DurableInv(w) /\ ScanReaches => Disk!Init
<1> SUFFICES ASSUME Init, DeviceInv, DurableInv(w), ScanReaches
             PROVE  Disk!Init
  OBVIOUS
<1>1. dirty_objects = NoRows /\ manifest = EmptyManifest
  BY DEF Init
<1>2. \A o \in Objects : PayloadOf(NoRows, EmptyManifest, o) = ZeroObject
  BY DEF PayloadOf, NoRows, EmptyManifest, EntryPayload
<1>3. Content = [u \in Units |-> 0]
  BY <1>1, <1>2, ContentIs, UnitsOK
<1>4. RecoveredContent = Content
  BY <1>1, CleanIs
<1> QED BY <1>3, <1>4 DEF Disk!Init, Disk!Zeroes

\* Every step that the premises allow is a step of the disk, or is not seen.
LEMMA NextRefines ==
  ASSUME NEW w
  PROVE  /\ DeviceInv /\ DeviceInv' /\ ScanReaches /\ ScanReaches' /\ DurableInv(w)
         /\ [Next]_vars /\ [RestartsWell]_vars
         => [Disk!Next]_<<Content, RecoveredContent>>
<1> SUFFICES ASSUME DeviceInv, DeviceInv', ScanReaches, ScanReaches', DurableInv(w),
                    [Next]_vars, [RestartsWell]_vars
             PROVE  [Disk!Next]_<<Content, RecoveredContent>>
  OBVIOUS
<1> USE DEF local, remote
<1>1. CASE UNCHANGED vars
  BY <1>1, QuietRefines DEF vars
<1>2. ASSUME NEW c \in Clients, Begin(c) \/ Step(c) \/ Fault(c)
      PROVE  [Disk!Next]_<<Content, RecoveredContent>>
  BY <1>2, StepRefines
<1>3. CASE Crash
  <2>1. Content' = Content
    BY <1>3, CrashRefines
  <2>2. RecoveredContent' = RecoveredContent
    BY <1>3, SameRecovered DEF Crash
  <2> QED BY <2>1, <2>2
<1>4. CASE RestartElsewhere
  BY <1>4, LoseRefines DEF Disk!Next
<1>5. CASE RestartsWell /\ RestartOnPrevious
  BY <1>5 DEF RestartsWell
<1>6. CASE Wait
  BY <1>1, <1>6 DEF Wait
<1> QED BY <1>1, <1>2, <1>3, <1>4, <1>5, <1>6 DEF Next

\* The device implements a disk with a write-back cache, under the same premises: a
\* pass of write_at writes the request's bytes to its own range and nothing else, the
\* superblock of a flush makes the whole disk durable at once, a lost machine falls
\* back to exactly what was durable, and nothing else that any handler, failure or
\* crash does can be seen.
THEOREM DeviceImplementsDisk ==
  ASSUME NEW w, OneWriter(w)
  PROVE  Spec /\ []ScanReaches /\ RestartsCountOn => ImplementsDisk
<1>1. Init /\ DeviceInv /\ DurableInv(w) /\ ScanReaches => Disk!Init
  BY InitRefines
<1>2. /\ DeviceInv /\ DeviceInv' /\ ScanReaches /\ ScanReaches' /\ DurableInv(w)
      /\ [Next]_vars /\ [RestartsWell]_vars
      => [Disk!Next]_<<Content, RecoveredContent>>
  BY NextRefines
<1> QED BY <1>1, <1>2, Invariance, DurableInvariance, PTL DEF Spec, RestartsCountOn, ImplementsDisk, Disk!Spec

-----------------------------------------------------------------------------
(* Action properties *)

\* Only mark_dirty changes what a request of the process reads.
LEMMA ContentStays ==
  ASSUME DeviceInv, NEW w, DurableInv(w), NEW c \in Clients, Begin(c) \/ Step(c) \/ Fault(c),
         pc[c] # "mark_dirty"
  PROVE  Content' = Content
<1> USE DEF local, remote
<1>1. ASSUME UNCHANGED <<dirty_objects, manifest>> PROVE Content' = Content
  BY <1>1, SameContent
<1>2. CASE FlushMissingObject(c) \/ FlushManifest(c) \/ FlushSuperblock(c) \/ FlushBackup(c)
           \/ SendFails(c)
  BY <1>1, <1>2 DEF FlushMissingObject, FlushManifest, FlushSuperblock, FlushBackup, SendFails
<1>3. CASE FlushClearFails(c)
  BY <1>1, <1>3, FlushRefines DEF FlushClearFails
<1>4. CASE MarkDirty(c) \/ MarkDirtyFails(c)
  BY <1>4 DEF MarkDirty, MarkDirtyFails
<1> QED BY <1>1, <1>2, <1>3, <1>4, QuietActions, FlushRefines DEF Step, WriteStep, FlushStep, Fault

\* When a flush is about to clear the rows, the channel has what they hold.
LEMMA ClearingIs ==
  ASSUME DeviceInv, ScanReaches, NEW w, DurableInv(w), NEW c \in Clients, pc[c] = "flush_clear"
  PROVE  Content = RecoveredContent
<1>1. PICK i \in Superblocks(channel) : InForce(channel, i) /\ ManifestOf(channel, i) = manifest
  BY DEF DurableInv, FlusherOK
<1>2. \A o \in DirtyIds(dirty_objects) : EntryPayload(manifest, o) = dirty_objects[o].sha256.payload
  BY ClearedDurable
<1>3. \A o \in Objects : PayloadOf(dirty_objects, manifest, o) = EntryPayload(manifest, o)
  BY <1>2 DEF PayloadOf, DirtyIds
<1> QED BY <1>1, <1>3, ContentIs, RecoveredIs, UnitsOK DEF RecoversInForce

\* clear_dirty_and_wal takes nothing away, under the premises above: with one connection
\* that writes, every row that a flush deletes is in the manifest by then.  The run
\* FlushRace shows the write that a flush of another connection loses.
THEOREM FlushLosesNothing ==
  ASSUME NEW w, OneWriter(w)
  PROVE  Spec /\ []ScanReaches /\ RestartsCountOn => FlushKeepsContent
<1>1. /\ DeviceInv /\ DeviceInv' /\ ScanReaches /\ ScanReaches' /\ DurableInv(w)
      /\ [Next]_vars /\ [RestartsWell]_vars
      => [\A c \in Clients : pc[c] = "flush_clear" => Content' = Content]_vars
  <2> SUFFICES ASSUME DeviceInv, DeviceInv', ScanReaches, ScanReaches', DurableInv(w),
                      [Next]_vars, [RestartsWell]_vars,
                      ~UNCHANGED vars, NEW c \in Clients, pc[c] = "flush_clear"
               PROVE  Content' = Content
    OBVIOUS
  <2>1. c = w
    BY DEF DurableInv, RoleOK, FlushLabels, FlushingLabels
  <2>2. ASSUME NEW d \in Clients, Begin(d) \/ Step(d) \/ Fault(d)
        PROVE  Content' = Content
    <3>1. pc[d] # "mark_dirty"
      <4> SUFFICES ASSUME pc[d] = "mark_dirty" PROVE FALSE
        OBVIOUS
      <4>1. loc[d].op = "write"
        BY OneConnection DEF ConnectionOK
      <4>2. d = w
        BY <4>1 DEF DurableInv, RoleOK
      <4> QED BY <2>1, <4>2
    <3> QED BY <2>2, <3>1, ContentStays
  <2>3. CASE RestartElsewhere
    <3>1. Content = RecoveredContent
      BY ClearingIs
    <3>2. Content' = RecoveredContent
      BY <2>3, LoseRefines DEF Disk!LoseLocal
    <3> QED BY <3>1, <3>2
  <2>4. ~RestartOnPrevious
    BY DEF RestartsWell
  <2>5. ~Wait
    BY DEF Wait
  <2> QED BY <2>2, <2>3, <2>4, <2>5, CrashRefines DEF Next
<1> QED BY <1>1, Invariance, DurableInvariance, PTL DEF Spec, RestartsCountOn, FlushKeepsContent

\* Some superblock of a channel that has one is in force.
LEMMA InForceExists ==
  ASSUME NEW ch \in Seq(Message), Superblocks(ch) # {}
  PROVE  \E i : InForce(ch, i)
<1> DEFINE S == Superblocks(ch)
           f == [i \in S |-> Generation(ch, i)]
<1>1. IsFiniteSet(S) /\ S \subseteq Nat /\ \A i \in S : Generation(ch, i) \in Nat
  <2>1. S \subseteq 1 .. Len(ch) /\ Len(ch) \in Nat
    BY DEF Superblocks
  <2>2. IsFiniteSet(1 .. Len(ch))
    BY <2>1, FS_Interval
  <2>3. IsFiniteSet(S)
    BY <2>1, <2>2, FS_Subset
  <2> QED BY <2>1, <2>3, SuperblockTypes
<1> HIDE DEF S
<1>2. f \in [S -> Int]
  BY <1>1
<1>3. PICK x \in S : \A y \in S : f[y] <= f[x]
  <2>1. S # {}
    BY DEF S
  <2> HIDE DEF f
  <2> QED BY <1>1, <1>2, <2>1, ArgMax
<1>4. \A y \in S : Generation(ch, y) <= Generation(ch, x)
  BY <1>3
<1> DEFINE T == {i \in S : Generation(ch, i) = Generation(ch, x)}
<1>5. IsFiniteSet(T) /\ T # {} /\ T \in SUBSET Int
  <2>1. T \subseteq S /\ x \in T
    OBVIOUS
  <2> HIDE DEF T
  <2>2. IsFiniteSet(T)
    BY <1>1, <2>1, FS_Subset
  <2> QED BY <1>1, <2>1, <2>2
<1>6. Max(T) \in T /\ \A y \in T : y <= Max(T)
  <2> HIDE DEF T
  <2> QED BY <1>5, MaxIsLargest
<1>7. Max(T) \in S /\ Generation(ch, Max(T)) = Generation(ch, x)
  BY <1>6
<1>8. \A y \in S : \/ Generation(ch, y) < Generation(ch, Max(T))
                   \/ Generation(ch, y) = Generation(ch, Max(T)) /\ y <= Max(T)
  <2>1. \A y \in S : Generation(ch, y) = Generation(ch, x) => y <= Max(T)
    BY <1>6
  <2> HIDE DEF T
  <2> QED BY <1>1, <1>4, <1>7, <2>1
<1> HIDE DEF T
<1> QED BY <1>7, <1>8 DEF InForce, S

\* Nothing ever leaves the channel.
LEMMA ChannelGrows ==
  ASSUME DeviceInv, [Next]_vars
  PROVE  channel' = channel \/ Grows(channel, channel')
<1> USE DEF remote
<1>0. channel \in Seq(Message)
  BY DEF DeviceInv, RemoteOK
<1>1. ASSUME NEW msg \in Message, channel' \in {channel, Append(channel, msg)}
      PROVE  channel' = channel \/ Grows(channel, channel')
  <2>1. CASE channel' = Append(channel, msg)
    <3>1. Grows(channel, Append(channel, msg))
      BY <1>0, AppendGrows
    <3> QED BY <2>1, <3>1
  <2> QED BY <1>1, <2>1
<1>2. ASSUME NEW c \in Clients, Begin(c) \/ Step(c) \/ Fault(c)
      PROVE  channel' = channel \/ Grows(channel, channel')
  <2>1. CASE FlushObject(c) \/ FlushMissingObject(c)
    <3>1. pc[c] = "flush_object" /\ FlushReadable(c)
      BY <2>1 DEF FlushObject, FlushMissingObject
    <3>2. channel' = Append(channel, ObjectMessage(loc[c].snapshot[FlushTarget(c)].sha256))
      BY <2>1 DEF FlushObject, FlushMissingObject
    <3> QED BY <1>1, <3>1, <3>2, SendObjectOK
  <2>2. manifest \in Manifest /\ ManifestMessage(manifest) \in Message
    BY DEF DeviceInv, VariablesOK, ManifestMessage, Message
  <2>3. CASE FlushManifest(c)
    BY <1>1, <2>2, <2>3 DEF FlushManifest
  <2>4. CASE FlushSuperblock(c) \/ FlushBackup(c)
    <3>1. /\ pc[c] \in {"flush_superblock", "flush_backup"}
          /\ channel' = Append(channel, SuperblockMessage(loc[c].superblock))
      BY <2>4 DEF FlushSuperblock, FlushBackup
    <3> QED BY <1>1, <3>1, SendSuperblockOK
  <2>5. CASE SendFails(c)
    <3> DEFINE msg == CASE pc[c] = "flush_object" ->
                             ObjectMessage(loc[c].snapshot[FlushTarget(c)].sha256)
                        [] pc[c] = "flush_manifest" -> ManifestMessage(manifest)
                        [] OTHER -> SuperblockMessage(loc[c].superblock)
    <3>1. /\ channel' \in {channel, Append(channel, msg)}
          /\ pc[c] \in {"flush_object", "flush_manifest", "flush_superblock", "flush_backup"}
          /\ pc[c] = "flush_object" => FlushReadable(c)
      BY <2>5 DEF SendFails
    <3>2. msg \in Message
      BY <2>2, <3>1, SendObjectOK, SendSuperblockOK
    <3> HIDE DEF msg
    <3> QED BY <1>1, <3>1, <3>2
  <2>6. CASE FlushLock(c) \/ FlushClear(c) \/ MarkDirty(c) \/ MarkDirtyFails(c) \/ FlushClearFails(c)
    BY <2>6 DEF FlushLock, FlushClear, MarkDirty, MarkDirtyFails, FlushClearFails
  <2> QED BY <1>2, <2>1, <2>3, <2>4, <2>5, <2>6, QuietActions DEF Step, WriteStep, FlushStep, Fault
<1>3. CASE Crash \/ RestartElsewhere \/ RestartOnPrevious
  BY <1>3 DEF Crash, RestartElsewhere, RestartOnPrevious, RestartsElsewhere
<1>4. CASE Wait \/ UNCHANGED vars
  BY <1>4 DEF Wait, vars
<1> QED BY <1>2, <1>3, <1>4 DEF Next

\* Where a recovery that reaches the superblock in force finds one.
ScanFinds ==
  LET s == RecoverSuperblock(channel, pinned, scan_limit)
  IN  \A i : InForce(channel, i) =>
        s \in Superblocks(channel) \ {0} /\ Generation(channel, s) = Generation(channel, i)

LEMMA ScanFindsIt == DeviceInv /\ ScanReaches => ScanFinds
BY RecoverFinds DEF ScanFinds

\* Whatever connections, failures and crashes do, a recovery never falls back to an older
\* generation, while it reaches the superblock in force: messages are never edited or
\* deleted, and a later superblock replaces the one in force only by its generation.
THEOREM RecoveryGoesForward == Spec /\ []ScanReaches => RecoveryNeverGoesBack
<1> DEFINE R == RecoverSuperblock(channel, pinned, scan_limit)
           A == R # 0 => R' # 0 /\ Generation(channel', R') >= Generation(channel, R)
<1>1. DeviceInv /\ DeviceInv' /\ ScanReaches /\ ScanReaches' /\ [Next]_vars => A
  <2> SUFFICES ASSUME DeviceInv, DeviceInv', ScanReaches, ScanReaches', [Next]_vars, R # 0
               PROVE  R' # 0 /\ Generation(channel', R') >= Generation(channel, R)
    OBVIOUS
  <2>1. channel \in Seq(Message) /\ channel' \in Seq(Message)
    BY DEF DeviceInv, RemoteOK
  <2>2. ScanFinds /\ ScanFinds'
    BY ScanFindsIt, PTL
  <2>3. PICK i : InForce(channel, i)
    BY <2>1, RecoverNothing, InForceExists
  <2>4. Generation(channel, R) = Generation(channel, i) /\ i \in Superblocks(channel)
    BY <2>2, <2>3 DEF ScanFinds, InForce
  <2>5. i \in Superblocks(channel') /\ Generation(channel', i) = Generation(channel, i)
    BY <2>4, ChannelGrows DEF Superblocks, Grows, Generation
  <2>6. PICK j : InForce(channel', j)
    BY <2>1, <2>5, InForceExists
  <2>7. Generation(channel', R') = Generation(channel', j) /\ R' # 0
    BY <2>2, <2>6 DEF ScanFinds
  <2>8. /\ Generation(channel', i) \in Nat /\ Generation(channel', j) \in Nat
        /\ j \in Superblocks(channel')
    BY <2>1, <2>5, <2>6, SuperblockTypes DEF InForce
  <2>9. Generation(channel', j) >= Generation(channel', i)
    BY <2>5, <2>6, <2>8 DEF InForce
  <2> QED BY <2>4, <2>5, <2>7, <2>9
<1>2. DeviceInv /\ DeviceInv' /\ ScanReaches /\ ScanReaches' /\ [Next]_vars
        => [LET i == RecoverSuperblock(channel, pinned, scan_limit)
                j == RecoverSuperblock(channel', pinned', scan_limit)
            IN  i # 0 => j # 0 /\ Generation(channel', j) >= Generation(channel, i)]_vars
  BY <1>1
<1> QED BY <1>2, Invariance, PTL DEF Spec, RecoveryNeverGoesBack

-----------------------------------------------------------------------------
(* How far a recovery has to scan *)

\* The steps at which a message is sent.
SendLabels == {"flush_object", "flush_manifest", "flush_superblock", "flush_backup"}

\* How many of its messages connection w has still to send before the superblock.
ToSend(w) ==
  CASE w \in Clients /\ pc[w] = "flush_object" -> Cardinality(DirtyIds(loc[w].snapshot)) + 1
    [] w \in Clients /\ pc[w] = "flush_manifest" -> 1
    [] OTHER -> 0

\* What was sent after the superblock in force, and what is still to be, was all counted
\* when the flushes began.
ExposedInv(w) ==
  /\ exposed \in Nat
  /\ \A i : InForce(channel, i) => Len(channel) - i + ToSend(w) <= exposed

\* With the count, the device makes the steps it makes without.
LEMMA ScanIsSpec == ScanSpec => Spec
<1>1. [ScanNext]_<<vars, exposed>> => [Next]_vars
  BY DEF ScanNext
<1> QED BY <1>1, PTL DEF ScanSpec, ScanInit, Spec

\* A flush uploads finitely many objects.
LEMMA SnapshotSize ==
  ASSUME NEW rows \in Rows
  PROVE  Cardinality(DirtyIds(rows)) \in Nat
BY DirtyIdsOK, FS_CardinalityType

LEMMA ToSendOK ==
  ASSUME NEW w
  PROVE  DeviceInv => /\ ToSend(w) \in Nat
                      /\ w \in Clients /\ pc[w] \in {"flush_object", "flush_manifest"}
                           => ToSend(w) >= 1
<1> SUFFICES ASSUME DeviceInv
             PROVE  /\ ToSend(w) \in Nat
                    /\ w \in Clients /\ pc[w] \in {"flush_object", "flush_manifest"}
                         => ToSend(w) >= 1
  OBVIOUS
<1>1. CASE w \in Clients /\ pc[w] = "flush_object"
  <2>1. Cardinality(DirtyIds(loc[w].snapshot)) \in Nat
    BY <1>1, OneConnection, SnapshotSize DEF Locals
  <2>2. ToSend(w) = Cardinality(DirtyIds(loc[w].snapshot)) + 1
    BY <1>1 DEF ToSend
  <2> QED BY <1>1, <2>1, <2>2
<1>2. CASE w \in Clients /\ pc[w] = "flush_manifest"
  BY <1>2 DEF ToSend
<1>3. CASE ~(w \in Clients /\ pc[w] \in {"flush_object", "flush_manifest"})
  <2>1. ToSend(w) = 0
    BY <1>3 DEF ToSend
  <2> QED BY <1>3, <2>1
<1> QED BY <1>1, <1>2, <1>3

LEMMA ToSendNext ==
  ASSUME NEW w
  PROVE  DeviceInv' => ToSend(w)' \in Nat
<1>1. DeviceInv => ToSend(w) \in Nat
  BY ToSendOK
<1>2. (DeviceInv => ToSend(w) \in Nat)'
  BY <1>1, PTL
<1> QED BY <1>2

\* The channel as long as it was, or longer by one message of another kind.
Follows(d) ==
  Len(channel') = Len(channel) + d /\ \A i : InForce(channel', i) => InForce(channel, i)

\* A step after which as much more has been sent, or is to be, as was counted.
LEMMA ExposedMoves ==
  ASSUME DeviceInv, DeviceInv', NEW w, ExposedInv(w), NEW d \in Nat, NEW n \in Nat,
         Follows(d), ToSend(w)' + d <= ToSend(w) + n, exposed' = exposed + n
  PROVE  ExposedInv(w)'
<1>1. ToSend(w) \in Nat
  BY ToSendOK
<1>2. ToSend(w)' \in Nat
  BY ToSendNext
<1>3. exposed \in Nat
  BY DEF ExposedInv
<1>4. ASSUME NEW i, InForce(channel', i)
      PROVE  Len(channel') - i + ToSend(w)' <= exposed'
  <2>1. InForce(channel, i)
    BY <1>4 DEF Follows
  <2>2. Len(channel) - i + ToSend(w) <= exposed
    BY <2>1 DEF ExposedInv
  <2>3. i \in Nat /\ Len(channel) \in Nat
    BY <2>1, SuperblockTypes DEF InForce, DeviceInv, RemoteOK
  <2>4. Len(channel') = Len(channel) + d
    BY DEF Follows
  <2> QED BY <1>1, <1>2, <1>3, <2>2, <2>3, <2>4
<1>5. exposed' \in Nat
  BY <1>3
<1> QED BY <1>4, <1>5 DEF ExposedInv

\* A step after which a new superblock is in force, and its flush has nothing to send
\* before it.
LEMMA ExposedCommits ==
  ASSUME DeviceInv, DeviceInv', NEW w, ToSend(w)' = 0, exposed' = 0,
         NEW i, InForce(channel', i), i = Len(channel')
  PROVE  ExposedInv(w)'
<1>1. channel' \in Seq(Message) /\ i \in Nat
  BY SuperblockTypes DEF InForce, DeviceInv, RemoteOK
<1>2. ASSUME NEW j, InForce(channel', j)
      PROVE  Len(channel') - j + ToSend(w)' <= exposed'
  <2>1. j = i
    BY <1>1, <1>2, OneInForce
  <2> QED BY <1>1, <2>1
<1> QED BY <1>2 DEF ExposedInv

\* A message of another kind.
LEMMA SentOther ==
  ASSUME DeviceInv, NEW msg \in Message, msg.kind # "superblock", channel' = Append(channel, msg)
  PROVE  Follows(1) /\ ~Arrives
<1>1. channel \in Seq(Message) /\ ChannelOK(channel)
  BY DEF DeviceInv, RemoteOK
<1>2. /\ Len(channel') = Len(channel) + 1
      /\ DOMAIN channel' = DOMAIN channel \cup {Len(channel) + 1}
      /\ \A i \in DOMAIN channel : channel'[i] = channel[i]
      /\ channel'[Len(channel) + 1] = msg
  BY <1>1, AppendGrows DEF Grows
<1>3. \A i : InForce(channel', i) <=> InForce(channel, i)
  BY <1>1, SendOther
<1>4. Superblocks(channel') = Superblocks(channel)
  BY <1>2 DEF Superblocks
<1> QED BY <1>2, <1>3, <1>4 DEF Follows, Arrives

\* The object that a flush sends, and its manifest, are such messages.
LEMMA PartSent ==
  ASSUME DeviceInv, NEW c \in Clients, pc[c] \in {"flush_object", "flush_manifest"},
         pc[c] = "flush_object" =>
           channel' = Append(channel, ObjectMessage(loc[c].snapshot[FlushTarget(c)].sha256)),
         pc[c] = "flush_manifest" => channel' = Append(channel, ManifestMessage(manifest))
  PROVE  Follows(1) /\ ~Arrives
<1>1. CASE pc[c] = "flush_object"
  <2>1. PICK msg \in Message : msg.kind # "superblock" /\ channel' = Append(channel, msg)
    BY <1>1, SentObject
  <2> QED BY <2>1, SentOther
<1>2. CASE pc[c] = "flush_manifest"
  <2>1. ManifestMessage(manifest) \in Message /\ ManifestMessage(manifest).kind # "superblock"
    BY DEF DeviceInv, VariablesOK, ManifestMessage, Message
  <2> QED BY <1>2, <2>1, SentOther
<1> QED BY <1>1, <1>2

\* The channel as it was.
LEMMA SentNothing ==
  ASSUME DeviceInv, channel' = channel
  PROVE  Follows(0) /\ ~Arrives
BY DEF Follows, Arrives, DeviceInv, RemoteOK

\* The superblock of a flush is in force once it has arrived.
LEMMA SentSuperblock ==
  ASSUME DeviceInv, NEW w, DurableInv(w), NEW c \in Clients,
         pc[c] \in {"flush_superblock", "flush_backup"},
         channel' = Append(channel, SuperblockMessage(loc[c].superblock))
  PROVE  Arrives /\ \E i : InForce(channel', i) /\ i = Len(channel')
<1> DEFINE sb == loc[c].superblock
<1>1. /\ FlusherOK(dirty_objects, manifest, manifest_state, channel, pc[c], loc[c])
      /\ channel \in Seq(Message)
  BY FlushFacts DEF FlushLabels, FlushingLabels, CommitLabels
<1>2. NotBelow(channel, sb.current.generation)
  BY <1>1 DEF FlusherOK, FlushingLabels, CommitLabels
<1>3. sb \in Superblock /\ SuperblockOK(channel, sb)
  BY SendSuperblockOK
<1>4. PICK i \in Superblocks(channel') : InForce(channel', i) /\ i = Len(channel')
  <2> HIDE DEF sb
  <2>1. channel' = Append(channel, SuperblockMessage(sb))
    BY DEF sb
  <2> QED BY <1>1, <1>2, <1>3, <2>1, SendSuperblock
<1>5. Arrives
  <2>1. Len(channel') = Len(channel) + 1 /\ Len(channel) \in Nat
    BY <1>1, AppendGrows
  <2>2. i \notin DOMAIN channel
    BY <1>1, <1>4, <2>1
  <2>3. i \notin Superblocks(channel)
    BY <2>2 DEF Superblocks
  <2> QED BY <1>4, <2>3 DEF Arrives
<1> QED BY <1>4, <1>5

\* Every step of a handler is that handler's alone.
LEMMA Goes ==
  ASSUME NEW c \in Clients, Begin(c) \/ Step(c) \/ Fault(c)
  PROVE  \E next, l : Goto(c, next, l)
<1>1. CASE Begin(c)
  BY <1>1 DEF Begin, BeginRead, BeginWrite, BeginFlush
<1>2. CASE ReadStep(c)
  BY <1>2 DEF ReadStep, ReadDirty, ReadDirtyRejected, ReadNotDirty, ReadEntry, ReadOutOfRange,
     ReadCache, ReadCacheRejected, FetchObject, FillOpen, FillBytes, Reply, Return, Abort
<1>3. CASE WriteStep(c)
  BY <1>3 DEF WriteStep, CheckLimit, LimitReached, NextGeneration, WriteCacheOpen,
     WriteCacheBytes, MarkDirty, Abort
<1>4. CASE PrefetchStep(c)
  BY <1>4 DEF PrefetchStep, PrefetchDirtyIds, PrefetchLock, PrefetchSkip, PrefetchWant,
     PrefetchRejected, PrefetchScanned, PrefetchFetch, PrefetchFillOpen, PrefetchFillBytes
<1>5. CASE FlushStep(c)
  BY <1>5 DEF FlushStep, FlushList, FlushLock, FlushObject, FlushRejected, FlushMissingObject,
     FlushManifest, FlushSuperblock, FlushPin, FlushBackup, FlushReplace, FlushClear, Abort
<1>6. CASE Fault(c)
  BY <1>6 DEF Fault, SendFails, PinFails, FetchFails, QueryFails, WriteCacheFails,
     PrefetchQueryFails, PrefetchFillFails, MarkDirtyFails, FlushClearFails, Abort
<1> QED BY <1>1, <1>2, <1>3, <1>4, <1>5, <1>6 DEF Step

\* Only the steps that send change the channel.
LEMMA SilentSteps ==
  ASSUME NEW c \in Clients, Begin(c) \/ Step(c) \/ Fault(c), pc[c] \notin SendLabels
  PROVE  channel' = channel
<1> USE DEF remote
<1>1. CASE FlushLock(c) \/ FlushClear(c) \/ MarkDirty(c) \/ MarkDirtyFails(c) \/ FlushClearFails(c)
  BY <1>1 DEF FlushLock, FlushClear, MarkDirty, MarkDirtyFails, FlushClearFails
<1>2. ~ \/ FlushObject(c) \/ FlushMissingObject(c) \/ FlushManifest(c) \/ FlushSuperblock(c)
        \/ FlushBackup(c) \/ SendFails(c)
  BY DEF FlushObject, FlushMissingObject, FlushManifest, FlushSuperblock, FlushBackup, SendFails,
     SendLabels
<1> QED BY <1>1, <1>2, QuietActions DEF Step, WriteStep, FlushStep, Fault

\* A handler at a send does nothing else.
LEMMA SendingSteps ==
  ASSUME NEW c \in Clients, Begin(c) \/ Step(c) \/ Fault(c), pc[c] \in SendLabels
  PROVE  \/ FlushObject(c) \/ FlushRejected(c) \/ FlushMissingObject(c) \/ FlushManifest(c)
         \/ FlushSuperblock(c) \/ FlushBackup(c) \/ SendFails(c) \/ QueryFails(c)
<1>1. ~Begin(c)
  BY DEF Begin, BeginRead, BeginWrite, BeginFlush, SendLabels
<1>2. ~ReadStep(c)
  BY DEF ReadStep, ReadDirty, ReadDirtyRejected, ReadNotDirty, ReadEntry, ReadOutOfRange,
     ReadCache, ReadCacheRejected, FetchObject, FillOpen, FillBytes, Reply, SendLabels
<1>3. ~WriteStep(c)
  BY DEF WriteStep, CheckLimit, LimitReached, NextGeneration, WriteCacheOpen, WriteCacheBytes,
     MarkDirty, SendLabels
<1>4. ~PrefetchStep(c)
  BY DEF PrefetchStep, PrefetchDirtyIds, PrefetchLock, PrefetchSkip, PrefetchWant,
     PrefetchRejected, PrefetchScanned, PrefetchFetch, PrefetchFillOpen, PrefetchFillBytes,
     SendLabels
<1>5. ~(FlushList(c) \/ FlushLock(c) \/ FlushPin(c) \/ FlushReplace(c) \/ FlushClear(c))
  BY DEF FlushList, FlushLock, FlushPin, FlushReplace, FlushClear, SendLabels
<1>6. ~ \/ PinFails(c) \/ FetchFails(c) \/ WriteCacheFails(c) \/ PrefetchQueryFails(c)
        \/ PrefetchFillFails(c) \/ MarkDirtyFails(c) \/ FlushClearFails(c)
  BY DEF PinFails, FetchFails, WriteCacheFails, PrefetchQueryFails, PrefetchFillFails,
     MarkDirtyFails, FlushClearFails, SendLabels
<1> QED BY <1>1, <1>2, <1>3, <1>4, <1>5, <1>6 DEF Step, FlushStep, Fault

\* A request that arrives, a read, a write, a read-ahead and the list of a flush neither
\* begin nor end the flush.
LEMMA NotFlushing ==
  ASSUME DeviceInv, NEW c \in Clients,
         Begin(c) \/ ReadStep(c) \/ WriteStep(c) \/ PrefetchStep(c) \/ FlushList(c)
  PROVE  pc[c] \notin FlushingLabels /\ pc'[c] \notin FlushingLabels
<1> DEFINE Off == Labels \ FlushingLabels
<1>0. \A l : LoopHead(l) \in Off
  BY DEF LoopHead, Labels, FlushingLabels, CommitLabels
<1>1. \A next \in Off : \A l : Goto(c, next, l) => pc'[c] \notin FlushingLabels
  BY DEF Goto, DeviceInv, ConnectionsOK
<1>2. \A x \in {"idle", "reply", "read_object", "read_entry", "read_cache", "fetch", "fill",
           "filling", "limit", "generation", "write_cache", "write_bytes", "mark_dirty",
           "prefetch", "prefetch_lock", "prefetch_scan", "prefetch_fetch",
           "prefetch_fill", "prefetch_filling", "flush_list", "flush_lock"} : x \in Off
  BY DEF Labels, FlushingLabels, CommitLabels
<1>3. \A payload : Return(c, payload) => pc'[c] \notin FlushingLabels
  BY <1>0, <1>1, <1>2 DEF Return
<1> HIDE DEF Off
<1>4. \A x \in Off : x \notin FlushingLabels
  BY DEF Off
<1>5. CASE Begin(c)
  BY <1>0, <1>1, <1>2, <1>4, <1>5 DEF Begin, BeginRead, BeginWrite, BeginFlush
<1>6. CASE ReadStep(c)
  BY <1>1, <1>2, <1>3, <1>4, <1>6 DEF ReadStep, ReadDirty, ReadDirtyRejected, ReadNotDirty,
     ReadEntry, ReadOutOfRange, ReadCache, ReadCacheRejected, FetchObject, FillOpen, FillBytes,
     Reply, Abort
<1>7. CASE WriteStep(c)
  BY <1>0, <1>1, <1>2, <1>4, <1>7 DEF WriteStep, CheckLimit, LimitReached, NextGeneration,
     WriteCacheOpen, WriteCacheBytes, MarkDirty, Abort
<1>8. CASE PrefetchStep(c)
  BY <1>1, <1>2, <1>4, <1>8 DEF PrefetchStep, PrefetchDirtyIds, PrefetchLock, PrefetchSkip,
     PrefetchWant, PrefetchRejected, PrefetchScanned, PrefetchFetch, PrefetchFillOpen,
     PrefetchFillBytes
<1>9. CASE FlushList(c)
  BY <1>1, <1>2, <1>4, <1>9 DEF FlushList
<1> QED BY <1>5, <1>6, <1>7, <1>8, <1>9

\* Only flush_lock, and a send, lead to a send that comes before the superblock.
LEMMA NotSending ==
  ASSUME DeviceInv, NEW c \in Clients, Begin(c) \/ Step(c) \/ Fault(c), pc[c] \notin SendLabels,
         ~FlushLock(c)
  PROVE  pc'[c] \notin {"flush_object", "flush_manifest"}
<1>1. CASE Begin(c) \/ ReadStep(c) \/ WriteStep(c) \/ PrefetchStep(c) \/ FlushList(c)
  BY <1>1, NotFlushing DEF FlushingLabels
<1>2. \A next, l : Goto(c, next, l) => pc'[c] = next
  BY DEF Goto, DeviceInv, ConnectionsOK
<1>3. CASE FlushPin(c) \/ FlushReplace(c) \/ FlushClear(c)
  BY <1>2, <1>3 DEF FlushPin, FlushReplace, FlushClear
<1>4. CASE Fault(c)
  <2>1. Goto(c, "idle", NoLocals) \/ Goto(c, "reply", loc[c])
    BY <1>4 DEF Fault, SendFails, PinFails, FetchFails, QueryFails, WriteCacheFails,
       PrefetchQueryFails, PrefetchFillFails, MarkDirtyFails, FlushClearFails, Abort
  <2> QED BY <1>2, <2>1
<1>5. ~ \/ FlushObject(c) \/ FlushRejected(c) \/ FlushMissingObject(c) \/ FlushManifest(c)
        \/ FlushSuperblock(c) \/ FlushBackup(c)
  BY DEF FlushObject, FlushRejected, FlushMissingObject, FlushManifest, FlushSuperblock,
     FlushBackup, SendLabels
<1> QED BY <1>1, <1>3, <1>4, <1>5 DEF Step, FlushStep

\* The handlers do not start flushes for one another.
LEMMA StartsAlone ==
  ASSUME DeviceInv, NEW c \in Clients, NEW next, NEW l, Goto(c, next, l), NEW d \in Clients,
         Starts(d)
  PROVE  d = c
BY DEF Starts, Goto, DeviceInv, ConnectionsOK

\* What happens away from the sends: nothing new on the channel, nothing more to send.
LEMMA QuietExposed ==
  ASSUME DeviceInv, DeviceInv', NEW w, ExposedInv(w), Counts, NEW c \in Clients,
         Begin(c) \/ Step(c) \/ Fault(c), pc[c] \notin SendLabels, ~FlushLock(c)
  PROVE  ExposedInv(w)'
<1>1. DeviceInv => ToSend(w) \in Nat
  BY ToSendOK
<1>2. PICK next, l : Goto(c, next, l)
  BY Goes
<1>3. ToSend(w)' <= ToSend(w)
  <2>1. CASE c = w
    <3>1. ToSend(w)' = 0
      BY <2>1, NotSending DEF ToSend
    <3> QED BY <1>1, <3>1
  <2>2. CASE c # w
    <3>1. w \in Clients => pc'[w] = pc[w] /\ loc'[w] = loc[w]
      BY <1>2, <2>2 DEF Goto, DeviceInv, ConnectionsOK
    <3>2. ToSend(w)' = ToSend(w)
      BY <3>1 DEF ToSend
    <3> QED BY <1>1, <3>2
  <2> QED BY <2>1, <2>2
<1>4. Follows(0) /\ ~Arrives
  BY SilentSteps, SentNothing
<1>5. exposed' = exposed
  <2>1. \A d \in Clients : ~Starts(d)
    <3>1. ~Starts(c)
      BY NotSending DEF Starts
    <3> QED BY <1>2, <3>1, StartsAlone
  <2> QED BY <1>4, <2>1 DEF Counts
<1>6. exposed' = exposed + 0 /\ ToSend(w)' + 0 <= ToSend(w) + 0
  <2>1. ToSend(w)' \in Nat
    BY ToSendNext
  <2> QED BY <1>1, <1>3, <1>5, <2>1 DEF ExposedInv
<1> QED BY <1>4, <1>6, ExposedMoves

\* flush has taken its snapshot: what it is to send is counted.
LEMMA StartExposed ==
  ASSUME DeviceInv, DeviceInv', NEW w, DurableInv(w), ExposedInv(w), Counts, NEW c \in Clients,
         FlushLock(c)
  PROVE  ExposedInv(w)'
<1> DEFINE n == Cardinality(DirtyIds(loc[c].snapshot)) + 1
<1>1. /\ pc[c] = "flush_lock" /\ Goto(c, "flush_object", loc[c]) /\ channel' = channel
  BY DEF FlushLock, remote
<1>2. c = w /\ loc[c] \in Locals
  BY <1>1, FlushFacts DEF FlushLabels
<1>3. n \in Nat
  BY <1>2, SnapshotSize DEF Locals
<1>4. pc'[c] = "flush_object" /\ loc'[c] = loc[c]
  BY <1>1 DEF Goto, DeviceInv, ConnectionsOK
<1>5. ToSend(w) = 0 /\ ToSend(w)' = n
  BY <1>1, <1>2, <1>4 DEF ToSend
<1>6. Follows(0) /\ ~Arrives
  BY <1>1, SentNothing
<1>7. exposed' = exposed + n
  <2>1. Starts(c)
    BY <1>1, <1>4 DEF Starts
  <2>2. \A d \in Clients : Starts(d) => d = c
    BY <1>1, StartsAlone
  <2>3. exposed' = exposed + Cardinality(DirtyIds(loc[c].snapshot)) + 1
    BY <1>6, <2>1, <2>2 DEF Counts
  <2> QED BY <1>2, <2>3, SnapshotSize DEF ExposedInv, Locals
<1> HIDE DEF n
<1> QED BY <1>3, <1>5, <1>6, <1>7, ExposedMoves

\* Each object sent is one less to send, and so is the manifest, which is the last.
LEMMA PartExposed ==
  ASSUME DeviceInv, DeviceInv', NEW c \in Clients, ExposedInv(c), exposed' = exposed,
         FlushObject(c) \/ FlushManifest(c)
  PROVE  ExposedInv(c)'
<1>1. Follows(1)
  BY PartSent DEF FlushObject, FlushManifest
<1>2. ToSend(c)' + 1 <= ToSend(c)
  <2>1. CASE FlushObject(c)
    <3> DEFINE l == loc[c]  o == FlushTarget(c)  D == DirtyIds(l.snapshot)
               rest == [l.snapshot EXCEPT ![o] = None]
               next == IF rest = NoRows THEN "flush_manifest" ELSE "flush_object"
               k == [l EXCEPT !.snapshot = rest]
    <3>1. pc[c] = "flush_object" /\ FlushReadable(c) /\ Goto(c, next, k)
      BY <2>1 DEF FlushObject
    <3>2. l.snapshot \in Rows /\ l \in Locals /\ o \in D /\ o \in Objects
      BY <3>1, OneConnection, FlushTargetOK DEF Locals
    <3>3. pc'[c] = next /\ loc'[c].snapshot = rest
      <4>1. next # "idle"
        OBVIOUS
      <4>2. pc'[c] = next /\ loc'[c] = k
        <5> HIDE DEF next, k
        <5> QED BY <3>1, <4>1 DEF Goto, DeviceInv, ConnectionsOK
      <4> HIDE DEF rest
      <4> QED BY <3>2, <4>2 DEF Locals
    <3>4. DirtyIds(rest) = D \ {o} /\ (rest = NoRows => D \ {o} = {})
      BY <3>2 DEF DirtyIds, Rows, NoRows
    <3>5. /\ IsFiniteSet(D) /\ Cardinality(D) \in Nat
          /\ Cardinality(D \ {o}) = Cardinality(D) - 1
      <4>1. IsFiniteSet(D)
        BY <3>2, DirtyIdsOK
      <4> HIDE DEF D
      <4> QED BY <3>2, <4>1, FS_CardinalityType, FS_RemoveElement
    <3>6. ToSend(c) = Cardinality(D) + 1
      BY <3>1 DEF ToSend
    <3>7. ToSend(c)' = Cardinality(D \ {o}) + 1
      <4> HIDE DEF D, rest
      <4>1. CASE rest = NoRows
        <5>1. ToSend(c)' = 1
          BY <3>3, <4>1 DEF ToSend
        <5>2. Cardinality(D \ {o}) = 0
          BY <3>4, <4>1, FS_EmptySet
        <5> QED BY <5>1, <5>2
      <4>2. CASE rest # NoRows
        BY <3>3, <3>4, <4>2 DEF ToSend
      <4> QED BY <4>1, <4>2
    <3> HIDE DEF D
    <3> QED BY <3>5, <3>6, <3>7
  <2>2. CASE FlushManifest(c)
    <3>1. PICK next \in {"flush_superblock", "flush_backup"} : \E k : Goto(c, next, k)
      BY <2>2 DEF FlushManifest
    <3>2. pc'[c] = next
      BY <3>1 DEF Goto, DeviceInv, ConnectionsOK
    <3>3. ToSend(c) = 1
      BY <2>2 DEF FlushManifest, ToSend
    <3>4. ToSend(c)' = 0
      BY <3>1, <3>2 DEF ToSend
    <3> QED BY <3>3, <3>4
  <2> QED BY <2>1, <2>2
<1>3. exposed' = exposed + 0 /\ ToSend(c)' + 1 <= ToSend(c) + 0
  <2>1. DeviceInv => ToSend(c) \in Nat
    BY ToSendOK
  <2> QED BY <1>2, <2>1 DEF ExposedInv
<1> QED BY <1>1, <1>3, ExposedMoves

\* A flush that ends early, at a send or at the file it was to send, leaves no more behind
\* it than what it was to send.
LEMMA FailedExposed ==
  ASSUME DeviceInv, DeviceInv', NEW c \in Clients, ExposedInv(c), exposed' = exposed,
         pc[c] \in SendLabels, Goto(c, "idle", NoLocals),
         \/ Follows(0)
         \/ pc[c] \in {"flush_object", "flush_manifest"} /\ Follows(1)
  PROVE  ExposedInv(c)'
<1>1. ToSend(c)' = 0
  <2>1. pc'[c] = "idle"
    BY DEF Goto, DeviceInv, ConnectionsOK
  <2> QED BY <2>1 DEF ToSend
<1>2. ToSend(c) \in Nat /\ (pc[c] \in {"flush_object", "flush_manifest"} => ToSend(c) >= 1)
  BY ToSendOK
<1>3. exposed' = exposed + 0
  BY DEF ExposedInv
<1>4. CASE Follows(0)
  BY <1>1, <1>2, <1>3, <1>4, ExposedMoves
<1>5. CASE pc[c] \in {"flush_object", "flush_manifest"} /\ Follows(1)
  BY <1>1, <1>2, <1>3, <1>5, ExposedMoves
<1> QED BY <1>4, <1>5

\* A send: of an object, of the manifest, or of the superblock.
LEMMA SendExposed ==
  ASSUME DeviceInv, DeviceInv', NEW w, DurableInv(w), ExposedInv(w), Counts, NEW c \in Clients,
         Begin(c) \/ Step(c) \/ Fault(c), pc[c] \in SendLabels
  PROVE  ExposedInv(w)'
<1>1. c = w
  BY FlushFacts DEF FlushLabels, FlushingLabels, CommitLabels, SendLabels
<1>2. PICK next, l : Goto(c, next, l)
  BY Goes
<1>3. \A d \in Clients : ~Starts(d)
  <2>1. ~Starts(c)
    BY DEF Starts, SendLabels
  <2> QED BY <1>2, <2>1, StartsAlone
<1>4. ~Arrives => exposed' = exposed
  BY <1>3 DEF Counts
<1>5. Arrives => exposed' = 0
  BY DEF Counts
<1>6. CASE FlushObject(c) \/ FlushManifest(c)
  <2>1. ~Arrives
    BY <1>6, PartSent DEF FlushObject, FlushManifest
  <2> QED BY <1>1, <1>4, <1>6, <2>1, PartExposed
<1>7. ASSUME pc[c] \in {"flush_superblock", "flush_backup"},
             channel' = Append(channel, SuperblockMessage(loc[c].superblock)),
             pc'[c] \notin {"flush_object", "flush_manifest"}
      PROVE  ExposedInv(w)'
  <2>1. Arrives
    BY <1>7, SentSuperblock
  <2>2. PICK i : InForce(channel', i) /\ i = Len(channel')
    BY <1>7, SentSuperblock
  <2>3. ToSend(w)' = 0
    BY <1>1, <1>7 DEF ToSend
  <2> QED BY <1>5, <2>1, <2>2, <2>3, ExposedCommits
<1>8. CASE FlushSuperblock(c) \/ FlushBackup(c)
  <2>1. \A n, k : Goto(c, n, k) => pc'[c] = n
    BY DEF Goto, DeviceInv, ConnectionsOK
  <2>2. pc'[c] \in {"flush_pin", "flush_replace"}
    BY <1>8, <2>1 DEF FlushSuperblock, FlushBackup
  <2> QED BY <1>7, <1>8, <2>2 DEF FlushSuperblock, FlushBackup
<1>9. CASE FlushRejected(c) \/ FlushMissingObject(c) \/ SendFails(c) \/ QueryFails(c)
  <2>1. Goto(c, "idle", NoLocals)
    BY <1>9 DEF FlushRejected, FlushMissingObject, SendFails, QueryFails, Abort
  <2>2. CASE channel' = channel
    BY <1>1, <1>4, <2>1, <2>2, SentNothing, FailedExposed
  <2>3. CASE channel' # channel
    <3>1. \/ /\ pc[c] = "flush_object"
             /\ channel' = Append(channel, ObjectMessage(loc[c].snapshot[FlushTarget(c)].sha256))
          \/ pc[c] = "flush_manifest" /\ channel' = Append(channel, ManifestMessage(manifest))
          \/ /\ pc[c] \in {"flush_superblock", "flush_backup"}
             /\ channel' = Append(channel, SuperblockMessage(loc[c].superblock))
      BY <1>9, <2>3 DEF FlushRejected, FlushMissingObject, SendFails, QueryFails, remote
    <3>2. CASE pc[c] \in {"flush_object", "flush_manifest"}
      <4>1. Follows(1) /\ ~Arrives
        BY <3>1, <3>2, PartSent
      <4> QED BY <1>1, <1>4, <2>1, <3>2, <4>1, FailedExposed
    <3>3. CASE pc[c] \in {"flush_superblock", "flush_backup"}
      <4>1. pc'[c] = "idle"
        BY <2>1 DEF Goto, DeviceInv, ConnectionsOK
      <4> QED BY <1>7, <3>1, <3>3, <4>1
    <3> QED BY <3>1, <3>2, <3>3
  <2> QED BY <2>2, <2>3
<1> QED BY <1>6, <1>8, <1>9, SendingSteps

\* A restart sends nothing, and there is no flush after it.
LEMMA RestartExposed ==
  ASSUME DeviceInv, DeviceInv', NEW w, ExposedInv(w), Counts,
         Crash \/ RestartElsewhere \/ RestartOnPrevious
  PROVE  ExposedInv(w)'
<1>1. channel' = channel /\ \A c \in Clients : pc'[c] = "idle"
  BY DEF Crash, RestartElsewhere, RestartOnPrevious, RestartsElsewhere, Restarted, remote
<1>2. Follows(0) /\ ~Arrives
  BY <1>1, SentNothing
<1>3. exposed' = exposed + 0
  BY <1>1, <1>2 DEF Counts, Starts, ExposedInv
<1>4. ToSend(w)' = 0 /\ ToSend(w) \in Nat
  BY <1>1, ToSendOK DEF ToSend
<1> QED BY <1>2, <1>3, <1>4, ExposedMoves

\* So every step keeps the count.
LEMMA NextExposed ==
  ASSUME NEW w
  PROVE  DeviceInv /\ DeviceInv' /\ DurableInv(w) /\ ExposedInv(w)
           /\ [ScanNext]_<<vars, exposed>> => ExposedInv(w)'
<1> SUFFICES ASSUME DeviceInv, DeviceInv', DurableInv(w), ExposedInv(w),
                    [ScanNext]_<<vars, exposed>>
             PROVE  ExposedInv(w)'
  OBVIOUS
<1>1. ASSUME UNCHANGED vars, exposed' = exposed
      PROVE  ExposedInv(w)'
  <2>1. channel' = channel /\ pc' = pc /\ loc' = loc
    BY <1>1 DEF vars, remote
  <2>2. ToSend(w)' = ToSend(w)
    BY <2>1 DEF ToSend
  <2> QED BY <1>1, <2>1, <2>2 DEF ExposedInv
<1>2. ASSUME NEW c \in Clients, Begin(c) \/ Step(c) \/ Fault(c), Counts
      PROVE  ExposedInv(w)'
  BY <1>2, QuietExposed, StartExposed, SendExposed
<1>3. CASE Counts /\ (Crash \/ RestartElsewhere \/ RestartOnPrevious)
  BY <1>3, RestartExposed
<1>4. CASE Counts /\ Wait
  <2>1. UNCHANGED vars /\ ~Arrives /\ \A c \in Clients : ~Starts(c)
    BY <1>4 DEF Wait, Arrives, Starts, vars, remote
  <2> QED BY <1>1, <1>4, <2>1 DEF Counts
<1> QED BY <1>1, <1>2, <1>3, <1>4 DEF ScanNext, Next

\* A device starts with its superblock as the last message, or without one.
LEMMA InitExposed ==
  ASSUME NEW w, Init, exposed = 0, DeviceInv
  PROVE  ExposedInv(w)
<1>1. ASSUME NEW i, InForce(channel, i)
      PROVE  i = Len(channel)
  <2>1. i \in Superblocks(channel) /\ \A j \in Superblocks(channel) :
          Generation(channel, j) = Generation(channel, i) => j <= i
    BY <1>1, SuperblockTypes DEF InForce, DeviceInv, RemoteOK
  <2>2. CASE channel = <<>>
    BY <2>1, <2>2 DEF Superblocks
  <2>3. CASE channel = FormattedChannel
    <3> DEFINE ref == [message_id |-> 1, generation |-> 0]
               sb == SuperblockMessage([device_size |-> formatted_size, current |-> ref,
                                        previous |-> None])
               mm == ManifestMessage(EmptyManifest)
    <3>1. channel = <<mm, sb, sb>>
      BY <2>3 DEF FormattedChannel
    <3>2. sb.kind = "superblock" /\ mm.kind = "manifest"
      BY DEF SuperblockMessage, ManifestMessage
    <3> HIDE DEF sb, mm
    <3>3. /\ DOMAIN channel = 1 .. 3 /\ channel[1] = mm /\ channel[2] = sb /\ channel[3] = sb
          /\ Len(channel) = 3
      BY <3>1
    <3>4. Superblocks(channel) = {2, 3}
      BY <3>2, <3>3 DEF Superblocks
    <3>5. Generation(channel, 2) = Generation(channel, 3)
      BY <3>3 DEF Generation
    <3> QED BY <2>1, <3>3, <3>4, <3>5
  <2> QED BY <2>2, <2>3 DEF Init
<1>2. Len(channel) \in Nat
  BY DEF DeviceInv, RemoteOK
<1>3. ToSend(w) = 0
  BY DEF Init, ToSend
<1> QED BY <1>1, <1>2, <1>3 DEF ExposedInv

\* While the count is below the window, a recovery reaches the superblock in force.
LEMMA ExposedReaches ==
  ASSUME NEW w
  PROVE  DeviceInv /\ ExposedInv(w) /\ ShortFlushes => ScanReaches
<1> SUFFICES ASSUME DeviceInv, ExposedInv(w), ShortFlushes, NEW i \in Superblocks(channel),
                    InForce(channel, i)
             PROVE  i \in InWindow(channel, scan_limit)
  BY DEF ScanReaches
<1>1. ToSend(w) \in Nat /\ scan_limit \in Nat /\ exposed \in Nat /\ exposed < scan_limit
  BY ToSendOK, DeviceAssumption DEF ShortFlushes, ExposedInv
<1>2. Len(channel) - i + ToSend(w) <= exposed
  BY DEF ExposedInv
<1>3. i \in Nat /\ Len(channel) \in Nat /\ i \in DOMAIN channel /\ channel[i].kind = "superblock"
  BY SuperblockTypes DEF DeviceInv, RemoteOK, Superblocks
<1> QED BY <1>1, <1>2, <1>3 DEF InWindow

\* Recovery reaches the superblock in force whatever fails, for any number of objects,
\* flushes, failures and crashes, as long as the flushes begun since the last superblock
\* arrived, the ones that ended early and the one under way, set out to send fewer messages
\* than recover_superblock_text scans.  One connection writes, and restarts count on.  The run
\* DeviceFaults checks the same of small devices.
THEOREM RecoveryReaches ==
  ASSUME NEW w, OneWriter(w)
  PROVE  ScanSpec /\ []ShortFlushes /\ RestartsCountOn => [](DurableInv(w) /\ ScanReaches)
<1>1. Init /\ exposed = 0 /\ DeviceInv => DurableInv(w) /\ ExposedInv(w)
  BY InitDurable, InitExposed
<1>2. DeviceInv /\ ExposedInv(w) /\ ShortFlushes => ScanReaches
  BY ExposedReaches
<1>3. DeviceInv /\ DurableInv(w) /\ ScanReaches /\ [Next]_vars /\ [RestartsWell]_vars
        => DurableInv(w)'
  BY NextDurable
<1>4. DeviceInv /\ DeviceInv' /\ DurableInv(w) /\ ExposedInv(w) /\ [ScanNext]_<<vars, exposed>>
        => ExposedInv(w)'
  BY NextExposed
<1>5. [ScanNext]_<<vars, exposed>> => [Next]_vars
  BY DEF ScanNext
<1> QED BY <1>1, <1>2, <1>3, <1>4, <1>5, Invariance, ScanIsSpec, PTL
       DEF ScanSpec, ScanInit, RestartsCountOn

-----------------------------------------------------------------------------
(* Restarts that count on *)

\* Nothing of this kind is left to happen: no call of the network or the store still fails,
\* no process dies.
Gone(what) == budget[what] = 0

\* No file that flush is to upload is torn, or missing.
FlushesWell == \A c \in Clients : ~FlushRejected(c) /\ ~FlushMissingObject(c)

\* Connection w has set the generation of its flush, and not finished it.
Flushing(w) == w \in Clients /\ pc[w] \in FlushingLabels

\* The channel is one generation ahead of the store at most.  So is the manifest in memory
\* during a flush, and then the rows are not ahead of it; otherwise they are by one at most.
SteadyOK(rows, m, ms, ch, flushing) ==
  /\ NotBelow(ch, ms.generation + 1)
  /\ flushing => /\ m.generation <= ms.generation + 1
                 /\ \A o \in DirtyIds(rows) : rows[o].generation <= m.generation
  /\ ~flushing => /\ m.generation <= ms.generation
                  /\ \A o \in DirtyIds(rows) : rows[o].generation <= m.generation + 1

\* That is so where no call fails, for as long as a process may still die.  (The run
\* GenerationRegress shows what one failed pin and one crash do together.)
SteadyInv(w) ==
  /\ Gone("faults") /\ Gone("store_faults")
  /\ budget.crashes > 0 =>
       SteadyOK(dirty_objects, manifest, manifest_state, channel, Flushing(w))

\* Nothing is put back into a budget.
LEMMA GoneForGood ==
  ASSUME NEW what \in {"faults", "store_faults", "crashes", "moves"}
  PROVE  DeviceInv /\ Gone(what) /\ [Next]_vars => Gone(what)'
<1> SUFFICES ASSUME DeviceInv, Gone(what), [Next]_vars
             PROVE  Gone(what)'
  OBVIOUS
<1>1. budget \in [writes : Nat, flushes : Nat, faults : Nat, store_faults : Nat,
                  crashes : Nat, moves : Nat]
  BY DEF DeviceInv, VariablesOK
<1>2. CASE budget' = budget
  BY <1>2 DEF Gone
<1>3. ASSUME NEW other \in {"writes", "flushes", "faults", "store_faults", "crashes", "moves"},
             Spend(other)
      PROVE  Gone(what)'
  BY <1>1, <1>3 DEF Spend, Gone
<1>4. ASSUME NEW c \in Clients, Begin(c) \/ Step(c) \/ Fault(c)
      PROVE  Gone(what)'
  <2>1. CASE Begin(c)
    BY <1>2, <1>3, <2>1 DEF Begin, BeginRead, BeginWrite, BeginFlush
  <2>2. CASE ReadStep(c)
    BY <1>2, <2>2 DEF ReadStep, ReadDirty, ReadDirtyRejected, ReadNotDirty, ReadEntry,
       ReadOutOfRange, ReadCache, ReadCacheRejected, FetchObject, FillOpen, FillBytes, Reply
  <2>3. CASE WriteStep(c)
    BY <1>2, <2>3 DEF WriteStep, CheckLimit, LimitReached, NextGeneration, WriteCacheOpen,
       WriteCacheBytes, MarkDirty
  <2>4. CASE PrefetchStep(c)
    BY <1>2, <2>4 DEF PrefetchStep, PrefetchDirtyIds, PrefetchLock, PrefetchSkip, PrefetchWant,
       PrefetchRejected, PrefetchScanned, PrefetchFetch, PrefetchFillOpen, PrefetchFillBytes
  <2>5. CASE FlushStep(c)
    BY <1>2, <2>5 DEF FlushStep, FlushList, FlushLock, FlushObject, FlushRejected,
       FlushMissingObject, FlushManifest, FlushSuperblock, FlushPin, FlushBackup, FlushReplace,
       FlushClear
  <2>6. CASE Fault(c)
    BY <1>3, <2>6 DEF Fault, SendFails, PinFails, FetchFails, QueryFails, WriteCacheFails,
       PrefetchQueryFails, PrefetchFillFails, MarkDirtyFails, FlushClearFails
  <2> QED BY <1>4, <2>1, <2>2, <2>3, <2>4, <2>5, <2>6 DEF Step
<1>5. CASE Crash \/ RestartElsewhere
  BY <1>3, <1>5 DEF Crash, RestartElsewhere
<1>6. CASE RestartOnPrevious
  <2>1. /\ budget.moves > 0 /\ budget.faults > 0
        /\ budget' = [budget EXCEPT !.moves = @ - 1, !.faults = @ - 1]
    BY <1>6 DEF RestartOnPrevious
  <2>2. budget'.store_faults = budget.store_faults /\ budget'.crashes = budget.crashes
    BY <1>1, <2>1
  <2>3. CASE what \in {"faults", "moves"}
    BY <2>1, <2>3 DEF Gone
  <2>4. CASE what \in {"store_faults", "crashes"}
    BY <2>2, <2>4 DEF Gone
  <2> QED BY <2>3, <2>4
<1>7. CASE Wait \/ UNCHANGED vars
  BY <1>2, <1>7 DEF Wait, vars
<1> QED BY <1>4, <1>5, <1>6, <1>7 DEF Next

\* A recovery makes do with the previous manifest only when a download fails.
LEMMA NoPrevious == Gone("faults") => ~RestartOnPrevious
BY DEF Gone, RestartOnPrevious
\* Generations are numbers.
LEMMA GenerationTypes ==
  ASSUME DeviceInv
  PROVE  /\ manifest.generation \in Nat /\ manifest_state.generation \in Nat
         /\ channel \in Seq(Message) /\ dirty_objects \in Rows
         /\ \A i \in Superblocks(channel) : Generation(channel, i) \in Nat
         /\ budget \in [writes : Nat, flushes : Nat, faults : Nat, store_faults : Nat,
                        crashes : Nat, moves : Nat]
<1>1. manifest \in Manifest /\ manifest_state \in Manifest /\ channel \in Seq(Message)
  BY DEF DeviceInv, VariablesOK, RemoteOK
<1> QED BY <1>1, SuperblockTypes DEF Manifest, DeviceInv, VariablesOK

\* The ones to be used before and after a step.
Numbered ==
  /\ manifest.generation \in Nat /\ manifest_state.generation \in Nat
  /\ \A i \in Superblocks(channel) : Generation(channel, i) \in Nat

LEMMA AlwaysNumbered == DeviceInv => Numbered
BY GenerationTypes DEF Numbered

\* A formatted device is at its first generation everywhere.
LEMMA InitSteady ==
  ASSUME NEW w, MaxFaults = 0, MaxStoreFaults = 0, Init, DurableInv(w)
  PROVE  SteadyInv(w)
<1>1. Gone("faults") /\ Gone("store_faults")
  BY DEF Init, Gone
<1>2. ~Flushing(w)
  BY DEF Init, Flushing, FlushingLabels, CommitLabels
<1>3. /\ dirty_objects = NoRows /\ manifest = EmptyManifest /\ manifest_state = EmptyManifest
      /\ EmptyManifest.generation = 0
  BY DEF Init, EmptyManifest
<1>4. NotBelow(channel, manifest_state.generation + 1)
  BY <1>3 DEF DurableInv, GenerationsOK
<1>5. DirtyIds(dirty_objects) = {}
  BY <1>3 DEF DirtyIds, NoRows
<1>6. SteadyOK(dirty_objects, manifest, manifest_state, channel, Flushing(w))
  BY <1>2, <1>3, <1>4, <1>5 DEF SteadyOK
<1> QED BY <1>1, <1>6 DEF SteadyInv

\* So a process that dies leaves a manifest at most one generation behind the channel.
LEMMA SteadyRestarts ==
  ASSUME NEW w
  PROVE  DeviceInv /\ SteadyInv(w) => [RestartsWell]_vars
<1> SUFFICES ASSUME DeviceInv, SteadyInv(w)
             PROVE  RestartsWell
  OBVIOUS
<1>1. ~RestartOnPrevious
  BY NoPrevious DEF SteadyInv
<1>2. ASSUME Crash PROVE NotBehind
  <2>1. budget.crashes > 0
    BY <1>2 DEF Crash, Spend
  <2>2. SteadyOK(dirty_objects, manifest, manifest_state, channel, Flushing(w))
    BY <2>1 DEF SteadyInv
  <2>3. NotBelow(channel, manifest_state.generation + 1)
    BY <2>2 DEF SteadyOK
  <2> QED BY <2>3, GenerationTypes DEF NotBehind, NotBelow
<1> QED BY <1>1, <1>2 DEF RestartsWell

\* The requests, and the steps of a handler, are not failures.
LEMMA FailuresLeft ==
  ASSUME DeviceInv, NEW c \in Clients, Begin(c) \/ Step(c)
  PROVE  /\ budget'.crashes = budget.crashes /\ budget'.faults = budget.faults
         /\ budget'.store_faults = budget.store_faults
<1>1. budget' = budget \/ Spend("writes") \/ Spend("flushes")
  <2>1. CASE Begin(c)
    BY <2>1 DEF Begin, BeginRead, BeginWrite, BeginFlush
  <2>2. CASE ReadStep(c)
    BY <2>2 DEF ReadStep, ReadDirty, ReadDirtyRejected, ReadNotDirty, ReadEntry,
       ReadOutOfRange, ReadCache, ReadCacheRejected, FetchObject, FillOpen, FillBytes, Reply
  <2>3. CASE WriteStep(c)
    BY <2>3 DEF WriteStep, CheckLimit, LimitReached, NextGeneration, WriteCacheOpen,
       WriteCacheBytes, MarkDirty
  <2>4. CASE PrefetchStep(c)
    BY <2>4 DEF PrefetchStep, PrefetchDirtyIds, PrefetchLock, PrefetchSkip,
       PrefetchWant, PrefetchRejected, PrefetchScanned, PrefetchFetch, PrefetchFillOpen,
       PrefetchFillBytes
  <2>5. CASE FlushStep(c)
    BY <2>5 DEF FlushStep, FlushList, FlushLock, FlushObject, FlushRejected,
       FlushMissingObject, FlushManifest, FlushSuperblock, FlushPin, FlushBackup, FlushReplace,
       FlushClear
  <2> QED BY <2>1, <2>2, <2>3, <2>4, <2>5 DEF Step
<1> QED BY <1>1, GenerationTypes DEF Spend

\* Those steps leave the generations alone, but for the row of a write.
LEMMA QuietSteady ==
  ASSUME DeviceInv, NEW w, SteadyInv(w), NEW c \in Clients, budget.crashes > 0,
         Begin(c) \/ ReadStep(c) \/ WriteStep(c) \/ PrefetchStep(c) \/ FlushList(c), ~MarkDirty(c)
  PROVE  SteadyOK(dirty_objects, manifest, manifest_state, channel, Flushing(w))'
<1>1. UNCHANGED <<dirty_objects, manifest, channel>>
  BY QuietActions DEF WriteStep
<1>2. manifest_state' = manifest_state
  <2> USE DEF local
  <2>1. CASE Begin(c)
    BY <2>1 DEF Begin, BeginRead, BeginWrite, BeginFlush
  <2>2. CASE ReadStep(c)
    BY <2>2 DEF ReadStep, ReadDirty, ReadDirtyRejected, ReadNotDirty, ReadEntry,
       ReadOutOfRange, ReadCache, ReadCacheRejected, FetchObject, FillOpen, FillBytes, Reply
  <2>3. CASE WriteStep(c)
    BY <2>3 DEF WriteStep, CheckLimit, LimitReached, NextGeneration, WriteCacheOpen,
       WriteCacheBytes
  <2>4. CASE PrefetchStep(c)
    BY <2>4 DEF PrefetchStep, PrefetchDirtyIds, PrefetchLock, PrefetchSkip, PrefetchWant,
       PrefetchRejected, PrefetchScanned, PrefetchFetch, PrefetchFillOpen, PrefetchFillBytes
  <2>5. CASE FlushList(c)
    BY <2>5 DEF FlushList
  <2> QED BY <2>1, <2>2, <2>3, <2>4, <2>5
<1>3. Flushing(w)' = Flushing(w)
  <2>1. PICK next, l : Goto(c, next, l)
    BY Goes DEF Step, FlushStep
  <2>2. \A d \in Clients : d # c => pc'[d] = pc[d]
    BY <2>1 DEF Goto, DeviceInv, ConnectionsOK
  <2>3. CASE w = c
    BY <2>3, NotFlushing DEF Flushing
  <2>4. CASE w # c
    BY <2>2, <2>4 DEF Flushing
  <2> QED BY <2>3, <2>4
<1>4. SteadyOK(dirty_objects, manifest, manifest_state, channel, Flushing(w))
  BY DEF SteadyInv
<1> QED BY <1>1, <1>2, <1>3, <1>4 DEF SteadyOK, NotBelow, Superblocks, Generation

\* A write outside a flush, and there is no other, marks its row one generation ahead.
LEMMA MarkSteady ==
  ASSUME DeviceInv, NEW w, DurableInv(w), SteadyInv(w), NEW c \in Clients, budget.crashes > 0,
         MarkDirty(c)
  PROVE  SteadyOK(dirty_objects, manifest, manifest_state, channel, Flushing(w))'
<1> DEFINE o == Target(c)  row == DirtyRow(c)
<1>1. /\ pc[c] = "mark_dirty" /\ dirty_objects' = [dirty_objects EXCEPT ![o] = row]
      /\ UNCHANGED <<manifest, manifest_state, channel>>
  BY DEF MarkDirty, remote
<1>2. row.generation = manifest.generation + 1 /\ c = w
  <2>1. loc[c].op = "write"
    BY <1>1, OneConnection DEF ConnectionOK
  <2>2. RoleOK(w, c, pc[c], loc[c]) /\ WriterOK(dirty_objects, manifest, pc[c], loc[c])
    BY DEF DurableInv
  <2> QED BY <1>1, <2>1, <2>2 DEF RoleOK, WriterOK, EncodedLabels, DirtyRow
<1>3. ~Flushing(w) /\ ~Flushing(w)'
  <2>1. pc[c] \notin FlushingLabels /\ pc'[c] \notin FlushingLabels
    BY NotFlushing DEF WriteStep
  <2> QED BY <1>2, <2>1 DEF Flushing
<1>4. /\ NotBelow(channel, manifest_state.generation + 1)
      /\ manifest.generation <= manifest_state.generation
      /\ \A p \in DirtyIds(dirty_objects) : dirty_objects[p].generation <= manifest.generation + 1
  BY <1>3 DEF SteadyInv, SteadyOK
<1>5. \A p \in DirtyIds(dirty_objects') :
        dirty_objects'[p].generation <= manifest.generation + 1
  <2> SUFFICES ASSUME NEW p \in DirtyIds(dirty_objects')
               PROVE  dirty_objects'[p].generation <= manifest.generation + 1
    OBVIOUS
  <2> HIDE DEF o, row
  <2>1. p \in Objects /\ dirty_objects'[p] # None
    BY DEF DirtyIds
  <2>2. CASE p = o
    BY <1>1, <1>2, <2>1, <2>2, GenerationTypes DEF Rows
  <2>3. CASE p # o
    <3>1. p \in DirtyIds(dirty_objects) /\ dirty_objects'[p] = dirty_objects[p]
      BY <1>1, <2>1, <2>3, GenerationTypes DEF Rows, DirtyIds
    <3> QED BY <1>4, <3>1
  <2> QED BY <2>2, <2>3
<1> QED BY <1>1, <1>3, <1>4, <1>5 DEF SteadyOK, NotBelow, Superblocks, Generation

\* flush takes the generation of its newest row, which is at most one ahead of the store.
LEMMA LockSteady ==
  ASSUME DeviceInv, NEW w, DurableInv(w), SteadyInv(w), NEW c \in Clients,
         budget.crashes > 0, FlushLock(c)
  PROVE  SteadyOK(dirty_objects, manifest, manifest_state, channel, Flushing(w))'
<1> DEFINE rows == loc[c].snapshot
           g == Max({rows[o].generation : o \in DirtyIds(rows)})
<1>1. /\ pc[c] = "flush_lock" /\ manifest' = [manifest EXCEPT !.generation = g]
      /\ Goto(c, "flush_object", loc[c]) /\ UNCHANGED <<dirty_objects, manifest_state>>
  BY DEF FlushLock, local
<1>2. /\ c = w /\ rows = dirty_objects
      /\ FlusherOK(dirty_objects, manifest, manifest_state, channel, pc[c], loc[c])
  BY <1>1, FlushFacts DEF FlushLabels, FlusherOK
<1>3. DirtyIds(rows) # {}
  BY <1>1, OneConnection DEF ConnectionOK
<1>4. /\ g \in Nat
      /\ \A o \in DirtyIds(rows) : rows[o].generation <= g
      /\ \E o \in DirtyIds(rows) : rows[o].generation = g
  <2>1. dirty_objects \in Rows /\ DirtyIds(dirty_objects) # {}
    BY <1>2, <1>3, GenerationTypes
  <2>2. g = Max({dirty_objects[o].generation : o \in DirtyIds(dirty_objects)})
    BY <1>2
  <2> HIDE DEF g, rows
  <2> QED BY <1>2, <2>1, <2>2, HighestRow
<1>5. manifest'.generation = g
  BY <1>1 DEF DeviceInv, VariablesOK, Manifest
<1> HIDE DEF g
<1>6. ~Flushing(w) /\ Flushing(w)' /\ pc'[c] = "flush_object"
  <2>1. pc'[c] = "flush_object"
    BY <1>1 DEF Goto, DeviceInv, ConnectionsOK
  <2> QED BY <1>1, <1>2, <2>1 DEF Flushing, FlushingLabels, CommitLabels
<1>7. /\ NotBelow(channel, manifest_state.generation + 1)
      /\ manifest.generation <= manifest_state.generation
      /\ \A p \in DirtyIds(dirty_objects) : dirty_objects[p].generation <= manifest.generation + 1
  BY <1>6 DEF SteadyInv, SteadyOK
<1>8. g <= manifest_state.generation + 1
  <2>1. g <= manifest.generation + 1 /\ manifest.generation <= manifest_state.generation
    BY <1>2, <1>4, <1>7
  <2> QED BY <1>4, <2>1, GenerationTypes
<1>9. channel' = channel
  BY DEF FlushLock, remote
<1> QED BY <1>1, <1>2, <1>4, <1>5, <1>6, <1>7, <1>8, <1>9
      DEF SteadyOK, NotBelow, Superblocks, Generation

\* The flush then keeps it, and what it publishes is of that generation.
LEMMA FlushSteady ==
  ASSUME DeviceInv, DeviceInv', NEW w, DurableInv(w), DurableInv(w)', SteadyInv(w),
         NEW c \in Clients, budget.crashes > 0,
         \/ FlushObject(c) \/ FlushManifest(c) \/ FlushSuperblock(c) \/ FlushPin(c)
         \/ FlushBackup(c) \/ FlushReplace(c)
  PROVE  SteadyOK(dirty_objects, manifest, manifest_state, channel, Flushing(w))'
<1>1. /\ pc[c] \in FlushingLabels
      /\ \E next \in FlushingLabels : \E l : Goto(c, next, l)
      /\ dirty_objects' = dirty_objects
      /\ manifest_state' \in {manifest_state, manifest}
  <2> USE DEF FlushingLabels, CommitLabels, local
  <2>1. CASE FlushObject(c)
    BY <2>1 DEF FlushObject
  <2>2. CASE FlushManifest(c)
    BY <2>2 DEF FlushManifest
  <2>3. CASE FlushSuperblock(c) \/ FlushPin(c) \/ FlushBackup(c)
    BY <2>3 DEF FlushSuperblock, FlushPin, FlushBackup
  <2>4. CASE FlushReplace(c)
    BY <2>4 DEF FlushReplace
  <2> QED BY <2>1, <2>2, <2>3, <2>4
<1>2. manifest'.generation = manifest.generation
  <2>1. CASE FlushObject(c)
    <3>1. \A o, bytes, id : WithUploaded(manifest, o, bytes, id).generation = manifest.generation
      BY DEF WithUploaded, DeviceInv, VariablesOK, Manifest
    <3> QED BY <2>1, <3>1 DEF FlushObject
  <2>2. CASE ~FlushObject(c)
    BY <2>2 DEF FlushManifest, FlushSuperblock, FlushPin, FlushBackup, FlushReplace
  <2> QED BY <2>1, <2>2
<1>3. c = w
  BY <1>1, FlushFacts DEF FlushLabels
<1>4. pc'[c] \in FlushingLabels
  BY <1>1 DEF Goto, DeviceInv, ConnectionsOK, FlushingLabels, CommitLabels
<1>5. Flushing(w) /\ Flushing(w)'
  BY <1>1, <1>3, <1>4 DEF Flushing
<1>6. NotBelow(channel', manifest'.generation)
  BY <1>4 DEF DurableInv, FlusherOK
<1>7. /\ manifest.generation <= manifest_state.generation + 1
      /\ \A p \in DirtyIds(dirty_objects) : dirty_objects[p].generation <= manifest.generation
  BY <1>5 DEF SteadyInv, SteadyOK
<1>8. manifest.generation <= manifest_state'.generation + 1
  <2>1. CASE manifest_state' = manifest
    BY <2>1, GenerationTypes
  <2>2. CASE manifest_state' = manifest_state
    BY <1>7, <2>2 DEF SteadyOK
  <2> QED BY <1>1, <2>1, <2>2
<1>9. NotBelow(channel', manifest_state'.generation + 1)
  <2>0. Numbered'
    BY AlwaysNumbered, PTL
  <2>1. \A i \in Superblocks(channel') : Generation(channel', i) \in Nat
    BY <2>0 DEF Numbered, Superblocks, Generation
  <2>2. manifest'.generation \in Nat /\ manifest_state'.generation \in Nat
    BY <2>0 DEF Numbered
  <2> QED BY <1>2, <1>6, <1>8, <2>1, <2>2 DEF NotBelow
<1> QED BY <1>1, <1>2, <1>5, <1>7, <1>8, <1>9 DEF SteadyOK

\* At its end the store has the manifest of the channel.
LEMMA ClearSteady ==
  ASSUME DeviceInv, NEW w, DurableInv(w), SteadyInv(w), NEW c \in Clients,
         budget.crashes > 0, FlushClear(c)
  PROVE  SteadyOK(dirty_objects, manifest, manifest_state, channel, Flushing(w))'
<1>1. /\ pc[c] = "flush_clear" /\ Goto(c, "idle", NoLocals) /\ dirty_objects' = NoRows
      /\ UNCHANGED <<manifest, manifest_state, channel>>
  BY DEF FlushClear, remote
<1>2. c = w /\ manifest_state = manifest
  BY <1>1, FlushFacts DEF FlushLabels, FlushingLabels, FlusherOK
<1>3. Flushing(w) /\ ~Flushing(w)'
  BY <1>1, <1>2 DEF Flushing, FlushingLabels, CommitLabels, Goto, DeviceInv, ConnectionsOK
<1>4. NotBelow(channel, manifest_state.generation + 1)
  BY DEF SteadyInv, SteadyOK
<1>5. DirtyIds(NoRows) = {}
  BY DEF DirtyIds, NoRows
<1> QED BY <1>1, <1>2, <1>3, <1>4, <1>5, GenerationTypes
      DEF SteadyOK, NotBelow, Superblocks, Generation

\* A process that takes over starts with the manifest of the store.
LEMMA CrashSteady ==
  ASSUME DeviceInv, NEW w, SteadyInv(w), Crash
  PROVE  SteadyOK(dirty_objects, manifest, manifest_state, channel, Flushing(w))'
<1>1. /\ budget.crashes > 0 /\ manifest' = manifest_state
      /\ UNCHANGED <<dirty_objects, manifest_state, channel>>
      /\ \A c \in Clients : pc'[c] = "idle"
  BY DEF Crash, Spend, Restarted, local, remote
<1>2. SteadyOK(dirty_objects, manifest, manifest_state, channel, Flushing(w))
  BY <1>1 DEF SteadyInv
<1>3. \A o \in DirtyIds(dirty_objects) :
        dirty_objects[o].generation <= manifest_state.generation + 1
  <2>1. \A o \in DirtyIds(dirty_objects) : dirty_objects[o].generation \in Nat
    BY GenerationTypes, DirtyIdsOK DEF Row
  <2>2. CASE Flushing(w)
    BY <1>2, <2>1, <2>2, GenerationTypes DEF SteadyOK
  <2>3. CASE ~Flushing(w)
    BY <1>2, <2>1, <2>3, GenerationTypes DEF SteadyOK
  <2> QED BY <2>2, <2>3
<1>4. ~Flushing(w)'
  BY <1>1 DEF Flushing, FlushingLabels, CommitLabels
<1> QED BY <1>1, <1>2, <1>3, <1>4, GenerationTypes
      DEF SteadyOK, NotBelow, Superblocks, Generation

\* A machine that takes over starts with the manifest of the superblock in force.
LEMMA MoveSteady ==
  ASSUME DeviceInv, NEW w, DurableInv(w), ScanReaches, RestartElsewhere
  PROVE  SteadyOK(dirty_objects, manifest, manifest_state, channel, Flushing(w))'
<1>1. /\ RecoverSuperblock(channel, pinned, scan_limit) # 0
      /\ manifest' = Recovered /\ manifest_state' = Recovered
      /\ dirty_objects' = NoRows /\ channel' = channel /\ \A c \in Clients : pc'[c] = "idle"
  BY DEF RestartElsewhere, RestartsElsewhere, Restarted, remote
<1>2. Superblocks(channel) # {}
  BY <1>1, RecoverNothing
<1>3. PICK i \in Superblocks(channel) : InForce(channel, i)
  BY <1>2 DEF DurableInv, AgreementOK
<1>4. Recovered = ManifestOf(channel, i)
  BY <1>3, RecoverFinds
<1> DEFINE m == Recovered
<1>5. m \in Manifest /\ NotBelow(channel, m.generation)
  BY <1>3, <1>4, InForceManifest
<1>6. manifest' = m /\ manifest_state' = m
  BY <1>1
<1> HIDE DEF m
<1>7. m.generation \in Nat
  BY <1>5 DEF Manifest
<1>8. DirtyIds(NoRows) = {}
  BY DEF DirtyIds, NoRows
<1>9. ~Flushing(w)'
  BY <1>1 DEF Flushing, FlushingLabels, CommitLabels
<1>10. NotBelow(channel, m.generation + 1)
  BY <1>5, <1>7, GenerationTypes DEF NotBelow
<1> QED BY <1>1, <1>6, <1>7, <1>8, <1>9, <1>10 DEF SteadyOK, NotBelow, Superblocks, Generation

\* Every step that the premises allow keeps the generations in that relation.
LEMMA NextSteady ==
  ASSUME NEW w
  PROVE  DeviceInv /\ DeviceInv' /\ DurableInv(w) /\ DurableInv(w)' /\ SteadyInv(w)
           /\ ScanReaches /\ (budget.crashes > 0 => FlushesWell) /\ [Next]_vars
           => SteadyInv(w)'
<1> SUFFICES ASSUME DeviceInv, DeviceInv', DurableInv(w), DurableInv(w)', SteadyInv(w),
                    ScanReaches, budget.crashes > 0 => FlushesWell, [Next]_vars
             PROVE  SteadyInv(w)'
  OBVIOUS
<1> DEFINE Good == SteadyOK(dirty_objects, manifest, manifest_state, channel, Flushing(w))
<1>1. SteadyInv(w) => (budget.crashes > 0 => Good)
  BY DEF SteadyInv
<1>2. SUFFICES budget'.crashes > 0 => Good'
  <2>1. (Gone("faults") /\ Gone("store_faults"))'
    BY GoneForGood DEF SteadyInv
  <2> QED BY <1>2, <2>1 DEF SteadyInv
<1>3. CASE UNCHANGED vars
  BY <1>3 DEF vars, local, remote, SteadyInv, SteadyOK, NotBelow, Superblocks, Generation, Flushing
<1> HIDE DEF Good
<1>4. ASSUME NEW c \in Clients, Begin(c) \/ Step(c), budget'.crashes > 0
      PROVE  Good'
  <2>0. budget.crashes > 0 /\ FlushesWell /\ Good
    BY <1>1, <1>4, FailuresLeft
  <2>1. CASE \/ Begin(c) \/ ReadStep(c) \/ (WriteStep(c) /\ ~MarkDirty(c)) \/ PrefetchStep(c)
             \/ FlushList(c)
    <3>1. ~MarkDirty(c)
      BY <2>1 DEF MarkDirty, Begin, BeginRead, BeginWrite, BeginFlush, FlushList, ReadStep,
         ReadDirty, ReadDirtyRejected, ReadNotDirty, ReadEntry, ReadOutOfRange, ReadCache,
         ReadCacheRejected, FetchObject, FillOpen, FillBytes, Reply, PrefetchStep,
         PrefetchDirtyIds, PrefetchLock, PrefetchSkip, PrefetchWant, PrefetchRejected,
         PrefetchScanned, PrefetchFetch, PrefetchFillOpen, PrefetchFillBytes
    <3> QED BY <2>0, <2>1, <3>1, QuietSteady DEF Good
  <2>2. CASE MarkDirty(c)
    BY <2>0, <2>2, MarkSteady DEF Good
  <2>3. CASE FlushLock(c)
    BY <2>0, <2>3, LockSteady DEF Good
  <2>4. CASE \/ FlushObject(c) \/ FlushManifest(c) \/ FlushSuperblock(c) \/ FlushPin(c)
             \/ FlushBackup(c) \/ FlushReplace(c)
    BY <2>0, <2>4, FlushSteady DEF Good
  <2>5. CASE FlushClear(c)
    BY <2>0, <2>5, ClearSteady DEF Good
  <2>6. ~FlushRejected(c) /\ ~FlushMissingObject(c)
    BY <2>0 DEF FlushesWell
  <2> QED BY <1>4, <2>1, <2>2, <2>3, <2>4, <2>5, <2>6 DEF Step, FlushStep
<1>5. ASSUME NEW c \in Clients PROVE ~Fault(c)
  BY DEF Fault, SendFails, PinFails, FetchFails, QueryFails, WriteCacheFails,
     PrefetchQueryFails, PrefetchFillFails, MarkDirtyFails, FlushClearFails, Spend,
     SteadyInv, Gone
<1>6. CASE Crash
  BY <1>6, CrashSteady DEF Good
<1>7. CASE RestartElsewhere
  BY <1>7, MoveSteady DEF Good
<1>8. ~RestartOnPrevious
  BY NoPrevious DEF SteadyInv
<1>9. CASE Wait
  BY <1>3, <1>9 DEF Wait
<1> QED BY <1>3, <1>4, <1>5, <1>6, <1>7, <1>8, <1>9 DEF Next

\* What the premises are for.
LEMMA LosesNothing ==
  ASSUME NEW w, OneWriter(w)
  PROVE  Spec /\ []ScanReaches /\ RestartsCountOn
           => /\ []CleanMeansDurable /\ []GcSafe
              /\ ImplementsDisk /\ FlushKeepsContent /\ RecoveryNeverGoesBack
<1>1. /\ Spec /\ []ScanReaches /\ RestartsCountOn => []CleanMeansDurable
      /\ Spec /\ []ScanReaches /\ RestartsCountOn => []GcSafe
      /\ Spec /\ []ScanReaches /\ RestartsCountOn => ImplementsDisk
      /\ Spec /\ []ScanReaches /\ RestartsCountOn => FlushKeepsContent
      /\ Spec /\ []ScanReaches => RecoveryNeverGoesBack
  BY CleanIsDurable, GcIsSafe, DeviceImplementsDisk, FlushLosesNothing, RecoveryGoesForward
<1> QED BY <1>1, PTL

\* No process dies.
LEMMA NoCrash == Gone("crashes") => ~Crash
BY DEF Gone, Crash, Spend

\* So failures alone lose nothing that was flushed, those of the network and those of the
\* store, in any number and at any moment, whatever machine takes over, as long as the
\* flushes that fail do not send more than the window between two superblocks: every
\* recovery finds the superblock in force, a device with nothing dirty is on the channel,
\* `tgdrive gc` deletes nothing that a recovery reads, flush changes nothing that a read
\* returns, and the device is the abstract disk.  One connection writes, no process dies and
\* no recovery makes do with a previous manifest.
THEOREM FailuresLoseNothing ==
  ASSUME NEW w, OneWriter(w), MaxCrashes = 0
  PROVE  ScanSpec /\ []ShortFlushes /\ [][~RestartOnPrevious]_vars
           => /\ []ScanReaches /\ []CleanMeansDurable /\ []GcSafe
              /\ ImplementsDisk /\ FlushKeepsContent /\ RecoveryNeverGoesBack
<1>1. Init => Gone("crashes")
  BY DEF Init, Gone
<1>2. DeviceInv /\ Gone("crashes") /\ [Next]_vars => Gone("crashes")'
  BY GoneForGood
<1>3. Gone("crashes") /\ [~RestartOnPrevious]_vars => [RestartsWell]_vars
  BY NoCrash DEF RestartsWell
<1>4. Spec /\ [][~RestartOnPrevious]_vars => RestartsCountOn
  BY <1>1, <1>2, <1>3, Invariance, PTL DEF Spec, RestartsCountOn
<1> QED BY <1>4, RecoveryReaches, LosesNothing, ScanIsSpec, PTL
=============================================================================
