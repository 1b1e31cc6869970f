--------------------------- MODULE LifecycleProofs --------------------------
(***************************************************************************)
(* Proofs about the life of a device (Lifecycle, LifecycleDisk).           *)
(*                                                                         *)
(* Four layers of invariants, each kept by every step of the layer below:  *)
(*   TypesOK, Exclusive   types; the mount lock excludes a second daemon   *)
(*   SoundInv             every manifest on the channel, saved, served or  *)
(*                        fetched names objects only                       *)
(*   SameDevice           what is saved and served is the device in force  *)
(*   StepInv              the local store is in step with the channel      *)
(* The last one needs StartsCountOn, which FaultInv proves when at most    *)
(* one commit fails.                                                       *)
(***************************************************************************)
EXTENDS LifecycleDisk, ExtremaProofs

-----------------------------------------------------------------------------
(* Manifest trees *)

ObjectEntry == [object_id : Nat, generation : Nat, remote : Nat, payload : Value]

\* The manifests of a device of n objects.
ManifestsOf(n) ==
  {m \in Manifest : /\ Len(m.objects) = n
                    /\ \A k \in DOMAIN m.objects : m.objects[k].object_id = k - 1}

\* The smaller of two numbers.
LEMMA MinOfTwo ==
  ASSUME NEW a \in Int, NEW b \in Int
  PROVE  Min({a, b}) = IF a <= b THEN a ELSE b
<1> DEFINE S == {a, b}
<1>1. \E x \in S : \A y \in S : x =< y
  OBVIOUS
<1>2. Min(S) \in S /\ \A y \in S : Min(S) =< y
  <2> HIDE DEF S
  <2> QED BY <1>1 DEF Min
<1> QED BY <1>2

\* Leaves that come in order are left in order.
LEMMA SortedIs ==
  ASSUME NEW T, NEW leaves \in Seq(T),
         \A k \in DOMAIN leaves : leaves[k].leaf_index = k - 1
  PROVE  SortedLeaves(leaves) = leaves
<1> DEFINE n == Len(leaves)
           Rank(j) == Cardinality({i \in DOMAIN leaves : Before(leaves, i, j)})
<1>1. n \in Nat /\ DOMAIN leaves = 1 .. n
  OBVIOUS
<1>2. ASSUME NEW j \in 1 .. n PROVE Rank(j) = j - 1
  <2>1. {i \in DOMAIN leaves : Before(leaves, i, j)} = 1 .. j - 1
    <3>1. ASSUME NEW i \in 1 .. n
          PROVE  Before(leaves, i, j) <=> i < j
      <4>1. leaves[i].leaf_index = i - 1 /\ leaves[j].leaf_index = j - 1
        BY <1>1
      <4> QED BY <1>1, <4>1 DEF Before
    <3> HIDE DEF n
    <3> QED BY <1>1, <3>1
  <2>2. Cardinality(1 .. j - 1) = j - 1
    <3>1. Cardinality(1 .. j - 1) = IF 1 > j - 1 THEN 0 ELSE (j - 1) - 1 + 1
      BY <1>1, FS_Interval
    <3> QED BY <1>1, <3>1
  <2> QED BY <2>1, <2>2, Zenon
<1>3. ASSUME NEW k \in 1 .. n
      PROVE  (CHOOSE j \in DOMAIN leaves : Rank(j) = k - 1) = k
  <2> HIDE DEF Rank, n
  <2>1. \A j \in DOMAIN leaves : Rank(j) = k - 1 <=> j = k
    BY <1>1, <1>2
  <2> QED BY <1>1, <2>1
<1>4. SortedLeaves(leaves) = [k \in 1 .. n |-> leaves[CHOOSE j \in DOMAIN leaves : Rank(j) = k - 1]]
  BY <1>1, Zenon DEF SortedLeaves
<1>5. \A k \in 1 .. n : leaves[CHOOSE j \in DOMAIN leaves : Rank(j) = k - 1] = leaves[k]
  <2> HIDE DEF Rank, n
  <2> QED BY <1>3, Zenon
<1>6. leaves = [k \in 1 .. n |-> leaves[k]]
  OBVIOUS
<1> HIDE DEF Rank, n
<1> QED BY <1>4, <1>5, <1>6

\* The chunks of a sequence: all full but the last, which is not empty.
LEMMA ChunkCount ==
  ASSUME NEW len \in Nat, NEW span \in Nat \ {0}
  PROVE  /\ (len + span - 1) \div span \in Nat
         /\ len <= span * ((len + span - 1) \div span)
         /\ span * ((len + span - 1) \div span) < len + span
  OBVIOUS

\* c cuts sequence s into n chunks of length span, the last of which may be shorter.
Chunked(s, span, n, c) ==
  /\ n = (Len(s) + span - 1) \div span
  /\ c = [k \in 1 .. n |-> SubSeq(s, (k - 1) * span + 1, Min({k * span, Len(s)}))]

\* The chunks of a sequence, one after the other, are the sequence.
LEMMA ChunksFlat ==
  ASSUME NEW T, NEW s \in Seq(T), NEW span \in Nat \ {0}, NEW n \in Nat, NEW c,
         Chunked(s, span, n, c)
  PROVE  FlattenSeq(c) = s
<1> DEFINE at == [h \in Nat |-> h * span]
           l == Len(s)
<1>1. l \in Nat /\ l <= at[n] /\ at[n] < l + span
  <2>0. Len(s) \in Nat
    OBVIOUS
  <2> DEFINE k == (Len(s) + span - 1) \div span
  <2>1. k \in Nat /\ Len(s) <= span * k /\ span * k < Len(s) + span
    BY <2>0, ChunkCount
  <2>2. n = k /\ at[n] = n * span /\ n * span = span * n
    BY DEF Chunked
  <2> HIDE DEF k, at
  <2> QED BY <2>0, <2>1, <2>2
<1>2. at[0] = 0 /\ \A h \in Nat : at[h] \in Nat
  OBVIOUS
<1>2a. \A h \in Nat : at[h + 1] = at[h] + span
  OBVIOUS
<1>2b. ASSUME NEW h \in Nat, NEW k \in Nat, h < k
       PROVE  at[h] + span <= at[k]
  <2>1. k - 1 - h \in Nat /\ k = h + 1 + (k - 1 - h)
    BY <1>2b
  <2>2. PICK d \in Nat : k = h + 1 + d
    BY <2>1
  <2>3. k * span = h * span + span + d * span /\ d * span \in Nat /\ h * span \in Nat
    BY <2>2
  <2> QED BY <2>3
<1>3. ASSUME NEW k \in 1 .. n
      PROVE  c[k] = SubSeq(s, at[k - 1] + 1, Min({at[k], l}))
  <2>1. k \in Nat /\ k - 1 \in Nat
    OBVIOUS
  <2>2. at[k] = k * span /\ at[k - 1] = (k - 1) * span
    BY <2>1
  <2>3. c[k] = SubSeq(s, (k - 1) * span + 1, Min({k * span, Len(s)}))
    BY Zenon DEF Chunked
  <2> HIDE DEF at
  <2> QED BY <2>2, <2>3, Zenon
<1>4. c = [k \in 1 .. n |-> c[k]] /\ DOMAIN c = 1 .. n
  BY DEF Chunked
<1> HIDE DEF at
<1> DEFINE End(k) == IF k < n THEN at[k] ELSE l
<1>5. ASSUME NEW k \in 1 .. n
      PROVE  /\ End(k) \in Nat /\ at[k - 1] \in Nat /\ at[k - 1] < End(k) /\ End(k) <= l
             /\ Min({at[k], l}) = End(k)
  <2>1. k \in Nat /\ k - 1 \in Nat /\ k - 1 + 1 = k /\ k - 1 < n /\ (k < n \/ k = n)
    OBVIOUS
  <2>2. at[k] \in Nat /\ at[k - 1] \in Nat /\ at[k] = at[k - 1] + span
        /\ at[k - 1] + span <= at[n] /\ (k < n => at[k] + span <= at[n]) /\ at[n] \in Nat
    BY <1>2, <1>2a, <1>2b, <2>1
  <2>3. Min({at[k], l}) = IF at[k] <= l THEN at[k] ELSE l
    <3>1. at[k] \in Int /\ l \in Int
      BY <1>1, <2>2
    <3> HIDE DEF l
    <3> QED BY <3>1, MinOfTwo, Zenon
  <2>4. k = n => at[k] = at[n]
    OBVIOUS
  <2> QED BY <1>1, <2>1, <2>2, <2>3, <2>4
<1>6. ASSUME NEW k \in 1 .. n
      PROVE  /\ c[k] \in Seq(T) /\ Len(c[k]) = End(k) - at[k - 1]
             /\ \A i \in 1 .. Len(c[k]) : c[k][i] = s[at[k - 1] + i]
  <2> DEFINE a == at[k - 1]  b == End(k)
  <2>1. a \in Nat /\ b \in Nat /\ b <= l /\ a < b /\ c[k] = SubSeq(s, a + 1, b)
    BY <1>3, <1>5
  <2> HIDE DEF a, b
  <2>2. a + 1 \in 1 .. l + 1 /\ b \in 0 .. l
    BY <1>1, <2>1
  <2>3. Len(c[k]) = b - a
    <3>1. Len(c[k]) = IF a + 1 <= b THEN b - (a + 1) + 1 ELSE 0
      BY <2>1
    <3> QED BY <2>1, <3>1
  <2>4. c[k] \in Seq(T)
    BY <2>1, <2>2
  <2>5. \A i \in 1 .. b - a : c[k][i] = s[a + i]
    <3>1. ASSUME NEW i \in 1 .. b - a PROVE c[k][i] = s[a + i]
      <4>1. c[k][i] = s[(a + 1) + i - 1] /\ (a + 1) + i - 1 = a + i
        BY <2>1, <2>2
      <4> QED BY <4>1
    <3> QED BY <3>1
  <2> QED BY <2>3, <2>4, <2>5 DEF a, b
<1> HIDE DEF End
<1>7. c \in Seq(Seq(T)) /\ Len(c) = n
  <2>1. \A k \in 1 .. n : c[k] \in Seq(T)
    BY <1>6
  <2>2. [k \in 1 .. n |-> c[k]] \in Seq(Seq(T)) /\ Len([k \in 1 .. n |-> c[k]]) = n
    BY <2>1
  <2> QED BY <1>4, <2>2, Zenon
<1>8. PICK b : /\ Bases(c, b)
               /\ b[n] = Len(FlattenSeq(c))
               /\ \A h \in 1 .. n : \A k \in 1 .. Len(c[h]) :
                    FlattenSeq(c)[b[h - 1] + k] = c[h][k]
  <2>1. \E b : /\ Bases(c, b)
               /\ b[Len(c)] = Len(FlattenSeq(c))
               /\ \A h \in 1 .. Len(c) : \A k \in 1 .. Len(c[h]) :
                    FlattenSeq(c)[b[h - 1] + k] = c[h][k]
    BY <1>7, Flattened
  <2> QED BY <1>7, <2>1, Zenon
<1>9. FlattenSeq(c) \in Seq(T)
  BY <1>7, Flattened
<1> DEFINE f == FlattenSeq(c)
<1>10. /\ b[0] = 0 /\ \A h \in 1 .. n : b[h] = b[h - 1] + Len(c[h])
       /\ b[n] = Len(f) /\ f \in Seq(T)
       /\ \A h \in 1 .. n : \A k \in 1 .. Len(c[h]) : f[b[h - 1] + k] = c[h][k]
  <2>1. b[0] = 0 /\ \A h \in 1 .. n : b[h] = b[h - 1] + Len(c[h])
    BY <1>7, <1>8, Zenon DEF Bases
  <2> QED BY <1>8, <1>9, <2>1, Zenon
<1> HIDE DEF f
<1>11. \A h \in Nat : h < n => b[h] = at[h]
  <2> DEFINE S == {h \in Nat : h < n => b[h] = at[h]}
  <2>1. 0 \in S
    BY <1>2, <1>10
  <2>2. ASSUME NEW h \in Nat, h \in S PROVE h + 1 \in S
    <3> SUFFICES ASSUME h + 1 < n PROVE b[h + 1] = at[h + 1]
      OBVIOUS
    <3>1. h + 1 \in 1 .. n /\ h + 1 - 1 = h /\ h < n
      OBVIOUS
    <3>2. b[h + 1] = b[h] + Len(c[h + 1])
      BY <1>10, <3>1
    <3>3. Len(c[h + 1]) = End(h + 1) - at[h]
      BY <1>6, <3>1
    <3>4. End(h + 1) = at[h + 1] /\ at[h + 1] \in Nat /\ at[h] \in Nat
      BY <1>2, <3>1 DEF End
    <3>5. b[h] = at[h]
      BY <2>2, <3>1
    <3> QED BY <3>2, <3>3, <3>4, <3>5
  <2> HIDE DEF S
  <2>3. \A h \in Nat : h \in S
    BY <2>1, <2>2, SetInduction
  <2> QED BY <2>3 DEF S
<1>12. Len(f) = l
  <2>1. CASE n = 0
    <3>1. l <= 0 /\ b[n] = 0
      BY <1>1, <1>2, <1>10, <2>1, Zenon
    <3> QED BY <1>1, <1>10, <3>1
  <2>2. CASE n # 0
    <3>1. n \in 1 .. n /\ n - 1 \in Nat /\ n - 1 < n
      BY <2>2
    <3>2. b[n] = b[n - 1] + Len(c[n])
      BY <1>10, <3>1
    <3>3. b[n - 1] = at[n - 1] /\ at[n - 1] \in Nat
      BY <1>2, <1>11, <3>1
    <3>4. Len(c[n]) = l - at[n - 1]
      BY <1>6, <3>1 DEF End
    <3> QED BY <1>1, <1>10, <3>2, <3>3, <3>4
  <2> QED BY <2>1, <2>2
<1>13. ASSUME NEW x \in 1 .. l PROVE f[x] = s[x]
  <2> DEFINE q == (x - 1) \div span  r == (x - 1) % span
  <2>1. q \in Nat /\ r \in 0 .. span - 1 /\ x = at[q] + r + 1
    <3>1. q \in Nat /\ r \in 0 .. span - 1 /\ x - 1 = span * q + r
      BY <1>1
    <3>2. at[q] = span * q /\ span * q \in Nat
      BY <3>1 DEF at
    <3> QED BY <3>1, <3>2
  <2> HIDE DEF q, r
  <2>2. q < n
    <3>1. CASE n = q
      BY <1>1, <1>2, <2>1, <3>1
    <3>2. CASE n < q
      <4>1. at[n] + span <= at[q] /\ at[n] \in Nat /\ at[q] \in Nat
        BY <1>2, <1>2b, <2>1, <3>2
      <4> QED BY <1>1, <2>1, <4>1
    <3> QED BY <2>1, <3>1, <3>2
  <2> DEFINE k == q + 1
  <2>3. k \in 1 .. n /\ k - 1 = q /\ (k < n \/ k = n)
    BY <2>1, <2>2
  <2>4. at[q] \in Nat /\ at[k] = at[q] + span /\ b[q] = at[q]
    BY <1>2, <1>2a, <1>11, <2>1, <2>2
  <2> HIDE DEF k
  <2>5. r + 1 \in 1 .. Len(c[k])
    <3>1. Len(c[k]) = End(k) - at[q]
      BY <1>6, <2>3
    <3>2. End(k) = IF k < n THEN at[q] + span ELSE l
      BY <2>4 DEF End
    <3> QED BY <1>1, <2>1, <2>4, <3>1, <3>2
  <2>6. f[b[q] + (r + 1)] = c[k][r + 1]
    <3>1. f[b[k - 1] + (r + 1)] = c[k][r + 1]
      BY <1>10, <2>3, <2>5
    <3> QED BY <2>3, <3>1
  <2>7. c[k][r + 1] = s[at[q] + (r + 1)]
    <3>1. c[k][r + 1] = s[at[k - 1] + (r + 1)]
      BY <1>6, <2>3, <2>5
    <3> QED BY <2>3, <3>1
  <2>8. at[q] + (r + 1) = x
    BY <2>1, <2>4
  <2> QED BY <2>4, <2>6, <2>7, <2>8
<1>14. f = s
  <2>1. \A x \in 1 .. l : f[x] = s[x]
    BY <1>13
  <2> QED BY <1>10, <1>12, <2>1
<1> QED BY <1>14 DEF f

\* The messages on the channel of a device of n objects.
ObjectMsg == [kind : {"object"}, object_id : Nat, generation : Nat, payload : Value]

Leaf ==
  [kind : {"leaf"}, device_uuid : Nat, generation : Nat, leaf_index : Nat,
   objects : Seq(ObjectEntry)]

Root(n) ==
  {r \in [kind : {"root"}, device_uuid : Nat, generation : Nat, object_count : {n},
          garbage : SUBSET Nat, leaves : Seq([leaf_index : Nat, message_id : Nat])] :
     \A k \in DOMAIN r.leaves : r.leaves[k].leaf_index = k - 1}

ManifestMsg(n) == [kind : {"manifest"}, generation : Nat, body : ManifestsOf(n)]

Ref == [message_id : Nat, generation : Nat]

Superblock ==
  [kind : {"superblock"}, device_uuid : Nat, encoding : {"tree", "flat_json"}, current : Ref,
   previous : Ref \cup {None}]

Message(n) == ObjectMsg \cup Leaf \cup Root(n) \cup ManifestMsg(n) \cup Superblock

\* A message is what its kind says.
LEMMA Kinds ==
  ASSUME NEW n, NEW x \in Message(n)
  PROVE  /\ x.kind = "leaf" => x \in Leaf
         /\ x.kind = "root" => x \in Root(n)
         /\ x.kind = "manifest" => x \in ManifestMsg(n)
         /\ x.kind = "superblock" <=> x \in Superblock
         /\ x.kind \in {"object", "leaf", "root", "manifest", "superblock"}
<1>1. x \in ObjectMsg => x.kind = "object"
  BY DEF ObjectMsg
<1>2. x \in Leaf => x.kind = "leaf"
  BY DEF Leaf
<1>3. x \in Root(n) => x.kind = "root"
  BY DEF Root
<1>4. x \in ManifestMsg(n) => x.kind = "manifest"
  BY DEF ManifestMsg
<1>5. x \in Superblock => x.kind = "superblock"
  BY DEF Superblock
<1> QED BY <1>1, <1>2, <1>3, <1>4, <1>5 DEF Message

\* The leaves of a manifest, and their objects one after the other.
LEMMA LeavesOf ==
  ASSUME NEW n \in Nat, NEW m \in ManifestsOf(n)
  PROVE  /\ tree_leaves(m) \in Seq(Leaf)
         /\ \A k \in 1 .. Len(tree_leaves(m)) :
              /\ tree_leaves(m)[k].leaf_index = k - 1
              /\ tree_leaves(m)[k].device_uuid = m.device_uuid
              /\ tree_leaves(m)[k].generation = m.generation
         /\ FlattenSeq([k \in 1 .. Len(tree_leaves(m)) |-> tree_leaves(m)[k].objects]) = m.objects
         /\ n > 0 => Len(tree_leaves(m)) > 0
<1> DEFINE span == MANIFEST_TREE_LEAF_SPAN
           l == Len(m.objects)
           count == (l + span - 1) \div span
           Chunk(k) == SubSeq(m.objects, (k - 1) * span + 1, Min({k * span, l}))
           c == [k \in 1 .. count |-> Chunk(k)]
           leaf(k) == [kind |-> "leaf", device_uuid |-> m.device_uuid, generation |-> m.generation,
                       leaf_index |-> k - 1, objects |-> Chunk(k)]
           t == tree_leaves(m)
<1>1. /\ span \in Nat \ {0} /\ l = n /\ m.objects \in Seq(ObjectEntry)
      /\ m.device_uuid \in Nat /\ m.generation \in Nat
  BY TreeAssumption DEF ManifestsOf, Manifest, ObjectEntry
<1>2. count \in Nat /\ (n > 0 => count > 0)
  <2>1. l \in Nat
    BY <1>1
  <2>2. count \in Nat /\ l <= span * count
    BY <1>1, <2>1, ChunkCount
  <2>3. count = 0 => span * count = 0
    BY <1>1
  <2> HIDE DEF count, span, l
  <2> QED BY <1>1, <2>2, <2>3
<1>3. t = [k \in 1 .. count |-> leaf(k)]
  BY Zenon DEF tree_leaves
<1> HIDE DEF t
<1>4. ASSUME NEW k \in 1 .. count PROVE Chunk(k) \in Seq(ObjectEntry)
  <2>1. (k - 1) * span \in Nat /\ k * span \in Nat
    BY <1>1, <1>2
  <2> DEFINE a == (k - 1) * span  b == Min({k * span, l})
  <2>2. a \in Nat /\ b \in Nat /\ b <= l
    <3>1. b = IF k * span <= l THEN k * span ELSE l
      BY <1>1, <2>1, MinOfTwo
    <3> QED BY <1>1, <2>1, <3>1
  <2> HIDE DEF a, b, l
  <2>3. SubSeq(m.objects, a + 1, b) \in Seq(ObjectEntry)
    BY <1>1, <2>2 DEF l
  <2> QED BY <2>3 DEF a, b, l
<1>5. FlattenSeq(c) = m.objects
  <2> HIDE DEF c
  <2>1. c = [k \in 1 .. count |-> SubSeq(m.objects, (k - 1) * span + 1,
                                         Min({k * span, Len(m.objects)}))]
    BY Zenon DEF c
  <2>2. count = (Len(m.objects) + span - 1) \div span
    OBVIOUS
  <2>3. m.objects \in Seq(ObjectEntry) /\ span \in Nat \ {0} /\ count \in Nat
    BY <1>1, <1>2
  <2> HIDE DEF count, span, l, Chunk
  <2>4. Chunked(m.objects, span, count, c)
    BY <2>1, <2>2, Zenon DEF Chunked
  <2> QED BY <2>3, <2>4, ChunksFlat, Zenon
<1> HIDE DEF count, Chunk, l, span
<1>6. ASSUME NEW k \in 1 .. count PROVE leaf(k) \in Leaf
  <2>1. k - 1 \in Nat
    BY <1>2
  <2> QED BY <1>1, <1>4, <2>1 DEF Leaf
<1>7. t \in Seq(Leaf) /\ Len(t) = count /\ \A k \in 1 .. count : t[k] = leaf(k)
  <2> HIDE DEF leaf
  <2>1. t \in Seq(Leaf) /\ Len(t) = count
    BY <1>2, <1>3, <1>6
  <2> QED BY <1>3, <2>1
<1>8. [k \in 1 .. Len(t) |-> t[k].objects] = c
  <2>1. \A k \in 1 .. count : t[k].objects = Chunk(k)
    BY <1>7
  <2> HIDE DEF leaf
  <2> QED BY <1>7, <2>1
<1>9. \A k \in 1 .. count : /\ t[k].leaf_index = k - 1 /\ t[k].device_uuid = m.device_uuid
                            /\ t[k].generation = m.generation
  BY <1>7
<1> HIDE DEF c, leaf
<1> QED BY <1>1, <1>2, <1>5, <1>7, <1>8, <1>9 DEF t

\* A manifest is its four fields.
LEMMA ManifestFields ==
  ASSUME NEW n, NEW m \in ManifestsOf(n)
  PROVE  m = [device_uuid |-> m.device_uuid, generation |-> m.generation,
              objects |-> m.objects, garbage |-> m.garbage]
BY DEF ManifestsOf, Manifest

\* A manifest tree that was sent is read back as the manifest it was made of, for every size
\* of the device and every span of the leaves: fetch_manifest_tree sorts and joins the leaves
\* that upload_manifest_tree cut, in whatever order the root lists them.
THEOREM TreeReadsBack ==
  ASSUME NEW n \in Nat, NEW m \in ManifestsOf(n), NEW ms, NEW first \in Nat,
         \A k \in 1 .. Len(tree_leaves(m)) :
           first + k - 1 \in DOMAIN ms /\ ms[first + k - 1] = tree_leaves(m)[k]
  PROVE  FetchTree(ms, TreeRoot(m, first)) = m
<1> DEFINE t == tree_leaves(m)
           r == TreeRoot(m, first)
           got == [k \in DOMAIN r.leaves |-> ms[r.leaves[k].message_id]]
<1>1. /\ t \in Seq(Leaf) /\ Len(t) \in Nat /\ DOMAIN t = 1 .. Len(t)
      /\ \A k \in 1 .. Len(t) :
           /\ t[k].leaf_index = k - 1 /\ t[k].device_uuid = m.device_uuid
           /\ t[k].generation = m.generation
  <2>1. t \in Seq(Leaf)
    BY LeavesOf
  <2>2. \A k \in 1 .. Len(t) :
           /\ t[k].leaf_index = k - 1 /\ t[k].device_uuid = m.device_uuid
           /\ t[k].generation = m.generation
    BY LeavesOf
  <2> HIDE DEF t
  <2> QED BY <2>1, <2>2
<1>1a. FlattenSeq([k \in 1 .. Len(t) |-> t[k].objects]) = m.objects
  BY LeavesOf
<1>2. /\ r.device_uuid = m.device_uuid /\ r.generation = m.generation
      /\ r.object_count = Len(m.objects) /\ r.garbage = m.garbage
      /\ r.leaves = [k \in DOMAIN t |-> [leaf_index |-> k - 1, message_id |-> first + k - 1]]
  BY DEF TreeRoot
<1> HIDE DEF t, r
<1>3. /\ DOMAIN r.leaves = 1 .. Len(t)
      /\ \A k \in 1 .. Len(t) : r.leaves[k].leaf_index = k - 1
                                /\ r.leaves[k].message_id = first + k - 1
  BY <1>1, <1>2
<1>4. \A k \in 1 .. Len(t) : first + k - 1 \in DOMAIN ms /\ ms[first + k - 1] = t[k]
  BY DEF t
<1>5. LeavesThere(ms, r)
  <2>1. \A k \in 1 .. Len(t) : t[k].kind = "leaf"
    <3>1. \A k \in 1 .. Len(t) : t[k] \in Leaf
      BY <1>1
    <3> QED BY <3>1 DEF Leaf
  <2> QED BY <1>1, <1>2, <1>3, <1>4, <2>1 DEF LeavesThere
<1>6. got = t
  <2>1. got = [k \in 1 .. Len(t) |-> t[k]]
    BY <1>3, <1>4
  <2>2. t = [k \in 1 .. Len(t) |-> t[k]]
    BY <1>1
  <2> QED BY <2>1, <2>2
<1> HIDE DEF got
<1>7. SortedLeaves(t) = t
  BY <1>1, SortedIs
<1>8. Len(m.objects) = n /\ \A k \in DOMAIN m.objects : m.objects[k].object_id = k - 1
  BY DEF ManifestsOf
<1>9. from_tree_root_and_leaves(r, t) =
        [device_uuid |-> r.device_uuid, generation |-> r.generation,
         objects |-> m.objects, garbage |-> r.garbage]
  <2>1. FlattenSeq([k \in DOMAIN t |-> t[k].objects]) = m.objects
    BY <1>1, <1>1a, Zenon
  <2>2. \A k \in DOMAIN t : /\ t[k].device_uuid = r.device_uuid
                            /\ t[k].generation = r.generation
                            /\ t[k].leaf_index = k - 1
    BY <1>1, <1>2
  <2> DEFINE f == FlattenSeq([k \in DOMAIN t |-> t[k].objects])
  <2>3. from_tree_root_and_leaves(r, t) =
          IF /\ \A k \in DOMAIN t : /\ t[k].device_uuid = r.device_uuid
                                    /\ t[k].generation = r.generation
                                    /\ t[k].leaf_index = k - 1
             /\ Len(f) = r.object_count
             /\ \A k \in DOMAIN f : f[k].object_id = k - 1
          THEN [device_uuid |-> r.device_uuid, generation |-> r.generation,
                objects |-> f, garbage |-> r.garbage]
          ELSE None
    BY <1>7, Zenon DEF from_tree_root_and_leaves
  <2>4. f = m.objects
    BY <2>1
  <2> HIDE DEF f
  <2> QED BY <1>2, <1>8, <2>2, <2>3, <2>4
<1>10. FetchTree(ms, r) = from_tree_root_and_leaves(r, t)
  BY <1>5, <1>6 DEF FetchTree, got
<1>11. FetchTree(ms, r) = m
  <2>1. from_tree_root_and_leaves(r, t) =
        [device_uuid |-> m.device_uuid, generation |-> m.generation,
         objects |-> m.objects, garbage |-> m.garbage]
    BY <1>2, <1>9, Zenon
  <2> QED BY <1>10, <2>1, ManifestFields, Zenon
<1> QED BY <1>11 DEF r

\* What a tree is read as has the device's size, whatever was sent.
LEMMA FetchTreeType ==
  ASSUME NEW n \in Nat, NEW ms, \A i \in DOMAIN ms : ms[i] \in Message(n), NEW r \in Root(n)
  PROVE  FetchTree(ms, r) \in ManifestsOf(n) \cup {None}
<1> DEFINE got == [k \in DOMAIN r.leaves |-> ms[r.leaves[k].message_id]]
<1> SUFFICES ASSUME LeavesThere(ms, r)
             PROVE  from_tree_root_and_leaves(r, got) \in ManifestsOf(n) \cup {None}
  BY DEF FetchTree
<1>1. /\ r.leaves \in Seq([leaf_index : Nat, message_id : Nat])
      /\ Len(r.leaves) \in Nat /\ DOMAIN r.leaves = 1 .. Len(r.leaves)
      /\ \A k \in DOMAIN r.leaves : r.leaves[k].leaf_index = k - 1
      /\ r.device_uuid \in Nat /\ r.generation \in Nat /\ r.object_count = n
      /\ r.garbage \in SUBSET Nat
  BY DEF Root
<1>2. \A k \in 1 .. Len(r.leaves) : got[k] \in Leaf /\ got[k].leaf_index = k - 1
  <2>1. ASSUME NEW k \in 1 .. Len(r.leaves)
        PROVE  ms[r.leaves[k].message_id] \in Leaf /\ ms[r.leaves[k].message_id].leaf_index = k - 1
    BY <1>1, Kinds DEF LeavesThere
  <2> QED BY <1>1, <2>1
<1>3. got \in Seq(Leaf) /\ DOMAIN got = 1 .. Len(r.leaves)
  <2>1. got = [k \in 1 .. Len(r.leaves) |-> got[k]] /\ DOMAIN got = 1 .. Len(r.leaves)
    BY <1>1
  <2> HIDE DEF got
  <2>2. [k \in 1 .. Len(r.leaves) |-> got[k]] \in Seq(Leaf)
    BY <1>1, <1>2
  <2> QED BY <2>1, <2>2
<1> HIDE DEF got
<1>4. SortedLeaves(got) = got
  BY <1>2, <1>3, SortedIs
<1> DEFINE parts == [k \in DOMAIN got |-> got[k].objects]
<1>5. parts \in Seq(Seq(ObjectEntry))
  <2>1. \A k \in 1 .. Len(r.leaves) : got[k].objects \in Seq(ObjectEntry)
    BY <1>2 DEF Leaf
  <2> QED BY <1>1, <1>3, <2>1
<1> DEFINE f == FlattenSeq(parts)
<1>6. f \in Seq(ObjectEntry)
  <2> HIDE DEF parts
  <2> QED BY <1>5, Flattened
<1>7. from_tree_root_and_leaves(r, got) =
        IF /\ \A k \in DOMAIN got : /\ got[k].device_uuid = r.device_uuid
                                    /\ got[k].generation = r.generation
                                    /\ got[k].leaf_index = k - 1
           /\ Len(f) = r.object_count
           /\ \A k \in DOMAIN f : f[k].object_id = k - 1
        THEN [device_uuid |-> r.device_uuid, generation |-> r.generation,
              objects |-> f, garbage |-> r.garbage]
        ELSE None
  BY <1>4, Zenon DEF from_tree_root_and_leaves
<1> HIDE DEF f, parts
<1>8. ASSUME Len(f) = n, \A k \in DOMAIN f : f[k].object_id = k - 1
      PROVE  [device_uuid |-> r.device_uuid, generation |-> r.generation,
              objects |-> f, garbage |-> r.garbage] \in ManifestsOf(n)
  BY <1>1, <1>6, <1>8 DEF ManifestsOf, Manifest, ObjectEntry
<1> QED BY <1>1, <1>7, <1>8

\* A manifest that is fetched is one of the device, or none.
LEMMA FetchManifestType ==
  ASSUME NEW n \in Nat, NEW ms, \A i \in DOMAIN ms : ms[i] \in Message(n),
         NEW encoding, NEW ref
  PROVE  FetchManifest(ms, encoding, ref) \in ManifestsOf(n) \cup {None}
<1> DEFINE x == ms[ref.message_id]
<1> SUFFICES ASSUME ref.message_id \in DOMAIN ms,
                    x.kind = (IF encoding = "tree" THEN "root" ELSE "manifest")
             PROVE  (IF encoding = "tree" THEN FetchTree(ms, x) ELSE x.body)
                      \in ManifestsOf(n) \cup {None}
  BY Zenon DEF FetchManifest
<1>1. x \in Message(n)
  OBVIOUS
<1>2. CASE encoding = "tree"
  <2> HIDE DEF x
  <2>1. x \in Root(n)
    BY <1>1, <1>2, Kinds
  <2> QED BY <1>2, <2>1, FetchTreeType
<1>3. CASE encoding # "tree"
  <2> HIDE DEF x
  <2>1. x \in ManifestMsg(n)
    BY <1>1, <1>3, Kinds
  <2>2. x.body \in ManifestsOf(n)
    BY <2>1 DEF ManifestMsg
  <2> QED BY <1>3, <2>2
<1> QED BY <1>2, <1>3

\* ms2 has every message of ms but perhaps some objects.
Keeps(ms, ms2) ==
  \A i \in DOMAIN ms : ms[i].kind # "object" => i \in DOMAIN ms2 /\ ms2[i] = ms[i]

\* A manifest that could be fetched still can, whatever is sent and whatever objects
\* are deleted.
LEMMA FetchStable ==
  ASSUME NEW ms, NEW ms2, Keeps(ms, ms2), NEW encoding, NEW ref,
         FetchManifest(ms, encoding, ref) # None
  PROVE  FetchManifest(ms2, encoding, ref) = FetchManifest(ms, encoding, ref)
<1> DEFINE x == ms[ref.message_id]
<1>1. /\ ref.message_id \in DOMAIN ms
      /\ x.kind = (IF encoding = "tree" THEN "root" ELSE "manifest")
      /\ x.generation = ref.generation
      /\ FetchManifest(ms, encoding, ref) = IF encoding = "tree" THEN FetchTree(ms, x) ELSE x.body
  BY Zenon DEF FetchManifest
<1>2. ref.message_id \in DOMAIN ms2 /\ ms2[ref.message_id] = x
  BY <1>1 DEF Keeps
<1>3. FetchManifest(ms2, encoding, ref) = IF encoding = "tree" THEN FetchTree(ms2, x) ELSE x.body
  BY <1>1, <1>2 DEF FetchManifest
<1> HIDE DEF x
<1>4. ASSUME encoding = "tree" PROVE FetchTree(ms2, x) = FetchTree(ms, x)
  <2>1. LeavesThere(ms, x)
    BY <1>1, <1>4 DEF FetchTree
  <2>2. \A k \in DOMAIN x.leaves :
          /\ x.leaves[k].message_id \in DOMAIN ms2
          /\ ms2[x.leaves[k].message_id] = ms[x.leaves[k].message_id]
    BY <2>1 DEF LeavesThere, Keeps
  <2>3. LeavesThere(ms2, x)
    BY <2>1, <2>2 DEF LeavesThere
  <2>4. [k \in DOMAIN x.leaves |-> ms2[x.leaves[k].message_id]] =
        [k \in DOMAIN x.leaves |-> ms[x.leaves[k].message_id]]
    BY <2>2
  <2> QED BY <2>1, <2>3, <2>4, Zenon DEF FetchTree
<1> QED BY <1>1, <1>3, <1>4

-----------------------------------------------------------------------------
(* Superblocks *)

\* The manifest that superblock i names.
Named(ms, i) == FetchManifest(ms, ms[i].encoding, ms[i].current)

\* The highest generation published.
Newest(ms) ==
  IF RecoverSuperblock(ms) = 0 THEN 0 ELSE Generation(ms, RecoverSuperblock(ms))

\* The messages ms of a device of n objects, the newest of which is l.
ChannelType(n, l, ms) ==
  /\ l \in Nat /\ DOMAIN ms \subseteq 1 .. l
  /\ \A i \in DOMAIN ms : ms[i] \in Message(n)

Beats(ms, i, j) ==
  \/ Generation(ms, j) < Generation(ms, i)
  \/ Generation(ms, j) = Generation(ms, i) /\ j <= i

\* A superblock is one of the messages that were sent.
LEMMA SuperblockType ==
  ASSUME NEW n, NEW l, NEW ms, ChannelType(n, l, ms), NEW i \in Superblocks(ms)
  PROVE  i \in 1 .. l /\ i \in DOMAIN ms /\ ms[i] \in Superblock /\ Generation(ms, i) \in Nat
<1>1. i \in DOMAIN ms /\ ms[i].kind = "superblock"
  BY DEF Superblocks
<1>2. ms[i] \in Superblock
  BY <1>1, Kinds DEF ChannelType
<1> QED BY <1>1, <1>2 DEF ChannelType, Superblock, Ref, Generation

\* The scan finds the superblock that beats the others, when there is any.
LEMMA RecoverSuperblockIs ==
  ASSUME NEW n, NEW l, NEW ms, ChannelType(n, l, ms)
  PROVE  /\ Superblocks(ms) = {} <=> RecoverSuperblock(ms) = 0
         /\ Superblocks(ms) # {} =>
              /\ RecoverSuperblock(ms) \in Superblocks(ms)
              /\ \A j \in Superblocks(ms) : Beats(ms, RecoverSuperblock(ms), j)
<1> DEFINE S == Superblocks(ms)
           f == [i \in S |-> Generation(ms, i)]
<1>1. \A i \in S : i \in 1 .. l /\ Generation(ms, i) \in Nat
  BY SuperblockType
<1>2. l \in Nat /\ S \subseteq 1 .. l
  BY <1>1 DEF ChannelType
<1>3. \A T \in SUBSET S : IsFiniteSet(T) /\ T \subseteq Int
  <2> SUFFICES ASSUME NEW T \in SUBSET S PROVE IsFiniteSet(T) /\ T \subseteq Int
    OBVIOUS
  <2> HIDE DEF S
  <2>1. IsFiniteSet(1 .. l)
    BY <1>2, FS_Interval
  <2>2. T \in SUBSET (1 .. l)
    BY <1>2
  <2>3. IsFiniteSet(T)
    BY <2>1, <2>2, FS_Subset
  <2> QED BY <2>2, <2>3
<1>4. ASSUME S # {} PROVE \E i \in S : \A j \in S : Beats(ms, i, j)
  <2>1. f \in [S -> Int] /\ IsFiniteSet(S)
    BY <1>1, <1>3
  <2>2. PICK x \in S : \A y \in S : f[y] <= f[x]
    <3> HIDE DEF f, S
    <3> QED BY <1>4, <2>1, ArgMax
  <2> DEFINE T == {i \in S : Generation(ms, i) = Generation(ms, x)}
  <2>3. T \in SUBSET S /\ T # {}
    BY <2>2
  <2> HIDE DEF T, S
  <2>4. Max(T) \in T /\ \A y \in T : y <= Max(T)
    BY <1>3, <2>3, MaxIsLargest
  <2>5. ASSUME NEW j \in S PROVE Beats(ms, Max(T), j)
    <3>1. Generation(ms, Max(T)) = Generation(ms, x) /\ Max(T) \in S
      BY <2>4 DEF T
    <3>2. Generation(ms, j) <= Generation(ms, x)
      BY <2>2
    <3>3. Generation(ms, j) = Generation(ms, x) => j <= Max(T)
      BY <2>4 DEF T
    <3>4. Generation(ms, j) \in Nat /\ Generation(ms, x) \in Nat
      BY <1>1 DEF S
    <3> QED BY <3>1, <3>2, <3>3, <3>4 DEF Beats
  <2> QED BY <2>4, <2>5 DEF T
<1>5. ASSUME S # {}
      PROVE  RecoverSuperblock(ms) \in S /\ \A j \in S : Beats(ms, RecoverSuperblock(ms), j)
  <2>1. RecoverSuperblock(ms) = CHOOSE i \in S : \A j \in S : Beats(ms, i, j)
    BY <1>5, Zenon DEF RecoverSuperblock, Beats
  <2> HIDE DEF S
  <2> QED BY <1>4, <1>5, <2>1
<1>6. S = {} => RecoverSuperblock(ms) = 0
  BY DEF RecoverSuperblock
<1>7. 0 \notin S
  BY <1>2
<1> QED BY <1>5, <1>6, <1>7

\* The scan finds the superblock that beats all others.
LEMMA RecoverSuperblockUnique ==
  ASSUME NEW n, NEW l, NEW ms, ChannelType(n, l, ms),
         NEW i \in Superblocks(ms), \A j \in Superblocks(ms) : Beats(ms, i, j)
  PROVE  RecoverSuperblock(ms) = i
<1> DEFINE r == RecoverSuperblock(ms)
<1>1. r \in Superblocks(ms) /\ \A j \in Superblocks(ms) : Beats(ms, r, j)
  BY RecoverSuperblockIs
<1> HIDE DEF r
<1>2. Beats(ms, r, i) /\ Beats(ms, i, r)
  BY <1>1
<1>3. r \in Nat /\ i \in Nat /\ Generation(ms, r) \in Nat /\ Generation(ms, i) \in Nat
  <2>1. r \in 1 .. l /\ i \in 1 .. l /\ l \in Nat
    BY <1>1, SuperblockType DEF ChannelType
  <2> QED BY <1>1, <2>1, SuperblockType
<1>4. r = i
  BY <1>2, <1>3 DEF Beats
<1> QED BY <1>4 DEF r

\* What is recovered when the superblock in force can be.
LEMMA RecoverManifestIs ==
  ASSUME NEW ms, RecoverSuperblock(ms) # 0, Named(ms, RecoverSuperblock(ms)) # None,
         Named(ms, RecoverSuperblock(ms)).device_uuid = ms[RecoverSuperblock(ms)].device_uuid
  PROVE  RecoverManifest(ms) = Named(ms, RecoverSuperblock(ms))
BY Zenon DEF RecoverManifest, Named

\* What a recovery finds is a manifest, of the device of the superblock in force.
LEMMA RecoverManifestType ==
  ASSUME NEW n \in Nat, NEW l, NEW ms, ChannelType(n, l, ms)
  PROVE  /\ RecoverManifest(ms) \in ManifestsOf(n) \cup {None}
         /\ RecoverManifest(ms) # None =>
              /\ RecoverSuperblock(ms) # 0
              /\ RecoverManifest(ms).device_uuid = ms[RecoverSuperblock(ms)].device_uuid
<1> DEFINE i == RecoverSuperblock(ms)
           sb == ms[i]
           current == FetchManifest(ms, sb.encoding, sb.current)
           m == IF current = None /\ sb.previous # None
                THEN FetchManifest(ms, sb.encoding, sb.previous)
                ELSE current
<1>1. RecoverManifest(ms) = IF i = 0 \/ m = None THEN None
                            ELSE IF m.device_uuid = sb.device_uuid THEN m ELSE None
  BY Zenon DEF RecoverManifest
<1>2. m \in ManifestsOf(n) \cup {None}
  BY FetchManifestType DEF ChannelType
<1> HIDE DEF m, sb
<1>3. /\ RecoverManifest(ms) \in ManifestsOf(n) \cup {None}
      /\ RecoverManifest(ms) # None => i # 0 /\ RecoverManifest(ms).device_uuid = sb.device_uuid
  BY <1>1, <1>2
<1> QED BY <1>3 DEF sb

\* Sending and deleting what is no superblock changes nothing about those there are.
LEMMA SameSuperblocks ==
  ASSUME NEW n, NEW l, NEW ms, ChannelType(n, l, ms), NEW k, NEW ms2, ChannelType(n, k, ms2),
         Keeps(ms, ms2), Superblocks(ms2) = Superblocks(ms)
  PROVE  /\ RecoverSuperblock(ms2) = RecoverSuperblock(ms)
         /\ Newest(ms2) = Newest(ms)
         /\ \A i \in Superblocks(ms) :
              ms2[i] = ms[i] /\ (Named(ms, i) # None => Named(ms2, i) = Named(ms, i))
<1>1. ASSUME NEW i \in Superblocks(ms)
      PROVE  ms2[i] = ms[i] /\ (Named(ms, i) # None => Named(ms2, i) = Named(ms, i))
  <2>1. ms2[i] = ms[i]
    BY DEF Keeps, Superblocks
  <2>2. Named(ms, i) # None => Named(ms2, i) = Named(ms, i)
    BY <2>1, FetchStable DEF Named
  <2> QED BY <2>1, <2>2
<1>2. RecoverSuperblock(ms2) = RecoverSuperblock(ms)
  <2>1. CASE Superblocks(ms) = {}
    BY <2>1, RecoverSuperblockIs
  <2>2. CASE Superblocks(ms) # {}
    <3> DEFINE r == RecoverSuperblock(ms)
    <3>1. r \in Superblocks(ms) /\ \A j \in Superblocks(ms) : Beats(ms, r, j)
      BY <2>2, RecoverSuperblockIs
    <3> HIDE DEF r
    <3>2. \A j \in Superblocks(ms2) : Beats(ms2, r, j)
      BY <1>1, <3>1 DEF Beats, Generation
    <3>3. RecoverSuperblock(ms2) = r
      BY <3>1, <3>2, RecoverSuperblockUnique
    <3> QED BY <3>3 DEF r
  <2> QED BY <2>1, <2>2
<1>3. Newest(ms2) = Newest(ms)
  <2>1. RecoverSuperblock(ms) # 0 => RecoverSuperblock(ms) \in Superblocks(ms)
    BY RecoverSuperblockIs
  <2>2. RecoverSuperblock(ms) # 0 => ms2[RecoverSuperblock(ms)] = ms[RecoverSuperblock(ms)]
    BY <1>1, <2>1
  <2> QED BY <1>2, <2>2 DEF Newest, Generation
<1> QED BY <1>1, <1>2, <1>3

\* The superblock in force has the highest generation on the channel.
LEMMA NewestIs ==
  ASSUME NEW n, NEW l, NEW ms, ChannelType(n, l, ms)
  PROVE  /\ Newest(ms) \in Nat
         /\ \A i \in Superblocks(ms) : Generation(ms, i) <= Newest(ms)
         /\ RecoverSuperblock(ms) # 0 => /\ RecoverSuperblock(ms) \in Superblocks(ms)
                                         /\ Newest(ms) = Generation(ms, RecoverSuperblock(ms))
<1> DEFINE r == RecoverSuperblock(ms)
<1>1. CASE Superblocks(ms) = {}
  <2>1. r = 0
    BY <1>1, RecoverSuperblockIs
  <2> QED BY <1>1, <2>1 DEF Newest
<1>2. CASE Superblocks(ms) # {}
  <2>1. r # 0 /\ r \in Superblocks(ms) /\ \A j \in Superblocks(ms) : Beats(ms, r, j)
    BY <1>2, RecoverSuperblockIs
  <2>2. Newest(ms) = Generation(ms, r)
    BY <2>1 DEF Newest
  <2> HIDE DEF r
  <2>3. \A i \in Superblocks(ms) : Generation(ms, i) \in Nat
    BY SuperblockType
  <2>4. \A i \in Superblocks(ms) : Generation(ms, i) <= Generation(ms, r)
    BY <2>1, <2>3 DEF Beats
  <2> QED BY <2>1, <2>2, <2>3, <2>4 DEF r
<1> QED BY <1>1, <1>2

\* From ms to ms2, superblocks of manifest m were sent, which can be fetched.
Publishes(ms, l, ms2, m) ==
  LET new == Superblocks(ms2) \ Superblocks(ms)
  IN  /\ Superblocks(ms) \subseteq Superblocks(ms2) /\ new # {}
      /\ \A i \in new : /\ i > l /\ Named(ms2, i) = m
                        /\ ms2[i].device_uuid = m.device_uuid
                        /\ Generation(ms2, i) = m.generation

\* They are the ones in force unless an older one has a higher generation.
LEMMA PublishesIs ==
  ASSUME NEW n, NEW l, NEW ms, ChannelType(n, l, ms), NEW k, NEW ms2, ChannelType(n, k, ms2),
         Keeps(ms, ms2), NEW m, m.generation \in Nat, Publishes(ms, l, ms2, m)
  PROVE  /\ RecoverSuperblock(ms2) # 0
         /\ IF m.generation >= Newest(ms)
            THEN /\ RecoverSuperblock(ms2) \in Superblocks(ms2) \ Superblocks(ms)
                 /\ ms2[RecoverSuperblock(ms2)].device_uuid = m.device_uuid
                 /\ Newest(ms2) = m.generation
                 /\ Named(ms2, RecoverSuperblock(ms2)) = m
                 /\ m # None => RecoverManifest(ms2) = m
            ELSE /\ RecoverSuperblock(ms2) = RecoverSuperblock(ms)
                 /\ RecoverSuperblock(ms) # 0
                 /\ Newest(ms2) = Newest(ms)
         /\ \A i \in Superblocks(ms) :
              ms2[i] = ms[i] /\ (Named(ms, i) # None => Named(ms2, i) = Named(ms, i))
<1> DEFINE r == RecoverSuperblock(ms)
           q == RecoverSuperblock(ms2)
           new == Superblocks(ms2) \ Superblocks(ms)
<1>1. /\ Superblocks(ms) \subseteq Superblocks(ms2) /\ new # {}
      /\ \A i \in new : /\ i > l /\ Named(ms2, i) = m
                        /\ ms2[i].device_uuid = m.device_uuid
                        /\ Generation(ms2, i) = m.generation
  BY DEF Publishes
<1>2. q # 0 /\ q \in Superblocks(ms2) /\ \A j \in Superblocks(ms2) : Beats(ms2, q, j)
  BY <1>1, RecoverSuperblockIs
<1>3. ASSUME NEW i \in Superblocks(ms)
      PROVE  ms2[i] = ms[i] /\ (Named(ms, i) # None => Named(ms2, i) = Named(ms, i))
  <2>1. ms2[i] = ms[i]
    BY DEF Keeps, Superblocks
  <2>2. Named(ms, i) # None => Named(ms2, i) = Named(ms, i)
    BY <2>1, FetchStable DEF Named
  <2> QED BY <2>1, <2>2
<1>4. \A i \in Superblocks(ms) : Generation(ms2, i) = Generation(ms, i) /\ i \in 1 .. l /\ l \in Nat
  BY <1>3, SuperblockType DEF Generation, ChannelType
<1>5. /\ Newest(ms) \in Nat /\ \A i \in Superblocks(ms) : Generation(ms, i) <= Newest(ms)
      /\ r # 0 => r \in Superblocks(ms) /\ Newest(ms) = Generation(ms, r)
  BY NewestIs
<1>6. Newest(ms2) = Generation(ms2, q)
  BY <1>2 DEF Newest
<1>7. \A i \in Superblocks(ms2) : i \in Nat /\ Generation(ms2, i) \in Nat
  <2>1. k \in Nat
    BY DEF ChannelType
  <2> QED BY <2>1, SuperblockType
<1>8. PICK x : x \in new
  BY <1>1
<1> HIDE DEF r, q, new
<1>9. CASE m.generation >= Newest(ms)
  <2>1. q \in new
    <3>1. Beats(ms2, q, x) /\ Generation(ms2, x) = m.generation /\ x > l /\ x \in Superblocks(ms2)
      BY <1>1, <1>2, <1>8 DEF new
    <3>2. SUFFICES ASSUME q \in Superblocks(ms) PROVE FALSE
      BY <1>2 DEF new
    <3>3. Generation(ms2, q) <= m.generation /\ q <= l
      <4>1. /\ Generation(ms2, q) = Generation(ms, q) /\ q \in 1 .. l /\ l \in Nat
            /\ Generation(ms, q) <= Newest(ms)
        BY <1>4, <1>5, <3>2
      <4>2. Generation(ms2, q) \in Nat /\ Newest(ms) \in Nat
        BY <1>2, <1>5, <1>7
      <4> QED BY <1>9, <4>1, <4>2
    <3> QED BY <1>2, <1>4, <1>7, <3>1, <3>2, <3>3 DEF Beats
  <2>2. /\ ms2[q].device_uuid = m.device_uuid /\ Newest(ms2) = m.generation
        /\ Named(ms2, q) = m
    BY <1>1, <1>6, <2>1
  <2>3. m # None => RecoverManifest(ms2) = m
    BY <1>2, <2>2, RecoverManifestIs DEF q
  <2> QED BY <1>2, <1>3, <1>9, <2>1, <2>2, <2>3 DEF q, new
<1>10. CASE ~(m.generation >= Newest(ms))
  <2>1. r # 0 /\ r \in Superblocks(ms) /\ Newest(ms) = Generation(ms, r)
    <3>1. r = 0 => Newest(ms) = 0
      BY DEF r, Newest
    <3> QED BY <1>5, <1>10, <3>1
  <2>2. \A j \in Superblocks(ms) : Beats(ms, r, j)
    BY <2>1, RecoverSuperblockIs DEF r
  <2>3. \A j \in Superblocks(ms2) : Beats(ms2, r, j)
    <3>1. ASSUME NEW j \in Superblocks(ms) PROVE Beats(ms2, r, j)
      BY <1>4, <2>1, <2>2 DEF Beats
    <3>2. ASSUME NEW j \in new PROVE Beats(ms2, r, j)
      <4>1. Generation(ms2, j) = m.generation /\ Generation(ms2, r) = Newest(ms)
        BY <1>1, <1>4, <2>1
      <4> QED BY <1>5, <1>10, <4>1 DEF Beats
    <3> QED BY <3>1, <3>2 DEF new
  <2>4. q = r
    <3>1. r \in Superblocks(ms2)
      BY <1>1, <2>1
    <3> QED BY <2>3, <3>1, RecoverSuperblockUnique DEF q
  <2>5. Newest(ms2) = Newest(ms)
    BY <1>4, <1>6, <2>1, <2>4
  <2> QED BY <1>2, <1>3, <1>10, <2>1, <2>4, <2>5 DEF q, r
<1> QED BY <1>9, <1>10

-----------------------------------------------------------------------------
(* Sending *)

\* The first b of the messages hold manifest m, the others are its superblock sb.  Where
\* the former are on a channel, from id first on, sb leads back to m.
LeadsBack(all, b, sb, first, m) ==
  /\ b < Len(all)
  /\ \A k \in 1 .. b : all[k].kind \notin {"object", "superblock"}
  /\ \A k \in b + 1 .. Len(all) : all[k] = sb
  /\ sb.device_uuid = m.device_uuid /\ sb.current.generation = m.generation
  /\ \A ch : (\A k \in 1 .. b : first + k - 1 \in DOMAIN ch /\ ch[first + k - 1] = all[k])
             => FetchManifest(ch, sb.encoding, sb.current) = m

\* So it is with the messages of a commit.
LEMMA Committed ==
  ASSUME NEW n \in Nat, NEW m \in ManifestsOf(n), NEW previous \in Superblock \cup {None},
         NEW first \in Nat
  PROVE  /\ CommitMessages(m, previous, first) \in Seq(Message(n))
         /\ \E b \in Nat \ {0}, sb \in Superblock :
              LeadsBack(CommitMessages(m, previous, first), b, sb, first, m)
<1> DEFINE all == CommitMessages(m, previous, first)
           t == tree_leaves(m)
           root == TreeRoot(m, first)
           body == IF UseTree(m) THEN Append(t, root) ELSE <<ManifestMessage(m)>>
           b == Len(body)
           encoding == IF UseTree(m) THEN "tree" ELSE "flat_json"
           ref == [message_id |-> first + b - 1, generation |-> m.generation]
           sb == ForManifest(m.device_uuid, encoding, ref, previous)
           two == previous # None
           tail == IF two THEN <<sb>> ELSE <<sb, sb>>
<1>1. m.device_uuid \in Nat /\ m.generation \in Nat /\ Len(m.objects) = n /\ m.garbage \in SUBSET Nat
  BY DEF ManifestsOf, Manifest
<1>2. all = body \o tail
  BY Zenon DEF CommitMessages, Published
<1> HIDE DEF all
<1>3. t \in Seq(Leaf) /\ Len(t) \in Nat
  <2>1. t \in Seq(Leaf)
    BY LeavesOf
  <2> HIDE DEF t
  <2> QED BY <2>1
<1>4. root \in Root(n) /\ root.kind = "root" /\ root.generation = m.generation
  <2>1. root.leaves = [k \in 1 .. Len(t) |-> [leaf_index |-> k - 1, message_id |-> first + k - 1]]
    <3>1. DOMAIN t = 1 .. Len(t)
      BY <1>3
    <3> HIDE DEF t
    <3> QED BY <3>1 DEF TreeRoot, t
  <2>2. root.leaves \in Seq([leaf_index : Nat, message_id : Nat])
    <3> HIDE DEF t, root
    <3>1. \A k \in 1 .. Len(t) : k - 1 \in Nat /\ first + k - 1 \in Nat
      OBVIOUS
    <3> QED BY <1>3, <2>1, <3>1
  <2>3. root = [kind |-> "root", device_uuid |-> m.device_uuid, generation |-> m.generation,
                object_count |-> n, garbage |-> m.garbage, leaves |-> root.leaves]
    BY <1>1 DEF TreeRoot
  <2>4. \A k \in DOMAIN root.leaves : root.leaves[k].leaf_index = k - 1
    <3> HIDE DEF root, t
    <3> QED BY <2>1
  <2> HIDE DEF root, t
  <2>5. root \in [kind : {"root"}, device_uuid : Nat, generation : Nat, object_count : {n},
          garbage : SUBSET Nat, leaves : Seq([leaf_index : Nat, message_id : Nat])]
    BY <1>1, <2>2, <2>3
  <2>6. root.kind = "root" /\ root.generation = m.generation
    BY <2>3
  <2> QED BY <2>4, <2>5, <2>6 DEF Root
<1>5. ManifestMessage(m) \in ManifestMsg(n)
  BY <1>1 DEF ManifestMessage, ManifestMsg
<1>6. /\ body \in Seq(Message(n)) /\ b \in Nat \ {0}
      /\ \A k \in 1 .. b : body[k].kind \notin {"object", "superblock"}
      /\ body[b] = IF UseTree(m) THEN root ELSE ManifestMessage(m)
      /\ UseTree(m) => b = Len(t) + 1 /\ \A k \in 1 .. Len(t) : body[k] = t[k]
  <2>1. CASE UseTree(m)
    <3> HIDE DEF t, root
    <3>1. t \in Seq(Message(n)) /\ root \in Message(n)
      BY <1>3, <1>4 DEF Message
    <3>2. body = Append(t, root)
      BY <2>1
    <3>3. body \in Seq(Message(n)) /\ b = Len(t) + 1 /\ body[Len(t) + 1] = root
          /\ \A k \in 1 .. Len(t) : body[k] = t[k]
      <4> HIDE DEF body
      <4> QED BY <1>3, <3>1, <3>2 DEF body
    <3>4. \A k \in 1 .. Len(t) : t[k].kind = "leaf"
      <4>1. \A k \in 1 .. Len(t) : t[k] \in Leaf
        BY <1>3
      <4> QED BY <4>1 DEF Leaf
    <3> HIDE DEF body
    <3> QED BY <1>3, <1>4, <2>1, <3>3, <3>4
  <2>2. CASE ~UseTree(m)
    <3>1. body = <<ManifestMessage(m)>> /\ ManifestMessage(m) \in Message(n)
      BY <1>5, <2>2 DEF Message
    <3>2. ManifestMessage(m).kind = "manifest"
      BY DEF ManifestMessage
    <3> HIDE DEF body
    <3> QED BY <2>2, <3>1, <3>2
  <2> QED BY <2>1, <2>2
<1>7. /\ sb \in Superblock /\ sb.device_uuid = m.device_uuid
      /\ sb.current = ref /\ sb.encoding = encoding
  <2>1. ref \in Ref
    <3> HIDE DEF body
    <3> QED BY <1>1, <1>6 DEF Ref
  <2>2. previous = None \/ previous.current \in Ref
    BY DEF Superblock
  <2> HIDE DEF ref
  <2> QED BY <1>1, <2>1, <2>2 DEF ForManifest, Superblock
<1>8. ref.generation = m.generation /\ ref.message_id = first + b - 1
  OBVIOUS
<1>9. ASSUME NEW ch, \A k \in 1 .. b : first + k - 1 \in DOMAIN ch /\ ch[first + k - 1] = body[k]
      PROVE  FetchManifest(ch, sb.encoding, sb.current) = m
  <2>1. /\ ref.message_id \in DOMAIN ch
        /\ ch[ref.message_id] = IF UseTree(m) THEN root ELSE ManifestMessage(m)
    <3>1. b \in 1 .. b
      BY <1>6
    <3> QED BY <1>6, <1>9, <3>1
  <2> HIDE DEF ref, sb
  <2>2. CASE UseTree(m)
    <3>1. FetchTree(ch, root) = m
      <4>1. \A k \in 1 .. Len(t) : first + k - 1 \in DOMAIN ch /\ ch[first + k - 1] = t[k]
        <5> HIDE DEF t, body
        <5> QED BY <1>3, <1>6, <1>9, <2>2
      <4> QED BY <4>1, TreeReadsBack
    <3>2. sb.encoding = "tree"
      BY <1>7, <2>2
    <3>3. ch[ref.message_id] = root
      BY <2>1, <2>2
    <3> HIDE DEF root, encoding, body
    <3> QED BY <1>4, <1>7, <1>8, <2>1, <3>1, <3>2, <3>3 DEF FetchManifest
  <2>3. CASE ~UseTree(m)
    <3>1. sb.encoding = "flat_json" /\ ch[ref.message_id] = ManifestMessage(m)
      BY <1>7, <2>1, <2>3
    <3>2. /\ ManifestMessage(m).kind = "manifest" /\ ManifestMessage(m).generation = m.generation
          /\ ManifestMessage(m).body = m
      BY DEF ManifestMessage
    <3> HIDE DEF root, encoding, body
    <3> QED BY <1>7, <1>8, <2>1, <3>1, <3>2 DEF FetchManifest
  <2> QED BY <2>2, <2>3
<1> HIDE DEF body, sb, ref, encoding
<1>10. /\ tail \in Seq(Message(n)) /\ Len(tail) \in 1 .. 2
       /\ \A k \in 1 .. Len(tail) : tail[k] = sb
  <2>1. sb \in Message(n)
    BY <1>7 DEF Message
  <2>2. CASE two
    <3>1. tail = <<sb>>
      BY <2>2
    <3> HIDE DEF tail, two
    <3> QED BY <2>1, <3>1
  <2>3. CASE ~two
    <3>1. tail = <<sb, sb>>
      BY <2>3
    <3> HIDE DEF tail, two
    <3> QED BY <2>1, <3>1
  <2> QED BY <2>2, <2>3
<1> HIDE DEF tail
<1>11. /\ all \in Seq(Message(n)) /\ Len(all) = b + Len(tail)
       /\ \A k \in 1 .. b : all[k] = body[k]
       /\ \A k \in 1 .. Len(tail) : all[b + k] = tail[k]
  <2>1. body \in Seq(Message(n)) /\ tail \in Seq(Message(n))
    BY <1>6, <1>10
  <2>2. /\ body \o tail \in Seq(Message(n)) /\ Len(body \o tail) = Len(body) + Len(tail)
        /\ \A k \in 1 .. Len(body) : (body \o tail)[k] = body[k]
        /\ \A k \in 1 .. Len(tail) : (body \o tail)[Len(body) + k] = tail[k]
    BY <2>1, Concatenated
  <2> QED BY <1>2, <2>2, Zenon
<1>12. \A k \in b + 1 .. Len(all) : all[k] = sb
  <2> SUFFICES ASSUME NEW k \in b + 1 .. Len(all) PROVE all[k] = sb
    OBVIOUS
  <2>1. k - b \in 1 .. Len(tail) /\ b + (k - b) = k
    BY <1>6, <1>10, <1>11
  <2> QED BY <1>10, <1>11, <2>1
<1>13. b < Len(all)
  <2>1. b \in Nat /\ Len(tail) \in 1 .. 2 /\ Len(all) = b + Len(tail)
    BY <1>6, <1>10, <1>11, Zenon
  <2>2. PICK x \in Nat : b = x
    BY <2>1
  <2>3. PICK y \in 1 .. 2 : Len(all) = x + y
    BY <2>1, <2>2
  <2>4. x < x + y
    OBVIOUS
  <2> QED BY <2>2, <2>3, <2>4, Zenon
<1>14. sb.current.generation = m.generation
  BY <1>7, <1>8
<1>15. \A k \in 1 .. b : all[k].kind \notin {"object", "superblock"}
  BY <1>6, <1>11
<1>16. \A ch : (\A k \in 1 .. b : first + k - 1 \in DOMAIN ch /\ ch[first + k - 1] = all[k])
               => FetchManifest(ch, sb.encoding, sb.current) = m
  <2> SUFFICES ASSUME NEW ch,
                      \A k \in 1 .. b : first + k - 1 \in DOMAIN ch /\ ch[first + k - 1] = all[k]
               PROVE  FetchManifest(ch, sb.encoding, sb.current) = m
    OBVIOUS
  <2>1. \A k \in 1 .. b : first + k - 1 \in DOMAIN ch /\ ch[first + k - 1] = body[k]
    BY <1>11
  <2> QED BY <1>9, <2>1
<1>17. b \in Nat \ {0} /\ sb \in Superblock /\ LeadsBack(all, b, sb, first, m)
  BY <1>6, <1>7, <1>12, <1>13, <1>14, <1>15, <1>16, Zenon DEF LeadsBack
<1> HIDE DEF b
<1> QED BY <1>11, <1>17 DEF all

\* Sending k messages of a sequence.
LEMMA SendIs ==
  ASSUME NEW n, ChannelType(n, last_id, messages), NEW s \in Seq(Message(n)),
         NEW k \in 0 .. Len(s), Send(s, k)
  PROVE  /\ last_id' = last_id + k
         /\ DOMAIN messages' = DOMAIN messages \cup (last_id + 1 .. last_id + k)
         /\ \A i \in DOMAIN messages : messages'[i] = messages[i]
         /\ \A j \in 1 .. k : messages'[last_id + j] = s[j]
         /\ ChannelType(n, last_id', messages')
         /\ Keeps(messages, messages')
         /\ \A i \in Superblocks(messages) : i \in Superblocks(messages')
<1>1. /\ last_id \in Nat /\ DOMAIN messages \subseteq 1 .. last_id
      /\ \A i \in DOMAIN messages : messages[i] \in Message(n)
  BY DEF ChannelType
<1> DEFINE D == DOMAIN messages \cup (last_id + 1 .. last_id + k)
<1>2. /\ last_id' = last_id + k
      /\ messages' = [i \in D |-> IF i <= last_id THEN messages[i] ELSE s[i - last_id]]
  BY Zenon DEF Send
<1> HIDE DEF D
<1>3. DOMAIN messages' = D
  BY <1>2
<1>4. ASSUME NEW i \in DOMAIN messages PROVE messages'[i] = messages[i] /\ i \in D
  BY <1>1, <1>2 DEF D
<1>5. ASSUME NEW j \in 1 .. k PROVE messages'[last_id + j] = s[j] /\ s[j] \in Message(n)
  <2>1. last_id + j \in last_id + 1 .. last_id + k /\ ~(last_id + j <= last_id)
        /\ last_id + j - last_id = j /\ j \in 1 .. Len(s)
    BY <1>1
  <2>2. last_id + j \in D
    BY <2>1 DEF D
  <2>3. s[j] \in Message(n)
    BY <2>1
  <2> HIDE DEF D
  <2>4. messages'[last_id + j] = s[(last_id + j) - last_id]
    <3> DEFINE x == last_id + j
    <3>1. x \in D /\ ~(x <= last_id)
      BY <2>1, <2>2
    <3>2. messages'[x] = IF x <= last_id THEN messages[x] ELSE s[x - last_id]
      <4> HIDE DEF x
      <4> QED BY <1>2, <3>1
    <3> QED BY <3>1, <3>2, Zenon
  <2>5. (last_id + j) - last_id = j
    BY <1>1
  <2> QED BY <2>3, <2>4, <2>5
<1>6. ASSUME NEW i \in D PROVE i \in DOMAIN messages \/ \E j \in 1 .. k : i = last_id + j
  <2>1. CASE i \in last_id + 1 .. last_id + k
    <3>1. i - last_id \in 1 .. k /\ i = last_id + (i - last_id)
      BY <1>1, <2>1
    <3> QED BY <3>1
  <2> QED BY <2>1 DEF D
<1>7. ChannelType(n, last_id', messages')
  <2>1. last_id' \in Nat
    BY <1>1, <1>2
  <2>2. D \subseteq 1 .. last_id'
    BY <1>1, <1>2 DEF D
  <2>3. ASSUME NEW i \in D PROVE messages'[i] \in Message(n)
    BY <1>1, <1>4, <1>5, <1>6
  <2> QED BY <1>3, <2>1, <2>2, <2>3 DEF ChannelType
<1> QED BY <1>2, <1>3, <1>4, <1>5, <1>7 DEF D, Keeps, Superblocks

\* The first k messages of all, objects and then a commit of m, have been sent.
Sent(n, m, objects, all, k) ==
  /\ ChannelType(n, last_id', messages') /\ last_id' = last_id + k
  /\ DOMAIN messages' = DOMAIN messages \cup (last_id + 1 .. last_id + k)
  /\ \A i \in DOMAIN messages : messages'[i] = messages[i]
  /\ \A j \in 1 .. k : j <= Len(objects) => messages'[last_id + j] = objects[j]
  /\ Keeps(messages, messages')
  /\ Len(objects) <= Len(all)
  /\ \/ Superblocks(messages') = Superblocks(messages) /\ k < Len(all)
     \/ Publishes(messages, last_id, messages', m) /\ k >= Len(objects) + 2

\* The messages of a flush: its objects, then those of its commit.
ObjectsThenCommit(all, objects, m, previous) ==
  all = objects \o CommitMessages(m, previous, last_id + Len(objects) + 1)

\* Sending some objects and then a commit, or the first k messages of that.
LEMMA CommitSent ==
  ASSUME NEW n \in Nat, ChannelType(n, last_id, messages), NEW m \in ManifestsOf(n),
         NEW previous \in Superblock \cup {None}, NEW objects \in Seq(ObjectMsg), NEW all,
         ObjectsThenCommit(all, objects, m, previous), NEW k \in 0 .. Len(all), Send(all, k)
  PROVE  Sent(n, m, objects, all, k)
<1> DEFINE p == Len(objects)
           first == last_id + Len(objects) + 1
           c == CommitMessages(m, previous, first)
<1>1. last_id \in Nat /\ p \in Nat /\ last_id + p + 1 \in Nat
      /\ \A i \in DOMAIN messages : messages[i] \in Message(n) /\ i \in 1 .. last_id
  BY DEF ChannelType
<1>2. c \in Seq(Message(n)) /\ \E b \in Nat \ {0}, sb \in Superblock : LeadsBack(c, b, sb, first, m)
  <2>1. first \in Nat
    BY <1>1
  <2> HIDE DEF first
  <2> QED BY <2>1, Committed
<1>3. PICK b \in Nat \ {0}, sb \in Superblock :
        /\ b < Len(c)
        /\ \A j \in 1 .. b : c[j].kind \notin {"object", "superblock"}
        /\ \A j \in b + 1 .. Len(c) : c[j] = sb
        /\ sb.device_uuid = m.device_uuid /\ sb.current.generation = m.generation
        /\ \A ch : (\A j \in 1 .. b : first + j - 1 \in DOMAIN ch /\ ch[first + j - 1] = c[j])
                   => FetchManifest(ch, sb.encoding, sb.current) = m
  BY <1>2, Zenon DEF LeadsBack
<1> HIDE DEF c
<1>4. objects \in Seq(Message(n)) /\ \A j \in 1 .. p : objects[j].kind = "object"
  <2>1. \A j \in 1 .. p : objects[j] \in ObjectMsg
    OBVIOUS
  <2>2. \A j \in 1 .. p : objects[j].kind = "object"
    BY <2>1 DEF ObjectMsg
  <2>3. ObjectMsg \subseteq Message(n)
    BY DEF Message
  <2>4. objects \in Seq(Message(n))
    BY <2>3
  <2> QED BY <2>2, <2>4
<1>5. /\ all \in Seq(Message(n)) /\ Len(all) = p + Len(c) /\ Len(c) \in Nat
      /\ \A j \in 1 .. p : all[j] = objects[j]
      /\ \A j \in 1 .. Len(c) : all[p + j] = c[j]
  <2>1. all = objects \o c
    BY DEF c, ObjectsThenCommit
  <2> HIDE DEF p
  <2>2. /\ all \in Seq(Message(n)) /\ Len(all) = Len(objects) + Len(c)
        /\ \A j \in 1 .. Len(objects) : all[j] = objects[j]
        /\ \A j \in 1 .. Len(c) : all[Len(objects) + j] = c[j]
    <3>1. /\ objects \o c \in Seq(Message(n)) /\ Len(objects \o c) = Len(objects) + Len(c)
          /\ \A j \in 1 .. Len(objects) : (objects \o c)[j] = objects[j]
          /\ \A j \in 1 .. Len(c) : (objects \o c)[Len(objects) + j] = c[j]
      BY <1>2, <1>4, Concatenated
    <3> QED BY <2>1, <3>1, Zenon
  <2> QED BY <1>2, <2>2 DEF p
<1>6. /\ last_id' = last_id + k
      /\ DOMAIN messages' = DOMAIN messages \cup (last_id + 1 .. last_id + k)
      /\ \A i \in DOMAIN messages : messages'[i] = messages[i]
      /\ \A j \in 1 .. k : messages'[last_id + j] = all[j]
      /\ ChannelType(n, last_id', messages')
      /\ Keeps(messages, messages')
      /\ \A i \in Superblocks(messages) : i \in Superblocks(messages')
  BY <1>5, SendIs
<1>7. k \in Nat /\ k <= p + Len(c)
  BY <1>5
<1>8. \A j \in 1 .. k : j <= p => messages'[last_id + j] = objects[j]
  BY <1>1, <1>5, <1>6, <1>7
<1>9. ASSUME NEW i \in Superblocks(messages') \ Superblocks(messages)
      PROVE  \E j \in b + 1 .. Len(c) : p + j <= k /\ i = last_id + p + j /\ messages'[i] = sb
  <2>1. i \in DOMAIN messages' /\ messages'[i].kind = "superblock" /\ i \notin DOMAIN messages
    BY <1>6 DEF Superblocks
  <2>2. i \in last_id + 1 .. last_id + k
    BY <1>6, <2>1
  <2>3. PICK x \in 1 .. k : i = last_id + x
    <3>1. i - last_id \in 1 .. k /\ i = last_id + (i - last_id)
      BY <1>1, <1>7, <2>2
    <3> QED BY <3>1
  <2>4. messages'[i] = all[x]
    BY <1>6, <2>3
  <2>5. ~(x <= p)
    <3> SUFFICES ASSUME x <= p PROVE FALSE
      OBVIOUS
    <3>1. x \in 1 .. p
      BY <1>1
    <3> QED BY <1>4, <1>5, <2>1, <2>4, <3>1
  <2>6. PICK j \in 1 .. Len(c) : x = p + j
    <3>1. x - p \in 1 .. Len(c) /\ x = p + (x - p)
      BY <1>1, <1>5, <1>7, <2>5
    <3> QED BY <3>1
  <2>7. messages'[i] = c[j]
    BY <1>5, <2>4, <2>6
  <2>8. ~(j <= b)
    <3> SUFFICES ASSUME j <= b PROVE FALSE
      OBVIOUS
    <3>1. j \in 1 .. b
      BY <1>3
    <3> QED BY <1>3, <2>1, <2>7, <3>1
  <2>9. j \in b + 1 .. Len(c) /\ p + j <= k /\ i = last_id + p + j
    BY <1>1, <1>3, <1>5, <1>7, <2>3, <2>6, <2>8
  <2> QED BY <1>3, <2>7, <2>9
<1>10. CASE k <= p + b
  <2>1. Superblocks(messages') \subseteq Superblocks(messages)
    <3> SUFFICES ASSUME NEW i \in Superblocks(messages') \ Superblocks(messages) PROVE FALSE
      OBVIOUS
    <3>1. PICK j \in b + 1 .. Len(c) : p + j <= k
      BY <1>9
    <3> QED BY <1>1, <1>3, <1>5, <1>7, <1>10, <3>1
  <2>2. k < Len(all)
    BY <1>1, <1>3, <1>5, <1>7, <1>10
  <2>3. Superblocks(messages') = Superblocks(messages)
    BY <1>6, <2>1
  <2> QED BY <1>1, <1>5, <1>6, <1>8, <2>2, <2>3 DEF Sent
<1>11. CASE ~(k <= p + b)
  <2>1. k >= p + b + 1 /\ k >= p + 2
    BY <1>1, <1>3, <1>7, <1>11
  <2>2. FetchManifest(messages', sb.encoding, sb.current) = m
    <3>1. ASSUME NEW j \in 1 .. b
          PROVE  first + j - 1 \in DOMAIN messages' /\ messages'[first + j - 1] = c[j]
      <4>1. first + j - 1 = last_id + (p + j) /\ p + j \in 1 .. k /\ j \in 1 .. Len(c)
            /\ last_id + (p + j) \in last_id + 1 .. last_id + k
        BY <1>1, <1>3, <1>5, <1>7, <2>1
      <4>2. messages'[last_id + (p + j)] = all[p + j] /\ all[p + j] = c[j]
        BY <1>5, <1>6, <4>1
      <4>3. last_id + (p + j) \in DOMAIN messages'
        BY <1>6, <4>1
      <4> HIDE DEF first, p
      <4> QED BY <4>1, <4>2, <4>3
    <3> HIDE DEF first
    <3> QED BY <1>3, <3>1
  <2>3. last_id + (p + b + 1) \in Superblocks(messages') \ Superblocks(messages)
    <3>1. p + b + 1 \in 1 .. k /\ b + 1 \in b + 1 .. Len(c) /\ b + 1 \in 1 .. Len(c)
          /\ p + (b + 1) = p + b + 1
      BY <1>1, <1>3, <1>5, <1>7, <2>1
    <3>2. messages'[last_id + (p + b + 1)] = all[p + (b + 1)] /\ all[p + (b + 1)] = sb
      BY <1>3, <1>5, <1>6, <3>1
    <3>3. last_id + (p + b + 1) \in last_id + 1 .. last_id + k
      BY <1>1, <1>7, <3>1
    <3>4. last_id + (p + b + 1) \notin DOMAIN messages
      BY <1>1, <3>1
    <3>5. sb.kind = "superblock"
      BY DEF Superblock
    <3> QED BY <1>6, <3>1, <3>2, <3>3, <3>4, <3>5 DEF Superblocks
  <2>4. ASSUME NEW i \in Superblocks(messages') \ Superblocks(messages)
        PROVE  /\ i > last_id /\ Named(messages', i) = m
               /\ messages'[i].device_uuid = m.device_uuid
               /\ Generation(messages', i) = m.generation
    <3>1. PICK j \in b + 1 .. Len(c) : i = last_id + p + j /\ messages'[i] = sb
      BY <1>9
    <3>2. i > last_id
      BY <1>1, <1>3, <1>5, <3>1
    <3> QED BY <1>3, <2>2, <3>1, <3>2 DEF Named, Generation
  <2>5. Publishes(messages, last_id, messages', m)
    BY <1>6, <2>3, <2>4 DEF Publishes
  <2> QED BY <1>1, <1>5, <1>6, <1>8, <2>1, <2>5 DEF Sent
<1> QED BY <1>10, <1>11

-----------------------------------------------------------------------------
(* Types *)

\* The objects of the device.
Size == config.object_count

Files == UNION {[keys -> Value] : keys \in SUBSET (Nat \X Nat)}

Daemons == [manifest : ManifestsOf(Size), memory : Memory \cup {None}]

Stores ==
  [exists : BOOLEAN, manifest : ManifestsOf(Size) \cup {None}, dirty : [Units -> Nat],
   files : Files]

\* The types, in full.
TypesOK ==
  /\ config \in Scenarios
  /\ ChannelType(Size, last_id, messages)
  /\ pinned # 0 => pinned \in Superblocks(messages)
  /\ store \in Stores
  /\ \A o \in Units : store.dirty[o] # 0 => <<o, store.dirty[o]>> \in DOMAIN store.files
  /\ mount_lock \in BOOLEAN
  /\ daemons \in [Processes -> Daemons \cup {None}]
  /\ gc \in SUBSET Nat
  /\ fetched \in ManifestsOf(Size) \cup {None}
  /\ budget \in Budget

\* The objects of a device are addresses.
LEMMA Sizes ==
  ASSUME config \in Scenarios
  PROVE  /\ Size \in Nat \ {0} /\ Objects = 0 .. Size - 1
         /\ Objects \subseteq Units /\ Units \subseteq Nat /\ IsFiniteSet(Objects)
<1>1. Size \in Nat \ {0} /\ Objects = 0 .. Size - 1
  BY LifecycleAssumption DEF Size, Objects
<1> DEFINE f == [s \in Scenarios |-> s.object_count]
           S == {f[s] : s \in Scenarios}
           T == {s.object_count : s \in Scenarios}
<1>2. f \in [Scenarios -> Nat] /\ S = T
  BY LifecycleAssumption
<1>3. T \in SUBSET Int /\ Size \in T
  BY LifecycleAssumption DEF Size
<1>4. IsFiniteSet(T)
  <2>1. IsFiniteSet(Scenarios) /\ f \in [Scenarios -> Nat]
    BY <1>2, LifecycleAssumption
  <2> HIDE DEF f
  <2>2. IsFiniteSet({f[x] : x \in Scenarios})
    BY <2>1, FiniteImage
  <2>3. IsFiniteSet(S)
    BY <2>2 DEF S
  <2> QED BY <1>2, <2>3
<1>5. Max(T) \in T /\ \A y \in T : y <= Max(T)
  <2> HIDE DEF T
  <2> QED BY <1>3, <1>4, MaxIsLargest
<1>6. Units = 0 .. Max(T) - 1
  BY DEF Units
<1> HIDE DEF T
<1>7. Max(T) \in Int /\ Size <= Max(T)
  BY <1>3, <1>5
<1>8. IsFiniteSet(Objects)
  BY <1>1, FS_Interval
<1> QED BY <1>1, <1>6, <1>7, <1>8

\* What a file table is.
LEMMA FilesAre ==
  ASSUME NEW f
  PROVE  f \in Files <=> /\ DOMAIN f \subseteq Nat \X Nat /\ f = [k \in DOMAIN f |-> f[k]]
                         /\ \A k \in DOMAIN f : f[k] \in Value
<1>1. ASSUME f \in Files
      PROVE  /\ DOMAIN f \subseteq Nat \X Nat /\ f = [k \in DOMAIN f |-> f[k]]
             /\ \A k \in DOMAIN f : f[k] \in Value
  <2>1. PICK keys \in SUBSET (Nat \X Nat) : f \in [keys -> Value]
    BY <1>1 DEF Files
  <2> QED BY <2>1
<1>2. ASSUME /\ DOMAIN f \subseteq Nat \X Nat /\ f = [k \in DOMAIN f |-> f[k]]
             /\ \A k \in DOMAIN f : f[k] \in Value
      PROVE  f \in Files
  <2>1. f \in [DOMAIN f -> Value]
    BY <1>2
  <2> QED BY <1>2, <2>1 DEF Files
<1> QED BY <1>1, <1>2

\* The fields of what the state holds.
LEMMA StoreFields ==
  ASSUME TypesOK
  PROVE  /\ store.exists \in BOOLEAN /\ store.manifest \in ManifestsOf(Size) \cup {None}
         /\ store.dirty \in [Units -> Nat] /\ store.files \in Files
         /\ \A k \in DOMAIN store.files : store.files[k] \in Value
         /\ DOMAIN store.files \subseteq Nat \X Nat
         /\ store = [exists |-> store.exists, manifest |-> store.manifest,
                     dirty |-> store.dirty, files |-> store.files]
<1>1. store \in Stores
  BY DEF TypesOK
<1>2. store.files \in Files
  BY <1>1 DEF Stores
<1> QED BY <1>1, <1>2, FilesAre DEF Stores

\* The fields of a manifest.
LEMMA ManifestParts ==
  ASSUME NEW n, NEW m \in ManifestsOf(n)
  PROVE  /\ m.device_uuid \in Nat /\ m.generation \in Nat /\ m.garbage \in SUBSET Nat
         /\ m.objects \in Seq(ObjectEntry) /\ Len(m.objects) = n /\ DOMAIN m.objects = 1 .. n
         /\ \A k \in 1 .. n : m.objects[k] \in ObjectEntry /\ m.objects[k].object_id = k - 1
         /\ m # None
<1>1. m \in Manifest /\ Len(m.objects) = n /\ \A k \in DOMAIN m.objects : m.objects[k].object_id = k - 1
  BY DEF ManifestsOf
<1>2. m # None
  BY <1>1, LifecycleAssumption
<1>3. /\ m.device_uuid \in Nat /\ m.generation \in Nat /\ m.garbage \in SUBSET Nat
      /\ m.objects \in Seq(ObjectEntry)
  BY <1>1 DEF Manifest, ObjectEntry
<1>4. DOMAIN m.objects = 1 .. n
  BY <1>1, <1>3
<1> QED BY <1>1, <1>2, <1>3, <1>4

-----------------------------------------------------------------------------
(* A flush *)

\* The dirty objects are numbered in the order of their ids.
LEMMA Positions ==
  ASSUME TypesOK
  PROVE  /\ DirtyIds \subseteq Objects /\ IsFiniteSet(DirtyIds) /\ Cardinality(DirtyIds) \in Nat
         /\ \A o \in DirtyIds : Position(o) \in 1 .. Cardinality(DirtyIds)
         /\ \A o, q \in DirtyIds : Position(o) = Position(q) => o = q
         /\ \A k \in 1 .. Cardinality(DirtyIds) : \E o \in DirtyIds : Position(o) = k
<1> DEFINE D == DirtyIds
           n == Cardinality(D)
           UpTo(o) == {q \in D : q <= o}
<1>1. D \subseteq Objects /\ D \subseteq Nat
  BY Sizes DEF DirtyIds, TypesOK
<1>2. IsFiniteSet(D) /\ n \in Nat
  <2>1. D \in SUBSET Objects
    BY <1>1
  <2>2. IsFiniteSet(Objects)
    BY Sizes DEF TypesOK
  <2> HIDE DEF D
  <2>3. IsFiniteSet(D)
    BY <2>1, <2>2, FS_Subset
  <2> QED BY <2>3, FS_CardinalityType
<1> HIDE DEF D
<1>3. ASSUME NEW o \in D PROVE Position(o) \in 1 .. n /\ Position(o) = Cardinality(UpTo(o))
                               /\ IsFiniteSet(UpTo(o))
  <2>1. Position(o) = Cardinality(UpTo(o))
    BY DEF Position, D
  <2>2. UpTo(o) \in SUBSET D /\ o \in UpTo(o)
    BY <1>1
  <2> HIDE DEF UpTo
  <2>3. IsFiniteSet(UpTo(o)) /\ Cardinality(UpTo(o)) <= n
    BY <1>2, <2>2, FS_Subset
  <2>4. Cardinality(UpTo(o)) \in Nat
    BY <2>3, FS_CardinalityType
  <2>5. Cardinality(UpTo(o)) # 0
    BY <2>2, <2>3, FS_EmptySet
  <2> QED BY <1>2, <2>1, <2>3, <2>4, <2>5
<1>4. ASSUME NEW o \in D, NEW q \in D, o < q
      PROVE  Position(o) < Position(q)
  <2>1. UpTo(o) \in SUBSET UpTo(q) /\ UpTo(o) # UpTo(q)
    <3>1. o \in Nat /\ q \in Nat /\ \A x \in D : x \in Nat
      BY <1>1
    <3>2. q \in UpTo(q) /\ ~ (q <= o)
      BY <1>4, <3>1
    <3>3. q \notin UpTo(o)
      BY <3>2
    <3>4. ASSUME NEW x \in UpTo(o) PROVE x \in UpTo(q)
      BY <1>4, <3>1
    <3> QED BY <3>2, <3>3, <3>4
  <2>2. IsFiniteSet(UpTo(q)) /\ Position(q) = Cardinality(UpTo(q)) /\ Position(q) \in 1 .. n
    BY <1>3
  <2>3. Position(o) = Cardinality(UpTo(o)) /\ Position(o) \in 1 .. n
    BY <1>3
  <2> HIDE DEF UpTo
  <2>4. /\ Cardinality(UpTo(o)) <= Cardinality(UpTo(q))
        /\ Cardinality(UpTo(q)) = Cardinality(UpTo(o)) => UpTo(q) = UpTo(o)
    BY <2>1, <2>2, FS_Subset
  <2> QED BY <1>2, <2>1, <2>2, <2>3, <2>4
<1>5. \A o, q \in D : Position(o) = Position(q) => o = q
  <2> SUFFICES ASSUME NEW o \in D, NEW q \in D, Position(o) = Position(q), o # q PROVE FALSE
    OBVIOUS
  <2>1. o < q \/ q < o
    BY <1>1
  <2>2. Position(o) < Position(q) \/ Position(q) < Position(o)
    BY <1>4, <2>1
  <2>3. Position(o) \in 1 .. n /\ Position(q) \in 1 .. n
    BY <1>3
  <2> QED BY <1>2, <2>2, <2>3
<1>6. \A k \in 1 .. n : \E o \in D : Position(o) = k
  <2> DEFINE f == [o \in D |-> Position(o)]
  <2>1. f \in Injection(D, 1 .. n)
    <3>1. f \in [D -> 1 .. n]
      BY <1>3
    <3>2. \A a, b \in D : f[a] = f[b] => a = b
      BY <1>5
    <3> HIDE DEF f
    <3> QED BY <3>1, <3>2 DEF Injection, IsInjective
  <2>2. IsFiniteSet(1 .. n) /\ Cardinality(1 .. n) = n
    <3>1. IsFiniteSet(1 .. n) /\ Cardinality(1 .. n) = IF 1 > n THEN 0 ELSE n - 1 + 1
      BY <1>2, FS_Interval
    <3> QED BY <1>2, <3>1
  <2> HIDE DEF f
  <2>3. f \in Surjection(D, 1 .. n)
    BY <2>1, <2>2, FS_Injection
  <2>4. \A k \in 1 .. n : \E o \in D : f[o] = k
    BY <2>3 DEF Surjection
  <2> QED BY <2>4 DEF f
<1> QED BY <1>1, <1>2, <1>3, <1>5, <1>6 DEF D

\* A flush uploads one message for each dirty object, of its file.
LEMMA UploadsAre ==
  ASSUME TypesOK
  PROVE  /\ Uploads \in Seq(ObjectMsg) /\ Len(Uploads) = Cardinality(DirtyIds)
         /\ \A o \in DirtyIds :
              Uploads[Position(o)] =
                ObjectMessage(o, store.dirty[o], store.files[<<o, store.dirty[o]>>])
<1> DEFINE n == Cardinality(DirtyIds)
           Of(o) == ObjectMessage(o, store.dirty[o], store.files[<<o, store.dirty[o]>>])
           At(k) == CHOOSE q \in DirtyIds : Position(q) = k
<1>1. ASSUME NEW o \in DirtyIds PROVE Of(o) \in ObjectMsg
  <2>1. o \in Units /\ o \in Nat /\ store.dirty[o] # 0
    BY Sizes DEF DirtyIds, TypesOK
  <2>2. <<o, store.dirty[o]>> \in DOMAIN store.files /\ store.dirty[o] \in Nat
    BY <2>1, StoreFields DEF TypesOK
  <2>3. store.files[<<o, store.dirty[o]>>] \in Value
    BY <2>2, StoreFields
  <2> QED BY <2>1, <2>2, <2>3 DEF ObjectMessage, ObjectMsg
<1>2. Uploads = [k \in 1 .. n |-> Of(At(k))]
  BY Zenon DEF Uploads
<1>3. ASSUME NEW k \in 1 .. n PROVE At(k) \in DirtyIds /\ Position(At(k)) = k
  <2>1. \E o \in DirtyIds : Position(o) = k
    BY Positions
  <2> QED BY <2>1
<1>4. ASSUME NEW o \in DirtyIds PROVE Position(o) \in 1 .. n /\ At(Position(o)) = o
  <2>1. Position(o) \in 1 .. n
    BY Positions
  <2>2. At(Position(o)) \in DirtyIds /\ Position(At(Position(o))) = Position(o)
    BY <1>3, <2>1
  <2> HIDE DEF At
  <2>3. At(Position(o)) = o
    BY <2>2, Positions
  <2> QED BY <2>1, <2>3
<1> HIDE DEF Of, At
<1>5. n \in Nat
  BY Positions
<1>6. \A k \in 1 .. n : Of(At(k)) \in ObjectMsg
  BY <1>1, <1>3
<1>7. Uploads \in Seq(ObjectMsg) /\ Len(Uploads) = n
  BY <1>2, <1>5, <1>6
<1>8. \A o \in DirtyIds : Uploads[Position(o)] = Of(o)
  BY <1>2, <1>4
<1> QED BY <1>7, <1>8 DEF Of

\* The generation a flush commits is that of the newest dirty row.
LEMMA NewGenerationIs ==
  ASSUME TypesOK, NEW m, DirtyIds # {}
  PROVE  /\ NewGeneration(m) \in Nat \ {0}
         /\ \E o \in DirtyIds : NewGeneration(m) = store.dirty[o]
         /\ \A o \in DirtyIds : store.dirty[o] <= NewGeneration(m)
<1> DEFINE f == [o \in DirtyIds |-> store.dirty[o]]
           S == {f[o] : o \in DirtyIds}
           T == {store.dirty[o] : o \in DirtyIds}
<1>1. \A o \in DirtyIds : store.dirty[o] \in Nat \ {0}
  <2>1. \A o \in DirtyIds : o \in Units /\ store.dirty[o] # 0
    BY Sizes DEF DirtyIds, TypesOK
  <2> QED BY <2>1, StoreFields
<1>2. f \in [DirtyIds -> Nat] /\ S = T /\ T \subseteq Nat \ {0} /\ T # {}
  BY <1>1
<1>3. IsFiniteSet(T)
  <2>1. IsFiniteSet(DirtyIds) /\ f \in [DirtyIds -> Nat]
    BY <1>2, Positions
  <2> HIDE DEF f
  <2>2. IsFiniteSet({f[x] : x \in DirtyIds})
    BY <2>1, FiniteImage
  <2>3. IsFiniteSet(S)
    BY <2>2 DEF S
  <2> QED BY <1>2, <2>3
<1>4. NewGeneration(m) = Max(T)
  BY DEF NewGeneration
<1>5. Max(T) \in T /\ \A y \in T : y <= Max(T)
  <2>1. T \in SUBSET Int /\ T # {}
    BY <1>2
  <2> HIDE DEF T
  <2> QED BY <1>3, <2>1, MaxIsLargest
<1> QED BY <1>2, <1>4, <1>5

\* The objects of which the uploads 1 .. j are, and the garbage they leave.
Done(j) == {o \in DirtyIds : Position(o) <= j}

Replacements(m, j) == {m.objects[o + 1].remote : o \in Done(j)} \ {0}

NewEntry(o, base) ==
  ManifestObject(o, store.dirty[o], base + Position(o), store.files[<<o, store.dirty[o]>>])

\* The manifest after j of the uploads has their new entries and the rest of m.
LEMMA UploadedIs ==
  ASSUME TypesOK, NEW m \in ManifestsOf(Size), NEW base \in Nat, NEW j \in Nat
  PROVE  /\ Uploaded(m, j, base) \in ManifestsOf(Size)
         /\ Uploaded(m, j, base).device_uuid = m.device_uuid
         /\ Uploaded(m, j, base).generation = NewGeneration(m)
         /\ Uploaded(m, j, base).garbage = m.garbage \cup Replacements(m, j)
         /\ \A o \in Objects :
              Uploaded(m, j, base).objects[o + 1] =
                IF o \in Done(j) THEN NewEntry(o, base) ELSE m.objects[o + 1]
<1> DEFINE u == Uploaded(m, j, base)
           Of(k) == IF k - 1 \in Done(j) THEN NewEntry(k - 1, base) ELSE m.objects[k]
<1>1. /\ m \in Manifest /\ m.garbage \in SUBSET Nat /\ DOMAIN m.objects = 1 .. Size
      /\ \A k \in 1 .. Size : m.objects[k] \in ObjectEntry /\ m.objects[k].object_id = k - 1
  BY ManifestParts DEF ManifestsOf
<1>2. Size \in Nat /\ Objects = 0 .. Size - 1
  BY Sizes DEF TypesOK
<1>3. u = [m EXCEPT !.generation = NewGeneration(m),
                    !.objects = [k \in DOMAIN m.objects |-> Of(k)],
                    !.garbage = @ \cup Replacements(m, j)]
  BY Zenon DEF Uploaded, Done, Replacements, NewEntry
<1> HIDE DEF Of
<1>4. /\ u.device_uuid = m.device_uuid /\ u.generation = NewGeneration(m)
      /\ u.garbage = m.garbage \cup Replacements(m, j)
      /\ u.objects = [k \in 1 .. Size |-> Of(k)]
      /\ u = [device_uuid |-> u.device_uuid, generation |-> u.generation,
              garbage |-> u.garbage, objects |-> u.objects]
  BY <1>1, <1>3 DEF Manifest
<1> HIDE DEF u
<1>5. \A k \in 1 .. Size : Of(k) \in ObjectEntry /\ Of(k).object_id = k - 1
  <2> SUFFICES ASSUME NEW k \in 1 .. Size PROVE Of(k) \in ObjectEntry /\ Of(k).object_id = k - 1
    OBVIOUS
  <2>1. CASE k - 1 \in Done(j)
    <3> DEFINE o == k - 1
    <3>1. o \in DirtyIds /\ o \in Nat /\ o \in Units /\ store.dirty[o] # 0
      BY <2>1, Sizes DEF Done, DirtyIds, TypesOK
    <3>2. store.dirty[o] \in Nat /\ <<o, store.dirty[o]>> \in DOMAIN store.files
      BY <3>1, StoreFields DEF TypesOK
    <3>3. store.files[<<o, store.dirty[o]>>] \in Value
      BY <3>2, StoreFields
    <3>4. Position(o) \in Nat
      BY <3>1, Positions
    <3>5. Of(k) = NewEntry(o, base)
      BY <2>1 DEF Of
    <3> HIDE DEF o
    <3>6. NewEntry(o, base) \in ObjectEntry /\ NewEntry(o, base).object_id = o
      BY <3>1, <3>2, <3>3, <3>4 DEF NewEntry, ManifestObject, ObjectEntry
    <3> QED BY <3>5, <3>6 DEF o
  <2>2. CASE k - 1 \notin Done(j)
    BY <1>1, <2>2 DEF Of
  <2> QED BY <2>1, <2>2
<1>6. NewGeneration(m) \in Nat
  BY NewGenerationIs, ManifestParts DEF NewGeneration
<1>7. Replacements(m, j) \in SUBSET Nat
  <2>1. \A o \in Done(j) : o + 1 \in 1 .. Size
    BY <1>2, Positions DEF Done
  <2>2. \A k \in 1 .. Size : m.objects[k].remote \in Nat
    BY <1>1 DEF ObjectEntry
  <2> QED BY <2>1, <2>2 DEF Replacements
<1>8. u \in ManifestsOf(Size)
  <2>1. u.objects \in Seq(ObjectEntry) /\ Len(u.objects) = Size
        /\ \A k \in DOMAIN u.objects : u.objects[k].object_id = k - 1
    BY <1>2, <1>4, <1>5
  <2>2. u.device_uuid \in Nat
    BY <1>4, ManifestParts
  <2>3. u \in Manifest
    BY <1>1, <1>4, <1>6, <1>7, <2>1, <2>2 DEF Manifest, ObjectEntry
  <2> QED BY <2>1, <2>3 DEF ManifestsOf
<1>9. \A o \in Objects : u.objects[o + 1] = IF o \in Done(j) THEN NewEntry(o, base) ELSE m.objects[o + 1]
  <2> SUFFICES ASSUME NEW o \in Objects
               PROVE  u.objects[o + 1] = IF o \in Done(j) THEN NewEntry(o, base) ELSE m.objects[o + 1]
    OBVIOUS
  <2>1. o + 1 \in 1 .. Size /\ (o + 1) - 1 = o
    BY <1>2
  <2> QED BY <1>4, <2>1 DEF Of
<1> QED BY <1>4, <1>8, <1>9 DEF u

-----------------------------------------------------------------------------
(* What is sent *)

\* The pinned message is a superblock, or there is none.
LEMMA PinnedIs ==
  ASSUME TypesOK
  PROVE  PinnedSuperblock \in Superblock \cup {None}
<1>1. pinned # 0 => messages[pinned] \in Superblock
  BY SuperblockType DEF TypesOK
<1> QED BY <1>1 DEF PinnedSuperblock

\* The pinned message stays a superblock.
LEMMA SendPins ==
  ASSUME NEW n, ChannelType(n, last_id, messages), pinned # 0 => pinned \in Superblocks(messages),
         NEW s \in Seq(Message(n)), NEW k \in 0 .. Len(s), Send(s, k)
  PROVE  pinned' # 0 => pinned' \in Superblocks(messages')
<1> DEFINE sent == {i \in last_id + 1 .. last_id + k : s[i - last_id].kind = "superblock"}
<1>1. IF pinned # 0 \/ sent = {}
      THEN pinned' = pinned
      ELSE IF Cardinality(sent) = 1 THEN pinned' \in {0, Min(sent)} ELSE pinned' = Min(sent)
  BY DEF Send
<1>2. /\ \A i \in Superblocks(messages) : i \in Superblocks(messages')
      /\ DOMAIN messages' = DOMAIN messages \cup (last_id + 1 .. last_id + k)
      /\ \A j \in 1 .. k : messages'[last_id + j] = s[j]
  BY SendIs
<1>3. last_id \in Nat /\ k \in Nat
  BY DEF ChannelType
<1>4. ASSUME NEW i \in sent PROVE i \in Superblocks(messages')
  <2> DEFINE j == i - last_id
  <2>1. j \in 1 .. k /\ last_id + j = i
    BY <1>3
  <2>2. s[j].kind = "superblock" /\ i \in last_id + 1 .. last_id + k
    OBVIOUS
  <2> HIDE DEF j, sent
  <2>3. messages'[last_id + j] = s[j]
    BY <1>2, <2>1
  <2>4. messages'[i].kind = "superblock" /\ i \in DOMAIN messages'
    BY <1>2, <2>1, <2>2, <2>3
  <2> QED BY <2>4 DEF Superblocks
<1>5. sent # {} => Min(sent) \in sent
  <2>1. IsFiniteSet(last_id + 1 .. last_id + k)
    BY <1>3, FS_Interval
  <2>2. sent \in SUBSET (last_id + 1 .. last_id + k) /\ sent \in SUBSET Int
    BY <1>3
  <2> HIDE DEF sent
  <2>3. IsFiniteSet(sent)
    BY <2>1, <2>2, FS_Subset
  <2> QED BY <2>2, <2>3, MinIsSmallest
<1> HIDE DEF sent
<1> QED BY <1>1, <1>2, <1>4, <1>5

\* The channel's part of the type invariant.
ChannelTyped ==
  ChannelType(Size, last_id, messages) /\ (pinned # 0 => pinned \in Superblocks(messages))

\* A manifest that a format creates.
LEMMA EmptyIs ==
  ASSUME NEW n \in Nat, NEW u \in Nat
  PROVE  /\ EmptyManifest(u, n) \in ManifestsOf(n)
         /\ EmptyManifest(u, n).device_uuid = u /\ EmptyManifest(u, n).generation = 0
         /\ EmptyManifest(u, n).garbage = {}
         /\ \A k \in 1 .. n : EmptyManifest(u, n).objects[k] = ManifestObject(k - 1, 0, 0, 0)
<1> DEFINE m == EmptyManifest(u, n)
           s == [k \in 1 .. n |-> ManifestObject(k - 1, 0, 0, 0)]
<1>1. m = [device_uuid |-> u, generation |-> 0, objects |-> s, garbage |-> {}]
  BY Zenon DEF EmptyManifest
<1>2. ASSUME NEW k \in 1 .. n
      PROVE  s[k] \in ObjectEntry /\ s[k] = ManifestObject(k - 1, 0, 0, 0) /\ s[k].object_id = k - 1
  <2> DEFINE q == k - 1
  <2>1. s[k] = ManifestObject(q, 0, 0, 0) /\ q \in Nat
    OBVIOUS
  <2> HIDE DEF q, s
  <2>2. s[k] \in ObjectEntry /\ s[k].object_id = q
    BY <2>1, LifecycleAssumption DEF ObjectEntry, ManifestObject
  <2> QED BY <2>1, <2>2 DEF q
<1>3. DOMAIN s = 1 .. n /\ s = [k \in 1 .. n |-> s[k]]
  OBVIOUS
<1> HIDE DEF s, m
<1>4. s \in Seq(ObjectEntry) /\ Len(s) = n
  BY <1>2, <1>3
<1>5. m \in Manifest /\ Len(m.objects) = n /\ \A k \in DOMAIN m.objects : m.objects[k].object_id = k - 1
  BY <1>1, <1>2, <1>3, <1>4 DEF Manifest, ObjectEntry
<1> QED BY <1>1, <1>2, <1>5 DEF m, ManifestsOf

\* What a flush sends are messages.
LEMMA FlushTyped ==
  ASSUME TypesOK, NEW m \in ManifestsOf(Size)
  PROVE  FlushMessages(m) \in Seq(Message(Size)) /\ Len(FlushMessages(m)) \in Nat
<1> DEFINE u == Uploaded(m, Len(Uploads), last_id)
           commit == CommitMessages(u, PinnedSuperblock, last_id + Len(Uploads) + 1)
           all == FlushMessages(m)
<1>1. Size \in Nat /\ last_id \in Nat
  BY Sizes DEF TypesOK, ChannelType
<1>2. Uploads \in Seq(ObjectMsg) /\ Len(Uploads) \in Nat
  BY UploadsAre
<1>3. u \in ManifestsOf(Size)
  BY <1>1, <1>2, UploadedIs
<1>4. PinnedSuperblock \in Superblock \cup {None}
  BY PinnedIs
<1>5. all = Uploads \o commit
  BY Zenon DEF FlushMessages
<1> HIDE DEF u
<1>6. commit \in Seq(Message(Size))
  BY <1>1, <1>2, <1>3, <1>4, Committed
<1> HIDE DEF commit, all
<1>7. Uploads \in Seq(Message(Size))
  BY <1>2 DEF Message
<1>8. all \in Seq(Message(Size)) /\ Len(all) \in Nat
  BY <1>5, <1>6, <1>7
<1> QED BY <1>8 DEF all

\* What a flush through Telegram has sent after k messages.
LEMMA FlushSent ==
  ASSUME TypesOK, NEW m \in ManifestsOf(Size), NEW k \in 0 .. Len(FlushMessages(m)),
         Send(FlushMessages(m), k), config' = config
  PROVE  /\ ChannelTyped' /\ Len(FlushMessages(m)) \in Nat
         /\ Sent(Size, Uploaded(m, Len(Uploads), last_id), Uploads, FlushMessages(m), k)
<1> DEFINE u == Uploaded(m, Len(Uploads), last_id)
           commit == CommitMessages(u, PinnedSuperblock, last_id + Len(Uploads) + 1)
           all == FlushMessages(m)
<1>1. /\ Size \in Nat /\ ChannelType(Size, last_id, messages) /\ last_id \in Nat
      /\ pinned # 0 => pinned \in Superblocks(messages)
  BY Sizes DEF TypesOK, ChannelType
<1>2. Uploads \in Seq(ObjectMsg) /\ Len(Uploads) \in Nat
  BY UploadsAre
<1>3. u \in ManifestsOf(Size)
  BY <1>1, <1>2, UploadedIs
<1>4. PinnedSuperblock \in Superblock \cup {None}
  BY PinnedIs
<1>5. all = Uploads \o commit
  BY Zenon DEF FlushMessages
<1> HIDE DEF u
<1>6. all \in Seq(Message(Size)) /\ Len(all) \in Nat
  BY FlushTyped
<1> HIDE DEF commit, all
<1>8. pinned' # 0 => pinned' \in Superblocks(messages')
  BY <1>1, <1>6, SendPins DEF all
<1>9. Size' = Size
  BY DEF Size
<1>10. all = Uploads \o CommitMessages(u, PinnedSuperblock, last_id + Len(Uploads) + 1)
  BY <1>5 DEF commit
<1>11. k \in 0 .. Len(all) /\ Send(all, k)
  BY DEF all
<1>12. Sent(Size, u, Uploads, all, k)
  BY <1>1, <1>2, <1>3, <1>4, <1>10, <1>11, CommitSent DEF ObjectsThenCommit
<1>13. ChannelTyped'
  BY <1>8, <1>9, <1>12 DEF ChannelTyped, Sent
<1> QED BY <1>6, <1>12, <1>13 DEF all, u

\* What a format sends.
FormatMessages == CommitMessages(EmptyManifest(NewUuid, Size), PinnedSuperblock, last_id + 1)

\* What a format sends are messages.
LEMMA FormatTyped ==
  ASSUME TypesOK
  PROVE  /\ EmptyManifest(NewUuid, Size) \in ManifestsOf(Size)
         /\ FormatMessages \in Seq(Message(Size)) /\ Len(FormatMessages) \in Nat
<1> DEFINE u == EmptyManifest(NewUuid, Size)
<1>1. Size \in Nat /\ last_id + 1 \in Nat /\ NewUuid \in Nat
  BY Sizes DEF TypesOK, ChannelType, NewUuid, Budget
<1>2. u \in ManifestsOf(Size)
  BY <1>1, EmptyIs
<1>3. PinnedSuperblock \in Superblock \cup {None}
  BY PinnedIs
<1> HIDE DEF u
<1>4. FormatMessages = CommitMessages(u, PinnedSuperblock, last_id + 1)
  BY DEF FormatMessages, u
<1>5. FormatMessages \in Seq(Message(Size))
  BY <1>1, <1>2, <1>3, <1>4, Committed
<1> QED BY <1>2, <1>5 DEF u

\* A format that stops after k messages has sent k of its commit.
LEMMA FormatSent ==
  ASSUME TypesOK, NEW k \in 0 .. Len(FormatMessages), Send(FormatMessages, k), config' = config
  PROVE  ChannelTyped' /\ Sent(Size, EmptyManifest(NewUuid, Size), <<>>, FormatMessages, k)
<1> DEFINE u == EmptyManifest(NewUuid, Size)
           none == <<>>
           all == FormatMessages
<1>1. /\ Size \in Nat /\ ChannelType(Size, last_id, messages) /\ last_id \in Nat
      /\ pinned # 0 => pinned \in Superblocks(messages)
  BY Sizes DEF TypesOK, ChannelType
<1>2. none \in Seq(ObjectMsg) /\ Len(none) = 0 /\ last_id + Len(none) + 1 = last_id + 1
  BY <1>1
<1>3. u \in ManifestsOf(Size)
  BY <1>1, EmptyIs DEF NewUuid, TypesOK, Budget
<1>4. PinnedSuperblock \in Superblock \cup {None}
  BY PinnedIs
<1> HIDE DEF none, u
<1>5. all = CommitMessages(u, PinnedSuperblock, last_id + 1)
  BY DEF FormatMessages, u
<1> HIDE DEF all
<1>6. all \in Seq(Message(Size))
  BY <1>1, <1>3, <1>4, <1>5, Committed
<1>7. none \o all = all
  BY <1>6 DEF none
<1>8. all = none \o CommitMessages(u, PinnedSuperblock, last_id + Len(none) + 1)
  BY <1>2, <1>5, <1>7
<1>9. k \in 0 .. Len(all) /\ Send(all, k)
  BY DEF all
<1>10. Sent(Size, u, none, all, k)
  BY <1>1, <1>2, <1>3, <1>4, <1>8, <1>9, CommitSent DEF ObjectsThenCommit
<1>11. pinned' # 0 => pinned' \in Superblocks(messages')
  BY <1>1, <1>6, <1>9, SendPins
<1>12. Size' = Size
  BY DEF Size
<1>13. ChannelTyped'
  BY <1>10, <1>11, <1>12 DEF ChannelTyped, Sent
<1> QED BY <1>10, <1>13 DEF all, u, none

\* What a rollback to manifest m sends.
RollbackMessages(m, current) ==
  Published(ForManifest(m.device_uuid, "flat_json", current.previous, current), pinned # 0)

\* The channel after some messages of a rollback.
LEMMA RollbackSent ==
  ASSUME TypesOK, NEW m \in ManifestsOf(Size), NEW current \in Superblock, current.previous # None,
         NEW k \in 0 .. Len(RollbackMessages(m, current)), Send(RollbackMessages(m, current), k),
         config' = config
  PROVE  ChannelTyped'
<1> DEFINE all == RollbackMessages(m, current)
           sb == ForManifest(m.device_uuid, "flat_json", current.previous, current)
<1>1. sb \in Superblock
  <2>1. /\ current.previous \in Ref /\ current.current \in Ref /\ m.device_uuid \in Nat
    BY ManifestParts DEF Superblock
  <2>2. (IF current = None THEN None ELSE current.current) \in Ref \cup {None}
    BY <2>1
  <2> QED BY <2>1 DEF ForManifest, Superblock
<1> HIDE DEF sb
<1>2. all \in Seq(Message(Size))
  <2>1. all = Published(sb, pinned # 0)
    BY DEF RollbackMessages, sb
  <2>2. sb \in Message(Size)
    BY <1>1 DEF Message
  <2> HIDE DEF all
  <2>3. <<sb>> \in Seq(Message(Size)) /\ <<sb, sb>> \in Seq(Message(Size))
    BY <2>2
  <2> QED BY <2>1, <2>3 DEF Published
<1>3. ChannelType(Size, last_id, messages) /\ (pinned # 0 => pinned \in Superblocks(messages))
  BY DEF TypesOK
<1>4. ChannelType(Size, last_id', messages')
  BY <1>2, <1>3, SendIs
<1>5. pinned' # 0 => pinned' \in Superblocks(messages')
  BY <1>2, <1>3, SendPins
<1>6. Size' = Size
  BY DEF Size
<1> QED BY <1>4, <1>5, <1>6 DEF ChannelTyped

\* What a garbage collection leaves.
LEMMA Deleted ==
  ASSUME TypesOK, NEW id, GcDelete(id)
  PROVE  /\ ChannelTyped' /\ last_id' = last_id
         /\ DOMAIN messages' = DOMAIN messages \ {id}
         /\ \A i \in DOMAIN messages \ {id} : messages'[i] = messages[i]
         /\ Superblocks(messages') = Superblocks(messages) \ {id}
<1>1. /\ messages' = [i \in DOMAIN messages \ {id} |-> messages[i]]
      /\ pinned' = IF pinned = id THEN 0 ELSE pinned
      /\ last_id' = last_id /\ config' = config
  BY DEF GcDelete
<1>2. ChannelType(Size, last_id, messages) /\ (pinned # 0 => pinned \in Superblocks(messages))
  BY DEF TypesOK
<1>3. /\ DOMAIN messages' = DOMAIN messages \ {id}
      /\ \A i \in DOMAIN messages \ {id} : messages'[i] = messages[i]
  BY <1>1
<1>4. Superblocks(messages') = Superblocks(messages) \ {id}
  BY <1>3 DEF Superblocks
<1>5. ChannelType(Size, last_id, messages')
  BY <1>2, <1>3 DEF ChannelType
<1>6. Size' = Size
  BY <1>1 DEF Size
<1>7. pinned' # 0 => pinned' \in Superblocks(messages')
  BY <1>1, <1>2, <1>4
<1> QED BY <1>1, <1>3, <1>4, <1>5, <1>6, <1>7 DEF ChannelTyped

-----------------------------------------------------------------------------
(* What is stored *)

StoreOK(st) ==
  /\ st \in Stores
  /\ \A o \in Units : st.dirty[o] # 0 => <<o, st.dirty[o]>> \in DOMAIN st.files

\* The store of a machine without a local directory.
LEMMA NothingStored ==
  ASSUME config \in Scenarios
  PROVE  /\ NoDirty \in [Units -> Nat] /\ \A o \in Units : NoDirty[o] = 0
         /\ NoFiles \in Files /\ DOMAIN NoFiles = {}
         /\ StoreOK(NoStore)
<1>1. NoDirty \in [Units -> Nat] /\ \A o \in Units : NoDirty[o] = 0
  BY DEF NoDirty
<1>2. NoFiles \in Files /\ DOMAIN NoFiles = {}
  <2>1. NoFiles \in [{} -> Value] /\ {} \in SUBSET (Nat \X Nat)
    BY DEF NoFiles
  <2> QED BY <2>1, FilesAre DEF NoFiles
<1>3. StoreOK(NoStore)
  BY <1>1, <1>2 DEF StoreOK, NoStore, Stores
<1> QED BY <1>1, <1>2, <1>3

\* What a command saves: manifest m, and the rows d.
Saves(st, m, d) ==
  st.manifest = m /\ st.dirty = d /\ st.files = store.files /\ StoreOK(st)

\* What opening, replacing the manifest and clearing the rows leave in the store.
LEMMA SavesAre ==
  ASSUME TypesOK, NEW m \in ManifestsOf(Size)
  PROVE  /\ Saves(Opened, store.manifest, store.dirty)
         /\ Saves(Replaced(m), m, store.dirty)
         /\ Saves(Flushed(m), m, NoDirty)
<1>1. store \in Stores
  BY DEF TypesOK
<1>2. /\ Opened.manifest = store.manifest /\ Opened.dirty = store.dirty
      /\ Opened.files = store.files /\ Opened \in Stores
  BY <1>1 DEF Opened, Stores
<1>3. \A o \in Units : store.dirty[o] # 0 => <<o, store.dirty[o]>> \in DOMAIN store.files
  BY DEF TypesOK
<1> HIDE DEF Opened
<1>4. /\ Replaced(m).manifest = m /\ Replaced(m).dirty = store.dirty
      /\ Replaced(m).files = store.files /\ Replaced(m) \in Stores
  BY <1>2 DEF Replaced, Stores
<1>5. NoDirty \in [Units -> Nat] /\ \A o \in Units : NoDirty[o] = 0
  BY NothingStored DEF TypesOK
<1>6. /\ Flushed(m).manifest = m /\ Flushed(m).dirty = NoDirty
      /\ Flushed(m).files = store.files /\ Flushed(m) \in Stores
  BY <1>2, <1>5 DEF Flushed, Stores
<1>7. ASSUME NEW st \in Stores, st.dirty = NoDirty PROVE StoreOK(st)
  BY <1>5, <1>7 DEF StoreOK
<1>8. ASSUME NEW st \in Stores, st.dirty = store.dirty, st.files = store.files PROVE StoreOK(st)
  BY <1>3, <1>8 DEF StoreOK
<1> QED BY <1>2, <1>4, <1>6, <1>7, <1>8 DEF Saves

\* The same of the next state.
LEMMA SavedOpened ==
  ASSUME TypesOK, store' = Opened
  PROVE  Saves(store', store.manifest, store.dirty)
<1>1. EmptyManifest(0, Size) \in ManifestsOf(Size)
  BY Sizes, EmptyIs DEF TypesOK
<1>2. Saves(Opened, store.manifest, store.dirty)
  BY <1>1, SavesAre
<1> QED BY <1>2

\* The same where replace_from_manifest was the step.
LEMMA SavedReplaced ==
  ASSUME TypesOK, NEW m \in ManifestsOf(Size), store' = Replaced(m)
  PROVE  Saves(store', m, store.dirty)
<1>1. Saves(Replaced(m), m, store.dirty)
  BY SavesAre
<1> QED BY <1>1

\* The same where save_flushed was the step.
LEMMA SavedFlushed ==
  ASSUME TypesOK, NEW m \in ManifestsOf(Size), store' = Flushed(m)
  PROVE  Saves(store', m, NoDirty)
<1>1. Saves(Flushed(m), m, NoDirty)
  BY SavesAre
<1> QED BY <1>1

\* A cache file is added or replaced.
WithFile(key, v) ==
  [k \in DOMAIN store.files \cup {key} |-> IF k = key THEN v ELSE store.files[k]]

\* A cache file that is written is there, and the others stay.
LEMMA FileAdded ==
  ASSUME TypesOK, NEW key \in Nat \X Nat, NEW v \in Value
  PROVE  /\ WithFile(key, v) \in Files
         /\ DOMAIN WithFile(key, v) = DOMAIN store.files \cup {key}
         /\ WithFile(key, v)[key] = v
         /\ \A k \in DOMAIN store.files : k # key => WithFile(key, v)[k] = store.files[k]
<1> DEFINE f == WithFile(key, v)
<1>1. /\ DOMAIN store.files \subseteq Nat \X Nat
      /\ \A k \in DOMAIN store.files : store.files[k] \in Value
  BY StoreFields
<1>2. f = [k \in DOMAIN store.files \cup {key} |-> IF k = key THEN v ELSE store.files[k]]
  BY DEF WithFile
<1>3. /\ DOMAIN f = DOMAIN store.files \cup {key} /\ f = [k \in DOMAIN f |-> f[k]]
      /\ f[key] = v /\ \A k \in DOMAIN store.files : k # key => f[k] = store.files[k]
  BY <1>2
<1>4. DOMAIN f \subseteq Nat \X Nat /\ \A k \in DOMAIN f : f[k] \in Value
  BY <1>1, <1>3
<1> HIDE DEF f
<1> QED BY <1>3, <1>4, FilesAre DEF f

\* A write marks the object dirty at the next generation and writes its file.
LEMMA WriteIs ==
  ASSUME TypesOK, NEW p \in Processes, NEW o \in Objects, NEW v \in Value, Write(p, o, v)
  PROVE  /\ o \in Units /\ o \in Nat /\ daemons[p] # None
         /\ daemons[p].manifest.generation + 1 \in Nat \ {0}
         /\ store'.exists = store.exists /\ store'.manifest = store.manifest
         /\ store'.dirty = [store.dirty EXCEPT ![o] = daemons[p].manifest.generation + 1]
         /\ store'.files = WithFile(<<o, daemons[p].manifest.generation + 1>>, v)
         /\ StoreOK(store')
<1> DEFINE g == daemons[p].manifest.generation + 1
<1>1. daemons[p] # None /\ daemons[p].manifest \in ManifestsOf(Size)
  BY DEF Write, TypesOK, Daemons
<1>2. g \in Nat \ {0}
  <2>1. daemons[p].manifest.generation \in Nat
    BY <1>1, ManifestParts
  <2> QED BY <2>1
<1>3. o \in Units /\ o \in Nat
  BY Sizes DEF TypesOK
<1>4. store' = [store EXCEPT !.dirty[o] = g, !.files = WithFile(<<o, g>>, v)]
  BY Zenon DEF Write, WithFile
<1> HIDE DEF g
<1>5. store' = [exists |-> store.exists, manifest |-> store.manifest,
                dirty |-> [store.dirty EXCEPT ![o] = g], files |-> WithFile(<<o, g>>, v)]
  <2> DEFINE F == WithFile(<<o, g>>, v)
  <2> HIDE DEF F
  <2>1. store' = [store EXCEPT !.dirty[o] = g, !.files = F]
    BY <1>4 DEF F
  <2>2. store = [exists |-> store.exists, manifest |-> store.manifest,
                 dirty |-> store.dirty, files |-> store.files]
    BY StoreFields
  <2>3. store' = [exists |-> store.exists, manifest |-> store.manifest,
                  dirty |-> [store.dirty EXCEPT ![o] = g], files |-> F]
    BY <2>1, <2>2
  <2> QED BY <2>3 DEF F
<1>6. /\ WithFile(<<o, g>>, v) \in Files
      /\ DOMAIN WithFile(<<o, g>>, v) = DOMAIN store.files \cup {<<o, g>>}
  <2>1. <<o, g>> \in Nat \X Nat
    BY <1>2, <1>3
  <2> QED BY <2>1, FileAdded
<1>7. StoreOK(store')
  <2>1. store' \in Stores
    BY <1>2, <1>3, <1>5, <1>6, StoreFields DEF Stores
  <2>2. ASSUME NEW q \in Units, store'.dirty[q] # 0
        PROVE  <<q, store'.dirty[q]>> \in DOMAIN store'.files
    <3>1. store.dirty[q] # 0 => <<q, store.dirty[q]>> \in DOMAIN store.files
      BY DEF TypesOK
    <3>2. store.dirty \in [Units -> Nat]
      BY StoreFields
    <3>3. CASE q = o
      <4>1. store'.dirty[q] = g
        BY <1>3, <1>5, <3>2, <3>3
      <4> QED BY <1>5, <1>6, <3>3, <4>1
    <3>4. CASE q # o
      <4>1. store'.dirty[q] = store.dirty[q]
        BY <1>5, <3>2, <3>4
      <4> QED BY <1>5, <1>6, <2>2, <3>1, <4>1
    <3> QED BY <3>3, <3>4
  <2> QED BY <2>1, <2>2 DEF StoreOK
<1> QED BY <1>1, <1>2, <1>3, <1>5, <1>7 DEF g

\* The entry a read fetches, and the file it leaves.
ReadEntry(p, o) == daemons[p].manifest.objects[o + 1]

\* A read of the channel leaves a cache file under the entry's generation.
LEMMA ReadIs ==
  ASSUME TypesOK, NEW p \in Processes, NEW o \in Objects, Read(p, o)
  PROVE  /\ o \in Units /\ o \in Nat /\ daemons[p] # None
         /\ daemons[p].manifest \in ManifestsOf(Size)
         /\ ReadEntry(p, o) \in ObjectEntry /\ ReadEntry(p, o).remote # 0
         /\ store.dirty[o] = 0
         /\ <<o, ReadEntry(p, o).generation>> \notin DOMAIN store.files
         /\ store'.exists = store.exists /\ store'.manifest = store.manifest
         /\ store'.dirty = store.dirty
         /\ store'.files = WithFile(<<o, ReadEntry(p, o).generation>>, ReadEntry(p, o).payload)
         /\ StoreOK(store')
<1> DEFINE e == ReadEntry(p, o)
           key == <<o, e.generation>>
<1>1. daemons[p] # None /\ daemons[p].manifest \in ManifestsOf(Size)
  BY DEF Read, TypesOK, Daemons
<1>2. o \in Units /\ o \in Nat /\ o + 1 \in 1 .. Size
  BY Sizes DEF TypesOK
<1>3. e \in ObjectEntry
  BY <1>1, <1>2, ManifestParts DEF ReadEntry
<1>4. /\ store.dirty[o] = 0 /\ e.remote # 0 /\ key \notin DOMAIN store.files
      /\ store' = [store EXCEPT !.files = WithFile(key, e.payload)]
  BY Zenon DEF Read, WithFile, ReadEntry
<1> HIDE DEF e
<1>5. key \in Nat \X Nat /\ e.payload \in Value
  BY <1>2, <1>3 DEF ObjectEntry
<1> HIDE DEF key
<1>6. WithFile(key, e.payload) \in Files /\ DOMAIN WithFile(key, e.payload) = DOMAIN store.files \cup {key}
  BY <1>5, FileAdded
<1>7. store' = [exists |-> store.exists, manifest |-> store.manifest,
                dirty |-> store.dirty, files |-> WithFile(key, e.payload)]
  <2> DEFINE F == WithFile(key, e.payload)
  <2> HIDE DEF F
  <2>1. store' = [store EXCEPT !.files = F]
    BY <1>4 DEF F
  <2>2. store = [exists |-> store.exists, manifest |-> store.manifest,
                 dirty |-> store.dirty, files |-> store.files]
    BY StoreFields
  <2>3. store' = [exists |-> store.exists, manifest |-> store.manifest,
                  dirty |-> store.dirty, files |-> F]
    BY <2>1, <2>2
  <2> QED BY <2>3 DEF F
<1>8. StoreOK(store')
  <2>1. store' \in Stores
    BY <1>6, <1>7, StoreFields DEF Stores
  <2>2. ASSUME NEW q \in Units, store'.dirty[q] # 0
        PROVE  <<q, store'.dirty[q]>> \in DOMAIN store'.files
    <3>1. store.dirty[q] # 0 => <<q, store.dirty[q]>> \in DOMAIN store.files
      BY DEF TypesOK
    <3> QED BY <1>6, <1>7, <2>2, <3>1
  <2> QED BY <2>1, <2>2 DEF StoreOK
<1> QED BY <1>1, <1>2, <1>3, <1>4, <1>7, <1>8 DEF e, key

-----------------------------------------------------------------------------
(* Type correctness *)

\* What a step spends of its budget.
LEMMA BudgetIs ==
  ASSUME budget \in Budget
  PROVE  /\ budget.faults \in Nat /\ budget.formats \in Nat
         /\ Spend("writes") => /\ budget' \in Budget /\ budget'.formats = budget.formats
                               /\ budget'.faults = budget.faults
         /\ Spend("flushes") => /\ budget' \in Budget /\ budget'.formats = budget.formats
                                /\ budget'.faults = budget.faults
         /\ Spend("losses") => /\ budget' \in Budget /\ budget'.formats = budget.formats
                               /\ budget'.faults = budget.faults
         /\ Spend("rollbacks") => budget' \in Budget
         /\ Spend("faults") => budget' \in Budget
         /\ Spend("formats") => /\ budget' \in Budget /\ budget'.formats = budget.formats - 1
                                /\ budget.formats > 0 /\ budget'.faults = budget.faults
         /\ (/\ budget.flushes > 0 /\ budget.faults > 0
             /\ budget' = [budget EXCEPT !.flushes = @ - 1, !.faults = @ - 1]) =>
              budget' \in Budget /\ budget'.formats = budget.formats /\ budget'.faults = budget.faults - 1
         /\ (/\ budget.formats > 0 /\ budget.faults > 0
             /\ budget' = [budget EXCEPT !.formats = @ - 1, !.faults = @ - 1]) =>
              /\ budget' \in Budget /\ budget'.formats = budget.formats - 1
              /\ budget'.faults = budget.faults - 1
<1>1. /\ budget.formats \in Nat /\ budget.writes \in Nat /\ budget.flushes \in Nat
      /\ budget.rollbacks \in Nat /\ budget.faults \in Nat /\ budget.losses \in Nat
  BY DEF Budget
<1>2. Spend("writes") => /\ budget' \in Budget /\ budget'.formats = budget.formats
                         /\ budget'.faults = budget.faults
  BY DEF Budget, Spend
<1>3. Spend("flushes") => /\ budget' \in Budget /\ budget'.formats = budget.formats
                          /\ budget'.faults = budget.faults
  BY DEF Budget, Spend
<1>4. Spend("losses") => /\ budget' \in Budget /\ budget'.formats = budget.formats
                         /\ budget'.faults = budget.faults
  BY DEF Budget, Spend
<1>5. Spend("rollbacks") => budget' \in Budget
  BY DEF Budget, Spend
<1>6. Spend("faults") => budget' \in Budget
  BY DEF Budget, Spend
<1>7. Spend("formats") => /\ budget' \in Budget /\ budget'.formats = budget.formats - 1
                          /\ budget.formats > 0 /\ budget'.faults = budget.faults
  BY DEF Budget, Spend
<1>8. (/\ budget.flushes > 0 /\ budget.faults > 0
       /\ budget' = [budget EXCEPT !.flushes = @ - 1, !.faults = @ - 1]) =>
           /\ budget' \in Budget /\ budget'.formats = budget.formats
           /\ budget'.faults = budget.faults - 1
  <2> DEFINE once == [budget EXCEPT !.flushes = budget.flushes - 1]
  <2>1. budget.flushes > 0 => /\ once \in Budget /\ once.faults = budget.faults
                           /\ once.formats = budget.formats
    BY DEF Budget
  <2>2. budget' = [budget EXCEPT !.flushes = @ - 1, !.faults = @ - 1] =>
          budget' = [once EXCEPT !.faults = budget.faults - 1]
    BY Zenon
  <2> HIDE DEF once
  <2>3. once \in Budget /\ budget.faults > 0 /\ budget' = [once EXCEPT !.faults = budget.faults - 1] =>
          /\ budget' \in Budget /\ budget'.formats = once.formats
          /\ budget'.faults = budget.faults - 1
    BY <1>1 DEF Budget
  <2> QED BY <2>1, <2>2, <2>3
<1>9. (/\ budget.formats > 0 /\ budget.faults > 0
       /\ budget' = [budget EXCEPT !.formats = @ - 1, !.faults = @ - 1]) =>
           /\ budget' \in Budget /\ budget'.formats = budget.formats - 1
           /\ budget'.faults = budget.faults - 1
  <2> DEFINE once == [budget EXCEPT !.formats = budget.formats - 1]
  <2>1. budget.formats > 0 => /\ once \in Budget /\ once.faults = budget.faults
                           /\ once.formats = budget.formats - 1
    BY DEF Budget
  <2>2. budget' = [budget EXCEPT !.formats = @ - 1, !.faults = @ - 1] =>
          budget' = [once EXCEPT !.faults = budget.faults - 1]
    BY Zenon
  <2> HIDE DEF once
  <2>3. once \in Budget /\ budget.faults > 0 /\ budget' = [once EXCEPT !.faults = budget.faults - 1] =>
          /\ budget' \in Budget /\ budget'.formats = once.formats
          /\ budget'.faults = budget.faults - 1
    BY <1>1 DEF Budget
  <2> QED BY <2>1, <2>2, <2>3
<1> QED BY <1>1, <1>2, <1>3, <1>4, <1>5, <1>6, <1>7, <1>8, <1>9

\* The type invariant after a step, from its parts.
LEMMA TypesFrom ==
  ASSUME TypesOK, config' = config, ChannelTyped', StoreOK(store'), mount_lock' \in BOOLEAN,
         daemons' \in [Processes -> Daemons \cup {None}], gc' \in SUBSET Nat,
         fetched' \in ManifestsOf(Size) \cup {None}, budget' \in Budget
  PROVE  TypesOK'
<1>1. Size' = Size
  BY DEF Size
<1>2. Stores' = Stores /\ Daemons' = Daemons
  BY <1>1 DEF Stores, Daemons
<1>3. store' \in Stores' /\ \A o \in Units : store'.dirty[o] # 0 => <<o, store'.dirty[o]>> \in DOMAIN store'.files
  BY <1>2 DEF StoreOK
<1>4. daemons' \in [Processes -> Daemons' \cup {None}] /\ fetched' \in ManifestsOf(Size') \cup {None}
  BY <1>1, <1>2
<1>5. config' \in Scenarios
  BY DEF TypesOK
<1>6. ChannelType(Size', last_id', messages') /\ (pinned' # 0 => pinned' \in Superblocks(messages'))
  BY DEF ChannelTyped
<1> QED BY <1>3, <1>4, <1>5, <1>6, Zenon DEF TypesOK

\* A step that leaves the channel alone.
LEMMA SameChannel ==
  ASSUME TypesOK, UNCHANGED remote, config' = config
  PROVE  ChannelTyped'
<1>1. Size' = Size
  BY DEF Size
<1> QED BY <1>1 DEF TypesOK, ChannelTyped, remote

\* A running daemon.
LEMMA DaemonIs ==
  ASSUME TypesOK, NEW p \in Processes, daemons[p] # None
  PROVE  /\ daemons[p] \in Daemons /\ daemons[p].manifest \in ManifestsOf(Size)
         /\ daemons[p].memory \in Memory \cup {None}
         /\ daemons[p].memory # None => daemons[p].memory \in Seq(ObjectMsg)
<1>1. daemons[p] \in Daemons
  BY DEF TypesOK
<1> QED BY <1>1 DEF Daemons, Memory, ObjectMsg

\* A daemon's manifest, or the daemon, is replaced.
LEMMA DaemonSet ==
  ASSUME TypesOK, NEW p \in Processes
  PROVE  /\ [daemons EXCEPT ![p] = None] \in [Processes -> Daemons \cup {None}]
         /\ daemons[p] # None =>
              \A m : [daemons EXCEPT ![p].manifest = m] =
                       [daemons EXCEPT ![p] = [manifest |-> m, memory |-> daemons[p].memory]]
<1>1. daemons \in [Processes -> Daemons \cup {None}]
  BY DEF TypesOK
<1>2. [daemons EXCEPT ![p] = None] \in [Processes -> Daemons \cup {None}]
  BY <1>1
<1>4. ASSUME daemons[p] # None, NEW m
      PROVE  [daemons EXCEPT ![p].manifest = m] =
               [daemons EXCEPT ![p] = [manifest |-> m, memory |-> daemons[p].memory]]
  <2>1. daemons[p] = [manifest |-> daemons[p].manifest, memory |-> daemons[p].memory]
    BY <1>4, DaemonIs DEF Daemons
  <2>2. [daemons[p] EXCEPT !.manifest = m] = [manifest |-> m, memory |-> daemons[p].memory]
    BY <2>1
  <2>3. [daemons EXCEPT ![p].manifest = m] = [daemons EXCEPT ![p] = [daemons[p] EXCEPT !.manifest = m]]
    BY <1>1
  <2> QED BY <2>2, <2>3
<1> QED BY <1>2, <1>4

\* A daemon that serves another manifest is still one.
LEMMA DaemonReplaced ==
  ASSUME TypesOK, NEW p \in Processes, NEW m \in ManifestsOf(Size), NEW b \in Memory \cup {None},
         daemons' = [daemons EXCEPT ![p] = [manifest |-> m, memory |-> b]]
  PROVE  daemons' \in [Processes -> Daemons \cup {None}]
<1>1. daemons \in [Processes -> Daemons \cup {None}]
  BY DEF TypesOK
<1>2. [manifest |-> m, memory |-> b] \in Daemons
  BY DEF Daemons
<1> QED BY <1>1, <1>2

\* The manifest of a flush that stops after some of the uploads.
LEMMA PartIs ==
  ASSUME TypesOK, NEW m \in ManifestsOf(Size), NEW k \in Nat, NEW acked \in {k - 1, k} \cap Nat
  PROVE  /\ Min({acked, Len(Uploads)}) \in Nat
         /\ Min({acked, Len(Uploads)}) = IF acked <= Len(Uploads) THEN acked ELSE Len(Uploads)
         /\ Uploaded(m, Min({acked, Len(Uploads)}), last_id) \in ManifestsOf(Size)
<1>1. Len(Uploads) \in Nat /\ acked \in Nat /\ last_id \in Nat
  BY UploadsAre DEF TypesOK, ChannelType
<1>2. Min({acked, Len(Uploads)}) = IF acked <= Len(Uploads) THEN acked ELSE Len(Uploads)
  BY <1>1, MinOfTwo
<1>3. Min({acked, Len(Uploads)}) \in Nat
  BY <1>1, <1>2
<1> QED BY <1>1, <1>2, <1>3, UploadedIs

\* The first state has the types.
LEMMA InitTypes == Init => TypesOK
<1> SUFFICES ASSUME Init PROVE TypesOK
  OBVIOUS
<1>1. /\ config \in Scenarios /\ messages = [i \in {} |-> None] /\ last_id = 0 /\ pinned = 0
      /\ store = NoStore /\ mount_lock = FALSE /\ daemons = [p \in Processes |-> None]
      /\ gc = {} /\ fetched = None /\ budget = config.budget
  BY DEF Init
<1>2. ChannelType(Size, last_id, messages)
  BY <1>1 DEF ChannelType
<1>3. StoreOK(store)
  BY <1>1, NothingStored
<1>4. budget \in Budget
  BY <1>1, LifecycleAssumption
<1>5. daemons \in [Processes -> Daemons \cup {None}] /\ gc \in SUBSET Nat
      /\ fetched \in ManifestsOf(Size) \cup {None} /\ mount_lock \in BOOLEAN
  BY <1>1
<1> QED BY <1>1, <1>2, <1>3, <1>4, <1>5 DEF TypesOK, StoreOK

\* The steps of a daemon keep the types.
LEMMA DaemonTypes ==
  ASSUME TypesOK, NEW p \in Processes, Daemon(p)
  PROVE  TypesOK'
<1>1. /\ ChannelType(Size, last_id, messages) /\ StoreOK(store) /\ mount_lock \in BOOLEAN
      /\ daemons \in [Processes -> Daemons \cup {None}] /\ gc \in SUBSET Nat
      /\ fetched \in ManifestsOf(Size) \cup {None} /\ budget \in Budget /\ last_id \in Nat
  BY DEF TypesOK, StoreOK, ChannelType
<1>2. Size \in Nat
  BY Sizes DEF TypesOK
<1>3. CASE Serve(p)
  <2>1. /\ UNCHANGED <<config, remote, commands, budget>> /\ mount_lock' = TRUE
        /\ daemons' = [daemons EXCEPT ![p] = [manifest |-> store'.manifest, memory |-> None]]
        /\ \/ store.manifest # None /\ store' = Opened
           \/ RecoverManifest(messages) # None /\ store' = Replaced(RecoverManifest(messages))
    BY <1>3, Zenon DEF Serve, Acquire
  <2>2. StoreOK(store') /\ store'.manifest \in ManifestsOf(Size)
    <3>1. CASE store.manifest # None /\ store' = Opened
      BY <3>1, SavedOpened, StoreFields DEF Saves
    <3>2. CASE RecoverManifest(messages) # None /\ store' = Replaced(RecoverManifest(messages))
      <4>1. RecoverManifest(messages) \in ManifestsOf(Size)
        BY <1>1, <1>2, <3>2, RecoverManifestType
      <4> QED BY <3>2, <4>1, SavedReplaced DEF Saves
    <3> QED BY <2>1, <3>1, <3>2
  <2>3. daemons' \in [Processes -> Daemons \cup {None}]
    BY <2>1, <2>2, DaemonReplaced
  <2>4. ChannelTyped'
    BY <2>1, SameChannel
  <2> QED BY <1>1, <2>1, <2>2, <2>3, <2>4, TypesFrom DEF commands
<1>4. CASE ServeLocal(p)
  <2>1. /\ UNCHANGED <<config, remote, store, commands, budget>> /\ mount_lock' = TRUE
        /\ store.manifest # None
        /\ daemons' = [daemons EXCEPT ![p] = [manifest |-> store.manifest, memory |-> <<>>]]
    BY <1>4, Zenon DEF ServeLocal, Acquire
  <2>2. store.manifest \in ManifestsOf(Size) /\ <<>> \in Memory \cup {None}
    BY <2>1, StoreFields DEF Memory
  <2>3. daemons' \in [Processes -> Daemons \cup {None}]
    BY <2>1, <2>2, DaemonReplaced
  <2>4. ChannelTyped'
    BY <2>1, SameChannel
  <2> QED BY <1>1, <2>1, <2>3, <2>4, TypesFrom DEF commands
<1>5. CASE Stop(p)
  <2>1. /\ UNCHANGED <<config, remote, store, commands, budget>> /\ mount_lock' \in BOOLEAN
        /\ daemons' = [daemons EXCEPT ![p] = None]
    BY <1>5, Zenon DEF Stop
  <2>2. daemons' \in [Processes -> Daemons \cup {None}]
    BY <2>1, DaemonSet
  <2>3. ChannelTyped'
    BY <2>1, SameChannel
  <2> QED BY <1>1, <2>1, <2>2, <2>3, TypesFrom DEF commands
<1>6. CASE \E o \in Objects : Read(p, o)
  <2>1. PICK o \in Objects : Read(p, o)
    BY <1>6
  <2>2. UNCHANGED <<config, remote, mount_lock, daemons, commands, budget>>
    BY <2>1, Zenon DEF Read
  <2>3. StoreOK(store')
    BY <2>1, ReadIs
  <2>4. ChannelTyped'
    BY <2>2, SameChannel
  <2> QED BY <1>1, <2>2, <2>3, <2>4, TypesFrom DEF commands
<1>7. CASE \E o \in Objects : \E v \in Value : Write(p, o, v)
  <2>1. PICK o \in Objects, v \in Value : Write(p, o, v)
    BY <1>7
  <2>2. UNCHANGED <<config, remote, mount_lock, daemons, commands>> /\ Spend("writes")
    BY <2>1, Zenon DEF Write
  <2>3. StoreOK(store')
    BY <2>1, WriteIs
  <2>4. ChannelTyped'
    BY <2>2, SameChannel
  <2>5. budget' \in Budget
    BY <1>1, <2>2, BudgetIs
  <2> QED BY <1>1, <2>2, <2>3, <2>4, <2>5, TypesFrom DEF commands
<1>8. CASE Flush(p)
  <2> DEFINE m == daemons[p].manifest
             u == Uploaded(m, Len(Uploads), last_id)
             k == Len(FlushMessages(m))
  <2>1. /\ UNCHANGED <<config, mount_lock, commands>> /\ Spend("flushes")
        /\ daemons[p] # None /\ daemons[p].memory = None /\ DirtyIds # {}
        /\ Send(FlushMessages(m), k)
        /\ daemons' = [daemons EXCEPT ![p].manifest = u] /\ store' = Flushed(u)
    BY <1>8, Zenon DEF Flush
  <2>2. m \in ManifestsOf(Size)
    BY <2>1, DaemonIs
  <2> HIDE DEF m
  <2>3. Len(Uploads) \in Nat /\ u \in ManifestsOf(Size)
    <3>1. Len(Uploads) \in Nat
      BY UploadsAre
    <3> QED BY <1>1, <2>2, <3>1, UploadedIs
  <2> HIDE DEF u
  <2>4. k \in 0 .. Len(FlushMessages(m))
    <3>1. FlushMessages(m) \in Seq(Message(Size))
      BY <2>2, FlushTyped
    <3> QED BY <3>1
  <2>5. ChannelTyped'
    BY <2>1, <2>2, <2>4, FlushSent
  <2>6. StoreOK(store')
    BY <2>1, <2>3, SavedFlushed DEF Saves
  <2>7. daemons' \in [Processes -> Daemons \cup {None}]
    <3>1. daemons' = [daemons EXCEPT ![p] = [manifest |-> u, memory |-> None]]
      BY <2>1, DaemonSet
    <3> QED BY <2>3, <3>1, DaemonReplaced
  <2>8. budget' \in Budget
    BY <1>1, <2>1, BudgetIs
  <2> QED BY <1>1, <2>1, <2>5, <2>6, <2>7, <2>8, TypesFrom DEF commands
<1>9. CASE FlushFails(p)
  <2> DEFINE m == daemons[p].manifest
             n == Len(Uploads)
             u == Uploaded(m, n, last_id)
             all == FlushMessages(m)
  <2>1. /\ UNCHANGED <<config, mount_lock, commands>>
        /\ budget.flushes > 0 /\ budget.faults > 0
        /\ budget' = [budget EXCEPT !.flushes = @ - 1, !.faults = @ - 1]
        /\ daemons[p] # None /\ daemons[p].memory = None /\ DirtyIds # {}
    BY <1>9, Zenon DEF FlushFails
  <2>2. PICK k \in 0 .. Len(all) :
          /\ Send(all, k)
          /\ \/ \E acked \in {k - 1, k} \cap Nat :
                  daemons' = [daemons EXCEPT ![p].manifest = Uploaded(m, Min({acked, n}), last_id)]
             \/ daemons' = [daemons EXCEPT ![p] = None]
          /\ store' = store \/ store' = Replaced(u)
    BY <1>9, Zenon DEF FlushFails
  <2>3. m \in ManifestsOf(Size)
    BY <2>1, DaemonIs
  <2> HIDE DEF m
  <2>4. n \in Nat /\ u \in ManifestsOf(Size)
    <3>1. n \in Nat
      BY UploadsAre
    <3> QED BY <1>1, <2>3, <3>1, UploadedIs
  <2>5. ChannelTyped'
    BY <2>1, <2>2, <2>3, FlushSent
  <2>6. StoreOK(store')
    <3> HIDE DEF u
    <3>1. store' = Replaced(u) => Saves(store', u, store.dirty)
      BY <2>4, SavedReplaced
    <3> QED BY <1>1, <2>2, <3>1 DEF Saves
  <2>7. daemons' \in [Processes -> Daemons \cup {None}]
    <3>1. CASE daemons' = [daemons EXCEPT ![p] = None]
      BY <3>1, DaemonSet
    <3>2. CASE \E acked \in {k - 1, k} \cap Nat :
                 daemons' = [daemons EXCEPT ![p].manifest = Uploaded(m, Min({acked, n}), last_id)]
      <4>1. PICK acked \in {k - 1, k} \cap Nat :
              daemons' = [daemons EXCEPT ![p].manifest = Uploaded(m, Min({acked, n}), last_id)]
        BY <3>2
      <4> DEFINE w == Uploaded(m, Min({acked, n}), last_id)
      <4>2. w \in ManifestsOf(Size)
        BY <2>3, PartIs
      <4> HIDE DEF w
      <4>3. daemons' = [daemons EXCEPT ![p] = [manifest |-> w, memory |-> daemons[p].memory]]
        BY <2>1, <4>1, DaemonSet DEF w
      <4>4. daemons[p].memory \in Memory \cup {None}
        BY <2>1, DaemonIs
      <4> QED BY <4>2, <4>3, <4>4, DaemonReplaced
    <3> QED BY <2>2, <3>1, <3>2
  <2>8. budget' \in Budget
    BY <1>1, <2>1, BudgetIs
  <2> QED BY <1>1, <2>1, <2>5, <2>6, <2>7, <2>8, TypesFrom DEF commands
<1>10. CASE FlushLocal(p)
  <2> DEFINE b == daemons[p].memory
             m == Uploaded(daemons[p].manifest, Len(Uploads), Len(b))
  <2>1. /\ UNCHANGED <<config, remote, mount_lock, commands>> /\ Spend("flushes")
        /\ daemons[p] # None /\ b # None /\ DirtyIds # {}
        /\ daemons' = [daemons EXCEPT ![p] = [manifest |-> m, memory |-> @.memory \o Uploads]]
        /\ store' = Flushed(m)
    BY <1>10, Zenon DEF FlushLocal
  <2>2. b \in Seq(ObjectMsg) /\ daemons[p].manifest \in ManifestsOf(Size)
    BY <2>1, DaemonIs
  <2>3. Uploads \in Seq(ObjectMsg) /\ Len(Uploads) \in Nat
    BY UploadsAre
  <2>4. m \in ManifestsOf(Size)
    <3>1. Len(b) \in Nat
      BY <2>2
    <3> QED BY <2>2, <2>3, <3>1, UploadedIs
  <2>5. daemons' = [daemons EXCEPT ![p] = [manifest |-> m, memory |-> b \o Uploads]]
    BY <1>1, <2>1
  <2> HIDE DEF m
  <2>6. b \o Uploads \in Memory \cup {None}
    <3> HIDE DEF b
    <3>1. b \o Uploads \in Seq(ObjectMsg)
      BY <2>2, <2>3
    <3> QED BY <3>1 DEF Memory, ObjectMsg
  <2> HIDE DEF b
  <2>7. daemons' \in [Processes -> Daemons \cup {None}]
    BY <2>4, <2>5, <2>6, DaemonReplaced
  <2>8. StoreOK(store')
    BY <2>1, <2>4, SavedFlushed DEF Saves
  <2>9. ChannelTyped'
    BY <2>1, SameChannel
  <2>10. budget' \in Budget
    BY <1>1, <2>1, BudgetIs
  <2> QED BY <1>1, <2>1, <2>7, <2>8, <2>9, <2>10, TypesFrom DEF commands
<1> QED BY <1>3, <1>4, <1>5, <1>6, <1>7, <1>8, <1>9, <1>10 DEF Daemon

\* What a rollback publishes: the previous manifest of the superblock in force.
LEMMA RollbackIs ==
  ASSUME TypesOK, Rollback \/ RollbackFails
  PROVE  \E m \in ManifestsOf(Size), current \in Superblock :
           /\ current.previous # None
           /\ \E k \in 0 .. Len(RollbackMessages(m, current)) : Send(RollbackMessages(m, current), k)
           /\ Rollback => store' = Replaced(m)
<1> DEFINE current == messages[RecoverSuperblock(messages)]
           m == FetchManifest(messages, current.encoding, current.previous)
           all == RollbackMessages(m, current)
<1>1. /\ RecoverSuperblock(messages) # 0 /\ current.previous # None /\ m # None
      /\ (\E k \in 0 .. Len(all) : Send(all, k)) \/ Send(all, Len(all))
      /\ Rollback => store' = Replaced(m)
  BY Zenon DEF Rollback, RollbackFails, RollbackMessages
<1>2. Size \in Nat /\ ChannelType(Size, last_id, messages)
  BY Sizes DEF TypesOK
<1>3. \A i \in DOMAIN messages : messages[i] \in Message(Size)
  BY <1>2 DEF ChannelType
<1>4. current \in Superblock
  BY <1>1, <1>2, RecoverSuperblockIs, SuperblockType
<1> HIDE DEF current
<1>5. m \in ManifestsOf(Size)
  BY <1>1, <1>2, <1>3, FetchManifestType
<1> HIDE DEF m
<1>6. Len(all) \in Nat
  <2> DEFINE sb == ForManifest(m.device_uuid, "flat_json", current.previous, current)
  <2>1. all = Published(sb, pinned # 0)
    BY DEF RollbackMessages
  <2> HIDE DEF sb, all
  <2> QED BY <2>1 DEF Published
<1>7. \E k \in 0 .. Len(all) : Send(all, k)
  <2>1. Len(all) \in 0 .. Len(all)
    BY <1>6
  <2> QED BY <1>1, <2>1
<1> QED BY <1>1, <1>4, <1>5, <1>7

\* What a format sends.
LEMMA FormatIs ==
  ASSUME TypesOK, NEW force, NEW local_only, Format(force, local_only)
  PROVE  /\ EmptyManifest(NewUuid, Size) \in ManifestsOf(Size)
         /\ Formattable(force, local_only) /\ Spend("formats")
         /\ store' = Replaced(EmptyManifest(NewUuid, Size))
         /\ UNCHANGED <<config, mount_lock, daemons, commands>>
         /\ \/ local_only /\ UNCHANGED remote
            \/ ~local_only /\ Len(FormatMessages) \in Nat /\ Send(FormatMessages, Len(FormatMessages))
<1>1. /\ Formattable(force, local_only) /\ Spend("formats")
      /\ store' = Replaced(EmptyManifest(NewUuid, Size))
      /\ UNCHANGED <<config, mount_lock, daemons, commands>>
      /\ \/ local_only /\ UNCHANGED remote
         \/ ~local_only /\ Send(FormatMessages, Len(FormatMessages))
  BY Zenon DEF Format, FormatMessages, Size
<1>2. EmptyManifest(NewUuid, Size) \in ManifestsOf(Size) /\ Len(FormatMessages) \in Nat
  BY FormatTyped
<1> QED BY <1>1, <1>2

\* The commands keep the types.
LEMMA CommandTypes ==
  ASSUME TypesOK, Command
  PROVE  TypesOK'
<1>1. /\ ChannelType(Size, last_id, messages) /\ StoreOK(store) /\ mount_lock \in BOOLEAN
      /\ daemons \in [Processes -> Daemons \cup {None}] /\ gc \in SUBSET Nat
      /\ fetched \in ManifestsOf(Size) \cup {None} /\ budget \in Budget /\ last_id \in Nat
  BY DEF TypesOK, StoreOK, ChannelType
<1>2. Size \in Nat
  BY Sizes DEF TypesOK
<1>3. CASE OpenStore
  <2>1. store' = Opened /\ UNCHANGED <<config, remote, mount_lock, daemons, commands, budget>>
    BY <1>3, Zenon DEF OpenStore
  <2>2. StoreOK(store') /\ ChannelTyped'
    BY <2>1, SavedOpened, SameChannel DEF Saves
  <2> QED BY <1>1, <2>1, <2>2, TypesFrom DEF commands
<1>4. CASE RemoveLock
  <2>1. mount_lock' = FALSE /\ UNCHANGED <<config, remote, store, daemons, commands, budget>>
    BY <1>4, Zenon DEF RemoveLock
  <2>2. ChannelTyped'
    BY <2>1, SameChannel
  <2> QED BY <1>1, <2>1, <2>2, TypesFrom DEF commands
<1>5. CASE LoseMachine
  <2>1. /\ Spend("losses") /\ store' = NoStore /\ mount_lock' = FALSE
        /\ daemons' = [p \in Processes |-> None] /\ gc' = {} /\ fetched' = None
        /\ UNCHANGED <<config, remote>>
    BY <1>5, Zenon DEF LoseMachine
  <2>2. StoreOK(store') /\ ChannelTyped'
    BY <2>1, NothingStored, SameChannel DEF TypesOK
  <2>3. daemons' \in [Processes -> Daemons \cup {None}]
    BY <2>1
  <2>4. budget' \in Budget
    BY <1>1, <2>1, BudgetIs
  <2> QED BY <1>1, <2>1, <2>2, <2>3, <2>4, TypesFrom
<1>6. CASE \E force \in BOOLEAN : FormatFails(force)
  <2>1. PICK force \in BOOLEAN : FormatFails(force)
    BY <1>6
  <2>2. /\ budget.formats > 0 /\ budget.faults > 0
        /\ budget' = [budget EXCEPT !.formats = @ - 1, !.faults = @ - 1]
        /\ \E k \in 0 .. Len(FormatMessages) : Send(FormatMessages, k)
        /\ store' = Opened
        /\ UNCHANGED <<config, mount_lock, daemons, commands>>
    BY <2>1, Zenon DEF FormatFails, FormatMessages, Size
  <2>3. StoreOK(store')
    BY <2>2, SavedOpened DEF Saves
  <2>4. ChannelTyped'
    BY <2>2, FormatSent
  <2>5. budget' \in Budget
    BY <1>1, <2>2, BudgetIs
  <2> QED BY <1>1, <2>2, <2>3, <2>4, <2>5, TypesFrom DEF commands
<1>7. CASE \E force, local_only \in BOOLEAN : Format(force, local_only)
  <2>1. PICK force \in BOOLEAN, local_only \in BOOLEAN : Format(force, local_only)
    BY <1>7
  <2>2. /\ EmptyManifest(NewUuid, Size) \in ManifestsOf(Size) /\ Spend("formats")
        /\ store' = Replaced(EmptyManifest(NewUuid, Size))
        /\ UNCHANGED <<config, mount_lock, daemons, commands>>
        /\ \/ UNCHANGED remote
           \/ Len(FormatMessages) \in Nat /\ Send(FormatMessages, Len(FormatMessages))
    BY <2>1, FormatIs
  <2>3. StoreOK(store')
    BY <2>2, SavedReplaced DEF Saves
  <2>4. ChannelTyped'
    <3>1. CASE UNCHANGED remote
      BY <2>2, <3>1, SameChannel
    <3>2. CASE Len(FormatMessages) \in Nat /\ Send(FormatMessages, Len(FormatMessages))
      <4>1. Len(FormatMessages) \in 0 .. Len(FormatMessages)
        BY <3>2
      <4> QED BY <2>2, <3>2, <4>1, FormatSent
    <3> QED BY <2>2, <3>1, <3>2
  <2>5. budget' \in Budget
    BY <1>1, <2>2, BudgetIs
  <2> QED BY <1>1, <2>2, <2>3, <2>4, <2>5, TypesFrom DEF commands
<1>8. CASE RecoverFetch
  <2>1. /\ RecoverManifest(messages) # None /\ fetched' = RecoverManifest(messages)
        /\ UNCHANGED <<config, remote, store, mount_lock, daemons, gc, budget>>
    BY <1>8, Zenon DEF RecoverFetch
  <2>2. fetched' \in ManifestsOf(Size) \cup {None}
    BY <1>1, <1>2, <2>1, RecoverManifestType
  <2>3. ChannelTyped'
    BY <2>1, SameChannel
  <2> QED BY <1>1, <2>1, <2>2, <2>3, TypesFrom
<1>9. CASE RecoverReplace
  <2>1. /\ fetched # None /\ store' = Replaced(fetched) /\ fetched' = None
        /\ UNCHANGED <<config, remote, mount_lock, daemons, gc, budget>>
    BY <1>9, Zenon DEF RecoverReplace
  <2>2. StoreOK(store') /\ ChannelTyped'
    BY <1>1, <2>1, SavedReplaced, SameChannel DEF Saves
  <2> QED BY <1>1, <2>1, <2>2, TypesFrom
<1>10. CASE GcStart
  <2>1. /\ store.manifest # None /\ gc' = store.manifest.garbage
        /\ UNCHANGED <<config, remote, store, mount_lock, daemons, fetched, budget>>
    BY <1>10, Zenon DEF GcStart
  <2>2. gc' \in SUBSET Nat
    BY <2>1, StoreFields, ManifestParts
  <2>3. ChannelTyped'
    BY <2>1, SameChannel
  <2> QED BY <1>1, <2>1, <2>2, <2>3, TypesFrom
<1>11. CASE GcFails
  <2>1. gc' = {} /\ UNCHANGED <<config, remote, store, mount_lock, daemons, fetched, budget>>
    BY <1>11, Zenon DEF GcFails
  <2>2. ChannelTyped'
    BY <2>1, SameChannel
  <2> QED BY <1>1, <2>1, <2>2, TypesFrom
<1>12. CASE \E id \in gc : GcDelete(id)
  <2>1. PICK id \in gc : GcDelete(id)
    BY <1>12
  <2>2. gc' = gc \ {id} /\ UNCHANGED <<config, store, mount_lock, daemons, fetched, budget>>
    BY <2>1, Zenon DEF GcDelete
  <2>3. ChannelTyped'
    BY <2>1, Deleted
  <2> QED BY <1>1, <2>2, <2>3, TypesFrom
<1>13. CASE Rollback
  <2>1. Spend("rollbacks") /\ UNCHANGED <<config, mount_lock, daemons, commands>>
    BY <1>13, Zenon DEF Rollback
  <2>2. PICK m \in ManifestsOf(Size), current \in Superblock :
          /\ current.previous # None
          /\ \E k \in 0 .. Len(RollbackMessages(m, current)) : Send(RollbackMessages(m, current), k)
          /\ store' = Replaced(m)
    BY <1>13, RollbackIs
  <2>3. ChannelTyped'
    BY <2>1, <2>2, RollbackSent
  <2>4. StoreOK(store')
    BY <2>2, SavedReplaced DEF Saves
  <2>5. budget' \in Budget
    BY <1>1, <2>1, BudgetIs
  <2> QED BY <1>1, <2>1, <2>3, <2>4, <2>5, TypesFrom DEF commands
<1>14. CASE RollbackFails
  <2>1. Spend("faults") /\ UNCHANGED <<config, store, mount_lock, daemons, commands>>
    BY <1>14, Zenon DEF RollbackFails
  <2>2. PICK m \in ManifestsOf(Size), current \in Superblock :
          /\ current.previous # None
          /\ \E k \in 0 .. Len(RollbackMessages(m, current)) : Send(RollbackMessages(m, current), k)
    BY <1>14, RollbackIs
  <2>3. ChannelTyped'
    BY <2>1, <2>2, RollbackSent
  <2>4. budget' \in Budget
    BY <1>1, <2>1, BudgetIs
  <2> QED BY <1>1, <2>1, <2>3, <2>4, TypesFrom DEF commands
<1>15. CASE FlushCommand
  <2> DEFINE m == Uploaded(store.manifest, Len(Uploads), 0)
  <2>1. /\ store.manifest # None /\ store' = Flushed(m)
        /\ UNCHANGED <<config, remote, mount_lock, daemons, commands, budget>>
    BY <1>15, Zenon DEF FlushCommand
  <2>2. m \in ManifestsOf(Size)
    <3>1. store.manifest \in ManifestsOf(Size) /\ Len(Uploads) \in Nat
      BY <2>1, StoreFields, UploadsAre
    <3> QED BY <3>1, UploadedIs
  <2> HIDE DEF m
  <2>3. StoreOK(store') /\ ChannelTyped'
    BY <2>1, <2>2, SavedFlushed, SameChannel DEF Saves
  <2> QED BY <1>1, <2>1, <2>3, TypesFrom DEF commands
<1> QED BY <1>3, <1>4, <1>5, <1>6, <1>7, <1>8, <1>9, <1>10, <1>11, <1>12, <1>13, <1>14, <1>15
        DEF Command

\* Every step keeps the types.
LEMMA TypesStep == TypesOK /\ [Next]_vars => TypesOK'
<1> SUFFICES ASSUME TypesOK, [Next]_vars PROVE TypesOK'
  OBVIOUS
<1>1. CASE Next
  BY <1>1, CommandTypes, DaemonTypes DEF Next
<1>2. CASE UNCHANGED vars
  <2>1. UNCHANGED <<config, messages, last_id, pinned, store, mount_lock, daemons, gc, fetched, budget>>
    BY <1>2 DEF vars, remote, commands
  <2>2. ChannelTyped'
    BY <2>1, SameChannel DEF remote
  <2> QED BY <2>1, <2>2, TypesFrom DEF TypesOK, StoreOK
<1> QED BY <1>1, <1>2

\* The types hold in every state.
LEMMA TypesHold == Spec => []TypesOK
BY InitTypes, TypesStep, PTL DEF Spec

\* The view changes none of it.
LEMMA ViewsAreSteps == ViewSpec => Spec
<1>1. ViewInit => Init
  BY DEF ViewInit
<1>2. [ViewNext]_<<vars, disk, durable>> => [Next]_vars
  BY DEF ViewNext
<1> QED BY <1>1, <1>2, PTL DEF ViewSpec, Spec

\* Whatever commands an operator uses, in any order, with any failures: the pinned message
\* is a superblock, every dirty row of the sqlite file has its cache file, and a daemon serves
\* a manifest with an entry for every object of the device.
THEOREM LifecycleTypes == Spec => []LifecycleTypeOK
<1>1. ASSUME TypesOK PROVE LifecycleTypeOK
  <2>1. \A p \in Processes : daemons[p] # None =>
          Len(daemons[p].manifest.objects) = config.object_count
    <3> SUFFICES ASSUME NEW p \in Processes, daemons[p] # None
                 PROVE  Len(daemons[p].manifest.objects) = config.object_count
      OBVIOUS
    <3>1. daemons[p].manifest \in ManifestsOf(Size)
      BY <1>1, DaemonIs
    <3> QED BY <3>1, ManifestParts DEF Size
  <2>2. DOMAIN messages \subseteq 1 .. last_id /\ (pinned # 0 => pinned \in Superblocks(messages))
    BY <1>1 DEF TypesOK, ChannelType
  <2>3. /\ store.exists \in BOOLEAN /\ \A k \in DOMAIN store.files : store.files[k] \in Value
    BY <1>1, StoreFields
  <2>4. /\ config \in Scenarios /\ mount_lock \in BOOLEAN /\ budget \in Budget
        /\ \A o \in Units : store.dirty[o] # 0 => <<o, store.dirty[o]>> \in DOMAIN store.files
    BY <1>1 DEF TypesOK
  <2> QED BY <2>1, <2>2, <2>3, <2>4 DEF LifecycleTypeOK
<1> QED BY <1>1, TypesHold, PTL

-----------------------------------------------------------------------------
(* References *)

\* The object messages a manifest names, and those it named before: no message twice,
\* and of the first n messages those that exist are objects.
Live(m) == {m.objects[k].remote : k \in DOMAIN m.objects} \ {0}

RefsOK(ms, n, m) ==
  /\ \A j, k \in DOMAIN m.objects :
       m.objects[j].remote = m.objects[k].remote /\ m.objects[j].remote # 0 => j = k
  /\ Live(m) \cap m.garbage = {}
  /\ \A id \in Live(m) \cup m.garbage :
       id \in 1 .. n /\ (id \in DOMAIN ms => ms[id].kind = "object")

\* A manifest as a format made it.
IsEmpty(z, m) == m = EmptyManifest(m.device_uuid, z)

\* Superblock i of a device of z objects can be recovered, but perhaps for its objects.
SuperblockOK(z, ms, n, i) ==
  /\ Named(ms, i) # None
  /\ Named(ms, i).device_uuid = ms[i].device_uuid
  /\ Named(ms, i).generation = Generation(ms, i)
  /\ RefsOK(ms, n, Named(ms, i))
  /\ Generation(ms, i) = 0 => IsEmpty(z, Named(ms, i))

SuperblocksOK(z, ms, n) == \A i \in Superblocks(ms) : SuperblockOK(z, ms, n, i)

\* What any step makes of the channel: only objects are deleted, and ids grow.
Grows(z, ms, n, ms2, n2) ==
  /\ ChannelType(z, n, ms) /\ ChannelType(z, n2, ms2) /\ n <= n2
  /\ Keeps(ms, ms2)
  /\ \A id \in DOMAIN ms2 : id <= n => id \in DOMAIN ms /\ ms2[id] = ms[id]

\* A manifest that names objects only still does when the channel grows.
LEMMA RefsKept ==
  ASSUME NEW z, NEW ms, NEW n, NEW ms2, NEW n2, Grows(z, ms, n, ms2, n2), NEW m, RefsOK(ms, n, m)
  PROVE  RefsOK(ms2, n2, m)
<1>1. n \in Nat /\ n2 \in Nat /\ n <= n2
  BY DEF Grows, ChannelType
<1>2. ASSUME NEW id \in Live(m) \cup m.garbage
      PROVE  id \in 1 .. n2 /\ (id \in DOMAIN ms2 => ms2[id].kind = "object")
  <2>1. id \in 1 .. n /\ (id \in DOMAIN ms => ms[id].kind = "object")
    BY DEF RefsOK
  <2>2. id \in 1 .. n2 /\ id <= n
    BY <1>1, <2>1
  <2>3. id \in DOMAIN ms2 => id \in DOMAIN ms /\ ms2[id] = ms[id]
    BY <2>2 DEF Grows
  <2> QED BY <2>1, <2>2, <2>3
<1> QED BY <1>2 DEF RefsOK

\* The channel stays recoverable when the new superblocks are.
LEMMA SuperblocksKept ==
  ASSUME NEW z, NEW ms, NEW n, NEW ms2, NEW n2, Grows(z, ms, n, ms2, n2),
         SuperblocksOK(z, ms, n),
         \A i \in Superblocks(ms2) \ Superblocks(ms) : SuperblockOK(z, ms2, n2, i)
  PROVE  SuperblocksOK(z, ms2, n2)
<1> SUFFICES ASSUME NEW i \in Superblocks(ms2) PROVE SuperblockOK(z, ms2, n2, i)
  BY DEF SuperblocksOK
<1>1. CASE i \in Superblocks(ms)
  <2>1. SuperblockOK(z, ms, n, i)
    BY <1>1 DEF SuperblocksOK
  <2>2. i \in DOMAIN ms /\ ms[i].kind = "superblock"
    BY <1>1 DEF Superblocks
  <2>3. ms2[i] = ms[i] /\ Keeps(ms, ms2)
    BY <2>2 DEF Grows, Keeps
  <2>4. Named(ms2, i) = Named(ms, i)
    <3>1. FetchManifest(ms, ms[i].encoding, ms[i].current) # None
      BY <2>1 DEF SuperblockOK, Named
    <3>2. FetchManifest(ms2, ms[i].encoding, ms[i].current) = FetchManifest(ms, ms[i].encoding, ms[i].current)
      BY <2>3, <3>1, FetchStable
    <3> QED BY <2>3, <3>2 DEF Named
  <2>5. RefsOK(ms2, n2, Named(ms, i))
    BY <2>1, RefsKept DEF SuperblockOK
  <2>6. Generation(ms2, i) = Generation(ms, i)
    BY <2>3 DEF Generation
  <2> QED BY <2>1, <2>3, <2>4, <2>5, <2>6 DEF SuperblockOK
<1>2. CASE i \notin Superblocks(ms)
  BY <1>2
<1> QED BY <1>1, <1>2

\* What recover-from-remote finds.
LEMMA RemoteIs ==
  ASSUME NEW z \in Nat, NEW ms, NEW n, ChannelType(z, n, ms), SuperblocksOK(z, ms, n)
  PROVE  /\ RecoverManifest(ms) # None <=> RecoverSuperblock(ms) # 0
         /\ RecoverManifest(ms) = None <=> Superblocks(ms) = {}
         /\ RecoverManifest(ms) = None => Newest(ms) = 0
         /\ RecoverSuperblock(ms) # 0 =>
              /\ RecoverManifest(ms) = Named(ms, RecoverSuperblock(ms))
              /\ RecoverManifest(ms) \in ManifestsOf(z)
              /\ RecoverManifest(ms).device_uuid = ms[RecoverSuperblock(ms)].device_uuid
              /\ RecoverManifest(ms).generation = Newest(ms)
              /\ RefsOK(ms, n, RecoverManifest(ms))
              /\ Newest(ms) = 0 => IsEmpty(z, RecoverManifest(ms))
<1>1. Superblocks(ms) = {} <=> RecoverSuperblock(ms) = 0
  BY RecoverSuperblockIs
<1>2. RecoverManifest(ms) # None => RecoverSuperblock(ms) # 0
  BY RecoverManifestType
<1>3. ASSUME RecoverSuperblock(ms) # 0
      PROVE  /\ RecoverManifest(ms) = Named(ms, RecoverSuperblock(ms))
             /\ SuperblockOK(z, ms, n, RecoverSuperblock(ms))
             /\ Newest(ms) = Generation(ms, RecoverSuperblock(ms))
             /\ RecoverManifest(ms) # None
  <2>1. RecoverSuperblock(ms) \in Superblocks(ms)
    BY <1>1, <1>3, RecoverSuperblockIs
  <2>2. SuperblockOK(z, ms, n, RecoverSuperblock(ms))
    BY <2>1 DEF SuperblocksOK
  <2>3. RecoverManifest(ms) = Named(ms, RecoverSuperblock(ms))
    BY <1>3, <2>2, RecoverManifestIs DEF SuperblockOK
  <2>4. RecoverManifest(ms) # None
    BY <2>2, <2>3 DEF SuperblockOK
  <2> QED BY <1>3, <2>2, <2>3, <2>4, Zenon DEF Newest
<1>4. RecoverManifest(ms) \in ManifestsOf(z) \cup {None}
  BY RecoverManifestType
<1>5. RecoverSuperblock(ms) = 0 => Newest(ms) = 0
  BY DEF Newest
<1> QED BY <1>1, <1>2, <1>3, <1>4, <1>5 DEF SuperblockOK

\* The view of the channel: what is in force, and the device it belongs to.
InForceIs(ms, ms2) ==
  /\ RecoverSuperblock(ms2) = RecoverSuperblock(ms)
  /\ Newest(ms2) = Newest(ms)
  /\ RecoverManifest(ms2) = RecoverManifest(ms)
  /\ RecoverSuperblock(ms) # 0 =>
       ms2[RecoverSuperblock(ms2)].device_uuid = ms[RecoverSuperblock(ms)].device_uuid

\* Without a new superblock, nothing else comes into force.
LEMMA QuietIs ==
  ASSUME NEW z \in Nat, NEW ms, NEW n, NEW ms2, NEW n2, Grows(z, ms, n, ms2, n2),
         SuperblocksOK(z, ms, n), Superblocks(ms2) = Superblocks(ms)
  PROVE  SuperblocksOK(z, ms2, n2) /\ InForceIs(ms, ms2)
<1>1. ChannelType(z, n, ms) /\ ChannelType(z, n2, ms2) /\ Keeps(ms, ms2)
  BY DEF Grows
<1>2. SuperblocksOK(z, ms2, n2)
  BY SuperblocksKept
<1>3. /\ RecoverSuperblock(ms2) = RecoverSuperblock(ms) /\ Newest(ms2) = Newest(ms)
      /\ \A i \in Superblocks(ms) :
           ms2[i] = ms[i] /\ (Named(ms, i) # None => Named(ms2, i) = Named(ms, i))
  BY <1>1, SameSuperblocks
<1> DEFINE i == RecoverSuperblock(ms)
<1>4. CASE i = 0
  <2>1. RecoverManifest(ms) = None
    BY <1>1, <1>4, RemoteIs
  <2>2. RecoverManifest(ms2) = None
    BY <1>1, <1>2, <1>3, <1>4, RemoteIs
  <2> QED BY <1>2, <1>3, <1>4, <2>1, <2>2 DEF InForceIs
<1>5. CASE i # 0
  <2>1. i \in Superblocks(ms)
    BY <1>1, <1>5, RecoverSuperblockIs
  <2>2. RecoverManifest(ms) = Named(ms, i) /\ RecoverManifest(ms) # None
    BY <1>1, <1>5, RemoteIs
  <2>3. RecoverManifest(ms2) = Named(ms2, i)
    BY <1>1, <1>2, <1>3, <1>5, RemoteIs
  <2> QED BY <1>2, <1>3, <2>1, <2>2, <2>3 DEF InForceIs
<1> QED BY <1>4, <1>5

\* A commit of m comes into force unless something of a higher generation was.
LEMMA PublishedIs ==
  ASSUME NEW z \in Nat, NEW ms, NEW n, NEW ms2, NEW n2, Grows(z, ms, n, ms2, n2),
         SuperblocksOK(z, ms, n), NEW m \in ManifestsOf(z), Publishes(ms, n, ms2, m),
         RefsOK(ms2, n2, m), m.generation = 0 => IsEmpty(z, m)
  PROVE  /\ SuperblocksOK(z, ms2, n2)
         /\ RecoverSuperblock(ms2) # 0
         /\ m.generation >= Newest(ms) =>
              /\ RecoverManifest(ms2) = m /\ Newest(ms2) = m.generation
              /\ ms2[RecoverSuperblock(ms2)].device_uuid = m.device_uuid
         /\ m.generation < Newest(ms) => InForceIs(ms, ms2)
<1>1. ChannelType(z, n, ms) /\ ChannelType(z, n2, ms2) /\ Keeps(ms, ms2)
  BY DEF Grows
<1>2. m.generation \in Nat /\ m # None
  BY ManifestParts
<1>3. ASSUME NEW i \in Superblocks(ms2) \ Superblocks(ms) PROVE SuperblockOK(z, ms2, n2, i)
  <2>1. /\ Named(ms2, i) = m /\ ms2[i].device_uuid = m.device_uuid
        /\ Generation(ms2, i) = m.generation
    BY DEF Publishes
  <2> QED BY <1>2, <2>1 DEF SuperblockOK
<1>4. SuperblocksOK(z, ms2, n2)
  BY <1>3, SuperblocksKept
<1>5. /\ RecoverSuperblock(ms2) # 0
      /\ IF m.generation >= Newest(ms)
         THEN /\ RecoverSuperblock(ms2) \in Superblocks(ms2) \ Superblocks(ms)
              /\ ms2[RecoverSuperblock(ms2)].device_uuid = m.device_uuid
              /\ Newest(ms2) = m.generation
              /\ Named(ms2, RecoverSuperblock(ms2)) = m
              /\ m # None => RecoverManifest(ms2) = m
         ELSE /\ RecoverSuperblock(ms2) = RecoverSuperblock(ms)
              /\ RecoverSuperblock(ms) # 0
              /\ Newest(ms2) = Newest(ms)
      /\ \A i \in Superblocks(ms) :
           ms2[i] = ms[i] /\ (Named(ms, i) # None => Named(ms2, i) = Named(ms, i))
  BY <1>1, <1>2, PublishesIs
<1>6. Newest(ms) \in Nat
  BY <1>1, NewestIs
<1>7. ASSUME m.generation < Newest(ms) PROVE InForceIs(ms, ms2)
  <2> DEFINE i == RecoverSuperblock(ms)
  <2>1. RecoverSuperblock(ms2) = i /\ i # 0 /\ Newest(ms2) = Newest(ms)
    BY <1>2, <1>5, <1>6, <1>7
  <2>2. i \in Superblocks(ms)
    BY <1>1, <2>1, RecoverSuperblockIs
  <2>3. RecoverManifest(ms) = Named(ms, i) /\ RecoverManifest(ms) # None
    BY <1>1, <2>1, RemoteIs
  <2>4. RecoverManifest(ms2) = Named(ms2, i)
    BY <1>1, <1>4, <2>1, RemoteIs
  <2>5. ms2[i] = ms[i] /\ Named(ms2, i) = Named(ms, i)
    BY <1>5, <2>2, <2>3
  <2> QED BY <2>1, <2>3, <2>4, <2>5 DEF InForceIs
<1> QED BY <1>2, <1>4, <1>5, <1>7

\* A manifest without objects names none.
LEMMA EmptyRefs ==
  ASSUME NEW z \in Nat, NEW u \in Nat, NEW ms, NEW n
  PROVE  RefsOK(ms, n, EmptyManifest(u, z)) /\ IsEmpty(z, EmptyManifest(u, z))
<1> DEFINE m == EmptyManifest(u, z)
<1>1. /\ m \in ManifestsOf(z) /\ m.device_uuid = u /\ m.garbage = {}
      /\ \A k \in 1 .. z : m.objects[k] = ManifestObject(k - 1, 0, 0, 0)
  BY EmptyIs
<1>2. DOMAIN m.objects = 1 .. z
  BY <1>1, ManifestParts
<1>3. \A k \in DOMAIN m.objects : m.objects[k].remote = 0
  <2>1. \A o : ManifestObject(o, 0, 0, 0).remote = 0
    BY DEF ManifestObject
  <2> HIDE DEF m
  <2> QED BY <1>1, <1>2, <2>1
<1>4. IsEmpty(z, m)
  BY <1>1 DEF IsEmpty
<1> HIDE DEF m
<1>5. Live(m) = {}
  BY <1>3 DEF Live
<1> QED BY <1>1, <1>3, <1>4, <1>5 DEF RefsOK, m

-----------------------------------------------------------------------------
(* What the actions do *)

GrowsNow == Grows(Size, messages, last_id, messages', last_id')

\* A channel that is left alone has grown.
LEMMA SameGrows ==
  ASSUME TypesOK, UNCHANGED remote
  PROVE  GrowsNow /\ Superblocks(messages') = Superblocks(messages)
<1>1. messages' = messages /\ last_id' = last_id
  BY DEF remote
<1>2. ChannelType(Size, last_id, messages) /\ last_id \in Nat
  BY DEF TypesOK, ChannelType
<1> QED BY <1>1, <1>2 DEF GrowsNow, Grows, Keeps

\* A channel to which a commit, or a part of it, was sent has grown.
LEMMA SentGrows ==
  ASSUME TypesOK, NEW m, NEW objects, NEW all, NEW k \in Nat, Sent(Size, m, objects, all, k)
  PROVE  GrowsNow
<1>1. ChannelType(Size, last_id, messages) /\ last_id \in Nat
  BY DEF TypesOK, ChannelType
<1>2. /\ ChannelType(Size, last_id', messages') /\ last_id' = last_id + k
      /\ DOMAIN messages' = DOMAIN messages \cup (last_id + 1 .. last_id + k)
      /\ \A i \in DOMAIN messages : messages'[i] = messages[i]
      /\ Keeps(messages, messages')
  BY DEF Sent
<1>3. ASSUME NEW id \in DOMAIN messages', id <= last_id
      PROVE  id \in DOMAIN messages /\ messages'[id] = messages[id]
  <2>1. id \notin last_id + 1 .. last_id + k
    BY <1>1, <1>3
  <2> QED BY <1>2, <2>1
<1> QED BY <1>1, <1>2, <1>3 DEF GrowsNow, Grows

\* A channel from which gc deleted an object has grown.
LEMMA DeletedGrows ==
  ASSUME TypesOK, NEW id, GcDelete(id), id \in DOMAIN messages => messages[id].kind = "object"
  PROVE  GrowsNow /\ Superblocks(messages') = Superblocks(messages)
<1>1. /\ ChannelTyped' /\ last_id' = last_id
      /\ DOMAIN messages' = DOMAIN messages \ {id}
      /\ \A i \in DOMAIN messages \ {id} : messages'[i] = messages[i]
      /\ Superblocks(messages') = Superblocks(messages) \ {id}
  BY Deleted
<1>2. ChannelType(Size, last_id, messages) /\ last_id \in Nat
  BY DEF TypesOK, ChannelType
<1>3. config' = config /\ Size' = Size
  BY DEF GcDelete, Size
<1>4. ChannelType(Size, last_id', messages')
  BY <1>1, <1>3 DEF ChannelTyped
<1>5. Keeps(messages, messages')
  BY <1>1 DEF Keeps
<1>6. id \notin Superblocks(messages)
  BY DEF Superblocks
<1> QED BY <1>1, <1>2, <1>4, <1>5, <1>6 DEF GrowsNow, Grows

\* The daemons after one of them was replaced.
LEMMA OneDaemon ==
  ASSUME TypesOK, NEW p \in Processes, NEW x, daemons' = [daemons EXCEPT ![p] = x]
  PROVE  /\ daemons'[p] = x /\ \A q \in Processes : q # p => daemons'[q] = daemons[q]
         /\ x # None => Running' = Running \cup {p}
         /\ x = None => Running' = Running \ {p}
<1>1. daemons'[p] = x /\ \A q \in Processes : q # p => daemons'[q] = daemons[q]
  BY DEF TypesOK
<1> QED BY <1>1 DEF Running

\* The processes that run.
LEMMA SameDaemons ==
  ASSUME daemons' = daemons
  PROVE  Running' = Running
BY DEF Running

\* A daemon is not None.
LEMMA NoDaemon ==
  ASSUME NEW n, NEW m \in ManifestsOf(n), NEW b \in Memory \cup {None}
  PROVE  [manifest |-> m, memory |-> b] # None
<1>1. [manifest |-> m, memory |-> b] \in Process
  BY DEF Process, ManifestsOf
<1> QED BY <1>1, LifecycleAssumption

\* A start with --backend telegram: it serves the saved manifest, or recovers one.
LEMMA ServeIs ==
  ASSUME TypesOK, NEW p \in Processes, Serve(p)
  PROVE  /\ Allowed("serve --backend telegram") /\ daemons[p] = None /\ fetched = None
         /\ ~mount_lock /\ mount_lock' = TRUE
         /\ UNCHANGED <<config, remote, commands, budget>>
         /\ store'.manifest \in ManifestsOf(Size)
         /\ Saves(store', store'.manifest, store.dirty)
         /\ daemons' = [daemons EXCEPT ![p] = [manifest |-> store'.manifest, memory |-> None]]
         /\ store.manifest # None =>
              /\ store'.manifest = store.manifest
              /\ RecoverSuperblock(messages) # 0 =>
                   messages[RecoverSuperblock(messages)].device_uuid = store.manifest.device_uuid
         /\ store.manifest = None =>
              RecoverManifest(messages) # None /\ store'.manifest = RecoverManifest(messages)
<1>1. /\ Allowed("serve --backend telegram") /\ daemons[p] = None /\ fetched = None
      /\ ~mount_lock /\ mount_lock' = TRUE
      /\ UNCHANGED <<config, remote, commands, budget>>
      /\ daemons' = [daemons EXCEPT ![p] = [manifest |-> store'.manifest, memory |-> None]]
  BY Zenon DEF Serve, Acquire
<1>2. \/ /\ store.manifest # None /\ store' = Opened
         /\ RecoverSuperblock(messages) # 0 =>
              messages[RecoverSuperblock(messages)].device_uuid = store.manifest.device_uuid
      \/ /\ store.manifest = None /\ RecoverManifest(messages) # None
         /\ store' = Replaced(RecoverManifest(messages))
  BY Zenon DEF Serve
<1>3. CASE /\ store.manifest # None /\ store' = Opened
           /\ RecoverSuperblock(messages) # 0 =>
                messages[RecoverSuperblock(messages)].device_uuid = store.manifest.device_uuid
  <2>1. Saves(store', store.manifest, store.dirty)
    BY <1>3, SavedOpened
  <2>2. store'.manifest = store.manifest /\ store.manifest \in ManifestsOf(Size)
    BY <1>3, <2>1, StoreFields DEF Saves
  <2> QED BY <1>1, <1>3, <2>1, <2>2
<1>4. CASE /\ store.manifest = None /\ RecoverManifest(messages) # None
           /\ store' = Replaced(RecoverManifest(messages))
  <2>1. RecoverManifest(messages) \in ManifestsOf(Size)
    BY <1>4, Sizes, RecoverManifestType DEF TypesOK
  <2>2. Saves(store', RecoverManifest(messages), store.dirty)
    BY <1>4, <2>1, SavedReplaced
  <2>3. store'.manifest = RecoverManifest(messages)
    BY <2>2 DEF Saves
  <2> QED BY <1>1, <1>4, <2>1, <2>2, <2>3
<1> QED BY <1>2, <1>3, <1>4

\* The uploads that k messages make.
UploadsSent(k) ==
  /\ k \in Nat /\ last_id' = last_id + k
  /\ \A i \in 1 .. k : i <= Len(Uploads) =>
       last_id + i \in DOMAIN messages' /\ messages'[last_id + i] = Uploads[i]

\* The messages of a flush begin with its uploads.
LEMMA SentUploads ==
  ASSUME TypesOK, NEW m, NEW all, NEW k \in Nat, Sent(Size, m, Uploads, all, k)
  PROVE  UploadsSent(k)
<1>1. last_id \in Nat
  BY DEF TypesOK, ChannelType
<1>2. /\ last_id' = last_id + k
      /\ DOMAIN messages' = DOMAIN messages \cup (last_id + 1 .. last_id + k)
      /\ \A j \in 1 .. k : j <= Len(Uploads) => messages'[last_id + j] = Uploads[j]
  BY DEF Sent
<1>3. \A i \in 1 .. k : last_id + i \in last_id + 1 .. last_id + k
  BY <1>1
<1> QED BY <1>2, <1>3 DEF UploadsSent

\* What a flush of daemon p commits.
FlushedManifest(p) == Uploaded(daemons[p].manifest, Len(Uploads), last_id)

\* A flush that succeeds: the superblock of the whole manifest is on the channel and the manifest is saved.
LEMMA FlushIs ==
  ASSUME TypesOK, NEW p \in Processes, Flush(p)
  PROVE  /\ UNCHANGED <<config, mount_lock, commands>> /\ Spend("flushes")
         /\ daemons[p] # None /\ daemons[p].memory = None /\ DirtyIds # {}
         /\ daemons[p].manifest \in ManifestsOf(Size) /\ FlushedManifest(p) \in ManifestsOf(Size)
         /\ daemons' = [daemons EXCEPT ![p] = [manifest |-> FlushedManifest(p), memory |-> None]]
         /\ Saves(store', FlushedManifest(p), NoDirty)
         /\ GrowsNow /\ Publishes(messages, last_id, messages', FlushedManifest(p))
         /\ \E k \in Nat : UploadsSent(k) /\ k >= Len(Uploads)
<1> DEFINE m == daemons[p].manifest
           u == FlushedManifest(p)
           all == FlushMessages(m)
           k == Len(all)
<1>1. /\ UNCHANGED <<config, mount_lock, commands>> /\ Spend("flushes")
      /\ daemons[p] # None /\ daemons[p].memory = None /\ DirtyIds # {}
      /\ Send(all, k)
      /\ daemons' = [daemons EXCEPT ![p].manifest = u] /\ store' = Flushed(u)
  BY Zenon DEF Flush, FlushedManifest
<1>2. m \in ManifestsOf(Size)
  BY <1>1, DaemonIs
<1>3. u = Uploaded(m, Len(Uploads), last_id)
  BY DEF FlushedManifest
<1> HIDE DEF m
<1>4. Len(Uploads) \in Nat /\ last_id \in Nat /\ k \in Nat
  BY <1>2, UploadsAre, FlushTyped DEF TypesOK, ChannelType
<1> HIDE DEF u
<1>5. u \in ManifestsOf(Size)
  BY <1>2, <1>3, <1>4, UploadedIs
<1>6. Sent(Size, u, Uploads, all, k)
  <2>1. k \in 0 .. Len(all)
    BY <1>4
  <2>2. Sent(Size, Uploaded(m, Len(Uploads), last_id), Uploads, all, k)
    BY <1>1, <1>2, <2>1, FlushSent
  <2> QED BY <1>3, <2>2
<1>7. GrowsNow /\ UploadsSent(k)
  BY <1>4, <1>6, SentGrows, SentUploads
<1>8. Publishes(messages, last_id, messages', u) /\ k >= Len(Uploads)
  BY <1>4, <1>6 DEF Sent
<1>9. Saves(store', u, NoDirty)
  BY <1>1, <1>5, SavedFlushed
<1>10. daemons' = [daemons EXCEPT ![p] = [manifest |-> u, memory |-> None]]
  BY <1>1, DaemonSet
<1> HIDE DEF k
<1> QED BY <1>1, <1>2, <1>4, <1>5, <1>7, <1>8, <1>9, <1>10 DEF u, m

\* A flush that fails: it sent a part, published or not, and cleared no row.
LEMMA FlushFailsIs ==
  ASSUME TypesOK, NEW p \in Processes, FlushFails(p)
  PROVE  /\ UNCHANGED <<config, mount_lock, commands>>
         /\ budget.flushes > 0 /\ budget.faults > 0
         /\ budget' = [budget EXCEPT !.flushes = @ - 1, !.faults = @ - 1]
         /\ daemons[p] # None /\ daemons[p].memory = None /\ DirtyIds # {}
         /\ daemons[p].manifest \in ManifestsOf(Size) /\ FlushedManifest(p) \in ManifestsOf(Size)
         /\ GrowsNow
         /\ store' = store \/ Saves(store', FlushedManifest(p), store.dirty)
         /\ \E k, j \in Nat :
              /\ UploadsSent(k) /\ j <= k /\ j <= Len(Uploads)
              /\ Uploaded(daemons[p].manifest, j, last_id) \in ManifestsOf(Size)
              /\ \/ daemons' = [daemons EXCEPT ![p] = [manifest |-> Uploaded(daemons[p].manifest, j, last_id),
                                                       memory |-> None]]
                 \/ daemons' = [daemons EXCEPT ![p] = None]
              /\ \/ Superblocks(messages') = Superblocks(messages) /\ store' = store
                 \/ /\ Publishes(messages, last_id, messages', FlushedManifest(p))
                    /\ j = Len(Uploads) /\ k >= Len(Uploads)
<1> DEFINE m == daemons[p].manifest
           n == Len(Uploads)
           u == FlushedManifest(p)
           all == FlushMessages(m)
<1>1. /\ UNCHANGED <<config, mount_lock, commands>>
      /\ budget.flushes > 0 /\ budget.faults > 0
      /\ budget' = [budget EXCEPT !.flushes = @ - 1, !.faults = @ - 1]
      /\ daemons[p] # None /\ daemons[p].memory = None /\ DirtyIds # {}
  BY Zenon DEF FlushFails
<1>2. PICK k \in 0 .. Len(all) :
        /\ Send(all, k)
        /\ \/ \E acked \in {k - 1, k} \cap Nat :
                daemons' = [daemons EXCEPT ![p].manifest = Uploaded(m, Min({acked, n}), last_id)]
           \/ daemons' = [daemons EXCEPT ![p] = None]
        /\ store' = store \/ (k = Len(all) /\ store' = Replaced(u))
  BY Zenon DEF FlushFails, FlushedManifest
<1>3. m \in ManifestsOf(Size)
  BY <1>1, DaemonIs
<1>4. u = Uploaded(m, n, last_id)
  BY DEF FlushedManifest
<1> HIDE DEF m
<1>5. n \in Nat /\ last_id \in Nat /\ Len(all) \in Nat /\ k \in Nat
  BY <1>3, UploadsAre, FlushTyped DEF TypesOK, ChannelType
<1> HIDE DEF u
<1>6. u \in ManifestsOf(Size)
  BY <1>3, <1>4, <1>5, UploadedIs
<1>7. Sent(Size, u, Uploads, all, k)
  <2>1. Sent(Size, Uploaded(m, n, last_id), Uploads, all, k)
    BY <1>1, <1>2, <1>3, FlushSent
  <2> QED BY <1>4, <2>1
<1>8. GrowsNow /\ UploadsSent(k)
  BY <1>5, <1>7, SentGrows, SentUploads
<1>9. \/ Superblocks(messages') = Superblocks(messages) /\ k < Len(all)
      \/ Publishes(messages, last_id, messages', u) /\ k >= n + 2
  BY <1>7 DEF Sent
<1>10. store' = store \/ (Saves(store', u, store.dirty) /\ k = Len(all))
  <2>1. store' = Replaced(u) => Saves(store', u, store.dirty)
    BY <1>6, SavedReplaced
  <2> QED BY <1>2, <2>1
<1> DEFINE At(j) == Uploaded(m, j, last_id)
           Leaves(j) ==
             /\ At(j) \in ManifestsOf(Size)
             /\ \/ daemons' = [daemons EXCEPT ![p] = [manifest |-> At(j), memory |-> None]]
                \/ daemons' = [daemons EXCEPT ![p] = None]
<1>11. \E j \in Nat : j <= k /\ j <= n /\ (k >= n + 2 => j = n) /\ Leaves(j)
  <2>1. CASE daemons' = [daemons EXCEPT ![p] = None]
    <3> DEFINE j == IF k <= n THEN k ELSE n
    <3>1. j \in Nat /\ j <= k /\ j <= n /\ (k >= n + 2 => j = n)
      BY <1>5
    <3> HIDE DEF j
    <3>2. At(j) \in ManifestsOf(Size)
      BY <1>3, <1>5, <3>1, UploadedIs
    <3> QED BY <2>1, <3>1, <3>2
  <2>2. CASE \E acked \in {k - 1, k} \cap Nat :
               daemons' = [daemons EXCEPT ![p].manifest = Uploaded(m, Min({acked, n}), last_id)]
    <3>1. PICK acked \in {k - 1, k} \cap Nat :
            daemons' = [daemons EXCEPT ![p].manifest = Uploaded(m, Min({acked, n}), last_id)]
      BY <2>2
    <3> DEFINE j == Min({acked, n})
    <3>2. /\ j \in Nat /\ j = (IF acked <= n THEN acked ELSE n) /\ At(j) \in ManifestsOf(Size)
      BY <1>3, <1>5, PartIs
    <3> HIDE DEF j, At
    <3>3. j <= k /\ j <= n /\ (k >= n + 2 => j = n)
      BY <1>5, <3>2
    <3>4. daemons' = [daemons EXCEPT ![p].manifest = At(j)]
      BY <3>1 DEF j, At
    <3>5. daemons' = [daemons EXCEPT ![p] = [manifest |-> At(j), memory |-> None]]
      BY <1>1, <3>4, DaemonSet
    <3> QED BY <3>2, <3>3, <3>5
  <2> QED BY <1>2, <2>1, <2>2
<1>12. PICK j \in Nat : j <= k /\ j <= n /\ (k >= n + 2 => j = n) /\ Leaves(j)
  BY <1>11
<1>13. \/ Superblocks(messages') = Superblocks(messages) /\ store' = store
       \/ /\ Publishes(messages, last_id, messages', u)
          /\ j = n /\ k >= n
  <2>1. CASE Superblocks(messages') = Superblocks(messages) /\ k < Len(all)
    BY <1>5, <1>10, <2>1
  <2>2. CASE Publishes(messages, last_id, messages', u) /\ k >= n + 2
    BY <1>5, <1>12, <2>2
  <2> QED BY <1>9, <2>1, <2>2
<1> QED BY <1>1, <1>3, <1>5, <1>6, <1>8, <1>10, <1>12, <1>13 DEF m, u

-----------------------------------------------------------------------------
(* The references of a flush *)

\* The entry of object o.
At(m, o) == m.objects[o + 1]

\* The entry of an object in a manifest of the device.
LEMMA EntryIs ==
  ASSUME TypesOK, NEW m \in ManifestsOf(Size), NEW o \in Objects
  PROVE  /\ Entry(m, o) = At(m, o) /\ At(m, o) \in ObjectEntry /\ At(m, o).object_id = o
         /\ At(m, o).remote \in Nat /\ At(m, o).generation \in Nat /\ At(m, o).payload \in Value
         /\ o \in Nat /\ o \in Units /\ o + 1 \in 1 .. Size
<1>1. o \in Nat /\ o \in Units /\ o + 1 \in 1 .. Size /\ (o + 1) - 1 = o
  BY Sizes DEF TypesOK
<1>2. /\ DOMAIN m.objects = 1 .. Size /\ m # None
      /\ m.objects[o + 1] \in ObjectEntry /\ m.objects[o + 1].object_id = (o + 1) - 1
  BY <1>1, ManifestParts
<1>3. Entry(m, o) = At(m, o)
  BY <1>1, <1>2 DEF Entry, At
<1>4. At(m, o) \in ObjectEntry /\ At(m, o).object_id = o
  BY <1>1, <1>2 DEF At
<1> QED BY <1>1, <1>3, <1>4 DEF ObjectEntry

\* A message that is, or was, an object.
IsObject(ms, n, id) == id \in 1 .. n /\ (id \in DOMAIN ms => ms[id].kind = "object")

\* The same of RefsOK, by object.
LEMMA RefsAre ==
  ASSUME TypesOK, NEW m \in ManifestsOf(Size), NEW ms, NEW n
  PROVE  RefsOK(ms, n, m) <=>
           /\ \A o, q \in Objects :
                At(m, o).remote = At(m, q).remote /\ At(m, o).remote # 0 => o = q
           /\ \A o \in Objects : At(m, o).remote # 0 =>
                At(m, o).remote \notin m.garbage /\ IsObject(ms, n, At(m, o).remote)
           /\ \A id \in m.garbage : IsObject(ms, n, id)
<1>1. DOMAIN m.objects = 1 .. Size
  BY ManifestParts
<1>2. /\ \A o \in Objects : o + 1 \in 1 .. Size /\ o \in Nat
      /\ \A k \in 1 .. Size : k - 1 \in Objects /\ (k - 1) + 1 = k /\ k \in Nat
  BY Sizes DEF TypesOK
<1>3. ASSUME NEW id
      PROVE  id \in Live(m) <=> id # 0 /\ \E o \in Objects : id = At(m, o).remote
  <2>1. ASSUME NEW k \in 1 .. Size, id = m.objects[k].remote
        PROVE  \E o \in Objects : id = At(m, o).remote
    <3>1. id = At(m, k - 1).remote
      BY <1>2, <2>1 DEF At
    <3> QED BY <1>2, <3>1
  <2>2. ASSUME NEW o \in Objects, id = At(m, o).remote
        PROVE  \E k \in 1 .. Size : id = m.objects[k].remote
    BY <1>2, <2>2 DEF At
  <2> QED BY <1>1, <2>1, <2>2 DEF Live
<1>4. (\A j, k \in DOMAIN m.objects :
         m.objects[j].remote = m.objects[k].remote /\ m.objects[j].remote # 0 => j = k)
      <=> \A o, q \in Objects : At(m, o).remote = At(m, q).remote /\ At(m, o).remote # 0 => o = q
  <2>1. ASSUME \A j, k \in DOMAIN m.objects :
                 m.objects[j].remote = m.objects[k].remote /\ m.objects[j].remote # 0 => j = k,
               NEW o \in Objects, NEW q \in Objects,
               At(m, o).remote = At(m, q).remote, At(m, o).remote # 0
        PROVE  o = q
    <3>1. o + 1 \in 1 .. Size /\ q + 1 \in 1 .. Size /\ o \in Nat /\ q \in Nat
      BY <1>2
    <3>2. o + 1 = q + 1
      BY <1>1, <2>1, <3>1 DEF At
    <3> QED BY <3>1, <3>2
  <2>2. ASSUME \A o, q \in Objects :
                 At(m, o).remote = At(m, q).remote /\ At(m, o).remote # 0 => o = q,
               NEW j \in 1 .. Size, NEW k \in 1 .. Size,
               m.objects[j].remote = m.objects[k].remote, m.objects[j].remote # 0
        PROVE  j = k
    <3>1. At(m, j - 1) = m.objects[j] /\ At(m, k - 1) = m.objects[k]
      BY <1>2 DEF At
    <3>2. j - 1 = k - 1
      BY <1>2, <2>2, <3>1
    <3> QED BY <1>2, <3>2
  <2> QED BY <1>1, <2>1, <2>2
<1>5. (\A id \in Live(m) \cup m.garbage : IsObject(ms, n, id)) /\ Live(m) \cap m.garbage = {}
      <=> /\ \A o \in Objects : At(m, o).remote # 0 =>
               At(m, o).remote \notin m.garbage /\ IsObject(ms, n, At(m, o).remote)
          /\ \A id \in m.garbage : IsObject(ms, n, id)
  BY <1>3
<1> QED BY <1>4, <1>5 DEF RefsOK, IsObject

\* What a flush uploads it may refer to, and what it replaces may be deleted.
LEMMA RefsFlushed ==
  ASSUME TypesOK, NEW m \in ManifestsOf(Size), RefsOK(messages, last_id, m), GrowsNow,
         NEW k \in Nat, UploadsSent(k), NEW j \in Nat, j <= k, j <= Len(Uploads),
         config' = config
  PROVE  RefsOK(messages', last_id', Uploaded(m, j, last_id))
<1> DEFINE u == Uploaded(m, j, last_id)
           r(o) == At(m, o).remote
           R(o) == At(u, o).remote
           D == Done(j)
<1>1. last_id \in Nat /\ last_id' = last_id + k /\ last_id <= last_id'
  BY DEF UploadsSent, TypesOK, ChannelType
<1>2. /\ u \in ManifestsOf(Size) /\ u.garbage = m.garbage \cup Replacements(m, j)
      /\ \A o \in Objects : At(u, o) = IF o \in D THEN NewEntry(o, last_id) ELSE At(m, o)
  BY <1>1, UploadedIs DEF At
<1>3. /\ \A o, q \in Objects : r(o) = r(q) /\ r(o) # 0 => o = q
      /\ \A o \in Objects : r(o) # 0 => r(o) \notin m.garbage /\ IsObject(messages, last_id, r(o))
      /\ \A id \in m.garbage : IsObject(messages, last_id, id)
  BY RefsAre
<1>4. ASSUME NEW o \in D
      PROVE  /\ o \in Objects /\ Position(o) \in 1 .. j /\ R(o) = last_id + Position(o)
             /\ R(o) > last_id /\ R(o) \in Nat /\ IsObject(messages', last_id', R(o))
  <2>1. o \in DirtyIds /\ o \in Objects /\ Position(o) \in Nat /\ Position(o) \in 1 .. j
        /\ Position(o) \in 1 .. k /\ Position(o) <= Len(Uploads) /\ Position(o) \in 1 .. Len(Uploads)
    <3>1. o \in DirtyIds /\ Position(o) <= j
      BY DEF Done
    <3>2. o \in Objects /\ Position(o) \in 1 .. Cardinality(DirtyIds) /\ Cardinality(DirtyIds) \in Nat
      BY <3>1, Positions
    <3>3. Len(Uploads) = Cardinality(DirtyIds)
      BY UploadsAre
    <3> QED BY <3>1, <3>2, <3>3
  <2>2. R(o) = last_id + Position(o)
    <3>1. At(u, o) = NewEntry(o, last_id)
      BY <1>2, <2>1
    <3>2. NewEntry(o, last_id).remote = last_id + Position(o)
      BY DEF NewEntry, ManifestObject
    <3> QED BY <3>1, <3>2
  <2>3. messages'[last_id + Position(o)] = Uploads[Position(o)]
    BY <2>1 DEF UploadsSent
  <2>4. Uploads[Position(o)].kind = "object"
    <3>1. Uploads \in Seq(ObjectMsg)
      BY UploadsAre
    <3>2. Uploads[Position(o)] \in ObjectMsg
      BY <2>1, <3>1
    <3> QED BY <3>2 DEF ObjectMsg
  <2>5. R(o) \in 1 .. last_id' /\ R(o) > last_id /\ R(o) \in Nat
    BY <1>1, <2>1, <2>2
  <2> QED BY <2>1, <2>2, <2>3, <2>4, <2>5 DEF IsObject
<1>5. ASSUME NEW id, IsObject(messages, last_id, id)
      PROVE  IsObject(messages', last_id', id) /\ id \in Nat /\ id <= last_id
  <2>1. id \in 1 .. last_id' /\ id <= last_id /\ id \in Nat
    BY <1>1, <1>5 DEF IsObject
  <2>2. id \in DOMAIN messages' => id \in DOMAIN messages /\ messages'[id] = messages[id]
    BY <2>1 DEF GrowsNow, Grows
  <2> QED BY <1>5, <2>1, <2>2 DEF IsObject
<1>6. ASSUME NEW o \in Objects, o \notin D PROVE R(o) = r(o)
  BY <1>2, <1>6
<1>7. ASSUME NEW id \in Replacements(m, j)
      PROVE  \E o \in D : id = r(o) /\ r(o) # 0
  BY DEF Replacements, At
<1> HIDE DEF D, r, R, u
<1>8. ASSUME NEW o \in Objects, NEW q \in Objects, R(o) = R(q), R(o) # 0
      PROVE  o = q
  <2>1. CASE o \in D /\ q \in D
    <3>1. Position(o) = Position(q)
      <4>1. /\ R(o) = last_id + Position(o) /\ Position(o) \in 1 .. j
            /\ R(q) = last_id + Position(q) /\ Position(q) \in 1 .. j
        BY <1>4, <2>1
      <4>2. last_id + Position(o) = last_id + Position(q)
        BY <1>8, <4>1, Zenon
      <4>3. Position(o) \in Nat /\ Position(q) \in Nat
        BY <4>1
      <4> QED BY <1>1, <4>2, <4>3
    <3>2. o \in DirtyIds /\ q \in DirtyIds
      BY <2>1 DEF D, Done
    <3> QED BY <3>1, <3>2, Positions
  <2>2. CASE o \in D /\ q \notin D
    <3>1. R(q) = r(q) /\ R(o) > last_id
      BY <1>4, <1>6, <2>2
    <3>2. r(q) # 0 /\ IsObject(messages, last_id, r(q))
      BY <1>3, <1>8, <3>1
    <3>3. r(q) <= last_id /\ r(q) \in Nat
      BY <1>5, <3>2
    <3> QED BY <1>1, <1>8, <3>1, <3>3
  <2>3. CASE o \notin D /\ q \in D
    <3>1. R(o) = r(o) /\ R(q) > last_id
      BY <1>4, <1>6, <2>3
    <3>2. r(o) # 0 /\ IsObject(messages, last_id, r(o))
      BY <1>3, <1>8, <3>1
    <3>3. r(o) <= last_id /\ r(o) \in Nat
      BY <1>5, <3>2
    <3> QED BY <1>1, <1>8, <3>1, <3>3
  <2>4. CASE o \notin D /\ q \notin D
    BY <1>3, <1>6, <1>8, <2>4
  <2> QED BY <2>1, <2>2, <2>3, <2>4
<1>9. ASSUME NEW id \in u.garbage
      PROVE  IsObject(messages, last_id, id)
  <2>1. CASE id \in m.garbage
    BY <1>3, <2>1
  <2>2. CASE id \in Replacements(m, j)
    <3>1. PICK o \in D : id = r(o) /\ r(o) # 0
      BY <1>7, <2>2
    <3>2. o \in Objects
      BY <1>4
    <3> QED BY <1>3, <3>1, <3>2
  <2> QED BY <1>2, <2>1, <2>2
<1>10. ASSUME NEW o \in Objects, R(o) # 0
       PROVE  R(o) \notin u.garbage /\ IsObject(messages', last_id', R(o))
  <2>1. CASE o \in D
    <3>1. R(o) > last_id /\ R(o) \in Nat /\ IsObject(messages', last_id', R(o))
      BY <1>4, <2>1
    <3>2. R(o) \notin u.garbage
      <4> SUFFICES ASSUME R(o) \in u.garbage PROVE FALSE
        OBVIOUS
      <4>1. R(o) <= last_id
        BY <1>5, <1>9
      <4> QED BY <1>1, <3>1, <4>1
    <3> QED BY <3>1, <3>2
  <2>2. CASE o \notin D
    <3>1. R(o) = r(o) /\ r(o) \notin m.garbage /\ IsObject(messages, last_id, r(o))
      BY <1>3, <1>6, <1>10, <2>2
    <3>2. R(o) \notin Replacements(m, j)
      <4> SUFFICES ASSUME R(o) \in Replacements(m, j) PROVE FALSE
        OBVIOUS
      <4>1. PICK q \in D : r(o) = r(q) /\ r(q) # 0
        BY <1>7, <3>1
      <4>2. q \in Objects
        BY <1>4
      <4> QED BY <1>3, <2>2, <4>1, <4>2
    <3> QED BY <1>2, <1>5, <3>1, <3>2
  <2> QED BY <2>1, <2>2
<1>11. \A id \in u.garbage : IsObject(messages', last_id', id)
  BY <1>5, <1>9
<1>12. RefsOK(messages', last_id', u)
  BY <1>2, <1>8, <1>10, <1>11, RefsAre DEF R
<1> QED BY <1>12 DEF u

\* A flush into a MemoryBackend.
LEMMA FlushLocalIs ==
  ASSUME TypesOK, NEW p \in Processes, FlushLocal(p)
  PROVE  /\ UNCHANGED <<config, remote, mount_lock, commands>> /\ Spend("flushes")
         /\ daemons[p] # None /\ daemons[p].memory # None /\ DirtyIds # {}
         /\ daemons[p].manifest \in ManifestsOf(Size)
         /\ \E base \in Nat, b \in Memory, m \in ManifestsOf(Size) :
              /\ m = Uploaded(daemons[p].manifest, Len(Uploads), base)
              /\ daemons' = [daemons EXCEPT ![p] = [manifest |-> m, memory |-> b]]
              /\ Saves(store', m, NoDirty)
<1> DEFINE b == daemons[p].memory
           m == Uploaded(daemons[p].manifest, Len(Uploads), Len(b))
<1>1. /\ UNCHANGED <<config, remote, mount_lock, commands>> /\ Spend("flushes")
      /\ daemons[p] # None /\ b # None /\ DirtyIds # {}
      /\ daemons' = [daemons EXCEPT ![p] = [manifest |-> m, memory |-> @.memory \o Uploads]]
      /\ store' = Flushed(m)
  BY Zenon DEF FlushLocal
<1>2. b \in Seq(ObjectMsg) /\ daemons[p].manifest \in ManifestsOf(Size)
  BY <1>1, DaemonIs
<1>3. Uploads \in Seq(ObjectMsg) /\ Len(Uploads) \in Nat
  BY UploadsAre
<1>4. Len(b) \in Nat /\ m \in ManifestsOf(Size)
  <2>1. Len(b) \in Nat
    BY <1>2
  <2> QED BY <1>2, <1>3, <2>1, UploadedIs
<1>5. daemons' = [daemons EXCEPT ![p] = [manifest |-> m, memory |-> b \o Uploads]]
  BY <1>1 DEF TypesOK
<1>6. b \o Uploads \in Memory
  <2> HIDE DEF b
  <2>1. b \o Uploads \in Seq(ObjectMsg)
    BY <1>2, <1>3
  <2> QED BY <2>1 DEF Memory, ObjectMsg
<1>7. Saves(store', m, NoDirty)
  <2> HIDE DEF m
  <2> QED BY <1>1, <1>4, SavedFlushed
<1>8. /\ m = Uploaded(daemons[p].manifest, Len(Uploads), Len(b))
      /\ daemons' = [daemons EXCEPT ![p] = [manifest |-> m, memory |-> b \o Uploads]]
      /\ Saves(store', m, NoDirty)
  BY <1>5, <1>7
<1> HIDE DEF m
<1> QED BY <1>1, <1>2, <1>4, <1>6, <1>8

-----------------------------------------------------------------------------
(* Exclusion *)

\* The lock keeps a second daemon out; nothing is dirty, and nothing served, without a
\* saved manifest.
Exclusive ==
  /\ \A p, q \in Running : p = q
  /\ Running # {} => mount_lock
  /\ store.manifest = None => store.dirty = NoDirty /\ Running = {}
  /\ \A o \in Units \ Objects : store.dirty[o] = 0

\* What a command leaves of the store.
StoreKept ==
  \/ store' = store
  \/ Saves(store', store.manifest, store.dirty)
  \/ \E m \in ManifestsOf(Size) : Saves(store', m, store.dirty) \/ Saves(store', m, NoDirty)

\* A command leaves the daemons alone, and keeps the rows unless it takes the lock.
LEMMA CommandLeaves ==
  ASSUME TypesOK, Command, ~LoseMachine
  PROVE  /\ config' = config /\ daemons' = daemons
         /\ mount_lock' = mount_lock \/ Running = {}
         /\ StoreKept
<1>1. CASE OpenStore
  <2>1. store' = Opened /\ config' = config /\ daemons' = daemons /\ mount_lock' = mount_lock
    BY <1>1, Zenon DEF OpenStore
  <2> QED BY <2>1, SavedOpened DEF StoreKept
<1>2. CASE RemoveLock
  <2>1. store' = store /\ config' = config /\ daemons' = daemons /\ Running = {}
    BY <1>2, Zenon DEF RemoveLock
  <2> QED BY <2>1 DEF StoreKept
<1>3. CASE \E force \in BOOLEAN : FormatFails(force)
  <2>1. store' = Opened /\ config' = config /\ daemons' = daemons /\ mount_lock' = mount_lock
    BY <1>3, Zenon DEF FormatFails
  <2> QED BY <2>1, SavedOpened DEF StoreKept
<1>4. CASE \E force, local_only \in BOOLEAN : Format(force, local_only)
  <2>1. PICK force \in BOOLEAN, local_only \in BOOLEAN : Format(force, local_only)
    BY <1>4
  <2>2. /\ EmptyManifest(NewUuid, Size) \in ManifestsOf(Size)
        /\ store' = Replaced(EmptyManifest(NewUuid, Size))
        /\ UNCHANGED <<config, mount_lock, daemons, commands>>
    BY <2>1, FormatIs
  <2>3. Saves(store', EmptyManifest(NewUuid, Size), store.dirty)
    BY <2>2, SavedReplaced
  <2> QED BY <2>2, <2>3 DEF StoreKept
<1>5. CASE RecoverFetch \/ GcStart \/ GcFails \/ (\E id \in gc : GcDelete(id)) \/ RollbackFails
  <2>1. UNCHANGED <<config, store, mount_lock, daemons>>
    BY <1>5, Zenon DEF RecoverFetch, GcStart, GcFails, GcDelete, RollbackFails
  <2> QED BY <2>1 DEF StoreKept
<1>6. CASE RecoverReplace
  <2>1. fetched # None /\ store' = Replaced(fetched) /\ UNCHANGED <<config, mount_lock, daemons>>
    BY <1>6, Zenon DEF RecoverReplace
  <2>2. fetched \in ManifestsOf(Size)
    BY <2>1 DEF TypesOK
  <2>3. Saves(store', fetched, store.dirty)
    BY <2>1, <2>2, SavedReplaced
  <2> QED BY <2>1, <2>2, <2>3 DEF StoreKept
<1>7. CASE Rollback
  <2>1. UNCHANGED <<config, mount_lock, daemons>>
    BY <1>7, Zenon DEF Rollback
  <2>2. PICK m \in ManifestsOf(Size) : store' = Replaced(m)
    BY <1>7, RollbackIs
  <2>3. Saves(store', m, store.dirty)
    BY <2>2, SavedReplaced
  <2> QED BY <2>1, <2>3 DEF StoreKept
<1>8. CASE FlushCommand
  <2> DEFINE m == Uploaded(store.manifest, Len(Uploads), 0)
  <2>1. store.manifest # None /\ store' = Flushed(m) /\ UNCHANGED <<config, mount_lock, daemons>>
    BY <1>8, Zenon DEF FlushCommand
  <2>2. m \in ManifestsOf(Size)
    <3>1. store.manifest \in ManifestsOf(Size) /\ Len(Uploads) \in Nat
      BY <2>1, StoreFields, UploadsAre
    <3> QED BY <3>1, UploadedIs
  <2> HIDE DEF m
  <2>3. Saves(store', m, NoDirty)
    BY <2>1, <2>2, SavedFlushed
  <2> QED BY <2>1, <2>2, <2>3 DEF StoreKept
<1> QED BY <1>1, <1>2, <1>3, <1>4, <1>5, <1>6, <1>7, <1>8, Zenon DEF Command

\* No daemon runs in the first state.
LEMMA InitExclusive == Init => Exclusive
<1> SUFFICES ASSUME Init PROVE Exclusive
  OBVIOUS
<1>1. store = NoStore /\ Running = {} /\ config \in Scenarios
  BY DEF Init, Running
<1>2. store.manifest = None /\ store.dirty = NoDirty /\ \A o \in Units : store.dirty[o] = 0
  BY <1>1, NothingStored DEF NoStore
<1> QED BY <1>1, <1>2 DEF Exclusive

\* What a step that keeps the store leaves of its consistency.
LEMMA StoreKeptExclusive ==
  ASSUME TypesOK, Exclusive, StoreKept, config' = config
  PROVE  /\ store'.manifest = None => store'.dirty = NoDirty /\ store.manifest = None
         /\ \A o \in Units \ Objects : store'.dirty[o] = 0
         /\ store.manifest # None => store'.manifest # None
<1>1. \A m \in ManifestsOf(Size) : m # None
  BY ManifestParts
<1>2. \A o \in Units \ Objects : store.dirty[o] = 0 /\ NoDirty[o] = 0
  BY NothingStored DEF Exclusive, TypesOK
<1> QED BY <1>1, <1>2 DEF Exclusive, StoreKept, Saves

\* A step of a running daemon starts none.
LEMMA DaemonStays ==
  ASSUME TypesOK, NEW p \in Processes, NEW x, daemons' = [daemons EXCEPT ![p] = x],
         daemons[p] # None
  PROVE  p \in Running /\ Running' \subseteq Running
<1>1. p \in Running
  BY DEF Running
<1> QED BY <1>1, OneDaemon

\* The mount lock excludes a second daemon, in every step.
LEMMA ExclusiveStep == TypesOK /\ Exclusive /\ [Next]_vars => Exclusive'
<1> SUFFICES ASSUME TypesOK, Exclusive, [Next]_vars PROVE Exclusive'
  OBVIOUS
<1>1. ASSUME config' = config PROVE Objects' = Objects
  BY <1>1 DEF Objects
<1>2. CASE Command
  <2>1. CASE LoseMachine
    <3>1. store' = NoStore /\ daemons' = [p \in Processes |-> None] /\ config' = config
      BY <2>1, Zenon DEF LoseMachine
    <3>2. Running' = {}
      BY <3>1 DEF Running
    <3>3. store'.manifest = None /\ store'.dirty = NoDirty /\ \A o \in Units : store'.dirty[o] = 0
      BY <3>1, NothingStored DEF NoStore, TypesOK
    <3> QED BY <3>2, <3>3 DEF Exclusive
  <2>2. CASE ~LoseMachine
    <3>1. config' = config /\ daemons' = daemons /\ StoreKept
          /\ (mount_lock' = mount_lock \/ Running = {})
      BY <1>2, <2>2, CommandLeaves
    <3>2. Running' = Running
      BY <3>1, SameDaemons
    <3>3. /\ store'.manifest = None => store'.dirty = NoDirty /\ store.manifest = None
          /\ \A o \in Units \ Objects : store'.dirty[o] = 0
      BY <3>1, StoreKeptExclusive
    <3> QED BY <1>1, <3>1, <3>2, <3>3 DEF Exclusive
  <2> QED BY <2>1, <2>2
<1>3. CASE \E p \in Processes : Daemon(p)
  <2>1. PICK p \in Processes : Daemon(p)
    BY <1>3
  <2>2. CASE Serve(p)
    <3>1. /\ ~mount_lock /\ mount_lock' = TRUE /\ config' = config
          /\ store'.manifest \in ManifestsOf(Size) /\ Saves(store', store'.manifest, store.dirty)
          /\ daemons' = [daemons EXCEPT ![p] = [manifest |-> store'.manifest, memory |-> None]]
      BY <2>2, ServeIs
    <3>2. Running = {}
      BY <3>1 DEF Exclusive
    <3>3. [manifest |-> store'.manifest, memory |-> None] # None
      BY <3>1, NoDaemon
    <3>4. Running' = {p}
      BY <3>1, <3>2, <3>3, OneDaemon
    <3>5. StoreKept /\ store'.manifest # None
      BY <3>1, ManifestParts DEF StoreKept
    <3>6. \A o \in Units \ Objects : store'.dirty[o] = 0
      BY <3>1, <3>5, StoreKeptExclusive
    <3> QED BY <1>1, <3>1, <3>4, <3>5, <3>6 DEF Exclusive
  <2>3. CASE ServeLocal(p)
    <3>1. /\ ~mount_lock /\ mount_lock' = TRUE /\ UNCHANGED <<config, store>>
          /\ store.manifest # None
          /\ daemons' = [daemons EXCEPT ![p] = [manifest |-> store.manifest, memory |-> <<>>]]
      BY <2>3, Zenon DEF ServeLocal, Acquire
    <3>2. Running = {}
      BY <3>1 DEF Exclusive
    <3>3. [manifest |-> store.manifest, memory |-> <<>>] # None
      <4>1. <<>> \in Memory
        BY DEF Memory
      <4>2. store.manifest \in ManifestsOf(Size)
        BY <3>1, StoreFields
      <4> QED BY <4>1, <4>2, NoDaemon
    <3>4. Running' = {p}
      BY <3>1, <3>2, <3>3, OneDaemon
    <3> QED BY <1>1, <3>1, <3>4 DEF Exclusive
  <2>4. CASE Stop(p)
    <3>1. /\ daemons[p] # None /\ daemons' = [daemons EXCEPT ![p] = None]
          /\ UNCHANGED <<config, store>>
      BY <2>4, Zenon DEF Stop
    <3>2. Running' = Running \ {p} /\ p \in Running
      BY <3>1, OneDaemon DEF Running
    <3>3. Running' = {}
      BY <3>2 DEF Exclusive
    <3> QED BY <1>1, <3>1, <3>3 DEF Exclusive
  <2>5. CASE \E o \in Objects, v \in Value : Write(p, o, v)
    <3>1. PICK o \in Objects, v \in Value : Write(p, o, v)
      BY <2>5
    <3>2. /\ o \in Units /\ o \in Nat /\ daemons[p] # None /\ store'.manifest = store.manifest
          /\ store'.dirty = [store.dirty EXCEPT ![o] = daemons[p].manifest.generation + 1]
      BY <3>1, WriteIs
    <3>3. UNCHANGED <<config, mount_lock, daemons>>
      BY <3>1, Zenon DEF Write
    <3>4. Running' = Running /\ Running # {}
      BY <3>2, <3>3, SameDaemons DEF Running
    <3>5. store'.manifest # None
      BY <3>2, <3>4 DEF Exclusive
    <3>6. \A q \in Units \ Objects : store'.dirty[q] = 0
      <4>1. store.dirty \in [Units -> Nat]
        BY StoreFields
      <4>2. \A q \in Units \ Objects : store'.dirty[q] = store.dirty[q]
        BY <3>2, <4>1
      <4> QED BY <4>2 DEF Exclusive
    <3> QED BY <1>1, <3>3, <3>4, <3>5, <3>6 DEF Exclusive
  <2>6. CASE \E o \in Objects : Read(p, o)
    <3>1. PICK o \in Objects : Read(p, o)
      BY <2>6
    <3>2. store'.manifest = store.manifest /\ store'.dirty = store.dirty
      BY <3>1, ReadIs
    <3>3. UNCHANGED <<config, mount_lock, daemons>>
      BY <3>1, Zenon DEF Read
    <3>4. Running' = Running
      BY <3>3, SameDaemons
    <3> QED BY <1>1, <3>2, <3>3, <3>4 DEF Exclusive
  <2>7. ASSUME NEW m \in ManifestsOf(Size), NEW b \in Memory \cup {None},
               \/ daemons' = [daemons EXCEPT ![p] = [manifest |-> m, memory |-> b]]
               \/ daemons' = [daemons EXCEPT ![p] = None],
               daemons[p] # None, config' = config, mount_lock' = mount_lock, StoreKept
        PROVE  Exclusive'
    <3>2. p \in Running /\ Running' \subseteq Running
      BY <2>7, DaemonStays
    <3>3. store.manifest # None
      BY <3>2 DEF Exclusive
    <3>4. store'.manifest # None /\ \A o \in Units \ Objects : store'.dirty[o] = 0
      BY <2>7, <3>3, StoreKeptExclusive
    <3> QED BY <1>1, <2>7, <3>2, <3>4 DEF Exclusive
  <2>8. CASE Flush(p)
    <3>1. /\ UNCHANGED <<config, mount_lock, commands>> /\ daemons[p] # None
          /\ FlushedManifest(p) \in ManifestsOf(Size)
          /\ daemons' = [daemons EXCEPT ![p] = [manifest |-> FlushedManifest(p), memory |-> None]]
          /\ Saves(store', FlushedManifest(p), NoDirty)
      BY <2>8, FlushIs
    <3>2. StoreKept
      BY <3>1 DEF StoreKept
    <3>3. None \in Memory \cup {None}
      OBVIOUS
    <3> QED BY <2>7, <3>1, <3>2, <3>3
  <2>9. CASE FlushFails(p)
    <3>1. /\ UNCHANGED <<config, mount_lock, commands>> /\ daemons[p] # None
          /\ FlushedManifest(p) \in ManifestsOf(Size)
          /\ store' = store \/ Saves(store', FlushedManifest(p), store.dirty)
          /\ \E j \in Nat :
               /\ Uploaded(daemons[p].manifest, j, last_id) \in ManifestsOf(Size)
               /\ \/ daemons' = [daemons EXCEPT ![p] = [manifest |-> Uploaded(daemons[p].manifest, j, last_id),
                                                        memory |-> None]]
                  \/ daemons' = [daemons EXCEPT ![p] = None]
      BY <2>9, FlushFailsIs
    <3>2. StoreKept
      BY <3>1 DEF StoreKept
    <3>3. None \in Memory \cup {None}
      OBVIOUS
    <3> QED BY <2>7, <3>1, <3>2, <3>3
  <2>10. CASE FlushLocal(p)
    <3>1. PICK m \in ManifestsOf(Size), b \in Memory :
            /\ daemons' = [daemons EXCEPT ![p] = [manifest |-> m, memory |-> b]]
            /\ Saves(store', m, NoDirty)
            /\ UNCHANGED <<config, mount_lock>> /\ daemons[p] # None
      BY <2>10, FlushLocalIs
    <3>2. StoreKept
      BY <3>1 DEF StoreKept
    <3> QED BY <2>7, <3>1, <3>2
  <2> QED BY <2>1, <2>2, <2>3, <2>4, <2>5, <2>6, <2>8, <2>9, <2>10 DEF Daemon
<1>4. CASE UNCHANGED vars
  <2>1. UNCHANGED <<config, store, mount_lock, daemons>>
    BY <1>4 DEF vars
  <2>2. Running' = Running
    BY <2>1, SameDaemons
  <2> QED BY <1>1, <2>1, <2>2 DEF Exclusive
<1> QED BY <1>2, <1>3, <1>4 DEF Next

-----------------------------------------------------------------------------
(* What the commands rely on, for a sound scenario *)

\* The scenario has a local device, which never writes to the channel.
Keeping == Allowed("serve --backend local")

\* Of z objects, the clean ones of m are zero objects or in their cache files.
Cached(z, st, m) ==
  \A o \in 0 .. z - 1 :
    st.dirty[o] = 0 /\ At(m, o).remote # 0 =>
      /\ <<o, At(m, o).generation>> \in DOMAIN st.files
      /\ st.files[<<o, At(m, o).generation>>] = At(m, o).payload

\* Manifest m, saved or served in scenario c: all it holds is in the cache files or, where
\* there is no local backend, its messages are objects.
Fine(c, ms, n, st, formats, m) ==
  /\ m.device_uuid > formats
  /\ IF "serve --backend local" \in c.commands
     THEN Cached(c.object_count, st, m)
     ELSE RefsOK(ms, n, m)

\* Every superblock is of a manifest that can be relied on, and of a format that was.
ChannelFine(c, ms, n, formats) ==
  /\ SuperblocksOK(c.object_count, ms, n)
  /\ \A i \in Superblocks(ms) :
       /\ ms[i].device_uuid > formats
       /\ "serve --backend local" \in c.commands => Generation(ms, i) = 0

\* What a collection is about to delete are objects.
GcFine(c, ms, n, ids) ==
  IF "serve --backend local" \in c.commands
  THEN ids = {}
  ELSE \A id \in ids : IsObject(ms, n, id)

\* What a sound scenario keeps: the channel, what gc and recover-from-remote hold in memory,
\* the saved manifest and the daemons' can be relied on.
Healthy ==
  /\ ChannelFine(config, messages, last_id, budget.formats)
  /\ GcFine(config, messages, last_id, gc)
  /\ fetched # None => fetched = RecoverManifest(messages) /\ Running = {}
  /\ store.manifest # None =>
       Fine(config, messages, last_id, store, budget.formats, store.manifest)
  /\ \A p \in Running :
       /\ daemons[p].memory = None <=> ~Keeping
       /\ Fine(config, messages, last_id, store, budget.formats, daemons[p].manifest)

\* The invariant of the sound scenarios.
SoundInv == Sound => Healthy

\* What the step makes of a manifest.
FineNow(m) == Fine(config, messages, last_id, store, budget.formats, m)
FineNext(m) == Fine(config, messages', last_id', store', budget'.formats, m)

\* No clean object loses its cache file.
CacheKept ==
  \A o \in Objects : store'.dirty[o] = 0 =>
    /\ store.dirty[o] = 0
    /\ \A g : <<o, g>> \in DOMAIN store.files =>
         <<o, g>> \in DOMAIN store'.files /\ store'.files[<<o, g>>] = store.files[<<o, g>>]

\* No format is given back.
FormatsShrink ==
  budget.formats \in Nat /\ budget'.formats \in Nat /\ budget'.formats <= budget.formats

\* A manifest that can be relied on still can, while nothing live is lost.
LEMMA FineKept ==
  ASSUME TypesOK, GrowsNow, FormatsShrink, Keeping => CacheKept,
         NEW m \in ManifestsOf(Size), FineNow(m)
  PROVE  FineNext(m)
<1>1. m.device_uuid > budget'.formats
  <2>1. m.device_uuid \in Nat /\ m.device_uuid > budget.formats
    BY ManifestParts DEF FineNow, Fine
  <2> QED BY <2>1 DEF FormatsShrink
<1>2. ASSUME ~Keeping PROVE RefsOK(messages', last_id', m)
  <2>1. RefsOK(messages, last_id, m)
    BY <1>2 DEF FineNow, Fine, Keeping, Allowed
  <2> QED BY <2>1, RefsKept DEF GrowsNow
<1>3. ASSUME Keeping PROVE Cached(Size, store', m)
  <2>1. Cached(Size, store, m) /\ CacheKept
    BY <1>3 DEF FineNow, Fine, Keeping, Allowed, Size
  <2> SUFFICES ASSUME NEW o \in 0 .. Size - 1, store'.dirty[o] = 0, At(m, o).remote # 0
               PROVE  /\ <<o, At(m, o).generation>> \in DOMAIN store'.files
                      /\ store'.files[<<o, At(m, o).generation>>] = At(m, o).payload
    BY DEF Cached
  <2>2. o \in Objects
    BY DEF Objects, Size
  <2>3. store.dirty[o] = 0
    BY <2>1, <2>2 DEF CacheKept
  <2>4. /\ <<o, At(m, o).generation>> \in DOMAIN store.files
        /\ store.files[<<o, At(m, o).generation>>] = At(m, o).payload
    BY <2>1, <2>3 DEF Cached
  <2> QED BY <2>1, <2>2, <2>4 DEF CacheKept
<1> QED BY <1>1, <1>2, <1>3 DEF FineNext, Fine, Keeping, Allowed, Size

\* An empty manifest is fine.
LEMMA FineEmpty ==
  ASSUME TypesOK, NEW m \in ManifestsOf(Size), IsEmpty(Size, m), m.device_uuid > budget'.formats
  PROVE  FineNext(m)
<1>1. Size \in Nat /\ m.device_uuid \in Nat
  BY Sizes, ManifestParts DEF TypesOK
<1>2. m = EmptyManifest(m.device_uuid, Size)
  BY DEF IsEmpty
<1>3. RefsOK(messages', last_id', EmptyManifest(m.device_uuid, Size))
  BY <1>1, EmptyRefs
<1>4. ASSUME NEW o \in 0 .. Size - 1 PROVE At(m, o).remote = 0
  <2>1. o + 1 \in 1 .. Size /\ (o + 1) - 1 = o
    BY <1>1
  <2>2. EmptyManifest(m.device_uuid, Size).objects[o + 1] = ManifestObject((o + 1) - 1, 0, 0, 0)
    BY <1>1, <2>1, EmptyIs
  <2>3. m.objects[o + 1] = ManifestObject(o, 0, 0, 0)
    BY <1>2, <2>1, <2>2
  <2> QED BY <2>3 DEF At, ManifestObject
<1>5. Cached(Size, store', m)
  BY <1>4 DEF Cached
<1> QED BY <1>2, <1>3, <1>5 DEF FineNext, Fine, Size

\* What recover-from-remote finds is fine, if nothing was flushed where a local backend is used.
LEMMA FineRemote ==
  ASSUME TypesOK, SoundInv, Sound, UNCHANGED <<remote, budget>>, RecoverManifest(messages) # None
  PROVE  /\ FineNext(RecoverManifest(messages)) /\ RecoverManifest(messages) \in ManifestsOf(Size)
<1> DEFINE m == RecoverManifest(messages)
           i == RecoverSuperblock(messages)
<1>1. Size \in Nat /\ ChannelType(Size, last_id, messages)
  BY Sizes DEF TypesOK
<1>2. ChannelFine(config, messages, last_id, budget.formats)
  BY DEF SoundInv, Healthy
<1>3. SuperblocksOK(Size, messages, last_id)
  BY <1>2 DEF ChannelFine, Size
<1>4. /\ i # 0 /\ m \in ManifestsOf(Size) /\ m.device_uuid = messages[i].device_uuid
      /\ RefsOK(messages, last_id, m) /\ (Newest(messages) = 0 => IsEmpty(Size, m))
  BY <1>1, <1>3, RemoteIs
<1>5. i \in Superblocks(messages) /\ Newest(messages) = Generation(messages, i)
  BY <1>1, <1>4, NewestIs
<1>6. messages' = messages /\ last_id' = last_id /\ budget'.formats = budget.formats
  BY DEF remote
<1> HIDE DEF m, i
<1>7. m.device_uuid > budget'.formats
  BY <1>2, <1>4, <1>5, <1>6 DEF ChannelFine
<1>8. CASE Keeping
  <2>1. IsEmpty(Size, m)
    BY <1>2, <1>4, <1>5, <1>8 DEF ChannelFine, Keeping, Allowed
  <2>2. FineNext(m)
    BY <1>4, <1>7, <2>1, FineEmpty
  <2> QED BY <1>4, <2>2 DEF m
<1>9. CASE ~Keeping
  <2>1. FineNext(m)
    BY <1>4, <1>6, <1>7, <1>9 DEF FineNext, Fine, Keeping, Allowed
  <2> QED BY <1>4, <2>1 DEF m
<1> QED BY <1>8, <1>9

-----------------------------------------------------------------------------
(* What is committed *)

Commits(m) ==
  /\ GrowsNow
  /\ Publishes(messages, last_id, messages', m)
  /\ RefsOK(messages', last_id', m)
  /\ m.generation = 0 => IsEmpty(Size, m)
  /\ m.device_uuid > budget'.formats
  /\ Keeping => m.generation = 0

\* Nothing is committed: the superblocks are the same.
Quiet == GrowsNow /\ Superblocks(messages') = Superblocks(messages)

\* The channel of a sound scenario.
LEMMA ChannelHealthy ==
  ASSUME SoundInv, Sound
  PROVE  /\ SuperblocksOK(Size, messages, last_id)
         /\ \A i \in Superblocks(messages) :
              messages[i].device_uuid > budget.formats /\ (Keeping => Generation(messages, i) = 0)
BY DEF SoundInv, Healthy, ChannelFine, Size, Keeping, Allowed

\* A step that commits nothing leaves the superblock in force.
LEMMA QuietFine ==
  ASSUME TypesOK, SoundInv, Sound, FormatsShrink, Quiet
  PROVE  /\ ChannelFine(config, messages', last_id', budget'.formats)
         /\ InForceIs(messages, messages')
<1>1. Size \in Nat /\ ChannelType(Size, last_id, messages) /\ ChannelType(Size, last_id', messages')
      /\ Keeps(messages, messages')
  BY Sizes DEF TypesOK, Quiet, GrowsNow, Grows
<1>2. SuperblocksOK(Size, messages', last_id') /\ InForceIs(messages, messages')
  BY <1>1, ChannelHealthy, QuietIs DEF Quiet, GrowsNow
<1>3. ASSUME NEW i \in Superblocks(messages')
      PROVE  /\ messages'[i].device_uuid > budget'.formats
             /\ Keeping => Generation(messages', i) = 0
  <2>1. i \in Superblocks(messages)
    BY DEF Quiet
  <2>2. messages'[i] = messages[i]
    BY <1>1, <2>1, SameSuperblocks DEF Quiet
  <2>3. messages[i].device_uuid > budget.formats /\ messages[i].device_uuid \in Nat
    BY <1>1, <2>1, ChannelHealthy, SuperblockType DEF Superblock
  <2>4. Keeping => Generation(messages, i) = 0
    BY <2>1, ChannelHealthy
  <2>5. Generation(messages', i) = Generation(messages, i)
    BY <2>2 DEF Generation
  <2> QED BY <2>2, <2>3, <2>4, <2>5 DEF FormatsShrink
<1> QED BY <1>2, <1>3 DEF ChannelFine, Size, Keeping, Allowed

\* After a commit its manifest is in force, unless it is behind.
LEMMA CommitsFine ==
  ASSUME TypesOK, SoundInv, Sound, FormatsShrink, NEW m \in ManifestsOf(Size), Commits(m)
  PROVE  /\ ChannelFine(config, messages', last_id', budget'.formats)
         /\ RecoverSuperblock(messages') # 0
         /\ m.generation >= Newest(messages) =>
              /\ RecoverManifest(messages') = m /\ Newest(messages') = m.generation
              /\ messages'[RecoverSuperblock(messages')].device_uuid = m.device_uuid
         /\ m.generation < Newest(messages) => InForceIs(messages, messages')
<1>1. Size \in Nat /\ ChannelType(Size, last_id, messages) /\ ChannelType(Size, last_id', messages')
      /\ Keeps(messages, messages')
  BY Sizes DEF TypesOK, Commits, GrowsNow, Grows
<1>2. /\ SuperblocksOK(Size, messages', last_id')
      /\ RecoverSuperblock(messages') # 0
      /\ m.generation >= Newest(messages) =>
           /\ RecoverManifest(messages') = m /\ Newest(messages') = m.generation
           /\ messages'[RecoverSuperblock(messages')].device_uuid = m.device_uuid
      /\ m.generation < Newest(messages) => InForceIs(messages, messages')
  BY <1>1, ChannelHealthy, PublishedIs DEF Commits, GrowsNow
<1>3. ASSUME NEW i \in Superblocks(messages')
      PROVE  /\ messages'[i].device_uuid > budget'.formats
             /\ Keeping => Generation(messages', i) = 0
  <2>1. CASE i \in Superblocks(messages)
    <3>1. messages'[i] = messages[i]
      BY <2>1 DEF Commits, GrowsNow, Grows, Keeps, Superblocks
    <3>2. messages[i].device_uuid > budget.formats /\ messages[i].device_uuid \in Nat
      BY <1>1, <2>1, ChannelHealthy, SuperblockType DEF Superblock
    <3>3. Keeping => Generation(messages, i) = 0
      BY <2>1, ChannelHealthy
    <3>4. Generation(messages', i) = Generation(messages, i)
      BY <3>1 DEF Generation
    <3> QED BY <3>1, <3>2, <3>3, <3>4 DEF FormatsShrink
  <2>2. CASE i \notin Superblocks(messages)
    <3>1. messages'[i].device_uuid = m.device_uuid /\ Generation(messages', i) = m.generation
      BY <2>2 DEF Commits, Publishes
    <3> QED BY <3>1 DEF Commits
  <2> QED BY <2>1, <2>2
<1> QED BY <1>2, <1>3 DEF ChannelFine, Size, Keeping, Allowed

\* A daemon of a sound scenario.
LEMMA DaemonHealthy ==
  ASSUME SoundInv, Sound, NEW p \in Processes, daemons[p] # None
  PROVE  /\ p \in Running /\ fetched = None
         /\ FineNow(daemons[p].manifest)
         /\ daemons[p].memory = None => ~Keeping /\ RefsOK(messages, last_id, daemons[p].manifest)
         /\ daemons[p].memory # None => Keeping
         /\ daemons[p].manifest.device_uuid > budget.formats
<1>1. p \in Running
  BY DEF Running
<1> QED BY <1>1 DEF SoundInv, Healthy, Fine, FineNow, Keeping, Allowed

\* The generation of a flush.
LEMMA FlushedIs ==
  ASSUME TypesOK, NEW p \in Processes, daemons[p] # None, DirtyIds # {}, NEW j \in Nat
  PROVE  /\ daemons[p].manifest \in ManifestsOf(Size)
         /\ Uploaded(daemons[p].manifest, j, last_id) \in ManifestsOf(Size)
         /\ Uploaded(daemons[p].manifest, j, last_id).device_uuid = daemons[p].manifest.device_uuid
         /\ Uploaded(daemons[p].manifest, j, last_id).generation \in Nat \ {0}
         /\ Uploaded(daemons[p].manifest, j, last_id).generation = NewGeneration(daemons[p].manifest)
<1>1. daemons[p].manifest \in ManifestsOf(Size) /\ last_id \in Nat
  BY DaemonIs DEF TypesOK, ChannelType
<1>2. NewGeneration(daemons[p].manifest) \in Nat \ {0}
  BY NewGenerationIs
<1> DEFINE m == daemons[p].manifest
<1>3. m \in ManifestsOf(Size) /\ last_id \in Nat
  BY <1>1
<1>4. NewGeneration(m) \in Nat \ {0}
  BY <1>2
<1> HIDE DEF m
<1>5. /\ Uploaded(m, j, last_id) \in ManifestsOf(Size)
      /\ Uploaded(m, j, last_id).device_uuid = m.device_uuid
      /\ Uploaded(m, j, last_id).generation = NewGeneration(m)
  BY <1>3, UploadedIs
<1> QED BY <1>3, <1>4, <1>5 DEF m

\* A flush commits the manifest with all uploads.
LEMMA FlushCommits ==
  ASSUME TypesOK, SoundInv, Sound, NEW p \in Processes, Flush(p)
  PROVE  ~Keeping /\ FormatsShrink /\ fetched = None /\ Commits(FlushedManifest(p))
<1> DEFINE m == daemons[p].manifest
           u == FlushedManifest(p)
<1>1. /\ UNCHANGED <<config, mount_lock, commands>> /\ Spend("flushes")
      /\ daemons[p] # None /\ daemons[p].memory = None /\ DirtyIds # {}
      /\ GrowsNow /\ Publishes(messages, last_id, messages', u)
      /\ \E k \in Nat : UploadsSent(k) /\ k >= Len(Uploads)
  BY FlushIs
<1>2. ~Keeping /\ RefsOK(messages, last_id, m) /\ m.device_uuid > budget.formats /\ fetched = None
  BY <1>1, DaemonHealthy
<1>3. Len(Uploads) \in Nat /\ u = Uploaded(m, Len(Uploads), last_id)
  BY UploadsAre DEF FlushedManifest
<1>4. m \in ManifestsOf(Size) /\ u.device_uuid = m.device_uuid /\ u.generation # 0
  BY <1>1, <1>3, FlushedIs
<1>5. RefsOK(messages', last_id', u)
  <2>1. PICK k \in Nat : UploadsSent(k) /\ k >= Len(Uploads)
    BY <1>1
  <2>2. config' = config /\ Len(Uploads) <= k /\ Len(Uploads) <= Len(Uploads)
    BY <1>1, <1>3, <2>1
  <2> HIDE DEF m, u
  <2>3. RefsOK(messages', last_id', Uploaded(m, Len(Uploads), last_id))
    BY <1>1, <1>2, <1>3, <1>4, <2>1, <2>2, RefsFlushed
  <2> QED BY <1>3, <2>3
<1>6. budget'.formats = budget.formats /\ budget.formats \in Nat
  BY <1>1, BudgetIs DEF TypesOK
<1> HIDE DEF m, u
<1>7. Commits(u) /\ FormatsShrink
  BY <1>1, <1>2, <1>4, <1>5, <1>6 DEF Commits, FormatsShrink
<1> QED BY <1>2, <1>7 DEF u

\* A flush that fails commits the same manifest, or nothing.
LEMMA FlushFailsCommits ==
  ASSUME TypesOK, SoundInv, Sound, NEW p \in Processes, FlushFails(p)
  PROVE  /\ ~Keeping /\ FormatsShrink /\ fetched = None
         /\ \E j \in Nat :
              /\ RefsOK(messages', last_id', Uploaded(daemons[p].manifest, j, last_id))
              /\ \/ daemons' = [daemons EXCEPT ![p] = [manifest |-> Uploaded(daemons[p].manifest, j, last_id),
                                                       memory |-> None]]
                 \/ daemons' = [daemons EXCEPT ![p] = None]
              /\ \/ Quiet /\ store' = store
                 \/ Commits(FlushedManifest(p)) /\ j = Len(Uploads)
<1> DEFINE m == daemons[p].manifest
           u == FlushedManifest(p)
           At2(j) == Uploaded(m, j, last_id)
           Leaves(j) ==
             \/ daemons' = [daemons EXCEPT ![p] = [manifest |-> At2(j), memory |-> None]]
             \/ daemons' = [daemons EXCEPT ![p] = None]
<1>1. /\ config' = config /\ budget.flushes > 0 /\ budget.faults > 0
      /\ budget' = [budget EXCEPT !.flushes = @ - 1, !.faults = @ - 1]
      /\ daemons[p] # None /\ daemons[p].memory = None /\ DirtyIds # {} /\ GrowsNow
  BY FlushFailsIs
<1>2. PICK k \in Nat, j \in Nat :
        /\ UploadsSent(k) /\ j <= k /\ j <= Len(Uploads)
        /\ Leaves(j)
        /\ \/ Superblocks(messages') = Superblocks(messages) /\ store' = store
           \/ /\ Publishes(messages, last_id, messages', u)
              /\ j = Len(Uploads) /\ k >= Len(Uploads)
  BY FlushFailsIs
<1>3. ~Keeping /\ RefsOK(messages, last_id, m) /\ m.device_uuid > budget.formats /\ fetched = None
  BY <1>1, DaemonHealthy
<1>4. m \in ManifestsOf(Size)
  BY <1>1, DaemonIs
<1>5. RefsOK(messages', last_id', At2(j))
  <2> HIDE DEF m
  <2> QED BY <1>1, <1>2, <1>3, <1>4, RefsFlushed
<1>6. budget'.formats = budget.formats /\ budget.formats \in Nat
  BY <1>1, BudgetIs DEF TypesOK
<1>7. FormatsShrink
  BY <1>6 DEF FormatsShrink
<1>8. Len(Uploads) \in Nat /\ u = Uploaded(m, Len(Uploads), last_id)
  BY UploadsAre DEF FlushedManifest
<1>9. u.device_uuid = m.device_uuid /\ u.generation # 0
  BY <1>1, <1>8, FlushedIs
<1>10. j = Len(Uploads) => RefsOK(messages', last_id', u)
  BY <1>5, <1>8
<1> HIDE DEF m, u, Leaves
<1>11. \/ Quiet /\ store' = store
       \/ Commits(u) /\ j = Len(Uploads)
  BY <1>1, <1>2, <1>3, <1>6, <1>9, <1>10 DEF Commits, Quiet
<1> QED BY <1>2, <1>3, <1>5, <1>7, <1>11 DEF m, u, Leaves

\* A format commits an empty manifest, of a device that never was.
LEMMA EmptyCommits ==
  ASSUME TypesOK, SoundInv, Sound, config' = config, budget.formats > 0,
         budget'.formats = budget.formats - 1,
         NEW k \in 0 .. Len(FormatMessages), Send(FormatMessages, k)
  PROVE  /\ FormatsShrink
         /\ \/ Quiet /\ k < Len(FormatMessages)
            \/ Commits(EmptyManifest(NewUuid, Size))
<1> DEFINE m == EmptyManifest(NewUuid, Size)
<1>1. Size \in Nat /\ NewUuid = budget.formats /\ budget.formats \in Nat /\ k \in Nat
  BY Sizes, BudgetIs DEF TypesOK, NewUuid
<1>2. /\ Sent(Size, m, <<>>, FormatMessages, k)
  BY FormatSent
<1>3. /\ m.device_uuid = NewUuid /\ m.generation = 0
      /\ RefsOK(messages', last_id', m) /\ IsEmpty(Size, m)
  <2>1. NewUuid \in Nat
    BY <1>1
  <2> HIDE DEF NewUuid
  <2>2. m.device_uuid = NewUuid /\ m.generation = 0
    BY <1>1, <2>1, EmptyIs
  <2>3. RefsOK(messages', last_id', m) /\ IsEmpty(Size, m)
    BY <1>1, <2>1, EmptyRefs
  <2> QED BY <2>2, <2>3
<1> HIDE DEF m
<1>4. GrowsNow
  BY <1>1, <1>2, SentGrows
<1>5. \/ Superblocks(messages') = Superblocks(messages) /\ k < Len(FormatMessages)
      \/ Publishes(messages, last_id, messages', m)
  BY <1>2 DEF Sent
<1>6. FormatsShrink /\ m.device_uuid > budget'.formats
  BY <1>1, <1>3 DEF FormatsShrink
<1>7. (Quiet /\ k < Len(FormatMessages)) \/ Commits(m)
  BY <1>3, <1>4, <1>5, <1>6 DEF Commits, Quiet
<1> QED BY <1>6, <1>7 DEF m

\* A format commits an empty manifest of a new device, or saves it locally only.
LEMMA FormatCommits ==
  ASSUME TypesOK, SoundInv, Sound, NEW force, NEW local_only, Format(force, local_only)
  PROVE  /\ FormatsShrink /\ fetched = None
         /\ Saves(store', EmptyManifest(NewUuid, Size), store.dirty)
         /\ NewUuid > budget'.formats /\ NewUuid \in Nat
         /\ \/ local_only /\ Quiet /\ UNCHANGED remote
            \/ ~local_only /\ Commits(EmptyManifest(NewUuid, Size))
<1>1. /\ EmptyManifest(NewUuid, Size) \in ManifestsOf(Size)
      /\ Formattable(force, local_only) /\ Spend("formats")
      /\ store' = Replaced(EmptyManifest(NewUuid, Size))
      /\ UNCHANGED <<config, mount_lock, daemons, commands>>
      /\ \/ local_only /\ UNCHANGED remote
         \/ ~local_only /\ Len(FormatMessages) \in Nat /\ Send(FormatMessages, Len(FormatMessages))
  BY FormatIs
<1>2. fetched = None
  BY <1>1 DEF Formattable
<1>3. Saves(store', EmptyManifest(NewUuid, Size), store.dirty)
  BY <1>1, SavedReplaced
<1>4. budget.formats \in Nat /\ budget.formats > 0 /\ budget'.formats = budget.formats - 1
  BY <1>1, BudgetIs DEF TypesOK
<1>5. FormatsShrink /\ NewUuid > budget'.formats /\ NewUuid \in Nat
  BY <1>4 DEF FormatsShrink, NewUuid
<1>6. CASE local_only /\ UNCHANGED remote
  BY <1>2, <1>3, <1>5, <1>6, SameGrows DEF Quiet
<1>7. CASE ~local_only /\ Len(FormatMessages) \in Nat /\ Send(FormatMessages, Len(FormatMessages))
  <2> DEFINE k == Len(FormatMessages)
  <2>1. k \in 0 .. Len(FormatMessages) /\ ~(k < Len(FormatMessages)) /\ config' = config
    BY <1>1, <1>7
  <2> HIDE DEF k
  <2>2. Send(FormatMessages, k)
    BY <1>7 DEF k
  <2>3. Commits(EmptyManifest(NewUuid, Size))
    BY <1>4, <2>1, <2>2, EmptyCommits
  <2> QED BY <1>2, <1>3, <1>5, <1>7, <2>3
<1> QED BY <1>1, <1>6, <1>7

\* A format that fails commits one, or nothing, and saves none.
LEMMA FormatFailsCommits ==
  ASSUME TypesOK, SoundInv, Sound, NEW force, FormatFails(force)
  PROVE  /\ FormatsShrink /\ fetched = None
         /\ Formattable(force, FALSE) /\ UNCHANGED <<config, mount_lock, daemons, commands>>
         /\ budget.faults > 0 /\ budget'.faults = budget.faults - 1
         /\ Saves(store', store.manifest, store.dirty)
         /\ Quiet \/ Commits(EmptyManifest(NewUuid, Size))
<1>1. /\ Formattable(force, FALSE) /\ budget.formats > 0 /\ budget.faults > 0
      /\ budget' = [budget EXCEPT !.formats = @ - 1, !.faults = @ - 1]
      /\ \E k \in 0 .. Len(FormatMessages) : Send(FormatMessages, k)
      /\ store' = Opened
      /\ UNCHANGED <<config, mount_lock, daemons, commands>>
  BY Zenon DEF FormatFails, FormatMessages, Size
<1>2. PICK k \in 0 .. Len(FormatMessages) : Send(FormatMessages, k)
  BY <1>1
<1>3. budget'.formats = budget.formats - 1 /\ budget'.faults = budget.faults - 1
  BY <1>1, BudgetIs DEF TypesOK
<1>4. FormatsShrink /\ (Quiet \/ Commits(EmptyManifest(NewUuid, Size)))
  BY <1>1, <1>2, <1>3, EmptyCommits
<1>5. fetched = None
  BY <1>1 DEF Formattable
<1>6. Saves(store', store.manifest, store.dirty)
  BY <1>1, SavedOpened
<1> QED BY <1>1, <1>3, <1>4, <1>5, <1>6

-----------------------------------------------------------------------------
(* A sound scenario stays healthy *)

\* What is to be shown of a step.
LEMMA HealthyFrom ==
  ASSUME config' = config,
         ChannelFine(config, messages', last_id', budget'.formats),
         GcFine(config, messages', last_id', gc'),
         fetched' # None => fetched' = RecoverManifest(messages') /\ Running' = {},
         store'.manifest # None => FineNext(store'.manifest),
         \A p \in Running' :
           (daemons'[p].memory = None <=> ~Keeping) /\ FineNext(daemons'[p].manifest)
  PROVE  Healthy'
<1>1. Keeping' = Keeping
  BY DEF Keeping, Allowed
<1> QED BY <1>1 DEF Healthy, FineNext

\* An identifier of an object stays one.
LEMMA ObjectKept ==
  ASSUME TypesOK, GrowsNow, NEW id, IsObject(messages, last_id, id)
  PROVE  IsObject(messages', last_id', id)
<1>1. last_id \in Nat /\ last_id' \in Nat /\ last_id <= last_id' /\ id \in Nat /\ id <= last_id /\ id >= 1
  BY DEF GrowsNow, Grows, ChannelType, IsObject
<1>2. id \in 1 .. last_id'
  BY <1>1
<1>3. id \in DOMAIN messages' => id \in DOMAIN messages /\ messages'[id] = messages[id]
  BY <1>1 DEF GrowsNow, Grows
<1> QED BY <1>2, <1>3 DEF IsObject

\* What a collection is about to delete are objects.
LEMMA GcKept ==
  ASSUME TypesOK, SoundInv, Sound, GrowsNow, gc' \subseteq gc
  PROVE  GcFine(config, messages', last_id', gc')
<1>1. GcFine(config, messages, last_id, gc)
  BY DEF SoundInv, Healthy
<1> QED BY <1>1, ObjectKept DEF GcFine

\* A step that saves a manifest loses no cache file.
LEMMA SavesKeepCache ==
  ASSUME TypesOK, store' = store \/ \E m : Saves(store', m, store.dirty)
  PROVE  CacheKept
BY DEF CacheKept, Saves

\* The saved manifest can be relied on after a step that keeps it.
LEMMA SavedKept ==
  ASSUME TypesOK, SoundInv, Sound, GrowsNow, FormatsShrink, Keeping => CacheKept,
         store'.manifest = store.manifest, store.manifest # None
  PROVE  FineNext(store'.manifest)
<1>1. store.manifest \in ManifestsOf(Size)
  BY StoreFields
<1>2. FineNow(store.manifest)
  BY DEF SoundInv, Healthy, FineNow
<1>3. FineNext(store.manifest)
  BY <1>1, <1>2, FineKept
<1> QED BY <1>3

\* The daemons' manifests can be relied on after a step that keeps them.
LEMMA DaemonsKept ==
  ASSUME TypesOK, SoundInv, Sound, GrowsNow, FormatsShrink, Keeping => CacheKept,
         daemons' = daemons, NEW p \in Running'
  PROVE  (daemons'[p].memory = None <=> ~Keeping) /\ FineNext(daemons'[p].manifest)
<1>1. p \in Processes /\ daemons[p] # None
  BY SameDaemons DEF Running
<1>2. /\ FineNow(daemons[p].manifest) /\ (daemons[p].memory = None <=> ~Keeping)
  BY <1>1, DaemonHealthy
<1>3. daemons[p].manifest \in ManifestsOf(Size)
  BY <1>1, DaemonIs
<1>4. FineNext(daemons[p].manifest)
  BY <1>2, <1>3, FineKept
<1> QED BY <1>2, <1>4

\* Of the daemons, only the one that was replaced runs.
LEMMA DaemonAlone ==
  ASSUME TypesOK, Exclusive, NEW p \in Processes, NEW x, daemons' = [daemons EXCEPT ![p] = x],
         daemons[p] # None \/ Running = {}, NEW q \in Running'
  PROVE  q = p /\ daemons'[q] = x /\ x # None
<1>1. p \in Running \/ Running = {}
  BY DEF Running
<1>2. daemons'[p] = x /\ \A r \in Processes : r # p => daemons'[r] = daemons[r]
  BY OneDaemon
<1>3. q = p
  <2>1. q \in Processes /\ daemons'[q] # None
    BY DEF Running
  <2>2. q # p => q \in Running
    BY <1>2, <2>1 DEF Running
  <2> QED BY <1>1, <2>2 DEF Exclusive
<1>4. daemons'[q] # None
  BY DEF Running
<1> QED BY <1>2, <1>3, <1>4

\* While a manifest is about to be recovered, none is served.
LEMMA NothingServed ==
  ASSUME SoundInv, Sound, fetched # None, NEW p \in Processes
  PROVE  ~Daemon(p)
<1>1. daemons[p] = None
  BY DEF SoundInv, Healthy, Running
<1> QED BY <1>1, Zenon DEF Daemon, Serve, ServeLocal, Stop, Read, Write, Flush, FlushFails, FlushLocal

\* What recover-from-remote fetched is still in force.
LEMMA FetchedKept ==
  ASSUME SoundInv, Sound, InForceIs(messages, messages'), daemons' = daemons, fetched' = fetched
  PROVE  fetched' # None => fetched' = RecoverManifest(messages') /\ Running' = {}
BY SameDaemons DEF SoundInv, Healthy, InForceIs

\* The steps that commit nothing, save what they did not fetch or served before, and start
\* no daemon.
LEMMA IdleHealthy ==
  ASSUME TypesOK, SoundInv, Sound, config' = config, FormatsShrink, Quiet,
         gc' \subseteq gc, fetched' = fetched, daemons' = daemons,
         Keeping => CacheKept, store'.manifest = store.manifest
  PROVE  Healthy'
<1>1. GrowsNow
  BY DEF Quiet
<1>2. ChannelFine(config, messages', last_id', budget'.formats) /\ InForceIs(messages, messages')
  BY QuietFine
<1>3. GcFine(config, messages', last_id', gc')
  BY <1>1, GcKept
<1>4. fetched' # None => fetched' = RecoverManifest(messages') /\ Running' = {}
  BY <1>2, FetchedKept
<1>5. store'.manifest # None => FineNext(store'.manifest)
  BY <1>1, SavedKept
<1>6. \A p \in Running' :
        (daemons'[p].memory = None <=> ~Keeping) /\ FineNext(daemons'[p].manifest)
  BY <1>1, DaemonsKept
<1> QED BY <1>2, <1>3, <1>4, <1>5, <1>6, HealthyFrom

\* A step that formats nothing.
LEMMA SameBudget ==
  ASSUME TypesOK, budget' = budget
  PROVE  FormatsShrink
<1>1. budget.formats \in Nat
  BY BudgetIs DEF TypesOK
<1> QED BY <1>1 DEF FormatsShrink

\* A step that spends something else.
LEMMA SpendShrinks ==
  ASSUME TypesOK, Spend("writes") \/ Spend("flushes") \/ Spend("losses")
  PROVE  FormatsShrink
<1>1. budget.formats \in Nat /\ budget'.formats = budget.formats
  BY BudgetIs DEF TypesOK
<1> QED BY <1>1 DEF FormatsShrink

\* The commands keep a sound scenario healthy.
LEMMA SoundCommand ==
  ASSUME TypesOK, Exclusive, SoundInv, Sound, Command
  PROVE  Healthy'
<1>1. ASSUME UNCHANGED remote PROVE Quiet
  BY <1>1, SameGrows DEF Quiet
<1>2. CASE OpenStore
  <2>1. store' = Opened /\ UNCHANGED <<config, remote, mount_lock, daemons, commands, budget>>
    BY <1>2, Zenon DEF OpenStore
  <2>2. Saves(store', store.manifest, store.dirty)
    BY <2>1, SavedOpened
  <2>3. CacheKept /\ store'.manifest = store.manifest
    BY <2>2, SavesKeepCache DEF Saves
  <2>4. Quiet /\ FormatsShrink /\ gc' \subseteq gc /\ fetched' = fetched
    BY <1>1, <2>1, SameBudget DEF commands
  <2> QED BY <2>1, <2>3, <2>4, IdleHealthy
<1>3. CASE RemoveLock \/ GcFails
  <2>1. UNCHANGED <<config, remote, store, daemons, fetched, budget>> /\ gc' \subseteq gc
    <3>1. UNCHANGED <<config, remote, store, daemons, fetched, budget>> /\ (gc' = gc \/ gc' = {})
      BY <1>3, Zenon DEF RemoveLock, GcFails, commands
    <3> QED BY <3>1
  <2>2. CacheKept /\ Quiet /\ FormatsShrink
    BY <1>1, <2>1, SavesKeepCache, SameBudget
  <2> QED BY <2>1, <2>2, IdleHealthy
<1>4. CASE LoseMachine
  <2>1. /\ Spend("losses") /\ store' = NoStore /\ daemons' = [p \in Processes |-> None]
        /\ gc' = {} /\ fetched' = None /\ UNCHANGED <<config, remote>>
    BY <1>4, Zenon DEF LoseMachine
  <2>2. Quiet /\ FormatsShrink
    BY <1>1, <2>1, SpendShrinks
  <2>3. ChannelFine(config, messages', last_id', budget'.formats)
    BY <2>2, QuietFine
  <2>4. store'.manifest = None /\ Running' = {}
    BY <2>1 DEF NoStore, Running
  <2>5. GcFine(config, messages', last_id', gc')
    BY <2>1 DEF GcFine
  <2> QED BY <2>1, <2>3, <2>4, <2>5, HealthyFrom
<1>5. CASE \E force \in BOOLEAN : FormatFails(force)
  <2>1. PICK force \in BOOLEAN : FormatFails(force)
    BY <1>5
  <2>2. /\ FormatsShrink /\ fetched = None
        /\ UNCHANGED <<config, mount_lock, daemons, commands>>
        /\ Saves(store', store.manifest, store.dirty)
        /\ Quiet \/ Commits(EmptyManifest(NewUuid, Size))
    BY <2>1, FormatFailsCommits
  <2>3. GrowsNow /\ ChannelFine(config, messages', last_id', budget'.formats)
    <3>1. EmptyManifest(NewUuid, Size) \in ManifestsOf(Size)
      BY FormatTyped
    <3> QED BY <2>2, <3>1, QuietFine, CommitsFine DEF Commits, Quiet
  <2>4. CacheKept /\ store'.manifest = store.manifest /\ fetched' = None
    BY <2>2, SavesKeepCache DEF Saves, commands
  <2>5. store'.manifest # None => FineNext(store'.manifest)
    BY <2>2, <2>3, <2>4, SavedKept
  <2>6. GcFine(config, messages', last_id', gc')
    BY <2>2, <2>3, GcKept DEF commands
  <2>7. \A p \in Running' :
          (daemons'[p].memory = None <=> ~Keeping) /\ FineNext(daemons'[p].manifest)
    BY <2>2, <2>3, <2>4, DaemonsKept
  <2> QED BY <2>2, <2>3, <2>4, <2>5, <2>6, <2>7, HealthyFrom
<1>6. CASE \E force, local_only \in BOOLEAN : Format(force, local_only)
  <2>1. PICK force \in BOOLEAN, local_only \in BOOLEAN : Format(force, local_only)
    BY <1>6
  <2> DEFINE m == EmptyManifest(NewUuid, Size)
  <2>2. /\ FormatsShrink /\ fetched = None /\ Saves(store', m, store.dirty)
        /\ NewUuid > budget'.formats /\ NewUuid \in Nat
        /\ Quiet \/ Commits(m)
    BY <2>1, FormatCommits
  <2>3. UNCHANGED <<config, mount_lock, daemons, commands>> /\ m \in ManifestsOf(Size)
    BY <2>1, FormatIs
  <2>4. m.device_uuid = NewUuid /\ IsEmpty(Size, m)
    <3>1. Size \in Nat
      BY Sizes DEF TypesOK
    <3> HIDE DEF NewUuid
    <3> QED BY <2>2, <3>1, EmptyIs, EmptyRefs
  <2> HIDE DEF m
  <2>5. GrowsNow /\ ChannelFine(config, messages', last_id', budget'.formats)
    BY <2>2, <2>3, QuietFine, CommitsFine DEF Commits, Quiet
  <2>6. CacheKept /\ store'.manifest = m /\ fetched' = None
    BY <2>2, <2>3, SavesKeepCache DEF Saves, commands
  <2>7. FineNext(m)
    BY <2>2, <2>3, <2>4, FineEmpty
  <2>8. GcFine(config, messages', last_id', gc')
    BY <2>3, <2>5, GcKept DEF commands
  <2>9. \A p \in Running' :
          (daemons'[p].memory = None <=> ~Keeping) /\ FineNext(daemons'[p].manifest)
    BY <2>2, <2>3, <2>5, <2>6, DaemonsKept
  <2> QED BY <2>3, <2>5, <2>6, <2>7, <2>8, <2>9, HealthyFrom
<1>7. CASE RecoverFetch
  <2>1. /\ Running = {} /\ fetched' = RecoverManifest(messages)
        /\ UNCHANGED <<config, remote, store, mount_lock, daemons, gc, budget>>
    <3>1. \/ Running = {}
          \/ Allowed("recover-from-remote beside a daemon")
      BY <1>7, Zenon DEF RecoverFetch
    <3>2. ~Allowed("recover-from-remote beside a daemon")
      BY DEF Sound, Unsound, Allowed
    <3>3. /\ fetched' = RecoverManifest(messages)
          /\ UNCHANGED <<config, remote, store, mount_lock, daemons, gc, budget>>
      BY <1>7, Zenon DEF RecoverFetch
    <3> QED BY <3>1, <3>2, <3>3
  <2>2. CacheKept /\ Quiet /\ FormatsShrink /\ GrowsNow
    BY <1>1, <2>1, SavesKeepCache, SameBudget DEF Quiet
  <2>3. ChannelFine(config, messages', last_id', budget'.formats)
    BY <2>2, QuietFine
  <2>4. GcFine(config, messages', last_id', gc')
    BY <2>1, <2>2, GcKept
  <2>5. store'.manifest # None => FineNext(store'.manifest)
    BY <2>1, <2>2, SavedKept
  <2>6. fetched' = RecoverManifest(messages') /\ Running' = {}
    BY <2>1, SameDaemons DEF remote
  <2> QED BY <2>1, <2>3, <2>4, <2>5, <2>6, HealthyFrom
<1>8. CASE RecoverReplace
  <2>1. /\ fetched # None /\ store' = Replaced(fetched) /\ fetched' = None
        /\ UNCHANGED <<config, remote, mount_lock, daemons, gc, budget>>
    BY <1>8, Zenon DEF RecoverReplace
  <2>2. fetched = RecoverManifest(messages) /\ fetched \in ManifestsOf(Size)
    BY <2>1 DEF SoundInv, Healthy, TypesOK
  <2>3. Saves(store', fetched, store.dirty)
    BY <2>1, <2>2, SavedReplaced
  <2>4. CacheKept /\ Quiet /\ FormatsShrink /\ GrowsNow /\ store'.manifest = fetched
    BY <1>1, <2>1, <2>3, SavesKeepCache, SameBudget DEF Quiet, Saves
  <2>5. ChannelFine(config, messages', last_id', budget'.formats)
    BY <2>4, QuietFine
  <2>6. GcFine(config, messages', last_id', gc')
    BY <2>1, <2>4, GcKept
  <2>7. FineNext(fetched)
    BY <2>1, <2>2, FineRemote
  <2>8. \A p \in Running' :
          (daemons'[p].memory = None <=> ~Keeping) /\ FineNext(daemons'[p].manifest)
    BY <2>1, <2>4, DaemonsKept
  <2> QED BY <2>1, <2>4, <2>5, <2>6, <2>7, <2>8, HealthyFrom
<1>9. CASE GcStart
  <2>1. /\ Allowed("gc") /\ store.manifest # None /\ gc' = store.manifest.garbage
        /\ UNCHANGED <<config, remote, store, mount_lock, daemons, fetched, budget>>
    BY <1>9, Zenon DEF GcStart
  <2>2. ~Keeping
    BY <2>1 DEF Sound, OnChannel, Keeping, Allowed
  <2>3. RefsOK(messages, last_id, store.manifest)
    BY <2>1, <2>2 DEF SoundInv, Healthy, Fine, Keeping, Allowed
  <2>4. CacheKept /\ Quiet /\ FormatsShrink /\ GrowsNow
    BY <1>1, <2>1, SavesKeepCache, SameBudget DEF Quiet
  <2>5. ChannelFine(config, messages', last_id', budget'.formats) /\ InForceIs(messages, messages')
    BY <2>4, QuietFine
  <2>6. GcFine(config, messages', last_id', gc')
    <3>1. \A id \in gc' : IsObject(messages, last_id, id)
      BY <2>1, <2>3 DEF RefsOK, IsObject
    <3> QED BY <2>2, <2>4, <3>1, ObjectKept DEF GcFine, Keeping, Allowed
  <2>7. store'.manifest # None => FineNext(store'.manifest)
    BY <2>1, <2>4, SavedKept
  <2>8. \A p \in Running' :
          (daemons'[p].memory = None <=> ~Keeping) /\ FineNext(daemons'[p].manifest)
    BY <2>1, <2>4, DaemonsKept
  <2>9. fetched' # None => fetched' = RecoverManifest(messages') /\ Running' = {}
    BY <2>1, <2>5, FetchedKept
  <2> QED BY <2>1, <2>5, <2>6, <2>7, <2>8, <2>9, HealthyFrom
<1>10. CASE \E id \in gc : GcDelete(id)
  <2>1. PICK id \in gc : GcDelete(id)
    BY <1>10
  <2>2. gc' = gc \ {id} /\ UNCHANGED <<config, store, mount_lock, daemons, fetched, budget>>
    BY <2>1, Zenon DEF GcDelete
  <2>3. id \in DOMAIN messages => messages[id].kind = "object"
    <3>1. GcFine(config, messages, last_id, gc)
      BY DEF SoundInv, Healthy
    <3> QED BY <2>1, <3>1 DEF GcFine, IsObject
  <2>4. Quiet
    BY <2>1, <2>3, DeletedGrows DEF Quiet
  <2>5. CacheKept /\ FormatsShrink /\ gc' \subseteq gc
    BY <2>2, SavesKeepCache, SameBudget
  <2> QED BY <2>2, <2>4, <2>5, IdleHealthy
<1>11. ~(Rollback \/ RollbackFails \/ FlushCommand)
  <2>1. ~Allowed("recover") /\ ~Allowed("flush")
    BY DEF Sound, Unsound, Allowed
  <2> QED BY <2>1, Zenon DEF Rollback, RollbackFails, FlushCommand
<1> QED BY <1>2, <1>3, <1>4, <1>5, <1>6, <1>7, <1>8, <1>9, <1>10, <1>11, Zenon DEF Command

\* A file written for a dirty object, or where there was none, replaces nothing clean.
LEMMA FileAddedKeepsCache ==
  ASSUME TypesOK, NEW o \in Objects, NEW g \in Nat, NEW v \in Value,
         store'.files = WithFile(<<o, g>>, v),
         \/ <<o, g>> \notin DOMAIN store.files /\ store'.dirty = store.dirty
         \/ g # 0 /\ store'.dirty = [store.dirty EXCEPT ![o] = g]
  PROVE  CacheKept
<1>1. o \in Nat /\ o \in Units /\ Objects \subseteq Units
  BY Sizes DEF TypesOK
<1>2. /\ DOMAIN store'.files = DOMAIN store.files \cup {<<o, g>>}
      /\ \A k \in DOMAIN store.files : k # <<o, g>> => store'.files[k] = store.files[k]
  <2>1. <<o, g>> \in Nat \X Nat
    BY <1>1
  <2> QED BY <2>1, FileAdded
<1> SUFFICES ASSUME NEW q \in Objects, store'.dirty[q] = 0
             PROVE  /\ store.dirty[q] = 0
                    /\ \A h : <<q, h>> \in DOMAIN store.files =>
                         <<q, h>> \in DOMAIN store'.files
                         /\ store'.files[<<q, h>>] = store.files[<<q, h>>]
  BY DEF CacheKept
<1>3. store.dirty \in [Units -> Nat]
  BY StoreFields
<1>4. CASE <<o, g>> \notin DOMAIN store.files /\ store'.dirty = store.dirty
  BY <1>2, <1>4
<1>5. CASE g # 0 /\ store'.dirty = [store.dirty EXCEPT ![o] = g]
  <2>1. q # o /\ store.dirty[q] = 0
    BY <1>1, <1>3, <1>5
  <2>2. \A h : <<q, h>> # <<o, g>>
    BY <2>1
  <2> QED BY <1>2, <2>1, <2>2
<1> QED BY <1>4, <1>5

\* A write replaces no clean object's file.
LEMMA WriteKeepsCache ==
  ASSUME TypesOK, NEW p \in Processes, NEW o \in Objects, NEW v \in Value, Write(p, o, v)
  PROVE  CacheKept
<1> DEFINE g == daemons[p].manifest.generation + 1
<1>1. /\ g \in Nat \ {0} /\ store'.dirty = [store.dirty EXCEPT ![o] = g]
      /\ store'.files = WithFile(<<o, g>>, v)
  BY WriteIs
<1> HIDE DEF g
<1> QED BY <1>1, FileAddedKeepsCache

\* A read replaces no file.
LEMMA ReadKeepsCache ==
  ASSUME TypesOK, NEW p \in Processes, NEW o \in Objects, Read(p, o)
  PROVE  CacheKept
<1> DEFINE e == ReadEntry(p, o)
<1>1. /\ e \in ObjectEntry /\ <<o, e.generation>> \notin DOMAIN store.files
      /\ store'.dirty = store.dirty
      /\ store'.files = WithFile(<<o, e.generation>>, e.payload)
  BY ReadIs
<1> HIDE DEF e
<1>2. e.generation \in Nat /\ e.payload \in Value
  BY <1>1 DEF ObjectEntry
<1> QED BY <1>1, <1>2, FileAddedKeepsCache

\* After a flush, every clean object that is in m's cache, or was dirty, is in the cache.
LEMMA UploadsAreCached ==
  ASSUME TypesOK, NEW m \in ManifestsOf(Size), NEW base \in Nat, Cached(Size, store, m),
         store'.files = store.files, store'.dirty = NoDirty
  PROVE  Cached(Size, store', Uploaded(m, Len(Uploads), base))
<1> DEFINE u == Uploaded(m, Len(Uploads), base)
<1>1. Len(Uploads) \in Nat /\ Len(Uploads) = Cardinality(DirtyIds)
  BY UploadsAre, Positions
<1>2. \A o \in Objects :
        At(u, o) = IF o \in Done(Len(Uploads)) THEN NewEntry(o, base) ELSE At(m, o)
  BY <1>1, UploadedIs DEF At
<1> HIDE DEF u
<1> SUFFICES ASSUME NEW o \in 0 .. Size - 1, At(u, o).remote # 0
             PROVE  /\ <<o, At(u, o).generation>> \in DOMAIN store.files
                    /\ store.files[<<o, At(u, o).generation>>] = At(u, o).payload
  BY DEF Cached, u
<1>3. o \in Objects /\ o \in Units
  <2>1. o \in Objects
    BY DEF Objects, Size
  <2> QED BY <2>1, Sizes DEF TypesOK
<1>4. CASE o \in DirtyIds
  <2>1. o \in Done(Len(Uploads))
    <3>1. Position(o) \in 1 .. Cardinality(DirtyIds) /\ Cardinality(DirtyIds) \in Nat
      BY <1>4, Positions
    <3> QED BY <1>1, <1>4, <3>1 DEF Done
  <2>2. At(u, o) = NewEntry(o, base)
    BY <1>2, <1>3, <2>1
  <2>3. At(u, o).generation = store.dirty[o] /\ At(u, o).payload = store.files[<<o, store.dirty[o]>>]
    BY <2>2 DEF NewEntry, ManifestObject
  <2>4. <<o, store.dirty[o]>> \in DOMAIN store.files
    BY <1>3, <1>4 DEF TypesOK, DirtyIds
  <2> QED BY <2>3, <2>4
<1>5. CASE o \notin DirtyIds
  <2>1. o \notin Done(Len(Uploads)) /\ store.dirty[o] = 0
    BY <1>3, <1>5 DEF Done, DirtyIds
  <2>2. At(u, o) = At(m, o)
    BY <1>2, <1>3, <2>1
  <2> QED BY <2>1, <2>2 DEF Cached
<1> QED BY <1>4, <1>5

\* The daemons keep a sound scenario healthy.
LEMMA SoundDaemon ==
  ASSUME TypesOK, Exclusive, SoundInv, Sound, NEW p \in Processes, Daemon(p)
  PROVE  Healthy'
<1>1. fetched = None
  BY NothingServed
<1>2. CASE Serve(p)
  <2>1. /\ Allowed("serve --backend telegram") /\ ~mount_lock
        /\ UNCHANGED <<config, remote, commands, budget>>
        /\ store'.manifest \in ManifestsOf(Size)
        /\ Saves(store', store'.manifest, store.dirty)
        /\ daemons' = [daemons EXCEPT ![p] = [manifest |-> store'.manifest, memory |-> None]]
        /\ store.manifest # None => store'.manifest = store.manifest
        /\ store.manifest = None =>
             RecoverManifest(messages) # None /\ store'.manifest = RecoverManifest(messages)
    BY <1>2, ServeIs
  <2>2. ~Keeping /\ Running = {}
    BY <2>1 DEF Sound, OnChannel, Keeping, Allowed, Exclusive
  <2>3. CacheKept /\ Quiet /\ FormatsShrink /\ GrowsNow
    BY <2>1, SavesKeepCache, SameGrows, SameBudget DEF Quiet
  <2>4. ChannelFine(config, messages', last_id', budget'.formats) /\ InForceIs(messages, messages')
    BY <2>3, QuietFine
  <2>5. GcFine(config, messages', last_id', gc')
    BY <2>1, <2>3, GcKept DEF commands
  <2>6. FineNext(store'.manifest)
    <3>1. CASE store.manifest # None
      BY <2>1, <2>3, <3>1, SavedKept
    <3>2. CASE store.manifest = None
      <4>1. FineNext(RecoverManifest(messages))
        BY <2>1, <3>2, FineRemote
      <4> QED BY <2>1, <3>2, <4>1
    <3> QED BY <3>1, <3>2
  <2>7. \A q \in Running' :
          (daemons'[q].memory = None <=> ~Keeping) /\ FineNext(daemons'[q].manifest)
    <3> SUFFICES ASSUME NEW q \in Running'
                 PROVE  (daemons'[q].memory = None <=> ~Keeping) /\ FineNext(daemons'[q].manifest)
      OBVIOUS
    <3>1. daemons'[q] = [manifest |-> store'.manifest, memory |-> None]
      BY <2>1, <2>2, DaemonAlone
    <3>2. daemons'[q].memory = None /\ daemons'[q].manifest = store'.manifest
      BY <3>1
    <3> QED BY <2>2, <2>6, <3>2
  <2> QED BY <1>1, <2>1, <2>4, <2>5, <2>6, <2>7, HealthyFrom DEF commands
<1>3. CASE ServeLocal(p)
  <2>1. /\ Allowed("serve --backend local") /\ ~mount_lock /\ store.manifest # None
        /\ UNCHANGED <<config, remote, store, commands, budget>>
        /\ daemons' = [daemons EXCEPT ![p] = [manifest |-> store.manifest, memory |-> <<>>]]
    BY <1>3, Zenon DEF ServeLocal, Acquire
  <2>2. Keeping /\ Running = {} /\ <<>> # None
    <3>1. <<>> \in Memory
      BY DEF Memory
    <3> QED BY <2>1, <3>1, LifecycleAssumption DEF Keeping, Exclusive
  <2>3. CacheKept /\ Quiet /\ FormatsShrink /\ GrowsNow
    BY <2>1, SavesKeepCache, SameGrows, SameBudget DEF Quiet
  <2>4. ChannelFine(config, messages', last_id', budget'.formats)
    BY <2>3, QuietFine
  <2>5. GcFine(config, messages', last_id', gc')
    BY <2>1, <2>3, GcKept DEF commands
  <2>6. FineNext(store'.manifest) /\ store'.manifest = store.manifest
    BY <2>1, <2>3, SavedKept
  <2>7. \A q \in Running' :
          (daemons'[q].memory = None <=> ~Keeping) /\ FineNext(daemons'[q].manifest)
    <3> SUFFICES ASSUME NEW q \in Running'
                 PROVE  (daemons'[q].memory = None <=> ~Keeping) /\ FineNext(daemons'[q].manifest)
      OBVIOUS
    <3>1. daemons'[q] = [manifest |-> store.manifest, memory |-> <<>>]
      BY <2>1, <2>2, DaemonAlone
    <3>2. daemons'[q].memory = <<>> /\ daemons'[q].manifest = store.manifest
      BY <3>1
    <3> QED BY <2>2, <2>6, <3>2
  <2> QED BY <1>1, <2>1, <2>4, <2>5, <2>6, <2>7, HealthyFrom DEF commands
<1>4. CASE Stop(p)
  <2>1. /\ daemons[p] # None /\ daemons' = [daemons EXCEPT ![p] = None]
        /\ UNCHANGED <<config, remote, store, commands, budget>>
    BY <1>4, Zenon DEF Stop
  <2>2. CacheKept /\ Quiet /\ FormatsShrink /\ GrowsNow
    BY <2>1, SavesKeepCache, SameGrows, SameBudget DEF Quiet
  <2>3. ChannelFine(config, messages', last_id', budget'.formats)
    BY <2>2, QuietFine
  <2>4. GcFine(config, messages', last_id', gc')
    BY <2>1, <2>2, GcKept DEF commands
  <2>5. store'.manifest # None => FineNext(store'.manifest)
    BY <2>1, <2>2, SavedKept
  <2>6. Running' = {}
    BY <2>1, DaemonAlone
  <2> QED BY <1>1, <2>1, <2>3, <2>4, <2>5, <2>6, HealthyFrom DEF commands
<1>5. CASE \E o \in Objects, v \in Value : Write(p, o, v)
  <2>1. PICK o \in Objects, v \in Value : Write(p, o, v)
    BY <1>5
  <2>2. store'.manifest = store.manifest /\ CacheKept
    BY <2>1, WriteIs, WriteKeepsCache
  <2>3. Spend("writes") /\ UNCHANGED <<config, remote, mount_lock, daemons, commands>>
    BY <2>1, Zenon DEF Write
  <2>4. Quiet /\ FormatsShrink /\ gc' \subseteq gc /\ fetched' = fetched
    BY <2>3, SameGrows, SpendShrinks DEF Quiet, commands
  <2> QED BY <2>2, <2>3, <2>4, IdleHealthy
<1>6. CASE \E o \in Objects : Read(p, o)
  <2>1. PICK o \in Objects : Read(p, o)
    BY <1>6
  <2>2. store'.manifest = store.manifest /\ CacheKept
    BY <2>1, ReadIs, ReadKeepsCache
  <2>3. UNCHANGED <<config, remote, mount_lock, daemons, commands, budget>>
    BY <2>1, Zenon DEF Read
  <2>4. Quiet /\ FormatsShrink /\ gc' \subseteq gc /\ fetched' = fetched
    BY <2>3, SameGrows, SameBudget DEF Quiet, commands
  <2> QED BY <2>2, <2>3, <2>4, IdleHealthy
<1>7. CASE Flush(p)
  <2> DEFINE u == FlushedManifest(p)
  <2>1. /\ UNCHANGED <<config, mount_lock, commands>> /\ daemons[p] # None
        /\ u \in ManifestsOf(Size) /\ Saves(store', u, NoDirty)
        /\ daemons' = [daemons EXCEPT ![p] = [manifest |-> u, memory |-> None]]
    BY <1>7, FlushIs
  <2>2. ~Keeping /\ FormatsShrink /\ Commits(u)
    BY <1>7, FlushCommits
  <2> HIDE DEF u
  <2>3. GrowsNow /\ ChannelFine(config, messages', last_id', budget'.formats)
    BY <2>1, <2>2, CommitsFine DEF Commits
  <2>4. GcFine(config, messages', last_id', gc')
    BY <2>1, <2>3, GcKept DEF commands
  <2>5. FineNext(u) /\ store'.manifest = u
    BY <2>1, <2>2 DEF Commits, FineNext, Fine, Keeping, Allowed, Saves
  <2>6. \A q \in Running' :
          (daemons'[q].memory = None <=> ~Keeping) /\ FineNext(daemons'[q].manifest)
    <3> SUFFICES ASSUME NEW q \in Running'
                 PROVE  (daemons'[q].memory = None <=> ~Keeping) /\ FineNext(daemons'[q].manifest)
      OBVIOUS
    <3>1. daemons'[q] = [manifest |-> u, memory |-> None]
      BY <2>1, DaemonAlone
    <3>2. daemons'[q].memory = None /\ daemons'[q].manifest = u
      BY <3>1
    <3> QED BY <2>2, <2>5, <3>2
  <2> QED BY <1>1, <2>1, <2>3, <2>4, <2>5, <2>6, HealthyFrom DEF commands
<1>8. CASE FlushFails(p)
  <2> DEFINE u == FlushedManifest(p)
             m == daemons[p].manifest
  <2>1. /\ UNCHANGED <<config, mount_lock, commands>> /\ daemons[p] # None /\ DirtyIds # {}
        /\ u \in ManifestsOf(Size) /\ m \in ManifestsOf(Size) /\ GrowsNow
        /\ store' = store \/ Saves(store', u, store.dirty)
    BY <1>8, FlushFailsIs
  <2>2. ~Keeping /\ FormatsShrink
    BY <1>8, FlushFailsCommits
  <2>3. PICK j \in Nat :
          /\ RefsOK(messages', last_id', Uploaded(m, j, last_id))
          /\ \/ daemons' = [daemons EXCEPT ![p] = [manifest |-> Uploaded(m, j, last_id), memory |-> None]]
             \/ daemons' = [daemons EXCEPT ![p] = None]
          /\ \/ Quiet /\ store' = store
             \/ Commits(u) /\ j = Len(Uploads)
    BY <1>8, FlushFailsCommits
  <2> DEFINE v == Uploaded(m, j, last_id)
  <2>4. v.device_uuid > budget'.formats
    <3>1. v.device_uuid = m.device_uuid
      BY <2>1, FlushedIs
    <3>2. m.device_uuid > budget.formats /\ m.device_uuid \in Nat
      BY <2>1, DaemonHealthy, ManifestParts
    <3> QED BY <2>2, <3>1, <3>2 DEF FormatsShrink
  <2>5. FineNext(v)
    BY <2>2, <2>3, <2>4 DEF FineNext, Fine, Keeping, Allowed
  <2> HIDE DEF u, m, v
  <2>6. ChannelFine(config, messages', last_id', budget'.formats)
    BY <2>1, <2>2, <2>3, QuietFine, CommitsFine
  <2>7. GcFine(config, messages', last_id', gc')
    BY <2>1, GcKept DEF commands
  <2>8. store'.manifest # None => FineNext(store'.manifest)
    <3>1. CASE store' = store
      BY <2>1, <2>2, <3>1, SavedKept
    <3>2. CASE store' # store
      <4>1. Saves(store', u, store.dirty) /\ Commits(u)
        BY <2>1, <2>3, <3>2
      <4> QED BY <2>2, <4>1 DEF Saves, Commits, FineNext, Fine, Keeping, Allowed
    <3> QED BY <3>1, <3>2
  <2>9. \A q \in Running' :
          (daemons'[q].memory = None <=> ~Keeping) /\ FineNext(daemons'[q].manifest)
    <3> SUFFICES ASSUME NEW q \in Running'
                 PROVE  (daemons'[q].memory = None <=> ~Keeping) /\ FineNext(daemons'[q].manifest)
      OBVIOUS
    <3>1. CASE daemons' = [daemons EXCEPT ![p] = [manifest |-> v, memory |-> None]]
      <4>1. daemons'[q] = [manifest |-> v, memory |-> None]
        BY <2>1, <3>1, DaemonAlone
      <4>2. daemons'[q].memory = None /\ daemons'[q].manifest = v
        BY <4>1
      <4> QED BY <2>2, <2>5, <4>2
    <3>2. CASE daemons' = [daemons EXCEPT ![p] = None]
      BY <2>1, <3>2, DaemonAlone
    <3> QED BY <2>3, <3>1, <3>2 DEF v
  <2> QED BY <1>1, <2>1, <2>6, <2>7, <2>8, <2>9, HealthyFrom DEF commands
<1>9. CASE FlushLocal(p)
  <2> DEFINE m == daemons[p].manifest
  <2>1. /\ UNCHANGED <<config, remote, mount_lock, commands>> /\ Spend("flushes")
        /\ daemons[p] # None /\ daemons[p].memory # None /\ DirtyIds # {}
        /\ m \in ManifestsOf(Size)
    BY <1>9, FlushLocalIs
  <2>2. PICK base \in Nat, b \in Memory, u \in ManifestsOf(Size) :
          /\ u = Uploaded(m, Len(Uploads), base)
          /\ daemons' = [daemons EXCEPT ![p] = [manifest |-> u, memory |-> b]]
          /\ Saves(store', u, NoDirty)
    BY <1>9, FlushLocalIs
  <2>3. Keeping /\ FineNow(m)
    BY <2>1, DaemonHealthy
  <2> HIDE DEF m
  <2>4. Quiet /\ FormatsShrink /\ GrowsNow
    BY <2>1, SameGrows, SpendShrinks DEF Quiet
  <2>5. ChannelFine(config, messages', last_id', budget'.formats)
    BY <2>4, QuietFine
  <2>6. GcFine(config, messages', last_id', gc')
    BY <2>1, <2>4, GcKept DEF commands
  <2>7. FineNext(u) /\ store'.manifest = u
    <3>1. Cached(Size, store, m) /\ m.device_uuid > budget.formats
      BY <2>3 DEF FineNow, Fine, Keeping, Allowed, Size
    <3>2. store'.files = store.files /\ store'.dirty = NoDirty /\ store'.manifest = u
      BY <2>2 DEF Saves
    <3>3. Cached(Size, store', u)
      BY <2>1, <2>2, <3>1, <3>2, UploadsAreCached
    <3>4. u.device_uuid > budget'.formats
      <4>1. u.device_uuid = m.device_uuid
        <5>1. Len(Uploads) \in Nat
          BY UploadsAre
        <5> QED BY <2>1, <2>2, <5>1, UploadedIs
      <4>2. m.device_uuid \in Nat
        BY <2>1, ManifestParts
      <4> QED BY <2>4, <3>1, <4>1, <4>2 DEF FormatsShrink
    <3> QED BY <2>3, <3>2, <3>3, <3>4 DEF FineNext, Fine, Keeping, Allowed, Size
  <2>8. \A q \in Running' :
          (daemons'[q].memory = None <=> ~Keeping) /\ FineNext(daemons'[q].manifest)
    <3> SUFFICES ASSUME NEW q \in Running'
                 PROVE  (daemons'[q].memory = None <=> ~Keeping) /\ FineNext(daemons'[q].manifest)
      OBVIOUS
    <3>1. daemons'[q] = [manifest |-> u, memory |-> b]
      BY <2>1, <2>2, DaemonAlone
    <3>2. daemons'[q].memory = b /\ daemons'[q].manifest = u /\ b # None
      BY <3>1, LifecycleAssumption
    <3> QED BY <2>3, <2>7, <3>2
  <2> QED BY <1>1, <2>1, <2>5, <2>6, <2>7, <2>8, HealthyFrom DEF commands
<1> QED BY <1>2, <1>3, <1>4, <1>5, <1>6, <1>7, <1>8, <1>9 DEF Daemon

\* The first state is healthy.
LEMMA InitSound == Init => SoundInv
<1> SUFFICES ASSUME Init PROVE Healthy
  BY DEF SoundInv
<1>1. messages = [i \in {} |-> None] /\ store = NoStore /\ gc = {} /\ fetched = None
  BY DEF Init
<1>2. Running = {} /\ store.manifest = None
  BY <1>1 DEF Init, Running, NoStore
<1>3. Superblocks(messages) = {}
  BY <1>1 DEF Superblocks
<1>4. ChannelFine(config, messages, last_id, budget.formats)
  BY <1>3 DEF ChannelFine, SuperblocksOK
<1> QED BY <1>1, <1>2, <1>4 DEF Healthy, GcFine

\* Every step of a sound scenario keeps it healthy.
LEMMA SoundStep == TypesOK /\ Exclusive /\ SoundInv /\ [Next]_vars => SoundInv'
<1> SUFFICES ASSUME TypesOK, Exclusive, SoundInv, [Next]_vars, Sound' PROVE Healthy'
  BY DEF SoundInv
<1>1. CASE Next
  <2>1. config' = config
    <3>1. CASE Command
      <4>1. LoseMachine => config' = config
        BY Zenon DEF LoseMachine
      <4> QED BY <3>1, <4>1, CommandLeaves
    <3>2. CASE \E p \in Processes : Daemon(p)
      <4>1. PICK p \in Processes : Daemon(p)
        BY <3>2
      <4> QED BY <4>1, Zenon DEF Daemon, Serve, ServeLocal, Stop, Read, Write, Flush, FlushFails, FlushLocal
    <3> QED BY <1>1, <3>1, <3>2 DEF Next
  <2>2. Sound
    BY <2>1 DEF Sound, Allowed
  <2> QED BY <1>1, <2>2, SoundCommand, SoundDaemon DEF Next
<1>2. CASE UNCHANGED vars
  <2>1. UNCHANGED <<config, messages, last_id, store, daemons, gc, fetched, budget>>
    BY <1>2 DEF vars, remote, commands
  <2>2. Sound /\ Keeping' = Keeping /\ Running' = Running
    BY <2>1, SameDaemons DEF Sound, Allowed, Keeping
  <2> QED BY <2>1, <2>2 DEF SoundInv, Healthy
<1> QED BY <1>1, <1>2

-----------------------------------------------------------------------------
(* One device *)

\* The device in force is manifest m's.
OwnedBy(ms, m) ==
  RecoverSuperblock(ms) # 0 => ms[RecoverSuperblock(ms)].device_uuid = m.device_uuid

\* What is saved and served is the device in force, and a local daemon serves what is saved.
Same ==
  /\ store.manifest # None => OwnedBy(messages, store.manifest)
  /\ \A p \in Running : daemons[p].manifest.device_uuid = store.manifest.device_uuid
  /\ Keeping => \A p \in Running : daemons[p].manifest = store.manifest

\* The invariant of a careful operator's scenarios.
SameDevice == Careful => Same

\* The channel after a step of a sound scenario that commits m, or nothing.
LEMMA OwnedKept ==
  ASSUME TypesOK, SoundInv, Sound, FormatsShrink, NEW m \in ManifestsOf(Size), OwnedBy(messages, m),
         Quiet \/ \E u \in ManifestsOf(Size) : Commits(u) /\ u.device_uuid = m.device_uuid
  PROVE  OwnedBy(messages', m)
<1>1. CASE InForceIs(messages, messages')
  BY <1>1 DEF OwnedBy, InForceIs
<1>2. CASE Quiet
  BY <1>1, <1>2, QuietFine
<1>3. CASE \E u \in ManifestsOf(Size) : Commits(u) /\ u.device_uuid = m.device_uuid
  <2>1. PICK u \in ManifestsOf(Size) : Commits(u) /\ u.device_uuid = m.device_uuid
    BY <1>3
  <2>2. /\ u.generation >= Newest(messages) =>
             messages'[RecoverSuperblock(messages')].device_uuid = u.device_uuid
        /\ u.generation < Newest(messages) => InForceIs(messages, messages')
    BY <2>1, CommitsFine
  <2>3. u.generation \in Nat /\ Newest(messages) \in Nat
    BY ManifestParts, NewestIs DEF TypesOK
  <2> QED BY <1>1, <2>1, <2>2, <2>3 DEF OwnedBy
<1> QED BY <1>2, <1>3

\* A step that commits, saves and starts nothing keeps the device the same.
LEMMA SameIdle ==
  ASSUME TypesOK, SoundInv, Sound, Same, config' = config, FormatsShrink, Quiet,
         daemons' = daemons, store'.manifest = store.manifest
  PROVE  Same'
<1>1. Running' = Running /\ Keeping' = Keeping
  BY SameDaemons DEF Keeping, Allowed
<1>2. ASSUME store.manifest # None PROVE OwnedBy(messages', store.manifest)
  <2>1. store.manifest \in ManifestsOf(Size)
    BY <1>2, StoreFields
  <2> QED BY <1>2, <2>1, OwnedKept DEF Same
<1> QED BY <1>1, <1>2 DEF Same

\* A step after which no daemon runs.
LEMMA SameAlone ==
  ASSUME Running' = {}, store'.manifest # None => OwnedBy(messages', store'.manifest)
  PROVE  Same'
BY DEF Same

\* Where formats are only allowed on blank devices.
LEMMA BlankIs ==
  ASSUME TypesOK, Exclusive, SoundInv, Sound, NEW local_only, Blank(local_only)
  PROVE  /\ store.manifest = None /\ Running = {} /\ Newest(messages) = 0
         /\ local_only => RecoverSuperblock(messages) = 0
<1>1. store.manifest = None /\ \A i \in Superblocks(messages) : Generation(messages, i) = 0 /\ ~local_only
  BY DEF Blank
<1>2. ChannelType(Size, last_id, messages)
  BY DEF TypesOK
<1>3. Newest(messages) = 0
  BY <1>1, <1>2, NewestIs DEF Newest
<1>4. local_only => RecoverSuperblock(messages) = 0
  BY <1>1, <1>2, RecoverSuperblockIs
<1> QED BY <1>1, <1>3, <1>4 DEF Exclusive

\* The commands keep the device the same.
LEMMA SameCommand ==
  ASSUME TypesOK, Exclusive, SoundInv, Careful, Same, Command
  PROVE  Same'
<1>1. ASSUME UNCHANGED remote PROVE Quiet
  BY <1>1, SameGrows DEF Quiet
<1>2. Sound /\ ~Allowed("reformat")
  BY DEF Careful
<1>3. CASE OpenStore
  <2>1. store' = Opened /\ UNCHANGED <<config, remote, mount_lock, daemons, commands, budget>>
    BY <1>3, Zenon DEF OpenStore
  <2>2. Saves(store', store.manifest, store.dirty)
    BY <2>1, SavedOpened
  <2>3. store'.manifest = store.manifest /\ Quiet /\ FormatsShrink
    BY <1>1, <2>1, <2>2, SameBudget DEF Saves
  <2> QED BY <1>2, <2>1, <2>3, SameIdle
<1>4. CASE RemoveLock \/ RecoverFetch \/ GcStart \/ GcFails
  <2>1. UNCHANGED <<config, remote, store, daemons, budget>>
    BY <1>4, Zenon DEF RemoveLock, RecoverFetch, GcStart, GcFails
  <2>2. Quiet /\ FormatsShrink
    BY <1>1, <2>1, SameBudget
  <2> QED BY <1>2, <2>1, <2>2, SameIdle
<1>5. CASE \E id \in gc : GcDelete(id)
  <2>1. PICK id \in gc : GcDelete(id)
    BY <1>5
  <2>2. UNCHANGED <<config, store, daemons, budget>>
    BY <2>1, Zenon DEF GcDelete
  <2>3. id \in DOMAIN messages => messages[id].kind = "object"
    <3>1. GcFine(config, messages, last_id, gc)
      BY <1>2 DEF SoundInv, Healthy
    <3> QED BY <2>1, <3>1 DEF GcFine, IsObject
  <2>4. Quiet /\ FormatsShrink
    BY <2>1, <2>2, <2>3, DeletedGrows, SameBudget DEF Quiet
  <2> QED BY <1>2, <2>2, <2>4, SameIdle
<1>6. CASE LoseMachine
  <2>1. store' = NoStore /\ daemons' = [p \in Processes |-> None]
    BY <1>6, Zenon DEF LoseMachine
  <2>2. store'.manifest = None /\ Running' = {}
    BY <2>1 DEF NoStore, Running
  <2> QED BY <2>2, SameAlone
<1>7. CASE \E force \in BOOLEAN : FormatFails(force)
  <2>1. PICK force \in BOOLEAN : FormatFails(force)
    BY <1>7
  <2>2. /\ Formattable(force, FALSE) /\ daemons' = daemons
        /\ Saves(store', store.manifest, store.dirty)
    BY <1>2, <2>1, FormatFailsCommits
  <2>3. store.manifest = None /\ Running = {}
    BY <1>2, <2>2, BlankIs DEF Formattable
  <2>4. store'.manifest = None /\ Running' = {}
    BY <2>2, <2>3, SameDaemons DEF Saves
  <2> QED BY <2>4, SameAlone
<1>8. CASE \E force, local_only \in BOOLEAN : Format(force, local_only)
  <2>1. PICK force \in BOOLEAN, local_only \in BOOLEAN : Format(force, local_only)
    BY <1>8
  <2> DEFINE m == EmptyManifest(NewUuid, Size)
  <2>2. /\ Formattable(force, local_only) /\ UNCHANGED <<config, mount_lock, daemons, commands>>
        /\ m \in ManifestsOf(Size)
    BY <2>1, FormatIs
  <2>3. /\ FormatsShrink /\ Saves(store', m, store.dirty) /\ NewUuid \in Nat
        /\ (local_only /\ Quiet /\ UNCHANGED remote) \/ (~local_only /\ Commits(m))
    BY <1>2, <2>1, FormatCommits
  <2>4. Running = {} /\ Newest(messages) = 0 /\ (local_only => RecoverSuperblock(messages) = 0)
    BY <1>2, <2>2, BlankIs DEF Formattable
  <2>5. m.generation = 0
    <3>1. Size \in Nat
      BY Sizes DEF TypesOK
    <3> HIDE DEF NewUuid
    <3> QED BY <2>3, <3>1, EmptyIs
  <2> HIDE DEF m
  <2>6. Running' = {} /\ store'.manifest = m
    BY <2>2, <2>3, <2>4, SameDaemons DEF Saves
  <2>7. OwnedBy(messages', m)
    <3>1. CASE local_only /\ Quiet
      <4>1. InForceIs(messages, messages')
        BY <1>2, <2>3, <3>1, QuietFine
      <4> QED BY <2>4, <3>1, <4>1 DEF InForceIs, OwnedBy
    <3>2. CASE ~local_only /\ Commits(m)
      <4>1. m.generation >= Newest(messages)
        BY <2>4, <2>5
      <4> QED BY <1>2, <2>2, <2>3, <3>2, <4>1, CommitsFine DEF OwnedBy
    <3> QED BY <2>3, <3>1, <3>2
  <2> QED BY <2>6, <2>7, SameAlone
<1>9. CASE RecoverReplace
  <2>1. /\ fetched # None /\ store' = Replaced(fetched)
        /\ UNCHANGED <<config, remote, mount_lock, daemons, gc, budget>>
    BY <1>9, Zenon DEF RecoverReplace
  <2>2. fetched = RecoverManifest(messages) /\ fetched \in ManifestsOf(Size) /\ Running = {}
    BY <1>2, <2>1 DEF SoundInv, Healthy, TypesOK
  <2>3. Saves(store', fetched, store.dirty)
    BY <2>1, <2>2, SavedReplaced
  <2>4. OwnedBy(messages, fetched)
    <3>1. ChannelType(Size, last_id, messages) /\ Size \in Nat
      BY Sizes DEF TypesOK
    <3> QED BY <2>1, <2>2, <3>1, RecoverManifestType DEF OwnedBy
  <2>5. store'.manifest = fetched /\ Running' = {} /\ OwnedBy(messages', fetched)
    BY <2>1, <2>2, <2>3, <2>4, SameDaemons DEF Saves, remote
  <2> QED BY <2>5, SameAlone
<1>10. ~(Rollback \/ RollbackFails \/ FlushCommand)
  <2>1. ~Allowed("recover") /\ ~Allowed("flush")
    BY <1>2 DEF Sound, Unsound, Allowed
  <2> QED BY <2>1, Zenon DEF Rollback, RollbackFails, FlushCommand
<1> QED BY <1>3, <1>4, <1>5, <1>6, <1>7, <1>8, <1>9, <1>10, Zenon DEF Command

\* A step after which at most one daemon runs, with manifest m.
LEMMA SameOne ==
  ASSUME TypesOK, Exclusive, NEW p \in Processes, NEW m, NEW b,
         \/ daemons' = [daemons EXCEPT ![p] = [manifest |-> m, memory |-> b]]
         \/ daemons' = [daemons EXCEPT ![p] = None],
         daemons[p] # None \/ Running = {},
         store'.manifest # None => OwnedBy(messages', store'.manifest),
         m.device_uuid = store'.manifest.device_uuid,
         Keeping' => m = store'.manifest
  PROVE  Same'
<1>1. ASSUME NEW q \in Running' PROVE daemons'[q].manifest = m
  <2>1. CASE daemons' = [daemons EXCEPT ![p] = None]
    BY <2>1, DaemonAlone
  <2>2. CASE daemons' = [daemons EXCEPT ![p] = [manifest |-> m, memory |-> b]]
    <3>1. daemons'[q] = [manifest |-> m, memory |-> b]
      BY <2>2, DaemonAlone
    <3> QED BY <3>1
  <2> QED BY <2>1, <2>2
<1> QED BY <1>1 DEF Same

\* The daemons keep the device the same.
LEMMA SameDaemon ==
  ASSUME TypesOK, Exclusive, SoundInv, Careful, Same, NEW p \in Processes, Daemon(p)
  PROVE  Same'
<1>1. Sound
  BY DEF Careful
<1>2. ASSUME daemons[p] # None
      PROVE  /\ daemons[p].manifest.device_uuid = store.manifest.device_uuid
             /\ Keeping => daemons[p].manifest = store.manifest
             /\ store.manifest # None /\ OwnedBy(messages, store.manifest)
             /\ store.manifest \in ManifestsOf(Size)
  <2>1. p \in Running
    BY <1>2 DEF Running
  <2>2. store.manifest # None
    BY <2>1 DEF Exclusive
  <2> QED BY <2>1, <2>2, StoreFields DEF Same
<1>3. CASE Serve(p)
  <2>1. /\ Allowed("serve --backend telegram") /\ ~mount_lock
        /\ UNCHANGED <<config, remote, commands, budget>>
        /\ store'.manifest \in ManifestsOf(Size)
        /\ daemons' = [daemons EXCEPT ![p] = [manifest |-> store'.manifest, memory |-> None]]
        /\ store.manifest # None =>
             /\ store'.manifest = store.manifest
             /\ RecoverSuperblock(messages) # 0 =>
                  messages[RecoverSuperblock(messages)].device_uuid = store.manifest.device_uuid
        /\ store.manifest = None =>
             RecoverManifest(messages) # None /\ store'.manifest = RecoverManifest(messages)
    BY <1>3, ServeIs
  <2>2. Running = {}
    BY <2>1 DEF Exclusive
  <2>3. OwnedBy(messages', store'.manifest)
    <3>1. messages' = messages
      BY <2>1 DEF remote
    <3>2. CASE store.manifest # None
      BY <2>1, <3>1, <3>2 DEF OwnedBy
    <3>3. CASE store.manifest = None
      <4>1. ChannelType(Size, last_id, messages) /\ Size \in Nat
        BY Sizes DEF TypesOK
      <4>2. OwnedBy(messages, RecoverManifest(messages))
        BY <2>1, <3>3, <4>1, RecoverManifestType DEF OwnedBy
      <4> QED BY <2>1, <3>1, <3>3, <4>2
    <3> QED BY <3>2, <3>3
  <2> DEFINE m == store'.manifest
  <2>4. daemons' = [daemons EXCEPT ![p] = [manifest |-> m, memory |-> None]] /\ m = store'.manifest
    BY <2>1
  <2> HIDE DEF m
  <2> QED BY <2>2, <2>3, <2>4, SameOne
<1>4. CASE ServeLocal(p)
  <2>1. /\ ~mount_lock /\ store.manifest # None
        /\ UNCHANGED <<config, remote, store, commands, budget>>
        /\ daemons' = [daemons EXCEPT ![p] = [manifest |-> store.manifest, memory |-> <<>>]]
    BY <1>4, Zenon DEF ServeLocal, Acquire
  <2>2. Running = {} /\ OwnedBy(messages', store'.manifest)
    BY <2>1 DEF Exclusive, Same, remote
  <2>3. store'.manifest = store.manifest
    BY <2>1
  <2> QED BY <2>1, <2>2, <2>3, SameOne
<1>5. CASE Stop(p)
  <2>1. /\ daemons[p] # None /\ daemons' = [daemons EXCEPT ![p] = None]
        /\ UNCHANGED <<config, remote, store, commands, budget>>
    BY <1>5, Zenon DEF Stop
  <2>2. Running' = {}
    BY <2>1, DaemonAlone
  <2> QED BY <2>1, <2>2, SameAlone DEF Same, remote
<1>6. CASE \E o \in Objects, v \in Value : Write(p, o, v)
  <2>1. PICK o \in Objects, v \in Value : Write(p, o, v)
    BY <1>6
  <2>2. Spend("writes") /\ UNCHANGED <<config, remote, mount_lock, daemons, commands>>
    BY <2>1, Zenon DEF Write
  <2>3. store'.manifest = store.manifest /\ Quiet /\ FormatsShrink
    BY <2>1, <2>2, WriteIs, SameGrows, SpendShrinks DEF Quiet
  <2> QED BY <1>1, <2>2, <2>3, SameIdle
<1>7. CASE \E o \in Objects : Read(p, o)
  <2>1. PICK o \in Objects : Read(p, o)
    BY <1>7
  <2>2. UNCHANGED <<config, remote, mount_lock, daemons, commands, budget>>
    BY <2>1, Zenon DEF Read
  <2>3. store'.manifest = store.manifest /\ Quiet /\ FormatsShrink
    BY <2>1, <2>2, ReadIs, SameGrows, SameBudget DEF Quiet
  <2> QED BY <1>1, <2>2, <2>3, SameIdle
<1>8. CASE Flush(p)
  <2> DEFINE u == FlushedManifest(p)
  <2>1. /\ config' = config /\ daemons[p] # None /\ DirtyIds # {} /\ u \in ManifestsOf(Size)
        /\ Saves(store', u, NoDirty)
        /\ daemons' = [daemons EXCEPT ![p] = [manifest |-> u, memory |-> None]]
    BY <1>8, FlushIs
  <2>2. ~Keeping /\ FormatsShrink /\ Commits(u)
    BY <1>1, <1>8, FlushCommits
  <2>3. u.device_uuid = store.manifest.device_uuid
    <3>1. u.device_uuid = daemons[p].manifest.device_uuid
      BY <2>1, FlushedIs, UploadsAre DEF FlushedManifest
    <3> QED BY <1>2, <2>1, <3>1
  <2> HIDE DEF u
  <2>4. OwnedBy(messages', u)
    <3>1. OwnedBy(messages, u)
      BY <1>2, <2>1, <2>3 DEF OwnedBy
    <3> QED BY <1>1, <2>1, <2>2, <3>1, OwnedKept
  <2>5. store'.manifest = u /\ ~Keeping'
    BY <2>1, <2>2 DEF Saves, Keeping, Allowed
  <2> QED BY <2>1, <2>4, <2>5, SameOne
<1>9. CASE FlushFails(p)
  <2> DEFINE u == FlushedManifest(p)
             m == daemons[p].manifest
  <2>1. /\ config' = config /\ daemons[p] # None /\ DirtyIds # {}
        /\ u \in ManifestsOf(Size)
        /\ store' = store \/ Saves(store', u, store.dirty)
    BY <1>9, FlushFailsIs
  <2>2. ~Keeping /\ FormatsShrink
    BY <1>1, <1>9, FlushFailsCommits
  <2>3. PICK j \in Nat :
          /\ \/ daemons' = [daemons EXCEPT ![p] = [manifest |-> Uploaded(m, j, last_id), memory |-> None]]
             \/ daemons' = [daemons EXCEPT ![p] = None]
          /\ Quiet \/ Commits(u)
    BY <1>1, <1>9, FlushFailsCommits
  <2> DEFINE v == Uploaded(m, j, last_id)
  <2>4. u.device_uuid = store.manifest.device_uuid /\ v.device_uuid = store.manifest.device_uuid
    <3>1. u.device_uuid = m.device_uuid /\ v.device_uuid = m.device_uuid
      BY <2>1, FlushedIs, UploadsAre DEF FlushedManifest
    <3> QED BY <1>2, <2>1, <3>1
  <2>5. store'.manifest \in {u, store.manifest}
    BY <2>1 DEF Saves
  <2> HIDE DEF u, m, v
  <2>6. OwnedBy(messages', store.manifest)
    <3>1. store.manifest \in ManifestsOf(Size) /\ OwnedBy(messages, store.manifest)
      BY <1>2, <2>1
    <3> QED BY <1>1, <2>1, <2>2, <2>3, <2>4, <3>1, OwnedKept
  <2>7. OwnedBy(messages', store'.manifest) /\ v.device_uuid = store'.manifest.device_uuid
    BY <2>4, <2>5, <2>6 DEF OwnedBy
  <2>8. ~Keeping'
    BY <2>1, <2>2 DEF Keeping, Allowed
  <2> QED BY <2>1, <2>3, <2>7, <2>8, SameOne DEF v
<1>10. CASE FlushLocal(p)
  <2>1. /\ UNCHANGED <<config, remote, mount_lock, commands>>
        /\ daemons[p] # None /\ daemons[p].manifest \in ManifestsOf(Size)
    BY <1>10, FlushLocalIs
  <2>2. PICK base \in Nat, b \in Memory, u \in ManifestsOf(Size) :
          /\ u = Uploaded(daemons[p].manifest, Len(Uploads), base)
          /\ daemons' = [daemons EXCEPT ![p] = [manifest |-> u, memory |-> b]]
          /\ Saves(store', u, NoDirty)
    BY <1>10, FlushLocalIs
  <2>3. u.device_uuid = store.manifest.device_uuid
    <3>1. Len(Uploads) \in Nat
      BY UploadsAre
    <3>2. u.device_uuid = daemons[p].manifest.device_uuid
      BY <2>1, <2>2, <3>1, UploadedIs
    <3> QED BY <1>2, <2>1, <3>2
  <2>4. store'.manifest = u /\ OwnedBy(messages', u)
    <3>1. store'.manifest = u /\ messages' = messages
      BY <2>1, <2>2 DEF Saves, remote
    <3> QED BY <1>2, <2>1, <2>3, <3>1 DEF OwnedBy
  <2> QED BY <2>1, <2>2, <2>4, SameOne
<1> QED BY <1>3, <1>4, <1>5, <1>6, <1>7, <1>8, <1>9, <1>10 DEF Daemon

\* The scenario does not change.
LEMMA ConfigKept ==
  ASSUME TypesOK, [Next]_vars
  PROVE  config' = config /\ (Sound' <=> Sound) /\ (Careful' <=> Careful)
<1>1. config' = config
  <2>1. CASE Command
    <3>1. LoseMachine => config' = config
      BY Zenon DEF LoseMachine
    <3> QED BY <2>1, <3>1, CommandLeaves
  <2>2. CASE \E p \in Processes : Daemon(p)
    <3>1. PICK p \in Processes : Daemon(p)
      BY <2>2
    <3> QED BY <3>1, Zenon DEF Daemon, Serve, ServeLocal, Stop, Read, Write, Flush, FlushFails, FlushLocal
  <2>3. CASE UNCHANGED vars
    BY <2>3 DEF vars
  <2> QED BY <2>1, <2>2, <2>3 DEF Next
<1> QED BY <1>1 DEF Sound, Careful, Allowed

\* The invariant of every scenario.
LifeInv == TypesOK /\ Exclusive /\ SoundInv /\ SameDevice

\* The first state has the invariants.
LEMMA InitLife == Init => LifeInv
<1> SUFFICES ASSUME Init PROVE SameDevice
  BY InitTypes, InitExclusive, InitSound DEF LifeInv
<1>1. Running = {} /\ store.manifest = None
  BY DEF Init, Running, NoStore
<1> QED BY <1>1 DEF SameDevice, Same

\* Every step keeps the device of a careful operator the same.
LEMMA SameStep ==
  ASSUME TypesOK, Exclusive, SoundInv, SameDevice, [Next]_vars
  PROVE  SameDevice'
<1> SUFFICES ASSUME Careful' PROVE Same'
  BY DEF SameDevice
<1>1. Careful /\ Same
  BY ConfigKept DEF SameDevice
<1>2. CASE Next
  BY <1>1, <1>2, SameCommand, SameDaemon DEF Next
<1>3. CASE UNCHANGED vars
  <2>1. UNCHANGED <<config, messages, store, daemons>>
    BY <1>3 DEF vars, remote
  <2>2. Keeping' = Keeping /\ Running' = Running
    BY <2>1, SameDaemons DEF Keeping, Allowed
  <2> QED BY <1>1, <2>1, <2>2 DEF Same
<1> QED BY <1>2, <1>3

\* The invariants hold in every state.
LEMMA LifeHolds == Spec => []LifeInv
<1>1. LifeInv /\ [Next]_vars => LifeInv'
  BY TypesStep, ExclusiveStep, SoundStep, SameStep DEF LifeInv
<1> QED BY <1>1, InitLife, PTL DEF Spec

\* ensure_manifest never refuses a careful operator's machine: the saved manifest has the
\* device UUID of the superblock that the scan finds, whatever commits failed between.
THEOREM MachineServes == Spec => []ServeStarts
<1>1. LifeInv => ServeStarts
  BY DEF LifeInv, SameDevice, Same, OwnedBy, ServeStarts
<1> QED BY <1>1, LifeHolds, PTL

-----------------------------------------------------------------------------
(* The local store in step with the channel *)

\* The entry of an object that was never written.
Zero(o) == ManifestObject(o, 0, 0, 0)

\* The replaced messages a manifest lists.
Garbage(m) == IF m = None THEN {} ELSE m.garbage

\* Every object that manifest r names can be fetched.
There(z, ms, r) ==
  \A o \in 0 .. z - 1 : Entry(r, o).remote # 0 => Fetches(ms, Entry(r, o))

\* The next flush is not behind generation n.
Ahead(z, st, n) ==
  (\E o \in 0 .. z - 1 : st.dirty[o] # 0) => \E o \in 0 .. z - 1 : st.dirty[o] # 0 /\ st.dirty[o] >= n

\* The cache holds nothing else in the place of an object of r.
Fresh(z, st, r) ==
  \A o \in 0 .. z - 1 :
    /\ st.dirty[o] = 0 /\ Entry(r, o).remote # 0
    /\ <<o, Entry(r, o).generation>> \in DOMAIN st.files
    => st.files[<<o, Entry(r, o).generation>>] = Entry(r, o).payload

\* m differs from r in the entries of dirty objects only.
Agrees(z, st, m, r) ==
  \A o \in 0 .. z - 1 : st.dirty[o] = 0 => Entry(m, o) = Entry(r, o)

\* What a daemon serves.
DaemonInStep(z, ms, st, ids, m) ==
  /\ m.generation + 1 >= Newest(ms)
  /\ Agrees(z, st, m, RecoverManifest(ms))
  /\ Newest(ms) > 0 => OwnedBy(ms, m)
  /\ m.device_uuid # st.manifest.device_uuid => IsEmpty(z, st.manifest)
  /\ ids \cup Garbage(st.manifest) \subseteq m.garbage

\* What is saved.
SavedInStep(z, ms, st, ids) ==
  /\ ~OwnedBy(ms, st.manifest) \/ Newest(ms) = 0 => IsEmpty(z, st.manifest)
  /\ OwnedBy(ms, st.manifest) =>
       Agrees(z, st, st.manifest, RecoverManifest(ms)) /\ ids \subseteq st.manifest.garbage

\* The local store in step with the channel, where the channel is served: the manifest in
\* force is complete, rows and cache files are of its generation or later, and a manifest that
\* is saved or served is the one in force but for objects that are dirty.
InStep ==
  /\ There(Size, messages, RecoverManifest(messages))
  /\ Ahead(Size, store, Newest(messages))
  /\ Fresh(Size, store, RecoverManifest(messages))
  /\ gc \cup Garbage(store.manifest) \subseteq Garbage(RecoverManifest(messages))
  /\ store.manifest # None => SavedInStep(Size, messages, store, gc)
  /\ \A p \in Running : DaemonInStep(Size, messages, store, gc, daemons[p].manifest)

\* The inductive invariant of recovery and of reading.
StepInv == Sound /\ ~Keeping => InStep

\* What is to be shown of a step.
LEMMA InStepFrom ==
  ASSUME config' = config,
         There(Size, messages', RecoverManifest(messages')),
         Ahead(Size, store', Newest(messages')),
         Fresh(Size, store', RecoverManifest(messages')),
         gc' \cup Garbage(store'.manifest) \subseteq Garbage(RecoverManifest(messages')),
         store'.manifest # None => SavedInStep(Size, messages', store', gc'),
         \A p \in Running' : DaemonInStep(Size, messages', store', gc', daemons'[p].manifest)
  PROVE  InStep'
BY DEF InStep, Size

\* The objects of the device in force.
LEMMA ObjectsAre ==
  ASSUME TypesOK
  PROVE  /\ Objects = 0 .. Size - 1 /\ Objects \subseteq Units /\ Size \in Nat
         /\ \A o \in Objects : o \in Nat /\ o + 1 \in 1 .. Size /\ (o + 1) - 1 = o
         /\ store.dirty \in [Units -> Nat]
<1>1. Objects = 0 .. Size - 1 /\ Objects \subseteq Units /\ Size \in Nat
  BY Sizes DEF TypesOK
<1> QED BY <1>1, StoreFields

\* An empty manifest holds zero objects.
LEMMA EmptyEntries ==
  ASSUME TypesOK, NEW m \in ManifestsOf(Size), IsEmpty(Size, m)
  PROVE  m.garbage = {} /\ m.generation = 0 /\ \A o \in Objects : Entry(m, o) = Zero(o)
<1>1. m.device_uuid \in Nat /\ DOMAIN m.objects = 1 .. Size /\ m # None
  BY ManifestParts
<1> DEFINE u == m.device_uuid
<1>2. m = EmptyManifest(u, Size) /\ u \in Nat
  BY <1>1 DEF IsEmpty
<1> HIDE DEF u
<1>3. /\ EmptyManifest(u, Size).garbage = {} /\ EmptyManifest(u, Size).generation = 0
      /\ \A k \in 1 .. Size : EmptyManifest(u, Size).objects[k] = ManifestObject(k - 1, 0, 0, 0)
  BY <1>2, ObjectsAre, EmptyIs
<1>4. m.garbage = {} /\ m.generation = 0 /\ \A k \in 1 .. Size : m.objects[k] = ManifestObject(k - 1, 0, 0, 0)
  BY <1>2, <1>3
<1>5. ASSUME NEW o \in Objects PROVE Entry(m, o) = Zero(o)
  <2>1. o + 1 \in 1 .. Size /\ (o + 1) - 1 = o
    BY ObjectsAre
  <2>2. m.objects[o + 1] = ManifestObject((o + 1) - 1, 0, 0, 0)
    BY <1>4, <2>1
  <2> QED BY <1>1, <2>1, <2>2 DEF Entry, Zero
<1> QED BY <1>4, <1>5

\* A zero object is on no message.
LEMMA ZeroIs ==
  ASSUME NEW o
  PROVE  Zero(o).remote = 0 /\ Entry(None, o) = Zero(o)
BY DEF Zero, Entry, ManifestObject

\* What is in force on the channel, and what it holds at generation 0.
LEMMA InForceManifest ==
  ASSUME TypesOK, SoundInv, Sound
  PROVE  /\ Newest(messages) \in Nat
         /\ RecoverManifest(messages) \in ManifestsOf(Size) \cup {None}
         /\ RecoverManifest(messages) = None <=> RecoverSuperblock(messages) = 0
         /\ RecoverManifest(messages) = None => Newest(messages) = 0
         /\ RecoverManifest(messages) # None =>
              /\ OwnedBy(messages, RecoverManifest(messages))
              /\ RecoverManifest(messages).generation = Newest(messages)
              /\ RefsOK(messages, last_id, RecoverManifest(messages))
              /\ Newest(messages) = 0 => IsEmpty(Size, RecoverManifest(messages))
         /\ Newest(messages) = 0 =>
              /\ Garbage(RecoverManifest(messages)) = {}
              /\ \A o \in Objects : Entry(RecoverManifest(messages), o) = Zero(o)
<1>1. ChannelType(Size, last_id, messages) /\ Size \in Nat /\ SuperblocksOK(Size, messages, last_id)
  BY ObjectsAre, ChannelHealthy DEF TypesOK
<1> DEFINE r == RecoverManifest(messages)
<1>2. /\ r # None <=> RecoverSuperblock(messages) # 0
      /\ r = None => Newest(messages) = 0
      /\ RecoverSuperblock(messages) # 0 =>
           /\ r \in ManifestsOf(Size)
           /\ r.device_uuid = messages[RecoverSuperblock(messages)].device_uuid
           /\ r.generation = Newest(messages)
           /\ RefsOK(messages, last_id, r)
           /\ Newest(messages) = 0 => IsEmpty(Size, r)
  BY <1>1, RemoteIs
<1>3. Newest(messages) \in Nat
  BY <1>1, NewestIs
<1> HIDE DEF r
<1>4. ASSUME Newest(messages) = 0 PROVE Garbage(r) = {} /\ \A o \in Objects : Entry(r, o) = Zero(o)
  <2>1. CASE r = None
    BY <2>1, ZeroIs DEF Garbage
  <2>2. CASE r # None
    BY <1>2, <1>4, <2>2, EmptyEntries DEF Garbage
  <2> QED BY <2>1, <2>2
<1> QED BY <1>2, <1>3, <1>4 DEF OwnedBy, r

\* When nothing comes into force, and no message is lost that the manifest in force names.
LEMMA SameView ==
  ASSUME InForceIs(messages, messages')
  PROVE  /\ Newest(messages') = Newest(messages)
         /\ RecoverManifest(messages') = RecoverManifest(messages)
         /\ \A m : OwnedBy(messages', m) <=> OwnedBy(messages, m)
BY DEF InForceIs, OwnedBy

NothingDeleted ==
  \A i \in DOMAIN messages : i \in DOMAIN messages' /\ messages'[i] = messages[i]

\* Sending deletes nothing.
LEMMA SentKeeps ==
  ASSUME TypesOK, NEW s, NEW k \in Nat, Send(s, k)
  PROVE  NothingDeleted
<1>1. last_id \in Nat /\ DOMAIN messages \subseteq 1 .. last_id
  BY DEF TypesOK, ChannelType
<1>2. messages' = [i \in DOMAIN messages \cup (last_id + 1 .. last_id + k) |->
                     IF i <= last_id THEN messages[i] ELSE s[i - last_id]]
  BY Zenon DEF Send
<1> SUFFICES ASSUME NEW i \in DOMAIN messages
             PROVE  i \in DOMAIN messages' /\ messages'[i] = messages[i]
  BY DEF NothingDeleted
<1>3. i <= last_id
  BY <1>1
<1> QED BY <1>2, <1>3

\* What could be fetched still can when nothing was deleted.
LEMMA StillThere ==
  ASSUME NothingDeleted, NEW z, NEW r, There(z, messages, r)
  PROVE  There(z, messages', r)
BY DEF NothingDeleted, There, Fetches

\* A manifest that agrees with the channel still does when no object gets clean.
LEMMA AgreesKept ==
  ASSUME TypesOK, NEW st, NEW m, NEW r, Agrees(Size, store, m, r),
         \A o \in Objects : st.dirty[o] = 0 => store.dirty[o] = 0
  PROVE  Agrees(Size, st, m, r)
BY ObjectsAre DEF Agrees

\* A daemon and a saved manifest stay in step while the view of the channel is the same,
\* the saved manifest too, and no object gets clean.
LEMMA DaemonStaysInStep ==
  ASSUME TypesOK, InForceIs(messages, messages'),
         \A o \in Objects : store'.dirty[o] = 0 => store.dirty[o] = 0,
         store'.manifest = store.manifest, gc' \subseteq gc, NEW m,
         DaemonInStep(Size, messages, store, gc, m)
  PROVE  DaemonInStep(Size, messages', store', gc', m)
<1>1. /\ Newest(messages') = Newest(messages)
      /\ RecoverManifest(messages') = RecoverManifest(messages)
      /\ OwnedBy(messages', m) <=> OwnedBy(messages, m)
  BY SameView
<1>2. /\ m.generation + 1 >= Newest(messages)
      /\ Agrees(Size, store, m, RecoverManifest(messages))
      /\ Newest(messages) > 0 => OwnedBy(messages, m)
      /\ m.device_uuid # store.manifest.device_uuid => IsEmpty(Size, store.manifest)
      /\ gc \cup Garbage(store.manifest) \subseteq m.garbage
  BY DEF DaemonInStep
<1>3. Agrees(Size, store', m, RecoverManifest(messages))
  BY <1>2, AgreesKept
<1> QED BY <1>1, <1>2, <1>3 DEF DaemonInStep

\* The saved manifest, after a step that keeps it and the channel's.
LEMMA SavedStaysInStep ==
  ASSUME TypesOK, InForceIs(messages, messages'),
         \A o \in Objects : store'.dirty[o] = 0 => store.dirty[o] = 0,
         store'.manifest = store.manifest, gc' \subseteq gc,
         SavedInStep(Size, messages, store, gc)
  PROVE  SavedInStep(Size, messages', store', gc')
<1> DEFINE m == store.manifest
<1>1. /\ Newest(messages') = Newest(messages)
      /\ RecoverManifest(messages') = RecoverManifest(messages)
      /\ OwnedBy(messages', m) <=> OwnedBy(messages, m)
  BY SameView
<1>2. /\ ~OwnedBy(messages, m) \/ Newest(messages) = 0 => IsEmpty(Size, m)
      /\ OwnedBy(messages, m) =>
           Agrees(Size, store, m, RecoverManifest(messages)) /\ gc \subseteq m.garbage
  BY DEF SavedInStep
<1>3. OwnedBy(messages, m) => Agrees(Size, store', m, RecoverManifest(messages))
  BY <1>2, AgreesKept
<1>4. store'.manifest = m
  OBVIOUS
<1> HIDE DEF m
<1> QED BY <1>1, <1>2, <1>3, <1>4 DEF SavedInStep

\* A step that commits nothing and starts or stops no daemon.
LEMMA IdleInStep ==
  ASSUME TypesOK, InStep, config' = config, InForceIs(messages, messages'),
         There(Size, messages', RecoverManifest(messages)),
         Ahead(Size, store', Newest(messages)), Fresh(Size, store', RecoverManifest(messages)),
         \A o \in Objects : store'.dirty[o] = 0 => store.dirty[o] = 0,
         store'.manifest = store.manifest, gc' \subseteq gc, daemons' = daemons
  PROVE  InStep'
<1>1. /\ Newest(messages') = Newest(messages)
      /\ RecoverManifest(messages') = RecoverManifest(messages)
  BY SameView
<1>2. gc' \cup Garbage(store'.manifest) \subseteq Garbage(RecoverManifest(messages'))
  BY <1>1 DEF InStep
<1>3. store'.manifest # None => SavedInStep(Size, messages', store', gc')
  BY SavedStaysInStep DEF InStep
<1>4. \A p \in Running' : DaemonInStep(Size, messages', store', gc', daemons'[p].manifest)
  <2> SUFFICES ASSUME NEW p \in Running'
               PROVE  DaemonInStep(Size, messages', store', gc', daemons'[p].manifest)
    OBVIOUS
  <2>1. DaemonInStep(Size, messages, store, gc, daemons[p].manifest)
    BY SameDaemons DEF InStep
  <2>2. DaemonInStep(Size, messages', store', gc', daemons[p].manifest)
    BY <2>1, DaemonStaysInStep
  <2> QED BY <2>2
<1> QED BY <1>1, <1>2, <1>3, <1>4, InStepFrom

\* The same when the store stays as it is.
LEMMA QuietInStep ==
  ASSUME TypesOK, SoundInv, Sound, InStep, config' = config, InForceIs(messages, messages'),
         There(Size, messages', RecoverManifest(messages)),
         store' = store \/ Saves(store', store.manifest, store.dirty),
         gc' \subseteq gc, daemons' = daemons
  PROVE  InStep'
<1>1. store'.manifest = store.manifest /\ store'.dirty = store.dirty /\ store'.files = store.files
  BY DEF Saves
<1>2. Ahead(Size, store', Newest(messages)) /\ Fresh(Size, store', RecoverManifest(messages))
  BY <1>1 DEF InStep, Ahead, Fresh
<1> QED BY <1>1, <1>2, IdleInStep

\* A format commits an empty manifest, which comes into force where nothing else than
\* empty ones ever was.
LEMMA EmptyInForce ==
  ASSUME TypesOK, SoundInv, Sound, FormatsShrink, config' = config,
         EmptyManifest(NewUuid, Size) \in ManifestsOf(Size), NewUuid \in Nat,
         Quiet \/ Commits(EmptyManifest(NewUuid, Size))
  PROVE  \/ InForceIs(messages, messages')
         \/ /\ Newest(messages) = 0 /\ Newest(messages') = 0
            /\ RecoverManifest(messages') = EmptyManifest(NewUuid, Size)
<1> DEFINE m == EmptyManifest(NewUuid, Size)
<1>1. m \in ManifestsOf(Size) /\ m.generation = 0
  <2> HIDE DEF NewUuid
  <2> QED BY ObjectsAre, EmptyIs
<1>2. Newest(messages) \in Nat
  BY InForceManifest
<1> HIDE DEF m
<1>3. CASE Quiet
  BY <1>3, QuietFine
<1>4. CASE Commits(m)
  <2>1. /\ m.generation >= Newest(messages) =>
             RecoverManifest(messages') = m /\ Newest(messages') = m.generation
        /\ m.generation < Newest(messages) => InForceIs(messages, messages')
    BY <1>1, <1>4, CommitsFine
  <2>2. CASE Newest(messages) = 0
    BY <1>1, <2>1, <2>2 DEF m
  <2>3. CASE Newest(messages) # 0
    BY <1>1, <1>2, <2>1, <2>3
  <2> QED BY <2>2, <2>3
<1> QED BY <1>3, <1>4 DEF m

\* Where nothing but empty manifests ever was, and is.
LEMMA ZeroInStep ==
  ASSUME TypesOK, Exclusive, SoundInv, Sound, InStep, config' = config,
         Newest(messages) = 0, Newest(messages') = 0,
         NEW r \in ManifestsOf(Size), RecoverManifest(messages') = r, IsEmpty(Size, r),
         NEW m \in ManifestsOf(Size) \cup {None}, store'.manifest = m,
         m = store.manifest \/ (m # None /\ IsEmpty(Size, m)),
         store'.dirty = store.dirty, gc' = gc, daemons' = daemons
  PROVE  InStep'
<1>1. Garbage(r) = {} /\ \A o \in Objects : Entry(r, o) = Zero(o)
  BY EmptyEntries, ManifestParts DEF Garbage
<1>2. /\ Garbage(RecoverManifest(messages)) = {}
      /\ \A o \in Objects : Entry(RecoverManifest(messages), o) = Zero(o)
  BY InForceManifest
<1>3. gc = {} /\ Garbage(store.manifest) = {}
  BY <1>2 DEF InStep
<1>4. Objects = 0 .. Size - 1 /\ store.dirty \in [Units -> Nat] /\ Objects \subseteq Units
  BY ObjectsAre
<1>5. m # None => IsEmpty(Size, m)
  BY DEF InStep, SavedInStep
<1>6. Garbage(m) = {}
  BY <1>5, EmptyEntries DEF Garbage
<1>7. There(Size, messages', r) /\ Fresh(Size, store', r)
  BY <1>1, <1>4, ZeroIs DEF There, Fresh
<1>8. Ahead(Size, store', 0)
  <2>1. \A o \in 0 .. Size - 1 : store'.dirty[o] >= 0
    BY <1>4
  <2> QED BY <2>1 DEF Ahead
<1>9. gc' \cup Garbage(m) \subseteq Garbage(r)
  BY <1>3, <1>6
<1>10. ASSUME m # None PROVE SavedInStep(Size, messages', store', gc')
  <2>1. Agrees(Size, store', m, r)
    <3>1. \A o \in Objects : Entry(m, o) = Zero(o)
      BY <1>5, <1>10, EmptyEntries
    <3> QED BY <1>1, <1>4, <3>1 DEF Agrees
  <2>2. gc' \subseteq m.garbage /\ IsEmpty(Size, m)
    BY <1>3, <1>5, <1>10
  <2> QED BY <2>1, <2>2 DEF SavedInStep
<1>11. \A p \in Running' : DaemonInStep(Size, messages', store', gc', daemons'[p].manifest)
  <2> SUFFICES ASSUME NEW p \in Running'
               PROVE  DaemonInStep(Size, messages', store', gc', daemons'[p].manifest)
    OBVIOUS
  <2> DEFINE d == daemons[p].manifest
  <2>1. p \in Running
    BY SameDaemons
  <2>2. DaemonInStep(Size, messages, store, gc, d) /\ m # None
    BY <2>1 DEF InStep, Exclusive
  <2>3. d.generation \in Nat
    BY <2>1, DaemonIs, ManifestParts DEF Running
  <2> HIDE DEF d
  <2>4. Agrees(Size, store', d, r)
    BY <1>1, <1>2, <1>4, <2>2 DEF DaemonInStep, Agrees
  <2>5. gc' \cup Garbage(store'.manifest) \subseteq d.garbage
    BY <1>3, <1>6
  <2>6. DaemonInStep(Size, messages', store', gc', d)
    BY <1>5, <2>2, <2>3, <2>4, <2>5 DEF DaemonInStep
  <2> QED BY <2>6 DEF d
<1> QED BY <1>7, <1>8, <1>9, <1>10, <1>11, InStepFrom

\* The commands keep the store in step with the channel.
LEMMA CommandInStep ==
  ASSUME TypesOK, Exclusive, SoundInv, Sound, ~Keeping, InStep, Command
  PROVE  InStep'
<1> DEFINE r == RecoverManifest(messages)
<1>1. ASSUME UNCHANGED remote
      PROVE  InForceIs(messages, messages') /\ There(Size, messages', r)
  <2>1. messages' = messages
    BY <1>1 DEF remote
  <2> QED BY <2>1 DEF InForceIs, InStep
<1>2. CASE OpenStore
  <2>1. store' = Opened /\ UNCHANGED <<config, remote, mount_lock, daemons, commands, budget>>
    BY <1>2, Zenon DEF OpenStore
  <2>2. Saves(store', store.manifest, store.dirty)
    BY <2>1, SavedOpened
  <2>3. gc' \subseteq gc
    BY <2>1 DEF commands
  <2> QED BY <1>1, <2>1, <2>2, <2>3, QuietInStep
<1>3. CASE RemoveLock \/ RecoverFetch \/ GcFails
  <2>1. UNCHANGED <<config, remote, store, daemons>> /\ (gc' = gc \/ gc' = {})
    BY <1>3, Zenon DEF RemoveLock, RecoverFetch, GcFails, commands
  <2>2. gc' \subseteq gc
    BY <2>1
  <2> QED BY <1>1, <2>1, <2>2, QuietInStep
<1>4. CASE LoseMachine
  <2>1. /\ store' = NoStore /\ daemons' = [p \in Processes |-> None] /\ gc' = {}
        /\ UNCHANGED <<config, remote>>
    BY <1>4, Zenon DEF LoseMachine
  <2>2. /\ store'.manifest = None /\ store'.dirty = NoDirty /\ store'.files = NoFiles
        /\ Running' = {}
    BY <2>1 DEF NoStore, Running
  <2>3. /\ \A o \in 0 .. Size - 1 : store'.dirty[o] = 0
        /\ DOMAIN store'.files = {}
    BY <2>2, NothingStored, ObjectsAre DEF TypesOK
  <2>4. Ahead(Size, store', Newest(messages')) /\ Fresh(Size, store', r)
    BY <2>3 DEF Ahead, Fresh
  <2>5. RecoverManifest(messages') = r /\ There(Size, messages', r)
    BY <1>1, <2>1 DEF InForceIs
  <2>6. gc' \cup Garbage(store'.manifest) \subseteq Garbage(r)
    BY <2>1, <2>2 DEF Garbage
  <2> QED BY <2>1, <2>2, <2>4, <2>5, <2>6, InStepFrom
<1>5. CASE \E force \in BOOLEAN : FormatFails(force)
  <2> DEFINE m == EmptyManifest(NewUuid, Size)
  <2>1. PICK force \in BOOLEAN : FormatFails(force)
    BY <1>5
  <2>2. /\ FormatsShrink /\ UNCHANGED <<config, mount_lock, daemons, commands>>
        /\ Saves(store', store.manifest, store.dirty)
        /\ Quiet \/ Commits(m)
    BY <2>1, FormatFailsCommits
  <2>3. NothingDeleted
    <3>1. PICK k \in 0 .. Len(FormatMessages) : Send(FormatMessages, k)
      BY <2>1, Zenon DEF FormatFails, FormatMessages, Size
    <3> QED BY <3>1, SentKeeps
  <2>4. m \in ManifestsOf(Size) /\ NewUuid \in Nat
    BY FormatTyped, BudgetIs DEF TypesOK, NewUuid
  <2>5. There(Size, messages', r) /\ gc' = gc /\ daemons' = daemons /\ config' = config
    BY <2>2, <2>3, StillThere DEF InStep, commands
  <2>6. CASE InForceIs(messages, messages')
    BY <2>2, <2>5, <2>6, QuietInStep
  <2>7. CASE Newest(messages) = 0 /\ Newest(messages') = 0 /\ RecoverManifest(messages') = m
    <3>1. IsEmpty(Size, m)
      <4> HIDE DEF NewUuid
      <4> QED BY <2>4, ObjectsAre, EmptyRefs
    <3>2. store'.manifest = store.manifest /\ store'.dirty = store.dirty
      BY <2>2 DEF Saves
    <3> HIDE DEF m
    <3> QED BY <2>4, <2>5, <2>7, <3>1, <3>2, StoreFields, ZeroInStep
  <2> QED BY <2>2, <2>4, <2>5, <2>6, <2>7, EmptyInForce
<1>6. CASE \E force, local_only \in BOOLEAN : Format(force, local_only)
  <2> DEFINE m == EmptyManifest(NewUuid, Size)
  <2>1. PICK force \in BOOLEAN, local_only \in BOOLEAN : Format(force, local_only)
    BY <1>6
  <2>2. /\ FormatsShrink /\ Saves(store', m, store.dirty) /\ NewUuid \in Nat
        /\ (Quiet /\ UNCHANGED remote) \/ Commits(m)
    BY <2>1, FormatCommits
  <2>3. UNCHANGED <<config, mount_lock, daemons, commands>> /\ m \in ManifestsOf(Size)
    BY <2>1, FormatIs
  <2>4. There(Size, messages', r) /\ gc' = gc /\ daemons' = daemons /\ config' = config
    <3>1. NothingDeleted
      <4>1. \/ UNCHANGED remote
            \/ Len(FormatMessages) \in Nat /\ Send(FormatMessages, Len(FormatMessages))
        BY <2>1, FormatIs
      <4>2. UNCHANGED remote => NothingDeleted
        BY DEF remote, NothingDeleted
      <4> QED BY <4>1, <4>2, SentKeeps
    <3> QED BY <2>3, <3>1, StillThere DEF InStep, commands
  <2>5. IsEmpty(Size, m) /\ m.device_uuid = NewUuid
    <3> HIDE DEF NewUuid
    <3> QED BY <2>2, ObjectsAre, EmptyRefs, EmptyIs
  <2>6. store'.manifest = m /\ store'.dirty = store.dirty /\ store'.files = store.files
    BY <2>2 DEF Saves
  <2>7. CASE Newest(messages) = 0 /\ Newest(messages') = 0 /\ RecoverManifest(messages') = m
    <3>1. m # None
      BY <2>3, ManifestParts
    <3> HIDE DEF m
    <3> QED BY <2>3, <2>4, <2>5, <2>6, <2>7, <3>1, ZeroInStep
  <2>8. CASE InForceIs(messages, messages')
    <3>1. m.garbage = {} /\ (\A o \in Objects : Entry(m, o) = Zero(o)) /\ m # None
      BY <2>3, <2>5, EmptyEntries, ManifestParts
    <3>2. OwnedBy(messages, m) => RecoverSuperblock(messages) = 0
      <4> SUFFICES ASSUME RecoverSuperblock(messages) # 0
                   PROVE  messages[RecoverSuperblock(messages)].device_uuid # m.device_uuid
        BY DEF OwnedBy
      <4>1. RecoverSuperblock(messages) \in Superblocks(messages)
        BY NewestIs DEF TypesOK
      <4>2. messages[RecoverSuperblock(messages)].device_uuid > NewUuid
        BY <4>1, ChannelHealthy DEF NewUuid
      <4> QED BY <2>2, <2>5, <4>2
    <3>3. OwnedBy(messages, m) =>
            (\A o \in Objects : Entry(r, o) = Zero(o)) /\ Garbage(r) = {}
      BY <3>2, InForceManifest
    <3> HIDE DEF m, r
    <3>4. /\ Newest(messages') = Newest(messages) /\ RecoverManifest(messages') = r
          /\ OwnedBy(messages', m) <=> OwnedBy(messages, m)
      BY <2>8, SameView DEF r
    <3>5. gc \subseteq Garbage(r)
      BY DEF InStep, r
    <3>6. SavedInStep(Size, messages', store', gc')
      <4>1. OwnedBy(messages, m) => Agrees(Size, store', m, r)
        BY <3>1, <3>3, ObjectsAre DEF Agrees
      <4>2. OwnedBy(messages, m) => gc' \subseteq m.garbage
        BY <2>4, <3>3, <3>5
      <4> QED BY <2>5, <2>6, <3>4, <4>1, <4>2 DEF SavedInStep
    <3>7. gc' \cup Garbage(store'.manifest) \subseteq Garbage(r)
      BY <2>4, <2>6, <3>1, <3>5 DEF Garbage
    <3>8. Ahead(Size, store', Newest(messages)) /\ Fresh(Size, store', r)
      BY <2>6 DEF InStep, Ahead, Fresh, r
    <3>9. \A p \in Running' : DaemonInStep(Size, messages', store', gc', daemons'[p].manifest)
      <4> SUFFICES ASSUME NEW p \in Running'
                   PROVE  DaemonInStep(Size, messages', store', gc', daemons'[p].manifest)
        OBVIOUS
      <4> DEFINE d == daemons[p].manifest
      <4>1. DaemonInStep(Size, messages, store, gc, d)
        BY <2>4, SameDaemons DEF InStep
      <4> HIDE DEF d
      <4>2. /\ d.generation + 1 >= Newest(messages) /\ Agrees(Size, store, d, r)
            /\ Newest(messages) > 0 => OwnedBy(messages, d)
            /\ gc \cup Garbage(store.manifest) \subseteq d.garbage
        BY <4>1 DEF DaemonInStep, r
      <4>3. Agrees(Size, store', d, r)
        BY <2>6, <4>2 DEF Agrees
      <4>4. OwnedBy(messages', d) <=> OwnedBy(messages, d)
        BY <2>8, SameView
      <4>5. gc' \cup Garbage(store'.manifest) \subseteq d.garbage
        BY <2>4, <2>6, <3>1, <4>2 DEF Garbage
      <4>6. DaemonInStep(Size, messages', store', gc', d)
        BY <2>5, <2>6, <3>4, <4>2, <4>3, <4>4, <4>5 DEF DaemonInStep
      <4> QED BY <2>4, <4>6 DEF d
    <3>10. There(Size, messages', r)
      BY <2>4 DEF r
    <3> QED BY <2>4, <3>4, <3>6, <3>7, <3>8, <3>9, <3>10, InStepFrom
  <2> QED BY <2>2, <2>3, <2>4, <2>7, <2>8, EmptyInForce
<1>7. CASE RecoverReplace
  <2>1. /\ fetched # None /\ store' = Replaced(fetched)
        /\ UNCHANGED <<config, remote, mount_lock, daemons, gc, budget>>
    BY <1>7, Zenon DEF RecoverReplace
  <2>2. fetched = r /\ fetched \in ManifestsOf(Size) /\ Running = {}
    BY <2>1 DEF SoundInv, Healthy, TypesOK
  <2>3. Saves(store', r, store.dirty)
    BY <2>1, <2>2, SavedReplaced
  <2>4. r # None /\ (Newest(messages) = 0 => IsEmpty(Size, r)) /\ OwnedBy(messages, r)
    BY <2>1, <2>2, InForceManifest
  <2>5. gc' = gc /\ gc \subseteq r.garbage
    BY <2>1, <2>4 DEF InStep, Garbage
  <2>6. Running' = {}
    BY <2>1, <2>2, SameDaemons
  <2>7. /\ RecoverManifest(messages') = r /\ There(Size, messages', r)
        /\ Newest(messages') = Newest(messages) /\ OwnedBy(messages', r)
    BY <1>1, <2>1, <2>4, SameView
  <2>8. store'.manifest = r /\ store'.dirty = store.dirty /\ store'.files = store.files
    BY <2>3 DEF Saves
  <2>9. Ahead(Size, store', Newest(messages)) /\ Fresh(Size, store', r)
    BY <2>8 DEF InStep, Ahead, Fresh
  <2> HIDE DEF r
  <2>10. SavedInStep(Size, messages', store', gc')
    BY <2>4, <2>5, <2>7, <2>8 DEF SavedInStep, Agrees
  <2>11. gc' \cup Garbage(store'.manifest) \subseteq Garbage(r)
    BY <2>4, <2>5, <2>8 DEF Garbage
  <2> QED BY <2>1, <2>6, <2>7, <2>9, <2>10, <2>11, InStepFrom
<1>8. CASE GcStart
  <2>1. /\ store.manifest # None /\ gc' = store.manifest.garbage
        /\ UNCHANGED <<config, remote, store, mount_lock, daemons, fetched, budget>>
    BY <1>8, Zenon DEF GcStart
  <2>2. InForceIs(messages, messages') /\ There(Size, messages', r)
    BY <1>1, <2>1
  <2>3. /\ Newest(messages') = Newest(messages) /\ RecoverManifest(messages') = r
        /\ \A m : OwnedBy(messages', m) <=> OwnedBy(messages, m)
    BY <2>2, SameView
  <2>4. Garbage(store.manifest) = store.manifest.garbage
    BY <2>1 DEF Garbage
  <2>5. gc' \cup Garbage(store'.manifest) \subseteq Garbage(r)
    BY <2>1, <2>4 DEF InStep
  <2>6. SavedInStep(Size, messages', store', gc')
    BY <2>1, <2>3 DEF InStep, SavedInStep
  <2>7. \A p \in Running' : DaemonInStep(Size, messages', store', gc', daemons'[p].manifest)
    <3> SUFFICES ASSUME NEW p \in Running'
                 PROVE  DaemonInStep(Size, messages', store', gc', daemons'[p].manifest)
      OBVIOUS
    <3> DEFINE d == daemons[p].manifest
    <3>1. DaemonInStep(Size, messages, store, gc, d) /\ daemons' = daemons
      BY <2>1, SameDaemons DEF InStep
    <3> HIDE DEF d
    <3>2. DaemonInStep(Size, messages', store', gc', d)
      BY <2>1, <2>3, <2>4, <3>1 DEF DaemonInStep
    <3> QED BY <3>1, <3>2 DEF d
  <2>8. Ahead(Size, store', Newest(messages)) /\ Fresh(Size, store', r)
    BY <2>1 DEF InStep
  <2> HIDE DEF r
  <2> QED BY <2>1, <2>2, <2>3, <2>5, <2>6, <2>7, <2>8, InStepFrom
<1>9. CASE \E id \in gc : GcDelete(id)
  <2>1. PICK id \in gc : GcDelete(id)
    BY <1>9
  <2>2. gc' = gc \ {id} /\ UNCHANGED <<config, store, mount_lock, daemons, fetched, budget>>
    BY <2>1, Zenon DEF GcDelete
  <2>3. id \in DOMAIN messages => messages[id].kind = "object"
    <3>1. GcFine(config, messages, last_id, gc)
      BY DEF SoundInv, Healthy
    <3> QED BY <2>1, <3>1 DEF GcFine, IsObject
  <2>4. Quiet /\ FormatsShrink
    BY <2>1, <2>2, <2>3, DeletedGrows, SameBudget DEF Quiet
  <2>5. InForceIs(messages, messages')
    BY <2>4, QuietFine
  <2>6. There(Size, messages', r)
    <3>1. r # None /\ id \in r.garbage
      BY <2>1 DEF InStep, Garbage
    <3>2. r \in ManifestsOf(Size) /\ RefsOK(messages, last_id, r)
      BY <3>1, InForceManifest
    <3> HIDE DEF r
    <3>3. \A o \in Objects : At(r, o).remote # 0 => At(r, o).remote \notin r.garbage
      BY <3>2, RefsAre
    <3>4. /\ DOMAIN messages' = DOMAIN messages \ {id}
          /\ \A i \in DOMAIN messages \ {id} : messages'[i] = messages[i]
      BY <2>1, Deleted
    <3> SUFFICES ASSUME NEW o \in Objects, Entry(r, o).remote # 0
                 PROVE  Fetches(messages', Entry(r, o))
      BY ObjectsAre DEF There
    <3>5. Entry(r, o).remote # id
      BY <3>1, <3>2, <3>3, EntryIs
    <3>6. Fetches(messages, Entry(r, o))
      BY ObjectsAre DEF InStep, There, r
    <3> QED BY <3>4, <3>5, <3>6 DEF Fetches
  <2>7. gc' \subseteq gc
    BY <2>2
  <2> QED BY <2>2, <2>5, <2>6, <2>7, QuietInStep
<1>10. ~(Rollback \/ RollbackFails \/ FlushCommand)
  <2>1. ~Allowed("recover") /\ ~Allowed("flush")
    BY DEF Sound, Unsound, Allowed
  <2> QED BY <2>1, Zenon DEF Rollback, RollbackFails, FlushCommand
<1> QED BY <1>2, <1>3, <1>4, <1>5, <1>6, <1>7, <1>8, <1>9, <1>10, Zenon DEF Command

\* What StartsCountOn says of a step.
CountsOn ==
  \A p \in Processes :
    Sound /\ Serve(p) /\ store.manifest # None =>
      \A i \in Superblocks(messages) : Generation(messages, i) <= store.manifest.generation + 1

\* So does a start that counts on: it refuses another device, and takes a saved manifest with its rows.
LEMMA ServeInStep ==
  ASSUME TypesOK, Exclusive, SoundInv, Sound, ~Keeping, InStep, CountsOn,
         NEW p \in Processes, Serve(p)
  PROVE  InStep'
<1> DEFINE r == RecoverManifest(messages)
           m == store'.manifest
<1>1. /\ ~mount_lock /\ UNCHANGED <<config, remote, commands, budget>>
      /\ m \in ManifestsOf(Size) /\ Saves(store', m, store.dirty)
      /\ daemons' = [daemons EXCEPT ![p] = [manifest |-> m, memory |-> None]]
      /\ store.manifest # None =>
           /\ m = store.manifest
           /\ RecoverSuperblock(messages) # 0 =>
                messages[RecoverSuperblock(messages)].device_uuid = store.manifest.device_uuid
      /\ store.manifest = None => r # None /\ m = r
  BY ServeIs
<1>2. Running = {} /\ messages' = messages /\ gc' = gc
  BY <1>1 DEF Exclusive, remote, commands
<1>3. store'.dirty = store.dirty /\ store'.files = store.files
  BY <1>1 DEF Saves
<1>4. /\ m # None /\ m.generation \in Nat /\ Newest(messages) \in Nat
  BY <1>1, ManifestParts, InForceManifest
<1> HIDE DEF m
<1>5. /\ OwnedBy(messages, m) /\ m.generation + 1 >= Newest(messages)
      /\ Agrees(Size, store, m, r) /\ gc \cup m.garbage \subseteq r.garbage
      /\ gc \subseteq m.garbage
      /\ Newest(messages) = 0 => IsEmpty(Size, m)
  <2>1. CASE store.manifest # None
    <3>1. OwnedBy(messages, m)
      BY <1>1, <2>1 DEF OwnedBy
    <3>2. m.generation + 1 >= Newest(messages)
      <4>1. CASE RecoverSuperblock(messages) = 0
        BY <1>4, <4>1 DEF Newest
      <4>2. CASE RecoverSuperblock(messages) # 0
        <5>1. /\ RecoverSuperblock(messages) \in Superblocks(messages)
              /\ Newest(messages) = Generation(messages, RecoverSuperblock(messages))
          BY <4>2, NewestIs DEF TypesOK
        <5>2. Generation(messages, RecoverSuperblock(messages)) <= store.manifest.generation + 1
          BY <2>1, <5>1, Zenon DEF CountsOn
        <5> QED BY <1>1, <1>4, <2>1, <5>1, <5>2
      <4> QED BY <4>1, <4>2
    <3>3. SavedInStep(Size, messages, store, gc) /\ gc \cup Garbage(store.manifest) \subseteq Garbage(r)
      BY <2>1 DEF InStep
    <3>4. gc \cup m.garbage \subseteq r.garbage
      <4>1. Garbage(store.manifest) = m.garbage
        BY <1>1, <2>1 DEF Garbage
      <4>2. Garbage(r) = IF r = None THEN {} ELSE r.garbage
        BY DEF Garbage
      <4>3. CASE r = None
        <5>1. Newest(messages) = 0
          BY <4>3, InForceManifest
        <5>2. IsEmpty(Size, m)
          BY <1>1, <2>1, <3>3, <5>1 DEF SavedInStep
        <5> QED BY <3>3, <4>1, <4>2, <4>3
      <4> QED BY <3>3, <4>1, <4>2, <4>3
    <3> HIDE DEF r
    <3> QED BY <1>1, <2>1, <3>1, <3>2, <3>3, <3>4 DEF SavedInStep, r
  <2>2. CASE store.manifest = None
    <3>1. m = r /\ r # None
      BY <1>1, <2>2
    <3>2. /\ OwnedBy(messages, r) /\ r.generation = Newest(messages)
          /\ Newest(messages) = 0 => IsEmpty(Size, r)
      BY <3>1, InForceManifest
    <3>3. gc \subseteq r.garbage
      BY <3>1 DEF InStep, Garbage
    <3> HIDE DEF r
    <3> QED BY <1>4, <3>1, <3>2, <3>3 DEF Agrees
  <2> QED BY <2>1, <2>2
<1>6. gc \cup Garbage(m) \subseteq Garbage(r)
  <2>1. CASE store.manifest # None
    BY <1>1, <2>1 DEF InStep
  <2>2. CASE store.manifest = None
    BY <1>1, <1>5, <2>2 DEF Garbage
  <2> QED BY <2>1, <2>2
<1>7. SavedInStep(Size, messages', store', gc')
  <2> HIDE DEF r
  <2>1. Agrees(Size, store', m, r)
    BY <1>3, <1>5 DEF Agrees
  <2>2. store'.manifest = m
    BY DEF m
  <2> QED BY <1>2, <1>5, <2>1, <2>2 DEF SavedInStep, r
<1>8. \A q \in Running' : DaemonInStep(Size, messages', store', gc', daemons'[q].manifest)
  <2> SUFFICES ASSUME NEW q \in Running'
               PROVE  DaemonInStep(Size, messages', store', gc', daemons'[q].manifest)
    OBVIOUS
  <2>1. daemons'[q] = [manifest |-> m, memory |-> None]
    BY <1>1, <1>2, DaemonAlone
  <2>2. daemons'[q].manifest = m
    BY <2>1
  <2> HIDE DEF r
  <2>3. Agrees(Size, store', m, r)
    BY <1>3, <1>5 DEF Agrees
  <2>4. Garbage(store'.manifest) = m.garbage /\ store'.manifest = m
    BY <1>4 DEF m, Garbage
  <2>5. DaemonInStep(Size, messages', store', gc', m)
    BY <1>2, <1>5, <2>3, <2>4 DEF DaemonInStep, r
  <2> QED BY <2>2, <2>5
<1>9. There(Size, messages', r) /\ Ahead(Size, store', Newest(messages)) /\ Fresh(Size, store', r)
  BY <1>2, <1>3 DEF InStep, Ahead, Fresh
<1> HIDE DEF r
<1> QED BY <1>1, <1>2, <1>6, <1>7, <1>8, <1>9, InStepFrom DEF r, m

\* What a running daemon serves, by object.
LEMMA DaemonServes ==
  ASSUME TypesOK, InStep, NEW p \in Processes, daemons[p] # None
  PROVE  /\ p \in Running /\ daemons[p].manifest \in ManifestsOf(Size)
         /\ DaemonInStep(Size, messages, store, gc, daemons[p].manifest)
         /\ \A o \in Objects : store.dirty[o] = 0 =>
              At(daemons[p].manifest, o) = Entry(RecoverManifest(messages), o)
<1>1. p \in Running /\ daemons[p].manifest \in ManifestsOf(Size)
  BY DaemonIs DEF Running
<1>2. DaemonInStep(Size, messages, store, gc, daemons[p].manifest)
  BY <1>1 DEF InStep
<1>3. \A o \in Objects : Entry(daemons[p].manifest, o) = At(daemons[p].manifest, o)
  BY <1>1, EntryIs
<1> QED BY <1>1, <1>2, <1>3, ObjectsAre DEF DaemonInStep, Agrees

\* So does a daemon that stops, cleanly or by a kill.
LEMMA StopInStep ==
  ASSUME TypesOK, Exclusive, SoundInv, Sound, InStep, NEW p \in Processes, Stop(p)
  PROVE  InStep'
<1>1. /\ daemons[p] # None /\ daemons' = [daemons EXCEPT ![p] = None]
      /\ UNCHANGED <<config, remote, store, commands, budget>>
  BY Zenon DEF Stop
<1>2. Running' = {}
  BY <1>1, DaemonAlone
<1>3. messages' = messages /\ gc' = gc /\ store' = store /\ config' = config
  BY <1>1 DEF remote, commands
<1> QED BY <1>2, <1>3, InStepFrom DEF InStep

\* So does a write.
LEMMA WriteInStep ==
  ASSUME TypesOK, InStep, NEW p \in Processes, NEW o \in Objects, NEW v \in Value, Write(p, o, v),
         Newest(messages) \in Nat
  PROVE  InStep'
<1> DEFINE r == RecoverManifest(messages)
           g == daemons[p].manifest.generation + 1
<1>1. /\ daemons[p] # None /\ o \in Units /\ o \in Nat /\ g \in Nat \ {0}
      /\ store'.manifest = store.manifest
      /\ store'.dirty = [store.dirty EXCEPT ![o] = g]
      /\ store'.files = WithFile(<<o, g>>, v)
  BY WriteIs
<1>2. UNCHANGED <<config, remote, mount_lock, daemons, commands>>
  BY Zenon DEF Write
<1>3. g >= Newest(messages)
  BY <1>1, DaemonServes DEF DaemonInStep
<1> HIDE DEF g, r
<1>4. /\ store'.dirty[o] = g
      /\ \A q \in Objects : q # o => store'.dirty[q] = store.dirty[q]
      /\ \A q \in Objects : store'.dirty[q] = 0 => store.dirty[q] = 0 /\ q # o
  BY <1>1, ObjectsAre
<1>5. Ahead(Size, store', Newest(messages))
  BY <1>1, <1>3, <1>4, ObjectsAre DEF Ahead
<1>6. Fresh(Size, store', r)
  <2>1. /\ DOMAIN store'.files = DOMAIN store.files \cup {<<o, g>>}
        /\ \A k \in DOMAIN store.files : k # <<o, g>> => store'.files[k] = store.files[k]
    <3>1. <<o, g>> \in Nat \X Nat
      BY <1>1
    <3> QED BY <1>1, <3>1, FileAdded
  <2> SUFFICES ASSUME NEW q \in Objects, store'.dirty[q] = 0, Entry(r, q).remote # 0,
                      <<q, Entry(r, q).generation>> \in DOMAIN store'.files
               PROVE  store'.files[<<q, Entry(r, q).generation>>] = Entry(r, q).payload
    BY ObjectsAre DEF Fresh
  <2>2. q # o /\ store.dirty[q] = 0
    BY <1>4
  <2>3. <<q, Entry(r, q).generation>> # <<o, g>>
    BY <2>2
  <2>4. Fresh(Size, store, r)
    BY DEF InStep, r
  <2> QED BY <2>1, <2>2, <2>3, <2>4, ObjectsAre DEF Fresh
<1>7. InForceIs(messages, messages') /\ There(Size, messages', r) /\ gc' \subseteq gc
  BY <1>2 DEF InForceIs, InStep, remote, commands, r
<1> QED BY <1>1, <1>2, <1>4, <1>5, <1>6, <1>7, IdleInStep DEF r

\* So does a read.
LEMMA ReadInStep ==
  ASSUME TypesOK, InStep, NEW p \in Processes, NEW o \in Objects, Read(p, o)
  PROVE  InStep'
<1> DEFINE r == RecoverManifest(messages)
           e == ReadEntry(p, o)
<1>1. /\ daemons[p] # None /\ o \in Nat /\ e \in ObjectEntry /\ e.remote # 0
      /\ store.dirty[o] = 0
      /\ <<o, e.generation>> \notin DOMAIN store.files
      /\ store'.manifest = store.manifest /\ store'.dirty = store.dirty
      /\ store'.files = WithFile(<<o, e.generation>>, e.payload)
  BY ReadIs
<1>2. UNCHANGED <<config, remote, mount_lock, daemons, commands, budget>>
  BY Zenon DEF Read
<1>3. e = Entry(r, o)
  BY <1>1, DaemonServes DEF ReadEntry, At
<1> HIDE DEF e, r
<1>4. Fresh(Size, store', r)
  <2> DEFINE key == <<o, e.generation>>
  <2>1. /\ DOMAIN store'.files = DOMAIN store.files \cup {key}
        /\ store'.files[key] = e.payload
        /\ \A k \in DOMAIN store.files : k # key => store'.files[k] = store.files[k]
    <3>1. key \in Nat \X Nat /\ e.payload \in Value
      BY <1>1 DEF ObjectEntry
    <3> QED BY <1>1, <3>1, FileAdded
  <2> SUFFICES ASSUME NEW q \in Objects, store'.dirty[q] = 0, Entry(r, q).remote # 0,
                      <<q, Entry(r, q).generation>> \in DOMAIN store'.files
               PROVE  store'.files[<<q, Entry(r, q).generation>>] = Entry(r, q).payload
    BY ObjectsAre DEF Fresh
  <2>2. CASE q = o
    BY <1>3, <2>1, <2>2
  <2>3. CASE q # o
    <3>1. <<q, Entry(r, q).generation>> # key
      BY <2>3
    <3>2. Fresh(Size, store, r)
      BY DEF InStep, r
    <3> QED BY <1>1, <2>1, <3>1, <3>2, ObjectsAre DEF Fresh
  <2> QED BY <2>2, <2>3
<1>5. InForceIs(messages, messages') /\ There(Size, messages', r) /\ gc' \subseteq gc
  BY <1>2 DEF InForceIs, InStep, remote, commands, r
<1>6. Ahead(Size, store', Newest(messages))
  BY <1>1 DEF InStep, Ahead
<1> QED BY <1>1, <1>2, <1>4, <1>5, <1>6, IdleInStep DEF r

\* The manifest after j uploads of a flush, by object.
LEMMA UploadedServes ==
  ASSUME TypesOK, InStep, NEW p \in Processes, daemons[p] # None, NEW j \in Nat, NEW v,
         v = Uploaded(daemons[p].manifest, j, last_id)
  PROVE  /\ v \in ManifestsOf(Size) /\ v.device_uuid = daemons[p].manifest.device_uuid
         /\ gc \cup Garbage(store.manifest) \subseteq v.garbage
         /\ \A o \in Objects : store.dirty[o] = 0 =>
              Entry(v, o) = Entry(RecoverManifest(messages), o)
<1> DEFINE d == daemons[p].manifest
<1>1. /\ d \in ManifestsOf(Size) /\ DaemonInStep(Size, messages, store, gc, d)
      /\ \A o \in Objects : store.dirty[o] = 0 => At(d, o) = Entry(RecoverManifest(messages), o)
  BY DaemonServes
<1>2. v = Uploaded(d, j, last_id) /\ last_id \in Nat
  BY DEF TypesOK, ChannelType
<1> HIDE DEF d
<1>3. /\ v \in ManifestsOf(Size) /\ v.device_uuid = d.device_uuid
      /\ v.garbage = d.garbage \cup Replacements(d, j)
      /\ \A o \in Objects : At(v, o) = IF o \in Done(j) THEN NewEntry(o, last_id) ELSE At(d, o)
  <2> DEFINE w == Uploaded(d, j, last_id)
  <2>1. /\ w \in ManifestsOf(Size) /\ w.device_uuid = d.device_uuid
        /\ w.garbage = d.garbage \cup Replacements(d, j)
        /\ \A o \in Objects : At(w, o) = IF o \in Done(j) THEN NewEntry(o, last_id) ELSE At(d, o)
    BY <1>1, <1>2, UploadedIs DEF At
  <2> HIDE DEF w
  <2>2. v = w
    BY <1>2 DEF w
  <2> QED BY <2>1, <2>2
<1>4. ASSUME NEW o \in Objects, store.dirty[o] = 0
      PROVE  Entry(v, o) = Entry(RecoverManifest(messages), o)
  <2>1. o \notin Done(j)
    BY <1>4 DEF Done, DirtyIds
  <2> QED BY <1>1, <1>3, <1>4, <2>1, EntryIs
<1>5. gc \cup Garbage(store.manifest) \subseteq v.garbage
  BY <1>1, <1>3 DEF DaemonInStep
<1> QED BY <1>3, <1>4, <1>5 DEF d

\* The manifest of a whole flush, and its objects.
LEMMA FlushedServes ==
  ASSUME TypesOK, InStep, NEW p \in Processes, daemons[p] # None, NothingDeleted,
         NEW k \in Nat, UploadsSent(k), k >= Len(Uploads), NEW u, u = FlushedManifest(p)
  PROVE  /\ There(Size, messages', u)
         /\ store'.files = store.files => Fresh(Size, store', u)
<1> DEFINE r == RecoverManifest(messages)
<1>1. Len(Uploads) \in Nat /\ Len(Uploads) = Cardinality(DirtyIds) /\ last_id \in Nat
  BY UploadsAre, Positions DEF TypesOK, ChannelType
<1>2. u = Uploaded(daemons[p].manifest, Len(Uploads), last_id)
  BY DEF FlushedManifest
<1>3. /\ u \in ManifestsOf(Size)
      /\ \A o \in Objects : store.dirty[o] = 0 => Entry(u, o) = Entry(r, o)
  BY <1>1, <1>2, UploadedServes
<1>4. ASSUME NEW o \in DirtyIds
      PROVE  o \in Objects /\ Entry(u, o) = NewEntry(o, last_id)
             /\ Position(o) \in 1 .. Len(Uploads)
  <2>1. o \in Objects /\ Position(o) \in 1 .. Len(Uploads)
    BY <1>1, <1>4, Positions
  <2>2. o \in Done(Len(Uploads))
    BY <1>1, <1>4, <2>1 DEF Done
  <2>3. daemons[p].manifest \in ManifestsOf(Size)
    BY DaemonServes
  <2>4. At(u, o) = NewEntry(o, last_id)
    BY <1>1, <1>2, <2>1, <2>2, <2>3, UploadedIs DEF At
  <2> QED BY <1>3, <2>1, <2>4, EntryIs
<1>5. \A o \in Objects : o \in DirtyIds \/ store.dirty[o] = 0
  BY DEF DirtyIds
<1> HIDE DEF r
<1>6. ASSUME NEW o \in Objects, Entry(u, o).remote # 0
      PROVE  Fetches(messages', Entry(u, o))
  <2>1. CASE o \in DirtyIds
    <3> DEFINE g == store.dirty[o]
               x == store.files[<<o, store.dirty[o]>>]
               pos == Position(o)
    <3>1. /\ pos \in 1 .. k /\ pos <= Len(Uploads)
          /\ Uploads[pos] = ObjectMessage(o, g, x)
      BY <1>1, <1>4, <2>1, UploadsAre
    <3>2. last_id + pos \in DOMAIN messages' /\ messages'[last_id + pos] = ObjectMessage(o, g, x)
      <4> HIDE DEF pos
      <4> QED BY <3>1 DEF UploadsSent
    <3>3. Entry(u, o) = ManifestObject(o, g, last_id + pos, x)
      BY <1>4, <2>1 DEF NewEntry
    <3> HIDE DEF g, x, pos
    <3> QED BY <3>2, <3>3 DEF Fetches, ManifestObject
  <2>2. CASE store.dirty[o] = 0
    <3>1. Entry(u, o) = Entry(r, o) /\ Fetches(messages, Entry(r, o))
      BY <1>3, <1>6, <2>2, ObjectsAre DEF InStep, There, r
    <3> QED BY <3>1 DEF Fetches, NothingDeleted
  <2> QED BY <1>5, <2>1, <2>2
<1>7. ASSUME NEW o \in Objects, Entry(u, o).remote # 0,
             <<o, Entry(u, o).generation>> \in DOMAIN store.files
      PROVE  store.files[<<o, Entry(u, o).generation>>] = Entry(u, o).payload
  <2>1. CASE o \in DirtyIds
    <3>1. Entry(u, o) = NewEntry(o, last_id)
      BY <1>4, <2>1
    <3> QED BY <3>1 DEF NewEntry, ManifestObject
  <2>2. CASE store.dirty[o] = 0
    <3>1. Entry(u, o) = Entry(r, o) /\ Fresh(Size, store, r)
      BY <1>3, <2>2 DEF InStep, r
    <3> QED BY <1>7, <2>2, <3>1, ObjectsAre DEF Fresh
  <2> QED BY <1>5, <2>1, <2>2
<1>8. There(Size, messages', u)
  BY <1>6, ObjectsAre DEF There
<1>9. store'.files = store.files => Fresh(Size, store', u)
  BY <1>7, ObjectsAre DEF Fresh
<1> QED BY <1>8, <1>9

\* A flush is not behind the channel.
LEMMA FlushAhead ==
  ASSUME TypesOK, InStep, DirtyIds # {}, NEW m, Newest(messages) \in Nat
  PROVE  /\ NewGeneration(m) \in Nat \ {0} /\ NewGeneration(m) >= Newest(messages)
         /\ \E o \in Objects : store.dirty[o] # 0 /\ store.dirty[o] = NewGeneration(m)
<1>1. /\ NewGeneration(m) \in Nat \ {0}
      /\ \E o \in DirtyIds : NewGeneration(m) = store.dirty[o]
      /\ \A o \in DirtyIds : store.dirty[o] <= NewGeneration(m)
  BY NewGenerationIs
<1>2. PICK o \in DirtyIds : NewGeneration(m) = store.dirty[o]
  BY <1>1
<1>3. o \in Objects /\ store.dirty[o] # 0
  BY DEF DirtyIds
<1>4. PICK q \in Objects : store.dirty[q] # 0 /\ store.dirty[q] >= Newest(messages)
  BY <1>3, ObjectsAre DEF InStep, Ahead
<1>5. q \in DirtyIds /\ store.dirty[q] \in Nat
  BY <1>4, ObjectsAre DEF DirtyIds
<1> QED BY <1>1, <1>2, <1>3, <1>4, <1>5

\* A flush that committed, whatever the store holds then.
LEMMA CommittedInStep ==
  ASSUME TypesOK, Exclusive, SoundInv, Sound, InStep, config' = config, gc' = gc,
         NEW p \in Processes, daemons[p] # None, DirtyIds # {}, NothingDeleted, FormatsShrink,
         NEW k \in Nat, UploadsSent(k), k >= Len(Uploads), NEW u, u = FlushedManifest(p),
         Commits(u),
         \/ daemons' = [daemons EXCEPT ![p] = [manifest |-> u, memory |-> None]]
         \/ daemons' = [daemons EXCEPT ![p] = None],
         \/ store' = store \/ Saves(store', u, store.dirty) \/ Saves(store', u, NoDirty)
  PROVE  InStep'
<1> DEFINE r == RecoverManifest(messages)
           d == daemons[p].manifest
           s == store.manifest
<1>1. Newest(messages) \in Nat /\ Len(Uploads) \in Nat
  BY InForceManifest, UploadsAre, Positions
<1>2. /\ u \in ManifestsOf(Size) /\ u.device_uuid = d.device_uuid
      /\ u.generation = NewGeneration(d)
  BY <1>1, FlushedIs DEF FlushedManifest
<1>3. /\ u.generation \in Nat \ {0} /\ u.generation >= Newest(messages)
      /\ \E o \in Objects : store.dirty[o] # 0 /\ store.dirty[o] = u.generation
  BY <1>1, <1>2, FlushAhead
<1>4. /\ gc \cup Garbage(s) \subseteq u.garbage
      /\ \A o \in Objects : store.dirty[o] = 0 => Entry(u, o) = Entry(r, o)
  BY <1>1, UploadedServes DEF FlushedManifest
<1>5. /\ There(Size, messages', u)
      /\ store'.files = store.files => Fresh(Size, store', u)
  BY FlushedServes
<1>6. /\ d \in ManifestsOf(Size) /\ DaemonInStep(Size, messages, store, gc, d)
  BY DaemonServes
<1>7. /\ RecoverManifest(messages') = u /\ Newest(messages') = u.generation
      /\ RecoverSuperblock(messages') # 0
      /\ messages'[RecoverSuperblock(messages')].device_uuid = u.device_uuid
  BY <1>1, <1>2, <1>3, CommitsFine
<1>8. \A m : OwnedBy(messages', m) <=> m.device_uuid = u.device_uuid
  BY <1>7 DEF OwnedBy
<1>9. s \in ManifestsOf(Size) /\ s # None
  <2>1. s # None
    BY DaemonServes DEF Exclusive
  <2> QED BY <2>1, StoreFields
<1>10. /\ store'.files = store.files
       /\ store'.dirty = store.dirty \/ store'.dirty = NoDirty
       /\ \/ store'.manifest = s /\ store'.dirty = store.dirty
          \/ store'.manifest = u
  BY DEF Saves
<1>11. u # None
  BY <1>2, ManifestParts
<1>12. /\ ~OwnedBy(messages, s) \/ Newest(messages) = 0 => IsEmpty(Size, s)
       /\ OwnedBy(messages, s) => Agrees(Size, store, s, r) /\ gc \subseteq s.garbage
  BY <1>9 DEF InStep, SavedInStep
<1>13. /\ Newest(messages) > 0 => OwnedBy(messages, d)
       /\ d.device_uuid # s.device_uuid => IsEmpty(Size, s)
  BY <1>6 DEF DaemonInStep
<1>14. Newest(messages) = 0 =>
         gc = {} /\ \A o \in Objects : Entry(r, o) = Zero(o)
  BY InForceManifest DEF InStep
<1> HIDE DEF r, d, s
<1>15. Ahead(Size, store', u.generation)
  <2>1. \A o \in Objects : NoDirty[o] = 0
    BY NothingStored, ObjectsAre DEF TypesOK
  <2> QED BY <1>3, <1>10, <2>1, ObjectsAre DEF Ahead
<1>16. gc' \cup Garbage(store'.manifest) \subseteq u.garbage
  <2>1. Garbage(u) = u.garbage
    BY <1>11 DEF Garbage
  <2> QED BY <1>4, <1>10, <2>1
<1>17. \A m : Agrees(Size, m, u, u)
  BY DEF Agrees
<1>18. SavedInStep(Size, messages', store', gc')
  <2>1. CASE store'.manifest = u
    BY <1>3, <1>4, <1>7, <1>8, <1>17, <2>1 DEF SavedInStep
  <2>2. CASE store'.manifest = s /\ store'.dirty = store.dirty
    <3>1. s.device_uuid # u.device_uuid => IsEmpty(Size, s)
      BY <1>2, <1>13 DEF d
    <3>2. ASSUME s.device_uuid = u.device_uuid
          PROVE  Agrees(Size, store', s, u) /\ gc \subseteq s.garbage
      <4>1. \A o \in Objects : store.dirty[o] = 0 => Entry(s, o) = Entry(r, o)
        <5>1. CASE Newest(messages) = 0
          BY <1>9, <1>12, <1>14, <5>1, EmptyEntries
        <5>2. CASE Newest(messages) # 0
          <6>1. OwnedBy(messages, s)
            BY <1>1, <1>2, <1>13, <3>2, <5>2 DEF OwnedBy, d
          <6> QED BY <1>12, <6>1, ObjectsAre DEF Agrees
        <5> QED BY <5>1, <5>2
      <4>2. gc \subseteq s.garbage
        <5>1. CASE Newest(messages) = 0
          BY <1>14, <5>1
        <5>2. CASE Newest(messages) # 0
          <6>1. OwnedBy(messages, s)
            BY <1>1, <1>2, <1>13, <3>2, <5>2 DEF OwnedBy, d
          <6> QED BY <1>12, <6>1
        <5> QED BY <5>1, <5>2
      <4> QED BY <1>4, <2>2, <4>1, <4>2, ObjectsAre DEF Agrees
    <3> QED BY <1>3, <1>7, <1>8, <2>2, <3>1, <3>2 DEF SavedInStep
  <2> QED BY <1>10, <2>1, <2>2
<1>19. \A q \in Running' : DaemonInStep(Size, messages', store', gc', daemons'[q].manifest)
  <2> SUFFICES ASSUME NEW q \in Running'
               PROVE  DaemonInStep(Size, messages', store', gc', daemons'[q].manifest)
    OBVIOUS
  <2>1. CASE daemons' = [daemons EXCEPT ![p] = [manifest |-> u, memory |-> None]]
    <3>1. daemons'[q] = [manifest |-> u, memory |-> None]
      BY <2>1, DaemonAlone
    <3>2. daemons'[q].manifest = u
      BY <3>1
    <3>3. u.device_uuid # store'.manifest.device_uuid => IsEmpty(Size, store'.manifest)
      BY <1>2, <1>10, <1>13 DEF d
    <3>4. DaemonInStep(Size, messages', store', gc', u)
      BY <1>3, <1>7, <1>8, <1>16, <1>17, <3>3 DEF DaemonInStep
    <3> QED BY <3>2, <3>4
  <2>2. CASE daemons' = [daemons EXCEPT ![p] = None]
    BY <2>2, DaemonAlone
  <2> QED BY <2>1, <2>2
<1>20. Garbage(u) = u.garbage
  BY <1>11 DEF Garbage
<1> QED BY <1>5, <1>7, <1>10, <1>15, <1>16, <1>18, <1>19, <1>20, InStepFrom

\* So does a flush that succeeds.
LEMMA FlushInStep ==
  ASSUME TypesOK, Exclusive, SoundInv, Sound, InStep, NEW p \in Processes, Flush(p)
  PROVE  InStep'
<1> DEFINE u == FlushedManifest(p)
<1>1. /\ UNCHANGED <<config, mount_lock, commands>> /\ daemons[p] # None /\ DirtyIds # {}
      /\ daemons[p].manifest \in ManifestsOf(Size)
      /\ daemons' = [daemons EXCEPT ![p] = [manifest |-> u, memory |-> None]]
      /\ Saves(store', u, NoDirty)
      /\ \E k \in Nat : UploadsSent(k) /\ k >= Len(Uploads)
  BY FlushIs
<1>2. FormatsShrink /\ Commits(u)
  BY FlushCommits
<1>3. NothingDeleted
  <2> DEFINE all == FlushMessages(daemons[p].manifest)
  <2>1. Send(all, Len(all))
    BY Zenon DEF Flush
  <2>2. Len(all) \in Nat
    BY <1>1, FlushTyped
  <2> HIDE DEF all
  <2> QED BY <2>1, <2>2, SentKeeps
<1>4. PICK k \in Nat : UploadsSent(k) /\ k >= Len(Uploads)
  BY <1>1
<1> HIDE DEF u
<1>5. config' = config /\ gc' = gc /\ u = FlushedManifest(p)
  BY <1>1 DEF commands, u
<1> QED BY <1>1, <1>2, <1>3, <1>4, <1>5, CommittedInStep

\* So does a flush that fails, before or after its superblock.
LEMMA FlushFailsInStep ==
  ASSUME TypesOK, Exclusive, SoundInv, Sound, InStep, NEW p \in Processes, FlushFails(p)
  PROVE  InStep'
<1> DEFINE u == FlushedManifest(p)
           m == daemons[p].manifest
           r == RecoverManifest(messages)
<1>1. /\ UNCHANGED <<config, mount_lock, commands>> /\ daemons[p] # None /\ DirtyIds # {}
      /\ m \in ManifestsOf(Size)
      /\ store' = store \/ Saves(store', u, store.dirty)
  BY FlushFailsIs
<1>2. FormatsShrink
  BY FlushFailsCommits
<1>3. PICK j \in Nat :
        /\ \/ daemons' = [daemons EXCEPT ![p] = [manifest |-> Uploaded(m, j, last_id), memory |-> None]]
           \/ daemons' = [daemons EXCEPT ![p] = None]
        /\ \/ Quiet /\ store' = store
           \/ Commits(u) /\ j = Len(Uploads)
  BY FlushFailsCommits
<1>4. NothingDeleted
  <2> DEFINE all == FlushMessages(m)
  <2>1. PICK k \in 0 .. Len(all) : Send(all, k)
    BY Zenon DEF FlushFails
  <2>2. k \in Nat
    BY <1>1, FlushTyped
  <2> HIDE DEF all
  <2> QED BY <2>1, <2>2, SentKeeps
<1>5. config' = config /\ gc' = gc
  BY <1>1 DEF commands
<1>6. CASE Quiet /\ store' = store
  <2> DEFINE v == Uploaded(m, j, last_id)
  <2>1. InForceIs(messages, messages') /\ Newest(messages) \in Nat
    BY <1>2, <1>6, QuietFine, InForceManifest
  <2>2. There(Size, messages', r)
    BY <1>4, StillThere DEF InStep
  <2>3. /\ v \in ManifestsOf(Size) /\ v.device_uuid = m.device_uuid
        /\ gc \cup Garbage(store.manifest) \subseteq v.garbage
        /\ \A o \in Objects : store.dirty[o] = 0 => Entry(v, o) = Entry(r, o)
    BY <1>1, UploadedServes
  <2>4. v.generation \in Nat /\ v.generation >= Newest(messages)
    BY <1>1, <2>1, FlushedIs, FlushAhead
  <2>5. DaemonInStep(Size, messages, store, gc, m)
    BY <1>1, DaemonServes
  <2> HIDE DEF v, m
  <2>6. DaemonInStep(Size, messages, store, gc, v)
    <3>1. Agrees(Size, store, v, r)
      BY <2>3, ObjectsAre DEF Agrees
    <3>2. OwnedBy(messages, v) <=> OwnedBy(messages, m)
      BY <2>3 DEF OwnedBy
    <3>3. v.generation + 1 >= Newest(messages)
      BY <2>1, <2>4
    <3> HIDE DEF r
    <3> QED BY <2>3, <2>5, <3>1, <3>2, <3>3 DEF DaemonInStep, r
  <2>7. DaemonInStep(Size, messages', store', gc', v)
    <3>1. \A o \in Objects : store'.dirty[o] = 0 => store.dirty[o] = 0
      BY <1>6
    <3> QED BY <1>5, <1>6, <2>1, <2>6, <3>1, DaemonStaysInStep
  <2>8. \A q \in Running' : DaemonInStep(Size, messages', store', gc', daemons'[q].manifest)
    <3> SUFFICES ASSUME NEW q \in Running'
                 PROVE  DaemonInStep(Size, messages', store', gc', daemons'[q].manifest)
      OBVIOUS
    <3>1. CASE daemons' = [daemons EXCEPT ![p] = [manifest |-> v, memory |-> None]]
      <4>1. daemons'[q] = [manifest |-> v, memory |-> None]
        BY <1>1, <3>1, DaemonAlone
      <4>2. daemons'[q].manifest = v
        BY <4>1
      <4> QED BY <2>7, <4>2
    <3>2. CASE daemons' = [daemons EXCEPT ![p] = None]
      BY <1>1, <3>2, DaemonAlone
    <3> QED BY <1>3, <3>1, <3>2 DEF v
  <2>9. store'.manifest # None => SavedInStep(Size, messages', store', gc')
    <3>1. \A o \in Objects : store'.dirty[o] = 0 => store.dirty[o] = 0
      BY <1>6
    <3> QED BY <1>5, <1>6, <2>1, <3>1, SavedStaysInStep DEF InStep
  <2>10. Newest(messages') = Newest(messages) /\ RecoverManifest(messages') = r
    BY <2>1, SameView
  <2>11. /\ Ahead(Size, store', Newest(messages)) /\ Fresh(Size, store', r)
         /\ gc' \cup Garbage(store'.manifest) \subseteq Garbage(r)
    BY <1>5, <1>6 DEF InStep
  <2> HIDE DEF r
  <2> QED BY <1>5, <2>2, <2>8, <2>9, <2>10, <2>11, InStepFrom
<1>7. CASE Commits(u) /\ j = Len(Uploads)
  <2>1. \/ daemons' = [daemons EXCEPT ![p] = [manifest |-> u, memory |-> None]]
        \/ daemons' = [daemons EXCEPT ![p] = None]
    BY <1>3, <1>7 DEF FlushedManifest
  <2>2. \E k \in Nat : UploadsSent(k) /\ k >= Len(Uploads)
    <3>1. \E k, i \in Nat :
            /\ UploadsSent(k)
            /\ \/ Superblocks(messages') = Superblocks(messages)
               \/ k >= Len(Uploads)
      BY FlushFailsIs
    <3>2. Superblocks(messages') # Superblocks(messages)
      <4>1. Publishes(messages, last_id, messages', u)
        BY <1>7 DEF Commits
      <4> QED BY <4>1 DEF Publishes
    <3> QED BY <3>1, <3>2
  <2>3. PICK k \in Nat : UploadsSent(k) /\ k >= Len(Uploads)
    BY <2>2
  <2> HIDE DEF u, m, r
  <2>4. u = FlushedManifest(p)
    BY DEF u
  <2> QED BY <1>1, <1>2, <1>4, <1>5, <1>7, <2>1, <2>3, <2>4, CommittedInStep
<1> QED BY <1>3, <1>6, <1>7

\* So does every step of a daemon.
LEMMA DaemonKeepsInStep ==
  ASSUME TypesOK, Exclusive, SoundInv, Sound, ~Keeping, InStep, CountsOn,
         NEW p \in Processes, Daemon(p)
  PROVE  InStep'
<1>1. ~ServeLocal(p) /\ ~FlushLocal(p)
  <2>1. ~ServeLocal(p)
    BY Zenon DEF ServeLocal, Keeping
  <2>2. ~FlushLocal(p)
    <3> SUFFICES ASSUME FlushLocal(p) PROVE FALSE
      OBVIOUS
    <3>1. daemons[p] # None /\ daemons[p].memory # None
      BY FlushLocalIs
    <3> QED BY <3>1, DaemonHealthy
  <2> QED BY <2>1, <2>2
<1>2. Newest(messages) \in Nat
  BY InForceManifest
<1>3. CASE \E o \in Objects : Read(p, o) \/ \E v \in Value : Write(p, o, v)
  BY <1>2, <1>3, ReadInStep, WriteInStep
<1>4. CASE Serve(p) \/ Stop(p) \/ Flush(p) \/ FlushFails(p)
  BY <1>4, ServeInStep, StopInStep, FlushInStep, FlushFailsInStep
<1> QED BY <1>1, <1>3, <1>4, Zenon DEF Daemon

\* The first state is in step.
LEMMA InitInStep == Init => StepInv
<1> SUFFICES ASSUME Init PROVE InStep
  BY DEF StepInv
<1>1. /\ messages = [i \in {} |-> None] /\ store = NoStore /\ gc = {} /\ config \in Scenarios
      /\ store.manifest = None /\ store.dirty = NoDirty
  BY DEF Init, NoStore
<1>2. Superblocks(messages) = {} /\ Running = {}
  BY <1>1 DEF Superblocks, Init, Running
<1>3. RecoverManifest(messages) = None
  BY <1>2 DEF RecoverManifest, RecoverSuperblock
<1>4. \A o \in 0 .. Size - 1 : Entry(None, o).remote = 0
  BY ZeroIs
<1>5. \A o \in 0 .. Size - 1 : store.dirty[o] = 0
  BY <1>1, NothingStored, Sizes
<1>6. There(Size, messages, None) /\ Fresh(Size, store, None)
  BY <1>4 DEF There, Fresh
<1>7. Ahead(Size, store, Newest(messages))
  BY <1>5 DEF Ahead
<1>8. gc \cup Garbage(store.manifest) \subseteq Garbage(None)
  BY <1>1 DEF Garbage
<1> QED BY <1>1, <1>2, <1>3, <1>6, <1>7, <1>8 DEF InStep

\* Every step that counts on keeps the store in step.
LEMMA StepInvStep ==
  ASSUME TypesOK, Exclusive, SoundInv, StepInv, [Next]_vars, CountsOn
  PROVE  StepInv'
<1> SUFFICES ASSUME Sound', ~Keeping' PROVE InStep'
  BY DEF StepInv
<1>1. config' = config /\ Sound /\ ~Keeping
  BY ConfigKept DEF Keeping, Allowed
<1>2. InStep
  BY <1>1 DEF StepInv
<1>3. CASE Next
  BY <1>1, <1>2, <1>3, CommandInStep, DaemonKeepsInStep DEF Next
<1>4. CASE UNCHANGED vars
  <2>1. UNCHANGED <<config, messages, store, daemons, gc>>
    BY <1>4 DEF vars, remote, commands
  <2>2. Running' = Running
    BY <2>1, SameDaemons
  <2>3. Size' = Size
    BY <2>1 DEF Size
  <2> QED BY <1>2, <2>1, <2>2, <2>3 DEF InStep
<1> QED BY <1>3, <1>4

\* What the superblock in force names is there.
LEMMA RecoveryIs ==
  ASSUME TypesOK, SoundInv, StepInv
  PROVE  RecoveryComplete
<1> DEFINE i == RecoverSuperblock(messages)
           m == FetchManifest(messages, messages[i].encoding, messages[i].current)
           r == RecoverManifest(messages)
<1> SUFFICES ASSUME i # 0, Sound
             PROVE  /\ m # None
                    /\ \A k \in DOMAIN m.objects :
                         m.objects[k].remote # 0 => Fetches(messages, m.objects[k])
  BY DEF RecoveryComplete
<1>1. m = r /\ r \in ManifestsOf(Size)
  <2>1. ChannelType(Size, last_id, messages) /\ SuperblocksOK(Size, messages, last_id) /\ Size \in Nat
    BY ObjectsAre, ChannelHealthy DEF TypesOK
  <2>2. r = Named(messages, i) /\ r \in ManifestsOf(Size)
    BY <2>1, RemoteIs
  <2> QED BY <2>2 DEF Named
<1>2. r # None /\ DOMAIN r.objects = 1 .. Size
  BY <1>1, ManifestParts
<1> HIDE DEF m
<1> SUFFICES ASSUME NEW o \in Objects, Entry(r, o).remote # 0
             PROVE  Fetches(messages, Entry(r, o))
  <2>1. \A k \in 1 .. Size : k - 1 \in Objects /\ Entry(r, k - 1) = r.objects[k]
    <3> SUFFICES ASSUME NEW k \in 1 .. Size
                 PROVE  k - 1 \in Objects /\ Entry(r, k - 1) = r.objects[k]
      OBVIOUS
    <3> DEFINE o == k - 1
    <3>1. o \in Objects /\ o + 1 = k
      BY ObjectsAre
    <3> HIDE DEF o
    <3>2. Entry(r, o) = r.objects[o + 1]
      BY <1>1, <3>1, EntryIs DEF At
    <3> QED BY <3>1, <3>2 DEF o
  <2> QED BY <1>1, <1>2, <2>1
<1>3. CASE Keeping
  <2>1. Newest(messages) = 0
    <3>1. RecoverSuperblock(messages) \in Superblocks(messages)
          /\ Newest(messages) = Generation(messages, RecoverSuperblock(messages))
      BY NewestIs DEF TypesOK
    <3> QED BY <1>3, <3>1, ChannelHealthy
  <2>2. Entry(r, o) = Zero(o)
    BY <2>1, InForceManifest
  <2> QED BY <2>2, ZeroIs
<1>4. CASE ~Keeping
  <2>1. There(Size, messages, r)
    BY <1>4 DEF StepInv, InStep
  <2> QED BY <2>1, ObjectsAre DEF There
<1> QED BY <1>3, <1>4

\* The store stays in step where every start counts on.
LEMMA StepHolds == Spec /\ StartsCountOn => []StepInv
<1>1. TypesOK /\ Exclusive /\ SoundInv /\ StepInv /\ [Next]_vars /\ [CountsOn]_vars => StepInv'
  <2>1. CASE CountsOn
    BY <2>1, StepInvStep
  <2>2. CASE UNCHANGED vars
    <3> SUFFICES ASSUME TypesOK, StepInv PROVE StepInv'
      OBVIOUS
    <3>1. UNCHANGED <<config, messages, store, daemons, gc>>
      BY <2>2 DEF vars, remote, commands
    <3>2. Running' = Running
      BY <3>1, SameDaemons
    <3>3. Size' = Size /\ Sound' = Sound /\ Keeping' = Keeping
      BY <3>1 DEF Size, Sound, Keeping, Allowed
    <3> QED BY <3>1, <3>2, <3>3 DEF StepInv, InStep
  <2> QED BY <2>1, <2>2
<1>2. StartsCountOn => [][CountsOn]_vars
  BY PTL DEF StartsCountOn, CountsOn
<1> QED BY <1>1, <1>2, InitInStep, LifeHolds, PTL DEF Spec, LifeInv

\* The superblock in force can be recovered in full, its tree from the leaves and every object
\* it names, after failed commits, failed formats and garbage collection: gc deletes only what
\* the manifest in force lists as garbage, and that is nothing a manifest still names.  Under
\* StartsCountOn, without which a daemon's next flush may be behind the channel's superblock.
THEOREM RecoveryHolds == Spec /\ StartsCountOn => []RecoveryComplete
<1> QED BY StepHolds, LifeHolds, RecoveryIs, PTL DEF LifeInv

-----------------------------------------------------------------------------
(* What the device holds *)

\* The content of object o, when entry e is the manifest's.
Val(e) == IF e.remote = 0 THEN 0 ELSE e.payload

Held(st, m, o) == IF st.dirty[o] # 0 THEN st.files[<<o, st.dirty[o]>>] ELSE Val(Entry(m, o))

\* Of z objects, every clean one of m can be read.
Served(z, st, m, from) ==
  \A o \in 0 .. z - 1 :
    st.dirty[o] = 0 /\ Entry(m, o).remote # 0 =>
      IF <<o, Entry(m, o).generation>> \in DOMAIN st.files
      THEN st.files[<<o, Entry(m, o).generation>>] = Entry(m, o).payload
      ELSE Fetches(from, Entry(m, o))

\* The manifest in force, and the messages it is served from.
InForceNow == InForce(messages, store, daemons)

ServedNow == ServedFrom(messages, daemons)

\* The manifest in force is a daemon's, the saved one, or the one on the channel.
LEMMA InForceNowIs ==
  ASSUME TypesOK, Exclusive
  PROVE  \/ \E p \in Running : /\ daemons[p] # None /\ InForceNow = daemons[p].manifest
                               /\ ServedNow = Reachable(messages, daemons[p].memory)
         \/ /\ Running = {} /\ store.manifest # None
            /\ InForceNow = store.manifest /\ ServedNow = messages
         \/ /\ Running = {} /\ store.manifest = None
            /\ InForceNow = RecoverManifest(messages) /\ ServedNow = messages
<1>1. CASE \E p \in Processes : daemons[p] # None
  <2> DEFINE p == CHOOSE p \in Processes : daemons[p] # None
  <2>1. p \in Processes /\ daemons[p] # None
    BY <1>1
  <2>2. InForceNow = daemons[p].manifest /\ ServedNow = Reachable(messages, daemons[p].memory)
    BY <1>1 DEF InForceNow, ServedNow, InForce, ServedFrom
  <2> HIDE DEF p
  <2> QED BY <2>1, <2>2 DEF Running
<1>2. CASE ~ \E p \in Processes : daemons[p] # None
  <2>1. Running = {}
    BY <1>2 DEF Running
  <2>2. ServedNow = messages
    BY <1>2 DEF ServedNow, ServedFrom
  <2>3. InForceNow = IF store.manifest # None THEN store.manifest ELSE RecoverManifest(messages)
    BY <1>2 DEF InForceNow, InForce
  <2> QED BY <2>1, <2>2, <2>3
<1> QED BY <1>1, <1>2

\* It can be served, in a sound scenario.
LEMMA ServedIs ==
  ASSUME TypesOK, Exclusive, SoundInv, StepInv, Sound
  PROVE  /\ InForceNow \in ManifestsOf(Size) \cup {None}
         /\ Served(Size, store, InForceNow, ServedNow)
<1> DEFINE r == RecoverManifest(messages)
<1>1. InForceNow \in ManifestsOf(Size) \cup {None}
  BY InForceNowIs, DaemonIs, StoreFields, InForceManifest DEF Running
<1>2. ASSUME Keeping, NEW m \in ManifestsOf(Size), FineNow(m)
      PROVE  Served(Size, store, m, ServedNow)
  <2>1. Cached(Size, store, m)
    BY <1>2 DEF FineNow, Fine, Keeping, Allowed, Size
  <2>2. \A o \in Objects : Entry(m, o) = At(m, o)
    BY EntryIs
  <2> QED BY <2>1, <2>2, ObjectsAre DEF Served, Cached
<1>3. ASSUME ~Keeping, NEW m, Agrees(Size, store, m, r)
      PROVE  Served(Size, store, m, messages)
  <2>1. There(Size, messages, r) /\ Fresh(Size, store, r)
    BY <1>3 DEF StepInv, InStep
  <2> HIDE DEF r
  <2> QED BY <1>3, <2>1 DEF There, Fresh, Agrees, Served
<1>4. ASSUME NEW m, \A o \in Objects : Entry(m, o) = Zero(o)
      PROVE  Served(Size, store, m, ServedNow)
  BY <1>4, ObjectsAre, ZeroIs DEF Served
<1>5. ASSUME NEW p \in Running, daemons[p] # None, InForceNow = daemons[p].manifest,
             ServedNow = Reachable(messages, daemons[p].memory)
      PROVE  Served(Size, store, InForceNow, ServedNow)
  <2>1. p \in Processes
    BY DEF Running
  <2>2. CASE Keeping
    BY <1>2, <1>5, <2>1, <2>2, DaemonIs, DaemonHealthy
  <2>3. CASE ~Keeping
    <3>1. ServedNow = messages
      BY <1>5, <2>1, <2>3, DaemonHealthy DEF Reachable
    <3>2. Agrees(Size, store, daemons[p].manifest, r)
      BY <2>3 DEF StepInv, InStep, DaemonInStep
    <3> QED BY <1>3, <1>5, <2>3, <3>1, <3>2
  <2> QED BY <2>2, <2>3
<1>6. CASE Running = {} /\ store.manifest # None /\ InForceNow = store.manifest /\ ServedNow = messages
  <2>1. CASE Keeping
    <3>1. FineNow(store.manifest) /\ store.manifest \in ManifestsOf(Size)
      BY <1>6, StoreFields DEF SoundInv, Healthy, FineNow
    <3> QED BY <1>2, <1>6, <2>1, <3>1
  <2>2. CASE ~Keeping
    <3>1. SavedInStep(Size, messages, store, gc) /\ store.manifest \in ManifestsOf(Size)
      BY <1>6, <2>2, StoreFields DEF StepInv, InStep
    <3>2. CASE OwnedBy(messages, store.manifest)
      BY <1>3, <1>6, <2>2, <3>1, <3>2 DEF SavedInStep
    <3>3. CASE ~OwnedBy(messages, store.manifest)
      <4>1. \A o \in Objects : Entry(store.manifest, o) = Zero(o)
        BY <3>1, <3>3, EmptyEntries DEF SavedInStep
      <4> QED BY <1>1, <1>4, <1>6, <4>1
    <3> QED BY <3>2, <3>3
  <2> QED BY <2>1, <2>2
<1>7. CASE Running = {} /\ store.manifest = None /\ InForceNow = r /\ ServedNow = messages
  <2>1. CASE Keeping
    <3>1. Newest(messages) = 0
      <4>1. RecoverSuperblock(messages) # 0 =>
              /\ RecoverSuperblock(messages) \in Superblocks(messages)
              /\ Newest(messages) = Generation(messages, RecoverSuperblock(messages))
        BY NewestIs DEF TypesOK
      <4> QED BY <2>1, <4>1, ChannelHealthy DEF Newest
    <3> QED BY <1>1, <1>4, <1>7, <3>1, InForceManifest
  <2>2. CASE ~Keeping
    <3>1. Agrees(Size, store, r, r)
      BY DEF Agrees
    <3> QED BY <1>1, <1>3, <1>7, <2>2, <3>1
  <2> QED BY <2>1, <2>2
<1> HIDE DEF r
<1> QED BY <1>1, <1>5, <1>6, <1>7, InForceNowIs DEF r

\* An entry of a manifest, or of none.
LEMMA EntryType ==
  ASSUME TypesOK, NEW m \in ManifestsOf(Size) \cup {None}, NEW o \in Units
  PROVE  /\ Entry(m, o).remote # 0 => o \in Objects
         /\ Val(Entry(m, o)) \in Value /\ o \in Nat
<1>1. o \in Nat /\ Size \in Nat
  BY Sizes DEF TypesOK
<1>2. CASE m = None
  BY <1>1, <1>2, ZeroIs, LifecycleAssumption DEF Val
<1>3. CASE m # None /\ o \in Objects
  <2>1. Entry(m, o).payload \in Value
    BY <1>3, EntryIs
  <2> QED BY <1>1, <1>3, <2>1, LifecycleAssumption DEF Val
<1>4. CASE m # None /\ o \notin Objects
  <2>1. o + 1 \notin DOMAIN m.objects
    <3>1. DOMAIN m.objects = 1 .. Size
      BY <1>4, ManifestParts
    <3> QED BY <1>1, <1>4, <3>1, ObjectsAre
  <2>2. Entry(m, o) = ManifestObject(o, 0, 0, 0)
    BY <2>1 DEF Entry
  <2> QED BY <1>1, <2>2, LifecycleAssumption DEF Val, ManifestObject
<1> QED BY <1>2, <1>3, <1>4

\* So the content is that of the dirty files, and of the manifest.
LEMMA ContentIs ==
  ASSUME TypesOK, Exclusive, SoundInv, StepInv, Sound
  PROVE  /\ InForceNow \in ManifestsOf(Size) \cup {None}
         /\ Content(messages, store, daemons) = [o \in Units |-> Held(store, InForceNow, o)]
         /\ \A o \in Units : Held(store, InForceNow, o) \in Value
<1> DEFINE m == InForceNow
<1>1. m \in ManifestsOf(Size) \cup {None} /\ Served(Size, store, m, ServedNow)
  BY ServedIs
<1>2. Content(messages, store, daemons) = [o \in Units |-> ObjectContent(store, m, ServedNow, o)]
  BY DEF Content, InForceNow, ServedNow
<1> HIDE DEF m
<1>3. ASSUME NEW o \in Units
      PROVE  ObjectContent(store, m, ServedNow, o) = Held(store, m, o) /\ Held(store, m, o) \in Value
  <2> DEFINE e == Entry(m, o)
             key == <<o, e.generation>>
  <2>1. /\ e.remote # 0 => o \in Objects
        /\ Val(e) \in Value
    BY <1>1, EntryType
  <2>2. ObjectContent(store, m, ServedNow, o) =
          CASE store.dirty[o] # 0 -> store.files[<<o, store.dirty[o]>>]
            [] store.dirty[o] = 0 /\ e.remote = 0 -> 0
            [] store.dirty[o] = 0 /\ e.remote # 0 /\ key \in DOMAIN store.files ->
                 IF store.files[key] = e.payload THEN e.payload ELSE None
            [] OTHER -> Fetched(ServedNow, e)
    BY DEF ObjectContent
  <2>3. Held(store, m, o) = IF store.dirty[o] # 0 THEN store.files[<<o, store.dirty[o]>>] ELSE Val(e)
    BY DEF Held
  <2>4. store.dirty[o] = 0 /\ e.remote # 0 =>
          IF key \in DOMAIN store.files
          THEN store.files[key] = e.payload
          ELSE Fetches(ServedNow, e)
    BY <1>1, <2>1, ObjectsAre DEF Served
  <2>5. store.dirty[o] # 0 => store.files[<<o, store.dirty[o]>>] \in Value
    BY StoreFields DEF TypesOK
  <2> HIDE DEF e, key
  <2>6. CASE store.dirty[o] # 0
    BY <2>2, <2>3, <2>5, <2>6
  <2>7. CASE store.dirty[o] = 0 /\ e.remote = 0
    BY <2>1, <2>2, <2>3, <2>7 DEF Val
  <2>8. CASE store.dirty[o] = 0 /\ e.remote # 0 /\ key \in DOMAIN store.files
    BY <2>1, <2>2, <2>3, <2>4, <2>8 DEF Val
  <2>9. CASE store.dirty[o] = 0 /\ e.remote # 0 /\ key \notin DOMAIN store.files
    BY <2>1, <2>2, <2>3, <2>4, <2>9 DEF Val, Fetched
  <2> QED BY <2>6, <2>7, <2>8, <2>9
<1> QED BY <1>1, <1>2, <1>3 DEF m

\* The variables of the view show the content.
Viewed == disk = Content(messages, store, daemons) /\ durable = Durable(messages)

\* The view shows the content.
LEMMA ViewHolds == ViewSpec => []Viewed
<1>1. Viewed /\ [ViewNext]_<<vars, disk, durable>> => Viewed'
  <2> SUFFICES ASSUME Viewed, [ViewNext]_<<vars, disk, durable>> PROVE Viewed'
    OBVIOUS
  <2>1. CASE ViewNext
    BY <2>1, Zenon DEF ViewNext, Viewed
  <2>2. CASE UNCHANGED <<vars, disk, durable>>
    <3>1. UNCHANGED <<messages, store, daemons, disk, durable>>
      BY <2>2 DEF vars, remote
    <3> QED BY <3>1 DEF Viewed
  <2> QED BY <2>1, <2>2
<1>2. ViewInit => Viewed
  BY Zenon DEF ViewInit, Viewed
<1> QED BY <1>1, <1>2, PTL DEF ViewSpec

\* What is in step can be read.
LEMMA ReadableIs ==
  ASSUME TypesOK, Exclusive, SoundInv, StepInv, Viewed
  PROVE  Readable
<1> SUFFICES ASSUME Sound, NEW o \in Objects PROVE disk[o] # None
  BY DEF Readable
<1>1. o \in Units
  BY ObjectsAre
<1>2. disk[o] = Held(store, InForceNow, o) /\ Held(store, InForceNow, o) \in Value
  BY <1>1, ContentIs DEF Viewed
<1> QED BY <1>2, LifecycleAssumption

\* Every object of the device can be read, from its dirty file, its cache file or its message:
\* no cache file of another life of the device stands under the generation of an entry, and
\* gc deletes no message that an entry names.  Under StartsCountOn, as RecoveryHolds.
THEOREM ReadableHolds == ViewSpec /\ StartsCountOn => []Readable
<1> QED BY StepHolds, LifeHolds, ViewHolds, ViewsAreSteps, ReadableIs, PTL DEF LifeInv

-----------------------------------------------------------------------------
(* One fault *)

\* At most one commit of a scenario fails.
FewFaults == \A s \in Scenarios : s.budget.faults <= 1

\* What was saved for the device in force is at most a generation behind.
Near(ms, m) == m # None /\ OwnedBy(ms, m) => Newest(ms) <= m.generation + 1

\* Before the fault, none is behind, and no row is ahead of the next generation.
Even(z, ms, st) ==
  /\ \A o \in 0 .. z - 1 : st.dirty[o] <= Newest(ms) + 1
  /\ st.manifest # None /\ OwnedBy(ms, st.manifest) => st.manifest.generation = Newest(ms)

\* The saved manifest is near, and even while the fault is left.
Faults ==
  /\ Near(messages, store.manifest)
  /\ budget.faults > 0 =>
       /\ Even(Size, messages, store)
       /\ \A p \in Running : daemons[p].manifest.generation = Newest(messages)

\* The invariant that one fault keeps.
FaultInv ==
  /\ budget.faults <= 1
  /\ Sound /\ ~Keeping => Faults

\* Where the saved manifest is at most a generation behind, a start counts on.
LEMMA FaultsCountOn ==
  ASSUME TypesOK, SoundInv, FaultInv
  PROVE  CountsOn
<1> SUFFICES ASSUME NEW p \in Processes, Sound, Serve(p), store.manifest # None,
                    NEW i \in Superblocks(messages)
             PROVE  Generation(messages, i) <= store.manifest.generation + 1
  BY DEF CountsOn
<1>1. /\ Allowed("serve --backend telegram")
      /\ store'.manifest = store.manifest
      /\ RecoverSuperblock(messages) # 0 =>
           messages[RecoverSuperblock(messages)].device_uuid = store.manifest.device_uuid
  BY ServeIs
<1>2. ~Keeping
  BY <1>1 DEF Sound, OnChannel, Keeping, Allowed
<1>3. Newest(messages) <= store.manifest.generation + 1
  BY <1>1, <1>2 DEF FaultInv, Faults, Near, OwnedBy
<1>4. Generation(messages, i) <= Newest(messages) /\ Newest(messages) \in Nat
      /\ Generation(messages, i) \in Nat
  BY NewestIs, SuperblockType DEF TypesOK
<1>5. store.manifest.generation \in Nat
  BY StoreFields, ManifestParts
<1> QED BY <1>3, <1>4, <1>5

\* A step that commits nothing, saves no other manifest, and starts no daemon.
LEMMA FaultsKept ==
  ASSUME TypesOK, Faults, config' = config, InForceIs(messages, messages'),
         budget'.faults > 0 => budget.faults > 0,
         store'.manifest = store.manifest,
         \A o \in Objects : store'.dirty[o] <= Newest(messages) + 1 \/ store'.dirty[o] = store.dirty[o],
         daemons' = daemons
  PROVE  Faults'
<1>1. /\ Newest(messages') = Newest(messages)
      /\ \A m : OwnedBy(messages', m) <=> OwnedBy(messages, m)
  BY SameView
<1>2. Near(messages', store'.manifest)
  BY <1>1 DEF Faults, Near
<1>3. ASSUME budget'.faults > 0
      PROVE  /\ Even(Size, messages', store')
             /\ \A p \in Running' : daemons'[p].manifest.generation = Newest(messages')
  <2>1. Even(Size, messages, store) /\ \A p \in Running : daemons[p].manifest.generation = Newest(messages)
    BY <1>3 DEF Faults
  <2>2. Even(Size, messages', store')
    BY <1>1, <2>1, ObjectsAre DEF Even
  <2> QED BY <1>1, <2>1, <2>2, SameDaemons
<1> QED BY <1>2, <1>3 DEF Faults, Size

\* A step after which what is saved, if anything, is of the generation in force, and at
\* most one daemon runs.
LEMMA FaultsEven ==
  ASSUME TypesOK, config' = config, Newest(messages') \in Nat,
         store'.manifest # None /\ OwnedBy(messages', store'.manifest) =>
           store'.manifest.generation = Newest(messages'),
         budget'.faults > 0 =>
           /\ \A o \in Objects : store'.dirty[o] <= Newest(messages') + 1
           /\ \A p \in Running' : daemons'[p].manifest.generation = Newest(messages')
  PROVE  Faults'
<1>1. Near(messages', store'.manifest)
  BY DEF Near
<1>2. budget'.faults > 0 => Even(Size, messages', store')
  BY ObjectsAre DEF Even
<1> QED BY <1>1, <1>2 DEF Faults, Size

\* The fault itself.
LEMMA FaultsBehind ==
  ASSUME budget'.faults <= 0, budget'.faults \in Nat, Near(messages', store'.manifest)
  PROVE  Faults'
<1>1. ~(budget'.faults > 0)
  OBVIOUS
<1> QED BY <1>1 DEF Faults

\* The commands keep it near.
LEMMA CommandFaults ==
  ASSUME TypesOK, Exclusive, SoundInv, Sound, ~Keeping, InStep, Faults, budget.faults <= 1, Command
  PROVE  Faults' /\ budget'.faults <= 1
<1> DEFINE r == RecoverManifest(messages)
<1>1. ASSUME UNCHANGED remote PROVE InForceIs(messages, messages')
  BY <1>1 DEF remote, InForceIs
<1>2. CASE OpenStore
  <2>1. store' = Opened /\ UNCHANGED <<config, remote, mount_lock, daemons, commands, budget>>
    BY <1>2, Zenon DEF OpenStore
  <2>2. Saves(store', store.manifest, store.dirty)
    BY <2>1, SavedOpened
  <2>3. store'.manifest = store.manifest /\ store'.dirty = store.dirty
    BY <2>2 DEF Saves
  <2> QED BY <1>1, <2>1, <2>3, FaultsKept
<1>3. CASE RemoveLock \/ RecoverFetch \/ GcFails \/ GcStart
  <2>1. UNCHANGED <<config, remote, store, daemons, budget>>
    BY <1>3, Zenon DEF RemoveLock, RecoverFetch, GcFails, GcStart
  <2> QED BY <1>1, <2>1, FaultsKept
<1>4. CASE LoseMachine
  <2>1. /\ store' = NoStore /\ daemons' = [p \in Processes |-> None] /\ Spend("losses")
        /\ UNCHANGED <<config, remote>>
    BY <1>4, Zenon DEF LoseMachine
  <2>2. store'.manifest = None /\ store'.dirty = NoDirty /\ Running' = {}
    BY <2>1 DEF NoStore, Running
  <2>3. \A o \in Objects : store'.dirty[o] = 0
    BY <2>2, NothingStored, ObjectsAre DEF TypesOK
  <2>4. Newest(messages') \in Nat /\ budget'.faults <= 1
    BY <1>1, <2>1, InForceManifest, SameView, BudgetIs DEF TypesOK
  <2> QED BY <2>1, <2>2, <2>3, <2>4, FaultsEven
<1>5. CASE \E force \in BOOLEAN : FormatFails(force)
  <2> DEFINE m == EmptyManifest(NewUuid, Size)
  <2>1. PICK force \in BOOLEAN : FormatFails(force)
    BY <1>5
  <2>2. /\ FormatsShrink /\ UNCHANGED <<config, mount_lock, daemons, commands>>
        /\ Saves(store', store.manifest, store.dirty)
        /\ budget.faults > 0 /\ budget'.faults = budget.faults - 1
        /\ Quiet \/ Commits(m)
    BY <2>1, FormatFailsCommits
  <2>3. m \in ManifestsOf(Size) /\ NewUuid \in Nat /\ budget.faults \in Nat
    BY FormatTyped, BudgetIs DEF TypesOK, NewUuid
  <2>4. budget'.faults <= 0 /\ budget'.faults \in Nat /\ budget'.faults <= 1
    BY <2>2, <2>3
  <2>5. store'.manifest = store.manifest
    BY <2>2 DEF Saves
  <2>6. CASE InForceIs(messages, messages')
    <3>1. Near(messages', store'.manifest)
      BY <2>5, <2>6, SameView DEF Faults, Near
    <3> QED BY <2>4, <3>1, FaultsBehind
  <2>7. CASE Newest(messages') = 0
    <3>1. store.manifest # None => store.manifest.generation \in Nat
      BY StoreFields, ManifestParts
    <3>2. Near(messages', store'.manifest)
      BY <2>5, <2>7, <3>1 DEF Near
    <3> QED BY <2>4, <3>2, FaultsBehind
  <2> QED BY <2>2, <2>3, <2>6, <2>7, EmptyInForce
<1>6. CASE \E force, local_only \in BOOLEAN : Format(force, local_only)
  <2> DEFINE m == EmptyManifest(NewUuid, Size)
  <2>1. PICK force \in BOOLEAN, local_only \in BOOLEAN : Format(force, local_only)
    BY <1>6
  <2>2. /\ FormatsShrink /\ Saves(store', m, store.dirty) /\ NewUuid \in Nat
        /\ (Quiet /\ UNCHANGED remote) \/ Commits(m)
    BY <2>1, FormatCommits
  <2>3. UNCHANGED <<config, mount_lock, daemons, commands>> /\ m \in ManifestsOf(Size) /\ Spend("formats")
    BY <2>1, FormatIs
  <2>4. budget'.faults = budget.faults /\ Newest(messages) \in Nat
    BY <2>3, BudgetIs, InForceManifest DEF TypesOK
  <2>5. m.generation = 0 /\ m.device_uuid = NewUuid
    <3> HIDE DEF NewUuid
    <3> QED BY <2>2, ObjectsAre, EmptyIs
  <2>6. store'.manifest = m /\ store'.dirty = store.dirty
    BY <2>2 DEF Saves
  <2>7. Newest(messages') = Newest(messages)
    BY <2>2, <2>3, EmptyInForce, SameView
  <2>8. OwnedBy(messages', m) => Newest(messages') = 0
    <3>1. CASE InForceIs(messages, messages')
      <4>1. OwnedBy(messages', m) <=> OwnedBy(messages, m)
        BY <3>1, SameView
      <4>2. OwnedBy(messages, m) => RecoverSuperblock(messages) = 0
        <5> SUFFICES ASSUME RecoverSuperblock(messages) # 0
                     PROVE  messages[RecoverSuperblock(messages)].device_uuid # m.device_uuid
          BY DEF OwnedBy
        <5>1. RecoverSuperblock(messages) \in Superblocks(messages)
          BY NewestIs DEF TypesOK
        <5>2. messages[RecoverSuperblock(messages)].device_uuid > NewUuid
          BY <5>1, ChannelHealthy DEF NewUuid
        <5> QED BY <2>2, <2>5, <5>2
      <4>3. RecoverSuperblock(messages) = 0 => Newest(messages) = 0
        BY DEF Newest
      <4> QED BY <2>7, <4>1, <4>2, <4>3
    <3>2. CASE Newest(messages') = 0
      BY <3>2
    <3> QED BY <2>2, <2>3, <3>1, <3>2, EmptyInForce
  <2>9. ASSUME budget'.faults > 0
        PROVE  /\ \A o \in Objects : store'.dirty[o] <= Newest(messages') + 1
               /\ \A p \in Running' : daemons'[p].manifest.generation = Newest(messages')
    BY <2>3, <2>4, <2>6, <2>7, <2>9, SameDaemons, ObjectsAre DEF Faults, Even
  <2> HIDE DEF m
  <2> QED BY <2>3, <2>4, <2>5, <2>6, <2>7, <2>8, <2>9, FaultsEven
<1>7. CASE RecoverReplace
  <2>1. /\ fetched # None /\ store' = Replaced(fetched)
        /\ UNCHANGED <<config, remote, mount_lock, daemons, gc, budget>>
    BY <1>7, Zenon DEF RecoverReplace
  <2>2. fetched = r /\ fetched \in ManifestsOf(Size) /\ Running = {}
    BY <2>1 DEF SoundInv, Healthy, TypesOK
  <2>3. store'.manifest = r /\ store'.dirty = store.dirty
    BY <2>1, <2>2, SavedReplaced DEF Saves
  <2>4. Newest(messages') = Newest(messages)
    BY <1>1, <2>1, SameView
  <2>5. r.generation = Newest(messages) /\ Newest(messages) \in Nat
    BY <2>1, <2>2, InForceManifest
  <2>6. Running' = {} /\ budget' = budget /\ config' = config
    BY <2>1, <2>2, SameDaemons
  <2>7. budget'.faults > 0 => \A o \in Objects : store'.dirty[o] <= Newest(messages') + 1
    BY <2>3, <2>4, <2>6, ObjectsAre DEF Faults, Even
  <2> HIDE DEF r
  <2> QED BY <2>3, <2>4, <2>5, <2>6, <2>7, FaultsEven
<1>8. CASE \E id \in gc : GcDelete(id)
  <2>1. PICK id \in gc : GcDelete(id)
    BY <1>8
  <2>2. UNCHANGED <<config, store, mount_lock, daemons, fetched, budget>>
    BY <2>1, Zenon DEF GcDelete
  <2>3. id \in DOMAIN messages => messages[id].kind = "object"
    <3>1. GcFine(config, messages, last_id, gc)
      BY DEF SoundInv, Healthy
    <3> QED BY <2>1, <3>1 DEF GcFine, IsObject
  <2>4. Quiet /\ FormatsShrink
    BY <2>1, <2>2, <2>3, DeletedGrows, SameBudget DEF Quiet
  <2>5. InForceIs(messages, messages')
    BY <2>4, QuietFine
  <2> QED BY <2>2, <2>5, FaultsKept
<1>9. ~(Rollback \/ RollbackFails \/ FlushCommand)
  <2>1. ~Allowed("recover") /\ ~Allowed("flush")
    BY DEF Sound, Unsound, Allowed
  <2> QED BY <2>1, Zenon DEF Rollback, RollbackFails, FlushCommand
<1> QED BY <1>2, <1>3, <1>4, <1>5, <1>6, <1>7, <1>8, <1>9, Zenon DEF Command

\* So do the daemons.
LEMMA DaemonFaults ==
  ASSUME TypesOK, Exclusive, SoundInv, Sound, ~Keeping, InStep, Faults, budget.faults <= 1,
         NEW p \in Processes, Daemon(p)
  PROVE  Faults' /\ budget'.faults <= 1
<1> DEFINE r == RecoverManifest(messages)
           d == daemons[p].manifest
           u == FlushedManifest(p)
<1>1. ~ServeLocal(p) /\ ~FlushLocal(p)
  <2>1. ~ServeLocal(p)
    BY Zenon DEF ServeLocal, Keeping
  <2>2. ~FlushLocal(p)
    <3> SUFFICES ASSUME FlushLocal(p) PROVE FALSE
      OBVIOUS
    <3>1. daemons[p] # None /\ daemons[p].memory # None
      BY FlushLocalIs
    <3> QED BY <3>1, DaemonHealthy
  <2> QED BY <2>1, <2>2
<1>2. Newest(messages) \in Nat /\ budget.faults \in Nat
  BY InForceManifest, BudgetIs DEF TypesOK
<1>3. ASSUME UNCHANGED remote
      PROVE  InForceIs(messages, messages') /\ Newest(messages') = Newest(messages)
             /\ \A m : OwnedBy(messages', m) <=> OwnedBy(messages, m)
  <2>1. InForceIs(messages, messages')
    BY <1>3 DEF remote, InForceIs
  <2> QED BY <2>1, SameView
<1>4. CASE Serve(p)
  <2> DEFINE m == store'.manifest
  <2>1. /\ ~mount_lock /\ UNCHANGED <<config, remote, commands, budget>>
        /\ m \in ManifestsOf(Size) /\ Saves(store', m, store.dirty)
        /\ daemons' = [daemons EXCEPT ![p] = [manifest |-> m, memory |-> None]]
        /\ store.manifest # None =>
             /\ m = store.manifest
             /\ RecoverSuperblock(messages) # 0 =>
                  messages[RecoverSuperblock(messages)].device_uuid = store.manifest.device_uuid
        /\ store.manifest = None => r # None /\ m = r
    BY <1>4, ServeIs
  <2>2. Running = {}
    BY <2>1 DEF Exclusive
  <2>3. store'.dirty = store.dirty
    BY <2>1 DEF Saves
  <2>4. m # None /\ OwnedBy(messages, m)
    <3>1. m # None
      BY <2>1, ManifestParts
    <3>2. r # None => OwnedBy(messages, r)
      BY InForceManifest
    <3> QED BY <2>1, <3>1, <3>2 DEF OwnedBy
  <2>5. Near(messages, m)
    <3>1. CASE store.manifest # None
      BY <2>1, <3>1 DEF Faults
    <3>2. CASE store.manifest = None
      BY <1>2, <2>1, <3>2, InForceManifest DEF Near
    <3> QED BY <3>1, <3>2
  <2>6. budget.faults > 0 => m.generation = Newest(messages)
    <3>1. CASE store.manifest # None
      BY <2>1, <2>4, <3>1 DEF Faults, Even
    <3>2. CASE store.manifest = None
      BY <2>1, <3>2, InForceManifest
    <3> QED BY <3>1, <3>2
  <2>7. \A q \in Running' : daemons'[q].manifest = m
    <3> SUFFICES ASSUME NEW q \in Running' PROVE daemons'[q].manifest = m
      OBVIOUS
    <3>1. daemons'[q] = [manifest |-> m, memory |-> None]
      BY <2>1, <2>2, DaemonAlone
    <3> QED BY <3>1
  <2> HIDE DEF m, r
  <2>8. store'.manifest = m
    BY DEF m
  <2>9. budget' = budget /\ config' = config
    BY <2>1
  <2>10. Near(messages', store'.manifest)
    BY <1>3, <2>1, <2>5, <2>8 DEF Near
  <2>11. budget'.faults > 0 =>
           /\ Even(Size, messages', store')
           /\ \A q \in Running' : daemons'[q].manifest.generation = Newest(messages')
    <3>1. budget.faults > 0 => \A o \in 0 .. Size - 1 : store.dirty[o] <= Newest(messages) + 1
      BY DEF Faults, Even
    <3> QED BY <1>3, <2>1, <2>3, <2>6, <2>7, <2>8, <2>9, <3>1 DEF Even
  <2> QED BY <2>9, <2>10, <2>11 DEF Faults, Size
<1>5. CASE Stop(p)
  <2>1. /\ daemons[p] # None /\ daemons' = [daemons EXCEPT ![p] = None]
        /\ UNCHANGED <<config, remote, store, commands, budget>>
    BY <1>5, Zenon DEF Stop
  <2>2. Running' = {}
    BY <2>1, DaemonAlone
  <2>3. Near(messages', store'.manifest)
    BY <1>3, <2>1 DEF Near, Faults
  <2>4. budget'.faults > 0 => Even(Size, messages', store')
    BY <1>3, <2>1 DEF Even, Faults
  <2> QED BY <2>1, <2>2, <2>3, <2>4 DEF Faults, Size
<1>6. CASE \E o \in Objects, v \in Value : Write(p, o, v)
  <2>1. PICK o \in Objects, v \in Value : Write(p, o, v)
    BY <1>6
  <2>2. /\ daemons[p] # None /\ store'.manifest = store.manifest
        /\ store'.dirty = [store.dirty EXCEPT ![o] = d.generation + 1]
    BY <2>1, WriteIs
  <2>3. UNCHANGED <<config, remote, mount_lock, daemons, commands>> /\ Spend("writes")
    BY <2>1, Zenon DEF Write
  <2>4. budget'.faults = budget.faults
    BY <2>3, BudgetIs DEF TypesOK
  <2>5. p \in Running
    BY <2>2 DEF Running
  <2>6. CASE budget.faults > 0
    <3>1. d.generation + 1 <= Newest(messages) + 1
      BY <1>2, <2>5, <2>6 DEF Faults
    <3>2. \A q \in Objects : store'.dirty[q] <= Newest(messages) + 1 \/ store'.dirty[q] = store.dirty[q]
      <4> HIDE DEF d
      <4> QED BY <2>2, <3>1, ObjectsAre
    <3> QED BY <1>3, <2>2, <2>3, <2>4, <3>2, FaultsKept
  <2>7. CASE ~(budget.faults > 0)
    <3>1. Near(messages', store'.manifest)
      BY <1>3, <2>2, <2>3 DEF Near, Faults
    <3> QED BY <1>2, <2>4, <2>7, <3>1 DEF Faults
  <2> QED BY <2>6, <2>7
<1>7. CASE \E o \in Objects : Read(p, o)
  <2>1. PICK o \in Objects : Read(p, o)
    BY <1>7
  <2>2. store'.manifest = store.manifest /\ store'.dirty = store.dirty
    BY <2>1, ReadIs
  <2>3. UNCHANGED <<config, remote, mount_lock, daemons, commands, budget>>
    BY <2>1, Zenon DEF Read
  <2> QED BY <1>3, <2>2, <2>3, FaultsKept
<1>8. CASE Flush(p)
  <2>1. /\ UNCHANGED <<config, mount_lock, commands>> /\ Spend("flushes")
        /\ daemons[p] # None /\ DirtyIds # {}
        /\ u \in ManifestsOf(Size)
        /\ daemons' = [daemons EXCEPT ![p] = [manifest |-> u, memory |-> None]]
        /\ Saves(store', u, NoDirty)
    BY <1>8, FlushIs
  <2>2. FormatsShrink /\ Commits(u)
    BY <1>8, FlushCommits
  <2>3. u.generation \in Nat /\ u.generation >= Newest(messages)
    <3>1. Len(Uploads) \in Nat
      BY UploadsAre, Positions
    <3>2. u.generation = NewGeneration(d)
      BY <2>1, <3>1, FlushedIs DEF FlushedManifest
    <3> QED BY <1>2, <2>1, <3>2, FlushAhead
  <2>4. budget'.faults = budget.faults
    BY <2>1, BudgetIs DEF TypesOK
  <2> HIDE DEF u
  <2>5. Newest(messages') = u.generation
    BY <2>1, <2>2, <2>3, CommitsFine
  <2>6. store'.manifest = u /\ \A o \in Objects : store'.dirty[o] = 0
    BY <2>1, NothingStored, ObjectsAre DEF Saves, TypesOK
  <2>7. \A q \in Running' : daemons'[q].manifest = u
    <3> SUFFICES ASSUME NEW q \in Running' PROVE daemons'[q].manifest = u
      OBVIOUS
    <3>1. daemons'[q] = [manifest |-> u, memory |-> None]
      BY <2>1, DaemonAlone
    <3> QED BY <3>1
  <2> QED BY <2>1, <2>3, <2>4, <2>5, <2>6, <2>7, FaultsEven
<1>9. CASE FlushFails(p)
  <2>1. /\ UNCHANGED <<config, mount_lock, commands>> /\ daemons[p] # None /\ DirtyIds # {}
        /\ budget.flushes > 0 /\ budget.faults > 0
        /\ budget' = [budget EXCEPT !.flushes = @ - 1, !.faults = @ - 1]
        /\ d \in ManifestsOf(Size) /\ u \in ManifestsOf(Size)
        /\ store' = store \/ Saves(store', u, store.dirty)
    BY <1>9, FlushFailsIs
  <2>2. FormatsShrink
    BY <1>9, FlushFailsCommits
  <2>3. \/ Quiet /\ store' = store
        \/ Commits(u)
    BY <1>9, FlushFailsCommits
  <2>4. budget'.faults = budget.faults - 1
    BY <2>1, BudgetIs DEF TypesOK
  <2>5. budget'.faults <= 0 /\ budget'.faults \in Nat /\ budget'.faults <= 1
    BY <1>2, <2>1, <2>4
  <2>6. u.generation \in Nat /\ u.generation >= Newest(messages)
        /\ u.generation <= Newest(messages) + 1 /\ u.device_uuid = d.device_uuid
    <3>1. Len(Uploads) \in Nat
      BY UploadsAre, Positions
    <3>2. u.generation = NewGeneration(d) /\ u.device_uuid = d.device_uuid
      BY <2>1, <3>1, FlushedIs DEF FlushedManifest
    <3>3. NewGeneration(d) <= Newest(messages) + 1
      <4>1. \E o \in Objects : store.dirty[o] = NewGeneration(d)
        BY <1>2, <2>1, FlushAhead
      <4>2. \A o \in Objects : store.dirty[o] <= Newest(messages) + 1
        BY <2>1, ObjectsAre DEF Faults, Even
      <4> QED BY <4>1, <4>2
    <3> QED BY <1>2, <2>1, <3>2, <3>3, FlushAhead
  <2>7. DaemonInStep(Size, messages, store, gc, d) /\ p \in Running
    BY <2>1, DaemonServes
  <2> HIDE DEF u, d
  <2>8. CASE Quiet /\ store' = store
    <3>1. Near(messages', store'.manifest)
      BY <2>2, <2>8, QuietFine, SameView DEF Near, Faults
    <3> QED BY <2>5, <3>1, FaultsBehind
  <2>9. CASE Commits(u)
    <3>1. /\ Newest(messages') = u.generation
          /\ RecoverSuperblock(messages') # 0
          /\ messages'[RecoverSuperblock(messages')].device_uuid = u.device_uuid
      BY <2>1, <2>2, <2>6, <2>9, CommitsFine
    <3>2. CASE store'.manifest = u
      BY <2>5, <2>6, <3>1, <3>2, FaultsBehind DEF Near
    <3>3. CASE store'.manifest = store.manifest
      <4> DEFINE s == store.manifest
      <4>1. s \in ManifestsOf(Size) /\ s # None /\ s.generation \in Nat
        <5>1. s # None
          BY <2>7 DEF Exclusive
        <5> QED BY <5>1, StoreFields, ManifestParts
      <4>2. ASSUME OwnedBy(messages', s) PROVE Newest(messages') <= s.generation + 1
        <5>1. s.device_uuid = d.device_uuid
          BY <2>6, <3>1, <4>2 DEF OwnedBy
        <5>2. CASE Newest(messages) = 0
          <6> HIDE DEF s
          <6> QED BY <2>6, <3>1, <4>1, <5>2
        <5>3. CASE Newest(messages) # 0
          <6>1. OwnedBy(messages, s)
            BY <1>2, <2>7, <5>1, <5>3 DEF DaemonInStep, OwnedBy
          <6>2. s.generation = Newest(messages)
            BY <2>1, <4>1, <6>1 DEF Faults, Even
          <6> HIDE DEF s
          <6> QED BY <2>6, <3>1, <6>2
        <5> QED BY <5>2, <5>3
      <4>3. Near(messages', store'.manifest)
        BY <3>3, <4>2 DEF Near
      <4> QED BY <2>5, <4>3, FaultsBehind
    <3> QED BY <2>1, <3>2, <3>3 DEF Saves
  <2> QED BY <2>3, <2>8, <2>9
<1> HIDE DEF r, d, u
<1> QED BY <1>1, <1>4, <1>5, <1>6, <1>7, <1>8, <1>9, Zenon DEF Daemon

\* The first state has all of the fault left.
LEMMA InitFaults == FewFaults /\ Init => FaultInv
<1> SUFFICES ASSUME FewFaults, Init PROVE FaultInv
  OBVIOUS
<1>1. config \in Scenarios /\ budget = config.budget /\ store = NoStore
      /\ store.manifest = None /\ store.dirty = NoDirty /\ Running = {}
  BY DEF Init, NoStore, Running
<1>2. budget.faults <= 1
  BY <1>1 DEF FewFaults
<1>3. TypesOK
  BY InitTypes
<1>4. Newest(messages) \in Nat
  BY <1>3, NewestIs DEF TypesOK
<1>5. Even(Size, messages, store)
  <2>1. \A o \in Objects : store.dirty[o] = 0
    BY <1>1, <1>3, NothingStored, ObjectsAre
  <2> QED BY <1>1, <1>3, <1>4, <2>1, ObjectsAre DEF Even
<1>6. Near(messages, store.manifest)
  BY <1>1 DEF Near
<1> QED BY <1>1, <1>2, <1>5, <1>6 DEF FaultInv, Faults

\* Faults are only ever spent.
LEMMA FaultsSpent ==
  ASSUME TypesOK, Next
  PROVE  budget'.faults <= budget.faults
<1> DEFINE Spends ==
      \/ budget' = budget \/ Spend("writes") \/ Spend("flushes") \/ Spend("losses")
      \/ Spend("rollbacks") \/ Spend("faults") \/ Spend("formats")
      \/ budget' = [budget EXCEPT !.flushes = @ - 1, !.faults = @ - 1]
      \/ budget' = [budget EXCEPT !.formats = @ - 1, !.faults = @ - 1]
<1>1. ASSUME Command PROVE Spends
  <2>1. CASE OpenStore \/ RemoveLock \/ LoseMachine
    BY <2>1, Zenon DEF OpenStore, RemoveLock, LoseMachine
  <2>2. CASE \E force \in BOOLEAN : FormatFails(force) \/ \E local_only \in BOOLEAN : Format(force, local_only)
    BY <2>2, Zenon DEF FormatFails, Format
  <2>3. CASE RecoverFetch \/ RecoverReplace \/ GcStart \/ GcFails \/ \E id \in gc : GcDelete(id)
    BY <2>3, Zenon DEF RecoverFetch, RecoverReplace, GcStart, GcFails, GcDelete
  <2>4. CASE Rollback \/ RollbackFails \/ FlushCommand
    BY <2>4, Zenon DEF Rollback, RollbackFails, FlushCommand
  <2> QED BY <1>1, <2>1, <2>2, <2>3, <2>4, Zenon DEF Command
<1>2. ASSUME NEW p \in Processes, Daemon(p) PROVE Spends
  <2>1. CASE Serve(p) \/ ServeLocal(p) \/ Stop(p)
    BY <2>1, Zenon DEF Serve, ServeLocal, Stop
  <2>2. CASE \E o \in Objects : Read(p, o) \/ \E v \in Value : Write(p, o, v)
    BY <2>2, Zenon DEF Read, Write
  <2>3. CASE Flush(p) \/ FlushFails(p) \/ FlushLocal(p)
    BY <2>3, Zenon DEF Flush, FlushFails, FlushLocal
  <2> QED BY <1>2, <2>1, <2>2, <2>3, Zenon DEF Daemon
<1>3. Spends
  BY <1>1, <1>2 DEF Next
<1>4. budget \in Budget
  BY DEF TypesOK
<1>5. budget.faults \in Nat /\ budget.formats \in Nat
  BY <1>4, BudgetIs
<1>6. Spend("writes") \/ Spend("flushes") \/ Spend("losses") \/ Spend("formats")
      => budget'.faults = budget.faults
  BY <1>4, BudgetIs
<1>7. Spend("rollbacks") => budget'.faults = budget.faults
  BY <1>4 DEF Spend, Budget
<1>8. Spend("faults") => budget'.faults = budget.faults - 1
  BY <1>4 DEF Spend, Budget
<1>9. ASSUME budget' = [budget EXCEPT !.flushes = @ - 1, !.faults = @ - 1]
      PROVE  budget'.faults = budget.faults - 1
  BY <1>4, <1>9 DEF Budget
<1>10. ASSUME budget' = [budget EXCEPT !.formats = @ - 1, !.faults = @ - 1]
       PROVE  budget'.faults = budget.faults - 1
  BY <1>4, <1>10 DEF Budget
<1>11. budget'.faults = budget.faults \/ budget'.faults = budget.faults - 1
  BY <1>3, <1>6, <1>7, <1>8, <1>9, <1>10
<1> QED BY <1>5, <1>11

\* Every step keeps it near.
LEMMA FaultStep ==
  ASSUME TypesOK, Exclusive, SoundInv, StepInv, FaultInv, [Next]_vars
  PROVE  FaultInv'
<1>1. config' = config /\ (Sound' <=> Sound) /\ (Keeping' <=> Keeping)
  BY ConfigKept DEF Keeping, Allowed
<1>2. CASE UNCHANGED vars
  <2>1. UNCHANGED <<config, messages, store, daemons, budget>>
    BY <1>2 DEF vars, remote
  <2>2. Running' = Running /\ Size' = Size
    BY <2>1, SameDaemons DEF Size
  <2> QED BY <1>1, <2>1, <2>2 DEF FaultInv, Faults
<1>3. CASE Next
  <2>1. CASE Sound /\ ~Keeping
    <3>1. InStep /\ Faults /\ budget.faults <= 1
      BY <2>1 DEF StepInv, FaultInv
    <3>2. Faults' /\ budget'.faults <= 1
      <4>1. CASE Command
        BY <2>1, <3>1, <4>1, CommandFaults
      <4>2. CASE \E p \in Processes : Daemon(p)
        <5>1. PICK p \in Processes : Daemon(p)
          BY <4>2
        <5> QED BY <2>1, <3>1, <5>1, DaemonFaults
      <4> QED BY <1>3, <4>1, <4>2 DEF Next
    <3> QED BY <3>2 DEF FaultInv
  <2>2. CASE ~(Sound /\ ~Keeping)
    <3>1. budget'.faults <= budget.faults
      BY <1>3, FaultsSpent
    <3>2. budget'.faults <= 1
      <4>1. budget.faults <= 1 /\ budget.faults \in Nat /\ budget'.faults \in Nat
        <5>1. TypesOK'
          BY TypesStep
        <5> QED BY <5>1 DEF TypesOK, Budget, FaultInv
      <4> QED BY <3>1, <4>1
    <3> QED BY <1>1, <2>2, <3>2 DEF FaultInv
  <2> QED BY <2>1, <2>2
<1> QED BY <1>2, <1>3

\* With one fault the store is in step in every state.
LEMMA FaultsHold ==
  ASSUME FewFaults
  PROVE  Spec => []StepInv /\ []FaultInv
<1> DEFINE Inv == TypesOK /\ Exclusive /\ SoundInv /\ StepInv /\ FaultInv
<1>1. Inv /\ [Next]_vars => Inv'
  <2>1. TypesOK /\ SoundInv /\ FaultInv => CountsOn
    BY FaultsCountOn
  <2> QED BY <2>1, TypesStep, ExclusiveStep, SoundStep, StepInvStep, FaultStep
<1>2. Init => Inv
  BY InitTypes, InitExclusive, InitSound, InitInStep, InitFaults
<1>3. Inv => StepInv /\ FaultInv
  OBVIOUS
<1> HIDE DEF Inv
<1> QED BY <1>1, <1>2, <1>3, PTL DEF Spec

\* One fault is not enough to leave a saved manifest two generations behind: a flush that
\* fails after its superblock was sent leaves it one behind, and the rows it did not clear
\* keep the next flush at the generation it reached.
THEOREM StartsHold ==
  ASSUME FewFaults
  PROVE  Spec => StartsCountOn
<1>1. TypesOK /\ SoundInv /\ FaultInv => CountsOn
  BY FaultsCountOn
<1>2. Spec => [][CountsOn]_vars
  BY <1>1, FaultsHold, LifeHolds, PTL DEF LifeInv
<1> QED BY <1>2, PTL DEF StartsCountOn, CountsOn

-----------------------------------------------------------------------------
(* The disk that an operator who uses no careless command sees *)

\* The manifest the clean objects are read from.
Base == IF Keeping THEN store.manifest ELSE RecoverManifest(messages)

\* What a careful operator's disk shows.
Shown ==
  /\ disk = [o \in Units |-> Held(store, Base, o)]
  /\ durable = [o \in Units |-> Val(Entry(RecoverManifest(messages), o))]

\* What the local backend keeps: nothing was flushed to the channel.
LEMMA NothingFlushed ==
  ASSUME TypesOK, SoundInv, Sound, Keeping
  PROVE  Newest(messages) = 0
<1>1. RecoverSuperblock(messages) # 0 =>
        /\ RecoverSuperblock(messages) \in Superblocks(messages)
        /\ Newest(messages) = Generation(messages, RecoverSuperblock(messages))
  BY NewestIs DEF TypesOK
<1> QED BY <1>1, ChannelHealthy DEF Newest

\* The manifests the view is read from.
LEMMA BaseIs ==
  ASSUME TypesOK
  PROVE  /\ Base \in ManifestsOf(Size) \cup {None}
         /\ RecoverManifest(messages) \in ManifestsOf(Size) \cup {None}
<1>1. RecoverManifest(messages) \in ManifestsOf(Size) \cup {None}
  BY RecoverManifestType, ObjectsAre DEF TypesOK
<1> QED BY <1>1, StoreFields DEF Base

\* Two manifests with the same entries of clean objects hold the same.
LEMMA SameHeld ==
  ASSUME TypesOK, NEW m \in ManifestsOf(Size) \cup {None}, NEW n \in ManifestsOf(Size) \cup {None},
         \A o \in Objects : store.dirty[o] = 0 => Val(Entry(m, o)) = Val(Entry(n, o)),
         NEW o \in Units
  PROVE  Held(store, m, o) = Held(store, n, o)
<1>1. CASE store.dirty[o] # 0
  BY <1>1 DEF Held
<1>2. CASE store.dirty[o] = 0
  <2>1. CASE o \in Objects
    BY <1>2, <2>1 DEF Held
  <2>2. CASE o \notin Objects
    <3>1. Entry(m, o).remote = 0 /\ Entry(n, o).remote = 0
      BY <2>2, EntryType
    <3> QED BY <1>2, <3>1 DEF Held, Val
  <2> QED BY <2>1, <2>2
<1> QED BY <1>1, <1>2

\* The manifest in force holds what the base does.
LEMMA InForceHolds ==
  ASSUME TypesOK, Exclusive, SoundInv, StepInv, Careful, Same, NEW o \in Objects,
         store.dirty[o] = 0
  PROVE  Val(Entry(InForceNow, o)) = Val(Entry(Base, o))
<1> DEFINE r == RecoverManifest(messages)
<1>1. Sound
  BY DEF Careful
<1>2. CASE Keeping
  <2>1. Base = store.manifest
    BY <1>2 DEF Base
  <2>2. ASSUME NEW p \in Running, InForceNow = daemons[p].manifest PROVE InForceNow = store.manifest
    BY <1>2, <2>2 DEF Same
  <2>3. CASE store.manifest = None /\ InForceNow = r
    <3>1. Entry(r, o) = Zero(o) /\ Entry(None, o) = Zero(o)
      BY <1>1, <1>2, NothingFlushed, InForceManifest, ZeroIs
    <3> QED BY <2>1, <2>3, <3>1
  <2> QED BY <2>1, <2>2, <2>3, InForceNowIs
<1>3. CASE ~Keeping
  <2>1. Base = r /\ InStep
    BY <1>1, <1>3 DEF Base, StepInv
  <2>2. ASSUME NEW p \in Running, InForceNow = daemons[p].manifest PROVE Entry(InForceNow, o) = Entry(r, o)
    <3>1. Agrees(Size, store, daemons[p].manifest, r)
      BY <2>1 DEF InStep, DaemonInStep
    <3> QED BY <2>2, <3>1, ObjectsAre DEF Agrees
  <2>3. ASSUME store.manifest # None, InForceNow = store.manifest PROVE Entry(InForceNow, o) = Entry(r, o)
    <3>1. Agrees(Size, store, store.manifest, r)
      BY <2>1, <2>3 DEF InStep, SavedInStep, Same
    <3> QED BY <2>3, <3>1, ObjectsAre DEF Agrees
  <2> HIDE DEF r
  <2>4. Entry(InForceNow, o) = Entry(r, o)
    BY <2>2, <2>3, InForceNowIs DEF r
  <2> QED BY <2>1, <2>4
<1> QED BY <1>2, <1>3

\* What a machine that has only the channel holds.
LEMMA DurableIs ==
  ASSUME TypesOK, SoundInv, StepInv, Sound
  PROVE  Durable(messages) = [o \in Units |-> Val(Entry(RecoverManifest(messages), o))]
<1> DEFINE r == RecoverManifest(messages)
<1>1. r \in ManifestsOf(Size) \cup {None}
  BY BaseIs
<1>2. Durable(messages) =
        [o \in Units |-> IF Entry(r, o).remote = 0 THEN 0 ELSE Fetched(messages, Entry(r, o))]
  BY DEF Durable
<1> HIDE DEF r
<1>3. ASSUME NEW o \in Units, Entry(r, o).remote # 0 PROVE Fetches(messages, Entry(r, o))
  <2>1. o \in Objects
    BY <1>1, <1>3, EntryType
  <2>2. CASE Keeping
    <3>1. Entry(r, o) = Zero(o)
      BY <2>1, <2>2, NothingFlushed, InForceManifest DEF r
    <3> QED BY <1>3, <3>1, ZeroIs
  <2>3. CASE ~Keeping
    <3>1. There(Size, messages, r)
      BY <2>3 DEF StepInv, InStep, r
    <3> QED BY <1>3, <2>1, <3>1, ObjectsAre DEF There
  <2> QED BY <2>2, <2>3
<1>4. \A o \in Units : (IF Entry(r, o).remote = 0 THEN 0 ELSE Fetched(messages, Entry(r, o))) = Val(Entry(r, o))
  BY <1>3 DEF Fetched, Val
<1> QED BY <1>2, <1>4 DEF r

\* The view of a careful operator's device, by the manifest on the channel or the saved one.
LEMMA ShownIs ==
  ASSUME TypesOK, Exclusive, SoundInv, SameDevice, StepInv, Viewed, Careful
  PROVE  Shown
<1>1. Sound /\ Same
  BY DEF Careful, SameDevice
<1>2. \A o \in Units : Held(store, InForceNow, o) = Held(store, Base, o)
  <2>1. InForceNow \in ManifestsOf(Size) \cup {None} /\ Base \in ManifestsOf(Size) \cup {None}
    BY <1>1, ContentIs, BaseIs
  <2> QED BY <1>1, <2>1, InForceHolds, SameHeld
<1>3. disk = [o \in Units |-> Held(store, InForceNow, o)]
  BY <1>1, ContentIs DEF Viewed
<1> QED BY <1>1, <1>2, <1>3, DurableIs DEF Viewed, Shown

\* Nothing is recovered from the channel where a device is kept locally.
FetchedInv == Careful /\ Keeping => fetched = None

\* Nothing was fetched in the first state.
LEMMA InitFetched == Init => FetchedInv
BY DEF Init, FetchedInv

\* A careful operator of a local device does not recover it from the channel.
LEMMA FetchedStep ==
  ASSUME TypesOK, FetchedInv, [Next]_vars
  PROVE  FetchedInv'
<1> SUFFICES ASSUME Careful', Keeping' PROVE fetched' = None
  BY DEF FetchedInv
<1>1. Careful /\ Keeping
  BY ConfigKept DEF Keeping, Allowed
<1>2. fetched = None
  BY <1>1 DEF FetchedInv
<1>3. ~RecoverFetch
  <2>1. ~Allowed("recover-from-remote") /\ ~Allowed("recover-from-remote beside a daemon")
    BY <1>1 DEF Careful, Sound, Unsound, Keeping, Allowed
  <2> QED BY <2>1, Zenon DEF RecoverFetch
<1>4. fetched' = fetched \/ fetched' = None
  <2>1. CASE Command
    <3>1. CASE OpenStore \/ RemoveLock \/ LoseMachine
      BY <3>1, Zenon DEF OpenStore, RemoveLock, LoseMachine, commands
    <3>2. CASE \E force \in BOOLEAN : FormatFails(force) \/ \E local_only \in BOOLEAN : Format(force, local_only)
      BY <3>2, Zenon DEF FormatFails, Format, commands
    <3>3. CASE RecoverReplace \/ GcStart \/ GcFails \/ \E id \in gc : GcDelete(id)
      BY <3>3, Zenon DEF RecoverReplace, GcStart, GcFails, GcDelete
    <3>4. CASE Rollback \/ RollbackFails \/ FlushCommand
      BY <3>4, Zenon DEF Rollback, RollbackFails, FlushCommand, commands
    <3> QED BY <1>3, <2>1, <3>1, <3>2, <3>3, <3>4, Zenon DEF Command
  <2>2. ASSUME NEW p \in Processes, Daemon(p) PROVE fetched' = fetched
    BY <2>2, Zenon DEF Daemon, Serve, ServeLocal, Stop, Read, Write, Flush, FlushFails, FlushLocal, commands
  <2>3. CASE UNCHANGED vars
    BY <2>3 DEF vars, commands
  <2> QED BY <2>1, <2>2, <2>3 DEF Next
<1> QED BY <1>2, <1>4

\* What a step may do to the disk.
KeepsDisk ==
  \/ UNCHANGED <<disk, durable>>
  \/ \E o \in Units, v \in Value : disk' = [disk EXCEPT ![o] = v] /\ durable' = durable
  \/ durable' = disk /\ disk' = disk
  \/ disk' = durable /\ durable' = durable

\* A manifest of zero objects holds zeroes.
LEMMA ZeroVal ==
  ASSUME TypesOK, NEW m \in ManifestsOf(Size) \cup {None},
         \A o \in Objects : Entry(m, o) = Zero(o)
  PROVE  \A o \in Units : Val(Entry(m, o)) = 0
<1> SUFFICES ASSUME NEW o \in Units PROVE Val(Entry(m, o)) = 0
  OBVIOUS
<1>1. CASE o \in Objects
  BY <1>1, ZeroIs DEF Val
<1>2. CASE o \notin Objects
  BY <1>2, EntryType DEF Val
<1> QED BY <1>1, <1>2

\* A step that changes neither the dirty files nor what clean objects hold.
LEMMA NothingChanges ==
  ASSUME Shown, Shown', NEW b, Base = b, NEW c, Base' = c,
         NEW r, RecoverManifest(messages) = r, NEW s, RecoverManifest(messages') = s,
         store'.dirty = store.dirty,
         \A o \in Units : store.dirty[o] # 0 =>
           store'.files[<<o, store.dirty[o]>>] = store.files[<<o, store.dirty[o]>>],
         b = c \/ \A o \in Units : Val(Entry(b, o)) = Val(Entry(c, o)),
         r = s \/ \A o \in Units : Val(Entry(r, o)) = Val(Entry(s, o))
  PROVE  UNCHANGED <<disk, durable>>
<1>1. /\ disk = [o \in Units |-> Held(store, b, o)]
      /\ durable = [o \in Units |-> Val(Entry(r, o))]
  BY DEF Shown
<1>2. /\ disk' = [o \in Units |-> Held(store', c, o)]
      /\ durable' = [o \in Units |-> Val(Entry(s, o))]
  BY DEF Shown
<1>3. \A o \in Units : Held(store', c, o) = Held(store, b, o)
  BY DEF Held
<1> QED BY <1>1, <1>2, <1>3

\* A step that commits nothing but perhaps an empty manifest, and saves nothing but perhaps
\* one.
LEMMA ViewStays ==
  ASSUME TypesOK, TypesOK', SoundInv, Sound, Shown, Shown', config' = config,
         store'.dirty = store.dirty, store'.files = store.files,
         \/ InForceIs(messages, messages')
         \/ \E m \in ManifestsOf(Size) :
              Newest(messages) = 0 /\ RecoverManifest(messages') = m /\ IsEmpty(Size, m),
         \/ store'.manifest = store.manifest
         \/ ~Keeping
         \/ \E m \in ManifestsOf(Size) :
              store.manifest = None /\ store'.manifest = m /\ IsEmpty(Size, m)
  PROVE  UNCHANGED <<disk, durable>>
<1> DEFINE r == RecoverManifest(messages)
           s == RecoverManifest(messages')
           b == Base
           c == Base'
<1>1. r = s \/ \A o \in Units : Val(Entry(r, o)) = Val(Entry(s, o))
  <2>1. CASE InForceIs(messages, messages')
    BY <2>1, SameView
  <2>2. CASE \E m \in ManifestsOf(Size) :
               Newest(messages) = 0 /\ s = m /\ IsEmpty(Size, m)
    <3>1. \A o \in Units : Val(Entry(s, o)) = 0
      BY <2>2, EmptyEntries, ZeroVal
    <3>2. \A o \in Units : Val(Entry(r, o)) = 0
      BY <2>2, BaseIs, InForceManifest, ZeroVal
    <3> QED BY <3>1, <3>2
  <2> QED BY <2>1, <2>2
<1>2. b = c \/ \A o \in Units : Val(Entry(b, o)) = Val(Entry(c, o))
  <2>1. Keeping' <=> Keeping
    BY DEF Keeping, Allowed
  <2>2. CASE ~Keeping
    <3>1. b = r /\ c = s
      BY <2>1, <2>2 DEF Base
    <3> QED BY <1>1, <3>1
  <2>3. CASE Keeping
    <3>1. b = store.manifest /\ c = store'.manifest
      BY <2>1, <2>3 DEF Base
    <3>2. CASE store'.manifest = store.manifest
      BY <3>1, <3>2
    <3>3. ASSUME NEW m \in ManifestsOf(Size), store.manifest = None, store'.manifest = m, IsEmpty(Size, m)
          PROVE  \A o \in Units : Val(Entry(b, o)) = Val(Entry(c, o))
      <4>1. \A o \in Units : Val(Entry(m, o)) = 0
        BY <3>3, EmptyEntries, ZeroVal
      <4>2. \A o \in Units : Val(Entry(None, o)) = 0
        BY ZeroIs, ZeroVal
      <4> QED BY <3>1, <3>3, <4>1, <4>2
    <3> QED BY <2>3, <3>2, <3>3
  <2> QED BY <2>2, <2>3
<1>3. \A o \in Units : store.dirty[o] # 0 =>
        store'.files[<<o, store.dirty[o]>>] = store.files[<<o, store.dirty[o]>>]
  OBVIOUS
<1>4. Base = b /\ Base' = c
  OBVIOUS
<1> HIDE DEF b, c
<1> QED BY <1>1, <1>2, <1>3, <1>4, NothingChanges

\* No command of a careful operator changes the disk, but a machine that is lost.
LEMMA CommandKeepsDisk ==
  ASSUME TypesOK, TypesOK', Exclusive, SoundInv, FetchedInv, Careful, Shown, Shown', Command
  PROVE  KeepsDisk
<1> SUFFICES ASSUME ~LoseMachine PROVE UNCHANGED <<disk, durable>>
  <2>1. ASSUME LoseMachine PROVE disk' = durable /\ durable' = durable
    <3> DEFINE r == RecoverManifest(messages)
    <3>1. store' = NoStore /\ UNCHANGED <<config, remote>>
      BY <2>1, Zenon DEF LoseMachine
    <3>2. store'.manifest = None /\ store'.dirty = NoDirty
      BY <3>1 DEF NoStore
    <3>3. \A o \in Units : store'.dirty[o] = 0
      BY <3>2, NothingStored DEF TypesOK
    <3>4. RecoverManifest(messages') = r
      BY <3>1 DEF remote
    <3>5. \A o \in Units : Val(Entry(Base', o)) = Val(Entry(r, o))
      <4>1. Keeping' <=> Keeping
        BY <3>1 DEF Keeping, Allowed
      <4>2. CASE Keeping
        <5>1. Base' = None /\ Sound
          BY <3>2, <4>1, <4>2 DEF Base, Careful
        <5>2. \A o \in Units : Val(Entry(None, o)) = 0
          BY ZeroIs, ZeroVal
        <5>3. \A o \in Units : Val(Entry(r, o)) = 0
          BY <4>2, <5>1, NothingFlushed, InForceManifest, ZeroVal
        <5> QED BY <5>1, <5>2, <5>3
      <4>3. CASE ~Keeping
        BY <3>4, <4>1, <4>3 DEF Base
      <4> QED BY <4>2, <4>3
    <3>6. \A o \in Units : Held(store', Base', o) = Val(Entry(r, o))
      BY <3>3, <3>5 DEF Held
    <3> HIDE DEF r
    <3> QED BY <3>4, <3>6 DEF Shown, r
  <2> QED BY <2>1 DEF KeepsDisk
<1>1. Sound /\ config' = config /\ daemons' = daemons
  BY CommandLeaves DEF Careful
<1>2. ASSUME UNCHANGED remote PROVE InForceIs(messages, messages')
  BY <1>2 DEF remote, InForceIs
<1>3. CASE OpenStore
  <2>1. store' = Opened /\ UNCHANGED <<config, remote, mount_lock, daemons, commands, budget>>
    BY <1>3, Zenon DEF OpenStore
  <2>2. Saves(store', store.manifest, store.dirty)
    BY <2>1, SavedOpened
  <2>3. store'.manifest = store.manifest /\ store'.dirty = store.dirty /\ store'.files = store.files
    BY <2>2 DEF Saves
  <2> QED BY <1>1, <1>2, <2>1, <2>3, ViewStays
<1>4. CASE RemoveLock \/ RecoverFetch \/ GcFails \/ GcStart
  <2>1. UNCHANGED <<config, remote, store, daemons, budget>>
    BY <1>4, Zenon DEF RemoveLock, RecoverFetch, GcFails, GcStart
  <2> QED BY <1>1, <1>2, <2>1, ViewStays
<1>5. CASE \E force \in BOOLEAN : FormatFails(force)
  <2> DEFINE m == EmptyManifest(NewUuid, Size)
  <2>1. PICK force \in BOOLEAN : FormatFails(force)
    BY <1>5
  <2>2. /\ FormatsShrink /\ Saves(store', store.manifest, store.dirty)
        /\ Quiet \/ Commits(m)
    BY <1>1, <2>1, FormatFailsCommits
  <2>3. m \in ManifestsOf(Size) /\ NewUuid \in Nat
    BY FormatTyped, BudgetIs DEF TypesOK, NewUuid
  <2>4. IsEmpty(Size, m)
    <3> HIDE DEF NewUuid
    <3> QED BY <2>3, ObjectsAre, EmptyRefs
  <2>5. store'.manifest = store.manifest /\ store'.dirty = store.dirty /\ store'.files = store.files
    BY <2>2 DEF Saves
  <2>6. \/ InForceIs(messages, messages')
        \/ Newest(messages) = 0 /\ RecoverManifest(messages') = m
    BY <1>1, <2>2, <2>3, EmptyInForce
  <2> HIDE DEF m
  <2> QED BY <1>1, <2>3, <2>4, <2>5, <2>6, ViewStays
<1>6. CASE \E force, local_only \in BOOLEAN : Format(force, local_only)
  <2> DEFINE m == EmptyManifest(NewUuid, Size)
  <2>1. PICK force \in BOOLEAN, local_only \in BOOLEAN : Format(force, local_only)
    BY <1>6
  <2>2. /\ FormatsShrink /\ Saves(store', m, store.dirty) /\ NewUuid \in Nat
        /\ (Quiet /\ UNCHANGED remote) \/ Commits(m)
    BY <1>1, <2>1, FormatCommits
  <2>3. m \in ManifestsOf(Size) /\ Formattable(force, local_only)
    BY <2>1, FormatIs
  <2>4. IsEmpty(Size, m)
    <3> HIDE DEF NewUuid
    <3> QED BY <2>2, ObjectsAre, EmptyRefs
  <2>5. store'.manifest = m /\ store'.dirty = store.dirty /\ store'.files = store.files
    BY <2>2 DEF Saves
  <2>6. \/ InForceIs(messages, messages')
        \/ Newest(messages) = 0 /\ RecoverManifest(messages') = m
    BY <1>1, <2>2, <2>3, EmptyInForce
  <2>7. store.manifest = None
    <3>1. Blank(local_only)
      BY <2>3 DEF Formattable, Careful
    <3> QED BY <3>1 DEF Blank
  <2> HIDE DEF m
  <2> QED BY <1>1, <2>3, <2>4, <2>5, <2>6, <2>7, ViewStays
<1>7. CASE RecoverReplace
  <2>1. /\ fetched # None /\ store' = Replaced(fetched)
        /\ UNCHANGED <<config, remote, mount_lock, daemons, gc, budget>>
    BY <1>7, Zenon DEF RecoverReplace
  <2>2. fetched \in ManifestsOf(Size) /\ ~Keeping
    BY <2>1 DEF FetchedInv, TypesOK
  <2>3. store'.dirty = store.dirty /\ store'.files = store.files
    BY <2>1, <2>2, SavedReplaced DEF Saves
  <2> QED BY <1>1, <1>2, <2>1, <2>2, <2>3, ViewStays
<1>8. CASE \E id \in gc : GcDelete(id)
  <2>1. PICK id \in gc : GcDelete(id)
    BY <1>8
  <2>2. UNCHANGED <<config, store, mount_lock, daemons, fetched, budget>>
    BY <2>1, Zenon DEF GcDelete
  <2>3. id \in DOMAIN messages => messages[id].kind = "object"
    <3>1. GcFine(config, messages, last_id, gc)
      BY <1>1 DEF SoundInv, Healthy
    <3> QED BY <2>1, <3>1 DEF GcFine, IsObject
  <2>4. Quiet /\ FormatsShrink
    BY <2>1, <2>2, <2>3, DeletedGrows, SameBudget DEF Quiet
  <2>5. InForceIs(messages, messages')
    BY <1>1, <2>4, QuietFine
  <2> QED BY <1>1, <2>2, <2>5, ViewStays
<1>9. ~(Rollback \/ RollbackFails \/ FlushCommand)
  <2>1. ~Allowed("recover") /\ ~Allowed("flush")
    BY <1>1 DEF Sound, Unsound, Allowed
  <2> QED BY <2>1, Zenon DEF Rollback, RollbackFails, FlushCommand
<1> QED BY <1>3, <1>4, <1>5, <1>6, <1>7, <1>8, <1>9, Zenon DEF Command

\* A manifest after a whole flush holds what the dirty files and the one before it do.
LEMMA FlushedHolds ==
  ASSUME TypesOK, Exclusive, NEW m \in ManifestsOf(Size), NEW base \in Nat, NEW u,
         u = Uploaded(m, Len(Uploads), base),
         NEW n \in ManifestsOf(Size) \cup {None},
         \A o \in Objects : store.dirty[o] = 0 => Entry(m, o) = Entry(n, o)
  PROVE  /\ u \in ManifestsOf(Size)
         /\ \A o \in Units : Val(Entry(u, o)) = Held(store, n, o)
<1>1. Len(Uploads) \in Nat /\ Len(Uploads) = Cardinality(DirtyIds)
  BY UploadsAre, Positions
<1>2. /\ u \in ManifestsOf(Size)
      /\ \A o \in Objects :
           At(u, o) = IF o \in Done(Len(Uploads)) THEN NewEntry(o, base) ELSE At(m, o)
  <2> DEFINE w == Uploaded(m, Len(Uploads), base)
  <2>1. /\ w \in ManifestsOf(Size)
        /\ \A o \in Objects :
             At(w, o) = IF o \in Done(Len(Uploads)) THEN NewEntry(o, base) ELSE At(m, o)
    BY <1>1, UploadedIs DEF At
  <2> HIDE DEF w
  <2>2. u = w
    BY DEF w
  <2> QED BY <2>1, <2>2
<1>3. ASSUME NEW o \in Objects, store.dirty[o] = 0
      PROVE  Val(Entry(u, o)) = Held(store, n, o)
  <2>1. o \notin Done(Len(Uploads))
    BY <1>3 DEF Done, DirtyIds
  <2>2. Entry(u, o) = Entry(n, o)
    BY <1>2, <1>3, <2>1, EntryIs
  <2> QED BY <1>3, <2>2 DEF Held
<1>4. ASSUME NEW o \in Objects, store.dirty[o] # 0
      PROVE  Val(Entry(u, o)) = Held(store, n, o)
  <2>1. o \in DirtyIds /\ Position(o) \in 1 .. Len(Uploads)
    BY <1>1, <1>4, Positions DEF DirtyIds
  <2>2. Entry(u, o) = NewEntry(o, base)
    BY <1>1, <1>2, <2>1, EntryIs DEF Done
  <2> DEFINE pos == Position(o)
  <2>3. base + pos # 0
    <3> HIDE DEF pos
    <3> QED BY <1>1, <2>1 DEF pos
  <2>4. Entry(u, o).remote = base + pos /\ Entry(u, o).payload = store.files[<<o, store.dirty[o]>>]
    BY <2>2 DEF NewEntry, ManifestObject
  <2> QED BY <1>4, <2>3, <2>4 DEF Held, Val
<1>5. ASSUME NEW o \in Units \ Objects
      PROVE  Val(Entry(u, o)) = Held(store, n, o)
  <2>1. Entry(u, o).remote = 0 /\ Entry(n, o).remote = 0 /\ store.dirty[o] = 0
    BY <1>2, EntryType DEF Exclusive
  <2> QED BY <2>1 DEF Held, Val
<1> QED BY <1>2, <1>3, <1>4, <1>5

\* A file that is written stands beside the ones that were there.
LEMMA FileWritten ==
  ASSUME TypesOK, NEW key \in Nat \X Nat, NEW v \in Value, NEW f, f = WithFile(key, v)
  PROVE  f[key] = v /\ \A k \in DOMAIN store.files : k # key => f[k] = store.files[k]
<1> DEFINE w == WithFile(key, v)
<1>1. w[key] = v /\ \A k \in DOMAIN store.files : k # key => w[k] = store.files[k]
  BY FileAdded
<1>2. f = w
  OBVIOUS
<1> HIDE DEF w
<1> QED BY <1>1, <1>2

\* A write, as the disk shows it.
LEMMA WriteShown ==
  ASSUME TypesOK, Shown, Shown', NEW p \in Processes, NEW o \in Objects, NEW v \in Value, Write(p, o, v)
  PROVE  disk' = [disk EXCEPT ![o] = v] /\ durable' = durable
<1> DEFINE r == RecoverManifest(messages)
           b == Base
           g == daemons[p].manifest.generation + 1
<1>1. /\ o \in Units /\ o \in Nat /\ g \in Nat \ {0} /\ store'.manifest = store.manifest
      /\ store'.dirty = [store.dirty EXCEPT ![o] = g]
      /\ store'.files = WithFile(<<o, g>>, v)
  BY WriteIs
<1>2. UNCHANGED <<config, remote, mount_lock, daemons, commands>>
  BY Zenon DEF Write
<1>3. RecoverManifest(messages') = r /\ Base' = b
  <2>1. messages' = messages /\ (Keeping' <=> Keeping)
    BY <1>2 DEF remote, Keeping, Allowed
  <2> QED BY <1>1, <2>1 DEF Base
<1> HIDE DEF r, b, g
<1>4. /\ store'.files[<<o, g>>] = v
      /\ \A k \in DOMAIN store.files : k # <<o, g>> => store'.files[k] = store.files[k]
  <2> DEFINE key == <<o, g>>
             f == store'.files
  <2>1. key \in Nat \X Nat /\ f = WithFile(key, v)
    BY <1>1
  <2> HIDE DEF key, f
  <2>2. f[key] = v /\ \A k \in DOMAIN store.files : k # key => f[k] = store.files[k]
    BY <2>1, FileWritten
  <2> QED BY <2>2 DEF key, f
<1>5. store.dirty \in [Units -> Nat]
  BY StoreFields
<1>6. Held(store', b, o) = v
  <2>1. store'.dirty[o] = g
    BY <1>1, <1>5
  <2> QED BY <1>1, <1>4, <2>1 DEF Held
<1>7. ASSUME NEW q \in Units, q # o PROVE Held(store', b, q) = Held(store, b, q)
  <2>1. store'.dirty[q] = store.dirty[q]
    BY <1>1, <1>5, <1>7
  <2>2. store.dirty[q] # 0 =>
          <<q, store.dirty[q]>> \in DOMAIN store.files /\ <<q, store.dirty[q]>> # <<o, g>>
    BY <1>7 DEF TypesOK
  <2> QED BY <1>4, <2>1, <2>2 DEF Held
<1>8. /\ disk = [q \in Units |-> Held(store, b, q)]
      /\ disk' = [q \in Units |-> Held(store', b, q)]
  BY <1>3 DEF Shown, b
<1>9. durable' = durable
  BY <1>3 DEF Shown, r
<1> QED BY <1>1, <1>6, <1>7, <1>8, <1>9

\* A read, as the disk shows it.
LEMMA ReadShown ==
  ASSUME TypesOK, Shown, Shown', NEW p \in Processes, NEW o \in Objects, Read(p, o)
  PROVE  UNCHANGED <<disk, durable>>
<1> DEFINE e == ReadEntry(p, o)
           key == <<o, e.generation>>
<1>1. /\ o \in Nat /\ e \in ObjectEntry
      /\ key \notin DOMAIN store.files
      /\ store'.manifest = store.manifest /\ store'.dirty = store.dirty
      /\ store'.files = WithFile(key, e.payload)
  BY ReadIs
<1>2. UNCHANGED <<config, remote, mount_lock, daemons, commands, budget>>
  BY Zenon DEF Read
<1>3. RecoverManifest(messages') = RecoverManifest(messages) /\ Base' = Base
  <2>1. messages' = messages /\ (Keeping' <=> Keeping)
    BY <1>2 DEF remote, Keeping, Allowed
  <2> QED BY <1>1, <2>1 DEF Base
<1>4. \A k \in DOMAIN store.files : store'.files[k] = store.files[k]
  <2>1. key \in Nat \X Nat /\ e.payload \in Value
    BY <1>1 DEF ObjectEntry
  <2> DEFINE f == store'.files
             w == e.payload
  <2>2. w \in Value /\ f = WithFile(key, w) /\ key \notin DOMAIN store.files
    BY <1>1, <2>1
  <2> HIDE DEF key, e, f, w
  <2>3. \A k \in DOMAIN store.files : k # key => f[k] = store.files[k]
    BY <2>1, <2>2, FileWritten
  <2>4. \A k \in DOMAIN store.files : f[k] = store.files[k]
    BY <2>2, <2>3
  <2> QED BY <2>4 DEF f
<1>5. \A q \in Units : store.dirty[q] # 0 =>
        store'.files[<<q, store.dirty[q]>>] = store.files[<<q, store.dirty[q]>>]
  BY <1>4 DEF TypesOK
<1> HIDE DEF e, key
<1> QED BY <1>1, <1>3, <1>5, NothingChanges

\* A flush that committed makes the disk durable, and leaves it as it is.
LEMMA CommitShown ==
  ASSUME TypesOK, Exclusive, Shown, Shown', config' = config,
         NEW m \in ManifestsOf(Size), NEW base \in Nat, NEW u, u = Uploaded(m, Len(Uploads), base),
         NEW b \in ManifestsOf(Size) \cup {None}, Base = b,
         \A o \in Objects : store.dirty[o] = 0 => Entry(m, o) = Entry(b, o),
         Base' = u, store'.files = store.files,
         store'.dirty = store.dirty \/ store'.dirty = NoDirty
  PROVE  /\ disk' = disk
         /\ RecoverManifest(messages') = u => durable' = disk
<1>1. \A o \in Units : Val(Entry(u, o)) = Held(store, b, o)
  <2>1. /\ TypesOK /\ Exclusive /\ u = Uploaded(m, Len(Uploads), base)
        /\ \A o \in Objects : store.dirty[o] = 0 => Entry(m, o) = Entry(b, o)
    OBVIOUS
  <2> QED BY ONLY <2>1, m \in ManifestsOf(Size), base \in Nat,
                  b \in ManifestsOf(Size) \cup {None}, FlushedHolds
<1>2. \A o \in Units : NoDirty[o] = 0
  BY NothingStored DEF TypesOK
<1>3. \A o \in Units : Held(store', u, o) = Held(store, b, o)
  BY <1>1, <1>2 DEF Held
<1>4. disk = [o \in Units |-> Held(store, b, o)] /\ disk' = [o \in Units |-> Held(store', u, o)]
  BY DEF Shown
<1>5. RecoverManifest(messages') = u => durable' = [o \in Units |-> Val(Entry(u, o))]
  BY DEF Shown
<1> QED BY <1>1, <1>3, <1>4, <1>5

\* The daemons write, flush, or leave the disk alone.
LEMMA DaemonKeepsDisk ==
  ASSUME TypesOK, TypesOK', Exclusive, SoundInv, SameDevice, StepInv, Careful, Shown, Shown',
         NEW p \in Processes, Daemon(p)
  PROVE  KeepsDisk
<1> DEFINE d == daemons[p].manifest
           u == FlushedManifest(p)
           r == RecoverManifest(messages)
<1>1. Sound /\ Same
  BY DEF Careful, SameDevice
<1>2. ASSUME UNCHANGED remote PROVE InForceIs(messages, messages')
  BY <1>2 DEF remote, InForceIs
<1>3. CASE Serve(p)
  <2>1. /\ Allowed("serve --backend telegram")
        /\ UNCHANGED <<config, remote, commands, budget>>
        /\ Saves(store', store'.manifest, store.dirty)
    BY <1>3, ServeIs
  <2>2. ~Keeping
    BY <1>1, <2>1 DEF Sound, OnChannel, Keeping, Allowed
  <2>3. store'.dirty = store.dirty /\ store'.files = store.files
    BY <2>1 DEF Saves
  <2>4. UNCHANGED <<disk, durable>>
    BY <1>1, <1>2, <2>1, <2>2, <2>3, ViewStays
  <2> QED BY <2>4 DEF KeepsDisk
<1>4. CASE ServeLocal(p) \/ Stop(p)
  <2>1. UNCHANGED <<config, remote, store, commands, budget>>
    BY <1>4, Zenon DEF ServeLocal, Stop
  <2>2. UNCHANGED <<disk, durable>>
    BY <1>1, <1>2, <2>1, ViewStays
  <2> QED BY <2>2 DEF KeepsDisk
<1>5. CASE \E o \in Objects, v \in Value : Write(p, o, v)
  <2>1. PICK o \in Objects, v \in Value : Write(p, o, v)
    BY <1>5
  <2>2. disk' = [disk EXCEPT ![o] = v] /\ durable' = durable
    BY <2>1, WriteShown
  <2> QED BY <2>2, ObjectsAre DEF KeepsDisk
<1>6. CASE \E o \in Objects : Read(p, o)
  BY <1>6, ReadShown DEF KeepsDisk
<1>7. ASSUME Flush(p) \/ FlushFails(p)
      PROVE  /\ ~Keeping /\ FormatsShrink /\ config' = config /\ daemons[p] # None
             /\ DirtyIds # {} /\ u \in ManifestsOf(Size) /\ d \in ManifestsOf(Size)
             /\ store'.files = store.files
             /\ store'.dirty = store.dirty \/ store'.dirty = NoDirty
             /\ Commits(u) \/ (Quiet /\ store' = store)
  <2>1. CASE Flush(p)
    BY <1>1, <2>1, FlushIs, FlushCommits DEF Saves
  <2>2. CASE FlushFails(p)
    BY <1>1, <2>2, FlushFailsIs, FlushFailsCommits DEF Saves
  <2> QED BY <1>7, <2>1, <2>2
<1>8. CASE (Flush(p) \/ FlushFails(p)) /\ Commits(u)
  <2>1. /\ ~Keeping /\ FormatsShrink /\ config' = config /\ daemons[p] # None
        /\ DirtyIds # {} /\ u \in ManifestsOf(Size) /\ d \in ManifestsOf(Size)
        /\ store'.files = store.files
        /\ store'.dirty = store.dirty \/ store'.dirty = NoDirty
    BY <1>7, <1>8
  <2>2. InStep /\ Newest(messages) \in Nat
    BY <1>1, <2>1, InForceManifest DEF StepInv
  <2>3. u.generation >= Newest(messages)
    <3>1. Len(Uploads) \in Nat
      BY UploadsAre, Positions
    <3>2. u.generation = NewGeneration(d)
      BY <2>1, <3>1, FlushedIs DEF FlushedManifest
    <3> QED BY <2>1, <2>2, <3>2, FlushAhead
  <2>4. /\ Base = r /\ r \in ManifestsOf(Size) \cup {None}
        /\ \A o \in Objects : store.dirty[o] = 0 => Entry(d, o) = Entry(r, o)
    <3>1. \A o \in Objects : store.dirty[o] = 0 => At(d, o) = Entry(r, o)
      BY <2>1, <2>2, DaemonServes
    <3> HIDE DEF d, r
    <3>2. \A o \in Objects : store.dirty[o] = 0 => Entry(d, o) = Entry(r, o)
      BY <2>1, <3>1, EntryIs
    <3> QED BY <2>1, <3>2, BaseIs DEF Base, r
  <2>5. u = Uploaded(d, Len(Uploads), last_id) /\ last_id \in Nat
    BY DEF FlushedManifest, TypesOK, ChannelType
  <2> HIDE DEF u, d, r
  <2>6. RecoverManifest(messages') = u
    BY <1>1, <1>8, <2>1, <2>3, CommitsFine
  <2>7. Base' = u
    <3>1. ~Keeping'
      BY <2>1 DEF Keeping, Allowed
    <3> QED BY <2>6, <3>1 DEF Base
  <2>8. disk' = disk /\ durable' = disk
    BY <2>1, <2>4, <2>5, <2>6, <2>7, CommitShown
  <2> QED BY <2>8 DEF KeepsDisk
<1>9. CASE (Flush(p) \/ FlushFails(p)) /\ Quiet /\ store' = store
  <2>1. InForceIs(messages, messages') /\ config' = config
    BY <1>1, <1>7, <1>9, QuietFine
  <2>2. UNCHANGED <<disk, durable>>
    BY <1>1, <1>9, <2>1, ViewStays
  <2> QED BY <2>2 DEF KeepsDisk
<1>10. CASE FlushLocal(p)
  <2>1. /\ UNCHANGED <<config, remote, mount_lock, commands>>
        /\ daemons[p] # None /\ daemons[p].memory # None
        /\ d \in ManifestsOf(Size)
    BY <1>10, FlushLocalIs
  <2>2. PICK base \in Nat, w \in ManifestsOf(Size) :
          w = Uploaded(d, Len(Uploads), base) /\ Saves(store', w, NoDirty)
    BY <1>10, FlushLocalIs
  <2>3. Keeping /\ p \in Running
    BY <1>1, <2>1, DaemonHealthy
  <2>4. d = store.manifest /\ Base = d
    BY <1>1, <2>3 DEF Same, Base
  <2>5. store'.files = store.files /\ store'.dirty = NoDirty /\ store'.manifest = w
    BY <2>2 DEF Saves
  <2>6. Base' = w
    <3>1. Keeping'
      BY <2>1, <2>3 DEF Keeping, Allowed
    <3> QED BY <2>5, <3>1 DEF Base
  <2> HIDE DEF d
  <2>7. disk' = disk
    BY <2>1, <2>2, <2>4, <2>5, <2>6, CommitShown
  <2>8. durable' = durable
    BY <1>2, <2>1, SameView DEF Shown
  <2> QED BY <2>7, <2>8 DEF KeepsDisk
<1> HIDE DEF d, u, r
<1> QED BY <1>3, <1>4, <1>5, <1>6, <1>7, <1>8, <1>9, <1>10, Zenon DEF Daemon

\* Every step of a careful operator keeps the disk.
LEMMA StepKeepsDisk ==
  ASSUME TypesOK, TypesOK', Exclusive, SoundInv, SameDevice, StepInv, FetchedInv, Careful,
         Shown, Shown', Next
  PROVE  KeepsDisk
BY CommandKeepsDisk, DaemonKeepsDisk DEF Next

\* A write of one object is a write of the disk.
LEMMA WriteIsDisk ==
  ASSUME TypesOK, Careful, Careful', Shown, NEW o \in Units, NEW v \in Value,
         disk' = [disk EXCEPT ![o] = v], durable' = durable
  PROVE  Disk!Write
<1> DEFINE w == [offset |-> o, bytes |-> <<v>>]
<1>1. Units \subseteq Int
  BY Sizes DEF TypesOK
<1>2. /\ w \in [offset : Units, bytes : {<<x>> : x \in Value}]
      /\ w.offset = o /\ w.bytes = <<v>> /\ Len(w.bytes) = 1
  OBVIOUS
<1>3. disk = [q \in Units |-> disk[q]]
  BY DEF Shown
<1>4. Seen(disk) = disk /\ Seen(disk') = disk' /\ Seen(durable) = durable /\ Seen(durable') = durable'
  BY DEF Seen
<1>5. Seen(disk)' = disk' /\ Seen(durable)' = durable'
  BY DEF Seen
<1>6. Disk!WritePart(w, 0, 1)
  <2>1. ASSUME NEW q \in Units
        PROVE  disk'[q] = IF o + 0 <= q /\ q < o + 1 THEN <<v>>[q - o + 1] ELSE disk[q]
    <3>1. CASE q = o
      <4>1. o + 0 <= q /\ q < o + 1 /\ q - o + 1 = 1
        BY <1>1, <3>1
      <4>2. disk'[q] = v
        BY <1>3, <3>1
      <4> QED BY <4>1, <4>2
    <3>2. CASE q # o
      <4>1. ~(o + 0 <= q /\ q < o + 1)
        BY <1>1, <3>2
      <4>2. disk'[q] = disk[q]
        BY <1>3, <3>2
      <4> QED BY <4>1, <4>2
    <3> QED BY <3>1, <3>2
  <2>2. disk' = [q \in Units |-> disk'[q]]
    BY <1>3
  <2> DEFINE f == [q \in Units |-> IF o + 0 <= q /\ q < o + 1 THEN <<v>>[q - o + 1] ELSE disk[q]]
  <2>3. disk' = f
    BY <2>1, <2>2
  <2>4. Seen(disk)' = [q \in Units |-> IF w.offset + 0 <= q /\ q < w.offset + 1
                                       THEN w.bytes[q - w.offset + 1] ELSE Seen(disk)[q]]
    BY <1>4, <1>5, <2>3
  <2> HIDE DEF w
  <2> QED BY <2>4 DEF Disk!WritePart
<1>7. UNCHANGED Seen(durable)
  BY <1>4, <1>5
<1> HIDE DEF w
<1>8. 0 \in 0 .. Len(w.bytes) /\ 1 \in 0 .. Len(w.bytes) /\ 0 < 1
  BY <1>2
<1> QED BY <1>2, <1>6, <1>7, <1>8 DEF Disk!Write

\* A careful operator's step is one of the disk, and what the others do is not seen.
LEMMA StepIsDisk ==
  ASSUME TypesOK, TypesOK', Exclusive, SoundInv, SameDevice, StepInv, FetchedInv,
         Careful => Shown, Careful' => Shown', [ViewNext]_<<vars, disk, durable>>
  PROVE  [Disk!Next]_<<Seen(disk), Seen(durable)>>
<1>1. [Next]_vars
  BY Zenon DEF ViewNext
<1>2. config' = config /\ (Careful' <=> Careful)
  BY <1>1, ConfigKept
<1>3. CASE ~Careful
  BY <1>2, <1>3 DEF Seen
<1>4. CASE UNCHANGED <<vars, disk, durable>>
  BY <1>2, <1>4 DEF Seen
<1>5. CASE Careful /\ ViewNext
  <2>1. Seen(disk) = disk /\ Seen(disk)' = disk' /\ Seen(durable) = durable /\ Seen(durable)' = durable'
    BY <1>2, <1>5 DEF Seen
  <2>2. Next
    BY <1>5, Zenon DEF ViewNext
  <2>3. KeepsDisk
    BY <1>2, <1>5, <2>2, StepKeepsDisk
  <2>4. CASE UNCHANGED <<disk, durable>>
    BY <2>1, <2>4
  <2>5. CASE \E o \in Units, v \in Value : disk' = [disk EXCEPT ![o] = v] /\ durable' = durable
    BY <1>2, <1>5, <2>5, WriteIsDisk DEF Disk!Next
  <2>6. CASE durable' = disk /\ disk' = disk
    BY <2>1, <2>6 DEF Disk!Next, Disk!Sync
  <2>7. CASE disk' = durable /\ durable' = durable
    BY <2>1, <2>7 DEF Disk!Next, Disk!LoseLocal
  <2> QED BY <2>3, <2>4, <2>5, <2>6, <2>7 DEF KeepsDisk
<1> QED BY <1>3, <1>4, <1>5

\* Before the first format the device is a disk of zeroes.
LEMMA InitIsDisk ==
  ASSUME Init, TypesOK, SoundInv, Careful => Shown
  PROVE  Disk!Init
<1>1. CASE ~Careful
  BY <1>1 DEF Seen, Disk!Init, Disk!Zeroes
<1>2. CASE Careful
  <2>1. Sound
    BY <1>2 DEF Careful
  <2>2. Newest(messages) = 0
    <3>1. Superblocks(messages) = {}
      BY DEF Init, Superblocks
    <3>2. RecoverSuperblock(messages) = 0
      BY <3>1, NewestIs DEF TypesOK
    <3> QED BY <3>2 DEF Newest
  <2>3. \A o \in Units : Val(Entry(RecoverManifest(messages), o)) = 0
    BY <2>1, <2>2, InForceManifest, ZeroVal
  <2>4. store.manifest = None /\ store.dirty = NoDirty
    BY DEF Init, NoStore
  <2>5. \A o \in Units : Val(Entry(None, o)) = 0
    BY ZeroIs, ZeroVal
  <2>6. \A o \in Units : Val(Entry(Base, o)) = 0
    BY <2>3, <2>4, <2>5 DEF Base
  <2>7. \A o \in Units : store.dirty[o] = 0
    BY <2>4, NothingStored DEF TypesOK
  <2>8. \A o \in Units : Held(store, Base, o) = 0
    BY <2>6, <2>7 DEF Held
  <2>9. disk = [o \in Units |-> 0] /\ durable = [o \in Units |-> 0]
    BY <1>2, <2>3, <2>8 DEF Shown
  <2> QED BY <1>2, <2>9 DEF Seen, Disk!Init, Disk!Zeroes
<1> QED BY <1>1, <1>2

\* The life of a careful operator's device implements a disk with a write-back cache: formats,
\* restarts, kills that leave the lock, failed flushes, gc, recover-from-remote and lost
\* machines change it only by a write of one object, by making all of it durable, or by
\* falling back to what is durable.  Under StartsCountOn, as RecoveryHolds.
THEOREM DiskKept == ViewSpec /\ StartsCountOn => CommandsKeepDisk
<1> DEFINE Inv == LifeInv /\ StepInv /\ FetchedInv /\ (Careful => Shown)
<1>1. Spec => []FetchedInv
  <2>1. Init => FetchedInv
    BY InitFetched
  <2>2. TypesOK /\ FetchedInv /\ [Next]_vars => FetchedInv'
    BY FetchedStep
  <2> QED BY <2>1, <2>2, LifeHolds, PTL DEF Spec, LifeInv
<1>2. LifeInv /\ StepInv /\ Viewed => (Careful => Shown)
  BY ShownIs DEF LifeInv
<1>3. ViewSpec /\ StartsCountOn => []Inv
  BY <1>1, <1>2, ViewsAreSteps, ViewHolds, StepHolds, LifeHolds, PTL
<1>4. Inv /\ Inv' /\ [ViewNext]_<<vars, disk, durable>>
      => [Disk!Next]_<<Seen(disk), Seen(durable)>>
  BY StepIsDisk DEF LifeInv
<1>5. ViewInit /\ Inv => Disk!Init
  BY InitIsDisk DEF ViewInit, LifeInv
<1> HIDE DEF Inv
<1> QED BY <1>3, <1>4, <1>5, PTL DEF ViewSpec, CommandsKeepDisk, Disk!Spec

\* A daemon that serves a store without dirty rows serves what is durable.
CleanShown == Sound /\ ~Keeping /\ Running # {} /\ store.dirty = NoDirty => disk = durable

LEMMA ServedIsDurable ==
  ASSUME TypesOK, Exclusive, SoundInv, StepInv, Viewed
  PROVE  CleanShown
<1> SUFFICES ASSUME Sound, ~Keeping, Running # {}, store.dirty = NoDirty PROVE disk = durable
  BY DEF CleanShown
<1> DEFINE r == RecoverManifest(messages)
<1>1. PICK p \in Running : InForceNow = daemons[p].manifest
  BY InForceNowIs
<1>2. Agrees(Size, store, InForceNow, r)
  BY <1>1 DEF StepInv, InStep, DaemonInStep
<1>3. InForceNow \in ManifestsOf(Size) \cup {None} /\ r \in ManifestsOf(Size) \cup {None}
  BY ContentIs, BaseIs
<1>4. \A o \in Units : store.dirty[o] = 0
  BY NothingStored DEF TypesOK
<1> HIDE DEF r
<1>5. \A o \in Units : Held(store, InForceNow, o) = Held(store, r, o)
  BY <1>2, <1>3, <1>4, ObjectsAre, SameHeld DEF Agrees
<1>6. disk = [o \in Units |-> Held(store, InForceNow, o)]
  BY ContentIs DEF Viewed
<1>7. durable = [o \in Units |-> Val(Entry(r, o))]
  BY DurableIs DEF Viewed, r
<1> QED BY <1>4, <1>5, <1>6, <1>7 DEF Held

\* A restart over a store without dirty rows has what was flushed, which the refinement, whose
\* disk may fall back at any step, does not say.  Under StartsCountOn, as RecoveryHolds.
THEOREM RestartsServeDurable == ViewSpec /\ StartsCountOn => ServesDurable
<1>1. LifeInv /\ CleanShown' /\ [ViewNext]_<<vars, disk, durable>>
      => [\A p \in Processes : Sound /\ Serve(p) /\ store.dirty = NoDirty => disk' = durable'
         ]_<<vars, disk, durable>>
  <2> SUFFICES ASSUME LifeInv, CleanShown', NEW p \in Processes, Sound, Serve(p), store.dirty = NoDirty
               PROVE  disk' = durable'
    OBVIOUS
  <2>1. /\ Allowed("serve --backend telegram") /\ config' = config
        /\ store'.manifest \in ManifestsOf(Size) /\ Saves(store', store'.manifest, store.dirty)
        /\ daemons' = [daemons EXCEPT ![p] = [manifest |-> store'.manifest, memory |-> None]]
    BY ServeIs DEF LifeInv
  <2>2. Sound' /\ ~Keeping'
    BY <2>1 DEF Sound, Keeping, Allowed, OnChannel
  <2>3. Running' # {}
    <3> DEFINE x == [manifest |-> store'.manifest, memory |-> None]
    <3>1. x # None
      BY <2>1, NoDaemon
    <3> HIDE DEF x
    <3>2. daemons' = [daemons EXCEPT ![p] = x]
      BY <2>1 DEF x
    <3> QED BY <3>1, <3>2, OneDaemon DEF LifeInv
  <2>4. store'.dirty = NoDirty
    BY <2>1 DEF Saves
  <2> QED BY <2>2, <2>3, <2>4 DEF CleanShown
<1>2. LifeInv /\ StepInv /\ Viewed => CleanShown
  BY ServedIsDurable DEF LifeInv
<1>3. ViewSpec /\ StartsCountOn => []LifeInv /\ []CleanShown
  BY <1>2, ViewsAreSteps, ViewHolds, StepHolds, LifeHolds, PTL
<1> QED BY <1>1, <1>3, PTL DEF ViewSpec, ServesDurable

\* With at most one commit that fails in a life, nothing else is assumed: the device can
\* be read and recovered in every state, is a disk with a write-back cache, and restarts
\* serve what was flushed.
THEOREM OneFaultLife ==
  ASSUME FewFaults
  PROVE  ViewSpec => []Readable /\ []RecoveryComplete /\ CommandsKeepDisk /\ ServesDurable
<1>1. Spec => StartsCountOn
  BY StartsHold
<1> QED BY <1>1, ViewsAreSteps, ReadableHolds, RecoveryHolds, DiskKept, RestartsServeDurable, PTL
=============================================================================
