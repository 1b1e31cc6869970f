-------------------------- MODULE NbdServerProofs ---------------------------
(***************************************************************************)
(* The server and its clients stay in step on every connection: for any    *)
(* number of connections, any requests and options, sockets of any size.   *)
(***************************************************************************)
EXTENDS NbdServer, ExtremaProofs

(* The inductive invariant *)

Negotiating == {"accept", "flags", "options"}

Serving == {"payload", "discard", "run"}

InToken ==
  [kind : {"flags"}] \cup [kind : {"option"}, body : Option]
  \cup [kind : {"header"}, handle : Nat, request : Request] \cup [kind : {"data"}, value : Value]

Errors == {"OK", "ERR_INVALID", "ERR_UNSUPPORTED"}

OutToken ==
  [kind : {"greeting", "info", "zeroes"}] \cup [kind : {"option reply"}, reply : {"INFO", "ACK", "ERR_INVALID", "ERR_UNSUP"}]
  \cup [kind : {"reply"}, error : Errors, handle : Nat] \cup [kind : {"data"}, value : Value]

ClientState ==
  [phase : {"greeting", "flags", "option", "asked", "zeroes", "ready", "gone", "confused"},
   options : Nat, sent : Nat, due : Nat, answers : Seq([error : Errors, data : Seq(Value)])]

ServerState ==
  [phase : Negotiating \cup Serving \cup {"request", "ok", "error"},
   request : Request \cup {0}, handle : Nat, got : Seq(Value)]

TypesOK ==
  /\ program \in Clients
  /\ client \in [Connections -> ClientState]
  /\ inbox \in [Connections -> Seq(InToken)]
  /\ outbox \in [Connections -> Seq(OutToken)]
  /\ server \in [Connections -> ServerState]
  /\ writing \in [Connections -> Seq(OutToken)]
  /\ disk \in [Units -> Value] /\ durable \in [Units -> Value]
  /\ faults \in 0 .. Faults
  /\ \A c \in Connections : Len(inbox[c]) <= Buffer /\ Len(outbox[c]) <= Buffer

\* q holds the elements of s after the first from, up to the one at to.
Follows(q, s, from, to) ==
  /\ from <= to /\ Len(q) = to - from
  /\ \A i \in 1 .. Len(q) : q[i] = s[from + i]

\* How much of the stream of requests the task has taken.
Taken(R, sv) ==
  IF sv.phase \in Serving
  THEN StreamTo(R, sv.handle - 1) + 1 + Len(sv.got)
  ELSE StreamTo(R, sv.handle)

\* What is in the socket follows what the task has taken, which is the first requests and
\* part of the one it is reading.
FramingOK(R, k, in, sv, wr) ==
  /\ sv.handle <= Len(R) /\ k.sent <= Len(Stream(R))
  /\ sv.phase \in Negotiating => sv.handle = 0 /\ k.sent = 0
  /\ sv.phase \in Serving \cup {"request"} => Follows(in, Stream(R), Taken(R, sv), k.sent)
  /\ sv.phase = "request" /\ sv.handle # 0 => R[sv.handle].command # "DISC"
  /\ sv.phase \in Serving =>
       LET r == R[sv.handle]
       IN  /\ sv.handle # 0 /\ sv.request = r /\ wr = <<>>
           /\ Len(sv.got) <= Len(r.bytes)
           /\ \A i \in 1 .. Len(sv.got) : sv.got[i] = r.bytes[i]
           /\ sv.phase = IF r.command # "WRITE" THEN "run"
                         ELSE IF bounds_ok(r.offset, r.length) THEN "payload" ELSE "discard"

OptionToken(p, n) == [kind |-> "option", body |-> p.options[n]]

\* Where the two ends are while they negotiate; fl is what is on its way to the client.
NegotiationOK(p, k, in, sv, fl) ==
  LET option == OptionToken(p, k.options)
  IN  /\ k.options <= Len(p.options)
      /\ sv.phase = "accept" => in = <<>>
      /\ sv.phase = "flags" => \/ in \in {<<>>, <<Plain("flags")>>}
                               \/ k.options # 0 /\ in = <<Plain("flags"), option>>
      /\ sv.phase = "options" => in = <<>> \/ (k.options # 0 /\ in = <<option>>)
      /\ k.phase \notin {"ready", "gone", "confused"} => k.sent = 0
      /\ k.phase \notin {"ready", "gone"} => k.answers = <<>> /\ k.due = 0
      /\ k.phase = "greeting" =>
           /\ in = <<>>
           /\ \/ sv.phase = "accept" /\ fl = <<>>
              \/ sv.phase = "flags" /\ fl = <<Plain("greeting")>>
      /\ k.phase = "flags" => sv.phase = "flags" /\ in = <<>> /\ fl = <<>>
      /\ k.phase = "option" =>
           /\ fl = <<>>
           /\ \/ sv.phase = "flags" /\ in = <<Plain("flags")>>
              \/ sv.phase = "options" /\ in = <<>>
      /\ k.phase = "asked" =>
           /\ k.options # 0
           /\ \/ sv.phase = "flags" /\ in = <<Plain("flags"), option>> /\ fl = <<>>
              \/ sv.phase = "options" /\ in = <<option>> /\ fl = <<>>
              \/ /\ sv.phase = "options" /\ in = <<>>
                 /\ \E reply \in {"ERR_INVALID", "ERR_UNSUP"} : fl = <<OptionReply(reply)>>
              \/ /\ sv.phase = "request" /\ sv.handle = 0
                 /\ \/ fl \in {<<OptionReply("INFO"), OptionReply("ACK")>>, <<OptionReply("ACK")>>}
                    \/ /\ fl = <<Plain("info"), Plain("zeroes")>>
                       /\ p.options[k.options].option = "EXPORT_NAME"
              \/ sv.phase = "error" /\ fl = <<>>
      /\ k.phase = "zeroes" => sv.phase = "request" /\ sv.handle = 0 /\ fl = <<Plain("zeroes")>>
      /\ k.phase = "ready" => sv.phase \notin Negotiating
      /\ k.phase = "confused" => ~Keeps(p) /\ sv.phase \notin Negotiating

\* The data that comes with the reply to r.
DataOf(r) == IF r.command = "READ" /\ Valid(r) THEN r.length ELSE 0

\* What the replies to all requests consist of: the reply itself, and its units of data.
ReplyParts(r, h) == [k \in 1 .. 1 + DataOf(r) |-> <<h, k - 1>>]
Plan(R) == FlattenSeq([h \in DOMAIN R |-> ReplyParts(R[h], h)])
PlanTo(R, h) == Len(Plan(SubSeq(R, 1, h)))

\* Unit number k of the answer to request h, as executing the requests one by one would
\* have it.
UnitOK(own, R, h, k, value) ==
  R[h].offset + k - 1 \in own => value = UnitAfter(R, h, R[h].offset + k - 1)

\* A token is the part x of the replies.
Fits(own, R, t, x) ==
  /\ x[2] = 0 => t = Reply(Outcome(R[x[1]]), x[1])
  /\ x[2] # 0 => t.kind = "data" /\ UnitOK(own, R, x[1], x[2], t.value)

\* What the client was told.
AnswersOK(own, R, k) ==
  /\ Len(k.answers) <= Len(R)
  /\ k.answers = <<>> => k.due = 0
  /\ \A h \in DOMAIN k.answers :
       LET a == k.answers[h]
       IN  /\ a.error = Outcome(R[h])
           /\ \A j \in DOMAIN a.data : UnitOK(own, R, h, j, a.data[j])
           /\ h = Len(k.answers) => Len(a.data) + k.due = DataOf(R[h])

\* What is on its way to the client is what follows what it was told.
RepliesOK(own, p, k, sv, fl) ==
  LET R == p.requests
      told == PlanTo(R, Len(k.answers)) - k.due
  IN  k.phase = "ready" =>
        \/ ~Keeps(p) /\ k.answers = <<>> /\ fl # <<>> /\ fl[1] = Plain("zeroes")
        \/ /\ told + Len(fl) <= Len(Plan(R))
           /\ \A i \in 1 .. Len(fl) : Fits(own, R, fl[i], Plan(R)[told + i])
           /\ sv.phase = "request" => told + Len(fl) = PlanTo(R, sv.handle)
           /\ sv.phase \in Serving => told + Len(fl) = PlanTo(R, sv.handle - 1)

\* The requests that were answered, or whose answer is on its way.
Given(k, fl) == DOMAIN k.answers \cup {fl[i].handle : i \in {j \in DOMAIN fl : fl[j].kind = "reply"}}

GivenOK(k, sv, fl) ==
  \A h \in Given(k, fl) : h \in 1 .. sv.handle /\ (sv.phase \in Serving => h < sv.handle)

\* What does not depend on the other connections.
ConnectionOK(own, p, k, in, sv, wr, fl) ==
  /\ FramingOK(p.requests, k, in, sv, wr)
  /\ NegotiationOK(p, k, in, sv, fl)
  /\ AnswersOK(own, p.requests, k)
  /\ RepliesOK(own, p, k, sv, fl)
  /\ GivenOK(k, sv, fl)

Flight(c) == outbox[c] \o writing[c]

\* A unit that no other client writes holds what the requests carried out have left
\* there; after an error, if the last one does not write it.
ContentOK(own, R, sv, d) ==
  \A u \in own :
    /\ sv.phase \in Negotiating \cup {"request", "ok"} => d[u] = UnitAfter(R, sv.handle, u)
    /\ sv.phase \in Serving => d[u] = UnitAfter(R, sv.handle - 1, u)
    /\ sv.phase = "error" /\ (\A j \in DOMAIN R : j >= sv.handle => ~Writes(R[j], u))
         => d[u] = UnitAfter(R, sv.handle, u)

\* Units that requests after the first h leave alone.
Settled(own, R, h) == {u \in own : \A j \in DOMAIN R : j > h => ~Writes(R[j], u)}

\* The writes before a FLUSH that was answered, or a DISC, are durable.
DurableOK(own, R, sv, given, d) ==
  \A h \in DOMAIN R :
    \/ R[h].command = "FLUSH" /\ h \in given
    \/ R[h].command = "DISC" /\ sv.phase = "ok" /\ sv.handle = h
    => \A u \in Settled(own, R, h) : d[u] = UnitAfter(R, h, u)

NbdInv ==
  /\ TypesOK
  /\ \A c \in Connections :
       /\ ConnectionOK(Own(c), program[c], client[c], inbox[c], server[c], writing[c], Flight(c))
       /\ ContentOK(Own(c), program[c].requests, server[c], disk)
       /\ DurableOK(Own(c), program[c].requests, server[c], Given(client[c], Flight(c)), durable)
  /\ NotDropped

-----------------------------------------------------------------------------
(* Streams and plans *)

\* No part is longer than the whole.
LEMMA BasesGrow ==
  ASSUME NEW T, NEW s \in Seq(Seq(T)), NEW b, Bases(s, b)
  PROVE  \A h \in 0 .. Len(s) : b[h] <= b[Len(s)]
<1> DEFINE n == Len(s)
           S == {d \in Nat : d <= n => b[n - d] <= b[n]}
<1>0. n \in Nat /\ b \in [0 .. n -> Nat]
  BY DEF Bases
<1>1. 0 \in S
  <2>1. n - 0 = n /\ n \in 0 .. n
    BY <1>0
  <2>2. b[n] \in Nat
    BY <1>0, <2>1
  <2> QED BY <2>1, <2>2
<1>2. ASSUME NEW d \in Nat, d \in S PROVE d + 1 \in S
  <2> SUFFICES ASSUME d + 1 <= n PROVE b[n - (d + 1)] <= b[n]
    OBVIOUS
  <2> DEFINE h == n - d
  <2>1. h \in 1 .. n /\ h - 1 = n - (d + 1) /\ h \in 0 .. n /\ h - 1 \in 0 .. n /\ n \in 0 .. n
    BY <1>0
  <2>2. b[h] <= b[n]
    BY <1>0, <1>2
  <2> HIDE DEF h
  <2>3. b[h] = b[h - 1] + Len(s[h]) /\ Len(s[h]) \in Nat
    BY <2>1 DEF Bases
  <2>4. b[h] \in Nat /\ b[h - 1] \in Nat /\ b[n] \in Nat
    BY <1>0, <2>1
  <2>5. b[h - 1] <= b[n]
    BY <2>2, <2>3, <2>4
  <2> QED BY <2>1, <2>5
<1> HIDE DEF S
<1>3. \A d \in Nat : d \in S
  BY <1>1, <1>2, SetInduction
<1>4. ASSUME NEW h \in 0 .. n PROVE b[h] <= b[n]
  <2>1. n - h \in Nat /\ n - h <= n /\ n - (n - h) = h
    BY <1>0
  <2>2. n - h \in S
    BY <1>3, <2>1
  <2> QED BY <2>1, <2>2 DEF S
<1> QED BY <1>4

\* The first h sequences, laid out one after the other.
LEMMA Layout ==
  ASSUME NEW T, NEW s \in Seq(Seq(T))
  PROVE  /\ FlattenSeq(s) \in Seq(T)
         /\ \A h \in 0 .. Len(s) : /\ Len(FlattenSeq(SubSeq(s, 1, h))) \in Nat
                                   /\ Len(FlattenSeq(SubSeq(s, 1, h))) <= Len(FlattenSeq(s))
         /\ Len(FlattenSeq(SubSeq(s, 1, 0))) = 0
         /\ Len(FlattenSeq(SubSeq(s, 1, Len(s)))) = Len(FlattenSeq(s))
         /\ \A h \in 1 .. Len(s) :
              /\ Len(FlattenSeq(SubSeq(s, 1, h)))
                   = Len(FlattenSeq(SubSeq(s, 1, h - 1))) + Len(s[h])
              /\ \A k \in 1 .. Len(s[h]) :
                   FlattenSeq(s)[Len(FlattenSeq(SubSeq(s, 1, h - 1))) + k] = s[h][k]
<1>0. Len(s) \in Nat
  OBVIOUS
<1>1. PICK b : /\ Bases(s, b)
               /\ b[Len(s)] = Len(FlattenSeq(s))
               /\ \A h \in 1 .. Len(s) : \A k \in 1 .. Len(s[h]) :
                    FlattenSeq(s)[b[h - 1] + k] = s[h][k]
  BY Flattened
<1>2. ASSUME NEW h \in 0 .. Len(s)
      PROVE  Len(FlattenSeq(SubSeq(s, 1, h))) = b[h]
  <2> DEFINE t == SubSeq(s, 1, h)
  <2>1. t \in Seq(Seq(T)) /\ Len(t) = h /\ \A i \in 1 .. h : t[i] = s[i]
    BY <1>0
  <2> HIDE DEF t
  <2>2. PICK a : Bases(t, a) /\ a[Len(t)] = Len(FlattenSeq(t))
    BY <2>1, Flattened
  <2>3. a[Len(t)] = b[Len(t)]
    BY <1>0, <1>1, <2>1, <2>2, SameBases
  <2> QED BY <2>1, <2>2, <2>3 DEF t
<1>3. FlattenSeq(s) \in Seq(T)
  BY Flattened
<1>4. b \in [0 .. Len(s) -> Nat] /\ b[0] = 0
  BY <1>1 DEF Bases
<1>5. ASSUME NEW h \in 1 .. Len(s)
      PROVE  /\ Len(FlattenSeq(SubSeq(s, 1, h)))
                  = Len(FlattenSeq(SubSeq(s, 1, h - 1))) + Len(s[h])
             /\ \A k \in 1 .. Len(s[h]) :
                  FlattenSeq(s)[Len(FlattenSeq(SubSeq(s, 1, h - 1))) + k] = s[h][k]
  <2>1. h \in 0 .. Len(s) /\ h - 1 \in 0 .. Len(s)
    BY <1>0
  <2>2. b[h] = b[h - 1] + Len(s[h])
    BY <1>1 DEF Bases
  <2> QED BY <1>1, <1>2, <2>1, <2>2
<1>6. 0 \in 0 .. Len(s) /\ Len(s) \in 0 .. Len(s)
  BY <1>0
<1>7. \A h \in 0 .. Len(s) : b[h] <= b[Len(s)]
  BY <1>1, BasesGrow
<1> QED BY <1>1, <1>2, <1>3, <1>4, <1>5, <1>6, <1>7

\* Each request of the stream is its header and its payload.
LEMMA StreamPlaces ==
  ASSUME NEW R \in Seq(Request)
  PROVE  /\ Stream(R) \in Seq(InToken) /\ Len(Stream(R)) \in Nat
         /\ \A h \in 0 .. Len(R) : StreamTo(R, h) \in Nat
         /\ StreamTo(R, 0) = 0 /\ StreamTo(R, Len(R)) = Len(Stream(R))
         /\ \A h \in 1 .. Len(R) :
              /\ StreamTo(R, h) = StreamTo(R, h - 1) + 1 + Len(R[h].bytes)
              /\ Stream(R)[StreamTo(R, h - 1) + 1] = Header(h, R[h])
              /\ \A k \in 1 .. Len(R[h].bytes) :
                   Stream(R)[StreamTo(R, h - 1) + 1 + k] = [kind |-> "data", value |-> R[h].bytes[k]]
<1> DEFINE Part(h) == <<Header(h, R[h])>> \o Data(R[h].bytes)
           s == [h \in DOMAIN R |-> Part(h)]
<1>0. Len(R) \in Nat /\ DOMAIN R = 1 .. Len(R)
  OBVIOUS
<1>1. ASSUME NEW h \in 1 .. Len(R)
      PROVE  /\ Part(h) \in Seq(InToken) /\ Len(Part(h)) = 1 + Len(R[h].bytes)
             /\ Part(h)[1] = Header(h, R[h])
             /\ \A k \in 1 .. Len(R[h].bytes) :
                  Part(h)[1 + k] = [kind |-> "data", value |-> R[h].bytes[k]]
             /\ Len(R[h].bytes) \in Nat
  <2> DEFINE x == <<Header(h, R[h])>>  y == Data(R[h].bytes)
  <2>1. R[h] \in Request /\ h \in Nat
    OBVIOUS
  <2>2. R[h].bytes \in Seq(Value)
    BY <2>1 DEF Request
  <2>3. Header(h, R[h]) \in InToken
    BY <2>1 DEF Header, InToken
  <2>4. x \in Seq(InToken) /\ Len(x) = 1 /\ x[1] = Header(h, R[h])
    BY <2>3
  <2>5. /\ y \in Seq(InToken) /\ Len(y) = Len(R[h].bytes)
        /\ \A k \in 1 .. Len(y) : y[k] = [kind |-> "data", value |-> R[h].bytes[k]]
    <3> DEFINE z == R[h].bytes
    <3>1. z \in Seq(Value)
      BY <2>2
    <3> HIDE DEF z
    <3>2. DOMAIN z = 1 .. Len(z) /\ Len(z) \in Nat /\ \A k \in 1 .. Len(z) : z[k] \in Value
      BY <3>1
    <3>3. \A k \in 1 .. Len(z) : [kind |-> "data", value |-> z[k]] \in InToken
      BY <3>2 DEF InToken
    <3>4. Data(z) = [k \in 1 .. Len(z) |-> [kind |-> "data", value |-> z[k]]]
      BY <3>2 DEF Data
    <3>5. Data(z) \in Seq(InToken) /\ Len(Data(z)) = Len(z)
      BY <3>2, <3>3, <3>4
    <3>6. \A k \in 1 .. Len(z) : Data(z)[k] = [kind |-> "data", value |-> z[k]]
      BY <3>4
    <3> QED BY <3>5, <3>6 DEF z
  <2> HIDE DEF x, y
  <2>6. /\ x \o y \in Seq(InToken) /\ Len(x \o y) = Len(x) + Len(y)
        /\ \A i \in 1 .. Len(x) : (x \o y)[i] = x[i]
        /\ \A k \in 1 .. Len(y) : (x \o y)[Len(x) + k] = y[k]
    <3>1. x \in Seq(InToken) /\ y \in Seq(InToken)
      BY <2>4, <2>5
    <3> QED BY <3>1, Concatenated
  <2>7. Len(y) \in Nat /\ Part(h) = x \o y
    BY <2>5 DEF x, y
  <2> HIDE DEF Part
  <2> QED BY <2>4, <2>5, <2>6, <2>7
<1> HIDE DEF Part
<1>2. s \in Seq(Seq(InToken)) /\ Len(s) = Len(R) /\ \A h \in 1 .. Len(R) : s[h] = Part(h)
  BY <1>0, <1>1
<1>3. Stream(R) = FlattenSeq(s)
  BY Zenon DEF Stream, Part
<1>4. ASSUME NEW h \in 0 .. Len(R)
      PROVE  StreamTo(R, h) = Len(FlattenSeq(SubSeq(s, 1, h)))
  <2> DEFINE Q == SubSeq(R, 1, h)
             q == [i \in DOMAIN Q |-> <<Header(i, Q[i])>> \o Data(Q[i].bytes)]
  <2>1. DOMAIN Q = 1 .. h /\ \A i \in 1 .. h : Q[i] = R[i]
    BY <1>0
  <2>2. SubSeq(s, 1, h) = [i \in 1 .. h |-> s[i]]
    <3> HIDE DEF s
    <3>1. h \in Nat /\ h <= Len(s)
      BY <1>0, <1>2
    <3>2. SubSeq(s, 1, h) \in Seq(Seq(InToken)) /\ Len(SubSeq(s, 1, h)) = h
      BY <1>2, <3>1
    <3>3. \A i \in 1 .. h : SubSeq(s, 1, h)[i] = s[i]
      BY <1>2, <3>1
    <3> QED BY <3>2, <3>3
  <2>3. ASSUME NEW i \in 1 .. h PROVE s[i] = <<Header(i, Q[i])>> \o Data(Q[i].bytes)
    <3>1. i \in 1 .. Len(R)
      BY <1>0
    <3> HIDE DEF Q, s
    <3> QED BY <1>2, <2>1, <3>1 DEF Part
  <2>4. q = SubSeq(s, 1, h)
    <3> HIDE DEF Q, s
    <3> QED BY <2>1, <2>2, <2>3
  <2>5. StreamTo(R, h) = Len(FlattenSeq(q))
    BY Zenon DEF StreamTo, Stream
  <2> QED BY <2>4, <2>5
<1> HIDE DEF s
<1>5. /\ FlattenSeq(s) \in Seq(InToken)
      /\ \A h \in 0 .. Len(s) : Len(FlattenSeq(SubSeq(s, 1, h))) \in Nat
      /\ Len(FlattenSeq(SubSeq(s, 1, 0))) = 0
      /\ Len(FlattenSeq(SubSeq(s, 1, Len(s)))) = Len(FlattenSeq(s))
      /\ \A h \in 1 .. Len(s) :
           /\ Len(FlattenSeq(SubSeq(s, 1, h)))
                = Len(FlattenSeq(SubSeq(s, 1, h - 1))) + Len(s[h])
           /\ \A k \in 1 .. Len(s[h]) :
                FlattenSeq(s)[Len(FlattenSeq(SubSeq(s, 1, h - 1))) + k] = s[h][k]
  BY <1>2, Layout
<1>6. ASSUME NEW h \in 1 .. Len(R)
      PROVE  /\ StreamTo(R, h) = StreamTo(R, h - 1) + 1 + Len(R[h].bytes)
             /\ Stream(R)[StreamTo(R, h - 1) + 1] = Header(h, R[h])
             /\ \A k \in 1 .. Len(R[h].bytes) :
                  Stream(R)[StreamTo(R, h - 1) + 1 + k] = [kind |-> "data", value |-> R[h].bytes[k]]
  <2>1. h \in 0 .. Len(R) /\ h - 1 \in 0 .. Len(R) /\ h \in 1 .. Len(s)
    BY <1>0, <1>2
  <2> DEFINE a == StreamTo(R, h - 1)  z == R[h].bytes
  <2> HIDE DEF a, z
  <2>2. a \in Nat /\ StreamTo(R, h) = a + Len(Part(h))
        /\ \A k \in 1 .. Len(Part(h)) : Stream(R)[a + k] = Part(h)[k]
    BY <1>2, <1>3, <1>4, <1>5, <2>1 DEF a
  <2>3. /\ Len(Part(h)) = 1 + Len(z) /\ Len(z) \in Nat /\ Part(h)[1] = Header(h, R[h])
        /\ \A k \in 1 .. Len(z) : Part(h)[1 + k] = [kind |-> "data", value |-> z[k]]
    BY <1>1 DEF z
  <2>4. ASSUME NEW k \in 1 .. Len(z)
        PROVE  Stream(R)[a + 1 + k] = [kind |-> "data", value |-> z[k]]
    <3>1. 1 + k \in 1 .. Len(Part(h)) /\ a + 1 + k = a + (1 + k)
      <4>1. a \in Nat /\ Len(z) \in Nat /\ Len(Part(h)) = 1 + Len(z) /\ k \in 1 .. Len(z)
        BY <2>2, <2>3
      <4> QED BY <4>1
    <3> DEFINE n == 1 + k
    <3>2. Part(h)[n] = [kind |-> "data", value |-> z[k]]
      BY <2>3
    <3>3. n \in 1 .. Len(Part(h)) /\ a + 1 + k = a + n
      BY <3>1
    <3> HIDE DEF n
    <3>4. Stream(R)[a + n] = Part(h)[n]
      BY <2>2, <3>3
    <3> QED BY <3>2, <3>3, <3>4
  <2>5. Stream(R)[a + 1] = Header(h, R[h])
    <3>1. 1 \in 1 .. Len(Part(h))
      <4>1. Len(z) \in Nat /\ Len(Part(h)) = 1 + Len(z)
        BY <2>3
      <4> QED BY <4>1
    <3> QED BY <2>2, <2>3, <3>1
  <2>6. StreamTo(R, h) = a + 1 + Len(z)
    <3>1. a \in Nat /\ Len(z) \in Nat /\ StreamTo(R, h) = a + (1 + Len(z))
      BY <2>2, <2>3
    <3> QED BY <3>1
  <2> QED BY <2>4, <2>5, <2>6, Zenon DEF a, z
<1>7. 0 \in 0 .. Len(R) /\ Len(R) \in 0 .. Len(R)
  BY <1>0
<1>8. Stream(R) \in Seq(InToken) /\ Len(Stream(R)) \in Nat
  BY <1>3, <1>5
<1> QED BY <1>2, <1>3, <1>4, <1>5, <1>6, <1>7, <1>8

\* Each reply is followed by its data.
LEMMA PlanPlaces ==
  ASSUME NEW R \in Seq(Request)
  PROVE  /\ Plan(R) \in Seq(Nat \X Nat) /\ Len(Plan(R)) \in Nat
         /\ \A h \in 0 .. Len(R) : PlanTo(R, h) \in Nat /\ PlanTo(R, h) <= Len(Plan(R))
         /\ PlanTo(R, 0) = 0 /\ PlanTo(R, Len(R)) = Len(Plan(R))
         /\ \A h \in 1 .. Len(R) :
              /\ PlanTo(R, h) = PlanTo(R, h - 1) + 1 + DataOf(R[h])
              /\ \A k \in 0 .. DataOf(R[h]) : Plan(R)[PlanTo(R, h - 1) + 1 + k] = <<h, k>>
<1> DEFINE Part(h) == ReplyParts(R[h], h)
           s == [h \in DOMAIN R |-> Part(h)]
<1>0. Len(R) \in Nat /\ DOMAIN R = 1 .. Len(R)
  OBVIOUS
<1>1. ASSUME NEW h \in 1 .. Len(R)
      PROVE  /\ Part(h) \in Seq(Nat \X Nat) /\ Len(Part(h)) = 1 + DataOf(R[h])
             /\ \A k \in 1 .. 1 + DataOf(R[h]) : Part(h)[k] = <<h, k - 1>>
             /\ DataOf(R[h]) \in Nat
  <2>1. R[h] \in Request /\ h \in Nat
    OBVIOUS
  <2>2. DataOf(R[h]) \in Nat
    BY <2>1 DEF DataOf, Request
  <2> DEFINE z == DataOf(R[h])
  <2> HIDE DEF z
  <2>3. z \in Nat /\ Part(h) = [k \in 1 .. 1 + z |-> <<h, k - 1>>]
    BY <2>2 DEF z, ReplyParts
  <2>4. \A k \in 1 .. 1 + z : <<h, k - 1>> \in Nat \X Nat
    BY <2>1, <2>3
  <2> HIDE DEF Part
  <2>5. Part(h) \in Seq(Nat \X Nat) /\ Len(Part(h)) = 1 + z
    BY <2>3, <2>4
  <2>6. \A k \in 1 .. 1 + z : Part(h)[k] = <<h, k - 1>>
    BY <2>3
  <2> QED BY <2>3, <2>5, <2>6 DEF z
<1> HIDE DEF Part
<1>2. s \in Seq(Seq(Nat \X Nat)) /\ Len(s) = Len(R) /\ \A h \in 1 .. Len(R) : s[h] = Part(h)
  BY <1>0, <1>1
<1>3. Plan(R) = FlattenSeq(s)
  BY Zenon DEF Plan, Part
<1>4. ASSUME NEW h \in 0 .. Len(R)
      PROVE  PlanTo(R, h) = Len(FlattenSeq(SubSeq(s, 1, h)))
  <2> DEFINE Q == SubSeq(R, 1, h)
             q == [i \in DOMAIN Q |-> ReplyParts(Q[i], i)]
  <2>1. DOMAIN Q = 1 .. h /\ \A i \in 1 .. h : Q[i] = R[i]
    BY <1>0
  <2>2. SubSeq(s, 1, h) = [i \in 1 .. h |-> s[i]]
    <3> HIDE DEF s
    <3>1. h \in Nat /\ h <= Len(s)
      BY <1>0, <1>2
    <3>2. SubSeq(s, 1, h) \in Seq(Seq(Nat \X Nat)) /\ Len(SubSeq(s, 1, h)) = h
      BY <1>2, <3>1
    <3>3. \A i \in 1 .. h : SubSeq(s, 1, h)[i] = s[i]
      BY <1>2, <3>1
    <3> QED BY <3>2, <3>3
  <2>3. ASSUME NEW i \in 1 .. h PROVE s[i] = ReplyParts(Q[i], i)
    <3>1. i \in 1 .. Len(R)
      BY <1>0
    <3> HIDE DEF Q, s
    <3> QED BY <1>2, <2>1, <3>1 DEF Part
  <2>4. q = SubSeq(s, 1, h)
    <3> HIDE DEF Q, s
    <3> QED BY <2>1, <2>2, <2>3
  <2>5. PlanTo(R, h) = Len(FlattenSeq(q))
    BY Zenon DEF PlanTo, Plan
  <2> QED BY <2>4, <2>5
<1> HIDE DEF s
<1>5. /\ FlattenSeq(s) \in Seq(Nat \X Nat)
      /\ \A h \in 0 .. Len(s) : /\ Len(FlattenSeq(SubSeq(s, 1, h))) \in Nat
                                /\ Len(FlattenSeq(SubSeq(s, 1, h))) <= Len(FlattenSeq(s))
      /\ Len(FlattenSeq(SubSeq(s, 1, 0))) = 0
      /\ Len(FlattenSeq(SubSeq(s, 1, Len(s)))) = Len(FlattenSeq(s))
      /\ \A h \in 1 .. Len(s) :
           /\ Len(FlattenSeq(SubSeq(s, 1, h)))
                = Len(FlattenSeq(SubSeq(s, 1, h - 1))) + Len(s[h])
           /\ \A k \in 1 .. Len(s[h]) :
                FlattenSeq(s)[Len(FlattenSeq(SubSeq(s, 1, h - 1))) + k] = s[h][k]
  BY <1>2, Layout
<1>6. ASSUME NEW h \in 1 .. Len(R)
      PROVE  /\ PlanTo(R, h) = PlanTo(R, h - 1) + 1 + DataOf(R[h])
             /\ \A k \in 0 .. DataOf(R[h]) : Plan(R)[PlanTo(R, h - 1) + 1 + k] = <<h, k>>
  <2>1. h \in 0 .. Len(R) /\ h - 1 \in 0 .. Len(R) /\ h \in 1 .. Len(s)
    BY <1>0, <1>2
  <2> DEFINE a == PlanTo(R, h - 1)  z == DataOf(R[h])
  <2> HIDE DEF a, z
  <2>2. a \in Nat /\ PlanTo(R, h) = a + Len(Part(h))
        /\ \A k \in 1 .. Len(Part(h)) : Plan(R)[a + k] = Part(h)[k]
    BY <1>2, <1>3, <1>4, <1>5, <2>1 DEF a
  <2>3. /\ Len(Part(h)) = 1 + z /\ z \in Nat
        /\ \A k \in 1 .. 1 + z : Part(h)[k] = <<h, k - 1>>
    BY <1>1 DEF z
  <2>4. ASSUME NEW k \in 0 .. z
        PROVE  Plan(R)[a + 1 + k] = <<h, k>>
    <3>1. k + 1 \in 1 .. 1 + z /\ a + 1 + k = a + (k + 1) /\ k + 1 - 1 = k
      <4>1. a \in Nat /\ z \in Nat /\ k \in 0 .. z
        BY <2>2, <2>3
      <4> QED BY <4>1
    <3> DEFINE j == k + 1
    <3> HIDE DEF j
    <3>2. j \in 1 .. Len(Part(h)) /\ j \in 1 .. 1 + z
      BY <2>3, <3>1 DEF j
    <3>3. Plan(R)[a + j] = <<h, j - 1>>
      BY <2>2, <2>3, <3>2
    <3>4. j - 1 = k /\ a + j = a + 1 + k
      BY <3>1 DEF j
    <3> QED BY <3>3, <3>4
  <2> QED BY <2>2, <2>3, <2>4 DEF a, z
<1>7. 0 \in 0 .. Len(R) /\ Len(R) \in 0 .. Len(R)
  BY <1>0
<1>8. Plan(R) \in Seq(Nat \X Nat) /\ Len(Plan(R)) \in Nat
  BY <1>3, <1>5
<1> QED BY <1>2, <1>3, <1>4, <1>5, <1>6, <1>7, <1>8

-----------------------------------------------------------------------------
(* Ranges, units and sockets *)

ClientProgram == [no_zeroes : BOOLEAN, options : Seq(Option), requests : Seq(Request)]

\* The checked sum refuses just what is not on the device, and what it lets through the
\* device does not refuse.
LEMMA BoundsAre ==
  ASSUME NEW r \in Request
  PROVE  /\ bounds_ok(r.offset, r.length) <=> r.offset + r.length <= device_size
         /\ bounds_ok(r.offset, r.length) => InDevice(r)
<1>1. /\ r.offset \in Nat /\ r.length \in Nat /\ device_size \in Nat /\ MAX \in Nat
      /\ MAX > device_size
  BY NbdAssumption DEF Request
<1> DEFINE a == r.offset + r.length
<1>2. a \in Nat /\ (a < MAX => a % MAX = a)
  BY <1>1
<1> QED BY <1>1, <1>2 DEF bounds_ok, InDevice

\* Before the first request every unit holds 0.
LEMMA UnitAtFirst ==
  ASSUME NEW R, NEW u
  PROVE  UnitAfter(R, 0, u) = 0
<1>1. {j \in 1 .. 0 : Writes(R[j], u)} = {}
  OBVIOUS
<1> QED BY <1>1 DEF UnitAfter

\* A unit keeps its value until it is written.
LEMMA UnitKept ==
  ASSUME NEW R, NEW u, NEW h \in Nat, NEW g \in Nat, g <= h,
         \A j \in g + 1 .. h : ~Writes(R[j], u)
  PROVE  UnitAfter(R, h, u) = UnitAfter(R, g, u)
<1>1. {j \in 1 .. h : Writes(R[j], u)} = {j \in 1 .. g : Writes(R[j], u)}
  OBVIOUS
<1> QED BY <1>1 DEF UnitAfter

\* A write that covers it sets it.
LEMMA UnitWritten ==
  ASSUME NEW R, NEW u, NEW h \in Nat \ {0}, Writes(R[h], u)
  PROVE  UnitAfter(R, h, u) = R[h].bytes[u - R[h].offset + 1]
<1> DEFINE W == {j \in 1 .. h : Writes(R[j], u)}
<1>1. h \in W /\ W \subseteq 1 .. h
  OBVIOUS
<1>2. IsFiniteSet(W)
  BY <1>1, FS_Interval, FS_Subset
<1>3. W \in SUBSET Int /\ W # {}
  BY <1>1
<1> HIDE DEF W
<1>4. Max(W) \in W /\ \A j \in W : j <= Max(W)
  BY <1>2, <1>3, MaxIsLargest
<1>5. Max(W) = h
  <2> DEFINE m == Max(W)
  <2> HIDE DEF m
  <2>1. m \in 1 .. h /\ h <= m
    BY <1>1, <1>4 DEF m
  <2> QED BY <2>1 DEF m
<1>6. UnitAfter(R, h, u) = IF W = {} THEN 0 ELSE LET r == R[Max(W)] IN r.bytes[u - r.offset + 1]
  BY Zenon DEF UnitAfter, W
<1> QED BY <1>3, <1>5, <1>6

\* Short sequences.
LEMMA Appended ==
  ASSUME NEW x, NEW y
  PROVE  Append(<<>>, y) = <<y>> /\ Append(<<x>>, y) = <<x, y>>
<1> DEFINE T == {x, y}
<1>1. <<>> \in Seq(T) /\ <<x>> \in Seq(T) /\ y \in T
  OBVIOUS
<1>2. Append(<<x>>, y) \in Seq(T) /\ <<x, y>> \in Seq(T)
  BY <1>1
<1>3. /\ Len(Append(<<x>>, y)) = 2 /\ Append(<<x>>, y)[1] = x /\ Append(<<x>>, y)[2] = y
      /\ Len(<<x, y>>) = 2
  BY <1>1
<1>4. Append(<<x>>, y) = <<x, y>>
  <2> DEFINE a == Append(<<x>>, y)  b == <<x, y>>
  <2>1. b[1] = x /\ b[2] = y
    OBVIOUS
  <2>2. a \in Seq(T) /\ b \in Seq(T) /\ Len(a) = Len(b) /\ \A i \in 1 .. Len(a) : a[i] = b[i]
    <3> HIDE DEF a, b
    <3> QED BY <1>2, <1>3, <2>1 DEF a, b
  <2> HIDE DEF a, b, T
  <2>3. a = b
    BY <2>2
  <2> QED BY <2>3 DEF a, b
<1> QED BY <1>1, <1>4

LEMMA Shortened ==
  ASSUME NEW x, NEW y
  PROVE  /\ Head(<<x>>) = x /\ Tail(<<x>>) = <<>>
         /\ Head(<<x, y>>) = x /\ Tail(<<x, y>>) = <<y>>
<1> DEFINE T == {x, y}
<1>1. <<x>> \in Seq(T) /\ <<x, y>> \in Seq(T) /\ <<y>> \in Seq(T)
  OBVIOUS
<1>2. Tail(<<x>>) = <<>> /\ Head(<<x>>) = x /\ Head(<<x, y>>) = x
  BY <1>1
<1>3. Tail(<<x, y>>) \in Seq(T) /\ Len(Tail(<<x, y>>)) = 1 /\ Tail(<<x, y>>)[1] = y
  BY <1>1
<1>4. Tail(<<x, y>>) = <<y>>
  BY <1>1, <1>3
<1> QED BY <1>2, <1>4

\* Taking from a socket, and adding to it.
LEMMA TakeFollows ==
  ASSUME NEW T, NEW q \in Seq(T), NEW s, NEW from \in Nat, NEW to \in Nat,
         Follows(q, s, from, to), q # <<>>
  PROVE  /\ Follows(Tail(q), s, from + 1, to) /\ Head(q) = s[from + 1] /\ from < to
<1>1. Len(q) \in Nat /\ Len(q) > 0 /\ Head(q) = q[1]
  OBVIOUS
<1>2. Tail(q) \in Seq(T) /\ Len(Tail(q)) = Len(q) - 1 /\ \A i \in 1 .. Len(q) - 1 : Tail(q)[i] = q[i + 1]
  BY <1>1
<1>3. \A i \in 1 .. Len(q) - 1 : Tail(q)[i] = s[from + 1 + i]
  <2> SUFFICES ASSUME NEW i \in 1 .. Len(q) - 1 PROVE Tail(q)[i] = s[from + 1 + i]
    OBVIOUS
  <2>1. i + 1 \in 1 .. Len(q) /\ from + (i + 1) = from + 1 + i
    BY <1>1
  <2>2. q[i + 1] = s[from + (i + 1)]
    BY <2>1 DEF Follows
  <2> QED BY <1>2, <2>1, <2>2
<1>4. from <= to /\ Len(q) = to - from /\ q[1] = s[from + 1]
  BY <1>1 DEF Follows
<1> QED BY <1>1, <1>2, <1>3, <1>4 DEF Follows

LEMMA AddFollows ==
  ASSUME NEW T, NEW q \in Seq(T), NEW s, NEW from \in Nat, NEW to \in Nat,
         Follows(q, s, from, to)
  PROVE  Follows(Append(q, s[to + 1]), s, from, to + 1)
<1> DEFINE x == s[to + 1]  a == Append(q, x)
<1>1. Len(q) \in Nat /\ from <= to /\ Len(q) = to - from /\ \A i \in 1 .. Len(q) : q[i] = s[from + i]
  BY DEF Follows
<1>2. Len(a) = Len(q) + 1 /\ a[Len(q) + 1] = x /\ \A i \in 1 .. Len(q) : a[i] = q[i]
  OBVIOUS
<1>3. from + (Len(q) + 1) = to + 1
  BY <1>1
<1>4. ASSUME NEW i \in 1 .. Len(q) + 1 PROVE a[i] = s[from + i]
  <2>1. CASE i = Len(q) + 1
    BY <1>2, <1>3, <2>1
  <2>2. CASE i # Len(q) + 1
    <3>1. i \in 1 .. Len(q)
      BY <1>1, <2>2
    <3> QED BY <1>1, <1>2, <3>1
  <2> QED BY <2>1, <2>2
<1> HIDE DEF a
<1> QED BY <1>1, <1>2, <1>4 DEF Follows, a

-----------------------------------------------------------------------------
(* What the client does to its connection *)

\* The client sends its flags.
LEMMA SendFlagsOK ==
  ASSUME NEW own, NEW p \in ClientProgram, NEW k \in ClientState, NEW in \in Seq(InToken),
         NEW sv \in ServerState, NEW wr, NEW fl, ConnectionOK(own, p, k, in, sv, wr, fl),
         k.phase = "flags", NEW k2 \in ClientState, k2 = [k EXCEPT !.phase = "option"]
  PROVE  ConnectionOK(own, p, k2, Append(in, Plain("flags")), sv, wr, fl)
<1>1. /\ k2.phase = "option" /\ k2.options = k.options /\ k2.sent = k.sent /\ k2.due = k.due
      /\ k2.answers = k.answers
  BY DEF ClientState
<1>2. in = <<>> /\ fl = <<>> /\ sv.phase = "flags"
  BY DEF ConnectionOK, NegotiationOK
<1>3. Append(in, Plain("flags")) = <<Plain("flags")>>
  BY <1>2
<1>4. FramingOK(p.requests, k2, <<Plain("flags")>>, sv, wr)
  BY <1>1, <1>2 DEF ConnectionOK, FramingOK, Serving, Negotiating
<1>5. NegotiationOK(p, k2, <<Plain("flags")>>, sv, fl)
  BY <1>1, <1>2 DEF ConnectionOK, NegotiationOK
<1>6. AnswersOK(own, p.requests, k2)
  BY <1>1 DEF ConnectionOK, AnswersOK
<1>7. RepliesOK(own, p, k2, sv, fl) /\ GivenOK(k2, sv, fl)
  BY <1>1 DEF ConnectionOK, RepliesOK, GivenOK, Given
<1> QED BY <1>3, <1>4, <1>5, <1>6, <1>7 DEF ConnectionOK

\* The client sends an option.
LEMMA SendOptionOK ==
  ASSUME NEW own, NEW p \in ClientProgram, NEW k \in ClientState, NEW in \in Seq(InToken),
         NEW sv \in ServerState, NEW wr, NEW fl, ConnectionOK(own, p, k, in, sv, wr, fl),
         k.phase = "option", NEW n, n = k.options + 1, n <= Len(p.options),
         NEW k2 \in ClientState, k2 = [k EXCEPT !.options = n, !.phase = "asked"]
  PROVE  ConnectionOK(own, p, k2, Append(in, OptionToken(p, n)), sv, wr, fl)
<1>1. /\ k2.phase = "asked" /\ k2.options = n /\ k2.sent = k.sent /\ k2.due = k.due
      /\ k2.answers = k.answers /\ n # 0
  BY DEF ClientState
<1> DEFINE t == OptionToken(p, n)
<1> HIDE DEF t
<1>2. /\ fl = <<>>
      /\ \/ sv.phase = "flags" /\ in = <<Plain("flags")>> /\ Append(in, t) = <<Plain("flags"), t>>
         \/ sv.phase = "options" /\ in = <<>> /\ Append(in, t) = <<t>>
  <2>1. /\ fl = <<>>
        /\ \/ sv.phase = "flags" /\ in = <<Plain("flags")>>
           \/ sv.phase = "options" /\ in = <<>>
    BY DEF ConnectionOK, NegotiationOK
  <2> DEFINE x == Plain("flags")
  <2> HIDE DEF x
  <2>2. Append(<<x>>, t) = <<x, t>> /\ Append(<<>>, t) = <<t>>
    BY Appended
  <2> QED BY <2>1, <2>2 DEF x
<1> DEFINE a == Append(in, t)
<1>3. FramingOK(p.requests, k2, a, sv, wr)
  BY <1>1, <1>2 DEF ConnectionOK, FramingOK, Serving, Negotiating
<1>4. NegotiationOK(p, k2, a, sv, fl)
  <2>1. OptionToken(p, k2.options) = t
    BY <1>1 DEF t
  <2> HIDE DEF a
  <2>2. \/ sv.phase = "flags" /\ a = <<Plain("flags"), t>>
        \/ sv.phase = "options" /\ a = <<t>>
    BY <1>2 DEF a
  <2> QED BY <1>1, <1>2, <2>1, <2>2 DEF ConnectionOK, NegotiationOK
<1>5. AnswersOK(own, p.requests, k2)
  BY <1>1 DEF ConnectionOK, AnswersOK
<1>6. RepliesOK(own, p, k2, sv, fl) /\ GivenOK(k2, sv, fl)
  BY <1>1 DEF ConnectionOK, RepliesOK, GivenOK, Given
<1> QED BY <1>3, <1>4, <1>5, <1>6 DEF ConnectionOK, t

\* The client sends the next token of its requests.
LEMMA SendRequestOK ==
  ASSUME NEW own, NEW p \in ClientProgram, NEW k \in ClientState, NEW in \in Seq(InToken),
         NEW sv \in ServerState, NEW wr, NEW fl, ConnectionOK(own, p, k, in, sv, wr, fl),
         k.phase = "ready", NEW n, n = k.sent + 1, n <= Len(Stream(p.requests)),
         NEW k2 \in ClientState, k2 = [k EXCEPT !.sent = n]
  PROVE  ConnectionOK(own, p, k2, Append(in, Stream(p.requests)[n]), sv, wr, fl)
<1> DEFINE R == p.requests  s == Stream(R)  a == Append(in, s[n])
<1>1. /\ k2.phase = "ready" /\ k2.options = k.options /\ k2.sent = n /\ k2.due = k.due
      /\ k2.answers = k.answers /\ k.sent \in Nat
  BY DEF ClientState
<1>2. R \in Seq(Request) /\ sv.phase \notin Negotiating
  BY DEF ClientProgram, ConnectionOK, NegotiationOK
<1>3. ASSUME sv.phase \in Serving \cup {"request"}
      PROVE  Follows(a, s, Taken(R, sv), n)
  <2>1. Follows(in, s, Taken(R, sv), k.sent)
    BY <1>3 DEF ConnectionOK, FramingOK
  <2>2. Taken(R, sv) \in Nat
    <3>1. /\ sv.handle \in 0 .. Len(R) /\ Len(sv.got) \in Nat
          /\ (sv.phase \in Serving => sv.handle - 1 \in 0 .. Len(R))
      BY <1>2 DEF ConnectionOK, FramingOK, ServerState
    <3> QED BY <1>2, <3>1, StreamPlaces DEF Taken
  <2> HIDE DEF s
  <2> QED BY <1>1, <2>1, <2>2, AddFollows
<1>4. FramingOK(R, k2, a, sv, wr)
  BY <1>1, <1>2, <1>3 DEF ConnectionOK, FramingOK
<1>5. NegotiationOK(p, k2, a, sv, fl)
  BY <1>1, <1>2 DEF ConnectionOK, NegotiationOK, Negotiating
<1>6. AnswersOK(own, R, k2)
  BY <1>1 DEF ConnectionOK, AnswersOK
<1>7. RepliesOK(own, p, k2, sv, fl) /\ GivenOK(k2, sv, fl)
  BY <1>1 DEF ConnectionOK, RepliesOK, GivenOK, Given
<1> QED BY <1>4, <1>5, <1>6, <1>7 DEF ConnectionOK

\* The client closes its socket.
LEMMA HangUpOK ==
  ASSUME NEW own, NEW p \in ClientProgram, NEW k \in ClientState, NEW in \in Seq(InToken),
         NEW sv \in ServerState, NEW wr, NEW fl, ConnectionOK(own, p, k, in, sv, wr, fl),
         NEW k2 \in ClientState, k2 = [k EXCEPT !.phase = "gone"]
  PROVE  ConnectionOK(own, p, k2, in, sv, wr, fl)
<1>1. /\ k2.phase = "gone" /\ k2.options = k.options /\ k2.sent = k.sent /\ k2.due = k.due
      /\ k2.answers = k.answers
  BY DEF ClientState
<1>2. FramingOK(p.requests, k2, in, sv, wr)
  BY <1>1 DEF ConnectionOK, FramingOK
<1>3. NegotiationOK(p, k2, in, sv, fl)
  BY <1>1 DEF ConnectionOK, NegotiationOK
<1>4. AnswersOK(own, p.requests, k2)
  BY <1>1 DEF ConnectionOK, AnswersOK
<1>5. RepliesOK(own, p, k2, sv, fl) /\ GivenOK(k2, sv, fl)
  BY <1>1 DEF ConnectionOK, RepliesOK, GivenOK, Given
<1> QED BY <1>2, <1>3, <1>4, <1>5 DEF ConnectionOK

\* What a client that is not yet ready makes of what it is sent.
LEMMA UnderstoodEarly ==
  ASSUME NEW k \in ClientState, NEW p, NEW t
  PROVE  /\ k.phase = "greeting" /\ t = Plain("greeting")
              => Understood(k, p, t) = [k EXCEPT !.phase = "flags"]
         /\ k.phase = "asked" /\ t = OptionReply("INFO") => Understood(k, p, t) = k
         /\ k.phase = "asked" /\ t = OptionReply("ACK")
              => Understood(k, p, t) = [k EXCEPT !.phase = "ready"]
         /\ k.phase = "asked" /\ t \in {OptionReply("ERR_INVALID"), OptionReply("ERR_UNSUP")}
              => Understood(k, p, t) = [k EXCEPT !.phase = "option"]
         /\ k.phase = "asked" /\ t = Plain("info")
              => Understood(k, p, t) = [k EXCEPT !.phase = IF p.no_zeroes THEN "ready" ELSE "zeroes"]
         /\ k.phase = "zeroes" /\ t = Plain("zeroes")
              => Understood(k, p, t) = [k EXCEPT !.phase = "ready"]
         /\ k.phase = "ready" /\ t = Plain("zeroes")
              => Understood(k, p, t) = [k EXCEPT !.phase = "confused"]
         /\ k.phase = "confused" => Understood(k, p, t) = [k EXCEPT !.phase = "confused"]
<1>1. /\ Plain("greeting").kind = "greeting" /\ Plain("info").kind = "info"
      /\ Plain("zeroes").kind = "zeroes"
      /\ \A r \in {"INFO", "ACK", "ERR_INVALID", "ERR_UNSUP"} :
           OptionReply(r).kind = "option reply" /\ OptionReply(r).reply = r
  BY DEF Plain, OptionReply
<1>2. CASE k.phase = "greeting"
  BY <1>1, <1>2 DEF Understood
<1>3. CASE k.phase = "asked"
  <2>1. CASE t = OptionReply("INFO")
    BY <1>1, <1>3, <2>1 DEF Understood, OptionReply, Plain
  <2>2. CASE t = OptionReply("ACK")
    BY <1>1, <1>3, <2>2 DEF Understood, OptionReply, Plain
  <2>3. CASE t \in {OptionReply("ERR_INVALID"), OptionReply("ERR_UNSUP")}
    BY <1>1, <1>3, <2>3 DEF Understood, OptionReply, Plain
  <2>4. CASE t = Plain("info")
    BY <1>1, <1>3, <2>4 DEF Understood, OptionReply, Plain
  <2> QED BY <1>3, <2>1, <2>2, <2>3, <2>4
<1>4. CASE k.phase = "zeroes"
  BY <1>1, <1>4 DEF Understood
<1>5. CASE k.phase = "ready"
  BY <1>1, <1>5 DEF Understood
<1>6. CASE k.phase = "confused"
  BY <1>6 DEF Understood
<1> QED BY <1>2, <1>3, <1>4, <1>5, <1>6

\* An error is one of the protocol's.
LEMMA OutcomeIs ==
  ASSUME NEW r
  PROVE  Outcome(r) \in Errors
BY Zenon DEF Outcome, Errors

\* A token less is on its way.
LEMMA TailGiven ==
  ASSUME NEW k, NEW k2, NEW fl \in Seq(OutToken), fl # <<>>,
         DOMAIN k2.answers \subseteq Given(k, fl)
  PROVE  Given(k2, Tail(fl)) \subseteq Given(k, fl)
<1>1. Len(fl) \in Nat \ {0} /\ DOMAIN Tail(fl) = 1 .. Len(fl) - 1 /\ DOMAIN fl = 1 .. Len(fl)
  OBVIOUS
<1>2. \A i \in DOMAIN Tail(fl) : i + 1 \in DOMAIN fl /\ Tail(fl)[i] = fl[i + 1]
  BY <1>1
<1> QED BY <1>2 DEF Given

LEMMA LessGiven ==
  ASSUME NEW k, NEW k2, NEW sv, NEW fl, NEW fl2, GivenOK(k, sv, fl),
         Given(k2, fl2) \subseteq Given(k, fl)
  PROVE  GivenOK(k2, sv, fl2)
BY DEF GivenOK

\* The client takes a token while it negotiates, or one it cannot make sense of.
LEMMA ReceiveEarlyOK ==
  ASSUME NEW own, NEW p \in ClientProgram, NEW k \in ClientState, NEW in \in Seq(InToken),
         NEW sv \in ServerState, NEW wr, NEW fl \in Seq(OutToken), fl # <<>>,
         ConnectionOK(own, p, k, in, sv, wr, fl), k.phase # "gone",
         k.phase = "ready" => ~Keeps(p) /\ k.answers = <<>> /\ fl[1] = Plain("zeroes")
  PROVE  LET k2 == Understood(k, p, Head(fl))
         IN  /\ ConnectionOK(own, p, k2, in, sv, wr, Tail(fl)) /\ k2 \in ClientState
             /\ Given(k2, Tail(fl)) \subseteq Given(k, fl)
<1> DEFINE k2 == Understood(k, p, Head(fl))  t == Head(fl)  rest == Tail(fl)  R == p.requests
<1>0. /\ t = fl[1] /\ R \in Seq(Request) /\ \A x, y : fl = <<x, y>> => t = x /\ rest = <<y>>
      /\ \A x : fl = <<x>> => t = x /\ rest = <<>>
  <2>1. t = fl[1] /\ R \in Seq(Request)
    BY DEF ClientProgram
  <2>2. ASSUME NEW x, NEW y, fl = <<x, y>> PROVE t = x /\ rest = <<y>>
    BY <2>2, Shortened
  <2>3. ASSUME NEW x, fl = <<x>> PROVE t = x /\ rest = <<>>
    BY <2>3, Shortened
  <2> HIDE DEF t, rest
  <2> QED BY <2>1, <2>2, <2>3
<1>1. \E phase \in {"flags", "option", "asked", "zeroes", "ready", "confused"} :
        /\ k2 = [k EXCEPT !.phase = phase]
        /\ k.phase = "greeting" => phase = "flags" /\ sv.phase = "flags" /\ in = <<>> /\ rest = <<>>
        /\ k.phase = "asked" =>
             \/ phase = "option" /\ sv.phase = "options" /\ in = <<>> /\ rest = <<>>
             \/ phase = "asked" /\ sv.phase = "request" /\ sv.handle = 0 /\ rest = <<OptionReply("ACK")>>
             \/ phase = "ready" /\ sv.phase = "request" /\ sv.handle = 0 /\ rest = <<>>
             \/ /\ phase = IF p.no_zeroes THEN "ready" ELSE "zeroes"
                /\ sv.phase = "request" /\ sv.handle = 0 /\ rest = <<Plain("zeroes")>>
                /\ p.options[k.options].option = "EXPORT_NAME"
        /\ k.phase = "zeroes" => /\ phase = "ready" /\ sv.phase = "request" /\ sv.handle = 0
                                 /\ rest = <<>>
        /\ k.phase \in {"ready", "confused"} => phase = "confused"
        /\ k.phase \notin {"flags", "option"}
  <2> HIDE DEF t, rest
  <2>1. NegotiationOK(p, k, in, sv, fl) /\ k2 = Understood(k, p, t)
    BY DEF ConnectionOK, t
  <2> HIDE DEF k2
  <2>2. CASE k.phase = "greeting"
    BY <1>0, <2>1, <2>2, UnderstoodEarly DEF NegotiationOK
  <2>3. CASE k.phase = "asked"
    <3>1. CASE sv.phase = "options" /\ in = <<>> /\ \E reply \in {"ERR_INVALID", "ERR_UNSUP"} : fl = <<OptionReply(reply)>>
      BY <1>0, <2>1, <2>3, <3>1, UnderstoodEarly
    <3>2. CASE sv.phase = "request" /\ sv.handle = 0 /\ fl = <<OptionReply("INFO"), OptionReply("ACK")>>
      <4>1. k2 = k /\ rest = <<OptionReply("ACK")>> /\ k = [k EXCEPT !.phase = "asked"]
        <5>1. t = OptionReply("INFO") /\ rest = <<OptionReply("ACK")>>
          BY <1>0, <3>2
        <5>2. k2 = k
          BY <2>1, <2>3, <5>1, UnderstoodEarly
        <5>3. k = [k EXCEPT !.phase = "asked"]
          BY <2>3 DEF ClientState
        <5> QED BY <5>1, <5>2, <5>3
      <4> QED BY <2>3, <3>2, <4>1
    <3>3. CASE sv.phase = "request" /\ sv.handle = 0 /\ fl = <<OptionReply("ACK")>>
      BY <1>0, <2>1, <2>3, <3>3, UnderstoodEarly
    <3>4. CASE /\ sv.phase = "request" /\ sv.handle = 0 /\ fl = <<Plain("info"), Plain("zeroes")>>
               /\ p.options[k.options].option = "EXPORT_NAME"
      <4>1. /\ k2 = [k EXCEPT !.phase = IF p.no_zeroes THEN "ready" ELSE "zeroes"]
            /\ rest = <<Plain("zeroes")>>
        BY <1>0, <2>1, <2>3, <3>4, UnderstoodEarly
      <4> QED BY <2>3, <3>4, <4>1
    <3> QED BY <2>1, <2>3, <3>1, <3>2, <3>3, <3>4 DEF NegotiationOK
  <2>4. CASE k.phase = "zeroes"
    BY <1>0, <2>1, <2>4, UnderstoodEarly DEF NegotiationOK
  <2>5. CASE k.phase \in {"ready", "confused"}
    <3>1. k2 = [k EXCEPT !.phase = "confused"]
      <4>1. CASE k.phase = "ready"
        <5>1. t = Plain("zeroes")
          BY <1>0, <4>1
        <5> QED BY <2>1, <4>1, <5>1, UnderstoodEarly
      <4>2. CASE k.phase = "confused"
        BY <2>1, <4>2, UnderstoodEarly
      <4> QED BY <2>5, <4>1, <4>2
    <3> QED BY <2>5, <3>1
  <2>6. k.phase \notin {"flags", "option"}
    BY <2>1 DEF NegotiationOK
  <2> QED BY <2>2, <2>3, <2>4, <2>5, <2>6 DEF ClientState
<1> HIDE DEF k2, t, rest
<1>2. PICK phase \in {"flags", "option", "asked", "zeroes", "ready", "confused"} :
        /\ k2 = [k EXCEPT !.phase = phase]
        /\ k.phase = "greeting" => phase = "flags" /\ sv.phase = "flags" /\ in = <<>> /\ rest = <<>>
        /\ k.phase = "asked" =>
             \/ phase = "option" /\ sv.phase = "options" /\ in = <<>> /\ rest = <<>>
             \/ phase = "asked" /\ sv.phase = "request" /\ sv.handle = 0 /\ rest = <<OptionReply("ACK")>>
             \/ phase = "ready" /\ sv.phase = "request" /\ sv.handle = 0 /\ rest = <<>>
             \/ /\ phase = IF p.no_zeroes THEN "ready" ELSE "zeroes"
                /\ sv.phase = "request" /\ sv.handle = 0 /\ rest = <<Plain("zeroes")>>
                /\ p.options[k.options].option = "EXPORT_NAME"
        /\ k.phase = "zeroes" => /\ phase = "ready" /\ sv.phase = "request" /\ sv.handle = 0
                                 /\ rest = <<>>
        /\ k.phase \in {"ready", "confused"} => phase = "confused"
        /\ k.phase \notin {"flags", "option"}
  BY <1>1
<1>3. /\ k2.phase = phase /\ k2.options = k.options /\ k2.sent = k.sent /\ k2.due = k.due
      /\ k2.answers = k.answers /\ k2 \in ClientState
  BY <1>2 DEF ClientState
<1>4. k.phase \in {"greeting", "asked", "zeroes", "ready", "confused"}
  BY <1>2 DEF ClientState
<1>5. k.answers = <<>> /\ k.due = 0
  BY <1>4 DEF ConnectionOK, NegotiationOK, AnswersOK
<1>6. FramingOK(R, k2, in, sv, wr)
  BY <1>3 DEF ConnectionOK, FramingOK
<1>7. k.phase = "asked" /\ rest = <<Plain("zeroes")>> /\ phase = "ready" => ~Keeps(p)
  <2> SUFFICES ASSUME k.phase = "asked", rest = <<Plain("zeroes")>>, phase = "ready" PROVE ~Keeps(p)
    OBVIOUS
  <2>1. rest # <<>> /\ rest # <<OptionReply("ACK")>>
    BY DEF Plain, OptionReply
  <2>2. p.no_zeroes /\ p.options[k.options].option = "EXPORT_NAME"
    BY <1>2, <2>1
  <2>3. k.options \in DOMAIN p.options
    <3>1. k.options # 0 /\ k.options <= Len(p.options)
      BY DEF ConnectionOK, NegotiationOK
    <3> QED BY <3>1 DEF ClientState, ClientProgram
  <2> QED BY <2>2, <2>3 DEF Keeps
<1>8. NegotiationOK(p, k2, in, sv, rest)
  <2>1. NegotiationOK(p, k, in, sv, fl)
    BY DEF ConnectionOK
  <2>2. OptionToken(p, k2.options) = OptionToken(p, k.options)
    BY <1>3
  <2>3. CASE k.phase = "greeting"
    BY <1>2, <1>3, <1>5, <2>1, <2>2, <2>3 DEF NegotiationOK
  <2>4. CASE k.phase = "asked"
    BY <1>2, <1>3, <1>5, <2>1, <2>2, <2>4 DEF NegotiationOK, Negotiating
  <2>5. CASE k.phase = "zeroes"
    BY <1>2, <1>3, <1>5, <2>1, <2>2, <2>5 DEF NegotiationOK, Negotiating
  <2>6. CASE k.phase \in {"ready", "confused"}
    BY <1>2, <1>3, <1>5, <2>1, <2>2, <2>6 DEF NegotiationOK
  <2> QED BY <1>4, <2>3, <2>4, <2>5, <2>6
<1>9. AnswersOK(own, R, k2)
  BY <1>3 DEF ConnectionOK, AnswersOK
<1>10. RepliesOK(own, p, k2, sv, rest)
  <2> SUFFICES ASSUME phase = "ready" PROVE RepliesOK(own, p, k2, sv, rest)
    BY <1>3 DEF RepliesOK
  <2>1. CASE rest = <<Plain("zeroes")>>
    <3>1. rest # <<>> /\ rest[1] = Plain("zeroes")
      BY <2>1
    <3>2. k.phase = "asked"
      BY <1>2, <1>4, <3>1
    <3> QED BY <1>3, <1>5, <1>7, <2>1, <3>1, <3>2 DEF RepliesOK
  <2>2. CASE rest # <<Plain("zeroes")>>
    <3>1. rest = <<>> /\ sv.phase = "request" /\ sv.handle = 0
      BY <1>2, <1>4, <2>2
    <3>2. PlanTo(R, 0) = 0 /\ Len(Plan(R)) \in Nat
      BY <1>0, PlanPlaces
    <3>3. Len(k2.answers) = 0 /\ k2.due = 0 /\ Len(rest) = 0
      BY <1>3, <1>5, <3>1
    <3>4. PlanTo(R, Len(k2.answers)) - k2.due = 0
      BY <3>2, <3>3
    <3> QED BY <3>1, <3>2, <3>3, <3>4 DEF RepliesOK, Serving
  <2> QED BY <2>1, <2>2
<1>11. Given(k2, rest) \subseteq Given(k, fl)
  <2>1. DOMAIN k2.answers \subseteq Given(k, fl)
    BY <1>3 DEF Given
  <2> QED BY <2>1, TailGiven DEF rest
<1>12. GivenOK(k2, sv, rest)
  BY <1>11, LessGiven DEF ConnectionOK
<1>13. ConnectionOK(own, p, k2, in, sv, wr, rest)
  BY <1>6, <1>8, <1>9, <1>10, <1>12 DEF ConnectionOK
<1> QED BY <1>3, <1>11, <1>13 DEF k2, rest

\* What is left of the replies after the first token.
LEMMA RepliesAfter ==
  ASSUME NEW own, NEW R, NEW fl \in Seq(OutToken), fl # <<>>, NEW told \in Nat, NEW all,
         told + Len(fl) <= Len(Plan(R)), Len(Plan(R)) \in Nat,
         \A i \in 1 .. Len(fl) : Fits(own, R, fl[i], Plan(R)[told + i])
  PROVE  /\ (told + 1) + Len(Tail(fl)) = told + Len(fl)
         /\ \A i \in 1 .. Len(Tail(fl)) : Fits(own, R, Tail(fl)[i], Plan(R)[told + 1 + i])
         /\ Fits(own, R, Head(fl), Plan(R)[told + 1])
<1>1. Len(fl) \in Nat \ {0} /\ Len(Tail(fl)) = Len(fl) - 1 /\ Head(fl) = fl[1]
  OBVIOUS
<1>2. ASSUME NEW i \in 1 .. Len(Tail(fl)) PROVE Fits(own, R, Tail(fl)[i], Plan(R)[told + 1 + i])
  <2>1. i + 1 \in 1 .. Len(fl) /\ told + (i + 1) = told + 1 + i /\ Tail(fl)[i] = fl[i + 1]
    BY <1>1
  <2>2. Fits(own, R, fl[i + 1], Plan(R)[told + (i + 1)])
    BY <2>1
  <2> QED BY <2>1, <2>2
<1> QED BY <1>1, <1>2

\* The client takes a reply.
LEMMA ReceiveReplyOK ==
  ASSUME NEW own, NEW p \in ClientProgram, NEW k \in ClientState, NEW in \in Seq(InToken),
         NEW sv \in ServerState, NEW wr, NEW fl \in Seq(OutToken), fl # <<>>,
         ConnectionOK(own, p, k, in, sv, wr, fl), k.phase = "ready", k.due = 0,
         ~(~Keeps(p) /\ k.answers = <<>> /\ fl[1] = Plain("zeroes"))
  PROVE  LET k2 == Understood(k, p, Head(fl))
         IN  /\ ConnectionOK(own, p, k2, in, sv, wr, Tail(fl)) /\ k2 \in ClientState
             /\ Given(k2, Tail(fl)) \subseteq Given(k, fl)
<1> DEFINE R == p.requests  n == Len(k.answers)  h == n + 1  t == Head(fl)  k2 == Understood(k, p, t)
           rest == Tail(fl)  told == PlanTo(R, n)
<1>0. /\ R \in Seq(Request) /\ Len(R) \in Nat /\ n \in Nat /\ n <= Len(R) /\ Len(fl) \in Nat \ {0}
      /\ k.answers \in Seq([error : Errors, data : Seq(Value)])
  BY DEF ClientProgram, ClientState, ConnectionOK, AnswersOK
<1>1. /\ told \in Nat /\ Len(Plan(R)) \in Nat /\ PlanTo(R, Len(R)) = Len(Plan(R))
      /\ n < Len(R) => /\ PlanTo(R, h) = told + 1 + DataOf(R[h]) /\ DataOf(R[h]) \in Nat
                       /\ Plan(R)[told + 1] = <<h, 0>>
  <2>1. n \in 0 .. Len(R)
    BY <1>0
  <2>2. told \in Nat /\ Len(Plan(R)) \in Nat /\ PlanTo(R, Len(R)) = Len(Plan(R))
    BY <1>0, <2>1, PlanPlaces
  <2>3. ASSUME n < Len(R)
        PROVE  /\ PlanTo(R, h) = told + 1 + DataOf(R[h]) /\ DataOf(R[h]) \in Nat
               /\ Plan(R)[told + 1] = <<h, 0>>
    <3>1. h \in 1 .. Len(R) /\ h - 1 = n
      BY <1>0, <2>3
    <3>2. R[h] \in Request
      BY <1>0, <3>1
    <3>3. DataOf(R[h]) \in Nat
      BY <3>2 DEF DataOf, Request
    <3>4. 0 \in 0 .. DataOf(R[h])
      BY <3>3
    <3>5. PlanTo(R, h) = PlanTo(R, h - 1) + 1 + DataOf(R[h])
      BY <1>0, <3>1, PlanPlaces
    <3>6. Plan(R)[PlanTo(R, h - 1) + 1 + 0] = <<h, 0>>
      BY <1>0, <3>1, <3>4, PlanPlaces
    <3>7. PlanTo(R, h - 1) + 1 + 0 = told + 1
      BY <2>2, <3>1
    <3> QED BY <3>1, <3>3, <3>5, <3>6, <3>7
  <2> QED BY <2>2, <2>3
<1>2. /\ told - k.due = told
      /\ told + Len(fl) <= Len(Plan(R))
      /\ \A i \in 1 .. Len(fl) : Fits(own, R, fl[i], Plan(R)[told + i])
      /\ sv.phase = "request" => told + Len(fl) = PlanTo(R, sv.handle)
      /\ sv.phase \in Serving => told + Len(fl) = PlanTo(R, sv.handle - 1)
  <2>1. told - k.due = told
    BY <1>1
  <2> QED BY <2>1 DEF ConnectionOK, RepliesOK
<1> HIDE DEF told, rest
<1>3. n < Len(R)
  <2>1. told # Len(Plan(R))
    BY <1>0, <1>1, <1>2
  <2>2. n # Len(R)
    BY <1>1, <2>1 DEF told
  <2> QED BY <1>0, <2>2
<1>4. h \in 1 .. Len(R) /\ R[h] \in Request
  BY <1>0, <1>3
<1>5. /\ (told + 1) + Len(rest) = told + Len(fl)
      /\ \A i \in 1 .. Len(rest) : Fits(own, R, rest[i], Plan(R)[told + 1 + i])
      /\ Fits(own, R, t, Plan(R)[told + 1])
  BY <1>1, <1>2, RepliesAfter DEF rest
<1>6. t = Reply(Outcome(R[h]), h)
  BY <1>1, <1>3, <1>5 DEF Fits
<1>7. t.kind = "reply" /\ t.handle = h /\ t.error = Outcome(R[h])
  BY <1>6 DEF Reply
<1>8. (IF t.error = "OK" /\ R[h].command = "READ" THEN R[h].length ELSE 0) = DataOf(R[h])
  BY <1>7 DEF Outcome, DataOf
<1> DEFINE a == [error |-> Outcome(R[h]), data |-> <<>>]
<1>9. a \in [error : Errors, data : Seq(Value)]
  <2>1. Outcome(R[h]) \in Errors
    BY OutcomeIs
  <2> DEFINE e == Outcome(R[h])
  <2> HIDE DEF e
  <2>2. e \in Errors /\ <<>> \in Seq(Value) /\ a = [error |-> e, data |-> <<>>]
    BY <2>1 DEF e
  <2> HIDE DEF a
  <2> QED BY <2>2
<1>10. /\ k2 \in ClientState /\ k2.phase = "ready" /\ k2.options = k.options /\ k2.sent = k.sent
       /\ k2.due = DataOf(R[h]) /\ k2.answers = Append(k.answers, a)
  <2> DEFINE b == Append(k.answers, a)  due == DataOf(R[h])
  <2>1. h = Len(k.answers) + 1 /\ k2 = Understood(k, p, t)
    OBVIOUS
  <2>2. b = Append(k.answers, a) /\ a = [error |-> t.error, data |-> <<>>]
    BY <1>7, Zenon
  <2>3. due = IF t.error = "OK" /\ p.requests[h].command = "READ" THEN p.requests[h].length ELSE 0
    BY <1>8
  <2> HIDE DEF a
  <2>4. b \in Seq([error : Errors, data : Seq(Value)]) /\ due \in Nat
    BY <1>0, <1>1, <1>3, <1>9
  <2> HIDE DEF b, due, k2, h, t
  <2>5. /\ k2 \in ClientState /\ k2.phase = "ready" /\ k2.options = k.options /\ k2.sent = k.sent
        /\ k2.due = due /\ k2.answers = b
    <3> DEFINE x == Append(k.answers, [error |-> t.error, data |-> <<>>])
               e == IF t.error = "OK" /\ p.requests[h].command = "READ" THEN p.requests[h].length ELSE 0
    <3>1. t.kind = "reply" /\ t.handle = h
      BY <1>7
    <3>2. Understood(k, p, t) = [k EXCEPT !.answers = x, !.due = e]
      BY <2>1, <3>1 DEF Understood
    <3>3. b = x /\ due = e
      BY <2>2, <2>3, Zenon
    <3> HIDE DEF x, e
    <3>4. k2 = [k EXCEPT !.answers = b, !.due = due]
      BY <2>1, <3>2, <3>3, Zenon
    <3> QED BY <2>4, <3>4 DEF ClientState
  <2> QED BY <2>5 DEF b, due
<1> HIDE DEF k2
<1>13. /\ Len(k2.answers) = h /\ k2.answers[h] = a
       /\ \A i \in 1 .. n : k2.answers[i] = k.answers[i]
       /\ DOMAIN k2.answers = 1 .. h /\ DOMAIN k.answers = 1 .. n
  <2> HIDE DEF a
  <2> QED BY <1>0, <1>9, <1>10
<1>14. FramingOK(R, k2, in, sv, wr)
  BY <1>10 DEF ConnectionOK, FramingOK
<1>15. NegotiationOK(p, k2, in, sv, rest)
  <2>1. OptionToken(p, k2.options) = OptionToken(p, k.options)
    BY <1>10
  <2> HIDE DEF a
  <2> QED BY <1>10, <2>1 DEF ConnectionOK, NegotiationOK
<1>16. AnswersOK(own, R, k2)
  <2>1. Len(k2.answers) <= Len(R) /\ k2.answers # <<>>
    BY <1>0, <1>4, <1>13
  <2>2. ASSUME NEW i \in DOMAIN k2.answers
        PROVE  /\ k2.answers[i].error = Outcome(R[i])
               /\ \A j \in DOMAIN k2.answers[i].data : UnitOK(own, R, i, j, k2.answers[i].data[j])
               /\ i = Len(k2.answers) => Len(k2.answers[i].data) + k2.due = DataOf(R[i])
    <3>1. CASE i = h
      <4>1. k2.answers[i] = a
        BY <1>13, <3>1
      <4>2. a.error = Outcome(R[h]) /\ DOMAIN a.data = {} /\ Len(a.data) = 0
        OBVIOUS
      <4>3. 0 + DataOf(R[h]) = DataOf(R[h])
        BY <1>1, <1>3
      <4> HIDE DEF a
      <4> QED BY <1>10, <3>1, <4>1, <4>2, <4>3
    <3>2. CASE i # h
      <4>1. i \in 1 .. n /\ k2.answers[i] = k.answers[i] /\ i # Len(k2.answers)
        BY <1>0, <1>13, <3>2
      <4>2. i \in DOMAIN k.answers
        BY <1>13, <4>1
      <4> QED BY <4>1, <4>2 DEF ConnectionOK, AnswersOK
    <3> QED BY <3>1, <3>2
  <2> QED BY <2>1, <2>2 DEF AnswersOK
<1>17. RepliesOK(own, p, k2, sv, rest)
  <2>1. PlanTo(R, Len(k2.answers)) - k2.due = told + 1
    BY <1>1, <1>3, <1>10, <1>13
  <2> QED BY <1>2, <1>5, <2>1 DEF RepliesOK
<1>18. Given(k2, rest) \subseteq Given(k, fl)
  <2>1. h \in Given(k, fl)
    <3>1. 1 \in DOMAIN fl /\ fl[1] = t
      BY <1>0
    <3> QED BY <1>7, <3>1 DEF Given
  <2>2. 1 .. n \subseteq Given(k, fl)
    BY <1>13 DEF Given
  <2>3. DOMAIN k2.answers \subseteq Given(k, fl)
    BY <1>0, <1>13, <2>1, <2>2
  <2> QED BY <2>3, TailGiven DEF rest
<1>19. GivenOK(k2, sv, rest)
  BY <1>18, LessGiven DEF ConnectionOK
<1>20. ConnectionOK(own, p, k2, in, sv, wr, rest)
  BY <1>14, <1>15, <1>16, <1>17, <1>19 DEF ConnectionOK
<1> QED BY <1>10, <1>18, <1>20 DEF k2, rest

\* The client takes a unit of data.
LEMMA ReceiveDataOK ==
  ASSUME NEW own, NEW p \in ClientProgram, NEW k \in ClientState, NEW in \in Seq(InToken),
         NEW sv \in ServerState, NEW wr, NEW fl \in Seq(OutToken), fl # <<>>,
         ConnectionOK(own, p, k, in, sv, wr, fl), k.phase = "ready", k.due > 0
  PROVE  LET k2 == Understood(k, p, Head(fl))
         IN  /\ ConnectionOK(own, p, k2, in, sv, wr, Tail(fl)) /\ k2 \in ClientState
             /\ Given(k2, Tail(fl)) \subseteq Given(k, fl)
<1> DEFINE R == p.requests  n == Len(k.answers)  t == Head(fl)  k2 == Understood(k, p, t)
           rest == Tail(fl)  told == PlanTo(R, n) - k.due  a == k.answers[n]  q == Len(a.data) + 1
           A == [error : Errors, data : Seq(Value)]
<1>0. /\ R \in Seq(Request) /\ Len(R) \in Nat /\ Len(fl) \in Nat \ {0} /\ k.due \in Nat \ {0}
      /\ k.answers \in Seq(A)
  BY DEF ClientProgram, ClientState
<1>1. /\ n \in 1 .. Len(R) /\ n \in DOMAIN k.answers
      /\ a.error = Outcome(R[n]) /\ \A j \in DOMAIN a.data : UnitOK(own, R, n, j, a.data[j])
      /\ Len(a.data) + k.due = DataOf(R[n])
  <2>1. k.answers # <<>> /\ n <= Len(R)
    BY <1>0 DEF ConnectionOK, AnswersOK
  <2>2. n \in 1 .. Len(R) /\ n \in DOMAIN k.answers
    BY <1>0, <2>1
  <2> QED BY <2>2 DEF ConnectionOK, AnswersOK
<1>2. a \in A /\ a.data \in Seq(Value) /\ Len(a.data) \in Nat /\ DOMAIN a.data = 1 .. Len(a.data)
  <2>1. a \in A
    <3> HIDE DEF A
    <3> QED BY <1>0, <1>1
  <2> HIDE DEF a
  <2> QED BY <2>1
<1>3. /\ told \in Nat /\ Len(Plan(R)) \in Nat /\ Plan(R)[told + 1] = <<n, q>>
      /\ PlanTo(R, n) = told + k.due
  <2> HIDE DEF a, told, n, q
  <2>1. /\ q \in 0 .. DataOf(R[n]) /\ q \in Nat \ {0} /\ DataOf(R[n]) \in Nat /\ n - 1 \in 0 .. Len(R)
        /\ DataOf(R[n]) = q - 1 + k.due
    <3> DEFINE l == Len(a.data)  d == DataOf(R[n])  e == k.due  m == Len(R)
    <3>1. l \in Nat /\ e \in Nat \ {0} /\ l + e = d /\ q = l + 1 /\ n \in 1 .. m /\ m \in Nat
      BY <1>0, <1>1, <1>2 DEF q
    <3> HIDE DEF l, d, e, m
    <3>2. q \in 0 .. d /\ q \in Nat \ {0} /\ d \in Nat /\ n - 1 \in 0 .. m /\ d = q - 1 + e
      BY <3>1
    <3> QED BY <3>2 DEF d, e, m
  <2>2. /\ PlanTo(R, n) = PlanTo(R, n - 1) + 1 + DataOf(R[n]) /\ PlanTo(R, n - 1) \in Nat
        /\ Plan(R)[PlanTo(R, n - 1) + 1 + q] = <<n, q>> /\ Len(Plan(R)) \in Nat
    BY <1>0, <1>1, <2>1, PlanPlaces
  <2> DEFINE b == PlanTo(R, n - 1)  d == DataOf(R[n])
  <2>3. told = PlanTo(R, n) - k.due
    BY DEF told
  <2> HIDE DEF b, d
  <2>4. told \in Nat /\ told + 1 = b + 1 + q /\ PlanTo(R, n) = told + k.due
    <3>1. /\ b \in Nat /\ d \in Nat /\ PlanTo(R, n) = b + 1 + d /\ d = q - 1 + k.due
          /\ q \in Nat /\ k.due \in Nat
      BY <1>0, <2>1, <2>2 DEF b, d
    <3> DEFINE x == PlanTo(R, n)  e == k.due
    <3> HIDE DEF x, e
    <3>2. b \in Nat /\ d \in Nat /\ x = b + 1 + d /\ d = q - 1 + e /\ q \in Nat \ {0} /\ e \in Nat /\ told = x - e
      BY <2>1, <2>3, <3>1 DEF x, e
    <3>3. told \in Nat /\ told + 1 = b + 1 + q /\ x = told + e
      BY <3>2
    <3> QED BY <3>3 DEF x, e
  <2> QED BY <2>2, <2>4 DEF b
<1>4. /\ told + Len(fl) <= Len(Plan(R))
      /\ \A i \in 1 .. Len(fl) : Fits(own, R, fl[i], Plan(R)[told + i])
      /\ sv.phase = "request" => told + Len(fl) = PlanTo(R, sv.handle)
      /\ sv.phase \in Serving => told + Len(fl) = PlanTo(R, sv.handle - 1)
  <2>1. k.answers # <<>>
    BY <1>1
  <2> QED BY <2>1 DEF ConnectionOK, RepliesOK
<1> HIDE DEF told, rest, q, a
<1>5. /\ (told + 1) + Len(rest) = told + Len(fl)
      /\ \A i \in 1 .. Len(rest) : Fits(own, R, rest[i], Plan(R)[told + 1 + i])
      /\ Fits(own, R, t, Plan(R)[told + 1])
  BY <1>3, <1>4, RepliesAfter DEF rest
<1>6. t.kind = "data" /\ UnitOK(own, R, n, q, t.value)
  <2>1. q # 0
    BY <1>2 DEF q
  <2> HIDE DEF n, t
  <2> QED BY <1>3, <1>5, <2>1 DEF Fits
<1>7. t.value \in Value
  <2>1. t \in OutToken
    OBVIOUS
  <2> HIDE DEF t
  <2> QED BY <1>6, <2>1 DEF OutToken
<1> HIDE DEF t
<1> DEFINE v == t.value  data2 == Append(a.data, v)  a2 == [error |-> a.error, data |-> data2]
           b == [k.answers EXCEPT ![n] = a2]
<1>8. /\ data2 \in Seq(Value) /\ Len(data2) = q /\ data2[q] = v
      /\ DOMAIN data2 = 1 .. q /\ \A j \in 1 .. Len(a.data) : data2[j] = a.data[j]
  <2> HIDE DEF v
  <2>1. v \in Value
    BY <1>7 DEF v
  <2> DEFINE z == a.data
  <2> HIDE DEF z
  <2>2. z \in Seq(Value) /\ q = Len(z) + 1
    BY <1>2 DEF z, q
  <2>3. /\ Append(z, v) \in Seq(Value) /\ Len(Append(z, v)) = q /\ Append(z, v)[q] = v
        /\ DOMAIN Append(z, v) = 1 .. q /\ \A j \in 1 .. Len(z) : Append(z, v)[j] = z[j]
    BY <2>1, <2>2
  <2> QED BY <2>3 DEF z
<1> HIDE DEF data2
<1>9. a2 \in A /\ a2.error = a.error /\ a2.data = data2
  BY <1>2, <1>8
<1> HIDE DEF a2
<1>10. /\ b \in Seq(A) /\ Len(b) = n /\ b[n] = a2 /\ DOMAIN b = 1 .. n
       /\ \A i \in 1 .. n : i # n => b[i] = k.answers[i]
  BY <1>0, <1>1, <1>9
<1>11. /\ k2 \in ClientState /\ k2.phase = "ready" /\ k2.options = k.options /\ k2.sent = k.sent
       /\ k2.due = k.due - 1 /\ k2.answers = b
  <2> DEFINE g == Len(k.answers) + 1
             x == [k.answers EXCEPT ![g - 1].data = Append(@, t.value)]
             e == k.due - 1
  <2>1. Understood(k, p, t) = [k EXCEPT !.answers = x, !.due = e]
    BY <1>0, <1>6 DEF Understood
  <2>2. x = b
    <3>1. g - 1 = n
      BY <1>1
    <3>2. x = [k.answers EXCEPT ![n] = [k.answers[n] EXCEPT !.data = Append(k.answers[n].data, t.value)]]
      <4> HIDE DEF g
      <4> QED BY <3>1, Zenon
    <3>3. [a EXCEPT !.data = data2] = a2
      BY <1>2, <1>8 DEF a2
    <3> QED BY <3>2, <3>3, Zenon DEF a, data2
  <2>3. e \in Nat
    BY <1>0
  <2> HIDE DEF x, b, e
  <2>4. k2 = [k EXCEPT !.answers = b, !.due = e]
    BY <2>1, <2>2, Zenon
  <2> HIDE DEF k2
  <2>5. /\ k2 \in ClientState /\ k2.phase = "ready" /\ k2.options = k.options /\ k2.sent = k.sent
        /\ k2.due = e /\ k2.answers = b
    BY <1>10, <2>3, <2>4 DEF ClientState
  <2> QED BY <2>5 DEF e
<1> HIDE DEF k2, b
<1>12. FramingOK(R, k2, in, sv, wr)
  BY <1>11 DEF ConnectionOK, FramingOK
<1>13. NegotiationOK(p, k2, in, sv, rest)
  <2>1. OptionToken(p, k2.options) = OptionToken(p, k.options)
    BY <1>11
  <2> QED BY <1>11, <2>1 DEF ConnectionOK, NegotiationOK
<1>14. AnswersOK(own, R, k2)
  <2>1. Len(k2.answers) <= Len(R) /\ k2.answers # <<>>
    BY <1>0, <1>1, <1>10, <1>11
  <2>2. ASSUME NEW i \in DOMAIN k2.answers
        PROVE  /\ k2.answers[i].error = Outcome(R[i])
               /\ \A j \in DOMAIN k2.answers[i].data : UnitOK(own, R, i, j, k2.answers[i].data[j])
               /\ i = Len(k2.answers) => Len(k2.answers[i].data) + k2.due = DataOf(R[i])
    <3> HIDE DEF n
    <3>1. CASE i = n
      <4>1. k2.answers[i] = a2
        BY <1>10, <1>11, <3>1
      <4>2. a2.error = Outcome(R[n])
        BY <1>1, <1>9
      <4>3. ASSUME NEW j \in DOMAIN data2 PROVE UnitOK(own, R, n, j, data2[j])
        <5>1. CASE j = q
          BY <1>6, <1>8, <5>1
        <5>2. CASE j # q
          <6>1. j \in 1 .. Len(a.data)
            BY <1>2, <1>8, <5>2 DEF q
          <6> QED BY <1>1, <1>2, <1>8, <6>1
        <5> QED BY <5>1, <5>2
      <4>4. Len(data2) + k2.due = DataOf(R[n])
        <5> DEFINE l == Len(a.data)  d == DataOf(R[n])  e == k.due
        <5>1. l \in Nat /\ e \in Nat /\ l + e = d /\ Len(data2) = l + 1 /\ k2.due = e - 1
          BY <1>0, <1>1, <1>2, <1>8, <1>11 DEF q
        <5> HIDE DEF l, d, e
        <5>2. Len(data2) + k2.due = d
          BY <5>1
        <5> QED BY <5>2 DEF d
      <4> QED BY <1>9, <3>1, <4>1, <4>2, <4>3, <4>4
    <3>2. CASE i # n
      <4>1. i \in 1 .. n /\ k2.answers[i] = k.answers[i] /\ i # Len(k2.answers)
        BY <1>10, <1>11, <3>2
      <4>2. i \in DOMAIN k.answers
        BY <1>0, <4>1 DEF n
      <4> QED BY <4>1, <4>2 DEF ConnectionOK, AnswersOK
    <3> QED BY <3>1, <3>2
  <2> QED BY <2>1, <2>2 DEF AnswersOK
<1>15. RepliesOK(own, p, k2, sv, rest)
  <2>1. Len(k2.answers) = n /\ k2.due = k.due - 1
    BY <1>10, <1>11
  <2> HIDE DEF n
  <2>2. PlanTo(R, Len(k2.answers)) - k2.due = told + 1
    BY <1>0, <1>3, <2>1
  <2> QED BY <1>4, <1>5, <2>2 DEF RepliesOK
<1>16. Given(k2, rest) \subseteq Given(k, fl)
  <2>1. DOMAIN k2.answers = DOMAIN k.answers
    BY <1>0, <1>10, <1>11
  <2>2. DOMAIN k2.answers \subseteq Given(k, fl)
    BY <2>1 DEF Given
  <2> QED BY <2>2, TailGiven DEF rest
<1>17. GivenOK(k2, sv, rest)
  BY <1>16, LessGiven DEF ConnectionOK
<1>18. ConnectionOK(own, p, k2, in, sv, wr, rest)
  BY <1>12, <1>13, <1>14, <1>15, <1>17 DEF ConnectionOK
<1> QED BY <1>11, <1>16, <1>18 DEF k2, rest, t

\* The client takes a token.
LEMMA ReceiveOK ==
  ASSUME NEW own, NEW p \in ClientProgram, NEW k \in ClientState, NEW in \in Seq(InToken),
         NEW sv \in ServerState, NEW wr, NEW fl \in Seq(OutToken), fl # <<>>,
         ConnectionOK(own, p, k, in, sv, wr, fl), k.phase # "gone"
  PROVE  LET k2 == Understood(k, p, Head(fl))
         IN  /\ ConnectionOK(own, p, k2, in, sv, wr, Tail(fl)) /\ k2 \in ClientState
             /\ Given(k2, Tail(fl)) \subseteq Given(k, fl)
<1>1. CASE k.phase = "ready" => ~Keeps(p) /\ k.answers = <<>> /\ fl[1] = Plain("zeroes")
  BY <1>1, ReceiveEarlyOK
<1>2. CASE k.phase = "ready" /\ k.due > 0
  BY <1>2, ReceiveDataOK
<1>3. CASE k.phase = "ready" /\ k.due = 0 /\ ~(~Keeps(p) /\ k.answers = <<>> /\ fl[1] = Plain("zeroes"))
  BY <1>3, ReceiveReplyOK
<1>4. k.due \in Nat
  BY DEF ClientState
<1> QED BY <1>1, <1>2, <1>3, <1>4

-----------------------------------------------------------------------------
(* What the task does to its connection *)

\* What is added to what is on its way.
LEMMA SaysGiven ==
  ASSUME NEW k, NEW out \in Seq(OutToken), NEW wr \in Seq(OutToken)
  PROVE  /\ Given(k, out) \subseteq Given(k, out \o wr)
         /\ \A h \in Given(k, out \o wr) :
              h \in Given(k, out) \/ \E i \in 1 .. Len(wr) : wr[i].kind = "reply" /\ h = wr[i].handle
<1> DEFINE s == out \o wr
<1>1. /\ s \in Seq(OutToken) /\ Len(s) = Len(out) + Len(wr)
      /\ \A i \in 1 .. Len(out) : s[i] = out[i]
      /\ \A i \in 1 .. Len(wr) : s[Len(out) + i] = wr[i]
  BY Concatenated
<1> HIDE DEF s
<1>2. DOMAIN s = 1 .. Len(s) /\ DOMAIN out = 1 .. Len(out) /\ Len(out) \in Nat /\ Len(wr) \in Nat
  BY <1>1
<1>3. Given(k, out) \subseteq Given(k, s)
  <2>1. \A i \in 1 .. Len(out) : i \in 1 .. Len(s)
    BY <1>1, <1>2
  <2> QED BY <1>1, <1>2, <2>1 DEF Given
<1>4. ASSUME NEW h \in Given(k, s), h \notin Given(k, out)
      PROVE  \E i \in 1 .. Len(wr) : wr[i].kind = "reply" /\ h = wr[i].handle
  <2>1. PICK j \in 1 .. Len(s) : s[j].kind = "reply" /\ h = s[j].handle
    BY <1>2, <1>4 DEF Given
  <2>2. j \notin 1 .. Len(out)
    BY <1>1, <1>2, <1>4, <2>1 DEF Given
  <2> DEFINE i == j - Len(out)
  <2>3. i \in 1 .. Len(wr) /\ j = Len(out) + i
    BY <1>1, <1>2, <2>2
  <2> HIDE DEF i
  <2> QED BY <1>1, <2>1, <2>3
<1> QED BY <1>3, <1>4 DEF s

LEMMA OneGiven ==
  ASSUME NEW k, NEW out \in Seq(OutToken), NEW wr \in Seq(OutToken), NEW h,
         \A i \in 1 .. Len(wr) : wr[i].kind = "reply" => wr[i].handle = h
  PROVE  Given(k, out \o wr) \subseteq Given(k, out) \cup {h}
BY SaysGiven

\* Where the client is once it has sent a request.
LEMMA SentReady ==
  ASSUME NEW own, NEW p \in ClientProgram, NEW k \in ClientState, NEW in \in Seq(InToken),
         NEW sv \in ServerState, NEW wr, NEW fl, ConnectionOK(own, p, k, in, sv, wr, fl),
         sv.phase \in Serving \/ (sv.phase = "request" /\ in # <<>>)
  PROVE  k.phase \in {"ready", "gone", "confused"}
<1> DEFINE R == p.requests  T == Taken(R, sv)
<1>1. Follows(in, Stream(R), T, k.sent) /\ sv.handle <= Len(R) /\ (sv.phase \in Serving => sv.handle # 0)
  BY DEF ConnectionOK, FramingOK
<1>2. R \in Seq(Request) /\ Len(R) \in Nat /\ sv.handle \in Nat /\ Len(sv.got) \in Nat /\ k.sent \in Nat
      /\ Len(in) \in Nat
  BY DEF ClientProgram, ServerState, ClientState
<1>3. T \in Nat /\ (sv.phase \in Serving => T > 0)
  <2>1. CASE sv.phase \in Serving
    <3>1. sv.handle - 1 \in 0 .. Len(R)
      BY <1>1, <1>2, <2>1
    <3>2. StreamTo(R, sv.handle - 1) \in Nat
      BY <1>2, <3>1, StreamPlaces
    <3> QED BY <1>2, <2>1, <3>2 DEF Taken
  <2>2. CASE sv.phase \notin Serving
    <3>1. sv.handle \in 0 .. Len(R)
      BY <1>1, <1>2
    <3> QED BY <1>2, <2>2, <3>1, StreamPlaces DEF Taken
  <2> QED BY <2>1, <2>2
<1> HIDE DEF T
<1>4. k.sent # 0
  <2>1. T <= k.sent /\ Len(in) = k.sent - T
    BY <1>1 DEF Follows
  <2>2. sv.phase \in Serving => T > 0
    BY <1>3
  <2>3. sv.phase \notin Serving => Len(in) # 0
    OBVIOUS
  <2> QED BY <1>2, <1>3, <2>1, <2>2, <2>3
<1> QED BY <1>4 DEF ConnectionOK, NegotiationOK

\* A token gets into the socket.
LEMMA DrainOK ==
  ASSUME NEW own, NEW p, NEW k, NEW in, NEW sv, NEW out \in Seq(OutToken),
         NEW wr \in Seq(OutToken), wr # <<>>,
         ConnectionOK(own, p, k, in, sv, wr, out \o wr)
  PROVE  /\ Append(out, Head(wr)) \o Tail(wr) = out \o wr
         /\ ConnectionOK(own, p, k, in, sv, Tail(wr), out \o wr)
<1>1. Append(out, Head(wr)) \o Tail(wr) = out \o wr
  <2> DEFINE h == Head(wr)  t == Tail(wr)  a == Append(out, h)
  <2>1. h \in OutToken /\ t \in Seq(OutToken) /\ Len(wr) = Len(t) + 1 /\ Len(t) \in Nat
        /\ wr[1] = h /\ \A i \in 1 .. Len(t) : wr[i + 1] = t[i]
    OBVIOUS
  <2> HIDE DEF h, t
  <2>2. a \in Seq(OutToken) /\ Len(a) = Len(out) + 1 /\ a[Len(out) + 1] = h /\ Len(out) \in Nat
        /\ \A i \in 1 .. Len(out) : a[i] = out[i]
    BY <2>1
  <2> HIDE DEF a
  <2> DEFINE x == a \o t  y == out \o wr
  <2>3. /\ x \in Seq(OutToken) /\ Len(x) = Len(a) + Len(t)
        /\ \A i \in 1 .. Len(a) : x[i] = a[i]
        /\ \A i \in 1 .. Len(t) : x[Len(a) + i] = t[i]
    <3>1. a \in Seq(OutToken) /\ t \in Seq(OutToken)
      BY <2>1, <2>2
    <3> QED BY <3>1, Concatenated
  <2>4. /\ y \in Seq(OutToken) /\ Len(y) = Len(out) + Len(wr)
        /\ \A i \in 1 .. Len(out) : y[i] = out[i]
        /\ \A i \in 1 .. Len(wr) : y[Len(out) + i] = wr[i]
    BY Concatenated
  <2> HIDE DEF x, y
  <2> DEFINE n == Len(out)  m == Len(t)
  <2>5. /\ n \in Nat /\ m \in Nat /\ Len(x) = n + 1 + m /\ Len(y) = n + 1 + m
        /\ Len(a) = n + 1 /\ Len(wr) = m + 1
    BY <2>1, <2>2, <2>3, <2>4
  <2> HIDE DEF n, m
  <2>6. ASSUME NEW i \in 1 .. n + 1 + m PROVE x[i] = y[i]
    <3>1. CASE i \in 1 .. n
      <4>1. i \in 1 .. Len(a) /\ i \in 1 .. Len(out)
        BY <2>5, <3>1 DEF n
      <4> QED BY <2>2, <2>3, <2>4, <4>1
    <3>2. CASE i = n + 1
      <4>1. i \in 1 .. Len(a) /\ 1 \in 1 .. Len(wr) /\ i = Len(out) + 1
        BY <2>5, <3>2 DEF n
      <4> QED BY <2>1, <2>2, <2>3, <2>4, <4>1
    <3>3. CASE i > n + 1
      <4> DEFINE j == i - (n + 1)
      <4>1. j \in 1 .. m /\ i = n + 1 + j /\ j + 1 \in 1 .. m + 1 /\ i = n + (j + 1)
        BY <2>5, <3>3
      <4> HIDE DEF j
      <4>2. x[n + 1 + j] = t[j]
        BY <2>3, <2>5, <4>1 DEF m
      <4> DEFINE g == j + 1
      <4>3. g \in 1 .. Len(wr) /\ i = Len(out) + g /\ wr[g] = t[j]
        BY <2>1, <2>5, <4>1 DEF n, m
      <4> HIDE DEF g
      <4>4. y[i] = wr[g]
        BY <2>4, <4>3
      <4> QED BY <4>1, <4>2, <4>3, <4>4
    <3> QED BY <2>5, <3>1, <3>2, <3>3
  <2>7. x = y
    BY <2>3, <2>4, <2>5, <2>6
  <2> QED BY <2>7, Zenon DEF x, y, a, h, t
<1>2. FramingOK(p.requests, k, in, sv, Tail(wr))
  BY DEF ConnectionOK, FramingOK
<1> DEFINE fl == out \o wr
<1> HIDE DEF fl
<1>3. ConnectionOK(own, p, k, in, sv, wr, fl)
  BY DEF fl
<1>4. ConnectionOK(own, p, k, in, sv, Tail(wr), fl)
  BY <1>2, <1>3 DEF ConnectionOK
<1> QED BY <1>1, <1>4 DEF fl

\* The connection ends: the client is gone, or has nothing more to be sent.
LEMMA EndsOK ==
  ASSUME NEW own, NEW p \in ClientProgram, NEW k \in ClientState, NEW in,
         NEW sv \in ServerState, NEW out \in Seq(OutToken), NEW wr \in Seq(OutToken),
         ConnectionOK(own, p, k, in, sv, wr, out \o wr),
         NEW how \in {"ok", "error"}, NEW in2, NEW sv2, sv2.phase = how, sv2.handle = sv.handle,
         \/ k.phase = "gone"
         \/ k.phase \in {"ready", "confused"} /\ wr = <<>>
         \/ k.phase = "asked" /\ how = "error" /\ out = <<>>
  PROVE  /\ ConnectionOK(own, p, k, in2, sv2, <<>>, out \o <<>>)
         /\ Given(k, out \o <<>>) \subseteq Given(k, out \o wr)
<1>0. out \o <<>> = out
  OBVIOUS
<1> DEFINE fl == out \o wr
<1>1. Given(k, out) \subseteq Given(k, fl) /\ (wr = <<>> => fl = out)
  BY SaysGiven, <1>0
<1>2. ConnectionOK(own, p, k, in, sv, wr, fl)
  OBVIOUS
<1> HIDE DEF fl
<1>3. FramingOK(p.requests, k, in2, sv2, <<>>)
  BY <1>2 DEF ConnectionOK, FramingOK, Serving, Negotiating
<1>4. NegotiationOK(p, k, in2, sv2, out)
  BY <1>2 DEF ConnectionOK, NegotiationOK, Negotiating
<1>5. RepliesOK(own, p, k, sv2, out)
  BY <1>1, <1>2 DEF ConnectionOK, RepliesOK, Serving
<1>6. GivenOK(k, sv2, out)
  BY <1>1, <1>2 DEF ConnectionOK, GivenOK, Serving
<1>7. ConnectionOK(own, p, k, in2, sv2, <<>>, out)
  BY <1>2, <1>3, <1>4, <1>5, <1>6 DEF ConnectionOK
<1> QED BY <1>0, <1>1, <1>7 DEF fl

\* The task says something while it negotiates.
LEMMA NegotiatesOK ==
  ASSUME NEW own, NEW p \in ClientProgram, NEW k \in ClientState, NEW in,
         NEW sv \in ServerState, NEW out \in Seq(OutToken), NEW wr \in Seq(OutToken),
         ConnectionOK(own, p, k, in, sv, wr, out \o wr), sv.phase \in Negotiating,
         NEW in2, NEW sv2, sv2.handle = sv.handle, sv2.phase \in Negotiating \cup {"request"},
         NEW wr2 \in Seq(OutToken), \A i \in 1 .. Len(wr2) : wr2[i].kind # "reply",
         NegotiationOK(p, k, in2, sv2, out \o wr2), sv2.phase = "request" => in2 = <<>>
  PROVE  /\ ConnectionOK(own, p, k, in2, sv2, wr2, out \o wr2)
         /\ Given(k, out \o wr2) \subseteq Given(k, out \o wr)
<1> DEFINE fl == out \o wr  fl2 == out \o wr2  R == p.requests
<1>1. Given(k, out) \subseteq Given(k, fl) /\ Given(k, fl2) \subseteq Given(k, out)
  BY SaysGiven
<1>2. ConnectionOK(own, p, k, in, sv, wr, fl) /\ NegotiationOK(p, k, in2, sv2, fl2)
  OBVIOUS
<1> HIDE DEF fl, fl2
<1>3. FramingOK(R, k, in2, sv2, wr2)
  <2>1. sv.handle = 0 /\ k.sent = 0 /\ sv.handle <= Len(R) /\ k.sent <= Len(Stream(R))
    BY <1>2 DEF ConnectionOK, FramingOK
  <2>2. sv2.phase \notin Serving
    BY DEF Serving, Negotiating
  <2>3. sv2.phase = "request" => Follows(in2, Stream(R), Taken(R, sv2), k.sent)
    <3> SUFFICES ASSUME sv2.phase = "request" PROVE Follows(<<>>, Stream(R), 0, 0)
      <4>1. R \in Seq(Request)
        BY DEF ClientProgram
      <4>2. StreamTo(R, 0) = 0
        BY <4>1, StreamPlaces
      <4>3. sv2.phase = "request" => Taken(R, sv2) = 0 /\ in2 = <<>>
        BY <2>1, <2>2, <4>2 DEF Taken
      <4> QED BY <2>1, <4>3
    <3> QED BY DEF Follows
  <2> QED BY <2>1, <2>2, <2>3 DEF FramingOK
<1>4. RepliesOK(own, p, k, sv2, fl2)
  <2>1. k.phase # "ready"
    BY <1>2 DEF ConnectionOK, NegotiationOK
  <2> QED BY <2>1 DEF RepliesOK
<1>5. GivenOK(k, sv2, fl2)
  BY <1>1, <1>2 DEF ConnectionOK, GivenOK, Serving, Negotiating
<1>6. ConnectionOK(own, p, k, in2, sv2, wr2, fl2)
  BY <1>2, <1>3, <1>4, <1>5 DEF ConnectionOK
<1> QED BY <1>1, <1>6 DEF fl, fl2

\* What is in a short sequence.
LEMMA ShortOf ==
  ASSUME NEW T, NEW x \in T, NEW y \in T
  PROVE  /\ <<x>> \in Seq(T) /\ \A i \in 1 .. Len(<<x>>) : <<x>>[i] = x
         /\ <<x, y>> \in Seq(T) /\ \A i \in 1 .. Len(<<x, y>>) : <<x, y>>[i] \in {x, y}
OBVIOUS

\* What the task says while it negotiates are no replies.
LEMMA Talk ==
  /\ \A kind \in {"greeting", "info", "zeroes"} : Plain(kind) \in OutToken /\ Plain(kind).kind # "reply"
  /\ \A reply \in {"INFO", "ACK", "ERR_INVALID", "ERR_UNSUP"} :
       OptionReply(reply) \in OutToken /\ OptionReply(reply).kind # "reply"
BY DEF Plain, OptionReply, OutToken

\* The task greets the client.
LEMMA AcceptOK ==
  ASSUME NEW own, NEW p \in ClientProgram, NEW k \in ClientState, NEW in,
         NEW sv \in ServerState, NEW out \in Seq(OutToken), NEW wr \in Seq(OutToken),
         ConnectionOK(own, p, k, in, sv, wr, out \o wr), sv.phase = "accept",
         NEW sv2, sv2.handle = sv.handle, sv2.phase = "flags"
  PROVE  /\ ConnectionOK(own, p, k, in, sv2, <<Plain("greeting")>>, out \o <<Plain("greeting")>>)
         /\ Given(k, out \o <<Plain("greeting")>>) \subseteq Given(k, out \o wr)
<1> DEFINE wr2 == <<Plain("greeting")>>  fl2 == out \o wr2  fl == out \o wr
<1>1. wr2 \in Seq(OutToken) /\ \A i \in 1 .. Len(wr2) : wr2[i].kind # "reply"
  <2> DEFINE x == Plain("greeting")
  <2>1. x \in OutToken /\ x.kind # "reply"
    BY Talk
  <2> HIDE DEF x
  <2> QED BY <2>1, ShortOf DEF wr2, x
<1> HIDE DEF wr2
<1>2. NegotiationOK(p, k, in, sv, fl)
  BY DEF ConnectionOK
<1>3. in = <<>> /\ k.phase \in {"greeting", "gone"} /\ k.sent = 0 /\ (k.phase = "greeting" => fl = <<>>)
  <2> HIDE DEF fl
  <2>1. k.sent = 0
    BY DEF ConnectionOK, FramingOK, Negotiating
  <2> QED BY <1>2, <2>1 DEF NegotiationOK, ClientState, Negotiating
<1>4. k.phase = "greeting" => fl2 = wr2
  <2>1. k.phase = "greeting" => Len(out) = 0
    <3>1. Len(fl) = Len(out) + Len(wr) /\ Len(out) \in Nat /\ Len(wr) \in Nat
      BY Concatenated
    <3>2. fl = <<>> => Len(fl) = 0
      OBVIOUS
    <3> DEFINE x == Len(fl)  y == Len(out)  z == Len(wr)
    <3> HIDE DEF x, y, z
    <3>3. x = y + z /\ y \in Nat /\ z \in Nat /\ (k.phase = "greeting" => x = 0)
      BY <1>3, <3>1, <3>2, Zenon DEF x, y, z
    <3>4. k.phase = "greeting" => y = 0
      BY <3>3
    <3> QED BY <3>4 DEF y
  <2>2. k.phase = "greeting" => out = <<>>
    BY <2>1
  <2>3. <<>> \o wr2 = wr2
    BY <1>1
  <2> QED BY <2>2, <2>3
<1>5. NegotiationOK(p, k, in, sv2, fl2)
  <2> HIDE DEF fl, fl2
  <2> QED BY <1>2, <1>3, <1>4 DEF NegotiationOK, Negotiating, wr2
<1>6. sv.phase \in Negotiating /\ sv2.phase \in Negotiating \cup {"request"} /\ sv2.phase # "request"
  BY DEF Negotiating
<1>7. ConnectionOK(own, p, k, in, sv2, wr2, out \o wr2) /\ Given(k, out \o wr2) \subseteq Given(k, out \o wr)
  BY <1>1, <1>5, <1>6, NegotiatesOK
<1> QED BY <1>7, Zenon DEF wr2

\* The task reads the flags.
LEMMA ReadFlagsOK ==
  ASSUME NEW own, NEW p \in ClientProgram, NEW k \in ClientState, NEW in, in # <<>>,
         NEW sv \in ServerState, NEW out \in Seq(OutToken),
         ConnectionOK(own, p, k, in, sv, <<>>, out \o <<>>), sv.phase = "flags",
         NEW sv2, sv2.handle = sv.handle, sv2.phase = "options"
  PROVE  ConnectionOK(own, p, k, Tail(in), sv2, <<>>, out \o <<>>)
<1> DEFINE fl == out \o <<>>  o == OptionToken(p, k.options)  f == Plain("flags")  in2 == Tail(in)
<1>1. NegotiationOK(p, k, in, sv, fl)
  BY DEF ConnectionOK
<1> HIDE DEF fl, o, f, in2
<1>2. \/ in = <<f>> /\ in2 = <<>>
      \/ k.options # 0 /\ in = <<f, o>> /\ in2 = <<o>>
  <2>1. in = <<f>> \/ (k.options # 0 /\ in = <<f, o>>)
    BY <1>1 DEF NegotiationOK, f, o
  <2>2. Tail(<<f>>) = <<>> /\ Tail(<<f, o>>) = <<o>>
    BY Shortened
  <2> QED BY <2>1, <2>2 DEF in2
<1>3. NegotiationOK(p, k, in2, sv2, fl)
  <2>1. k.phase \notin {"greeting", "flags", "zeroes", "ready", "confused"}
    BY <1>1 DEF NegotiationOK, Negotiating
  <2>2. CASE in = <<f>> /\ in2 = <<>>
    <3>1. in # <<f, o>> /\ in # <<o>>
      <4>1. f # o
        BY DEF f, o, Plain, OptionToken
      <4>2. Len(<<f>>) = 1 /\ Len(<<f, o>>) = 2 /\ <<f>>[1] = f /\ <<o>>[1] = o
        OBVIOUS
      <4> QED BY <2>2, <4>1, <4>2
    <3>2. k.phase # "asked"
      BY <1>1, <3>1 DEF NegotiationOK, f, o
    <3> QED BY <1>1, <2>1, <2>2, <3>2 DEF NegotiationOK
  <2>3. CASE k.options # 0 /\ in = <<f, o>> /\ in2 = <<o>>
    <3>1. in # <<f>> /\ in # <<>>
      <4>1. Len(<<f>>) = 1 /\ Len(<<f, o>>) = 2 /\ Len(<<>>) = 0
        OBVIOUS
      <4> QED BY <2>3, <4>1
    <3>2. k.phase # "option"
      BY <1>1, <3>1 DEF NegotiationOK, f
    <3>3. k.phase = "asked" => fl = <<>>
      BY <1>1, <2>3, <3>1 DEF NegotiationOK
    <3> QED BY <1>1, <2>1, <2>3, <3>2, <3>3 DEF NegotiationOK, o
  <2> QED BY <1>2, <2>2, <2>3
<1>4. sv.phase \in Negotiating /\ sv2.phase \in Negotiating \cup {"request"} /\ sv2.phase # "request"
  BY DEF Negotiating
<1>5. <<>> \in Seq(OutToken) /\ \A i \in 1 .. Len(<<>>) : <<>>[i].kind # "reply"
  OBVIOUS
<1> QED BY <1>3, <1>4, <1>5, NegotiatesOK DEF fl, in2

\* What the task reads while it waits for an option is the one the client sent.
LEMMA OptionRead ==
  ASSUME NEW own, NEW p \in ClientProgram, NEW k \in ClientState, NEW in, in # <<>>,
         NEW sv \in ServerState, NEW wr, NEW fl,
         ConnectionOK(own, p, k, in, sv, wr, fl), sv.phase = "options"
  PROVE  /\ Head(in).body = p.options[k.options] /\ Tail(in) = <<>>
         /\ k.options \in DOMAIN p.options
         /\ k.phase \in {"asked", "gone"} /\ (k.phase = "asked" => fl = <<>>)
<1> DEFINE o == OptionToken(p, k.options)
<1> HIDE DEF o
<1>1. NegotiationOK(p, k, in, sv, fl)
  BY DEF ConnectionOK
<1>2. k.options # 0 /\ in = <<o>> /\ k.options <= Len(p.options)
  BY <1>1 DEF NegotiationOK, o
<1>3. Head(in) = o /\ Tail(in) = <<>>
  BY <1>2, Shortened
<1>4. o.body = p.options[k.options]
  BY DEF o, OptionToken
<1>5. k.options \in DOMAIN p.options
  BY <1>2 DEF ClientState, ClientProgram
<1>6. k.phase \in {"asked", "gone"} /\ (k.phase = "asked" => fl = <<>>)
  BY <1>1 DEF NegotiationOK, Negotiating, ClientState
<1> QED BY <1>3, <1>4, <1>5, <1>6

\* The task answers an option.
LEMMA ReadOptionOK ==
  ASSUME NEW own, NEW p \in ClientProgram, NEW k \in ClientState, NEW in, in # <<>>,
         NEW sv \in ServerState, NEW out \in Seq(OutToken),
         ConnectionOK(own, p, k, in, sv, <<>>, out \o <<>>), sv.phase = "options",
         NEW sv2, sv2.handle = sv.handle, NEW wr2 \in Seq(OutToken),
         \/ /\ sv2.phase = "request" /\ wr2 = <<Plain("info"), Plain("zeroes")>>
            /\ Head(in).body.option = "EXPORT_NAME"
         \/ sv2.phase = "request" /\ wr2 = <<OptionReply("INFO"), OptionReply("ACK")>>
         \/ /\ sv2.phase = "options"
            /\ \E reply \in {"ERR_INVALID", "ERR_UNSUP"} : wr2 = <<OptionReply(reply)>>
  PROVE  /\ ConnectionOK(own, p, k, Tail(in), sv2, wr2, out \o wr2)
         /\ Given(k, out \o wr2) \subseteq Given(k, out \o <<>>)
<1> DEFINE fl == out \o <<>>  fl2 == out \o wr2
<1>1. /\ Head(in).body = p.options[k.options] /\ Tail(in) = <<>> /\ k.options \in DOMAIN p.options
      /\ k.phase \in {"asked", "gone"} /\ (k.phase = "asked" => fl = <<>>)
  BY OptionRead
<1>2. k.phase = "asked" => fl2 = wr2
  <2>1. fl = out /\ <<>> \o wr2 = wr2
    OBVIOUS
  <2> QED BY <1>1, <2>1
<1>3. NegotiationOK(p, k, in, sv, fl)
  BY DEF ConnectionOK
<1> HIDE DEF fl, fl2
<1>4. k.options # 0 /\ k.options <= Len(p.options)
  BY <1>1 DEF ClientProgram
<1>5. sv.handle = 0
  BY DEF ConnectionOK, FramingOK, Negotiating
<1>6. NegotiationOK(p, k, <<>>, sv2, fl2)
  <2>1. CASE k.phase = "gone"
    BY <1>3, <2>1 DEF NegotiationOK, Negotiating
  <2>2. CASE k.phase = "asked"
    BY <1>1, <1>2, <1>3, <1>4, <1>5, <2>2 DEF NegotiationOK
  <2> QED BY <1>1, <2>1, <2>2
<1>7. \A i \in 1 .. Len(wr2) : wr2[i].kind # "reply"
  <2>1. CASE wr2 = <<Plain("info"), Plain("zeroes")>>
    <3> DEFINE x == Plain("info")  y == Plain("zeroes")
    <3>1. x \in OutToken /\ x.kind # "reply" /\ y \in OutToken /\ y.kind # "reply" /\ wr2 = <<x, y>>
      BY <2>1, Talk
    <3> HIDE DEF x, y
    <3> QED BY <3>1, ShortOf
  <2>2. CASE wr2 = <<OptionReply("INFO"), OptionReply("ACK")>>
    <3> DEFINE x == OptionReply("INFO")  y == OptionReply("ACK")
    <3>1. x \in OutToken /\ x.kind # "reply" /\ y \in OutToken /\ y.kind # "reply" /\ wr2 = <<x, y>>
      BY <2>2, Talk
    <3> HIDE DEF x, y
    <3> QED BY <3>1, ShortOf
  <2>3. ASSUME NEW reply \in {"ERR_INVALID", "ERR_UNSUP"}, wr2 = <<OptionReply(reply)>>
        PROVE  \A i \in 1 .. Len(wr2) : wr2[i].kind # "reply"
    <3> DEFINE x == OptionReply(reply)
    <3>1. x \in OutToken /\ x.kind # "reply" /\ wr2 = <<x>>
      BY <2>3, Talk
    <3> HIDE DEF x
    <3> QED BY <3>1, ShortOf
  <2> QED BY <2>1, <2>2, <2>3
<1>8. sv.phase \in Negotiating /\ sv2.phase \in Negotiating \cup {"request"}
  BY DEF Negotiating
<1>9. <<>> \in Seq(OutToken)
  OBVIOUS
<1> QED BY <1>1, <1>6, <1>7, <1>8, <1>9, NegotiatesOK DEF fl2

\* What the task reads between two requests is the header of the next one.
LEMMA HeaderRead ==
  ASSUME NEW own, NEW p \in ClientProgram, NEW k \in ClientState, NEW in \in Seq(InToken), in # <<>>,
         NEW sv \in ServerState, NEW wr, NEW fl,
         ConnectionOK(own, p, k, in, sv, wr, fl), sv.phase = "request",
         NEW h, h = sv.handle + 1
  PROVE  /\ h \in 1 .. Len(p.requests) /\ Head(in) = Header(h, p.requests[h])
         /\ Follows(Tail(in), Stream(p.requests), StreamTo(p.requests, h - 1) + 1, k.sent)
<1> DEFINE R == p.requests  from == StreamTo(R, h - 1)
<1>1. R \in Seq(Request) /\ Len(R) \in Nat /\ sv.handle \in Nat /\ k.sent \in Nat
  BY DEF ClientProgram, ServerState, ClientState
<1>2. h - 1 = sv.handle /\ h - 1 \in 0 .. Len(R) /\ h \in Nat \ {0}
  BY <1>1 DEF ConnectionOK, FramingOK
<1>3. from \in Nat /\ Follows(in, Stream(R), from, k.sent) /\ k.sent <= Len(Stream(R))
  <2>1. from \in Nat
    BY <1>1, <1>2, StreamPlaces
  <2>2. Follows(in, Stream(R), Taken(R, sv), k.sent) /\ k.sent <= Len(Stream(R))
    BY DEF ConnectionOK, FramingOK
  <2>3. Taken(R, sv) = from
    BY <1>2 DEF Taken, Serving
  <2> QED BY <2>1, <2>2, <2>3
<1> HIDE DEF from
<1>4. /\ Follows(Tail(in), Stream(R), from + 1, k.sent) /\ Head(in) = Stream(R)[from + 1]
      /\ from < k.sent
  BY <1>1, <1>3, TakeFollows
<1>5. h \in 1 .. Len(R)
  <2>1. h - 1 # Len(R)
    <3>1. StreamTo(R, Len(R)) = Len(Stream(R)) /\ Len(Stream(R)) \in Nat
      BY <1>1, StreamPlaces
    <3>2. from # Len(Stream(R))
      BY <1>1, <1>3, <1>4, <3>1
    <3> QED BY <3>1, <3>2 DEF from
  <2> QED BY <1>1, <1>2, <2>1
<1>6. Stream(R)[from + 1] = Header(h, R[h])
  BY <1>1, <1>5, StreamPlaces DEF from
<1> QED BY <1>4, <1>5, <1>6 DEF from

\* The task reads the header of a request.
LEMMA ReadRequestOK ==
  ASSUME NEW own, NEW p \in ClientProgram, NEW k \in ClientState, NEW in \in Seq(InToken), in # <<>>,
         NEW sv \in ServerState, NEW fl,
         ConnectionOK(own, p, k, in, sv, <<>>, fl), sv.phase = "request",
         NEW h, h = sv.handle + 1, NEW r, r = p.requests[h], NEW sv2 \in ServerState,
         sv2.phase = IF r.command # "WRITE" THEN "run"
                     ELSE IF bounds_ok(r.offset, r.length) THEN "payload" ELSE "discard",
         sv2.request = r, sv2.handle = h, sv2.got = <<>>
  PROVE  ConnectionOK(own, p, k, Tail(in), sv2, <<>>, fl)
<1> DEFINE R == p.requests
<1>1. /\ h \in 1 .. Len(R)
      /\ Follows(Tail(in), Stream(R), StreamTo(R, h - 1) + 1, k.sent)
  BY HeaderRead
<1>2. R \in Seq(Request) /\ Len(R) \in Nat /\ sv.handle \in Nat /\ h - 1 = sv.handle /\ h # 0
  <2>1. R \in Seq(Request) /\ Len(R) \in Nat
    BY DEF ClientProgram
  <2>2. sv.handle \in Nat
    BY DEF ServerState
  <2> QED BY <2>1, <2>2
<1>3. sv2.phase \in Serving
  BY DEF Serving
<1>4. r \in Request /\ Len(r.bytes) \in Nat
  <2>1. r \in Request
    BY <1>1, <1>2
  <2> QED BY <2>1 DEF Request
<1>5. FramingOK(R, k, Tail(in), sv2, <<>>)
  <2>1. StreamTo(R, h - 1) \in Nat
    <3>1. h - 1 \in 0 .. Len(R)
      BY <1>1, <1>2
    <3> QED BY <1>2, <3>1, StreamPlaces
  <2>2. Len(sv2.got) = 0 /\ Taken(R, sv2) = StreamTo(R, h - 1) + 1
    <3>1. Len(sv2.got) = 0
      OBVIOUS
    <3>2. Taken(R, sv2) = StreamTo(R, h - 1) + 1 + Len(sv2.got)
      BY <1>3 DEF Taken
    <3> QED BY <2>1, <3>1, <3>2
  <2>3. k.sent <= Len(Stream(R)) /\ h <= Len(R)
    BY <1>1, <1>2 DEF ConnectionOK, FramingOK
  <2>4. sv2.phase \notin Negotiating \cup {"request"}
    BY DEF Negotiating
  <2> QED BY <1>1, <1>2, <1>3, <1>4, <2>2, <2>3, <2>4 DEF FramingOK
<1>6. NegotiationOK(p, k, Tail(in), sv2, fl)
  <2>1. k.phase \in {"ready", "gone", "confused"}
    BY SentReady
  <2>2. sv2.phase \notin Negotiating
    BY DEF Negotiating
  <2> QED BY <2>1, <2>2 DEF ConnectionOK, NegotiationOK, Negotiating
<1>7. RepliesOK(own, p, k, sv2, fl)
  <2>1. sv2.phase # "request" /\ sv2.handle - 1 = sv.handle
    BY <1>2
  <2> QED BY <2>1 DEF ConnectionOK, RepliesOK
<1>8. GivenOK(k, sv2, fl)
  <2> SUFFICES ASSUME NEW g \in Given(k, fl) PROVE g \in 1 .. sv2.handle /\ g < sv2.handle
    BY DEF GivenOK
  <2>1. g \in 1 .. sv.handle
    BY DEF ConnectionOK, GivenOK
  <2> QED BY <1>2, <2>1
<1> QED BY <1>5, <1>6, <1>7, <1>8 DEF ConnectionOK

\* The task reads a unit of the payload.
LEMMA TakeDataOK ==
  ASSUME NEW own, NEW p \in ClientProgram, NEW k \in ClientState, NEW in \in Seq(InToken), in # <<>>,
         NEW sv \in ServerState, NEW wr, NEW fl,
         ConnectionOK(own, p, k, in, sv, wr, fl), sv.phase \in {"payload", "discard"},
         Len(sv.got) < sv.request.length,
         NEW t, t = Head(in), NEW sv2 \in ServerState, sv2.phase = sv.phase,
         sv2.request = sv.request, sv2.handle = sv.handle,
         sv2.got = Append(sv.got, IF t.kind = "data" THEN t.value ELSE 0)
  PROVE  ConnectionOK(own, p, k, Tail(in), sv2, wr, fl)
<1> DEFINE R == p.requests  h == sv.handle  r == R[h]  n == Len(sv.got)  from == StreamTo(R, h - 1)
<1>1. R \in Seq(Request) /\ Len(R) \in Nat /\ h \in Nat /\ k.sent \in Nat /\ sv.got \in Seq(Value)
      /\ n \in Nat
  BY DEF ClientProgram, ServerState, ClientState
<1>2. sv.phase \in Serving
  BY DEF Serving
<1>3. /\ h # 0 /\ h <= Len(R) /\ sv.request = r /\ wr = <<>> /\ n <= Len(r.bytes)
      /\ \A i \in 1 .. n : sv.got[i] = r.bytes[i]
      /\ sv.phase = IF r.command # "WRITE" THEN "run"
                    ELSE IF bounds_ok(r.offset, r.length) THEN "payload" ELSE "discard"
      /\ k.sent <= Len(Stream(R)) /\ Follows(in, Stream(R), Taken(R, sv), k.sent)
  BY <1>2 DEF ConnectionOK, FramingOK
<1>4. h \in 1 .. Len(R) /\ h - 1 \in 0 .. Len(R)
  BY <1>1, <1>3
<1>5. r \in Request
  BY <1>1, <1>4
<1> HIDE DEF r, n
<1>6. r.command = "WRITE" /\ Len(r.bytes) = r.length /\ Len(r.bytes) \in Nat /\ n + 1 \in 1 .. Len(r.bytes)
  <2>1. r.command = "WRITE"
    BY <1>3
  <2>2. Len(r.bytes) = r.length /\ Len(r.bytes) \in Nat
    BY <1>5, <2>1 DEF Request
  <2>3. n < Len(r.bytes)
    BY <1>3, <2>2 DEF n
  <2> QED BY <1>1, <2>1, <2>2, <2>3
<1>7. from \in Nat /\ Taken(R, sv) = from + 1 + n /\ Taken(R, sv2) = from + 1 + Len(sv2.got)
  <2>1. from \in Nat
    BY <1>1, <1>4, StreamPlaces
  <2> QED BY <1>2, <2>1 DEF Taken, n
<1>8. Stream(R)[from + 1 + (n + 1)] = [kind |-> "data", value |-> r.bytes[n + 1]]
  <2> DEFINE j == n + 1
  <2> HIDE DEF j
  <2>1. j \in 1 .. Len(R[h].bytes)
    BY <1>6 DEF j, r
  <2>2. Stream(R)[StreamTo(R, h - 1) + 1 + j] = [kind |-> "data", value |-> R[h].bytes[j]]
    BY <1>1, <1>4, <2>1, StreamPlaces
  <2> QED BY <2>2 DEF j, r
<1> HIDE DEF from
<1>9. /\ Follows(Tail(in), Stream(R), from + 1 + n + 1, k.sent)
      /\ t = [kind |-> "data", value |-> r.bytes[n + 1]]
  <2> DEFINE m == from + 1 + n
  <2>0. from \in Nat /\ n \in Nat
    BY <1>1, <1>7
  <2>1. m \in Nat /\ m + 1 = from + 1 + (n + 1) /\ Taken(R, sv) = m
    <3>1. m \in Nat /\ m + 1 = from + 1 + (n + 1)
      BY <2>0
    <3> QED BY <1>7, <3>1
  <2> HIDE DEF m
  <2>2. Follows(Tail(in), Stream(R), m + 1, k.sent) /\ Head(in) = Stream(R)[m + 1]
    <3>1. Follows(in, Stream(R), m, k.sent) /\ k.sent \in Nat
      BY <1>1, <1>3, <2>1
    <3> QED BY <2>1, <3>1, TakeFollows
  <2> QED BY <1>8, <2>1, <2>2 DEF m
<1>10. t.kind = "data" /\ t.value = r.bytes[n + 1]
  BY <1>9
<1> DEFINE v == r.bytes[n + 1]
<1>11. v \in Value /\ sv2.got = Append(sv.got, v)
  <2>1. r.bytes \in Seq(Value)
    BY <1>5 DEF Request
  <2>2. v \in Value
    BY <1>6, <2>1
  <2> QED BY <1>10, <2>2
<1> HIDE DEF v
<1>12. /\ Len(sv2.got) = n + 1 /\ sv2.got[n + 1] = v
       /\ \A i \in 1 .. n : sv2.got[i] = sv.got[i]
  BY <1>1, <1>11 DEF n
<1>13. \A i \in 1 .. Len(sv2.got) : sv2.got[i] = r.bytes[i]
  <2> SUFFICES ASSUME NEW i \in 1 .. n + 1 PROVE sv2.got[i] = r.bytes[i]
    BY <1>12
  <2>1. CASE i = n + 1
    BY <1>12, <2>1 DEF v
  <2>2. CASE i # n + 1
    <3>1. i \in 1 .. n
      BY <1>1, <2>2
    <3> QED BY <1>3, <1>12, <3>1
  <2> QED BY <2>1, <2>2
<1>14. FramingOK(R, k, Tail(in), sv2, wr)
  <2>1. Follows(Tail(in), Stream(R), Taken(R, sv2), k.sent)
    <3>0. from \in Nat /\ n \in Nat /\ Len(sv2.got) = n + 1 /\ Taken(R, sv2) = from + 1 + Len(sv2.got)
      BY <1>1, <1>7, <1>12
    <3>1. Taken(R, sv2) = from + 1 + n + 1
      BY <3>0
    <3> QED BY <1>9, <3>1
  <2>2. sv2.phase \notin Negotiating \cup {"request"} /\ Len(sv2.got) <= Len(r.bytes)
    BY <1>6, <1>12 DEF Negotiating
  <2> QED BY <1>3, <1>13, <2>1, <2>2 DEF FramingOK, r
<1>15. NegotiationOK(p, k, Tail(in), sv2, fl)
  <2>1. k.phase \in {"ready", "gone", "confused"}
    BY <1>2, SentReady
  <2> QED BY <2>1 DEF ConnectionOK, NegotiationOK
<1>16. RepliesOK(own, p, k, sv2, fl) /\ GivenOK(k, sv2, fl)
  BY DEF ConnectionOK, RepliesOK, GivenOK
<1> QED BY <1>14, <1>15, <1>16 DEF ConnectionOK

\* The tokens of an answer.
LEMMA AnswerTokens ==
  ASSUME NEW e \in Errors, NEW h \in Nat, NEW data \in Seq(Value)
  PROVE  LET w == <<Reply(e, h)>> \o Data(data)
         IN  /\ w \in Seq(OutToken) /\ Len(w) = 1 + Len(data) /\ w[1] = Reply(e, h)
             /\ \A j \in 1 .. Len(data) : w[1 + j] = [kind |-> "data", value |-> data[j]]
<1> DEFINE t == Reply(e, h)  x == <<t>>  y == Data(data)
<1>1. t \in OutToken
  BY DEF Reply, OutToken
<1> HIDE DEF t
<1>2. x \in Seq(OutToken) /\ Len(x) = 1 /\ x[1] = t
  BY <1>1
<1>3. DOMAIN data = 1 .. Len(data) /\ Len(data) \in Nat /\ \A j \in 1 .. Len(data) : data[j] \in Value
  OBVIOUS
<1>4. \A j \in 1 .. Len(data) : [kind |-> "data", value |-> data[j]] \in OutToken
  BY <1>3 DEF OutToken
<1>5. y = [j \in 1 .. Len(data) |-> [kind |-> "data", value |-> data[j]]]
  BY <1>3 DEF Data
<1>6. y \in Seq(OutToken) /\ Len(y) = Len(data)
  BY <1>3, <1>4, <1>5
<1>7. \A j \in 1 .. Len(data) : y[j] = [kind |-> "data", value |-> data[j]]
  BY <1>5
<1> HIDE DEF x, y
<1>8. /\ x \o y \in Seq(OutToken) /\ Len(x \o y) = Len(x) + Len(y)
      /\ \A i \in 1 .. Len(x) : (x \o y)[i] = x[i]
      /\ \A j \in 1 .. Len(y) : (x \o y)[Len(x) + j] = y[j]
  <2>1. x \in Seq(OutToken) /\ y \in Seq(OutToken)
    BY <1>2, <1>6
  <2> QED BY <2>1, Concatenated
<1> DEFINE w == x \o y
<1> HIDE DEF w
<1>9. /\ w \in Seq(OutToken) /\ Len(w) = 1 + Len(data) /\ w[1] = t
      /\ \A j \in 1 .. Len(data) : w[1 + j] = [kind |-> "data", value |-> data[j]]
  BY <1>2, <1>3, <1>6, <1>7, <1>8 DEF w
<1> QED BY <1>9, Zenon DEF w, x, y, t

\* The task answers, with wr2, the request r that it has read in full: its number is h.
Answering(own, p, k, in, sv, wr, out, h, r, sv2, data, wr2) ==
  /\ p \in ClientProgram /\ k \in ClientState /\ in \in Seq(InToken) /\ sv \in ServerState
  /\ out \in Seq(OutToken) /\ ConnectionOK(own, p, k, in, sv, wr, out) /\ sv.phase \in Serving
  /\ h = sv.handle /\ r = p.requests[h] /\ r.command # "DISC" /\ Len(sv.got) = Len(r.bytes)
  /\ sv2.phase = "request" /\ sv2.handle = h
  /\ data \in Seq(Value) /\ Len(data) = DataOf(r)
  /\ \A j \in 1 .. Len(data) : UnitOK(own, p.requests, h, j, data[j])
  /\ wr2 = <<Reply(Outcome(r), h)>> \o Data(data)

LEMMA AnswerOK ==
  ASSUME NEW own, NEW p, NEW k, NEW in, NEW sv, NEW wr, NEW out, NEW h, NEW r, NEW sv2, NEW data, NEW wr2,
         Answering(own, p, k, in, sv, wr, out, h, r, sv2, data, wr2)
  PROVE  /\ ConnectionOK(own, p, k, in, sv2, wr2, out \o wr2)
         /\ Given(k, out \o wr2) \subseteq Given(k, out) \cup {h}
         /\ wr2 \in Seq(OutToken)
<1>0. /\ p \in ClientProgram /\ k \in ClientState /\ in \in Seq(InToken) /\ sv \in ServerState
      /\ out \in Seq(OutToken) /\ ConnectionOK(own, p, k, in, sv, wr, out) /\ sv.phase \in Serving
      /\ h = sv.handle /\ r = p.requests[h] /\ r.command # "DISC" /\ Len(sv.got) = Len(r.bytes)
      /\ sv2.phase = "request" /\ sv2.handle = h
      /\ data \in Seq(Value) /\ Len(data) = DataOf(r)
      /\ \A j \in 1 .. Len(data) : UnitOK(own, p.requests, h, j, data[j])
      /\ wr2 = <<Reply(Outcome(r), h)>> \o Data(data)
  BY Zenon DEF Answering
<1> USE <1>0
<1> DEFINE R == p.requests  fl2 == out \o wr2
<1>1. R \in Seq(Request) /\ Len(R) \in Nat /\ h \in Nat /\ k.sent \in Nat /\ Len(sv.got) \in Nat
  BY DEF ClientProgram, ServerState, ClientState
<1>2. /\ h # 0 /\ h <= Len(R) /\ k.sent <= Len(Stream(R)) /\ wr = <<>>
      /\ Follows(in, Stream(R), Taken(R, sv), k.sent)
  BY DEF ConnectionOK, FramingOK
<1>3. h \in 1 .. Len(R) /\ h - 1 \in 0 .. Len(R)
  BY <1>1, <1>2
<1>4. r \in Request
  BY <1>1, <1>3
<1>5. DataOf(r) \in Nat /\ Len(data) \in Nat
  OBVIOUS
<1>6. /\ wr2 \in Seq(OutToken) /\ Len(wr2) = 1 + Len(data) /\ wr2[1] = Reply(Outcome(r), h)
      /\ \A j \in 1 .. Len(data) : wr2[1 + j] = [kind |-> "data", value |-> data[j]]
  <2> DEFINE e == Outcome(r)
  <2>1. e \in Errors
    BY OutcomeIs
  <2> HIDE DEF e
  <2> QED BY <1>1, <2>1, AnswerTokens DEF e
<1>7. /\ fl2 \in Seq(OutToken) /\ Len(fl2) = Len(out) + Len(wr2)
      /\ \A i \in 1 .. Len(out) : fl2[i] = out[i]
      /\ \A i \in 1 .. Len(wr2) : fl2[Len(out) + i] = wr2[i]
  BY <1>6, Concatenated
<1>8. Given(k, fl2) \subseteq Given(k, out) \cup {h}
  <2>1. \A i \in 1 .. Len(wr2) : wr2[i].kind = "reply" => wr2[i].handle = h
    <3> SUFFICES ASSUME NEW i \in 1 .. Len(wr2), wr2[i].kind = "reply" PROVE wr2[i].handle = h
      OBVIOUS
    <3>1. CASE i = 1
      BY <1>6, <3>1 DEF Reply
    <3>2. CASE i # 1
      <4> DEFINE j == i - 1
      <4>1. j \in 1 .. Len(data) /\ i = 1 + j
        BY <1>5, <1>6, <3>2
      <4> HIDE DEF j
      <4>2. wr2[i] = [kind |-> "data", value |-> data[j]]
        BY <1>6, <4>1
      <4> QED BY <4>2
    <3> QED BY <3>1, <3>2
  <2>2. wr2 \in Seq(OutToken)
    BY <1>6
  <2> QED BY <2>1, <2>2, OneGiven, Zenon
<1> HIDE DEF fl2
<1>9. FramingOK(R, k, in, sv2, wr2)
  <2>1. StreamTo(R, h) = StreamTo(R, h - 1) + 1 + Len(r.bytes)
    BY <1>1, <1>3, StreamPlaces
  <2>2. Taken(R, sv) = StreamTo(R, h - 1) + 1 + Len(sv.got)
    BY DEF Taken
  <2>3. Taken(R, sv2) = StreamTo(R, h)
    BY DEF Taken, Serving
  <2>4. Taken(R, sv2) = Taken(R, sv)
    BY <2>1, <2>2, <2>3
  <2>5. sv2.phase \notin Negotiating \cup Serving
    BY DEF Negotiating, Serving
  <2> QED BY <1>2, <2>4, <2>5 DEF FramingOK
<1>10. NegotiationOK(p, k, in, sv2, fl2)
  <2>1. k.phase \in {"ready", "gone", "confused"}
    BY SentReady
  <2>2. sv.phase \notin Negotiating /\ sv2.phase \notin Negotiating
    BY DEF Negotiating, Serving
  <2> QED BY <2>1, <2>2 DEF ConnectionOK, NegotiationOK, Negotiating
<1>11. RepliesOK(own, p, k, sv2, fl2)
  <2> SUFFICES ASSUME k.phase = "ready" PROVE RepliesOK(own, p, k, sv2, fl2)
    BY DEF RepliesOK
  <2> DEFINE told == PlanTo(R, Len(k.answers)) - k.due
  <2>1. CASE ~Keeps(p) /\ k.answers = <<>> /\ out # <<>> /\ out[1] = Plain("zeroes")
    <3>1. fl2 # <<>> /\ fl2[1] = out[1]
      <4>1. Len(out) \in Nat \ {0} /\ Len(wr2) \in Nat
        BY <1>6, <2>1
      <4>2. Len(fl2) # 0 /\ 1 \in 1 .. Len(out)
        BY <1>7, <4>1
      <4> QED BY <1>7, <4>2
    <3> QED BY <2>1, <3>1 DEF RepliesOK
  <2>2. CASE ~(~Keeps(p) /\ k.answers = <<>> /\ out # <<>> /\ out[1] = Plain("zeroes"))
    <3>1. /\ \A i \in 1 .. Len(out) : Fits(own, R, out[i], Plan(R)[told + i])
          /\ told + Len(out) = PlanTo(R, h - 1)
      BY <2>2 DEF ConnectionOK, RepliesOK
    <3>2. /\ PlanTo(R, h) = PlanTo(R, h - 1) + 1 + DataOf(r) /\ PlanTo(R, h - 1) \in Nat
          /\ PlanTo(R, h) <= Len(Plan(R))
          /\ \A j \in 0 .. DataOf(r) : Plan(R)[PlanTo(R, h - 1) + 1 + j] = <<h, j>>
      <4>1. h \in 0 .. Len(R)
        BY <1>1, <1>3
      <4> QED BY <1>1, <1>3, <4>1, PlanPlaces
    <3>3. told \in Int
      <4>1. Len(k.answers) \in 0 .. Len(R) /\ k.due \in Nat
        BY <1>1 DEF ConnectionOK, AnswersOK, ClientState
      <4>2. PlanTo(R, Len(k.answers)) \in Nat
        BY <1>1, <4>1, PlanPlaces
      <4> QED BY <4>1, <4>2
    <3> HIDE DEF told
    <3> DEFINE a == PlanTo(R, h - 1)  d == DataOf(r)  l == Len(out)  all == PlanTo(R, h)
    <3>4. /\ a \in Nat /\ d \in Nat /\ l \in Nat /\ told \in Int /\ told + l = a /\ all = a + 1 + d
          /\ Len(wr2) = 1 + d /\ Len(fl2) = l + (1 + d)
      BY <1>5, <1>6, <1>7, <3>1, <3>2, <3>3
    <3> HIDE DEF a, d, l, all
    <3>5. told + Len(fl2) = all
      BY <3>4
    <3>6. ASSUME NEW i \in 1 .. Len(fl2) PROVE Fits(own, R, fl2[i], Plan(R)[told + i])
      <4>1. CASE i \in 1 .. l
        <5>1. fl2[i] = out[i] /\ Fits(own, R, out[i], Plan(R)[told + i])
          BY <1>7, <3>1, <4>1 DEF l
        <5> QED BY <5>1
      <4>2. CASE i \notin 1 .. l
        <5> DEFINE j == i - l - 1
        <5>1. j \in 0 .. d /\ i = l + (1 + j) /\ told + i = a + 1 + j /\ 1 + j \in 1 .. 1 + d
          BY <3>4, <4>2
        <5> HIDE DEF j
        <5>2. Plan(R)[told + i] = <<h, j>>
          BY <3>2, <5>1 DEF a, d
        <5> DEFINE g == 1 + j
        <5>3. g \in 1 .. Len(wr2) /\ i = Len(out) + g
          BY <3>4, <5>1 DEF l
        <5> HIDE DEF g
        <5>4. fl2[i] = wr2[g]
          BY <1>7, <5>3
        <5>5. CASE j = 0
          <6>1. g = 1
            BY <5>5 DEF g
          <6> QED BY <1>6, <5>2, <5>4, <5>5, <6>1 DEF Fits
        <5>6. CASE j # 0
          <6>1. j \in 1 .. Len(data)
            <7>1. Len(data) = d /\ d \in Nat
              BY <3>4 DEF d
            <7>2. j \in 1 .. d
              BY <5>1, <5>6, <7>1
            <7> QED BY <7>1, <7>2
          <6>2. wr2[g] = [kind |-> "data", value |-> data[j]]
            BY <1>6, <6>1 DEF g
          <6>3. UnitOK(own, R, h, j, data[j])
            BY <6>1
          <6>4. fl2[i].kind = "data" /\ fl2[i].value = data[j]
            <7> DEFINE v == data[j]
            <7> HIDE DEF v
            <7>1. fl2[i] = [kind |-> "data", value |-> v]
              BY <5>4, <6>2 DEF v
            <7>2. fl2[i].kind = "data" /\ fl2[i].value = v
              BY <7>1
            <7> QED BY <7>2 DEF v
          <6> QED BY <5>2, <5>6, <6>3, <6>4 DEF Fits
        <5> QED BY <5>5, <5>6
      <4> QED BY <4>1, <4>2
    <3>7. told + Len(fl2) = PlanTo(R, sv2.handle) /\ told + Len(fl2) <= Len(Plan(R))
      BY <3>2, <3>5 DEF all
    <3>8. sv2.phase \notin Serving
      BY DEF Serving
    <3> QED BY <3>6, <3>7, <3>8 DEF RepliesOK, told
  <2> QED BY <2>1, <2>2
<1>12. GivenOK(k, sv2, fl2)
  <2>1. \A g \in Given(k, out) : g \in 1 .. h
    BY DEF ConnectionOK, GivenOK
  <2>2. h \in 1 .. h /\ sv2.phase \notin Serving
    BY <1>1, <1>2 DEF Serving
  <2> QED BY <1>8, <2>1, <2>2 DEF GivenOK
<1>13. ConnectionOK(own, p, k, in, sv2, wr2, fl2)
  BY <1>9, <1>10, <1>11, <1>12 DEF ConnectionOK
<1> QED BY <1>6, <1>8, <1>13 DEF fl2

-----------------------------------------------------------------------------
(* What is on the device *)

\* Nothing of its own was written.
LEMMA ContentKept ==
  ASSUME NEW own, NEW R, NEW sv \in ServerState, NEW sv2 \in ServerState, NEW d, NEW d2,
         ContentOK(own, R, sv, d), \A u \in own : d2[u] = d[u],
         \/ sv2.handle = sv.handle /\ sv2.phase = sv.phase
         \/ sv2.handle = sv.handle /\ sv.phase \notin Serving /\ sv2.phase = "error"
         \/ /\ sv2.handle = sv.handle /\ sv.phase \in Negotiating \cup {"request"}
            /\ sv2.phase \in Negotiating \cup {"request", "ok"}
         \/ sv.phase = "request" /\ sv2.phase \in Serving /\ sv2.handle = sv.handle + 1
  PROVE  ContentOK(own, R, sv2, d2)
<1> SUFFICES ASSUME NEW u \in own
    PROVE  /\ sv2.phase \in Negotiating \cup {"request", "ok"} => d2[u] = UnitAfter(R, sv2.handle, u)
           /\ sv2.phase \in Serving => d2[u] = UnitAfter(R, sv2.handle - 1, u)
           /\ sv2.phase = "error" /\ (\A j \in DOMAIN R : j >= sv2.handle => ~Writes(R[j], u))
                => d2[u] = UnitAfter(R, sv2.handle, u)
  BY DEF ContentOK
<1>1. /\ sv.phase \in Negotiating \cup {"request", "ok"} => d[u] = UnitAfter(R, sv.handle, u)
      /\ sv.phase \in Serving => d[u] = UnitAfter(R, sv.handle - 1, u)
      /\ sv.phase = "error" /\ (\A j \in DOMAIN R : j >= sv.handle => ~Writes(R[j], u))
           => d[u] = UnitAfter(R, sv.handle, u)
      /\ d2[u] = d[u]
  BY DEF ContentOK
<1>2. sv.handle \in Nat /\ sv2.handle \in Nat /\ sv.phase \in Negotiating \cup Serving \cup {"request", "ok", "error"}
  BY DEF ServerState
<1>3. /\ "request" \notin Serving \cup Negotiating /\ "error" \notin Serving \cup Negotiating
      /\ "ok" \notin Serving \cup Negotiating
      /\ Negotiating \cap Serving = {}
  BY DEF Serving, Negotiating
<1>4. CASE sv2.handle = sv.handle /\ sv2.phase = sv.phase
  BY <1>1, <1>4
<1>5. CASE sv2.handle = sv.handle /\ sv.phase \notin Serving /\ sv2.phase = "error"
  BY <1>1, <1>2, <1>3, <1>5
<1>6. CASE /\ sv2.handle = sv.handle /\ sv.phase \in Negotiating \cup {"request"}
           /\ sv2.phase \in Negotiating \cup {"request", "ok"}
  BY <1>1, <1>3, <1>6
<1>7. CASE sv.phase = "request" /\ sv2.phase \in Serving /\ sv2.handle = sv.handle + 1
  <2>1. sv2.handle - 1 = sv.handle
    BY <1>2, <1>7
  <2> QED BY <1>1, <1>3, <1>7, <2>1
<1> QED BY <1>4, <1>5, <1>6, <1>7

\* A request was carried out, or failed on the way.
LEMMA ContentServed ==
  ASSUME NEW own, NEW R \in Seq(Request), NEW sv \in ServerState, NEW sv2, NEW d, NEW d2,
         ContentOK(own, R, sv, d), sv.phase \in Serving, NEW h \in 1 .. Len(R), h = sv.handle,
         sv2.handle = h, sv2.phase \in {"request", "ok", "error"},
         \A u \in own : ~Writes(R[h], u) => d2[u] = d[u],
         \A u \in own : Writes(R[h], u) /\ sv2.phase # "error"
                          => d2[u] = R[h].bytes[u - R[h].offset + 1]
  PROVE  ContentOK(own, R, sv2, d2)
<1>1. sv2.phase \notin Serving /\ h \in Nat \ {0} /\ h - 1 \in Nat /\ DOMAIN R = 1 .. Len(R)
  BY DEF Serving
<1>2. ASSUME NEW u \in own, sv2.phase = "error" => ~Writes(R[h], u)
      PROVE  d2[u] = UnitAfter(R, h, u)
  <2>1. CASE Writes(R[h], u)
    BY <1>1, <1>2, <2>1, UnitWritten
  <2>2. CASE ~Writes(R[h], u)
    <3> DEFINE g == h - 1
    <3>1. d2[u] = UnitAfter(R, g, u)
      BY <2>2 DEF ContentOK
    <3>2. g \in Nat /\ g <= h /\ \A j \in g + 1 .. h : ~Writes(R[j], u)
      BY <1>1, <2>2
    <3> HIDE DEF g
    <3>3. UnitAfter(R, h, u) = UnitAfter(R, g, u)
      BY <1>1, <3>2, UnitKept
    <3> QED BY <3>1, <3>3
  <2> QED BY <2>1, <2>2
<1>3. ASSUME NEW u \in own
      PROVE  /\ sv2.phase \in Negotiating \cup {"request", "ok"} => d2[u] = UnitAfter(R, sv2.handle, u)
             /\ sv2.phase \in Serving => d2[u] = UnitAfter(R, sv2.handle - 1, u)
             /\ sv2.phase = "error" /\ (\A j \in DOMAIN R : j >= sv2.handle => ~Writes(R[j], u))
                  => d2[u] = UnitAfter(R, sv2.handle, u)
  <2>1. CASE sv2.phase # "error"
    BY <1>1, <1>2, <2>1
  <2>2. CASE sv2.phase = "error" /\ \A j \in DOMAIN R : j >= sv2.handle => ~Writes(R[j], u)
    <3>1. h \in DOMAIN R /\ h >= sv2.handle
      BY <1>1
    <3>2. ~Writes(R[h], u)
      BY <2>2, <3>1
    <3> QED BY <1>1, <1>2, <2>2, <3>2 DEF Negotiating
  <2>3. CASE sv2.phase = "error" /\ ~\A j \in DOMAIN R : j >= sv2.handle => ~Writes(R[j], u)
    BY <1>1, <2>3 DEF Negotiating
  <2> QED BY <2>1, <2>2, <2>3
<1> QED BY <1>3 DEF ContentOK

\* What is on the device when it is flushed are the writes before every answered FLUSH.
LEMMA DiskSettled ==
  ASSUME NEW own, NEW R \in Seq(Request), NEW sv \in ServerState, sv.handle <= Len(R), NEW k, NEW fl,
         GivenOK(k, sv, fl), NEW d, ContentOK(own, R, sv, d)
  PROVE  DurableOK(own, R, sv, Given(k, fl), d)
<1> SUFFICES ASSUME NEW h \in DOMAIN R, NEW u \in Settled(own, R, h),
                    \/ R[h].command = "FLUSH" /\ h \in Given(k, fl)
                    \/ R[h].command = "DISC" /\ sv.phase = "ok" /\ sv.handle = h
             PROVE  d[u] = UnitAfter(R, h, u)
  BY DEF DurableOK
<1>1. u \in own /\ \A j \in DOMAIN R : j > h => ~Writes(R[j], u)
  BY DEF Settled
<1>2. /\ sv.handle \in Nat /\ h \in Nat \ {0} /\ DOMAIN R = 1 .. Len(R) /\ Len(R) \in Nat
      /\ sv.phase \in Negotiating \cup Serving \cup {"request", "ok", "error"}
  BY DEF ServerState
<1>3. ~Writes(R[h], u)
  BY DEF Writes
<1>4. h <= sv.handle /\ (sv.phase \in Serving => h <= sv.handle - 1 /\ sv.handle - 1 \in Nat)
  BY <1>2 DEF GivenOK, Serving
<1>5. ASSUME NEW g \in Nat, h <= g, g <= Len(R) PROVE UnitAfter(R, g, u) = UnitAfter(R, h, u)
  <2>1. \A j \in h + 1 .. g : ~Writes(R[j], u)
    BY <1>1, <1>2, <1>5
  <2> QED BY <1>2, <1>5, <2>1, UnitKept
<1>6. CASE sv.phase \in Negotiating \cup {"request", "ok"}
  <2>1. d[u] = UnitAfter(R, sv.handle, u)
    BY <1>1, <1>6 DEF ContentOK
  <2> QED BY <1>2, <1>4, <1>5, <2>1
<1>7. CASE sv.phase \in Serving
  <2>1. d[u] = UnitAfter(R, sv.handle - 1, u)
    BY <1>1, <1>7 DEF ContentOK
  <2>2. sv.handle - 1 <= Len(R)
    BY <1>2
  <2> QED BY <1>4, <1>5, <1>7, <2>1, <2>2
<1>8. CASE sv.phase = "error"
  <2>1. \A j \in DOMAIN R : j >= sv.handle => ~Writes(R[j], u)
    BY <1>1, <1>2, <1>3, <1>4
  <2>2. d[u] = UnitAfter(R, sv.handle, u)
    BY <1>1, <1>8, <2>1 DEF ContentOK
  <2> QED BY <1>2, <1>4, <1>5, <2>2
<1> QED BY <1>2, <1>6, <1>7, <1>8

\* No FLUSH was answered, and no connection closed by a DISC.
LEMMA DurableKept ==
  ASSUME NEW own, NEW R, NEW sv, NEW sv2, NEW given, NEW given2, NEW d,
         DurableOK(own, R, sv, given, d),
         \A h \in DOMAIN R : R[h].command = "FLUSH" /\ h \in given2 => h \in given,
         sv2.phase = "ok" => \/ sv2.handle \notin DOMAIN R \/ R[sv2.handle].command # "DISC"
                             \/ sv.phase = "ok" /\ sv2.handle = sv.handle
  PROVE  DurableOK(own, R, sv2, given2, d)
<1> SUFFICES ASSUME NEW h \in DOMAIN R, NEW u \in Settled(own, R, h),
                    \/ R[h].command = "FLUSH" /\ h \in given2
                    \/ R[h].command = "DISC" /\ sv2.phase = "ok" /\ sv2.handle = h
             PROVE  d[u] = UnitAfter(R, h, u)
  BY DEF DurableOK
<1>1. \/ R[h].command = "FLUSH" /\ h \in given
      \/ R[h].command = "DISC" /\ sv.phase = "ok" /\ sv.handle = h
  OBVIOUS
<1> QED BY <1>1 DEF DurableOK

-----------------------------------------------------------------------------
(* Steps *)

\* What the invariant says of one connection.
LEMMA At ==
  ASSUME NbdInv, NEW c \in Connections
  PROVE  /\ program[c] \in ClientProgram /\ client[c] \in ClientState /\ inbox[c] \in Seq(InToken)
         /\ outbox[c] \in Seq(OutToken) /\ server[c] \in ServerState /\ writing[c] \in Seq(OutToken)
         /\ Len(inbox[c]) <= Buffer /\ Len(outbox[c]) <= Buffer
         /\ program[c].requests \in Seq(Request) /\ server[c].handle <= Len(program[c].requests)
         /\ ConnectionOK(Own(c), program[c], client[c], inbox[c], server[c], writing[c],
                         outbox[c] \o writing[c])
         /\ ContentOK(Own(c), program[c].requests, server[c], disk)
         /\ DurableOK(Own(c), program[c].requests, server[c],
                      Given(client[c], outbox[c] \o writing[c]), durable)
<1>1. TypesOK
  BY DEF NbdInv
<1>2. program[c] \in ClientProgram
  BY <1>1, NbdAssumption DEF TypesOK, ClientProgram
<1>3. /\ client[c] \in ClientState /\ inbox[c] \in Seq(InToken)
      /\ outbox[c] \in Seq(OutToken) /\ server[c] \in ServerState /\ writing[c] \in Seq(OutToken)
      /\ Len(inbox[c]) <= Buffer /\ Len(outbox[c]) <= Buffer
  BY <1>1 DEF TypesOK
<1>4. /\ ConnectionOK(Own(c), program[c], client[c], inbox[c], server[c], writing[c],
                         outbox[c] \o writing[c])
      /\ ContentOK(Own(c), program[c].requests, server[c], disk)
      /\ DurableOK(Own(c), program[c].requests, server[c],
                      Given(client[c], outbox[c] \o writing[c]), durable)
  BY Zenon DEF NbdInv, Flight
<1>5. program[c].requests \in Seq(Request) /\ server[c].handle <= Len(program[c].requests)
  BY <1>2, <1>4 DEF ClientProgram, ConnectionOK, FramingOK
<1> QED BY <1>2, <1>3, <1>4, <1>5

\* A step of one connection.
LEMMA StepOK ==
  ASSUME NbdInv, NEW c \in Connections, program' = program,
         client' \in [Connections -> ClientState], inbox' \in [Connections -> Seq(InToken)],
         outbox' \in [Connections -> Seq(OutToken)], server' \in [Connections -> ServerState],
         writing' \in [Connections -> Seq(OutToken)],
         Len(inbox'[c]) <= Buffer, Len(outbox'[c]) <= Buffer,
         \A d \in Connections : d # c =>
           /\ client'[d] = client[d] /\ inbox'[d] = inbox[d] /\ outbox'[d] = outbox[d]
           /\ server'[d] = server[d] /\ writing'[d] = writing[d],
         ConnectionOK(Own(c), program[c], client'[c], inbox'[c], server'[c], writing'[c],
                      outbox'[c] \o writing'[c]),
         disk' \in [Units -> Value], durable' \in [Units -> Value],
         ContentOK(Own(c), program[c].requests, server'[c], disk'),
         \/ durable' = disk'
         \/ /\ durable' = durable
            /\ DurableOK(Own(c), program[c].requests, server'[c],
                         Given(client'[c], outbox'[c] \o writing'[c]), durable),
         \A d \in Connections : d # c => \A u \in Own(d) : disk'[u] = disk[u],
         faults' \in 0 .. Faults, faults' <= faults,
         server'[c].phase = "error" =>
           \/ ~Keeps(program[c]) \/ Refused(program[c])
           \/ client'[c].phase = "gone" \/ faults' < Faults
  PROVE  NbdInv'
<1>1. TypesOK'
  <2>1. \A d \in Connections : Len(inbox'[d]) <= Buffer /\ Len(outbox'[d]) <= Buffer
    BY At
  <2>2. program' \in Clients
    BY DEF NbdInv, TypesOK
  <2> QED BY <2>1, <2>2 DEF TypesOK, Units
<1>2. ASSUME NEW d \in Connections
      PROVE  /\ ConnectionOK(Own(d), program[d], client'[d], inbox'[d], server'[d], writing'[d],
                             outbox'[d] \o writing'[d])
             /\ ContentOK(Own(d), program[d].requests, server'[d], disk')
             /\ DurableOK(Own(d), program[d].requests, server'[d],
                          Given(client'[d], outbox'[d] \o writing'[d]), durable')
  <2>1. /\ ConnectionOK(Own(d), program[d], client'[d], inbox'[d], server'[d], writing'[d],
                        outbox'[d] \o writing'[d])
        /\ ContentOK(Own(d), program[d].requests, server'[d], disk')
    <3>1. CASE d = c
      BY <3>1
    <3>2. CASE d # c
      <4>1. /\ ConnectionOK(Own(d), program[d], client[d], inbox[d], server[d], writing[d],
                            outbox[d] \o writing[d])
            /\ ContentOK(Own(d), program[d].requests, server[d], disk) /\ server[d] \in ServerState
        BY At
      <4>2. ContentOK(Own(d), program[d].requests, server[d], disk')
        <5>1. \A u \in Own(d) : disk'[u] = disk[u]
          BY <3>2
        <5> QED BY <4>1, <5>1 DEF ContentOK
      <4> QED BY <3>2, <4>1, <4>2
    <3> QED BY <3>1, <3>2
  <2>2. DurableOK(Own(d), program[d].requests, server'[d],
                  Given(client'[d], outbox'[d] \o writing'[d]), durable')
    <3>1. CASE durable' = disk'
      <4> DEFINE fl == outbox'[d] \o writing'[d]
      <4>1. program[d].requests \in Seq(Request) /\ server'[d] \in ServerState
        BY At
      <4>2. server'[d].handle <= Len(program[d].requests) /\ GivenOK(client'[d], server'[d], fl)
        BY <2>1 DEF ConnectionOK, FramingOK
      <4> QED BY <2>1, <3>1, <4>1, <4>2, DiskSettled
    <3>2. CASE durable' = durable /\ d = c
      BY <3>1, <3>2
    <3>3. CASE durable' = durable /\ d # c
      BY <3>3, At
    <3> QED BY <3>1, <3>2, <3>3
  <2> QED BY <2>1, <2>2
<1>3. \A d \in Connections : Own(d)' = Own(d)
  BY DEF Own, WrittenBy, Units
<1>4. NotDropped'
  <2> SUFFICES ASSUME NEW d \in Connections, server'[d].phase = "error"
               PROVE  \/ ~Keeps(program[d]) \/ Refused(program[d])
                      \/ client'[d].phase = "gone" \/ faults' < Faults
    BY DEF NotDropped
  <2>1. CASE d = c
    BY <2>1
  <2>2. CASE d # c
    <3>1. \/ ~Keeps(program[d]) \/ Refused(program[d])
          \/ client[d].phase = "gone" \/ faults < Faults
      BY <2>2 DEF NbdInv, NotDropped
    <3>2. faults < Faults => faults' < Faults
      BY NbdAssumption DEF NbdInv, TypesOK
    <3> QED BY <2>2, <3>1, <3>2
  <2> QED BY <2>1, <2>2
<1>5. \A d \in Connections :
        (/\ ConnectionOK(Own(d), program[d], client[d], inbox[d], server[d], writing[d], Flight(d))
         /\ ContentOK(Own(d), program[d].requests, server[d], disk)
         /\ DurableOK(Own(d), program[d].requests, server[d], Given(client[d], Flight(d)), durable))'
  BY <1>2, <1>3 DEF Flight
<1> QED BY <1>1, <1>4, <1>5 DEF NbdInv

\* What the task's helpers do.
LEMMA GoesTo ==
  ASSUME server \in [Connections -> ServerState], NEW c \in Connections,
         NEW phase \in Negotiating \cup Serving \cup {"request", "ok", "error"}, Goes(c, phase)
  PROVE  /\ server' \in [Connections -> ServerState] /\ server'[c].phase = phase
         /\ server'[c].handle = server[c].handle /\ server'[c].request = server[c].request
         /\ server'[c].got = server[c].got
         /\ \A d \in Connections : d # c => server'[d] = server[d]
<1>1. server' = [server EXCEPT ![c] = [server[c] EXCEPT !.phase = phase]]
  BY Zenon DEF Goes
<1> DEFINE sv == server[c]  sv2 == [sv EXCEPT !.phase = phase]
<1>2. sv \in ServerState
  OBVIOUS
<1> HIDE DEF sv
<1>3. /\ sv2 \in ServerState /\ sv2.phase = phase /\ sv2.handle = sv.handle /\ sv2.request = sv.request
      /\ sv2.got = sv.got
  BY <1>2 DEF ServerState
<1>4. server' = [server EXCEPT ![c] = sv2]
  BY <1>1 DEF sv
<1> HIDE DEF sv2
<1> QED BY <1>3, <1>4 DEF sv

LEMMA SaysThat ==
  ASSUME writing \in [Connections -> Seq(OutToken)], NEW c \in Connections,
         NEW w \in Seq(OutToken), Says(c, w)
  PROVE  /\ writing' \in [Connections -> Seq(OutToken)] /\ writing'[c] = w
         /\ \A d \in Connections : d # c => writing'[d] = writing[d]
BY DEF Says

LEMMA Takes ==
  ASSUME inbox \in [Connections -> Seq(InToken)], NEW c \in Connections, Take(c)
  PROVE  /\ inbox' \in [Connections -> Seq(InToken)] /\ inbox[c] # <<>> /\ inbox'[c] = Tail(inbox[c])
         /\ Len(inbox'[c]) <= Len(inbox[c])
         /\ \A d \in Connections : d # c => inbox'[d] = inbox[d]
<1>1. inbox[c] # <<>> /\ inbox' = [inbox EXCEPT ![c] = Tail(inbox[c])] /\ inbox[c] \in Seq(InToken)
  BY DEF Take
<1>2. Tail(inbox[c]) \in Seq(InToken) /\ Len(Tail(inbox[c])) <= Len(inbox[c])
  BY <1>1
<1> QED BY <1>1, <1>2

\* A step that leaves the device alone.
LEMMA QuietStepOK ==
  ASSUME NbdInv, NEW c \in Connections, UNCHANGED <<program, disk, durable, faults>>,
         client' \in [Connections -> ClientState], inbox' \in [Connections -> Seq(InToken)],
         outbox' \in [Connections -> Seq(OutToken)], server' \in [Connections -> ServerState],
         writing' \in [Connections -> Seq(OutToken)],
         Len(inbox'[c]) <= Buffer, Len(outbox'[c]) <= Buffer,
         \A d \in Connections : d # c =>
           /\ client'[d] = client[d] /\ inbox'[d] = inbox[d] /\ outbox'[d] = outbox[d]
           /\ server'[d] = server[d] /\ writing'[d] = writing[d],
         ConnectionOK(Own(c), program[c], client'[c], inbox'[c], server'[c], writing'[c],
                      outbox'[c] \o writing'[c]),
         ContentOK(Own(c), program[c].requests, server'[c], disk),
         \A h \in DOMAIN program[c].requests :
           /\ program[c].requests[h].command = "FLUSH"
           /\ h \in Given(client'[c], outbox'[c] \o writing'[c])
           => h \in Given(client[c], outbox[c] \o writing[c]),
         server'[c].phase = "ok" =>
           \/ server'[c].handle \notin DOMAIN program[c].requests
           \/ program[c].requests[server'[c].handle].command # "DISC"
           \/ server[c].phase = "ok" /\ server'[c].handle = server[c].handle,
         server'[c].phase = "error" =>
           \/ ~Keeps(program[c]) \/ Refused(program[c])
           \/ client'[c].phase = "gone" \/ faults < Faults
  PROVE  NbdInv'
<1>1. /\ disk' = disk /\ durable' = durable /\ faults' = faults /\ program' = program
      /\ disk \in [Units -> Value] /\ durable \in [Units -> Value] /\ faults \in 0 .. Faults
      /\ faults' <= faults
  BY NbdAssumption DEF NbdInv, TypesOK
<1>2. DurableOK(Own(c), program[c].requests, server'[c],
                Given(client'[c], outbox'[c] \o writing'[c]), durable)
  <2> DEFINE own == Own(c)  R == program[c].requests  sv == server[c]  sv2 == server'[c]
             given == Given(client[c], outbox[c] \o writing[c])
             given2 == Given(client'[c], outbox'[c] \o writing'[c])
  <2>1. DurableOK(own, R, sv, given, durable)
    BY At
  <2>2. \A h \in DOMAIN R : R[h].command = "FLUSH" /\ h \in given2 => h \in given
    OBVIOUS
  <2>3. sv2.phase = "ok" => \/ sv2.handle \notin DOMAIN R \/ R[sv2.handle].command # "DISC"
                            \/ sv.phase = "ok" /\ sv2.handle = sv.handle
    OBVIOUS
  <2> HIDE DEF own, R, sv, sv2, given, given2
  <2>4. DurableOK(own, R, sv2, given2, durable)
    BY <2>1, <2>2, <2>3, DurableKept
  <2> QED BY <2>4 DEF own, R, sv2, given2
<1> QED BY <1>1, <1>2, StepOK

\* The client sends something, or hangs up.
LEMMA ClientStepOK ==
  ASSUME NbdInv, NEW c \in Connections,
         UNCHANGED <<program, outbox, server, writing, disk, durable, faults>>,
         NEW k2 \in ClientState, NEW in2 \in Seq(InToken), Len(in2) <= Buffer,
         client' = [client EXCEPT ![c] = k2], inbox' = [inbox EXCEPT ![c] = in2],
         k2.answers = client[c].answers, client[c].phase # "gone",
         ConnectionOK(Own(c), program[c], k2, in2, server[c], writing[c], outbox[c] \o writing[c])
  PROVE  NbdInv'
<1>1. TypesOK
  BY DEF NbdInv
<1>2. /\ client' \in [Connections -> ClientState] /\ client'[c] = k2
      /\ \A d \in Connections : d # c => client'[d] = client[d]
  BY <1>1 DEF TypesOK
<1>3. /\ inbox' \in [Connections -> Seq(InToken)] /\ inbox'[c] = in2
      /\ \A d \in Connections : d # c => inbox'[d] = inbox[d]
  BY <1>1 DEF TypesOK
<1>4. /\ outbox' \in [Connections -> Seq(OutToken)] /\ server' \in [Connections -> ServerState]
      /\ writing' \in [Connections -> Seq(OutToken)]
      /\ outbox' = outbox /\ server' = server /\ writing' = writing /\ Len(outbox[c]) <= Buffer
  BY <1>1 DEF TypesOK
<1>5. ContentOK(Own(c), program[c].requests, server[c], disk)
  BY At
<1>6. Given(k2, outbox[c] \o writing[c]) = Given(client[c], outbox[c] \o writing[c])
  BY DEF Given
<1>7. server[c].phase = "error" =>
        \/ ~Keeps(program[c]) \/ Refused(program[c])
        \/ client'[c].phase = "gone" \/ faults < Faults
  BY DEF NbdInv, NotDropped
<1> QED BY <1>2, <1>3, <1>4, <1>5, <1>6, <1>7, QuietStepOK

LEMMA SendFlagsStep ==
  ASSUME NbdInv, NEW c \in Connections, SendFlags(c)
  PROVE  NbdInv'
<1> DEFINE k == client[c]  k2 == [k EXCEPT !.phase = "option"]  in2 == Append(inbox[c], Plain("flags"))
<1>1. /\ k.phase = "flags" /\ Len(inbox[c]) < Buffer /\ inbox' = [inbox EXCEPT ![c] = in2]
      /\ client' = [client EXCEPT ![c] = k2]
      /\ UNCHANGED <<program, outbox, server, writing, disk, durable, faults>>
  <2>1. client' = [client EXCEPT ![c] = k2]
    BY Zenon DEF SendFlags
  <2> QED BY <2>1 DEF SendFlags, Write
<1>2. /\ k \in ClientState /\ inbox[c] \in Seq(InToken)
      /\ ConnectionOK(Own(c), program[c], k, inbox[c], server[c], writing[c], outbox[c] \o writing[c])
      /\ program[c] \in ClientProgram /\ server[c] \in ServerState
  BY At
<1> HIDE DEF k
<1>3. k2 \in ClientState /\ k2.answers = k.answers
  BY <1>2 DEF ClientState
<1>4. in2 \in Seq(InToken) /\ Len(in2) <= Buffer
  <2>1. Plain("flags") \in InToken
    BY DEF Plain, InToken
  <2> QED BY <1>1, <1>2, <2>1, NbdAssumption
<1>5. k2 = [k EXCEPT !.phase = "option"]
  OBVIOUS
<1> HIDE DEF k2
<1>6. ConnectionOK(Own(c), program[c], k2, in2, server[c], writing[c], outbox[c] \o writing[c])
  BY <1>1, <1>2, <1>3, <1>5, SendFlagsOK
<1> HIDE DEF in2
<1>7. k2.answers = client[c].answers /\ client[c].phase # "gone"
  BY <1>1, <1>3 DEF k
<1> QED BY <1>1, <1>3, <1>4, <1>6, <1>7, ClientStepOK

LEMMA SendOptionStep ==
  ASSUME NbdInv, NEW c \in Connections, SendOption(c)
  PROVE  NbdInv'
<1> DEFINE k == client[c]  n == k.options + 1  k2 == [k EXCEPT !.options = n, !.phase = "asked"]
           p == program[c]  in2 == Append(inbox[c], OptionToken(p, n))
<1>1. /\ k.phase = "option" /\ Len(inbox[c]) < Buffer /\ inbox' = [inbox EXCEPT ![c] = in2]
      /\ n <= Len(p.options) /\ client' = [client EXCEPT ![c] = k2]
      /\ UNCHANGED <<program, outbox, server, writing, disk, durable, faults>>
  <2>1. client' = [client EXCEPT ![c].options = n, ![c].phase = "asked"]
    BY Zenon DEF SendOption
  <2>2. client' = [client EXCEPT ![c] = k2]
    BY <2>1, At DEF NbdInv, TypesOK, ClientState
  <2> QED BY <2>2 DEF SendOption, Write, OptionToken
<1>2. /\ k \in ClientState /\ inbox[c] \in Seq(InToken)
      /\ ConnectionOK(Own(c), program[c], k, inbox[c], server[c], writing[c], outbox[c] \o writing[c])
      /\ program[c] \in ClientProgram /\ server[c] \in ServerState
  BY At
<1>3. n \in Nat \ {0}
  BY <1>2 DEF ClientState
<1> HIDE DEF k
<1>4. n = k.options + 1
  OBVIOUS
<1> HIDE DEF n
<1>5. k2 \in ClientState /\ k2.answers = k.answers
  BY <1>2, <1>3 DEF ClientState
<1>6. in2 \in Seq(InToken) /\ Len(in2) <= Buffer
  <2>1. p.options[n] \in Option
    BY <1>1, <1>2, <1>3 DEF ClientProgram
  <2>2. OptionToken(p, n) \in InToken
    BY <2>1 DEF OptionToken, InToken
  <2> QED BY <1>1, <1>2, <2>2, NbdAssumption
<1>7. k2 = [k EXCEPT !.options = n, !.phase = "asked"]
  OBVIOUS
<1> HIDE DEF k2
<1>8. ConnectionOK(Own(c), program[c], k2, in2, server[c], writing[c], outbox[c] \o writing[c])
  BY <1>1, <1>2, <1>4, <1>5, <1>7, SendOptionOK
<1> HIDE DEF in2
<1>9. k2.answers = client[c].answers /\ client[c].phase # "gone"
  BY <1>1, <1>5 DEF k
<1> QED BY <1>1, <1>5, <1>6, <1>8, <1>9, ClientStepOK

LEMMA SendRequestStep ==
  ASSUME NbdInv, NEW c \in Connections, SendRequest(c)
  PROVE  NbdInv'
<1> DEFINE k == client[c]  n == k.sent + 1  k2 == [k EXCEPT !.sent = n]
           s == Stream(program[c].requests)  in2 == Append(inbox[c], s[n])
<1>1. /\ k.phase = "ready" /\ Len(inbox[c]) < Buffer /\ inbox' = [inbox EXCEPT ![c] = in2]
      /\ n <= Len(s) /\ client' = [client EXCEPT ![c] = k2]
      /\ UNCHANGED <<program, outbox, server, writing, disk, durable, faults>>
  <2>1. client' = [client EXCEPT ![c] = k2]
    BY Zenon DEF SendRequest
  <2> QED BY <2>1 DEF SendRequest, Write
<1>2. /\ k \in ClientState /\ inbox[c] \in Seq(InToken)
      /\ ConnectionOK(Own(c), program[c], k, inbox[c], server[c], writing[c], outbox[c] \o writing[c])
      /\ program[c] \in ClientProgram /\ server[c] \in ServerState
      /\ program[c].requests \in Seq(Request)
  BY At
<1>3. n \in Nat \ {0}
  BY <1>2 DEF ClientState
<1> HIDE DEF k
<1>4. n = k.sent + 1
  OBVIOUS
<1> HIDE DEF n
<1>5. k2 \in ClientState /\ k2.answers = k.answers
  BY <1>2, <1>3 DEF ClientState
<1>6. in2 \in Seq(InToken) /\ Len(in2) <= Buffer
  <2>1. s \in Seq(InToken)
    BY <1>2, StreamPlaces
  <2> HIDE DEF s
  <2>2. s[n] \in InToken
    BY <1>1, <1>3, <2>1
  <2> QED BY <1>1, <1>2, <2>2, NbdAssumption
<1>7. k2 = [k EXCEPT !.sent = n]
  OBVIOUS
<1> HIDE DEF k2
<1>8. ConnectionOK(Own(c), program[c], k2, in2, server[c], writing[c], outbox[c] \o writing[c])
  BY <1>1, <1>2, <1>4, <1>5, <1>7, SendRequestOK
<1> HIDE DEF in2
<1>9. k2.answers = client[c].answers /\ client[c].phase # "gone"
  BY <1>1, <1>5 DEF k
<1> QED BY <1>1, <1>5, <1>6, <1>8, <1>9, ClientStepOK

LEMMA HangUpStep ==
  ASSUME NbdInv, NEW c \in Connections, HangUp(c)
  PROVE  NbdInv'
<1> DEFINE k == client[c]  k2 == [k EXCEPT !.phase = "gone"]
<1>1. /\ k.phase # "gone" /\ client' = [client EXCEPT ![c] = k2]
      /\ UNCHANGED <<program, inbox, outbox, server, writing, disk, durable, faults>>
  <2>1. client' = [client EXCEPT ![c] = k2]
    BY Zenon DEF HangUp
  <2> QED BY <2>1 DEF HangUp
<1>2. /\ k \in ClientState /\ inbox[c] \in Seq(InToken) /\ Len(inbox[c]) <= Buffer
      /\ ConnectionOK(Own(c), program[c], k, inbox[c], server[c], writing[c], outbox[c] \o writing[c])
      /\ program[c] \in ClientProgram /\ server[c] \in ServerState
  BY At
<1> HIDE DEF k
<1>3. k2 \in ClientState /\ k2.answers = k.answers
  BY <1>2 DEF ClientState
<1>4. k2 = [k EXCEPT !.phase = "gone"]
  OBVIOUS
<1> HIDE DEF k2
<1>5. ConnectionOK(Own(c), program[c], k2, inbox[c], server[c], writing[c], outbox[c] \o writing[c])
  BY <1>2, <1>3, <1>4, HangUpOK
<1>6. inbox' = [inbox EXCEPT ![c] = inbox[c]]
  BY <1>1 DEF NbdInv, TypesOK
<1>7. k2.answers = client[c].answers /\ client[c].phase # "gone"
  BY <1>1, <1>3 DEF k
<1> QED BY <1>1, <1>2, <1>3, <1>5, <1>6, <1>7, ClientStepOK

LEMMA ReceiveStep ==
  ASSUME NbdInv, NEW c \in Connections, Receive(c)
  PROVE  NbdInv'
<1> DEFINE k == client[c]  p == program[c]  out == outbox[c]  wr == writing[c]  fl == out \o wr
           k2 == Understood(k, p, Head(fl))
<1>1. /\ k.phase # "gone" /\ out # <<>>
      /\ client' = [client EXCEPT ![c] = Understood(k, p, Head(out))]
      /\ outbox' = [outbox EXCEPT ![c] = Tail(out)]
      /\ UNCHANGED <<program, inbox, server, writing, disk, durable, faults>>
  BY DEF Receive
<1>2. /\ k \in ClientState /\ inbox[c] \in Seq(InToken) /\ Len(inbox[c]) <= Buffer
      /\ ConnectionOK(Own(c), p, k, inbox[c], server[c], wr, fl)
      /\ ContentOK(Own(c), p.requests, server[c], disk)
      /\ p \in ClientProgram /\ server[c] \in ServerState
      /\ out \in Seq(OutToken) /\ wr \in Seq(OutToken) /\ Len(out) <= Buffer
  BY At
<1>3. /\ fl \in Seq(OutToken) /\ fl # <<>> /\ Head(fl) = Head(out) /\ Tail(fl) = Tail(out) \o wr
      /\ Tail(out) \in Seq(OutToken) /\ Len(Tail(out)) <= Buffer
  <2> HIDE DEF out, wr
  <2>1. /\ fl \in Seq(OutToken) /\ Len(fl) = Len(out) + Len(wr)
        /\ \A i \in 1 .. Len(out) : fl[i] = out[i]
        /\ \A i \in 1 .. Len(wr) : fl[Len(out) + i] = wr[i]
    BY <1>2, Concatenated
  <2> HIDE DEF fl
  <2>2. Len(out) \in Nat \ {0} /\ Len(wr) \in Nat
    BY <1>1, <1>2
  <2>3. fl # <<>> /\ Head(fl) = Head(out)
    <3>1. Len(fl) # 0 /\ 1 \in 1 .. Len(out) /\ Len(fl) \in Nat
      BY <2>1, <2>2
    <3>2. Head(fl) = fl[1] /\ Head(out) = out[1] /\ fl # <<>>
      BY <1>1, <1>2, <2>1, <3>1
    <3> QED BY <2>1, <3>1, <3>2
  <2> DEFINE t == Tail(out)
  <2>4. /\ t \in Seq(OutToken) /\ Len(t) = Len(out) - 1 /\ \A i \in 1 .. Len(t) : t[i] = out[i + 1]
    BY <1>1, <1>2
  <2> HIDE DEF t
  <2> DEFINE x == Tail(fl)  y == t \o wr
  <2>5. /\ y \in Seq(OutToken) /\ Len(y) = Len(t) + Len(wr)
        /\ \A i \in 1 .. Len(t) : y[i] = t[i]
        /\ \A i \in 1 .. Len(wr) : y[Len(t) + i] = wr[i]
    <3>1. t \in Seq(OutToken) /\ wr \in Seq(OutToken)
      BY <1>2, <2>4
    <3> QED BY <3>1, Concatenated
  <2>6. /\ x \in Seq(OutToken) /\ Len(x) = Len(fl) - 1 /\ \A i \in 1 .. Len(x) : x[i] = fl[i + 1]
    BY <2>1, <2>3
  <2> HIDE DEF x, y
  <2> DEFINE n == Len(t)  m == Len(wr)
  <2>7. n \in Nat /\ m \in Nat /\ Len(out) = n + 1 /\ Len(fl) = n + 1 + m /\ Len(x) = n + m /\ Len(y) = n + m
    BY <2>1, <2>2, <2>4, <2>5, <2>6
  <2> HIDE DEF n, m
  <2>8. ASSUME NEW i \in 1 .. n + m PROVE x[i] = y[i]
    <3>1. x[i] = fl[i + 1]
      BY <2>6, <2>7
    <3>2. CASE i \in 1 .. n
      <4>1. i + 1 \in 1 .. Len(out)
        BY <2>7, <3>2
      <4>2. fl[i + 1] = out[i + 1]
        BY <2>1, <4>1
      <4>3. y[i] = t[i] /\ t[i] = out[i + 1]
        BY <2>4, <2>5, <3>2 DEF n
      <4> QED BY <3>1, <4>2, <4>3
    <3>3. CASE i \notin 1 .. n
      <4> DEFINE j == i - n
      <4>1. j \in 1 .. m /\ i = n + j /\ i + 1 = n + 1 + j
        BY <2>7, <3>3
      <4> HIDE DEF j
      <4>2. fl[Len(out) + j] = wr[j] /\ y[Len(t) + j] = wr[j]
        BY <2>1, <2>5, <4>1 DEF m
      <4>3. Len(out) + j = i + 1 /\ Len(t) + j = i
        BY <2>7, <4>1 DEF n
      <4> QED BY <3>1, <4>2, <4>3
    <3> QED BY <3>2, <3>3
  <2>9. x = y
    BY <2>5, <2>6, <2>7, <2>8
  <2>10. Len(t) <= Buffer
    BY <1>2, <2>2, <2>4, NbdAssumption
  <2> QED BY <2>1, <2>3, <2>4, <2>9, <2>10 DEF x, y, t
<1>4. /\ ConnectionOK(Own(c), p, k2, inbox[c], server[c], wr, Tail(fl)) /\ k2 \in ClientState
      /\ Given(k2, Tail(fl)) \subseteq Given(k, fl)
  <2> HIDE DEF k, p, wr, fl
  <2> QED BY <1>1, <1>2, <1>3, ReceiveOK DEF k
<1> DEFINE out2 == Tail(out)
<1>5. /\ ConnectionOK(Own(c), p, k2, inbox[c], server[c], wr, out2 \o wr) /\ k2 \in ClientState
      /\ Given(k2, out2 \o wr) \subseteq Given(k, fl)
      /\ client' = [client EXCEPT ![c] = k2] /\ outbox' = [outbox EXCEPT ![c] = out2]
      /\ out2 \in Seq(OutToken) /\ Len(out2) <= Buffer
  BY <1>1, <1>3, <1>4, Zenon
<1> HIDE DEF k2, out2
<1>6. TypesOK
  BY DEF NbdInv
<1>7. /\ client' \in [Connections -> ClientState] /\ client'[c] = k2
      /\ \A d \in Connections : d # c => client'[d] = client[d]
  BY <1>5, <1>6 DEF TypesOK
<1>8. /\ outbox' \in [Connections -> Seq(OutToken)] /\ outbox'[c] = out2
      /\ \A d \in Connections : d # c => outbox'[d] = outbox[d]
  BY <1>5, <1>6 DEF TypesOK
<1>9. /\ inbox' \in [Connections -> Seq(InToken)] /\ server' \in [Connections -> ServerState]
      /\ writing' \in [Connections -> Seq(OutToken)]
      /\ inbox' = inbox /\ server' = server /\ writing' = writing
  BY <1>1, <1>6 DEF TypesOK
<1>10. server[c].phase = "error" =>
         ~Keeps(program[c]) \/ Refused(program[c]) \/ faults < Faults
  BY <1>1 DEF NbdInv, NotDropped
<1> QED BY <1>1, <1>2, <1>5, <1>7, <1>8, <1>9, <1>10, QuietStepOK

\* The connection ends and leaves the device alone.
LEMMA EndsStep ==
  ASSUME NbdInv, NEW c \in Connections, NEW how \in {"ok", "error"}, Ends(c, how),
         UNCHANGED <<program, client, outbox, disk, durable, faults>>,
         \/ inbox' = inbox \/ Take(c),
         \/ client[c].phase = "gone"
         \/ client[c].phase \in {"ready", "confused"} /\ writing[c] = <<>>
         \/ client[c].phase = "asked" /\ how = "error" /\ outbox[c] = <<>>,
         how = "ok" => server[c].phase = "request",
         ContentOK(Own(c), program[c].requests, server'[c], disk),
         how = "error" => \/ ~Keeps(program[c]) \/ Refused(program[c])
                          \/ client[c].phase = "gone" \/ faults < Faults
  PROVE  NbdInv'
<1>1. TypesOK
  BY DEF NbdInv
<1>2. /\ server' \in [Connections -> ServerState] /\ server'[c].phase = how
      /\ server'[c].handle = server[c].handle
      /\ \A d \in Connections : d # c => server'[d] = server[d]
  BY <1>1, GoesTo DEF TypesOK, Ends
<1>3. /\ writing' \in [Connections -> Seq(OutToken)] /\ writing'[c] = <<>>
      /\ \A d \in Connections : d # c => writing'[d] = writing[d]
  <2>1. <<>> \in Seq(OutToken)
    OBVIOUS
  <2> QED BY <1>1, <2>1, SaysThat DEF TypesOK, Ends
<1>4. /\ inbox' \in [Connections -> Seq(InToken)] /\ Len(inbox'[c]) <= Buffer
      /\ \A d \in Connections : d # c => inbox'[d] = inbox[d]
  <2>1. CASE inbox' = inbox
    BY <1>1, <2>1 DEF TypesOK
  <2>2. CASE Take(c)
    <3>1. /\ inbox' \in [Connections -> Seq(InToken)] /\ Len(inbox'[c]) <= Len(inbox[c])
          /\ \A d \in Connections : d # c => inbox'[d] = inbox[d]
      BY <1>1, <2>2, Takes DEF TypesOK
    <3>2. Len(inbox'[c]) \in Nat /\ Len(inbox[c]) \in Nat /\ Len(inbox[c]) <= Buffer
      BY <1>1, <3>1 DEF TypesOK
    <3> QED BY <3>1, <3>2, NbdAssumption
  <2> QED BY <2>1, <2>2
<1>5. /\ client' \in [Connections -> ClientState] /\ outbox' \in [Connections -> Seq(OutToken)]
      /\ client' = client /\ outbox' = outbox /\ Len(outbox[c]) <= Buffer
  BY <1>1 DEF TypesOK
<1>6. /\ ConnectionOK(Own(c), program[c], client[c], inbox'[c], server'[c], <<>>, outbox[c] \o <<>>)
      /\ Given(client[c], outbox[c] \o <<>>) \subseteq Given(client[c], outbox[c] \o writing[c])
  <2> DEFINE k == client[c]  out == outbox[c]  wr == writing[c]  sv == server[c]  p == program[c]
             in == inbox[c]  sv2 == server'[c]  own == Own(c)  in2 == inbox'[c]
  <2>1. /\ p \in ClientProgram /\ k \in ClientState /\ sv \in ServerState /\ out \in Seq(OutToken)
        /\ wr \in Seq(OutToken) /\ ConnectionOK(own, p, k, in, sv, wr, out \o wr)
    BY At
  <2>2. /\ sv2.phase = how /\ sv2.handle = sv.handle
        /\ \/ k.phase = "gone"
           \/ k.phase \in {"ready", "confused"} /\ wr = <<>>
           \/ k.phase = "asked" /\ how = "error" /\ out = <<>>
    BY <1>2
  <2> HIDE DEF k, out, wr, sv, p, in, sv2, own, in2
  <2>3. /\ ConnectionOK(own, p, k, in2, sv2, <<>>, out \o <<>>)
        /\ Given(k, out \o <<>>) \subseteq Given(k, out \o wr)
    BY <2>1, <2>2, EndsOK
  <2> QED BY <2>3 DEF k, out, wr, sv, p, in, sv2, own, in2
<1>7. ASSUME how = "ok", server[c].handle \in DOMAIN program[c].requests
      PROVE  program[c].requests[server[c].handle].command # "DISC"
  <2>1. server[c].handle # 0
    BY <1>7, At
  <2> QED BY <1>7, <2>1, At DEF ConnectionOK, FramingOK
<1>8. how = "error" <=> how # "ok"
  OBVIOUS
<1> QED BY <1>2, <1>3, <1>4, <1>5, <1>6, <1>7, <1>8, QuietStepOK

LEMMA DrainStep ==
  ASSUME NbdInv, NEW c \in Connections, Drain(c)
  PROVE  NbdInv'
<1> DEFINE k == client[c]  p == program[c]  out == outbox[c]  wr == writing[c]  sv == server[c]
<1>1. TypesOK
  BY DEF NbdInv
<1>2. /\ k \in ClientState /\ sv \in ServerState /\ out \in Seq(OutToken) /\ wr \in Seq(OutToken)
      /\ ConnectionOK(Own(c), p, k, inbox[c], sv, wr, out \o wr)
      /\ ContentOK(Own(c), p.requests, sv, disk) /\ Len(out) <= Buffer /\ Len(inbox[c]) <= Buffer
  BY At
<1>3. wr # <<>> /\ UNCHANGED <<program, client, inbox, disk, durable, faults>>
  BY DEF Drain
<1>4. sv.phase \notin Serving
  BY <1>2, <1>3 DEF ConnectionOK, FramingOK
<1>5. CASE k.phase = "gone" /\ Ends(c, "error") /\ UNCHANGED outbox
  <2>1. server'[c] \in ServerState /\ server'[c].phase = "error" /\ server'[c].handle = sv.handle
    BY <1>1, <1>5, GoesTo DEF TypesOK, Ends
  <2>2. ContentOK(Own(c), p.requests, server'[c], disk)
    BY <1>2, <1>4, <2>1, ContentKept
  <2> QED BY <1>3, <1>5, <2>2, EndsStep
<1>6. CASE /\ Len(out) < Buffer /\ outbox' = [outbox EXCEPT ![c] = Append(out, Head(wr))]
           /\ writing' = [writing EXCEPT ![c] = Tail(wr)] /\ UNCHANGED server
  <2> DEFINE out2 == Append(out, Head(wr))  wr2 == Tail(wr)
  <2>1. /\ out2 \in Seq(OutToken) /\ wr2 \in Seq(OutToken) /\ Len(out2) <= Buffer
    <3> HIDE DEF out, wr
    <3> QED BY <1>2, <1>3, <1>6, NbdAssumption
  <2>2. out2 \o wr2 = out \o wr /\ ConnectionOK(Own(c), p, k, inbox[c], sv, wr2, out \o wr)
    <3> HIDE DEF out, wr, p, k, sv
    <3> QED BY <1>2, <1>3, DrainOK
  <2>3. ConnectionOK(Own(c), p, k, inbox[c], sv, wr2, out2 \o wr2)
    BY <2>2, Zenon
  <2>4. outbox' = [outbox EXCEPT ![c] = out2] /\ writing' = [writing EXCEPT ![c] = wr2]
    BY <1>6
  <2> HIDE DEF out2, wr2
  <2>5. /\ outbox' \in [Connections -> Seq(OutToken)] /\ outbox'[c] = out2
        /\ \A d \in Connections : d # c => outbox'[d] = outbox[d]
    BY <1>1, <2>1, <2>4 DEF TypesOK
  <2>6. /\ writing' \in [Connections -> Seq(OutToken)] /\ writing'[c] = wr2
        /\ \A d \in Connections : d # c => writing'[d] = writing[d]
    BY <1>1, <2>1, <2>4 DEF TypesOK
  <2>7. /\ client' \in [Connections -> ClientState] /\ inbox' \in [Connections -> Seq(InToken)]
        /\ server' \in [Connections -> ServerState]
        /\ client' = client /\ inbox' = inbox /\ server' = server
    BY <1>1, <1>3, <1>6 DEF TypesOK
  <2>8. sv.phase = "error" =>
          ~Keeps(program[c]) \/ Refused(program[c]) \/ k.phase = "gone" \/ faults < Faults
    BY DEF NbdInv, NotDropped
  <2>9. Given(k, out2 \o wr2) = Given(k, out \o wr)
    BY <2>2
  <2> QED BY <1>2, <1>3, <2>1, <2>3, <2>5, <2>6, <2>7, <2>8, <2>9, QuietStepOK
<1> QED BY <1>5, <1>6 DEF Drain

\* The task goes on, and leaves the device alone.
LEMMA TaskStep ==
  ASSUME NbdInv, NEW c \in Connections, UNCHANGED <<program, client, outbox, disk, durable, faults>>,
         \/ inbox' = inbox \/ Take(c),
         server' \in [Connections -> ServerState],
         writing' \in [Connections -> Seq(OutToken)],
         \A d \in Connections : d # c => server'[d] = server[d] /\ writing'[d] = writing[d],
         server'[c].phase \notin {"ok", "error"},
         ConnectionOK(Own(c), program[c], client[c], inbox'[c], server'[c], writing'[c],
                      outbox[c] \o writing'[c]),
         ContentOK(Own(c), program[c].requests, server'[c], disk),
         \A h \in DOMAIN program[c].requests :
           /\ program[c].requests[h].command = "FLUSH"
           /\ h \in Given(client[c], outbox[c] \o writing'[c])
           => h \in Given(client[c], outbox[c] \o writing[c])
  PROVE  NbdInv'
<1>1. TypesOK
  BY DEF NbdInv
<1>2. /\ inbox' \in [Connections -> Seq(InToken)] /\ Len(inbox'[c]) <= Buffer
      /\ \A d \in Connections : d # c => inbox'[d] = inbox[d]
  <2>1. CASE inbox' = inbox
    BY <1>1, <2>1 DEF TypesOK
  <2>2. CASE Take(c)
    <3>1. /\ inbox' \in [Connections -> Seq(InToken)] /\ Len(inbox'[c]) <= Len(inbox[c])
          /\ \A d \in Connections : d # c => inbox'[d] = inbox[d]
      BY <1>1, <2>2, Takes DEF TypesOK
    <3>2. Len(inbox'[c]) \in Nat /\ Len(inbox[c]) \in Nat /\ Len(inbox[c]) <= Buffer
      BY <1>1, <3>1 DEF TypesOK
    <3> QED BY <3>1, <3>2, NbdAssumption
  <2> QED BY <2>1, <2>2
<1>3. /\ client' \in [Connections -> ClientState] /\ outbox' \in [Connections -> Seq(OutToken)]
      /\ client' = client /\ outbox' = outbox /\ Len(outbox[c]) <= Buffer
  BY <1>1 DEF TypesOK
<1> QED BY <1>2, <1>3, QuietStepOK

LEMMA AcceptStep ==
  ASSUME NbdInv, NEW c \in Connections, Accept(c)
  PROVE  NbdInv'
<1> DEFINE w == <<Plain("greeting")>>
<1>1. TypesOK
  BY DEF NbdInv
<1>2. /\ server[c].phase = "accept" /\ Goes(c, "flags") /\ Says(c, w)
      /\ UNCHANGED <<program, client, inbox, outbox, disk, durable, faults>>
  BY DEF Accept
<1>3. /\ server' \in [Connections -> ServerState] /\ server'[c] \in ServerState
      /\ server'[c].phase = "flags" /\ server'[c].handle = server[c].handle
      /\ \A d \in Connections : d # c => server'[d] = server[d]
  <2>1. "flags" \in Negotiating
    BY DEF Negotiating
  <2> QED BY <1>1, <1>2, <2>1, GoesTo DEF TypesOK
<1>4. w \in Seq(OutToken)
  <2> DEFINE x == Plain("greeting")
  <2>1. x \in OutToken
    BY Talk
  <2> HIDE DEF x
  <2> QED BY <2>1, ShortOf DEF x
<1>5. /\ ConnectionOK(Own(c), program[c], client[c], inbox[c], server'[c], w, outbox[c] \o w)
      /\ Given(client[c], outbox[c] \o w) \subseteq Given(client[c], outbox[c] \o writing[c])
  <2>1. /\ program[c] \in ClientProgram /\ client[c] \in ClientState /\ server[c] \in ServerState
        /\ outbox[c] \in Seq(OutToken) /\ writing[c] \in Seq(OutToken)
        /\ ConnectionOK(Own(c), program[c], client[c], inbox[c], server[c], writing[c],
                        outbox[c] \o writing[c])
    BY At
  <2> QED BY <1>2, <1>3, <2>1, AcceptOK
<1> HIDE DEF w
<1>6. /\ writing' \in [Connections -> Seq(OutToken)] /\ writing'[c] = w
      /\ \A d \in Connections : d # c => writing'[d] = writing[d]
  BY <1>1, <1>2, <1>4, SaysThat DEF TypesOK
<1>7. ContentOK(Own(c), program[c].requests, server'[c], disk)
  <2>1. ContentOK(Own(c), program[c].requests, server[c], disk) /\ server[c] \in ServerState
    BY At
  <2>2. server[c].phase \in Negotiating /\ server'[c].phase \in Negotiating
    BY <1>2, <1>3 DEF Negotiating
  <2> QED BY <1>3, <2>1, <2>2, ContentKept
<1> QED BY <1>2, <1>3, <1>5, <1>6, <1>7, TaskStep

LEMMA ReadFlagsStep ==
  ASSUME NbdInv, NEW c \in Connections, ReadFlags(c)
  PROVE  NbdInv'
<1>1. TypesOK
  BY DEF NbdInv
<1>2. /\ server[c].phase = "flags" /\ writing[c] = <<>> /\ Take(c) /\ Goes(c, "options")
      /\ UNCHANGED <<program, client, outbox, writing, disk, durable, faults>>
  BY DEF ReadFlags, Reads
<1>3. /\ server' \in [Connections -> ServerState] /\ server'[c] \in ServerState
      /\ server'[c].phase = "options" /\ server'[c].handle = server[c].handle
      /\ \A d \in Connections : d # c => server'[d] = server[d]
  <2>1. "options" \in Negotiating
    BY DEF Negotiating
  <2> QED BY <1>1, <1>2, <2>1, GoesTo DEF TypesOK
<1>4. inbox[c] # <<>> /\ inbox'[c] = Tail(inbox[c])
  BY <1>1, <1>2, Takes DEF TypesOK
<1>5. ConnectionOK(Own(c), program[c], client[c], Tail(inbox[c]), server'[c], <<>>, outbox[c] \o <<>>)
  <2>1. /\ program[c] \in ClientProgram /\ client[c] \in ClientState /\ server[c] \in ServerState
        /\ outbox[c] \in Seq(OutToken)
        /\ ConnectionOK(Own(c), program[c], client[c], inbox[c], server[c], writing[c],
                        outbox[c] \o writing[c])
    BY At
  <2>2. ConnectionOK(Own(c), program[c], client[c], inbox[c], server[c], <<>>, outbox[c] \o <<>>)
    BY <1>2, <2>1
  <2> QED BY <1>2, <1>3, <1>4, <2>1, <2>2, ReadFlagsOK
<1>6. /\ writing' \in [Connections -> Seq(OutToken)] /\ writing' = writing
  BY <1>1, <1>2 DEF TypesOK
<1>7. ContentOK(Own(c), program[c].requests, server'[c], disk)
  <2>1. ContentOK(Own(c), program[c].requests, server[c], disk) /\ server[c] \in ServerState
    BY At
  <2>2. server[c].phase \in Negotiating /\ server'[c].phase \in Negotiating
    BY <1>2, <1>3 DEF Negotiating
  <2> QED BY <1>3, <2>1, <2>2, ContentKept
<1> QED BY <1>2, <1>3, <1>4, <1>5, <1>6, <1>7, TaskStep

\* The task answers an option, and goes on negotiating or to the requests.
LEMMA OptionAnswered ==
  ASSUME NbdInv, NEW c \in Connections, Reads(c, "options"), Take(c),
         UNCHANGED <<program, client, outbox, disk, durable, faults>>,
         NEW phase \in {"options", "request"}, Goes(c, phase),
         NEW w \in Seq(OutToken), Says(c, w),
         \/ /\ phase = "request" /\ w = <<Plain("info"), Plain("zeroes")>>
            /\ Head(inbox[c]).body.option = "EXPORT_NAME"
         \/ phase = "request" /\ w = <<OptionReply("INFO"), OptionReply("ACK")>>
         \/ /\ phase = "options"
            /\ \E reply \in {"ERR_INVALID", "ERR_UNSUP"} : w = <<OptionReply(reply)>>
  PROVE  NbdInv'
<1>1. TypesOK
  BY DEF NbdInv
<1>2. server[c].phase = "options" /\ writing[c] = <<>>
  BY DEF Reads
<1>3. /\ server' \in [Connections -> ServerState] /\ server'[c] \in ServerState
      /\ server'[c].phase = phase /\ server'[c].handle = server[c].handle
      /\ \A d \in Connections : d # c => server'[d] = server[d]
  <2>1. "options" \in Negotiating
    BY DEF Negotiating
  <2>2. phase \in Negotiating \cup Serving \cup {"request", "ok", "error"}
    BY <2>1
  <2> QED BY <1>1, <2>2, GoesTo DEF TypesOK
<1>4. inbox[c] # <<>> /\ inbox'[c] = Tail(inbox[c])
  BY <1>1, Takes DEF TypesOK
<1>5. /\ ConnectionOK(Own(c), program[c], client[c], Tail(inbox[c]), server'[c], w, outbox[c] \o w)
      /\ Given(client[c], outbox[c] \o w) \subseteq Given(client[c], outbox[c] \o <<>>)
  <2> DEFINE own == Own(c)  p == program[c]  k == client[c]  in == inbox[c]  sv == server[c]
             sv2 == server'[c]  out == outbox[c]
  <2>1. /\ p \in ClientProgram /\ k \in ClientState /\ sv \in ServerState
        /\ out \in Seq(OutToken) /\ ConnectionOK(own, p, k, in, sv, writing[c], out \o writing[c])
    BY At
  <2>2. /\ ConnectionOK(own, p, k, in, sv, <<>>, out \o <<>>) /\ in # <<>>
        /\ sv.phase = "options" /\ sv2.handle = sv.handle /\ sv2.phase = phase
    BY <1>2, <1>3, <1>4, <2>1
  <2>3. \/ /\ sv2.phase = "request" /\ w = <<Plain("info"), Plain("zeroes")>>
           /\ Head(in).body.option = "EXPORT_NAME"
        \/ sv2.phase = "request" /\ w = <<OptionReply("INFO"), OptionReply("ACK")>>
        \/ /\ sv2.phase = "options"
           /\ \E reply \in {"ERR_INVALID", "ERR_UNSUP"} : w = <<OptionReply(reply)>>
    BY <1>3
  <2> HIDE DEF own, p, k, in, sv, sv2, out
  <2> QED BY <2>1, <2>2, <2>3, ReadOptionOK DEF own, p, k, in, sv, sv2, out
<1>6. /\ writing' \in [Connections -> Seq(OutToken)] /\ writing'[c] = w
      /\ \A d \in Connections : d # c => writing'[d] = writing[d]
  BY <1>1, SaysThat DEF TypesOK
<1>7. ContentOK(Own(c), program[c].requests, server'[c], disk)
  <2>1. ContentOK(Own(c), program[c].requests, server[c], disk) /\ server[c] \in ServerState
    BY At
  <2>2. server[c].phase \in Negotiating /\ server'[c].phase \in Negotiating \cup {"request"}
    BY <1>2, <1>3 DEF Negotiating
  <2> QED BY <1>3, <2>1, <2>2, ContentKept
<1>8. server'[c].phase \notin {"ok", "error"} /\ writing[c] = <<>>
  BY <1>2, <1>3
<1> QED BY <1>3, <1>4, <1>5, <1>6, <1>7, <1>8, TaskStep

LEMMA ReadOptionStep ==
  ASSUME NbdInv, NEW c \in Connections, ReadOption(c)
  PROVE  NbdInv'
<1> DEFINE o == Head(inbox[c]).body
<1>1. TypesOK
  BY DEF NbdInv
<1>2. /\ Reads(c, "options") /\ Take(c) /\ UNCHANGED <<program, client, outbox, disk, durable, faults>>
      /\ server[c].phase = "options" /\ writing[c] = <<>> /\ inbox[c] # <<>>
  BY DEF ReadOption, Reads, Take
<1>3. /\ \A x \in {Plain("info"), Plain("zeroes"), OptionReply("INFO"), OptionReply("ACK"),
                   OptionReply("ERR_INVALID"), OptionReply("ERR_UNSUP")} : x \in OutToken
  BY Talk
<1>4. CASE /\ \/ ~o.magic
              \/ o.magic /\ o.option = "ABORT"
              \/ o.magic /\ o.option = "EXPORT_NAME" /\ ~Exported(o.data)
           /\ Ends(c, "error")
  <2>1. /\ o = program[c].options[client[c].options]
        /\ client[c].options \in DOMAIN program[c].options
        /\ client[c].phase \in {"asked", "gone"}
        /\ (client[c].phase = "asked" => outbox[c] \o writing[c] = <<>>)
        /\ server[c] \in ServerState /\ outbox[c] \in Seq(OutToken)
        /\ ContentOK(Own(c), program[c].requests, server[c], disk)
    <3>1. /\ program[c] \in ClientProgram /\ client[c] \in ClientState /\ server[c] \in ServerState
          /\ ConnectionOK(Own(c), program[c], client[c], inbox[c], server[c], writing[c],
                          outbox[c] \o writing[c])
          /\ outbox[c] \in Seq(OutToken)
          /\ ContentOK(Own(c), program[c].requests, server[c], disk)
      BY At
    <3>2. /\ o = program[c].options[client[c].options]
          /\ client[c].options \in DOMAIN program[c].options
          /\ client[c].phase \in {"asked", "gone"}
          /\ (client[c].phase = "asked" => outbox[c] \o writing[c] = <<>>)
      <4> DEFINE own == Own(c)  p == program[c]  k == client[c]  in == inbox[c]  sv == server[c]
                 wr == writing[c]  fl == outbox[c] \o writing[c]
      <4>1. /\ p \in ClientProgram /\ k \in ClientState /\ sv \in ServerState /\ in # <<>>
            /\ ConnectionOK(own, p, k, in, sv, wr, fl) /\ sv.phase = "options"
        BY <1>2, <3>1
      <4> HIDE DEF own, p, k, in, sv, wr, fl
      <4>2. /\ Head(in).body = p.options[k.options] /\ k.options \in DOMAIN p.options
            /\ k.phase \in {"asked", "gone"} /\ (k.phase = "asked" => fl = <<>>)
        BY <4>1, OptionRead
      <4> QED BY <4>2 DEF own, p, k, in, sv, wr, fl
    <3> QED BY <3>1, <3>2
  <2>2. outbox[c] \o writing[c] = outbox[c]
    BY <1>2, <2>1
  <2>3. ~Keeps(program[c]) \/ Refused(program[c])
    BY <1>4, <2>1 DEF Keeps, Refused
  <2>4. server'[c] \in ServerState /\ server'[c].phase = "error" /\ server'[c].handle = server[c].handle
    BY <1>1, <1>4, GoesTo DEF TypesOK, Ends
  <2>5. ContentOK(Own(c), program[c].requests, server'[c], disk)
    <3>1. server[c].phase \notin Serving
      BY <1>2 DEF Serving
    <3> QED BY <2>1, <2>4, <3>1, ContentKept
  <2> QED BY <1>2, <1>4, <2>1, <2>2, <2>3, <2>5, EndsStep
<1>5. CASE o.option = "EXPORT_NAME" /\ Goes(c, "request") /\ Says(c, <<Plain("info"), Plain("zeroes")>>)
  <2> DEFINE x == Plain("info")  y == Plain("zeroes")  w == <<x, y>>
  <2>1. x \in OutToken /\ y \in OutToken
    BY <1>3
  <2>2. w \in Seq(OutToken)
    <3> HIDE DEF x, y
    <3> QED BY <2>1
  <2> QED BY <1>2, <1>5, <2>2, OptionAnswered
<1>6. CASE Goes(c, "request") /\ Says(c, <<OptionReply("INFO"), OptionReply("ACK")>>)
  <2> DEFINE x == OptionReply("INFO")  y == OptionReply("ACK")  w == <<x, y>>
  <2>1. x \in OutToken /\ y \in OutToken
    BY <1>3
  <2>2. w \in Seq(OutToken)
    <3> HIDE DEF x, y
    <3> QED BY <2>1
  <2> QED BY <1>2, <1>6, <2>2, OptionAnswered
<1>7. ASSUME NEW reply \in {"ERR_INVALID", "ERR_UNSUP"}, Goes(c, "options"), Says(c, <<OptionReply(reply)>>)
      PROVE  NbdInv'
  <2> DEFINE x == OptionReply(reply)  w == <<x>>
  <2>1. x \in OutToken
    BY <1>3
  <2>2. w \in Seq(OutToken)
    <3> HIDE DEF x
    <3> QED BY <2>1
  <2> QED BY <1>2, <1>7, <2>2, OptionAnswered
<1> QED
  <2>1. \/ /\ \/ ~o.magic
              \/ o.magic /\ o.option = "ABORT"
              \/ o.magic /\ o.option = "EXPORT_NAME" /\ ~Exported(o.data)
           /\ Ends(c, "error")
        \/ /\ o.option = "EXPORT_NAME" /\ Goes(c, "request")
           /\ Says(c, <<Plain("info"), Plain("zeroes")>>)
        \/ Goes(c, "request") /\ Says(c, <<OptionReply("INFO"), OptionReply("ACK")>>)
        \/ Goes(c, "options") /\ Says(c, <<OptionReply("ERR_INVALID")>>)
        \/ Goes(c, "options") /\ Says(c, <<OptionReply("ERR_UNSUP")>>)
    BY Zenon DEF ReadOption
  <2> QED BY <1>4, <1>5, <1>6, <1>7, <2>1

LEMMA ReadRequestStep ==
  ASSUME NbdInv, NEW c \in Connections, ReadRequest(c)
  PROVE  NbdInv'
<1> DEFINE own == Own(c)  p == program[c]  k == client[c]  in == inbox[c]  sv == server[c]
           wr == writing[c]  out == outbox[c]  t == Head(in)  r == t.request  h == sv.handle + 1
           R == p.requests
           Serves(phase) ==
             server' = [server EXCEPT ![c] = [phase |-> phase, request |-> r, handle |-> t.handle,
                                              got |-> <<>>]]
<1>1. TypesOK
  BY DEF NbdInv
<1>2. /\ sv.phase = "request" /\ wr = <<>> /\ Take(c)
      /\ UNCHANGED <<program, client, outbox, disk, durable, faults>>
  BY DEF ReadRequest, Reads
<1>3. in # <<>> /\ inbox'[c] = Tail(in)
  BY <1>1, <1>2, Takes DEF TypesOK
<1>4. /\ p \in ClientProgram /\ k \in ClientState /\ in \in Seq(InToken) /\ sv \in ServerState
      /\ out \in Seq(OutToken) /\ ConnectionOK(own, p, k, in, sv, wr, out \o wr)
      /\ ContentOK(own, R, sv, disk) /\ R \in Seq(Request)
  BY At
<1>5. h \in 1 .. Len(R) /\ t = Header(h, R[h])
  <2> HIDE DEF own, p, k, in, sv, wr, out, h
  <2> QED BY <1>2, <1>3, <1>4, HeaderRead DEF h
<1>6. t.kind = "header" /\ t.handle = h /\ r = R[h] /\ r \in Request
  <2>1. t.kind = "header" /\ t.handle = h /\ r = R[h]
    <3> HIDE DEF t, h, R
    <3> QED BY <1>5 DEF Header
  <2> QED BY <1>4, <1>5, <2>1
<1>7. k.phase \in {"ready", "gone", "confused"}
  <2> HIDE DEF own, p, k, in, sv, wr, out
  <2> QED BY <1>2, <1>3, <1>4, SentReady
<1>8. CASE ~r.magic /\ Ends(c, "error")
  <2>1. ~Keeps(p)
    BY <1>4, <1>5, <1>6, <1>8 DEF Keeps
  <2>2. server'[c] \in ServerState /\ server'[c].phase = "error" /\ server'[c].handle = sv.handle
    BY <1>1, <1>8, GoesTo DEF TypesOK, Ends
  <2>3. ContentOK(own, R, server'[c], disk)
    <3>1. sv.phase \notin Serving
      BY <1>2 DEF Serving
    <3> QED BY <1>4, <2>2, <3>1, ContentKept
  <2> QED BY <1>2, <1>7, <1>8, <2>1, <2>3, EndsStep
<1>9. ASSUME NEW phase \in {"run", "payload", "discard"}, Serves(phase), UNCHANGED writing,
             phase = IF r.command # "WRITE" THEN "run"
                     ELSE IF bounds_ok(r.offset, r.length) THEN "payload" ELSE "discard"
      PROVE  NbdInv'
  <2> DEFINE sv2 == [phase |-> phase, request |-> r, handle |-> t.handle, got |-> <<>>]
  <2>1. /\ sv2 \in ServerState /\ sv2.phase = phase /\ sv2.request = r /\ sv2.handle = h
        /\ sv2.got = <<>> /\ sv2.phase \in Serving
    <3>1. h \in Nat
      BY <1>5
    <3> HIDE DEF h, r, t
    <3> QED BY <1>6, <3>1 DEF ServerState, Serving
  <2>2. server' = [server EXCEPT ![c] = sv2]
    BY <1>9
  <2> HIDE DEF sv2
  <2>3. /\ server' \in [Connections -> ServerState] /\ server'[c] = sv2
        /\ \A d \in Connections : d # c => server'[d] = server[d]
    BY <1>1, <2>1, <2>2 DEF TypesOK
  <2>4. ConnectionOK(own, p, k, Tail(in), sv2, <<>>, out \o <<>>)
    <3>1. sv2.phase = IF r.command # "WRITE" THEN "run"
                      ELSE IF bounds_ok(r.offset, r.length) THEN "payload" ELSE "discard"
      BY <1>9, <2>1
    <3>2. ConnectionOK(own, p, k, in, sv, <<>>, out \o <<>>) /\ r = p.requests[h]
      BY <1>2, <1>4, <1>6
    <3>3. h = sv.handle + 1
      OBVIOUS
    <3> DEFINE fl == out \o <<>>
    <3> HIDE DEF own, p, k, in, sv, wr, out, h, r, t, fl
    <3>4. ConnectionOK(own, p, k, Tail(in), sv2, <<>>, fl)
      BY <1>2, <1>3, <1>4, <2>1, <3>1, <3>2, <3>3, ReadRequestOK DEF fl
    <3> QED BY <3>4 DEF fl
  <2>5. ContentOK(own, R, sv2, disk)
    <3>1. sv2.handle = sv.handle + 1
      BY <2>1
    <3> HIDE DEF sv
    <3> QED BY <1>2, <1>4, <2>1, <3>1, ContentKept
  <2>6. writing' \in [Connections -> Seq(OutToken)] /\ writing' = writing
    BY <1>1, <1>9 DEF TypesOK
  <2>7. server'[c].phase \notin {"ok", "error"}
    BY <2>1, <2>3
  <2> QED BY <1>2, <1>3, <2>3, <2>4, <2>5, <2>6, <2>7, TaskStep
<1> QED
  <2>1. \/ ~r.magic /\ Ends(c, "error")
        \/ /\ \/ r.command # "WRITE" /\ Serves("run")
              \/ r.command = "WRITE" /\ bounds_ok(r.offset, r.length) /\ Serves("payload")
              \/ r.command = "WRITE" /\ ~bounds_ok(r.offset, r.length) /\ Serves("discard")
           /\ UNCHANGED writing
    BY <1>6 DEF ReadRequest
  <2>2. CASE r.command # "WRITE" /\ Serves("run") /\ UNCHANGED writing
    BY <1>9, <2>2
  <2>3. CASE r.command = "WRITE" /\ bounds_ok(r.offset, r.length) /\ Serves("payload") /\ UNCHANGED writing
    BY <1>9, <2>3
  <2>4. CASE r.command = "WRITE" /\ ~bounds_ok(r.offset, r.length) /\ Serves("discard") /\ UNCHANGED writing
    BY <1>9, <2>4
  <2> QED BY <1>8, <2>1, <2>2, <2>3, <2>4

\* A connection that serves a request.
LEMMA ServingAt ==
  ASSUME NbdInv, NEW c \in Connections, server[c].phase \in Serving
  PROVE  /\ server[c].handle \in 1 .. Len(program[c].requests)
         /\ server[c].request = program[c].requests[server[c].handle] /\ server[c].request \in Request
         /\ writing[c] = <<>> /\ Len(server[c].got) <= Len(server[c].request.bytes)
         /\ \A i \in 1 .. Len(server[c].got) : server[c].got[i] = server[c].request.bytes[i]
         /\ server[c].phase = IF server[c].request.command # "WRITE" THEN "run"
                              ELSE IF bounds_ok(server[c].request.offset, server[c].request.length)
                                   THEN "payload" ELSE "discard"
         /\ client[c].phase \in {"ready", "gone", "confused"}
<1> DEFINE p == program[c]  R == p.requests  sv == server[c]  h == sv.handle
<1>1. /\ p \in ClientProgram /\ client[c] \in ClientState /\ inbox[c] \in Seq(InToken)
      /\ sv \in ServerState /\ R \in Seq(Request)
      /\ ConnectionOK(Own(c), p, client[c], inbox[c], sv, writing[c], outbox[c] \o writing[c])
  BY At
<1>2. /\ h <= Len(R) /\ h # 0 /\ sv.request = R[h] /\ writing[c] = <<>>
      /\ Len(sv.got) <= Len(R[h].bytes) /\ \A i \in 1 .. Len(sv.got) : sv.got[i] = R[h].bytes[i]
      /\ sv.phase = IF R[h].command # "WRITE" THEN "run"
                    ELSE IF bounds_ok(R[h].offset, R[h].length) THEN "payload" ELSE "discard"
  BY <1>1 DEF ConnectionOK, FramingOK
<1>3. h \in Nat
  BY <1>1 DEF ServerState
<1>4. h \in 1 .. Len(R) /\ R[h] \in Request
  BY <1>1, <1>2, <1>3
<1>5. client[c].phase \in {"ready", "gone", "confused"}
  BY <1>1, SentReady
<1> QED BY <1>2, <1>4, <1>5

LEMMA TakeDataStep ==
  ASSUME NbdInv, NEW c \in Connections, TakeData(c)
  PROVE  NbdInv'
<1> DEFINE own == Own(c)  p == program[c]  k == client[c]  in == inbox[c]  sv == server[c]
           wr == writing[c]  out == outbox[c]  t == Head(in)  R == p.requests
           v == IF t.kind = "data" THEN t.value ELSE 0  got2 == Append(sv.got, v)
           sv2 == [sv EXCEPT !.got = got2]
<1>1. TypesOK
  BY DEF NbdInv
<1>2. /\ sv.phase \in {"payload", "discard"} /\ Len(sv.got) < sv.request.length /\ Take(c)
      /\ UNCHANGED <<program, client, outbox, writing, disk, durable, faults>>
  BY DEF TakeData
<1>3. server' = [server EXCEPT ![c] = sv2]
  BY Zenon DEF TakeData
<1>4. in # <<>> /\ inbox'[c] = Tail(in)
  BY <1>1, <1>2, Takes DEF TypesOK
<1>5. /\ p \in ClientProgram /\ k \in ClientState /\ in \in Seq(InToken) /\ sv \in ServerState
      /\ out \in Seq(OutToken) /\ wr \in Seq(OutToken) /\ ConnectionOK(own, p, k, in, sv, wr, out \o wr)
      /\ ContentOK(own, R, sv, disk)
  BY At
<1>6. v \in Value
  <2>1. t \in InToken
    <3> HIDE DEF in
    <3> QED BY <1>4, <1>5
  <2> HIDE DEF t
  <2> QED BY <2>1, NbdAssumption DEF InToken
<1>7. /\ sv2 \in ServerState /\ sv2.phase = sv.phase /\ sv2.request = sv.request
      /\ sv2.handle = sv.handle /\ sv2.got = got2
  <2>1. sv.got \in Seq(Value)
    BY <1>5 DEF ServerState
  <2>2. got2 \in Seq(Value)
    <3> HIDE DEF v
    <3> QED BY <1>6, <2>1
  <2> HIDE DEF got2, sv
  <2> QED BY <1>5, <2>2 DEF ServerState
<1>8. got2 = Append(sv.got, IF t.kind = "data" THEN t.value ELSE 0) /\ t = Head(in)
  OBVIOUS
<1> HIDE DEF sv2, got2, v
<1>9. ConnectionOK(own, p, k, Tail(in), sv2, wr, out \o wr)
  <2> DEFINE fl == out \o wr
  <2>1. ConnectionOK(own, p, k, in, sv, wr, fl)
    BY <1>5
  <2>2. sv2.got = Append(sv.got, IF t.kind = "data" THEN t.value ELSE 0)
    BY <1>7, <1>8
  <2> HIDE DEF own, p, k, in, sv, wr, out, fl, t
  <2>3. ConnectionOK(own, p, k, Tail(in), sv2, wr, fl)
    BY <1>2, <1>4, <1>5, <1>7, <1>8, <2>1, <2>2, TakeDataOK
  <2> QED BY <2>3 DEF fl
<1>10. ContentOK(own, R, sv2, disk)
  <2> HIDE DEF sv, own, R
  <2> QED BY <1>5, <1>7, ContentKept
<1>11. /\ server' \in [Connections -> ServerState] /\ server'[c] = sv2
       /\ \A d \in Connections : d # c => server'[d] = server[d]
  BY <1>1, <1>3, <1>7 DEF TypesOK
<1>12. writing' \in [Connections -> Seq(OutToken)] /\ writing' = writing
  BY <1>1, <1>2 DEF TypesOK
<1>13. server'[c].phase \notin {"ok", "error"}
  BY <1>2, <1>7, <1>11
<1> QED BY <1>2, <1>4, <1>9, <1>10, <1>11, <1>12, <1>13, TaskStep

LEMMA EofStep ==
  ASSUME NbdInv, NEW c \in Connections, Eof(c)
  PROVE  NbdInv'
<1> DEFINE R == program[c].requests  sv == server[c]
<1>1. TypesOK
  BY DEF NbdInv
<1>2. client[c].phase = "gone" /\ UNCHANGED <<program, client, inbox, outbox, disk, durable, faults>>
  BY DEF Eof, AtEof
<1>3. sv \in ServerState /\ ContentOK(Own(c), R, sv, disk) /\ R \in Seq(Request)
  BY At
<1>4. ASSUME NEW how \in {"ok", "error"}, Ends(c, how)
      PROVE  server'[c] \in ServerState /\ server'[c].phase = how /\ server'[c].handle = sv.handle
  BY <1>1, <1>4, GoesTo DEF TypesOK, Ends
<1>5. CASE sv.phase = "request" /\ Ends(c, "ok")
  <2>1. server'[c] \in ServerState /\ server'[c].phase = "ok" /\ server'[c].handle = sv.handle
    BY <1>4, <1>5
  <2>2. ContentOK(Own(c), R, server'[c], disk)
    BY <1>3, <1>5, <2>1, ContentKept
  <2> QED BY <1>2, <1>5, <2>2, EndsStep
<1>6. CASE sv.phase \in {"flags", "options"} /\ Ends(c, "error")
  <2>1. server'[c] \in ServerState /\ server'[c].phase = "error" /\ server'[c].handle = sv.handle
    BY <1>4, <1>6
  <2>2. ContentOK(Own(c), R, server'[c], disk)
    <3>1. sv.phase \notin Serving
      BY <1>6 DEF Serving
    <3> QED BY <1>3, <2>1, <3>1, ContentKept
  <2> QED BY <1>2, <1>6, <2>2, EndsStep
<1>7. CASE sv.phase \in {"payload", "discard"} /\ Ends(c, "error")
  <2>1. server'[c] \in ServerState /\ server'[c].phase = "error" /\ server'[c].handle = sv.handle
    BY <1>4, <1>7
  <2>2. ContentOK(Own(c), R, server'[c], disk)
    <3> DEFINE h == sv.handle  sv2 == server'[c]
    <3>1. sv.phase \in Serving
      BY <1>7 DEF Serving
    <3>2. h \in 1 .. Len(R)
      BY <3>1, ServingAt
    <3>3. sv2.handle = h /\ sv2.phase = "error"
      BY <2>1
    <3> HIDE DEF sv, R, sv2
    <3> QED BY <1>3, <3>1, <3>2, <3>3, ContentServed DEF sv2
  <2> QED BY <1>2, <1>7, <2>2, EndsStep
<1> QED BY <1>5, <1>6, <1>7 DEF Eof, Reads

\* No request of another client writes the units a client has to itself.
LEMMA OthersLeave ==
  ASSUME NEW c \in Connections, NEW d \in Connections, d # c, NEW u \in Own(d),
         NEW h \in DOMAIN program[c].requests
  PROVE  ~Writes(program[c].requests[h], u)
<1>1. u \in Units /\ u \notin WrittenBy(program[c])
  BY DEF Own
<1> QED BY <1>1 DEF WrittenBy

LEMMA OwnUnits ==
  ASSUME NEW c \in Connections
  PROVE  Own(c) \subseteq Units
BY DEF Own

\* The request is answered as executing the requests one by one would have it.
LEMMA AnswerStep ==
  ASSUME NbdInv, NEW c \in Connections, server[c].phase \in Serving,
         NEW r, r = server[c].request, r.command # "DISC", Len(server[c].got) = Len(r.bytes),
         NEW data \in Seq(Value), Len(data) = DataOf(r),
         \A j \in 1 .. Len(data) : UnitOK(Own(c), program[c].requests, server[c].handle, j, data[j]),
         Answers(c, Outcome(r), data),
         UNCHANGED <<program, client, inbox, outbox, faults>>,
         disk' \in [Units -> Value], durable' \in [Units -> Value],
         \/ durable' = disk'
         \/ durable' = durable /\ r.command # "FLUSH",
         \A u \in Units : ~Writes(r, u) => disk'[u] = disk[u],
         \A u \in Units : Writes(r, u) => disk'[u] = r.bytes[u - r.offset + 1]
  PROVE  NbdInv'
<1> DEFINE own == Own(c)  p == program[c]  k == client[c]  in == inbox[c]  sv == server[c]
           wr == writing[c]  out == outbox[c]  R == p.requests  h == sv.handle
           w == <<Reply(Outcome(r), h)>> \o Data(data)  sv2 == server'[c]
<1>1. TypesOK
  BY DEF NbdInv
<1>2. /\ p \in ClientProgram /\ k \in ClientState /\ in \in Seq(InToken) /\ sv \in ServerState
      /\ out \in Seq(OutToken) /\ ConnectionOK(own, p, k, in, sv, wr, out \o wr)
      /\ ContentOK(own, R, sv, disk) /\ R \in Seq(Request)
      /\ DurableOK(own, R, sv, Given(k, out \o wr), durable)
      /\ Len(in) <= Buffer /\ Len(out) <= Buffer
  BY At
<1>3. h \in 1 .. Len(R) /\ r = R[h] /\ r \in Request /\ wr = <<>>
  BY ServingAt
<1>4. out \o wr = out
  <2>1. out \o <<>> = out
    <3> HIDE DEF out
    <3> QED BY <1>2
  <2> QED BY <1>3, <2>1, Zenon
<1>5. Goes(c, "request") /\ Says(c, w)
  BY DEF Answers
<1>6. /\ server' \in [Connections -> ServerState] /\ sv2 \in ServerState
      /\ sv2.phase = "request" /\ sv2.handle = h
      /\ \A d \in Connections : d # c => server'[d] = server[d]
  BY <1>1, <1>5, GoesTo DEF TypesOK
<1>7. /\ ConnectionOK(own, p, k, in, sv2, w, out \o w)
      /\ Given(k, out \o w) \subseteq Given(k, out) \cup {h} /\ w \in Seq(OutToken)
  <2>1. ConnectionOK(own, p, k, in, sv, wr, out)
    BY <1>2, <1>4
  <2>2. /\ r = p.requests[h] /\ Len(sv.got) = Len(r.bytes) /\ sv.phase \in Serving
        /\ \A j \in 1 .. Len(data) : UnitOK(own, p.requests, h, j, data[j])
        /\ h = sv.handle /\ w = <<Reply(Outcome(r), h)>> \o Data(data)
    BY <1>3
  <2>3. Answering(own, p, k, in, sv, wr, out, h, r, sv2, data, w)
    <3> HIDE DEF own, p, k, in, sv, wr, out, h, w, sv2
    <3> QED BY <1>2, <1>6, <2>1, <2>2, Zenon DEF Answering
  <2> HIDE DEF own, p, k, in, sv, wr, out, h, w, sv2
  <2> QED BY <2>3, AnswerOK
<1> HIDE DEF w
<1>8. /\ writing' \in [Connections -> Seq(OutToken)] /\ writing'[c] = w
      /\ \A d \in Connections : d # c => writing'[d] = writing[d]
  BY <1>1, <1>5, <1>7, SaysThat DEF TypesOK
<1>9. ContentOK(own, R, sv2, disk')
  <2>1. own \subseteq Units
    BY OwnUnits
  <2>2. \A u \in own : ~Writes(R[h], u) => disk'[u] = disk[u]
    BY <1>3, <2>1
  <2>3. \A u \in own : Writes(R[h], u) => disk'[u] = R[h].bytes[u - R[h].offset + 1]
    BY <1>3, <2>1
  <2>4. h = sv.handle /\ sv.phase \in Serving
    OBVIOUS
  <2> DEFINE d == disk  d2 == disk'
  <2>5. /\ \A u \in own : ~Writes(R[h], u) => d2[u] = d[u]
        /\ \A u \in own : Writes(R[h], u) /\ sv2.phase # "error"
                            => d2[u] = R[h].bytes[u - R[h].offset + 1]
        /\ ContentOK(own, R, sv, d)
    BY <1>2, <2>2, <2>3
  <2>7. sv2.handle = h /\ sv2.phase = "request" /\ h \in 1 .. Len(R) /\ R \in Seq(Request)
        /\ sv \in ServerState
    BY <1>2, <1>3, <1>6
  <2> HIDE DEF own, R, sv, sv2, d, d2
  <2>6. ContentOK(own, R, sv2, d2)
    BY <2>4, <2>5, <2>7, ContentServed
  <2> QED BY <2>6 DEF d2
<1>10. \A d \in Connections : d # c => \A u \in Own(d) : disk'[u] = disk[u]
  <2> SUFFICES ASSUME NEW d \in Connections, d # c, NEW u \in Own(d) PROVE disk'[u] = disk[u]
    OBVIOUS
  <2>1. u \in Units
    BY OwnUnits
  <2>2. h \in DOMAIN R
    <3> HIDE DEF h, R
    <3> QED BY <1>2, <1>3
  <2>3. ~Writes(R[h], u)
    BY <2>2, OthersLeave
  <2> QED BY <1>3, <2>1, <2>3
<1>11. durable' = durable /\ r.command # "FLUSH" => DurableOK(own, R, sv2, Given(k, out \o w), durable)
  <2> SUFFICES ASSUME r.command # "FLUSH"
               PROVE  DurableOK(own, R, sv2, Given(k, out \o w), durable)
    OBVIOUS
  <2> DEFINE given == Given(k, out)  given2 == Given(k, out \o w)
  <2>1. DurableOK(own, R, sv, given, durable)
    BY <1>2, <1>4
  <2>2. \A g \in DOMAIN R : R[g].command = "FLUSH" /\ g \in given2 => g \in given
    BY <1>3, <1>7
  <2>3. sv2.phase # "ok"
    BY <1>6
  <2> HIDE DEF own, R, sv, sv2, given, given2
  <2>4. DurableOK(own, R, sv2, given2, durable)
    BY <2>1, <2>2, <2>3, DurableKept
  <2> QED BY <2>4 DEF given2
<1>12. /\ client' \in [Connections -> ClientState] /\ inbox' \in [Connections -> Seq(InToken)]
       /\ outbox' \in [Connections -> Seq(OutToken)]
       /\ client' = client /\ inbox' = inbox /\ outbox' = outbox /\ program' = program
       /\ faults' \in 0 .. Faults /\ faults' <= faults
  BY <1>1, NbdAssumption DEF TypesOK
<1>13. server'[c].phase # "error"
  BY <1>6
<1> QED BY <1>2, <1>6, <1>7, <1>8, <1>9, <1>10, <1>11, <1>12, <1>13, StepOK

\* A connection whose request has been read in full.
LEMMA RunsAt ==
  ASSUME NbdInv, NEW c \in Connections, NEW command, Runs(c, command)
  PROVE  /\ server[c].phase \in Serving /\ server[c].request \in Request
         /\ server[c].request.command = command
         /\ Len(server[c].got) = Len(server[c].request.bytes)
<1> DEFINE r == server[c].request  got == server[c].got
<1>1. /\ server[c].phase \in Serving /\ r.command = command
      /\ (command = "WRITE" => Len(got) = r.length)
  BY DEF Runs, Serving
<1>2. r \in Request /\ Len(got) <= Len(r.bytes) /\ server[c] \in ServerState
  BY <1>1, ServingAt, At
<1>3. Len(r.bytes) = (IF r.command = "WRITE" THEN r.length ELSE 0) /\ Len(got) \in Nat
  <2>1. got \in Seq(Value)
    BY <1>2 DEF ServerState
  <2>2. Len(r.bytes) = IF r.command = "WRITE" THEN r.length ELSE 0
    <3> HIDE DEF r
    <3> QED BY <1>2 DEF Request
  <2> HIDE DEF got
  <2> QED BY <2>1, <2>2
<1> HIDE DEF r, got
<1>4. Len(got) = Len(r.bytes)
  BY <1>1, <1>2, <1>3
<1> QED BY <1>1, <1>2, <1>4 DEF r, got

\* What a request of each kind is told.
LEMMA OutcomeOf ==
  ASSUME NEW r \in Request
  PROVE  /\ r.command \in {"READ", "WRITE"} /\ bounds_ok(r.offset, r.length) => Valid(r) /\ Outcome(r) = "OK"
         /\ r.command \in {"READ", "WRITE"} /\ ~bounds_ok(r.offset, r.length)
              => ~Valid(r) /\ Outcome(r) = "ERR_INVALID"
         /\ r.command = "FLUSH" => Outcome(r) = "OK"
         /\ r.command \notin {"READ", "WRITE", "FLUSH"} => Outcome(r) = "ERR_UNSUPPORTED"
         /\ r.command = "READ" /\ bounds_ok(r.offset, r.length) => DataOf(r) = r.length
         /\ r.command # "READ" \/ ~bounds_ok(r.offset, r.length) => DataOf(r) = 0
         /\ r.command # "WRITE" \/ ~bounds_ok(r.offset, r.length) => \A u : ~Writes(r, u)
<1>1. bounds_ok(r.offset, r.length) <=> r.offset + r.length <= device_size
  BY BoundsAre
<1> QED BY <1>1 DEF Valid, Outcome, DataOf, Writes

\* An answer without data, of a request that changes nothing.
LEMMA PlainAnswerStep ==
  ASSUME NbdInv, NEW c \in Connections, server[c].phase \in Serving,
         NEW r, r = server[c].request, r.command # "DISC", Len(server[c].got) = Len(r.bytes),
         DataOf(r) = 0, \A u \in Units : ~Writes(r, u),
         Answers(c, Outcome(r), <<>>),
         UNCHANGED <<program, client, inbox, outbox, disk, faults>>,
         \/ durable' = disk
         \/ durable' = durable /\ r.command # "FLUSH"
  PROVE  NbdInv'
<1>1. /\ disk' \in [Units -> Value] /\ durable' \in [Units -> Value] /\ disk' = disk
  BY DEF NbdInv, TypesOK
<1> DEFINE data == <<>>
<1>2. /\ data \in Seq(Value) /\ Len(data) = DataOf(r)
      /\ \A j \in 1 .. Len(data) : UnitOK(Own(c), program[c].requests, server[c].handle, j, data[j])
  OBVIOUS
<1>3. Answers(c, Outcome(r), data)
  OBVIOUS
<1> HIDE DEF data
<1> QED BY <1>1, <1>2, <1>3, AnswerStep

LEMMA ServeReadStep ==
  ASSUME NbdInv, NEW c \in Connections, ServeRead(c)
  PROVE  NbdInv'
<1> DEFINE r == server[c].request  sv == server[c]  R == program[c].requests  h == sv.handle
<1>1. /\ sv.phase \in Serving /\ r \in Request /\ r.command = "READ" /\ Len(sv.got) = Len(r.bytes)
  BY RunsAt DEF ServeRead
<1>2. UNCHANGED <<program, client, inbox, outbox, disk, durable, faults>>
  BY DEF ServeRead
<1>3. h \in 1 .. Len(R) /\ r = R[h]
  BY <1>1, ServingAt
<1>4. \A u : ~Writes(r, u)
  BY <1>1 DEF Writes
<1>5. CASE ~bounds_ok(r.offset, r.length) /\ Answers(c, "ERR_INVALID", <<>>)
  <2>1. Outcome(r) = "ERR_INVALID" /\ DataOf(r) = 0
    BY <1>1, <1>5, OutcomeOf
  <2>2. Answers(c, Outcome(r), <<>>)
    BY <1>5, <2>1
  <2> QED BY <1>1, <1>2, <1>4, <2>1, <2>2, PlainAnswerStep
<1>6. CASE /\ bounds_ok(r.offset, r.length)
           /\ Answers(c, "OK", [k \in 1 .. r.length |-> disk[r.offset + k - 1]])
  <2> DEFINE data == [k \in 1 .. r.length |-> disk[r.offset + k - 1]]
  <2>1. Outcome(r) = "OK" /\ DataOf(r) = r.length
    BY <1>1, <1>6, OutcomeOf
  <2>2. r.offset \in Nat /\ r.length \in Nat /\ r.offset + r.length <= device_size
    <3>1. r.offset \in Nat /\ r.length \in Nat
      <4> HIDE DEF r
      <4> QED BY <1>1 DEF Request
    <3> QED BY <1>1, <1>6, <3>1, BoundsAre
  <2>3. disk \in [Units -> Value] /\ durable \in [Units -> Value]
    BY DEF NbdInv, TypesOK
  <2>4. \A k \in 1 .. r.length : r.offset + k - 1 \in Units
    <3> HIDE DEF r
    <3> QED BY <2>2, NbdAssumption DEF Units
  <2>5. data \in Seq(Value) /\ Len(data) = r.length
    <3> HIDE DEF r
    <3>1. \A k \in 1 .. r.length : disk[r.offset + k - 1] \in Value
      BY <2>3, <2>4
    <3> QED BY <2>2, <3>1
  <2>6. \A j \in 1 .. Len(data) : UnitOK(Own(c), R, h, j, data[j])
    <3> SUFFICES ASSUME NEW j \in 1 .. Len(data), r.offset + j - 1 \in Own(c)
                 PROVE  data[j] = UnitAfter(R, h, r.offset + j - 1)
      BY <1>3 DEF UnitOK
    <3> DEFINE u == r.offset + j - 1  g == h - 1
    <3>1. data[j] = disk[u]
      <4> HIDE DEF r
      <4> QED BY <2>5
    <3>2. ContentOK(Own(c), R, sv, disk)
      BY At
    <3>3. disk[u] = UnitAfter(R, g, u)
      BY <1>1, <3>2 DEF ContentOK
    <3>4. h \in Nat /\ g \in Nat /\ g <= h /\ g + 1 = h
      <4> HIDE DEF h
      <4> QED BY <1>3
    <3>5. \A i \in g + 1 .. h : ~Writes(R[i], u)
      <4> HIDE DEF h, g, R, u
      <4>1. \A i \in g + 1 .. h : i = h
        BY <3>4
      <4> QED BY <1>3, <1>4, <4>1
    <3> HIDE DEF h, g, u, R
    <3>6. UnitAfter(R, h, u) = UnitAfter(R, g, u)
      BY <3>4, <3>5, UnitKept
    <3> QED BY <3>1, <3>3, <3>6 DEF u
  <2>7. Answers(c, Outcome(r), data)
    BY <1>6, <2>1
  <2>8. /\ Len(data) = DataOf(r) /\ disk' \in [Units -> Value] /\ durable' \in [Units -> Value]
        /\ disk' = disk /\ durable' = durable
        /\ \A j \in 1 .. Len(data) : UnitOK(Own(c), program[c].requests, server[c].handle, j, data[j])
    BY <1>2, <2>1, <2>3, <2>5, <2>6
  <2> HIDE DEF data
  <2> QED BY <1>1, <1>2, <1>4, <2>5, <2>7, <2>8, AnswerStep
<1> QED BY <1>5, <1>6 DEF ServeRead

LEMMA ServeWriteStep ==
  ASSUME NbdInv, NEW c \in Connections, ServeWrite(c)
  PROVE  NbdInv'
<1> DEFINE r == server[c].request  sv == server[c]  R == program[c].requests  h == sv.handle
<1>1. /\ sv.phase \in Serving /\ r \in Request /\ r.command = "WRITE" /\ Len(sv.got) = Len(r.bytes)
  BY RunsAt DEF ServeWrite
<1>2. UNCHANGED <<program, client, inbox, outbox, durable, faults>>
  BY DEF ServeWrite
<1>3. /\ sv.phase = IF bounds_ok(r.offset, r.length) THEN "payload" ELSE "discard"
      /\ \A i \in 1 .. Len(sv.got) : sv.got[i] = r.bytes[i]
  BY <1>1, ServingAt
<1>4. CASE sv.phase = "discard" /\ Answers(c, "ERR_INVALID", <<>>) /\ UNCHANGED disk
  <2>1. Outcome(r) = "ERR_INVALID" /\ DataOf(r) = 0 /\ \A u : ~Writes(r, u)
    BY <1>1, <1>3, <1>4, OutcomeOf
  <2>2. Answers(c, Outcome(r), <<>>)
    BY <1>4, <2>1
  <2> QED BY <1>1, <1>2, <1>4, <2>1, <2>2, PlainAnswerStep
<1>5. CASE /\ sv.phase = "payload" /\ disk' = Overlay(r, sv.got, r.length)
           /\ Answers(c, "OK", <<>>)
  <2>1. Outcome(r) = "OK" /\ DataOf(r) = 0 /\ Valid(r)
    BY <1>1, <1>3, <1>5, OutcomeOf
  <2>2. /\ r.offset \in Nat /\ r.length \in Nat /\ r.offset + r.length <= device_size
        /\ Len(r.bytes) = r.length /\ r.bytes \in Seq(Value)
    <3> HIDE DEF r
    <3> QED BY <1>1, <2>1 DEF Request, Valid
  <2>3. disk \in [Units -> Value] /\ durable \in [Units -> Value]
    BY DEF NbdInv, TypesOK
  <2>4. ASSUME NEW u \in Units
        PROVE  /\ Writes(r, u) <=> r.offset <= u /\ u < r.offset + r.length
               /\ Writes(r, u) => /\ sv.got[u - r.offset + 1] = r.bytes[u - r.offset + 1]
                                  /\ r.bytes[u - r.offset + 1] \in Value
    <3>1. Writes(r, u) <=> r.offset <= u /\ u < r.offset + r.length
      BY <1>1, <2>1 DEF Writes
    <3>2. Writes(r, u) => u - r.offset + 1 \in 1 .. r.length
      <4>1. u \in Int
        BY DEF Units
      <4> DEFINE a == r.offset  b == r.length
      <4>2. a \in Nat /\ b \in Nat /\ (Writes(r, u) <=> a <= u /\ u < a + b)
        BY <2>2, <3>1
      <4> HIDE DEF a, b
      <4>3. Writes(r, u) => u - a + 1 \in 1 .. b
        BY <4>1, <4>2
      <4> QED BY <4>3 DEF a, b
    <3> DEFINE i == u - r.offset + 1
    <3> HIDE DEF i
    <3>3. Writes(r, u) => sv.got[i] = r.bytes[i] /\ r.bytes[i] \in Value
      <4>1. Writes(r, u) => i \in 1 .. Len(r.bytes)
        BY <2>2, <3>2 DEF i
      <4> DEFINE got == sv.got  bytes == r.bytes
      <4>2. /\ Len(got) = Len(bytes) /\ \A j \in 1 .. Len(got) : got[j] = bytes[j]
            /\ bytes \in Seq(Value) /\ (Writes(r, u) => i \in 1 .. Len(bytes))
        BY <1>1, <1>3, <2>2, <4>1
      <4> HIDE DEF got, bytes
      <4>3. Writes(r, u) => got[i] = bytes[i] /\ bytes[i] \in Value
        BY <4>2
      <4> QED BY <4>3 DEF got, bytes
    <3> QED BY <3>1, <3>3 DEF i
  <2>5. disk' = [u \in Units |-> IF r.offset <= u /\ u < r.offset + r.length
                                 THEN sv.got[u - r.offset + 1] ELSE disk[u]]
    BY <1>5 DEF Overlay
  <2>6. ASSUME NEW u \in Units
        PROVE  /\ ~Writes(r, u) => disk'[u] = disk[u]
               /\ Writes(r, u) => disk'[u] = r.bytes[u - r.offset + 1]
               /\ disk'[u] \in Value
    <3>1. disk'[u] = IF r.offset <= u /\ u < r.offset + r.length
                     THEN sv.got[u - r.offset + 1] ELSE disk[u]
      BY <2>5
    <3> HIDE DEF r, sv
    <3> QED BY <2>3, <2>4, <3>1
  <2>7. disk' \in [Units -> Value] /\ durable' \in [Units -> Value] /\ durable' = durable
    <3>1. disk' \in [Units -> Value]
      <4> HIDE DEF r, sv
      <4> QED BY <2>5, <2>6
    <3> QED BY <1>2, <2>3, <3>1
  <2> DEFINE data == <<>>
  <2>8. /\ data \in Seq(Value) /\ Len(data) = DataOf(r) /\ Answers(c, Outcome(r), data)
        /\ \A j \in 1 .. Len(data) : UnitOK(Own(c), program[c].requests, server[c].handle, j, data[j])
    BY <1>5, <2>1
  <2>9. /\ \A u \in Units : ~Writes(r, u) => disk'[u] = disk[u]
        /\ \A u \in Units : Writes(r, u) => disk'[u] = r.bytes[u - r.offset + 1]
    BY <2>6
  <2> HIDE DEF data
  <2> QED BY <1>1, <1>2, <2>7, <2>8, <2>9, AnswerStep
<1> QED BY <1>4, <1>5 DEF ServeWrite

LEMMA ServeFlushStep ==
  ASSUME NbdInv, NEW c \in Connections, ServeFlush(c)
  PROVE  NbdInv'
<1> DEFINE r == server[c].request  sv == server[c]
<1>1. /\ sv.phase \in Serving /\ r \in Request /\ r.command = "FLUSH" /\ Len(sv.got) = Len(r.bytes)
  BY RunsAt DEF ServeFlush
<1>2. Outcome(r) = "OK" /\ DataOf(r) = 0 /\ \A u : ~Writes(r, u)
  BY <1>1, OutcomeOf
<1>3. /\ Answers(c, Outcome(r), <<>>) /\ durable' = disk
      /\ UNCHANGED <<program, client, inbox, outbox, disk, faults>>
  BY <1>2 DEF ServeFlush
<1> QED BY <1>1, <1>2, <1>3, PlainAnswerStep

LEMMA ServeUnsupportedStep ==
  ASSUME NbdInv, NEW c \in Connections, ServeUnsupported(c)
  PROVE  NbdInv'
<1> DEFINE r == server[c].request  sv == server[c]
<1>1. Runs(c, r.command) /\ r.command \notin {"READ", "WRITE", "FLUSH", "DISC"}
  BY DEF ServeUnsupported, Runs
<1>2. /\ sv.phase \in Serving /\ r \in Request /\ Len(sv.got) = Len(r.bytes)
  BY <1>1, RunsAt
<1>3. Outcome(r) = "ERR_UNSUPPORTED" /\ DataOf(r) = 0 /\ \A u : ~Writes(r, u)
  BY <1>1, <1>2, OutcomeOf
<1>4. /\ Answers(c, Outcome(r), <<>>)
      /\ UNCHANGED <<program, client, inbox, outbox, disk, durable, faults>>
  BY <1>3 DEF ServeUnsupported
<1> QED BY <1>1, <1>2, <1>3, <1>4, PlainAnswerStep

\* The connection ends with the request it serves: with all of it, or after an error of
\* the device.
LEMMA CloseStep ==
  ASSUME NbdInv, NEW c \in Connections, server[c].phase \in Serving,
         NEW how \in {"ok", "error"}, Ends(c, how), UNCHANGED <<program, client, inbox, outbox>>,
         disk' \in [Units -> Value], durable' \in [Units -> Value],
         \/ durable' = disk'
         \/ durable' = durable /\ how = "error",
         \A u \in Units : ~Writes(server[c].request, u) => disk'[u] = disk[u],
         how = "ok" => \A u \in Units : ~Writes(server[c].request, u),
         faults' \in 0 .. Faults, faults' <= faults, how = "error" => faults' < Faults
  PROVE  NbdInv'
<1> DEFINE own == Own(c)  p == program[c]  k == client[c]  in == inbox[c]  sv == server[c]
           wr == writing[c]  out == outbox[c]  R == p.requests  h == sv.handle  sv2 == server'[c]
           r == sv.request
<1>1. TypesOK
  BY DEF NbdInv
<1>2. /\ p \in ClientProgram /\ k \in ClientState /\ in \in Seq(InToken) /\ sv \in ServerState
      /\ out \in Seq(OutToken) /\ wr \in Seq(OutToken) /\ ConnectionOK(own, p, k, in, sv, wr, out \o wr)
      /\ ContentOK(own, R, sv, disk) /\ R \in Seq(Request)
      /\ DurableOK(own, R, sv, Given(k, out \o wr), durable)
      /\ Len(in) <= Buffer /\ Len(out) <= Buffer
  BY At
<1>3. h \in 1 .. Len(R) /\ r = R[h] /\ wr = <<>> /\ k.phase \in {"ready", "gone", "confused"}
  BY ServingAt
<1>4. /\ server' \in [Connections -> ServerState] /\ sv2 \in ServerState
      /\ sv2.phase = how /\ sv2.handle = h
      /\ \A d \in Connections : d # c => server'[d] = server[d]
  BY <1>1, GoesTo DEF TypesOK, Ends
<1>5. /\ writing' \in [Connections -> Seq(OutToken)] /\ writing'[c] = <<>>
      /\ \A d \in Connections : d # c => writing'[d] = writing[d]
  <2>1. <<>> \in Seq(OutToken)
    OBVIOUS
  <2> QED BY <1>1, <2>1, SaysThat DEF TypesOK, Ends
<1>6. /\ ConnectionOK(own, p, k, in, sv2, <<>>, out \o <<>>)
      /\ Given(k, out \o <<>>) \subseteq Given(k, out \o wr)
  <2> HIDE DEF own, p, k, in, sv, wr, out, sv2
  <2> QED BY <1>2, <1>3, <1>4, EndsOK
<1>7. ContentOK(own, R, sv2, disk')
  <2>1. own \subseteq Units
    BY OwnUnits
  <2> DEFINE d == disk  d2 == disk'
  <2>2. /\ \A u \in own : ~Writes(R[h], u) => d2[u] = d[u]
        /\ \A u \in own : Writes(R[h], u) /\ sv2.phase # "error"
                            => d2[u] = R[h].bytes[u - R[h].offset + 1]
        /\ ContentOK(own, R, sv, d)
    BY <1>2, <1>3, <1>4, <2>1
  <2>3. /\ sv2.handle = h /\ sv2.phase \in {"ok", "error"} /\ h \in 1 .. Len(R) /\ R \in Seq(Request)
        /\ sv \in ServerState /\ sv.phase \in Serving
    BY <1>2, <1>3, <1>4
  <2> HIDE DEF own, R, sv, sv2, d, d2
  <2>4. ContentOK(own, R, sv2, d2)
    BY <2>2, <2>3, ContentServed
  <2> QED BY <2>4 DEF d2
<1>8. \A d \in Connections : d # c => \A u \in Own(d) : disk'[u] = disk[u]
  <2> SUFFICES ASSUME NEW d \in Connections, d # c, NEW u \in Own(d) PROVE disk'[u] = disk[u]
    OBVIOUS
  <2>1. u \in Units
    BY OwnUnits
  <2>2. h \in DOMAIN R
    <3> HIDE DEF h, R
    <3> QED BY <1>2, <1>3
  <2>3. ~Writes(R[h], u)
    BY <2>2, OthersLeave
  <2> QED BY <1>3, <2>1, <2>3
<1>9. how = "error" => DurableOK(own, R, sv2, Given(k, out \o <<>>), durable)
  <2> SUFFICES ASSUME how = "error" PROVE DurableOK(own, R, sv2, Given(k, out \o <<>>), durable)
    OBVIOUS
  <2> DEFINE given == Given(k, out \o wr)  given2 == Given(k, out \o <<>>)
  <2>1. DurableOK(own, R, sv, given, durable)
    BY <1>2
  <2>2. \A g \in DOMAIN R : R[g].command = "FLUSH" /\ g \in given2 => g \in given
    BY <1>6
  <2>3. sv2.phase # "ok"
    BY <1>4
  <2> HIDE DEF own, R, sv, sv2, given, given2
  <2>4. DurableOK(own, R, sv2, given2, durable)
    BY <2>1, <2>2, <2>3, DurableKept
  <2> QED BY <2>4 DEF given2
<1>10. /\ client' \in [Connections -> ClientState] /\ inbox' \in [Connections -> Seq(InToken)]
       /\ outbox' \in [Connections -> Seq(OutToken)]
       /\ client' = client /\ inbox' = inbox /\ outbox' = outbox /\ program' = program
  BY <1>1 DEF TypesOK
<1> QED BY <1>2, <1>4, <1>5, <1>6, <1>7, <1>8, <1>9, <1>10, StepOK

LEMMA ServeDiscStep ==
  ASSUME NbdInv, NEW c \in Connections, ServeDisc(c)
  PROVE  NbdInv'
<1> DEFINE r == server[c].request  sv == server[c]
<1>1. sv.phase \in Serving /\ r \in Request /\ r.command = "DISC"
  BY RunsAt DEF ServeDisc
<1>2. \A u : ~Writes(r, u)
  BY <1>1, OutcomeOf
<1>3. /\ Ends(c, "ok") /\ durable' = disk' /\ disk' = disk
      /\ UNCHANGED <<program, client, inbox, outbox, faults>>
  BY DEF ServeDisc
<1>4. /\ disk' \in [Units -> Value] /\ durable' \in [Units -> Value]
      /\ faults' \in 0 .. Faults /\ faults' <= faults
  BY <1>3, NbdAssumption DEF NbdInv, TypesOK
<1> DEFINE how == "ok"
<1>5. /\ how \in {"ok", "error"} /\ Ends(c, how) /\ how # "error" /\ how = "ok"
      /\ UNCHANGED <<program, client, inbox, outbox>>
      /\ \A u \in Units : ~Writes(server[c].request, u)
      /\ \A u \in Units : disk'[u] = disk[u]
      /\ server[c].phase \in Serving /\ durable' = disk'
  BY <1>1, <1>2, <1>3
<1> HIDE DEF how
<1> QED BY <1>4, <1>5, CloseStep

\* Part of a write changes only what the write covers.
LEMMA OverlayPart ==
  ASSUME disk \in [Units -> Value], NEW r \in Request, r.command = "WRITE",
         bounds_ok(r.offset, r.length), NEW got \in Seq(Value), Len(got) = r.length,
         NEW n \in 0 .. r.length
  PROVE  /\ Overlay(r, got, n) \in [Units -> Value]
         /\ \A u \in Units : ~Writes(r, u) => Overlay(r, got, n)[u] = disk[u]
<1>1. r.offset \in Nat /\ r.length \in Nat
  BY DEF Request
<1>2. Valid(r)
  BY OutcomeOf
<1>3. ASSUME NEW u \in Units
      PROVE  /\ ~Writes(r, u) => ~(r.offset <= u /\ u < r.offset + n)
             /\ r.offset <= u /\ u < r.offset + n => got[u - r.offset + 1] \in Value
             /\ disk[u] \in Value
  <2> DEFINE a == r.offset  b == r.length  i == u - a + 1
  <2>1. u \in Int /\ a \in Nat /\ b \in Nat /\ n \in 0 .. b /\ Len(got) = b
    BY <1>1 DEF Units
  <2>2. Writes(r, u) <=> a <= u /\ u < a + b
    BY <1>2 DEF Writes
  <2> HIDE DEF a, b
  <2>3. a <= u /\ u < a + n => u < a + b /\ i \in 1 .. b
    BY <2>1
  <2>4. i \in 1 .. b => got[i] \in Value
    <3> HIDE DEF i
    <3> QED BY <2>1
  <2>5. disk[u] \in Value
    OBVIOUS
  <2> QED BY <2>2, <2>3, <2>4, <2>5 DEF a, b
<1>4. Overlay(r, got, n) = [u \in Units |-> IF r.offset <= u /\ u < r.offset + n
                                            THEN got[u - r.offset + 1] ELSE disk[u]]
  BY DEF Overlay
<1> QED BY <1>3, <1>4

LEMMA DeviceFailsStep ==
  ASSUME NbdInv, NEW c \in Connections, DeviceFails(c)
  PROVE  NbdInv'
<1> DEFINE r == server[c].request  sv == server[c]
<1>1. \/ Runs(c, "READ") /\ bounds_ok(r.offset, r.length)
      \/ Runs(c, "WRITE") /\ sv.phase = "payload"
      \/ Runs(c, "FLUSH") \/ Runs(c, "DISC")
  BY DEF DeviceFails
<1>2. /\ sv.phase \in Serving /\ r \in Request /\ Len(sv.got) = Len(r.bytes)
      /\ (r.command = "READ" => bounds_ok(r.offset, r.length))
      /\ (r.command = "WRITE" => sv.phase = "payload")
  BY <1>1, RunsAt
<1>3. r.command = "WRITE" => bounds_ok(r.offset, r.length)
  BY <1>2, ServingAt
<1>4. r.command \in {"READ", "WRITE"} => InDevice(r)
  BY <1>2, <1>3, BoundsAre
<1>5. faults' \in 0 .. Faults /\ faults' <= faults /\ faults' < Faults
  <2>1. faults > 0 /\ faults' = faults - 1
    BY <1>4 DEF DeviceFails
  <2>2. faults \in 0 .. Faults /\ Faults \in Nat
    BY NbdAssumption DEF NbdInv, TypesOK
  <2> QED BY <2>1, <2>2
<1>6. disk \in [Units -> Value] /\ durable \in [Units -> Value] /\ sv.got \in Seq(Value)
  <2>1. sv.got \in Seq(Value)
    BY At DEF ServerState
  <2> QED BY <2>1 DEF NbdInv, TypesOK
<1>7. disk' \in [Units -> Value] /\ \A u \in Units : ~Writes(r, u) => disk'[u] = disk[u]
  <2>1. CASE r.command = "WRITE"
    <3>1. PICK n \in 0 .. r.length : disk' = Overlay(r, sv.got, n)
      BY <2>1 DEF DeviceFails
    <3>2. Len(r.bytes) = r.length
      <4> HIDE DEF r
      <4> QED BY <1>2, <2>1 DEF Request
    <3>3. Len(sv.got) = r.length
      BY <1>2, <3>2
    <3> DEFINE got == sv.got
    <3> HIDE DEF r
    <3>4. got \in Seq(Value) /\ Len(got) = r.length
      BY <1>6, <3>3
    <3> HIDE DEF got
    <3>5. /\ Overlay(r, got, n) \in [Units -> Value]
          /\ \A u \in Units : ~Writes(r, u) => Overlay(r, got, n)[u] = disk[u]
      BY <1>2, <1>3, <1>6, <2>1, <3>4, OverlayPart
    <3>6. disk' = Overlay(r, got, n)
      BY <3>1 DEF got
    <3> QED BY <3>5, <3>6
  <2>2. CASE r.command # "WRITE"
    BY <1>6, <2>2 DEF DeviceFails
  <2> QED BY <2>1, <2>2
<1>8. durable' \in [Units -> Value] /\ (durable' = disk' \/ durable' = durable)
  <2>1. CASE r.command \in {"FLUSH", "DISC"}
    BY <1>6, <2>1 DEF DeviceFails
  <2>2. CASE r.command \notin {"FLUSH", "DISC"}
    BY <1>6, <2>2 DEF DeviceFails
  <2> QED BY <2>1, <2>2
<1>9. Ends(c, "error") /\ UNCHANGED <<program, client, inbox, outbox>>
  BY DEF DeviceFails
<1> QED BY <1>2, <1>5, <1>7, <1>8, <1>9, CloseStep

-----------------------------------------------------------------------------
(* The invariant, and what follows from it *)

LEMMA NbdInit == Init => NbdInv
<1> SUFFICES ASSUME Init PROVE NbdInv
  OBVIOUS
<1>1. NewClient \in ClientState /\ NewServer \in ServerState
  BY DEF NewClient, ClientState, NewServer, ServerState, Negotiating
<1>2. TypesOK
  <2>1. \A c \in Connections : Len(inbox[c]) <= Buffer /\ Len(outbox[c]) <= Buffer
    BY NbdAssumption DEF Init
  <2>2. client \in [Connections -> ClientState] /\ server \in [Connections -> ServerState]
    BY <1>1 DEF Init
  <2>3. /\ inbox \in [Connections -> Seq(InToken)] /\ outbox \in [Connections -> Seq(OutToken)]
        /\ writing \in [Connections -> Seq(OutToken)]
    BY DEF Init
  <2>4. /\ disk \in [Units -> Value] /\ durable \in [Units -> Value] /\ faults \in 0 .. Faults
        /\ program \in Clients
    BY NbdAssumption DEF Init
  <2> QED BY <2>1, <2>2, <2>3, <2>4 DEF TypesOK
<1>3. ASSUME NEW c \in Connections
      PROVE  /\ ConnectionOK(Own(c), program[c], client[c], inbox[c], server[c], writing[c], Flight(c))
             /\ ContentOK(Own(c), program[c].requests, server[c], disk)
             /\ DurableOK(Own(c), program[c].requests, server[c], Given(client[c], Flight(c)), durable)
  <2> DEFINE own == Own(c)  p == program[c]  R == p.requests  k == client[c]  sv == server[c]
             fl == Flight(c)
  <2>1. /\ k = NewClient /\ sv = NewServer /\ inbox[c] = <<>> /\ writing[c] = <<>> /\ fl = <<>>
    <3>1. /\ k = NewClient /\ sv = NewServer /\ inbox[c] = <<>> /\ writing[c] = <<>>
          /\ outbox[c] = <<>>
      BY DEF Init
    <3>2. <<>> \o <<>> = <<>>
      OBVIOUS
    <3> QED BY <3>1, <3>2, Zenon DEF Flight
  <2>2. /\ k.phase = "greeting" /\ k.options = 0 /\ k.sent = 0 /\ k.due = 0 /\ k.answers = <<>>
        /\ sv.phase = "accept" /\ sv.handle = 0
    BY <2>1 DEF NewClient, NewServer
  <2>3. /\ p \in ClientProgram /\ R \in Seq(Request) /\ Len(R) \in Nat /\ Len(p.options) \in Nat
    <3>1. p \in ClientProgram
      BY <1>2, NbdAssumption DEF TypesOK, ClientProgram
    <3> HIDE DEF p
    <3> QED BY <3>1 DEF ClientProgram
  <2>4. Given(k, fl) = {}
    BY <2>1, <2>2 DEF Given
  <2>5. /\ "accept" \in Negotiating /\ "accept" \notin Serving
    BY DEF Negotiating, Serving
  <2>6. Len(Stream(R)) \in Nat
    BY <2>3, StreamPlaces
  <2>7. \A u \in own : disk[u] = UnitAfter(R, 0, u)
    BY UnitAtFirst, OwnUnits DEF Init
  <2> HIDE DEF own, p, k, sv, fl, R
  <2>8. FramingOK(R, k, inbox[c], sv, writing[c])
    BY <2>2, <2>3, <2>5, <2>6 DEF FramingOK
  <2>9. NegotiationOK(p, k, inbox[c], sv, fl)
    BY <2>1, <2>2, <2>3 DEF NegotiationOK
  <2>10. AnswersOK(own, R, k)
    BY <2>2, <2>3 DEF AnswersOK
  <2>11. RepliesOK(own, p, k, sv, fl)
    BY <2>2 DEF RepliesOK
  <2>12. GivenOK(k, sv, fl)
    BY <2>4 DEF GivenOK
  <2>13. ConnectionOK(own, p, k, inbox[c], sv, writing[c], fl)
    BY <2>8, <2>9, <2>10, <2>11, <2>12 DEF ConnectionOK, R
  <2>14. ContentOK(own, R, sv, disk)
    BY <2>2, <2>5, <2>7 DEF ContentOK
  <2>15. DurableOK(own, R, sv, Given(k, fl), durable)
    BY <2>2, <2>4 DEF DurableOK
  <2> QED BY <2>13, <2>14, <2>15 DEF own, p, k, sv, fl, R
<1>4. NotDropped
  BY DEF Init, NewServer, NotDropped
<1> QED BY <1>2, <1>3, <1>4 DEF NbdInv

LEMMA NbdStep == NbdInv /\ [Next]_vars => NbdInv'
<1> SUFFICES ASSUME NbdInv, [Next]_vars PROVE NbdInv'
  OBVIOUS
<1>1. CASE UNCHANGED vars
  <2>1. \A d \in Connections : Own(d)' = Own(d) /\ Flight(d)' = Flight(d)
    BY <1>1 DEF vars, Own, WrittenBy, Units, Flight
  <2> QED BY <1>1, <2>1 DEF vars, NbdInv, TypesOK, NotDropped
<1>2. ASSUME NEW c \in Connections, Server(c) PROVE NbdInv'
  BY <1>2, DrainStep, AcceptStep, ReadFlagsStep, ReadOptionStep, ReadRequestStep, TakeDataStep,
     EofStep, ServeReadStep, ServeWriteStep, ServeFlushStep, ServeDiscStep, ServeUnsupportedStep,
     DeviceFailsStep DEF Server
<1>3. ASSUME NEW c \in Connections, Client(c) PROVE NbdInv'
  BY <1>3, SendFlagsStep, SendOptionStep, SendRequestStep, ReceiveStep, HangUpStep DEF Client
<1> QED BY <1>1, <1>2, <1>3 DEF Next

\* Every reachable state satisfies the invariant: what is in a socket follows what the
\* task has taken of the client's stream, what is on its way back follows what the client
\* was told, and the device holds what the requests carried out have left there.
THEOREM NbdInvariance == Spec => []NbdInv
<1> QED BY NbdInit, NbdStep, PTL DEF Spec

\* handle_client keeps its phases, the sockets within their capacity, and reads no more of
\* a payload than the header announced.
THEOREM NbdTypeCorrect == Spec => []NbdTypeOK
<1>1. NbdInv => NbdTypeOK
  <2> SUFFICES ASSUME NbdInv PROVE NbdTypeOK
    OBVIOUS
  <2>1. ASSUME NEW c \in Connections
        PROVE  /\ client[c].due \in Nat /\ client[c].sent \in Nat
               /\ Len(inbox[c]) <= Buffer /\ Len(outbox[c]) <= Buffer
               /\ server[c].phase \in {"accept", "flags", "options", "request", "payload", "discard",
                                       "run", "ok", "error"}
               /\ server[c].phase = "payload" => Len(server[c].got) <= server[c].request.length
    <3>1. /\ client[c] \in ClientState /\ server[c] \in ServerState
          /\ Len(inbox[c]) <= Buffer /\ Len(outbox[c]) <= Buffer
      BY At
    <3>2. client[c].due \in Nat /\ client[c].sent \in Nat
      BY <3>1 DEF ClientState
    <3>3. server[c].phase \in {"accept", "flags", "options", "request", "payload", "discard",
                               "run", "ok", "error"}
      BY <3>1 DEF ServerState, Negotiating, Serving
    <3>4. ASSUME server[c].phase = "payload" PROVE Len(server[c].got) <= server[c].request.length
      <4> DEFINE r == server[c].request
      <4>1. server[c].phase \in Serving
        BY <3>4 DEF Serving
      <4>2. /\ r \in Request /\ Len(server[c].got) <= Len(r.bytes)
            /\ server[c].phase = IF r.command # "WRITE" THEN "run"
                                 ELSE IF bounds_ok(r.offset, r.length) THEN "payload" ELSE "discard"
        BY <4>1, ServingAt
      <4>3. r.command = "WRITE"
        BY <3>4, <4>2
      <4> HIDE DEF r
      <4>4. Len(r.bytes) = r.length
        BY <4>2, <4>3 DEF Request
      <4> QED BY <4>2, <4>4 DEF r
    <3> QED BY <3>1, <3>2, <3>3, <3>4
  <2>2. disk \in [Units -> Value] /\ durable \in [Units -> Value] /\ faults \in 0 .. Faults
    BY DEF NbdInv, TypesOK
  <2> QED BY <2>1, <2>2 DEF NbdTypeOK
<1> QED BY <1>1, NbdInvariance, PTL

\* A client that keeps to the protocol is never sent a token it does not wait for, however
\* many requests it sends before it reads a reply, and whichever of them are refused.
THEOREM StaysInStep == Spec => []InStep
<1>1. NbdInv => InStep
  <2> SUFFICES ASSUME NbdInv, NEW c \in Connections, client[c].phase = "confused"
               PROVE  ~Keeps(program[c])
    BY DEF InStep
  <2>1. NegotiationOK(program[c], client[c], inbox[c], server[c], outbox[c] \o writing[c])
    BY At DEF ConnectionOK
  <2> QED BY <2>1 DEF NegotiationOK
<1> QED BY <1>1, NbdInvariance, PTL

\* The task returns an error only to a client that breaks the protocol, asks for what the
\* server refuses, or has hung up, unless the device failed: no offset and length do it.
THEOREM KeepsClients == Spec => []NotDropped
<1>1. NbdInv => NotDropped
  BY DEF NbdInv
<1> QED BY <1>1, NbdInvariance, PTL

\* The replies a client has received say what executing its requests one after another
\* would have said, in units that no other client writes.
THEOREM AnswersAreSequential == Spec => []AnswersSequential
<1>1. NbdInv => AnswersSequential
  <2> SUFFICES ASSUME NbdInv, NEW c \in Connections, NEW h \in DOMAIN client[c].answers
               PROVE  LET r == program[c].requests[h]
                          a == client[c].answers[h]
                      IN  /\ a.error = Outcome(r)
                          /\ \A k \in DOMAIN a.data :
                               r.offset + k - 1 \in Own(c) =>
                                 a.data[k] = UnitAfter(program[c].requests, h, r.offset + k - 1)
    BY DEF AnswersSequential
  <2>1. AnswersOK(Own(c), program[c].requests, client[c])
    BY At DEF ConnectionOK
  <2> QED BY <2>1 DEF AnswersOK, UnitOK
<1> QED BY <1>1, NbdInvariance, PTL

\* A FLUSH that was answered, and a DISC that ended the connection, have made durable what
\* the client wrote before.
THEOREM FlushesAreDurable == Spec => []FlushedDurable
<1>1. NbdInv => FlushedDurable
  <2> SUFFICES ASSUME NbdInv, NEW c \in Connections, NEW h \in DOMAIN program[c].requests,
                      \/ /\ program[c].requests[h].command = "FLUSH"
                         /\ h \in DOMAIN client[c].answers
                      \/ /\ program[c].requests[h].command = "DISC"
                         /\ server[c].phase = "ok" /\ server[c].handle = h,
                      NEW u \in SettledAfter(c, h)
               PROVE  durable[u] = UnitAfter(program[c].requests, h, u)
    BY DEF FlushedDurable
  <2> DEFINE own == Own(c)  R == program[c].requests  given == Given(client[c], outbox[c] \o writing[c])
             sv == server[c]
  <2>1. DurableOK(own, R, sv, given, durable)
    BY At
  <2>2. DOMAIN client[c].answers \subseteq given
    BY DEF Given
  <2>3. u \in Settled(own, R, h)
    BY DEF SettledAfter, Settled
  <2>4. \/ R[h].command = "FLUSH" /\ h \in given
        \/ R[h].command = "DISC" /\ sv.phase = "ok" /\ sv.handle = h
    BY <2>2
  <2>5. h \in DOMAIN R
    OBVIOUS
  <2> HIDE DEF own, R, given, sv
  <2>6. durable[u] = UnitAfter(R, h, u)
    BY <2>1, <2>3, <2>4, <2>5 DEF DurableOK
  <2> QED BY <2>6 DEF R
<1> QED BY <1>1, NbdInvariance, PTL

-----------------------------------------------------------------------------
(* The connections implement the disk *)

Written == UNION {{r \in Range(p.requests) : r.command = "WRITE"} : p \in Programs}

\* The write that a connection serves is one that a client sends.
LEMMA ServesWritten ==
  ASSUME NbdInv, NEW c \in Connections, server[c].phase \in Serving,
         server[c].request.command = "WRITE"
  PROVE  server[c].request \in Written
<1> DEFINE r == server[c].request  p == program[c]
<1>1. server[c].handle \in 1 .. Len(p.requests) /\ r = p.requests[server[c].handle]
  BY ServingAt
<1>2. p.requests \in Seq(Request)
  BY At
<1>3. p \in Programs
  <2>1. program \in Clients
    BY DEF NbdInv, TypesOK
  <2> QED BY <2>1 DEF Programs
<1>4. r \in Range(p.requests)
  <2> DEFINE R == p.requests  h == server[c].handle
  <2>1. h \in DOMAIN R /\ r = R[h]
    BY <1>1, <1>2
  <2> HIDE DEF R, h, r
  <2>2. r \in Range(R)
    BY <2>1 DEF Range
  <2> QED BY <2>2 DEF R
<1> QED BY <1>3, <1>4 DEF Written

\* The first units of a write, as the abstract disk has them.
LEMMA OverlayIsWrite ==
  ASSUME disk \in [Units -> Value], NEW r \in Request, r.command = "WRITE", r \in Written,
         NEW got, NEW n \in 0 .. r.length, \A i \in 1 .. n : got[i] = r.bytes[i],
         disk' = Overlay(r, got, n), durable' = durable
  PROVE  Disk!Write \/ UNCHANGED <<disk, durable>>
<1>1. r.offset \in Nat /\ r.length \in Nat /\ Len(r.bytes) = r.length
  BY DEF Request
<1>2. disk' = [u \in Units |-> IF r.offset <= u /\ u < r.offset + n
                               THEN got[u - r.offset + 1] ELSE disk[u]]
  BY DEF Overlay
<1>3. ASSUME NEW u \in Units, r.offset <= u, u < r.offset + n
      PROVE  got[u - r.offset + 1] = r.bytes[u - r.offset + 1]
  <2> DEFINE a == r.offset  b == r.length  i == u - a + 1
  <2>1. a \in Nat /\ b \in Nat /\ n \in 0 .. b /\ a <= u /\ u < a + n /\ u \in Int
    BY <1>1, <1>3 DEF Units
  <2> HIDE DEF a, b
  <2>2. i \in 1 .. n
    BY <2>1
  <2> HIDE DEF i
  <2>3. got[i] = r.bytes[i]
    BY <2>2
  <2> QED BY <2>3 DEF i, a
<1>4. CASE n = 0
  <2>1. \A u \in Units : ~(r.offset <= u /\ u < r.offset + n)
    BY <1>1, <1>4 DEF Units
  <2>2. disk' = disk
    BY <1>2, <2>1
  <2> QED BY <2>2
<1>5. CASE n > 0
  <2> DEFINE z == 0
  <2>1. z \in 0 .. Len(r.bytes) /\ n \in 0 .. Len(r.bytes) /\ z < n /\ r.offset + z = r.offset
    BY <1>1, <1>5
  <2>2. disk' = [u \in Units |-> IF r.offset + z <= u /\ u < r.offset + n
                                 THEN r.bytes[u - r.offset + 1] ELSE disk[u]]
    <3> HIDE DEF z
    <3> QED BY <1>2, <1>3, <2>1
  <2>3. Disk!WritePart(r, z, n)
    BY <2>2, Zenon DEF Disk!WritePart
  <2> HIDE DEF z
  <2>4. Disk!Write
    BY <2>1, <2>3 DEF Disk!Write, Written
  <2> QED BY <2>4
<1> QED BY <1>1, <1>4, <1>5

LEMMA DiskStep ==
  ASSUME NbdInv, [Next]_vars
  PROVE  (Disk!Write \/ Disk!Sync) \/ UNCHANGED <<disk, durable>>
<1>1. CASE UNCHANGED vars
  BY <1>1 DEF vars
<1>2. disk \in [Units -> Value]
  BY DEF NbdInv, TypesOK
<1>3. ASSUME NEW c \in Connections,
             \/ Drain(c) \/ Accept(c) \/ ReadFlags(c) \/ ReadOption(c) \/ ReadRequest(c)
             \/ TakeData(c) \/ Eof(c) \/ ServeRead(c) \/ ServeUnsupported(c) \/ Client(c)
      PROVE  UNCHANGED <<disk, durable>>
  BY <1>3 DEF Drain, Accept, ReadFlags, ReadOption, ReadRequest, TakeData, Eof, ServeRead,
     ServeUnsupported, Client, SendFlags, SendOption, SendRequest, Receive, HangUp
<1>4. ASSUME NEW c \in Connections, ServeFlush(c) \/ ServeDisc(c)
      PROVE  Disk!Sync
  BY <1>4 DEF ServeFlush, ServeDisc, Disk!Sync
<1>5. ASSUME NEW c \in Connections, Runs(c, "WRITE"), NEW n \in 0 .. server[c].request.length,
             disk' = Overlay(server[c].request, server[c].got, n), durable' = durable
      PROVE  Disk!Write \/ UNCHANGED <<disk, durable>>
  <2> DEFINE r == server[c].request  got == server[c].got
  <2>1. /\ server[c].phase \in Serving /\ r \in Request /\ r.command = "WRITE"
        /\ Len(got) = Len(r.bytes)
    BY <1>5, RunsAt
  <2>2. r \in Written
    BY <2>1, ServesWritten
  <2>3. \A i \in 1 .. Len(got) : got[i] = r.bytes[i]
    BY <2>1, ServingAt
  <2>4. disk' = Overlay(r, got, n) /\ n \in 0 .. r.length
    BY <1>5
  <2> HIDE DEF r, got
  <2>5. Len(got) = r.length /\ r.length \in Nat
    BY <2>1 DEF Request
  <2>6. \A i \in 1 .. n : got[i] = r.bytes[i]
    BY <2>3, <2>4, <2>5
  <2> QED BY <1>2, <1>5, <2>1, <2>2, <2>4, <2>6, OverlayIsWrite
<1>6. ASSUME NEW c \in Connections, ServeWrite(c)
      PROVE  Disk!Write \/ UNCHANGED <<disk, durable>>
  <2>1. Runs(c, "WRITE") /\ durable' = durable
    BY <1>6 DEF ServeWrite
  <2>2. server[c].request.length \in Nat
    <3> DEFINE r == server[c].request
    <3>1. r \in Request
      BY <2>1, RunsAt
    <3> HIDE DEF r
    <3>2. r.length \in Nat
      BY <3>1 DEF Request
    <3> QED BY <3>2 DEF r
  <2>3. CASE UNCHANGED disk
    BY <2>1, <2>3
  <2>4. CASE disk' = Overlay(server[c].request, server[c].got, server[c].request.length)
    <3>1. server[c].request.length \in 0 .. server[c].request.length
      BY <2>2
    <3> QED BY <1>5, <2>1, <2>4, <3>1
  <2> QED BY <1>6, <2>3, <2>4 DEF ServeWrite
<1>7. ASSUME NEW c \in Connections, DeviceFails(c)
      PROVE  Disk!Write \/ Disk!Sync \/ UNCHANGED <<disk, durable>>
  <2>1. CASE server[c].request.command = "WRITE"
    <3>1. Runs(c, "WRITE") /\ durable' = durable
      BY <1>7, <2>1 DEF DeviceFails, Runs
    <3>2. PICK n \in 0 .. server[c].request.length :
            disk' = Overlay(server[c].request, server[c].got, n)
      BY <1>7, <2>1 DEF DeviceFails
    <3> QED BY <1>5, <3>1, <3>2
  <2>2. CASE server[c].request.command # "WRITE"
    <3>1. disk' = disk /\ durable' \in {durable, disk}
      BY <1>7, <2>2 DEF DeviceFails
    <3> QED BY <3>1 DEF Disk!Sync
  <2> QED BY <2>1, <2>2
<1> QED BY <1>1, <1>3, <1>4, <1>6, <1>7 DEF Next, Server

\* The connections, between them, do to the device only what the abstract disk allows: a
\* write that some client sent, the first part of one, or a flush.
THEOREM ServerServesDisk == Spec => ServesDisk
<1>1. Init => Disk!Init
  BY DEF Init, Disk!Init, Disk!Zeroes
<1>2. NbdInv /\ [Next]_vars => [Disk!Write \/ Disk!Sync]_<<disk, durable>>
  BY DiskStep
<1> QED BY <1>1, <1>2, NbdInvariance, PTL DEF Spec, ServesDisk
=============================================================================
