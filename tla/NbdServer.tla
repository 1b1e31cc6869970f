------------------------------ MODULE NbdServer ------------------------------
(***************************************************************************)
(* crates/tgdrive-nbd/src/server.rs: the connections of one export, each a *)
(* task that negotiates and then serves one request after another from a   *)
(* stream of bytes that nothing but the protocol divides into messages.    *)
(*                                                                         *)
(* A stream is a sequence of tokens: a header, or one unit of data.  The   *)
(* server takes what comes: a unit of data where it reads a header has the *)
(* wrong magic, and a header where it reads data is data.  The device is   *)
(* the one AbstractDisk promises (NbdBackend).                             *)
(***************************************************************************)
EXTENDS Integers, SequencesExt

CONSTANTS
  Connections,
  Clients,        \* set of functions from Connections to programs: what clients send
  device_size,    \* of the export, in units
  export_name,
  MAX,            \* 2^64: offsets and their sums are below it, or overflow
  Value,
  Buffer,         \* tokens a socket holds in each direction
  Faults          \* how many calls of the device fail

Option == [magic : BOOLEAN, option : STRING, data : STRING]

\* What a client sends as one request: a header, and after a WRITE the payload that the
\* header announces.
Request ==
  {r \in [magic : BOOLEAN, command : STRING, offset : Nat, length : Nat, bytes : Seq(Value)] :
     Len(r.bytes) = IF r.command = "WRITE" THEN r.length ELSE 0}

ASSUME NbdAssumption ==
  /\ device_size \in Nat \ {0} /\ MAX \in Nat /\ MAX > device_size
  /\ Buffer \in Nat \ {0} /\ Faults \in Nat /\ 0 \in Value
  /\ Clients \subseteq
       [Connections -> [no_zeroes : BOOLEAN, options : Seq(Option), requests : Seq(Request)]]

VARIABLES
  program,        \* per connection: [no_zeroes, options, requests]
  client,         \* per connection: where the client is, and what it was told
  inbox, outbox,  \* per connection: tokens to the server, and from it
  server,         \* per connection: where the task is
  writing,        \* per connection: tokens the task is writing to its socket
  disk, durable,  \* the device
  faults

vars == <<program, client, inbox, outbox, server, writing, disk, durable, faults>>

Units == 0 .. device_size - 1

-----------------------------------------------------------------------------
(* Tokens. *)

Header(h, r) == [kind |-> "header", handle |-> h, request |-> r]
Data(bytes) == [k \in DOMAIN bytes |-> [kind |-> "data", value |-> bytes[k]]]
Reply(error, h) == [kind |-> "reply", error |-> error, handle |-> h]
OptionReply(reply) == [kind |-> "option reply", reply |-> reply]
Plain(kind) == [kind |-> kind]

\* What a client writes once it has negotiated; handles are 1, 2, ...
Stream(requests) ==
  FlattenSeq([h \in DOMAIN requests |->
                <<Header(h, requests[h])>> \o Data(requests[h].bytes)])

\* How many of those tokens belong to the first h requests.
StreamTo(requests, h) == Len(Stream(SubSeq(requests, 1, h)))

-----------------------------------------------------------------------------
(* The client, as the documented nbd-client and the tests of server.rs do. *)

NewClient ==
  [phase |-> "greeting", options |-> 0, sent |-> 0, due |-> 0, answers |-> <<>>]

NewServer == [phase |-> "accept", request |-> 0, handle |-> 0, got |-> <<>>]

Init ==
  /\ program \in Clients
  /\ client = [c \in Connections |-> NewClient]
  /\ inbox = [c \in Connections |-> <<>>]
  /\ outbox = [c \in Connections |-> <<>>]
  /\ server = [c \in Connections |-> NewServer]
  /\ writing = [c \in Connections |-> <<>>]
  /\ disk = [u \in Units |-> 0]
  /\ durable = [u \in Units |-> 0]
  /\ faults = Faults

\* The client writes one token, if the socket has room.
Write(c, token) ==
  /\ Len(inbox[c]) < Buffer
  /\ inbox' = [inbox EXCEPT ![c] = Append(@, token)]

SendFlags(c) ==
  /\ client[c].phase = "flags"
  /\ Write(c, Plain("flags"))
  /\ client' = [client EXCEPT ![c].phase = "option"]
  /\ UNCHANGED <<program, outbox, server, writing, disk, durable, faults>>

SendOption(c) ==
  LET n == client[c].options + 1
  IN  /\ client[c].phase = "option"
      /\ n <= Len(program[c].options)
      /\ Write(c, [kind |-> "option", body |-> program[c].options[n]])
      /\ client' = [client EXCEPT ![c].options = n, ![c].phase = "asked"]
      /\ UNCHANGED <<program, outbox, server, writing, disk, durable, faults>>

SendRequest(c) ==
  LET n == client[c].sent + 1
      stream == Stream(program[c].requests)
  IN  /\ client[c].phase = "ready"
      /\ n <= Len(stream)
      /\ Write(c, stream[n])
      /\ client' = [client EXCEPT ![c].sent = n]
      /\ UNCHANGED <<program, outbox, server, writing, disk, durable, faults>>

\* The client closes its socket, wherever it is.
HangUp(c) ==
  /\ client[c].phase # "gone"
  /\ client' = [client EXCEPT ![c].phase = "gone"]
  /\ UNCHANGED <<program, inbox, outbox, server, writing, disk, durable, faults>>

\* What the client in state k, running p, makes of token t.
Understood(k, p, t) ==
  LET h == Len(k.answers) + 1
      Now(phase) == [k EXCEPT !.phase = phase]
      WithAnswer(a, due) == [k EXCEPT !.answers = a, !.due = due]
  IN  CASE k.phase = "greeting" /\ t.kind = "greeting" -> Now("flags")
        [] k.phase = "asked" /\ t.kind = "option reply" ->
             CASE t.reply = "INFO" -> k
               [] t.reply = "ACK" -> Now("ready")
               [] OTHER -> Now("option")
        [] k.phase = "asked" /\ t.kind = "info" ->
             Now(IF p.no_zeroes THEN "ready" ELSE "zeroes")
        [] k.phase = "zeroes" /\ t.kind = "zeroes" -> Now("ready")
        [] k.phase = "ready" /\ k.due = 0 /\ t.kind = "reply" /\ t.handle = h ->
             WithAnswer(Append(k.answers, [error |-> t.error, data |-> <<>>]),
                        IF t.error = "OK" /\ p.requests[h].command = "READ"
                        THEN p.requests[h].length ELSE 0)
        [] k.phase = "ready" /\ k.due > 0 /\ t.kind = "data" ->
             WithAnswer([k.answers EXCEPT ![h - 1].data = Append(@, t.value)], k.due - 1)
        [] OTHER -> Now("confused")

Receive(c) ==
  /\ client[c].phase # "gone"
  /\ outbox[c] # <<>>
  /\ client' = [client EXCEPT ![c] = Understood(@, program[c], Head(outbox[c]))]
  /\ outbox' = [outbox EXCEPT ![c] = Tail(@)]
  /\ UNCHANGED <<program, inbox, server, writing, disk, durable, faults>>

-----------------------------------------------------------------------------
(* The task of a connection: reading and writing its socket. *)

Reads(c, phase) == server[c].phase = phase /\ writing[c] = <<>>

Take(c) == inbox[c] # <<>> /\ inbox' = [inbox EXCEPT ![c] = Tail(@)]

AtEof(c) == inbox[c] = <<>> /\ client[c].phase = "gone"

Goes(c, phase) == server' = [server EXCEPT ![c].phase = phase]

Says(c, tokens) == writing' = [writing EXCEPT ![c] = tokens]

\* handle_client returns: Ok, or an error that serve logs.
Ends(c, how) == Goes(c, how) /\ Says(c, <<>>)

Ended(c) == server[c].phase \in {"ok", "error"}

\* One token of what the task writes gets into the socket, which the client may have
\* closed.
Drain(c) ==
  /\ writing[c] # <<>>
  /\ \/ /\ client[c].phase = "gone"
        /\ Ends(c, "error")
        /\ UNCHANGED outbox
     \/ /\ Len(outbox[c]) < Buffer
        /\ outbox' = [outbox EXCEPT ![c] = Append(@, Head(writing[c]))]
        /\ writing' = [writing EXCEPT ![c] = Tail(@)]
        /\ UNCHANGED server
  /\ UNCHANGED <<program, client, inbox, disk, durable, faults>>

\* serve: accept; then the greeting.
Accept(c) ==
  /\ server[c].phase = "accept"
  /\ Goes(c, "flags")
  /\ Says(c, <<Plain("greeting")>>)
  /\ UNCHANGED <<program, client, inbox, outbox, disk, durable, faults>>

\* The client's flags are read and dropped.
ReadFlags(c) ==
  /\ Reads(c, "flags")
  /\ Take(c)
  /\ Goes(c, "options")
  /\ UNCHANGED <<program, client, outbox, writing, disk, durable, faults>>

Exported(name) == name \in {"", export_name}

\* One round of the loop of negotiate; "malformed" stands for data that
\* parse_go_export_name refuses.
ReadOption(c) ==
  LET o == Head(inbox[c]).body
  IN  /\ Reads(c, "options")
      /\ Take(c)
      /\ \/ /\ \/ ~o.magic
               \/ o.magic /\ o.option = "ABORT"
               \/ o.magic /\ o.option = "EXPORT_NAME" /\ ~Exported(o.data)
            /\ Ends(c, "error")
         \/ /\ o.magic /\ o.option = "EXPORT_NAME" /\ Exported(o.data)
            /\ Goes(c, "request")
            /\ Says(c, <<Plain("info"), Plain("zeroes")>>)
         \/ /\ o.magic /\ o.option = "GO" /\ Exported(o.data)
            /\ Goes(c, "request")
            /\ Says(c, <<OptionReply("INFO"), OptionReply("ACK")>>)
         \/ /\ o.magic /\ o.option = "GO" /\ ~Exported(o.data)
            /\ Goes(c, "options")
            /\ Says(c, <<OptionReply("ERR_INVALID")>>)
         \/ /\ o.magic /\ o.option \notin {"EXPORT_NAME", "GO", "ABORT"}
            /\ Goes(c, "options")
            /\ Says(c, <<OptionReply("ERR_UNSUP")>>)
      /\ UNCHANGED <<program, client, outbox, disk, durable, faults>>

-----------------------------------------------------------------------------
(* The request loop.  Its semaphore has a permit for the one request there is. *)

\* Mutant: the sum may wrap.
bounds_wrap(offset, len) == (offset + len) % MAX <= device_size

bounds_ok(offset, len) == offset + len < MAX /\ offset + len <= device_size

\* Request::read_from.  The payload of a write, should it be refused, is discarded.
ReadRequest(c) ==
  LET t == Head(inbox[c])
      r == t.request
      Serves(phase) ==
        server' = [server EXCEPT ![c] = [phase |-> phase, request |-> r, handle |-> t.handle,
                                         got |-> <<>>]]
  IN  /\ Reads(c, "request")
      /\ Take(c)
      /\ \/ /\ t.kind # "header" \/ ~r.magic
            /\ Ends(c, "error")
         \/ /\ t.kind = "header" /\ r.magic
            /\ \/ r.command # "WRITE" /\ Serves("run")
               \/ r.command = "WRITE" /\ bounds_ok(r.offset, r.length) /\ Serves("payload")
               \/ r.command = "WRITE" /\ ~bounds_ok(r.offset, r.length) /\ Serves("discard")
            /\ UNCHANGED writing
      /\ UNCHANGED <<program, client, outbox, disk, durable, faults>>

\* Mutant: it may read one unit too many.
TakeOneMore(c) ==
  LET t == Head(inbox[c])
  IN  /\ server[c].phase \in {"payload", "discard"}
      /\ Len(server[c].got) <= server[c].request.length
      /\ Take(c)
      /\ server' = [server EXCEPT
                     ![c].got = Append(@, IF t.kind = "data" THEN t.value ELSE 0)]
      /\ UNCHANGED <<program, client, outbox, writing, disk, durable, faults>>

\* read_exact and discard_payload, unit by unit.
TakeData(c) ==
  LET t == Head(inbox[c])
  IN  /\ server[c].phase \in {"payload", "discard"}
      /\ Len(server[c].got) < server[c].request.length
      /\ Take(c)
      /\ server' = [server EXCEPT
                     ![c].got = Append(@, IF t.kind = "data" THEN t.value ELSE 0)]
      /\ UNCHANGED <<program, client, outbox, writing, disk, durable, faults>>

\* The stream ends: quietly between requests, with an error elsewhere.
Eof(c) ==
  /\ AtEof(c)
  /\ \/ Reads(c, "request") /\ Ends(c, "ok")
     \/ (Reads(c, "flags") \/ Reads(c, "options")) /\ Ends(c, "error")
     \/ /\ server[c].phase \in {"payload", "discard"}
        /\ Len(server[c].got) < server[c].request.length
        /\ Ends(c, "error")
  /\ UNCHANGED <<program, client, inbox, outbox, disk, durable, faults>>

\* The request has been read in full.
Runs(c, command) ==
  /\ server[c].phase \in {"run", "payload", "discard"}
  /\ server[c].request.command = command
  /\ command = "WRITE" => Len(server[c].got) = server[c].request.length

Answers(c, error, data) ==
  /\ Goes(c, "request")
  /\ Says(c, <<Reply(error, server[c].handle)>> \o Data(data))

\* read_at and write_at of the device check the range once more, with a sum that wraps;
\* locate then refuses what is not on the device.
InDevice(r) == (r.offset + r.length) % MAX <= device_size /\ (r.length > 0 => r.offset < device_size)

\* Mutant: the refusal is followed by data nonetheless.
ReadRefusedWithData(c) ==
  LET r == server[c].request
  IN  /\ Runs(c, "READ")
      /\ \/ /\ ~bounds_ok(r.offset, r.length)
            /\ Answers(c, "ERR_INVALID", [k \in 1 .. r.length |-> 0])
         \/ /\ bounds_ok(r.offset, r.length) /\ InDevice(r)
            /\ Answers(c, "OK", [k \in 1 .. r.length |-> disk[r.offset + k - 1]])
      /\ UNCHANGED <<program, client, inbox, outbox, disk, durable, faults>>

ServeRead(c) ==
  LET r == server[c].request
  IN  /\ Runs(c, "READ")
      /\ \/ ~bounds_ok(r.offset, r.length) /\ Answers(c, "ERR_INVALID", <<>>)
         \/ /\ bounds_ok(r.offset, r.length) /\ InDevice(r)
            /\ Answers(c, "OK", [k \in 1 .. r.length |-> disk[r.offset + k - 1]])
      /\ UNCHANGED <<program, client, inbox, outbox, disk, durable, faults>>

\* Mutant: the last unit is left out.
OverlayShort(r, bytes, n) ==
  [u \in Units |-> IF r.offset <= u /\ u < r.offset + n - 1
                   THEN bytes[u - r.offset + 1] ELSE disk[u]]

\* Mutant: the units around the write are not kept.
OverlayAlone(r, bytes, n) ==
  [u \in Units |-> IF r.offset <= u /\ u < r.offset + n THEN bytes[u - r.offset + 1] ELSE 0]

\* The device after the first n units of a write.
Overlay(r, bytes, n) ==
  [u \in Units |-> IF r.offset <= u /\ u < r.offset + n
                   THEN bytes[u - r.offset + 1] ELSE disk[u]]

ServeWrite(c) ==
  LET r == server[c].request
  IN  /\ Runs(c, "WRITE")
      /\ \/ server[c].phase = "discard" /\ Answers(c, "ERR_INVALID", <<>>) /\ UNCHANGED disk
         \/ /\ server[c].phase = "payload" /\ InDevice(r)
            /\ disk' = Overlay(r, server[c].got, r.length)
            /\ Answers(c, "OK", <<>>)
      /\ UNCHANGED <<program, client, inbox, outbox, durable, faults>>

ServeFlush(c) ==
  /\ Runs(c, "FLUSH")
  /\ durable' = disk
  /\ Answers(c, "OK", <<>>)
  /\ UNCHANGED <<program, client, inbox, outbox, disk, faults>>

\* Mutant: the connection is closed without a flush.
DiscUnflushed(c) ==
  /\ Runs(c, "DISC")
  /\ Ends(c, "ok")
  /\ UNCHANGED <<program, client, inbox, outbox, disk, durable, faults>>

ServeDisc(c) ==
  /\ Runs(c, "DISC")
  /\ durable' = disk
  /\ Ends(c, "ok")
  /\ UNCHANGED <<program, client, inbox, outbox, disk, faults>>

\* TRIM and WRITE_ZEROES, which transmission_flags announces, and unknown commands.
ServeUnsupported(c) ==
  /\ server[c].phase = "run"
  /\ server[c].request.command \notin {"READ", "WRITE", "FLUSH", "DISC"}
  /\ Answers(c, "ERR_UNSUPPORTED", <<>>)
  /\ UNCHANGED <<program, client, inbox, outbox, disk, durable, faults>>

\* An error of the device closes the connection; there is no reply.  A write may have
\* been done in part, and a flush in full.
DeviceFails(c) ==
  LET r == server[c].request
  IN  /\ \/ Runs(c, "READ") /\ bounds_ok(r.offset, r.length)
         \/ Runs(c, "WRITE") /\ server[c].phase = "payload"
         \/ Runs(c, "FLUSH") \/ Runs(c, "DISC")
      /\ \/ faults > 0 /\ faults' = faults - 1
         \/ r.command \in {"READ", "WRITE"} /\ ~InDevice(r) /\ UNCHANGED faults
      /\ IF r.command = "WRITE"
         THEN \E n \in 0 .. r.length : disk' = Overlay(r, server[c].got, n)
         ELSE UNCHANGED disk
      /\ IF r.command \in {"FLUSH", "DISC"} THEN durable' \in {durable, disk} ELSE UNCHANGED durable
      /\ Ends(c, "error")
      /\ UNCHANGED <<program, client, inbox, outbox>>

-----------------------------------------------------------------------------
Server(c) ==
  \/ Drain(c) \/ Accept(c) \/ ReadFlags(c) \/ ReadOption(c) \/ ReadRequest(c) \/ TakeData(c)
  \/ Eof(c) \/ ServeRead(c) \/ ServeWrite(c) \/ ServeFlush(c) \/ ServeDisc(c)
  \/ ServeUnsupported(c) \/ DeviceFails(c)

Client(c) == SendFlags(c) \/ SendOption(c) \/ SendRequest(c) \/ Receive(c) \/ HangUp(c)

Next == \E c \in Connections : Server(c) \/ Client(c)

Spec == Init /\ [][Next]_vars

\* The runtime runs every task that can go on, and a client goes on reading what it is
\* sent, as the kernel's does; it need not go on sending.
Fairness == \A c \in Connections : WF_vars(Server(c)) /\ WF_vars(Receive(c))

FairSpec == Spec /\ Fairness

-----------------------------------------------------------------------------
(* Properties. *)

NbdTypeOK ==
  /\ \A c \in Connections :
       /\ client[c].due \in Nat /\ client[c].sent \in Nat
       /\ Len(inbox[c]) <= Buffer /\ Len(outbox[c]) <= Buffer
       /\ server[c].phase \in {"accept", "flags", "options", "request", "payload", "discard",
                               "run", "ok", "error"}
       /\ server[c].phase = "payload" => Len(server[c].got) <= server[c].request.length
  /\ disk \in [Units -> Value] /\ durable \in [Units -> Value]
  /\ faults \in 0 .. Faults

\* A client that keeps to the protocol, with the zeroes after the export information
\* that the server always sends.
Keeps(p) ==
  /\ \A k \in DOMAIN p.options : p.options[k].magic
  /\ \A h \in DOMAIN p.requests : p.requests[h].magic
  /\ p.no_zeroes => \A k \in DOMAIN p.options : p.options[k].option # "EXPORT_NAME"

Refused(p) ==
  \E k \in DOMAIN p.options :
    \/ p.options[k].option = "ABORT"
    \/ p.options[k].option = "EXPORT_NAME" /\ ~Exported(p.options[k].data)

\* Whatever the client pipelines, refused writes and unsupported commands included, the
\* two ends stay in step: the client meets only the replies it waits for, in order and
\* with the data they announce.
InStep == \A c \in Connections : Keeps(program[c]) => client[c].phase # "confused"

\* The server drops no client that keeps to the protocol unless the device fails: no
\* offset or length it can send, up to the end of the 64 bits, does it.
NotDropped ==
  \A c \in Connections :
    server[c].phase = "error" =>
      \/ ~Keeps(program[c]) \/ Refused(program[c])
      \/ client[c].phase = "gone" \/ faults < Faults

Valid(r) == r.command \in {"READ", "WRITE"} /\ r.offset + r.length <= device_size

Writes(r, u) ==
  r.command = "WRITE" /\ Valid(r) /\ r.offset <= u /\ u < r.offset + r.length

WrittenBy(p) == {u \in Units : \E h \in DOMAIN p.requests : Writes(p.requests[h], u)}

\* The units that no other client writes.
Own(c) == Units \ UNION {WrittenBy(program[d]) : d \in Connections \ {c}}

\* What a unit holds after the first h of a client's requests, executed one by one.
UnitAfter(requests, h, u) ==
  LET writes == {j \in 1 .. h : Writes(requests[j], u)}
  IN  IF writes = {} THEN 0 ELSE LET r == requests[Max(writes)] IN r.bytes[u - r.offset + 1]

Outcome(r) ==
  CASE r.command \in {"READ", "WRITE"} -> IF Valid(r) THEN "OK" ELSE "ERR_INVALID"
    [] r.command = "FLUSH" -> "OK"
    [] OTHER -> "ERR_UNSUPPORTED"

\* A client is told what executing its requests one by one, in the order it sent them,
\* would have told it, however far it ran ahead of the replies.
AnswersSequential ==
  \A c \in Connections : Keeps(program[c]) =>
    \A h \in DOMAIN client[c].answers :
      LET r == program[c].requests[h]
          a == client[c].answers[h]
      IN  /\ a.error = Outcome(r)
          /\ \A k \in DOMAIN a.data :
               r.offset + k - 1 \in Own(c) =>
                 a.data[k] = UnitAfter(program[c].requests, h, r.offset + k - 1)

\* Units that the requests of c after the first h leave alone.
SettledAfter(c, h) ==
  {u \in Own(c) : \A j \in DOMAIN program[c].requests :
                    j > h => ~Writes(program[c].requests[j], u)}

\* Once a FLUSH is answered, or a DISC has ended the connection, the writes before it
\* are durable.
FlushedDurable ==
  \A c \in Connections : \A h \in DOMAIN program[c].requests :
    \/ /\ program[c].requests[h].command = "FLUSH"
       /\ h \in DOMAIN client[c].answers
    \/ /\ program[c].requests[h].command = "DISC"
       /\ server[c].phase = "ok" /\ server[c].handle = h
    => \A u \in SettledAfter(c, h) : durable[u] = UnitAfter(program[c].requests, h, u)

Programs == {p[c] : p \in Clients, c \in Connections}

Disk == INSTANCE AbstractDisk WITH
          WriteRequests <- UNION {{r \in Range(p.requests) : r.command = "WRITE"} : p \in Programs}

\* The connections together do to the device what AbstractDisk allows: it changes by a
\* write some client sent, or part of one, and never by bytes of another message.
ServesDisk == Disk!Init /\ [][Disk!Write \/ Disk!Sync]_<<disk, durable>>

\* Every request the client has sent in full, and every option, is answered in the end
\* or the connection ends: the task never waits for bytes that are not to come, and
\* full sockets in both directions do not block each other.
Answered ==
  \A c \in Connections :
    /\ \A h \in 1 .. Max({Len(p.requests) : p \in Programs}) :
         (h \in DOMAIN program[c].requests /\ client[c].sent >= StreamTo(program[c].requests, h))
           ~> (Len(client[c].answers) >= h \/ Ended(c) \/ client[c].phase \in {"gone", "confused"})
    /\ client[c].phase = "asked" ~> (client[c].phase # "asked" \/ Ended(c))
=============================================================================
