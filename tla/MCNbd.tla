------------------------------- MODULE MCNbd --------------------------------
(* Small clients of the NBD server, for TLC. *)
EXTENDS NbdServer

NewRequest(command, offset, length, bytes) ==
  [magic |-> TRUE, command |-> command, offset |-> offset, length |-> length, bytes |-> bytes]

R(offset, length) == NewRequest("READ", offset, length, <<>>)
W(offset, bytes) == NewRequest("WRITE", offset, Len(bytes), bytes)
Sync == NewRequest("FLUSH", 0, 0, <<>>)
Disc == NewRequest("DISC", 0, 0, <<>>)
Trim(length) == NewRequest("TRIM", 0, length, <<>>)
Zero(length) == NewRequest("WRITE_ZEROES", 0, length, <<>>)
Junk == [Sync EXCEPT !.magic = FALSE]

NewOption(option, data) == [magic |-> TRUE, option |-> option, data |-> data]
Go == NewOption("GO", export_name)
Export == NewOption("EXPORT_NAME", export_name)

Program(no_zeroes, options, requests) ==
  [no_zeroes |-> no_zeroes, options |-> options, requests |-> requests]

Idle == Program(FALSE, <<>>, <<>>)

\* One client at a time: what it negotiates, what it pipelines.
MCOptions ==
  {<<Go>>, <<Export>>,
   <<NewOption("STRUCTURED_REPLY", ""), NewOption("GO", "malformed"), NewOption("GO", "other"), Go>>,
   <<NewOption("LIST", ""), NewOption("EXPORT_NAME", "")>>,
   <<NewOption("EXPORT_NAME", "other")>>, <<NewOption("ABORT", "")>>,
   <<[Go EXCEPT !.magic = FALSE]>>}

MCRequests ==
  {<<W(1, <<1, 1>>), R(0, 2), Sync, Disc>>,
   <<W(0, <<1>>), Sync, W(1, <<1, 1>>), Sync, R(0, 3)>>,
   <<Trim(2), Zero(1), W(0, <<1>>), R(0, 1)>>,
   <<R(MAX - 1, 2), W(MAX - 1, <<1, 1>>), W(device_size, <<1>>), R(device_size, 0), R(0, 2)>>,
   <<W(2, <<1, 1>>), W(0, <<1>>), Junk>>}

MCAlone == {[c \in Connections |-> IF c = 1 THEN Program(FALSE, <<Go>>, r) ELSE Idle] : r \in MCRequests}
           \cup {[c \in Connections |-> IF c = 1 THEN Program(FALSE, o, <<W(0, <<1>>), Disc>>)
                                        ELSE Idle] : o \in MCOptions}

\* Two clients, each with units of its own.
MCTogether ==
  {[c \in Connections |-> IF c = 1 THEN Program(TRUE, <<Go>>, <<W(0, <<1, 1>>), Sync>>)
                                   ELSE Program(FALSE, <<Export>>, <<W(2, <<1>>), Disc>>)]}

MCClients == MCAlone \cup MCTogether
=============================================================================
