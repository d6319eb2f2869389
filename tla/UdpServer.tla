----------------------------- MODULE UdpServer -----------------------------
(***************************************************************************)
(* The daemon as a UDP server (Ipmigod, ipmi_proto.go): the socket, the    *)
(* goroutine that reads it, the unbuffered channel udpMessages, the main   *)
(* loop with its kill signal, the parser and the tables of handlers.       *)
(*                                                                         *)
(* A datagram is the fields the parser and the tables test, and the bytes  *)
(* of the command's data that indexes are computed from. What a handler    *)
(* does to sessions, records and events is in LanSession, SdrRepository    *)
(* and SelLog; here it answers, stays silent or panics.                    *)
(***************************************************************************)
EXTENDS Wire, Sequences

CONSTANTS
    Datagrams,  \* what clients send
    NoAnswer,   \* nothing was answered
    RcvBuf      \* datagrams the socket holds; the kernel drops what is more

ASSUME BufferAssumption == RcvBuf \in Nat \ {0}
ASSUME NoAnswerAssumption == NoAnswer \notin Datagrams

(* len: dataLen; class: byte 3; auth: byte 4, the authentication type; seq:
   the RMCP sequence number; ping: bytes 4 to 8 are those of an ASF presence
   ping; netfn and cmd: of the IPMI message; b4, b5 and b46: the bytes at
   these places of its data. *)
Datagram == [from : Nat, len : 0 .. 4000, class : 0 .. 255, auth : 0 .. 255, seq : 0 .. 255,
             ping : BOOLEAN, netfn : 0 .. 63, cmd : 0 .. 255,
             b4 : 0 .. 255, b5 : 0 .. 255, b46 : 0 .. 255]

ASSUME FieldAssumption == Datagrams \subseteq Datagram

VARIABLES
    socket,    \* datagrams in the socket's buffer, oldest first
    offer,     \* what the reader goroutine sends on udpMessages: 0 or 1 message
    inHand,    \* the message the main loop handles: 0 or 1
    main,      \* "select", "handle", "returned" or "dead"
    signal,    \* Signaled()
    answered   \* the datagram the last step answered, or NoAnswer

vars == <<socket, offer, inHand, main, signal, answered>>

(* A read that failed is sent on like a message, with length 0. *)
ReadError == [len |-> 0]

Ended == main \in {"returned", "dead"}

-----------------------------------------------------------------------------
(* The tables of handlers. *)
ASF == 6
IPMI == 7
RMCP_PLUS == 6

CHASSIS == 0
BRIDGE == 2
SENSOR_EVENT == 4
APP == 6
FIRMWARE == 8
STORAGE == 10
TRANSPORT == 12
GROUP_EXTENSION == 44
OEM_GROUP == 46

chassisProcessors == {0} \cup 2 .. 9
sensorProcessors == 0 .. 2 \cup 16 .. 23 \cup 32 .. 43 \cup 45 .. 47
appProcessors == 1 .. 8 \cup {34, 36, 37} \cup 46 .. 61 \cup 63 .. 80 \cup {82} \cup 84 .. 87
storageProcessors == 16 .. 18 \cup 32 .. 44 \cup 64 .. 73 \cup {90, 91}

(* The netfns of which every command ends in one line of output. *)
PrintingNetfns == {BRIDGE, FIRMWARE, TRANSPORT, GROUP_EXTENSION, OEM_GROUP}

netfuncProcessors == {CHASSIS, SENSOR_EVENT, APP, STORAGE} \cup PrintingNetfns

(* Handlers that do nothing, or print a line. *)
ChassisUnsupported == chassisProcessors
SensorUnsupported == sensorProcessors \ {45}
AppDeviceUnsupported == appProcessors \cap 1 .. 55
AppChannelUnsupported == appProcessors \cap 61 .. 87
AppUnsupported == AppDeviceUnsupported \cup AppChannelUnsupported
StorageUnsupported == storageProcessors \ {32, 34, 35, 36, 39, 64, 66, 67, 68, 71}

HasHandler(netfn, cmd) ==
    /\ netfn \in netfuncProcessors
    /\ netfn = CHASSIS => cmd \in chassisProcessors
    /\ netfn = SENSOR_EVENT => cmd \in sensorProcessors
    /\ netfn = APP => cmd \in appProcessors
    /\ netfn = STORAGE => cmd \in storageProcessors

Unsupported(netfn, cmd) ==
    \/ netfn \in PrintingNetfns
    \/ netfn = CHASSIS /\ cmd \in ChassisUnsupported
    \/ netfn = SENSOR_EVENT /\ cmd \in SensorUnsupported
    \/ netfn = APP /\ cmd \in AppUnsupported
    \/ netfn = STORAGE /\ cmd \in StorageUnsupported

(* Whether the parser gets to the IPMI message. Otherwise the fields of the
   new msgT stay 0, and so does its authtype, so that what follows is the
   handler of netfn 0 and command 0, for RMCP+ and ASF pings as well. *)
Parsed(d) == d.class = IPMI /\ d.auth # RMCP_PLUS /\ d.seq = 255

Netfn(d) == IF Parsed(d) THEN d.netfn ELSE 0
Cmd(d) == IF Parsed(d) THEN d.cmd ELSE 0

(* asfPing sends a pong, and the dispatch goes on after it. *)
IsPing(d) == d.class = ASF /\ d.len >= 12 /\ d.ping

Command(d, netfn, cmd) == Netfn(d) = netfn /\ Cmd(d) = cmd
CloseSession(d) == Command(d, APP, 60)
GetSdr(d) == Command(d, STORAGE, 35)
AddSdr(d) == Command(d, STORAGE, 36)
GetSelEntry(d) == Command(d, STORAGE, 67)

(* Panics of the handlers that are implemented: closeSession of a client
   without a session, the others by the bounds of a slice. *)
MayPanic(d) ==
    \/ CloseSession(d)
    \/ GetSdr(d) /\ \E length \in 1 .. SDR_BYTES :
                       d.b4 < length /\ ReadFailsAt(d.b4, d.b5, length)
    \/ GetSelEntry(d) /\ d.b4 < SEL_BYTES /\ ReadFailsAt(d.b4, d.b5, SEL_BYTES)
    \/ AddSdr(d) /\ d.b46 = 0 /\ AddFails(d.b4)

(* What ipmiHandleMsg may end in. Whether a handler that is implemented
   answers depends on the session. *)
Outcomes(d) ==
    IF d.len < 5 THEN {"silent"}
    ELSE IF ~HasHandler(Netfn(d), Cmd(d)) THEN {"panic"}
    ELSE IF IsPing(d) THEN {"answer"}
    ELSE IF Unsupported(Netfn(d), Cmd(d)) THEN {"silent"}
    ELSE {"answer", "silent"} \cup (IF MayPanic(d) THEN {"panic"} ELSE {})

-----------------------------------------------------------------------------
Init ==
    /\ socket = <<>> /\ offer = <<>> /\ inHand = <<>>
    /\ main = "select"
    /\ signal = FALSE
    /\ answered = NoAnswer

Quiet == answered' = NoAnswer

(* A datagram comes in; the kernel drops it when the buffer is full. *)
Arrive(d) ==
    /\ ~Ended /\ Len(socket) < RcvBuf
    /\ socket' = Append(socket, d)
    /\ Quiet /\ UNCHANGED <<offer, inHand, main, signal>>

(* Faulty: one msgT for all reads, so that a read writes into the message
   the main loop has in hand. *)
ReadIntoSameMsg ==
    /\ main # "dead" /\ offer = <<>> /\ socket # <<>>
    /\ offer' = <<Head(socket)>>
    /\ socket' = Tail(socket)
    /\ inHand' = IF inHand = <<>> THEN <<>> ELSE <<Head(socket)>>
    /\ Quiet /\ UNCHANGED <<main, signal>>

(* The reader goroutine: a new message for each datagram. *)
Read ==
    /\ main # "dead" /\ offer = <<>> /\ socket # <<>>
    /\ offer' = <<Head(socket)>>
    /\ socket' = Tail(socket)
    /\ Quiet /\ UNCHANGED <<inHand, main, signal>>

(* A read that fails, as every read does once the socket is closed. *)
ReadFails ==
    /\ main # "dead" /\ offer = <<>>
    /\ offer' = <<ReadError>>
    /\ Quiet /\ UNCHANGED <<socket, inHand, main, signal>>

(* Faulty: the main loop looks for the signal and not for a message. *)
ReceiveUnlessSignalled ==
    /\ main = "select" /\ offer # <<>> /\ ~signal
    /\ inHand' = offer /\ offer' = <<>>
    /\ main' = "handle"
    /\ Quiet /\ UNCHANGED <<socket, signal>>

(* The channel is unbuffered: send and receive are one step. *)
Receive ==
    /\ main = "select" /\ offer # <<>>
    /\ inHand' = offer /\ offer' = <<>>
    /\ main' = "handle"
    /\ Quiet /\ UNCHANGED <<socket, signal>>

(* Faulty: a message that was answered is still the one in hand. *)
HandleUnanswered ==
    /\ main = "handle"
    /\ \E outcome \in Outcomes(inHand[1]) :
          /\ main' = IF outcome = "panic" THEN "dead" ELSE "select"
          /\ answered' = IF outcome = "answer" THEN inHand[1] ELSE NoAnswer
          /\ inHand' = IF outcome = "answer" THEN inHand ELSE <<>>
    /\ UNCHANGED <<socket, offer, signal>>

(* ipmiHandleMsg, to its end; a panic ends the process. *)
Handle ==
    /\ main = "handle"
    /\ \E outcome \in Outcomes(inHand[1]) :
          /\ main' = IF outcome = "panic" THEN "dead" ELSE "select"
          /\ answered' = IF outcome = "answer" THEN inHand[1] ELSE NoAnswer
    /\ inHand' = <<>>
    /\ UNCHANGED <<socket, offer, signal>>

(* Faulty: the select has no default case. *)
CheckSignalNever == FALSE /\ UNCHANGED vars

(* The default case of the select, taken only when no message is offered.
   The return closes the socket. *)
CheckSignal ==
    /\ main = "select" /\ offer = <<>> /\ signal
    /\ main' = "returned"
    /\ socket' = <<>>
    /\ Quiet /\ UNCHANGED <<offer, inHand, signal>>

(* The kill signal comes. *)
Kill ==
    /\ ~signal /\ signal' = TRUE
    /\ Quiet /\ UNCHANGED <<socket, offer, inHand, main>>

Next ==
    \/ \E d \in Datagrams : Arrive(d)
    \/ Read \/ ReadFails \/ Receive \/ Handle \/ CheckSignal \/ Kill

(* Both goroutines are scheduled. An error of the socket is reported once, so
   reads that fail do not keep those that succeed from happening for ever.
   Nothing is assumed of clients and of the signal. *)
Spec ==
    /\ Init /\ [][Next]_vars
    /\ SF_vars(Read) /\ WF_vars(Receive) /\ WF_vars(Handle) /\ WF_vars(CheckSignal)

-----------------------------------------------------------------------------
(* At most one message is offered and one in hand; the main loop has one in
   hand just while it handles it. *)
ServerTypeOK ==
    /\ socket \in Seq(Datagrams) /\ Len(socket) <= RcvBuf
    /\ offer \in {<<>>} \cup {<<m>> : m \in Datagrams \cup {ReadError}}
    /\ inHand \in {<<>>} \cup {<<m>> : m \in Datagrams \cup {ReadError}}
    /\ main \in {"select", "handle", "returned", "dead"}
    /\ signal \in BOOLEAN
    /\ answered \in Datagrams \cup {NoAnswer}
    /\ (main = "handle") <=> (inHand # <<>>)

(* The datagrams in the daemon, the oldest first. *)
Taken(place) == IF place = <<ReadError>> THEN <<>> ELSE place
Waiting == IF Ended THEN <<>> ELSE Taken(inHand) \o Taken(offer) \o socket

Queue == INSTANCE RequestQueue WITH waiting <- Waiting, running <- ~Ended

(* Two goroutines, a channel without a buffer and a message each: together
   they are a queue that handles every datagram once and in order, never
   answers one it was not sent, and forgets none but at its end. *)
ImplementsQueue == Queue!Spec

(* No datagram the socket took is left lying: neither failing reads nor a kill
   signal that came meanwhile keep it from being handled, unless the server
   ended before. *)
DatagramsServed ==
    \A d \in Datagrams :
        (\E i \in DOMAIN socket : socket[i] = d) ~> (inHand = <<d>> \/ Ended)

(* A request a well-behaved client sends: a command of the tables but Close
   Session, a read that ends within eight bits, wherever the record does, and
   a record of at most 62 bytes. *)
Sane(d) ==
    /\ HasHandler(Netfn(d), Cmd(d)) /\ ~CloseSession(d)
    /\ GetSdr(d) \/ GetSelEntry(d) => d.b4 + d.b5 <= 255
    /\ AddSdr(d) => d.b4 + 5 <= 62

(* No such request ends the daemon, whatever is in the repository and in the
   event log: a read that asks for more than is left is cut in time, and a
   record that is added fits. *)
SaneRequestsServed ==
    [][main = "handle" /\ main' = "dead" => ~Sane(inHand[1])]_vars

Incoming == ReadFails \/ \E d \in Datagrams : Arrive(d)

(* The kill signal ends the server once the datagrams stop. Only then: the
   signal is looked at when no message waits, so unbroken traffic, or a socket
   all of whose reads fail, puts the end off for ever. *)
StopsWhenQuiet == <>signal /\ <>[][~Incoming]_vars => <>Ended
=============================================================================
