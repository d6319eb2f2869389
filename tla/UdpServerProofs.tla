-------------------------- MODULE UdpServerProofs --------------------------
(***************************************************************************)
(* The types of UdpServer, its refinement of RequestQueue and the requests *)
(* that cannot end it, for every set of datagrams and every size of the    *)
(* socket's buffer.                                                        *)
(***************************************************************************)
EXTENDS UdpServer, WireProofs

Messages == Datagrams \cup {ReadError}
Places == {<<>>} \cup {<<m>> : m \in Messages}

(* A read error is no datagram. *)
LEMMA ErrorIsNoDatagram == ReadError \notin Datagrams
  BY FieldAssumption DEF ReadError, Datagram

LEMMA NothingIsQueue == <<>> \in Seq(Datagrams) /\ Len(<<>>) = 0
  OBVIOUS

(* What a place holds, as a queue. *)
LEMMA TakenIsQueue ==
    ASSUME NEW place \in Places PROVE Taken(place) \in Seq(Datagrams)
<1>1. CASE place = <<>> \/ place = <<ReadError>>
  BY <1>1, NothingIsQueue DEF Taken
<1>2. ASSUME NEW d \in Datagrams, place = <<d>> PROVE Taken(place) \in Seq(Datagrams)
  BY <1>2, NothingIsQueue DEF Taken
<1> QED
  BY <1>1, <1>2 DEF Places, Messages

LEMMA TakenDatagram ==
    ASSUME NEW d \in Datagrams PROVE Taken(<<d>>) = <<d>>
  BY ErrorIsNoDatagram DEF Taken

LEMMA TakenNothing == Taken(<<>>) = <<>> /\ Taken(<<ReadError>>) = <<>>
  BY DEF Taken

(* A read error is not answered and ends nothing. *)
LEMMA ErrorIsSilent == Outcomes(ReadError) = {"silent"}
  BY DEF Outcomes, ReadError

LEMMA OutcomeTypes ==
    ASSUME NEW m, NEW outcome \in Outcomes(m) PROVE outcome \in {"answer", "silent", "panic"}
  BY DEF Outcomes

-----------------------------------------------------------------------------
LEMMA TypeInit == Init => ServerTypeOK
<1> SUFFICES ASSUME Init PROVE ServerTypeOK
  OBVIOUS
<1>1. socket \in Seq(Datagrams) /\ Len(socket) <= RcvBuf
  BY NothingIsQueue, BufferAssumption DEF Init
<1>2. /\ offer = <<>> /\ inHand = <<>> /\ main = "select"
      /\ signal \in BOOLEAN /\ answered = NoAnswer
  BY DEF Init
<1> QED
  BY <1>1, <1>2 DEF ServerTypeOK

LEMMA TypeStep == ServerTypeOK /\ [Next]_vars => ServerTypeOK'
<1> SUFFICES ASSUME ServerTypeOK, [Next]_vars PROVE ServerTypeOK'
  OBVIOUS
<1> USE DEF ServerTypeOK
<1>1. ASSUME NEW d \in Datagrams, Arrive(d) PROVE ServerTypeOK'
  BY <1>1, BufferAssumption DEF Arrive, Quiet
<1>2. CASE Read
  <2>1. Head(socket) \in Datagrams /\ Tail(socket) \in Seq(Datagrams)
        /\ Len(Tail(socket)) <= RcvBuf
    BY <1>2, BufferAssumption DEF Read
  <2> QED
    BY <1>2, <2>1 DEF Read, Quiet
<1>3. CASE ReadFails
  BY <1>3 DEF ReadFails, Quiet
<1>4. CASE Receive
  BY <1>4 DEF Receive, Quiet
<1>5. CASE Handle
  <2>1. PICK m \in Messages : inHand = <<m>>
    BY <1>5 DEF Handle, Messages
  <2>2. PICK outcome \in Outcomes(m) :
          /\ main' = IF outcome = "panic" THEN "dead" ELSE "select"
          /\ answered' = IF outcome = "answer" THEN m ELSE NoAnswer
    BY <1>5, <2>1 DEF Handle
  <2>3. m = ReadError => outcome = "silent"
    BY <2>2, ErrorIsSilent
  <2> QED
    BY <1>5, <2>1, <2>2, <2>3 DEF Handle, Messages
<1>6. CASE CheckSignal
  BY <1>6, BufferAssumption DEF CheckSignal, Quiet
<1>7. CASE Kill
  BY <1>7 DEF Kill, Quiet
<1>8. CASE UNCHANGED vars
  BY <1>8 DEF vars
<1> QED
  BY <1>1, <1>2, <1>3, <1>4, <1>5, <1>6, <1>7, <1>8 DEF Next

(* Offers and the message in hand are never two, and a message is in hand
   just while it is handled (Ipmigod). *)
THEOREM TypeCorrect == Spec => []ServerTypeOK
  BY TypeInit, TypeStep, PTL DEF Spec

-----------------------------------------------------------------------------
(* The steps of the server as steps of the queue. *)
LEMMA ArriveRefines ==
    ASSUME ServerTypeOK, NEW d \in Datagrams, Arrive(d) PROVE Queue!TakeOn(d)
<1>1. Taken(inHand) \in Seq(Datagrams) /\ Taken(offer) \in Seq(Datagrams)
  BY TakenIsQueue DEF ServerTypeOK, Places, Messages
<1>2. Taken(inHand) \o Taken(offer) \in Seq(Datagrams) /\ socket \in Seq(Datagrams)
  BY <1>1 DEF ServerTypeOK
<1>3. ASSUME NEW q \in Seq(Datagrams), NEW r \in Seq(Datagrams)
      PROVE  q \o Append(r, d) = Append(q \o r, d)
  OBVIOUS
<1>4. ~Ended /\ ~Ended'
  BY DEF Arrive, Ended
<1>5. Waiting' = Append(Waiting, d)
  BY <1>2, <1>3, <1>4 DEF Arrive, Waiting, Taken
<1> QED
  BY <1>4, <1>5 DEF Queue!TakeOn, Arrive, Quiet, Ended

LEMMA ReadRefines == ASSUME ServerTypeOK, Read PROVE Queue!Rest
<1>1. Taken(inHand) \in Seq(Datagrams)
  BY TakenIsQueue DEF ServerTypeOK, Places, Messages
<1>2. /\ Head(socket) \in Datagrams /\ Tail(socket) \in Seq(Datagrams)
      /\ socket \in Seq(Datagrams) /\ <<Head(socket)>> \o Tail(socket) = socket
  BY DEF Read, ServerTypeOK
<1>3. Taken(offer) = <<>> /\ Taken(offer') = <<Head(socket)>>
  BY <1>2, TakenNothing, TakenDatagram DEF Read
<1>4. ASSUME NEW q \in Seq(Datagrams), NEW r \in Seq(Datagrams), NEW h \in Datagrams
      PROVE  (q \o <<h>>) \o r = q \o (<<h>> \o r) /\ (q \o <<>>) \o r = q \o r
  OBVIOUS
<1>5. (Taken(inHand) \o <<Head(socket)>>) \o Tail(socket) = (Taken(inHand) \o <<>>) \o socket
  BY <1>1, <1>2, <1>4
<1>6. Waiting' = Waiting
  BY <1>3, <1>5 DEF Read, Waiting, Taken, Ended
<1> QED
  BY <1>6 DEF Queue!Rest, Read, Quiet, Ended

LEMMA ReadFailsRefines == ASSUME ServerTypeOK, ReadFails PROVE Queue!Rest
  BY TakenNothing DEF ReadFails, Waiting, Taken, Ended, Queue!Rest, Quiet

LEMMA ReceiveRefines == ASSUME ServerTypeOK, Receive PROVE Queue!Rest
<1>1. inHand = <<>> /\ inHand' = offer /\ offer' = <<>> /\ UNCHANGED socket
  BY DEF Receive, ServerTypeOK
<1>2. Taken(offer) \in Seq(Datagrams) /\ Taken(<<>>) = <<>>
  BY TakenIsQueue, TakenNothing DEF ServerTypeOK, Places, Messages
<1>3. Taken(offer) \o <<>> = <<>> \o Taken(offer)
  BY <1>2
<1>4. ~Ended /\ ~Ended'
  BY DEF Receive, Ended
<1>5. Waiting' = Waiting
  BY <1>1, <1>2, <1>3, <1>4 DEF Waiting, Taken
<1> QED
  BY <1>4, <1>5 DEF Queue!Rest, Receive, Quiet

LEMMA HandleRefines ==
    ASSUME ServerTypeOK, Handle PROVE Queue!Serve \/ Queue!Rest \/ Queue!End
<1>1. PICK m \in Messages : inHand = <<m>>
  BY DEF Handle, ServerTypeOK, Messages
<1>2. PICK outcome \in Outcomes(m) :
        /\ main' = IF outcome = "panic" THEN "dead" ELSE "select"
        /\ answered' = IF outcome = "answer" THEN m ELSE NoAnswer
  BY <1>1 DEF Handle
<1>3. ~Ended /\ inHand' = <<>> /\ UNCHANGED <<offer, socket>>
  BY DEF Handle, Ended
<1>4. Taken(offer) \in Seq(Datagrams) /\ socket \in Seq(Datagrams)
  BY TakenIsQueue DEF ServerTypeOK, Places, Messages
<1>5. CASE m = ReadError
  <2>1. outcome = "silent" /\ ~Ended' /\ answered' = NoAnswer
    BY <1>2, <1>5, ErrorIsSilent DEF Ended
  <2>2. Waiting' = Waiting
    BY <1>1, <1>3, <1>5, <2>1, TakenNothing DEF Waiting, Taken
  <2> QED
    BY <1>3, <2>1, <2>2 DEF Queue!Rest
<1>6. CASE m # ReadError /\ outcome = "panic"
  <2>1. Ended' /\ Waiting' = <<>> /\ answered' = NoAnswer
    BY <1>2, <1>6 DEF Ended, Waiting
  <2> QED
    BY <2>1 DEF Queue!End
<1>7. CASE m # ReadError /\ outcome # "panic"
  <2>1. m \in Datagrams /\ Taken(<<m>>) = <<m>>
    BY <1>7, TakenDatagram DEF Messages
  <2>2. ~Ended' /\ answered' \in {NoAnswer, m}
    BY <1>2, <1>7 DEF Ended
  <2>3. ASSUME NEW q \in Seq(Datagrams), NEW r \in Seq(Datagrams)
        PROVE  /\ Head((<<m>> \o q) \o r) = m /\ (<<m>> \o q) \o r # <<>>
               /\ Tail((<<m>> \o q) \o r) = (<<>> \o q) \o r
    BY <2>1
  <2>4. Waiting = (<<m>> \o Taken(offer)) \o socket
    BY <1>1, <1>3, <2>1 DEF Waiting
  <2>5. Waiting' = (<<>> \o Taken(offer)) \o socket
    BY <1>3, <2>2, TakenNothing DEF Waiting, Taken
  <2> QED
    BY <1>3, <1>4, <2>2, <2>3, <2>4, <2>5 DEF Queue!Serve
<1> QED
  BY <1>5, <1>6, <1>7

LEMMA StepRefines == ServerTypeOK /\ [Next]_vars => [Queue!Next]_<<Waiting, answered, ~Ended>>
<1> SUFFICES ASSUME ServerTypeOK, [Next]_vars
             PROVE  [Queue!Next]_<<Waiting, answered, ~Ended>>
  OBVIOUS
<1>1. ASSUME NEW d \in Datagrams, Arrive(d) PROVE Queue!Next
  BY <1>1, ArriveRefines DEF Queue!Next
<1>2. CASE Read
  BY <1>2, ReadRefines DEF Queue!Next
<1>3. CASE ReadFails
  BY <1>3, ReadFailsRefines DEF Queue!Next
<1>4. CASE Receive
  BY <1>4, ReceiveRefines DEF Queue!Next
<1>5. CASE Handle
  BY <1>5, HandleRefines DEF Queue!Next
<1>6. CASE CheckSignal
  BY <1>6 DEF CheckSignal, Quiet, Ended, Waiting, Queue!End, Queue!Next
<1>7. CASE Kill
  BY <1>7 DEF Kill, Quiet, Ended, Waiting, Taken, Queue!Rest, Queue!Next
<1>8. CASE UNCHANGED vars
  BY <1>8 DEF vars, Waiting, Taken, Ended
<1> QED
  BY <1>1, <1>2, <1>3, <1>4, <1>5, <1>6, <1>7, <1>8 DEF Next

(* Two goroutines and a channel without a buffer implement one queue: whatever
   the kernel delivers, every datagram is handled once and in its turn
   (Ipmigod, ipmiHandleMsg). *)
THEOREM Implements == Spec => ImplementsQueue
<1>1. Init => Queue!Init
  BY DEF Init, Queue!Init, Waiting, Taken, Ended
<1> QED
  BY <1>1, TypeInit, TypeStep, StepRefines, PTL
     DEF Spec, ImplementsQueue, Queue!Spec, Queue!vars

-----------------------------------------------------------------------------
(* The bounds of Get SDR, Get SEL Entry and Add SDR hold for what a
   well-behaved client sends. *)
LEMMA SaneFits == ASSUME NEW d \in Datagrams, Sane(d) PROVE ~MayPanic(d)
<1>1. d.b4 \in Byte /\ d.b5 \in Byte
  BY FieldAssumption DEF Datagram, Byte
<1>2. ASSUME NEW length \in 1 .. SDR_BYTES, d.b4 < length, d.b4 + d.b5 <= 255
      PROVE  ~ReadFailsAt(d.b4, d.b5, length)
  BY <1>1, <1>2, ReadExact
<1>3. SEL_BYTES \in 1 .. SDR_BYTES
  BY DEF SEL_BYTES, SDR_BYTES
<1>4. ASSUME d.b4 + 5 <= 62 PROVE ~AddFails(d.b4)
  <2>1. d.b4 \in 0 .. 250 /\ AddedLength(d.b4) = d.b4 + 5
    BY <1>1, <1>4 DEF Byte, AddedLength, U8
  <2>2. ~(AddedLength(d.b4) > SDR_BYTES - 2)
    BY <2>1, <1>4 DEF SDR_BYTES
  <2> QED
    BY <2>1, <2>2, AddFits
<1> QED
  BY <1>2, <1>3, <1>4 DEF Sane, MayPanic

LEMMA SaneOutcome ==
    ASSUME NEW d \in Datagrams, Sane(d) PROVE "panic" \notin Outcomes(d)
  BY SaneFits DEF Outcomes, Sane

(* A client that reads inside eight bits, adds records of at most 62 bytes and
   sends the commands there are does not end the daemon (ipmiHandleMsg). *)
THEOREM SaneServed == Spec => SaneRequestsServed
<1>1. ASSUME ServerTypeOK, [Next]_vars, main = "handle", main' = "dead"
      PROVE  ~Sane(inHand[1])
  <2>1. Handle
    BY <1>1 DEF Next, vars, Arrive, Read, ReadFails, Receive, CheckSignal, Kill
  <2>2. PICK m \in Messages : inHand = <<m>>
    BY <1>1 DEF ServerTypeOK, Messages
  <2>3. "panic" \in Outcomes(m)
    BY <1>1, <2>1, <2>2 DEF Handle
  <2>4. m \in Datagrams
    BY <2>3, ErrorIsSilent DEF Messages
  <2> QED
    BY <2>2, <2>3, <2>4, SaneOutcome
<1>2. ServerTypeOK /\ [Next]_vars
         => [main = "handle" /\ main' = "dead" => ~Sane(inHand[1])]_vars
  BY <1>1
<1> QED
  BY <1>2, TypeInit, TypeStep, PTL DEF Spec, SaneRequestsServed
=============================================================================
