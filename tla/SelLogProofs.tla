---------------------------- MODULE SelLogProofs ----------------------------
(***************************************************************************)
(* Proofs about SelLog and its client SelReader for a log of any size.     *)
(***************************************************************************)
EXTENDS SelReader, SequenceTheorems, TLAPS

(* The events in the slice: behind the blank entries of the last clear, or
   from its start when there was none. *)
Blanks == IF erased THEN MaxCount ELSE 0

(* The shape of the slice: blank entries, then the events with ids that end
   at the count. The count is the number of events ever logged, so it also
   gives the id of the next one. *)
Shape ==
    /\ Blanks <= Len(entries)
    /\ Len(entries) - Blanks <= count
    /\ ~erased => Len(entries) = count
    /\ nextEntry = count + 1
    /\ \A i \in 1 .. Len(entries) :
          entries[i] = IF i <= Blanks THEN 0 ELSE count - Len(entries) + i

(* The inductive invariant. *)
IInv == TypeOK /\ Shape

-----------------------------------------------------------------------------
(* What the invariant says of the values and their ranges. *)
LEMMA Facts ==
    ASSUME IInv
    PROVE  /\ Len(entries) \in Nat /\ DOMAIN entries = 1 .. Len(entries)
           /\ count \in Nat /\ count <= MaxCount /\ MaxCount \in Nat /\ Word \in Nat
           /\ MaxCount + 2 < Word /\ nextEntry = count + 1 /\ Blanks \in Nat
BY LogAssumption, LenProperties DEF IInv, TypeOK, Shape, Blanks

(* The search for an id never looks further than nextEntry. *)
LEMMA NoSearch ==
    ASSUME IInv, count < MaxCount
    PROVE  0 \in FreeDistances /\ FreshId = count + 1
<1>1. /\ Len(entries) \in Nat /\ DOMAIN entries = 1 .. Len(entries)
      /\ count \in Nat /\ MaxCount \in Nat /\ Word \in Nat
      /\ MaxCount + 2 < Word /\ nextEntry = count + 1 /\ Blanks \in Nat
  BY Facts
<1>2. (nextEntry + 0) % Word = count + 1
  BY <1>1
<1>3. ~Taken(count + 1)
  <2>1. count + 1 # LastId
    BY <1>1 DEF LastId
  <2>2. ASSUME NEW i \in DOMAIN entries PROVE entries[i] # count + 1
    <3>1. entries[i] = (IF i <= Blanks THEN 0 ELSE count - Len(entries) + i)
      BY <1>1 DEF IInv, Shape
    <3>2. i \in Nat /\ i <= Len(entries)
      BY <1>1
    <3>3. CASE i <= Blanks
      BY <1>1, <3>1, <3>3
    <3>4. CASE i > Blanks
      BY <1>1, <3>1, <3>2, <3>4
    <3>5. i <= Blanks \/ i > Blanks
      BY <1>1, <3>2
    <3> QED
      BY <3>3, <3>4, <3>5, Zenon
  <2> QED
    BY <2>1, <2>2 DEF Taken
<1>4. 0 \in FreeDistances
  BY <1>1, <1>2, <1>3 DEF FreeDistances
<1>5. Min(FreeDistances) = 0
  <2>1. FreeDistances \subseteq Nat
    BY <1>1 DEF FreeDistances
  <2>2. \A y \in FreeDistances : 0 <= y
    BY <2>1
  <2>3. \A x \in FreeDistances : (\A y \in FreeDistances : x <= y) => x = 0
    BY <1>4, <2>1
  <2> QED
    BY <1>4, <2>2, <2>3 DEF Min
<1> QED
  BY <1>2, <1>4, <1>5 DEF FreshId

(* The log as bmcInit leaves it. *)
LEMMA InitEstablishes == Init => IInv
<1> SUFFICES ASSUME Init PROVE IInv
  OBVIOUS
<1>1. /\ InitialEntries \in Nat /\ InitialEntries <= MaxCount /\ MaxCount \in Nat
      /\ Word \in Nat /\ MaxCount + 2 < Word
  BY LogAssumption
<1>2. entries \in [1 .. InitialEntries -> 0 .. Word - 1]
  BY <1>1 DEF Init
<1>3. entries \in Seq(0 .. Word - 1) /\ Len(entries) = InitialEntries
  BY <1>1, <1>2, SeqDef
<1>4. TypeOK
  <2>1. InitialEntries \in 0 .. MaxCount /\ InitialEntries + 1 \in 0 .. Word - 1
        /\ 0 \in 0 .. Word - 1
    BY <1>1
  <2> QED
    BY <1>3, <2>1 DEF Init, TypeOK
<1>5. Shape
  BY <1>1, <1>3 DEF Init, Shape, Blanks
<1> QED
  BY <1>4, <1>5 DEF IInv

(* An event is appended with the next id. *)
LEMMA AddToSelKeeps == ASSUME IInv, AddToSel PROVE IInv'
<1>1. /\ Len(entries) \in Nat /\ DOMAIN entries = 1 .. Len(entries)
      /\ count \in Nat /\ MaxCount \in Nat /\ Word \in Nat
      /\ MaxCount + 2 < Word /\ nextEntry = count + 1 /\ Blanks \in Nat
  BY Facts
<1>2. /\ count < MaxCount /\ FreshId = count + 1
      /\ entries' = Append(entries, FreshId) /\ nextEntry' = (FreshId + 1) % Word
      /\ count' = count + 1 /\ UNCHANGED <<overflow, reservation, erased>>
  BY NoSearch DEF AddToSel
<1>3. entries \in Seq(0 .. Word - 1) /\ count + 1 \in 0 .. Word - 1
  BY <1>1, <1>2 DEF IInv, TypeOK
<1>4. /\ entries' \in Seq(0 .. Word - 1)
      /\ Len(entries') = Len(entries) + 1
      /\ \A i \in 1 .. Len(entries) : entries'[i] = entries[i]
      /\ entries'[Len(entries) + 1] = count + 1
  BY <1>2, <1>3, AppendProperties
<1>5. nextEntry' = count + 2
  BY <1>1, <1>2
<1>6. TypeOK'
  BY <1>1, <1>2, <1>4, <1>5 DEF IInv, TypeOK
<1>7. Blanks' = Blanks
  BY <1>2 DEF Blanks
<1>8. Len(entries) \in Nat /\ count \in Nat /\ Blanks \in Nat
  BY <1>1
<1>9. Shape'
  <2>1. /\ Blanks <= Len(entries) /\ Len(entries) - Blanks <= count
        /\ ~erased => Len(entries) = count
        /\ \A i \in 1 .. Len(entries) :
              entries[i] = IF i <= Blanks THEN 0 ELSE count - Len(entries) + i
    BY DEF IInv, Shape
  <2>2. ASSUME NEW i \in 1 .. Len(entries) + 1
        PROVE  entries'[i] = IF i <= Blanks THEN 0 ELSE count - Len(entries) + i
    <3>1. CASE i = Len(entries) + 1
      <4>1. ~(i <= Blanks) /\ count - Len(entries) + i = count + 1
        BY <1>8, <2>1, <3>1
      <4> QED
        BY <1>4, <3>1, <4>1
    <3>2. CASE i # Len(entries) + 1
      <4>1. i \in 1 .. Len(entries)
        BY <1>1, <3>2
      <4> QED
        BY <1>4, <2>1, <4>1
    <3> QED
      BY <3>1, <3>2
  <2>3. count' - Len(entries') = count - Len(entries)
    BY <1>1, <1>2, <1>4
  <2>4. \A i \in 1 .. Len(entries') :
           entries'[i] = IF i <= Blanks' THEN 0 ELSE count' - Len(entries') + i
    BY <1>4, <1>7, <2>2, <2>3
  <2>5. /\ Blanks' <= Len(entries') /\ Len(entries') - Blanks' <= count'
        /\ ~erased' => Len(entries') = count'
        /\ nextEntry' = count' + 1
    <3>1. Len(entries') = Len(entries) + 1 /\ count' = count + 1 /\ erased' = erased
      BY <1>2, <1>4
    <3>2. /\ count + 1 + 1 = count + 2
          /\ Blanks <= Len(entries) + 1 /\ Len(entries) + 1 - Blanks <= count + 1
      BY <1>8, <2>1
    <3>3. ASSUME ~erased' PROVE Len(entries') = count'
      BY <2>1, <3>1, <3>3, Zenon
    <3>4. Blanks' <= Len(entries') /\ Len(entries') - Blanks' <= count'
      BY <1>7, <1>8, <3>1, <3>2
    <3>5. nextEntry' = count' + 1
      BY <1>5, <3>1, <3>2
    <3> QED
      BY <3>3, <3>4, <3>5
  <2> QED
    BY <2>4, <2>5 DEF Shape
<1> QED
  BY <1>6, <1>9 DEF IInv

(* A clear leaves blank entries only. *)
LEMMA ClearSelKeeps == ASSUME IInv, NEW r, ClearSel(r) PROVE IInv'
<1>1. /\ count \in Nat /\ MaxCount \in Nat /\ Word \in Nat /\ MaxCount + 2 < Word
  BY Facts
<1>2. /\ entries' = [i \in 1 .. MaxCount |-> 0] /\ overflow' = FALSE /\ erased' = TRUE
      /\ UNCHANGED <<count, nextEntry, reservation>>
  BY DEF ClearSel
<1>3. entries' \in [1 .. MaxCount -> 0 .. Word - 1]
  BY <1>1, <1>2
<1>4. entries' \in Seq(0 .. Word - 1) /\ Len(entries') = MaxCount
  BY <1>1, <1>3, SeqDef
<1>5. TypeOK'
  BY <1>2, <1>4 DEF IInv, TypeOK
<1>6. Shape'
  BY <1>1, <1>2, <1>4 DEF IInv, Shape, Blanks
<1> QED
  BY <1>5, <1>6 DEF IInv

(* The slice keeps its shape in every step. *)
LEMMA NextKeeps == IInv /\ [Next]_logVars => IInv'
<1> SUFFICES ASSUME IInv, [Next]_logVars PROVE IInv'
  OBVIOUS
<1>1. CASE AddToSel
  BY <1>1, AddToSelKeeps
<1>2. CASE AddRefusedFull
  BY <1>2 DEF AddRefusedFull, IInv, TypeOK, Shape, Blanks
<1>3. CASE ReserveSel
  <2>1. reservation' \in 0 .. Word - 1
    BY <1>3, LogAssumption DEF ReserveSel, NextReservation, IInv, TypeOK
  <2> QED
    BY <1>3, <2>1 DEF ReserveSel, IInv, TypeOK, Shape, Blanks
<1>4. ASSUME NEW r \in 0 .. Word - 1, ClearSel(r) PROVE IInv'
  BY <1>4, ClearSelKeeps
<1>5. CASE UNCHANGED logVars
  BY <1>5 DEF logVars, IInv, TypeOK, Shape, Blanks
<1> QED
  BY <1>1, <1>2, <1>3, <1>4, <1>5 DEF Next, AddSelEntry

-----------------------------------------------------------------------------
(* The shape of the log in every reachable state. *)
THEOREM Invariance == Spec => []IInv
<1>1. Init => IInv
  BY InitEstablishes
<1> QED
  BY <1>1, NextKeeps, PTL DEF Spec

(* Counters stay in their words, and the count below its limit. *)
THEOREM TypeCorrect == Spec => []TypeOK
<1>1. IInv => TypeOK
  BY DEF IInv
<1> QED
  BY <1>1, Invariance, PTL

(* The events of the log and their ids. *)
LEMMA LoggedIds ==
    ASSUME IInv, NEW i \in Logged
    PROVE  /\ i \in DOMAIN entries /\ i \in Nat /\ Blanks < i
           /\ entries[i] = count - Len(entries) + i
           /\ entries[i] \in 1 .. count
<1>1. i \in 1 .. Len(entries) /\ entries[i] # 0 /\ DOMAIN entries = 1 .. Len(entries)
  BY Facts DEF Logged
<1>2. /\ entries[i] = (IF i <= Blanks THEN 0 ELSE count - Len(entries) + i)
      /\ Len(entries) - Blanks <= count
  BY <1>1 DEF IInv, Shape
<1> QED
  BY <1>1, <1>2, Facts

(* Events are numbered in the order they were logged, once each. *)
THEOREM IdsAreUnique == Spec => []IdsUnique
<1>1. ASSUME IInv PROVE IdsUnique
  BY <1>1, LoggedIds, Facts DEF IdsUnique
<1> QED
  BY <1>1, Invariance, PTL

(* The reply to a Get SEL Entry with the id of an event is that event. *)
LEMMA FoundById ==
    ASSUME IInv, NEW i \in Logged
    PROVE  GetSelEntry(0, entries[i]) = [cc |-> "OK", entry |-> entries[i],
                                         next |-> NextId(entries[i], i)]
<1>1. /\ i \in DOMAIN entries /\ i \in Nat /\ entries[i] \in 1 .. count
      /\ entries[i] # 0 /\ entries[i] # LastId /\ count # 0
  BY LoggedIds, Facts DEF LastId
<1>2. \A j \in DOMAIN entries : j # i => entries[j] # entries[i]
  <2> SUFFICES ASSUME NEW j \in DOMAIN entries, j # i PROVE entries[j] # entries[i]
    OBVIOUS
  <2>1. CASE entries[j] = 0
    BY <1>1, <2>1
  <2>2. CASE entries[j] # 0
    BY <2>2, LoggedIds, Facts DEF Logged
  <2> QED
    BY <2>1, <2>2
<1>3. Places(entries[i]) = {i}
  <2>1. \A j \in DOMAIN entries : j < i => entries[j] # entries[i]
    BY <1>1, <1>2, Facts
  <2> QED
    BY <1>1, <1>2, <2>1 DEF Places
<1>4. (CHOOSE j \in Places(entries[i]) : TRUE) = i
  BY <1>3
<1> QED
  BY <1>1, <1>3, <1>4 DEF GetSelEntry, Reserved

(* An event is found by its id as long as it is in the log. *)
THEOREM EventsAreServed == Spec => []ServedById
<1>1. ASSUME IInv, NEW i \in Logged
      PROVE  /\ GetSelEntry(0, entries[i]).cc = "OK"
             /\ GetSelEntry(0, entries[i]).entry = entries[i]
  <2> DEFINE reply == GetSelEntry(0, entries[i])
  <2>1. reply = [cc |-> "OK", entry |-> entries[i], next |-> NextId(entries[i], i)]
    BY <1>1, FoundById
  <2> HIDE DEF reply
  <2>2. reply.cc = "OK" /\ reply.entry = entries[i]
    BY <2>1
  <2> QED
    BY <2>2 DEF reply
<1>2. IInv => ServedById
  BY <1>1 DEF ServedById
<1> QED
  BY <1>2, Invariance, PTL

(* Until a clear the next ids lead through the whole log. *)
THEOREM ChainIsWhole == Spec => []ChainUntilErased
<1>1. ASSUME IInv, ~erased, NEW i \in Logged
      PROVE  GetSelEntry(0, entries[i]).next =
                IF i = Len(entries) THEN LastId ELSE entries[i + 1]
  <2> DEFINE reply == GetSelEntry(0, entries[i])
  <2>0. reply = [cc |-> "OK", entry |-> entries[i], next |-> NextId(entries[i], i)]
    BY <1>1, FoundById
  <2> HIDE DEF reply
  <2>1. reply.next = NextId(entries[i], i)
    BY <2>0
  <2>2. Blanks = 0 /\ Len(entries) = count
    BY <1>1 DEF IInv, Shape, Blanks
  <2>3. \A j \in 1 .. count : entries[j] = j
    <3> SUFFICES ASSUME NEW j \in 1 .. count PROVE entries[j] = j
      OBVIOUS
    <3>1. entries[j] = (IF j <= Blanks THEN 0 ELSE count - Len(entries) + j)
      BY <1>1, <2>2 DEF IInv, Shape
    <3> QED
      BY <1>1, <2>2, <3>1, Facts
  <2>4. i \in 1 .. count /\ entries[i] = i /\ i # LastId
    BY <1>1, <2>2, <2>3, Facts DEF Logged, LastId
  <2>5. i < count => i + 1 \in 1 .. count
    BY <1>1, <2>4, Facts
  <2>6. NextId(entries[i], i) = IF i = count THEN LastId ELSE i + 1
    BY <1>1, <2>4, Facts DEF NextId
  <2> QED
    BY <2>1, <2>2, <2>3, <2>4, <2>5, <2>6, <1>1, Facts DEF reply
<1>2. IInv => ChainUntilErased
  BY <1>1 DEF ChainUntilErased
<1> QED
  BY <1>2, Invariance, PTL

(* The search for a free id is never needed, its failure never happens, and
   ids never wrap onto 0 or 0xffff: a log that reports space takes an event. *)
THEOREM SpaceIsRoom == Spec => []SpaceMeansRoom
<1>1. ASSUME IInv PROVE SpaceMeansRoom
  BY <1>1, NoSearch, Facts DEF SpaceMeansRoom, LastId
<1> QED
  BY <1>1, Invariance, PTL

-----------------------------------------------------------------------------
(***************************************************************************)
(* The client of SelReader that pulls the log.                             *)
(***************************************************************************)

(* The client was sent the events 1 .. hi, of the 1 .. t there were at its
   first reply; it asks for one that is in the log, unless that was cleared. *)
Scanned(hi, t) ==
    /\ seen = 1 .. hi /\ present = 1 .. t
    /\ rpc = "done" => t <= hi
    /\ rpc = "scan" => /\ askId = hi + 1 /\ hi < count
                       /\ erased => \A i \in DOMAIN entries : entries[i] # hi + 1

(* The inductive invariant of the client. *)
ScanInv ==
    /\ seen = {} => rpc # "done"
    /\ seen = {} /\ rpc = "scan" => askId = 0 /\ ~clearedSince
    /\ rpc = "scan" /\ clearedSince => erased
    /\ seen # {} => \E hi, t \in 1 .. count : Scanned(hi, t)

RInv == IInv /\ ScanInv

(* Before the first clear the id of an event is its place. *)
LEMMA PlaceIsId ==
    ASSUME IInv, ~erased
    PROVE  /\ DOMAIN entries = 1 .. count /\ Logged = 1 .. count
           /\ \A i \in 1 .. count : entries[i] = i
<1>1. Blanks = 0 /\ Len(entries) = count /\ count \in Nat /\ DOMAIN entries = 1 .. count
  BY Facts DEF IInv, Shape, Blanks
<1>2. \A i \in 1 .. count : entries[i] = i
  <2> SUFFICES ASSUME NEW i \in 1 .. count PROVE entries[i] = i
    OBVIOUS
  <2>1. entries[i] = (IF i <= Blanks THEN 0 ELSE count - Len(entries) + i)
    BY <1>1 DEF IInv, Shape
  <2> QED
    BY <1>1, <2>1
<1> QED
  BY <1>1, <1>2 DEF Logged

(* What a reply without an error holds: one place of the slice with an event. *)
LEMMA GoodReply ==
    ASSUME NEW id, GetSelEntry(held, id).cc = "OK"
    PROVE  /\ count # 0 /\ \E i \in Places(id) : entries[i] # 0
           /\ \E i \in Places(id) : /\ GetSelEntry(held, id).entry = entries[i]
                                    /\ GetSelEntry(held, id).next = NextId(id, i)
<1>1. Reserved(held) /\ ~(count = 0 \/ \A i \in Places(id) : entries[i] = 0)
  BY DEF GetSelEntry
<1>2. PICK i \in Places(id) : i = (CHOOSE j \in Places(id) : TRUE)
  BY <1>1
<1>3. GetSelEntry(held, id) = [cc |-> "OK", entry |-> entries[i], next |-> NextId(id, i)]
  BY <1>1, <1>2 DEF GetSelEntry
<1> HIDE <1>2
<1> DEFINE reply == GetSelEntry(held, id)
<1>4. reply.entry = entries[i] /\ reply.next = NextId(id, i)
  <2> HIDE DEF reply
  <2>1. reply = [cc |-> "OK", entry |-> entries[i], next |-> NextId(id, i)]
    BY <1>3 DEF reply
  <2> QED
    BY <2>1
<1> QED
  BY <1>1, <1>4

(* The first reply is the event 1, and only a log that was never cleared has
   one; the others are the events asked for. *)
LEMMA ReplyIsNext ==
    ASSUME RInv, rpc = "scan", GetSelEntry(held, askId).cc = "OK"
    PROVE  /\ ~erased /\ count \in Nat /\ count # 0
           /\ LET i == IF askId = 0 THEN 1 ELSE askId
              IN  /\ i \in 1 .. count
                  /\ GetSelEntry(held, askId).entry = i
                  /\ GetSelEntry(held, askId).next = IF i >= count THEN LastId ELSE i + 1
<1>1. /\ Len(entries) \in Nat /\ DOMAIN entries = 1 .. Len(entries)
      /\ count \in Nat /\ count <= MaxCount /\ MaxCount \in Nat /\ Word \in Nat
      /\ MaxCount + 2 < Word /\ LastId = Word - 1
  BY Facts DEF RInv, LastId
<1>2. count # 0 /\ \E i \in Places(askId) : entries[i] # 0
  BY GoodReply
<1>3. PICK p \in Places(askId) : /\ GetSelEntry(held, askId).entry = entries[p]
                                 /\ GetSelEntry(held, askId).next = NextId(askId, p)
  BY GoodReply
<1>4. CASE askId = 0
  <2>1. Places(askId) = {1}
    BY <1>4 DEF Places
  <2>2. ~erased
    <3> SUFFICES ASSUME erased PROVE entries[1] = 0
      BY <1>2, <2>1
    <3>1. Blanks = MaxCount /\ 1 <= Blanks /\ 1 \in 1 .. Len(entries)
      BY <1>1, <1>2 DEF RInv, IInv, Shape, Blanks
    <3> QED
      BY <3>1 DEF RInv, IInv, Shape
  <2>3. p = 1 /\ entries[p] = 1
    <3>1. p = 1 /\ 1 \in 1 .. count
      BY <1>1, <1>2, <1>3, <2>1
    <3>2. \A i \in 1 .. count : entries[i] = i
      BY <2>2, PlaceIsId DEF RInv
    <3> QED
      BY <3>1, <3>2
  <2>4. NextId(askId, p) = IF 1 >= count THEN LastId ELSE 1 + 1
    BY <1>1, <1>4, <2>3 DEF NextId
  <2> QED
    BY <1>1, <1>2, <1>3, <1>4, <2>2, <2>3, <2>4
<1>5. CASE askId # 0
  <2>1. PICK hi \in 1 .. count, t \in 1 .. count : Scanned(hi, t)
    BY <1>5 DEF RInv, ScanInv
  <2>2. askId = hi + 1 /\ askId \in 1 .. count /\ askId # LastId
    BY <1>1, <2>1 DEF Scanned
  <2>3. \A i \in Places(askId) : i \in DOMAIN entries /\ entries[i] = askId
    BY <1>5, <2>2 DEF Places
  <2>4. ~erased
    BY <1>3, <2>1, <2>2, <2>3 DEF Scanned
  <2>5. p = askId /\ entries[p] = askId
    BY <1>3, <2>3, <2>4, PlaceIsId DEF RInv
  <2>6. NextId(askId, p) = IF askId >= count THEN LastId ELSE askId + 1
    BY <2>2, <2>5 DEF NextId
  <2> QED
    BY <1>1, <1>2, <1>3, <1>5, <2>2, <2>4, <2>5, <2>6
<1> QED
  BY <1>4, <1>5

(* A reply lengthens the scan by one event, or ends it. *)
LEMMA GetKeepsScan == ASSUME RInv, ReaderGet PROVE ScanInv'
<1> DEFINE reply == GetSelEntry(held, askId)
<1>1. rpc = "scan" /\ UNCHANGED <<logVars, held, clearedSince>>
  BY DEF ReaderGet
<1>2. CASE reply.cc # "OK"
  <2>1. rpc' = "failed" /\ UNCHANGED <<seen, askId, present>>
    BY <1>2 DEF ReaderGet
  <2>2. ASSUME NEW hi \in 1 .. count, NEW t \in 1 .. count, Scanned(hi, t)
        PROVE  Scanned(hi, t)'
    BY <2>1, <2>2 DEF Scanned
  <2> QED
    BY <1>1, <2>1, <2>2 DEF RInv, ScanInv, logVars
<1>3. CASE reply.cc = "OK"
  <2>0. ~erased /\ count \in Nat
    BY <1>1, <1>3, ReplyIsNext
  <2>1. PICK i \in 1 .. count :
           /\ i = IF askId = 0 THEN 1 ELSE askId
           /\ reply.entry = i /\ reply.next = IF i >= count THEN LastId ELSE i + 1
    BY <1>1, <1>3, ReplyIsNext
  <2>2. /\ seen' = seen \cup {i} /\ askId' = reply.next
        /\ present' = IF askId = 0 THEN {entries[j] : j \in Logged} ELSE present
        /\ rpc' = IF reply.next = LastId THEN "done" ELSE "scan"
    BY <1>3, <2>1 DEF ReaderGet
  <2> HIDE DEF reply
  <2>3. Logged = 1 .. count /\ \A j \in 1 .. count : entries[j] = j
    BY <2>0, PlaceIsId DEF RInv
  <2>4. /\ count \in Nat /\ count <= MaxCount /\ MaxCount \in Nat /\ Word \in Nat
        /\ MaxCount + 2 < Word /\ LastId = Word - 1
    BY Facts DEF RInv, LastId
  <2>5. PICK t \in 1 .. count : seen' = 1 .. i /\ present' = 1 .. t
    <3>1. CASE seen = {}
      <4>1. askId = 0 /\ i = 1
        BY <1>1, <2>1, <3>1 DEF RInv, ScanInv
      <4>2. seen' = 1 .. i
        BY <2>2, <3>1, <4>1
      <4>3. present' = 1 .. count
        BY <2>2, <2>3, <4>1
      <4>4. count \in 1 .. count
        BY <2>0
      <4> QED
        BY <4>2, <4>3, <4>4
    <3>2. CASE seen # {}
      <4>1. PICK hi \in 1 .. count, t \in 1 .. count : Scanned(hi, t)
        BY <3>2 DEF RInv, ScanInv
      <4>2. seen = 1 .. hi /\ present = 1 .. t /\ askId = hi + 1 /\ i = hi + 1
        BY <1>1, <2>1, <4>1 DEF Scanned
      <4>3. seen' = 1 .. hi + 1
        BY <2>2, <4>2
      <4>4. present' = present
        BY <2>0, <2>2, <4>2
      <4> QED
        BY <4>2, <4>3, <4>4
    <3> QED
      BY <3>1, <3>2
  <2>6. rpc' = "done" => i = count
    BY <2>0, <2>1, <2>2, <2>4
  <2>7. rpc' = "scan" => askId' = i + 1 /\ i < count
    BY <2>0, <2>1, <2>2, <2>4
  <2>8. Scanned(i, t)'
    BY <1>1, <2>0, <2>5, <2>6, <2>7 DEF Scanned, logVars
  <2>9. seen' # {} /\ i \in 1 .. count'
    <3>1. i \in 1 .. i
      BY <2>0
    <3>2. count' = count
      BY <1>1 DEF logVars
    <3> QED
      BY <2>5, <3>1, <3>2
  <2>10. t \in 1 .. count'
    BY <1>1 DEF logVars
  <2> QED
    BY <1>1, <2>8, <2>9, <2>10 DEF RInv, ScanInv, logVars
<1> QED
  BY <1>2, <1>3

(* What others log and reserve does not reach what the client has. *)
LEMMA OthersKeepScan ==
    ASSUME RInv, OtherReservesOrLogs \/ UNCHANGED vars PROVE ScanInv'
<1>1. UNCHANGED readerVars /\ erased' = erased
  BY DEF OtherReservesOrLogs, AddSelEntry, AddToSel, AddRefusedFull, ReserveSel, vars, logVars
<1>2. count \in Nat /\ count' \in Nat /\ count <= count'
  BY Facts DEF RInv, OtherReservesOrLogs, AddSelEntry, AddToSel, AddRefusedFull, ReserveSel,
               vars, logVars
<1>3. ASSUME NEW h \in 1 .. count, \A i \in DOMAIN entries : entries[i] # h
      PROVE  \A i \in DOMAIN entries' : entries'[i] # h
  <2>1. CASE AddToSel
    <3>1. entries' = Append(entries, count + 1)
      BY <2>1, NoSearch DEF RInv, AddToSel
    <3>2. entries \in Seq(0 .. Word - 1) /\ count + 1 \in 0 .. Word - 1
      BY Facts DEF RInv, IInv, TypeOK
    <3>3. /\ Len(entries') = Len(entries) + 1 /\ entries' \in Seq(0 .. Word - 1)
          /\ \A i \in 1 .. Len(entries) : entries'[i] = entries[i]
          /\ entries'[Len(entries) + 1] = count + 1
      BY <3>1, <3>2, AppendProperties
    <3>4. /\ DOMAIN entries' = 1 .. Len(entries) + 1 /\ DOMAIN entries = 1 .. Len(entries)
          /\ Len(entries) \in Nat
      BY <3>2, <3>3, LenProperties
    <3> QED
      BY <1>2, <1>3, <3>3, <3>4
  <2>2. CASE UNCHANGED entries
    BY <1>3, <2>2
  <2> QED
    BY <2>1, <2>2 DEF OtherReservesOrLogs, AddSelEntry, AddRefusedFull, ReserveSel, vars, logVars
<1>4. ASSUME NEW hi \in 1 .. count, NEW t \in 1 .. count, Scanned(hi, t)
      PROVE  Scanned(hi, t)' /\ hi \in 1 .. count' /\ t \in 1 .. count'
  <2>1. hi \in 1 .. count' /\ t \in 1 .. count' /\ (hi < count => hi < count')
    BY <1>2
  <2>2. hi < count => hi + 1 \in 1 .. count
    BY <1>2
  <2> QED
    BY <1>1, <1>3, <1>4, <2>1, <2>2 DEF Scanned, readerVars
<1> QED
  BY <1>1, <1>4 DEF RInv, ScanInv, readerVars

(* A clear removes the event the client asks for next. *)
LEMMA ClearKeepsScan ==
    ASSUME RInv, NEW r, OtherClears(r) PROVE ScanInv'
<1>1. /\ entries' = [i \in 1 .. MaxCount |-> 0] /\ erased' = TRUE /\ count' = count
      /\ UNCHANGED <<rpc, held, askId, seen, present>>
      /\ clearedSince' = (clearedSince \/ (rpc = "scan" /\ askId # 0))
      /\ count \in Nat
  BY Facts DEF RInv, OtherClears, ClearSel
<1>2. ASSUME NEW hi \in 1 .. count, NEW t \in 1 .. count, Scanned(hi, t)
      PROVE  Scanned(hi, t)'
  BY <1>1, <1>2 DEF Scanned
<1> QED
  BY <1>1, <1>2 DEF RInv, ScanInv

LEMMA ReserveStartsScan ==
    ASSUME RInv, ReaderReserve PROVE ScanInv'
BY DEF ReaderReserve, ScanInv

(* The steps of the client and of the others keep the log in shape. *)
LEMMA ReaderNextKeeps == RInv /\ [ReaderNext]_vars => RInv'
<1> SUFFICES ASSUME RInv, [ReaderNext]_vars PROVE RInv'
  OBVIOUS
<1>1. [Next]_logVars
  BY DEF ReaderNext, ReaderReserve, ReaderGet, OtherClears, OtherReservesOrLogs,
         Next, vars
<1>2. IInv'
  BY <1>1, NextKeeps DEF RInv
<1>3. ScanInv'
  BY GetKeepsScan, OthersKeepScan, ClearKeepsScan, ReserveStartsScan DEF ReaderNext
<1> QED
  BY <1>2, <1>3 DEF RInv

LEMMA ReaderInvariance == ReaderSpec => []RInv
<1>1. ReaderInit => RInv
  BY InitEstablishes DEF ReaderInit, RInv, ScanInv
<1> QED
  BY <1>1, ReaderNextKeeps, PTL DEF ReaderSpec

(* A client whose scan ended well has every event there was when it began,
   whatever was logged, reserved and cleared meanwhile. *)
THEOREM ScansAreComplete == ReaderSpec => []ScanComplete
<1>1. ASSUME RInv, rpc = "done" PROVE seen # {} /\ present \subseteq seen
  <2>1. seen # {}
    BY <1>1 DEF RInv, ScanInv
  <2>2. PICK hi \in 1 .. count, t \in 1 .. count : Scanned(hi, t)
    BY <1>1, <2>1 DEF RInv, ScanInv
  <2> QED
    BY <1>1, <2>1, <2>2 DEF Scanned
<1>2. RInv => ScanComplete
  BY <1>1 DEF ScanComplete
<1> QED
  BY <1>2, ReaderInvariance, PTL

(* A scan whose log is cleared is never answered with an event again. *)
THEOREM NoEventAfterClear == ReaderSpec => NothingAfterClear
<1>1. ASSUME RInv, ReaderGet, seen' # seen PROVE ~clearedSince
  <2>1. rpc = "scan" /\ GetSelEntry(held, askId).cc = "OK"
    BY <1>1 DEF ReaderGet
  <2> QED
    BY <1>1, <2>1, ReplyIsNext DEF RInv, ScanInv
<1>2. RInv => [ReaderGet /\ seen' # seen => ~clearedSince]_vars
  BY <1>1
<1> QED
  BY <1>2, ReaderInvariance, PTL DEF NothingAfterClear

(* A reply with event i, behind those before it, or with an error. *)
NextEvent ==
    \/ rpc' = "failed"
    \/ \E i \in 1 .. count : /\ seen = 1 .. i - 1 /\ seen' = 1 .. i
                             /\ rpc' = "done" <=> i = count

(* A scan of the log is short: each reply is the event behind those the client
   was sent, and the one that ends the scan is the last of the log (getSelEntry).
   So a scan is over after as many requests as events can be logged, which with
   the fairness of the client is ScanEnds. *)
THEOREM ScansAreShort ==
    ReaderSpec => [](count <= MaxCount) /\ [][ReaderGet => NextEvent]_vars
<1>1. RInv => count <= MaxCount
  BY Facts DEF RInv
<1>2. ASSUME RInv, ReaderGet, rpc' # "failed"
      PROVE  \E i \in 1 .. count : /\ seen = 1 .. i - 1 /\ seen' = 1 .. i
                                   /\ rpc' = "done" <=> i = count
  <2> DEFINE reply == GetSelEntry(held, askId)
  <2>1. rpc = "scan" /\ reply.cc = "OK"
    BY <1>2 DEF ReaderGet
  <2>2. /\ seen' = seen \cup {reply.entry}
        /\ rpc' = IF reply.next = LastId THEN "done" ELSE "scan"
    BY <1>2, <2>1 DEF ReaderGet
  <2>3. PICK i \in 1 .. count :
           /\ i = IF askId = 0 THEN 1 ELSE askId
           /\ reply.entry = i /\ reply.next = IF i >= count THEN LastId ELSE i + 1
    BY <1>2, <2>1, ReplyIsNext
  <2> HIDE DEF reply
  <2>4. /\ count \in Nat /\ count <= MaxCount /\ MaxCount \in Nat /\ Word \in Nat
        /\ MaxCount + 2 < Word /\ LastId = Word - 1
    BY <1>2, Facts DEF RInv, LastId
  <2>5. seen = 1 .. i - 1
    <3>1. CASE seen = {}
      BY <1>2, <2>1, <2>3, <3>1 DEF RInv, ScanInv
    <3>2. CASE seen # {}
      <4>1. PICK hi \in 1 .. count, t \in 1 .. count : Scanned(hi, t)
        BY <1>2, <3>2 DEF RInv, ScanInv
      <4>2. seen = 1 .. hi /\ askId = hi + 1 /\ i = hi + 1
        BY <2>1, <2>3, <2>4, <4>1 DEF Scanned
      <4> QED
        BY <2>4, <4>2
    <3> QED
      BY <3>1, <3>2
  <2>6. seen' = 1 .. i
    BY <2>2, <2>3, <2>4, <2>5
  <2>7. rpc' = "done" <=> i = count
    BY <2>2, <2>3, <2>4
  <2> QED
    BY <2>5, <2>6, <2>7
<1>3. RInv => [ReaderGet => NextEvent]_vars
  BY <1>2 DEF NextEvent
<1> QED
  BY <1>1, <1>3, ReaderInvariance, PTL

=============================================================================
