------------------------ MODULE SdrRepositoryProofs ------------------------
(***************************************************************************)
(* Proofs about SdrRepository for every set of sensors, every number of    *)
(* records and every width of the ids.                                     *)
(***************************************************************************)
EXTENDS SdrRepository, SequenceTheorems, WellFoundedInduction, TLAPS

(* The n-th record ever allocated got id n as long as the ids have not
   wrapped, and the next one gets the next id. *)
IdsCount ==
    /\ Len(heap) < WordMod => \A n \in DOMAIN heap : heap[n].recordId = n
    /\ Len(heap) < WordMod - 1 => nextFreeEntryId = Len(heap) + 1

(* Until an erase the list is the whole heap, counted record by record. *)
AllLive ==
    "mainSdrs.lastEraseTime" \notin stamped /\ Len(heap) < WordMod =>
       /\ sdrCount = Len(heap)
       /\ tail = Len(heap)
       /\ heap # <<>> => head = 1

(* A pointer leads to a record that has been allocated. *)
NoDanglingNext == \A n \in DOMAIN heap : heap[n].next <= Len(heap)

(* The inductive invariant. PointersAgree alone is not: after an erase it says
   nothing of the last record's pointer, which must be nil for the list that
   the next Add SDR starts to be out of reach of the erased records. *)
IInv == TypeOK /\ PointersAgree /\ NoDanglingNext /\ IdsCount /\ AllLive

(* A counter below its modulus does not wrap. *)
LEMMA ModSmall ==
    ASSUME NEW x \in Nat, x < WordMod
    PROVE  x % WordMod = x
BY SizeAssumption

(* A counter taken modulo its word is in its word. *)
LEMMA ModType ==
    ASSUME NEW x \in Nat
    PROVE  x % WordMod \in 0 .. WordMod - 1
BY SizeAssumption

(* The list bmcInit builds satisfies the invariant. *)
LEMMA InitEstablishes == Init => IInv
<1> SUFFICES ASSUME Init PROVE IInv
  OBVIOUS
<1> DEFINE N == Len(LocalSensors)
<1>1. /\ N \in Nat /\ N + 1 < WordMod /\ WordMod \in Nat
      /\ \A i \in 1 .. N : LocalSensors[i] \in Nat
  BY SensorAssumption, SizeAssumption, LenProperties, ElementOfSeq
<1>2. LocalSensors = <<>> <=> N = 0
  BY SensorAssumption, EmptySeq
<1>3. /\ heap \in Seq(Record) /\ Len(heap) = N /\ DOMAIN heap = 1 .. N
      /\ \A n \in 1 .. N : /\ heap[n].recordId = n
                           /\ heap[n].next = IF n < N THEN n + 1 ELSE 0
  <2>1. heap \in [1 .. N -> Record]
    BY <1>1, SensorAssumption DEF Init, Record
  <2>2. heap \in Seq(Record) /\ Len(heap) = N
    BY <1>1, <2>1, SeqDef
  <2> QED
    BY <2>1, <2>2 DEF Init
<1>4. /\ head = IF N = 0 THEN 0 ELSE 1
      /\ tail = N /\ sdrCount = N /\ nextFreeEntryId = N + 1 /\ reservation = 0
      /\ stamped \subseteq TimeFields
  BY <1>2 DEF Init, TimeFields
<1>5. TypeOK
  BY <1>1, <1>3, <1>4 DEF TypeOK
<1>6. PointersAgree
  BY <1>1, <1>3, <1>4 DEF PointersAgree, Live
<1>7. IdsCount /\ NoDanglingNext
  BY <1>1, <1>3, <1>4 DEF IdsCount, NoDanglingNext
<1>8. AllLive
  <2>1. heap # <<>> => N # 0
    BY <1>3, EmptySeq
  <2> QED
    BY <1>1, <1>3, <1>4, <2>1 DEF AllLive
<1> QED
  BY <1>5, <1>6, <1>7, <1>8 DEF IInv

(* What the type invariant says of the heap. *)
LEMMA HeapFacts ==
    ASSUME TypeOK
    PROVE  /\ heap \in Seq(Record) /\ Len(heap) \in Nat /\ DOMAIN heap = 1 .. Len(heap)
           /\ \A n \in DOMAIN heap : heap[n] \in Record
BY LenProperties, ElementOfSeq DEF TypeOK

(* What linking a record does to the heap: one more record, and the old tail
   points to it. *)
LEMMA LinkedHeap ==
    ASSUME TypeOK, NEW new \in Record, head # 0 => tail \in DOMAIN heap
    PROVE  /\ Linked(new) \in Seq(Record)
           /\ Len(Linked(new)) = Len(heap) + 1
           /\ Linked(new)[Len(heap) + 1] = new
           /\ \A n \in DOMAIN heap :
                 /\ Linked(new)[n].recordId = heap[n].recordId
                 /\ Linked(new)[n].lun = heap[n].lun
                 /\ Linked(new)[n].sensNum = heap[n].sensNum
                 /\ Linked(new)[n].value = heap[n].value
                 /\ Linked(new)[n].next =
                      IF head # 0 /\ n = tail THEN Len(heap) + 1 ELSE heap[n].next
<1>1. CASE head = 0
  <2>1. Linked(new) = Append(heap, new)
    BY <1>1 DEF Linked
  <2> QED
    BY <1>1, <2>1, HeapFacts, AppendProperties
<1>2. CASE head # 0
  <2> DEFINE old == [heap EXCEPT ![tail].next = Len(heap) + 1]
             rec == [heap[tail] EXCEPT !.next = Len(heap) + 1]
  <2>1. /\ rec \in Record /\ rec.recordId = heap[tail].recordId /\ rec.next = Len(heap) + 1
        /\ rec.lun = heap[tail].lun /\ rec.sensNum = heap[tail].sensNum
        /\ rec.value = heap[tail].value
    <3>1. heap[tail] \in Record /\ Len(heap) + 1 \in Nat
      BY <1>2, HeapFacts
    <3> QED
      BY <3>1 DEF Record
  <2>2. old = [heap EXCEPT ![tail] = rec]
    OBVIOUS
  <2> HIDE DEF rec
  <2>3. old \in Seq(Record) /\ Len(old) = Len(heap)
    BY <1>2, <2>1, <2>2, HeapFacts, ExceptSeq
  <2>4. \A n \in DOMAIN heap : old[n] = IF n = tail THEN rec ELSE heap[n]
    BY <2>2, HeapFacts
  <2>5. Linked(new) = Append(old, new)
    BY <1>2 DEF Linked
  <2> HIDE DEF old
  <2>6. /\ Append(old, new) \in Seq(Record)
        /\ Len(Append(old, new)) = Len(old) + 1
        /\ \A n \in 1 .. Len(old) : Append(old, new)[n] = old[n]
        /\ Append(old, new)[Len(old) + 1] = new
    BY <2>3, AppendProperties
  <2>7. \A n \in DOMAIN heap : Linked(new)[n] = IF n = tail THEN rec ELSE heap[n]
    BY <2>3, <2>4, <2>5, <2>6, HeapFacts
  <2> QED
    BY <1>2, <2>1, <2>3, <2>5, <2>6, <2>7
<1> QED
  BY <1>1, <1>2

(* Adding a record. *)
LEMMA AddSdrEntryKeeps ==
    ASSUME IInv, NEW num \in Nat, AddSdrEntry(num)
    PROVE  IInv'
<1> DEFINE L == Len(heap)
           new == NewRecord(num)
<1>0. TypeOK /\ PointersAgree /\ NoDanglingNext /\ IdsCount /\ AllLive
  BY DEF IInv
<1>1. L \in Nat
  BY <1>0, HeapFacts
<1>2. DOMAIN heap = 1 .. L
  BY <1>0, HeapFacts
<1>3. /\ head \in 0 .. L /\ tail \in 0 .. L
      /\ head = 0 <=> tail = 0
      /\ head # 0 => head <= tail /\ tail = L
  BY <1>0 DEF TypeOK, PointersAgree
<1>4. new \in Record /\ new.recordId = nextFreeEntryId /\ new.next = 0
  <2>1. nextFreeEntryId \in 0 .. WordMod - 1 /\ 0 \in Values
    BY <1>0, SensorAssumption DEF TypeOK
  <2> QED
    BY <2>1 DEF NewRecord, Record
<1>5. heap' = Linked(new) /\ head' = (IF head = 0 THEN L + 1 ELSE head) /\ tail' = L + 1
  BY DEF AddSdrEntry
<1> HIDE DEF new
<1>6. head # 0 => tail \in DOMAIN heap
  <2> HIDE DEF L
  <2> QED
    BY <1>1, <1>2, <1>3
<1>7. /\ heap' \in Seq(Record) /\ Len(heap') = L + 1
      /\ heap'[L + 1] = new
      /\ \A n \in DOMAIN heap :
            /\ heap'[n].recordId = heap[n].recordId
            /\ heap'[n].next = IF head # 0 /\ n = tail THEN L + 1 ELSE heap[n].next
  BY <1>0, <1>4, <1>5, <1>6, LinkedHeap
<1>8. DOMAIN heap' = 1 .. L + 1
  BY <1>7, LenProperties
<1>9. /\ \A n \in DOMAIN heap :
            /\ heap[n].next \in {0, n + 1}
            /\ n \in Live => heap[n].next = IF n = tail THEN 0 ELSE n + 1
            /\ n < head => heap[n].next < head
            /\ heap[n].next <= L
  BY <1>0 DEF PointersAgree, NoDanglingNext
<1>10. /\ nextFreeEntryId \in 0 .. WordMod - 1 /\ sdrCount \in 0 .. WordMod - 1
       /\ nextFreeEntryId' = (nextFreeEntryId + 1) % WordMod
       /\ sdrCount' = (sdrCount + 1) % WordMod
       /\ stamped' = stamped \cup {"sel.lastAddTime"} /\ stamped \subseteq TimeFields
       /\ reservation' = reservation /\ reservation \in 0 .. WordMod - 1
  BY <1>0 DEF AddSdrEntry, TypeOK
<1>11. TypeOK'
  <2>1. nextFreeEntryId + 1 \in Nat /\ sdrCount + 1 \in Nat
    BY <1>10, SizeAssumption
  <2>2. nextFreeEntryId' \in 0 .. WordMod - 1 /\ sdrCount' \in 0 .. WordMod - 1
    BY <1>10, <2>1, ModType
  <2>3. head' \in 0 .. Len(heap') /\ tail' \in 0 .. Len(heap')
    <3> HIDE DEF L
    <3> QED
      BY <1>1, <1>3, <1>5, <1>7
  <2>4. stamped' \subseteq TimeFields
    BY <1>10 DEF TimeFields
  <2> QED
    BY <1>7, <1>10, <2>2, <2>3, <2>4 DEF TypeOK
<1>12. PointersAgree'
  <2> HIDE DEF L
  <2>1. /\ head' = 0 <=> tail' = 0
        /\ head' # 0 => head' <= tail' /\ tail' = Len(heap')
    BY <1>1, <1>3, <1>5, <1>7
  <2>2. Live' = (IF head = 0 THEN {L + 1} ELSE head .. L + 1)
    <3>1. Live' = (IF head' = 0 THEN {} ELSE head' .. tail')
      BY DEF Live
    <3>2. (L + 1) .. (L + 1) = {L + 1} /\ L + 1 # 0
      BY <1>1
    <3> QED
      BY <1>5, <3>1, <3>2
  <2>3. ASSUME NEW n \in 1 .. L + 1
        PROVE  /\ heap'[n].next \in {0, n + 1}
               /\ n \in Live' => heap'[n].next = IF n = tail' THEN 0 ELSE n + 1
               /\ n < head' => heap'[n].next < head'
    <3>1. CASE n = L + 1
      <4>1. heap'[n].next = 0
        BY <1>4, <1>7, <3>1
      <4> QED
        BY <1>1, <1>3, <1>5, <3>1, <4>1
    <3>2. CASE n # L + 1
      <4>1. n \in DOMAIN heap /\ n \in 1 .. L
        BY <1>1, <1>2, <3>2
      <4>2. heap'[n].next = IF head # 0 /\ n = tail THEN L + 1 ELSE heap[n].next
        BY <1>7, <4>1
      <4>3. /\ heap[n].next \in {0, n + 1}
            /\ n \in Live => heap[n].next = IF n = tail THEN 0 ELSE n + 1
            /\ n < head => heap[n].next < head
            /\ heap[n].next <= L
        BY <1>9, <4>1
      <4>4. head # 0 /\ n \in head .. L => n \in Live
        BY <1>3 DEF Live
      <4>5. n \in Nat /\ n < L + 1 /\ (n < head' => head = 0 \/ (n < head /\ head <= tail))
        BY <1>1, <1>3, <1>5, <4>1
      <4>6. heap'[n].next \in {0, n + 1}
        BY <1>3, <4>2, <4>3
      <4>7. ASSUME n \in Live' PROVE heap'[n].next = n + 1
        <5>1. head # 0 /\ n \in head .. L
          BY <1>1, <1>3, <2>2, <4>5, <4>7
        <5> QED
          BY <1>3, <4>2, <4>3, <4>4, <5>1
      <4>8. ASSUME n < head' PROVE heap'[n].next < head'
        BY <1>1, <1>3, <1>5, <4>2, <4>3, <4>5, <4>8
      <4> QED
        BY <1>5, <3>2, <4>6, <4>7, <4>8
    <3> QED
      BY <3>1, <3>2
  <2> QED
    BY <1>8, <2>1, <2>3 DEF PointersAgree
<1>13. NoDanglingNext'
  <2> HIDE DEF L
  <2>1. ASSUME NEW n \in 1 .. L + 1 PROVE heap'[n].next <= L + 1
    <3>1. CASE n = L + 1
      BY <1>1, <1>4, <1>7, <3>1
    <3>2. CASE n # L + 1
      <4>1. n \in DOMAIN heap
        BY <1>1, <1>2, <3>2
      <4>2. heap[n].next \in {0, n + 1} /\ heap[n].next <= L /\ n \in Nat
        BY <1>1, <1>2, <1>9, <4>1
      <4> QED
        BY <1>1, <1>7, <4>1, <4>2
    <3> QED
      BY <3>1, <3>2
  <2> QED
    BY <1>7, <1>8, <2>1 DEF NoDanglingNext
<1>14. IdsCount'
  <2>1. ASSUME L + 1 < WordMod PROVE \A n \in 1 .. L + 1 : heap'[n].recordId = n
    <3> HIDE DEF L
    <3>1. L < WordMod - 1 /\ L < WordMod
      BY <1>1, <2>1, SizeAssumption
    <3>2. nextFreeEntryId = L + 1 /\ \A n \in DOMAIN heap : heap[n].recordId = n
      BY <1>0, <3>1 DEF IdsCount, L
    <3>3. ASSUME NEW n \in 1 .. L + 1 PROVE heap'[n].recordId = n
      <4>1. CASE n = L + 1
        BY <1>4, <1>7, <3>2, <4>1
      <4>2. CASE n # L + 1
        <5>1. n \in DOMAIN heap
          BY <1>1, <1>2, <4>2
        <5> QED
          BY <1>7, <3>2, <5>1
      <4> QED
        BY <4>1, <4>2
    <3> QED
      BY <3>3
  <2>2. ASSUME L + 1 < WordMod - 1 PROVE nextFreeEntryId' = L + 2
    <3> HIDE DEF L
    <3>1. L < WordMod - 1 /\ L + 2 \in Nat /\ L + 2 < WordMod
      BY <1>1, <2>2, SizeAssumption
    <3>2. nextFreeEntryId = L + 1
      BY <1>0, <3>1 DEF IdsCount, L
    <3>3. nextFreeEntryId + 1 = L + 2
      BY <1>1, <3>2
    <3> QED
      BY <1>10, <3>1, <3>3, ModSmall
  <2>3. IdsCount' = (/\ Len(heap') < WordMod => \A n \in DOMAIN heap' : heap'[n].recordId = n
                     /\ Len(heap') < WordMod - 1 => nextFreeEntryId' = Len(heap') + 1)
    BY DEF IdsCount
  <2>4. L + 1 + 1 = L + 2
    BY <1>1
  <2> HIDE DEF L
  <2> QED
    BY <1>7, <1>8, <2>1, <2>2, <2>3, <2>4
<1>15. AllLive'
  <2>1. heap' # <<>>
    <3> HIDE DEF L
    <3> QED
      BY <1>1, <1>7, EmptySeq
  <2>2. ASSUME L + 1 < WordMod, "mainSdrs.lastEraseTime" \notin stamped
        PROVE  sdrCount' = L + 1 /\ head' = 1
    <3>1. L < WordMod
      <4> HIDE DEF L
      <4> QED
        BY <1>1, <2>2, SizeAssumption
    <3>2. sdrCount = L /\ tail = L /\ (heap # <<>> => head = 1)
      BY <2>2, <3>1 DEF AllLive, IInv
    <3>3. sdrCount' = L + 1
      <4>1. L + 1 \in Nat
        BY <1>1
      <4> QED
        BY <1>10, <2>2, <3>2, <4>1, ModSmall
    <3>4. CASE heap = <<>>
      <4>1. L = 0
        BY <3>4
      <4>2. head = 0
        BY <1>3, <3>2, <4>1
      <4> QED
        BY <1>5, <3>3, <4>1, <4>2
    <3>5. CASE heap # <<>>
      BY <1>5, <3>2, <3>3, <3>5
    <3> QED
      BY <3>4, <3>5
  <2>3. "mainSdrs.lastEraseTime" \notin stamped' => "mainSdrs.lastEraseTime" \notin stamped
    BY <1>10
  <2> HIDE DEF L
  <2> QED
    BY <1>5, <1>7, <2>1, <2>2, <2>3 DEF AllLive
<1> QED
  BY <1>11, <1>12, <1>13, <1>14, <1>15 DEF IInv

(* A step that changes neither ids nor pointers keeps the invariant. *)
LEMMA NewValuesKeep ==
    ASSUME IInv,
           heap' \in Seq(Record), Len(heap') = Len(heap),
           \A n \in DOMAIN heap : heap'[n].next = heap[n].next
                                  /\ heap'[n].recordId = heap[n].recordId,
           UNCHANGED <<head, tail, sdrCount, nextFreeEntryId, reservation, stamped>>
    PROVE  IInv'
<1>1. TypeOK /\ PointersAgree /\ NoDanglingNext /\ IdsCount /\ AllLive
  BY DEF IInv
<1>2. DOMAIN heap' = DOMAIN heap
  BY <1>1, HeapFacts, LenProperties
<1>3. TypeOK'
  BY <1>1 DEF TypeOK
<1>4. PointersAgree' /\ NoDanglingNext'
  BY <1>1, <1>2 DEF PointersAgree, NoDanglingNext, Live
<1>5. IdsCount'
  BY <1>1, <1>2 DEF IdsCount
<1>6. AllLive'
  <2>1. heap' # <<>> => heap # <<>>
    BY <1>1, HeapFacts, EmptySeq
  <2> QED
    BY <1>1, <2>1 DEF AllLive
<1> QED
  BY <1>3, <1>4, <1>5, <1>6 DEF IInv

(* What an update does to the heap. *)
LEMMA UpdatedHeap ==
    ASSUME TypeOK, NEW lun, NEW num, NEW v \in Values, UpdateSdr(lun, num, v)
    PROVE  /\ heap' \in Seq(Record) /\ Len(heap') = Len(heap) /\ DOMAIN heap' = DOMAIN heap
           /\ \A n \in DOMAIN heap :
                 /\ heap'[n].next = heap[n].next /\ heap'[n].recordId = heap[n].recordId
                 /\ heap'[n].lun = heap[n].lun /\ heap'[n].sensNum = heap[n].sensNum
                 /\ n \notin FirstMatch(lun, num) => heap'[n] = heap[n]
<1>1. /\ heap \in Seq(Record) /\ Len(heap) \in Nat /\ DOMAIN heap = 1 .. Len(heap)
      /\ \A n \in DOMAIN heap : heap[n] \in Record
  BY HeapFacts
<1>2. heap' = [n \in DOMAIN heap |->
                 IF n \in FirstMatch(lun, num) THEN [heap[n] EXCEPT !.value = v] ELSE heap[n]]
  BY DEF UpdateSdr
<1>3. \A n \in DOMAIN heap :
         /\ heap'[n] \in Record
         /\ heap'[n].next = heap[n].next /\ heap'[n].recordId = heap[n].recordId
         /\ heap'[n].lun = heap[n].lun /\ heap'[n].sensNum = heap[n].sensNum
  BY <1>1, <1>2 DEF Record
<1>4. heap' \in [1 .. Len(heap) -> Record]
  BY <1>1, <1>2, <1>3
<1>5. heap' \in Seq(Record) /\ Len(heap') = Len(heap)
  BY <1>1, <1>4, SeqDef, LenProperties
<1> QED
  BY <1>1, <1>2, <1>3, <1>5

(* A new value changes neither ids nor pointers. *)
LEMMA UpdateSdrKeeps ==
    ASSUME IInv, NEW lun, NEW num, NEW v \in Values, UpdateSdr(lun, num, v)
    PROVE  IInv'
<1>1. UNCHANGED <<head, tail, sdrCount, nextFreeEntryId, reservation, stamped>>
  BY DEF UpdateSdr
<1>2. TypeOK
  BY DEF IInv
<1> QED
  BY <1>1, <1>2, UpdatedHeap, NewValuesKeep

(* An erase leaves the heap to the collector and both pointers nil. *)
LEMMA ClearSdrRepositoryKeeps ==
    ASSUME IInv, NEW r, ClearSdrRepository(r)
    PROVE  IInv'
<1>0. TypeOK /\ PointersAgree /\ NoDanglingNext /\ IdsCount /\ AllLive
  BY DEF IInv
<1>1. /\ head' = 0 /\ tail' = 0
      /\ stamped' = stamped \cup {"mainSdrs.lastEraseTime"}
      /\ UNCHANGED <<heap, sdrCount, nextFreeEntryId, reservation>>
  BY DEF ClearSdrRepository
<1>2. \A n \in DOMAIN heap : n \in Nat /\ Len(heap) \in Nat
  BY <1>0, HeapFacts
<1>3. TypeOK'
  <2>1. 0 \in 0 .. Len(heap)
    BY <1>0, HeapFacts
  <2> QED
    BY <1>0, <1>1, <2>1 DEF TypeOK, TimeFields
<1>4. PointersAgree' /\ NoDanglingNext'
  BY <1>0, <1>1, <1>2 DEF PointersAgree, NoDanglingNext, Live
<1>5. IdsCount' /\ AllLive'
  BY <1>0, <1>1 DEF IdsCount, AllLive
<1> QED
  BY <1>3, <1>4, <1>5 DEF IInv

(* A reservation is a counter of its own. *)
LEMMA ReserveSdrRepositoryKeeps ==
    ASSUME IInv, ReserveSdrRepository
    PROVE  IInv'
<1>1. TypeOK /\ PointersAgree /\ NoDanglingNext /\ IdsCount /\ AllLive
  BY DEF IInv
<1>2. UNCHANGED <<heap, head, tail, sdrCount, nextFreeEntryId, stamped>>
  BY DEF ReserveSdrRepository
<1>3. reservation' \in 0 .. WordMod - 1
  BY <1>1, SizeAssumption DEF ReserveSdrRepository, NextReservation, TypeOK
<1>4. TypeOK'
  BY <1>1, <1>2, <1>3 DEF TypeOK
<1>5. PointersAgree' /\ NoDanglingNext' /\ IdsCount' /\ AllLive'
  BY <1>1, <1>2 DEF PointersAgree, NoDanglingNext, IdsCount, AllLive, Live
<1> QED
  BY <1>4, <1>5 DEF IInv

(* Nothing else changes when no variable does. *)
LEMMA StutterKeeps ==
    ASSUME IInv, UNCHANGED sdrVars
    PROVE  IInv'
BY DEF IInv, TypeOK, PointersAgree, NoDanglingNext, IdsCount, AllLive, Live, sdrVars

(* Every request keeps the invariant. *)
LEMMA CommandKeeps == IInv /\ [Command]_sdrVars => IInv'
<1> SUFFICES ASSUME IInv, [Command]_sdrVars PROVE IInv'
  OBVIOUS
<1>1. ASSUME NEW l \in Luns, NEW k \in AddNums, AddSdr(l, k) PROVE IInv'
  <2>1. CASE UNCHANGED sdrVars
    BY <2>1, StutterKeeps
  <2>2. CASE AddSdrEntry(k)
    BY <2>2, AddSdrEntryKeeps, SensorAssumption
  <2> QED
    BY <1>1, <2>1, <2>2 DEF AddSdr
<1>2. ASSUME NEW l \in Luns, NEW k \in UpdateNums, NEW v \in Values, UpdateSdr(l, k, v)
      PROVE  IInv'
  BY <1>2, UpdateSdrKeeps
<1>3. ASSUME ReserveSdrRepository PROVE IInv'
  BY <1>3, ReserveSdrRepositoryKeeps
<1>4. ASSUME NEW r \in 0 .. WordMod - 1, ClearSdrRepository(r) PROVE IInv'
  BY <1>4, ClearSdrRepositoryKeeps
<1>5. CASE UNCHANGED sdrVars
  BY <1>5, StutterKeeps
<1> QED
  BY <1>1, <1>2, <1>3, <1>4, <1>5 DEF Command

-----------------------------------------------------------------------------
(* The invariant holds in every state of the repository. *)
THEOREM Invariance == Spec => []IInv
<1>1. Init => IInv
  BY InitEstablishes
<1>2. IInv /\ [Command]_sdrVars => IInv'
  BY CommandKeeps
<1> QED
  BY <1>1, <1>2, PTL DEF Spec

(* Counters stay in their words and pointers among the records. *)
THEOREM TypeCorrect == Spec => []TypeOK
<1>1. IInv => TypeOK
  BY DEF IInv
<1> QED
  BY <1>1, Invariance, PTL

(* Whatever is added and erased, head, tail and the next pointers describe
   one list, and no erased record leads back into it. *)
THEOREM PointersAlwaysAgree == Spec => []PointersAgree
<1>1. IInv => PointersAgree
  BY DEF IInv
<1> QED
  BY <1>1, Invariance, PTL

(* No id is handed out twice before the 16 bit counter wraps. *)
THEOREM IdsAreUnique == Spec => []IdsNeverReused
<1>1. ASSUME IInv PROVE IdsNeverReused
  <2>1. \A n \in DOMAIN heap : n \in Nat
    BY <1>1, HeapFacts DEF IInv
  <2> QED
    BY <1>1, <2>1 DEF IInv, IdsCount, IdsNeverReused
<1> QED
  BY <1>1, Invariance, PTL

(* The count reported is the length of the list until the first erase. *)
THEOREM CountIsLength == Spec => []CountUntilErase
<1>1. ASSUME IInv PROVE CountUntilErase
  <2>1. TypeOK /\ PointersAgree /\ AllLive
    BY <1>1 DEF IInv
  <2>2. Len(heap) \in Nat /\ (heap = <<>> => Len(heap) = 0) /\ heap \in Seq(Record)
    BY <2>1, HeapFacts
  <2>3. heap # <<>> => Len(heap) # 0
    BY <2>2, EmptySeq
  <2> QED
    BY <2>1, <2>2, <2>3 DEF AllLive, CountUntilErase, TypeOK
<1> QED
  BY <1>1, Invariance, PTL

-----------------------------------------------------------------------------
(* Until the ids run out, an id is the place of its record: Get SDR finds the
   record with that id if it is live. *)
LEMMA LookupById ==
    ASSUME IInv, Len(heap) < LastId, NEW id \in 1 .. LastId - 1
    PROVE  Lookup(id) = {n \in Live : n = id} /\ Live \subseteq DOMAIN heap
<1>1. /\ DOMAIN heap = 1 .. Len(heap) /\ Len(heap) \in Nat /\ head \in Nat /\ tail \in Nat
      /\ LastId = WordMod - 1 /\ WordMod \in Nat
  BY HeapFacts, SizeAssumption DEF IInv, TypeOK, LastId
<1>2. \A m \in DOMAIN heap : heap[m].recordId = m
  BY <1>1 DEF IInv, IdsCount
<1>3. Live \subseteq DOMAIN heap
  <2>1. head # 0 => head >= 1 /\ tail <= Len(heap)
    BY <1>1 DEF IInv, TypeOK
  <2> QED
    BY <1>1, <2>1 DEF Live
<1>4. id # 0 /\ id # LastId
  BY <1>1
<1> QED
  BY <1>2, <1>3, <1>4 DEF Lookup

(* The id in the reply is that of the next record, whose place is one on. *)
LEMMA NextIdIs ==
    ASSUME IInv, Len(heap) < LastId, NEW n \in DOMAIN heap
    PROVE  IF heap[n].next = 0 THEN NextId(n) = LastId
           ELSE /\ n + 1 \in DOMAIN heap /\ n + 1 \in 1 .. LastId - 1
                /\ heap[n].next = n + 1 /\ NextId(n) = n + 1
<1>1. /\ DOMAIN heap = 1 .. Len(heap) /\ Len(heap) \in Nat
      /\ LastId = WordMod - 1 /\ WordMod \in Nat
  BY HeapFacts, SizeAssumption DEF IInv, TypeOK, LastId
<1>2. CASE heap[n].next = 0
  BY <1>2 DEF NextId
<1>3. CASE heap[n].next # 0
  <2>1. heap[n].next = n + 1 /\ n + 1 <= Len(heap)
    BY <1>3 DEF IInv, PointersAgree, NoDanglingNext
  <2>2. n + 1 \in DOMAIN heap /\ n + 1 \in 1 .. LastId - 1
    BY <1>1, <2>1
  <2>3. heap[n + 1].recordId = n + 1
    BY <1>1, <2>2 DEF IInv, IdsCount
  <2> QED
    BY <1>3, <2>1, <2>2, <2>3 DEF NextId
<1> QED
  BY <1>2, <1>3

(* Every record that is live is found under its id, and the id of the reply is
   that of the record behind it, until the ids run out (getSdr). *)
THEOREM RecordsAreServed == Spec => []EveryRecordServed
<1>1. ASSUME IInv, Len(heap) < LastId, NEW n \in Live
      PROVE  /\ GetSdr(0, heap[n].recordId).rec = n
             /\ n # tail => Lookup(NextId(n)) = {n + 1}
  <2>1. /\ DOMAIN heap = 1 .. Len(heap) /\ Len(heap) \in Nat
        /\ head \in Nat /\ tail \in Nat /\ head # 0 /\ tail = Len(heap) /\ head <= tail
        /\ LastId = WordMod - 1 /\ WordMod \in Nat
    BY <1>1, HeapFacts, SizeAssumption DEF IInv, TypeOK, PointersAgree, Live, LastId
  <2>2. n \in DOMAIN heap /\ n \in 1 .. LastId - 1
    BY <1>1, <2>1 DEF Live
  <2>3. Lookup(n) = {n} /\ heap[n].recordId = n
    BY <1>1, <2>1, <2>2, LookupById DEF IInv, IdsCount
  <2>4. GetSdr(0, n).rec = n
    <3>1. Reserved(0)
      BY DEF Reserved
    <3>2. (CHOOSE m \in {n} : TRUE) = n
      OBVIOUS
    <3> QED
      BY <2>3, <3>1, <3>2, Zenon DEF GetSdr
  <2>5. ASSUME n # tail PROVE Lookup(NextId(n)) = {n + 1}
    <3>1. heap[n].next = n + 1 /\ n + 1 # 0 /\ n + 1 \in Live
      BY <1>1, <2>1, <2>5 DEF IInv, PointersAgree, Live
    <3>2. NextId(n) = n + 1 /\ n + 1 \in 1 .. LastId - 1
      BY <1>1, <2>2, <3>1, NextIdIs
    <3> QED
      BY <1>1, <3>1, <3>2, LookupById
  <2> QED
    BY <2>3, <2>4, <2>5
<1>2. IInv => EveryRecordServed
  BY <1>1 DEF EveryRecordServed
<1> QED
  BY <1>2, Invariance, PTL

-----------------------------------------------------------------------------
(* A set of numbers that is not empty has a least one. *)
LEMMA Least ==
    ASSUME NEW T, T \subseteq Nat, T # {} PROVE \E x \in T : \A y \in T : x <= y
<1> DEFINE R == OpToRel(<, Nat)
<1>1. \A x, y \in Nat : x < y => <<x, y>> \in R
  BY DEF OpToRel
<1>2. IsWellFoundedOn(R, Nat)
  BY NatLessThanWellFounded
<1> HIDE DEF R
<1>3. PICK x \in T : \A y \in T : ~(<<y, x>> \in R)
  BY <1>2, WFMin
<1>4. ASSUME NEW y \in T PROVE x <= y
  <2>1. x \in Nat /\ y \in Nat
    OBVIOUS
  <2>2. ~(y < x)
    BY <1>1, <1>3, <2>1, Zenon
  <2> QED
    BY <2>1, <2>2
<1> QED
  BY <1>4

(* The walk finds a record if there is one. *)
LEMMA WalkFinds ==
    ASSUME TypeOK, NEW lun, NEW num, FirstMatch(lun, num) = {}, NEW n \in Live
    PROVE  ~(heap[n].lun = lun /\ heap[n].sensNum = num)
<1> DEFINE T == {m \in Live : heap[m].lun = lun /\ heap[m].sensNum = num}
<1>1. Live \subseteq Nat
  BY HeapFacts DEF TypeOK, Live
<1>2. ASSUME n \in T PROVE FALSE
  <2>1. T \subseteq Nat /\ T # {}
    BY <1>1, <1>2
  <2>2. PICK x \in T : \A y \in T : x <= y
    BY <2>1, Least
  <2>3. \A m \in Live : m < x => ~(heap[m].lun = lun /\ heap[m].sensNum = num)
    BY <1>1, <2>1, <2>2
  <2>4. x \in FirstMatch(lun, num)
    BY <2>2, <2>3 DEF FirstMatch
  <2> QED
    BY <2>4
<1> QED
  BY <1>2

(* newSdrEntry leaves the lun 0, so walks for lun 0 see every record. *)
OneEach == NoDuplicates /\ \A n \in DOMAIN heap : heap[n].lun = 0

LEMMA AddKeepsOneEach ==
    ASSUME IInv, OneEach, NEW num \in Nat, FirstMatch(0, num) = {}, AddSdrEntry(num)
    PROVE  OneEach'
<1> DEFINE L == Len(heap)
           new == NewRecord(num)
<1>1. TypeOK /\ PointersAgree
  BY DEF IInv
<1>2. L \in Nat /\ DOMAIN heap = 1 .. L
  BY <1>1, HeapFacts
<1>3. new \in Record /\ new.lun = 0 /\ new.sensNum = num
  BY <1>1, SensorAssumption DEF NewRecord, Record, TypeOK
<1>4. head # 0 => tail \in DOMAIN heap
  BY <1>1, <1>2 DEF TypeOK, PointersAgree
<1>5. heap' = Linked(new) /\ head' = (IF head = 0 THEN L + 1 ELSE head) /\ tail' = L + 1
  BY DEF AddSdrEntry
<1> HIDE DEF new
<1>6. /\ heap' \in Seq(Record) /\ Len(heap') = L + 1 /\ heap'[L + 1] = new
      /\ \A n \in DOMAIN heap : heap'[n].lun = heap[n].lun /\ heap'[n].sensNum = heap[n].sensNum
  BY <1>1, <1>3, <1>4, <1>5, LinkedHeap
<1>7. DOMAIN heap' = 1 .. L + 1
  BY <1>6, LenProperties
<1>8. \A n \in Live' : n = L + 1 \/ (n \in Live /\ n \in DOMAIN heap)
  <2>1. head \in 0 .. L /\ tail \in 0 .. L
    BY <1>1 DEF TypeOK
  <2>2. head # 0 => tail = L
    BY <1>1 DEF PointersAgree
  <2>3. Live' = (IF head' = 0 THEN {} ELSE head' .. tail')
        /\ Live = IF head = 0 THEN {} ELSE head .. tail
    BY DEF Live
  <2> HIDE DEF L
  <2> QED
    BY <1>2, <1>5, <2>1, <2>2, <2>3
<1>9. \A n \in Live : ~(heap[n].lun = 0 /\ heap[n].sensNum = num)
  BY <1>1, WalkFinds
<1>10. NoDuplicates'
  <2> SUFFICES ASSUME NEW m \in Live', NEW n \in Live', heap'[m].lun = heap'[n].lun,
                      heap'[m].sensNum = heap'[n].sensNum
               PROVE  m = n
    BY DEF NoDuplicates
  <2>1. CASE m = L + 1 /\ n # L + 1
    BY <1>3, <1>6, <1>8, <1>9, <2>1
  <2>2. CASE m # L + 1 /\ n = L + 1
    BY <1>3, <1>6, <1>8, <1>9, <2>2
  <2>3. CASE m # L + 1 /\ n # L + 1
    BY <1>6, <1>8, <2>3 DEF OneEach, NoDuplicates
  <2> QED
    BY <2>1, <2>2, <2>3
<1>11. \A n \in DOMAIN heap' : heap'[n].lun = 0
  BY <1>2, <1>3, <1>6, <1>7 DEF OneEach
<1> QED
  BY <1>10, <1>11 DEF OneEach

(* As long as clients name no other lun, no sensor gets a second record,
   however often its Add SDR is repeated (addSdr, "check for duplicate
   SDRs"). *)
THEOREM SensorsHaveOneRecord == Luns = {0} => (Spec => []NoDuplicates)
<1> SUFFICES ASSUME Luns = {0} PROVE Spec => []NoDuplicates
  OBVIOUS
<1>1. Init => OneEach
  <2> SUFFICES ASSUME Init PROVE OneEach
    OBVIOUS
  <2>1. /\ DOMAIN heap = 1 .. Len(LocalSensors) /\ Len(LocalSensors) \in Nat
        /\ \A n \in 1 .. Len(LocalSensors) : heap[n].lun = 0 /\ heap[n].sensNum = LocalSensors[n]
    BY SensorAssumption, LenProperties DEF Init
  <2>2. Live \subseteq 1 .. Len(LocalSensors)
    BY <2>1 DEF Init, Live
  <2> QED
    BY <2>1, <2>2, SensorAssumption DEF OneEach, NoDuplicates
<1>2. ASSUME IInv, OneEach, [Command]_sdrVars PROVE OneEach'
  <2>1. ASSUME NEW k \in AddNums, AddSdr(0, k), ~UNCHANGED sdrVars PROVE OneEach'
    BY <1>2, <2>1, AddKeepsOneEach, SensorAssumption DEF AddSdr
  <2>2. ASSUME NEW l, NEW k, NEW v \in Values, UpdateSdr(l, k, v) PROVE OneEach'
    <3>1. UNCHANGED Live
      BY <2>2 DEF UpdateSdr, Live
    <3>2. Live \subseteq DOMAIN heap
      BY <1>2, HeapFacts DEF IInv, TypeOK, Live
    <3> QED
      BY <1>2, <2>2, <3>1, <3>2, UpdatedHeap DEF IInv, OneEach, NoDuplicates
  <2>3. CASE ReserveSdrRepository
    BY <1>2, <2>3 DEF ReserveSdrRepository, OneEach, NoDuplicates, Live
  <2>4. ASSUME NEW r, ClearSdrRepository(r) PROVE OneEach'
    BY <1>2, <2>4 DEF ClearSdrRepository, OneEach, NoDuplicates, Live
  <2>5. CASE UNCHANGED sdrVars
    BY <1>2, <2>5 DEF sdrVars, OneEach, NoDuplicates, Live
  <2> QED
    BY <1>2, <2>1, <2>2, <2>3, <2>4, <2>5 DEF Command
<1>3. OneEach => NoDuplicates
  BY DEF OneEach
<1> QED
  BY <1>1, <1>2, <1>3, Invariance, PTL DEF Spec

-----------------------------------------------------------------------------
(* What the commands do to the readings of sensors, for the modules that
   compose the repository with its clients. *)

(* After an Add SDR the sensor has a record, and no other sensor's record or
   reading is touched. *)
LEMMA AddStores ==
    ASSUME IInv, NEW num \in Nat, AddSdr(0, num)
    PROVE  /\ FirstMatch(0, num)' # {}
           /\ \A k : FirstMatch(0, k) # {} =>
                 FirstMatch(0, k)' # {} /\ SensorReading(0, k)' = SensorReading(0, k)
<1> DEFINE L == Len(heap)
           new == NewRecord(num)
<1>1. TypeOK /\ PointersAgree
  BY DEF IInv
<1>2. CASE UNCHANGED sdrVars /\ FirstMatch(0, num) # {}
  BY <1>2 DEF sdrVars, FirstMatch, Live, SensorReading
<1>3. CASE FirstMatch(0, num) = {} /\ AddSdrEntry(num)
  <2>1. L \in Nat /\ DOMAIN heap = 1 .. L
    BY <1>1, HeapFacts
  <2>2. new \in Record /\ new.lun = 0 /\ new.sensNum = num
    BY <1>1, SensorAssumption DEF NewRecord, Record, TypeOK
  <2>3. head # 0 => tail \in DOMAIN heap
    BY <1>1, <2>1 DEF TypeOK, PointersAgree
  <2>4. heap' = Linked(new) /\ head' = (IF head = 0 THEN L + 1 ELSE head) /\ tail' = L + 1
    BY <1>3 DEF AddSdrEntry
  <2> HIDE DEF new
  <2>5. /\ heap'[L + 1] = new
        /\ \A n \in DOMAIN heap : /\ heap'[n].lun = heap[n].lun
                                  /\ heap'[n].sensNum = heap[n].sensNum
                                  /\ heap'[n].value = heap[n].value
    BY <1>1, <2>2, <2>3, <2>4, LinkedHeap
  <2>6. Live' = Live \cup {L + 1} /\ Live \subseteq 1 .. L
    <3>1. head \in 0 .. L /\ tail \in 0 .. L
      BY <1>1 DEF TypeOK
    <3>2. head # 0 => tail = L
      BY <1>1 DEF PointersAgree
    <3>3. Live' = (IF head' = 0 THEN {} ELSE head' .. tail')
          /\ Live = IF head = 0 THEN {} ELSE head .. tail
      BY DEF Live
    <3> HIDE DEF L
    <3> QED
      BY <2>1, <2>4, <3>1, <3>2, <3>3
  <2>7. L + 1 \in FirstMatch(0, num)'
    <3>1. \A n \in Live : ~(heap'[n].lun = 0 /\ heap'[n].sensNum = num)
      BY <1>1, <1>3, <2>1, <2>5, <2>6, WalkFinds
    <3>2. \A n \in Live' : n < L + 1 => n \in Live
      BY <2>1, <2>6
    <3> QED
      BY <2>2, <2>5, <2>6, <3>1, <3>2 DEF FirstMatch
  <2>8. ASSUME NEW k, FirstMatch(0, k) # {}
        PROVE  FirstMatch(0, k)' # {} /\ SensorReading(0, k)' = SensorReading(0, k)
    <3>1. PICK n \in Live : n \in FirstMatch(0, k)
      BY <2>8 DEF FirstMatch
    <3>2. heap[n].lun = 0 /\ heap[n].sensNum = k
          /\ \A m \in Live : m < n => ~(heap[m].lun = 0 /\ heap[m].sensNum = k)
      BY <3>1 DEF FirstMatch
    <3>3. n \in Live' /\ heap'[n].lun = 0 /\ heap'[n].sensNum = k
      BY <2>1, <2>5, <2>6, <3>2
    <3>4. \A m \in Live' : m < n => m \in Live /\ ~(heap'[m].lun = 0 /\ heap'[m].sensNum = k)
      BY <2>1, <2>5, <2>6, <3>2
    <3> DEFINE match == FirstMatch(0, k)
    <3>5. match' = {n}
      <4>1. ASSUME NEW m \in match' PROVE m = n
        <5>1. m \in Live' /\ heap'[m].lun = 0 /\ heap'[m].sensNum = k /\ ~(n < m)
          BY <3>3, <4>1 DEF FirstMatch
        <5> QED
          BY <2>1, <2>6, <3>4, <5>1
      <4> QED
        BY <3>3, <3>4, <4>1 DEF FirstMatch
    <3>6. match = {n}
      <4>1. ASSUME NEW m \in match PROVE m = n
        <5>1. m \in Live /\ heap[m].lun = 0 /\ heap[m].sensNum = k /\ ~(n < m)
          BY <3>2, <4>1 DEF FirstMatch
        <5> QED
          BY <2>1, <2>6, <3>2, <5>1
      <4> QED
        BY <3>1, <4>1
    <3>7. heap'[n].value = heap[n].value
      BY <2>1, <2>5, <2>6
    <3> QED
      BY <3>5, <3>6, <3>7 DEF SensorReading
  <2> QED
    BY <2>7, <2>8
<1> QED
  BY <1>2, <1>3 DEF AddSdr

(* An update writes the value of its sensor, if that has a record, and no
   other. *)
LEMMA UpdateWrites ==
    ASSUME IInv, NEW num, NEW v \in Values, UpdateSdr(0, num, v)
    PROVE  \A k : /\ FirstMatch(0, k)' = FirstMatch(0, k)
                  /\ SensorReading(0, k)' = IF k = num /\ FirstMatch(0, num) # {}
                                               THEN {v} ELSE SensorReading(0, k)
<1> SUFFICES ASSUME NEW k
             PROVE  /\ FirstMatch(0, k)' = FirstMatch(0, k)
                    /\ SensorReading(0, k)' = IF k = num /\ FirstMatch(0, num) # {}
                                                 THEN {v} ELSE SensorReading(0, k)
  OBVIOUS
<1>1. TypeOK
  BY DEF IInv
<1>2. UNCHANGED Live /\ Live \subseteq DOMAIN heap
  BY <1>1, HeapFacts DEF UpdateSdr, Live, TypeOK
<1>3. \A n \in Live : heap'[n].lun = heap[n].lun /\ heap'[n].sensNum = heap[n].sensNum
                      /\ (n \notin FirstMatch(0, num) => heap'[n] = heap[n])
  BY <1>1, <1>2, UpdatedHeap
<1>4. FirstMatch(0, k)' = FirstMatch(0, k) /\ FirstMatch(0, k) \subseteq Live
  BY <1>2, <1>3 DEF FirstMatch
<1>5. CASE k = num
  <2>1. \A n \in FirstMatch(0, num) : heap'[n].value = v
    <3> SUFFICES ASSUME NEW n \in FirstMatch(0, num) PROVE heap'[n].value = v
      OBVIOUS
    <3>1. n \in DOMAIN heap /\ heap[n] \in Record
      BY <1>1, <1>2, HeapFacts DEF FirstMatch
    <3>2. heap'[n] = [heap[n] EXCEPT !.value = v]
      BY <3>1 DEF UpdateSdr
    <3> QED
      BY <3>1, <3>2 DEF Record
  <2> QED
    BY <1>4, <1>5, <2>1 DEF SensorReading
<1>6. CASE k # num
  <2>1. \A n \in FirstMatch(0, k) : n \notin FirstMatch(0, num)
    BY <1>6 DEF FirstMatch
  <2> QED
    BY <1>3, <1>4, <1>6, <2>1 DEF SensorReading
<1> QED
  BY <1>4, <1>5, <1>6

==============================================================================
