------------------------- MODULE SensorPollerProofs -------------------------
(***************************************************************************)
(* Proofs about SensorPoller: whatever the main loop does between two      *)
(* reads of the poller, its walk ends at its own sensor's record as long   *)
(* as nothing is erased, and a reading is never written to another record. *)
(***************************************************************************)
EXTENDS SensorPoller, SdrRepositoryProofs

N == Len(LocalSensors)

(* The types of the poller's variables, and a sensor chosen while it runs. *)
PollerTypes ==
    /\ pc \in {"wait", "sample", "walk"}
    /\ pc = "wait" <=> k = 0
    /\ k \in 0 .. N
    /\ cursor \in 0 .. Len(heap)
    /\ sensorValue \in [Sensors -> Values]
    /\ up \in BOOLEAN

(* The records of the local sensors are the first of the list. *)
LocalFirst ==
    /\ N <= Len(heap)
    /\ head = (IF heap = <<>> THEN 0 ELSE 1)
    /\ tail = Len(heap)
    /\ \A i \in Sensors : heap[i].lun = 0 /\ heap[i].sensNum = LocalSensors[i]

(* A walk is never past the record it looks for, nor at its end. *)
NotPast == up /\ (pc = "walk" => 0 < cursor /\ cursor <= k)

(* The inductive invariant of the poller and the repository together. *)
PInv == IInv /\ PollerTypes /\ (~Erased => LocalFirst /\ NotPast)

(* The value in the record of each local sensor is the one it was sampled at,
   but for the one that is on its way. *)
ValuesInPlace ==
    ~Erased => \A i \in Sensors : heap[i].value = sensorValue[i] \/ (pc = "walk" /\ k = i)

(* Line cards send values for their own sensors only. *)
NobodyElseUpdates == \A i \in Sensors : LocalSensors[i] \notin UpdateNums

-----------------------------------------------------------------------------
(* What is known of the constants. *)
LEMMA Constants ==
    /\ N \in Nat /\ Sensors = 1 .. N
    /\ \A i \in Sensors : LocalSensors[i] \in Nat
    /\ \A i, j \in Sensors : LocalSensors[i] = LocalSensors[j] => i = j
BY SensorAssumption, LenProperties, ElementOfSeq DEF N, Sensors

(* The local records are live, and each is the first of its sensor. *)
LEMMA LocalRecordFirst ==
    ASSUME IInv, LocalFirst, NEW i \in Sensors
    PROVE  /\ i \in Live /\ i \in DOMAIN heap
           /\ FirstMatch(0, LocalSensors[i]) = {i}
<1>1. i \in 1 .. N /\ N \in Nat /\ Len(heap) \in Nat /\ DOMAIN heap = 1 .. Len(heap)
  BY Constants, HeapFacts DEF IInv
<1>2. i \in DOMAIN heap /\ N <= Len(heap)
  BY <1>1 DEF LocalFirst
<1>3. heap # <<>>
  BY <1>1, <1>2, HeapFacts, EmptySeq DEF IInv
<1>4. Live = 1 .. Len(heap)
  BY <1>3 DEF LocalFirst, Live
<1>5. i \in Live
  BY <1>1, <1>2, <1>4
<1>6. heap[i].lun = 0 /\ heap[i].sensNum = LocalSensors[i]
  BY DEF LocalFirst
<1>7. ASSUME NEW m \in Live, m < i PROVE heap[m].sensNum # LocalSensors[i]
  <2>1. m \in Sensors /\ m # i
    BY <1>1, <1>2, <1>4, <1>7, Constants
  <2> QED
    BY <2>1, Constants DEF LocalFirst
<1>8. i \in FirstMatch(0, LocalSensors[i])
  BY <1>5, <1>6, <1>7 DEF FirstMatch
<1>9. ASSUME NEW n \in FirstMatch(0, LocalSensors[i]) PROVE n = i
  <2>1. /\ n \in Live /\ heap[n].sensNum = LocalSensors[i]
        /\ \A m \in Live : m < n =>
              ~(heap[m].lun = 0 /\ heap[m].sensNum = LocalSensors[i])
    BY <1>9 DEF FirstMatch
  <2>2. ~(n < i) /\ ~(i < n)
    BY <1>5, <1>6, <1>7, <2>1
  <2> QED
    BY <1>1, <1>4, <2>1, <2>2
<1> QED
  BY <1>2, <1>5, <1>8, <1>9

(* The walk moves on within the list, and not past its sensor's record. *)
LEMMA WalkStaysBefore ==
    ASSUME PInv, ~Erased, WalkOn
    PROVE  heap[cursor].next = cursor + 1 /\ cursor < k
<1>1. /\ IInv /\ LocalFirst /\ NotPast /\ pc = "walk" /\ ~AtSensor
      /\ k \in 0 .. N /\ cursor \in 0 .. Len(heap)
  BY DEF PInv, WalkOn, PollerTypes
<1>2. 0 < cursor /\ cursor <= k
  BY <1>1 DEF NotPast
<1>3. k \in Sensors /\ N \in Nat /\ Len(heap) \in Nat
  BY <1>1, <1>2, Constants, HeapFacts DEF IInv
<1>4. heap[k].lun = 0 /\ heap[k].sensNum = LocalSensors[k] /\ N <= Len(heap)
  BY <1>1, <1>3 DEF LocalFirst
<1>5. cursor # k
  BY <1>1, <1>4 DEF AtSensor
<1>6. cursor < k
  BY <1>1, <1>2, <1>3, <1>5
<1>7. cursor \in Sensors
  BY <1>1, <1>2, <1>3, <1>6, Constants
<1>8. cursor \in Live /\ cursor \in DOMAIN heap
  BY <1>1, <1>7, LocalRecordFirst
<1>9. cursor # tail
  BY <1>1, <1>3, <1>4, <1>6, Constants DEF LocalFirst
<1> QED
  BY <1>1, <1>6, <1>8, <1>9 DEF IInv, PointersAgree

(* The initial state: the walk has not begun, the local records are there. *)
LEMMA PollInitEstablishes == PollInit => PInv
<1> SUFFICES ASSUME PollInit, Init PROVE PInv
  BY DEF PollInit
<1>1. IInv
  BY InitEstablishes
<1>2. 0 \in Values /\ N \in Nat
  BY SensorAssumption, Constants
<1>3. heap = [n \in 1 .. N |->
                 [recordId |-> n, lun |-> 0, sensNum |-> LocalSensors[n], value |-> 0,
                  next |-> IF n < N THEN n + 1 ELSE 0]]
  BY DEF Init, N
<1>4. Len(heap) = N /\ DOMAIN heap = 1 .. N
  <2>1. DOMAIN heap = 1 .. N
    BY <1>3
  <2>2. \A n \in 1 .. N : heap[n] \in Record
    BY <1>1, <2>1, HeapFacts DEF IInv
  <2>3. heap \in [1 .. N -> Record]
    BY <1>3, <2>2
  <2> QED
    BY <1>2, <2>1, <2>3, SeqDef
<1>5. PollerTypes
  BY <1>2, <1>4 DEF PollInit, PollerTypes
<1>6. LocalFirst
  <2>1. LocalSensors = <<>> <=> N = 0
    BY SensorAssumption, EmptySeq DEF N
  <2>2. heap = <<>> <=> N = 0
    BY <1>1, <1>4, EmptySeq DEF IInv, TypeOK
  <2>3. head = (IF heap = <<>> THEN 0 ELSE 1) /\ tail = N
    BY <2>1, <2>2 DEF Init, N
  <2>4. \A i \in Sensors : heap[i].lun = 0 /\ heap[i].sensNum = LocalSensors[i]
    BY <1>3, Constants
  <2>5. N <= Len(heap)
    BY <1>2, <1>4
  <2> QED
    BY <1>4, <2>3, <2>4, <2>5 DEF LocalFirst
<1>7. NotPast
  BY DEF PollInit, NotPast
<1> QED
  BY <1>1, <1>5, <1>6, <1>7 DEF PInv

(* A request changes nothing in front of a walk: it appends a record, sets
   values, counts, or erases. *)
LEMMA RequestGrows ==
    ASSUME IInv, Command
    PROVE  /\ Len(heap') >= Len(heap)
           /\ Erased => Erased'
           /\ LocalFirst /\ ~Erased' => LocalFirst'
<1>1. TypeOK /\ heap \in Seq(Record) /\ Len(heap) \in Nat /\ DOMAIN heap = 1 .. Len(heap)
      /\ head \in 0 .. Len(heap) /\ (head # 0 => tail = Len(heap) /\ head <= tail)
  BY HeapFacts DEF IInv, PointersAgree, TypeOK
<1>2. LocalFirst => \A i \in Sensors : i \in DOMAIN heap
  BY LocalRecordFirst
<1>3. ASSUME NEW key \in AddNums, AddSdrEntry(key)
      PROVE  /\ Len(heap') >= Len(heap) /\ (Erased => Erased')
             /\ LocalFirst => LocalFirst'
  <2>1. /\ head' = (IF head = 0 THEN Len(heap) + 1 ELSE head) /\ tail' = Len(heap) + 1
        /\ stamped' = stamped \cup {"sel.lastAddTime"}
        /\ heap' = Linked(NewRecord(key))
    BY <1>3 DEF AddSdrEntry
  <2>2. NewRecord(key) \in Record
    <3>1. nextFreeEntryId \in 0 .. WordMod - 1 /\ 0 \in Values /\ key \in Nat
      BY <1>1, SensorAssumption DEF TypeOK
    <3>2. 0 \in 0 .. 3 /\ 0 \in Nat
      OBVIOUS
    <3> QED
      BY <3>1, <3>2, SMTT(20) DEF NewRecord, Record
  <2>3. head # 0 => tail \in DOMAIN heap
    BY <1>1
  <2>4. /\ heap' \in Seq(Record) /\ Len(heap') = Len(heap) + 1
        /\ \A n \in DOMAIN heap : heap'[n].lun = heap[n].lun
                                  /\ heap'[n].sensNum = heap[n].sensNum
    BY <1>1, <2>1, <2>2, <2>3, LinkedHeap, ZenonT(40)
  <2>5. ASSUME LocalFirst PROVE LocalFirst'
    <3>1. N \in Nat /\ N <= Len(heap) /\ heap' # <<>>
      BY <1>1, <2>4, <2>5, EmptySeq, Constants DEF LocalFirst
    <3>2. heap = <<>> => head' = 1
      BY <1>1, <2>1, <2>5, EmptySeq DEF LocalFirst
    <3>3. heap # <<>> => head' = 1
      BY <2>1, <2>5 DEF LocalFirst
    <3>4. \A i \in Sensors : heap'[i].lun = 0 /\ heap'[i].sensNum = LocalSensors[i]
      BY <1>2, <2>4, <2>5 DEF LocalFirst
    <3>5. N <= Len(heap') /\ tail' = Len(heap')
      BY <1>1, <2>1, <2>4, <3>1
    <3> QED
      BY <3>1, <3>2, <3>3, <3>4, <3>5 DEF LocalFirst
  <2> QED
    BY <1>1, <2>1, <2>4, <2>5 DEF Erased
<1>4. CASE UNCHANGED sdrVars
  BY <1>1, <1>4 DEF sdrVars, LocalFirst, Erased
<1>5. ASSUME NEW l \in Luns, NEW key \in AddNums, AddSdr(l, key)
      PROVE  Len(heap') >= Len(heap) /\ (Erased => Erased') /\ (LocalFirst => LocalFirst')
  <2>1. CASE UNCHANGED sdrVars
    BY <1>1, <2>1 DEF sdrVars, LocalFirst, Erased
  <2>2. CASE AddSdrEntry(key)
    BY <1>3, <2>2
  <2> QED
    BY <1>5, <2>1, <2>2 DEF AddSdr
<1>6. ASSUME NEW l \in Luns, NEW num \in UpdateNums, NEW v \in Values, UpdateSdr(l, num, v)
      PROVE  Len(heap') >= Len(heap) /\ (Erased => Erased') /\ (LocalFirst => LocalFirst')
  <2>1. UNCHANGED <<head, tail, stamped>>
    BY <1>6 DEF UpdateSdr
  <2>2. /\ heap' \in Seq(Record) /\ Len(heap') = Len(heap)
        /\ \A n \in DOMAIN heap : heap'[n].lun = heap[n].lun
                                  /\ heap'[n].sensNum = heap[n].sensNum
    BY <1>1, <1>6, UpdatedHeap
  <2>3. heap' = <<>> <=> heap = <<>>
    BY <1>1, <2>2, EmptySeq
  <2>4. ASSUME LocalFirst PROVE LocalFirst'
    <3>1. \A i \in Sensors : heap'[i].lun = 0 /\ heap'[i].sensNum = LocalSensors[i]
      BY <1>2, <2>2, <2>4 DEF LocalFirst
    <3> QED
      BY <2>1, <2>2, <2>3, <2>4, <3>1 DEF LocalFirst
  <2> QED
    BY <1>1, <2>1, <2>2, <2>4 DEF Erased
<1>7. ASSUME ReserveSdrRepository
      PROVE  Len(heap') >= Len(heap) /\ (Erased => Erased') /\ (LocalFirst => LocalFirst')
  BY <1>1, <1>7 DEF ReserveSdrRepository, LocalFirst, Erased
<1>8. ASSUME NEW r \in 0 .. WordMod - 1, ClearSdrRepository(r)
      PROVE  Len(heap') >= Len(heap) /\ Erased'
  BY <1>1, <1>8 DEF ClearSdrRepository, Erased
<1> QED
  BY <1>5, <1>6, <1>7, <1>8 DEF Command

(* The main loop keeps the invariant. *)
LEMMA MainLoopKeeps ==
    ASSUME PInv, Command, UNCHANGED pollVars
    PROVE  PInv'
<1>1. IInv'
  BY CommandKeeps DEF PInv
<1>2. /\ Len(heap') >= Len(heap)
      /\ Erased => Erased'
      /\ LocalFirst /\ ~Erased' => LocalFirst'
  BY RequestGrows DEF PInv
<1>3. PollerTypes'
  <2>1. cursor' \in 0 .. Len(heap')
    BY <1>1, <1>2, HeapFacts, LenProperties DEF pollVars, PInv, IInv, PollerTypes, TypeOK
  <2> QED
    BY <2>1 DEF pollVars, PInv, PollerTypes
<1>4. NotPast => NotPast'
  BY DEF pollVars, NotPast
<1> QED
  BY <1>1, <1>2, <1>3, <1>4 DEF PInv

(* So does every step of the poller. *)
LEMMA PollKeeps ==
    ASSUME PInv, Poll
    PROVE  PInv'
<1>0. IInv /\ PollerTypes /\ (~Erased => LocalFirst /\ NotPast)
  BY DEF PInv
<1>1. Len(heap) \in Nat /\ N \in Nat /\ Sensors = 1 .. N /\ head \in 0 .. Len(heap)
  BY <1>0, Constants, HeapFacts DEF IInv, TypeOK
<1>2. UNCHANGED sdrVars => IInv' /\ (LocalFirst => LocalFirst') /\ Erased' = Erased
                           /\ Len(heap') = Len(heap)
  BY <1>0, StutterKeeps DEF sdrVars, LocalFirst, Erased
<1>3. CASE Tick
  <2>1. k' = 1 /\ pc' = "sample" /\ N # 0 /\ UNCHANGED <<sdrVars, cursor, sensorValue, up>>
    BY <1>1, <1>3 DEF Tick
  <2>2. PollerTypes' /\ (NotPast => NotPast')
    BY <1>0, <1>1, <1>2, <2>1 DEF PollerTypes, NotPast
  <2> QED
    BY <1>0, <1>2, <2>1, <2>2 DEF PInv
<1>4. ASSUME NEW v \in Values, Sample(v) PROVE PInv'
  <2>1. /\ pc = "sample" /\ sensorValue' = [sensorValue EXCEPT ![k] = v] /\ cursor' = head
        /\ pc' = "walk" /\ UNCHANGED <<sdrVars, k, up>>
    BY <1>4 DEF Sample
  <2>2. k \in Sensors
    BY <1>0, <1>1, <2>1 DEF PollerTypes
  <2>3. PollerTypes'
    BY <1>0, <1>1, <1>2, <2>1, <2>2 DEF PollerTypes
  <2>4. ASSUME ~Erased PROVE NotPast'
    <3>1. head = 1
      BY <1>0, <1>1, <2>2, <2>4, LocalRecordFirst DEF LocalFirst, Live
    <3> QED
      BY <1>0, <1>1, <2>1, <2>2, <2>4, <3>1 DEF NotPast
  <2> QED
    BY <1>0, <1>2, <2>1, <2>3, <2>4 DEF PInv
<1>5. CASE WalkOn
  <2>1. /\ pc = "walk" /\ cursor # 0 /\ cursor' = heap[cursor].next
        /\ UNCHANGED <<sdrVars, pc, k, sensorValue, up>>
    BY <1>5 DEF WalkOn
  <2>2. cursor \in DOMAIN heap
    BY <1>0, <1>1, <2>1, HeapFacts DEF IInv, PollerTypes
  <2>3. heap[cursor].next \in 0 .. Len(heap)
    <3>1. heap[cursor] \in Record /\ heap[cursor].next <= Len(heap)
      BY <1>0, <2>2, HeapFacts DEF IInv, NoDanglingNext
    <3>2. heap[cursor].next \in Nat
      BY <3>1 DEF Record
    <3> QED
      BY <1>1, <3>1, <3>2
  <2>4. PollerTypes'
    BY <1>0, <1>2, <2>1, <2>3 DEF PollerTypes
  <2>5. ASSUME ~Erased PROVE NotPast'
    <3>1. heap[cursor].next = cursor + 1 /\ cursor < k
      BY <1>5, <2>5, WalkStaysBefore
    <3> QED
      BY <1>0, <1>1, <2>1, <2>5, <3>1 DEF NotPast, PollerTypes
  <2> QED
    BY <1>0, <1>2, <2>1, <2>4, <2>5 DEF PInv
<1>6. CASE WriteValue
  <2>1. /\ pc = "walk" /\ cursor # 0
        /\ heap' = [heap EXCEPT ![cursor].value = sensorValue[k]]
        /\ IF k < N THEN k' = k + 1 /\ pc' = "sample" ELSE k' = 0 /\ pc' = "wait"
        /\ cursor' = 0
        /\ UNCHANGED <<head, tail, sdrCount, nextFreeEntryId, reservation, stamped,
                       sensorValue, up>>
    BY <1>6 DEF WriteValue, N
  <2>2. cursor \in DOMAIN heap /\ heap[cursor] \in Record
    BY <1>0, <1>1, <2>1, HeapFacts DEF IInv, PollerTypes
  <2>3. k \in Sensors /\ sensorValue[k] \in Values
    BY <1>0, <1>1, <2>1 DEF PollerTypes
  <2> DEFINE rec == [heap[cursor] EXCEPT !.value = sensorValue[k]]
  <2>4. rec \in Record /\ rec.next = heap[cursor].next /\ rec.recordId = heap[cursor].recordId
        /\ rec.lun = heap[cursor].lun /\ rec.sensNum = heap[cursor].sensNum
    BY <2>2, <2>3 DEF Record
  <2>5. heap' = [heap EXCEPT ![cursor] = rec]
    BY <2>1
  <2> HIDE DEF rec
  <2>6. heap' \in Seq(Record) /\ Len(heap') = Len(heap)
    BY <1>0, <2>2, <2>4, <2>5, HeapFacts, ExceptSeq DEF IInv
  <2>7. \A n \in DOMAIN heap : heap'[n] = IF n = cursor THEN rec ELSE heap[n]
    BY <2>5
  <2>8. IInv'
    BY <1>0, <2>1, <2>4, <2>6, <2>7, NewValuesKeep
  <2>9. PollerTypes'
    BY <1>0, <1>1, <2>1, <2>3, <2>6 DEF PollerTypes
  <2>10. Erased' = Erased /\ (NotPast => NotPast')
    BY <2>1 DEF Erased, NotPast
  <2>11. ASSUME LocalFirst PROVE LocalFirst'
    <3>1. heap' = <<>> <=> heap = <<>>
      BY <1>0, <2>6, HeapFacts, EmptySeq DEF IInv
    <3>2. \A i \in Sensors : i \in DOMAIN heap
      BY <1>0, <2>11, LocalRecordFirst
    <3>3. \A i \in Sensors : heap'[i].lun = 0 /\ heap'[i].sensNum = LocalSensors[i]
      BY <2>4, <2>7, <2>11, <3>2 DEF LocalFirst
    <3> QED
      BY <2>1, <2>6, <2>11, <3>1, <3>3 DEF LocalFirst
  <2> QED
    BY <1>0, <2>8, <2>9, <2>10, <2>11 DEF PInv
<1>7. CASE NilRecord
  <2>1. pc = "walk" /\ cursor = 0 /\ up' = FALSE /\ UNCHANGED <<sdrVars, pc, k, cursor, sensorValue>>
    BY <1>7 DEF NilRecord
  <2>2. Erased
    BY <1>0, <2>1 DEF NotPast
  <2>3. PollerTypes'
    BY <1>0, <1>2, <2>1 DEF PollerTypes
  <2> QED
    BY <1>2, <2>1, <2>2, <2>3 DEF PInv
<1> QED
  BY <1>3, <1>4, <1>5, <1>6, <1>7 DEF Poll

(* The invariant holds whatever the main loop and the poller interleave. *)
THEOREM PollerInvariance == PollSpec => []PInv
<1>1. PollInit => PInv
  BY PollInitEstablishes
<1>2. PInv /\ [PollNext]_vars => PInv'
  <2> SUFFICES ASSUME PInv, [PollNext]_vars PROVE PInv'
    OBVIOUS
  <2>1. CASE PollNext
    BY <2>1, MainLoopKeeps, PollKeeps DEF PollNext
  <2>2. CASE UNCHANGED vars
    <3>1. UNCHANGED sdrVars /\ UNCHANGED pollVars
      BY <2>2 DEF vars
    <3>2. IInv'
      BY <3>1, StutterKeeps DEF PInv
    <3>3. PollerTypes' /\ (Erased' = Erased) /\ (LocalFirst => LocalFirst') /\ (NotPast => NotPast')
      BY <3>1 DEF PInv, sdrVars, pollVars, PollerTypes, Erased, LocalFirst, NotPast
    <3> QED
      BY <3>2, <3>3 DEF PInv
  <2> QED
    BY <2>1, <2>2
<1> QED
  BY <1>1, <1>2, PTL DEF PollSpec

(* The poller's variables keep their types. *)
THEOREM PollerTypeCorrect == PollSpec => []PollTypeOK
<1>1. PInv => PollTypeOK
  BY DEF PInv, IInv, PollerTypes, PollTypeOK, N
<1> QED
  BY <1>1, PollerInvariance, PTL

(* The nil dereference of pollSensors cannot happen before an erase, however
   many records arrive and whenever they do. *)
THEOREM NoCrashBeforeErase == PollSpec => []CrashOnlyAfterErase
<1>1. PInv => CrashOnlyAfterErase
  BY DEF PInv, NotPast, CrashOnlyAfterErase
<1> QED
  BY <1>1, PollerInvariance, PTL

(* A request leaves the values of the local sensors alone. *)
LEMMA RequestKeepsValues ==
    ASSUME NobodyElseUpdates, PInv, Command, ~Erased', NEW i \in Sensors
    PROVE  heap'[i].value = heap[i].value
<1>1. IInv /\ TypeOK /\ (Erased => Erased')
  BY RequestGrows DEF PInv, IInv
<1>2. LocalFirst
  BY <1>1 DEF PInv
<1>3. i \in DOMAIN heap /\ heap[i].sensNum = LocalSensors[i]
  BY <1>1, <1>2, LocalRecordFirst DEF LocalFirst
<1>4. ASSUME NEW l \in Luns, NEW key \in AddNums, AddSdr(l, key)
      PROVE  heap'[i].value = heap[i].value
  <2>1. CASE UNCHANGED sdrVars
    BY <2>1 DEF sdrVars
  <2>2. CASE AddSdrEntry(key)
    <3>1. NewRecord(key) \in Record
      <4>1. nextFreeEntryId \in 0 .. WordMod - 1 /\ 0 \in Values /\ key \in Nat
        BY <1>1, SensorAssumption DEF TypeOK
      <4> QED
        BY <4>1 DEF NewRecord, Record
    <3>2. head # 0 => tail \in DOMAIN heap
      BY <1>1, HeapFacts DEF IInv, TypeOK, PointersAgree
    <3>3. heap' = Linked(NewRecord(key))
      BY <2>2 DEF AddSdrEntry
    <3> QED
      BY <1>1, <1>3, <3>1, <3>2, <3>3, LinkedHeap
  <2> QED
    BY <1>4, <2>1, <2>2 DEF AddSdr
<1>5. ASSUME NEW l \in Luns, NEW num \in UpdateNums, NEW v \in Values, UpdateSdr(l, num, v)
      PROVE  heap'[i].value = heap[i].value
  <2>1. i \notin FirstMatch(l, num)
    BY <1>3 DEF FirstMatch, NobodyElseUpdates
  <2> QED
    BY <1>1, <1>3, <1>5, <2>1, UpdatedHeap
<1>6. CASE ReserveSdrRepository
  BY <1>6 DEF ReserveSdrRepository
<1>7. ASSUME NEW r \in 0 .. WordMod - 1, ClearSdrRepository(r)
      PROVE  heap'[i].value = heap[i].value
  BY <1>7 DEF ClearSdrRepository
<1> QED
  BY <1>4, <1>5, <1>6, <1>7 DEF Command

(* The poller writes into the record of the sensor it sampled. *)
LEMMA PollKeepsValues ==
    ASSUME PInv, ValuesInPlace, Poll, ~Erased'
    PROVE  ValuesInPlace'
<1>1. UNCHANGED stamped
  BY DEF Poll, Tick, Sample, WalkOn, WriteValue, NilRecord, sdrVars
<1>2. ~Erased
  BY <1>1 DEF Erased
<1>3. /\ \A i \in Sensors : heap[i].value = sensorValue[i] \/ (pc = "walk" /\ k = i)
      /\ PollerTypes /\ LocalFirst /\ NotPast /\ IInv
  BY <1>2 DEF ValuesInPlace, PInv
<1>4. CASE Tick
  BY <1>3, <1>4 DEF Tick, sdrVars, ValuesInPlace
<1>5. ASSUME NEW v \in Values, Sample(v) PROVE ValuesInPlace'
  BY <1>3, <1>5 DEF Sample, sdrVars, ValuesInPlace, PollerTypes
<1>6. CASE WalkOn
  BY <1>3, <1>6 DEF WalkOn, sdrVars, ValuesInPlace
<1>7. CASE WriteValue
  <2>1. /\ pc = "walk" /\ heap[cursor].sensNum = LocalSensors[k]
        /\ heap' = [heap EXCEPT ![cursor].value = sensorValue[k]]
        /\ sensorValue' = sensorValue
    BY <1>7 DEF WriteValue, AtSensor
  <2>2. 0 < cursor /\ cursor <= k /\ k \in 0 .. N /\ cursor \in 0 .. Len(heap)
    BY <1>3, <2>1 DEF NotPast, PollerTypes
  <2>3. Len(heap) \in Nat
    BY <1>3, HeapFacts DEF IInv
  <2>4. cursor \in Sensors /\ k \in Sensors
    BY <2>2, <2>3, Constants
  <2>5. cursor = k
    BY <1>3, <2>1, <2>4, Constants DEF LocalFirst
  <2>6. ASSUME NEW i \in Sensors PROVE heap'[i].value = sensorValue'[i]
    <3>1. i \in DOMAIN heap /\ heap[i] \in Record
      BY <1>3, LocalRecordFirst, HeapFacts DEF IInv
    <3>2. CASE i = k
      BY <2>1, <2>5, <3>1, <3>2 DEF Record
    <3>3. CASE i # k
      BY <1>3, <2>1, <2>5, <3>1, <3>3
    <3> QED
      BY <3>2, <3>3
  <2> QED
    BY <2>6 DEF ValuesInPlace
<1>8. CASE NilRecord
  BY <1>3, <1>8 DEF NilRecord, sdrVars, ValuesInPlace
<1> QED
  BY <1>4, <1>5, <1>6, <1>7, <1>8 DEF Poll

(* A reading is the value its own sensor was last polled at, if no line card
   sends values under the number of a sensor of this card. *)
THEOREM ReadingsFollow ==
    ASSUME NobodyElseUpdates
    PROVE  PollSpec => []ReadingsFollowSensors
<1>1. PollInit => ValuesInPlace
  <2> SUFFICES ASSUME PollInit, Init PROVE ValuesInPlace
    BY DEF PollInit
  <2> QED
    BY Constants DEF Init, PollInit, ValuesInPlace, N
<1>2. PInv /\ ValuesInPlace /\ [PollNext]_vars => ValuesInPlace'
  <2> SUFFICES ASSUME PInv, ValuesInPlace, [PollNext]_vars, ~Erased'
               PROVE  ValuesInPlace'
    BY DEF ValuesInPlace
  <2>1. CASE Command /\ UNCHANGED pollVars
    <3>1. ~Erased
      BY <2>1, RequestGrows DEF PInv
    <3>2. \A i \in Sensors : heap'[i].value = heap[i].value
      BY <2>1, RequestKeepsValues
    <3> QED
      BY <2>1, <3>1, <3>2 DEF ValuesInPlace, pollVars
  <2>2. CASE Poll
    BY <2>2, PollKeepsValues
  <2>3. CASE UNCHANGED vars
    BY <2>3 DEF vars, sdrVars, pollVars, ValuesInPlace, Erased
  <2> QED
    BY <2>1, <2>2, <2>3 DEF PollNext
<1>3. PInv /\ ValuesInPlace => ReadingsFollowSensors
  <2> SUFFICES ASSUME PInv, ValuesInPlace, ~Erased, NEW i \in Sensors
               PROVE  SensorReading(0, LocalSensors[i]) = {sensorValue[i]}
                      \/ (pc = "walk" /\ k = i)
    BY DEF ReadingsFollowSensors
  <2>1. FirstMatch(0, LocalSensors[i]) = {i}
    BY LocalRecordFirst DEF PInv
  <2>2. SensorReading(0, LocalSensors[i]) = {heap[i].value}
    BY <2>1 DEF SensorReading
  <2> QED
    BY <2>2 DEF ValuesInPlace
<1> QED
  BY <1>1, <1>2, <1>3, PollerInvariance, PTL DEF PollSpec

-----------------------------------------------------------------------------
(* How many steps of its own a round of the poller still takes at most: a
   sample and a walk for each sensor, which ends at the sensor's record. *)
StepsLeft ==
    IF pc = "wait" THEN 0
    ELSE (N - k) * (N + 2) + (IF pc = "sample" THEN N + 2 ELSE k - cursor + 1)

LEMMA Product ==
    ASSUME NEW a \in Nat, NEW b \in Nat
    PROVE  a * b \in Nat /\ (a + 1) * b = a * b + b
  OBVIOUS

(* What a sensor's turn leaves for the sensors behind it. *)
LEMMA TurnsLeft ==
    ASSUME PInv, pc # "wait"
    PROVE  /\ k \in 1 .. N /\ N \in Nat /\ (N - k) * (N + 2) \in Nat
           /\ k < N => (N - k) * (N + 2) = (N - (k + 1)) * (N + 2) + (N + 2)
<1>1. k \in 1 .. N /\ N \in Nat
  BY Constants DEF PInv, PollerTypes
<1>2. N - k \in Nat /\ N + 2 \in Nat
  BY <1>1
<1>3. (N - k) * (N + 2) \in Nat
  BY <1>2, Product
<1>4. ASSUME k < N PROVE (N - k) * (N + 2) = (N - (k + 1)) * (N + 2) + (N + 2)
  <2> DEFINE a == N - (k + 1)
             b == N + 2
  <2>1. a \in Nat /\ b \in Nat /\ N - k = a + 1
    BY <1>1, <1>4
  <2> HIDE DEF a, b
  <2>2. (a + 1) * b = a * b + b
    BY <2>1, Product
  <2> QED
    BY <2>1, <2>2 DEF a, b
<1> QED
  BY <1>1, <1>3, <1>4

(* Each step of the poller brings the end of its round nearer. *)
LEMMA PollShortens ==
    ASSUME PInv, ~Erased, Poll
    PROVE  Tick \/ StepsLeft' < StepsLeft
<1> DEFINE Turns == (N - k) * (N + 2)
<1>0. /\ IInv /\ PollerTypes /\ LocalFirst /\ NotPast /\ Len(heap) \in Nat
      /\ cursor \in 0 .. Len(heap)
  BY HeapFacts DEF PInv, IInv, PollerTypes
<1>1. ASSUME pc # "wait"
      PROVE  k \in 1 .. N /\ N \in Nat /\ Turns \in Nat /\ StepsLeft =
                Turns + (IF pc = "sample" THEN N + 2 ELSE k - cursor + 1)
  BY <1>1, TurnsLeft DEF StepsLeft
<1>2. ASSUME NEW v \in Values, Sample(v) PROVE StepsLeft' < StepsLeft
  <2>1. pc = "sample" /\ cursor' = head /\ pc' = "walk" /\ UNCHANGED k
    BY <1>2 DEF Sample
  <2>2. head = 1
    BY <1>0, <1>1, <2>1, Constants, LocalRecordFirst DEF LocalFirst, Live
  <2>3. StepsLeft' = Turns + (k - 1 + 1)
    BY <2>1, <2>2 DEF StepsLeft
  <2> HIDE DEF Turns
  <2> QED
    BY <1>1, <2>1, <2>3
<1>3. CASE WalkOn
  <2>1. pc = "walk" /\ cursor' = heap[cursor].next /\ UNCHANGED <<pc, k>>
    BY <1>3 DEF WalkOn
  <2>2. cursor' = cursor + 1
    BY <1>3, <2>1, WalkStaysBefore
  <2>3. StepsLeft' = Turns + (k - (cursor + 1) + 1)
    BY <2>1, <2>2 DEF StepsLeft
  <2> HIDE DEF Turns
  <2> QED
    BY <1>0, <1>1, <2>1, <2>3
<1>4. CASE WriteValue
  <2>1. /\ pc = "walk"
        /\ IF k < N THEN k' = k + 1 /\ pc' = "sample" ELSE k' = 0 /\ pc' = "wait"
    BY <1>4 DEF WriteValue, N
  <2>2. k - cursor + 1 >= 1
    BY <1>0, <1>1, <2>1 DEF NotPast
  <2>3. CASE k < N
    <3>1. StepsLeft' = (N - (k + 1)) * (N + 2) + (N + 2)
      BY <2>1, <2>3 DEF StepsLeft
    <3>2. StepsLeft' = Turns
      BY <2>1, <2>3, <3>1, TurnsLeft
    <3> HIDE DEF Turns
    <3> QED
      BY <1>0, <1>1, <2>1, <2>2, <3>2
  <2>4. CASE ~(k < N)
    <3>1. StepsLeft' = 0
      BY <2>1, <2>4 DEF StepsLeft
    <3> HIDE DEF Turns
    <3> QED
      BY <1>0, <1>1, <2>1, <2>2, <3>1
  <2> QED
    BY <2>3, <2>4
<1>5. ~NilRecord
  BY <1>0 DEF NilRecord, NotPast
<1> QED
  BY <1>2, <1>3, <1>4, <1>5 DEF Poll

LEMMA StepsLeftBound == ASSUME PInv, ~Erased PROVE StepsLeft \in 0 .. N * (N + 2)
<1>1. CASE pc = "wait"
  <2>1. N \in Nat /\ N + 2 \in Nat
    BY Constants
  <2>2. N * (N + 2) \in Nat
    BY <2>1, Product
  <2> QED
    BY <1>1, <2>2 DEF StepsLeft
<1>2. CASE pc # "wait"
  <2> DEFINE a == N - 1
             b == N + 2
             t == (N - k) * b
  <2>1. k \in 1 .. N /\ N \in Nat /\ a \in Nat /\ b \in Nat /\ b = N + 2 /\ N = a + 1 /\ t \in Nat
    BY <1>2, TurnsLeft
  <2>2. t <= a * b /\ a * b \in Nat
    <3>1. \A x, y, z \in Nat : x <= y => x * z <= y * z
      OBVIOUS
    <3>2. N - k \in Nat /\ N - k <= a
      BY <2>1
    <3> QED
      BY <2>1, <3>1, <3>2, Product
  <2>3. N * b = a * b + b
    BY <2>1, Product
  <2>4. StepsLeft = t + (IF pc = "sample" THEN b ELSE k - cursor + 1)
    BY <1>2 DEF StepsLeft
  <2>5. (IF pc = "sample" THEN b ELSE k - cursor + 1) \in 0 .. b
    <3>1. CASE pc = "sample"
      BY <2>1, <3>1
    <3>2. CASE pc # "sample"
      <4>1. 0 < cursor /\ cursor <= k /\ cursor \in 0 .. Len(heap) /\ Len(heap) \in Nat
        BY <1>2, <3>2, HeapFacts DEF PInv, IInv, PollerTypes, NotPast
      <4> QED
        BY <2>1, <3>2, <4>1
    <3> QED
      BY <3>1, <3>2
  <2>6. b = N + 2
    OBVIOUS
  <2> HIDE DEF a, b, t
  <2>7. StepsLeft \in 0 .. N * b
    BY <2>1, <2>2, <2>3, <2>4, <2>5
  <2> QED
    BY <2>6, <2>7
<1> QED
  BY <1>1, <1>2

(* A round of pollSensors is short: until an erase it is over after at most
   N * (N + 2) steps of its own, and no request that the main loop handles in
   between makes it longer, however many records it adds. With the scheduler's
   fairness that is RoundsEnd. *)
THEOREM RoundsAreShort ==
    PollSpec => /\ [](~Erased => StepsLeft \in 0 .. N * (N + 2))
                /\ [][~Erased => \/ Tick \/ StepsLeft' < StepsLeft
                                 \/ Command /\ StepsLeft' = StepsLeft]_vars
<1>1. PInv => (~Erased => StepsLeft \in 0 .. N * (N + 2))
  BY StepsLeftBound
<1>2. PInv /\ [PollNext]_vars =>
         [~Erased => \/ Tick \/ StepsLeft' < StepsLeft
                     \/ Command /\ StepsLeft' = StepsLeft]_vars
  <2> SUFFICES ASSUME PInv, PollNext, ~Erased
               PROVE  Tick \/ StepsLeft' < StepsLeft \/ (Command /\ StepsLeft' = StepsLeft)
    OBVIOUS
  <2>1. CASE Command /\ UNCHANGED pollVars
    BY <2>1 DEF pollVars, StepsLeft
  <2>2. CASE Poll
    BY <2>2, PollShortens
  <2> QED
    BY <2>1, <2>2 DEF PollNext
<1> QED
  BY <1>1, <1>2, PollerInvariance, PTL DEF PollSpec

=============================================================================
