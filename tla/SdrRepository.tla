--------------------------- MODULE SdrRepository ---------------------------
(***************************************************************************)
(* The repository of sensor data records (mc.mainSdrs): the linked list    *)
(* bmcInit builds and the storage and sensor commands read, extend, update *)
(* and clear (ipmi_internal_storage.go, ipmi_internal_sensor.go, bmc.go).  *)
(*                                                                         *)
(* The list is modelled with its pointers, because the poller of           *)
(* SensorPoller walks it while the main loop changes it. heap[n] is the    *)
(* n-th record ever allocated; 0 is the nil pointer. Handlers run to their *)
(* end on the main loop, so each of them is one action.                    *)
(***************************************************************************)
EXTENDS Integers, Sequences

CONSTANTS
    LocalSensors,  \* numbers of the sensors bmcInit creates, in order
    Luns,          \* logical unit numbers Add SDR and Get Sensor Reading carry
    AddNums,       \* sensor numbers Add SDR carries to add a record
    UpdateNums,    \* sensor numbers Add SDR carries to update a value
    Values,        \* sensor values; an oem byte of 0 means "no value"
    WordMod,       \* 2^16: record ids and reservations are uint16
    MaxRecords     \* bound of the model: records allocated in a behaviour

ASSUME SensorAssumption ==
    /\ LocalSensors \in Seq(Nat)
    /\ \A i, j \in 1 .. Len(LocalSensors) : LocalSensors[i] = LocalSensors[j] => i = j
    /\ Luns \subseteq 0 .. 3 /\ AddNums \subseteq Nat /\ UpdateNums \subseteq Nat
    /\ Values \subseteq Nat /\ 0 \in Values

ASSUME SizeAssumption ==
    /\ WordMod \in Nat /\ WordMod > 1
    /\ MaxRecords \in Nat /\ Len(LocalSensors) + 1 < WordMod

VARIABLES
    heap,             \* every record allocated so far
    head,             \* mainSdrs.sdrs
    tail,             \* mainSdrs.tailSdr
    sdrCount,         \* mainSdrs.sdrCount
    nextFreeEntryId,  \* mainSdrs.nextFreeEntryId
    reservation,      \* mainSdrs.reservation
    stamped           \* which of the time fields hold a time of day

sdrVars == <<heap, head, tail, sdrCount, nextFreeEntryId, reservation, stamped>>

(* The time fields the SDR code writes. *)
TimeFields == {"mainSdrs.lastAddTime", "mainSdrs.lastEraseTime", "sel.lastAddTime"}

Record == [recordId : 0 .. WordMod - 1, lun : 0 .. 3, sensNum : Nat,
           value : Values, next : Nat]

LastId == WordMod - 1   \* 0xffff, "no next record" in a reply, "last" in a request

-----------------------------------------------------------------------------
(* The records a walk from head reaches. Records are allocated in list order
   and an erase drops all of them, so these are the ones from head to tail;
   PointersAgree says that the next pointers lead through exactly them. *)
Live == IF head = 0 THEN {} ELSE head .. tail

(* Faulty: only the first record is compared. *)
FirstMatchAtHead(lun, num) ==
    {n \in Live : n = head /\ heap[n].lun = lun /\ heap[n].sensNum = num}

(* The record a walk from head stops at. *)
FirstMatch(lun, num) ==
    {n \in Live : /\ heap[n].lun = lun /\ heap[n].sensNum = num
                  /\ \A m \in Live : m < n => ~(heap[m].lun = lun /\ heap[m].sensNum = num)}

NewRecord(num) ==
    [recordId |-> nextFreeEntryId, lun |-> 0, sensNum |-> num, value |-> 0, next |-> 0]

(* Faulty: the old tail does not learn of the new record. *)
LinkedWithoutNext(new) == Append(heap, new)

(* heap with the new record behind the tail: the old tail points to it. *)
Linked(new) ==
    IF head = 0 THEN Append(heap, new)
                ELSE Append([heap EXCEPT ![tail].next = Len(heap) + 1], new)

(* Faulty: the new record becomes the head of a list that is not empty. *)
AddSdrEntryAtHead(num) ==
    /\ heap' = Linked(NewRecord(num))
    /\ head' = Len(heap) + 1 /\ tail' = Len(heap) + 1
    /\ UNCHANGED <<sdrCount, nextFreeEntryId, reservation, stamped>>

(* addSdrEntry after newSdrEntry: link, move the tail, count. The time goes
   to the event log's lastAddTime. newSdrEntry sets the number but not the
   lun, and nothing limits the number of records. *)
AddSdrEntry(num) ==
    /\ heap' = Linked(NewRecord(num))
    /\ head' = IF head = 0 THEN Len(heap) + 1 ELSE head
    /\ tail' = Len(heap) + 1
    /\ nextFreeEntryId' = (nextFreeEntryId + 1) % WordMod
    /\ sdrCount' = (sdrCount + 1) % WordMod
    /\ stamped' = stamped \cup {"sel.lastAddTime"}
    /\ UNCHANGED reservation

Init ==
    /\ heap = [n \in 1 .. Len(LocalSensors) |->
                 [recordId |-> n, lun |-> 0, sensNum |-> LocalSensors[n], value |-> 0,
                  next |-> IF n < Len(LocalSensors) THEN n + 1 ELSE 0]]
    /\ head = IF LocalSensors = <<>> THEN 0 ELSE 1
    /\ tail = Len(LocalSensors)
    /\ sdrCount = Len(LocalSensors)
    /\ nextFreeEntryId = Len(LocalSensors) + 1
    /\ reservation = 0
    /\ stamped = IF LocalSensors = <<>> THEN {} ELSE {"sel.lastAddTime"}

(* Faulty: a repeated Add SDR is counted although it adds nothing. *)
AddSdrCountsAgain(lun, num) ==
    \/ /\ FirstMatch(lun, num) # {}
       /\ sdrCount' = (sdrCount + 1) % WordMod
       /\ UNCHANGED <<heap, head, tail, nextFreeEntryId, reservation, stamped>>
    \/ FirstMatch(lun, num) = {} /\ Len(heap) < MaxRecords /\ AddSdrEntry(num)

(* Add SDR with oem byte 0: a record for the sensor, unless a walk finds one. *)
AddSdr(lun, num) ==
    \/ FirstMatch(lun, num) # {} /\ UNCHANGED sdrVars
    \/ /\ FirstMatch(lun, num) = {}
       /\ Len(heap) < MaxRecords
       /\ AddSdrEntry(num)

(* Add SDR with another oem byte: the value of the sensor's record. Nothing
   changes, and nothing is answered, when there is no record. *)
UpdateSdr(lun, num, v) ==
    /\ v # 0
    /\ heap' = [n \in DOMAIN heap |->
                  IF n \in FirstMatch(lun, num) THEN [heap[n] EXCEPT !.value = v] ELSE heap[n]]
    /\ UNCHANGED <<head, tail, sdrCount, nextFreeEntryId, reservation, stamped>>

(* Reserve SDR Repository: the counter skips 0, and a new reservation
   replaces the one before. *)
NextReservation == IF reservation = WordMod - 1 THEN 1 ELSE reservation + 1

ReserveSdrRepository ==
    /\ reservation' = NextReservation
    /\ UNCHANGED <<heap, head, tail, sdrCount, nextFreeEntryId, stamped>>

Reserved(r) == r = 0 \/ r = reservation

(* Faulty: an erase leaves the tail behind, or starts the ids over. *)
ClearSdrRepositoryKeepsTail(r) ==
    /\ Reserved(r)
    /\ head' = 0
    /\ UNCHANGED <<heap, tail, sdrCount, nextFreeEntryId, reservation, stamped>>
ClearSdrRepositoryResetsIds(r) ==
    /\ Reserved(r)
    /\ head' = 0 /\ tail' = 0 /\ nextFreeEntryId' = 1
    /\ UNCHANGED <<heap, sdrCount, reservation, stamped>>

(* Clear SDR Repository with operation 0xaa. The counts stay as they are,
   and so does the reservation. Operation 0 and the refusals change nothing. *)
ClearSdrRepository(r) ==
    /\ Reserved(r)
    /\ head' = 0
    /\ tail' = 0
    /\ stamped' = stamped \cup {"mainSdrs.lastEraseTime"}
    /\ UNCHANGED <<heap, sdrCount, nextFreeEntryId, reservation>>

(* Get SDR: id 0 stands for the first record and 0xffff for the last one. *)
Lookup(id) ==
    IF id = 0 THEN {n \in {head} : n # 0}
    ELSE IF id = LastId THEN {n \in {tail} : n # 0}
    ELSE {n \in Live : heap[n].recordId = id
                       /\ \A m \in Live : m < n => heap[m].recordId # id}

(* Faulty: the next id is the place of the next record in the list, or the
   id of the record itself. *)
NextIdOfSelf(n) == IF heap[n].next = 0 THEN LastId ELSE heap[n].recordId
NextIdByPlace(n) == IF heap[n].next = 0 THEN LastId ELSE n - head + 2

NextId(n) == IF heap[n].next = 0 THEN LastId ELSE heap[heap[n].next].recordId

(* The reply of Get SDR: an error, or the record and the id to ask next. *)
GetSdr(r, id) ==
    IF ~Reserved(r) THEN [cc |-> "INVALID_RESERVATION", rec |-> 0, next |-> 0]
    ELSE IF Lookup(id) = {} THEN [cc |-> "NOT_PRESENT", rec |-> 0, next |-> 0]
    ELSE LET n == CHOOSE m \in Lookup(id) : TRUE
         IN  [cc |-> "OK", rec |-> n, next |-> NextId(n)]

(* Get Sensor Reading: the value of the first record of the sensor. *)
SensorReading(lun, num) == {heap[n].value : n \in FirstMatch(lun, num)}

(* The requests that change the repository. *)
Command ==
    \/ \E l \in Luns, k \in AddNums : AddSdr(l, k)
    \/ \E l \in Luns, k \in UpdateNums, v \in Values : UpdateSdr(l, k, v)
    \/ ReserveSdrRepository
    \/ \E r \in 0 .. WordMod - 1 : ClearSdrRepository(r)

Spec == Init /\ [][Command]_sdrVars

-----------------------------------------------------------------------------
TypeOK ==
    /\ heap \in Seq(Record)
    /\ head \in 0 .. Len(heap)
    /\ tail \in 0 .. Len(heap)
    /\ sdrCount \in 0 .. WordMod - 1
    /\ nextFreeEntryId \in 0 .. WordMod - 1
    /\ reservation \in 0 .. WordMod - 1
    /\ stamped \subseteq TimeFields

(* The pointers agree in every state a walker may start or go on from: head
   and tail are nil together, tail is the newest record, next leads from each
   live record to the one after it and ends at tail, and a record that was
   erased never leads back into the list that is live now. *)
PointersAgree ==
    /\ head = 0 <=> tail = 0
    /\ head # 0 => head <= tail /\ tail = Len(heap)
    /\ \A n \in DOMAIN heap :
          /\ heap[n].next \in {0, n + 1}
          /\ n \in Live => heap[n].next = IF n = tail THEN 0 ELSE n + 1
          /\ n < head => heap[n].next < head

(* Record ids are handed out once: as long as fewer than 2^16 records were
   added, an id never stands for two records, also across an erase, so that
   a client that asks for the next id never gets a later generation's record. *)
IdsNeverReused ==
    Len(heap) < WordMod => \A m, n \in DOMAIN heap : m < n => heap[m].recordId < heap[n].recordId

(* Every live record is found by a Get SDR with its id, and following the ids
   of the replies leads through all of them up to the last. *)
EveryRecordServed ==
    Len(heap) < LastId =>
       \A n \in Live : /\ GetSdr(0, heap[n].recordId).rec = n
                       /\ n # tail => Lookup(NextId(n)) = {n + 1}

(* Until something is erased, sdrCount is the number of records in the list:
   Get SDR Repository Info then reports what a client will find. *)
CountUntilErase ==
    "mainSdrs.lastEraseTime" \notin stamped /\ Len(heap) < WordMod =>
       sdrCount = IF head = 0 THEN 0 ELSE tail - head + 1

(* Two live records never stand for the same sensor: a repeated Add SDR is
   recognised (addSdr, "check for duplicate SDRs"). *)
NoDuplicates ==
    \A m, n \in Live : heap[m].lun = heap[n].lun /\ heap[m].sensNum = heap[n].sensNum => m = n

============================================================================
