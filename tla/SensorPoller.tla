---------------------------- MODULE SensorPoller ----------------------------
(***************************************************************************)
(* The poller goroutine (pollSensors, started by bmcInit) next to the main *)
(* loop. Nothing orders the two: the poller reads mainSdrs.sdrs once per   *)
(* sensor and then one next pointer at a time, while the main loop appends *)
(* records, updates values and drops the list between any two of these     *)
(* reads. Pointer reads and writes are single accesses; a record's number  *)
(* is set before the record is linked and never changes.                   *)
(*                                                                         *)
(* A panic in the goroutine ends the process, the main loop with it.       *)
(***************************************************************************)
EXTENDS SdrRepository

VARIABLES
    pc,           \* where pollSensors is: "wait" for the ticker, "sample", "walk"
    k,            \* the local sensor it is at, 0 while waiting
    cursor,       \* its variable entry: a record, or 0 for nil
    sensorValue,  \* mc.sensors[..].value of each local sensor
    up            \* FALSE once the poller dereferenced nil

pollVars == <<pc, k, cursor, sensorValue, up>>
vars == <<sdrVars, pollVars>>

Sensors == 1 .. Len(LocalSensors)

PollInit ==
    /\ Init
    /\ pc = "wait"
    /\ k = 0
    /\ cursor = 0
    /\ sensorValue = [i \in Sensors |-> 0]
    /\ up = TRUE

(* The ticker fires; a tick that comes while a round is running is dropped. *)
Tick ==
    /\ pc = "wait" /\ Sensors # {}
    /\ k' = 1
    /\ pc' = "sample"
    /\ UNCHANGED <<sdrVars, cursor, sensorValue, up>>

(* Read the sensor, then the head of the list. *)
Sample(v) ==
    /\ pc = "sample"
    /\ sensorValue' = [sensorValue EXCEPT ![k] = v]
    /\ cursor' = head
    /\ pc' = "walk"
    /\ UNCHANGED <<sdrVars, k, up>>

(* Faulty: the walk stops at the first record of the sensor's lun. *)
AtSensorOfLun == heap[cursor].lun = 0

AtSensor == heap[cursor].lun = 0 /\ heap[cursor].sensNum = LocalSensors[k]

(* Faulty: the walk reads the head of the list again. *)
WalkOnFromHead ==
    /\ pc = "walk" /\ cursor # 0 /\ ~AtSensor
    /\ cursor' = head
    /\ UNCHANGED <<sdrVars, pc, k, sensorValue, up>>

(* One step of the walk. *)
WalkOn ==
    /\ pc = "walk" /\ cursor # 0 /\ ~AtSensor
    /\ cursor' = heap[cursor].next
    /\ UNCHANGED <<sdrVars, pc, k, sensorValue, up>>

(* The record is found: take the value over and go to the next sensor. *)
WriteValue ==
    /\ pc = "walk" /\ cursor # 0 /\ AtSensor
    /\ heap' = [heap EXCEPT ![cursor].value = sensorValue[k]]
    /\ IF k < Len(LocalSensors) THEN k' = k + 1 /\ pc' = "sample"
                                ELSE k' = 0 /\ pc' = "wait"
    /\ cursor' = 0
    /\ UNCHANGED <<head, tail, sdrCount, nextFreeEntryId, reservation, stamped,
                   sensorValue, up>>

(* The walk ended without the record; entry.value = value goes through nil. *)
NilRecord ==
    /\ pc = "walk" /\ cursor = 0
    /\ up' = FALSE
    /\ UNCHANGED <<sdrVars, pc, k, cursor, sensorValue>>

Poll == Tick \/ (\E v \in Values : Sample(v)) \/ WalkOn \/ WriteValue \/ NilRecord

PollNext ==
    /\ up
    /\ \/ Command /\ UNCHANGED pollVars
       \/ Poll

(* The Go scheduler runs a runnable goroutine eventually, and the ticker
   fires every three seconds. *)
PollSpec == PollInit /\ [][PollNext]_vars /\ WF_vars(up /\ Poll)

-----------------------------------------------------------------------------
PollTypeOK ==
    /\ TypeOK
    /\ pc \in {"wait", "sample", "walk"}
    /\ k \in 0 .. Len(LocalSensors)
    /\ pc = "wait" <=> k = 0
    /\ cursor \in 0 .. Len(heap)
    /\ sensorValue \in [Sensors -> Values]
    /\ up \in BOOLEAN

Erased == "mainSdrs.lastEraseTime" \in stamped

(* The walk of the poller ends at its sensor's record, whatever the main loop
   appends meanwhile; only a list that was erased can end under it. *)
CrashOnlyAfterErase == up \/ Erased

(* As long as nothing is erased, a reading is the value its sensor was last
   polled at, but for the one sensor whose value is on its way: a value is
   never written to another sensor's record, whatever is added in the
   meantime. Other cards update other numbers (16 per card). *)
ReadingsFollowSensors ==
    ~Erased =>
       \A i \in Sensors :
          SensorReading(0, LocalSensors[i]) = {sensorValue[i]} \/ (pc = "walk" /\ k = i)

(* A round of the poller always ends, however many records arrive while it
   walks the list, or the process is gone. *)
RoundsEnd == (pc # "wait") ~> (pc = "wait" \/ ~up)

(* Polling goes on whatever the clients send (README, "remote controllers can
   pull switch data at any time" and "Periodic poll routines"). *)
PollerSurvives == up

=============================================================================
