--------------------------- MODULE SdrReaderProofs ---------------------------
(***************************************************************************)
(* What a client that walks the repository has been sent, whatever the     *)
(* other clients add, update, erase and reserve meanwhile: proofs about    *)
(* SdrReader for every set of sensors and every width of the ids, as long  *)
(* as fewer records are added than there are ids.                          *)
(***************************************************************************)
EXTENDS SdrReader, SdrRepositoryProofs

(* Next pointers lead from each record of lo .. hi to the next. *)
Chained(lo, hi) == \A m \in lo .. hi : m # hi => heap[m].next = m + 1

(* The records sent so far are lo .. hi, those that were there lo .. t. *)
Scanned(lo, hi, t) ==
    /\ seen = lo .. hi /\ lo <= hi /\ Chained(lo, hi)
    /\ present = lo .. t /\ Chained(lo, t)
    /\ rpc = "scan" => askId = hi + 1 /\ heap[hi].next = hi + 1
    /\ rpc = "done" => t <= hi

(* The inductive invariant: a scan's records are one chain, the client asks for
   the one the chain goes on with, and it is done at a record that ends it. *)
ScanInv ==
    /\ rpc \in {"idle", "scan", "done", "failed"}
    /\ seen = {} => rpc # "done"
    /\ seen = {} /\ rpc = "scan" => askId = 0
    /\ seen # {} => \E lo, hi, t \in DOMAIN heap : Scanned(lo, hi, t)

RInv == IInv /\ Len(heap) < LastId /\ ScanInv

-----------------------------------------------------------------------------
(* A step that moves no next pointer away from where it leads keeps what the
   client knows. *)
LEMMA ChainsStay ==
    ASSUME ScanInv, UNCHANGED readerVars, DOMAIN heap \subseteq DOMAIN heap',
           DOMAIN heap \subseteq Nat,
           \A m \in DOMAIN heap : heap[m].next = m + 1 => heap'[m].next = m + 1,
           \A lo, hi \in DOMAIN heap : lo .. hi \subseteq DOMAIN heap
    PROVE  ScanInv'
<1>1. ASSUME NEW lo \in DOMAIN heap, NEW hi \in DOMAIN heap, Chained(lo, hi)
      PROVE  Chained(lo, hi)'
  BY <1>1 DEF Chained
<1>2. ASSUME NEW lo \in DOMAIN heap, NEW hi \in DOMAIN heap, NEW t \in DOMAIN heap,
             Scanned(lo, hi, t)
      PROVE  Scanned(lo, hi, t)'
  BY <1>1, <1>2 DEF Scanned, readerVars
<1> QED
  BY <1>2 DEF ScanInv, readerVars

LEMMA HeapIntervals ==
    ASSUME IInv
    PROVE  /\ DOMAIN heap = 1 .. Len(heap) /\ Len(heap) \in Nat
           /\ \A lo, hi \in DOMAIN heap : lo .. hi \subseteq DOMAIN heap
  BY HeapFacts DEF IInv

(* Adding a record extends the list at its end. *)
LEMMA AddKeepsScan ==
    ASSUME RInv, NEW num \in Nat, AddSdrEntry(num), UNCHANGED readerVars PROVE ScanInv'
<1> DEFINE new == NewRecord(num)
<1>1. TypeOK /\ PointersAgree
  BY DEF RInv, IInv
<1>2. new \in Record
  BY <1>1, SensorAssumption DEF NewRecord, Record, TypeOK
<1>3. head # 0 => tail \in DOMAIN heap /\ tail = Len(heap)
  BY <1>1, HeapFacts DEF TypeOK, PointersAgree
<1> HIDE DEF new
<1>4. heap' = Linked(new)
  BY DEF AddSdrEntry, new
<1>5. /\ heap' \in Seq(Record) /\ Len(heap') = Len(heap) + 1
      /\ \A n \in DOMAIN heap :
            heap'[n].next = IF head # 0 /\ n = tail THEN Len(heap) + 1 ELSE heap[n].next
  BY <1>1, <1>2, <1>3, <1>4, LinkedHeap
<1>6. DOMAIN heap' = 1 .. Len(heap) + 1 /\ DOMAIN heap = 1 .. Len(heap) /\ Len(heap) \in Nat
  BY <1>1, <1>5, HeapFacts, LenProperties
<1>7. \A m \in DOMAIN heap : heap[m].next = m + 1 => heap'[m].next = m + 1
  BY <1>3, <1>5
<1> QED
  BY <1>6, <1>7, ChainsStay, HeapIntervals DEF RInv

LEMMA CommandKeepsScan ==
    ASSUME RInv, Command, UNCHANGED readerVars PROVE ScanInv'
<1>1. DOMAIN heap \subseteq Nat
  BY HeapIntervals DEF RInv
<1>2. CASE UNCHANGED heap
  BY <1>1, <1>2, ChainsStay, HeapIntervals DEF RInv
<1>3. ASSUME NEW l, NEW k \in AddNums, AddSdr(l, k) PROVE ScanInv'
  BY <1>2, <1>3, AddKeepsScan, SensorAssumption DEF AddSdr, sdrVars
<1>4. ASSUME NEW l, NEW k, NEW v \in Values, UpdateSdr(l, k, v) PROVE ScanInv'
  <2>1. DOMAIN heap' = DOMAIN heap /\ \A n \in DOMAIN heap : heap'[n].next = heap[n].next
    BY <1>4, UpdatedHeap DEF RInv, IInv
  <2> QED
    BY <1>1, <2>1, ChainsStay, HeapIntervals DEF RInv
<1> QED
  BY <1>2, <1>3, <1>4 DEF Command, ReserveSdrRepository, ClearSdrRepository

(* What a reply without an error holds. *)
LEMMA GoodReply ==
    ASSUME GetSdr(held, askId).cc = "OK"
    PROVE  /\ GetSdr(held, askId).rec \in Lookup(askId)
           /\ GetSdr(held, askId).next = NextId(GetSdr(held, askId).rec)
<1>1. Reserved(held) /\ Lookup(askId) # {}
  BY DEF GetSdr
<1>2. (CHOOSE m \in Lookup(askId) : TRUE) \in Lookup(askId)
  BY <1>1
<1>3. GetSdr(held, askId) =
        LET n == CHOOSE m \in Lookup(askId) : TRUE
        IN  [cc |-> "OK", rec |-> n, next |-> NextId(n)]
  BY <1>1 DEF GetSdr
<1> QED
  BY <1>2, <1>3

(* The first reply starts the chain at the head, the others lengthen it by the
   record it goes on with. *)
LEMMA GetKeepsScan == ASSUME RInv, ReaderGet PROVE ScanInv'
<1> DEFINE rep == GetSdr(held, askId)
           n == rep.rec
<1>1. /\ DOMAIN heap = 1 .. Len(heap) /\ Len(heap) \in Nat
      /\ \A lo, hi \in DOMAIN heap : lo .. hi \subseteq DOMAIN heap
      /\ IInv /\ Len(heap) < LastId /\ ScanInv
  BY HeapIntervals DEF RInv
<1>2. rpc = "scan" /\ UNCHANGED heap
  BY DEF ReaderGet, sdrVars
<1>3. CASE rep.cc # "OK"
  <2>1. rpc' = "failed" /\ UNCHANGED <<seen, askId, present, heap>>
    BY <1>3 DEF ReaderGet, sdrVars
  <2> QED
    BY <1>1, <2>1 DEF ScanInv, Scanned, Chained
<1>4. CASE rep.cc = "OK"
  <2>1. /\ seen' = seen \cup {n} /\ askId' = rep.next
        /\ present' = (IF askId = 0 THEN Live ELSE present)
        /\ rpc' = IF rep.next = LastId THEN "done" ELSE "scan"
    BY <1>4 DEF ReaderGet
  <2>2. n \in Lookup(askId) /\ rep.next = NextId(n)
    BY <1>4, GoodReply
  <2> HIDE DEF rep
  <2>3. CASE seen = {}
    <3>1. askId = 0 /\ n = head /\ head # 0
      BY <1>1, <1>2, <2>2, <2>3 DEF ScanInv, Lookup
    <3>2. /\ head \in DOMAIN heap /\ tail \in DOMAIN heap /\ head <= tail /\ Live = head .. tail
      BY <1>1, <3>1 DEF IInv, TypeOK, PointersAgree, Live
    <3>3. Chained(head, tail)
      BY <1>1, <3>2 DEF IInv, PointersAgree, Chained
    <3>4. IF heap[head].next = 0 THEN NextId(head) = LastId /\ tail = head
          ELSE heap[head].next = head + 1 /\ NextId(head) = head + 1 /\ head + 1 # LastId
      <4>1. heap[head].next = 0 => tail = head
        BY <1>1, <3>2, <3>3 DEF Chained
      <4> QED
        BY <1>1, <3>2, <4>1, NextIdIs
    <3>5. seen' = head .. head /\ present' = head .. tail
      BY <2>1, <2>3, <3>1, <3>2, <1>1
    <3>6. Scanned(head, head, tail)'
      <4>1. Chained(head, head)' /\ Chained(head, tail)'
        BY <1>2, <3>3, <3>2, <1>1 DEF Chained, ReaderGet, sdrVars
      <4>2. UNCHANGED <<head, tail>>
        BY DEF ReaderGet, sdrVars
      <4> QED
        BY <1>1, <1>2, <2>1, <2>2, <3>1, <3>2, <3>4, <3>5, <4>1, <4>2 DEF Scanned
    <3>7. UNCHANGED <<head, tail>>
      BY DEF ReaderGet, sdrVars
    <3> QED
      BY <1>2, <2>1, <3>2, <3>6, <3>7 DEF ScanInv
  <2>4. CASE seen # {}
    <3>1. PICK lo \in DOMAIN heap, hi \in DOMAIN heap, t \in DOMAIN heap : Scanned(lo, hi, t)
      BY <1>1, <2>4 DEF ScanInv
    <3>2. askId = hi + 1 /\ heap[hi].next = hi + 1 /\ lo <= hi
      BY <1>2, <3>1 DEF Scanned
    <3>3. hi + 1 \in DOMAIN heap /\ hi + 1 \in 1 .. LastId - 1 /\ hi + 1 # 0
      BY <1>1, <3>2, NextIdIs
    <3>4. n = hi + 1
      BY <1>1, <2>2, <3>2, <3>3, LookupById
    <3>5. IF heap[n].next = 0 THEN NextId(n) = LastId
          ELSE heap[n].next = n + 1 /\ NextId(n) = n + 1 /\ n + 1 # LastId
      BY <1>1, <3>3, <3>4, NextIdIs
    <3>6. heap[n].next = 0 => t <= n
      BY <1>1, <3>1, <3>3, <3>4 DEF Scanned, Chained
    <3>7. seen' = lo .. n /\ present' = lo .. t
      BY <1>1, <2>1, <3>1, <3>2, <3>3, <3>4 DEF Scanned
    <3>8. Chained(lo, hi + 1)' /\ Chained(lo, t)'
      BY <1>1, <1>2, <3>1, <3>2, <3>4 DEF Scanned, Chained
    <3>9. Scanned(lo, hi + 1, t)'
      BY <1>1, <1>2, <2>1, <2>2, <3>2, <3>3, <3>4, <3>5, <3>6, <3>7, <3>8 DEF Scanned
    <3> QED
      BY <1>2, <2>1, <3>3, <3>4, <3>9 DEF ScanInv
  <2> QED
    BY <2>3, <2>4
<1> QED
  BY <1>3, <1>4

-----------------------------------------------------------------------------
LEMMA LengthBound ==
    ASSUME MaxRecords < LastId, IInv, Len(heap) < LastId, [Command]_sdrVars
    PROVE  Len(heap') < LastId
<1>1. Len(heap) \in Nat /\ LastId \in Nat
  BY HeapFacts, SizeAssumption DEF IInv, LastId
<1>2. ASSUME NEW l, NEW k \in AddNums, AddSdr(l, k), ~UNCHANGED sdrVars
      PROVE  Len(heap') < LastId
  <2>1. Len(heap) < MaxRecords /\ heap' = Linked(NewRecord(k))
    BY <1>2 DEF AddSdr, AddSdrEntry
  <2>2. NewRecord(k) \in Record
    BY <1>2, SensorAssumption DEF NewRecord, Record, IInv, TypeOK
  <2>3. head # 0 => tail \in DOMAIN heap
    BY HeapFacts DEF IInv, TypeOK, PointersAgree
  <2>4. Len(heap') = Len(heap) + 1
    BY <2>1, <2>2, <2>3, LinkedHeap DEF IInv
  <2> QED
    BY <1>1, <2>1, <2>4, SizeAssumption
<1>3. ASSUME NEW l, NEW k, NEW v \in Values, UpdateSdr(l, k, v) PROVE Len(heap') < LastId
  BY <1>3, UpdatedHeap DEF IInv
<1> QED
  BY <1>2, <1>3 DEF Command, ReserveSdrRepository, ClearSdrRepository, sdrVars

LEMMA ReaderInvariance == MaxRecords < LastId => (ReaderSpec => []RInv)
<1> SUFFICES ASSUME MaxRecords < LastId PROVE ReaderSpec => []RInv
  OBVIOUS
<1>1. ReaderInit => RInv
  <2> SUFFICES ASSUME ReaderInit PROVE RInv
    OBVIOUS
  <2>1. IInv
    BY InitEstablishes DEF ReaderInit
  <2>2. Len(heap) < LastId
    <3>1. heap = [n \in 1 .. Len(LocalSensors) |->
                    [recordId |-> n, lun |-> 0, sensNum |-> LocalSensors[n], value |-> 0,
                     next |-> IF n < Len(LocalSensors) THEN n + 1 ELSE 0]]
      BY DEF ReaderInit, Init
    <3>2. DOMAIN heap = 1 .. Len(LocalSensors) /\ Len(LocalSensors) \in Nat
      BY <3>1, SensorAssumption, LenProperties
    <3>3. Len(heap) = Len(LocalSensors)
      BY <2>1, <3>2, HeapIntervals
    <3> QED
      BY <3>2, <3>3, SizeAssumption DEF LastId
  <2> QED
    BY <2>1, <2>2 DEF ReaderInit, RInv, ScanInv
<1>2. ASSUME RInv, [ReaderNext]_vars PROVE RInv'
  <2>1. CASE Command /\ UNCHANGED readerVars
    BY <1>2, <2>1, CommandKeeps, LengthBound, CommandKeepsScan DEF RInv
  <2>2. CASE ReaderReserve
    <3>1. IInv' /\ UNCHANGED heap
      BY <1>2, <2>2, ReserveSdrRepositoryKeeps DEF RInv, ReaderReserve, ReserveSdrRepository
    <3> QED
      BY <1>2, <2>2, <3>1 DEF RInv, ReaderReserve, ScanInv
  <2>3. CASE ReaderGet
    <3>1. UNCHANGED sdrVars
      BY <2>3 DEF ReaderGet
    <3>2. IInv' /\ Len(heap') < LastId
      BY <1>2, <3>1, StutterKeeps DEF RInv, sdrVars
    <3> QED
      BY <1>2, <2>3, <3>2, GetKeepsScan DEF RInv
  <2>4. CASE UNCHANGED vars
    <3>1. UNCHANGED sdrVars /\ UNCHANGED readerVars /\ UNCHANGED heap
      BY <2>4 DEF vars, sdrVars
    <3>2. IInv' /\ Len(heap') < LastId
      BY <1>2, <3>1, StutterKeeps DEF RInv
    <3>3. ScanInv'
      BY <1>2, <3>1, ChainsStay, HeapIntervals DEF RInv
    <3> QED
      BY <3>2, <3>3 DEF RInv
  <2> QED
    BY <1>2, <2>1, <2>2, <2>3, <2>4 DEF ReaderNext
<1> QED
  BY <1>1, <1>2, PTL DEF ReaderSpec

(* A client that is told the end has been sent every record that was there when
   it began, whatever was added and erased since (getSdr). *)
THEOREM ScansAreComplete == MaxRecords < LastId => (ReaderSpec => []ScanComplete)
<1>1. ASSUME RInv PROVE ScanComplete
  <2> SUFFICES ASSUME rpc = "done" PROVE seen # {} /\ present \subseteq seen
    BY DEF ScanComplete
  <2>1. seen # {}
    BY <1>1 DEF RInv, ScanInv
  <2>2. PICK lo \in DOMAIN heap, hi \in DOMAIN heap, t \in DOMAIN heap : Scanned(lo, hi, t)
    BY <1>1, <2>1 DEF RInv, ScanInv
  <2>3. DOMAIN heap \subseteq Nat
    BY <1>1, HeapIntervals DEF RInv
  <2> QED
    BY <2>1, <2>2, <2>3 DEF Scanned
<1> QED
  BY <1>1, ReaderInvariance, PTL

(* No scan mixes the records from before an erase with those from after it,
   although ids are all it goes by and erased records stay readable to nobody
   (getSdr, clearSdrRepository). *)
THEOREM ScansAreOfOneGeneration ==
    MaxRecords < LastId => (ReaderSpec => []ScanOfOneGeneration)
<1>1. ASSUME RInv PROVE ScanOfOneGeneration
  <2> SUFFICES ASSUME NEW m \in seen, NEW n \in seen, n > m
               PROVE  m + 1 \in seen /\ heap[m].next = m + 1
    BY DEF ScanOfOneGeneration
  <2>1. PICK lo \in DOMAIN heap, hi \in DOMAIN heap, t \in DOMAIN heap : Scanned(lo, hi, t)
    BY <1>1 DEF RInv, ScanInv
  <2>2. DOMAIN heap \subseteq Nat
    BY <1>1, HeapIntervals DEF RInv
  <2>3. seen = lo .. hi /\ Chained(lo, hi)
    BY <2>1 DEF Scanned
  <2>4. m \in lo .. hi /\ m + 1 \in lo .. hi /\ m # hi
    BY <2>2, <2>3
  <2> QED
    BY <2>3, <2>4 DEF Chained
<1> QED
  BY <1>1, ReaderInvariance, PTL

(* A reply with a record behind those before it, or with an error. *)
NextRecord ==
    \/ rpc' = "failed"
    \/ \E n \in DOMAIN heap : /\ \A m \in seen : m < n
                              /\ seen' = seen \cup {n}
                              /\ rpc' = "done" <=> heap[n].next = 0

(* No scan is sent a record twice: each reply is a record behind those the client
   was sent, and the scan is done at one that no other follows (getSdr). So a
   scan is over after as many requests as there are records, which with the
   fairness of the client is ScanEnds. *)
THEOREM ScansAdvance ==
    MaxRecords < LastId => (ReaderSpec => [][ReaderGet => NextRecord]_vars)
<1>1. ASSUME RInv, ReaderGet, rpc' # "failed"
      PROVE  \E n \in DOMAIN heap : /\ \A m \in seen : m < n
                                    /\ seen' = seen \cup {n}
                                    /\ rpc' = "done" <=> heap[n].next = 0
  <2> DEFINE rep == GetSdr(held, askId)
             n == rep.rec
  <2>1. /\ DOMAIN heap = 1 .. Len(heap) /\ Len(heap) \in Nat
        /\ IInv /\ Len(heap) < LastId /\ ScanInv
    BY <1>1, HeapIntervals DEF RInv
  <2>2. rpc = "scan" /\ rep.cc = "OK"
    BY <1>1 DEF ReaderGet
  <2>3. /\ seen' = seen \cup {n}
        /\ rpc' = IF rep.next = LastId THEN "done" ELSE "scan"
    BY <1>1, <2>2 DEF ReaderGet
  <2>4. n \in Lookup(askId) /\ rep.next = NextId(n)
    BY <2>2, GoodReply
  <2> HIDE DEF rep
  <2>5. n \in DOMAIN heap /\ \A m \in seen : m < n
    <3>1. CASE seen = {}
      <4>1. askId = 0 /\ n = head /\ head # 0
        BY <2>1, <2>2, <2>4, <3>1 DEF ScanInv, Lookup
      <4> QED
        BY <2>1, <3>1, <4>1 DEF IInv, TypeOK
    <3>2. CASE seen # {}
      <4>1. PICK lo \in DOMAIN heap, hi \in DOMAIN heap, t \in DOMAIN heap : Scanned(lo, hi, t)
        BY <2>1, <3>2 DEF ScanInv
      <4>2. askId = hi + 1 /\ heap[hi].next = hi + 1 /\ seen = lo .. hi
        BY <2>2, <4>1 DEF Scanned
      <4>3. hi + 1 \in DOMAIN heap /\ hi + 1 \in 1 .. LastId - 1 /\ hi + 1 # 0
        BY <2>1, <4>2, NextIdIs
      <4>4. n = hi + 1
        BY <2>1, <2>4, <4>2, <4>3, LookupById
      <4> QED
        BY <2>1, <4>2, <4>3, <4>4
    <3> QED
      BY <3>1, <3>2
  <2>6. IF heap[n].next = 0 THEN NextId(n) = LastId ELSE NextId(n) # LastId
    BY <2>1, <2>4, <2>5, NextIdIs
  <2> QED
    BY <2>3, <2>4, <2>5, <2>6
<1>2. RInv => [ReaderGet => NextRecord]_vars
  BY <1>1 DEF NextRecord
<1> QED
  BY <1>2, ReaderInvariance, PTL

=============================================================================
