------------------------------- MODULE SelLog -------------------------------
(***************************************************************************)
(* The system event log (mc.sel): addToSel of bmc.go and the commands Get  *)
(* SEL Info, Reserve SEL, Get SEL Entry, Add SEL Entry and Clear SEL of    *)
(* ipmi_internal_storage.go. Only the main loop touches the log, and a     *)
(* handler runs to its end, so each of them is one action.                 *)
(*                                                                         *)
(* An entry is its record id; the event bytes are left out. The id 0 is    *)
(* that of a blank entry, which clearSel makes.                            *)
(***************************************************************************)
EXTENDS Integers, Sequences, FiniteSetsExt

CONSTANTS
    MaxCount,        \* mc.sel.maxCount
    InitialEntries,  \* events bmcInit logs at start
    Word             \* 2^16: record ids, counts and reservations are uint16

ASSUME LogAssumption ==
    /\ MaxCount \in Nat /\ InitialEntries \in Nat /\ Word \in Nat
    /\ InitialEntries <= MaxCount /\ MaxCount + 2 < Word

VARIABLES
    entries,      \* the slice, an entry being its record id
    count,        \* mc.sel.count
    nextEntry,    \* mc.sel.nextEntry
    overflow,     \* bit 7 of mc.sel.flags
    reservation,  \* mc.sel.reservation
    erased        \* whether mc.sel.lastEraseTime has been set

logVars == <<entries, count, nextEntry, overflow, reservation, erased>>

LastId == Word - 1

-----------------------------------------------------------------------------
(* An id addToSel does not hand out: one in the log, and 0xffff, after which
   nextEntry would be 0. *)
Taken(id) == id = LastId \/ \E i \in DOMAIN entries : entries[i] = id

(* How far behind nextEntry an id is free. *)
FreeDistances == {d \in 0 .. Word - 1 : ~Taken((nextEntry + d) % Word)}

(* Faulty: the id is the count, as if ids began at 0. *)
FreshIdByCount == count

(* The id of a new entry: the first free one from nextEntry on. *)
FreshId == (nextEntry + Min(FreeDistances)) % Word

Init ==
    /\ entries = [i \in 1 .. InitialEntries |-> i]
    /\ count = InitialEntries
    /\ nextEntry = InitialEntries + 1
    /\ overflow = FALSE
    /\ reservation = 0
    /\ erased = FALSE

(* Faulty: a full log takes one more entry. *)
AddToSelOneMore ==
    /\ count <= MaxCount
    /\ entries' = Append(entries, FreshId)
    /\ nextEntry' = (FreshId + 1) % Word
    /\ count' = count + 1
    /\ UNCHANGED <<overflow, reservation, erased>>

(* An entry is added behind whatever is in the slice. The search for an id
   also ends when it went round all ids; SpaceMeansRoom says that it never
   does, so that outcome has no action. *)
AddToSel ==
    /\ count < MaxCount
    /\ entries' = Append(entries, FreshId)
    /\ nextEntry' = (FreshId + 1) % Word
    /\ count' = count + 1
    /\ UNCHANGED <<overflow, reservation, erased>>

(* The log is full: the flag is set and the entry is refused. *)
AddRefusedFull ==
    /\ count >= MaxCount
    /\ overflow' = TRUE
    /\ UNCHANGED <<entries, count, nextEntry, reservation, erased>>

AddSelEntry == AddToSel \/ AddRefusedFull

NextReservation == IF reservation = Word - 1 THEN 1 ELSE reservation + 1

ReserveSel ==
    /\ reservation' = NextReservation
    /\ UNCHANGED <<entries, count, nextEntry, overflow, erased>>

Reserved(r) == r = 0 \/ r = reservation

(* Faulty: the ids start over. *)
ClearSelRestartsIds(r) ==
    /\ Reserved(r)
    /\ entries' = [i \in 1 .. MaxCount |-> 0]
    /\ nextEntry' = 1
    /\ overflow' = FALSE
    /\ erased' = TRUE
    /\ UNCHANGED <<count, reservation>>

(* Faulty: nothing is left in the slice, nor in the count, so that ids go on
   until they wrap; the search jumps 0xffff, not the invalid id 0. *)
ClearSelEmpties(r) ==
    /\ Reserved(r)
    /\ entries' = <<>> /\ count' = 0
    /\ overflow' = FALSE
    /\ erased' = TRUE
    /\ UNCHANGED <<nextEntry, reservation>>

(* Clear SEL with operation 0xaa. The new slice has MaxCount blank entries,
   and the count stays what it was. Operation 0 and the refusals change
   nothing. *)
ClearSel(r) ==
    /\ Reserved(r)
    /\ entries' = [i \in 1 .. MaxCount |-> 0]
    /\ overflow' = FALSE
    /\ erased' = TRUE
    /\ UNCHANGED <<count, nextEntry, reservation>>

(* Faulty: only as many entries are searched as are counted. *)
PlacesCounted(id) ==
    IF id = 0 THEN {1}
    ELSE IF id = LastId THEN {count}
    ELSE {i \in DOMAIN entries : i <= count /\ entries[i] = id}

(* The places of the slice Get SEL Entry takes an entry from. *)
Places(id) ==
    IF id = 0 THEN {1}
    ELSE IF id = LastId THEN {count}
    ELSE {i \in DOMAIN entries :
            entries[i] = id /\ \A j \in DOMAIN entries : j < i => entries[j] # id}

(* Faulty: an entry is its own successor, or the one before the last has none. *)
NextIdOfSelf(id, i) == IF id = LastId \/ i >= count THEN LastId ELSE i
NextIdEndsEarly(id, i) == IF id = LastId \/ i + 1 >= count THEN LastId ELSE i + 1

(* The next id is the place behind this one: not an id the log holds. *)
NextId(id, i) ==
    IF id = LastId \/ i >= count THEN LastId ELSE i + 1

(* The reply of Get SEL Entry: an error, or an entry and the id to ask next. *)
GetSelEntry(r, id) ==
    IF ~Reserved(r) THEN [cc |-> "INVALID_RESERVATION", entry |-> 0, next |-> 0]
    ELSE IF count = 0 \/ \A i \in Places(id) : entries[i] = 0
      THEN [cc |-> "NOT_PRESENT", entry |-> 0, next |-> 0]
    ELSE LET i == CHOOSE j \in Places(id) : TRUE
         IN  [cc |-> "OK", entry |-> entries[i], next |-> NextId(id, i)]

Next ==
    \/ AddSelEntry
    \/ ReserveSel
    \/ \E r \in 0 .. Word - 1 : ClearSel(r)

Spec == Init /\ [][Next]_logVars

-----------------------------------------------------------------------------
TypeOK ==
    /\ entries \in Seq(0 .. Word - 1)
    /\ count \in 0 .. MaxCount
    /\ nextEntry \in 0 .. Word - 1
    /\ overflow \in BOOLEAN /\ erased \in BOOLEAN
    /\ reservation \in 0 .. Word - 1

(* The places that hold an event. *)
Logged == {i \in DOMAIN entries : entries[i] # 0}

(* Every event has an id of its own, smaller than the ids of later events,
   although a clear drops entries and the search for an id starts anywhere. *)
IdsUnique ==
    \A i, j \in Logged : i < j => entries[i] < entries[j]

(* Every event logged since the last clear is found by its id, also behind
   the blank entries of a clear. *)
ServedById ==
    \A i \in Logged :
       LET reply == GetSelEntry(0, entries[i])
       IN  reply.cc = "OK" /\ reply.entry = entries[i]

(* Until the log is cleared, the next id of a reply is the id of the event
   that follows, and the last event says that it is the last. *)
ChainUntilErased ==
    ~erased =>
       \A i \in Logged :
          GetSelEntry(0, entries[i]).next =
             IF i = Len(entries) THEN LastId ELSE entries[i + 1]

(* The log takes an event as long as Get SEL Info reports space for it: the
   search for an id never fails before the log is full. *)
SpaceMeansRoom == count < MaxCount => FreeDistances # {} /\ FreshId \notin {0, LastId}

(* getSelEntry: "record id of 0 means 1st one in sel; 0xFF means last." *)
ZeroIsFirst ==
    \A i \in Logged : (\A j \in Logged : i <= j) => GetSelEntry(0, 0).entry = entries[i]

=============================================================================
