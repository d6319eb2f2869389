----------------------------- MODULE SelReader -----------------------------
(***************************************************************************)
(* A remote client that pulls the event log while events are logged, other *)
(* clients reserve it and others clear it. It reserves the log, asks for   *)
(* entry 0 and then for the id each reply names, until a reply names       *)
(* 0xffff. The client is not part of this program; the replies are those   *)
(* of getSelEntry and reserveSel. As in SdrReader a request, its handling  *)
(* and the arrival of its reply are one step.                              *)
(***************************************************************************)
EXTENDS SelLog

VARIABLES
    rpc,         \* "idle", "scan", "done" or "failed"
    held,        \* the reservation the client was given
    askId,       \* the record id it asks for next
    seen,        \* the ids of the events it was sent
    present,     \* the ids of the events logged when it was sent the first one
    clearedSince \* whether the log was cleared after it was sent the first one

readerVars == <<rpc, held, askId, seen, present, clearedSince>>
vars == <<logVars, readerVars>>

ReaderInit ==
    /\ Init
    /\ rpc = "idle"
    /\ held = 0 /\ askId = 0
    /\ seen = {} /\ present = {}
    /\ clearedSince = FALSE

(* Reserve SEL, and start from the first event. *)
ReaderReserve ==
    /\ rpc # "scan"
    /\ ReserveSel
    /\ held' = NextReservation
    /\ rpc' = "scan"
    /\ askId' = 0
    /\ seen' = {} /\ present' = {}
    /\ clearedSince' = FALSE

(* Get SEL Entry; an error ends the scan. *)
ReaderGet ==
    /\ rpc = "scan"
    /\ LET reply == GetSelEntry(held, askId)
       IN  IF reply.cc = "OK"
             THEN /\ seen' = seen \cup {reply.entry}
                  /\ askId' = reply.next
                  /\ present' = IF askId = 0 THEN {entries[i] : i \in Logged} ELSE present
                  /\ rpc' = IF reply.next = LastId THEN "done" ELSE "scan"
             ELSE /\ rpc' = "failed"
                  /\ UNCHANGED <<seen, askId, present>>
    /\ UNCHANGED <<logVars, held, clearedSince>>

(* Another client clears the log. *)
OtherClears(r) ==
    /\ ClearSel(r)
    /\ clearedSince' = (clearedSince \/ (rpc = "scan" /\ askId # 0))
    /\ UNCHANGED <<rpc, held, askId, seen, present>>

OtherReservesOrLogs == (AddSelEntry \/ ReserveSel) /\ UNCHANGED readerVars

ReaderNext ==
    \/ ReaderReserve
    \/ ReaderGet
    \/ OtherReservesOrLogs
    \/ \E r \in 0 .. Word - 1 : OtherClears(r)

ReaderSpec == ReaderInit /\ [][ReaderNext]_vars /\ WF_vars(ReaderGet)

-----------------------------------------------------------------------------
(* A scan that ends well was sent every event that was logged when it began,
   although events were logged, the log was reserved by others, and maybe it
   was cleared while the scan went on. *)
ScanComplete == rpc = "done" => seen # {} /\ present \subseteq seen

(* A scan never goes on into a log that was cleared under it, although a
   clear leaves the client's reservation valid: the ids go on after a clear,
   so the id it asks for next is gone for good. *)
NothingAfterClear ==
    [][ReaderGet /\ seen' # seen => ~clearedSince]_vars

(* Every scan ends: each reply names a later place, and there are MaxCount. *)
ScanEnds == (rpc = "scan") ~> (rpc \in {"done", "failed"})

=============================================================================
