----------------------------- MODULE SdrReader -----------------------------
(***************************************************************************)
(* A remote management client that pulls the repository while other        *)
(* clients and line cards add, update, erase and reserve: it reserves the  *)
(* repository, asks for record 0 and then for the id each reply names,     *)
(* until a reply names 0xffff. The client is not part of this program      *)
(* (freeipmi reads a repository this way); the replies are those of        *)
(* getSdr and reserveSdrRepository.                                        *)
(*                                                                         *)
(* One request is outstanding at a time, and a request that is repeated    *)
(* because it or its reply was lost finds the repository in a state a      *)
(* later request could also find it in; so a request, its handling and the *)
(* arrival of its reply are one step.                                      *)
(***************************************************************************)
EXTENDS SdrRepository, FiniteSets

VARIABLES
    rpc,     \* "idle", "scan", "done" or "failed"
    held,    \* the reservation the client was given
    askId,   \* the record id it asks for next
    seen,    \* the records it was sent
    present  \* the records that were live when it was sent the first one

readerVars == <<rpc, held, askId, seen, present>>
vars == <<sdrVars, readerVars>>

ReaderInit ==
    /\ Init
    /\ rpc = "idle"
    /\ held = 0
    /\ askId = 0
    /\ seen = {}
    /\ present = {}

(* Reserve SDR Repository, and start from the first record. *)
ReaderReserve ==
    /\ rpc # "scan"
    /\ ReserveSdrRepository
    /\ held' = NextReservation
    /\ rpc' = "scan"
    /\ askId' = 0
    /\ seen' = {}
    /\ present' = {}

(* Get SDR; an error ends the scan. *)
ReaderGet ==
    /\ rpc = "scan"
    /\ LET reply == GetSdr(held, askId)
       IN  IF reply.cc = "OK"
             THEN /\ seen' = seen \cup {reply.rec}
                  /\ askId' = reply.next
                  /\ present' = IF askId = 0 THEN Live ELSE present
                  /\ rpc' = IF reply.next = LastId THEN "done" ELSE "scan"
             ELSE /\ rpc' = "failed"
                  /\ UNCHANGED <<seen, askId, present>>
    /\ UNCHANGED <<sdrVars, held>>

ReaderNext ==
    \/ Command /\ UNCHANGED readerVars
    \/ ReaderReserve
    \/ ReaderGet

ReaderSpec == ReaderInit /\ [][ReaderNext]_vars /\ WF_vars(ReaderGet)

-----------------------------------------------------------------------------
(* A scan that ends well has been sent every record that was there when it
   began, although records were added, and maybe all of them erased, while it
   went on. *)
ScanComplete == rpc = "done" => seen # {} /\ present \subseteq seen

(* The records of one scan, finished or not, are of one generation: an erase
   in the middle is noticed, or it came after the last record was sent. *)
ScanOfOneGeneration ==
    \A m \in seen : (\E n \in seen : n > m) => m + 1 \in seen /\ heap[m].next = m + 1

(* No scan goes on for ever: each request gets on to a later record, and
   records are added less often than a client asks (at most MaxRecords). *)
ScanEnds == (rpc = "scan") ~> (rpc \in {"done", "failed"})

=============================================================================
