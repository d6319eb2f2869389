--------------------------- MODULE MCLanSession ---------------------------
(* LanSession and what its clients remember, with values for TLC: two slots,
   ids whose two-bit index can also name no slot and no user, counters that
   wrap after three uses. *)
EXTENDS SessionReplies

(* Every id of an open session, one temporary id per user, and the id of
   requests outside a session. *)
MCReqSids ==
    {x \in Sids : x.tmp = 0 /\ x.idx \in Slots}
       \cup {x \in Sids : x.tmp = 1 /\ x.tag = 0 /\ x.idx \in Users}
       \cup {NoSid}

(* With a temporary id that names no user, too. *)
MCReqSidsAndNobody == MCReqSids \cup {[tmp |-> 1, idx |-> 3, tag |-> 0]}

MCLowAndHigh == {CALLBACK, ADMIN}
MCSeqReqs == {0, 1}
==========================================================================
