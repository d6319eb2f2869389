--------------------------- MODULE SessionReplies ---------------------------
(***************************************************************************)
(* LanSession beside what the clients of its sessions know: the sequence   *)
(* number of the last reply each was sent. lastSeq is a history variable,  *)
(* it takes no part in what the session layer does. A client tells by that *)
(* number whether it has seen a reply before.                              *)
(***************************************************************************)
EXTENDS LanSession

VARIABLE lastSeq  \* of the open session in each slot; 0 before its first reply

replyVars == <<vars, lastSeq>>

RepliesInit == Init /\ lastSeq = [s \in Slots |-> 0]

(* The client of a session remembers each reply that carries the session's id,
   and replies to others do not change what it remembers. *)
Remember ==
    lastSeq' = [s \in Slots |->
        IF ~sessions[s].active \/ ~sessions'[s].active THEN 0
        ELSE IF reply'.sid = sessions[s].sid THEN reply'.seq ELSE lastSeq[s]]

RepliesNext == Next /\ Remember

ReplySpec == RepliesInit /\ [][RepliesNext]_replyVars

-----------------------------------------------------------------------------
(* The number after q, around the word without its 0. *)
Follows(q, n) == n = q + 1 \/ (q = Word - 1 /\ n = 1)

(* Each reply of a session, that of its own close included, carries the number
   after the one of the session's last reply, however many other sessions were
   opened, answered, refused and closed in between, and never 0, which is no
   number of a session (returnRsp, setSessionPrivilege, closeSession). The
   replies to an Activate Session inside the session, which carry a session id
   as data, are excepted: they set the number the next reply continues from. *)
RepliesInOrder ==
    [][\A s \in Active :
          reply'.sid = sessions[s].sid /\ reply'.data \notin SessionIds =>
             /\ reply'.seq # 0
             /\ lastSeq[s] # 0 => Follows(lastSeq[s], reply'.seq)]_replyVars

=============================================================================
