---------------------------- MODULE SessionTable ----------------------------
(***************************************************************************)
(* What the LAN interface promises about sessions, without the slot table, *)
(* the sequence numbers and the packets of LanSession: a bounded set of    *)
(* open sessions with distinct ids, each held by a configured user at a    *)
(* privilege that user may have, and closed only by itself or by an        *)
(* administrator.                                                          *)
(***************************************************************************)
EXTENDS Integers, FiniteSets

CONSTANTS
    Ids,        \* session ids the manager can hand out
    UserLimit,  \* the highest privilege of each configured user
    Capacity,   \* how many sessions can be open at once
    UserPriv,   \* the privilege a session starts at
    AdminPriv   \* the privilege that may close any session

VARIABLE open   \* the open sessions: id, user, privilege and the one asked for

Init == open = {}

(* A session opens under an id no open session has, within the capacity. *)
Open ==
    /\ Cardinality(open) < Capacity
    /\ \E sid \in Ids, u \in DOMAIN UserLimit : \E l \in 0 .. UserLimit[u] :
          /\ \A x \in open : x.sid # sid
          /\ open' = open \cup {[sid |-> sid, user |-> u, priv |-> UserPriv, limit |-> l]}

(* A session moves to a privilege between the user level and its limit. *)
SetPrivilege ==
    \E r \in open : \E p \in UserPriv .. r.limit :
        open' = (open \ {r}) \cup {[r EXCEPT !.priv = p]}

(* A session closes itself, or an administrator's session closes it. *)
Close ==
    \E by, r \in open :
        /\ by = r \/ by.priv = AdminPriv
        /\ open' = open \ {r}

(* A request that is refused, or only asks. *)
Refuse == UNCHANGED open

Next == Refuse \/ Open \/ SetPrivilege \/ Close

Spec == Init /\ [][Next]_open
=============================================================================
