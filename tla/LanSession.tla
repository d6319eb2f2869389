----------------------------- MODULE LanSession -----------------------------
(***************************************************************************)
(* The session layer of the LAN interface: the session table of lanserv,   *)
(* the handlers of the session commands (ipmi_internal_app.go) and the     *)
(* path every reply takes (returnRsp, ipmi_proto.go).                      *)
(*                                                                         *)
(* One datagram is handled to its end by the main loop before the next is  *)
(* received, so each handler is one atomic action. The peers are not       *)
(* modelled: any request, with any session id, may arrive in any state,    *)
(* which covers duplicated, delayed and stale requests of every client.    *)
(*                                                                         *)
(* A session id is its three bit fields: bit 0 (tmp, set in the temporary  *)
(* ids of Get Session Challenge), six bits of index and the rest, a tag    *)
(* taken from a 32-bit counter that loses its upper bits in the shift.     *)
(***************************************************************************)
EXTENDS Integers, FiniteSets

CONSTANTS
    MaxSessions,  \* MAX_SESSIONS: the slots 1..MaxSessions of the table
    IdxMask,      \* SESSION_MASK and USER_MASK: the largest index an id holds
    TagMod,       \* 2^25: what the shift leaves of a counter in an id
    Word,         \* 2^32: the modulus of the counters
    ReqSids,      \* session ids requests carry, in the header and as data
    AuthReqs,     \* authentication types requests carry
    PrivReqs,     \* privilege nibbles requests carry
    SeqReqs       \* outbound sequence numbers Activate Session asks for

CALLBACK == 1
USER     == 2
ADMIN    == 4

(* The user table ipmiLanInit fills: index 1 is the null user, 2 "ipmiusr". *)
Users == {1, 2}
UserMaxPriv == [u \in Users |-> IF u = 1 THEN USER ELSE ADMIN]
AllowedAuths == [u \in Users |-> IF u = 1 THEN {"NONE", "STRAIGHT"} ELSE {"NONE"}]
AuthTypes == {"NONE", "STRAIGHT", "MD5"}

Slots == 1 .. MaxSessions
Sids == [tmp : {0, 1}, idx : 0 .. IdxMask, tag : 0 .. TagMod - 1]
SessionIds == [tmp : {0}, idx : Slots, tag : 0 .. TagMod - 1]
NoSid == [tmp |-> 0, idx |-> 0, tag |-> 0]

ASSUME SizeAssumption ==
    /\ MaxSessions \in Nat \ {0}
    /\ IdxMask \in Nat /\ MaxSessions <= IdxMask /\ 2 <= IdxMask
    /\ TagMod \in Nat \ {0}
    /\ Word \in Nat /\ Word > 2

ASSUME RequestAssumption ==
    /\ ReqSids \subseteq Sids
    /\ AuthReqs \subseteq AuthTypes
    /\ PrivReqs \subseteq 0 .. 15
    /\ SeqReqs \subseteq 0 .. Word - 1

VARIABLES
    sessions,        \* lanserv.sessions
    activeSessions,  \* lanserv.activeSessions
    sidSeq,          \* lanserv.sidSeq, the source of session ids
    nextChallSeq,    \* lanserv.nextChallSeq, the source of temporary ids
    up,              \* FALSE once a handler panicked: the process is gone
    reply            \* the datagram the last handler wrote, or Silent

vars == <<sessions, activeSessions, sidSeq, nextChallSeq, up, reply>>

SessionT == [active : BOOLEAN, sid : Sids, xmitSeq : 0 .. Word - 1,
             userid : {0} \cup Users, priv : 0 .. 15, maxPriv : 0 .. 15]

ZeroSession == [active |-> FALSE, sid |-> NoSid, xmitSeq |-> 0,
                userid |-> 0, priv |-> 0, maxPriv |-> 0]

(* A reply: the id and sequence number of its session header, the
   completion code, and the id its data carry (NoSid when they carry none). *)
Reply(sid, seq, cc, data) == [sid |-> sid, seq |-> seq, cc |-> cc, data |-> data]
Silent == Reply(NoSid, 0, "silent", NoSid)

Codes == {"silent", "OK", "INVALID_DATA", "OUT_OF_SPACE", "NO_USER",
          "BAD_XMIT_SEQ", "BAD_PRIV", "NO_SLOT", "BELOW_USER", "TOO_HIGH",
          "INSUFFICIENT_PRIVILEGE", "NO_SUCH_SESSION", "NOT_SUPPORTED"}

Active == {s \in Slots : sessions[s].active}

-----------------------------------------------------------------------------
(* Faulty: a slot answers to every id with its index, stale ones included. *)
SidToSessionByIndex(sid) == {s \in Active : sid.tmp = 0 /\ sid.idx = s}

(* The slot a session id stands for: no slot, or the one in a singleton. *)
SidToSession(sid) ==
    {s \in Active : sid.tmp = 0 /\ sid.idx = s /\ sessions[s].sid = sid}

(* Faulty: a slot counts as free although a session holds it. *)
FreeSlotsAll == Slots

(* The free slots; findFreeSession takes the first. *)
FreeSlots == {s \in Slots : ~sessions[s].active}
IsFirstFree(s) == s \in FreeSlots /\ \A t \in FreeSlots : s <= t

(* Faulty: the sequence number leaves its word. *)
BumpSeqUnbounded(seq) == seq + 1

(* Faulty: the number wraps to zero. *)
BumpSeqThroughZero(seq) == (seq + 1) % Word

(* A sequence number after it was used: zero is skipped. *)
BumpSeq(seq) == IF seq = Word - 1 THEN 1 ELSE seq + 1

(* The session table after slot s wrote a reply. *)
Spent(s) == [sessions EXCEPT ![s].xmitSeq = BumpSeq(@)]

(* returnRsp on session slot s. *)
AnswerOn(s, cc, data) ==
    /\ reply' = Reply(sessions[s].sid, sessions[s].xmitSeq, cc, data)
    /\ sessions' = Spent(s)

(* returnRsp without a session: it looks the id up itself, answers id 0
   outside any session and drops the reply when the id is unknown. *)
Answer(sid, cc, data) ==
    \/ \E s \in SidToSession(sid) : AnswerOn(s, cc, data)
    \/ /\ SidToSession(sid) = {}
       /\ reply' = IF sid = NoSid THEN Reply(NoSid, 0, cc, data) ELSE Silent
       /\ UNCHANGED sessions

Drop == reply' = Silent /\ UNCHANGED sessions

-----------------------------------------------------------------------------
Init ==
    /\ sessions = [s \in Slots |-> ZeroSession]
    /\ activeSessions = 0
    /\ sidSeq = 0
    /\ nextChallSeq = 0
    /\ up = TRUE
    /\ reply = Silent

(* Every request without a session has to come without authentication too. *)
Unauthenticated(sid, hdrAuth) == sid = NoSid /\ hdrAuth # "NONE"

(* Get Channel Authentication Capabilities, the first request of a client.
   valid: the channel and the privilege asked for are the ones there are. *)
GetChannelAuthCapabilities(sid, hdrAuth, rmcpp, valid) ==
    /\ IF Unauthenticated(sid, hdrAuth) \/ rmcpp
          THEN Drop
          ELSE Answer(sid, IF valid THEN "OK" ELSE "INVALID_DATA", NoSid)
    /\ UNCHANGED <<activeSessions, sidSeq, nextChallSeq, up>>

(* What Get Session Challenge refuses: u is the user whose name the request
   carries, 0 when no user has it. *)
ChallengeRefusal(u, auth) ==
    IF u = 0 THEN "NO_USER"
    ELSE IF auth \notin AllowedAuths[u] THEN "INVALID_DATA"
    ELSE IF activeSessions >= MaxSessions THEN "OUT_OF_SPACE" ELSE "OK"

(* The temporary id a challenge hands out names the user, not a session. *)
TempSid(u) == [tmp |-> 1, idx |-> u, tag |-> nextChallSeq % TagMod]

GetSessionChallenge(sid, hdrAuth, u, auth) ==
    /\ \/ /\ Unauthenticated(sid, hdrAuth)
          /\ Drop
          /\ UNCHANGED nextChallSeq
       \/ /\ ~Unauthenticated(sid, hdrAuth)
          /\ ChallengeRefusal(u, auth) # "OK"
          /\ Answer(sid, ChallengeRefusal(u, auth), NoSid)
          /\ UNCHANGED nextChallSeq
       \/ /\ ~Unauthenticated(sid, hdrAuth)
          /\ ChallengeRefusal(u, auth) = "OK"
          /\ Answer(sid, "OK", TempSid(u))
          /\ nextChallSeq' = (nextChallSeq + 1) % Word
    /\ UNCHANGED <<activeSessions, sidSeq, up>>

(* Faulty: the activation does not look at the number of open sessions. *)
AdmissibleUncounted(sid, hdrAuth, auth) ==
    sid.idx \in Users /\ {hdrAuth, auth} \subseteq AllowedAuths[sid.idx]

(* Activate Session under a temporary id. The handler drops the request when
   the id names no user, the user may not use an authentication type of the
   request, or the table is full; the challenge itself is not compared. *)
Admissible(sid, hdrAuth, auth) ==
    /\ sid.idx \in Users
    /\ {hdrAuth, auth} \subseteq AllowedAuths[sid.idx]
    /\ activeSessions < MaxSessions

ActivateRefusal(u, priv, seq) ==
    IF seq = 0 THEN "BAD_XMIT_SEQ"
    ELSE IF priv > UserMaxPriv[u] THEN "BAD_PRIV"
    ELSE IF FreeSlots = {} THEN "NO_SLOT" ELSE "OK"

(* Faulty: the index bits of the id count slots from zero. *)
SessionSidFromZero(s) == [tmp |-> 0, idx |-> s - 1, tag |-> sidSeq % TagMod]

(* The counter skips zero before it makes an id, never after. *)
IdSeq == IF sidSeq = 0 THEN 1 ELSE sidSeq
SessionSid(s) == [tmp |-> 0, idx |-> s, tag |-> IdSeq % TagMod]

(* The session opens in the first free slot at user privilege; the reply
   still goes out under the temporary id, with the sequence number asked for. *)
OpenSession(sid, priv, seq) ==
    \E s \in Slots :
       /\ IsFirstFree(s)
       /\ sessions' = [sessions EXCEPT ![s] =
             [active |-> TRUE, sid |-> SessionSid(s), xmitSeq |-> seq,
              userid |-> sid.idx, priv |-> USER, maxPriv |-> priv]]
       /\ activeSessions' = activeSessions + 1
       /\ sidSeq' = (IdSeq + 1) % Word
       /\ reply' = Reply(sid, seq, "OK", SessionSid(s))

ActivateTemporary(sid, hdrAuth, auth, priv, seq) ==
    /\ sid.tmp = 1
    /\ \/ /\ ~Admissible(sid, hdrAuth, auth)
          /\ Drop
          /\ UNCHANGED <<activeSessions, sidSeq>>
       \/ /\ Admissible(sid, hdrAuth, auth)
          /\ ActivateRefusal(sid.idx, priv, seq) # "OK"
          /\ reply' = Reply(sid, seq, ActivateRefusal(sid.idx, priv, seq), NoSid)
          /\ UNCHANGED <<sessions, activeSessions, sidSeq>>
       \/ /\ Admissible(sid, hdrAuth, auth)
          /\ ActivateRefusal(sid.idx, priv, seq) = "OK"
          /\ OpenSession(sid, priv, seq)
    /\ UNCHANGED <<nextChallSeq, up>>

(* Activate Session inside a session sets the outbound sequence number from
   msg.data[18:22], bytes 18 to 21 of the datagram. Without authentication
   they are the request's sequence number, command (never 0) and first data
   bytes; with it they lie in the authentication code, which may be zeros.
   The number the request asks for is not looked at. *)
HeaderBytes(hdrAuth) == IF hdrAuth = "NONE" THEN 1 .. Word - 1 ELSE 0 .. Word - 1

Reactivate(sid, hdrAuth) ==
    /\ sid.tmp = 0
    /\ \/ SidToSession(sid) = {} /\ Drop
       \/ \E s \in SidToSession(sid) : \E x \in HeaderBytes(hdrAuth) :
             /\ reply' = Reply(sessions[s].sid, x, "OK", sessions[s].sid)
             /\ sessions' = [sessions EXCEPT ![s].xmitSeq = BumpSeq(x)]
    /\ UNCHANGED <<activeSessions, sidSeq, nextChallSeq, up>>

(* Set Session Privilege Level; 0 asks for the present level. *)
AskedPriv(s, priv) == IF priv = 0 THEN sessions[s].priv ELSE priv

(* Faulty: the limit asked for at activation, or the user level, is no bound. *)
PrivRefusalNoLimit(s, p) == IF p = CALLBACK THEN "BELOW_USER" ELSE "OK"
PrivRefusalNoFloor(s, p) == IF p > sessions[s].maxPriv THEN "TOO_HIGH" ELSE "OK"

PrivRefusal(s, p) ==
    IF p = CALLBACK THEN "BELOW_USER"
    ELSE IF p > sessions[s].maxPriv THEN "TOO_HIGH" ELSE "OK"

SetSessionPrivilege(sid, priv) ==
    /\ \/ SidToSession(sid) = {} /\ Drop
       \/ \E s \in SidToSession(sid) :
             LET p == AskedPriv(s, priv)
             IN  \/ PrivRefusal(s, p) # "OK" /\ AnswerOn(s, PrivRefusal(s, p), NoSid)
                 \/ /\ PrivRefusal(s, p) = "OK"
                    /\ reply' = Reply(sid, sessions[s].xmitSeq, "OK", NoSid)
                    /\ sessions' = [Spent(s) EXCEPT ![s].priv = p]
    /\ UNCHANGED <<activeSessions, sidSeq, nextChallSeq, up>>

(* Close Session. The handler reads session.sid before it looks whether the
   request has a session: without one the process panics. *)
CloseWithoutSession(sid) ==
    /\ SidToSession(sid) = {}
    /\ up' = FALSE
    /\ Drop
    /\ UNCHANGED <<activeSessions, sidSeq, nextChallSeq>>

(* Faulty: everybody closes everybody's sessions. *)
MayCloseAnyone(s, target) == TRUE

MayClose(s, target) == target = sessions[s].sid \/ sessions[s].priv = ADMIN

CloseSession(sid, target) ==
    \E s \in SidToSession(sid) :
       /\ \/ /\ ~MayClose(s, target)
             /\ AnswerOn(s, "INSUFFICIENT_PRIVILEGE", NoSid)
             /\ UNCHANGED activeSessions
          \/ /\ MayClose(s, target) /\ SidToSession(target) = {}
             /\ AnswerOn(s, "NO_SUCH_SESSION", NoSid)
             /\ UNCHANGED activeSessions
          \/ \E t \in SidToSession(target) :
             /\ MayClose(s, target)
             /\ reply' = Reply(sid, sessions[s].xmitSeq, "OK", NoSid)
             /\ sessions' = [Spent(s) EXCEPT ![t].active = FALSE]
             /\ activeSessions' = activeSessions - 1
       /\ UNCHANGED <<sidSeq, nextChallSeq, up>>

(* The other commands answer through returnRsp without a session of their
   own; the ones that are not supported, and the packets the parser rejects,
   are not answered at all. *)
OtherCommand(sid, cc) ==
    /\ Answer(sid, cc, NoSid)
    /\ UNCHANGED <<activeSessions, sidSeq, nextChallSeq, up>>

Unanswered ==
    /\ Drop
    /\ UNCHANGED <<activeSessions, sidSeq, nextChallSeq, up>>

Handle(sid) ==
    \/ \E h \in AuthReqs, rmcpp, valid \in BOOLEAN :
          GetChannelAuthCapabilities(sid, h, rmcpp, valid)
    \/ \E h, a \in AuthReqs, u \in {0} \cup Users : GetSessionChallenge(sid, h, u, a)
    \/ \E h, a \in AuthReqs, p \in PrivReqs, q \in SeqReqs :
          ActivateTemporary(sid, h, a, p, q)
    \/ \E h \in AuthReqs : Reactivate(sid, h)
    \/ \E p \in PrivReqs : SetSessionPrivilege(sid, p)
    \/ CloseWithoutSession(sid)
    \/ \E target \in ReqSids : CloseSession(sid, target)
    \/ \E cc \in {"OK", "INVALID_DATA"} : OtherCommand(sid, cc)
    \/ Unanswered

Next == up /\ \E sid \in ReqSids : Handle(sid)

Spec == Init /\ [][Next]_vars

-----------------------------------------------------------------------------
(* The variables keep their types: slots hold sessions, counters stay in
   their words, replies carry one of the completion codes. *)
TypeOK ==
    /\ sessions \in [Slots -> SessionT]
    /\ activeSessions \in 0 .. MaxSessions
    /\ sidSeq \in 0 .. Word - 1
    /\ nextChallSeq \in 0 .. Word - 1
    /\ up \in BOOLEAN
    /\ reply \in [sid : Sids, seq : 0 .. Word - 1, cc : Codes, data : Sids]

(* activeSessions, which limits challenges and activations, is the number of
   active slots whatever order sessions are opened and closed in, and however
   often a request is repeated (activateSession, closeSession). *)
ActiveCount == activeSessions = Cardinality(Active)

(* An activation that passed the activeSessions test finds a free slot: the
   0x81 reply of activateSession is never sent. *)
SlotAvailable == reply.cc # "NO_SLOT"

(* Every open session can be reached under the id it was given: its index
   bits lead back to its slot, for every value of the id counter. *)
Reachable == \A s \in Active : SidToSession(sessions[s].sid) = {s}

(* No session is ever at a privilege its user may not have, whatever
   privilege the activation asked for and whatever was set since; one that
   asked for less than user level still starts at user level. *)
PrivBounded ==
    \A s \in Active :
        LET x == sessions[s]
        IN  /\ x.userid \in Users
            /\ x.maxPriv <= UserMaxPriv[x.userid]
            /\ USER <= x.priv /\ x.priv <= UserMaxPriv[x.userid]
            /\ x.priv = USER \/ x.priv <= x.maxPriv

(* A session disappears only in a step that acknowledges the close on the
   session that asked for it: that session itself or an administrator's. *)
CloseAuthority ==
    [][\A t \in Slots : sessions[t].active /\ ~sessions'[t].active =>
          \E s \in Active :
             /\ reply'.cc = "OK" /\ reply'.sid = sessions[s].sid
             /\ s = t \/ sessions[s].priv = ADMIN]_vars

(* The privilege of an open session changes only by a request of that very
   session: no step of another session raises or lowers it. *)
PrivChangedByOwner ==
    [][\A s \in Active : sessions'[s].active /\ sessions'[s].priv # sessions[s].priv
          => reply'.sid = sessions[s].sid /\ sessions'[s].sid = sessions[s].sid]_vars

(* No datagram stops the daemon from answering the next one. *)
StaysUp == up

(* The session manager implements the abstract session table. *)
OpenSessions ==
    {[sid |-> sessions[s].sid, user |-> sessions[s].userid,
      priv |-> sessions[s].priv, limit |-> sessions[s].maxPriv] : s \in Active}

Table == INSTANCE SessionTable WITH
    Ids <- SessionIds, UserLimit <- UserMaxPriv, Capacity <- MaxSessions,
    UserPriv <- USER, AdminPriv <- ADMIN, open <- OpenSessions

ImplementsTable == Table!Spec

=============================================================================
