-------------------------- MODULE LanSessionProofs --------------------------
(***************************************************************************)
(* Proofs about LanSession and SessionReplies for every number of slots,   *)
(* every width of the counters and every set of requests.                  *)
(***************************************************************************)
EXTENDS SessionReplies, FiniteSetTheorems, TLAPS

(* An open session's id has its slot in the index bits; this is what makes
   two open sessions have different ids. *)
Addressed ==
    \A s \in Active : sessions[s].sid \in SessionIds /\ sessions[s].sid.idx = s

(* The inductive invariant. ActiveCount is what keeps activeSessions in its
   range and a slot free for every admitted activation; Addressed is what
   makes a request act on one slot only. *)
IInv == TypeOK /\ ActiveCount /\ Addressed /\ PrivBounded /\ SlotAvailable

ReplyT == [sid : Sids, seq : 0 .. Word - 1, cc : Codes, data : Sids]

(* A step that changes no more of the slots than sequence numbers. *)
OnlySeqs ==
    /\ sessions' \in [Slots -> SessionT]
    /\ \A s \in Slots :
          /\ sessions'[s].active = sessions[s].active
          /\ sessions'[s].sid = sessions[s].sid
          /\ sessions'[s].userid = sessions[s].userid
          /\ sessions'[s].priv = sessions[s].priv
          /\ sessions'[s].maxPriv = sessions[s].maxPriv

(* The slots are finitely many, so are the active ones. *)
LEMMA ActiveFinite ==
    /\ IsFiniteSet(Active)
    /\ Cardinality(Active) \in 0 .. MaxSessions
    /\ Cardinality(Active) = MaxSessions => Active = Slots
<1>1. IsFiniteSet(Slots) /\ Cardinality(Slots) = MaxSessions
  BY FS_Interval, SizeAssumption DEF Slots
<1>2. Active \in SUBSET Slots
  BY DEF Active
<1>3. IsFiniteSet(Active) /\ Cardinality(Active) <= MaxSessions
      /\ (Cardinality(Active) = MaxSessions => Active = Slots)
  BY <1>1, <1>2, FS_Subset
<1>4. Cardinality(Active) \in Nat
  BY <1>3, FS_CardinalityType
<1> QED
  BY <1>3, <1>4, SizeAssumption

(* The sequence number of the next reply is a 32-bit number, and not 0. *)
LEMMA BumpSeqType ==
    ASSUME NEW q \in 0 .. Word - 1
    PROVE  BumpSeq(q) \in 1 .. Word - 1
BY SizeAssumption DEF BumpSeq

(* Using up a sequence number changes nothing else in the table. *)
LEMMA SpentOnlySeqs ==
    ASSUME TypeOK, NEW s \in Slots, sessions' = Spent(s)
    PROVE  OnlySeqs
<1>1. BumpSeq(sessions[s].xmitSeq) \in 0 .. Word - 1
  BY BumpSeqType DEF TypeOK, SessionT
<1> QED
  BY <1>1 DEF OnlySeqs, Spent, TypeOK, SessionT

(* A table that stays as it is differs in sequence numbers at most. *)
LEMMA SameOnlySeqs ==
    ASSUME TypeOK, UNCHANGED sessions
    PROVE  OnlySeqs
BY DEF OnlySeqs, TypeOK

(* What Reply makes is a reply. *)
LEMMA ReplyType ==
    ASSUME NEW sid \in Sids, NEW q \in 0 .. Word - 1, NEW cc \in Codes, NEW data \in Sids
    PROVE  Reply(sid, q, cc, data) \in ReplyT
BY DEF Reply, ReplyT

(* The id of requests outside a session is an id. *)
LEMMA NoSidType == NoSid \in Sids
BY SizeAssumption DEF NoSid, Sids

(* Sending nothing counts as a reply of its own. *)
LEMMA SilentType == Silent \in ReplyT
BY ReplyType, NoSidType, SizeAssumption DEF Silent, Codes

(* Whoever returnRsp answers, the slots keep their sessions. *)
LEMMA AnswerOnlySeqs ==
    ASSUME TypeOK, NEW sid \in Sids, NEW cc \in Codes, NEW data \in Sids,
           Answer(sid, cc, data)
    PROVE  OnlySeqs /\ reply' \in ReplyT /\ (reply'.cc = cc \/ reply'.cc = "silent")
<1>1. CASE \E s \in SidToSession(sid) : AnswerOn(s, cc, data)
  <2>1. PICK s \in SidToSession(sid) : AnswerOn(s, cc, data)
    BY <1>1
  <2>2. s \in Slots /\ sessions[s].sid \in Sids /\ sessions[s].xmitSeq \in 0 .. Word - 1
    BY <2>1 DEF SidToSession, Active, TypeOK, SessionT
  <2>3. OnlySeqs
    BY <2>1, <2>2, SpentOnlySeqs DEF AnswerOn
  <2> QED
    BY <2>1, <2>2, <2>3, ReplyType DEF AnswerOn, Reply
<1>2. CASE /\ SidToSession(sid) = {}
           /\ reply' = IF sid = NoSid THEN Reply(NoSid, 0, cc, data) ELSE Silent
           /\ UNCHANGED sessions
  <2>1. Reply(NoSid, 0, cc, data) \in ReplyT
    BY ReplyType, NoSidType, SizeAssumption
  <2> QED
    BY <1>2, <2>1, SilentType, SameOnlySeqs DEF Reply, Silent
<1> QED
  BY <1>1, <1>2 DEF Answer

(* A step that changes sequence numbers only keeps the invariant. *)
LEMMA OnlySeqsKeeps ==
    ASSUME IInv, OnlySeqs, activeSessions' = activeSessions,
           sidSeq' \in 0 .. Word - 1, nextChallSeq' \in 0 .. Word - 1,
           up' \in BOOLEAN, reply' \in ReplyT, reply'.cc # "NO_SLOT"
    PROVE  IInv'
<1>1. TypeOK'
  BY DEF IInv, TypeOK, OnlySeqs, ReplyT
<1>2. Active' = Active
  BY DEF Active, OnlySeqs
<1> QED
  BY <1>1, <1>2 DEF IInv, ActiveCount, Addressed, PrivBounded, SlotAvailable, OnlySeqs, Active

-----------------------------------------------------------------------------
(* Opening a session: the slot was free, so the number of active slots grows
   by one, and the new id carries the slot. *)
LEMMA OpenKeeps ==
    ASSUME IInv, NEW sid \in Sids, NEW priv \in 0 .. 15, NEW q \in 0 .. Word - 1,
           sid.idx \in Users, activeSessions < MaxSessions,
           priv <= UserMaxPriv[sid.idx], OpenSession(sid, priv, q),
           nextChallSeq' = nextChallSeq, up' = up
    PROVE  IInv'
<1>1. PICK s \in Slots :
         /\ IsFirstFree(s)
         /\ sessions' = [sessions EXCEPT ![s] =
               [active |-> TRUE, sid |-> SessionSid(s), xmitSeq |-> q,
                userid |-> sid.idx, priv |-> USER, maxPriv |-> priv]]
         /\ activeSessions' = activeSessions + 1
         /\ sidSeq' = (IdSeq + 1) % Word
         /\ reply' = Reply(sid, q, "OK", SessionSid(s))
  BY DEF OpenSession
<1>2. IdSeq \in Nat
  BY SizeAssumption DEF IInv, TypeOK, IdSeq
<1>3. SessionSid(s) \in SessionIds /\ SessionSid(s) \in Sids /\ SessionSid(s).idx = s
  <2>1. IdSeq % TagMod \in 0 .. TagMod - 1
    BY <1>2, SizeAssumption
  <2> QED
    BY <2>1, SizeAssumption DEF SessionSid, SessionIds, Sids, Slots
<1>4. sidSeq' \in 0 .. Word - 1
  BY <1>1, <1>2, SizeAssumption
<1>5. sessions' \in [Slots -> SessionT]
  <2>1. [active |-> TRUE, sid |-> SessionSid(s), xmitSeq |-> q,
         userid |-> sid.idx, priv |-> USER, maxPriv |-> priv] \in SessionT
    BY <1>3 DEF SessionT, USER
  <2> QED
    BY <1>1, <2>1 DEF IInv, TypeOK
<1>6. s \notin Active /\ Active' = Active \cup {s}
  BY <1>1 DEF IsFirstFree, FreeSlots, Active, IInv, TypeOK
<1>7. activeSessions' = Cardinality(Active') /\ activeSessions' \in 0 .. MaxSessions
  <2>1. Cardinality(Active \cup {s}) = Cardinality(Active) + 1
    BY <1>6, ActiveFinite, FS_AddElement
  <2>2. activeSessions = Cardinality(Active)
    BY DEF IInv, ActiveCount
  <2>3. activeSessions \in 0 .. MaxSessions
    BY DEF IInv, TypeOK
  <2> QED
    BY <1>1, <1>6, <2>1, <2>2, <2>3, SizeAssumption
<1>8. TypeOK'
  <2>1. reply' \in ReplyT
    BY <1>1, <1>3, ReplyType DEF Codes
  <2> QED
    BY <2>1, <1>4, <1>5, <1>7 DEF IInv, TypeOK, ReplyT
<1>9. Addressed' /\ PrivBounded'
  <2> SUFFICES ASSUME NEW t \in Active'
               PROVE  /\ sessions'[t].sid \in SessionIds /\ sessions'[t].sid.idx = t
                      /\ sessions'[t].userid \in Users
                      /\ sessions'[t].maxPriv <= UserMaxPriv[sessions'[t].userid]
                      /\ USER <= sessions'[t].priv
                      /\ sessions'[t].priv <= UserMaxPriv[sessions'[t].userid]
                      /\ sessions'[t].priv = USER \/ sessions'[t].priv <= sessions'[t].maxPriv
    BY DEF Addressed, PrivBounded
  <2>1. CASE t = s
    BY <2>1, <1>1, <1>3 DEF IInv, TypeOK, UserMaxPriv, USER, ADMIN, Users
  <2>2. CASE t # s
    <3>1. t \in Active /\ sessions'[t] = sessions[t]
      BY <2>2, <1>1, <1>6 DEF IInv, TypeOK, Active
    <3> QED
      BY <3>1 DEF IInv, Addressed, PrivBounded
  <2> QED
    BY <2>1, <2>2
<1>10. SlotAvailable'
  BY <1>1 DEF SlotAvailable, Reply
<1> QED
  BY <1>7, <1>8, <1>9, <1>10 DEF IInv, ActiveCount

(* An activation through a temporary id opens a session or refuses; NO_SLOT
   is no possible refusal because the counter is the number of active slots. *)
LEMMA ActivateTemporaryKeeps ==
    ASSUME IInv, NEW sid \in Sids, NEW h, NEW a, NEW priv \in 0 .. 15,
           NEW q \in 0 .. Word - 1, ActivateTemporary(sid, h, a, priv, q)
    PROVE  IInv'
<1>1. CASE Drop /\ UNCHANGED <<activeSessions, sidSeq, nextChallSeq, up>>
  BY <1>1, SilentType, SameOnlySeqs, OnlySeqsKeeps DEF Drop, Silent, Reply, IInv, TypeOK
<1>2. CASE /\ Admissible(sid, h, a)
           /\ ActivateRefusal(sid.idx, priv, q) # "OK"
           /\ reply' = Reply(sid, q, ActivateRefusal(sid.idx, priv, q), NoSid)
           /\ UNCHANGED <<sessions, activeSessions, sidSeq, nextChallSeq, up>>
  <2>1. FreeSlots # {}
    <3>1. Cardinality(Active) < MaxSessions
      BY <1>2 DEF Admissible, IInv, ActiveCount
    <3>2. Cardinality(Slots) = MaxSessions
      BY FS_Interval, SizeAssumption DEF Slots
    <3>3. Active # Slots
      BY <3>1, <3>2, SizeAssumption
    <3> QED
      BY <3>3 DEF FreeSlots, Active
  <2>2. ActivateRefusal(sid.idx, priv, q) \in {"OK", "BAD_XMIT_SEQ", "BAD_PRIV"}
    BY <2>1, <1>2 DEF ActivateRefusal, Admissible, UserMaxPriv, USER, ADMIN, Users
  <2>3. reply' \in ReplyT /\ reply'.cc # "NO_SLOT"
    BY <1>2, <2>2, ReplyType, NoSidType DEF Codes, Reply
  <2> QED
    BY <1>2, <2>3, SameOnlySeqs, OnlySeqsKeeps DEF IInv, TypeOK
<1>3. CASE /\ Admissible(sid, h, a)
           /\ ActivateRefusal(sid.idx, priv, q) = "OK"
           /\ OpenSession(sid, priv, q)
           /\ UNCHANGED <<nextChallSeq, up>>
  <2>1. priv <= UserMaxPriv[sid.idx]
    BY <1>3 DEF ActivateRefusal, Admissible, UserMaxPriv, USER, ADMIN, Users
  <2> QED
    BY <1>3, <2>1, OpenKeeps DEF Admissible
<1> QED
  BY <1>1, <1>2, <1>3 DEF ActivateTemporary

(* A privilege a session is set to is at least user level and within the
   limit of its activation, hence within the limit of its user. *)
LEMMA SetSessionPrivilegeKeeps ==
    ASSUME IInv, NEW sid \in Sids, NEW priv \in 0 .. 15, SetSessionPrivilege(sid, priv)
    PROVE  IInv'
<1>1. CASE Drop
  BY <1>1, SilentType, SameOnlySeqs, OnlySeqsKeeps
     DEF Drop, Silent, Reply, IInv, TypeOK, SetSessionPrivilege
<1>2. CASE \E s \in SidToSession(sid) :
             LET p == AskedPriv(s, priv)
             IN  PrivRefusal(s, p) # "OK" /\ AnswerOn(s, PrivRefusal(s, p), NoSid)
  <2>1. PICK s \in SidToSession(sid) :
               /\ PrivRefusal(s, AskedPriv(s, priv)) # "OK"
               /\ AnswerOn(s, PrivRefusal(s, AskedPriv(s, priv)), NoSid)
    BY <1>2
  <2>2. PrivRefusal(s, AskedPriv(s, priv)) \in {"BELOW_USER", "TOO_HIGH", "OK"}
    BY DEF PrivRefusal
  <2>3. s \in Slots /\ sessions[s].sid \in Sids /\ sessions[s].xmitSeq \in 0 .. Word - 1
    BY <2>1 DEF SidToSession, Active, IInv, TypeOK, SessionT
  <2>4. OnlySeqs
    BY <2>1, <2>3, SpentOnlySeqs DEF AnswerOn, IInv
  <2>5. reply' \in ReplyT /\ reply'.cc # "NO_SLOT"
    BY <2>1, <2>2, <2>3, ReplyType, NoSidType DEF AnswerOn, Codes, Reply
  <2> QED
    BY <2>4, <2>5, OnlySeqsKeeps DEF SetSessionPrivilege, IInv, TypeOK
<1>3. CASE \E s \in SidToSession(sid) :
             LET p == AskedPriv(s, priv)
             IN  /\ PrivRefusal(s, p) = "OK"
                 /\ reply' = Reply(sid, sessions[s].xmitSeq, "OK", NoSid)
                 /\ sessions' = [Spent(s) EXCEPT ![s].priv = p]
  <2>1. PICK s \in SidToSession(sid) :
               /\ PrivRefusal(s, AskedPriv(s, priv)) = "OK"
               /\ reply' = Reply(sid, sessions[s].xmitSeq, "OK", NoSid)
               /\ sessions' = [Spent(s) EXCEPT ![s].priv = AskedPriv(s, priv)]
    BY <1>3
  <2> DEFINE p == AskedPriv(s, priv)
  <2>2. s \in Active /\ s \in Slots /\ sessions[s] \in SessionT
    BY <2>1 DEF SidToSession, Active, IInv, TypeOK
  <2>3. p \in 0 .. 15 /\ p # CALLBACK /\ p <= sessions[s].maxPriv
    BY <2>1, <2>2 DEF AskedPriv, PrivRefusal, SessionT, CALLBACK
  <2>4. USER <= p
    BY <2>2, <2>3 DEF AskedPriv, IInv, PrivBounded, USER, CALLBACK, SessionT
  <2>5. BumpSeq(sessions[s].xmitSeq) \in 0 .. Word - 1
    BY <2>2, BumpSeqType DEF SessionT
  <2>6. /\ sessions' \in [Slots -> SessionT]
        /\ sessions'[s] = [sessions[s] EXCEPT !.xmitSeq = BumpSeq(sessions[s].xmitSeq), !.priv = p]
        /\ \A t \in Slots \ {s} : sessions'[t] = sessions[t]
    BY <2>1, <2>2, <2>3, <2>5 DEF Spent, IInv, TypeOK, SessionT
  <2>7. Active' = Active
    BY <2>2, <2>6 DEF Active, SessionT
  <2>8. reply' \in ReplyT /\ reply'.cc # "NO_SLOT"
    BY <2>1, <2>2, ReplyType, NoSidType DEF Codes, Reply, SessionT
  <2>9. TypeOK'
    BY <2>6, <2>8 DEF SetSessionPrivilege, IInv, TypeOK, ReplyT
  <2>10. Addressed' /\ PrivBounded'
    <3> SUFFICES ASSUME NEW t \in Active
                 PROVE  /\ sessions'[t].sid \in SessionIds /\ sessions'[t].sid.idx = t
                        /\ sessions'[t].userid \in Users
                        /\ sessions'[t].maxPriv <= UserMaxPriv[sessions'[t].userid]
                        /\ USER <= sessions'[t].priv
                        /\ sessions'[t].priv <= UserMaxPriv[sessions'[t].userid]
                        /\ sessions'[t].priv = USER \/ sessions'[t].priv <= sessions'[t].maxPriv
      BY <2>7 DEF Addressed, PrivBounded
    <3>1. CASE t # s
      BY <3>1, <2>6 DEF IInv, Addressed, PrivBounded, Active
    <3>2. CASE t = s
      <4>1. /\ sessions'[s].sid = sessions[s].sid /\ sessions'[s].userid = sessions[s].userid
            /\ sessions'[s].maxPriv = sessions[s].maxPriv /\ sessions'[s].priv = p
        BY <2>2, <2>6 DEF SessionT
      <4>2. UserMaxPriv[sessions[s].userid] \in Int
        BY <2>2 DEF IInv, PrivBounded, UserMaxPriv, USER, ADMIN
      <4> QED
        BY <3>2, <4>1, <4>2, <2>2, <2>3, <2>4 DEF IInv, Addressed, PrivBounded, SessionT
    <3> QED
      BY <3>1, <3>2
  <2> QED
    BY <2>7, <2>8, <2>9, <2>10 DEF SetSessionPrivilege, IInv, ActiveCount, SlotAvailable
<1> QED
  BY <1>1, <1>2, <1>3 DEF SetSessionPrivilege

(* A close frees one slot, an active one, and counts it once. *)
LEMMA CloseSessionKeeps ==
    ASSUME IInv, NEW sid \in Sids, NEW target \in Sids, CloseSession(sid, target)
    PROVE  IInv'
<1>1. PICK s \in SidToSession(sid) : CloseSession(sid, target)!(s)
  BY DEF CloseSession
<1>2. s \in Active /\ s \in Slots /\ sessions[s] \in SessionT
  BY DEF SidToSession, Active, IInv, TypeOK
<1>3. ASSUME NEW cc \in {"INSUFFICIENT_PRIVILEGE", "NO_SUCH_SESSION"},
             AnswerOn(s, cc, NoSid), UNCHANGED activeSessions
      PROVE  IInv'
  <2>1. OnlySeqs
    BY <1>2, <1>3, SpentOnlySeqs DEF AnswerOn, IInv
  <2>2. reply' \in ReplyT /\ reply'.cc # "NO_SLOT"
    BY <1>2, <1>3, ReplyType, NoSidType DEF AnswerOn, Codes, Reply, SessionT
  <2> QED
    BY <1>1, <1>3, <2>1, <2>2, OnlySeqsKeeps DEF IInv, TypeOK
<1>4. ASSUME NEW t \in SidToSession(target),
             reply' = Reply(sid, sessions[s].xmitSeq, "OK", NoSid),
             sessions' = [Spent(s) EXCEPT ![t].active = FALSE],
             activeSessions' = activeSessions - 1
      PROVE  IInv'
  <2>1. t \in Active /\ t \in Slots
    BY DEF SidToSession, Active
  <2>2. BumpSeq(sessions[s].xmitSeq) \in 0 .. Word - 1
    BY <1>2, BumpSeqType DEF SessionT
  <2>3. /\ sessions' \in [Slots -> SessionT]
        /\ ~sessions'[t].active
        /\ \A x \in Slots \ {t} : sessions'[x].active = sessions[x].active
        /\ \A x \in Slots :
              /\ sessions'[x].sid = sessions[x].sid
              /\ sessions'[x].userid = sessions[x].userid
              /\ sessions'[x].priv = sessions[x].priv
              /\ sessions'[x].maxPriv = sessions[x].maxPriv
    BY <1>4, <1>2, <2>1, <2>2 DEF Spent, IInv, TypeOK, SessionT
  <2>4. Active' = Active \ {t}
    BY <2>1, <2>3 DEF Active
  <2>5. activeSessions' = Cardinality(Active') /\ activeSessions' \in 0 .. MaxSessions
    <3>1. Cardinality(Active \ {t}) = Cardinality(Active) - 1
      BY <2>1, ActiveFinite, FS_RemoveElement
    <3>2. Cardinality(Active \ {t}) \in Nat
      BY ActiveFinite, FS_RemoveElement, FS_CardinalityType
    <3>3. activeSessions = Cardinality(Active) /\ activeSessions \in 0 .. MaxSessions
      BY DEF IInv, ActiveCount, TypeOK
    <3> QED
      BY <1>4, <2>4, <3>1, <3>2, <3>3, SizeAssumption
  <2>6. reply' \in ReplyT /\ reply'.cc # "NO_SLOT"
    BY <1>2, <1>4, ReplyType, NoSidType DEF Codes, Reply, SessionT
  <2>7. TypeOK'
    BY <1>1, <2>3, <2>5, <2>6 DEF IInv, TypeOK, ReplyT
  <2>8. Addressed' /\ PrivBounded'
    BY <2>3, <2>4 DEF IInv, Addressed, PrivBounded, Active
  <2> QED
    BY <2>5, <2>6, <2>7, <2>8 DEF IInv, ActiveCount, SlotAvailable
<1> QED
  BY <1>1, <1>3, <1>4

(* The requests that touch no more of the table than sequence numbers. *)
LEMMA AnswersKeep ==
    ASSUME IInv, NEW sid \in Sids,
           \/ \E h, rmcpp, valid : GetChannelAuthCapabilities(sid, h, rmcpp, valid)
           \/ \E h, a : \E u \in {0} \cup Users : GetSessionChallenge(sid, h, u, a)
           \/ \E h : Reactivate(sid, h)
           \/ CloseWithoutSession(sid)
           \/ \E cc \in {"OK", "INVALID_DATA"} : OtherCommand(sid, cc)
           \/ Unanswered
    PROVE  IInv'
<1>0. TypeOK
  BY DEF IInv
<1>1. ASSUME Drop, UNCHANGED <<activeSessions, sidSeq, nextChallSeq>>, up' \in BOOLEAN
      PROVE  IInv'
  BY <1>0, <1>1, SilentType, SameOnlySeqs, OnlySeqsKeeps DEF Drop, Silent, Reply, TypeOK
<1>2. ASSUME NEW cc \in Codes \ {"NO_SLOT"}, NEW data \in Sids, Answer(sid, cc, data),
             nextChallSeq' \in 0 .. Word - 1, UNCHANGED <<activeSessions, sidSeq, up>>
      PROVE  IInv'
  <2>1. OnlySeqs /\ reply' \in ReplyT /\ reply'.cc # "NO_SLOT"
    BY <1>0, <1>2, AnswerOnlySeqs
  <2> QED
    BY <1>0, <1>2, <2>1, OnlySeqsKeeps DEF TypeOK
<1>3. ASSUME NEW h, NEW rmcpp, NEW valid, GetChannelAuthCapabilities(sid, h, rmcpp, valid)
      PROVE  IInv'
  BY <1>0, <1>1, <1>2, <1>3, NoSidType DEF GetChannelAuthCapabilities, Codes, TypeOK
<1>4. ASSUME NEW h, NEW a, NEW u \in {0} \cup Users, GetSessionChallenge(sid, h, u, a)
      PROVE  IInv'
  <2>1. ChallengeRefusal(u, a) \in Codes \ {"NO_SLOT"}
    BY DEF ChallengeRefusal, Codes
  <2>2. TempSid(u) \in Sids
    <3>1. nextChallSeq % TagMod \in 0 .. TagMod - 1
      BY <1>0, SizeAssumption DEF TypeOK
    <3> QED
      BY <3>1, SizeAssumption DEF TempSid, Sids, Users
  <2> QED
    BY <1>0, <1>1, <1>2, <1>4, <2>1, <2>2, NoSidType, SizeAssumption
       DEF GetSessionChallenge, Codes, TypeOK
<1>5. ASSUME NEW h, Reactivate(sid, h)
      PROVE  IInv'
  <2>1. CASE Drop
    BY <1>0, <1>1, <1>5, <2>1 DEF Reactivate, TypeOK
  <2>2. CASE \E s \in SidToSession(sid) : \E x \in HeaderBytes(h) :
               /\ reply' = Reply(sessions[s].sid, x, "OK", sessions[s].sid)
               /\ sessions' = [sessions EXCEPT ![s].xmitSeq = BumpSeq(x)]
    <3>1. PICK s \in SidToSession(sid) : \E x \in HeaderBytes(h) :
               /\ reply' = Reply(sessions[s].sid, x, "OK", sessions[s].sid)
               /\ sessions' = [sessions EXCEPT ![s].xmitSeq = BumpSeq(x)]
      BY <2>2
    <3>2. PICK x \in HeaderBytes(h) :
               /\ reply' = Reply(sessions[s].sid, x, "OK", sessions[s].sid)
               /\ sessions' = [sessions EXCEPT ![s].xmitSeq = BumpSeq(x)]
      BY <3>1
    <3>3. x \in 0 .. Word - 1 /\ BumpSeq(x) \in 0 .. Word - 1
      BY BumpSeqType, SizeAssumption DEF HeaderBytes
    <3>4. s \in Slots /\ sessions[s] \in SessionT
      BY <1>0 DEF SidToSession, Active, TypeOK
    <3>5. OnlySeqs
      BY <1>0, <3>2, <3>3, <3>4 DEF OnlySeqs, TypeOK, SessionT
    <3>6. reply' \in ReplyT /\ reply'.cc # "NO_SLOT"
      BY <3>2, <3>3, <3>4, ReplyType DEF Reply, Codes, SessionT
    <3> QED
      BY <1>0, <1>5, <3>5, <3>6, OnlySeqsKeeps DEF Reactivate, TypeOK
  <2> QED
    BY <1>5, <2>1, <2>2 DEF Reactivate
<1>6. CASE CloseWithoutSession(sid)
  BY <1>1, <1>6 DEF CloseWithoutSession
<1>7. ASSUME NEW cc \in {"OK", "INVALID_DATA"}, OtherCommand(sid, cc)
      PROVE  IInv'
  BY <1>0, <1>2, <1>7, NoSidType DEF OtherCommand, Codes, TypeOK
<1>8. CASE Unanswered
  BY <1>0, <1>1, <1>8 DEF Unanswered, TypeOK
<1> QED
  BY <1>3, <1>4, <1>5, <1>6, <1>7, <1>8

-----------------------------------------------------------------------------
(* The table ipmiLanInit leaves satisfies the invariant. *)
LEMMA InitEstablishes == Init => IInv
<1> SUFFICES ASSUME Init PROVE IInv
  OBVIOUS
<1>1. Active = {}
  BY DEF Init, Active, ZeroSession
<1>2. TypeOK
  <2>1. ZeroSession \in SessionT
    BY NoSidType, SizeAssumption DEF ZeroSession, SessionT
  <2> QED
    BY <2>1, SilentType, SizeAssumption DEF Init, TypeOK, ReplyT
<1>3. Cardinality(Active) = 0
  BY <1>1, FS_EmptySet
<1>4. reply.cc = "silent"
  BY DEF Init, Silent, Reply
<1> QED
  BY <1>1, <1>2, <1>3, <1>4 DEF Init, IInv, ActiveCount, Addressed, PrivBounded, SlotAvailable

(* Every request, handled to its end, and every stutter keeps the invariant. *)
LEMMA NextKeeps == IInv /\ [Next]_vars => IInv'
<1> SUFFICES ASSUME IInv, [Next]_vars PROVE IInv'
  OBVIOUS
<1>1. CASE Next
  <2>1. PICK sid \in Sids : Handle(sid)
    BY <1>1, RequestAssumption DEF Next
  <2>2. ASSUME NEW h, NEW a, NEW p \in PrivReqs, NEW q \in SeqReqs,
               ActivateTemporary(sid, h, a, p, q)
        PROVE  IInv'
    BY <2>2, ActivateTemporaryKeeps, RequestAssumption
  <2>3. ASSUME NEW p \in PrivReqs, SetSessionPrivilege(sid, p)
        PROVE  IInv'
    BY <2>3, SetSessionPrivilegeKeeps, RequestAssumption
  <2>4. ASSUME NEW target \in ReqSids, CloseSession(sid, target)
        PROVE  IInv'
    BY <2>4, CloseSessionKeeps, RequestAssumption
  <2> QED
    BY <2>1, <2>2, <2>3, <2>4, AnswersKeep DEF Handle
<1>2. CASE UNCHANGED vars
  BY <1>2 DEF vars, IInv, TypeOK, ActiveCount, Addressed, PrivBounded, SlotAvailable,
     Active
<1> QED
  BY <1>1, <1>2

(* The strengthened invariant holds in every reachable state. *)
THEOREM Invariance == Spec => []IInv
BY InitEstablishes, NextKeeps, PTL DEF Spec

(* The variables have their types: in particular activeSessions never goes
   negative and never exceeds the table. *)
THEOREM TypeCorrect == Spec => []TypeOK
BY Invariance, PTL DEF IInv

(* The counter that limits sessions is the number of active slots. *)
THEOREM CountIsExact == Spec => []ActiveCount
BY Invariance, PTL DEF IInv

(* An activation that passed the limit is never refused for want of a slot. *)
THEOREM SlotAlwaysAvailable == Spec => []SlotAvailable
BY Invariance, PTL DEF IInv

(* No session exceeds the privilege of its user. *)
THEOREM PrivilegeBounded == Spec => []PrivBounded
BY Invariance, PTL DEF IInv

(* Every open session answers to its id and no slot answers to two. *)
THEOREM SessionsReachable == Spec => []Reachable
<1>1. IInv => Reachable
  BY DEF IInv, Addressed, Reachable, SidToSession, SessionIds
<1> QED
  BY <1>1, Invariance, PTL

-----------------------------------------------------------------------------
(* What a step does to the table of sessions, sequence numbers aside: it
   opens a session in a free slot, sets the privilege of the session that
   asks, closes a session its requester may close, or leaves it alone. *)
Same(x) ==
    /\ sessions'[x].active = sessions[x].active
    /\ sessions'[x].sid = sessions[x].sid
    /\ sessions'[x].userid = sessions[x].userid
    /\ sessions'[x].priv = sessions[x].priv
    /\ sessions'[x].maxPriv = sessions[x].maxPriv

Opens(s) ==
    /\ s \notin Active /\ Cardinality(Active) < MaxSessions
    /\ sessions'[s].active
    /\ sessions'[s].sid \in SessionIds /\ sessions'[s].sid.idx = s
    /\ sessions'[s].userid \in Users
    /\ sessions'[s].priv = USER
    /\ sessions'[s].maxPriv \in 0 .. UserMaxPriv[sessions'[s].userid]
    /\ \A x \in Slots \ {s} : Same(x)

Sets(s) ==
    /\ s \in Active /\ reply'.sid = sessions[s].sid
    /\ sessions'[s].active
    /\ sessions'[s].sid = sessions[s].sid
    /\ sessions'[s].userid = sessions[s].userid
    /\ sessions'[s].priv \in USER .. sessions[s].maxPriv
    /\ sessions'[s].maxPriv = sessions[s].maxPriv
    /\ \A x \in Slots \ {s} : Same(x)

Closes(s, t) ==
    /\ s \in Active /\ t \in Active
    /\ reply'.cc = "OK" /\ reply'.sid = sessions[s].sid
    /\ s = t \/ sessions[s].priv = ADMIN
    /\ ~sessions'[t].active
    /\ \A x \in Slots \ {t} : Same(x)

Shape ==
    \/ \A x \in Slots : Same(x)
    \/ \E s \in Slots : Opens(s)
    \/ \E s \in Slots : Sets(s)
    \/ \E s, t \in Slots : Closes(s, t)

(* What an activation can do to the table: nothing, or open one free slot. *)
LEMMA ActivateTemporaryShape ==
    ASSUME IInv, NEW sid \in Sids, NEW h, NEW a, NEW priv \in 0 .. 15,
           NEW q \in 0 .. Word - 1, ActivateTemporary(sid, h, a, priv, q)
    PROVE  Shape
<1>1. CASE UNCHANGED sessions
  BY <1>1 DEF Shape, Same
<1>2. CASE /\ Admissible(sid, h, a)
           /\ ActivateRefusal(sid.idx, priv, q) = "OK"
           /\ OpenSession(sid, priv, q)
  <2>1. PICK s \in Slots :
         /\ IsFirstFree(s)
         /\ sessions' = [sessions EXCEPT ![s] =
               [active |-> TRUE, sid |-> SessionSid(s), xmitSeq |-> q,
                userid |-> sid.idx, priv |-> USER, maxPriv |-> priv]]
    BY <1>2 DEF OpenSession
  <2>2. priv \in 0 .. UserMaxPriv[sid.idx] /\ sid.idx \in Users
    BY <1>2 DEF ActivateRefusal, Admissible, UserMaxPriv, USER, ADMIN, Users
  <2>3. Cardinality(Active) < MaxSessions
    BY <1>2 DEF Admissible, IInv, ActiveCount
  <2>4. SessionSid(s) \in SessionIds /\ SessionSid(s).idx = s
    <3>1. IdSeq \in Nat
      BY SizeAssumption DEF IInv, TypeOK, IdSeq
    <3>2. IdSeq % TagMod \in 0 .. TagMod - 1
      BY <3>1, SizeAssumption
    <3> QED
      BY <3>2 DEF SessionSid, SessionIds
  <2>5. s \notin Active
    BY <2>1 DEF IsFirstFree, FreeSlots, Active
  <2>6. Opens(s)
    BY <2>1, <2>2, <2>3, <2>4, <2>5 DEF Opens, Same, IInv, TypeOK
  <2> QED
    BY <2>6 DEF Shape
<1> QED
  BY <1>1, <1>2 DEF ActivateTemporary, Drop

(* What a privilege request can do: use up a sequence number, and set the
   privilege of the session it came in. *)
LEMMA SetSessionPrivilegeShape ==
    ASSUME IInv, NEW sid \in Sids, NEW priv \in 0 .. 15, SetSessionPrivilege(sid, priv)
    PROVE  Shape
<1>1. CASE UNCHANGED sessions
  BY <1>1 DEF Shape, Same
<1>2. ASSUME NEW s \in SidToSession(sid), NEW cc, AnswerOn(s, cc, NoSid)
      PROVE  Shape
  <2>1. s \in Slots
    BY DEF SidToSession, Active
  <2> QED
    BY <1>2, <2>1, SpentOnlySeqs DEF AnswerOn, Shape, Same, OnlySeqs, IInv
<1>3. ASSUME NEW s \in SidToSession(sid),
             PrivRefusal(s, AskedPriv(s, priv)) = "OK",
             reply' = Reply(sid, sessions[s].xmitSeq, "OK", NoSid),
             sessions' = [Spent(s) EXCEPT ![s].priv = AskedPriv(s, priv)]
      PROVE  Shape
  <2> DEFINE p == AskedPriv(s, priv)
  <2>1. s \in Active /\ s \in Slots /\ sessions[s] \in SessionT /\ sessions[s].sid = sid
    BY DEF SidToSession, Active, IInv, TypeOK
  <2>2. p \in USER .. sessions[s].maxPriv
    BY <1>3, <2>1 DEF AskedPriv, PrivRefusal, SessionT, CALLBACK, USER, IInv, PrivBounded
  <2>3. /\ sessions'[s] = [sessions[s] EXCEPT !.xmitSeq = BumpSeq(sessions[s].xmitSeq), !.priv = p]
        /\ \A t \in Slots \ {s} : sessions'[t] = sessions[t]
    BY <1>3, <2>1 DEF Spent, IInv, TypeOK, SessionT
  <2>4. /\ sessions'[s].active = sessions[s].active /\ sessions'[s].sid = sessions[s].sid
        /\ sessions'[s].userid = sessions[s].userid /\ sessions'[s].priv = p
        /\ sessions'[s].maxPriv = sessions[s].maxPriv
    BY <2>1, <2>3 DEF SessionT
  <2>5. Sets(s)
    BY <1>3, <2>1, <2>2, <2>3, <2>4 DEF Sets, Same, Active, Reply
  <2> QED
    BY <2>1, <2>5 DEF Shape
<1> QED
  BY <1>1, <1>2, <1>3 DEF SetSessionPrivilege, Drop

(* What a close can do: use up a sequence number, and free one slot. *)
LEMMA CloseSessionShape ==
    ASSUME IInv, NEW sid \in Sids, NEW target \in Sids, CloseSession(sid, target)
    PROVE  Shape
<1>1. PICK s \in SidToSession(sid) : CloseSession(sid, target)!(s)
  BY DEF CloseSession
<1>2. s \in Active /\ s \in Slots /\ sessions[s] \in SessionT /\ sessions[s].sid = sid
  BY DEF SidToSession, Active, IInv, TypeOK
<1>3. ASSUME NEW cc, AnswerOn(s, cc, NoSid)
      PROVE  Shape
  BY <1>2, <1>3, SpentOnlySeqs DEF AnswerOn, Shape, Same, OnlySeqs, IInv
<1>4. ASSUME NEW t \in SidToSession(target), MayClose(s, target),
             reply' = Reply(sid, sessions[s].xmitSeq, "OK", NoSid),
             sessions' = [Spent(s) EXCEPT ![t].active = FALSE]
      PROVE  Shape
  <2>1. t \in Active /\ t \in Slots /\ sessions[t].sid = target
    BY DEF SidToSession, Active
  <2>2. s = t \/ sessions[s].priv = ADMIN
    BY <1>2, <1>4, <2>1 DEF MayClose, IInv, Addressed
  <2>3. /\ ~sessions'[t].active
        /\ \A x \in Slots \ {t} : Same(x)
    BY <1>4, <1>2, <2>1 DEF Spent, Same, IInv, TypeOK, SessionT
  <2>4. Closes(s, t)
    BY <1>2, <1>4, <2>1, <2>2, <2>3 DEF Closes, Reply
  <2> QED
    BY <1>2, <2>1, <2>4 DEF Shape
<1> QED
  BY <1>1, <1>3, <1>4

(* What an answer can do: use up a sequence number. *)
LEMMA AnswerShape ==
    ASSUME IInv, NEW sid \in Sids, NEW cc, NEW data, Answer(sid, cc, data)
    PROVE  Shape
<1>1. CASE UNCHANGED sessions
  BY <1>1 DEF Shape, Same
<1>2. CASE \E s \in SidToSession(sid) : AnswerOn(s, cc, data)
  BY <1>2, SpentOnlySeqs DEF AnswerOn, Shape, Same, OnlySeqs, SidToSession, Active, IInv
<1> QED
  BY <1>1, <1>2 DEF Answer

(* What a re-activation can do: set the sequence number of its session. *)
LEMMA ReactivateShape ==
    ASSUME IInv, NEW sid \in Sids, NEW h, Reactivate(sid, h)
    PROVE  Shape
<1>1. CASE UNCHANGED sessions
  BY <1>1 DEF Shape, Same
<1>2. ASSUME NEW s \in SidToSession(sid), NEW x \in HeaderBytes(h),
             sessions' = [sessions EXCEPT ![s].xmitSeq = BumpSeq(x)]
      PROVE  Shape
  BY <1>2 DEF Shape, Same, SidToSession, Active, IInv, TypeOK, SessionT
<1> QED
  BY <1>1, <1>2 DEF Reactivate, Drop

(* Every step of the session layer has one of the four shapes. *)
LEMMA StepShape == ASSUME IInv, [Next]_vars PROVE Shape
<1>1. CASE UNCHANGED vars
  BY <1>1 DEF vars, Shape, Same
<1>2. CASE Next
  <2>1. PICK sid \in ReqSids : Handle(sid)
    BY <1>2 DEF Next
  <2>2. sid \in Sids
    BY RequestAssumption
  <2>3. CASE Drop
    BY <2>3 DEF Drop, Shape, Same
  <2>4. ASSUME NEW cc, NEW data, Answer(sid, cc, data) PROVE Shape
    BY <2>2, <2>4, AnswerShape
  <2>5. ASSUME NEW h, NEW a, NEW p \in PrivReqs, NEW q \in SeqReqs,
               ActivateTemporary(sid, h, a, p, q)
        PROVE  Shape
    BY <2>2, <2>5, ActivateTemporaryShape, RequestAssumption
  <2>6. ASSUME NEW p \in PrivReqs, SetSessionPrivilege(sid, p) PROVE Shape
    BY <2>2, <2>6, SetSessionPrivilegeShape, RequestAssumption
  <2>7. ASSUME NEW target \in ReqSids, CloseSession(sid, target) PROVE Shape
    BY <2>2, <2>7, CloseSessionShape, RequestAssumption
  <2>8. ASSUME NEW h, Reactivate(sid, h) PROVE Shape
    BY <2>2, <2>8, ReactivateShape
  <2>9. ASSUME NEW h, NEW rmcpp, NEW valid, GetChannelAuthCapabilities(sid, h, rmcpp, valid)
        PROVE  Shape
    BY <2>3, <2>4, <2>9 DEF GetChannelAuthCapabilities
  <2>10. ASSUME NEW h, NEW u, NEW a, GetSessionChallenge(sid, h, u, a) PROVE Shape
    BY <2>3, <2>4, <2>10 DEF GetSessionChallenge
  <2> QED
    BY <2>1, <2>3, <2>4, <2>5, <2>6, <2>7, <2>8, <2>9, <2>10
       DEF Handle, CloseWithoutSession, OtherCommand, Unanswered
<1> QED
  BY <1>1, <1>2

(* A session is closed by itself or by an administrator only. *)
THEOREM CloseIsAuthorised == Spec => CloseAuthority
<1>1. IInv /\ [Next]_vars =>
        [\A t \in Slots : sessions[t].active /\ ~sessions'[t].active =>
            \E s \in Active :
               /\ reply'.cc = "OK" /\ reply'.sid = sessions[s].sid
               /\ s = t \/ sessions[s].priv = ADMIN]_vars
  BY StepShape DEF Shape, Same, Opens, Sets, Closes, Active
<1> QED
  BY <1>1, Invariance, PTL DEF Spec, CloseAuthority

(* The privilege of an open session moves only on its own request. *)
THEOREM PrivilegeMovedByOwner == Spec => PrivChangedByOwner
<1>1. IInv /\ [Next]_vars =>
        [\A s \in Active : sessions'[s].active /\ sessions'[s].priv # sessions[s].priv
            => reply'.sid = sessions[s].sid /\ sessions'[s].sid = sessions[s].sid]_vars
  BY StepShape DEF Shape, Same, Opens, Sets, Closes, Active
<1> QED
  BY <1>1, Invariance, PTL DEF Spec, PrivChangedByOwner

-----------------------------------------------------------------------------
(* What the table keeps of the last reply of each session: the next one is to
   use the number after it. RepliesInOrder speaks of two replies; this is what
   holds all along between them. *)
Known ==
    /\ lastSeq \in [Slots -> 0 .. Word - 1]
    /\ \A s \in Active :
          /\ sessions[s].xmitSeq # 0
          /\ lastSeq[s] # 0 => sessions[s].xmitSeq = BumpSeq(lastSeq[s])

(* A step that uses up no number of an open session but one of the slots S,
   and gives a session that it opens a number. *)
KeepsSeqs(S) ==
    /\ \A t \in Active \ S : sessions'[t].xmitSeq = sessions[t].xmitSeq
    /\ \A t \in Slots \ Active : sessions'[t].active => sessions'[t].xmitSeq # 0

(* The two kinds of replies: one outside any open session, ... *)
RepliesOutside ==
    /\ reply'.sid.tmp = 1 \/ reply'.sid = NoSid
    /\ KeepsSeqs({})

(* ... and one on session s, with its number unless it carries an id. *)
RepliesOn(s) ==
    /\ s \in Active
    /\ reply'.sid = sessions[s].sid
    /\ sessions'[s].xmitSeq = BumpSeq(reply'.seq)
    /\ reply'.data \notin SessionIds => reply'.seq = sessions[s].xmitSeq
    /\ KeepsSeqs({s})

Replies == RepliesOutside \/ \E s \in Active : RepliesOn(s)

(* Nothing happens to the numbers of a table that stays as it is. *)
LEMMA SameKeepsSeqs == ASSUME UNCHANGED sessions PROVE KeepsSeqs({})
BY DEF KeepsSeqs, Active

(* What AnswerOn writes is a reply on its session. *)
LEMMA AnswerOnReplies ==
    ASSUME TypeOK, NEW s \in Active, NEW cc, NEW data, AnswerOn(s, cc, data)
    PROVE  RepliesOn(s)
<1>1. s \in Slots /\ sessions[s] \in SessionT
  BY DEF Active, TypeOK
<1>2. /\ sessions'[s].xmitSeq = BumpSeq(sessions[s].xmitSeq)
      /\ \A t \in Slots \ {s} : sessions'[t] = sessions[t]
  BY <1>1 DEF AnswerOn, Spent, TypeOK, SessionT
<1> QED
  BY <1>1, <1>2 DEF RepliesOn, KeepsSeqs, AnswerOn, Reply, Active

(* returnRsp replies on the session it finds, or outside. *)
LEMMA AnswerReplies ==
    ASSUME TypeOK, NEW sid, NEW cc, NEW data, Answer(sid, cc, data)
    PROVE  Replies
<1>1. CASE \E s \in SidToSession(sid) : AnswerOn(s, cc, data)
  BY <1>1, AnswerOnReplies DEF Replies, SidToSession
<1>2. CASE /\ reply' = IF sid = NoSid THEN Reply(NoSid, 0, cc, data) ELSE Silent
           /\ UNCHANGED sessions
  BY <1>2, SameKeepsSeqs DEF Replies, RepliesOutside, Reply, Silent
<1> QED
  BY <1>1, <1>2 DEF Answer

(* So does every handler. *)
LEMMA HandleReplies == ASSUME IInv, NEW sid \in Sids, Handle(sid) PROVE Replies
<1>1. TypeOK
  BY DEF IInv
<1>2. CASE Drop
  BY <1>2, SameKeepsSeqs DEF Drop, Replies, RepliesOutside, Silent, Reply
<1>3. ASSUME NEW cc, NEW data, Answer(sid, cc, data) PROVE Replies
  BY <1>1, <1>3, AnswerReplies
<1>4. ASSUME NEW s \in SidToSession(sid), NEW cc, NEW data, AnswerOn(s, cc, data) PROVE Replies
  BY <1>1, <1>4, AnswerOnReplies DEF Replies, SidToSession
<1>5. ASSUME NEW h, NEW a, NEW p, NEW q, ActivateTemporary(sid, h, a, p, q) PROVE Replies
  <2>1. CASE OpenSession(sid, p, q) /\ ActivateRefusal(sid.idx, p, q) = "OK" /\ sid.tmp = 1
    <3>1. PICK s \in Slots :
             /\ sessions' = [sessions EXCEPT ![s] =
                   [active |-> TRUE, sid |-> SessionSid(s), xmitSeq |-> q,
                    userid |-> sid.idx, priv |-> USER, maxPriv |-> p]]
             /\ IsFirstFree(s)
             /\ reply' = Reply(sid, q, "OK", SessionSid(s))
      BY <2>1 DEF OpenSession
    <3>2. q # 0
      BY <2>1 DEF ActivateRefusal
    <3>3. s \notin Active
      BY <3>1 DEF IsFirstFree, FreeSlots, Active
    <3>4. sessions'[s].xmitSeq = q /\ \A t \in Slots \ {s} : sessions'[t] = sessions[t]
      BY <1>1, <3>1 DEF TypeOK
    <3>5. KeepsSeqs({})
      BY <3>2, <3>3, <3>4 DEF KeepsSeqs, Active
    <3> QED
      BY <2>1, <3>1, <3>5 DEF Replies, RepliesOutside, Reply
  <2>2. CASE UNCHANGED sessions
    BY <1>2, <1>5, <2>1, <2>2, SameKeepsSeqs
       DEF ActivateTemporary, Reply, Replies, RepliesOutside
  <2> QED
    BY <1>2, <1>5, <2>1, <2>2 DEF ActivateTemporary
<1>6. ASSUME NEW h, Reactivate(sid, h) PROVE Replies
  <2>1. ASSUME NEW s \in SidToSession(sid), NEW x \in HeaderBytes(h),
               reply' = Reply(sessions[s].sid, x, "OK", sessions[s].sid),
               sessions' = [sessions EXCEPT ![s].xmitSeq = BumpSeq(x)]
        PROVE  RepliesOn(s)
    <3>1. s \in Active /\ s \in Slots /\ sessions[s] \in SessionT
      BY <1>1 DEF SidToSession, Active, TypeOK
    <3>2. sessions[s].sid \in SessionIds
      BY <3>1 DEF IInv, Addressed
    <3>3. /\ sessions'[s].xmitSeq = BumpSeq(x)
          /\ \A t \in Slots \ {s} : sessions'[t] = sessions[t]
      BY <1>1, <2>1, <3>1 DEF TypeOK, SessionT
    <3> QED
      BY <2>1, <3>1, <3>2, <3>3 DEF RepliesOn, KeepsSeqs, Reply, Active
  <2> QED
    BY <1>2, <1>6, <2>1 DEF Reactivate, Replies, SidToSession
<1>7. ASSUME NEW p, SetSessionPrivilege(sid, p) PROVE Replies
  <2>1. ASSUME NEW s \in SidToSession(sid), NEW x,
               reply' = Reply(sid, sessions[s].xmitSeq, "OK", NoSid),
               sessions' = [Spent(s) EXCEPT ![s].priv = x]
        PROVE  RepliesOn(s)
    <3>1. s \in Active /\ s \in Slots /\ sessions[s] \in SessionT /\ sessions[s].sid = sid
      BY <1>1 DEF SidToSession, Active, TypeOK
    <3>2. /\ sessions'[s].xmitSeq = BumpSeq(sessions[s].xmitSeq)
          /\ \A t \in Slots \ {s} : sessions'[t] = sessions[t]
      BY <1>1, <2>1, <3>1 DEF Spent, TypeOK, SessionT
    <3> QED
      BY <2>1, <3>1, <3>2 DEF RepliesOn, KeepsSeqs, Reply, Active
  <2> QED
    BY <1>2, <1>4, <1>7, <2>1 DEF SetSessionPrivilege, Replies, SidToSession
<1>8. ASSUME NEW target, CloseSession(sid, target) PROVE Replies
  <2>1. ASSUME NEW s \in SidToSession(sid), NEW t \in SidToSession(target),
               reply' = Reply(sid, sessions[s].xmitSeq, "OK", NoSid),
               sessions' = [Spent(s) EXCEPT ![t].active = FALSE]
        PROVE  RepliesOn(s)
    <3>1. /\ s \in Active /\ s \in Slots /\ sessions[s] \in SessionT /\ sessions[s].sid = sid
          /\ t \in Slots /\ sessions[t] \in SessionT /\ t \in Active
      BY <1>1 DEF SidToSession, Active, TypeOK
    <3>2. /\ sessions'[s].xmitSeq = BumpSeq(sessions[s].xmitSeq)
          /\ \A x \in Slots \ {s} : sessions'[x].xmitSeq = sessions[x].xmitSeq
          /\ \A x \in Slots \ Active : ~sessions'[x].active
      BY <1>1, <2>1, <3>1 DEF Spent, TypeOK, SessionT, Active
    <3> QED
      BY <2>1, <3>1, <3>2 DEF RepliesOn, KeepsSeqs, Reply, Active
  <2> QED
    BY <1>4, <1>8, <2>1 DEF CloseSession, Replies, SidToSession
<1>9. ASSUME NEW h, NEW rmcpp, NEW valid, GetChannelAuthCapabilities(sid, h, rmcpp, valid)
      PROVE  Replies
  BY <1>2, <1>3, <1>9 DEF GetChannelAuthCapabilities
<1>10. ASSUME NEW h, NEW u, NEW a, GetSessionChallenge(sid, h, u, a) PROVE Replies
  BY <1>2, <1>3, <1>10 DEF GetSessionChallenge
<1> QED
  BY <1>2, <1>3, <1>5, <1>6, <1>7, <1>8, <1>9, <1>10
     DEF Handle, CloseWithoutSession, OtherCommand, Unanswered

(* Every step replies outside the sessions or on one of them. *)
LEMMA NextReplies == ASSUME IInv, Next PROVE Replies
<1>1. PICK sid \in Sids : Handle(sid)
  BY RequestAssumption DEF Next
<1> QED
  BY <1>1, HandleReplies

(* An id leads to one slot, so no other session is taken for the one the
   reply went out on. *)
LEMMA ReplyOnOne ==
    ASSUME IInv, Replies, NEW t \in Active, reply'.sid = sessions[t].sid
    PROVE  RepliesOn(t)
<1>1. sessions[t].sid \in SessionIds /\ sessions[t].sid.idx = t
  BY DEF IInv, Addressed
<1>2. ~RepliesOutside
  BY <1>1, SizeAssumption DEF RepliesOutside, SessionIds, NoSid, Slots
<1>3. PICK s \in Active : RepliesOn(s)
  BY <1>2 DEF Replies
<1>4. s = t
  BY <1>1, <1>3 DEF RepliesOn, IInv, Addressed
<1> QED
  BY <1>3, <1>4

(* What a client knows stays known: a reply on its session is remembered and
   moves the number on, other replies do neither. *)
LEMMA KnownKept == ASSUME IInv, IInv', Known, Replies, Remember PROVE Known'
<1>1. reply'.seq \in 0 .. Word - 1
  BY DEF IInv, TypeOK
<1>2. lastSeq' \in [Slots -> 0 .. Word - 1]
  BY <1>1, SizeAssumption DEF Remember, Known
<1>3. ASSUME NEW t \in Active'
      PROVE  /\ sessions'[t].xmitSeq # 0
             /\ lastSeq'[t] # 0 => sessions'[t].xmitSeq = BumpSeq(lastSeq'[t])
  <2>1. t \in Slots /\ sessions'[t].active
    BY <1>3 DEF Active
  <2>2. CASE t \notin Active
    <3>1. lastSeq'[t] = 0
      BY <2>1, <2>2 DEF Remember, Active
    <3>2. sessions'[t].xmitSeq # 0
      BY <2>1, <2>2 DEF Replies, RepliesOutside, RepliesOn, KeepsSeqs
    <3> QED
      BY <3>1, <3>2
  <2>3. CASE t \in Active /\ reply'.sid = sessions[t].sid
    <3>1. sessions'[t].xmitSeq = BumpSeq(reply'.seq)
      BY <2>3, ReplyOnOne DEF RepliesOn
    <3>2. lastSeq'[t] = reply'.seq
      BY <2>1, <2>3 DEF Remember, Active
    <3>3. BumpSeq(reply'.seq) # 0
      BY <1>1, BumpSeqType
    <3> QED
      BY <3>1, <3>2, <3>3
  <2>4. CASE t \in Active /\ reply'.sid # sessions[t].sid
    <3>1. lastSeq'[t] = lastSeq[t]
      BY <2>1, <2>4 DEF Remember, Active
    <3>2. sessions'[t].xmitSeq = sessions[t].xmitSeq
      BY <2>4 DEF Replies, RepliesOutside, RepliesOn, KeepsSeqs
    <3> QED
      BY <2>4, <3>1, <3>2 DEF Known
  <2> QED
    BY <2>2, <2>3, <2>4
<1> QED
  BY <1>2, <1>3 DEF Known

(* Remembering takes no part in what the session layer does. *)
LEMMA RepliesAreSessions == ReplySpec => Spec
<1>1. [RepliesNext]_replyVars => [Next]_vars
  BY DEF RepliesNext, replyVars
<1> QED
  BY <1>1, PTL DEF ReplySpec, RepliesInit, Spec

(* A client that remembers the number of its session's last reply is sent the
   number after it with the next one (returnRsp, setSessionPrivilege,
   closeSession), however many sessions are opened, answered, refused, closed
   and opened again in between. *)
THEOREM SequenceNumbersFollow == ReplySpec => RepliesInOrder
<1>1. RepliesInit => Known
  BY SizeAssumption DEF RepliesInit, Init, Known, Active, ZeroSession
<1>2. IInv /\ Known /\ [RepliesNext]_replyVars => Known'
  <2>1. ASSUME IInv, Known, RepliesNext PROVE Known'
    <3>1. Next /\ Remember
      BY <2>1 DEF RepliesNext
    <3> QED
      BY <2>1, <3>1, NextReplies, NextKeeps, KnownKept
  <2>2. ASSUME Known, UNCHANGED replyVars PROVE Known'
    BY <2>2 DEF Known, replyVars, vars, Active
  <2> QED
    BY <2>1, <2>2
<1>3. IInv /\ Known /\ [RepliesNext]_replyVars =>
        [\A s \in Active :
            reply'.sid = sessions[s].sid /\ reply'.data \notin SessionIds =>
               /\ reply'.seq # 0
               /\ lastSeq[s] # 0 => Follows(lastSeq[s], reply'.seq)]_replyVars
  <2> SUFFICES ASSUME IInv, Known, RepliesNext, NEW s \in Active,
                      reply'.sid = sessions[s].sid, reply'.data \notin SessionIds
               PROVE  /\ reply'.seq # 0
                      /\ lastSeq[s] # 0 => Follows(lastSeq[s], reply'.seq)
    OBVIOUS
  <2>1. RepliesOn(s)
    BY NextReplies, ReplyOnOne DEF RepliesNext
  <2>2. reply'.seq = sessions[s].xmitSeq
    BY <2>1 DEF RepliesOn
  <2>3. lastSeq[s] \in 0 .. Word - 1
    BY DEF Known, Active
  <2> QED
    BY <2>2, <2>3 DEF Known, BumpSeq, Follows
<1> QED
  BY <1>1, <1>2, <1>3, Invariance, RepliesAreSessions, PTL DEF ReplySpec, RepliesInOrder

-----------------------------------------------------------------------------
(* The refinement of SessionTable. Grant(s) is slot s as the abstract table
   sees it; the index bits make the grants of different slots different. *)
Grant(s) == [sid |-> sessions[s].sid, user |-> sessions[s].userid,
             priv |-> sessions[s].priv, limit |-> sessions[s].maxPriv]

(* The abstract table holds one grant for each active slot. *)
LEMMA OpenSessionsGrants ==
    /\ OpenSessions = {Grant(s) : s \in Active}
    /\ OpenSessions' = {Grant(s)' : s \in Active'}
BY DEF OpenSessions, Grant

(* The abstract table is no larger than the number of slots. *)
LEMMA OpenSessionsBound ==
    IsFiniteSet(OpenSessions) /\ Cardinality(OpenSessions) <= Cardinality(Active)
<1> DEFINE g == [s \in Active |-> Grant(s)]
<1>1. g \in Surjection(Active, OpenSessions)
  BY OpenSessionsGrants DEF Surjection
<1> QED
  BY <1>1, ActiveFinite, FS_Surjection

(* Two active slots are two grants: their ids differ. *)
LEMMA GrantsDiffer ==
    ASSUME IInv, NEW s \in Active, NEW t \in Active, Grant(s) = Grant(t)
    PROVE  s = t
BY DEF Grant, IInv, Addressed

(* A slot whose id, user and privileges are the same is the same grant. *)
LEMMA SameGrant ==
    ASSUME NEW x, Same(x)
    PROVE  Grant(x)' = Grant(x)
BY DEF Same, Grant

(* Opening a slot is opening a session in the abstract table. *)
LEMMA RefineOpen ==
    ASSUME IInv, NEW s \in Slots, Opens(s)
    PROVE  Table!Open
<1>1. Active' = Active \cup {s}
  BY DEF Opens, Same, Active
<1>2. \A x \in Active : Grant(x)' = Grant(x)
  BY SameGrant DEF Opens, Active
<1>3. OpenSessions' = OpenSessions \cup {Grant(s)'}
  BY <1>1, <1>2, OpenSessionsGrants
<1>4. Cardinality(OpenSessions) < MaxSessions
  <2>1. Cardinality(OpenSessions) \in Nat /\ Cardinality(Active) \in Nat
    BY OpenSessionsBound, ActiveFinite, FS_CardinalityType
  <2> QED
    BY <2>1, OpenSessionsBound, SizeAssumption DEF Opens
<1>5. \A x \in OpenSessions : x.sid # sessions'[s].sid
  BY DEF OpenSessions, Opens, IInv, Addressed, Active
<1>6. Grant(s)' = [sid |-> sessions'[s].sid, user |-> sessions'[s].userid,
                   priv |-> USER, limit |-> sessions'[s].maxPriv]
  BY DEF Grant, Opens
<1>7. /\ sessions'[s].sid \in SessionIds
      /\ sessions'[s].userid \in DOMAIN UserMaxPriv
      /\ sessions'[s].maxPriv \in 0 .. UserMaxPriv[sessions'[s].userid]
  BY DEF Opens, UserMaxPriv
<1>8. OpenSessions' = OpenSessions \cup
                        {[sid |-> sessions'[s].sid, user |-> sessions'[s].userid,
                          priv |-> USER, limit |-> sessions'[s].maxPriv]}
  BY <1>3, <1>6
<1>9. Table!Cardinality(OpenSessions) = Cardinality(OpenSessions)
  BY DEF Table!Cardinality, Cardinality
<1> QED
  BY <1>4, <1>5, <1>7, <1>8, <1>9 DEF Table!Open

(* Setting a privilege is setting it in the abstract table. *)
LEMMA RefineSetPrivilege ==
    ASSUME IInv, NEW s \in Slots, Sets(s)
    PROVE  Table!SetPrivilege
<1>1. Active' = Active /\ s \in Active
  BY DEF Sets, Same, Active
<1>2. \A x \in Active \ {s} : Grant(x)' = Grant(x)
  BY SameGrant DEF Sets, Active
<1>3. Grant(s)' = [Grant(s) EXCEPT !.priv = sessions'[s].priv]
  BY DEF Grant, Sets
<1>4. OpenSessions' = (OpenSessions \ {Grant(s)}) \cup {Grant(s)'}
  BY <1>1, <1>2, OpenSessionsGrants, GrantsDiffer
<1>5. Grant(s) \in OpenSessions /\ sessions'[s].priv \in USER .. Grant(s).limit
  BY <1>1, OpenSessionsGrants DEF Sets, Grant
<1> QED
  BY <1>3, <1>4, <1>5 DEF Table!SetPrivilege

(* Freeing a slot is closing a session in the abstract table. *)
LEMMA RefineClose ==
    ASSUME IInv, NEW s \in Slots, NEW t \in Slots, Closes(s, t)
    PROVE  Table!Close
<1>1. s \in Active /\ t \in Active /\ Active' = Active \ {t}
  BY DEF Closes, Same, Active
<1>2. \A x \in Active \ {t} : Grant(x)' = Grant(x)
  BY SameGrant DEF Closes, Active
<1>3. OpenSessions' = OpenSessions \ {Grant(t)}
  BY <1>1, <1>2, OpenSessionsGrants, GrantsDiffer
<1>4. Grant(s) \in OpenSessions /\ Grant(t) \in OpenSessions
  BY <1>1, OpenSessionsGrants
<1>5. Grant(s) = Grant(t) \/ Grant(s).priv = ADMIN
  BY DEF Closes, Grant
<1> QED
  BY <1>3, <1>4, <1>5 DEF Table!Close

(* The slot table, its counter and its ids implement the bounded set of
   sessions with distinct ids of SessionTable. *)
THEOREM Implements == Spec => ImplementsTable
<1>1. Init => Table!Init
  BY DEF Init, Table!Init, OpenSessions, Active, ZeroSession
<1>2. IInv /\ [Next]_vars => [Table!Next]_OpenSessions
  <2> SUFFICES ASSUME IInv, [Next]_vars PROVE [Table!Next]_OpenSessions
    OBVIOUS
  <2>1. CASE \A x \in Slots : Same(x)
    <3>1. Active' = Active
      BY <2>1 DEF Active, Same
    <3>2. \A x \in Active : Grant(x)' = Grant(x)
      BY <2>1, SameGrant DEF Active
    <3> QED
      BY <3>1, <3>2, OpenSessionsGrants
  <2>2. CASE \E s \in Slots : Opens(s)
    BY <2>2, RefineOpen DEF Table!Next
  <2>3. CASE \E s \in Slots : Sets(s)
    BY <2>3, RefineSetPrivilege DEF Table!Next
  <2>4. CASE \E s, t \in Slots : Closes(s, t)
    BY <2>4, RefineClose DEF Table!Next
  <2> QED
    BY <2>1, <2>2, <2>3, <2>4, StepShape DEF Shape
<1> QED
  BY <1>1, <1>2, Invariance, PTL DEF Spec, ImplementsTable, Table!Spec

=============================================================================
