---------------------------- MODULE ChassisProofs ----------------------------
(***************************************************************************)
(* Proofs about Chassis for every number of cards, sensors, slots and      *)
(* faults: whose session a card works in, how many slots the cards take,   *)
(* that the MM keeps the invariants of its components, that acknowledged   *)
(* records are stored, that the MM shows what the cards last polled, and   *)
(* that no card is stranded that nothing disturbs.                         *)
(***************************************************************************)
EXTENDS Chassis, FiniteSetTheorems, TLAPS

(* The cards that were started since the MM was. *)
Fresh == Cards \ stale

(* The MM's table: an open session has its slot in its id, so that no two open
   sessions have the same. *)
TableOK ==
    /\ sessions \in [Lan!Slots -> Lan!SessionT]
    /\ sidSeq \in Nat /\ nextChallSeq \in Nat
    /\ \A s \in Lan!Active : sessions[s].sid.idx = s

WellFormed(r) ==
    r \in [card : {r.card}, cmd : {r.cmd}, cc : {r.cc}, data : {r.data}, copy : BOOLEAN]

ClientsOK ==
    /\ ctx \in [Cards -> [temp : Lan!Sids, sid : Lan!Sids]]
    /\ \A r \in replies : r.data \in Lan!Sids /\ WellFormed(r)
    /\ ~up => Fresh = {}

(* Card c works in session x, or a reply that tells it to is under way. *)
Claim(c, x) ==
    \/ ctx[c].sid = x /\ x # Lan!NoSid
    \/ \E r \in replies : r.card = c /\ r.cmd = "activate" /\ r.cc = "OK" /\ r.data = x

Apart ==
    \A c \in Fresh, x \in Lan!Sids :
        Claim(c, x) => x \in OpenSids /\ \A d \in Fresh : Claim(d, x) => d = c

(* The inductive invariant. OwnSession alone is not one: a second reply that
   opens the same session to another card would have to be excluded. *)
IInv == TableOK /\ ClientsOK /\ Apart

-----------------------------------------------------------------------------
(* The handlers that answer change no more of the table than the sequence
   numbers and privileges of its sessions. *)
SameSessions ==
    /\ sessions' \in [Lan!Slots -> Lan!SessionT]
    /\ \A s \in Lan!Slots : sessions'[s].active = sessions[s].active
                            /\ sessions'[s].sid = sessions[s].sid

LEMMA SidTypes == Lan!NoSid \in Lan!Sids
  BY ChassisAssumption DEF Lan!NoSid, Lan!Sids

LEMMA BumpSeqType ==
    ASSUME NEW q \in 0 .. Word - 1 PROVE Lan!BumpSeq(q) \in 0 .. Word - 1
  BY ChassisAssumption DEF Lan!BumpSeq

LEMMA SpentSame ==
    ASSUME TableOK, NEW s \in Lan!Slots
    PROVE  /\ Lan!Spent(s) \in [Lan!Slots -> Lan!SessionT]
           /\ \A t \in Lan!Slots : Lan!Spent(s)[t].active = sessions[t].active
                                   /\ Lan!Spent(s)[t].sid = sessions[t].sid
<1>1. Lan!BumpSeq(sessions[s].xmitSeq) \in 0 .. Word - 1
  BY BumpSeqType DEF TableOK, Lan!SessionT
<1> QED
  BY <1>1 DEF TableOK, Lan!Spent, Lan!SessionT

LEMMA UnchangedSame == ASSUME TableOK, UNCHANGED sessions PROVE SameSessions
  BY DEF TableOK, SameSessions

LEMMA AnswerSame ==
    ASSUME TableOK, NEW sid, NEW cc, NEW data \in Lan!Sids, Lan!Answer(sid, cc, data)
    PROVE  SameSessions /\ reply'.data \in Lan!Sids
<1>1. ASSUME NEW s \in Lan!SidToSession(sid), Lan!AnswerOn(s, cc, data)
      PROVE  SameSessions /\ reply'.data \in Lan!Sids
  <2>1. s \in Lan!Slots
    BY DEF Lan!SidToSession, Lan!Active
  <2> QED
    BY <1>1, <2>1, SpentSame DEF Lan!AnswerOn, Lan!Reply, SameSessions
<1>2. ASSUME reply' = IF sid = Lan!NoSid THEN Lan!Reply(Lan!NoSid, 0, cc, data) ELSE Lan!Silent,
             UNCHANGED sessions
      PROVE  SameSessions /\ reply'.data \in Lan!Sids
  BY <1>2, UnchangedSame, SidTypes DEF Lan!Reply, Lan!Silent
<1> QED
  BY <1>1, <1>2 DEF Lan!Answer

LEMMA DropSame == ASSUME TableOK, Lan!Drop PROVE SameSessions /\ reply'.data \in Lan!Sids
                                                 /\ reply'.cc # "OK"
  BY UnchangedSame, SidTypes DEF Lan!Drop, Lan!Silent, Lan!Reply

LEMMA SameTable ==
    ASSUME TableOK, SameSessions, sidSeq' \in Nat, nextChallSeq' \in Nat
    PROVE  TableOK' /\ OpenSids' = OpenSids
<1>1. Lan!Active' = Lan!Active
  BY DEF SameSessions, Lan!Active
<1> QED
  BY <1>1 DEF TableOK, SameSessions, OpenSids, Lan!Active

-----------------------------------------------------------------------------
(* What handling request m does to the sessions. *)
Rests(m) ==
    /\ SameSessions /\ sidSeq' \in Nat /\ nextChallSeq' \in Nat
    /\ UNCHANGED activeSessions
    /\ reply'.data \in Lan!Sids
    /\ m.cmd = "activate" => reply'.cc # "OK"

Opens(m) ==
    /\ TableOK'
    /\ reply'.data \in Lan!Sids \ OpenSids
    /\ OpenSids' = OpenSids \cup {reply'.data}
    /\ activeSessions' = activeSessions + 1
    /\ reply'.cc = "OK"

(* A new session takes a free slot, so its id, which holds the slot, is that of
   no open session, whatever the counter is at. *)
LEMMA OpenShape ==
    ASSUME TableOK, NEW m, NEW sid, sid.idx \in Lan!Users, Lan!OpenSession(sid, 3, 1),
           UNCHANGED nextChallSeq
    PROVE  Opens(m)
<1>1. PICK s \in Lan!Slots :
         /\ Lan!IsFirstFree(s)
         /\ sessions' = [sessions EXCEPT ![s] =
               [active |-> TRUE, sid |-> Lan!SessionSid(s), xmitSeq |-> 1,
                userid |-> sid.idx, priv |-> Lan!USER, maxPriv |-> 3]]
         /\ activeSessions' = activeSessions + 1
         /\ sidSeq' = (Lan!IdSeq + 1) % Word
         /\ reply' = Lan!Reply(sid, 1, "OK", Lan!SessionSid(s))
  BY DEF Lan!OpenSession
<1>2. Lan!IdSeq \in Nat
  BY DEF TableOK, Lan!IdSeq
<1>3. Lan!SessionSid(s) \in Lan!Sids /\ Lan!SessionSid(s).idx = s
  <2>1. Lan!IdSeq % TagMod \in 0 .. TagMod - 1
    BY <1>2, ChassisAssumption
  <2>2. s \in 0 .. 63
    BY ChassisAssumption DEF Lan!Slots
  <2> QED
    BY <2>1, <2>2 DEF Lan!SessionSid, Lan!Sids
<1>4. sidSeq' \in Nat
  BY <1>1, <1>2, ChassisAssumption
<1>5. [active |-> TRUE, sid |-> Lan!SessionSid(s), xmitSeq |-> 1,
       userid |-> sid.idx, priv |-> Lan!USER, maxPriv |-> 3] \in Lan!SessionT
  BY <1>3, ChassisAssumption DEF Lan!SessionT, Lan!USER
<1>6. /\ sessions' \in [Lan!Slots -> Lan!SessionT]
      /\ sessions'[s].active /\ sessions'[s].sid = Lan!SessionSid(s)
      /\ \A t \in Lan!Slots : t # s => sessions'[t] = sessions[t]
  BY <1>1, <1>5 DEF TableOK
<1>7. s \notin Lan!Active /\ Lan!Active' = Lan!Active \cup {s}
  BY <1>1, <1>6 DEF Lan!IsFirstFree, Lan!FreeSlots, Lan!Active
<1>8. TableOK'
  BY <1>3, <1>4, <1>6, <1>7 DEF TableOK, Lan!Active
<1>9. reply'.data = Lan!SessionSid(s) /\ reply'.cc = "OK"
  BY <1>1 DEF Lan!Reply
<1>10. Lan!SessionSid(s) \notin OpenSids
  BY <1>3, <1>7 DEF OpenSids, TableOK
<1>11. OpenSids' = OpenSids \cup {Lan!SessionSid(s)}
  BY <1>6, <1>7 DEF OpenSids, Lan!Active
<1> QED
  BY <1>1, <1>3, <1>8, <1>9, <1>10, <1>11 DEF Opens

LEMMA ActivateShape ==
    ASSUME TableOK, NEW m, NEW sid, Lan!ActivateTemporary(sid, "NONE", "NONE", 3, 1)
    PROVE  (Rests(m) \/ Opens(m)) /\ UNCHANGED up
<1>1. ASSUME Lan!Drop, UNCHANGED <<activeSessions, sidSeq, nextChallSeq>> PROVE Rests(m)
  BY <1>1, DropSame DEF Rests, TableOK
<1>2. ASSUME Lan!ActivateRefusal(sid.idx, 3, 1) # "OK",
             reply' = Lan!Reply(sid, 1, Lan!ActivateRefusal(sid.idx, 3, 1), Lan!NoSid),
             UNCHANGED <<sessions, activeSessions, sidSeq, nextChallSeq>>
      PROVE  Rests(m)
  BY <1>2, UnchangedSame, SidTypes DEF Rests, Lan!Reply, TableOK
<1>3. ASSUME Lan!Admissible(sid, "NONE", "NONE"), Lan!OpenSession(sid, 3, 1),
             UNCHANGED nextChallSeq
      PROVE  Opens(m)
  BY <1>3, OpenShape DEF Lan!Admissible
<1>4. UNCHANGED up /\ UNCHANGED nextChallSeq
  BY DEF Lan!ActivateTemporary
<1>5. CASE Lan!Drop /\ UNCHANGED <<activeSessions, sidSeq>>
  BY <1>1, <1>4, <1>5
<1>6. CASE /\ Lan!ActivateRefusal(sid.idx, 3, 1) # "OK"
           /\ reply' = Lan!Reply(sid, 1, Lan!ActivateRefusal(sid.idx, 3, 1), Lan!NoSid)
           /\ UNCHANGED <<sessions, activeSessions, sidSeq>>
  BY <1>2, <1>4, <1>6
<1>7. CASE Lan!Admissible(sid, "NONE", "NONE") /\ Lan!OpenSession(sid, 3, 1)
  BY <1>3, <1>4, <1>7
<1> QED
  BY <1>5, <1>6, <1>7 DEF Lan!ActivateTemporary

LEMMA ChallengeShape ==
    ASSUME TableOK, NEW m, NEW sid, m.cmd = "challenge",
           Lan!GetSessionChallenge(sid, "NONE", 2, "NONE")
    PROVE  Rests(m) /\ UNCHANGED up
<1>1. Lan!TempSid(2) \in Lan!Sids
  <2>1. nextChallSeq % TagMod \in 0 .. TagMod - 1
    BY ChassisAssumption DEF TableOK
  <2> QED
    BY <2>1 DEF Lan!TempSid, Lan!Sids
<1>2. nextChallSeq' \in Nat /\ sidSeq' \in Nat /\ UNCHANGED <<activeSessions, up>>
  BY ChassisAssumption DEF Lan!GetSessionChallenge, TableOK
<1>3. CASE Lan!Drop
  BY <1>2, <1>3, DropSame DEF Rests
<1>4. ASSUME NEW cc, NEW data \in Lan!Sids, Lan!Answer(sid, cc, data) PROVE Rests(m)
  BY <1>2, <1>4, AnswerSame DEF Rests
<1> QED
  BY <1>1, <1>2, <1>3, <1>4, SidTypes DEF Lan!GetSessionChallenge

LEMMA PrivilegeShape ==
    ASSUME TableOK, NEW m, NEW sid, m.cmd = "privilege", Lan!SetSessionPrivilege(sid, 3)
    PROVE  Rests(m) /\ UNCHANGED up
<1>1. sidSeq' \in Nat /\ nextChallSeq' \in Nat /\ UNCHANGED <<activeSessions, up>>
  BY DEF Lan!SetSessionPrivilege, TableOK
<1>2. CASE Lan!Drop
  BY <1>1, <1>2, DropSame DEF Rests
<1>3. ASSUME NEW s \in Lan!SidToSession(sid), NEW cc, Lan!AnswerOn(s, cc, Lan!NoSid)
      PROVE  Rests(m)
  <2>1. Lan!Answer(sid, cc, Lan!NoSid)
    BY <1>3 DEF Lan!Answer
  <2> QED
    BY <1>1, <2>1, AnswerSame, SidTypes DEF Rests
<1>4. ASSUME NEW s \in Lan!SidToSession(sid), reply'.data = Lan!NoSid,
             sessions' = [Lan!Spent(s) EXCEPT ![s].priv = 3]
      PROVE  Rests(m)
  <2>1. s \in Lan!Slots
    BY DEF Lan!SidToSession, Lan!Active
  <2> DEFINE spent == Lan!Spent(s)
             rec == [spent[s] EXCEPT !.priv = 3]
  <2>3. /\ spent \in [Lan!Slots -> Lan!SessionT]
        /\ \A t \in Lan!Slots : spent[t].active = sessions[t].active
                                /\ spent[t].sid = sessions[t].sid
    BY <2>1, SpentSame
  <2>4. sessions' = [spent EXCEPT ![s] = rec]
    BY <1>4
  <2> HIDE DEF spent
  <2>5. rec \in Lan!SessionT /\ rec.active = spent[s].active /\ rec.sid = spent[s].sid
    BY <2>1, <2>3 DEF Lan!SessionT
  <2> HIDE DEF rec
  <2>2. SameSessions
    BY <2>1, <2>3, <2>4, <2>5 DEF SameSessions
  <2> QED
    BY <1>1, <1>4, <2>2, SidTypes DEF Rests
<1> QED
  BY <1>2, <1>3, <1>4 DEF Lan!SetSessionPrivilege, Lan!AskedPriv, Lan!Reply

LEMMA OtherShape ==
    ASSUME TableOK, NEW m, m.cmd # "activate", NEW sid, NEW cc,
           Lan!Answer(sid, cc, Lan!NoSid) \/ Lan!Drop,
           UNCHANGED <<activeSessions, sidSeq, nextChallSeq>>
    PROVE  Rests(m)
  BY AnswerSame, DropSame, SidTypes DEF Rests, TableOK

LEMMA DispatchShape ==
    ASSUME TableOK, NEW m, Dispatch(m)
    PROVE  (Rests(m) \/ (m.cmd = "activate" /\ Opens(m))) /\ UNCHANGED up
<1>1. CASE m.cmd = "caps" /\ Lan!GetChannelAuthCapabilities(m.sid, "NONE", FALSE, TRUE)
  <2>1. Lan!Answer(m.sid, "OK", Lan!NoSid) \/ Lan!Drop
    BY <1>1 DEF Lan!GetChannelAuthCapabilities
  <2> QED
    BY <1>1, <2>1, OtherShape DEF Lan!GetChannelAuthCapabilities
<1>2. CASE m.cmd = "challenge" /\ Lan!GetSessionChallenge(m.sid, "NONE", 2, "NONE")
  BY <1>2, ChallengeShape
<1>3. CASE m.cmd = "activate" /\ Lan!ActivateTemporary(m.sid, "NONE", "NONE", 3, 1)
  BY <1>3, ActivateShape
<1>4. CASE m.cmd = "privilege" /\ Lan!SetSessionPrivilege(m.sid, 3)
  BY <1>4, PrivilegeShape
<1>5. ASSUME m.cmd = "add", Lan!OtherCommand(m.sid, "OK") \/ Lan!Unanswered
      PROVE  Rests(m) /\ UNCHANGED up
  BY <1>5, OtherShape DEF Lan!OtherCommand, Lan!Unanswered
<1>6. CASE m.cmd = "add" /\ m.value = 0 /\ Add(m)
  BY <1>5, <1>6 DEF Add
<1>7. CASE m.cmd = "add" /\ m.value # 0 /\ Update(m)
  BY <1>5, <1>7 DEF Update
<1> QED
  BY <1>1, <1>2, <1>3, <1>4, <1>6, <1>7 DEF Dispatch

-----------------------------------------------------------------------------
(* A step that closes no session and lets no card claim another one. *)
LEMMA NoNewClaims ==
    ASSUME IInv, TableOK', ClientsOK', OpenSids \subseteq OpenSids',
           \A c \in Fresh', x \in Lan!Sids : Claim(c, x)' => c \in Fresh /\ Claim(c, x)
    PROVE  IInv'
  BY DEF IInv, Apart

LEMMA RestKeeps ==
    ASSUME IInv, MMRests \/ UNCHANGED tableVars
    PROVE  TableOK' /\ OpenSids' = OpenSids /\ UNCHANGED up
  BY SameTable, UnchangedSame DEF IInv, TableOK, MMRests, tableVars

LEMMA QuietKeeps ==
    ASSUME IInv, UNCHANGED tableVars, UNCHANGED <<ctx, stale>>, replies' \subseteq replies
    PROVE  IInv'
<1>1. TableOK' /\ OpenSids' = OpenSids /\ UNCHANGED up
  BY RestKeeps
<1>2. ClientsOK'
  BY <1>1 DEF IInv, ClientsOK, Fresh, WellFormed
<1> QED
  BY <1>1, <1>2, NoNewClaims DEF Claim, Fresh

LEMMA HandleKeeps == ASSUME IInv, NEW m, Handle(m) PROVE IInv'
<1> DEFINE new == [card |-> m.card, cmd |-> m.cmd, cc |-> reply'.cc,
                   data |-> reply'.data, copy |-> FALSE]
<1>1. UNCHANGED ctx /\ UNCHANGED stale /\ up /\ Dispatch(m)
      /\ replies' \subseteq replies \cup {new}
  BY DEF Handle, cardVars
<1>2. UNCHANGED up /\ Fresh' = Fresh
  BY <1>1, DispatchShape DEF IInv, Fresh
<1>3. WellFormed(new)
  BY DEF WellFormed
<1>4. CASE Rests(m)
  <2>1. TableOK' /\ OpenSids' = OpenSids
    BY <1>4, SameTable DEF IInv, Rests
  <2>2. reply'.data \in Lan!Sids /\ (m.cmd = "activate" => reply'.cc # "OK")
    BY <1>4 DEF Rests
  <2>3. ClientsOK'
    BY <1>1, <1>2, <1>3, <2>2 DEF IInv, ClientsOK, WellFormed
  <2>4. \A c \in Fresh', x \in Lan!Sids : Claim(c, x)' => c \in Fresh /\ Claim(c, x)
    BY <1>1, <1>2, <2>2 DEF Claim
  <2> QED
    BY <2>1, <2>3, <2>4, NoNewClaims
<1>5. CASE Opens(m)
  <2>1. TableOK' /\ reply'.data \in Lan!Sids /\ reply'.data \notin OpenSids
        /\ OpenSids' = OpenSids \cup {reply'.data}
    BY <1>5 DEF Opens
  <2>2. ClientsOK'
    BY <1>1, <1>2, <1>3, <2>1 DEF IInv, ClientsOK, WellFormed
  <2>3. ASSUME NEW c \in Cards, NEW x \in Lan!Sids, Claim(c, x)'
        PROVE  Claim(c, x) \/ (c = m.card /\ x = reply'.data)
    BY <1>1, <2>3 DEF Claim
  <2>4. ASSUME NEW c \in Fresh, Claim(c, reply'.data) PROVE FALSE
    BY <2>1, <2>4 DEF IInv, Apart
  <2>5. Fresh \subseteq Cards
    BY DEF Fresh
  <2>6. Apart'
    <3> SUFFICES ASSUME NEW c \in Fresh, NEW x \in Lan!Sids, Claim(c, x)'
                 PROVE  x \in OpenSids' /\ \A d \in Fresh : Claim(d, x)' => d = c
      BY <1>2 DEF Apart
    <3>1. CASE x = reply'.data
      BY <2>1, <2>3, <2>4, <2>5, <3>1
    <3>2. CASE x # reply'.data
      BY <2>1, <2>3, <2>5, <3>2 DEF IInv, Apart
    <3> QED
      BY <3>1, <3>2
  <2> QED
    BY <2>1, <2>2, <2>6 DEF IInv
<1> QED
  BY <1>1, <1>4, <1>5, DispatchShape DEF IInv

(* A card takes the session its reply opened to it; the reply stays away, or
   comes once more. *)
LEMMA ReceiveKeeps ==
    ASSUME IInv, NEW c \in Cards, NEW r \in replies, Receive(c, r),
           replies' \subseteq replies \cup {[r EXCEPT !.copy = TRUE]}
    PROVE  IInv'
<1>1. TableOK' /\ OpenSids' = OpenSids /\ UNCHANGED up /\ UNCHANGED stale /\ Fresh' = Fresh
  BY RestKeeps DEF Receive, Fresh
<1>2. r.card = c /\ r.data \in Lan!Sids
  BY DEF Receive, IInv, ClientsOK
<1> DEFINE copy == [r EXCEPT !.copy = TRUE]
<1>3. /\ copy.card = r.card /\ copy.cmd = r.cmd /\ copy.cc = r.cc /\ copy.data = r.data
      /\ WellFormed(copy)
  <2>1. r \in [card : {r.card}, cmd : {r.cmd}, cc : {r.cc}, data : {r.data}, copy : BOOLEAN]
    BY DEF IInv, ClientsOK, WellFormed
  <2> QED
    BY <2>1 DEF WellFormed
<1>4. UNCHANGED ctx \/ (ctx' = [ctx EXCEPT ![c] = NewCtx(c, r)] /\ r.cc = "OK")
  BY DEF Receive, Refused, Accepted
<1>5. /\ ctx' \in [Cards -> [temp : Lan!Sids, sid : Lan!Sids]]
      /\ \A d \in Cards : \/ ctx'[d].sid = ctx[d].sid
                          \/ d = c /\ r.cmd = "activate" /\ r.cc = "OK" /\ ctx'[d].sid = r.data
  BY <1>2, <1>4 DEF IInv, ClientsOK, NewCtx
<1>6. ClientsOK'
  BY <1>1, <1>2, <1>3, <1>5 DEF IInv, ClientsOK, WellFormed
<1>7. \A d \in Fresh', x \in Lan!Sids : Claim(d, x)' => d \in Fresh /\ Claim(d, x)
  <2> SUFFICES ASSUME NEW d \in Fresh, NEW x \in Lan!Sids, Claim(d, x)' PROVE Claim(d, x)
    BY <1>1
  <2>1. d \in Cards
    BY DEF Fresh
  <2>2. CASE ctx'[d].sid = x /\ x # Lan!NoSid
    BY <1>2, <1>5, <2>1, <2>2 DEF Claim
  <2>3. ASSUME NEW q \in replies', q.card = d, q.cmd = "activate", q.cc = "OK", q.data = x
        PROVE  Claim(d, x)
    BY <1>3, <2>3 DEF Claim
  <2> QED
    BY <2>2, <2>3 DEF Claim
<1> HIDE DEF copy
<1> QED
  BY <1>1, <1>6, <1>7, NoNewClaims

-----------------------------------------------------------------------------
LEMMA InitEstablishes == Init => IInv
<1> SUFFICES ASSUME Init PROVE IInv
  OBVIOUS
<1>1. Lan!ZeroSession \in Lan!SessionT
  BY SidTypes, ChassisAssumption DEF Lan!ZeroSession, Lan!SessionT
<1>2. TableOK
  BY <1>1 DEF Init, Lan!Init, TableOK, Lan!Active, Lan!ZeroSession
<1>3. ClientsOK
  BY SidTypes DEF Init, Lan!Init, ClientsOK, NoCtx
<1>4. \A c \in Cards : \A x : ~Claim(c, x)
  BY DEF Init, Claim, NoCtx
<1> QED
  BY <1>2, <1>3, <1>4 DEF IInv, Apart, Fresh

LEMMA MMStartsKeeps == ASSUME IInv, MMStarts PROVE IInv'
<1>1. Lan!ZeroSession \in Lan!SessionT
  BY SidTypes, ChassisAssumption DEF Lan!ZeroSession, Lan!SessionT
<1>2. TableOK'
  BY <1>1 DEF MMStarts, TableOK, Lan!Active, Lan!ZeroSession
<1>3. Fresh' = {} /\ UNCHANGED <<ctx, replies>>
  BY DEF MMStarts, IInv, ClientsOK, Fresh, cardVars
<1>4. ClientsOK'
  BY <1>3 DEF IInv, ClientsOK, WellFormed
<1> QED
  BY <1>2, <1>3, <1>4 DEF IInv, Apart

LEMMA MMStopsKeeps == ASSUME IInv, MMStops PROVE IInv'
<1>1. UNCHANGED <<sessions, sidSeq, nextChallSeq, ctx, replies>> /\ Fresh' = {}
  BY DEF MMStops, cardVars, Fresh
<1>2. TableOK'
  BY <1>1 DEF IInv, TableOK, Lan!Active
<1>3. ClientsOK'
  BY <1>1 DEF IInv, ClientsOK, WellFormed
<1> QED
  BY <1>1, <1>2, <1>3 DEF IInv, Apart

(* A new process claims nothing: what was told to the old one goes to a socket
   that is closed. *)
LEMMA RestartKeeps == ASSUME IInv, NEW c \in Cards, Restart(c) PROVE IInv'
<1>1. TableOK' /\ OpenSids' = OpenSids /\ UNCHANGED up
  BY RestKeeps DEF Restart
<1>2. /\ ctx' = [ctx EXCEPT ![c] = NoCtx]
      /\ replies' = {r \in replies : r.card # c}
      /\ stale' = IF up THEN stale \ {c} ELSE stale
  BY DEF Restart
<1>3. ClientsOK'
  BY <1>1, <1>2, SidTypes DEF IInv, ClientsOK, Fresh, NoCtx, WellFormed
<1>4. ASSUME NEW d \in Fresh', NEW x \in Lan!Sids, Claim(d, x)'
      PROVE  d \in Fresh /\ Claim(d, x)
  <2>1. d \in Cards
    BY DEF Fresh
  <2>2. d # c
    BY <1>2, <1>4 DEF Claim, NoCtx, IInv, ClientsOK
  <2> QED
    BY <1>2, <1>4, <2>1, <2>2 DEF Claim, Fresh, IInv, ClientsOK
<1> QED
  BY <1>1, <1>3, <1>4, NoNewClaims

LEMMA StepKeeps == IInv /\ [Next]_vars => IInv'
<1> SUFFICES ASSUME IInv, [Next]_vars PROVE IInv'
  OBVIOUS
<1>1. ASSUME NEW c \in Cards, Send(c) PROVE IInv'
  BY <1>1, QuietKeeps DEF Send, MMRests
<1>2. ASSUME NEW c \in Cards, NEW v \in Values, PollSensor(c, v) PROVE IInv'
  BY <1>2, QuietKeeps DEF PollSensor, MMRests
<1>3. ASSUME NEW c \in Cards, TakeReply(c) PROVE IInv'
  <2>1. PICK r \in replies : Receive(c, r) /\ replies' = replies \ {r}
    BY <1>3 DEF TakeReply
  <2> QED
    BY <2>1, ReceiveKeeps
<1>4. ASSUME NEW c \in Cards, TakeRequest(c) PROVE IInv'
  BY <1>4, HandleKeeps DEF TakeRequest
<1>5. ASSUME NEW c \in Cards, Unreachable(c) PROVE IInv'
  BY <1>5, QuietKeeps DEF Unreachable, MMRests, Refused
<1>6. ASSUME NEW c \in Cards, Restart(c) PROVE IInv'
  BY <1>6, RestartKeeps
<1>7. CASE Lose
  BY <1>7, QuietKeeps DEF Lose, MMRests, cardVars
<1>8. CASE RepeatRequest
  BY <1>8, HandleKeeps DEF RepeatRequest
<1>9. CASE RepeatReply
  <2>1. PICK c \in Cards, r \in replies :
          Receive(c, r) /\ replies' = (replies \ {r}) \cup {[r EXCEPT !.copy = TRUE]}
    BY <1>9 DEF RepeatReply
  <2> QED
    BY <2>1, ReceiveKeeps
<1>10. CASE Erase
  BY <1>10, QuietKeeps DEF Erase, cardVars
<1>11. CASE MMStops
  BY <1>11, MMStopsKeeps
<1>12. CASE MMStarts
  BY <1>12, MMStartsKeeps
<1>13. CASE UNCHANGED vars
  BY <1>13, QuietKeeps DEF vars, cardVars
<1> QED
  BY <1>1, <1>2, <1>3, <1>4, <1>5, <1>6, <1>7, <1>8, <1>9, <1>10, <1>11, <1>12, <1>13
     DEF Next, Run

(* No session is shared and none is a dead one, for every number of cards,
   whatever is lost, repeated and restarted in between, but for the cards that
   were not started again after the MM (clientSetupReq, activateSession). *)
THEOREM OwnSessions == Spec => []OwnSession
<1>1. IInv => OwnSession
  <2> SUFFICES ASSUME IInv, NEW c \in Fresh, ctx[c].sid # Lan!NoSid
               PROVE  /\ ctx[c].sid \in OpenSids
                      /\ \A d \in Fresh : ctx[d].sid = ctx[c].sid => d = c
    BY DEF OwnSession, Fresh
  <2>1. c \in Cards /\ ctx[c].sid \in Lan!Sids /\ Claim(c, ctx[c].sid)
    BY DEF Fresh, IInv, ClientsOK, Claim
  <2> QED
    BY <2>1 DEF IInv, Apart, Claim
<1> QED
  BY <1>1, InitEstablishes, StepKeeps, PTL DEF Spec

-----------------------------------------------------------------------------
(* What is proved of the session layer and of the repository on their own holds
   of the MM in the composition: its steps are theirs. The two INSTANCEs bring
   the lemmas of the components here, with the constants Chassis gives them.
   What the clients of LanSession remember (lastSeq) is in none of the lemmas
   used here, so any value will do for it. *)
LanP == INSTANCE LanSessionProofs WITH
    IdxMask <- 63, ReqSids <- {}, AuthReqs <- {"NONE"}, PrivReqs <- {3}, SeqReqs <- {1},
    lastSeq <- <<>>
SdrP == INSTANCE SdrRepositoryProofs WITH
    LocalSensors <- <<>>, Values <- Values \cup {0}, Luns <- {0}, AddNums <- {}, UpdateNums <- {}

MMInv == LanP!IInv /\ SdrP!IInv

LEMMA ComponentAssumptions ==
    /\ LanP!SizeAssumption /\ LanP!RequestAssumption
    /\ SdrP!SizeAssumption /\ SdrP!SensorAssumption
  BY ChassisAssumption
     DEF LanP!SizeAssumption, LanP!RequestAssumption, LanP!AuthTypes,
         SdrP!SizeAssumption, SdrP!SensorAssumption

(* Lan and LanP, Sdr and SdrP name the same formulas. *)
LEMMA SameTypes ==
    (LanP!TypeOK <=> Lan!TypeOK) /\ (SdrP!TypeOK <=> Sdr!TypeOK)
  BY DEF Lan!TypeOK, LanP!TypeOK, Lan!Slots, LanP!Slots, Lan!SessionT, LanP!SessionT,
         Lan!Sids, LanP!Sids, Lan!Users, LanP!Users, Lan!Codes, LanP!Codes,
         Sdr!TypeOK, SdrP!TypeOK, Sdr!Record, SdrP!Record, Sdr!TimeFields, SdrP!TimeFields

LEMMA SameUnanswered == Lan!Unanswered <=> LanP!Unanswered
  BY DEF Lan!Unanswered, LanP!Unanswered, Lan!Drop, LanP!Drop, Lan!Silent, LanP!Silent,
         Lan!Reply, LanP!Reply, Lan!NoSid, LanP!NoSid

LEMMA SameAnswer ==
    ASSUME NEW sid, NEW cc, NEW data
    PROVE  Lan!Answer(sid, cc, data) <=> LanP!Answer(sid, cc, data)
  BY DEF Lan!Answer, LanP!Answer, Lan!SidToSession, LanP!SidToSession, Lan!Active, LanP!Active,
         Lan!Slots, LanP!Slots, Lan!AnswerOn, LanP!AnswerOn, Lan!Spent, LanP!Spent,
         Lan!BumpSeq, LanP!BumpSeq, Lan!Silent, LanP!Silent, Lan!Reply, LanP!Reply,
         Lan!NoSid, LanP!NoSid

LEMMA SameOther ==
    ASSUME NEW sid PROVE Lan!OtherCommand(sid, "OK") <=> LanP!OtherCommand(sid, "OK")
  BY SameAnswer DEF Lan!OtherCommand, LanP!OtherCommand, Lan!NoSid, LanP!NoSid

LEMMA SameCapabilities ==
    ASSUME NEW sid
    PROVE  Lan!GetChannelAuthCapabilities(sid, "NONE", FALSE, TRUE)
              <=> LanP!GetChannelAuthCapabilities(sid, "NONE", FALSE, TRUE)
  BY SameAnswer DEF Lan!GetChannelAuthCapabilities, LanP!GetChannelAuthCapabilities,
         Lan!Unauthenticated, LanP!Unauthenticated, Lan!Drop, LanP!Drop,
         Lan!Silent, LanP!Silent, Lan!Reply, LanP!Reply, Lan!NoSid, LanP!NoSid

LEMMA SameChallenge ==
    ASSUME NEW sid
    PROVE  Lan!GetSessionChallenge(sid, "NONE", 2, "NONE")
              <=> LanP!GetSessionChallenge(sid, "NONE", 2, "NONE")
  BY SameAnswer DEF Lan!GetSessionChallenge, LanP!GetSessionChallenge,
         Lan!Unauthenticated, LanP!Unauthenticated, Lan!Drop, LanP!Drop,
         Lan!ChallengeRefusal, LanP!ChallengeRefusal, Lan!AllowedAuths, LanP!AllowedAuths,
         Lan!Users, LanP!Users, Lan!TempSid, LanP!TempSid,
         Lan!Silent, LanP!Silent, Lan!Reply, LanP!Reply, Lan!NoSid, LanP!NoSid

LEMMA SameActivate ==
    ASSUME NEW sid
    PROVE  Lan!ActivateTemporary(sid, "NONE", "NONE", 3, 1)
              <=> LanP!ActivateTemporary(sid, "NONE", "NONE", 3, 1)
  BY DEF Lan!ActivateTemporary, LanP!ActivateTemporary, Lan!Admissible, LanP!Admissible,
         Lan!ActivateRefusal, LanP!ActivateRefusal, Lan!OpenSession, LanP!OpenSession,
         Lan!Users, LanP!Users, Lan!AllowedAuths, LanP!AllowedAuths,
         Lan!UserMaxPriv, LanP!UserMaxPriv, Lan!USER, LanP!USER, Lan!ADMIN, LanP!ADMIN,
         Lan!FreeSlots, LanP!FreeSlots, Lan!Slots, LanP!Slots, Lan!IsFirstFree, LanP!IsFirstFree,
         Lan!SessionSid, LanP!SessionSid, Lan!IdSeq, LanP!IdSeq, Lan!Drop, LanP!Drop,
         Lan!Silent, LanP!Silent, Lan!Reply, LanP!Reply, Lan!NoSid, LanP!NoSid

LEMMA SamePrivilege ==
    ASSUME NEW sid
    PROVE  Lan!SetSessionPrivilege(sid, 3) <=> LanP!SetSessionPrivilege(sid, 3)
  BY DEF Lan!SetSessionPrivilege, LanP!SetSessionPrivilege,
         Lan!SidToSession, LanP!SidToSession, Lan!Active, LanP!Active, Lan!Slots, LanP!Slots,
         Lan!AskedPriv, LanP!AskedPriv, Lan!PrivRefusal, LanP!PrivRefusal,
         Lan!CALLBACK, LanP!CALLBACK, Lan!AnswerOn, LanP!AnswerOn, Lan!Spent, LanP!Spent,
         Lan!BumpSeq, LanP!BumpSeq, Lan!Drop, LanP!Drop,
         Lan!Silent, LanP!Silent, Lan!Reply, LanP!Reply, Lan!NoSid, LanP!NoSid

LEMMA SameMatches ==
    ASSUME NEW num
    PROVE  /\ Sdr!FirstMatch(0, num) = SdrP!FirstMatch(0, num)
           /\ Sdr!FirstMatch(0, num)' = SdrP!FirstMatch(0, num)'
           /\ Sdr!SensorReading(0, num) = SdrP!SensorReading(0, num)
           /\ Sdr!SensorReading(0, num)' = SdrP!SensorReading(0, num)'
  BY DEF Sdr!FirstMatch, SdrP!FirstMatch, Sdr!Live, SdrP!Live,
         Sdr!SensorReading, SdrP!SensorReading

LEMMA SameAdd ==
    ASSUME NEW num
    PROVE  /\ Sdr!AddSdr(0, num) <=> SdrP!AddSdr(0, num)
           /\ Sdr!AddSdr(0, num) => UNCHANGED sdrVars \/ SdrP!AddSdrEntry(num)
  BY SameMatches
     DEF Sdr!AddSdr, SdrP!AddSdr, Sdr!AddSdrEntry, SdrP!AddSdrEntry, Sdr!Linked, SdrP!Linked,
         Sdr!NewRecord, SdrP!NewRecord, Sdr!sdrVars, SdrP!sdrVars, sdrVars

LEMMA SameUpdate ==
    ASSUME NEW num, NEW v PROVE Sdr!UpdateSdr(0, num, v) <=> SdrP!UpdateSdr(0, num, v)
  BY SameMatches DEF Sdr!UpdateSdr, SdrP!UpdateSdr

LEMMA SameClear == Sdr!ClearSdrRepository(0) <=> SdrP!ClearSdrRepository(0)
  BY DEF Sdr!ClearSdrRepository, SdrP!ClearSdrRepository, Sdr!Reserved, SdrP!Reserved

-----------------------------------------------------------------------------
(* A reply of the MM's handlers. *)
LEMMA MMReply == MMInv => reply.cc \in Lan!Codes /\ reply.data \in Lan!Sids
  BY SameTypes DEF MMInv, LanP!IInv, Lan!TypeOK

LEMMA MMReplyNext == MMInv' => reply'.cc \in Lan!Codes /\ reply'.data \in Lan!Sids
<1>1. MMInv' => (reply.cc \in Lan!Codes /\ reply.data \in Lan!Sids)'
  BY MMReply, PTL
<1> QED
  BY <1>1 DEF Lan!Codes, Lan!Sids

(* A step of the MM that answers nothing keeps its invariant. *)
LEMMA UnansweredKeepsMM == ASSUME LanP!IInv, Lan!Unanswered PROVE LanP!IInv'
<1>1. LanP!NoSid \in LanP!Sids
  BY ChassisAssumption DEF LanP!NoSid, LanP!Sids
<1>2. LanP!Unanswered
  BY SameUnanswered
<1> QED
  BY <1>1, <1>2, ComponentAssumptions, LanP!AnswersKeep DEF LanP!AnswersKeep

LEMMA RestKeepsMM == ASSUME MMInv, MMRests PROVE MMInv'
<1>1. Lan!Unanswered
  BY DEF MMRests, tableVars, Lan!Unanswered, Lan!Drop
<1>2. UNCHANGED SdrP!sdrVars
  BY DEF MMRests, sdrVars, SdrP!sdrVars
<1>3. SdrP!IInv'
  BY <1>2, ComponentAssumptions, SdrP!StutterKeeps DEF SdrP!StutterKeeps, MMInv
<1> QED
  BY <1>1, <1>3, UnansweredKeepsMM DEF MMInv

(* The requests of the cards. *)
Commands == {"caps", "challenge", "activate", "privilege", "add"}

RequestT == [card : Cards, life : Nat \ {0}, cmd : Commands, sid : Lan!Sids, num : Nat,
             value : Values \cup {0}, copy : BOOLEAN]

LEMMA DispatchKeepsLan ==
    ASSUME MMInv, NEW m \in RequestT, Dispatch(m) PROVE LanP!IInv'
<1>1. m.sid \in LanP!Sids /\ LanP!IInv
  BY DEF RequestT, MMInv, Lan!Sids, LanP!Sids
<1>2. CASE Lan!GetChannelAuthCapabilities(m.sid, "NONE", FALSE, TRUE)
  <2>1. LanP!GetChannelAuthCapabilities(m.sid, "NONE", FALSE, TRUE)
    BY <1>2, SameCapabilities
  <2> QED
    BY <1>1, <2>1, ComponentAssumptions, LanP!AnswersKeep DEF LanP!AnswersKeep
<1>3. CASE Lan!GetSessionChallenge(m.sid, "NONE", 2, "NONE")
  <2>1. LanP!GetSessionChallenge(m.sid, "NONE", 2, "NONE") /\ 2 \in {0} \cup LanP!Users
    BY <1>3, SameChallenge DEF LanP!Users
  <2> QED
    BY <1>1, <2>1, ComponentAssumptions, LanP!AnswersKeep DEF LanP!AnswersKeep
<1>4. CASE Lan!ActivateTemporary(m.sid, "NONE", "NONE", 3, 1)
  <2>1. LanP!ActivateTemporary(m.sid, "NONE", "NONE", 3, 1) /\ 3 \in 0 .. 15 /\ 1 \in 0 .. Word - 1
    BY <1>4, SameActivate, ChassisAssumption
  <2> QED
    BY <1>1, <2>1, ComponentAssumptions, LanP!ActivateTemporaryKeeps
       DEF LanP!ActivateTemporaryKeeps
<1>5. CASE Lan!SetSessionPrivilege(m.sid, 3)
  <2>1. LanP!SetSessionPrivilege(m.sid, 3) /\ 3 \in 0 .. 15
    BY <1>5, SamePrivilege
  <2> QED
    BY <1>1, <2>1, ComponentAssumptions, LanP!SetSessionPrivilegeKeeps
       DEF LanP!SetSessionPrivilegeKeeps
<1>6. CASE Lan!OtherCommand(m.sid, "OK")
  <2>1. LanP!OtherCommand(m.sid, "OK") /\ "OK" \in {"OK", "INVALID_DATA"}
    BY <1>6, SameOther
  <2> QED
    BY <1>1, <2>1, ComponentAssumptions, LanP!AnswersKeep DEF LanP!AnswersKeep
<1>7. CASE Lan!Unanswered
  BY <1>1, <1>7, UnansweredKeepsMM
<1> QED
  BY <1>2, <1>3, <1>4, <1>5, <1>6, <1>7 DEF Dispatch, Add, Update

(* What a request does to the records of the MM, and what its reply then says
   of them. *)
LEMMA DispatchRecords ==
    ASSUME MMInv, NEW m \in RequestT, Dispatch(m)
    PROVE  /\ SdrP!IInv'
           /\ \A k : Stored(k) => Stored(k)'
           /\ m.cmd = "add" /\ (m.value = 0 \/ reply'.cc # "silent") => Stored(m.num)'
           /\ m.cmd = "add" /\ m.value # 0 /\ reply'.cc # "silent" =>
                 Sdr!SensorReading(0, m.num)' = {m.value}
           /\ \A k : Stored(k) /\ (k = m.num => m.cmd # "add" \/ m.value = 0) =>
                 Sdr!SensorReading(0, k)' = Sdr!SensorReading(0, k)
           /\ m.cmd = "add" => reply'.cc \in {"silent", "OK"}
<1>1. SdrP!IInv /\ m.num \in Nat /\ m.value \in Values \cup {0}
  BY DEF MMInv, RequestT
<1>2. CASE m.cmd # "add" /\ UNCHANGED sdrVars
  <2>1. SdrP!IInv'
    <3>1. UNCHANGED SdrP!sdrVars
      BY <1>2 DEF sdrVars, SdrP!sdrVars
    <3> QED
      BY <1>1, <3>1, ComponentAssumptions, SdrP!StutterKeeps DEF SdrP!StutterKeeps
  <2> QED
    BY <1>2, <2>1 DEF sdrVars, Stored, Sdr!FirstMatch, Sdr!Live, Sdr!SensorReading
<1>3. CASE m.cmd = "add" /\ m.value = 0 /\ Add(m)
  <2>1. SdrP!AddSdr(0, m.num) /\ (UNCHANGED sdrVars \/ SdrP!AddSdrEntry(m.num))
    BY <1>3, SameAdd DEF Add
  <2>2. SdrP!IInv'
    <3>1. CASE UNCHANGED sdrVars
      <4>1. UNCHANGED SdrP!sdrVars
        BY <3>1 DEF sdrVars, SdrP!sdrVars
      <4> QED
        BY <1>1, <4>1, ComponentAssumptions, SdrP!StutterKeeps DEF SdrP!StutterKeeps
    <3>2. CASE SdrP!AddSdrEntry(m.num)
      BY <1>1, <3>2, ComponentAssumptions, SdrP!AddSdrEntryKeeps DEF SdrP!AddSdrEntryKeeps
    <3> QED
      BY <2>1, <3>1, <3>2
  <2>3. /\ SdrP!FirstMatch(0, m.num)' # {}
        /\ \A k : SdrP!FirstMatch(0, k) # {} =>
              /\ SdrP!FirstMatch(0, k)' # {}
              /\ SdrP!SensorReading(0, k)' = SdrP!SensorReading(0, k)
    BY <1>1, <2>1, ComponentAssumptions, SdrP!AddStores DEF SdrP!AddStores
  <2>4. reply'.cc \in {"silent", "OK"}
    BY <1>3 DEF Add, Lan!OtherCommand, Lan!Answer, Lan!AnswerOn, Lan!Reply, Lan!Silent
  <2> QED
    BY <1>3, <2>2, <2>3, <2>4, SameMatches DEF Stored
<1>4. CASE m.cmd = "add" /\ m.value # 0 /\ Update(m)
  <2>1. SdrP!UpdateSdr(0, m.num, m.value)
    BY <1>4, SameUpdate DEF Update
  <2>2. SdrP!IInv'
    BY <1>1, <2>1, ComponentAssumptions, SdrP!UpdateSdrKeeps DEF SdrP!UpdateSdrKeeps
  <2>3. \A k : /\ SdrP!FirstMatch(0, k)' = SdrP!FirstMatch(0, k)
               /\ SdrP!SensorReading(0, k)' =
                    IF k = m.num /\ SdrP!FirstMatch(0, m.num) # {}
                       THEN {m.value} ELSE SdrP!SensorReading(0, k)
    BY <1>1, <2>1, ComponentAssumptions, SdrP!UpdateWrites DEF SdrP!UpdateWrites
  <2>4. reply'.cc \in {"silent", "OK"} /\ (reply'.cc # "silent" => Stored(m.num))
    BY <1>4 DEF Update, Lan!OtherCommand, Lan!Unanswered, Lan!Drop, Lan!Answer, Lan!AnswerOn,
       Lan!Reply, Lan!Silent
  <2> QED
    BY <1>4, <2>2, <2>3, <2>4, SameMatches DEF Stored
<1> QED
  BY <1>2, <1>3, <1>4 DEF Dispatch

LEMMA DispatchKeepsMM == ASSUME MMInv, NEW m \in RequestT, Dispatch(m) PROVE MMInv'
  BY DispatchKeepsLan, DispatchRecords DEF MMInv

LEMMA EraseKeepsMM == ASSUME MMInv, Erase PROVE MMInv'
<1>1. Lan!Unanswered
  BY DEF Erase, tableVars, Lan!Unanswered, Lan!Drop
<1>2. SdrP!ClearSdrRepository(0)
  BY SameClear DEF Erase
<1>3. SdrP!IInv'
  BY <1>2, ComponentAssumptions, SdrP!ClearSdrRepositoryKeeps
     DEF SdrP!ClearSdrRepositoryKeeps, MMInv
<1> QED
  BY <1>1, <1>3, UnansweredKeepsMM DEF MMInv

(* To the session layer the end of the process is one of its own ends. *)
LEMMA MMStopsKeepsMM == ASSUME MMInv, MMStops PROVE MMInv'
<1>1. LanP!NoSid \in LanP!Sids
  BY ChassisAssumption DEF LanP!NoSid, LanP!Sids
<1>2. LanP!CloseWithoutSession(LanP!NoSid)
  <2>1. LanP!SidToSession(LanP!NoSid) = {}
    BY DEF LanP!SidToSession, LanP!Active, LanP!Slots, LanP!NoSid
  <2>2. reply' = LanP!Silent
    BY DEF MMStops, Lan!Silent, LanP!Silent, Lan!Reply, LanP!Reply, Lan!NoSid, LanP!NoSid
  <2> QED
    BY <2>1, <2>2 DEF MMStops, LanP!CloseWithoutSession, LanP!Drop
<1>3. LanP!IInv'
  BY <1>1, <1>2, ComponentAssumptions, LanP!AnswersKeep DEF LanP!AnswersKeep, MMInv
<1>4. UNCHANGED SdrP!sdrVars
  BY DEF MMStops, sdrVars, SdrP!sdrVars
<1>5. SdrP!IInv'
  BY <1>4, ComponentAssumptions, SdrP!StutterKeeps DEF SdrP!StutterKeeps, MMInv
<1> QED
  BY <1>3, <1>5 DEF MMInv

LEMMA MMInit == LanP!Init /\ SdrP!Init => MMInv
  BY ComponentAssumptions, LanP!InitEstablishes, SdrP!InitEstablishes
     DEF LanP!InitEstablishes, SdrP!InitEstablishes, MMInv

LEMMA MMInitNext == LanP!Init' /\ SdrP!Init' => MMInv'
  BY MMInit, PTL

LEMMA InitEstablishesMM == Init => MMInv
<1> SUFFICES ASSUME Init PROVE LanP!Init /\ SdrP!Init
  BY MMInit
<1>1. LanP!Init
  BY DEF Init, Lan!Init, LanP!Init, Lan!Slots, LanP!Slots, Lan!ZeroSession, LanP!ZeroSession,
     Lan!Silent, LanP!Silent, Lan!Reply, LanP!Reply, Lan!NoSid, LanP!NoSid
<1>2. SdrP!Init
  BY DEF Init, Sdr!Init, SdrP!Init
<1> QED
  BY <1>1, <1>2

(* A process of the MM begins as the first one did. *)
LEMMA MMStartsKeepsMM == ASSUME MMStarts PROVE MMInv'
<1>1. LanP!Init'
  BY DEF MMStarts, LanP!Init, Lan!Slots, LanP!Slots, Lan!ZeroSession, LanP!ZeroSession,
     Lan!Silent, LanP!Silent, Lan!Reply, LanP!Reply, Lan!NoSid, LanP!NoSid
<1>2. SdrP!Init'
  <2>1. Len(<<>>) = 0
    OBVIOUS
  <2>2. heap' = [n \in 1 .. Len(<<>>) |->
                   [recordId |-> n, lun |-> 0, sensNum |-> <<>>[n], value |-> 0,
                    next |-> IF n < Len(<<>>) THEN n + 1 ELSE 0]]
    BY <2>1 DEF MMStarts
  <2> QED
    BY <2>1, <2>2 DEF MMStarts, SdrP!Init
<1> QED
  BY <1>1, <1>2, MMInitNext

-----------------------------------------------------------------------------
(* The program of a card and its datagrams. *)
LEMMA Numbers ==
    /\ FirstAdd = 5 /\ FirstPoll = 5 + PerCard /\ PerCard \in 1 .. 15
    /\ Exchanges = 1 .. 4 + 2 * PerCard
  BY ChassisAssumption DEF FirstAdd, FirstPoll, Exchanges, StateTable

LEMMA Steps ==
    ASSUME NEW n \in Exchanges
    PROVE  /\ n \in Int
           /\ Following(n) \in Exchanges
           /\ n < FirstPoll => Following(n) = n + 1
           /\ n >= FirstPoll => Following(n) >= FirstPoll
           /\ n >= 3 => Following(n) >= 3
           /\ Following(n) <= 3 => n <= 3
           /\ Cmd(n) \in Commands
           /\ Cmd(n) = "add" <=> n >= FirstAdd
           /\ Cmd(n) = "activate" <=> n = 3
           /\ n >= FirstAdd => Sensor(n) \in 1 .. PerCard
<1>1. n \in 1 .. 4 + 2 * PerCard
  BY Numbers
<1>2. CASE n < FirstAdd
  <2>1. n \in {1, 2, 3, 4} /\ Cmd(n) = StateTable[n]
    BY <1>1, <1>2, Numbers DEF Cmd
  <2>2. /\ StateTable[1] = "caps" /\ StateTable[2] = "challenge"
        /\ StateTable[3] = "activate" /\ StateTable[4] = "privilege"
    BY DEF StateTable
  <2> QED
    BY <1>2, <2>1, <2>2, Numbers DEF Commands, Following
<1>3. CASE n >= FirstAdd
  BY <1>1, <1>3, Numbers DEF Commands, Cmd, Following, Sensor
<1> QED
  BY <1>1, <1>2, <1>3, Numbers

LEMMA SensorNumType ==
    ASSUME NEW c \in Cards, NEW i \in Nat PROVE SensorNum(c, i) \in Nat
  BY ChassisAssumption DEF SensorNum

ReplyT == [card : Cards, cmd : Commands, cc : Lan!Codes \ {"silent"}, data : Lan!Sids,
           copy : BOOLEAN]

CardT ==
    /\ life \in [Cards -> Nat \ {0}]
    /\ at \in [Cards -> Exchanges]
    /\ pc \in [Cards -> {"ready", "again", "waiting", "dead"}]
    /\ tries \in [Cards -> 0 .. MAX_RETRIES - 1]
    /\ ctx \in [Cards -> [temp : Lan!Sids, sid : Lan!Sids]]
    /\ value \in [Cards -> [1 .. PerCard -> Values \cup {0}]]
    /\ stale \subseteq Cards
    /\ faults \subseteq {"lost", "repeated", "erased", "mmrestarted", "late"}

(* A request of the start its card is in. *)
Current(m) == m.life = life[m.card]

WireOK ==
    /\ \A m \in requests :
          /\ m \in RequestT /\ m.life <= life[m.card]
          /\ Current(m) /\ m.cmd = "activate" => at[m.card] >= 3
    /\ \A r \in replies :
          /\ r \in ReplyT
          /\ r.cmd = "activate" => at[r.card] >= 3
          /\ r.cmd = "add" => r.cc = "OK"

WInv == MMInv /\ CardT /\ WireOK

LEMMA WhereCardIs ==
    ASSUME CardT, NEW c \in Cards
    PROVE  /\ at[c] \in Exchanges /\ at[c] \in Int /\ FirstPoll \in Int /\ FirstAdd = 5
           /\ FirstPoll > FirstAdd
           /\ Following(at[c]) \in Exchanges /\ Following(at[c]) \in Int
           /\ Cmd(at[c]) \in Commands
           /\ Cmd(at[c]) = "add" <=> at[c] >= FirstAdd
           /\ Cmd(at[c]) = "activate" <=> at[c] = 3
           /\ Cmd(at[c]) = "activate" => at[c] >= 3
           /\ at[c] >= FirstAdd => Sensor(at[c]) \in 1 .. PerCard
<1> DEFINE n == at[c]
<1>1. n \in Exchanges
  BY DEF CardT
<1> HIDE DEF n
<1>2. Following(n) \in Exchanges /\ \A m \in Exchanges : m \in Int
  BY <1>1, Steps
<1>3. n \in Int /\ Following(n) \in Int /\ FirstPoll \in Int /\ FirstAdd = 5
      /\ FirstPoll > FirstAdd
  BY <1>1, <1>2, Numbers
<1> QED
  BY <1>1, <1>2, <1>3, Steps DEF n

LEMMA RequestType ==
    ASSUME CardT, NEW c \in Cards, NEW v \in Values \cup {0}
    PROVE  /\ Request(c, v) \in RequestT
           /\ Request(c, v).card = c /\ Request(c, v).life = life[c]
           /\ Request(c, v).cmd = Cmd(at[c]) /\ Request(c, v).value = v
           /\ at[c] >= FirstAdd => Request(c, v).num = SensorNum(c, Sensor(at[c]))
<1>1. at[c] \in Exchanges /\ at[c] \in Int /\ Cmd(at[c]) \in Commands
      /\ (at[c] >= FirstAdd => Sensor(at[c]) \in 1 .. PerCard)
  BY Steps DEF CardT
<1>2. HeaderSid(c, at[c]) \in Lan!Sids
  BY SidTypes DEF CardT, HeaderSid
<1>3. (IF at[c] < FirstAdd THEN 0 ELSE SensorNum(c, Sensor(at[c]))) \in Nat
  BY <1>1, SensorNumType, Numbers
<1> QED
  BY <1>1, <1>2, <1>3, Numbers DEF Request, RequestT, CardT

(* A card moves on, or stays where it is to send again or to end. *)
Stays(c) ==
    /\ UNCHANGED at /\ tries' \in [Cards -> 0 .. MAX_RETRIES - 1]
    /\ \E p \in {"again", "dead"} : pc' = [pc EXCEPT ![c] = p]

LEMMA RefusedMoves ==
    ASSUME CardT, NEW c \in Cards, Refused(c)
    PROVE  (Stays(c) \/ (at[c] >= FirstPoll /\ Proceed(c))) /\ UNCHANGED ctx
<1>1. at[c] \in Int /\ tries[c] \in Nat /\ MAX_RETRIES \in Nat
  <2>1. at[c] \in Exchanges /\ tries[c] \in 0 .. MAX_RETRIES - 1
    BY DEF CardT
  <2> QED
    BY <2>1, Numbers, ChassisAssumption
<1>2. CASE pc' = [pc EXCEPT ![c] = "again"] /\ tries[c] + 1 < MAX_RETRIES
           /\ tries' = [tries EXCEPT ![c] = @ + 1] /\ UNCHANGED at
  <2>1. tries' \in [Cards -> 0 .. MAX_RETRIES - 1]
    BY <1>1, <1>2 DEF CardT
  <2> QED
    BY <1>2, <2>1 DEF Stays, Refused
<1>3. CASE pc' = [pc EXCEPT ![c] = "dead"] /\ UNCHANGED <<at, tries>>
  BY <1>3 DEF Stays, CardT, Refused
<1> QED
  BY <1>1, <1>2, <1>3, Numbers DEF Refused

LEMMA MovesTyped ==
    ASSUME CardT, NEW c \in Cards, Stays(c) \/ Proceed(c)
    PROVE  /\ at' \in [Cards -> Exchanges]
           /\ pc' \in [Cards -> {"ready", "again", "waiting", "dead"}]
           /\ tries' \in [Cards -> 0 .. MAX_RETRIES - 1]
           /\ \A d \in Cards : d # c => at'[d] = at[d] /\ pc'[d] = pc[d]
           /\ \A d \in Cards : at[d] >= 3 => at'[d] >= 3
           /\ \A d \in Cards : at'[d] <= 3 => at[d] <= 3
<1>1. /\ at[c] \in Exchanges /\ at[c] \in Int /\ Following(at[c]) \in Exchanges
      /\ Following(at[c]) \in Int
      /\ at[c] >= 3 => Following(at[c]) >= 3
      /\ Following(at[c]) <= 3 => at[c] <= 3
  <2>1. at[c] \in Exchanges
    BY DEF CardT
  <2> QED
    BY <2>1, Steps
<1>2. /\ at' \in [Cards -> Exchanges]
      /\ pc' \in [Cards -> {"ready", "again", "waiting", "dead"}]
      /\ tries' \in [Cards -> 0 .. MAX_RETRIES - 1]
      /\ \A d \in Cards : d # c => at'[d] = at[d] /\ pc'[d] = pc[d]
      /\ at'[c] = at[c] \/ at'[c] = Following(at[c])
  <2>1. CASE Stays(c)
    BY <2>1 DEF CardT, Stays
  <2>2. CASE Proceed(c)
    <3>1. 0 \in 0 .. MAX_RETRIES - 1
      BY ChassisAssumption
    <3> QED
      BY <1>1, <2>2, <3>1 DEF CardT, Proceed
  <2> QED
    BY <2>1, <2>2
<1> QED
  BY <1>1, <1>2

LEMMA KeepsWire ==
    ASSUME CardT, WireOK, UNCHANGED life,
           \A d \in Cards : at[d] >= 3 => at'[d] >= 3,
           \A m \in requests' :
              \/ m \in requests
              \/ /\ m \in RequestT /\ m.life <= life[m.card]
                 /\ Current(m) /\ m.cmd = "activate" => at'[m.card] >= 3,
           \A r \in replies' :
              \/ r \in replies
              \/ /\ r \in ReplyT
                 /\ r.cmd = "activate" => at'[r.card] >= 3
                 /\ r.cmd = "add" => r.cc = "OK"
    PROVE  WireOK'
<1>1. ASSUME NEW m \in requests' PROVE m \in RequestT /\ m.life <= life'[m.card]
               /\ (m.life = life'[m.card] /\ m.cmd = "activate" => at'[m.card] >= 3)
  BY <1>1 DEF WireOK, RequestT, Current
<1>2. ASSUME NEW r \in replies' PROVE r \in ReplyT
               /\ (r.cmd = "activate" => at'[r.card] >= 3) /\ (r.cmd = "add" => r.cc = "OK")
  BY <1>2 DEF WireOK, ReplyT
<1> QED
  BY <1>1, <1>2 DEF WireOK, Current, RequestT, ReplyT

(* A copy of a datagram says what the datagram says. *)
LEMMA CopyOf ==
    /\ \A m \in RequestT :
          /\ [m EXCEPT !.copy = TRUE] \in RequestT
          /\ [m EXCEPT !.copy = TRUE].card = m.card
          /\ [m EXCEPT !.copy = TRUE].life = m.life
          /\ [m EXCEPT !.copy = TRUE].cmd = m.cmd
          /\ [m EXCEPT !.copy = TRUE].num = m.num
          /\ [m EXCEPT !.copy = TRUE].value = m.value
    /\ \A r \in ReplyT :
          /\ [r EXCEPT !.copy = TRUE] \in ReplyT
          /\ [r EXCEPT !.copy = TRUE].card = r.card
          /\ [r EXCEPT !.copy = TRUE].cmd = r.cmd
          /\ [r EXCEPT !.copy = TRUE].cc = r.cc
  BY DEF RequestT, ReplyT

(* What a card's new request is. *)
Sent(c) == Request(c, IF at[c] < FirstPoll THEN 0 ELSE value'[c][Sensor(at[c])])

Sends(c) ==
    /\ pc[c] \in {"ready", "again"}
    /\ pc' = [pc EXCEPT ![c] = "waiting"]
    /\ value' \in [Cards -> [1 .. PerCard -> Values \cup {0}]]
    /\ \A d \in Cards : d # c => value'[d] = value[d]
    /\ \A i \in 1 .. PerCard : value'[c][i] # value[c][i] =>
          at[c] >= FirstPoll /\ i = Sensor(at[c]) /\ pc[c] = "ready"
    /\ Sent(c) \in RequestT
    /\ requests' = requests \cup {Sent(c)}
    /\ MMRests
    /\ UNCHANGED <<life, at, tries, ctx, replies, stale, faults>>

LEMMA SendShape ==
    ASSUME CardT, NEW c \in Cards, Send(c) \/ \E v \in Values : PollSensor(c, v)
    PROVE  Sends(c)
<1>1. at[c] \in Exchanges /\ at[c] \in Int
      /\ (at[c] >= FirstPoll => at[c] >= FirstAdd /\ Sensor(at[c]) \in 1 .. PerCard)
  BY WhereCardIs
<1>2. FirstPoll \in Int
  BY Numbers
<1>3. CASE Send(c)
  <2> DEFINE v == IF at[c] < FirstPoll THEN 0 ELSE value[c][Sensor(at[c])]
  <2>1. value' = value /\ v \in Values \cup {0}
    <3>1. value[c] \in [1 .. PerCard -> Values \cup {0}]
      BY DEF CardT
    <3>2. at[c] >= FirstPoll => value[c][Sensor(at[c])] \in Values \cup {0}
      BY <1>1, <3>1
    <3> QED
      BY <1>1, <1>2, <1>3, <3>2 DEF Send
  <2>2. Sent(c) = Request(c, v)
    BY <2>1 DEF Sent
  <2>3. Request(c, v) \in RequestT
    BY <2>1, RequestType
  <2> QED
    BY <1>3, <2>1, <2>2, <2>3 DEF Send, Sends, CardT
<1>4. ASSUME NEW v \in Values, PollSensor(c, v) PROVE Sends(c)
  <2>1. /\ value' \in [Cards -> [1 .. PerCard -> Values \cup {0}]]
        /\ value'[c][Sensor(at[c])] = v
        /\ \A d \in Cards : d # c => value'[d] = value[d]
        /\ \A i \in 1 .. PerCard : value'[c][i] # value[c][i] => i = Sensor(at[c])
    <3>1. value \in [Cards -> [1 .. PerCard -> Values \cup {0}]]
      BY DEF CardT
    <3>2. value[c] \in [1 .. PerCard -> Values \cup {0}]
      BY <3>1
    <3> DEFINE i == Sensor(at[c])
               w == [value[c] EXCEPT ![i] = v]
    <3>3. i \in 1 .. PerCard /\ value' = [value EXCEPT ![c] = w]
      BY <1>1, <1>4 DEF PollSensor
    <3> HIDE DEF i
    <3>4. w \in [1 .. PerCard -> Values \cup {0}] /\ w[i] = v
          /\ \A j \in 1 .. PerCard : w[j] # value[c][j] => j = i
      BY <3>2, <3>3
    <3> HIDE DEF w
    <3>5. /\ value' \in [Cards -> [1 .. PerCard -> Values \cup {0}]]
          /\ value'[c] = w /\ \A d \in Cards : d # c => value'[d] = value[d]
      BY <3>1, <3>3, <3>4
    <3> QED
      BY <3>4, <3>5 DEF i
  <2>2. Sent(c) = Request(c, v)
    BY <1>1, <1>2, <1>4, <2>1 DEF Sent, PollSensor
  <2>3. Request(c, v) \in RequestT
    BY RequestType
  <2> QED
    BY <1>4, <2>1, <2>2, <2>3 DEF PollSensor, Sends
<1> QED
  BY <1>3, <1>4

LEMMA SendKeepsW == ASSUME WInv, NEW c \in Cards, Sends(c) PROVE WInv'
<1>1. CardT'
  BY DEF WInv, CardT, Sends
<1>2. /\ Sent(c) \in RequestT /\ Sent(c).life = life[Sent(c).card]
      /\ Sent(c).card = c /\ Sent(c).cmd = Cmd(at[c])
  BY DEF Sends, Sent, Request
<1>3. Sent(c).cmd = "activate" => at[c] >= 3
  BY <1>2, WhereCardIs DEF WInv
<1>4. Sent(c).life <= life[Sent(c).card]
  BY <1>2 DEF WInv, CardT
<1>5. WireOK'
  BY <1>2, <1>3, <1>4, KeepsWire DEF WInv, Sends
<1> QED
  BY <1>1, <1>5, RestKeepsMM DEF WInv, Sends

(* The reply to request m. *)
Answer(m) == [card |-> m.card, cmd |-> m.cmd, cc |-> reply'.cc, data |-> reply'.data,
              copy |-> FALSE]

Answers(m) == Current(m) /\ reply'.cc # "silent" /\ replies' = replies \cup {Answer(m)}

LEMMA HandleShape ==
    ASSUME NEW m \in RequestT, Handle(m)
    PROVE  /\ up /\ Dispatch(m) /\ UNCHANGED <<life, at, pc, tries, ctx, value, stale>>
           /\ Answers(m) \/ (UNCHANGED replies /\ (Current(m) => reply'.cc = "silent"))
  BY DEF Handle, cardVars, Answers, Answer, Current

LEMMA HandleKeepsW ==
    ASSUME WInv, NEW m \in requests, Handle(m),
           requests' \subseteq requests \cup {[m EXCEPT !.copy = TRUE]},
           faults' \subseteq {"lost", "repeated", "erased", "mmrestarted", "late"}
    PROVE  WInv'
<1>1. m \in RequestT /\ m.life <= life[m.card] /\ MMInv /\ CardT /\ WireOK
      /\ (Current(m) /\ m.cmd = "activate" => at[m.card] >= 3)
  BY DEF WInv, WireOK
<1>2. /\ Dispatch(m) /\ UNCHANGED <<life, at, pc, tries, ctx, value, stale>>
      /\ Answers(m) \/ UNCHANGED replies
  BY <1>1, HandleShape
<1>3. MMInv'
  BY <1>1, <1>2, DispatchKeepsMM
<1>4. CardT'
  BY <1>1, <1>2 DEF CardT
<1> DEFINE copy == [m EXCEPT !.copy = TRUE]
<1>5. /\ copy \in RequestT /\ copy.card = m.card /\ copy.life = m.life /\ copy.cmd = m.cmd
  BY <1>1, CopyOf
<1> HIDE DEF copy
<1>6. Answers(m) => Answer(m) \in ReplyT /\ Answer(m).card = m.card
                    /\ Answer(m).cmd = m.cmd /\ (m.cmd = "add" => Answer(m).cc = "OK")
  <2>1. reply'.cc \in Lan!Codes /\ reply'.data \in Lan!Sids
    BY <1>3, MMReplyNext
  <2>2. m.cmd = "add" => reply'.cc \in {"silent", "OK"}
    BY <1>1, <1>2, DispatchRecords
  <2> QED
    BY <1>1, <2>1, <2>2 DEF Answers, Answer, ReplyT, RequestT
<1>7. /\ \A q \in requests' : q \in requests \/ q = copy
      /\ \A r \in replies' : r \in replies \/ (r = Answer(m) /\ Answers(m))
  BY <1>2 DEF Answers, copy
<1>8. Answers(m) => Current(m)
  BY DEF Answers
<1>9. Current(copy) <=> Current(m)
  BY <1>5 DEF Current
<1>10. WireOK'
  BY <1>1, <1>2, <1>5, <1>6, <1>7, <1>8, <1>9, KeepsWire
<1> QED
  BY <1>3, <1>4, <1>10 DEF WInv

LEMMA ReceiveKeepsW ==
    ASSUME WInv, NEW c \in Cards, NEW r \in replies, Receive(c, r),
           replies' \subseteq replies \cup {[r EXCEPT !.copy = TRUE]},
           faults' \subseteq {"lost", "repeated", "erased", "mmrestarted", "late"}
    PROVE  WInv'
<1>1. r \in ReplyT /\ MMInv /\ CardT /\ WireOK
  BY DEF WInv, WireOK
<1>2. Stays(c) \/ Proceed(c)
  BY <1>1, RefusedMoves DEF Receive
<1>3. ctx' \in [Cards -> [temp : Lan!Sids, sid : Lan!Sids]]
  <2>1. UNCHANGED ctx \/ ctx' = [ctx EXCEPT ![c] = NewCtx(c, r)]
    BY DEF Receive, Refused
  <2>2. ctx \in [Cards -> [temp : Lan!Sids, sid : Lan!Sids]] /\ r.data \in Lan!Sids
    BY <1>1 DEF CardT, ReplyT
  <2>3. NewCtx(c, r) \in [temp : Lan!Sids, sid : Lan!Sids]
    BY <2>2 DEF NewCtx
  <2> QED
    BY <2>1, <2>2, <2>3
<1>4. UNCHANGED <<life, value, requests, stale>> /\ MMRests
  BY DEF Receive
<1>5. CardT' /\ \A d \in Cards : at[d] >= 3 => at'[d] >= 3
  BY <1>1, <1>2, <1>3, <1>4, MovesTyped DEF CardT
<1>6. MMInv'
  BY <1>1, <1>4, RestKeepsMM
<1> DEFINE copy == [r EXCEPT !.copy = TRUE]
<1>7. copy \in ReplyT /\ copy.card = r.card /\ copy.cmd = r.cmd /\ copy.cc = r.cc
  BY <1>1, CopyOf
<1>8. \A q \in replies' : q \in replies \/ q = copy
  BY DEF copy
<1> HIDE DEF copy
<1>9. /\ r.cmd = "activate" => at'[r.card] >= 3
      /\ r.cmd = "add" => r.cc = "OK"
  BY <1>1, <1>5 DEF WireOK, ReplyT
<1>10. WireOK'
  BY <1>1, <1>4, <1>5, <1>7, <1>8, <1>9, KeepsWire
<1> QED
  BY <1>5, <1>6, <1>10 DEF WInv

(* A card learns that the MM is not there, from the request it waits for. *)
LEMMA UnreachableShape ==
    ASSUME CardT, NEW c \in Cards, Unreachable(c)
    PROVE  /\ ~up /\ MMRests /\ UNCHANGED <<life, value, ctx, replies, stale, faults>>
           /\ \E m \in requests :
                 /\ m.card = c /\ requests' = requests \ {m}
                 /\ \/ /\ Current(m) /\ pc[c] = "waiting"
                       /\ Stays(c) \/ (at[c] >= FirstPoll /\ Proceed(c))
                    \/ UNCHANGED <<at, pc, tries>>
  BY RefusedMoves DEF Unreachable, Current

LEMMA UnreachableKeepsW == ASSUME WInv, NEW c \in Cards, Unreachable(c) PROVE WInv'
<1>1. MMInv /\ CardT /\ WireOK
  BY DEF WInv
<1>2. /\ MMRests /\ UNCHANGED <<life, value, ctx, replies, stale, faults>>
      /\ requests' \subseteq requests
      /\ Stays(c) \/ Proceed(c) \/ UNCHANGED <<at, pc, tries>>
  BY <1>1, UnreachableShape
<1>3. CardT' /\ \A d \in Cards : at[d] >= 3 => at'[d] >= 3
  BY <1>1, <1>2, MovesTyped DEF CardT
<1>4. WireOK'
  BY <1>1, <1>2, <1>3, KeepsWire
<1> QED
  BY <1>1, <1>2, <1>3, <1>4, RestKeepsMM DEF WInv

LEMMA RestartKeepsW == ASSUME WInv, NEW c \in Cards, Restart(c) PROVE WInv'
<1>1. MMInv /\ CardT /\ WireOK
  BY DEF WInv
<1>2. /\ life' = [life EXCEPT ![c] = @ + 1] /\ at' = [at EXCEPT ![c] = 1]
      /\ pc' = [pc EXCEPT ![c] = "ready"] /\ tries' = [tries EXCEPT ![c] = 0]
      /\ ctx' = [ctx EXCEPT ![c] = NoCtx]
      /\ value' = [value EXCEPT ![c] = [i \in 1 .. PerCard |-> 0]]
      /\ replies' = {r \in replies : r.card # c} /\ stale' \subseteq stale
      /\ MMRests /\ UNCHANGED <<requests, faults>>
  BY DEF Restart
<1>3. CardT'
  <2>1. 1 \in Exchanges /\ 0 \in 0 .. MAX_RETRIES - 1
    BY Numbers, ChassisAssumption
  <2>2. NoCtx \in [temp : Lan!Sids, sid : Lan!Sids]
    BY SidTypes DEF NoCtx
  <2> QED
    BY <1>1, <1>2, <2>1, <2>2 DEF CardT
<1>4. ASSUME NEW m \in requests
      PROVE  /\ m \in RequestT /\ m.life <= life'[m.card]
             /\ m.life = life'[m.card] => m.card # c /\ m.life = life[m.card]
  BY <1>1, <1>2 DEF WireOK, RequestT, CardT
<1>5. \A d \in Cards : d # c => at'[d] = at[d]
  BY <1>1, <1>2 DEF CardT
<1>6. WireOK'
  <2>1. ASSUME NEW m \in requests' PROVE m \in RequestT /\ m.life <= life'[m.card]
                 /\ (m.life = life'[m.card] /\ m.cmd = "activate" => at'[m.card] >= 3)
    BY <1>1, <1>2, <1>4, <1>5, <2>1 DEF WireOK, RequestT, Current
  <2>2. ASSUME NEW r \in replies' PROVE r \in ReplyT
                 /\ (r.cmd = "activate" => at'[r.card] >= 3) /\ (r.cmd = "add" => r.cc = "OK")
    BY <1>1, <1>2, <1>5, <2>2 DEF WireOK, ReplyT
  <2> QED
    BY <2>1, <2>2 DEF WireOK, Current, RequestT, ReplyT
<1> QED
  BY <1>1, <1>2, <1>3, <1>6, RestKeepsMM DEF WInv

(* Datagrams that stay away, and what happens to the MM. *)
LEMMA QuietKeepsW ==
    ASSUME WInv, MMInv', UNCHANGED cardVars, stale' \subseteq Cards,
           requests' \subseteq requests, replies' \subseteq replies,
           faults' \subseteq {"lost", "repeated", "erased", "mmrestarted", "late"}
    PROVE  WInv'
<1>1. CardT /\ WireOK /\ CardT'
  BY DEF WInv, CardT, cardVars
<1>2. WireOK'
  BY <1>1, KeepsWire DEF cardVars
<1> QED
  BY <1>1, <1>2 DEF WInv

LEMMA LoseKeepsW == ASSUME WInv, Lose PROVE WInv'
<1>1. MMInv'
  BY RestKeepsMM DEF WInv, Lose
<1> QED
  BY <1>1, QuietKeepsW DEF Lose, Happens, WInv, CardT

LEMMA EraseKeepsW == ASSUME WInv, Erase PROVE WInv'
<1>1. MMInv'
  BY EraseKeepsMM DEF WInv
<1> QED
  BY <1>1, QuietKeepsW DEF Erase, Happens, WInv, CardT

LEMMA MMStopsKeepsW == ASSUME WInv, MMStops PROVE WInv'
<1>1. MMInv'
  BY MMStopsKeepsMM DEF WInv
<1> QED
  BY <1>1, QuietKeepsW DEF MMStops, Happens, WInv, CardT

LEMMA MMStartsKeepsW == ASSUME WInv, MMStarts PROVE WInv'
<1>1. MMInv'
  BY MMStartsKeepsMM
<1> QED
  BY <1>1, QuietKeepsW DEF MMStarts, WInv, CardT

LEMMA StutterKeepsW == ASSUME WInv, UNCHANGED vars PROVE WInv'
<1>1. LanP!IInv'
  <2>1. UNCHANGED LanP!vars
    BY DEF vars, tableVars, LanP!vars
  <2> QED
    BY <2>1, ComponentAssumptions, LanP!NextKeeps DEF LanP!NextKeeps, WInv, MMInv
<1>2. SdrP!IInv'
  <2>1. UNCHANGED SdrP!sdrVars
    BY DEF vars, sdrVars, SdrP!sdrVars
  <2> QED
    BY <2>1, ComponentAssumptions, SdrP!StutterKeeps DEF SdrP!StutterKeeps, WInv, MMInv
<1> QED
  BY <1>1, <1>2, QuietKeepsW DEF vars, MMInv, WInv, CardT

LEMMA InitEstablishesW == Init => WInv
<1> SUFFICES ASSUME Init PROVE WInv
  OBVIOUS
<1>1. 1 \in Exchanges /\ 0 \in 0 .. MAX_RETRIES - 1
  BY Numbers, ChassisAssumption
<1>2. NoCtx \in [temp : Lan!Sids, sid : Lan!Sids]
  BY SidTypes DEF NoCtx
<1>3. CardT /\ WireOK
  BY <1>1, <1>2 DEF Init, CardT, WireOK
<1> QED
  BY <1>3, InitEstablishesMM DEF WInv

(* A step of the system, with the deliveries that repeat a datagram beside the
   others. *)
Receives(c, r) ==
    /\ Receive(c, r)
    /\ \/ replies' = replies \ {r} /\ UNCHANGED faults
       \/ /\ "repeated" \notin faults /\ faults' = faults \cup {"repeated"}
          /\ replies' = (replies \ {r}) \cup {[r EXCEPT !.copy = TRUE]}

Serves(m) ==
    /\ Handle(m)
    /\ \/ /\ requests' = requests \ {m}
          /\ faults' = IF Current(m) THEN faults ELSE faults \cup {"late"}
       \/ /\ "repeated" \notin faults /\ faults' = faults \cup {"repeated"}
          /\ requests' = (requests \ {m}) \cup {[m EXCEPT !.copy = TRUE]}

LEMMA StepShapes ==
    ASSUME WInv, [Next]_vars
    PROVE  \/ \E c \in Cards : Sends(c) \/ Unreachable(c) \/ Restart(c)
           \/ \E c \in Cards, r \in replies : Receives(c, r)
           \/ \E m \in requests : Serves(m)
           \/ Lose \/ Erase \/ MMStops \/ MMStarts \/ UNCHANGED vars
<1>1. ASSUME NEW c \in Cards, Send(c) \/ \E v \in Values : PollSensor(c, v)
      PROVE  Sends(c)
  BY <1>1, SendShape DEF WInv
<1>2. ASSUME NEW c \in Cards, TakeReply(c) PROVE \E r \in replies : Receives(c, r)
  BY <1>2 DEF TakeReply, Receives
<1>3. ASSUME NEW c \in Cards, TakeRequest(c) PROVE \E m \in requests : Serves(m)
  BY <1>3 DEF TakeRequest, Serves, Current
<1>4. RepeatRequest => \E m \in requests : Serves(m)
  BY DEF RepeatRequest, Serves, Happens
<1>5. RepeatReply => \E c \in Cards, r \in replies : Receives(c, r)
  BY DEF RepeatReply, Receives, Happens
<1> QED
  BY <1>1, <1>2, <1>3, <1>4, <1>5 DEF Next, Run

LEMMA StepKeepsW == WInv /\ [Next]_vars => WInv'
<1> SUFFICES ASSUME WInv, [Next]_vars PROVE WInv'
  OBVIOUS
<1>1. faults \subseteq {"lost", "repeated", "erased", "mmrestarted", "late"}
  BY DEF WInv, CardT
<1>2. ASSUME NEW c \in Cards, NEW r \in replies, Receives(c, r) PROVE WInv'
  BY <1>1, <1>2, ReceiveKeepsW DEF Receives
<1>3. ASSUME NEW m \in requests, Serves(m) PROVE WInv'
  BY <1>1, <1>3, HandleKeepsW DEF Serves
<1> QED
  BY <1>2, <1>3, StepShapes, SendKeepsW, UnreachableKeepsW, RestartKeepsW, LoseKeepsW,
     EraseKeepsW, MMStopsKeepsW, MMStartsKeepsW, StutterKeepsW

-----------------------------------------------------------------------------
(* What holds of the session layer and of the repository when clients send what
   they like holds of the MM among its cards, through faults and restarts. *)
MMConsistent ==
    /\ Lan!ActiveCount /\ Lan!Reachable /\ Lan!PrivBounded /\ Lan!SlotAvailable
    /\ Sdr!PointersAgree /\ Sdr!IdsNeverReused

LEMMA MMFollows == MMInv => MMConsistent
<1> SUFFICES ASSUME MMInv PROVE MMConsistent
  OBVIOUS
<1>1. Lan!Active = LanP!Active /\ Lan!Users = LanP!Users /\ Lan!USER = LanP!USER
  BY DEF Lan!Active, LanP!Active, Lan!Slots, LanP!Slots, Lan!Users, LanP!Users,
         Lan!USER, LanP!USER
<1>2. Lan!ActiveCount /\ Lan!SlotAvailable
  BY <1>1 DEF MMInv, LanP!IInv, Lan!ActiveCount, LanP!ActiveCount,
              Lan!SlotAvailable, LanP!SlotAvailable, Lan!Cardinality, LanP!Cardinality
<1>3. Lan!UserMaxPriv = LanP!UserMaxPriv
  BY <1>1 DEF Lan!UserMaxPriv, LanP!UserMaxPriv, Lan!ADMIN, LanP!ADMIN
<1>4. Lan!PrivBounded
  BY <1>1, <1>3 DEF MMInv, LanP!IInv, Lan!PrivBounded, LanP!PrivBounded
<1>5. Lan!Reachable
  BY <1>1 DEF MMInv, LanP!IInv, LanP!Addressed, LanP!SessionIds, Lan!Reachable, Lan!SidToSession
<1>6. Sdr!PointersAgree
  BY DEF MMInv, SdrP!IInv, Sdr!PointersAgree, SdrP!PointersAgree, Sdr!Live, SdrP!Live
<1>7. DOMAIN heap \subseteq Nat
  BY DEF MMInv, SdrP!IInv, SdrP!TypeOK
<1>8. Sdr!IdsNeverReused
  BY <1>7 DEF MMInv, SdrP!IInv, SdrP!IdsCount, Sdr!IdsNeverReused
<1> QED
  BY <1>2, <1>4, <1>5, <1>6, <1>8 DEF MMConsistent

(* The MM's count of sessions is right, its sessions are reachable under their
   ids at no more than their user's privilege, its list of records is whole and
   no id of a record is given twice, whatever is lost, repeated, late or
   restarted, and for any number of cards (activateSession, addSdrEntry). *)
THEOREM MMStaysConsistent == Spec => []MMConsistent
<1>1. WInv => MMConsistent
  BY MMFollows DEF WInv
<1> QED
  BY <1>1, InitEstablishesW, StepKeepsW, PTL DEF Spec

-----------------------------------------------------------------------------
(* Sets that grow or shrink by an element. *)
LEMMA Fewer ==
    ASSUME NEW S, IsFiniteSet(S), NEW T, T \subseteq S
    PROVE  IsFiniteSet(T) /\ Cardinality(T) \in Nat /\ Cardinality(S) \in Nat
           /\ Cardinality(T) <= Cardinality(S)
  BY FS_Subset, FS_CardinalityType

LEMMA OneMore ==
    ASSUME NEW S, IsFiniteSet(S), NEW x, NEW T, T \subseteq S \cup {x}
    PROVE  IsFiniteSet(T) /\ Cardinality(T) \in Nat /\ Cardinality(S) \in Nat
           /\ Cardinality(T) <= Cardinality(S) + 1
<1>1. /\ IsFiniteSet(S \cup {x}) /\ Cardinality(S) \in Nat
      /\ Cardinality(S \cup {x}) = IF x \in S THEN Cardinality(S) ELSE Cardinality(S) + 1
  BY FS_AddElement, FS_CardinalityType
<1>2. /\ IsFiniteSet(T) /\ Cardinality(T) \in Nat /\ Cardinality(S \cup {x}) \in Nat
      /\ Cardinality(T) <= Cardinality(S \cup {x})
  BY <1>1, Fewer
<1> QED
  BY <1>1, <1>2

LEMMA OneLess ==
    ASSUME NEW S, IsFiniteSet(S), NEW x \in S, NEW T, T \subseteq S \ {x}
    PROVE  IsFiniteSet(T) /\ Cardinality(T) \in Nat /\ Cardinality(S) \in Nat
           /\ Cardinality(T) + 1 <= Cardinality(S)
<1>1. /\ IsFiniteSet(S \ {x}) /\ Cardinality(S) \in Nat
      /\ Cardinality(S \ {x}) = Cardinality(S) - 1
  BY FS_RemoveElement, FS_CardinalityType
<1>2. IsFiniteSet(T) /\ Cardinality(T) \in Nat /\ Cardinality(T) <= Cardinality(S \ {x})
  BY <1>1, Fewer
<1> QED
  BY <1>1, <1>2

LEMMA OneForAnother ==
    ASSUME NEW S, IsFiniteSet(S), NEW x \in S, NEW y, NEW T, T \subseteq (S \ {x}) \cup {y}
    PROVE  IsFiniteSet(T) /\ Cardinality(T) \in Nat /\ Cardinality(S) \in Nat
           /\ Cardinality(T) <= Cardinality(S)
<1>1. IsFiniteSet(S \ {x}) /\ Cardinality(S \ {x}) + 1 <= Cardinality(S)
      /\ Cardinality(S) \in Nat /\ Cardinality(S \ {x}) \in Nat
  BY OneLess
<1>2. IsFiniteSet(T) /\ Cardinality(T) \in Nat /\ Cardinality(T) <= Cardinality(S \ {x}) + 1
  BY <1>1, OneMore
<1> QED
  BY <1>1, <1>2


-----------------------------------------------------------------------------
(* The sessions of the MM. Every start of a card is worth one: it is still to
   be asked for by the card, or by a request under way, or was refused by a
   reply under way, or is one of the MM's. A datagram that is repeated is worth
   one more. *)
Ready == {c \in Cards : at[c] <= 3 /\ pc[c] \in {"ready", "again"}}
Asking == {m \in requests : m.cmd = "activate" \/ (Current(m) /\ at[m.card] <= 3)}
Refusing == {r \in replies : at[r.card] <= 3 /\ ~(r.cmd = "activate" /\ r.cc = "OK")}

Spare == IF "repeated" \in faults THEN 1 ELSE 0

SlotsBound ==
    activeSessions + Cardinality(Ready) + Cardinality(Asking) + Cardinality(Refusing)
       <= Starts + Spare

Finite == IsFiniteSet(requests) /\ IsFiniteSet(replies) /\ IsFiniteSet(StartsOfCards)

LifeBound == \A c \in Cards : life[c] + Cardinality(Cards) <= Starts + 1

TInv == WInv /\ Finite /\ LifeBound /\ SlotsBound

LEMMA CardsFinite == IsFiniteSet(Cards) /\ Cardinality(Cards) \in Nat
<1> DEFINE b == 255
<1>1. b \in Int /\ 1 \in Int /\ Cards \subseteq 1 .. b
  BY ChassisAssumption
<1> HIDE DEF b
<1>2. IsFiniteSet(1 .. b)
  BY <1>1, FS_Interval, Zenon
<1> QED
  BY <1>1, <1>2, Fewer

LEMMA SessionCount == MMInv => activeSessions \in Nat
<1> SUFFICES ASSUME MMInv PROVE activeSessions \in Nat
  OBVIOUS
<1>1. activeSessions \in 0 .. MaxSessions
  BY SameTypes DEF MMInv, LanP!IInv, Lan!TypeOK
<1> QED
  BY <1>1, ChassisAssumption

LEMMA SessionCountNext == MMInv' => activeSessions' \in Nat
<1>1. MMInv' => (activeSessions \in Nat)'
  BY SessionCount, PTL
<1> QED
  BY <1>1

LEMMA Counts ==
    ASSUME TInv
    PROVE  /\ Cardinality(Ready) \in Nat /\ Cardinality(Asking) \in Nat
           /\ Cardinality(Refusing) \in Nat /\ Starts \in Nat /\ Spare \in {0, 1}
           /\ IsFiniteSet(Ready) /\ IsFiniteSet(Asking) /\ IsFiniteSet(Refusing)
           /\ activeSessions \in Nat
<1>1. Ready \subseteq Cards /\ Asking \subseteq requests /\ Refusing \subseteq replies
  BY DEF Ready, Asking, Refusing
<1>2. Starts \in Nat
  BY FS_CardinalityType DEF TInv, Finite, Starts
<1> QED
  BY <1>1, <1>2, Fewer, CardsFinite, SessionCount DEF TInv, Finite, WInv, Spare

(* What a step has to show when no card is started by it. *)
LEMMA Traded ==
    ASSUME TInv, WInv', UNCHANGED life, IsFiniteSet(requests'), IsFiniteSet(replies'),
           activeSessions' + Cardinality(Ready') + Cardinality(Asking') + Cardinality(Refusing')
              + Spare
           <= activeSessions + Cardinality(Ready) + Cardinality(Asking) + Cardinality(Refusing)
              + Spare',
           Cardinality(Ready') \in Nat, Cardinality(Asking') \in Nat,
           Cardinality(Refusing') \in Nat
    PROVE  TInv'
<1>1. StartsOfCards' = StartsOfCards
  BY DEF StartsOfCards
<1>2. Starts' = Starts
  BY <1>1 DEF Starts
<1>3. Spare \in Nat /\ Spare' \in Nat
  BY DEF Spare
<1>4. LifeBound'
  BY <1>2 DEF TInv, LifeBound
<1>5. activeSessions' \in Nat
  BY SessionCountNext DEF WInv
<1>6. SlotsBound'
  BY <1>2, <1>3, <1>5, Counts DEF TInv, SlotsBound
<1> QED
  BY <1>1, <1>4, <1>6 DEF TInv, Finite

(* Nothing is asked for. *)
LEMMA NothingTraded ==
    ASSUME TInv, WInv', UNCHANGED life, requests' \subseteq requests, replies' \subseteq replies,
           activeSessions' <= activeSessions, activeSessions' \in Nat, faults \subseteq faults',
           Ready' \subseteq Ready, Asking' \subseteq Asking, Refusing' \subseteq Refusing
    PROVE  TInv'
<1>1. IsFiniteSet(requests') /\ IsFiniteSet(replies')
  BY Fewer DEF TInv, Finite
<1>2. /\ Cardinality(Ready') <= Cardinality(Ready) /\ Cardinality(Ready') \in Nat
      /\ Cardinality(Asking') <= Cardinality(Asking) /\ Cardinality(Asking') \in Nat
      /\ Cardinality(Refusing') <= Cardinality(Refusing) /\ Cardinality(Refusing') \in Nat
  <2>1. IsFiniteSet(Ready) /\ IsFiniteSet(Asking) /\ IsFiniteSet(Refusing)
    BY Counts
  <2> QED
    BY <2>1, Fewer
<1>3. Spare \in Nat /\ Spare' \in Nat /\ Spare <= Spare'
  BY DEF Spare
<1> QED
  BY <1>1, <1>2, <1>3, Counts, Traded

(* A card asks by a request. *)
LEMMA SendTrades == ASSUME TInv, NEW c \in Cards, Sends(c) PROVE TInv'
<1>1. WInv /\ WInv' /\ CardT
  BY SendKeepsW DEF TInv, WInv
<1>2. /\ pc' = [pc EXCEPT ![c] = "waiting"] /\ pc[c] \in {"ready", "again"}
      /\ requests' = requests \cup {Sent(c)}
      /\ UNCHANGED <<life, at, replies, faults, activeSessions>>
  BY DEF Sends, MMRests, tableVars
<1>3. /\ Sent(c).card = c /\ Sent(c).cmd = Cmd(at[c])
      /\ Cmd(at[c]) = "activate" => at[c] = 3
      /\ at[c] \in Int
  BY <1>1, WhereCardIs DEF Sent, Request
<1>4. IsFiniteSet(requests') /\ IsFiniteSet(replies')
  BY <1>2, OneMore DEF TInv, Finite
<1>5. Refusing' = Refusing
  BY <1>2 DEF Refusing
<1>6. CASE at[c] <= 3
  <2>1. c \in Ready /\ Ready' \subseteq Ready \ {c}
    BY <1>1, <1>2, <1>6 DEF Ready, CardT
  <2>2. Asking' \subseteq Asking \cup {Sent(c)}
    BY <1>2 DEF Asking, Current
  <2>3. /\ Cardinality(Ready') \in Nat /\ Cardinality(Ready') + 1 <= Cardinality(Ready)
        /\ Cardinality(Asking') \in Nat /\ Cardinality(Asking') <= Cardinality(Asking) + 1
    BY <2>1, <2>2, Counts, OneLess, OneMore
  <2>4. Spare' = Spare /\ Spare \in Nat
    BY <1>2 DEF Spare
  <2> QED
    BY <1>1, <1>2, <1>4, <1>5, <2>3, <2>4, Counts, Traded
<1>7. CASE at[c] > 3
  <2>1. Ready' \subseteq Ready
    BY <1>1, <1>2 DEF Ready, CardT
  <2>2. Asking' \subseteq Asking
    BY <1>2, <1>3, <1>7 DEF Asking, Current
  <2>3. /\ Cardinality(Ready') \in Nat /\ Cardinality(Ready') <= Cardinality(Ready)
        /\ Cardinality(Asking') \in Nat /\ Cardinality(Asking') <= Cardinality(Asking)
    BY <2>1, <2>2, Counts, Fewer
  <2>4. Spare' = Spare /\ Spare \in Nat
    BY <1>2 DEF Spare
  <2> QED
    BY <1>1, <1>2, <1>4, <1>5, <2>3, <2>4, Counts, Traded
<1> QED
  BY <1>3, <1>6, <1>7

LEMMA UnreachableTrades == ASSUME TInv, NEW c \in Cards, Unreachable(c) PROVE TInv'
<1>1. WInv /\ WInv' /\ CardT /\ WireOK
  BY UnreachableKeepsW DEF TInv, WInv
<1>2. PICK m \in requests :
         /\ m.card = c /\ requests' = requests \ {m}
         /\ UNCHANGED <<life, replies, faults, activeSessions>>
         /\ \/ Current(m) /\ (Stays(c) \/ Proceed(c)) /\ (at[c] <= 3 => Stays(c))
            \/ UNCHANGED <<at, pc>>
  BY <1>1, UnreachableShape, WhereCardIs DEF MMRests, tableVars
<1>3. IsFiniteSet(requests') /\ IsFiniteSet(replies')
  BY <1>2, Fewer DEF TInv, Finite
<1>4. ASSUME \A d \in Cards : at'[d] <= 3 => at[d] <= 3
      PROVE  Asking' \subseteq Asking \ {m} /\ Refusing' \subseteq Refusing
  BY <1>1, <1>2, <1>4 DEF Asking, Refusing, Current, WireOK, RequestT, ReplyT
<1>5. Spare' = Spare /\ Spare \in Nat
  BY <1>2 DEF Spare
<1>6. CASE UNCHANGED <<at, pc>>
  <2>1. Ready' \subseteq Ready
    BY <1>6 DEF Ready
  <2>2. requests' \subseteq requests /\ replies' \subseteq replies
    BY <1>2
  <2> QED
    BY <1>1, <1>2, <1>4, <1>6, <2>1, <2>2, NothingTraded, Counts
<1>7. CASE Current(m) /\ (Stays(c) \/ Proceed(c)) /\ (at[c] <= 3 => Stays(c))
  <2>1. /\ \A d \in Cards : at'[d] <= 3 => at[d] <= 3
        /\ \A d \in Cards : d # c => at'[d] = at[d] /\ pc'[d] = pc[d]
    BY <1>1, <1>7, MovesTyped
  <2>2. Asking' \subseteq Asking \ {m} /\ Refusing' \subseteq Refusing
    BY <1>4, <2>1
  <2>3. CASE at[c] <= 3
    <3>1. m \in Asking /\ Ready' \subseteq Ready \cup {c}
      BY <1>2, <1>7, <2>1, <2>3 DEF Asking, Ready
    <3>2. /\ Cardinality(Ready') \in Nat /\ Cardinality(Ready') <= Cardinality(Ready) + 1
          /\ Cardinality(Asking') \in Nat /\ Cardinality(Asking') + 1 <= Cardinality(Asking)
          /\ Cardinality(Refusing') \in Nat /\ Cardinality(Refusing') <= Cardinality(Refusing)
      BY <2>2, <3>1, Counts, OneLess, OneMore, Fewer
    <3> QED
      BY <1>1, <1>2, <1>3, <1>5, <3>2, Counts, Traded
  <2>4. CASE ~(at[c] <= 3)
    <3>1. Ready' \subseteq Ready /\ Asking' \subseteq Asking
      BY <2>1, <2>2, <2>4 DEF Ready
    <3>2. requests' \subseteq requests /\ replies' \subseteq replies
      BY <1>2
    <3> QED
      BY <1>1, <1>2, <2>2, <3>1, <3>2, NothingTraded, Counts
  <2> QED
    BY <2>3, <2>4
<1> QED
  BY <1>2, <1>6, <1>7

(* A card that was refused is ready to ask again: the refusal is used up. *)
LEMMA ReceiveTrades ==
    ASSUME TInv, NEW c \in Cards, NEW r \in replies, Receives(c, r) PROVE TInv'
<1>1. WInv /\ WInv' /\ CardT /\ WireOK
  BY ReceiveKeepsW DEF TInv, WInv, CardT, Receives
<1> DEFINE copy == [r EXCEPT !.copy = TRUE]
<1>2. /\ r \in ReplyT /\ r.card = c /\ pc[c] = "waiting"
      /\ UNCHANGED <<life, requests, activeSessions>>
      /\ \/ Stays(c) /\ ~Accepted(c, r)
         \/ Proceed(c) /\ (at[c] <= 3 => Accepted(c, r))
  <2>1. Refused(c) => Stays(c) \/ (Proceed(c) /\ ~(at[c] <= 3))
    BY <1>1, RefusedMoves, WhereCardIs
  <2>2. r \in ReplyT
    BY <1>1 DEF WireOK
  <2>3. /\ r.card = c /\ pc[c] = "waiting" /\ UNCHANGED <<life, requests, activeSessions>>
        /\ (Accepted(c, r) /\ Proceed(c)) \/ (~Accepted(c, r) /\ Refused(c))
    BY DEF Receives, Receive, MMRests, tableVars
  <2> QED
    BY <2>1, <2>2, <2>3
<1>3. /\ \A d \in Cards : at'[d] <= 3 => at[d] <= 3
      /\ \A d \in Cards : d # c => at'[d] = at[d] /\ pc'[d] = pc[d]
  BY <1>1, <1>2, MovesTyped
<1>4. \/ replies' = replies \ {r} /\ Spare' = Spare
      \/ replies' = (replies \ {r}) \cup {copy} /\ Spare = 0 /\ Spare' = 1
  BY DEF Receives, Spare
<1>5. copy \in ReplyT /\ copy.card = r.card /\ copy.cmd = r.cmd /\ copy.cc = r.cc
  BY <1>2, CopyOf
<1> HIDE DEF copy
<1>6. IsFiniteSet(requests') /\ IsFiniteSet(replies')
  <2>1. IsFiniteSet(replies) /\ replies' \subseteq replies \cup {copy}
    BY <1>4 DEF TInv, Finite
  <2> QED
    BY <1>2, <2>1, OneMore DEF TInv, Finite
<1>7. Asking' \subseteq Asking
  BY <1>1, <1>2, <1>3 DEF Asking, Current, WireOK, RequestT
<1>8. Refusing' \subseteq (Refusing \ {r}) \cup {copy}
      /\ (Spare' = Spare => Refusing' \subseteq Refusing \ {r})
  BY <1>1, <1>3, <1>4, <1>5 DEF Refusing, WireOK, ReplyT
<1>9. Cardinality(Asking') \in Nat /\ Cardinality(Asking') <= Cardinality(Asking)
  BY <1>7, Counts, Fewer
<1>10. Spare \in Nat /\ Spare' \in Nat
  BY DEF Spare
<1>11. CASE at[c] <= 3 /\ ~(r.cmd = "activate" /\ r.cc = "OK")
  <2>1. r \in Refusing /\ Ready' \subseteq Ready \cup {c}
    BY <1>2, <1>3, <1>11 DEF Refusing, Ready
  <2>2. /\ Cardinality(Ready') \in Nat /\ Cardinality(Ready') <= Cardinality(Ready) + 1
        /\ Cardinality(Refusing') \in Nat /\ Cardinality(Refusing') <= Cardinality(Refusing)
        /\ Spare' = Spare => Cardinality(Refusing') + 1 <= Cardinality(Refusing)
    <3>1. Cardinality(Ready') \in Nat /\ Cardinality(Ready') <= Cardinality(Ready) + 1
      BY <2>1, Counts, OneMore
    <3>2. /\ Cardinality(Refusing') \in Nat
          /\ Cardinality(Refusing') <= Cardinality(Refusing)
      BY <1>8, <2>1, Counts, OneForAnother
    <3>3. Spare' = Spare => Cardinality(Refusing') + 1 <= Cardinality(Refusing)
      BY <1>8, <2>1, Counts, OneLess
    <3> QED
      BY <3>1, <3>2, <3>3
  <2> QED
    BY <1>1, <1>2, <1>4, <1>6, <1>9, <1>10, <2>2, Counts, Traded
<1>12. CASE at[c] > 3 \/ (r.cmd = "activate" /\ r.cc = "OK")
  <2>1. at'[c] > 3
    <3>1. CASE at[c] > 3
      BY <1>1, <1>2, <1>3, <3>1, WhereCardIs, MovesTyped DEF Stays, Proceed, CardT
    <3>2. CASE at[c] <= 3 /\ r.cmd = "activate" /\ r.cc = "OK"
      <4>1. at[c] = 3
        BY <1>1, <1>2, <3>2, WhereCardIs DEF WireOK
      <4>2. Accepted(c, r) /\ Proceed(c)
        BY <1>1, <1>2, <3>2, <4>1, WhereCardIs DEF Accepted
      <4>3. Following(3) = 4
        BY Numbers DEF Following
      <4>4. at'[c] = Following(at[c])
        BY <1>1, <4>2 DEF Proceed, CardT
      <4> QED
        BY <4>1, <4>3, <4>4
    <3> QED
      BY <1>1, <1>12, <3>1, <3>2, WhereCardIs
  <2>2. Ready' \subseteq Ready /\ Refusing' \subseteq Refusing
    <3>1. ~(at'[c] <= 3)
      <4>1. at'[c] \in Exchanges
        BY <1>1 DEF WInv, CardT
      <4> QED
        BY <2>1, <4>1, Numbers
    <3>2. Ready' \subseteq Ready
      BY <1>3, <3>1 DEF Ready
    <3>3. ASSUME NEW q \in Refusing' PROVE q \in Refusing
      <4>1. q \in replies' /\ q.card # c /\ at'[q.card] <= 3
            /\ ~(q.cmd = "activate" /\ q.cc = "OK")
        BY <3>1 DEF Refusing
      <4>2. q \in replies
        BY <1>2, <1>4, <1>5, <4>1
      <4> QED
        BY <1>1, <1>3, <4>1, <4>2 DEF Refusing, WireOK, ReplyT
    <3> QED
      BY <3>2, <3>3
  <2>3. /\ Cardinality(Ready') \in Nat /\ Cardinality(Ready') <= Cardinality(Ready)
        /\ Cardinality(Refusing') \in Nat /\ Cardinality(Refusing') <= Cardinality(Refusing)
    BY <2>2, Counts, Fewer
  <2> QED
    BY <1>1, <1>2, <1>4, <1>6, <1>9, <1>10, <2>3, Counts, Traded
<1> QED
  BY <1>1, <1>11, <1>12, WhereCardIs

(* The MM opens a session for a request, or refuses. *)
LEMMA ServeTrades == ASSUME TInv, IInv, NEW m \in requests, Serves(m) PROVE TInv'
<1>1. WInv /\ WInv' /\ CardT /\ WireOK /\ m \in RequestT
  BY HandleKeepsW DEF TInv, WInv, CardT, Serves, WireOK
<1> DEFINE copy == [m EXCEPT !.copy = TRUE]
<1>2. /\ UNCHANGED <<life, at, pc>>
      /\ Answers(m) \/ UNCHANGED replies
      /\ \/ UNCHANGED activeSessions /\ (m.cmd = "activate" => reply'.cc # "OK")
         \/ /\ m.cmd = "activate" /\ reply'.cc = "OK"
            /\ activeSessions' = activeSessions + 1
  BY <1>1, HandleShape, DispatchShape DEF Serves, IInv, Rests, Opens
<1>3. \/ requests' = requests \ {m} /\ Spare <= Spare'
      \/ requests' = (requests \ {m}) \cup {copy} /\ Spare = 0 /\ Spare' = 1
  BY DEF Serves, Spare
<1>4. /\ copy \in RequestT /\ copy.card = m.card /\ copy.life = m.life /\ copy.cmd = m.cmd
  BY <1>1, CopyOf
<1> HIDE DEF copy
<1>5. Answer(m).card = m.card /\ Answer(m).cmd = m.cmd /\ Answer(m).cc = reply'.cc
  BY DEF Answer
<1>6. IsFiniteSet(requests') /\ IsFiniteSet(replies')
  <2>1. requests' \subseteq requests \cup {copy} /\ replies' \subseteq replies \cup {Answer(m)}
    BY <1>2, <1>3 DEF Answers
  <2>2. IsFiniteSet(requests) /\ IsFiniteSet(replies)
    BY DEF TInv, Finite
  <2> QED
    BY <2>1, <2>2, OneMore
<1>7. Ready' = Ready
  BY <1>2 DEF Ready
<1>8. Spare \in Nat /\ Spare' \in Nat
  BY DEF Spare
<1>9. CASE m \in Asking
  <2>1. \/ Asking' \subseteq Asking \ {m} /\ Spare <= Spare'
        \/ Asking' \subseteq (Asking \ {m}) \cup {copy} /\ Spare = 0 /\ Spare' = 1
    BY <1>2, <1>3 DEF Asking, Current
  <2>2. \/ /\ Cardinality(Asking') + 1 <= Cardinality(Asking) /\ Cardinality(Asking') \in Nat
           /\ Spare <= Spare'
        \/ /\ Cardinality(Asking') <= Cardinality(Asking) /\ Cardinality(Asking') \in Nat
           /\ Spare = 0 /\ Spare' = 1
    BY <1>9, <2>1, Counts, OneLess, OneForAnother
  <2>3. CASE UNCHANGED activeSessions
    <3>1. Refusing' \subseteq Refusing \cup {Answer(m)}
      BY <1>2 DEF Refusing, Answers
    <3>2. Cardinality(Refusing') \in Nat /\ Cardinality(Refusing') <= Cardinality(Refusing) + 1
      BY <3>1, Counts, OneMore
    <3> QED
      BY <1>1, <1>2, <1>6, <1>7, <1>8, <2>2, <2>3, <3>2, Counts, Traded
  <2>4. CASE /\ m.cmd = "activate" /\ reply'.cc = "OK"
             /\ activeSessions' = activeSessions + 1
    <3>1. Refusing' \subseteq Refusing
      BY <1>2, <1>5, <2>4 DEF Refusing, Answers
    <3>2. Cardinality(Refusing') \in Nat /\ Cardinality(Refusing') <= Cardinality(Refusing)
      BY <3>1, Counts, Fewer
    <3> QED
      BY <1>1, <1>2, <1>6, <1>7, <1>8, <2>2, <2>4, <3>2, Counts, Traded
  <2> QED
    BY <1>2, <2>3, <2>4
<1>10. CASE m \notin Asking
  <2>1. m.cmd # "activate" /\ (Current(m) => ~(at[m.card] <= 3))
    BY <1>10 DEF Asking
  <2>2. Asking' \subseteq Asking
    BY <1>2, <1>3, <1>4, <2>1 DEF Asking, Current
  <2>3. Refusing' \subseteq Refusing
    BY <1>2, <1>5, <2>1 DEF Refusing, Answers
  <2>4. /\ Cardinality(Asking') \in Nat /\ Cardinality(Asking') <= Cardinality(Asking)
        /\ Cardinality(Refusing') \in Nat /\ Cardinality(Refusing') <= Cardinality(Refusing)
    BY <2>2, <2>3, Counts, Fewer
  <2>5. UNCHANGED activeSessions /\ Spare <= Spare'
    BY <1>2, <1>3, <2>1
  <2> QED
    BY <1>1, <1>2, <1>6, <1>7, <1>8, <2>4, <2>5, Counts, Traded
<1> QED
  BY <1>9, <1>10

(* A start more: what the card asked for before goes on, what was refused to it
   does not reach it any more. *)
LEMMA RestartTrades == ASSUME TInv, NEW c \in Cards, Restart(c) PROVE TInv'
<1>1. WInv /\ WInv' /\ CardT /\ WireOK
  BY RestartKeepsW DEF TInv, WInv
<1>2. /\ life' = [life EXCEPT ![c] = @ + 1] /\ at' = [at EXCEPT ![c] = 1]
      /\ pc' = [pc EXCEPT ![c] = "ready"]
      /\ replies' = {r \in replies : r.card # c}
      /\ UNCHANGED <<requests, activeSessions, faults>>
  BY DEF Restart, MMRests, tableVars
<1>3. /\ life[c] \in Nat /\ life'[c] = life[c] + 1
      /\ \A d \in Cards : d # c => life'[d] = life[d] /\ at'[d] = at[d] /\ pc'[d] = pc[d]
  BY <1>1, <1>2 DEF CardT
<1>4. StartsOfCards' = StartsOfCards \cup {<<c, life[c] + 1>>}
  <2>1. 1 .. life'[c] = (1 .. life[c]) \cup {life[c] + 1}
    BY <1>3
  <2>2. {c} \X (1 .. life'[c]) = ({c} \X (1 .. life[c])) \cup {<<c, life[c] + 1>>}
    BY <2>1
  <2>3. \A p : p \in StartsOfCards' <=> p \in StartsOfCards \/ p = <<c, life[c] + 1>>
    <3>1. \A p : p \in StartsOfCards' <=> \E d \in Cards : p \in {d} \X (1 .. life'[d])
      BY DEF StartsOfCards
    <3>2. \A p : p \in StartsOfCards <=> \E d \in Cards : p \in {d} \X (1 .. life[d])
      BY DEF StartsOfCards
    <3> QED
      BY <1>3, <2>2, <3>1, <3>2
  <2> QED
    BY <2>3
<1>5. <<c, life[c] + 1>> \notin StartsOfCards
  BY <1>3 DEF StartsOfCards
<1>6. IsFiniteSet(StartsOfCards') /\ Starts' = Starts + 1
  BY <1>4, <1>5, FS_AddElement DEF TInv, Finite, Starts
<1>7. IsFiniteSet(requests') /\ IsFiniteSet(replies')
  BY <1>2, Fewer DEF TInv, Finite
<1>8. LifeBound'
  <2>1. Starts \in Nat /\ Cardinality(Cards) \in Nat /\ \A d \in Cards : life[d] \in Nat
    BY <1>1, Counts, CardsFinite DEF CardT
  <2>2. \A d \in Cards : life[d] + Cardinality(Cards) <= Starts + 1
    BY DEF TInv, LifeBound
  <2>3. \A d \in Cards : life'[d] + Cardinality(Cards) <= Starts' + 1
    BY <1>3, <1>6, <2>1, <2>2
  <2> QED
    BY <2>3 DEF LifeBound
<1>9. Ready' \subseteq Ready \cup {c}
  BY <1>3 DEF Ready
<1>10. Asking' \subseteq Asking
  BY <1>1, <1>2, <1>3 DEF Asking, Current, WireOK, RequestT
<1>11. Refusing' \subseteq Refusing
  BY <1>1, <1>2, <1>3 DEF Refusing, WireOK, ReplyT
<1>12. /\ Cardinality(Ready') \in Nat /\ Cardinality(Ready') <= Cardinality(Ready) + 1
       /\ Cardinality(Asking') \in Nat /\ Cardinality(Asking') <= Cardinality(Asking)
       /\ Cardinality(Refusing') \in Nat /\ Cardinality(Refusing') <= Cardinality(Refusing)
  BY <1>9, <1>10, <1>11, Counts, OneMore, Fewer
<1>13. Spare' = Spare /\ Spare \in Nat
  BY <1>2 DEF Spare
<1>14. SlotsBound'
  BY <1>2, <1>6, <1>12, <1>13, Counts DEF TInv, SlotsBound
<1> QED
  BY <1>1, <1>6, <1>7, <1>8, <1>14 DEF TInv, Finite

LEMMA QuietTrades ==
    ASSUME TInv, WInv', UNCHANGED <<life, at, pc>>, requests' \subseteq requests,
           replies' \subseteq replies, faults \subseteq faults', activeSessions' \in {0, activeSessions}
    PROVE  TInv'
<1>1. Ready' \subseteq Ready /\ Asking' \subseteq Asking /\ Refusing' \subseteq Refusing
  BY DEF Ready, Asking, Refusing, Current
<1>2. activeSessions' <= activeSessions /\ activeSessions' \in Nat
  BY Counts
<1> QED
  BY <1>1, <1>2, NothingTraded

LEMMA InitTrades == Init => TInv
<1> SUFFICES ASSUME Init PROVE TInv
  OBVIOUS
<1>1. WInv
  BY InitEstablishesW
<1>2. StartsOfCards = Cards \X {1}
  <2>1. 1 .. 1 = {1}
    OBVIOUS
  <2> QED
    BY <2>1 DEF Init, StartsOfCards
<1>3. IsFiniteSet(StartsOfCards) /\ Starts = Cardinality(Cards)
  <2>1. IsFiniteSet({1}) /\ Cardinality({1}) = 1
    BY FS_Singleton
  <2>2. IsFiniteSet(Cards \X {1})
        /\ Cardinality(Cards \X {1}) = Cardinality(Cards) * Cardinality({1})
    BY <2>1, CardsFinite, FS_Product
  <2> QED
    BY <1>2, <2>1, <2>2, CardsFinite DEF Starts
<1>4. requests = {} /\ replies = {} /\ faults = {} /\ activeSessions = 0
      /\ \A c \in Cards : life[c] = 1
  BY DEF Init, Lan!Init
<1>5. Finite
  BY <1>3, <1>4, FS_EmptySet DEF Finite
<1>6. LifeBound
  BY <1>3, <1>4, CardsFinite DEF LifeBound
<1>7. Asking = {} /\ Refusing = {} /\ Ready \subseteq Cards
  BY <1>4 DEF Asking, Refusing, Ready
<1>8. Cardinality(Ready) \in Nat /\ Cardinality(Ready) <= Cardinality(Cards)
  BY <1>7, CardsFinite, Fewer
<1>9. SlotsBound
  BY <1>3, <1>4, <1>7, <1>8, CardsFinite, FS_EmptySet DEF SlotsBound, Spare
<1> QED
  BY <1>1, <1>5, <1>6, <1>9 DEF TInv

LEMMA StepTrades == IInv /\ TInv /\ [Next]_vars => TInv'
<1> SUFFICES ASSUME IInv, TInv, [Next]_vars PROVE TInv'
  OBVIOUS
<1>1. WInv /\ WInv'
  BY StepKeepsW DEF TInv
<1>2. CASE Lose
  BY <1>1, <1>2, QuietTrades DEF Lose, Happens, MMRests, tableVars, cardVars
<1>3. CASE Erase
  BY <1>1, <1>3, QuietTrades DEF Erase, Happens, tableVars, cardVars
<1>4. CASE MMStops
  BY <1>1, <1>4, QuietTrades DEF MMStops, Happens, cardVars
<1>5. CASE MMStarts
  BY <1>1, <1>5, QuietTrades DEF MMStarts, cardVars
<1>6. CASE UNCHANGED vars
  BY <1>1, <1>6, QuietTrades DEF vars, tableVars, cardVars
<1> QED
  BY <1>1, <1>2, <1>3, <1>4, <1>5, <1>6, StepShapes, SendTrades, UnreachableTrades,
     RestartTrades, ReceiveTrades, ServeTrades

(* No start of a card costs the MM two session slots, however often its
   requests are refused, late or answered twice, and whatever other cards do:
   activateSession opens a session for each request it admits, and the client
   (activateSession, setSessionPriv) goes on after the first good reply. *)
THEOREM OneSlotForEachStart == Spec => []OneSlotPerStart
<1>1. TInv => OneSlotPerStart
  <2> SUFFICES ASSUME TInv PROVE activeSessions <= Starts + Spare
    BY DEF OneSlotPerStart, Spare
  <2>1. SlotsBound
    BY DEF TInv
  <2> QED
    BY <2>1, Counts DEF SlotsBound
<1> QED
  BY <1>1, InitEstablishes, InitTrades, StepKeeps, StepTrades, PTL DEF Spec

(* The bound of the model on what goes wrong bounds the starts of each card. *)
LifeMax == \A c \in Cards : life[c] <= MaxFaults + 1

LEMMA StepKeepsLifeMax == TInv /\ LifeMax /\ [Next]_vars => LifeMax'
<1> SUFFICES ASSUME TInv, LifeMax, [Next]_vars PROVE LifeMax'
  OBVIOUS
<1>1. CASE UNCHANGED life
  BY <1>1 DEF LifeMax
<1>2. ASSUME NEW c \in Cards, Restart(c) PROVE LifeMax'
  <2>1. life' = [life EXCEPT ![c] = @ + 1] /\ FaultCount < MaxFaults
    BY <1>2 DEF Restart
  <2>2. life \in [Cards -> Nat \ {0}] /\ faults \subseteq {"lost", "repeated", "erased", "mmrestarted", "late"}
    BY DEF TInv, WInv, CardT
  <2>3. IsFiniteSet({"lost", "repeated", "erased", "mmrestarted", "late"})
    <3>1. IsFiniteSet({"lost"} \cup {"repeated"} \cup {"erased"} \cup {"mmrestarted"} \cup {"late"})
      BY FS_Singleton, FS_Union
    <3>2. {"lost", "repeated", "erased", "mmrestarted", "late"}
             = {"lost"} \cup {"repeated"} \cup {"erased"} \cup {"mmrestarted"} \cup {"late"}
      OBVIOUS
    <3> QED
      BY <3>1, <3>2
  <2>4. Cardinality(faults \ {"late"}) \in Nat
    <3>1. faults \ {"late"} \subseteq {"lost", "repeated", "erased", "mmrestarted", "late"}
      BY <2>2
    <3> QED
      BY <2>3, <3>1, Fewer
  <2>5. Starts \in Nat /\ Cardinality(Cards) \in Nat /\ MaxFaults \in Nat
    BY Counts, CardsFinite, ChassisAssumption
  <2>6. life[c] + Cardinality(Cards) <= Starts + 1
    BY DEF TInv, LifeBound
  <2>7. life[c] + 1 <= MaxFaults + 1
    <3>1. Cardinality(faults \ {"late"}) + Starts - Cardinality(Cards) < MaxFaults
      BY <2>1 DEF FaultCount
    <3>2. life[c] \in Nat
      BY <2>2
    <3> QED
      BY <2>4, <2>5, <2>6, <3>1, <3>2
  <2> QED
    BY <2>1, <2>2, <2>5, <2>7 DEF LifeMax
<1>3. ASSUME NEW c \in Cards, Sends(c) \/ Unreachable(c) PROVE UNCHANGED life
  BY <1>3 DEF Sends, Unreachable
<1>4. ASSUME NEW c \in Cards, NEW r \in replies, Receives(c, r) PROVE UNCHANGED life
  BY <1>4 DEF Receives, Receive
<1>5. ASSUME NEW m \in requests, Serves(m) PROVE UNCHANGED life
  BY <1>5 DEF Serves, Handle, cardVars
<1>6. Lose \/ Erase \/ MMStops \/ MMStarts \/ UNCHANGED vars => UNCHANGED life
  BY DEF Lose, Erase, MMStops, MMStarts, vars, cardVars
<1> QED
  BY <1>1, <1>2, <1>3, <1>4, <1>5, <1>6, StepShapes DEF TInv

(* The state of the cards, of the datagrams and of the MM keeps its types: no
   exchange but those of a card's program is reached (stateTable and the poll),
   no reply is without an answer, and the session table and the repository of
   the MM stay well formed under the requests cards send, the erase and the
   restart. *)
THEOREM ChassisTypes == Spec => []ChassisTypeOK
<1>1. WInv /\ LifeMax => ChassisTypeOK
  <2> SUFFICES ASSUME WInv, LifeMax PROVE ChassisTypeOK
    OBVIOUS
  <2>1. Lan!TypeOK /\ Sdr!TypeOK
    BY SameTypes DEF WInv, MMInv, LanP!IInv, SdrP!IInv
  <2>2. life \in [Cards -> 1 .. MaxFaults + 1]
    BY ChassisAssumption DEF WInv, CardT, LifeMax
  <2>3. ASSUME NEW m \in requests PROVE m.card \in Cards /\ m.life \in 1 .. life[m.card]
    <3>1. m \in RequestT /\ m.life <= life[m.card]
      BY DEF WInv, WireOK
    <3> QED
      BY <3>1 DEF WInv, CardT, RequestT
  <2>4. \A r \in replies : r.card \in Cards /\ r.cc # "silent"
    BY DEF WInv, WireOK, ReplyT
  <2> QED
    BY <2>1, <2>2, <2>3, <2>4 DEF ChassisTypeOK, WInv, CardT, Sids
<1>2. Init => LifeMax
  BY ChassisAssumption DEF Init, LifeMax
<1>3. TInv => WInv
  BY DEF TInv
<1> QED
  BY <1>1, <1>2, <1>3, InitEstablishes, InitTrades, StepKeeps, StepTrades, StepKeepsLifeMax, PTL
     DEF Spec


-----------------------------------------------------------------------------
(* A card has one datagram under way, either its request or the reply to it,
   as long as none was repeated: ipmiReqRsp waits for each reply. *)
Asked(c) == Request(c, IF at[c] < FirstPoll THEN 0 ELSE value[c][Sensor(at[c])])

Outstanding ==
    /\ \A m \in requests : Current(m) =>
          /\ pc[m.card] = "waiting" /\ m = Asked(m.card)
          /\ \A r \in replies : r.card # m.card
    /\ \A r \in replies :
          /\ pc[r.card] = "waiting" /\ r.cmd = Cmd(at[r.card])
          /\ \A q \in replies : q.card = r.card => q = r

OneAtATime == "repeated" \notin faults => Outstanding

(* Steps of other cards do not change what a card asked. *)
LEMMA SameAsked ==
    ASSUME NEW d, at'[d] = at[d], life'[d] = life[d], ctx'[d] = ctx[d],
           at[d] < FirstPoll \/ value'[d][Sensor(at[d])] = value[d][Sensor(at[d])]
    PROVE  Asked(d)' = Asked(d)
  BY DEF Asked, Request, HeaderSid

LEMMA OthersKeep ==
    ASSUME WInv, Outstanding, NEW c \in Cards,
           \A d \in Cards : d # c =>
              at'[d] = at[d] /\ pc'[d] = pc[d] /\ life'[d] = life[d] /\ ctx'[d] = ctx[d]
              /\ value'[d] = value[d],
           \A m \in requests' : m.card = c \/ m \in requests,
           \A r \in replies' : r.card = c \/ r \in replies
    PROVE  /\ \A m \in requests' : m.card # c /\ Current(m)' =>
                 /\ pc'[m.card] = "waiting" /\ m = Asked(m.card)'
                 /\ \A r \in replies' : r.card # m.card
           /\ \A r \in replies' : r.card # c =>
                 /\ pc'[r.card] = "waiting" /\ r.cmd = Cmd(at'[r.card])
                 /\ \A q \in replies' : q.card = r.card => q = r
<1>1. ASSUME NEW m \in requests', m.card # c, Current(m)'
      PROVE  /\ pc'[m.card] = "waiting" /\ m = Asked(m.card)'
             /\ \A r \in replies' : r.card # m.card
  <2>1. m \in requests /\ m.card \in Cards
    BY <1>1 DEF WInv, WireOK, RequestT
  <2>2. Current(m)
    BY <1>1, <2>1 DEF Current
  <2>3. Asked(m.card)' = Asked(m.card)
    BY <1>1, <2>1, SameAsked
  <2> QED
    BY <1>1, <2>1, <2>2, <2>3 DEF Outstanding
<1>2. ASSUME NEW r \in replies', r.card # c
      PROVE  /\ pc'[r.card] = "waiting" /\ r.cmd = Cmd(at'[r.card])
             /\ \A q \in replies' : q.card = r.card => q = r
  <2>1. r \in replies /\ r.card \in Cards
    BY <1>2 DEF WInv, WireOK, ReplyT
  <2> QED
    BY <1>2, <2>1 DEF Outstanding
<1> QED
  BY <1>1, <1>2

LEMMA SendKeepsOne ==
    ASSUME WInv, Outstanding, NEW c \in Cards, Sends(c) PROVE Outstanding'
<1>1. /\ pc[c] # "waiting" /\ pc'[c] = "waiting" /\ \A d \in Cards : d # c => pc'[d] = pc[d]
      /\ requests' = requests \cup {Sent(c)} /\ UNCHANGED <<life, at, ctx, replies>>
  BY DEF Sends, WInv, CardT
<1>2. \A d \in Cards : d # c => value'[d] = value[d]
  BY Zenon DEF Sends
<1>3. Sent(c).card = c /\ Sent(c) = Asked(c)'
  BY <1>1 DEF Sent, Asked, Request, HeaderSid
<1>4. ASSUME NEW m \in requests', m.card = c, Current(m)'
      PROVE  m = Asked(c)'
  <2>1. m \in requests => Current(m)
    BY <1>1, <1>4 DEF Current
  <2> QED
    BY <1>1, <1>3, <1>4, <2>1 DEF Outstanding
<1>5. \A r \in replies : r.card # c
  BY <1>1 DEF Outstanding
<1>6. \A m \in requests' : m.card = c \/ m \in requests
  BY <1>1, <1>3
<1>7. /\ \A m \in requests' : m.card # c /\ Current(m)' =>
            /\ pc'[m.card] = "waiting" /\ m = Asked(m.card)'
            /\ \A r \in replies' : r.card # m.card
      /\ \A r \in replies' : r.card # c =>
            /\ pc'[r.card] = "waiting" /\ r.cmd = Cmd(at'[r.card])
            /\ \A q \in replies' : q.card = r.card => q = r
  BY <1>1, <1>2, <1>6, OthersKeep
<1> QED
  BY <1>1, <1>4, <1>5, <1>7 DEF Outstanding

(* The card's datagram is used up. *)
LEMMA NothingLeft ==
    ASSUME WInv, Outstanding, NEW c \in Cards,
           \A d \in Cards : d # c =>
              at'[d] = at[d] /\ pc'[d] = pc[d] /\ life'[d] = life[d] /\ ctx'[d] = ctx[d]
              /\ value'[d] = value[d],
           requests' \subseteq requests, replies' \subseteq replies,
           \A m \in requests' : m.card = c => ~Current(m)',
           \A r \in replies' : r.card # c
    PROVE  Outstanding'
<1>1. /\ \A m \in requests' : m.card # c /\ Current(m)' =>
            /\ pc'[m.card] = "waiting" /\ m = Asked(m.card)'
            /\ \A r \in replies' : r.card # m.card
      /\ \A r \in replies' : r.card # c =>
            /\ pc'[r.card] = "waiting" /\ r.cmd = Cmd(at'[r.card])
            /\ \A q \in replies' : q.card = r.card => q = r
  BY OthersKeep
<1> QED
  BY <1>1 DEF Outstanding

LEMMA ReceiveKeepsOne ==
    ASSUME WInv, Outstanding, NEW c \in Cards, NEW r \in replies, Receive(c, r),
           replies' = replies \ {r}
    PROVE  Outstanding'
<1>1. CardT /\ r.card = c /\ UNCHANGED <<life, value, requests>>
  BY DEF Receive, WInv
<1>2. Stays(c) \/ Proceed(c)
  BY <1>1, RefusedMoves DEF Receive
<1>3. \A d \in Cards : d # c => ctx'[d] = ctx[d]
  BY <1>1 DEF Receive, Refused, CardT
<1>4. \A d \in Cards : d # c => at'[d] = at[d] /\ pc'[d] = pc[d]
  BY <1>1, <1>2, MovesTyped
<1>5. \A m \in requests' : m.card = c => ~Current(m)'
  BY <1>1 DEF Outstanding, Current
<1>6. \A q \in replies' : q.card # c
  BY <1>1 DEF Outstanding
<1> QED
  BY <1>1, <1>3, <1>4, <1>5, <1>6, NothingLeft

LEMMA UnreachableKeepsOne ==
    ASSUME WInv, Outstanding, NEW c \in Cards, Unreachable(c) PROVE Outstanding'
<1>1. PICK m \in requests :
         /\ m.card = c /\ requests' = requests \ {m}
         /\ \/ Current(m) /\ (Stays(c) \/ Proceed(c))
            \/ UNCHANGED <<at, pc, tries>>
  BY UnreachableShape DEF WInv
<1>2. UNCHANGED <<life, value, ctx, replies>> /\ CardT
  BY UnreachableShape DEF WInv
<1>3. CASE Current(m) /\ (Stays(c) \/ Proceed(c))
  <2>1. \A d \in Cards : d # c => at'[d] = at[d] /\ pc'[d] = pc[d]
    BY <1>2, <1>3, MovesTyped
  <2>2. \A n \in requests' : n.card = c => ~Current(n)'
    BY <1>1, <1>2, <1>3 DEF Outstanding, Current
  <2>3. \A r \in replies' : r.card # c
    BY <1>1, <1>2, <1>3 DEF Outstanding
  <2> QED
    BY <1>1, <1>2, <2>1, <2>2, <2>3, NothingLeft
<1>4. CASE UNCHANGED <<at, pc, tries>>
  BY <1>1, <1>2, <1>4 DEF Outstanding, Current, Asked, Request, HeaderSid
<1> QED
  BY <1>1, <1>3, <1>4

LEMMA RestartKeepsOne ==
    ASSUME WInv, Outstanding, NEW c \in Cards, Restart(c) PROVE Outstanding'
<1>1. CardT /\ WireOK
  BY DEF WInv
<1>2. /\ life' = [life EXCEPT ![c] = @ + 1] /\ at' = [at EXCEPT ![c] = 1]
      /\ pc' = [pc EXCEPT ![c] = "ready"] /\ ctx' = [ctx EXCEPT ![c] = NoCtx]
      /\ value' = [value EXCEPT ![c] = [i \in 1 .. PerCard |-> 0]]
      /\ replies' = {r \in replies : r.card # c} /\ UNCHANGED requests
  BY DEF Restart
<1>3. \A d \in Cards : d # c =>
         at'[d] = at[d] /\ pc'[d] = pc[d] /\ life'[d] = life[d] /\ ctx'[d] = ctx[d]
         /\ value'[d] = value[d]
  BY <1>1, <1>2 DEF CardT
<1>4. ASSUME NEW m \in requests', m.card = c PROVE ~Current(m)'
  <2>1. m.life <= life[c] /\ m \in RequestT
    BY <1>1, <1>2, <1>4 DEF WireOK
  <2>2. life'[c] = life[c] + 1 /\ life[c] \in Nat
    BY <1>1, <1>2 DEF CardT
  <2> QED
    BY <1>4, <2>1, <2>2 DEF Current, RequestT
<1> QED
  BY <1>2, <1>3, <1>4, NothingLeft

LEMMA ServeKeepsOne ==
    ASSUME WInv, Outstanding, NEW m \in requests, Handle(m), requests' = requests \ {m}
    PROVE  Outstanding'
<1>1. m \in RequestT /\ m.card \in Cards
  BY DEF WInv, WireOK, RequestT
<1>2. UNCHANGED <<life, at, pc, ctx, value>> /\ (Answers(m) \/ UNCHANGED replies)
  BY <1>1, HandleShape
<1>3. CASE UNCHANGED replies
  BY <1>2, <1>3 DEF Outstanding, Current, Asked, Request, HeaderSid
<1>4. CASE Answers(m)
  <2> DEFINE c == m.card
  <2>1. /\ Current(m) /\ replies' = replies \cup {Answer(m)}
        /\ Answer(m).card = c /\ Answer(m).cmd = m.cmd
    BY <1>4 DEF Answers, Answer
  <2>2. /\ pc[c] = "waiting" /\ m = Asked(c) /\ m.cmd = Cmd(at[c])
        /\ \A r \in replies : r.card # c
    BY <2>1 DEF Outstanding, Asked, Request
  <2>3. ASSUME NEW n \in requests' PROVE ~(n.card = c /\ Current(n)')
    BY <1>2, <2>2 DEF Outstanding, Current
  <2>4. \A r \in replies' : r.card = c => r = Answer(m)
    BY <2>1, <2>2
  <2>5. /\ \A n \in requests' : n.card # c /\ Current(n)' =>
              /\ pc'[n.card] = "waiting" /\ n = Asked(n.card)'
              /\ \A r \in replies' : r.card # n.card
        /\ \A r \in replies' : r.card # c =>
              /\ pc'[r.card] = "waiting" /\ r.cmd = Cmd(at'[r.card])
              /\ \A q \in replies' : q.card = r.card => q = r
    BY <1>1, <1>2, <2>1, OthersKeep
  <2> QED
    BY <1>2, <2>1, <2>2, <2>3, <2>4, <2>5 DEF Outstanding
<1> QED
  BY <1>2, <1>3, <1>4

LEMMA QuietKeepsOne ==
    ASSUME Outstanding, UNCHANGED cardVars, requests' \subseteq requests, replies' \subseteq replies
    PROVE  Outstanding'
  BY DEF Outstanding, cardVars, Current, Asked, Request, HeaderSid

LEMMA StepKeepsOne == WInv /\ OneAtATime /\ [Next]_vars => OneAtATime'
<1> SUFFICES ASSUME WInv, OneAtATime, [Next]_vars, "repeated" \notin faults' PROVE Outstanding'
  BY DEF OneAtATime
<1>1. ASSUME "repeated" \notin faults PROVE Outstanding
  BY <1>1 DEF OneAtATime
<1>2. ASSUME NEW c \in Cards, Sends(c) PROVE Outstanding'
  BY <1>1, <1>2, SendKeepsOne DEF Sends
<1>3. ASSUME NEW c \in Cards, Unreachable(c) PROVE Outstanding'
  BY <1>1, <1>3, UnreachableKeepsOne DEF Unreachable
<1>4. ASSUME NEW c \in Cards, Restart(c) PROVE Outstanding'
  BY <1>1, <1>4, RestartKeepsOne DEF Restart
<1>5. ASSUME NEW c \in Cards, NEW r \in replies, Receives(c, r) PROVE Outstanding'
  BY <1>1, <1>5, ReceiveKeepsOne DEF Receives
<1>6. ASSUME NEW m \in requests, Serves(m) PROVE Outstanding'
  BY <1>1, <1>6, ServeKeepsOne DEF Serves
<1>7. CASE Lose
  BY <1>1, <1>7, QuietKeepsOne DEF Lose, Happens
<1>8. CASE Erase
  BY <1>1, <1>8, QuietKeepsOne DEF Erase, Happens
<1>9. CASE MMStops
  BY <1>1, <1>9, QuietKeepsOne DEF MMStops, Happens
<1>10. CASE MMStarts
  BY <1>1, <1>10, QuietKeepsOne DEF MMStarts
<1>11. CASE UNCHANGED vars
  BY <1>1, <1>11, QuietKeepsOne DEF vars
<1> QED
  BY <1>2, <1>3, <1>4, <1>5, <1>6, <1>7, <1>8, <1>9, <1>10, <1>11, StepShapes


-----------------------------------------------------------------------------
(* The records of the cards' sensors. What a card was answered for is stored;
   with a repeated reply a card may be ahead of the MM, but then its request is
   under way, unless one was lost. *)
Adds == FirstAdd .. FirstPoll - 1
Num(c, n) == SensorNum(c, Sensor(n))

Coming(k) == \E m \in requests : m.cmd = "add" /\ m.num = k /\ m.value = 0

(* Card c has asked for its n-th exchange. *)
Reached(c, n) == at[c] > n \/ (at[c] = n /\ pc[c] = "waiting")

StoredOrComing ==
    \A c \in Fresh, n \in Adds : Reached(c, n) => Stored(Num(c, n)) \/ Coming(Num(c, n))

AnsweredStored ==
    /\ \A c \in Fresh, n \in Adds : at[c] > n => Stored(Num(c, n))
    /\ \A r \in replies : r.card \in Fresh /\ at[r.card] >= FirstAdd =>
          Stored(Num(r.card, at[r.card]))

Added ==
    "erased" \notin faults =>
       /\ "lost" \notin faults => StoredOrComing
       /\ "repeated" \notin faults => AnsweredStored

LEMMA RecordsSame ==
    ASSUME UNCHANGED sdrVars
    PROVE  \A k : /\ Stored(k) <=> Stored(k)'
                  /\ Sdr!SensorReading(0, k)' = Sdr!SensorReading(0, k)
  BY DEF sdrVars, Stored, Sdr!FirstMatch, Sdr!Live, Sdr!SensorReading

LEMMA AddsType == \A n \in Adds : n \in Int /\ n >= FirstAdd /\ n < FirstPoll /\ n > 1
  BY Numbers DEF Adds

LEMMA StoredOrComingKeeps ==
    ASSUME StoredOrComing, \A k : Stored(k) => Stored(k)',
           \A k : Coming(k) => Coming(k)' \/ Stored(k)',
           \A c \in Fresh', n \in Adds : Reached(c, n)' =>
              (c \in Fresh /\ Reached(c, n)) \/ Coming(Num(c, n))'
    PROVE  StoredOrComing'
<1> SUFFICES ASSUME NEW c \in Fresh', NEW n \in Adds, Reached(c, n)'
             PROVE  Stored(Num(c, n))' \/ Coming(Num(c, n))'
  BY DEF StoredOrComing, Adds, FirstAdd, FirstPoll, StateTable
<1> QED
  BY DEF StoredOrComing

(* A card that moves on has asked for the exchange it leaves. *)
LEMMA MovesReached ==
    ASSUME CardT, NEW c \in Cards, pc[c] = "waiting", Stays(c) \/ Proceed(c), NEW n \in Adds
    PROVE  /\ Reached(c, n)' => at'[c] > n
           /\ at'[c] > n => Reached(c, n) /\ (at[c] > n \/ at[c] = n)
<1>1. n \in Int /\ n < FirstPoll
  BY AddsType
<1>2. /\ at[c] \in Int /\ Following(at[c]) \in Int /\ FirstPoll \in Int
      /\ at[c] \in Exchanges
  BY WhereCardIs
<1>3. pc'[c] # "waiting" /\ (at'[c] = at[c] \/ at'[c] = Following(at[c]))
  BY DEF CardT, Stays, Proceed
<1>4. at[c] < FirstPoll => Following(at[c]) = at[c] + 1
  BY <1>2, Steps
<1>5. at'[c] \in Int
  BY <1>2, <1>3
<1> QED
  BY <1>1, <1>2, <1>3, <1>4, <1>5 DEF Reached

LEMMA SendStores ==
    ASSUME WInv, NEW c \in Cards, Sends(c)
    PROVE  (StoredOrComing => StoredOrComing') /\ (AnsweredStored => AnsweredStored')
<1>1. /\ \A d \in Cards : d # c => pc'[d] = pc[d]
      /\ UNCHANGED <<at, replies, stale>> /\ UNCHANGED sdrVars
      /\ requests' = requests \cup {Sent(c)}
  BY DEF Sends, MMRests, WInv, CardT
<1>2. \A k : (Stored(k) <=> Stored(k)')
  BY <1>1, RecordsSame
<1>3. Fresh' = Fresh /\ \A d \in Fresh : d \in Cards
  BY <1>1 DEF Fresh
<1>4. ASSUME NEW n \in Adds, at[c] = n PROVE Coming(Num(c, n))'
  <2>1. n \in Int /\ n >= FirstAdd /\ n < FirstPoll
    BY AddsType
  <2>2. Sent(c) = Request(c, 0)
    BY <1>4, <2>1 DEF Sent
  <2>3. /\ Sent(c).cmd = Cmd(n) /\ Sent(c).value = 0
        /\ Sent(c).num = Num(c, n)
    BY <1>4, <2>1, <2>2, RequestType DEF WInv, Num
  <2>4. Cmd(n) = "add"
    BY <1>4, <2>1, WhereCardIs DEF WInv
  <2> QED
    BY <1>1, <2>3, <2>4 DEF Coming
<1>5. \A k : Coming(k) => Coming(k)'
  BY <1>1 DEF Coming
<1>6. \A d \in Fresh', n \in Adds : Reached(d, n)' =>
         (d \in Fresh /\ Reached(d, n)) \/ Coming(Num(d, n))'
  BY <1>1, <1>3, <1>4 DEF Reached
<1>7. StoredOrComing => StoredOrComing'
  BY <1>2, <1>5, <1>6, StoredOrComingKeeps
<1>8. AnsweredStored => AnsweredStored'
  BY <1>1, <1>2, <1>3 DEF AnsweredStored, Adds, FirstAdd, FirstPoll, StateTable
<1> QED
  BY <1>7, <1>8

LEMMA ReceiveStores ==
    ASSUME WInv, NEW c \in Cards, NEW r \in replies, Receives(c, r)
    PROVE  /\ StoredOrComing => StoredOrComing'
           /\ Outstanding /\ replies' = replies \ {r} /\ AnsweredStored => AnsweredStored'
<1>1. /\ CardT /\ r.card = c /\ pc[c] = "waiting" /\ UNCHANGED <<requests, stale>>
      /\ UNCHANGED sdrVars /\ (Stays(c) \/ Proceed(c))
  BY RefusedMoves DEF Receives, Receive, MMRests, WInv
<1>2. \A k : (Stored(k) <=> Stored(k)')
  BY <1>1, RecordsSame
<1>3. Fresh' = Fresh /\ \A d \in Fresh : d \in Cards
  BY <1>1 DEF Fresh
<1>4. \A d \in Cards : d # c => at'[d] = at[d] /\ pc'[d] = pc[d]
  BY <1>1, MovesTyped
<1>5. \A n \in Adds : /\ Reached(c, n)' => at'[c] > n
                      /\ at'[c] > n => Reached(c, n) /\ (at[c] > n \/ at[c] = n)
  BY <1>1, MovesReached
<1>6. ASSUME StoredOrComing PROVE StoredOrComing'
  <2>1. \A k : Coming(k) => Coming(k)'
    BY <1>1 DEF Coming
  <2>2. \A d \in Fresh', n \in Adds : Reached(d, n)' => d \in Fresh /\ Reached(d, n)
    BY <1>3, <1>4, <1>5 DEF Reached
  <2> QED
    BY <1>2, <1>6, <2>1, <2>2, StoredOrComingKeeps
<1>7. ASSUME Outstanding, replies' = replies \ {r}, AnsweredStored PROVE AnsweredStored'
  <2>1. ASSUME NEW d \in Fresh', NEW n \in Adds, at'[d] > n PROVE Stored(Num(d, n))'
    <3>1. CASE d # c
      BY <1>2, <1>3, <1>4, <1>7, <2>1, <3>1 DEF AnsweredStored
    <3>2. CASE d = c /\ at[c] > n
      BY <1>2, <1>3, <1>7, <3>2 DEF AnsweredStored
    <3>3. CASE d = c /\ at[c] = n
      <4>1. at[r.card] >= FirstAdd /\ r.card \in Fresh
        BY <1>1, <1>3, <3>3, AddsType
      <4> QED
        BY <1>1, <1>2, <1>7, <3>3, <4>1 DEF AnsweredStored
    <3> QED
      BY <1>5, <2>1, <3>1, <3>2, <3>3
  <2>2. ASSUME NEW q \in replies', q.card \in Fresh', at'[q.card] >= FirstAdd
        PROVE  Stored(Num(q.card, at[q.card]))' /\ at'[q.card] = at[q.card]
    <3>1. q \in replies /\ q.card # c
      BY <1>1, <1>7 DEF Outstanding
    <3> QED
      BY <1>2, <1>3, <1>4, <1>7, <2>2, <3>1 DEF AnsweredStored
  <2> QED
    BY <2>1, <2>2 DEF AnsweredStored, Adds, FirstAdd, FirstPoll, StateTable
<1> QED
  BY <1>6, <1>7

LEMMA ServeStores ==
    ASSUME WInv, NEW m \in requests, Serves(m)
    PROVE  /\ StoredOrComing => StoredOrComing'
           /\ Outstanding /\ AnsweredStored => AnsweredStored'
<1>1. /\ MMInv /\ m \in RequestT /\ Dispatch(m) /\ UNCHANGED <<at, pc, stale>>
      /\ Answers(m) \/ UNCHANGED replies
  BY HandleShape DEF Serves, WInv, WireOK
<1>2. /\ \A k : Stored(k) => Stored(k)'
      /\ m.cmd = "add" /\ (m.value = 0 \/ reply'.cc # "silent") => Stored(m.num)'
  BY <1>1, DispatchRecords
<1>3. Fresh' = Fresh
  BY <1>1 DEF Fresh
<1>4. requests \ {m} \subseteq requests'
  BY DEF Serves
<1>5. ASSUME StoredOrComing PROVE StoredOrComing'
  <2>1. ASSUME NEW k, Coming(k) PROVE Coming(k)' \/ Stored(k)'
    <3>1. PICK n \in requests : n.cmd = "add" /\ n.num = k /\ n.value = 0
      BY <2>1 DEF Coming
    <3>2. CASE n = m
      BY <1>2, <3>1, <3>2
    <3>3. CASE n # m
      BY <1>4, <3>1, <3>3 DEF Coming
    <3> QED
      BY <3>2, <3>3
  <2>2. \A d \in Fresh', n \in Adds : Reached(d, n)' => d \in Fresh /\ Reached(d, n)
    BY <1>1, <1>3 DEF Reached
  <2> QED
    BY <1>2, <1>5, <2>1, <2>2, StoredOrComingKeeps
<1>6. ASSUME Outstanding, AnsweredStored PROVE AnsweredStored'
  <2>1. \A d \in Fresh', n \in Adds : at'[d] > n => Stored(Num(d, n))'
    BY <1>1, <1>2, <1>3, <1>6 DEF AnsweredStored
  <2>2. ASSUME NEW q \in replies', q.card \in Fresh', at'[q.card] >= FirstAdd
        PROVE  Stored(Num(q.card, at[q.card]))' /\ at'[q.card] = at[q.card]
    <3>1. CASE q \in replies
      BY <1>1, <1>2, <1>3, <1>6, <2>2, <3>1 DEF AnsweredStored
    <3>2. CASE q \notin replies
      <4> DEFINE c == m.card
      <4>1. c \in Cards /\ Answers(m) /\ q.card = c
        BY <1>1, <3>2 DEF Answers, Answer, RequestT
      <4>2. m = Asked(c) /\ reply'.cc # "silent"
        BY <1>6, <4>1 DEF Outstanding, Answers
      <4>3. at[c] >= FirstAdd
        BY <1>1, <2>2, <4>1
      <4>4. m.cmd = "add" /\ m.num = Num(c, at[c])
        BY <4>1, <4>2, <4>3, WhereCardIs DEF WInv, Asked, Request, Num
      <4> QED
        BY <1>1, <1>2, <4>1, <4>2, <4>4
    <3> QED
      BY <3>1, <3>2
  <2> QED
    BY <2>1, <2>2 DEF AnsweredStored, Adds, FirstAdd, FirstPoll, StateTable
<1> QED
  BY <1>5, <1>6

LEMMA RestartStores ==
    ASSUME WInv, NEW c \in Cards, Restart(c)
    PROVE  (StoredOrComing => StoredOrComing') /\ (AnsweredStored => AnsweredStored')
<1>1. /\ at' = [at EXCEPT ![c] = 1] /\ pc' = [pc EXCEPT ![c] = "ready"]
      /\ replies' = {r \in replies : r.card # c} /\ UNCHANGED requests
      /\ UNCHANGED sdrVars /\ Fresh' \subseteq Fresh \cup {c}
  BY DEF Restart, MMRests, Fresh
<1>2. \A k : (Stored(k) <=> Stored(k)')
  BY <1>1, RecordsSame
<1>3. at'[c] = 1 /\ \A d \in Cards : d # c => at'[d] = at[d] /\ pc'[d] = pc[d]
  BY <1>1 DEF WInv, CardT
<1>4. \A d \in Fresh' : d \in Cards
  BY DEF Fresh
<1>5. \A n \in Adds : ~(1 > n) /\ n # 1
  BY AddsType
<1>6. \A d \in Fresh', n \in Adds : Reached(d, n)' => d \in Fresh /\ Reached(d, n)
  BY <1>1, <1>3, <1>4, <1>5 DEF Reached
<1>7. \A k : Coming(k) => Coming(k)'
  BY <1>1 DEF Coming
<1>8. StoredOrComing => StoredOrComing'
  BY <1>2, <1>6, <1>7, StoredOrComingKeeps
<1>9. AnsweredStored => AnsweredStored'
  BY <1>1, <1>2, <1>3, <1>4, <1>5 DEF AnsweredStored, Adds, FirstAdd, FirstPoll, StateTable
<1> QED
  BY <1>8, <1>9

LEMMA LoseStores == ASSUME Lose, AnsweredStored PROVE AnsweredStored'
<1>1. UNCHANGED <<at, stale>> /\ UNCHANGED sdrVars /\ replies' \subseteq replies
  BY DEF Lose, MMRests, cardVars
<1>2. \A k : (Stored(k) <=> Stored(k)')
  BY <1>1, RecordsSame
<1> QED
  BY <1>1, <1>2 DEF AnsweredStored, Fresh, Adds, FirstAdd, FirstPoll, StateTable

LEMMA StepStores == IInv /\ WInv /\ OneAtATime /\ Added /\ [Next]_vars => Added'
<1> SUFFICES ASSUME IInv, WInv, OneAtATime, Added, [Next]_vars PROVE Added'
  OBVIOUS
<1>1. ASSUME faults \subseteq faults',
             "lost" \notin faults' /\ StoredOrComing => StoredOrComing',
             Outstanding /\ AnsweredStored => "repeated" \in faults' \/ AnsweredStored'
      PROVE  Added'
  BY <1>1 DEF Added, OneAtATime
<1>2. ASSUME NEW c \in Cards, Sends(c) PROVE Added'
  BY <1>1, <1>2, SendStores DEF Sends
<1>3. ASSUME NEW c \in Cards, NEW r \in replies, Receives(c, r) PROVE Added'
  BY <1>1, <1>3, ReceiveStores DEF Receives
<1>4. ASSUME NEW m \in requests, Serves(m) PROVE Added'
  BY <1>1, <1>4, ServeStores DEF Serves
<1>5. ASSUME NEW c \in Cards, Restart(c) PROVE Added'
  BY <1>1, <1>5, RestartStores DEF Restart
<1>6. CASE Lose
  BY <1>1, <1>6, LoseStores DEF Lose, Happens
<1>7. CASE Erase
  BY <1>7 DEF Erase, Happens, Added
<1>8. ASSUME Fresh' = {} PROVE Added'
  <2>1. StoredOrComing'
    BY <1>8 DEF StoredOrComing
  <2>2. AnsweredStored'
    BY <1>8 DEF AnsweredStored
  <2> QED
    BY <2>1, <2>2 DEF Added
<1>9. ASSUME NEW c \in Cards, Unreachable(c) PROVE Added'
  BY <1>8, <1>9 DEF Unreachable, Fresh, IInv, ClientsOK
<1>10. CASE MMStops \/ MMStarts
  BY <1>8, <1>10 DEF MMStops, MMStarts, Fresh, IInv, ClientsOK
<1>11. CASE UNCHANGED vars
  <2>1. UNCHANGED <<at, pc, stale, requests, replies, faults>> /\ UNCHANGED sdrVars
    BY <1>11 DEF vars, cardVars
  <2>2. \A k : (Stored(k) <=> Stored(k)')
    BY <2>1, RecordsSame
  <2> QED
    BY <2>1, <2>2 DEF Added, StoredOrComing, AnsweredStored, Fresh, Reached, Coming,
       Adds, FirstAdd, FirstPoll, StateTable
<1> QED
  BY <1>2, <1>3, <1>4, <1>5, <1>6, <1>7, <1>9, <1>10, <1>11, StepShapes

LEMMA InitStores == Init => OneAtATime /\ Added
<1> SUFFICES ASSUME Init PROVE OneAtATime /\ Added
  OBVIOUS
<1>1. \A c \in Fresh : at[c] = 1 /\ pc[c] # "waiting"
  BY DEF Init, Fresh
<1>2. requests = {} /\ replies = {}
  BY DEF Init
<1>3. \A n \in Adds : ~(1 > n)
  BY AddsType
<1> QED
  BY <1>1, <1>2, <1>3 DEF OneAtATime, Outstanding, Added, StoredOrComing, AnsweredStored, Reached

(* A record that was added for a card and answered is there as long as nobody
   erases, for every number of cards and sensors: addSdr answers after it
   stored (AddSdrCmd), and a card goes on when it was answered; replies carry
   no mark of their request, so a repeated one makes a card go on early, but
   its request is then under way, unless it was lost. *)
THEOREM AckedRecordsStored == Spec => []AckedIsStored
<1>1. Added => AckedIsStored
  <2> SUFFICES ASSUME Added, "erased" \notin faults, NEW c \in Cards \ stale,
                      NEW n \in FirstAdd .. FirstPoll - 1, at[c] > n
               PROVE  \/ Stored(SensorNum(c, Sensor(n)))
                      \/ \E m \in requests : m.num = SensorNum(c, Sensor(n))
                      \/ {"lost", "repeated"} \subseteq faults
    BY DEF AckedIsStored
  <2>1. CASE "lost" \notin faults
    BY <2>1 DEF Added, StoredOrComing, Fresh, Adds, Reached, Num, Coming
  <2>2. CASE "repeated" \notin faults
    BY <2>2 DEF Added, AnsweredStored, Fresh, Adds, Num
  <2> QED
    BY <2>1, <2>2
<1> QED
  BY <1>1, InitEstablishes, InitEstablishesW, InitStores, StepKeeps, StepKeepsW, StepKeepsOne,
     StepStores, PTL DEF Spec


-----------------------------------------------------------------------------
(* The values of the cards' sensors. A card's sensors have their 16 numbers
   each: a number is a byte, so two cards number their sensors alike just when
   their card numbers agree in the last four bits. *)
LEMMA NumbersShared ==
    ASSUME NEW c \in Cards, NEW d \in Cards, NEW i \in 1 .. PerCard, NEW j \in 1 .. PerCard
    PROVE  SensorNum(c, i) = SensorNum(d, j) <=> d \in Sharers(c) /\ i = j
<1>1. c \in 1 .. 255 /\ d \in 1 .. 255 /\ i \in 1 .. 15 /\ j \in 1 .. 15
  BY ChassisAssumption
<1>2. \A x \in 1 .. 255, n \in 1 .. 15 : (n + 16 * x) % 256 = n + 16 * (x % 16)
  OBVIOUS
<1>3. /\ SensorNum(c, i) = i + 16 * (c % 16)
      /\ SensorNum(d, j) = j + 16 * (d % 16)
  BY <1>1, <1>2 DEF SensorNum
<1>4. c % 16 \in 0 .. 15 /\ d % 16 \in 0 .. 15
  BY <1>1
<1>5. i + 16 * (c % 16) = j + 16 * (d % 16) <=> d % 16 = c % 16 /\ i = j
  BY <1>1, <1>4
<1> QED
  BY <1>3, <1>5 DEF Sharers

(* The last value of card d's i-th sensor excuses or explains what the MM shows
   for a sensor with the number k. *)
Explains(d, i, k) ==
    value[d][i] = 0 \/ Polling(d, i) \/ Sdr!SensorReading(0, k) = {value[d][i]}

Shown ==
    \A c \in Cards, i \in 1 .. PerCard :
       Sharers(c) \cap stale = {} => \E d \in Sharers(c) : Explains(d, i, SensorNum(c, i))

Followed == faults \cap {"repeated", "erased", "late"} = {} => Shown

(* A step that leaves the records alone, and of a card neither its value nor
   that it is polling. *)
LEMMA ExplainsStill ==
    ASSUME UNCHANGED sdrVars, NEW d, NEW i, NEW k, Explains(d, i, k),
           value'[d][i] = value[d][i], Polling(d, i) => Polling(d, i)'
    PROVE  value'[d][i] = 0 \/ Polling(d, i)' \/ Sdr!SensorReading(0, k)' = {value'[d][i]}
<1>1. Sdr!SensorReading(0, k)' = Sdr!SensorReading(0, k)
  BY RecordsSame
<1> QED
  BY <1>1 DEF Explains

(* To show what a step does: it is enough to explain each sensor's number. *)
LEMMA ShownNext ==
    ASSUME \A c \in Cards, i \in 1 .. PerCard :
              Sharers(c) \cap stale' = {} =>
                 \E d \in Sharers(c) :
                    \/ value'[d][i] = 0 \/ Polling(d, i)'
                    \/ Sdr!SensorReading(0, SensorNum(c, i))' = {value'[d][i]}
    PROVE  Shown'
  BY DEF Shown, Explains, Sharers, SensorNum

LEMMA SendShows == ASSUME WInv, Outstanding, NEW c \in Cards, Sends(c), Shown PROVE Shown'
<1>1. /\ pc[c] \in {"ready", "again"} /\ pc'[c] = "waiting"
      /\ \A d \in Cards : d # c => value'[d] = value[d] /\ pc'[d] = pc[d]
      /\ \A i \in 1 .. PerCard : value'[c][i] # value[c][i] =>
            at[c] >= FirstPoll /\ Sensor(at[c]) = i
      /\ UNCHANGED <<at, replies, stale>> /\ UNCHANGED sdrVars
  BY DEF Sends, MMRests, WInv, CardT
<1>2. \A r \in replies : r.card # c
  BY <1>1 DEF Outstanding
<1>3. ASSUME NEW e \in Cards, NEW i \in 1 .. PerCard, Sharers(e) \cap stale' = {}
      PROVE  \E d \in Sharers(e) :
                \/ value'[d][i] = 0 \/ Polling(d, i)'
                \/ Sdr!SensorReading(0, SensorNum(e, i))' = {value'[d][i]}
  <2>1. CASE c \in Sharers(e) /\ at[c] >= FirstPoll /\ Sensor(at[c]) = i
    <3>1. Polling(c, i)'
      BY <1>1, <1>2, <2>1 DEF Polling
    <3> QED
      BY <2>1, <3>1
  <2>2. CASE ~(c \in Sharers(e) /\ at[c] >= FirstPoll /\ Sensor(at[c]) = i)
    <3>1. PICK d \in Sharers(e) : Explains(d, i, SensorNum(e, i))
      BY <1>1, <1>3 DEF Shown
    <3>2. value'[d][i] = value[d][i] /\ (Polling(d, i) => Polling(d, i)')
      BY <1>1, <2>2 DEF Polling, Sharers
    <3> QED
      BY <1>1, <3>1, <3>2, ExplainsStill
  <2> QED
    BY <2>1, <2>2
<1> QED
  BY <1>3, ShownNext

LEMMA ReceiveShows ==
    ASSUME WInv, NEW c \in Cards, NEW r \in replies, Receive(c, r),
           replies' = replies \ {r}, Shown
    PROVE  Shown'
<1>1. /\ CardT /\ r.card = c /\ UNCHANGED <<value, stale>>
      /\ UNCHANGED sdrVars /\ (Stays(c) \/ Proceed(c))
  BY RefusedMoves DEF Receive, MMRests, WInv
<1>2. \A d \in Cards : d # c => at'[d] = at[d] /\ pc'[d] = pc[d]
  BY <1>1, MovesTyped
<1>3. ASSUME NEW d \in Cards, NEW i, Polling(d, i) PROVE Polling(d, i)'
  BY <1>1, <1>2, <1>3 DEF Polling
<1>4. ASSUME NEW e \in Cards, NEW i \in 1 .. PerCard, Sharers(e) \cap stale' = {}
      PROVE  \E d \in Sharers(e) :
                \/ value'[d][i] = 0 \/ Polling(d, i)'
                \/ Sdr!SensorReading(0, SensorNum(e, i))' = {value'[d][i]}
  <2>1. PICK d \in Sharers(e) : Explains(d, i, SensorNum(e, i))
    BY <1>1, <1>4 DEF Shown
  <2>2. d \in Cards /\ value'[d][i] = value[d][i]
    BY <1>1 DEF Sharers
  <2> QED
    BY <1>1, <1>3, <2>1, <2>2, ExplainsStill
<1> QED
  BY <1>4, ShownNext

(* A card that is started again has polled nothing. *)
LEMMA RestartShows == ASSUME WInv, NEW c \in Cards, Restart(c), Shown PROVE Shown'
<1>1. /\ at' = [at EXCEPT ![c] = 1] /\ pc' = [pc EXCEPT ![c] = "ready"]
      /\ value' = [value EXCEPT ![c] = [i \in 1 .. PerCard |-> 0]]
      /\ replies' \subseteq replies
      /\ UNCHANGED sdrVars /\ stale \subseteq stale' \cup {c}
  BY DEF Restart, MMRests
<1>2. /\ \A i \in 1 .. PerCard : value'[c][i] = 0
      /\ \A d \in Cards : d # c => at'[d] = at[d] /\ pc'[d] = pc[d] /\ value'[d] = value[d]
  BY <1>1 DEF WInv, CardT
<1>3. ASSUME NEW e \in Cards, NEW i \in 1 .. PerCard, Sharers(e) \cap stale' = {}
      PROVE  \E d \in Sharers(e) :
                \/ value'[d][i] = 0 \/ Polling(d, i)'
                \/ Sdr!SensorReading(0, SensorNum(e, i))' = {value'[d][i]}
  <2>1. CASE c \in Sharers(e)
    BY <1>2, <2>1
  <2>2. CASE c \notin Sharers(e)
    <3>1. PICK d \in Sharers(e) : Explains(d, i, SensorNum(e, i))
      BY <1>1, <1>3, <2>2 DEF Shown
    <3>2. d \in Cards /\ d # c
      BY <2>2 DEF Sharers
    <3>3. value'[d][i] = value[d][i] /\ (Polling(d, i) => Polling(d, i)')
      BY <1>1, <1>2, <3>2 DEF Polling
    <3> QED
      BY <1>1, <3>1, <3>3, ExplainsStill
  <2> QED
    BY <2>1, <2>2
<1> QED
  BY <1>3, ShownNext

(* A value that reaches the MM is the one its card is at, and goes to the
   record of the cards that share its number: here the numbers matter. *)
LEMMA ServeShows ==
    ASSUME WInv, Outstanding, NEW m \in requests, Handle(m), Current(m), Shown
    PROVE  Shown'
<1> DEFINE c == m.card
           Writes(k) == m.cmd = "add" /\ m.value # 0 /\ m.num = k
<1>1. /\ MMInv /\ CardT /\ m \in RequestT /\ c \in Cards /\ Dispatch(m)
      /\ UNCHANGED <<at, pc, stale, value>> /\ (Answers(m) \/ UNCHANGED replies)
      /\ reply'.cc = "silent" => UNCHANGED replies
  BY HandleShape DEF WInv, WireOK, RequestT, Answers
<1>2. /\ pc[c] = "waiting" /\ m = Asked(c)
      /\ \A r \in replies : r.card # c
  BY DEF Outstanding
<1>3. /\ m.value = IF at[c] < FirstPoll THEN 0 ELSE value[c][Sensor(at[c])]
      /\ m.cmd = Cmd(at[c])
      /\ m.num = IF at[c] < FirstAdd THEN 0 ELSE SensorNum(c, Sensor(at[c]))
  BY <1>2 DEF Asked, Request
<1>4. /\ at[c] \in Int /\ FirstPoll \in Int /\ FirstAdd = 5 /\ FirstPoll > FirstAdd
      /\ Cmd(at[c]) = "add" <=> at[c] >= FirstAdd
      /\ at[c] >= FirstAdd => Sensor(at[c]) \in 1 .. PerCard
  BY <1>1, WhereCardIs
<1>5. ASSUME NEW e \in Cards, NEW i \in 1 .. PerCard, Writes(SensorNum(e, i))
      PROVE  /\ c \in Sharers(e) /\ at[c] >= FirstPoll /\ Sensor(at[c]) = i
             /\ m.value = value[c][i]
  <2>1. at[c] >= FirstPoll /\ at[c] >= FirstAdd
    BY <1>3, <1>4, <1>5
  <2>2. SensorNum(e, i) = SensorNum(c, Sensor(at[c])) /\ Sensor(at[c]) \in 1 .. PerCard
    BY <1>3, <1>4, <1>5, <2>1
  <2>3. c \in Sharers(e) /\ i = Sensor(at[c])
    BY <1>1, <2>2, NumbersShared
  <2> QED
    BY <1>3, <1>4, <2>1, <2>3
<1>6. ASSUME NEW k, Stored(k), ~Writes(k)
      PROVE  Sdr!SensorReading(0, k)' = Sdr!SensorReading(0, k)
  BY <1>1, <1>6, DispatchRecords
<1>7. ASSUME NEW d \in Cards, d # c, NEW i, Polling(d, i) PROVE Polling(d, i)'
  BY <1>1, <1>7 DEF Polling, Answers, Answer
<1>8. ASSUME NEW e \in Cards, NEW i \in 1 .. PerCard, Sharers(e) \cap stale' = {}
      PROVE  \E d \in Sharers(e) :
                \/ value'[d][i] = 0 \/ Polling(d, i)'
                \/ Sdr!SensorReading(0, SensorNum(e, i))' = {value'[d][i]}
  <2> DEFINE k == SensorNum(e, i)
  <2>1. CASE Writes(k) /\ reply'.cc = "silent"
    <3>1. c \in Sharers(e) /\ at[c] >= FirstPoll /\ Sensor(at[c]) = i
      BY <1>5, <2>1
    <3>2. Polling(c, i)'
      BY <1>1, <1>2, <2>1, <3>1 DEF Polling
    <3> QED
      BY <3>1, <3>2
  <2>2. CASE Writes(k) /\ reply'.cc # "silent"
    <3>1. c \in Sharers(e) /\ m.value = value'[c][i]
      BY <1>1, <1>5, <2>2
    <3>2. Sdr!SensorReading(0, m.num)' = {m.value}
      BY <1>1, <2>2, DispatchRecords
    <3>3. Sdr!SensorReading(0, k)' = {value'[c][i]}
      BY <2>2, <3>1, <3>2
    <3> QED
      BY <3>1, <3>3
  <2>3. CASE ~Writes(k)
    <3>1. PICK d \in Sharers(e) : Explains(d, i, k)
      BY <1>1, <1>8 DEF Shown
    <3>2. d \in Cards /\ value' = value
      BY <1>1 DEF Sharers
    <3>3. CASE value[d][i] = 0
      BY <3>2, <3>3
    <3>4. CASE Polling(d, i) /\ d # c
      BY <1>7, <3>2, <3>4
    <3>5. CASE Polling(d, i) /\ d = c
      <4>1. at[c] >= FirstPoll /\ Sensor(at[c]) = i /\ at[c] >= FirstAdd /\ ~(at[c] < FirstPoll)
            /\ ~(at[c] < FirstAdd)
        BY <1>4, <3>5 DEF Polling
      <4>2. m.cmd = "add" /\ m.value = value[c][i] /\ m.num = SensorNum(c, i)
        BY <1>3, <1>4, <4>1
      <4>3. SensorNum(e, i) = SensorNum(c, i)
        BY <1>1, <3>5, NumbersShared
      <4> QED
        BY <2>3, <3>2, <3>5, <4>2, <4>3
    <3>6. CASE Sdr!SensorReading(0, k) = {value[d][i]}
      <4>1. Stored(k)
        BY <3>6 DEF Stored, Sdr!SensorReading
      <4>2. Sdr!SensorReading(0, k)' = Sdr!SensorReading(0, k)
        <5> HIDE DEF k
        <5> QED
          BY <1>6, <2>3, <4>1
      <4> QED
        BY <3>2, <3>6, <4>2
    <3> QED
      BY <3>1, <3>3, <3>4, <3>5, <3>6 DEF Explains
  <2> QED
    BY <2>1, <2>2, <2>3
<1> QED
  BY <1>8, ShownNext

LEMMA QuietShows ==
    ASSUME UNCHANGED cardVars, UNCHANGED stale, UNCHANGED sdrVars, replies' \subseteq replies, Shown
    PROVE  Shown'
<1>1. ASSUME NEW e \in Cards, NEW i \in 1 .. PerCard, Sharers(e) \cap stale' = {}
      PROVE  \E d \in Sharers(e) :
                \/ value'[d][i] = 0 \/ Polling(d, i)'
                \/ Sdr!SensorReading(0, SensorNum(e, i))' = {value'[d][i]}
  <2>1. PICK d \in Sharers(e) : Explains(d, i, SensorNum(e, i))
    BY <1>1 DEF Shown
  <2>2. value' = value /\ (Polling(d, i) => Polling(d, i)')
    BY DEF Polling, cardVars
  <2> QED
    BY <2>1, <2>2, ExplainsStill
<1> QED
  BY <1>1, ShownNext

(* After a restart of the MM no card is fresh, so that none is left alone by it. *)
LEMMA StaleShows == Fresh' = {} => Shown'
  BY DEF Fresh, Shown, Sharers

LEMMA StepShows == IInv /\ WInv /\ OneAtATime /\ Followed /\ [Next]_vars => Followed'
<1> SUFFICES ASSUME IInv, WInv, OneAtATime, Followed, [Next]_vars,
                    faults' \cap {"repeated", "erased", "late"} = {}
             PROVE  Shown'
  BY DEF Followed
<1>1. ASSUME faults \subseteq faults' PROVE Outstanding /\ Shown
  BY <1>1 DEF OneAtATime, Followed
<1>2. ASSUME NEW c \in Cards, Sends(c) PROVE Shown'
  BY <1>1, <1>2, SendShows DEF Sends
<1>3. ASSUME NEW c \in Cards, NEW r \in replies, Receives(c, r) PROVE Shown'
  BY <1>1, <1>3, ReceiveShows DEF Receives
<1>4. ASSUME NEW m \in requests, Serves(m) PROVE Shown'
  BY <1>1, <1>4, ServeShows DEF Serves
<1>5. ASSUME NEW c \in Cards, Restart(c) PROVE Shown'
  BY <1>1, <1>5, RestartShows DEF Restart
<1>6. CASE Lose
  BY <1>1, <1>6, QuietShows DEF Lose, Happens, MMRests
<1>7. ~Erase
  BY DEF Erase, Happens
<1>8. ASSUME NEW c \in Cards, Unreachable(c) PROVE Shown'
  BY <1>8, StaleShows DEF Unreachable, Fresh, IInv, ClientsOK
<1>9. CASE MMStops \/ MMStarts
  BY <1>9, StaleShows DEF MMStops, MMStarts, Fresh, IInv, ClientsOK
<1>10. CASE UNCHANGED vars
  BY <1>1, <1>10, QuietShows DEF vars
<1> QED
  BY <1>2, <1>3, <1>4, <1>5, <1>6, <1>7, <1>8, <1>9, <1>10, StepShapes

LEMMA InitShows == Init => Followed
<1> SUFFICES ASSUME Init PROVE Shown
  BY DEF Followed
<1>1. \A c \in Cards, i \in 1 .. PerCard : c \in Sharers(c) /\ value[c][i] = 0
  BY DEF Init, Sharers
<1> QED
  BY <1>1 DEF Shown, Explains

(* What the MM shows for a sensor is what a card that numbers a sensor so last
   polled, as long as no datagram is repeated, late or overtaken by an erase
   (addNewSensors, UpdateSdrCmd): a card sends its next value only when the
   last one was answered, so no older value comes back. From the 17th card on
   the byte that numbers the sensors begins again, and the cards that share
   numbers share records. *)
THEOREM ProxiesFollow == Spec => []ProxyFollows
<1>1. Followed => ProxyFollows
  BY DEF Followed, Shown, Explains, ProxyFollows
<1>2. IInv /\ WInv /\ OneAtATime /\ Followed /\ [Next]_vars => Followed'
  BY StepShows
<1> QED
  BY <1>1, <1>2, InitEstablishes, InitEstablishesW, InitStores, InitShows, StepKeeps, StepKeepsW,
     StepKeepsOne, PTL DEF Spec

(* A card whose numbers no other card has is on its own: the MM shows what this
   card last polled, whatever the others do. *)
OwnProxy(c) ==
    faults \cap {"repeated", "erased", "late"} = {} =>
       \A i \in 1 .. PerCard :
          \/ c \in stale \/ value[c][i] = 0 \/ Polling(c, i)
          \/ Sdr!SensorReading(0, SensorNum(c, i)) = {value[c][i]}

LEMMA OnItsOwn ==
    ASSUME NEW c \in Cards, Sharers(c) = {c}, ProxyFollows
    PROVE  OwnProxy(c)
  BY DEF ProxyFollows, OwnProxy

(* The first 16 cards have numbers of their own (addNewSensors): with no others,
   the MM shows for each sensor of each card what this card last polled. *)
THEOREM SixteenCards ==
    ASSUME Cards \subseteq 1 .. 16
    PROVE  Spec => [](\A c \in Cards : OwnProxy(c))
<1>1. \A c, d \in Cards : d % 16 = c % 16 => d = c
  OBVIOUS
<1>2. \A c \in Cards : Sharers(c) = {c}
  BY <1>1 DEF Sharers
<1>3. ProxyFollows => \A c \in Cards : OwnProxy(c)
  BY <1>2, OnItsOwn
<1> QED
  BY <1>3, ProxiesFollow, PTL


-----------------------------------------------------------------------------
(* A card that nothing disturbs: its requests are answered, each with what the
   next exchange needs. *)
ForUser(sid) == sid.tmp = 1 /\ sid.idx = 2

Good(r) ==
    /\ r.cc = "OK"
    /\ r.cmd = "challenge" => ForUser(r.data)
    /\ r.cmd = "activate" => r.data # Lan!NoSid

Prospers(c) ==
    /\ \/ pc[c] = "ready"
       \/ /\ pc[c] = "waiting"
          /\ \/ \E m \in requests : m.card = c /\ m.life = life[c]
             \/ \E r \in replies : r.card = c
    /\ at[c] > 2 => ForUser(ctx[c].temp)
    /\ at[c] > 3 => ctx[c].sid # Lan!NoSid
    /\ \A r \in replies : r.card = c => Good(r)

AllProsper == \A c \in Cards : Undisturbed(c) => Prospers(c)

(* Cards ask for operator privilege, so that is the limit of every session. *)
Operators == \A s \in Lan!Active : sessions[s].maxPriv = 3

LEMMA LimitsKept ==
    ASSUME Operators,
           \A s \in Lan!Slots : sessions'[s].active =>
              \/ sessions[s].active /\ sessions'[s].maxPriv = sessions[s].maxPriv
              \/ sessions'[s].maxPriv = 3
    PROVE  Operators'
  BY DEF Operators, Lan!Active

LEMMA SpentLimits ==
    ASSUME TableOK, NEW s, NEW t \in Lan!Slots
    PROVE  /\ Lan!Spent(s)[t].active = sessions[t].active
           /\ Lan!Spent(s)[t].maxPriv = sessions[t].maxPriv
           /\ DOMAIN Lan!Spent(s) = Lan!Slots
           /\ \A p : /\ [Lan!Spent(s) EXCEPT ![s].priv = p][t].active = sessions[t].active
                     /\ [Lan!Spent(s) EXCEPT ![s].priv = p][t].maxPriv = sessions[t].maxPriv
  BY DEF TableOK, Lan!Spent, Lan!SessionT

LEMMA AnswerLimits ==
    ASSUME TableOK, Operators, NEW sid, NEW cc, NEW data, Lan!Answer(sid, cc, data)
    PROVE  Operators'
  BY SpentLimits, LimitsKept DEF Lan!Answer, Lan!AnswerOn

LEMMA DispatchLimits ==
    ASSUME TableOK, Operators, NEW m, Dispatch(m) PROVE Operators'
<1>1. CASE UNCHANGED sessions
  BY <1>1, LimitsKept
<1>2. ASSUME NEW sid, NEW cc, NEW data, Lan!Answer(sid, cc, data) PROVE Operators'
  BY <1>2, AnswerLimits
<1>3. CASE Lan!ActivateTemporary(m.sid, "NONE", "NONE", 3, 1)
  <2>1. CASE Lan!OpenSession(m.sid, 3, 1)
    <3>1. \A s \in Lan!Slots : sessions'[s] = sessions[s] \/ sessions'[s].maxPriv = 3
      BY <2>1 DEF Lan!OpenSession, TableOK
    <3> QED
      BY <3>1, LimitsKept
  <2> QED
    BY <1>1, <1>3, <2>1 DEF Lan!ActivateTemporary, Lan!Drop
<1>4. CASE Lan!SetSessionPrivilege(m.sid, 3)
  <2>1. ASSUME NEW s, NEW p, sessions' = [Lan!Spent(s) EXCEPT ![s].priv = p] PROVE Operators'
    BY <2>1, SpentLimits, LimitsKept
  <2>2. ASSUME NEW s, sessions' = Lan!Spent(s) PROVE Operators'
    BY <2>2, SpentLimits, LimitsKept
  <2> QED
    BY <1>1, <1>4, <2>1, <2>2 DEF Lan!SetSessionPrivilege, Lan!AnswerOn, Lan!Drop
<1> QED
  BY <1>1, <1>2, <1>3, <1>4
     DEF Dispatch, Add, Update, Lan!OtherCommand, Lan!Unanswered, Lan!Drop,
         Lan!GetChannelAuthCapabilities, Lan!GetSessionChallenge

LEMMA StepLimits == IInv /\ WInv /\ Operators /\ [Next]_vars => Operators'
<1> SUFFICES ASSUME IInv, WInv, Operators, [Next]_vars PROVE Operators'
  OBVIOUS
<1>1. CASE UNCHANGED sessions
  BY <1>1, LimitsKept
<1>2. ASSUME NEW m \in requests, Serves(m) PROVE Operators'
  BY <1>2, DispatchLimits DEF Serves, Handle, IInv
<1>3. CASE MMStarts
  BY <1>3 DEF MMStarts, Operators, Lan!Active, Lan!ZeroSession
<1>4. MMRests => UNCHANGED sessions
  BY DEF MMRests, tableVars
<1> QED
  BY <1>1, <1>2, <1>3, <1>4, StepShapes
     DEF Sends, Receives, Receive, Restart, Unreachable, Lose, Erase, MMStops, vars, tableVars

-----------------------------------------------------------------------------
(* A session of a card leads to its slot. *)
LEMMA SessionFound ==
    ASSUME IInv, WInv, NEW c \in Fresh, ctx[c].sid # Lan!NoSid
    PROVE  \E s \in Lan!Active : Lan!SidToSession(ctx[c].sid) = {s}
<1>1. c \in Cards /\ ctx[c].sid \in Lan!Sids /\ Claim(c, ctx[c].sid)
  BY DEF Fresh, IInv, ClientsOK, Claim
<1>2. ctx[c].sid \in OpenSids
  BY <1>1 DEF IInv, Apart
<1>3. Lan!Reachable
  BY MMFollows DEF WInv, MMConsistent
<1> QED
  BY <1>2, <1>3 DEF OpenSids, Lan!Reachable

LEMMA AnswerGiven ==
    ASSUME NEW sid, NEW data, Lan!Answer(sid, "OK", data),
           sid = Lan!NoSid \/ Lan!SidToSession(sid) # {}
    PROVE  reply'.cc = "OK" /\ reply'.data = data
  BY DEF Lan!Answer, Lan!AnswerOn, Lan!Reply

(* As long as cards were started no more often than there are slots, one is
   left for a card that has yet to ask for it. *)
LEMMA RoomLeft ==
    ASSUME TInv, Starts <= MaxSessions, "repeated" \notin faults,
           NEW m \in requests, Current(m), at[m.card] <= 3
    PROVE  activeSessions < MaxSessions
<1>1. m \in Asking
  BY DEF Asking
<1>2. Cardinality(Asking \ {m}) + 1 <= Cardinality(Asking) /\ Cardinality(Asking \ {m}) \in Nat
  BY <1>1, Counts, OneLess
<1> QED
  BY <1>2, Counts, ChassisAssumption DEF TInv, SlotsBound, Spare

(* The record a card polls for was added before. *)
LEMMA PolledStored ==
    ASSUME CardT, AnsweredStored, NEW c \in Fresh, at[c] >= FirstPoll
    PROVE  Stored(SensorNum(c, Sensor(at[c])))
<1>1. c \in Cards /\ at[c] \in Exchanges
  BY DEF Fresh, CardT
<1> DEFINE n == at[c] - PerCard
<1>2. n \in Adds /\ at[c] > n /\ Sensor(n) = Sensor(at[c])
  BY <1>1, Numbers DEF Adds, Sensor
<1> HIDE DEF n
<1> QED
  BY <1>2 DEF AnsweredStored, Num

LEMMA GoodAnswer ==
    ASSUME IInv, TInv, TInv', Operators, Outstanding, AnsweredStored, "repeated" \notin faults,
           Starts <= MaxSessions, NEW m \in requests, Current(m), Dispatch(m),
           m.card \in Fresh, Prospers(m.card)
    PROVE  Good(Answer(m))
<1> DEFINE c == m.card
<1>1. CardT /\ c \in Cards /\ m = Asked(c) /\ WInv /\ at[c] \in Int
  BY WhereCardIs DEF TInv, WInv, Outstanding, Fresh
<1>2. m.cmd = Cmd(at[c]) /\ m.sid = HeaderSid(c, at[c]) /\ at[c] \in Exchanges
  BY <1>1 DEF Asked, Request, CardT
<1>3. at[c] <= 3 => activeSessions < MaxSessions
  BY RoomLeft
<1>4. ASSUME reply'.cc = "OK",
             m.cmd = "challenge" => ForUser(reply'.data),
             m.cmd = "activate" => reply'.data # Lan!NoSid
      PROVE  Good(Answer(m))
  BY <1>4 DEF Good, Answer
<1>5. at[c] <= 2 => m.sid = Lan!NoSid
  BY <1>1, <1>2 DEF HeaderSid
<1>6. ASSUME at[c] > 3
      PROVE  Lan!SidToSession(m.sid) # {} /\
                \E s \in Lan!Active : Lan!SidToSession(m.sid) = {s}
  <2>1. m.sid = ctx[c].sid
    BY <1>1, <1>2, <1>6 DEF HeaderSid
  <2>2. PICK s \in Lan!Active : Lan!SidToSession(ctx[c].sid) = {s}
    BY <1>6, SessionFound, <1>1 DEF Prospers
  <2>3. {s} # {} /\ Lan!SidToSession(m.sid) = {s}
    BY <2>1, <2>2
  <2> QED
    BY <2>3
<1>7. at[c] \in {1, 2, 3, 4} \/ (at[c] >= 5 /\ m.cmd = "add")
  <2>1. at[c] >= 1 /\ at[c] \in Int /\ FirstAdd = 5
    BY <1>1, <1>2, Numbers DEF Exchanges
  <2>2. Cmd(at[c]) = "add" <=> at[c] >= FirstAdd
    BY <1>2, Steps
  <2> QED
    BY <1>2, <2>1, <2>2
<1>8. /\ at[c] = 1 => m.cmd = "caps"
      /\ at[c] = 2 => m.cmd = "challenge"
      /\ at[c] = 3 => m.cmd = "activate"
      /\ at[c] = 4 => m.cmd = "privilege"
  BY <1>2, Numbers DEF Cmd, StateTable
<1>9. CASE at[c] = 1
  <2>1. Lan!GetChannelAuthCapabilities(m.sid, "NONE", FALSE, TRUE)
    BY <1>8, <1>9 DEF Dispatch
  <2>2. Lan!Answer(m.sid, "OK", Lan!NoSid)
    BY <2>1 DEF Lan!GetChannelAuthCapabilities, Lan!Unauthenticated
  <2> QED
    BY <1>4, <1>5, <1>8, <1>9, <2>2, AnswerGiven
<1>10. CASE at[c] = 2
  <2>1. Lan!GetSessionChallenge(m.sid, "NONE", 2, "NONE")
    BY <1>8, <1>10 DEF Dispatch
  <2>2. activeSessions \in Nat /\ activeSessions < MaxSessions /\ MaxSessions \in Nat
    BY <1>3, <1>10, Counts, ChassisAssumption
  <2>3. Lan!ChallengeRefusal(2, "NONE") = "OK"
    BY <2>2 DEF Lan!ChallengeRefusal, Lan!AllowedAuths, Lan!Users
  <2>4. Lan!Answer(m.sid, "OK", Lan!TempSid(2))
    BY <2>1, <2>3 DEF Lan!GetSessionChallenge, Lan!Unauthenticated
  <2>5. reply'.cc = "OK" /\ reply'.data = Lan!TempSid(2)
    BY <1>5, <1>10, <2>4, AnswerGiven
  <2> QED
    BY <1>4, <1>8, <1>10, <2>5 DEF ForUser, Lan!TempSid
<1>11. CASE at[c] = 3
  <2>1. Lan!ActivateTemporary(m.sid, "NONE", "NONE", 3, 1)
    BY <1>8, <1>11 DEF Dispatch
  <2>2. m.sid.idx = 2
    BY <1>2, <1>11 DEF HeaderSid, Prospers, ForUser
  <2>3. Lan!Admissible(m.sid, "NONE", "NONE")
    BY <1>3, <1>11, <2>2 DEF Lan!Admissible, Lan!Users, Lan!AllowedAuths
  <2>4. Lan!ActivateRefusal(2, 3, 1) \in {"NO_SLOT", "OK"}
    BY DEF Lan!ActivateRefusal, Lan!UserMaxPriv, Lan!Users, Lan!ADMIN, Lan!USER
  <2>5. reply'.cc # "NO_SLOT"
    <3>1. (reply.cc # "NO_SLOT")'
      BY DEF TInv, WInv, MMInv, LanP!IInv, LanP!SlotAvailable
    <3> QED
      BY <3>1
  <2>6. Lan!OpenSession(m.sid, 3, 1)
    BY <2>1, <2>2, <2>3, <2>4, <2>5 DEF Lan!ActivateTemporary, Lan!Reply
  <2>7. PICK s \in Lan!Slots : reply' = Lan!Reply(m.sid, 1, "OK", Lan!SessionSid(s))
    BY <2>6 DEF Lan!OpenSession
  <2>8. s # 0
    BY ChassisAssumption DEF Lan!Slots
  <2> QED
    BY <1>4, <1>8, <1>11, <2>7, <2>8 DEF Lan!Reply, Lan!SessionSid, Lan!NoSid
<1>12. CASE at[c] = 4
  <2>1. Lan!SetSessionPrivilege(m.sid, 3)
    BY <1>8, <1>12 DEF Dispatch
  <2>2. PICK s \in Lan!Active : Lan!SidToSession(m.sid) = {s}
    BY <1>6, <1>12
  <2>3. Lan!AskedPriv(s, 3) = 3 /\ Lan!PrivRefusal(s, 3) = "OK"
    BY <2>2 DEF Operators, Lan!AskedPriv, Lan!PrivRefusal, Lan!CALLBACK
  <2>4. reply' = Lan!Reply(m.sid, sessions[s].xmitSeq, "OK", Lan!NoSid)
    BY <2>1, <2>2, <2>3 DEF Lan!SetSessionPrivilege
  <2> QED
    BY <1>4, <1>8, <1>12, <2>4 DEF Lan!Reply
<1>13. CASE at[c] >= 5 /\ m.cmd = "add"
  <2>1. m.value # 0 => Stored(m.num)
    <3>1. m.value # 0 => at[c] >= FirstPoll
      <4>1. Asked(c).value = IF at[c] < FirstPoll THEN 0 ELSE value[c][Sensor(at[c])]
        BY DEF Asked, Request
      <4>2. at[c] < FirstPoll \/ at[c] >= FirstPoll
        BY <1>1, Numbers
      <4>3. at[c] < FirstPoll => Asked(c).value = 0
        BY <4>1
      <4> QED
        BY <1>1, <4>2, <4>3
    <3>2. m.num = SensorNum(c, Sensor(at[c]))
      BY <1>1, <1>13, Numbers DEF Asked, Request
    <3> QED
      BY <1>1, <3>1, <3>2, PolledStored
  <2>2. Lan!OtherCommand(m.sid, "OK")
    BY <1>13, <2>1 DEF Dispatch, Add, Update
  <2>3. Lan!Answer(m.sid, "OK", Lan!NoSid)
    BY <2>2 DEF Lan!OtherCommand
  <2>4. at[c] > 3
    BY <1>1, <1>13
  <2>5. reply'.cc = "OK"
    BY <1>6, <2>3, <2>4, AnswerGiven
  <2> QED
    BY <1>4, <1>13, <2>5
<1> QED
  BY <1>7, <1>9, <1>10, <1>11, <1>12, <1>13

-----------------------------------------------------------------------------
(* Steps that have nothing to do with card d. *)
LEMMA ProspersKept ==
    ASSUME NEW d \in Cards, Prospers(d),
           at'[d] = at[d], pc'[d] = pc[d], ctx'[d] = ctx[d], life'[d] = life[d],
           \A m \in requests : m.card = d /\ m.life = life[d] => m \in requests',
           \A r \in replies : r.card = d => r \in replies',
           \A r \in replies' : r.card = d => r \in replies
    PROVE  Prospers(d)'
  BY DEF Prospers, Good, ForUser, Lan!NoSid

LEMMA SendProspers ==
    ASSUME WInv, NEW c \in Cards, Sends(c), NEW d \in Cards, Prospers(d)
    PROVE  Prospers(d)'
<1>1. /\ pc'[c] = "waiting" /\ \A e \in Cards : e # c => pc'[e] = pc[e]
      /\ requests' = requests \cup {Sent(c)} /\ UNCHANGED <<at, ctx, life, replies>>
  BY DEF Sends, WInv, CardT
<1>2. Sent(c).card = c /\ Sent(c).life = life[c]
  BY DEF Sent, Request
<1>3. CASE d = c
  <2>1. \E m \in requests' : m.card = d /\ m.life = life'[d]
    BY <1>1, <1>2, <1>3
  <2> QED
    BY <1>1, <1>3, <2>1 DEF Prospers, Good, ForUser, Lan!NoSid
<1>4. CASE d # c
  BY <1>1, <1>4, ProspersKept
<1> QED
  BY <1>3, <1>4

LEMMA ReceiveProspers ==
    ASSUME WInv, Outstanding, NEW c \in Cards, NEW r \in replies, Receive(c, r),
           replies' = replies \ {r}, NEW d \in Cards, Prospers(d)
    PROVE  Prospers(d)'
<1>1. /\ CardT /\ r.card = c /\ UNCHANGED <<life, requests>> /\ (Stays(c) \/ Proceed(c))
      /\ r.cmd = Cmd(at[c])
  BY RefusedMoves DEF Receive, WInv, Outstanding
<1>2. CASE d # c
  <2>1. at'[d] = at[d] /\ pc'[d] = pc[d]
    BY <1>1, <1>2, MovesTyped
  <2>2. ctx'[d] = ctx[d]
    BY <1>1, <1>2 DEF Receive, Refused, CardT
  <2> QED
    BY <1>1, <1>2, <2>1, <2>2, ProspersKept
<1>3. CASE d = c
  <2>1. Good(r) /\ Accepted(c, r)
    BY <1>1, <1>3 DEF Prospers, Good, Accepted
  <2>2. ctx' = [ctx EXCEPT ![c] = NewCtx(c, r)] /\ Proceed(c)
    BY <2>1 DEF Receive
  <2>3. ctx'[c] = NewCtx(c, r) /\ pc'[c] = "ready" /\ at'[c] = Following(at[c])
    BY <1>1, <2>2 DEF CardT, Proceed
  <2>4. at[c] \in Exchanges /\ at[c] \in Int
    BY <1>1, WhereCardIs
  <2>5. \/ at[c] > 2
        \/ at[c] = 2 /\ r.cmd = "challenge"
        \/ at[c] < 2 /\ at'[c] <= 2
    <3>1. at[c] = 2 => Cmd(at[c]) = "challenge"
      BY Numbers DEF Cmd, StateTable
    <3>2. at[c] < 2 => Following(at[c]) <= 2
      BY <2>4, Numbers, Steps
    <3> QED
      BY <1>1, <2>3, <2>4, <3>1, <3>2
  <2>6. \/ at[c] > 3
        \/ at[c] = 3 /\ r.cmd = "activate"
        \/ at[c] < 3 /\ at'[c] <= 3
    BY <1>1, <2>3, <2>4, Numbers, Steps
  <2>7. at'[c] > 2 => ForUser(ctx'[c].temp)
    <3>1. r.cmd = "challenge" => ctx'[c].temp = r.data
      BY <1>1, <2>3 DEF NewCtx, CardT
    <3>2. r.cmd # "challenge" => ctx'[c].temp = ctx[c].temp
      BY <1>1, <2>3 DEF NewCtx, CardT
    <3>3. at'[c] \in Int
      BY <2>3, <2>4, Steps
    <3> QED
      BY <1>3, <2>1, <2>5, <3>1, <3>2, <3>3 DEF Good, Prospers
  <2>8. at'[c] > 3 => ctx'[c].sid # Lan!NoSid
    <3>1. r.cmd = "activate" => ctx'[c].sid = r.data
      BY <1>1, <2>3 DEF NewCtx, CardT
    <3>2. r.cmd # "activate" => ctx'[c].sid = ctx[c].sid
      BY <1>1, <2>3 DEF NewCtx, CardT
    <3>3. at'[c] \in Int
      BY <2>3, <2>4, Steps
    <3> QED
      BY <1>3, <2>1, <2>6, <3>1, <3>2, <3>3 DEF Good, Prospers
  <2>9. \A q \in replies' : q.card # c
    BY <1>1 DEF Outstanding
  <2> QED
    BY <1>3, <2>3, <2>7, <2>8, <2>9 DEF Prospers, Lan!NoSid, ForUser
<1> QED
  BY <1>2, <1>3

LEMMA ServeProspers ==
    ASSUME IInv, TInv, TInv', Operators, Outstanding, AnsweredStored, "repeated" \notin faults,
           Starts <= MaxSessions, NEW m \in requests, Handle(m), requests' = requests \ {m},
           NEW d \in Fresh, Prospers(d)
    PROVE  Prospers(d)'
<1>1. m \in RequestT /\ d \in Cards
  BY DEF TInv, WInv, WireOK, Fresh
<1>2. /\ Dispatch(m) /\ UNCHANGED <<life, at, pc, ctx>>
      /\ Answers(m) \/ (UNCHANGED replies /\ (Current(m) => reply'.cc = "silent"))
  BY <1>1, HandleShape
<1>3. Answer(m).card = m.card /\ Answer(m).cc = reply'.cc
  BY DEF Answer
<1>4. CASE m.card = d /\ Current(m)
  <2>1. pc[d] = "waiting" /\ Good(Answer(m))
    BY <1>2, <1>4, GoodAnswer DEF Outstanding
  <2>2. Answers(m)
    BY <1>2, <1>3, <1>4, <2>1 DEF Good
  <2>3. replies' = replies \cup {Answer(m)}
    BY <2>2 DEF Answers
  <2>4. \E r \in replies' : r.card = d
    BY <1>3, <1>4, <2>3
  <2>5. \A r \in replies' : r.card = d => Good(r)
    BY <2>1, <2>3 DEF Prospers
  <2> QED
    BY <1>2, <2>1, <2>4, <2>5 DEF Prospers, Good, ForUser, Lan!NoSid
<1>5. CASE ~(m.card = d /\ Current(m))
  <2>1. \A q \in requests : q.card = d /\ q.life = life[d] => q \in requests'
    BY <1>5 DEF Current
  <2>2. /\ \A r \in replies : r.card = d => r \in replies'
        /\ \A r \in replies' : r.card = d => r \in replies
    BY <1>2, <1>3, <1>5 DEF Answers
  <2> QED
    BY <1>1, <1>2, <2>1, <2>2, ProspersKept
<1> QED
  BY <1>4, <1>5

LEMMA RestartProspers ==
    ASSUME WInv, NEW c \in Cards, Restart(c), NEW d \in Cards, d = c \/ Prospers(d)
    PROVE  Prospers(d)'
<1>1. /\ CardT
      /\ life' = [life EXCEPT ![c] = @ + 1] /\ at' = [at EXCEPT ![c] = 1]
      /\ pc' = [pc EXCEPT ![c] = "ready"] /\ ctx' = [ctx EXCEPT ![c] = NoCtx]
      /\ replies' = {r \in replies : r.card # c} /\ UNCHANGED requests
  BY DEF Restart, WInv
<1>2. CASE d = c
  <2>1. at'[d] = 1 /\ pc'[d] = "ready" /\ \A r \in replies' : r.card # d
    BY <1>1, <1>2 DEF CardT
  <2> QED
    BY <2>1 DEF Prospers
<1>3. CASE d # c
  <2>1. at'[d] = at[d] /\ pc'[d] = pc[d] /\ ctx'[d] = ctx[d] /\ life'[d] = life[d]
    BY <1>1, <1>3 DEF CardT
  <2> QED
    BY <1>1, <1>3, <2>1, ProspersKept
<1> QED
  BY <1>2, <1>3

(* What is undisturbed was so before, unless the step starts the card. *)
LEMMA WasUndisturbed ==
    ASSUME TInv, TInv', faults \subseteq faults', up' => up, stale \subseteq stale',
           StartsOfCards \subseteq StartsOfCards', NEW d \in Cards, Undisturbed(d)'
    PROVE  Undisturbed(d)
<1>1. Starts \in Nat /\ Starts' \in Nat /\ Starts <= Starts'
  <2>1. IsFiniteSet(StartsOfCards')
    BY DEF TInv, Finite
  <2> QED
    BY <2>1, Fewer DEF Starts
<1> QED
  BY <1>1, ChassisAssumption DEF Undisturbed

LEMMA SameStarts == UNCHANGED life => StartsOfCards' = StartsOfCards
  BY DEF StartsOfCards

LEMMA MoreStarts ==
    ASSUME CardT, NEW c \in Cards, life' = [life EXCEPT ![c] = @ + 1]
    PROVE  StartsOfCards \subseteq StartsOfCards'
<1>1. \A d \in Cards : life[d] \in Nat /\ life'[d] \in Nat /\ life[d] <= life'[d]
  BY DEF CardT
<1>2. ASSUME NEW d \in Cards PROVE 1 .. life[d] \subseteq 1 .. life'[d]
  BY <1>1
<1> QED
  BY <1>2 DEF StartsOfCards

LEMMA StepProspers ==
    IInv /\ TInv /\ OneAtATime /\ Added /\ Operators /\ AllProsper /\ [Next]_vars => AllProsper'
<1> SUFFICES ASSUME IInv, TInv, OneAtATime, Added, Operators, AllProsper, [Next]_vars,
                    NEW d \in Cards, Undisturbed(d)'
             PROVE  Prospers(d)'
  BY DEF AllProsper
<1>1. TInv' /\ WInv /\ CardT
  BY StepTrades DEF TInv, WInv
<1>2. /\ faults' \cap {"lost", "repeated", "erased"} = {}
      /\ up' /\ d \notin stale'
  BY DEF Undisturbed
<1>3. ASSUME faults \subseteq faults', up' => up, stale \subseteq stale', UNCHANGED life
      PROVE  /\ Undisturbed(d) /\ Prospers(d) /\ d \in Fresh
             /\ Outstanding /\ AnsweredStored /\ "repeated" \notin faults
             /\ Starts <= MaxSessions
  <2>1. Undisturbed(d)
    BY <1>1, <1>3, SameStarts, WasUndisturbed
  <2> QED
    BY <2>1 DEF AllProsper, Undisturbed, Fresh, OneAtATime, Added
<1>4. ASSUME NEW c \in Cards, Sends(c) PROVE Prospers(d)'
  BY <1>1, <1>3, <1>4, SendProspers DEF Sends, MMRests, tableVars
<1>5. ASSUME NEW c \in Cards, NEW r \in replies, Receives(c, r) PROVE Prospers(d)'
  <2>1. replies' = replies \ {r} /\ Receive(c, r) /\ UNCHANGED faults
    BY <1>2, <1>5 DEF Receives
  <2>2. UNCHANGED <<life, stale>> /\ (up' => up)
    BY <2>1 DEF Receive, MMRests, tableVars
  <2> QED
    BY <1>1, <1>3, <2>1, <2>2, ReceiveProspers
<1>6. ASSUME NEW m \in requests, Serves(m) PROVE Prospers(d)'
  <2>1. requests' = requests \ {m} /\ Handle(m) /\ faults \subseteq faults'
    BY <1>2, <1>6 DEF Serves
  <2>2. UNCHANGED <<life, stale>> /\ up
    BY <2>1 DEF Handle, cardVars
  <2> QED
    BY <1>1, <1>3, <2>1, <2>2, ServeProspers
<1>7. ASSUME NEW c \in Cards, Restart(c) PROVE Prospers(d)'
  <2>1. d # c => Prospers(d)
    <3>1. StartsOfCards \subseteq StartsOfCards'
      BY <1>1, <1>7, MoreStarts DEF Restart
    <3>2. /\ UNCHANGED faults /\ UNCHANGED up
          /\ d # c => d \notin stale
      BY <1>2, <1>7 DEF Restart, MMRests, tableVars
    <3>3. Starts \in Nat /\ Starts' \in Nat /\ Starts <= Starts'
      BY <1>1, <3>1, Fewer DEF Starts, TInv, Finite
    <3>4. Starts' <= MaxSessions
      BY DEF Undisturbed
    <3> QED
      BY <1>2, <3>2, <3>3, <3>4, ChassisAssumption DEF AllProsper, Undisturbed
  <2> QED
    BY <1>1, <1>7, <2>1, RestartProspers
<1>8. ~Lose /\ ~Erase /\ ~MMStops
  BY <1>2 DEF Lose, Erase, MMStops, Happens
<1>9. ~MMStarts
  BY <1>2 DEF MMStarts, IInv, ClientsOK, Fresh
<1>10. ASSUME NEW c \in Cards PROVE ~Unreachable(c)
  BY <1>2 DEF Unreachable, MMRests, tableVars
<1>11. CASE UNCHANGED vars
  <2>1. UNCHANGED <<at, pc, ctx, life, stale, faults, requests, replies, up>>
    BY <1>11 DEF vars, tableVars, cardVars
  <2> QED
    BY <1>3, <2>1, ProspersKept
<1> QED
  BY <1>1, <1>4, <1>5, <1>6, <1>7, <1>8, <1>9, <1>10, <1>11, StepShapes

LEMMA InitProspers == Init => Operators /\ AllProsper
<1> SUFFICES ASSUME Init PROVE Operators /\ AllProsper
  OBVIOUS
<1>1. Operators
  BY DEF Init, Lan!Init, Operators, Lan!Active, Lan!ZeroSession
<1>2. \A c \in Cards : at[c] = 1 /\ pc[c] = "ready"
  BY DEF Init
<1>3. replies = {}
  BY DEF Init
<1> QED
  BY <1>1, <1>2, <1>3 DEF AllProsper, Prospers

(* A card that nothing disturbs is never refused and never waits in vain, for
   any number of cards up to that of the slots (ipmiReqRsp, activateSession,
   addSdr): the safety behind CardsComeUp and PollsGoOn. The MM has room for
   its session because each start takes one slot at most, its session is open
   because no other card works in it, and the record it updates is there
   because it was answered when it added it. *)
THEOREM NoCardStranded == Spec => []NeverStranded
<1>1. AllProsper => NeverStranded
  BY DEF AllProsper, Prospers, NeverStranded
<1>2. IInv /\ TInv => WInv
  BY DEF TInv
<1> QED
  BY <1>1, <1>2, InitEstablishes, InitTrades, InitStores, InitProspers, StepKeeps, StepTrades,
     StepKeepsOne, StepStores, StepLimits, StepProspers, PTL DEF Spec

-----------------------------------------------------------------------------
(* How long an exchange of a card takes: its request is sent, served and
   answered; requests of its earlier starts may be served in between. *)
Old(c) == {m \in requests : m.card = c /\ m.life # life[c]}

StepsToGo(c) ==
    (IF pc[c] = "ready" THEN 3 ELSE IF \E r \in replies : r.card = c THEN 1 ELSE 2)
       + Cardinality(Old(c))

(* The card goes on to its next exchange. *)
Advances(c) == at'[c] = Following(at[c]) /\ pc'[c] = "ready" /\ Old(c)' = Old(c)

Nears(c) == at'[c] = at[c] /\ StepsToGo(c)' < StepsToGo(c)

Remains(c) == at'[c] = at[c] /\ StepsToGo(c)' = StepsToGo(c)

(* A step of the card, or of the MM with a request of the card, brings the card
   nearer to its next exchange or there; no other step takes it away. *)
GetsOn(c) ==
    \/ Advances(c) \/ Nears(c)
    \/ Remains(c) /\ ~Run(c) /\ ~TakeRequest(c)

LEMMA OldCount ==
    ASSUME TInv, NEW c \in Cards
    PROVE  IsFiniteSet(Old(c)) /\ Cardinality(Old(c)) \in Nat
  BY Fewer DEF TInv, Finite, Old

(* Steps that have nothing to do with card c. *)
LEMMA SameSteps ==
    ASSUME NEW c \in Cards, at'[c] = at[c], pc'[c] = pc[c], life'[c] = life[c],
           \A m \in requests : m.card = c /\ m.life # life[c] => m \in requests',
           \A m \in requests' : m.card = c /\ m.life # life[c] => m \in requests,
           \A r \in replies : r.card = c => r \in replies',
           \A r \in replies' : r.card = c => r \in replies
    PROVE  Remains(c)
<1>1. Old(c)' = Old(c)
  BY DEF Old
<1>2. (\E r \in replies : r.card = c)' <=> \E r \in replies : r.card = c
  OBVIOUS
<1> QED
  BY <1>1, <1>2 DEF Remains, StepsToGo

LEMMA SendAdvances ==
    ASSUME TInv, NEW d \in Cards, Sends(d), NEW c \in Cards, Prospers(c)
    PROVE  IF d = c THEN Nears(c) ELSE Remains(c)
<1>1. /\ pc'[d] = "waiting" /\ \A e \in Cards : e # d => pc'[e] = pc[e]
      /\ pc[d] # "waiting"
      /\ requests' = requests \cup {Sent(d)} /\ UNCHANGED <<at, life, replies>>
  BY DEF Sends, TInv, WInv, CardT
<1>2. Sent(d).card = d /\ Sent(d).life = life[d]
  BY DEF Sent, Request
<1>3. CASE d = c
  <2>1. pc[c] = "ready" /\ pc'[c] # "ready"
    BY <1>1, <1>3 DEF Prospers
  <2>2. Old(c)' = Old(c)
    BY <1>1, <1>2, <1>3 DEF Old
  <2> QED
    BY <1>1, <1>3, <2>1, <2>2, OldCount DEF Nears, StepsToGo
<1>4. CASE d # c
  BY <1>1, <1>2, <1>4, SameSteps
<1> QED
  BY <1>3, <1>4

LEMMA ReceiveAdvances ==
    ASSUME WInv, Outstanding, NEW d \in Cards, NEW r \in replies, Receive(d, r),
           replies' = replies \ {r}, NEW c \in Cards, Prospers(c)
    PROVE  IF d = c THEN Advances(c) ELSE Remains(c)
<1>1. /\ CardT /\ r.card = d /\ UNCHANGED <<life, requests>> /\ (Stays(d) \/ Proceed(d))
      /\ r.cmd = Cmd(at[d])
  BY RefusedMoves DEF Receive, WInv, Outstanding
<1>2. CASE d = c
  <2>1. Accepted(c, r)
    BY <1>1, <1>2 DEF Prospers, Good, Accepted
  <2>2. Proceed(c)
    BY <1>2, <2>1 DEF Receive
  <2>3. Old(c)' = Old(c)
    BY <1>1 DEF Old
  <2> QED
    BY <1>1, <1>2, <2>2, <2>3 DEF CardT, Proceed, Advances
<1>3. CASE d # c
  <2>1. at'[c] = at[c] /\ pc'[c] = pc[c]
    BY <1>1, <1>3, MovesTyped
  <2> QED
    BY <1>1, <1>3, <2>1, SameSteps
<1> QED
  BY <1>2, <1>3

LEMMA ServeAdvances ==
    ASSUME IInv, TInv, TInv', Operators, Outstanding, AnsweredStored, "repeated" \notin faults,
           Starts <= MaxSessions, NEW m \in requests, Handle(m), requests' = requests \ {m},
           NEW c \in Fresh, Prospers(c)
    PROVE  IF m.card = c THEN Nears(c) ELSE Remains(c)
<1>1. m \in RequestT /\ c \in Cards
  BY DEF TInv, WInv, WireOK, Fresh
<1>2. /\ Dispatch(m) /\ UNCHANGED <<life, at, pc, ctx>>
      /\ Answers(m) \/ (UNCHANGED replies /\ (Current(m) => reply'.cc = "silent"))
  BY <1>1, HandleShape
<1>3. Answer(m).card = m.card /\ Answer(m).cc = reply'.cc
  BY DEF Answer
<1>4. CASE m.card = c /\ Current(m)
  <2>1. pc[c] = "waiting" /\ (\A r \in replies : r.card # c) /\ Good(Answer(m))
    BY <1>2, <1>4, GoodAnswer DEF Outstanding
  <2>2. replies' = replies \cup {Answer(m)}
    BY <1>2, <1>3, <1>4, <2>1 DEF Good, Answers
  <2>3. (\E r \in replies : r.card = c)' /\ ~\E r \in replies : r.card = c
    BY <1>3, <1>4, <2>1, <2>2
  <2>4. Old(c)' = Old(c)
    BY <1>2, <1>4 DEF Old, Current
  <2> QED
    BY <1>1, <1>2, <1>4, <2>1, <2>3, <2>4, OldCount DEF Nears, StepsToGo
<1>5. CASE m.card = c /\ ~Current(m)
  <2>1. m \in Old(c) /\ Old(c)' \subseteq Old(c) \ {m}
    BY <1>2, <1>5 DEF Old, Current
  <2>2. UNCHANGED replies
    BY <1>2, <1>5 DEF Answers
  <2>3. /\ Cardinality(Old(c)') + 1 <= Cardinality(Old(c))
        /\ Cardinality(Old(c)') \in Nat /\ Cardinality(Old(c)) \in Nat
    BY <1>1, <2>1, OldCount, OneLess
  <2>4. StepsToGo(c)' < StepsToGo(c)
    BY <1>2, <2>2, <2>3 DEF StepsToGo
  <2> QED
    BY <1>2, <1>5, <2>4 DEF Nears
<1>6. CASE m.card # c
  <2>1. /\ \A r \in replies : r.card = c => r \in replies'
        /\ \A r \in replies' : r.card = c => r \in replies
    BY <1>2, <1>3, <1>6 DEF Answers
  <2> QED
    BY <1>1, <1>2, <1>6, <2>1, SameSteps
<1> QED
  BY <1>4, <1>5, <1>6

LEMMA RestartOfOther ==
    ASSUME WInv, NEW d \in Cards, Restart(d), NEW c \in Cards, life'[c] = life[c]
    PROVE  Remains(c)
<1>1. /\ CardT
      /\ life' = [life EXCEPT ![d] = @ + 1] /\ at' = [at EXCEPT ![d] = 1]
      /\ pc' = [pc EXCEPT ![d] = "ready"]
      /\ replies' = {r \in replies : r.card # d} /\ UNCHANGED requests
  BY DEF Restart, WInv
<1>2. c # d
  <2>1. life[d] \in Nat /\ life'[d] = life[d] + 1
    BY <1>1 DEF CardT
  <2> QED
    BY <2>1
<1>3. at'[c] = at[c] /\ pc'[c] = pc[c]
  BY <1>1, <1>2 DEF CardT
<1> QED
  BY <1>1, <1>2, <1>3, SameSteps

(* What is known of the states the exchanges of undisturbed cards go through. *)
Calm == IInv /\ TInv /\ OneAtATime /\ Added /\ Operators /\ AllProsper

LEMMA StepAdvances ==
    ASSUME Calm, [Next]_vars, NEW c \in Cards,
           Undisturbed(c), Undisturbed(c)', life'[c] = life[c]
    PROVE  GetsOn(c)
<1>1. /\ IInv /\ TInv /\ TInv' /\ WInv /\ CardT /\ Operators /\ Prospers(c) /\ c \in Fresh
      /\ Outstanding /\ AnsweredStored /\ "repeated" \notin faults /\ Starts <= MaxSessions
  BY StepTrades DEF Calm, TInv, WInv, AllProsper, Undisturbed, Fresh, OneAtATime, Added
<1>2. /\ faults' \cap {"lost", "repeated", "erased"} = {} /\ up /\ up'
  BY DEF Undisturbed
<1>3. ASSUME NEW d \in Cards, Sends(d) PROVE IF d = c THEN Nears(c) ELSE Remains(c)
  BY <1>1, <1>3, SendAdvances
<1>4. ASSUME NEW d \in Cards, NEW r \in replies, Receives(d, r)
      PROVE  IF d = c THEN Advances(c) ELSE Remains(c)
  <2>1. replies' = replies \ {r} /\ Receive(d, r)
    BY <1>2, <1>4 DEF Receives
  <2> QED
    BY <1>1, <2>1, ReceiveAdvances
<1>5. ASSUME NEW m \in requests, Serves(m)
      PROVE  IF m.card = c THEN Nears(c) ELSE Remains(c)
  <2>1. requests' = requests \ {m} /\ Handle(m)
    BY <1>2, <1>5 DEF Serves
  <2> QED
    BY <1>1, <2>1, ServeAdvances
<1>6. ASSUME NEW d \in Cards, Restart(d) PROVE Remains(c)
  BY <1>1, <1>6, RestartOfOther
<1>7. ~Lose /\ ~Erase /\ ~MMStops /\ ~MMStarts /\ \A d \in Cards : ~Unreachable(d)
  BY <1>2 DEF Lose, Erase, MMStops, MMStarts, Unreachable, Happens
<1>8. Advances(c) \/ Nears(c) \/ Remains(c)
  <2>1. UNCHANGED vars => Remains(c)
    BY SameSteps DEF vars, cardVars
  <2> QED
    BY <1>3, <1>4, <1>5, <1>6, <1>7, <2>1, StepShapes, <1>1
<1>9. Run(c) => Advances(c) \/ Nears(c)
  <2>1. Send(c) \/ (\E v \in Values : PollSensor(c, v)) => Nears(c)
    BY <1>1, <1>3, SendShape
  <2>2. TakeReply(c) => Advances(c)
    BY <1>4 DEF TakeReply, Receives
  <2> QED
    BY <2>1, <2>2 DEF Run
<1>10. TakeRequest(c) => Nears(c)
  BY <1>5 DEF TakeRequest, Serves, Current
<1> QED
  BY <1>8, <1>9, <1>10 DEF GetsOn

(* Every exchange of a card that nothing disturbs ends within three steps, of
   the card and of the MM with the card's request, but for the requests of its
   earlier starts, which the MM serves in between and no step adds to: each of
   these steps brings the card nearer to its next exchange, and no step of
   another card, no start of one and no request of one takes it away again
   (ipmiReqRsp; the main loop of the MM). With the fairness of both, that is
   why CardsComeUp and PollsGoOn hold. *)
THEOREM ExchangesAreShort ==
    Spec => [][\A c \in Cards :
                  Undisturbed(c) /\ Undisturbed(c)' /\ life'[c] = life[c] => GetsOn(c)]_vars
<1>1. Calm /\ [Next]_vars =>
         [\A c \in Cards :
             Undisturbed(c) /\ Undisturbed(c)' /\ life'[c] = life[c] => GetsOn(c)]_vars
  BY StepAdvances
<1>2. IInv /\ TInv => WInv
  BY DEF TInv
<1>3. Calm <=> IInv /\ TInv /\ OneAtATime /\ Added /\ Operators /\ AllProsper
  BY DEF Calm
<1> QED
  BY <1>1, <1>2, <1>3, InitEstablishes, InitTrades, InitStores, InitProspers, StepKeeps,
     StepTrades, StepKeepsOne, StepStores, StepLimits, StepProspers, PTL DEF Spec

==============================================================================
