------------------------------- MODULE Chassis -------------------------------
(***************************************************************************)
(* Line cards and the management module (MM). A line card is a client of   *)
(* the MM (ipmi_client.go): at start it opens a session in four exchanges  *)
(* and adds a record for each of its sensors, then it sends each value it  *)
(* polls. The MM handles the requests with the handlers of LanSession and  *)
(* SdrRepository; requests and replies are UDP datagrams, which may be     *)
(* lost, repeated and reordered. A line card may be restarted, and so may  *)
(* the MM, which keeps nothing; a remote client may clear the repository   *)
(* of the MM.                                                              *)
(*                                                                         *)
(* The client waits for a reply without a deadline (ipmiReqRsp), so a card *)
(* has one request outstanding, and a request is sent again only when its  *)
(* reply was refused. The walk through a daemon's own records is in        *)
(* SensorPoller, for the cards and for the MM: the MM has no sensors of    *)
(* its own here, so its process outlives an erase, as it does in the code  *)
(* until its next poll.                                                    *)
(***************************************************************************)
EXTENDS Integers, Sequences, FiniteSets

CONSTANTS
    Cards,        \* chassisCardNum of each line card
    PerCard,      \* sensors of a line card
    Values,       \* values a poll reads
    MAX_RETRIES,  \* times a request is sent
    Faults,       \* what may go wrong: "lost", "repeated", "erased", "restarted",
                  \* "mmrestarted"
    MaxFaults,    \* bound of the model: how many of them do
    MaxSessions, TagMod, Word,    \* of the MM's session table: see LanSession
    WordMod, MaxRecords           \* of the MM's repository: see SdrRepository

ASSUME ChassisAssumption ==
    /\ Cards \subseteq 1 .. 255
    /\ PerCard \in 1 .. 15 /\ MAX_RETRIES \in Nat \ {0} /\ MaxFaults \in Nat
    /\ Values \subseteq 0 .. 255
    /\ MaxSessions \in 1 .. 63 /\ TagMod \in Nat \ {0} /\ Word \in Nat /\ Word > 2
    /\ WordMod \in Nat /\ WordMod > 1 /\ MaxRecords \in Nat

VARIABLES
    sessions, activeSessions, sidSeq, nextChallSeq, up, reply,
    heap, head, tail, sdrCount, nextFreeEntryId, reservation, stamped,
    life,      \* how often each card was started
    at,        \* the exchange each card's program is at
    pc,        \* "ready" to send, "again" after a refusal, "waiting", "dead"
    tries,     \* refusals of the request a card is at
    ctx,       \* clientCtx: the temporary id and the session id
    value,     \* the value each sensor of a card was last polled at
    requests,  \* datagrams under way to the MM
    replies,   \* datagrams under way to the cards
    stale,     \* the cards that were started before the MM was last started
    faults     \* the faults that happened so far

Lan == INSTANCE LanSession WITH
    IdxMask <- 63, ReqSids <- {}, AuthReqs <- {"NONE"}, PrivReqs <- {3}, SeqReqs <- {1}
Sdr == INSTANCE SdrRepository WITH
    LocalSensors <- <<>>, Values <- Values \cup {0}, Luns <- {0}, AddNums <- {}, UpdateNums <- {}

tableVars == <<sessions, activeSessions, sidSeq, nextChallSeq, up>>
sdrVars == <<heap, head, tail, sdrCount, nextFreeEntryId, reservation, stamped>>
cardVars == <<life, at, pc, tries, ctx, value>>
vars == <<tableVars, reply, sdrVars, cardVars, requests, replies, stale, faults>>

(* A step in which the MM handles nothing. *)
MMRests == reply' = Lan!Silent /\ UNCHANGED <<tableVars, sdrVars>>

NoCtx == [temp |-> Lan!NoSid, sid |-> Lan!NoSid]

-----------------------------------------------------------------------------
(* Faulty: every card numbers its sensors alike. *)
SensorNumOfNoCard(c, i) == i

(* The number of a card's i-th sensor, a uint8. *)
SensorNum(c, i) == (i + 16 * c) % 256

(* The program of a card: the exchanges of stateTable, then Add SDR for each
   sensor, then for ever Add SDR with the value of each sensor. *)
StateTable == <<"caps", "challenge", "activate", "privilege">>
FirstAdd == Len(StateTable) + 1
FirstPoll == FirstAdd + PerCard
Exchanges == 1 .. FirstPoll + PerCard - 1

Cmd(n) == IF n < FirstAdd THEN StateTable[n] ELSE "add"
Sensor(n) == IF n < FirstPoll THEN n - FirstAdd + 1 ELSE n - FirstPoll + 1

(* Faulty: the last sensor is not added. *)
FollowingTooEarly(n) ==
    IF n \in {FirstPoll - 2, FirstPoll + PerCard - 1} THEN FirstPoll ELSE n + 1

(* Faulty: the poll does not start over. *)
FollowingOn(n) == n + 1

Following(n) == IF n = FirstPoll + PerCard - 1 THEN FirstPoll ELSE n + 1

(* Faulty: the request after Activate Session carries the temporary id. *)
HeaderSidTemporary(c, n) == IF n > 2 THEN ctx[c].temp ELSE Lan!NoSid

(* The session id a request carries in its header. *)
HeaderSid(c, n) ==
    IF n = 3 THEN ctx[c].temp ELSE IF n > 3 THEN ctx[c].sid ELSE Lan!NoSid

(* The request of card c, with the value v in the oem byte of an Add SDR. *)
Request(c, v) ==
    [card |-> c, life |-> life[c], cmd |-> Cmd(at[c]), sid |-> HeaderSid(c, at[c]),
     num |-> IF at[c] < FirstAdd THEN 0 ELSE SensorNum(c, Sensor(at[c])), value |-> v,
     copy |-> FALSE]

-----------------------------------------------------------------------------
Init ==
    /\ Lan!Init
    /\ Sdr!Init
    /\ life = [c \in Cards |-> 1]
    /\ at = [c \in Cards |-> 1]
    /\ pc = [c \in Cards |-> "ready"]
    /\ tries = [c \in Cards |-> 0]
    /\ ctx = [c \in Cards |-> NoCtx]
    /\ value = [c \in Cards |-> [i \in 1 .. PerCard |-> 0]]
    /\ requests = {}
    /\ replies = {}
    /\ stale = {}
    /\ faults = {}

(* Send the request of an exchange of the start, or send any request again:
   it is built once, before the first try. *)
Send(c) ==
    /\ \/ pc[c] = "ready" /\ at[c] < FirstPoll
       \/ pc[c] = "again"
    /\ pc' = [pc EXCEPT ![c] = "waiting"]
    /\ requests' = requests \cup
          {Request(c, IF at[c] < FirstPoll THEN 0 ELSE value[c][Sensor(at[c])])}
    /\ MMRests
    /\ UNCHANGED <<life, at, tries, ctx, value, replies, stale, faults>>

(* Poll a sensor and send its value. The record in the card's own list takes
   it, too: SensorPoller. *)
PollSensor(c, v) ==
    /\ pc[c] = "ready" /\ at[c] >= FirstPoll
    /\ value' = [value EXCEPT ![c][Sensor(at[c])] = v]
    /\ pc' = [pc EXCEPT ![c] = "waiting"]
    /\ requests' = requests \cup {Request(c, v)}
    /\ MMRests
    /\ UNCHANGED <<life, at, tries, ctx, replies, stale, faults>>

(* What a good reply leaves in clientCtx. *)
NewCtx(c, r) ==
    IF r.cmd = "challenge" THEN [ctx[c] EXCEPT !.temp = r.data]
    ELSE IF r.cmd = "activate" THEN [ctx[c] EXCEPT !.sid = r.data]
    ELSE ctx[c]

(* Faulty: a request is sent again although it was answered. *)
AcceptedAtSecond(c, r) == r.cmd = Cmd(at[c]) /\ r.cc = "OK" /\ tries[c] > 0

(* The parse functions know a reply by its command, length and code only. *)
Accepted(c, r) == r.cmd = Cmd(at[c]) /\ r.cc = "OK"

(* On to the next exchange. *)
Proceed(c) ==
    /\ at' = [at EXCEPT ![c] = Following(@)]
    /\ pc' = [pc EXCEPT ![c] = "ready"]
    /\ tries' = [tries EXCEPT ![c] = 0]

(* A request of card c failed: the card sends it again; after MAX_RETRIES a
   start panics, a poll goes on with the next sensor. *)
Refused(c) ==
    /\ \/ /\ tries[c] + 1 < MAX_RETRIES
          /\ pc' = [pc EXCEPT ![c] = "again"]
          /\ tries' = [tries EXCEPT ![c] = @ + 1]
          /\ UNCHANGED at
       \/ /\ tries[c] + 1 = MAX_RETRIES
          /\ IF at[c] < FirstPoll
                THEN pc' = [pc EXCEPT ![c] = "dead"] /\ UNCHANGED <<at, tries>>
                ELSE Proceed(c)
    /\ UNCHANGED ctx

(* ipmiReqRsp returns with a reply, and the loop around it goes on. *)
Receive(c, r) ==
    /\ pc[c] = "waiting" /\ r.card = c
    /\ \/ /\ Accepted(c, r)
          /\ ctx' = [ctx EXCEPT ![c] = NewCtx(c, r)]
          /\ Proceed(c)
       \/ ~Accepted(c, r) /\ Refused(c)
    /\ MMRests
    /\ UNCHANGED <<life, value, requests, stale>>

-----------------------------------------------------------------------------
Stored(num) == Sdr!FirstMatch(0, num) # {}

(* Faulty: a repeated Add SDR is not answered. *)
AddOnlyNew(m) ==
    /\ Sdr!AddSdr(0, m.num)
    /\ IF Stored(m.num) THEN Lan!Unanswered ELSE Lan!OtherCommand(m.sid, "OK")

(* addSdr with oem byte 0, and with a value: one for a sensor without a record
   is not answered. *)
Add(m) == Sdr!AddSdr(0, m.num) /\ Lan!OtherCommand(m.sid, "OK")

(* Faulty: an update is answered before it is made. *)
UpdateAnswersOnly(m) == UNCHANGED sdrVars /\ Lan!OtherCommand(m.sid, "OK")

Update(m) ==
    /\ Sdr!UpdateSdr(0, m.num, m.value)
    /\ IF Stored(m.num) THEN Lan!OtherCommand(m.sid, "OK") ELSE Lan!Unanswered

(* The handlers of the MM: the user is the second, without authentication,
   the privilege asked for is operator (3). *)
Dispatch(m) ==
    \/ m.cmd = "caps" /\ Lan!GetChannelAuthCapabilities(m.sid, "NONE", FALSE, TRUE)
                      /\ UNCHANGED sdrVars
    \/ m.cmd = "challenge" /\ Lan!GetSessionChallenge(m.sid, "NONE", 2, "NONE")
                           /\ UNCHANGED sdrVars
    \/ m.cmd = "activate" /\ Lan!ActivateTemporary(m.sid, "NONE", "NONE", 3, 1)
                          /\ UNCHANGED sdrVars
    \/ m.cmd = "privilege" /\ Lan!SetSessionPrivilege(m.sid, 3)
                           /\ UNCHANGED sdrVars
    \/ m.cmd = "add" /\ m.value = 0 /\ Add(m)
    \/ m.cmd = "add" /\ m.value # 0 /\ Update(m)

(* The MM takes a request and writes its reply, if it has one, to the socket
   the request came from; the socket of an earlier start is closed. *)
Handle(m) ==
    /\ up
    /\ Dispatch(m)
    /\ replies' = IF reply'.cc = "silent" \/ m.life # life[m.card] THEN replies
                  ELSE replies \cup {[card |-> m.card, cmd |-> m.cmd, cc |-> reply'.cc,
                                      data |-> reply'.data, copy |-> FALSE]}
    /\ UNCHANGED <<cardVars, stale>>

TakeRequest(c) ==
    \E m \in requests :
       /\ m.card = c
       /\ Handle(m)
       /\ requests' = requests \ {m}
       /\ faults' = IF m.life # life[c] THEN faults \cup {"late"} ELSE faults

(* Nobody listens at the MM's port: the error makes the card's read fail. (An
   error that comes when the card does not wait is dropped here; in the code it
   makes its next request fail, once.) *)
Unreachable(c) ==
    /\ ~up
    /\ \E m \in requests :
          /\ m.card = c
          /\ requests' = requests \ {m}
          /\ IF m.life = life[c] /\ pc[c] = "waiting"
                THEN Refused(c) ELSE UNCHANGED <<at, pc, tries, ctx>>
    /\ MMRests
    /\ UNCHANGED <<life, value, replies, stale, faults>>

TakeReply(c) ==
    \E r \in replies :
       /\ Receive(c, r)
       /\ replies' = replies \ {r}
       /\ UNCHANGED faults

Run(c) == Send(c) \/ (\E v \in Values : PollSensor(c, v)) \/ TakeReply(c)

-----------------------------------------------------------------------------
(* How often cards were started, and how often something went wrong. *)
StartsOfCards == UNION {{c} \X (1 .. life[c]) : c \in Cards}
Starts == Cardinality(StartsOfCards)
FaultCount == Cardinality(faults \ {"late"}) + Starts - Cardinality(Cards)

(* Each fault but a restart happens at most once, and MaxFaults of them in
   all (bounds of the model). *)
Happens(f) ==
    /\ f \in Faults \ faults /\ FaultCount < MaxFaults
    /\ faults' = faults \cup {f}

(* A datagram is lost. *)
Lose ==
    /\ Happens("lost")
    /\ \/ \E m \in requests : requests' = requests \ {m} /\ UNCHANGED replies
       \/ \E r \in replies : replies' = replies \ {r} /\ UNCHANGED requests
    /\ MMRests
    /\ UNCHANGED <<cardVars, stale>>

(* A datagram arrives, and will arrive once more. *)
RepeatRequest ==
    /\ Happens("repeated")
    /\ \E m \in requests :
          /\ Handle(m)
          /\ requests' = (requests \ {m}) \cup {[m EXCEPT !.copy = TRUE]}
RepeatReply ==
    /\ Happens("repeated")
    /\ \E c \in Cards, r \in replies :
          /\ Receive(c, r)
          /\ replies' = (replies \ {r}) \cup {[r EXCEPT !.copy = TRUE]}

(* A remote client clears the MM's repository. *)
Erase ==
    /\ up
    /\ Happens("erased")
    /\ Sdr!ClearSdrRepository(0)
    /\ reply' = Lan!Silent
    /\ UNCHANGED <<tableVars, cardVars, requests, replies, stale>>

(* The MM's process ends, and what waited at its socket is lost. *)
MMStops ==
    /\ up /\ up' = FALSE
    /\ Happens("mmrestarted")
    /\ \E arriving \in SUBSET requests : requests' = arriving
    /\ reply' = Lan!Silent
    /\ stale' = Cards
    /\ UNCHANGED <<sessions, activeSessions, sidSeq, nextChallSeq, sdrVars, cardVars, replies>>

(* It is started again: sessions and records are gone, and the counters that
   ids are made of begin anew (ipmiLanInit, bmcInit). *)
MMStarts ==
    /\ ~up /\ up' = TRUE
    /\ sessions' = [s \in Lan!Slots |-> Lan!ZeroSession]
    /\ activeSessions' = 0 /\ sidSeq' = 0 /\ nextChallSeq' = 0
    /\ heap' = <<>> /\ head' = 0 /\ tail' = 0 /\ sdrCount' = 0
    /\ nextFreeEntryId' = 1 /\ reservation' = 0 /\ stamped' = {}
    /\ reply' = Lan!Silent
    /\ UNCHANGED <<cardVars, requests, replies, stale, faults>>

(* Faulty: the new process uses the old one's port. *)
RestartSamePort(c) ==
    /\ "restarted" \in Faults /\ FaultCount < MaxFaults
    /\ life' = [life EXCEPT ![c] = @ + 1]
    /\ at' = [at EXCEPT ![c] = 1]
    /\ pc' = [pc EXCEPT ![c] = "ready"]
    /\ tries' = [tries EXCEPT ![c] = 0]
    /\ ctx' = [ctx EXCEPT ![c] = NoCtx]
    /\ value' = [value EXCEPT ![c] = [i \in 1 .. PerCard |-> 0]]
    /\ stale' = IF up THEN stale \ {c} ELSE stale
    /\ MMRests
    /\ UNCHANGED <<requests, replies, faults>>

(* The process of a card is started again, with a socket of its own. *)
Restart(c) ==
    /\ "restarted" \in Faults /\ FaultCount < MaxFaults
    /\ life' = [life EXCEPT ![c] = @ + 1]
    /\ at' = [at EXCEPT ![c] = 1]
    /\ pc' = [pc EXCEPT ![c] = "ready"]
    /\ tries' = [tries EXCEPT ![c] = 0]
    /\ ctx' = [ctx EXCEPT ![c] = NoCtx]
    /\ value' = [value EXCEPT ![c] = [i \in 1 .. PerCard |-> 0]]
    /\ replies' = {r \in replies : r.card # c}
    /\ stale' = IF up THEN stale \ {c} ELSE stale
    /\ MMRests
    /\ UNCHANGED <<requests, faults>>

Next ==
    \/ \E c \in Cards : Run(c) \/ TakeRequest(c) \/ Unreachable(c) \/ Restart(c)
    \/ Lose \/ RepeatRequest \/ RepeatReply \/ Erase \/ MMStops \/ MMStarts

(* A card's process is scheduled, and the MM's main loop takes datagrams in
   the order of their arrival, so each card's request has its turn. Nobody has
   to start the MM again. *)
Spec ==
    /\ Init /\ [][Next]_vars
    /\ \A c \in Cards : WF_vars(Run(c)) /\ WF_vars(TakeRequest(c))

-----------------------------------------------------------------------------
Sids == Lan!Sids

ChassisTypeOK ==
    /\ Lan!TypeOK
    /\ Sdr!TypeOK
    /\ life \in [Cards -> 1 .. MaxFaults + 1]
    /\ at \in [Cards -> Exchanges]
    /\ pc \in [Cards -> {"ready", "again", "waiting", "dead"}]
    /\ tries \in [Cards -> 0 .. MAX_RETRIES - 1]
    /\ ctx \in [Cards -> [temp : Sids, sid : Sids]]
    /\ value \in [Cards -> [1 .. PerCard -> Values \cup {0}]]
    /\ \A m \in requests : m.card \in Cards /\ m.life \in 1 .. life[m.card]
    /\ \A r \in replies : r.card \in Cards /\ r.cc # "silent"
    /\ stale \subseteq Cards
    /\ faults \subseteq {"lost", "repeated", "erased", "mmrestarted", "late"}

(* A card that went on after its Add SDR was answered has a record at the MM:
   replies are matched by their command only, so with a repeated one the card
   may be ahead of the MM, by the request that is still under way. A card the
   MM has forgotten with its sessions has to be started again. *)
AckedIsStored ==
    "erased" \notin faults =>
       \A c \in Cards \ stale : \A n \in FirstAdd .. FirstPoll - 1 :
          at[c] > n => \/ Stored(SensorNum(c, Sensor(n)))
                       \/ \E m \in requests : m.num = SensorNum(c, Sensor(n))
                       \/ {"lost", "repeated"} \subseteq faults

(* The cards that number their sensors as card c does: a number is a byte, and
   each card has 16 of them. *)
Sharers(c) == {d \in Cards : d % 16 = c % 16}

(* Card c is polling its i-th sensor, and no answer is on its way. *)
Polling(c, i) ==
    /\ at[c] >= FirstPoll /\ Sensor(at[c]) = i /\ pc[c] # "ready"
    /\ \A r \in replies : r.card # c

(* What the MM shows for a card's sensor is the value the card last polled,
   but for the sensor whose value is on its way, a value of 0, and datagrams
   that were repeated or overtaken by a restart: no card writes another one's
   values, and no older value comes back. Cards that share numbers share the
   record, too (bmc.go:138): it has the value one of them last polled, unless
   one is waiting for its value to arrive. *)
ProxyFollows ==
    faults \cap {"repeated", "erased", "late"} = {} =>
       \A c \in Cards, i \in 1 .. PerCard :
          Sharers(c) \cap stale = {} =>
             \E d \in Sharers(c) :
                \/ value[d][i] = 0
                \/ Polling(d, i)
                \/ Sdr!SensorReading(0, SensorNum(c, i)) = {value[d][i]}

(* Each start of a card costs the MM one session slot at most, and a repeated
   datagram one more: requests are not sent again once they were answered. *)
OneSlotPerStart ==
    activeSessions <= Starts + (IF "repeated" \in faults THEN 1 ELSE 0)

OpenSids == {sessions[s].sid : s \in Lan!Active}

(* A card that was started after the MM works in an open session of the MM,
   and no other card works in it, although the MM hands out the ids of its
   former sessions again, and replies carry no mark of the card, the start or
   the request they belong to. *)
OwnSession ==
    \A c \in Cards \ stale :
        ctx[c].sid # Lan!NoSid =>
            /\ ctx[c].sid \in OpenSids
            /\ \A d \in Cards \ stale : ctx[d].sid = ctx[c].sid => d = c

(* Nothing was lost, repeated or erased, the MM is up and was not started after
   card c, and every start of a card can have a session slot of the MM, which
   are never given back. *)
Undisturbed(c) ==
    /\ faults \cap {"lost", "repeated", "erased"} = {}
    /\ up /\ c \notin stale
    /\ Starts <= MaxSessions

(* A card that nothing disturbed is never refused, and never waits for a reply
   that is no longer to come: the MM has a slot for it when it asks, finds the
   session it names and the record it updates, although requests of earlier
   starts are still arriving and take slots, too (activateSession, addSdr). *)
NeverStranded ==
    \A c \in Cards : Undisturbed(c) =>
        \/ pc[c] = "ready"
        \/ /\ pc[c] = "waiting"
           /\ \/ \E m \in requests : m.card = c /\ m.life = life[c]
              \/ \E r \in replies : r.card = c

(* Every start of a card ends with its sensors polled, although requests of an
   earlier start may still arrive, two cards start at once, and the MM may have
   been restarted before. *)
CardsComeUp ==
    \A c \in Cards : Undisturbed(c) ~> (at[c] >= FirstPoll \/ ~Undisturbed(c))

(* Every request of a card comes to its end. *)
PollsGoOn ==
    \A c \in Cards : (pc[c] = "waiting") ~> (pc[c] # "waiting" \/ ~Undisturbed(c))

(* README, "When LC1 updates that sensor with a timed poll, a message is sent to
   MM to update the SDR representing that sensor": once the card goes on to its
   next exchange, the MM's record has the value. *)
PollReachesProxy ==
    [][\A c \in Cards :
          at[c] >= FirstPoll /\ pc[c] = "waiting" /\ pc'[c] = "ready" /\ life'[c] = life[c] =>
             Sdr!SensorReading(0, SensorNum(c, Sensor(at[c]))) = {value[c][Sensor(at[c])]}]_vars

(* README, "Periodic poll routines at the LCs will push new values to MM": a
   card does not stop polling, whatever commands the MM is sent. *)
PollsNeverStop == \A c \in Cards : (pc[c] = "waiting") ~> (pc[c] # "waiting")
=============================================================================
