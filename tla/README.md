# ipmigod in TLA+

ipmigod is an IPMI daemon for the cards of a network switch. The management
module (MM) and the line cards (LC) run the same program. Remote controllers
and line cards talk to it over UDP port 623. This directory models the parts of
the program that keep state, checks them with TLC on small instances and proves
the most important properties with TLAPS for all instances.

Line numbers are those of the files under `src/`.

## The system

| component | state | operations | code |
|---|---|---|---|
| LAN sessions | session table, number of open sessions, counters for session ids, temporary ids and sequence numbers | Get Channel Authentication Capabilities, Get Session Challenge, Activate Session, Set Session Privilege Level, Close Session; the path every reply takes | `ipmi_internal_app.go`, `ipmi_proto.go`, `ipmi_internal_proto.go` |
| SDR repository | a linked list of records with a head and a tail pointer, a count, an id counter, a reservation, times | Add SDR (which also updates values), Get SDR, Reserve, Clear, Get Info, Get Sensor Reading | `ipmi_internal_storage.go`, `ipmi_internal_sensor.go`, `bmc.go` |
| sensor poller | its walk through the list, sensor values | every 3 s: read each local sensor, find its record, write the value; a line card also sends it to the MM | `ipmi_internal_sensor.go` |
| system event log | a slice of entries, a count, an id counter, a reservation, the overflow flag | addToSel, Get Info, Reserve, Get Entry, Add Entry, Clear | `ipmi_internal_storage.go`, `bmc.go` |
| line card client | session id and sequence number towards the MM | open a session at start; Add SDR for each sensor, then with each poll | `ipmi_client.go`, `bmc.go` |
| UDP server and dispatch | the socket's buffer, the message on the channel, the message in hand, the kill signal | reader goroutine, main loop, parser, tables of handlers, ASF ping, rejection of RMCP+, unsupported commands | `ipmi_proto.go`, `ipmi_internal_*.go` |
| wire formats | none | check bytes, id encodings, windows of records | `ipmi_proto.go`, `ipmi_client.go`, `ipmi_internal_storage.go` |
| sysfs discovery, constants | none | | `bmc.go`, `ipmi_protodefs.go` |

How they interact:

- A reader goroutine hands one datagram at a time to the main loop over an
  unbuffered channel (`ipmi_proto.go:147-178`). The main loop runs a handler to
  its end before it takes the next. So a handler is atomic with respect to other
  handlers, and is one action in every module.
- The poller is a goroutine of its own (started at `bmc.go:215-226`). It shares
  the record list with the main loop without a lock. The program's only race of
  consequence is here, and `SensorPoller` takes it one pointer read at a time.
- Line cards and controllers share the MM's session table, repository and log.
  UDP may lose, repeat and reorder what they send.
- A panic anywhere, the poller included, ends the process and with it every
  session, record and event. Nothing is persisted, and the counters that session
  ids are made of begin anew.

What is hard, and what each component has to get right:

- *Sessions.* Requests may be stale or repeated, a slot is used again by another
  user, counters wrap. The count of sessions must be the number of active slots
  or clients are refused for nothing; an id must never lead to somebody else's
  session; privilege must stay within what the user may have; only the session
  itself or an administrator ends it.
- *Repository.* Four pointers and two counters are written separately. The list
  must stay one list across erases, an id must stand for one record, and a client
  that reads record by record while others write must get every record of one
  generation or an error.
- *Poller.* It follows pointers that the main loop moves. It must write a value
  only to its own sensor's record, end every round and not run off the list.
- *Event log.* A clear replaces the slice by blanks but keeps the count. Ids must
  stay unique, events must stay readable, and the search for a free id must not
  fail while Get SEL Info reports space.
- *Line card client.* It waits for replies without a deadline and knows replies
  only by their command byte. After a restart of the MM the ids of its sessions
  come again: a card must not end up in the session of another.
- *Server.* Datagrams that are no IPMI message are dispatched all the same, with
  netfn and command 0. A netfn or command without a handler panics. Windows of
  records are computed in eight bits. Requests of a well-behaved client must not
  end the process, each datagram must have its turn, and the kill signal too.

`PROJECT.json` lists these hazards line by line with the properties that cover
them, or with the reason why none does.

## The modules

`SessionTable` is the abstract specification of sessions: a set of open sessions
with distinct ids, within a capacity, at a privilege their user may have, closed
by themselves or an administrator.

`LanSession` is the session layer. `sessions`, `activeSessions`, `sidSeq` and
`nextChallSeq` are the fields of `lanserv`; `reply` is the datagram the last
handler wrote; `up` is FALSE after a panic. One action per command, one branch
per return of the handler in the order of the code. `Answer` and `AnswerOn` are
`returnRsp`, which looks up the session again, uses up a sequence number and drops
replies for unknown ids. A session id is a record of its bit fields (temporary
bit, six bits of index, tag); the tag is the id counter reduced to the bits the
shift keeps. Clients are not modelled: every request may arrive in every state
with every id, which covers stale, repeated and reordered requests.
`ImplementsTable` maps the active slots to `SessionTable`.

`SessionReplies` puts next to it what the client of each session knows: `lastSeq`,
the sequence number of the last reply it was sent. It is a history variable, which no
action of `LanSession` reads. With it `RepliesInOrder` can compare a reply with the
session's last one whatever the MM did for others in between. Replies to an Activate
Session inside the session are excepted: they set the number anew (`Reactivate`).

`SdrRepository` has `heap`, all records allocated so far, and pointers into it;
0 is nil. `AddSdr`, `UpdateSdr`, `ReserveSdrRepository`, `ClearSdrRepository` are
the commands that change state; `GetSdr` and `SensorReading` are the replies of
those that only read. `stamped` is the set of time fields that hold a time.

`SensorPoller` extends it with the poller: `Tick`, `Sample` (read the sensor and
the head), `WalkOn` (one `next` pointer), `WriteValue`, and `NilRecord`, the
dereference of nil at line 259. Between any two of them the main loop may run any
command.

`SdrReader` extends `SdrRepository` with a client that reserves the repository and then reads
it from record 0 to 0xffff. The client is outside this program; the replies are
the code's.

`SelLog` is the event log. An entry is its id, 0 is a blank entry.
`FreshId` is the search loop of `addToSel` in closed form: the first free id at or
behind `nextEntry`. `SelReader` adds a client that pulls the log, next to others
that log, reserve and clear.

`Chassis` composes line cards with the MM. It has the MM's variables and takes
the MM's actions from `Lan == INSTANCE LanSession` and
`Sdr == INSTANCE SdrRepository`; `MMRests` is a step in which the MM handles
nothing. A card is `at` an exchange of its program (the four of `stateTable`, an
Add SDR for each sensor, then the polls for ever); `pc` says whether it sends,
waits for a reply or is dead, `tries` counts refused replies, `ctx` is the part of
`clientCtx` that later requests carry, `value` what the sensors were last polled
at, `life` how often the process was started. `Receive` is the rest of
`ipmiReqRsp` and the loop around each of its calls. `requests` and `replies` are
sets of datagrams: any of them may arrive next. `Lose`, `RepeatRequest`,
`RepeatReply`, `Restart`, `Erase`, `MMStops` and `MMStarts` are what may go wrong.
While the MM is down a request comes back as an error of the socket
(`Unreachable`), which counts as a refusal. `stale` are the cards that were
started before the MM: those go on with a session id the new MM may have given
to another card, which the code does nothing about, so the properties are about
the others. The poller of the MM is left to `SensorPoller`, so here the MM outlives
an erase; in the code it does so until its next poll, three seconds at most.

`UdpServer` is the daemon as a server. `Arrive` is the kernel, `Read` and
`ReadFails` the reader goroutine, whose message waits in `offer` until `Receive`;
send and receive of an unbuffered channel are one step. `Handle` is
`ipmiHandleMsg`; `Outcomes` follows the parser and the tables, with every key of
them, to an answer, to silence or to a panic. What a handler does to the state is
left to the modules above, which in return take one datagram at a time for granted:
`RequestQueue` says just that, and `ImplementsQueue` that the two goroutines and
the channel are such a queue. `CheckSignal` is the default case of the select,
which is taken only when no message is offered.

`Wire` holds what the code computes with bytes: the window of a record that a
read returns (`ReadCount`, `ReadFailsAt`), the length of a record that is added
(`AddFails`), the words of session ids, the free space, the check byte.
`UdpServer` uses the first two for the panics of the handlers.

`MC*` give the constants values for TLC, `*Proofs` hold theorems.

## The runs

| run | expects | shows |
|---|---|---|
| `lan_session` | pass | the session table: count, reachability under ids, privilege; who may close and change a session, refinement of `SessionTable`; each reply of a session carries the number after the one of its last reply |
| `sdr_reader` | pass | the list and its ids; complete scans of one generation; scans end |
| `sensor_poller` | pass | the poller next to the main loop |
| `sel_reader` | pass | ids and chain of the log; complete scans; no scan goes on across a clear; scans end |
| `chassis` | pass | two cards with two sensors each start and poll at once: both come up, and the MM shows each sensor's last value |
| `chassis_faults` | pass | what one card may rely on when datagrams are lost, repeated or late, when it or the MM restarts and when its records are erased; undisturbed it is never refused and never waits in vain |
| `udp_server` | pass | the server is a queue; well-behaved requests do not end it; every datagram has its turn; the kill signal works once datagrams stop |
| `lan_session_orphan_close` | violation | a repeated Close Session panics (`ipmi_internal_app.go:436`) |
| `poller_erase` | violation | the poll after a Clear SDR Repository panics (`ipmi_internal_sensor.go:259`) |
| `sel_first` | violation | after a clear, entry 0 is a blank for good (`ipmi_internal_storage.go:392`) |
| `chassis_value` | violation | a polled value of 0 does not reach the MM's record: it makes the update a plain Add SDR (`ipmi_internal_storage.go:187`) |
| `chassis_silence` | violation | after an erase at the MM an update is not answered and the card's poller waits for ever (`ipmi_internal_storage.go:248`, `ipmi_client.go:126`) |

Each violation run checks one sentence of a comment or of `src/README.md`, quoted
under "findings" in `PROJECT.json`.

Three more places where the code does not do what a comment next to it or a name
says are modelled as they are, without a run of their own: an Activate Session
inside a session takes its sequence number from the bytes 18 to 21 of the
datagram, not from the data (`ipmi_internal_app.go:361`, `Reactivate`); a record
of a lun other than 0 is never recognised as a duplicate
(`ipmi_internal_storage.go:219`, `AddSdr`); the time of an addition goes to the
event log (`ipmi_internal_storage.go:174`, `AddSdrEntry`).

The types of the repository are checked in `chassis`, with those of the MM's other
parts (`ChassisTypeOK`); all of them, the reservation included, are proved.

Every property of a passing run has a mutant: an operator named *Faulty* in the
module, which is a plausible bug at that place and breaks the property.

### Bounds

- Sessions: two slots, so that a slot is used again while the other is open;
  index bits that can also name no slot and no user; counters modulo 3 and tags
  modulo 2, so that ids repeat and every counter wraps.
  The privileges asked for are one below the user level and one above what the
  user may have. The privilege 0, which asks for the present level, is left to the
  proofs.
- Repository: five records, one of them of the card itself, three sensor numbers,
  so that two generations of two records and a duplicate fit. Reservations wrap
  at 7. Ids do not wrap: the code gives 0 and 0xffff a second meaning after 65534
  additions and promises nothing beyond. `MaxRecords` bounds the model only; the
  code has no limit for Add SDR.
- Poller: two local sensors, two of another card, so that it walks past a record
  that is not its own and over records appended during the walk.
- Log: four entries, one at start, ids modulo 7, so that it fills, is cleared when
  half full and when full, and the reservation wraps.

- Cards: `chassis` has two cards with two sensors, so that exchanges of two cards
  and records of one card mix, but no faults and no value 0. `chassis_faults` has
  one card with one sensor and the value 0; each kind of datagram fault happens at
  most once and `MaxFaults = 2` faults in all, restarts included, which is enough
  for two restarts, a lost reply after a repeated one, or a late request after a
  restart, or a restart of the MM with one of the card. Two session slots at the MM,
  so that a third start finds the table full. Two cards with a restart of the MM are
  too many states for TLC; theorem `OwnSessions` covers them.
- Server: a datagram for each way through the parser and the tables, reads that end
  just inside and just outside eight bits, added records of 62 and of 63 bytes; a
  buffer of two, so that one datagram waits behind another while a third is in hand.

`CHECK_DEADLOCK FALSE` appears only where the process can end (`up = FALSE` in the
session layer and the poller, `Ended` in the server), and in `Chassis`, where a card
whose datagram was lost waits for ever.

### Fairness

- `PollSpec`: weak fairness of the poller. The Go scheduler runs a runnable
  goroutine, and the ticker fires every three seconds.
- `ReaderSpec` of both readers: weak fairness of the client's next request: a
  client that began a scan goes on asking, and the daemon answers. Nothing is
  assumed of other clients, and the daemon makes no step on its own.
- `Chassis`: weak fairness of each card's process (the Go scheduler and the
  ticker) and, for each card, of the MM taking a datagram of that card: the
  socket's queue is first in, first out, so what was not lost has its turn.
  Nothing is assumed of faults, and nobody has to start the MM again.
- `UdpServer`: weak fairness of the main loop; strong fairness of `Read`, because
  the kernel reports an error of a socket once, so reads that fail do not keep
  those that succeed from happening for ever. Nothing is assumed of clients or of
  the signal. `StopsWhenQuiet` has the premise that datagrams stop to come: without
  it the code may put its end off for ever, since the select prefers a message.
- The session layer has no fairness: it only reacts.

`ScanEnds` of `SdrReader` holds because each reply leads to a later record; it
needs the number of records to be finite, which `MaxRecords` makes it: a client
slower than the cards that add records would follow them for ever.

## The proofs

All for every value of the constants, from the assumptions named in the modules
(`SizeAssumption`, `RequestAssumption`, `SensorAssumption`, `LogAssumption`,
`ChassisAssumption`, `FieldAssumption`, `BufferAssumption`, `NoAnswerAssumption`).

`LanSessionProofs`. The invariant `IInv` adds to the checked invariants
`Addressed`: an active slot's id carries its own index and is not temporary. This
makes `SidToSession` at most one slot, so closes and privilege changes touch one
slot. `ActiveCount` is inductive through cardinality of the active set;
`SlotAvailable` follows: a count below the number of slots leaves a free one.
For the action properties and the refinement, `Shape` says what a step can do to
the table: change sequence numbers, open a session, set a privilege, close one;
`Implements` maps each to a step of `SessionTable` or to a stutter.
`RepliesInOrder` is about `ReplySpec` of `SessionReplies`, whose steps are those of
`LanSession` (`RepliesAreSessions`). It compares two replies that may lie far apart, so
it needs what the table keeps between them, `Known`: the number a session is to use
next is not 0, and is the one after that of its last reply. `Replies` says of each
step that it answers outside the sessions and uses up no number of theirs, or answers
on one session and uses up its number only. `Addressed` is needed again: the session
whose id the reply carries is that one.

`SdrRepositoryProofs`. `PointersAgree` is not inductive: after an erase it says
nothing about the last record's pointer. `NoDanglingNext` adds that it leads to
no record that is not there yet. `IdsCount` ties the id counter to the number of
records until it wraps, `AllLive` ties count and tail to the heap until an erase.
`WalkFinds` is the search for a duplicate: the walk from the head meets the first
record of a sensor if there is one. `SensorsHaveOneRecord` has the condition that
requests name lun 0 only (`Luns = {0}`), as line cards do: a new record has lun 0
whatever the request says, so with another lun it is false. `AddStores` and
`UpdateWrites` say what an Add SDR and an update leave behind; the composition uses
them.

`SdrReaderProofs`. `ScanInv`: what the client was sent are the records `lo .. hi`
of the heap, which the next pointers still join, and it asks for `hi + 1`; what
there was at its first reply is `lo .. t` of the same chain. An erase moves no next
pointer, so the chain can only grow, and a scan that ends well ended at `t` or
behind it. `ScansAdvance`: each reply is a record behind all those the client was
sent. The theorems have the condition `MaxRecords < LastId`: beyond it ids
repeat and a client can be led anywhere.

`SensorPollerProofs` builds on those. `LocalFirst`: until an erase the first
records are those of the local sensors, in order. `NotPast`: the walk for sensor
`k` is at or before record `k`. Together the walk meets its record before the
end, which is `NoCrashBeforeErase`. `ReadingsFollow` needs an assumption: no Add
SDR carries a local sensor's number with a value. It is a hypothesis because the
code numbers sensors `1 + 16 * card` in eight bits (`bmc.go:143`), which repeats
from card 16 on. `RoundsAreShort` counts the steps a round has left, `StepsLeft`: a
number that falls with each step of the poller and that no request changes.

`SelLogProofs`. `Shape` describes the slice: blanks, then consecutive ids that
end at the count. So the search for an id ends at its first step,
`SpaceIsRoom`, and the next id of a reply, computed as a place, is the id of the
following event until the first clear, `ChainIsWhole`. For the client of `SelReader`,
`ScanInv`: it was sent the events `1 .. hi`, because a log that was ever cleared has
a blank for its entry 0 and ends the scan at once; it asks for `hi + 1`, which is
in the log or, after a clear, never again. `ScansAreShort` says of each reply that
it is the next event.

`UdpServerProofs`. `Implements` follows the message through the two goroutines: a
`Read` and a `Receive` do not change the concatenation of what is in hand, offered
and in the buffer, `Arrive` appends to it and `Handle` takes its head. `SaneServed`
rests on the theorems of `WireProofs`.

`WireProofs`. The windows: `ReadExact` says what a read inside eight bits returns,
`ReadWraps` that any other panics, `AddFits` which records are too long.
`SessionWordFields` and `TempWordFields` justify the ids of `LanSession`, records of
three fields: the words of 32 bits give the fields back. `FreeSpaceExact`:
the free space reported is right only when at most 251 of 1024 records are free.
`MessagesSound`: the check byte fits; `PatchedUnsound`: that of a poll does not,
because the value is put into the message after it was built
(`ipmi_internal_sensor.go:268`); the receiver does not look.

`ChassisProofs`. All safety properties of the composition, for any number of cards,
sensors, slots and faults. The module takes the lemmas of the two components over
with two INSTANCEs (`LanP`, `SdrP`): the steps of the MM are theirs, so `MMInv`, the
inductive invariants of both, is one here, too; `MMStaysConsistent` says what
follows for the MM among its cards. The other invariants build on each other:

- `OwnSession` is not inductive: a reply under way names a session, too, and the MM
  hands ids out again. `Apart`: the session that a card claims, in its context or by
  a reply that is under way to it, is open, and no other card claims it, as far as
  cards that were started after the MM go. It rests on `TableOK`, by which an open
  session's id names its slot: an activation takes a free slot, so its id is no
  one's.
- `WInv` adds the types of cards and datagrams and that nothing is an Activate Session
  of a start that has not come to that exchange. `ChassisTypeOK` follows, with
  `LifeMax` for the bound on restarts.
- `OneSlotPerStart` counts: a start of a card is worth one session. `SlotsBound` says
  where that worth can be, in at most one of four places: with a card that has yet to ask,
  in a request under way, in a reply that refuses or only leads on, or in a session
  of the MM. Each step moves it or drops it; only a repeated datagram makes one more.
- `OneAtATime`: without a repeated datagram a card has one datagram of its present
  start under way, its request or the reply, because `ipmiReqRsp` waits. That makes
  the reply the one to the request the card is at, though it is matched by its
  command only.
- `AckedIsStored` is the case of two arguments in `Added`: if nothing was lost, what
  a card asked for is stored or still coming; if nothing was repeated, what was
  answered is stored.
- `ProxyFollows` follows from `Followed`, where a reply to a card says that the value
  is there. Numbers of sensors are bytes, so cards whose numbers agree modulo 16
  share them, and share the MM's records: card 17 has those of card 1 (`bmc.go:138`;
  `NumbersShared`). The MM shows for them what one of them, `Sharers`, last polled,
  unless one is polling or at 0: a new value may come from any of them, an older one
  does not come back. `Explains` ties the shown value to such a card in each state.
  The theorem has no condition on the numbers; `SixteenCards` is the case of the
  cards 1 to 16, where each card's sensors show its own values.
- `NeverStranded` is the safety behind `CardsComeUp` and `PollsGoOn`, and rests on most of
  these. `AllProsper`: an undisturbed card is ready, or its request or reply is
  under way; what it was given so far lets its next request succeed. That request
  (`GoodAnswer`) finds room by `SlotsBound`, its session by `Apart`, the privilege it
  asks for by `Operators` (every session was opened with that limit) and the record
  it updates by `Added`; the reply is the one it waits for by `OneAtATime`. The
  premise is the one of the liveness properties, `Undisturbed`.
- `ExchangesAreShort` is what those two add to it, but for fairness: `StepsToGo` counts
  the steps to a card's next exchange, its send, the answer and its receipt, and the
  datagrams of its earlier starts, which have their turn before. Steps of the card
  and of the MM with its requests lower the count, none raises it.

Only model-checked: liveness (`RoundsEnd`, `ScanEnds` of both readers, `CardsComeUp`,
`PollsGoOn`, `DatagramsServed`, `StopsWhenQuiet`). It needs ENABLED, beyond the prover:
that a fair step can happen, and so does. What the steps then achieve is safety, and
proved, as progress that they make and no other step takes back: for the poller by
`RoundsAreShort`, for the readers by `ScansAreShort` and `ScansAdvance` (the events and
records still to read are bounded), for the cards by `NoCardStranded` with
`ExchangesAreShort`, and for `DatagramsServed` by `Implements` of the server, where the
queue ahead of a datagram only becomes shorter. Every other property of a passing run
is a theorem.

Proved, but no property of a run: `RoundsAreShort`, `ScansAreShort`, `ScansAdvance`,
`ExchangesAreShort`, `SixteenCards`, `SlotAlwaysAvailable`,
`CountIsLength`, `PollerTypeCorrect`, `TypeCorrect` of the repository and of the log,
`MMStaysConsistent`, and those of `WireProofs`. They follow from stronger properties of the
runs, are checked of the components alone, are types only, or are sums TLC would
only sample.

No module declares a RECURSIVE operator.

## Not modelled

- What the bytes of a record and of an event say: no state of the program depends
  on it. (`addSelEntry` and `addToSel` count differently from where the data of an
  event starts and lose three bytes, `ipmi_internal_storage.go:440`, `bmc.go:405`.)
- The order of fields in a packet. Where the code mixes header and data up, in an
  Activate Session inside a session, `Reactivate` takes what comes of it.
- Authentication codes: the code neither makes nor checks them. Nor does it
  check the check bytes it receives.
- Timeouts of sessions: `timeLeft` is set and never counted down.
- sysfs sensors are a FIXME in the code. Tables without a dispatch to them (bridge,
  transport) are never used; their handlers are empty.
- The error of a dead port that reaches a card which does not wait for a reply;
  in the code it makes the next exchange of the card fail once.

## Plan

Done: all components with state, the server, the numbers of the wire, restarts on
both sides.

- The poller of a line card together with its exchanges: its walk through the
  local list and its request are in two modules now.
- A run with cards that share sensor numbers (1 and 17): `ProxiesFollow` covers them,
  the runs have cards with numbers of their own.
