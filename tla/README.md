# gomqtt: a TLA+ development

TLA+ modules for the MQTT 3.1.1 broker and client in this repository, the TLC
instances that check them, and TLAPS proofs of the results that matter most.
`PROJECT.json` is the machine-readable index: which definition models which
source lines, which run checks which property, which mutation of the code each
property catches, and where the hazards of the code are.

Run a check with `tlc -config X.cfg MCX`, the proofs of a component with
`tlapm XProofs.tla` (Delivery, Takeover, TopicIndex, Retained, Server, Connection,
Codec, Client; the codec takes several minutes, the others less).

## 1. Inventory

### Components, state, operations

| Component | State | Operations | Module |
|---|---|---|---|
| session aggregate (`session_aggregate/session.go`) | in-flight window, identifier cursor, offline queue, subscriptions, connected flag | NextPacketID, TrackInflight, Acknowledge, Enqueue, DrainQueue, Resume, ... | `Session`, (subscriptions) `Takeover` |
| publishing service (`publishing/service.go`) | map client -> sink | Publish, deliver, Acknowledge, promoteQueued, ResumeSession, RetransmitExpired, DeliverRetained | `Delivery`, `Retained` |
| connection service (`connection/service.go`) | none of its own | Connect, Disconnect: sequences of calls on four stores | `Takeover` |
| subscribing service (`subscribing/service.go`) | none of its own | Subscribe, Unsubscribe | `Takeover`, `Retained` |
| transport connection (`transport/connection.go`) | outbound channel, done, close reason, timers | Serve: reader, writer and keep-alive goroutines, Send, Close, handshake, dispatch, teardown | `Connection`, `Delivery`, `Takeover` |
| listener (`transport/listener.go`) | connection map, counter, wait group | Start, accept loop, Stop | `Listener`, `Server` |
| session store, client registry (`persistence/memory`) | maps under locks, one lock per session | Get, Put, Delete, Update; Register, Unregister | `Takeover`, `Delivery` |
| subscription index | trie, filters per client, count | Subscribe, Unsubscribe, UnsubscribeAll, Match | `TopicIndex`, `Subscriptions` |
| retained store | topic -> message | Store, Remove, Matching | `Retained` |
| topic names and filters | - | validation, Matches | `Topics` |
| client library (`pkg/client/client.go`) | pending waiters, identifier counter, done | Connect, Publish, Subscribe, Unsubscribe, Disconnect, Close, read loop, keep-alive loop | `Client` |
| server process (`cmd/server/server.go`, `cmd/main.go`) | loops' context, admin server | Start, background loops, Stop | `Server`, (retransmission) `Delivery` |
| packet codec (`mqtt/packet`) | reader and writer buffers | encode, decode, framing | `Codec`, `Wire`, (shared buffer) `Connection`, `Client` |
| client aggregate (`client_aggregate`) | state, last activity | Disconnect, RecordActivity, IsKeepAliveExpired | `Takeover`, `Connection` |
| admin API, configuration, metrics, logging, wiring, load generator | - | read-only views, construction | not modelled |

### Interaction

Each TCP connection has a reader goroutine, which runs the application services
for the packets it reads, and a writer goroutine, which drains the connection's
bounded outbound channel. A publisher's reader fans a message out to *other*
clients: for each it looks up the sink, then enters that client's session lock
(`SessionStore.Update`) and sends through the sink, which never blocks. The
retransmission loop does the same on a ticker. Connect and Disconnect change
session store, subscription index, registry and sink map one call after the
other, with no lock across them; the registry returns the connection a new one
displaces, and the new connection's reader closes it.

### What is hard

* Three writers (publishers, the client's own reader, the retransmission loop)
  meet in one window, queue and outbound channel, each of which can be full.
* The sink is read outside the session lock; `IsConnected` and the retransmission
  clock are too.
* A reconnect overlaps the teardown of the connection it replaces at every store
  call, and an identifier can be taken over again before that has finished.
* Identifiers recur; PUBACKs can be late or double; the client's calls time out.
* A CONNACK can fail after four stores have been changed.
* Stop works on a map that the accept loop is still filling, and each of its
  three waits may time out.
* Two timers, any handler and anyone outside may close a connection, in every
  state of its reader and its writer.
* A byte too many or too few in one packet changes every packet after it.
* The trie must prune without harming a neighbour.

### What makes each part correct

Session and publishing: no QoS 1 message is lost other than where the code gives
it up, held twice or released before the client has it; limits hold; the window drains. Connection:
an open client can be reached, the displaced one ends, the will is a verdict on
the first close reason, nothing stays registered. Index: it is the set of
subscriptions and matches as `TopicFilter.Matches` does. Retained: no gap between
stored and live messages. Transport connection: answers are never dropped,
silence and only silence ends a connection, and Serve returns. Codec: decoding
undoes encoding, and packets stay apart on a stream. Listener and server: the
limit holds, and a shutdown ends and tells the truth. Client: an acknowledgement
reaches the call it belongs to.

## 2. Modules and how they correspond to the code

**Session** - one operator per method of the aggregate. A message is a number.
`SentAt` is kept as an age, `now - SentAt`, the only thing the code computes
from it. NextPacketID scans from the cursor as the code does, including failure
when every identifier is in flight.

**Delivery** (extends Session) - one subscriber with a persistent session whose
connections follow one another. `lock` says which locked section runs; a section
that sends several packets (promotion, retransmission) takes one step per packet
with the lock held, because the writer drains the queue meanwhile. `LookupSink`
and `Deliver` are two steps, as in `deliver`; `RetransmitScan` reads the clock
and the sink before `RetransmitExpired` takes the lock, and `retxLate` keeps how
stale that reading is. The client (`peer`) may leave at any point, also between
RegisterSink and CONNACK. `owed`, `acked`, `received` are history that no guard
reads, and so are the three ways in which the code gives a message up: `lost` (pushed
out of the full queue, counted by the session), `refused` (deliver finds no
identifier, counted by the service) and `forgotten` (DeliverRetained finds none, and
neither counts it nor puts it back, `service.go:395-398`).

**Takeover** - any number of connections with one client identifier. Each step is
one call on one store; `entry` names the connection whose session is stored,
`held` the entry `Update` found before locking it. Handshake refusals before the
first store call are one action. The will and the close reason are modelled,
the other clients are not.

**Topics, Subscriptions, TopicIndex** - topics are sequences of levels.
`Subscriptions` is the abstract specification (`ISubscriptionIndex`): client and
filter to granted QoS. `TopicIndex` is the trie: its nodes are paths, with
insertion, pruning upwards from the removed leaf, the two side tables and the
recursive walk of Match written as a function of the consumed levels.
UnsubscribeAll ranges over a map under the lock, in whatever order Go takes:
`lockedFor` is the client it runs for, `left` what its loop has not come to, and
one step removes one filter. TopicIndex implements `Subscriptions` under the
mapping `granted <- what the nodes hold`, less what belongs to `lockedFor`: nobody
can look while the lock is held, so to everyone else UnsubscribeAll happens at once.

**Retained** (extends Topics) - Publish as store-then-match-then-deliver against
Subscribe as index-then-match-then-deliver. `due` remembers who was subscribed
when Publish began and has been since.

**Channel** - what a persistent session promises at QoS 1, without identifiers,
connections and queues: offered, held, received, acknowledged, dropped (given up, counted
or not). Delivery
implements it under the mapping `Ch`: in flight or queued is *held*, and dropping
is allowed only when as much is held as the queue, or the identifier space, has
room for.

**Listener** - the accept loop, one goroutine per connection, and Stop. Map,
counter and wait group are separate variables updated in the code's order. Go's
`sync.Map.Range` is `StopVisits`: it visits what was there at the start, unless it is
deleted first, and may or may not visit what is stored meanwhile.

**Server** (extends Listener) - the process around it: Start in its order, the
background loops, the admin HTTP server with one request at a time, and Stop with
its three waits, each of which may time out. The model goes on after Stop has
returned, so that what a timeout left running is there to be seen.

**Connection** - one `Connection.Serve`, with its three goroutines and Close.
Time is counted in half seconds (`keepAlive/2` and `3/2 keepAlive` are then whole)
and passes while the reader is blocked, in the handshake (Connect, the CONNACK's write,
ResumeSession) or in a handler; a goroutine that is doing none of these does its step
before the next half second. `idle` counts from Connect on, as lastActivityAt does, the
keep-alive loop's ticker from the end of the handshake. `deadline` and `ticker` are what
is left of the two timers. Close is two steps, `Close` (reason, done) and
`CloseSocket`, because the writer may still drain its queue between them. A packet is what
its handler does to this connection: answered, not answered, DISCONNECT,
refused, or not decodable. `silence`, `waited`, `overdue` and `owing` are history.

**Codec** - the encoder and decoder of all fourteen packet types on sequences of
bytes, `Decode` and `Reader.ReadPacket`, without state of its own. The loops of the
code (the remaining length, the filters of a SUBSCRIBE) are written by what they have
after each turn, UTF-8 validation as a recursive function of the position. Decoders
return Bad for every error and encoders Refused. `Packet` is the set of packets the
format can carry, of any length up to the format's limits; `Altered`, `Miscounted`,
`Misread`, `Smeared` and `Disputed` are what the codec would get wrong of given
packets, lengths and inputs.

**Wire** (extends Connection and Codec) - the connection with the codec it reads and
writes with, over `Packets`, `Lengths` and `Inputs`: any sets of these for the proofs,
and in `MCConnection` samples for TLC (every field at its edges, every header byte,
short bodies, every packet with one byte changed, removed or appended).

**Client** - goroutines sharing one client. `expect`, the locked write, the wait
with its three outcomes and the deferred `forget` are separate steps; `deliver`
is the lookup under the lock and the send after it. A request carries, beside its
identifier, its position in the order of allocation, which the program does not
know and only the properties use. Publish at QoS 1 and Unsubscribe take the same
steps and are one kind of call; QoS 0 and Ping write without waiting, as the
keep-alive loop does. The broker is external: it reads in order, and answers,
leaves a request unanswered (the case ErrTimeout is for) or hangs up.

Definitions introduced by a comment `Mutant:` are plausible wrong versions of
the definition that follows them; nothing refers to them, and each shows that
some property would notice.

## 3. Runs

| Run | Instance | Shows | Distinct states |
|---|---|---|---|
| `delivery` | 2 publishers, 3 messages, window 2, queue 1, 2 connections, outbound queue 1 | types, limits, SingleCustody, SentIsTracked, AtLeastOnce, refinement of Channel | 899,771 |
| `delivery_exhausted` | 1 identifier for a window of 2, 4 messages | Custody when the allocator runs dry; the window drains | 383,190 |
| `takeover` | 2 connections, clean or persistent, subscribing and unsubscribing | NoDeafClient, NothingLeaks, SubscriptionsIndexed, will rule, displaced connection ends | 72,147 |
| `topic_index` | 2 clients, 5 overlapping filters, 14 topics, every order of UnsubscribeAll | agreement with Matches, pruning, tables, refinement | 278,478 |
| `retained` | 2 publishers, 1 client, overlapping filters, 3 messages | NoGap, AckedReached | 1,796,751 |
| `server` | 3 sockets, limit 2, admin API on | LimitHolds, OneSlipsPast, QuietAfterStop, ShutsDown | 280,160 |
| `client` | 2 callers, 2 identifiers, 3 requests, 1 inbound message, socket of 1 packet | RightAck, AckReachesWaiter, WaitsForWritten, ClosedByUs | 1,760,354 |
| `connection` | keep-alive off or 1 s, connect timeout 1 s, outbound queue 1, one unread packet; codec samples | AnswersKept, SilenceNoticed, KeepAliveFair, ServeEnds; RoundTrip, Canonical, Framing | 266,237 |
| `delivery_stranded`, `takeover_session`, `server_stop`, `connection_writers` | smallest instance that shows it | a comment of the code that the code does not keep (section 6) | - |

**Why these bounds.** A limit is interesting at the limit, so every queue and
window is one or two entries long and there are more messages than room. Two
publishers suffice for every race on the session, whose sections are
serialised; the third actor is the retransmission loop. Two connections of the
subscriber give a reconnect with a stale sink in somebody's hands. In `delivery`
there are four identifiers for three messages, so the cursor does not come round:
once it has, a late PUBACK is indistinguishable from a fresh one and AtLeastOnce
cannot hold (see section 6); `delivery_exhausted` is the opposite case, one
identifier that is always being reused. Two connections of one identifier give
every overlap of a setup with a teardown; the invariants, for which a chain of
takeovers matters, are proved for any number. In `connection` a keep-alive of one
second has the ticker at its lower limit, a whole keep-alive, which is the worst case of
SilenceNoticed, and handshakes and handlers outlast its timeout; longer keep-alives, whose
interval is half of them, are in the proofs. An outbound queue of one is full after one
packet; the length samples sit on both sides of each change of width. In
`server` three sockets at a limit of two are one to refuse. The filters of
`topic_index` share a node, shadow one another, end in `#` at a node that is also
a leaf, and put a wildcard at the root; its topics are all of one and two levels
over three level names, the system level included, and two of three levels. In `client`
two identifiers for three requests are the least that come full circle.
Ages stop at MaxAge, after which a message is simply expired.

Symmetry is declared over publishers, connections or clients in runs without
temporal properties that single one out; TopicIndex's refinement is an action
property that treats clients alike. CHECK_DEADLOCK is FALSE where the bounds
(messages, connections) let everybody stop; `topic_index` and `client` check it.

**Fairness.** `Delivery`: weak fairness for the goroutines and the ticker,
strong for the two sections that wait for the session lock, because
`sync.Mutex` hands over in first-come order once a waiter has starved for a
millisecond. WindowDrains assumes a connection that stays up, not one that is
made. `Takeover`: weak fairness for each connection's own goroutine - store
calls return, and a socket write returns within WriteTimeout; clients need never
speak or leave. `Server`: the accept loop, the goroutines and a Stop that was
called keep running, RetransmitExpired and sampleGauges return, and the loops'
select, which chooses at random among what is ready, takes a cancelled context in
the end (strong fairness); nobody has to dial, hang up or send a signal.
`Connection`: the goroutines run, handlers return (they wait for locks, never for
a socket), a write ends within WriteTimeout, and time passes; nothing is assumed
of the client or of those who call Close.

## 4. Proofs

Eight modules, one per component, prove every safety property the passing runs check,
for every value of the constants that the named assumptions of the component allow:
any set of publishers, connections, clients, sockets or goroutines, limits, timeouts
and identifier ranges of any size, any packets and any input. The assumptions say no
more than that sentinels are no members, capacities are at least one, bounds are
natural numbers, filters and topics are well formed, and packets and bytes are packets
and bytes; TLC evaluates them on every run. A property is seldom inductive as it
stands. What had to be added, each part checked by TLC on the run's instance before it
was proved, is the useful half of the proofs, so it is told here.

**DeliveryProofs.**
* **TypeCorrect**: `Spec => [](TypeOK /\ LockInv)`. A retransmitting section sends
  `inflight[pid]` for the identifiers on its list, which is a message only if they
  are still in flight; LockInv (`todo` within the window, and empty when the lock is
  free or promoting) is the missing half.
* **WindowBounded**: `[]WindowBounds`. Inductive given the types; the work is in the
  cardinality of the window when an identifier is added, released or reused, and in
  that identifiers run out only when as many messages are in flight.
* **CustodyKept**: `[](Custody /\ SingleCustody)`. Adds FreshInv: what a publisher
  delivers, or is about to publish, is new to the session, and no two publishers
  deliver the same message.
* **LossIsCounted**: if `MaxInflight < MaxPacketID`, the full queue is the only place
  where a message is given up, and its drops are counted. The hypothesis is needed:
  without it DeliverRetained loses messages that nobody counts.

The second half of the module is about the wire and the refinement of Channel.
* **RecordedBeforeSent**: `[]SentIsTracked`, through OutboundOnRecord, which says it
  of the outbound queue whatever connection it belongs to.
* **OnlyStaleAcksLose**: `Spec /\ []NoStaleAck => []AtLeastOnce`, and
  **OnlyStaleAcksShow**: `Spec /\ []NoStaleAck => ImplementsChannel`. NoStaleAck says
  that no PUBACK under way names an identifier that was given to another message.
  ReadInv ties what the client has read to the window: it is in flight or
  acknowledged, or was a retained delivery nobody was promised. Each step of Delivery
  is then a step of Channel or none; drops need WindowBounds to show the session full.
* **DeliveredAtLeastOnce** and **SessionIsChannel**: the same without NoStaleAck, for
  runs in which the cursor does not come round (hypothesis IdentifiersLast,
  `2 * MaxMessages < MaxPacketID`). CursorInv counts: a message takes an identifier
  when it is sent, and a retained one that finds the window full takes one more before
  it is queued, so two each are always enough. BehindInv: until
  then all identifiers in use or under way lie behind the cursor. The hypothesis is
  the code's own limit: beyond it a late PUBACK cannot be told from a fresh one
  (section 6). The first two theorems are unconditional in the constants and say that
  this is the only way to lose a message.

**TakeoverProofs.**
* **TypeCorrect**: includes "at most one will per connection"; needs WillInv, none was
  published before teardown reaches it.
* **NobodyDeaf**: `[]NoDeafClient`. Only RegisterSink takes a sink away, and it
  records whom it displaced.
* **NoSubscriptionForgotten**: `[]SubscriptionsIndexed`. IndexInv: whoever empties
  the index has yet to delete the stored session.
* **NothingLeftBehind**: `[]NothingLeaks`. OwnerInv: whoever is registered has yet to
  take itself out, or lost its CONNACK. EntryInv: for a session marked connected somebody is registered or
  *responsible*, that is, will register, or has unregistered and has yet to delete or
  mark it.
* **DisconnectKeepsWill**: `Spec => NoWillAfterDisconnect`, the first half of WillRule.
* **NoWillForgotten**: `[]WillDecided`, the safety core of its second half: teardown
  does not get past the will without having published it, once, unless the reason for
  closing is a DISCONNECT. ReasonInv: what is being torn down has a reason, and as the
  first one is kept, it is the one the will was decided by.

**TopicIndexProofs.** IndexInv says that the trie is closed under prefixes and every
node leads to a subscription (ShapeInv), that what nodes grant is what the side tables
hold, less what a running UnsubscribeAll has come to (GrantInv), and that the gauge is
their number (CountInv).
* **TypeCorrect**, **NothingDead**, **TablesFollow**: `[]TypeOK`, `[]NoDeadNodes`,
  `[]TablesAgree`. The heart is PrunedOnPath: below a node that removal
  detaches there is nothing but the path of its own filter.
* **TrieIsSubscriptions**: `Spec => ImplementsSubscriptions`, one step per operation,
  the steps of UnsubscribeAll's loop being stutters.
* **TrieMatches**: `[]MatchAgrees`. The recursive walk unfolds (WalkUnfolds), reaches
  after k levels exactly the nodes of length k that match the first k levels
  (Reached), so what it collects are the filters that `Matches` accepts, and the
  highest QoS among them is the one granted.

The last needs induction over the length of a topic, the pruning over the depth of a
node. The library's induction theorems cannot be instantiated by the provers here; the
module states induction with a set in place of the predicate (SetInduction), derived
from the well-foundedness of the naturals, and that can.

**RetainedProofs.**
* **TypeCorrect**; ControlInv relates the publishers' and subscribers' counters.
* **AckMeansReached**: `[]AckedReached`. LiveInv and DueInv: who is due a message
  still holds a matching filter and has got it, once, or its publisher is on the way.
* **NothingBetween**: `[]NoGap`. GapInv is the argument of the code's comment made
  exact: for each retained message and subscriber it was received, or is in the
  backlog, or its publisher has yet to come, or the SUBSCRIBE has yet to look.

**ServerProofs** (Listener and Server).
* **TypeCorrect**, **LimitKept**, **AtMostOneLeft**, **QuietOnceStopped**: `[]TypeOK`,
  `[]LimitHolds`, `[]OneSlipsPast`, `[]QuietAfterStop`. CountInv says what the counter
  and the wait group count (the latter the accept loop too), MapInv what the map
  holds, RoomInv that between check and count there is room for one more, MissInv that
  at most one socket is out of Range's reach, and StopInv what each wait of Stop that
  did not time out has established.

**ConnectionProofs.**
* **TypeCorrect**, **NoAnswerLost**, **NoSilenceMissed**: `[]TypeOK`, `[]AnswersKept`,
  `[]SilenceNoticed`. OwingInv counts the answers in the queue and in hand; TimerInv
  says that what is left on a timer and what has been waited, or for how long the
  loop has been watching an expired client, add up to no more than its bound.
* **KeepAliveJust**: `Spec => KeepAliveFair`, an action property, from SilenceInv:
  unless a packet is unread, the client has been silent as long as the broker waited.

**CodecProofs.** No state is involved here: the argument is about operators, and the
three facts of Wire follow from five theorems about all packets and all bytes. Each is
proved as it stands (NoneAltered, NoneMisread, AllFramed) and as the invariant TLC is
given, whose guard on the connection's state only makes it a predicate on states.
* **LengthSurvives**: every remaining length comes back, from as many bytes as
  `remainingLengthSize` reckons. The lemmas know the digits of a length and its
  continuation bits (EncodedDigits), and that a spelling ends at its first byte without
  one (BytesLengthEnd); LengthForth is the converse for a spelling that is minimal.
* **DecodeUndoesEncode**: `Decode(Encode(p)) = p` for every `p \in Packet`; with
  LengthSurvives, **RoundTripAlways**: `NoneAltered`, `[]RoundTrip`. A packet is *carried* when
  its encoding is a header byte, the length of a body and that body, and the body
  decodes to it. There is one such lemma per packet type, built from lemmas that a field
  read from what was appended leaves exactly what followed it. Framing is then the same
  for all types. For the two loops of SUBSCRIBE and UNSUBSCRIBE the invariant is that
  after k turns of the decoder the first k filters are read and what is left is what the
  encoder wrote after its own k turns.
* **StreamAgreesWithBuffer** and **PacketsStayApart**, hence **FramingAlways**:
  `AllFramed`, `[]Framing`. Both readers cut at the same place because the bytes up to LengthEnd are
  all they look at; that no proper prefix of a packet is a packet follows from where its
  length ends.
* **DecodedWasEncoded**: the converse. Whatever bytes are taken for a packet begin with
  that packet's encoding, with the exceptions of Misread; hence **CanonicalAlways**:
  `NoneMisread`, `[]Canonical`. A body *stems* from an encoder when what it decodes to encodes
  to it; again one lemma per type. The hard ones are CONNECT, where the flags that
  decide which fields follow must be those the encoder computes from the fields found
  (so each combination ConnectFlagsOK lets through is put together again bit by bit), and
  the filter loop, whose invariant is that what has been read encodes to what has been
  consumed.

The loops need induction, which is stated with sets as in TopicIndexProofs. UTF-8
validation is opaque in these proofs: the encoders do not check it, so all that
matters is that the strings of a packet in `Packet` are ones the decoders accept.

**ClientProofs.**
* **TypeCorrect**, from ControlInv (a call has an identifier and a request while it
  awaits an answer, and is only where its kind takes it) and WriteInv.
* **WaitersWereWritten**: `[]WaitsForWritten`. WriteInv: who is writing holds writeMu
  and the buffer is his packet. SentInv: no two calls share a request, and only a
  call that was sent has packets under way.
* **AcksReachWaiters**: `[]AckReachesWaiter`. PendingInv: an entry of the table belongs
  to a call in progress under that identifier, and a call that shares its identifier
  with nobody is in the table.
* **SuccessIsOwn**: `[]RightAck`. NumberInv: every call, packet, and answer carries
  the identifier its request was given, so that two requests with one identifier are a
  multiple of MaxPacketID apart. A new connection resets the counter, and the proof
  shows that nothing numbered is then left over.
* **NotConnectedIsOurs**: `[]ClosedByUs`. CloseInv: when the read loop closes the client,
  the reason is stored first.

**Only model-checked.** Liveness under fairness, which needs ENABLED: WindowDrains,
the second half of WillRule, DisplacedEnds, ShutsDown, ServeEnds.

## 5. What the checks establish, in words

* A QoS 1 message the broker accepted is, at every moment, acknowledged, in the
  window, queued, or given up, and in exactly one of these - through reconnects,
  failed CONNACKs, full queues and an exhausted identifier space. It is given up only
  when the queue or the identifier space is full. All of this is counted, except for a
  retained message that finds no identifier, which takes a window at least as large as
  the identifier space.
* What is on its way to a client is recorded first, so no PUBACK can be early.
* A client with an open connection can be reached, or is about to be closed, or
  was displaced by a connection whose CONNACK failed. When all have ended, nothing
  is registered but such a connection, and unless one is, a session that was kept is
  marked disconnected.
* The will is published at most once, never after DISCONNECT, and always after
  an abnormal end of an accepted connection; no teardown completes without it.
* Towards one subscriber the broker is an at-least-once channel: it forgets a
  message only when the client has received and acknowledged it, or when it is
  full, and never drops what the client has seen. The only
  thing that can break this is a PUBACK that arrives after its identifier has
  come round.
* What a stored session remembers to be subscribed to is in the index.
* The trie behaves as the set of subscriptions, and its matching agrees with
  `TopicFilter.Matches`, which the code's own comment calls the specification.
* A new subscriber misses neither the retained message nor the live one.
* The connection limit is exact although it is checked and counted apart.
* PUBACK, SUBACK, UNSUBACK and PINGRESP are on their way or the connection is
  closed. A client that is silent while the broker reads is closed after one and a half
  keep-alives. While a handler keeps the reader busy, or when a slow CONNACK or
  ResumeSession has used the keep-alive up, the loop closes it at its next check: half a
  keep-alive later at most, but a whole one for a keep-alive of one second. There is no
  other reason than silence, a slow handshake or handler, or a tie with the clock. Serve
  always returns.
* Decoding undoes encoding for every packet the format can carry, nothing but an
  encoding is decoded from any input (three exceptions, section 6), and a stream is cut
  into its packets wherever it breaks off, alike by both readers.
* A shutdown ends, and unless one of its waits timed out nothing touches a store
  once it has.
* The client hands each acknowledgement to its own caller, until the 65535
  identifiers have come full circle with a request still open.

## 6. Disagreements found, and observations

Four comments of the code describe something the code does not do; each has a
run whose counterexample shows it, quoted in `PROJECT.json` under `findings`:

1. `delivery_stranded` - `publishing/service.go:196-199` says the choice between
   send and queue is made inside the session lock; the sink is read before it.
   A message can be queued behind a finished ResumeSession and stay there while
   the client is online with an open window, until the next PUBACK or reconnect.
2. `takeover_session` - `connection/service.go:335-343` says the identity check
   protects the new connection's session; check (344) and cleanup (368-370) are separate
   calls, and the cleanup goes by client identifier. The old connection is told it is
   current, the new one registers and goes live, and the old teardown then deletes the
   session. In TLC's trace the two handshakes overlap before that, so that both sessions
   have been put; whose was put last makes no difference.
3. `server_stop` - `listener.go:209` says Stop closes every live connection, and
   `listener.go:255` that when its wait times out the sockets are closed; a connection
   that the accept loop stores after Range has passed is not.
4. `connection_writers` - `connection.go:520-521` says the CONNACK is written
   before the writer goroutine owns the connection, and `stream.go:168-171` that a
   Writer has one goroutine; the writer runs from the start, and can be given a
   PUBLISH as soon as Connect has registered the sink. Both goroutines then encode
   into the same buffer.

Also seen while modelling, and built into the statements of the properties:

* After a CONNACK that fails, teardown returns early because the client is not
  yet set: session, registry and sink keep pointing at a dead connection and the
  one it displaced is never closed (`connection.go:317`, and the `gaveUp` cases
  of NoDeafClient, NothingLeaks and DisplacedEnds). The comment in teardown, "Never got
  past CONNECT: nothing was registered", overlooks this case.
* Two connects that cross between Register and RegisterSink
  (`connection/service.go:183-185`) leave registry and sink map naming different
  connections; a clean one that the registry still names then deletes the session of the
  one that has the sink. This is another way to lose a session, which a lock over check
  and cleanup would not prevent; SessionSurvives leaves it out by asking for both.
* DeliverRetained (`publishing/service.go:395-404`) returns without a count when no
  identifier is free, where deliver counts (233-236), and ignores what Enqueue says it
  dropped. The configuration requires of max_inflight only that it is positive, so a
  window as large as the identifier space is allowed.
* `session.go:356-358` promises that in-flight messages are resent in the order they were
  originally sent, and sorts them by SentAt, which MarkRetransmitted overwrites for those
  that have expired: after message 1 was retransmitted, message 2 comes first.
* The keep-alive is checked "several times per interval", so that a client is
  disconnected soon after its deadline "rather than up to a full interval later"
  (`connection.go:586-588`); with a keep-alive of one second the lower limit of the
  ticker makes it one check per interval, and the delay up to a full one.
* A client's keep-alive runs from Connect, before the CONNACK is written: a CONNACK that
  blocks for longer than one and a half keep-alives gets it closed at the loop's first
  check, unless a packet of it has been read by then.
* `client.go:26` documents ErrNotConnected as "attempted before Connect"; closedError also
  returns it to calls that were waiting when the client was closed locally.
* If clean and persistent connects of one identifier race, which session
  survives depends on the interleaving; NothingLeaks rules out a session that is
  left marked connected, and one left behind by clean connections only.
* Once the identifier cursor has wrapped, a late PUBACK can release the next
  message under its identifier.
* A newer live message can reach a subscriber before the older retained one,
  because Matching takes a snapshot; Retained says what arrives, not in which
  order.
* A SUBSCRIBE or UNSUBSCRIBE that found its session before a takeover replaced it
  changes the orphaned session and the index, which is keyed by client identifier
  only (`subscribing/service.go:110`): the index may then hold a filter no session
  has, or lack one. `strayed` marks the second case in SubscriptionsIndexed.
* Stop closes every connection except possibly one, which the accept loop had in
  its hands; it is then served until Stop's timeout, and beyond, without its
  keep-alive loop. `OneSlipsPast` states the bound, `server_stop` that it is reached.
* "nothing writes to a store after shutdown reports it is done"
  (`server.go:230-231`) holds when no wait timed out. The listener's and the loops'
  timeouts are only logged, so Stop's result does not tell; QuietAfterStop names
  the three cases.
* The drain after Close (`connection.go:539-541`) reaches the client only in the
  moment before the same Close closes the socket.
* A DISCONNECT that is still unread when a write fails is never seen: the close
  reason is the network error and the will is published.
* The read deadline fires before the keep-alive loop does, unless a handler keeps
  the reader from reading; that case is what the loop adds.
* A stream that ends inside the fixed header gives io.EOF, as if between packets
  (`stream.go:94-97`); inside the body it is a malformed packet.
* Encoders and decoders disagree at the edges: a string of 65536 bytes or more is
  written with its length modulo 65536 (`codec.go:82`); a PUBLISH with DUP at QoS 0
  or with wildcards, and a SUBACK without codes, are encoded and not accepted back;
  a length spelled with more bytes than it needs, a refusing CONNACK with a session
  present and bytes after a packet given to Decode are accepted and not encoded.
  `Packet`, and with it RoundTrip, leaves out the first group, Canonical the second.
* The admin handlers and sampleGauges read live sessions without the session lock,
  although `stores.go:20-23` says the store hands out no pointers.
* In the client, two calls whose identifiers coincide after a full circle replace
  each other's waiter, and the first to finish forgets the other's. RightAck and
  AckReachesWaiter exclude exactly this. AckTimeout does not bound a write that
  blocks on a full socket.

## 7. Not modelled

* Codec: which error a decoder returns (all of them close the connection), the
  sharing of the read buffer, and `Publish.EncodedSize`, which nothing depends on. In
  TLC's samples payloads of more than 125 bytes occur only as remaining lengths; the
  proofs are for every length.
* WriteTimeout is a write that may fail at any time; the client library's
  keep-alive interval is a write that may happen at any time.
* Authentication and validation of CONNECT: one refusal that changes nothing.
* Several subscribers in Delivery: their sessions share nothing but the sink map,
  whose entries are independent.
* Reusing a client after Close, and an OnMessage callback that calls back into
  the client (documented as forbidden to block).
* Three connections of one identifier: too many interleavings to finish with
  subscriptions; the invariants are proved for any number.
* Order of arrival: a publisher's new message against the backlog ResumeSession
  sends, and a retained message against a newer live one. The code promises neither.
* Admin API (read-only), configuration (its values are the CONSTANTS), metrics,
  logging, wiring, load generator.

## 8. Plan

Done, in order: Session and Delivery with proofs; Takeover with proofs; Topics,
Subscriptions and TopicIndex with the refinement; Retained; Listener; Client;
Channel and its refinement by Delivery; Server; Connection; Codec; the proofs of
Channel's refinement, TopicIndex, Retained, Server, Connection and Client; Wire and the
proofs of the codec, which needed its folds rewritten as recursive functions.

Left, proofs: NoStaleAck from weaker hypotheses than IdentifiersLast (at most MaxPacketID
minus the window identifiers handed out while a PUBACK is on its way), and that
ValidUTF8 accepts exactly the encodings of sequences of scalar values other than U+0000.

Left for the model: client liveness on an instance of its own (every call returns, a
closed client ends both its goroutines), and several subscribers at the level of
Publish, composing Delivery's interface with TopicIndex's Match.
