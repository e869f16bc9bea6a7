# A TLA+ model of the IOWA client

IOWA is a LwM2M client stack in C.  An application creates a context, declares
its Objects and its Servers, and calls `iowa_step()` in a loop; the stack
registers the device on every Server, keeps the registrations alive, answers
the Servers' requests and notifies the values they observe.  This directory
holds a TLA+ model of the stack, the TLC configurations that check it and
proofs about it that TLAPS checks.

## The system

| Component | State | Operations | What is hard | Modules |
|---|---|---|---|---|
| registration (`lwm2m/iowa_registration.c`, `lwm2m/iowa_lwm2m.c`) | status, flags, two timers, a peer and a location per server; the state of the context | `lwm2m_step`, `registration_step`, reply handlers, timer handlers, connection events | replies, timers, connection events and the application all change the status; closing a server calls its own callbacks again | `Registration`, `ServerRequest` |
| client API (`core/iowa_client.c`) | the lists of servers and Objects, the event callback, the notification lock | add, remove, configure, changes, lock | servers removed while others run, or from the event callback; an allocation fails half way; the lock is a flag and not a count | `Registration`, `Management` |
| timers (`core/iowa_timer.c`) | a linked list of timers with absolute times | new, delete, reset, step | the step calls callbacks while it walks the list | `Timer` |
| CoAP exchanges and transactions (`coap/iowa_peer.c`, `coap/iowa_transaction.c`) | transactions being retransmitted, exchanges awaiting a response, replies kept for duplicates | send, receive, step | loss, duplication, reordering; acknowledgement and response race; a transaction finds its exchange by address | `Exchange`, `RequestService` |
| sessions, channels, main loop (`security/`, `comm/`, `core/iowa_base.c`, the DTLS bindings of `samples/`) | sessions with a handshake state, the array of channels, the walks of a pass | connect, disconnect, step, send, receive, select, closed connections | a channel lost in each state of a handshake; the loops hold a session or a connection across callbacks that may delete it | `Session` |
| observations and attributes (`lwm2m/iowa_observe.c`, `lwm2m/iowa_attributes.c`) | per server, the observed URIs with copies of their attributes, last value and last notification; the attributes written | observe, cancel, Write-Attributes, value changed, step | periods against changes; copies of attributes inherited over three levels; reads and allocations that fail half way | `Observe` |
| Objects and device management (`lwm2m/iowa_objects.c`, `lwm2m/iowa_management.c`, `objects/`) | Objects, Instances, Resources; the device's values and error codes; the sensors with their extremes | read, write, create, delete, execute, discover; the application's add, remove, change | operations on several Resources of which one is refused; arrays counted by one function and filled by another; who must be told | `Objects`, `DeviceObject`, `IpsoObject`, `Management` |
| codecs (`coap/iowa_message.c`, `coap/iowa_option.c`, `coap/iowa_coap.c`, `data/`, `lwm2m/iowa_uri.c`, `lwm2m/iowa_core_link.c`) | none | parse, serialize | lengths at the boundaries of each encoding; data cut short | `CoapMessage`, `CoapUri`, `DataText`, `Tlv`, `Lwm2mUri`, `ServerRequest`, `Codec` |

`iowa_step()` runs `securityStep`, `coapStep`, `lwm2m_step`, `coreTimerStep` and
`commSelect` in this order, in a critical section that it leaves around the
system calls and around the application's event callback.  `commSelect` hands a
datagram to the security session of its channel, which hands it to the CoAP
peer, which finds the exchange it answers and calls back the registration or
the device management.  Going down, closing a server deletes its peer, which
deletes its session, and each tells the layer above that it ended.

Each module covers one layer of this and keeps of the others what decides about
its own state: `Registration` sees a session as its state and a request as
outstanding or not, `Session` sees a registration as "under way or not", `Timer`
sees the registrations as the owners of timers, `Observe` sees an Object as a
value that can be read or not, `Management` sees a registration that does not
break.  The modules `Status`, `DataText`, `Tlv` and `Objects` are shared by those
above them; `Lists` is what is left of a linked list when several of its elements
are removed.  `RegistrationProofs`, `TimerProofs`, `ExchangeProofs`,
`ObserveProofs`, `SessionProofs` and `ManagementProofs` hold the theorems about
the module they are named after, `ChangeProofs` those about the values of
`Management` that change and about what its sensors measure, and `ListProofs` the lemmas on lists that they share.

The build that is modelled is the one of this edition: UDP only, no queue mode,
no bootstrap, no block transfer, no default periods, `IOWA_SECURITY_LAYER` NONE
or USER.

Conventions.  A definition has the name of the C function it translates; helpers
of the model have names in CamelCase.  A C function on one part of the state is
an operator from that part to the value, or to the set of values, it may leave,
one for each outcome of its system calls; a callback of the stack is one step,
since it runs inside the critical section.  `Faults` names the calls that may
fail.  What is not in the code (`stale`, `told`, `seen`, `result`, `drawn`, `forgotten`) records what
a property speaks of and decides nothing.  A definition with an underscore and
a capitalised word after it (`Sleep_Whole`) is a mistake the code could have
had, which the property it is listed with in PROJECT.json must notice.

## Registration

`Registration.tla` is the registration machine.  A server is a record
(`ServerRecord`): its status and flags, which timer each of its two timer
pointers holds, the state of its security session, the request outstanding on
its peer, the lifetime and disable timeout its Server may write, the last event
the application was given, and the changes that no request carries yet.

* `StepInitial`, `StepDeviceManagement`: `lwm2m_step`, with one round of
  `registration_step` on every server.
* `ExchangeTimer`, `UpdateTimer`, `LifetimeTimer`: the three timer handlers.
* `Reply`, `NoReply`: a response, or the end of the retransmissions.
* `HandshakeDone`, `HandshakeFailed`, `CloseNotify`, `SessionClosed`,
  `iowa_connection_closed`: the security session.
* `WriteLifetime`, `WriteDisableTimeout`, `TriggerUpdate`, `ExecuteDisable`:
  what a Server does to the Server Object.
* `ChangeObjects`, `iowa_client_add_server`, `iowa_client_remove_server`,
  `clientNotificationLock`: the application.

A timer has no date: an armed timer may fire at any moment, which covers every
relation between the lifetime, the transmission wait and the clock.

| Run | Instance | Shows |
|---|---|---|
| `secure` | one DTLS server, every fault, lifetimes of each class, fairness | `RegistrationInv`: the timers, the session and the request of a server are those of its status (`Consistent`), and STATE_INITIAL is idle (`InitialIsIdle`); a disabled server is left alone; no request and no change lasts forever; `ServersComeBack`: a disabled server returns (`DisabledReturns`) and servers that have all failed are tried again (`AllFailedIsRetried`) |
| `two` | a plain and a DTLS server, allocations may fail | a closed server leaves nothing behind; no change is forgotten; the last event agrees with the status, with the one exception below; a failed server waits for the reset |
| `reconnect` | one plain server whose channel breaks | the divergence `ReconnectionIsHarmless` |

The lifetimes of `secure` are one of each class the code tells apart: 0 (no
timer accepts it), 1 (its update delay is 0), 2 (below `MaxTxWait`, halved), the
default 5 (above it) and 9 (its date overflows).  One server is enough for the
properties of a server, since the servers share only `state`, the notification
lock and the change of the Objects; `two` has the smallest number that shows
them interfering: the reset when all have failed, and a removal that flags the
others.

`FairSpec` assumes that the application keeps calling `iowa_step()`.  Each pass
runs every step function, so each of `lwm2m_step`, the session step and a due
timer is weakly fair.  A timer is taken to be due only if the server keeps one
status: a successful update resets it, and takes the server out of its status.
Nothing is assumed of the Servers, of the network or of the application.

One event is wrong in the code and in the model.  `prv_initiateServerConnection`
raises IOWA_EVENT_REG_REGISTERING after `utilsConnectServer` has come back, and
on a plain server `utilsConnectServer` has already called `prv_register`; when the
request cannot be sent the application is told IOWA_EVENT_REG_FAILED and then
IOWA_EVENT_REG_REGISTERING of a server that is out.  `EventAgrees` is exact about
every other pair of status and event, of failed and disconnected servers too, and
names this one (`IdleEvents`); for a server reached over DTLS there is no
exception.  No document says in which order the events come, so this is not
listed as a finding.

Two more things the code does are in the model and excepted by the properties: a
channel closed during a handshake leaves the server in
STATE_WAITING_CONNECTION for good, and a server is freed without being closed
when an allocation fails during its removal.

## Timers

`Timer.tla` is `core/iowa_timer.c` under the registrations, with dates.  The
list is a sequence of timers, each named by its server and its purpose, and
`walk` is the loop that runs with the pointers it holds: the server
`registration_step` looks at, or the timer `coreTimerStep` runs, the one before
it and the one it read as the next.  `iowa_step` is cut
where the application's event callback runs, which is where the two loops hold a
pointer over code that may free what it points to.

* `StepBegin`, `ServerVisited`, `VisitDisconnected`, `VisitRegistered`,
  `VisitOther`, `ServerEventReturns`, `ServersVisited`: the registration half of
  `iowa_step`, one server at a time.
* `SkipTimer`, `ExchangeTimer`, `UpdateTimer`, `LifetimeTimer`,
  `TimerEventReturns`, `TimersVisited`: the traversal of `coreTimerStep`, one
  timer at a time.
* `Tick`, `Answered`, `HandshakeDone`, `RegistrationReply`,
  `RegistrationUpdateReply`, `WriteLifetime`: what happens while `commSelect`
  sleeps.
* `iowa_client_add_server`, `iowa_client_remove_server`: between two passes, or,
  with `Removes`, from within the callback.

The run `walk` has two servers, lifetimes 1 to 3, and time up to 4 that jumps by
whole sleeps: no loop holds a freed element (`HeldPointersAreLive`); a timer has
one owner, is on the list and is of its server's status (`TimersAreOwned`); no
sleep passes a timer (`SleepEndsInTime`).  `MaxTime` 4 lets a timer be armed,
reset and run twice.  Two servers are the smallest number for which a callback
changes the list on both sides of the timer that runs.  What `Registration` has
already, the failures of allocations and the delays no timer accepts, is not
repeated, and no event callback is modelled for what happens inside
`commSelect`, where no list is being walked.

`Removes` is FALSE in that run.  With `Removes = TRUE`, `HeldPointersAreLive`
fails: `registration_step`, `lwm2m_server_close` and `coreTimerStep` use their
element after the callback, although the comments of the code warn that the
callback may have removed the server.

## CoAP requests

`RequestService.tla` says what the sender of a confirmable request may count on:
one result; an answer only if the Server made one for that request, or for an
earlier one that had the same token and has ended; a failure only while nobody
has acknowledged it, when the peer is deleted, or in the place of an earlier
request that has ended while its message was still sent again.

`Exchange.tla` is the CoAP layer of one datagram peer.  `exchangeList`,
`transactionList` and `ackList` are the lists of the peer; `up` and `down` are
the datagrams on their way; `reaction` and `sending` are the Server; `result`,
`replyOf` and `executed` record what the callbacks were told, `drawn` the token
of each request, `uncached` and `forgotten` which replies were not kept, or not
long enough.  A transaction holds the address of its exchange and not the
exchange, as the code does.

* `Send`, `SendFails`: `coapSend` of a confirmable request.
* `Retransmit`, `GiveUp`, `AckExpires`: what `transactionStep` does to one
  transaction or one kept reply.
* `ReceiveAck`, `ReceiveReset`, `ReceiveConfirmable`, `ReceiveNonConfirmable`:
  `udpSecurityEventCb`, `transactionHandleMessage` and `peerHandleMessage` of one
  datagram, with every reply they send.
* `coapPeerDelete`.
* `Lose`, and the Server's actions, which are no code of this repository.
  Delivery leaves a datagram in flight, so any datagram may come twice, late, or
  never.

A message identifier stands for the message it was drawn for, and time is left
out: a transaction may be retransmitted as soon as it is on the list.  What a
callback does is a later step.

Nothing is assumed of the tokens that are drawn, of the addresses malloc gives,
or of how long a datagram may be on its way, and so three properties one would
like of this layer are false of the code.  The runs check, and `ExchangeProofs`
proves, exactly how far they hold:

* A transaction that fails finds its exchange by an address (`iowa_peer.c:53`).
  When its own exchange has been answered and freed, because a separate response
  overtook the acknowledgement, malloc may have given that memory to the exchange
  of another request, which is then told of a failure that is not its own.
  `FailureIsItsOwn` says that this is the only way: the request whose
  transmissions ran out has had its result, or is the one that fails.
* `coapPeerGenerateToken` compares a new token with those of the exchanges that
  wait, and not with those of which a copy of an answer may still come
  (`iowa_peer.c:993-1026`).  Such a copy is then given to the new request.
  `ReplyIsItsOwn` says that the response was made for the request that gets it,
  or for one that had the same token and has ended.
* The reply to a command is kept for `transmitWait`, 93 seconds, while
  `coapPeerGetExchangeLifetime` counts 247 seconds in which a copy may come
  (`iowa_transaction.c:181`, `:223`).  A copy that comes after is executed.
  `ExecutedOnce` says that a confirmable command whose reply could be kept is
  executed once and once more for each time that reply was forgotten.

| Run | Instance | Shows |
|---|---|---|
| `requests` | two requests, one retransmission, every fault | a callback comes once, and with another's answer or failure only as said above; `RequestService` is implemented (`ImplementsService`, the abstract phase of a request computed from the lists by `phase` and `served`) |
| `commands` | a confirmable and a non-confirmable command, one request, one retransmission, every fault, fairness | no confirmable command is executed twice unless its reply could not be kept or was forgotten; retransmission ends |

Two requests are the smallest number of which one can get what belongs to the
other, and one retransmission is enough for a failure to race an answer.
With two tokens and two addresses either may be drawn or given a second time.
`MaxExecuted` bounds the counts of executions and of forgotten replies: one above
what the property allows while no reply was forgotten.  These runs do not check deadlock, since the program may stop: a deleted
peer has nothing left to do.  `commands` assumes only that `iowa_step()` is
called, so that `transactionStep` gets to each transaction.  A reset ends a
transmission and its sender is only told when the peer is deleted: the model
does so and `RequestService` allows it.

## Sessions, channels and the main loop

`Session.tla` is the path from the connection of a server to its socket and
back: `coapPeerCreate` and `securityConnect`, the list of sessions and
`securityStep`, the two DTLS bindings of the samples (`TinydtlsStep`,
`MbedtlsStep`), the array of channels, `commSelect` and its dispatch,
`iowa_connection_closed`, `iowa_init` and `iowa_close`, which is cut into the
deletion of each peer (`coapClose`) and the rest (`iowa_closeEnds`): no callback
runs between them.  The state is one record
`ctx`, of the sessions, the channels, the peers and the connections open on the
platform; `pc`, `current` and `connArray` are where a pass of `iowa_step` is and
what it holds: the session `securityStep` steps and the array `commSelect` made.
The library is external: a handshake in it goes on, is retransmitted, fails or
ends, and gives up after `MaxRetransmit` attempts.

The run `session` has two servers, one secure, each binding and each security
mode, two session addresses and two connections that are given again once they
are free.  Two of each are the smallest number for which an address may be
reused and for which one server's callback changes the list under the other's.

* `LinksAgree`: of their types (`TypeOK`); the sockets are those of the channels
  and each channel has one session (`ChannelsAreOwned`); each session has one
  peer (`SessionsArePeers`).
* `StatesAgree`: the peer was told what its session is (`ToldOfItsState`), and a
  session that starts a handshake has a library that holds nothing of an earlier
  one (`HandshakeCanStart`).  The code breaks both, in one case each property
  names.  `iowa_connection_closed` is taken in any state; `securityDisconnect`
  tells the peer and the library only when the session is connected
  (`iowa_security.c:386-418`).  A session closed while its handshake runs keeps
  the library's peer, and the next handshake is refused at every step with 4.12,
  which is what `iowa_step` then returns; one closed in DISCONNECTING also has a
  peer that is never told.  The field `cut` of a session, which is not in the
  code, remembers such a close until the session is deleted: the property says
  that the sessions so closed are broken, for good, and that no other is.
* `HeldIsLive`: the session that `securityStep` is about to step is still there
  (`WalkIsLive`), and data that select announced goes to the session that had
  the connection then (`DataFindsItsOwner`).
* `HandshakeEnds`, for a session not closed halfway before, under the fairness
  of `FairSpec`: each pass of the
  application goes on and ends.  Strong fairness of a step with time elapsed says
  that time passes between the steps of a handshake: the walk comes to each
  session again and again, and the delay of the library is finite.

Left out of the run, and kept in the model: the fault "shrink", with which a
channel outlives its session (`ChannelsAreOwned` fails).

## Observations

`Observe.tla` is one Object whose Instances have a numeric Resource, observed by
Servers with tokens.  Time is the age of each observation since its `lastTime`.

* `observe_step`: a pass over every observation, with the outcome of each
  allocation (`prv_checkAndSendNotification`); a read that fails ends it.
* `Observe`, `observe_cancel`, `WriteAttributes`, `DeleteInstance`: what a Server
  sends, with `observe_handleRequest`, `attributesWrite`, `attributesGet`,
  `observe_updateObserve`, `observe_setParameters` and `observe_clear`.
* `ResourceChanged`, `clientNotificationLock`, `objectRemoveInstance`,
  `InstanceBecomes`, `lwm2m_server_close`: the application and the registration.
* `Tick`: `commSelect` sleeps, no longer than the pass let it.

The run `notify` has one Server, an observation of a Resource and one of its
Instance, periods on the Object and a threshold on the Resource:

* `TypeOK`: no two observations of a server have a token in common.
* `ObservationsAgree`: the copies of the attributes are those that inheritance
  gives, however they were written (`AttributesAreThoseWritten`), and the value
  thresholds are compared with is the one the Server was told
  (`LastValueWasTold`).
* `PmaxIsKept`: select never sleeps past a pmax.
* `NotificationsAreDue`: a change the stack is done with was told, or is
  unwanted by its attributes (`ToldOrUnwanted`), and no two notifications are
  closer than pmin (`LaterThanPmin`).
* `ChangeIsSeen`: changes are looked at in the end.  It assumes only that
  `observe_step` runs while there is a change it could look at, because a change
  interrupts `commSelect` and the application calls `iowa_step` again.

`MaxAge` 2 and `MaxSleep` 2 are pmax: ages above it are not told apart by the
code.  Two values on both sides of the threshold are all a threshold
distinguishes.  A Server's observations are only compared with its own, so one
Server is enough.  Reads that fail are those of an Instance that was removed; the
fault "read" has the same effect on a pass and is left out of the run.  An
observation has one URI, as in a build without composite operations.

## What is sent and what is read

`Codec.tla` sends one item and reads it: a request with its path, format,
options and data; any octets; TLVs under a URI; a number; links; the URI of a
Server; a registration and its update.  An item may lose its end on the way.
The functions are those of the code, in `CoapMessage` (header and options),
`CoapUri` (`iowa_coap_uri_parse`), `DataText` (numbers, links, paths and Base64
as text), `Tlv` (TLV, types, formats), `Lwm2mUri` (paths, formats, Core Link)
and `ServerRequest` (path, query and location of a registration).

The run `codec`:

* `FitsItsBuffer`: what is written fits the buffer another function measured.
* `SentIsRead`: requests, numbers and Server URIs are read as they were written
  (`ReadAsSent`, `ShortNumberIsAsWritten`, `ServerIsFound`).  Two things are not,
  and `ReadAsSent` says what is read instead.  `prv_encodeFloat` narrows every
  double within FLT_MAX to a single (`iowa_tlv.c:58-64`): 0.05 is read from a TLV
  as the nearest single, which is another number, while text keeps its decimals.
  And an empty value whose format is not named, as this client's own messages
  leave it (`iowa_management.c:254`), is read as no data.
* `OnlySentIsRead`: a message cut short is not read as another
  (`CutIsNotMisread`), any octets read as a message are one
  (`WhatIsReadCanBeSent`), and TLVs never name what is not under the URI of the
  request (`DataAreUnderTheUri`).  `WhatIsReadCanBeSent` has one exception, a
  defect of the code: the numbers of the options are added on 16 bits
  (`iowa_option.c:242`, `:288`) and nothing refuses a sum that wraps, so that
  `40 01 00 07 E0 FE F2 10` is accepted as the options 65535 and 0, out of
  order.  Such a message could not be sent again, and
  `iowa_coap_message_find_option`, which stops at the first larger number, does
  not find the options after the wrap.
* `RegistrationIsTold`: a registration lists every Object
  (`RegistrationIsWhole`) and its updates go where it was put
  (`UpdateFollowsRegistration`).

The run `straddle` is the divergence `InOrderIsReadAsSent`.

The items are at the limits of each encoding: option deltas and lengths of 12,
13, 268 and 269, values of every width, lengths of 7, 8 and 256, the three
levels of nesting, all the short octet strings over the values a decoder tells
apart.  `NumberSpan` is the number of values of an octet of a number: 8 instead
of 256 scales the eight widths down to integers TLC has (INT64_MAX is 8388607),
which keeps every comparison of the code and moves only its limits.  In the same
way a double has two decimals and a single keeps quarters: what the narrowing
does to a number is there, at a scale TLC has.  The rounding of a number written
as text is left out and the key of an attribute is abstracted
to its length.  This run has no deadlock check: an item is read once.

## Objects and device management

`Objects.tla` is the list of Objects and what is done with each; `DeviceObject`
and `IpsoObject` are the callbacks of the Objects the stack implements;
`Management.tla` is `dm_handleRequest`, the application's calls and the list of
Objects a registration carries.  A Read and a Discover change nothing, so they
are no action: in every state the properties speak of what they would give for
every URI.

| Run | Instance | Shows |
|---|---|---|
| `objects` | an Object of the application, or the Device Object with each of its options, or one kind of sensor | Objects have their type (`TypeOK`), and the Instances their owners have but for the calls told below (`InstancesAgree`); a registered Server is told of every Object; `AnswersAreRight`: a Read gives each value once (`ReadIsComplete`), a Discover each link (`DiscoverIsComplete`), in arrays that hold them (`ArraysFit`), and the extremes of a sensor are those it measured (`MeasuredBounds`); a change is told to the observations; a refused request has changed nothing |
| `lock` | a battery update while the application holds the notifications | the divergence `LockIsKept` |

Bounds.  `Cases` are the combinations the run starts in: the parts of the Objects
do not share state, so one kind of Object at a time is enough.  Values differ by
more than FLT_EPSILON; a text is a value in a buffer, of which there are two; the
Object of the application has a mandatory writable Resource; Instances given by the application are distinct and
never 65535 (`Contract`); there is one Server, whose connection does not break;
the Security and Server Objects are not on the list.  The fault is the memory to
add an Object, a power source or an Instance, and to remove an Instance, whoever
asks for it.  The VIEW leaves out what a step said (`out`), which only action
properties read.

For lack of memory three calls leave the Object and the owner of an Instance with
different Instances, and `InstancesAgree` names them (`Tears`): a Create that the
application has accepted, with its data, and the Object cannot add
(`iowa_objects.c:985` and `:1002`); a Delete that the application has done and the
Object cannot (`:1088`, not looked at); a sensor, freed before its Instance is
removed (`iowa_object_ipso.c:1006`).  Each leaves one Instance to one side, and no
other call leaves any.  The model goes on from there: what is left can be deleted,
created again, or removed.  Two things are not followed, because the code does not
say what they give: a request to a sensor that is gone is not in the model past the
lookup that does not find it (`HasSensor`), and what the application answers to a
Read of an Instance it has not is not in `Uris`.

`ChangeIsTold` and `RefusedChangesNothing` name the exceptions the code has.  A
reset of the energy tells of another Resource.  The texts of the device are
compared by their addresses: one that the application changes in its buffer and
passes again is read as changed and not told (`ChangedInPlace`).  A refused
replacement has emptied a multiple Resource (`Emptied`).  A write whose time is
refused has written the two texts beside it, and another time of the same request
(`TimeLeftOut`).  A Create refused for lack of memory leaves the application its
Instance (`LeftOver`).

## Divergences

* `reconnect`: a registered server whose reconnection fails keeps its update
  timer and has no peer; the handler of that timer uses the nil peer.
* `straddle`: a multiple resource that ends an Instance and begins the next is
  written as one resource that holds both.
* `lock`: an update of the device or of a sensor, or a Write of a Server, lets go
  the notifications the application holds.

Each is a definition no correct client could violate and a run that shows the
code violate it; PROJECT.json quotes the comment or the document it contradicts.

## Proofs

Seven modules prove theorems about a module of the model, for every value of its
constants; what they assume of the constants are the `ASSUME`s of that module and
the hypotheses named here.  Each has the same layout: the inductive invariant,
lemmas about the operators in the order of the code, one lemma for each action or
group of actions, then the theorems.

`RegistrationProofs.tla` proves the type invariant, the safety invariants and the
action properties of `secure` and `two`, for every set of servers, lifetimes,
delays and faults.  The inductive invariant is `Ind`, `TypeOK` with
`RegistrationInv`: what a server owns in each of its statuses, and that no server
is being registered in STATE_INITIAL.  None of the invariants of the runs is
inductive alone: that a registered server has its lifetime timer, for instance,
needs that the update reply finds an update outstanding, that the registration
one finds its exchange timer, and that closing a server, with the callbacks
nested in it, leaves no timer.  `Consistent` is stated on one record, so each C
function gets one lemma on records, and a step only says which server takes which
record.  `DisabledIsAlwaysLeftAlone` and `FailedStaysUntilReset` are about steps:
they go through the actions once more, with the invariant.

`TimerProofs.tla` proves the four properties of `walk`.  `TimerInv` has the links
of timers and servers in both directions (`TimersInv`, `ServersInv`) and what the
two loops hold (`WalkInv`).  What makes it inductive is an order the code never
states: the update timer of a server is before its lifetime timer on the list and
never ends later.  The handler of a lifetime timer deletes the update timer of its
server, and `coreTimerStep` would go on from a freed element if that timer were
the one after; it is not, because it was visited before and was due as well.  The
hypothesis is `Removes = FALSE`: with a callback that removes a server the
property is false, as said above.

`ExchangeProofs.tla` proves the invariants of `requests` and `commands` and the
refinement of `RequestService`, for any requests, commands, tokens, addresses,
retransmissions and faults:

* `TypeInv` is `TypeOK` with the kinds of the datagrams on their way, needed to
  know that an answer names a request and a command a command.
* `PendingIsWaiting` is inductive above it; `Executions` relates the count of
  executions of a command to those of the replies kept and forgotten, and is what
  makes `ExecutedOnce` inductive.
* `Paired` says that the transaction of a request that waits holds the address of
  that request's exchange, so that a transaction can only fail another request
  when its own has ended.  It gives `FailureIsItsOwn`.
* `Drawn` says that the exchange, the transaction and the datagrams of a request
  carry the token it drew, and that the exchanges that wait differ in theirs, so
  that a response can only go astray when its own request has ended.  It gives
  `ReplyIsItsOwn`.
* `LayerImplementsService`: the initial states are initial in `RequestService` and
  every step is one of its steps for one request, or a stutter.  The lemmas before
  it say which step each action is; the give-up of a transaction whose request has
  ended is `FailForAnother`.

None of them has a hypothesis: the defects told above are in what they say.

`ObserveProofs.tla` proves the invariants and the action property of `notify`,
for any servers, Instances, Resources, tokens, thresholds, periods and faults,
with no hypothesis.  `ObserveInv` is `ListsInv`, `DataInv` and `SleepInv`.
`ListsInv` says of each observation that its attributes are the copy
`observe_updateObserve` would make now of the attributes written, unless a failed
allocation has left the observations of that server behind (`stale`), and that
the tokens of a server differ; the runs' `AttributesAreThoseWritten` says the
same by the nearest level at which an attribute is written, and the lemmas on
inheritance show that the copy over three levels computes it.  `SleepInv` says
that the sleep the last pass chose and the age of an observation stay within its
pmax, which `Tick` preserves and `PmaxIsKept` follows from.

`SessionProofs.tla` proves the three invariants of `session`, for any servers,
security modes, bindings, addresses, retransmissions and faults.  `SessionInv` is
`Linked`, the four links between the list, the sessions, the peers, the channels
and the sockets; `LoopInv`, what the loops of `iowa_step` hold; `NotedInv`, that
what `commSelect` noted is still its session's or has no channel any more; and
`Agreed`, what the peer was told and the library holds in each state.  A C
function is an operator from a context to the contexts it may leave, so each has
one lemma: `Linked` before gives `Linked` after.  Two things had to be found.
Between the creation of a session and of its peer one session has no peer:
`Linked` names it (`orphan`).  And a callback may delete any session of its own
server but of no other: `Keeps` says so of each operation that `securityStep` may
reach, and with one session per server it is why the session saved before the
step is still there.  `SessionsAreAlwaysPeers`, `WalkIsAlwaysLive` and
`StatesAlwaysAgree` have no hypothesis.  What is said of channels has `Shrinks`,
the memory for a smaller array when a channel is removed: it is false without,
and is what the run leaves out.

`ManagementProofs.tla` proves two invariants and an action property of `objects`,
for any Objects of the application, options, sensors, requests, bounds
and faults.  Its inductive invariant `TypeInv` has three parts.  `ToldInv` gives
`ServersAreAlwaysTold`: with what the property says it has that the list of
Objects is a sequence, that no Server is registered in STATE_INITIAL, that a
registration under way carries the links and that a registered Server waits for
no message with links; each call that changes the list is one lemma, which says
that the list is unchanged or that the flag is set.  `OwnedInv` gives
`InstancesAlwaysAgree`: Objects, Instances and sensors are lists in which no
identifier comes twice, so that the first element found is the one meant; each
sensor has its Instance; and an Object in which Servers may create has a Resource
that a Create must name.  The property is about steps: for each action, the
Instances that only one side has are no more than before, or the action is one of
the three that lack memory and there is one more.  Its hypothesis is `Contract`,
what the code leaves to the application: it names its Instances, each once and
not 65535, and it lets Servers create only in an Object with a mandatory Resource
that is not executable.  Without the last part `InstancesAgree` is false (see
`iowa_objects.c:1007` below): a mandatory Resource is what keeps one datum in a
Create, and with it the identifier that the application is called with, that the
Object adds and that is undone are one.  TLC evaluates `Contract` on the
constants of the runs.  `HeldInv` gives `StateHasItsType`: the values of the
device fit its options, its errors are numbers and its power sources at most
`MaxSources`, the values of the application are functions, and each sensor has
its history.  It needs `OwnedInv`, because what a Write or a Create leaves of a
list is known only from which of its elements the request means.

`ChangeProofs.tla` proves `ChangesAreTold` and `RefusalsChangeNothing`, the action
properties `ChangeIsTold` and `RefusedChangesNothing`, for the same constants and
under `Contract`.  Its inductive invariant `ChangeInv`
adds two parts to `TypeInv`.  `ShapedInv` says which Objects are on the list and
what each Instance of them has of Resources: all those of the Object, or, for the
sensors, the Resources `prv_getResourceList` gives, so that what a sensor looks
up when it is updated is what its reads look up.  `PowerInv` says that power
sources have each their own identifier and come only with their option.  The
argument has three steps.  Each operation tells of what it changes: `Tells` for
those of the device (`TellsMoved` for its texts, which are told when their buffer
is another), `UpdateTells`, `ResetTells` and `TypeTells` for those of a
sensor, `DataTell` for what a Write puts in the values of the application;
`NextTells` gathers them.  A value that can be read is known by its URI
(`ReadingIs`): the readings of the application, of the device and of the sensors
are of different Objects, and those of the device of different Resources, so a
value that changes is one of those told.  And what is told is not lost, because
`customObjectResourceChanged` drops only what cannot be read: a reading is
described as readable by the Object it is of (`ReadingCanBeRead`).  The second step
needs that a sensor never has two Resources that give the same field, of which
one update tells only one (`FamilyIs`): a counter and a maximum, a value and a
state.  The assumption on the requests, that their data are of the Object of
their URI, is what the decoders do with the URI they are given.

For `RefusalsChangeNothing` one lemma for each request says what its refusal
leaves: of a Write, the Instances checked before the first value is written, then
the first error of the data (`FirstErrorIs`, `DeviceWritableIs`), and that a
sensor accepts whatever its Object lets through, which needs `ShapedInv`; of a
Create, that removing the Instance undoes adding it, because its identifier is new
to the Object; of a Delete, that the Instance is looked for before its owner is
called.  What is left in the cases the property names is what the code leaves
there, no more.

The same module proves `MeasuresAreBounded`, the invariant `MeasuredBounds`, which
the run `objects` checks inside `AnswersAreRight`.  `MeasuredInv` says of each
sensor that its value, its extremes and its counter are those of the values it
had since it was added or reset (`seen`).  One lemma for each thing that happens
to a sensor says that it stays so: `NewMeasures`, where the first value counts
as a rise from 0, `UpdateMeasures`, `ResetMeasures`; the others are about the list.
`ChangeInv` is needed for them: a sensor with a counter has its state and no
maximum, which are kept in the same place (`FamilyMeasures`, `CountersHaveStates`);
what a Server resets is the sensor of the Instance it names; and the Resources
with the identifiers of resets that an Object of the application or the device
has are not resets (`DeviceResetsNone`).  That the values are numbers that can be
compared is the assumption on the sensors of the cases: the code has floats, of
which the model keeps the order.

`ListProofs.tla` has what all of them need of lists: an element removed, added
at the head, or several of them removed (`Sublist`), each element staying once and
in order, and the least element of a set of numbers.

Model-checked only: every liveness property (fairness and ENABLED are beyond the
prover); the codecs, which are recursive over their data, since what a recursive
definition computes for every input is beyond these provers; and of `Management`
the answers to reads and discovers and the sizes of their arrays
(`ReadIsComplete`, `DiscoverIsComplete`, `ArraysFit`), which are built by folds and
flattened sequences: what these give for every input is an induction too.

## Other known hazards

PROJECT.json lists the hazards the properties were written for.  These were met
while modelling and no passing property speaks of them:

* `user_security_tinydtls.c:471`: the step raises the event that the session is
  connected and then sets the delay of the next step; when the registration
  cannot be sent, the event has deleted the session.  `TinydtlsStep` has this
  outcome; the write after it is not state of the model.
* `iowa_comm.c:269`: the smaller array of `commChannelDelete` cannot be
  allocated, and a channel keeps the session that is freed next (the fault
  "shrink").
* `iowa_security.c:232`: a session whose URI cannot be duplicated is freed twice.
* `iowa_client.c:484`: the application removes a server from its event callback
  (`Removes` of `Timer`).
* `iowa_transaction.c:251`: `transactionStep` keeps the next transaction over a
  callback that may delete the peer.
* `iowa_observe.c:1239`: `lastTime + pmax` wraps on 32 bits.
* `iowa_observe.c:400`: the reset of a notification may come after its token was
  given to another observation.
* `iowa_objects.c:2505`: an Instance the application removes keeps its
  observations, and with a pmax their failed read ends every pass.
* `iowa_objects.c:1007`: a Server creates an Instance of an Object without
  mandatory Resource, naming neither the Instance nor a Resource of the Object:
  the application is called with a new identifier and the Object gets the
  Instance 65535 (`InstancesAreNamed` fails; `Contract` has no such Object).
* `iowa_management.c:318`: the Location-Path of an Instance that was created cannot
  be allocated: the Create is answered with an error and the Instance stays,
  without an update of the registration.
* `iowa_data_utils.c:102`: some overflows are missed, "18446744073709551620" is
  read as 4.
* `iowa_registration.c:251`: `prv_getRegistrationQuery` may free what it has not
  set; only a version that no server has takes the jump.
* `iowa_tlv.c:632`, `iowa_text_opaque.c:246`: allocations that fail in a nested
  TLV and in an opaque value.
* `iowa_client.c:767`: the removal of every server frees each while all are still
  on the list.
* `iowa_client.c:1076`: `iowa_client_object_instance_changed` with 65535.

## What is not modelled

* Not in this edition: TCP, SMS, queue mode, bootstrap, block transfer, OSCORE,
  composite operations, saved contexts.  Their entry points are stubs.
* `security/iowa_layer_*.c`: `IOWA_SECURITY_LAYER` is NONE or USER and compiles
  none of them.  The key exchange is in the libraries.
* The Security Object, and the reads of the Server Object: constant values, with
  no step of their own.
* The removal of every server at once, `iowa_stop`, the flush of the buffer, the
  settings of a peer, the logger and the main programs of the samples.
* Text: wording of keys, names and logs.  Floating-point rounding.  Failures of
  allocation inside the codecs.
* The layers are not composed into one specification: each keeps of the others
  what decides about its own state, as said above, and their product is out of
  TLC's reach.

## Plan

1. The answers of `Management` without folds, as recursive functions, so that the
   lengths at least (`ArraysFit`) may be proved once the provers have induction.
2. The removal of every server, and removals from the event callback, as steps
   of `Registration`.
3. One composition of `Registration` with `Exchange`, for the requests whose
   answer comes after their server was closed.
4. Resets of notifications with the delay `Exchange` gives them.
