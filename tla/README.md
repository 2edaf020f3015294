# A verification project for drive-sdk

TLA+ models of the Anki Drive SDK: the client library under `src/src`, and its
two example programs, `vehicle-scan` and `vehicle-tool`, under `src/examples`.
TLC checks the models on small instances; TLAPS proves theorems about the ATT
bearer and its refinement of an abstract one, the GATT procedures, the session,
the socket layer, the advertisement parser and the scanner, for every value of
their constants.

`PROJECT.json` lists the components, the runs, the source lines of every
definition, the hazards, the findings and the theorems. Paths below are those of
the repository, with `src/` as its root.

## 1. The system

All of the code is single-threaded. `vehicle-tool` runs in a GLib main loop, and
everything that makes it hard is the order in which the loop dispatches the
sources: the terminal, the sockets, the write watch and the timeout of each
bearer. `vehicle-scan` is a loop around `read()` that a signal may interrupt.

| Component | Source | State | Operations |
|---|---|---|---|
| ATT bearer | `examples/vehicle-tool/gattrib.c` | two queues of commands, three GLib sources, registered events, reference count, `stale` | send, cancel, cancel all, (un)register, ref/unref; write watch, read watch, timeout |
| GATT procedures | `examples/vehicle-tool/gatt.c` | one heap record for each procedure in progress | discover primaries, included services, characteristics; long read, long write; MTU exchange |
| Session | `examples/vehicle-tool/vehicle_cmd.c` | `conn_state`, `iochannel`, `attrib`, `opt_mtu`, `vehicle` | connect, disconnect, exit, mtu, messages; connect result, hang-up, discovery callbacks |
| Socket layer | `examples/vehicle-tool/btio/btio.c` | one watch and one record for each connection attempt | connect, listen, accept, set/get options |
| ATT PDU codec | `examples/vehicle-tool/att.c` | none (PDUs are built in the bearer's buffer) | encode/decode of each PDU |
| Advertisement parser | `src/advertisement.c`, `src/eir.c` | the caller's `anki_vehicle_adv_t` | parse a record, test for the Anki service, split a packet |
| Scanner | `examples/vehicle-scan/vehicle-scan.c` | table of vehicles, scan and filter of the adapter, signal flag | start, read a report, signal, stop |
| Vehicle messages | `src/protocol.c` | none | one constructor for each message |

They interact as follows. The session asks the socket layer for a channel;
`connect_cb` makes a bearer on it and starts the discovery through the GATT
procedures, which queue commands on the bearer with a callback. A callback runs
inside `received_data` or `disconnect_timeout` of that bearer, and it uses the
*global* `attrib` and `vehicle`, which by then may be those of another connection
or NULL. Disconnecting drops the session's reference only: a discovery keeps the
old bearer alive until its answer, or its timeout, ends it. The scanner feeds
every report to the parser, together with the entry of its address.

What is hard to get right, and so what the properties are about:

* a response is matched with a request only by its position in the queue, while
  requests are cancelled, continued at the head, timed out and aborted;
* the sender is woken only when a queue was empty, and otherwise relies on the
  next response;
* callbacks run in the middle of the bearer's own handlers and may send again,
  also on a bearer that is being declared stale;
* references are owned by sources and by procedures;
* procedures of several requests interleave on one bearer, with a server that
  chooses the size of its answers and keeps the prepared writes of all of them;
* all PDUs are built in one buffer, with limits that differ from PDU to PDU;
* user commands, hang-ups, connect results, discovery answers and timeouts of
  connections that were left come in any order;
* a vehicle's data arrives in two packets, in either order, mixed with those of
  other devices, and a parser that stops early has already stored part of it.

## 2. Modules

### GAttrib, MCGAttrib

The record variable `attrib` has the fields of `struct _GAttrib`. The static
functions of `gattrib.c` (`g_attrib_ref`, `wake_up_sender`, `g_attrib_send`,
`cancel_all_per_queue`, ...) are operators from one such record to the next, under
their own names; the actions are the entry points. `can_write_data` and
`received_data` are disjunctions with one disjunct for each way they return.

* A GLib source is `"armed"`, `"none"` (identifier 0) or `"dangling"` (it is gone
  but its identifier is kept, as `timeout_watch` is after `disconnect_timeout`).
* `func` says that a callback is set. What a callback may do inside the handler
  that calls it is a *reaction*: nothing, continue a long read with the same
  identifier at the head of the queue (`read_char_helper`, `read_blob_helper`), or
  send one more request or command. During `disconnect_timeout` any subset of the
  callbacks may send.
* `hold` says that the callback owns a reference, as those of the
  `gatt_discover_*` functions do. References that no owner can drop any more
  (cancelled discoveries, discoveries refused by a stale bearer) are counted in
  the history variable `leaked`.
* The peer is external. It answers its oldest request with the expected opcode
  or an error, pushes notifications and indications, may never answer, and, with
  `StrayOps`, sends responses nobody asked for. The link may go down at any time.
* The handler of an indication confirms it or does not. The registered one, in
  `vehicle_cmd.c`, does not; one that does is in `vehicle_tool.c`, where nothing
  registers it, and puts a response into the queue that the bearer has for it.
* A request has the tag (identifier, part, opcode) that its response carries; the
  code does not have it, and only `OneOutstanding` and `RightResponse` look at it.

* No command has a `notify` function, which `command_destroy` would call:
  `find_included` is the only procedure that gives one, and nothing calls
  `gatt_find_included`. Were one of its commands cancelled, `isd_unref` would drop
  the reference that is counted as leaked here, and might report to the user; its
  references are the subject of Gatt.

Abstracted: PDU contents and lengths, allocation failures, and the accessors.

### AttBearer

The bearer as the procedures above it see it: requests go on the air one at a
time, in the order in which they were accepted, except that the next part of a
procedure may go first; a callback runs once, when its own request ends; a request
on the air cannot be taken back, only its callback; a bearer that gives a request
up is closed. `Bearer` in GAttrib instantiates it: the queue is `requests` without
its head while that is on the air, `told` are the callbacks of the last step, and
`closed` is `stale` or freed. `ImplementsBearer` is its specification. Gatt and
VehicleTool rest on this view.

### Gatt, MCGatt

Every procedure of `gatt.h`, on one bearer. A procedure is a record with what the
heap record of the code has (list, offset, references, first error). A callback is
an operator that gives the procedure after it and the requests it sends, under its
name in `gatt.c`; `primary_by_uuid_cb` and `primary_all_cb` differ in the request
and the decoder only and are one operator. The actions are a call, `received_data`
and `disconnect_timeout`, and the server, which is external: it has services,
includes and characteristics with UUIDs of both sizes, answers in pages of any
number of entries of one size that the MTU has room for, offers an MTU, keeps
prepared writes in one queue for all attributes, refuses or stays silent.

The history fields `fault`, `touched` and `alone` say that a request of the
procedure failed, that its attribute was changed meanwhile, and that the writes
called before had ended with success. Values are sequences in which each element
tells who wrote it and where it belongs, so that parts of different writes are
told apart.

Handles have 16 bits: the next one to ask for is `next_handle`, which wraps, and
`discover_char_more` has the test for 0. The database ends at 0xffff.

Left out: responses that a decoder rejects, and allocation failures.

### Bytes, Att, VehicleProtocol, AttWire, MCAttWire

Att has the encoders and decoders of `att.c` under their names, with PDUs as
sequences of bytes, `<<>>` for a returned length of 0 and `Rejected` for a decoder
that fails. Most of them are near copies of each other; the common forms
(parameters only, parameters and a cut value, a range and a UUID, elements of one
size) are operators of their own. VehicleProtocol has the constructors of
`protocol.c`: they write into memory with old content and return a length, and the
fields are laid out as in the packed structures, with the width and sign of their
types. `Parse` is how a receiver that knows the structures reads a message.

AttWire is the way of the data: a command of the user becomes messages with the
conversions of `vehicle_cmd.c` (`atoi` into 8 and 16 bits, intensities from
fractions, names into numbers), `gatt_write_char` encodes them into the one buffer
of the bearer, `g_attrib_send` queues a copy, and the other side decodes it. All
other PDUs, of clients and of servers, take the same way. `Told` says
independently what each command means. A notification goes to `events_handler`,
which takes it from the read characteristic (`ReadHandle`) only. The callbacks that
take a response without a decoder (`read_blob_value`, `prep_written`) look at no
opcode: `received_data` has compared it before it calls them.

Left out: a list response whose entry size is 0, for which the code divides by 0,
PDUs shorter than what a decoder reads without testing, an offset behind the value
in `enc_read_blob_resp`, for which the length underflows, and the text of
`att_ecode2str`.

### Advertisement, ParsePackets, MCAdvertisement

A packet is the sequence of its AD structures. `anki_vehicle_parse_adv_record` is
a loop, written as the recursive function `parse_states` from the number of
structures read to the state then, whose step keeps the order of the tests; the
byte order of the
manufacturer data and of the version, the state bits and the partial updates by
short records are modelled as they are. `KnownFrom` is an independent,
declarative reference by positions: the structures before the one at which the
parser stops (`Effective`), among them those that carry a field (`Carriers`), of
which the last one counts (`Latest`). Structures whose length reaches beyond the
packet are left out.

ParsePackets builds every packet of at most `MaxRecords` structures out of
`Records`, one structure at a time, and parses each.

### VehicleScan, MCVehicleScan

`cmd_lescan` and `print_advertising_devices` from the scan parameters to the exit
code, with each system call failing or not, also the one that restores the filter and
whose result is not looked at, the discovery filter, the table (a
function from addresses to entries instead of uthash), the display, SIGINT inside
and outside `read()`, and the read error. A scan request that is reported as failed
may have reached the controller (`Switched`), when only its answer was late.
`failed` is a history variable. `scan_complete` of a new entry is a
member of `Heap`, because the code does not initialise it. The packets are those
of `test/adv_data.h`, those of a second vehicle that changes its name, and those
of a device that is no vehicle.

### VehicleTool, MCVehicleTool

The static variables of `vehicle_cmd.c` under their own names. Connections are
numbered, and `iochannel` and `attrib` are such numbers, 0 for NULL: a callback of
connection `i` that uses `attrib` is thus seen to act on another connection. A
bearer is reduced to what GAttrib establishes: a queue of procedures with at most
the head on the air, an answer that completes the head, a timeout that ends all.
Discovery is modelled with its continuations (several ranges, several packs of
characteristics) and with the masking of errors by `char_discovered_cb`.
`opt_mtu` is an integer and the request carries its low 16 bits (`on_air`). That
`g_attrib_new` returns NULL, which `connect_cb` uses, ends the session
(`connect_cb_no_bearer`).

Left out here: line editing, the text of commands, option parsing, the BR/EDR
`psm` variant, values longer than one write, and the display of notifications.

### BtIO

`bt_io_connect`, `bt_io_listen`, `bt_io_accept` and their watches over a table of
descriptors. The main loop is explicit: `Poll` records which watches are ready,
with the condition seen then, and `Dispatch` runs them one by one, possibly on a
descriptor that was closed, or closed and given out again, in between. The user's
source makes one call in an iteration, as the terminal of `vehicle-tool` does, and
callbacks close no channel; the order of dispatches is left open. The kernel hands
out the lowest descriptor. The option tables are reduced to whether setting a
socket up fails, and at which stage.

VehicleTool takes from this module that a connect attempt that was shut down is
not reported.

### The proofs

`GAttribProofs` and, on top of it, `GAttribPeerProofs`; `GattProofs` and, on top of
it, `GattValuesProofs` and `GattDiscoveryProofs`; `VehicleScanProofs`, also about
the parser; `VehicleToolProofs`; `BtIOProofs`: see section 5.

## 3. Runs

Deadlock is not checked, in any run: a bearer that was freed, a session that was
left, a scan that ended and a packet of full length really stop.

| Run | Instance | Checks |
|---|---|---|
| `gattrib_polite` | 3 commands, long reads of 2 parts, indications, 1 PDU in the socket, failing I/O; a peer that answers each request at most once | `OneOutstanding`, `RightResponse`, `NeverDeaf`; `ImplementsBearer`; `SentRequestEnds`, `QueuedRequestEnds` |
| `gattrib_hostile` | the same without indications, with stray responses and 2 PDUs in the socket | `TypeOK`, `OnlyHeadSent`, `TimerFollowsRequest`, `NoLostWakeup`, `StaleDrained`, `LongReadFirst`, `DistinctIds`, `RefsAccounted`, `CancelledNotCalled` |
| `gatt` | 2 of 21 calls, 4 services, 4 includes, 4 characteristics, values of 3 to 44 bytes, MTU 23, 30 or 40, handles up to 65535 | `ReportsOnce`, `DiscoveryExact`, `ReadWhole`, `WriteStored`, `WriteAtomic`; `CallEnds` |
| `wire` | 2 of all PDUs and commands in the queue, MTU 23, values of 0 to 40 bytes | `PdusFit`, `PdusArrive`, `MessagesArrive`, `OnlyItsOpcode` |
| `advertisement` | every packet of up to 4 of 15 structures | `ParsesAsReference`, `TrailingIgnored` |
| `scan` | 3 devices, 9 packets, 5 reports, each `--discovery` option, zeroed heap, failing calls | `AccumulatedIsLatest`, `OnlyVehicles`, `CompleteIsShown`, `CleanExit` |
| `tool` | 2 vehicles with different handles, 2 connections, queue of 2 when a command is typed, MTU arguments 10, 517 and 66053 | `PointersAgree`, `OneChannel`, `MtuAgreed`, `HandlesAreCurrent`, `TypeOK` |
| `btio` | 3 descriptors, 3 channels | `FdsAccounted`, `AbortedNotCalled`, `EndsOnce`, `AbortReleases` |
| `scan_heap` | uninitialised heap, 2 reports | refutes `CompleteIsShown` |
| `contains_uuid` | every packet of up to 2 of the 15 structures | refutes `ContainsAnkiUuid` |
| `tool_message` | 2 connections | refutes `MessageToVehicle` |
| `tool_disconnect` | 2 connections | refutes `NoUseAfterDisconnect` |

Why the bounds are enough to see the interesting cases. Three commands give a
request on the air, one behind it and one that a callback or the user adds
meanwhile; two parts make a long read continue in front of both. Two PDUs in the
socket let a stray response come before the awaited one; a polite peer has nothing
to overtake, and one PDU is enough for an indication to come first. Two procedures
interleave in every way their callbacks allow, and what a third would meet is what
the second meets; the database needs two pages for each discovery, has its last
characteristic one handle before the end of a range, its last service, with an
include and a characteristic in it, at 0xffff, where the next handle would wrap, and the
values are one byte below, at and above what one or two responses
and writes hold. Two sends put one PDU into the buffer while another is queued;
the commands that send several messages put up to four. Four
structures put a foreign service, an unknown structure or an end marker between
two that carry the same field. Five reports are an advertisement and a response
of each vehicle and one packet in between. Two connections are needed for
whatever one leaves to the next (handles, MTU, a discovery still in progress).
Three channels are a server, a connect that is
aborted and the connection that gets its descriptor. `MaxCmds`, `MaxParts`,
`MaxRx`, `MaxCalls`, `MaxSends`, `MaxReports`, `MaxChans`, `MaxRecords`, `MaxLinks`
and `MaxQueue` are these bounds; they occur in guards only, and the theorems hold
for all of them.

A bound on the model, not on the code: a step that would need a fourth command
identifier (also the confirmation of an indication) does not happen.

Fairness (`gattrib_polite`, `gatt` and `btio`). The main loop dispatches each ready source
eventually and a timeout expires, so `received_data` and `disconnect_timeout` are
weakly fair, and so is `can_write_data` unless the channel was shut down, after
which a write watch is never ready. Nothing is assumed of the application and the
peer. Gatt assumes the same of its bearer: a response that is there is read, and the
timeout of a request that stays without one expires; that the server answers is
not assumed. `QueuedRequestEnds` excepts executions in which a write failed: the code
then removes the watch and leaves the request where it is, see below. In BtIO the
loop polls and dispatches again and again; the kernel is not assumed to complete
anything.

## 4. What the runs show

The bearer keeps its promises under all interleavings of the instance. In
particular cancelling is safe because a request on the air stays in the queue
without its callback; a continuation never overtakes a request on the air because
the callback runs after the head was removed and before the sender can run; and
`stale`, although it is set after the callbacks, leaves no request behind. Its
users see the bearer of `AttBearer`, in every step.

On such a bearer the procedures are exact: a discovery finds every entry once
however the server pages its answers, the reference count of an included service
discovery ends it once although its requests overlap, a long read is whole also
when its length is a multiple of what a response holds, and a successful long
write has stored its value. The new MTU is in force on both sides before the next
request is answered because one request at a time is on the air.

Every PDU that an encoder makes fits the buffer and is read back by the decoder of
its own type and by no other, up to the cut that the code makes at the end of the
PDU; notifications are taken from the vehicle's read characteristic only; and each command of the user reaches the vehicle as typed, with nothing of
what the memory held before.

When the scanner exits, the scan is on only after a failure that says so: a failed
request, or a filter or a read that failed, after which the program leaves without
switching it off. The filter is left installed only if restoring it failed, and
that is the one failure which the exit status does not tell.

The library, the scanner and the session hold the properties above except for the
following, each with its run.

* `scan_complete` is never initialised; if the heap happens to hold something else
  than 0, a vehicle is never displayed.
* `anki_vehicle_adv_record_has_anki_uuid` is narrower than its comment ("Test
  whether the scan record contains an Anki Drive vehicle service UUID"): the
  parser returns at the first structure it does not know, and at the first foreign
  128-bit service, so the test fails on a packet that has the service behind it.
* Messages are accepted as soon as the connection is up: before the discovery has
  ended they go to handle 0, or to the handle of the vehicle connected before,
  since `vehicle` is never reset.
* A disconnect during the characteristic discovery leaves a bearer whose timeout
  calls `discover_char_cb` as if the discovery had succeeded; it then writes
  through the global `attrib`, which is NULL or another connection's.
  `HandlesAreCurrent` therefore excepts sessions with such a disconnect.

The socket layer reports an aborted attempt in one case only: a server of the same
program accepts a connection between the shutdown and the next poll and gets the
descriptor that was just closed, so that neither the polled condition nor
`check_nval` shows the shutdown. `vehicle-tool` has no server. Both tests are
needed: without `check_nval` a condition of the same iteration is reported, and
without the test of `cond` a descriptor that was opened again.

Further behaviour met while modelling, without a run of its own:

* `discover_char_cb` enables notifications by writing to the handle
  `vehicle.write_char.properties`, which is a bit mask, instead of the client
  configuration of the read characteristic; VehicleTool has this write as it is;
* no long write is ever cancelled: after a failed one, or during another one, a
  long write commits the parts that the other has prepared, so an attribute may
  hold a part of a value. `WriteAtomic` has this as its antecedent and does not
  hold without it;
* `gatt_write_cmd` silently cuts a value that does not fit, `char_discovered_cb`
  reports a part as success when a later request fails, an error in the middle of
  a long read is reported as success with what was read, and `primary_by_uuid_cb`
  takes a response that it cannot decode for the end of the discovery;
* a response to Read By Group Type without any entry makes `primary_all_cb` start
  over at handle 1;
* `dec_prep_write_resp` tests for the opcode of the request; nothing calls it;
* numbers that are typed are reduced to the width of their field: a speed of 40000
  becomes -25536, and a negative speed of `change-lane` one modulo 65536;
* `set-engine-lights` runs red and green from 0 to their value and blue from its
  value to 0, unless the effect is STEADY;
* the sizes of the tables of channel and effect names count the terminating NULL,
  so an unknown name ends in `strlen(NULL)`; and `set-engine-lights` without
  cycles reads `argvp[5]`, which is NULL;
* after a failed write nothing wakes the sender until another response arrives or
  a queue becomes empty, so a queue may stall while the link is up;
* references leak when a discovery is cancelled or refused by a stale bearer;
* with `--discovery` the scan responses of vehicles, which have no flags, are
  dropped, so no vehicle becomes complete; `CompleteIsShown` is claimed without
  that option;
* the `mtu` command stores its value before it checks it, so after a rejected value
  it answers that the exchange was already made; and a value of 65536 or more
  passes the check and is truncated to 16 bits in the request, while the answer is
  compared with the value typed. The buffer may then be larger than what the
  request said: `MtuAgreed` promises that for values that fit only, and for all
  others that it is within the device's answer and the value typed;
* a response that nothing waits for drops the read watch of a bearer without
  handlers, which never receives again; `NeverDeaf` is for a polite peer;
* after a timeout `conn_state` stays CONNECTED and commands vanish in the stale
  bearer.

## 5. Proofs

Every theorem is of the form `Spec => []P` (or `Spec => ` an action property), so
it holds for all values of the constants, in particular for all values of the
bounds of section 3.

### The bearer by itself: GAttribProofs

Under `ConstantsAssumption` alone, for every set of operations, events, pushes
and stray responses and with or without I/O errors:

* `TypeCorrect`: `Spec => []TypeOK`;
* `AtMostOneRequestSent`: `OnlyHeadSent`;
* `TimeoutIsExact`: `TimerFollowsRequest`;
* `SenderIsAwake`: `NoLostWakeup`;
* `TimeoutDrainsAll`: `StaleDrained`;
* `LongReadIsContiguous`: `LongReadFirst`.

`ConstantsAssumption` says that applications send no responses, that WRITE_CMD is
the only thing they send that has no answer (`gatt.c` sends no other), that pushed
PDUs are no responses, that stray ones are, and that at most one handler is
registered for a pushed PDU.

All follow from one inductive invariant, `IInv`: `TypeOK` and `Good(attrib,
wfail)`. `Good` is a predicate on one bearer record, so that each function of
`gattrib.c` gets a lemma of its own (`RefGood`, `WakeGood`, `SendGood`,
`CallbackGood`, ...: a good record stays good) and each action is proved by
composing them, as the code composes the functions. Its parts are

* `Heads`: nothing behind the first request was sent or is a continuation, and the
  response queue holds only responses, none of them sent;
* `Timer`: a bearer that is not stale has its timeout exactly while its first
  request is on the air;
* `Drained`: a stale bearer has no request;
* `Wake`: a bearer that is not stale, has something to write and had no failed
  write has its write watch.

None of the invariants is inductive alone. `Timer` needs `Heads`, since removing
the head must not bring another sent request to the front. A continuation pushed
in front needs that the queue it meets has no sent and no continued request,
which holds only in the middle of `received_data`, after the head was removed:
`Fresh` states it for every position, and `CallbackGood` is proved from it. `Wake`
needs that the response queue contains nothing that awaits an answer, because a
response written from it leaves the watch in place for the requests behind it.

In the second part of the module, on identifiers, cancels and references:
`IdentifiersDistinct` (`DistinctIds`), `ReferencesOwned` (`RefsAccounted`) and
`CancelIsFinal` (`CancelledNotCalled`), for any number of commands. `OInv` adds to
`IInv` that the identifiers of each queue are distinct and at most `next_cmd_id`,
that a cancelled identifier in the queue has no callback any more, and an equation:
the references that are neither the write watch's nor a queued procedure's
(`Excess`) are those of the application and the leaked ones. Counting the queued
owners needs the distinct identifiers, since the owners are a set of them; the
functions of `gattrib.c` get lemmas that say how each changes `Excess`.

### A polite peer and the refinement: GAttribPeerProofs

`OutstandingIsHead` (`OneOutstanding`), `ResponsesMatch` (`RightResponse`) and
`KeepsListening` (`NeverDeaf`); the three properties speak of a peer that sends no
stray responses (`Polite`). `PInv` adds to `OInv` that what the peer owes and what
is under way in the socket together are exactly the answer to the request on the
air, if there is one (`Owed`), while the channel is open and the bearer not stale;
then the opcode test of `received_data`, which cannot tell two requests of one
kind apart, never accepts the answer of another request.

In the second part, the refinement. `BearerImplemented`: `ASSUME Polite PROVE Spec => ImplementsBearer`. The mapping
is that of `Bearer` in GAttrib, rewritten as functions of the fields they depend
on (`Waiting`, `Flying`, `Names`, `Shut`). `RInv` is `PInv` and that a freed
bearer has no request. Each step of GAttrib is shown to be one of AttBearer, with
one lemma for each action: a send is `Accept`, or `Other` on a closed bearer; the
write of a request is `Start` and that of a command `Post`; a response is
`Complete`, with its reaction as the continuation or the next request; a cancel is
`Withdraw`, which of a request on the air takes back the callback only; and the
timeout is `Abandon`. `Polite` is needed: a stray response with the right opcode
ends a request that was not answered.

### The GATT procedures: GattProofs

`CalledBackOnce`: `ReportsOnce`, for every database, every set of calls and any
number of procedures at a time, whatever is refused and whenever the bearer times
out. `GattAssumption` says that a call is one of `gatt.h`, of a handle the database
has if it reads or writes, of a range of 16-bit handles if it discovers, and with a
value that is a sequence; that the database is typed, that services, includes and
characteristics are listed in the order of their handles, that all handles fit 16
bits and no characteristic has handle 0, and that a service that is included twice is
the same; and that the MTUs a server offers are at least 23.
This proof needs the first only. The inductive
invariant `GInv` counts: an included service discovery has as many references as
it has commands in the queue, and has called its user exactly when there are
none; any other procedure that awaits an answer has one command in the queue and
has not called, or none and has called once. It needs that each command in the
queue belongs to the kind of its procedure (`CmdOk`), in particular that only
`gatt_write_cmd` queues the PDU that leaves the queue without a callback, and that
a page of includes is a sequence, whose length is the number of references taken.
`Goes` says what any callback does to this balance, with a lemma for each; and
`ErrorSendsNothing`, that no callback sends after an error, is what makes the loop
of `disconnect_timeout` end with nothing in the queue. That loop is a recursive
function of the number of commands failed so far, and the invariant holds behind
each of them for what is left of the queue.

### The values: GattValuesProofs

For every database, every set of calls, any number of procedures at a time and
every MTU that is exchanged meanwhile:

* `ReadsWhole` (`ReadWhole`): a long read whose attribute nobody changed and of
  which no request failed reports the whole value;
* `WritesStored` (`WriteStored`): a long write that ended well, alone on its
  attribute and with no prepared write dropped meanwhile, has stored its value;
* `WritesAtomic` (`WriteAtomic`): if every long write was called when the others had
  ended well, no attribute ever holds a mixture.

They rest on four invariants, each on top of `GInv` and the ones before it.

* `DInv` (`DataInvariant`) says what is in flight: a request of a long write is the
  next part of its value, cut to the MTU in force, a response echoes the part or
  carries the part of the attribute that was asked for, and client and server
  agree on the MTU except while the response of an exchange is on its way. The last
  of these is why a read that spans the exchange is not cut short: a response is
  taken for the last one if it is shorter than the MTU of the client, and it was made
  with that of the server.
* `RInv` says that an untouched read without a fault has collected the first `n` bytes
  of the value, where `n` is the offset it asks for next, and that it has
  reported only when `n` is the length.
* `WInv` says that the parts the server keeps of a write are, one after the other
  (`Run`), its value up to the offset reached, and once it ended well are gone and
  stored. It holds of a write that is `Sole` on its attribute while nothing is
  `Dropped`.
* `AInv` says that if every long write is called alone, the earlier ones ended
  well, the attributes are whole, and what the server keeps are parts of the one
  write in progress, which make its value in order.

The parts kept by the server are executed one after the other by a recursive
function (`Executed`); that a run of parts that follow one another writes their
concatenation is proved over its rounds.

### Discovery: GattDiscoveryProofs

`DiscoveriesExact` (`DiscoveryExact`), for every database, every set of calls, any
number of procedures at a time, every MTU and every way in which the server cuts its
answers into pages. What a discovery asks for and ought to find are selections of
the database by positions (`Picked`), and the first part is about these: the length
and the order of a selection, what is left of it behind an element, and what remains
of it when the range starts behind an element.

The invariant `XInv` (`DiscoveryInvariant`) numbers the entries a discovery goes
through (`Base`), which for characteristics are all in its range, whatever their
UUID. The range of a request ends at 0xffff at most (`RangeOk`), and what follows
an entry before that end does not wrap (`NextHandle`). Of a discovery that has not failed it says that what it has collected are the
matches among the first `a` of them, and that its commands in the queue form a `Path`
from `a` to the end. A command leads (`Leads`) from entry `x` to the end if it asks
for the range behind entry `x`, and from `y - 1` to `y` if it reads the 128-bit UUID
of the included service `y`. This order is the point of the discovery of includes: a
page sends one read for each long UUID and then goes on behind the page, and the
continuation must come after the reads. Commands of other procedures lead nowhere,
so that the path survives any interleaving. Of the response that waits the invariant
says that it is a refusal, or a page of the first entries behind the one where its
command starts, at least one and all of one size; `primary_by_uuid_cb`, which gets the
handles and not the UUID, `find_included_cb`, whose page lacks the long UUIDs, and
`char_discovered_cb`, which drops what does not match, are each shown to collect
them and to go on behind the last, or to stop where nothing is left. A discovery
that has failed is `Broken`: an included one has kept an error, reports it with no
list, and stays so whatever its other commands bring; the others have reported what
they had, which for characteristics may be a part that is reported as success
(`char_discovered_cb` masks the error); the last conjunct of the property excepts
them for that reason.

### The session: VehicleToolProofs

`ToolTypes` (`TypeOK`), `PointersAlwaysAgree` (`PointersAgree`), `NoChannelLeft`
(`OneChannel`), `MtuIsAgreed` (`MtuAgreed`) and `HandlesStayCurrent`
(`HandlesAreCurrent`), for any devices, profiles and number of connections. `SInv`
are the types, also those of the connections left behind, with the pointers and
the channels. `Offers` adds that only the current connection has exchanged MTUs
and has offered exactly `opt_mtu`, which is 0 without a connection, and that a buffer
that has changed is at most that and the answer; it is proved for all int arguments.
`HInv` adds that what a discovery has found is a prefix of the profile of its own
device, and that a connection that was left in the middle of it counts as cut: the
callbacks of old connections, which run on the variables of the new one, are
harmless for the handles only because of that.

### The socket layer: BtIOProofs

`DescriptorsAccounted` (`FdsAccounted`), `AbortIsFinal` (`AbortedNotCalled`) and
`AnsweredOnce` (`EndsOnce`), for any number of descriptors and channels. `IInv` says
which channels own their descriptor, that no two own the same and none is open
without one; that what was polled refers to watches of this iteration; and
(`Lingering`) that an attempt that was shut down and still has its watch has a
descriptor that is free, or was seen as invalid by the poll, unless a server took
it. The last one is what ties the two tests of the code, of `cond` and by
`check_nval`, to the two orders in which a descriptor can be reused.

### The parser, in VehicleScanProofs

For every packet of well-formed structures, whatever its length and its bytes. The
first and the third also ask, as the properties do, that 128-bit UUID structures
have all their 16 bytes (`FullUuids`), because the code compares 16 bytes of what it
got:

* `ParserIsReference` (`ParsesAsReference`): the loop of
  `anki_vehicle_parse_adv_record`, which stops early and updates the entry in
  place, gives what `KnownFrom` says, and the test for the service claims none that
  is not there (that it claims all that are is refuted, section 4);
* `ParserIgnoresTrailing` (`TrailingIgnored`): what follows the structure at which it
  stops has no effect;
* `ParserAccumulates`: parsing into an entry that has data already changes the
  fields that the packet carries, and no other.

The proof follows the loop. `LoopKnows` is its invariant: the entry after `k`
structures is, field by field, that of the latest carrier among them (`Knows`), or
the entry before if there is none. A carrier that comes later moves `Latest`, any
other structure leaves it; and once the loop has returned its state stays
(`ReturnedStays`), so that packets that agree up to there agree in the result.

### The scanner: VehicleScanProofs

`ExitIsClean` (`CleanExit`) and `DisplayIsOfVehicles` (`OnlyVehicles`), for any
devices, packets and number of reports, any initial heap and whichever calls fail. `ScanAssumption` says
of the packets that they are sequences of structures of bytes. `TInv` says that
each field that makes an entry complete was carried by a packet of the same
address, and that the display has one line for each complete entry at most. It
rests on lemmas about the parser: it changes a field only if the packet carries it
(`From`), and returns 0 only with the Anki service in the record.

`EntriesAreCurrent` and `EntriesAreLatest` (`AccumulatedIsLatest`): the entry of an
address holds for each field what the latest of its packets that carries the field
said, however the packets of several devices are interleaved. Its invariant `KInv`
says of each address that its entry is known (`Knows`) from those of its reports that
passed the filter, and that there is no entry before the first; `ParserAccumulates`
is the step.

### How loops are proved

The library's induction theorems cannot be instantiated with an operator here.
Where a loop is a recursive function (`parse_states`, `AllFailed`, `Executed`,
`Picked`), that it exists,
and that a fact holds behind each of its rounds, is proved by taking the least
round at which it fails (`LeastNat`, from `WFMin` on the natural numbers).

### What the proofs found in the models

The guard of `server_cb` in BtIO was parsed as an implication, which was true for
watches of another kind; `parse_step` and `Conveys` had CASE arms that overlap, of
which TLC takes the first and TLA+ any; and it was not said that what the
application sends with a callback has an answer, as all of `gatt.c` does. All are
corrected, and the runs give the same results.

`WriteStored` was claimed without `~Dropped`. The attempt to prove it showed that
the parts of two long writes to different attributes wait in the one queue of the
server, and that an Execute Write which is refused with INVALID_OFFSET because of
the first throws away the parts of both: the second then executes what it has
prepared since, is told that this succeeded, and its attribute keeps part of the
old value. TLC confirms it with three long writes, which the run does not have.
Neither side of the code can see this: `execute_cb` reports what the server says.

### Only model-checked

* Liveness: `SentRequestEnds`, `QueuedRequestEnds`, `CallEnds` and `AbortReleases`.
* `PdusFit`, `PdusArrive`, `MessagesArrive` and `OnlyItsOpcode`: finite tables of
  PDUs and of messages, most of them with lists of elements.
* `CompleteIsShown` is a statement about the packets of vehicles: for arbitrary
  constants it is false, since a packet that is benign by its types may still have
  version 0 or a service of somebody else.
* The four refuted properties of section 3.

## 6. Not modelled

* Truncated AD structures, and fields longer than their destination.
* The socket options of the socket layer: system calls without state.
* PDUs that a decoder rejects, in Gatt; a decoder that reads beyond a short PDU, in
  Att (in particular a 128-bit UUID in a request of 8 to 20 bytes).
* `gatt-service.c` and the attribute database are the server side of BlueZ and no
  part of the build; SDP parsing in `gatt.c` is not called.
* UUID conversions between text and bytes: pure functions without control.
* Terminal, prompt, logging, uthash: output only, or vendored.

## 7. Plan

Done, in this order: GAttrib with its runs and first theorems, Advertisement,
VehicleScan, VehicleTool, BtIO; AttBearer and the refinement; Gatt; Bytes, Att,
VehicleProtocol and AttWire; the proofs about the session, the socket layer, the
owners and the peer of the bearer, its refinement, the scanner and `ReportsOnce`;
the proofs about the values of long reads and writes, the parser, what the scanner
accumulates, and discovery. Next: `PdusFit` and `OnlyItsOpcode` of AttWire, for
messages of any size.
