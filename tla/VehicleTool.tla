---------------------------- MODULE VehicleTool ----------------------------
(***************************************************************************)
(* The interactive session of examples/vehicle-tool/vehicle_cmd.c: the     *)
(* connection state, the static variables that name the current channel    *)
(* and bearer, and the characteristics found by the discovery that every   *)
(* connection starts.                                                      *)
(*                                                                         *)
(* Connections are numbered in links, and the pointers iochannel and       *)
(* attrib are numbers of connections (0: NULL).  A bearer is reduced to    *)
(* what GAttrib shows of it: a queue of procedures, at most the head of it *)
(* on the air; an answer completes the head, the timeout all of them.  A   *)
(* bearer that is unreferenced lives on while a discovery holds it.        *)
(* Everything runs in one GLib main loop, so a callback is one step.       *)
(***************************************************************************)
EXTENDS Integers, Sequences, FiniteSets, SequencesExt

CONSTANTS
  Dev,        \* devices one can connect to
  Profile,    \* Profile[d]: its characteristics, in handle order
  MtuArgs,    \* arguments of the mtu command, as the int they become
  PeerMtus,   \* MTUs a device answers with
  Commands,   \* the shell commands in use
  MaxLinks,   \* bound on the connections
  MaxQueue    \* bound on the queue of a bearer when a command is typed

ATT_DEFAULT_LE_MTU == 23
Uint16 == 65536   \* the values of a uint16_t are 0..Uint16 - 1

Char == [uuid : {"READ", "WRITE", "OTHER"}, handle : Nat, value_handle : Nat,
         properties : Nat]
NoChar == [uuid |-> "OTHER", handle |-> 0, value_handle |-> 0, properties |-> 0]

ASSUME ToolAssumption ==
  /\ \A d \in Dev : Profile[d] \in Seq(Char)
  /\ MtuArgs \subseteq Int
  /\ PeerMtus \subseteq ATT_DEFAULT_LE_MTU..Uint16 - 1
  /\ MaxLinks \in Nat /\ MaxQueue \in Nat

VARIABLES
  conn_state,   \* as in the code
  iochannel, attrib,
  opt_mtu,
  vehicle,      \* [read_char, write_char]
  links,        \* every connection so far
  running,      \* the main loop runs
  crashed       \* the callback that used a NULL bearer, or "no"

vars == <<conn_state, iochannel, attrib, opt_mtu, vehicle, links, running, crashed>>

(***************************************************************************)
(* A procedure in the queue of a bearer; found are the characteristics a   *)
(* discovery has collected.  Of a link: queue, sent and stale are those of *)
(* its bearer and refs says that it is not freed; mtu is its buffer size;  *)
(* offered, answered, done, cut and issued are history: the values for     *)
(* which it requested an MTU, what the device answered, its discovery has  *)
(* ended with the characteristics of the device, it was disconnected       *)
(* during that discovery, and the writes queued on it.  The history of a   *)
(* connection is dropped when it is shut down, but for cut.                *)
(***************************************************************************)
Proc(kind) == [kind |-> kind, found |-> <<>>]
Holds(p) == p.kind \in {"services", "chars"}

NewLink(d) ==
  [dev |-> d, chan |-> "connecting", refs |-> FALSE, queue |-> <<>>,
   sent |-> FALSE, stale |-> FALSE, mtu |-> ATT_DEFAULT_LE_MTU,
   offered |-> <<>>, answered |-> 0, done |-> FALSE, cut |-> FALSE, issued |-> {}]

g_attrib_send(l, p) ==
  IF l.stale THEN l ELSE [l EXCEPT !.queue = Append(@, p)]

\* gatt_write_char and gatt_write_cmd, called n times
gatt_write(l, n, kind, what, handle) ==
  IF l.stale THEN l
  ELSE [l EXCEPT !.queue = @ \o [k \in 1..n |-> Proc(kind)],
                 !.issued = @ \cup {[what |-> what, handle |-> handle]}]

freed(l) == [l EXCEPT !.refs = FALSE, !.queue = <<>>, !.sent = FALSE]

g_attrib_unref(l) ==
  IF \E p \in ToSet(l.queue) : Holds(p) THEN l ELSE freed(l)
-----------------------------------------------------------------------------
Init ==
  /\ conn_state = "DISCONNECTED" /\ iochannel = 0 /\ attrib = 0 /\ opt_mtu = 0
  /\ vehicle = [read_char |-> NoChar, write_char |-> NoChar]
  /\ links = <<>> /\ running = TRUE /\ crashed = "no"

Up == running /\ crashed = "no"
Connected == Up /\ conn_state = "CONNECTED"

\* cmd_connect; gatt_connect fails at once, or its result comes later.
cmd_connect(d) ==
  /\ Up /\ conn_state = "DISCONNECTED" /\ Len(links) < MaxLinks
  /\ \/ /\ links' = Append(links, NewLink(d))
        /\ iochannel' = Len(links) + 1
        /\ conn_state' = "CONNECTING"
     \/ iochannel' = 0 /\ UNCHANGED <<links, conn_state>>
  /\ UNCHANGED <<attrib, opt_mtu, vehicle, running, crashed>>

\* connect_cb, called by connect_cb of btio.c unless the channel was shut down
\* in the meantime.  On success it starts the discovery.  On an error the hang
\* up of the socket is dispatched to channel_watcher right after, which finds
\* the session disconnected; iochannel keeps its value.
connect_cb_NoErrorCheck(ok) ==                                        \* mutant
  /\ Up /\ iochannel # 0 /\ links[iochannel].chan = "connecting"
  /\ attrib' = iochannel /\ conn_state' = "CONNECTED"
  /\ links' = [links EXCEPT ![iochannel] =
                 [@ EXCEPT !.chan = IF ok THEN "open" ELSE "failed", !.refs = TRUE,
                           !.queue = <<Proc("services")>>]]
  /\ UNCHANGED <<iochannel, opt_mtu, vehicle, running, crashed>>
connect_cb(ok) ==
  /\ Up /\ iochannel # 0 /\ links[iochannel].chan = "connecting"
  /\ IF ok
     THEN /\ attrib' = iochannel
          /\ links' = [links EXCEPT ![iochannel] =
                         [@ EXCEPT !.chan = "open", !.refs = TRUE,
                                   !.queue = <<Proc("services")>>]]
          /\ conn_state' = "CONNECTED"
     ELSE /\ links' = [links EXCEPT ![iochannel].chan = "failed"]
          /\ conn_state' = "DISCONNECTED"
          /\ attrib' = attrib
  /\ UNCHANGED <<iochannel, opt_mtu, vehicle, running, crashed>>

\* g_attrib_new may find no channel to ask or no memory and return NULL, which
\* g_attrib_register uses.
connect_cb_no_bearer ==
  /\ Up /\ iochannel # 0 /\ links[iochannel].chan = "connecting"
  /\ crashed' = "connect_cb"
  /\ UNCHANGED <<conn_state, iochannel, attrib, opt_mtu, vehicle, links, running>>

Collecting(l) == \E p \in ToSet(l.queue) : p.found # <<>>

shutdown_Not(l) == g_attrib_unref(l)                                  \* mutant
shutdown(l) ==
  [g_attrib_unref(l) EXCEPT !.chan = "closed", !.cut = Collecting(l),
     !.mtu = ATT_DEFAULT_LE_MTU, !.offered = <<>>, !.answered = 0,
     !.done = FALSE, !.issued = {}]

disconnect_io ==
  IF conn_state = "DISCONNECTED"
  THEN UNCHANGED <<conn_state, iochannel, attrib, opt_mtu, links>>
  ELSE /\ links' = [links EXCEPT ![iochannel] = shutdown(@)]
       /\ attrib' = 0 /\ opt_mtu' = 0 /\ iochannel' = 0
       /\ conn_state' = "DISCONNECTED"

cmd_disconnect ==
  /\ Up /\ conn_state # "DISCONNECTED"
  /\ disconnect_io
  /\ UNCHANGED <<vehicle, running, crashed>>

\* The device is gone; the watch that cmd_connect installed sees it.
Hup(i) ==
  /\ Up /\ links[i].chan = "open"
  /\ links' = [links EXCEPT ![i].chan = "hup"]
  /\ UNCHANGED <<conn_state, iochannel, attrib, opt_mtu, vehicle, running, crashed>>

channel_watcher(i) ==
  /\ Up /\ links[i].chan = "hup"
  /\ disconnect_io
  /\ UNCHANGED <<vehicle, running, crashed>>

\* exit, quit, end of input or SIGTERM end the loop; then cmd_disconnect.
cmd_exit ==
  /\ Up
  /\ running' = FALSE
  /\ disconnect_io
  /\ UNCHANGED <<vehicle, crashed>>
-----------------------------------------------------------------------------
(***************************************************************************)
(* Commands on a connection.                                               *)
(***************************************************************************)
Room == Connected /\ Len(links[attrib].queue) < MaxQueue
session == <<conn_state, iochannel, attrib, vehicle, running, crashed>>

\* sdk-mode, ping, get-version, set-speed, set-lights-pattern,
\* vehicle-disconnect and send-data-req write one message, change-lane two and
\* set-engine-lights three, each with a Write Request.
Writes == [single |-> 1, change_lane |-> 2, engine_lights |-> 3]

cmd_anki_vehicle_message(c) ==
  /\ Room /\ c \in DOMAIN Writes
  /\ links' = [links EXCEPT ![attrib] =
       gatt_write(@, Writes[c], "write", "message", vehicle.write_char.value_handle)]
  /\ UNCHANGED <<session, opt_mtu>>

cmd_anki_vehicle_send_data ==
  /\ Room /\ "send_data" \in Commands
  /\ links' = [links EXCEPT ![attrib] =
       gatt_write(@, 1, "write_cmd", "message", vehicle.write_char.value_handle)]
  /\ UNCHANGED <<session, opt_mtu>>

cmd_anki_vehicle_read ==
  /\ Room /\ "read_data" \in Commands
  /\ links' = [links EXCEPT ![attrib] = g_attrib_send(@, Proc("read"))]
  /\ UNCHANGED <<session, opt_mtu>>

\* What gatt_exchange_mtu sends of an int: its parameter has 16 bits.
on_air(v) == v % Uint16

\* opt_mtu is an int; the request carries on_air(opt_mtu).
cmd_mtu(v) ==
  /\ Room /\ opt_mtu = 0
  /\ opt_mtu' = v
  /\ LET l == links[attrib]
     IN  links' = IF v < ATT_DEFAULT_LE_MTU \/ l.stale THEN links
                  ELSE [links EXCEPT ![attrib] =
                          [g_attrib_send(l, Proc("mtu")) EXCEPT
                             !.offered = Append(l.offered, v)]]
  /\ UNCHANGED session
-----------------------------------------------------------------------------
(***************************************************************************)
(* Callbacks of the bearers.                                               *)
(***************************************************************************)
\* The bearer writes the head of its queue; a command needs no answer.
Transmit(i) ==
  LET l == links[i]
  IN  /\ Up /\ l.refs /\ ~ l.stale /\ l.chan = "open"
      /\ l.queue # <<>> /\ ~ l.sent
      /\ links' = [links EXCEPT ![i] =
           IF l.queue[1].kind = "write_cmd"
           THEN [l EXCEPT !.queue = Tail(@)] ELSE [l EXCEPT !.sent = TRUE]]
      /\ UNCHANGED <<session, opt_mtu>>

OnAir(i, kind) ==
  LET l == links[i]
  IN  Up /\ l.refs /\ ~ l.stale /\ l.chan = "open" /\ l.sent /\ l.queue[1].kind = kind

Popped(l) == [l EXCEPT !.queue = Tail(@), !.sent = FALSE]

\* Results that are only displayed: reads, writes and every error.
Answer(i) ==
  /\ \E kind \in {"read", "write", "services", "mtu"} : OnAir(i, kind)
  /\ links' = [links EXCEPT ![i] = Popped(@)]
  /\ UNCHANGED <<session, opt_mtu>>

\* MIN(mtu, opt_mtu) is compared as int, and is the new buffer size.
exchange_mtu_cb_PeerOnly(i, mtu) ==                                   \* mutant
  /\ OnAir(i, "mtu")
  /\ links' = [links EXCEPT ![i] =
                 [Popped(@) EXCEPT !.mtu = mtu, !.answered = mtu]]
  /\ UNCHANGED <<session, opt_mtu>>
exchange_mtu_cb_Stores(i, mtu) ==                                     \* mutant
  /\ OnAir(i, "mtu")
  /\ opt_mtu' = IF mtu < opt_mtu THEN mtu ELSE opt_mtu
  /\ links' = [links EXCEPT ![i] =
                 [Popped(@) EXCEPT !.mtu = mtu, !.answered = mtu]]
  /\ UNCHANGED session
exchange_mtu_cb(i, mtu) ==
  /\ OnAir(i, "mtu")
  /\ links' = [links EXCEPT ![i] =
                 [Popped(@) EXCEPT !.mtu = IF mtu < opt_mtu THEN mtu ELSE opt_mtu,
                                   !.answered = mtu]]
  /\ UNCHANGED <<session, opt_mtu>>

\* primary_by_uuid_cb: a range that does not reach the end of the handles is
\* followed by one more request.
primary_by_uuid_cb(i) ==
  /\ OnAir(i, "services")
  /\ links' = [links EXCEPT ![i] = g_attrib_send(Popped(@), Proc("services"))]
  /\ UNCHANGED <<session, opt_mtu>>

\* The last range is in: look for characteristics on the session's bearer.
discover_services_cb(i) ==
  /\ OnAir(i, "services")
  /\ links' = [[links EXCEPT ![i] = Popped(@)] EXCEPT
                 ![attrib] = g_attrib_send(@, Proc("chars"))]
  /\ UNCHANGED <<session, opt_mtu>>

\* char_discovered_cb with k more characteristics: ask on from the last one.
char_discovered_cb(i, k) ==
  /\ OnAir(i, "chars")
  /\ LET found == links[i].queue[1].found
     IN  /\ Len(found) + k <= Len(Profile[links[i].dev])
         /\ links' = [links EXCEPT ![i] = g_attrib_send(Popped(@),
              [kind |-> "chars",
               found |-> SubSeq(Profile[links[i].dev], 1, Len(found) + k)])]
  /\ UNCHANGED <<session, opt_mtu>>

\* The last characteristic of that kind in a list, if there is one.
pick_First(cs, uuid, old) == IF old # NoChar THEN old                 \* mutant
  ELSE LET is == {k \in DOMAIN cs : cs[k].uuid = uuid}
       IN  IF is = {} THEN old ELSE cs[Max(is)]
pick(cs, uuid, old) ==
  LET is == {k \in DOMAIN cs : cs[k].uuid = uuid}
  IN  IF is = {} THEN old ELSE cs[Max(is)]

\* discover_char_cb: remember the two characteristics of the vehicle; with
\* both known, write the notification bit through the session's bearer.  ls
\* are the links after the bearer has completed the request.
discover_char_cb(found, ls) ==
  LET v == [read_char  |-> pick(found, "READ", vehicle.read_char),
            write_char |-> pick(found, "WRITE", vehicle.write_char)]
      notify == v.read_char.handle > 0 /\ v.write_char.handle > 0
  IN  /\ vehicle' = v
      /\ crashed' = IF notify /\ attrib = 0 THEN "discover_char_cb" ELSE "no"
      /\ links' = IF notify /\ attrib # 0
                  THEN [ls EXCEPT ![attrib] = gatt_write(@, 1, "write_cmd", "notify",
                                                v.write_char.properties)]
                  ELSE ls
      /\ UNCHANGED <<conn_state, iochannel, attrib, opt_mtu, running>>

Complete(d, found) == found = Profile[d] /\ found # <<>>

\* The error that ends a discovery.  What was found so far counts as success.
DiscoveryEnds(i) ==
  /\ OnAir(i, "chars")
  /\ LET l == links[i]
         found == l.queue[1].found
         ls == [links EXCEPT ![i] = [Popped(l) EXCEPT !.done = Complete(l.dev, found)]]
     IN  IF found # <<>> THEN discover_char_cb(found, ls)
         ELSE links' = ls /\ UNCHANGED <<session, opt_mtu>>

\* disconnect_timeout of a bearer, also of one the session has left: all its
\* callbacks get an error, which a discovery that has found something hides.
\* The bearer refuses everything afterwards.
disconnect_timeout(i) ==
  /\ Up /\ links[i].refs /\ links[i].sent
  /\ LET l == links[i]
         m == [l EXCEPT !.queue = <<>>, !.sent = FALSE, !.stale = TRUE]
         ls == [links EXCEPT ![i] = IF i = attrib THEN m ELSE freed(m)]
     IN  IF Collecting(l)
         THEN LET p == CHOOSE p \in ToSet(l.queue) : p.found # <<>>
              IN  discover_char_cb(p.found, ls)
         ELSE links' = ls /\ UNCHANGED <<session, opt_mtu>>
-----------------------------------------------------------------------------
Shell ==
  \/ \E d \in Dev : cmd_connect(d)
  \/ cmd_disconnect
  \/ \E c \in Commands : cmd_anki_vehicle_message(c)
  \/ cmd_anki_vehicle_send_data
  \/ cmd_anki_vehicle_read
  \/ \E v \in MtuArgs : cmd_mtu(v)
  \/ cmd_exit

Callback(i) ==
  \/ channel_watcher(i) \/ Transmit(i) \/ Answer(i)
  \/ \E mtu \in PeerMtus : exchange_mtu_cb(i, mtu)
  \/ primary_by_uuid_cb(i) \/ discover_services_cb(i)
  \/ \E k \in 1..Len(Profile[links[i].dev]) : char_discovered_cb(i, k)
  \/ DiscoveryEnds(i) \/ disconnect_timeout(i)

Next ==
  \/ Shell
  \/ \E ok \in BOOLEAN : connect_cb(ok)
  \/ connect_cb_no_bearer
  \/ \E i \in DOMAIN links : Hup(i) \/ Callback(i)

Spec == Init /\ [][Next]_vars
-----------------------------------------------------------------------------
\* The static variables of vehicle_cmd.c have their types, and the pointers
\* name connections.
TypeOK ==
  /\ conn_state \in {"DISCONNECTED", "CONNECTING", "CONNECTED"}
  /\ iochannel \in 0..Len(links) /\ attrib \in 0..Len(links)
  /\ opt_mtu \in {0} \cup MtuArgs
  /\ vehicle \in [read_char : Char, write_char : Char]
  /\ running \in BOOLEAN /\ crashed \in {"no", "connect_cb", "discover_char_cb"}

\* The state and the two pointers always agree, whichever of the user, the
\* connect result, a hang-up or an exit came first: a bearer exists exactly
\* while connected, and it is that of the current channel.
PointersAgree ==
  /\ conn_state = "CONNECTED" <=> attrib # 0
  /\ conn_state = "CONNECTING" =>
       iochannel # 0 /\ links[iochannel].chan = "connecting"
  /\ attrib # 0 => attrib = iochannel /\ links[attrib].refs
                   /\ links[attrib].chan \in {"open", "hup"}

\* No channel is forgotten while it is up: only the current one can be open
\* or connecting, and after an exit none is.
OneChannel ==
  \A i \in DOMAIN links :
    links[i].chan \in {"connecting", "open", "hup"} =>
      i = iochannel /\ conn_state # "DISCONNECTED" /\ running

\* There is one MTU exchange per connection, and a new connection may do its
\* own.  The buffer never grows beyond what the device answered and what the
\* user asked for, whatever the device answers and whenever the answer comes;
\* nor beyond what the request said, unless the 16 bits of the request cut it.
MtuAgreed ==
  /\ conn_state # "CONNECTED" => opt_mtu = 0
  /\ \A i \in DOMAIN links :
       LET l == links[i]
       IN  /\ Len(l.offered) <= 1
           /\ l.mtu # ATT_DEFAULT_LE_MTU =>
                \E v \in ToSet(l.offered) :
                  /\ l.mtu <= l.answered /\ l.mtu <= v
                  /\ v < Uint16 => l.mtu <= on_air(v)

IsVehicle(d) == {"READ", "WRITE"} \subseteq {c.uuid : c \in ToSet(Profile[d])}

\* Once a vehicle's characteristics are discovered, commands use its own, not
\* those of a vehicle connected before, unless an earlier connection was cut
\* in the middle of its discovery.
HandlesAreCurrent ==
  /\ conn_state = "CONNECTED" /\ links[attrib].done /\ IsVehicle(links[attrib].dev)
  /\ \A i \in DOMAIN links : ~ links[i].cut
  => LET cs == ToSet(Profile[links[attrib].dev])
     IN  vehicle.read_char \in cs /\ vehicle.write_char \in cs

\* "Send ping message to vehicle": a message is written to the write
\* characteristic of the connected vehicle.
MessageToVehicle ==
  \A i \in DOMAIN links : \A w \in links[i].issued :
    w.what = "message" =>
      \E c \in ToSet(Profile[links[i].dev]) :
        c.uuid = "WRITE" /\ w.handle = c.value_handle

\* "Disconnect from a remote device": after it, no result of the connection
\* that was left makes the tool use a bearer it no longer has.
NoUseAfterDisconnect == crashed # "discover_char_cb"
=============================================================================
