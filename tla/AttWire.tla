------------------------------- MODULE AttWire -------------------------------
(***************************************************************************)
(* The way of data between vehicle-tool and a vehicle: the commands of     *)
(* vehicle_cmd.c build vehicle messages in memory that holds old data,     *)
(* gatt_write_char encodes them into the one buffer of the bearer, and     *)
(* g_attrib_send queues a copy, which is decoded on the other side.  All   *)
(* other PDUs of Att take the same way, in either direction.               *)
(***************************************************************************)
EXTENDS Att, VehicleProtocol

CONSTANTS
  Mtu,       \* the size of the buffer
  Handles,   \* handles, offsets and MTUs in the PDUs
  Uuids,     \* UUIDs in the PDUs
  Values,    \* attribute values in the PDUs
  Lists,     \* lists of elements of one size in the responses: [len, data]
  WriteHandle, \* the handle of the vehicle's write characteristic
  ReadHandle,  \* the handle of its read characteristic, which it notifies
  Commands,  \* the commands of the user: records with a cmd
  Stack,     \* what the memory of a message may hold before
  MaxSends   \* bound on the PDUs and commands

ASSUME AttWireAssumption ==
  /\ Mtu >= 23 /\ MaxSends \in Nat
  /\ Handles \subseteq 0..2^16 - 1 /\ {WriteHandle, ReadHandle} \subseteq Handles
  /\ \A m \in Stack : m \in [1..ANKI_VEHICLE_MSG_MAX_SIZE -> Byte]

VARIABLES
  buf,       \* attrib->buf
  queue,     \* the PDUs that are queued: [kind, pdu]
  asked,     \* history: what should arrive, for each PDU
  got        \* what the other side has decoded

vars == <<buf, queue, asked, got>>
-----------------------------------------------------------------------------
(***************************************************************************)
(* The commands: what the user types, and the messages it becomes.         *)
(***************************************************************************)
channels_by_name == <<"RED", "TAIL", "BLUE", "GREEN", "FRONTL", "FRONTR">>
effects_by_name == <<"STEADY", "FADE", "THROB", "FLASH", "RANDOM">>

index(table, name) == (CHOOSE i \in DOMAIN table : table[i] = name) - 1
get_channel_by_name(name) == index(channels_by_name, name)
get_effect_by_name(name) == index(effects_by_name, name)

LIGHT == [RED |-> 0, TAIL |-> 1, BLUE |-> 2, GREEN |-> 3, FRONTL |-> 4, FRONTR |-> 5]
EFFECT == [STEADY |-> 0, FADE |-> 1, THROB |-> 2, FLASH |-> 3, RANDOM |-> 4]

zero == <<0, 0, 0, 0>>
one == <<0, 0, 128, 63>>

default(c, name, value) == IF name \in DOMAIN c THEN c[name] ELSE value

\* An intensity is typed as a fraction of one, here in tenths.
intensity(tenths) == u8((14 * tenths) \div 10)

vehicle_set_rgb_lights(m, effect, r, g, b, cycles) ==
  <<anki_vehicle_msg_lights_pattern(m, LIGHT.RED, effect, r[1], r[2], cycles),
    anki_vehicle_msg_lights_pattern(m, LIGHT.GREEN, effect, g[1], g[2], cycles),
    anki_vehicle_msg_lights_pattern(m, LIGHT.BLUE, effect, b[1], b[2], cycles)>>

engine_lights(m, c) ==
  LET r == intensity(c.red)
      g == intensity(c.green)
      b == intensity(c.blue)
      effect == get_effect_by_name(c.effect)
  IN  IF effect = EFFECT.STEADY
      THEN vehicle_set_rgb_lights(m, effect, <<r, r>>, <<g, g>>, <<b, b>>, 0)
      ELSE vehicle_set_rgb_lights(m, effect, <<0, r>>, <<0, g>>, <<b, 0>>, u16(c.cycles))

change_lane(m, c) ==
  <<anki_vehicle_msg_set_offset_from_road_center(m, zero),
    anki_vehicle_msg_change_lane(m, i16(c.speed), default(c, "offset", one))>>

\* The messages of a command, each made in memory that holds m before.
messages(c, m) ==
  CASE c.cmd = "vehicle-disconnect" -> <<anki_vehicle_msg_disconnect(m)>>
    [] c.cmd = "sdk-mode"    -> <<anki_vehicle_msg_set_sdk_mode(m, u8(c.on))>>
    [] c.cmd = "ping"        -> <<anki_vehicle_msg_ping(m)>>
    [] c.cmd = "get-version" -> <<anki_vehicle_msg_get_version(m)>>
    [] c.cmd = "set-speed"   -> <<anki_vehicle_msg_set_speed(m, i16(c.speed),
                                     i16(default(c, "accel", 25000)))>>
    [] c.cmd = "change-lane" -> change_lane(m, c)
    [] c.cmd = "set-lights-pattern" ->
         <<anki_vehicle_msg_lights_pattern(m, get_channel_by_name(c.channel),
             get_effect_by_name(c.effect), u8(c.start), u8(c.end), u16(c.cycles))>>
    [] c.cmd = "set-engine-lights" -> engine_lights(m, c)
    \* The other functions of the library; vehicle-tool has no command for them.
    [] c.cmd = "set_lights"  -> <<anki_vehicle_msg_set_lights(m, c.mask)>>
    [] c.cmd = "cancel_lane_change" -> <<anki_vehicle_msg_cancel_lane_change(m)>>
    [] c.cmd = "turn_180"    -> <<anki_vehicle_msg_turn_180(m)>>
-----------------------------------------------------------------------------
(***************************************************************************)
(* What is exchanged: of each PDU its encoded form, what it means, and the *)
(* least number of bytes that it takes (unencodable: more than a PDU has). *)
(***************************************************************************)
Case(kind, pdu, means, min) == [kind |-> kind, pdu |-> pdu, means |-> means, min |-> min]

Unencodable == 2^16

UuidSize(u, sizes) == IF Len(u) \in sizes THEN Len(u) ELSE Unencodable

Requests ==
  UNION {
    {Case("READ_BY_GROUP_REQ", enc_read_by_grp_req(1, h, u, Mtu),
          [start |-> 1, end |-> h, uuid |-> u], 5 + UuidSize(u, {2, 16})) :
       h \in Handles, u \in Uuids},
    {Case("READ_BY_TYPE_REQ", enc_read_by_type_req(h, 9, u, Mtu),
          [start |-> h, end |-> 9, uuid |-> u], 5 + UuidSize(u, {2, 16})) :
       h \in Handles, u \in Uuids},
    {Case("FIND_BY_TYPE_REQ", enc_find_by_type_req(1, 9, u, v, Mtu),
          [start |-> 1, end |-> 9, uuid |-> u, value |-> v], 5 + UuidSize(u, {2})) :
       u \in Uuids, v \in Values},
    {Case("FIND_INFO_REQ", enc_find_info_req(h, 9, Mtu), [start |-> h, end |-> 9], 5) :
       h \in Handles},
    {Case("READ_REQ", enc_read_req(h, Mtu), [handle |-> h], 3) : h \in Handles},
    {Case("READ_BLOB_REQ", enc_read_blob_req(5, h, Mtu), [handle |-> 5, offset |-> h], 5) :
       h \in Handles},
    {Case("WRITE_REQ", enc_write_req(h, v, Mtu), [handle |-> h, value |-> v], 3) :
       h \in Handles, v \in Values},
    {Case("WRITE_CMD", enc_write_cmd(5, v, Mtu), [handle |-> 5, value |-> v], 3) :
       v \in Values},
    {Case("PREP_WRITE_REQ", enc_prep_write_req(5, h, v, Mtu),
          [handle |-> 5, offset |-> h, value |-> v], 5) : h \in Handles, v \in Values},
    {Case("EXEC_WRITE_REQ", enc_exec_write_req(f, Mtu), [flags |-> f],
          IF f > 1 THEN Unencodable ELSE 2) : f \in 0..2},
    {Case("MTU_REQ", enc_mtu_req(h, Mtu), [mtu |-> h], 3) : h \in Handles}}

\* What a vehicle notifies: the messages for which the tool has a case, and
\* another one.  They are taken from the read characteristic only.
Notifications ==
  {<<<<1, ID.PING_RESPONSE>>, [message |-> "PING_RESPONSE"]>>,
   <<<<3, ID.VERSION_RESPONSE, 52, 18>>,
     [message |-> "VERSION_RESPONSE", version |-> 18 * 256 + 52]>>,
   <<<<1, ID.VERSION_REQUEST>>, [message |-> "unhandled"]>>}

\* The response to a prepared write is taken by its length only.
Responses ==
  UNION {
    {Case("READ_BY_GROUP_RESP", enc_read_by_grp_resp(l, Mtu), l, 2 + l.len) : l \in Lists},
    {Case("READ_BY_TYPE_RESP", enc_read_by_type_resp(l, Mtu), l,
          IF l = NullList THEN Unencodable ELSE 3) : l \in Lists},
    {Case("FIND_INFO_RESP", enc_find_info_resp(f, l, Mtu), [format |-> f, list |-> l],
          2 + l.len) : <<f, l>> \in {t \in {1, 2} \X Lists : t[2].len = info_size(t[1])}},
    {Case("FIND_BY_TYPE_RESP", enc_find_by_type_resp(m, Mtu), [matches |-> m], 5) :
       m \in {[i \in 1..n |-> [start |-> i, end |-> 256 * i]] : n \in 1..6}},
    {Case("READ_RESP", enc_read_resp(v, Mtu), [value |-> v], 1) : v \in Values},
    {Case("READ_BLOB_RESP", enc_read_blob_resp(v, 1, Mtu), [value |-> Tail(v)], 1) :
       v \in Values \ {<<>>}},
    {Case("PREP_WRITE_RESP", enc_prep_write_resp(5, 0, v, Mtu),
          [written |-> smaller(Len(v), Mtu - 5)], 5) : v \in Values},
    {Case("WRITE_RESP", enc_write_resp(Mtu), [opcode |-> OP.WRITE_RESP], 1),
     Case("EXEC_WRITE_RESP", enc_exec_write_resp(Mtu), [opcode |-> OP.EXEC_WRITE_RESP], 1),
     Case("ERROR", enc_error_resp(8, 9, 10, Mtu), [status |-> 10], 5),
     Case("HANDLE_CNF", enc_confirmation(Mtu), [opcode |-> OP.HANDLE_CNF], 1)},
    {Case("HANDLE_IND", enc_indication(h, v, Mtu), [handle |-> h, value |-> v], 3 + Len(v)) :
       h \in Handles, v \in Values},
    {Case("HANDLE_NOTIFY", enc_notification(h, n[1], Mtu),
          IF h = ReadHandle THEN n[2] ELSE Rejected, 3 + Len(n[1])) :
       h \in Handles, n \in Notifications},
    {Case("MTU_RESP", enc_mtu_resp(h, Mtu), [mtu |-> h], 3) : h \in Handles}}

Pdus == Requests \cup Responses
-----------------------------------------------------------------------------
(***************************************************************************)
(* The receiving side.                                                     *)
(***************************************************************************)
handle_vehicle_msg_response(data) ==
  CASE Len(data) > ANKI_VEHICLE_MSG_MAX_SIZE -> Rejected
    [] Len(data) <= ANKI_VEHICLE_MSG_MAX_SIZE /\ data[2] = ID.PING_RESPONSE ->
         [message |-> "PING_RESPONSE"]
    [] Len(data) <= ANKI_VEHICLE_MSG_MAX_SIZE /\ data[2] = ID.VERSION_RESPONSE ->
         [message |-> "VERSION_RESPONSE", version |-> get_u16(data, 2)]
    [] OTHER -> [message |-> "unhandled"]

\* Notifications of another characteristic are refused.
events_handler(pdu) ==
  IF pdu[1] # OP.HANDLE_NOTIFY \/ get_u16(pdu, 1) # ReadHandle THEN Rejected
  ELSE handle_vehicle_msg_response(dec_value(pdu, 3))

\* received_data compares the opcode of a response with the one that the
\* request at the head expects, and calls its callback with an error if they
\* differ.  The callbacks that take a PDU without a decoder rest on this.
received_data(expected, pdu, taken) == IF pdu[1] # expected THEN Rejected ELSE taken

\* How a vehicle reads what is written to it.
Vehicle(pdu) ==
  [handle |-> dec_write_req(pdu).handle, message |-> Parse(dec_write_req(pdu).value)]

Decode(kind, pdu) ==
  CASE kind = "READ_BY_GROUP_REQ"  -> dec_read_by_grp_req(pdu)
    [] kind = "READ_BY_GROUP_RESP" -> dec_read_by_grp_resp(pdu)
    [] kind = "READ_BY_TYPE_REQ"   -> dec_read_by_type_req(pdu)
    [] kind = "READ_BY_TYPE_RESP"  -> dec_read_by_type_resp(pdu)
    [] kind = "FIND_BY_TYPE_REQ"   -> dec_find_by_type_req(pdu)
    [] kind = "FIND_BY_TYPE_RESP"  -> dec_find_by_type_resp(pdu)
    [] kind = "FIND_INFO_REQ"      -> dec_find_info_req(pdu)
    [] kind = "FIND_INFO_RESP"     -> dec_find_info_resp(pdu)
    [] kind = "READ_REQ"           -> dec_read_req(pdu)
    [] kind = "READ_RESP"          -> dec_read_resp(pdu, Mtu)
    [] kind = "READ_BLOB_REQ"      -> dec_read_blob_req(pdu)
    [] kind = "READ_BLOB_RESP"     ->
         received_data(OP.READ_BLOB_RESP, pdu, read_blob_value(pdu))
    [] kind = "WRITE_REQ"          -> dec_write_req(pdu)
    [] kind = "WRITE_RESP"         -> dec_write_resp(pdu)
    [] kind = "WRITE_CMD"          -> dec_write_cmd(pdu)
    [] kind = "PREP_WRITE_REQ"     -> dec_prep_write_req(pdu)
    [] kind = "PREP_WRITE_RESP"    ->
         received_data(OP.PREP_WRITE_RESP, pdu, prep_written(pdu))
    [] kind = "EXEC_WRITE_REQ"     -> dec_exec_write_req(pdu)
    [] kind = "EXEC_WRITE_RESP"    -> dec_exec_write_resp(pdu)
    [] kind = "ERROR"              -> error_status(pdu)
    [] kind = "HANDLE_IND"         -> dec_indication(pdu, Mtu)
    [] kind = "HANDLE_CNF"         -> dec_opcode(pdu, OP.HANDLE_CNF)
    [] kind = "HANDLE_NOTIFY"      -> events_handler(pdu)
    [] kind = "MTU_REQ"            -> dec_mtu_req(pdu)
    [] kind = "MTU_RESP"           -> dec_mtu_resp(pdu)
    [] kind = "MESSAGE"            -> Vehicle(pdu)
-----------------------------------------------------------------------------
\* Reference: what a command should tell the vehicle.  set-engine-lights
\* runs blue from its value to 0 and the other colours from 0 to theirs; the
\* speed of a lane change is a field without sign.
Steady(c) == c.effect = "STEADY"

Pattern(c, channel, start, end) ==
  <<ID.LIGHTS_PATTERN, LIGHT[channel], EFFECT[c.effect], start, end,
    IF c.cmd = "set-engine-lights" /\ Steady(c) THEN 0 ELSE c.cycles>>

Told(c) ==
  CASE c.cmd = "vehicle-disconnect" -> <<<<ID.DISCONNECT>>>>
    [] c.cmd = "sdk-mode"    -> <<<<ID.SDK_MODE, c.on>>>>
    [] c.cmd = "ping"        -> <<<<ID.PING_REQUEST>>>>
    [] c.cmd = "get-version" -> <<<<ID.VERSION_REQUEST>>>>
    [] c.cmd = "set-speed"   ->
         <<<<ID.SET_SPEED, c.speed, default(c, "accel", 25000), 0>>>>
    [] c.cmd = "change-lane" ->
         <<<<ID.SET_OFFSET_FROM_ROAD_CENTER, zero>>,
           <<ID.CHANGE_LANE, u16(c.speed), default(c, "offset", one), 0, 0>>>>
    [] c.cmd = "set-lights-pattern" -> <<Pattern(c, c.channel, c.start, c.end)>>
    [] c.cmd = "set-engine-lights" ->
         LET low(t) == IF Steady(c) THEN (14 * t) \div 10 ELSE 0
             high(t) == (14 * t) \div 10
         IN  <<Pattern(c, "RED", low(c.red), high(c.red)),
               Pattern(c, "GREEN", low(c.green), high(c.green)),
               Pattern(c, "BLUE", high(c.blue), low(c.blue))>>
    [] c.cmd = "set_lights"  -> <<<<ID.SET_LIGHTS, c.mask>>>>
    [] c.cmd = "cancel_lane_change" -> <<<<ID.CANCEL_LANE_CHANGE>>>>
    [] c.cmd = "turn_180"    -> <<<<ID.TURN_180>>>>

Meaning(c) ==
  [i \in DOMAIN Told(c) |->
     [kind |-> "MESSAGE", means |-> [handle |-> WriteHandle, message |-> Told(c)[i]],
      min |-> 5]]
-----------------------------------------------------------------------------
Init == buf = Zero(Mtu) /\ queue = <<>> /\ asked = <<>> /\ got = <<>>

\* g_attrib_send copies the first n bytes of the buffer.
g_attrib_send_Shared(q, kind, b, n) ==                                \* mutant
  [i \in 1..Len(q) + 1 |->
     IF i > Len(q) THEN [kind |-> kind, pdu |-> Slice(b, 0, n)]
     ELSE [q[i] EXCEPT !.pdu = Slice(b, 0, Len(@))]]
g_attrib_send(q, kind, b, n) == Append(q, [kind |-> kind, pdu |-> Slice(b, 0, n)])

\* An encoder has written pdu to the buffer; if it refused nothing is sent.
Sent(s, kind, pdu) ==
  LET b == Overwrite(s.buf, pdu)
  IN  IF pdu = None THEN s
      ELSE [buf |-> b, queue |-> g_attrib_send(s.queue, kind, b, Len(pdu))]

Exchange(p) ==
  /\ Len(asked) < MaxSends
  /\ LET s == Sent([buf |-> buf, queue |-> queue], p.kind, p.pdu)
     IN  buf' = s.buf /\ queue' = s.queue
  /\ asked' = Append(asked, [kind |-> p.kind, means |-> p.means, min |-> p.min])
  /\ UNCHANGED got

\* gatt_write_char with a message of msg.len bytes, which always fits.
write_message(s, msg) ==
  Sent(s, "MESSAGE", enc_write_req(WriteHandle, Slice(msg.msg, 0, msg.len), Mtu))

Command(c, m) ==
  /\ Len(asked) < MaxSends
  /\ LET s == FoldLeft(write_message, [buf |-> buf, queue |-> queue], messages(c, m))
     IN  buf' = s.buf /\ queue' = s.queue
  /\ asked' = asked \o Meaning(c)
  /\ UNCHANGED got

Deliver ==
  /\ queue # <<>>
  /\ got' = Append(got, [kind |-> Head(queue).kind, size |-> Len(Head(queue).pdu),
                         data |-> Decode(Head(queue).kind, Head(queue).pdu)])
  /\ queue' = Tail(queue)
  /\ UNCHANGED <<buf, asked>>

Next ==
  \/ \E p \in Pdus : Exchange(p)
  \/ \E c \in Commands, m \in Stack : Command(c, m)
  \/ Deliver

Spec == Init /\ [][Next]_vars
-----------------------------------------------------------------------------
(***************************************************************************)
(* Properties.                                                             *)
(***************************************************************************)
\* What has arrived and what is on its way.
Arrived ==
  got \o [i \in DOMAIN queue |->
            [kind |-> queue[i].kind, size |-> Len(queue[i].pdu),
             data |-> Decode(queue[i].kind, queue[i].pdu)]]

Due == SelectSeq(asked, LAMBDA a : a.min <= Mtu)

\* No encoder writes beyond the buffer that it was given, and no PDU is
\* larger than the MTU, for values of any length.
PdusFit ==
  /\ Len(buf) = Mtu
  /\ \A i \in DOMAIN queue : Len(queue[i].pdu) \in 1..Mtu

\* s is a part of t, and all of it unless the PDU has no room for a unit more.
Cut(s, t, size, unit) == IsPrefix(s, t) /\ (s = t \/ size + unit > Mtu)

ListConveyed(d, l, size) ==
  \/ d.len = l.len /\ Cut(d.data, l.data, size, l.len)
  \/ d.len < l.len /\ size = Mtu /\ Len(d.data) = 1 /\ IsPrefix(d.data[1], l.data[1])

Conveys(g, a) ==
  /\ g.data = Rejected <=> a.means = Rejected
  /\ CASE a.kind \in {"READ_BY_GROUP_RESP", "READ_BY_TYPE_RESP"} ->
            ListConveyed(g.data, a.means, g.size)
       [] a.kind = "FIND_INFO_RESP" ->
            g.data.format = a.means.format /\ ListConveyed(g.data.list, a.means.list, g.size)
       [] a.kind = "FIND_BY_TYPE_RESP" -> Cut(g.data.matches, a.means.matches, g.size, 4)
       [] OTHER ->
            /\ DOMAIN g.data = DOMAIN a.means
            /\ \A f \in DOMAIN a.means :
                 IF f = "value" THEN Cut(g.data.value, a.means.value, g.size, 1)
                 ELSE g.data[f] = a.means[f]

\* What an encoder takes is what the decoder of the other side gives back,
\* in order, although all PDUs are built in one buffer before the first of
\* them is sent.  Nothing is refused that fits, except notifications of other
\* characteristics than the vehicle's, and only the end of a value or of a list
\* is lost, and only when the PDU is full.
PdusArrive ==
  /\ Len(Arrived) = Len(Due)
  /\ \A i \in DOMAIN Due : Arrived[i].kind = Due[i].kind
       /\ (Due[i].kind # "MESSAGE" => Conveys(Arrived[i], Due[i]))

\* The vehicle reads what the user has typed: right type, size byte, byte
\* order, sign and channel, and nothing of what the memory of the message or
\* the buffer of the bearer held before; each lane change with the message
\* right before it that "is always sent to set the current offset to zero".
MessagesArrive ==
  \A i \in DOMAIN Due \cap DOMAIN Arrived :
    Due[i].kind = "MESSAGE" => Arrived[i].data = Due[i].means

\* A PDU is taken as one of its own type only, whatever its length and
\* content: by its decoder, or by received_data for the two responses whose
\* callbacks look at no opcode; except that dec_prep_write_resp, which nothing
\* calls, takes the request and not the response.
OnlyItsOpcode ==
  \A i \in DOMAIN queue :
    LET pdu == queue[i].pdu
    IN  /\ \A k \in DOMAIN OP : pdu[1] # OP[k] => Decode(k, pdu) = Rejected
        /\ pdu[1] # OP.PREP_WRITE_REQ => dec_prep_write_resp(pdu) = Rejected
=============================================================================
