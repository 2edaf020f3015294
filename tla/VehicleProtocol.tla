--------------------------- MODULE VehicleProtocol ---------------------------
(***************************************************************************)
(* The vehicle messages of src/protocol.h and their constructors in        *)
(* src/protocol.c.                                                         *)
(*                                                                         *)
(* A constructor writes to the memory m of an anki_vehicle_msg_t, whose    *)
(* old content it may leave in place, and returns a length: its value is   *)
(* [msg, len].  A float is the sequence of its four bytes.                 *)
(***************************************************************************)
EXTENDS Bytes, SequencesExt

ANKI_VEHICLE_MSG_MAX_SIZE == 20
ANKI_VEHICLE_MSG_BASE_SIZE == 1

ID ==
  [DISCONNECT |-> 13, PING_REQUEST |-> 22, PING_RESPONSE |-> 23,
   VERSION_REQUEST |-> 24, VERSION_RESPONSE |-> 25, SET_LIGHTS |-> 29,
   SET_SPEED |-> 36, CHANGE_LANE |-> 37, CANCEL_LANE_CHANGE |-> 38,
   TURN_180 |-> 50, SET_OFFSET_FROM_ROAD_CENTER |-> 44, LIGHTS_PATTERN |-> 51,
   SDK_MODE |-> 144]

\* The fields behind size and msg_id of the structure of each message.
Layout(id) ==
  CASE id = ID.SDK_MODE       -> <<"u8">>
    [] id = ID.SET_SPEED      -> <<"i16", "i16", "u8">>
    [] id = ID.SET_OFFSET_FROM_ROAD_CENTER -> <<"float">>
    [] id = ID.CHANGE_LANE    -> <<"u16", "float", "u8", "u8">>
    [] id = ID.SET_LIGHTS     -> <<"u8">>
    [] id = ID.LIGHTS_PATTERN -> <<"u8", "u8", "u8", "u8", "u16">>
    [] id = ID.VERSION_RESPONSE -> <<"u16">>
    [] OTHER                  -> <<>>

Width == [u8 |-> 1, u16 |-> 2, i16 |-> 2, float |-> 4]

\* Conversions to a field's type, and the bytes of a field.
u8(n) == n % 2^8
u16(n) == n % 2^16
i16(n) == ((n + 2^15) % 2^16) - 2^15

field(type, v) ==
  CASE type = "u8" -> <<v>>
    [] type \in {"u16", "i16"} -> put_u16(u16(v))
    [] type = "float" -> v

pack(id, vs) == FlattenSeq([i \in DOMAIN vs |-> field(Layout(id)[i], vs[i])])

\* The structure is cleared and its fields are assigned; a reserved field
\* stays zero.
struct(m, size, id, vs) ==
  LET b == <<size, id>> \o pack(id, vs)
  IN  [msg |-> Overwrite(m, b), len |-> Len(b)]

\* The messages without fields are not cleared, and two bytes long.
base(m, id) ==
  [msg |-> Overwrite(m, <<ANKI_VEHICLE_MSG_BASE_SIZE, id>>), len |-> 2]
-----------------------------------------------------------------------------
anki_vehicle_msg_set_sdk_mode(m, on) == struct(m, 2, ID.SDK_MODE, <<on>>)

\* The fields are int16_t, the parameters uint16_t.
anki_vehicle_msg_set_speed_NoMemset(m, speed, accel) ==               \* mutant
  struct(m, 6, ID.SET_SPEED, <<u16(speed), u16(accel), m[7]>>)
anki_vehicle_msg_set_speed(m, speed, accel) ==
  struct(m, 6, ID.SET_SPEED, <<u16(speed), u16(accel), 0>>)

anki_vehicle_msg_set_offset_from_road_center(m, offset) ==
  struct(m, 6 - ANKI_VEHICLE_MSG_BASE_SIZE, ID.SET_OFFSET_FROM_ROAD_CENTER, <<offset>>)

\* The whole message is cleared.
anki_vehicle_msg_change_lane(m, speed, offset) ==
  struct(Zero(ANKI_VEHICLE_MSG_MAX_SIZE), 9, ID.CHANGE_LANE, <<u16(speed), offset, 0, 0>>)

anki_vehicle_msg_set_lights(m, mask) == struct(m, 2, ID.SET_LIGHTS, <<mask>>)

anki_vehicle_msg_lights_pattern(m, channel, effect, start, end, cycles) ==
  struct(m, 7, ID.LIGHTS_PATTERN, <<channel, effect, start, end, cycles>>)

anki_vehicle_msg_disconnect(m) == base(m, ID.DISCONNECT)
anki_vehicle_msg_cancel_lane_change(m) == base(m, ID.CANCEL_LANE_CHANGE)
anki_vehicle_msg_turn_180(m) == base(m, ID.TURN_180)
anki_vehicle_msg_ping(m) == base(m, ID.PING_REQUEST)
anki_vehicle_msg_get_version(m) == base(m, ID.VERSION_REQUEST)
-----------------------------------------------------------------------------
(***************************************************************************)
(* Reference: how a receiver that knows the structures reads a message.    *)
(* "size: Size in bytes of the msg_id plus payload".                       *)
(***************************************************************************)
Number(type, b) ==
  CASE type = "u8" -> b[1]
    [] type = "u16" -> get_u16(b, 0)
    [] type = "i16" -> i16(get_u16(b, 0))
    [] type = "float" -> b

\* The offset of the k-th field.
Offset(id, k) ==
  2 + SumFunction([i \in 1..k - 1 |-> Width[Layout(id)[i]]])

Parse(b) ==
  LET n == Len(Layout(b[2]))
  IN  IF Len(b) # b[1] + 1 \/ Len(b) # Offset(b[2], n + 1) THEN <<"malformed">>
      ELSE <<b[2]>> \o [k \in 1..n |-> Number(Layout(b[2])[k],
                              Slice(b, Offset(b[2], k), Width[Layout(b[2])[k]]))]
=============================================================================
