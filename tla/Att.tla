--------------------------------- MODULE Att ---------------------------------
(***************************************************************************)
(* The PDU codec of examples/vehicle-tool/att.c.                           *)
(*                                                                         *)
(* An encoder gives the bytes it writes to a buffer of len bytes; None,    *)
(* where the code returns 0, means that it refuses.  A decoder gives a     *)
(* record of what it stores, or Rejected.  A PDU has at least its opcode,  *)
(* a buffer room for three bytes, and the entries of a list response are   *)
(* not empty (the code divides by their size).  The offset of a long read  *)
(* is not behind the end of the value: there vlen - offset wraps, and the  *)
(* code copies what follows the value in memory.  A UUID is the sequence   *)
(* of its bytes in the order in which it is sent.                          *)
(***************************************************************************)
EXTENDS Bytes, SequencesExt

OP ==
  [ERROR |-> 1, MTU_REQ |-> 2, MTU_RESP |-> 3, FIND_INFO_REQ |-> 4,
   FIND_INFO_RESP |-> 5, FIND_BY_TYPE_REQ |-> 6, FIND_BY_TYPE_RESP |-> 7,
   READ_BY_TYPE_REQ |-> 8, READ_BY_TYPE_RESP |-> 9, READ_REQ |-> 10,
   READ_RESP |-> 11, READ_BLOB_REQ |-> 12, READ_BLOB_RESP |-> 13,
   READ_BY_GROUP_REQ |-> 16, READ_BY_GROUP_RESP |-> 17, WRITE_REQ |-> 18,
   WRITE_RESP |-> 19, WRITE_CMD |-> 82, PREP_WRITE_REQ |-> 22,
   PREP_WRITE_RESP |-> 23, EXEC_WRITE_REQ |-> 24, EXEC_WRITE_RESP |-> 25,
   HANDLE_NOTIFY |-> 27, HANDLE_IND |-> 29, HANDLE_CNF |-> 30]

None == <<>>
Rejected == [rejected |-> TRUE]
-----------------------------------------------------------------------------
(***************************************************************************)
(* The forms that the encoders and decoders have in common.                *)
(***************************************************************************)
\* Parameters only.
enc_fixed(op, params, len) ==
  IF len < 1 + Len(params) THEN None ELSE <<op>> \o params

\* Parameters and as much of a value as there is room for.
room_NoOpcode(params, len) == len - Len(params)                       \* mutant
room(params, len) == len - 1 - Len(params)

enc_cut(op, params, value, len) ==
  IF len < 1 + Len(params) THEN None
  ELSE <<op>> \o params \o Slice(value, 0, room(params, len))

\* A range of handles and a UUID of 16 or 128 bits.
enc_range_uuid(op, start, end, uuid, len) ==
  IF Len(uuid) \notin {2, 16} THEN None
  ELSE enc_fixed(op, put_u16(start) \o put_u16(end) \o uuid, len)

\* Elements of size bytes, as many as there is room for.
enc_elements(head, data, size, len) ==
  head \o FlattenSeq(Slice(data, 0, (len - Len(head)) \div size))

Reads(pdu, op, min) == Len(pdu) >= min /\ pdu[1] = op

dec_value(pdu, header) == SubSeq(pdu, header + 1, Len(pdu))

dec_range_uuid(pdu, op) ==
  IF ~ Reads(pdu, op, 7) THEN Rejected
  ELSE [start |-> get_u16(pdu, 1), end |-> get_u16(pdu, 3),
        uuid |-> Slice(pdu, 5, IF Len(pdu) = 7 THEN 2 ELSE 16)]

\* What is left over at the end is dropped.
num(pdu, header, size) == (Len(pdu) - header) \div size

dec_elements(pdu, header, size) ==
  [i \in 1..num(pdu, header, size) |-> Slice(pdu, header + (i - 1) * size, size)]

\* A list is a sequence of elements of the same length.
NullList == [len |-> 256, data |-> <<>>]
att_data_list_alloc(data, len) ==
  IF len > 255 THEN NullList ELSE [len |-> len, data |-> data]
-----------------------------------------------------------------------------
(***************************************************************************)
(* Discovery.                                                              *)
(***************************************************************************)
enc_read_by_grp_req(start, end, uuid, len) ==
  enc_range_uuid(OP.READ_BY_GROUP_REQ, start, end, uuid, len)
dec_read_by_grp_req(pdu) == dec_range_uuid(pdu, OP.READ_BY_GROUP_REQ)

enc_read_by_grp_resp(list, len) ==
  IF list = NullList \/ len < list.len + 2 THEN None
  ELSE enc_elements(<<OP.READ_BY_GROUP_RESP, list.len>>, list.data, list.len, len)

dec_list(pdu) == att_data_list_alloc(dec_elements(pdu, 2, pdu[2]), pdu[2])

dec_read_by_grp_resp(pdu) ==
  IF pdu[1] # OP.READ_BY_GROUP_RESP THEN Rejected ELSE dec_list(pdu)

\* The type is a UUID of 16 bits; the value may be a UUID of either size.
enc_find_by_type_req(start, end, uuid, value, len) ==
  IF Len(uuid) # 2 THEN None
  ELSE enc_cut(OP.FIND_BY_TYPE_REQ, put_u16(start) \o put_u16(end) \o uuid, value, len)
dec_find_by_type_req(pdu) ==
  IF ~ Reads(pdu, OP.FIND_BY_TYPE_REQ, 7) THEN Rejected
  ELSE [start |-> get_u16(pdu, 1), end |-> get_u16(pdu, 3), uuid |-> Slice(pdu, 5, 2),
        value |-> dec_value(pdu, 7)]

enc_find_by_type_resp(matches, len) ==
  IF len < 5 THEN None
  ELSE enc_elements(<<OP.FIND_BY_TYPE_RESP>>,
         [i \in DOMAIN matches |-> put_u16(matches[i].start) \o put_u16(matches[i].end)],
         4, len)
dec_find_by_type_resp(pdu) ==
  IF ~ Reads(pdu, OP.FIND_BY_TYPE_RESP, 5) THEN Rejected
  ELSE [matches |-> [i \in 1..num(pdu, 1, 4) |->
          LET range == dec_elements(pdu, 1, 4)[i]
          IN  [start |-> get_u16(range, 0), end |-> get_u16(range, 2)]]]

enc_read_by_type_req(start, end, uuid, len) ==
  enc_range_uuid(OP.READ_BY_TYPE_REQ, start, end, uuid, len)
dec_read_by_type_req(pdu) == dec_range_uuid(pdu, OP.READ_BY_TYPE_REQ)

\* An element that is longer than the PDU is cut.
enc_read_by_type_resp(list, len) ==
  LET l == smaller(len - 2, list.len)
  IN  IF list = NullList THEN None
      ELSE enc_elements(<<OP.READ_BY_TYPE_RESP, l>>,
             [i \in DOMAIN list.data |-> Slice(list.data[i], 0, l)], l, len)
dec_read_by_type_resp(pdu) ==
  IF pdu[1] # OP.READ_BY_TYPE_RESP THEN Rejected ELSE dec_list(pdu)

enc_find_info_req(start, end, len) ==
  enc_fixed(OP.FIND_INFO_REQ, put_u16(start) \o put_u16(end), len)
dec_find_info_req(pdu) ==
  IF ~ Reads(pdu, OP.FIND_INFO_REQ, 5) THEN Rejected
  ELSE [start |-> get_u16(pdu, 1), end |-> get_u16(pdu, 3)]

enc_find_info_resp(format, list, len) ==
  IF list = NullList \/ len < list.len + 2 THEN None
  ELSE enc_elements(<<OP.FIND_INFO_RESP, format>>, list.data, list.len, len)

\* Elements are a handle and a UUID of the size that the format gives.
info_size(format) == 2 + (CASE format = 1 -> 2 [] format = 2 -> 16 [] OTHER -> 0)

dec_find_info_resp(pdu) ==
  IF pdu[1] # OP.FIND_INFO_RESP THEN Rejected
  ELSE [format |-> pdu[2],
        list |-> att_data_list_alloc(dec_elements(pdu, 2, info_size(pdu[2])),
                                     info_size(pdu[2]))]
-----------------------------------------------------------------------------
(***************************************************************************)
(* Reads.                                                                  *)
(***************************************************************************)
enc_read_req(handle, len) == enc_fixed(OP.READ_REQ, put_u16(handle), len)
dec_read_req(pdu) ==
  IF ~ Reads(pdu, OP.READ_REQ, 3) THEN Rejected ELSE [handle |-> get_u16(pdu, 1)]

enc_read_blob_req(handle, offset, len) ==
  enc_fixed(OP.READ_BLOB_REQ, put_u16(handle) \o put_u16(offset), len)
dec_read_blob_req(pdu) ==
  IF ~ Reads(pdu, OP.READ_BLOB_REQ, 5) THEN Rejected
  ELSE [handle |-> get_u16(pdu, 1), offset |-> get_u16(pdu, 3)]

\* "send only the octets that fit on the PDU"
enc_read_resp(value, len) == enc_cut(OP.READ_RESP, <<>>, value, len)
enc_read_blob_resp(value, offset, len) ==
  enc_cut(OP.READ_BLOB_RESP, <<>>, dec_value(value, offset), len)

\* ENOBUFS when the caller's buffer of vlen bytes is too small.
dec_read_resp(pdu, vlen) ==
  IF pdu[1] # OP.READ_RESP \/ vlen < Len(pdu) - 1 THEN Rejected
  ELSE [value |-> dec_value(pdu, 1)]

\* read_blob_helper takes the rest of the PDU, whatever its opcode.
read_blob_value(pdu) == [value |-> dec_value(pdu, 1)]
-----------------------------------------------------------------------------
(***************************************************************************)
(* Writes.                                                                 *)
(***************************************************************************)
dec_handle_value(pdu, op) ==
  IF ~ Reads(pdu, op, 3) THEN Rejected
  ELSE [handle |-> get_u16(pdu, 1), value |-> dec_value(pdu, 3)]

enc_write_cmd(handle, value, len) == enc_cut(OP.WRITE_CMD, put_u16(handle), value, len)
dec_write_cmd(pdu) == dec_handle_value(pdu, OP.WRITE_CMD)

enc_write_req(handle, value, len) == enc_cut(OP.WRITE_REQ, put_u16(handle), value, len)
dec_write_req_AnyOpcode(pdu) == dec_handle_value(pdu, pdu[1])         \* mutant
dec_write_req(pdu) == dec_handle_value(pdu, OP.WRITE_REQ)

dec_opcode(pdu, op) == IF pdu[1] # op THEN Rejected ELSE [opcode |-> op]

enc_write_resp(len) == <<OP.WRITE_RESP>>
dec_write_resp(pdu) == dec_opcode(pdu, OP.WRITE_RESP)

enc_prep_write_req(handle, offset, value, len) ==
  enc_cut(OP.PREP_WRITE_REQ, put_u16(handle) \o put_u16(offset), value, len)
dec_prep_write_req(pdu) ==
  IF ~ Reads(pdu, OP.PREP_WRITE_REQ, 5) THEN Rejected
  ELSE [handle |-> get_u16(pdu, 1), offset |-> get_u16(pdu, 3), value |-> dec_value(pdu, 5)]

enc_prep_write_resp(handle, offset, value, len) ==
  enc_cut(OP.PREP_WRITE_RESP, put_u16(handle) \o put_u16(offset), value, len)
\* It expects the opcode of the request.
dec_prep_write_resp(pdu) == dec_prep_write_req(pdu)

\* prepare_write_cb: how much of the value the server has taken, by the length
\* of the PDU alone.
prep_written(pdu) == [written |-> Len(pdu) - 5]

enc_exec_write_req(flags, len) ==
  IF flags > 1 THEN None ELSE enc_fixed(OP.EXEC_WRITE_REQ, <<flags>>, len)
dec_exec_write_req(pdu) ==
  IF ~ Reads(pdu, OP.EXEC_WRITE_REQ, 2) THEN Rejected ELSE [flags |-> pdu[2]]

enc_exec_write_resp(len) == <<OP.EXEC_WRITE_RESP>>
dec_exec_write_resp(pdu) == dec_opcode(pdu, OP.EXEC_WRITE_RESP)
-----------------------------------------------------------------------------
(***************************************************************************)
(* Errors, notifications, indications and the MTU.                         *)
(***************************************************************************)
enc_error_resp(opcode, handle, status, len) ==
  enc_fixed(OP.ERROR, <<opcode>> \o put_u16(handle) \o <<status>>, len)

\* received_data: the status of an error response.
error_status(pdu) == IF pdu[1] # OP.ERROR THEN Rejected ELSE [status |-> pdu[5]]

\* Here a value that does not fit is refused.
enc_whole(op, handle, value, len) ==
  IF len < Len(value) + 3 THEN None ELSE <<op>> \o put_u16(handle) \o value

enc_notification(handle, value, len) == enc_whole(OP.HANDLE_NOTIFY, handle, value, len)
enc_indication(handle, value, len) == enc_whole(OP.HANDLE_IND, handle, value, len)

dec_indication(pdu, vlen) ==
  IF ~ Reads(pdu, OP.HANDLE_IND, 3) THEN Rejected
  ELSE [handle |-> get_u16(pdu, 1), value |-> Slice(pdu, 3, vlen)]

enc_confirmation(len) == enc_fixed(OP.HANDLE_CNF, <<>>, len)

enc_mtu_req(mtu, len) == enc_fixed(OP.MTU_REQ, put_u16(mtu), len)
enc_mtu_resp(mtu, len) == enc_fixed(OP.MTU_RESP, put_u16(mtu), len)

dec_mtu(pdu, op) == IF ~ Reads(pdu, op, 3) THEN Rejected ELSE [mtu |-> get_u16(pdu, 1)]
dec_mtu_req(pdu) == dec_mtu(pdu, OP.MTU_REQ)
dec_mtu_resp(pdu) == dec_mtu(pdu, OP.MTU_RESP)
=============================================================================
