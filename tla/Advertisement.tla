--------------------------- MODULE Advertisement ---------------------------
(***************************************************************************)
(* The advertising data parsers of src/advertisement.c and src/eir.c.      *)
(*                                                                         *)
(* A packet is the sequence of its AD structures, each a record with its   *)
(* type and its data bytes; the structure of length zero that ends the     *)
(* significant part has type "END".  Structures are complete: a length     *)
(* never reaches beyond the packet, and the one-byte and 16-byte fields    *)
(* get no more bytes than they have.  What a parser does with each         *)
(* structure is a step of its loop over the packet.                        *)
(***************************************************************************)
EXTENDS Bytes, SequencesExt

AdType == {"INVALID", "FLAGS", "UUID_128", "LOCAL_NAME", "TX_POWER",
           "MANUFACTURER_DATA", "UNKNOWN", "END"}

\* ANKI_SERVICE_UUID_LE
AnkiServiceUuid ==
  <<244, 141, 77, 156, 216, 11, 129, 131, 126, 64, 134, 97, 239, 190, 21, 190>>

\* anki_vehicle_adv_t after memset, the state in which a scanner starts it.
ZeroAdv ==
  [flags |-> 0, tx_power |-> 0,
   mfg_data |-> [identifier |-> 0, model_id |-> 0, product_id |-> 0],
   local_name |-> [full_battery |-> FALSE, low_battery |-> FALSE,
                   on_charger |-> FALSE, version |-> 0, name |-> <<>>],
   service_id |-> Zero(16)]

WellFormed(r) ==
  /\ r.type \in AdType /\ r.data \in Seq(Byte)
  /\ r.type \in {"FLAGS", "TX_POWER"} => Len(r.data) <= 1
  /\ r.type = "UUID_128" => Len(r.data) <= 16
  /\ r.type = "LOCAL_NAME" => Len(r.data) <= 8 + 12
-----------------------------------------------------------------------------
\* memmove(dst, data, data_len): only the bytes that were sent are replaced.
memmove(dst, data) ==
  [i \in DOMAIN dst |-> IF i \in DOMAIN data THEN data[i] ELSE dst[i]]

memmove1(dst, data) == IF data = <<>> THEN dst ELSE data[1]

is_anki_vehicle_service_uuid(uuid) == uuid = AnkiServiceUuid

\* Big-endian on the air.
anki_vehicle_parse_mfg_data(bytes, mfg_data) ==
  IF Len(bytes) # 8 THEN mfg_data
  ELSE [product_id |-> bytes[2] + 2^8 * bytes[1],
        model_id   |-> bytes[4],
        identifier |-> bytes[8] + 2^8 * bytes[7] + 2^16 * bytes[6]
                                + 2^24 * bytes[5]]

IS_VEHICLE_STATE_SET(state, bit) == (state \div 2^bit) % 2 = 1

\* Little-endian version; a short record updates only what it carries.
anki_vehicle_parse_local_name_KeepHigh(bytes, local_name) ==          \* mutant
  IF bytes = <<>> THEN local_name
  ELSE [full_battery |-> IS_VEHICLE_STATE_SET(bytes[1], 4),
        low_battery  |-> IS_VEHICLE_STATE_SET(bytes[1], 5),
        on_charger   |-> IS_VEHICLE_STATE_SET(bytes[1], 6),
        version |-> IF Len(bytes) > 2 THEN local_name.version + 2^8 * bytes[3]
                    ELSE local_name.version,
        name    |-> SubSeq(bytes, 9, Len(bytes))]
anki_vehicle_parse_local_name(bytes, local_name) ==
  IF bytes = <<>> THEN local_name
  ELSE [full_battery |-> IS_VEHICLE_STATE_SET(bytes[1], 4),
        low_battery  |-> IS_VEHICLE_STATE_SET(bytes[1], 5),
        on_charger   |-> IS_VEHICLE_STATE_SET(bytes[1], 6),
        version |-> IF Len(bytes) > 2 THEN bytes[2] + 2^8 * bytes[3]
                    ELSE IF Len(bytes) = 2 THEN bytes[2]
                    ELSE local_name.version,
        name    |-> IF Len(bytes) > 8 THEN SubSeq(bytes, 9, Len(bytes))
                    ELSE local_name.name]
-----------------------------------------------------------------------------
(***************************************************************************)
(* anki_vehicle_parse_adv_record.  ret is "next" while the loop runs,      *)
(* "break" when it was left, and else the code that was returned.  adv is  *)
(* NULL when the caller only asks whether this is an Anki record.          *)
(***************************************************************************)
NULL == [null |-> TRUE]

update(adv, r) ==
  IF adv = NULL THEN NULL
  ELSE CASE r.type = "FLAGS"    -> [adv EXCEPT !.flags = memmove1(@, r.data)]
         [] r.type = "UUID_128" -> [adv EXCEPT !.service_id = memmove(@, r.data)]
         [] r.type = "TX_POWER" -> [adv EXCEPT !.tx_power = memmove1(@, r.data)]
         [] r.type = "LOCAL_NAME" ->
              [adv EXCEPT !.local_name = anki_vehicle_parse_local_name(r.data, @)]
         [] r.type = "MANUFACTURER_DATA" ->
              [adv EXCEPT !.mfg_data = anki_vehicle_parse_mfg_data(r.data, @)]

foreign_uuid(r) ==
  r.type = "UUID_128" /\ Len(r.data) = 16 /\ ~ is_anki_vehicle_service_uuid(r.data)

parse_step(s, r) ==
  IF s.ret # "next" THEN s
  ELSE CASE r.type \in {"END", "INVALID"} -> [s EXCEPT !.ret = "break"]
         [] r.type = "UNKNOWN"            -> [s EXCEPT !.ret = "3"]
         [] foreign_uuid(r)               -> [s EXCEPT !.ret = "2"]
         [] r.type = "UUID_128" /\ ~ foreign_uuid(r) /\ s.adv = NULL ->
              [s EXCEPT !.ret = "0"]
         [] OTHER                         -> [s EXCEPT !.adv = update(@, r)]

\* The loop: its state behind each of the structures.
parse_states(pkt, adv0) ==
  LET s[i \in 0..Len(pkt)] == IF i = 0 THEN [adv |-> adv0, ret |-> "next"]
                              ELSE parse_step(s[i - 1], pkt[i])
  IN  s

anki_vehicle_parse_adv_record(pkt, adv0) ==
  LET s == parse_states(pkt, adv0)[Len(pkt)]
  IN  IF s.ret \notin {"next", "break"} THEN s
      ELSE [s EXCEPT !.ret =
              IF s.adv # NULL /\ is_anki_vehicle_service_uuid(s.adv.service_id)
              THEN "0" ELSE "2"]

anki_vehicle_adv_record_has_anki_uuid(pkt) ==
  anki_vehicle_parse_adv_record(pkt, NULL).ret = "0"

\* ble_adv_parse_scan: the AD structures before the end of the significant part.
ble_adv_parse_scan_IgnoreInvalid(pkt) ==                              \* mutant
  SelectSeq(pkt, LAMBDA r : r.type \notin {"END", "INVALID"})
ble_adv_parse_scan(pkt) ==
  LET ends == {i \in DOMAIN pkt : pkt[i].type \in {"END", "INVALID"}}
  IN  IF ends = {} THEN pkt
      ELSE SubSeq(pkt, 1, (CHOOSE i \in ends : \A j \in ends : i <= j) - 1)
-----------------------------------------------------------------------------
(***************************************************************************)
(* Reference.  What a scanner that has heard the packets of hist, numbered *)
(* in the order in which they came, should know: for every field the last  *)
(* structure that carries it, among the structures that count.             *)
(***************************************************************************)
stops(r) == r.type \in {"END", "INVALID", "UNKNOWN"} \/ foreign_uuid(r)

\* The structures of a packet before the first one that ends its parsing.
Effective(pkt) == {i \in DOMAIN pkt : \A j \in 1..i : ~ stops(pkt[j])}

\* Where a field is in hist, as <<packet, structure>>: a type, and how many
\* bytes are enough for it.
Carriers(hist, type, min, max) ==
  {x \in UNION {{i} \X Effective(hist[i]) : i \in DOMAIN hist} :
     LET r == hist[x[1]][x[2]] IN r.type = type /\ Len(r.data) \in min..max}

Before(x, y) == x[1] < y[1] \/ (x[1] = y[1] /\ x[2] < y[2])

\* The data of the last structure that carries the field, or the default.
Latest(hist, type, min, max, default) ==
  LET at == Carriers(hist, type, min, max)
      x  == CHOOSE x \in at : \A y \in at : ~ Before(x, y)
  IN  IF at = {} THEN default ELSE hist[x[1]][x[2]].data

\* The record that these data make.
AdvOf(flags, tx, uuid, mfg, st, vers, name) ==
  [flags |-> flags[1], tx_power |-> tx[1], service_id |-> uuid,
   mfg_data |-> [identifier |-> ((mfg[5] * 256 + mfg[6]) * 256 + mfg[7]) * 256 + mfg[8],
                 model_id |-> mfg[4], product_id |-> mfg[1] * 256 + mfg[2]],
   local_name |-> [full_battery |-> st[1] % 32 >= 16,
                   low_battery |-> st[1] % 64 >= 32,
                   on_charger |-> st[1] % 128 >= 64,
                   version |-> IF Len(vers) = 2 THEN vers[2]
                               ELSE vers[3] * 256 + vers[2],
                   name |-> SubSeq(name, 9, Len(name))]]

\* Of a history without UUIDs of a wrong length.
KnownFrom(hist) ==
  AdvOf(Latest(hist, "FLAGS", 1, 1, <<0>>), Latest(hist, "TX_POWER", 1, 1, <<0>>),
        Latest(hist, "UUID_128", 16, 16, Zero(16)),
        Latest(hist, "MANUFACTURER_DATA", 8, 8, Zero(8)),
        Latest(hist, "LOCAL_NAME", 1, 20, <<0>>),
        Latest(hist, "LOCAL_NAME", 2, 20, Zero(3)),
        Latest(hist, "LOCAL_NAME", 9, 20, <<>>))

\* All UUIDs of a packet have their 16 bytes.
FullUuids(pkt) == \A i \in DOMAIN pkt : pkt[i].type = "UUID_128" => Len(pkt[i].data) = 16
=============================================================================
