---------------------------- MODULE ParsePackets ----------------------------
(***************************************************************************)
(* The parsers of Advertisement on every packet of at most MaxRecords AD   *)
(* structures, each of them one of Records, parsed from a cleared          *)
(* anki_vehicle_adv_t.                                                     *)
(***************************************************************************)
EXTENDS Advertisement

CONSTANTS Records, MaxRecords

ASSUME RecordsAssumption ==
  \A r \in Records : r \in [type : AdType, data : Seq(Byte)] /\ WellFormed(r)

VARIABLE packet

Empty == packet = <<>>
Extend == Len(packet) < MaxRecords /\ \E r \in Records : packet' = Append(packet, r)
Packets == Empty /\ [][Extend]_packet
-----------------------------------------------------------------------------
AD(type, data) == [type |-> type, data |-> data]

\* The significant part has the Anki service.
HasService(pkt) ==
  \E i \in DOMAIN ble_adv_parse_scan(pkt) :
    ble_adv_parse_scan(pkt)[i] = AD("UUID_128", AnkiServiceUuid)

\* The loop of anki_vehicle_parse_adv_record computes the reference: each
\* field from the last structure that carries it, nothing after the structure
\* that stops it, and 0 exactly when the Anki service is known and neither a
\* foreign service nor an unknown structure was met.  Asked for the Anki
\* service only, it never claims one that is not there.
ParsesAsReference ==
  FullUuids(packet) =>
    LET p == anki_vehicle_parse_adv_record(packet, ZeroAdv)
    IN  /\ p.adv = KnownFrom(<<packet>>)
        /\ p.ret = "0" <=> /\ Effective(packet) = DOMAIN ble_adv_parse_scan(packet)
                          /\ HasService(packet)
        /\ anki_vehicle_adv_record_has_anki_uuid(packet) => HasService(packet)

\* "Test whether the scan record contains an Anki Drive vehicle service UUID":
\* the test succeeds if it does.
ContainsAnkiUuid ==
  FullUuids(packet) /\ HasService(packet) => anki_vehicle_adv_record_has_anki_uuid(packet)

\* The two parsers of the library agree on the end of the significant part:
\* what ble_adv_parse_scan drops never influences the vehicle parser.
TrailingIgnored ==
  \A adv \in {ZeroAdv, NULL} :
    anki_vehicle_parse_adv_record(packet, adv)
      = anki_vehicle_parse_adv_record(ble_adv_parse_scan(packet), adv)
=============================================================================
