--------------------------- MODULE MCVehicleScan ---------------------------
(***************************************************************************)
(* Two vehicles with the packets of test/adv_data.h (the second one with   *)
(* values of its own and a state change that alters its LOCAL_NAME) and a  *)
(* device that is not a vehicle, whose packets are those of the SensorTag  *)
(* and one with a foreign service.                                         *)
(***************************************************************************)
EXTENDS VehicleScan

CONSTANTS v1, v2, tag

AD(type, data) == [type |-> type, data |-> data]

Flags(f) == AD("FLAGS", <<f>>)
Uuid == AD("UUID_128", AnkiServiceUuid)
Mfg(model, id) == AD("MANUFACTURER_DATA", <<190, 239, 0, model, 0, 224, 10, id>>)
Name(state, lo, hi, c) ==
  AD("LOCAL_NAME", <<state, lo, hi, 1, 32, 32, 90, 57, c, c>>)

MCAddr == {v1, v2, tag}

MCBroadcasts ==
  v1 :> {<<Flags(6), Uuid, Mfg(1, 163)>>,
         <<Name(80, 32, 33, 65), AD("TX_POWER", <<0>>)>>} @@
  v2 :> {<<Flags(6), Uuid, Mfg(2, 7), AD("END", <<>>)>>,
         <<Name(16, 0, 1, 66)>>,
         <<AD("LOCAL_NAME", <<32, 5>>), AD("INVALID", <<>>), Flags(1)>>} @@
  tag :> {<<Flags(5)>>,
          <<AD("LOCAL_NAME", <<83, 101, 110, 115>>), AD("UNKNOWN", <<80, 0>>),
            AD("TX_POWER", <<0>>)>>,
          <<AD("UUID_128", Zero(16)), Mfg(3, 9), Name(80, 1, 1, 67)>>,
          <<Mfg(3, 9), Name(80, 1, 1, 67)>>}
=============================================================================
