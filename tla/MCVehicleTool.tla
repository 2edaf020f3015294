--------------------------- MODULE MCVehicleTool ---------------------------
(***************************************************************************)
(* Two vehicles whose characteristics have different handles, so that a    *)
(* stale handle shows.                                                     *)
(***************************************************************************)
EXTENDS VehicleTool, TLC

CONSTANTS car1, car2

C(uuid, h, p) ==
  [uuid |-> uuid, handle |-> h, value_handle |-> h + 1, properties |-> p]

MCDev == {car1, car2}
MCProfile == car1 :> <<C("READ", 8, 18), C("WRITE", 11, 12)>> @@
             car2 :> <<C("OTHER", 3, 2), C("READ", 20, 18), C("WRITE", 24, 12)>>
=============================================================================
