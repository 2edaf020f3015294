----------------------------- MODULE MCGAttrib -----------------------------
(* Model values for the runs of GAttrib. *)
EXTENDS GAttrib

Indication == [op |-> "HANDLE_IND", handle |-> "h1"]
OnIndication == [expected |-> "HANDLE_IND", handle |-> "ALL_HANDLES"]

OneEvent == {OnIndication}
MCPushes == {Indication}
NoPushes == {}
NoEvents == {}
=============================================================================
