------------------------------- MODULE MCGatt -------------------------------
(***************************************************************************)
(* A server whose services, includes and characteristics have UUIDs of     *)
(* both sizes, so that its answers come in several pages, whose last       *)
(* service, with an include and a characteristic in it, ends at the last   *)
(* handle, and with values around the sizes of one and two responses.      *)
(***************************************************************************)
EXTENDS Gatt, TLC

S(start, end, uuid, ulen) == [start |-> start, end |-> end, uuid |-> uuid, ulen |-> ulen]
I(handle, start, end, uuid, ulen) ==
  [handle |-> handle, start |-> start, end |-> end, uuid |-> uuid, ulen |-> ulen]
C(handle, uuid, ulen) ==
  [handle |-> handle, value_handle |-> handle + 1, uuid |-> uuid, ulen |-> ulen]

\* A value of n bytes that tells who wrote it and where each byte belongs.
V(w, n) == [i \in 1..n |-> 100 * w + i]

MCPrimaries == <<S(1, 3, "gap", 2), S(4, 4, "anki", 16), S(5, 20, "anki", 16),
                 S(21, 65535, "gatt", 2)>>
MCIncludes == <<I(6, 40, 45, "batt", 16), I(7, 50, 52, "info", 16), I(8, 60, 61, "temp", 2),
                I(65535, 70, 71, "temp", 2)>>
MCChars == <<C(9, "read", 16), C(11, "write", 2), C(14, "read", 2), C(65533, "read", 2)>>
MCValues == 22 :> V(0, 44) @@ 23 :> V(0, 22) @@ 24 :> V(0, 3)

MCCalls ==
  {[kind |-> "primary", uuid |-> u] : u \in {NullUuid, "anki", "none"}}
  \cup {[kind |-> "included", start |-> 5, end |-> e] : e \in {7, 20}}
  \cup {[kind |-> "chars", start |-> 5, end |-> 20, uuid |-> u] : u \in {NullUuid, "write"}}
  \cup {[kind |-> "chars", start |-> 5, end |-> e, uuid |-> NullUuid] : e \in {11, 14}}
  \cup {[kind |-> "included", start |-> 21, end |-> 65535],
        [kind |-> "chars", start |-> 21, end |-> 65535, uuid |-> NullUuid]}
  \cup {[kind |-> "read", handle |-> h] : h \in DOMAIN MCValues}
  \cup {[kind |-> "write", handle |-> 22, value |-> V(1, 40)],
        [kind |-> "write", handle |-> 24, value |-> V(2, 37)],
        [kind |-> "write", handle |-> 22, value |-> V(3, 20)],
        [kind |-> "write_cmd", handle |-> 24, value |-> V(4, 25)],
        [kind |-> "mtu", mtu |-> 40], [kind |-> "desc"], [kind |-> "by_uuid"]}
=============================================================================
