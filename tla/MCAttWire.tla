------------------------------ MODULE MCAttWire ------------------------------
(***************************************************************************)
(* Values around the limits of the PDUs at the default MTU, and arguments  *)
(* at the limits of their types.                                           *)
(***************************************************************************)
EXTENDS AttWire

MCUuids == {<<0, 40>>, <<1, 2, 3, 4>>, [i \in 1..16 |-> 16 * i - 1]}

MCValues == {[i \in 1..n |-> i + 7] : n \in {0, 1, 16, 18, 19, 20, 21, 22, 23, 40}}

\* n elements of len bytes.
L(n, len) ==
  att_data_list_alloc([i \in 1..n |-> [j \in 1..len |-> (20 * i + j) % 256]], len)

MCLists == {L(n, len) : n \in {1, 2, 4}, len \in {4, 6, 7, 18, 20, 21}}
           \cup {L(1, 22), L(2, 40), L(1, 300)}

Lights(channel, effect, start, end, cycles) ==
  [cmd |-> "set-lights-pattern", channel |-> channel, effect |-> effect,
   start |-> start, end |-> end, cycles |-> cycles]

MCCommands ==
  {[cmd |-> c] : c \in {"vehicle-disconnect", "ping", "get-version",
                        "cancel_lane_change", "turn_180"}}
  \cup {[cmd |-> "sdk-mode", on |-> 1], [cmd |-> "set_lights", mask |-> 255]}
  \cup {[cmd |-> "set-speed", speed |-> s] : s \in {-32768, -1, 0, 1000}}
  \cup {[cmd |-> "set-speed", speed |-> 32767, accel |-> -300]}
  \cup {[cmd |-> "change-lane", speed |-> 300],
        [cmd |-> "change-lane", speed |-> -1],
        [cmd |-> "change-lane", speed |-> 250, offset |-> <<0, 0, 136, 194>>]}
  \cup {Lights("FRONTR", "FADE", 0, 14, 65535), Lights("TAIL", "RANDOM", 255, 1, 256)}
  \cup {[cmd |-> "set-engine-lights", red |-> 10, green |-> 5, blue |-> 1, effect |-> e,
         cycles |-> 400] : e \in {"STEADY", "THROB"}}

MCStack == {[i \in 1..20 |-> 165]}
=============================================================================
