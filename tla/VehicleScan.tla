---------------------------- MODULE VehicleScan ----------------------------
(***************************************************************************)
(* examples/vehicle-scan/vehicle-scan.c: cmd_lescan switches the LE scan   *)
(* of the controller on, print_advertising_devices reads its reports until *)
(* it is told to stop, and the scan is switched off again.  Each report is *)
(* parsed into the table entry of its address; a vehicle is displayed once *)
(* its manufacturer data and its version are known.                        *)
(*                                                                         *)
(* The entry is allocated with malloc and only its adv part is cleared:    *)
(* scan_complete starts with what the heap held, a member of Heap.         *)
(***************************************************************************)
EXTENDS Advertisement, FiniteSets, FiniteSetsExt

CONSTANTS
  Addr,         \* addresses of the devices in range
  Broadcasts,   \* Broadcasts[a]: the packets that address a sends
  FilterTypes,  \* the --discovery options in use: "none", "g", "l"
  Heap,         \* what an uninitialised scan_complete may hold
  MaxReports    \* bound on the reports the scanner reads

ASSUME ScanAssumption ==
  /\ FilterTypes \subseteq {"none", "g", "l"}
  /\ Heap \subseteq BOOLEAN /\ Heap # {}
  /\ MaxReports \in Nat
  /\ \A a \in Addr, p \in UNION {Broadcasts[b] : b \in Addr} :
       /\ Broadcasts[a] # {}
       /\ p \in Seq([type : AdType, data : Seq(Byte)])
       /\ \A i \in DOMAIN p : /\ WellFormed(p[i])
                              /\ p[i].type = "FLAGS" => p[i].data # <<>>

VARIABLES
  filter_type,      \* the --discovery option of this run of the program
  pc,               \* where cmd_lescan is
  enabled,          \* the controller is scanning
  own_filter,       \* the HCI filter of the scan is installed on the socket
  signal_received,  \* SIGINT was delivered
  vehicles,         \* the hash table: address to [adv, scan_complete]
  shown,            \* the lines printed: a sequence of [addr, adv]
  heard,            \* history: heard[a], the reports of address a that were read
  failed            \* the calls that failed; "read" is len < 0 behind the loop

vars == <<filter_type, pc, enabled, own_filter, signal_received, vehicles, shown,
          heard, failed>>
table == <<filter_type, vehicles, shown, heard>>
-----------------------------------------------------------------------------
(***************************************************************************)
(* The discovery filter.  read_flags stops at the end of the significant   *)
(* part, but not at a structure of type INVALID.                           *)
(***************************************************************************)
FLAGS_LIMITED_MODE_BIT(flags) == flags % 2 = 1
FLAGS_GENERAL_MODE_BIT(flags) == (flags \div 2) % 2 = 1

\* The flags of the first flags structure before the end, if there is one.
read_flags(pkt) ==
  LET at == {i \in DOMAIN pkt : pkt[i].type = "FLAGS" /\ \A j \in 1..i : pkt[j].type # "END"}
  IN  {pkt[i].data[1] : i \in {k \in at : \A j \in at : k <= j}}

check_report_filter(procedure, pkt) ==
  \/ procedure = "none"
  \/ \E flags \in read_flags(pkt) :
       \/ FLAGS_LIMITED_MODE_BIT(flags)
       \/ procedure = "g" /\ FLAGS_GENERAL_MODE_BIT(flags)
-----------------------------------------------------------------------------
Init ==
  /\ filter_type \in FilterTypes
  /\ pc = "set_parameters" /\ enabled = FALSE /\ own_filter = FALSE
  /\ signal_received = FALSE
  /\ vehicles = <<>> /\ shown = <<>>
  /\ heard = [a \in Addr |-> <<>>] /\ failed = {}

\* Records how a call ended.
Called(call, ok) == failed' = IF ok THEN failed ELSE failed \cup {call}

\* A request that is reported as failed may still have reached the controller:
\* only its answer was late.
Switched(on, ok) == enabled' \in IF ok THEN {on} ELSE BOOLEAN

\* hci_le_set_scan_parameters, hci_le_set_scan_enable(1), then the socket
\* filter; each may fail.  A failure of the filter ends in exit(1) as well.
SetParameters(ok) ==
  /\ pc = "set_parameters"
  /\ pc' = IF ok THEN "enable" ELSE "exit 1"
  /\ Called("set_parameters", ok)
  /\ UNCHANGED <<enabled, own_filter, signal_received, table>>

EnableScan(ok) ==
  /\ pc = "enable"
  /\ pc' = IF ok THEN "set_filter" ELSE "exit 1"
  /\ Switched(TRUE, ok) /\ Called("enable", ok)
  /\ UNCHANGED <<own_filter, signal_received, table>>

SetFilter(ok) ==
  /\ pc = "set_filter"
  /\ pc' = IF ok THEN "read" ELSE "exit 1"
  /\ own_filter' = ok /\ Called("set_filter", ok)
  /\ UNCHANGED <<enabled, signal_received, table>>

\* HASH_FIND, and for an unknown address malloc, memset of adv and HASH_ADD.
find_or_add_SharedEntry(a) ==                                         \* mutant
  {IF vehicles # <<>> THEN vehicles[CHOOSE b \in DOMAIN vehicles : TRUE]
   ELSE [adv |-> ZeroAdv, scan_complete |-> FALSE]}
find_or_add(a) ==
  IF a \in DOMAIN vehicles THEN {vehicles[a]}
  ELSE {[adv |-> ZeroAdv, scan_complete |-> g] : g \in Heap}

ready_BeforeParse(v, p) ==                                            \* mutant
  /\ p.ret = "0" /\ v.adv.mfg_data.identifier > 0
  /\ v.adv.local_name.version > 0 /\ ~ v.scan_complete
ready_AnyService(v, p) ==                                             \* mutant
  p.adv.mfg_data.identifier > 0 /\ p.adv.local_name.version > 0 /\ ~ v.scan_complete
ready(v, p) ==
  /\ p.ret = "0"
  /\ p.adv.mfg_data.identifier > 0
  /\ p.adv.local_name.version > 0
  /\ ~ v.scan_complete

\* One report is read.  The filter may drop it; else it is parsed into the
\* entry of its address, which may complete it.
Report(a, pkt) ==
  /\ pc = "read"
  /\ MapThenSumSet(LAMBDA b : Len(heard[b]), Addr) < MaxReports
  /\ heard' = [heard EXCEPT ![a] = Append(@, pkt)]
  /\ IF check_report_filter(filter_type, pkt)
     THEN \E v \in find_or_add(a) :
            LET p == anki_vehicle_parse_adv_record(pkt, v.adv)
                w == [adv |-> p.adv,
                      scan_complete |-> v.scan_complete \/ ready(v, p)]
            IN  /\ vehicles' = [b \in DOMAIN vehicles \cup {a} |->
                                  IF b = a THEN w ELSE vehicles[b]]
                /\ shown' = IF ready(v, p)
                            THEN Append(shown, [addr |-> a, adv |-> p.adv])
                            ELSE shown
     ELSE UNCHANGED <<vehicles, shown>>
  /\ UNCHANGED <<filter_type, pc, enabled, own_filter, signal_received, failed>>

\* SIGINT is delivered: inside read() it interrupts it; elsewhere in the loop
\* it only sets signal_received, which is looked at when a read is interrupted.
Sigint(inRead) ==
  /\ pc = "read" /\ ~ signal_received
  /\ signal_received' = TRUE
  /\ pc' = IF inRead THEN "restore" ELSE "read"
  /\ UNCHANGED <<enabled, own_filter, table, failed>>

\* Another signal interrupts read(): the loop goes on unless a SIGINT has been
\* delivered before.
ReadInterrupted ==
  /\ pc = "read" /\ signal_received
  /\ pc' = "restore"
  /\ UNCHANGED <<enabled, own_filter, signal_received, table, failed>>

\* Any LE meta event other than an advertising report ends the scan.
OtherMetaEvent ==
  /\ pc = "read"
  /\ pc' = "restore"
  /\ UNCHANGED <<enabled, own_filter, signal_received, table, failed>>

\* read() fails for good: the filter is restored, then perror and exit(1).
ReadError ==
  /\ pc = "read"
  /\ pc' = "restore" /\ Called("read", FALSE)
  /\ UNCHANGED <<enabled, own_filter, signal_received, table>>

\* The label done: the result of setsockopt is not looked at; what is
\* returned is whether the read failed.
RestoreFilter_Skipped(ok) ==                                          \* mutant
  /\ pc = "restore"
  /\ pc' = IF "read" \in failed THEN "exit 1" ELSE "disable"
  /\ UNCHANGED <<enabled, own_filter, signal_received, table, failed>>
RestoreFilter(ok) ==
  /\ pc = "restore"
  /\ pc' = IF "read" \in failed THEN "exit 1" ELSE "disable"
  /\ own_filter' = ~ ok /\ Called("restore", ok)
  /\ UNCHANGED <<enabled, signal_received, table>>

DisableScan(ok) ==
  /\ pc = "disable"
  /\ pc' = IF ok THEN "exit 0" ELSE "exit 1"
  /\ Switched(FALSE, ok) /\ Called("disable", ok)
  /\ UNCHANGED <<own_filter, signal_received, table>>

Step(ok) ==
  \/ SetParameters(ok) \/ EnableScan(ok) \/ SetFilter(ok)
  \/ RestoreFilter(ok) \/ DisableScan(ok)

Next ==
  \/ \E ok \in BOOLEAN : Step(ok)
  \/ \E a \in Addr : \E pkt \in Broadcasts[a] : Report(a, pkt)
  \/ \E inRead \in BOOLEAN : Sigint(inRead)
  \/ ReadInterrupted \/ OtherMetaEvent \/ ReadError

Spec == Init /\ [][Next]_vars
-----------------------------------------------------------------------------
Full(pkts) == \A i \in DOMAIN pkts : FullUuids(pkts[i])

\* The reports of an address that passed the filter, with their numbers.
accepted(a) ==
  Restrict(heard[a], {i \in DOMAIN heard[a] : check_report_filter(filter_type, heard[a][i])})

\* The entry of an address holds, field by field, the latest that this
\* address broadcast, in whatever order its advertisements and scan responses
\* came in between those of other devices: "Parsed scan data will overwrite
\* matching record data in the struct".
AccumulatedIsLatest ==
  \A a \in DOMAIN vehicles :
    Full(accepted(a)) => vehicles[a].adv = KnownFrom(accepted(a))

Sent(a, type, min) ==
  \E p \in ToSet(heard[a]) : \E i \in DOMAIN p :
    p[i].type = type /\ Len(p[i].data) >= min

\* Only a device that advertised the Anki service itself, its manufacturer
\* data and a version is listed, and once: nothing of another address
\* completes it.  With --discovery=l even the table has only devices that said
\* so in a flags structure of their own.
OnlyVehicles ==
  /\ \A i \in DOMAIN shown :
       LET a == shown[i].addr
       IN  /\ is_anki_vehicle_service_uuid(shown[i].adv.service_id)
           /\ Sent(a, "UUID_128", 16) /\ Sent(a, "MANUFACTURER_DATA", 8)
           /\ Sent(a, "LOCAL_NAME", 2)
           /\ \A j \in DOMAIN shown : shown[j].addr = a => i = j
  /\ filter_type = "l" =>
       \A a \in DOMAIN vehicles : \E p \in ToSet(heard[a]) : \E i \in DOMAIN p :
         p[i].type = "FLAGS" /\ p[i].data[1] % 2 = 1

\* What a completely heard vehicle has sent: a packet with the Anki service
\* and an identifier, and one with a version.
Advertised(p) ==
  /\ anki_vehicle_parse_adv_record(p, ZeroAdv).ret = "0"
  /\ anki_vehicle_parse_adv_record(p, ZeroAdv).adv.mfg_data.identifier > 0
Responded(p) ==
  LET r == anki_vehicle_parse_adv_record(p, ZeroAdv)
  IN  r.adv.local_name.version > 0 /\ r.ret # "3"
Benign(p) == Responded(p) \/ Advertised(p)

\* "scan for Anki Drive vehicles ... and display information advertised by
\* vehicles": a vehicle whose advertisement and scan response were read, in
\* either order, has been displayed.  Without --discovery only: the scan
\* response of a vehicle carries no flags, so a filter drops it.
CompleteIsShown ==
  filter_type = "none" => \A a \in Addr :
    /\ \A p \in ToSet(heard[a]) : Benign(p)
    /\ \E p \in ToSet(heard[a]) : Advertised(p)
    /\ \E p \in ToSet(heard[a]) : Responded(p)
    => \E i \in DOMAIN shown : shown[i].addr = a

\* What the program leaves behind when it exits, whichever calls failed and
\* whatever ended the loop.  The scan is on only if one of its failures says
\* so, and it is on for certain after a failed filter or a failed read, which
\* exit without switching it off; the own filter stays only if restoring it
\* failed, which no exit status tells; every other failure is reported.
Exited == pc \in {"exit 0", "exit 1"}
CleanExit ==
  Exited =>
    /\ enabled => failed \cap {"enable", "set_filter", "read", "disable"} # {}
    /\ failed \cap {"set_filter", "read"} # {} => enabled
    /\ own_filter <=> "restore" \in failed
    /\ pc = "exit 0" <=> failed \subseteq {"restore"}
=============================================================================
