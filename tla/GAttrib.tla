------------------------------ MODULE GAttrib ------------------------------
(***************************************************************************)
(* The ATT bearer of examples/vehicle-tool/gattrib.c: one GAttrib object   *)
(* on an L2CAP socket, driven by the GLib main loop.                       *)
(*                                                                         *)
(* The object is the record variable attrib, with the fields of struct     *)
(* _GAttrib; the static functions of gattrib.c are operators from such a   *)
(* record to the next one, and the actions are the entry points: calls by  *)
(* the application and dispatches of the three GLib sources (write watch,  *)
(* read watch, timeout).  A result callback that sends again runs inside   *)
(* the action that calls it, as it does in the code.  A definition marked  *)
(* "mutant" is a plausible slip in the code of the one that follows it; it *)
(* is not used by the specification.                                       *)
(***************************************************************************)
EXTENDS Integers, Sequences, FiniteSets, SequencesExt

CONSTANTS
  AppOps,       \* opcodes the application and the GATT procedures send
  Events,       \* the registrations it may make: [expected, handle] records
  Pushes,       \* notifications and indications of the peer: [op, handle]
  StrayOps,     \* response opcodes a misbehaving peer sends unasked ({}: polite)
  IOErrors,     \* whether reads and writes on an open channel may fail
  MaxCmds,      \* bound on the command identifiers handed out
  MaxParts,     \* bound on the Read Blob requests one long read takes
  MaxRx         \* bound on the PDUs waiting in the socket

VARIABLES
  attrib,       \* struct _GAttrib; freed when refs = 0
  io,           \* the channel: "open", "hup" (peer gone), "closed" (shut down)
  inbox,        \* tags of the requests the peer has not answered yet
  rx,           \* PDUs in the socket that received_data has not read yet
  app,          \* the application still owns its reference
  leaked,       \* history: references whose owner can no longer drop them
  cancelled,    \* history: identifiers cancelled while they were queued
  wfail,        \* history: a write has failed
  last          \* history: the callbacks run by the last step

vars == <<attrib, io, inbox, rx, app, leaked, cancelled, wfail, last>>
-----------------------------------------------------------------------------
(***************************************************************************)
(* Opcodes.  "NONE" is the 0 that opcode2expected returns for an opcode    *)
(* that awaits no answer.                                                  *)
(***************************************************************************)
Expected ==
  [MTU_REQ           |-> "MTU_RESP",
   FIND_INFO_REQ     |-> "FIND_INFO_RESP",
   FIND_BY_TYPE_REQ  |-> "FIND_BY_TYPE_RESP",
   READ_BY_TYPE_REQ  |-> "READ_BY_TYPE_RESP",
   READ_REQ          |-> "READ_RESP",
   READ_BLOB_REQ     |-> "READ_BLOB_RESP",
   READ_MULTI_REQ    |-> "READ_MULTI_RESP",
   READ_BY_GROUP_REQ |-> "READ_BY_GROUP_RESP",
   WRITE_REQ         |-> "WRITE_RESP",
   PREP_WRITE_REQ    |-> "PREP_WRITE_RESP",
   EXEC_WRITE_REQ    |-> "EXEC_WRITE_RESP",
   HANDLE_IND        |-> "HANDLE_CNF"]

opcode2expected(op) == IF op \in DOMAIN Expected THEN Expected[op] ELSE "NONE"

is_response(op) ==
  op \in {"ERROR", "MTU_RESP", "FIND_INFO_RESP", "FIND_BY_TYPE_RESP",
          "READ_BY_TYPE_RESP", "READ_RESP", "READ_BLOB_RESP",
          "READ_MULTI_RESP", "READ_BY_GROUP_RESP", "WRITE_RESP",
          "PREP_WRITE_RESP", "EXEC_WRITE_RESP", "HANDLE_CNF"}

Opcode ==
  {"ERROR", "MTU_REQ", "MTU_RESP", "FIND_INFO_REQ", "FIND_INFO_RESP",
   "FIND_BY_TYPE_REQ", "FIND_BY_TYPE_RESP", "READ_BY_TYPE_REQ",
   "READ_BY_TYPE_RESP", "READ_REQ", "READ_RESP", "READ_BLOB_REQ",
   "READ_BLOB_RESP", "READ_MULTI_REQ", "READ_MULTI_RESP", "READ_BY_GROUP_REQ",
   "READ_BY_GROUP_RESP", "WRITE_REQ", "WRITE_RESP", "WRITE_CMD",
   "PREP_WRITE_REQ", "PREP_WRITE_RESP", "EXEC_WRITE_REQ", "EXEC_WRITE_RESP",
   "HANDLE_NOTIFY", "HANDLE_IND", "HANDLE_CNF", "SIGNED_WRITE_CMD"}

(***************************************************************************)
(* A command: sent and func (a callback is set) as in struct command; part *)
(* counts the Read Blob requests of a long read, which reuse its id; hold  *)
(* says that the callback owns a reference to the bearer and drops it when *)
(* its procedure ends, as those of the gatt_discover_ functions do.  No    *)
(* command has a notify function: find_included is the one procedure that  *)
(* gives it one, nothing calls gatt_find_included, and its references are  *)
(* the subject of Gatt.                                                    *)
(***************************************************************************)
Command == [id : Nat \ {0}, part : Nat, opcode : Opcode, sent : BOOLEAN,
            func : BOOLEAN, hold : BOOLEAN]

WatchId == {"armed", "none", "dangling"}

GAttribRecord ==
  [refs : Nat, requests : Seq(Command), responses : Seq(Command),
   events : SUBSET Events, read_watch : WatchId, write_watch : BOOLEAN,
   timeout_watch : WatchId, next_cmd_id : Nat, stale : BOOLEAN]

TagRecord == [id : Nat, part : Nat, op : Opcode]
Tag(c) == [id |-> c.id, part |-> c.part, op |-> c.opcode]
NoTag  == [id |-> 0, part |-> 0, op |-> "NONE"]  \* of a PDU that answers no request
NoCall == [called |-> {}, rsp |-> NoTag]

\* Which registered handlers a PDU is passed to.
match_event(e, pdu) ==
  \/ e.expected = "ALL_EVENTS"
  \/ e.expected = "ALL_REQS" /\ ~ is_response(pdu.op)
  \/ e.expected = pdu.op /\ e.handle \in {"ALL_HANDLES", pdu.handle}

\* Each PDU has one handler at most, so an indication is confirmed once at
\* most; of what gatt.c sends only a write command has no answer.
ASSUME ConstantsAssumption ==
  /\ \A op \in AppOps : op \in Opcode /\ ~ is_response(op)
  /\ \A op \in AppOps : opcode2expected(op) = "NONE" => op = "WRITE_CMD"
  /\ \A p \in Pushes : p.op \in Opcode /\ ~ is_response(p.op)
  /\ \A p \in Pushes : \A e, f \in Events :
       match_event(e, p) /\ match_event(f, p) => e = f
  /\ \A op \in StrayOps : op \in Opcode /\ is_response(op)
  /\ IOErrors \in BOOLEAN
  /\ MaxCmds \in Nat /\ MaxParts \in Nat /\ MaxRx \in Nat
-----------------------------------------------------------------------------
(***************************************************************************)
(* References.                                                             *)
(***************************************************************************)
g_attrib_ref(a) == [a EXCEPT !.refs = @ + 1]

attrib_destroy(a) ==
  [a EXCEPT !.refs = 0, !.requests = <<>>, !.responses = <<>>, !.events = {},
            !.timeout_watch = "none", !.write_watch = FALSE,
            !.read_watch = "none"]

g_attrib_unref(a) ==
  IF a.refs > 1 THEN [a EXCEPT !.refs = @ - 1] ELSE attrib_destroy(a)

(***************************************************************************)
(* The write watch owns a reference: taken when it is added, dropped by    *)
(* its destroy notification.                                               *)
(***************************************************************************)
wake_up_sender_NoRef(a) == [a EXCEPT !.write_watch = TRUE]            \* mutant
wake_up_sender(a) ==
  IF a.write_watch THEN a
  ELSE [g_attrib_ref(a) EXCEPT !.write_watch = TRUE]

destroy_sender(a) == g_attrib_unref([a EXCEPT !.write_watch = FALSE])

(***************************************************************************)
(* g_attrib_send.  A nonzero id asks for the head of the request queue;    *)
(* responses have a queue of their own and are never reordered.            *)
(***************************************************************************)
new_id_PostIncrement(a, id) == IF id # 0 THEN id ELSE a.next_cmd_id  \* mutant
new_id_FromLength(a, id) ==                                          \* mutant
  IF id # 0 THEN id ELSE Len(a.requests) + Len(a.responses) + 1
new_id(a, id) == IF id # 0 THEN id ELSE a.next_cmd_id + 1

enqueue_AlwaysHead(q, c, atHead) == <<c>> \o q                       \* mutant
enqueue_AlwaysTail(q, c, atHead) == Append(q, c)                     \* mutant
enqueue(q, c, atHead) == IF atHead THEN <<c>> \o q ELSE Append(q, c)

g_attrib_send(a, id, part, op, func, hold) ==
  LET c == [id |-> new_id(a, id), part |-> part, opcode |-> op,
            sent |-> FALSE, func |-> func, hold |-> hold]
      q == IF is_response(op) THEN Append(a.responses, c)
                              ELSE enqueue(a.requests, c, id # 0)
      b == [a EXCEPT !.next_cmd_id = IF id # 0 THEN @ ELSE @ + 1,
                     !.responses = IF is_response(op) THEN q ELSE @,
                     !.requests = IF is_response(op) THEN @ ELSE q]
  IN  IF a.stale THEN a
      ELSE IF Len(q) = 1 THEN wake_up_sender(b) ELSE b

(***************************************************************************)
(* What a result callback does before it returns: nothing; continue its    *)
(* long read at the head of the queue with its own id; or send one more    *)
(* request or command through the functions of gatt.c.                     *)
(***************************************************************************)
Quiet == [kind |-> "quiet"]

Reactions(c, ok) ==
  {Quiet}
  \cup (IF c.func /\ ok /\ c.opcode \in {"READ_REQ", "READ_BLOB_REQ"}
           /\ c.part < MaxParts
        THEN {[kind |-> "continue"]} ELSE {})
  \cup (IF c.func /\ attrib.next_cmd_id < MaxCmds
        THEN [kind : {"send"}, op : AppOps] ELSE {})

\* The discovery procedures of gatt.c take a reference before they send.
Discovers(op) ==
  op \in {"FIND_BY_TYPE_REQ", "READ_BY_GROUP_REQ", "READ_BY_TYPE_REQ"}

gatt_send(a, op) ==
  LET b == IF Discovers(op) THEN g_attrib_ref(a) ELSE a
  IN  g_attrib_send(b, 0, 0, op, op # "WRITE_CMD", Discovers(op))

run_callback(a, c, r) ==
  LET b == CASE r.kind = "quiet"    -> a
             [] r.kind = "continue" -> g_attrib_send(a, c.id, c.part + 1,
                                            "READ_BLOB_REQ", TRUE, FALSE)
             [] r.kind = "send"     -> gatt_send(a, r.op)
  IN  IF c.func /\ c.hold THEN g_attrib_unref(b) ELSE b
-----------------------------------------------------------------------------
(***************************************************************************)
(* g_attrib_new, and the states reached from it.                           *)
(***************************************************************************)
Alive == attrib.refs > 0

Init ==
  /\ attrib = [refs |-> 1, requests |-> <<>>, responses |-> <<>>,
               events |-> {}, read_watch |-> "armed", write_watch |-> FALSE,
               timeout_watch |-> "none", next_cmd_id |-> 0, stale |-> FALSE]
  /\ io = "open" /\ inbox = <<>> /\ rx = <<>>
  /\ app = TRUE /\ leaked = 0 /\ cancelled = {} /\ wfail = FALSE
  /\ last = NoCall

ghosts == <<app, leaked, cancelled, wfail>>
link   == <<io, inbox, rx>>
-----------------------------------------------------------------------------
(***************************************************************************)
(* Calls of the application, which owns a reference while it makes them.   *)
(***************************************************************************)
\* gatt_*(): take the procedure's reference, then g_attrib_send.  A stale
\* bearer refuses, and the procedure's reference has no owner any more.
Send(op) ==
  /\ app /\ attrib.next_cmd_id < MaxCmds
  /\ attrib.stale /\ Discovers(op) => leaked < MaxCmds
  /\ attrib' = gatt_send(attrib, op)
  /\ leaked' = IF attrib.stale /\ Discovers(op) THEN leaked + 1 ELSE leaked
  /\ last' = NoCall
  /\ UNCHANGED <<link, app, cancelled, wfail>>

\* The head of the request queue cannot be taken back once it is sent: only
\* its callback goes away.  Whoever held a reference is never told, as no
\* command has a notify function that command_destroy would call.
forget_callback(c) == [c EXCEPT !.func = FALSE, !.hold = FALSE]

cancel_at_KeepsCallback(q, i) ==                                     \* mutant
  IF i = 1 /\ q[i].sent THEN q ELSE RemoveAt(q, i)
cancel_at_DropsSent(q, i) == RemoveAt(q, i)                          \* mutant
cancel_at(q, i) ==
  IF i = 1 /\ q[i].sent
  THEN [q EXCEPT ![i] = forget_callback(@)]
  ELSE RemoveAt(q, i)

held(q) == {i \in DOMAIN q : q[i].hold}

g_attrib_cancel(queue, i) ==
  /\ app /\ queue \in {"requests", "responses"}
  /\ i \in DOMAIN attrib[queue]
  /\ attrib' = [attrib EXCEPT ![queue] = cancel_at(@, i)]
  /\ leaked' = leaked + Cardinality(held(attrib[queue]) \cap {i})
  /\ cancelled' = cancelled \cup {attrib[queue][i].id}
  /\ last' = NoCall
  /\ UNCHANGED <<link, app, wfail>>

cancel_all_per_queue(q) ==
  IF q # <<>> /\ q[1].sent THEN <<forget_callback(q[1])>> ELSE <<>>

g_attrib_cancel_all ==
  /\ app
  /\ attrib' = [attrib EXCEPT !.requests = cancel_all_per_queue(@),
                              !.responses = cancel_all_per_queue(@)]
  /\ leaked' = leaked + Cardinality(held(attrib.requests))
  /\ cancelled' = cancelled
       \cup {c.id : c \in ToSet(attrib.requests \o attrib.responses)}
  /\ last' = NoCall
  /\ UNCHANGED <<link, app, wfail>>

g_attrib_register(e) ==
  /\ app /\ e \in Events \ attrib.events
  /\ attrib' = [attrib EXCEPT !.events = @ \cup {e}]
  /\ last' = NoCall
  /\ UNCHANGED <<link, ghosts>>

g_attrib_unregister(e) ==
  /\ app /\ e \in attrib.events
  /\ attrib' = [attrib EXCEPT !.events = @ \ {e}]
  /\ last' = NoCall
  /\ UNCHANGED <<link, ghosts>>

g_attrib_unregister_all ==
  /\ app /\ attrib.events # {}
  /\ attrib' = [attrib EXCEPT !.events = {}]
  /\ last' = NoCall
  /\ UNCHANGED <<link, ghosts>>

\* disconnect_io of vehicle_cmd.c: drop the reference, shut the channel down.
Disconnect ==
  /\ app
  /\ attrib' = g_attrib_unref(attrib)
  /\ app' = FALSE
  /\ io' = "closed" /\ inbox' = <<>> /\ rx' = <<>>
  /\ last' = NoCall
  /\ UNCHANGED <<leaked, cancelled, wfail>>
-----------------------------------------------------------------------------
(***************************************************************************)
(* can_write_data: the write watch is dispatched.                          *)
(***************************************************************************)
SendQueue == IF attrib.responses # <<>> THEN "responses" ELSE "requests"

Sendable == attrib[SendQueue] # <<>> /\ ~ attrib[SendQueue][1].sent

WriteNothing ==
  /\ attrib.write_watch
  /\ attrib.stale \/ ~ Sendable
  /\ attrib' = destroy_sender(attrib)
  /\ last' = NoCall
  /\ UNCHANGED <<link, ghosts>>

WriteFails ==
  /\ attrib.write_watch /\ ~ attrib.stale /\ Sendable
  /\ io # "open" \/ IOErrors
  /\ attrib' = destroy_sender(attrib)
  /\ wfail' = TRUE
  /\ last' = NoCall
  /\ UNCHANGED <<link, app, leaked, cancelled>>

\* No answer is expected: the command is done, and the watch stays.
WriteCommand ==
  /\ attrib.write_watch /\ ~ attrib.stale /\ Sendable /\ io = "open"
  /\ opcode2expected(attrib[SendQueue][1].opcode) = "NONE"
  /\ attrib' = [attrib EXCEPT ![SendQueue] = Tail(@)]
  /\ last' = NoCall
  /\ UNCHANGED <<link, ghosts>>

arm_timeout_Never(a) == a                                            \* mutant
arm_timeout(a) ==
  [a EXCEPT !.timeout_watch = IF @ = "none" THEN "armed" ELSE @]

WriteRequest ==
  /\ attrib.write_watch /\ ~ attrib.stale /\ Sendable /\ io = "open"
  /\ opcode2expected(attrib[SendQueue][1].opcode) # "NONE"
  /\ attrib' = destroy_sender(
       [arm_timeout(attrib) EXCEPT ![SendQueue][1].sent = TRUE])
  /\ inbox' = Append(inbox, Tag(attrib[SendQueue][1]))
  /\ last' = NoCall
  /\ UNCHANGED <<io, rx, ghosts>>

can_write_data == WriteNothing \/ WriteFails \/ WriteCommand \/ WriteRequest
-----------------------------------------------------------------------------
(***************************************************************************)
(* received_data: the read watch is dispatched.  Its source is gone in all *)
(* three cases that return FALSE, but only a hang-up clears read_watch;    *)
(* "dangling" is an identifier that is kept after its source is gone.      *)
(***************************************************************************)
ReceiveStale ==
  /\ attrib.read_watch = "armed" /\ attrib.stale
  /\ rx # <<>> \/ io # "open"
  /\ attrib' = [attrib EXCEPT !.read_watch = "dangling"]
  /\ last' = NoCall
  /\ UNCHANGED <<link, ghosts>>

ReceiveHup ==
  /\ attrib.read_watch = "armed" /\ ~ attrib.stale /\ io # "open"
  /\ attrib' = [attrib EXCEPT !.read_watch = "none"]
  /\ last' = NoCall
  /\ UNCHANGED <<link, ghosts>>

wake_if_queued_Never(a) == a                                         \* mutant
wake_if_queued(a) ==
  IF a.requests # <<>> \/ a.responses # <<>> THEN wake_up_sender(a) ELSE a

ReadFails ==
  /\ attrib.read_watch = "armed" /\ ~ attrib.stale
  /\ IOErrors /\ io = "open" /\ rx # <<>>
  /\ attrib' = wake_if_queued(attrib)
  /\ last' = NoCall
  /\ UNCHANGED <<link, ghosts>>

Receiving ==
  /\ attrib.read_watch = "armed" /\ ~ attrib.stale
  /\ io = "open" /\ rx # <<>>

\* Not a response: only the registered handler runs.  The events_handler that
\* vehicle_cmd.c registers sends nothing; a handler may also confirm an
\* indication, as that of vehicle_tool.c would, which nothing registers.
ReceiveEvent ==
  /\ Receiving /\ ~ is_response(rx[1].op)
  /\ \/ attrib' = attrib
     \/ /\ rx[1].op = "HANDLE_IND" /\ \E e \in attrib.events : match_event(e, rx[1])
        /\ attrib.next_cmd_id < MaxCmds
        /\ attrib' = g_attrib_send(attrib, 0, 0, "HANDLE_CNF", FALSE, FALSE)
  /\ rx' = Tail(rx)
  /\ last' = NoCall
  /\ UNCHANGED <<io, inbox, ghosts>>

stop_timeout_Never(a) == a                                           \* mutant
stop_timeout(a) ==
  IF a.timeout_watch # "none" THEN [a EXCEPT !.timeout_watch = "none"] ELSE a

\* A response and nothing queued: keep the watch only for the handlers.
ReceiveUnexpected ==
  /\ Receiving /\ is_response(rx[1].op) /\ attrib.requests = <<>>
  /\ attrib' = [stop_timeout(attrib) EXCEPT
                  !.read_watch = IF attrib.events # {} THEN @ ELSE "dangling"]
  /\ rx' = Tail(rx)
  /\ last' = NoCall
  /\ UNCHANGED <<io, inbox, ghosts>>

\* A response completes the head of the queue, sent or not.
ReceiveResponse ==
  /\ Receiving /\ is_response(rx[1].op) /\ attrib.requests # <<>>
  /\ LET c  == attrib.requests[1]
         ok == rx[1].op = opcode2expected(c.opcode)
         a  == [stop_timeout(attrib) EXCEPT !.requests = Tail(@)]
     IN  /\ \E r \in Reactions(c, ok) :
              attrib' = run_callback(wake_if_queued(a), c, r)
         /\ last' = [called |-> IF c.func THEN {Tag(c)} ELSE {},
                     rsp |-> rx[1].tag]
  /\ rx' = Tail(rx)
  /\ UNCHANGED <<io, inbox, ghosts>>

received_data ==
  ReceiveStale \/ ReceiveHup \/ ReadFails \/ ReceiveEvent
    \/ ReceiveUnexpected \/ ReceiveResponse
-----------------------------------------------------------------------------
(***************************************************************************)
(* disconnect_timeout: the head gets TIMEOUT, every other request ABORTED. *)
(* stale is set only afterwards, so a callback may still queue a command:  *)
(* again is the set of the positions whose callback does.  Those commands  *)
(* are drained by the same loop, but the write watch is added when one of  *)
(* them was alone in the queue.                                            *)
(***************************************************************************)
Drain_HeadOnly(a, again) ==                                          \* mutant
  [a EXCEPT !.requests = IF @ = <<>> THEN @ ELSE Tail(@)]
Drain(a, again) ==
  LET b == [a EXCEPT !.refs = @ - Cardinality(held(a.requests)),
                     !.requests = <<>>,
                     !.next_cmd_id = @ + Cardinality(again)]
  IN  IF again = {Len(a.requests)} THEN wake_up_sender(b) ELSE b

disconnect_timeout ==
  /\ attrib.timeout_watch = "armed"
  /\ \E again \in SUBSET {i \in DOMAIN attrib.requests : attrib.requests[i].func} :
       /\ attrib.next_cmd_id + Cardinality(again) <= MaxCmds
       /\ attrib' = g_attrib_unref(
            [Drain(g_attrib_ref(attrib), again) EXCEPT
                !.stale = TRUE, !.timeout_watch = "dangling"])
  /\ last' = [called |-> {Tag(c) : c \in {d \in ToSet(attrib.requests) : d.func}},
              rsp |-> NoTag]
  /\ UNCHANGED <<link, ghosts>>
-----------------------------------------------------------------------------
(***************************************************************************)
(* The peer and the link.                                                  *)
(***************************************************************************)
Pdu(op, handle, tag) == [op |-> op, handle |-> handle, tag |-> tag]

PeerCanSend == io = "open" /\ Len(rx) < MaxRx

\* The peer answers its oldest request.
PeerReply ==
  /\ PeerCanSend /\ inbox # <<>>
  /\ \E op \in {"ERROR", opcode2expected(inbox[1].op)} :
       rx' = Append(rx, Pdu(op, "NO_HANDLE", inbox[1]))
  /\ inbox' = Tail(inbox)
  /\ last' = NoCall
  /\ UNCHANGED <<attrib, io, ghosts>>

PeerPush(p) ==
  /\ PeerCanSend
  /\ rx' = Append(rx, Pdu(p.op, p.handle, NoTag))
  /\ last' = NoCall
  /\ UNCHANGED <<attrib, io, inbox, ghosts>>

PeerStray(op) ==
  /\ PeerCanSend
  /\ rx' = Append(rx, Pdu(op, "NO_HANDLE", NoTag))
  /\ last' = NoCall
  /\ UNCHANGED <<attrib, io, inbox, ghosts>>

Hup ==
  /\ io = "open"
  /\ io' = "hup" /\ inbox' = <<>>
  /\ last' = NoCall
  /\ UNCHANGED <<attrib, rx, ghosts>>
-----------------------------------------------------------------------------
Application ==
  \/ \E op \in AppOps : Send(op)
  \/ \E queue \in {"requests", "responses"}, i \in 1..MaxCmds :
       g_attrib_cancel(queue, i)
  \/ g_attrib_cancel_all
  \/ \E e \in Events : g_attrib_register(e) \/ g_attrib_unregister(e)
  \/ g_attrib_unregister_all
  \/ Disconnect

Peer ==
  \/ PeerReply
  \/ \E p \in Pushes : PeerPush(p)
  \/ \E op \in StrayOps : PeerStray(op)
  \/ Hup

MainLoop == can_write_data \/ received_data \/ disconnect_timeout

Next == Application \/ MainLoop \/ Peer

Spec == Init /\ [][Next]_vars

(***************************************************************************)
(* The main loop dispatches a ready source eventually and the timeout      *)
(* expires; a write watch on a channel that was shut down is never ready.  *)
(* Nothing is assumed of the application or the peer.                      *)
(***************************************************************************)
Fairness ==
  /\ WF_vars(io # "closed" /\ can_write_data)
  /\ WF_vars(received_data)
  /\ WF_vars(disconnect_timeout)

LiveSpec == Spec /\ Fairness
-----------------------------------------------------------------------------
(***************************************************************************)
(* Properties.                                                             *)
(***************************************************************************)
\* The fields of struct _GAttrib, of the commands in its queues and of the
\* link have the values the code can give them.
TypeOK ==
  /\ attrib \in GAttribRecord
  /\ io \in {"open", "hup", "closed"}
  /\ inbox \in Seq(TagRecord)
  /\ app \in BOOLEAN /\ leaked \in Nat /\ wfail \in BOOLEAN

\* At most the first request has been put on the air; whatever is pushed,
\* cancelled or answered meanwhile, nothing behind it and no response has
\* ("This can only happen with elementes from attrib->requests").
OnlyHeadSent ==
  /\ \A i \in 2..Len(attrib.requests) : ~ attrib.requests[i].sent
  /\ \A i \in 1..Len(attrib.responses) : ~ attrib.responses[i].sent

HeadSent == attrib.requests # <<>> /\ attrib.requests[1].sent

\* The 30 second timeout runs exactly while a request is on the air: it is
\* never lost by a cancel, a continuation or an unasked response, and never
\* left running to strike a bearer that waits for nothing; and the identifier
\* of an expired one is kept by a stale bearer only.
TimerFollowsRequest ==
  ~ attrib.stale => attrib.timeout_watch = IF HeadSent THEN "armed" ELSE "none"

\* Whenever something can be written the write watch is installed, unless a
\* write has failed before: g_attrib_send, which wakes the sender only for
\* the first element of a queue, never leaves one behind.
NoLostWakeup ==
  ~ attrib.stale /\ ~ wfail /\ Sendable => attrib.write_watch

\* A stale bearer keeps no request: those that callbacks queue during
\* disconnect_timeout are drained too, and later ones are refused.
StaleDrained == attrib.stale => attrib.requests = <<>>

\* The Read Blob requests of a long read follow each other: a continuation
\* is always first in the queue, so no other request comes in between.
LongReadFirst ==
  \A i \in DOMAIN attrib.requests : attrib.requests[i].part > 0 => i = 1

\* Commands in the queues have distinct identifiers, so g_attrib_cancel finds
\* the one it was asked to cancel.
DistinctIds ==
  LET q == attrib.requests \o attrib.responses
  IN  \A i, j \in DOMAIN q : q[i].id = q[j].id => i = j

\* Every reference is owned: by the application, by the write watch, by a
\* queued procedure, or leaked.  So the bearer is freed only when nobody can
\* reach it, and never from inside its own destruction.
RefsAccounted ==
  attrib.refs = (IF app THEN 1 ELSE 0) + (IF attrib.write_watch THEN 1 ELSE 0)
                + Cardinality(held(attrib.requests)) + leaked

\* A cancelled command's callback never runs, neither for the response that
\* was on its way nor for the timeout.
CancelledNotCalled == \A t \in last.called : t.id \notin cancelled

Polite == StrayOps = {}

Responses == {i \in DOMAIN rx : is_response(rx[i].op)}

\* With a peer that answers each request once: what it still owes, or has
\* answered but was not read, is exactly the request at the head.
OneOutstanding ==
  Polite /\ Alive /\ ~ attrib.stale /\ io = "open" =>
    IF HeadSent
    THEN \/ inbox = <<Tag(attrib.requests[1])>> /\ Responses = {}
         \/ inbox = <<>> /\ \E i \in DOMAIN rx : /\ Responses = {i}
                                                /\ rx[i].tag = Tag(attrib.requests[1])
    ELSE inbox = <<>> /\ Responses = {}

\* With such a peer a callback gets the response to its own request, across
\* cancellations, continuations and retries.
RightResponse ==
  Polite /\ last.rsp # NoTag => last.called \subseteq {last.rsp}

\* With such a peer the bearer listens as long as the link is up, although
\* received_data drops its watch on a response that nothing waits for.
NeverDeaf ==
  Polite /\ Alive /\ ~ attrib.stale /\ io = "open" => attrib.read_watch = "armed"

OnAir(id, part) ==
  HeadSent /\ attrib.requests[1].id = id /\ attrib.requests[1].part = part

Queued(id) == \E c \in ToSet(attrib.requests) : c.id = id

\* Every request on the air leaves the queue: answered, timed out or freed
\* with the bearer, also when the link goes down meanwhile.
SentRequestEnds ==
  \A id \in 1..MaxCmds, part \in 0..MaxParts :
    OnAir(id, part) ~> ~ OnAir(id, part)

\* While the link is up and no write fails, every queued request is served
\* or cancelled, even with a peer that never answers.
QueuedRequestEnds ==
  \A id \in 1..MaxCmds : Queued(id) ~> (~ Queued(id) \/ io # "open" \/ wfail)
-----------------------------------------------------------------------------
(***************************************************************************)
(* The bearer as its users see it: a queue of requests and the one on the  *)
(* air.                                                                    *)
(***************************************************************************)
Request(c) == [id |-> c.id, part |-> c.part, wanted |-> c.func]

Unsent == IF HeadSent THEN Tail(attrib.requests) ELSE attrib.requests

Bearer == INSTANCE AttBearer WITH
  queue  <- [i \in DOMAIN Unsent |-> Request(Unsent[i])],
  air    <- IF HeadSent THEN Request(attrib.requests[1])
            ELSE [id |-> 0, part |-> 0, wanted |-> FALSE],
  told   <- {[id |-> t.id, part |-> t.part] : t \in last.called},
  seen   <- attrib.next_cmd_id,
  closed <- attrib.stale \/ ~ Alive

\* With a peer that answers each request once, gattrib.c implements the
\* bearer of AttBearer: through cancellations, continuations at the head of
\* the queue, callbacks that send, timeouts, failed reads and writes, and the
\* end of the last reference, every callback runs for its own request, once
\* and in order, and nothing is carried after a request was given up.
ImplementsBearer == Bearer!Spec
=============================================================================
