-------------------------------- MODULE Gatt --------------------------------
(***************************************************************************)
(* The GATT client procedures of examples/vehicle-tool/gatt.c: discovery   *)
(* of primary services, included services and characteristics, reads and   *)
(* writes of values longer than a PDU, and the exchange of the MTU.        *)
(*                                                                         *)
(* A call starts a procedure, which queues a request and goes on in the    *)
(* callback of each response until it calls back its user.  Procedures     *)
(* share one bearer, so their requests interleave.  Of the bearer this     *)
(* module keeps what GAttrib shows: one request at a time in the order of  *)
(* the queue, the continuation of a long read first, and a timeout that    *)
(* fails all that is queued.  The server answers from a database, in pages *)
(* of any number of entries that the MTU has room for.  Requests and       *)
(* responses are records; their layout is the subject of Att.  A response  *)
(* of the server is well formed: one that a decoder rejects is left out.   *)
(***************************************************************************)
EXTENDS Bytes, SequencesExt

CONSTANTS
  Primaries,   \* the server's services in handle order: [start, end, uuid, ulen]
  Includes,    \* its include declarations: [handle, start, end, uuid, ulen]
  Chars,       \* its characteristics: [handle, value_handle, uuid, ulen]
  Values,      \* the values of its attributes that can be read and written
  Calls,       \* the calls the application may make
  ServerMtus,  \* the MTUs the server may offer
  Faults,      \* whether the server may answer with an error
  MaxCalls     \* bound on the calls

ATT_DEFAULT_LE_MTU == 23

\* The procedures of gatt.h.
Kinds == {"primary", "included", "chars", "read", "write", "mtu", "desc", "by_uuid",
          "write_cmd"}

IsMtu(m) == m \in Nat /\ ATT_DEFAULT_LE_MTU <= m /\ m <= 65535

Handle == 0..65535

Ordered(s, f) == \A i, j \in DOMAIN s : i < j => s[i][f] < s[j][f]
Uuids(s) == {s[i].uuid : i \in DOMAIN s}

\* The database is one that a server can have: handles have 16 bits and start
\* at 1, services do not overlap, the value of a characteristic follows its
\* declaration, a service that is included twice is the same one, and the
\* declaration of a service is not a value to be written.  The calls are for attributes that are there and for
\* ranges of handles, with an MTU that cmd_mtu accepts and that 16 bits hold.
ASSUME GattAssumption ==
  /\ Primaries \in Seq([start : Nat, end : Nat, uuid : Uuids(Primaries), ulen : {2, 16}])
  /\ Includes \in Seq([handle : Nat, start : Nat, end : Nat, uuid : Uuids(Includes),
                       ulen : {2, 16}])
  /\ Chars \in Seq([handle : Nat, value_handle : Nat, uuid : Uuids(Chars), ulen : {2, 16}])
  /\ Ordered(Primaries, "start") /\ Ordered(Includes, "handle") /\ Ordered(Chars, "handle")
  /\ \A i \in DOMAIN Primaries :
       /\ Primaries[i].start \in 1..Primaries[i].end /\ Primaries[i].end <= 65535
       /\ i > 1 => Primaries[i - 1].end < Primaries[i].start
  /\ \A i \in DOMAIN Chars :
       /\ Chars[i].value_handle > Chars[i].handle
       /\ Chars[i].handle # 0 /\ Chars[i].value_handle <= 65535
       /\ i > 1 => Chars[i - 1].value_handle < Chars[i].handle
  /\ \A i \in DOMAIN Includes : Includes[i].handle <= 65535
  /\ \A i, j \in DOMAIN Includes :
       Includes[i].start = Includes[j].start => Includes[i].uuid = Includes[j].uuid
  /\ \A m \in ServerMtus : IsMtu(m)
  /\ Faults \in BOOLEAN /\ MaxCalls \in Nat
  /\ Values \in [DOMAIN Values -> Seq(Nat)]
  /\ \A i \in DOMAIN Includes : Includes[i].start \notin DOMAIN Values
  /\ \A c \in Calls :
       /\ c.kind \in Kinds
       /\ c.kind \in {"included", "chars"} => c.start \in Handle /\ c.end \in Handle
       /\ c.kind \in {"read", "write", "write_cmd"} => c.handle \in DOMAIN Values
       /\ c.kind \in {"write", "write_cmd"} => c.value \in Seq(Nat)
       /\ c.kind = "mtu" => IsMtu(c.mtu)

VARIABLES
  procs,    \* the procedures, in the order of the calls
  queue,    \* the requests of the bearer: [proc, cb, req]
  rsp,      \* the response to the head of the queue, or NoRsp
  mtu,      \* the client's buffer size
  stale,    \* the bearer has timed out
  values,   \* the server's attribute values
  prep,     \* the server's prepared writes: [handle, offset, value]
  smtu      \* the MTU the server uses

vars == <<procs, queue, rsp, mtu, stale, values, prep, smtu>>
-----------------------------------------------------------------------------
(***************************************************************************)
(* A procedure: its call, what it has collected (list), how far it has     *)
(* come (offset), the references and the first error of an included        *)
(* service discovery, and what it has called its user back with (ends).    *)
(* History: fault, a request of it got an error other than the end of a    *)
(* discovery or no answer; touched, its attribute changed meanwhile;       *)
(* alone, every write called before had ended with success.                *)
(***************************************************************************)
EndedWell(p) == p.ends # <<>> /\ p.ends[1].status = "OK"

NewProc(c) ==
  [call |-> c, list |-> <<>>, offset |-> 0, refs |-> 0, err |-> "OK",
   ends |-> <<>>, fault |-> FALSE, touched |-> FALSE,
   alone |-> \A p \in ToSet(procs) : p.call.kind = "write" => EndedWell(p)]

\* What a callback does: the procedure after it and the requests it sends.
Sends(p, reqs, first) == [p |-> p, reqs |-> reqs, first |-> first]
Quiet(p) == Sends(p, <<>>, FALSE)
Asks(p, cb, req) == Sends(p, <<[cb |-> cb, req |-> req]>>, FALSE)

Ended(p, status, list) ==
  Quiet([p EXCEPT !.ends = Append(@, [status |-> status, list |-> list])])

NoRsp == [status |-> "NONE"]
Error(status) == [status |-> status]
Ok(data) == [status |-> "OK", data |-> data]
Page(ulen, data) == [status |-> "OK", ulen |-> ulen, data |-> data]

NullUuid == "NULL"

\* The positions of the entries with a UUID, or of all of them.
OfUuid(s, uuid) == {i \in DOMAIN s : uuid \in {NullUuid, s[i].uuid}}

\* The entries at the positions P.
Picked(s, P) ==
  LET upto[k \in 0..Len(s)] ==
        IF k = 0 THEN <<>>
        ELSE IF k \in P THEN Append(upto[k - 1], s[k]) ELSE upto[k - 1]
  IN  upto[Len(s)]
-----------------------------------------------------------------------------
(***************************************************************************)
(* Discovery of primary services.                                          *)
(***************************************************************************)
encode_discover_primary(start, uuid) ==
  IF uuid = NullUuid
  THEN [op |-> "READ_BY_GROUP_REQ", start |-> start, end |-> 65535]
  ELSE [op |-> "FIND_BY_TYPE_REQ", start |-> start, end |-> 65535, uuid |-> uuid]

\* The handle to go on from, which a request holds in 16 bits.
next_handle(handle) == (handle + 1) % 65536

discover_primary_cb(uuid) ==
  IF uuid = NullUuid THEN "primary_all_cb" ELSE "primary_by_uuid_cb"

discovery_err(status) == IF status = "NOT_FOUND" THEN "OK" ELSE status

\* primary_by_uuid_cb and primary_all_cb: ask on behind the last service of
\* the page, unless that ends at the last handle there is.
primary_cb(p, r) ==
  IF r.status # "OK" THEN Ended(p, discovery_err(r.status), p.list)
  ELSE LET q == [p EXCEPT !.list = @ \o r.data]
           end == Last(r.data).end
       IN  IF end = 65535 THEN Ended(q, "OK", q.list)
           ELSE Asks(q, discover_primary_cb(p.call.uuid),
                     encode_discover_primary(next_handle(end), p.call.uuid))

gatt_discover_primary(p) ==
  Asks(p, discover_primary_cb(p.call.uuid), encode_discover_primary(1, p.call.uuid))
-----------------------------------------------------------------------------
(***************************************************************************)
(* Discovery of included services.  refs counts the requests in progress;  *)
(* the last one to end calls the user back.  A 128-bit UUID is not part of *)
(* the declaration and is read from the included service itself.           *)
(***************************************************************************)
isd_ref(p, n) == [p EXCEPT !.refs = @ + n]   \* n of them

isd_unref_OffByOne(p) ==                                              \* mutant
  LET q == [p EXCEPT !.refs = @ - 1]
  IN  IF q.refs >= 0 THEN q
      ELSE Ended(q, q.err, IF q.err = "OK" THEN q.list ELSE <<>>).p
isd_unref(p) ==
  LET q == [p EXCEPT !.refs = @ - 1]
  IN  IF q.refs > 0 THEN q
      ELSE Ended(q, q.err, IF q.err = "OK" THEN q.list ELSE <<>>).p

isd_err(p, err) == IF p.err = "OK" THEN [p EXCEPT !.err = err] ELSE p

find_included(p, start) ==
  Asks(isd_ref(p, 1), "find_included_cb",
       [op |-> "READ_BY_TYPE_REQ", type |-> "INCLUDE", start |-> start,
        end |-> p.call.end])

resolve_request(incl) ==
  [cb |-> "resolve_included_uuid_cb",
   req |-> [op |-> "READ_REQ", handle |-> incl.start, included |-> incl]]

\* For each of the services that were found.
resolve_included_uuid_NoRef(p, incls) ==                              \* mutant
  Sends(p, [k \in DOMAIN incls |-> resolve_request(incls[k])], FALSE)
resolve_included_uuid(p, incls) ==
  Sends(isd_ref(p, Len(incls)), [k \in DOMAIN incls |-> resolve_request(incls[k])], FALSE)

\* The command's destroy notification drops its reference after the callback.
find_included_cb(p, r) ==
  IF r.status # "OK" THEN Quiet(isd_unref(isd_err(p, discovery_err(r.status))))
  ELSE LET last == Last(r.data).handle
           got == IF r.ulen = 16 THEN resolve_included_uuid(p, r.data)
                  ELSE Quiet([p EXCEPT !.list = @ \o r.data])
           more == IF last < p.call.end THEN find_included(got.p, next_handle(last))
                   ELSE Quiet(got.p)
       IN  Sends(isd_unref(more.p), got.reqs \o more.reqs, FALSE)

\* The response is the declaration of the included service, whose value is
\* the UUID.
resolve_included_uuid_cb(p, req, r) ==
  IF r.status # "OK" THEN Quiet(isd_unref(isd_err(p, r.status)))
  ELSE Quiet(isd_unref(
         [p EXCEPT !.list = Append(@, [req.included EXCEPT !.uuid = r.data])]))

gatt_find_included(p) == find_included(p, p.call.start)
-----------------------------------------------------------------------------
(***************************************************************************)
(* Discovery of characteristics.  With a UUID only those that have it are  *)
(* collected.  Whatever ends it, what was found counts as success.         *)
(***************************************************************************)
discover_char_req(start, end) ==
  [op |-> "READ_BY_TYPE_REQ", type |-> "CHARAC", start |-> start, end |-> end]

discover_char_more_SkipLast(last, end) == last # 0 /\ last + 2 < end \* mutant
discover_char_more(last, end) == last # 0 /\ last + 1 < end

discover_char_ended(p, err) ==
  Ended(p, IF p.list # <<>> THEN "OK" ELSE err, p.list)

char_discovered_cb(p, r) ==
  IF r.status # "OK" THEN discover_char_ended(p, r.status)
  ELSE LET found == Picked(r.data, OfUuid(r.data, p.call.uuid))
           q == [p EXCEPT !.list = @ \o found]
           last == Last(r.data).handle
       IN  IF discover_char_more(last, p.call.end)
           THEN Asks(q, "char_discovered_cb", discover_char_req(next_handle(last), p.call.end))
           ELSE discover_char_ended(q, "NOT_FOUND")

gatt_discover_char(p) ==
  Asks(p, "char_discovered_cb", discover_char_req(p.call.start, p.call.end))
-----------------------------------------------------------------------------
(***************************************************************************)
(* Long reads.  A response that fills the buffer is followed by a Read     *)
(* Blob request at the head of the queue.  An error after the first part   *)
(* ends the read with what was received, as a success.                     *)
(***************************************************************************)
read_blob(p) ==
  Sends(p, <<[cb |-> "read_blob_helper",
              req |-> [op |-> "READ_BLOB_REQ", handle |-> p.call.handle,
                       offset |-> Len(p.list)]]>>, TRUE)

fills_OffByOne(value) == Len(value) + 1 > mtu                         \* mutant
fills(value) == Len(value) + 1 >= mtu

read_char_helper(p, r) ==
  IF r.status # "OK" THEN Ended(p, r.status, <<>>)
  ELSE IF fills(r.data) THEN read_blob([p EXCEPT !.list = r.data])
  ELSE Ended(p, "OK", r.data)

read_blob_helper(p, r) ==
  IF r.status # "OK" \/ r.data = <<>> THEN Ended(p, "OK", p.list)
  ELSE LET q == [p EXCEPT !.list = @ \o r.data]
       IN  IF fills(r.data) THEN read_blob(q) ELSE Ended(q, "OK", q.list)

gatt_read_char(p) ==
  Asks(p, "read_char_helper", [op |-> "READ_REQ", handle |-> p.call.handle])
-----------------------------------------------------------------------------
(***************************************************************************)
(* Writes.  A value that does not fit in one PDU is sent in parts that the *)
(* server keeps, each echoed by it, and then written by one Execute Write. *)
(* An error ends the write; what the server keeps is not cancelled.        *)
(***************************************************************************)
prepare_write(p) ==
  Asks(p, "prepare_write_cb",
       [op |-> "PREP_WRITE_REQ", handle |-> p.call.handle, offset |-> p.offset,
        value |-> Slice(p.call.value, p.offset, mtu - 5)])

execute_write(p) == Asks(p, "func", [op |-> "EXEC_WRITE_REQ"])

prepare_write_cb_HeaderCounted(p, r) ==                               \* mutant
  IF r.status # "OK" THEN Ended(p, r.status, <<>>)
  ELSE LET q == [p EXCEPT !.offset = @ + Len(r.data) + 5]
       IN  IF q.offset >= Len(p.call.value) THEN execute_write(q) ELSE prepare_write(q)
prepare_write_cb(p, r) ==
  IF r.status # "OK" THEN Ended(p, r.status, <<>>)
  ELSE LET q == [p EXCEPT !.offset = @ + Len(r.data)]
       IN  IF q.offset = Len(p.call.value) THEN execute_write(q) ELSE prepare_write(q)

IsLong(c) == Len(c.value) > mtu - 3

gatt_write_char(p) ==
  IF IsLong(p.call) THEN prepare_write(p)
  ELSE Asks(p, "func", [op |-> "WRITE_REQ", handle |-> p.call.handle,
                        value |-> p.call.value])
-----------------------------------------------------------------------------
(***************************************************************************)
(* The MTU: the new buffer size is the smaller of what was asked for and   *)
(* what the server offers (exchange_mtu_cb of vehicle_cmd.c).              *)
(***************************************************************************)
new_mtu(asked, offered) == IF offered < asked THEN offered ELSE asked

gatt_exchange_mtu(p) == Asks(p, "exchange_mtu_cb", [op |-> "MTU_REQ", mtu |-> p.call.mtu])

(***************************************************************************)
(* Procedures of one request: gatt_discover_char_desc and                  *)
(* gatt_read_char_by_uuid hand the response to their user; gatt_write_cmd  *)
(* cuts the value to what fits and awaits nothing.                         *)
(***************************************************************************)
gatt_discover_char_desc(p) == Asks(p, "func", [op |-> "FIND_INFO_REQ"])
gatt_read_char_by_uuid(p) == Asks(p, "func", [op |-> "READ_BY_TYPE_REQ", type |-> "VALUE"])

gatt_write_cmd(p) ==
  Asks(p, "none", [op |-> "WRITE_CMD", handle |-> p.call.handle,
                   value |-> Slice(p.call.value, 0, mtu - 3)])

Start(p) ==
  CASE p.call.kind = "primary"  -> gatt_discover_primary(p)
    [] p.call.kind = "included" -> gatt_find_included(p)
    [] p.call.kind = "chars"    -> gatt_discover_char(p)
    [] p.call.kind = "read"     -> gatt_read_char(p)
    [] p.call.kind = "write"    -> gatt_write_char(p)
    [] p.call.kind = "mtu"      -> gatt_exchange_mtu(p)
    [] p.call.kind = "desc"     -> gatt_discover_char_desc(p)
    [] p.call.kind = "by_uuid"  -> gatt_read_char_by_uuid(p)
    [] p.call.kind = "write_cmd" -> gatt_write_cmd(p)

Callback(c, p, r) ==
  CASE c.cb \in {"primary_by_uuid_cb", "primary_all_cb"} -> primary_cb(p, r)
    [] c.cb = "find_included_cb"         -> find_included_cb(p, r)
    [] c.cb = "resolve_included_uuid_cb" -> resolve_included_uuid_cb(p, c.req, r)
    [] c.cb = "char_discovered_cb"       -> char_discovered_cb(p, r)
    [] c.cb = "read_char_helper"         -> read_char_helper(p, r)
    [] c.cb = "read_blob_helper"         -> read_blob_helper(p, r)
    [] c.cb = "prepare_write_cb"         -> prepare_write_cb(p, r)
    [] c.cb \in {"func", "exchange_mtu_cb"} -> Ended(p, r.status, <<>>)
    [] c.cb = "none"                     -> Quiet(p)
-----------------------------------------------------------------------------
(***************************************************************************)
(* The bearer.                                                             *)
(***************************************************************************)
Init ==
  /\ procs = <<>> /\ queue = <<>> /\ rsp = NoRsp
  /\ mtu = ATT_DEFAULT_LE_MTU /\ stale = FALSE
  /\ values = Values /\ prep = <<>> /\ smtu = ATT_DEFAULT_LE_MTU

Commands(i, o) ==
  [k \in DOMAIN o.reqs |-> [proc |-> i, cb |-> o.reqs[k].cb, req |-> o.reqs[k].req]]

server == <<values, prep, smtu>>

\* The MTU is exchanged once, as vehicle_cmd.c makes sure.
Call(c) ==
  /\ ~ stale /\ Len(procs) < MaxCalls
  /\ c.kind = "mtu" => \A p \in ToSet(procs) : p.call.kind # "mtu"
  /\ LET o == Start(NewProc(c))
     IN  /\ procs' = Append(procs, o.p)
         /\ queue' = queue \o Commands(Len(procs) + 1, o)
  /\ UNCHANGED <<rsp, mtu, stale, server>>

\* The response to the head of the queue is read and its callback runs.
received_data ==
  /\ rsp # NoRsp
  /\ LET c == Head(queue)
         o == Callback(c, procs[c.proc], rsp)
     IN  /\ procs' = [procs EXCEPT ![c.proc] = o.p]
         /\ queue' = IF o.first THEN Commands(c.proc, o) \o Tail(queue)
                                ELSE Tail(queue) \o Commands(c.proc, o)
         /\ mtu' = IF c.cb = "exchange_mtu_cb" /\ rsp.status = "OK"
                   THEN new_mtu(c.req.mtu, rsp.data) ELSE mtu
  /\ rsp' = NoRsp
  /\ UNCHANGED <<stale, server>>

\* disconnect_timeout: all callbacks get an error, on which none sends.
Failed(ps, c, status) ==
  [ps EXCEPT ![c.proc] = [Callback(c, @, Error(status)).p EXCEPT !.fault = TRUE]]

\* The procedures behind each of the commands of q.
AllFailed(ps, q) ==
  LET after[k \in 0..Len(q)] ==
        IF k = 0 THEN ps
        ELSE Failed(after[k - 1], q[k], IF k = 1 THEN "TIMEOUT" ELSE "ABORTED")
  IN  after

disconnect_timeout ==
  /\ queue # <<>> /\ ~ stale
  /\ procs' = AllFailed(procs, queue)[Len(queue)]
  /\ queue' = <<>> /\ rsp' = NoRsp /\ stale' = TRUE
  /\ UNCHANGED <<mtu, server>>
-----------------------------------------------------------------------------
(***************************************************************************)
(* The server.  A discovery response has entries of one size only, that of *)
(* its first one.                                                          *)
(***************************************************************************)
\* The positions of the handles that a request is for.
Between(s, f, req) == {i \in DOMAIN s : req.start <= s[i][f] /\ s[i][f] <= req.end}

\* Entries with UUIDs of ulen bytes have size[ulen] bytes.
Pages(s, header, size) ==
  IF s = <<>> THEN {Error("NOT_FOUND")}
  ELSE {Page(s[1].ulen, [i \in 1..n |-> s[i]]) :
          n \in {k \in 1..Len(s) :
                   /\ k * size[s[1].ulen] <= smtu - header
                   /\ \A i \in 1..k : s[i].ulen = s[1].ulen}}

ServiceSize == [ulen \in {2, 16} |-> 4 + ulen]
RangeSize == [ulen \in {0} |-> 4]
CharacSize == [ulen \in {2, 16} |-> 5 + ulen]

\* The handles of the services, without a UUID.
Ranges ==
  [i \in DOMAIN Primaries |->
     [start |-> Primaries[i].start, end |-> Primaries[i].end, ulen |-> 0]]

\* An include declaration carries a UUID of 16 bits only.
IncludeSize == [ulen \in {2, 16} |-> IF ulen = 2 THEN 8 ELSE 6]
Hidden(incl) == IF incl.ulen = 16 THEN [incl EXCEPT !.uuid = NullUuid] ELSE incl

Declared(handle) == {incl \in ToSet(Includes) : incl.start = handle}

\* The entries behind the handle that a discovery asks for.
Asked(req) ==
  CASE req.op = "READ_BY_GROUP_REQ" -> Picked(Primaries, Between(Primaries, "start", req))
    [] req.op = "FIND_BY_TYPE_REQ" ->
         Picked(Ranges, Between(Primaries, "start", req) \cap OfUuid(Primaries, req.uuid))
    [] req.op = "READ_BY_TYPE_REQ" /\ req.type = "INCLUDE" ->
         Picked(Includes, Between(Includes, "handle", req))
    [] req.op = "READ_BY_TYPE_REQ" /\ req.type = "CHARAC" ->
         Picked(Chars, Between(Chars, "handle", req))

Answers(req) ==
  CASE req.op = "READ_BY_GROUP_REQ" -> Pages(Asked(req), 2, ServiceSize)
    [] req.op = "FIND_BY_TYPE_REQ" -> Pages(Asked(req), 1, RangeSize)
    [] req.op = "READ_BY_TYPE_REQ" /\ req.type = "INCLUDE" ->
         Pages([i \in DOMAIN Asked(req) |-> Hidden(Asked(req)[i])], 2, IncludeSize)
    [] req.op = "READ_BY_TYPE_REQ" /\ req.type = "CHARAC" -> Pages(Asked(req), 2, CharacSize)
    [] req.op = "READ_REQ" /\ Declared(req.handle) # {} ->
         {Ok(incl.uuid) : incl \in Declared(req.handle)}
    [] req.op = "READ_REQ" /\ Declared(req.handle) = {} ->
         {Ok(Slice(values[req.handle], 0, smtu - 1))}
    [] req.op = "READ_BLOB_REQ" ->
         IF req.offset > Len(values[req.handle]) THEN {Error("INVALID_OFFSET")}
         ELSE {Ok(Slice(values[req.handle], req.offset, smtu - 1))}
    [] OTHER -> {Ok(<<>>)}

\* Writing at an offset replaces what follows; an offset beyond the value is
\* refused and nothing is written.
Write(old, w) == SubSeq(old, 1, w.offset) \o w.value

ExecuteOne(a, w) ==
  IF ~ a.ok \/ w.offset > Len(a.vs[w.handle]) THEN [a EXCEPT !.ok = FALSE]
  ELSE [a EXCEPT !.vs[w.handle] = Write(@, w)]

\* The values vs behind each of the prepared writes ws.
Executed(vs, ws) ==
  LET after[k \in 0..Len(ws)] ==
        IF k = 0 THEN [ok |-> TRUE, vs |-> vs] ELSE ExecuteOne(after[k - 1], ws[k])
  IN  after

Execute == Executed(values, prep)[Len(prep)]

\* The history field touched of the reads of a handle whose value changes.
Touch(new) ==
  [i \in DOMAIN procs |->
     IF procs[i].call.kind = "read"
        /\ new[procs[i].call.handle] # values[procs[i].call.handle]
     THEN [procs[i] EXCEPT !.touched = TRUE] ELSE procs[i]]

Waiting(ops) == queue # <<>> /\ rsp = NoRsp /\ Head(queue).req.op \in ops

ServeRead ==
  /\ Waiting({"READ_BY_GROUP_REQ", "FIND_BY_TYPE_REQ", "READ_BY_TYPE_REQ",
              "READ_REQ", "READ_BLOB_REQ", "FIND_INFO_REQ"})
  /\ rsp' \in Answers(Head(queue).req)
  /\ UNCHANGED <<procs, queue, mtu, stale, server>>

ServeMtu ==
  /\ Waiting({"MTU_REQ"})
  /\ \E m \in ServerMtus :
       rsp' = Ok(m) /\ smtu' = smaller(Head(queue).req.mtu, m)
  /\ UNCHANGED <<procs, queue, mtu, stale, values, prep>>

\* A command has no response: the bearer goes on with the next request.
ServeWrite ==
  /\ Waiting({"WRITE_REQ", "WRITE_CMD"})
  /\ LET req == Head(queue).req
     IN  /\ values' = [values EXCEPT ![req.handle] = req.value]
         /\ procs' = Touch(values')
         /\ IF req.op = "WRITE_CMD" THEN queue' = Tail(queue) /\ rsp' = rsp
                                    ELSE queue' = queue /\ rsp' = Ok(<<>>)
  /\ UNCHANGED <<mtu, stale, prep, smtu>>

ServePrepare ==
  /\ Waiting({"PREP_WRITE_REQ"})
  /\ LET req == Head(queue).req
     IN  /\ prep' = Append(prep, [handle |-> req.handle, offset |-> req.offset,
                                  value |-> req.value])
         /\ rsp' = Ok(req.value)
  /\ UNCHANGED <<procs, queue, mtu, stale, values, smtu>>

ServeExecute ==
  /\ Waiting({"EXEC_WRITE_REQ"})
  /\ values' = IF Execute.ok THEN Execute.vs ELSE values
  /\ procs' = Touch(values')
  /\ rsp' = IF Execute.ok THEN Ok(<<>>) ELSE Error("INVALID_OFFSET")
  /\ prep' = <<>>
  /\ UNCHANGED <<queue, mtu, stale, smtu>>

Refuse ==
  /\ Faults /\ queue # <<>> /\ rsp = NoRsp /\ Head(queue).cb # "none"
  /\ rsp' = Error("REFUSED")
  /\ procs' = [procs EXCEPT ![Head(queue).proc].fault = TRUE]
  /\ UNCHANGED <<queue, mtu, stale, server>>

Server == ServeRead \/ ServeMtu \/ ServeWrite \/ ServePrepare \/ ServeExecute \/ Refuse
-----------------------------------------------------------------------------
Next ==
  \/ \E c \in Calls : Call(c)
  \/ received_data
  \/ disconnect_timeout
  \/ Server

Spec == Init /\ [][Next]_vars

(***************************************************************************)
(* The main loop reads a response that is there, and the timeout expires   *)
(* for a request that stays without one.  Nothing is assumed of the        *)
(* server.                                                                 *)
(***************************************************************************)
Fairness ==
  /\ WF_vars(received_data)
  /\ WF_vars(rsp = NoRsp /\ disconnect_timeout)

LiveSpec == Spec /\ Fairness
-----------------------------------------------------------------------------
(***************************************************************************)
(* Properties.                                                             *)
(***************************************************************************)
InProgress(i) == \E k \in DOMAIN queue : queue[k].proc = i

\* Every procedure has a request queued until it calls its user back, and does
\* that exactly once, whichever of its requests is refused or times out: the
\* reference count of an included service discovery, whose requests overlap,
\* reaches zero with the last of them.
ReportsOnce ==
  \A i \in DOMAIN procs : procs[i].call.kind # "write_cmd" =>
    Len(procs[i].ends) = IF InProgress(i) THEN 0 ELSE 1

\* What a discovery ought to find.
Found(c) ==
  CASE c.kind = "primary" /\ c.uuid = NullUuid -> Primaries
    [] c.kind = "primary" /\ c.uuid # NullUuid -> Picked(Ranges, OfUuid(Primaries, c.uuid))
    [] c.kind = "included" -> Picked(Includes, Between(Includes, "handle", c))
    [] c.kind = "chars" ->
         Picked(Chars, Between(Chars, "handle", c) \cap OfUuid(Chars, c.uuid))

\* However the server pages its answers and whatever other requests come in
\* between, a discovery collects the entries of the database in handle order,
\* none twice.  It reports all of them when no request of it failed, and a
\* discovery of services also whenever it reports success; that of
\* characteristics may report a part as success (char_discovered_cb).
DiscoveryExact ==
  \A i \in DOMAIN procs :
    LET p == procs[i]
    IN  p.call.kind \in {"primary", "included", "chars"} =>
          /\ p.err = "OK" => IsPrefix(p.list, Found(p.call))
          /\ p.ends # <<>> => IsPrefix(p.ends[1].list, Found(p.call))
          /\ p.ends # <<>> /\ (~ p.fault \/ (p.call.kind # "chars" /\ EndedWell(p)))
             => p.ends[1].list = Found(p.call)

\* The value a read reports is the whole value when no request of it failed,
\* also when the length is a multiple of what fits in a response and when the
\* MTU changes before or behind it; else it is a prefix.  Values that are
\* written meanwhile are excepted.
ReadWhole ==
  \A i \in DOMAIN procs :
    LET p == procs[i]
    IN  p.call.kind = "read" /\ ~ p.touched /\ p.ends # <<>> =>
          /\ IsPrefix(p.ends[1].list, values[p.call.handle])
          /\ ~ p.fault => p.ends[1].list = values[p.call.handle]

Writes(h) == {i \in DOMAIN procs : procs[i].call.kind \in {"write", "write_cmd"}
                                   /\ procs[i].call.handle = h}

\* The server has refused to execute what was prepared, and thrown it away.
Dropped == \E p \in ToSet(procs) : p.ends # <<>> /\ p.ends[1].status = "INVALID_OFFSET"

\* A write that is reported as a success has stored its whole value, although
\* the parts of other long writes are prepared in between and their Execute
\* Write commits parts of this one early; unless the same attribute is
\* written by another call, or an Execute Write failed and the parts of this
\* one were dropped with it, which no callback of this one is told.
WriteStored ==
  \A i \in DOMAIN procs :
    LET p == procs[i]
    IN  p.call.kind = "write" /\ EndedWell(p) /\ Writes(p.call.handle) = {i} /\ ~ Dropped =>
          values[p.call.handle] = p.call.value

Cut(v) == Slice(v, 0, ATT_DEFAULT_LE_MTU - 3)

\* As long as each write is called after the earlier ones have ended with
\* success, an attribute never holds a part of a value, not even when the
\* last write fails in the middle.  (A write that is called after a failed
\* one, or during another, commits the parts that the other has prepared.)
WriteAtomic ==
  (\A i \in DOMAIN procs : procs[i].call.kind = "write" => procs[i].alone) =>
    \A h \in DOMAIN values :
      \/ values[h] = Values[h]
      \/ \E i \in Writes(h) :
           \/ values[h] = procs[i].call.value
           \/ procs[i].call.kind = "write_cmd" /\ IsPrefix(Cut(procs[i].call.value), values[h])

\* Every procedure calls its user back, with a server that may never answer:
\* a discovery does not ask for the same handles for ever, and a long read or
\* write makes progress.
CallEnds ==
  \A i \in 1..MaxCalls :
    (i \in DOMAIN procs /\ procs[i].call.kind # "write_cmd")
      ~> (i \in DOMAIN procs /\ procs[i].ends # <<>>)
=============================================================================
