-------------------------- MODULE GattValuesProofs --------------------------
(***************************************************************************)
(* Theorems about the values that Gatt reads and writes, for every         *)
(* database, every set of calls and any number of them: a read reports the *)
(* whole value or a prefix of it, a write that ends with success has       *)
(* stored its value, and writes that do not overlap are atomic.            *)
(***************************************************************************)
EXTENDS GattProofs

-----------------------------------------------------------------------------
(***************************************************************************)
(* The first elements of a value.                                          *)
(***************************************************************************)
Upto(v, n) == SubSeq(v, 1, n)

\* Their number.
LEMMA UptoLen ==
  ASSUME NEW v \in Seq(Nat), NEW n \in 0..Len(v)
  PROVE  Upto(v, n) \in Seq(Nat) /\ Len(Upto(v, n)) = n
<1>1. Len(v) \in Nat /\ \A i \in 1..Len(v) : v[i] \in Nat OBVIOUS
<1>2. 1 \in Int /\ n \in Int /\ \A i \in 1..n : v[i] \in Nat BY <1>1
<1>3. /\ SubSeq(v, 1, n) \in Seq(Nat)
      /\ Len(SubSeq(v, 1, n)) = IF 1 <= n THEN n - 1 + 1 ELSE 0
  BY <1>2, SubSeqProperties
<1>4. (IF 1 <= n THEN n - 1 + 1 ELSE 0) = n BY <1>1
<1> QED BY <1>3, <1>4 DEF Upto

\* None, and all of them.
LEMMA UptoEnds ==
  ASSUME NEW v \in Seq(Nat)
  PROVE  Upto(v, 0) = <<>> /\ Upto(v, Len(v)) = v
<1>1. SubSeq(v, 1, Len(v)) = v BY SubSeqFull
<1>2. SubSeq(v, 1, 0) = <<>> BY SubSeqEmpty
<1> QED BY <1>1, <1>2 DEF Upto

\* What follows them.
LEMMA UptoCat ==
  ASSUME NEW v \in Seq(Nat), NEW n \in 0..Len(v), NEW m \in n..Len(v)
  PROVE  /\ Upto(v, n) \o SubSeq(v, n + 1, m) = Upto(v, m)
         /\ SubSeq(v, n + 1, m) \in Seq(Nat) /\ Len(SubSeq(v, n + 1, m)) = m - n
<1>1. Len(v) \in Nat /\ \A i \in 1..Len(v) : v[i] \in Nat OBVIOUS
<1>2. SubSeq(v, 1, n) \o SubSeq(v, n + 1, m) = SubSeq(v, 1, m)
  <2>1. 1 \in 1..(Len(v) + 1) /\ n \in (1 - 1)..Len(v) /\ m \in n..Len(v) BY <1>1
  <2> QED BY <2>1, ConcatAdjacentSubSeq
<1>3. /\ SubSeq(v, n + 1, m) \in Seq(Nat)
      /\ Len(SubSeq(v, n + 1, m)) = IF n + 1 <= m THEN m - (n + 1) + 1 ELSE 0
  <2>1. n + 1 \in Int /\ m \in Int /\ \A i \in (n + 1)..m : v[i] \in Nat BY <1>1
  <2> HIDE DEF Upto
  <2> QED BY <2>1, SubSeqProperties
<1>4. (IF n + 1 <= m THEN m - (n + 1) + 1 ELSE 0) = m - n BY <1>1
<1> QED BY <1>2, <1>3, <1>4 DEF Upto

\* A slice ends where the value does, or is as long as it may be.
LEMMA SliceIs ==
  ASSUME NEW v \in Seq(Nat), NEW n \in 0..Len(v), NEW k \in Nat
  PROVE  \E m \in n..Len(v) : /\ Slice(v, n, k) = SubSeq(v, n + 1, m)
                              /\ m = Len(v) \/ m = n + k
                              /\ m <= n + k
<1>1. Len(v) \in Nat OBVIOUS
<1>2. smaller(n + k, Len(v)) \in n..Len(v) /\ smaller(n + k, Len(v)) <= n + k
      /\ smaller(n + k, Len(v)) \in {Len(v), n + k}
  BY <1>1 DEF smaller
<1> QED BY <1>2 DEF Slice

\* A slice of a value is one of its elements.
LEMMA SliceSeq ==
  ASSUME NEW v \in Seq(Nat), NEW n \in Nat, NEW k \in Nat
  PROVE  Slice(v, n, k) \in Seq(Nat)
<1>1. Len(v) \in Nat /\ \A i \in 1..Len(v) : v[i] \in Nat OBVIOUS
<1> DEFINE e == smaller(n + k, Len(v))
           a == n + 1
<1>2. e \in Int /\ a \in Int /\ \A i \in a..e : v[i] \in Nat BY <1>1 DEF smaller
<1>3. Slice(v, n, k) = SubSeq(v, a, e) BY DEF Slice
<1> HIDE DEF e, a
<1> QED BY <1>2, <1>3, SubSeqProperties

\* The community module's prefixes.
LEMMA UptoPrefix ==
  ASSUME NEW v \in Seq(Nat), NEW n \in 0..Len(v)
  PROVE  IsPrefix(Upto(v, n), v)
<1> DEFINE s == Upto(v, n)
<1>1. s \in Seq(Nat) /\ Len(s) = n BY UptoLen
<1>2. SubSeq(s, 1, Len(s)) = s BY <1>1, SubSeqFull
<1>3. SubSeq(v, 1, Len(s)) = s BY <1>1 DEF Upto
<1>4. Len(s) <= Len(v)
  <2>1. Len(v) \in Nat OBVIOUS
  <2> QED BY <1>1, <2>1
<1> HIDE DEF s
<1>5. IsPrefix(s, v) BY <1>2, <1>3, <1>4 DEF IsPrefix
<1> QED BY <1>5 DEF s

-----------------------------------------------------------------------------
(***************************************************************************)
(* The data of procedures, commands and responses.                         *)
(***************************************************************************)
Handles == DOMAIN Values
Part == [handle : Handles, offset : Nat, value : Seq(Nat)]
Mtu == {n \in Nat : n >= 23}

ProcData(p) ==
  /\ p.call \in Calls
  /\ p.call.kind = "read" => p.list \in Seq(Nat)
  /\ p.call.kind = "write" => p.offset \in 0..Len(p.call.value)

\* The next part of the value of a long write.
NextPart(req, p) ==
  /\ req.handle = p.call.handle /\ req.offset = p.offset
  /\ \E m \in 0..Len(p.call.value) :
       m > p.offset /\ req.value = SubSeq(p.call.value, p.offset + 1, m)

ReadCmd(c, p) ==
  /\ c.req.handle = p.call.handle
  /\ \/ c.cb = "read_char_helper" /\ c.req.op = "READ_REQ" /\ p.list = <<>>
     \/ c.cb = "read_blob_helper" /\ c.req.op = "READ_BLOB_REQ" /\ c.req.offset = Len(p.list)

WriteCmd(c, p) ==
  \/ /\ c.cb = "func" /\ c.req.op = "WRITE_REQ"
     /\ c.req.handle = p.call.handle /\ c.req.value = p.call.value
  \/ c.cb = "prepare_write_cb" /\ c.req.op = "PREP_WRITE_REQ" /\ NextPart(c.req, p)
  \/ c.cb = "func" /\ c.req.op = "EXEC_WRITE_REQ" /\ p.offset = Len(p.call.value)

CutCmd(c, p) ==
  /\ c.cb = "none" /\ c.req.op = "WRITE_CMD" /\ c.req.handle = p.call.handle
  /\ c.req.value \in Seq(Nat) /\ IsPrefix(Cut(p.call.value), c.req.value)

AskOps == {"READ_BY_GROUP_REQ", "FIND_BY_TYPE_REQ", "READ_BY_TYPE_REQ", "READ_REQ",
           "FIND_INFO_REQ"}

CmdData(c, p) ==
  /\ p.call.kind = "read" => ReadCmd(c, p)
  /\ p.call.kind = "write" => WriteCmd(c, p)
  /\ p.call.kind = "write_cmd" => CutCmd(c, p)
  /\ p.call.kind = "mtu" =>
       c.cb = "exchange_mtu_cb" /\ c.req.op = "MTU_REQ" /\ c.req.mtu = p.call.mtu
  /\ p.call.kind = "primary" => c.cb \in {"primary_by_uuid_cb", "primary_all_cb"}
  /\ p.call.kind = "chars" => c.cb = "char_discovered_cb"
  /\ p.call.kind \in {"desc", "by_uuid"} => c.cb = "func"
  /\ p.call.kind \notin {"read", "write", "write_cmd", "mtu"} => c.req.op \in AskOps

\* A response: the echo of a part, the elements of a value, an MTU.
RspData(c, p, r) ==
  r.status = "OK" =>
    /\ p.call.kind = "read" => r.data \in Seq(Nat)
    /\ c.cb = "prepare_write_cb" => r.data = c.req.value
    /\ p.call.kind = "mtu" => r.data \in Mtu

\* The fields that a callback leaves alone.
Kept(p, q) == q.call = p.call /\ q.touched = p.touched /\ q.alone = p.alone /\ q.fault = p.fault

\* A procedure calls its user.
EndsNow(p, o, status, list) ==
  /\ o.reqs = <<>> /\ o.first = FALSE /\ Kept(p, o.p) /\ o.p.offset = p.offset
  /\ o.p.ends # <<>> /\ o.p.ends[1] = [status |-> status, list |-> list]

\* It goes on with one command.
GoesOn(p, o, c) ==
  o.reqs = <<c>> /\ Kept(p, o.p) /\ o.p.ends = p.ends

\* Fields of a procedure after an assignment to one of them.
LEMMA ExceptFields ==
  ASSUME NEW p, IsProc(p), NEW f \in ProcFields, NEW x, NEW q, q = [p EXCEPT ![f] = x]
  PROVE  q[f] = x /\ \A g \in ProcFields : g # f => q[g] = p[g]
BY DEF IsProc

\* A call of the user, field by field.
LEMMA EndedIs ==
  ASSUME NEW p, IsProc(p), NEW q, IsProc(q), Kept(p, q), q.offset = p.offset, q.ends = <<>>,
         NEW status, NEW list, NEW o, o = Ended(q, status, list)
  PROVE  EndsNow(p, o, status, list) /\ o.p.list = q.list
<1> DEFINE x == [status |-> status, list |-> list]
           e == Append(<<>>, x)
           q2 == [q EXCEPT !.ends = e]
<1>1. o = Quiet(q2) BY DEF Ended
<1>2. e # <<>> /\ e[1] = x
  <2> HIDE DEF x
  <2> QED OBVIOUS
<1> HIDE DEF e, x
<1>3. o.p = q2 /\ o.reqs = <<>> /\ o.first = FALSE BY <1>1 DEF Quiet, Sends
<1>4. q2.ends = e /\ q2.call = q.call /\ q2.touched = q.touched /\ q2.alone = q.alone
      /\ q2.fault = q.fault /\ q2.offset = q.offset /\ q2.list = q.list
  BY DEF IsProc, ProcFields
<1> HIDE DEF q2
<1>5. Kept(p, q2) BY <1>4 DEF Kept
<1> QED BY <1>2, <1>3, <1>4, <1>5 DEF EndsNow, x

-----------------------------------------------------------------------------
(***************************************************************************)
(* The callbacks of reads and writes.                                      *)
(***************************************************************************)
\* A response ends a read with what it has collected, adds its elements and
\* ends it because the buffer is not full, or adds them and asks on.
ReadGoes(p, r, o, m) ==
  /\ o.p.list \in Seq(Nat)
  /\ \/ r.status # "OK" /\ \E st : EndsNow(p, o, st, p.list)
     \/ /\ r.status = "OK" /\ Len(r.data) + 1 < m
        /\ \E st : EndsNow(p, o, st, p.list \o r.data)
     \/ /\ r.status = "OK" /\ o.p.list = p.list \o r.data
        /\ \E c : GoesOn(p, o, c) /\ ReadCmd(c, o.p)

\* The next Read Blob request, behind what is now collected.
ReadsOn(p, o, list) == o.p.list = list /\ \E c : GoesOn(p, o, c) /\ ReadCmd(c, o.p)

\* read_blob asks for it.
LEMMA ReadOn ==
  ASSUME NEW p, IsProc(p), NEW list, NEW q, q = [p EXCEPT !.list = list],
         NEW o, o = read_blob(q)
  PROVE  ReadsOn(p, o, list)
<1> DEFINE req == [op |-> "READ_BLOB_REQ", handle |-> q.call.handle, offset |-> Len(q.list)]
           c == [cb |-> "read_blob_helper", req |-> req]
<1>1. o.p = q /\ o.reqs = <<c>> BY DEF read_blob, Sends
<1>2. q.list = list /\ q.call = p.call /\ q.touched = p.touched /\ q.alone = p.alone
      /\ q.fault = p.fault /\ q.ends = p.ends
  BY DEF IsProc, ProcFields
<1>3. c.cb = "read_blob_helper" /\ c.req.op = "READ_BLOB_REQ" /\ c.req.handle = q.call.handle
      /\ c.req.offset = Len(q.list)
  OBVIOUS
<1> HIDE DEF c, req
<1>4. GoesOn(p, o, c) BY <1>1, <1>2 DEF GoesOn, Kept
<1>5. ReadCmd(c, q) BY <1>2, <1>3 DEF ReadCmd
<1> QED BY <1>1, <1>2, <1>4, <1>5 DEF ReadsOn

\* read_char_helper and read_blob_helper.
LEMMA ReadCallback ==
  ASSUME NEW p, IsProc(p), p.call.kind = "read", ProcData(p), p.ends = <<>>,
         NEW c, CmdData(c, p), NEW r, RspData(c, p, r), mtu \in Mtu,
         NEW o, o = Callback(c, p, r)
  PROVE  ReadGoes(p, r, o, mtu)
<1>1. p.list \in Seq(Nat) /\ Kept(p, p) BY DEF ProcData, Kept
<1>2. Kept(p, p) /\ ReadCmd(c, p) BY DEF Kept, CmdData
<1>3. CASE c.cb = "read_char_helper"
  <2>1. p.list = <<>> BY <1>2, <1>3 DEF ReadCmd
  <2>2. o = read_char_helper(p, r) BY <1>3 DEF Callback
  <2>3. CASE r.status # "OK"
    <3>1. o = Ended(p, r.status, <<>>) BY <2>2, <2>3 DEF read_char_helper
    <3> DEFINE st == r.status
               list == <<>>
    <3> HIDE DEF st, list
    <3>2. o = Ended(p, st, list) BY <3>1 DEF st, list
    <3>3. EndsNow(p, o, st, list) /\ o.p.list = p.list BY <1>1, <3>2, EndedIs
    <3> QED BY <1>1, <2>1, <2>3, <3>3 DEF ReadGoes, list
  <2>4. CASE r.status = "OK"
    <3>1. r.data \in Seq(Nat) BY <2>4 DEF RspData
    <3>2. Len(r.data) \in Nat /\ p.list \o r.data = r.data
      <4>1. <<>> \o r.data = r.data BY <3>1, ConcatEmptySeq
      <4> QED BY <2>1, <3>1, <4>1
    <3>3. CASE fills(r.data)
      <4> DEFINE q == [p EXCEPT !.list = r.data]
                 list == r.data
      <4>1. o = read_blob(q) /\ q = [p EXCEPT !.list = list] BY <2>2, <2>4, <3>3 DEF read_char_helper
      <4> HIDE DEF q, list
      <4>2. ReadsOn(p, o, list) BY <4>1, ReadOn
      <4> QED BY <2>4, <3>1, <3>2, <4>2 DEF ReadGoes, ReadsOn, list
    <3>4. CASE ~ fills(r.data)
      <4> DEFINE st == "OK"
                 list == r.data
      <4>1. o = Ended(p, st, list) BY <2>2, <2>4, <3>4 DEF read_char_helper
      <4>2. Len(r.data) + 1 < mtu BY <3>2, <3>4 DEF fills, Mtu
      <4> HIDE DEF st, list
      <4>3. EndsNow(p, o, st, list) /\ o.p.list = p.list BY <1>1, <4>1, EndedIs
      <4> QED BY <1>1, <2>4, <3>2, <4>2, <4>3 DEF ReadGoes, list
    <3> QED BY <3>3, <3>4
  <2> QED BY <2>3, <2>4
<1>4. CASE c.cb = "read_blob_helper"
  <2>2. o = read_blob_helper(p, r) BY <1>4 DEF Callback
  <2> DEFINE st == "OK"
             list == p.list
  <2>3. CASE r.status # "OK"
    <3>1. o = Ended(p, st, list) BY <2>2, <2>3 DEF read_blob_helper
    <3> HIDE DEF st, list
    <3>2. EndsNow(p, o, st, list) /\ o.p.list = p.list BY <1>1, <3>1, EndedIs
    <3> QED BY <1>1, <2>3, <3>2 DEF ReadGoes, list
  <2>4. CASE r.status = "OK"
    <3>1. r.data \in Seq(Nat) BY <2>4 DEF RspData
    <3>2. Len(r.data) \in Nat /\ p.list \o r.data \in Seq(Nat) BY <1>1, <3>1
    <3> DEFINE l2 == p.list \o r.data
               q == [p EXCEPT !.list = l2]
    <3>3. CASE r.data = <<>>
      <4>1. o = Ended(p, st, list) BY <2>2, <3>3 DEF read_blob_helper
      <4> HIDE DEF st, list
      <4>2. EndsNow(p, o, st, list) /\ o.p.list = p.list BY <1>1, <4>1, EndedIs
      <4>3. Len(r.data) + 1 < mtu BY <3>3 DEF Mtu
      <4>4. p.list \o r.data = p.list BY <1>1, <3>3, ConcatEmptySeq
      <4> QED BY <1>1, <2>4, <4>2, <4>3, <4>4 DEF ReadGoes, list
    <3>4. CASE r.data # <<>> /\ fills(r.data)
      <4>1. o = read_blob(q) BY <2>2, <2>4, <3>4 DEF read_blob_helper
      <4>2. q = [p EXCEPT !.list = l2] OBVIOUS
      <4> HIDE DEF q, l2
      <4>3. ReadsOn(p, o, l2) BY <4>1, <4>2, ReadOn
      <4> QED BY <2>4, <3>2, <4>3 DEF ReadGoes, ReadsOn, l2
    <3>5. CASE r.data # <<>> /\ ~ fills(r.data)
      <4>1. o = Ended(q, st, q.list) BY <2>2, <2>4, <3>5 DEF read_blob_helper
      <4>2. q.list = l2 /\ q.ends = <<>> /\ q.offset = p.offset /\ Kept(p, q)
        <5> HIDE DEF l2
        <5> QED BY DEF IsProc, ProcFields, Kept
      <4>3. IsProc(q)
        <5> HIDE DEF l2
        <5> QED BY SameExcept DEF Same
      <4>4. Len(r.data) + 1 < mtu BY <3>2, <3>5 DEF fills, Mtu
      <4> HIDE DEF q, l2, st
      <4>5. EndsNow(p, o, st, l2) /\ o.p.list = l2 BY <4>1, <4>2, <4>3, EndedIs
      <4> QED BY <2>4, <3>2, <4>4, <4>5 DEF ReadGoes, l2
    <3> QED BY <3>3, <3>4, <3>5
  <2> QED BY <2>3, <2>4
<1> QED BY <1>2, <1>3, <1>4 DEF ReadCmd

\* A part: its elements, its length, and the value up to its end.
LEMMA PartIs ==
  ASSUME NEW v \in Seq(Nat), NEW n \in 0..Len(v), NEW m \in 0..Len(v), m > n,
         NEW x, x = SubSeq(v, n + 1, m)
  PROVE  x \in Seq(Nat) /\ Len(x) = m - n /\ n + Len(x) = m /\ Upto(v, n) \o x = Upto(v, m)
<1>1. Len(v) \in Nat /\ m \in n..Len(v) OBVIOUS
<1>2. x \in Seq(Nat) /\ Len(x) = m - n /\ Upto(v, n) \o x = Upto(v, m) BY <1>1, UptoCat
<1>3. n + (m - n) = m BY <1>1
<1>4. n + Len(x) = m BY <1>2, <1>3
<1> QED BY <1>2, <1>4

\* The next Prepare Write request, or the first.
LEMMA PreparesPart ==
  ASSUME NEW p, IsProc(p), p.call.value \in Seq(Nat), p.offset \in 0..Len(p.call.value),
         p.offset # Len(p.call.value), mtu \in Mtu, NEW o, o = prepare_write(p)
  PROVE  \E c : /\ o.reqs = <<c>> /\ o.p = p /\ c.cb = "prepare_write_cb"
                /\ c.req.op = "PREP_WRITE_REQ" /\ NextPart(c.req, p)
<1> DEFINE v == p.call.value
           n == p.offset
           x == Slice(v, n, mtu - 5)
           req == [op |-> "PREP_WRITE_REQ", handle |-> p.call.handle, offset |-> p.offset,
                   value |-> x]
           c == [cb |-> "prepare_write_cb", req |-> req]
<1>1. o.reqs = <<c>> /\ o.p = p BY DEF prepare_write, Asks, Sends
<1>2. c.cb = "prepare_write_cb" /\ c.req.op = "PREP_WRITE_REQ" /\ c.req.handle = p.call.handle
      /\ c.req.offset = p.offset /\ c.req.value = x
  OBVIOUS
<1>3. v \in Seq(Nat) /\ n \in 0..Len(v) /\ Len(v) \in Nat /\ n < Len(v) OBVIOUS
<1>4. mtu - 5 \in Nat /\ mtu - 5 > 0 BY DEF Mtu
<1> DEFINE k == mtu - 5
<1>5. k \in Nat /\ k > 0 /\ x = Slice(v, n, k) BY <1>4
<1> HIDE DEF x, k, v, n, c
<1>6. PICK m \in n..Len(v) : /\ Slice(v, n, k) = SubSeq(v, n + 1, m)
                             /\ m = Len(v) \/ m = n + k
  BY <1>3, <1>5, SliceIs
<1>7. m \in 0..Len(v) /\ m > n BY <1>3, <1>5, <1>6
<1>8. NextPart(c.req, p) BY <1>2, <1>5, <1>6, <1>7 DEF NextPart, v, n
<1> QED BY <1>1, <1>2, <1>8

\* prepare_write_cb and the callback behind the last request of a write.
WriteGoes(p, c, r, o) ==
  \/ EndsNow(p, o, r.status, <<>>) /\ (r.status = "OK" => c.cb = "func")
  \/ /\ r.status = "OK" /\ c.cb = "prepare_write_cb"
     /\ o.p.offset = p.offset + Len(c.req.value)
     /\ \E x : /\ GoesOn(p, o, x) /\ WriteCmd(x, o.p)
               /\ x.req.op \in {"PREP_WRITE_REQ", "EXEC_WRITE_REQ"}

\* The callbacks of a write.
LEMMA WriteCallback ==
  ASSUME NEW p, IsProc(p), p.call.kind = "write", ProcData(p), p.ends = <<>>,
         NEW c, CmdData(c, p), NEW r, RspData(c, p, r), mtu \in Mtu,
         NEW o, o = Callback(c, p, r)
  PROVE  WriteGoes(p, c, r, o) /\ o.p.offset \in 0..Len(p.call.value)
<1>1. p.call \in Calls /\ p.offset \in 0..Len(p.call.value) BY DEF ProcData
<1>2. p.call.value \in Seq(Nat) BY <1>1, GattAssumption
<1>3. Kept(p, p) /\ WriteCmd(c, p) BY DEF Kept, CmdData
<1> DEFINE st == r.status
           none == <<>>
<1>4. ASSUME o = Ended(p, st, none) PROVE EndsNow(p, o, st, none)
  <2> HIDE DEF st, none
  <2> QED BY <1>3, <1>4, EndedIs
<1>5. CASE c.cb = "func"
  <2>1. o = Ended(p, st, none) BY <1>5 DEF Callback
  <2>2. EndsNow(p, o, st, none) BY <1>4, <2>1
  <2>3. o.p.offset = p.offset BY <2>2 DEF EndsNow
  <2> QED BY <1>1, <1>5, <2>2, <2>3 DEF WriteGoes
<1>6. CASE c.cb = "prepare_write_cb" /\ r.status # "OK"
  <2>1. o = Ended(p, st, none) BY <1>6 DEF Callback, prepare_write_cb
  <2>2. EndsNow(p, o, st, none) BY <1>4, <2>1
  <2>3. o.p.offset = p.offset BY <2>2 DEF EndsNow
  <2> QED BY <1>1, <1>6, <2>2, <2>3 DEF WriteGoes
<1>7. CASE c.cb = "prepare_write_cb" /\ r.status = "OK"
  <2>1. r.data = c.req.value BY <1>7 DEF RspData
  <2>2. NextPart(c.req, p) BY <1>3, <1>7 DEF WriteCmd
  <2> DEFINE x == c.req.value
             n2 == p.offset + Len(x)
             q == [p EXCEPT !.offset = n2]
             v == p.call.value
  <2>3. n2 \in 0..Len(v)
    <3>1. PICK m \in 0..Len(v) : m > p.offset /\ x = SubSeq(v, p.offset + 1, m)
      BY <2>2 DEF NextPart
    <3>2. v \in Seq(Nat) /\ p.offset \in 0..Len(v) BY <1>1, <1>2
    <3> HIDE DEF v, x
    <3>3. p.offset + Len(x) = m BY <3>1, <3>2, PartIs
    <3> QED BY <3>1, <3>3
  <2>4. o = IF q.offset = Len(p.call.value) THEN execute_write(q) ELSE prepare_write(q)
    BY <1>7, <2>1 DEF Callback, prepare_write_cb
  <2> HIDE DEF n2
  <2>5. q.offset = n2 /\ q.call = p.call /\ q.touched = p.touched /\ q.alone = p.alone
        /\ q.fault = p.fault /\ q.ends = p.ends
    BY DEF IsProc, ProcFields
  <2>6. IsProc(q) BY SameExcept DEF Same
  <2> HIDE DEF q
  <2>7. Kept(p, q) BY <2>5 DEF Kept
  <2>8. CASE n2 = Len(v)
    <3> DEFINE e == [cb |-> "func", req |-> [op |-> "EXEC_WRITE_REQ"]]
    <3>1. o.p = q /\ o.reqs = <<e>> BY <2>4, <2>5, <2>8 DEF execute_write, Asks, Sends
    <3>2. e.cb = "func" /\ e.req.op = "EXEC_WRITE_REQ" OBVIOUS
    <3> HIDE DEF e
    <3>3. GoesOn(p, o, e) BY <2>5, <2>7, <3>1 DEF GoesOn
    <3>4. WriteCmd(e, o.p) BY <2>5, <2>8, <3>1, <3>2 DEF WriteCmd
    <3>5. o.p.offset = n2 BY <2>5, <3>1
    <3> QED BY <1>7, <2>3, <3>2, <3>3, <3>4, <3>5 DEF WriteGoes, n2
  <2>9. CASE n2 # Len(v)
    <3>1. o = prepare_write(q) BY <2>4, <2>5, <2>9
    <3>2. q.call.value \in Seq(Nat) /\ q.offset \in 0..Len(q.call.value)
          /\ q.offset # Len(q.call.value)
      BY <1>2, <2>3, <2>5, <2>9
    <3>3. PICK e : /\ o.reqs = <<e>> /\ o.p = q /\ e.cb = "prepare_write_cb"
                   /\ e.req.op = "PREP_WRITE_REQ" /\ NextPart(e.req, q)
      BY <2>6, <3>1, <3>2, PreparesPart
    <3>4. GoesOn(p, o, e) BY <2>5, <2>7, <3>3 DEF GoesOn
    <3>5. WriteCmd(e, o.p) BY <3>3 DEF WriteCmd
    <3>6. o.p.offset = n2 BY <2>5, <3>3
    <3> QED BY <1>7, <2>3, <3>3, <3>4, <3>5, <3>6 DEF WriteGoes, n2
  <2> QED BY <2>8, <2>9
<1> QED BY <1>3, <1>5, <1>6, <1>7 DEF WriteCmd

-----------------------------------------------------------------------------
(***************************************************************************)
(* The callbacks of all procedures keep the data in order.                 *)
(***************************************************************************)
DataGoes(p, o) ==
  /\ ProcData(o.p)
  /\ p.call.kind \in {"read", "write"} => Kept(p, o.p)
  /\ \A k \in DOMAIN o.reqs : CmdData(o.reqs[k], o.p)

\* The positions of none and of one.
LEMMA FewReqs ==
  ASSUME NEW c
  PROVE  DOMAIN <<>> = {} /\ DOMAIN <<c>> = {1} /\ <<c>>[1] = c
<1>1. IsSeq(<<>>) /\ Len(<<>>) = 0 BY DEF IsSeq
<1>2. DOMAIN <<>> = {} BY <1>1, SeqLen
<1> DEFINE s == <<c>>
<1>3. Len(s) = 1 /\ s[1] = c /\ s \in Seq({c}) OBVIOUS
<1>4. IsSeq(s) BY <1>3, AnySeq
<1> HIDE DEF s
<1>5. DOMAIN s = 1..1 BY <1>3, <1>4, SeqLen
<1> QED BY <1>2, <1>3, <1>5 DEF s

\* A request of a discovery.
LEMMA AskData ==
  ASSUME NEW p, p.call.kind \in {"primary", "chars", "included"}, NEW c, c.req.op \in AskOps,
         p.call.kind = "primary" => c.cb \in {"primary_by_uuid_cb", "primary_all_cb"},
         p.call.kind = "chars" => c.cb = "char_discovered_cb"
  PROVE  CmdData(c, p)
BY DEF CmdData

\* Requests that only ask.
Asking(reqs) == IsSeq(reqs) /\ \A k \in DOMAIN reqs : reqs[k].req.op \in AskOps

\* The requests of an included service discovery only ask.
LEMMA IncludedAsks ==
  ASSUME NEW p, NEW c, c.cb \in IncludedCbs, NEW r, RspOk(c, r), NEW o, o = Callback(c, p, r)
  PROVE  Asking(o.reqs)
<1>1. Asking(<<>>) BY ReqsNone, FewReqs DEF Asking, ReqsOk
<1>2. ASSUME NEW q PROVE Asking(Quiet(q).reqs) BY <1>1 DEF Quiet, Sends
<1>3. CASE c.cb = "resolve_included_uuid_cb"
  <2>1. \E q : o = Quiet(q) BY <1>3 DEF Callback, resolve_included_uuid_cb
  <2> QED BY <1>2, <2>1
<1>4. CASE c.cb = "find_included_cb" /\ r.status # "OK"
  <2>1. \E q : o = Quiet(q) BY <1>4 DEF Callback, find_included_cb
  <2> QED BY <1>2, <2>1
<1>5. CASE c.cb = "find_included_cb" /\ r.status = "OK"
  <2> DEFINE last == Last(r.data).handle
             res == resolve_included_uuid(p, r.data)
             got == IF r.ulen = 16 THEN res ELSE Quiet([p EXCEPT !.list = @ \o r.data])
             fnd == find_included(got.p, next_handle(last))
             more == IF last < p.call.end THEN fnd ELSE Quiet(got.p)
             s == got.reqs
             t == more.reqs
             u == s \o t
  <2>1. o.reqs = u BY <1>5 DEF Callback, find_included_cb, Sends
  <2>2. Asking(res.reqs)
    <3> DEFINE d == r.data
               reqs == [k \in DOMAIN d |-> resolve_request(d[k])]
               n == Len(d)
    <3>1. IsSeq(d) BY <1>5 DEF RspOk
    <3>2. n \in Nat /\ DOMAIN d = 1..n
      <4> HIDE DEF d
      <4> QED BY <3>1, SeqLen
    <3>3. res.reqs = reqs BY DEF resolve_included_uuid, Sends
    <3>4. reqs = [k \in 1..n |-> reqs[k]] BY <3>2
    <3>5. \A k \in DOMAIN reqs : reqs[k].req.op \in AskOps BY DEF resolve_request, AskOps
    <3> HIDE DEF reqs, n
    <3>6. IsSeq(reqs) BY <3>2, <3>4, FcnSeq
    <3>7. Asking(reqs) BY <3>5, <3>6 DEF Asking
    <3> QED BY <3>3, <3>7
  <2>3. Asking(fnd.reqs)
    <3> DEFINE x == [cb |-> "find_included_cb",
                     req |-> [op |-> "READ_BY_TYPE_REQ", type |-> "INCLUDE", start |-> next_handle(last),
                              end |-> got.p.call.end]]
    <3>1. fnd.reqs = <<x>> BY DEF find_included, Asks, Sends
    <3>2. x.req.op \in AskOps BY DEF AskOps
    <3> HIDE DEF x
    <3>3. <<x>> \in Seq({x}) OBVIOUS
    <3>4. IsSeq(<<x>>) BY <3>3, AnySeq
    <3>5. Asking(<<x>>) BY <3>2, <3>4, FewReqs DEF Asking
    <3> QED BY <3>1, <3>5
  <2>4. Asking(s)
    <3> HIDE DEF res
    <3> QED BY <1>2, <2>2
  <2> HIDE DEF got
  <2>5. Asking(t)
    <3> HIDE DEF fnd
    <3> QED BY <1>2, <2>3
  <2>6. u = s \o t OBVIOUS
  <2> HIDE DEF s, t, u
  <2>7. IsSeq(u) /\ \A k \in DOMAIN u : (\E j \in DOMAIN s : u[k] = s[j]) \/ (\E j \in DOMAIN t : u[k] = t[j])
    <3>1. Joins(u, s, t) BY <2>4, <2>5, <2>6, CatJoins DEF Asking
    <3> QED BY <3>1 DEF Joins
  <2>8. Asking(u) BY <2>4, <2>5, <2>7 DEF Asking
  <2> QED BY <2>1, <2>8
<1> QED BY <1>3, <1>4, <1>5 DEF IncludedCbs

\* Every callback.
LEMMA CallbackData ==
  ASSUME NEW p, IsProc(p), ProcData(p), p.call.kind \notin {"included", "write_cmd"} => p.ends = <<>>,
         NEW c, CmdOk(c, p.call.kind), CmdData(c, p),
         NEW r, RspOk(c, r), RspData(c, p, r), mtu \in Mtu, NEW o, o = Callback(c, p, r)
  PROVE  DataGoes(p, o)
<1>1. o.p.call = p.call
  <2>1. Goes(p, Callback(c, p, r)) BY CallbackGoes
  <2> QED BY <2>1 DEF Goes
<1>2. ASSUME p.call.kind \notin {"read", "write"} PROVE ProcData(o.p) BY <1>1, <1>2 DEF ProcData
<1>3. ASSUME o.reqs = <<>>, p.call.kind \notin {"read", "write"} PROVE DataGoes(p, o)
  BY <1>2, <1>3, FewReqs DEF DataGoes
<1>4. CASE p.call.kind = "read"
  <2>1. ReadGoes(p, r, o, mtu) BY <1>4, ReadCallback
  <2>2. ProcData(o.p) BY <1>1, <1>4, <2>1 DEF ProcData, ReadGoes
  <2>3. CASE \E st, l : EndsNow(p, o, st, l)
    BY <2>2, <2>3, FewReqs DEF EndsNow, DataGoes
  <2>4. CASE \E x : GoesOn(p, o, x) /\ ReadCmd(x, o.p)
    <3>1. PICK x : GoesOn(p, o, x) /\ ReadCmd(x, o.p) BY <2>4
    <3>2. CmdData(x, o.p) BY <1>1, <1>4, <3>1 DEF CmdData
    <3>3. DOMAIN o.reqs = {1} /\ o.reqs[1] = x BY <3>1, FewReqs DEF GoesOn
    <3> QED BY <2>2, <3>1, <3>2, <3>3 DEF DataGoes, GoesOn
  <2> QED BY <2>1, <2>3, <2>4 DEF ReadGoes
<1>5. CASE p.call.kind = "write"
  <2>1. WriteGoes(p, c, r, o) /\ o.p.offset \in 0..Len(p.call.value) BY <1>5, WriteCallback
  <2>2. ProcData(o.p) BY <1>1, <1>5, <2>1 DEF ProcData
  <2>3. CASE \E st, l : EndsNow(p, o, st, l)
    BY <2>2, <2>3, FewReqs DEF EndsNow, DataGoes
  <2>4. CASE \E x : GoesOn(p, o, x) /\ WriteCmd(x, o.p)
    <3>1. PICK x : GoesOn(p, o, x) /\ WriteCmd(x, o.p) BY <2>4
    <3>2. CmdData(x, o.p) BY <1>1, <1>5, <3>1 DEF CmdData
    <3>3. DOMAIN o.reqs = {1} /\ o.reqs[1] = x BY <3>1, FewReqs DEF GoesOn
    <3> QED BY <2>2, <3>1, <3>2, <3>3 DEF DataGoes, GoesOn
  <2> QED BY <2>1, <2>3, <2>4 DEF WriteGoes
<1>6. CASE p.call.kind = "included"
  <2>1. c.cb \in IncludedCbs BY <1>6 DEF CmdOk
  <2>2. Asking(o.reqs) BY <2>1, IncludedAsks
  <2>3. o.p.call.kind = "included" BY <1>1, <1>6
  <2>4. ASSUME NEW k \in DOMAIN o.reqs PROVE CmdData(o.reqs[k], o.p)
    BY <2>2, <2>3, AskData DEF Asking
  <2> QED BY <1>2, <1>6, <2>4 DEF DataGoes
<1>7. CASE p.call.kind = "write_cmd"
  <2>1. o = Quiet(p) BY <1>7 DEF CmdOk, Callback
  <2>2. o.reqs = <<>> BY <2>1 DEF Quiet, Sends
  <2> QED BY <1>3, <1>7, <2>2
<1>8. CASE p.call.kind \in {"mtu", "desc", "by_uuid"}
  <2>1. c.cb \in {"func", "exchange_mtu_cb"} BY <1>8 DEF CmdData
  <2>2. o = Ended(p, r.status, <<>>) BY <2>1 DEF Callback
  <2>3. o.reqs = <<>> BY <2>2 DEF Ended, Quiet, Sends
  <2> QED BY <1>3, <1>8, <2>3
<1>9. CASE p.call.kind \in {"primary", "chars"}
  <2>1. \/ o.reqs = <<>>
        \/ \E x : /\ o.reqs = <<x>> /\ x.req.op \in AskOps
                  /\ p.call.kind = "primary" => x.cb \in {"primary_by_uuid_cb", "primary_all_cb"}
                  /\ p.call.kind = "chars" => x.cb = "char_discovered_cb"
    <3>1. CASE p.call.kind = "primary"
      <4>1. c.cb \in {"primary_by_uuid_cb", "primary_all_cb"} BY <3>1 DEF CmdData
      <4>2. o = primary_cb(p, r) BY <4>1 DEF Callback
      <4> DEFINE x == [cb |-> discover_primary_cb(p.call.uuid),
                       req |-> encode_discover_primary(next_handle(Last(r.data).end), p.call.uuid)]
      <4>3. o.reqs \in {<<>>, <<x>>} BY <4>2 DEF primary_cb, Ended, Asks, Quiet, Sends
      <4>4. x.req.op \in AskOps /\ x.cb \in {"primary_by_uuid_cb", "primary_all_cb"}
        BY DEF discover_primary_cb, encode_discover_primary, AskOps
      <4> HIDE DEF x
      <4> QED BY <3>1, <4>3, <4>4
    <3>2. CASE p.call.kind = "chars"
      <4>1. c.cb = "char_discovered_cb" BY <3>2 DEF CmdData
      <4>2. o = char_discovered_cb(p, r) BY <4>1 DEF Callback
      <4> DEFINE x == [cb |-> "char_discovered_cb",
                       req |-> discover_char_req(next_handle(Last(r.data).handle), p.call.end)]
      <4>3. o.reqs \in {<<>>, <<x>>}
        BY <4>2 DEF char_discovered_cb, discover_char_ended, Ended, Asks, Quiet, Sends
      <4>4. x.req.op \in AskOps /\ x.cb = "char_discovered_cb" BY DEF discover_char_req, AskOps
      <4> HIDE DEF x
      <4> QED BY <3>2, <4>3, <4>4
    <3> QED BY <1>9, <3>1, <3>2
  <2>2. CASE o.reqs = <<>> BY <1>3, <1>9, <2>2
  <2>3. CASE o.reqs # <<>>
    <3>1. PICK x : /\ o.reqs = <<x>> /\ x.req.op \in AskOps
                   /\ p.call.kind = "primary" => x.cb \in {"primary_by_uuid_cb", "primary_all_cb"}
                   /\ p.call.kind = "chars" => x.cb = "char_discovered_cb"
      BY <2>1, <2>3
    <3>2. CmdData(x, o.p) BY <1>1, <1>9, <3>1, AskData
    <3>3. DOMAIN o.reqs = {1} /\ o.reqs[1] = x BY <3>1, FewReqs
    <3> QED BY <1>2, <1>9, <3>2, <3>3 DEF DataGoes
  <2> QED BY <2>2, <2>3
<1>10. p.call.kind \in Kinds BY DEF IsProc
<1> QED BY <1>4, <1>5, <1>6, <1>7, <1>8, <1>9, <1>10 DEF Kinds

-----------------------------------------------------------------------------
(***************************************************************************)
(* The queue: a procedure with a command there has not called its user,    *)
(* and but for included service discoveries it has one command only.       *)
(***************************************************************************)
Plain(p) == p.call.kind \notin {"included", "write_cmd"}

\* A procedure with a command has not called its user.
LEMMA NotEnded ==
  ASSUME NEW ps, NEW q, QueueOk(ps, q), NEW k \in DOMAIN q,
         ps[q[k].proc].call.kind # "write_cmd"
  PROVE  ps[q[k].proc].ends = <<>>
<1> DEFINE i == q[k].proc
           p == ps[i]
           n == Count(q, i)
<1>1. IsSeq(q) /\ i \in DOMAIN ps /\ IsProc(p) /\ Balanced(p, n) BY DEF QueueOk
<1>2. n \in Nat /\ n # 0 BY <1>1, AtFinite
<1>3. Len(p.ends) \in Nat /\ (Len(p.ends) = 0 => p.ends = <<>>) BY <1>1, SeqLen DEF IsProc
<1> HIDE DEF n
<1>4. Len(p.ends) = 0 BY <1>1, <1>2, <1>3 DEF Balanced
<1> QED BY <1>3, <1>4

\* A plain procedure has one command.
LEMMA OneCommand ==
  ASSUME NEW ps, NEW q, QueueOk(ps, q), NEW k \in DOMAIN q, NEW j \in DOMAIN q,
         q[j].proc = q[k].proc, Plain(ps[q[k].proc])
  PROVE  j = k
<1> DEFINE i == q[k].proc
           p == ps[i]
           n == Count(q, i)
           S == At(q, i)
<1>1. IsSeq(q) /\ i \in DOMAIN ps /\ IsProc(p) /\ Balanced(p, n) BY DEF QueueOk
<1>2. n \in Nat /\ n # 0 /\ IsFiniteSet(S) BY <1>1, AtFinite
<1>3. Len(p.ends) \in Nat BY <1>1, SeqLen DEF IsProc
<1>4. Cardinality(S) = n BY DEF Count
<1>5. k \in S /\ j \in S BY DEF At
<1> HIDE DEF n, S
<1>6. n = 1 BY <1>1, <1>2, <1>3 DEF Balanced, Plain
<1>7. PICK x : S = {x} BY <1>2, <1>4, <1>6, FS_Singleton
<1> QED BY <1>5, <1>7

-----------------------------------------------------------------------------
(***************************************************************************)
(* The invariant of the data.  The client and the server use the same MTU, *)
(* except while the response that tells the client of the new one is on    *)
(* its way.                                                                *)
(***************************************************************************)
AllProcData(ps) == \A i \in DOMAIN ps : ProcData(ps[i])
AllCmdData(ps, q) == \A k \in DOMAIN q : CmdData(q[k], ps[q[k].proc])
HeadData == rsp # NoRsp => RspData(queue[1], procs[queue[1].proc], rsp)
ServerData ==
  values \in [Handles -> Seq(Nat)] /\ prep \in Seq(Part) /\ mtu \in Mtu /\ smtu \in Mtu

MtuComes == rsp.status = "OK" /\ queue[1].cb = "exchange_mtu_cb"
MtuKept ==
  /\ queue # <<>> => ~ stale
  /\ ~ stale => IF MtuComes THEN smtu = new_mtu(queue[1].req.mtu, rsp.data) ELSE mtu = smtu

DInv ==
  AllProcData(procs) /\ AllCmdData(procs, queue) /\ HeadData /\ ServerData /\ MtuKept

\* Only the history of the procedure changes.
Hist(p, q) ==
  /\ q.call = p.call /\ q.list = p.list /\ q.offset = p.offset /\ q.ends = p.ends
  /\ q.alone = p.alone

\* The data stay.
LEMMA HistData ==
  ASSUME NEW p, NEW q, Hist(p, q)
  PROVE  /\ ProcData(p) => ProcData(q)
         /\ \A c : CmdData(c, p) => CmdData(c, q)
         /\ \A c, r : RspData(c, p, r) => RspData(c, q, r)
<1>1. ProcData(p) => ProcData(q) BY DEF Hist, ProcData
<1>2. ASSUME NEW c, CmdData(c, p) PROVE CmdData(c, q)
  <2>1. ReadCmd(c, p) => ReadCmd(c, q) BY DEF Hist, ReadCmd
  <2>2. WriteCmd(c, p) => WriteCmd(c, q) BY DEF Hist, WriteCmd, NextPart
  <2>3. CutCmd(c, p) => CutCmd(c, q) BY DEF Hist, CutCmd
  <2>4. q.call = p.call BY DEF Hist
  <2> QED BY <1>2, <2>1, <2>2, <2>3, <2>4 DEF CmdData
<1>3. ASSUME NEW c, NEW r, RspData(c, p, r) PROVE RspData(c, q, r) BY <1>3 DEF Hist, RspData
<1> QED BY <1>1, <1>2, <1>3

\* Also of all procedures.
HistOnly(ps, ps2) == DOMAIN ps2 = DOMAIN ps /\ \A i \in DOMAIN ps : Hist(ps[i], ps2[i])

\* The data of all procedures stay.
LEMMA HistAllData ==
  ASSUME NEW ps, NEW ps2, HistOnly(ps, ps2), NEW q, QueueOk(ps, q), AllProcData(ps), AllCmdData(ps, q)
  PROVE  AllProcData(ps2) /\ AllCmdData(ps2, q)
<1>1. ASSUME NEW i \in DOMAIN ps2 PROVE ProcData(ps2[i]) BY HistData DEF HistOnly, AllProcData
<1>2. ASSUME NEW k \in DOMAIN q PROVE CmdData(q[k], ps2[q[k].proc])
  <2> DEFINE c == q[k]
             p == ps[c.proc]
             p2 == ps2[c.proc]
  <2>1. c.proc \in DOMAIN ps BY DEF QueueOk
  <2>2. Hist(p, p2) /\ CmdData(c, p) BY <2>1 DEF HistOnly, AllCmdData
  <2> HIDE DEF c, p, p2
  <2>3. CmdData(c, p2) BY <2>2, HistData
  <2> QED BY <2>3 DEF c, p2
<1> QED BY <1>1, <1>2 DEF AllProcData, AllCmdData

\* What a write leaves of the reads: those of a value that changes are
\* touched.
LEMMA TouchEffect ==
  ASSUME QueueOk(procs, queue), NEW new, NEW ps2, ps2 = Touch(new)
  PROVE  /\ HistOnly(procs, ps2)
         /\ \A i \in DOMAIN procs :
              /\ ps2[i].fault = procs[i].fault
              /\ procs[i].call.kind = "read" /\ ~ ps2[i].touched =>
                   ~ procs[i].touched /\ new[procs[i].call.handle] = values[procs[i].call.handle]
<1>1. DOMAIN ps2 = DOMAIN procs BY DEF Touch
<1>2. ASSUME NEW i \in DOMAIN procs
      PROVE  /\ Hist(procs[i], ps2[i]) /\ ps2[i].fault = procs[i].fault
             /\ procs[i].call.kind = "read" /\ ~ ps2[i].touched =>
                  ~ procs[i].touched /\ new[procs[i].call.handle] = values[procs[i].call.handle]
  <2> DEFINE p == procs[i]
             same == ~ (p.call.kind = "read" /\ new[p.call.handle] # values[p.call.handle])
             p2 == [p EXCEPT !.touched = TRUE]
  <2>1. IsProc(p) BY DEF QueueOk
  <2>2. ps2[i] = IF same THEN p ELSE p2 BY DEF Touch
  <2>3. Hist(p, p) BY DEF Hist
  <2>4. p2.call = p.call /\ p2.list = p.list /\ p2.offset = p.offset /\ p2.ends = p.ends
        /\ p2.alone = p.alone /\ p2.fault = p.fault /\ p2.touched = TRUE
    <3> HIDE DEF p
    <3> QED BY <2>1 DEF IsProc, ProcFields
  <2>5. Hist(p, p2) BY <2>4 DEF Hist
  <2> HIDE DEF p2, p
  <2>6. CASE same BY <2>2, <2>3, <2>6 DEF p
  <2>7. CASE ~ same BY <2>2, <2>4, <2>5, <2>7 DEF p
  <2> QED BY <2>6, <2>7
<1> QED BY <1>1, <1>2 DEF HistOnly

-----------------------------------------------------------------------------
(***************************************************************************)
(* The first command of a procedure.                                       *)
(***************************************************************************)
\* The first elements of the first elements.
LEMMA UptoUpto ==
  ASSUME NEW v \in Seq(Nat), NEW m \in 0..Len(v), NEW n \in 0..m
  PROVE  Upto(Upto(v, m), n) = Upto(v, n)
<1>1. Len(v) \in Nat /\ n \in 0..Len(v) OBVIOUS
<1> DEFINE w == Upto(v, m)
           a == Upto(w, n)
           b == Upto(v, n)
<1>2. w \in Seq(Nat) /\ Len(w) = m /\ b \in Seq(Nat) /\ Len(b) = n BY <1>1, UptoLen
<1>3. \A i \in 1..m : w[i] = v[i] BY <1>1 DEF Upto
<1>4. \A i \in 1..n : b[i] = v[i] BY <1>1 DEF Upto
<1> HIDE DEF w
<1>5. a \in Seq(Nat) /\ Len(a) = n BY <1>2, UptoLen
<1>6. \A i \in 1..n : a[i] = w[i] BY <1>2 DEF Upto
<1>7. \A i \in 1..n : a[i] = b[i] BY <1>3, <1>4, <1>6
<1> HIDE DEF a, b
<1>8. a = b BY <1>2, <1>5, <1>7, SeqEqual
<1> QED BY <1>8 DEF a, b, w

\* What fits in a command is at least what the default MTU has room for.
LEMMA CutPrefix ==
  ASSUME NEW v \in Seq(Nat), mtu \in Mtu
  PROVE  Slice(v, 0, mtu - 3) \in Seq(Nat) /\ IsPrefix(Cut(v), Slice(v, 0, mtu - 3))
<1> DEFINE z == 0
           k == mtu - 3
           d == ATT_DEFAULT_LE_MTU - 3
<1>1. Len(v) \in Nat /\ z \in 0..Len(v) /\ k \in Nat /\ d \in Nat /\ d <= k /\ z + k = k /\ z + d = d
  BY DEF Mtu, ATT_DEFAULT_LE_MTU
<1> HIDE DEF z, k, d
<1>2. PICK m \in z..Len(v) : /\ Slice(v, z, k) = SubSeq(v, z + 1, m)
                             /\ m = Len(v) \/ m = z + k
  BY <1>1, SliceIs
<1>3. PICK n \in z..Len(v) : /\ Slice(v, z, d) = SubSeq(v, z + 1, n)
                             /\ n <= z + d
  BY <1>1, SliceIs
<1>4. m \in 0..Len(v) /\ n \in 0..m BY <1>1, <1>2, <1>3 DEF z
<1> DEFINE w == Upto(v, m)
<1>5. w \in Seq(Nat) /\ Len(w) = m BY <1>4, UptoLen
<1>6. Upto(w, n) = Upto(v, n) BY <1>4, UptoUpto
<1>7. z + 1 = 1 BY DEF z
<1>8. Slice(v, z, k) = w /\ Slice(v, z, d) = Upto(v, n) BY <1>2, <1>3, <1>7 DEF Upto
<1> HIDE DEF w
<1>9. IsPrefix(Upto(w, n), w) BY <1>4, <1>5, UptoPrefix
<1>10. IsPrefix(Slice(v, z, d), Slice(v, z, k)) BY <1>6, <1>8, <1>9
<1> QED BY <1>5, <1>8, <1>10 DEF Cut, z, k, d

\* A new procedure and its command.
StartsData(c, p, o) ==
  /\ ProcData(o.p) /\ \A k \in DOMAIN o.reqs : CmdData(o.reqs[k], o.p)
  /\ o.p.call = c /\ o.p.list = <<>> /\ o.p.offset = 0 /\ o.p.ends = <<>>
  /\ o.p.alone = p.alone
  /\ c.kind = "write" =>
       \A k \in DOMAIN o.reqs : o.reqs[k].req.op \in {"WRITE_REQ", "PREP_WRITE_REQ"}

\* Every call starts so.
LEMMA StartData ==
  ASSUME NEW c \in Calls, mtu \in Mtu, NEW p, p = NewProc(c), NEW o, o = Start(p)
  PROVE  StartsData(c, p, o)
<1>1. p = [f \in ProcFields |-> p[f]] BY DEF NewProc, ProcFields
<1>2. p.call = c /\ p.list = <<>> /\ p.offset = 0 /\ p.ends = <<>> /\ p.refs = 0 BY DEF NewProc
<1>3. c.kind \in Kinds /\ (c.kind \in {"write", "write_cmd"} => c.value \in Seq(Nat))
  BY GattAssumption
<1>4. IsProc(p)
  <2>1. IsSeq(<<>>) BY ReqsNone DEF ReqsOk
  <2> QED BY <1>1, <1>2, <1>3, <2>1 DEF IsProc
<1>5. ProcData(p)
  <2>1. <<>> \in Seq(Nat) OBVIOUS
  <2>2. c.kind = "write" => 0 \in 0..Len(c.value) BY <1>3
  <2> QED BY <1>2, <2>1, <2>2 DEF ProcData
<1>6. ASSUME NEW x, o.reqs = <<x>>, o.p = p, CmdData(x, p),
             c.kind = "write" => x.req.op \in {"WRITE_REQ", "PREP_WRITE_REQ"}
      PROVE  StartsData(c, p, o)
  <2>1. DOMAIN o.reqs = {1} /\ o.reqs[1] = x BY <1>6, FewReqs
  <2> QED BY <1>2, <1>5, <1>6, <2>1 DEF StartsData
<1>7. CASE c.kind = "included"
  <2> DEFINE q == [p EXCEPT !.refs = @ + 1]
             x == [cb |-> "find_included_cb",
                   req |-> [op |-> "READ_BY_TYPE_REQ", type |-> "INCLUDE", start |-> c.start,
                            end |-> c.end]]
  <2>1. o.p = q /\ o.reqs = <<x>>
    BY <1>2, <1>7 DEF Start, gatt_find_included, find_included, isd_ref, Asks, Sends
  <2>2. q.call = c /\ q.list = <<>> /\ q.offset = 0 /\ q.ends = <<>> /\ q.alone = p.alone
    BY <1>1, <1>2 DEF ProcFields
  <2>3. x.req.op \in AskOps BY DEF AskOps
  <2> HIDE DEF x, q
  <2>4. CmdData(x, q) BY <1>7, <2>2, <2>3, AskData
  <2>5. ProcData(q) BY <1>7, <2>2 DEF ProcData
  <2>6. DOMAIN o.reqs = {1} /\ o.reqs[1] = x BY <2>1, FewReqs
  <2> QED BY <1>7, <2>1, <2>2, <2>4, <2>5, <2>6 DEF StartsData
<1>8. CASE c.kind = "primary"
  <2> DEFINE x == [cb |-> discover_primary_cb(c.uuid), req |-> encode_discover_primary(1, c.uuid)]
  <2>1. o.p = p /\ o.reqs = <<x>> BY <1>2, <1>8 DEF Start, gatt_discover_primary, Asks, Sends
  <2>2. x.req.op \in AskOps /\ x.cb \in {"primary_by_uuid_cb", "primary_all_cb"}
    BY DEF discover_primary_cb, encode_discover_primary, AskOps
  <2> HIDE DEF x
  <2>3. CmdData(x, p) BY <1>2, <1>8, <2>2, AskData
  <2> QED BY <1>6, <1>8, <2>1, <2>3
<1>9. CASE c.kind = "chars"
  <2> DEFINE x == [cb |-> "char_discovered_cb", req |-> discover_char_req(c.start, c.end)]
  <2>1. o.p = p /\ o.reqs = <<x>> BY <1>2, <1>9 DEF Start, gatt_discover_char, Asks, Sends
  <2>2. x.req.op \in AskOps /\ x.cb = "char_discovered_cb" BY DEF discover_char_req, AskOps
  <2> HIDE DEF x
  <2>3. CmdData(x, p) BY <1>2, <1>9, <2>2, AskData
  <2> QED BY <1>6, <1>9, <2>1, <2>3
<1>10. CASE c.kind = "read"
  <2> DEFINE x == [cb |-> "read_char_helper", req |-> [op |-> "READ_REQ", handle |-> c.handle]]
  <2>1. o.p = p /\ o.reqs = <<x>> BY <1>2, <1>10 DEF Start, gatt_read_char, Asks, Sends
  <2>2. x.req.op = "READ_REQ" /\ x.req.handle = c.handle /\ x.cb = "read_char_helper" OBVIOUS
  <2> HIDE DEF x
  <2>3. CmdData(x, p) BY <1>2, <1>10, <2>2 DEF CmdData, ReadCmd
  <2> QED BY <1>6, <1>10, <2>1, <2>3
<1>11. CASE c.kind = "write" /\ IsLong(c)
  <2>1. o = prepare_write(p) BY <1>2, <1>11 DEF Start, gatt_write_char
  <2>2. p.call.value \in Seq(Nat) /\ p.offset \in 0..Len(p.call.value)
        /\ p.offset # Len(p.call.value)
    BY <1>2, <1>3, <1>11 DEF IsLong, Mtu
  <2>3. PICK x : /\ o.reqs = <<x>> /\ o.p = p /\ x.cb = "prepare_write_cb"
                 /\ x.req.op = "PREP_WRITE_REQ" /\ NextPart(x.req, p)
    BY <1>4, <2>1, <2>2, PreparesPart
  <2>4. CmdData(x, p) BY <1>2, <1>11, <2>3 DEF CmdData, WriteCmd
  <2> QED BY <1>6, <2>3, <2>4
<1>12. CASE c.kind = "write" /\ ~ IsLong(c)
  <2> DEFINE x == [cb |-> "func", req |-> [op |-> "WRITE_REQ", handle |-> c.handle,
                                           value |-> c.value]]
  <2>1. o.p = p /\ o.reqs = <<x>> BY <1>2, <1>12 DEF Start, gatt_write_char, Asks, Sends
  <2>2. x.req.op = "WRITE_REQ" /\ x.req.handle = c.handle /\ x.req.value = c.value /\ x.cb = "func"
    OBVIOUS
  <2> HIDE DEF x
  <2>3. CmdData(x, p) BY <1>2, <1>12, <2>2 DEF CmdData, WriteCmd
  <2> QED BY <1>6, <1>12, <2>1, <2>2, <2>3
<1>13. CASE c.kind = "mtu"
  <2> DEFINE x == [cb |-> "exchange_mtu_cb", req |-> [op |-> "MTU_REQ", mtu |-> c.mtu]]
  <2>1. o.p = p /\ o.reqs = <<x>> BY <1>2, <1>13 DEF Start, gatt_exchange_mtu, Asks, Sends
  <2>2. x.req.op = "MTU_REQ" /\ x.req.mtu = c.mtu /\ x.cb = "exchange_mtu_cb" OBVIOUS
  <2> HIDE DEF x
  <2>3. CmdData(x, p) BY <1>2, <1>13, <2>2 DEF CmdData
  <2> QED BY <1>6, <1>13, <2>1, <2>3
<1>14. CASE c.kind \in {"desc", "by_uuid"}
  <2> DEFINE y == IF c.kind = "desc" THEN [op |-> "FIND_INFO_REQ"]
                  ELSE [op |-> "READ_BY_TYPE_REQ", type |-> "VALUE"]
             x == [cb |-> "func", req |-> y]
  <2>1. o.p = p /\ o.reqs = <<x>>
    BY <1>2, <1>14 DEF Start, gatt_discover_char_desc, gatt_read_char_by_uuid, Asks, Sends
  <2>2. x.req.op \in AskOps /\ x.cb = "func" BY DEF AskOps
  <2> HIDE DEF x
  <2>3. CmdData(x, p) BY <1>2, <1>14, <2>2 DEF CmdData
  <2> QED BY <1>6, <1>14, <2>1, <2>3
<1>15. CASE c.kind = "write_cmd"
  <2> DEFINE v == c.value
             w == Slice(v, 0, mtu - 3)
             x == [cb |-> "none", req |-> [op |-> "WRITE_CMD", handle |-> c.handle, value |-> w]]
  <2>1. o.p = p /\ o.reqs = <<x>> BY <1>2, <1>15 DEF Start, gatt_write_cmd, Asks, Sends
  <2>2. x.req.op = "WRITE_CMD" /\ x.req.handle = c.handle /\ x.req.value = w /\ x.cb = "none" OBVIOUS
  <2>3. w \in Seq(Nat) /\ IsPrefix(Cut(v), w)
    <3>1. v \in Seq(Nat) BY <1>3, <1>15
    <3> HIDE DEF v
    <3> QED BY <3>1, CutPrefix
  <2> HIDE DEF x, w
  <2>4. CmdData(x, p) BY <1>2, <1>15, <2>2, <2>3 DEF CmdData, CutCmd
  <2> QED BY <1>6, <1>15, <2>1, <2>4
<1> QED BY <1>3, <1>7, <1>8, <1>9, <1>10, <1>11, <1>12, <1>13, <1>14, <1>15 DEF Kinds

-----------------------------------------------------------------------------
(***************************************************************************)
(* What a call, a response and the timeout do to procedures and commands.  *)
(***************************************************************************)
\* A command for a request of o.
Issued(c, i, o) ==
  c.proc = i /\ \E x \in DOMAIN o.reqs : c.cb = o.reqs[x].cb /\ c.req = o.reqs[x].req

\* All commands of a procedure that Commands makes.
LEMMA CommandsIssued ==
  ASSUME NEW i, NEW o
  PROVE  \A k \in DOMAIN Commands(i, o) : Issued(Commands(i, o)[k], i, o)
<1> SUFFICES ASSUME NEW k \in DOMAIN Commands(i, o) PROVE Issued(Commands(i, o)[k], i, o) OBVIOUS
<1>1. k \in DOMAIN o.reqs BY DEF Commands
<1> DEFINE x == [proc |-> i, cb |-> o.reqs[k].cb, req |-> o.reqs[k].req]
<1>2. Commands(i, o)[k] = x BY <1>1 DEF Commands
<1>3. x.proc = i /\ x.cb = o.reqs[k].cb /\ x.req = o.reqs[k].req OBVIOUS
<1> HIDE DEF x
<1>4. Issued(x, i, o) BY <1>1, <1>3 DEF Issued
<1> QED BY <1>2, <1>4

\* The data of a command do not depend on its number.
LEMMA IssuedData ==
  ASSUME NEW c, NEW d, c.cb = d.cb, c.req = d.req, NEW p, CmdData(d, p)
  PROVE  CmdData(c, p)
BY DEF CmdData, ReadCmd, WriteCmd, CutCmd

\* A call: procedure i is new, and so is its command.
Adds(i, o) ==
  /\ i \notin DOMAIN procs /\ DOMAIN procs' = DOMAIN procs \cup {i} /\ i = Len(procs) + 1
  /\ procs'[i] = o.p /\ \A j \in DOMAIN procs : procs'[j] = procs[j]
  /\ \A k \in DOMAIN queue' :
       (k \in DOMAIN queue /\ queue'[k] = queue[k]) \/ Issued(queue'[k], i, o)
  /\ rsp # NoRsp => queue'[1] = queue[1]
  /\ ~ stale /\ rsp' = rsp /\ mtu' = mtu /\ stale' = stale
  /\ values' = values /\ prep' = prep /\ smtu' = smtu

\* Call does that, and the command carries the data of the call.
LEMMA CallEffect ==
  ASSUME GInv, mtu \in Mtu, NEW c \in Calls, Call(c), NEW i, i = Len(procs) + 1,
         NEW p, p = NewProc(c), NEW o, o = Start(p)
  PROVE  Adds(i, o) /\ StartsData(c, p, o)
<1> DEFINE s == Commands(i, o)
           q2 == queue'
           q == queue
<1>1. IsSeq(procs) /\ IsSeq(q) BY DEF GInv, QueueOk
<1>2. procs' = Append(procs, o.p) /\ q2 = q \o s BY DEF Call
<1>3. StartsData(c, p, o) BY StartData
<1>4. Len(procs) \in Nat /\ DOMAIN procs = 1..Len(procs) BY <1>1, SeqLen
<1>5. i \notin DOMAIN procs /\ DOMAIN procs' = DOMAIN procs \cup {i}
      /\ procs'[i] = o.p /\ \A j \in DOMAIN procs : procs'[j] = procs[j]
  <2>1. /\ DOMAIN Append(procs, o.p) = 1..(Len(procs) + 1)
        /\ \A j \in DOMAIN procs : Append(procs, o.p)[j] = procs[j]
        /\ Append(procs, o.p)[Len(procs) + 1] = o.p
    BY <1>1, AppendSeq
  <2> QED BY <1>2, <1>4, <2>1
<1>6. IsSeq(s)
  <2>1. IsProc(p)
    <3>1. p = [f \in ProcFields |-> p[f]] BY DEF NewProc, ProcFields
    <3>2. p.refs = 0 /\ p.ends = <<>> /\ p.call = c BY DEF NewProc
    <3>3. IsSeq(<<>>) BY ReqsNone DEF ReqsOk
    <3>4. c.kind \in Kinds BY GattAssumption
    <3> QED BY <3>1, <3>2, <3>3, <3>4 DEF IsProc
  <2>2. Starts(p, Start(p)) BY <2>1, StartStarts
  <2> DEFINE kind == p.call.kind
  <2>3. ReqsOk(o.reqs, kind) BY <2>2 DEF Starts
  <2> HIDE DEF kind
  <2>4. CommandsOf(Commands(i, o), i, kind, Len(o.reqs)) BY <2>3, CommandsEffect
  <2> QED BY <2>4 DEF CommandsOf
<1>7. \A k \in DOMAIN s : Issued(s[k], i, o) BY CommandsIssued
<1> HIDE DEF s, q, q2
<1>8. /\ DOMAIN q2 = 1..(Len(q) + Len(s))
      /\ \A k \in DOMAIN q : q2[k] = q[k]
      /\ \A k \in DOMAIN s : q2[Len(q) + k] = s[k]
  <2>1. IsSeq(q) /\ IsSeq(s) BY <1>1, <1>6
  <2>2. q2 = q \o s BY <1>2
  <2>3. DOMAIN q2 = 1..(Len(q) + Len(s)) BY ONLY <2>1, <2>2, CatSeq
  <2>4. \A k \in DOMAIN q : q2[k] = q[k] BY ONLY <2>1, <2>2, CatSeq
  <2>5. \A k \in DOMAIN s : q2[Len(q) + k] = s[k] BY ONLY <2>1, <2>2, CatSeq
  <2> QED BY <2>3, <2>4, <2>5
<1>9. Len(q) \in Nat /\ DOMAIN q = 1..Len(q) /\ Len(s) \in Nat /\ DOMAIN s = 1..Len(s)
  BY <1>1, <1>6, SeqLen
<1>10. ASSUME NEW k \in DOMAIN q2 PROVE (k \in DOMAIN q /\ q2[k] = q[k]) \/ Issued(q2[k], i, o)
  <2>1. CASE k <= Len(q)
    <3>1. k \in DOMAIN q BY <1>8, <1>9, <2>1
    <3> QED BY <1>8, <3>1
  <2>2. CASE ~ k <= Len(q)
    <3>1. k - Len(q) \in DOMAIN s /\ Len(q) + (k - Len(q)) = k BY <1>8, <1>9, <2>2
    <3>2. q2[k] = s[k - Len(q)] BY <1>8, <3>1
    <3> QED BY <1>7, <3>1, <3>2
  <2> QED BY <2>1, <2>2
<1>11. rsp # NoRsp => q2[1] = q[1]
  <2> SUFFICES ASSUME rsp # NoRsp PROVE q2[1] = q[1] OBVIOUS
  <2>1. q # <<>> BY DEF GInv, q
  <2>2. 1 \in DOMAIN q BY <1>1, <1>9, <2>1, SeqLen
  <2> QED BY <1>8, <2>2
<1>12. ~ stale /\ rsp' = rsp /\ mtu' = mtu /\ stale' = stale /\ values' = values /\ prep' = prep
       /\ smtu' = smtu
  BY DEF Call, server
<1>13. Adds(i, o) BY <1>5, <1>10, <1>11, <1>12 DEF Adds, q, q2
<1> QED BY <1>3, <1>13

\* A response: procedure i has a command c at the head of the queue; o is what
\* its callback does.
Receives(i, c, p, o) ==
  /\ queue # <<>> /\ 1 \in DOMAIN queue /\ i \in DOMAIN procs /\ IsProc(p) /\ ProcData(p)
  /\ CmdData(c, p) /\ RspData(c, p, rsp)
  /\ p.call.kind # "write_cmd" => p.ends = <<>>
  /\ p.call.kind = "write_cmd" => o.p = p
  /\ o.p.call = p.call /\ DataGoes(p, o)
  /\ DOMAIN procs' = DOMAIN procs
  /\ procs'[i] = o.p /\ \A j \in DOMAIN procs : j # i => procs'[j] = procs[j]
  /\ \A k \in DOMAIN queue' :
       (\E j \in DOMAIN queue : j # 1 /\ queue'[k] = queue[j]) \/ Issued(queue'[k], i, o)
  /\ rsp # NoRsp /\ rsp' = NoRsp /\ stale' = stale
  /\ mtu' = (IF c.cb = "exchange_mtu_cb" /\ rsp.status = "OK" THEN new_mtu(c.req.mtu, rsp.data)
             ELSE mtu)
  /\ values' = values /\ prep' = prep /\ smtu' = smtu

\* received_data does that.
LEMMA ReceivedEffect ==
  ASSUME GInv, DInv, received_data, NEW c, c = queue[1], NEW i, i = c.proc,
         NEW p, p = procs[i], NEW o, o = Callback(c, p, rsp)
  PROVE  Receives(i, c, p, o)
<1> DEFINE s == Commands(i, o)
           t == Tail(queue)
           kind == p.call.kind
<1>1. QueueOk(procs, queue) /\ queue # <<>> /\ rsp # NoRsp /\ RspOk(c, rsp)
  BY DEF GInv, received_data
<1>2. Head(queue) = c /\ i \in DOMAIN procs /\ IsProc(p) /\ CmdOk(c, kind) BY <1>1, HeadOk
<1>3. /\ procs' = [procs EXCEPT ![i] = o.p] /\ rsp' = NoRsp /\ queue' \in {s \o t, t \o s}
      /\ mtu' = (IF c.cb = "exchange_mtu_cb" /\ rsp.status = "OK" THEN new_mtu(c.req.mtu, rsp.data)
                 ELSE mtu)
      /\ stale' = stale /\ values' = values /\ prep' = prep /\ smtu' = smtu
  BY <1>2 DEF received_data, server
<1>4. /\ IsSeq(t) /\ Len(queue) \in Nat /\ Len(queue) >= 1 /\ DOMAIN t = 1..(Len(queue) - 1)
      /\ \A k \in 1..(Len(queue) - 1) : t[k] = queue[k + 1]
      /\ DOMAIN queue = 1..Len(queue)
  BY <1>1, TailSeq, SeqLen DEF QueueOk
<1>5. 1 \in DOMAIN queue BY <1>4
<1>6. ProcData(p) /\ CmdData(c, p) /\ RspData(c, p, rsp) /\ mtu \in Mtu
  BY <1>1, <1>2, <1>5 DEF DInv, AllProcData, AllCmdData, HeadData, ServerData
<1>7. p.call.kind # "write_cmd" => p.ends = <<>> BY <1>1, <1>5, NotEnded
<1>8. Goes(p, o) BY <1>1, <1>2, CallbackGoes
<1>9. DataGoes(p, o) BY <1>1, <1>2, <1>6, <1>7, CallbackData
<1>10. ASSUME p.call.kind = "write_cmd" PROVE o.p = p
  <2>1. o = Quiet(p) BY <1>2, <1>10 DEF CmdOk, Callback
  <2> QED BY <2>1 DEF Quiet, Sends
<1>11. IsSeq(s)
  <2>1. ReqsOk(o.reqs, kind) BY <1>8 DEF Goes
  <2> HIDE DEF kind
  <2>2. CommandsOf(Commands(i, o), i, kind, Len(o.reqs)) BY <2>1, CommandsEffect
  <2> QED BY <2>2 DEF CommandsOf
<1>12. \A k \in DOMAIN s : Issued(s[k], i, o) BY CommandsIssued
<1> DEFINE q2 == queue'
<1> HIDE DEF s, t
<1>13. Joins(q2, t, s)
  <2>1. CASE q2 = s \o t
    <3> HIDE DEF q2
    <3> QED BY <1>4, <1>11, <2>1, CatJoins
  <2>2. CASE q2 = t \o s
    <3> HIDE DEF q2
    <3> QED BY <1>4, <1>11, <2>2, CatJoins
  <2> QED BY <1>3, <2>1, <2>2
<1>14. ASSUME NEW k \in DOMAIN q2
       PROVE  (\E j \in DOMAIN queue : j # 1 /\ q2[k] = queue[j]) \/ Issued(q2[k], i, o)
  <2> HIDE DEF q2
  <2>1. \/ \E j \in DOMAIN t : q2[k] = t[j]
        \/ \E j \in DOMAIN s : q2[k] = s[j]
    BY <1>13 DEF Joins
  <2>2. CASE \E j \in DOMAIN t : q2[k] = t[j]
    <3>1. PICK j \in DOMAIN t : q2[k] = t[j] BY <2>2
    <3>2. j + 1 \in DOMAIN queue /\ j + 1 # 1 /\ q2[k] = queue[j + 1] BY <1>4, <3>1
    <3> QED BY <3>2
  <2>3. CASE \E j \in DOMAIN s : q2[k] = s[j] BY <1>12, <2>3
  <2> QED BY <2>1, <2>2, <2>3
<1>15. DOMAIN procs' = DOMAIN procs /\ procs'[i] = o.p
       /\ \A j \in DOMAIN procs : j # i => procs'[j] = procs[j]
  BY <1>2, <1>3
<1>16. o.p.call = p.call BY <1>8 DEF Goes
<1>17. \A k \in DOMAIN queue' :
         (\E j \in DOMAIN queue : j # 1 /\ queue'[k] = queue[j]) \/ Issued(queue'[k], i, o)
  BY <1>14
<1> QED BY <1>1, <1>2, <1>3, <1>5, <1>6, <1>7, <1>9, <1>10, <1>15, <1>16, <1>17 DEF Receives

\* The procedure p2 that the failure of a command c leaves of p.
FailedBy(p2, c, p) ==
  \E st \in {"TIMEOUT", "ABORTED"} : p2 = [Callback(c, p, Error(st)).p EXCEPT !.fault = TRUE]

\* The timeout: a plain procedure with a command has it failed.
Fails(ps, ps2, q) ==
  /\ DOMAIN ps2 = DOMAIN ps
  /\ \A i \in DOMAIN ps :
       /\ IsProc(ps2[i]) /\ ps2[i].call = ps[i].call
       /\ ps[i].ends # <<>> => ps2[i].ends = ps[i].ends
       /\ Plain(ps[i]) =>
            ps2[i] = ps[i] \/ \E k \in DOMAIN q : q[k].proc = i /\ FailedBy(ps2[i], q[k], ps[i])

\* The same behind the first n commands of q, where procedures without one
\* among them are as before.
FailsUpto(ps, ps2, q, n) ==
  /\ Fails(ps, ps2, q)
  /\ \A i \in DOMAIN ps : Plain(ps[i]) /\ (\A k \in 1..n : q[k].proc # i) => ps2[i] = ps[i]

\* One more command.
LEMMA FailsOne ==
  ASSUME NEW ps, NEW q, QueueOk(ps, q), NEW n \in 1..Len(q), NEW ps1, FailsUpto(ps, ps1, q, n - 1),
         NEW st \in {"TIMEOUT", "ABORTED"}, NEW ps2, ps2 = Failed(ps1, q[n], st)
  PROVE  FailsUpto(ps, ps2, q, n)
<1> DEFINE c == q[n]
           a == c.proc
           r == Error(st)
           p == ps[a]
           p1 == ps1[a]
           o == Callback(c, p1, r)
           p2 == [o.p EXCEPT !.fault = TRUE]
<1>1. IsSeq(q) /\ Len(q) \in Nat /\ DOMAIN q = 1..Len(q) BY SeqLen DEF QueueOk
<1>2. n \in DOMAIN q /\ a \in DOMAIN ps /\ CmdOk(c, p.call.kind) BY <1>1 DEF QueueOk
<1>3. /\ DOMAIN ps1 = DOMAIN ps /\ IsProc(p1) /\ p1.call = p.call
      /\ p.ends # <<>> => p1.ends = p.ends
  BY <1>2 DEF FailsUpto, Fails
<1>4. ps2 = [ps1 EXCEPT ![a] = p2] BY <1>2, <1>3 DEF Failed
<1>5. Goes(p1, o) /\ r.status # "OK"
  <2>1. r.status # "OK" BY DEF Error
  <2>2. RspOk(c, r) BY <2>1 DEF RspOk
  <2> HIDE DEF o, p1, c, r
  <2>3. Goes(p1, Callback(c, p1, r)) BY <1>2, <1>3, <2>2, CallbackGoes
  <2> QED BY <2>1, <2>3 DEF o
<1>6. IsProc(p2) /\ p2.call = p.call /\ p2.ends = o.p.ends
  <2>1. IsProc(o.p) /\ o.p.call = p1.call BY <1>5 DEF Goes
  <2> DEFINE x == o.p
  <2> HIDE DEF x
  <2>2. IsProc(x) BY <2>1 DEF x
  <2>3. Same(x, [x EXCEPT !.fault = TRUE]) BY <2>2, SameExcept
  <2> QED BY <1>3, <2>1, <2>3 DEF Same, x
<1>7. ASSUME p.ends # <<>> PROVE p2.ends = p.ends
  <2>1. p.call.kind = "write_cmd" BY <1>2, <1>7, NotEnded
  <2>2. o = Quiet(p1) BY <1>2, <2>1 DEF CmdOk, Callback
  <2>3. o.p = p1 BY <2>2 DEF Quiet, Sends
  <2> QED BY <1>3, <1>6, <1>7, <2>3
<1>8. ASSUME Plain(p) PROVE FailedBy(p2, c, p)
  <2>1. ASSUME NEW k \in 1..(n - 1) PROVE q[k].proc # a
    <3>1. k \in DOMAIN q /\ k # n BY <1>1
    <3> QED BY <1>2, <1>8, <3>1, OneCommand
  <2>2. p1 = p BY <1>2, <1>8, <2>1 DEF FailsUpto
  <2> HIDE DEF c, p
  <2>3. p2 = [Callback(c, p, Error(st)).p EXCEPT !.fault = TRUE] BY <2>2
  <2> HIDE DEF p2
  <2> QED BY <2>3 DEF FailedBy
<1> HIDE DEF p2
<1>9. DOMAIN ps2 = DOMAIN ps /\ ps2[a] = p2 /\ \A i \in DOMAIN ps : i # a => ps2[i] = ps1[i]
  BY <1>2, <1>3, <1>4
<1>10. ASSUME NEW i \in DOMAIN ps
       PROVE  /\ IsProc(ps2[i]) /\ ps2[i].call = ps[i].call
              /\ ps[i].ends # <<>> => ps2[i].ends = ps[i].ends
              /\ Plain(ps[i]) =>
                   ps2[i] = ps[i] \/ \E k \in DOMAIN q : q[k].proc = i /\ FailedBy(ps2[i], q[k], ps[i])
  <2>1. CASE i = a
    <3>1. Plain(ps[i]) => \E k \in DOMAIN q : q[k].proc = i /\ FailedBy(ps2[i], q[k], ps[i])
      BY <1>2, <1>8, <1>9, <2>1
    <3> QED BY <1>6, <1>7, <1>9, <2>1, <3>1
  <2>2. CASE i # a BY <1>9, <2>2 DEF FailsUpto, Fails
  <2> QED BY <2>1, <2>2
<1>11. ASSUME NEW i \in DOMAIN ps, Plain(ps[i]), \A k \in 1..n : q[k].proc # i PROVE ps2[i] = ps[i]
  <2>1. n \in 1..n /\ \A k \in 1..(n - 1) : k \in 1..n BY <1>1
  <2>2. i # a BY <1>11, <2>1
  <2>3. ps1[i] = ps[i] BY <1>11, <2>1 DEF FailsUpto
  <2> QED BY <1>9, <2>2, <2>3
<1>12. Fails(ps, ps2, q) BY <1>9, <1>10 DEF Fails
<1> QED BY <1>11, <1>12 DEF FailsUpto

\* All of them.
LEMMA FailsAll ==
  ASSUME NEW ps, NEW q, QueueOk(ps, q)
  PROVE  Fails(ps, AllFailed(ps, q)[Len(q)], q)
<1> DEFINE g == AllFailed(ps, q)
           n == Len(q)
<1>1. IsSeq(q) /\ n \in Nat BY SeqLen DEF QueueOk
<1>2. IsAfter(g, n, ps, q) BY <1>1, AllFailedRun
<1> HIDE DEF g
<1>3. \A k \in 0..n : g[k] = IF k = 0 THEN ps ELSE Failed(g[k - 1], q[k], FailStatus(k))
  <2> DEFINE f == [k \in 0..n |-> IF k = 0 THEN ps ELSE Failed(g[k - 1], q[k], FailStatus(k))]
  <2>1. g = f BY <1>2 DEF IsAfter
  <2>2. \A k \in 0..n : f[k] = IF k = 0 THEN ps ELSE Failed(g[k - 1], q[k], FailStatus(k)) OBVIOUS
  <2> HIDE DEF f
  <2> QED BY <2>1, <2>2
<1> DEFINE T == {k \in 0..n : ~ FailsUpto(ps, g[k], q, k)}
<1>4. T = {}
  <2>1. SUFFICES ASSUME T # {} PROVE FALSE OBVIOUS
  <2>2. PICK m \in T : \A k \in T : m <= k
    <3>1. T \in SUBSET Nat BY <1>1
    <3> HIDE DEF T
    <3> QED BY <2>1, <3>1, LeastNat
  <2>3. m \in 0..n /\ ~ FailsUpto(ps, g[m], q, m) OBVIOUS
  <2>4. CASE m = 0
    <3>1. g[0] = ps BY <1>1, <1>3
    <3>2. FailsUpto(ps, ps, q, 0) BY DEF FailsUpto, Fails, QueueOk
    <3> QED BY <2>3, <2>4, <3>1, <3>2
  <2>5. CASE m # 0
    <3> DEFINE ps1 == g[m - 1]
               ps2 == g[m]
               st == FailStatus(m)
    <3>1. m - 1 \in 0..n /\ m \in 1..n /\ ~ (m <= m - 1) BY <1>1, <2>3, <2>5
    <3>2. FailsUpto(ps, ps1, q, m - 1) BY <2>2, <3>1
    <3>3. ps2 = Failed(ps1, q[m], st) BY <1>3, <2>3, <2>5
    <3>4. st \in {"TIMEOUT", "ABORTED"} BY DEF FailStatus
    <3> HIDE DEF ps1, ps2, st
    <3>5. FailsUpto(ps, ps2, q, m) BY <3>1, <3>2, <3>3, <3>4, FailsOne
    <3> QED BY <2>3, <3>5 DEF ps2
  <2> QED BY <2>4, <2>5
<1>5. n \in 0..n BY <1>1
<1>6. FailsUpto(ps, g[n], q, n) BY <1>4, <1>5
<1> QED BY <1>6 DEF FailsUpto, g

\* What is left of a read and of a write that has a command: they call their
\* user, a read with what it has collected.
LEMMA FailedEnds ==
  ASSUME NEW p, IsProc(p), ProcData(p), p.call.kind \in {"read", "write"}, p.ends = <<>>,
         NEW c, CmdOk(c, p.call.kind), CmdData(c, p), mtu \in Mtu, NEW p2, FailedBy(p2, c, p)
  PROVE  /\ p2.call = p.call /\ p2.touched = p.touched /\ p2.alone = p.alone /\ p2.fault = TRUE
         /\ p2.ends # <<>> /\ ProcData(p2)
         /\ p.call.kind = "read" => p2.ends[1].list = p.list
         /\ p.call.kind = "write" => p2.ends[1].status \in {"TIMEOUT", "ABORTED"}
<1>1. PICK st \in {"TIMEOUT", "ABORTED"} : p2 = [Callback(c, p, Error(st)).p EXCEPT !.fault = TRUE]
  BY DEF FailedBy
<1> DEFINE r == Error(st)
           o == Callback(c, p, r)
           q == o.p
<1>2. r.status = st /\ r.status # "OK" BY <1>1 DEF Error
<1>3. p2 = [q EXCEPT !.fault = TRUE] BY <1>1
<1> HIDE DEF r
<1>4. RspOk(c, r) /\ RspData(c, p, r) BY <1>2 DEF RspOk, RspData
<1>5. Goes(p, o) BY <1>4, CallbackGoes
<1>6. DataGoes(p, o) BY <1>4, CallbackData
<1>7. p.call.kind = "read" => ReadGoes(p, r, o, mtu) BY <1>4, ReadCallback
<1>8. p.call.kind = "write" => WriteGoes(p, c, r, o) BY <1>4, WriteCallback
<1> HIDE DEF o
<1>9. IsProc(q) /\ ProcData(q) /\ Kept(p, q) BY <1>5, <1>6 DEF Goes, DataGoes
<1> HIDE DEF q
<1>10. p2.call = q.call /\ p2.touched = q.touched /\ p2.alone = q.alone /\ p2.fault = TRUE
       /\ p2.ends = q.ends /\ p2.list = q.list /\ p2.offset = q.offset
  BY <1>3, <1>9 DEF IsProc, ProcFields
<1>11. ProcData(p2) BY <1>9, <1>10 DEF ProcData
<1>12. CASE p.call.kind = "read"
  <2>1. PICK s : EndsNow(p, o, s, p.list) BY <1>2, <1>7, <1>12 DEF ReadGoes
  <2> DEFINE e == [status |-> s, list |-> p.list]
  <2>2. q.ends # <<>> /\ q.ends[1] = e /\ e.list = p.list BY <2>1 DEF EndsNow, q
  <2> QED BY <1>9, <1>10, <1>11, <1>12, <2>2 DEF Kept
<1>13. CASE p.call.kind = "write"
  <2>1. EndsNow(p, o, r.status, <<>>) BY <1>2, <1>8, <1>13 DEF WriteGoes
  <2> DEFINE e == [status |-> r.status, list |-> <<>>]
  <2>2. q.ends # <<>> /\ q.ends[1] = e /\ e.status = st BY <1>2, <2>1 DEF EndsNow, q
  <2> QED BY <1>1, <1>9, <1>10, <1>11, <1>13, <2>2 DEF Kept
<1> QED BY <1>12, <1>13

-----------------------------------------------------------------------------
(***************************************************************************)
(* Prepared writes: what Execute Write makes of one value.                 *)
(***************************************************************************)
\* A loop over 1..n, whose step is the function F, has a run.
Loops(S, n, x, F) ==
  \E g \in [0..n -> S] : g[0] = x /\ \A k \in 1..n : g[k] = F[<<k, g[k - 1]>>]

\* Every such loop.
LEMMA Iterates ==
  ASSUME NEW S, NEW n \in Nat, NEW x \in S, NEW F \in [(1..n) \X S -> S]
  PROVE  Loops(S, n, x, F)
<1> DEFINE Has(m) == \E g \in [0..m -> S] : g[0] = x /\ \A k \in 1..m : g[k] = F[<<k, g[k - 1]>>]
           T == {m \in 0..n : ~ Has(m)}
<1>1. SUFFICES ASSUME T # {} PROVE FALSE
  <2>1. n \in 0..n OBVIOUS
  <2> QED BY <2>1 DEF Loops
<1>2. PICK m \in T : \A k \in T : m <= k
  <2>1. T \in SUBSET Nat OBVIOUS
  <2> HIDE DEF T
  <2> QED BY <1>1, <2>1, LeastNat
<1>3. m \in 0..n /\ ~ Has(m) OBVIOUS
<1>4. CASE m = 0
  <2> DEFINE g == [k \in 0..m |-> x]
  <2>1. g \in [0..m -> S] /\ g[0] = x /\ \A k \in 1..m : g[k] = F[<<k, g[k - 1]>>]
    BY <1>4
  <2> HIDE DEF g
  <2>2. Has(m) BY <2>1
  <2> QED BY <1>3, <2>2
<1>5. CASE m # 0
  <2>1. m - 1 \in 0..n /\ m \in 1..n /\ ~ (m <= m - 1) BY <1>3, <1>5
  <2>2. Has(m - 1) BY <1>2, <2>1
  <2>3. PICK f \in [0..(m - 1) -> S] : f[0] = x /\ \A k \in 1..(m - 1) : f[k] = F[<<k, f[k - 1]>>]
    BY <2>2
  <2> DEFINE y == F[<<m, f[m - 1]>>]
             g == [k \in 0..m |-> IF k = m THEN y ELSE f[k]]
  <2>4. y \in S
    <3>1. f[m - 1] \in S BY <2>1
    <3>2. <<m, f[m - 1]>> \in (1..n) \X S BY <2>1, <3>1
    <3> QED BY <3>2
  <2>5. \A k \in 0..(m - 1) : k \in 0..m /\ k # m /\ g[k] = f[k] BY <2>1
  <2>6. g[m] = y BY <2>1
  <2>7. g \in [0..m -> S]
    <3> HIDE DEF y
    <3>1. \A k \in 0..m : (k = m \/ k \in 0..(m - 1)) BY <2>1
    <3> QED BY <2>4, <3>1
  <2> HIDE DEF g
  <2>8. ASSUME NEW k \in 1..m PROVE g[k] = F[<<k, g[k - 1]>>]
    <3>1. CASE k = m
      <4>1. g[m - 1] = f[m - 1] BY <2>1, <2>5
      <4> QED BY <2>6, <3>1, <4>1
    <3>2. CASE k # m
      <4>1. k \in 1..(m - 1) /\ k \in 0..(m - 1) /\ k - 1 \in 0..(m - 1) BY <2>1, <3>2
      <4> QED BY <2>3, <2>5, <4>1
    <3> QED BY <3>1, <3>2
  <2>9. g[0] = x BY <2>1, <2>3, <2>5
  <2>10. Has(m) BY <2>7, <2>8, <2>9
  <2> QED BY <1>3, <2>10
<1> QED BY <1>4, <1>5

\* One prepared write of a value.
Put(old, w) == IF w.offset <= Len(old) THEN Write(old, w) ELSE old

\* It gives a value.
LEMMA PutSeq ==
  ASSUME NEW old \in Seq(Nat), NEW w \in Part
  PROVE  Put(old, w) \in Seq(Nat)
<1>1. w.offset \in Nat /\ w.value \in Seq(Nat) BY DEF Part
<1>2. CASE w.offset <= Len(old)
  <2> DEFINE n == w.offset
  <2>1. n \in 0..Len(old) BY <1>1, <1>2
  <2> HIDE DEF n
  <2>2. Upto(old, n) \in Seq(Nat) BY <2>1, UptoLen
  <2>3. Put(old, w) = Upto(old, n) \o w.value BY <1>2 DEF Put, Write, Upto, n
  <2> QED BY <1>1, <2>2, <2>3
<1>3. CASE ~ w.offset <= Len(old) BY <1>3 DEF Put
<1> QED BY <1>2, <1>3

\* A value x behind each of the prepared writes ws of handle h, and the last.
RunOf(g, x, ws, h) ==
  /\ g \in [0..Len(ws) -> Seq(Nat)] /\ g[0] = x
  /\ \A k \in 1..Len(ws) : g[k] = IF ws[k].handle = h THEN Put(g[k - 1], ws[k]) ELSE g[k - 1]

Run(x, ws, h) == (CHOOSE g : RunOf(g, x, ws, h))[Len(ws)]

\* There is such a run.
LEMMA RunExists ==
  ASSUME NEW x \in Seq(Nat), NEW ws \in Seq(Part), NEW h
  PROVE  \E g : RunOf(g, x, ws, h) /\ Run(x, ws, h) = g[Len(ws)] /\ Run(x, ws, h) \in Seq(Nat)
<1> DEFINE n == Len(ws)
           S == Seq(Nat)
           Step(k, y) == IF ws[k].handle = h THEN Put(y, ws[k]) ELSE y
           F == [z \in (1..n) \X S |-> Step(z[1], z[2])]
<1>1. n \in Nat /\ \A k \in 1..n : ws[k] \in Part OBVIOUS
<1>2. ASSUME NEW k \in 1..n, NEW y \in S PROVE Step(k, y) \in S /\ F[<<k, y>>] = Step(k, y)
  <2>1. Put(y, ws[k]) \in S BY <1>1, PutSeq
  <2>2. <<k, y>> \in (1..n) \X S /\ <<k, y>>[1] = k /\ <<k, y>>[2] = y OBVIOUS
  <2>3. F[<<k, y>>] = Step(<<k, y>>[1], <<k, y>>[2]) BY <2>2
  <2> QED BY <2>1, <2>2, <2>3
<1>3. F \in [(1..n) \X S -> S]
  <2>1. ASSUME NEW z \in (1..n) \X S PROVE Step(z[1], z[2]) \in S
    <3>1. z[1] \in 1..n /\ z[2] \in S OBVIOUS
    <3> HIDE DEF Step, S
    <3> QED BY <1>2, <3>1
  <2> HIDE DEF Step, S
  <2> QED BY <2>1
<1> HIDE DEF F, n
<1>4. PICK g \in [0..n -> S] : g[0] = x /\ \A k \in 1..n : g[k] = F[<<k, g[k - 1]>>]
  <2> HIDE DEF S
  <2>1. x \in S BY DEF S
  <2>2. Loops(S, n, x, F) BY <1>1, <1>3, <2>1, Iterates
  <2> QED BY <2>2 DEF Loops
<1>5. ASSUME NEW k \in 1..n PROVE g[k] = Step(k, g[k - 1])
  <2>1. k - 1 \in 0..n BY <1>1
  <2>2. g[k - 1] \in S
    <3> HIDE DEF S
    <3> QED BY <1>4, <2>1
  <2> HIDE DEF Step, S
  <2> QED BY <1>2, <1>4, <2>2
<1>6. RunOf(g, x, ws, h) BY <1>4, <1>5 DEF RunOf, n
<1> DEFINE c == CHOOSE f : RunOf(f, x, ws, h)
<1>7. RunOf(c, x, ws, h) BY <1>6
<1>8. Run(x, ws, h) = c[n] BY DEF Run, n
<1> HIDE DEF c
<1>9. c[n] \in S
  <2>1. c \in [0..n -> S] BY <1>7 DEF RunOf, n
  <2> QED BY <1>1, <2>1
<1> QED BY <1>7, <1>8, <1>9 DEF n

\* The same writes, n of them.
SameWrites(us, ws, n) == n <= Len(us) /\ n <= Len(ws) /\ \A k \in 1..n : us[k] = ws[k]

\* Runs over the same writes agree.
LEMMA RunAgree ==
  ASSUME NEW x, NEW h, NEW us, NEW ws, NEW n \in Nat, Len(us) \in Nat, Len(ws) \in Nat,
         SameWrites(us, ws, n),
         NEW f, RunOf(f, x, us, h), NEW g, RunOf(g, x, ws, h)
  PROVE  f[n] = g[n]
<1> DEFINE T == {k \in 0..n : f[k] # g[k]}
<1>1. SUFFICES ASSUME T # {} PROVE FALSE
  <2>1. n \in 0..n OBVIOUS
  <2> QED BY <2>1
<1>2. PICK m \in T : \A k \in T : m <= k
  <2>1. T \in SUBSET Nat OBVIOUS
  <2> HIDE DEF T
  <2> QED BY <1>1, <2>1, LeastNat
<1>3. m \in 0..n /\ f[m] # g[m] OBVIOUS
<1>4. m # 0 BY <1>3 DEF RunOf
<1>5. m \in 1..n /\ m \in 1..Len(us) /\ m \in 1..Len(ws) /\ m - 1 \in 0..n /\ ~ (m <= m - 1)
      /\ us[m] = ws[m]
  BY <1>3, <1>4 DEF SameWrites
<1>6. f[m - 1] = g[m - 1] BY <1>2, <1>5
<1>7. f[m] = IF us[m].handle = h THEN Put(f[m - 1], us[m]) ELSE f[m - 1] BY <1>5 DEF RunOf
<1>8. g[m] = IF ws[m].handle = h THEN Put(g[m - 1], ws[m]) ELSE g[m - 1] BY <1>5 DEF RunOf
<1> QED BY <1>3, <1>5, <1>6, <1>7, <1>8

\* No prepared write.
LEMMA RunEmpty ==
  ASSUME NEW x \in Seq(Nat), NEW h
  PROVE  Run(x, <<>>, h) = x
<1> DEFINE ws == <<>>
<1>1. ws \in Seq(Part) /\ Len(ws) = 0 OBVIOUS
<1> HIDE DEF ws
<1>2. PICK g : RunOf(g, x, ws, h) /\ Run(x, ws, h) = g[Len(ws)] BY <1>1, RunExists
<1>3. Run(x, ws, h) = x BY <1>1, <1>2 DEF RunOf
<1> QED BY <1>3 DEF ws

\* One more.
LEMMA RunAppend ==
  ASSUME NEW x \in Seq(Nat), NEW ws \in Seq(Part), NEW h, NEW w \in Part
  PROVE  Run(x, Append(ws, w), h) = IF w.handle = h THEN Put(Run(x, ws, h), w) ELSE Run(x, ws, h)
<1> DEFINE us == Append(ws, w)
           n == Len(ws)
<1>1. n \in Nat /\ us \in Seq(Part) /\ Len(us) = n + 1 /\ us[n + 1] = w
      /\ \A k \in 1..n : us[k] = ws[k]
  OBVIOUS
<1> HIDE DEF us
<1>2. PICK f : RunOf(f, x, us, h) /\ Run(x, us, h) = f[Len(us)] BY <1>1, RunExists
<1>3. PICK g : RunOf(g, x, ws, h) /\ Run(x, ws, h) = g[Len(ws)] BY <1>1, RunExists
<1>4. n <= Len(us) /\ n <= Len(ws) /\ Len(us) \in Nat /\ Len(ws) \in Nat BY <1>1
<1> HIDE DEF n
<1>5. f[n] = g[n]
  <2>1. SameWrites(us, ws, n) BY <1>1, <1>4 DEF SameWrites
  <2>2. n \in Nat /\ RunOf(f, x, us, h) /\ RunOf(g, x, ws, h) BY <1>1, <1>2, <1>3
  <2> QED BY <1>4, <2>1, <2>2, RunAgree
<1>6. n + 1 \in 1..Len(us) /\ (n + 1) - 1 = n BY <1>1
<1>7. f[n + 1] = IF w.handle = h THEN Put(f[n], w) ELSE f[n] BY <1>1, <1>2, <1>6 DEF RunOf
<1> QED BY <1>1, <1>2, <1>3, <1>5, <1>7 DEF us, n

\* No prepared write of the handle.
NoParts(ws, h) == \A k \in DOMAIN ws : ws[k].handle # h

\* The value stays.
LEMMA RunNone ==
  ASSUME NEW x \in Seq(Nat), NEW ws \in Seq(Part), NEW h, NoParts(ws, h)
  PROVE  Run(x, ws, h) = x
<1> DEFINE n == Len(ws)
<1>1. n \in Nat /\ DOMAIN ws = 1..n OBVIOUS
<1>2. PICK g : RunOf(g, x, ws, h) /\ Run(x, ws, h) = g[n] BY RunExists
<1> HIDE DEF n
<1> DEFINE T == {k \in 0..n : g[k] # x}
<1>3. SUFFICES ASSUME T # {} PROVE FALSE
  <2>1. n \in 0..n BY <1>1
  <2> QED BY <1>2, <2>1
<1>4. PICK m \in T : \A k \in T : m <= k
  <2>1. T \in SUBSET Nat BY <1>1
  <2> HIDE DEF T
  <2> QED BY <1>3, <2>1, LeastNat
<1>5. m \in 0..n /\ g[m] # x OBVIOUS
<1>6. m # 0 BY <1>2, <1>5 DEF RunOf
<1>7. m \in 1..n /\ m - 1 \in 0..n /\ ~ (m <= m - 1) BY <1>1, <1>5, <1>6
<1>8. g[m - 1] = x BY <1>4, <1>7
<1>9. ws[m].handle # h BY <1>1, <1>7 DEF NoParts
<1>10. g[m] = g[m - 1] BY <1>2, <1>7, <1>9 DEF RunOf, n
<1> QED BY <1>5, <1>8, <1>10

-----------------------------------------------------------------------------
(***************************************************************************)
(* Execute Write.                                                          *)
(***************************************************************************)
Attributes == [Handles -> Seq(Nat)]
ExecState == [ok : BOOLEAN, vs : Attributes]

ExecOf(g, vs, ws) ==
  /\ g \in [0..Len(ws) -> ExecState] /\ g[0] = [ok |-> TRUE, vs |-> vs]
  /\ \A k \in 1..Len(ws) : g[k] = ExecuteOne(g[k - 1], ws[k])

\* One part: it fails, or puts the value of one handle.
LEMMA ExecuteOneIs ==
  ASSUME NEW a \in ExecState, NEW w \in Part, NEW b, b = ExecuteOne(a, w)
  PROVE  /\ b \in ExecState
         /\ b.ok => /\ a.ok /\ b.vs[w.handle] = Put(a.vs[w.handle], w)
                    /\ \A h \in Handles : h # w.handle => b.vs[h] = a.vs[h]
<1>1. a.ok \in BOOLEAN /\ a.vs \in Attributes /\ w.handle \in Handles /\ w.offset \in Nat
  BY DEF ExecState, Part
<1> DEFINE old == a.vs[w.handle]
<1>2. old \in Seq(Nat) /\ Len(old) \in Nat BY <1>1 DEF Attributes
<1>3. CASE ~ a.ok \/ w.offset > Len(old)
  <2>1. b = [a EXCEPT !.ok = FALSE] BY <1>3 DEF ExecuteOne
  <2>2. b \in ExecState /\ b.ok = FALSE BY <2>1 DEF ExecState
  <2> QED BY <2>2
<1>4. CASE ~ (~ a.ok \/ w.offset > Len(old))
  <2> DEFINE new == Write(old, w)
             vs2 == [a.vs EXCEPT ![w.handle] = new]
  <2>1. b = [a EXCEPT !.vs = vs2] BY <1>4 DEF ExecuteOne
  <2>2. new = Put(old, w) BY <1>1, <1>2, <1>4 DEF Put
  <2>3. new \in Seq(Nat)
    <3> HIDE DEF new, old
    <3> QED BY <1>2, <2>2, PutSeq
  <2> HIDE DEF new
  <2>4. vs2 \in Attributes /\ vs2[w.handle] = new /\ \A h \in Handles : h # w.handle => vs2[h] = a.vs[h]
    BY <1>1, <2>3 DEF Attributes
  <2> HIDE DEF vs2
  <2>5. b \in ExecState /\ b.vs = vs2 /\ b.ok = a.ok BY <2>1, <2>4 DEF ExecState
  <2> QED BY <1>4, <2>2, <2>4, <2>5
<1> QED BY <1>3, <1>4

\* Executed is the loop over all parts.
LEMMA ExecutedRun ==
  ASSUME NEW vs \in Attributes, NEW ws \in Seq(Part)
  PROVE  ExecOf(Executed(vs, ws), vs, ws)
<1> DEFINE n == Len(ws)
           S == ExecState
           x == [ok |-> TRUE, vs |-> vs]
           F == [z \in (1..n) \X S |-> ExecuteOne(z[2], ws[z[1]])]
           Is(g) == g = [k \in 0..n |-> IF k = 0 THEN x ELSE ExecuteOne(g[k - 1], ws[k])]
<1>1. n \in Nat /\ \A k \in 1..n : ws[k] \in Part OBVIOUS
<1>2. x \in S BY DEF ExecState
<1> HIDE DEF x
<1>3. ASSUME NEW k \in 1..n, NEW y \in S
      PROVE  ExecuteOne(y, ws[k]) \in S /\ F[<<k, y>>] = ExecuteOne(y, ws[k])
  <2> DEFINE b == ExecuteOne(y, ws[k])
  <2>1. b = ExecuteOne(y, ws[k]) OBVIOUS
  <2>2. <<k, y>> \in (1..n) \X S /\ <<k, y>>[1] = k /\ <<k, y>>[2] = y OBVIOUS
  <2>3. F[<<k, y>>] = ExecuteOne(<<k, y>>[2], ws[<<k, y>>[1]]) BY <2>2
  <2> HIDE DEF b
  <2>4. b \in S BY <1>1, <2>1, ExecuteOneIs
  <2> QED BY <2>1, <2>2, <2>3, <2>4
<1>4. F \in [(1..n) \X S -> S]
  <2>1. ASSUME NEW z \in (1..n) \X S PROVE ExecuteOne(z[2], ws[z[1]]) \in S
    <3>1. z[1] \in 1..n /\ z[2] \in S OBVIOUS
    <3> HIDE DEF S
    <3> QED BY <1>3, <3>1
  <2> HIDE DEF S
  <2> QED BY <2>1
<1> HIDE DEF F, S
<1>5. PICK g \in [0..n -> S] : g[0] = x /\ \A k \in 1..n : g[k] = F[<<k, g[k - 1]>>]
  <2> HIDE DEF n
  <2>1. Loops(S, n, x, F) BY <1>1, <1>2, <1>4, Iterates
  <2> QED BY <2>1 DEF Loops
<1>6. ASSUME NEW k \in 0..n PROVE g[k] = IF k = 0 THEN x ELSE ExecuteOne(g[k - 1], ws[k])
  <2>1. CASE k = 0 BY <1>5, <2>1
  <2>2. CASE k # 0
    <3>1. k \in 1..n /\ k - 1 \in 0..n BY <1>1, <2>2
    <3>2. g[k - 1] \in S BY <3>1
    <3> QED BY <1>3, <1>5, <2>2, <3>1, <3>2
  <2> QED BY <2>1, <2>2
<1>7. Is(g)
  <2> DEFINE f == [k \in 0..n |-> IF k = 0 THEN x ELSE ExecuteOne(g[k - 1], ws[k])]
  <2>1. g = [k \in 0..n |-> g[k]] OBVIOUS
  <2>2. \A k \in 0..n : g[k] = f[k] BY <1>6
  <2> QED BY <2>1, <2>2
<1> DEFINE e == Executed(vs, ws)
<1>8. e = CHOOSE f : Is(f) BY DEF Executed, x
<1>9. Is(e) BY <1>7, <1>8
<1> HIDE DEF e
<1>10. \A k \in 0..n : e[k] = IF k = 0 THEN x ELSE ExecuteOne(e[k - 1], ws[k])
  <2> DEFINE f == [k \in 0..n |-> IF k = 0 THEN x ELSE ExecuteOne(e[k - 1], ws[k])]
  <2>1. e = f BY <1>9
  <2>2. \A k \in 0..n : f[k] = IF k = 0 THEN x ELSE ExecuteOne(e[k - 1], ws[k]) OBVIOUS
  <2> HIDE DEF f
  <2> QED BY <2>1, <2>2
<1> DEFINE T == {k \in 0..n : e[k] \notin S}
<1>11. T = {}
  <2>1. SUFFICES ASSUME T # {} PROVE FALSE OBVIOUS
  <2>2. PICK m \in T : \A k \in T : m <= k
    <3>1. T \in SUBSET Nat BY <1>1
    <3> HIDE DEF T
    <3> QED BY <2>1, <3>1, LeastNat
  <2>3. m \in 0..n /\ e[m] \notin S OBVIOUS
  <2>4. m # 0 BY <1>2, <1>10, <2>3
  <2>5. m \in 1..n /\ m - 1 \in 0..n /\ ~ (m <= m - 1) BY <1>1, <2>3, <2>4
  <2>6. e[m - 1] \in S BY <2>2, <2>5
  <2>7. e[m] = ExecuteOne(e[m - 1], ws[m]) BY <1>10, <2>3, <2>4
  <2> QED BY <1>3, <2>3, <2>5, <2>6, <2>7
<1>12. e \in [0..n -> S]
  <2>1. e = [k \in 0..n |-> e[k]] BY <1>9
  <2>2. \A k \in 0..n : e[k] \in S BY <1>11
  <2> QED BY <2>1, <2>2
<1>13. e[0] = x /\ \A k \in 1..n : e[k] = ExecuteOne(e[k - 1], ws[k])
  <2>1. 0 \in 0..n /\ \A k \in 1..n : k \in 0..n /\ k # 0 BY <1>1
  <2> QED BY <1>10, <2>1
<1> QED BY <1>12, <1>13 DEF ExecOf, S, x, e

\* When nothing fails, each value is what its own parts make of it.
LEMMA RunExecute ==
  ASSUME NEW vs \in Attributes, NEW ws \in Seq(Part), NEW e, e = Executed(vs, ws)[Len(ws)]
  PROVE  e \in ExecState /\ (e.ok => \A h \in Handles : e.vs[h] = Run(vs[h], ws, h))
<1> DEFINE x == Executed(vs, ws)
           n == Len(ws)
<1>1. n \in Nat /\ \A k \in 1..n : ws[k] \in Part OBVIOUS
<1>2. ExecOf(x, vs, ws) BY ExecutedRun
<1>3. e = x[n] OBVIOUS
<1> HIDE DEF x
<1>4. e \in ExecState
  <2>1. n \in 0..n BY <1>1
  <2> QED BY <1>2, <1>3, <2>1 DEF ExecOf
<1>5. ASSUME e.ok, NEW h \in Handles PROVE e.vs[h] = Run(vs[h], ws, h)
  <2> DEFINE v == vs[h]
  <2>1. v \in Seq(Nat) BY DEF Attributes
  <2> HIDE DEF v
  <2>2. PICK g : RunOf(g, v, ws, h) /\ Run(v, ws, h) = g[n] BY <2>1, RunExists
  <2> HIDE DEF n
  <2> DEFINE T == {k \in 0..n : x[k].ok /\ x[k].vs[h] # g[k]}
  <2>3. T = {}
    <3>1. SUFFICES ASSUME T # {} PROVE FALSE OBVIOUS
    <3>2. PICK m \in T : \A k \in T : m <= k
      <4>1. T \in SUBSET Nat BY <1>1
      <4> HIDE DEF T
      <4> QED BY <3>1, <4>1, LeastNat
    <3>3. m \in 0..n /\ x[m].ok /\ x[m].vs[h] # g[m] OBVIOUS
    <3>4. m # 0
      <4>1. x[0] = [ok |-> TRUE, vs |-> vs] BY <1>2 DEF ExecOf
      <4>2. x[0].vs[h] = v BY <4>1 DEF v
      <4>3. g[0] = v BY <2>2 DEF RunOf
      <4> QED BY <3>3, <4>2, <4>3
    <3>5. m \in 1..n /\ m - 1 \in 0..n /\ ~ (m <= m - 1) BY <1>1, <3>3, <3>4
    <3> DEFINE a == x[m - 1]
               b == x[m]
               w == ws[m]
    <3>6. a \in ExecState /\ w \in Part /\ b = ExecuteOne(a, w)
      BY <1>1, <1>2, <3>5 DEF ExecOf, n
    <3>7. a.ok => a.vs[h] = g[m - 1] BY <3>2, <3>5
    <3>8. g[m] = IF w.handle = h THEN Put(g[m - 1], w) ELSE g[m - 1] BY <2>2, <3>5 DEF RunOf, n
    <3>9. b.ok /\ b.vs[h] # g[m] BY <3>3
    <3> HIDE DEF a, b, w
    <3>10. /\ a.ok /\ b.vs[w.handle] = Put(a.vs[w.handle], w)
           /\ h # w.handle => b.vs[h] = a.vs[h]
      BY <3>6, <3>9, ExecuteOneIs
    <3> QED BY <3>7, <3>8, <3>9, <3>10
  <2>4. n \in 0..n BY <1>1
  <2>5. x[n].vs[h] = g[n] BY <1>3, <1>5, <2>3, <2>4
  <2> QED BY <1>3, <2>2, <2>5 DEF v, n
<1> QED BY <1>4, <1>5

-----------------------------------------------------------------------------
(***************************************************************************)
(* The steps keep the data in order.                                       *)
(***************************************************************************)
\* The command at the head of the queue.
HeadIs(c, i, p) ==
  /\ 1 \in DOMAIN queue /\ Head(queue) = c /\ i \in DOMAIN procs /\ ~ stale
  /\ IsProc(p) /\ CmdOk(c, p.call.kind) /\ ProcData(p) /\ CmdData(c, p)
  /\ p.call.kind # "write_cmd" => p.ends = <<>>

\* It is one.
LEMMA HeadFacts ==
  ASSUME GInv, DInv, queue # <<>>, NEW c, c = queue[1], NEW i, i = c.proc, NEW p, p = procs[i]
  PROVE  HeadIs(c, i, p)
<1>1. QueueOk(procs, queue) BY DEF GInv
<1>2. Head(queue) = c /\ i \in DOMAIN procs /\ IsProc(p) /\ CmdOk(c, p.call.kind) BY <1>1, HeadOk
<1>3. IsSeq(queue) BY <1>1 DEF QueueOk
<1>4. 1 \in DOMAIN queue
  <2>1. Len(queue) \in Nat /\ Len(queue) >= 1 BY <1>3, TailSeq
  <2> QED BY <1>3, <2>1, SeqLen
<1>5. p.call.kind # "write_cmd" => p.ends = <<>> BY <1>1, <1>4, NotEnded
<1> QED BY <1>2, <1>4, <1>5 DEF HeadIs, DInv, AllProcData, AllCmdData, MtuKept

\* The procedure that a request belongs to.
LEMMA OpKind ==
  ASSUME NEW p, p.call.kind \in Kinds, NEW c, CmdOk(c, p.call.kind), CmdData(c, p)
  PROVE  /\ c.cb = "exchange_mtu_cb" => p.call.kind = "mtu"
         /\ c.req.op = "MTU_REQ" => p.call.kind = "mtu"
         /\ c.req.op \in {"WRITE_REQ", "PREP_WRITE_REQ", "EXEC_WRITE_REQ"} => p.call.kind = "write"
         /\ c.req.op = "WRITE_CMD" => p.call.kind = "write_cmd"
         /\ c.cb = "prepare_write_cb" => p.call.kind = "write"
<1>1. CASE p.call.kind = "read" BY <1>1 DEF CmdData, ReadCmd
<1>2. CASE p.call.kind = "write" BY <1>2 DEF CmdData, WriteCmd
<1>3. CASE p.call.kind = "write_cmd" BY <1>3 DEF CmdData, CutCmd
<1>4. CASE p.call.kind = "mtu" BY <1>4 DEF CmdData
<1>5. CASE p.call.kind \in {"primary", "chars", "desc", "by_uuid"} BY <1>5 DEF CmdData, AskOps
<1>6. CASE p.call.kind = "included" BY <1>6 DEF CmdData, CmdOk, IncludedCbs, AskOps
<1> QED BY <1>1, <1>2, <1>3, <1>4, <1>5, <1>6 DEF Kinds

\* Calls.
LEMMA CallData == ASSUME GInv, GInv', DInv, NEW c \in Calls, Call(c) PROVE DInv'
<1> DEFINE i == Len(procs) + 1
           p == NewProc(c)
           o == Start(p)
<1>1. mtu \in Mtu BY DEF DInv, ServerData
<1>2. Adds(i, o) /\ StartsData(c, p, o)
  <2> DEFINE i1 == i
             p1 == p
             o1 == o
  <2>1. i1 = Len(procs) + 1 /\ p1 = NewProc(c) /\ o1 = Start(p1) OBVIOUS
  <2> HIDE DEF i1, p1, o1
  <2>2. Adds(i1, o1) /\ StartsData(c, p1, o1) BY <1>1, <2>1, CallEffect
  <2> QED BY <2>2 DEF i1, p1, o1
<1> HIDE DEF i, p, o
<1>3. AllProcData(procs)' BY <1>2 DEF Adds, StartsData, AllProcData, DInv
<1>4. ASSUME NEW k \in DOMAIN queue' PROVE CmdData(queue'[k], procs'[queue'[k].proc])
  <2>1. CASE k \in DOMAIN queue /\ queue'[k] = queue[k]
    <3> DEFINE x == queue[k]
    <3>1. x.proc \in DOMAIN procs /\ CmdData(x, procs[x.proc])
      BY <2>1 DEF GInv, QueueOk, DInv, AllCmdData
    <3> QED BY <1>2, <2>1, <3>1 DEF Adds
  <2>2. CASE Issued(queue'[k], i, o)
    <3> DEFINE x == queue'[k]
    <3>1. x.proc = i BY <2>2 DEF Issued
    <3>2. PICK y \in DOMAIN o.reqs : x.cb = o.reqs[y].cb /\ x.req = o.reqs[y].req
      BY <2>2 DEF Issued
    <3>3. CmdData(o.reqs[y], o.p) BY <1>2 DEF StartsData
    <3> HIDE DEF x
    <3>4. CmdData(x, o.p) BY <3>2, <3>3, IssuedData
    <3> QED BY <1>2, <3>1, <3>4 DEF Adds, x
  <2> QED BY <1>2, <2>1, <2>2 DEF Adds
<1>5. HeadData'
  <2> SUFFICES ASSUME rsp' # NoRsp PROVE RspData(queue'[1], procs'[queue'[1].proc], rsp')
    BY DEF HeadData
  <2>1. rsp' = rsp /\ rsp # NoRsp /\ queue'[1] = queue[1] BY <1>2 DEF Adds
  <2>2. queue # <<>> /\ QueueOk(procs, queue) BY <2>1 DEF GInv
  <2>3. queue[1].proc \in DOMAIN procs BY <2>2, HeadOk
  <2>4. procs'[queue[1].proc] = procs[queue[1].proc] BY <1>2, <2>3 DEF Adds
  <2> QED BY <2>1, <2>4 DEF DInv, HeadData
<1>6. ServerData' BY <1>2 DEF Adds, DInv, ServerData
<1>7. MtuKept'
  <2>1. MtuComes' <=> MtuComes
    <3>1. rsp' = rsp /\ (rsp # NoRsp => queue'[1] = queue[1]) BY <1>2 DEF Adds
    <3>2. NoRsp.status # "OK" BY DEF NoRsp
    <3> QED BY <3>1, <3>2 DEF MtuComes
  <2>2. MtuComes => queue'[1] = queue[1]
    <3>1. NoRsp.status # "OK" BY DEF NoRsp
    <3> QED BY <1>2, <3>1 DEF MtuComes, Adds
  <2>3. ~ stale /\ rsp' = rsp /\ mtu' = mtu /\ stale' = stale /\ smtu' = smtu BY <1>2 DEF Adds
  <2> QED BY <2>1, <2>2, <2>3 DEF MtuKept, DInv
<1> QED BY <1>3, <1>4, <1>5, <1>6, <1>7 DEF DInv, AllCmdData

\* The MTU that a call may ask for.
LEMMA CallMtu ==
  ASSUME NEW c \in Calls, c.kind = "mtu"
  PROVE  c.mtu \in Mtu
<1>1. IsMtu(c.mtu) BY GattAssumption
<1> QED BY <1>1 DEF IsMtu, Mtu, ATT_DEFAULT_LE_MTU

\* Responses.
LEMMA ReceivedData == ASSUME GInv, DInv, received_data PROVE DInv'
<1> DEFINE c == queue[1]
           i == c.proc
           p == procs[i]
           o == Callback(c, p, rsp)
<1>1. Receives(i, c, p, o)
  <2> DEFINE c1 == c
             i1 == i
             p1 == p
             o1 == o
  <2>1. c1 = queue[1] /\ i1 = c1.proc /\ p1 = procs[i1] /\ o1 = Callback(c1, p1, rsp) OBVIOUS
  <2> HIDE DEF c1, i1, p1, o1
  <2>2. Receives(i1, c1, p1, o1) BY <2>1, ReceivedEffect
  <2> QED BY <2>2 DEF c1, i1, p1, o1
<1>2. HeadIs(c, i, p)
  <2>1. queue # <<>> BY <1>1 DEF Receives
  <2> DEFINE c1 == c
             i1 == i
             p1 == p
  <2>2. c1 = queue[1] /\ i1 = c1.proc /\ p1 = procs[i1] OBVIOUS
  <2> HIDE DEF c1, i1, p1
  <2>3. HeadIs(c1, i1, p1) BY <2>1, <2>2, HeadFacts
  <2> QED BY <2>3 DEF c1, i1, p1
<1>3. p = procs[i] /\ c = queue[1] /\ i = queue[1].proc OBVIOUS
<1> HIDE DEF c, i, p, o
<1>4. AllProcData(procs')
  <2> SUFFICES ASSUME NEW j \in DOMAIN procs' PROVE ProcData(procs'[j]) BY DEF AllProcData
  <2>1. j \in DOMAIN procs BY <1>1 DEF Receives
  <2>2. CASE j = i BY <1>1, <2>2 DEF Receives, DataGoes
  <2>3. CASE j # i BY <1>1, <2>1, <2>3 DEF Receives, DInv, AllProcData
  <2> QED BY <2>2, <2>3
<1>5. ASSUME NEW k \in DOMAIN queue' PROVE CmdData(queue'[k], procs'[queue'[k].proc])
  <2> DEFINE x == queue'[k]
  <2>1. CASE \E j \in DOMAIN queue : j # 1 /\ queue'[k] = queue[j]
    <3>1. PICK j \in DOMAIN queue : j # 1 /\ x = queue[j] BY <2>1
    <3>2. x.proc \in DOMAIN procs /\ CmdData(x, procs[x.proc])
      BY <3>1 DEF GInv, QueueOk, DInv, AllCmdData
    <3>3. CASE x.proc # i
      <4>1. procs'[x.proc] = procs[x.proc] BY <1>1, <3>2, <3>3 DEF Receives
      <4> QED BY <3>2, <4>1
    <3>4. CASE x.proc = i
      <4>1. ~ Plain(p)
        <5>1. QueueOk(procs, queue) /\ 1 \in DOMAIN queue BY <1>2 DEF GInv, HeadIs
        <5>2. queue[j].proc = queue[1].proc BY <1>3, <3>1, <3>4
        <5> QED BY <1>3, <3>1, <5>1, <5>2, OneCommand
      <4>2. CmdData(x, p) BY <1>3, <3>2, <3>4
      <4>3. procs'[x.proc] = o.p /\ o.p.call = p.call BY <1>1, <3>4 DEF Receives
      <4>4. CASE p.call.kind = "included"
        <5>1. CmdData(x, o.p) BY <4>2, <4>3, <4>4 DEF CmdData
        <5> QED BY <4>3, <5>1
      <4>5. CASE p.call.kind = "write_cmd"
        <5>1. o.p = p BY <1>1, <4>5 DEF Receives
        <5> QED BY <4>2, <4>3, <5>1
      <4> QED BY <4>1, <4>4, <4>5 DEF Plain
    <3> QED BY <3>3, <3>4
  <2>2. CASE Issued(queue'[k], i, o)
    <3>1. x.proc = i BY <2>2 DEF Issued
    <3>2. PICK y \in DOMAIN o.reqs : x.cb = o.reqs[y].cb /\ x.req = o.reqs[y].req
      BY <2>2 DEF Issued
    <3>3. CmdData(o.reqs[y], o.p) BY <1>1 DEF Receives, DataGoes
    <3> HIDE DEF x
    <3>4. CmdData(x, o.p) BY <3>2, <3>3, IssuedData
    <3> QED BY <1>1, <3>1, <3>4 DEF Receives, x
  <2> QED BY <1>1, <2>1, <2>2 DEF Receives
<1>6. HeadData' BY <1>1 DEF Receives, HeadData
<1>7. MtuComes <=> c.cb = "exchange_mtu_cb" /\ rsp.status = "OK" BY <1>3 DEF MtuComes
<1>8. ASSUME MtuComes PROVE c.req.mtu \in Mtu /\ rsp.data \in Mtu
  <2>1. p.call.kind = "mtu" BY <1>2, <1>7, <1>8, OpKind DEF HeadIs, IsProc
  <2>2. c.req.mtu = p.call.mtu /\ p.call \in Calls BY <1>2, <2>1 DEF HeadIs, CmdData, ProcData
  <2> DEFINE x == p.call
  <2> HIDE DEF x
  <2>3. x.mtu \in Mtu BY <2>1, <2>2, CallMtu DEF x
  <2>4. rsp.data \in Mtu BY <1>1, <1>7, <1>8, <2>1 DEF Receives, RspData
  <2> QED BY <2>2, <2>3, <2>4 DEF x
<1>9. mtu' = (IF MtuComes THEN new_mtu(c.req.mtu, rsp.data) ELSE mtu) /\ smtu' = smtu /\ stale' = stale
      /\ values' = values /\ prep' = prep
  BY <1>1, <1>7 DEF Receives
<1>10. mtu' \in Mtu BY <1>8, <1>9 DEF new_mtu, DInv, ServerData
<1>11. ServerData' BY <1>9, <1>10 DEF ServerData, DInv
<1>12. mtu' = smtu' /\ ~ stale'
  <2>1. ~ stale BY <1>2 DEF HeadIs
  <2> QED BY <1>3, <1>9, <2>1 DEF DInv, MtuKept
<1>13. ~ MtuComes'
  <2>1. rsp' = NoRsp BY <1>1 DEF Receives
  <2> QED BY <2>1 DEF MtuComes, NoRsp
<1>14. MtuKept' BY <1>12, <1>13 DEF MtuKept
<1> QED BY <1>4, <1>5, <1>6, <1>11, <1>14 DEF DInv, AllCmdData

\* The timeout.
LEMMA TimeoutData == ASSUME GInv, DInv, disconnect_timeout PROVE DInv'
<1>1. QueueOk(procs, queue) BY DEF GInv
<1>2. procs' = AllFailed(procs, queue)[Len(queue)] /\ queue' = <<>> /\ rsp' = NoRsp /\ stale' = TRUE
      /\ mtu' = mtu /\ values' = values /\ prep' = prep /\ smtu' = smtu
  BY DEF disconnect_timeout, server
<1>3. Fails(procs, procs', queue) BY <1>1, <1>2, FailsAll
<1>4. ASSUME NEW i \in DOMAIN procs' PROVE ProcData(procs'[i])
  <2> DEFINE p == procs[i]
             p2 == procs'[i]
  <2>1. i \in DOMAIN procs /\ p2.call = p.call /\ IsProc(p) /\ ProcData(p)
    BY <1>1, <1>3, <1>4 DEF Fails, DInv, AllProcData, QueueOk
  <2>2. CASE p.call.kind \notin {"read", "write"} BY <2>1, <2>2 DEF ProcData
  <2>3. CASE p.call.kind \in {"read", "write"}
    <3>1. \/ p2 = p
          \/ \E k \in DOMAIN queue : queue[k].proc = i /\ FailedBy(p2, queue[k], p)
      BY <1>3, <2>1, <2>3 DEF Fails, Plain
    <3>2. CASE \E k \in DOMAIN queue : queue[k].proc = i /\ FailedBy(p2, queue[k], p)
      <4>1. PICK k \in DOMAIN queue : queue[k].proc = i /\ FailedBy(p2, queue[k], p) BY <3>2
      <4> DEFINE c == queue[k]
      <4>2. CmdOk(c, p.call.kind) /\ CmdData(c, p) /\ mtu \in Mtu
        BY <1>1, <4>1 DEF QueueOk, DInv, AllCmdData, ServerData
      <4>3. p.ends = <<>> BY <1>1, <2>3, <4>1, NotEnded
      <4> HIDE DEF c
      <4>4. FailedBy(p2, c, p) BY <4>1 DEF c
      <4> HIDE DEF p, p2
      <4> QED BY <2>1, <2>3, <4>2, <4>3, <4>4, FailedEnds DEF p2
    <3> QED BY <2>1, <3>1, <3>2
  <2> QED BY <2>2, <2>3
<1>5. DOMAIN <<>> = {} BY FewReqs
<1> QED BY <1>2, <1>4, <1>5 DEF DInv, AllProcData, AllCmdData, HeadData, ServerData, MtuKept

\* A server step leaves the queue, and changes the history of procedures only.
LEMMA ServerStepData ==
  ASSUME GInv, DInv, queue # <<>>, rsp = NoRsp, queue' = queue, stale' = stale, mtu' = mtu,
         HistOnly(procs, procs'), ServerData',
         RspData(queue[1], procs[queue[1].proc], rsp'),
         IF rsp'.status = "OK" /\ queue[1].cb = "exchange_mtu_cb"
         THEN smtu' = new_mtu(queue[1].req.mtu, rsp'.data) ELSE smtu' = smtu
  PROVE  DInv'
<1> DEFINE c == queue[1]
           i == c.proc
           p == procs[i]
<1>1. QueueOk(procs, queue) BY DEF GInv
<1>2. AllProcData(procs') /\ AllCmdData(procs', queue)
  <2> DEFINE ps == procs
             ps2 == procs'
             q == queue
  <2>1. HistOnly(ps, ps2) /\ QueueOk(ps, q) /\ AllProcData(ps) /\ AllCmdData(ps, q)
    BY <1>1 DEF DInv
  <2> HIDE DEF ps, ps2, q
  <2>2. AllProcData(ps2) /\ AllCmdData(ps2, q) BY <2>1, HistAllData
  <2> QED BY <2>2 DEF ps2, q
<1>3. i \in DOMAIN procs BY <1>1, HeadOk
<1>4. HeadData'
  <2>1. Hist(p, procs'[i]) BY <1>3 DEF HistOnly
  <2> DEFINE p2 == procs'[i]
             r2 == rsp'
  <2>2. RspData(c, p, r2) /\ Hist(p, p2) BY <2>1
  <2> HIDE DEF c, p, p2, r2
  <2>3. RspData(c, p2, r2) BY <2>2, HistData
  <2> QED BY <2>3 DEF HeadData, c, p2, r2
<1>5. ~ MtuComes
  <2>1. NoRsp.status # "OK" BY DEF NoRsp
  <2> QED BY <2>1 DEF MtuComes
<1>6. mtu = smtu /\ ~ stale BY <1>5 DEF DInv, MtuKept
<1>7. MtuKept' BY <1>6 DEF MtuKept, MtuComes
<1> QED BY <1>2, <1>4, <1>7 DEF DInv

\* The answer to a read: what follows in the value, as much as fits, unless
\* the value has become too short.
ReadAnswer(p, r) ==
  \/ r = Ok(Slice(values[p.call.handle], Len(p.list), smtu - 1))
  \/ r = Error("INVALID_OFFSET") /\ Len(p.list) > Len(values[p.call.handle])

\* A handle with a value is no declaration of an included service.
LEMMA NotDeclared ==
  ASSUME NEW h \in Handles
  PROVE  Declared(h) = {}
<1>1. \A i \in DOMAIN Includes : Includes[i].start \notin DOMAIN Values BY GattAssumption
<1> QED BY <1>1 DEF Declared, ToSet, Handles

\* Read and Read Blob requests.
LEMMA AnswerRead ==
  ASSUME NEW p, p.call.kind = "read", ProcData(p), NEW c, CmdData(c, p), NEW r, r \in Answers(c.req)
  PROVE  p.call.handle \in Handles /\ ReadAnswer(p, r)
<1> DEFINE h == p.call.handle
<1>1. h \in Handles
  <2>1. p.call \in Calls BY DEF ProcData
  <2> QED BY <2>1, GattAssumption DEF Handles
<1>2. c.req.handle = h BY DEF CmdData, ReadCmd
<1>3. CASE c.req.op = "READ_REQ" /\ p.list = <<>>
  <2>1. Declared(h) = {} BY <1>1, NotDeclared
  <2>2. r = Ok(Slice(values[h], 0, smtu - 1)) BY <1>2, <1>3, <2>1 DEF Answers
  <2>3. Len(p.list) = 0 BY <1>3, ReqsNone
  <2> QED BY <1>1, <2>2, <2>3 DEF ReadAnswer
<1>4. CASE c.req.op = "READ_BLOB_REQ" /\ c.req.offset = Len(p.list)
  <2>1. r = IF Len(p.list) > Len(values[h]) THEN Error("INVALID_OFFSET")
            ELSE Ok(Slice(values[h], Len(p.list), smtu - 1))
    BY <1>2, <1>4 DEF Answers
  <2> QED BY <1>1, <2>1 DEF ReadAnswer
<1> QED BY <1>3, <1>4 DEF CmdData, ReadCmd

\* Reads and discoveries.
LEMMA ReadData == ASSUME GInv, DInv, ServeRead PROVE DInv'
<1> DEFINE c == queue[1]
           i == c.proc
           p == procs[i]
<1>1. queue # <<>> /\ rsp = NoRsp /\ queue' = queue /\ stale' = stale /\ mtu' = mtu /\ procs' = procs
      /\ values' = values /\ prep' = prep /\ smtu' = smtu
  BY DEF ServeRead, Waiting, server
<1>2. HeadIs(c, i, p)
  <2> DEFINE c1 == c
             i1 == i
             p1 == p
  <2>1. c1 = queue[1] /\ i1 = c1.proc /\ p1 = procs[i1] OBVIOUS
  <2> HIDE DEF c1, i1, p1
  <2>2. HeadIs(c1, i1, p1) BY <1>1, <2>1, HeadFacts
  <2> QED BY <2>2 DEF c1, i1, p1
<1>3. rsp' \in Answers(c.req) /\ c.req.op \notin {"MTU_REQ", "PREP_WRITE_REQ"}
  BY <1>2 DEF ServeRead, Waiting, HeadIs
<1>4. HistOnly(procs, procs') BY <1>1 DEF HistOnly, Hist
<1>5. ServerData' BY <1>1 DEF ServerData, DInv
<1>6. c.cb # "prepare_write_cb" /\ c.cb # "exchange_mtu_cb" /\ p.call.kind # "mtu"
  <2>1. CmdData(c, p) /\ CmdOk(c, p.call.kind) /\ p.call.kind \in Kinds BY <1>2 DEF HeadIs, IsProc
  <2> HIDE DEF c, p
  <2>2. p.call.kind # "mtu" BY <1>3, <2>1 DEF CmdData
  <2>3. c.cb # "exchange_mtu_cb" BY <2>1, <2>2, OpKind
  <2>4. c.cb = "prepare_write_cb" => p.call.kind = "write" BY <2>1, OpKind
  <2>5. c.cb # "prepare_write_cb" BY <1>3, <2>1, <2>4 DEF CmdData, WriteCmd
  <2> QED BY <2>2, <2>3, <2>5
<1>7. ASSUME rsp'.status = "OK", p.call.kind = "read" PROVE rsp'.data \in Seq(Nat)
  <2> DEFINE v == values[p.call.handle]
             n == Len(p.list)
             k == smtu - 1
             r == rsp'
  <2>1. p.call.handle \in Handles /\ ReadAnswer(p, r)
    <3>1. ProcData(p) /\ CmdData(c, p) /\ r \in Answers(c.req) /\ p.call.kind = "read"
      BY <1>2, <1>3, <1>7 DEF HeadIs
    <3> HIDE DEF p, c, r
    <3> QED BY <3>1, AnswerRead
  <2>2. v \in Seq(Nat) BY <2>1 DEF DInv, ServerData
  <2>3. n \in Nat /\ k \in Nat
    <3>1. p.list \in Seq(Nat) BY <1>2, <1>7 DEF HeadIs, ProcData
    <3>2. smtu \in Mtu BY DEF DInv, ServerData
    <3> QED BY <3>1, <3>2 DEF Mtu
  <2>4. Error("INVALID_OFFSET").status # "OK" BY DEF Error
  <2>5. r = Ok(Slice(v, n, k)) BY <1>7, <2>1, <2>4 DEF ReadAnswer
  <2>6. r.data = Slice(v, n, k) BY <2>5 DEF Ok
  <2> HIDE DEF v, n, k
  <2>7. Slice(v, n, k) \in Seq(Nat) BY <2>2, <2>3, SliceSeq
  <2> QED BY <2>6, <2>7
<1>8. RspData(c, p, rsp') BY <1>6, <1>7 DEF RspData
<1> QED BY <1>1, <1>4, <1>5, <1>6, <1>8, ServerStepData

\* The exchange of the MTU.
LEMMA MtuData == ASSUME GInv, DInv, ServeMtu PROVE DInv'
<1> DEFINE c == queue[1]
           i == c.proc
           p == procs[i]
<1>1. queue # <<>> /\ rsp = NoRsp /\ queue' = queue /\ stale' = stale /\ mtu' = mtu /\ procs' = procs
      /\ values' = values /\ prep' = prep
  BY DEF ServeMtu, Waiting
<1>2. HeadIs(c, i, p)
  <2> DEFINE c1 == c
             i1 == i
             p1 == p
  <2>1. c1 = queue[1] /\ i1 = c1.proc /\ p1 = procs[i1] OBVIOUS
  <2> HIDE DEF c1, i1, p1
  <2>2. HeadIs(c1, i1, p1) BY <1>1, <2>1, HeadFacts
  <2> QED BY <2>2 DEF c1, i1, p1
<1>3. c.req.op = "MTU_REQ" BY <1>2 DEF ServeMtu, Waiting, HeadIs
<1>4. PICK m \in ServerMtus : rsp' = Ok(m) /\ smtu' = smaller(c.req.mtu, m)
  BY <1>2 DEF ServeMtu, HeadIs
<1>5. m \in Mtu
  <2>1. IsMtu(m) BY GattAssumption
  <2> QED BY <2>1 DEF IsMtu, Mtu, ATT_DEFAULT_LE_MTU
<1>6. rsp'.status = "OK" /\ rsp'.data = m BY <1>4 DEF Ok
<1>7. p.call.kind = "mtu" /\ c.req.mtu = p.call.mtu /\ c.cb = "exchange_mtu_cb" /\ p.call \in Calls
  <2>1. CmdData(c, p) /\ CmdOk(c, p.call.kind) /\ p.call.kind \in Kinds /\ ProcData(p)
    BY <1>2 DEF HeadIs, IsProc
  <2> HIDE DEF c, p
  <2>2. p.call.kind = "mtu" BY <1>3, <2>1, OpKind
  <2> QED BY <2>1, <2>2 DEF CmdData, ProcData
<1>8. c.req.mtu \in Mtu
  <2> DEFINE x == p.call
  <2>1. x \in Calls /\ x.kind = "mtu" /\ c.req.mtu = x.mtu BY <1>7
  <2> HIDE DEF x
  <2> QED BY <2>1, CallMtu
<1> HIDE DEF c, p
<1>9. smtu' = new_mtu(c.req.mtu, m) /\ smtu' \in Mtu
  <2> DEFINE a == c.req.mtu
  <2>1. a \in Mtu /\ smtu' = smaller(a, m) BY <1>4, <1>8
  <2> HIDE DEF a
  <2>2. smtu' = new_mtu(a, m) /\ smtu' \in Mtu BY <1>5, <2>1 DEF smaller, new_mtu, Mtu
  <2> QED BY <2>2 DEF a
<1>10. ServerData' BY <1>1, <1>9 DEF ServerData, DInv
<1>11. HistOnly(procs, procs') BY <1>1 DEF HistOnly, Hist
<1>12. RspData(c, p, rsp') BY <1>5, <1>6, <1>7 DEF RspData
<1> QED BY <1>1, <1>6, <1>7, <1>9, <1>10, <1>11, <1>12, ServerStepData DEF c, p

\* The requests of a write.
LEMMA WriteHead ==
  ASSUME GInv, DInv, queue # <<>>, NEW c, c = queue[1], NEW i, i = c.proc, NEW p, p = procs[i],
         c.req.op \in {"WRITE_REQ", "PREP_WRITE_REQ", "EXEC_WRITE_REQ"}
  PROVE  /\ HeadIs(c, i, p) /\ p.call.kind = "write" /\ WriteCmd(c, p)
         /\ p.call.handle \in Handles /\ p.call.value \in Seq(Nat)
         /\ p.offset \in 0..Len(p.call.value)
         /\ c.req.op # "EXEC_WRITE_REQ" => c.req.handle = p.call.handle /\ c.req.value \in Seq(Nat)
         /\ c.req.op = "PREP_WRITE_REQ" => NextPart(c.req, p)
<1>1. HeadIs(c, i, p) BY HeadFacts
<1>2. CmdData(c, p) /\ CmdOk(c, p.call.kind) /\ p.call.kind \in Kinds /\ ProcData(p)
  BY <1>1 DEF HeadIs, IsProc
<1>3. p.call.kind = "write" BY <1>2, OpKind
<1>4. WriteCmd(c, p) /\ p.call \in Calls /\ p.offset \in 0..Len(p.call.value)
  BY <1>2, <1>3 DEF CmdData, ProcData
<1>5. p.call.handle \in Handles /\ p.call.value \in Seq(Nat)
  BY <1>3, <1>4, GattAssumption DEF Handles
<1>6. c.req.op = "PREP_WRITE_REQ" => NextPart(c.req, p) BY <1>4 DEF WriteCmd
<1>7. ASSUME c.req.op = "PREP_WRITE_REQ" PROVE c.req.handle = p.call.handle /\ c.req.value \in Seq(Nat)
  <2> DEFINE v == p.call.value
             n == p.offset
             x == c.req.value
  <2>1. PICK m \in 0..Len(v) : m > n /\ x = SubSeq(v, n + 1, m) BY <1>6, <1>7 DEF NextPart
  <2>2. v \in Seq(Nat) /\ n \in 0..Len(v) BY <1>4, <1>5
  <2> HIDE DEF v, n, x
  <2>3. x \in Seq(Nat) BY <2>1, <2>2, PartIs
  <2> QED BY <1>6, <1>7, <2>3 DEF NextPart, x
<1>8. c.req.op = "WRITE_REQ" => c.req.handle = p.call.handle /\ c.req.value = p.call.value
  BY <1>4 DEF WriteCmd
<1> QED BY <1>1, <1>3, <1>4, <1>5, <1>6, <1>7, <1>8

\* A response to a write.
LEMMA WriteRspData ==
  ASSUME NEW p, p.call.kind = "write", NEW c, WriteCmd(c, p), NEW r,
         c.req.op = "PREP_WRITE_REQ" => (r.status = "OK" => r.data = c.req.value)
  PROVE  RspData(c, p, r) /\ c.cb # "exchange_mtu_cb"
BY DEF RspData, WriteCmd

\* A Write Request of procedure i.
WritesReq(c, i, p) ==
  /\ HeadIs(c, i, p) /\ p.call.kind = "write" /\ WriteCmd(c, p) /\ c.req.op = "WRITE_REQ"
  /\ p.call.handle \in Handles /\ p.call.value \in Seq(Nat)
  /\ values' = [values EXCEPT ![p.call.handle] = p.call.value] /\ values' \in Attributes
  /\ procs' = Touch(values') /\ queue' = queue /\ rsp = NoRsp /\ rsp' = Ok(<<>>)
  /\ mtu' = mtu /\ stale' = stale /\ prep' = prep /\ smtu' = smtu

\* A Write Command, which leaves the queue.
WritesCmd(c, i, p) ==
  /\ HeadIs(c, i, p) /\ p.call.kind = "write_cmd" /\ CutCmd(c, p)
  /\ p.call.handle \in Handles /\ c.req.value \in Seq(Nat)
  /\ values' = [values EXCEPT ![p.call.handle] = c.req.value] /\ values' \in Attributes
  /\ procs' = Touch(values') /\ rsp = NoRsp /\ rsp' = NoRsp
  /\ \A k \in DOMAIN queue' : \E j \in DOMAIN queue : j # 1 /\ queue'[k] = queue[j]
  /\ queue' # <<>> => queue # <<>>
  /\ mtu' = mtu /\ stale' = stale /\ prep' = prep /\ smtu' = smtu

\* ServeWrite is one of them.
LEMMA WriteEffect ==
  ASSUME GInv, DInv, ServeWrite, NEW c, c = queue[1], NEW i, i = c.proc, NEW p, p = procs[i]
  PROVE  WritesReq(c, i, p) \/ WritesCmd(c, i, p)
<1>1. queue # <<>> /\ rsp = NoRsp BY DEF ServeWrite, Waiting
<1>2. HeadIs(c, i, p) BY <1>1, HeadFacts
<1>3. Head(queue) = c BY <1>2 DEF HeadIs
<1> DEFINE req == c.req
           h == p.call.handle
<1>4. /\ req.op \in {"WRITE_REQ", "WRITE_CMD"}
      /\ values' = [values EXCEPT ![req.handle] = req.value] /\ procs' = Touch(values')
      /\ IF req.op = "WRITE_CMD" THEN queue' = Tail(queue) /\ rsp' = rsp
                                 ELSE queue' = queue /\ rsp' = Ok(<<>>)
      /\ mtu' = mtu /\ stale' = stale /\ prep' = prep /\ smtu' = smtu
  BY <1>3 DEF ServeWrite, Waiting
<1>5. values \in Attributes BY DEF DInv, ServerData, Attributes
<1>6. CASE req.op = "WRITE_REQ"
  <2>1. /\ p.call.kind = "write" /\ WriteCmd(c, p)
        /\ p.call.handle \in Handles /\ p.call.value \in Seq(Nat)
    BY <1>1, <1>6, WriteHead
  <2>2. req.handle = h /\ req.value = p.call.value BY <1>6, <2>1 DEF WriteCmd
  <2>3. values' \in Attributes BY <1>4, <1>5, <2>1, <2>2 DEF Attributes
  <2>4. WritesReq(c, i, p) BY <1>1, <1>2, <1>4, <1>6, <2>1, <2>2, <2>3 DEF WritesReq
  <2> QED BY <2>4
<1>7. CASE req.op = "WRITE_CMD"
  <2>1. CmdData(c, p) /\ CmdOk(c, p.call.kind) /\ p.call.kind \in Kinds /\ ProcData(p)
    BY <1>2 DEF HeadIs, IsProc
  <2>2. p.call.kind = "write_cmd" BY <1>7, <2>1, OpKind
  <2>3. CutCmd(c, p) /\ p.call \in Calls BY <2>1, <2>2 DEF CmdData, ProcData
  <2>4. p.call.handle \in Handles BY <2>2, <2>3, GattAssumption DEF Handles
  <2>5. req.handle = h /\ req.value \in Seq(Nat) BY <2>3 DEF CutCmd
  <2>6. values' \in Attributes BY <1>4, <1>5, <2>4, <2>5 DEF Attributes
  <2>7. ASSUME NEW k \in DOMAIN queue' PROVE \E j \in DOMAIN queue : j # 1 /\ queue'[k] = queue[j]
    <3>1. IsSeq(queue) BY DEF GInv, QueueOk
    <3>2. /\ Len(queue) \in Nat /\ DOMAIN Tail(queue) = 1..(Len(queue) - 1)
          /\ \A x \in 1..(Len(queue) - 1) : Tail(queue)[x] = queue[x + 1]
          /\ DOMAIN queue = 1..Len(queue)
      BY <1>1, <3>1, TailSeq, SeqLen
    <3>3. queue' = Tail(queue) BY <1>4, <1>7
    <3>4. k \in 1..(Len(queue) - 1) BY <2>7, <3>2, <3>3
    <3>5. k + 1 \in DOMAIN queue /\ k + 1 # 1 /\ queue'[k] = queue[k + 1] BY <3>2, <3>3, <3>4
    <3> QED BY <3>5
  <2>8. WritesCmd(c, i, p) BY <1>1, <1>2, <1>4, <1>7, <2>2, <2>3, <2>4, <2>5, <2>6, <2>7 DEF WritesCmd
  <2> QED BY <2>8
<1> QED BY <1>4, <1>6, <1>7

\* A Prepare Write Request.
Prepares(c, i, p, w) ==
  /\ HeadIs(c, i, p) /\ p.call.kind = "write" /\ WriteCmd(c, p) /\ c.req.op = "PREP_WRITE_REQ"
  /\ p.call.handle \in Handles /\ p.call.value \in Seq(Nat) /\ p.offset \in 0..Len(p.call.value)
  /\ w \in Part /\ w.handle = p.call.handle /\ w.offset = p.offset /\ w.value = c.req.value
  /\ NextPart(c.req, p)
  /\ prep' = Append(prep, w) /\ procs' = procs /\ queue' = queue
  /\ rsp = NoRsp /\ rsp' = Ok(c.req.value)
  /\ mtu' = mtu /\ stale' = stale /\ values' = values /\ smtu' = smtu

\* ServePrepare is one.
LEMMA PrepareEffect ==
  ASSUME GInv, DInv, ServePrepare, NEW c, c = queue[1], NEW i, i = c.proc, NEW p, p = procs[i],
         NEW w, w = [handle |-> c.req.handle, offset |-> c.req.offset, value |-> c.req.value]
  PROVE  Prepares(c, i, p, w)
<1>1. queue # <<>> /\ rsp = NoRsp /\ Head(queue).req.op = "PREP_WRITE_REQ" BY DEF ServePrepare, Waiting
<1>2. HeadIs(c, i, p) BY <1>1, HeadFacts
<1>3. Head(queue) = c BY <1>2 DEF HeadIs
<1>4. c.req.op = "PREP_WRITE_REQ" BY <1>1, <1>3
<1>5. /\ p.call.kind = "write" /\ WriteCmd(c, p) /\ p.call.handle \in Handles
      /\ p.call.value \in Seq(Nat) /\ p.offset \in 0..Len(p.call.value)
      /\ c.req.handle = p.call.handle /\ c.req.value \in Seq(Nat) /\ NextPart(c.req, p)
  BY <1>1, <1>4, WriteHead
<1>6. w.handle = c.req.handle /\ w.offset = c.req.offset /\ w.value = c.req.value OBVIOUS
<1>7. c.req.offset = p.offset BY <1>5 DEF NextPart
<1>8. w \in Part BY <1>5, <1>7 DEF Part
<1>9. /\ prep' = Append(prep, w) /\ rsp' = Ok(c.req.value) /\ procs' = procs /\ queue' = queue
      /\ mtu' = mtu /\ stale' = stale /\ values' = values /\ smtu' = smtu
  BY <1>3 DEF ServePrepare
<1> QED BY <1>1, <1>2, <1>4, <1>5, <1>6, <1>7, <1>8, <1>9 DEF Prepares

\* An Execute Write Request: every value is what its parts make of it, or
\* nothing is written; nothing stays prepared.
Executes(c, i, p) ==
  /\ HeadIs(c, i, p) /\ p.call.kind = "write" /\ WriteCmd(c, p) /\ c.req.op = "EXEC_WRITE_REQ"
  /\ p.call.handle \in Handles /\ p.call.value \in Seq(Nat)
  /\ \/ rsp'.status = "OK" /\ \A h \in Handles : values'[h] = Run(values[h], prep, h)
     \/ rsp'.status = "INVALID_OFFSET" /\ values' = values
  /\ values' \in Attributes
  /\ procs' = Touch(values') /\ queue' = queue /\ rsp = NoRsp /\ prep' = <<>>
  /\ mtu' = mtu /\ stale' = stale /\ smtu' = smtu

\* ServeExecute is one.
LEMMA ExecuteEffect ==
  ASSUME GInv, DInv, ServeExecute, NEW c, c = queue[1], NEW i, i = c.proc, NEW p, p = procs[i]
  PROVE  Executes(c, i, p)
<1>1. queue # <<>> /\ rsp = NoRsp /\ Head(queue).req.op = "EXEC_WRITE_REQ" BY DEF ServeExecute, Waiting
<1>2. HeadIs(c, i, p) BY <1>1, HeadFacts
<1>3. c.req.op = "EXEC_WRITE_REQ" BY <1>1, <1>2 DEF HeadIs
<1>4. /\ p.call.kind = "write" /\ WriteCmd(c, p) /\ p.call.handle \in Handles
      /\ p.call.value \in Seq(Nat)
  BY <1>1, <1>3, WriteHead
<1> DEFINE e == Executed(values, prep)[Len(prep)]
<1>5. values \in Attributes /\ prep \in Seq(Part) BY DEF DInv, ServerData, Attributes
<1>6. e \in ExecState /\ (e.ok => \A h \in Handles : e.vs[h] = Run(values[h], prep, h))
  <2> DEFINE vs == values
             ws == prep
             f == Executed(vs, ws)[Len(ws)]
  <2>1. f = Executed(vs, ws)[Len(ws)] /\ vs \in Attributes /\ ws \in Seq(Part) BY <1>5
  <2> HIDE DEF vs, ws, f
  <2>2. f \in ExecState /\ (f.ok => \A h \in Handles : f.vs[h] = Run(vs[h], ws, h))
    BY <2>1, RunExecute
  <2> QED BY <2>2 DEF vs, ws, f
<1>7. /\ values' = (IF e.ok THEN e.vs ELSE values) /\ procs' = Touch(values')
      /\ rsp' = (IF e.ok THEN Ok(<<>>) ELSE Error("INVALID_OFFSET")) /\ prep' = <<>>
      /\ queue' = queue /\ mtu' = mtu /\ stale' = stale /\ smtu' = smtu
  BY DEF ServeExecute, Execute
<1> HIDE DEF e
<1>8. Ok(<<>>).status = "OK" /\ Error("INVALID_OFFSET").status = "INVALID_OFFSET" BY DEF Ok, Error
<1>9. e.ok \in BOOLEAN /\ e.vs \in Attributes BY <1>6 DEF ExecState
<1>10. \/ rsp'.status = "OK" /\ \A h \in Handles : values'[h] = Run(values[h], prep, h)
       \/ rsp'.status = "INVALID_OFFSET" /\ values' = values
  BY <1>6, <1>7, <1>8
<1>11. values' \in Attributes BY <1>5, <1>7, <1>9
<1> QED BY <1>1, <1>2, <1>3, <1>4, <1>7, <1>10, <1>11 DEF Executes

\* The server refuses a request.
Refuses(c, i, p) ==
  /\ HeadIs(c, i, p) /\ rsp = NoRsp /\ rsp' = Error("REFUSED")
  /\ HistOnly(procs, procs') /\ procs'[i].fault = TRUE /\ procs'[i].touched = p.touched
  /\ \A j \in DOMAIN procs : j # i => procs'[j] = procs[j]
  /\ queue' = queue /\ mtu' = mtu /\ stale' = stale
  /\ values' = values /\ prep' = prep /\ smtu' = smtu

\* Refuse is that.
LEMMA RefuseEffect ==
  ASSUME GInv, DInv, Refuse, NEW c, c = queue[1], NEW i, i = c.proc, NEW p, p = procs[i]
  PROVE  Refuses(c, i, p)
<1>1. queue # <<>> /\ rsp = NoRsp BY DEF Refuse
<1>2. HeadIs(c, i, p) BY <1>1, HeadFacts
<1>3. Head(queue) = c /\ i \in DOMAIN procs /\ IsProc(p) BY <1>2 DEF HeadIs
<1>4. /\ procs' = [procs EXCEPT ![i].fault = TRUE] /\ rsp' = Error("REFUSED")
      /\ queue' = queue /\ mtu' = mtu /\ stale' = stale
      /\ values' = values /\ prep' = prep /\ smtu' = smtu
  BY <1>3 DEF Refuse, server
<1> DEFINE p2 == [p EXCEPT !.fault = TRUE]
<1>5. DOMAIN procs' = DOMAIN procs /\ procs'[i] = p2 /\ \A j \in DOMAIN procs : j # i => procs'[j] = procs[j]
  BY <1>3, <1>4
<1>6. p2.call = p.call /\ p2.list = p.list /\ p2.offset = p.offset /\ p2.ends = p.ends
      /\ p2.alone = p.alone /\ p2.touched = p.touched /\ p2.fault = TRUE
  BY <1>3 DEF IsProc, ProcFields
<1> HIDE DEF p2
<1>7. ASSUME NEW j \in DOMAIN procs PROVE Hist(procs[j], procs'[j])
  <2>1. CASE j = i BY <1>5, <1>6, <2>1 DEF Hist
  <2>2. CASE j # i BY <1>5, <2>2 DEF Hist
  <2> QED BY <2>1, <2>2
<1>8. HistOnly(procs, procs') BY <1>5, <1>7 DEF HistOnly
<1> QED BY <1>1, <1>2, <1>4, <1>5, <1>6, <1>8 DEF Refuses

\* Writes.
LEMMA WriteData == ASSUME GInv, DInv, ServeWrite PROVE DInv'
<1> DEFINE c == queue[1]
           i == c.proc
           p == procs[i]
<1>1. c = queue[1] /\ i = c.proc /\ p = procs[i] /\ QueueOk(procs, queue) /\ queue # <<>>
  BY DEF GInv, ServeWrite, Waiting
<1> HIDE DEF c, i, p
<1>2. WritesReq(c, i, p) \/ WritesCmd(c, i, p) BY <1>1, WriteEffect
<1>3. procs' = Touch(values') /\ values' \in Attributes /\ prep' = prep /\ mtu' = mtu
      /\ stale' = stale /\ smtu' = smtu /\ rsp = NoRsp
  BY <1>2 DEF WritesReq, WritesCmd
<1>4. HistOnly(procs, procs') BY <1>1, <1>3, TouchEffect
<1>5. ServerData' BY <1>3 DEF ServerData, DInv, Attributes
<1>6. CASE WritesReq(c, i, p)
  <2>1. queue' = queue /\ p.call.kind = "write" /\ WriteCmd(c, p) /\ c.req.op = "WRITE_REQ"
    BY <1>6 DEF WritesReq
  <2> DEFINE r == rsp'
  <2>2. c.req.op = "PREP_WRITE_REQ" => (r.status = "OK" => r.data = c.req.value) BY <2>1
  <2> HIDE DEF r
  <2>3. RspData(c, p, r) /\ c.cb # "exchange_mtu_cb" BY <2>1, <2>2, WriteRspData
  <2> QED BY <1>1, <1>3, <1>4, <1>5, <2>1, <2>3, ServerStepData DEF r
<1>7. CASE WritesCmd(c, i, p)
  <2>1. rsp' = NoRsp /\ \A k \in DOMAIN queue' : \E j \in DOMAIN queue : j # 1 /\ queue'[k] = queue[j]
    BY <1>7 DEF WritesCmd
  <2>2. AllProcData(procs') /\ AllCmdData(procs', queue)
    <3> DEFINE ps == procs
               ps2 == procs'
               q == queue
    <3>1. HistOnly(ps, ps2) /\ QueueOk(ps, q) /\ AllProcData(ps) /\ AllCmdData(ps, q)
      BY <1>1, <1>4 DEF DInv
    <3> HIDE DEF ps, ps2, q
    <3>2. AllProcData(ps2) /\ AllCmdData(ps2, q) BY <3>1, HistAllData
    <3> QED BY <3>2 DEF ps2, q
  <2>3. AllCmdData(procs', queue') BY <2>1, <2>2 DEF AllCmdData
  <2>4. NoRsp.status # "OK" BY DEF NoRsp
  <2>5. MtuKept' BY <1>1, <1>3, <2>1, <2>4 DEF MtuKept, MtuComes, DInv
  <2>6. HeadData' BY <2>1 DEF HeadData
  <2> QED BY <1>5, <2>2, <2>3, <2>5, <2>6 DEF DInv
<1> QED BY <1>2, <1>6, <1>7

\* Parts.
LEMMA PrepareData == ASSUME GInv, DInv, ServePrepare PROVE DInv'
<1> DEFINE c == queue[1]
           i == c.proc
           p == procs[i]
           w == [handle |-> c.req.handle, offset |-> c.req.offset, value |-> c.req.value]
<1>1. c = queue[1] /\ i = c.proc /\ p = procs[i] /\ queue # <<>>
      /\ w = [handle |-> c.req.handle, offset |-> c.req.offset, value |-> c.req.value]
  BY DEF ServePrepare, Waiting
<1> HIDE DEF c, i, p, w
<1>2. Prepares(c, i, p, w) BY <1>1, PrepareEffect
<1>3. /\ w \in Part /\ prep' = Append(prep, w) /\ procs' = procs /\ queue' = queue /\ rsp = NoRsp
      /\ rsp' = Ok(c.req.value) /\ mtu' = mtu /\ stale' = stale /\ values' = values /\ smtu' = smtu
      /\ p.call.kind = "write" /\ WriteCmd(c, p)
  BY <1>2 DEF Prepares
<1>4. HistOnly(procs, procs') BY <1>3 DEF HistOnly, Hist
<1>5. prep' \in Seq(Part)
  <2>1. prep \in Seq(Part) BY DEF DInv, ServerData
  <2> QED BY <1>3, <2>1
<1>6. ServerData' BY <1>3, <1>5 DEF ServerData, DInv
<1> DEFINE r == rsp'
<1>7. r.data = c.req.value BY <1>3 DEF Ok
<1> HIDE DEF r
<1>8. RspData(c, p, r) /\ c.cb # "exchange_mtu_cb" BY <1>3, <1>7, WriteRspData
<1> QED BY <1>1, <1>3, <1>4, <1>6, <1>8, ServerStepData DEF r

\* Execute Write.
LEMMA ExecuteData == ASSUME GInv, DInv, ServeExecute PROVE DInv'
<1> DEFINE c == queue[1]
           i == c.proc
           p == procs[i]
<1>1. c = queue[1] /\ i = c.proc /\ p = procs[i] /\ QueueOk(procs, queue) /\ queue # <<>>
  BY DEF GInv, ServeExecute, Waiting
<1> HIDE DEF c, i, p
<1>2. Executes(c, i, p) BY <1>1, ExecuteEffect
<1>3. /\ procs' = Touch(values') /\ values' \in Attributes /\ prep' = <<>> /\ mtu' = mtu
      /\ stale' = stale /\ smtu' = smtu /\ rsp = NoRsp /\ queue' = queue
      /\ p.call.kind = "write" /\ WriteCmd(c, p) /\ c.req.op = "EXEC_WRITE_REQ"
  BY <1>2 DEF Executes
<1>4. HistOnly(procs, procs') BY <1>1, <1>3, TouchEffect
<1>5. <<>> \in Seq(Part) OBVIOUS
<1>6. ServerData' BY <1>3, <1>5 DEF ServerData, DInv, Attributes
<1> DEFINE r == rsp'
<1>7. c.req.op = "PREP_WRITE_REQ" => (r.status = "OK" => r.data = c.req.value) BY <1>3
<1> HIDE DEF r
<1>8. RspData(c, p, r) /\ c.cb # "exchange_mtu_cb" BY <1>3, <1>7, WriteRspData
<1> QED BY <1>1, <1>3, <1>4, <1>6, <1>8, ServerStepData DEF r

\* Refusals.
LEMMA RefuseData == ASSUME GInv, DInv, Refuse PROVE DInv'
<1> DEFINE c == queue[1]
           i == c.proc
           p == procs[i]
<1>1. c = queue[1] /\ i = c.proc /\ p = procs[i] /\ queue # <<>> BY DEF Refuse
<1> HIDE DEF c, i, p
<1>2. Refuses(c, i, p) BY <1>1, RefuseEffect
<1>3. rsp'.status # "OK" BY <1>2 DEF Refuses, Error
<1>4. RspData(c, p, rsp') BY <1>3 DEF RspData
<1>5. ServerData' BY <1>2 DEF ServerData, DInv, Refuses
<1> QED BY <1>1, <1>2, <1>3, <1>4, <1>5, ServerStepData DEF Refuses

\* The data of procedures, commands, responses and server are in order: a
\* read has collected a sequence and asks for what follows it, a long write
\* sends the part that follows, the echo of the server is that part, and
\* client and server use the same MTU.
THEOREM DataInvariant == Spec => []DInv
<1>1. Init => DInv
  <2> SUFFICES ASSUME Init PROVE DInv OBVIOUS
  <2>1. /\ procs = <<>> /\ queue = <<>> /\ rsp = NoRsp /\ stale = FALSE
        /\ mtu = ATT_DEFAULT_LE_MTU /\ smtu = ATT_DEFAULT_LE_MTU /\ values = Values /\ prep = <<>>
    BY DEF Init
  <2>2. DOMAIN <<>> = {} BY FewReqs
  <2>3. values \in [Handles -> Seq(Nat)] BY <2>1, GattAssumption DEF Handles
  <2>4. <<>> \in Seq(Part) OBVIOUS
  <2>5. mtu \in Mtu /\ smtu \in Mtu BY <2>1 DEF Mtu, ATT_DEFAULT_LE_MTU
  <2>6. ~ MtuComes BY <2>1 DEF MtuComes, NoRsp
  <2> QED BY <2>1, <2>2, <2>3, <2>4, <2>5, <2>6
       DEF DInv, AllProcData, AllCmdData, HeadData, ServerData, MtuKept
<1>2. GInv /\ GInv' /\ DInv /\ [Next]_vars => DInv'
  <2> SUFFICES ASSUME GInv, GInv', DInv, [Next]_vars PROVE DInv' OBVIOUS
  <2>1. ASSUME NEW c \in Calls, Call(c) PROVE DInv' BY <2>1, CallData
  <2>2. CASE received_data BY <2>2, ReceivedData
  <2>3. CASE disconnect_timeout BY <2>3, TimeoutData
  <2>4. CASE ServeRead BY <2>4, ReadData
  <2>5. CASE ServeMtu BY <2>5, MtuData
  <2>6. CASE ServeWrite BY <2>6, WriteData
  <2>7. CASE ServePrepare BY <2>7, PrepareData
  <2>8. CASE ServeExecute BY <2>8, ExecuteData
  <2>9. CASE Refuse BY <2>9, RefuseData
  <2>10. CASE UNCHANGED vars
    BY <2>10 DEF vars, DInv, AllProcData, AllCmdData, HeadData, ServerData, MtuKept, MtuComes
  <2> QED BY <2>1, <2>2, <2>3, <2>4, <2>5, <2>6, <2>7, <2>8, <2>9, <2>10 DEF Next, Server
<1> QED BY <1>1, <1>2, ProcedureInvariant, PTL DEF Spec

-----------------------------------------------------------------------------
(***************************************************************************)
(* Reads.  What a read of a value v that nobody touches has collected, or  *)
(* reported, is the beginning of v; with no fault it reports all of it.    *)
(***************************************************************************)
ReadSo(p, v) ==
  p.call.kind = "read" /\ ~ p.touched =>
    /\ p.ends = <<>> => \E n \in 0..Len(v) : p.list = Upto(v, n)
    /\ p.ends # <<>> =>
         \E n \in 0..Len(v) : p.ends[1].list = Upto(v, n) /\ (~ p.fault => n = Len(v))

\* A response r to its request, by a server whose MTU is m.
RspSo(p, r, v, m) ==
  p.call.kind = "read" /\ ~ p.touched =>
    /\ r.status = "OK" => r.data = Slice(v, Len(p.list), m - 1)
    /\ ~ p.fault => r.status = "OK"

RInv ==
  /\ \A i \in DOMAIN procs : ReadSo(procs[i], values[procs[i].call.handle])
  /\ rsp # NoRsp =>
       LET p == procs[queue[1].proc] IN RspSo(p, rsp, values[p.call.handle], smtu)

\* Its callback goes on from there.
LEMMA ReadReceived ==
  ASSUME NEW p, p.call.kind = "read", p.ends = <<>>, NEW v \in Seq(Nat), ReadSo(p, v),
         NEW m \in Mtu, NEW r, RspSo(p, r, v, m), NEW o, ReadGoes(p, r, o, m)
  PROVE  ReadSo(o.p, v)
<1>1. Kept(p, o.p) BY DEF ReadGoes, EndsNow, GoesOn
<1> SUFFICES ASSUME ~ o.p.touched PROVE ReadSo(o.p, v) BY DEF ReadSo
<1>2. ~ p.touched /\ o.p.fault = p.fault BY <1>1 DEF Kept
<1>3. PICK n \in 0..Len(v) : p.list = Upto(v, n) BY <1>2 DEF ReadSo
<1>4. Len(p.list) = n /\ Len(v) \in Nat BY <1>3, UptoLen
<1>5. /\ r.status = "OK" => r.data = Slice(v, n, m - 1)
      /\ ~ p.fault => r.status = "OK"
  BY <1>2, <1>4 DEF RspSo
<1>6. CASE r.status # "OK" /\ \E st : EndsNow(p, o, st, p.list)
  <2>1. o.p.ends # <<>> /\ o.p.ends[1].list = p.list BY <1>6 DEF EndsNow
  <2>2. p.fault BY <1>5, <1>6
  <2> QED BY <1>2, <1>3, <2>1, <2>2 DEF ReadSo
<1>7. ASSUME r.status = "OK"
      PROVE  \E k \in 0..Len(v) : /\ p.list \o r.data = Upto(v, k)
                                  /\ Len(r.data) + 1 < m => k = Len(v)
  <2> DEFINE j == m - 1
  <2>1. j \in Nat BY DEF Mtu
  <2> HIDE DEF j
  <2>2. PICK k \in n..Len(v) : /\ Slice(v, n, j) = SubSeq(v, n + 1, k)
                               /\ k = Len(v) \/ k = n + j
                               /\ k <= n + j
    BY <1>3, <2>1, SliceIs
  <2>3. /\ Upto(v, n) \o SubSeq(v, n + 1, k) = Upto(v, k)
        /\ Len(SubSeq(v, n + 1, k)) = k - n
    BY <1>3, <2>2, UptoCat
  <2>4. r.data = Slice(v, n, j) BY <1>5, <1>7 DEF j
  <2>5. Len(r.data) = k - n /\ p.list \o r.data = Upto(v, k) BY <1>3, <2>2, <2>3, <2>4
  <2>6. Len(r.data) + 1 < m => k = Len(v)
    <3>1. k \in Nat /\ n \in Nat /\ m \in Nat /\ j = m - 1 BY <1>3, <1>4, <2>2 DEF j, Mtu
    <3>2. Len(r.data) + 1 < m => k # n + j BY <2>5, <3>1
    <3> QED BY <2>2, <3>2
  <2>7. k \in 0..Len(v) BY <1>3, <1>4, <2>2
  <2> QED BY <2>5, <2>6, <2>7
<1>8. CASE r.status = "OK" /\ Len(r.data) + 1 < m /\ \E st : EndsNow(p, o, st, p.list \o r.data)
  <2>1. o.p.ends # <<>> /\ o.p.ends[1].list = p.list \o r.data
    <3> DEFINE l == p.list \o r.data
    <3>1. PICK st : EndsNow(p, o, st, l) BY <1>8
    <3> HIDE DEF l
    <3>2. o.p.ends # <<>> /\ o.p.ends[1].list = l BY <3>1 DEF EndsNow
    <3> QED BY <3>2 DEF l
  <2>2. PICK k \in 0..Len(v) : p.list \o r.data = Upto(v, k) /\ k = Len(v) BY <1>7, <1>8
  <2> QED BY <2>1, <2>2 DEF ReadSo
<1>9. CASE r.status = "OK" /\ o.p.list = p.list \o r.data /\ \E c : GoesOn(p, o, c) /\ ReadCmd(c, o.p)
  <2>1. o.p.ends = <<>> BY <1>9 DEF GoesOn
  <2>2. PICK k \in 0..Len(v) : p.list \o r.data = Upto(v, k) BY <1>7, <1>9
  <2> QED BY <1>9, <2>1, <2>2 DEF ReadSo
<1> QED BY <1>6, <1>8, <1>9 DEF ReadGoes

\* A step that changes the history of the procedure only, and maybe the value.
LEMMA ReadStays ==
  ASSUME NEW p, NEW q, Hist(p, q), NEW v, NEW v2, ReadSo(p, v),
         q.fault = TRUE \/ q.fault = p.fault,
         p.call.kind = "read" /\ ~ q.touched => ~ p.touched /\ v2 = v
  PROVE  ReadSo(q, v2)
BY DEF ReadSo, Hist

\* Calls.
LEMMA CallReads == ASSUME GInv, DInv, RInv, NEW c \in Calls, Call(c) PROVE RInv'
<1> DEFINE i == Len(procs) + 1
           p == NewProc(c)
           o == Start(p)
<1>1. mtu \in Mtu BY DEF DInv, ServerData
<1>2. Adds(i, o) /\ StartsData(c, p, o)
  <2> DEFINE i1 == i
             p1 == p
             o1 == o
  <2>1. i1 = Len(procs) + 1 /\ p1 = NewProc(c) /\ o1 = Start(p1) OBVIOUS
  <2> HIDE DEF i1, p1, o1
  <2>2. Adds(i1, o1) /\ StartsData(c, p1, o1) BY <1>1, <2>1, CallEffect
  <2> QED BY <2>2 DEF i1, p1, o1
<1> HIDE DEF i, p, o
<1>3. ASSUME NEW j \in DOMAIN procs' PROVE ReadSo(procs'[j], values'[procs'[j].call.handle])
  <2>1. CASE j \in DOMAIN procs BY <1>2, <2>1 DEF Adds, RInv
  <2>2. CASE j = i
    <3> DEFINE q == procs'[j]
               h == q.call.handle
               v == values'[h]
    <3> SUFFICES ASSUME q.call.kind = "read" PROVE ReadSo(q, v) BY DEF ReadSo
    <3>1. q.call \in Calls /\ q.list = <<>> /\ q.ends = <<>> /\ values' = values
      BY <1>2, <2>2 DEF Adds, StartsData, ProcData
    <3>2. h \in Handles BY <3>1, GattAssumption DEF Handles
    <3>3. v \in Seq(Nat) BY <3>1, <3>2 DEF DInv, ServerData
    <3> HIDE DEF v, q
    <3>4. Upto(v, 0) = <<>> /\ 0 \in 0..Len(v)
      <4>1. Len(v) \in Nat BY <3>3
      <4> QED BY <3>3, <4>1, UptoEnds
    <3> QED BY <3>1, <3>4 DEF ReadSo
  <2> QED BY <1>2, <2>1, <2>2 DEF Adds
<1>4. ASSUME rsp' # NoRsp
      PROVE  LET q == procs'[queue'[1].proc] IN RspSo(q, rsp', values'[q.call.handle], smtu')
  <2>1. rsp' = rsp /\ rsp # NoRsp /\ queue'[1] = queue[1] /\ values' = values /\ smtu' = smtu
    BY <1>2, <1>4 DEF Adds
  <2>2. queue # <<>> /\ QueueOk(procs, queue) BY <2>1 DEF GInv
  <2>3. queue[1].proc \in DOMAIN procs BY <2>2, HeadOk
  <2>4. procs'[queue[1].proc] = procs[queue[1].proc] BY <1>2, <2>3 DEF Adds
  <2> QED BY <2>1, <2>4 DEF RInv
<1> QED BY <1>3, <1>4 DEF RInv

\* Responses.
LEMMA ReceivedReads == ASSUME GInv, DInv, RInv, received_data PROVE RInv'
<1> DEFINE c == queue[1]
           i == c.proc
           p == procs[i]
           o == Callback(c, p, rsp)
<1>1. c = queue[1] /\ i = c.proc /\ p = procs[i] /\ o = Callback(c, p, rsp) OBVIOUS
<1> HIDE DEF c, i, p, o
<1>2. Receives(i, c, p, o) BY <1>1, ReceivedEffect
<1>3. queue # <<>> BY <1>2 DEF Receives
<1>4. HeadIs(c, i, p) BY <1>1, <1>3, HeadFacts
<1>5. values' = values /\ rsp' = NoRsp /\ rsp # NoRsp BY <1>2 DEF Receives
<1>6. ASSUME NEW j \in DOMAIN procs' PROVE ReadSo(procs'[j], values[procs'[j].call.handle])
  <2>1. j \in DOMAIN procs BY <1>2 DEF Receives
  <2>2. CASE j # i BY <1>2, <2>1, <2>2 DEF Receives, RInv
  <2>3. CASE j = i
    <3>1. procs'[j] = o.p /\ o.p.call = p.call BY <1>2, <2>3 DEF Receives
    <3>2. CASE p.call.kind # "read" BY <3>1, <3>2 DEF ReadSo
    <3>3. CASE p.call.kind = "read"
      <4> DEFINE v == values[p.call.handle]
                 r == rsp
                 m == smtu
      <4>1. p.call \in Calls /\ p.ends = <<>> BY <1>4, <3>3 DEF HeadIs, ProcData
      <4>2. v \in Seq(Nat)
        <5>1. p.call.handle \in Handles BY <3>3, <4>1, GattAssumption DEF Handles
        <5> QED BY <5>1 DEF DInv, ServerData
      <4>3. ReadSo(p, v) /\ RspSo(p, r, v, m) BY <1>1, <1>5, <2>1, <2>3 DEF RInv
      <4>4. m \in Mtu /\ mtu = m
        <5>1. c.cb # "exchange_mtu_cb" BY <1>4, <3>3, OpKind DEF HeadIs, IsProc
        <5>2. ~ MtuComes /\ ~ stale BY <1>1, <1>4, <5>1 DEF MtuComes, HeadIs
        <5> QED BY <5>2 DEF DInv, MtuKept, ServerData
      <4>5. ReadGoes(p, r, o, m)
        <5>1. RspData(c, p, r) BY <1>2 DEF Receives
        <5>2. ReadGoes(p, r, o, mtu)
          BY <1>1, <1>4, <3>3, <4>1, <4>4, <5>1, ReadCallback DEF HeadIs
        <5> QED BY <4>4, <5>2
      <4> HIDE DEF v, r, m
      <4>6. ReadSo(o.p, v) BY <3>3, <4>1, <4>2, <4>3, <4>4, <4>5, ReadReceived
      <4> QED BY <3>1, <4>6 DEF v
    <3> QED BY <3>2, <3>3
  <2> QED BY <2>2, <2>3
<1> QED BY <1>5, <1>6 DEF RInv

\* The timeout.
LEMMA TimeoutReads == ASSUME GInv, DInv, RInv, disconnect_timeout PROVE RInv'
<1>1. QueueOk(procs, queue) BY DEF GInv
<1>2. procs' = AllFailed(procs, queue)[Len(queue)] /\ rsp' = NoRsp /\ values' = values
  BY DEF disconnect_timeout, server
<1>3. Fails(procs, procs', queue) BY <1>1, <1>2, FailsAll
<1>4. ASSUME NEW i \in DOMAIN procs' PROVE ReadSo(procs'[i], values[procs'[i].call.handle])
  <2> DEFINE p == procs[i]
             p2 == procs'[i]
             v == values[p.call.handle]
  <2>1. i \in DOMAIN procs /\ p2.call = p.call /\ IsProc(p) /\ ProcData(p) /\ ReadSo(p, v)
    BY <1>1, <1>3, <1>4 DEF Fails, DInv, AllProcData, QueueOk, RInv
  <2>2. CASE p.call.kind # "read" BY <2>1, <2>2 DEF ReadSo
  <2>3. CASE p.call.kind = "read"
    <3>1. \/ p2 = p
          \/ \E k \in DOMAIN queue : queue[k].proc = i /\ FailedBy(p2, queue[k], p)
      BY <1>3, <2>1, <2>3 DEF Fails, Plain
    <3>2. CASE \E k \in DOMAIN queue : queue[k].proc = i /\ FailedBy(p2, queue[k], p)
      <4>1. PICK k \in DOMAIN queue : queue[k].proc = i /\ FailedBy(p2, queue[k], p) BY <3>2
      <4> DEFINE c == queue[k]
      <4>2. CmdOk(c, p.call.kind) /\ CmdData(c, p) /\ mtu \in Mtu
        BY <1>1, <4>1 DEF QueueOk, DInv, AllCmdData, ServerData
      <4>3. p.ends = <<>> BY <1>1, <2>3, <4>1, NotEnded
      <4> HIDE DEF c
      <4>4. FailedBy(p2, c, p) BY <4>1 DEF c
      <4> HIDE DEF p, p2, v
      <4>5. /\ p2.touched = p.touched /\ p2.fault = TRUE /\ p2.ends # <<>>
            /\ p2.ends[1].list = p.list
        <5>1. p.call.kind \in {"read", "write"} BY <2>3
        <5>2. IsProc(p) /\ ProcData(p) BY <2>1
        <5>3. /\ p2.call = p.call /\ p2.touched = p.touched /\ p2.alone = p.alone
              /\ p2.fault = TRUE /\ p2.ends # <<>> /\ ProcData(p2)
              /\ p.call.kind = "read" => p2.ends[1].list = p.list
          BY <4>2, <4>3, <4>4, <5>1, <5>2, FailedEnds
        <5> QED BY <2>3, <5>3
      <4>6. ReadSo(p2, v) BY <2>1, <2>3, <4>3, <4>5 DEF ReadSo
      <4> QED BY <2>1, <4>6 DEF p2, v
    <3> QED BY <2>1, <3>1, <3>2
  <2> QED BY <2>2, <2>3
<1> QED BY <1>2, <1>4 DEF RInv

\* Answers to reads and discoveries.
LEMMA ServeReads == ASSUME GInv, DInv, RInv, ServeRead PROVE RInv'
<1> DEFINE c == queue[1]
           i == c.proc
           p == procs[i]
<1>1. c = queue[1] /\ i = c.proc /\ p = procs[i] /\ queue # <<>> /\ rsp = NoRsp
  BY DEF ServeRead, Waiting
<1> HIDE DEF c, i, p
<1>2. HeadIs(c, i, p) BY <1>1, HeadFacts
<1>3. rsp' \in Answers(c.req) /\ procs' = procs /\ queue' = queue /\ values' = values /\ smtu' = smtu
  BY <1>2 DEF ServeRead, HeadIs, server
<1>4. RspSo(p, rsp', values[p.call.handle], smtu)
  <2> DEFINE v == values[p.call.handle]
             r == rsp'
  <2> SUFFICES ASSUME p.call.kind = "read", ~ p.touched PROVE RspSo(p, r, v, smtu) BY DEF RspSo
  <2>1. p.call.handle \in Handles /\ ReadAnswer(p, r)
    <3>1. ProcData(p) /\ CmdData(c, p) /\ r \in Answers(c.req) BY <1>2, <1>3 DEF HeadIs
    <3> HIDE DEF r
    <3> QED BY <3>1, AnswerRead
  <2>2. v \in Seq(Nat) BY <2>1 DEF DInv, ServerData
  <2>3. ReadSo(p, v) /\ p.ends = <<>> BY <1>1, <1>2 DEF RInv, HeadIs
  <2>4. PICK n \in 0..Len(v) : p.list = Upto(v, n) BY <2>3 DEF ReadSo
  <2>5. ~ (Len(p.list) > Len(v))
    <3> HIDE DEF v
    <3>1. Len(p.list) = n /\ Len(v) \in Nat BY <2>2, <2>4, UptoLen
    <3> QED BY <3>1
  <2>6. r = Ok(Slice(v, Len(p.list), smtu - 1)) BY <2>1, <2>5 DEF ReadAnswer
  <2> QED BY <2>6 DEF RspSo, Ok
<1> QED BY <1>1, <1>3, <1>4 DEF RInv

\* The exchange of the MTU.
LEMMA MtuReads == ASSUME GInv, DInv, RInv, ServeMtu PROVE RInv'
<1> DEFINE c == queue[1]
           i == c.proc
           p == procs[i]
<1>1. c = queue[1] /\ i = c.proc /\ p = procs[i] /\ queue # <<>>
      /\ procs' = procs /\ queue' = queue /\ values' = values
  BY DEF ServeMtu, Waiting
<1> HIDE DEF c, i, p
<1>2. HeadIs(c, i, p) BY <1>1, HeadFacts
<1>3. c.req.op = "MTU_REQ" BY <1>2 DEF ServeMtu, Waiting, HeadIs
<1>4. p.call.kind = "mtu" BY <1>2, <1>3, OpKind DEF HeadIs, IsProc
<1>5. RspSo(p, rsp', values[p.call.handle], smtu') BY <1>4 DEF RspSo
<1> QED BY <1>1, <1>5 DEF RInv

\* What is written is touched, and no response to a read is there.
LEMMA TouchReads ==
  ASSUME GInv, DInv, RInv, queue # <<>>, procs' = Touch(values'),
         rsp' # NoRsp => queue' = queue /\ procs[queue[1].proc].call.kind = "write"
  PROVE  RInv'
<1>1. QueueOk(procs, queue) BY DEF GInv
<1> DEFINE new == values'
           ps2 == procs'
<1>2. /\ HistOnly(procs, ps2)
      /\ \A i \in DOMAIN procs :
           /\ ps2[i].fault = procs[i].fault
           /\ procs[i].call.kind = "read" /\ ~ ps2[i].touched =>
                ~ procs[i].touched /\ new[procs[i].call.handle] = values[procs[i].call.handle]
  <2>1. ps2 = Touch(new) OBVIOUS
  <2> HIDE DEF ps2, new
  <2> QED BY <1>1, <2>1, TouchEffect
<1> HIDE DEF ps2, new
<1>3. ASSUME NEW i \in DOMAIN ps2 PROVE ReadSo(ps2[i], new[ps2[i].call.handle])
  <2> DEFINE p == procs[i]
             q == ps2[i]
             v == values[p.call.handle]
             v2 == new[p.call.handle]
  <2>1. i \in DOMAIN procs /\ Hist(p, q) /\ ReadSo(p, v) BY <1>2, <1>3 DEF HistOnly, RInv
  <2>2. q.fault = p.fault /\ (p.call.kind = "read" /\ ~ q.touched => ~ p.touched /\ v2 = v)
    BY <1>2, <2>1
  <2>3. q.call = p.call BY <2>1 DEF Hist
  <2> HIDE DEF p, q, v, v2
  <2>4. ReadSo(q, v2) BY <2>1, <2>2, ReadStays
  <2> QED BY <2>3, <2>4 DEF q, v2
<1>4. ASSUME rsp' # NoRsp
      PROVE  LET q == ps2[queue'[1].proc] IN RspSo(q, rsp', new[q.call.handle], smtu')
  <2>1. queue[1].proc \in DOMAIN procs BY <1>1, HeadOk
  <2>2. ps2[queue'[1].proc].call.kind = "write" BY <1>2, <1>4, <2>1 DEF HistOnly, Hist
  <2> QED BY <2>2 DEF RspSo
<1> QED BY <1>3, <1>4 DEF RInv, ps2, new

\* Write Requests and Write Commands.
LEMMA WriteReads == ASSUME GInv, DInv, RInv, ServeWrite PROVE RInv'
<1> DEFINE c == queue[1]
           i == c.proc
           p == procs[i]
<1>1. c = queue[1] /\ i = c.proc /\ p = procs[i] /\ queue # <<>> BY DEF ServeWrite, Waiting
<1> HIDE DEF c, i, p
<1>2. WritesReq(c, i, p) \/ WritesCmd(c, i, p) BY <1>1, WriteEffect
<1>3. procs' = Touch(values') /\ (rsp' # NoRsp => queue' = queue /\ p.call.kind = "write")
  BY <1>2 DEF WritesReq, WritesCmd
<1> QED BY <1>1, <1>3, TouchReads

\* Parts.
LEMMA PrepareReads == ASSUME GInv, DInv, RInv, ServePrepare PROVE RInv'
<1> DEFINE c == queue[1]
           i == c.proc
           p == procs[i]
<1>1. c = queue[1] /\ i = c.proc /\ p = procs[i] /\ queue # <<>>
      /\ procs' = procs /\ queue' = queue /\ values' = values
  BY DEF ServePrepare, Waiting
<1> HIDE DEF c, i, p
<1>2. HeadIs(c, i, p) BY <1>1, HeadFacts
<1>3. c.req.op = "PREP_WRITE_REQ" BY <1>2 DEF ServePrepare, Waiting, HeadIs
<1>4. p.call.kind = "write" BY <1>2, <1>3, OpKind DEF HeadIs, IsProc
<1>5. RspSo(p, rsp', values[p.call.handle], smtu') BY <1>4 DEF RspSo
<1> QED BY <1>1, <1>5 DEF RInv

\* Execute Write.
LEMMA ExecuteReads == ASSUME GInv, DInv, RInv, ServeExecute PROVE RInv'
<1> DEFINE c == queue[1]
           i == c.proc
           p == procs[i]
<1>1. c = queue[1] /\ i = c.proc /\ p = procs[i] /\ queue # <<>> BY DEF ServeExecute, Waiting
<1> HIDE DEF c, i, p
<1>2. Executes(c, i, p) BY <1>1, ExecuteEffect
<1>3. procs' = Touch(values') /\ queue' = queue /\ p.call.kind = "write" BY <1>2 DEF Executes
<1> QED BY <1>1, <1>3, TouchReads

\* Refusals.
LEMMA RefuseReads == ASSUME GInv, DInv, RInv, Refuse PROVE RInv'
<1> DEFINE c == queue[1]
           i == c.proc
           p == procs[i]
<1>1. c = queue[1] /\ i = c.proc /\ p = procs[i] /\ queue # <<>> BY DEF Refuse
<1> HIDE DEF c, i, p
<1>2. Refuses(c, i, p) BY <1>1, RefuseEffect
<1>3. HistOnly(procs, procs') /\ procs'[i].fault = TRUE /\ i \in DOMAIN procs
      /\ (\A j \in DOMAIN procs : j # i => procs'[j] = procs[j])
      /\ queue' = queue /\ values' = values /\ procs'[i].touched = p.touched
  BY <1>2 DEF Refuses, HeadIs
<1>4. ASSUME NEW j \in DOMAIN procs' PROVE ReadSo(procs'[j], values[procs'[j].call.handle])
  <2> DEFINE q == procs'[j]
             a == procs[j]
             v == values[a.call.handle]
  <2>1. j \in DOMAIN procs /\ Hist(a, q) /\ ReadSo(a, v) BY <1>3, <1>4 DEF HistOnly, RInv
  <2>2. CASE j # i
    <3>1. q = a BY <1>3, <2>1, <2>2
    <3> QED BY <2>1, <3>1
  <2>3. CASE j = i
    <3>1. q.fault = TRUE /\ q.touched = a.touched BY <1>1, <1>3, <2>3
    <3>2. q.call = a.call BY <2>1 DEF Hist
    <3> HIDE DEF q, a, v
    <3>3. ReadSo(q, v) BY <2>1, <3>1, ReadStays
    <3> QED BY <3>2, <3>3 DEF q, v
  <2> QED BY <2>2, <2>3
<1>5. ASSUME rsp' # NoRsp
      PROVE  LET q == procs'[queue'[1].proc] IN RspSo(q, rsp', values'[q.call.handle], smtu')
  <2>1. procs'[queue'[1].proc].fault = TRUE BY <1>1, <1>3
  <2>2. rsp'.status # "OK" BY <1>2 DEF Refuses, Error
  <2> QED BY <2>1, <2>2 DEF RspSo
<1> QED BY <1>3, <1>4, <1>5 DEF RInv

\* The value a read reports is the whole value of its attribute when no request
\* of it failed, and otherwise a prefix, unless somebody wrote it meanwhile:
\* for values of any length and any MTU, also when it is exchanged between
\* two requests, and whatever runs in between (read_char_helper,
\* read_blob_helper).
THEOREM ReadsWhole == Spec => []ReadWhole
<1>1. Init => RInv
  <2>1. DOMAIN <<>> = {} BY FewReqs
  <2> QED BY <2>1 DEF Init, RInv
<1>2. GInv /\ DInv /\ RInv /\ [Next]_vars => RInv'
  <2> SUFFICES ASSUME GInv, DInv, RInv, [Next]_vars PROVE RInv' OBVIOUS
  <2>1. ASSUME NEW c \in Calls, Call(c) PROVE RInv' BY <2>1, CallReads
  <2>2. CASE received_data BY <2>2, ReceivedReads
  <2>3. CASE disconnect_timeout BY <2>3, TimeoutReads
  <2>4. CASE ServeRead BY <2>4, ServeReads
  <2>5. CASE ServeMtu BY <2>5, MtuReads
  <2>6. CASE ServeWrite BY <2>6, WriteReads
  <2>7. CASE ServePrepare BY <2>7, PrepareReads
  <2>8. CASE ServeExecute BY <2>8, ExecuteReads
  <2>9. CASE Refuse BY <2>9, RefuseReads
  <2>10. CASE UNCHANGED vars BY <2>10 DEF vars, RInv
  <2> QED BY <2>1, <2>2, <2>3, <2>4, <2>5, <2>6, <2>7, <2>8, <2>9, <2>10 DEF Next, Server
<1>3. DInv /\ RInv => ReadWhole
  <2> SUFFICES ASSUME DInv, RInv, NEW i \in DOMAIN procs, procs[i].call.kind = "read",
                      ~ procs[i].touched, procs[i].ends # <<>>
               PROVE  /\ IsPrefix(procs[i].ends[1].list, values[procs[i].call.handle])
                      /\ ~ procs[i].fault => procs[i].ends[1].list = values[procs[i].call.handle]
    BY DEF ReadWhole
  <2> DEFINE p == procs[i]
             v == values[p.call.handle]
             l == p.ends[1].list
  <2>1. p.call \in Calls BY DEF DInv, AllProcData, ProcData
  <2>2. p.call.handle \in Handles BY <2>1, GattAssumption DEF Handles
  <2>3. v \in Seq(Nat) BY <2>2 DEF DInv, ServerData
  <2>4. PICK n \in 0..Len(v) : l = Upto(v, n) /\ (~ p.fault => n = Len(v)) BY DEF RInv, ReadSo
  <2> HIDE DEF v, l
  <2>5. IsPrefix(Upto(v, n), v) BY <2>3, <2>4, UptoPrefix
  <2>6. Upto(v, Len(v)) = v BY <2>3, UptoEnds
  <2> QED BY <2>4, <2>5, <2>6 DEF v, l
<1> QED BY <1>1, <1>2, <1>3, ProcedureInvariant, DataInvariant, PTL DEF Spec

-----------------------------------------------------------------------------
(***************************************************************************)
(* Writes.  Write i is the only call that writes its attribute.            *)
(***************************************************************************)
IsWrite(p) == p.call.kind \in {"write", "write_cmd"}

Sole(ps, i) ==
  /\ i \in DOMAIN ps /\ ps[i].call.kind = "write"
  /\ \A j \in DOMAIN ps : IsWrite(ps[j]) /\ ps[j].call.handle = ps[i].call.handle => j = i

\* An Execute Write has failed and its procedure has been told, or will be.
DroppedIn(ps) == \E i \in DOMAIN ps : ps[i].ends # <<>> /\ ps[i].ends[1].status = "INVALID_OFFSET"
Pending(q, r) == r.status = "INVALID_OFFSET" /\ q[1].req.op = "EXEC_WRITE_REQ"

\* With x the value of its attribute and ws the parts that the server keeps, a
\* write that has succeeded is stored.
DoneSo(p, x, ws) == EndedWell(p) => x = p.call.value /\ NoParts(ws, p.call.handle)

\* A write in progress, with command c whose response is r: the server has, in
\* the attribute and the parts it keeps, the value up to where the write is.
WriteSo(c, p, r, x, ws) ==
  /\ c.req.op = "WRITE_REQ" =>
       NoParts(ws, p.call.handle) /\ (r.status = "OK" => x = p.call.value)
  /\ c.req.op = "PREP_WRITE_REQ" =>
       /\ r.status # "OK" /\ p.offset # 0 =>
            Run(x, ws, p.call.handle) = Upto(p.call.value, p.offset)
       /\ r.status = "OK" =>
            Run(x, ws, p.call.handle) = Upto(p.call.value, p.offset + Len(c.req.value))
  /\ c.req.op = "EXEC_WRITE_REQ" =>
       /\ r.status \notin {"OK", "INVALID_OFFSET"} => Run(x, ws, p.call.handle) = p.call.value
       /\ r.status = "OK" => x = p.call.value /\ NoParts(ws, p.call.handle)

\* The response to the command at place k.
RspAt(k, r) == IF k = 1 THEN r ELSE NoRsp

PrepOwned(ps, ws) ==
  \A k \in DOMAIN ws :
    \E j \in DOMAIN ps : ps[j].call.kind = "write" /\ ps[j].call.handle = ws[k].handle

WriteAt(ps, q, r, vs, ws, i) ==
  LET x == vs[ps[i].call.handle]
  IN  /\ DoneSo(ps[i], x, ws)
      /\ ~ Pending(q, r) =>
           \A k \in DOMAIN q : q[k].proc = i => WriteSo(q[k], ps[i], RspAt(k, r), x, ws)

WInv ==
  /\ PrepOwned(procs, prep)
  /\ ~ DroppedIn(procs) => \A i : Sole(procs, i) => WriteAt(procs, queue, rsp, values, prep, i)

\* Procedures keep their calls, and what they have called their users with.
EndsKept(ps, ps2) ==
  /\ DOMAIN ps2 = DOMAIN ps
  /\ \A i \in DOMAIN ps : ps2[i].call = ps[i].call /\ (ps[i].ends # <<>> => ps2[i].ends = ps[i].ends)

\* The invariant then speaks of no more writes than before.
LEMMA Narrows ==
  ASSUME NEW ps, NEW ps2, EndsKept(ps, ps2)
  PROVE  /\ DroppedIn(ps) => DroppedIn(ps2)
         /\ \A i : Sole(ps2, i) => Sole(ps, i)
         /\ \A ws : PrepOwned(ps, ws) => PrepOwned(ps2, ws)
<1>1. DroppedIn(ps) => DroppedIn(ps2) BY DEF EndsKept, DroppedIn
<1>2. ASSUME NEW i, Sole(ps2, i) PROVE Sole(ps, i) BY <1>2 DEF EndsKept, Sole, IsWrite
<1>3. ASSUME NEW ws, PrepOwned(ps, ws) PROVE PrepOwned(ps2, ws) BY <1>3 DEF EndsKept, PrepOwned
<1> QED BY <1>1, <1>2, <1>3

\* A change of the history only is one.
LEMMA HistEnds ==
  ASSUME NEW ps, NEW ps2, HistOnly(ps, ps2)
  PROVE  EndsKept(ps, ps2)
BY DEF HistOnly, Hist, EndsKept

\* The parts have their writes still.
LEMMA HistOwned ==
  ASSUME NEW ps, NEW ps2, HistOnly(ps, ps2), NEW ws, PrepOwned(ps, ws)
  PROVE  PrepOwned(ps2, ws)
BY DEF PrepOwned, HistOnly, Hist

\* The attribute of handle h is as before, unless parts of it were kept; and
\* with the parts it has the same value as before.
Stays(x, ws, x2, ws2, h) == NoParts(ws, h) => x2 = x /\ NoParts(ws2, h)
RunStays(x, ws, x2, ws2, h) == Run(x2, ws2, h) = Run(x, ws, h)

\* That is all a write without a response needs, ended
LEMMA DoneStays ==
  ASSUME NEW p, NEW q, Hist(p, q), NEW x, NEW ws, NEW x2, NEW ws2, NEW h, h = p.call.handle,
         Stays(x, ws, x2, ws2, h), DoneSo(p, x, ws)
  PROVE  DoneSo(q, x2, ws2)
<1>1. q.call = p.call /\ q.ends = p.ends BY DEF Hist
<1> QED BY <1>1 DEF DoneSo, EndedWell, Stays

\* or in progress.
LEMMA ProgressStays ==
  ASSUME NEW p, NEW q, Hist(p, q), NEW x, NEW ws, NEW x2, NEW ws2, NEW h, h = p.call.handle,
         Stays(x, ws, x2, ws2, h), RunStays(x, ws, x2, ws2, h),
         NEW c, NEW r, r.status \notin {"OK", "INVALID_OFFSET"}, WriteSo(c, p, r, x, ws)
  PROVE  WriteSo(c, q, r, x2, ws2)
<1>1. q.call = p.call /\ q.offset = p.offset BY DEF Hist
<1> QED BY <1>1 DEF WriteSo, RunStays, Stays

\* No response, and none to another command.
LEMMA NoRspAt ==
  ASSUME NEW k, NEW r, k # 1 \/ r = NoRsp
  PROVE  RspAt(k, r) = NoRsp /\ NoRsp.status \notin {"OK", "INVALID_OFFSET"}
BY DEF RspAt, NoRsp

\* Across a step of the server, which leads to the response r2, the values vs2
\* and the parts ws2, the writes other than h keep what they have,
OthersKeep(ps, q, vs, ws, r2, vs2, ws2, h) ==
  \A i : Sole(ps, i) /\ i # h =>
    LET a == ps[i].call.handle
    IN  /\ Stays(vs[a], ws, vs2[a], ws2, a)
        /\ ~ Pending(q, r2) => RunStays(vs[a], ws, vs2[a], ws2, a)

\* and write h, which is p2 behind it, gets what its command c asks for.
OwnGets(ps, q, vs, ws, p2, r2, vs2, ws2, h) ==
  Sole(ps, h) /\ ~ Pending(q, r2) =>
    LET a == ps[h].call.handle
    IN  WriteSo(q[1], ps[h], NoRsp, vs[a], ws) => WriteSo(q[1], p2, r2, vs2[a], ws2)

\* Such a step keeps the invariant.
LEMMA ServerStepWrites ==
  ASSUME GInv, DInv, WInv, queue # <<>>, rsp = NoRsp, queue' = queue, HistOnly(procs, procs'),
         PrepOwned(procs', prep'), NEW h, h = queue[1].proc,
         OthersKeep(procs, queue, values, prep, rsp', values', prep', h),
         OwnGets(procs, queue, values, prep, procs'[h], rsp', values', prep', h)
  PROVE  WInv'
<1>1. QueueOk(procs, queue) /\ 1 \in DOMAIN queue /\ h \in DOMAIN procs
  <2>1. QueueOk(procs, queue) BY DEF GInv
  <2>2. h \in DOMAIN procs BY <2>1, HeadOk
  <2> DEFINE c == queue[1]
             p == procs[h]
  <2>3. c = queue[1] /\ h = c.proc /\ p = procs[h] OBVIOUS
  <2> HIDE DEF c, p
  <2>4. HeadIs(c, h, p) BY <2>3, HeadFacts
  <2> QED BY <2>1, <2>2, <2>4 DEF HeadIs
<1>2. /\ DroppedIn(procs) => DroppedIn(procs')
      /\ \A i : Sole(procs', i) => Sole(procs, i)
  <2> DEFINE ps == procs
             ps2 == procs'
  <2>1. HistOnly(ps, ps2) OBVIOUS
  <2> HIDE DEF ps, ps2
  <2>2. EndsKept(ps, ps2) BY <2>1, HistEnds
  <2>3. (DroppedIn(ps) => DroppedIn(ps2)) /\ \A i : Sole(ps2, i) => Sole(ps, i) BY <2>2, Narrows
  <2> QED BY <2>3 DEF ps, ps2
<1> SUFFICES ASSUME ~ DroppedIn(procs'), NEW i, Sole(procs', i)
             PROVE  WriteAt(procs', queue, rsp', values', prep', i)
  BY DEF WInv
<1> DEFINE p == procs[i]
           q == procs'[i]
           a == p.call.handle
           x == values[a]
           x2 == values'[a]
           ws == prep
           ws2 == prep'
           r2 == rsp'
<1>3. Sole(procs, i) /\ WriteAt(procs, queue, rsp, values, prep, i) BY <1>2 DEF WInv
<1>4. i \in DOMAIN procs /\ p.call.kind = "write" BY <1>3 DEF Sole
<1>5. Hist(p, q) /\ q.call = p.call BY <1>4 DEF HistOnly, Hist
<1>6. ~ Pending(queue, rsp) BY DEF Pending, NoRsp
<1>7. DoneSo(p, x, ws) /\ \A k \in DOMAIN queue : queue[k].proc = i => WriteSo(queue[k], p, NoRsp, x, ws)
  <2>1. \A k : RspAt(k, rsp) = NoRsp BY DEF RspAt
  <2> QED BY <1>3, <1>6, <2>1 DEF WriteAt
<1>8. CASE i # h
  <2>1. Stays(x, ws, x2, ws2, a) BY <1>3, <1>8 DEF OthersKeep
  <2>2. ~ Pending(queue, r2) => RunStays(x, ws, x2, ws2, a) BY <1>3, <1>8 DEF OthersKeep
  <2>3. a = p.call.handle OBVIOUS
  <2>4. \A k : k # 1 => RspAt(k, r2) = NoRsp BY DEF RspAt
  <2>5. queue[1].proc = h OBVIOUS
  <2>6. NoRsp.status \notin {"OK", "INVALID_OFFSET"} BY DEF NoRsp
  <2> HIDE DEF p, q, a, x, x2, ws, ws2, r2
  <2>7. DoneSo(q, x2, ws2) BY <1>5, <1>7, <2>1, <2>3, DoneStays
  <2>8. ASSUME ~ Pending(queue, r2), NEW k \in DOMAIN queue, queue[k].proc = i
        PROVE  WriteSo(queue[k], q, RspAt(k, r2), x2, ws2)
    <3>1. k # 1 BY <1>8, <2>5, <2>8
    <3>2. RspAt(k, r2) = NoRsp BY <2>4, <3>1
    <3>3. WriteSo(queue[k], p, NoRsp, x, ws) BY <1>7, <2>8
    <3>4. WriteSo(queue[k], q, NoRsp, x2, ws2)
      <4> DEFINE c == queue[k]
                 r == NoRsp
      <4>1. WriteSo(c, p, r, x, ws) /\ r.status \notin {"OK", "INVALID_OFFSET"} BY <2>6, <3>3
      <4>2. RunStays(x, ws, x2, ws2, a) BY <2>2, <2>8
      <4> HIDE DEF c, r
      <4>3. WriteSo(c, q, r, x2, ws2) BY <1>5, <2>1, <2>3, <4>1, <4>2, ProgressStays
      <4> QED BY <4>3 DEF c, r
    <3> QED BY <3>2, <3>4
  <2>9. x2 = values'[q.call.handle] BY <1>5 DEF x2, a
  <2> QED BY <2>7, <2>8, <2>9 DEF WriteAt, q, ws2, r2
<1>9. CASE i = h
  <2>1. p.ends = <<>> BY <1>1, <1>4, <1>9, NotEnded
  <2>2. q.ends = <<>> BY <1>5, <2>1 DEF Hist
  <2>3. DoneSo(q, x2, ws2) BY <2>2 DEF DoneSo, EndedWell
  <2>4. ASSUME ~ Pending(queue, r2), NEW k \in DOMAIN queue, queue[k].proc = i
        PROVE  WriteSo(queue[k], q, RspAt(k, r2), x2, ws2)
    <3>1. Plain(p) BY <1>4 DEF Plain
    <3>2. k = 1 BY <1>1, <1>9, <2>4, <3>1, OneCommand
    <3>3. RspAt(k, r2) = r2 BY <3>2 DEF RspAt
    <3>4. WriteSo(queue[1], p, NoRsp, x, ws) BY <1>1, <1>7, <1>9
    <3>5. WriteSo(queue[1], q, r2, x2, ws2) BY <1>3, <1>9, <2>4, <3>4 DEF OwnGets
    <3> QED BY <3>2, <3>3, <3>5
  <2> QED BY <1>5, <2>3, <2>4 DEF WriteAt
<1> QED BY <1>8, <1>9

\* A step that writes nothing, with no response to a write but an error.
LEMMA QuietWrites ==
  ASSUME GInv, DInv, WInv, queue # <<>>, rsp = NoRsp, queue' = queue, HistOnly(procs, procs'),
         values' = values, prep' = prep,
         procs[queue[1].proc].call.kind = "write" => rsp'.status \notin {"OK", "INVALID_OFFSET"}
  PROVE  WInv'
<1> DEFINE h == queue[1].proc
<1>1. h = queue[1].proc OBVIOUS
<1>2. h \in DOMAIN procs
  <2>1. QueueOk(procs, queue) BY DEF GInv
  <2> QED BY <2>1, HeadOk
<1> HIDE DEF h
<1>3. PrepOwned(procs', prep')
  <2>1. HistOnly(procs, procs') /\ PrepOwned(procs, prep) BY DEF WInv
  <2> QED BY <2>1 DEF PrepOwned, HistOnly, Hist
<1>4. OthersKeep(procs, queue, values, prep, rsp', values', prep', h)
  BY DEF OthersKeep, Stays, RunStays
<1>5. OwnGets(procs, queue, values, prep, procs'[h], rsp', values', prep', h)
  <2> DEFINE p == procs[h]
             q == procs'[h]
             a == p.call.handle
             x == values[a]
             ws == prep
             r == rsp'
             c == queue[1]
  <2> SUFFICES ASSUME Sole(procs, h), WriteSo(c, p, NoRsp, x, ws) PROVE WriteSo(c, q, r, x, ws)
    BY DEF OwnGets
  <2>1. Hist(p, q) BY <1>2 DEF HistOnly
  <2>2. r.status \notin {"OK", "INVALID_OFFSET"} BY <1>1 DEF Sole
  <2>3. NoRsp.status \notin {"OK", "INVALID_OFFSET"} BY DEF NoRsp
  <2> HIDE DEF p, q, a, x, ws, r, c
  <2>4. q.call = p.call /\ q.offset = p.offset BY <2>1 DEF Hist
  <2> QED BY <2>2, <2>3, <2>4 DEF WriteSo
<1> QED BY <1>1, <1>3, <1>4, <1>5, ServerStepWrites

\* Answers to reads and discoveries.
LEMMA ReadWrites == ASSUME GInv, DInv, WInv, ServeRead PROVE WInv'
<1> DEFINE c == queue[1]
           i == c.proc
           p == procs[i]
<1>1. c = queue[1] /\ i = c.proc /\ p = procs[i] /\ queue # <<>> /\ rsp = NoRsp
  BY DEF ServeRead, Waiting
<1> HIDE DEF c, i, p
<1>2. HeadIs(c, i, p) BY <1>1, HeadFacts
<1>3. procs' = procs /\ queue' = queue /\ values' = values /\ prep' = prep
      /\ c.req.op \notin {"WRITE_REQ", "PREP_WRITE_REQ", "EXEC_WRITE_REQ"}
  BY <1>2 DEF ServeRead, Waiting, HeadIs, server
<1>4. p.call.kind # "write" BY <1>2, <1>3 DEF HeadIs, CmdData, WriteCmd
<1>5. HistOnly(procs, procs') BY <1>3 DEF HistOnly, Hist
<1> QED BY <1>1, <1>3, <1>4, <1>5, QuietWrites

\* The exchange of the MTU.
LEMMA MtuWrites == ASSUME GInv, DInv, WInv, ServeMtu PROVE WInv'
<1> DEFINE c == queue[1]
           i == c.proc
           p == procs[i]
<1>1. c = queue[1] /\ i = c.proc /\ p = procs[i] /\ queue # <<>> /\ rsp = NoRsp
  BY DEF ServeMtu, Waiting
<1> HIDE DEF c, i, p
<1>2. HeadIs(c, i, p) BY <1>1, HeadFacts
<1>3. procs' = procs /\ queue' = queue /\ values' = values /\ prep' = prep /\ c.req.op = "MTU_REQ"
  BY <1>2 DEF ServeMtu, Waiting, HeadIs
<1>4. p.call.kind # "write" BY <1>2, <1>3 DEF HeadIs, CmdData, WriteCmd
<1>5. HistOnly(procs, procs') BY <1>3 DEF HistOnly, Hist
<1> QED BY <1>1, <1>3, <1>4, <1>5, QuietWrites

\* Refusals.
LEMMA RefuseWrites == ASSUME GInv, DInv, WInv, Refuse PROVE WInv'
<1> DEFINE c == queue[1]
           i == c.proc
           p == procs[i]
<1>1. c = queue[1] /\ i = c.proc /\ p = procs[i] /\ queue # <<>> BY DEF Refuse
<1> HIDE DEF c, i, p
<1>2. Refuses(c, i, p) BY <1>1, RefuseEffect
<1>3. rsp = NoRsp /\ queue' = queue /\ HistOnly(procs, procs') /\ values' = values /\ prep' = prep
      /\ rsp'.status \notin {"OK", "INVALID_OFFSET"}
  BY <1>2 DEF Refuses, Error
<1> QED BY <1>1, <1>3, QuietWrites

\* The attribute of the only write of it is not that of another write.
LEMMA SoleOther ==
  ASSUME NEW ps, NEW i, Sole(ps, i), NEW j \in DOMAIN ps, j # i, IsWrite(ps[j])
  PROVE  ps[j].call.handle # ps[i].call.handle
BY DEF Sole

\* Write Requests.
LEMMA RequestWrites ==
  ASSUME GInv, DInv, WInv, NEW c, c = queue[1], NEW h, h = c.proc, NEW p, p = procs[h],
         WritesReq(c, h, p)
  PROVE  WInv'
<1> DEFINE b == p.call.handle
           v == p.call.value
<1>1. /\ h \in DOMAIN procs /\ p.call.kind = "write" /\ c.req.op = "WRITE_REQ"
      /\ queue # <<>> /\ rsp = NoRsp /\ queue' = queue /\ prep' = prep
      /\ values' = [values EXCEPT ![b] = v] /\ b \in Handles
      /\ procs' = Touch(values')
  BY DEF WritesReq, HeadIs
<1>2. QueueOk(procs, queue) BY DEF GInv
<1>3. HistOnly(procs, procs') BY <1>1, <1>2, TouchEffect
<1>4. values'[b] = v /\ \A a : a # b => values'[a] = values[a]
  <2>1. values \in [Handles -> Seq(Nat)] BY DEF DInv, ServerData
  <2> QED BY <1>1, <2>1
<1>5. PrepOwned(procs', prep')
  <2> DEFINE ps2 == procs'
  <2>1. HistOnly(procs, ps2) /\ PrepOwned(procs, prep) BY <1>3 DEF WInv
  <2> HIDE DEF ps2
  <2>2. PrepOwned(ps2, prep) BY <2>1, HistOwned
  <2> QED BY <1>1, <2>2 DEF ps2
<1>6. OthersKeep(procs, queue, values, prep, rsp', values', prep', h)
  <2> SUFFICES ASSUME NEW i, Sole(procs, i), i # h
               PROVE  LET a == procs[i].call.handle
                      IN  /\ Stays(values[a], prep, values'[a], prep', a)
                          /\ RunStays(values[a], prep, values'[a], prep', a)
    BY DEF OthersKeep
  <2>1. b # procs[i].call.handle BY <1>1, SoleOther DEF IsWrite
  <2>2. values'[procs[i].call.handle] = values[procs[i].call.handle] BY <1>4, <2>1
  <2> QED BY <1>1, <2>2 DEF Stays, RunStays
<1>7. OwnGets(procs, queue, values, prep, procs'[h], rsp', values', prep', h)
  <2> DEFINE q == procs'[h]
             x == values[b]
             x2 == values'[b]
             ws == prep
             r == rsp'
  <2> SUFFICES ASSUME WriteSo(c, p, NoRsp, x, ws) PROVE WriteSo(c, q, r, x2, ws)
    BY <1>1 DEF OwnGets
  <2>1. q.call = p.call BY <1>1, <1>3 DEF HistOnly, Hist
  <2>2. x2 = q.call.value BY <1>4, <2>1
  <2> HIDE DEF q, x, x2, ws, r
  <2> QED BY <1>1, <2>1, <2>2 DEF WriteSo
<1>8. h = queue[1].proc OBVIOUS
<1> QED BY <1>1, <1>3, <1>5, <1>6, <1>7, <1>8, ServerStepWrites

\* Write Commands, which leave the queue.
LEMMA CommandWrites ==
  ASSUME GInv, DInv, WInv, NEW c, c = queue[1], NEW h, h = c.proc, NEW p, p = procs[h],
         WritesCmd(c, h, p)
  PROVE  WInv'
<1> DEFINE b == p.call.handle
           v == c.req.value
<1>1. /\ h \in DOMAIN procs /\ p.call.kind = "write_cmd"
      /\ rsp = NoRsp /\ rsp' = NoRsp /\ prep' = prep
      /\ \A k \in DOMAIN queue' : \E j \in DOMAIN queue : j # 1 /\ queue'[k] = queue[j]
      /\ values' = [values EXCEPT ![b] = v] /\ b \in Handles
      /\ procs' = Touch(values')
  BY DEF WritesCmd, HeadIs
<1>2. QueueOk(procs, queue) BY DEF GInv
<1>3. HistOnly(procs, procs') BY <1>1, <1>2, TouchEffect
<1>4. \A a : a # b => values'[a] = values[a]
  <2>1. values \in [Handles -> Seq(Nat)] BY DEF DInv, ServerData
  <2> QED BY <1>1, <2>1
<1>5. PrepOwned(procs', prep')
  <2> DEFINE ps2 == procs'
  <2>1. HistOnly(procs, ps2) /\ PrepOwned(procs, prep) BY <1>3 DEF WInv
  <2> HIDE DEF ps2
  <2>2. PrepOwned(ps2, prep) BY <2>1, HistOwned
  <2> QED BY <1>1, <2>2 DEF ps2
<1>6. /\ DroppedIn(procs) => DroppedIn(procs')
      /\ \A i : Sole(procs', i) => Sole(procs, i)
  <2> DEFINE ps == procs
             ps2 == procs'
  <2>1. HistOnly(ps, ps2) BY <1>3
  <2> HIDE DEF ps, ps2
  <2>2. EndsKept(ps, ps2) BY <2>1, HistEnds
  <2>3. (DroppedIn(ps) => DroppedIn(ps2)) /\ \A i : Sole(ps2, i) => Sole(ps, i) BY <2>2, Narrows
  <2> QED BY <2>3 DEF ps, ps2
<1> SUFFICES ASSUME ~ DroppedIn(procs'), NEW i, Sole(procs', i)
             PROVE  WriteAt(procs', queue', rsp', values', prep', i)
  BY <1>5 DEF WInv
<1> DEFINE pi == procs[i]
           q == procs'[i]
           a == pi.call.handle
           x == values[a]
           ws == prep
<1>7. Sole(procs, i) /\ WriteAt(procs, queue, rsp, values, prep, i) BY <1>6 DEF WInv
<1>8. i \in DOMAIN procs /\ pi.call.kind = "write" BY <1>7 DEF Sole
<1>9. Hist(pi, q) /\ q.call = pi.call BY <1>3, <1>8 DEF HistOnly, Hist
<1>10. values'[a] = x
  <2>1. i # h BY <1>1, <1>8
  <2>2. a # b BY <1>1, <1>7, <2>1, SoleOther DEF IsWrite
  <2> QED BY <1>4, <2>2
<1>11. ~ Pending(queue, rsp) BY <1>1 DEF Pending, NoRsp
<1>12. DoneSo(pi, x, ws) /\ \A k \in DOMAIN queue : queue[k].proc = i => WriteSo(queue[k], pi, NoRsp, x, ws)
  <2>1. \A k : RspAt(k, rsp) = NoRsp BY <1>1 DEF RspAt
  <2> QED BY <1>7, <1>11, <2>1 DEF WriteAt
<1> DEFINE d == queue'
<1>13. \A k \in DOMAIN d : d[k].proc = i => WriteSo(d[k], pi, NoRsp, x, ws) BY <1>1, <1>12
<1>14. NoRsp.status \notin {"OK", "INVALID_OFFSET"} BY DEF NoRsp
<1>15. Stays(x, ws, x, ws, a) /\ RunStays(x, ws, x, ws, a) BY DEF Stays, RunStays
<1>16. DoneSo(q, x, ws) /\ \A k \in DOMAIN d : d[k].proc = i => WriteSo(d[k], q, NoRsp, x, ws)
  <2>1. a = pi.call.handle OBVIOUS
  <2>2. DoneSo(pi, x, ws) BY <1>12
  <2> HIDE DEF pi, q, a, x, ws, d
  <2>3. DoneSo(q, x, ws) BY <1>9, <1>15, <2>1, <2>2, DoneStays
  <2>4. ASSUME NEW k \in DOMAIN d, d[k].proc = i PROVE WriteSo(d[k], q, NoRsp, x, ws)
    <3> DEFINE e == d[k]
               r == NoRsp
    <3>1. WriteSo(e, pi, r, x, ws) /\ r.status \notin {"OK", "INVALID_OFFSET"} BY <1>13, <1>14, <2>4
    <3> HIDE DEF e, r
    <3>2. WriteSo(e, q, r, x, ws) BY <1>9, <1>15, <2>1, <3>1, ProgressStays
    <3> QED BY <3>2 DEF e, r
  <2> QED BY <2>3, <2>4
<1>17. \A k : RspAt(k, rsp') = NoRsp BY <1>1 DEF RspAt
<1> QED BY <1>1, <1>9, <1>10, <1>16, <1>17 DEF WriteAt

\* ServeWrite.
LEMMA ServeWrites == ASSUME GInv, DInv, WInv, ServeWrite PROVE WInv'
<1> DEFINE c == queue[1]
           i == c.proc
           p == procs[i]
<1>1. c = queue[1] /\ i = c.proc /\ p = procs[i] OBVIOUS
<1> HIDE DEF c, i, p
<1>2. WritesReq(c, i, p) \/ WritesCmd(c, i, p) BY <1>1, WriteEffect
<1> QED BY <1>1, <1>2, RequestWrites, CommandWrites

\* y is v up to n, where something comes before n; the part z of v from n to m.
Reaches(y, v, n) == n # 0 => y = Upto(v, n)
Follows(v, n, z, m) == Upto(v, n) \o z = Upto(v, m)

\* It follows.
LEMMA PartFollows ==
  ASSUME NEW v \in Seq(Nat), NEW n \in 0..Len(v), NEW m \in 0..Len(v), m > n,
         NEW z, z = SubSeq(v, n + 1, m)
  PROVE  Follows(v, n, z, m)
<1>1. m \in n..Len(v) OBVIOUS
<1> QED BY <1>1, UptoCat DEF Follows

\* A part that is put behind the part before it, or replaces all.
LEMMA PutPart ==
  ASSUME NEW v \in Seq(Nat), NEW y \in Seq(Nat), NEW n \in 0..Len(v), Reaches(y, v, n),
         NEW z \in Seq(Nat), NEW m \in 0..Len(v), Follows(v, n, z, m),
         NEW w \in Part, w.offset = n, w.value = z
  PROVE  Put(y, w) = Upto(v, m)
<1>3. n <= Len(y) /\ Upto(y, n) = Upto(v, n)
  <2>1. CASE n = 0
    <3>1. Upto(y, 0) = <<>> /\ Upto(v, 0) = <<>> BY UptoEnds
    <3>2. Len(y) \in Nat OBVIOUS
    <3> QED BY <2>1, <3>1, <3>2
  <2>2. CASE n # 0
    <3>1. y = Upto(v, n) BY <2>2 DEF Reaches
    <3>2. Len(y) = n BY <3>1, UptoLen
    <3>3. Upto(y, Len(y)) = y BY UptoEnds
    <3> QED BY <3>1, <3>2, <3>3
  <2> QED BY <2>1, <2>2
<1>4. Put(y, w) = SubSeq(y, 1, n) \o z BY <1>3 DEF Put, Write
<1>5. Put(y, w) = Upto(v, n) \o z BY <1>3, <1>4 DEF Upto
<1> QED BY <1>5 DEF Follows

\* One more part, of another handle.
LEMMA NoPartsAppend ==
  ASSUME NEW ws \in Seq(Part), NEW w \in Part, NEW h, w.handle # h, NoParts(ws, h)
  PROVE  NoParts(Append(ws, w), h)
<1>1. \A k \in DOMAIN Append(ws, w) : (k \in DOMAIN ws /\ Append(ws, w)[k] = ws[k]) \/ Append(ws, w)[k] = w
  OBVIOUS
<1> QED BY <1>1 DEF NoParts

\* Writes have handles with values.
LEMMA WriteHandle ==
  ASSUME NEW p, ProcData(p), p.call.kind = "write"
  PROVE  p.call.handle \in Handles /\ p.call.value \in Seq(Nat)
BY GattAssumption DEF ProcData, Handles

\* Parts.
LEMMA PrepareWrites == ASSUME GInv, DInv, WInv, ServePrepare PROVE WInv'
<1> DEFINE c == queue[1]
           h == c.proc
           p == procs[h]
           w == [handle |-> c.req.handle, offset |-> c.req.offset, value |-> c.req.value]
           b == p.call.handle
           v == p.call.value
           n == p.offset
<1>1. c = queue[1] /\ h = c.proc /\ p = procs[h] /\ queue # <<>>
      /\ w = [handle |-> c.req.handle, offset |-> c.req.offset, value |-> c.req.value]
  BY DEF ServePrepare, Waiting
<1> HIDE DEF c, h, p, w
<1>2. Prepares(c, h, p, w) BY <1>1, PrepareEffect
<1>3. /\ w \in Part /\ w.handle = b /\ w.offset = n /\ w.value = c.req.value
      /\ prep' = Append(prep, w) /\ procs' = procs /\ queue' = queue
      /\ rsp = NoRsp /\ rsp' = Ok(c.req.value) /\ values' = values
      /\ p.call.kind = "write" /\ c.req.op = "PREP_WRITE_REQ"
      /\ b \in Handles /\ v \in Seq(Nat) /\ n \in 0..Len(v) /\ h \in DOMAIN procs
  BY <1>2 DEF Prepares, HeadIs
<1>4. HistOnly(procs, procs') BY <1>3 DEF HistOnly, Hist
<1>5. prep \in Seq(Part) /\ values \in [Handles -> Seq(Nat)] BY DEF DInv, ServerData
<1>6. PrepOwned(procs', prep')
  <2>1. PrepOwned(procs, prep) BY DEF WInv
  <2>2. \A k \in DOMAIN prep' : (k \in DOMAIN prep /\ prep'[k] = prep[k]) \/ prep'[k] = w
    BY <1>3, <1>5
  <2>3. procs[h].call.kind = "write" /\ procs[h].call.handle = w.handle BY <1>1, <1>3
  <2> QED BY <1>3, <2>1, <2>2, <2>3 DEF PrepOwned
<1>7. OthersKeep(procs, queue, values, prep, rsp', values', prep', h)
  <2> SUFFICES ASSUME NEW i, Sole(procs, i), i # h
               PROVE  LET a == procs[i].call.handle
                      IN  /\ Stays(values[a], prep, values'[a], prep', a)
                          /\ RunStays(values[a], prep, values'[a], prep', a)
    BY DEF OthersKeep
  <2> DEFINE a == procs[i].call.handle
             x == values[a]
  <2>1. w.handle # a BY <1>1, <1>3, SoleOther DEF IsWrite
  <2>2. x \in Seq(Nat)
    <3> DEFINE y == procs[i]
    <3>1. ProcData(y) /\ y.call.kind = "write" BY DEF DInv, AllProcData, Sole
    <3> HIDE DEF y
    <3>2. y.call.handle \in Handles BY <3>1, WriteHandle
    <3> QED BY <1>5, <3>2 DEF y
  <2>3. prep' = Append(prep, w) /\ values'[a] = x BY <1>3
  <2> HIDE DEF a, x
  <2>4. Run(x, Append(prep, w), a) = Run(x, prep, a) BY <1>3, <1>5, <2>1, <2>2, RunAppend
  <2>5. NoParts(prep, a) => NoParts(Append(prep, w), a) BY <1>3, <1>5, <2>1, NoPartsAppend
  <2>6. Stays(x, prep, x, prep', a) /\ RunStays(x, prep, x, prep', a)
    BY <2>3, <2>4, <2>5 DEF Stays, RunStays
  <2> QED BY <2>3, <2>6 DEF a, x
<1>8. OwnGets(procs, queue, values, prep, procs'[h], rsp', values', prep', h)
  <2> DEFINE x == values[b]
             r == rsp'
  <2> SUFFICES ASSUME WriteSo(c, p, NoRsp, x, prep) PROVE WriteSo(c, p, r, x, Append(prep, w))
    BY <1>1, <1>3 DEF OwnGets
  <2>1. x \in Seq(Nat) /\ r.status = "OK" BY <1>3, <1>5 DEF Ok
  <2> DEFINE y == Run(x, prep, b)
  <2>2. y \in Seq(Nat)
    <3> HIDE DEF x, b
    <3> QED BY <1>5, <2>1, RunExists
  <2>3. Reaches(y, v, n) BY <1>3 DEF WriteSo, NoRsp, Reaches
  <2>4. NextPart(c.req, p) BY <1>2 DEF Prepares
  <2>5. PICK m \in 0..Len(v) : m > n /\ w.value = SubSeq(v, n + 1, m) BY <1>3, <2>4 DEF NextPart
  <2>6. Run(x, Append(prep, w), b) = Put(y, w)
    <3>1. w.handle = b BY <1>3
    <3> HIDE DEF x, b
    <3> QED BY <1>3, <1>5, <2>1, <3>1, RunAppend
  <2>7. Put(y, w) = Upto(v, n + Len(w.value))
    <3> DEFINE z == w.value
    <3>1. w.offset = n /\ n \in 0..Len(v) /\ v \in Seq(Nat) BY <1>3
    <3>2. z = SubSeq(v, n + 1, m) /\ w.value = z BY <2>5
    <3> HIDE DEF y, v, n, z
    <3>3. z \in Seq(Nat) /\ n + Len(z) = m BY <2>5, <3>1, <3>2, PartIs
    <3>4. Follows(v, n, z, m) BY <2>5, <3>1, <3>2, PartFollows
    <3>5. w.value = z /\ z \in Seq(Nat) BY <3>2, <3>3
    <3>6. w \in Part BY <1>3
    <3>7. Put(y, w) = Upto(v, m) BY <2>2, <2>3, <3>1, <3>4, <3>5, <3>6, PutPart
    <3> QED BY <3>2, <3>3, <3>7
  <2>8. Run(x, Append(prep, w), b) = Upto(v, n + Len(c.req.value)) BY <1>3, <2>6, <2>7
  <2> HIDE DEF r, x
  <2> QED BY <1>3, <2>1, <2>8 DEF WriteSo
<1>9. h = queue[1].proc BY <1>1
<1> QED BY <1>1, <1>3, <1>4, <1>6, <1>7, <1>8, <1>9, ServerStepWrites

\* Execute Write.
LEMMA ExecuteWrites == ASSUME GInv, DInv, WInv, ServeExecute PROVE WInv'
<1> DEFINE c == queue[1]
           h == c.proc
           p == procs[h]
           b == p.call.handle
<1>1. c = queue[1] /\ h = c.proc /\ p = procs[h] /\ queue # <<>> BY DEF ServeExecute, Waiting
<1> HIDE DEF c, h, p
<1>2. Executes(c, h, p) BY <1>1, ExecuteEffect
<1>3. /\ p.call.kind = "write" /\ c.req.op = "EXEC_WRITE_REQ" /\ h \in DOMAIN procs /\ b \in Handles
      /\ \/ rsp'.status = "OK" /\ \A a \in Handles : values'[a] = Run(values[a], prep, a)
         \/ rsp'.status = "INVALID_OFFSET" /\ values' = values
      /\ procs' = Touch(values') /\ queue' = queue /\ rsp = NoRsp /\ prep' = <<>>
  BY <1>2 DEF Executes, HeadIs
<1>4. QueueOk(procs, queue) BY DEF GInv
<1>5. HistOnly(procs, procs') BY <1>3, <1>4, TouchEffect
<1>6. prep \in Seq(Part) /\ values \in [Handles -> Seq(Nat)] /\ values' \in [Handles -> Seq(Nat)]
  BY <1>2 DEF DInv, ServerData, Executes, Attributes
<1>7. DOMAIN <<>> = {} BY FewReqs
<1>8. PrepOwned(procs', prep') BY <1>3, <1>7 DEF PrepOwned
<1>9. \A a : NoParts(<<>>, a) BY <1>7 DEF NoParts
<1>10. rsp'.status = "INVALID_OFFSET" => Pending(queue, rsp') BY <1>1, <1>3 DEF Pending
<1>11. OthersKeep(procs, queue, values, prep, rsp', values', prep', h)
  <2> SUFFICES ASSUME NEW i, Sole(procs, i), i # h
               PROVE  LET a == procs[i].call.handle
                      IN  /\ Stays(values[a], prep, values'[a], prep', a)
                          /\ ~ Pending(queue, rsp') => RunStays(values[a], prep, values'[a], prep', a)
    BY DEF OthersKeep
  <2> DEFINE a == procs[i].call.handle
             x == values[a]
             x2 == values'[a]
  <2>1. a \in Handles
    <3> DEFINE y == procs[i]
    <3>1. ProcData(y) /\ y.call.kind = "write" BY DEF DInv, AllProcData, Sole
    <3> HIDE DEF y
    <3>2. y.call.handle \in Handles BY <3>1, WriteHandle
    <3> QED BY <3>2 DEF y
  <2>2. x \in Seq(Nat) /\ x2 \in Seq(Nat) BY <1>6, <2>1
  <2>3. x2 = Run(x, prep, a) \/ (rsp'.status = "INVALID_OFFSET" /\ x2 = x) BY <1>3, <2>1
  <2> HIDE DEF a, x, x2
  <2>4. NoParts(prep, a) => Run(x, prep, a) = x BY <1>6, <2>2, RunNone
  <2>5. Run(x2, <<>>, a) = x2 BY <2>2, RunEmpty
  <2>6. Stays(x, prep, x2, prep', a) BY <1>3, <1>9, <2>3, <2>4 DEF Stays
  <2>7. ~ Pending(queue, rsp') => RunStays(x, prep, x2, prep', a)
    BY <1>3, <1>10, <2>3, <2>5 DEF RunStays
  <2> QED BY <2>6, <2>7 DEF a, x, x2
<1>12. OwnGets(procs, queue, values, prep, procs'[h], rsp', values', prep', h)
  <2> DEFINE q == procs'[h]
             x == values[b]
             x2 == values'[b]
             r == rsp'
             ws2 == prep'
  <2> SUFFICES ASSUME ~ Pending(queue, rsp'), WriteSo(c, p, NoRsp, x, prep)
               PROVE  WriteSo(c, q, r, x2, ws2)
    BY <1>1 DEF OwnGets
  <2>1. r.status = "OK" /\ x2 = Run(x, prep, b) BY <1>3, <1>10
  <2>2. Run(x, prep, b) = p.call.value BY <1>3 DEF WriteSo, NoRsp
  <2>3. q.call = p.call BY <1>1, <1>3, <1>5 DEF HistOnly, Hist
  <2>4. NoParts(ws2, q.call.handle) BY <1>3, <1>9
  <2> HIDE DEF q, x, x2, r, ws2
  <2> QED BY <1>3, <2>1, <2>2, <2>3, <2>4 DEF WriteSo
<1>13. h = queue[1].proc BY <1>1
<1> QED BY <1>1, <1>3, <1>5, <1>8, <1>11, <1>12, <1>13, ServerStepWrites

\* Calls: a new write finds no parts of its attribute, when it is the only one.
LEMMA CallWrites == ASSUME GInv, DInv, WInv, NEW c \in Calls, Call(c) PROVE WInv'
<1> DEFINE i == Len(procs) + 1
           p == NewProc(c)
           o == Start(p)
<1>1. i = Len(procs) + 1 /\ p = NewProc(c) /\ o = Start(p) OBVIOUS
<1> HIDE DEF i, p, o
<1>2. Adds(i, o) /\ StartsData(c, p, o)
  <2>1. mtu \in Mtu BY DEF DInv, ServerData
  <2> QED BY <1>1, <2>1, CallEffect
<1>3. /\ i \notin DOMAIN procs /\ DOMAIN procs' = DOMAIN procs \cup {i}
      /\ procs'[i] = o.p /\ \A j \in DOMAIN procs : procs'[j] = procs[j]
      /\ \A k \in DOMAIN queue' : (k \in DOMAIN queue /\ queue'[k] = queue[k]) \/ Issued(queue'[k], i, o)
      /\ rsp # NoRsp => queue'[1] = queue[1]
      /\ rsp' = rsp /\ values' = values /\ prep' = prep
  BY <1>2 DEF Adds
<1>4. PrepOwned(procs', prep') BY <1>3 DEF WInv, PrepOwned
<1>5. DroppedIn(procs) => DroppedIn(procs') BY <1>3 DEF DroppedIn
<1>6. Pending(queue, rsp) => Pending(queue', rsp')
  <2>1. NoRsp.status # "INVALID_OFFSET" BY DEF NoRsp
  <2> QED BY <1>3, <2>1 DEF Pending
<1>7. \A k \in DOMAIN queue : queue[k].proc \in DOMAIN procs BY DEF GInv, QueueOk
<1> SUFFICES ASSUME ~ DroppedIn(procs'), NEW j, Sole(procs', j)
             PROVE  WriteAt(procs', queue', rsp', values', prep', j)
  BY <1>4 DEF WInv
<1> DEFINE q == procs'[j]
           a == q.call.handle
           x == values[a]
<1>8. CASE j # i
  <2>1. j \in DOMAIN procs /\ q = procs[j] BY <1>3, <1>8 DEF Sole
  <2>2. Sole(procs, j) BY <1>3, <2>1 DEF Sole, IsWrite
  <2>3. WriteAt(procs, queue, rsp, values, prep, j) BY <1>5, <2>2 DEF WInv
  <2>4. DoneSo(q, x, prep) BY <2>1, <2>3 DEF WriteAt
  <2>5. ASSUME ~ Pending(queue', rsp'), NEW k \in DOMAIN queue', queue'[k].proc = j
        PROVE  WriteSo(queue'[k], q, RspAt(k, rsp), x, prep)
    <3>1. ~ Issued(queue'[k], i, o) BY <1>8, <2>5 DEF Issued
    <3>2. k \in DOMAIN queue /\ queue'[k] = queue[k] BY <1>3, <2>5, <3>1
    <3>3. queue[k].proc = j /\ ~ Pending(queue, rsp) BY <1>6, <2>5, <3>2
    <3>4. WriteSo(queue[k], procs[j], RspAt(k, rsp), values[procs[j].call.handle], prep)
      BY <2>3, <3>2, <3>3 DEF WriteAt
    <3> QED BY <2>1, <3>2, <3>4
  <2> QED BY <1>3, <2>4, <2>5 DEF WriteAt
<1>9. CASE j = i
  <2>1. q = o.p /\ q.ends = <<>> /\ q.offset = 0 /\ q.call = c /\ c.kind = "write"
    BY <1>2, <1>3, <1>9 DEF StartsData, Sole
  <2>2. DoneSo(q, x, prep) BY <2>1 DEF DoneSo, EndedWell
  <2>3. NoParts(prep, a)
    <3> SUFFICES ASSUME NEW k \in DOMAIN prep, prep[k].handle = a PROVE FALSE BY DEF NoParts
    <3>1. PICK m \in DOMAIN procs : procs[m].call.kind = "write" /\ procs[m].call.handle = a
      BY DEF WInv, PrepOwned
    <3>2. m \in DOMAIN procs' /\ procs'[m] = procs[m] /\ m # j BY <1>3, <1>9, <3>1
    <3> QED BY <3>1, <3>2 DEF Sole, IsWrite
  <2>4. ASSUME NEW k \in DOMAIN queue', queue'[k].proc = j
        PROVE  WriteSo(queue'[k], q, RspAt(k, rsp), x, prep)
    <3>1. Issued(queue'[k], i, o) BY <1>3, <1>7, <1>9, <2>4
    <3>2. queue'[k].req.op \in {"WRITE_REQ", "PREP_WRITE_REQ"}
      <4>1. PICK y \in DOMAIN o.reqs : queue'[k].req = o.reqs[y].req BY <3>1 DEF Issued
      <4>2. o.reqs[y].req.op \in {"WRITE_REQ", "PREP_WRITE_REQ"} BY <1>2, <2>1 DEF StartsData
      <4> QED BY <4>1, <4>2
    <3>3. k # 1 \/ rsp = NoRsp
      <4> SUFFICES ASSUME k = 1, rsp # NoRsp PROVE FALSE OBVIOUS
      <4>1. queue'[1] = queue[1] /\ queue # <<>> /\ QueueOk(procs, queue) BY <1>3 DEF GInv
      <4>2. queue[1].proc \in DOMAIN procs BY <4>1, HeadOk
      <4> QED BY <1>3, <1>9, <2>4, <4>1, <4>2
    <3>4. RspAt(k, rsp) = NoRsp BY <3>3 DEF RspAt
    <3>5. RspAt(k, rsp).status # "OK" BY <3>4 DEF NoRsp
    <3> DEFINE r == RspAt(k, rsp)
               d == queue'[k]
    <3>6. r.status # "OK" /\ d.req.op \in {"WRITE_REQ", "PREP_WRITE_REQ"} BY <3>2, <3>5
    <3> HIDE DEF r, d, q, x
    <3>7. WriteSo(d, q, r, x, prep) BY <2>1, <2>3, <3>6 DEF WriteSo
    <3> QED BY <3>7 DEF r, d
  <2> QED BY <1>3, <2>2, <2>4 DEF WriteAt
<1> QED BY <1>8, <1>9

\* The callback of a write: it has ended, or goes on from where it is.
LEMMA WriteReceived ==
  ASSUME NEW p, p.call.kind = "write", p.ends = <<>>, p.call.value \in Seq(Nat),
         NEW c, WriteCmd(c, p), NEW r, r.status # "INVALID_OFFSET" \/ c.req.op # "EXEC_WRITE_REQ",
         NEW x, NEW ws, WriteSo(c, p, r, x, ws), NEW o, WriteGoes(p, c, r, o)
  PROVE  /\ DoneSo(o.p, x, ws)
         /\ \A k \in DOMAIN o.reqs : WriteSo(o.reqs[k], o.p, NoRsp, x, ws)
<1> DEFINE v == p.call.value
<1>1. CASE EndsNow(p, o, r.status, <<>>) /\ (r.status = "OK" => c.cb = "func")
  <2>1. o.reqs = <<>> /\ o.p.call = p.call /\ o.p.ends[1].status = r.status
    <3> DEFINE st == r.status
               l == <<>>
    <3>1. EndsNow(p, o, st, l) BY <1>1
    <3> HIDE DEF st, l
    <3>2. o.reqs = <<>> /\ o.p.call = p.call /\ o.p.ends[1].status = st
      BY <3>1 DEF EndsNow, Kept
    <3> QED BY <3>2 DEF st
  <2>2. ASSUME r.status = "OK" PROVE x = v /\ NoParts(ws, p.call.handle)
    <3>1. c.req.op \in {"WRITE_REQ", "EXEC_WRITE_REQ"} BY <1>1, <2>2 DEF WriteCmd
    <3> QED BY <2>2, <3>1 DEF WriteSo
  <2>3. DoneSo(o.p, x, ws) BY <2>1, <2>2 DEF DoneSo, EndedWell
  <2>4. DOMAIN <<>> = {} BY FewReqs
  <2> QED BY <2>1, <2>3, <2>4
<1>2. CASE /\ r.status = "OK" /\ c.cb = "prepare_write_cb"
           /\ o.p.offset = p.offset + Len(c.req.value)
           /\ \E y : /\ GoesOn(p, o, y) /\ WriteCmd(y, o.p)
                     /\ y.req.op \in {"PREP_WRITE_REQ", "EXEC_WRITE_REQ"}
  <2>1. PICK y : /\ GoesOn(p, o, y) /\ WriteCmd(y, o.p)
                 /\ y.req.op \in {"PREP_WRITE_REQ", "EXEC_WRITE_REQ"}
    BY <1>2
  <2>2. o.reqs = <<y>> /\ o.p.call = p.call /\ o.p.ends = <<>> BY <2>1 DEF GoesOn, Kept
  <2>3. c.req.op = "PREP_WRITE_REQ" BY <1>2 DEF WriteCmd
  <2>4. Run(x, ws, p.call.handle) = Upto(v, o.p.offset) BY <1>2, <2>3 DEF WriteSo
  <2>5. y.req.op = "EXEC_WRITE_REQ" => Upto(v, o.p.offset) = v
    <3>1. y.req.op = "EXEC_WRITE_REQ" => o.p.offset = Len(v) BY <2>1, <2>2 DEF WriteCmd
    <3>2. Upto(v, Len(v)) = v
      <4> HIDE DEF v
      <4> QED BY UptoEnds DEF v
    <3> QED BY <3>1, <3>2
  <2>6. NoRsp.status # "OK" BY DEF NoRsp
  <2>7. WriteSo(y, o.p, NoRsp, x, ws) BY <2>1, <2>2, <2>4, <2>5, <2>6 DEF WriteSo
  <2>8. DoneSo(o.p, x, ws) BY <2>2 DEF DoneSo, EndedWell
  <2>9. \A k \in DOMAIN <<y>> : <<y>>[k] = y
    <3>1. DOMAIN <<y>> = {1} /\ <<y>>[1] = y BY FewReqs
    <3> QED BY <3>1
  <2> QED BY <2>2, <2>7, <2>8, <2>9
<1> QED BY <1>1, <1>2 DEF WriteGoes

\* Responses.
LEMMA ReceivedWrites == ASSUME GInv, DInv, WInv, received_data PROVE WInv'
<1> DEFINE c == queue[1]
           h == c.proc
           p == procs[h]
           o == Callback(c, p, rsp)
<1>1. c = queue[1] /\ h = c.proc /\ p = procs[h] /\ o = Callback(c, p, rsp) OBVIOUS
<1> HIDE DEF c, h, p, o
<1>2. Receives(h, c, p, o) BY <1>1, ReceivedEffect
<1>3. queue # <<>> BY <1>2 DEF Receives
<1>4. HeadIs(c, h, p) BY <1>1, <1>3, HeadFacts
<1>5. /\ h \in DOMAIN procs /\ 1 \in DOMAIN queue /\ DOMAIN procs' = DOMAIN procs
      /\ procs'[h] = o.p /\ o.p.call = p.call /\ \A j \in DOMAIN procs : j # h => procs'[j] = procs[j]
      /\ \A k \in DOMAIN queue' :
           (\E j \in DOMAIN queue : j # 1 /\ queue'[k] = queue[j]) \/ Issued(queue'[k], h, o)
      /\ rsp' = NoRsp /\ values' = values /\ prep' = prep
  BY <1>2 DEF Receives
<1>6. EndsKept(procs, procs')
  <2>1. p.ends # <<>> => o.p.ends = p.ends BY <1>2 DEF Receives
  <2> QED BY <1>1, <1>5, <2>1 DEF EndsKept
<1>7. /\ DroppedIn(procs) => DroppedIn(procs')
      /\ \A i : Sole(procs', i) => Sole(procs, i)
      /\ PrepOwned(procs', prep)
  <2> DEFINE ps == procs
             ps2 == procs'
  <2>1. EndsKept(ps, ps2) /\ PrepOwned(ps, prep) BY <1>6 DEF WInv
  <2> HIDE DEF ps, ps2
  <2>2. /\ (DroppedIn(ps) => DroppedIn(ps2)) /\ (\A i : Sole(ps2, i) => Sole(ps, i))
        /\ PrepOwned(ps2, prep)
    BY <2>1, Narrows
  <2> QED BY <2>2 DEF ps, ps2
<1>8. ASSUME p.call.kind = "write" PROVE WriteGoes(p, c, rsp, o) /\ p.ends = <<>> /\ WriteCmd(c, p)
  <2> DEFINE r == rsp
  <2>1. p.ends = <<>> /\ WriteCmd(c, p) /\ mtu \in Mtu
    BY <1>4, <1>8 DEF HeadIs, CmdData, DInv, ServerData
  <2>2. RspData(c, p, r) /\ o = Callback(c, p, r) BY <1>1, <1>2 DEF Receives
  <2> HIDE DEF r
  <2>3. WriteGoes(p, c, r, o) BY <1>4, <1>8, <2>1, <2>2, WriteCallback DEF HeadIs
  <2> QED BY <2>1, <2>3 DEF r
<1>9. Pending(queue, rsp) => DroppedIn(procs')
  <2> SUFFICES ASSUME Pending(queue, rsp) PROVE DroppedIn(procs') OBVIOUS
  <2>1. rsp.status = "INVALID_OFFSET" /\ c.req.op = "EXEC_WRITE_REQ" BY <1>1 DEF Pending
  <2>2. p.call.kind = "write" BY <1>4, <2>1, OpKind DEF HeadIs, IsProc
  <2> DEFINE st == rsp.status
             l == <<>>
  <2>3. EndsNow(p, o, st, l) BY <1>8, <2>1, <2>2 DEF WriteGoes
  <2> HIDE DEF st, l
  <2>4. o.p.ends # <<>> /\ o.p.ends[1].status = st BY <2>3 DEF EndsNow
  <2> QED BY <1>5, <2>1, <2>4 DEF DroppedIn, st
<1> SUFFICES ASSUME ~ DroppedIn(procs'), NEW i, Sole(procs', i)
             PROVE  WriteAt(procs', queue', rsp', values', prep', i)
  BY <1>5, <1>7 DEF WInv
<1>10. /\ Sole(procs, i) /\ i \in DOMAIN procs /\ procs[i].call.kind = "write"
       /\ WriteAt(procs, queue, rsp, values, prep, i) /\ ~ Pending(queue, rsp)
  BY <1>7, <1>9 DEF WInv, Sole
<1>11. \A k : RspAt(k, rsp') = NoRsp BY <1>5 DEF RspAt
<1> DEFINE a == procs[i].call.handle
           x == values[a]
           q == procs'[i]
<1>12. q.call = procs[i].call BY <1>6, <1>10 DEF EndsKept
<1>13. DoneSo(procs[i], x, prep)
       /\ \A k \in DOMAIN queue : queue[k].proc = i => WriteSo(queue[k], procs[i], RspAt(k, rsp), x, prep)
  BY <1>10 DEF WriteAt
<1>14. CASE i # h
  <2>1. q = procs[i] BY <1>5, <1>10, <1>14
  <2>2. ASSUME NEW k \in DOMAIN queue', queue'[k].proc = i
        PROVE  WriteSo(queue'[k], q, NoRsp, x, prep)
    <3>1. ~ Issued(queue'[k], h, o) BY <1>14, <2>2 DEF Issued
    <3>2. PICK j \in DOMAIN queue : j # 1 /\ queue'[k] = queue[j] BY <1>5, <2>2, <3>1
    <3>3. RspAt(j, rsp) = NoRsp BY <3>2 DEF RspAt
    <3> QED BY <1>13, <2>1, <2>2, <3>2, <3>3
  <2> QED BY <1>5, <1>11, <1>12, <1>13, <2>1, <2>2 DEF WriteAt
<1>15. CASE i = h
  <2>1. p = procs[i] /\ q = o.p /\ p.call.kind = "write" BY <1>1, <1>5, <1>10, <1>15
  <2>2. WriteSo(c, p, rsp, x, prep)
    <3>1. queue[1].proc = i /\ RspAt(1, rsp) = rsp BY <1>1, <1>15 DEF RspAt
    <3> QED BY <1>1, <1>5, <1>13, <2>1, <3>1
  <2>3. p.call.value \in Seq(Nat)
    <3>1. ProcData(p) BY <1>4 DEF HeadIs
    <3> QED BY <2>1, <3>1, WriteHandle
  <2>4. rsp.status # "INVALID_OFFSET" \/ c.req.op # "EXEC_WRITE_REQ" BY <1>1, <1>10 DEF Pending
  <2>5. DoneSo(o.p, x, prep) /\ \A k \in DOMAIN o.reqs : WriteSo(o.reqs[k], o.p, NoRsp, x, prep)
    <3> DEFINE r == rsp
               ws == prep
    <3>1. /\ WriteSo(c, p, r, x, ws) /\ (r.status # "INVALID_OFFSET" \/ c.req.op # "EXEC_WRITE_REQ")
          /\ WriteGoes(p, c, r, o) /\ p.ends = <<>> /\ WriteCmd(c, p)
      BY <1>8, <2>1, <2>2, <2>4
    <3> HIDE DEF r, ws, x
    <3>2. DoneSo(o.p, x, ws) /\ \A k \in DOMAIN o.reqs : WriteSo(o.reqs[k], o.p, NoRsp, x, ws)
      BY <2>1, <2>3, <3>1, WriteReceived
    <3> QED BY <3>2 DEF ws
  <2>6. ASSUME NEW k \in DOMAIN queue', queue'[k].proc = i
        PROVE  WriteSo(queue'[k], q, NoRsp, x, prep)
    <3>1. CASE \E j \in DOMAIN queue : j # 1 /\ queue'[k] = queue[j]
      <4>1. PICK j \in DOMAIN queue : j # 1 /\ queue'[k] = queue[j] BY <3>1
      <4>2. queue[j].proc = queue[1].proc /\ Plain(procs[queue[1].proc])
        BY <1>1, <1>15, <2>1, <2>6, <4>1 DEF Plain
      <4>3. QueueOk(procs, queue) BY DEF GInv
      <4> QED BY <1>5, <4>1, <4>2, <4>3, OneCommand
    <3>2. CASE Issued(queue'[k], h, o)
      <4>1. PICK y \in DOMAIN o.reqs : queue'[k].req = o.reqs[y].req BY <3>2 DEF Issued
      <4>2. WriteSo(o.reqs[y], o.p, NoRsp, x, prep) BY <2>5
      <4> DEFINE d == queue'[k]
                 e == o.reqs[y]
      <4>3. d.req = e.req /\ WriteSo(e, o.p, NoRsp, x, prep) BY <4>1, <4>2
      <4> HIDE DEF d, e, x
      <4>4. WriteSo(d, o.p, NoRsp, x, prep) BY <4>3 DEF WriteSo
      <4> QED BY <2>1, <4>4 DEF d
    <3> QED BY <1>5, <3>1, <3>2
  <2> QED BY <1>5, <1>11, <1>12, <2>1, <2>5, <2>6 DEF WriteAt
<1> QED BY <1>14, <1>15

\* The timeout: no write that it fails has succeeded.
LEMMA TimeoutWrites == ASSUME GInv, DInv, WInv, disconnect_timeout PROVE WInv'
<1>1. QueueOk(procs, queue) BY DEF GInv
<1>2. procs' = AllFailed(procs, queue)[Len(queue)] /\ queue' = <<>> /\ values' = values /\ prep' = prep
  BY DEF disconnect_timeout, server
<1>3. Fails(procs, procs', queue) BY <1>1, <1>2, FailsAll
<1>4. /\ DroppedIn(procs) => DroppedIn(procs')
      /\ \A i : Sole(procs', i) => Sole(procs, i)
      /\ PrepOwned(procs', prep)
  <2> DEFINE ps == procs
             ps2 == procs'
  <2>1. EndsKept(ps, ps2) /\ PrepOwned(ps, prep) BY <1>3 DEF WInv, Fails, EndsKept
  <2> HIDE DEF ps, ps2
  <2>2. /\ (DroppedIn(ps) => DroppedIn(ps2)) /\ (\A i : Sole(ps2, i) => Sole(ps, i))
        /\ PrepOwned(ps2, prep)
    BY <2>1, Narrows
  <2> QED BY <2>2 DEF ps, ps2
<1> SUFFICES ASSUME ~ DroppedIn(procs'), NEW i, Sole(procs', i)
             PROVE  WriteAt(procs', queue', rsp', values', prep', i)
  BY <1>2, <1>4 DEF WInv
<1> DEFINE p == procs[i]
           p2 == procs'[i]
           x == values[p.call.handle]
<1>5. Sole(procs, i) /\ WriteAt(procs, queue, rsp, values, prep, i) BY <1>4 DEF WInv
<1>6. i \in DOMAIN procs /\ p.call.kind = "write" /\ DoneSo(p, x, prep) BY <1>5 DEF Sole, WriteAt
<1>7. p2.call = p.call /\ IsProc(p) /\ ProcData(p)
  BY <1>1, <1>3, <1>6 DEF Fails, DInv, AllProcData, QueueOk
<1>8. DoneSo(p2, x, prep)
  <2>1. \/ p2 = p
        \/ \E k \in DOMAIN queue : queue[k].proc = i /\ FailedBy(p2, queue[k], p)
    BY <1>3, <1>6 DEF Fails, Plain
  <2>2. CASE \E k \in DOMAIN queue : queue[k].proc = i /\ FailedBy(p2, queue[k], p)
    <3>1. PICK k \in DOMAIN queue : queue[k].proc = i /\ FailedBy(p2, queue[k], p) BY <2>2
    <3> DEFINE c == queue[k]
    <3>2. CmdOk(c, p.call.kind) /\ CmdData(c, p) /\ mtu \in Mtu
      BY <1>1, <3>1 DEF QueueOk, DInv, AllCmdData, ServerData
    <3>3. p.ends = <<>> BY <1>1, <1>6, <3>1, NotEnded
    <3>4. p.call.kind \in {"read", "write"} /\ IsProc(p) /\ ProcData(p) BY <1>6, <1>7
    <3> HIDE DEF c
    <3>5. FailedBy(p2, c, p) BY <3>1 DEF c
    <3> HIDE DEF p, p2, x
    <3>6. /\ p2.call = p.call /\ p2.touched = p.touched /\ p2.alone = p.alone
          /\ p2.fault = TRUE /\ p2.ends # <<>> /\ ProcData(p2)
          /\ p.call.kind = "write" => p2.ends[1].status \in {"TIMEOUT", "ABORTED"}
      BY <3>2, <3>3, <3>4, <3>5, FailedEnds
    <3> QED BY <1>6, <3>6 DEF DoneSo, EndedWell
  <2> QED BY <1>6, <2>1, <2>2
<1>9. DOMAIN <<>> = {} BY FewReqs
<1> QED BY <1>2, <1>7, <1>8, <1>9 DEF WriteAt

\* A write that is reported as a success has stored its whole value, however
\* long it is and in however many parts it was prepared, although other long
\* writes prepare theirs in between and commit some of its early, and
\* although others fail; unless another call writes the same attribute or
\* the server has dropped what it kept (prepare_write_cb, execute_write).
THEOREM WritesStored == Spec => []WriteStored
<1>1. Init => WInv
  <2> SUFFICES ASSUME Init PROVE WInv OBVIOUS
  <2>1. procs = <<>> /\ prep = <<>> BY DEF Init
  <2>2. DOMAIN <<>> = {} BY FewReqs
  <2> QED BY <2>1, <2>2 DEF WInv, PrepOwned, Sole
<1>2. GInv /\ DInv /\ WInv /\ [Next]_vars => WInv'
  <2> SUFFICES ASSUME GInv, DInv, WInv, [Next]_vars PROVE WInv' OBVIOUS
  <2>1. ASSUME NEW c \in Calls, Call(c) PROVE WInv' BY <2>1, CallWrites
  <2>2. CASE received_data BY <2>2, ReceivedWrites
  <2>3. CASE disconnect_timeout BY <2>3, TimeoutWrites
  <2>4. CASE ServeRead BY <2>4, ReadWrites
  <2>5. CASE ServeMtu BY <2>5, MtuWrites
  <2>6. CASE ServeWrite BY <2>6, ServeWrites
  <2>7. CASE ServePrepare BY <2>7, PrepareWrites
  <2>8. CASE ServeExecute BY <2>8, ExecuteWrites
  <2>9. CASE Refuse BY <2>9, RefuseWrites
  <2>10. CASE UNCHANGED vars BY <2>10 DEF vars, WInv
  <2> QED BY <2>1, <2>2, <2>3, <2>4, <2>5, <2>6, <2>7, <2>8, <2>9, <2>10 DEF Next, Server
<1>3. GInv /\ WInv => WriteStored
  <2> SUFFICES ASSUME GInv, WInv, NEW i \in DOMAIN procs, procs[i].call.kind = "write",
                      EndedWell(procs[i]), Writes(procs[i].call.handle) = {i}, ~ Dropped
               PROVE  values[procs[i].call.handle] = procs[i].call.value
    BY DEF WriteStored
  <2>1. Sole(procs, i) BY DEF Sole, Writes, IsWrite
  <2>2. ~ DroppedIn(procs)
    <3>1. \A j \in DOMAIN procs : procs[j] \in ToSet(procs) BY DEF ToSet
    <3> QED BY <3>1 DEF Dropped, DroppedIn
  <2>3. WriteAt(procs, queue, rsp, values, prep, i) BY <2>1, <2>2 DEF WInv
  <2> QED BY <2>3 DEF WriteAt, DoneSo
<1> QED BY <1>1, <1>2, <1>3, ProcedureInvariant, DataInvariant, PTL DEF Spec

-----------------------------------------------------------------------------
(***************************************************************************)
(* Atomic writes.  A write that was called when all earlier ones had ended *)
(* with success is alone; when all of them are, at most one is in          *)
(* progress, and the server keeps parts of this one only.                  *)
(***************************************************************************)
Alone(ps) ==
  \A i, j \in DOMAIN ps :
    ps[i].call.kind = "write" /\ ps[i].alone /\ ps[j].call.kind = "write" /\ j < i => EndedWell(ps[j])

AllAlone(ps) == \A i \in DOMAIN ps : ps[i].call.kind = "write" => ps[i].alone
AllWell(ps) == \A i \in DOMAIN ps : ps[i].call.kind = "write" => EndedWell(ps[i])

\* The value of handle h is the first one or that of a call.
Atomic(ps, vs, h) ==
  \/ vs[h] = Values[h]
  \/ \E i \in DOMAIN ps :
       /\ IsWrite(ps[i]) /\ ps[i].call.handle = h
       /\ \/ vs[h] = ps[i].call.value
          \/ ps[i].call.kind = "write_cmd" /\ IsPrefix(Cut(ps[i].call.value), vs[h])

\* The parts are of handle h and make y of any value.
Whole(ws, h, y) ==
  (\A k \in DOMAIN ws : ws[k].handle = h) /\ \A x \in Seq(Nat) : Run(x, ws, h) = y

\* The parts that the server keeps, for a write in progress with command c.
PrepSo(c, p, r, ws) ==
  /\ c.req.op = "WRITE_REQ" => ws = <<>>
  /\ c.req.op = "PREP_WRITE_REQ" =>
       /\ r.status # "OK" /\ p.offset = 0 => ws = <<>>
       /\ r.status # "OK" /\ p.offset # 0 => Whole(ws, p.call.handle, Upto(p.call.value, p.offset))
       /\ r.status = "OK" =>
            Whole(ws, p.call.handle, Upto(p.call.value, p.offset + Len(c.req.value)))
  /\ c.req.op = "EXEC_WRITE_REQ" =>
       /\ r.status \notin {"OK", "INVALID_OFFSET"} => Whole(ws, p.call.handle, p.call.value)
       /\ r.status \in {"OK", "INVALID_OFFSET"} => ws = <<>>

PrepAt(ps, q, r, ws) ==
  \A k \in DOMAIN q :
    ps[q[k].proc].call.kind = "write" => PrepSo(q[k], ps[q[k].proc], RspAt(k, r), ws)

AInv ==
  /\ Alone(procs)
  /\ AllAlone(procs) =>
       /\ \A h \in Handles : Atomic(procs, values, h)
       /\ AllWell(procs) => prep = <<>>
       /\ PrepAt(procs, queue, rsp, prep)

\* Procedures keep their calls, their ends, and whether they are alone.
WriteKept(ps, ps2) ==
  EndsKept(ps, ps2) /\ \A i \in DOMAIN ps : ps[i].call.kind = "write" => ps2[i].alone = ps[i].alone

\* So they stay alone, and values atomic.
LEMMA AloneStays ==
  ASSUME NEW ps, NEW ps2, WriteKept(ps, ps2)
  PROVE  /\ Alone(ps) => Alone(ps2)
         /\ AllAlone(ps2) => AllAlone(ps)
         /\ \A vs, h : Atomic(ps, vs, h) => Atomic(ps2, vs, h)
<1>1. DOMAIN ps2 = DOMAIN ps BY DEF WriteKept, EndsKept
<1>2. ASSUME NEW i \in DOMAIN ps
      PROVE  /\ ps2[i].call = ps[i].call /\ (EndedWell(ps[i]) => EndedWell(ps2[i]))
             /\ ps[i].call.kind = "write" => ps2[i].alone = ps[i].alone
  BY <1>2 DEF WriteKept, EndsKept, EndedWell
<1>3. Alone(ps) => Alone(ps2) BY <1>1, <1>2 DEF Alone
<1>4. AllAlone(ps2) => AllAlone(ps) BY <1>1, <1>2 DEF AllAlone
<1>5. ASSUME NEW vs, NEW h, Atomic(ps, vs, h) PROVE Atomic(ps2, vs, h)
  <2>1. CASE vs[h] = Values[h] BY <2>1 DEF Atomic
  <2>2. CASE \E i \in DOMAIN ps :
               /\ IsWrite(ps[i]) /\ ps[i].call.handle = h
               /\ \/ vs[h] = ps[i].call.value
                  \/ ps[i].call.kind = "write_cmd" /\ IsPrefix(Cut(ps[i].call.value), vs[h])
    <3>1. PICK i \in DOMAIN ps :
               /\ IsWrite(ps[i]) /\ ps[i].call.handle = h
               /\ \/ vs[h] = ps[i].call.value
                  \/ ps[i].call.kind = "write_cmd" /\ IsPrefix(Cut(ps[i].call.value), vs[h])
      BY <2>2
    <3>2. i \in DOMAIN ps2 /\ ps2[i].call = ps[i].call BY <1>1, <1>2
    <3> QED BY <3>1, <3>2 DEF Atomic, IsWrite
  <2> QED BY <1>5, <2>1, <2>2 DEF Atomic
<1> QED BY <1>3, <1>4, <1>5

\* A change of the history only keeps all of it.
LEMMA HistAlone ==
  ASSUME NEW ps, NEW ps2, HistOnly(ps, ps2)
  PROVE  WriteKept(ps, ps2) /\ (AllWell(ps2) => AllWell(ps))
BY DEF HistOnly, Hist, WriteKept, EndsKept, AllWell, EndedWell

\* One write is in progress.
LEMMA OneWrite ==
  ASSUME NEW ps, NEW q, QueueOk(ps, q), Alone(ps), AllAlone(ps), NEW k \in DOMAIN q, NEW j \in DOMAIN q,
         ps[q[k].proc].call.kind = "write", ps[q[j].proc].call.kind = "write"
  PROVE  j = k
<1> DEFINE a == q[k].proc
           b == q[j].proc
<1>1. a \in DOMAIN ps /\ b \in DOMAIN ps BY DEF QueueOk
<1>2. a \in Nat /\ b \in Nat
  <2>1. DOMAIN ps = 1..Len(ps) /\ Len(ps) \in Nat BY SeqLen DEF QueueOk
  <2> QED BY <1>1, <2>1
<1>3. ps[a].ends = <<>> /\ ps[b].ends = <<>> BY NotEnded
<1>4. ~ EndedWell(ps[a]) /\ ~ EndedWell(ps[b]) BY <1>3 DEF EndedWell
<1>5. ~ (a < b) /\ ~ (b < a) BY <1>1, <1>4 DEF Alone, AllAlone
<1>6. a = b BY <1>2, <1>5
<1>7. Plain(ps[q[k].proc]) BY DEF Plain
<1> QED BY <1>6, <1>7, OneCommand

\* The same write with the same command.
LEMMA PrepSame ==
  ASSUME NEW p, NEW q, q.call = p.call, q.offset = p.offset, NEW c, NEW r, NEW r2, NEW ws,
         r2.status = r.status \/ {r.status, r2.status} \cap {"OK", "INVALID_OFFSET"} = {},
         PrepSo(c, p, r, ws)
  PROVE  PrepSo(c, q, r2, ws)
BY DEF PrepSo

\* A step of the server in answer to the head of the queue, of procedure h.
LEMMA ServerStepAtomic ==
  ASSUME GInv, AInv, queue # <<>>, rsp = NoRsp, queue' = queue, HistOnly(procs, procs'),
         NEW c, c = queue[1], NEW h, h = c.proc, NEW p, p = procs[h],
         p.call.kind # "write" => prep' = prep,
         AllAlone(procs) => \A a \in Handles : Atomic(procs', values', a),
         AllAlone(procs) /\ p.call.kind = "write" /\ PrepSo(c, p, NoRsp, prep)
           => PrepSo(c, procs'[h], rsp', prep')
  PROVE  AInv'
<1>1. QueueOk(procs, queue) BY DEF GInv
<1>2. h \in DOMAIN procs BY <1>1, HeadOk
<1>3. 1 \in DOMAIN queue BY <1>1, SeqLen DEF QueueOk
<1>4. /\ Alone(procs) => Alone(procs')
      /\ AllAlone(procs') => AllAlone(procs)
      /\ AllWell(procs') => AllWell(procs)
  <2> DEFINE ps == procs
             ps2 == procs'
  <2>1. HistOnly(ps, ps2) OBVIOUS
  <2> HIDE DEF ps, ps2
  <2>2. WriteKept(ps, ps2) /\ (AllWell(ps2) => AllWell(ps)) BY <2>1, HistAlone
  <2>3. (Alone(ps) => Alone(ps2)) /\ (AllAlone(ps2) => AllAlone(ps)) BY <2>2, AloneStays
  <2> QED BY <2>2, <2>3 DEF ps, ps2
<1> SUFFICES ASSUME AllAlone(procs')
             PROVE  (AllWell(procs') => prep' = <<>>) /\ PrepAt(procs', queue, rsp', prep')
  BY <1>4 DEF AInv
<1>5. AllAlone(procs) /\ Alone(procs) /\ PrepAt(procs, queue, rsp, prep)
  BY <1>4 DEF AInv
<1>6. ASSUME AllWell(procs') PROVE prep' = <<>>
  <2>1. AllWell(procs) BY <1>4, <1>6
  <2>2. p.call.kind # "write"
    <3> SUFFICES ASSUME p.call.kind = "write" PROVE FALSE OBVIOUS
    <3>1. p.ends = <<>> BY <1>1, <1>3, NotEnded
    <3> QED BY <1>2, <2>1, <3>1 DEF AllWell, EndedWell
  <2> QED BY <1>5, <2>1, <2>2 DEF AInv
<1>7. ASSUME NEW k \in DOMAIN queue, procs'[queue[k].proc].call.kind = "write"
      PROVE  PrepSo(queue[k], procs'[queue[k].proc], RspAt(k, rsp'), prep')
  <2> DEFINE i == queue[k].proc
             pi == procs[i]
             q == procs'[i]
             d == queue[k]
  <2>1. i \in DOMAIN procs BY <1>1 DEF QueueOk
  <2>2. Hist(pi, q) BY <2>1 DEF HistOnly
  <2>3. q.call = pi.call /\ q.offset = pi.offset BY <2>2 DEF Hist
  <2>4. pi.call.kind = "write" BY <1>7, <2>3
  <2>5. RspAt(k, rsp) = NoRsp BY DEF RspAt
  <2>6. PrepSo(d, pi, NoRsp, prep) BY <1>5, <2>4, <2>5 DEF PrepAt
  <2>7. CASE p.call.kind = "write"
    <3>1. k = 1 BY <1>1, <1>3, <1>5, <2>4, <2>7, OneWrite
    <3>2. d = c /\ i = h /\ pi = p BY <3>1
    <3>3. PrepSo(c, procs'[h], rsp', prep') BY <1>5, <2>6, <2>7, <3>2
    <3>4. RspAt(k, rsp') = rsp' BY <3>1 DEF RspAt
    <3> QED BY <3>2, <3>3, <3>4
  <2>8. CASE p.call.kind # "write"
    <3>1. k # 1 BY <2>4, <2>8
    <3>2. RspAt(k, rsp') = NoRsp /\ prep' = prep BY <2>8, <3>1 DEF RspAt
    <3> DEFINE r == NoRsp
               ws == prep
    <3>3. PrepSo(d, pi, r, ws) /\ r.status = r.status BY <2>6
    <3> HIDE DEF d, pi, q, r, ws
    <3>4. PrepSo(d, q, r, ws) BY <2>3, <3>3, PrepSame
    <3> QED BY <3>2, <3>4 DEF d, q, r, ws
  <2> QED BY <2>7, <2>8
<1> QED BY <1>6, <1>7 DEF PrepAt

\* Values that do not change stay atomic.
LEMMA AtomicStays ==
  ASSUME AInv, HistOnly(procs, procs'), values' = values, AllAlone(procs)
  PROVE  \A a \in Handles : Atomic(procs', values', a)
<1> DEFINE ps == procs
           ps2 == procs'
           vs == values
<1>1. HistOnly(ps, ps2) /\ \A a \in Handles : Atomic(ps, vs, a) BY DEF AInv
<1> HIDE DEF ps, ps2, vs
<1>2. WriteKept(ps, ps2) BY <1>1, HistAlone
<1>3. \A a : Atomic(ps, vs, a) => Atomic(ps2, vs, a) BY <1>2, AloneStays
<1> QED BY <1>1, <1>3 DEF ps2, vs

\* A step that writes nothing, with no response to a write but an error.
LEMMA QuietAtomic ==
  ASSUME GInv, AInv, queue # <<>>, rsp = NoRsp, queue' = queue, HistOnly(procs, procs'),
         NEW c, c = queue[1], NEW h, h = c.proc, NEW p, p = procs[h], values' = values, prep' = prep,
         p.call.kind = "write" => rsp'.status \notin {"OK", "INVALID_OFFSET"}
  PROVE  AInv'
<1>1. h \in DOMAIN procs
  <2>1. QueueOk(procs, queue) BY DEF GInv
  <2> QED BY <2>1, HeadOk
<1>2. AllAlone(procs) => \A a \in Handles : Atomic(procs', values', a) BY AtomicStays
<1>3. ASSUME p.call.kind = "write", PrepSo(c, p, NoRsp, prep) PROVE PrepSo(c, procs'[h], rsp', prep')
  <2> DEFINE q == procs'[h]
             r == NoRsp
             r2 == rsp'
             ws == prep
  <2>1. q.call = p.call /\ q.offset = p.offset BY <1>1 DEF HistOnly, Hist
  <2>2. {r.status, r2.status} \cap {"OK", "INVALID_OFFSET"} = {} BY <1>3 DEF NoRsp
  <2>3. PrepSo(c, p, r, ws) BY <1>3
  <2> HIDE DEF q, r, r2, ws
  <2>4. PrepSo(c, q, r2, ws) BY <2>1, <2>2, <2>3, PrepSame
  <2> QED BY <2>4 DEF q, r2, ws
<1> QED BY <1>2, <1>3, ServerStepAtomic

\* Answers to reads and discoveries.
LEMMA ReadAtomic == ASSUME GInv, DInv, AInv, ServeRead PROVE AInv'
<1> DEFINE c == queue[1]
           i == c.proc
           p == procs[i]
<1>1. c = queue[1] /\ i = c.proc /\ p = procs[i] /\ queue # <<>> /\ rsp = NoRsp
  BY DEF ServeRead, Waiting
<1> HIDE DEF c, i, p
<1>2. HeadIs(c, i, p) BY <1>1, HeadFacts
<1>3. procs' = procs /\ queue' = queue /\ values' = values /\ prep' = prep
      /\ c.req.op \notin {"WRITE_REQ", "PREP_WRITE_REQ", "EXEC_WRITE_REQ"}
  BY <1>2 DEF ServeRead, Waiting, HeadIs, server
<1>4. p.call.kind # "write" BY <1>2, <1>3 DEF HeadIs, CmdData, WriteCmd
<1>5. HistOnly(procs, procs') BY <1>3 DEF HistOnly, Hist
<1> QED BY <1>1, <1>3, <1>4, <1>5, QuietAtomic

\* The exchange of the MTU.
LEMMA MtuAtomic == ASSUME GInv, DInv, AInv, ServeMtu PROVE AInv'
<1> DEFINE c == queue[1]
           i == c.proc
           p == procs[i]
<1>1. c = queue[1] /\ i = c.proc /\ p = procs[i] /\ queue # <<>> /\ rsp = NoRsp
  BY DEF ServeMtu, Waiting
<1> HIDE DEF c, i, p
<1>2. HeadIs(c, i, p) BY <1>1, HeadFacts
<1>3. procs' = procs /\ queue' = queue /\ values' = values /\ prep' = prep /\ c.req.op = "MTU_REQ"
  BY <1>2 DEF ServeMtu, Waiting, HeadIs
<1>4. p.call.kind # "write" BY <1>2, <1>3 DEF HeadIs, CmdData, WriteCmd
<1>5. HistOnly(procs, procs') BY <1>3 DEF HistOnly, Hist
<1> QED BY <1>1, <1>3, <1>4, <1>5, QuietAtomic

\* Refusals.
LEMMA RefuseAtomic == ASSUME GInv, DInv, AInv, Refuse PROVE AInv'
<1> DEFINE c == queue[1]
           i == c.proc
           p == procs[i]
<1>1. c = queue[1] /\ i = c.proc /\ p = procs[i] /\ queue # <<>> BY DEF Refuse
<1> HIDE DEF c, i, p
<1>2. Refuses(c, i, p) BY <1>1, RefuseEffect
<1>3. rsp = NoRsp /\ queue' = queue /\ HistOnly(procs, procs') /\ values' = values /\ prep' = prep
      /\ rsp'.status \notin {"OK", "INVALID_OFFSET"}
  BY <1>2 DEF Refuses, Error
<1> QED BY <1>1, <1>3, QuietAtomic

\* Values of which one changes, to that of write h or of its beginning.
LEMMA AtomicWrite ==
  ASSUME AInv, HistOnly(procs, procs'), AllAlone(procs), NEW h \in DOMAIN procs, NEW p, p = procs[h],
         IsWrite(p), \A a \in Handles : a # p.call.handle => values'[a] = values[a],
         \/ values'[p.call.handle] = p.call.value
         \/ p.call.kind = "write_cmd" /\ IsPrefix(Cut(p.call.value), values'[p.call.handle])
  PROVE  \A a \in Handles : Atomic(procs', values', a)
<1> DEFINE ps == procs
           ps2 == procs'
           vs == values
           vs2 == values'
<1>1. HistOnly(ps, ps2) /\ \A a \in Handles : Atomic(ps, vs, a) BY DEF AInv
<1>2. WriteKept(ps, ps2)
  <2> HIDE DEF ps, ps2
  <2> QED BY <1>1, HistAlone
<1>3. ASSUME NEW a \in Handles PROVE Atomic(ps, vs2, a)
  <2>1. CASE a # p.call.handle
    <3>1. vs2[a] = vs[a] BY <2>1
    <3>2. Atomic(ps, vs, a) BY <1>1
    <3> HIDE DEF ps, vs, vs2
    <3> QED BY <3>1, <3>2 DEF Atomic
  <2>2. CASE a = p.call.handle
    <3>1. h \in DOMAIN ps /\ ps[h] = p OBVIOUS
    <3>2. \/ vs2[a] = p.call.value
          \/ p.call.kind = "write_cmd" /\ IsPrefix(Cut(p.call.value), vs2[a])
      BY <2>2
    <3> HIDE DEF ps, vs2
    <3> QED BY <2>2, <3>1, <3>2 DEF Atomic
  <2> QED BY <2>1, <2>2
<1> HIDE DEF ps, ps2, vs, vs2
<1>4. \A a : Atomic(ps, vs2, a) => Atomic(ps2, vs2, a) BY <1>2, AloneStays
<1> QED BY <1>3, <1>4 DEF ps2, vs2

\* Write Requests.
LEMMA RequestAtomic ==
  ASSUME GInv, DInv, AInv, NEW c, c = queue[1], NEW h, h = c.proc, NEW p, p = procs[h],
         WritesReq(c, h, p)
  PROVE  AInv'
<1> DEFINE b == p.call.handle
           v == p.call.value
<1>1. /\ h \in DOMAIN procs /\ p.call.kind = "write" /\ c.req.op = "WRITE_REQ"
      /\ queue # <<>> /\ rsp = NoRsp /\ queue' = queue /\ prep' = prep
      /\ values' = [values EXCEPT ![b] = v] /\ b \in Handles
      /\ procs' = Touch(values')
  BY DEF WritesReq, HeadIs
<1>2. QueueOk(procs, queue) BY DEF GInv
<1>3. HistOnly(procs, procs') BY <1>1, <1>2, TouchEffect
<1>4. values'[b] = v /\ \A a \in Handles : a # b => values'[a] = values[a]
  <2>1. values \in [Handles -> Seq(Nat)] BY DEF DInv, ServerData
  <2> QED BY <1>1, <2>1
<1>5. AllAlone(procs) => \A a \in Handles : Atomic(procs', values', a)
  <2>1. IsWrite(p) BY <1>1 DEF IsWrite
  <2> QED BY <1>1, <1>3, <1>4, <2>1, AtomicWrite
<1>6. ASSUME PrepSo(c, p, NoRsp, prep) PROVE PrepSo(c, procs'[h], rsp', prep')
  BY <1>1, <1>6 DEF PrepSo
<1> QED BY <1>1, <1>3, <1>5, <1>6, ServerStepAtomic

\* Write Commands, which leave the queue.
LEMMA CommandAtomic ==
  ASSUME GInv, DInv, AInv, NEW c, c = queue[1], NEW h, h = c.proc, NEW p, p = procs[h],
         WritesCmd(c, h, p)
  PROVE  AInv'
<1> DEFINE b == p.call.handle
           v == c.req.value
<1>1. /\ h \in DOMAIN procs /\ p.call.kind = "write_cmd" /\ CutCmd(c, p)
      /\ rsp = NoRsp /\ rsp' = NoRsp /\ prep' = prep
      /\ \A k \in DOMAIN queue' : \E j \in DOMAIN queue : j # 1 /\ queue'[k] = queue[j]
      /\ values' = [values EXCEPT ![b] = v] /\ b \in Handles
      /\ procs' = Touch(values')
  BY DEF WritesCmd, HeadIs
<1>2. QueueOk(procs, queue) BY DEF GInv
<1>3. HistOnly(procs, procs') BY <1>1, <1>2, TouchEffect
<1>4. values'[b] = v /\ \A a \in Handles : a # b => values'[a] = values[a]
  <2>1. values \in [Handles -> Seq(Nat)] BY DEF DInv, ServerData
  <2> QED BY <1>1, <2>1
<1>5. IsPrefix(Cut(p.call.value), values'[b]) BY <1>1, <1>4 DEF CutCmd
<1>6. AllAlone(procs) => \A a \in Handles : Atomic(procs', values', a)
  <2>1. IsWrite(p) BY <1>1 DEF IsWrite
  <2> QED BY <1>1, <1>3, <1>4, <1>5, <2>1, AtomicWrite
<1>7. /\ Alone(procs) => Alone(procs')
      /\ AllAlone(procs') => AllAlone(procs)
      /\ AllWell(procs') => AllWell(procs)
  <2> DEFINE ps == procs
             ps2 == procs'
  <2>1. HistOnly(ps, ps2) BY <1>3
  <2> HIDE DEF ps, ps2
  <2>2. WriteKept(ps, ps2) /\ (AllWell(ps2) => AllWell(ps)) BY <2>1, HistAlone
  <2>3. (Alone(ps) => Alone(ps2)) /\ (AllAlone(ps2) => AllAlone(ps)) BY <2>2, AloneStays
  <2> QED BY <2>2, <2>3 DEF ps, ps2
<1> SUFFICES ASSUME AllAlone(procs') PROVE PrepAt(procs', queue', rsp', prep')
  BY <1>1, <1>6, <1>7 DEF AInv
<1> SUFFICES ASSUME NEW k \in DOMAIN queue', procs'[queue'[k].proc].call.kind = "write"
             PROVE  PrepSo(queue'[k], procs'[queue'[k].proc], RspAt(k, rsp'), prep')
  BY DEF PrepAt
<1>8. PICK j \in DOMAIN queue : j # 1 /\ queue'[k] = queue[j] BY <1>1
<1> DEFINE d == queue[j]
           i == d.proc
           pi == procs[i]
           q == procs'[i]
           r == NoRsp
           ws == prep
<1>9. i \in DOMAIN procs BY <1>2 DEF QueueOk
<1>10. q.call = pi.call /\ q.offset = pi.offset BY <1>3, <1>9 DEF HistOnly, Hist
<1>11. PrepSo(d, pi, r, ws)
  <2>1. RspAt(j, rsp) = NoRsp BY <1>8 DEF RspAt
  <2>2. PrepAt(procs, queue, rsp, prep) BY <1>7 DEF AInv
  <2> QED BY <1>8, <1>10, <2>1, <2>2 DEF PrepAt
<1>12. RspAt(k, rsp') = r BY <1>1 DEF RspAt
<1>13. PrepSo(d, q, r, ws)
  <2> HIDE DEF d, pi, q, r, ws
  <2> QED BY <1>10, <1>11, PrepSame
<1> QED BY <1>1, <1>8, <1>12, <1>13

\* ServeWrite.
LEMMA ServeAtomic == ASSUME GInv, DInv, AInv, ServeWrite PROVE AInv'
<1> DEFINE c == queue[1]
           i == c.proc
           p == procs[i]
<1>1. c = queue[1] /\ i = c.proc /\ p = procs[i] OBVIOUS
<1> HIDE DEF c, i, p
<1>2. WritesReq(c, i, p) \/ WritesCmd(c, i, p) BY <1>1, WriteEffect
<1> QED BY <1>1, <1>2, RequestAtomic, CommandAtomic

\* One more part makes the value up to its end, of any value.
LEMMA WholeAppend ==
  ASSUME NEW v \in Seq(Nat), NEW n \in 0..Len(v), NEW m \in 0..Len(v), NEW z \in Seq(Nat),
         Follows(v, n, z, m), NEW ws \in Seq(Part), NEW w \in Part, w.offset = n, w.value = z,
         NEW h, w.handle = h,
         n = 0 => ws = <<>>, n # 0 => Whole(ws, h, Upto(v, n))
  PROVE  Whole(Append(ws, w), h, Upto(v, m))
<1>1. ASSUME NEW k \in DOMAIN Append(ws, w) PROVE Append(ws, w)[k].handle = h
  <2>1. (k \in DOMAIN ws /\ Append(ws, w)[k] = ws[k]) \/ Append(ws, w)[k] = w OBVIOUS
  <2>2. k \in DOMAIN ws => ws[k].handle = h
    <3>1. DOMAIN <<>> = {} BY FewReqs
    <3>2. CASE n = 0 BY <3>1, <3>2
    <3>3. CASE n # 0 BY <3>3 DEF Whole
    <3> QED BY <3>2, <3>3
  <2> QED BY <2>1, <2>2
<1>2. ASSUME NEW x \in Seq(Nat) PROVE Run(x, Append(ws, w), h) = Upto(v, m)
  <2> DEFINE y == Run(x, ws, h)
  <2>1. y \in Seq(Nat) BY RunExists
  <2>2. Reaches(y, v, n) BY DEF Reaches, Whole
  <2>3. Run(x, Append(ws, w), h) = Put(y, w) BY RunAppend
  <2> HIDE DEF y
  <2>4. Put(y, w) = Upto(v, m) BY <2>1, <2>2, PutPart
  <2> QED BY <2>3, <2>4
<1> QED BY <1>1, <1>2 DEF Whole

\* Parts.
LEMMA PrepareAtomic == ASSUME GInv, DInv, AInv, ServePrepare PROVE AInv'
<1> DEFINE c == queue[1]
           h == c.proc
           p == procs[h]
           w == [handle |-> c.req.handle, offset |-> c.req.offset, value |-> c.req.value]
           b == p.call.handle
           v == p.call.value
           n == p.offset
           z == c.req.value
<1>1. c = queue[1] /\ h = c.proc /\ p = procs[h] /\ queue # <<>>
      /\ w = [handle |-> c.req.handle, offset |-> c.req.offset, value |-> c.req.value]
  BY DEF ServePrepare, Waiting
<1> HIDE DEF c, h, p, w
<1>2. Prepares(c, h, p, w) BY <1>1, PrepareEffect
<1>3. /\ w \in Part /\ w.handle = b /\ w.offset = n /\ w.value = z
      /\ prep' = Append(prep, w) /\ procs' = procs /\ queue' = queue
      /\ rsp = NoRsp /\ rsp' = Ok(z) /\ values' = values
      /\ p.call.kind = "write" /\ c.req.op = "PREP_WRITE_REQ"
      /\ b \in Handles /\ v \in Seq(Nat) /\ n \in 0..Len(v) /\ h \in DOMAIN procs
  BY <1>2 DEF Prepares, HeadIs
<1>4. HistOnly(procs, procs') BY <1>3 DEF HistOnly, Hist
<1>5. prep \in Seq(Part) BY DEF DInv, ServerData
<1>6. AllAlone(procs) => \A a \in Handles : Atomic(procs', values', a) BY <1>3, <1>4, AtomicStays
<1>7. ASSUME PrepSo(c, p, NoRsp, prep) PROVE PrepSo(c, procs'[h], rsp', prep')
  <2>1. NextPart(c.req, p) BY <1>2 DEF Prepares
  <2>2. PICK m \in 0..Len(v) : m > n /\ z = SubSeq(v, n + 1, m) BY <2>1 DEF NextPart
  <2>3. NoRsp.status # "OK" BY DEF NoRsp
  <2>4. /\ n = 0 => prep = <<>>
        /\ n # 0 => Whole(prep, b, Upto(v, n))
    BY <1>3, <1>7, <2>3 DEF PrepSo
  <2>5. Whole(Append(prep, w), b, Upto(v, m)) /\ n + Len(z) = m
    <3>1. v \in Seq(Nat) /\ n \in 0..Len(v) /\ w.offset = n /\ w.value = z /\ w.handle = b BY <1>3
    <3> HIDE DEF v, n, z, b
    <3>2. z \in Seq(Nat) /\ n + Len(z) = m BY <2>2, <3>1, PartIs
    <3>3. Follows(v, n, z, m) BY <2>2, <3>1, PartFollows
    <3>4. Whole(Append(prep, w), b, Upto(v, m)) BY <1>3, <1>5, <2>4, <3>1, <3>2, <3>3, WholeAppend
    <3> QED BY <3>2, <3>4
  <2>6. Whole(Append(prep, w), b, Upto(v, n + Len(z))) BY <2>5
  <2> DEFINE r == rsp'
             ws == Append(prep, w)
  <2>7. r.status = "OK" BY <1>3 DEF Ok
  <2> HIDE DEF r, ws
  <2>8. PrepSo(c, p, r, ws) BY <1>3, <2>6, <2>7 DEF PrepSo, ws
  <2> QED BY <1>1, <1>3, <2>8 DEF r, ws
<1> QED BY <1>1, <1>3, <1>4, <1>6, <1>7, ServerStepAtomic

\* Execute Write: it writes the attribute of the one write whose parts are there.
LEMMA ExecuteAtomic == ASSUME GInv, DInv, AInv, ServeExecute PROVE AInv'
<1> DEFINE c == queue[1]
           h == c.proc
           p == procs[h]
           b == p.call.handle
<1>1. c = queue[1] /\ h = c.proc /\ p = procs[h] /\ queue # <<>> BY DEF ServeExecute, Waiting
<1> HIDE DEF c, h, p
<1>2. Executes(c, h, p) BY <1>1, ExecuteEffect
<1>3. /\ p.call.kind = "write" /\ c.req.op = "EXEC_WRITE_REQ" /\ h \in DOMAIN procs /\ b \in Handles
      /\ \/ rsp'.status = "OK" /\ \A a \in Handles : values'[a] = Run(values[a], prep, a)
         \/ rsp'.status = "INVALID_OFFSET" /\ values' = values
      /\ procs' = Touch(values') /\ queue' = queue /\ rsp = NoRsp /\ prep' = <<>>
      /\ 1 \in DOMAIN queue
  BY <1>2 DEF Executes, HeadIs
<1>4. QueueOk(procs, queue) BY DEF GInv
<1>5. HistOnly(procs, procs') BY <1>3, <1>4, TouchEffect
<1>6. prep \in Seq(Part) /\ values \in [Handles -> Seq(Nat)] BY DEF DInv, ServerData
<1>7. PrepSo(c, procs'[h], rsp', prep') BY <1>3 DEF PrepSo
<1>8. ASSUME AllAlone(procs) PROVE \A a \in Handles : Atomic(procs', values', a)
  <2>1. CASE rsp'.status = "INVALID_OFFSET" /\ values' = values BY <1>5, <1>8, <2>1, AtomicStays
  <2>2. CASE rsp'.status = "OK" /\ \A a \in Handles : values'[a] = Run(values[a], prep, a)
    <3>1. PrepSo(c, p, NoRsp, prep)
      <4>1. RspAt(1, rsp) = NoRsp BY <1>3 DEF RspAt
      <4> QED BY <1>1, <1>3, <1>8, <4>1 DEF AInv, PrepAt
    <3>2. Whole(prep, b, p.call.value) BY <1>3, <3>1 DEF PrepSo, NoRsp
    <3>3. values'[b] = p.call.value BY <1>3, <1>6, <2>2, <3>2 DEF Whole
    <3>4. ASSUME NEW a \in Handles, a # b PROVE values'[a] = values[a]
      <4>1. NoParts(prep, a) BY <3>2, <3>4 DEF NoParts, Whole
      <4> DEFINE x == values[a]
      <4>2. x \in Seq(Nat) /\ values'[a] = Run(x, prep, a) BY <1>6, <2>2
      <4> HIDE DEF x
      <4>3. Run(x, prep, a) = x BY <1>6, <4>1, <4>2, RunNone
      <4> QED BY <4>2, <4>3 DEF x
    <3>5. IsWrite(p) BY <1>3 DEF IsWrite
    <3> QED BY <1>1, <1>3, <1>5, <1>8, <3>3, <3>4, <3>5, AtomicWrite
  <2> QED BY <1>3, <2>1, <2>2
<1> QED BY <1>1, <1>3, <1>5, <1>7, <1>8, ServerStepAtomic

\* Calls: a new write is alone when all earlier ones have ended with success,
\* and then finds no parts.
LEMMA CallAtomic == ASSUME GInv, DInv, AInv, NEW c \in Calls, Call(c) PROVE AInv'
<1> DEFINE i == Len(procs) + 1
           p == NewProc(c)
           o == Start(p)
<1>1. i = Len(procs) + 1 /\ p = NewProc(c) /\ o = Start(p) OBVIOUS
<1> HIDE DEF i, p, o
<1>2. Adds(i, o) /\ StartsData(c, p, o)
  <2>1. mtu \in Mtu BY DEF DInv, ServerData
  <2> QED BY <1>1, <2>1, CallEffect
<1>3. /\ i \notin DOMAIN procs /\ DOMAIN procs' = DOMAIN procs \cup {i}
      /\ procs'[i] = o.p /\ \A j \in DOMAIN procs : procs'[j] = procs[j]
      /\ \A k \in DOMAIN queue' : (k \in DOMAIN queue /\ queue'[k] = queue[k]) \/ Issued(queue'[k], i, o)
      /\ rsp # NoRsp => queue'[1] = queue[1]
      /\ rsp' = rsp /\ values' = values /\ prep' = prep
  BY <1>2 DEF Adds
<1>4. o.p.call = c /\ o.p.offset = 0 /\ o.p.ends = <<>> /\ o.p.alone = p.alone
  BY <1>2 DEF StartsData
<1>5. p.alone => AllWell(procs)
  <2>1. p.alone = (\A q \in ToSet(procs) : q.call.kind = "write" => EndedWell(q)) BY <1>1 DEF NewProc
  <2>2. \A j \in DOMAIN procs : procs[j] \in ToSet(procs) BY DEF ToSet
  <2> QED BY <2>1, <2>2 DEF AllWell
<1>6. QueueOk(procs, queue) BY DEF GInv
<1>7. \A j \in DOMAIN procs : j \in Nat /\ j < i
  <2>1. DOMAIN procs = 1..Len(procs) /\ Len(procs) \in Nat BY <1>6, SeqLen DEF QueueOk
  <2> QED BY <1>1, <2>1
<1>8. i \in Nat
  <2>1. Len(procs) \in Nat BY <1>6, SeqLen DEF QueueOk
  <2> QED BY <1>1, <2>1
<1>9. Alone(procs')
  <2> SUFFICES ASSUME NEW a \in DOMAIN procs', NEW b \in DOMAIN procs', procs'[a].call.kind = "write",
                      procs'[a].alone, procs'[b].call.kind = "write", b < a
               PROVE  EndedWell(procs'[b])
    BY DEF Alone
  <2>1. CASE a = i
    <3>1. b \in DOMAIN procs
      <4>1. b # i BY <1>8, <2>1
      <4> QED BY <1>3, <4>1
    <3>2. AllWell(procs) BY <1>3, <1>4, <1>5, <2>1
    <3> QED BY <1>3, <3>1, <3>2 DEF AllWell
  <2>2. CASE a # i
    <3>1. a \in DOMAIN procs BY <1>3, <2>2
    <3>2. b # i BY <1>7, <1>8, <3>1
    <3>3. b \in DOMAIN procs BY <1>3, <3>2
    <3> QED BY <1>3, <3>1, <3>3 DEF AInv, Alone
  <2> QED BY <2>1, <2>2
<1> SUFFICES ASSUME AllAlone(procs')
             PROVE  /\ \A h \in Handles : Atomic(procs', values, h)
                    /\ AllWell(procs') => prep = <<>>
                    /\ PrepAt(procs', queue', rsp, prep)
  BY <1>3, <1>9 DEF AInv
<1>10. AllAlone(procs) BY <1>3 DEF AllAlone
<1>11. ASSUME NEW h \in Handles PROVE Atomic(procs', values, h)
  <2>1. Atomic(procs, values, h) BY <1>10 DEF AInv
  <2> QED BY <1>3, <2>1 DEF Atomic
<1>12. ASSUME AllWell(procs') PROVE prep = <<>>
  <2>1. AllWell(procs) BY <1>3, <1>12 DEF AllWell
  <2> QED BY <1>10, <2>1 DEF AInv
<1>13. ASSUME NEW k \in DOMAIN queue', procs'[queue'[k].proc].call.kind = "write"
       PROVE  PrepSo(queue'[k], procs'[queue'[k].proc], RspAt(k, rsp), prep)
  <2>1. CASE k \in DOMAIN queue /\ queue'[k] = queue[k]
    <3>1. queue[k].proc \in DOMAIN procs BY <1>6, <2>1 DEF QueueOk
    <3>2. procs'[queue[k].proc] = procs[queue[k].proc] BY <1>3, <3>1
    <3>3. PrepAt(procs, queue, rsp, prep) BY <1>10 DEF AInv
    <3> QED BY <1>13, <2>1, <3>2, <3>3 DEF PrepAt
  <2>2. CASE Issued(queue'[k], i, o)
    <3>1. queue'[k].proc = i BY <2>2 DEF Issued
    <3>2. c.kind = "write" BY <1>3, <1>4, <1>13, <3>1
    <3>3. queue'[k].req.op \in {"WRITE_REQ", "PREP_WRITE_REQ"}
      <4>1. PICK y \in DOMAIN o.reqs : queue'[k].req = o.reqs[y].req BY <2>2 DEF Issued
      <4>2. o.reqs[y].req.op \in {"WRITE_REQ", "PREP_WRITE_REQ"} BY <1>2, <3>2 DEF StartsData
      <4> QED BY <4>1, <4>2
    <3>4. prep = <<>>
      <4>1. o.p.alone BY <1>3, <1>4, <3>2 DEF AllAlone
      <4> QED BY <1>4, <1>5, <1>10, <4>1 DEF AInv
    <3>5. k # 1 \/ rsp = NoRsp
      <4> SUFFICES ASSUME k = 1, rsp # NoRsp PROVE FALSE OBVIOUS
      <4>1. queue'[1] = queue[1] /\ queue # <<>> BY <1>3 DEF GInv
      <4>2. queue[1].proc \in DOMAIN procs BY <1>6, <4>1, HeadOk
      <4> QED BY <1>3, <3>1, <4>1, <4>2
    <3>6. RspAt(k, rsp) = NoRsp BY <3>5 DEF RspAt
    <3> DEFINE r == RspAt(k, rsp)
               d == queue'[k]
               q == o.p
    <3>7. r.status # "OK" BY <3>6 DEF NoRsp
    <3>8. d.req.op \in {"WRITE_REQ", "PREP_WRITE_REQ"} /\ q.offset = 0 BY <1>4, <3>3
    <3> HIDE DEF r, d, q
    <3>9. PrepSo(d, q, r, prep) BY <3>4, <3>7, <3>8 DEF PrepSo
    <3> QED BY <1>3, <3>1, <3>9 DEF d, q, r
  <2> QED BY <1>3, <2>1, <2>2
<1> QED BY <1>11, <1>12, <1>13 DEF PrepAt

\* The callback of a write.
LEMMA PrepReceived ==
  ASSUME NEW p, p.call.kind = "write", p.ends = <<>>, p.call.value \in Seq(Nat),
         p.offset \in 0..Len(p.call.value),
         NEW c, WriteCmd(c, p), NEW r, NEW ws, PrepSo(c, p, r, ws), NEW o, WriteGoes(p, c, r, o)
  PROVE  /\ EndedWell(o.p) => ws = <<>>
         /\ \A k \in DOMAIN o.reqs : PrepSo(o.reqs[k], o.p, NoRsp, ws)
<1> DEFINE v == p.call.value
<1>1. CASE EndsNow(p, o, r.status, <<>>) /\ (r.status = "OK" => c.cb = "func")
  <2>1. o.reqs = <<>> /\ o.p.ends[1].status = r.status
    <3> DEFINE st == r.status
               l == <<>>
    <3>1. EndsNow(p, o, st, l) BY <1>1
    <3> HIDE DEF st, l
    <3>2. o.reqs = <<>> /\ o.p.ends[1].status = st BY <3>1 DEF EndsNow
    <3> QED BY <3>2 DEF st
  <2>2. ASSUME r.status = "OK" PROVE ws = <<>>
    <3>1. c.req.op \in {"WRITE_REQ", "EXEC_WRITE_REQ"} BY <1>1, <2>2 DEF WriteCmd
    <3> QED BY <2>2, <3>1 DEF PrepSo
  <2>3. EndedWell(o.p) => ws = <<>> BY <2>1, <2>2 DEF EndedWell
  <2>4. DOMAIN <<>> = {} BY FewReqs
  <2> QED BY <2>1, <2>3, <2>4
<1>2. CASE /\ r.status = "OK" /\ c.cb = "prepare_write_cb"
           /\ o.p.offset = p.offset + Len(c.req.value)
           /\ \E y : /\ GoesOn(p, o, y) /\ WriteCmd(y, o.p)
                     /\ y.req.op \in {"PREP_WRITE_REQ", "EXEC_WRITE_REQ"}
  <2>1. PICK y : /\ GoesOn(p, o, y) /\ WriteCmd(y, o.p)
                 /\ y.req.op \in {"PREP_WRITE_REQ", "EXEC_WRITE_REQ"}
    BY <1>2
  <2>2. o.reqs = <<y>> /\ o.p.call = p.call /\ o.p.ends = <<>> BY <2>1 DEF GoesOn, Kept
  <2>3. c.req.op = "PREP_WRITE_REQ" /\ NextPart(c.req, p) BY <1>2 DEF WriteCmd
  <2>4. Whole(ws, p.call.handle, Upto(v, o.p.offset)) BY <1>2, <2>3 DEF PrepSo
  <2>5. o.p.offset # 0
    <3> DEFINE n == p.offset
               z == c.req.value
    <3>1. PICK m \in 0..Len(v) : m > n /\ z = SubSeq(v, n + 1, m) BY <2>3 DEF NextPart
    <3>2. v \in Seq(Nat) /\ n \in 0..Len(v) /\ o.p.offset = n + Len(z) BY <1>2
    <3> HIDE DEF v, n, z
    <3>3. n + Len(z) = m BY <3>1, <3>2, PartIs
    <3>4. m # 0
      <4>1. n \in Nat /\ m \in Nat BY <3>1, <3>2
      <4> QED BY <3>1, <4>1
    <3> QED BY <3>2, <3>3, <3>4
  <2>6. y.req.op = "EXEC_WRITE_REQ" => Upto(v, o.p.offset) = v
    <3>1. y.req.op = "EXEC_WRITE_REQ" => o.p.offset = Len(v) BY <2>1, <2>2 DEF WriteCmd
    <3>2. Upto(v, Len(v)) = v
      <4> HIDE DEF v
      <4> QED BY UptoEnds DEF v
    <3> QED BY <3>1, <3>2
  <2>7. NoRsp.status \notin {"OK", "INVALID_OFFSET"} BY DEF NoRsp
  <2>8. PrepSo(y, o.p, NoRsp, ws)
    <3> DEFINE q == o.p
               r2 == NoRsp
    <3>1. /\ y.req.op \in {"PREP_WRITE_REQ", "EXEC_WRITE_REQ"} /\ q.call = p.call /\ q.offset # 0
          /\ Whole(ws, p.call.handle, Upto(v, q.offset)) /\ r2.status \notin {"OK", "INVALID_OFFSET"}
          /\ y.req.op = "EXEC_WRITE_REQ" => Upto(v, q.offset) = v
      BY <2>1, <2>2, <2>4, <2>5, <2>6, <2>7
    <3> HIDE DEF q, r2
    <3>2. PrepSo(y, q, r2, ws) BY <3>1 DEF PrepSo
    <3> QED BY <3>2 DEF q, r2
  <2>9. \A k \in DOMAIN <<y>> : <<y>>[k] = y
    <3>1. DOMAIN <<y>> = {1} /\ <<y>>[1] = y BY FewReqs
    <3> QED BY <3>1
  <2>10. ~ EndedWell(o.p) BY <2>2 DEF EndedWell
  <2> QED BY <2>2, <2>8, <2>9, <2>10
<1> QED BY <1>1, <1>2 DEF WriteGoes

\* Responses.
LEMMA ReceivedAtomic == ASSUME GInv, DInv, AInv, received_data PROVE AInv'
<1> DEFINE c == queue[1]
           h == c.proc
           p == procs[h]
           o == Callback(c, p, rsp)
<1>1. c = queue[1] /\ h = c.proc /\ p = procs[h] /\ o = Callback(c, p, rsp) OBVIOUS
<1> HIDE DEF c, h, p, o
<1>2. Receives(h, c, p, o) BY <1>1, ReceivedEffect
<1>3. queue # <<>> BY <1>2 DEF Receives
<1>4. HeadIs(c, h, p) BY <1>1, <1>3, HeadFacts
<1>5. /\ h \in DOMAIN procs /\ 1 \in DOMAIN queue /\ DOMAIN procs' = DOMAIN procs
      /\ procs'[h] = o.p /\ o.p.call = p.call /\ \A j \in DOMAIN procs : j # h => procs'[j] = procs[j]
      /\ \A k \in DOMAIN queue' :
           (\E j \in DOMAIN queue : j # 1 /\ queue'[k] = queue[j]) \/ Issued(queue'[k], h, o)
      /\ rsp' = NoRsp /\ values' = values /\ prep' = prep
  BY <1>2 DEF Receives
<1>6. QueueOk(procs, queue) BY DEF GInv
<1>7. WriteKept(procs, procs')
  <2>1. p.ends # <<>> => o.p.ends = p.ends BY <1>2 DEF Receives
  <2>2. p.call.kind = "write" => o.p.alone = p.alone BY <1>2 DEF Receives, DataGoes, Kept
  <2> QED BY <1>1, <1>5, <2>1, <2>2 DEF WriteKept, EndsKept
<1>8. /\ Alone(procs) => Alone(procs')
      /\ AllAlone(procs') => AllAlone(procs)
      /\ \A a : Atomic(procs, values, a) => Atomic(procs', values, a)
  <2> DEFINE ps == procs
             ps2 == procs'
             vs == values
  <2>1. WriteKept(ps, ps2) BY <1>7
  <2> HIDE DEF ps, ps2, vs
  <2>2. /\ (Alone(ps) => Alone(ps2)) /\ (AllAlone(ps2) => AllAlone(ps))
        /\ \A a : Atomic(ps, vs, a) => Atomic(ps2, vs, a)
    BY <2>1, AloneStays
  <2> QED BY <2>2 DEF ps, ps2, vs
<1> SUFFICES ASSUME AllAlone(procs')
             PROVE  (AllWell(procs') => prep = <<>>) /\ PrepAt(procs', queue', NoRsp, prep)
  BY <1>5, <1>8 DEF AInv
<1>9. Alone(procs) /\ AllAlone(procs) /\ PrepAt(procs, queue, rsp, prep) /\ (AllWell(procs) => prep = <<>>)
  BY <1>8 DEF AInv
<1>10. \A k : RspAt(k, NoRsp) = NoRsp BY DEF RspAt
<1>11. CASE p.call.kind = "write"
  <2>1. PrepSo(c, p, rsp, prep)
    <3>1. RspAt(1, rsp) = rsp BY DEF RspAt
    <3> QED BY <1>1, <1>5, <1>9, <1>11, <3>1 DEF PrepAt
  <2>2. (EndedWell(o.p) => prep = <<>>) /\ \A k \in DOMAIN o.reqs : PrepSo(o.reqs[k], o.p, NoRsp, prep)
    <3> DEFINE r == rsp
               ws == prep
    <3>1. p.ends = <<>> /\ WriteCmd(c, p) /\ mtu \in Mtu
      BY <1>4, <1>11 DEF HeadIs, CmdData, DInv, ServerData
    <3>2. RspData(c, p, r) /\ o = Callback(c, p, r) /\ PrepSo(c, p, r, ws) BY <1>1, <1>2, <2>1 DEF Receives
    <3>3. ProcData(p) BY <1>4 DEF HeadIs
    <3>4. p.call.value \in Seq(Nat) BY <1>11, <3>3, WriteHandle
    <3>5. p.offset \in 0..Len(p.call.value) BY <1>11, <3>3 DEF ProcData
    <3> HIDE DEF r, ws
    <3>6. WriteGoes(p, c, r, o) BY <1>4, <1>11, <3>1, <3>2, WriteCallback DEF HeadIs
    <3>7. (EndedWell(o.p) => ws = <<>>) /\ \A k \in DOMAIN o.reqs : PrepSo(o.reqs[k], o.p, NoRsp, ws)
      BY <1>11, <3>1, <3>2, <3>4, <3>5, <3>6, PrepReceived
    <3> QED BY <3>7 DEF ws
  <2>3. AllWell(procs') => prep = <<>> BY <1>5, <1>11, <2>2 DEF AllWell
  <2>4. ASSUME NEW k \in DOMAIN queue', procs'[queue'[k].proc].call.kind = "write"
        PROVE  PrepSo(queue'[k], procs'[queue'[k].proc], NoRsp, prep)
    <3>1. CASE \E j \in DOMAIN queue : j # 1 /\ queue'[k] = queue[j]
      <4>1. PICK j \in DOMAIN queue : j # 1 /\ queue'[k] = queue[j] BY <3>1
      <4>2. queue[j].proc \in DOMAIN procs BY <1>6 DEF QueueOk
      <4>3. procs[queue[j].proc].call.kind = "write"
        BY <1>7, <2>4, <4>1, <4>2 DEF WriteKept, EndsKept
      <4>4. procs[queue[1].proc].call.kind = "write" BY <1>1, <1>11
      <4>5. j = 1 BY <1>5, <1>6, <1>9, <4>3, <4>4, OneWrite
      <4> QED BY <4>1, <4>5
    <3>2. CASE Issued(queue'[k], h, o)
      <4>1. PICK y \in DOMAIN o.reqs : queue'[k].req = o.reqs[y].req BY <3>2 DEF Issued
      <4>2. queue'[k].proc = h BY <3>2 DEF Issued
      <4> DEFINE d == queue'[k]
                 e == o.reqs[y]
      <4>3. d.req = e.req /\ PrepSo(e, o.p, NoRsp, prep) BY <2>2, <4>1
      <4> HIDE DEF d, e
      <4>4. PrepSo(d, o.p, NoRsp, prep) BY <4>3 DEF PrepSo
      <4> QED BY <1>5, <4>2, <4>4 DEF d
    <3> QED BY <1>5, <3>1, <3>2
  <2> QED BY <1>10, <2>3, <2>4 DEF PrepAt
<1>12. CASE p.call.kind # "write"
  <2>1. AllWell(procs') => AllWell(procs) BY <1>1, <1>5, <1>12 DEF AllWell
  <2>2. ASSUME NEW k \in DOMAIN queue', procs'[queue'[k].proc].call.kind = "write"
        PROVE  PrepSo(queue'[k], procs'[queue'[k].proc], NoRsp, prep)
    <3>1. queue'[k].proc # h BY <1>5, <1>12, <2>2
    <3>2. ~ Issued(queue'[k], h, o) BY <3>1 DEF Issued
    <3>3. PICK j \in DOMAIN queue : j # 1 /\ queue'[k] = queue[j] BY <1>5, <3>2
    <3>4. queue[j].proc \in DOMAIN procs BY <1>6 DEF QueueOk
    <3>5. procs'[queue[j].proc] = procs[queue[j].proc] BY <1>5, <3>1, <3>3, <3>4
    <3>6. RspAt(j, rsp) = NoRsp BY <3>3 DEF RspAt
    <3> QED BY <1>9, <2>2, <3>3, <3>5, <3>6 DEF PrepAt
  <2> QED BY <1>9, <1>10, <2>1, <2>2 DEF PrepAt
<1> QED BY <1>11, <1>12

\* The timeout: a write that it fails has not succeeded.
LEMMA TimeoutAtomic == ASSUME GInv, DInv, AInv, disconnect_timeout PROVE AInv'
<1>1. QueueOk(procs, queue) BY DEF GInv
<1>2. procs' = AllFailed(procs, queue)[Len(queue)] /\ queue' = <<>> /\ values' = values /\ prep' = prep
  BY DEF disconnect_timeout, server
<1>3. Fails(procs, procs', queue) BY <1>1, <1>2, FailsAll
<1>4. ASSUME NEW i \in DOMAIN procs, procs[i].call.kind = "write"
      PROVE  procs'[i].alone = procs[i].alone /\ (EndedWell(procs'[i]) => EndedWell(procs[i]))
  <2> DEFINE p == procs[i]
             p2 == procs'[i]
  <2>1. \/ p2 = p
        \/ \E k \in DOMAIN queue : queue[k].proc = i /\ FailedBy(p2, queue[k], p)
    BY <1>3, <1>4 DEF Fails, Plain
  <2>2. CASE \E k \in DOMAIN queue : queue[k].proc = i /\ FailedBy(p2, queue[k], p)
    <3>1. PICK k \in DOMAIN queue : queue[k].proc = i /\ FailedBy(p2, queue[k], p) BY <2>2
    <3> DEFINE c == queue[k]
    <3>2. CmdOk(c, p.call.kind) /\ CmdData(c, p) /\ mtu \in Mtu
      BY <1>1, <3>1 DEF QueueOk, DInv, AllCmdData, ServerData
    <3>3. p.ends = <<>> BY <1>1, <1>4, <3>1, NotEnded
    <3>4. p.call.kind \in {"read", "write"} /\ IsProc(p) /\ ProcData(p) /\ p.call.kind = "write"
      BY <1>1, <1>4 DEF QueueOk, DInv, AllProcData
    <3> HIDE DEF c
    <3>5. FailedBy(p2, c, p) BY <3>1 DEF c
    <3> HIDE DEF p, p2
    <3>6. /\ p2.call = p.call /\ p2.touched = p.touched /\ p2.alone = p.alone
          /\ p2.fault = TRUE /\ p2.ends # <<>> /\ ProcData(p2)
          /\ p.call.kind = "write" => p2.ends[1].status \in {"TIMEOUT", "ABORTED"}
      BY <3>2, <3>3, <3>4, <3>5, FailedEnds
    <3>7. p2.alone = p.alone /\ ~ EndedWell(p2) BY <3>4, <3>6 DEF EndedWell
    <3> QED BY <3>7 DEF p, p2
  <2> QED BY <2>1, <2>2
<1>5. WriteKept(procs, procs') BY <1>3, <1>4 DEF WriteKept, EndsKept, Fails
<1>6. /\ Alone(procs) => Alone(procs')
      /\ AllAlone(procs') => AllAlone(procs)
      /\ \A a : Atomic(procs, values, a) => Atomic(procs', values, a)
  <2> DEFINE ps == procs
             ps2 == procs'
             vs == values
  <2>1. WriteKept(ps, ps2) BY <1>5
  <2> HIDE DEF ps, ps2, vs
  <2>2. /\ (Alone(ps) => Alone(ps2)) /\ (AllAlone(ps2) => AllAlone(ps))
        /\ \A a : Atomic(ps, vs, a) => Atomic(ps2, vs, a)
    BY <2>1, AloneStays
  <2> QED BY <2>2 DEF ps, ps2, vs
<1>7. AllWell(procs') => AllWell(procs)
  <2>1. DOMAIN procs' = DOMAIN procs /\ \A i \in DOMAIN procs : procs'[i].call = procs[i].call
    BY <1>3 DEF Fails
  <2> QED BY <1>4, <2>1 DEF AllWell
<1>8. DOMAIN <<>> = {} BY FewReqs
<1>9. PrepAt(procs', queue', rsp', prep') BY <1>2, <1>8 DEF PrepAt
<1> QED BY <1>2, <1>6, <1>7, <1>9 DEF AInv

\* As long as each write is called after the earlier ones have ended with
\* success, no attribute ever holds a part of a value, however long it is,
\* whatever else is in progress, and although the last one may be refused,
\* time out, or never end (prepare_write_cb, execute_write).
THEOREM WritesAtomic == Spec => []WriteAtomic
<1>1. Init => AInv
  <2> SUFFICES ASSUME Init PROVE AInv OBVIOUS
  <2>1. procs = <<>> /\ queue = <<>> /\ prep = <<>> /\ values = Values BY DEF Init
  <2>2. DOMAIN <<>> = {} BY FewReqs
  <2>3. \A h \in Handles : Atomic(procs, values, h) BY <2>1 DEF Atomic
  <2> QED BY <2>1, <2>2, <2>3 DEF AInv, Alone, PrepAt
<1>2. GInv /\ DInv /\ AInv /\ [Next]_vars => AInv'
  <2> SUFFICES ASSUME GInv, DInv, AInv, [Next]_vars PROVE AInv' OBVIOUS
  <2>1. ASSUME NEW c \in Calls, Call(c) PROVE AInv' BY <2>1, CallAtomic
  <2>2. CASE received_data BY <2>2, ReceivedAtomic
  <2>3. CASE disconnect_timeout BY <2>3, TimeoutAtomic
  <2>4. CASE ServeRead BY <2>4, ReadAtomic
  <2>5. CASE ServeMtu BY <2>5, MtuAtomic
  <2>6. CASE ServeWrite BY <2>6, ServeAtomic
  <2>7. CASE ServePrepare BY <2>7, PrepareAtomic
  <2>8. CASE ServeExecute BY <2>8, ExecuteAtomic
  <2>9. CASE Refuse BY <2>9, RefuseAtomic
  <2>10. CASE UNCHANGED vars BY <2>10 DEF vars, AInv
  <2> QED BY <2>1, <2>2, <2>3, <2>4, <2>5, <2>6, <2>7, <2>8, <2>9, <2>10 DEF Next, Server
<1>3. DInv /\ AInv => WriteAtomic
  <2> SUFFICES ASSUME DInv, AInv, \A i \in DOMAIN procs : procs[i].call.kind = "write" => procs[i].alone,
                      NEW h \in DOMAIN values
               PROVE  \/ values[h] = Values[h]
                      \/ \E i \in Writes(h) :
                           \/ values[h] = procs[i].call.value
                           \/ /\ procs[i].call.kind = "write_cmd"
                              /\ IsPrefix(Cut(procs[i].call.value), values[h])
    BY DEF WriteAtomic
  <2>1. AllAlone(procs) BY DEF AllAlone
  <2>2. h \in Handles BY DEF DInv, ServerData
  <2>3. Atomic(procs, values, h) BY <2>1, <2>2 DEF AInv
  <2>4. \A i \in DOMAIN procs : IsWrite(procs[i]) /\ procs[i].call.handle = h => i \in Writes(h)
    BY DEF Writes, IsWrite
  <2> QED BY <2>3, <2>4 DEF Atomic
<1> QED BY <1>1, <1>2, <1>3, ProcedureInvariant, DataInvariant, PTL DEF Spec
=============================================================================
