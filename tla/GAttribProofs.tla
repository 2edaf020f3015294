--------------------------- MODULE GAttribProofs ---------------------------
(***************************************************************************)
(* Invariance proofs for GAttrib.  The invariants are stated once for the  *)
(* record attrib (Good below); one lemma per function of gattrib.c says    *)
(* that it keeps them, and one lemma per action combines those.  The second *)
(* part is about who is named by an identifier and who owns a reference.   *)
(***************************************************************************)
EXTENDS GAttrib, TLAPS, FiniteSetTheorems, SequenceTheorems

HSent(a) == a.requests # <<>> /\ a.requests[1].sent

CanSend(a) ==
  \/ a.responses # <<>>
  \/ a.requests # <<>> /\ ~ a.requests[1].sent

\* Behind the head nothing is sent and nothing continues a long read.
Fresh(q, i) == ~ q[i].sent /\ q[i].part = 0

\* The second queue holds responses only, none of them sent.
AllResponses(q) ==
  \A i \in 1..Len(q) : ~ q[i].sent /\ is_response(q[i].opcode)

Heads(a) ==
  /\ \A i \in 2..Len(a.requests) : Fresh(a.requests, i)
  /\ AllResponses(a.responses)

Timer(a) ==
  ~ a.stale => a.timeout_watch = IF HSent(a) THEN "armed" ELSE "none"

Wake(a, w) == ~ a.stale /\ ~ w /\ CanSend(a) => a.write_watch

Drained(a) == a.stale => a.requests = <<>>

\* The part of Good that does not speak of the write watch.
Sound(a) == a \in GAttribRecord /\ Heads(a) /\ Timer(a) /\ Drained(a)

Good(a, w) == Sound(a) /\ Wake(a, w)

\* GAttribRecord while a reference count is being settled.
CountedRecord ==
  [refs : Int, requests : Seq(Command), responses : Seq(Command),
   events : SUBSET Events, read_watch : WatchId, write_watch : BOOLEAN,
   timeout_watch : WatchId, next_cmd_id : Nat, stale : BOOLEAN]

\* The inductive invariant.
IInv == TypeOK /\ Good(attrib, wfail)
-----------------------------------------------------------------------------
\* Removing an element keeps the type, the order and the other elements.
LEMMA RemoveAtLemma ==
  ASSUME NEW S, NEW q \in Seq(S), NEW i \in 1..Len(q)
  PROVE  /\ RemoveAt(q, i) \in Seq(S)
         /\ Len(RemoveAt(q, i)) = Len(q) - 1
         /\ \A j \in 1..Len(q) - 1 :
              RemoveAt(q, i)[j] = IF j < i THEN q[j] ELSE q[j + 1]
<1>1. SubSeq(q, 1, i - 1) \in Seq(S) /\ Len(SubSeq(q, 1, i - 1)) = i - 1
  OBVIOUS
<1>2. SubSeq(q, i + 1, Len(q)) \in Seq(S) /\ Len(SubSeq(q, i + 1, Len(q))) = Len(q) - i
  OBVIOUS
<1>3. \A j \in 1..i - 1 : SubSeq(q, 1, i - 1)[j] = q[j]
  OBVIOUS
<1>4. \A j \in 1..Len(q) - i : SubSeq(q, i + 1, Len(q))[j] = q[i + j]
  OBVIOUS
<1> DEFINE l == SubSeq(q, 1, i - 1)
           r == SubSeq(q, i + 1, Len(q))
<1>5. /\ l \o r \in Seq(S)
      /\ Len(l \o r) = Len(l) + Len(r)
      /\ \A j \in 1..Len(l) + Len(r) :
           (l \o r)[j] = IF j <= Len(l) THEN l[j] ELSE r[j - Len(l)]
  BY <1>1, <1>2, ConcatProperties
<1>6. RemoveAt(q, i) = l \o r  BY DEF RemoveAt
<1> HIDE DEF l, r
<1>7. Len(l) = i - 1 /\ Len(r) = Len(q) - i  BY <1>1, <1>2 DEF l, r
<1>8. \A j \in 1..Len(q) - 1 :
        (l \o r)[j] = IF j < i THEN q[j] ELSE q[j + 1]
  <2> TAKE j \in 1..Len(q) - 1
  <2>1. CASE j < i  BY <2>1, <1>3, <1>5, <1>7 DEF l
  <2>2. CASE ~ j < i
    <3>1. j - (i - 1) \in 1..Len(q) - i  BY <2>2
    <3>2. r[j - (i - 1)] = q[i + (j - (i - 1))]  BY <3>1, <1>4 DEF r
    <3> QED BY <2>2, <3>2, <1>5, <1>7
  <2> QED BY <2>1, <2>2
<1>9. Len(l) + Len(r) = Len(q) - 1  BY <1>7
<1> QED BY <1>5, <1>6, <1>8, <1>9

\* A queue is nonempty exactly when its length is not zero.
LEMMA NonEmpty ==
  ASSUME NEW S, NEW q \in Seq(S)
  PROVE  /\ q # <<>> <=> Len(q) # 0
         /\ Len(q) \in Nat
         /\ q # <<>> => 1 \in 1..Len(q) /\ q[1] \in S
OBVIOUS

\* The number of commands that hold a reference is a natural number.
LEMMA HeldFinite ==
  ASSUME NEW q \in Seq(Command)
  PROVE  \A T \in SUBSET DOMAIN q : IsFiniteSet(T) /\ Cardinality(T) \in Nat
<1>1. IsFiniteSet(1..Len(q)) BY FS_Interval
<1> QED BY <1>1, FS_Subset, FS_CardinalityType

\* g_attrib_ref changes only the count, and keeps the record well typed.
LEMMA RefType ==
  ASSUME NEW a \in GAttribRecord
  PROVE  /\ g_attrib_ref(a) \in GAttribRecord
         /\ g_attrib_ref(a).requests = a.requests
         /\ g_attrib_ref(a).responses = a.responses
         /\ g_attrib_ref(a).timeout_watch = a.timeout_watch
         /\ g_attrib_ref(a).write_watch = a.write_watch
         /\ g_attrib_ref(a).stale = a.stale
BY DEF g_attrib_ref, GAttribRecord

\* g_attrib_ref keeps the inductive condition.
LEMMA RefGood ==
  ASSUME NEW a, NEW w \in BOOLEAN, Good(a, w)
  PROVE  Good(g_attrib_ref(a), w)
BY RefType DEF Good, Sound, Wake, Heads, Timer, Drained, HSent, CanSend

\* Dropping a reference either leaves the queues and the watches alone or
\* frees everything.  The count may be any integer here: disconnect_timeout
\* subtracts before it drops its own reference.
LEMMA UnrefType ==
  ASSUME NEW a \in CountedRecord
  PROVE  LET b == g_attrib_unref(a)
         IN  /\ b \in GAttribRecord
             /\ b.stale = a.stale
             /\ \/ /\ b.requests = a.requests /\ b.responses = a.responses
                   /\ b.timeout_watch = a.timeout_watch
                   /\ b.write_watch = a.write_watch
                \/ /\ b.requests = <<>> /\ b.responses = <<>>
                   /\ b.timeout_watch = "none" /\ ~ b.write_watch
<1>1. CASE a.refs > 1
  BY <1>1 DEF g_attrib_unref, GAttribRecord, CountedRecord
<1>2. CASE ~ a.refs > 1
  <2>1. g_attrib_unref(a) = attrib_destroy(a)  BY <1>2 DEF g_attrib_unref
  <2>2. <<>> \in Seq(Command) /\ {} \in SUBSET Events  OBVIOUS
  <2>3. /\ attrib_destroy(a) \in GAttribRecord
        /\ attrib_destroy(a).stale = a.stale
        /\ attrib_destroy(a).requests = <<>> /\ attrib_destroy(a).responses = <<>>
        /\ attrib_destroy(a).timeout_watch = "none"
    BY <2>2 DEF attrib_destroy, GAttribRecord, CountedRecord, WatchId
  <2>4. ~ attrib_destroy(a).write_watch
    BY DEF attrib_destroy, CountedRecord
  <2> QED BY <2>1, <2>3, <2>4
<1> QED BY <1>1, <1>2

\* A well-typed bearer is also one with an integer count.
LEMMA CountedLemma == GAttribRecord \subseteq CountedRecord
BY DEF GAttribRecord, CountedRecord

\* g_attrib_unref keeps the inductive condition, also when it frees the bearer.
LEMMA UnrefGood ==
  ASSUME NEW a, NEW w \in BOOLEAN, Good(a, w)
  PROVE  Good(g_attrib_unref(a), w)
<1>1. a \in CountedRecord  BY CountedLemma DEF Good, Sound
<1> DEFINE b == g_attrib_unref(a)
<1>2. b \in GAttribRecord /\ b.stale = a.stale  BY <1>1, UnrefType
<1>3. CASE /\ b.requests = a.requests /\ b.responses = a.responses
           /\ b.timeout_watch = a.timeout_watch
           /\ b.write_watch = a.write_watch
  BY <1>2, <1>3 DEF Good, Sound, Wake, Heads, Timer, Drained, HSent, CanSend
<1>4. CASE /\ b.requests = <<>> /\ b.responses = <<>>
           /\ b.timeout_watch = "none" /\ ~ b.write_watch
  <2> HIDE DEF b
  <2>1. Good(b, w)
    BY <1>2, <1>4 DEF Good, Sound, Wake, Heads, Timer, Drained, HSent, CanSend, AllResponses
  <2> QED BY <2>1 DEF b
<1> QED BY <1>1, <1>3, <1>4, UnrefType

\* After wake_up_sender the write watch is installed, and nothing else changed.
LEMMA WakeType ==
  ASSUME NEW a \in GAttribRecord
  PROVE  LET b == wake_up_sender(a)
         IN  /\ b \in GAttribRecord
             /\ b.requests = a.requests /\ b.responses = a.responses
             /\ b.timeout_watch = a.timeout_watch
             /\ b.stale = a.stale
             /\ b.write_watch
<1>1. CASE a.write_watch
  <2>1. wake_up_sender(a) = a  BY <1>1 DEF wake_up_sender
  <2> QED BY <1>1, <2>1
<1>2. CASE ~ a.write_watch
  <2> DEFINE b == [g_attrib_ref(a) EXCEPT !.write_watch = TRUE]
  <2>1. wake_up_sender(a) = b  BY <1>2 DEF wake_up_sender
  <2>2. /\ b \in GAttribRecord
        /\ b.requests = a.requests /\ b.responses = a.responses
        /\ b.timeout_watch = a.timeout_watch
        /\ b.stale = a.stale
    BY RefType DEF GAttribRecord
  <2>3. b.write_watch  BY RefType DEF GAttribRecord
  <2> QED BY <2>1, <2>2, <2>3
<1> QED BY <1>1, <1>2

\* A sound bearer whose sender is woken satisfies the inductive condition.
LEMMA WakeGood ==
  ASSUME NEW a, NEW w \in BOOLEAN, Sound(a)
  PROVE  Good(wake_up_sender(a), w)
BY WakeType DEF Good, Sound, Wake, Heads, Timer, Drained, HSent, CanSend

\* destroy_sender may remove the watch when nothing can be sent, or when a
\* write has failed.
LEMMA DestroySenderGood ==
  ASSUME NEW a, NEW w \in BOOLEAN, Sound(a), a.stale \/ w \/ ~ CanSend(a)
  PROVE  Good(destroy_sender(a), w)
<1> DEFINE b == [a EXCEPT !.write_watch = FALSE]
<1>1. /\ b \in GAttribRecord
      /\ b.requests = a.requests /\ b.responses = a.responses
      /\ b.timeout_watch = a.timeout_watch
      /\ b.stale = a.stale
  BY DEF Sound, GAttribRecord
<1> HIDE DEF b
<1>2. Good(b, w)
  BY <1>1 DEF Good, Sound, Wake, Heads, Timer, Drained, HSent, CanSend
<1> QED BY <1>2, UnrefGood DEF destroy_sender, b
-----------------------------------------------------------------------------
\* What g_attrib_send needs of its command: a known opcode; and a command
\* for the head of the queue only when nothing in the queue is sent or
\* continues a long read.
LEMMA SendGood ==
  ASSUME NEW a, NEW w \in BOOLEAN, Good(a, w),
         NEW id \in Nat, NEW part \in Nat, NEW op \in Opcode,
         NEW func \in BOOLEAN, NEW hold \in BOOLEAN,
         id = 0 => part = 0,
         id # 0 => \A i \in 1..Len(a.requests) : Fresh(a.requests, i)
  PROVE  Good(g_attrib_send(a, id, part, op, func, hold), w)
<1> DEFINE c == [id |-> new_id(a, id), part |-> part, opcode |-> op,
                 sent |-> FALSE, func |-> func, hold |-> hold]
           q == IF is_response(op) THEN Append(a.responses, c)
                                   ELSE enqueue(a.requests, c, id # 0)
           n == IF id # 0 THEN a.next_cmd_id ELSE a.next_cmd_id + 1
           b == [a EXCEPT !.next_cmd_id = n,
                          !.responses = IF is_response(op) THEN q ELSE a.responses,
                          !.requests = IF is_response(op) THEN a.requests ELSE q]
<1>1. a \in GAttribRecord  BY DEF Good, Sound
<1>2. /\ a.requests \in Seq(Command) /\ a.responses \in Seq(Command)
      /\ a.next_cmd_id \in Nat
  BY <1>1 DEF GAttribRecord
<1>3. c \in Command /\ ~ c.sent /\ c.part = part /\ c.opcode = op
  BY <1>2 DEF Command, new_id
<1> HIDE DEF c
<1>6. n \in Nat  BY <1>2
<1> HIDE DEF n
<1>4. CASE a.stale  BY <1>4 DEF g_attrib_send
<1>5. CASE ~ a.stale
  <2>1. g_attrib_send(a, id, part, op, func, hold)
          = IF Len(q) = 1 THEN wake_up_sender(b) ELSE b
    BY <1>5 DEF g_attrib_send, c, n
  <2>2. SUFFICES Sound(b) /\ (Len(q) # 1 => Wake(b, w))
    BY <2>1, WakeGood DEF Good
  <2>3. CASE is_response(op)
    <3>1. q = Append(a.responses, c)  BY <2>3
    <3> HIDE DEF q
    <3>2. /\ q \in Seq(Command) /\ Len(q) = Len(a.responses) + 1
          /\ \A i \in 1..Len(a.responses) : q[i] = a.responses[i]
          /\ q[Len(q)] = c
      BY <3>1, <1>2, <1>3, AppendProperties
    <3>b. b = [a EXCEPT !.next_cmd_id = n, !.responses = q, !.requests = a.requests]
      BY <2>3
    <3> HIDE DEF b
    <3>3. /\ b \in GAttribRecord /\ b.requests = a.requests /\ b.responses = q
          /\ b.timeout_watch = a.timeout_watch /\ b.stale = a.stale
          /\ b.write_watch = a.write_watch
      BY <3>b, <3>2, <1>1, <1>2, <1>6 DEF GAttribRecord
    <3>4. AllResponses(q)
      <4>1. AllResponses(a.responses)  BY DEF Good, Sound, Heads
      <4> SUFFICES ASSUME NEW i \in 1..Len(q)
                   PROVE  ~ q[i].sent /\ is_response(q[i].opcode)
        BY DEF AllResponses
      <4>2. CASE i \in 1..Len(a.responses)  BY <4>1, <4>2, <3>2 DEF AllResponses
      <4>3. CASE i = Len(q)  BY <4>3, <3>2, <1>3, <2>3
      <4> QED BY <4>2, <4>3, <3>2, <1>2
    <3>5. Sound(b)
      BY <3>3, <3>4 DEF Good, Sound, Heads, Timer, Drained, HSent
    <3>6. Len(q) # 1 => Wake(b, w)
      BY <3>2, <3>3, <1>2 DEF Good, Wake, CanSend
    <3> QED BY <3>5, <3>6
  <2>4. CASE ~ is_response(op) /\ id = 0
    <3>1. q = Append(a.requests, c)  BY <2>4 DEF enqueue
    <3> HIDE DEF q
    <3>2. /\ q \in Seq(Command) /\ q # <<>> /\ Len(q) = Len(a.requests) + 1
          /\ \A i \in 1..Len(a.requests) : q[i] = a.requests[i]
          /\ q[Len(q)] = c
      BY <3>1, <1>2, <1>3, AppendProperties
    <3>b. b = [a EXCEPT !.next_cmd_id = n, !.responses = a.responses, !.requests = q]
      BY <2>4
    <3> HIDE DEF b
    <3>3. /\ b \in GAttribRecord /\ b.requests = q /\ b.responses = a.responses
          /\ b.timeout_watch = a.timeout_watch /\ b.stale = a.stale
          /\ b.write_watch = a.write_watch
      BY <3>b, <3>2, <1>1, <1>2, <1>6 DEF GAttribRecord
    <3>4. \A i \in 2..Len(q) : Fresh(q, i)
      BY <3>2, <1>2, <1>3, <2>4 DEF Good, Sound, Heads, Fresh
    <3>5. q # <<>> /\ (q[1].sent <=> HSent(a))
      <4>1. CASE a.requests = <<>>
        <5>1. Len(q) = 1  BY <4>1, <3>2
        <5>2. q[1] = c  BY <5>1, <3>2
        <5>3. ~ HSent(a)  BY <4>1 DEF HSent
        <5> QED BY <5>2, <5>3, <3>2, <1>3
      <4>2. CASE a.requests # <<>>  BY <4>2, <3>2, <1>2 DEF HSent
      <4> QED BY <4>1, <4>2
    <3>6. Sound(b)
      BY <3>3, <3>4, <3>5, <1>5 DEF Good, Sound, Heads, Timer, Drained, HSent
    <3>7. Len(q) # 1 => Wake(b, w)
      BY <3>2, <3>3, <3>5, <1>2 DEF Good, Wake, CanSend, HSent
    <3> QED BY <3>6, <3>7
  <2>5. CASE ~ is_response(op) /\ id # 0
    <3>1. q = <<c>> \o a.requests  BY <2>5 DEF enqueue
    <3> HIDE DEF q
    <3>2. /\ q \in Seq(Command) /\ Len(q) = Len(a.requests) + 1
          /\ q[1] = c
          /\ \A i \in 2..Len(q) : q[i] = a.requests[i - 1]
      BY <3>1, <1>2, <1>3
    <3>b. b = [a EXCEPT !.next_cmd_id = n, !.responses = a.responses, !.requests = q]
      BY <2>5
    <3> HIDE DEF b
    <3>3. /\ b \in GAttribRecord /\ b.requests = q /\ b.responses = a.responses
          /\ b.timeout_watch = a.timeout_watch /\ b.stale = a.stale
          /\ b.write_watch = a.write_watch
      BY <3>b, <3>2, <1>1, <1>2, <1>6 DEF GAttribRecord
    <3>4. \A i \in 2..Len(q) : Fresh(q, i)
      <4> TAKE i \in 2..Len(q)
      <4>1. i - 1 \in 1..Len(a.requests)  BY <3>2, <1>2
      <4>2. Fresh(a.requests, i - 1)  BY <4>1, <2>5
      <4> QED BY <4>2, <3>2 DEF Fresh
    <3>5. ~ HSent(a) /\ ~ q[1].sent
      BY <3>2, <1>2, <1>3, <2>5 DEF HSent, Fresh
    <3>6. Sound(b)
      BY <3>3, <3>4, <3>5, <1>5 DEF Good, Sound, Heads, Timer, Drained, HSent
    <3>7. Len(q) # 1 => Wake(b, w)
      BY <3>2, <3>3, <3>5, <1>2 DEF Good, Wake, CanSend, HSent
    <3> QED BY <3>6, <3>7
  <2> QED BY <2>3, <2>4, <2>5
<1> QED BY <1>4, <1>5

\* The application sends opcodes of att.h.
LEMMA AppOpsOpcodes == ASSUME NEW op \in AppOps PROVE op \in Opcode
BY ConstantsAssumption DEF ConstantsAssumption

\* The functions of gatt.c keep the inductive condition.
LEMMA GattSendGood ==
  ASSUME NEW a, NEW w \in BOOLEAN, Good(a, w), NEW op \in AppOps
  PROVE  Good(gatt_send(a, op), w)
<1> DEFINE b == IF Discovers(op) THEN g_attrib_ref(a) ELSE a
<1>1. Good(b, w)  BY RefGood
<1>2. op \in Opcode  BY AppOpsOpcodes
<1>3. Discovers(op) \in BOOLEAN /\ (op # "WRITE_CMD") \in BOOLEAN  BY DEF Discovers
<1> HIDE DEF b
<1>4. Good(g_attrib_send(b, 0, 0, op, op # "WRITE_CMD", Discovers(op)), w)
  BY <1>1, <1>2, <1>3, SendGood
<1> QED BY <1>4 DEF gatt_send, b

\* A result callback, run when nothing in the queue is on the air.
LEMMA CallbackGood ==
  ASSUME NEW a, NEW w \in BOOLEAN, Good(a, w),
         \A i \in 1..Len(a.requests) : Fresh(a.requests, i),
         NEW c \in Command, NEW ok \in BOOLEAN, NEW r \in Reactions(c, ok)
  PROVE  Good(run_callback(a, c, r), w)
<1> DEFINE b == CASE r.kind = "quiet"    -> a
                  [] r.kind = "continue" -> g_attrib_send(a, c.id, c.part + 1,
                                                 "READ_BLOB_REQ", TRUE, FALSE)
                  [] r.kind = "send"     -> gatt_send(a, r.op)
<1>1. Good(b, w)
  <2>1. CASE r.kind = "quiet"  BY <2>1
  <2>2. CASE r.kind = "continue"
    <3>1. b = g_attrib_send(a, c.id, c.part + 1, "READ_BLOB_REQ", TRUE, FALSE)
      BY <2>2
    <3>2. c.id \in Nat /\ c.id # 0 /\ c.part + 1 \in Nat  BY DEF Command
    <3> DEFINE id == c.id
               part == c.part + 1
               op == "READ_BLOB_REQ"
    <3>4. id \in Nat /\ id # 0 /\ part \in Nat  BY <3>2
    <3>5. op \in Opcode  BY DEF Opcode
    <3>6. id = 0 => part = 0  BY <3>4
    <3> HIDE DEF b, id, part, op
    <3>7. Good(g_attrib_send(a, id, part, op, TRUE, FALSE), w)
      BY <3>4, <3>5, <3>6, SendGood
    <3> QED BY <3>1, <3>7 DEF id, part, op
  <2>3. CASE r.kind = "send" /\ r.op \in AppOps
    <3>1. b = gatt_send(a, r.op)  BY <2>3
    <3> QED BY <3>1, <2>3, GattSendGood
  <2>4. \/ r.kind = "quiet" \/ r.kind = "continue"
        \/ r.kind = "send" /\ r.op \in AppOps
    BY DEF Reactions, Quiet
  <2> QED BY <2>1, <2>2, <2>3, <2>4
<1> HIDE DEF b
<1>2. run_callback(a, c, r) = IF c.func /\ c.hold THEN g_attrib_unref(b) ELSE b
  BY DEF run_callback, b
<1> QED BY <1>1, <1>2, UnrefGood
-----------------------------------------------------------------------------
(***************************************************************************)
(* The actions.                                                            *)
(***************************************************************************)
\* g_attrib_new establishes the inductive invariant.
LEMMA InitInv == Init => IInv
<1> SUFFICES ASSUME Init PROVE IInv  OBVIOUS
<1>1. attrib \in GAttribRecord
  <2>1. <<>> \in Seq(Command) /\ {} \in SUBSET Events  OBVIOUS
  <2> QED BY <2>1 DEF Init, GAttribRecord, WatchId
<1>2. /\ attrib.requests = <<>> /\ attrib.responses = <<>>
      /\ attrib.timeout_watch = "none" /\ ~ attrib.stale
  BY DEF Init
<1>3. Good(attrib, wfail)
  BY <1>1, <1>2 DEF Good, Sound, Heads, Timer, Wake, Drained, HSent, CanSend, AllResponses
<1>4. TypeOK
  <2>1. io \in {"open", "hup", "closed"}  BY DEF Init
  <2>2. inbox \in Seq(TagRecord)  BY DEF Init
  <2>3. app \in BOOLEAN /\ leaked \in Nat /\ wfail \in BOOLEAN  BY DEF Init
  <2> QED BY <1>1, <2>1, <2>2, <2>3 DEF TypeOK
<1> QED BY <1>3, <1>4 DEF IInv

\* A send by the application keeps it.
LEMMA SendStep ==
  ASSUME IInv, NEW op \in AppOps, Send(op)
  PROVE  IInv'
<1>1. Good(attrib', wfail)  BY GattSendGood DEF IInv, TypeOK, Send
<1>2. TypeOK'
  BY <1>1 DEF IInv, TypeOK, Send, Good, Sound, link
<1> QED BY <1>1, <1>2 DEF IInv, Send

QSent(q) == q # <<>> /\ q[1].sent
FreshFrom(q, k) == \A i \in k..Len(q) : Fresh(q, i)

\* Forgetting the callback of a command keeps its type and whether it was sent.
LEMMA ForgetLemma ==
  ASSUME NEW c \in Command
  PROVE  /\ forget_callback(c) \in Command
         /\ forget_callback(c).sent = c.sent
         /\ forget_callback(c).part = c.part
BY DEF forget_callback, Command

\* Cancelling one command of a queue keeps its head on the air or off it, and
\* brings nothing that was sent forward.
LEMMA CancelAtLemma ==
  ASSUME NEW q \in Seq(Command), NEW i \in 1..Len(q)
  PROVE  LET r == cancel_at(q, i)
         IN  /\ r \in Seq(Command)
             /\ FreshFrom(q, 2) => FreshFrom(r, 2) /\ (QSent(r) <=> QSent(q))
             /\ AllResponses(q) => AllResponses(r)
<1>1. CASE i = 1 /\ q[1].sent
  <2> DEFINE c == forget_callback(q[1])
             r == [q EXCEPT ![1] = c]
  <2>1. cancel_at(q, i) = r  BY <1>1 DEF cancel_at
  <2>0. c \in Command /\ c.sent = q[1].sent /\ c.part = q[1].part
    <3>1. q[1] \in Command  BY <1>1
    <3> QED BY <3>1, ForgetLemma
  <2> HIDE DEF c
  <2>2. /\ r \in Seq(Command) /\ Len(r) = Len(q)
        /\ r[1].sent = q[1].sent /\ r[1].part = q[1].part
        /\ \A j \in 2..Len(q) : r[j] = q[j]
    <3>1. /\ r \in Seq(Command) /\ Len(r) = Len(q)
          /\ \A j \in 1..Len(q) : r[j] = IF j = 1 THEN c ELSE q[j]
      BY <1>1, <2>0, ExceptSeq
    <3> HIDE DEF r
    <3>2. r[1] = c /\ \A j \in 2..Len(q) : r[j] = q[j]  BY <1>1, <3>1
    <3> QED BY <2>0, <3>1, <3>2
  <2> HIDE DEF r
  <2>3. r # <<>> /\ q # <<>>  BY <2>2
  <2>4. FreshFrom(q, 2) => FreshFrom(r, 2)  BY <2>2 DEF FreshFrom, Fresh
  <2>5. QSent(r) <=> QSent(q)  BY <2>2, <2>3 DEF QSent
  <2>6. ~ AllResponses(q)  BY <1>1 DEF AllResponses
  <2> QED BY <2>1, <2>2, <2>4, <2>5, <2>6
<1>2. CASE ~ (i = 1 /\ q[1].sent)
  <2> DEFINE r == RemoveAt(q, i)
  <2>1. cancel_at(q, i) = r  BY <1>2 DEF cancel_at
  <2>2. /\ r \in Seq(Command) /\ Len(r) = Len(q) - 1
        /\ \A j \in 1..Len(q) - 1 : r[j] = IF j < i THEN q[j] ELSE q[j + 1]
    BY RemoveAtLemma
  <2> HIDE DEF r
  <2>3. FreshFrom(q, 2) => FreshFrom(r, 2)
    <3> SUFFICES ASSUME FreshFrom(q, 2), NEW j \in 2..Len(r) PROVE Fresh(r, j)
      BY DEF FreshFrom
    <3>1. j \in 2..Len(q) /\ j + 1 \in 2..Len(q)  BY <2>2
    <3>2. Fresh(q, j) /\ Fresh(q, j + 1)  BY <3>1 DEF FreshFrom
    <3>3. r[j] = q[j] \/ r[j] = q[j + 1]  BY <2>2
    <3> QED BY <3>2, <3>3 DEF Fresh
  <2>4. AllResponses(q) => AllResponses(r)
    <3> SUFFICES ASSUME AllResponses(q), NEW j \in 1..Len(r)
                 PROVE  ~ r[j].sent /\ is_response(r[j].opcode)
      BY DEF AllResponses
    <3>1. j \in 1..Len(q) /\ j + 1 \in 1..Len(q)  BY <2>2
    <3>2. r[j] = q[j] \/ r[j] = q[j + 1]  BY <2>2
    <3> QED BY <3>1, <3>2 DEF AllResponses
  <2>5. FreshFrom(q, 2) => (QSent(r) <=> QSent(q))
    <3> HAVE FreshFrom(q, 2)
    <3>1. CASE i = 1
      <4>1. ~ QSent(q)  BY <1>2, <3>1 DEF QSent
      <4>2. r # <<>> => r[1] = q[2] /\ 2 \in 2..Len(q)  BY <2>2, <3>1
      <4> QED BY <4>1, <4>2 DEF QSent, FreshFrom, Fresh
    <3>2. CASE i # 1
      <4>1. r # <<>> /\ q # <<>> /\ r[1] = q[1]  BY <2>2, <3>2
      <4> QED BY <4>1 DEF QSent
    <3> QED BY <3>1, <3>2
  <2> QED BY <2>1, <2>2, <2>3, <2>4, <2>5
<1> QED BY <1>1, <1>2

\* Replacing the two queues by ones with the same head state.
LEMMA RequeueGood ==
  ASSUME NEW a, NEW w \in BOOLEAN, Good(a, w), NEW b \in GAttribRecord,
         b.timeout_watch = a.timeout_watch, b.stale = a.stale,
         b.write_watch = a.write_watch,
         FreshFrom(b.requests, 2), AllResponses(b.responses),
         QSent(b.requests) <=> QSent(a.requests),
         a.requests = <<>> => b.requests = <<>>,
         a.responses = <<>> => b.responses = <<>>
  PROVE  Good(b, w)
BY DEF Good, Sound, Heads, Timer, Wake, Drained, HSent, CanSend, QSent, FreshFrom

\* g_attrib_cancel keeps the inductive invariant.
LEMMA CancelStep ==
  ASSUME IInv, NEW queue \in {"requests", "responses"}, NEW i \in 1..MaxCmds,
         g_attrib_cancel(queue, i)
  PROVE  IInv'
<1>1. attrib \in GAttribRecord /\ Good(attrib, wfail) /\ wfail \in BOOLEAN
  BY DEF IInv, TypeOK
<1>2. /\ attrib.requests \in Seq(Command) /\ attrib.responses \in Seq(Command)
      /\ FreshFrom(attrib.requests, 2) /\ AllResponses(attrib.responses)
  BY <1>1 DEF GAttribRecord, Good, Sound, Heads, FreshFrom
<1>3. Good(attrib', wfail)
  <2>1. CASE queue = "requests"
    <3> DEFINE r == cancel_at(attrib.requests, i)
    <3>1. i \in 1..Len(attrib.requests)  BY <2>1, <1>2 DEF g_attrib_cancel
    <3>2. /\ r \in Seq(Command) /\ FreshFrom(r, 2)
          /\ QSent(r) <=> QSent(attrib.requests)
      BY <3>1, <1>2, CancelAtLemma
    <3> HIDE DEF r
    <3>3. attrib' = [attrib EXCEPT !.requests = r]
      BY <2>1 DEF g_attrib_cancel, r
    <3>4. /\ attrib' \in GAttribRecord
          /\ attrib'.requests = r /\ attrib'.responses = attrib.responses
          /\ attrib'.timeout_watch = attrib.timeout_watch
          /\ attrib'.stale = attrib.stale
          /\ attrib'.write_watch = attrib.write_watch
      BY <3>2, <3>3, <1>1 DEF GAttribRecord
    <3>5. attrib.requests # <<>>  BY <3>1
    <3> QED BY <1>1, <1>2, <3>2, <3>4, <3>5, RequeueGood
  <2>2. CASE queue = "responses"
    <3> DEFINE r == cancel_at(attrib.responses, i)
    <3>1. i \in 1..Len(attrib.responses)  BY <2>2, <1>2 DEF g_attrib_cancel
    <3>2. r \in Seq(Command) /\ AllResponses(r)
      BY <3>1, <1>2, CancelAtLemma
    <3> HIDE DEF r
    <3>3. attrib' = [attrib EXCEPT !.responses = r]
      BY <2>2 DEF g_attrib_cancel, r
    <3>4. /\ attrib' \in GAttribRecord
          /\ attrib'.requests = attrib.requests /\ attrib'.responses = r
          /\ attrib'.timeout_watch = attrib.timeout_watch
          /\ attrib'.stale = attrib.stale
          /\ attrib'.write_watch = attrib.write_watch
      BY <3>2, <3>3, <1>1 DEF GAttribRecord
    <3>5. attrib.responses # <<>>  BY <3>1
    <3> QED BY <1>1, <1>2, <3>2, <3>4, <3>5, RequeueGood
  <2> QED BY <2>1, <2>2
<1>4. leaked' \in Nat
  <2>1. attrib[queue] \in Seq(Command)  BY <1>2
  <2>2. held(attrib[queue]) \cap {i} \in SUBSET DOMAIN attrib[queue]  BY DEF held
  <2>3. Cardinality(held(attrib[queue]) \cap {i}) \in Nat  BY <2>1, <2>2, HeldFinite
  <2> QED BY <2>3 DEF g_attrib_cancel, IInv, TypeOK
<1>5. UNCHANGED <<io, inbox, app, wfail>>  BY DEF g_attrib_cancel, link
<1> QED BY <1>3, <1>4, <1>5 DEF IInv, TypeOK, Good, Sound

\* cancel_all_per_queue leaves at most the request that is on the air.
LEMMA CancelAllLemma ==
  ASSUME NEW q \in Seq(Command)
  PROVE  LET r == cancel_all_per_queue(q)
         IN  /\ r \in Seq(Command)
             /\ FreshFrom(r, 2)
             /\ AllResponses(q) => AllResponses(r)
             /\ QSent(r) <=> QSent(q)
             /\ q = <<>> => r = <<>>
<1>1. CASE QSent(q)
  <2> DEFINE c == forget_callback(q[1])
  <2>1. q[1] \in Command  BY <1>1 DEF QSent
  <2>2. c \in Command /\ c.sent = q[1].sent /\ c.part = q[1].part
    BY <2>1, ForgetLemma
  <2>3. cancel_all_per_queue(q) = <<c>>
    BY <1>1 DEF cancel_all_per_queue, QSent
  <2> HIDE DEF c
  <2>4. <<c>> \in Seq(Command) /\ Len(<<c>>) = 1 /\ <<c>>[1] = c /\ <<c>> # <<>>
    BY <2>2
  <2>5. FreshFrom(<<c>>, 2)  BY <2>4 DEF FreshFrom
  <2>6. ~ AllResponses(q)  BY <1>1 DEF AllResponses, QSent
  <2>7. QSent(<<c>>)  BY <1>1, <2>2, <2>4 DEF QSent
  <2>8. q # <<>>  BY <1>1 DEF QSent
  <2> QED BY <1>1, <2>3, <2>4, <2>5, <2>6, <2>7, <2>8
<1>2. CASE ~ QSent(q)
  <2>1. cancel_all_per_queue(q) = <<>>  BY <1>2 DEF cancel_all_per_queue, QSent
  <2> QED BY <1>2, <2>1 DEF QSent, FreshFrom, AllResponses
<1> QED BY <1>1, <1>2

\* g_attrib_cancel_all keeps the inductive invariant.
LEMMA CancelAllStep ==
  ASSUME IInv, g_attrib_cancel_all
  PROVE  IInv'
<1> DEFINE rq == cancel_all_per_queue(attrib.requests)
           rs == cancel_all_per_queue(attrib.responses)
<1>1. attrib \in GAttribRecord /\ Good(attrib, wfail) /\ wfail \in BOOLEAN
  BY DEF IInv, TypeOK
<1>2. /\ attrib.requests \in Seq(Command) /\ attrib.responses \in Seq(Command)
      /\ FreshFrom(attrib.requests, 2) /\ AllResponses(attrib.responses)
  BY <1>1 DEF GAttribRecord, Good, Sound, Heads, FreshFrom
<1>3. /\ rq \in Seq(Command) /\ FreshFrom(rq, 2)
      /\ QSent(rq) <=> QSent(attrib.requests)
      /\ attrib.requests = <<>> => rq = <<>>
      /\ rs \in Seq(Command) /\ AllResponses(rs)
      /\ attrib.responses = <<>> => rs = <<>>
  BY <1>2, CancelAllLemma
<1>4. attrib' = [attrib EXCEPT !.requests = rq, !.responses = rs]
  BY DEF g_attrib_cancel_all
<1> HIDE DEF rq, rs
<1>5. /\ attrib' \in GAttribRecord
      /\ attrib'.requests = rq /\ attrib'.responses = rs
      /\ attrib'.timeout_watch = attrib.timeout_watch
      /\ attrib'.stale = attrib.stale
      /\ attrib'.write_watch = attrib.write_watch
  BY <1>1, <1>3, <1>4 DEF GAttribRecord
<1>6. Good(attrib', wfail)  BY <1>1, <1>3, <1>5, RequeueGood
<1>7. leaked' \in Nat
  <2>1. held(attrib.requests) \in SUBSET DOMAIN attrib.requests  BY DEF held
  <2>2. Cardinality(held(attrib.requests)) \in Nat  BY <2>1, <1>2, HeldFinite
  <2> QED BY <2>2 DEF g_attrib_cancel_all, IInv, TypeOK
<1>8. UNCHANGED <<io, inbox, app, wfail>>  BY DEF g_attrib_cancel_all, link
<1> QED BY <1>5, <1>6, <1>7, <1>8 DEF IInv, TypeOK

\* Registering and unregistering handlers keeps the inductive invariant.
LEMMA RegisterStep ==
  ASSUME IInv, NEW e,
         \/ g_attrib_register(e) \/ g_attrib_unregister(e)
         \/ g_attrib_unregister_all
  PROVE  IInv'
<1>1. PICK E \in SUBSET Events : attrib' = [attrib EXCEPT !.events = E]
  <2>1. attrib.events \in SUBSET Events  BY DEF IInv, TypeOK, GAttribRecord
  <2> QED BY <2>1 DEF g_attrib_register, g_attrib_unregister, g_attrib_unregister_all
<1>2. /\ attrib' \in GAttribRecord
      /\ attrib'.requests = attrib.requests /\ attrib'.responses = attrib.responses
      /\ attrib'.timeout_watch = attrib.timeout_watch
      /\ attrib'.stale = attrib.stale
      /\ attrib'.write_watch = attrib.write_watch
  BY <1>1 DEF IInv, TypeOK, GAttribRecord
<1>3. UNCHANGED <<io, inbox, app, leaked, wfail>>
  BY DEF g_attrib_register, g_attrib_unregister, g_attrib_unregister_all, link, ghosts
<1>4. Good(attrib', wfail)
  BY <1>2 DEF IInv, Good, Sound, Heads, Timer, Wake, Drained, HSent, CanSend
<1> QED BY <1>2, <1>3, <1>4 DEF IInv, TypeOK

\* disconnect_io of the application keeps the inductive invariant.
LEMMA DisconnectStep ==
  ASSUME IInv, Disconnect
  PROVE  IInv'
<1>1. Good(attrib', wfail)  BY UnrefGood DEF IInv, TypeOK, Disconnect
<1>2. inbox' \in Seq(TagRecord) /\ io' \in {"open", "hup", "closed"}
  BY DEF Disconnect
<1>3. app' \in BOOLEAN /\ leaked' = leaked /\ wfail' = wfail  BY DEF Disconnect
<1> QED BY <1>1, <1>2, <1>3 DEF IInv, TypeOK, Good, Sound
-----------------------------------------------------------------------------
\* What is behind the head of a queue, one position further on.
LEMMA TailLemma ==
  ASSUME NEW q \in Seq(Command), q # <<>>
  PROVE  /\ Tail(q) \in Seq(Command)
         /\ FreshFrom(q, 2) => FreshFrom(Tail(q), 1)
         /\ AllResponses(q) => AllResponses(Tail(q))
<1>1. /\ Tail(q) \in Seq(Command) /\ Len(Tail(q)) = Len(q) - 1
      /\ \A i \in 1..Len(Tail(q)) : Tail(q)[i] = q[i + 1]
  BY HeadTailProperties
<1>2. PICK r \in Seq(Command) : r = Tail(q)  BY <1>1
<1>3. Len(r) = Len(q) - 1 /\ \A i \in 1..Len(r) : r[i] = q[i + 1]  BY <1>1, <1>2
<1>4. FreshFrom(q, 2) => FreshFrom(r, 1)
  <2> SUFFICES ASSUME FreshFrom(q, 2), NEW i \in 1..Len(r) PROVE Fresh(r, i)
    BY DEF FreshFrom
  <2>1. i + 1 \in 2..Len(q)  BY <1>3
  <2> QED BY <2>1, <1>3 DEF FreshFrom, Fresh
<1>5. AllResponses(q) => AllResponses(r)
  <2> SUFFICES ASSUME AllResponses(q), NEW i \in 1..Len(r)
               PROVE  ~ r[i].sent /\ is_response(r[i].opcode)
    BY DEF AllResponses
  <2>1. i + 1 \in 1..Len(q)  BY <1>3
  <2> QED BY <2>1, <1>3 DEF AllResponses
<1> QED BY <1>1, <1>2, <1>4, <1>5

\* No response awaits an answer of its own.
LEMMA ResponseExpectsNothing ==
  ASSUME NEW op, is_response(op)
  PROVE  opcode2expected(op) = "NONE"
BY DEF is_response, opcode2expected, Expected

\* What can_write_data would write counts as something to send.
LEMMA SendableLemma == Sendable => CanSend(attrib)
BY DEF Sendable, SendQueue, CanSend

\* When can_write_data finds nothing to write, nothing is left to send.
LEMMA NotSendableLemma ==
  ASSUME IInv, ~ Sendable PROVE ~ CanSend(attrib)
<1>1. CASE attrib.responses # <<>>
  <2>1. SendQueue = "responses" /\ ~ attrib.responses[1].sent
    <3>1. 1 \in 1..Len(attrib.responses)
      BY <1>1 DEF IInv, TypeOK, GAttribRecord
    <3> QED BY <1>1, <3>1 DEF SendQueue, IInv, Good, Sound, Heads, AllResponses
  <2> QED BY <1>1, <2>1 DEF Sendable
<1>2. CASE attrib.responses = <<>>
  <2>1. SendQueue = "requests"  BY <1>2 DEF SendQueue
  <2> QED BY <1>2, <2>1 DEF Sendable, CanSend
<1> QED BY <1>1, <1>2

\* can_write_data with nothing to write keeps the inductive invariant.
LEMMA WriteNothingStep ==
  ASSUME IInv, WriteNothing
  PROVE  IInv'
<1>1. Good(attrib', wfail)
  BY NotSendableLemma, DestroySenderGood DEF IInv, TypeOK, Good, WriteNothing
<1> QED BY <1>1 DEF IInv, TypeOK, Good, Sound, WriteNothing, link, ghosts

\* A failing write keeps it: the lost wake-up is recorded in wfail.
LEMMA WriteFailsStep ==
  ASSUME IInv, WriteFails
  PROVE  IInv'
<1>1. wfail' = TRUE /\ UNCHANGED <<io, inbox, app, leaked>>  BY DEF WriteFails, link
<1>2. Good(attrib', TRUE)
  BY DestroySenderGood DEF IInv, TypeOK, Good, WriteFails
<1>3. TypeOK'  BY <1>1, <1>2 DEF IInv, TypeOK, Good, Sound
<1> QED BY <1>1, <1>2, <1>3 DEF IInv

\* What the inductive invariant says about attrib.
LEMMA IInvFacts ==
  ASSUME IInv
  PROVE  /\ attrib \in GAttribRecord /\ Good(attrib, wfail) /\ wfail \in BOOLEAN
         /\ attrib.requests \in Seq(Command) /\ attrib.responses \in Seq(Command)
         /\ FreshFrom(attrib.requests, 2) /\ AllResponses(attrib.responses)
BY DEF IInv, TypeOK, GAttribRecord, Good, Sound, Heads, FreshFrom

\* Writing a command that awaits no answer keeps the inductive invariant.
LEMMA WriteCommandStep ==
  ASSUME IInv, WriteCommand
  PROVE  IInv'
<1>1. UNCHANGED <<io, inbox, app, leaked, wfail>>  BY DEF WriteCommand, link, ghosts
<1>2. Good(attrib', wfail)
  <2>1. CASE attrib.responses # <<>>
    <3> DEFINE r == Tail(attrib.responses)
    <3>1. attrib' = [attrib EXCEPT !.responses = r]
      BY <2>1 DEF WriteCommand, SendQueue
    <3>2. r \in Seq(Command) /\ AllResponses(r)  BY <2>1, IInvFacts, TailLemma
    <3> HIDE DEF r
    <3>3. /\ attrib' \in GAttribRecord
          /\ attrib'.requests = attrib.requests /\ attrib'.responses = r
          /\ attrib'.timeout_watch = attrib.timeout_watch
          /\ attrib'.stale = attrib.stale
          /\ attrib'.write_watch = attrib.write_watch
      BY <3>1, <3>2, IInvFacts DEF GAttribRecord
    <3> QED BY <2>1, <3>2, <3>3, IInvFacts, RequeueGood
  <2>2. CASE attrib.responses = <<>>
    <3> DEFINE r == Tail(attrib.requests)
    <3>1. SendQueue = "requests"  BY <2>2 DEF SendQueue
    <3>2. /\ attrib' = [attrib EXCEPT !.requests = r]
          /\ attrib.requests # <<>> /\ ~ attrib.requests[1].sent
      BY <3>1 DEF WriteCommand, Sendable
    <3>3. r \in Seq(Command) /\ FreshFrom(r, 1)  BY <3>2, IInvFacts, TailLemma
    <3> HIDE DEF r
    <3>4. /\ attrib' \in GAttribRecord
          /\ attrib'.requests = r /\ attrib'.responses = attrib.responses
          /\ attrib'.timeout_watch = attrib.timeout_watch
          /\ attrib'.stale = attrib.stale
          /\ attrib'.write_watch = attrib.write_watch
      BY <3>2, <3>3, IInvFacts DEF GAttribRecord
    <3>5. FreshFrom(r, 2)  BY <3>3 DEF FreshFrom
    <3>6. ~ QSent(r)  BY <3>3, NonEmpty DEF QSent, FreshFrom, Fresh
    <3>7. ~ QSent(attrib.requests)  BY <3>2 DEF QSent
    <3> QED BY <3>2, <3>4, <3>5, <3>6, <3>7, IInvFacts, RequeueGood
  <2> QED BY <2>1, <2>2
<1> QED BY <1>1, <1>2 DEF IInv, TypeOK, Good, Sound

\* Writing a request marks the head as sent and starts the timeout.
LEMMA WriteRequestStep ==
  ASSUME IInv, WriteRequest
  PROVE  IInv'
<1>1. UNCHANGED <<io, app, leaked, wfail>>  BY DEF WriteRequest, ghosts
\* Only requests expect an answer, so the responses are all written.
<1>2. attrib.responses = <<>> /\ SendQueue = "requests"
  <2>1. SUFFICES ASSUME attrib.responses # <<>> PROVE FALSE  BY DEF SendQueue
  <2>2. is_response(attrib.responses[1].opcode)
    BY <2>1, IInvFacts, NonEmpty DEF AllResponses
  <2>3. SendQueue = "responses"  BY <2>1 DEF SendQueue
  <2> QED BY <2>2, <2>3, ResponseExpectsNothing DEF WriteRequest
<1>3. attrib.requests # <<>> /\ ~ attrib.requests[1].sent /\ ~ attrib.stale
  BY <1>2 DEF WriteRequest, Sendable
<1>4. 1 \in 1..Len(attrib.requests) /\ attrib.requests[1] \in Command
  BY <1>3, IInvFacts, NonEmpty
<1> DEFINE c == [attrib.requests[1] EXCEPT !.sent = TRUE]
           r == [attrib.requests EXCEPT ![1] = c]
           b == [arm_timeout(attrib) EXCEPT !.requests = r]
<1>5. attrib' = destroy_sender(b)
  BY <1>2 DEF WriteRequest, arm_timeout
<1>6. c \in Command /\ c.sent  BY <1>4 DEF Command
<1> HIDE DEF c
<1>7. /\ r \in Seq(Command) /\ Len(r) = Len(attrib.requests)
      /\ \A j \in 1..Len(attrib.requests) :
           r[j] = IF j = 1 THEN c ELSE attrib.requests[j]
  BY <1>4, <1>6, IInvFacts, ExceptSeq
<1> HIDE DEF r
<1>8. r[1] = c /\ r # <<>> /\ FreshFrom(r, 2)
  <2>1. r[1] = c  BY <1>4, <1>7
  <2>2. r # <<>>  BY <1>4, <1>7, NonEmpty
  <2>3. FreshFrom(r, 2)  BY <1>7, IInvFacts DEF FreshFrom, Fresh
  <2> QED BY <2>1, <2>2, <2>3
<1>9. /\ b \in GAttribRecord /\ b.requests = r /\ b.responses = attrib.responses
      /\ b.stale = attrib.stale
      /\ b.timeout_watch = IF attrib.timeout_watch = "none" THEN "armed"
                           ELSE attrib.timeout_watch
  BY <1>7, IInvFacts DEF arm_timeout, GAttribRecord, WatchId
<1> HIDE DEF b
<1>10. b.timeout_watch = "armed"
  \* A dangling identifier is left by disconnect_timeout only.
  BY <1>9, <1>3, IInvFacts DEF GAttribRecord, WatchId, Good, Sound, Timer, HSent
<1>11. Sound(b)
  BY <1>3, <1>6, <1>8, <1>9, <1>10, IInvFacts
     DEF Sound, Heads, Timer, Drained, HSent, FreshFrom
<1>12. ~ CanSend(b)  BY <1>2, <1>6, <1>8, <1>9 DEF CanSend
<1>13. Good(attrib', wfail)  BY <1>5, <1>11, <1>12, IInvFacts, DestroySenderGood
<1>14. inbox' \in Seq(TagRecord)
  BY <1>2, <1>4 DEF WriteRequest, IInv, TypeOK, Tag, TagRecord, Command
<1> QED BY <1>1, <1>13, <1>14 DEF IInv, TypeOK, Good, Sound
-----------------------------------------------------------------------------
\* Losing the read watch keeps the inductive invariant.
LEMMA ReceiveEndStep ==
  ASSUME IInv, ReceiveStale \/ ReceiveHup
  PROVE  IInv'
<1>1. PICK x \in WatchId : attrib' = [attrib EXCEPT !.read_watch = x]
  BY DEF ReceiveStale, ReceiveHup, WatchId
<1>2. /\ attrib' \in GAttribRecord
      /\ attrib'.requests = attrib.requests /\ attrib'.responses = attrib.responses
      /\ attrib'.timeout_watch = attrib.timeout_watch
      /\ attrib'.stale = attrib.stale
      /\ attrib'.write_watch = attrib.write_watch
  BY <1>1, IInvFacts DEF GAttribRecord
<1>3. UNCHANGED <<io, inbox, app, leaked, wfail>>
  BY DEF ReceiveStale, ReceiveHup, link, ghosts
<1>4. Good(attrib', wfail)
  BY <1>2 DEF IInv, Good, Sound, Heads, Timer, Wake, Drained, HSent, CanSend
<1> QED BY <1>2, <1>3, <1>4 DEF IInv, TypeOK

\* Waking the sender whenever something is queued restores the wake-up
\* condition, whatever it was before.
LEMMA WakeIfQueuedGood ==
  ASSUME NEW a, NEW w \in BOOLEAN, Sound(a)
  PROVE  /\ Good(wake_if_queued(a), w)
         /\ wake_if_queued(a).requests = a.requests
<1>1. CASE a.requests # <<>> \/ a.responses # <<>>
  <2>1. wake_if_queued(a) = wake_up_sender(a)  BY <1>1 DEF wake_if_queued
  <2>2. a \in GAttribRecord  BY DEF Sound
  <2> QED BY <2>1, <2>2, WakeGood, WakeType
<1>2. CASE ~ (a.requests # <<>> \/ a.responses # <<>>)
  <2>1. wake_if_queued(a) = a  BY <1>2 DEF wake_if_queued
  <2> QED BY <1>2, <2>1 DEF Good, Wake, CanSend
<1> QED BY <1>1, <1>2

\* A failing read keeps the inductive invariant.
LEMMA ReadFailsStep ==
  ASSUME IInv, ReadFails
  PROVE  IInv'
<1>1. Good(attrib', wfail)
  BY IInvFacts, WakeIfQueuedGood DEF ReadFails, Good
<1> QED BY <1>1 DEF IInv, TypeOK, Good, Sound, ReadFails, link, ghosts

\* Handling an event, with the confirmation it may queue, keeps it.
LEMMA ReceiveEventStep ==
  ASSUME IInv, ReceiveEvent
  PROVE  IInv'
<1>1. Good(attrib', wfail)
  <2>1. CASE attrib' = attrib  BY <2>1, IInvFacts
  <2>2. CASE attrib' = g_attrib_send(attrib, 0, 0, "HANDLE_CNF", FALSE, FALSE)
    <3> DEFINE op == "HANDLE_CNF"
    <3>1. op \in Opcode  BY DEF Opcode
    <3> HIDE DEF op
    <3>2. Good(g_attrib_send(attrib, 0, 0, op, FALSE, FALSE), wfail)
      BY <3>1, IInvFacts, SendGood
    <3> QED BY <2>2, <3>2 DEF op
  <2> QED BY <2>1, <2>2 DEF ReceiveEvent
<1> QED BY <1>1 DEF IInv, TypeOK, Good, Sound, ReceiveEvent, ghosts

\* stop_timeout clears the identifier of the timeout and nothing else.
LEMMA StopTimeoutLemma ==
  ASSUME NEW a \in GAttribRecord
  PROVE  LET b == stop_timeout(a)
         IN  /\ b \in GAttribRecord
             /\ b.requests = a.requests /\ b.responses = a.responses
             /\ b.stale = a.stale /\ b.write_watch = a.write_watch
             /\ b.read_watch = a.read_watch
             /\ b.timeout_watch = "none"
<1>1. CASE a.timeout_watch = "none"  BY <1>1 DEF stop_timeout
<1>2. CASE a.timeout_watch # "none"
  BY <1>2 DEF stop_timeout, GAttribRecord, WatchId
<1> QED BY <1>1, <1>2

\* A response nobody waits for keeps the inductive invariant.
LEMMA ReceiveUnexpectedStep ==
  ASSUME IInv, ReceiveUnexpected
  PROVE  IInv'
<1> DEFINE a == stop_timeout(attrib)
<1>1. /\ a \in GAttribRecord
      /\ a.requests = attrib.requests /\ a.responses = attrib.responses
      /\ a.stale = attrib.stale /\ a.write_watch = attrib.write_watch
      /\ a.timeout_watch = "none"
  BY IInvFacts, StopTimeoutLemma
<1> HIDE DEF a
<1>2. PICK x \in WatchId : attrib' = [a EXCEPT !.read_watch = x]
  BY <1>1 DEF ReceiveUnexpected, a, WatchId, GAttribRecord
<1>3. /\ attrib' \in GAttribRecord
      /\ attrib'.requests = a.requests /\ attrib'.responses = a.responses
      /\ attrib'.timeout_watch = a.timeout_watch
      /\ attrib'.stale = a.stale
      /\ attrib'.write_watch = a.write_watch
  BY <1>1, <1>2 DEF GAttribRecord
<1>4. attrib.requests = <<>>  BY DEF ReceiveUnexpected
<1>5. Good(attrib', wfail)
  BY <1>1, <1>3, <1>4, IInvFacts
     DEF Good, Sound, Heads, Timer, Wake, Drained, HSent, CanSend
<1> QED BY <1>3, <1>5 DEF IInv, TypeOK, ReceiveUnexpected, ghosts

\* A response that completes the head, with its callback, keeps it.
LEMMA ReceiveResponseStep ==
  ASSUME IInv, ReceiveResponse
  PROVE  IInv'
<1> DEFINE c  == attrib.requests[1]
           ok == rx[1].op = opcode2expected(c.opcode)
           s  == stop_timeout(attrib)
           q  == Tail(attrib.requests)
           a  == [s EXCEPT !.requests = q]
<1>1. attrib.requests # <<>> /\ ~ attrib.stale
  BY DEF ReceiveResponse, Receiving
<1>2. c \in Command  BY <1>1, IInvFacts, NonEmpty
<1>3. q \in Seq(Command) /\ FreshFrom(q, 1)  BY <1>1, IInvFacts, TailLemma
<1>4. /\ s \in GAttribRecord
      /\ s.requests = attrib.requests /\ s.responses = attrib.responses
      /\ s.stale = attrib.stale /\ s.write_watch = attrib.write_watch
      /\ s.timeout_watch = "none"
  BY IInvFacts, StopTimeoutLemma
<1>5. PICK r \in Reactions(c, ok) : attrib' = run_callback(wake_if_queued(a), c, r)
  BY <1>4 DEF ReceiveResponse
<1>6. ok \in BOOLEAN  OBVIOUS
<1> HIDE DEF c, ok, s, q
<1>7. /\ a \in GAttribRecord
      /\ a.requests = q /\ a.responses = attrib.responses
      /\ a.stale = attrib.stale
      /\ a.timeout_watch = "none"
  BY <1>3, <1>4 DEF GAttribRecord
<1> HIDE DEF a
<1>8. ~ HSent(a)  BY <1>3, <1>7, NonEmpty DEF HSent, FreshFrom, Fresh
<1>9. Sound(a)
  BY <1>1, <1>3, <1>7, <1>8, IInvFacts DEF Sound, Heads, Timer, Drained, FreshFrom
<1>10. /\ Good(wake_if_queued(a), wfail)
       /\ \A i \in 1..Len(wake_if_queued(a).requests) :
            Fresh(wake_if_queued(a).requests, i)
  BY <1>3, <1>7, <1>9, IInvFacts, WakeIfQueuedGood DEF FreshFrom
<1>11. Good(attrib', wfail)
  BY <1>2, <1>5, <1>6, <1>10, IInvFacts, CallbackGood
<1> QED BY <1>11 DEF IInv, TypeOK, Good, Sound, ReceiveResponse, ghosts
-----------------------------------------------------------------------------
\* disconnect_timeout keeps the inductive invariant and leaves a stale bearer.
LEMMA TimeoutStep ==
  ASSUME IInv, disconnect_timeout
  PROVE  IInv' /\ attrib'.stale
<1>1. PICK again \in SUBSET {i \in DOMAIN attrib.requests : attrib.requests[i].func} :
        attrib' = g_attrib_unref(
            [Drain(g_attrib_ref(attrib), again) EXCEPT
                !.stale = TRUE, !.timeout_watch = "dangling"])
  BY DEF disconnect_timeout
<1> DEFINE a == g_attrib_ref(attrib)
           h == Cardinality(held(a.requests))
           n == Cardinality(again)
           b == [a EXCEPT !.refs = @ - h, !.requests = <<>>, !.next_cmd_id = @ + n]
           d == Drain(a, again)
           e == [d EXCEPT !.stale = TRUE, !.timeout_watch = "dangling"]
<1>2. a \in GAttribRecord /\ a.requests = attrib.requests
      /\ a.responses = attrib.responses
  BY IInvFacts, RefType
<1>3. h \in Nat /\ n \in Nat
  <2>1. again \in SUBSET DOMAIN attrib.requests  OBVIOUS
  <2>2. held(a.requests) \in SUBSET DOMAIN attrib.requests  BY <1>2 DEF held
  <2> QED BY <2>1, <2>2, IInvFacts, HeldFinite
<1>4. d = IF again = {Len(a.requests)} THEN wake_up_sender(b) ELSE b
  BY DEF Drain
<1> HIDE DEF a, h, n, d
<1>5. /\ b \in CountedRecord /\ b.requests = <<>>
      /\ b.responses = attrib.responses
  <2>1. <<>> \in Seq(Command)  OBVIOUS
  <2> DEFINE x == a.refs - h
             y == a.next_cmd_id + n
  <2>2. a \in CountedRecord  BY <1>2, CountedLemma
  <2>3. x \in Int /\ y \in Nat  BY <1>2, <1>3 DEF GAttribRecord
  <2>4. b = [a EXCEPT !.refs = x, !.requests = <<>>, !.next_cmd_id = y]
    OBVIOUS
  <2> HIDE DEF b, x, y
  <2> QED BY <1>2, <2>1, <2>2, <2>3, <2>4 DEF CountedRecord
<1> HIDE DEF b
<1>6. /\ d \in CountedRecord /\ d.requests = <<>>
      /\ d.responses = attrib.responses
  <2>1. CASE d = b  BY <1>5, <2>1
  <2>2. CASE d = [g_attrib_ref(b) EXCEPT !.write_watch = TRUE]
    <3>1. /\ g_attrib_ref(b) \in CountedRecord
          /\ g_attrib_ref(b).requests = <<>>
          /\ g_attrib_ref(b).responses = attrib.responses
      BY <1>5 DEF g_attrib_ref, CountedRecord
    <3> QED BY <2>2, <3>1 DEF CountedRecord
  <2> QED BY <1>4, <2>1, <2>2 DEF wake_up_sender
<1>7. /\ e \in CountedRecord /\ e.requests = <<>>
      /\ e.responses = attrib.responses
  BY <1>6 DEF CountedRecord, WatchId
<1>8. e.stale  BY <1>6 DEF CountedRecord
<1>9. attrib' = g_attrib_unref(e)  BY <1>1 DEF a, d
<1> HIDE DEF e
<1>10. /\ attrib' \in GAttribRecord /\ attrib'.stale
       /\ attrib'.requests = <<>>
       /\ attrib'.responses = attrib.responses \/ attrib'.responses = <<>>
  BY <1>7, <1>8, <1>9, UnrefType
<1>11. AllResponses(attrib'.responses)
  BY <1>10, IInvFacts DEF AllResponses
<1>12. Good(attrib', wfail)
  BY <1>10, <1>11 DEF Good, Sound, Heads, Timer, Wake, Drained
<1> QED BY <1>10, <1>12 DEF IInv, TypeOK, disconnect_timeout, link, ghosts

\* Steps of the peer and the link do not touch the bearer.
LEMMA PeerStep ==
  ASSUME IInv, Peer
  PROVE  IInv'
<1>1. UNCHANGED <<attrib, app, leaked, wfail>>
  BY DEF Peer, PeerReply, PeerPush, PeerStray, Hup, ghosts
<1>2. inbox' \in Seq(TagRecord) /\ io' \in {"open", "hup", "closed"}
  <2>1. CASE PeerReply
    BY <2>1, HeadTailProperties DEF PeerReply, IInv, TypeOK
  <2>2. CASE Hup  BY <2>2 DEF Hup
  <2>3. CASE UNCHANGED <<inbox, io>>  BY <2>3 DEF IInv, TypeOK
  <2> QED BY <2>1, <2>2, <2>3 DEF Peer, PeerPush, PeerStray
<1> QED BY <1>1, <1>2 DEF IInv, TypeOK, Good, Sound, Heads, Timer, Wake,
           Drained, HSent, CanSend
-----------------------------------------------------------------------------
\* Every step keeps the inductive invariant.
LEMMA NextInv ==
  ASSUME IInv, [Next]_vars
  PROVE  IInv'
<1>1. CASE Application
  BY <1>1, SendStep, CancelStep, CancelAllStep, RegisterStep, DisconnectStep
     DEF Application
<1>2. CASE can_write_data
  BY <1>2, WriteNothingStep, WriteFailsStep, WriteCommandStep, WriteRequestStep
     DEF can_write_data
<1>3. CASE received_data
  BY <1>3, ReceiveEndStep, ReadFailsStep, ReceiveEventStep, ReceiveUnexpectedStep,
     ReceiveResponseStep DEF received_data
<1>4. CASE disconnect_timeout  BY <1>4, TimeoutStep
<1>5. CASE Peer  BY <1>5, PeerStep
<1>6. CASE UNCHANGED vars
  BY <1>6 DEF vars, IInv, TypeOK, Good, Sound, Heads, Timer, Wake,
           Drained, HSent, CanSend
<1> QED BY <1>1, <1>2, <1>3, <1>4, <1>5, <1>6 DEF Next, MainLoop

\* The inductive invariant implies the invariants that the runs check.
LEMMA InvImplies ==
  IInv => /\ TypeOK /\ OnlyHeadSent /\ TimerFollowsRequest /\ NoLostWakeup
          /\ StaleDrained /\ LongReadFirst
<1> SUFFICES ASSUME IInv
             PROVE  /\ TypeOK /\ OnlyHeadSent /\ TimerFollowsRequest /\ NoLostWakeup
                    /\ StaleDrained /\ LongReadFirst
  OBVIOUS
<1>1. TypeOK  BY DEF IInv
<1>2. OnlyHeadSent
  BY DEF IInv, Good, Sound, Heads, Fresh, AllResponses, OnlyHeadSent
<1>3. TimerFollowsRequest
  BY DEF IInv, Good, Sound, Timer, HSent, TimerFollowsRequest, HeadSent
<1>4. NoLostWakeup
  BY SendableLemma DEF IInv, Good, Wake, NoLostWakeup
<1>5. StaleDrained  BY DEF IInv, Good, Sound, Drained, StaleDrained
<1>6. LongReadFirst
  <2> SUFFICES ASSUME NEW i \in DOMAIN attrib.requests, attrib.requests[i].part > 0
               PROVE  i = 1
    BY DEF LongReadFirst
  <2>1. i \in 1..Len(attrib.requests)  BY IInvFacts
  <2> QED BY <2>1, IInvFacts DEF FreshFrom, Fresh
<1> QED BY <1>1, <1>2, <1>3, <1>4, <1>5, <1>6

(***************************************************************************)
(* The theorems.                                                           *)
(***************************************************************************)
\* IInv is an invariant of the specification.
THEOREM InductiveInvariant == Spec => []IInv
<1>1. Init => IInv  BY InitInv
<1>2. IInv /\ [Next]_vars => IInv'  BY NextInv
<1> QED BY <1>1, <1>2, PTL DEF Spec

\* The bearer's state is well typed in every reachable state.
THEOREM TypeCorrect == Spec => []TypeOK
BY InductiveInvariant, InvImplies, PTL

\* Never more than one request on the air, with any peer and any failures.
THEOREM AtMostOneRequestSent == Spec => []OnlyHeadSent
BY InductiveInvariant, InvImplies, PTL

\* The request timeout runs exactly while a request is on the air.
THEOREM TimeoutIsExact == Spec => []TimerFollowsRequest
BY InductiveInvariant, InvImplies, PTL

\* While no write fails, what can be written has a write watch.
THEOREM SenderIsAwake == Spec => []NoLostWakeup
BY InductiveInvariant, InvImplies, PTL

\* A bearer that timed out keeps no request.
THEOREM TimeoutDrainsAll == Spec => []StaleDrained
BY InductiveInvariant, InvImplies, PTL

\* A long read is never interleaved with another request.
THEOREM LongReadIsContiguous == Spec => []LongReadFirst
BY InductiveInvariant, InvImplies, PTL

-----------------------------------------------------------------------------
(***************************************************************************)
(* Identifiers and references: the identifiers of the queued commands, the *)
(* callbacks of the cancelled ones, and the reference count.               *)
(***************************************************************************)
\* The identifiers in a queue are distinct, differ from those of another
\* queue, and were handed out.
NoDup(q) == \A i, j \in DOMAIN q : q[i].id = q[j].id => i = j
Apart(q, r) == \A i \in DOMAIN q, j \in DOMAIN r : q[i].id # r[j].id
Upto(q, n) == \A i \in DOMAIN q : q[i].id <= n

\* Whoever owns a reference is a discovery procedure, with a callback to drop
\* it; a callback is that of a request, which expects an answer, and not one
\* of a cancelled command (K: their identifiers).
Wanted(q, K) ==
  \A i \in DOMAIN q : /\ q[i].hold => q[i].func /\ Discovers(q[i].opcode)
                      /\ q[i].func => /\ q[i].id \notin K
                                      /\ opcode2expected(q[i].opcode) # "NONE"

Ids(a, K) ==
  /\ NoDup(a.requests) /\ NoDup(a.responses) /\ Apart(a.requests, a.responses)
  /\ Upto(a.requests, a.next_cmd_id) /\ Upto(a.responses, a.next_cmd_id)
  /\ Wanted(a.requests, K)
  /\ \A i \in DOMAIN a.responses : ~ a.responses[i].hold
  /\ \A k \in K : k \in Nat /\ k <= a.next_cmd_id

\* The references that are neither the write watch's nor a queued procedure's.
Excess(a) ==
  a.refs - (IF a.write_watch THEN 1 ELSE 0) - Cardinality(held(a.requests))

One(b) == IF b THEN 1 ELSE 0

\* The inductive invariant: with IInv, the identifiers are in
\* order and the remaining references are the application's and the leaked.
OInv == /\ IInv /\ Ids(attrib, cancelled) /\ CancelledNotCalled
        /\ Excess(attrib) = One(app) + leaked
-----------------------------------------------------------------------------
(***************************************************************************)
(* What the functions of gattrib.c do to the fields.                       *)
(***************************************************************************)
Keeps(b, a) ==
  /\ b.requests = a.requests /\ b.responses = a.responses
  /\ b.next_cmd_id = a.next_cmd_id /\ b.stale = a.stale /\ b.read_watch = a.read_watch

Freed(b, a) ==
  /\ b.requests = <<>> /\ b.responses = <<>> /\ b.refs = 0 /\ ~ b.write_watch
  /\ b.next_cmd_id = a.next_cmd_id /\ b.stale = a.stale /\ b.read_watch = "none"

\* g_attrib_ref counts one more.
LEMMA RefEffect ==
  ASSUME NEW a \in CountedRecord
  PROVE  LET b == g_attrib_ref(a)
         IN  /\ b \in CountedRecord /\ Keeps(b, a)
             /\ b.refs = a.refs + 1 /\ b.write_watch = a.write_watch
BY DEF g_attrib_ref, CountedRecord, Keeps

\* g_attrib_unref counts one less, or frees everything.
LEMMA UnrefEffect ==
  ASSUME NEW a \in CountedRecord
  PROVE  LET b == g_attrib_unref(a)
         IN  IF a.refs > 1
             THEN Keeps(b, a) /\ b.refs = a.refs - 1 /\ b.write_watch = a.write_watch
             ELSE Freed(b, a)
<1>1. CASE a.refs > 1
  BY <1>1 DEF g_attrib_unref, CountedRecord, Keeps
<1>2. CASE ~ a.refs > 1
  <2> DEFINE b == attrib_destroy(a)
  <2>1. g_attrib_unref(a) = b BY <1>2 DEF g_attrib_unref
  <2>2. /\ b.requests = <<>> /\ b.responses = <<>> /\ b.refs = 0 /\ b.read_watch = "none"
        /\ b.next_cmd_id = a.next_cmd_id /\ b.stale = a.stale
    BY DEF attrib_destroy, CountedRecord
  <2>3. ~ b.write_watch BY DEF attrib_destroy, CountedRecord
  <2> HIDE DEF b
  <2> QED BY <1>2, <2>1, <2>2, <2>3 DEF Freed
<1> QED BY <1>1, <1>2

\* wake_up_sender takes the reference of the write watch it adds.
LEMMA WakeEffect ==
  ASSUME NEW a \in CountedRecord
  PROVE  LET b == wake_up_sender(a)
         IN  /\ b \in CountedRecord /\ Keeps(b, a) /\ b.write_watch
             /\ b.refs = a.refs + 1 - One(a.write_watch)
<1>1. a.refs \in Int BY DEF CountedRecord
<1>2. CASE a.write_watch
  <2>1. wake_up_sender(a) = a BY <1>2 DEF wake_up_sender
  <2> QED BY <1>1, <1>2, <2>1 DEF Keeps, One
<1>3. CASE ~ a.write_watch
  <2> DEFINE b == [g_attrib_ref(a) EXCEPT !.write_watch = TRUE]
  <2>1. wake_up_sender(a) = b BY <1>3 DEF wake_up_sender
  <2>2. b \in CountedRecord /\ Keeps(b, a) /\ b.refs = a.refs + 1
    BY RefEffect DEF CountedRecord, Keeps
  <2>3. b.write_watch BY RefEffect DEF CountedRecord
  <2> HIDE DEF b
  <2> QED BY <1>1, <1>3, <2>1, <2>2, <2>3 DEF One
<1> QED BY <1>2, <1>3

\* The command that g_attrib_send queues.
NewCommand(a, id, part, op, func, hold) ==
  [id |-> new_id(a, id), part |-> part, opcode |-> op,
   sent |-> FALSE, func |-> func, hold |-> hold]

\* g_attrib_send queues one command, and may wake the sender.
LEMMA SendEffect ==
  ASSUME NEW a \in GAttribRecord, ~ a.stale,
         NEW id \in Nat, NEW part \in Nat, NEW op \in Opcode,
         NEW func \in BOOLEAN, NEW hold \in BOOLEAN
  PROVE  LET b == g_attrib_send(a, id, part, op, func, hold)
             c == NewCommand(a, id, part, op, func, hold)
         IN  /\ c \in Command /\ b \in GAttribRecord
             /\ b.next_cmd_id = IF id # 0 THEN a.next_cmd_id ELSE a.next_cmd_id + 1
             /\ b.stale = a.stale /\ b.read_watch = a.read_watch
             /\ b.responses = IF is_response(op) THEN Append(a.responses, c) ELSE a.responses
             /\ b.requests = IF is_response(op) THEN a.requests
                             ELSE enqueue(a.requests, c, id # 0)
             /\ b.refs - One(b.write_watch) = a.refs - One(a.write_watch)
<1> DEFINE c == NewCommand(a, id, part, op, func, hold)
           rs == IF is_response(op) THEN Append(a.responses, c) ELSE a.responses
           rq == IF is_response(op) THEN a.requests ELSE enqueue(a.requests, c, id # 0)
           n == IF id # 0 THEN a.next_cmd_id ELSE a.next_cmd_id + 1
           b == [a EXCEPT !.next_cmd_id = n, !.responses = rs, !.requests = rq]
           s == g_attrib_send(a, id, part, op, func, hold)
<1>1. /\ a.requests \in Seq(Command) /\ a.responses \in Seq(Command)
      /\ a.next_cmd_id \in Nat /\ a.refs \in Nat /\ a.write_watch \in BOOLEAN
  BY DEF GAttribRecord
<1>2. c \in Command BY <1>1 DEF Command, new_id, NewCommand
<1>3. n \in Nat BY <1>1
<1>4. \/ s = b \/ s = wake_up_sender(b)
  BY DEF g_attrib_send, NewCommand
<1> HIDE DEF c, n
<1>5. rs \in Seq(Command) /\ rq \in Seq(Command)
  <2>1. <<c>> \o a.requests \in Seq(Command) BY <1>1, <1>2
  <2> QED BY <1>1, <1>2, <2>1 DEF enqueue
<1> HIDE DEF rs, rq
<1>6. /\ b \in GAttribRecord /\ b.next_cmd_id = n /\ b.responses = rs /\ b.requests = rq
      /\ b.stale = a.stale /\ b.read_watch = a.read_watch /\ b.refs = a.refs
      /\ b.write_watch = a.write_watch
  BY <1>3, <1>5 DEF GAttribRecord
<1> HIDE DEF b, s
<1>7. CASE s = b BY <1>2, <1>6, <1>7 DEF c, n, rs, rq, s
<1>8. CASE s = wake_up_sender(b)
  <2>1. /\ Keeps(s, b) /\ s.write_watch /\ s.refs = b.refs + 1 - One(b.write_watch)
        /\ s \in GAttribRecord
    BY <1>6, <1>8, WakeEffect, WakeType, CountedLemma
  <2>2. s.refs - One(s.write_watch) = a.refs - One(a.write_watch)
    BY <1>1, <1>6, <2>1 DEF One
  <2> QED BY <1>2, <1>6, <2>1, <2>2 DEF Keeps, c, n, rs, rq, s
<1> QED BY <1>4, <1>7, <1>8
-----------------------------------------------------------------------------
(***************************************************************************)
(* Counting the procedures that hold a reference.                          *)
(***************************************************************************)
\* r is q without its element i.
Without(r, q, i) ==
  /\ Len(r) = Len(q) - 1
  /\ \A j \in 1..Len(q) - 1 : r[j] = IF j < i THEN q[j] ELSE q[j + 1]

Held(q) == Cardinality(held(q))

\* The positions that hold a reference are finitely many.
LEMMA HeldNat ==
  ASSUME NEW q \in Seq(Command)
  PROVE  held(q) \subseteq 1..Len(q) /\ IsFiniteSet(held(q)) /\ Held(q) \in Nat
<1>1. held(q) \in SUBSET DOMAIN q /\ DOMAIN q = 1..Len(q) BY DEF held
<1> QED BY <1>1, HeldFinite DEF Held

\* Nobody in an empty queue holds one.
LEMMA HeldEmpty == Held(<<>>) = 0
BY FS_EmptySet DEF Held, held

\* Without an element, one less if that one held a reference.
LEMMA HeldWithout ==
  ASSUME NEW q \in Seq(Command), NEW i \in 1..Len(q), NEW r \in Seq(Command), Without(r, q, i)
  PROVE  Held(r) = Held(q) - One(q[i].hold)
<1>1. /\ IsFiniteSet(held(q)) /\ held(q) \subseteq 1..Len(q) /\ Held(q) \in Nat
      /\ held(r) \subseteq 1..Len(r) /\ IsFiniteSet(held(r))
  BY HeldNat
<1>2. q[i].hold \in BOOLEAN /\ (i \in held(q) <=> q[i].hold)
  <2>1. q[i] \in Command OBVIOUS
  <2>2. q[i].hold \in BOOLEAN BY <2>1 DEF Command
  <2> QED BY <2>2 DEF held
<1> DEFINE T == held(q) \ {i}
<1>3. IsFiniteSet(T) /\ Cardinality(T) = IF i \in held(q) THEN Held(q) - 1 ELSE Held(q)
  BY <1>1, FS_RemoveElement DEF Held
<1> DEFINE f == [j \in held(r) |-> IF j < i THEN j ELSE j + 1]
<1>4. DOMAIN q = 1..Len(q) /\ DOMAIN r = 1..Len(r) /\ Len(q) \in Nat /\ Len(r) \in Nat
  OBVIOUS
<1>5. f \in [held(r) -> T]
  <2> SUFFICES ASSUME NEW j \in held(r) PROVE (IF j < i THEN j ELSE j + 1) \in T OBVIOUS
  <2>1. j \in 1..Len(r) /\ r[j].hold BY <1>1 DEF held
  <2>2. j \in 1..Len(q) - 1 BY <2>1 DEF Without
  <2>3. CASE j < i BY <1>4, <2>1, <2>2, <2>3 DEF Without, held
  <2>4. CASE ~ j < i
    <3>1. j + 1 \in 1..Len(q) /\ j + 1 # i BY <2>2, <2>4
    <3>2. q[j + 1].hold BY <2>1, <2>2, <2>4 DEF Without
    <3> QED BY <1>4, <2>4, <3>1, <3>2 DEF held
  <2> QED BY <2>3, <2>4
<1>6. \A j, k \in held(r) : f[j] = f[k] => j = k BY <1>1
<1>7. ASSUME NEW k \in T PROVE \E j \in held(r) : f[j] = k
  <2>1. k \in 1..Len(q) /\ k # i /\ q[k].hold BY <1>1, <1>7 DEF held
  <2>2. CASE k < i
    <3>1. k \in 1..Len(q) - 1 /\ k \in 1..Len(r) BY <2>1, <2>2 DEF Without
    <3>2. k \in held(r) BY <1>4, <2>1, <2>2, <3>1 DEF Without, held
    <3> QED BY <2>2, <3>2
  <2>3. CASE ~ k < i
    <3>1. k - 1 \in 1..Len(q) - 1 /\ k - 1 \in 1..Len(r) /\ ~ k - 1 < i /\ (k - 1) + 1 = k
      BY <2>1, <2>3 DEF Without
    <3>2. r[k - 1] = q[k] BY <3>1 DEF Without
    <3>3. k - 1 \in held(r) BY <1>4, <2>1, <3>1, <3>2 DEF held
    <3> QED BY <3>1, <3>3
  <2> QED BY <2>2, <2>3
<1> HIDE DEF f, T
<1>8. ExistsBijection(held(r), T)
  <2>1. DOMAIN f = held(r) BY <1>5
  <2>2. f \in Injection(held(r), T) BY <1>5, <1>6, <2>1 DEF Injection, IsInjective
  <2>3. f \in Surjection(held(r), T) BY <1>5, <1>7 DEF Surjection
  <2> QED BY <2>2, <2>3 DEF ExistsBijection, Bijection
<1>9. Cardinality(T) = Held(r) BY <1>1, <1>8, FS_Bijection DEF Held
<1> QED BY <1>1, <1>2, <1>3, <1>9 DEF One

\* A queue, and what it becomes when the head is taken, as instances of this.
LEMMA TailWithout ==
  ASSUME NEW q \in Seq(Command), q # <<>>
  PROVE  1 \in 1..Len(q) /\ Tail(q) \in Seq(Command) /\ Without(Tail(q), q, 1)
<1>1. 1 \in 1..Len(q) BY NonEmpty
<1>2. /\ Tail(q) \in Seq(Command) /\ Len(Tail(q)) = Len(q) - 1
      /\ \A i \in 1..Len(Tail(q)) : Tail(q)[i] = q[i + 1]
  BY HeadTailProperties
<1>3. PICK r \in Seq(Command) : r = Tail(q) BY <1>2
<1>4. Len(r) = Len(q) - 1 /\ \A i \in 1..Len(r) : r[i] = q[i + 1] BY <1>2, <1>3
<1>5. Without(r, q, 1) BY <1>4 DEF Without
<1> QED BY <1>1, <1>2, <1>3, <1>5

\* Behind the head of r are the elements of q.
LEMMA WithoutHead ==
  ASSUME NEW q \in Seq(Command), NEW r \in Seq(Command), Without(q, r, 1)
  PROVE  \A i \in DOMAIN r : i # 1 => i - 1 \in DOMAIN q /\ r[i] = q[i - 1]
<1> SUFFICES ASSUME NEW i \in DOMAIN r, i # 1 PROVE i - 1 \in DOMAIN q /\ r[i] = q[i - 1]
  OBVIOUS
<1>1. i \in 1..Len(r) /\ Len(q) = Len(r) - 1 /\ DOMAIN q = 1..Len(q) /\ Len(r) \in Nat
  BY DEF Without
<1>2. i - 1 \in 1..Len(r) - 1 /\ (i - 1) + 1 = i /\ ~ i - 1 < 1 BY <1>1
<1>3. q[i - 1] = r[(i - 1) + 1] BY <1>2 DEF Without
<1> QED BY <1>1, <1>2, <1>3

\* Putting a command at the head of a queue.
LEMMA HeadWithout ==
  ASSUME NEW q \in Seq(Command), NEW c \in Command
  PROVE  /\ <<c>> \o q \in Seq(Command) /\ Len(<<c>> \o q) = Len(q) + 1
         /\ (<<c>> \o q)[1] = c /\ Without(q, <<c>> \o q, 1)
<1>0. <<c>> \in Seq(Command) /\ Len(<<c>>) = 1 /\ <<c>>[1] = c OBVIOUS
<1>1. PICK r \in Seq(Command) : r = <<c>> \o q BY <1>0, ConcatProperties
<1>2. Len(r) = Len(q) + 1 /\ r[1] = c /\ \A j \in 1..Len(q) : r[j + 1] = q[j]
  BY <1>0, <1>1, ConcatProperties
<1>3. Without(q, r, 1) BY <1>2 DEF Without
<1> QED BY <1>1, <1>2, <1>3

\* A queue with a command at its end: the old ones keep their places.
LEMMA AppendShape ==
  ASSUME NEW q \in Seq(Command), NEW c \in Command
  PROVE  LET r == Append(q, c)
             n == Len(q) + 1
         IN  /\ r \in Seq(Command) /\ DOMAIN r = 1..n /\ r[n] = c
             /\ \A i \in DOMAIN q : r[i] = q[i]
             /\ \A i \in DOMAIN r : i \in DOMAIN q \/ i = n
<1>1. PICK r \in Seq(Command) : r = Append(q, c) BY AppendProperties
<1>2. Len(q) \in Nat /\ DOMAIN q = 1..Len(q) BY LenProperties
<1>3. Len(r) = Len(q) + 1 /\ r[Len(q) + 1] = c BY <1>1, AppendProperties
<1>4. \A i \in 1..Len(q) : r[i] = q[i] BY <1>1, AppendProperties
<1>5. DOMAIN r = 1..Len(q) + 1 BY <1>1, <1>3, LenProperties
<1>6. \A i \in 1..Len(q) + 1 : i \in 1..Len(q) \/ i = Len(q) + 1 BY <1>2
<1> QED BY ONLY <1>1, <1>2, <1>3, <1>4, <1>5, <1>6

\* A queue with a command more.
LEMMA HeldEnqueue ==
  ASSUME NEW q \in Seq(Command), NEW c \in Command, NEW atHead \in BOOLEAN
  PROVE  /\ enqueue(q, c, atHead) \in Seq(Command)
         /\ Held(enqueue(q, c, atHead)) = Held(q) + One(c.hold)
<1>0. Held(q) \in Nat /\ c.hold \in BOOLEAN BY HeldNat DEF Command
<1>1. CASE atHead
  <2>1. PICK r \in Seq(Command) : r = <<c>> \o q BY HeadWithout
  <2>2. Len(r) = Len(q) + 1 /\ r[1] = c /\ Without(q, r, 1) BY <2>1, HeadWithout
  <2>3. Held(q) = Held(r) - One(c.hold) BY <2>2, HeldWithout
  <2>4. Held(r) \in Nat /\ One(c.hold) \in Nat BY HeldNat DEF One
  <2> QED BY <1>0, <1>1, <2>1, <2>3, <2>4 DEF enqueue
<1>2. CASE ~ atHead
  <2> DEFINE n == Len(q) + 1
             r == Append(q, c)
  <2>1. /\ r \in Seq(Command) /\ Len(r) = n /\ r[n] = c
        /\ \A j \in 1..Len(q) : r[j] = q[j]
    BY AppendProperties
  <2>2. enqueue(q, c, atHead) = r BY <1>2 DEF enqueue
  <2>3. DOMAIN r = 1..n /\ DOMAIN q = 1..Len(q) BY <2>1
  <2> HIDE DEF r
  <2>4. Without(q, r, n) BY <2>1 DEF Without
  <2>5. Held(q) = Held(r) - One(c.hold)
    <3>1. n \in 1..Len(r) BY <2>1
    <3>2. Held(q) = Held(r) - One(r[n].hold) BY <2>1, <2>4, <3>1, HeldWithout
    <3> QED BY <2>1, <3>2
  <2>6. Held(r) \in Nat /\ One(c.hold) \in Nat BY <2>1, HeldNat DEF One
  <2> QED BY <1>0, <2>1, <2>2, <2>5, <2>6
<1> QED BY <1>1, <1>2

\* Where the elements of two queues are when they are put together.
LEMMA ConcatAt ==
  ASSUME NEW S, NEW q \in Seq(S), NEW r \in Seq(S), NEW s, s = q \o r
  PROVE  /\ Len(s) = Len(q) + Len(r) /\ Len(q) \in Nat /\ Len(r) \in Nat
         /\ DOMAIN q = 1..Len(q) /\ DOMAIN r = 1..Len(r) /\ DOMAIN s = 1..Len(s)
         /\ \A i \in 1..Len(s) : s[i] = IF i <= Len(q) THEN q[i] ELSE r[i - Len(q)]
<1>1. s \in Seq(S) BY ConcatProperties
<1> QED BY <1>1, ConcatProperties, LenProperties

\* The elements of two queues together are those of one or the other.
LEMMA ConcatElements ==
  ASSUME NEW S, NEW q \in Seq(S), NEW r \in Seq(S)
  PROVE  \A x \in ToSet(q \o r) : \/ \E i \in DOMAIN q : x = q[i]
                                 \/ \E i \in DOMAIN r : x = r[i]
<1>1. PICK s \in Seq(S) : s = q \o r BY ConcatProperties
<1>2. /\ Len(s) = Len(q) + Len(r) /\ Len(q) \in Nat /\ Len(r) \in Nat
      /\ DOMAIN q = 1..Len(q) /\ DOMAIN r = 1..Len(r) /\ DOMAIN s = 1..Len(s)
      /\ \A i \in 1..Len(s) : s[i] = IF i <= Len(q) THEN q[i] ELSE r[i - Len(q)]
  BY <1>1, ConcatAt
<1> SUFFICES ASSUME NEW x \in ToSet(s)
             PROVE  (\E i \in DOMAIN q : x = q[i]) \/ \E i \in DOMAIN r : x = r[i]
  BY <1>1
<1>3. PICK i \in 1..Len(s) : x = s[i] BY <1>2 DEF ToSet
<1>4. CASE i <= Len(q) BY <1>2, <1>3, <1>4
<1>5. CASE ~ i <= Len(q)
  <2>1. i - Len(q) \in DOMAIN r BY <1>2, <1>5
  <2> QED BY <1>2, <1>3, <1>5, <2>1
<1> QED BY <1>4, <1>5
-----------------------------------------------------------------------------
(***************************************************************************)
(* Queues that lose commands, or whose commands lose their callback.       *)
(***************************************************************************)
Lessens(d, c) ==
  d \in Command /\ d.id = c.id /\ (d = c \/ (~ d.func /\ ~ d.hold))

Thins(r, q) ==
  \E h \in [DOMAIN r -> DOMAIN q] :
    \A i \in DOMAIN r : /\ Lessens(r[i], q[h[i]])
                        /\ \A j \in DOMAIN r : h[i] = h[j] => i = j

\* Such a queue keeps its identifiers in order.
LEMMA ThinsIds ==
  ASSUME NEW q, NEW r, Thins(r, q), NEW n, NEW K
  PROVE  /\ NoDup(q) => NoDup(r)
         /\ Upto(q, n) => Upto(r, n)
         /\ Wanted(q, K) => Wanted(r, K)
         /\ \A s : Apart(q, s) => Apart(r, s)
         /\ \A s : Apart(s, q) => Apart(s, r)
         /\ (\A i \in DOMAIN q : ~ q[i].hold) => \A i \in DOMAIN r : ~ r[i].hold
<1>1. PICK h \in [DOMAIN r -> DOMAIN q] :
        \A i \in DOMAIN r : /\ Lessens(r[i], q[h[i]])
                            /\ \A j \in DOMAIN r : h[i] = h[j] => i = j
  BY DEF Thins
<1>2. \A i \in DOMAIN r :
        /\ h[i] \in DOMAIN q /\ r[i].id = q[h[i]].id
        /\ (r[i].func => q[h[i]].func) /\ (r[i].hold => q[h[i]].hold)
        /\ (r[i].func \/ r[i].hold => r[i] = q[h[i]])
  BY <1>1 DEF Lessens
<1>3. NoDup(q) => NoDup(r) BY <1>1, <1>2 DEF NoDup
<1>4. Upto(q, n) => Upto(r, n) BY <1>2 DEF Upto
<1>5. Wanted(q, K) => Wanted(r, K) BY <1>2 DEF Wanted
<1>6. \A s : Apart(q, s) => Apart(r, s) BY <1>2 DEF Apart
<1>7. \A s : Apart(s, q) => Apart(s, r) BY <1>2 DEF Apart
<1> QED BY <1>2, <1>3, <1>4, <1>5, <1>6, <1>7

\* A queue that stays, or is emptied.
LEMMA ThinsSelf ==
  ASSUME NEW q \in Seq(Command)
  PROVE  Thins(q, q) /\ Thins(<<>>, q)
<1>1. Thins(q, q)
  <2> DEFINE h == [i \in DOMAIN q |-> i]
  <2>1. h \in [DOMAIN q -> DOMAIN q] /\ \A i \in DOMAIN q : h[i] = i /\ q[i] \in Command
    OBVIOUS
  <2> HIDE DEF h
  <2> QED BY <2>1 DEF Thins, Lessens
<1>2. Thins(<<>>, q)
  <2> DEFINE h == [i \in {} |-> i]
  <2>1. DOMAIN <<>> = {} /\ h \in [{} -> DOMAIN q] OBVIOUS
  <2> QED BY <2>1 DEF Thins
<1> QED BY <1>1, <1>2

\* A queue that loses one command.
LEMMA WithoutThins ==
  ASSUME NEW q \in Seq(Command), NEW i \in 1..Len(q), NEW r \in Seq(Command), Without(r, q, i)
  PROVE  Thins(r, q)
<1> DEFINE h == [j \in DOMAIN r |-> IF j < i THEN j ELSE j + 1]
<1>1. DOMAIN r = 1..Len(r) /\ DOMAIN q = 1..Len(q) /\ Len(r) = Len(q) - 1 /\ Len(q) \in Nat
  BY DEF Without
<1>2. h \in [DOMAIN r -> DOMAIN q] BY <1>1
<1>3. \A j \in DOMAIN r : r[j] = q[h[j]] /\ r[j] \in Command BY <1>1 DEF Without
<1>4. \A j, k \in DOMAIN r : h[j] = h[k] => j = k BY <1>1
<1> HIDE DEF h
<1> QED BY <1>2, <1>3, <1>4 DEF Thins, Lessens

\* A command without its callback is the same command otherwise.
LEMMA ForgetFields ==
  ASSUME NEW c \in Command
  PROVE  LET d == forget_callback(c)
         IN  /\ d \in Command /\ d.id = c.id /\ d.part = c.part /\ d.opcode = c.opcode
             /\ d.sent = c.sent /\ ~ d.func /\ ~ d.hold
<1>1. /\ forget_callback(c) \in Command /\ forget_callback(c).id = c.id
      /\ forget_callback(c).part = c.part /\ forget_callback(c).opcode = c.opcode
      /\ forget_callback(c).sent = c.sent
  BY DEF forget_callback, Command
<1>2. ~ forget_callback(c).func /\ ~ forget_callback(c).hold BY DEF forget_callback, Command
<1> QED BY <1>1, <1>2

\* g_attrib_cancel on one queue: the command is gone, or has no callback; it
\* gives up the reference it held.
LEMMA CancelAtOwners ==
  ASSUME NEW q \in Seq(Command), NEW i \in 1..Len(q)
  PROVE  LET r == cancel_at(q, i)
         IN  /\ r \in Seq(Command) /\ Thins(r, q)
             /\ Held(r) = Held(q) - One(q[i].hold)
             /\ NoDup(q) => \A j \in DOMAIN r : r[j].func => r[j].id # q[i].id
<1>0. DOMAIN q = 1..Len(q) /\ \A j \in DOMAIN q : q[j] \in Command OBVIOUS
<1>1. CASE i = 1 /\ q[1].sent
  <2> DEFINE c == forget_callback(q[1])
             r == [q EXCEPT ![1] = c]
  <2>1. cancel_at(q, i) = r BY <1>1 DEF cancel_at
  <2>2. c \in Command /\ c.id = q[1].id /\ ~ c.func /\ ~ c.hold
    BY <1>0, <1>1, ForgetFields
  <2> HIDE DEF c
  <2>3. /\ r \in Seq(Command) /\ Len(r) = Len(q)
        /\ \A j \in 1..Len(q) : r[j] = IF j = 1 THEN c ELSE q[j]
    BY <1>1, <2>2, ExceptSeq
  <2>4. DOMAIN r = 1..Len(q) BY <2>3
  <2> HIDE DEF r
  <2>5. Thins(r, q)
    <3> DEFINE h == [j \in DOMAIN r |-> j]
    <3>1. h \in [DOMAIN r -> DOMAIN q] /\ \A j \in DOMAIN r : h[j] = j
      BY <1>0, <2>4
    <3>2. \A j \in DOMAIN r : Lessens(r[j], q[j])
      BY <1>0, <2>2, <2>3, <2>4 DEF Lessens
    <3> HIDE DEF h
    <3> QED BY <3>1, <3>2 DEF Thins
  <2>6. Held(r) = Held(q) - One(q[1].hold)
    <3>1. held(r) = held(q) \ {1} BY <1>0, <2>2, <2>3, <2>4 DEF held
    <3>2. IsFiniteSet(held(q)) /\ Held(q) \in Nat BY HeldNat
    <3>3. Held(r) = IF 1 \in held(q) THEN Held(q) - 1 ELSE Held(q)
      BY <3>1, <3>2, FS_RemoveElement DEF Held
    <3>4. 1 \in held(q) <=> q[1].hold BY <1>0, <1>1 DEF held
    <3> QED BY <3>2, <3>3, <3>4 DEF One
  <2>7. NoDup(q) => \A j \in DOMAIN r : r[j].func => r[j].id # q[1].id
    BY <1>0, <1>1, <2>2, <2>3, <2>4 DEF NoDup
  <2> QED BY <1>1, <2>1, <2>3, <2>5, <2>6, <2>7
<1>2. CASE ~ (i = 1 /\ q[1].sent)
  <2> DEFINE r == RemoveAt(q, i)
  <2>1. cancel_at(q, i) = r BY <1>2 DEF cancel_at
  <2>2. r \in Seq(Command) /\ Without(r, q, i) BY RemoveAtLemma DEF Without
  <2> HIDE DEF r
  <2>3. Thins(r, q) BY <2>2, WithoutThins
  <2>4. Held(r) = Held(q) - One(q[i].hold) BY <2>2, HeldWithout
  <2>5. NoDup(q) => \A j \in DOMAIN r : r[j].id # q[i].id
    <3> SUFFICES ASSUME NoDup(q), NEW j \in DOMAIN r PROVE r[j].id # q[i].id OBVIOUS
    <3>1. j \in 1..Len(q) - 1 /\ r[j] = IF j < i THEN q[j] ELSE q[j + 1]
      BY <2>2 DEF Without
    <3>2. CASE j < i BY <1>0, <3>1, <3>2 DEF NoDup
    <3>3. CASE ~ j < i
      <4>1. j + 1 \in DOMAIN q /\ j + 1 # i BY <1>0, <3>1, <3>3
      <4> QED BY <1>0, <3>1, <3>3, <4>1 DEF NoDup
    <3> QED BY <3>2, <3>3
  <2> QED BY <2>1, <2>2, <2>3, <2>4, <2>5
<1> QED BY <1>1, <1>2

\* cancel_all_per_queue leaves nobody to call.
LEMMA CancelAllOwners ==
  ASSUME NEW q \in Seq(Command)
  PROVE  LET r == cancel_all_per_queue(q)
         IN  /\ r \in Seq(Command) /\ Thins(r, q) /\ Held(r) = 0
             /\ \A j \in DOMAIN r : ~ r[j].func
<1>1. CASE QSent(q)
  <2> DEFINE c == forget_callback(q[1])
  <2>1. q[1] \in Command /\ 1 \in DOMAIN q BY <1>1 DEF QSent
  <2>2. c \in Command /\ c.id = q[1].id /\ ~ c.func /\ ~ c.hold BY <2>1, ForgetFields
  <2>3. cancel_all_per_queue(q) = <<c>> BY <1>1 DEF cancel_all_per_queue, QSent
  <2> HIDE DEF c
  <2>4. <<c>> \in Seq(Command) /\ DOMAIN <<c>> = {1} /\ <<c>>[1] = c
    <3>1. <<c>> \in Seq(Command) /\ Len(<<c>>) = 1 /\ <<c>>[1] = c BY <2>2
    <3>2. DOMAIN <<c>> = 1..1 BY <3>1, LenProperties
    <3> QED BY <3>1, <3>2
  <2>5. Thins(<<c>>, q)
    <3> DEFINE h == [j \in {1} |-> 1]
    <3>1. h \in [{1} -> DOMAIN q] /\ h[1] = 1 BY <2>1
    <3> HIDE DEF h
    <3> QED BY <2>2, <2>4, <3>1 DEF Thins, Lessens
  <2>6. held(<<c>>) = {} BY <2>2, <2>4 DEF held
  <2> QED BY <2>2, <2>3, <2>4, <2>5, <2>6, FS_EmptySet DEF Held
<1>2. CASE ~ QSent(q)
  <2>1. cancel_all_per_queue(q) = <<>> BY <1>2 DEF cancel_all_per_queue, QSent
  <2> QED BY <2>1, ThinsSelf, HeldEmpty
<1> QED BY <1>1, <1>2
-----------------------------------------------------------------------------
(***************************************************************************)
(* The functions of gattrib.c, by identifiers and references.              *)
(***************************************************************************)
\* The fields that the count of references is made of.
LEMMA FieldTypes ==
  ASSUME NEW a \in CountedRecord
  PROVE  /\ a.requests \in Seq(Command) /\ a.responses \in Seq(Command)
         /\ a.refs \in Int /\ a.next_cmd_id \in Nat /\ a.write_watch \in BOOLEAN
         /\ Held(a.requests) \in Nat /\ Excess(a) \in Int
         /\ Excess(a) = a.refs - One(a.write_watch) - Held(a.requests)
<1>1. /\ a.requests \in Seq(Command) /\ a.responses \in Seq(Command)
      /\ a.refs \in Int /\ a.next_cmd_id \in Nat /\ a.write_watch \in BOOLEAN
  BY DEF CountedRecord
<1>2. Held(a.requests) \in Nat BY <1>1, HeldNat
<1>3. Excess(a) = a.refs - One(a.write_watch) - Held(a.requests)
  BY DEF Excess, One, Held
<1> QED BY <1>1, <1>2, <1>3 DEF One

\* Queues that are kept, thinned out or emptied.
LEMMA IdsThin ==
  ASSUME NEW a \in CountedRecord, NEW K, Ids(a, K), NEW b,
         Thins(b.requests, a.requests), Thins(b.responses, a.responses),
         b.next_cmd_id \in Nat, b.next_cmd_id >= a.next_cmd_id
  PROVE  Ids(b, K)
<1>1. a.next_cmd_id \in Nat /\ a.requests \in Seq(Command) /\ a.responses \in Seq(Command)
  BY FieldTypes
<1>2. /\ NoDup(b.requests) /\ Upto(b.requests, a.next_cmd_id) /\ Wanted(b.requests, K)
      /\ Apart(b.requests, a.responses)
  BY ThinsIds DEF Ids
<1>3. /\ NoDup(b.responses) /\ Upto(b.responses, a.next_cmd_id)
      /\ Apart(b.requests, b.responses)
      /\ \A i \in DOMAIN b.responses : ~ b.responses[i].hold
  BY <1>2, ThinsIds DEF Ids
<1>4. \A q, r : Thins(r, q) => \A i \in DOMAIN r : r[i].id \in Nat
  BY DEF Thins, Lessens, Command
<1>5. Upto(b.requests, b.next_cmd_id) /\ Upto(b.responses, b.next_cmd_id)
  BY <1>1, <1>2, <1>3, <1>4 DEF Upto
<1>6. \A k \in K : k \in Nat /\ k <= b.next_cmd_id BY <1>1 DEF Ids
<1> QED BY <1>2, <1>3, <1>5, <1>6 DEF Ids

\* With the same queues and the same counter nothing changes.
LEMMA KeepsIds ==
  ASSUME NEW a \in CountedRecord, NEW K, Ids(a, K), NEW b, Keeps(b, a)
  PROVE  Ids(b, K) /\ Held(b.requests) = Held(a.requests)
BY DEF Keeps, Ids

\* g_attrib_unref drops a reference of those that are left over; the bearer is
\* freed only with the last.
LEMMA UnrefOwners ==
  ASSUME NEW a \in CountedRecord, NEW K, Ids(a, K), Excess(a) >= 1
  PROVE  /\ g_attrib_unref(a) \in GAttribRecord /\ Ids(g_attrib_unref(a), K)
         /\ Excess(g_attrib_unref(a)) = Excess(a) - 1
<1> DEFINE b == g_attrib_unref(a)
<1>1. b \in GAttribRecord BY UnrefType
<1>2. b \in CountedRecord BY <1>1, CountedLemma
<1>3. /\ a.refs \in Int /\ Held(a.requests) \in Nat
      /\ Excess(a) = a.refs - One(a.write_watch) - Held(a.requests)
      /\ Excess(b) = b.refs - One(b.write_watch) - Held(b.requests)
  BY <1>2, FieldTypes
<1> HIDE DEF b
<1>4. CASE a.refs > 1
  <2>1. Keeps(b, a) /\ b.refs = a.refs - 1 /\ b.write_watch = a.write_watch
    BY <1>4, UnrefEffect DEF b
  <2>2. Ids(b, K) /\ Held(b.requests) = Held(a.requests) BY <2>1, KeepsIds
  <2> QED BY <1>1, <1>3, <2>1, <2>2 DEF b, One
<1>5. CASE ~ a.refs > 1
  <2>1. Freed(b, a) BY <1>5, UnrefEffect DEF b
  <2>2. Excess(b) = 0 BY <1>3, <2>1, HeldEmpty DEF Freed, One
  <2>3. Excess(a) = 1 BY <1>3, <1>5 DEF One
  <2>4. Ids(b, K) BY <2>1, FieldTypes, ThinsSelf, IdsThin DEF Freed
  <2> QED BY <1>1, <2>2, <2>3, <2>4 DEF b
<1> QED BY <1>4, <1>5

\* Waking the sender gives the new reference to the write watch.
LEMMA WakeOwners ==
  ASSUME NEW a \in CountedRecord, NEW K, Ids(a, K)
  PROVE  Ids(wake_up_sender(a), K) /\ Excess(wake_up_sender(a)) = Excess(a)
<1> DEFINE b == wake_up_sender(a)
<1>1. /\ b \in CountedRecord /\ Keeps(b, a) /\ b.write_watch
      /\ b.refs = a.refs + 1 - One(a.write_watch)
  BY WakeEffect
<1> HIDE DEF b
<1>2. Ids(b, K) /\ Held(b.requests) = Held(a.requests) BY <1>1, KeepsIds
<1>3. /\ a.refs \in Int /\ Held(a.requests) \in Nat
      /\ Excess(a) = a.refs - One(a.write_watch) - Held(a.requests)
      /\ Excess(b) = b.refs - One(b.write_watch) - Held(b.requests)
  BY <1>1, FieldTypes
<1>4. Excess(b) = Excess(a) BY <1>1, <1>2, <1>3 DEF One
<1> QED BY <1>2, <1>4 DEF b

\* destroy_sender drops exactly the reference of the watch it removes.
LEMMA DestroySenderOwners ==
  ASSUME NEW a \in CountedRecord, NEW K, Ids(a, K), a.write_watch, Excess(a) >= 0
  PROVE  Ids(destroy_sender(a), K) /\ Excess(destroy_sender(a)) = Excess(a)
<1> DEFINE b == [a EXCEPT !.write_watch = FALSE]
<1>1. b \in CountedRecord /\ Keeps(b, a) /\ b.refs = a.refs BY DEF CountedRecord, Keeps
<1>2. ~ b.write_watch BY DEF CountedRecord
<1>3. destroy_sender(a) = g_attrib_unref(b) BY DEF destroy_sender
<1> HIDE DEF b
<1>4. Ids(b, K) /\ Held(b.requests) = Held(a.requests) BY <1>1, KeepsIds
<1>5. /\ a.refs \in Int /\ Held(a.requests) \in Nat
      /\ Excess(a) = a.refs - One(a.write_watch) - Held(a.requests)
      /\ Excess(b) = b.refs - One(b.write_watch) - Held(b.requests)
  BY <1>1, FieldTypes
<1>6. Excess(b) = Excess(a) + 1 /\ Excess(a) \in Int BY <1>1, <1>2, <1>4, <1>5 DEF One
<1> QED BY <1>1, <1>3, <1>4, <1>6, UnrefOwners

\* The identifier was handed out, and no queued command has it.
Unused(a, id) ==
  /\ id <= a.next_cmd_id
  /\ \A i \in DOMAIN a.requests : a.requests[i].id # id
  /\ \A i \in DOMAIN a.responses : a.responses[i].id # id

\* g_attrib_send: the command has an identifier of its own, and the reference
\* it holds is one of those that were left over.
LEMMA SendOwners ==
  ASSUME NEW a \in GAttribRecord, ~ a.stale, NEW K, Ids(a, K),
         NEW id \in Nat, NEW part \in Nat, NEW op \in Opcode,
         NEW func \in BOOLEAN, NEW hold \in BOOLEAN,
         id # 0 => Unused(a, id) /\ id \notin K,
         hold => func /\ Discovers(op), is_response(op) => ~ hold,
         func => opcode2expected(op) # "NONE"
  PROVE  LET b == g_attrib_send(a, id, part, op, func, hold)
         IN  b \in GAttribRecord /\ Ids(b, K) /\ Excess(b) = Excess(a) - One(hold)
<1> DEFINE b == g_attrib_send(a, id, part, op, func, hold)
           c == NewCommand(a, id, part, op, func, hold)
<1>1. /\ c \in Command /\ b \in GAttribRecord
      /\ b.next_cmd_id = IF id # 0 THEN a.next_cmd_id ELSE a.next_cmd_id + 1
      /\ b.responses = IF is_response(op) THEN Append(a.responses, c) ELSE a.responses
      /\ b.requests = IF is_response(op) THEN a.requests
                      ELSE enqueue(a.requests, c, id # 0)
      /\ b.refs - One(b.write_watch) = a.refs - One(a.write_watch)
  BY SendEffect
<1>2. /\ a \in CountedRecord /\ b \in CountedRecord BY <1>1, CountedLemma
<1>3. /\ a.requests \in Seq(Command) /\ a.responses \in Seq(Command) /\ a.next_cmd_id \in Nat
      /\ a.refs \in Int /\ b.refs \in Int /\ a.write_watch \in BOOLEAN /\ b.write_watch \in BOOLEAN
      /\ Held(a.requests) \in Nat /\ Held(b.requests) \in Nat /\ b.next_cmd_id \in Nat
      /\ Excess(a) = a.refs - One(a.write_watch) - Held(a.requests)
      /\ Excess(b) = b.refs - One(b.write_watch) - Held(b.requests)
  BY <1>2, FieldTypes
<1>4. /\ c.id = IF id # 0 THEN id ELSE a.next_cmd_id + 1
      /\ c.hold = hold /\ c.func = func /\ c.opcode = op
  BY DEF NewCommand, new_id
<1> HIDE DEF b, c
<1>5. /\ \A i \in DOMAIN a.requests : a.requests[i].id # c.id /\ a.requests[i].id \in Nat
      /\ \A i \in DOMAIN a.responses : a.responses[i].id # c.id /\ a.responses[i].id \in Nat
      /\ c.id <= b.next_cmd_id /\ c.id \notin K /\ a.next_cmd_id <= b.next_cmd_id
  <2>0. \A d \in Command : d.id \in Nat BY DEF Command
  <2>1. \A q \in Seq(Command) : \A i \in DOMAIN q : q[i].id \in Nat BY <2>0
  <2>2. CASE id # 0 BY <1>1, <1>3, <1>4, <2>1, <2>2 DEF Unused
  <2>3. CASE id = 0 BY <1>1, <1>3, <1>4, <2>1, <2>3 DEF Ids, Upto
  <2> QED BY <2>2, <2>3
<1>6. \A k \in K : k \in Nat /\ k <= b.next_cmd_id BY <1>3, <1>5 DEF Ids
<1>7. One(hold) \in Nat BY DEF One
<1>8. CASE is_response(op)
  <2> DEFINE n == Len(a.responses) + 1
             r == b.responses
  <2>1. b.requests = a.requests /\ r = Append(a.responses, c) BY <1>1, <1>8
  <2>2. /\ r \in Seq(Command) /\ DOMAIN r = 1..n /\ r[n] = c
        /\ \A i \in DOMAIN a.responses : r[i] = a.responses[i]
        /\ \A i \in DOMAIN r : i \in DOMAIN a.responses \/ i = n
    BY ONLY <1>1, <1>3, <2>1, AppendShape
  <2>3. ~ c.hold BY <1>4, <1>8
  <2> HIDE DEF n, r
  <2>4. Upto(a.requests, b.next_cmd_id) BY <1>3, <1>5 DEF Ids, Upto
  <2>5. Upto(r, b.next_cmd_id) BY <1>3, <1>5, <2>2 DEF Ids, Upto
  <2>6. NoDup(r) BY <1>5, <2>2 DEF Ids, NoDup
  <2>7. Apart(a.requests, r) BY <1>5, <2>2 DEF Ids, Apart
  <2>8. \A i \in DOMAIN r : ~ r[i].hold BY <2>2, <2>3 DEF Ids
  <2>9. Ids(b, K) BY <1>6, <2>1, <2>4, <2>5, <2>6, <2>7, <2>8 DEF Ids, r
  <2>10. Excess(b) = Excess(a) - One(hold) BY <1>1, <1>3, <1>8, <2>1 DEF One
  <2> QED BY <1>1, <2>9, <2>10 DEF b
<1>9. CASE ~ is_response(op)
  <2> DEFINE r == b.requests
  <2>1. b.responses = a.responses /\ r = enqueue(a.requests, c, id # 0) BY <1>1, <1>9
  <2>2. Held(r) = Held(a.requests) + One(hold) BY <1>1, <1>3, <1>4, <2>1, HeldEnqueue
  <2>3. \A i \in DOMAIN r : r[i] = c \/ \E j \in DOMAIN a.requests : r[i] = a.requests[j]
    <3>1. CASE id # 0
      <4>1. r = <<c>> \o a.requests BY <2>1, <3>1 DEF enqueue
      <4>2. r \in Seq(Command) /\ r[1] = c /\ Without(a.requests, r, 1)
        BY <1>1, <1>3, <4>1, HeadWithout
      <4> QED BY <1>3, <4>2, WithoutHead
    <3>2. CASE id = 0
      <4>1. r = Append(a.requests, c) BY ONLY <2>1, <3>2 DEF enqueue
      <4>2. c \in Command /\ a.requests \in Seq(Command) BY ONLY <1>1, <1>3
      <4> HIDE DEF r
      <4>3. /\ r[Len(a.requests) + 1] = c
            /\ \A i \in DOMAIN a.requests : r[i] = a.requests[i]
            /\ \A i \in DOMAIN r : i \in DOMAIN a.requests \/ i = Len(a.requests) + 1
        BY ONLY <4>1, <4>2, AppendShape
      <4> QED BY ONLY <4>3
    <3> QED BY <3>1, <3>2
  <2>4. NoDup(r)
    <3>1. CASE id # 0
      <4>1. r = <<c>> \o a.requests BY <2>1, <3>1 DEF enqueue
      <4>2. r \in Seq(Command) /\ r[1] = c /\ Without(a.requests, r, 1)
        BY <1>1, <1>3, <4>1, HeadWithout
      <4> HIDE DEF r
      <4>3. \A i \in DOMAIN r :
              i # 1 => i - 1 \in DOMAIN a.requests /\ r[i] = a.requests[i - 1]
        BY <1>3, <4>2, WithoutHead
      <4>4. \A i, j \in DOMAIN r : i - 1 = j - 1 => i = j BY <4>2
      <4>5. \A i, j \in DOMAIN a.requests : a.requests[i].id = a.requests[j].id => i = j
        BY DEF Ids, NoDup
      <4>6. \A i \in DOMAIN r : i # 1 => r[i].id # c.id BY <1>5, <4>3
      <4> SUFFICES ASSUME NEW i \in DOMAIN r, NEW j \in DOMAIN r, r[i].id = r[j].id
                   PROVE  i = j
        BY DEF NoDup
      <4>7. CASE i # 1 /\ j # 1 BY <4>3, <4>4, <4>5, <4>7
      <4> QED BY <4>2, <4>6, <4>7
    <3>2. CASE id = 0
      <4> DEFINE n == Len(a.requests) + 1
      <4>1. /\ DOMAIN r = 1..n /\ r[n] = c
            /\ \A i \in DOMAIN a.requests : r[i] = a.requests[i]
            /\ \A i \in DOMAIN r : i \in DOMAIN a.requests \/ i = n
        <5>1. r = Append(a.requests, c) BY ONLY <2>1, <3>2 DEF enqueue
        <5>2. c \in Command /\ a.requests \in Seq(Command) BY ONLY <1>1, <1>3
        <5> HIDE DEF r
        <5> QED BY ONLY <5>1, <5>2, AppendShape
      <4> HIDE DEF n, r
      <4> QED BY <1>5, <4>1 DEF Ids, NoDup
    <3> QED BY <3>1, <3>2
  <2> HIDE DEF r
  <2>5. Upto(r, b.next_cmd_id) BY <1>3, <1>5, <2>3 DEF Ids, Upto
  <2>6. Upto(a.responses, b.next_cmd_id) BY <1>3, <1>5 DEF Ids, Upto
  <2>7. Apart(r, a.responses) BY <1>5, <2>3 DEF Ids, Apart
  <2>8. Wanted(r, K) BY <1>4, <1>5, <2>3 DEF Ids, Wanted
  <2>9. Ids(b, K) BY <1>6, <2>1, <2>4, <2>5, <2>6, <2>7, <2>8 DEF Ids, r
  <2>10. Excess(b) = Excess(a) - One(hold)
    <3>1. One(a.write_watch) \in Nat /\ One(b.write_watch) \in Nat BY DEF One
    <3> QED BY <1>1, <1>3, <1>7, <2>2, <3>1 DEF r
  <2> QED BY <1>1, <2>9, <2>10 DEF b
<1> QED BY <1>8, <1>9

\* The functions of gatt.c take the reference that their command holds; a
\* stale bearer refuses the command and the reference is left over.
LEMMA GattSendOwners ==
  ASSUME NEW a \in GAttribRecord, NEW K, Ids(a, K), NEW op \in AppOps
  PROVE  LET b == gatt_send(a, op)
         IN  /\ b \in GAttribRecord /\ Ids(b, K)
             /\ Excess(b) = Excess(a) + One(a.stale /\ Discovers(op))
<1> DEFINE d == Discovers(op)
           f == op # "WRITE_CMD"
           r == IF d THEN g_attrib_ref(a) ELSE a
<1>1. op \in Opcode BY AppOpsOpcodes
<1>2. d \in BOOLEAN /\ f \in BOOLEAN /\ (d => f /\ Discovers(op)) /\ (is_response(op) => ~ d)
  BY DEF Discovers, is_response
<1>0. f => opcode2expected(op) # "NONE" BY ConstantsAssumption DEF ConstantsAssumption
<1>3. gatt_send(a, op) = g_attrib_send(r, 0, 0, op, f, d) BY DEF gatt_send
<1> HIDE DEF d, f
<1>4. /\ r \in GAttribRecord /\ Keeps(r, a) /\ r.refs = a.refs + One(d)
      /\ r.write_watch = a.write_watch
  <2>0. a \in CountedRecord /\ a.refs \in Nat BY CountedLemma DEF GAttribRecord
  <2>1. CASE d BY <2>0, <2>1, RefEffect, RefType DEF One
  <2>2. CASE ~ d BY <2>0, <2>2 DEF One, Keeps
  <2> QED BY <2>1, <2>2
<1> HIDE DEF r
<1>5. a \in CountedRecord /\ r \in CountedRecord BY <1>4, CountedLemma
<1>6. Ids(r, K) /\ Held(r.requests) = Held(a.requests) /\ r.stale = a.stale
  BY <1>4, <1>5, KeepsIds DEF Keeps
<1>7. Excess(r) = Excess(a) + One(d) /\ Excess(a) \in Int /\ One(d) \in Nat
  <2>1. /\ a.refs \in Int /\ Held(a.requests) \in Nat
        /\ Excess(a) = a.refs - One(a.write_watch) - Held(a.requests)
        /\ Excess(r) = r.refs - One(r.write_watch) - Held(r.requests)
    BY <1>5, FieldTypes
  <2>2. One(a.write_watch) \in Nat /\ One(d) \in Nat BY DEF One
  <2> QED BY <1>4, <1>6, <2>1, <2>2
<1>8. CASE a.stale
  <2>1. g_attrib_send(r, 0, 0, op, f, d) = r BY <1>6, <1>8 DEF g_attrib_send
  <2>2. One(a.stale /\ Discovers(op)) = One(d) BY <1>8 DEF d, One
  <2> QED BY <1>3, <1>4, <1>6, <1>7, <2>1, <2>2
<1>9. CASE ~ a.stale
  <2> DEFINE b == g_attrib_send(r, 0, 0, op, f, d)
  <2>1. b \in GAttribRecord /\ Ids(b, K) /\ Excess(b) = Excess(r) - One(d)
    BY <1>0, <1>1, <1>2, <1>4, <1>6, <1>9, SendOwners
  <2>2. One(a.stale /\ Discovers(op)) = 0 BY <1>9 DEF One
  <2> HIDE DEF b
  <2> QED BY <1>3, <1>7, <2>1, <2>2 DEF b
<1> QED BY <1>8, <1>9

\* A result callback of the command c, which has left the queue: its own
\* reference is dropped, whatever it sends meanwhile.
LEMMA CallbackOwners ==
  ASSUME NEW a \in GAttribRecord, ~ a.stale, NEW K, Ids(a, K),
         NEW c \in Command, NEW ok \in BOOLEAN, NEW r \in Reactions(c, ok),
         Unused(a, c.id), c.func => c.id \notin K, c.hold => c.func,
         Excess(a) >= One(c.hold)
  PROVE  /\ Ids(run_callback(a, c, r), K)
         /\ Excess(run_callback(a, c, r)) = Excess(a) - One(c.hold)
<1> DEFINE b == CASE r.kind = "quiet"    -> a
                  [] r.kind = "continue" -> g_attrib_send(a, c.id, c.part + 1,
                                                 "READ_BLOB_REQ", TRUE, FALSE)
                  [] r.kind = "send"     -> gatt_send(a, r.op)
<1>0. Excess(a) \in Int /\ c.hold \in BOOLEAN /\ c.func \in BOOLEAN
  BY CountedLemma, FieldTypes DEF Command
<1>1. b \in GAttribRecord /\ Ids(b, K) /\ Excess(b) = Excess(a)
  <2>1. CASE r.kind = "quiet" BY <2>1
  <2>2. CASE r.kind = "continue"
    <3>1. b = g_attrib_send(a, c.id, c.part + 1, "READ_BLOB_REQ", TRUE, FALSE)
      BY <2>2
    <3> DEFINE id == c.id
               part == c.part + 1
               op == "READ_BLOB_REQ"
               f == TRUE
               h == FALSE
               s == g_attrib_send(a, id, part, op, f, h)
    <3>2. id \in Nat /\ part \in Nat BY DEF Command
    <3>3. /\ op \in Opcode /\ ~ is_response(op) /\ opcode2expected(op) # "NONE"
          /\ f \in BOOLEAN /\ h \in BOOLEAN /\ (h => f /\ Discovers(op))
      BY DEF Opcode, is_response, opcode2expected, Expected
    <3>4. c.func BY <2>2 DEF Reactions, Quiet
    <3>5. id # 0 => Unused(a, id) /\ id \notin K BY <3>4
    <3>6. One(h) = 0 /\ b = s BY <3>1 DEF One
    <3> HIDE DEF b, id, part, op, f, h
    <3>7. s \in GAttribRecord /\ Ids(s, K) /\ Excess(s) = Excess(a) - One(h)
      BY <3>2, <3>3, <3>5, SendOwners
    <3> HIDE DEF s
    <3> QED BY <1>0, <3>6, <3>7
  <2>3. CASE r.kind = "send" /\ r.op \in AppOps
    <3>1. b = gatt_send(a, r.op) BY <2>3
    <3>2. One(a.stale /\ Discovers(r.op)) = 0 BY DEF One
    <3> HIDE DEF b
    <3> QED BY <1>0, <2>3, <3>1, <3>2, GattSendOwners
  <2>4. \/ r.kind = "quiet" \/ r.kind = "continue"
        \/ r.kind = "send" /\ r.op \in AppOps
    BY DEF Reactions, Quiet
  <2> QED BY <2>1, <2>2, <2>3, <2>4
<1> HIDE DEF b
<1>2. run_callback(a, c, r) = IF c.func /\ c.hold THEN g_attrib_unref(b) ELSE b
  BY DEF run_callback, b
<1>3. CASE c.hold
  <2>1. Excess(b) >= 1 /\ One(c.hold) = 1 BY <1>1, <1>3 DEF One
  <2> QED BY <1>1, <1>2, <1>3, <2>1, CountedLemma, UnrefOwners
<1>4. CASE ~ c.hold BY <1>0, <1>1, <1>2, <1>4 DEF One
<1> QED BY <1>3, <1>4
-----------------------------------------------------------------------------
(***************************************************************************)
(* The actions.                                                            *)
(***************************************************************************)
\* What the invariant says.
LEMMA OFacts ==
  ASSUME OInv
  PROVE  /\ attrib \in GAttribRecord /\ attrib \in CountedRecord /\ Ids(attrib, cancelled)
         /\ Excess(attrib) = One(app) + leaked /\ One(app) \in Nat /\ leaked \in Nat
         /\ app \in BOOLEAN /\ Excess(attrib) >= 0
<1>1. /\ attrib \in GAttribRecord /\ Ids(attrib, cancelled) /\ leaked \in Nat
      /\ app \in BOOLEAN /\ Excess(attrib) = One(app) + leaked
  BY DEF OInv, IInv, TypeOK
<1>2. One(app) \in Nat BY DEF One
<1> QED BY <1>1, <1>2, CountedLemma

\* Steps that call nobody.
LEMMA NobodyCalled == ASSUME last' = NoCall PROVE CancelledNotCalled'
BY DEF CancelledNotCalled, NoCall

\* A send by the application.
LEMMA OSendStep ==
  ASSUME OInv, NEW op \in AppOps, Send(op)
  PROVE  OInv'
<1>1. /\ attrib' = gatt_send(attrib, op) /\ last' = NoCall
      /\ leaked' = IF attrib.stale /\ Discovers(op) THEN leaked + 1 ELSE leaked
      /\ app' = app /\ cancelled' = cancelled
  BY DEF Send
<1>2. IInv' BY SendStep DEF OInv
<1>3. Ids(attrib', cancelled) /\ Excess(attrib') = Excess(attrib) + One(attrib.stale /\ Discovers(op))
  BY <1>1, OFacts, GattSendOwners
<1>4. Excess(attrib') = One(app) + leaked' BY <1>1, <1>3, OFacts DEF One
<1> QED BY <1>1, <1>2, <1>3, <1>4, NobodyCalled DEF OInv, Ids, Excess

\* A step that changes nothing which the invariant speaks of.
LEMMA OSameStep ==
  ASSUME OInv, IInv', attrib'.requests = attrib.requests,
         attrib'.responses = attrib.responses,
         attrib'.next_cmd_id = attrib.next_cmd_id, attrib'.refs = attrib.refs,
         attrib'.write_watch = attrib.write_watch,
         UNCHANGED <<app, leaked, cancelled>>, CancelledNotCalled'
  PROVE  OInv'
<1>1. Ids(attrib', cancelled) /\ Held(attrib'.requests) = Held(attrib.requests)
  BY OFacts DEF Ids
<1>2. attrib' \in CountedRecord BY CountedLemma DEF IInv, TypeOK
<1>3. Excess(attrib') = One(app) + leaked BY <1>1, <1>2, OFacts, FieldTypes
<1> QED BY <1>1, <1>3 DEF OInv

\* g_attrib_cancel: whoever held a reference cannot drop it any more.
LEMMA OCancelStep ==
  ASSUME OInv, NEW queue \in {"requests", "responses"}, NEW i \in 1..MaxCmds,
         g_attrib_cancel(queue, i)
  PROVE  OInv'
<1> DEFINE q == attrib[queue]
           r == cancel_at(q, i)
           K == cancelled \cup {q[i].id}
<1>1. /\ i \in DOMAIN q /\ attrib' = [attrib EXCEPT ![queue] = r]
      /\ leaked' = leaked + Cardinality(held(q) \cap {i})
      /\ cancelled' = K /\ last' = NoCall /\ app' = app
  BY DEF g_attrib_cancel
<1>2. IInv' BY CancelStep DEF OInv
<1>3. q \in Seq(Command) /\ i \in 1..Len(q) /\ DOMAIN q = 1..Len(q)
  BY <1>1, OFacts, FieldTypes
<1>4. /\ r \in Seq(Command) /\ Thins(r, q) /\ Held(r) = Held(q) - One(q[i].hold)
      /\ NoDup(q) => \A j \in DOMAIN r : r[j].func => r[j].id # q[i].id
  BY <1>3, CancelAtOwners
<1>5. Cardinality(held(q) \cap {i}) = One(q[i].hold)
  <2>1. CASE q[i].hold
    <3>1. held(q) \cap {i} = {i} BY <1>1, <2>1 DEF held
    <3> QED BY <2>1, <3>1, FS_Singleton DEF One
  <2>2. CASE ~ q[i].hold
    <3>1. held(q) \cap {i} = {} BY <1>1, <2>2 DEF held
    <3> QED BY <2>2, <3>1, FS_EmptySet DEF One
  <2> QED BY <2>1, <2>2
<1>6. q[i].id \in Nat /\ q[i].id <= attrib.next_cmd_id
  <2>1. q[i] \in Command BY <1>3
  <2> QED BY <1>1, <2>1, OFacts DEF Command, Ids, Upto
<1>7. \A k \in K : k \in Nat /\ k <= attrib.next_cmd_id BY <1>6, OFacts DEF Ids
<1>8. attrib' \in CountedRecord BY <1>2, CountedLemma DEF IInv, TypeOK
<1>9. CASE queue = "requests"
  <2>1. /\ attrib'.requests = r /\ attrib'.responses = attrib.responses
        /\ attrib'.next_cmd_id = attrib.next_cmd_id /\ attrib'.refs = attrib.refs
        /\ attrib'.write_watch = attrib.write_watch
    BY <1>1, <1>9, OFacts DEF GAttribRecord
  <2> HIDE DEF r
  <2>2. Ids(attrib', cancelled)
    <3>1. attrib'.next_cmd_id \in Nat /\ attrib'.next_cmd_id >= attrib.next_cmd_id
      BY <2>1, OFacts, FieldTypes
    <3>2. Thins(attrib'.responses, attrib.responses) BY <2>1, OFacts, FieldTypes, ThinsSelf
    <3>3. Thins(attrib'.requests, attrib.requests) BY <1>4, <1>9, <2>1
    <3> QED BY <3>1, <3>2, <3>3, OFacts, IdsThin
  <2>3. NoDup(q) BY <1>9, OFacts DEF Ids
  <2>4. Wanted(r, K) BY <1>4, <2>1, <2>2, <2>3 DEF Ids, Wanted
  <2>5. Ids(attrib', K) BY <1>7, <2>1, <2>2, <2>4 DEF Ids
  <2>6. Excess(attrib') = One(app) + leaked'
    <3>1. One(q[i].hold) \in Nat /\ One(attrib.write_watch) \in Nat BY DEF One
    <3>2. /\ Excess(attrib) = attrib.refs - One(attrib.write_watch) - Held(q)
          /\ Excess(attrib') = attrib'.refs - One(attrib'.write_watch) - Held(r)
          /\ attrib.refs \in Int /\ Held(q) \in Nat
      BY <1>8, <1>9, <2>1, OFacts, FieldTypes
    <3> DEFINE x == One(q[i].hold)
               y == One(attrib.write_watch)
    <3>3. leaked' = leaked + x /\ Held(r) = Held(q) - x BY <1>1, <1>4, <1>5
    <3>4. x \in Nat /\ y \in Nat BY <3>1
    <3> HIDE DEF q, x, y
    <3>5. /\ Excess(attrib) = attrib.refs - y - Held(q)
          /\ Excess(attrib') = attrib.refs - y - Held(r)
      BY <2>1, <3>2 DEF y
    <3> QED BY <3>2, <3>3, <3>4, <3>5, OFacts
  <2> QED BY <1>1, <1>2, <2>5, <2>6, NobodyCalled DEF OInv
<1>10. CASE queue = "responses"
  <2>1. /\ attrib'.requests = attrib.requests /\ attrib'.responses = r
        /\ attrib'.next_cmd_id = attrib.next_cmd_id /\ attrib'.refs = attrib.refs
        /\ attrib'.write_watch = attrib.write_watch
    BY <1>1, <1>10, OFacts DEF GAttribRecord
  <2> HIDE DEF r
  <2>2. Ids(attrib', cancelled)
    <3>1. attrib'.next_cmd_id \in Nat /\ attrib'.next_cmd_id >= attrib.next_cmd_id
      BY <2>1, OFacts, FieldTypes
    <3>2. Thins(attrib'.requests, attrib.requests) BY <2>1, OFacts, FieldTypes, ThinsSelf
    <3>3. Thins(attrib'.responses, attrib.responses) BY <1>4, <1>10, <2>1
    <3> QED BY <3>1, <3>2, <3>3, OFacts, IdsThin
  <2>3. \A j \in DOMAIN attrib.requests : attrib.requests[j].id # q[i].id
    BY <1>1, <1>10, OFacts DEF Ids, Apart
  <2>4. Wanted(attrib.requests, K) BY <2>3, OFacts DEF Ids, Wanted
  <2>5. Ids(attrib', K) BY <1>7, <2>1, <2>2, <2>4 DEF Ids
  <2>6. Excess(attrib') = One(app) + leaked'
    <3>1. One(q[i].hold) = 0 BY <1>1, <1>10, OFacts DEF Ids, One
    <3>2. /\ Excess(attrib) = attrib.refs - One(attrib.write_watch) - Held(attrib.requests)
          /\ Excess(attrib') = attrib'.refs - One(attrib'.write_watch) - Held(attrib'.requests)
      BY <1>8, OFacts, FieldTypes
    <3> HIDE DEF q
    <3> QED BY <1>1, <1>5, <2>1, <3>1, <3>2, OFacts
  <2> QED BY <1>1, <1>2, <2>5, <2>6, NobodyCalled DEF OInv
<1> QED BY <1>9, <1>10

\* g_attrib_cancel_all.
LEMMA OCancelAllStep ==
  ASSUME OInv, g_attrib_cancel_all
  PROVE  OInv'
<1> DEFINE rq == cancel_all_per_queue(attrib.requests)
           rs == cancel_all_per_queue(attrib.responses)
           N == {c.id : c \in ToSet(attrib.requests \o attrib.responses)}
<1>1. /\ attrib' = [attrib EXCEPT !.requests = rq, !.responses = rs]
      /\ leaked' = leaked + Held(attrib.requests)
      /\ cancelled' = cancelled \cup N /\ last' = NoCall /\ app' = app
  BY DEF g_attrib_cancel_all, Held
<1>2. IInv' BY CancelAllStep DEF OInv
<1>3. attrib.requests \in Seq(Command) /\ attrib.responses \in Seq(Command)
  BY OFacts, FieldTypes
<1>4. /\ rq \in Seq(Command) /\ Thins(rq, attrib.requests) /\ Held(rq) = 0
      /\ rs \in Seq(Command) /\ Thins(rs, attrib.responses)
      /\ \A j \in DOMAIN rq : ~ rq[j].func
  BY <1>3, CancelAllOwners
<1> HIDE DEF rq, rs
<1>5. /\ attrib'.requests = rq /\ attrib'.responses = rs
      /\ attrib'.next_cmd_id = attrib.next_cmd_id /\ attrib'.refs = attrib.refs
      /\ attrib'.write_watch = attrib.write_watch
  BY <1>1, OFacts DEF GAttribRecord
<1>6. Ids(attrib', cancelled)
  <2>1. attrib'.next_cmd_id \in Nat /\ attrib'.next_cmd_id >= attrib.next_cmd_id
    BY <1>5, OFacts, FieldTypes
  <2> QED BY <1>4, <1>5, <2>1, OFacts, IdsThin
<1>7. \A k \in N : k \in Nat /\ k <= attrib.next_cmd_id
  <2>1. \A d \in Command : d.id \in Nat BY DEF Command
  <2>2. \A d \in ToSet(attrib.requests \o attrib.responses) :
          \/ \E j \in DOMAIN attrib.requests : d = attrib.requests[j]
          \/ \E j \in DOMAIN attrib.responses : d = attrib.responses[j]
    BY <1>3, ConcatElements
  <2>3. \A j \in DOMAIN attrib.requests :
          attrib.requests[j].id \in Nat /\ attrib.requests[j].id <= attrib.next_cmd_id
    BY <1>3, <2>1, OFacts DEF Ids, Upto
  <2>4. \A j \in DOMAIN attrib.responses :
          attrib.responses[j].id \in Nat /\ attrib.responses[j].id <= attrib.next_cmd_id
    BY <1>3, <2>1, OFacts DEF Ids, Upto
  <2> QED BY <2>2, <2>3, <2>4
<1> HIDE DEF N
<1>8. Wanted(rq, cancelled \cup N) BY <1>4, <1>5, <1>6 DEF Ids, Wanted
<1>9. Ids(attrib', cancelled') BY <1>1, <1>5, <1>6, <1>7, <1>8 DEF Ids
<1>10. Excess(attrib') = One(app) + leaked'
  <2>1. attrib' \in CountedRecord BY <1>2, CountedLemma DEF IInv, TypeOK
  <2>2. /\ Excess(attrib) = attrib.refs - One(attrib.write_watch) - Held(attrib.requests)
        /\ Excess(attrib') = attrib'.refs - One(attrib'.write_watch) - Held(attrib'.requests)
        /\ attrib.refs \in Int /\ Held(attrib.requests) \in Nat
    BY <2>1, OFacts, FieldTypes
  <2>3. One(attrib.write_watch) \in Nat BY DEF One
  <2> QED BY <1>1, <1>4, <1>5, <2>2, <2>3, OFacts
<1> QED BY <1>1, <1>2, <1>9, <1>10, NobodyCalled DEF OInv

\* The application drops its reference.
LEMMA ODisconnectStep ==
  ASSUME OInv, Disconnect
  PROVE  OInv'
<1>1. /\ app /\ attrib' = g_attrib_unref(attrib) /\ app' = FALSE /\ last' = NoCall
      /\ UNCHANGED <<leaked, cancelled>>
  BY DEF Disconnect
<1>2. IInv' BY DisconnectStep DEF OInv
<1>3. Excess(attrib) = 1 + leaked /\ leaked \in Nat BY <1>1, OFacts DEF One
<1>4. Ids(attrib', cancelled) /\ Excess(attrib') = Excess(attrib) - 1
  BY <1>1, <1>3, OFacts, UnrefOwners
<1>5. Excess(attrib') = One(app') + leaked' BY <1>1, <1>3, <1>4 DEF One
<1> QED BY <1>1, <1>2, <1>4, <1>5, NobodyCalled DEF OInv

\* Only requests expect an answer, so what WriteRequest writes is one.
LEMMA OnlyRequestsWritten ==
  ASSUME IInv, WriteRequest
  PROVE  attrib.responses = <<>> /\ SendQueue = "requests"
<1>1. SUFFICES ASSUME attrib.responses # <<>> PROVE FALSE BY DEF SendQueue
<1>2. is_response(attrib.responses[1].opcode)
  BY <1>1, IInvFacts, NonEmpty DEF AllResponses
<1>3. SendQueue = "responses" BY <1>1 DEF SendQueue
<1> QED BY <1>2, <1>3, ResponseExpectsNothing DEF WriteRequest

\* can_write_data.
LEMMA OWriteStep ==
  ASSUME OInv, can_write_data
  PROVE  OInv'
<1>1. IInv'
  BY WriteNothingStep, WriteFailsStep, WriteCommandStep, WriteRequestStep
     DEF OInv, can_write_data
<1>2. UNCHANGED <<app, leaked, cancelled>> /\ last' = NoCall /\ attrib.write_watch
  BY DEF can_write_data, WriteNothing, WriteFails, WriteCommand, WriteRequest, ghosts
<1>3. CASE WriteNothing \/ WriteFails
  <2>1. attrib' = destroy_sender(attrib) BY <1>3 DEF WriteNothing, WriteFails
  <2>2. Ids(attrib', cancelled) /\ Excess(attrib') = Excess(attrib)
    BY <1>2, <2>1, OFacts, DestroySenderOwners
  <2> QED BY <1>1, <1>2, <2>2, OFacts, NobodyCalled DEF OInv
<1>4. CASE WriteCommand
  <2> DEFINE q == attrib[SendQueue]
             r == Tail(q)
  <2>1. attrib' = [attrib EXCEPT ![SendQueue] = r] /\ q # <<>>
    BY <1>4 DEF WriteCommand, Sendable
  <2>2. attrib.requests \in Seq(Command) /\ attrib.responses \in Seq(Command)
        /\ attrib.next_cmd_id \in Nat
    BY OFacts, FieldTypes
  <2>3. q \in Seq(Command) BY <2>2 DEF SendQueue
  <2>4. 1 \in 1..Len(q) /\ r \in Seq(Command) /\ Without(r, q, 1)
    BY <2>1, <2>3, TailWithout
  <2>5. Thins(r, q) /\ Held(r) = Held(q) - One(q[1].hold)
    BY <2>3, <2>4, WithoutThins, HeldWithout
  <2>6. attrib' \in CountedRecord BY <1>1, CountedLemma DEF IInv, TypeOK
  <2> HIDE DEF r
  <2>7. CASE attrib.responses # <<>>
    <3>0. SendQueue = "responses" BY <2>7 DEF SendQueue
    <3>1. /\ attrib'.requests = attrib.requests /\ attrib'.responses = r
          /\ attrib'.next_cmd_id = attrib.next_cmd_id /\ attrib'.refs = attrib.refs
          /\ attrib'.write_watch = attrib.write_watch
      BY <2>1, <3>0, OFacts DEF GAttribRecord
    <3>2. Thins(attrib'.responses, attrib.responses) BY <2>5, <3>0, <3>1
    <3>3. Thins(attrib'.requests, attrib.requests) BY <2>2, <3>1, ThinsSelf
    <3>4. attrib'.next_cmd_id \in Nat /\ attrib'.next_cmd_id >= attrib.next_cmd_id
      BY <2>2, <3>1
    <3>5. Ids(attrib', cancelled) BY <3>2, <3>3, <3>4, OFacts, IdsThin
    <3>6. Excess(attrib') = Excess(attrib) BY <2>6, <3>1, OFacts, FieldTypes
    <3> QED BY <1>1, <1>2, <3>5, <3>6, OFacts, NobodyCalled DEF OInv
  <2>8. CASE attrib.responses = <<>>
    <3>0. SendQueue = "requests" BY <2>8 DEF SendQueue
    <3>1. /\ attrib'.requests = r /\ attrib'.responses = attrib.responses
          /\ attrib'.next_cmd_id = attrib.next_cmd_id /\ attrib'.refs = attrib.refs
          /\ attrib'.write_watch = attrib.write_watch
      BY <2>1, <3>0, OFacts DEF GAttribRecord
    <3>2. Thins(attrib'.requests, attrib.requests) BY <2>5, <3>0, <3>1
    <3>3. Thins(attrib'.responses, attrib.responses) BY <2>2, <3>1, ThinsSelf
    <3>4. attrib'.next_cmd_id \in Nat /\ attrib'.next_cmd_id >= attrib.next_cmd_id
      BY <2>2, <3>1
    <3>5. Ids(attrib', cancelled) BY <3>2, <3>3, <3>4, OFacts, IdsThin
    <3>6. ~ q[1].hold
      <4>1. 1 \in DOMAIN attrib.requests BY <2>2, <2>4, <3>0
      <4>2. opcode2expected(q[1].opcode) = "NONE" BY <1>4 DEF WriteCommand
      <4>3. \A op : Discovers(op) => opcode2expected(op) # "NONE"
        BY DEF Discovers, opcode2expected, Expected
      <4> QED BY <3>0, <4>1, <4>2, <4>3, OFacts DEF Ids, Wanted
    <3>7. Held(attrib'.requests) = Held(attrib.requests)
      BY <2>5, <3>0, <3>1, <3>6, OFacts, FieldTypes DEF One
    <3>8. Excess(attrib') = Excess(attrib) BY <2>6, <3>1, <3>7, OFacts, FieldTypes
    <3> QED BY <1>1, <1>2, <3>5, <3>8, OFacts, NobodyCalled DEF OInv
  <2> QED BY <2>7, <2>8
<1>5. CASE WriteRequest
  <2> DEFINE q == attrib.requests
             c == [q[1] EXCEPT !.sent = TRUE]
             r == [q EXCEPT ![1] = c]
             b == [arm_timeout(attrib) EXCEPT !.requests = r]
  <2>1. SendQueue = "requests" BY <1>5, OnlyRequestsWritten DEF OInv
  <2>2. q # <<>> /\ q \in Seq(Command) /\ attrib.responses \in Seq(Command)
    BY <1>5, <2>1, OFacts, FieldTypes DEF WriteRequest, Sendable
  <2>3. 1 \in 1..Len(q) /\ q[1] \in Command /\ DOMAIN q = 1..Len(q) BY <2>2, NonEmpty
  <2>4. attrib' = destroy_sender(b) BY <1>5, <2>1 DEF WriteRequest, arm_timeout
  <2>5. /\ c \in Command /\ c.id = q[1].id /\ c.func = q[1].func /\ c.hold = q[1].hold
        /\ c.opcode = q[1].opcode
    BY <2>3 DEF Command
  <2> HIDE DEF c
  <2>6. /\ r \in Seq(Command) /\ DOMAIN r = DOMAIN q
        /\ \A j \in DOMAIN q : r[j] = IF j = 1 THEN c ELSE q[j]
    BY <2>2, <2>3, <2>5, ExceptSeq, LenProperties
  <2> HIDE DEF r
  <2>7. /\ b \in GAttribRecord /\ b.requests = r /\ b.responses = attrib.responses
        /\ b.next_cmd_id = attrib.next_cmd_id /\ b.refs = attrib.refs
        /\ b.write_watch = attrib.write_watch
    BY <2>6, OFacts DEF arm_timeout, GAttribRecord, WatchId
  <2> HIDE DEF b
  <2>8. \A j \in DOMAIN q : /\ r[j].id = q[j].id /\ r[j].func = q[j].func
                            /\ r[j].hold = q[j].hold /\ r[j].opcode = q[j].opcode
    BY <2>5, <2>6
  <2>9. Ids(b, cancelled)
    BY <2>6, <2>7, <2>8, OFacts DEF Ids, NoDup, Apart, Upto, Wanted
  <2>10. held(r) = held(q) BY <2>6, <2>8 DEF held
  <2>11. b \in CountedRecord BY <2>7, CountedLemma
  <2>12. Held(b.requests) = Held(attrib.requests) BY <2>7, <2>10 DEF Held
  <2>13. Excess(b) = Excess(attrib) BY <2>7, <2>11, <2>12, OFacts, FieldTypes
  <2>14. Ids(attrib', cancelled) /\ Excess(attrib') = Excess(attrib)
    BY <1>2, <2>4, <2>7, <2>9, <2>11, <2>13, OFacts, DestroySenderOwners
  <2> QED BY <1>1, <1>2, <2>14, OFacts, NobodyCalled DEF OInv
<1> QED BY <1>3, <1>4, <1>5 DEF can_write_data

\* Registering handlers, and losing the read watch.
LEMMA ORegisterStep ==
  ASSUME OInv,
         \/ \E e \in Events : g_attrib_register(e) \/ g_attrib_unregister(e)
         \/ g_attrib_unregister_all
         \/ ReceiveStale \/ ReceiveHup
  PROVE  OInv'
<1>1. IInv' BY RegisterStep, ReceiveEndStep DEF OInv
<1>2. UNCHANGED <<app, leaked, cancelled>> /\ last' = NoCall
  BY DEF g_attrib_register, g_attrib_unregister, g_attrib_unregister_all,
         ReceiveStale, ReceiveHup, ghosts
<1>3. \/ \E x : attrib' = [attrib EXCEPT !.events = x]
      \/ \E x : attrib' = [attrib EXCEPT !.read_watch = x]
  BY DEF g_attrib_register, g_attrib_unregister, g_attrib_unregister_all,
         ReceiveStale, ReceiveHup
<1>4. /\ attrib'.requests = attrib.requests /\ attrib'.responses = attrib.responses
      /\ attrib'.next_cmd_id = attrib.next_cmd_id /\ attrib'.refs = attrib.refs
      /\ attrib'.write_watch = attrib.write_watch
  BY <1>3, OFacts DEF GAttribRecord
<1> QED BY <1>1, <1>2, <1>4, OSameStep, NobodyCalled

\* wake_if_queued at most wakes the sender.
LEMMA WakeIfQueuedOwners ==
  ASSUME NEW a \in GAttribRecord, NEW K, Ids(a, K)
  PROVE  LET b == wake_if_queued(a)
         IN  /\ b \in GAttribRecord /\ Ids(b, K) /\ Excess(b) = Excess(a)
             /\ b.requests = a.requests /\ b.responses = a.responses
             /\ b.next_cmd_id = a.next_cmd_id /\ b.stale = a.stale
             /\ b.read_watch = a.read_watch
<1>1. CASE a.requests # <<>> \/ a.responses # <<>>
  <2>1. wake_if_queued(a) = wake_up_sender(a) BY <1>1 DEF wake_if_queued
  <2>2. a \in CountedRecord BY CountedLemma
  <2> QED BY <2>1, <2>2, WakeType, WakeOwners, WakeEffect DEF Keeps
<1>2. CASE ~ (a.requests # <<>> \/ a.responses # <<>>)
  BY <1>2 DEF wake_if_queued
<1> QED BY <1>1, <1>2

\* A failing read.
LEMMA OReadFailsStep ==
  ASSUME OInv, ReadFails
  PROVE  OInv'
<1>1. IInv' BY ReadFailsStep DEF OInv
<1>2. /\ UNCHANGED <<app, leaked, cancelled>> /\ last' = NoCall
      /\ attrib' = wake_if_queued(attrib)
  BY DEF ReadFails, ghosts
<1>3. Ids(attrib', cancelled) /\ Excess(attrib') = Excess(attrib)
  BY <1>2, OFacts, WakeIfQueuedOwners
<1> QED BY <1>1, <1>2, <1>3, OFacts, NobodyCalled DEF OInv

\* A notification or an indication, with the confirmation it may queue.
LEMMA OReceiveEventStep ==
  ASSUME OInv, ReceiveEvent
  PROVE  OInv'
<1>1. IInv' BY ReceiveEventStep DEF OInv
<1>2. /\ UNCHANGED <<app, leaked, cancelled>> /\ last' = NoCall /\ ~ attrib.stale
  BY DEF ReceiveEvent, Receiving, ghosts
<1>3. Ids(attrib', cancelled) /\ Excess(attrib') = Excess(attrib)
  <2>1. CASE attrib' = attrib BY <2>1, OFacts
  <2>2. CASE attrib' = g_attrib_send(attrib, 0, 0, "HANDLE_CNF", FALSE, FALSE)
    <3> DEFINE op == "HANDLE_CNF"
               f == FALSE
               h == FALSE
               s == g_attrib_send(attrib, 0, 0, op, f, h)
    <3>1. op \in Opcode /\ f \in BOOLEAN /\ h \in BOOLEAN /\ One(h) = 0
          /\ (h => f /\ Discovers(op)) /\ (is_response(op) => ~ h) /\ attrib' = s
          /\ (f => opcode2expected(op) # "NONE")
      BY <2>2 DEF Opcode, One
    <3> HIDE DEF op, f, h
    <3>2. Ids(s, cancelled) /\ Excess(s) = Excess(attrib) - One(h)
      BY <1>2, <3>1, OFacts, SendOwners
    <3>3. Excess(attrib) \in Int BY OFacts, FieldTypes
    <3> HIDE DEF s
    <3> QED BY <3>1, <3>2, <3>3
  <2> QED BY <2>1, <2>2 DEF ReceiveEvent
<1> QED BY <1>1, <1>2, <1>3, OFacts, NobodyCalled DEF OInv

\* stop_timeout leaves the identifiers and the count alone.
LEMMA StopTimeoutOwners ==
  ASSUME NEW a \in GAttribRecord
  PROVE  LET b == stop_timeout(a)
         IN  b.next_cmd_id = a.next_cmd_id /\ b.refs = a.refs /\ b.events = a.events
<1>1. CASE a.timeout_watch = "none" BY <1>1 DEF stop_timeout
<1>2. CASE a.timeout_watch # "none" BY <1>2 DEF stop_timeout, GAttribRecord
<1> QED BY <1>1, <1>2

\* A response that nothing waits for.
LEMMA OReceiveUnexpectedStep ==
  ASSUME OInv, ReceiveUnexpected
  PROVE  OInv'
<1> DEFINE s == stop_timeout(attrib)
<1>1. IInv' BY ReceiveUnexpectedStep DEF OInv
<1>2. UNCHANGED <<app, leaked, cancelled>> /\ last' = NoCall
  BY DEF ReceiveUnexpected, ghosts
<1>3. /\ s \in GAttribRecord /\ s.requests = attrib.requests
      /\ s.responses = attrib.responses /\ s.write_watch = attrib.write_watch
      /\ s.next_cmd_id = attrib.next_cmd_id /\ s.refs = attrib.refs
  BY OFacts, StopTimeoutLemma, StopTimeoutOwners
<1>4. PICK x : attrib' = [s EXCEPT !.read_watch = x] BY DEF ReceiveUnexpected
<1> HIDE DEF s
<1>5. /\ attrib'.requests = s.requests /\ attrib'.responses = s.responses
      /\ attrib'.next_cmd_id = s.next_cmd_id /\ attrib'.refs = s.refs
      /\ attrib'.write_watch = s.write_watch
  BY <1>3, <1>4 DEF GAttribRecord
<1> QED BY <1>1, <1>2, <1>3, <1>5, OSameStep, NobodyCalled

\* A response that completes the head, with its callback.
LEMMA OReceiveResponseStep ==
  ASSUME OInv, ReceiveResponse
  PROVE  OInv'
<1> DEFINE q  == attrib.requests
           c  == q[1]
           ok == rx[1].op = opcode2expected(c.opcode)
           s  == stop_timeout(attrib)
           t  == Tail(q)
           a  == [s EXCEPT !.requests = t]
           w  == wake_if_queued(a)
<1>1. IInv' BY ReceiveResponseStep DEF OInv
<1>2. /\ UNCHANGED <<app, leaked, cancelled>> /\ q # <<>> /\ ~ attrib.stale
      /\ last' = [called |-> IF c.func THEN {Tag(c)} ELSE {}, rsp |-> rx[1].tag]
  BY DEF ReceiveResponse, Receiving, ghosts
<1>3. /\ s \in GAttribRecord /\ s.requests = q
      /\ s.responses = attrib.responses /\ s.write_watch = attrib.write_watch
      /\ s.next_cmd_id = attrib.next_cmd_id /\ s.refs = attrib.refs /\ s.stale = attrib.stale
  BY OFacts, StopTimeoutLemma, StopTimeoutOwners
<1>4. q \in Seq(Command) /\ attrib.responses \in Seq(Command) /\ attrib.next_cmd_id \in Nat
  BY OFacts, FieldTypes
<1>5. /\ 1 \in 1..Len(q) /\ DOMAIN q = 1..Len(q) /\ c \in Command
      /\ t \in Seq(Command) /\ Without(t, q, 1)
  BY <1>2, <1>4, TailWithout
<1>6. Thins(t, q) /\ Held(t) = Held(q) - One(c.hold) BY <1>4, <1>5, WithoutThins, HeldWithout
<1>7. PICK r \in Reactions(c, ok) : attrib' = run_callback(w, c, r)
  BY <1>3 DEF ReceiveResponse
<1>8. ok \in BOOLEAN OBVIOUS
<1>9. /\ c.id \in Nat /\ c.id <= attrib.next_cmd_id /\ (c.func => c.id \notin cancelled)
      /\ (c.hold => c.func) /\ c.func \in BOOLEAN /\ c.hold \in BOOLEAN
      /\ \A j \in DOMAIN attrib.responses : attrib.responses[j].id # c.id
  BY <1>5, OFacts DEF Ids, Upto, Wanted, Apart, Command
<1>10. \A j \in DOMAIN t : t[j].id # c.id
  <2> SUFFICES ASSUME NEW j \in DOMAIN t PROVE t[j].id # c.id OBVIOUS
  <2>1. j \in 1..Len(q) - 1 /\ t[j] = q[j + 1] BY <1>4, <1>5 DEF Without
  <2>2. j + 1 \in DOMAIN q /\ j + 1 # 1 BY <1>4, <1>5, <2>1
  <2> QED BY <1>5, <2>1, <2>2, OFacts DEF Ids, NoDup
<1> HIDE DEF ok, s, t
<1>11. /\ a \in GAttribRecord /\ a.requests = t /\ a.responses = attrib.responses
       /\ a.next_cmd_id = attrib.next_cmd_id /\ a.refs = attrib.refs
       /\ a.write_watch = attrib.write_watch /\ a.stale = attrib.stale
  BY <1>3, <1>5 DEF GAttribRecord
<1> HIDE DEF a
<1>12. Ids(a, cancelled)
  <2>1. a.next_cmd_id \in Nat /\ a.next_cmd_id >= attrib.next_cmd_id BY <1>4, <1>11
  <2>2. Thins(a.requests, attrib.requests) /\ Thins(a.responses, attrib.responses)
    BY <1>4, <1>6, <1>11, ThinsSelf
  <2> QED BY <2>1, <2>2, OFacts, IdsThin
<1>13. Excess(a) = Excess(attrib) + One(c.hold) /\ Excess(attrib) \in Int /\ One(c.hold) \in Nat
  <2>1. a \in CountedRecord BY <1>11, CountedLemma
  <2>2. /\ attrib.refs \in Int /\ Held(q) \in Nat
        /\ Excess(attrib) = attrib.refs - One(attrib.write_watch) - Held(q)
        /\ Excess(a) = a.refs - One(a.write_watch) - Held(a.requests)
    BY <2>1, OFacts, FieldTypes
  <2>3. One(attrib.write_watch) \in Nat /\ One(c.hold) \in Nat BY DEF One
  <2> HIDE DEF c
  <2> QED BY <1>6, <1>11, <2>2, <2>3
<1>14. /\ w \in GAttribRecord /\ Ids(w, cancelled) /\ Excess(w) = Excess(a)
       /\ w.requests = t /\ w.responses = attrib.responses
       /\ w.next_cmd_id = attrib.next_cmd_id /\ w.stale = attrib.stale
  BY <1>11, <1>12, WakeIfQueuedOwners
<1> HIDE DEF w
<1>15. Unused(w, c.id) BY <1>9, <1>10, <1>14 DEF Unused
<1>16. Excess(w) >= One(c.hold) /\ ~ w.stale BY <1>2, <1>13, <1>14, OFacts
<1> HIDE DEF c
<1>17. Ids(attrib', cancelled) /\ Excess(attrib') = Excess(w) - One(c.hold)
  BY <1>5, <1>7, <1>8, <1>9, <1>14, <1>15, <1>16, CallbackOwners
<1>18. Excess(attrib') = Excess(attrib) BY <1>13, <1>14, <1>17
<1>19. CancelledNotCalled'
  <2>1. \A x \in last'.called : c.func /\ x.id = c.id BY <1>2 DEF Tag
  <2> QED BY <1>2, <1>9, <2>1 DEF CancelledNotCalled
<1> QED BY <1>1, <1>2, <1>17, <1>18, <1>19, OFacts DEF OInv

\* disconnect_timeout: the procedures of the drained requests drop their
\* references, and none of them was cancelled.
LEMMA OTimeoutStep ==
  ASSUME OInv, disconnect_timeout
  PROVE  OInv' /\ attrib'.next_cmd_id >= attrib.next_cmd_id
<1>1. PICK again \in SUBSET {i \in DOMAIN attrib.requests : attrib.requests[i].func} :
        attrib' = g_attrib_unref(
            [Drain(g_attrib_ref(attrib), again) EXCEPT
                !.stale = TRUE, !.timeout_watch = "dangling"])
  BY DEF disconnect_timeout
<1>2. /\ UNCHANGED <<app, leaked, cancelled>>
      /\ last' = [called |-> {Tag(c) : c \in {d \in ToSet(attrib.requests) : d.func}},
                  rsp |-> NoTag]
  BY DEF disconnect_timeout, ghosts
<1>3. IInv' BY TimeoutStep DEF OInv
<1> DEFINE q == attrib.requests
           a == g_attrib_ref(attrib)
           n == Cardinality(again)
           x == a.refs - Held(a.requests)
           y == a.next_cmd_id + n
           b == [a EXCEPT !.refs = x, !.requests = <<>>, !.next_cmd_id = y]
           d == Drain(a, again)
           e == [d EXCEPT !.stale = TRUE, !.timeout_watch = "dangling"]
<1>4. /\ a \in CountedRecord /\ a.requests = q /\ a.responses = attrib.responses
      /\ a.next_cmd_id = attrib.next_cmd_id
      /\ a.refs = attrib.refs + 1 /\ a.write_watch = attrib.write_watch
  BY OFacts, RefEffect DEF Keeps
<1>5. q \in Seq(Command) /\ attrib.responses \in Seq(Command) /\ attrib.next_cmd_id \in Nat
      /\ attrib.refs \in Int /\ Held(q) \in Nat
      /\ Excess(attrib) = attrib.refs - One(attrib.write_watch) - Held(q)
  BY OFacts, FieldTypes
<1>6. n \in Nat
  <2>1. again \in SUBSET DOMAIN attrib.requests OBVIOUS
  <2> QED BY <1>5, <2>1, HeldFinite
<1>7. d = IF again = {Len(a.requests)} THEN wake_up_sender(b) ELSE b BY DEF Drain, Held
<1>8. attrib' = g_attrib_unref(e) BY <1>1
<1> HIDE DEF a, n, d
<1>9. x \in Int /\ y \in Nat /\ y >= attrib.next_cmd_id BY <1>4, <1>5, <1>6
<1>10. x = attrib.refs + 1 - Held(q)
  <2>1. Held(a.requests) = Held(q) BY <1>4
  <2>2. a.refs = attrib.refs + 1 BY <1>4
  <2> HIDE DEF q
  <2> QED BY <1>5, <2>1, <2>2
<1> HIDE DEF x, y
<1>11. <<>> \in Seq(Command) OBVIOUS
<1>12. /\ b \in CountedRecord /\ b.requests = <<>> /\ b.responses = attrib.responses
       /\ b.next_cmd_id = y /\ b.refs = x /\ b.write_watch = attrib.write_watch
  BY <1>4, <1>9, <1>11 DEF CountedRecord
<1> HIDE DEF b
<1>13. Ids(b, cancelled)
  <2>1. Thins(b.requests, attrib.requests) /\ Thins(b.responses, attrib.responses)
    BY <1>5, <1>12, ThinsSelf
  <2> QED BY <1>9, <1>12, <2>1, OFacts, IdsThin
<1>14. Excess(b) = Excess(attrib) + 1
  <2>1. Excess(b) = b.refs - One(b.write_watch) - Held(b.requests) BY <1>12, FieldTypes
  <2>2. One(attrib.write_watch) \in Nat BY DEF One
  <2>3. Held(b.requests) = 0 BY <1>12, HeldEmpty
  <2> QED BY <1>5, <1>10, <1>12, <2>1, <2>2, <2>3
<1>15. /\ d \in CountedRecord /\ Ids(d, cancelled) /\ Excess(d) = Excess(b)
       /\ d.next_cmd_id = y
  BY <1>7, <1>12, <1>13, WakeOwners, WakeEffect DEF Keeps
<1>16. /\ e \in CountedRecord /\ e.requests = d.requests /\ e.responses = d.responses
       /\ e.next_cmd_id = d.next_cmd_id /\ e.refs = d.refs /\ e.write_watch = d.write_watch
  BY <1>15 DEF CountedRecord, WatchId
<1> HIDE DEF e
<1>17. Ids(e, cancelled) /\ Held(e.requests) = Held(d.requests) BY <1>15, <1>16 DEF Ids
<1>18. Excess(e) = Excess(d) BY <1>15, <1>16, <1>17, FieldTypes
<1>19. Excess(e) = Excess(attrib) + 1 /\ Excess(attrib) \in Int /\ Excess(e) >= 1
  BY <1>14, <1>15, <1>18, OFacts
<1>20. Ids(attrib', cancelled) /\ Excess(attrib') = Excess(attrib)
  BY <1>8, <1>16, <1>17, <1>19, UnrefOwners
<1>21. CancelledNotCalled'
  <2> SUFFICES ASSUME NEW k \in last'.called PROVE k.id \notin cancelled
    BY <1>2 DEF CancelledNotCalled
  <2>1. PICK c \in ToSet(q) : c.func /\ k = Tag(c) BY <1>2
  <2>2. PICK i \in DOMAIN q : c = q[i] BY <1>5, <2>1 DEF ToSet
  <2>3. k.id = c.id BY <2>1 DEF Tag
  <2> QED BY <2>1, <2>2, <2>3, OFacts DEF Ids, Wanted
<1>22. attrib'.next_cmd_id = y
  BY <1>8, <1>15, <1>16, UnrefEffect DEF Keeps, Freed
<1> QED BY <1>2, <1>3, <1>9, <1>20, <1>21, <1>22, OFacts DEF OInv
-----------------------------------------------------------------------------
\* Every step keeps the invariant.
LEMMA ONext ==
  ASSUME OInv, [Next]_vars
  PROVE  OInv'
<1>1. CASE Application
  BY <1>1, OSendStep, OCancelStep, OCancelAllStep, ORegisterStep, ODisconnectStep
     DEF Application
<1>2. CASE can_write_data BY <1>2, OWriteStep
<1>3. CASE received_data
  BY <1>3, ORegisterStep, OReadFailsStep, OReceiveEventStep, OReceiveUnexpectedStep,
     OReceiveResponseStep DEF received_data
<1>4. CASE disconnect_timeout BY <1>4, OTimeoutStep
<1>5. CASE Peer
  <2>1. UNCHANGED <<attrib, app, leaked, cancelled>> /\ last' = NoCall
    BY <1>5 DEF Peer, PeerReply, PeerPush, PeerStray, Hup, ghosts
  <2>2. IInv' BY <1>5, PeerStep DEF OInv
  <2> QED BY <2>1, <2>2, OSameStep, NobodyCalled
<1>6. CASE UNCHANGED vars
  <2>1. UNCHANGED <<attrib, app, leaked, cancelled, last>> BY <1>6 DEF vars
  <2>2. IInv' BY <1>6, NextInv DEF OInv
  <2>3. CancelledNotCalled' BY <2>1 DEF OInv, CancelledNotCalled
  <2> QED BY <2>1, <2>2, <2>3, OSameStep
<1> QED BY <1>1, <1>2, <1>3, <1>4, <1>5, <1>6 DEF Next, MainLoop

\* A new bearer has one reference, the application's.
LEMMA OInit == Init => OInv
<1> SUFFICES ASSUME Init PROVE OInv OBVIOUS
<1>1. IInv BY InitInv
<1>2. /\ attrib.requests = <<>> /\ attrib.responses = <<>> /\ attrib.refs = 1
      /\ ~ attrib.write_watch /\ app /\ leaked = 0 /\ cancelled = {} /\ last = NoCall
  BY DEF Init
<1>3. Ids(attrib, cancelled)
  <2>1. DOMAIN attrib.requests = {} /\ DOMAIN attrib.responses = {} BY <1>2
  <2> QED BY <1>2, <2>1 DEF Ids, NoDup, Apart, Upto, Wanted
<1>4. CancelledNotCalled BY <1>2 DEF CancelledNotCalled, NoCall
<1>5. Excess(attrib) = One(app) + leaked
  <2>1. attrib \in CountedRecord BY <1>1, CountedLemma DEF IInv, TypeOK
  <2>2. Excess(attrib) = attrib.refs - One(attrib.write_watch) - Held(attrib.requests)
    BY <2>1, FieldTypes
  <2> QED BY <1>2, <2>2, HeldEmpty DEF One
<1> QED BY <1>1, <1>3, <1>4, <1>5 DEF OInv

\* The invariant implies those that the runs check.
LEMMA OImplies == OInv => DistinctIds /\ RefsAccounted /\ CancelledNotCalled
<1> SUFFICES ASSUME OInv PROVE DistinctIds /\ RefsAccounted /\ CancelledNotCalled
  OBVIOUS
<1>1. CancelledNotCalled BY DEF OInv
<1> DEFINE p == attrib.requests
           r == attrib.responses
<1>2. /\ p \in Seq(Command) /\ r \in Seq(Command) /\ attrib.refs \in Int /\ Held(p) \in Nat
      /\ Excess(attrib) = attrib.refs - One(attrib.write_watch) - Held(p)
  BY OFacts, FieldTypes
<1>3. RefsAccounted
  <2>1. One(app) \in Nat /\ One(attrib.write_watch) \in Nat BY DEF One
  <2>2. attrib.refs = One(app) + One(attrib.write_watch) + Held(p) + leaked
    BY <1>2, <2>1, OFacts
  <2> QED BY <2>2 DEF RefsAccounted, One, Held
<1>4. DistinctIds
  <2>1. NoDup(p) /\ NoDup(r) /\ Apart(p, r) BY OFacts DEF Ids
  <2> HIDE DEF p, r
  <2>2. PICK q \in Seq(Command) : q = p \o r BY <1>2, ConcatProperties
  <2>3. /\ Len(q) = Len(p) + Len(r) /\ Len(p) \in Nat /\ Len(r) \in Nat
        /\ DOMAIN p = 1..Len(p) /\ DOMAIN r = 1..Len(r) /\ DOMAIN q = 1..Len(q)
        /\ \A i \in 1..Len(q) : q[i] = IF i <= Len(p) THEN p[i] ELSE r[i - Len(p)]
    BY <1>2, <2>2, ConcatAt
  <2>4. ASSUME NEW i \in DOMAIN q, NEW j \in DOMAIN q, q[i].id = q[j].id PROVE i = j
    <3>1. CASE i <= Len(p) /\ j <= Len(p)
      BY <2>3, <2>1, <2>4, <3>1 DEF NoDup
    <3>2. CASE i <= Len(p) /\ ~ j <= Len(p)
      <4>1. i \in DOMAIN p /\ j - Len(p) \in DOMAIN r BY <2>3, <3>2
      <4> QED BY <2>3, <2>1, <2>4, <3>2, <4>1 DEF Apart
    <3>3. CASE ~ i <= Len(p) /\ j <= Len(p)
      <4>1. j \in DOMAIN p /\ i - Len(p) \in DOMAIN r BY <2>3, <3>3
      <4> QED BY <2>3, <2>1, <2>4, <3>3, <4>1 DEF Apart
    <3>4. CASE ~ i <= Len(p) /\ ~ j <= Len(p)
      <4>1. i - Len(p) \in DOMAIN r /\ j - Len(p) \in DOMAIN r BY <2>3, <3>4
      <4>2. i - Len(p) = j - Len(p) BY <2>3, <2>1, <2>4, <3>4, <4>1 DEF NoDup
      <4> QED BY <2>3, <4>2
    <3> QED BY <3>1, <3>2, <3>3, <3>4
  <2> QED BY <2>2, <2>4 DEF DistinctIds, p, r
<1> QED BY <1>1, <1>3, <1>4

(***************************************************************************)
(* The theorems.                                                           *)
(***************************************************************************)
\* The identifiers, the cancelled commands and the references stay in order.
THEOREM OwnersInvariant == Spec => []OInv
<1>1. Init => OInv BY OInit
<1>2. OInv /\ [Next]_vars => OInv' BY ONext
<1> QED BY <1>1, <1>2, PTL DEF Spec

\* g_attrib_cancel finds the command it is asked for: no two commands in the
\* queues have the same identifier, although a long read reuses its own.
THEOREM IdentifiersDistinct == Spec => []DistinctIds
BY OwnersInvariant, OImplies, PTL

\* Every reference has an owner: g_attrib_unref frees the bearer exactly when
\* the application, the write watch and all procedures have dropped theirs.
THEOREM ReferencesOwned == Spec => []RefsAccounted
BY OwnersInvariant, OImplies, PTL

\* No response and no timeout calls back a command that was cancelled.
THEOREM CancelIsFinal == Spec => []CancelledNotCalled
BY OwnersInvariant, OImplies, PTL
=============================================================================
