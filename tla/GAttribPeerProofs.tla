------------------------- MODULE GAttribPeerProofs -------------------------
(***************************************************************************)
(* Proofs about the bearer of GAttrib and a peer that answers each request *)
(* once: which request is outstanding, to whom its response goes, that the *)
(* bearer keeps listening for it, and that it implements AttBearer.        *)
(***************************************************************************)
EXTENDS GAttribProofs

\* The tag of the request on the air, if there is one.
Air(a) == IF HSent(a) THEN {Tag(a.requests[1])} ELSE {}

Answers(r) == {i \in DOMAIN r : is_response(r[i].op)}

\* A peer with the requests box to answer owes, or has sent (unread are the
\* PDUs in the socket), one response for each of the tags T, at most one.
Owed(T, box, unread) ==
  \/ T = {} /\ box = <<>> /\ Answers(unread) = {}
  \/ \E t \in T : T = {t} /\ box = <<t>> /\ Answers(unread) = {}
  \/ \E t \in T, i \in DOMAIN unread :
       T = {t} /\ box = <<>> /\ Answers(unread) = {i} /\ unread[i].tag = t

PduRecord == [op : Opcode, handle : {p.handle : p \in Pushes} \cup {"NO_HANDLE"},
              tag : TagRecord \cup {NoTag}]

\* The link: the application owns its reference while the channel is open, and
\* what the peer has to answer are requests.
Link ==
  /\ io = "open" => app = TRUE
  /\ rx \in Seq(PduRecord)
  /\ \A i \in DOMAIN inbox : opcode2expected(inbox[i].op) # "NONE"

\* What an open, usable bearer has with a polite peer.
Attentive ==
  Polite /\ io = "open" /\ ~ attrib.stale =>
    Owed(Air(attrib), inbox, rx) /\ attrib.read_watch = "armed"

\* The inductive invariant.
PInv == OInv /\ Link /\ Attentive /\ RightResponse
-----------------------------------------------------------------------------
(***************************************************************************)
(* What the functions of gattrib.c leave on the air.                       *)
(***************************************************************************)
\* The record is freed, or has the same on the air and listens as before.
Listens(b, a) ==
  b.refs > 0 => Air(b) = Air(a) /\ b.stale = a.stale /\ b.read_watch = a.read_watch

\* What is on the air depends on the queue of the requests only.
LEMMA AirSame == ASSUME NEW a, NEW b, b.requests = a.requests PROVE Air(b) = Air(a)
BY DEF Air, HSent

\* Dropping a reference.
LEMMA UnrefListens ==
  ASSUME NEW a \in CountedRecord
  PROVE  Listens(g_attrib_unref(a), a)
<1> DEFINE b == g_attrib_unref(a)
<1>1. CASE a.refs > 1
  <2>1. Keeps(b, a) BY <1>1, UnrefEffect
  <2> HIDE DEF b
  <2>2. Air(b) = Air(a) BY <2>1, AirSame DEF Keeps
  <2> QED BY <2>1, <2>2 DEF Keeps, Listens, b
<1>2. CASE ~ a.refs > 1
  <2>1. Freed(b, a) BY <1>2, UnrefEffect
  <2> QED BY <2>1 DEF Freed, Listens
<1> QED BY <1>1, <1>2

\* Dropping the write watch.
LEMMA DestroySenderListens ==
  ASSUME NEW a \in CountedRecord
  PROVE  Listens(destroy_sender(a), a)
<1> DEFINE b == [a EXCEPT !.write_watch = FALSE]
<1>1. b \in CountedRecord /\ Keeps(b, a) BY DEF CountedRecord, Keeps
<1>2. destroy_sender(a) = g_attrib_unref(b) BY DEF destroy_sender
<1> HIDE DEF b
<1>3. Air(b) = Air(a) BY <1>1, AirSame DEF Keeps
<1> QED BY <1>1, <1>2, <1>3, UnrefListens DEF Keeps, Listens

\* A new command does not change what is on the air: it goes behind it, or to
\* the head of a queue of which nothing is.
LEMMA EnqueueAir ==
  ASSUME NEW q \in Seq(Command), NEW c \in Command, ~ c.sent, NEW atHead \in BOOLEAN,
         atHead => ~ QSent(q), NEW a, a.requests = q,
         NEW b, b.requests = enqueue(q, c, atHead)
  PROVE  Air(b) = Air(a)
<1> DEFINE r == enqueue(q, c, atHead)
<1>1. CASE atHead
  <2>1. r = <<c>> \o q BY <1>1 DEF enqueue
  <2>2. r[1] = c BY <2>1, HeadWithout
  <2> HIDE DEF r
  <2> QED BY <1>1, <2>2 DEF Air, HSent, QSent, r
<1>2. CASE ~ atHead
  <2>1. r = Append(q, c) BY <1>2 DEF enqueue
  <2>2. /\ r \in Seq(Command) /\ Len(r) = Len(q) + 1 /\ r[Len(q) + 1] = c
        /\ \A j \in 1..Len(q) : r[j] = q[j] /\ r # <<>>
    BY <2>1, AppendProperties
  <2> HIDE DEF r
  <2>3. CASE q = <<>>
    <3>1. Len(q) + 1 = 1 BY <2>3
    <3>2. r[1] = c BY <2>2, <3>1
    <3> QED BY <2>3, <3>2 DEF Air, HSent, r
  <2>4. CASE q # <<>>
    <3>1. r # <<>> /\ r[1] = q[1] BY <2>2, <2>4, NonEmpty
    <3> QED BY <2>4, <3>1 DEF Air, HSent, r
  <2> QED BY <2>3, <2>4
<1> QED BY <1>1, <1>2

\* g_attrib_send.
LEMMA SendListens ==
  ASSUME NEW a \in GAttribRecord,
         NEW id \in Nat, NEW part \in Nat, NEW op \in Opcode,
         NEW func \in BOOLEAN, NEW hold \in BOOLEAN,
         id # 0 => Air(a) = {}
  PROVE  LET b == g_attrib_send(a, id, part, op, func, hold)
         IN  Air(b) = Air(a) /\ b.stale = a.stale /\ b.read_watch = a.read_watch
<1>1. CASE a.stale BY <1>1 DEF g_attrib_send
<1>2. CASE ~ a.stale
  <2> DEFINE b == g_attrib_send(a, id, part, op, func, hold)
             c == NewCommand(a, id, part, op, func, hold)
  <2>1. /\ c \in Command /\ b.stale = a.stale /\ b.read_watch = a.read_watch
        /\ b.requests = IF is_response(op) THEN a.requests
                        ELSE enqueue(a.requests, c, id # 0)
    BY <1>2, SendEffect
  <2>2. ~ c.sent /\ a.requests \in Seq(Command) BY DEF NewCommand, GAttribRecord
  <2>3. Air(a) = {} => ~ QSent(a.requests) BY DEF Air, HSent, QSent
  <2> HIDE DEF b, c
  <2>4. CASE is_response(op)
    <3>1. Air(b) = Air(a) BY <2>1, <2>4, AirSame
    <3> QED BY <2>1, <3>1 DEF b
  <2>5. CASE ~ is_response(op)
    <3> DEFINE h == id # 0
    <3>1. b.requests = enqueue(a.requests, c, h) /\ h \in BOOLEAN BY <2>1, <2>5
    <3>2. h => ~ QSent(a.requests) BY <2>3
    <3> HIDE DEF h
    <3>3. Air(b) = Air(a) BY <2>1, <2>2, <3>1, <3>2, EnqueueAir
    <3> QED BY <2>1, <3>3 DEF b
  <2> QED BY <2>4, <2>5
<1> QED BY <1>1, <1>2

\* The functions of gatt.c.
LEMMA GattSendListens ==
  ASSUME NEW a \in GAttribRecord, NEW op \in AppOps
  PROVE  LET b == gatt_send(a, op)
         IN  Air(b) = Air(a) /\ b.stale = a.stale /\ b.read_watch = a.read_watch
<1> DEFINE d == Discovers(op)
           f == op # "WRITE_CMD"
           r == IF d THEN g_attrib_ref(a) ELSE a
<1>1. op \in Opcode BY AppOpsOpcodes
<1>2. d \in BOOLEAN /\ f \in BOOLEAN BY DEF Discovers
<1>3. gatt_send(a, op) = g_attrib_send(r, 0, 0, op, f, d) BY DEF gatt_send
<1> HIDE DEF d, f
<1>4. r \in GAttribRecord /\ Keeps(r, a)
  <2>0. a \in CountedRecord BY CountedLemma
  <2>1. CASE d BY <2>0, <2>1, RefEffect, RefType
  <2>2. CASE ~ d BY <2>2 DEF Keeps
  <2> QED BY <2>1, <2>2
<1> HIDE DEF r
<1>5. Air(r) = Air(a) BY <1>4, AirSame DEF Keeps
<1> QED BY <1>1, <1>2, <1>3, <1>4, <1>5, SendListens DEF Keeps

\* A result callback sends nothing itself.
LEMMA CallbackListens ==
  ASSUME NEW a \in GAttribRecord, NEW c \in Command, NEW ok \in BOOLEAN,
         NEW r \in Reactions(c, ok), Air(a) = {},
         NEW w \in BOOLEAN, Good(a, w), \A i \in 1..Len(a.requests) : Fresh(a.requests, i)
  PROVE  Listens(run_callback(a, c, r), a)
<1> DEFINE b == CASE r.kind = "quiet"    -> a
                  [] r.kind = "continue" -> g_attrib_send(a, c.id, c.part + 1,
                                                 "READ_BLOB_REQ", TRUE, FALSE)
                  [] r.kind = "send"     -> gatt_send(a, r.op)
<1>1. b \in GAttribRecord /\ Air(b) = Air(a) /\ b.stale = a.stale /\ b.read_watch = a.read_watch
  <2>1. CASE r.kind = "quiet" BY <2>1
  <2>2. CASE r.kind = "continue"
    <3> DEFINE id == c.id
               part == c.part + 1
               op == "READ_BLOB_REQ"
               f == TRUE
               h == FALSE
               s == g_attrib_send(a, id, part, op, f, h)
    <3>1. id \in Nat /\ part \in Nat /\ id # 0 BY DEF Command
    <3>2. op \in Opcode /\ f \in BOOLEAN /\ h \in BOOLEAN /\ b = s BY <2>2 DEF Opcode
    <3> HIDE DEF b, id, part, op, f, h
    <3>3. Air(s) = Air(a) /\ s.stale = a.stale /\ s.read_watch = a.read_watch
      BY <3>1, <3>2, SendListens
    <3>4. Good(s, w) BY <3>1, <3>2, SendGood
    <3> HIDE DEF s
    <3> QED BY <3>2, <3>3, <3>4 DEF Good, Sound
  <2>3. CASE r.kind = "send" /\ r.op \in AppOps
    <3>1. b = gatt_send(a, r.op) BY <2>3
    <3> HIDE DEF b
    <3>2. Good(b, w) BY <2>3, <3>1, GattSendGood
    <3> QED BY <2>3, <3>1, <3>2, GattSendListens DEF Good, Sound
  <2>4. \/ r.kind = "quiet" \/ r.kind = "continue"
        \/ r.kind = "send" /\ r.op \in AppOps
    BY DEF Reactions, Quiet
  <2> QED BY <2>1, <2>2, <2>3, <2>4
<1> HIDE DEF b
<1>2. run_callback(a, c, r) = IF c.func /\ c.hold THEN g_attrib_unref(b) ELSE b
  BY DEF run_callback, b
<1>3. b \in CountedRecord BY <1>1, CountedLemma
<1>4. CASE c.func /\ c.hold BY <1>1, <1>2, <1>3, <1>4, UnrefListens DEF Listens
<1>5. CASE ~ (c.func /\ c.hold) BY <1>1, <1>2, <1>5 DEF Listens
<1> QED BY <1>4, <1>5

\* g_attrib_cancel keeps what is on the air, with its tag.
LEMMA CancelAtAir ==
  ASSUME NEW q \in Seq(Command), NEW i \in 1..Len(q), FreshFrom(q, 2),
         NEW a, a.requests = q, NEW b, b.requests = cancel_at(q, i)
  PROVE  Air(b) = Air(a)
<1>0. /\ DOMAIN q = 1..Len(q) /\ \A j \in DOMAIN q : q[j] \in Command
      /\ 1 \in 1..Len(q) /\ q # <<>> /\ Len(q) \in Nat
  OBVIOUS
<1>1. CASE i = 1 /\ q[1].sent
  <2> DEFINE c == forget_callback(q[1])
             r == [q EXCEPT ![1] = c]
  <2>1. cancel_at(q, i) = r BY <1>1 DEF cancel_at
  <2>2. c \in Command /\ c.id = q[1].id /\ c.part = q[1].part /\ c.opcode = q[1].opcode
        /\ c.sent = q[1].sent
    BY <1>0, <1>1, ForgetFields
  <2> HIDE DEF c
  <2>3. r \in Seq(Command) /\ Len(r) = Len(q) /\ r[1] = c
    BY <1>0, <2>2, ExceptSeq
  <2> HIDE DEF r
  <2>4. r # <<>> BY <1>0, <2>3
  <2>5. Tag(r[1]) = Tag(q[1]) BY <2>2, <2>3 DEF Tag
  <2> QED BY <1>0, <1>1, <2>1, <2>2, <2>3, <2>4, <2>5 DEF Air, HSent
<1>2. CASE ~ (i = 1 /\ q[1].sent)
  <2> DEFINE r == RemoveAt(q, i)
  <2>1. cancel_at(q, i) = r BY <1>2 DEF cancel_at
  <2>2. r \in Seq(Command) /\ Without(r, q, i) BY RemoveAtLemma DEF Without
  <2> HIDE DEF r
  <2>3. CASE i = 1
    <3>1. ~ HSent(a) BY <1>2, <2>3 DEF HSent
    <3>2. ~ HSent(b)
      <4> SUFFICES ASSUME r # <<>> PROVE ~ r[1].sent BY <2>1 DEF HSent
      <4>1. 1 \in 1..Len(r) BY <2>2, NonEmpty
      <4>2. 1 \in 1..Len(q) - 1 /\ 2 \in 2..Len(q) BY <1>0, <2>2, <4>1 DEF Without
      <4>3. r[1] = q[2] BY <2>2, <2>3, <4>2 DEF Without
      <4> QED BY <4>2, <4>3 DEF FreshFrom, Fresh
    <3> QED BY <3>1, <3>2 DEF Air
  <2>4. CASE i # 1
    <3>1. 1 \in 1..Len(q) - 1 /\ 1 < i BY <1>0, <2>4
    <3>2. r[1] = q[1] /\ Len(r) # 0 BY <2>2, <3>1 DEF Without
    <3>3. r # <<>> BY <3>2
    <3> QED BY <1>0, <2>1, <3>2, <3>3 DEF Air, HSent
  <2> QED BY <2>3, <2>4
<1> QED BY <1>1, <1>2

\* cancel_all_per_queue does, too.
LEMMA CancelAllAir ==
  ASSUME NEW q \in Seq(Command), NEW a, a.requests = q,
         NEW b, b.requests = cancel_all_per_queue(q)
  PROVE  Air(b) = Air(a)
<1>1. CASE QSent(q)
  <2> DEFINE c == forget_callback(q[1])
  <2>1. q[1] \in Command BY <1>1 DEF QSent
  <2>2. c.id = q[1].id /\ c.part = q[1].part /\ c.opcode = q[1].opcode /\ c.sent = q[1].sent
    BY <2>1, ForgetFields
  <2>3. cancel_all_per_queue(q) = <<c>> BY <1>1 DEF cancel_all_per_queue, QSent
  <2> HIDE DEF c
  <2>4. Tag(c) = Tag(q[1]) BY <2>2 DEF Tag
  <2>5. <<c>>[1] = c /\ <<c>> # <<>> OBVIOUS
  <2> QED BY <1>1, <2>2, <2>3, <2>4, <2>5 DEF Air, HSent, QSent
<1>2. CASE ~ QSent(q)
  <2>1. cancel_all_per_queue(q) = <<>> BY <1>2 DEF cancel_all_per_queue, QSent
  <2> QED BY <1>2, <2>1 DEF Air, HSent, QSent
<1> QED BY <1>1, <1>2
-----------------------------------------------------------------------------
(***************************************************************************)
(* The socket.                                                             *)
(***************************************************************************)
\* A PDU more: one response more, or none.
LEMMA AppendAnswers ==
  ASSUME NEW r \in Seq(PduRecord), NEW p \in PduRecord
  PROVE  LET s == Append(r, p)
             n == Len(r) + 1
         IN  /\ s \in Seq(PduRecord) /\ n \in DOMAIN s /\ s[n] = p
             /\ \A i \in DOMAIN r : i \in DOMAIN s /\ s[i] = r[i]
             /\ Answers(s) = IF is_response(p.op) THEN Answers(r) \cup {n} ELSE Answers(r)
<1> DEFINE s == Append(r, p)
           n == Len(r) + 1
<1>1. /\ s \in Seq(PduRecord) /\ Len(s) = n /\ s[n] = p
      /\ \A i \in 1..Len(r) : s[i] = r[i]
  BY AppendProperties
<1>2. DOMAIN s = 1..n /\ DOMAIN r = 1..Len(r) /\ Len(r) \in Nat BY <1>1, LenProperties
<1>3. \A i \in 1..n : i \in 1..Len(r) \/ i = n BY <1>2
<1>4. n \in 1..n /\ \A i \in 1..Len(r) : i \in 1..n /\ i # n BY <1>2
<1> HIDE DEF s, n
<1>5. Answers(s) = IF is_response(p.op) THEN Answers(r) \cup {n} ELSE Answers(r)
  BY <1>1, <1>2, <1>3, <1>4 DEF Answers
<1> QED BY <1>1, <1>2, <1>4, <1>5 DEF s, n

\* The first PDU is read: the others move up.
LEMMA TailAnswers ==
  ASSUME NEW r \in Seq(PduRecord), r # <<>>
  PROVE  LET s == Tail(r)
         IN  /\ 1 \in DOMAIN r /\ r[1] \in PduRecord /\ s \in Seq(PduRecord)
             /\ \A i \in DOMAIN r : i # 1 => i - 1 \in DOMAIN s /\ s[i - 1] = r[i]
             /\ \A i \in DOMAIN s : i + 1 \in DOMAIN r /\ s[i] = r[i + 1] /\ i + 1 # 1
<1> DEFINE s == Tail(r)
<1>1. /\ s \in Seq(PduRecord) /\ Len(s) = Len(r) - 1
      /\ \A i \in 1..Len(s) : s[i] = r[i + 1]
  BY HeadTailProperties
<1>2. DOMAIN s = 1..Len(s) /\ DOMAIN r = 1..Len(r) /\ Len(r) \in Nat /\ Len(r) # 0
  BY <1>1, LenProperties
<1> HIDE DEF s
<1>3. 1 \in DOMAIN r /\ r[1] \in PduRecord BY <1>2
<1>4. ASSUME NEW i \in DOMAIN r, i # 1 PROVE i - 1 \in DOMAIN s /\ s[i - 1] = r[i]
  <2>1. i - 1 \in 1..Len(s) /\ (i - 1) + 1 = i BY <1>1, <1>2, <1>4
  <2> QED BY <1>1, <1>2, <2>1
<1>5. \A i \in DOMAIN s : i + 1 \in DOMAIN r /\ s[i] = r[i + 1] /\ i + 1 # 1
  BY <1>1, <1>2
<1> QED BY <1>1, <1>3, <1>4, <1>5 DEF s

\* An event is read: what the peer owes stays.
LEMMA OwedEvent ==
  ASSUME NEW T, NEW box, NEW r \in Seq(PduRecord), r # <<>>, ~ is_response(r[1].op),
         Owed(T, box, r)
  PROVE  Owed(T, box, Tail(r))
<1>0. PICK s \in Seq(PduRecord) :
        /\ s = Tail(r) /\ 1 \in DOMAIN r
        /\ \A i \in DOMAIN r : i # 1 => i - 1 \in DOMAIN s /\ s[i - 1] = r[i]
        /\ \A i \in DOMAIN s : i + 1 \in DOMAIN r /\ s[i] = r[i + 1] /\ i + 1 # 1
  BY TailAnswers
<1>1. \A i \in Answers(s) : i + 1 \in Answers(r) BY <1>0 DEF Answers
<1>2. CASE Answers(r) = {} BY <1>0, <1>1, <1>2 DEF Owed
<1>3. ASSUME NEW t \in T, NEW i \in DOMAIN r,
             T = {t}, box = <<>>, Answers(r) = {i}, r[i].tag = t
      PROVE  Owed(T, box, s)
  <2>1. i # 1 BY <1>3 DEF Answers
  <2>2. i - 1 \in DOMAIN s /\ s[i - 1] = r[i] BY <1>0, <2>1
  <2>3. i - 1 \in Answers(s) BY <1>3, <2>2 DEF Answers
  <2>4. \A j \in Answers(s) : j = i - 1
    <3> SUFFICES ASSUME NEW j \in Answers(s) PROVE j = i - 1 OBVIOUS
    <3>1. j + 1 = i /\ j \in DOMAIN s BY <1>1, <1>3 DEF Answers
    <3>2. j \in Int BY <3>1
    <3> QED BY <3>1, <3>2
  <2>5. Answers(s) = {i - 1} BY <2>3, <2>4
  <2> QED BY <1>3, <2>2, <2>5 DEF Owed
<1> QED BY <1>0, <1>2, <1>3 DEF Owed

\* A response is read: it was the one that the peer owed.
LEMMA OwedResponse ==
  ASSUME NEW T, NEW box, NEW r \in Seq(PduRecord), r # <<>>, is_response(r[1].op),
         Owed(T, box, r)
  PROVE  T = {r[1].tag} /\ Owed({}, box, Tail(r))
<1>0. PICK s \in Seq(PduRecord) :
        /\ s = Tail(r) /\ 1 \in DOMAIN r
        /\ \A i \in DOMAIN s : i + 1 \in DOMAIN r /\ s[i] = r[i + 1] /\ i + 1 # 1
  BY TailAnswers
<1>1. 1 \in Answers(r) BY <1>0 DEF Answers
<1>2. PICK t \in T : T = {t} /\ box = <<>> /\ Answers(r) = {1} /\ r[1].tag = t
  BY <1>1 DEF Owed
<1>3. \A i \in Answers(s) : i + 1 \in Answers(r) /\ i + 1 # 1 BY <1>0 DEF Answers
<1>4. Answers(s) = {} BY <1>2, <1>3
<1> QED BY <1>0, <1>2, <1>4 DEF Owed
-----------------------------------------------------------------------------
(***************************************************************************)
(* The actions.                                                            *)
(***************************************************************************)
\* An open channel has a bearer.
LEMMA OpenAlive ==
  ASSUME OInv, Link, io = "open"
  PROVE  attrib.refs > 0
<1>1. Excess(attrib) = One(app) + leaked /\ leaked \in Nat /\ attrib \in CountedRecord BY OFacts
<1>2. /\ attrib.refs \in Int /\ Held(attrib.requests) \in Nat
      /\ Excess(attrib) = attrib.refs - One(attrib.write_watch) - Held(attrib.requests)
  BY <1>1, FieldTypes
<1>3. One(app) = 1 BY DEF Link, One
<1>4. One(attrib.write_watch) \in Nat BY DEF One
<1> QED BY <1>1, <1>2, <1>3, <1>4

\* A step that the peer has no part in.
LEMMA PQuietStep ==
  ASSUME PInv, OInv', UNCHANGED <<io, inbox, rx, app>>, last' = NoCall,
         Listens(attrib', attrib)
  PROVE  PInv'
<1>1. Link' BY DEF PInv, Link
<1>2. RightResponse' BY DEF RightResponse, NoCall, NoTag
<1>3. Attentive'
  <2> SUFFICES ASSUME Polite', io' = "open", ~ attrib'.stale
               PROVE  Owed(Air(attrib'), inbox', rx') /\ attrib'.read_watch = "armed"
    BY DEF Attentive
  <2>1. attrib'.refs > 0
    <3>1. (OInv /\ Link /\ io = "open" => attrib.refs > 0)' BY OpenAlive, PTL
    <3> QED BY <1>1, <3>1
  <2>2. /\ Air(attrib') = Air(attrib) /\ attrib'.stale = attrib.stale
        /\ attrib'.read_watch = attrib.read_watch
    BY <2>1 DEF Listens
  <2> QED BY <2>2 DEF PInv, Attentive, Polite
<1> QED BY <1>1, <1>2, <1>3 DEF PInv

\* An open channel still has a bearer after the step.
LEMMA OpenAliveNext ==
  ASSUME OInv', Link', io' = "open"
  PROVE  attrib'.refs > 0
<1>1. (OInv /\ Link /\ io = "open" => attrib.refs > 0)' BY OpenAlive, PTL
<1> QED BY <1>1

\* What the invariant says of the bearer.
LEMMA PFacts ==
  ASSUME PInv
  PROVE  /\ OInv /\ IInv /\ Link /\ attrib \in GAttribRecord /\ attrib \in CountedRecord
         /\ attrib.requests \in Seq(Command) /\ attrib.responses \in Seq(Command)
         /\ FreshFrom(attrib.requests, 2) /\ AllResponses(attrib.responses)
<1>1. OInv /\ IInv /\ Link BY DEF PInv, OInv
<1>2. attrib \in GAttribRecord /\ attrib \in CountedRecord BY <1>1, OFacts
<1> QED BY <1>1, <1>2, FieldTypes, IInvFacts

\* Calls of the application that leave the channel open.
LEMMA PApplicationStep ==
  ASSUME PInv, OInv', Application, ~ Disconnect
  PROVE  PInv'
<1>1. UNCHANGED <<io, inbox, rx, app>> /\ last' = NoCall
  BY DEF Application, Send, g_attrib_cancel, g_attrib_cancel_all, g_attrib_register,
         g_attrib_unregister, g_attrib_unregister_all, link, ghosts
<1>2. CASE \E op \in AppOps : Send(op)
  <2>1. PICK op \in AppOps : attrib' = gatt_send(attrib, op) BY <1>2 DEF Send
  <2>2. Listens(attrib', attrib) BY <2>1, PFacts, GattSendListens DEF Listens
  <2> QED BY <1>1, <2>2, PQuietStep
<1>3. CASE \E queue \in {"requests", "responses"}, i \in 1..MaxCmds :
             g_attrib_cancel(queue, i)
  <2>1. PICK queue \in {"requests", "responses"}, i \in 1..MaxCmds :
          /\ i \in DOMAIN attrib[queue]
          /\ attrib' = [attrib EXCEPT ![queue] = cancel_at(attrib[queue], i)]
    BY <1>3 DEF g_attrib_cancel
  <2>2. attrib'.stale = attrib.stale /\ attrib'.read_watch = attrib.read_watch
    BY <2>1, PFacts DEF GAttribRecord
  <2>3. CASE queue = "requests"
    <3>1. attrib'.requests = cancel_at(attrib.requests, i) /\ i \in 1..Len(attrib.requests)
      BY <2>1, <2>3, PFacts DEF GAttribRecord
    <3>2. Air(attrib') = Air(attrib) BY <3>1, PFacts, CancelAtAir
    <3> QED BY <1>1, <2>2, <3>2, PQuietStep DEF Listens
  <2>4. CASE queue = "responses"
    <3>1. attrib'.requests = attrib.requests BY <2>1, <2>4, PFacts DEF GAttribRecord
    <3>2. Air(attrib') = Air(attrib) BY <3>1, AirSame
    <3> QED BY <1>1, <2>2, <3>2, PQuietStep DEF Listens
  <2> QED BY <2>3, <2>4
<1>4. CASE g_attrib_cancel_all
  <2>1. /\ attrib'.stale = attrib.stale /\ attrib'.read_watch = attrib.read_watch
        /\ attrib'.requests = cancel_all_per_queue(attrib.requests)
    BY <1>4, PFacts DEF g_attrib_cancel_all, GAttribRecord
  <2>2. Air(attrib') = Air(attrib) BY <2>1, PFacts, CancelAllAir
  <2> QED BY <1>1, <2>1, <2>2, PQuietStep DEF Listens
<1>5. CASE (\E e \in Events : g_attrib_register(e) \/ g_attrib_unregister(e))
             \/ g_attrib_unregister_all
  <2>1. \E x : attrib' = [attrib EXCEPT !.events = x]
    BY <1>5 DEF g_attrib_register, g_attrib_unregister, g_attrib_unregister_all
  <2>2. /\ attrib'.stale = attrib.stale /\ attrib'.read_watch = attrib.read_watch
        /\ attrib'.requests = attrib.requests
    BY <2>1, PFacts DEF GAttribRecord
  <2>3. Air(attrib') = Air(attrib) BY <2>2, AirSame
  <2> QED BY <1>1, <2>2, <2>3, PQuietStep DEF Listens
<1> QED BY <1>2, <1>3, <1>4, <1>5 DEF Application

\* Nothing is said of a channel that is not open.
LEMMA PNotOpenStep ==
  ASSUME PInv, OInv', io' # "open" \/ attrib'.stale, io' = "open" => app' = TRUE,
         rx' \in Seq(PduRecord), inbox' = inbox \/ inbox' = <<>>, RightResponse'
  PROVE  PInv'
<1>1. \A i \in DOMAIN inbox' : opcode2expected(inbox'[i].op) # "NONE"
  BY DEF PInv, Link
<1>2. Link' BY <1>1 DEF Link
<1>3. Attentive' BY DEF Attentive
<1> QED BY <1>2, <1>3 DEF PInv

\* Disconnecting, the end of the link, and the loss of the read watch with it
\* or after a timeout; the timeout itself.
LEMMA PEndStep ==
  ASSUME PInv, OInv', Disconnect \/ Hup \/ ReceiveStale \/ ReceiveHup \/ disconnect_timeout
  PROVE  PInv'
<1>1. RightResponse'
  <2>1. last' = NoCall \/ last'.rsp = NoTag
    <3>1. CASE disconnect_timeout
      <4>1. \E S : last' = [called |-> S, rsp |-> NoTag] BY <3>1 DEF disconnect_timeout
      <4> QED BY <4>1
    <3> QED BY <3>1 DEF Disconnect, Hup, ReceiveStale, ReceiveHup
  <2> QED BY <2>1 DEF RightResponse, NoCall
<1>2. inbox' = inbox \/ inbox' = <<>>
  BY DEF Disconnect, Hup, ReceiveStale, ReceiveHup, disconnect_timeout, link
<1>3. rx' \in Seq(PduRecord)
  <2>1. rx' = rx \/ rx' = <<>>
    BY DEF Disconnect, Hup, ReceiveStale, ReceiveHup, disconnect_timeout, link
  <2>2. <<>> \in Seq(PduRecord) OBVIOUS
  <2> QED BY <2>1, <2>2 DEF PInv, Link
<1>4. (io' # "open" \/ attrib'.stale) /\ (io' = "open" => app' = TRUE)
  <2>1. CASE Disconnect \/ Hup BY <2>1 DEF Disconnect, Hup
  <2>2. CASE ReceiveHup BY <2>2 DEF ReceiveHup, link
  <2>3. CASE ReceiveStale
    <3>1. attrib' = [attrib EXCEPT !.read_watch = "dangling"] /\ attrib.stale BY <2>3 DEF ReceiveStale
    <3>2. attrib'.stale BY <3>1, PFacts DEF GAttribRecord
    <3>3. UNCHANGED <<io, app>> BY <2>3 DEF ReceiveStale, link, ghosts
    <3> QED BY <3>2, <3>3 DEF PInv, Link
  <2>4. CASE disconnect_timeout
    <3>1. UNCHANGED <<io, app>> BY <2>4 DEF disconnect_timeout, link, ghosts
    <3> QED BY <2>4, <3>1, PFacts, TimeoutStep DEF Link
  <2> QED BY <2>1, <2>2, <2>3, <2>4
<1> QED BY <1>1, <1>2, <1>3, <1>4, PNotOpenStep

\* can_write_data and failing reads, but for a request that goes on the air.
LEMMA PWriteStep ==
  ASSUME PInv, OInv', WriteNothing \/ WriteFails \/ WriteCommand \/ ReadFails
  PROVE  PInv'
<1>1. UNCHANGED <<io, inbox, rx, app>> /\ last' = NoCall
  BY DEF WriteNothing, WriteFails, WriteCommand, ReadFails, link, ghosts
<1>2. CASE WriteNothing \/ WriteFails
  <2>1. attrib' = destroy_sender(attrib) BY <1>2 DEF WriteNothing, WriteFails
  <2> QED BY <1>1, <2>1, PFacts, DestroySenderListens, PQuietStep
<1>3. CASE ReadFails
  <2>1. attrib' = wake_if_queued(attrib) BY <1>3 DEF ReadFails
  <2>2. Ids(attrib, cancelled) BY PFacts, OFacts
  <2>3. /\ attrib'.stale = attrib.stale /\ attrib'.read_watch = attrib.read_watch
        /\ attrib'.requests = attrib.requests
    BY <2>1, <2>2, PFacts, WakeIfQueuedOwners
  <2>4. Air(attrib') = Air(attrib) BY <2>3, AirSame
  <2> QED BY <1>1, <2>3, <2>4, PQuietStep DEF Listens
<1>4. CASE WriteCommand
  <2> DEFINE q == attrib[SendQueue]
  <2>1. attrib' = [attrib EXCEPT ![SendQueue] = Tail(q)] /\ q # <<>> /\ ~ q[1].sent
    BY <1>4 DEF WriteCommand, Sendable
  <2>2. attrib'.stale = attrib.stale /\ attrib'.read_watch = attrib.read_watch
    BY <2>1, PFacts DEF SendQueue, GAttribRecord
  <2>3. CASE SendQueue = "responses"
    <3>1. attrib'.requests = attrib.requests BY <2>1, <2>3, PFacts DEF GAttribRecord
    <3>2. Air(attrib') = Air(attrib) BY <3>1, AirSame
    <3> QED BY <1>1, <2>2, <3>2, PQuietStep DEF Listens
  <2>4. CASE SendQueue = "requests"
    <3>1. attrib'.requests = Tail(attrib.requests) BY <2>1, <2>4, PFacts DEF GAttribRecord
    <3>2. FreshFrom(attrib'.requests, 1) /\ attrib'.requests \in Seq(Command)
      BY <2>1, <2>4, <3>1, PFacts, TailLemma
    <3>3. ~ HSent(attrib') BY <3>2, NonEmpty DEF HSent, FreshFrom, Fresh
    <3>4. ~ HSent(attrib) BY <2>1, <2>4 DEF HSent
    <3> QED BY <1>1, <2>2, <3>3, <3>4, PQuietStep DEF Listens, Air
  <2> QED BY <2>3, <2>4 DEF SendQueue
<1> QED BY <1>2, <1>3, <1>4

\* A request goes on the air, when nothing was.
LEMMA PWriteRequestStep ==
  ASSUME PInv, OInv', WriteRequest
  PROVE  PInv'
<1> DEFINE q == attrib.requests
           c == [q[1] EXCEPT !.sent = TRUE]
           r == [q EXCEPT ![1] = c]
           b == [arm_timeout(attrib) EXCEPT !.requests = r]
           t == Tag(q[1])
<1>1. SendQueue = "requests" BY PFacts, OnlyRequestsWritten
<1>2. /\ q # <<>> /\ ~ q[1].sent /\ attrib' = destroy_sender(b) /\ inbox' = Append(inbox, t)
      /\ UNCHANGED <<io, rx, app>> /\ last' = NoCall /\ io = "open" /\ ~ attrib.stale
      /\ opcode2expected(q[1].opcode) # "NONE"
  BY <1>1 DEF WriteRequest, Sendable, arm_timeout, ghosts
<1>3. 1 \in 1..Len(q) /\ q[1] \in Command /\ q \in Seq(Command) BY <1>2, PFacts, NonEmpty
<1>4. c \in Command /\ c.id = q[1].id /\ c.part = q[1].part /\ c.opcode = q[1].opcode /\ c.sent
  BY <1>3 DEF Command
<1>5. Tag(c) = t /\ t.op = q[1].opcode BY <1>4 DEF Tag
<1> HIDE DEF c, t
<1>6. r \in Seq(Command) /\ Len(r) = Len(q) /\ r[1] = c BY <1>3, <1>4, ExceptSeq
<1>7. r # <<>> BY <1>3, <1>6
<1> HIDE DEF r
<1>8. /\ b \in GAttribRecord /\ b.requests = r /\ b.stale = attrib.stale
      /\ b.read_watch = attrib.read_watch
  BY <1>6, PFacts DEF arm_timeout, GAttribRecord, WatchId
<1> HIDE DEF b
<1>9. Air(b) = {t} BY <1>4, <1>5, <1>6, <1>7, <1>8 DEF Air, HSent
<1>10. Air(attrib) = {} BY <1>2 DEF Air, HSent
<1>11. Listens(attrib', b) BY <1>2, <1>8, CountedLemma, DestroySenderListens
<1>12. inbox \in Seq(TagRecord) BY PFacts DEF IInv, TypeOK
<1>13. Link'
  <2>1. \A i \in DOMAIN inbox' : (i \in DOMAIN inbox /\ inbox'[i] = inbox[i]) \/ inbox'[i] = t
    <3>1. t \in TagRecord BY <1>3 DEF t, Tag, TagRecord, Command
    <3> QED BY <1>2, <1>12, <3>1, AppendProperties
  <2>2. \A i \in DOMAIN inbox' : opcode2expected(inbox'[i].op) # "NONE"
    BY <1>2, <1>5, <2>1, PFacts DEF Link
  <2> QED BY <1>2, <2>2, PFacts DEF Link
<1>14. RightResponse' BY <1>2 DEF RightResponse, NoCall
<1>15. Attentive'
  <2> SUFFICES ASSUME Polite'
               PROVE  Owed(Air(attrib'), inbox', rx') /\ attrib'.read_watch = "armed"
    BY DEF Attentive
  <2>1. attrib'.refs > 0 BY <1>2, <1>13, OpenAliveNext
  <2>2. Owed({}, inbox, rx) /\ attrib.read_watch = "armed"
    BY <1>2, <1>10 DEF PInv, Attentive, Polite
  <2>3. inbox = <<>> /\ Answers(rx) = {} BY <2>2 DEF Owed
  <2>4. inbox' = <<t>> BY <1>2, <2>3
  <2>5. Air(attrib') = {t} /\ attrib'.read_watch = "armed"
    BY <1>8, <1>9, <1>11, <2>1, <2>2 DEF Listens
  <2> QED BY <1>2, <2>3, <2>4, <2>5 DEF Owed
<1> QED BY <1>13, <1>14, <1>15 DEF PInv

\* The socket after received_data has taken a PDU.
LEMMA ReceivingFacts ==
  ASSUME PInv, Receiving, rx' = Tail(rx), UNCHANGED <<io, inbox, app>>
  PROVE  /\ Link' /\ rx # <<>> /\ rx \in Seq(PduRecord) /\ io = "open" /\ ~ attrib.stale
         /\ Polite => Owed(Air(attrib), inbox, rx) /\ attrib.read_watch = "armed"
<1>1. rx # <<>> /\ rx \in Seq(PduRecord) /\ io = "open" /\ ~ attrib.stale
  BY PFacts DEF Receiving, Link
<1>2. rx' \in Seq(PduRecord) BY <1>1, TailAnswers
<1> QED BY <1>1, <1>2, PFacts DEF Link, PInv, Attentive

\* A notification or an indication is read.
LEMMA PEventStep ==
  ASSUME PInv, OInv', ReceiveEvent
  PROVE  PInv'
<1>1. /\ Receiving /\ rx' = Tail(rx) /\ UNCHANGED <<io, inbox, app>> /\ last' = NoCall
      /\ ~ is_response(rx[1].op)
  BY DEF ReceiveEvent, ghosts
<1>2. RightResponse' BY <1>1 DEF RightResponse, NoCall
<1>3. Air(attrib') = Air(attrib) /\ attrib'.read_watch = attrib.read_watch
  <2>1. CASE attrib' = attrib BY <2>1
  <2>2. CASE attrib' = g_attrib_send(attrib, 0, 0, "HANDLE_CNF", FALSE, FALSE)
    <3> DEFINE op == "HANDLE_CNF"
               f == FALSE
    <3>1. op \in Opcode /\ f \in BOOLEAN /\ attrib' = g_attrib_send(attrib, 0, 0, op, f, f)
      BY <2>2 DEF Opcode
    <3> HIDE DEF op, f
    <3> QED BY <3>1, PFacts, SendListens
  <2> QED BY <2>1, <2>2 DEF ReceiveEvent
<1>4. Attentive'
  <2> SUFFICES ASSUME Polite'
               PROVE  Owed(Air(attrib'), inbox', rx') /\ attrib'.read_watch = "armed"
    BY DEF Attentive
  <2> QED BY <1>1, <1>3, ReceivingFacts, OwedEvent DEF Polite
<1> QED BY <1>1, <1>2, <1>4, ReceivingFacts DEF PInv

\* With a polite peer no response comes when nothing is queued.
LEMMA PUnexpectedStep ==
  ASSUME PInv, OInv', ReceiveUnexpected
  PROVE  PInv'
<1>1. /\ Receiving /\ rx' = Tail(rx) /\ UNCHANGED <<io, inbox, app>> /\ last' = NoCall
      /\ is_response(rx[1].op) /\ attrib.requests = <<>>
  BY DEF ReceiveUnexpected, ghosts
<1>2. RightResponse' BY <1>1 DEF RightResponse, NoCall
<1>3. Attentive'
  <2> SUFFICES ASSUME Polite PROVE FALSE BY DEF Attentive, Polite
  <2>1. Air(attrib) = {rx[1].tag} BY <1>1, ReceivingFacts, OwedResponse
  <2> QED BY <1>1, <2>1 DEF Air, HSent
<1> QED BY <1>1, <1>2, <1>3, ReceivingFacts DEF PInv

\* A response is read: with a polite peer, that of the request on the air.
LEMMA PResponseStep ==
  ASSUME PInv, OInv', ReceiveResponse
  PROVE  PInv'
<1> DEFINE q  == attrib.requests
           c  == q[1]
           ok == rx[1].op = opcode2expected(c.opcode)
           s  == stop_timeout(attrib)
           u  == Tail(q)
           a  == [s EXCEPT !.requests = u]
           w  == wake_if_queued(a)
<1>1. /\ Receiving /\ rx' = Tail(rx) /\ UNCHANGED <<io, inbox, app>>
      /\ is_response(rx[1].op) /\ q # <<>>
      /\ last' = [called |-> IF c.func THEN {Tag(c)} ELSE {}, rsp |-> rx[1].tag]
  BY DEF ReceiveResponse, ghosts
<1>2. Polite => Air(attrib) = {rx[1].tag} /\ Owed({}, inbox, rx') /\ attrib.read_watch = "armed"
  BY <1>1, ReceivingFacts, OwedResponse
<1>3. RightResponse'
  <2> SUFFICES ASSUME Polite PROVE last'.called \subseteq {last'.rsp}
    BY DEF RightResponse, Polite
  <2>1. Tag(c) = rx[1].tag BY <1>2 DEF Air
  <2> QED BY <1>1, <2>1
<1>4. /\ s \in GAttribRecord /\ s.requests = q /\ s.responses = attrib.responses
      /\ s.read_watch = attrib.read_watch /\ s.stale = attrib.stale /\ s.timeout_watch = "none"
  BY PFacts, StopTimeoutLemma
<1>5. PICK r \in Reactions(c, ok) : attrib' = run_callback(w, c, r)
  BY <1>4 DEF ReceiveResponse
<1>6. ok \in BOOLEAN /\ c \in Command BY <1>1, PFacts, NonEmpty
<1>7. u \in Seq(Command) /\ FreshFrom(u, 1) BY <1>1, PFacts, TailLemma
<1> HIDE DEF ok, s, u
<1>8. /\ a \in GAttribRecord /\ a.requests = u /\ a.responses = attrib.responses
      /\ a.read_watch = attrib.read_watch /\ a.stale = attrib.stale /\ a.timeout_watch = "none"
  BY <1>4, <1>7 DEF GAttribRecord
<1> HIDE DEF a
<1>9. ~ HSent(a) BY <1>7, <1>8, NonEmpty DEF HSent, FreshFrom, Fresh
<1>10. ~ attrib.stale /\ io = "open" BY <1>1 DEF Receiving
<1>11. Sound(a)
  BY <1>7, <1>8, <1>9, <1>10, PFacts DEF Sound, Heads, Timer, Drained, FreshFrom
<1>12. wfail \in BOOLEAN BY PFacts, IInvFacts
<1>13. Good(w, wfail) /\ w.requests = u BY <1>8, <1>11, <1>12, WakeIfQueuedGood
<1>14. w.read_watch = attrib.read_watch /\ w.stale = attrib.stale
  <2>1. wake_if_queued(a) = a \/ wake_if_queued(a) = wake_up_sender(a) BY DEF wake_if_queued
  <2>2. a \in CountedRecord BY <1>8, CountedLemma
  <2> QED BY <1>8, <2>1, <2>2, WakeEffect DEF Keeps
<1> HIDE DEF w
<1>15. w \in GAttribRecord /\ \A i \in 1..Len(w.requests) : Fresh(w.requests, i)
  BY <1>7, <1>13 DEF FreshFrom, Good, Sound
<1>16. Air(w) = {} BY <1>8, <1>9, <1>13 DEF Air, HSent
<1> HIDE DEF c
<1>17. Listens(attrib', w)
  BY <1>5, <1>6, <1>12, <1>13, <1>15, <1>16, CallbackListens
<1>18. Link' BY <1>1, ReceivingFacts
<1>19. Attentive'
  <2> SUFFICES ASSUME Polite
               PROVE  Owed(Air(attrib'), inbox', rx') /\ attrib'.read_watch = "armed"
    BY DEF Attentive, Polite
  <2>1. attrib'.refs > 0 BY <1>1, <1>10, <1>18, OpenAliveNext
  <2> QED BY <1>1, <1>2, <1>14, <1>16, <1>17, <2>1 DEF Listens
<1> QED BY <1>3, <1>18, <1>19 DEF PInv

\* Each response keeps its place among the opcodes.
LEMMA ExpectedIsResponse ==
  ASSUME NEW op, opcode2expected(op) # "NONE"
  PROVE  opcode2expected(op) \in Opcode /\ is_response(opcode2expected(op))
<1>1. op \in DOMAIN Expected /\ opcode2expected(op) = Expected[op] BY DEF opcode2expected
<1>2. \A o \in DOMAIN Expected : Expected[o] \in Opcode /\ is_response(Expected[o])
  BY DEF Expected, Opcode, is_response
<1> QED BY <1>1, <1>2

\* The peer answers its oldest request, or sends an event.
LEMMA PPeerStep ==
  ASSUME PInv, OInv', Peer, ~ Hup
  PROVE  PInv'
<1>1. UNCHANGED <<attrib, io, app>> /\ last' = NoCall /\ io = "open"
  BY DEF Peer, PeerReply, PeerPush, PeerStray, PeerCanSend, ghosts
<1>2. RightResponse' BY <1>1 DEF RightResponse, NoCall
<1>3. rx \in Seq(PduRecord) /\ inbox \in Seq(TagRecord) BY PFacts DEF Link, IInv, TypeOK
<1>4. NoTag \in TagRecord \cup {NoTag} OBVIOUS
<1>5. CASE PeerReply
  <2>1. /\ inbox # <<>> /\ inbox' = Tail(inbox)
        /\ \E op \in {"ERROR", opcode2expected(inbox[1].op)} :
             rx' = Append(rx, Pdu(op, "NO_HANDLE", inbox[1]))
    BY <1>5 DEF PeerReply
  <2>2. 1 \in DOMAIN inbox /\ inbox[1] \in TagRecord BY <1>3, <2>1
  <2>3. opcode2expected(inbox[1].op) # "NONE" BY <2>2, PFacts DEF Link
  <2>4. PICK op \in Opcode : is_response(op) /\ rx' = Append(rx, Pdu(op, "NO_HANDLE", inbox[1]))
    <3>1. "ERROR" \in Opcode /\ is_response("ERROR") BY DEF Opcode, is_response
    <3> QED BY <2>1, <2>3, <3>1, ExpectedIsResponse
  <2> DEFINE p == Pdu(op, "NO_HANDLE", inbox[1])
             n == Len(rx) + 1
  <2>5. p \in PduRecord /\ p.op = op /\ p.tag = inbox[1] BY <2>2 DEF Pdu, PduRecord
  <2> HIDE DEF p
  <2>6. /\ rx' \in Seq(PduRecord) /\ n \in DOMAIN rx' /\ rx'[n] = p
        /\ Answers(rx') = Answers(rx) \cup {n}
    BY <1>3, <2>4, <2>5, AppendAnswers DEF p
  <2> HIDE DEF n
  <2>7. Link'
    <3>1. \A i \in DOMAIN inbox' : \E j \in DOMAIN inbox : inbox'[i] = inbox[j]
      <4>1. PICK b \in Seq(TagRecord) :
              b = Tail(inbox) /\ Len(b) = Len(inbox) - 1 /\ \A i \in 1..Len(b) : b[i] = inbox[i + 1]
        BY <1>3, <2>1, HeadTailProperties
      <4>2. DOMAIN b = 1..Len(b) /\ DOMAIN inbox = 1..Len(inbox) /\ Len(inbox) \in Nat
        BY <1>3, LenProperties
      <4>3. \A i \in DOMAIN b : i + 1 \in DOMAIN inbox /\ b[i] = inbox[i + 1] BY <4>1, <4>2
      <4> QED BY <2>1, <4>1, <4>3
    <3> QED BY <1>1, <2>6, <3>1, PFacts DEF Link
  <2>8. Attentive'
    <3> SUFFICES ASSUME Polite, ~ attrib.stale
                 PROVE  Owed(Air(attrib), inbox', rx') /\ attrib.read_watch = "armed"
      BY <1>1 DEF Attentive, Polite
    <3>1. Owed(Air(attrib), inbox, rx) /\ attrib.read_watch = "armed"
      BY <1>1 DEF PInv, Attentive
    <3>2. PICK t \in Air(attrib) : Air(attrib) = {t} /\ inbox = <<t>> /\ Answers(rx) = {}
      BY <2>1, <3>1 DEF Owed
    <3>3. inbox' = <<>> /\ inbox[1] = t BY <2>1, <3>2
    <3>4. Answers(rx') = {n} /\ rx'[n].tag = t BY <2>5, <2>6, <3>2, <3>3
    <3> QED BY <2>6, <3>1, <3>2, <3>3, <3>4 DEF Owed
  <2> QED BY <1>2, <2>7, <2>8 DEF PInv
<1>6. CASE \E x \in Pushes : PeerPush(x)
  <2>1. PICK x \in Pushes : rx' = Append(rx, Pdu(x.op, x.handle, NoTag)) /\ inbox' = inbox
    BY <1>6 DEF PeerPush
  <2> DEFINE p == Pdu(x.op, x.handle, NoTag)
  <2>2. x.op \in Opcode /\ ~ is_response(x.op) BY ConstantsAssumption DEF ConstantsAssumption
  <2>3. p \in PduRecord /\ p.op = x.op BY <1>4, <2>2 DEF Pdu, PduRecord
  <2> HIDE DEF p
  <2>4. /\ rx' \in Seq(PduRecord) /\ Answers(rx') = Answers(rx)
        /\ \A i \in DOMAIN rx : i \in DOMAIN rx' /\ rx'[i] = rx[i]
    BY <1>3, <2>1, <2>2, <2>3, AppendAnswers DEF p
  <2>5. Link' BY <1>1, <2>1, <2>4, PFacts DEF Link
  <2>6. Attentive'
    <3> SUFFICES ASSUME Polite, ~ attrib.stale
                 PROVE  Owed(Air(attrib), inbox, rx') /\ attrib.read_watch = "armed"
      BY <1>1, <2>1 DEF Attentive, Polite
    <3>1. Owed(Air(attrib), inbox, rx) /\ attrib.read_watch = "armed"
      BY <1>1 DEF PInv, Attentive
    <3> QED BY <2>4, <3>1 DEF Owed
  <2> QED BY <1>2, <2>5, <2>6 DEF PInv
<1>7. CASE \E op \in StrayOps : PeerStray(op)
  <2>1. PICK op \in StrayOps : rx' = Append(rx, Pdu(op, "NO_HANDLE", NoTag)) /\ inbox' = inbox
    BY <1>7 DEF PeerStray
  <2> DEFINE p == Pdu(op, "NO_HANDLE", NoTag)
  <2>2. op \in Opcode BY ConstantsAssumption DEF ConstantsAssumption
  <2>3. p \in PduRecord BY <1>4, <2>2 DEF Pdu, PduRecord
  <2> HIDE DEF p
  <2>4. rx' \in Seq(PduRecord) BY <1>3, <2>1, <2>3, AppendAnswers DEF p
  <2>5. Link' BY <1>1, <2>1, <2>4, PFacts DEF Link
  <2>6. Attentive' BY DEF Attentive, Polite
  <2> QED BY <1>2, <2>5, <2>6 DEF PInv
<1> QED BY <1>5, <1>6, <1>7 DEF Peer
-----------------------------------------------------------------------------
\* Every step keeps the invariant.
LEMMA PNext ==
  ASSUME PInv, [Next]_vars
  PROVE  PInv'
<1>1. OInv' BY ONext DEF PInv
<1>2. CASE Application /\ ~ Disconnect BY <1>1, <1>2, PApplicationStep
<1>3. CASE can_write_data
  BY <1>1, <1>3, PWriteStep, PWriteRequestStep DEF can_write_data
<1>4. CASE received_data
  BY <1>1, <1>4, PEndStep, PWriteStep, PEventStep, PUnexpectedStep, PResponseStep
     DEF received_data
<1>5. CASE Disconnect \/ disconnect_timeout \/ Hup BY <1>1, <1>5, PEndStep
<1>6. CASE Peer /\ ~ Hup BY <1>1, <1>6, PPeerStep
<1>7. CASE UNCHANGED vars
  <2>1. UNCHANGED <<attrib, io, inbox, rx, app, last>> BY <1>7 DEF vars
  <2> QED BY <1>1, <2>1 DEF PInv, Link, Attentive, RightResponse, Polite
<1> QED BY <1>2, <1>3, <1>4, <1>5, <1>6, <1>7 DEF Next, MainLoop

\* A new bearer has nothing on the air, and listens.
LEMMA PInit == Init => PInv
<1> SUFFICES ASSUME Init PROVE PInv OBVIOUS
<1>1. OInv BY OInit
<1>2. /\ attrib.requests = <<>> /\ attrib.read_watch = "armed" /\ app = TRUE
      /\ inbox = <<>> /\ rx = <<>> /\ last = NoCall
  BY DEF Init
<1>3. Link
  <2>1. rx \in Seq(PduRecord) BY <1>2
  <2> QED BY <1>2, <2>1 DEF Link
<1>4. Owed(Air(attrib), inbox, rx) BY <1>2 DEF Owed, Air, HSent, Answers
<1> QED BY <1>1, <1>2, <1>3, <1>4 DEF PInv, Attentive, RightResponse, NoCall

\* The invariant implies those that the runs check.
LEMMA PImplies == PInv => OneOutstanding /\ RightResponse /\ NeverDeaf
<1> SUFFICES ASSUME PInv PROVE OneOutstanding /\ RightResponse /\ NeverDeaf OBVIOUS
<1>1. RightResponse BY DEF PInv
<1>2. NeverDeaf BY DEF PInv, Attentive, NeverDeaf
<1>3. OneOutstanding
  <2> SUFFICES ASSUME Polite, ~ attrib.stale, io = "open"
               PROVE  IF HeadSent
                      THEN \/ inbox = <<Tag(attrib.requests[1])>> /\ Responses = {}
                           \/ /\ inbox = <<>>
                              /\ \E i \in DOMAIN rx :
                                   /\ Responses = {i}
                                   /\ rx[i].tag = Tag(attrib.requests[1])
                      ELSE inbox = <<>> /\ Responses = {}
    BY DEF OneOutstanding
  <2>1. Owed(Air(attrib), inbox, rx) BY DEF PInv, Attentive
  <2>2. Responses = Answers(rx) BY DEF Responses, Answers
  <2>3. CASE HeadSent
    <3>1. Air(attrib) = {Tag(attrib.requests[1])} BY <2>3 DEF Air, HSent, HeadSent
    <3> QED BY <2>1, <2>2, <2>3, <3>1 DEF Owed
  <2>4. CASE ~ HeadSent
    <3>1. Air(attrib) = {} BY <2>4 DEF Air, HSent, HeadSent
    <3> QED BY <2>1, <2>2, <2>4, <3>1 DEF Owed
  <2> QED BY <2>3, <2>4
<1> QED BY <1>1, <1>2, <1>3

(***************************************************************************)
(* The theorems.                                                           *)
(***************************************************************************)
\* The bearer, the socket and a polite peer stay in step.
THEOREM PeerInvariant == Spec => []PInv
<1>1. Init => PInv BY PInit
<1>2. PInv /\ [Next]_vars => PInv' BY PNext
<1> QED BY <1>1, <1>2, PTL DEF Spec

\* With a peer that answers each request once, the request at the head of the
\* queue is the only one that a response is owed for or under way to.
THEOREM OutstandingIsHead == Spec => []OneOutstanding
BY PeerInvariant, PImplies, PTL

\* With such a peer received_data gives each response to the callback of the
\* request it answers, although it compares no more than their opcodes.
THEOREM ResponsesMatch == Spec => []RightResponse
BY PeerInvariant, PImplies, PTL

\* With such a peer received_data never drops its watch on an open channel.
THEOREM KeepsListening == Spec => []NeverDeaf
BY PeerInvariant, PImplies, PTL

-----------------------------------------------------------------------------
(***************************************************************************)
(* The refinement: GAttrib implements the bearer of AttBearer.             *)
(***************************************************************************)
\* The abstract state, as a function of the fields it depends on.
NotSent(a) == IF HSent(a) THEN Tail(a.requests) ELSE a.requests
Waiting(a) == [i \in DOMAIN NotSent(a) |-> Request(NotSent(a)[i])]
NoRequest  == [id |-> 0, part |-> 0, wanted |-> FALSE]
Flying(a)  == IF HSent(a) THEN Request(a.requests[1]) ELSE NoRequest
Names(l)   == {[id |-> t.id, part |-> t.part] : t \in l.called}
Shut(a)    == a.stale \/ ~ a.refs > 0

\* The inductive invariant: a freed bearer has no request left.
RInv == PInv /\ (attrib.refs = 0 => attrib.requests = <<>>)
-----------------------------------------------------------------------------
(***************************************************************************)
(* The steps of AttBearer, by what they do to these functions.             *)
(***************************************************************************)
Req == [id : Nat, part : Nat, wanted : BOOLEAN]

\* The last element of a sequence, and those before it.
LEMMA FrontLast ==
  ASSUME NEW S, NEW q \in Seq(S), NEW r \in S, NEW s, s = Append(q, r)
  PROVE  s # <<>> /\ s[Len(s)] = r /\ SubSeq(s, 1, Len(s) - 1) = q
<1>1. s \in Seq(S) /\ Len(s) = Len(q) + 1 /\ s[Len(q) + 1] = r
      /\ \A i \in 1..Len(q) : s[i] = q[i]
  BY AppendProperties
<1>2. Len(q) \in Nat /\ Len(s) - 1 = Len(q) BY <1>1
<1> DEFINE f == SubSeq(s, 1, Len(q))
<1>3. \A i \in 1..Len(q) : s[i] \in S BY <1>1
<1>4. f \in Seq(S) /\ Len(f) = Len(q) /\ \A i \in 1..Len(q) : f[i] = s[i]
  BY <1>2, <1>3, SubSeqProperties
<1> HIDE DEF f
<1>5. f = q BY <1>1, <1>4, SeqEqual
<1> QED BY <1>1, <1>2, <1>5 DEF f

\* A step that does not concern requests.
LEMMA IsOther ==
  ASSUME Names(last') = {}, attrib'.next_cmd_id >= attrib.next_cmd_id,
         Waiting(attrib') = Waiting(attrib), Flying(attrib') = Flying(attrib),
         Shut(attrib') = Shut(attrib)
  PROVE  Bearer!Next
BY DEF Bearer!Next, Bearer!Other, Waiting, NotSent, Flying, Names, Shut, NoRequest,
       Unsent, HeadSent, HSent, Alive

\* A new request at the end of the queue.
Joins(r) ==
  /\ Waiting(attrib) \in Seq(Req) /\ r \in Req
  /\ Waiting(attrib') = Append(Waiting(attrib), r)
  /\ r.id > attrib.next_cmd_id /\ r.part = 0 /\ attrib'.next_cmd_id = r.id

\* It joins the queue of AttBearer.
LEMMA IsExtends ==
  ASSUME NEW r, Joins(r)
  PROVE  Bearer!Extends(Waiting(attrib))
<1> DEFINE w == Waiting(attrib')
<1>1. w # <<>> /\ w[Len(w)] = r /\ SubSeq(w, 1, Len(w) - 1) = Waiting(attrib)
  BY FrontLast DEF Joins
<1>2. r.id > attrib.next_cmd_id /\ r.part = 0 /\ attrib'.next_cmd_id = r.id BY DEF Joins
<1>3. w = [i \in DOMAIN Unsent |-> Request(Unsent[i])]'
  BY DEF Waiting, NotSent, Unsent, HeadSent, HSent
<1> HIDE DEF w
<1> QED BY <1>1, <1>2, <1>3 DEF Bearer!Extends, Bearer!Front, Bearer!Last

\* A request is accepted.
LEMMA IsAccept ==
  ASSUME ~ Shut(attrib), ~ Shut(attrib'), Names(last') = {},
         Flying(attrib') = Flying(attrib), NEW r, Joins(r)
  PROVE  Bearer!Next
<1>1. Bearer!Extends([i \in DOMAIN Unsent |-> Request(Unsent[i])])
  BY IsExtends DEF Waiting, NotSent, Unsent, HeadSent, HSent
<1> QED BY <1>1 DEF Bearer!Next, Bearer!Accept, Flying, Names, Shut, NoRequest,
          HeadSent, HSent, Alive

\* The first request in the queue goes on the air.
LEMMA IsStart ==
  ASSUME ~ Shut(attrib), ~ Shut(attrib'), Names(last') = {},
         Flying(attrib) = NoRequest, Waiting(attrib) # <<>>,
         Flying(attrib') = Head(Waiting(attrib)), Waiting(attrib') = Tail(Waiting(attrib)),
         attrib'.next_cmd_id = attrib.next_cmd_id
  PROVE  Bearer!Next
<1>1. Bearer!Start
  BY DEF Bearer!Start, Bearer!Idle, Waiting, NotSent, Flying, Names, Shut, NoRequest,
         Unsent, HeadSent, HSent, Alive
<1> QED BY <1>1 DEF Bearer!Next

\* The first in the queue is a command, which nobody waits for.
LEMMA IsPost ==
  ASSUME ~ Shut(attrib), ~ Shut(attrib'), Names(last') = {},
         Flying(attrib) = NoRequest, Waiting(attrib) # <<>>, ~ Head(Waiting(attrib)).wanted,
         Flying(attrib') = NoRequest, Waiting(attrib') = Tail(Waiting(attrib)),
         attrib'.next_cmd_id = attrib.next_cmd_id
  PROVE  Bearer!Next
<1>1. Bearer!Post
  BY DEF Bearer!Post, Bearer!Idle, Waiting, NotSent, Flying, Names, Shut, NoRequest,
         Unsent, HeadSent, HSent, Alive
<1> QED BY <1>1 DEF Bearer!Next

\* The request on the air, c, is answered; its callback may send or continue.
LEMMA IsComplete ==
  ASSUME ~ Shut(attrib), ~ Shut(attrib'), NEW c \in Req,
         Flying(attrib) = c, c # NoRequest, Flying(attrib') = NoRequest,
         Names(last') = IF c.wanted THEN {[id |-> c.id, part |-> c.part]} ELSE {},
         \/ /\ Waiting(attrib') = Waiting(attrib)
            /\ attrib'.next_cmd_id = attrib.next_cmd_id
         \/ c.wanted /\ \E r \in Req : Joins(r)
         \/ /\ c.wanted /\ attrib'.next_cmd_id = attrib.next_cmd_id
            /\ Waiting(attrib') = <<[c EXCEPT !.part = @ + 1]>> \o Waiting(attrib)
  PROVE  Bearer!Next
<1> DEFINE air == Flying(attrib)
           w == Waiting(attrib)
<1>1. Bearer!Wants({air}) = Names(last')
  BY DEF Bearer!Wants, Bearer!Name
<1>2. \/ Waiting(attrib') = w /\ attrib'.next_cmd_id = attrib.next_cmd_id
      \/ air.wanted /\ Bearer!Extends(w)
      \/ /\ air.wanted /\ attrib'.next_cmd_id = attrib.next_cmd_id
         /\ Waiting(attrib') = <<[air EXCEPT !.part = @ + 1]>> \o w
  BY IsExtends
<1>3. Bearer!Complete
  BY <1>1, <1>2
     DEF Bearer!Complete, Bearer!Idle, Waiting, NotSent, Flying, Names, Shut, NoRequest,
         Unsent, HeadSent, HSent, Alive
<1> QED BY <1>3 DEF Bearer!Next

\* Requests are withdrawn.
LEMMA IsWithdraw ==
  ASSUME ~ Shut(attrib), ~ Shut(attrib'), Names(last') = {},
         Bearer!IsPartOf(Waiting(attrib'), Waiting(attrib)),
         \/ Flying(attrib') = Flying(attrib)
         \/ Flying(attrib') = [Flying(attrib) EXCEPT !.wanted = FALSE],
         attrib'.next_cmd_id = attrib.next_cmd_id
  PROVE  Bearer!Next
<1>1. Bearer!Withdraw
  BY DEF Bearer!Withdraw, Waiting, NotSent, Flying, Names, Shut, NoRequest,
         Unsent, HeadSent, HSent, Alive
<1> QED BY <1>1 DEF Bearer!Next

\* The bearer gives up.
LEMMA IsAbandon ==
  ASSUME ~ Shut(attrib), Shut(attrib'), Waiting(attrib') = <<>>, Flying(attrib') = NoRequest,
         attrib'.next_cmd_id >= attrib.next_cmd_id,
         \/ Names(last') = {}
         \/ Names(last') =
              Bearer!Wants(Bearer!ToSet(Waiting(attrib)) \cup {Flying(attrib)})
  PROVE  Bearer!Next
<1>1. Bearer!Abandon
  BY DEF Bearer!Abandon, Bearer!Idle, Waiting, NotSent, Flying, Names, Shut, NoRequest,
         Unsent, HeadSent, HSent, Alive
<1> QED BY <1>1 DEF Bearer!Next
-----------------------------------------------------------------------------
(***************************************************************************)
(* What the queue of the requests looks like from above.                   *)
(***************************************************************************)
Reqs(q) == [i \in DOMAIN q |-> Request(q[i])]

\* Request keeps the identifier and the part.
LEMMA RequestFields ==
  ASSUME NEW c PROVE Request(c).id = c.id /\ Request(c).part = c.part /\ Request(c).wanted = c.func
BY DEF Request

\* The requests of a queue, one by one.
LEMMA ReqsSeq ==
  ASSUME NEW q \in Seq(Command)
  PROVE  /\ Reqs(q) \in Seq(Req) /\ Len(Reqs(q)) = Len(q)
         /\ DOMAIN Reqs(q) = 1..Len(q) /\ DOMAIN q = 1..Len(q)
         /\ \A i \in 1..Len(q) : Reqs(q)[i] = Request(q[i]) /\ Request(q[i]) \in Req
<1> DEFINE n == Len(q)
<1>1. n \in Nat /\ DOMAIN q = 1..n BY LenProperties
<1>2. \A c \in Command : Request(c) \in Req BY DEF Request, Command, Req
<1>3. \A i \in 1..n : q[i] \in Command BY <1>1
<1> HIDE DEF n
<1>4. Reqs(q) = [i \in 1..n |-> Request(q[i])] BY <1>1 DEF Reqs
<1>5. Reqs(q) \in [1..n -> Req] BY <1>2, <1>3, <1>4
<1>6. Reqs(q) \in Seq(Req) BY <1>1, <1>5, SeqDef
<1>7. Len(Reqs(q)) = n BY <1>1, <1>5, <1>6, LenProperties
<1> QED BY <1>1, <1>2, <1>3, <1>4, <1>5, <1>6, <1>7 DEF n

\* A command more at the end, at the head, or less at the head.
LEMMA ReqsAppend ==
  ASSUME NEW q \in Seq(Command), NEW c \in Command
  PROVE  Reqs(Append(q, c)) = Append(Reqs(q), Request(c)) /\ Request(c) \in Req
<1>0. Request(c) \in Req BY DEF Request, Command, Req
<1>1. PICK s \in Seq(Command) : s = Append(q, c) BY AppendProperties
<1>2. Len(s) = Len(q) + 1 /\ s[Len(q) + 1] = c /\ \A i \in 1..Len(q) : s[i] = q[i]
  BY <1>1, AppendProperties
<1> DEFINE r == Append(Reqs(q), Request(c))
<1>3. /\ r \in Seq(Req) /\ Len(r) = Len(q) + 1 /\ r[Len(q) + 1] = Request(c)
      /\ \A i \in 1..Len(q) : r[i] = Request(q[i])
  BY <1>0, ReqsSeq, AppendProperties
<1> HIDE DEF r
<1>4. /\ Reqs(s) \in Seq(Req) /\ Len(Reqs(s)) = Len(s)
      /\ \A i \in 1..Len(s) : Reqs(s)[i] = Request(s[i])
  BY ReqsSeq
<1>5. \A i \in 1..Len(s) : i = Len(q) + 1 \/ i \in 1..Len(q) BY <1>2
<1>6. \A i \in 1..Len(s) : Reqs(s)[i] = r[i] BY <1>2, <1>3, <1>4, <1>5
<1>7. Reqs(s) = r BY <1>2, <1>3, <1>4, <1>6, SeqEqual
<1> QED BY <1>0, <1>1, <1>7 DEF r

\* At the head.
LEMMA ReqsCons ==
  ASSUME NEW q \in Seq(Command), NEW c \in Command
  PROVE  Reqs(<<c>> \o q) = <<Request(c)>> \o Reqs(q)
<1>0. Request(c) \in Req BY DEF Request, Command, Req
<1>1. PICK s \in Seq(Command) : s = <<c>> \o q BY HeadWithout
<1>2. Len(s) = Len(q) + 1 /\ s[1] = c /\ \A i \in 1..Len(q) : s[i + 1] = q[i]
  BY <1>1, HeadWithout, ConcatProperties
<1> DEFINE w == Reqs(q)
           e == <<Request(c)>>
           r == e \o w
<1>3. w \in Seq(Req) /\ Len(w) = Len(q) /\ \A i \in 1..Len(q) : w[i] = Request(q[i])
  BY ReqsSeq
<1>4. e \in Seq(Req) /\ Len(e) = 1 /\ e[1] = Request(c) BY <1>0
<1> HIDE DEF e, w
<1>5. /\ r \in Seq(Req) /\ Len(r) = Len(q) + 1 /\ r[1] = Request(c)
      /\ \A i \in 1..Len(q) : r[i + 1] = w[i]
  <2>0. e \in Seq(Req) /\ w \in Seq(Req) BY <1>3, <1>4
  <2>1. PICK x \in Seq(Req) : x = r BY <2>0, ConcatProperties
  <2>2. /\ Len(x) = Len(e) + Len(w) /\ Len(w) \in Nat
        /\ \A i \in 1..Len(x) : x[i] = IF i <= Len(e) THEN e[i] ELSE w[i - Len(e)]
    BY <2>0, <2>1, ConcatAt
  <2> HIDE DEF r
  <2>3. Len(r) = Len(q) + 1 /\ 1 \in 1..Len(r) BY <1>3, <1>4, <2>1, <2>2
  <2>4. r[1] = Request(c) BY <1>4, <2>1, <2>2, <2>3
  <2>5. ASSUME NEW i \in 1..Len(q) PROVE r[i + 1] = w[i]
    <3>1. i + 1 \in 1..Len(r) /\ ~ i + 1 <= 1 /\ (i + 1) - 1 = i BY <1>3, <2>3
    <3> QED BY <1>4, <2>1, <2>2, <3>1
  <2> QED BY <2>1, <2>3, <2>4, <2>5
<1> HIDE DEF r
<1>6. /\ Reqs(s) \in Seq(Req) /\ Len(Reqs(s)) = Len(s)
      /\ \A i \in 1..Len(s) : Reqs(s)[i] = Request(s[i])
  BY ReqsSeq
<1>7. ASSUME NEW i \in 1..Len(s) PROVE Reqs(s)[i] = r[i]
  <2>1. CASE i = 1 BY <1>2, <1>5, <1>6, <2>1
  <2>2. CASE i # 1
    <3>1. i - 1 \in 1..Len(q) /\ (i - 1) + 1 = i BY <1>2, <2>2
    <3>2. s[i] = q[i - 1] /\ r[i] = w[i - 1] BY <1>2, <1>5, <3>1
    <3> QED BY <1>3, <1>6, <3>1, <3>2
  <2> QED BY <2>1, <2>2
<1>8. Reqs(s) = r BY <1>2, <1>5, <1>6, <1>7, SeqEqual
<1> QED BY <1>1, <1>8 DEF r, e, w

\* Without its head.
LEMMA ReqsTail ==
  ASSUME NEW q \in Seq(Command), q # <<>>
  PROVE  /\ Reqs(q) # <<>> /\ Head(Reqs(q)) = Request(q[1])
         /\ Reqs(Tail(q)) = Tail(Reqs(q)) /\ Tail(q) \in Seq(Command)
<1>1. PICK s \in Seq(Command) : s = Tail(q) BY TailWithout
<1>2. Len(s) = Len(q) - 1 /\ \A i \in 1..Len(s) : s[i] = q[i + 1]
  BY <1>1, HeadTailProperties
<1>3. Len(q) \in Nat /\ Len(q) # 0 /\ 1 \in 1..Len(q) BY NonEmpty, LenProperties
<1> DEFINE w == Reqs(q)
           r == Tail(w)
<1>4. w \in Seq(Req) /\ Len(w) = Len(q) /\ \A i \in 1..Len(q) : w[i] = Request(q[i])
  BY ReqsSeq
<1> HIDE DEF w
<1>5. w # <<>> BY <1>3, <1>4
<1>6. r \in Seq(Req) /\ Len(r) = Len(w) - 1 /\ \A i \in 1..Len(r) : r[i] = w[i + 1]
  BY <1>4, <1>5, HeadTailProperties
<1>7. Head(w) = w[1] BY <1>4, <1>5, HeadTailProperties
<1> HIDE DEF r
<1>8. /\ Reqs(s) \in Seq(Req) /\ Len(Reqs(s)) = Len(s)
      /\ \A i \in 1..Len(s) : Reqs(s)[i] = Request(s[i])
  BY ReqsSeq
<1>9. ASSUME NEW i \in 1..Len(s) PROVE Reqs(s)[i] = r[i]
  <2>1. i + 1 \in 1..Len(q) /\ i \in 1..Len(r) BY <1>2, <1>3, <1>4, <1>6
  <2> QED BY <1>2, <1>4, <1>6, <1>8, <2>1
<1>10. Reqs(s) = r BY <1>2, <1>4, <1>6, <1>8, <1>9, SeqEqual
<1> QED BY <1>1, <1>3, <1>4, <1>5, <1>7, <1>10 DEF r, w

\* A queue that loses a command, or all of them.
LEMMA ReqsWithout ==
  ASSUME NEW q \in Seq(Command), NEW i \in 1..Len(q), NEW r \in Seq(Command), Without(r, q, i)
  PROVE  Bearer!IsPartOf(Reqs(r), Reqs(q))
<1> DEFINE s == Reqs(r)
           t == Reqs(q)
           f == [j \in DOMAIN s |-> IF j < i THEN j ELSE j + 1]
<1>1. /\ DOMAIN s = 1..Len(r) /\ DOMAIN t = 1..Len(q) /\ Len(r) = Len(q) - 1 /\ Len(q) \in Nat
      /\ \A j \in 1..Len(r) : s[j] = Request(r[j])
      /\ \A j \in 1..Len(q) : t[j] = Request(q[j])
  BY ReqsSeq DEF Without
<1> HIDE DEF s, t
<1>2. f \in [DOMAIN s -> DOMAIN t] BY <1>1
<1>3. \A j \in DOMAIN s : s[j] = t[f[j]] BY <1>1 DEF Without
<1>4. \A j, k \in DOMAIN s : j < k => f[j] < f[k] BY <1>1
<1> HIDE DEF f
<1> QED BY <1>2, <1>3, <1>4 DEF Bearer!IsPartOf, s, t

\* All of them.
LEMMA NothingLeft == ASSUME NEW t PROVE Bearer!IsPartOf(<<>>, t)
<1> DEFINE f == [i \in {} |-> i]
<1>1. DOMAIN <<>> = {} /\ f \in [{} -> DOMAIN t] OBVIOUS
<1> QED BY <1>1 DEF Bearer!IsPartOf

\* None of them.
LEMMA NothingLost == ASSUME NEW q \in Seq(Command) PROVE Bearer!IsPartOf(Reqs(q), Reqs(q))
<1> DEFINE t == Reqs(q)
           f == [i \in DOMAIN t |-> i]
<1>1. f \in [DOMAIN t -> DOMAIN t] /\ \A i \in DOMAIN t : f[i] = i OBVIOUS
<1> HIDE DEF f, t
<1>2. Bearer!IsPartOf(t, t) BY <1>1 DEF Bearer!IsPartOf
<1> QED BY <1>2 DEF t

\* What is waiting and flying, by the queue.
LEMMA View ==
  ASSUME NEW a, a.requests \in Seq(Command)
  PROVE  /\ Waiting(a) = Reqs(NotSent(a)) /\ NotSent(a) \in Seq(Command)
         /\ Waiting(a) \in Seq(Req)
         /\ HSent(a) => /\ NotSent(a) = Tail(a.requests)
                        /\ Flying(a) = Request(a.requests[1])
         /\ ~ HSent(a) => NotSent(a) = a.requests /\ Flying(a) = NoRequest
         /\ a.requests = <<>> => Waiting(a) = <<>> /\ Flying(a) = NoRequest
<1>1. NotSent(a) \in Seq(Command) BY HeadTailProperties DEF NotSent, HSent
<1>2. Waiting(a) = Reqs(NotSent(a)) BY DEF Waiting, Reqs
<1>3. a.requests = <<>> => Waiting(a) = <<>>
  <2> SUFFICES ASSUME a.requests = <<>> PROVE Waiting(a) = <<>> OBVIOUS
  <2>1. NotSent(a) = <<>> BY DEF NotSent, HSent
  <2>2. Len(Reqs(NotSent(a))) = 0 /\ Reqs(NotSent(a)) \in Seq(Req) BY <1>1, <2>1, ReqsSeq
  <2> QED BY <1>2, <2>2
<1> QED BY <1>1, <1>2, <1>3, ReqsSeq DEF NotSent, Flying, HSent

\* The same queue looks the same.
LEMMA SameView ==
  ASSUME NEW a, NEW b, b.requests = a.requests
  PROVE  Waiting(b) = Waiting(a) /\ Flying(b) = Flying(a)
BY DEF Waiting, Flying, NotSent, HSent
-----------------------------------------------------------------------------
(***************************************************************************)
(* The inductive invariant, and the steps that do not concern requests.    *)
(***************************************************************************)
\* What the invariant says of the record.
LEMMA RFacts ==
  ASSUME RInv
  PROVE  /\ PInv /\ OInv /\ IInv /\ Link
         /\ attrib \in GAttribRecord /\ attrib \in CountedRecord
         /\ attrib.requests \in Seq(Command) /\ attrib.responses \in Seq(Command)
         /\ attrib.next_cmd_id \in Nat /\ attrib.refs \in Nat /\ attrib.stale \in BOOLEAN
         /\ FreshFrom(attrib.requests, 2) /\ AllResponses(attrib.responses)
         /\ Ids(attrib, cancelled) /\ Timer(attrib)
         /\ Shut(attrib) => attrib.requests = <<>>
<1>1. PInv /\ (attrib.refs = 0 => attrib.requests = <<>>) BY DEF RInv
<1>2. attrib \in GAttribRecord BY <1>1, PFacts
<1>3. attrib.next_cmd_id \in Nat /\ attrib.refs \in Nat /\ attrib.stale \in BOOLEAN
  BY <1>2 DEF GAttribRecord
<1>4. Timer(attrib) /\ Drained(attrib) BY <1>1, PFacts DEF IInv, Good, Sound
<1>5. Ids(attrib, cancelled) BY <1>1, PFacts DEF OInv
<1>6. Shut(attrib) => attrib.requests = <<>> BY <1>1, <1>3, <1>4 DEF Shut, Drained
<1> QED BY <1>1, <1>2, <1>3, <1>4, <1>5, <1>6, PFacts

\* Whoever owns a reference keeps the bearer alive.
LEMMA OwnedAlive ==
  ASSUME OInv
  PROVE  app \/ attrib.write_watch => attrib.refs > 0
<1>1. /\ Excess(attrib) = One(app) + leaked /\ leaked \in Nat /\ app \in BOOLEAN
      /\ attrib \in CountedRecord
  BY OFacts
<1>2. /\ attrib.refs \in Int /\ Held(attrib.requests) \in Nat
      /\ Excess(attrib) = attrib.refs - One(attrib.write_watch) - Held(attrib.requests)
      /\ attrib.write_watch \in BOOLEAN
  BY <1>1, FieldTypes
<1>3. /\ One(app) \in Nat /\ One(attrib.write_watch) \in Nat
      /\ (app => One(app) = 1) /\ (attrib.write_watch => One(attrib.write_watch) = 1)
  BY <1>1, <1>2 DEF One
<1> DEFINE x == One(app)
           y == One(attrib.write_watch)
           h == Held(attrib.requests)
<1>4. attrib.refs = x + leaked + y + h /\ x \in Nat /\ y \in Nat /\ h \in Nat
  BY <1>1, <1>2, <1>3
<1>5. (app => x = 1) /\ (attrib.write_watch => y = 1) BY <1>3
<1> HIDE DEF x, y, h
<1> QED BY <1>1, <1>4, <1>5

\* The application owns the bearer in the next state.
LEMMA OwnedAliveNext ==
  ASSUME OInv', app' = TRUE
  PROVE  attrib'.refs > 0
<1>1. (OInv => (app \/ attrib.write_watch => attrib.refs > 0))' BY OwnedAlive, PTL
<1> QED BY <1>1

\* g_attrib_unref leaves a record that is freed or the same.
LEMMA UnrefAlive ==
  ASSUME NEW b \in CountedRecord, attrib' = g_attrib_unref(b)
  PROVE  attrib'.refs = 0 => attrib'.requests = <<>>
<1>1. b.refs \in Int BY FieldTypes
<1>2. CASE b.refs > 1
  <2>1. attrib'.refs = b.refs - 1 BY <1>2, UnrefEffect
  <2> QED BY <1>1, <1>2, <2>1
<1>3. CASE ~ b.refs > 1 BY <1>3, UnrefEffect DEF Freed
<1> QED BY <1>2, <1>3

\* The record without its write watch, as g_source_remove leaves it.
LEMMA NoWatch ==
  ASSUME NEW a \in CountedRecord
  PROVE  LET b == [a EXCEPT !.write_watch = FALSE]
         IN  /\ b \in CountedRecord /\ destroy_sender(a) = g_attrib_unref(b)
             /\ b.requests = a.requests /\ b.refs = a.refs /\ b.stale = a.stale
             /\ b.next_cmd_id = a.next_cmd_id
BY DEF CountedRecord, destroy_sender

\* A freed bearer has no request left.
LEMMA RNext ==
  ASSUME RInv, [Next]_vars
  PROVE  RInv'
<1>1. PInv' /\ OInv' /\ IInv' /\ Link' BY PNext, RFacts DEF PInv, OInv
<1> SUFFICES attrib'.refs = 0 => attrib'.requests = <<>> BY <1>1 DEF RInv
<1>2. attrib \in CountedRecord BY RFacts
<1>3. ASSUME app' = TRUE \/ io' = "open" PROVE attrib'.refs > 0
  BY <1>1, <1>3, OwnedAliveNext, OpenAliveNext
<1>4. ASSUME attrib'.refs > 0 PROVE attrib'.refs # 0
  <2>1. attrib'.refs \in Nat BY <1>1 DEF IInv, TypeOK, GAttribRecord
  <2> QED BY <1>4, <2>1
<1>5. app \in BOOLEAN BY RFacts, OFacts
<1>6. CASE Application
  <2>1. CASE Disconnect BY <1>2, <2>1, UnrefAlive DEF Disconnect
  <2>2. CASE ~ Disconnect
    <3>1. app' = TRUE
      BY <1>5, <1>6, <2>2
         DEF Application, Send, g_attrib_cancel, g_attrib_cancel_all, g_attrib_register,
             g_attrib_unregister, g_attrib_unregister_all, ghosts
    <3> QED BY <1>3, <1>4, <3>1
  <2> QED BY <2>1, <2>2
<1>7. CASE WriteNothing \/ WriteFails
  <2>1. attrib' = destroy_sender(attrib) BY <1>7 DEF WriteNothing, WriteFails
  <2> QED BY <1>2, <2>1, NoWatch, UnrefAlive
<1>8. CASE \/ WriteCommand \/ WriteRequest \/ ReadFails \/ ReceiveEvent
           \/ ReceiveUnexpected \/ ReceiveResponse
  <2>1. io' = "open"
    BY <1>8 DEF WriteCommand, WriteRequest, ReadFails, ReceiveEvent, ReceiveUnexpected,
                ReceiveResponse, Receiving, link
  <2> QED BY <1>3, <1>4, <2>1
<1>9. CASE ReceiveStale \/ ReceiveHup
  <2>1. attrib'.refs = attrib.refs /\ attrib'.requests = attrib.requests
    BY <1>2, <1>9 DEF ReceiveStale, ReceiveHup, CountedRecord
  <2> QED BY <2>1 DEF RInv
<1>10. CASE disconnect_timeout
  <2>1. attrib'.stale BY <1>10, TimeoutStep, RFacts
  <2> QED BY <1>1, <2>1 DEF IInv, Good, Sound, Drained
<1>11. CASE Peer
  <2>1. attrib' = attrib BY <1>11 DEF Peer, PeerReply, PeerPush, PeerStray, Hup
  <2> QED BY <2>1 DEF RInv
<1>12. CASE UNCHANGED vars BY <1>12 DEF vars, RInv
<1> QED BY <1>6, <1>7, <1>8, <1>9, <1>10, <1>11, <1>12
       DEF Next, MainLoop, can_write_data, received_data

\* The requests, and whether the bearer is usable, stay as they are.
LEMMA RQuiet ==
  ASSUME last' = NoCall, attrib'.requests = attrib.requests,
         attrib'.next_cmd_id >= attrib.next_cmd_id, Shut(attrib') = Shut(attrib)
  PROVE  Bearer!Next
<1>1. Names(last') = {} BY DEF Names, NoCall
<1> QED BY <1>1, SameView, IsOther

\* A reference is dropped, which may be the last one.
LEMMA RUnref ==
  ASSUME RInv, NEW b \in CountedRecord, attrib' = g_attrib_unref(b),
         b.requests = attrib.requests, b.next_cmd_id = attrib.next_cmd_id,
         b.stale = attrib.stale, b.refs = attrib.refs, attrib.refs > 0, last' = NoCall
  PROVE  Bearer!Next
<1>1. attrib.refs \in Nat /\ attrib.next_cmd_id \in Nat /\ attrib.requests \in Seq(Command)
  BY RFacts
<1>2. CASE b.refs > 1
  <2>1. /\ attrib'.requests = attrib.requests /\ attrib'.next_cmd_id = attrib.next_cmd_id
        /\ attrib'.stale = attrib.stale /\ attrib'.refs = attrib.refs - 1
    BY <1>2, UnrefEffect DEF Keeps
  <2>2. Shut(attrib') = Shut(attrib) BY <1>1, <1>2, <2>1 DEF Shut
  <2>3. attrib'.next_cmd_id >= attrib.next_cmd_id BY <1>1, <2>1
  <2> QED BY <2>1, <2>2, <2>3, RQuiet
<1>3. CASE ~ b.refs > 1
  <2>1. /\ attrib'.requests = <<>> /\ attrib'.next_cmd_id = attrib.next_cmd_id
        /\ attrib'.stale = attrib.stale /\ attrib'.refs = 0
    BY <1>3, UnrefEffect DEF Freed
  <2>2. attrib'.next_cmd_id >= attrib.next_cmd_id BY <1>1, <2>1
  <2>3. CASE attrib.stale
    <3>1. attrib.requests = <<>> BY <2>3, RFacts DEF Shut
    <3>2. Shut(attrib') = Shut(attrib) BY <2>1, <2>3 DEF Shut
    <3> QED BY <2>1, <2>2, <3>1, <3>2, RQuiet
  <2>4. CASE ~ attrib.stale
    <3>1. ~ Shut(attrib) /\ Shut(attrib') BY <1>1, <2>1, <2>4 DEF Shut
    <3>2. <<>> \in Seq(Command) OBVIOUS
    <3>3. Waiting(attrib') = <<>> /\ Flying(attrib') = NoRequest BY <2>1, <3>2, View
    <3>4. Names(last') = {} BY DEF Names, NoCall
    <3> QED BY <2>2, <3>1, <3>3, <3>4, IsAbandon
  <2> QED BY <2>3, <2>4
<1> QED BY <1>2, <1>3
-----------------------------------------------------------------------------
(***************************************************************************)
(* The calls of the application.                                           *)
(***************************************************************************)
\* gatt_send puts one new command at the end of the requests.
LEMMA GattSendEffect ==
  ASSUME NEW a \in GAttribRecord, ~ a.stale, NEW op \in AppOps
  PROVE  LET b == gatt_send(a, op)
         IN  /\ b \in GAttribRecord /\ b.stale = a.stale
             /\ b.next_cmd_id = a.next_cmd_id + 1
             /\ \E c \in Command : /\ b.requests = Append(a.requests, c) /\ ~ c.sent
                                   /\ c.id = a.next_cmd_id + 1 /\ c.part = 0
<1> DEFINE d == IF Discovers(op) THEN g_attrib_ref(a) ELSE a
           f == op # "WRITE_CMD"
           h == Discovers(op)
           z == 0
           c == NewCommand(d, z, z, op, f, h)
           b == g_attrib_send(d, z, z, op, f, h)
<1>1. a \in CountedRecord BY CountedLemma
<1>2. /\ d \in GAttribRecord /\ d.stale = a.stale
      /\ d.requests = a.requests /\ d.next_cmd_id = a.next_cmd_id
  BY <1>1, RefType, RefEffect DEF Keeps
<1>3. op \in Opcode /\ ~ is_response(op) BY ConstantsAssumption
<1>4. f \in BOOLEAN /\ h \in BOOLEAN /\ z \in Nat /\ z = 0 BY DEF Discovers
<1>5. b = gatt_send(a, op) BY DEF gatt_send
<1> HIDE DEF d, f, h, z
<1>6. /\ c \in Command /\ b \in GAttribRecord
      /\ b.next_cmd_id = IF z # 0 THEN d.next_cmd_id ELSE d.next_cmd_id + 1
      /\ b.stale = d.stale
      /\ b.requests = IF is_response(op) THEN d.requests ELSE enqueue(d.requests, c, z # 0)
  BY <1>2, <1>3, <1>4, SendEffect
<1>7. c.id = d.next_cmd_id + 1 /\ c.part = 0 /\ ~ c.sent
  BY <1>4 DEF NewCommand, new_id
<1> HIDE DEF b, c
<1>8. b.requests = Append(a.requests, c) BY <1>2, <1>3, <1>4, <1>6 DEF enqueue
<1> QED BY <1>2, <1>4, <1>5, <1>6, <1>7, <1>8

\* The queue with one more command at its end.
LEMMA AppendView ==
  ASSUME NEW a, a.requests \in Seq(Command), NEW b, NEW c \in Command, ~ c.sent,
         b.requests = Append(a.requests, c)
  PROVE  /\ Flying(b) = Flying(a) /\ Waiting(a) \in Seq(Req) /\ Request(c) \in Req
         /\ Waiting(b) = Append(Waiting(a), Request(c))
<1> DEFINE q == a.requests
           r == b.requests
<1>1. r \in Seq(Command) /\ r # <<>> BY AppendProperties
<1>2. (q # <<>> => r[1] = q[1] /\ Tail(r) = Append(Tail(q), c) /\ Tail(q) \in Seq(Command))
      /\ (q = <<>> => r[1] = c)
  <2>1. CASE q = <<>> BY <2>1
  <2>2. CASE q # <<>>
    <3>1. 1 \in 1..Len(q) BY <2>2, NonEmpty
    <3>2. r[1] = q[1] BY <3>1, AppendProperties
    <3>3. Tail(q) \in Seq(Command) BY <2>2, HeadTailProperties
    <3>4. Tail(r) = Append(Tail(q), c) BY <2>2, HeadTailAppend
    <3> QED BY <2>2, <3>2, <3>3, <3>4
  <2> QED BY <2>1, <2>2
<1>3. CASE HSent(a)
  <2>1. q # <<>> BY <1>3 DEF HSent
  <2>2. HSent(b) /\ b.requests[1] = a.requests[1] BY <1>1, <1>2, <1>3, <2>1 DEF HSent
  <2>3. NotSent(b) = Append(NotSent(a), c) /\ NotSent(a) \in Seq(Command)
    BY <1>2, <1>3, <2>1, <2>2 DEF NotSent
  <2>4. Flying(b) = Flying(a) BY <1>3, <2>2 DEF Flying
  <2> QED BY <1>1, <2>3, <2>4, View, ReqsAppend
<1>4. CASE ~ HSent(a)
  <2>1. ~ HSent(b) BY <1>1, <1>2, <1>4 DEF HSent
  <2>2. NotSent(b) = Append(NotSent(a), c) /\ NotSent(a) \in Seq(Command)
    BY <1>4, <2>1 DEF NotSent
  <2>3. Flying(b) = Flying(a) BY <1>4, <2>1 DEF Flying
  <2> QED BY <1>1, <2>2, <2>3, View, ReqsAppend
<1> QED BY <1>3, <1>4

\* gatt_*(): the request is accepted, or refused by a stale bearer.
LEMMA RSend ==
  ASSUME RInv, RInv', NEW op \in AppOps, Send(op)
  PROVE  Bearer!Next
<1>1. attrib' = gatt_send(attrib, op) /\ last' = NoCall /\ app /\ app' = app BY DEF Send
<1>2. /\ attrib \in GAttribRecord /\ attrib.requests \in Seq(Command)
      /\ attrib.next_cmd_id \in Nat /\ OInv
  BY RFacts
<1>3. attrib.refs > 0 BY <1>1, <1>2, OwnedAlive
<1>4. attrib'.refs > 0
  <2>1. (OInv => (app \/ attrib.write_watch => attrib.refs > 0))' BY OwnedAlive, PTL
  <2>2. OInv' BY DEF RInv, PInv
  <2> QED BY <1>1, <2>1, <2>2
<1>5. CASE attrib.stale
  <2> DEFINE d == IF Discovers(op) THEN g_attrib_ref(attrib) ELSE attrib
  <2>1. d.stale = attrib.stale /\ d.requests = attrib.requests
        /\ d.next_cmd_id = attrib.next_cmd_id
    BY <1>2, CountedLemma, RefEffect DEF Keeps
  <2>2. attrib' = d BY <1>1, <1>5, <2>1 DEF gatt_send, g_attrib_send
  <2> HIDE DEF d
  <2>3. Shut(attrib') = Shut(attrib) BY <1>5, <2>1, <2>2 DEF Shut
  <2>4. attrib'.next_cmd_id >= attrib.next_cmd_id BY <1>2, <2>1, <2>2
  <2> QED BY <1>1, <2>1, <2>2, <2>3, <2>4, RQuiet
<1>6. CASE ~ attrib.stale
  <2>1. attrib'.stale = attrib.stale /\ attrib'.next_cmd_id = attrib.next_cmd_id + 1
    BY <1>1, <1>2, <1>6, GattSendEffect
  <2>2. PICK c \in Command : /\ attrib'.requests = Append(attrib.requests, c) /\ ~ c.sent
                             /\ c.id = attrib.next_cmd_id + 1 /\ c.part = 0
    BY <1>1, <1>2, <1>6, GattSendEffect
  <2>3. /\ Flying(attrib') = Flying(attrib) /\ Waiting(attrib) \in Seq(Req)
        /\ Request(c) \in Req /\ Waiting(attrib') = Append(Waiting(attrib), Request(c))
    BY <1>2, <2>2, AppendView
  <2>4. Request(c).id = c.id /\ Request(c).part = c.part BY RequestFields
  <2>5. c.id > attrib.next_cmd_id BY <1>2, <2>2
  <2>6. Joins(Request(c)) BY <2>1, <2>2, <2>3, <2>4, <2>5 DEF Joins
  <2>7. ~ Shut(attrib) /\ ~ Shut(attrib') BY <1>3, <1>4, <1>6, <2>1 DEF Shut
  <2>8. Names(last') = {} BY <1>1 DEF Names, NoCall
  <2> QED BY <2>3, <2>6, <2>7, <2>8, IsAccept
<1> QED BY <1>5, <1>6

\* Register and unregister; the next state of the last reference.
LEMMA RRegister ==
  ASSUME RInv,
         \/ \E e \in Events : g_attrib_register(e) \/ g_attrib_unregister(e)
         \/ g_attrib_unregister_all \/ ReceiveStale \/ ReceiveHup \/ Peer
  PROVE  Bearer!Next
<1>1. attrib \in GAttribRecord /\ attrib.next_cmd_id \in Nat BY RFacts
<1>2. /\ attrib'.requests = attrib.requests /\ attrib'.next_cmd_id = attrib.next_cmd_id
      /\ attrib'.stale = attrib.stale /\ attrib'.refs = attrib.refs /\ last' = NoCall
  BY <1>1 DEF g_attrib_register, g_attrib_unregister, g_attrib_unregister_all,
              ReceiveStale, ReceiveHup, Peer, PeerReply, PeerPush, PeerStray, Hup,
              GAttribRecord
<1>3. Shut(attrib') = Shut(attrib) BY <1>2 DEF Shut
<1>4. attrib'.next_cmd_id >= attrib.next_cmd_id BY <1>1, <1>2
<1> QED BY <1>2, <1>3, <1>4, RQuiet

\* disconnect_io drops the application's reference.
LEMMA RDisconnect ==
  ASSUME RInv, Disconnect
  PROVE  Bearer!Next
<1>1. app /\ attrib' = g_attrib_unref(attrib) /\ last' = NoCall BY DEF Disconnect
<1>2. attrib.refs > 0 /\ attrib \in CountedRecord BY <1>1, OwnedAlive, RFacts
<1> QED BY <1>1, <1>2, RUnref

\* The request on the air loses its callback; those behind it are r, some of
\* those that were there.
LEMMA ForgottenView ==
  ASSUME NEW a, a.requests \in Seq(Command), HSent(a), NEW b, b.requests \in Seq(Command),
         b.requests # <<>>, b.requests[1] = forget_callback(a.requests[1])
  PROVE  HSent(b) /\ Flying(b) = [Flying(a) EXCEPT !.wanted = FALSE]
<1>1. a.requests # <<>> /\ a.requests[1].sent BY DEF HSent
<1>2. a.requests[1] \in Command BY <1>1, NonEmpty
<1> DEFINE c == a.requests[1]
           d == forget_callback(c)
<1>3. d \in Command /\ d.id = c.id /\ d.part = c.part /\ d.sent = c.sent /\ ~ d.func
  BY <1>2, ForgetFields
<1>4. d.func = FALSE BY <1>3 DEF Command
<1> HIDE DEF d
<1>5. HSent(b) BY <1>1, <1>3 DEF HSent, d
<1>6. Flying(b) = Request(d) /\ Flying(a) = Request(c) BY <1>5 DEF Flying, d
<1> HIDE DEF c
<1>7. Request(d) = [Request(c) EXCEPT !.wanted = FALSE]
  <2> DEFINE x == Request(c)
             y == Request(d)
  <2>1. x \in Req /\ y \in Req BY <1>2, <1>3 DEF Request, Command, Req, c
  <2>2. y.id = x.id /\ y.part = x.part /\ y.wanted = FALSE BY <1>3, <1>4, RequestFields
  <2> HIDE DEF x, y
  <2>3. y = [x EXCEPT !.wanted = FALSE] BY <2>1, <2>2 DEF Req
  <2> QED BY <2>3 DEF x, y
<1> QED BY <1>5, <1>6, <1>7

\* The head of a queue is replaced.
LEMMA SetHead ==
  ASSUME NEW q \in Seq(Command), q # <<>>, NEW c \in Command,
         NEW r, r = [q EXCEPT ![1] = c]
  PROVE  r \in Seq(Command) /\ r # <<>> /\ r[1] = c /\ Tail(r) = Tail(q)
<1>1. 1 \in 1..Len(q) /\ Len(q) \in Nat BY NonEmpty
<1>2. r \in Seq(Command) /\ Len(r) = Len(q) /\ r[1] = c BY <1>1, ExceptSeq
<1>3. \A j \in 1..Len(q) : j # 1 => r[j] = q[j] BY <1>1
<1>4. r # <<>> BY <1>1, <1>2
<1> DEFINE s == Tail(q)
           t == Tail(r)
<1>5. /\ s \in Seq(Command) /\ t \in Seq(Command)
      /\ Len(s) = Len(q) - 1 /\ Len(t) = Len(r) - 1
      /\ \A j \in 1..Len(s) : s[j] = q[j + 1]
      /\ \A j \in 1..Len(t) : t[j] = r[j + 1]
  BY <1>2, <1>4, HeadTailProperties
<1> HIDE DEF s, t
<1>6. ASSUME NEW j \in 1..Len(s) PROVE t[j] = s[j]
  <2>1. j + 1 \in 1..Len(q) /\ j + 1 # 1 /\ j \in 1..Len(t) BY <1>1, <1>2, <1>5
  <2> QED BY <1>3, <1>5, <2>1
<1>7. t = s BY <1>2, <1>5, <1>6, SeqEqual
<1> QED BY <1>2, <1>4, <1>7 DEF s, t

\* A request is taken out of the queue, or forgotten when it is on the air.
LEMMA CancelView ==
  ASSUME NEW a, a.requests \in Seq(Command), NEW i \in 1..Len(a.requests),
         FreshFrom(a.requests, 2), NEW b, b.requests = cancel_at(a.requests, i)
  PROVE  /\ Bearer!IsPartOf(Waiting(b), Waiting(a))
         /\ Flying(b) = Flying(a) \/ Flying(b) = [Flying(a) EXCEPT !.wanted = FALSE]
<1> DEFINE q == a.requests
           r == b.requests
<1>1. r \in Seq(Command) /\ (QSent(r) <=> QSent(q)) BY CancelAtLemma
<1>2. (HSent(a) <=> QSent(q)) /\ (HSent(b) <=> QSent(r)) BY DEF HSent, QSent
<1>3. q # <<>> /\ Len(q) \in Nat /\ 1 \in 1..Len(q) /\ q[1] \in Command /\ i \in Int
  BY NonEmpty
<1>4. CASE i = 1 /\ q[1].sent
  <2>1. r = [q EXCEPT ![1] = forget_callback(q[1])] BY <1>4 DEF cancel_at
  <2>2. forget_callback(q[1]) \in Command BY <1>3, ForgetFields
  <2>3. r # <<>> /\ r[1] = forget_callback(q[1]) /\ Tail(r) = Tail(q)
    BY <1>3, <2>1, <2>2, SetHead
  <2>4. HSent(a) BY <1>3, <1>4 DEF HSent
  <2>5. HSent(b) /\ Flying(b) = [Flying(a) EXCEPT !.wanted = FALSE]
    BY <1>1, <2>3, <2>4, ForgottenView
  <2>6. Tail(q) \in Seq(Command) BY <1>3, HeadTailProperties
  <2>7. Waiting(b) = Reqs(Tail(q)) /\ Waiting(a) = Reqs(Tail(q))
    BY <1>1, <2>3, <2>4, <2>5, View
  <2> QED BY <2>5, <2>6, <2>7, NothingLost
<1>5. CASE ~ (i = 1 /\ q[1].sent)
  <2>1. r = RemoveAt(q, i) BY <1>5 DEF cancel_at
  <2>2. Without(r, q, i) BY <2>1, RemoveAtLemma DEF Without
  <2>3. CASE ~ HSent(a)
    <3>1. /\ Waiting(a) = Reqs(q) /\ Waiting(b) = Reqs(r)
          /\ Flying(a) = NoRequest /\ Flying(b) = NoRequest
      BY <1>1, <1>2, <2>3, View
    <3> QED BY <1>1, <2>2, <3>1, ReqsWithout
  <2>4. CASE HSent(a)
    <3>1. HSent(b) BY <1>1, <1>2, <2>4
    <3>2. i # 1 /\ i > 1 BY <1>3, <1>5, <2>4 DEF HSent
    <3>3. Len(r) = Len(q) - 1 /\ r[1] = q[1]
          /\ \A j \in 1..Len(q) - 1 : r[j] = IF j < i THEN q[j] ELSE q[j + 1]
      BY <1>3, <2>2, <3>2 DEF Without
    <3>4. r # <<>> BY <3>1 DEF HSent
    <3> DEFINE s == Tail(q)
               t == Tail(r)
    <3>5. /\ s \in Seq(Command) /\ t \in Seq(Command)
          /\ Len(s) = Len(q) - 1 /\ Len(t) = Len(r) - 1
          /\ \A j \in 1..Len(s) : s[j] = q[j + 1]
          /\ \A j \in 1..Len(t) : t[j] = r[j + 1]
      BY <1>1, <1>3, <3>4, HeadTailProperties
    <3> HIDE DEF s, t
    <3>6. i - 1 \in 1..Len(s) /\ Len(t) = Len(s) - 1 /\ Len(s) \in Nat BY <1>3, <3>2, <3>3, <3>5
    <3>7. ASSUME NEW j \in 1..Len(s) - 1 PROVE t[j] = IF j < i - 1 THEN s[j] ELSE s[j + 1]
      <4>1. /\ j \in 1..Len(t) /\ j + 1 \in 1..Len(q) - 1 /\ j \in 1..Len(s) /\ j + 1 \in 1..Len(s)
            /\ (j + 1 < i <=> j < i - 1)
        BY <1>3, <3>3, <3>5, <3>6
      <4>2. t[j] = r[j + 1] /\ s[j] = q[j + 1] /\ s[j + 1] = q[(j + 1) + 1] BY <3>5, <4>1
      <4> QED BY <3>3, <4>1, <4>2
    <3>8. Without(t, s, i - 1) BY <3>6, <3>7 DEF Without
    <3>9. Bearer!IsPartOf(Reqs(t), Reqs(s)) BY <3>5, <3>6, <3>8, ReqsWithout
    <3>10. /\ Waiting(a) = Reqs(s) /\ Waiting(b) = Reqs(t)
           /\ Flying(a) = Request(q[1]) /\ Flying(b) = Request(r[1])
      BY <1>1, <2>4, <3>1, View DEF s, t
    <3> QED BY <3>3, <3>9, <3>10
  <2> QED BY <2>3, <2>4
<1> QED BY <1>4, <1>5

\* g_attrib_cancel.
LEMMA RCancel ==
  ASSUME RInv, RInv', NEW queue \in {"requests", "responses"}, NEW i \in 1..MaxCmds,
         g_attrib_cancel(queue, i)
  PROVE  Bearer!Next
<1>1. /\ app /\ i \in DOMAIN attrib[queue]
      /\ attrib' = [attrib EXCEPT ![queue] = cancel_at(attrib[queue], i)]
      /\ last' = NoCall
  BY DEF g_attrib_cancel
<1>2. /\ attrib \in GAttribRecord /\ attrib.requests \in Seq(Command)
      /\ attrib.next_cmd_id \in Nat /\ OInv /\ FreshFrom(attrib.requests, 2)
      /\ (Shut(attrib) => attrib.requests = <<>>)
  BY RFacts
<1>3. /\ attrib'.stale = attrib.stale /\ attrib'.refs = attrib.refs
      /\ attrib'.next_cmd_id = attrib.next_cmd_id
  BY <1>1, <1>2 DEF GAttribRecord
<1>4. Shut(attrib') = Shut(attrib) BY <1>3 DEF Shut
<1>5. CASE queue = "responses"
  <2>1. attrib'.requests = attrib.requests BY <1>1, <1>2, <1>5 DEF GAttribRecord
  <2>2. attrib'.next_cmd_id >= attrib.next_cmd_id BY <1>2, <1>3
  <2> QED BY <1>1, <1>4, <2>1, <2>2, RQuiet
<1>6. CASE queue = "requests"
  <2>1. attrib'.requests = cancel_at(attrib.requests, i) /\ i \in 1..Len(attrib.requests)
    BY <1>1, <1>2, <1>6 DEF GAttribRecord
  <2>2. attrib.requests # <<>> BY <1>2, <2>1
  <2>3. ~ Shut(attrib) /\ ~ Shut(attrib') BY <1>2, <1>4, <2>2
  <2>4. Names(last') = {} BY <1>1 DEF Names, NoCall
  <2>5. /\ Bearer!IsPartOf(Waiting(attrib'), Waiting(attrib))
        /\ \/ Flying(attrib') = Flying(attrib)
           \/ Flying(attrib') = [Flying(attrib) EXCEPT !.wanted = FALSE]
    BY <1>2, <2>1, CancelView
  <2> QED BY <1>3, <2>3, <2>4, <2>5, IsWithdraw
<1> QED BY <1>5, <1>6

\* g_attrib_cancel_all.
LEMMA RCancelAll ==
  ASSUME RInv, RInv', g_attrib_cancel_all
  PROVE  Bearer!Next
<1> DEFINE q == attrib.requests
           r == cancel_all_per_queue(q)
<1>1. /\ app /\ last' = NoCall
      /\ attrib' = [attrib EXCEPT !.requests = r,
                                  !.responses = cancel_all_per_queue(attrib.responses)]
  BY DEF g_attrib_cancel_all
<1>2. /\ attrib \in GAttribRecord /\ q \in Seq(Command) /\ attrib.next_cmd_id \in Nat
      /\ (Shut(attrib) => q = <<>>)
  BY RFacts
<1>3. r \in Seq(Command) /\ (q = <<>> => r = <<>>) BY <1>2, CancelAllLemma
<1> HIDE DEF r
<1>4. /\ attrib'.stale = attrib.stale /\ attrib'.refs = attrib.refs
      /\ attrib'.next_cmd_id = attrib.next_cmd_id /\ attrib'.requests = r
  BY <1>1, <1>2 DEF GAttribRecord
<1>5. Shut(attrib') = Shut(attrib) BY <1>4 DEF Shut
<1>6. Names(last') = {} BY <1>1 DEF Names, NoCall
<1>7. CASE Shut(attrib)
  <2>1. attrib'.requests = attrib.requests BY <1>2, <1>3, <1>4, <1>7
  <2>2. attrib'.next_cmd_id >= attrib.next_cmd_id BY <1>2, <1>4
  <2> QED BY <1>1, <1>5, <2>1, <2>2, RQuiet
<1>8. CASE ~ Shut(attrib) /\ ~ HSent(attrib)
  <2>1. r = <<>> BY <1>8 DEF r, cancel_all_per_queue, HSent
  <2>2. Waiting(attrib') = <<>> /\ Flying(attrib') = NoRequest BY <1>3, <1>4, <2>1, View
  <2>3. Flying(attrib) = NoRequest BY <1>2, <1>8, View
  <2> QED BY <1>4, <1>5, <1>6, <1>8, <2>2, <2>3, NothingLeft, IsWithdraw
<1>9. CASE ~ Shut(attrib) /\ HSent(attrib)
  <2>1. q # <<>> /\ r = <<forget_callback(q[1])>>
    BY <1>9 DEF r, cancel_all_per_queue, HSent
  <2>2. r # <<>> /\ r[1] = forget_callback(q[1]) /\ Tail(r) = <<>> BY <2>1
  <2>3. HSent(attrib') /\ Flying(attrib') = [Flying(attrib) EXCEPT !.wanted = FALSE]
    BY <1>2, <1>3, <1>4, <1>9, <2>2, ForgottenView
  <2>4. Waiting(attrib') = <<>>
    <3>1. Waiting(attrib') = Reqs(<<>>) BY <1>3, <1>4, <2>2, <2>3, View
    <3> DEFINE e == <<>>
    <3>2. e \in Seq(Command) /\ Len(e) = 0 /\ Waiting(attrib') = Reqs(e) BY <3>1
    <3> HIDE DEF e
    <3>3. Len(Reqs(e)) = 0 /\ Reqs(e) \in Seq(Req) BY <3>2, ReqsSeq
    <3> QED BY <3>2, <3>3
  <2> QED BY <1>4, <1>5, <1>6, <1>9, <2>3, <2>4, NothingLeft, IsWithdraw
<1> QED BY <1>7, <1>8, <1>9
-----------------------------------------------------------------------------
(***************************************************************************)
(* The write watch.                                                        *)
(***************************************************************************)
\* Nothing to write, or a write that fails: the watch drops its reference.
LEMMA RWriteEnds ==
  ASSUME RInv, WriteNothing \/ WriteFails
  PROVE  Bearer!Next
<1>1. attrib.write_watch /\ attrib' = destroy_sender(attrib) /\ last' = NoCall
  BY DEF WriteNothing, WriteFails
<1>2. attrib.refs > 0 /\ attrib \in CountedRecord BY <1>1, OwnedAlive, RFacts
<1> DEFINE b == [attrib EXCEPT !.write_watch = FALSE]
<1>3. /\ b \in CountedRecord /\ attrib' = g_attrib_unref(b)
      /\ b.requests = attrib.requests /\ b.refs = attrib.refs /\ b.stale = attrib.stale
      /\ b.next_cmd_id = attrib.next_cmd_id
  BY <1>1, <1>2, NoWatch
<1> HIDE DEF b
<1> QED BY <1>1, <1>2, <1>3, RUnref

\* A queue of requests none of which is on the air.
LEMMA IdleView ==
  ASSUME NEW a, a.requests \in Seq(Command), a.requests # <<>>, ~ a.requests[1].sent
  PROVE  /\ Flying(a) = NoRequest /\ Waiting(a) = Reqs(a.requests) /\ Waiting(a) # <<>>
         /\ Head(Waiting(a)) = Request(a.requests[1])
         /\ Tail(Waiting(a)) = Reqs(Tail(a.requests)) /\ Tail(a.requests) \in Seq(Command)
<1>1. ~ HSent(a) BY DEF HSent
<1> QED BY <1>1, View, ReqsTail

\* The tail of a queue whose other elements are fresh has none on the air.
LEMMA FreshView ==
  ASSUME NEW b, b.requests \in Seq(Command), FreshFrom(b.requests, 1)
  PROVE  ~ HSent(b) /\ Flying(b) = NoRequest /\ Waiting(b) = Reqs(b.requests)
<1>1. ~ HSent(b)
  <2> SUFFICES ASSUME b.requests # <<>> PROVE ~ b.requests[1].sent BY DEF HSent
  <2>1. 1 \in 1..Len(b.requests) BY NonEmpty
  <2> QED BY <2>1 DEF FreshFrom, Fresh
<1> QED BY <1>1, View

\* A command is written; nobody waits for it.
LEMMA RWriteCommand ==
  ASSUME RInv, RInv', WriteCommand
  PROVE  Bearer!Next
<1>1. /\ attrib.write_watch /\ ~ attrib.stale /\ Sendable /\ io = "open" /\ io' = io
      /\ opcode2expected(attrib[SendQueue][1].opcode) = "NONE"
      /\ attrib' = [attrib EXCEPT ![SendQueue] = Tail(attrib[SendQueue])]
      /\ last' = NoCall
  BY DEF WriteCommand, link
<1>2. /\ attrib \in GAttribRecord /\ attrib.requests \in Seq(Command) /\ OInv
      /\ attrib.next_cmd_id \in Nat /\ FreshFrom(attrib.requests, 2)
      /\ Ids(attrib, cancelled)
  BY RFacts
<1>3. /\ attrib'.stale = attrib.stale /\ attrib'.refs = attrib.refs
      /\ attrib'.next_cmd_id = attrib.next_cmd_id
      /\ attrib'.requests = IF SendQueue = "requests" THEN Tail(attrib.requests)
                            ELSE attrib.requests
  BY <1>1, <1>2 DEF GAttribRecord, SendQueue
<1>4. attrib.refs > 0 BY <1>1, <1>2, OwnedAlive
<1>5. ~ Shut(attrib) /\ ~ Shut(attrib') BY <1>1, <1>3, <1>4 DEF Shut
<1>6. CASE SendQueue # "requests"
  <2>1. attrib'.requests = attrib.requests BY <1>3, <1>6
  <2>2. attrib'.next_cmd_id >= attrib.next_cmd_id BY <1>2, <1>3
  <2>3. Shut(attrib') = Shut(attrib) BY <1>3 DEF Shut
  <2> QED BY <1>1, <2>1, <2>2, <2>3, RQuiet
<1>7. CASE SendQueue = "requests"
  <2>1. attrib.requests # <<>> /\ ~ attrib.requests[1].sent BY <1>1, <1>7 DEF Sendable
  <2>2. 1 \in DOMAIN attrib.requests /\ attrib.requests[1] \in Command BY <1>2, <2>1, NonEmpty
  <2>3. ~ attrib.requests[1].func BY <1>1, <1>2, <1>7, <2>2 DEF Ids, Wanted
  <2>4. /\ Flying(attrib) = NoRequest /\ Waiting(attrib) # <<>>
        /\ Head(Waiting(attrib)) = Request(attrib.requests[1])
        /\ Tail(Waiting(attrib)) = Reqs(Tail(attrib.requests))
        /\ Tail(attrib.requests) \in Seq(Command)
    BY <1>2, <2>1, IdleView
  <2>5. FreshFrom(Tail(attrib.requests), 1) BY <1>2, <2>1, TailLemma
  <2>6. Flying(attrib') = NoRequest /\ Waiting(attrib') = Tail(Waiting(attrib))
    BY <1>3, <1>7, <2>4, <2>5, FreshView
  <2>7. ~ Head(Waiting(attrib)).wanted BY <2>3, <2>4, RequestFields
  <2>8. Names(last') = {} BY <1>1 DEF Names, NoCall
  <2> QED BY <1>3, <1>5, <2>4, <2>6, <2>7, <2>8, IsPost
<1> QED BY <1>6, <1>7

\* A bearer that is alive after g_attrib_unref was not freed.
LEMMA AliveUnref ==
  ASSUME NEW b \in CountedRecord, NEW x, x = g_attrib_unref(b), x.refs > 0
  PROVE  Keeps(x, b)
<1>1. CASE b.refs > 1 BY <1>1, UnrefEffect
<1>2. CASE ~ b.refs > 1
  <2>1. x.refs = 0 BY <1>2, UnrefEffect DEF Freed
  <2> QED BY <2>1
<1> QED BY <1>1, <1>2

\* A request is written, and goes on the air.
LEMMA RWriteRequest ==
  ASSUME RInv, RInv', WriteRequest
  PROVE  Bearer!Next
<1> DEFINE q == attrib.requests
           c == [q[1] EXCEPT !.sent = TRUE]
           r == [q EXCEPT ![1] = c]
           b == [arm_timeout(attrib) EXCEPT !.requests = r]
           d == [b EXCEPT !.write_watch = FALSE]
<1>1. SendQueue = "requests" BY RFacts, OnlyRequestsWritten
<1>2. /\ q # <<>> /\ ~ q[1].sent /\ attrib' = destroy_sender(b) /\ last' = NoCall
      /\ io = "open" /\ io' = "open" /\ ~ attrib.stale
  BY <1>1 DEF WriteRequest, Sendable, arm_timeout
<1>3. q[1] \in Command /\ q \in Seq(Command) BY <1>2, RFacts, NonEmpty
<1>4. c \in Command /\ c.id = q[1].id /\ c.part = q[1].part /\ c.func = q[1].func /\ c.sent
  BY <1>3 DEF Command
<1> HIDE DEF c
<1>5. r \in Seq(Command) /\ r # <<>> /\ r[1] = c /\ Tail(r) = Tail(q)
  BY <1>2, <1>3, <1>4, SetHead
<1> HIDE DEF r
<1>6. /\ b \in CountedRecord /\ b.requests = r /\ b.stale = attrib.stale
      /\ b.next_cmd_id = attrib.next_cmd_id
  BY <1>5, RFacts DEF arm_timeout, CountedRecord, WatchId
<1> HIDE DEF b
<1>7. /\ d \in CountedRecord /\ attrib' = g_attrib_unref(d) /\ d.requests = r
      /\ d.stale = attrib.stale /\ d.next_cmd_id = attrib.next_cmd_id
  BY <1>2, <1>6, NoWatch
<1> HIDE DEF d
<1>8. attrib'.refs > 0 BY <1>2, OpenAliveNext DEF RInv, PInv
<1>9. /\ attrib'.requests = r /\ attrib'.stale = attrib.stale
      /\ attrib'.next_cmd_id = attrib.next_cmd_id
  BY <1>7, <1>8, AliveUnref DEF Keeps
<1>10. attrib.refs > 0 BY <1>2, RFacts, OpenAlive
<1>11. ~ Shut(attrib) /\ ~ Shut(attrib') BY <1>2, <1>8, <1>9, <1>10 DEF Shut
<1>12. Names(last') = {} BY <1>2 DEF Names, NoCall
<1>13. /\ Flying(attrib) = NoRequest /\ Waiting(attrib) # <<>>
       /\ Head(Waiting(attrib)) = Request(q[1]) /\ Tail(Waiting(attrib)) = Reqs(Tail(q))
  BY <1>2, <1>3, IdleView
<1>14. HSent(attrib') BY <1>4, <1>5, <1>9 DEF HSent
<1>15. Flying(attrib') = Request(c) /\ Waiting(attrib') = Reqs(Tail(r))
  BY <1>5, <1>9, <1>14, View
<1>16. Request(c) = Request(q[1]) BY <1>4 DEF Request
<1> QED BY <1>5, <1>9, <1>11, <1>12, <1>13, <1>15, <1>16, IsStart
-----------------------------------------------------------------------------
(***************************************************************************)
(* The read watch.                                                         *)
(***************************************************************************)
\* A failed read, an event or an unexpected response: the requests stay.
LEMMA RReceiveOther ==
  ASSUME RInv, RInv', ReadFails \/ ReceiveEvent \/ ReceiveUnexpected
  PROVE  Bearer!Next
<1>1. attrib \in GAttribRecord /\ ~ attrib.stale /\ attrib.next_cmd_id \in Nat
  BY RFacts DEF ReadFails, ReceiveEvent, ReceiveUnexpected, Receiving
<1>2. /\ attrib'.requests = attrib.requests /\ attrib'.stale = attrib.stale
      /\ attrib'.next_cmd_id >= attrib.next_cmd_id
  <2>1. CASE ReadFails
    <3>1. attrib' = wake_if_queued(attrib) BY <2>1 DEF ReadFails
    <3>2. attrib' = attrib \/ attrib' = wake_up_sender(attrib) BY <3>1 DEF wake_if_queued
    <3> QED BY <1>1, <3>2, CountedLemma, WakeEffect DEF Keeps
  <2>2. CASE ReceiveEvent
    <3> DEFINE z == 0
               op == "HANDLE_CNF"
               f == FALSE
               b == g_attrib_send(attrib, z, z, op, f, f)
    <3>1. attrib' = attrib \/ attrib' = b BY <2>2 DEF ReceiveEvent
    <3>2. z \in Nat /\ z = 0 /\ op \in Opcode /\ f \in BOOLEAN /\ is_response(op)
      BY DEF Opcode, is_response
    <3> HIDE DEF z, op, f
    <3>3. /\ b.next_cmd_id = attrib.next_cmd_id + 1 /\ b.stale = attrib.stale
          /\ b.requests = attrib.requests
      BY <1>1, <3>2, SendEffect
    <3> HIDE DEF b
    <3> QED BY <1>1, <3>1, <3>3
  <2>3. CASE ReceiveUnexpected
    <3> DEFINE s == stop_timeout(attrib)
               x == IF attrib.events # {} THEN s.read_watch ELSE "dangling"
    <3>1. attrib' = [s EXCEPT !.read_watch = x] BY <2>3 DEF ReceiveUnexpected
    <3>2. /\ s \in GAttribRecord /\ s.requests = attrib.requests /\ s.stale = attrib.stale
          /\ s.next_cmd_id = attrib.next_cmd_id
      BY <1>1, StopTimeoutLemma, StopTimeoutOwners
    <3> HIDE DEF s, x
    <3> QED BY <1>1, <3>1, <3>2 DEF GAttribRecord
  <2> QED BY <2>1, <2>2, <2>3
<1>3. io = "open" /\ io' = "open" /\ last' = NoCall
  BY DEF ReadFails, ReceiveEvent, ReceiveUnexpected, Receiving, link
<1>4. attrib.refs > 0 /\ attrib'.refs > 0
  BY <1>3, RFacts, OpenAlive, OpenAliveNext DEF RInv, PInv
<1>5. Shut(attrib') = Shut(attrib) BY <1>2, <1>4 DEF Shut
<1> QED BY <1>2, <1>3, <1>5, RQuiet

\* What a result callback leaves in the queue, and whether it took an id.
AsBefore(b, a) == b.requests = a.requests /\ b.next_cmd_id = a.next_cmd_id

OneMore(b, a) ==
  /\ b.next_cmd_id = a.next_cmd_id + 1
  /\ \E d \in Command : /\ b.requests = Append(a.requests, d) /\ ~ d.sent
                        /\ d.id = a.next_cmd_id + 1 /\ d.part = 0

Continued(b, a, c) ==
  /\ b.next_cmd_id = a.next_cmd_id
  /\ \E d \in Command : /\ b.requests = <<d>> \o a.requests /\ ~ d.sent
                        /\ d.id = c.id /\ d.part = c.part + 1 /\ d.func = TRUE

\* The three reactions of a callback.
LEMMA CallbackRequests ==
  ASSUME NEW a \in GAttribRecord, ~ a.stale, NEW c \in Command, NEW ok \in BOOLEAN,
         NEW r \in Reactions(c, ok), NEW x, x = run_callback(a, c, r), x.refs > 0
  PROVE  /\ x.stale = a.stale
         /\ AsBefore(x, a) \/ (c.func /\ (OneMore(x, a) \/ Continued(x, a, c)))
<1> DEFINE b == CASE r.kind = "quiet"    -> a
                  [] r.kind = "continue" -> g_attrib_send(a, c.id, c.part + 1,
                                                 "READ_BLOB_REQ", TRUE, FALSE)
                  [] r.kind = "send"     -> gatt_send(a, r.op)
<1>1. /\ b \in GAttribRecord /\ b.stale = a.stale
      /\ AsBefore(b, a) \/ (c.func /\ (OneMore(b, a) \/ Continued(b, a, c)))
  <2>1. CASE r.kind = "quiet" BY <2>1 DEF AsBefore
  <2>2. CASE r.kind = "continue" /\ c.func
    <3> DEFINE id == c.id
               part == c.part + 1
               op == "READ_BLOB_REQ"
               f == TRUE
               h == FALSE
               s == g_attrib_send(a, id, part, op, f, h)
               d == NewCommand(a, id, part, op, f, h)
    <3>1. id \in Nat /\ part \in Nat /\ id # 0 BY DEF Command
    <3>0. op \in Opcode /\ f \in BOOLEAN /\ h \in BOOLEAN BY DEF Opcode
    <3>2. b = s /\ ~ is_response(op) /\ f = TRUE BY <2>2 DEF is_response
    <3> HIDE DEF b, id, part, op, f, h
    <3>3. /\ d \in Command /\ s \in GAttribRecord /\ s.stale = a.stale
          /\ s.next_cmd_id = IF id # 0 THEN a.next_cmd_id ELSE a.next_cmd_id + 1
          /\ s.requests = IF is_response(op) THEN a.requests
                          ELSE enqueue(a.requests, d, id # 0)
      BY <3>0, <3>1, SendEffect
    <3>4. ~ d.sent /\ d.id = id /\ d.part = part /\ d.func = TRUE
      BY <3>1, <3>2 DEF NewCommand, new_id
    <3> HIDE DEF s, d
    <3>5. s.requests = <<d>> \o a.requests /\ s.next_cmd_id = a.next_cmd_id
      BY <3>1, <3>2, <3>3 DEF enqueue
    <3>6. Continued(s, a, c) BY <3>3, <3>4, <3>5 DEF Continued, id, part
    <3> QED BY <2>2, <3>2, <3>3, <3>6
  <2>3. CASE r.kind = "send" /\ r.op \in AppOps /\ c.func
    <3>1. b = gatt_send(a, r.op) BY <2>3
    <3> HIDE DEF b
    <3>2. b \in GAttribRecord /\ b.stale = a.stale /\ OneMore(b, a)
      BY <2>3, <3>1, GattSendEffect DEF OneMore
    <3> QED BY <2>3, <3>2
  <2>4. \/ r.kind = "quiet" \/ (r.kind = "continue" /\ c.func)
        \/ (r.kind = "send" /\ r.op \in AppOps /\ c.func)
    BY DEF Reactions, Quiet
  <2> QED BY <2>1, <2>2, <2>3, <2>4
<1> HIDE DEF b
<1>2. x = IF c.func /\ c.hold THEN g_attrib_unref(b) ELSE b BY DEF run_callback, b
<1>3. b \in CountedRecord BY <1>1, CountedLemma
<1>4. x.requests = b.requests /\ x.next_cmd_id = b.next_cmd_id /\ x.stale = b.stale
  BY <1>2, <1>3, AliveUnref DEF Keeps
<1> QED BY <1>1, <1>4 DEF AsBefore, OneMore, Continued

\* A queue with a continuation at its head.
LEMMA ContinuedView ==
  ASSUME NEW q \in Seq(Command), NEW d \in Command, ~ d.sent, NEW b, b.requests = <<d>> \o q
  PROVE  Flying(b) = NoRequest /\ Waiting(b) = <<Request(d)>> \o Reqs(q)
<1>1. b.requests \in Seq(Command) /\ b.requests[1] = d BY HeadWithout
<1>2. ~ HSent(b) BY <1>1 DEF HSent
<1>3. Flying(b) = NoRequest /\ Waiting(b) = Reqs(b.requests) BY <1>1, <1>2, View
<1>4. Reqs(<<d>> \o q) = <<Request(d)>> \o Reqs(q) BY ReqsCons
<1> QED BY <1>3, <1>4

\* The response of a polite peer completes the request on the air.
LEMMA RResponse ==
  ASSUME Polite, RInv, RInv', ReceiveResponse
  PROVE  Bearer!Next
<1> DEFINE q  == attrib.requests
           c  == q[1]
           ok == rx[1].op = opcode2expected(c.opcode)
           s  == stop_timeout(attrib)
           u  == Tail(q)
           a  == [s EXCEPT !.requests = u]
           w  == wake_if_queued(a)
<1>0. /\ attrib \in GAttribRecord /\ q \in Seq(Command) /\ FreshFrom(q, 2) /\ PInv
      /\ attrib.next_cmd_id \in Nat
  BY RFacts
<1>1. /\ Receiving /\ rx' = Tail(rx) /\ UNCHANGED <<io, inbox, app>>
      /\ is_response(rx[1].op) /\ q # <<>>
      /\ last' = [called |-> IF c.func THEN {Tag(c)} ELSE {}, rsp |-> rx[1].tag]
  BY DEF ReceiveResponse, ghosts
<1>2. Air(attrib) = {rx[1].tag} BY <1>0, <1>1, ReceivingFacts, OwedResponse
<1>3. HSent(attrib) BY <1>2 DEF Air
<1>4. /\ s \in GAttribRecord /\ s.requests = q /\ s.stale = attrib.stale
      /\ s.next_cmd_id = attrib.next_cmd_id
  BY <1>0, StopTimeoutLemma, StopTimeoutOwners
<1>5. PICK r \in Reactions(c, ok) : attrib' = run_callback(w, c, r)
  BY <1>4 DEF ReceiveResponse
<1>6. ok \in BOOLEAN /\ c \in Command BY <1>0, <1>1, NonEmpty
<1>7. u \in Seq(Command) /\ FreshFrom(u, 1) BY <1>0, <1>1, TailLemma
<1>8. Flying(attrib) = Request(c) /\ Waiting(attrib) = Reqs(u) /\ Waiting(attrib) \in Seq(Req)
  BY <1>0, <1>3, View
<1>9. Names(last') = IF c.func THEN {[id |-> c.id, part |-> c.part]} ELSE {}
  <2>1. CASE c.func
    <3>1. last'.called = {Tag(c)} BY <1>1, <2>1
    <3>2. Tag(c).id = c.id /\ Tag(c).part = c.part BY DEF Tag
    <3> QED BY <2>1, <3>1, <3>2 DEF Names
  <2>2. CASE ~ c.func
    <3>1. last'.called = {} BY <1>1, <2>2
    <3> QED BY <2>2, <3>1 DEF Names
  <2> QED BY <2>1, <2>2
<1>10. ~ attrib.stale /\ io = "open" /\ io' = "open" BY <1>1 DEF Receiving
<1> HIDE DEF ok, s, u, c
<1>11. /\ a \in GAttribRecord /\ a.requests = u /\ a.stale = attrib.stale
       /\ a.next_cmd_id = attrib.next_cmd_id
  BY <1>4, <1>7 DEF GAttribRecord
<1> HIDE DEF a
<1>12. /\ w \in GAttribRecord /\ w.requests = u /\ w.stale = attrib.stale
       /\ w.next_cmd_id = attrib.next_cmd_id
  <2>1. w = a \/ w = wake_up_sender(a) BY DEF wake_if_queued
  <2>2. a \in CountedRecord BY <1>11, CountedLemma
  <2> QED BY <1>11, <2>1, <2>2, WakeEffect, WakeType DEF Keeps
<1> HIDE DEF w
<1>13. attrib.refs > 0 /\ attrib'.refs > 0
  BY <1>10, RFacts, OpenAlive, OpenAliveNext DEF RInv, PInv
<1>14. /\ attrib'.stale = w.stale
       /\ AsBefore(attrib', w) \/ (c.func /\ (OneMore(attrib', w) \/ Continued(attrib', w, c)))
  BY <1>5, <1>6, <1>10, <1>12, <1>13, CallbackRequests
<1>15. ~ Shut(attrib) /\ ~ Shut(attrib') BY <1>10, <1>12, <1>13, <1>14 DEF Shut
<1>16. Flying(w) = NoRequest /\ Waiting(w) = Waiting(attrib) BY <1>7, <1>8, <1>12, FreshView
<1>17. Request(c) \in Req /\ Request(c) # NoRequest
  <2>1. Request(c) \in Req BY <1>6 DEF Request, Command, Req
  <2>2. Request(c).id # 0 BY <1>6, RequestFields DEF Command
  <2> QED BY <2>1, <2>2 DEF NoRequest
<1>18. Request(c).id = c.id /\ Request(c).part = c.part /\ Request(c).wanted = c.func
  BY RequestFields
<1>19. CASE AsBefore(attrib', w)
  <2>1. Waiting(attrib') = Waiting(attrib) /\ Flying(attrib') = NoRequest
    BY <1>16, <1>19, SameView DEF AsBefore
  <2>2. attrib'.next_cmd_id = attrib.next_cmd_id BY <1>12, <1>19 DEF AsBefore
  <2> QED BY <1>8, <1>9, <1>15, <1>17, <1>18, <2>1, <2>2, IsComplete
<1>20. CASE c.func /\ OneMore(attrib', w)
  <2>1. PICK d \in Command : /\ attrib'.requests = Append(w.requests, d) /\ ~ d.sent
                             /\ d.id = w.next_cmd_id + 1 /\ d.part = 0
    BY <1>20 DEF OneMore
  <2>2. attrib'.next_cmd_id = w.next_cmd_id + 1 BY <1>20 DEF OneMore
  <2>3. /\ Flying(attrib') = NoRequest /\ Request(d) \in Req
        /\ Waiting(attrib') = Append(Waiting(attrib), Request(d))
    BY <1>7, <1>12, <1>16, <2>1, AppendView
  <2>4. Request(d).id = d.id /\ Request(d).part = d.part BY RequestFields
  <2>5. d.id > attrib.next_cmd_id BY <1>0, <1>12, <2>1
  <2>6. Joins(Request(d)) BY <1>8, <1>12, <2>1, <2>2, <2>3, <2>4, <2>5 DEF Joins
  <2> QED BY <1>8, <1>9, <1>15, <1>17, <1>18, <1>20, <2>3, <2>6, IsComplete
<1>21. CASE c.func /\ Continued(attrib', w, c)
  <2>1. PICK d \in Command : /\ attrib'.requests = <<d>> \o w.requests /\ ~ d.sent
                             /\ d.id = c.id /\ d.part = c.part + 1 /\ d.func = TRUE
    BY <1>21 DEF Continued
  <2>2. attrib'.next_cmd_id = attrib.next_cmd_id BY <1>12, <1>21 DEF Continued
  <2>3. Flying(attrib') = NoRequest /\ Waiting(attrib') = <<Request(d)>> \o Waiting(attrib)
    BY <1>7, <1>8, <1>12, <2>1, ContinuedView
  <2>4. c.func = TRUE BY <1>6, <1>21 DEF Command
  <2>5. Request(d) = [Request(c) EXCEPT !.part = @ + 1]
    <3> DEFINE x == Request(c)
               y == Request(d)
    <3>1. x \in Req /\ y \in Req BY <1>17, <2>1 DEF Request, Command, Req
    <3>2. y.id = x.id /\ y.part = x.part + 1 /\ y.wanted = x.wanted BY <2>1, <2>4, RequestFields
    <3> HIDE DEF x, y
    <3>3. y = [x EXCEPT !.part = @ + 1] BY <3>1, <3>2 DEF Req
    <3> QED BY <3>3 DEF x, y
  <2> QED BY <1>8, <1>9, <1>15, <1>17, <1>18, <1>21, <2>2, <2>3, <2>5, IsComplete
<1> QED BY <1>14, <1>19, <1>20, <1>21
-----------------------------------------------------------------------------
(***************************************************************************)
(* The timeout, and the refinement.                                        *)
(***************************************************************************)
\* The commands of a queue of requests are the one on the air and the others.
LEMMA WholeQueue ==
  ASSUME NEW a, a.requests \in Seq(Command), HSent(a)
  PROVE  Bearer!ToSet(Waiting(a)) \cup {Flying(a)} = {Request(c) : c \in ToSet(a.requests)}
<1> DEFINE q == a.requests
           u == Tail(q)
           w == Waiting(a)
<1>1. q # <<>> /\ 1 \in 1..Len(q) /\ DOMAIN q = 1..Len(q) /\ Len(q) \in Nat
  BY NonEmpty DEF HSent
<1>2. u \in Seq(Command) /\ Len(u) = Len(q) - 1 /\ \A i \in 1..Len(u) : u[i] = q[i + 1]
  BY <1>1, HeadTailProperties
<1>3. w = Reqs(u) /\ Flying(a) = Request(q[1]) BY View
<1>4. DOMAIN w = 1..Len(u) /\ \A i \in 1..Len(u) : w[i] = Request(u[i]) BY <1>2, <1>3, ReqsSeq
<1> HIDE DEF u, w
<1>5. ASSUME NEW i \in DOMAIN q PROVE Request(q[i]) \in Bearer!ToSet(w) \cup {Flying(a)}
  <2>1. CASE i = 1 BY <1>3, <2>1
  <2>2. CASE i # 1
    <3>1. i - 1 \in 1..Len(u) /\ (i - 1) + 1 = i BY <1>1, <1>2, <2>2
    <3>2. w[i - 1] = Request(q[i]) BY <1>2, <1>4, <3>1
    <3> QED BY <1>4, <3>1, <3>2 DEF Bearer!ToSet
  <2> QED BY <2>1, <2>2
<1>6. ASSUME NEW i \in DOMAIN w PROVE \E j \in DOMAIN q : w[i] = Request(q[j])
  <2>1. i + 1 \in DOMAIN q BY <1>1, <1>2, <1>4
  <2> QED BY <1>2, <1>4, <2>1
<1>7. ToSet(q) = {q[i] : i \in DOMAIN q} BY DEF ToSet
<1>8. Bearer!ToSet(w) = {w[i] : i \in DOMAIN w} BY DEF Bearer!ToSet
<1>9. Bearer!ToSet(w) \cup {Flying(a)} \subseteq {Request(c) : c \in ToSet(q)}
  BY <1>1, <1>3, <1>6, <1>7, <1>8
<1>10. {Request(c) : c \in ToSet(q)} \subseteq Bearer!ToSet(w) \cup {Flying(a)}
  BY <1>5, <1>7
<1> QED BY <1>9, <1>10 DEF w

\* Those that want an answer are those that have a callback.
LEMMA WantedNames ==
  ASSUME NEW S, NEW l, l.called = {Tag(c) : c \in {d \in S : d.func}}
  PROVE  Names(l) = Bearer!Wants({Request(c) : c \in S})
<1> DEFINE T == {Request(c) : c \in S}
<1>1. Bearer!Wants(T) = {[id |-> r.id, part |-> r.part] : r \in {s \in T : s.wanted}}
  BY DEF Bearer!Wants, Bearer!Name
<1>2. \A c : Tag(c).id = c.id /\ Tag(c).part = c.part BY DEF Tag
<1>3. ASSUME NEW n \in Names(l) PROVE n \in Bearer!Wants(T)
  <2>1. PICK t \in l.called : n = [id |-> t.id, part |-> t.part] BY <1>3 DEF Names
  <2>2. PICK c \in S : c.func /\ t = Tag(c) BY <2>1
  <2>3. Request(c) \in T /\ Request(c).wanted BY <2>2, RequestFields
  <2>4. n = [id |-> Request(c).id, part |-> Request(c).part]
    BY <1>2, <2>1, <2>2, RequestFields
  <2> QED BY <1>1, <2>3, <2>4
<1>4. ASSUME NEW n \in Bearer!Wants(T) PROVE n \in Names(l)
  <2>1. PICK r \in T : r.wanted /\ n = [id |-> r.id, part |-> r.part] BY <1>1, <1>4
  <2>2. PICK c \in S : r = Request(c) BY <2>1
  <2>3. c.func /\ r.id = c.id /\ r.part = c.part BY <2>1, <2>2, RequestFields
  <2>4. Tag(c) \in l.called BY <2>3
  <2>5. n = [id |-> Tag(c).id, part |-> Tag(c).part] BY <1>2, <2>1, <2>3
  <2> QED BY <2>4, <2>5 DEF Names
<1> QED BY <1>3, <1>4

\* disconnect_timeout: all that want an answer are told, and it is over.
LEMMA RTimeout ==
  ASSUME RInv, RInv', disconnect_timeout
  PROVE  Bearer!Next
<1> DEFINE q == attrib.requests
<1>1. /\ attrib.timeout_watch = "armed"
      /\ last' = [called |-> {Tag(c) : c \in {d \in ToSet(q) : d.func}}, rsp |-> NoTag]
  BY DEF disconnect_timeout
<1>2. /\ q \in Seq(Command) /\ OInv /\ IInv /\ Timer(attrib)
      /\ (Shut(attrib) => q = <<>>)
  BY RFacts
<1>3. attrib'.stale /\ attrib'.next_cmd_id >= attrib.next_cmd_id
  BY <1>2, TimeoutStep, OTimeoutStep
<1>4. attrib'.requests = <<>> BY <1>3 DEF RInv, PInv, OInv, IInv, Good, Sound, Drained
<1>5. Shut(attrib') BY <1>3 DEF Shut
<1>6. CASE Shut(attrib)
  <2>1. q = <<>> BY <1>2, <1>6
  <2>2. ToSet(q) = {} BY <2>1 DEF ToSet
  <2>3. last' = NoCall BY <1>1, <2>2 DEF NoCall
  <2>4. Shut(attrib') = Shut(attrib) BY <1>5, <1>6 DEF Shut
  <2> QED BY <1>3, <1>4, <2>1, <2>3, <2>4, RQuiet
<1>7. CASE ~ Shut(attrib)
  <2>1. HSent(attrib) BY <1>1, <1>2, <1>7 DEF Timer, Shut
  <2>2. last'.called = {Tag(c) : c \in {d \in ToSet(q) : d.func}} BY <1>1
  <2>3. Names(last') = Bearer!Wants({Request(c) : c \in ToSet(q)}) BY <2>2, WantedNames
  <2>4. Names(last') = Bearer!Wants(Bearer!ToSet(Waiting(attrib)) \cup {Flying(attrib)})
    BY <1>2, <2>1, <2>3, WholeQueue
  <2>5. <<>> \in Seq(Command) OBVIOUS
  <2>6. Waiting(attrib') = <<>> /\ Flying(attrib') = NoRequest BY <1>4, <2>5, View
  <2> QED BY <1>3, <1>5, <1>7, <2>4, <2>6, IsAbandon
<1> QED BY <1>6, <1>7

\* Every step of gattrib.c is a step of the bearer, or changes nothing of it.
LEMMA RStep ==
  ASSUME Polite, RInv, RInv', [Next]_vars
  PROVE  [Bearer!Next]_(Bearer!vars)
<1>1. CASE Application
  <2>1. CASE \E op \in AppOps : Send(op) BY <2>1, RSend
  <2>2. CASE \E queue \in {"requests", "responses"}, i \in 1..MaxCmds :
               g_attrib_cancel(queue, i)
    BY <2>2, RCancel
  <2>3. CASE g_attrib_cancel_all BY <2>3, RCancelAll
  <2>4. CASE \/ \E e \in Events : g_attrib_register(e) \/ g_attrib_unregister(e)
             \/ g_attrib_unregister_all
    BY <2>4, RRegister
  <2>5. CASE Disconnect BY <2>5, RDisconnect
  <2> QED BY <1>1, <2>1, <2>2, <2>3, <2>4, <2>5 DEF Application
<1>2. CASE can_write_data
  BY <1>2, RWriteEnds, RWriteCommand, RWriteRequest DEF can_write_data
<1>3. CASE received_data
  BY <1>3, RRegister, RReceiveOther, RResponse DEF received_data
<1>4. CASE disconnect_timeout BY <1>4, RTimeout
<1>5. CASE Peer BY <1>5, RRegister
<1>6. CASE UNCHANGED vars
  BY <1>6 DEF vars, Bearer!vars, Unsent, HeadSent, Alive
<1> QED BY <1>1, <1>2, <1>3, <1>4, <1>5, <1>6 DEF Next, MainLoop

\* The new bearer has nothing to do.
LEMMA RInit == Init => RInv /\ Bearer!Init
<1> SUFFICES ASSUME Init PROVE RInv /\ Bearer!Init OBVIOUS
<1>1. PInv BY PInit
<1>2. /\ attrib.requests = <<>> /\ attrib.refs = 1 /\ attrib.next_cmd_id = 0
      /\ attrib.stale = FALSE /\ last = NoCall
  BY DEF Init
<1>3. RInv BY <1>1, <1>2 DEF RInv
<1>4. Waiting(attrib) = <<>> /\ Flying(attrib) = NoRequest
  <2>1. <<>> \in Seq(Command) OBVIOUS
  <2> QED BY <1>2, <2>1, View
<1>5. Names(last) = {} BY <1>2 DEF Names, NoCall
<1>6. Bearer!Init
  BY <1>2, <1>4, <1>5
     DEF Bearer!Init, Bearer!Idle, Waiting, NotSent, Flying, Names, NoRequest, Unsent,
         HeadSent, HSent, Alive
<1> QED BY <1>3, <1>6

\* A freed bearer keeps no request, in every reachable state.
THEOREM BearerInvariant == Spec => []RInv
<1>1. Init => RInv BY RInit
<1>2. RInv /\ [Next]_vars => RInv' BY RNext
<1> QED BY <1>1, <1>2, PTL DEF Spec

\* With a peer that answers each request once, gattrib.c implements the bearer
\* of AttBearer: requests are carried one at a time and in order, each callback
\* is told of its own request and once, and nothing follows a timeout.
THEOREM BearerImplemented ==
  ASSUME Polite
  PROVE  Spec => ImplementsBearer
<1>1. Init => Bearer!Init BY RInit
<1>2. RInv /\ RInv' /\ [Next]_vars => [Bearer!Next]_(Bearer!vars) BY RStep
<1>3. Spec => []RInv BY BearerInvariant
<1> QED BY <1>1, <1>2, <1>3, PTL DEF Spec, ImplementsBearer, Bearer!Spec
=============================================================================
