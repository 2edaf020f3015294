------------------------- MODULE VehicleToolProofs -------------------------
(***************************************************************************)
(* Proofs about the session of VehicleTool, for any devices, any number of *)
(* connections and any command line.                                       *)
(***************************************************************************)
EXTENDS VehicleTool, WellFoundedInduction, SequenceTheorems, TLAPS

(***************************************************************************)
(* The inductive invariant.  Linked says what a connection record is and   *)
(* that a request is on the air only if it heads the queue.  FoundSoFar,     *)
(* Left and Handles carry HandlesAreCurrent, Offers carries MtuAgreed.     *)
(***************************************************************************)
ProcRecord ==
  [kind : {"services", "chars", "read", "write", "write_cmd", "mtu"},
   found : Seq(Char)]

WriteKind == {"write", "write_cmd"}
WriteUse == {"message", "notify"}

LinkRecord ==
  [dev : Dev, chan : {"connecting", "open", "hup", "failed", "closed"},
   refs : BOOLEAN, queue : Seq(ProcRecord), sent : BOOLEAN, stale : BOOLEAN,
   mtu : Int, offered : Seq(Int), answered : Nat, done : BOOLEAN, cut : BOOLEAN,
   issued : SUBSET [what : WriteUse, handle : Nat]]

Linked ==
  /\ links \in Seq(LinkRecord)
  /\ \A i \in DOMAIN links : links[i].sent => links[i].queue # <<>>

\* The session: types, pointers and channels.
SInv == TypeOK /\ Linked /\ PointersAgree /\ OneChannel

\* What a discovery has found is the beginning of the profile of its device.
IsPrefixOf(f, p) == Len(f) <= Len(p) /\ \A j \in 1..Len(f) : f[j] = p[j]
Found(l) == \A k \in DOMAIN l.queue : IsPrefixOf(l.queue[k].found, Profile[l.dev])
FoundSoFar == \A i \in DOMAIN links : Found(links[i])

\* A connection the session has left was cut if its discovery has found
\* anything, and does not count as discovered.
Past(l) == (Collecting(l) => l.cut) /\ ~ l.done
Left == \A i \in DOMAIN links : i # attrib => Past(links[i])

HInv == FoundSoFar /\ Left /\ HandlesAreCurrent

\* Only the current connection has exchanged MTUs, for the value opt_mtu that
\* the user typed, and its buffer is the smaller of that and of the answer.
NoOffer(l) == l.offered = <<>> /\ l.mtu = ATT_DEFAULT_LE_MTU
Offer(l, opt) ==
  /\ l.offered = <<>> =>
       /\ l.mtu = ATT_DEFAULT_LE_MTU
       /\ \A k \in DOMAIN l.queue : l.queue[k].kind # "mtu"
  /\ l.offered # <<>> => l.offered = <<opt>> /\ opt >= ATT_DEFAULT_LE_MTU
  /\ l.mtu # ATT_DEFAULT_LE_MTU => l.mtu <= opt /\ l.mtu <= l.answered
Offers ==
  /\ conn_state # "CONNECTED" => opt_mtu = 0
  /\ \A i \in DOMAIN links :
       IF i = attrib THEN Offer(links[i], opt_mtu) ELSE NoOffer(links[i])
-----------------------------------------------------------------------------
(***************************************************************************)
(* Facts about numbers and the helpers of the model.                       *)
(***************************************************************************)
\* A set of numbers that is not empty has a least element.
LEMMA SmallestNat ==
  ASSUME NEW T \in SUBSET Nat, T # {}
  PROVE  \E x \in T : \A y \in T : x <= y
<1> DEFINE R == {ss \in Nat \X Nat : ss[1] < ss[2]}
<1>1. OpToRel(<, Nat) = R
  BY Zenon DEF OpToRel
<1>2. IsWellFoundedOn(R, Nat)
  BY <1>1, NatLessThanWellFounded, Zenon
<1>3. \A y, x \in Nat : y < x => <<y, x>> \in R
  OBVIOUS
<1> HIDE DEF R
<1>4. PICK x \in T : \A y \in T : ~ (<<y, x>> \in R)
  BY <1>2, WFMin
<1>5. x \in Nat /\ \A y \in T : y \in Nat /\ ~ (y < x) BY <1>3, <1>4
<1> QED BY <1>5

\* The largest of some positions of a sequence is one of them.
LEMMA MaxOfPositions ==
  ASSUME NEW n \in Nat, NEW T \in SUBSET (1..n), T # {}
  PROVE  Max(T) \in T
<1> DEFINE D == {k \in 0..n : n - k \in T}
<1>1. D # {}
  <2>1. PICK x \in T : TRUE OBVIOUS
  <2>2. x \in 1..n /\ n - x \in 0..n /\ n - (n - x) = x BY <2>1
  <2>3. n - x \in D BY <2>2, <2>1
  <2> QED BY <2>3
<1>2. D \in SUBSET Nat OBVIOUS
<1>3. \A y \in T : n - y \in D /\ y \in 1..n
  <2> TAKE y \in T
  <2>1. y \in 1..n OBVIOUS
  <2>2. n - y \in 0..n /\ n - (n - y) = y BY <2>1
  <2> QED BY <2>1, <2>2
<1>4. \A d \in D : d \in 0..n /\ n - d \in T OBVIOUS
<1> HIDE DEF D
<1>5. PICK d \in D : \A e \in D : d <= e BY <1>1, <1>2, SmallestNat
<1>6. n - d \in T /\ \A y \in T : n - d >= y BY <1>5, <1>3, <1>4
<1>7. \E x \in T : \A y \in T : x >= y BY <1>6
<1> QED BY <1>7, Zenon DEF Max

\* pick returns the old characteristic, or one of the list that has the uuid;
\* the old one only if the list has none.
LEMMA PickResult ==
  ASSUME NEW cs \in Seq(Char), NEW uuid, NEW old
  PROVE  \/ /\ pick(cs, uuid, old) = old
            /\ \A k \in 1..Len(cs) : cs[k].uuid # uuid
         \/ \E k \in 1..Len(cs) : cs[k].uuid = uuid /\ pick(cs, uuid, old) = cs[k]
<1> DEFINE is == {k \in DOMAIN cs : cs[k].uuid = uuid}
<1>1. Len(cs) \in Nat /\ DOMAIN cs = 1..Len(cs) BY LenProperties
<1>2. pick(cs, uuid, old) = IF is = {} THEN old ELSE cs[Max(is)]
  BY Zenon DEF pick
<1>3. CASE is = {}
  BY <1>1, <1>2, <1>3
<1>4. CASE is # {}
  <2>1. is \in SUBSET (1..Len(cs)) BY <1>1
  <2>2. \A k \in is : k \in 1..Len(cs) /\ cs[k].uuid = uuid BY <1>1
  <2> HIDE DEF is
  <2>3. Max(is) \in is BY <1>1, <1>4, <2>1, MaxOfPositions
  <2> QED BY <1>2, <1>4, <2>2, <2>3
<1> QED BY <1>3, <1>4

\* What pick returns is a characteristic.
LEMMA PickType ==
  ASSUME NEW cs \in Seq(Char), NEW uuid, NEW old \in Char
  PROVE  pick(cs, uuid, old) \in Char
BY PickResult, ElementOfSeq

\* The writes of one command are a queue of procedures.
Burst(n, kind) == [k \in 1..n |-> Proc(kind)]
LEMMA BurstType ==
  ASSUME NEW n \in Nat, NEW kind \in WriteKind
  PROVE  /\ Burst(n, kind) \in Seq(ProcRecord) /\ Len(Burst(n, kind)) = n
         /\ \A k \in 1..n : /\ Burst(n, kind)[k].found = <<>>
                            /\ Burst(n, kind)[k].kind # "mtu"
<1>1. <<>> \in Seq(Char) OBVIOUS
<1>2. Proc(kind) \in ProcRecord BY <1>1 DEF Proc, ProcRecord, WriteKind
<1>3. Proc(kind).found = <<>> /\ Proc(kind).kind # "mtu" BY DEF Proc, WriteKind
<1> DEFINE p == Proc(kind)
<1> HIDE DEF p
<1>4. Burst(n, kind) = [k \in 1..n |-> p] BY DEF Burst, p
<1>5. [k \in 1..n |-> p] \in [1..n -> ProcRecord] BY <1>2 DEF p
<1> QED BY <1>2, <1>3, <1>4, <1>5 DEF p

\* l and m are the same connection in the same phase.
Fixed(l, m) ==
  /\ m.dev = l.dev /\ m.chan = l.chan /\ m.refs = l.refs
  /\ m.mtu = l.mtu /\ m.offered = l.offered /\ m.answered = l.answered
  /\ m.done = l.done /\ m.cut = l.cut

\* Sending appends to the queue or, on a dead bearer, does nothing.
LEMMA SendType ==
  ASSUME NEW l \in LinkRecord, NEW p \in ProcRecord
  PROVE  LET m == g_attrib_send(l, p)
         IN  /\ m \in LinkRecord
             /\ Fixed(l, m) /\ m.sent = l.sent
             /\ m.queue = IF l.stale THEN l.queue ELSE Append(l.queue, p)
             /\ l.queue # <<>> => m.queue # <<>>
<1>1. l.queue \in Seq(ProcRecord) BY DEF LinkRecord
<1>2. Append(l.queue, p) \in Seq(ProcRecord) /\ Append(l.queue, p) # <<>>
  BY <1>1, AppendProperties
<1> QED BY <1>1, <1>2 DEF g_attrib_send, LinkRecord, Fixed

\* So does writing.
LEMMA WriteType ==
  ASSUME NEW l \in LinkRecord, NEW n \in Nat, NEW kind \in WriteKind,
         NEW what \in WriteUse, NEW handle \in Nat,
         NEW m, m = gatt_write(l, n, kind, what, handle)
  PROVE  /\ m \in LinkRecord
         /\ Fixed(l, m) /\ m.sent = l.sent
         /\ m.queue = IF l.stale THEN l.queue ELSE l.queue \o Burst(n, kind)
         /\ l.queue # <<>> => m.queue # <<>>
<1> DEFINE w == Burst(n, kind)
           is == l.issued \cup {[what |-> what, handle |-> handle]}
<1>1. l.queue \in Seq(ProcRecord) BY DEF LinkRecord
<1>2. w \in Seq(ProcRecord) BY BurstType
<1>3. is \in SUBSET [what : WriteUse, handle : Nat]
  BY DEF LinkRecord
<1>4. m = IF l.stale THEN l ELSE [l EXCEPT !.queue = l.queue \o w, !.issued = is]
  BY DEF gatt_write, Burst
<1> HIDE DEF w, is
<1>5. /\ l.queue \o w \in Seq(ProcRecord)
      /\ l.queue # <<>> => l.queue \o w # <<>>
  BY <1>1, <1>2
<1>6. CASE l.stale BY <1>4, <1>6 DEF Fixed
<1>7. CASE ~ l.stale
  <2>1. m = [l EXCEPT !.queue = l.queue \o w, !.issued = is] BY <1>4, <1>7
  <2>2. m \in LinkRecord BY <1>3, <1>5, <2>1 DEF LinkRecord
  <2>3. m.queue = l.queue \o w /\ Fixed(l, m) /\ m.sent = l.sent
    BY <2>1 DEF LinkRecord, Fixed
  <2> QED BY <1>5, <1>7, <2>1, <2>2, <2>3 DEF w
<1> QED BY <1>6, <1>7

\* An answer takes the head off the queue.
LEMMA PoppedType ==
  ASSUME NEW l \in LinkRecord, l.queue # <<>>
  PROVE  /\ Popped(l) \in LinkRecord
         /\ Fixed(l, Popped(l))
         /\ Popped(l).queue = Tail(l.queue)
         /\ ~ Popped(l).sent
<1>1. Tail(l.queue) \in Seq(ProcRecord) BY DEF LinkRecord
<1> QED BY <1>1 DEF Popped, LinkRecord, Fixed
-----------------------------------------------------------------------------
(***************************************************************************)
(* The session: SInv is inductive.                                         *)
(***************************************************************************)
\* A connection that is in use is the session's own.
LEMMA CurrentLink ==
  ASSUME SInv, NEW i \in DOMAIN links, links[i].chan \in {"open", "hup"}
  PROVE  /\ i = attrib /\ i = iochannel /\ conn_state = "CONNECTED"
         /\ running /\ links[i].refs
BY DEF SInv, TypeOK, OneChannel, PointersAgree

\* The record of a connection.
LEMMA LinkType ==
  ASSUME SInv
  PROVE  /\ links \in Seq(LinkRecord) /\ Len(links) \in Nat
         /\ DOMAIN links = 1..Len(links)
         /\ \A i \in 1..Len(links) : links[i] \in LinkRecord
         /\ attrib # 0 => attrib \in 1..Len(links)
         /\ iochannel # 0 => iochannel \in 1..Len(links)
BY DEF SInv, Linked, TypeOK

\* A request on the air heads the queue of the session's bearer.
LEMMA OnAirHead ==
  ASSUME SInv, NEW i \in DOMAIN links, NEW kind, OnAir(i, kind)
  PROVE  /\ links[i].queue # <<>> /\ links[i].queue[1] \in ProcRecord
         /\ links[i].queue[1].kind = kind
         /\ i = attrib /\ ~ links[i].stale /\ links[i].chan = "open"
<1>1. links[i].chan = "open" /\ links[i].sent /\ links[i].queue[1].kind = kind
      /\ ~ links[i].stale
  BY DEF OnAir
<1>2. links[i].queue # <<>> /\ links[i] \in LinkRecord
  BY <1>1, LinkType DEF SInv, Linked
<1>3. links[i].queue \in Seq(ProcRecord) BY <1>2 DEF LinkRecord
<1>4. links[i].queue[1] \in ProcRecord BY <1>2, <1>3
<1> QED BY <1>1, <1>2, <1>4, CurrentLink

\* Replacing one record of links.
LEMMA ReplaceLink ==
  ASSUME SInv, NEW i \in DOMAIN links, NEW m \in LinkRecord,
         links' = [links EXCEPT ![i] = m]
  PROVE  /\ links' \in Seq(LinkRecord) /\ Len(links') = Len(links)
         /\ DOMAIN links' = DOMAIN links
         /\ \A j \in DOMAIN links : links'[j] = IF j = i THEN m ELSE links[j]
<1>1. links \in Seq(LinkRecord) /\ i \in 1..Len(links) BY LinkType
<1> QED BY <1>1, ExceptSeq, LenProperties

\* links has the same connections after the step.
SameLinks(ls) ==
  /\ ls \in Seq(LinkRecord) /\ Len(ls) = Len(links) /\ DOMAIN ls = DOMAIN links

\* m is link i after a step of its bearer that keeps the connection.
Keeps(i, m) ==
  /\ m.dev = links[i].dev /\ m.chan = links[i].chan
  /\ i = attrib => m.refs = links[i].refs
  /\ m.sent => m.queue # <<>>

\* A step in which every connection is kept keeps the session.
LEMMA KeepsSession ==
  ASSUME SInv, SameLinks(links'), \A j \in DOMAIN links : Keeps(j, links'[j]),
         UNCHANGED <<conn_state, iochannel, attrib, running>>,
         opt_mtu' \in {0} \cup MtuArgs,
         vehicle' \in [read_char : Char, write_char : Char],
         crashed' \in {"no", "connect_cb", "discover_char_cb"}
  PROVE  SInv'
<1>1. links' \in Seq(LinkRecord) /\ Len(links') = Len(links)
      /\ DOMAIN links' = DOMAIN links
  BY DEF SameLinks
<1>2. TypeOK' BY <1>1 DEF SInv, TypeOK
<1>3. Linked' BY <1>1 DEF Linked, Keeps
<1>4. PointersAgree' BY <1>1, LinkType DEF SInv, PointersAgree, Keeps
<1>5. OneChannel' BY <1>1 DEF SInv, OneChannel, Keeps
<1> QED BY <1>2, <1>3, <1>4, <1>5 DEF SInv

\* A procedure of m was in the queue of l, or has just been sent and has found
\* nothing.
Carried(l, m) ==
  \A k \in DOMAIN m.queue :
    \/ \E j \in DOMAIN l.queue : m.queue[k] = l.queue[j]
    \/ m.queue[k].found = <<>> /\ m.queue[k].kind # "mtu"

\* Nothing changes from l to m but the queue of the bearer and the writes
\* issued.
Quiet(l, m) == Fixed(l, m) /\ Carried(l, m)

QuietStep ==
  /\ SameLinks(links')
  /\ \A j \in DOMAIN links : Quiet(links[j], links'[j]) /\ Keeps(j, links'[j])
  /\ UNCHANGED <<session, opt_mtu>>

\* Link i becomes another record, quietly.
QuietAt(i) ==
  \E m \in LinkRecord : /\ links' = [links EXCEPT ![i] = m]
                        /\ Quiet(links[i], m) /\ (m.sent => m.queue # <<>>)

\* A step that changes only the queue of link i is quiet.
LEMMA QuietUpdate ==
  ASSUME SInv, NEW i \in DOMAIN links, QuietAt(i), UNCHANGED <<session, opt_mtu>>
  PROVE  QuietStep
<1>0. PICK m \in LinkRecord : /\ links' = [links EXCEPT ![i] = m]
                              /\ Quiet(links[i], m) /\ (m.sent => m.queue # <<>>)
  BY DEF QuietAt
<1>1. /\ SameLinks(links')
      /\ \A j \in DOMAIN links : links'[j] = IF j = i THEN m ELSE links[j]
  BY <1>0, ReplaceLink DEF SameLinks
<1>2. \A j \in DOMAIN links : Quiet(links[j], links[j]) /\ Keeps(j, links[j])
  BY DEF Quiet, Fixed, Carried, Keeps, SInv, Linked
<1>3. Keeps(i, m) BY <1>0 DEF Quiet, Fixed, Keeps
<1> QED BY <1>0, <1>1, <1>2, <1>3 DEF QuietStep

\* Sending a procedure that has found nothing is quiet.
LEMMA SendQuiet ==
  ASSUME NEW l \in LinkRecord, NEW p \in ProcRecord,
         p.found = <<>>, p.kind # "mtu"
  PROVE  /\ g_attrib_send(l, p) \in LinkRecord
         /\ Quiet(l, g_attrib_send(l, p))
         /\ (l.sent => l.queue # <<>>) =>
              (g_attrib_send(l, p).sent => g_attrib_send(l, p).queue # <<>>)
<1> DEFINE m == g_attrib_send(l, p)
<1>1. /\ m \in LinkRecord /\ Fixed(l, m) /\ m.sent = l.sent
      /\ m.queue = IF l.stale THEN l.queue ELSE Append(l.queue, p)
      /\ l.queue # <<>> => m.queue # <<>>
  BY SendType
<1> HIDE DEF m
<1>2. l.queue \in Seq(ProcRecord) BY DEF LinkRecord
<1>3. Carried(l, m)
  <2>1. CASE l.stale BY <1>1, <2>1 DEF Carried
  <2>2. CASE ~ l.stale
    <3>1. m.queue = Append(l.queue, p) BY <1>1, <2>2
    <3>2. /\ DOMAIN m.queue = 1..(Len(l.queue) + 1)
          /\ \A k \in 1..Len(l.queue) : m.queue[k] = l.queue[k]
          /\ m.queue[Len(l.queue) + 1] = p
      BY <1>2, <3>1, AppendProperties, LenProperties
    <3> QED BY <1>2, <3>2, LenProperties DEF Carried
  <2> QED BY <2>1, <2>2
<1> QED BY <1>1, <1>3 DEF Quiet, m

\* So is writing.
LEMMA WriteQuiet ==
  ASSUME NEW l \in LinkRecord, NEW n \in Nat, NEW kind \in WriteKind,
         NEW what \in WriteUse, NEW handle \in Nat,
         NEW m, m = gatt_write(l, n, kind, what, handle)
  PROVE  /\ m \in LinkRecord /\ Quiet(l, m)
         /\ (l.sent => l.queue # <<>>) => (m.sent => m.queue # <<>>)
<1> DEFINE w == Burst(n, kind)
<1>1. /\ m \in LinkRecord /\ Fixed(l, m) /\ m.sent = l.sent
      /\ m.queue = IF l.stale THEN l.queue ELSE l.queue \o w
      /\ l.queue # <<>> => m.queue # <<>>
  BY WriteType
<1>2. l.queue \in Seq(ProcRecord) BY DEF LinkRecord
<1>3. /\ w \in Seq(ProcRecord) /\ Len(w) = n
      /\ \A k \in 1..n : w[k].found = <<>> /\ w[k].kind # "mtu"
  BY BurstType
<1> HIDE DEF w
<1>4. Carried(l, m)
  <2>1. CASE l.stale BY <1>1, <2>1 DEF Carried
  <2>2. CASE ~ l.stale
    <3>1. m.queue = l.queue \o w BY <1>1, <2>2
    <3> DEFINE q == l.queue
    <3> HIDE DEF q
    <3>2. /\ DOMAIN (q \o w) = 1..(Len(q) + n)
          /\ DOMAIN q = 1..Len(q) /\ Len(q) \in Nat
          /\ \A k \in 1..(Len(q) + n) :
               (q \o w)[k] = IF k <= Len(q) THEN q[k] ELSE w[k - Len(q)]
      BY <1>2, <1>3 DEF q
    <3>3. ASSUME NEW k \in 1..(Len(q) + n)
          PROVE  \/ \E j \in DOMAIN q : (q \o w)[k] = q[j]
                 \/ (q \o w)[k].found = <<>> /\ (q \o w)[k].kind # "mtu"
      <4>1. CASE k <= Len(q) BY <3>2, <4>1
      <4>2. CASE k > Len(q)
        <5>1. k - Len(q) \in 1..n BY <3>2, <4>2
        <5> QED BY <1>3, <3>2, <4>2, <5>1
      <4> QED BY <3>2, <4>1, <4>2
    <3> QED BY <3>1, <3>2, <3>3 DEF Carried, q
  <2> QED BY <2>1, <2>2
<1> QED BY <1>1, <1>4 DEF Quiet

\* And taking the head off the queue.
LEMMA PoppedQuiet ==
  ASSUME NEW l \in LinkRecord, l.queue # <<>>
  PROVE  Popped(l) \in LinkRecord /\ Quiet(l, Popped(l)) /\ ~ Popped(l).sent
<1> DEFINE m == Popped(l)
<1>1. /\ m \in LinkRecord /\ Fixed(l, m)
      /\ m.queue = Tail(l.queue) /\ ~ m.sent
  BY PoppedType
<1> HIDE DEF m
<1>2. l.queue \in Seq(ProcRecord) BY DEF LinkRecord
<1>3. Carried(l, m) BY <1>1, <1>2 DEF Carried
<1> QED BY <1>1, <1>3 DEF Quiet, m

\* The procedures of the tool are of the type of a procedure.
LEMMA ProcType ==
  ASSUME NEW kind \in {"services", "chars", "read", "write", "write_cmd", "mtu"}
  PROVE  Proc(kind) \in ProcRecord /\ Proc(kind).found = <<>> /\ Proc(kind).kind = kind
<1>1. <<>> \in Seq(Char) OBVIOUS
<1> QED BY <1>1 DEF Proc, ProcRecord

\* A command that writes or reads only queues procedures.
LEMMA CommandQuiet ==
  ASSUME SInv,
         \/ \E c \in Commands : cmd_anki_vehicle_message(c)
         \/ cmd_anki_vehicle_send_data
         \/ cmd_anki_vehicle_read
  PROVE  QuietStep
<1>1. Room /\ UNCHANGED <<session, opt_mtu>>
  BY DEF cmd_anki_vehicle_message, cmd_anki_vehicle_send_data, cmd_anki_vehicle_read
<1>2. attrib \in DOMAIN links /\ links[attrib] \in LinkRecord
      /\ (links[attrib].sent => links[attrib].queue # <<>>)
  BY <1>1, LinkType DEF Room, Connected, SInv, PointersAgree, Linked
<1> DEFINE l == links[attrib]
           h == vehicle.write_char.value_handle
<1>3. h \in Nat BY DEF SInv, TypeOK, Char
<1>4. QuietAt(attrib)
  <2>1. ASSUME NEW c \in Commands, cmd_anki_vehicle_message(c)
        PROVE  QuietAt(attrib)
    <3>1. c \in DOMAIN Writes /\
          links' = [links EXCEPT ![attrib] = gatt_write(l, Writes[c], "write", "message", h)]
      BY <2>1 DEF cmd_anki_vehicle_message
    <3>2. Writes[c] \in Nat BY <3>1 DEF Writes
    <3>3. "write" \in WriteKind /\ "message" \in WriteUse BY DEF WriteKind, WriteUse
    <3> DEFINE m == gatt_write(l, Writes[c], "write", "message", h)
    <3>4. l \in LinkRecord BY <1>2
    <3> HIDE DEF l, h
    <3>5. /\ m \in LinkRecord /\ Quiet(l, m)
          /\ (l.sent => l.queue # <<>>) => (m.sent => m.queue # <<>>)
      BY <1>3, <3>2, <3>3, <3>4, WriteQuiet
    <3> HIDE DEF m
    <3> QED BY <1>2, <3>1, <3>5 DEF QuietAt, l, m
  <2>2. ASSUME cmd_anki_vehicle_send_data
        PROVE  QuietAt(attrib)
    <3>1. links' = [links EXCEPT ![attrib] = gatt_write(l, 1, "write_cmd", "message", h)]
      BY <2>2 DEF cmd_anki_vehicle_send_data
    <3>2. "write_cmd" \in WriteKind /\ "message" \in WriteUse BY DEF WriteKind, WriteUse
    <3> DEFINE m == gatt_write(l, 1, "write_cmd", "message", h)
    <3>3. l \in LinkRecord BY <1>2
    <3> HIDE DEF l, h
    <3>4. /\ m \in LinkRecord /\ Quiet(l, m)
          /\ (l.sent => l.queue # <<>>) => (m.sent => m.queue # <<>>)
      BY <1>3, <3>2, <3>3, WriteQuiet
    <3> HIDE DEF m
    <3> QED BY <1>2, <3>1, <3>4 DEF QuietAt, l, m
  <2>3. ASSUME cmd_anki_vehicle_read
        PROVE  QuietAt(attrib)
    <3>1. links' = [links EXCEPT ![attrib] = g_attrib_send(l, Proc("read"))]
      BY <2>3 DEF cmd_anki_vehicle_read
    <3> HIDE DEF l
    <3>2. l \in LinkRecord BY <1>2 DEF l
    <3>3. Proc("read") \in ProcRecord /\ Proc("read").found = <<>>
          /\ Proc("read").kind # "mtu"
      BY ProcType
    <3> QED BY <1>2, <3>1, <3>2, <3>3, SendQuiet DEF QuietAt, l
  <2> QED BY <2>1, <2>2, <2>3
<1> QED BY <1>1, <1>2, <1>4, QuietUpdate

\* The bearer transmits, an answer that is only displayed arrives, or a
\* discovery of services goes on.
LEMMA BearerQuiet ==
  ASSUME SInv, NEW i \in DOMAIN links,
         \/ Transmit(i) \/ Answer(i) \/ primary_by_uuid_cb(i) \/ discover_services_cb(i)
  PROVE  QuietStep
<1> DEFINE l == links[i]
<1>1. l \in LinkRecord /\ (l.sent => l.queue # <<>>)
  BY LinkType DEF SInv, Linked
<1>2. UNCHANGED <<session, opt_mtu>>
  BY DEF Transmit, Answer, primary_by_uuid_cb, discover_services_cb
<1>3. QuietAt(i)
  <2>1. ASSUME Transmit(i)
        PROVE  QuietAt(i)
    <3>1. l.queue # <<>> BY <2>1 DEF Transmit
    <3>2. l.queue \in Seq(ProcRecord) BY <1>1 DEF LinkRecord
    <3>3. CASE l.queue[1].kind = "write_cmd"
      <4> DEFINE m == [l EXCEPT !.queue = Tail(l.queue)]
      <4>1. links' = [links EXCEPT ![i] = m] BY <2>1, <3>3 DEF Transmit
      <4>2. ~ l.sent /\ Tail(l.queue) \in Seq(ProcRecord)
        BY <2>1, <3>1, <3>2 DEF Transmit
      <4>3. m \in LinkRecord /\ Fixed(l, m) /\ m.queue = Tail(l.queue) /\ ~ m.sent
        BY <1>1, <4>2 DEF LinkRecord, Fixed
      <4> HIDE DEF m
      <4>4. Carried(l, m) BY <3>1, <3>2, <4>3 DEF Carried
      <4> QED BY <4>1, <4>3, <4>4 DEF Quiet, QuietAt
    <3>4. CASE l.queue[1].kind # "write_cmd"
      <4> DEFINE m == [l EXCEPT !.sent = TRUE]
      <4>1. links' = [links EXCEPT ![i] = m] BY <2>1, <3>4 DEF Transmit
      <4>2. m \in LinkRecord /\ Fixed(l, m) /\ m.queue = l.queue
        BY <1>1 DEF LinkRecord, Fixed
      <4> HIDE DEF m
      <4>3. Carried(l, m) BY <4>2 DEF Carried
      <4> QED BY <3>1, <4>1, <4>2, <4>3 DEF Quiet, QuietAt
    <3> QED BY <3>3, <3>4
  <2>2. ASSUME Answer(i)
        PROVE  QuietAt(i)
    <3>1. PICK kind : OnAir(i, kind) BY <2>2 DEF Answer
    <3>2. l.queue # <<>> BY <3>1, OnAirHead
    <3>3. links' = [links EXCEPT ![i] = Popped(l)] BY <2>2 DEF Answer
    <3> HIDE DEF l
    <3> QED BY <1>1, <3>2, <3>3, PoppedQuiet DEF QuietAt, l
  <2>3. ASSUME OnAir(i, "services"), NEW p \in ProcRecord,
               p.found = <<>>, p.kind # "mtu",
               links' = [links EXCEPT ![i] = g_attrib_send(Popped(l), p)]
        PROVE  QuietAt(i)
    <3>1. l.queue # <<>> BY <2>3, OnAirHead
    <3> DEFINE n == Popped(l)
               m == g_attrib_send(n, p)
    <3>2. n \in LinkRecord /\ Quiet(l, n) /\ ~ n.sent
      BY <1>1, <3>1, PoppedQuiet
    <3>3. m \in LinkRecord /\ Quiet(n, m) /\ (m.sent => m.queue # <<>>)
      <4> HIDE DEF n
      <4> QED BY <2>3, <3>2, SendQuiet
    <3>4. Quiet(l, m)
      <4> HIDE DEF n, m, l
      <4>1. Fixed(l, m) BY <3>2, <3>3 DEF Quiet, Fixed
      <4>2. Carried(l, m) BY <3>2, <3>3 DEF Quiet, Carried
      <4> QED BY <4>1, <4>2 DEF Quiet
    <3> HIDE DEF m
    <3> QED BY <2>3, <3>3, <3>4 DEF m, QuietAt
  <2>4. ASSUME primary_by_uuid_cb(i)
        PROVE  QuietAt(i)
    <3>1. OnAir(i, "services") /\
          links' = [links EXCEPT ![i] = g_attrib_send(Popped(l), Proc("services"))]
      BY <2>4 DEF primary_by_uuid_cb
    <3>2. Proc("services") \in ProcRecord /\ Proc("services").found = <<>>
          /\ Proc("services").kind # "mtu"
      BY ProcType
    <3> QED BY <2>3, <3>1, <3>2
  <2>5. ASSUME discover_services_cb(i)
        PROVE  QuietAt(i)
    <3>1. OnAir(i, "services") BY <2>5 DEF discover_services_cb
    <3>2. i = attrib BY <3>1, OnAirHead
    <3>3. links' = [links EXCEPT ![i] = g_attrib_send(Popped(l), Proc("chars"))]
      <4>1. links' = [[links EXCEPT ![i] = Popped(l)] EXCEPT ![i] =
                        g_attrib_send([links EXCEPT ![i] = Popped(l)][i], Proc("chars"))]
        BY <2>5, <3>2 DEF discover_services_cb
      <4>2. [links EXCEPT ![i] = Popped(l)][i] = Popped(l) BY LinkType
      <4> HIDE DEF l
      <4> QED BY <4>1, <4>2
    <3>4. Proc("chars") \in ProcRecord /\ Proc("chars").found = <<>>
          /\ Proc("chars").kind # "mtu"
      BY ProcType
    <3> QED BY <2>3, <3>1, <3>3, <3>4
  <2> QED BY <2>1, <2>2, <2>4, <2>5
<1> QED BY <1>2, <1>3, QuietUpdate

\* The mtu command: rejected or refused it leaves the connections alone, else
\* it queues the request and remembers the offer.
LEMMA MtuEffect ==
  ASSUME SInv, NEW v \in MtuArgs, cmd_mtu(v)
  PROVE  LET l == links[attrib]
             m == links'[attrib]
         IN  /\ SameLinks(links') /\ attrib \in DOMAIN links
             /\ \A j \in DOMAIN links : j # attrib => links'[j] = links[j]
             /\ opt_mtu = 0 /\ opt_mtu' = v /\ UNCHANGED session
             /\ m.dev = l.dev /\ m.chan = l.chan /\ m.refs = l.refs /\ m.sent = l.sent
             /\ m.mtu = l.mtu /\ m.done = l.done /\ m.cut = l.cut
             /\ l.queue # <<>> => m.queue # <<>>
             /\ \/ m = l
                \/ /\ v >= ATT_DEFAULT_LE_MTU
                   /\ m.offered = Append(l.offered, v)
                   /\ m.queue = Append(l.queue, Proc("mtu"))
<1> DEFINE l == links[attrib]
           n == g_attrib_send(l, Proc("mtu"))
           o == Append(l.offered, v)
           m == [n EXCEPT !.offered = o]
<1>1. Room /\ opt_mtu = 0 /\ opt_mtu' = v /\ UNCHANGED session BY DEF cmd_mtu
<1>2. attrib \in DOMAIN links /\ l \in LinkRecord
  BY <1>1, LinkType DEF Room, Connected, SInv, PointersAgree
<1>3. CASE v < ATT_DEFAULT_LE_MTU \/ l.stale
  <2>1. links' = links BY <1>3 DEF cmd_mtu
  <2>2. SameLinks(links') BY <2>1, LinkType DEF SameLinks
  <2> QED BY <1>1, <1>2, <2>1, <2>2
<1>4. CASE v >= ATT_DEFAULT_LE_MTU /\ ~ l.stale
  <2>1. v \in Int BY ToolAssumption
  <2>2. links' = [links EXCEPT ![attrib] = m]
    BY <1>4, <2>1 DEF cmd_mtu, ATT_DEFAULT_LE_MTU
  <2>3. Proc("mtu") \in ProcRecord BY ProcType
  <2>4. /\ n \in LinkRecord /\ Fixed(l, n) /\ n.sent = l.sent
        /\ n.queue = Append(l.queue, Proc("mtu")) /\ n.queue # <<>>
    <3> HIDE DEF l
    <3>1. /\ n \in LinkRecord /\ Fixed(l, n) /\ n.sent = l.sent
          /\ n.queue = Append(l.queue, Proc("mtu"))
      BY <1>2, <1>4, <2>3, SendType
    <3>2. l.queue \in Seq(ProcRecord) BY <1>2 DEF LinkRecord
    <3> QED BY <2>3, <3>1, <3>2, AppendProperties
  <2>5. l.offered \in Seq(Int) BY <1>2 DEF LinkRecord
  <2>6. o \in Seq(Int) BY <2>1, <2>5, AppendProperties
  <2> HIDE DEF n, o
  <2>7. /\ m \in LinkRecord
        /\ m.dev = n.dev /\ m.chan = n.chan /\ m.refs = n.refs /\ m.sent = n.sent
        /\ m.mtu = n.mtu /\ m.done = n.done /\ m.cut = n.cut
        /\ m.queue = n.queue /\ m.offered = o
    BY <2>4, <2>6 DEF LinkRecord
  <2> HIDE DEF m
  <2>8. /\ SameLinks(links') /\ links'[attrib] = m
        /\ \A j \in DOMAIN links : j # attrib => links'[j] = links[j]
    BY <1>2, <2>2, <2>7, ReplaceLink DEF SameLinks
  <2> QED BY <1>1, <1>2, <1>4, <2>4, <2>7, <2>8 DEF Fixed, o
<1> QED
  <2>1. v \in Int /\ ATT_DEFAULT_LE_MTU \in Nat BY ToolAssumption DEF ATT_DEFAULT_LE_MTU
  <2> QED BY <2>1, <1>3, <1>4

\* The answer to the exchange: the buffer gets the smaller size.
LEMMA ExchangeEffect ==
  ASSUME SInv, NEW i \in DOMAIN links, NEW mtu \in PeerMtus, exchange_mtu_cb(i, mtu)
  PROVE  LET l == links[i]
             m == links'[i]
         IN  /\ SameLinks(links') /\ i = attrib
             /\ \A j \in DOMAIN links : j # i => links'[j] = links[j]
             /\ UNCHANGED <<session, opt_mtu>>
             /\ m.dev = l.dev /\ m.chan = l.chan /\ m.refs = l.refs /\ ~ m.sent
             /\ m.offered = l.offered /\ m.done = l.done /\ m.cut = l.cut
             /\ Carried(l, m)
             /\ l.queue # <<>> /\ l.queue[1].kind = "mtu"
             /\ m.mtu = IF mtu < opt_mtu THEN mtu ELSE opt_mtu
             /\ m.answered = mtu
<1> DEFINE l == links[i]
           n == Popped(l)
           z == IF mtu < opt_mtu THEN mtu ELSE opt_mtu
           m == [n EXCEPT !.mtu = z, !.answered = mtu]
<1>1. /\ OnAir(i, "mtu") /\ UNCHANGED <<session, opt_mtu>>
      /\ links' = [links EXCEPT ![i] = m]
  BY DEF exchange_mtu_cb
<1>2. i = attrib /\ l.queue # <<>> /\ l.queue[1].kind = "mtu" /\ l \in LinkRecord
  BY <1>1, OnAirHead, LinkType
<1>3. n \in LinkRecord /\ Quiet(l, n) /\ ~ n.sent
  <2> HIDE DEF l
  <2> QED BY <1>2, PoppedQuiet
<1>4. z \in Int /\ mtu \in Nat
  <2>1. mtu \in ATT_DEFAULT_LE_MTU..Uint16 - 1 BY ToolAssumption, Zenon
  <2>2. mtu \in Nat BY <2>1 DEF ATT_DEFAULT_LE_MTU, Uint16
  <2>3. opt_mtu \in Int BY ToolAssumption DEF SInv, TypeOK
  <2> QED BY <2>2, <2>3
<1> HIDE DEF n, z
<1>5. /\ m \in LinkRecord
      /\ m.dev = n.dev /\ m.chan = n.chan /\ m.refs = n.refs /\ m.sent = n.sent
      /\ m.mtu = z /\ m.answered = mtu
      /\ m.offered = n.offered /\ m.done = n.done /\ m.cut = n.cut
      /\ m.queue = n.queue
  BY <1>3, <1>4 DEF LinkRecord
<1> HIDE DEF m
<1>6. Carried(l, m) BY <1>3, <1>5 DEF Quiet, Carried
<1>7. /\ SameLinks(links') /\ links'[i] = m
      /\ \A j \in DOMAIN links : j # i => links'[j] = links[j]
  BY <1>1, <1>5, ReplaceLink DEF SameLinks
<1> QED BY <1>1, <1>2, <1>3, <1>5, <1>6, <1>7 DEF Quiet, Fixed, z

\* m is l but for its queue, the history of its discovery and what happens to
\* a bearer that times out.
Ends(l, m) ==
  /\ m.dev = l.dev /\ m.chan = l.chan
  /\ m.mtu = l.mtu /\ m.offered = l.offered /\ m.answered = l.answered
  /\ m.cut = l.cut

\* One more page of characteristics: the discovery asks on with a longer
\* beginning of the profile.
LEMMA PageEffect ==
  ASSUME SInv, NEW i \in DOMAIN links,
         NEW k \in 1..Len(Profile[links[i].dev]), char_discovered_cb(i, k)
  PROVE  LET l == links[i]
             m == links'[i]
             more == Len(l.queue[1].found) + k
             p == [kind |-> "chars", found |-> SubSeq(Profile[l.dev], 1, more)]
         IN  /\ SameLinks(links') /\ i = attrib
             /\ \A j \in DOMAIN links : j # i => links'[j] = links[j]
             /\ UNCHANGED <<session, opt_mtu>>
             /\ Fixed(l, m) /\ ~ m.sent
             /\ l.queue # <<>> /\ m.queue = Append(Tail(l.queue), p)
             /\ more \in 1..Len(Profile[l.dev])
<1> DEFINE l == links[i]
           more == Len(l.queue[1].found) + k
           p == [kind |-> "chars", found |-> SubSeq(Profile[l.dev], 1, more)]
           n == Popped(l)
           m == g_attrib_send(n, p)
<1>1. /\ OnAir(i, "chars") /\ UNCHANGED <<session, opt_mtu>>
      /\ links' = [links EXCEPT ![i] = m] /\ more <= Len(Profile[l.dev])
  BY DEF char_discovered_cb
<1>2. /\ i = attrib /\ l.queue # <<>> /\ l \in LinkRecord /\ ~ l.stale
      /\ l.queue[1] \in ProcRecord
  BY <1>1, OnAirHead, LinkType
<1>3. l.dev \in Dev BY <1>2 DEF LinkRecord
<1>4. Profile[l.dev] \in Seq(Char) BY <1>3, ToolAssumption, Zenon
<1>5. Len(l.queue[1].found) \in Nat BY <1>2 DEF ProcRecord
<1>6. more \in 1..Len(Profile[l.dev])
  <2> DEFINE a == Len(l.queue[1].found)
             b == Len(Profile[l.dev])
  <2>1. b \in Nat BY <1>4
  <2>2. k \in 1..b OBVIOUS
  <2>3. a + k <= b BY <1>1
  <2>4. a \in Nat BY <1>5
  <2> HIDE DEF a, b
  <2>5. a + k \in 1..b BY <2>1, <2>2, <2>3, <2>4
  <2> QED BY <2>5 DEF a, b
<1>7. SubSeq(Profile[l.dev], 1, more) \in Seq(Char)
  <2> DEFINE f == Profile[l.dev]
  <2> HIDE DEF f, more
  <2> QED BY <1>4, <1>6 DEF f
<1>8. p \in ProcRecord BY <1>7 DEF ProcRecord
<1>9. n \in LinkRecord /\ Fixed(l, n) /\ n.queue = Tail(l.queue) /\ ~ n.sent
      /\ ~ n.stale
  <2>1. n.stale = l.stale BY <1>2 DEF Popped, LinkRecord
  <2> HIDE DEF l
  <2> QED BY <1>2, <2>1, PoppedType
<1>10. m \in LinkRecord /\ Fixed(n, m) /\ m.sent = n.sent
       /\ m.queue = Append(n.queue, p)
  <2> HIDE DEF n, p
  <2> QED BY <1>8, <1>9, SendType
<1> HIDE DEF m
<1>11. /\ SameLinks(links') /\ links'[i] = m
       /\ \A j \in DOMAIN links : j # i => links'[j] = links[j]
  BY <1>1, <1>10, ReplaceLink DEF SameLinks
<1>12. Fixed(l, m) BY <1>9, <1>10 DEF Fixed
<1> HIDE DEF n
<1> QED BY <1>1, <1>2, <1>6, <1>9, <1>10, <1>11, <1>12

\* The two characteristics that discover_char_cb remembers.
Picked(found) ==
  [read_char  |-> pick(found, "READ", vehicle.read_char),
   write_char |-> pick(found, "WRITE", vehicle.write_char)]

\* discover_char_cb queues a write on the session's bearer or does nothing to
\* the connections.
LEMMA DiscoveredEffect ==
  ASSUME SInv, NEW found \in Seq(Char), NEW ls, SameLinks(ls),
         \A j \in DOMAIN links : ls[j].sent => ls[j].queue # <<>>,
         discover_char_cb(found, ls)
  PROVE  /\ SameLinks(links')
         /\ \A j \in DOMAIN links : /\ Quiet(ls[j], links'[j])
                                    /\ links'[j].sent => links'[j].queue # <<>>
         /\ vehicle' = Picked(found)
         /\ vehicle' \in [read_char : Char, write_char : Char]
         /\ crashed' \in {"no", "connect_cb", "discover_char_cb"}
         /\ UNCHANGED <<conn_state, iochannel, attrib, opt_mtu, running>>
<1> DEFINE v == Picked(found)
           notify == v.read_char.handle > 0 /\ v.write_char.handle > 0
<1>1. vehicle.read_char \in Char /\ vehicle.write_char \in Char
  BY DEF SInv, TypeOK
<1>2. pick(found, "READ", vehicle.read_char) \in Char
      /\ pick(found, "WRITE", vehicle.write_char) \in Char
  BY <1>1, PickType
<1>3. v \in [read_char : Char, write_char : Char]
  BY <1>2 DEF Picked
<1>4. /\ vehicle' = v
      /\ crashed' = IF notify /\ attrib = 0 THEN "discover_char_cb" ELSE "no"
      /\ links' = IF notify /\ attrib # 0
                  THEN [ls EXCEPT ![attrib] = gatt_write(ls[attrib], 1, "write_cmd",
                                                "notify", v.write_char.properties)]
                  ELSE ls
      /\ UNCHANGED <<conn_state, iochannel, attrib, opt_mtu, running>>
  BY DEF discover_char_cb, Picked
<1>5. v.write_char.properties \in Nat BY <1>3 DEF Char
<1> HIDE DEF v
<1>6. \A j \in DOMAIN links : Quiet(ls[j], ls[j])
  BY DEF Quiet, Fixed, Carried
<1>7. CASE ~ (notify /\ attrib # 0)
  <2>1. links' = ls BY <1>4, <1>7
  <2> QED BY <1>3, <1>4, <1>6, <2>1 DEF v
<1>8. CASE notify /\ attrib # 0
  <2> DEFINE l == ls[attrib]
             m == gatt_write(l, 1, "write_cmd", "notify", v.write_char.properties)
  <2>1. attrib \in DOMAIN links /\ attrib \in 1..Len(ls) /\ ls \in Seq(LinkRecord)
    BY <1>8, LinkType DEF SameLinks
  <2>2. l \in LinkRecord BY <2>1
  <2>3. "write_cmd" \in WriteKind /\ "notify" \in WriteUse BY DEF WriteKind, WriteUse
  <2>4. links' = [ls EXCEPT ![attrib] = m] BY <1>4, <1>8
  <2>5. l.sent => l.queue # <<>> BY <2>1
  <2> HIDE DEF l
  <2>6. m \in LinkRecord /\ Quiet(l, m) /\ (m.sent => m.queue # <<>>)
    BY <1>5, <2>2, <2>3, <2>5, WriteQuiet
  <2> HIDE DEF m
  <2>7. /\ links' \in Seq(LinkRecord) /\ Len(links') = Len(ls)
        /\ \A j \in 1..Len(ls) : links'[j] = IF j = attrib THEN m ELSE ls[j]
    BY <2>1, <2>4, <2>6, ExceptSeq
  <2>8. SameLinks(links') /\ DOMAIN links = 1..Len(ls)
    BY <2>1, <2>7, LinkType, LenProperties DEF SameLinks
  <2> QED BY <1>3, <1>4, <1>6, <2>6, <2>7, <2>8 DEF l, v
<1> QED BY <1>7, <1>8

\* The end of a discovery of characteristics: with something found,
\* discover_char_cb is called after the bearer has completed the request.
LEMMA EndsEffect ==
  ASSUME SInv, NEW i \in DOMAIN links, DiscoveryEnds(i)
  PROVE  LET l == links[i]
             found == l.queue[1].found
             n == [Popped(l) EXCEPT !.done = Complete(l.dev, found)]
             ls == [links EXCEPT ![i] = n]
         IN  /\ i = attrib /\ l.queue # <<>> /\ found \in Seq(Char)
             /\ n \in LinkRecord /\ SameLinks(ls)
             /\ \A j \in DOMAIN links : /\ ls[j] = IF j = i THEN n ELSE links[j]
                                        /\ ls[j].sent => ls[j].queue # <<>>
             /\ Ends(l, n) /\ n.refs = l.refs /\ Carried(l, n)
             /\ n.done = Complete(l.dev, found)
             /\ \/ found # <<>> /\ discover_char_cb(found, ls)
                \/ found = <<>> /\ links' = ls /\ UNCHANGED <<session, opt_mtu>>
<1> DEFINE l == links[i]
           found == l.queue[1].found
           n == [Popped(l) EXCEPT !.done = Complete(l.dev, found)]
           ls == [links EXCEPT ![i] = n]
<1>1. /\ OnAir(i, "chars")
      /\ \/ found # <<>> /\ discover_char_cb(found, ls)
         \/ found = <<>> /\ links' = ls /\ UNCHANGED <<session, opt_mtu>>
  BY DEF DiscoveryEnds
<1>2. /\ i = attrib /\ l.queue # <<>> /\ l.queue[1] \in ProcRecord /\ l \in LinkRecord
  BY <1>1, OnAirHead, LinkType
<1>3. found \in Seq(Char) BY <1>2 DEF ProcRecord
<1>4. Popped(l) \in LinkRecord /\ Quiet(l, Popped(l)) /\ ~ Popped(l).sent
  <2> HIDE DEF l
  <2> QED BY <1>2, PoppedQuiet
<1>5. Complete(l.dev, found) \in BOOLEAN BY DEF Complete
<1>6. /\ n \in LinkRecord /\ n.done = Complete(l.dev, found) /\ ~ n.sent
      /\ n.queue = Popped(l).queue /\ n.refs = Popped(l).refs /\ Ends(Popped(l), n)
  <2> DEFINE q == Popped(l)
             c == Complete(l.dev, found)
  <2> HIDE DEF q, c
  <2>1. q \in LinkRecord /\ c \in BOOLEAN /\ ~ q.sent BY <1>4, <1>5 DEF q, c
  <2>2. LET r == [q EXCEPT !.done = c]
        IN  /\ r \in LinkRecord /\ r.done = c /\ ~ r.sent /\ r.queue = q.queue
            /\ r.refs = q.refs /\ Ends(q, r)
    BY <2>1 DEF LinkRecord, Ends
  <2> QED BY <2>2 DEF q, c
<1>7. Carried(l, n) BY <1>4, <1>6 DEF Quiet, Carried
<1>8. Ends(l, n) /\ n.refs = l.refs BY <1>4, <1>6 DEF Quiet, Fixed, Ends
<1> HIDE DEF n
<1>9. /\ SameLinks(ls)
      /\ \A j \in DOMAIN links : ls[j] = IF j = i THEN n ELSE links[j]
  <2>1. links \in Seq(LinkRecord) /\ i \in 1..Len(links) /\ DOMAIN links = 1..Len(links)
    BY LinkType
  <2> QED BY <1>6, <2>1, ExceptSeq, LenProperties DEF SameLinks
<1>10. \A j \in DOMAIN links : ls[j].sent => ls[j].queue # <<>>
  BY <1>6, <1>9 DEF SInv, Linked
<1> HIDE DEF ls
<1> QED BY <1>1, <1>2, <1>3, <1>6, <1>7, <1>8, <1>9, <1>10 DEF ls, n

\* The record of a bearer that has timed out.
TimedOut(i) ==
  LET m == [links[i] EXCEPT !.queue = <<>>, !.sent = FALSE, !.stale = TRUE]
  IN  IF i = attrib THEN m ELSE freed(m)

\* The timeout of a bearer: its queue is dropped, and a discovery that has
\* found something is reported.
LEMMA TimeoutEffect ==
  ASSUME SInv, NEW i \in DOMAIN links, disconnect_timeout(i)
  PROVE  LET l == links[i]
             n == TimedOut(i)
             ls == [links EXCEPT ![i] = n]
         IN  /\ n \in LinkRecord /\ SameLinks(ls)
             /\ \A j \in DOMAIN links : /\ ls[j] = IF j = i THEN n ELSE links[j]
                                        /\ ls[j].sent => ls[j].queue # <<>>
             /\ Ends(l, n) /\ (i = attrib => n.refs = l.refs) /\ n.queue = <<>>
             /\ n.done = l.done
             /\ \/ /\ Collecting(l)
                   /\ \E k \in DOMAIN l.queue :
                        /\ l.queue[k] \in ProcRecord /\ l.queue[k].found # <<>>
                        /\ discover_char_cb(l.queue[k].found, ls)
                \/ links' = ls /\ UNCHANGED <<session, opt_mtu>>
<1> DEFINE l == links[i]
           m == [l EXCEPT !.queue = <<>>, !.sent = FALSE, !.stale = TRUE]
           n == TimedOut(i)
           ls == [links EXCEPT ![i] = n]
<1>1. l \in LinkRecord BY LinkType
<1>2. /\ n \in LinkRecord /\ Ends(l, n) /\ (i = attrib => n.refs = l.refs)
      /\ n.queue = <<>> /\ n.done = l.done /\ ~ n.sent
  <2>1. <<>> \in Seq(ProcRecord) OBVIOUS
  <2>2. /\ m \in LinkRecord /\ Ends(l, m) /\ m.refs = l.refs /\ m.queue = <<>>
        /\ m.done = l.done /\ ~ m.sent
    BY <1>1, <2>1 DEF LinkRecord, Ends
  <2>3. n = IF i = attrib THEN m ELSE freed(m) BY DEF TimedOut
  <2> HIDE DEF m, n
  <2>4. LET r == freed(m)
        IN  /\ r \in LinkRecord /\ Ends(m, r) /\ r.queue = <<>>
            /\ r.done = m.done /\ ~ r.sent
    BY <2>1, <2>2 DEF LinkRecord, Ends, freed
  <2>5. CASE i = attrib BY <2>2, <2>3, <2>5
  <2>6. CASE i # attrib
    <3>1. n = freed(m) BY <2>3, <2>6
    <3> QED BY <2>2, <2>4, <2>6, <3>1 DEF Ends
  <2> QED BY <2>5, <2>6
<1>3. \/ /\ Collecting(l)
         /\ discover_char_cb((CHOOSE p \in ToSet(l.queue) : p.found # <<>>).found, ls)
      \/ links' = ls /\ UNCHANGED <<session, opt_mtu>>
  BY DEF disconnect_timeout, TimedOut
<1> HIDE DEF n
<1>4. /\ SameLinks(ls)
      /\ \A j \in DOMAIN links : ls[j] = IF j = i THEN n ELSE links[j]
  <2>1. links \in Seq(LinkRecord) /\ i \in 1..Len(links) /\ DOMAIN links = 1..Len(links)
    BY LinkType
  <2> QED BY <1>2, <2>1, ExceptSeq, LenProperties DEF SameLinks
<1>5. \A j \in DOMAIN links : ls[j].sent => ls[j].queue # <<>>
  BY <1>2, <1>4 DEF SInv, Linked
<1>6. \/ /\ Collecting(l)
         /\ \E k \in DOMAIN l.queue :
              /\ l.queue[k] \in ProcRecord /\ l.queue[k].found # <<>>
              /\ discover_char_cb(l.queue[k].found, ls)
      \/ links' = ls /\ UNCHANGED <<session, opt_mtu>>
  <2> DEFINE p == CHOOSE p \in ToSet(l.queue) : p.found # <<>>
  <2>1. SUFFICES ASSUME Collecting(l), discover_char_cb(p.found, ls)
                 PROVE  \E k \in DOMAIN l.queue :
                          /\ l.queue[k] \in ProcRecord /\ l.queue[k].found # <<>>
                          /\ discover_char_cb(l.queue[k].found, ls)
    BY <1>3
  <2>2. p \in ToSet(l.queue) /\ p.found # <<>> BY <2>1, Zenon DEF Collecting
  <2> HIDE DEF p
  <2>3. PICK k \in DOMAIN l.queue : p = l.queue[k] BY <2>2 DEF ToSet
  <2>4. l.queue \in Seq(ProcRecord) BY <1>1 DEF LinkRecord
  <2>5. l.queue[k] \in ProcRecord BY <2>3, <2>4
  <2> QED BY <2>1, <2>2, <2>3, <2>5
<1> HIDE DEF ls
<1> QED BY <1>2, <1>4, <1>5, <1>6 DEF ls, n

\* A new connection.
LEMMA NewLinkType ==
  ASSUME NEW d \in Dev
  PROVE  NewLink(d) \in LinkRecord
<1>1. <<>> \in Seq(ProcRecord) /\ <<>> \in Seq(Int) OBVIOUS
<1>2. ATT_DEFAULT_LE_MTU \in Int BY DEF ATT_DEFAULT_LE_MTU
<1> QED BY <1>1, <1>2 DEF NewLink, LinkRecord

\* cmd_connect leaves the session as it is, or adds a connection.
LEMMA ConnectEffect ==
  ASSUME SInv, NEW d \in Dev, cmd_connect(d)
  PROVE  /\ conn_state = "DISCONNECTED" /\ attrib = 0 /\ running
         /\ UNCHANGED <<attrib, opt_mtu, vehicle, running, crashed>>
         /\ \/ UNCHANGED <<links, conn_state>> /\ iochannel' = 0
            \/ /\ conn_state' = "CONNECTING" /\ iochannel' = Len(links) + 1
               /\ links' \in Seq(LinkRecord) /\ Len(links') = Len(links) + 1
               /\ DOMAIN links' = 1..(Len(links) + 1)
               /\ \A j \in DOMAIN links : links'[j] = links[j]
               /\ links'[Len(links) + 1] = NewLink(d)
<1>1. conn_state = "DISCONNECTED" /\ running BY DEF cmd_connect, Up
<1>2. attrib = 0 BY <1>1 DEF SInv, PointersAgree
<1>3. links \in Seq(LinkRecord) /\ NewLink(d) \in LinkRecord /\ DOMAIN links = 1..Len(links)
  BY LinkType, NewLinkType
<1>4. CASE links' = Append(links, NewLink(d)) /\ iochannel' = Len(links) + 1
           /\ conn_state' = "CONNECTING"
  BY <1>1, <1>2, <1>3, <1>4, AppendProperties, LenProperties DEF cmd_connect
<1> QED BY <1>1, <1>2, <1>4 DEF cmd_connect

\* The result of a connection attempt.
LEMMA ConnectedEffect ==
  ASSUME SInv, NEW ok \in BOOLEAN, connect_cb(ok)
  PROVE  LET l == links[iochannel]
             m == links'[iochannel]
         IN  /\ conn_state = "CONNECTING" /\ attrib = 0 /\ iochannel \in DOMAIN links
             /\ SameLinks(links')
             /\ \A j \in DOMAIN links : j # iochannel => links'[j] = links[j]
             /\ UNCHANGED <<iochannel, opt_mtu, vehicle, running, crashed>>
             /\ m.dev = l.dev /\ m.mtu = l.mtu
             /\ m.offered = l.offered /\ m.answered = l.answered
             /\ m.done = l.done /\ m.cut = l.cut /\ (m.sent => m.queue # <<>>)
             /\ \/ /\ attrib' = iochannel /\ conn_state' = "CONNECTED"
                   /\ m.chan = "open" /\ m.refs /\ m.queue = <<Proc("services")>>
                \/ /\ attrib' = 0 /\ conn_state' = "DISCONNECTED"
                   /\ m.chan = "failed" /\ m.queue = l.queue
<1> DEFINE l == links[iochannel]
           q == <<Proc("services")>>
<1>1. iochannel \in DOMAIN links /\ l.chan = "connecting" /\ l \in LinkRecord
  BY LinkType DEF connect_cb
<1>2. conn_state = "CONNECTING" /\ attrib = 0
  BY <1>1 DEF SInv, OneChannel, PointersAgree, TypeOK
<1>3. UNCHANGED <<iochannel, opt_mtu, vehicle, running, crashed>> BY DEF connect_cb
<1>4. l.sent => l.queue # <<>> BY <1>1 DEF SInv, Linked
<1>5. CASE ok
  <2> DEFINE m == [l EXCEPT !.chan = "open", !.refs = TRUE, !.queue = q]
  <2>1. links' = [links EXCEPT ![iochannel] = m] /\ attrib' = iochannel
        /\ conn_state' = "CONNECTED"
    BY <1>5 DEF connect_cb
  <2>2. q \in Seq(ProcRecord) /\ q # <<>> BY ProcType
  <2> HIDE DEF q
  <2>3. /\ m \in LinkRecord /\ m.dev = l.dev /\ m.mtu = l.mtu
        /\ m.offered = l.offered /\ m.answered = l.answered
        /\ m.done = l.done /\ m.cut = l.cut
        /\ m.chan = "open" /\ m.refs /\ m.queue = q
    BY <1>1, <2>2 DEF LinkRecord
  <2> HIDE DEF m
  <2>4. /\ SameLinks(links') /\ links'[iochannel] = m
        /\ \A j \in DOMAIN links : j # iochannel => links'[j] = links[j]
    BY <1>1, <2>1, <2>3, ReplaceLink DEF SameLinks
  <2> QED BY <1>1, <1>2, <1>3, <2>1, <2>2, <2>3, <2>4 DEF q
<1>6. CASE ~ ok
  <2> DEFINE m == [l EXCEPT !.chan = "failed"]
  <2>1. links' = [links EXCEPT ![iochannel] = m] /\ attrib' = attrib
        /\ conn_state' = "DISCONNECTED"
    BY <1>6 DEF connect_cb
  <2>2. /\ m \in LinkRecord /\ m.dev = l.dev /\ m.mtu = l.mtu
        /\ m.offered = l.offered /\ m.answered = l.answered
        /\ m.done = l.done /\ m.cut = l.cut
        /\ m.chan = "failed" /\ m.queue = l.queue /\ m.sent = l.sent
    BY <1>1 DEF LinkRecord
  <2> HIDE DEF m
  <2>3. /\ SameLinks(links') /\ links'[iochannel] = m
        /\ \A j \in DOMAIN links : j # iochannel => links'[j] = links[j]
    BY <1>1, <2>1, <2>2, ReplaceLink DEF SameLinks
  <2> QED BY <1>1, <1>2, <1>3, <1>4, <2>1, <2>2, <2>3
<1> QED BY <1>5, <1>6

\* disconnect_io does nothing, or closes the current channel and forgets it.
LEMMA DisconnectEffect ==
  ASSUME SInv, disconnect_io
  PROVE  LET l == links[iochannel]
             m == links'[iochannel]
         IN  \/ /\ conn_state = "DISCONNECTED"
                /\ UNCHANGED <<conn_state, iochannel, attrib, opt_mtu, links>>
             \/ /\ iochannel \in DOMAIN links /\ SameLinks(links')
                /\ \A j \in DOMAIN links : j # iochannel => links'[j] = links[j]
                /\ attrib' = 0 /\ opt_mtu' = 0 /\ iochannel' = 0
                /\ conn_state' = "DISCONNECTED"
                /\ m.dev = l.dev /\ m.chan = "closed" /\ m.mtu = ATT_DEFAULT_LE_MTU
                /\ m.offered = <<>> /\ ~ m.done /\ m.cut = Collecting(l)
                /\ m.sent => m.queue # <<>>
                /\ m.queue \in {l.queue, <<>>}
<1> DEFINE l == links[iochannel]
           n == g_attrib_unref(l)
           m == shutdown(l)
<1>1. CASE conn_state = "DISCONNECTED" BY <1>1 DEF disconnect_io
<1>2. CASE conn_state # "DISCONNECTED"
  <2>1. /\ links' = [links EXCEPT ![iochannel] = m]
        /\ attrib' = 0 /\ opt_mtu' = 0 /\ iochannel' = 0
        /\ conn_state' = "DISCONNECTED"
    BY <1>2 DEF disconnect_io
  <2>2. iochannel \in DOMAIN links /\ l \in LinkRecord /\ (l.sent => l.queue # <<>>)
    BY <1>2, LinkType DEF SInv, PointersAgree, TypeOK, Linked
  <2>3. <<>> \in Seq(ProcRecord) /\ <<>> \in Seq(Int) OBVIOUS
  <2>4. /\ n \in LinkRecord /\ n.dev = l.dev /\ n.queue \in {l.queue, <<>>}
        /\ n.sent => n.queue # <<>>
    BY <2>2, <2>3 DEF g_attrib_unref, freed, LinkRecord
  <2>5. Collecting(l) \in BOOLEAN BY DEF Collecting
  <2>6. ATT_DEFAULT_LE_MTU \in Int BY DEF ATT_DEFAULT_LE_MTU
  <2>7. m = [n EXCEPT !.chan = "closed", !.cut = Collecting(l),
               !.mtu = ATT_DEFAULT_LE_MTU, !.offered = <<>>, !.answered = 0,
               !.done = FALSE, !.issued = {}]
    BY DEF shutdown
  <2> HIDE DEF n, m
  <2>8. /\ m \in LinkRecord /\ m.dev = n.dev /\ m.queue = n.queue /\ m.sent = n.sent
        /\ m.chan = "closed" /\ m.mtu = ATT_DEFAULT_LE_MTU /\ m.offered = <<>>
        /\ ~ m.done /\ m.cut = Collecting(l)
    BY <2>3, <2>4, <2>5, <2>6, <2>7 DEF LinkRecord
  <2>9. /\ SameLinks(links') /\ links'[iochannel] = m
        /\ \A j \in DOMAIN links : j # iochannel => links'[j] = links[j]
    BY <2>1, <2>2, <2>8, ReplaceLink DEF SameLinks
  <2> QED BY <2>1, <2>2, <2>4, <2>8, <2>9
<1> QED BY <1>1, <1>2

\* A hang-up only marks the channel.
LEMMA HupEffect ==
  ASSUME SInv, NEW i \in DOMAIN links, Hup(i)
  PROVE  LET l == links[i]
             m == links'[i]
         IN  /\ SameLinks(links') /\ i = attrib
             /\ \A j \in DOMAIN links : j # i => links'[j] = links[j]
             /\ UNCHANGED <<session, opt_mtu>>
             /\ m = [l EXCEPT !.chan = "hup"]
             /\ m \in LinkRecord /\ m.chan = "hup" /\ m.dev = l.dev /\ m.refs = l.refs
             /\ m.mtu = l.mtu /\ m.offered = l.offered /\ m.answered = l.answered
             /\ m.done = l.done /\ m.cut = l.cut
             /\ m.queue = l.queue /\ m.sent = l.sent
<1> DEFINE l == links[i]
           m == [l EXCEPT !.chan = "hup"]
<1>1. /\ links' = [links EXCEPT ![i] = m] /\ l.chan = "open"
      /\ UNCHANGED <<session, opt_mtu>>
  BY DEF Hup, session
<1>2. i = attrib /\ l \in LinkRecord BY <1>1, CurrentLink, LinkType
<1>3. /\ m \in LinkRecord /\ m.chan = "hup" /\ m.dev = l.dev /\ m.refs = l.refs
      /\ m.mtu = l.mtu /\ m.offered = l.offered /\ m.answered = l.answered
      /\ m.done = l.done /\ m.cut = l.cut
      /\ m.queue = l.queue /\ m.sent = l.sent
  BY <1>2 DEF LinkRecord
<1> HIDE DEF m
<1>4. /\ SameLinks(links') /\ links'[i] = m
      /\ \A j \in DOMAIN links : j # i => links'[j] = links[j]
  BY <1>1, <1>3, ReplaceLink DEF SameLinks
<1> QED BY <1>1, <1>2, <1>3, <1>4 DEF m
-----------------------------------------------------------------------------
\* The invariant holds when the program starts.
LEMMA SessionInit == Init => SInv
<1> SUFFICES ASSUME Init PROVE SInv
  OBVIOUS
<1>1. links = <<>> /\ Len(links) = 0 /\ DOMAIN links = {} BY DEF Init
<1>2. links \in Seq(LinkRecord) BY <1>1
<1>3. NoChar \in Char BY DEF NoChar, Char
<1>4. TypeOK
  <2>1. vehicle = [read_char |-> NoChar, write_char |-> NoChar] BY DEF Init
  <2>2. vehicle \in [read_char : Char, write_char : Char] BY <1>3, <2>1
  <2>3. iochannel \in 0..Len(links) /\ attrib \in 0..Len(links)
    <3>1. iochannel = 0 /\ attrib = 0 BY DEF Init
    <3> QED BY <1>1, <3>1
  <2>4. conn_state = "DISCONNECTED" /\ opt_mtu = 0 BY DEF Init
  <2>5. running \in BOOLEAN /\ crashed \in {"no", "connect_cb", "discover_char_cb"} BY DEF Init
  <2> QED BY <2>2, <2>3, <2>4, <2>5 DEF TypeOK
<1>5. Linked BY <1>1, <1>2 DEF Linked
<1>6. PointersAgree BY DEF Init, PointersAgree
<1>7. OneChannel BY <1>1 DEF OneChannel
<1> QED BY <1>4, <1>5, <1>6, <1>7 DEF SInv

\* Closing the current channel, or leaving a disconnected session, when the
\* command also ends the loop or not.
LEMMA DisconnectKeeps ==
  ASSUME SInv, disconnect_io, UNCHANGED <<vehicle, crashed>>,
         running' \in BOOLEAN, running' = running \/ conn_state' = "DISCONNECTED"
  PROVE  SInv'
<1>1. CASE conn_state = "DISCONNECTED"
  <2>1. UNCHANGED <<conn_state, iochannel, attrib, opt_mtu, links>>
    BY <1>1 DEF disconnect_io
  <2>2. TypeOK' BY <2>1 DEF SInv, TypeOK
  <2>3. Linked' BY <2>1 DEF SInv, Linked
  <2>4. PointersAgree' BY <2>1 DEF SInv, PointersAgree
  <2>5. OneChannel' BY <1>1, <2>1 DEF SInv, OneChannel
  <2> QED BY <2>2, <2>3, <2>4, <2>5 DEF SInv
<1>2. CASE conn_state # "DISCONNECTED"
  <2>1. /\ iochannel \in DOMAIN links /\ SameLinks(links')
        /\ \A j \in DOMAIN links : j # iochannel => links'[j] = links[j]
        /\ attrib' = 0 /\ opt_mtu' = 0 /\ iochannel' = 0 /\ conn_state' = "DISCONNECTED"
        /\ links'[iochannel].chan = "closed"
        /\ links'[iochannel].sent => links'[iochannel].queue # <<>>
    BY <1>2, DisconnectEffect
  <2>2. links' \in Seq(LinkRecord) /\ Len(links') = Len(links)
        /\ DOMAIN links' = DOMAIN links /\ Len(links) \in Nat
    BY <2>1, LinkType DEF SameLinks
  <2>3. TypeOK' BY <2>1, <2>2 DEF SInv, TypeOK
  <2>4. Linked' BY <2>1, <2>2 DEF SInv, Linked
  <2>5. PointersAgree' BY <2>1 DEF PointersAgree
  <2>6. OneChannel' BY <2>1, <2>2 DEF SInv, OneChannel
  <2> QED BY <2>3, <2>4, <2>5, <2>6 DEF SInv
<1> QED BY <1>1, <1>2

\* A quiet step keeps the session.
LEMMA QuietKeeps ==
  ASSUME SInv, QuietStep
  PROVE  SInv'
<1>1. /\ SameLinks(links') /\ \A j \in DOMAIN links : Keeps(j, links'[j])
      /\ UNCHANGED <<conn_state, iochannel, attrib, running, opt_mtu, vehicle, crashed>>
  BY DEF QuietStep, session
<1> QED BY <1>1, KeepsSession DEF SInv, TypeOK

\* discover_char_cb keeps the session when the step before it did.
LEMMA DiscoveredKeeps ==
  ASSUME SInv, NEW found \in Seq(Char), NEW ls, SameLinks(ls),
         \A j \in DOMAIN links :
           /\ ls[j].sent => ls[j].queue # <<>>
           /\ ls[j].dev = links[j].dev /\ ls[j].chan = links[j].chan
           /\ j = attrib => ls[j].refs = links[j].refs,
         \/ discover_char_cb(found, ls)
         \/ links' = ls /\ UNCHANGED <<session, opt_mtu>>
  PROVE  SInv'
<1>1. CASE discover_char_cb(found, ls)
  <2>1. /\ SameLinks(links')
        /\ \A j \in DOMAIN links : /\ Quiet(ls[j], links'[j])
                                   /\ links'[j].sent => links'[j].queue # <<>>
        /\ vehicle' \in [read_char : Char, write_char : Char]
        /\ crashed' \in {"no", "connect_cb", "discover_char_cb"}
        /\ UNCHANGED <<conn_state, iochannel, attrib, opt_mtu, running>>
    BY <1>1, DiscoveredEffect
  <2>2. \A j \in DOMAIN links : Keeps(j, links'[j])
    BY <2>1 DEF Quiet, Fixed, Keeps
  <2> QED BY <2>1, <2>2, KeepsSession DEF SInv, TypeOK
<1>2. CASE links' = ls /\ UNCHANGED <<session, opt_mtu>>
  <2>1. UNCHANGED <<conn_state, iochannel, attrib, running, opt_mtu, vehicle, crashed>>
    BY <1>2 DEF session
  <2>2. \A j \in DOMAIN links : Keeps(j, links'[j]) BY <1>2 DEF Keeps
  <2> QED BY <1>2, <2>1, <2>2, KeepsSession DEF SInv, TypeOK
<1> QED BY <1>1, <1>2

\* Every step of the program keeps the session.
LEMMA SessionNext == SInv /\ [Next]_vars => SInv'
<1> SUFFICES ASSUME SInv, [Next]_vars PROVE SInv'
  OBVIOUS
<1>1. ASSUME NEW d \in Dev, cmd_connect(d) PROVE SInv'
  <2>1. /\ conn_state = "DISCONNECTED" /\ attrib = 0 /\ running
        /\ UNCHANGED <<attrib, opt_mtu, vehicle, running, crashed>>
    BY <1>1, ConnectEffect
  <2>2. CASE UNCHANGED <<links, conn_state>> /\ iochannel' = 0
    <3>1. TypeOK' BY <2>1, <2>2, LinkType DEF SInv, TypeOK
    <3>2. Linked' BY <2>2 DEF SInv, Linked
    <3>3. PointersAgree' BY <2>1, <2>2 DEF SInv, PointersAgree
    <3>4. OneChannel' BY <2>1, <2>2 DEF SInv, OneChannel
    <3> QED BY <3>1, <3>2, <3>3, <3>4 DEF SInv
  <2>3. CASE /\ conn_state' = "CONNECTING" /\ iochannel' = Len(links) + 1
             /\ links' \in Seq(LinkRecord) /\ Len(links') = Len(links) + 1
             /\ DOMAIN links' = 1..(Len(links) + 1)
             /\ \A j \in DOMAIN links : links'[j] = links[j]
             /\ links'[Len(links) + 1] = NewLink(d)
    <3>1. Len(links) \in Nat /\ DOMAIN links = 1..Len(links) BY LinkType
    <3>2. \A j \in DOMAIN links' : j \in DOMAIN links \/ j = Len(links) + 1
      BY <2>3, <3>1
    <3>3. NewLink(d).chan = "connecting" /\ ~ NewLink(d).sent BY DEF NewLink
    <3>4. TypeOK' BY <2>1, <2>3, <3>1 DEF SInv, TypeOK
    <3>5. Linked' BY <2>3, <3>2, <3>3 DEF SInv, Linked
    <3>6. PointersAgree' BY <2>1, <2>3, <3>1, <3>3 DEF PointersAgree
    <3>7. OneChannel' BY <2>1, <2>3, <3>2, <3>3 DEF SInv, OneChannel
    <3> QED BY <3>4, <3>5, <3>6, <3>7 DEF SInv
  <2> QED BY <1>1, <2>2, <2>3, ConnectEffect
<1>2. ASSUME NEW ok \in BOOLEAN, connect_cb(ok) PROVE SInv'
  <2> DEFINE m == links'[iochannel]
  <2>1. /\ conn_state = "CONNECTING" /\ attrib = 0 /\ iochannel \in DOMAIN links
        /\ SameLinks(links')
        /\ \A j \in DOMAIN links : j # iochannel => links'[j] = links[j]
        /\ UNCHANGED <<iochannel, opt_mtu, vehicle, running, crashed>>
        /\ (m.sent => m.queue # <<>>)
        /\ \/ attrib' = iochannel /\ conn_state' = "CONNECTED" /\ m.chan = "open" /\ m.refs
           \/ attrib' = 0 /\ conn_state' = "DISCONNECTED" /\ m.chan = "failed"
    BY <1>2, ConnectedEffect
  <2>2. links' \in Seq(LinkRecord) /\ Len(links') = Len(links)
        /\ DOMAIN links' = DOMAIN links
        /\ Len(links) \in Nat /\ iochannel \in 1..Len(links) /\ iochannel # 0
    BY <2>1, LinkType DEF SameLinks
  <2>3. TypeOK' BY <2>1, <2>2 DEF SInv, TypeOK
  <2>4. Linked' BY <2>1, <2>2 DEF SInv, Linked
  <2>5. PointersAgree' BY <2>1, <2>2 DEF PointersAgree
  <2>6. OneChannel'
    <3>1. running BY <1>2 DEF connect_cb, Up
    <3> QED BY <2>1, <2>2, <3>1 DEF SInv, OneChannel
  <2> QED BY <2>3, <2>4, <2>5, <2>6 DEF SInv
<1>3. ASSUME cmd_disconnect PROVE SInv'
  BY <1>3, DisconnectKeeps DEF cmd_disconnect, SInv, TypeOK
<1>4. ASSUME NEW i \in DOMAIN links, channel_watcher(i) PROVE SInv'
  BY <1>4, DisconnectKeeps DEF channel_watcher, SInv, TypeOK
<1>5. ASSUME cmd_exit PROVE SInv'
  <2>1. disconnect_io /\ running' = FALSE /\ UNCHANGED <<vehicle, crashed>>
    BY <1>5 DEF cmd_exit
  <2>2. conn_state' = "DISCONNECTED" BY <2>1 DEF disconnect_io
  <2> QED BY <2>1, <2>2, DisconnectKeeps
<1>6. ASSUME NEW i \in DOMAIN links, Hup(i) PROVE SInv'
  <2> DEFINE m == links'[i]
  <2>1. /\ SameLinks(links') /\ i = attrib
        /\ \A j \in DOMAIN links : j # i => links'[j] = links[j]
        /\ UNCHANGED <<session, opt_mtu>>
        /\ m.chan = "hup" /\ m.refs = links[i].refs
        /\ m.queue = links[i].queue /\ m.sent = links[i].sent
    BY <1>6, HupEffect
  <2>2. /\ i = iochannel /\ conn_state = "CONNECTED" /\ running /\ links[i].refs
    BY <1>6, CurrentLink DEF Hup
  <2>3. links' \in Seq(LinkRecord) /\ Len(links') = Len(links)
        /\ DOMAIN links' = DOMAIN links
        /\ UNCHANGED <<conn_state, iochannel, attrib, opt_mtu, vehicle, running, crashed>>
    BY <2>1 DEF SameLinks, session
  <2>4. TypeOK' BY <2>3 DEF SInv, TypeOK
  <2>5. Linked' BY <2>1, <2>3 DEF SInv, Linked
  <2>6. PointersAgree' BY <2>1, <2>2, <2>3 DEF SInv, PointersAgree
  <2>7. OneChannel' BY <2>1, <2>2, <2>3 DEF SInv, OneChannel
  <2> QED BY <2>4, <2>5, <2>6, <2>7 DEF SInv
<1>7. ASSUME \/ \E c \in Commands : cmd_anki_vehicle_message(c)
             \/ cmd_anki_vehicle_send_data
             \/ cmd_anki_vehicle_read
      PROVE  SInv'
  BY <1>7, CommandQuiet, QuietKeeps
<1>8. ASSUME NEW i \in DOMAIN links,
             \/ Transmit(i) \/ Answer(i) \/ primary_by_uuid_cb(i) \/ discover_services_cb(i)
      PROVE  SInv'
  BY <1>8, BearerQuiet, QuietKeeps
<1>9. ASSUME NEW v \in MtuArgs, cmd_mtu(v) PROVE SInv'
  <2> DEFINE l == links[attrib]
             m == links'[attrib]
  <2>1. /\ SameLinks(links') /\ attrib \in DOMAIN links
        /\ \A j \in DOMAIN links : j # attrib => links'[j] = links[j]
        /\ opt_mtu' = v /\ UNCHANGED session
        /\ m.dev = l.dev /\ m.chan = l.chan /\ m.refs = l.refs /\ m.sent = l.sent
        /\ l.queue # <<>> => m.queue # <<>>
    BY <1>9, MtuEffect
  <2>2. \A j \in DOMAIN links : Keeps(j, links'[j])
    BY <2>1 DEF Keeps, SInv, Linked
  <2> QED BY <2>1, <2>2, KeepsSession DEF session, SInv, TypeOK
<1>10. ASSUME NEW i \in DOMAIN links, NEW mtu \in PeerMtus, exchange_mtu_cb(i, mtu)
       PROVE  SInv'
  <2> DEFINE l == links[i]
             m == links'[i]
  <2>1. /\ SameLinks(links')
        /\ \A j \in DOMAIN links : j # i => links'[j] = links[j]
        /\ UNCHANGED <<session, opt_mtu>>
        /\ m.dev = l.dev /\ m.chan = l.chan /\ m.refs = l.refs /\ ~ m.sent
    BY <1>10, ExchangeEffect
  <2>2. \A j \in DOMAIN links : Keeps(j, links'[j])
    BY <2>1 DEF Keeps, SInv, Linked
  <2> QED BY <2>1, <2>2, KeepsSession DEF session, SInv, TypeOK
<1>11. ASSUME NEW i \in DOMAIN links,
              NEW k \in 1..Len(Profile[links[i].dev]), char_discovered_cb(i, k)
       PROVE  SInv'
  <2> DEFINE l == links[i]
             m == links'[i]
  <2>1. /\ SameLinks(links')
        /\ \A j \in DOMAIN links : j # i => links'[j] = links[j]
        /\ UNCHANGED <<session, opt_mtu>> /\ Fixed(l, m) /\ ~ m.sent
    BY <1>11, PageEffect
  <2>2. \A j \in DOMAIN links : Keeps(j, links'[j])
    BY <2>1 DEF Keeps, Fixed, SInv, Linked
  <2> QED BY <2>1, <2>2, KeepsSession DEF session, SInv, TypeOK
<1>12. ASSUME NEW i \in DOMAIN links, DiscoveryEnds(i) PROVE SInv'
  <2> DEFINE l == links[i]
             found == l.queue[1].found
             n == [Popped(l) EXCEPT !.done = Complete(l.dev, found)]
             ls == [links EXCEPT ![i] = n]
  <2>1. /\ found \in Seq(Char) /\ SameLinks(ls)
        /\ \A j \in DOMAIN links : /\ ls[j] = IF j = i THEN n ELSE links[j]
                                   /\ ls[j].sent => ls[j].queue # <<>>
        /\ Ends(l, n) /\ n.refs = l.refs
        /\ \/ found # <<>> /\ discover_char_cb(found, ls)
           \/ found = <<>> /\ links' = ls /\ UNCHANGED <<session, opt_mtu>>
    BY <1>12, EndsEffect
  <2> HIDE DEF found, n, ls
  <2>2. \A j \in DOMAIN links :
          /\ ls[j].sent => ls[j].queue # <<>>
          /\ ls[j].dev = links[j].dev /\ ls[j].chan = links[j].chan
          /\ j = attrib => ls[j].refs = links[j].refs
    BY <2>1 DEF Ends
  <2> QED BY <2>1, <2>2, DiscoveredKeeps
<1>13. ASSUME NEW i \in DOMAIN links, disconnect_timeout(i) PROVE SInv'
  <2> DEFINE l == links[i]
             n == TimedOut(i)
             ls == [links EXCEPT ![i] = n]
  <2>1. /\ SameLinks(ls)
        /\ \A j \in DOMAIN links : /\ ls[j] = IF j = i THEN n ELSE links[j]
                                   /\ ls[j].sent => ls[j].queue # <<>>
        /\ Ends(l, n) /\ (i = attrib => n.refs = l.refs)
        /\ \/ \E k \in DOMAIN l.queue : /\ l.queue[k] \in ProcRecord
                                        /\ discover_char_cb(l.queue[k].found, ls)
           \/ links' = ls /\ UNCHANGED <<session, opt_mtu>>
    BY <1>13, TimeoutEffect
  <2> HIDE DEF n, ls
  <2>2. \A j \in DOMAIN links :
          /\ ls[j].sent => ls[j].queue # <<>>
          /\ ls[j].dev = links[j].dev /\ ls[j].chan = links[j].chan
          /\ j = attrib => ls[j].refs = links[j].refs
    BY <2>1 DEF Ends
  <2>3. CASE links' = ls /\ UNCHANGED <<session, opt_mtu>>
    <3>1. <<>> \in Seq(Char) OBVIOUS
    <3> QED BY <2>1, <2>2, <2>3, <3>1, DiscoveredKeeps
  <2>4. ASSUME NEW k \in DOMAIN l.queue, l.queue[k] \in ProcRecord,
               discover_char_cb(l.queue[k].found, ls)
        PROVE  SInv'
    <3>1. l.queue[k].found \in Seq(Char) BY <2>4 DEF ProcRecord
    <3> QED BY <2>1, <2>2, <2>4, <3>1, DiscoveredKeeps
  <2> QED BY <2>1, <2>3, <2>4
<1>14. ASSUME UNCHANGED vars PROVE SInv'
  BY <1>14 DEF vars, SInv, TypeOK, Linked, PointersAgree, OneChannel
<1>15. ASSUME connect_cb_no_bearer PROVE SInv'
  BY <1>15 DEF connect_cb_no_bearer, SInv, TypeOK, Linked, PointersAgree, OneChannel
<1> QED
  BY <1>1, <1>2, <1>3, <1>4, <1>5, <1>6, <1>7, <1>8, <1>9, <1>10, <1>11, <1>12, <1>13,
     <1>14, <1>15
  DEF Next, Shell, Callback

\* The static variables have their types in every state of the program.
THEOREM ToolTypes == Spec => []TypeOK
<1>1. SInv => TypeOK BY DEF SInv
<1> QED BY <1>1, SessionInit, SessionNext, PTL DEF Spec

\* conn_state, iochannel and attrib agree in every state, whatever the order
\* of the user's commands, connect results, hang-ups and bearer callbacks.
THEOREM PointersAlwaysAgree == Spec => []PointersAgree
<1>1. SInv => PointersAgree BY DEF SInv
<1> QED BY <1>1, SessionInit, SessionNext, PTL DEF Spec

\* No channel is forgotten while it is up, and none is up after an exit.
THEOREM NoChannelLeft == Spec => []OneChannel
<1>1. SInv => OneChannel BY DEF SInv
<1> QED BY <1>1, SessionInit, SessionNext, PTL DEF Spec
-----------------------------------------------------------------------------
(***************************************************************************)
(* MtuAgreed.  The mtu command takes any int, and its request says the low *)
(* 16 bits of it.                                                          *)
(***************************************************************************)
\* An int that can be the value of a request is what the request says.
LEMMA OnAirIs ==
  ASSUME NEW v \in Int, v >= ATT_DEFAULT_LE_MTU, v < Uint16
  PROVE  on_air(v) = v
<1>1. v \in Nat /\ v < 65536 BY DEF ATT_DEFAULT_LE_MTU, Uint16
<1>2. v % 65536 = v BY <1>1
<1> QED BY <1>2 DEF on_air, Uint16

\* A quiet change keeps what is known about the exchange of a connection.
LEMMA QuietOffer ==
  ASSUME NEW l, NEW m, NEW opt, Quiet(l, m)
  PROVE  (Offer(l, opt) => Offer(m, opt)) /\ (NoOffer(l) => NoOffer(m))
BY DEF Quiet, Fixed, Carried, Offer, NoOffer

\* No step breaks it.
LEMMA OffersNext ==
  ASSUME SInv, Offers, [Next]_vars
  PROVE  Offers'
<1>0. (conn_state = "CONNECTED" <=> attrib # 0) /\ 0 \notin DOMAIN links
  BY LinkType DEF SInv, PointersAgree
<1>1. ASSUME NEW d \in Dev, cmd_connect(d) PROVE Offers'
  <2>1. /\ conn_state = "DISCONNECTED" /\ attrib = 0
        /\ UNCHANGED <<attrib, opt_mtu, vehicle, running, crashed>>
    BY <1>1, ConnectEffect
  <2>2. CASE UNCHANGED <<links, conn_state>>
    BY <2>1, <2>2 DEF Offers
  <2>3. CASE /\ DOMAIN links' = 1..(Len(links) + 1)
             /\ \A j \in DOMAIN links : links'[j] = links[j]
             /\ links'[Len(links) + 1] = NewLink(d)
    <3>1. Len(links) \in Nat /\ DOMAIN links = 1..Len(links) BY LinkType
    <3>2. \A j \in DOMAIN links' : j \in DOMAIN links \/ j = Len(links) + 1
      BY <2>3, <3>1
    <3>3. NoOffer(NewLink(d)) BY DEF NewLink, NoOffer
    <3>4. \A j \in DOMAIN links' : NoOffer(links'[j])
      BY <1>0, <2>1, <2>3, <3>2, <3>3 DEF Offers
    <3>5. \A j \in DOMAIN links' : j # 0 BY <2>3, <3>1
    <3> QED BY <2>1, <3>4, <3>5 DEF Offers
  <2> QED BY <1>1, <2>2, <2>3, ConnectEffect
<1>2. ASSUME NEW ok \in BOOLEAN, connect_cb(ok) PROVE Offers'
  <2> DEFINE l == links[iochannel]
             m == links'[iochannel]
  <2>1. /\ conn_state = "CONNECTING" /\ attrib = 0 /\ iochannel \in DOMAIN links
        /\ SameLinks(links')
        /\ \A j \in DOMAIN links : j # iochannel => links'[j] = links[j]
        /\ opt_mtu' = opt_mtu
        /\ m.mtu = l.mtu /\ m.offered = l.offered /\ m.answered = l.answered
        /\ \/ attrib' = iochannel /\ conn_state' = "CONNECTED"
              /\ m.queue = <<Proc("services")>>
           \/ attrib' = 0 /\ conn_state' = "DISCONNECTED"
    BY <1>2, ConnectedEffect
  <2>2. NoOffer(l) BY <1>0, <2>1 DEF Offers
  <2>3. NoOffer(m) BY <2>1, <2>2 DEF NoOffer
  <2>4. m.queue = <<Proc("services")>> => Offer(m, opt_mtu)
    BY <2>3, ProcType DEF NoOffer, Offer
  <2> QED BY <1>0, <2>1, <2>3, <2>4 DEF Offers, SameLinks
<1>3. ASSUME disconnect_io PROVE Offers'
  <2> DEFINE m == links'[iochannel]
  <2>1. CASE UNCHANGED <<conn_state, iochannel, attrib, opt_mtu, links>>
    BY <2>1 DEF Offers
  <2>2. CASE /\ iochannel \in DOMAIN links /\ SameLinks(links')
             /\ \A j \in DOMAIN links : j # iochannel => links'[j] = links[j]
             /\ attrib' = 0 /\ opt_mtu' = 0
             /\ conn_state # "DISCONNECTED"
             /\ m.mtu = ATT_DEFAULT_LE_MTU /\ m.offered = <<>>
    <3>1. \A j \in DOMAIN links : j # iochannel => j # attrib
      BY <1>0 DEF SInv, PointersAgree
    <3>2. \A j \in DOMAIN links : NoOffer(links'[j])
      BY <2>2, <3>1 DEF Offers, NoOffer
    <3> QED BY <1>0, <2>2, <3>2 DEF Offers, SameLinks
  <2>3. CASE conn_state = "DISCONNECTED" BY <1>3, <2>1, <2>3 DEF disconnect_io
  <2> QED BY <1>3, <2>1, <2>2, <2>3, DisconnectEffect
<1>4. ASSUME NEW i \in DOMAIN links, Hup(i) PROVE Offers'
  <2> DEFINE l == links[i]
             m == links'[i]
  <2>1. /\ SameLinks(links') /\ i = attrib
        /\ \A j \in DOMAIN links : j # i => links'[j] = links[j]
        /\ UNCHANGED <<session, opt_mtu>>
        /\ m.mtu = l.mtu /\ m.offered = l.offered /\ m.answered = l.answered
        /\ m.queue = l.queue
    BY <1>4, HupEffect
  <2>2. Offer(l, opt_mtu) => Offer(m, opt_mtu) BY <2>1 DEF Offer
  <2> QED BY <2>1, <2>2 DEF Offers, SameLinks, session
<1>5. ASSUME QuietStep PROVE Offers'
  <2>1. /\ SameLinks(links') /\ UNCHANGED <<conn_state, attrib, opt_mtu>>
        /\ \A j \in DOMAIN links : Quiet(links[j], links'[j])
    BY <1>5 DEF QuietStep, session
  <2>2. \A j \in DOMAIN links :
          /\ Offer(links[j], opt_mtu) => Offer(links'[j], opt_mtu)
          /\ NoOffer(links[j]) => NoOffer(links'[j])
    BY <2>1, QuietOffer
  <2> QED BY <2>1, <2>2 DEF Offers, SameLinks
<1>6. ASSUME NEW v \in MtuArgs, cmd_mtu(v) PROVE Offers'
  <2> DEFINE l == links[attrib]
             m == links'[attrib]
  <2>1. /\ SameLinks(links') /\ attrib \in DOMAIN links
        /\ \A j \in DOMAIN links : j # attrib => links'[j] = links[j]
        /\ opt_mtu = 0 /\ opt_mtu' = v /\ UNCHANGED session
        /\ m.mtu = l.mtu
        /\ \/ m = l
           \/ /\ v >= ATT_DEFAULT_LE_MTU
              /\ m.offered = Append(l.offered, v)
    BY <1>6, MtuEffect
  <2>2. Offer(l, 0) BY <2>1 DEF Offers
  <2>3. l.offered = <<>> /\ l.mtu = ATT_DEFAULT_LE_MTU
        /\ \A k \in DOMAIN l.queue : l.queue[k].kind # "mtu"
    BY <2>2 DEF Offer, ATT_DEFAULT_LE_MTU
  <2>4. Offer(m, v)
    <3>1. CASE m = l BY <2>3, <3>1 DEF Offer
    <3>2. CASE v >= ATT_DEFAULT_LE_MTU /\ m.offered = Append(l.offered, v)
      <4>1. m.offered = <<v>> /\ m.offered # <<>> BY <2>3, <3>2
      <4>2. m.mtu = ATT_DEFAULT_LE_MTU BY <2>1, <2>3
      <4> QED BY <3>2, <4>1, <4>2 DEF Offer
    <3> QED BY <2>1, <3>1, <3>2
  <2>5. conn_state = "CONNECTED" BY <1>0, <2>1
  <2> QED BY <2>1, <2>4, <2>5 DEF Offers, SameLinks, session
<1>7. ASSUME NEW i \in DOMAIN links, NEW mtu \in PeerMtus, exchange_mtu_cb(i, mtu)
      PROVE  Offers'
  <2> DEFINE l == links[i]
             m == links'[i]
  <2>1. /\ SameLinks(links') /\ i = attrib
        /\ \A j \in DOMAIN links : j # i => links'[j] = links[j]
        /\ UNCHANGED <<session, opt_mtu>>
        /\ m.offered = l.offered
        /\ l.queue # <<>> /\ l.queue[1].kind = "mtu"
        /\ m.mtu = (IF mtu < opt_mtu THEN mtu ELSE opt_mtu) /\ m.answered = mtu
    BY <1>7, ExchangeEffect
  <2>2. Offer(l, opt_mtu) BY <2>1 DEF Offers
  <2>3. l.offered # <<>>
    <3>1. l.queue \in Seq(ProcRecord) BY LinkType DEF LinkRecord
    <3>2. 1 \in DOMAIN l.queue BY <2>1, <3>1
    <3> QED BY <2>1, <2>2, <3>2 DEF Offer
  <2>4. m.mtu <= opt_mtu /\ m.mtu <= m.answered
    <3>1. mtu \in ATT_DEFAULT_LE_MTU..Uint16 - 1 BY ToolAssumption, Zenon
    <3>2. mtu \in Nat BY <3>1 DEF ATT_DEFAULT_LE_MTU, Uint16
    <3>3. opt_mtu \in Int BY ToolAssumption DEF SInv, TypeOK
    <3> QED BY <2>1, <3>2, <3>3
  <2>5. Offer(m, opt_mtu) BY <2>1, <2>2, <2>3, <2>4 DEF Offer
  <2> QED BY <2>1, <2>5 DEF Offers, SameLinks, session
<1>8. ASSUME NEW i \in DOMAIN links,
             NEW k \in 1..Len(Profile[links[i].dev]), char_discovered_cb(i, k)
      PROVE  Offers'
  <2> DEFINE l == links[i]
             m == links'[i]
             more == Len(l.queue[1].found) + k
             p == [kind |-> "chars", found |-> SubSeq(Profile[l.dev], 1, more)]
  <2>1. /\ SameLinks(links') /\ i = attrib
        /\ \A j \in DOMAIN links : j # i => links'[j] = links[j]
        /\ UNCHANGED <<session, opt_mtu>>
        /\ Fixed(l, m)
        /\ l.queue # <<>> /\ m.queue = Append(Tail(l.queue), p)
    BY <1>8, PageEffect
  <2>2. p.kind # "mtu" OBVIOUS
  <2> HIDE DEF p
  <2>3. \A j \in DOMAIN m.queue :
          m.queue[j] = p \/ \E r \in DOMAIN l.queue : m.queue[j] = l.queue[r]
    <3>1. l.queue \in Seq(ProcRecord) BY LinkType DEF LinkRecord
    <3> DEFINE q == l.queue
    <3> HIDE DEF q
    <3>2. \A j \in DOMAIN Append(Tail(q), p) :
            Append(Tail(q), p)[j] = p \/ \E r \in DOMAIN q : Append(Tail(q), p)[j] = q[r]
      BY <2>1, <3>1 DEF q
    <3> QED BY <2>1, <3>2 DEF q
  <2>4. Offer(l, opt_mtu) => Offer(m, opt_mtu)
    BY <2>1, <2>2, <2>3 DEF Offer, Fixed
  <2> QED BY <2>1, <2>4 DEF Offers, SameLinks, session
<1>9. ASSUME NEW found \in Seq(Char), NEW ls, SameLinks(ls),
             \A j \in DOMAIN links :
               /\ Ends(links[j], ls[j]) /\ Carried(links[j], ls[j])
               /\ ls[j].sent => ls[j].queue # <<>>,
             \/ discover_char_cb(found, ls)
             \/ links' = ls /\ UNCHANGED <<session, opt_mtu>>
      PROVE  Offers'
  <2>1. /\ SameLinks(links') /\ UNCHANGED <<conn_state, attrib, opt_mtu>>
        /\ \A j \in DOMAIN links : Quiet(ls[j], links'[j])
    <3>1. CASE discover_char_cb(found, ls) BY <1>9, <3>1, DiscoveredEffect
    <3>2. CASE links' = ls /\ UNCHANGED <<session, opt_mtu>>
      <4>1. \A j \in DOMAIN links : Quiet(ls[j], ls[j]) BY DEF Quiet, Fixed, Carried
      <4> QED BY <1>9, <3>2, <4>1 DEF session
    <3> QED BY <1>9, <3>1, <3>2
  <2>2. \A j \in DOMAIN links :
          /\ Offer(links[j], opt_mtu) => Offer(ls[j], opt_mtu)
          /\ NoOffer(links[j]) => NoOffer(ls[j])
    BY <1>9 DEF Ends, Carried, Offer, NoOffer
  <2>3. \A j \in DOMAIN links :
          /\ Offer(ls[j], opt_mtu) => Offer(links'[j], opt_mtu)
          /\ NoOffer(ls[j]) => NoOffer(links'[j])
    BY <2>1, QuietOffer
  <2> QED BY <2>1, <2>2, <2>3 DEF Offers, SameLinks
<1>10. \A j \in DOMAIN links : /\ Ends(links[j], links[j])
                               /\ Carried(links[j], links[j])
  BY DEF Ends, Carried
<1>11. ASSUME NEW i \in DOMAIN links, DiscoveryEnds(i) PROVE Offers'
  <2> DEFINE l == links[i]
             found == l.queue[1].found
             n == [Popped(l) EXCEPT !.done = Complete(l.dev, found)]
             ls == [links EXCEPT ![i] = n]
  <2>1. /\ found \in Seq(Char) /\ SameLinks(ls)
        /\ \A j \in DOMAIN links : /\ ls[j] = IF j = i THEN n ELSE links[j]
                                   /\ ls[j].sent => ls[j].queue # <<>>
        /\ Ends(l, n) /\ Carried(l, n)
        /\ \/ discover_char_cb(found, ls)
           \/ links' = ls /\ UNCHANGED <<session, opt_mtu>>
    BY <1>11, EndsEffect
  <2> HIDE DEF found, n, ls
  <2>2. \A j \in DOMAIN links : Ends(links[j], ls[j]) /\ Carried(links[j], ls[j])
    BY <1>10, <2>1
  <2> QED BY <1>9, <2>1, <2>2
<1>12. ASSUME NEW i \in DOMAIN links, disconnect_timeout(i) PROVE Offers'
  <2> DEFINE l == links[i]
             n == TimedOut(i)
             ls == [links EXCEPT ![i] = n]
  <2>1. /\ SameLinks(ls)
        /\ \A j \in DOMAIN links : /\ ls[j] = IF j = i THEN n ELSE links[j]
                                   /\ ls[j].sent => ls[j].queue # <<>>
        /\ Ends(l, n) /\ n.queue = <<>>
        /\ \/ \E k \in DOMAIN l.queue : /\ l.queue[k] \in ProcRecord
                                        /\ discover_char_cb(l.queue[k].found, ls)
           \/ links' = ls /\ UNCHANGED <<session, opt_mtu>>
    BY <1>12, TimeoutEffect
  <2> HIDE DEF n, ls
  <2>2. Carried(l, n) BY <2>1 DEF Carried
  <2>3. \A j \in DOMAIN links : Ends(links[j], ls[j]) /\ Carried(links[j], ls[j])
    BY <1>10, <2>1, <2>2
  <2>4. \E found \in Seq(Char) : \/ discover_char_cb(found, ls)
                                 \/ links' = ls /\ UNCHANGED <<session, opt_mtu>>
    <3>1. <<>> \in Seq(Char) OBVIOUS
    <3>2. \A p \in ProcRecord : p.found \in Seq(Char) BY DEF ProcRecord
    <3> QED BY <2>1, <3>1, <3>2
  <2> QED BY <1>9, <2>1, <2>3, <2>4
<1>13. ASSUME UNCHANGED vars PROVE Offers'
  BY <1>13 DEF vars, Offers
<1>14. ASSUME \/ \E c \in Commands : cmd_anki_vehicle_message(c)
              \/ cmd_anki_vehicle_send_data
              \/ cmd_anki_vehicle_read
       PROVE  Offers'
  BY <1>5, <1>14, CommandQuiet
<1>15. ASSUME NEW i \in DOMAIN links,
              \/ Transmit(i) \/ Answer(i) \/ primary_by_uuid_cb(i) \/ discover_services_cb(i)
       PROVE  Offers'
  BY <1>5, <1>15, BearerQuiet
<1>16. ASSUME \/ cmd_disconnect \/ cmd_exit \/ \E i \in DOMAIN links : channel_watcher(i)
       PROVE  Offers'
  BY <1>3, <1>16 DEF cmd_disconnect, cmd_exit, channel_watcher
<1>17. ASSUME connect_cb_no_bearer PROVE Offers'
  BY <1>17 DEF connect_cb_no_bearer, Offers
<1> QED
  BY <1>1, <1>2, <1>4, <1>6, <1>7, <1>8, <1>11, <1>12, <1>13, <1>14, <1>15, <1>16, <1>17
  DEF Next, Shell, Callback

\* There is one MTU exchange per connection, and the buffer stays within what
\* the device answered and what the user typed, for every int the user types,
\* every device and every order of events; within what the request said too,
\* if its 16 bits could hold what was typed.
THEOREM MtuIsAgreed == Spec => []MtuAgreed
<1>1. Init => Offers
  BY DEF Init, Offers
<1>2. SInv /\ Offers => MtuAgreed
  <2> SUFFICES ASSUME SInv, Offers, NEW i \in DOMAIN links
               PROVE  LET l == links[i]
                      IN  /\ Len(l.offered) <= 1
                          /\ l.mtu # ATT_DEFAULT_LE_MTU =>
                               \E v \in ToSet(l.offered) :
                                 /\ l.mtu <= l.answered /\ l.mtu <= v
                                 /\ v < Uint16 => l.mtu <= on_air(v)
    BY DEF MtuAgreed, Offers
  <2> DEFINE l == links[i]
  <2>1. CASE l.offered = <<>>
    <3>1. l.mtu = ATT_DEFAULT_LE_MTU BY <2>1 DEF Offers, Offer, NoOffer
    <3> QED BY <2>1, <3>1
  <2>2. CASE l.offered # <<>>
    <3>1. Offer(l, opt_mtu) BY <2>2 DEF Offers, NoOffer
    <3>2. l.offered = <<opt_mtu>> /\ opt_mtu >= ATT_DEFAULT_LE_MTU
      BY <2>2, <3>1 DEF Offer
    <3>3. Len(<<opt_mtu>>) = 1 /\ opt_mtu \in ToSet(<<opt_mtu>>) BY DEF ToSet
    <3>4. l.mtu # ATT_DEFAULT_LE_MTU => l.mtu <= l.answered /\ l.mtu <= opt_mtu
      BY <3>1 DEF Offer
    <3>5. opt_mtu \in Int BY ToolAssumption DEF SInv, TypeOK
    <3>6. opt_mtu < Uint16 => on_air(opt_mtu) = opt_mtu BY <3>2, <3>5, OnAirIs
    <3> QED BY <3>2, <3>3, <3>4, <3>6
  <2> QED BY <2>1, <2>2
<1>3. SInv /\ Offers /\ [Next]_vars => Offers'
  BY OffersNext
<1> QED BY <1>1, <1>2, <1>3, SessionInit, SessionNext, PTL DEF Spec
-----------------------------------------------------------------------------
(***************************************************************************)
(* HandlesAreCurrent.                                                      *)
(***************************************************************************)
\* What pick takes from the beginning of a profile is in the profile.
LEMMA PickedIn ==
  ASSUME NEW d \in Dev, NEW found \in Seq(Char), IsPrefixOf(found, Profile[d]),
         NEW uuid, NEW old,
         \/ old \in ToSet(Profile[d])
         \/ \E k \in 1..Len(found) : found[k].uuid = uuid
  PROVE  pick(found, uuid, old) \in ToSet(Profile[d])
<1>1. Profile[d] \in Seq(Char) BY ToolAssumption, Zenon
<1> DEFINE p == Profile[d]
<1>2. p \in Seq(Char) /\ IsPrefixOf(found, p) BY <1>1
<1> HIDE DEF p
<1>3. \A k \in 1..Len(found) : found[k] \in ToSet(p)
  BY <1>2 DEF IsPrefixOf, ToSet
<1> QED BY <1>3, PickResult DEF p

\* A quiet change finds nothing and keeps the history of a connection.
LEMMA QuietFound ==
  ASSUME NEW l \in LinkRecord, NEW m, Carried(l, m), m.dev = l.dev
  PROVE  /\ Found(l) => Found(m)
         /\ Collecting(m) => Collecting(l)
<1>1. l.dev \in Dev BY DEF LinkRecord
<1>2. Profile[l.dev] \in Seq(Char) BY <1>1, ToolAssumption, Zenon
<1>3. IsPrefixOf(<<>>, Profile[l.dev])
  <2> DEFINE p == Profile[l.dev]
  <2>1. Len(p) \in Nat BY <1>2
  <2> HIDE DEF p
  <2>2. IsPrefixOf(<<>>, p) BY <2>1 DEF IsPrefixOf
  <2> QED BY <2>2 DEF p
<1>4. Found(l) => Found(m) BY <1>3 DEF Found, Carried
<1>5. Collecting(m) => Collecting(l) BY DEF Collecting, Carried, ToSet
<1> QED BY <1>4, <1>5

\* Steps that keep the current vehicle and the history of every connection.
LEMMA HandlesFrame ==
  ASSUME SInv, HInv, SameLinks(links'), UNCHANGED <<conn_state, attrib, vehicle>>,
         \A j \in DOMAIN links :
           /\ links'[j].dev = links[j].dev /\ links'[j].cut = links[j].cut
           /\ links'[j].done => links[j].done
           /\ Found(links'[j])
           /\ Collecting(links'[j]) => j = attrib \/ Collecting(links[j])
  PROVE  HInv'
<1>1. DOMAIN links' = DOMAIN links BY DEF SameLinks
<1>2. FoundSoFar' BY <1>1 DEF FoundSoFar, Found
<1>3. Left' BY <1>1 DEF HInv, Left, Past, Collecting
<1>4. HandlesAreCurrent'
  <2> SUFFICES ASSUME conn_state' = "CONNECTED", links'[attrib].done,
                      IsVehicle(links'[attrib].dev),
                      \A i \in DOMAIN links : ~ links'[i].cut
               PROVE  /\ vehicle.read_char \in ToSet(Profile[links'[attrib].dev])
                      /\ vehicle.write_char \in ToSet(Profile[links'[attrib].dev])
    BY <1>1 DEF HandlesAreCurrent, IsVehicle
  <2>1. attrib \in DOMAIN links BY LinkType DEF SInv, PointersAgree
  <2>2. /\ conn_state = "CONNECTED" /\ links[attrib].done
        /\ links'[attrib].dev = links[attrib].dev
        /\ \A i \in DOMAIN links : ~ links[i].cut
    BY <2>1
  <2>3. IsVehicle(links[attrib].dev) BY <2>2
  <2> QED BY <2>2, <2>3 DEF HInv, HandlesAreCurrent
<1> QED BY <1>2, <1>3, <1>4 DEF HInv

\* discover_char_cb of link i, whose record has become n: the handles it
\* leaves are those of the current device, or the connection it belongs to was
\* cut.
LEMMA DiscoveredHandles ==
  ASSUME SInv, HInv, NEW i \in DOMAIN links, NEW n \in LinkRecord,
         NEW found \in Seq(Char), IsPrefixOf(found, Profile[links[i].dev]),
         NEW ls, SameLinks(ls),
         \A j \in DOMAIN links : /\ ls[j] = IF j = i THEN n ELSE links[j]
                                 /\ ls[j].sent => ls[j].queue # <<>>,
         Ends(links[i], n), Carried(links[i], n),
         i # attrib => links[i].cut /\ n.done = links[i].done,
         n.done => links[i].done \/ found = Profile[links[i].dev],
         discover_char_cb(found, ls)
  PROVE  HInv'
<1>1. /\ SameLinks(links') /\ DOMAIN links' = DOMAIN links
      /\ \A j \in DOMAIN links : Quiet(ls[j], links'[j])
      /\ vehicle' = Picked(found) /\ UNCHANGED <<conn_state, attrib>>
  BY DiscoveredEffect DEF SameLinks
<1>2. \A j \in DOMAIN links : links[j] \in LinkRecord BY LinkType
<1>3. \A j \in DOMAIN links : /\ ls[j] \in LinkRecord /\ ls[j].dev = links[j].dev
                              /\ ls[j].cut = links[j].cut
                              /\ Carried(links[j], ls[j])
  BY <1>2 DEF Ends, Carried
<1>4. \A j \in DOMAIN links :
        /\ links'[j].dev = links[j].dev /\ links'[j].cut = links[j].cut
        /\ links'[j].done = ls[j].done /\ Carried(ls[j], links'[j])
  BY <1>1, <1>3 DEF Quiet, Fixed
<1>5. \A j \in DOMAIN links : Found(links'[j])
  <2> TAKE j \in DOMAIN links
  <2>1. Found(links[j]) BY DEF HInv, FoundSoFar
  <2>2. Found(ls[j]) BY <1>2, <1>3, <2>1, QuietFound
  <2> QED BY <1>3, <1>4, <2>2, QuietFound
<1>6. \A j \in DOMAIN links : Collecting(links'[j]) => Collecting(links[j])
  <2> TAKE j \in DOMAIN links
  <2>1. Collecting(ls[j]) => Collecting(links[j]) BY <1>2, <1>3, QuietFound
  <2>2. Collecting(links'[j]) => Collecting(ls[j]) BY <1>3, <1>4, QuietFound
  <2> QED BY <2>1, <2>2
<1>7. FoundSoFar' BY <1>1, <1>5 DEF FoundSoFar, Found
<1>8. Left' BY <1>1, <1>4, <1>6 DEF HInv, Left, Past, Collecting
<1>9. HandlesAreCurrent'
  <2> DEFINE d == links[attrib].dev
             cs == ToSet(Profile[d])
  <2> SUFFICES ASSUME conn_state' = "CONNECTED", links'[attrib].done,
                      IsVehicle(links'[attrib].dev),
                      \A j \in DOMAIN links : ~ links'[j].cut
               PROVE  /\ vehicle'.read_char \in ToSet(Profile[links'[attrib].dev])
                      /\ vehicle'.write_char \in ToSet(Profile[links'[attrib].dev])
    BY <1>1 DEF HandlesAreCurrent, IsVehicle
  <2>1. attrib \in DOMAIN links BY <1>1, LinkType DEF SInv, PointersAgree
  <2>2. i = attrib BY <1>4
  <2>3. links'[attrib].dev = d /\ d \in Dev BY <1>2, <1>4, <2>1 DEF LinkRecord
  <2>4. /\ vehicle'.read_char = pick(found, "READ", vehicle.read_char)
        /\ vehicle'.write_char = pick(found, "WRITE", vehicle.write_char)
    BY <1>1 DEF Picked
  <2>5. IsPrefixOf(found, Profile[d]) BY <2>2
  <2>6. CASE links[i].done
    <3>1. IsVehicle(d) BY <2>3
    <3>2. /\ conn_state = "CONNECTED" /\ links[attrib].done
          /\ \A j \in DOMAIN links : ~ links[j].cut
      BY <1>1, <1>4, <2>2, <2>6
    <3>3. vehicle.read_char \in cs /\ vehicle.write_char \in cs
      BY <3>1, <3>2 DEF HInv, HandlesAreCurrent
    <3> HIDE DEF d
    <3> QED BY <2>3, <2>4, <2>5, <3>3, PickedIn
  <2>7. CASE found = Profile[d]
    <3>1. IsVehicle(d) BY <2>3
    <3>2. "READ" \in {c.uuid : c \in ToSet(found)} /\ "WRITE" \in {c.uuid : c \in ToSet(found)}
      BY <2>7, <3>1 DEF IsVehicle
    <3>3. /\ \E k \in 1..Len(found) : found[k].uuid = "READ"
          /\ \E k \in 1..Len(found) : found[k].uuid = "WRITE"
      BY <3>2, LenProperties DEF ToSet
    <3> HIDE DEF d
    <3> QED BY <2>3, <2>4, <2>5, <3>3, PickedIn
  <2> QED BY <1>4, <2>1, <2>2, <2>6, <2>7
<1> QED BY <1>7, <1>8, <1>9 DEF HInv

\* No step breaks it.
LEMMA HandlesNext ==
  ASSUME SInv, HInv, [Next]_vars
  PROVE  HInv'
<1>0. /\ conn_state = "CONNECTED" <=> attrib # 0
      /\ 0 \notin DOMAIN links
      /\ \A j \in DOMAIN links : links[j] \in LinkRecord /\ Found(links[j])
  BY LinkType DEF SInv, PointersAgree, HInv, FoundSoFar
<1>1. ASSUME NEW d \in Dev, cmd_connect(d) PROVE HInv'
  <2>1. conn_state = "DISCONNECTED" /\ attrib = 0 /\ attrib' = 0
    BY <1>1, ConnectEffect
  <2>2. conn_state' # "CONNECTED" BY <1>1, <2>1, ConnectEffect
  <2>3. HandlesAreCurrent' BY <2>2 DEF HandlesAreCurrent
  <2>4. CASE links' = links
    BY <2>1, <2>3, <2>4 DEF HInv, FoundSoFar, Found, Left, Past, Collecting
  <2>5. CASE /\ DOMAIN links' = 1..(Len(links) + 1)
             /\ \A j \in DOMAIN links : links'[j] = links[j]
             /\ links'[Len(links) + 1] = NewLink(d)
    <3>1. Len(links) \in Nat /\ DOMAIN links = 1..Len(links) BY LinkType
    <3>2. \A j \in DOMAIN links' : j \in DOMAIN links \/ j = Len(links) + 1
      BY <2>5, <3>1
    <3>3. NewLink(d).queue = <<>> /\ ~ NewLink(d).done BY DEF NewLink
    <3>4. Found(NewLink(d)) /\ Past(NewLink(d))
      BY <3>3 DEF Found, Past, Collecting, ToSet
    <3>5. FoundSoFar' BY <1>0, <2>5, <3>2, <3>4 DEF FoundSoFar, Found
    <3>6. \A j \in DOMAIN links : Past(links[j]) BY <1>0, <2>1 DEF HInv, Left
    <3>7. Left' BY <2>5, <3>2, <3>4, <3>6 DEF Left, Past, Collecting
    <3> QED BY <2>3, <3>5, <3>7 DEF HInv
  <2> QED BY <1>1, <2>4, <2>5, ConnectEffect
<1>2. ASSUME NEW ok \in BOOLEAN, connect_cb(ok) PROVE HInv'
  <2> DEFINE l == links[iochannel]
             m == links'[iochannel]
  <2>1. /\ attrib = 0 /\ iochannel \in DOMAIN links /\ SameLinks(links')
        /\ \A j \in DOMAIN links : j # iochannel => links'[j] = links[j]
        /\ m.dev = l.dev /\ m.done = l.done /\ m.cut = l.cut
        /\ \/ attrib' = iochannel /\ m.queue = <<Proc("services")>>
           \/ attrib' = 0 /\ conn_state' = "DISCONNECTED" /\ m.queue = l.queue
    BY <1>2, ConnectedEffect
  <2>2. DOMAIN links' = DOMAIN links BY <2>1 DEF SameLinks
  <2>3. \A j \in DOMAIN links : Past(links[j]) BY <1>0, <2>1 DEF HInv, Left
  <2>4. Carried(l, m) BY <2>1, ProcType DEF Carried
  <2>5. Found(m) /\ (Collecting(m) => Collecting(l)) BY <1>0, <2>1, <2>4, QuietFound
  <2>6. Past(m) BY <2>1, <2>3, <2>5 DEF Past
  <2>7. FoundSoFar' BY <1>0, <2>1, <2>2, <2>5 DEF FoundSoFar, Found
  <2>8. Left' BY <2>1, <2>2, <2>3, <2>6 DEF Left, Past, Collecting
  <2>9. HandlesAreCurrent'
    <3>1. attrib' = iochannel => ~ links'[attrib'].done BY <2>6 DEF Past
    <3> QED BY <2>1, <3>1 DEF HandlesAreCurrent
  <2> QED BY <2>7, <2>8, <2>9 DEF HInv
<1>3. ASSUME disconnect_io, vehicle' = vehicle PROVE HInv'
  <2> DEFINE l == links[iochannel]
             m == links'[iochannel]
  <2>1. CASE UNCHANGED <<conn_state, iochannel, attrib, opt_mtu, links>>
    <3>1. FoundSoFar' /\ Left'
      BY <2>1 DEF HInv, FoundSoFar, Found, Left, Past, Collecting
    <3>2. HandlesAreCurrent' BY <1>3, <2>1 DEF HInv, HandlesAreCurrent, IsVehicle
    <3> QED BY <3>1, <3>2 DEF HInv
  <2>2. CASE /\ iochannel \in DOMAIN links /\ SameLinks(links')
             /\ \A j \in DOMAIN links : j # iochannel => links'[j] = links[j]
             /\ attrib' = 0 /\ conn_state' = "DISCONNECTED"
             /\ m.dev = l.dev /\ ~ m.done /\ m.cut = Collecting(l)
             /\ m.queue \in {l.queue, <<>>}
    <3>1. \A j \in DOMAIN links : j # iochannel => j # attrib
      BY <1>0 DEF SInv, PointersAgree
    <3>2. DOMAIN links' = DOMAIN links BY <2>2 DEF SameLinks
    <3>3. Carried(l, m) BY <2>2 DEF Carried
    <3>4. Found(m) /\ (Collecting(m) => Collecting(l)) BY <1>0, <2>2, <3>3, QuietFound
    <3>5. Past(m) BY <2>2, <3>4 DEF Past
    <3>6. FoundSoFar' BY <1>0, <2>2, <3>2, <3>4 DEF FoundSoFar, Found
    <3>7. Left' BY <2>2, <3>1, <3>2, <3>5 DEF HInv, Left, Past, Collecting
    <3>8. HandlesAreCurrent' BY <2>2 DEF HandlesAreCurrent
    <3> QED BY <3>6, <3>7, <3>8 DEF HInv
  <2> QED BY <1>3, <2>1, <2>2, DisconnectEffect
<1>4. ASSUME NEW i \in DOMAIN links, Hup(i) PROVE HInv'
  <2> DEFINE l == links[i]
             m == links'[i]
  <2>1. /\ SameLinks(links')
        /\ \A j \in DOMAIN links : j # i => links'[j] = links[j]
        /\ UNCHANGED <<session, opt_mtu>>
        /\ m.dev = l.dev /\ m.done = l.done /\ m.cut = l.cut /\ m.queue = l.queue
    BY <1>4, HupEffect
  <2>2. Found(m) /\ (Collecting(m) => Collecting(l))
    BY <1>0, <2>1 DEF Found, Collecting
  <2> QED BY <1>0, <2>1, <2>2, HandlesFrame DEF session
<1>5. ASSUME QuietStep PROVE HInv'
  <2>1. /\ SameLinks(links') /\ UNCHANGED <<conn_state, attrib, vehicle>>
        /\ \A j \in DOMAIN links : Quiet(links[j], links'[j])
    BY <1>5 DEF QuietStep, session
  <2>2. \A j \in DOMAIN links :
          /\ links'[j].dev = links[j].dev /\ links'[j].cut = links[j].cut
          /\ links'[j].done = links[j].done /\ Carried(links[j], links'[j])
    BY <2>1 DEF Quiet, Fixed
  <2>3. \A j \in DOMAIN links :
          Found(links'[j]) /\ (Collecting(links'[j]) => Collecting(links[j]))
    BY <1>0, <2>2, QuietFound
  <2> QED BY <2>1, <2>2, <2>3, HandlesFrame
<1>6. ASSUME NEW v \in MtuArgs, cmd_mtu(v) PROVE HInv'
  <2> DEFINE l == links[attrib]
             m == links'[attrib]
  <2>1. /\ SameLinks(links') /\ attrib \in DOMAIN links
        /\ \A j \in DOMAIN links : j # attrib => links'[j] = links[j]
        /\ UNCHANGED session
        /\ m.dev = l.dev /\ m.done = l.done /\ m.cut = l.cut
        /\ m = l \/ m.queue = Append(l.queue, Proc("mtu"))
    BY <1>6, MtuEffect
  <2>2. l.queue \in Seq(ProcRecord) /\ l.dev \in Dev BY <1>0, <2>1 DEF LinkRecord
  <2>3. Profile[l.dev] \in Seq(Char) BY <2>2, ToolAssumption, Zenon
  <2>4. IsPrefixOf(<<>>, Profile[l.dev]) /\ Proc("mtu").found = <<>>
    <3>1. Len(Profile[l.dev]) \in Nat BY <2>3
    <3>2. Proc("mtu").found = <<>> BY DEF Proc
    <3> QED BY <3>1, <3>2 DEF IsPrefixOf
  <2>5. Found(m)
    <3>1. CASE m = l BY <1>0, <2>1, <3>1
    <3>2. CASE m.queue = Append(l.queue, Proc("mtu"))
      <4> DEFINE q == l.queue
                 p == Proc("mtu")
      <4> HIDE DEF q, p
      <4>1. \A k \in DOMAIN Append(q, p) :
              Append(q, p)[k] = p \/ (k \in DOMAIN q /\ Append(q, p)[k] = q[k])
        BY <2>2 DEF q
      <4> QED BY <1>0, <2>1, <2>4, <3>2, <4>1 DEF Found, q, p
    <3> QED BY <2>1, <3>1, <3>2
  <2> QED BY <1>0, <2>1, <2>5, HandlesFrame DEF session
<1>7. ASSUME NEW i \in DOMAIN links, NEW mtu \in PeerMtus, exchange_mtu_cb(i, mtu)
      PROVE  HInv'
  <2> DEFINE l == links[i]
             m == links'[i]
  <2>1. /\ SameLinks(links') /\ i = attrib
        /\ \A j \in DOMAIN links : j # i => links'[j] = links[j]
        /\ UNCHANGED <<session, opt_mtu>>
        /\ m.dev = l.dev /\ m.done = l.done /\ m.cut = l.cut /\ Carried(l, m)
    BY <1>7, ExchangeEffect
  <2>2. Found(m) BY <1>0, <2>1, QuietFound
  <2> QED BY <1>0, <2>1, <2>2, HandlesFrame DEF session
<1>8. ASSUME NEW i \in DOMAIN links,
             NEW k \in 1..Len(Profile[links[i].dev]), char_discovered_cb(i, k)
      PROVE  HInv'
  <2> DEFINE l == links[i]
             m == links'[i]
             more == Len(l.queue[1].found) + k
             f == SubSeq(Profile[l.dev], 1, more)
             p == [kind |-> "chars", found |-> f]
  <2>1. /\ SameLinks(links') /\ i = attrib
        /\ \A j \in DOMAIN links : j # i => links'[j] = links[j]
        /\ UNCHANGED <<session, opt_mtu>>
        /\ Fixed(l, m)
        /\ l.queue # <<>> /\ m.queue = Append(Tail(l.queue), p)
        /\ more \in 1..Len(Profile[l.dev])
    BY <1>8, PageEffect
  <2>2. l.dev \in Dev /\ l.queue \in Seq(ProcRecord) BY <1>0 DEF LinkRecord
  <2>3. Profile[l.dev] \in Seq(Char) BY <2>2, ToolAssumption, Zenon
  <2>4. IsPrefixOf(p.found, Profile[l.dev])
    <3> DEFINE c == Profile[l.dev]
    <3>1. c \in Seq(Char) /\ more \in 1..Len(c) BY <2>1, <2>3
    <3> HIDE DEF c, more
    <3>2. IsPrefixOf(SubSeq(c, 1, more), c) BY <3>1 DEF IsPrefixOf
    <3> QED BY <3>2 DEF c
  <2> HIDE DEF p
  <2>5. Found(m)
    <3> DEFINE q == l.queue
    <3> HIDE DEF q
    <3>1. \A j \in DOMAIN Append(Tail(q), p) :
            Append(Tail(q), p)[j] = p \/ \E r \in DOMAIN q : Append(Tail(q), p)[j] = q[r]
      BY <2>1, <2>2 DEF q
    <3> QED BY <1>0, <2>1, <2>4, <3>1 DEF Found, Fixed, q
  <2> QED BY <1>0, <2>1, <2>5, HandlesFrame DEF session, Fixed
<1>9. ASSUME NEW i \in DOMAIN links, DiscoveryEnds(i) PROVE HInv'
  <2> DEFINE l == links[i]
             found == l.queue[1].found
             n == [Popped(l) EXCEPT !.done = Complete(l.dev, found)]
             ls == [links EXCEPT ![i] = n]
  <2>1. /\ i = attrib /\ l.queue # <<>> /\ found \in Seq(Char)
        /\ n \in LinkRecord /\ SameLinks(ls)
        /\ \A j \in DOMAIN links : /\ ls[j] = IF j = i THEN n ELSE links[j]
                                   /\ ls[j].sent => ls[j].queue # <<>>
        /\ Ends(l, n) /\ Carried(l, n)
        /\ n.done = Complete(l.dev, found)
        /\ \/ found # <<>> /\ discover_char_cb(found, ls)
           \/ found = <<>> /\ links' = ls /\ UNCHANGED <<session, opt_mtu>>
    BY <1>9, EndsEffect
  <2>2. IsPrefixOf(found, Profile[l.dev])
    <3>1. l.queue \in Seq(ProcRecord) BY <1>0 DEF LinkRecord
    <3>2. 1 \in DOMAIN l.queue BY <2>1, <3>1
    <3> QED BY <1>0, <3>2 DEF Found
  <2> HIDE DEF found, n, ls
  <2>3. CASE discover_char_cb(found, ls)
    <3>1. n.done => found = Profile[l.dev] BY <2>1 DEF Complete
    <3> QED BY <2>1, <2>2, <2>3, <3>1, DiscoveredHandles
  <2>4. CASE found = <<>> /\ links' = ls /\ UNCHANGED <<session, opt_mtu>>
    <3>1. ~ n.done BY <2>1, <2>4 DEF Complete
    <3>2. n.dev = l.dev /\ n.cut = l.cut BY <2>1 DEF Ends
    <3>3. Found(n) BY <1>0, <2>1, <3>2, QuietFound
    <3>4. \A j \in DOMAIN links :
            /\ links'[j].dev = links[j].dev /\ links'[j].cut = links[j].cut
            /\ links'[j].done => links[j].done
            /\ Found(links'[j])
            /\ Collecting(links'[j]) => j = attrib \/ Collecting(links[j])
      BY <1>0, <2>1, <2>4, <3>1, <3>2, <3>3
    <3> QED BY <2>1, <2>4, <3>4, HandlesFrame DEF session
  <2> QED BY <2>1, <2>3, <2>4
<1>10. ASSUME NEW i \in DOMAIN links, disconnect_timeout(i) PROVE HInv'
  <2> DEFINE l == links[i]
             n == TimedOut(i)
             ls == [links EXCEPT ![i] = n]
  <2>1. /\ n \in LinkRecord /\ SameLinks(ls)
        /\ \A j \in DOMAIN links : /\ ls[j] = IF j = i THEN n ELSE links[j]
                                   /\ ls[j].sent => ls[j].queue # <<>>
        /\ Ends(l, n) /\ n.queue = <<>> /\ n.done = l.done
        /\ \/ /\ Collecting(l)
              /\ \E k \in DOMAIN l.queue :
                   l.queue[k] \in ProcRecord /\ discover_char_cb(l.queue[k].found, ls)
           \/ links' = ls /\ UNCHANGED <<session, opt_mtu>>
    BY <1>10, TimeoutEffect
  <2> HIDE DEF n, ls
  <2>2. Carried(l, n) BY <2>1 DEF Carried
  <2>3. ASSUME Collecting(l), NEW k \in DOMAIN l.queue, l.queue[k] \in ProcRecord,
               discover_char_cb(l.queue[k].found, ls)
        PROVE  HInv'
    <3>1. i # attrib => l.cut BY <2>3 DEF HInv, Left, Past
    <3> DEFINE found == l.queue[k].found
    <3>2. found \in Seq(Char) BY <2>3 DEF ProcRecord
    <3>3. IsPrefixOf(found, Profile[l.dev]) BY <1>0 DEF Found
    <3>4. discover_char_cb(found, ls) BY <2>3
    <3> HIDE DEF found
    <3> QED BY <2>1, <2>2, <3>1, <3>2, <3>3, <3>4, DiscoveredHandles
  <2>4. CASE links' = ls /\ UNCHANGED <<session, opt_mtu>>
    <3>1. n.dev = l.dev /\ n.cut = l.cut BY <2>1 DEF Ends
    <3>2. Found(n) /\ (Collecting(n) => Collecting(l))
      BY <1>0, <2>2, <3>1, QuietFound
    <3>3. \A j \in DOMAIN links :
            /\ links'[j].dev = links[j].dev /\ links'[j].cut = links[j].cut
            /\ links'[j].done => links[j].done
            /\ Found(links'[j])
            /\ Collecting(links'[j]) => j = attrib \/ Collecting(links[j])
      BY <1>0, <2>1, <2>4, <3>1, <3>2
    <3> QED BY <2>1, <2>4, <3>3, HandlesFrame DEF session
  <2> QED BY <2>1, <2>3, <2>4
<1>11. ASSUME UNCHANGED vars PROVE HInv'
  <2>1. FoundSoFar' /\ Left'
    BY <1>11 DEF vars, HInv, FoundSoFar, Found, Left, Past, Collecting
  <2>2. HandlesAreCurrent' BY <1>11 DEF vars, HInv, HandlesAreCurrent, IsVehicle
  <2> QED BY <2>1, <2>2 DEF HInv
<1>12. ASSUME \/ \E c \in Commands : cmd_anki_vehicle_message(c)
              \/ cmd_anki_vehicle_send_data
              \/ cmd_anki_vehicle_read
       PROVE  HInv'
  BY <1>5, <1>12, CommandQuiet
<1>13. ASSUME NEW i \in DOMAIN links,
              \/ Transmit(i) \/ Answer(i) \/ primary_by_uuid_cb(i) \/ discover_services_cb(i)
       PROVE  HInv'
  BY <1>5, <1>13, BearerQuiet
<1>14. ASSUME \/ cmd_disconnect \/ cmd_exit \/ \E i \in DOMAIN links : channel_watcher(i)
       PROVE  HInv'
  BY <1>3, <1>14 DEF cmd_disconnect, cmd_exit, channel_watcher
<1>15. ASSUME connect_cb_no_bearer PROVE HInv'
  BY <1>11, <1>15 DEF connect_cb_no_bearer, HInv, FoundSoFar, Found, Left, Past, Collecting,
     HandlesAreCurrent, IsVehicle
<1> QED
  BY <1>1, <1>2, <1>4, <1>6, <1>7, <1>8, <1>9, <1>10, <1>11, <1>12, <1>13, <1>14, <1>15
  DEF Next, Shell, Callback

\* Commands use the handles of the vehicle that is connected once it is
\* discovered, whatever was connected before and in whatever order discoveries
\* end, time out or are cut; the one exception is a connection that was cut in
\* the middle of its discovery.
THEOREM HandlesStayCurrent == Spec => []HandlesAreCurrent
<1>1. Init => HInv
  <2> SUFFICES ASSUME Init PROVE HInv
    OBVIOUS
  <2>1. DOMAIN links = {} /\ conn_state = "DISCONNECTED" BY DEF Init
  <2> QED BY <2>1 DEF HInv, FoundSoFar, Left, HandlesAreCurrent
<1>2. HInv => HandlesAreCurrent BY DEF HInv
<1>3. SInv /\ HInv /\ [Next]_vars => HInv' BY HandlesNext
<1> QED BY <1>1, <1>2, <1>3, SessionInit, SessionNext, PTL DEF Spec
=============================================================================
