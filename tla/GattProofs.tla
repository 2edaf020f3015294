----------------------------- MODULE GattProofs -----------------------------
(***************************************************************************)
(* Theorems about Gatt: every procedure calls its user back exactly once,  *)
(* for every database, every set of calls and any number of them.          *)
(***************************************************************************)
EXTENDS Gatt, TLAPS, FiniteSetTheorems, SequenceTheorems, WellFoundedInduction

-----------------------------------------------------------------------------
(***************************************************************************)
(* Sequences of whatever, and the positions of a procedure's commands.     *)
(***************************************************************************)
IsSeq(s) == s \in Seq({s[i] : i \in DOMAIN s})

\* A set of natural numbers that is not empty has a least element.
LEMMA LeastNat ==
  ASSUME NEW T \in SUBSET Nat, T # {}
  PROVE  \E m \in T : \A k \in T : m <= k
<1>1. \E m \in T : \A k \in T : ~ (<<k, m>> \in OpToRel(<, Nat))
  BY WFMin, NatLessThanWellFounded
<1>2. PICK m \in T : \A k \in T : ~ (<<k, m>> \in OpToRel(<, Nat))
  BY <1>1
<1>3. ASSUME NEW k \in T PROVE m <= k
  <2>1. k \in Nat /\ m \in Nat OBVIOUS
  <2>2. <<k, m>> \in Nat \X Nat /\ <<k, m>>[1] = k /\ <<k, m>>[2] = m BY <2>1
  <2>3. ~ (k < m) BY <1>2, <2>2 DEF OpToRel
  <2> QED BY <2>1, <2>3
<1> QED BY <1>3

\* The length and the domain of a sequence.
LEMMA SeqLen ==
  ASSUME NEW s, IsSeq(s)
  PROVE  Len(s) \in Nat /\ DOMAIN s = 1..Len(s) /\ (s = <<>> <=> Len(s) = 0)
<1> DEFINE S == {s[i] : i \in DOMAIN s}
<1>1. s \in Seq(S) BY DEF IsSeq
<1> HIDE DEF S
<1> QED BY <1>1

\* A function on 1..n is a sequence.
LEMMA FcnSeq ==
  ASSUME NEW n \in Nat, NEW s, s = [i \in 1..n |-> s[i]]
  PROVE  IsSeq(s) /\ Len(s) = n
<1> DEFINE S == {s[i] : i \in DOMAIN s}
<1>1. DOMAIN s = 1..n OBVIOUS
<1>2. \A i \in 1..n : s[i] \in S BY <1>1
<1>3. s \in [1..n -> S]
  <2> HIDE DEF S
  <2> QED BY <1>2
<1>4. s \in Seq(S) /\ Len(s) = n
  <2> HIDE DEF S
  <2> QED BY <1>1, <1>3
<1> QED BY <1>4 DEF IsSeq

\* A sequence over any set.
LEMMA AnySeq ==
  ASSUME NEW S, NEW s \in Seq(S)
  PROVE  IsSeq(s)
<1>1. Len(s) \in Nat /\ s = [i \in 1..Len(s) |-> s[i]] OBVIOUS
<1> QED BY <1>1, FcnSeq

\* Concatenation.
LEMMA CatSeq ==
  ASSUME NEW s, IsSeq(s), NEW t, IsSeq(t), NEW u, u = s \o t
  PROVE  /\ IsSeq(u) /\ Len(u) = Len(s) + Len(t)
         /\ DOMAIN u = 1..(Len(s) + Len(t))
         /\ \A i \in DOMAIN s : u[i] = s[i]
         /\ \A i \in DOMAIN t : u[Len(s) + i] = t[i]
<1> DEFINE S == {s[i] : i \in DOMAIN s}
           T == {t[i] : i \in DOMAIN t}
           B == S \cup T
<1>1. s \in Seq(B) /\ t \in Seq(B)
  <2>1. s \in Seq(S) /\ t \in Seq(T) BY DEF IsSeq
  <2> HIDE DEF S, T
  <2> QED BY <2>1
<1> HIDE DEF B
<1>2. s \o t \in Seq(B) BY <1>1
<1>3. IsSeq(s \o t) BY <1>2, AnySeq
<1>4. Len(s) \in Nat /\ DOMAIN s = 1..Len(s) /\ Len(t) \in Nat /\ DOMAIN t = 1..Len(t) BY SeqLen
<1>5. Len(s \o t) = Len(s) + Len(t) /\ DOMAIN (s \o t) = 1..(Len(s) + Len(t)) BY <1>1, <1>4
<1>6. \A i \in 1..Len(s) : (s \o t)[i] = s[i] BY <1>1, <1>4
<1>7. ASSUME NEW i \in 1..Len(t) PROVE (s \o t)[Len(s) + i] = t[i]
  <2>1. Len(s) + i \in 1..(Len(s) + Len(t)) /\ ~ (Len(s) + i <= Len(s))
        /\ Len(s) + i - Len(s) = i BY <1>4
  <2> QED BY <1>1, <1>4, <2>1
<1> QED BY <1>3, <1>4, <1>5, <1>6, <1>7

\* Tail.
LEMMA TailSeq ==
  ASSUME NEW s, IsSeq(s), s # <<>>
  PROVE  /\ IsSeq(Tail(s)) /\ Len(s) \in Nat /\ Len(s) >= 1 /\ Head(s) = s[1]
         /\ Len(Tail(s)) = Len(s) - 1 /\ DOMAIN Tail(s) = 1..(Len(s) - 1)
         /\ \A i \in 1..(Len(s) - 1) : Tail(s)[i] = s[i + 1]
<1> DEFINE S == {s[i] : i \in DOMAIN s}
<1>1. s \in Seq(S) BY DEF IsSeq
<1> HIDE DEF S
<1>2. Tail(s) \in Seq(S) BY <1>1
<1>3. IsSeq(Tail(s)) BY <1>2, AnySeq
<1>4. Len(s) \in Nat /\ Len(s) >= 1 /\ Head(s) = s[1] /\ Len(Tail(s)) = Len(s) - 1 BY <1>1
<1>5. DOMAIN Tail(s) = 1..(Len(s) - 1) BY <1>2, <1>4
<1> QED BY <1>1, <1>3, <1>4, <1>5

\* Appending.
LEMMA AppendSeq ==
  ASSUME NEW s, IsSeq(s), NEW x
  PROVE  /\ IsSeq(Append(s, x)) /\ Len(Append(s, x)) = Len(s) + 1
         /\ DOMAIN Append(s, x) = 1..(Len(s) + 1)
         /\ \A i \in DOMAIN s : Append(s, x)[i] = s[i]
         /\ Append(s, x)[Len(s) + 1] = x
<1> DEFINE S == {s[i] : i \in DOMAIN s}
           B == S \cup {x}
           t == Append(s, x)
<1>1. s \in Seq(S) BY DEF IsSeq
<1>2. Len(s) \in Nat /\ DOMAIN s = 1..Len(s) BY SeqLen
<1>3. s \in Seq(B) /\ x \in B
  <2> HIDE DEF S
  <2> QED BY <1>1
<1> HIDE DEF B
<1>4. t \in Seq(B) BY <1>3
<1>5. Len(t) = Len(s) + 1 /\ DOMAIN t = 1..(Len(s) + 1) /\ t[Len(s) + 1] = x
      /\ \A i \in 1..Len(s) : t[i] = s[i]
  BY <1>2, <1>3
<1>6. IsSeq(t) BY <1>4, AnySeq
<1> QED BY <1>2, <1>5, <1>6

-----------------------------------------------------------------------------
\* The positions in q of the commands of procedure i, and their number.
At(q, i) == {k \in DOMAIN q : q[k].proc = i}
Count(q, i) == Cardinality(At(q, i))

\* Positions are finitely many.
LEMMA AtFinite ==
  ASSUME NEW q, IsSeq(q), NEW i
  PROVE  IsFiniteSet(At(q, i)) /\ Count(q, i) \in Nat /\ At(q, i) \in SUBSET Nat
         /\ (Count(q, i) = 0 <=> ~ \E k \in DOMAIN q : q[k].proc = i)
<1>1. Len(q) \in Nat /\ DOMAIN q = 1..Len(q) BY SeqLen
<1>2. IsFiniteSet(1..Len(q)) BY <1>1, FS_Interval
<1>3. At(q, i) \in SUBSET (1..Len(q)) BY <1>1 DEF At
<1>4. IsFiniteSet(At(q, i)) BY <1>2, <1>3, FS_Subset
<1>5. Count(q, i) \in Nat BY <1>4, FS_CardinalityType DEF Count
<1>6. Count(q, i) = 0 <=> At(q, i) = {} BY <1>4, FS_EmptySet DEF Count
<1> QED BY <1>1, <1>3, <1>4, <1>5, <1>6 DEF At

\* Moving positions does not change their number.
LEMMA Shift ==
  ASSUME NEW S \in SUBSET Nat, IsFiniteSet(S), NEW d \in Nat
  PROVE  LET T == {k + d : k \in S}
         IN  IsFiniteSet(T) /\ Cardinality(T) = Cardinality(S)
<1> DEFINE T == {k + d : k \in S}
           f == [k \in S |-> k + d]
<1>1. f \in [S -> T] OBVIOUS
<1>2. \A a, b \in S : f[a] = f[b] => a = b OBVIOUS
<1>3. \A t \in T : \E s \in S : f[s] = t OBVIOUS
<1>4. f \in Bijection(S, T)
  <2> HIDE DEF f, T
  <2> QED BY <1>1, <1>2, <1>3 DEF Bijection, Injection, Surjection, IsInjective
<1>5. ExistsBijection(S, T) BY <1>4 DEF ExistsBijection
<1> HIDE DEF T
<1>6. IsFiniteSet(T) /\ Cardinality(T) = Cardinality(S) BY <1>5, FS_Bijection
<1> QED BY <1>6 DEF T

\* The commands of a concatenation.
LEMMA CountCat ==
  ASSUME NEW s, IsSeq(s), NEW t, IsSeq(t), NEW i
  PROVE  Count(s \o t, i) = Count(s, i) + Count(t, i)
<1> DEFINE n == Len(s)
           A == At(s, i)
           T == {k + n : k \in At(t, i)}
<1>1. n \in Nat /\ Len(t) \in Nat /\ DOMAIN s = 1..n /\ DOMAIN t = 1..Len(t) BY SeqLen
<1>2. IsFiniteSet(T) /\ Cardinality(T) = Count(t, i)
  <2>1. IsFiniteSet(At(t, i)) /\ At(t, i) \in SUBSET Nat BY AtFinite
  <2> QED BY <1>1, <2>1, Shift DEF Count
<1>3. IsFiniteSet(A) /\ Cardinality(A) = Count(s, i) BY AtFinite DEF Count
<1>4. A \cap T = {} BY <1>1 DEF At
<1>5. At(s \o t, i) = A \cup T
  <2> DEFINE u == s \o t
  <2> HIDE DEF u
  <2>1. DOMAIN u = 1..(n + Len(t)) /\ (\A k \in DOMAIN s : u[k] = s[k])
        /\ (\A k \in DOMAIN t : u[n + k] = t[k])
    <3>1. u = s \o t BY DEF u
    <3> QED BY <3>1, CatSeq
  <2>2. \A k \in DOMAIN t : u[n + k] = t[k] BY <2>1
  <2> HIDE DEF n
  <2>3. \A k \in At(u, i) : k \in A \cup T
    <3> SUFFICES ASSUME NEW k \in At(u, i) PROVE k \in A \cup T OBVIOUS
    <3>1. k \in 1..(n + Len(t)) /\ u[k].proc = i BY <2>1 DEF At
    <3>2. CASE k <= n
      <4>1. k \in DOMAIN s BY <1>1, <3>1, <3>2
      <4> QED BY <2>1, <3>1, <4>1 DEF At
    <3>3. CASE ~ k <= n
      <4>1. k - n \in DOMAIN t /\ n + (k - n) = k /\ (k - n) + n = k BY <1>1, <3>1, <3>3
      <4>2. t[k - n] = u[k] BY <2>2, <4>1
      <4> QED BY <3>1, <4>1, <4>2 DEF At
    <3> QED BY <3>2, <3>3
  <2>4. \A k \in A : k \in At(u, i) BY <1>1, <2>1 DEF At
  <2>5. \A k \in T : k \in At(u, i)
    <3> SUFFICES ASSUME NEW j \in At(t, i) PROVE j + n \in At(u, i) OBVIOUS
    <3>1. j \in DOMAIN t /\ t[j].proc = i BY DEF At
    <3>2. j + n = n + j /\ j + n \in 1..(n + Len(t)) BY <1>1, <3>1
    <3> QED BY <2>1, <2>2, <3>1, <3>2 DEF At
  <2> QED BY <2>3, <2>4, <2>5 DEF u
<1>6. Cardinality(A \cup T) = Cardinality(A) + Cardinality(T) - Cardinality(A \cap T)
  <2> HIDE DEF A, T
  <2> QED BY <1>2, <1>3, FS_Union
<1>7. Count(s, i) \in Nat /\ Count(t, i) \in Nat BY AtFinite
<1>8. Cardinality(A \cap T) = 0 BY <1>4, FS_EmptySet
<1> QED BY <1>2, <1>3, <1>5, <1>6, <1>7, <1>8 DEF Count

\* The commands behind the first one.
LEMMA CountTail ==
  ASSUME NEW q, IsSeq(q), q # <<>>, NEW i
  PROVE  Count(q, i) = Count(Tail(q), i) + (IF q[1].proc = i THEN 1 ELSE 0)
<1> DEFINE t == Tail(q)
           T == {k + 1 : k \in At(t, i)}
<1>1. /\ IsSeq(t) /\ Len(q) \in Nat /\ Len(q) >= 1
      /\ DOMAIN t = 1..(Len(q) - 1) /\ DOMAIN q = 1..Len(q)
      /\ \A k \in 1..(Len(q) - 1) : t[k] = q[k + 1]
  BY TailSeq, SeqLen
<1> HIDE DEF t
<1>2. IsFiniteSet(At(t, i)) /\ At(t, i) \in SUBSET Nat /\ Count(t, i) \in Nat BY <1>1, AtFinite
<1>3. IsFiniteSet(T) /\ Cardinality(T) = Count(t, i) BY <1>2, Shift DEF Count
<1>4. 1 \notin T BY <1>1 DEF At
<1>5. \A k \in DOMAIN q : k # 1 => (k \in T <=> q[k].proc = i)
  <2> SUFFICES ASSUME NEW k \in DOMAIN q, k # 1 PROVE k \in T <=> q[k].proc = i OBVIOUS
  <2>1. k - 1 \in 1..(Len(q) - 1) /\ (k - 1) + 1 = k BY <1>1
  <2>2. t[k - 1] = q[k] BY <1>1, <2>1
  <2>3. k - 1 \in At(t, i) <=> q[k].proc = i BY <1>1, <2>1, <2>2 DEF At
  <2>4. ASSUME k \in T PROVE k - 1 \in At(t, i)
    <3>1. PICK j \in At(t, i) : k = j + 1 BY <2>4
    <3>2. j \in Nat BY <1>2
    <3>3. j = k - 1 BY <3>1, <3>2
    <3> QED BY <3>3
  <2> QED BY <2>1, <2>3, <2>4
<1>6. T \subseteq DOMAIN q BY <1>1 DEF At
<1>7. CASE q[1].proc = i
  <2>1. At(q, i) = T \cup {1} BY <1>1, <1>5, <1>6, <1>7 DEF At
  <2>2. Cardinality(T \cup {1}) = Cardinality(T) + 1
    <3> HIDE DEF T
    <3> QED BY <1>3, <1>4, FS_AddElement
  <2> QED BY <1>3, <1>7, <2>1, <2>2 DEF Count, t
<1>8. CASE q[1].proc # i
  <2>1. At(q, i) = T BY <1>1, <1>4, <1>5, <1>6, <1>8 DEF At
  <2>2. Count(q, i) = Count(t, i) BY <1>3, <2>1 DEF Count
  <2> QED BY <1>2, <1>8, <2>2 DEF t
<1> QED BY <1>7, <1>8

-----------------------------------------------------------------------------
(***************************************************************************)
(* What a callback does to its procedure.                                  *)
(***************************************************************************)
ProcFields == {"call", "list", "offset", "refs", "err", "ends", "fault", "touched", "alone"}

IsProc(p) ==
  /\ p = [f \in ProcFields |-> p[f]]
  /\ p.refs \in Int /\ p.call.kind \in Kinds /\ IsSeq(p.ends)

IncludedCbs == {"find_included_cb", "resolve_included_uuid_cb"}
PlainCbs == {"primary_by_uuid_cb", "primary_all_cb", "char_discovered_cb", "read_char_helper",
             "read_blob_helper", "prepare_write_cb", "func", "exchange_mtu_cb"}

CmdOk(c, kind) ==
  /\ kind = "included" => c.cb \in IncludedCbs
  /\ kind = "write_cmd" => c.cb = "none"
  /\ kind \notin {"included", "write_cmd"} => c.cb \in PlainCbs
  /\ c.cb = "find_included_cb" => c.req.op = "READ_BY_TYPE_REQ" /\ c.req.type = "INCLUDE"
  /\ c.cb # "none" => c.req.op # "WRITE_CMD"

ReqsOk(reqs, kind) == IsSeq(reqs) /\ \A k \in DOMAIN reqs : CmdOk(reqs[k], kind)

\* The entries of a page are a sequence.
RspOk(c, r) == c.cb = "find_included_cb" /\ r.status = "OK" => IsSeq(r.data)

\* q differs from p in what it has collected only.
Same(p, q) == IsProc(q) /\ q.call = p.call /\ q.refs = p.refs /\ q.ends = p.ends

\* A callback of p that gives o: a plain procedure sends one request or calls
\* its user; an included service discovery drops one reference, takes one for
\* each request it sends, and calls its user when none is left.
Goes(p, o) ==
  /\ IsProc(o.p) /\ o.p.call = p.call
  /\ ReqsOk(o.reqs, p.call.kind)
  /\ p.call.kind \notin {"included", "write_cmd"} =>
       \/ Len(o.reqs) = 0 /\ Len(o.p.ends) = Len(p.ends) + 1
       \/ Len(o.reqs) = 1 /\ o.p.ends = p.ends
  /\ p.call.kind = "included" =>
       /\ o.p.refs = p.refs - 1 + Len(o.reqs)
       /\ Len(o.p.ends) = Len(p.ends) + (IF o.p.refs > 0 THEN 0 ELSE 1)

\* The fields that a callback may fill in freely.
LEMMA SameExcept ==
  ASSUME NEW p, IsProc(p), NEW f \in {"list", "offset", "err", "fault", "touched", "alone"}, NEW x
  PROVE  Same(p, [p EXCEPT ![f] = x])
<1> DEFINE q == [p EXCEPT ![f] = x]
<1>1. q = [g \in ProcFields |-> IF g = f THEN x ELSE p[g]] BY DEF IsProc
<1>2. q.call = p.call /\ q.refs = p.refs /\ q.ends = p.ends BY <1>1 DEF ProcFields
<1>3. q = [g \in ProcFields |-> q[g]]
  <2> DEFINE h == [g \in ProcFields |-> IF g = f THEN x ELSE p[g]]
  <2>1. h = [g \in ProcFields |-> h[g]] OBVIOUS
  <2> HIDE DEF h, q
  <2> QED BY <1>1, <2>1 DEF h
<1> HIDE DEF q
<1>4. Same(p, q) BY <1>2, <1>3 DEF Same, IsProc
<1> QED BY <1>4 DEF q

\* Calling the user.
LEMMA EndsEffect ==
  ASSUME NEW p, IsProc(p), NEW status, NEW list, NEW o, o = Ended(p, status, list)
  PROVE  /\ IsProc(o.p) /\ o.p.call = p.call /\ o.p.refs = p.refs
         /\ Len(o.p.ends) = Len(p.ends) + 1 /\ o.reqs = <<>>
<1> DEFINE e == Append(p.ends, [status |-> status, list |-> list])
           q == [p EXCEPT !.ends = e]
<1>1. IsSeq(e) /\ Len(e) = Len(p.ends) + 1 BY AppendSeq DEF IsProc
<1>2. o.p = q /\ o.reqs = <<>> BY DEF Ended, Quiet, Sends
<1> HIDE DEF e
<1>3. q.ends = e /\ q.call = p.call /\ q.refs = p.refs BY DEF IsProc, ProcFields
<1>4. q = [g \in ProcFields |-> q[g]] BY DEF IsProc
<1> HIDE DEF q
<1>5. IsProc(q) BY <1>1, <1>3, <1>4 DEF IsProc
<1> QED BY <1>1, <1>2, <1>3, <1>5

\* No requests.
LEMMA ReqsNone == ASSUME NEW kind PROVE ReqsOk(<<>>, kind) /\ Len(<<>>) = 0
<1>1. IsSeq(<<>>) /\ Len(<<>>) = 0 BY DEF IsSeq
<1>2. DOMAIN <<>> = {} BY <1>1, SeqLen
<1> QED BY <1>1, <1>2 DEF ReqsOk

\* One request.
LEMMA ReqsOne ==
  ASSUME NEW kind, NEW c, CmdOk(c, kind)
  PROVE  ReqsOk(<<c>>, kind) /\ Len(<<c>>) = 1
<1> DEFINE s == <<c>>
<1>1. Len(s) = 1 /\ s[1] = c /\ s \in Seq({c}) OBVIOUS
<1>2. IsSeq(s) BY <1>1, AnySeq
<1> HIDE DEF s
<1>3. DOMAIN s = 1..1 BY <1>1, <1>2, SeqLen
<1>4. \A k \in DOMAIN s : s[k] = c BY <1>1, <1>3
<1>5. ReqsOk(s, kind) BY <1>2, <1>4 DEF ReqsOk
<1> QED BY <1>1, <1>5 DEF s

\* A plain procedure ends.
LEMMA EndedGoes ==
  ASSUME NEW p, p.call.kind \notin {"included", "write_cmd"}, IsProc(p),
         NEW q, Same(p, q), NEW status, NEW list
  PROVE  Goes(p, Ended(q, status, list))
<1> DEFINE o == Ended(q, status, list)
<1> HIDE DEF o
<1>1. /\ IsProc(o.p) /\ o.p.call = q.call /\ Len(o.p.ends) = Len(q.ends) + 1 /\ o.reqs = <<>>
  <2>1. o = Ended(q, status, list) BY DEF o
  <2> QED BY <2>1, EndsEffect DEF Same
<1>2. ReqsOk(o.reqs, p.call.kind) /\ Len(o.reqs) = 0 BY <1>1, ReqsNone
<1>3. Goes(p, o) BY <1>1, <1>2 DEF Goes, Same
<1> QED BY <1>3 DEF o

\* A plain procedure goes on with one request.
LEMMA SendsGoes ==
  ASSUME NEW p, p.call.kind \notin {"included", "write_cmd"}, IsProc(p),
         NEW q, Same(p, q), NEW cb \in PlainCbs, NEW req, req.op # "WRITE_CMD", NEW first
  PROVE  Goes(p, Sends(q, <<[cb |-> cb, req |-> req]>>, first))
<1> DEFINE c == [cb |-> cb, req |-> req]
           o == Sends(q, <<c>>, first)
<1>1. o.p = q /\ o.reqs = <<c>> BY DEF Sends
<1>2. CmdOk(c, p.call.kind)
  <2>1. c.cb = cb /\ c.req = req OBVIOUS
  <2> HIDE DEF c
  <2> QED BY <2>1 DEF CmdOk, PlainCbs
<1> HIDE DEF o, c
<1>3. ReqsOk(o.reqs, p.call.kind) /\ Len(o.reqs) = 1 BY <1>1, <1>2, ReqsOne
<1>4. Goes(p, o) BY <1>1, <1>3 DEF Goes, Same
<1> QED BY <1>4 DEF o, c

\* The callbacks of the plain procedures.
LEMMA PlainGoes ==
  ASSUME NEW p, IsProc(p), p.call.kind \notin {"included", "write_cmd"},
         NEW c, c.cb \in PlainCbs, NEW r
  PROVE  Goes(p, Callback(c, p, r))
<1> DEFINE o == Callback(c, p, r)
<1>1. Same(p, p) BY DEF Same
<1>2. ASSUME NEW x PROVE Same(p, [p EXCEPT !.list = x]) BY SameExcept
<1>3. ASSUME NEW x PROVE Same(p, [p EXCEPT !.offset = x]) BY SameExcept
<1>4. CASE c.cb \in {"primary_by_uuid_cb", "primary_all_cb"}
  <2>1. o = primary_cb(p, r) BY <1>4 DEF Callback
  <2> DEFINE q == [p EXCEPT !.list = @ \o r.data]
             cb == discover_primary_cb(p.call.uuid)
             req == encode_discover_primary(next_handle(Last(r.data).end), p.call.uuid)
             e == Ended(p, discovery_err(r.status), p.list)
             f == Ended(q, "OK", q.list)
             a == Sends(q, <<[cb |-> cb, req |-> req]>>, FALSE)
  <2>2. cb \in PlainCbs /\ req.op # "WRITE_CMD"
    BY DEF discover_primary_cb, encode_discover_primary, PlainCbs
  <2>3. o \in {e, f, a} BY <2>1 DEF primary_cb, Asks
  <2>4. Same(p, q) BY <1>2
  <2>5. Goes(p, e) BY <1>1, EndedGoes
  <2> HIDE DEF q, cb, req
  <2>6. Goes(p, f) BY <2>4, EndedGoes
  <2>7. Goes(p, a) BY <2>2, <2>4, SendsGoes
  <2> HIDE DEF o, e, f, a
  <2>8. Goes(p, o) BY <2>3, <2>5, <2>6, <2>7
  <2> QED BY <2>8 DEF o
<1>5. CASE c.cb = "char_discovered_cb"
  <2>1. o = char_discovered_cb(p, r) BY <1>5 DEF Callback
  <2> DEFINE q == [p EXCEPT !.list = @ \o Picked(r.data, OfUuid(r.data, p.call.uuid))]
             cb == "char_discovered_cb"
             req == discover_char_req(next_handle(Last(r.data).handle), p.call.end)
             e == discover_char_ended(p, r.status)
             f == discover_char_ended(q, "NOT_FOUND")
             a == Sends(q, <<[cb |-> cb, req |-> req]>>, FALSE)
  <2>3. o \in {e, f, a} BY <2>1 DEF char_discovered_cb, Asks
  <2>4. Same(p, q) BY <1>2
  <2>5. Goes(p, e) BY <1>1, EndedGoes DEF discover_char_ended
  <2>9. req.op # "WRITE_CMD" BY DEF discover_char_req
  <2> HIDE DEF q, req
  <2>6. Goes(p, f) BY <2>4, EndedGoes DEF discover_char_ended
  <2>7. Goes(p, a)
    <3>1. cb \in PlainCbs BY DEF PlainCbs
    <3> HIDE DEF cb
    <3> QED BY <2>4, <2>9, <3>1, SendsGoes
  <2> HIDE DEF o, e, f, a
  <2>8. Goes(p, o) BY <2>3, <2>5, <2>6, <2>7
  <2> QED BY <2>8 DEF o
<1>6. CASE c.cb = "read_char_helper"
  <2>1. o = read_char_helper(p, r) BY <1>6 DEF Callback
  <2> DEFINE q == [p EXCEPT !.list = r.data]
             cb == "read_blob_helper"
             req == [op |-> "READ_BLOB_REQ", handle |-> q.call.handle, offset |-> Len(q.list)]
             e == Ended(p, r.status, <<>>)
             f == Ended(p, "OK", r.data)
             a == Sends(q, <<[cb |-> cb, req |-> req]>>, TRUE)
  <2>3. o \in {e, f, a} BY <2>1 DEF read_char_helper, read_blob
  <2>4. Same(p, q) BY <1>2
  <2>5. Goes(p, e) BY <1>1, EndedGoes
  <2>6. Goes(p, f) BY <1>1, EndedGoes
  <2>9. req.op # "WRITE_CMD" OBVIOUS
  <2> HIDE DEF q, req
  <2>7. Goes(p, a)
    <3>1. cb \in PlainCbs BY DEF PlainCbs
    <3> HIDE DEF cb
    <3> QED BY <2>4, <2>9, <3>1, SendsGoes
  <2> HIDE DEF o, e, f, a
  <2>8. Goes(p, o) BY <2>3, <2>5, <2>6, <2>7
  <2> QED BY <2>8 DEF o
<1>7. CASE c.cb = "read_blob_helper"
  <2>1. o = read_blob_helper(p, r) BY <1>7 DEF Callback
  <2> DEFINE q == [p EXCEPT !.list = @ \o r.data]
             cb == "read_blob_helper"
             req == [op |-> "READ_BLOB_REQ", handle |-> q.call.handle, offset |-> Len(q.list)]
             e == Ended(p, "OK", p.list)
             f == Ended(q, "OK", q.list)
             a == Sends(q, <<[cb |-> cb, req |-> req]>>, TRUE)
  <2>9. req.op # "WRITE_CMD" OBVIOUS
  <2>3. o \in {e, f, a} BY <2>1 DEF read_blob_helper, read_blob
  <2>4. Same(p, q) BY <1>2
  <2>5. Goes(p, e) BY <1>1, EndedGoes
  <2> HIDE DEF q, req
  <2>6. Goes(p, f) BY <2>4, EndedGoes
  <2>7. Goes(p, a)
    <3>1. cb \in PlainCbs BY DEF PlainCbs
    <3> HIDE DEF cb
    <3> QED BY <2>4, <2>9, <3>1, SendsGoes
  <2> HIDE DEF o, e, f, a
  <2>8. Goes(p, o) BY <2>3, <2>5, <2>6, <2>7
  <2> QED BY <2>8 DEF o
<1>8. CASE c.cb = "prepare_write_cb"
  <2>1. o = prepare_write_cb(p, r) BY <1>8 DEF Callback
  <2> DEFINE q == [p EXCEPT !.offset = @ + Len(r.data)]
             cb == "prepare_write_cb"
             func == "func"
             req == [op |-> "PREP_WRITE_REQ", handle |-> q.call.handle, offset |-> q.offset,
                     value |-> Slice(q.call.value, q.offset, mtu - 5)]
             exec == [op |-> "EXEC_WRITE_REQ"]
             e == Ended(p, r.status, <<>>)
             f == Sends(q, <<[cb |-> func, req |-> exec]>>, FALSE)
             a == Sends(q, <<[cb |-> cb, req |-> req]>>, FALSE)
  <2>3. o \in {e, f, a} BY <2>1 DEF prepare_write_cb, execute_write, prepare_write, Asks
  <2>4. Same(p, q) BY <1>3
  <2>5. Goes(p, e) BY <1>1, EndedGoes
  <2>6. cb \in PlainCbs /\ func \in PlainCbs BY DEF PlainCbs
  <2>9. req.op # "WRITE_CMD" /\ exec.op # "WRITE_CMD" OBVIOUS
  <2> HIDE DEF q, req, exec, cb, func
  <2>7. Goes(p, a) /\ Goes(p, f) BY <2>4, <2>6, <2>9, SendsGoes
  <2> HIDE DEF o, e, f, a
  <2>8. Goes(p, o) BY <2>3, <2>5, <2>7
  <2> QED BY <2>8 DEF o
<1>9. CASE c.cb \in {"func", "exchange_mtu_cb"}
  <2>1. o = Ended(p, r.status, <<>>) BY <1>9 DEF Callback
  <2> QED BY <1>1, <2>1, EndedGoes
<1> HIDE DEF o
<1>10. Goes(p, o) BY <1>4, <1>5, <1>6, <1>7, <1>8, <1>9 DEF PlainCbs, o
<1> QED BY <1>10 DEF o

\* A reference is taken, and dropped: with the last one the user is called.
LEMMA RefEffect ==
  ASSUME NEW p, IsProc(p), NEW n \in Int
  PROVE  /\ IsProc(isd_ref(p, n)) /\ isd_ref(p, n).call = p.call
         /\ isd_ref(p, n).refs = p.refs + n /\ isd_ref(p, n).ends = p.ends
<1> DEFINE x == p.refs + n
           q == [p EXCEPT !.refs = x]
<1>1. x \in Int BY DEF IsProc
<1>2. isd_ref(p, n) = q BY DEF isd_ref
<1> HIDE DEF x
<1>3. q.refs = x /\ q.call = p.call /\ q.ends = p.ends BY DEF IsProc, ProcFields
<1>4. q = [g \in ProcFields |-> q[g]] BY DEF IsProc
<1> HIDE DEF q
<1>5. IsProc(q) BY <1>1, <1>3, <1>4 DEF IsProc
<1> QED BY <1>2, <1>3, <1>5 DEF x

\* The other half of the reference count.
LEMMA UnrefEffect ==
  ASSUME NEW p, IsProc(p), NEW u, u = isd_unref(p)
  PROVE  /\ IsProc(u) /\ u.call = p.call /\ u.refs = p.refs - 1
         /\ Len(u.ends) = Len(p.ends) + (IF u.refs > 0 THEN 0 ELSE 1)
<1> DEFINE q == isd_ref(p, -1)
           list == IF q.err = "OK" THEN q.list ELSE <<>>
           o == Ended(q, q.err, list)
<1>1. IsProc(q) /\ q.call = p.call /\ q.refs = p.refs - 1 /\ q.ends = p.ends
  <2>1. p.refs + (-1) = p.refs - 1 BY DEF IsProc
  <2>2. -1 \in Int OBVIOUS
  <2> QED BY <2>1, <2>2, RefEffect
<1>2. u = IF q.refs > 0 THEN q ELSE o.p
  <2>1. q = [p EXCEPT !.refs = @ - 1] BY DEF isd_ref, IsProc
  <2> HIDE DEF q
  <2> QED BY <2>1 DEF isd_unref
<1>3. Len(q.ends) \in Nat BY <1>1, SeqLen DEF IsProc
<1> HIDE DEF q, list
<1>4. /\ IsProc(o.p) /\ o.p.call = q.call /\ o.p.refs = q.refs
      /\ Len(o.p.ends) = Len(q.ends) + 1
  <2>1. o = Ended(q, q.err, list) OBVIOUS
  <2> HIDE DEF o
  <2> QED BY <1>1, <2>1, EndsEffect
<1> HIDE DEF o
<1>5. CASE q.refs > 0
  <2>1. u = q BY <1>2, <1>5
  <2>2. Len(u.ends) = Len(p.ends) /\ Len(p.ends) \in Nat BY <1>1, <1>3, <2>1
  <2>3. Len(u.ends) = Len(p.ends) + 0 BY <2>2
  <2> QED BY <1>1, <1>5, <2>1, <2>3
<1>6. CASE ~ (q.refs > 0) BY <1>1, <1>2, <1>3, <1>4, <1>6
<1> QED BY <1>5, <1>6

\* A callback of an included service discovery: it takes references for the
\* requests it sends and drops its own at the end.
LEMMA UnrefGoes ==
  ASSUME NEW p, IsProc(p), p.call.kind = "included",
         NEW q, IsProc(q), q.call = p.call, q.ends = p.ends,
         NEW reqs, ReqsOk(reqs, "included"), q.refs = p.refs + Len(reqs), NEW first
  PROVE  Goes(p, Sends(isd_unref(q), reqs, first))
<1> DEFINE u == isd_unref(q)
           o == Sends(u, reqs, first)
<1>1. o.p = u /\ o.reqs = reqs BY DEF Sends
<1>2. /\ IsProc(u) /\ u.call = q.call /\ u.refs = q.refs - 1
      /\ Len(u.ends) = Len(q.ends) + (IF u.refs > 0 THEN 0 ELSE 1)
  <2>1. u = isd_unref(q) OBVIOUS
  <2> HIDE DEF u
  <2> QED BY <2>1, UnrefEffect
<1>3. Len(reqs) \in Nat BY SeqLen DEF ReqsOk
<1> HIDE DEF u, o
<1>4. u.refs = p.refs - 1 + Len(reqs) BY <1>2, <1>3 DEF IsProc
<1>5. Goes(p, o) BY <1>1, <1>2, <1>3, <1>4 DEF Goes
<1> QED BY <1>5 DEF o, u

\* Requests sent after one another.
LEMMA ReqsCat ==
  ASSUME NEW kind, NEW s, ReqsOk(s, kind), NEW t, ReqsOk(t, kind), NEW u, u = s \o t
  PROVE  ReqsOk(u, kind) /\ Len(u) = Len(s) + Len(t)
<1>1. /\ IsSeq(u) /\ Len(u) = Len(s) + Len(t) /\ DOMAIN u = 1..(Len(s) + Len(t))
      /\ \A i \in DOMAIN s : u[i] = s[i]
      /\ \A i \in DOMAIN t : u[Len(s) + i] = t[i]
  <2>1. IsSeq(s) /\ IsSeq(t) BY DEF ReqsOk
  <2>2. IsSeq(u) BY <2>1, CatSeq
  <2>3. Len(u) = Len(s) + Len(t) BY <2>1, CatSeq
  <2>4. DOMAIN u = 1..(Len(s) + Len(t)) BY <2>1, CatSeq
  <2>5. \A i \in DOMAIN s : u[i] = s[i] BY <2>1, CatSeq
  <2>6. \A i \in DOMAIN t : u[Len(s) + i] = t[i] BY <2>1, CatSeq
  <2> QED BY <2>2, <2>3, <2>4, <2>5, <2>6
<1>2. Len(s) \in Nat /\ Len(t) \in Nat /\ DOMAIN s = 1..Len(s) /\ DOMAIN t = 1..Len(t)
  BY SeqLen DEF ReqsOk
<1>3. ASSUME NEW k \in DOMAIN u PROVE CmdOk(u[k], kind)
  <2>1. CASE k <= Len(s)
    <3>1. k \in DOMAIN s BY <1>1, <1>2, <2>1
    <3> QED BY <1>1, <3>1 DEF ReqsOk
  <2>2. CASE ~ k <= Len(s)
    <3>1. k - Len(s) \in DOMAIN t /\ Len(s) + (k - Len(s)) = k BY <1>1, <1>2, <2>2
    <3>2. u[k] = t[k - Len(s)] BY <1>1, <3>1
    <3> QED BY <3>1, <3>2 DEF ReqsOk
  <2> QED BY <2>1, <2>2
<1> QED BY <1>1, <1>3 DEF ReqsOk

\* A request for the declarations from some handle on.
LEMMA FindEffect ==
  ASSUME NEW p, IsProc(p), NEW start, NEW o, o = find_included(p, start)
  PROVE  /\ IsProc(o.p) /\ o.p.call = p.call /\ o.p.ends = p.ends /\ o.p.refs = p.refs + 1
         /\ ReqsOk(o.reqs, "included") /\ Len(o.reqs) = 1
<1> DEFINE req == [op |-> "READ_BY_TYPE_REQ", type |-> "INCLUDE", start |-> start,
                   end |-> p.call.end]
           c == [cb |-> "find_included_cb", req |-> req]
           kind == "included"
<1>1. o.p = isd_ref(p, 1) /\ o.reqs = <<c>> BY DEF find_included, Asks, Sends
<1>2. c.cb = "find_included_cb" /\ c.req.op = "READ_BY_TYPE_REQ" /\ c.req.type = "INCLUDE" OBVIOUS
<1> HIDE DEF c
<1>3. CmdOk(c, kind) BY <1>2 DEF CmdOk, IncludedCbs
<1> HIDE DEF kind
<1>4. ReqsOk(o.reqs, kind) /\ Len(o.reqs) = 1 BY <1>1, <1>3, ReqsOne
<1> QED BY <1>1, <1>4, RefEffect DEF kind

\* The requests for the UUIDs of the services that were found.
LEMMA ResolveEffect ==
  ASSUME NEW p, IsProc(p), NEW incls, IsSeq(incls), NEW o, o = resolve_included_uuid(p, incls)
  PROVE  /\ IsProc(o.p) /\ o.p.call = p.call /\ o.p.ends = p.ends
         /\ o.p.refs = p.refs + Len(incls)
         /\ ReqsOk(o.reqs, "included") /\ Len(o.reqs) = Len(incls)
<1> DEFINE reqs == [k \in DOMAIN incls |-> resolve_request(incls[k])]
           n == Len(incls)
<1>1. o.p = isd_ref(p, n) /\ o.reqs = reqs BY DEF resolve_included_uuid, Sends
<1>2. n \in Nat /\ DOMAIN incls = 1..n BY SeqLen
<1>3. reqs = [k \in 1..n |-> reqs[k]] BY <1>2
<1>4. \A k \in DOMAIN reqs : CmdOk(reqs[k], "included")
  BY DEF CmdOk, IncludedCbs, resolve_request
<1> HIDE DEF reqs, n
<1>5. IsSeq(reqs) /\ Len(reqs) = n BY <1>2, <1>3, FcnSeq
<1>6. ReqsOk(reqs, "included") BY <1>4, <1>5 DEF ReqsOk
<1>7. /\ IsProc(o.p) /\ o.p.call = p.call /\ o.p.ends = p.ends /\ o.p.refs = p.refs + n
  BY <1>1, <1>2, RefEffect
<1> QED BY <1>1, <1>5, <1>6, <1>7 DEF n

\* The callbacks of an included service discovery.
LEMMA IncludedGoes ==
  ASSUME NEW p, IsProc(p), p.call.kind = "included", NEW c, c.cb \in IncludedCbs,
         NEW r, RspOk(c, r)
  PROVE  Goes(p, Callback(c, p, r))
<1> DEFINE o == Callback(c, p, r)
           none == <<>>
           F == FALSE
<1>1. ASSUME NEW q, Same(p, q) PROVE Goes(p, Sends(isd_unref(q), none, F))
  <2>1. ReqsOk(none, "included") /\ Len(none) = 0 BY ReqsNone
  <2>2. q.refs = p.refs + Len(none) BY <1>1, <2>1 DEF Same, IsProc
  <2> HIDE DEF none, F
  <2> QED BY <1>1, <2>1, <2>2, UnrefGoes DEF Same
<1>2. ASSUME NEW err PROVE Same(p, isd_err(p, err))
  <2>1. Same(p, p) /\ Same(p, [p EXCEPT !.err = err]) BY SameExcept DEF Same
  <2> QED BY <2>1 DEF isd_err
<1>3. CASE c.cb = "resolve_included_uuid_cb"
  <2> DEFINE e == Sends(isd_unref(isd_err(p, r.status)), none, F)
             q == [p EXCEPT !.list = Append(@, [c.req.included EXCEPT !.uuid = r.data])]
             a == Sends(isd_unref(q), none, F)
  <2>1. o \in {e, a} BY <1>3 DEF Callback, resolve_included_uuid_cb, Quiet
  <2>2. Same(p, q) BY SameExcept
  <2>3. Goes(p, e) BY <1>1, <1>2
  <2> HIDE DEF q
  <2>4. Goes(p, a) BY <1>1, <2>2
  <2> HIDE DEF o, e, a
  <2>5. Goes(p, o) BY <2>1, <2>3, <2>4
  <2> QED BY <2>5 DEF o
<1>4. CASE c.cb = "find_included_cb" /\ r.status # "OK"
  <2>1. o = Sends(isd_unref(isd_err(p, discovery_err(r.status))), none, F)
    BY <1>4 DEF Callback, find_included_cb, Quiet
  <2> HIDE DEF none, F
  <2>2. Goes(p, o) BY <1>1, <1>2, <2>1
  <2> QED BY <2>2 DEF o
<1>5. CASE c.cb = "find_included_cb" /\ r.status = "OK"
  <2> DEFINE last == Last(r.data).handle
             res == resolve_included_uuid(p, r.data)
             q == [p EXCEPT !.list = @ \o r.data]
             got == IF r.ulen = 16 THEN res ELSE Quiet(q)
             fnd == find_included(got.p, next_handle(last))
             more == IF last < p.call.end THEN fnd ELSE Quiet(got.p)
             reqs == got.reqs \o more.reqs
             m == more.p
  <2>1. o = Sends(isd_unref(m), reqs, F) BY <1>5 DEF Callback, find_included_cb
  <2>2. ReqsOk(none, "included") /\ Len(none) = 0 BY ReqsNone
  <2>3. /\ IsProc(got.p) /\ got.p.call = p.call /\ got.p.ends = p.ends
        /\ ReqsOk(got.reqs, "included") /\ got.p.refs = p.refs + Len(got.reqs)
    <3>1. CASE r.ulen = 16
      <4>1. IsSeq(r.data) BY <1>5 DEF RspOk
      <4>2. /\ IsProc(res.p) /\ res.p.call = p.call /\ res.p.ends = p.ends
            /\ res.p.refs = p.refs + Len(r.data)
            /\ ReqsOk(res.reqs, "included") /\ Len(res.reqs) = Len(r.data)
        <5>1. res = resolve_included_uuid(p, r.data) OBVIOUS
        <5> HIDE DEF res
        <5> QED BY <4>1, <5>1, ResolveEffect
      <4>3. got = res BY <3>1
      <4> HIDE DEF got, res
      <4> QED BY <4>2, <4>3
    <3>2. CASE r.ulen # 16
      <4>1. Same(p, q) BY SameExcept
      <4>2. got.p = q /\ got.reqs = none BY <3>2 DEF Quiet, Sends
      <4>3. p.refs \in Int BY DEF IsProc
      <4> HIDE DEF got, q, none
      <4> QED BY <2>2, <4>1, <4>2, <4>3 DEF Same
    <3> QED BY <3>1, <3>2
  <2>4. got.p.refs \in Int /\ p.refs \in Int /\ Len(got.reqs) \in Nat
    BY <2>3, SeqLen DEF IsProc, ReqsOk
  <2> HIDE DEF got
  <2>5. /\ IsProc(m) /\ m.call = p.call /\ m.ends = p.ends
        /\ ReqsOk(more.reqs, "included") /\ m.refs = got.p.refs + Len(more.reqs)
    <3>1. CASE last < p.call.end
      <4>1. more = fnd BY <3>1
      <4>2. /\ IsProc(fnd.p) /\ fnd.p.call = got.p.call /\ fnd.p.ends = got.p.ends
            /\ fnd.p.refs = got.p.refs + 1
            /\ ReqsOk(fnd.reqs, "included") /\ Len(fnd.reqs) = 1
        <5>1. fnd = find_included(got.p, next_handle(last)) OBVIOUS
        <5> HIDE DEF fnd
        <5> QED BY <2>3, <5>1, FindEffect
      <4> HIDE DEF more, fnd
      <4> QED BY <2>3, <4>1, <4>2
    <3>2. CASE ~ (last < p.call.end)
      <4>1. more.p = got.p /\ more.reqs = none BY <3>2 DEF Quiet, Sends
      <4> HIDE DEF more, none
      <4> QED BY <2>2, <2>3, <2>4, <4>1
    <3> QED BY <3>1, <3>2
  <2> HIDE DEF more, m, none, F
  <2>6. ReqsOk(reqs, "included") /\ Len(reqs) = Len(got.reqs) + Len(more.reqs)
    <3> DEFINE kind == "included"
               s == got.reqs
               t == more.reqs
    <3>1. reqs = s \o t OBVIOUS
    <3>2. ReqsOk(s, kind) /\ ReqsOk(t, kind) BY <2>3, <2>5
    <3> HIDE DEF reqs, kind, s, t
    <3>3. ReqsOk(reqs, kind) BY <3>1, <3>2, ReqsCat
    <3>4. Len(reqs) = Len(s) + Len(t) BY <3>1, <3>2, ReqsCat
    <3> QED BY <3>3, <3>4 DEF kind, s, t
  <2>7. Len(more.reqs) \in Nat BY <2>5, SeqLen DEF ReqsOk
  <2> HIDE DEF reqs
  <2>8. m.refs = p.refs + Len(reqs)
    <3> DEFINE a == Len(got.reqs)
               b == Len(more.reqs)
    <3>1. a \in Nat /\ b \in Nat /\ p.refs \in Int BY <2>4, <2>7
    <3>2. got.p.refs = p.refs + a /\ m.refs = got.p.refs + b /\ Len(reqs) = a + b
      BY <2>3, <2>5, <2>6
    <3> HIDE DEF a, b
    <3> QED BY <3>1, <3>2
  <2>9. Goes(p, Sends(isd_unref(m), reqs, F)) BY <2>5, <2>6, <2>8, UnrefGoes
  <2> HIDE DEF o
  <2>10. Goes(p, o) BY <2>1, <2>9
  <2> QED BY <2>10 DEF o
<1> HIDE DEF o
<1>6. Goes(p, o) BY <1>3, <1>4, <1>5 DEF IncludedCbs, o
<1> QED BY <1>6 DEF o

\* Every callback.
LEMMA CallbackGoes ==
  ASSUME NEW p, IsProc(p), NEW c, CmdOk(c, p.call.kind), NEW r, RspOk(c, r)
  PROVE  Goes(p, Callback(c, p, r))
<1>1. CASE p.call.kind = "included" BY <1>1, IncludedGoes DEF CmdOk
<1>2. CASE p.call.kind = "write_cmd"
  <2> DEFINE o == Callback(c, p, r)
  <2>1. o = Quiet(p) BY <1>2 DEF CmdOk, Callback
  <2>2. o.p = p /\ o.reqs = <<>> BY <2>1 DEF Quiet, Sends
  <2>3. ReqsOk(o.reqs, p.call.kind) BY <2>2, ReqsNone
  <2> HIDE DEF o
  <2>4. Goes(p, o) BY <1>2, <2>2, <2>3 DEF Goes
  <2> QED BY <2>4 DEF o
<1>3. CASE p.call.kind \notin {"included", "write_cmd"} BY <1>3, PlainGoes DEF CmdOk
<1> QED BY <1>1, <1>2, <1>3

\* No callback sends when it gets an error (disconnect_timeout relies on it:
\* what it would send were refused).
LEMMA ErrorSendsNothing ==
  ASSUME NEW p, NEW c, NEW kind, CmdOk(c, kind), NEW r, r.status # "OK"
  PROVE  Callback(c, p, r).reqs = <<>>
<1>1. ASSUME NEW q PROVE Quiet(q).reqs = <<>> BY DEF Quiet, Sends
<1>2. ASSUME NEW q, NEW status, NEW list PROVE Ended(q, status, list).reqs = <<>>
  BY <1>1 DEF Ended
<1>3. CASE c.cb \in {"primary_by_uuid_cb", "primary_all_cb"}
  <2>1. Callback(c, p, r) = Ended(p, discovery_err(r.status), p.list)
    BY <1>3 DEF Callback, primary_cb
  <2> QED BY <1>2, <2>1
<1>4. CASE c.cb = "find_included_cb"
  <2>1. Callback(c, p, r) = Quiet(isd_unref(isd_err(p, discovery_err(r.status))))
    BY <1>4 DEF Callback, find_included_cb
  <2> QED BY <1>1, <2>1
<1>5. CASE c.cb = "resolve_included_uuid_cb"
  <2>1. Callback(c, p, r) = Quiet(isd_unref(isd_err(p, r.status)))
    BY <1>5 DEF Callback, resolve_included_uuid_cb
  <2> QED BY <1>1, <2>1
<1>6. CASE c.cb = "char_discovered_cb"
  <2>1. Callback(c, p, r) = Ended(p, IF p.list # <<>> THEN "OK" ELSE r.status, p.list)
    BY <1>6 DEF Callback, char_discovered_cb, discover_char_ended
  <2> QED BY <1>2, <2>1
<1>7. CASE c.cb \in {"read_char_helper", "prepare_write_cb", "func", "exchange_mtu_cb"}
  <2>1. Callback(c, p, r) = Ended(p, r.status, <<>>)
    BY <1>7 DEF Callback, read_char_helper, prepare_write_cb
  <2> QED BY <1>2, <2>1
<1>8. CASE c.cb = "read_blob_helper"
  <2>1. Callback(c, p, r) = Ended(p, "OK", p.list) BY <1>8 DEF Callback, read_blob_helper
  <2> QED BY <1>2, <2>1
<1>9. CASE c.cb = "none"
  <2>1. Callback(c, p, r) = Quiet(p) BY <1>9 DEF Callback
  <2> QED BY <1>1, <2>1
<1>10. c.cb \in IncludedCbs \cup PlainCbs \cup {"none"} BY DEF CmdOk
<1> QED BY <1>3, <1>4, <1>5, <1>6, <1>7, <1>8, <1>9, <1>10 DEF IncludedCbs, PlainCbs

\* A procedure starts with one request.
Starts(p, o) ==
  /\ IsProc(o.p) /\ o.p.call = p.call /\ o.p.ends = p.ends
  /\ ReqsOk(o.reqs, p.call.kind) /\ Len(o.reqs) = 1
  /\ p.call.kind = "included" => o.p.refs = p.refs + 1

\* A procedure that asks with one of its commands has started.
LEMMA AsksStarts ==
  ASSUME NEW p, IsProc(p), p.call.kind # "included", NEW cb, NEW req,
         NEW c, c = [cb |-> cb, req |-> req], CmdOk(c, p.call.kind)
  PROVE  Starts(p, Asks(p, cb, req))
<1> DEFINE o == Asks(p, cb, req)
<1>1. o.p = p /\ o.reqs = <<c>> BY DEF Asks, Sends
<1>2. ReqsOk(o.reqs, p.call.kind) /\ Len(o.reqs) = 1 BY <1>1, ReqsOne
<1> HIDE DEF o
<1>3. Starts(p, o) BY <1>1, <1>2 DEF Starts
<1> QED BY <1>3 DEF o

\* Every call does.
LEMMA StartStarts ==
  ASSUME NEW p, IsProc(p)
  PROVE  Starts(p, Start(p))
<1>1. CASE p.call.kind = "included"
  <2> DEFINE o == find_included(p, p.call.start)
  <2>1. Start(p) = o BY <1>1 DEF Start, gatt_find_included
  <2> HIDE DEF o
  <2>2. /\ IsProc(o.p) /\ o.p.call = p.call /\ o.p.ends = p.ends /\ o.p.refs = p.refs + 1
        /\ ReqsOk(o.reqs, "included") /\ Len(o.reqs) = 1
    <3>1. o = find_included(p, p.call.start) BY DEF o
    <3> QED BY <3>1, FindEffect
  <2>3. Starts(p, o) BY <1>1, <2>2 DEF Starts
  <2> QED BY <2>1, <2>3
<1>2. CASE p.call.kind # "included"
  <2>1. \E cb, req : /\ Start(p) = Asks(p, cb, req)
                     /\ p.call.kind # "write_cmd" => cb \in PlainCbs /\ req.op # "WRITE_CMD"
                     /\ p.call.kind = "write_cmd" => cb = "none"
    <3>1. CASE p.call.kind = "primary"
      BY <3>1 DEF Start, gatt_discover_primary, discover_primary_cb, encode_discover_primary,
                      PlainCbs
    <3>2. CASE p.call.kind = "chars" BY <3>2 DEF Start, gatt_discover_char, discover_char_req, PlainCbs
    <3>3. CASE p.call.kind = "read" BY <3>3 DEF Start, gatt_read_char, PlainCbs
    <3>4. CASE p.call.kind = "write"
      BY <3>4 DEF Start, gatt_write_char, prepare_write, PlainCbs
    <3>5. CASE p.call.kind = "mtu" BY <3>5 DEF Start, gatt_exchange_mtu, PlainCbs
    <3>6. CASE p.call.kind = "desc" BY <3>6 DEF Start, gatt_discover_char_desc, PlainCbs
    <3>7. CASE p.call.kind = "by_uuid" BY <3>7 DEF Start, gatt_read_char_by_uuid, PlainCbs
    <3>8. CASE p.call.kind = "write_cmd" BY <3>8 DEF Start, gatt_write_cmd
    <3> QED BY <1>2, <3>1, <3>2, <3>3, <3>4, <3>5, <3>6, <3>7, <3>8 DEF IsProc, Kinds
  <2>2. PICK cb, req : /\ Start(p) = Asks(p, cb, req)
                       /\ p.call.kind # "write_cmd" => cb \in PlainCbs /\ req.op # "WRITE_CMD"
                       /\ p.call.kind = "write_cmd" => cb = "none"
    BY <2>1
  <2> DEFINE c == [cb |-> cb, req |-> req]
  <2>3. c.cb = cb /\ c.req = req /\ c = [cb |-> cb, req |-> req] OBVIOUS
  <2> HIDE DEF c
  <2>4. CmdOk(c, p.call.kind) BY <1>2, <2>2, <2>3 DEF CmdOk, PlainCbs
  <2>5. Starts(p, Asks(p, cb, req)) BY <1>2, <2>3, <2>4, AsksStarts
  <2> QED BY <2>2, <2>5
<1> QED BY <1>1, <1>2

\* s are n commands of procedure i.
CommandsOf(s, i, kind, n) ==
  /\ IsSeq(s) /\ Len(s) = n
  /\ \A k \in DOMAIN s : s[k].proc = i /\ CmdOk(s[k], kind)
  /\ \A j : Count(s, j) = IF j = i THEN n ELSE 0

\* The commands of procedure i for the requests of o.
LEMMA CommandsEffect ==
  ASSUME NEW kind, NEW o, ReqsOk(o.reqs, kind), NEW i
  PROVE  CommandsOf(Commands(i, o), i, kind, Len(o.reqs))
<1> DEFINE n == Len(o.reqs)
           s == Commands(i, o)
<1>1. n \in Nat /\ DOMAIN o.reqs = 1..n BY SeqLen DEF ReqsOk
<1>2. s = [k \in 1..n |-> [proc |-> i, cb |-> o.reqs[k].cb, req |-> o.reqs[k].req]]
  BY <1>1 DEF Commands
<1>3. s = [k \in 1..n |-> s[k]]
  <2> HIDE DEF s, n
  <2> QED BY <1>2
<1> HIDE DEF s
<1>4. \A k \in 1..n : s[k].proc = i /\ s[k].cb = o.reqs[k].cb /\ s[k].req = o.reqs[k].req
  BY <1>2
<1>5. IsSeq(s) /\ Len(s) = n
  <2> HIDE DEF n
  <2> QED BY <1>1, <1>3, FcnSeq
<1>6. DOMAIN s = 1..n BY <1>3
<1>7. \A k \in DOMAIN s : s[k].proc = i /\ CmdOk(s[k], kind)
  BY <1>1, <1>4, <1>6 DEF ReqsOk, CmdOk
<1>8. At(s, i) = 1..n BY <1>4, <1>6 DEF At
<1>9. Cardinality(1..n) = n
  <2>1. Cardinality(1..n) = n - 1 + 1 \/ n = 0
    <3> HIDE DEF n
    <3> QED BY <1>1, FS_Interval
  <2>2. n = 0 => 1..n = {} OBVIOUS
  <2> QED BY <1>1, <2>1, <2>2, FS_EmptySet
<1>10. Count(s, i) = n BY <1>8, <1>9 DEF Count
<1>11. ASSUME NEW j, j # i PROVE Count(s, j) = 0
  <2>1. At(s, j) = {} BY <1>4, <1>6, <1>11 DEF At
  <2> QED BY <2>1, FS_EmptySet DEF Count
<1>12. CommandsOf(s, i, kind, n) BY <1>5, <1>7, <1>10, <1>11 DEF CommandsOf
<1> QED BY <1>12 DEF s

-----------------------------------------------------------------------------
(***************************************************************************)
(* The invariant.  An included service discovery holds a reference for     *)
(* each of its commands in the queue; any other procedure has one command  *)
(* there or has called its user.                                           *)
(***************************************************************************)
Balanced(p, n) ==
  /\ p.call.kind = "included" => p.refs = n /\ Len(p.ends) = IF n = 0 THEN 1 ELSE 0
  /\ p.call.kind \notin {"included", "write_cmd"} => n + Len(p.ends) = 1

QueueOk(ps, q) ==
  /\ IsSeq(ps) /\ IsSeq(q)
  /\ \A i \in DOMAIN ps : IsProc(ps[i]) /\ Balanced(ps[i], Count(q, i))
  /\ \A k \in DOMAIN q : q[k].proc \in DOMAIN ps /\ CmdOk(q[k], ps[q[k].proc].call.kind)

GInv ==
  /\ QueueOk(procs, queue)
  /\ rsp # NoRsp => queue # <<>> /\ RspOk(queue[1], rsp)

\* The commands of q2 are those of q and those of s.
Joins(q2, q, s) ==
  /\ IsSeq(q2)
  /\ \A k \in DOMAIN q2 : (\E j \in DOMAIN q : q2[k] = q[j]) \/ (\E j \in DOMAIN s : q2[k] = s[j])
  /\ \A i : Count(q2, i) = Count(q, i) + Count(s, i)

\* Either way of queueing joins them.
LEMMA CatJoins ==
  ASSUME NEW s, IsSeq(s), NEW t, IsSeq(t), NEW u, u = s \o t
  PROVE  Joins(u, s, t) /\ Joins(u, t, s)
<1>1. IsSeq(u) BY CatSeq
<1>2. DOMAIN u = 1..(Len(s) + Len(t)) BY CatSeq
<1>3. \A i \in DOMAIN s : u[i] = s[i] BY CatSeq
<1>4. \A i \in DOMAIN t : u[Len(s) + i] = t[i] BY CatSeq
<1>5. Len(s) \in Nat /\ Len(t) \in Nat /\ DOMAIN s = 1..Len(s) /\ DOMAIN t = 1..Len(t) BY SeqLen
<1>6. ASSUME NEW k \in DOMAIN u
      PROVE  (\E j \in DOMAIN s : u[k] = s[j]) \/ (\E j \in DOMAIN t : u[k] = t[j])
  <2>1. CASE k <= Len(s)
    <3>1. k \in DOMAIN s BY <1>2, <1>5, <2>1
    <3> QED BY <1>3, <3>1
  <2>2. CASE ~ k <= Len(s)
    <3>1. k - Len(s) \in DOMAIN t /\ Len(s) + (k - Len(s)) = k BY <1>2, <1>5, <2>2
    <3>2. u[k] = t[k - Len(s)] BY <1>4, <3>1
    <3> QED BY <3>1, <3>2
  <2> QED BY <2>1, <2>2
<1>7. ASSUME NEW i PROVE Count(u, i) = Count(s, i) + Count(t, i) /\ Count(s, i) \in Nat /\ Count(t, i) \in Nat
  BY CountCat, AtFinite
<1>8. ASSUME NEW i PROVE Count(u, i) = Count(t, i) + Count(s, i) BY <1>7
<1> QED BY <1>1, <1>6, <1>7, <1>8 DEF Joins

\* A callback of the first command keeps the balance.
LEMMA GoesBalanced ==
  ASSUME NEW p, IsProc(p), NEW n \in Nat, Balanced(p, n), n > 0, NEW o, Goes(p, o)
  PROVE  Balanced(o.p, n - 1 + Len(o.reqs))
<1>1. Len(p.ends) \in Nat /\ Len(o.reqs) \in Nat BY SeqLen DEF IsProc, Goes, ReqsOk
<1>2. CASE p.call.kind = "included"
  <2> DEFINE m == n - 1 + Len(o.reqs)
  <2>1. p.refs = n /\ Len(p.ends) = 0 BY <1>2 DEF Balanced
  <2>2. o.p.refs = m /\ Len(o.p.ends) = Len(p.ends) + (IF o.p.refs > 0 THEN 0 ELSE 1)
        /\ o.p.call = p.call
    BY <1>2, <2>1 DEF Goes
  <2>3. m \in Nat BY <1>1
  <2> HIDE DEF m
  <2>4. Len(o.p.ends) = IF m = 0 THEN 1 ELSE 0 BY <2>1, <2>2, <2>3
  <2>5. Balanced(o.p, m) BY <1>2, <2>2, <2>4 DEF Balanced
  <2> QED BY <2>5 DEF m
<1>3. CASE p.call.kind = "write_cmd" BY <1>3 DEF Balanced, Goes
<1>4. CASE p.call.kind \notin {"included", "write_cmd"}
  <2> DEFINE m == n - 1 + Len(o.reqs)
  <2>1. n = 1 /\ Len(p.ends) = 0 BY <1>1, <1>4 DEF Balanced
  <2>2. /\ o.p.call = p.call
        /\ \/ Len(o.reqs) = 0 /\ Len(o.p.ends) = Len(p.ends) + 1
           \/ Len(o.reqs) = 1 /\ o.p.ends = p.ends
    BY <1>4 DEF Goes
  <2>3. m = Len(o.reqs) BY <1>1, <2>1
  <2>4. m + Len(o.p.ends) = 1
    <3>1. CASE Len(o.reqs) = 0 /\ Len(o.p.ends) = Len(p.ends) + 1
      <4>1. m = 0 /\ Len(o.p.ends) = 1 BY <2>1, <2>3, <3>1
      <4> QED BY <4>1
    <3>2. CASE Len(o.reqs) = 1 /\ o.p.ends = p.ends
      <4>1. m = 1 /\ Len(o.p.ends) = 0 BY <2>1, <2>3, <3>2
      <4> QED BY <4>1
    <3> QED BY <2>2, <3>1, <3>2
  <2> HIDE DEF m
  <2>5. Balanced(o.p, m) BY <1>4, <2>2, <2>4 DEF Balanced
  <2> QED BY <2>5 DEF m
<1> QED BY <1>2, <1>3, <1>4

\* The callback of the first command of q, which gives o: the procedure of the
\* command is replaced, and what it sends joins the rest of q.
LEMMA CallbackStep ==
  ASSUME NEW ps, NEW q, QueueOk(ps, q), q # <<>>, NEW i, i = q[1].proc,
         NEW o, Goes(ps[i], o), NEW s, s = Commands(i, o),
         NEW q2, Joins(q2, Tail(q), s),
         NEW ps2, ps2 = [ps EXCEPT ![i] = o.p]
  PROVE  QueueOk(ps2, q2)
<1> DEFINE t == Tail(q)
           kind == ps[i].call.kind
<1>1. IsSeq(ps) /\ IsSeq(q) /\ Len(ps) \in Nat /\ DOMAIN ps = 1..Len(ps) BY SeqLen DEF QueueOk
<1>2. /\ IsSeq(t) /\ Len(q) \in Nat /\ Len(q) >= 1
      /\ DOMAIN t = 1..(Len(q) - 1) /\ DOMAIN q = 1..Len(q)
      /\ \A k \in 1..(Len(q) - 1) : t[k] = q[k + 1]
  BY <1>1, TailSeq, SeqLen
<1>3. i \in DOMAIN ps BY <1>2 DEF QueueOk
<1>4. DOMAIN ps2 = DOMAIN ps /\ ps2[i] = o.p /\ \A j \in DOMAIN ps : j # i => ps2[j] = ps[j]
  BY <1>3
<1>5. IsSeq(ps2)
  <2>1. ps2 = [j \in 1..Len(ps) |-> ps2[j]] BY <1>1, <1>4
  <2> QED BY <1>1, <2>1, FcnSeq
<1>6. /\ IsSeq(s) /\ Len(s) = Len(o.reqs)
      /\ \A k \in DOMAIN s : s[k].proc = i /\ CmdOk(s[k], kind)
      /\ \A j : Count(s, j) = IF j = i THEN Len(o.reqs) ELSE 0
  <2>1. ReqsOk(o.reqs, kind) BY DEF Goes
  <2> HIDE DEF kind
  <2>2. CommandsOf(s, i, kind, Len(o.reqs)) BY <2>1, CommandsEffect
  <2> QED BY <2>2 DEF CommandsOf
<1>7. Len(o.reqs) \in Nat BY <1>6, SeqLen
<1>8. ASSUME NEW j \in DOMAIN ps PROVE IsProc(ps2[j]) /\ ps2[j].call = ps[j].call
  <2>1. CASE j = i BY <1>4, <2>1 DEF Goes
  <2>2. CASE j # i BY <1>4, <2>2 DEF QueueOk
  <2> QED BY <2>1, <2>2
<1> HIDE DEF t
<1>9. ASSUME NEW j
      PROVE  /\ Count(q, j) \in Nat /\ Count(t, j) \in Nat
             /\ Count(q, j) = Count(t, j) + (IF i = j THEN 1 ELSE 0)
             /\ Count(q2, j) = Count(t, j) + Count(s, j)
  <2>1. Count(q, j) \in Nat /\ Count(t, j) \in Nat BY <1>1, <1>2, AtFinite
  <2>2. Count(q, j) = Count(t, j) + (IF i = j THEN 1 ELSE 0) BY <1>1, CountTail DEF t
  <2>3. Count(q2, j) = Count(t, j) + Count(s, j) BY DEF Joins, t
  <2> QED BY <2>1, <2>2, <2>3
<1>10. ASSUME NEW j \in DOMAIN ps PROVE Balanced(ps2[j], Count(q2, j))
  <2>1. CASE j = i
    <3>1. Count(q2, i) = Count(q, i) - 1 + Len(o.reqs) /\ Count(q, i) > 0
      BY <1>6, <1>7, <1>9
    <3>2. IsProc(ps[i]) /\ Balanced(ps[i], Count(q, i)) BY <1>3 DEF QueueOk
    <3>3. Balanced(o.p, Count(q, i) - 1 + Len(o.reqs)) BY <1>9, <3>1, <3>2, GoesBalanced
    <3> QED BY <1>4, <2>1, <3>1, <3>3
  <2>2. CASE j # i
    <3>1. Count(q2, j) = Count(q, j) BY <1>6, <1>9, <2>2
    <3> QED BY <1>4, <2>2, <3>1 DEF QueueOk
  <2> QED BY <2>1, <2>2
<1>11. ASSUME NEW k \in DOMAIN q2
       PROVE  q2[k].proc \in DOMAIN ps2 /\ CmdOk(q2[k], ps2[q2[k].proc].call.kind)
  <2>1. \/ \E j \in DOMAIN t : q2[k] = t[j]
        \/ \E j \in DOMAIN s : q2[k] = s[j]
    BY DEF Joins, t
  <2>2. CASE \E j \in DOMAIN t : q2[k] = t[j]
    <3>1. PICK j \in DOMAIN t : q2[k] = t[j] BY <2>2
    <3>2. j + 1 \in DOMAIN q /\ q2[k] = q[j + 1] BY <1>2, <3>1
    <3> DEFINE x == q2[k]
    <3>3. x.proc \in DOMAIN ps /\ CmdOk(x, ps[x.proc].call.kind) BY <3>2 DEF QueueOk
    <3> QED BY <1>4, <1>8, <3>3
  <2>3. CASE \E j \in DOMAIN s : q2[k] = s[j]
    <3>1. q2[k].proc = i /\ CmdOk(q2[k], kind) BY <1>6, <2>3
    <3> QED BY <1>3, <1>4, <1>8, <3>1
  <2> QED BY <2>1, <2>2, <2>3
<1>12. IsSeq(q2) BY DEF Joins
<1> QED BY <1>4, <1>5, <1>8, <1>10, <1>11, <1>12 DEF QueueOk

\* The callback of a command that fails, which sends nothing.
LEMMA FailedStep ==
  ASSUME NEW ps, NEW q, QueueOk(ps, q), q # <<>>, NEW status, status # "OK"
  PROVE  QueueOk(Failed(ps, q[1], status), Tail(q))
<1> DEFINE c == q[1]
           i == c.proc
           p == ps[i]
           r == Error(status)
           o == Callback(c, p, r)
           p2 == [o.p EXCEPT !.fault = TRUE]
           none == <<>>
           o2 == Sends(p2, none, FALSE)
           t == Tail(q)
           ps2 == [ps EXCEPT ![i] = o2.p]
<1>1. IsSeq(q) /\ IsSeq(t) /\ 1 \in DOMAIN q
  <2>1. IsSeq(q) BY DEF QueueOk
  <2>2. Len(q) \in Nat /\ Len(q) >= 1 /\ IsSeq(t) BY <2>1, TailSeq
  <2>3. DOMAIN q = 1..Len(q) BY <2>1, SeqLen
  <2> QED BY <2>1, <2>2, <2>3
<1>2. i \in DOMAIN ps /\ CmdOk(c, p.call.kind) /\ IsProc(p) BY <1>1 DEF QueueOk
<1>3. r.status = status BY DEF Error
<1>4. Failed(ps, c, status) = ps2
  <2>1. o2.p = p2 BY DEF Sends
  <2>2. Failed(ps, c, status) = [ps EXCEPT ![i] = p2] BY <1>2 DEF Failed
  <2> HIDE DEF p2, o2
  <2> QED BY <2>1, <2>2
<1>5. o2.p = p2 /\ o2.reqs = none BY DEF Sends
<1> HIDE DEF c, i, p, r, t
<1>6. Goes(p, o) /\ o.reqs = none
  <2>1. RspOk(c, r) BY <1>3 DEF RspOk
  <2>2. Goes(p, o) BY <1>2, <2>1, CallbackGoes
  <2> DEFINE kind == p.call.kind
  <2>3. CmdOk(c, kind) BY <1>2
  <2> HIDE DEF kind
  <2>4. Callback(c, p, r).reqs = <<>> BY <1>3, <2>3, ErrorSendsNothing
  <2> QED BY <2>2, <2>4
<1> HIDE DEF o
<1>7. Same(o.p, p2)
  <2>1. IsProc(o.p) BY <1>6 DEF Goes
  <2> QED BY <2>1, SameExcept
<1> HIDE DEF p2, o2, none
<1>8. Goes(p, o2) BY <1>5, <1>6, <1>7 DEF Goes, Same
<1> DEFINE s == Commands(i, o2)
           kind == p.call.kind
<1>9. CommandsOf(s, i, kind, 0)
  <2>1. ReqsOk(o2.reqs, kind) BY <1>8 DEF Goes
  <2>2. Len(o2.reqs) = 0 BY <1>5, ReqsNone DEF none
  <2> HIDE DEF kind
  <2>3. CommandsOf(Commands(i, o2), i, kind, Len(o2.reqs)) BY <2>1, CommandsEffect
  <2> QED BY <2>2, <2>3
<1> HIDE DEF s, kind
<1>10. Joins(t, t, s)
  <2>1. ASSUME NEW j PROVE Count(t, j) = Count(t, j) + Count(s, j)
    <3>1. Count(t, j) \in Nat BY <1>1, AtFinite
    <3>2. Count(s, j) = 0 BY <1>9 DEF CommandsOf
    <3> QED BY <3>1, <3>2
  <2> QED BY <1>1, <2>1 DEF Joins
<1>11. QueueOk(ps2, t)
  <2>1. i = q[1].proc BY DEF i, c
  <2>2. s = Commands(i, o2) BY DEF s
  <2>3. Joins(t, Tail(q), s) BY <1>10 DEF t
  <2>4. Goes(ps[i], o2) BY <1>8 DEF p
  <2>5. ps2 = [ps EXCEPT ![i] = o2.p] OBVIOUS
  <2> HIDE DEF ps2
  <2> QED BY <2>1, <2>2, <2>3, <2>4, <2>5, CallbackStep
<1> HIDE DEF ps2
<1> QED BY <1>4, <1>11 DEF c, t

\* What the loop of disconnect_timeout has made of the procedures after each of
\* the first n commands.
FailStatus(k) == IF k = 1 THEN "TIMEOUT" ELSE "ABORTED"
IsAfter(g, n, ps, q) ==
  g = [k \in 0..n |-> IF k = 0 THEN ps ELSE Failed(g[k - 1], q[k], FailStatus(k))]

\* The recursive definition has a solution.
LEMMA AfterExists ==
  ASSUME NEW ps, NEW q, NEW n \in Nat
  PROVE  \E g : IsAfter(g, n, ps, q)
<1> DEFINE T == {m \in Nat : ~ \E g : IsAfter(g, m, ps, q)}
<1>1. SUFFICES ASSUME T # {} PROVE FALSE
  OBVIOUS
<1>2. PICK m \in T : \A k \in T : m <= k
  <2>1. T \in SUBSET Nat OBVIOUS
  <2> HIDE DEF T
  <2> QED BY <1>1, <2>1, LeastNat
<1>3. CASE m = 0
  <2> DEFINE g == [k \in 0..0 |-> ps]
  <2>1. IsAfter(g, 0, ps, q) BY DEF IsAfter
  <2> HIDE DEF g
  <2> QED BY <1>3, <2>1
<1>4. CASE m # 0
  <2>1. m \in Nat /\ m - 1 \in Nat /\ ~ (m <= m - 1) BY <1>4
  <2>2. m - 1 \notin T BY <1>2, <2>1
  <2>3. PICK h : IsAfter(h, m - 1, ps, q) BY <2>1, <2>2
  <2> DEFINE g == [k \in 0..m |-> IF k = m THEN Failed(h[m - 1], q[m], FailStatus(m)) ELSE h[k]]
  <2>4. ASSUME NEW k \in 0..m
        PROVE  g[k] = IF k = 0 THEN ps ELSE Failed(g[k - 1], q[k], FailStatus(k))
    <3>1. CASE k = m
      <4>1. g[m - 1] = h[m - 1] /\ g[m] = Failed(h[m - 1], q[m], FailStatus(m)) BY <2>1
      <4> HIDE DEF g
      <4> QED BY <1>4, <3>1, <4>1
    <3>2. CASE k # m
      <4>1. k \in 0..(m - 1) /\ g[k] = h[k] /\ (k # 0 => g[k - 1] = h[k - 1]) BY <2>1, <3>2
      <4>2. h[k] = IF k = 0 THEN ps ELSE Failed(h[k - 1], q[k], FailStatus(k))
        <5> DEFINE f == [j \in 0..(m - 1) |-> IF j = 0 THEN ps
                                              ELSE Failed(h[j - 1], q[j], FailStatus(j))]
        <5>1. h = f BY <2>3 DEF IsAfter
        <5>2. f[k] = IF k = 0 THEN ps ELSE Failed(h[k - 1], q[k], FailStatus(k)) BY <4>1
        <5> QED BY <5>1, <5>2
      <4> HIDE DEF g
      <4> QED BY <4>1, <4>2
    <3> QED BY <3>1, <3>2
  <2>5. IsAfter(g, m, ps, q)
    <3> DEFINE f == [k \in 0..m |-> IF k = 0 THEN ps ELSE Failed(g[k - 1], q[k], FailStatus(k))]
    <3>1. g = f
      <4>1. DOMAIN g = 0..m /\ DOMAIN f = 0..m OBVIOUS
      <4>2. g = [k \in 0..m |-> g[k]] OBVIOUS
      <4>3. \A k \in 0..m : g[k] = f[k] BY <2>4
      <4> HIDE DEF g
      <4> QED BY <4>2, <4>3
    <3> QED BY <3>1 DEF IsAfter
  <2> HIDE DEF g
  <2> QED BY <2>1, <2>5
<1> QED BY <1>3, <1>4

\* And AllFailed is one.
LEMMA AllFailedRun ==
  ASSUME NEW ps, NEW q, Len(q) \in Nat
  PROVE  IsAfter(AllFailed(ps, q), Len(q), ps, q)
<1>1. PICK g : IsAfter(g, Len(q), ps, q) BY AfterExists
<1>2. AllFailed(ps, q) = CHOOSE s : IsAfter(s, Len(q), ps, q)
  BY DEF AllFailed, IsAfter, FailStatus
<1> QED BY <1>1, <1>2

\* What is left of q behind its first k commands.
Rest(q, k) == [j \in 1..(Len(q) - k) |-> q[j + k]]

\* One command less.
LEMMA RestTail ==
  ASSUME NEW q, IsSeq(q), NEW k \in Nat, k < Len(q)
  PROVE  /\ IsSeq(Rest(q, k)) /\ Rest(q, k) # <<>> /\ Rest(q, k)[1] = q[k + 1]
         /\ Tail(Rest(q, k)) = Rest(q, k + 1)
<1> DEFINE s == Rest(q, k)
           t == Rest(q, k + 1)
           n == Len(q) - k
<1>1. Len(q) \in Nat BY SeqLen
<1>2. n \in Nat /\ n >= 1 BY <1>1
<1>3. /\ s = [j \in 1..n |-> s[j]] /\ \A j \in 1..n : s[j] = q[j + k]
  BY DEF Rest
<1>4. /\ t = [j \in 1..(n - 1) |-> t[j]] /\ \A j \in 1..(n - 1) : t[j] = q[j + (k + 1)]
  <2>1. Len(q) - (k + 1) = n - 1 BY <1>1
  <2> QED BY <2>1 DEF Rest
<1> HIDE DEF s, t, n
<1>5. IsSeq(s) /\ Len(s) = n BY <1>2, <1>3, FcnSeq
<1>6. s # <<>> BY <1>2, <1>5, SeqLen
<1>7. /\ IsSeq(Tail(s)) /\ DOMAIN Tail(s) = 1..(n - 1)
      /\ \A j \in 1..(n - 1) : Tail(s)[j] = s[j + 1]
  BY <1>5, <1>6, TailSeq
<1>8. ASSUME NEW j \in 1..(n - 1) PROVE Tail(s)[j] = t[j]
  <2>1. j + 1 \in 1..n /\ (j + 1) + k = j + (k + 1) BY <1>2
  <2> QED BY <1>3, <1>4, <1>7, <2>1
<1>9. Tail(s) = t
  <2> DEFINE u == Tail(s)
  <2>1. Len(u) = n - 1 /\ DOMAIN u = 1..(n - 1) BY <1>2, <1>5, <1>6, <1>7, TailSeq
  <2>2. u = [j \in 1..(n - 1) |-> u[j]]
    <3>1. u \in Seq({u[j] : j \in DOMAIN u}) BY <1>7 DEF IsSeq
    <3> DEFINE S == {u[j] : j \in DOMAIN u}
    <3> HIDE DEF S, u
    <3>2. u \in Seq(S) BY <3>1 DEF S
    <3> QED BY <2>1, <3>2
  <2>3. \A j \in 1..(n - 1) : u[j] = t[j] BY <1>8
  <2> HIDE DEF u
  <2>4. u = t BY <1>4, <2>2, <2>3
  <2> QED BY <2>4 DEF u
<1>10. s[1] = q[k + 1]
  <2>1. 1 \in 1..n /\ 1 + k = k + 1 BY <1>2
  <2> QED BY <1>3, <2>1
<1> QED BY <1>5, <1>6, <1>9, <1>10 DEF s, t

\* disconnect_timeout fails them one after the other: nothing is left, and the
\* balance holds without a queue.
LEMMA AllFailedOk ==
  ASSUME NEW ps, NEW q, QueueOk(ps, q)
  PROVE  QueueOk(AllFailed(ps, q)[Len(q)], <<>>)
<1> DEFINE g == AllFailed(ps, q)
           n == Len(q)
<1>1. IsSeq(q) /\ n \in Nat BY SeqLen DEF QueueOk
<1>2. IsAfter(g, n, ps, q) BY <1>1, AllFailedRun
<1> HIDE DEF g
<1>3. \A k \in 0..n : g[k] = IF k = 0 THEN ps ELSE Failed(g[k - 1], q[k], FailStatus(k))
  <2> DEFINE f == [k \in 0..n |-> IF k = 0 THEN ps ELSE Failed(g[k - 1], q[k], FailStatus(k))]
  <2>1. g = f BY <1>2 DEF IsAfter
  <2>2. \A k \in 0..n : f[k] = IF k = 0 THEN ps ELSE Failed(g[k - 1], q[k], FailStatus(k)) OBVIOUS
  <2> HIDE DEF f
  <2> QED BY <2>1, <2>2
<1> DEFINE T == {k \in 0..n : ~ QueueOk(g[k], Rest(q, k))}
<1>4. T = {}
  <2>1. SUFFICES ASSUME T # {} PROVE FALSE OBVIOUS
  <2>2. PICK m \in T : \A k \in T : m <= k
    <3>1. T \in SUBSET Nat BY <1>1
    <3> HIDE DEF T
    <3> QED BY <2>1, <3>1, LeastNat
  <2>3. m \in 0..n /\ ~ QueueOk(g[m], Rest(q, m)) OBVIOUS
  <2>4. CASE m = 0
    <3>1. Rest(q, 0) = q
      <4>1. q = [j \in 1..n |-> q[j]]
        <5>1. q \in Seq({q[j] : j \in DOMAIN q}) BY <1>1 DEF IsSeq
        <5> DEFINE S == {q[j] : j \in DOMAIN q}
        <5> HIDE DEF S
        <5>2. q \in Seq(S) BY <5>1 DEF S
        <5> QED BY <5>2
      <4>2. n - 0 = n /\ \A j \in 1..n : j + 0 = j BY <1>1
      <4> QED BY <4>1, <4>2 DEF Rest
    <3>2. g[0] = ps BY <1>1, <1>3
    <3> QED BY <2>3, <2>4, <3>1, <3>2
  <2>5. CASE m # 0
    <3> DEFINE k == m - 1
               u == Rest(q, k)
    <3>1. k \in 0..n /\ k \in Nat /\ k < n /\ k + 1 = m /\ ~ (m <= k) BY <1>1, <2>3, <2>5
    <3>2. QueueOk(g[k], u) BY <2>2, <3>1
    <3>3. u # <<>> /\ u[1] = q[m] /\ Tail(u) = Rest(q, m)
      <4> HIDE DEF k
      <4> QED BY <1>1, <3>1, RestTail
    <3>4. g[m] = Failed(g[k], q[m], FailStatus(m)) BY <1>3, <2>3, <2>5
    <3>5. FailStatus(m) # "OK" BY DEF FailStatus
    <3> DEFINE status == FailStatus(m)
               before == g[k]
    <3> HIDE DEF u, status, before
    <3>6. QueueOk(Failed(before, u[1], status), Tail(u))
      BY <3>2, <3>3, <3>5, FailedStep DEF status, before
    <3> QED BY <2>3, <3>3, <3>4, <3>6 DEF status, before
  <2> QED BY <2>4, <2>5
<1>5. n \in 0..n BY <1>1
<1>6. QueueOk(g[n], Rest(q, n)) BY <1>4, <1>5
<1>7. Rest(q, n) = <<>>
  <2> DEFINE u == Rest(q, n)
  <2>1. u = [j \in 1..0 |-> u[j]]
    <3>1. n - n = 0 BY <1>1
    <3> QED BY <3>1 DEF Rest
  <2> HIDE DEF u
  <2>2. IsSeq(u) /\ Len(u) = 0 BY <2>1, FcnSeq
  <2>3. u = <<>> BY <2>2, SeqLen
  <2> QED BY <2>3 DEF u
<1> QED BY <1>6, <1>7 DEF g

-----------------------------------------------------------------------------
(***************************************************************************)
(* The steps.                                                              *)
(***************************************************************************)
\* A call adds a procedure and one command of it.
LEMMA AddStep ==
  ASSUME NEW ps, NEW q, QueueOk(ps, q), NEW p, IsProc(p), p.refs = 0, p.ends = <<>>,
         NEW o, Starts(p, o), NEW i, i = Len(ps) + 1,
         NEW ps2, ps2 = Append(ps, o.p), NEW q2, q2 = q \o Commands(i, o)
  PROVE  QueueOk(ps2, q2) /\ (q # <<>> => q2 # <<>> /\ q2[1] = q[1])
<1> DEFINE s == Commands(i, o)
           kind == p.call.kind
<1>1. IsSeq(ps) /\ IsSeq(q) /\ Len(ps) \in Nat /\ DOMAIN ps = 1..Len(ps)
      /\ Len(q) \in Nat /\ DOMAIN q = 1..Len(q)
  BY SeqLen DEF QueueOk
<1>2. /\ IsSeq(ps2) /\ DOMAIN ps2 = 1..i /\ ps2[i] = o.p
      /\ \A j \in DOMAIN ps : ps2[j] = ps[j]
  BY <1>1, AppendSeq
<1>3. CommandsOf(s, i, kind, 1)
  <2>1. ReqsOk(o.reqs, kind) /\ Len(o.reqs) = 1 BY DEF Starts
  <2> HIDE DEF kind
  <2>2. CommandsOf(Commands(i, o), i, kind, Len(o.reqs)) BY <2>1, CommandsEffect
  <2> QED BY <2>1, <2>2
<1>4. q2 = q \o s OBVIOUS
<1> HIDE DEF s
<1>5. IsSeq(s) BY <1>3 DEF CommandsOf
<1>6. Joins(q2, q, s) BY <1>1, <1>4, <1>5, CatJoins
<1>7. ASSUME NEW j
      PROVE  Count(q2, j) = Count(q, j) + (IF j = i THEN 1 ELSE 0) /\ Count(q, j) \in Nat
  <2>1. Count(q, j) \in Nat BY <1>1, AtFinite
  <2>2. Count(s, j) = IF j = i THEN 1 ELSE 0 BY <1>3 DEF CommandsOf
  <2>3. Count(q2, j) = Count(q, j) + Count(s, j) BY <1>6 DEF Joins
  <2> QED BY <2>1, <2>2, <2>3
<1>8. i \notin DOMAIN ps /\ i \in Nat BY <1>1
<1>9. Count(q, i) = 0
  <2>1. ~ \E k \in DOMAIN q : q[k].proc = i BY <1>8 DEF QueueOk
  <2> QED BY <1>1, <2>1, AtFinite
<1>10. DOMAIN ps2 = DOMAIN ps \cup {i} BY <1>1, <1>2
<1>11. ASSUME NEW j \in DOMAIN ps2 PROVE IsProc(ps2[j]) /\ Balanced(ps2[j], Count(q2, j))
  <2>1. CASE j = i
    <3>1. Count(q2, i) = 1 BY <1>7, <1>9
    <3>2. IsProc(o.p) /\ o.p.call = p.call /\ o.p.ends = <<>>
          /\ (p.call.kind = "included" => o.p.refs = 1)
      BY DEF Starts
    <3>3. Len(<<>>) = 0 BY ReqsNone
    <3>4. Balanced(o.p, 1) BY <3>2, <3>3 DEF Balanced
    <3> QED BY <1>2, <2>1, <3>1, <3>2, <3>4
  <2>2. CASE j # i
    <3>1. j \in DOMAIN ps BY <1>10, <2>2
    <3>2. Count(q2, j) = Count(q, j) BY <1>7, <2>2
    <3> QED BY <1>2, <3>1, <3>2 DEF QueueOk
  <2> QED BY <2>1, <2>2
<1>12. ASSUME NEW k \in DOMAIN q2
       PROVE  q2[k].proc \in DOMAIN ps2 /\ CmdOk(q2[k], ps2[q2[k].proc].call.kind)
  <2>1. \/ \E j \in DOMAIN q : q2[k] = q[j]
        \/ \E j \in DOMAIN s : q2[k] = s[j]
    BY <1>6 DEF Joins
  <2>2. CASE \E j \in DOMAIN q : q2[k] = q[j]
    <3>1. PICK j \in DOMAIN q : q2[k] = q[j] BY <2>2
    <3> DEFINE x == q2[k]
    <3>2. x.proc \in DOMAIN ps /\ CmdOk(x, ps[x.proc].call.kind) BY <3>1 DEF QueueOk
    <3> QED BY <1>2, <1>10, <3>2
  <2>3. CASE \E j \in DOMAIN s : q2[k] = s[j]
    <3>1. q2[k].proc = i /\ CmdOk(q2[k], kind) BY <1>3, <2>3 DEF CommandsOf
    <3>2. ps2[i].call = p.call BY <1>2 DEF Starts
    <3> QED BY <1>10, <3>1, <3>2
  <2> QED BY <2>1, <2>2, <2>3
<1>13. QueueOk(ps2, q2) BY <1>2, <1>6, <1>11, <1>12 DEF QueueOk, Joins
<1>14. ASSUME q # <<>> PROVE q2 # <<>> /\ q2[1] = q[1]
  <2>1. 1 \in DOMAIN q BY <1>1, <1>14, SeqLen
  <2>2. q2[1] = q[1] BY <1>1, <1>4, <1>5, <2>1, CatSeq
  <2>3. DOMAIN q2 = 1..(Len(q) + Len(s)) BY <1>1, <1>4, <1>5, CatSeq
  <2>4. Len(s) \in Nat BY <1>5, SeqLen
  <2>5. 1 \in DOMAIN q2 BY <1>1, <2>1, <2>3, <2>4
  <2>6. IsSeq(q2) BY <1>6 DEF Joins
  <2>7. q2 # <<>> BY <2>5, <2>6, SeqLen
  <2> QED BY <2>2, <2>7
<1> QED BY <1>13, <1>14

\* Only the history of the procedures changes.
LEMMA SameStep ==
  ASSUME NEW ps, NEW q, QueueOk(ps, q),
         NEW ps2, ps2 = [i \in DOMAIN ps |-> ps2[i]], \A i \in DOMAIN ps : Same(ps[i], ps2[i])
  PROVE  QueueOk(ps2, q)
<1>1. IsSeq(ps) /\ Len(ps) \in Nat /\ DOMAIN ps = 1..Len(ps) BY SeqLen DEF QueueOk
<1>2. DOMAIN ps2 = DOMAIN ps OBVIOUS
<1>3. IsSeq(ps2) BY <1>1, FcnSeq
<1>4. \A i \in DOMAIN ps : IsProc(ps2[i]) /\ Balanced(ps2[i], Count(q, i))
  BY DEF QueueOk, Same, Balanced
<1>5. ASSUME NEW k \in DOMAIN q
      PROVE  q[k].proc \in DOMAIN ps2 /\ CmdOk(q[k], ps2[q[k].proc].call.kind)
  <2> DEFINE x == q[k]
  <2>1. x.proc \in DOMAIN ps /\ CmdOk(x, ps[x.proc].call.kind) BY DEF QueueOk
  <2> QED BY <1>2, <2>1 DEF Same
<1> QED BY <1>2, <1>3, <1>4, <1>5 DEF QueueOk

\* That of the reads of a value that is written.
LEMMA TouchStep ==
  ASSUME NEW q, QueueOk(procs, q), NEW new
  PROVE  QueueOk(Touch(new), q)
<1> DEFINE ps2 == Touch(new)
<1>1. ps2 = [i \in DOMAIN procs |-> ps2[i]] BY DEF Touch
<1>2. ASSUME NEW i \in DOMAIN procs PROVE Same(procs[i], ps2[i])
  <2>1. IsProc(procs[i]) BY DEF QueueOk
  <2>2. Same(procs[i], procs[i]) /\ Same(procs[i], [procs[i] EXCEPT !.touched = TRUE])
    BY <2>1, SameExcept DEF Same
  <2>3. ps2[i] \in {procs[i], [procs[i] EXCEPT !.touched = TRUE]} BY DEF Touch
  <2> HIDE DEF ps2
  <2> QED BY <2>2, <2>3
<1> HIDE DEF ps2
<1>3. QueueOk(ps2, q) BY <1>1, <1>2, SameStep
<1> QED BY <1>3 DEF ps2

\* The first command of the queue.
LEMMA HeadOk ==
  ASSUME QueueOk(procs, queue), queue # <<>>
  PROVE  /\ Head(queue) = queue[1] /\ queue[1].proc \in DOMAIN procs
         /\ IsProc(procs[queue[1].proc])
         /\ CmdOk(queue[1], procs[queue[1].proc].call.kind)
<1>1. IsSeq(queue) BY DEF QueueOk
<1>2. Len(queue) \in Nat /\ Len(queue) >= 1 /\ Head(queue) = queue[1] BY <1>1, TailSeq
<1>3. 1 \in DOMAIN queue BY <1>1, <1>2, SeqLen
<1> QED BY <1>2, <1>3 DEF QueueOk

\* Calls.
LEMMA CallStep == ASSUME GInv, NEW c \in Calls, Call(c) PROVE GInv'
<1> DEFINE p == NewProc(c)
           o == Start(p)
           i == Len(procs) + 1
<1>1. QueueOk(procs, queue) BY DEF GInv
<1>2. IsProc(p) /\ p.refs = 0 /\ p.ends = <<>>
  <2>1. p = [f \in ProcFields |-> p[f]] BY DEF NewProc, ProcFields
  <2>2. p.refs = 0 /\ p.ends = <<>> /\ p.call = c BY DEF NewProc
  <2>3. IsSeq(<<>>) BY ReqsNone DEF ReqsOk
  <2>4. c.kind \in Kinds BY GattAssumption
  <2> HIDE DEF p
  <2> QED BY <2>1, <2>2, <2>3, <2>4 DEF IsProc
<1>3. procs' = Append(procs, o.p) /\ queue' = queue \o Commands(i, o) /\ rsp' = rsp BY DEF Call
<1> HIDE DEF p
<1>4. Starts(p, o) BY <1>2, StartStarts
<1> HIDE DEF o, i
<1>5. i = Len(procs) + 1 BY DEF i
<1>6. QueueOk(procs', queue') /\ (queue # <<>> => queue' # <<>> /\ queue'[1] = queue[1])
  <2> DEFINE ps2 == procs'
             q2 == queue'
             ps == procs
             q == queue
  <2>1. ps2 = Append(ps, o.p) /\ q2 = q \o Commands(i, o) BY <1>3
  <2>2. QueueOk(ps, q) /\ i = Len(ps) + 1 BY <1>1, <1>5
  <2> HIDE DEF ps2, q2, ps, q
  <2>3. QueueOk(ps2, q2) BY <1>2, <1>4, <2>1, <2>2, AddStep
  <2>4. q # <<>> => q2 # <<>> /\ q2[1] = q[1] BY <1>2, <1>4, <2>1, <2>2, AddStep
  <2> QED BY <2>3, <2>4 DEF ps2, q2, ps, q
<1> QED BY <1>3, <1>6 DEF GInv

\* Responses.
LEMMA ReceivedStep == ASSUME GInv, received_data PROVE GInv'
<1> DEFINE c == queue[1]
           i == c.proc
           o == Callback(c, procs[i], rsp)
           s == Commands(i, o)
           t == Tail(queue)
           kind == procs[i].call.kind
<1>1. QueueOk(procs, queue) /\ queue # <<>> /\ RspOk(c, rsp) BY DEF GInv, received_data
<1>2. Head(queue) = c /\ i \in DOMAIN procs /\ IsProc(procs[i]) /\ CmdOk(c, kind) BY <1>1, HeadOk
<1>3. /\ procs' = [procs EXCEPT ![i] = o.p] /\ rsp' = NoRsp
      /\ queue' \in {s \o t, t \o s}
  BY <1>2 DEF received_data
<1> HIDE DEF c
<1>4. Goes(procs[i], o)
  <2> DEFINE p == procs[i]
  <2>1. IsProc(p) /\ CmdOk(c, p.call.kind) BY <1>2
  <2> HIDE DEF p
  <2>2. Goes(p, Callback(c, p, rsp)) BY <1>1, <2>1, CallbackGoes
  <2> QED BY <2>2 DEF p
<1> HIDE DEF i, o
<1>5. IsSeq(s) /\ IsSeq(t)
  <2>1. ReqsOk(o.reqs, kind) BY <1>4 DEF Goes
  <2> HIDE DEF kind
  <2>2. CommandsOf(Commands(i, o), i, kind, Len(o.reqs)) BY <2>1, CommandsEffect
  <2>3. IsSeq(t) BY <1>1, TailSeq DEF QueueOk
  <2> QED BY <2>2, <2>3 DEF CommandsOf
<1> HIDE DEF s, t
<1>6. Joins(queue', t, s)
  <2>1. CASE queue' = s \o t BY <1>5, <2>1, CatJoins
  <2>2. CASE queue' = t \o s BY <1>5, <2>2, CatJoins
  <2> QED BY <1>3, <2>1, <2>2
<1>7. QueueOk(procs', queue')
  <2>1. i = queue[1].proc BY DEF i, c
  <2>2. s = Commands(i, o) BY DEF s
  <2>3. Joins(queue', Tail(queue), s) BY <1>6 DEF t
  <2> QED BY <1>1, <1>3, <1>4, <2>1, <2>2, <2>3, CallbackStep
<1> QED BY <1>3, <1>7 DEF GInv

\* The timeout.
LEMMA TimeoutStep == ASSUME GInv, disconnect_timeout PROVE GInv'
<1>1. QueueOk(procs, queue) BY DEF GInv
<1>2. procs' = AllFailed(procs, queue)[Len(queue)] /\ queue' = <<>> /\ rsp' = NoRsp
  BY DEF disconnect_timeout
<1>3. QueueOk(procs', queue') BY <1>1, <1>2, AllFailedOk
<1> QED BY <1>2, <1>3 DEF GInv

\* Pages are sequences, however many entries the server puts in one.
LEMMA PageSeq ==
  ASSUME NEW s, NEW header, NEW size, NEW r, r \in Pages(s, header, size), r.status = "OK"
  PROVE  IsSeq(r.data)
<1>1. Error("NOT_FOUND").status # "OK" BY DEF Error
<1>2. PICK n \in 1..Len(s) : r = Page(s[1].ulen, [i \in 1..n |-> s[i]])
  BY <1>1 DEF Pages
<1>3. n \in Nat BY <1>2
<1> DEFINE d == [i \in 1..n |-> s[i]]
<1>4. r.data = d BY <1>2 DEF Page
<1>5. d = [i \in 1..n |-> d[i]] OBVIOUS
<1> HIDE DEF d
<1> QED BY <1>3, <1>4, <1>5, FcnSeq

\* Answers to reads and discoveries.
LEMMA ReadStep == ASSUME GInv, ServeRead PROVE GInv'
<1> DEFINE c == queue[1]
<1>1. /\ QueueOk(procs, queue) /\ queue # <<>> /\ rsp' \in Answers(c.req)
      /\ procs' = procs /\ queue' = queue
  <2>1. QueueOk(procs, queue) /\ queue # <<>> BY DEF GInv, ServeRead, Waiting
  <2>2. Head(queue) = c BY <2>1, HeadOk
  <2> QED BY <2>1, <2>2 DEF ServeRead
<1>2. ASSUME c.cb = "find_included_cb", rsp'.status = "OK" PROVE IsSeq(rsp'.data)
  <2> DEFINE kind == procs[c.proc].call.kind
  <2>1. CmdOk(c, kind) BY <1>1, HeadOk
  <2>2. c.req.op = "READ_BY_TYPE_REQ" /\ c.req.type = "INCLUDE" BY <1>2, <2>1 DEF CmdOk
  <2> DEFINE b == Asked(c.req)
             s == [i \in DOMAIN b |-> Hidden(b[i])]
             hdr == 2
             size == IncludeSize
  <2> HIDE DEF c
  <2>3. Answers(c.req) = Pages(s, hdr, size) BY <2>2 DEF Answers
  <2>4. rsp' \in Pages(s, hdr, size) BY <1>1, <2>3
  <2> HIDE DEF s, hdr, size
  <2> QED BY <1>2, <2>4, PageSeq
<1>3. RspOk(queue'[1], rsp') BY <1>1, <1>2 DEF RspOk
<1> QED BY <1>1, <1>3 DEF GInv

\* The other answers: none of their requests asks for included services.
LEMMA OtherStep ==
  ASSUME GInv, ServeMtu \/ ServePrepare \/ ServeExecute \/ (ServeWrite /\ queue' = queue)
  PROVE  GInv'
<1> DEFINE c == queue[1]
<1>1. QueueOk(procs, queue) /\ queue # <<>> /\ rsp = NoRsp
  BY DEF GInv, ServeMtu, ServePrepare, ServeExecute, ServeWrite, Waiting
<1>2. Head(queue) = c /\ CmdOk(c, procs[c.proc].call.kind) BY <1>1, HeadOk
<1>3. c.req.op # "READ_BY_TYPE_REQ" /\ queue' = queue
  BY <1>2 DEF ServeMtu, ServePrepare, ServeExecute, ServeWrite, Waiting
<1>4. RspOk(c, rsp') BY <1>2, <1>3 DEF CmdOk, RspOk
<1>5. QueueOk(procs', queue)
  <2>1. procs' \in {procs, Touch(values')}
    BY DEF ServeMtu, ServePrepare, ServeExecute, ServeWrite
  <2> QED BY <1>1, <2>1, TouchStep
<1> QED BY <1>1, <1>3, <1>4, <1>5 DEF GInv

\* A command without a response leaves the queue when it is written.
LEMMA CommandStep == ASSUME GInv, ServeWrite, queue' # queue PROVE GInv'
<1> DEFINE c == queue[1]
           i == c.proc
           p == procs[i]
           o == Quiet(p)
           s == Commands(i, o)
           t == Tail(queue)
<1>1. QueueOk(procs, queue) /\ queue # <<>> /\ rsp = NoRsp BY DEF GInv, ServeWrite, Waiting
<1>2. Head(queue) = c /\ i \in DOMAIN procs /\ CmdOk(c, p.call.kind) /\ IsProc(p) BY <1>1, HeadOk
<1>3. c.req.op = "WRITE_CMD" /\ queue' = t /\ rsp' = NoRsp /\ procs' = Touch(values')
  BY <1>1, <1>2 DEF ServeWrite
<1>4. c.cb = "none" BY <1>2, <1>3 DEF CmdOk
<1>5. p.call.kind = "write_cmd" BY <1>2, <1>4 DEF CmdOk, IncludedCbs, PlainCbs
<1> HIDE DEF c, i, p
<1>6. o.p = p /\ o.reqs = <<>> BY DEF Quiet, Sends
<1> HIDE DEF o
<1>7. ReqsOk(o.reqs, p.call.kind) /\ Len(o.reqs) = 0 BY <1>6, ReqsNone
<1>8. Goes(p, o) BY <1>2, <1>5, <1>6, <1>7 DEF Goes
<1>9. CommandsOf(s, i, p.call.kind, 0)
  <2> DEFINE kind == p.call.kind
  <2>1. ReqsOk(o.reqs, kind) BY <1>7
  <2> HIDE DEF kind
  <2>2. CommandsOf(Commands(i, o), i, kind, Len(o.reqs)) BY <2>1, CommandsEffect
  <2> QED BY <1>7, <2>2 DEF kind
<1> HIDE DEF s
<1>10. IsSeq(t) BY <1>1, TailSeq DEF QueueOk
<1> HIDE DEF t
<1>11. Joins(t, t, s)
  <2>1. ASSUME NEW j PROVE Count(t, j) = Count(t, j) + Count(s, j)
    <3>1. Count(t, j) \in Nat BY <1>10, AtFinite
    <3>2. Count(s, j) = 0 BY <1>9 DEF CommandsOf
    <3> QED BY <3>1, <3>2
  <2> QED BY <1>10, <2>1 DEF Joins
<1>12. QueueOk(procs, t)
  <2>1. i = queue[1].proc BY DEF i, c
  <2>2. s = Commands(i, o) BY DEF s
  <2>3. Joins(t, Tail(queue), s) BY <1>11 DEF t
  <2>4. Goes(procs[i], o) BY <1>8 DEF p
  <2>5. procs = [procs EXCEPT ![i] = o.p]
    <3>1. IsSeq(procs) BY <1>1 DEF QueueOk
    <3>2. procs = [j \in DOMAIN procs |-> procs[j]]
      <4> DEFINE S == {procs[j] : j \in DOMAIN procs}
      <4>1. procs \in Seq(S) BY <3>1 DEF IsSeq
      <4> HIDE DEF S
      <4> QED BY <4>1
    <3> QED BY <1>2, <1>6, <3>2 DEF p
  <2> DEFINE ps2 == [procs EXCEPT ![i] = o.p]
  <2>6. ps2 = [procs EXCEPT ![i] = o.p] OBVIOUS
  <2> HIDE DEF ps2
  <2>7. QueueOk(ps2, t) BY <1>1, <2>1, <2>2, <2>3, <2>4, <2>6, CallbackStep
  <2> QED BY <2>5, <2>6, <2>7
<1>13. QueueOk(procs', t) BY <1>3, <1>12, TouchStep
<1> QED BY <1>3, <1>13 DEF GInv

\* The server refuses a request.
LEMMA RefuseStep == ASSUME GInv, Refuse PROVE GInv'
<1> DEFINE i == queue[1].proc
<1>1. QueueOk(procs, queue) /\ queue # <<>> BY DEF GInv, Refuse
<1>2. Head(queue) = queue[1] /\ i \in DOMAIN procs BY <1>1, HeadOk
<1>3. procs' = [procs EXCEPT ![i].fault = TRUE] /\ queue' = queue /\ rsp' = Error("REFUSED")
  BY <1>2 DEF Refuse
<1> HIDE DEF i
<1>4. QueueOk(procs', queue)
  <2>1. procs' = [j \in DOMAIN procs |-> procs'[j]] BY <1>3
  <2>2. ASSUME NEW j \in DOMAIN procs PROVE Same(procs[j], procs'[j])
    <3>1. IsProc(procs[j]) BY <1>1 DEF QueueOk
    <3>2. Same(procs[j], procs[j]) /\ Same(procs[j], [procs[j] EXCEPT !.fault = TRUE])
      BY <3>1, SameExcept DEF Same
    <3>3. procs'[j] \in {procs[j], [procs[j] EXCEPT !.fault = TRUE]} BY <1>3
    <3> QED BY <3>2, <3>3
  <2> QED BY <1>1, <2>1, <2>2, SameStep
<1>5. RspOk(queue'[1], rsp')
  <2>1. rsp'.status # "OK" BY <1>3 DEF Error
  <2> QED BY <2>1 DEF RspOk
<1> QED BY <1>1, <1>3, <1>4, <1>5 DEF GInv

\* The balance of procedures, references and commands is an invariant.
THEOREM ProcedureInvariant == Spec => []GInv
<1>1. Init => GInv
  <2> SUFFICES ASSUME Init PROVE GInv OBVIOUS
  <2>1. procs = <<>> /\ queue = <<>> /\ rsp = NoRsp BY DEF Init
  <2>2. IsSeq(<<>>) BY ReqsNone DEF ReqsOk
  <2>3. DOMAIN <<>> = {} BY <2>2, ReqsNone, SeqLen
  <2> QED BY <2>1, <2>2, <2>3 DEF GInv, QueueOk
<1>2. GInv /\ [Next]_vars => GInv'
  <2> SUFFICES ASSUME GInv, [Next]_vars PROVE GInv' OBVIOUS
  <2>1. ASSUME NEW c \in Calls, Call(c) PROVE GInv' BY <2>1, CallStep
  <2>2. CASE received_data BY <2>2, ReceivedStep
  <2>3. CASE disconnect_timeout BY <2>3, TimeoutStep
  <2>4. CASE ServeRead BY <2>4, ReadStep
  <2>5. CASE ServeMtu \/ ServePrepare \/ ServeExecute BY <2>5, OtherStep
  <2>6. CASE ServeWrite BY <2>6, OtherStep, CommandStep
  <2>7. CASE Refuse BY <2>7, RefuseStep
  <2>8. CASE UNCHANGED vars BY <2>8 DEF GInv, vars
  <2> QED BY <2>1, <2>2, <2>3, <2>4, <2>5, <2>6, <2>7, <2>8 DEF Next, Server
<1> QED BY <1>1, <1>2, PTL DEF Spec

\* Every procedure of gatt.c calls its user back exactly once, when the last of
\* its requests is gone: for any database, any calls and any number of them,
\* in any interleaving, and whichever requests are refused or time out.
THEOREM CalledBackOnce == Spec => []ReportsOnce
<1>1. GInv => ReportsOnce
  <2> SUFFICES ASSUME GInv, NEW i \in DOMAIN procs, procs[i].call.kind # "write_cmd"
               PROVE  Len(procs[i].ends) = IF InProgress(i) THEN 0 ELSE 1
    BY DEF ReportsOnce
  <2> DEFINE p == procs[i]
             n == Count(queue, i)
  <2>1. IsSeq(queue) /\ IsProc(p) /\ Balanced(p, n) BY DEF GInv, QueueOk
  <2>2. n \in Nat /\ (n = 0 <=> ~ InProgress(i)) BY <2>1, AtFinite DEF InProgress
  <2>3. Len(p.ends) \in Nat BY <2>1, SeqLen DEF IsProc
  <2> HIDE DEF n
  <2>4. Len(p.ends) = IF n = 0 THEN 1 ELSE 0 BY <2>1, <2>2, <2>3 DEF Balanced
  <2> QED BY <2>2, <2>4
<1> QED BY <1>1, ProcedureInvariant, PTL
=============================================================================
