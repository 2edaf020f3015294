------------------------- MODULE VehicleScanProofs -------------------------
(***************************************************************************)
(* Theorems about the parsers of Advertisement, for every packet, and from *)
(* them those about VehicleScan.  What the parser's loop leaves in an      *)
(* entry is what the reference says: the loop is followed step by step,    *)
(* with a least counterexample over its steps.                             *)
(***************************************************************************)
EXTENDS VehicleScan, ParsePackets, TLAPS, WellFoundedInduction, SequenceTheorems

\* A set of natural numbers that is not empty has a least element.
LEMMA LeastNat ==
  ASSUME NEW T \in SUBSET Nat, T # {}
  PROVE  \E m \in T : \A k \in T : m <= k
<1>1. \E m \in T : \A k \in T : ~ (<<k, m>> \in OpToRel(<, Nat))
  BY WFMin, NatLessThanWellFounded
<1>2. PICK m \in T : \A k \in T : ~ (<<k, m>> \in OpToRel(<, Nat))
  BY <1>1
<1>3. ASSUME NEW k \in T PROVE m <= k
  <2>1. k \in Nat /\ m \in Nat OBVIOUS
  <2>2. <<k, m>> \in Nat \X Nat /\ <<k, m>>[1] = k /\ <<k, m>>[2] = m BY <2>1
  <2>3. ~ (k < m) BY <1>2, <2>2 DEF OpToRel
  <2> QED BY <2>1, <2>3
<1> QED BY <1>3

-----------------------------------------------------------------------------
\* g is the run of the loop over the first m structures of the packet.
IsRun(g, m, pkt, adv0) ==
  g = [i \in 0..m |-> IF i = 0 THEN [adv |-> adv0, ret |-> "next"]
                      ELSE parse_step(g[i - 1], pkt[i])]

\* The loop runs through every packet.
LEMMA RunExists ==
  ASSUME NEW pkt, NEW adv0, NEW n \in Nat
  PROVE  \E g : IsRun(g, n, pkt, adv0)
<1> DEFINE T == {m \in Nat : ~ \E g : IsRun(g, m, pkt, adv0)}
<1>1. SUFFICES ASSUME T # {} PROVE FALSE
  OBVIOUS
<1>2. PICK m \in T : \A k \in T : m <= k
  <2>1. T \in SUBSET Nat OBVIOUS
  <2> HIDE DEF T
  <2> QED BY <1>1, <2>1, LeastNat
<1>3. CASE m = 0
  <2> DEFINE g == [i \in 0..0 |-> [adv |-> adv0, ret |-> "next"]]
  <2>1. IsRun(g, 0, pkt, adv0) BY DEF IsRun
  <2> HIDE DEF g
  <2> QED BY <1>3, <2>1
<1>4. CASE m # 0
  <2>1. m \in Nat /\ m - 1 \in Nat /\ ~ (m <= m - 1) BY <1>4
  <2>2. m - 1 \notin T BY <1>2, <2>1
  <2>3. PICK h : IsRun(h, m - 1, pkt, adv0) BY <2>1, <2>2
  <2> DEFINE g == [i \in 0..m |-> IF i = m THEN parse_step(h[m - 1], pkt[m]) ELSE h[i]]
  <2>4. ASSUME NEW i \in 0..m
        PROVE  g[i] = IF i = 0 THEN [adv |-> adv0, ret |-> "next"]
                      ELSE parse_step(g[i - 1], pkt[i])
    <3>1. CASE i = m
      <4>1. g[m - 1] = h[m - 1] /\ g[m] = parse_step(h[m - 1], pkt[m]) BY <2>1
      <4> HIDE DEF g
      <4> QED BY <1>4, <3>1, <4>1
    <3>2. CASE i # m
      <4>1. i \in 0..(m - 1) /\ g[i] = h[i] /\ (i # 0 => g[i - 1] = h[i - 1]) BY <2>1, <3>2
      <4>2. h[i] = IF i = 0 THEN [adv |-> adv0, ret |-> "next"]
                   ELSE parse_step(h[i - 1], pkt[i])
        <5> DEFINE f == [j \in 0..(m - 1) |-> IF j = 0 THEN [adv |-> adv0, ret |-> "next"]
                                   ELSE parse_step(h[j - 1], pkt[j])]
        <5>1. h = f BY <2>3 DEF IsRun
        <5>2. f[i] = IF i = 0 THEN [adv |-> adv0, ret |-> "next"]
                   ELSE parse_step(h[i - 1], pkt[i]) BY <4>1
        <5> QED BY <5>1, <5>2
      <4> HIDE DEF g
      <4> QED BY <4>1, <4>2
    <3> QED BY <3>1, <3>2
  <2>5. IsRun(g, m, pkt, adv0)
    <3> DEFINE f == [i \in 0..m |-> IF i = 0 THEN [adv |-> adv0, ret |-> "next"]
                      ELSE parse_step(g[i - 1], pkt[i])]
    <3>1. g = f
      <4>1. DOMAIN g = 0..m /\ DOMAIN f = 0..m OBVIOUS
      <4>2. g = [i \in 0..m |-> g[i]] OBVIOUS
      <4>3. \A i \in 0..m : g[i] = f[i] BY <2>4
      <4> HIDE DEF g
      <4> QED BY <4>2, <4>3
    <3> QED BY <3>1 DEF IsRun
  <2> HIDE DEF g
  <2> QED BY <2>1, <2>5
<1> QED BY <1>3, <1>4

\* What the recursive definition of the loop means.
LEMMA StatesRun ==
  ASSUME NEW pkt, NEW adv0, Len(pkt) \in Nat
  PROVE  IsRun(parse_states(pkt, adv0), Len(pkt), pkt, adv0)
<1>1. PICK g : IsRun(g, Len(pkt), pkt, adv0) BY RunExists
<1>2. parse_states(pkt, adv0) = CHOOSE s : IsRun(s, Len(pkt), pkt, adv0)
  BY DEF parse_states, IsRun
<1> QED BY <1>1, <1>2

-----------------------------------------------------------------------------
AdvFields == {"flags", "tx_power", "mfg_data", "local_name", "service_id"}

\* A record of an entry, which is never NULL.
IsAdv(adv) ==
  /\ adv = [f \in AdvFields |-> adv[f]]
  /\ DOMAIN adv.service_id = 1..16

\* The packet has a structure of that type with enough bytes.
Carries(pkt, type, min) == \E i \in DOMAIN pkt : pkt[i].type = type /\ Len(pkt[i].data) >= min

\* What the structures of pkt may have made of an entry: each of the fields
\* that complete a vehicle is as before unless pkt carries it.
From(pkt, adv, old) ==
  /\ Carries(pkt, "MANUFACTURER_DATA", 8) \/ adv.mfg_data.identifier = old.mfg_data.identifier
  /\ Carries(pkt, "LOCAL_NAME", 2) \/ adv.local_name.version = old.local_name.version
  /\ Carries(pkt, "UUID_128", 16) \/ adv.service_id[16] = old.service_id[16]

Packet == Seq([type : AdType, data : Seq(Byte)])

\* An entry is not NULL.
LEMMA AdvNotNull == ASSUME NEW adv, IsAdv(adv) PROVE adv # NULL
<1>1. "null" \notin DOMAIN adv BY DEF IsAdv, AdvFields
<1>2. "null" \in DOMAIN NULL BY DEF NULL
<1> QED BY <1>1, <1>2

\* The elements of a sequence.
LEMMA SeqElement == ASSUME NEW S, NEW s \in Seq(S), NEW k \in DOMAIN s PROVE s[k] \in S
OBVIOUS

\* One structure leaves what it does not carry.
LEMMA UpdateFrom ==
  ASSUME NEW pkt \in Packet, NEW k \in DOMAIN pkt, NEW adv, IsAdv(adv),
         pkt[k].type \notin {"END", "INVALID", "UNKNOWN"}
  PROVE  IsAdv(update(adv, pkt[k])) /\ From(pkt, update(adv, pkt[k]), adv)
<1> DEFINE r == pkt[k]
           a == update(adv, r)
<1> SUFFICES IsAdv(a) /\ From(pkt, a, adv) OBVIOUS
<1>1. r.type \in AdType /\ r.data \in Seq(Byte)
  <2>1. pkt \in Seq([type : AdType, data : Seq(Byte)]) BY DEF Packet
  <2>2. r \in [type : AdType, data : Seq(Byte)] BY <2>1, SeqElement
  <2> QED BY <2>2
<1>2. Len(r.data) \in Nat BY <1>1
<1>3. adv # NULL BY AdvNotNull
<1>4. CASE r.type = "FLAGS"
  <2>1. a = [adv EXCEPT !.flags = memmove1(@, r.data)] BY <1>3, <1>4 DEF update
  <2> HIDE DEF a
  <2> QED BY <2>1 DEF IsAdv, From, AdvFields
<1>5. CASE r.type = "TX_POWER"
  <2>1. a = [adv EXCEPT !.tx_power = memmove1(@, r.data)] BY <1>3, <1>5 DEF update
  <2> HIDE DEF a
  <2> QED BY <2>1 DEF IsAdv, From, AdvFields
<1>6. CASE r.type = "UUID_128"
  <2>1. a = [adv EXCEPT !.service_id = memmove(adv.service_id, r.data)] BY <1>3, <1>6 DEF update
  <2> DEFINE m == memmove(adv.service_id, r.data)
  <2>2. DOMAIN m = 1..16 /\ (16 \notin DOMAIN r.data => m[16] = adv.service_id[16])
    BY DEF IsAdv, memmove
  <2>3. Len(r.data) >= 16 \/ 16 \notin DOMAIN r.data BY <1>1, <1>2
  <2> HIDE DEF a, m
  <2>4. IsAdv(a) /\ a.mfg_data = adv.mfg_data /\ a.local_name = adv.local_name /\ a.service_id = m
    BY <2>1, <2>2 DEF IsAdv, AdvFields, m
  <2>5. Carries(pkt, "UUID_128", 16) \/ a.service_id[16] = adv.service_id[16]
    BY <1>6, <2>2, <2>3, <2>4 DEF Carries
  <2> QED BY <2>4, <2>5 DEF From
<1>7. CASE r.type = "LOCAL_NAME"
  <2> DEFINE m == anki_vehicle_parse_local_name(r.data, adv.local_name)
  <2>1. a = [adv EXCEPT !.local_name = m] BY <1>3, <1>7 DEF update
  <2>2. Len(r.data) >= 2 \/ m.version = adv.local_name.version
    BY <1>1, <1>2 DEF anki_vehicle_parse_local_name
  <2> HIDE DEF a, m
  <2>4. IsAdv(a) /\ a.mfg_data = adv.mfg_data /\ a.local_name = m /\ a.service_id = adv.service_id
    BY <2>1 DEF IsAdv, AdvFields
  <2>5. Carries(pkt, "LOCAL_NAME", 2) \/ a.local_name.version = adv.local_name.version
    BY <1>7, <2>2, <2>4 DEF Carries
  <2> QED BY <2>4, <2>5 DEF From
<1>8. CASE r.type = "MANUFACTURER_DATA"
  <2> DEFINE m == anki_vehicle_parse_mfg_data(r.data, adv.mfg_data)
  <2>1. a = [adv EXCEPT !.mfg_data = m] BY <1>3, <1>8 DEF update
  <2>2. Len(r.data) = 8 \/ m = adv.mfg_data
    BY DEF anki_vehicle_parse_mfg_data
  <2>3. Len(r.data) = 8 => Len(r.data) >= 8 BY <1>2
  <2> HIDE DEF a, m
  <2>4. IsAdv(a) /\ a.mfg_data = m /\ a.local_name = adv.local_name /\ a.service_id = adv.service_id
    BY <2>1 DEF IsAdv, AdvFields
  <2>5. Carries(pkt, "MANUFACTURER_DATA", 8) \/ a.mfg_data.identifier = adv.mfg_data.identifier
    BY <1>8, <2>2, <2>3, <2>4 DEF Carries
  <2> QED BY <2>4, <2>5 DEF From
<1> QED BY <1>1, <1>4, <1>5, <1>6, <1>7, <1>8 DEF AdType

\* A state of the loop: what it has returned, and where its entry is from.
LoopOk(pkt, s, old) ==
  /\ s = [f \in {"adv", "ret"} |-> s[f]]
  /\ s.ret \in {"next", "break", "2", "3"}
  /\ IsAdv(s.adv) /\ From(pkt, s.adv, old)

\* A step of the loop.
LEMMA StepFrom ==
  ASSUME NEW pkt \in Packet, NEW k \in DOMAIN pkt, NEW s, NEW old, LoopOk(pkt, s, old)
  PROVE  LoopOk(pkt, parse_step(s, pkt[k]), old)
<1> DEFINE r == pkt[k]
           t == parse_step(s, r)
<1>1. CASE s.ret # "next"
  <2>1. t = s BY <1>1 DEF parse_step
  <2> QED BY <2>1
<1>2. ASSUME s.ret = "next", t # [s EXCEPT !.adv = update(s.adv, r)]
      PROVE  \E ret \in {"break", "2", "3"} : t = [s EXCEPT !.ret = ret]
  <2>1. s.adv # NULL BY AdvNotNull DEF LoopOk
  <2> QED BY <1>2, <2>1 DEF parse_step
<1>3. ASSUME NEW ret \in {"break", "2", "3"}, t = [s EXCEPT !.ret = ret]
      PROVE  LoopOk(pkt, t, old)
  <2> HIDE DEF t
  <2> QED BY <1>3 DEF LoopOk
<1>4. ASSUME s.ret = "next", t = [s EXCEPT !.adv = update(s.adv, r)]
      PROVE  LoopOk(pkt, t, old)
  <2>1. CASE r.type \in {"END", "INVALID", "UNKNOWN"}
    <3>1. \E ret \in {"break", "3"} : t = [s EXCEPT !.ret = ret] BY <1>4, <2>1 DEF parse_step
    <3> QED BY <3>1, <1>3
  <2>2. CASE r.type \notin {"END", "INVALID", "UNKNOWN"}
    <3> DEFINE a == update(s.adv, r)
    <3>1. IsAdv(a) /\ From(pkt, a, s.adv) BY <2>2, UpdateFrom DEF LoopOk
    <3>2. From(pkt, a, old) BY <3>1 DEF From, LoopOk
    <3>3. t = [s EXCEPT !.adv = a] BY <1>4
    <3> HIDE DEF t, a
    <3> QED BY <3>1, <3>2, <3>3 DEF LoopOk
  <2> QED BY <2>1, <2>2
<1> QED BY <1>1, <1>2, <1>3, <1>4

\* What parsing a packet leaves in an entry.
LEMMA ParseFrom ==
  ASSUME NEW pkt \in Packet, NEW old, IsAdv(old)
  PROVE  LET p == anki_vehicle_parse_adv_record(pkt, old)
         IN  /\ IsAdv(p.adv) /\ From(pkt, p.adv, old)
             /\ p.ret = "0" => is_anki_vehicle_service_uuid(p.adv.service_id)
<1> DEFINE n == Len(pkt)
           s == parse_states(pkt, old)
           T == {i \in 0..n : ~ LoopOk(pkt, s[i], old)}
<1>1. n \in Nat /\ DOMAIN pkt = 1..n BY DEF Packet
<1>2. ASSUME NEW i \in 0..n
      PROVE  s[i] = IF i = 0 THEN [adv |-> old, ret |-> "next"]
                    ELSE parse_step(s[i - 1], pkt[i])
  <2>1. IsRun(s, n, pkt, old) BY <1>1, StatesRun
  <2> HIDE DEF s
  <2> DEFINE f == [j \in 0..n |-> IF j = 0 THEN [adv |-> old, ret |-> "next"]
                                   ELSE parse_step(s[j - 1], pkt[j])]
  <2>2. s = f BY <2>1 DEF IsRun
  <2>3. f[i] = IF i = 0 THEN [adv |-> old, ret |-> "next"]
               ELSE parse_step(s[i - 1], pkt[i]) OBVIOUS
  <2> QED BY <2>2, <2>3
<1> HIDE DEF s
<1>3. LoopOk(pkt, [adv |-> old, ret |-> "next"], old)
  BY DEF LoopOk, From
<1>4. T = {}
  <2>1. SUFFICES ASSUME T # {} PROVE FALSE OBVIOUS
  <2>2. T \in SUBSET Nat BY <1>1
  <2>3. PICK m \in T : \A k \in T : m <= k
    <3> HIDE DEF T
    <3> QED BY <2>1, <2>2, LeastNat
  <2>4. CASE m = 0 BY <1>1, <1>2, <1>3, <2>4
  <2>5. CASE m # 0
    <3>1. m \in 1..n /\ m - 1 \in 0..n /\ ~ (m <= m - 1) BY <1>1, <2>5
    <3>2. LoopOk(pkt, s[m - 1], old) BY <2>3, <3>1
    <3>3. LoopOk(pkt, parse_step(s[m - 1], pkt[m]), old) BY <1>1, <3>1, <3>2, StepFrom
    <3> QED BY <1>2, <3>1, <3>3
  <2> QED BY <2>4, <2>5
<1>5. LoopOk(pkt, s[n], old) BY <1>1, <1>4
<1> DEFINE t == s[n]
           v == IF t.adv # NULL /\ is_anki_vehicle_service_uuid(t.adv.service_id)
                THEN "0" ELSE "2"
           p == anki_vehicle_parse_adv_record(pkt, old)
<1>6. p = IF t.ret \notin {"next", "break"} THEN t ELSE [t EXCEPT !.ret = v]
  BY DEF anki_vehicle_parse_adv_record, s
<1>7. p.adv = t.adv /\ (p.ret = t.ret \/ p.ret = v)
  <2> HIDE DEF t, v, p
  <2> QED BY <1>5, <1>6 DEF LoopOk, t
<1>8. p.ret = "0" => is_anki_vehicle_service_uuid(t.adv.service_id)
  <2>1. t.ret # "0" BY <1>5 DEF LoopOk
  <2> QED BY <1>7, <2>1
<1>9. IsAdv(p.adv) /\ From(pkt, p.adv, old)
      /\ (p.ret = "0" => is_anki_vehicle_service_uuid(p.adv.service_id))
  BY <1>5, <1>7, <1>8 DEF LoopOk
<1> HIDE DEF t, v, s, n, T
<1> QED BY <1>9

-----------------------------------------------------------------------------
(***************************************************************************)
(* The reference, step by step.                                            *)
(***************************************************************************)
\* A history: packets with their numbers.
IsHist(hist) ==
  /\ DOMAIN hist \subseteq Nat
  /\ \A i \in DOMAIN hist : hist[i] \in Packet

\* d is the data of the last of the positions at, or the default.
IsLatest(hist, at, d, default) ==
  \/ at = {} /\ d = default
  \/ \E x \in at : (\A y \in at : ~ Before(x, y)) /\ d = hist[x[1]][x[2]].data

\* The carriers up to structure k of packet n, which is the last one.
CarriersTo(hist, n, k, type, min, max) ==
  {x \in Carriers(hist, type, min, max) : x[1] < n \/ x[2] <= k}

Matches(r, type, min, max) == r.type = type /\ Len(r.data) \in min..max

\* The positions of the carriers.
LEMMA CarrierIs ==
  ASSUME NEW hist, IsHist(hist), NEW type, NEW min, NEW max,
         NEW x \in Carriers(hist, type, min, max)
  PROVE  /\ x[1] \in DOMAIN hist /\ x[2] \in Effective(hist[x[1]]) /\ x = <<x[1], x[2]>>
         /\ x[1] \in Nat /\ x[2] \in Nat /\ x[2] >= 1 /\ x[2] \in DOMAIN hist[x[1]]
         /\ Matches(hist[x[1]][x[2]], type, min, max)
<1>1. PICK i \in DOMAIN hist : x \in {i} \X Effective(hist[i]) BY DEF Carriers
<1>2. x = <<x[1], x[2]>> /\ x[1] = i /\ x[2] \in Effective(hist[i]) BY <1>1
<1>3. Matches(hist[x[1]][x[2]], type, min, max) BY DEF Carriers, Matches
<1>4. hist[i] \in Packet /\ i \in Nat BY DEF IsHist
<1>5. x[2] \in DOMAIN hist[i] BY <1>2 DEF Effective
<1>6. DOMAIN hist[i] = 1..Len(hist[i]) /\ Len(hist[i]) \in Nat BY <1>4 DEF Packet
<1> QED BY <1>2, <1>3, <1>4, <1>5, <1>6

\* The other way round.
LEMMA IsCarrier ==
  ASSUME NEW hist, NEW type, NEW min, NEW max, NEW i \in DOMAIN hist,
         NEW j \in Effective(hist[i]), Matches(hist[i][j], type, min, max)
  PROVE  <<i, j>> \in Carriers(hist, type, min, max)
<1> DEFINE U == UNION {{m} \X Effective(hist[m]) : m \in DOMAIN hist}
           x == <<i, j>>
<1>1. x \in {i} \X Effective(hist[i]) /\ x[1] = i /\ x[2] = j OBVIOUS
<1>2. x \in U BY <1>1
<1> HIDE DEF U, x
<1>3. Carriers(hist, type, min, max) = {y \in U : Matches(hist[y[1]][y[2]], type, min, max)}
  BY DEF Carriers, U, Matches
<1>4. x \in Carriers(hist, type, min, max) BY <1>1, <1>2, <1>3
<1> QED BY <1>4 DEF x

\* The last of the carriers is what Latest chooses.
LEMMA LatestIs ==
  ASSUME NEW hist, IsHist(hist), NEW type, NEW min, NEW max, NEW default, NEW d,
         IsLatest(hist, Carriers(hist, type, min, max), d, default)
  PROVE  Latest(hist, type, min, max, default) = d
<1> DEFINE at == Carriers(hist, type, min, max)
           z == CHOOSE x \in at : \A y \in at : ~ Before(x, y)
<1>1. CASE at = {}
  <2>1. d = default BY <1>1 DEF IsLatest
  <2> QED BY <1>1, <2>1 DEF Latest
<1>2. CASE at # {}
  <2>1. PICK x \in at : (\A y \in at : ~ Before(x, y)) /\ d = hist[x[1]][x[2]].data
    BY <1>2 DEF IsLatest
  <2>2. z \in at /\ \A y \in at : ~ Before(z, y)
    <3> HIDE DEF at
    <3> QED BY <2>1
  <2>3. Latest(hist, type, min, max, default) = hist[z[1]][z[2]].data BY <1>2 DEF Latest
  <2>4. x[1] \in Nat /\ x[2] \in Nat BY CarrierIs
  <2>5. z[1] \in Nat /\ z[2] \in Nat BY <2>2, CarrierIs
  <2>6. ~ Before(x, z) /\ ~ Before(z, x) BY <2>1, <2>2
  <2> HIDE DEF z, at
  <2>7. x[1] = z[1] /\ x[2] = z[2] BY <2>4, <2>5, <2>6 DEF Before
  <2> QED BY <2>1, <2>3, <2>7
<1> QED BY <1>1, <1>2

\* One more structure of the last packet.
LEMMA OneMore ==
  ASSUME NEW hist, IsHist(hist), NEW type, NEW min, NEW max, NEW default, NEW d,
         NEW n \in DOMAIN hist, \A i \in DOMAIN hist : i <= n,
         NEW k \in DOMAIN hist[n],
         IsLatest(hist, CarriersTo(hist, n, k - 1, type, min, max), d, default),
         NEW e, e = IF k \in Effective(hist[n]) /\ Matches(hist[n][k], type, min, max)
                    THEN hist[n][k].data ELSE d
  PROVE  IsLatest(hist, CarriersTo(hist, n, k, type, min, max), e, default)
<1> DEFINE at == Carriers(hist, type, min, max)
           a0 == CarriersTo(hist, n, k - 1, type, min, max)
           a1 == CarriersTo(hist, n, k, type, min, max)
           new == k \in Effective(hist[n]) /\ Matches(hist[n][k], type, min, max)
           z == <<n, k>>
<1>1. n \in Nat /\ k \in Nat /\ k >= 1
  <2>1. n \in Nat /\ hist[n] \in Packet BY DEF IsHist
  <2>2. DOMAIN hist[n] = 1..Len(hist[n]) /\ Len(hist[n]) \in Nat BY <2>1 DEF Packet
  <2> QED BY <2>1, <2>2
<1>2. ASSUME NEW x \in at
      PROVE  /\ x = <<x[1], x[2]>> /\ x[1] \in Nat /\ x[2] \in Nat /\ x[1] <= n
             /\ x[1] = n /\ x[2] = k => new
  BY CarrierIs
<1>3. z[1] = n /\ z[2] = k OBVIOUS
<1>4. new => z \in at BY IsCarrier
<1>5. a0 = {x \in at : x[1] < n \/ x[2] <= k - 1} /\ a1 = {x \in at : x[1] < n \/ x[2] <= k}
  BY DEF CarriersTo
<1> HIDE DEF at, new, z
<1>6. CASE ~ new
  <2>1. a1 = a0
    <3> HIDE DEF a0, a1
    <3>1. ASSUME NEW x \in at, x[1] < n \/ x[2] <= k PROVE x[1] < n \/ x[2] <= k - 1
      BY <1>1, <1>2, <1>6, <3>1
    <3>2. ASSUME NEW x \in at, x[1] < n \/ x[2] <= k - 1 PROVE x[1] < n \/ x[2] <= k
      BY <1>1, <1>2, <3>2
    <3> QED BY <1>5, <3>1, <3>2
  <2>2. e = d BY <1>6 DEF new
  <2> QED BY <2>1, <2>2
<1>7. CASE new
  <2>1. z \in a1 BY <1>1, <1>3, <1>4, <1>5, <1>7
  <2>2. ASSUME NEW y \in a1 PROVE ~ Before(z, y)
    <3>1. y \in at /\ (y[1] < n \/ y[2] <= k) BY <1>5
    <3>2. y[1] \in Nat /\ y[2] \in Nat /\ y[1] <= n BY <1>2, <3>1
    <3> QED BY <1>1, <1>3, <3>1, <3>2 DEF Before
  <2>3. e = hist[z[1]][z[2]].data BY <1>3, <1>7 DEF new
  <2> QED BY <2>1, <2>2, <2>3 DEF IsLatest
<1> QED BY <1>6, <1>7

\* What is known of a field after one more structure that counts.
Newer(r, type, min, max, d) == IF Matches(r, type, min, max) THEN r.data ELSE d

\* Structures as the parser gets them, with UUIDs of full length.
IsStructure(r) ==
  /\ r.type \in AdType /\ r.data \in Seq(Byte) /\ WellFormed(r)
  /\ r.type = "UUID_128" => Len(r.data) = 16

\* The types of the data of the fields.
AreData(fl, tx, uu, mf, st, ve, na) ==
  /\ fl \in Seq(Byte) /\ tx \in Seq(Byte) /\ st \in Seq(Byte)
  /\ uu \in Seq(Byte) /\ Len(uu) = 16
  /\ mf \in Seq(Byte) /\ Len(mf) = 8
  /\ ve \in Seq(Byte) /\ Len(ve) >= 2
  /\ na \in Seq(Byte)

\* Copying a full UUID replaces all of the old one.
LEMMA MoveAll ==
  ASSUME NEW dst \in Seq(Byte), NEW src \in Seq(Byte), Len(dst) = Len(src)
  PROVE  memmove(dst, src) = src
<1>1. DOMAIN dst = DOMAIN src /\ src = [i \in DOMAIN src |-> src[i]] OBVIOUS
<1>2. memmove(dst, src) = [i \in DOMAIN dst |-> IF i \in DOMAIN src THEN src[i] ELSE dst[i]]
  BY DEF memmove
<1> QED BY <1>1, <1>2

\* Bytes are numbers.
LEMMA ByteInt == ASSUME NEW x \in Byte PROVE x \in Int
BY DEF Byte

\* A byte of a structure.
LEMMA ByteAt ==
  ASSUME NEW b \in Seq(Byte), NEW k \in Nat, 1 <= k, k <= Len(b)
  PROVE  b[k] \in Byte /\ b[k] \in Int
<1>1. b[k] \in Byte OBVIOUS
<1>2. \A x \in Byte : x \in Int BY ByteInt
<1> QED BY <1>1, <1>2

\* The number of bytes.
LEMMA SomeBytes ==
  ASSUME NEW b \in Seq(Byte)
  PROVE  Len(b) \in Nat /\ (b # <<>> => Len(b) >= 1)
OBVIOUS

\* Big-endian numbers, as the parser and the reference put them together.
LEMMA BigEndian ==
  ASSUME NEW w \in Int, NEW x \in Int, NEW y \in Int, NEW z \in Int
  PROVE  /\ z + 2^8 * y = y * 256 + z
         /\ z + 2^8 * y + 2^16 * x + 2^24 * w = ((w * 256 + x) * 256 + y) * 256 + z
<1>1. 2^8 = 256 /\ 2^16 = 65536 /\ 2^24 = 16777216 OBVIOUS
<1>2. z + 256 * y = y * 256 + z OBVIOUS
<1>3. z + 256 * y + 65536 * x + 16777216 * w = ((w * 256 + x) * 256 + y) * 256 + z OBVIOUS
<1> QED BY <1>1, <1>2, <1>3

\* The manufacturer data of the parser and of the reference.
LEMMA MfgOf ==
  ASSUME NEW b \in Seq(Byte), NEW old
  PROVE  anki_vehicle_parse_mfg_data(b, old) =
           IF Len(b) = 8
           THEN [identifier |-> ((b[5] * 256 + b[6]) * 256 + b[7]) * 256 + b[8],
                 model_id |-> b[4], product_id |-> b[1] * 256 + b[2]]
           ELSE old
<1>1. CASE Len(b) # 8 BY <1>1 DEF anki_vehicle_parse_mfg_data
<1>2. CASE Len(b) = 8
  <2>1. ASSUME NEW k \in 1..8 PROVE b[k] \in Int
    <3>1. k \in Nat /\ 1 <= k /\ k <= 8 OBVIOUS
    <3>2. k <= Len(b) BY <1>2, <3>1
    <3> QED BY <3>1, <3>2, ByteAt
  <2>3. b[2] + 2^8 * b[1] = b[1] * 256 + b[2]
    <3>1. b[1] \in Int /\ b[2] \in Int /\ 0 \in Int BY <2>1
    <3> QED BY <3>1, BigEndian
  <2>4. b[8] + 2^8 * b[7] + 2^16 * b[6] + 2^24 * b[5]
          = ((b[5] * 256 + b[6]) * 256 + b[7]) * 256 + b[8]
    <3> DEFINE w == b[5]
               x == b[6]
               y == b[7]
               z == b[8]
    <3>1. w \in Int /\ x \in Int /\ y \in Int /\ z \in Int BY <2>1
    <3> HIDE DEF w, x, y, z
    <3>2. z + 2^8 * y + 2^16 * x + 2^24 * w = ((w * 256 + x) * 256 + y) * 256 + z
      BY <3>1, BigEndian
    <3> QED BY <3>2 DEF w, x, y, z
  <2> QED BY <1>2, <2>3, <2>4 DEF anki_vehicle_parse_mfg_data
<1> QED BY <1>1, <1>2

\* The state bits of the parser and of the reference.
LEMMA StateBits ==
  ASSUME NEW s \in Byte
  PROVE  /\ IS_VEHICLE_STATE_SET(s, 4) = (s % 32 >= 16)
         /\ IS_VEHICLE_STATE_SET(s, 5) = (s % 64 >= 32)
         /\ IS_VEHICLE_STATE_SET(s, 6) = (s % 128 >= 64)
<1>1. 2^4 = 16 /\ 2^5 = 32 /\ 2^6 = 64 OBVIOUS
<1>2. s \in 0..255 BY DEF Byte
<1>3. ((s \div 16) % 2 = 1) = (s % 32 >= 16) BY <1>2
<1>4. ((s \div 32) % 2 = 1) = (s % 64 >= 32) BY <1>2
<1>5. ((s \div 64) % 2 = 1) = (s % 128 >= 64) BY <1>2
<1>6. IS_VEHICLE_STATE_SET(s, 4) = ((s \div 16) % 2 = 1) BY <1>1 DEF IS_VEHICLE_STATE_SET
<1>7. IS_VEHICLE_STATE_SET(s, 5) = ((s \div 32) % 2 = 1) BY <1>1 DEF IS_VEHICLE_STATE_SET
<1>8. IS_VEHICLE_STATE_SET(s, 6) = ((s \div 64) % 2 = 1) BY <1>1 DEF IS_VEHICLE_STATE_SET
<1> QED BY <1>3, <1>4, <1>5, <1>6, <1>7, <1>8

\* The local name of the reference.
NameOf(st, ve, na) ==
  [full_battery |-> st[1] % 32 >= 16, low_battery |-> st[1] % 64 >= 32,
   on_charger |-> st[1] % 128 >= 64,
   version |-> IF Len(ve) = 2 THEN ve[2] ELSE ve[3] * 256 + ve[2],
   name |-> SubSeq(na, 9, Len(na))]

\* The local name of the parser is that of the reference.
LEMMA NameIs ==
  ASSUME NEW b \in Seq(Byte), Len(b) <= 20, NEW st \in Seq(Byte), NEW ve \in Seq(Byte),
         NEW na \in Seq(Byte)
  PROVE  anki_vehicle_parse_local_name(b, NameOf(st, ve, na)) =
           NameOf(IF Len(b) \in 1..20 THEN b ELSE st, IF Len(b) \in 2..20 THEN b ELSE ve,
                  IF Len(b) \in 9..20 THEN b ELSE na)
<1> DEFINE old == NameOf(st, ve, na)
           x == anki_vehicle_parse_local_name(b, old)
<1>1. CASE b = <<>>
  <2>1. Len(b) = 0 BY <1>1
  <2>2. x = old BY <1>1 DEF anki_vehicle_parse_local_name
  <2>3. Len(b) \notin 1..20 /\ Len(b) \notin 2..20 /\ Len(b) \notin 9..20 BY <2>1
  <2> HIDE DEF x
  <2>4. x = NameOf(st, ve, na) BY <2>2
  <2> QED BY <2>3, <2>4 DEF x, old
<1>2. CASE b # <<>>
  <2>1. Len(b) \in 1..20 /\ b[1] \in Byte
    <3> DEFINE n == Len(b)
    <3>1. n \in Nat /\ n >= 1 /\ n <= 20 BY <1>2, SomeBytes
    <3> HIDE DEF n
    <3>2. n \in 1..20 BY <3>1
    <3>3. b[1] \in Byte BY <3>1, ByteAt DEF n
    <3> QED BY <3>2, <3>3 DEF n
  <2> DEFINE v == IF Len(b) > 2 THEN b[2] + 2^8 * b[3]
                    ELSE IF Len(b) = 2 THEN b[2] ELSE old.version
             m == IF Len(b) > 8 THEN SubSeq(b, 9, Len(b)) ELSE old.name
  <2>2. x = [full_battery |-> IS_VEHICLE_STATE_SET(b[1], 4),
             low_battery  |-> IS_VEHICLE_STATE_SET(b[1], 5),
             on_charger   |-> IS_VEHICLE_STATE_SET(b[1], 6),
             version |-> v, name |-> m]
    BY <1>2 DEF anki_vehicle_parse_local_name
  <2>3. /\ old.version = IF Len(ve) = 2 THEN ve[2] ELSE ve[3] * 256 + ve[2]
        /\ old.name = SubSeq(na, 9, Len(na))
    BY DEF NameOf
  <2> DEFINE w == IF Len(b) \in 2..20 THEN b ELSE ve
             k == IF Len(b) \in 9..20 THEN b ELSE na
  <2> HIDE DEF x, old
  <2>4. v = IF Len(w) = 2 THEN w[2] ELSE w[3] * 256 + w[2]
    <3>1. Len(b) \in Nat BY SomeBytes
    <3>2. CASE Len(b) > 2
      <4>1. b[2] \in Int /\ b[3] \in Int BY <3>1, <3>2, ByteAt
      <4>2. Len(b) \in 2..20 /\ Len(b) # 2
        <5> DEFINE n == Len(b)
        <5>1. n \in Nat /\ n > 2 /\ n <= 20 BY <3>1, <3>2
        <5> HIDE DEF n
        <5>2. n \in 2..20 /\ n # 2 BY <5>1
        <5> QED BY <5>2 DEF n
      <4>3. b[2] + 2^8 * b[3] = b[3] * 256 + b[2] BY <4>1, BigEndian
      <4>4. w = b BY <4>2
      <4>5. v = b[2] + 2^8 * b[3] BY <3>2
      <4> HIDE DEF v, w
      <4> QED BY <4>2, <4>3, <4>4, <4>5
    <3>3. CASE Len(b) = 2 BY <3>3
    <3>4. CASE Len(b) = 1 BY <2>3, <3>4
    <3> QED BY <2>1, <3>2, <3>3, <3>4
  <2>5. m = SubSeq(k, 9, Len(k))
    <3>1. Len(b) > 8 <=> Len(b) \in 9..20
      <4> DEFINE n == Len(b)
      <4>1. n \in 1..20 BY <2>1
      <4> HIDE DEF n
      <4>2. n > 8 <=> n \in 9..20 BY <4>1
      <4> QED BY <4>2 DEF n
    <3>2. CASE Len(b) > 8 BY <3>1, <3>2
    <3>3. CASE ~ Len(b) > 8 BY <2>3, <3>1, <3>3
    <3> QED BY <3>2, <3>3
  <2> HIDE DEF v, m, w, k
  <2>6. x = NameOf(b, w, k) BY <2>1, <2>2, <2>4, <2>5, StateBits DEF NameOf
  <2> QED BY <2>1, <2>6 DEF x, w, k, old
<1> QED BY <1>1, <1>2

\* A structure that counts makes of the record what the reference says.
LEMMA UpdateIs ==
  ASSUME NEW r, IsStructure(r), ~ stops(r), NEW fl, NEW tx, NEW uu, NEW mf, NEW st, NEW ve,
         NEW na, AreData(fl, tx, uu, mf, st, ve, na)
  PROVE  update(AdvOf(fl, tx, uu, mf, st, ve, na), r) =
           AdvOf(Newer(r, "FLAGS", 1, 1, fl), Newer(r, "TX_POWER", 1, 1, tx),
                 Newer(r, "UUID_128", 16, 16, uu), Newer(r, "MANUFACTURER_DATA", 8, 8, mf),
                 Newer(r, "LOCAL_NAME", 1, 20, st), Newer(r, "LOCAL_NAME", 2, 20, ve),
                 Newer(r, "LOCAL_NAME", 9, 20, na))
<1> DEFINE M(d) == [identifier |-> ((d[5] * 256 + d[6]) * 256 + d[7]) * 256 + d[8],
                    model_id |-> d[4], product_id |-> d[1] * 256 + d[2]]
           A(f, t, u, m, n) == [flags |-> f, tx_power |-> t, service_id |-> u, mfg_data |-> m,
                                local_name |-> n]
           nf == Newer(r, "FLAGS", 1, 1, fl)
           nt == Newer(r, "TX_POWER", 1, 1, tx)
           nu == Newer(r, "UUID_128", 16, 16, uu)
           nm == Newer(r, "MANUFACTURER_DATA", 8, 8, mf)
           ns == Newer(r, "LOCAL_NAME", 1, 20, st)
           nv == Newer(r, "LOCAL_NAME", 2, 20, ve)
           nn == Newer(r, "LOCAL_NAME", 9, 20, na)
           adv == A(fl[1], tx[1], uu, M(mf), NameOf(st, ve, na))
           new == A(nf[1], nt[1], nu, M(nm), NameOf(ns, nv, nn))
<1>1. AdvOf(fl, tx, uu, mf, st, ve, na) = adv BY DEF AdvOf, NameOf
<1>2. AdvOf(nf, nt, nu, nm, ns, nv, nn) = new BY DEF AdvOf, NameOf
<1>3. adv # NULL
  <2>1. "null" \notin DOMAIN adv OBVIOUS
  <2>2. "null" \in DOMAIN NULL BY DEF NULL
  <2> QED BY <2>1, <2>2
<1>4. r.data \in Seq(Byte) /\ Len(r.data) \in Nat BY DEF IsStructure
<1>5. CASE r.type = "FLAGS"
  <2>1. update(adv, r) = [adv EXCEPT !.flags = memmove1(fl[1], r.data)] BY <1>3, <1>5 DEF update
  <2>2. nt = tx /\ nu = uu /\ nm = mf /\ ns = st /\ nv = ve /\ nn = na BY <1>5 DEF Newer, Matches
  <2>3. Len(r.data) <= 1 BY <1>5 DEF IsStructure, WellFormed
  <2>4. memmove1(fl[1], r.data) = nf[1]
    <3>1. CASE r.data = <<>> BY <1>5, <3>1 DEF memmove1, Newer, Matches
    <3>2. CASE r.data # <<>>
      <4>1. Len(r.data) \in 1..1
        <5> DEFINE n == Len(r.data)
        <5>1. n \in Nat /\ n >= 1 /\ n <= 1 BY <1>4, <2>3, <3>2, SomeBytes
        <5> HIDE DEF n
        <5>2. n \in 1..1 BY <5>1
        <5> QED BY <5>2 DEF n
      <4> QED BY <1>5, <3>2, <4>1 DEF memmove1, Newer, Matches
    <3> QED BY <3>1, <3>2
  <2> HIDE DEF nf, nt, nu, nm, ns, nv, nn
  <2>5. update(adv, r) = new BY <2>1, <2>2, <2>4
  <2> QED BY <1>1, <1>2, <2>5 DEF nf, nt, nu, nm, ns, nv, nn
<1>6. CASE r.type = "TX_POWER"
  <2>1. update(adv, r) = [adv EXCEPT !.tx_power = memmove1(tx[1], r.data)] BY <1>3, <1>6 DEF update
  <2>2. nf = fl /\ nu = uu /\ nm = mf /\ ns = st /\ nv = ve /\ nn = na BY <1>6 DEF Newer, Matches
  <2>3. Len(r.data) <= 1 BY <1>6 DEF IsStructure, WellFormed
  <2>4. memmove1(tx[1], r.data) = nt[1]
    <3>1. CASE r.data = <<>> BY <1>6, <3>1 DEF memmove1, Newer, Matches
    <3>2. CASE r.data # <<>>
      <4>1. Len(r.data) \in 1..1
        <5> DEFINE n == Len(r.data)
        <5>1. n \in Nat /\ n >= 1 /\ n <= 1 BY <1>4, <2>3, <3>2, SomeBytes
        <5> HIDE DEF n
        <5>2. n \in 1..1 BY <5>1
        <5> QED BY <5>2 DEF n
      <4> QED BY <1>6, <3>2, <4>1 DEF memmove1, Newer, Matches
    <3> QED BY <3>1, <3>2
  <2> HIDE DEF nf, nt, nu, nm, ns, nv, nn
  <2>5. update(adv, r) = new BY <2>1, <2>2, <2>4
  <2> QED BY <1>1, <1>2, <2>5 DEF nf, nt, nu, nm, ns, nv, nn
<1>7. CASE r.type = "UUID_128"
  <2>1. update(adv, r) = [adv EXCEPT !.service_id = memmove(uu, r.data)] BY <1>3, <1>7 DEF update
  <2>2. nf = fl /\ nt = tx /\ nm = mf /\ ns = st /\ nv = ve /\ nn = na BY <1>7 DEF Newer, Matches
  <2>3. Len(r.data) = 16 BY <1>7 DEF IsStructure
  <2>4. memmove(uu, r.data) = r.data BY <1>4, <2>3, MoveAll DEF AreData
  <2>5. nu = r.data BY <1>7, <2>3 DEF Newer, Matches
  <2> HIDE DEF nf, nt, nu, nm, ns, nv, nn
  <2>6. update(adv, r) = new BY <2>1, <2>2, <2>4, <2>5
  <2> QED BY <1>1, <1>2, <2>6 DEF nf, nt, nu, nm, ns, nv, nn
<1>8. CASE r.type = "MANUFACTURER_DATA"
  <2>1. update(adv, r) = [adv EXCEPT !.mfg_data = anki_vehicle_parse_mfg_data(r.data, M(mf))]
    BY <1>3, <1>8 DEF update
  <2>2. nf = fl /\ nt = tx /\ nu = uu /\ ns = st /\ nv = ve /\ nn = na BY <1>8 DEF Newer, Matches
  <2>3. anki_vehicle_parse_mfg_data(r.data, M(mf)) = IF Len(r.data) = 8 THEN M(r.data) ELSE M(mf)
    BY <1>4, MfgOf
  <2>4. nm = IF Len(r.data) = 8 THEN r.data ELSE mf BY <1>4, <1>8 DEF Newer, Matches
  <2>5. anki_vehicle_parse_mfg_data(r.data, M(mf)) = M(nm)
    <3> HIDE DEF nm
    <3> QED BY <2>3, <2>4
  <2> HIDE DEF nf, nt, nu, nm, ns, nv, nn, M
  <2>6. update(adv, r) = new BY <2>1, <2>2, <2>5
  <2> QED BY <1>1, <1>2, <2>6 DEF nf, nt, nu, nm, ns, nv, nn, M
<1>9. CASE r.type = "LOCAL_NAME"
  <2> DEFINE x == anki_vehicle_parse_local_name(r.data, NameOf(st, ve, na))
  <2>1. update(adv, r) = [adv EXCEPT !.local_name = x] BY <1>3, <1>9 DEF update
  <2>2. nf = fl /\ nt = tx /\ nu = uu /\ nm = mf BY <1>9 DEF Newer, Matches
  <2>3. Len(r.data) <= 20 BY <1>9 DEF IsStructure, WellFormed
  <2>4. /\ ns = IF Len(r.data) \in 1..20 THEN r.data ELSE st
        /\ nv = IF Len(r.data) \in 2..20 THEN r.data ELSE ve
        /\ nn = IF Len(r.data) \in 9..20 THEN r.data ELSE na
    BY <1>9 DEF Newer, Matches
  <2>5. x = NameOf(ns, nv, nn)
    <3> HIDE DEF ns, nv, nn
    <3> QED BY <1>4, <2>3, <2>4, NameIs DEF AreData
  <2> HIDE DEF nf, nt, nu, nm, ns, nv, nn, x
  <2>6. update(adv, r) = new BY <2>1, <2>2, <2>5
  <2> QED BY <1>1, <1>2, <2>6 DEF nf, nt, nu, nm, ns, nv, nn
<1>10. r.type \in {"FLAGS", "TX_POWER", "UUID_128", "MANUFACTURER_DATA", "LOCAL_NAME"}
  BY DEF IsStructure, AdType, stops
<1> QED BY <1>5, <1>6, <1>7, <1>8, <1>9, <1>10

\* A history of structures as the parser gets them.
GoodHist(hist) ==
  /\ IsHist(hist)
  /\ \A i \in DOMAIN hist : \A j \in DOMAIN hist[i] : IsStructure(hist[i][j])

\* The data of a field are those of a structure, or the default.
LEMMA LatestData ==
  ASSUME NEW hist, GoodHist(hist), NEW n, NEW k, NEW type, NEW min, NEW max, NEW d, NEW default,
         IsLatest(hist, CarriersTo(hist, n, k, type, min, max), d, default)
  PROVE  d = default \/ (d \in Seq(Byte) /\ Len(d) \in min..max)
<1>1. CASE d = default BY <1>1
<1>2. CASE d # default
  <2>1. PICK x \in CarriersTo(hist, n, k, type, min, max) : d = hist[x[1]][x[2]].data
    BY <1>2 DEF IsLatest
  <2>2. x \in Carriers(hist, type, min, max) BY DEF CarriersTo
  <2>3. /\ x[1] \in DOMAIN hist /\ x[2] \in DOMAIN hist[x[1]]
        /\ Matches(hist[x[1]][x[2]], type, min, max)
    BY <2>2, CarrierIs DEF GoodHist
  <2>4. IsStructure(hist[x[1]][x[2]]) BY <2>3 DEF GoodHist
  <2> QED BY <2>1, <2>3, <2>4 DEF IsStructure, Matches
<1> QED BY <1>1, <1>2

\* The data of the seven fields up to structure k of packet n.
Seven(hist, n, k, fl, tx, uu, mf, st, ve, na) ==
  /\ IsLatest(hist, CarriersTo(hist, n, k, "FLAGS", 1, 1), fl, <<0>>)
  /\ IsLatest(hist, CarriersTo(hist, n, k, "TX_POWER", 1, 1), tx, <<0>>)
  /\ IsLatest(hist, CarriersTo(hist, n, k, "UUID_128", 16, 16), uu, Zero(16))
  /\ IsLatest(hist, CarriersTo(hist, n, k, "MANUFACTURER_DATA", 8, 8), mf, Zero(8))
  /\ IsLatest(hist, CarriersTo(hist, n, k, "LOCAL_NAME", 1, 20), st, <<0>>)
  /\ IsLatest(hist, CarriersTo(hist, n, k, "LOCAL_NAME", 2, 20), ve, Zero(3))
  /\ IsLatest(hist, CarriersTo(hist, n, k, "LOCAL_NAME", 9, 20), na, <<>>)

\* Zeros are bytes.
LEMMA ZeroData ==
  ASSUME NEW n \in Nat
  PROVE  Zero(n) \in Seq(Byte) /\ Len(Zero(n)) = n
<1>1. 0 \in Byte BY DEF Byte
<1>2. Zero(n) = [i \in 1..n |-> 0] BY DEF Zero
<1> QED BY <1>1, <1>2

\* They have the types that UpdateIs asks for.
LEMMA SevenData ==
  ASSUME NEW hist, GoodHist(hist), NEW n, NEW k, NEW fl, NEW tx, NEW uu, NEW mf, NEW st, NEW ve,
         NEW na, Seven(hist, n, k, fl, tx, uu, mf, st, ve, na)
  PROVE  AreData(fl, tx, uu, mf, st, ve, na)
<1>0. <<0>> \in Seq(Byte)
  <2>1. 0 \in Byte BY DEF Byte
  <2> QED BY <2>1
<1>1. fl \in Seq(Byte) BY <1>0, LatestData DEF Seven
<1>2. tx \in Seq(Byte) BY <1>0, LatestData DEF Seven
<1>3. uu \in Seq(Byte) /\ Len(uu) = 16
  <2>1. uu = Zero(16) \/ (uu \in Seq(Byte) /\ Len(uu) \in 16..16) BY LatestData DEF Seven
  <2>2. Zero(16) \in Seq(Byte) /\ Len(Zero(16)) = 16 BY ZeroData
  <2>3. \A m \in 16..16 : m = 16 OBVIOUS
  <2> QED BY <2>1, <2>2, <2>3
<1>4. mf \in Seq(Byte) /\ Len(mf) = 8
  <2>1. mf = Zero(8) \/ (mf \in Seq(Byte) /\ Len(mf) \in 8..8) BY LatestData DEF Seven
  <2>2. Zero(8) \in Seq(Byte) /\ Len(Zero(8)) = 8 BY ZeroData
  <2>3. \A m \in 8..8 : m = 8 OBVIOUS
  <2> QED BY <2>1, <2>2, <2>3
<1>5. st \in Seq(Byte) BY <1>0, LatestData DEF Seven
<1>6. ve \in Seq(Byte) /\ Len(ve) >= 2
  <2>1. ve = Zero(3) \/ (ve \in Seq(Byte) /\ Len(ve) \in 2..20) BY LatestData DEF Seven
  <2>2. Zero(3) \in Seq(Byte) /\ Len(Zero(3)) = 3 BY ZeroData
  <2>3. \A m \in 2..20 : m >= 2 OBVIOUS
  <2>4. 3 >= 2 OBVIOUS
  <2> QED BY <2>1, <2>2, <2>3, <2>4
<1>7. na \in Seq(Byte)
  <2>1. na = <<>> \/ (na \in Seq(Byte) /\ Len(na) \in 9..20) BY LatestData DEF Seven
  <2>2. <<>> \in Seq(Byte) OBVIOUS
  <2> QED BY <2>1, <2>2
<1> QED BY <1>1, <1>2, <1>3, <1>4, <1>5, <1>6, <1>7 DEF AreData

\* The record of what was heard up to structure k of packet n.
KnowsTo(hist, n, k, adv) ==
  \E fl, tx, uu, mf, st, ve, na :
    Seven(hist, n, k, fl, tx, uu, mf, st, ve, na) /\ adv = AdvOf(fl, tx, uu, mf, st, ve, na)

\* One more structure: one that counts is parsed, another one changes nothing.
LEMMA KnowsMore ==
  ASSUME NEW hist, GoodHist(hist), NEW n \in DOMAIN hist, \A i \in DOMAIN hist : i <= n,
         NEW k \in DOMAIN hist[n], NEW adv, KnowsTo(hist, n, k - 1, adv)
  PROVE  /\ k \in Effective(hist[n]) => KnowsTo(hist, n, k, update(adv, hist[n][k]))
         /\ k \notin Effective(hist[n]) => KnowsTo(hist, n, k, adv)
<1>1. PICK fl, tx, uu, mf, st, ve, na :
         /\ Seven(hist, n, k - 1, fl, tx, uu, mf, st, ve, na)
         /\ adv = AdvOf(fl, tx, uu, mf, st, ve, na)
  BY DEF KnowsTo
<1> DEFINE r == hist[n][k]
<1>2. IsHist(hist) BY DEF GoodHist
<1>3. ASSUME NEW type, NEW min, NEW max, NEW d, NEW default,
             IsLatest(hist, CarriersTo(hist, n, k - 1, type, min, max), d, default)
      PROVE  /\ k \in Effective(hist[n]) =>
                  IsLatest(hist, CarriersTo(hist, n, k, type, min, max), Newer(r, type, min, max, d), default)
             /\ k \notin Effective(hist[n]) =>
                  IsLatest(hist, CarriersTo(hist, n, k, type, min, max), d, default)
  <2> DEFINE e == IF k \in Effective(hist[n]) /\ Matches(hist[n][k], type, min, max)
                    THEN hist[n][k].data ELSE d
  <2>1. IsLatest(hist, CarriersTo(hist, n, k, type, min, max), e, default) BY <1>2, <1>3, OneMore
  <2>2. CASE k \in Effective(hist[n])
    <3>1. e = Newer(r, type, min, max, d) BY <2>2 DEF Newer
    <3> HIDE DEF e
    <3> QED BY <2>1, <2>2, <3>1
  <2>3. CASE k \notin Effective(hist[n])
    <3>1. e = d BY <2>3
    <3> HIDE DEF e
    <3> QED BY <2>1, <2>3, <3>1
  <2> QED BY <2>2, <2>3
<1>4. CASE k \notin Effective(hist[n])
  <2>1. Seven(hist, n, k, fl, tx, uu, mf, st, ve, na) BY <1>1, <1>3, <1>4 DEF Seven
  <2>2. KnowsTo(hist, n, k, adv) BY <1>1, <2>1, Zenon DEF KnowsTo
  <2> QED BY <1>4, <2>2
<1>5. CASE k \in Effective(hist[n])
  <2> DEFINE nf == Newer(r, "FLAGS", 1, 1, fl)
             nt == Newer(r, "TX_POWER", 1, 1, tx)
             nu == Newer(r, "UUID_128", 16, 16, uu)
             nm == Newer(r, "MANUFACTURER_DATA", 8, 8, mf)
             ns == Newer(r, "LOCAL_NAME", 1, 20, st)
             nv == Newer(r, "LOCAL_NAME", 2, 20, ve)
             nn == Newer(r, "LOCAL_NAME", 9, 20, na)
  <2>1. Seven(hist, n, k, nf, nt, nu, nm, ns, nv, nn) BY <1>1, <1>3, <1>5 DEF Seven
  <2>2. AreData(fl, tx, uu, mf, st, ve, na) BY <1>1, SevenData
  <2>3. IsStructure(r) BY DEF GoodHist
  <2>4. ~ stops(r)
    <3>1. k \in 1..k
      <4>1. hist[n] \in Packet BY <1>2 DEF IsHist
      <4>2. DOMAIN hist[n] = 1..Len(hist[n]) /\ Len(hist[n]) \in Nat BY <4>1 DEF Packet
      <4> QED BY <4>2
    <3> QED BY <1>5, <3>1 DEF Effective
  <2>5. update(adv, r) = AdvOf(nf, nt, nu, nm, ns, nv, nn) BY <1>1, <2>2, <2>3, <2>4, UpdateIs
  <2> HIDE DEF nf, nt, nu, nm, ns, nv, nn, r
  <2>6. KnowsTo(hist, n, k, update(adv, r)) BY <2>1, <2>5, Zenon DEF KnowsTo
  <2> QED BY <1>5, <2>6 DEF r
<1> QED BY <1>4, <1>5

\* A history with one more packet.
Heard(old, n, hist) ==
  /\ n \in DOMAIN hist /\ \A i \in DOMAIN hist : i <= n
  /\ old = [i \in DOMAIN hist \ {n} |-> hist[i]]

\* Before the packet and behind it.
LEMMA KnowsEnds ==
  ASSUME NEW hist, IsHist(hist), NEW n, NEW old, Heard(old, n, hist),
         NEW type, NEW min, NEW max
  PROVE  /\ CarriersTo(hist, n, 0, type, min, max) = Carriers(old, type, min, max)
         /\ CarriersTo(hist, n, Len(hist[n]), type, min, max) = Carriers(hist, type, min, max)
<1> DEFINE at == Carriers(hist, type, min, max)
           a0 == Carriers(old, type, min, max)
<1>0. n \in DOMAIN hist /\ \A i \in DOMAIN hist : i <= n BY DEF Heard
<1>1. IsHist(old) /\ DOMAIN old = DOMAIN hist \ {n} /\ \A i \in DOMAIN old : old[i] = hist[i]
  BY DEF IsHist, Heard
<1>2. n \in Nat /\ DOMAIN hist[n] = 1..Len(hist[n]) /\ Len(hist[n]) \in Nat
  <2>1. n \in Nat /\ hist[n] \in Packet BY <1>0 DEF IsHist
  <2> QED BY <2>1 DEF Packet
<1>3. ASSUME NEW x \in at
      PROVE  x[2] <= Len(hist[n]) \/ x[1] < n
  <2>1. x[1] \in DOMAIN hist /\ x[1] \in Nat /\ x[2] \in DOMAIN hist[x[1]] BY CarrierIs
  <2>2. CASE x[1] = n BY <1>2, <2>1, <2>2
  <2>3. CASE x[1] # n BY <1>0, <1>2, <2>1, <2>3
  <2> QED BY <2>2, <2>3
<1>4. CarriersTo(hist, n, Len(hist[n]), type, min, max) = at BY <1>3 DEF CarriersTo
<1>5. ASSUME NEW x \in at, x[1] < n \/ x[2] <= 0 PROVE x \in a0
  <2>1. /\ x[1] \in DOMAIN hist /\ x[2] \in Effective(hist[x[1]]) /\ x = <<x[1], x[2]>>
        /\ x[1] \in Nat /\ x[2] \in Nat /\ x[2] >= 1
        /\ Matches(hist[x[1]][x[2]], type, min, max)
    BY CarrierIs
  <2>2. x[1] # n BY <1>2, <1>5, <2>1
  <2>3. x[1] \in DOMAIN old /\ old[x[1]] = hist[x[1]] BY <1>1, <2>1, <2>2
  <2>4. <<x[1], x[2]>> \in Carriers(old, type, min, max) BY <2>1, <2>3, IsCarrier
  <2> QED BY <2>1, <2>4
<1>6. ASSUME NEW x \in a0 PROVE x \in at /\ x[1] < n
  <2>1. /\ x[1] \in DOMAIN old /\ x[2] \in Effective(old[x[1]]) /\ x = <<x[1], x[2]>>
        /\ x[1] \in Nat /\ Matches(old[x[1]][x[2]], type, min, max)
    BY <1>1, CarrierIs
  <2>2. x[1] \in DOMAIN hist /\ x[1] # n /\ old[x[1]] = hist[x[1]] BY <1>1, <2>1
  <2>3. <<x[1], x[2]>> \in Carriers(hist, type, min, max) BY <2>1, <2>2, IsCarrier
  <2>4. x[1] < n BY <1>0, <1>2, <2>1, <2>2
  <2> QED BY <2>1, <2>3, <2>4
<1>7. CarriersTo(hist, n, 0, type, min, max) = {x \in at : x[1] < n \/ x[2] <= 0} BY DEF CarriersTo
<1> HIDE DEF at, a0
<1>8. {x \in at : x[1] < n \/ x[2] <= 0} = a0 BY <1>5, <1>6
<1> QED BY <1>4, <1>7, <1>8 DEF at, a0

-----------------------------------------------------------------------------
(***************************************************************************)
(* The loop, step by step.                                                 *)
(***************************************************************************)
\* The states of the loop.
LEMMA LoopStates ==
  ASSUME NEW pkt, Len(pkt) \in Nat, NEW adv0, NEW s, s = parse_states(pkt, adv0)
  PROVE  /\ s[0] = [adv |-> adv0, ret |-> "next"]
         /\ \A i \in 1..Len(pkt) : s[i] = parse_step(s[i - 1], pkt[i])
<1> DEFINE n == Len(pkt)
           f == [j \in 0..n |-> IF j = 0 THEN [adv |-> adv0, ret |-> "next"]
                                ELSE parse_step(s[j - 1], pkt[j])]
<1>1. s = f
  <2>1. IsRun(s, n, pkt, adv0) BY StatesRun
  <2> QED BY <2>1 DEF IsRun
<1>2. f[0] = [adv |-> adv0, ret |-> "next"] OBVIOUS
<1>3. ASSUME NEW i \in 1..n PROVE f[i] = parse_step(s[i - 1], pkt[i])
  <2>1. i \in 0..n /\ i # 0 OBVIOUS
  <2> QED BY <2>1
<1> HIDE DEF f
<1> QED BY <1>1, <1>2, <1>3

\* No structure before this one ends the parsing.
First(pkt, i) == \A j \in 1..(i - 1) : ~ stops(pkt[j])

\* Whether and where the loop has stopped within the first k structures.
Stopped(pkt, k, ret) ==
  \/ ret = "next" /\ \A i \in 1..k : ~ stops(pkt[i])
  \/ ret = "break" /\ \E i \in 1..k : First(pkt, i) /\ pkt[i].type \in {"END", "INVALID"}
  \/ /\ ret \in {"2", "3"}
     /\ \E i \in 1..k : First(pkt, i) /\ (pkt[i].type = "UNKNOWN" \/ foreign_uuid(pkt[i]))

\* What the loop has returned and what it knows.
LoopKnows(hist, n, k, s) ==
  /\ s = [f \in {"adv", "ret"} |-> s[f]]
  /\ KnowsTo(hist, n, k, s.adv)
  /\ Stopped(hist[n], k, s.ret)

\* What is known is a record.
LEMMA KnownNotNull ==
  ASSUME NEW hist, NEW n, NEW k, NEW adv, KnowsTo(hist, n, k, adv)
  PROVE  adv # NULL
<1>1. PICK fl, tx, uu, mf, st, ve, na : adv = AdvOf(fl, tx, uu, mf, st, ve, na) BY DEF KnowsTo
<1>2. "null" \notin DOMAIN AdvOf(fl, tx, uu, mf, st, ve, na) BY DEF AdvOf
<1>3. "null" \in DOMAIN NULL BY DEF NULL
<1> QED BY <1>1, <1>2, <1>3

\* A step of the loop over the last packet.
LEMMA LoopKnowsStep ==
  ASSUME NEW hist, GoodHist(hist), NEW n \in DOMAIN hist, \A i \in DOMAIN hist : i <= n,
         NEW k \in DOMAIN hist[n], NEW s, LoopKnows(hist, n, k - 1, s)
  PROVE  LoopKnows(hist, n, k, parse_step(s, hist[n][k]))
<1> DEFINE pkt == hist[n]
           r == pkt[k]
           t == parse_step(s, r)
<1>1. k \in Nat /\ k >= 1 /\ DOMAIN pkt = 1..Len(pkt)
  <2>1. pkt \in Packet BY DEF GoodHist, IsHist
  <2>2. DOMAIN pkt = 1..Len(pkt) /\ Len(pkt) \in Nat BY <2>1 DEF Packet
  <2> QED BY <2>2
<1>2. s.adv # NULL BY KnownNotNull DEF LoopKnows
<1>3. k \in Effective(pkt) <=> \A j \in 1..k : ~ stops(pkt[j]) BY DEF Effective
<1>4. /\ k \in Effective(pkt) => KnowsTo(hist, n, k, update(s.adv, r))
      /\ k \notin Effective(pkt) => KnowsTo(hist, n, k, s.adv)
  BY KnowsMore DEF LoopKnows
<1>5. \A j \in 1..k : j \in 1..(k - 1) \/ j = k BY <1>1
<1>6. \A j \in 1..(k - 1) : j \in 1..k BY <1>1
<1>7. CASE s.ret # "next"
  <2>1. t = s BY <1>7 DEF parse_step
  <2>2. \E i \in 1..(k - 1) : stops(pkt[i]) BY <1>7 DEF LoopKnows, Stopped, stops
  <2>3. k \notin Effective(pkt) BY <1>3, <1>6, <2>2
  <2>4. Stopped(pkt, k, s.ret) BY <1>6, <1>7 DEF LoopKnows, Stopped
  <2> HIDE DEF t, pkt
  <2>5. LoopKnows(hist, n, k, t) BY <1>4, <2>1, <2>3, <2>4 DEF LoopKnows, pkt
  <2> QED BY <2>5 DEF t, pkt
<1>8. CASE s.ret = "next"
  <2>1. \A i \in 1..(k - 1) : ~ stops(pkt[i]) BY <1>8 DEF LoopKnows, Stopped
  <2>2. CASE ~ stops(r)
    <3>1. t = [s EXCEPT !.adv = update(s.adv, r)] BY <1>2, <1>8, <2>2 DEF parse_step, stops
    <3>2. \A i \in 1..k : ~ stops(pkt[i]) BY <1>5, <2>1, <2>2
    <3>3. KnowsTo(hist, n, k, update(s.adv, r)) BY <1>3, <1>4, <3>2
    <3> DEFINE a == update(s.adv, r)
    <3> HIDE DEF t, a
    <3>4. t.adv = a /\ t.ret = "next" /\ t = [f \in {"adv", "ret"} |-> t[f]]
      BY <1>8, <3>1 DEF LoopKnows, a
    <3>5. Stopped(pkt, k, t.ret) BY <3>2, <3>4 DEF Stopped
    <3>6. LoopKnows(hist, n, k, t) BY <3>3, <3>4, <3>5 DEF LoopKnows, a
    <3> QED BY <3>6 DEF t
  <2>3. CASE stops(r)
    <3>1. PICK x \in {"break", "2", "3"} :
            /\ t = [s EXCEPT !.ret = x]
            /\ x = "break" => r.type \in {"END", "INVALID"}
            /\ x # "break" => r.type = "UNKNOWN" \/ foreign_uuid(r)
      <4>1. CASE r.type \in {"END", "INVALID"}
        <5>1. t = [s EXCEPT !.ret = "break"] BY <1>8, <4>1 DEF parse_step, foreign_uuid
        <5> QED BY <4>1, <5>1
      <4>2. CASE r.type = "UNKNOWN"
        <5>1. t = [s EXCEPT !.ret = "3"] BY <1>8, <4>2 DEF parse_step, foreign_uuid
        <5> QED BY <4>2, <5>1
      <4>3. CASE foreign_uuid(r)
        <5>1. r.type = "UUID_128" BY <4>3 DEF foreign_uuid
        <5>2. t = [s EXCEPT !.ret = "2"] BY <1>8, <4>3, <5>1 DEF parse_step
        <5> QED BY <4>3, <5>2
      <4> QED BY <2>3, <4>1, <4>2, <4>3 DEF stops
    <3>2. k \notin Effective(pkt)
      <4>1. k \in 1..k BY <1>1
      <4> QED BY <1>3, <2>3, <4>1
    <3>3. KnowsTo(hist, n, k, s.adv) BY <1>4, <3>2
    <3> HIDE DEF t
    <3>4. t.adv = s.adv /\ t.ret = x /\ t = [f \in {"adv", "ret"} |-> t[f]]
      BY <3>1 DEF LoopKnows
    <3>5. First(pkt, k) /\ k \in 1..k BY <1>1, <2>1 DEF First
    <3>6. Stopped(pkt, k, x)
      <4>1. CASE x = "break" BY <3>1, <3>5, <4>1 DEF Stopped
      <4>2. CASE x # "break" BY <3>1, <3>5, <4>2 DEF Stopped
      <4> QED BY <4>1, <4>2
    <3>7. LoopKnows(hist, n, k, t) BY <3>3, <3>4, <3>6 DEF LoopKnows
    <3> QED BY <3>7 DEF t
  <2> QED BY <2>2, <2>3
<1> QED BY <1>7, <1>8

\* The whole loop over the last packet.
LEMMA LoopKnowsAll ==
  ASSUME NEW hist, GoodHist(hist), NEW n \in DOMAIN hist, \A i \in DOMAIN hist : i <= n,
         NEW adv0, KnowsTo(hist, n, 0, adv0), NEW s, s = parse_states(hist[n], adv0)
  PROVE  LoopKnows(hist, n, Len(hist[n]), s[Len(hist[n])])
<1> DEFINE m == Len(hist[n])
           T == {i \in 0..m : ~ LoopKnows(hist, n, i, s[i])}
<1>1. m \in Nat /\ DOMAIN hist[n] = 1..m
  <2>1. hist[n] \in Packet BY DEF GoodHist, IsHist
  <2> QED BY <2>1 DEF Packet
<1>2. /\ s[0] = [adv |-> adv0, ret |-> "next"]
      /\ \A i \in 1..m : s[i] = parse_step(s[i - 1], hist[n][i])
  BY <1>1, LoopStates
<1>3. LoopKnows(hist, n, 0, s[0])
  <2> DEFINE z == s[0]
  <2>1. z = [f \in {"adv", "ret"} |-> z[f]] /\ z.adv = adv0 /\ z.ret = "next" BY <1>2
  <2>2. Stopped(hist[n], 0, "next") BY DEF Stopped
  <2> HIDE DEF z
  <2>3. LoopKnows(hist, n, 0, z) BY <2>1, <2>2 DEF LoopKnows
  <2> QED BY <2>3 DEF z
<1>4. T = {}
  <2>1. SUFFICES ASSUME T # {} PROVE FALSE OBVIOUS
  <2>2. T \in SUBSET Nat BY <1>1
  <2>3. PICK i \in T : \A k \in T : i <= k
    <3> HIDE DEF T
    <3> QED BY <2>1, <2>2, LeastNat
  <2>4. i # 0 BY <1>3
  <2>5. i \in 1..m /\ i - 1 \in 0..m /\ ~ (i <= i - 1) BY <1>1, <2>4
  <2>6. LoopKnows(hist, n, i - 1, s[i - 1]) BY <2>3, <2>5
  <2>7. LoopKnows(hist, n, i, parse_step(s[i - 1], hist[n][i]))
    <3>1. i \in DOMAIN hist[n] BY <1>1, <2>5
    <3> HIDE DEF T, m
    <3> QED BY <2>6, <3>1, LoopKnowsStep
  <2> QED BY <1>2, <2>5, <2>7
<1>5. m \in 0..m BY <1>1
<1> QED BY <1>4, <1>5

\* What the parser returns, given the last state of its loop.
LEMMA ParseResult ==
  ASSUME NEW pkt, NEW adv0, NEW t, t = parse_states(pkt, adv0)[Len(pkt)],
         t = [f \in {"adv", "ret"} |-> t[f]],
         NEW p, p = anki_vehicle_parse_adv_record(pkt, adv0)
  PROVE  /\ p.adv = t.adv
         /\ p.ret = IF t.ret \notin {"next", "break"} THEN t.ret
                    ELSE IF t.adv # NULL /\ is_anki_vehicle_service_uuid(t.adv.service_id)
                         THEN "0" ELSE "2"
<1> DEFINE v == IF t.adv # NULL /\ is_anki_vehicle_service_uuid(t.adv.service_id)
                THEN "0" ELSE "2"
<1>1. p = IF t.ret \notin {"next", "break"} THEN t ELSE [t EXCEPT !.ret = v]
  BY DEF anki_vehicle_parse_adv_record
<1> HIDE DEF v
<1>2. p.adv = t.adv /\ p.ret = IF t.ret \notin {"next", "break"} THEN t.ret ELSE v
  BY <1>1
<1> QED BY <1>2 DEF v

\* The data of the seven fields in a history.
SevenOf(hist, fl, tx, uu, mf, st, ve, na) ==
  /\ IsLatest(hist, Carriers(hist, "FLAGS", 1, 1), fl, <<0>>)
  /\ IsLatest(hist, Carriers(hist, "TX_POWER", 1, 1), tx, <<0>>)
  /\ IsLatest(hist, Carriers(hist, "UUID_128", 16, 16), uu, Zero(16))
  /\ IsLatest(hist, Carriers(hist, "MANUFACTURER_DATA", 8, 8), mf, Zero(8))
  /\ IsLatest(hist, Carriers(hist, "LOCAL_NAME", 1, 20), st, <<0>>)
  /\ IsLatest(hist, Carriers(hist, "LOCAL_NAME", 2, 20), ve, Zero(3))
  /\ IsLatest(hist, Carriers(hist, "LOCAL_NAME", 9, 20), na, <<>>)

\* The record of what was heard.
Knows(hist, adv) ==
  \E fl, tx, uu, mf, st, ve, na :
    SevenOf(hist, fl, tx, uu, mf, st, ve, na) /\ adv = AdvOf(fl, tx, uu, mf, st, ve, na)

\* It is the reference.
LEMMA KnowsIs ==
  ASSUME NEW hist, IsHist(hist), NEW adv, Knows(hist, adv)
  PROVE  adv = KnownFrom(hist)
<1>1. PICK fl, tx, uu, mf, st, ve, na :
        SevenOf(hist, fl, tx, uu, mf, st, ve, na) /\ adv = AdvOf(fl, tx, uu, mf, st, ve, na)
  BY DEF Knows
<1>2. /\ Latest(hist, "FLAGS", 1, 1, <<0>>) = fl
      /\ Latest(hist, "TX_POWER", 1, 1, <<0>>) = tx
      /\ Latest(hist, "UUID_128", 16, 16, Zero(16)) = uu
      /\ Latest(hist, "MANUFACTURER_DATA", 8, 8, Zero(8)) = mf
  BY <1>1, LatestIs DEF SevenOf
<1>3. /\ Latest(hist, "LOCAL_NAME", 1, 20, <<0>>) = st
      /\ Latest(hist, "LOCAL_NAME", 2, 20, Zero(3)) = ve
      /\ Latest(hist, "LOCAL_NAME", 9, 20, <<>>) = na
  BY <1>1, LatestIs DEF SevenOf
<1> QED BY <1>1, <1>2, <1>3 DEF KnownFrom

\* A scanner that has heard nothing knows what memset left.
LEMMA KnowsNothing ==
  ASSUME NEW hist, DOMAIN hist = {}
  PROVE  Knows(hist, ZeroAdv)
<1>1. ASSUME NEW type, NEW min, NEW max, NEW default
      PROVE  IsLatest(hist, Carriers(hist, type, min, max), default, default)
  BY DEF IsLatest, Carriers
<1>2. SevenOf(hist, <<0>>, <<0>>, Zero(16), Zero(8), <<0>>, Zero(3), <<>>)
  BY <1>1 DEF SevenOf
<1>3. ZeroAdv = AdvOf(<<0>>, <<0>>, Zero(16), Zero(8), <<0>>, Zero(3), <<>>)
  <2> DEFINE m == Zero(8)
             v == Zero(3)
             z == <<0>>
  <2>1. m[1] = 0 /\ m[2] = 0 /\ m[4] = 0 /\ m[5] = 0 /\ m[6] = 0 /\ m[7] = 0 /\ m[8] = 0
    BY DEF Zero
  <2>2. v[2] = 0 /\ v[3] = 0 /\ Len(v) = 3
    <3>1. Len(v) = 3 BY ZeroData
    <3> QED BY <3>1 DEF Zero
  <2>3. SubSeq(<<>>, 9, Len(<<>>)) = <<>> BY SubSeqEmpty
  <2>4. z[1] = 0 OBVIOUS
  <2>5. ((m[5] * 256 + m[6]) * 256 + m[7]) * 256 + m[8] = 0 /\ m[1] * 256 + m[2] = 0 BY <2>1
  <2>6. (z[1] % 32 >= 16) = FALSE /\ (z[1] % 64 >= 32) = FALSE /\ (z[1] % 128 >= 64) = FALSE
    BY <2>4
  <2>7. (IF Len(v) = 2 THEN v[2] ELSE v[3] * 256 + v[2]) = 0 BY <2>2
  <2> HIDE DEF m, v, z
  <2> DEFINE mfg == [identifier |-> ((m[5] * 256 + m[6]) * 256 + m[7]) * 256 + m[8],
                     model_id |-> m[4], product_id |-> m[1] * 256 + m[2]]
             nam == [full_battery |-> z[1] % 32 >= 16, low_battery |-> z[1] % 64 >= 32,
                     on_charger |-> z[1] % 128 >= 64,
                     version |-> IF Len(v) = 2 THEN v[2] ELSE v[3] * 256 + v[2],
                     name |-> SubSeq(<<>>, 9, Len(<<>>))]
  <2>8. mfg = [identifier |-> 0, model_id |-> 0, product_id |-> 0] BY <2>1, <2>5
  <2>9. nam = [full_battery |-> FALSE, low_battery |-> FALSE, on_charger |-> FALSE,
               version |-> 0, name |-> <<>>]
    BY <2>3, <2>6, <2>7, Zenon
  <2>10. AdvOf(z, z, Zero(16), m, z, v, <<>>) =
           [flags |-> z[1], tx_power |-> z[1], service_id |-> Zero(16),
            mfg_data |-> mfg, local_name |-> nam]
    BY DEF AdvOf
  <2> HIDE DEF mfg, nam
  <2>11. AdvOf(z, z, Zero(16), m, z, v, <<>>) = ZeroAdv BY <2>4, <2>8, <2>9, <2>10 DEF ZeroAdv
  <2> QED BY <2>11 DEF m, v, z
<1> QED BY <1>2, <1>3, Zenon DEF Knows

\* What was known of the history before is known at the start of the packet.
LEMMA KnowsStart ==
  ASSUME NEW hist, GoodHist(hist), NEW n, NEW old, Heard(old, n, hist), NEW adv, Knows(old, adv)
  PROVE  KnowsTo(hist, n, 0, adv)
<1>1. PICK fl, tx, uu, mf, st, ve, na :
        SevenOf(old, fl, tx, uu, mf, st, ve, na) /\ adv = AdvOf(fl, tx, uu, mf, st, ve, na)
  BY DEF Knows
<1>2. IsHist(hist) BY DEF GoodHist
<1>3. /\ n \in DOMAIN hist /\ (\A i \in DOMAIN hist : i <= n)
      /\ old = [i \in DOMAIN hist \ {n} |-> hist[i]]
  BY DEF Heard
<1>4. IsHist(old) /\ \A i \in DOMAIN old : old[i] = hist[i] BY <1>2, <1>3 DEF IsHist
<1>5. ASSUME NEW type, NEW min, NEW max, NEW d, NEW default,
             IsLatest(old, Carriers(old, type, min, max), d, default)
      PROVE  IsLatest(hist, CarriersTo(hist, n, 0, type, min, max), d, default)
  <2> DEFINE at == Carriers(old, type, min, max)
  <2>1. CarriersTo(hist, n, 0, type, min, max) = at BY <1>2, KnowsEnds
  <2>2. ASSUME NEW x \in at PROVE hist[x[1]] = old[x[1]]
    <3>1. x[1] \in DOMAIN old BY <1>4, CarrierIs
    <3> QED BY <1>4, <3>1
  <2>3. IsLatest(old, at, d, default) BY <1>5
  <2> HIDE DEF at
  <2>4. IsLatest(hist, at, d, default) BY <2>2, <2>3 DEF IsLatest
  <2> QED BY <2>1, <2>4
<1>6. Seven(hist, n, 0, fl, tx, uu, mf, st, ve, na) BY <1>1, <1>5 DEF Seven, SevenOf
<1> QED BY <1>1, <1>6, Zenon DEF KnowsTo

\* What is known at the end of the packet is known of the history.
LEMMA KnowsEnd ==
  ASSUME NEW hist, GoodHist(hist), NEW n, NEW old, Heard(old, n, hist),
         NEW adv, KnowsTo(hist, n, Len(hist[n]), adv)
  PROVE  Knows(hist, adv)
<1>1. PICK fl, tx, uu, mf, st, ve, na :
         /\ Seven(hist, n, Len(hist[n]), fl, tx, uu, mf, st, ve, na)
         /\ adv = AdvOf(fl, tx, uu, mf, st, ve, na)
  BY DEF KnowsTo
<1>2. ASSUME NEW type, NEW min, NEW max
      PROVE  CarriersTo(hist, n, Len(hist[n]), type, min, max) = Carriers(hist, type, min, max)
  BY KnowsEnds DEF GoodHist
<1>3. SevenOf(hist, fl, tx, uu, mf, st, ve, na) BY <1>1, <1>2 DEF Seven, SevenOf
<1> QED BY <1>1, <1>3, Zenon DEF Knows

\* "Parsed scan data will overwrite matching record data in the struct": a
\* scanner that knows what was heard so far and parses one more packet into
\* its record knows what was heard with it.
THEOREM ParserAccumulates ==
  ASSUME NEW hist, GoodHist(hist), NEW n, NEW old, Heard(old, n, hist),
         NEW adv, Knows(old, adv), NEW p, p = anki_vehicle_parse_adv_record(hist[n], adv)
  PROVE  /\ Knows(hist, p.adv)
         /\ LET s == parse_states(hist[n], adv)
            IN  LoopKnows(hist, n, Len(hist[n]), s[Len(hist[n])])
<1> DEFINE pkt == hist[n]
           s == parse_states(pkt, adv)
           t == s[Len(pkt)]
<1>1. KnowsTo(hist, n, 0, adv) BY KnowsStart
<1>2. LoopKnows(hist, n, Len(pkt), t)
  <2>1. n \in DOMAIN hist /\ \A i \in DOMAIN hist : i <= n BY DEF Heard
  <2> QED BY <1>1, <2>1, LoopKnowsAll
<1>3. p.adv = t.adv BY <1>2, ParseResult DEF LoopKnows
<1>4. KnowsTo(hist, n, Len(pkt), t.adv) BY <1>2 DEF LoopKnows
<1> HIDE DEF t
<1>5. Knows(hist, t.adv) BY <1>4, KnowsEnd
<1> QED BY <1>2, <1>3, <1>5 DEF t

-----------------------------------------------------------------------------
(***************************************************************************)
(* The runs over whole packets, and the significant part.                  *)
(***************************************************************************)
\* Induction over the structures of a packet, for a set of numbers.
LEMMA UpTo ==
  ASSUME NEW n \in Nat, NEW T, 0 \in T, \A i \in 1..n : i - 1 \in T => i \in T
  PROVE  \A i \in 0..n : i \in T
<1> DEFINE F == {i \in 0..n : i \notin T}
<1>1. SUFFICES ASSUME F # {} PROVE FALSE OBVIOUS
<1>2. F \in SUBSET Nat OBVIOUS
<1>3. PICK m \in F : \A k \in F : m <= k
  <2> HIDE DEF F
  <2> QED BY <1>1, <1>2, LeastNat
<1>4. m # 0 OBVIOUS
<1>5. m \in 1..n /\ m - 1 \in 0..n /\ ~ (m <= m - 1) BY <1>4
<1>6. m - 1 \in T BY <1>3, <1>5
<1> QED BY <1>5, <1>6

ends(r) == r.type \in {"END", "INVALID"}

\* The significant part of a packet: it is a prefix, without any structure
\* that ends it, and behind it there is one or nothing.
LEMMA SigIs ==
  ASSUME NEW pkt \in Packet
  PROVE  LET sig == ble_adv_parse_scan(pkt)
         IN  /\ sig \in Packet /\ Len(sig) <= Len(pkt)
             /\ \A i \in 1..Len(sig) : sig[i] = pkt[i] /\ ~ ends(pkt[i])
             /\ Len(sig) = Len(pkt) \/ ends(pkt[Len(sig) + 1])
<1> DEFINE sig == ble_adv_parse_scan(pkt)
           n == Len(pkt)
           E == {i \in DOMAIN pkt : pkt[i].type \in {"END", "INVALID"}}
           e == CHOOSE i \in E : \A j \in E : i <= j
<1>1. n \in Nat /\ DOMAIN pkt = 1..n BY DEF Packet
<1>2. sig = IF E = {} THEN pkt ELSE SubSeq(pkt, 1, e - 1) BY DEF ble_adv_parse_scan
<1>3. CASE E = {}
  <2>1. sig = pkt BY <1>2, <1>3
  <2>2. \A i \in 1..n : ~ ends(pkt[i]) BY <1>1, <1>3 DEF ends
  <2> HIDE DEF sig
  <2> QED BY <1>1, <2>1, <2>2 DEF sig
<1>4. CASE E # {}
  <2>1. e \in E /\ \A j \in E : e <= j
    <3>1. E \in SUBSET Nat BY <1>1
    <3> HIDE DEF E
    <3>2. \E i \in E : \A j \in E : i <= j BY <1>4, <3>1, LeastNat
    <3> QED BY <3>2
  <2> HIDE DEF e
  <2>2. e \in 1..n /\ ends(pkt[e]) BY <1>1, <2>1 DEF ends
  <2>3. ASSUME NEW i \in 1..(e - 1) PROVE ~ ends(pkt[i])
    <3>1. i \in 1..n /\ ~ (e <= i) BY <1>1, <2>2
    <3>2. i \notin E BY <2>1, <3>1
    <3> QED BY <1>1, <3>1, <3>2 DEF ends
  <2>4. sig = SubSeq(pkt, 1, e - 1) BY <1>2, <1>4
  <2>5. pkt \in Seq([type : AdType, data : Seq(Byte)]) BY DEF Packet
  <2> DEFINE R == [type : AdType, data : Seq(Byte)]
  <2> HIDE DEF sig, E, R
  <2>6. SubSeq(pkt, 1, e - 1) \in Seq(R) /\ Len(SubSeq(pkt, 1, e - 1)) = e - 1
        /\ \A i \in 1..(e - 1) : SubSeq(pkt, 1, e - 1)[i] = pkt[i]
    <3> DEFINE q == SubSeq(pkt, 1, e - 1)
               m == e - 1
    <3>1. \A i \in 1..m : pkt[i] \in R
      <4>1. \A i \in 1..m : i \in DOMAIN pkt BY <1>1, <2>2
      <4> HIDE DEF m
      <4> QED BY <2>5, <4>1, SeqElement DEF R
    <3>2. m \in Int /\ m >= 0 BY <1>1, <2>2
    <3>3. q = SubSeq(pkt, 1, m) OBVIOUS
    <3> HIDE DEF q, m
    <3>4. /\ q \in Seq(R) /\ Len(q) = IF 1 <= m THEN m - 1 + 1 ELSE 0
          /\ \A i \in 1..(m - 1 + 1) : q[i] = pkt[1 + i - 1]
      <4>1. 1 \in Int OBVIOUS
      <4> QED BY ONLY <3>1, <3>2, <3>3, <4>1, SubSeqProperties
    <3>5. Len(q) = m /\ \A i \in 1..m : q[i] = pkt[i]
      <4>1. m - 1 + 1 = m /\ \A i \in 1..m : 1 + i - 1 = i BY <3>2
      <4>2. Len(q) = m BY <3>2, <3>4
      <4> QED BY <3>4, <4>1, <4>2
    <3> QED BY <3>4, <3>5 DEF q, m
  <2>7. sig \in Packet /\ Len(sig) = e - 1 /\ \A i \in 1..(e - 1) : sig[i] = pkt[i]
    BY <2>4, <2>6 DEF Packet, R
  <2>8. e - 1 <= n /\ (e - 1) + 1 = e BY <1>1, <2>2
  <2> QED BY <2>2, <2>3, <2>7, <2>8 DEF sig
<1> QED BY <1>3, <1>4

\* A step returns, changes the entry, or neither.
LEMMA StepIs ==
  ASSUME NEW s, NEW r
  PROVE  \/ parse_step(s, r) = s
         \/ \E x : parse_step(s, r) = [s EXCEPT !.ret = x]
         \/ \E a : parse_step(s, r) = [s EXCEPT !.adv = a]
<1> DEFINE t == parse_step(s, r)
           c1 == r.type \in {"END", "INVALID"}
           c2 == r.type = "UNKNOWN"
           c3 == foreign_uuid(r)
           c4 == r.type = "UUID_128" /\ ~ foreign_uuid(r) /\ s.adv = NULL
           a == update(s.adv, r)
<1>1. t = IF s.ret # "next" THEN s
          ELSE CASE c1 -> [s EXCEPT !.ret = "break"]
                 [] c2 -> [s EXCEPT !.ret = "3"]
                 [] c3 -> [s EXCEPT !.ret = "2"]
                 [] c4 -> [s EXCEPT !.ret = "0"]
                 [] OTHER -> [s EXCEPT !.adv = a]
  BY DEF parse_step
<1> HIDE DEF t, c1, c2, c3, c4, a
<1>2. \/ t = s \/ t = [s EXCEPT !.ret = "break"] \/ t = [s EXCEPT !.ret = "3"]
      \/ t = [s EXCEPT !.ret = "2"] \/ t = [s EXCEPT !.ret = "0"]
      \/ t = [s EXCEPT !.adv = a]
  BY <1>1
<1>3. CASE t = s BY <1>3 DEF t
<1>4. ASSUME NEW x, t = [s EXCEPT !.ret = x]
      PROVE  \E y : parse_step(s, r) = [s EXCEPT !.ret = y]
  BY <1>4 DEF t
<1>5. CASE t = [s EXCEPT !.adv = a]
  <2>1. \E y : parse_step(s, r) = [s EXCEPT !.adv = y] BY <1>5 DEF t
  <2> QED BY <2>1
<1> QED BY <1>2, <1>3, <1>4, <1>5

\* A state of the loop is a record.
IsState(s) == s = [f \in {"adv", "ret"} |-> s[f]]

\* The states of the loop over the significant part are those over the packet.
LEMMA SameStates ==
  ASSUME NEW pkt \in Packet, NEW sig \in Packet, Len(sig) <= Len(pkt),
         \A i \in 1..Len(sig) : sig[i] = pkt[i], NEW adv,
         NEW s, s = parse_states(pkt, adv), NEW t, t = parse_states(sig, adv)
  PROVE  \A i \in 0..Len(sig) : s[i] = t[i]
<1> DEFINE T == {i \in 0..Len(sig) : s[i] = t[i]}
<1>1. Len(pkt) \in Nat /\ Len(sig) \in Nat BY DEF Packet
<1>2. /\ s[0] = [adv |-> adv, ret |-> "next"] /\ t[0] = [adv |-> adv, ret |-> "next"]
      /\ \A i \in 1..Len(pkt) : s[i] = parse_step(s[i - 1], pkt[i])
      /\ \A i \in 1..Len(sig) : t[i] = parse_step(t[i - 1], sig[i])
  BY <1>1, LoopStates
<1>3. 0 \in T BY <1>1, <1>2
<1>4. ASSUME NEW i \in 1..Len(sig), i - 1 \in T PROVE i \in T
  <2>1. i \in 1..Len(pkt) /\ i \in 0..Len(sig) BY <1>1
  <2>2. sig[i] = pkt[i] OBVIOUS
  <2>3. s[i - 1] = t[i - 1] BY <1>4
  <2> QED BY <1>2, <2>1, <2>2, <2>3
<1> HIDE DEF T
<1>5. \A i \in 0..Len(sig) : i \in T BY <1>1, <1>3, <1>4, UpTo
<1> QED BY <1>5 DEF T

\* All states are records.
LEMMA RecordStates ==
  ASSUME NEW pkt \in Packet, NEW adv, NEW s, s = parse_states(pkt, adv)
  PROVE  \A i \in 0..Len(pkt) : IsState(s[i])
<1> DEFINE n == Len(pkt)
           T == {i \in 0..n : IsState(s[i])}
<1>1. n \in Nat BY DEF Packet
<1>2. /\ s[0] = [adv |-> adv, ret |-> "next"]
      /\ \A i \in 1..n : s[i] = parse_step(s[i - 1], pkt[i])
  BY <1>1, LoopStates
<1>3. 0 \in T
  <2> DEFINE z == s[0]
  <2>1. IsState(z) BY <1>2 DEF IsState
  <2> QED BY <1>1, <2>1
<1>4. ASSUME NEW i \in 1..n, i - 1 \in T PROVE i \in T
  <2> DEFINE u == s[i - 1]
             v == parse_step(u, pkt[i])
  <2>1. IsState(u) BY <1>4
  <2>2. v = u \/ (\E x : v = [u EXCEPT !.ret = x]) \/ (\E a : v = [u EXCEPT !.adv = a])
    BY StepIs
  <2>3. s[i] = v BY <1>2
  <2> HIDE DEF u, v
  <2>4. IsState(v) BY <2>1, <2>2 DEF IsState
  <2> QED BY <2>3, <2>4
<1> HIDE DEF T
<1>5. \A i \in 0..n : i \in T BY <1>1, <1>3, <1>4, UpTo
<1> QED BY <1>5 DEF T

\* Once it has returned, the loop stays where it is.
LEMMA ReturnedStays ==
  ASSUME NEW pkt \in Packet, NEW adv, NEW s, s = parse_states(pkt, adv),
         NEW e \in 0..Len(pkt), s[e].ret # "next"
  PROVE  s[Len(pkt)] = s[e]
<1> DEFINE n == Len(pkt)
           T == {i \in 0..n : i < e \/ s[i] = s[e]}
<1>1. n \in Nat BY DEF Packet
<1>2. \A i \in 1..n : s[i] = parse_step(s[i - 1], pkt[i]) BY <1>1, LoopStates
<1>3. 0 \in T
  <2>1. e = 0 \/ 0 < e BY <1>1
  <2> QED BY <1>1, <2>1
<1>4. ASSUME NEW i \in 1..n, i - 1 \in T PROVE i \in T
  <2>1. i \in 0..n BY <1>1
  <2>2. CASE i < e \/ i = e BY <2>1, <2>2
  <2>3. CASE ~ (i < e \/ i = e)
    <3>1. ~ (i - 1 < e) BY <1>1, <2>3
    <3>2. s[i - 1] = s[e] BY <1>4, <3>1
    <3>3. s[i] = s[i - 1] BY <1>2, <3>2 DEF parse_step
    <3> QED BY <2>1, <3>2, <3>3
  <2> QED BY <2>2, <2>3
<1> HIDE DEF T
<1>5. \A i \in 0..n : i \in T BY <1>1, <1>3, <1>4, UpTo
<1>6. n \in 0..n /\ ~ (n < e) BY <1>1
<1> QED BY <1>5, <1>6 DEF T

\* What the parser makes of the last state of its loop.
Result(t) ==
  IF t.ret \notin {"next", "break"} THEN t
  ELSE [t EXCEPT !.ret =
          IF t.adv # NULL /\ is_anki_vehicle_service_uuid(t.adv.service_id)
          THEN "0" ELSE "2"]

\* Being told that the packet has ended changes nothing of it.
LEMMA BreakIsNext ==
  ASSUME NEW t, IsState(t), t.ret = "next"
  PROVE  Result([t EXCEPT !.ret = "break"]) = Result(t)
<1> DEFINE u == [t EXCEPT !.ret = "break"]
           v == IF t.adv # NULL /\ is_anki_vehicle_service_uuid(t.adv.service_id)
                THEN "0" ELSE "2"
<1>1. u.adv = t.adv /\ u.ret = "break" BY DEF IsState
<1>2. Result(t) = [t EXCEPT !.ret = v] BY DEF Result
<1>3. Result(u) = [u EXCEPT !.ret = v]
  <2> HIDE DEF u
  <2> QED BY <1>1 DEF Result
<1> HIDE DEF v
<1>4. [u EXCEPT !.ret = v] = [t EXCEPT !.ret = v] BY DEF IsState
<1> QED BY <1>2, <1>3, <1>4

\* What ble_adv_parse_scan drops has no influence.
LEMMA SigSame ==
  ASSUME NEW pkt \in Packet, NEW adv
  PROVE  anki_vehicle_parse_adv_record(pkt, adv)
           = anki_vehicle_parse_adv_record(ble_adv_parse_scan(pkt), adv)
<1> DEFINE sig == ble_adv_parse_scan(pkt)
           s == parse_states(pkt, adv)
           t == parse_states(sig, adv)
           n == Len(pkt)
           m == Len(sig)
<1>1. /\ sig \in Packet /\ m <= n /\ \A i \in 1..m : sig[i] = pkt[i]
      /\ m = n \/ ends(pkt[m + 1])
  BY SigIs
<1>2. n \in Nat /\ m \in Nat BY <1>1 DEF Packet
<1>3. anki_vehicle_parse_adv_record(pkt, adv) = Result(s[n])
      /\ anki_vehicle_parse_adv_record(sig, adv) = Result(t[m])
  BY DEF anki_vehicle_parse_adv_record, Result
<1>4. \A i \in 1..n : s[i] = parse_step(s[i - 1], pkt[i])
  <2> HIDE DEF n, s
  <2> QED BY <1>2, LoopStates DEF n, s
<1> HIDE DEF sig, s, t
<1>5. s[m] = t[m] /\ IsState(s[m])
  <2>1. m \in 0..m /\ m \in 0..n BY <1>1, <1>2
  <2>2. \A i \in 0..m : s[i] = t[i] BY <1>1, SameStates DEF s, t
  <2>3. \A i \in 0..n : IsState(s[i]) BY RecordStates DEF s
  <2> QED BY <2>1, <2>2, <2>3
<1>6. Result(s[n]) = Result(t[m])
  <2>1. CASE m = n BY <1>5, <2>1
  <2>2. CASE m # n /\ s[m].ret # "next"
    <3>1. m \in 0..n BY <1>1, <1>2
    <3>2. s[n] = s[m] BY <2>2, <3>1, ReturnedStays DEF s
    <3> QED BY <1>5, <3>2
  <2>3. CASE m # n /\ s[m].ret = "next"
    <3>1. m + 1 \in 1..n /\ m + 1 \in 0..n /\ (m + 1) - 1 = m BY <1>1, <1>2, <2>3
    <3>2. s[m + 1] = parse_step(s[m], pkt[m + 1]) BY <1>4, <3>1
    <3>3. parse_step(s[m], pkt[m + 1]) = [s[m] EXCEPT !.ret = "break"]
      <4>1. pkt[m + 1].type \in {"END", "INVALID"} BY <1>1, <2>3 DEF ends
      <4> QED BY <2>3, <4>1 DEF parse_step, foreign_uuid
    <3>4. s[m + 1].ret # "next" BY <1>5, <3>2, <3>3 DEF IsState
    <3>5. s[n] = s[m + 1] BY <3>1, <3>4, ReturnedStays DEF s
    <3>6. Result(s[n]) = Result(s[m]) BY <1>5, <2>3, <3>2, <3>3, <3>5, BreakIsNext
    <3> QED BY <1>5, <3>6
  <2> QED BY <2>1, <2>2, <2>3
<1> QED BY <1>3, <1>6 DEF sig

\* A structure with the Anki service, and one that is met before the packet's
\* parsing ends.
IsAnki(r) == r = AD("UUID_128", AnkiServiceUuid)
HasAnki(pkt) == \E i \in Effective(pkt) : IsAnki(pkt[i])

\* Packets of well-formed structures whose UUIDs have their 16 bytes.
FullPacket(pkt) == pkt \in Packet /\ (\A i \in DOMAIN pkt : WellFormed(pkt[i])) /\ FullUuids(pkt)

\* Their structures.
LEMMA FullStructures ==
  ASSUME NEW pkt, FullPacket(pkt), NEW i \in DOMAIN pkt
  PROVE  IsStructure(pkt[i]) /\ pkt[i] = AD(pkt[i].type, pkt[i].data)
<1>1. pkt[i] \in [type : AdType, data : Seq(Byte)] BY SeqElement DEF FullPacket, Packet
<1>2. pkt[i] = AD(pkt[i].type, pkt[i].data) BY <1>1 DEF AD
<1>3. IsStructure(pkt[i]) BY <1>1 DEF FullPacket, FullUuids, IsStructure
<1> QED BY <1>2, <1>3

\* A UUID that does not stop the loop is the one of Anki.
LEMMA EffectiveUuid ==
  ASSUME NEW pkt, FullPacket(pkt), NEW i \in Effective(pkt), pkt[i].type = "UUID_128"
  PROVE  IsAnki(pkt[i]) /\ pkt[i].data = AnkiServiceUuid
<1>1. i \in DOMAIN pkt /\ i \in 1..i
  <2>1. i \in DOMAIN pkt BY DEF Effective
  <2>2. DOMAIN pkt = 1..Len(pkt) /\ Len(pkt) \in Nat BY DEF FullPacket, Packet
  <2> QED BY <2>1, <2>2
<1>2. ~ stops(pkt[i]) BY <1>1 DEF Effective
<1>3. Len(pkt[i].data) = 16 BY <1>1 DEF FullPacket, FullUuids
<1>4. pkt[i].data = AnkiServiceUuid
  BY <1>2, <1>3 DEF stops, foreign_uuid, is_anki_vehicle_service_uuid
<1>5. pkt[i] = AD(pkt[i].type, pkt[i].data) BY <1>1, FullStructures
<1> QED BY <1>4, <1>5 DEF IsAnki

\* The Anki service has 16 bytes that are not all zero.
LEMMA AnkiUuid == Len(AnkiServiceUuid) = 16 /\ AnkiServiceUuid # Zero(16)
<1>1. AnkiServiceUuid[1] = 244 BY DEF AnkiServiceUuid
<1>2. Zero(16)[1] = 0 BY DEF Zero
<1> QED BY <1>1, <1>2 DEF AnkiServiceUuid

\* The history of one packet.
LEMMA OnePacket ==
  ASSUME NEW pkt, FullPacket(pkt), NEW hist, hist = <<pkt>>
  PROVE  /\ GoodHist(hist) /\ IsHist(hist)
         /\ \E old : DOMAIN old = {} /\ Heard(old, 1, hist)
<1>1. DOMAIN hist = {1} /\ hist[1] = pkt OBVIOUS
<1>2. IsHist(hist) BY <1>1 DEF IsHist, FullPacket
<1>3. GoodHist(hist) BY <1>1, <1>2, FullStructures DEF GoodHist
<1> DEFINE old == [i \in DOMAIN hist \ {1} |-> hist[i]]
<1>4. DOMAIN old = {} BY <1>1
<1>5. \A i \in DOMAIN hist : i <= 1 BY <1>1
<1>6. Heard(old, 1, hist) BY <1>1, <1>5 DEF Heard
<1> QED BY <1>2, <1>3, <1>4, <1>6

\* In what is known of one packet the service is the one of Anki exactly when
\* the parser has met it.
LEMMA ServiceKnown ==
  ASSUME NEW pkt, FullPacket(pkt), NEW adv, Knows(<<pkt>>, adv)
  PROVE  is_anki_vehicle_service_uuid(adv.service_id) <=> HasAnki(pkt)
<1> DEFINE hist == <<pkt>>
           at == Carriers(hist, "UUID_128", 16, 16)
<1>1. hist[1] = pkt /\ DOMAIN hist = {1} OBVIOUS
<1>2. IsHist(hist) BY OnePacket
<1>3. PICK uu : IsLatest(hist, at, uu, Zero(16)) /\ adv.service_id = uu
  BY DEF Knows, SevenOf, AdvOf
<1> HIDE DEF hist
<1>4. ASSUME NEW x \in at PROVE hist[x[1]][x[2]].data = AnkiServiceUuid /\ HasAnki(pkt)
  <2>1. x[1] \in DOMAIN hist /\ x[2] \in Effective(hist[x[1]])
        /\ Matches(hist[x[1]][x[2]], "UUID_128", 16, 16)
    BY <1>2, CarrierIs
  <2>2. hist[x[1]] = pkt BY <1>1, <2>1
  <2>3. pkt[x[2]].type = "UUID_128" /\ x[2] \in Effective(pkt) BY <2>1, <2>2 DEF Matches
  <2> QED BY <2>2, <2>3, EffectiveUuid DEF HasAnki
<1>5. CASE at = {}
  <2>1. uu = Zero(16) BY <1>3, <1>5 DEF IsLatest
  <2>2. ~ HasAnki(pkt)
    <3>1. ASSUME NEW i \in Effective(pkt), IsAnki(pkt[i]) PROVE FALSE
      <4>1. pkt[i].type = "UUID_128" /\ pkt[i].data = AnkiServiceUuid BY <3>1 DEF IsAnki, AD
      <4>2. Len(pkt[i].data) = 16 BY <4>1, AnkiUuid
      <4>3. Matches(pkt[i], "UUID_128", 16, 16) BY <4>1, <4>2 DEF Matches
      <4>4. 1 \in DOMAIN hist /\ i \in Effective(hist[1]) BY <1>1
      <4>5. <<1, i>> \in at BY <1>1, <4>3, <4>4, IsCarrier
      <4> QED BY <1>5, <4>5
    <3> QED BY <3>1 DEF HasAnki
  <2> QED BY <1>3, <2>1, <2>2, AnkiUuid DEF is_anki_vehicle_service_uuid
<1>6. CASE at # {}
  <2>1. PICK x \in at : uu = hist[x[1]][x[2]].data BY <1>3, <1>6 DEF IsLatest
  <2> QED BY <1>3, <1>4, <2>1 DEF is_anki_vehicle_service_uuid
<1> QED BY <1>5, <1>6

\* The loop was not stopped by a foreign service or an unknown structure
\* exactly when all of the significant part counts.
LEMMA AllCounts ==
  ASSUME NEW pkt \in Packet, NEW ret, Stopped(pkt, Len(pkt), ret)
  PROVE  ret \in {"next", "break"} <=> Effective(pkt) = DOMAIN ble_adv_parse_scan(pkt)
<1> DEFINE sig == ble_adv_parse_scan(pkt)
           n == Len(pkt)
           m == Len(sig)
<1>1. /\ sig \in Packet /\ m <= n /\ \A i \in 1..m : ~ ends(pkt[i])
      /\ m = n \/ ends(pkt[m + 1])
  BY SigIs
<1>2. n \in Nat /\ m \in Nat /\ DOMAIN pkt = 1..n /\ DOMAIN sig = 1..m BY <1>1 DEF Packet
<1>3. Effective(pkt) = {i \in 1..n : \A j \in 1..i : ~ stops(pkt[j])} BY <1>2 DEF Effective
<1> HIDE DEF sig, n, m
<1>4. ASSUME NEW i \in 1..n, ends(pkt[i]) PROVE m < i
  BY <1>1, <1>2, <1>4
<1>5. CASE ret = "next"
  <2>1. \A i \in 1..n : ~ stops(pkt[i]) BY <1>5 DEF Stopped, n
  <2>2. Effective(pkt) = 1..n
    <3>1. ASSUME NEW i \in 1..n, NEW j \in 1..i PROVE ~ stops(pkt[j])
      <4>1. j \in 1..n BY <1>2
      <4> QED BY <2>1, <4>1
    <3> QED BY <1>3, <3>1
  <2>3. m = n
    <3>1. m + 1 \in 1..n \/ m = n BY <1>1, <1>2
    <3> QED BY <1>1, <2>1, <3>1 DEF ends, stops
  <2> QED BY <1>2, <1>5, <2>2, <2>3 DEF sig
<1>6. CASE ret = "break"
  <2>1. PICK i \in 1..n : First(pkt, i) /\ ends(pkt[i]) BY <1>6 DEF Stopped, n, ends
  <2>2. \A j \in 1..(i - 1) : ~ stops(pkt[j]) BY <2>1 DEF First
  <2>3. m = i - 1
    <3>1. m < i BY <1>4, <2>1
    <3>2. ~ (m + 1 \in 1..(i - 1)) BY <1>1, <1>2, <2>2 DEF ends, stops
    <3> QED BY <1>1, <1>2, <3>1, <3>2
  <2>4. ASSUME NEW k \in 1..n PROVE k \in Effective(pkt) <=> k \in 1..m
    <3>1. CASE k <= i - 1
      <4>1. \A j \in 1..k : j \in 1..(i - 1) BY <1>2, <3>1
      <4>2. k \in 1..m BY <1>2, <2>3, <3>1
      <4> QED BY <1>3, <2>2, <4>1, <4>2
    <3>2. CASE ~ (k <= i - 1)
      <4>1. i \in 1..k /\ k \notin 1..m BY <1>2, <2>3, <3>2
      <4>2. stops(pkt[i]) BY <2>1 DEF ends, stops
      <4> QED BY <1>3, <4>1, <4>2
    <3> QED BY <3>1, <3>2
  <2>5. Effective(pkt) = 1..m
    <3>1. \A k \in 1..m : k \in 1..n BY <1>1, <1>2
    <3>2. \A k \in Effective(pkt) : k \in 1..n BY <1>3
    <3> QED BY <2>4, <3>1, <3>2
  <2> QED BY <1>2, <1>6, <2>5 DEF sig
<1>7. CASE ret \in {"2", "3"}
  <2>1. PICK i \in 1..n : First(pkt, i) /\ (pkt[i].type = "UNKNOWN" \/ foreign_uuid(pkt[i]))
    BY <1>7 DEF Stopped, n
  <2>2. i \in 1..i /\ stops(pkt[i]) /\ ~ ends(pkt[i])
    BY <2>1 DEF stops, ends, foreign_uuid
  <2>3. i \notin Effective(pkt) BY <1>3, <2>2
  <2>4. i \in 1..m
    <3>1. CASE m < i
      <4>1. m + 1 \in 1..n /\ m # n BY <1>1, <1>2, <3>1
      <4>2. ends(pkt[m + 1]) BY <1>1, <4>1
      <4>3. m + 1 \in 1..(i - 1) \/ m + 1 = i BY <1>2, <3>1
      <4> QED BY <2>1, <2>2, <4>2, <4>3 DEF First, ends, stops
    <3>2. CASE ~ (m < i) BY <1>2, <3>2
    <3> QED BY <3>1, <3>2
  <2>5. Effective(pkt) # DOMAIN sig BY <1>2, <2>3, <2>4
  <2>6. ret \notin {"next", "break"} BY <1>7
  <2> QED BY <2>5, <2>6 DEF sig
<1> QED BY <1>5, <1>6, <1>7 DEF Stopped

\* Asked for the Anki service only: where the loop stands behind structure k.
NullAt(pkt, k, s) ==
  /\ IsState(s) /\ s.adv = NULL
  /\ \/ s.ret = "next" /\ \A i \in 1..k : ~ stops(pkt[i]) /\ pkt[i].type # "UUID_128"
     \/ /\ s.ret = "0"
        /\ \E i \in 1..k : i \in Effective(pkt) /\ pkt[i].type = "UUID_128"
     \/ /\ s.ret \in {"break", "2", "3"}
        /\ \E i \in 1..k : /\ stops(pkt[i])
                           /\ \A j \in 1..(i - 1) : pkt[j].type # "UUID_128"

\* A step of that loop.
LEMMA NullStep ==
  ASSUME NEW pkt \in Packet, NEW k \in DOMAIN pkt, NEW s, NullAt(pkt, k - 1, s)
  PROVE  NullAt(pkt, k, parse_step(s, pkt[k]))
<1> DEFINE r == pkt[k]
           t == parse_step(s, r)
<1>1. k \in Nat /\ k >= 1 /\ DOMAIN pkt = 1..Len(pkt)
  <2>1. DOMAIN pkt = 1..Len(pkt) /\ Len(pkt) \in Nat BY DEF Packet
  <2> QED BY <2>1
<1>2. (\A j \in 1..k : j \in 1..(k - 1) \/ j = k) /\ (\A j \in 1..(k - 1) : j \in 1..k) /\ k \in 1..k
  BY <1>1
<1>3. CASE s.ret # "next"
  <2>1. t = s BY <1>3 DEF parse_step
  <2> HIDE DEF t
  <2>2. NullAt(pkt, k, t) BY <1>2, <1>3, <2>1 DEF NullAt
  <2> QED BY <2>2 DEF t
<1>4. CASE s.ret = "next"
  <2>1. \A i \in 1..(k - 1) : ~ stops(pkt[i]) /\ pkt[i].type # "UUID_128" BY <1>4 DEF NullAt
  <2>2. s.adv = NULL /\ IsState(s) BY DEF NullAt
  <2>3. CASE stops(r)
    <3>1. \E x \in {"break", "2", "3"} : t = [s EXCEPT !.ret = x]
      <4>1. CASE r.type \in {"END", "INVALID"}
        <5>1. t = [s EXCEPT !.ret = "break"] BY <1>4, <4>1 DEF parse_step, foreign_uuid
        <5> QED BY <5>1
      <4>2. CASE r.type = "UNKNOWN"
        <5>1. t = [s EXCEPT !.ret = "3"] BY <1>4, <4>2 DEF parse_step, foreign_uuid
        <5> QED BY <5>1
      <4>3. CASE foreign_uuid(r)
        <5>1. r.type = "UUID_128" BY <4>3 DEF foreign_uuid
        <5>2. t = [s EXCEPT !.ret = "2"] BY <1>4, <4>3, <5>1 DEF parse_step
        <5> QED BY <5>2
      <4> QED BY <2>3, <4>1, <4>2, <4>3 DEF stops
    <3> HIDE DEF t
    <3>2. t.adv = NULL /\ IsState(t) /\ t.ret \in {"break", "2", "3"} BY <2>2, <3>1 DEF IsState
    <3>3. NullAt(pkt, k, t) BY <1>2, <2>1, <2>3, <3>2 DEF NullAt
    <3> QED BY <3>3 DEF t
  <2>4. CASE ~ stops(r) /\ r.type = "UUID_128"
    <3>1. t = [s EXCEPT !.ret = "0"] BY <1>4, <2>2, <2>4 DEF parse_step, stops
    <3> HIDE DEF t
    <3>2. t.adv = NULL /\ IsState(t) /\ t.ret = "0" BY <2>2, <3>1 DEF IsState
    <3>3. \A j \in 1..k : ~ stops(pkt[j]) BY <1>2, <2>1, <2>4
    <3>4. k \in Effective(pkt) BY <3>3 DEF Effective
    <3>5. NullAt(pkt, k, t) BY <1>2, <2>4, <3>2, <3>4 DEF NullAt
    <3> QED BY <3>5 DEF t
  <2>5. CASE ~ stops(r) /\ r.type # "UUID_128"
    <3>1. t = [s EXCEPT !.adv = update(NULL, r)]
      BY <1>4, <2>2, <2>5 DEF parse_step, stops, foreign_uuid
    <3>2. update(NULL, r) = NULL BY DEF update
    <3> HIDE DEF t
    <3>3. t.adv = NULL /\ IsState(t) /\ t.ret = "next" BY <1>4, <2>2, <3>1, <3>2 DEF IsState
    <3>4. \A j \in 1..k : ~ stops(pkt[j]) /\ pkt[j].type # "UUID_128" BY <1>2, <2>1, <2>5
    <3>5. NullAt(pkt, k, t) BY <3>3, <3>4 DEF NullAt
    <3> QED BY <3>5 DEF t
  <2> QED BY <2>3, <2>4, <2>5
<1> QED BY <1>3, <1>4

\* Asked for the Anki service only, the parser finds it exactly when it comes
\* before what ends the parsing.
LEMMA NullFinds ==
  ASSUME NEW pkt, FullPacket(pkt)
  PROVE  anki_vehicle_adv_record_has_anki_uuid(pkt) <=> HasAnki(pkt)
<1> DEFINE n == Len(pkt)
           s == parse_states(pkt, NULL)
           T == {i \in 0..n : NullAt(pkt, i, s[i])}
           p == anki_vehicle_parse_adv_record(pkt, NULL)
<1>0. pkt \in Packet BY DEF FullPacket
<1>1. n \in Nat /\ DOMAIN pkt = 1..n BY <1>0 DEF Packet
<1>2. /\ s[0] = [adv |-> NULL, ret |-> "next"]
      /\ \A i \in 1..n : s[i] = parse_step(s[i - 1], pkt[i])
  <2> HIDE DEF n, s
  <2> QED BY <1>1, LoopStates DEF n, s
<1> HIDE DEF s
<1>3. 0 \in T
  <2> DEFINE z == s[0]
  <2>1. IsState(z) /\ z.adv = NULL /\ z.ret = "next" BY <1>2 DEF IsState
  <2> HIDE DEF z
  <2>2. NullAt(pkt, 0, z) BY <2>1 DEF NullAt
  <2> QED BY <1>1, <2>2 DEF z
<1>4. ASSUME NEW i \in 1..n, i - 1 \in T PROVE i \in T
  <2>1. NullAt(pkt, i - 1, s[i - 1]) BY <1>4
  <2>2. NullAt(pkt, i, parse_step(s[i - 1], pkt[i])) BY <1>0, <1>1, <2>1, NullStep
  <2> QED BY <1>1, <1>2, <2>2
<1>5. NullAt(pkt, n, s[n])
  <2> HIDE DEF T
  <2>1. \A i \in 0..n : i \in T BY <1>1, <1>3, <1>4, UpTo
  <2>2. n \in 0..n BY <1>1
  <2> QED BY <2>1, <2>2 DEF T
<1> DEFINE t == s[n]
<1>6. p.ret = "0" <=> t.ret = "0"
  <2>1. t = parse_states(pkt, NULL)[Len(pkt)] BY DEF s
  <2>2. IsState(t) /\ t.adv = NULL BY <1>5 DEF NullAt
  <2> HIDE DEF t, p
  <2>3. p.ret = IF t.ret \notin {"next", "break"} THEN t.ret
                ELSE IF t.adv # NULL /\ is_anki_vehicle_service_uuid(t.adv.service_id)
                     THEN "0" ELSE "2"
    <3>1. t = [f \in {"adv", "ret"} |-> t[f]] BY <2>2 DEF IsState
    <3>2. p = anki_vehicle_parse_adv_record(pkt, NULL) BY DEF p
    <3>3. PICK z : z = NULL OBVIOUS
    <3>4. t = parse_states(pkt, z)[Len(pkt)] /\ p = anki_vehicle_parse_adv_record(pkt, z)
      BY <2>1, <3>2, <3>3
    <3> HIDE DEF n
    <3> QED BY ONLY <3>1, <3>4, ParseResult
  <2> QED BY <2>2, <2>3
<1>7. NullAt(pkt, n, t) BY <1>5
<1> HIDE DEF t, n
<1>8. CASE t.ret = "0"
  <2>1. PICK i \in 1..n : i \in Effective(pkt) /\ pkt[i].type = "UUID_128" BY <1>7, <1>8 DEF NullAt
  <2>2. HasAnki(pkt) BY <2>1, EffectiveUuid DEF HasAnki
  <2> QED BY <1>6, <1>8, <2>2 DEF anki_vehicle_adv_record_has_anki_uuid
<1>9. CASE t.ret # "0"
  <2>1. ASSUME NEW i \in Effective(pkt), IsAnki(pkt[i]) PROVE FALSE
    <3>1. pkt[i].type = "UUID_128" BY <2>1 DEF IsAnki, AD
    <3>2. i \in 1..n /\ \A j \in 1..i : ~ stops(pkt[j]) BY <1>1 DEF Effective
    <3>3. PICK k \in 1..n : stops(pkt[k]) /\ \A j \in 1..(k - 1) : pkt[j].type # "UUID_128"
      BY <1>7, <1>9, <3>1, <3>2 DEF NullAt
    <3>4. k \in 1..i \/ i \in 1..(k - 1) BY <1>1, <3>2
    <3> QED BY <3>1, <3>2, <3>3, <3>4
  <2>2. ~ HasAnki(pkt) BY <2>1 DEF HasAnki
  <2> QED BY <1>6, <1>9, <2>2 DEF anki_vehicle_adv_record_has_anki_uuid
<1> QED BY <1>8, <1>9

\* One packet, parsed from a cleared record.
LEMMA OneParsed ==
  ASSUME NEW pkt, FullPacket(pkt), NEW p, p = anki_vehicle_parse_adv_record(pkt, ZeroAdv)
  PROVE  /\ p.adv = KnownFrom(<<pkt>>)
         /\ p.ret = "0" <=> Effective(pkt) = DOMAIN ble_adv_parse_scan(pkt) /\ HasAnki(pkt)
<1> DEFINE hist == <<pkt>>
           t == parse_states(pkt, ZeroAdv)[Len(pkt)]
<1>1. GoodHist(hist) /\ IsHist(hist) /\ hist[1] = pkt BY OnePacket
<1>2. PICK old : DOMAIN old = {} /\ Heard(old, 1, hist) BY OnePacket
<1>3. Knows(old, ZeroAdv) BY <1>2, KnowsNothing
<1>4. p = anki_vehicle_parse_adv_record(hist[1], ZeroAdv) BY <1>1
<1>5. Knows(hist, p.adv) /\ LoopKnows(hist, 1, Len(pkt), t)
  <2> DEFINE s == parse_states(hist[1], ZeroAdv)
             L == LoopKnows(hist, 1, Len(hist[1]), s[Len(hist[1])])
  <2>1. Knows(hist, p.adv) /\ L
    <3> HIDE DEF hist
    <3> QED BY <1>1, <1>2, <1>3, <1>4, ParserAccumulates
  <2> QED BY <1>1, <2>1
<1> HIDE DEF hist, t
<1>6. p.adv = KnownFrom(hist) BY <1>1, <1>5, KnowsIs
<1>7. t = [f \in {"adv", "ret"} |-> t[f]] /\ Stopped(pkt, Len(pkt), t.ret) /\ t.adv # NULL
  BY <1>1, <1>5, KnownNotNull DEF LoopKnows
<1>8. /\ p.adv = t.adv
      /\ p.ret = IF t.ret \notin {"next", "break"} THEN t.ret
                 ELSE IF t.adv # NULL /\ is_anki_vehicle_service_uuid(t.adv.service_id)
                      THEN "0" ELSE "2"
  BY <1>7, ParseResult DEF t
<1>9. t.ret # "0" BY <1>7 DEF Stopped
<1>10. p.ret = "0" <=> t.ret \in {"next", "break"} /\ is_anki_vehicle_service_uuid(p.adv.service_id)
  BY <1>7, <1>8, <1>9
<1>11. t.ret \in {"next", "break"} <=> Effective(pkt) = DOMAIN ble_adv_parse_scan(pkt)
  BY <1>7, AllCounts DEF FullPacket
<1>12. is_anki_vehicle_service_uuid(p.adv.service_id) <=> HasAnki(pkt)
  BY <1>5, ServiceKnown DEF hist
<1> QED BY <1>6, <1>10, <1>11, <1>12 DEF hist

\* Packets is a sequence of the structures.
LEMMA PacketsOfRecords == Packets => [](packet \in Seq(Records))
<1>1. Empty => packet \in Seq(Records) BY DEF Empty
<1>2. packet \in Seq(Records) /\ [Extend]_packet => (packet \in Seq(Records))' BY DEF Extend
<1> QED BY <1>1, <1>2, PTL DEF Packets

\* Its packets are such packets.
LEMMA PacketIs ==
  ASSUME packet \in Seq(Records)
  PROVE  packet \in Packet /\ \A i \in DOMAIN packet : WellFormed(packet[i])
<1>1. \A i \in DOMAIN packet : packet[i] \in Records BY SeqElement
<1>2. \A i \in DOMAIN packet :
        packet[i] \in [type : AdType, data : Seq(Byte)] /\ WellFormed(packet[i])
  BY <1>1, RecordsAssumption, Zenon
<1> DEFINE R == [type : AdType, data : Seq(Byte)]
<1> HIDE DEF R
<1>3. packet \in Seq(R)
  <2>1. \A i \in DOMAIN packet : packet[i] \in R BY <1>2 DEF R
  <2> QED BY <2>1
<1> QED BY <1>2, <1>3 DEF Packet, R

\* For every set of structures and every length of a packet, the parser
\* computes the reference, and returns what its callers take it for.
THEOREM ParserIsReference == Packets => []ParsesAsReference
<1>1. ASSUME packet \in Seq(Records) PROVE ParsesAsReference
  <2> DEFINE p == anki_vehicle_parse_adv_record(packet, ZeroAdv)
             sig == ble_adv_parse_scan(packet)
             all == Effective(packet) = DOMAIN sig
             has == anki_vehicle_adv_record_has_anki_uuid(packet)
  <2> SUFFICES ASSUME FullUuids(packet)
               PROVE  /\ p.adv = KnownFrom(<<packet>>)
                      /\ p.ret = "0" <=> all /\ HasService(packet)
                      /\ has => HasService(packet)
    BY DEF ParsesAsReference
  <2>1. FullPacket(packet) BY <1>1, PacketIs DEF FullPacket
  <2>2. /\ p.adv = KnownFrom(<<packet>>)
        /\ p.ret = "0" <=> all /\ HasAnki(packet)
    <3> HIDE DEF p
    <3> QED BY <2>1, OneParsed DEF p
  <2>3. /\ sig \in Packet /\ \A i \in 1..Len(sig) : sig[i] = packet[i]
        /\ Len(sig) = Len(packet) \/ ends(packet[Len(sig) + 1])
    BY <2>1, SigIs DEF FullPacket
  <2>4. DOMAIN sig = 1..Len(sig) /\ Len(sig) \in Nat
        /\ DOMAIN packet = 1..Len(packet) /\ Len(packet) \in Nat
    BY <2>1, <2>3 DEF Packet, FullPacket
  <2>5. has <=> HasAnki(packet) BY <2>1, NullFinds
  <2> HIDE DEF p, sig, has
  <2>6. Effective(packet) \subseteq DOMAIN sig
    <3>1. SUFFICES ASSUME NEW i \in Effective(packet), i > Len(sig) PROVE FALSE
      BY <2>4 DEF Effective
    <3>2. i \in 1..Len(packet) /\ \A j \in 1..i : ~ stops(packet[j]) BY <2>4 DEF Effective
    <3>3. Len(sig) + 1 \in 1..i BY <2>4, <3>1, <3>2
    <3>4. CASE Len(sig) = Len(packet) BY <2>4, <3>1, <3>2, <3>4
    <3>5. CASE ends(packet[Len(sig) + 1])
      <4>1. ~ stops(packet[Len(sig) + 1]) BY <3>2, <3>3
      <4> QED BY <3>5, <4>1 DEF ends, stops
    <3> QED BY <2>3, <3>4, <3>5
  <2>7. HasService(packet) <=> \E i \in DOMAIN sig : IsAnki(packet[i])
    <3>1. \A i \in DOMAIN sig : sig[i] = packet[i] BY <2>3, <2>4
    <3> QED BY <3>1 DEF HasService, IsAnki, sig
  <2>8. HasAnki(packet) => HasService(packet) BY <2>6, <2>7 DEF HasAnki
  <2>9. all => (HasAnki(packet) <=> HasService(packet)) BY <2>7 DEF HasAnki
  <2> QED BY <2>2, <2>5, <2>8, <2>9
<1> QED BY <1>1, PacketsOfRecords, PTL

\* For every packet, the structures behind its end never influence the parser,
\* whether it fills a record or only looks for the service.
THEOREM ParserIgnoresTrailing == Packets => []TrailingIgnored
<1>1. ASSUME packet \in Seq(Records) PROVE TrailingIgnored
  <2>1. packet \in Packet BY <1>1, PacketIs
  <2> QED BY <2>1, SigSame DEF TrailingIgnored
<1> QED BY <1>1, PacketsOfRecords, PTL

-----------------------------------------------------------------------------
(***************************************************************************)
(* What the scan leaves behind.                                            *)
(***************************************************************************)
\* What has failed and what is in place at each stage of cmd_lescan.
Account ==
  /\ pc \in {"set_parameters", "enable", "set_filter", "read", "restore", "disable",
             "exit 0", "exit 1"}
  /\ pc \in {"set_parameters", "enable"} => failed = {} /\ enabled = FALSE
  /\ pc \in {"set_parameters", "enable", "set_filter"} => own_filter = FALSE
  /\ pc \in {"set_filter", "read"} => failed = {} /\ enabled = TRUE
  /\ pc \in {"read", "restore"} => own_filter = TRUE
  /\ pc = "restore" => failed \subseteq {"read"} /\ enabled = TRUE
  /\ pc = "disable" => /\ failed \subseteq {"restore"} /\ enabled = TRUE
                       /\ (own_filter = TRUE) <=> ("restore" \in failed)
  /\ Exited => /\ enabled = TRUE => failed \cap {"enable", "set_filter", "read", "disable"} # {}
               /\ failed \cap {"set_filter", "read"} # {} => enabled = TRUE
               /\ (own_filter = TRUE) <=> ("restore" \in failed)
               /\ (pc = "exit 0") <=> (failed \subseteq {"restore"})
  /\ enabled \in BOOLEAN /\ own_filter \in BOOLEAN

\* What Report leaves alone.
LEMMA ReportControl ==
  ASSUME NEW a \in Addr, NEW pkt, Report(a, pkt)
  PROVE  UNCHANGED <<filter_type, pc, enabled, own_filter, signal_received, failed>>
BY Zenon DEF Report

\* Each of the calls that may fail keeps the account.
LEMMA CallKeepsAccount ==
  ASSUME Account, NEW ok \in BOOLEAN, Step(ok)
  PROVE  Account'
<1>1. CASE SetParameters(ok)
  BY <1>1 DEF SetParameters, Called, Account, Exited
<1>2. CASE EnableScan(ok)
  BY <1>2 DEF EnableScan, Called, Switched, Account, Exited
<1>3. CASE SetFilter(ok)
  BY <1>3 DEF SetFilter, Called, Account, Exited
<1>4. CASE RestoreFilter(ok)
  BY <1>4 DEF RestoreFilter, Called, Account, Exited
<1>5. CASE DisableScan(ok)
  BY <1>5 DEF DisableScan, Called, Switched, Account, Exited
<1> QED BY <1>1, <1>2, <1>3, <1>4, <1>5 DEF Step

\* Whichever calls fail, whenever SIGINT arrives and whatever is reported, the
\* scanner stays on only after a failure that says so and for certain after a
\* failed filter or read, its filter stays only if restoring it failed, and
\* that is the one failure the exit status does not tell.
THEOREM ExitIsClean == Spec => []CleanExit
<1>1. Init => Account BY DEF Init, Account, Exited
<1>2. Account /\ [Next]_vars => Account'
  <2> SUFFICES ASSUME Account, [Next]_vars PROVE Account' OBVIOUS
  <2>1. ASSUME NEW ok \in BOOLEAN, Step(ok) PROVE Account'
    BY <2>1, CallKeepsAccount
  <2>2. ASSUME NEW a \in Addr, NEW pkt \in Broadcasts[a], Report(a, pkt) PROVE Account'
    BY <2>2, ReportControl DEF Account, Exited
  <2>3. ASSUME NEW inRead \in BOOLEAN, Sigint(inRead) PROVE Account'
    BY <2>3 DEF Account, Sigint, Exited
  <2>4. ASSUME \/ ReadInterrupted \/ OtherMetaEvent \/ ReadError PROVE Account'
    BY <2>4 DEF Account, ReadInterrupted, OtherMetaEvent, ReadError, Called, Exited
  <2>5. ASSUME UNCHANGED vars PROVE Account' BY <2>5 DEF Account, vars, Exited
  <2> QED BY <2>1, <2>2, <2>3, <2>4, <2>5 DEF Next
<1>3. Account => CleanExit BY DEF Account, CleanExit, Exited
<1> QED BY <1>1, <1>2, <1>3, PTL DEF Spec

-----------------------------------------------------------------------------
(***************************************************************************)
(* What is in the table comes from the address of the entry.               *)
(***************************************************************************)
IsSeq(s) == s \in Seq({s[i] : i \in DOMAIN s})

\* A structure of that type with enough bytes is in one of the packets h.
SentIn(h, type, min) == \E p \in ToSet(h) : Carries(p, type, min)

\* What an entry has been filled with is in the packets h.
Backed(h, adv) ==
  /\ adv.mfg_data.identifier = 0 \/ SentIn(h, "MANUFACTURER_DATA", 8)
  /\ adv.local_name.version = 0 \/ SentIn(h, "LOCAL_NAME", 2)
  /\ adv.service_id[16] = 0 \/ SentIn(h, "UUID_128", 16)

Limited(h) ==
  \E p \in ToSet(h) : \E i \in DOMAIN p : p[i].type = "FLAGS" /\ p[i].data[1] % 2 = 1

\* The entry e of an address that sent h, under the filter f.
EntryOk(e, h, f) ==
  /\ IsAdv(e.adv) /\ e.scan_complete \in BOOLEAN
  /\ Backed(h, e.adv)
  /\ f = "l" => Limited(h)

\* A line of the display is that of a complete entry.
LineOk(l, vs, sent) ==
  /\ l.addr \in DOMAIN vs /\ vs[l.addr].scan_complete
  /\ is_anki_vehicle_service_uuid(l.adv.service_id)
  /\ SentIn(sent[l.addr], "UUID_128", 16) /\ SentIn(sent[l.addr], "MANUFACTURER_DATA", 8)
  /\ SentIn(sent[l.addr], "LOCAL_NAME", 2)

TInv ==
  /\ heard \in [Addr -> Seq(Packet)]
  /\ DOMAIN vehicles \subseteq Addr
  /\ \A a \in DOMAIN vehicles : EntryOk(vehicles[a], heard[a], filter_type)
  /\ IsSeq(shown)
  /\ \A i \in DOMAIN shown : LineOk(shown[i], vehicles, heard)
  /\ \A i, j \in DOMAIN shown : shown[i].addr = shown[j].addr => i = j

\* Appending to a sequence.
LEMMA AppendSeq ==
  ASSUME NEW s, IsSeq(s), NEW x
  PROVE  /\ IsSeq(Append(s, x))
         /\ Len(s) \in Nat /\ DOMAIN s = 1..Len(s)
         /\ DOMAIN Append(s, x) = 1..(Len(s) + 1)
         /\ \A i \in DOMAIN s : Append(s, x)[i] = s[i]
         /\ Append(s, x)[Len(s) + 1] = x
         /\ ToSet(Append(s, x)) = ToSet(s) \cup {x}
<1> DEFINE S == {s[i] : i \in DOMAIN s}
           B == S \cup {x}
           t == Append(s, x)
<1>1. s \in Seq(S) BY DEF IsSeq
<1>2. Len(s) \in Nat /\ DOMAIN s = 1..Len(s) BY <1>1
<1>3. s \in Seq(B) /\ x \in B
  <2> HIDE DEF S
  <2> QED BY <1>1
<1>4. t \in Seq(B) /\ Len(t) = Len(s) + 1 /\ DOMAIN t = 1..(Len(s) + 1) /\ t[Len(s) + 1] = x
      /\ \A i \in 1..Len(s) : t[i] = s[i]
  <2> HIDE DEF B
  <2> QED BY <1>2, <1>3
<1>5. {t[i] : i \in DOMAIN t} = B
  <2> HIDE DEF t
  <2> QED BY <1>2, <1>4
<1>6. IsSeq(t) BY <1>4, <1>5 DEF IsSeq
<1>7. ToSet(t) = ToSet(s) \cup {x} BY <1>5 DEF ToSet
<1> QED BY <1>2, <1>4, <1>6, <1>7

\* A report adds one packet to the history of its address.
LEMMA ReportHeard ==
  ASSUME TInv, NEW a \in Addr, NEW pkt \in Broadcasts[a], Report(a, pkt)
  PROVE  /\ pkt \in Packet
         /\ heard' \in [Addr -> Seq(Packet)]
         /\ \A b \in Addr : \A type, min : SentIn(heard[b], type, min) => SentIn(heard'[b], type, min)
         /\ \A type, min : Carries(pkt, type, min) => SentIn(heard'[a], type, min)
         /\ \A b \in Addr : Limited(heard[b]) => Limited(heard'[b])
         /\ \A i \in DOMAIN pkt : pkt[i].type = "FLAGS" /\ pkt[i].data[1] % 2 = 1 => Limited(heard'[a])
<1>1. pkt \in Packet
  <2>1. pkt \in UNION {Broadcasts[b] : b \in Addr} OBVIOUS
  <2>2. pkt \in Seq([type : AdType, data : Seq(Byte)]) BY <2>1, ScanAssumption, Zenon
  <2> QED BY <2>2 DEF Packet
<1>2. heard' = [heard EXCEPT ![a] = Append(heard[a], pkt)] BY Zenon DEF Report
<1>3. heard \in [Addr -> Seq(Packet)] BY DEF TInv
<1>4. heard[a] \in Seq(Packet) /\ IsSeq(heard[a])
  <2>1. heard[a] \in Seq(Packet) BY <1>3
  <2> QED BY <2>1 DEF IsSeq
<1>5. Append(heard[a], pkt) \in Seq(Packet) BY <1>1, <1>4
<1>6. heard' \in [Addr -> Seq(Packet)] BY <1>2, <1>3, <1>5
<1>7. ToSet(heard'[a]) = ToSet(heard[a]) \cup {pkt}
  <2>1. heard'[a] = Append(heard[a], pkt) BY <1>2, <1>3
  <2> QED BY <1>4, <2>1, AppendSeq
<1>8. ASSUME NEW b \in Addr PROVE ToSet(heard[b]) \subseteq ToSet(heard'[b])
  <2>1. CASE b = a BY <1>7, <2>1
  <2>2. CASE b # a
    <3>1. heard'[b] = heard[b] BY <1>2, <1>3, <2>2
    <3> QED BY <3>1
  <2> QED BY <2>1, <2>2
<1>9. ASSUME NEW type, NEW min, NEW b \in Addr, SentIn(heard[b], type, min)
      PROVE  SentIn(heard'[b], type, min)
  BY <1>8, <1>9, Zenon DEF SentIn
<1>10. ASSUME NEW type, NEW min, Carries(pkt, type, min)
       PROVE  SentIn(heard'[a], type, min)
  <2>1. pkt \in ToSet(heard'[a]) BY <1>7
  <2> QED BY <1>10, <2>1, Zenon DEF SentIn
<1>11. ASSUME NEW b \in Addr, Limited(heard[b]) PROVE Limited(heard'[b])
  BY <1>8, <1>11, Zenon DEF Limited
<1>12. ASSUME NEW i \in DOMAIN pkt, pkt[i].type = "FLAGS", pkt[i].data[1] % 2 = 1
       PROVE  Limited(heard'[a])
  <2>1. pkt \in ToSet(heard'[a]) BY <1>7
  <2> QED BY <1>12, <2>1, Zenon DEF Limited
<1> QED BY <1>1, <1>6, <1>9, <1>10, <1>11, <1>12

\* A record that was cleared by memset knows nothing.
LEMMA ZeroBacked == ASSUME NEW h PROVE IsAdv(ZeroAdv) /\ Backed(h, ZeroAdv)
<1>1. IsAdv(ZeroAdv) BY DEF ZeroAdv, IsAdv, AdvFields, Zero
<1>2. ZeroAdv.service_id = Zero(16) /\ ZeroAdv.mfg_data.identifier = 0
      /\ ZeroAdv.local_name.version = 0
  BY DEF ZeroAdv
<1>3. Zero(16)[16] = 0 BY DEF Zero
<1> QED BY <1>1, <1>2, <1>3 DEF Backed

\* A report that the filter lets pass.
ReportTaken(a, pkt, v) ==
  LET p == anki_vehicle_parse_adv_record(pkt, v.adv)
      w == [adv |-> p.adv, scan_complete |-> v.scan_complete \/ ready(v, p)]
  IN  /\ vehicles' = [b \in DOMAIN vehicles \cup {a} |-> IF b = a THEN w ELSE vehicles[b]]
      /\ shown' = IF ready(v, p) THEN Append(shown, [addr |-> a, adv |-> p.adv]) ELSE shown

\* The two ways of a report.
LEMMA ReportCases ==
  ASSUME NEW a \in Addr, NEW pkt, Report(a, pkt)
  PROVE  \/ UNCHANGED <<vehicles, shown>>
         \/ /\ check_report_filter(filter_type, pkt)
            /\ \E v \in find_or_add(a) : ReportTaken(a, pkt, v)
<1>1. CASE check_report_filter(filter_type, pkt)
  BY <1>1, Zenon DEF Report, ReportTaken
<1>2. CASE ~ check_report_filter(filter_type, pkt)
  BY <1>2, Zenon DEF Report
<1> QED BY <1>1, <1>2

\* The entry that a report is parsed into.
LEMMA Entry ==
  ASSUME TInv, NEW a \in Addr, NEW v \in find_or_add(a)
  PROVE  /\ IsAdv(v.adv) /\ Backed(heard[a], v.adv) /\ v.scan_complete \in BOOLEAN
         /\ a \in DOMAIN vehicles => v = vehicles[a]
<1>1. CASE a \in DOMAIN vehicles
  <2>1. v = vehicles[a] BY <1>1 DEF find_or_add
  <2>2. EntryOk(vehicles[a], heard[a], filter_type) BY <1>1 DEF TInv
  <2> QED BY <1>1, <2>1, <2>2 DEF EntryOk
<1>2. CASE a \notin DOMAIN vehicles
  <2>1. PICK g \in Heap : v = [adv |-> ZeroAdv, scan_complete |-> g] BY <1>2 DEF find_or_add
  <2>2. v.adv = ZeroAdv /\ v.scan_complete = g BY <2>1
  <2>3. g \in BOOLEAN BY ScanAssumption
  <2> QED BY <1>2, <2>2, <2>3, ZeroBacked
<1> QED BY <1>1, <1>2

\* A packet that --discovery=l lets pass says so in its flags.
LEMMA FilterLimited ==
  ASSUME NEW pkt, check_report_filter("l", pkt)
  PROVE  \E i \in DOMAIN pkt : pkt[i].type = "FLAGS" /\ pkt[i].data[1] % 2 = 1
<1>1. PICK flags \in read_flags(pkt) : flags % 2 = 1
  BY DEF check_report_filter, FLAGS_LIMITED_MODE_BIT
<1>2. \E i \in DOMAIN pkt : pkt[i].type = "FLAGS" /\ flags = pkt[i].data[1]
  BY DEF read_flags
<1> QED BY <1>1, <1>2

\* Reading a report keeps the invariant.
LEMMA TakenKeeps ==
  ASSUME TInv, NEW a \in Addr, NEW pkt \in Broadcasts[a], Report(a, pkt),
         check_report_filter(filter_type, pkt),
         NEW v \in find_or_add(a), ReportTaken(a, pkt, v)
  PROVE  TInv'
<1> DEFINE p == anki_vehicle_parse_adv_record(pkt, v.adv)
           w == [adv |-> p.adv, scan_complete |-> v.scan_complete \/ ready(v, p)]
           l == [addr |-> a, adv |-> p.adv]
<1>1. /\ DOMAIN vehicles' = DOMAIN vehicles \cup {a}
      /\ vehicles'[a] = w
      /\ \A b \in DOMAIN vehicles : b # a => vehicles'[b] = vehicles[b]
  <2> DEFINE u == [b \in DOMAIN vehicles \cup {a} |-> IF b = a THEN w ELSE vehicles[b]]
  <2>1. vehicles' = u BY DEF ReportTaken
  <2> HIDE DEF w
  <2> QED BY <2>1
<1>2. shown' = IF ready(v, p) THEN Append(shown, l) ELSE shown BY DEF ReportTaken
<1>3. /\ IsAdv(v.adv) /\ Backed(heard[a], v.adv) /\ v.scan_complete \in BOOLEAN
      /\ a \in DOMAIN vehicles => v = vehicles[a]
  BY Entry
<1>4. /\ pkt \in Packet
      /\ heard' \in [Addr -> Seq(Packet)]
      /\ \A b \in Addr : \A type, min : SentIn(heard[b], type, min) => SentIn(heard'[b], type, min)
      /\ \A type, min : Carries(pkt, type, min) => SentIn(heard'[a], type, min)
      /\ \A b \in Addr : Limited(heard[b]) => Limited(heard'[b])
      /\ \A i \in DOMAIN pkt : pkt[i].type = "FLAGS" /\ pkt[i].data[1] % 2 = 1 => Limited(heard'[a])
  BY ReportHeard
<1>5. /\ IsAdv(p.adv) /\ From(pkt, p.adv, v.adv)
      /\ p.ret = "0" => is_anki_vehicle_service_uuid(p.adv.service_id)
  BY <1>3, <1>4, ParseFrom
<1>6. w.adv = p.adv /\ w.scan_complete = (v.scan_complete \/ ready(v, p))
      /\ l.addr = a /\ l.adv = p.adv
  OBVIOUS
<1> HIDE DEF p, w, l
<1>7. Backed(heard'[a], p.adv)
  <2> DEFINE adv == p.adv
  <2>1. adv.mfg_data.identifier = 0 \/ SentIn(heard'[a], "MANUFACTURER_DATA", 8)
    BY <1>3, <1>4, <1>5 DEF From, Backed
  <2>2. adv.local_name.version = 0 \/ SentIn(heard'[a], "LOCAL_NAME", 2)
    BY <1>3, <1>4, <1>5 DEF From, Backed
  <2>3. adv.service_id[16] = 0 \/ SentIn(heard'[a], "UUID_128", 16)
    BY <1>3, <1>4, <1>5 DEF From, Backed
  <2> QED BY <2>1, <2>2, <2>3 DEF Backed
<1>8. filter_type = "l" => Limited(heard'[a]) BY <1>4, FilterLimited
<1>9. filter_type' = filter_type BY ReportControl
<1>10. DOMAIN vehicles' \subseteq Addr BY <1>1 DEF TInv
<1>11. ASSUME NEW b \in DOMAIN vehicles'
       PROVE  EntryOk(vehicles'[b], heard'[b], filter_type')
  <2>1. CASE b = a
    <3>1. (v.scan_complete \/ ready(v, p)) \in BOOLEAN OBVIOUS
    <3> QED BY <1>1, <1>5, <1>6, <1>7, <1>8, <1>9, <2>1, <3>1 DEF EntryOk
  <2>2. CASE b # a
    <3>1. b \in DOMAIN vehicles /\ b \in Addr /\ vehicles'[b] = vehicles[b] BY <1>1, <2>2 DEF TInv
    <3>2. EntryOk(vehicles[b], heard[b], filter_type) BY <3>1 DEF TInv
    <3>3. Backed(heard'[b], vehicles[b].adv) BY <1>4, <3>1, <3>2 DEF EntryOk, Backed
    <3> QED BY <1>4, <1>9, <3>1, <3>2, <3>3 DEF EntryOk
  <2> QED BY <2>1, <2>2
<1>12. ASSUME NEW k, LineOk(k, vehicles, heard) PROVE LineOk(k, vehicles', heard')
  <2>1. k.addr \in DOMAIN vehicles /\ k.addr \in Addr /\ vehicles[k.addr].scan_complete
    BY <1>12 DEF LineOk, TInv
  <2>2. vehicles'[k.addr].scan_complete
    <3>1. CASE k.addr = a BY <1>1, <1>3, <1>6, <2>1, <3>1
    <3>2. CASE k.addr # a BY <1>1, <2>1, <3>2
    <3> QED BY <3>1, <3>2
  <2> QED BY <1>1, <1>4, <1>12, <2>1, <2>2 DEF LineOk
<1>13. CASE ~ ready(v, p)
  <2>1. shown' = shown BY <1>2, <1>13
  <2> QED BY <1>4, <1>10, <1>11, <1>12, <2>1 DEF TInv
<1>14. CASE ready(v, p)
  <2>1. shown' = Append(shown, l) BY <1>2, <1>14
  <2>2. p.ret = "0" /\ p.adv.mfg_data.identifier > 0 /\ p.adv.local_name.version > 0
        /\ ~ v.scan_complete
    BY <1>14 DEF ready
  <2>3. p.adv.service_id[16] = 190
    BY <1>5, <2>2 DEF is_anki_vehicle_service_uuid, AnkiServiceUuid
  <2>4. LineOk(l, vehicles', heard')
    <3>1. p.adv.mfg_data.identifier # 0 /\ p.adv.local_name.version # 0
          /\ p.adv.service_id[16] # 0
      BY <2>2, <2>3
    <3>2. SentIn(heard'[a], "UUID_128", 16) /\ SentIn(heard'[a], "MANUFACTURER_DATA", 8)
          /\ SentIn(heard'[a], "LOCAL_NAME", 2)
      BY <1>7, <3>1 DEF Backed
    <3>3. a \in DOMAIN vehicles' /\ vehicles'[a].scan_complete BY <1>1, <1>6, <1>14
    <3>4. is_anki_vehicle_service_uuid(l.adv.service_id) BY <1>5, <1>6, <2>2
    <3> QED BY <1>6, <3>2, <3>3, <3>4 DEF LineOk
  <2>5. /\ IsSeq(shown') /\ Len(shown) \in Nat /\ DOMAIN shown = 1..Len(shown)
        /\ DOMAIN shown' = 1..(Len(shown) + 1)
        /\ \A i \in DOMAIN shown : shown'[i] = shown[i]
        /\ shown'[Len(shown) + 1] = l
    BY <2>1, AppendSeq DEF TInv
  <2>6. ASSUME NEW i \in DOMAIN shown' PROVE LineOk(shown'[i], vehicles', heard')
    <3>1. CASE i \in DOMAIN shown
      <4>1. LineOk(shown[i], vehicles, heard) /\ shown'[i] = shown[i] BY <2>5, <3>1 DEF TInv
      <4> QED BY <1>12, <4>1
    <3>2. CASE i \notin DOMAIN shown
      <4>1. i = Len(shown) + 1 BY <2>5, <3>2
      <4> QED BY <2>4, <2>5, <4>1
    <3> QED BY <3>1, <3>2
  <2>7. ASSUME NEW i \in DOMAIN shown PROVE shown[i].addr # a
    BY <1>3, <2>2, <2>7 DEF TInv, LineOk
  <2>8. ASSUME NEW i \in DOMAIN shown', NEW j \in DOMAIN shown',
               shown'[i].addr = shown'[j].addr
        PROVE  i = j
    <3>1. CASE i \in DOMAIN shown /\ j \in DOMAIN shown BY <2>5, <2>8, <3>1 DEF TInv
    <3>2. CASE i \in DOMAIN shown /\ j \notin DOMAIN shown
      <4>1. j = Len(shown) + 1 BY <2>5, <3>2
      <4> QED BY <1>6, <2>5, <2>7, <2>8, <3>2, <4>1
    <3>3. CASE i \notin DOMAIN shown /\ j \in DOMAIN shown
      <4>1. i = Len(shown) + 1 BY <2>5, <3>3
      <4> QED BY <1>6, <2>5, <2>7, <2>8, <3>3, <4>1
    <3>4. CASE i \notin DOMAIN shown /\ j \notin DOMAIN shown BY <2>5, <3>4
    <3> QED BY <3>1, <3>2, <3>3, <3>4
  <2> QED BY <1>4, <1>10, <1>11, <2>5, <2>6, <2>8 DEF TInv
<1> QED BY <1>13, <1>14

\* A step that is no report leaves the table and the display.
LEMMA TableKeeps == ASSUME TInv, UNCHANGED table PROVE TInv'
BY DEF TInv, table

\* Every step keeps the invariant.
LEMMA TableNext == TInv /\ [Next]_vars => TInv'
<1> SUFFICES ASSUME TInv, [Next]_vars PROVE TInv' OBVIOUS
<1>1. ASSUME NEW ok \in BOOLEAN, Step(ok) PROVE TInv'
  BY <1>1, TableKeeps
     DEF Step, SetParameters, EnableScan, SetFilter, RestoreFilter, DisableScan
<1>2. ASSUME NEW a \in Addr, NEW pkt \in Broadcasts[a], Report(a, pkt) PROVE TInv'
  <2>1. CASE UNCHANGED <<vehicles, shown>>
    <3>1. /\ heard' \in [Addr -> Seq(Packet)]
          /\ \A b \in Addr : \A type, min : SentIn(heard[b], type, min) => SentIn(heard'[b], type, min)
          /\ \A b \in Addr : Limited(heard[b]) => Limited(heard'[b])
      BY <1>2, ReportHeard
    <3>2. filter_type' = filter_type BY <1>2, ReportControl
    <3>3. ASSUME NEW b \in DOMAIN vehicles PROVE EntryOk(vehicles[b], heard'[b], filter_type)
      <4>1. EntryOk(vehicles[b], heard[b], filter_type) /\ b \in Addr BY DEF TInv
      <4>2. Backed(heard'[b], vehicles[b].adv) BY <3>1, <4>1 DEF EntryOk, Backed
      <4> QED BY <3>1, <4>1, <4>2 DEF EntryOk
    <3>4. ASSUME NEW i \in DOMAIN shown PROVE LineOk(shown[i], vehicles, heard')
      <4>1. LineOk(shown[i], vehicles, heard) /\ shown[i].addr \in Addr BY DEF TInv, LineOk
      <4> QED BY <3>1, <4>1 DEF LineOk
    <3> QED BY <2>1, <3>1, <3>2, <3>3, <3>4 DEF TInv
  <2>2. CASE ~ UNCHANGED <<vehicles, shown>>
    <3>1. check_report_filter(filter_type, pkt) /\ \E v \in find_or_add(a) : ReportTaken(a, pkt, v)
      BY <1>2, <2>2, ReportCases
    <3> QED BY <1>2, <3>1, TakenKeeps
  <2> QED BY <2>1, <2>2
<1>3. ASSUME NEW inRead \in BOOLEAN, Sigint(inRead) PROVE TInv'
  BY <1>3, TableKeeps DEF Sigint
<1>4. ASSUME \/ ReadInterrupted \/ OtherMetaEvent \/ ReadError
      PROVE  TInv'
  BY <1>4, TableKeeps DEF ReadInterrupted, OtherMetaEvent, ReadError
<1>5. ASSUME UNCHANGED vars PROVE TInv' BY <1>5, TableKeeps DEF vars, table
<1> QED BY <1>1, <1>2, <1>3, <1>4, <1>5 DEF Next

\* The invariant of the table holds in every state of the scanner.
THEOREM TableInvariant == Spec => []TInv
<1>1. Init => TInv
  <2> SUFFICES ASSUME Init PROVE TInv OBVIOUS
  <2>1. heard \in [Addr -> Seq(Packet)]
    <3>1. <<>> \in Seq(Packet) OBVIOUS
    <3> QED BY <3>1 DEF Init
  <2>2. DOMAIN vehicles = {} /\ DOMAIN shown = {} BY DEF Init
  <2>3. IsSeq(shown) BY DEF Init, IsSeq
  <2> QED BY <2>1, <2>2, <2>3 DEF TInv
<1> QED BY <1>1, TableNext, PTL DEF Spec

\* Only a device that itself sent the Anki service, its manufacturer data and a
\* version is displayed, and once, however the packets of all devices
\* interleave and whatever the heap held; with --discovery=l only devices that
\* said so are even recorded.
THEOREM DisplayIsOfVehicles == Spec => []OnlyVehicles
<1>1. TInv => OnlyVehicles
  <2> SUFFICES ASSUME TInv PROVE OnlyVehicles OBVIOUS
  <2>1. ASSUME NEW i \in DOMAIN shown
        PROVE  LineOk(shown[i], vehicles, heard) /\ \A j \in DOMAIN shown : shown[j].addr = shown[i].addr => i = j
    BY DEF TInv
  <2>2. ASSUME filter_type = "l", NEW a \in DOMAIN vehicles PROVE Limited(heard[a])
    BY <2>2 DEF TInv, EntryOk
  <2> QED BY <2>1, <2>2 DEF OnlyVehicles, LineOk, Limited, SentIn, Sent, Carries
<1> QED BY <1>1, TableInvariant, PTL

-----------------------------------------------------------------------------
(***************************************************************************)
(* What an entry holds is the latest that its address has sent.            *)
(***************************************************************************)
\* The packets of h that pass the filter f, with their numbers.
Passed(h, f) == Restrict(h, {i \in DOMAIN h : check_report_filter(f, h[i])})

Sound(pkt) == pkt \in Packet /\ \A i \in DOMAIN pkt : WellFormed(pkt[i])

\* Of an address that sent h, under the filter f, vs being the table.
Current(vs, a, h, f) ==
  /\ a \notin DOMAIN vs => DOMAIN Passed(h, f) = {}
  /\ a \in DOMAIN vs => (Full(Passed(h, f)) => Knows(Passed(h, f), vs[a].adv))

KInv ==
  /\ heard \in [Addr -> Seq(Packet)]
  /\ \A a \in Addr : \A i \in DOMAIN heard[a] : Sound(heard[a][i])
  /\ \A a \in Addr : Current(vehicles, a, heard[a], filter_type)

\* Full UUIDs and sound packets are what the parser's theorem is about.
LEMMA PassedGood ==
  ASSUME NEW h \in Seq(Packet), NEW f, \A i \in DOMAIN h : Sound(h[i]), Full(Passed(h, f))
  PROVE  GoodHist(Passed(h, f))
<1> DEFINE g == Passed(h, f)
<1>1. DOMAIN g \subseteq DOMAIN h /\ \A i \in DOMAIN g : g[i] = h[i] BY DEF Passed, Restrict
<1>2. DOMAIN h \subseteq Nat OBVIOUS
<1>3. IsHist(g) BY <1>1, <1>2 DEF IsHist, Sound
<1>4. ASSUME NEW i \in DOMAIN g, NEW j \in DOMAIN g[i] PROVE IsStructure(g[i][j])
  <2>1. WellFormed(g[i][j]) BY <1>1 DEF Sound
  <2>2. g[i][j].type = "UUID_128" => Len(g[i][j].data) = 16 BY DEF Full, FullUuids
  <2> QED BY <2>1, <2>2 DEF IsStructure, WellFormed
<1> HIDE DEF g
<1>5. GoodHist(g) BY <1>3, <1>4 DEF GoodHist
<1> QED BY <1>5 DEF g

\* One more packet.
LEMMA PassedMore ==
  ASSUME NEW h \in Seq(Packet), NEW f, NEW pkt \in Packet, NEW k, k = Append(h, pkt),
         NEW n, n = Len(h) + 1
  PROVE  /\ check_report_filter(f, pkt) =>
              /\ Heard(Passed(h, f), n, Passed(k, f))
              /\ Full(Passed(k, f)) => Full(Passed(h, f))
         /\ ~ check_report_filter(f, pkt) => Passed(k, f) = Passed(h, f)
<1> DEFINE ok(x) == check_report_filter(f, x)
           D == {i \in DOMAIN h : ok(h[i])}
           E == {i \in DOMAIN k : ok(k[i])}
           old == Passed(h, f)
           new == Passed(k, f)
<1>1. /\ Len(h) \in Nat /\ DOMAIN h = 1..Len(h) /\ DOMAIN k = 1..n
      /\ k[n] = pkt /\ \A i \in DOMAIN h : k[i] = h[i]
  OBVIOUS
<1>2. n \in Nat /\ n \notin DOMAIN h /\ DOMAIN k = DOMAIN h \cup {n} BY <1>1
<1>3. old = [i \in D |-> h[i]] /\ new = [i \in E |-> k[i]] BY DEF Passed, Restrict
<1> HIDE DEF ok, old, new
<1>4. CASE ok(pkt)
  <2>1. E = D \cup {n} BY <1>1, <1>2, <1>4
  <2>2. n \notin D /\ D \subseteq DOMAIN h BY <1>2
  <2> HIDE DEF D, E
  <2>3. DOMAIN new = D \cup {n} /\ new[n] = pkt /\ \A i \in D : new[i] = h[i]
    BY <1>1, <1>3, <2>1, <2>2
  <2>4. \A i \in DOMAIN new : i <= n BY <1>1, <2>2, <2>3
  <2>5. DOMAIN new \ {n} = D BY <2>2, <2>3
  <2>6. old = [i \in DOMAIN new \ {n} |-> new[i]] BY <1>3, <2>3, <2>5
  <2>7. Heard(old, n, new) BY <2>3, <2>4, <2>6 DEF Heard
  <2>8. ASSUME Full(new) PROVE Full(old)
    <3>1. ASSUME NEW i \in DOMAIN old PROVE FullUuids(old[i])
      <4>1. i \in D /\ old[i] = h[i] BY <1>3
      <4>2. i \in DOMAIN new /\ new[i] = old[i] BY <2>3, <4>1
      <4> QED BY <2>8, <4>2 DEF Full
    <3> QED BY <3>1 DEF Full
  <2> QED BY <1>4, <2>3, <2>7, <2>8 DEF ok, old, new
<1>5. CASE ~ ok(pkt)
  <2>1. E = D BY <1>1, <1>2, <1>5
  <2>2. \A i \in D : k[i] = h[i] BY <1>1
  <2> HIDE DEF D, E
  <2>3. new = old BY <1>3, <2>1, <2>2
  <2> QED BY <1>5, <2>3 DEF ok, old, new
<1> QED BY <1>4, <1>5 DEF ok

\* One that passes is the last one.
LEMMA PassedLast ==
  ASSUME NEW h \in Seq(Packet), NEW f, NEW pkt \in Packet, NEW k, k = Append(h, pkt),
         check_report_filter(f, pkt)
  PROVE  Passed(k, f)[Len(h) + 1] = pkt
<1> DEFINE n == Len(h) + 1
<1>1. n \in DOMAIN k /\ k[n] = pkt OBVIOUS
<1>2. Passed(k, f) = [i \in {j \in DOMAIN k : check_report_filter(f, k[j])} |-> k[i]]
  BY DEF Passed, Restrict
<1> QED BY <1>1, <1>2

\* A report changes the history and the entry of its address only.
LEMMA ReportChanges ==
  ASSUME KInv, NEW a \in Addr, NEW pkt \in Broadcasts[a], Report(a, pkt)
  PROVE  /\ Sound(pkt)
         /\ heard'[a] = Append(heard[a], pkt)
         /\ \A b \in Addr \ {a} : heard'[b] = heard[b]
<1>1. Sound(pkt)
  <2>1. pkt \in UNION {Broadcasts[b] : b \in Addr} OBVIOUS
  <2>2. pkt \in Seq([type : AdType, data : Seq(Byte)]) /\ \A i \in DOMAIN pkt : WellFormed(pkt[i])
    BY <2>1, ScanAssumption, Zenon
  <2> QED BY <2>2 DEF Packet, Sound
<1>2. heard' = [heard EXCEPT ![a] = Append(heard[a], pkt)] BY Zenon DEF Report
<1>3. heard \in [Addr -> Seq(Packet)] BY DEF KInv
<1> QED BY <1>1, <1>2, <1>3

\* What a report does to the entry of its address.
LEMMA CurrentTaken ==
  ASSUME KInv, NEW a \in Addr, NEW pkt \in Broadcasts[a], Report(a, pkt),
         check_report_filter(filter_type, pkt), NEW v \in find_or_add(a), ReportTaken(a, pkt, v)
  PROVE  Current(vehicles', a, heard'[a], filter_type)
<1> DEFINE h == heard[a]
           k == heard'[a]
           f == filter_type
           old == Passed(h, f)
           new == Passed(k, f)
           p == anki_vehicle_parse_adv_record(pkt, v.adv)
           n == Len(h) + 1
<1>1. h \in Seq(Packet) /\ \A i \in DOMAIN h : Sound(h[i]) BY DEF KInv
<1>2. Sound(pkt) /\ pkt \in Packet /\ k = Append(h, pkt) BY ReportChanges DEF Sound
<1>3. Heard(old, n, new) /\ new[n] = pkt /\ (Full(new) => Full(old))
  <2>1. h \in Seq(Packet) /\ pkt \in Packet /\ k = Append(h, pkt) /\ n = Len(h) + 1
        /\ check_report_filter(f, pkt)
    BY <1>1, <1>2
  <2> HIDE DEF h, k, f
  <2>3. Passed(k, f)[Len(h) + 1] = pkt BY ONLY <2>1, PassedLast
  <2> HIDE DEF n
  <2>2. Heard(Passed(h, f), n, Passed(k, f)) BY ONLY <2>1, PassedMore
  <2>4. Full(Passed(k, f)) => Full(Passed(h, f)) BY ONLY <2>1, PassedMore
  <2> QED BY <2>2, <2>3, <2>4 DEF n
<1>4. k \in Seq(Packet) /\ \A i \in DOMAIN k : Sound(k[i])
  <2> HIDE DEF h, k
  <2> QED BY <1>1, <1>2
<1>5. a \in DOMAIN vehicles' /\ vehicles'[a].adv = p.adv
  <2> DEFINE w == [adv |-> p.adv, scan_complete |-> v.scan_complete \/ ready(v, p)]
  <2>1. vehicles' = [b \in DOMAIN vehicles \cup {a} |-> IF b = a THEN w ELSE vehicles[b]]
    BY DEF ReportTaken
  <2>2. w.adv = p.adv OBVIOUS
  <2> HIDE DEF w, p
  <2> QED BY <2>1, <2>2
<1>6. ASSUME Full(new) PROVE Knows(new, p.adv)
  <2>1. Knows(old, v.adv)
    <3>1. CASE a \in DOMAIN vehicles
      <4>1. v = vehicles[a] BY <3>1 DEF find_or_add
      <4>2. Current(vehicles, a, h, f) BY DEF KInv
      <4> QED BY <1>3, <1>6, <3>1, <4>1, <4>2 DEF Current
    <3>2. CASE a \notin DOMAIN vehicles
      <4>1. PICK g \in Heap : v = [adv |-> ZeroAdv, scan_complete |-> g] BY <3>2 DEF find_or_add
      <4>2. v.adv = ZeroAdv BY <4>1
      <4>3. Current(vehicles, a, h, f) BY DEF KInv
      <4>4. DOMAIN old = {} BY <3>2, <4>3 DEF Current
      <4> QED BY <4>2, <4>4, KnowsNothing
    <3> QED BY <3>1, <3>2
  <2>2. GoodHist(new)
    <3> HIDE DEF k
    <3> QED BY <1>4, <1>6, PassedGood
  <2>3. p = anki_vehicle_parse_adv_record(new[n], v.adv) BY <1>3
  <2> HIDE DEF p, new, old, n
  <2> QED BY <1>3, <2>1, <2>2, <2>3, ParserAccumulates
<1> HIDE DEF p
<1> QED BY <1>5, <1>6 DEF Current

\* A report keeps what is known of every address.
LEMMA ReportKeepsCurrent ==
  ASSUME KInv, NEW a \in Addr, NEW pkt \in Broadcasts[a], Report(a, pkt)
  PROVE  KInv'
<1>1. /\ Sound(pkt) /\ pkt \in Packet
      /\ heard'[a] = Append(heard[a], pkt)
      /\ \A b \in Addr \ {a} : heard'[b] = heard[b]
  BY ReportChanges DEF Sound
<1>2. heard' \in [Addr -> Seq(Packet)]
  <2>1. heard' = [heard EXCEPT ![a] = Append(heard[a], pkt)] BY Zenon DEF Report
  <2>2. heard \in [Addr -> Seq(Packet)] BY DEF KInv
  <2>3. Append(heard[a], pkt) \in Seq(Packet)
    <3>1. heard[a] \in Seq(Packet) BY <2>2
    <3> QED BY <1>1, <3>1
  <2> QED BY <2>1, <2>2, <2>3
<1>3. ASSUME NEW b \in Addr, NEW i \in DOMAIN heard'[b] PROVE Sound(heard'[b][i])
  <2>1. heard[b] \in Seq(Packet) /\ \A j \in DOMAIN heard[b] : Sound(heard[b][j]) BY DEF KInv
  <2>2. CASE b = a
    <3> DEFINE h == heard[b]
               k == heard'[b]
    <3>1. k = Append(h, pkt) BY <1>1, <2>2
    <3> HIDE DEF h, k
    <3>2. h \in Seq(Packet) /\ \A j \in DOMAIN h : Sound(h[j]) BY <2>1 DEF h
    <3>3. i \in DOMAIN k BY DEF k
    <3>4. Sound(k[i]) BY <1>1, <3>1, <3>2, <3>3
    <3> QED BY <3>4 DEF k
  <2>3. CASE b # a
    <3>1. heard'[b] = heard[b] BY <1>1, <2>3
    <3> QED BY <2>1, <3>1
  <2> QED BY <2>2, <2>3
<1>4. filter_type' = filter_type BY ReportControl
<1>5. \/ UNCHANGED <<vehicles, shown>> /\ ~ check_report_filter(filter_type, pkt)
      \/ /\ check_report_filter(filter_type, pkt)
         /\ \E v \in find_or_add(a) : ReportTaken(a, pkt, v)
  <2>1. CASE check_report_filter(filter_type, pkt) BY <2>1, Zenon DEF Report, ReportTaken
  <2>2. CASE ~ check_report_filter(filter_type, pkt) BY <2>2, Zenon DEF Report
  <2> QED BY <2>1, <2>2
<1>6. ASSUME NEW b \in Addr PROVE Current(vehicles', b, heard'[b], filter_type)
  <2>1. Current(vehicles, b, heard[b], filter_type) BY DEF KInv
  <2>2. CASE b # a
    <3>1. heard'[b] = heard[b] BY <1>1, <2>2
    <3>2. b \in DOMAIN vehicles' <=> b \in DOMAIN vehicles
      BY <1>5, <2>2 DEF ReportTaken
    <3>3. b \in DOMAIN vehicles => vehicles'[b] = vehicles[b]
      BY <1>5, <2>2 DEF ReportTaken
    <3> QED BY <2>1, <3>1, <3>2, <3>3 DEF Current
  <2>3. CASE b = a /\ ~ check_report_filter(filter_type, pkt)
    <3>1. heard[a] \in Seq(Packet) BY DEF KInv
    <3>2. Passed(heard'[a], filter_type) = Passed(heard[a], filter_type)
      <4> DEFINE k == heard'[a]
             h == heard[a]
             f == filter_type
             n == Len(h) + 1
      <4>1. h \in Seq(Packet) /\ pkt \in Packet /\ k = Append(h, pkt) /\ n = Len(h) + 1
            /\ ~ check_report_filter(f, pkt)
        BY <1>1, <2>3, <3>1
      <4> HIDE DEF h, k, f, n
      <4>2. Passed(k, f) = Passed(h, f) BY ONLY <4>1, PassedMore
      <4> QED BY <4>2 DEF h, k, f
    <3>3. vehicles' = vehicles BY <1>5, <2>3
    <3> QED BY <2>1, <2>3, <3>2, <3>3 DEF Current
  <2>4. CASE b = a /\ check_report_filter(filter_type, pkt)
    <3>1. PICK v \in find_or_add(a) : ReportTaken(a, pkt, v) BY <1>5, <2>4
    <3>2. Current(vehicles', a, heard'[a], filter_type) BY <2>4, <3>1, CurrentTaken
    <3> QED BY <2>4, <3>2
  <2> QED BY <2>2, <2>3, <2>4
<1> QED BY <1>2, <1>3, <1>4, <1>6 DEF KInv

\* A step that is no report leaves what is known.
LEMMA CurrentKeeps == ASSUME KInv, UNCHANGED table PROVE KInv'
BY DEF KInv, table

\* What every entry holds is known from the reports of its own address, in
\* every state of the scanner.
THEOREM EntriesAreCurrent == Spec => []KInv
<1>1. Init => KInv
  <2> SUFFICES ASSUME Init PROVE KInv OBVIOUS
  <2>1. heard \in [Addr -> Seq(Packet)] /\ \A a \in Addr : DOMAIN heard[a] = {}
    <3>1. heard = [a \in Addr |-> <<>>] BY DEF Init
    <3>2. <<>> \in Seq(Packet) /\ DOMAIN <<>> = {} OBVIOUS
    <3> QED BY <3>1, <3>2
  <2>2. DOMAIN vehicles = {} BY DEF Init
  <2>3. ASSUME NEW a \in Addr PROVE Current(vehicles, a, heard[a], filter_type)
    <3>1. DOMAIN Passed(heard[a], filter_type) = {} BY <2>1 DEF Passed, Restrict
    <3> QED BY <2>2, <3>1 DEF Current
  <2> QED BY <2>1, <2>3 DEF KInv
<1>2. KInv /\ [Next]_vars => KInv'
  <2> SUFFICES ASSUME KInv, [Next]_vars PROVE KInv' OBVIOUS
  <2>1. ASSUME NEW ok \in BOOLEAN, Step(ok) PROVE KInv'
    BY <2>1, CurrentKeeps
       DEF Step, SetParameters, EnableScan, SetFilter, RestoreFilter, DisableScan
  <2>2. ASSUME NEW a \in Addr, NEW pkt \in Broadcasts[a], Report(a, pkt) PROVE KInv'
    BY <2>2, ReportKeepsCurrent
  <2>3. ASSUME NEW inRead \in BOOLEAN, Sigint(inRead) PROVE KInv'
    BY <2>3, CurrentKeeps DEF Sigint
  <2>4. ASSUME \/ ReadInterrupted \/ OtherMetaEvent \/ ReadError PROVE KInv'
    BY <2>4, CurrentKeeps DEF ReadInterrupted, OtherMetaEvent, ReadError
  <2>5. ASSUME UNCHANGED vars PROVE KInv' BY <2>5, CurrentKeeps DEF vars, table
  <2> QED BY <2>1, <2>2, <2>3, <2>4, <2>5 DEF Next
<1> QED BY <1>1, <1>2, PTL DEF Spec

\* "Parsed scan data will overwrite matching record data in the struct": each
\* entry holds, field by field, the latest that its own address has sent,
\* whatever comes in between and in whatever order, with and without a filter.
THEOREM EntriesAreLatest == Spec => []AccumulatedIsLatest
<1>1. KInv /\ TInv => AccumulatedIsLatest
  <2> SUFFICES ASSUME KInv, TInv, NEW a \in DOMAIN vehicles, Full(accepted(a))
               PROVE  vehicles[a].adv = KnownFrom(accepted(a))
    BY DEF AccumulatedIsLatest
  <2>1. a \in Addr BY DEF TInv
  <2>2. accepted(a) = Passed(heard[a], filter_type) BY DEF accepted, Passed
  <2>3. Knows(accepted(a), vehicles[a].adv) BY <2>1, <2>2 DEF KInv, Current
  <2>4. GoodHist(accepted(a)) BY <2>1, <2>2, PassedGood DEF KInv
  <2> QED BY <2>3, <2>4, KnowsIs DEF GoodHist
<1> QED BY <1>1, EntriesAreCurrent, TableInvariant, PTL
=============================================================================
