------------------------ MODULE GattDiscoveryProofs ------------------------
(***************************************************************************)
(* Discovery is exact in Gatt, for every database, every set of calls and  *)
(* any number of them: what a discovery has collected is a prefix of what  *)
(* it ought to find, and all of it if no request of it failed.             *)
(*                                                                         *)
(* Databases are sequences in handle order, and what is asked of them are  *)
(* selections by positions (Picked).  A discovery goes through its entries *)
(* (Base) by number; a command of it leads from one number to a later one  *)
(* (Leads), and the commands in the queue are a path from what was         *)
(* collected to the end (Path).                                            *)
(***************************************************************************)
EXTENDS GattValuesProofs

-----------------------------------------------------------------------------
(***************************************************************************)
(* Selections.  The elements of s at the positions P, as the loop of       *)
(* Picked collects them.                                                   *)
(***************************************************************************)
PickRun(g, s, P, n) ==
  g = [k \in 0..n |-> IF k = 0 THEN <<>>
                      ELSE IF k \in P THEN Append(g[k - 1], s[k]) ELSE g[k - 1]]

\* What the run has collected behind each position.
Picks(g, s, P, n) ==
  /\ g[0] = <<>>
  /\ \A k \in 1..n : g[k] = IF k \in P THEN Append(g[k - 1], s[k]) ELSE g[k - 1]

\* The recursive definition has a solution.
LEMMA PickExists ==
  ASSUME NEW s, NEW P, NEW n \in Nat
  PROVE  \E g : PickRun(g, s, P, n)
<1> DEFINE T == {m \in Nat : ~ \E g : PickRun(g, s, P, m)}
<1>1. SUFFICES ASSUME T # {} PROVE FALSE
  OBVIOUS
<1>2. PICK m \in T : \A k \in T : m <= k
  <2>1. T \in SUBSET Nat OBVIOUS
  <2> HIDE DEF T
  <2> QED BY <1>1, <2>1, LeastNat
<1>3. CASE m = 0
  <2> DEFINE g == [k \in 0..0 |-> <<>>]
  <2>1. PickRun(g, s, P, 0) BY DEF PickRun
  <2> HIDE DEF g
  <2> QED BY <1>3, <2>1
<1>4. CASE m # 0
  <2>1. m \in Nat /\ m - 1 \in Nat /\ ~ (m <= m - 1) BY <1>4
  <2>2. m - 1 \notin T BY <1>2, <2>1
  <2>3. PICK h : PickRun(h, s, P, m - 1) BY <2>1, <2>2
  <2> DEFINE y == IF m \in P THEN Append(h[m - 1], s[m]) ELSE h[m - 1]
             g == [k \in 0..m |-> IF k = m THEN y ELSE h[k]]
             Step(f, k) == IF k = 0 THEN <<>> ELSE IF k \in P THEN Append(f[k - 1], s[k]) ELSE f[k - 1]
  <2>4. ASSUME NEW k \in 0..m PROVE g[k] = Step(g, k)
    <3>1. CASE k = m
      <4>1. g[m - 1] = h[m - 1] /\ g[m] = y
        <5> HIDE DEF y
        <5> QED BY <2>1
      <4> HIDE DEF g
      <4> QED BY <1>4, <3>1, <4>1
    <3>2. CASE k # m
      <4>1. k \in 0..(m - 1) /\ g[k] = h[k] /\ (k # 0 => g[k - 1] = h[k - 1])
        <5> HIDE DEF y
        <5> QED BY <2>1, <3>2
      <4>2. h[k] = Step(h, k)
        <5> DEFINE f == [j \in 0..(m - 1) |-> Step(h, j)]
        <5>1. h = f BY <2>3 DEF PickRun
        <5>2. f[k] = Step(h, k) BY <4>1
        <5> HIDE DEF f, Step
        <5> QED BY <5>1, <5>2
      <4> HIDE DEF g
      <4> QED BY <4>1, <4>2
    <3> QED BY <3>1, <3>2
  <2>5. PickRun(g, s, P, m)
    <3> DEFINE f == [k \in 0..m |-> Step(g, k)]
    <3>1. g = f
      <4>1. g = [k \in 0..m |-> g[k]] OBVIOUS
      <4>2. \A k \in 0..m : g[k] = f[k] BY <2>4
      <4>3. f = [k \in 0..m |-> f[k]] OBVIOUS
      <4> HIDE DEF g, f
      <4> QED BY <4>1, <4>2, <4>3
    <3> QED BY <3>1 DEF PickRun
  <2> HIDE DEF g
  <2> QED BY <2>1, <2>5
<1> QED BY <1>3, <1>4

\* Picked is what it has collected in the end.
LEMMA PickedRun ==
  ASSUME NEW s, IsSeq(s), NEW P
  PROVE  \E g : Picks(g, s, P, Len(s)) /\ Picked(s, P) = g[Len(s)]
<1> DEFINE n == Len(s)
<1>1. n \in Nat BY SeqLen
<1>2. \E g : PickRun(g, s, P, n)
  <2> HIDE DEF n
  <2> QED BY <1>1, PickExists
<1> DEFINE h == CHOOSE g : PickRun(g, s, P, n)
<1>3. PickRun(h, s, P, n)
  <2> HIDE DEF n
  <2> QED BY <1>2
<1>4. Picked(s, P) = h[n] BY DEF Picked, PickRun
<1> HIDE DEF h, n
<1> DEFINE Step(k) == IF k = 0 THEN <<>> ELSE IF k \in P THEN Append(h[k - 1], s[k]) ELSE h[k - 1]
           f == [k \in 0..n |-> Step(k)]
<1>5. h = f BY <1>3 DEF PickRun
<1>6. ASSUME NEW k \in 0..n PROVE h[k] = Step(k)
  <2>1. f[k] = Step(k) OBVIOUS
  <2> HIDE DEF f, Step
  <2> QED BY <1>5, <2>1
<1> HIDE DEF f
<1>7. h[0] = <<>> BY <1>1, <1>6
<1>8. ASSUME NEW k \in 1..n PROVE h[k] = IF k \in P THEN Append(h[k - 1], s[k]) ELSE h[k - 1]
  <2>1. k \in 0..n /\ k # 0 BY <1>1
  <2> QED BY <1>6, <2>1
<1>9. Picks(h, s, P, n) BY <1>7, <1>8 DEF Picks
<1> QED BY <1>4, <1>9 DEF n

\* Induction up to n.
LEMMA UpTo ==
  ASSUME NEW n \in Nat, NEW S, 0 \in S, \A k \in 1..n : k - 1 \in S => k \in S
  PROVE  \A k \in 0..n : k \in S
<1> DEFINE T == {k \in 0..n : k \notin S}
<1>1. SUFFICES ASSUME T # {} PROVE FALSE OBVIOUS
<1>2. PICK m \in T : \A k \in T : m <= k
  <2>1. T \in SUBSET Nat OBVIOUS
  <2> HIDE DEF T
  <2> QED BY <1>1, <2>1, LeastNat
<1>3. m \in 1..n /\ m \notin S OBVIOUS
<1>4. m - 1 \in 0..n /\ ~ (m <= m - 1) BY <1>3
<1>5. m - 1 \in S BY <1>2, <1>4
<1> QED BY <1>3, <1>5

\* Sequences with the same elements.
LEMMA SeqEq ==
  ASSUME NEW s, IsSeq(s), NEW t, IsSeq(t), Len(s) = Len(t), \A i \in 1..Len(s) : s[i] = t[i]
  PROVE  s = t
<1>1. s = [i \in 1..Len(s) |-> s[i]]
  <2> DEFINE S == {s[i] : i \in DOMAIN s}
  <2>1. s \in Seq(S) BY DEF IsSeq
  <2> HIDE DEF S
  <2> QED BY <2>1
<1>2. t = [i \in 1..Len(t) |-> t[i]]
  <2> DEFINE S == {t[i] : i \in DOMAIN t}
  <2>1. t \in Seq(S) BY DEF IsSeq
  <2> HIDE DEF S
  <2> QED BY <2>1
<1> QED BY <1>1, <1>2

\* No elements.
LEMMA NoneSeq ==
  ASSUME NEW e, e = <<>>
  PROVE  IsSeq(e) /\ Len(e) = 0 /\ DOMAIN e = {}
<1>1. IsSeq(e) /\ Len(e) = 0 BY DEF IsSeq
<1>2. DOMAIN e = {} BY <1>1, SeqLen
<1> QED BY <1>1, <1>2

FirstOf(s, n) == [i \in 1..n |-> s[i]]

\* The first n elements, and what is left behind them.
LEMMA FirstRest ==
  ASSUME NEW s, IsSeq(s), NEW n \in 0..Len(s)
  PROVE  /\ IsSeq(FirstOf(s, n)) /\ Len(FirstOf(s, n)) = n /\ \A i \in 1..n : FirstOf(s, n)[i] = s[i]
         /\ IsSeq(Rest(s, n)) /\ Len(Rest(s, n)) = Len(s) - n
         /\ \A i \in 1..(Len(s) - n) : Rest(s, n)[i] = s[n + i]
         /\ FirstOf(s, n) \o Rest(s, n) = s
<1> DEFINE f == FirstOf(s, n)
           r == Rest(s, n)
           m == Len(s) - n
<1>1. Len(s) \in Nat /\ n \in Nat /\ m \in Nat BY SeqLen
<1>2. f = [i \in 1..n |-> f[i]] /\ \A i \in 1..n : f[i] = s[i] BY DEF FirstOf
<1>3. r = [i \in 1..m |-> r[i]] /\ \A i \in 1..m : r[i] = s[i + n] BY DEF Rest
<1> HIDE DEF f, r
<1>4. IsSeq(f) /\ Len(f) = n BY <1>1, <1>2, FcnSeq
<1>5. IsSeq(r) /\ Len(r) = m
  <2> HIDE DEF m
  <2> QED BY <1>1, <1>3, FcnSeq
<1>6. \A i \in 1..m : r[i] = s[n + i]
  <2>1. \A i \in 1..m : i + n = n + i BY <1>1
  <2> QED BY <1>3, <2>1
<1>7. f \o r = s
  <2> DEFINE u == f \o r
  <2>1. u = f \o r OBVIOUS
  <2> HIDE DEF u
  <2>2. /\ IsSeq(u) /\ Len(u) = n + m
        /\ \A i \in DOMAIN f : u[i] = f[i]
        /\ \A i \in DOMAIN r : u[n + i] = r[i]
    <3>1. IsSeq(u) /\ Len(u) = Len(f) + Len(r) BY <1>4, <1>5, <2>1, CatSeq
    <3>2. \A i \in DOMAIN f : u[i] = f[i] BY <1>4, <1>5, <2>1, CatSeq
    <3>3. \A i \in DOMAIN r : u[Len(f) + i] = r[i] BY <1>4, <1>5, <2>1, CatSeq
    <3> QED BY <1>4, <1>5, <3>1, <3>2, <3>3
  <2>3. DOMAIN f = 1..n /\ DOMAIN r = 1..m BY <1>2, <1>3
  <2>4. n + m = Len(s) BY <1>1
  <2>5. ASSUME NEW i \in 1..Len(s) PROVE u[i] = s[i]
    <3>1. CASE i <= n
      <4>1. i \in 1..n BY <1>1, <3>1
      <4> QED BY <1>2, <2>2, <2>3, <4>1
    <3>2. CASE ~ (i <= n)
      <4>1. i - n \in 1..m /\ n + (i - n) = i BY <1>1, <3>2
      <4> QED BY <1>6, <2>2, <2>3, <4>1
    <3> QED BY <3>1, <3>2
  <2>6. Len(u) = Len(s) BY <2>2, <2>4
  <2>7. \A i \in 1..Len(u) : u[i] = s[i] BY <2>5, <2>6
  <2>8. u = s BY <2>2, <2>6, <2>7, SeqEq
  <2> QED BY <2>8 DEF u
<1> QED BY <1>1, <1>2, <1>4, <1>5, <1>6, <1>7 DEF f, r, m

\* All of them, and none.
LEMMA FirstEnds ==
  ASSUME NEW s, IsSeq(s)
  PROVE  FirstOf(s, 0) = <<>> /\ FirstOf(s, Len(s)) = s /\ Rest(s, 0) = s /\ Rest(s, Len(s)) = <<>>
<1>1. Len(s) \in Nat /\ 0 \in 0..Len(s) /\ Len(s) \in 0..Len(s) BY SeqLen
<1>2. IsSeq(FirstOf(s, 0)) /\ Len(FirstOf(s, 0)) = 0 BY <1>1, FirstRest
<1>3. /\ IsSeq(Rest(s, Len(s))) /\ Len(Rest(s, Len(s))) = Len(s) - Len(s) BY <1>1, FirstRest
<1>4. FirstOf(s, 0) = <<>> BY <1>2, SeqLen
<1>5. Rest(s, Len(s)) = <<>>
  <2>1. Len(s) - Len(s) = 0 BY <1>1
  <2> QED BY <1>3, <2>1, SeqLen
<1>6. FirstOf(s, Len(s)) = s
  <2> DEFINE f == FirstOf(s, Len(s))
  <2>1. IsSeq(f) /\ Len(f) = Len(s) /\ \A i \in 1..Len(s) : f[i] = s[i] BY <1>1, FirstRest
  <2> HIDE DEF f
  <2>2. f = s BY <2>1, SeqEq
  <2> QED BY <2>2 DEF f
<1>7. Rest(s, 0) = s
  <2> DEFINE f == Rest(s, 0)
  <2>1. IsSeq(f) /\ Len(f) = Len(s) - 0 /\ \A i \in 1..(Len(s) - 0) : f[i] = s[0 + i] BY <1>1, FirstRest
  <2> HIDE DEF f
  <2>2. Len(f) = Len(s) /\ \A i \in 1..Len(f) : f[i] = s[i]
    <3>1. Len(s) - 0 = Len(s) /\ \A i \in 1..Len(s) : 0 + i = i BY <1>1
    <3> QED BY <2>1, <3>1
  <2>3. f = s BY <2>1, <2>2, SeqEq
  <2> QED BY <2>3 DEF f
<1> QED BY <1>4, <1>5, <1>6, <1>7

\* A run that does what Picked does ends with the same.
LEMMA PickedIs ==
  ASSUME NEW s, IsSeq(s), NEW P, NEW h, Picks(h, s, P, Len(s))
  PROVE  Picked(s, P) = h[Len(s)]
<1> DEFINE n == Len(s)
<1>1. n \in Nat BY SeqLen
<1>2. PICK g : Picks(g, s, P, n) /\ Picked(s, P) = g[n] BY PickedRun
<1>3. Picks(h, s, P, n) OBVIOUS
<1> HIDE DEF n
<1> DEFINE T == {k \in 0..n : g[k] = h[k]}
<1>4. 0 \in T BY <1>1, <1>2, <1>3 DEF Picks
<1>5. ASSUME NEW k \in 1..n, k - 1 \in T PROVE k \in T
  <2>1. g[k - 1] = h[k - 1] /\ k \in 0..n BY <1>1, <1>5
  <2>2. g[k] = h[k] BY <1>2, <1>3, <2>1 DEF Picks
  <2> QED BY <2>1, <2>2
<1> HIDE DEF T
<1>6. n \in T
  <2>1. \A k \in 0..n : k \in T BY <1>1, <1>4, <1>5, UpTo
  <2> QED BY <1>1, <2>1
<1> QED BY <1>2, <1>6 DEF T, n

\* The elements of the first k at the positions P.
Pick(s, P, k) == Picked(FirstOf(s, k), P)

\* They are collected one by one.
LEMMA PickStep ==
  ASSUME NEW s, IsSeq(s), NEW P
  PROVE  /\ Pick(s, P, 0) = <<>> /\ Pick(s, P, Len(s)) = Picked(s, P)
         /\ \A k \in 1..Len(s) :
              Pick(s, P, k) = IF k \in P THEN Append(Pick(s, P, k - 1), s[k]) ELSE Pick(s, P, k - 1)
<1> DEFINE n == Len(s)
<1>1. n \in Nat BY SeqLen
<1>2. PICK g : Picks(g, s, P, n) /\ Picked(s, P) = g[n] BY PickedRun
<1>3. ASSUME NEW k \in 0..n PROVE Pick(s, P, k) = g[k]
  <2> DEFINE f == FirstOf(s, k)
  <2>1. IsSeq(f) /\ Len(f) = k /\ \A i \in 1..k : f[i] = s[i] BY FirstRest
  <2> HIDE DEF f, n
  <2>2. \A i \in 1..k : i \in 1..n BY <1>1
  <2>3. Picks(g, f, P, k) BY <1>2, <2>1, <2>2 DEF Picks
  <2>4. Picked(f, P) = g[k] BY <2>1, <2>3, PickedIs
  <2> QED BY <2>4 DEF Pick, f
<1> HIDE DEF n
<1>4. 0 \in 0..n /\ n \in 0..n /\ \A k \in 1..n : k \in 0..n /\ k - 1 \in 0..n BY <1>1
<1>5. g[0] = <<>> /\ \A k \in 1..n : g[k] = IF k \in P THEN Append(g[k - 1], s[k]) ELSE g[k - 1]
  BY <1>2 DEF Picks
<1>6. Pick(s, P, 0) = <<>> BY <1>3, <1>4, <1>5
<1>7. Pick(s, P, n) = Picked(s, P) BY <1>2, <1>3, <1>4
<1>8. ASSUME NEW k \in 1..n
      PROVE  Pick(s, P, k) = IF k \in P THEN Append(Pick(s, P, k - 1), s[k]) ELSE Pick(s, P, k - 1)
  <2>1. Pick(s, P, k) = g[k] /\ Pick(s, P, k - 1) = g[k - 1] BY <1>3, <1>4
  <2> QED BY <1>5, <2>1
<1> QED BY <1>6, <1>7, <1>8 DEF n

PicksOne(s, P, k) ==
  Pick(s, P, k) = IF k \in P THEN Append(Pick(s, P, k - 1), s[k]) ELSE Pick(s, P, k - 1)

\* The step of one of them.
LEMMA PickAt ==
  ASSUME NEW s, IsSeq(s), NEW P, NEW k \in 1..Len(s)
  PROVE  PicksOne(s, P, k)
BY PickStep DEF PicksOne

\* What is collected is a sequence.
LEMMA PickSeq ==
  ASSUME NEW s, IsSeq(s), NEW P
  PROVE  /\ \A k \in 0..Len(s) : IsSeq(Pick(s, P, k))
         /\ IsSeq(Picked(s, P))
<1> DEFINE n == Len(s)
           T == {k \in 0..n : IsSeq(Pick(s, P, k))}
<1>1. n \in Nat BY SeqLen
<1>2. 0 \in T
  <2>1. Pick(s, P, 0) = <<>> /\ 0 \in 0..n BY <1>1, PickStep
  <2>2. IsSeq(Pick(s, P, 0)) BY <2>1, NoneSeq
  <2> QED BY <2>1, <2>2
<1>3. ASSUME NEW k \in 1..n, k - 1 \in T PROVE k \in T
  <2>1. Pick(s, P, k) = IF k \in P THEN Append(Pick(s, P, k - 1), s[k]) ELSE Pick(s, P, k - 1)
    BY PickStep
  <2>2. IsSeq(Pick(s, P, k - 1)) BY <1>3
  <2>3. IsSeq(Append(Pick(s, P, k - 1), s[k])) BY <2>2, AppendSeq
  <2>4. k \in 0..n BY <1>1
  <2> QED BY <2>1, <2>2, <2>3, <2>4
<1> HIDE DEF T
<1>4. \A k \in 0..n : k \in T
  <2> HIDE DEF n
  <2> QED BY <1>1, <1>2, <1>3, UpTo
<1>5. \A k \in 0..n : IsSeq(Pick(s, P, k)) BY <1>4 DEF T
<1>6. Picked(s, P) = Pick(s, P, n) /\ n \in 0..n BY <1>1, PickStep
<1> QED BY <1>5, <1>6

\* Only the positions of s count.
LEMMA PickSame ==
  ASSUME NEW s, IsSeq(s), NEW P, NEW Q, \A k \in DOMAIN s : k \in P <=> k \in Q
  PROVE  Picked(s, P) = Picked(s, Q)
<1>1. DOMAIN s = 1..Len(s) BY SeqLen
<1>2. PICK g : Picks(g, s, P, Len(s)) /\ Picked(s, P) = g[Len(s)] BY PickedRun
<1>3. Picks(g, s, Q, Len(s)) BY <1>1, <1>2 DEF Picks
<1> QED BY <1>2, <1>3, PickedIs

\* Of no position there is nothing, also up to k only.
LEMMA PickNone ==
  ASSUME NEW s, IsSeq(s), NEW P, NEW k \in 0..Len(s), \A i \in 1..k : i \notin P
  PROVE  Pick(s, P, k) = <<>>
<1> DEFINE f == FirstOf(s, k)
           g == [i \in 0..k |-> <<>>]
<1>1. IsSeq(f) /\ Len(f) = k /\ k \in Nat
  <2>1. Len(s) \in Nat BY SeqLen
  <2>2. k \in Nat BY <2>1
  <2> QED BY <2>2, FirstRest
<1>2. Picks(g, f, P, k)
  <2>1. g[0] = <<>> BY <1>1
  <2>2. ASSUME NEW i \in 1..k PROVE g[i] = g[i - 1] /\ i \notin P
    <3>1. i \in 0..k /\ i - 1 \in 0..k BY <1>1
    <3> QED BY <3>1
  <2> HIDE DEF g, f
  <2> QED BY <2>1, <2>2 DEF Picks
<1>3. g[k] = <<>> BY <1>1
<1> HIDE DEF f, g
<1>4. Picked(f, P) = g[k] BY <1>1, <1>2, PickedIs
<1> QED BY <1>3, <1>4 DEF Pick, f

\* Of all positions there is everything.
LEMMA PickAll ==
  ASSUME NEW s, IsSeq(s), NEW P, DOMAIN s \subseteq P
  PROVE  Picked(s, P) = s
<1> DEFINE n == Len(s)
           g == [k \in 0..n |-> FirstOf(s, k)]
<1>1. n \in Nat /\ DOMAIN s = 1..n BY SeqLen
<1>2. Picks(g, s, P, n)
  <2>1. g[0] = <<>>
    <3>1. g[0] = FirstOf(s, 0) BY <1>1
    <3> QED BY <3>1, FirstEnds
  <2>2. ASSUME NEW k \in 1..n PROVE k \in P /\ g[k] = Append(g[k - 1], s[k])
    <3>1. k \in 0..n /\ k - 1 \in 0..n /\ k \in P BY <1>1
    <3>2. g[k] = FirstOf(s, k) /\ g[k - 1] = FirstOf(s, k - 1) BY <3>1
    <3> DEFINE a == FirstOf(s, k)
               b == FirstOf(s, k - 1)
               c == Append(b, s[k])
    <3>3. IsSeq(a) /\ Len(a) = k /\ \A i \in 1..k : a[i] = s[i] BY <3>1, FirstRest
    <3>4. IsSeq(b) /\ Len(b) = k - 1 /\ \A i \in 1..(k - 1) : b[i] = s[i] BY <3>1, FirstRest
    <3>5. c = Append(b, s[k]) OBVIOUS
    <3> HIDE DEF a, b, c, g, n
    <3>6. IsSeq(c) /\ Len(c) = Len(b) + 1 /\ (\A i \in DOMAIN b : c[i] = b[i]) /\ c[Len(b) + 1] = s[k]
      BY <3>4, <3>5, AppendSeq
    <3>7. DOMAIN b = 1..(k - 1) /\ k \in Nat /\ k - 1 + 1 = k BY <1>1, <3>4, SeqLen
    <3>8. ASSUME NEW i \in 1..k PROVE a[i] = c[i]
      <4>1. i \in 1..(k - 1) \/ i = k BY <1>1
      <4> QED BY <3>3, <3>4, <3>6, <3>7, <4>1
    <3>9. Len(a) = Len(c) BY <3>3, <3>4, <3>6, <3>7
    <3>10. a = c BY <3>3, <3>6, <3>8, <3>9, SeqEq
    <3> QED BY <3>1, <3>2, <3>10 DEF a, b, c
  <2> HIDE DEF g, n
  <2> QED BY <2>1, <2>2 DEF Picks
<1>3. g[n] = s
  <2>1. n \in 0..n BY <1>1
  <2>2. g[n] = FirstOf(s, n) BY <2>1
  <2> QED BY <2>2, FirstEnds
<1> HIDE DEF g
<1>4. Picked(s, P) = g[n] BY <1>2, PickedIs
<1> QED BY <1>3, <1>4

\* What is left, and one more.
LEMMA RestAppend ==
  ASSUME NEW t, IsSeq(t), NEW n \in 0..Len(t), NEW e, NEW u, u = Append(t, e)
  PROVE  /\ Rest(u, n) = Append(Rest(t, n), e)
         /\ n \in 0..Len(u)
<1> DEFINE m == Len(t)
           r == Rest(t, n)
           a == Append(r, e)
           b == Rest(u, n)
<1>1. m \in Nat /\ n \in Nat /\ n <= m /\ DOMAIN t = 1..m BY SeqLen
<1>2. IsSeq(u) /\ Len(u) = m + 1 /\ (\A i \in 1..m : u[i] = t[i]) /\ u[m + 1] = e
  BY <1>1, AppendSeq
<1>3. n \in 0..Len(u) BY <1>1, <1>2
<1>4. IsSeq(r) /\ Len(r) = m - n /\ \A i \in 1..(m - n) : r[i] = t[n + i] BY FirstRest
<1>5. IsSeq(b) /\ Len(b) = Len(u) - n /\ \A i \in 1..(Len(u) - n) : b[i] = u[n + i]
  BY <1>2, <1>3, FirstRest
<1>6. a = Append(r, e) OBVIOUS
<1> HIDE DEF a, b, r, m
<1>7. DOMAIN r = 1..(m - n) BY <1>4, SeqLen
<1>8. IsSeq(a) /\ Len(a) = Len(r) + 1 BY <1>4, <1>6, AppendSeq
<1>9. (\A i \in DOMAIN r : a[i] = r[i]) /\ a[Len(r) + 1] = e BY <1>4, <1>6, AppendSeq
<1> DEFINE d == m - n
<1>10. d \in Nat /\ Len(r) = d /\ Len(b) = d + 1 /\ Len(a) = d + 1 BY <1>1, <1>2, <1>4, <1>5, <1>8
<1>11. ASSUME NEW i \in 1..(d + 1) PROVE b[i] = a[i]
  <2>1. b[i] = u[n + i]
    <3>1. i \in 1..(Len(u) - n) BY <1>1, <1>2
    <3> QED BY <1>5, <3>1
  <2>2. CASE i = d + 1
    <3>1. n + i = m + 1 BY <1>1, <2>2
    <3> QED BY <1>2, <1>9, <1>10, <2>1, <2>2, <3>1
  <2>3. CASE i # d + 1
    <3>1. i \in 1..d /\ n + i \in 1..m BY <1>1, <1>10, <2>3
    <3> QED BY <1>2, <1>4, <1>7, <1>9, <2>1, <3>1
  <2> QED BY <2>2, <2>3
<1>12. Len(b) = Len(a) BY <1>10
<1>13. \A i \in 1..Len(b) : b[i] = a[i] BY <1>10, <1>11
<1>14. b = a BY <1>5, <1>8, <1>12, <1>13, SeqEq
<1> QED BY <1>3, <1>14 DEF a, b, r

Behind(P, k) == {i \in P : i > k}

\* Each element is one of s, and the ones behind it are those of the positions
\* behind its own.
LEMMA PickSplit ==
  ASSUME NEW s, IsSeq(s), NEW P, P \subseteq Nat, NEW n \in 1..Len(Picked(s, P))
  PROVE  \E K \in P : /\ K \in DOMAIN s /\ Picked(s, P)[n] = s[K]
                      /\ Rest(Picked(s, P), n) = Picked(s, Behind(P, K))
<1> DEFINE N == Len(s)
           Split(k, a, j, K) == /\ K \in P /\ K \in 1..k /\ a[j] = s[K]
                                /\ Rest(a, j) = Pick(s, Behind(P, K), k)
           Splits(k) == LET a == Pick(s, P, k) IN \A j \in 1..Len(a) : \E K : Split(k, a, j, K)
           T == {k \in 0..N : Splits(k)}
<1>1. N \in Nat /\ DOMAIN s = 1..N BY SeqLen
<1>2. 0 \in T
  <2>1. Pick(s, P, 0) = <<>> BY PickStep
  <2>2. Len(Pick(s, P, 0)) = 0 BY <2>1, NoneSeq
  <2>3. \A j \in 1..Len(Pick(s, P, 0)) : FALSE BY <2>2
  <2>4. Splits(0) BY <2>3
  <2> QED BY <1>1, <2>4
<1>3. ASSUME NEW k \in 1..N, k - 1 \in T PROVE k \in T
  <2> DEFINE a == Pick(s, P, k - 1)
             b == Pick(s, P, k)
  <2>1. k \in 0..N /\ k - 1 \in 0..N /\ k \in Nat BY <1>1
  <2>2. IsSeq(a) /\ b = IF k \in P THEN Append(a, s[k]) ELSE a BY <2>1, PickStep, PickSeq
  <2>3. \A j \in 1..Len(a) : \E K : Split(k - 1, a, j, K) BY <1>3
  <2>4. Len(a) \in Nat /\ DOMAIN a = 1..Len(a) BY <2>2, SeqLen
  <2> HIDE DEF Splits, a, b
  <2>5. ASSUME NEW j \in 1..Len(a), NEW K, Split(k - 1, a, j, K) PROVE Split(k, b, j, K)
    <3> DEFINE Q == Behind(P, K)
               x == Pick(s, Q, k - 1)
               y == Pick(s, Q, k)
    <3>1. K \in P /\ K \in 1..k /\ ~ (K >= k) /\ a[j] = s[K] /\ Rest(a, j) = x BY <2>1, <2>5
    <3>2. y = IF k \in Q THEN Append(x, s[k]) ELSE x
      <4>1. PicksOne(s, Q, k)
        <5> HIDE DEF Q
        <5> QED BY PickAt
      <4> QED BY <4>1 DEF PicksOne
    <3>3. k \in Q <=> k \in P BY <2>1, <3>1 DEF Behind
    <3>4. Rest(b, j) = y /\ b[j] = a[j]
      <4> HIDE DEF Q, x, y
      <4>1. CASE k \in P
        <5>1. b = Append(a, s[k]) BY <2>2, <4>1
        <5>2. j \in 0..Len(a) /\ j \in DOMAIN a BY <2>4
        <5>3. Rest(b, j) = Append(Rest(a, j), s[k])
          <6> DEFINE e == s[k]
          <6>1. b = Append(a, e) /\ IsSeq(a) BY <2>2, <5>1
          <6> HIDE DEF e
          <6>2. Rest(b, j) = Append(Rest(a, j), e) BY <5>2, <6>1, RestAppend
          <6> QED BY <6>2 DEF e
        <5>4. b[j] = a[j] BY <2>2, <5>1, <5>2, AppendSeq
        <5> QED BY <3>1, <3>2, <3>3, <4>1, <5>3, <5>4
      <4>2. CASE k \notin P BY <2>2, <3>1, <3>2, <3>3, <4>2
      <4> QED BY <4>1, <4>2
    <3> QED BY <3>1, <3>4
  <2>6. ASSUME k \in P, NEW j, j = Len(a) + 1 PROVE Split(k, b, j, k)
    <3>1. b = Append(a, s[k]) BY <2>2, <2>6
    <3>2. IsSeq(b) /\ Len(b) = j /\ b[j] = s[k] BY <2>2, <2>6, <3>1, AppendSeq
    <3>3. Rest(b, j) = <<>> BY <3>2, FirstEnds
    <3>4. \A i \in 1..k : i \notin Behind(P, k) BY <2>1 DEF Behind
    <3>5. Pick(s, Behind(P, k), k) = <<>> BY <2>1, <3>4, PickNone
    <3>6. k \in 1..k BY <2>1
    <3> QED BY <2>6, <3>2, <3>3, <3>5, <3>6
  <2>7. ASSUME NEW j \in 1..Len(b) PROVE \E K : Split(k, b, j, K)
    <3> HIDE DEF Split
    <3>1. CASE j \in 1..Len(a) BY <2>3, <2>5, <3>1
    <3>2. CASE j \notin 1..Len(a)
      <4>1. k \in P BY <2>2, <3>2
      <4>2. Len(b) = Len(a) + 1 BY <2>2, <4>1, AppendSeq
      <4>3. j = Len(a) + 1 BY <2>4, <3>2, <4>2
      <4> QED BY <2>6, <4>1, <4>3
    <3> QED BY <3>1, <3>2
  <2>8. Splits(k)
    <3> HIDE DEF Split
    <3> QED BY <2>7 DEF Splits, b
  <2> QED BY <2>1, <2>8
<1> HIDE DEF T
<1>4. \A k \in 0..N : k \in T BY <1>1, <1>2, <1>3, UpTo
<1>5. Splits(N) BY <1>1, <1>4 DEF T
<1>6. Pick(s, P, N) = Picked(s, P) BY PickStep
<1> DEFINE t == Picked(s, P)
<1>7. PICK K : Split(N, t, n, K)
  <2> HIDE DEF N, Split
  <2> QED BY <1>5, <1>6
<1>8. Pick(s, Behind(P, K), N) = Picked(s, Behind(P, K)) BY PickStep
<1>9. K \in P /\ K \in 1..N /\ t[n] = s[K] /\ Rest(t, n) = Picked(s, Behind(P, K)) BY <1>7, <1>8
<1> QED BY <1>1, <1>9

-----------------------------------------------------------------------------
\* Sequences one after the other.
LEMMA CatLaws ==
  ASSUME NEW a, IsSeq(a), NEW b, IsSeq(b), NEW c, IsSeq(c), NEW x
  PROVE  /\ a \o <<>> = a /\ <<>> \o a = a
         /\ (a \o b) \o c = a \o (b \o c)
         /\ Append(a \o b, x) = a \o Append(b, x)
         /\ Append(a, x) = a \o <<x>>
<1> DEFINE A == {a[i] : i \in DOMAIN a}
           B == {b[i] : i \in DOMAIN b}
           C == {c[i] : i \in DOMAIN c}
           S == A \cup B \cup C \cup {x}
<1>1. a \in Seq(S) /\ b \in Seq(S) /\ c \in Seq(S) /\ x \in S
  <2>1. a \in Seq(A) /\ b \in Seq(B) /\ c \in Seq(C) BY DEF IsSeq
  <2> HIDE DEF A, B, C
  <2> QED BY <2>1
<1> HIDE DEF S
<1>2. a \o <<>> = a /\ <<>> \o a = a BY <1>1, ConcatEmptySeq
<1>3. (a \o b) \o c = a \o (b \o c) BY <1>1, ConcatAssociative
<1>4. \A s \in Seq(S) : Append(s, x) = s \o <<x>> BY <1>1
<1>5. <<x>> \in Seq(S) /\ a \o b \in Seq(S) BY <1>1
<1>6. (a \o b) \o <<x>> = a \o (b \o <<x>>) BY <1>1, <1>5, ConcatAssociative
<1>7. Append(a \o b, x) = a \o Append(b, x) BY <1>1, <1>4, <1>5, <1>6
<1> QED BY <1>1, <1>2, <1>3, <1>4, <1>7

\* The first k are the first k - 1 and one more.
LEMMA FirstAppend ==
  ASSUME NEW s, IsSeq(s), NEW k \in 1..Len(s)
  PROVE  FirstOf(s, k) = Append(FirstOf(s, k - 1), s[k])
<1> DEFINE n == Len(s)
           a == FirstOf(s, k)
           b == FirstOf(s, k - 1)
           e == s[k]
           c == Append(b, e)
<1>1. n \in Nat /\ k \in 0..n /\ k - 1 \in 0..n /\ k \in Nat BY SeqLen
<1>2. IsSeq(a) /\ Len(a) = k /\ \A i \in 1..k : a[i] = s[i] BY <1>1, FirstRest
<1>3. IsSeq(b) /\ Len(b) = k - 1 /\ \A i \in 1..(k - 1) : b[i] = s[i] BY <1>1, FirstRest
<1>4. c = Append(b, e) /\ e = s[k] OBVIOUS
<1> HIDE DEF a, b, c, n, e
<1>5. IsSeq(c) /\ Len(c) = Len(b) + 1 /\ (\A i \in DOMAIN b : c[i] = b[i]) /\ c[Len(b) + 1] = e
  BY <1>3, <1>4, AppendSeq
<1>6. DOMAIN b = 1..(k - 1) /\ k - 1 + 1 = k BY <1>1, <1>3, SeqLen
<1>7. ASSUME NEW i \in 1..k PROVE a[i] = c[i]
  <2>1. i \in 1..(k - 1) \/ i = k BY <1>1
  <2> QED BY <1>2, <1>3, <1>4, <1>5, <1>6, <2>1
<1>8. Len(a) = Len(c) BY <1>2, <1>3, <1>5, <1>6
<1>9. a = c BY <1>2, <1>5, <1>7, <1>8, SeqEq
<1> QED BY <1>9 DEF a, b, c, e

\* The entries with a UUID, or all.
Has(x, uuid) == uuid \in {NullUuid, x.uuid}
Matches(s, uuid) == Picked(s, OfUuid(s, uuid))

\* One more entry.
LEMMA MatchAppend ==
  ASSUME NEW a, IsSeq(a), NEW x, NEW u, NEW t, t = Append(a, x)
  PROVE  Matches(t, u) = IF Has(x, u) THEN Append(Matches(a, u), x) ELSE Matches(a, u)
<1> DEFINE n == Len(a)
           k == n + 1
           P == OfUuid(t, u)
           f == FirstOf(t, n)
<1>1. n \in Nat /\ DOMAIN a = 1..n BY SeqLen
<1>2. /\ IsSeq(t) /\ Len(t) = k /\ DOMAIN t = 1..k /\ t[k] = x /\ \A i \in 1..n : t[i] = a[i]
  BY <1>1, AppendSeq
<1>3. k \in 1..Len(t) /\ n \in 0..Len(t) /\ k - 1 = n BY <1>1, <1>2
<1>4. f = a
  <2>1. IsSeq(f) /\ Len(f) = n /\ \A i \in 1..n : f[i] = t[i] BY <1>2, <1>3, FirstRest
  <2> HIDE DEF f, n
  <2> QED BY <1>2, <2>1, SeqEq DEF n
<1>5. Picked(f, P) = Matches(a, u)
  <2>1. \A i \in DOMAIN a : i \in P <=> i \in OfUuid(a, u) BY <1>1, <1>2 DEF OfUuid
  <2> HIDE DEF P, f
  <2>2. Picked(a, P) = Picked(a, OfUuid(a, u)) BY <2>1, PickSame
  <2> QED BY <1>4, <2>2 DEF Matches
<1>6. k \in P <=> Has(x, u) BY <1>1, <1>2 DEF OfUuid, Has
<1> HIDE DEF P
<1>7. Pick(t, P, k) = IF k \in P THEN Append(Pick(t, P, k - 1), t[k]) ELSE Pick(t, P, k - 1)
  <2>1. IsSeq(t) /\ k \in 1..Len(t) BY <1>2, <1>3
  <2> HIDE DEF k, n, f
  <2>2. PicksOne(t, P, k) BY <2>1, PickAt
  <2> QED BY <2>2 DEF PicksOne
<1>8. Pick(t, P, k - 1) = Matches(a, u)
  <2>1. Pick(t, P, k - 1) = Pick(t, P, n) BY <1>3
  <2> QED BY <1>5, <2>1 DEF Pick
<1>9. Matches(t, u) = Pick(t, P, k)
  <2>1. IsSeq(t) /\ Len(t) = k BY <1>2
  <2> HIDE DEF k, n, f
  <2>2. Pick(t, P, Len(t)) = Picked(t, P) BY <2>1, PickStep
  <2> QED BY <2>1, <2>2 DEF Matches, P
<1> HIDE DEF k, n, f
<1> QED BY <1>2, <1>6, <1>7, <1>8, <1>9

\* Of none.
LEMMA MatchNone == ASSUME NEW u PROVE Matches(<<>>, u) = <<>>
<1> DEFINE e == <<>>
           P == OfUuid(e, u)
<1>1. IsSeq(e) /\ Len(e) = 0 BY NoneSeq
<1> HIDE DEF e, P
<1>2. Pick(e, P, 0) = <<>> /\ Pick(e, P, Len(e)) = Picked(e, P) BY <1>1, PickStep
<1>3. Picked(e, P) = <<>> BY <1>1, <1>2
<1>4. Matches(e, u) = <<>> BY <1>3 DEF Matches, P
<1> QED BY <1>4 DEF e

\* Of two sequences.
LEMMA MatchCat ==
  ASSUME NEW a, IsSeq(a), NEW b, IsSeq(b), NEW u
  PROVE  Matches(a \o b, u) = Matches(a, u) \o Matches(b, u)
<1> DEFINE n == Len(b)
           Cats(k) == Matches(a \o FirstOf(b, k), u) = Matches(a, u) \o Matches(FirstOf(b, k), u)
           T == {k \in 0..n : Cats(k)}
<1>1. n \in Nat BY SeqLen
<1>2. ASSUME NEW s, IsSeq(s) PROVE IsSeq(Matches(s, u)) BY <1>2, PickSeq DEF Matches
<1>3. 0 \in T
  <2> DEFINE m == Matches(a, u)
  <2>1. IsSeq(m) BY <1>2
  <2>2. FirstOf(b, 0) = <<>> BY FirstEnds
  <2>3. a \o <<>> = a BY CatLaws
  <2>4. Matches(<<>>, u) = <<>> BY MatchNone
  <2> HIDE DEF m
  <2>5. m \o <<>> = m BY <2>1, CatLaws
  <2>6. Cats(0) BY <2>2, <2>3, <2>4, <2>5 DEF m
  <2> HIDE DEF Cats
  <2> QED BY <1>1, <2>6
<1>4. ASSUME NEW k \in 1..n, k - 1 \in T PROVE k \in T
  <2> DEFINE x == FirstOf(b, k - 1)
             e == b[k]
             y == Append(x, e)
             z == a \o x
             m == Matches(a, u)
             o == Matches(x, u)
  <2>1. k \in 0..n /\ k - 1 \in 0..n BY <1>1
  <2>2. IsSeq(x) /\ FirstOf(b, k) = y BY <2>1, FirstRest, FirstAppend
  <2>3. Matches(z, u) = m \o o BY <1>4
  <2>4. z = a \o x /\ y = Append(x, e) /\ m = Matches(a, u) /\ o = Matches(x, u) OBVIOUS
  <2> HIDE DEF x, e, y, z, m, o, Cats
  <2>5. IsSeq(z) BY <2>2, <2>4, CatSeq
  <2>6. IsSeq(m) /\ IsSeq(o) BY <1>2, <2>2, <2>4
  <2>7. Append(z, e) = a \o y
    <3>1. Append(a \o x, e) = a \o Append(x, e) BY <2>2, CatLaws
    <3> QED BY <2>4, <3>1
  <2>8. Append(m \o o, e) = m \o Append(o, e) BY <2>6, CatLaws
  <2>9. Matches(Append(z, e), u) = IF Has(e, u) THEN Append(Matches(z, u), e) ELSE Matches(z, u)
    BY <2>5, MatchAppend
  <2>10. Matches(Append(x, e), u) = IF Has(e, u) THEN Append(Matches(x, u), e) ELSE Matches(x, u)
    BY <2>2, MatchAppend
  <2>11. Matches(a \o y, u) = m \o Matches(y, u)
    <3>1. CASE Has(e, u)
      <4>1. Matches(a \o y, u) = Append(m \o o, e) BY <2>3, <2>7, <2>9, <3>1
      <4>2. Matches(y, u) = Append(o, e) BY <2>4, <2>10, <3>1
      <4> QED BY <2>8, <4>1, <4>2
    <3>2. CASE ~ Has(e, u)
      <4>1. Matches(a \o y, u) = m \o o BY <2>3, <2>7, <2>9, <3>2
      <4>2. Matches(y, u) = o BY <2>4, <2>10, <3>2
      <4> QED BY <4>1, <4>2
    <3> QED BY <3>1, <3>2
  <2>12. Cats(k) BY <2>2, <2>4, <2>11 DEF Cats
  <2> QED BY <2>1, <2>12
<1> HIDE DEF T
<1>5. \A k \in 0..n : k \in T
  <2> HIDE DEF n
  <2> QED BY <1>1, <1>3, <1>4, UpTo
<1>6. Cats(n)
  <2> HIDE DEF Cats
  <2>1. n \in T BY <1>1, <1>5
  <2> QED BY <2>1 DEF T
<1> QED BY <1>6, FirstEnds

\* Those among the elements at some positions.
LEMMA MatchPicked ==
  ASSUME NEW s, IsSeq(s), NEW P, NEW u, NEW Q, Q = P \cap OfUuid(s, u)
  PROVE  Matches(Picked(s, P), u) = Picked(s, Q)
<1> DEFINE n == Len(s)
           T == {k \in 0..n : Matches(Pick(s, P, k), u) = Pick(s, Q, k)}
<1>1. n \in Nat /\ DOMAIN s = 1..n BY SeqLen
<1>2. 0 \in T
  <2>1. Pick(s, P, 0) = <<>> /\ Pick(s, Q, 0) = <<>> BY PickStep
  <2>2. Matches(Pick(s, P, 0), u) = Pick(s, Q, 0) BY <2>1, MatchNone
  <2> QED BY <1>1, <2>2
<1>3. ASSUME NEW k \in 1..n, k - 1 \in T PROVE k \in T
  <2> DEFINE a == Pick(s, P, k - 1)
             b == Pick(s, Q, k - 1)
             e == s[k]
  <2>1. k \in 0..n /\ k - 1 \in 0..n BY <1>1
  <2>2. Matches(a, u) = b BY <1>3
  <2>3. IsSeq(a) BY <2>1, PickSeq
  <2>4. Pick(s, P, k) = IF k \in P THEN Append(a, e) ELSE a BY PickAt DEF PicksOne
  <2>5. Pick(s, Q, k) = IF k \in Q THEN Append(b, e) ELSE b BY PickAt DEF PicksOne
  <2>6. k \in Q <=> k \in P /\ Has(e, u) BY <1>1 DEF OfUuid, Has
  <2> HIDE DEF a, b, e
  <2>7. Matches(Append(a, e), u) = IF Has(e, u) THEN Append(Matches(a, u), e) ELSE Matches(a, u)
    BY <2>3, MatchAppend
  <2>8. Matches(Pick(s, P, k), u) = Pick(s, Q, k)
    <3>1. CASE k \notin P BY <2>2, <2>4, <2>5, <2>6, <3>1
    <3>2. CASE k \in P /\ ~ Has(e, u) BY <2>2, <2>4, <2>5, <2>6, <2>7, <3>2
    <3>3. CASE k \in P /\ Has(e, u) BY <2>2, <2>4, <2>5, <2>6, <2>7, <3>3
    <3> QED BY <3>1, <3>2, <3>3
  <2> QED BY <2>1, <2>8
<1> HIDE DEF T
<1>4. \A k \in 0..n : k \in T
  <2> HIDE DEF n
  <2> QED BY <1>1, <1>2, <1>3, UpTo
<1>5. Matches(Pick(s, P, n), u) = Pick(s, Q, n)
  <2>1. n \in T BY <1>1, <1>4
  <2> QED BY <2>1 DEF T
<1>6. Pick(s, P, n) = Picked(s, P) /\ Pick(s, Q, n) = Picked(s, Q) BY PickStep
<1> QED BY <1>5, <1>6

-----------------------------------------------------------------------------
(***************************************************************************)
(* The database, and the requests that go through it.                      *)
(***************************************************************************)
PrimaryOk(i) ==
  /\ Primaries[i].start \in Nat /\ Primaries[i].end \in Nat
  /\ Primaries[i].start <= Primaries[i].end /\ 1 <= Primaries[i].start /\ Primaries[i].end <= 65535
IncludeOk(i) == Includes[i].handle \in Nat /\ Includes[i].ulen \in {2, 16}
CharOk(i) ==
  Chars[i].handle \in Nat /\ Chars[i].handle # 0 /\ Chars[i].value_handle \in Nat

\* A chain of numbers: what follows the end of one follows all before.
LEMMA Chain ==
  ASSUME NEW s, IsSeq(s), NEW f, NEW g, Ordered(s, f),
         \A i \in DOMAIN s : s[i][f] \in Nat /\ s[i][g] \in Nat,
         \A i \in DOMAIN s : i > 1 => s[i - 1][g] < s[i][f]
  PROVE  \A i, j \in DOMAIN s : i < j => s[i][g] < s[j][f]
<1> SUFFICES ASSUME NEW i \in DOMAIN s, NEW j \in DOMAIN s, i < j PROVE s[i][g] < s[j][f]
  OBVIOUS
<1>1. Len(s) \in Nat /\ DOMAIN s = 1..Len(s) BY SeqLen
<1> DEFINE k == i + 1
<1>2. i \in Nat /\ j \in Nat /\ k \in Nat BY <1>1
<1>3. k \in DOMAIN s /\ k > 1 /\ k - 1 = i /\ (k = j \/ k < j) BY <1>1, <1>2
<1> HIDE DEF k
<1>4. s[i][g] < s[k][f] BY <1>3
<1>5. k < j => s[k][f] < s[j][f] BY <1>3 DEF Ordered
<1>6. s[i][g] \in Nat /\ s[k][f] \in Nat /\ s[j][f] \in Nat BY <1>3
<1> QED BY <1>3, <1>4, <1>5, <1>6

\* The services.
LEMMA PrimaryFacts ==
  /\ IsSeq(Primaries) /\ DOMAIN Primaries \subseteq Nat
  /\ \A i \in DOMAIN Primaries : PrimaryOk(i)
  /\ \A i, j \in DOMAIN Primaries : i < j => Primaries[i].end < Primaries[j].start
<1>1. IsSeq(Primaries)
  <2>1. \E S : Primaries \in Seq(S) BY GattAssumption
  <2> QED BY <2>1, AnySeq
<1>2. DOMAIN Primaries \subseteq Nat
  <2>1. Len(Primaries) \in Nat /\ DOMAIN Primaries = 1..Len(Primaries) BY <1>1, SeqLen
  <2> QED BY <2>1
<1>3. ASSUME NEW i \in DOMAIN Primaries PROVE PrimaryOk(i)
  <2> DEFINE R == [start : Nat, end : Nat, uuid : Uuids(Primaries), ulen : {2, 16}]
             x == Primaries[i]
  <2>1. Primaries \in Seq(R) BY GattAssumption
  <2>2. x \in R
    <3> HIDE DEF R
    <3> QED BY <1>3, <2>1
  <2>3. x.start \in Nat /\ x.end \in Nat BY <2>2
  <2>4. x.start \in 1..x.end /\ x.end <= 65535 BY <1>3, GattAssumption
  <2> HIDE DEF x
  <2>5. x.start <= x.end /\ 1 <= x.start BY <2>3, <2>4
  <2> QED BY <2>3, <2>4, <2>5 DEF PrimaryOk, x
<1>4. \A i, j \in DOMAIN Primaries : i < j => Primaries[i].end < Primaries[j].start
  <2>1. Ordered(Primaries, "start") BY GattAssumption
  <2>2. \A i \in DOMAIN Primaries : i > 1 => Primaries[i - 1].end < Primaries[i].start
    BY GattAssumption
  <2>3. \A i \in DOMAIN Primaries : Primaries[i].start \in Nat /\ Primaries[i].end \in Nat
    BY <1>3 DEF PrimaryOk
  <2> DEFINE s == Primaries
             f == "start"
             g == "end"
  <2>4. IsSeq(s) /\ Ordered(s, f) BY <1>1, <2>1
  <2>5. \A i \in DOMAIN s : s[i][f] \in Nat /\ s[i][g] \in Nat BY <2>3
  <2>6. \A i \in DOMAIN s : i > 1 => s[i - 1][g] < s[i][f] BY <2>2
  <2> HIDE DEF s, f, g
  <2>7. \A i, j \in DOMAIN s : i < j => s[i][g] < s[j][f] BY <2>4, <2>5, <2>6, Chain
  <2> QED BY <2>7 DEF s, f, g
<1> QED BY <1>1, <1>2, <1>3, <1>4

\* The include declarations.
LEMMA IncludeFacts ==
  /\ IsSeq(Includes) /\ DOMAIN Includes \subseteq Nat
  /\ \A i \in DOMAIN Includes : IncludeOk(i)
  /\ \A i, j \in DOMAIN Includes : i < j => Includes[i].handle < Includes[j].handle
<1> DEFINE R == [handle : Nat, start : Nat, end : Nat, uuid : Uuids(Includes), ulen : {2, 16}]
<1>1. Includes \in Seq(R) BY GattAssumption
<1>2. \A x \in R : x.handle \in Nat /\ x.ulen \in {2, 16} OBVIOUS
<1> HIDE DEF R
<1>3. IsSeq(Includes) BY <1>1, AnySeq
<1>4. DOMAIN Includes \subseteq Nat
  <2>1. Len(Includes) \in Nat /\ DOMAIN Includes = 1..Len(Includes) BY <1>3, SeqLen
  <2> QED BY <2>1
<1>5. ASSUME NEW i \in DOMAIN Includes PROVE IncludeOk(i)
  <2>1. Includes[i] \in R BY <1>1
  <2> QED BY <1>2, <2>1 DEF IncludeOk
<1>6. \A i, j \in DOMAIN Includes : i < j => Includes[i].handle < Includes[j].handle
  BY GattAssumption DEF Ordered
<1> QED BY <1>3, <1>4, <1>5, <1>6

\* The characteristics.
LEMMA CharFacts ==
  /\ IsSeq(Chars) /\ DOMAIN Chars \subseteq Nat
  /\ \A i \in DOMAIN Chars : CharOk(i)
  /\ \A i, j \in DOMAIN Chars : i < j => Chars[i].handle + 1 < Chars[j].handle
<1> DEFINE R == [handle : Nat, value_handle : Nat, uuid : Uuids(Chars), ulen : {2, 16}]
<1>1. Chars \in Seq(R) BY GattAssumption
<1>2. \A x \in R : x.handle \in Nat /\ x.value_handle \in Nat OBVIOUS
<1> HIDE DEF R
<1>3. IsSeq(Chars) BY <1>1, AnySeq
<1>4. DOMAIN Chars \subseteq Nat
  <2>1. Len(Chars) \in Nat /\ DOMAIN Chars = 1..Len(Chars) BY <1>3, SeqLen
  <2> QED BY <2>1
<1>5. ASSUME NEW i \in DOMAIN Chars PROVE CharOk(i)
  <2>1. Chars[i] \in R BY <1>1
  <2>2. Chars[i].handle # 0 BY GattAssumption
  <2> QED BY <1>2, <2>1, <2>2 DEF CharOk
<1>6. \A i, j \in DOMAIN Chars : i < j => Chars[i].value_handle < Chars[j].handle
  <2>1. Ordered(Chars, "handle") BY GattAssumption
  <2>2. \A i \in DOMAIN Chars : i > 1 => Chars[i - 1].value_handle < Chars[i].handle
    BY GattAssumption
  <2>3. \A i \in DOMAIN Chars : Chars[i].handle \in Nat /\ Chars[i].value_handle \in Nat
    BY <1>5 DEF CharOk
  <2> DEFINE s == Chars
             f == "handle"
             g == "value_handle"
  <2>4. IsSeq(s) /\ Ordered(s, f) BY <1>3, <2>1
  <2>5. \A i \in DOMAIN s : s[i][f] \in Nat /\ s[i][g] \in Nat BY <2>3
  <2>6. \A i \in DOMAIN s : i > 1 => s[i - 1][g] < s[i][f] BY <2>2
  <2> HIDE DEF s, f, g
  <2>7. \A i, j \in DOMAIN s : i < j => s[i][g] < s[j][f] BY <2>4, <2>5, <2>6, Chain
  <2> QED BY <2>7 DEF s, f, g
<1>7. ASSUME NEW i \in DOMAIN Chars, NEW j \in DOMAIN Chars, i < j
      PROVE  Chars[i].handle + 1 < Chars[j].handle
  <2> DEFINE a == Chars[i].handle
             b == Chars[i].value_handle
             c == Chars[j].handle
  <2>1. a \in Nat /\ b \in Nat /\ c \in Nat BY <1>5 DEF CharOk
  <2>2. b > a BY GattAssumption
  <2>3. b < c BY <1>6, <1>7
  <2> HIDE DEF a, b, c
  <2>4. a + 1 < c BY <2>1, <2>2, <2>3
  <2> QED BY <2>4 DEF a, c
<1> QED BY <1>3, <1>4, <1>5, <1>7

\* The n-th element is one of those at P.
LEMMA PickOne ==
  ASSUME NEW s, IsSeq(s), NEW P, P \subseteq DOMAIN s, NEW n \in 1..Len(Picked(s, P))
  PROVE  \E K \in P : Picked(s, P)[n] = s[K]
<1>1. P \subseteq Nat
  <2>1. Len(s) \in Nat /\ DOMAIN s = 1..Len(s) BY SeqLen
  <2> QED BY <2>1
<1> QED BY <1>1, PickSplit

\* A walk in handle order: the i-th entry of s is at the handles from lo[i] to
\* hi[i], and U are the positions of those that count.
Line(s, lo, hi) ==
  /\ IsSeq(s) /\ lo \in [DOMAIN s -> Nat] /\ hi \in [DOMAIN s -> Nat]
  /\ \A i \in DOMAIN s : lo[i] <= hi[i]
  /\ \A i, j \in DOMAIN s : i < j => hi[i] < lo[j]

FromOn(U, lo, start) == {i \in U : start <= lo[i]}

\* What is left behind an entry is what is asked for from its end on.
LEMMA Walk ==
  ASSUME NEW s, NEW lo, NEW hi, Line(s, lo, hi), NEW U, U \subseteq DOMAIN s, NEW start \in Nat,
         NEW n \in 1..Len(Picked(s, FromOn(U, lo, start)))
  PROVE  \E K \in FromOn(U, lo, start) :
           /\ Picked(s, FromOn(U, lo, start))[n] = s[K]
           /\ Rest(Picked(s, FromOn(U, lo, start)), n) = Picked(s, FromOn(U, lo, hi[K] + 1))
<1> DEFINE P == FromOn(U, lo, start)
<1>1. P \subseteq DOMAIN s BY DEF FromOn
<1>2. IsSeq(s) BY DEF Line
<1>3. P \subseteq Nat /\ DOMAIN s \subseteq Nat
  <2>1. Len(s) \in Nat /\ DOMAIN s = 1..Len(s) BY <1>2, SeqLen
  <2> QED BY <1>1, <2>1
<1>4. PICK K \in P : Picked(s, P)[n] = s[K] /\ Rest(Picked(s, P), n) = Picked(s, Behind(P, K))
  BY <1>2, <1>3, PickSplit
<1> DEFINE Q == FromOn(U, lo, hi[K] + 1)
<1>5. ASSUME NEW i \in DOMAIN s PROVE i \in Behind(P, K) <=> i \in Q
  <2> DEFINE a == lo[i]
             b == hi[i]
             c == lo[K]
             d == hi[K]
  <2>1. K \in DOMAIN s /\ K \in U /\ start <= c BY <1>1, <1>4 DEF FromOn
  <2>2. a \in Nat /\ b \in Nat /\ c \in Nat /\ d \in Nat /\ a <= b /\ c <= d BY <2>1 DEF Line
  <2>3. (i < K => b < c) /\ (K < i => d < a) BY <2>1 DEF Line
  <2>4. i \in P <=> i \in U /\ start <= a BY DEF FromOn
  <2>5. i \in Q <=> i \in U /\ d + 1 <= a BY DEF FromOn
  <2>6. i \in Behind(P, K) <=> i \in P /\ i > K BY DEF Behind
  <2>7. i \in Nat /\ K \in Nat BY <1>3, <2>1
  <2> HIDE DEF a, b, c, d, P, Q
  <2>8. CASE i = K
    <3>1. a = c /\ ~ (d + 1 <= c) BY <2>2, <2>8 DEF a, c
    <3> QED BY <2>5, <2>6, <2>7, <2>8, <3>1
  <2>9. CASE i < K
    <3>1. ~ (d + 1 <= a) /\ ~ (i > K) BY <2>2, <2>3, <2>7, <2>9
    <3> QED BY <2>5, <2>6, <3>1
  <2>10. CASE K < i
    <3>1. d + 1 <= a /\ i > K /\ start <= a BY <2>1, <2>2, <2>3, <2>7, <2>10
    <3> QED BY <2>4, <2>5, <2>6, <3>1
  <2> QED BY <2>7, <2>8, <2>9, <2>10
<1> HIDE DEF P, Q
<1>6. Picked(s, Q) = Picked(s, Behind(P, K)) BY <1>2, <1>5, PickSame
<1> QED BY <1>4, <1>6 DEF P, Q

\* Of no positions there is nothing.
LEMMA PickedNone ==
  ASSUME NEW s, IsSeq(s), NEW P, P \cap DOMAIN s = {}
  PROVE  Picked(s, P) = <<>>
<1>1. Len(s) \in Nat /\ DOMAIN s = 1..Len(s) BY SeqLen
<1>2. \A i \in 1..Len(s) : i \notin P BY <1>1
<1>3. Len(s) \in 0..Len(s) BY <1>1
<1>4. Pick(s, P, Len(s)) = <<>> BY <1>2, <1>3, PickNone
<1> QED BY <1>4, PickStep

-----------------------------------------------------------------------------
\* The handle behind one that is not the last there is.
LEMMA NextHandle ==
  ASSUME NEW h \in Nat
  PROVE  next_handle(h) \in Nat /\ (h < 65535 => next_handle(h) = h + 1)
BY DEF next_handle

\* The entries w that a request leaves to be found: the n-th ends with handle
\* at, and behind it are those of the next request, or none when there is none.
PrimaryNext(w, n, u) ==
  /\ next_handle(w[n].end) \in Nat
  /\ Rest(w, n) = IF w[n].end = 65535 THEN <<>>
                  ELSE Asked(encode_discover_primary(next_handle(w[n].end), u))

\* The services from a handle on, all of them or those with a UUID.
LEMMA ServiceLine ==
  LET lo == [i \in DOMAIN Primaries |-> Primaries[i].start]
      hi == [i \in DOMAIN Primaries |-> Primaries[i].end]
  IN  /\ Line(Primaries, lo, hi) /\ Line(Ranges, lo, hi)
      /\ DOMAIN Ranges = DOMAIN Primaries
      /\ \A i \in DOMAIN Primaries : Ranges[i].end = hi[i] /\ Primaries[i].end = hi[i]
<1> DEFINE lo == [i \in DOMAIN Primaries |-> Primaries[i].start]
           hi == [i \in DOMAIN Primaries |-> Primaries[i].end]
<1>1. DOMAIN Ranges = DOMAIN Primaries /\ \A i \in DOMAIN Primaries : Ranges[i].end = hi[i]
  <2>1. ASSUME NEW i \in DOMAIN Primaries PROVE Ranges[i].end = hi[i]
    <3> DEFINE x == [start |-> Primaries[i].start, end |-> Primaries[i].end, ulen |-> 0]
    <3>1. Ranges[i] = x BY DEF Ranges
    <3> QED BY <3>1
  <2> QED BY <2>1 DEF Ranges
<1>2. IsSeq(Primaries) /\ Len(Primaries) \in Nat /\ DOMAIN Primaries = 1..Len(Primaries)
  BY PrimaryFacts, SeqLen
<1>3. IsSeq(Ranges)
  <2>1. Ranges = [i \in 1..Len(Primaries) |-> Ranges[i]] BY <1>2 DEF Ranges
  <2> QED BY <1>2, <2>1, FcnSeq
<1>4. lo \in [DOMAIN Primaries -> Nat] /\ hi \in [DOMAIN Primaries -> Nat]
  BY PrimaryFacts DEF PrimaryOk
<1>5. \A i \in DOMAIN Primaries : lo[i] <= hi[i] BY PrimaryFacts DEF PrimaryOk
<1>6. \A i, j \in DOMAIN Primaries : i < j => hi[i] < lo[j] BY PrimaryFacts
<1>7. \A i \in DOMAIN Primaries : Primaries[i].end = hi[i] OBVIOUS
<1> HIDE DEF lo, hi
<1>8. Line(Primaries, lo, hi) /\ Line(Ranges, lo, hi) BY <1>1, <1>2, <1>3, <1>4, <1>5, <1>6 DEF Line
<1> QED BY <1>1, <1>7, <1>8 DEF lo, hi

\* The handles at which the services start, and those at which they end.
Starting == [i \in DOMAIN Primaries |-> Primaries[i].start]
Ending == [i \in DOMAIN Primaries |-> Primaries[i].end]

\* The services that a discovery is about, and how the server describes them.
Services(u) == IF u = NullUuid THEN DOMAIN Primaries ELSE OfUuid(Primaries, u)
Described(u) == IF u = NullUuid THEN Primaries ELSE Ranges

\* Facts about them.
LEMMA DescribedFacts ==
  ASSUME NEW u
  PROVE  /\ Line(Described(u), Starting, Ending) /\ DOMAIN Described(u) = DOMAIN Primaries
         /\ Services(u) \subseteq DOMAIN Described(u)
         /\ \A i \in DOMAIN Primaries :
              /\ Described(u)[i].end = Ending[i] /\ Ending[i] \in Nat /\ Starting[i] \in Nat
              /\ 1 <= Starting[i] /\ Starting[i] <= Ending[i] /\ Ending[i] <= 65535
<1>1. /\ Line(Primaries, Starting, Ending) /\ Line(Ranges, Starting, Ending)
      /\ DOMAIN Ranges = DOMAIN Primaries
      /\ \A i \in DOMAIN Primaries : Ranges[i].end = Ending[i] /\ Primaries[i].end = Ending[i]
  BY ServiceLine DEF Starting, Ending
<1>2. \A i \in DOMAIN Primaries :
        /\ Ending[i] \in Nat /\ Starting[i] \in Nat
        /\ 1 <= Starting[i] /\ Starting[i] <= Ending[i] /\ Ending[i] <= 65535
  BY PrimaryFacts DEF PrimaryOk, Starting, Ending
<1>3. Services(u) \subseteq DOMAIN Primaries BY DEF Services, OfUuid
<1> QED BY <1>1, <1>2, <1>3 DEF Described

\* What a request for services asks for.
LEMMA AskedPrimary ==
  ASSUME NEW start \in Nat, NEW u
  PROVE  Asked(encode_discover_primary(start, u)) =
           Picked(Described(u), FromOn(Services(u), Starting, start))
<1> DEFINE req == encode_discover_primary(start, u)
           B == Between(Primaries, "start", req)
           P == FromOn(Services(u), Starting, start)
<1>1. req.start = start /\ req.end = 65535 BY DEF encode_discover_primary
<1>2. \A i \in DOMAIN Primaries : i \in B <=> start <= Starting[i]
  <2>1. \A i \in DOMAIN Primaries : Primaries[i].start = Starting[i] /\ Starting[i] <= 65535
    BY PrimaryFacts DEF Starting, PrimaryOk
  <2> HIDE DEF req
  <2> QED BY <1>1, <2>1 DEF Between
<1>3. B \subseteq DOMAIN Primaries BY DEF Between
<1>4. CASE u = NullUuid
  <2>1. Asked(req) = Picked(Primaries, B) BY <1>4 DEF Asked, encode_discover_primary
  <2>2. B = P
    <3> HIDE DEF B
    <3> QED BY <1>2, <1>3, <1>4 DEF FromOn, Services
  <2> QED BY <1>4, <2>1, <2>2 DEF Described
<1>5. CASE u # NullUuid
  <2>1. Asked(req) = Picked(Ranges, B \cap OfUuid(Primaries, u))
    BY <1>5 DEF Asked, encode_discover_primary
  <2>2. OfUuid(Primaries, u) \subseteq DOMAIN Primaries BY DEF OfUuid
  <2>3. B \cap OfUuid(Primaries, u) = P
    <3> HIDE DEF B
    <3> QED BY <1>2, <1>3, <1>5, <2>2 DEF FromOn, Services
  <2> QED BY <1>5, <2>1, <2>3 DEF Described
<1> QED BY <1>4, <1>5

\* The first request asks for all of them.
LEMMA FirstPrimary ==
  ASSUME NEW c, c.kind = "primary"
  PROVE  Asked(encode_discover_primary(1, c.uuid)) = Found(c)
<1> DEFINE u == c.uuid
           P == FromOn(Services(u), Starting, 1)
<1>1. Asked(encode_discover_primary(1, u)) = Picked(Described(u), P) BY AskedPrimary
<1>2. P = Services(u)
  <2>1. Services(u) \subseteq DOMAIN Primaries /\ \A i \in DOMAIN Primaries : 1 <= Starting[i]
    BY DescribedFacts
  <2> QED BY <2>1 DEF FromOn
<1>3. CASE u = NullUuid
  <2>1. Picked(Primaries, DOMAIN Primaries) = Primaries BY PrimaryFacts, PickAll
  <2>2. Found(c) = Primaries BY <1>3 DEF Found
  <2>3. Described(u) = Primaries /\ Services(u) = DOMAIN Primaries BY <1>3 DEF Described, Services
  <2> HIDE DEF P
  <2> QED BY <1>1, <1>2, <2>1, <2>2, <2>3
<1>4. CASE u # NullUuid
  <2>1. Found(c) = Picked(Ranges, OfUuid(Primaries, u)) BY <1>4 DEF Found
  <2>2. Described(u) = Ranges /\ Services(u) = OfUuid(Primaries, u) BY <1>4 DEF Described, Services
  <2> HIDE DEF P
  <2> QED BY <1>1, <1>2, <2>1, <2>2
<1> QED BY <1>3, <1>4

\* primary_cb goes on from the end of the last service it got.
LEMMA PrimaryWalk ==
  ASSUME NEW start \in Nat, NEW u, NEW w, w = Asked(encode_discover_primary(start, u)),
         NEW n \in 1..Len(w)
  PROVE  IsSeq(w) /\ PrimaryNext(w, n, u)
<1> DEFINE s == Described(u)
           U == Services(u)
           P == FromOn(U, Starting, start)
<1>1. /\ Line(s, Starting, Ending) /\ U \subseteq DOMAIN s /\ IsSeq(s) /\ DOMAIN s = DOMAIN Primaries
      /\ \A i \in DOMAIN s : /\ s[i].end = Ending[i] /\ Ending[i] \in Nat /\ Starting[i] \in Nat
                             /\ Starting[i] <= Ending[i] /\ Ending[i] <= 65535
  BY DescribedFacts DEF Line
<1>2. w = Picked(s, P) BY AskedPrimary
<1> HIDE DEF s, U
<1>3. PICK K \in P : /\ Picked(s, P)[n] = s[K]
                     /\ Rest(Picked(s, P), n) = Picked(s, FromOn(U, Starting, Ending[K] + 1))
  BY <1>1, <1>2, Walk
<1>4. K \in DOMAIN s BY <1>1 DEF FromOn
<1>5. w[n].end = Ending[K] /\ Ending[K] \in Nat /\ Ending[K] <= 65535 BY <1>1, <1>2, <1>3, <1>4
<1> DEFINE e == Ending[K]
           Q == FromOn(U, Starting, e + 1)
<1>6. Rest(w, n) = Picked(s, Q) BY <1>2, <1>3
<1>7. CASE e = 65535
  <2>1. ASSUME NEW i \in Q PROVE FALSE
    <3>1. i \in DOMAIN s /\ e + 1 <= Starting[i] BY <1>1 DEF FromOn
    <3>2. Starting[i] \in Nat /\ Starting[i] <= Ending[i] /\ Ending[i] <= 65535 /\ Ending[i] \in Nat
      BY <1>1, <3>1
    <3> HIDE DEF e
    <3> QED BY <1>7, <3>1, <3>2
  <2>2. Q \cap DOMAIN s = {}
    <3> HIDE DEF Q
    <3> QED BY <2>1
  <2> HIDE DEF Q
  <2>3. Picked(s, Q) = <<>> BY <1>1, <2>2, PickedNone
  <2>4. next_handle(e) \in Nat
    <3>1. e \in Nat BY <1>5
    <3> HIDE DEF e
    <3> QED BY <3>1 DEF next_handle
  <2> QED BY <1>2, <1>1, <1>5, <1>6, <1>7, <2>3, <2>4, PickSeq DEF PrimaryNext
<1>8. CASE e # 65535
  <2>1. e + 1 \in Nat /\ next_handle(e) = e + 1
    <3>1. e \in Nat /\ e < 65535 BY <1>5, <1>8
    <3> HIDE DEF e
    <3> QED BY <3>1, NextHandle
  <2>2. Asked(encode_discover_primary(e + 1, u)) = Picked(s, Q)
    <3> DEFINE f == e + 1
    <3>1. f \in Nat BY <2>1
    <3> HIDE DEF f, e
    <3>2. Asked(encode_discover_primary(f, u)) = Picked(Described(u), FromOn(Services(u), Starting, f))
      BY <3>1, AskedPrimary
    <3> QED BY <3>2 DEF f, s, U
  <2>3. IsSeq(w) BY <1>1, <1>2, PickSeq
  <2> HIDE DEF Q
  <2> QED BY <1>5, <1>6, <1>8, <2>1, <2>2, <2>3 DEF PrimaryNext
<1> QED BY <1>7, <1>8

\* The positions of the handles from start to end.
Within(s, start, end) == {i \in DOMAIN s : start <= s[i].handle /\ s[i].handle <= end}

Handled(s) ==
  /\ IsSeq(s) /\ \A i \in DOMAIN s : s[i].handle \in Nat
  /\ \A i, j \in DOMAIN s : i < j => s[i].handle < s[j].handle

\* A walk through handles.
LEMMA HandleWalk ==
  ASSUME NEW s, Handled(s), NEW start \in Nat, NEW end,
         NEW n \in 1..Len(Picked(s, Within(s, start, end)))
  PROVE  \E K \in DOMAIN s :
           /\ Picked(s, Within(s, start, end))[n] = s[K] /\ s[K].handle <= end
           /\ Rest(Picked(s, Within(s, start, end)), n) = Picked(s, Within(s, s[K].handle + 1, end))
<1> DEFINE lo == [i \in DOMAIN s |-> s[i].handle]
           U == {i \in DOMAIN s : s[i].handle <= end}
<1>1. \A i \in DOMAIN s : lo[i] = s[i].handle /\ lo[i] \in Nat /\ lo[i] <= lo[i] BY DEF Handled
<1>2. lo \in [DOMAIN s -> Nat] BY DEF Handled
<1>3. \A i, j \in DOMAIN s : i < j => lo[i] < lo[j] BY DEF Handled
<1>4. ASSUME NEW a PROVE Within(s, a, end) = FromOn(U, lo, a) BY <1>1 DEF Within, FromOn
<1>5. U \subseteq DOMAIN s /\ \A i \in U : s[i].handle <= end OBVIOUS
<1> HIDE DEF lo, U
<1>6. Line(s, lo, lo) BY <1>1, <1>2, <1>3 DEF Line, Handled
<1> DEFINE P == FromOn(U, lo, start)
<1>7. Within(s, start, end) = P BY <1>4
<1>8. PICK K \in P : Picked(s, P)[n] = s[K] /\ Rest(Picked(s, P), n) = Picked(s, FromOn(U, lo, lo[K] + 1))
  BY <1>5, <1>6, <1>7, Walk
<1>9. K \in DOMAIN s /\ K \in U BY <1>5 DEF FromOn
<1> DEFINE h == s[K].handle + 1
<1>10. lo[K] + 1 = h BY <1>1, <1>9
<1>11. FromOn(U, lo, h) = Within(s, h, end)
  <2> HIDE DEF h
  <2> QED BY <1>4
<1>12. Rest(Picked(s, P), n) = Picked(s, Within(s, h, end)) BY <1>8, <1>10, <1>11
<1> HIDE DEF P, h
<1> QED BY <1>5, <1>7, <1>8, <1>9, <1>12 DEF h

\* The request of an included service discovery, and what it asks for.
FindReq(start, end) ==
  [op |-> "READ_BY_TYPE_REQ", type |-> "INCLUDE", start |-> start, end |-> end]

\* The declarations.
LEMMA AskedIncludes ==
  ASSUME NEW start, NEW end
  PROVE  Asked(FindReq(start, end)) = Picked(Includes, Within(Includes, start, end))
<1> DEFINE req == FindReq(start, end)
<1>1. req.op = "READ_BY_TYPE_REQ" /\ req.type = "INCLUDE" /\ req.start = start /\ req.end = end
  BY DEF FindReq
<1> HIDE DEF req
<1>2. Asked(req) = Picked(Includes, Between(Includes, "handle", req)) BY <1>1 DEF Asked
<1>3. Between(Includes, "handle", req) = Within(Includes, start, end) BY <1>1 DEF Between, Within
<1> QED BY <1>2, <1>3 DEF req

\* The characteristics.
LEMMA AskedChars ==
  ASSUME NEW start, NEW end
  PROVE  Asked(discover_char_req(start, end)) = Picked(Chars, Within(Chars, start, end))
<1> DEFINE req == discover_char_req(start, end)
<1>1. req.op = "READ_BY_TYPE_REQ" /\ req.type = "CHARAC" /\ req.start = start /\ req.end = end
  BY DEF discover_char_req
<1> HIDE DEF req
<1>2. Asked(req) = Picked(Chars, Between(Chars, "handle", req)) BY <1>1 DEF Asked
<1>3. Between(Chars, "handle", req) = Within(Chars, start, end) BY <1>1 DEF Between, Within
<1> QED BY <1>2, <1>3 DEF req

\* find_included_cb goes on behind the last declaration it got, if the range
\* does.
IncludeNext(w, n, end) ==
  /\ \E K \in DOMAIN Includes : w[n] = Includes[K]
  /\ next_handle(w[n].handle) \in Nat
  /\ Rest(w, n) = IF w[n].handle < end THEN Asked(FindReq(next_handle(w[n].handle), end)) ELSE <<>>

\* What is left behind a declaration.
LEMMA IncludeWalk ==
  ASSUME NEW start \in Nat, NEW end \in Handle, NEW w, w = Asked(FindReq(start, end)),
         NEW n \in 1..Len(w)
  PROVE  IncludeNext(w, n, end)
<1> DEFINE s == Includes
           P == Within(s, start, end)
<1>1. w = Picked(s, P) BY AskedIncludes
<1>2. Handled(s) BY IncludeFacts DEF Handled, IncludeOk
<1> HIDE DEF s
<1>3. PICK K \in DOMAIN s : /\ Picked(s, P)[n] = s[K] /\ s[K].handle <= end
                            /\ Rest(Picked(s, P), n) = Picked(s, Within(s, s[K].handle + 1, end))
  BY <1>1, <1>2, HandleWalk
<1> DEFINE h == s[K].handle
           f == h + 1
           Q == Within(s, f, end)
<1>0. end \in Nat /\ end <= 65535 BY DEF Handle
<1>4. h \in Nat /\ h <= end /\ f \in Nat /\ f = h + 1 BY <1>2, <1>3 DEF Handled
<1>9. next_handle(h) \in Nat /\ (h < end => next_handle(h) = f)
  <2> HIDE DEF h, f
  <2>1. next_handle(h) \in Nat BY <1>4, NextHandle
  <2>2. ASSUME h < end PROVE next_handle(h) = f
    <3>1. h < 65535 BY <1>0, <1>4, <2>2
    <3>2. next_handle(h) = h + 1 BY <1>4, <3>1, NextHandle
    <3> QED BY <1>4, <3>2
  <2> QED BY <2>1, <2>2
<1>5. w[n] = s[K] /\ Rest(w, n) = Picked(s, Q) BY <1>1, <1>3
<1> HIDE DEF f
<1>6. Asked(FindReq(f, end)) = Picked(s, Q) BY AskedIncludes DEF s
<1>7. CASE ~ (h < end)
  <2>1. Q \cap DOMAIN s = {}
    <3> SUFFICES ASSUME NEW i \in DOMAIN s, i \in Q PROVE FALSE OBVIOUS
    <3>1. f <= s[i].handle /\ s[i].handle <= end /\ s[i].handle \in Nat BY <1>2 DEF Within, Handled
    <3> HIDE DEF h
    <3> QED BY <1>0, <1>4, <1>7, <3>1
  <2>2. Picked(s, Q) = <<>>
    <3> HIDE DEF Q
    <3> QED BY <1>2, <2>1, PickedNone DEF Handled
  <2> QED BY <1>3, <1>5, <1>7, <1>9, <2>2 DEF IncludeNext, s
<1>8. CASE h < end
  <2> HIDE DEF Q
  <2> QED BY <1>3, <1>5, <1>6, <1>8, <1>9 DEF IncludeNext, s
<1> QED BY <1>7, <1>8

\* char_discovered_cb goes on behind the last characteristic it got, unless
\* what is left of the range has no room for another.
CharNext(w, n, end) ==
  /\ next_handle(w[n].handle) \in Nat
  /\ Rest(w, n) = IF discover_char_more(w[n].handle, end)
                  THEN Asked(discover_char_req(next_handle(w[n].handle), end)) ELSE <<>>

\* What is left behind a characteristic: its value takes one handle.
LEMMA CharWalk ==
  ASSUME NEW start \in Nat, NEW end \in Handle, NEW w, w = Asked(discover_char_req(start, end)),
         NEW n \in 1..Len(w)
  PROVE  CharNext(w, n, end)
<1> DEFINE s == Chars
           P == Within(s, start, end)
<1>1. w = Picked(s, P) BY AskedChars
<1>2. ASSUME NEW i \in DOMAIN s, NEW j \in DOMAIN s, i < j
      PROVE  s[i].handle \in Nat /\ s[j].handle \in Nat /\ s[i].handle + 1 < s[j].handle
    BY <1>2, CharFacts DEF CharOk
<1>3. Handled(s)
  <2>1. IsSeq(s) /\ \A i \in DOMAIN s : s[i].handle \in Nat BY CharFacts DEF CharOk
  <2>2. ASSUME NEW i \in DOMAIN s, NEW j \in DOMAIN s, i < j PROVE s[i].handle < s[j].handle
    <3> DEFINE a == s[i].handle
               b == s[j].handle
    <3>1. a \in Nat /\ b \in Nat /\ a + 1 < b BY <1>2, <2>2
    <3> HIDE DEF a, b
    <3>2. a < b BY <3>1
    <3> QED BY <3>2 DEF a, b
  <2> HIDE DEF s
  <2> QED BY <2>1, <2>2 DEF Handled
<1> HIDE DEF s
<1>4. PICK K \in DOMAIN s : /\ Picked(s, P)[n] = s[K] /\ s[K].handle <= end
                            /\ Rest(Picked(s, P), n) = Picked(s, Within(s, s[K].handle + 1, end))
  BY <1>1, <1>3, HandleWalk
<1> DEFINE h == s[K].handle
           f == h + 1
           Q == Within(s, f, end)
<1>0. end \in Nat /\ end <= 65535 BY DEF Handle
<1>5. h \in Nat /\ h <= end /\ f \in Nat /\ f = h + 1 BY <1>3, <1>4 DEF Handled
<1>10. h # 0 BY <1>4, CharFacts DEF CharOk, s
<1>11. next_handle(h) \in Nat /\ (discover_char_more(h, end) => next_handle(h) = f)
  <2>1. discover_char_more(h, end) => h < 65535
    <3> HIDE DEF h
    <3> QED BY <1>0, <1>5 DEF discover_char_more
  <2> HIDE DEF h, f
  <2> QED BY <1>5, <2>1, NextHandle
<1>6. w[n] = s[K] /\ Rest(w, n) = Picked(s, Q) BY <1>1, <1>4
<1> HIDE DEF f
<1>7. Asked(discover_char_req(f, end)) = Picked(s, Q) BY AskedChars DEF s
<1>8. CASE ~ discover_char_more(h, end)
  <2>1. Q \cap DOMAIN s = {}
    <3> SUFFICES ASSUME NEW i \in DOMAIN s, i \in Q PROVE FALSE OBVIOUS
    <3> DEFINE a == s[i].handle
    <3>1. f <= a /\ a <= end /\ a \in Nat BY <1>3 DEF Within, Handled
    <3>2. (K < i => h + 1 < a) /\ (i < K => a + 1 < h) /\ (i = K => a = h) BY <1>2, <1>4
    <3>3. K \in Nat /\ i \in Nat
      <4>1. DOMAIN s = 1..Len(s) /\ Len(s) \in Nat BY <1>3, SeqLen DEF Handled
      <4> QED BY <1>4, <4>1
    <3> HIDE DEF a, h
    <3>4. CASE K < i BY <1>0, <1>5, <1>8, <1>10, <3>1, <3>2, <3>4 DEF discover_char_more
    <3>5. CASE i < K BY <1>5, <3>1, <3>2, <3>5
    <3>6. CASE i = K BY <1>5, <3>1, <3>2, <3>6
    <3> QED BY <3>3, <3>4, <3>5, <3>6
  <2>2. Picked(s, Q) = <<>>
    <3> HIDE DEF Q
    <3> QED BY <1>3, <2>1, PickedNone DEF Handled
  <2> HIDE DEF Q
  <2> QED BY <1>6, <1>8, <1>11, <2>2 DEF CharNext
<1>9. CASE discover_char_more(h, end)
  <2> HIDE DEF Q
  <2> QED BY <1>6, <1>7, <1>9, <1>11 DEF CharNext
<1> QED BY <1>8, <1>9

\* The first request for characteristics asks for all of them.
LEMMA FirstChars ==
  ASSUME NEW c, c.kind = "chars"
  PROVE  Matches(Asked(discover_char_req(c.start, c.end)), c.uuid) = Found(c)
<1> DEFINE s == Chars
           P == Within(s, c.start, c.end)
           u == c.uuid
           Q == P \cap OfUuid(s, u)
<1>1. Asked(discover_char_req(c.start, c.end)) = Picked(s, P) BY AskedChars
<1>2. Between(Chars, "handle", c) = P BY DEF Between, Within
<1>3. Found(c) = Picked(s, Q) BY <1>2 DEF Found
<1>4. IsSeq(s) BY CharFacts
<1> HIDE DEF s, P, u
<1>5. Matches(Picked(s, P), u) = Picked(s, Q) BY <1>4, MatchPicked
<1> QED BY <1>1, <1>3, <1>5 DEF u

\* The first request for declarations asks for all of them.
LEMMA FirstIncludes ==
  ASSUME NEW c, c.kind = "included"
  PROVE  Asked(FindReq(c.start, c.end)) = Found(c)
<1>1. Between(Includes, "handle", c) = Within(Includes, c.start, c.end) BY DEF Between, Within
<1>2. Found(c) = Picked(Includes, Within(Includes, c.start, c.end)) BY <1>1 DEF Found
<1> QED BY <1>2, AskedIncludes

\* An answer to a discovery from entries s: it has the first of them, one at
\* least and all of one size, or there is none.
PageOf(s, r) ==
  \/ s = <<>> /\ r = Error("NOT_FOUND")
  \/ \E n \in 1..Len(s) :
       /\ r = Page(s[1].ulen, [i \in 1..n |-> s[i]])
       /\ \A i \in 1..n : s[i].ulen = s[1].ulen

\* However many entries the server puts in one.
LEMMA PageOk ==
  ASSUME NEW s, IsSeq(s), NEW header, NEW size, NEW r, r \in Pages(s, header, size)
  PROVE  PageOf(s, r)
<1>1. CASE s = <<>> BY <1>1 DEF Pages, PageOf
<1>2. CASE s # <<>>
  <2>1. PICK n \in 1..Len(s) : /\ r = Page(s[1].ulen, [i \in 1..n |-> s[i]])
                               /\ \A i \in 1..n : s[i].ulen = s[1].ulen
    BY <1>2 DEF Pages
  <2> QED BY <2>1 DEF PageOf
<1> QED BY <1>1, <1>2
-----------------------------------------------------------------------------
(***************************************************************************)
(* What a discovery has come to.                                           *)
(***************************************************************************)

\* Going on from a.
LEMMA FirstCat ==
  ASSUME NEW s, IsSeq(s), NEW a \in 0..Len(s), NEW n \in 0..(Len(s) - a), NEW t, t = Rest(s, a)
  PROVE  /\ a + n \in 0..Len(s) /\ n \in 0..Len(t)
         /\ Rest(t, n) = Rest(s, a + n)
         /\ FirstOf(s, a) \o FirstOf(t, n) = FirstOf(s, a + n)
<1> DEFINE b == a + n
           r == Rest(t, n)
           r2 == Rest(s, b)
           x == FirstOf(s, a)
           y == FirstOf(t, n)
           z == FirstOf(s, b)
           u == x \o y
<1>1. Len(s) \in Nat BY SeqLen
<1>2. a \in Nat /\ n \in Nat /\ b \in 0..Len(s) /\ b = a + n /\ b <= Len(s) BY <1>1
<1>3. IsSeq(t) /\ Len(t) = Len(s) - a /\ \A i \in 1..(Len(s) - a) : t[i] = s[a + i] BY FirstRest
<1>4. n \in 0..Len(t) BY <1>3
<1>5. IsSeq(x) /\ Len(x) = a /\ \A i \in 1..a : x[i] = s[i] BY FirstRest
<1>6. /\ IsSeq(y) /\ Len(y) = n /\ \A i \in 1..n : y[i] = t[i]
      /\ IsSeq(r) /\ Len(r) = Len(t) - n /\ \A i \in 1..(Len(t) - n) : r[i] = t[n + i]
  BY <1>3, <1>4, FirstRest
<1> HIDE DEF b, r, r2, x, y, z
<1>7. /\ IsSeq(z) /\ Len(z) = b /\ \A i \in 1..b : z[i] = s[i]
      /\ IsSeq(r2) /\ Len(r2) = Len(s) - b /\ \A i \in 1..(Len(s) - b) : r2[i] = s[b + i]
  BY <1>2, FirstRest DEF z, r2
<1>8. r = r2
  <2>1. Len(r) = Len(r2) BY <1>1, <1>2, <1>3, <1>6, <1>7
  <2>2. ASSUME NEW i \in 1..Len(r) PROVE r[i] = r2[i]
    <3>1. /\ i \in 1..(Len(t) - n) /\ n + i \in 1..(Len(s) - a) /\ a + (n + i) = b + i
          /\ i \in 1..(Len(s) - b)
      BY <1>1, <1>2, <1>3, <1>6
    <3>2. r[i] = t[n + i] BY <1>6, <3>1
    <3>3. t[n + i] = s[a + (n + i)] BY <1>3, <3>1
    <3>4. r2[i] = s[b + i] BY <1>7, <3>1
    <3> QED BY <3>1, <3>2, <3>3, <3>4
  <2> QED BY <1>6, <1>7, <2>1, <2>2, SeqEq
<1>9. u = z
  <2> HIDE DEF u
  <2>0. u = x \o y BY DEF u
  <2>1. IsSeq(u) /\ Len(u) = b BY <1>2, <1>5, <1>6, <2>0, CatSeq
  <2>2. \A i \in DOMAIN x : u[i] = x[i] BY <1>5, <1>6, <2>0, CatSeq
  <2>3. \A i \in DOMAIN y : u[Len(x) + i] = y[i] BY <1>5, <1>6, <2>0, CatSeq
  <2>4. DOMAIN x = 1..a /\ DOMAIN y = 1..n BY <1>5, <1>6, SeqLen
  <2>5. ASSUME NEW i \in 1..b PROVE u[i] = z[i]
    <3>1. CASE i <= a
      <4>1. i \in 1..a BY <1>2, <3>1
      <4> QED BY <1>5, <1>7, <2>2, <2>4, <4>1
    <3>2. CASE ~ (i <= a)
      <4> DEFINE j == i - a
      <4>1. j \in 1..n /\ a + j = i /\ j \in 1..(Len(s) - a) BY <1>1, <1>2, <3>2
      <4> HIDE DEF j
      <4>2. u[a + j] = y[j] /\ y[j] = t[j] /\ t[j] = s[a + j] BY <1>3, <1>5, <1>6, <2>3, <2>4, <4>1
      <4> QED BY <1>7, <4>1, <4>2
    <3> QED BY <3>1, <3>2
  <2> QED BY <1>7, <2>1, <2>5, SeqEq
<1> QED BY <1>2, <1>4, <1>8, <1>9 DEF b, r, r2, x, y, z

\* The discoveries, and the entries that one goes through: those it looks for,
\* and for characteristics those with another UUID.
Discoveries == {"primary", "included", "chars"}
Base(call) ==
  IF call.kind = "chars" THEN Asked(discover_char_req(call.start, call.end)) ELSE Found(call)
Extent(call) == Len(Base(call))

Chosen(call, s) == IF call.kind = "chars" THEN Matches(s, call.uuid) ELSE s
Collected(call, n) == Chosen(call, FirstOf(Base(call), n))

\* The entries are a sequence, of which it chooses what it ought to find.
LEMMA BaseFacts ==
  ASSUME NEW call, call.kind \in Discoveries
  PROVE  /\ IsSeq(Base(call)) /\ Extent(call) \in Nat /\ IsSeq(Found(call))
         /\ Chosen(call, Base(call)) = Found(call)
<1>1. IsSeq(Base(call)) /\ IsSeq(Found(call)) /\ Chosen(call, Base(call)) = Found(call)
  <2>1. CASE call.kind = "primary"
    <3>1. Found(call) = Picked(Described(call.uuid), FromOn(Services(call.uuid), Starting, 1))
      BY <2>1, FirstPrimary, AskedPrimary
    <3>2. IsSeq(Described(call.uuid)) BY DescribedFacts DEF Line
    <3>3. IsSeq(Found(call)) BY <3>1, <3>2, PickSeq
    <3> QED BY <2>1, <3>3 DEF Base, Chosen
  <2>2. CASE call.kind = "included"
    <3>1. Found(call) = Picked(Includes, Within(Includes, call.start, call.end))
      BY <2>2, FirstIncludes, AskedIncludes
    <3>2. IsSeq(Found(call)) BY <3>1, IncludeFacts, PickSeq
    <3> QED BY <2>2, <3>2 DEF Base, Chosen
  <2>3. CASE call.kind = "chars"
    <3> DEFINE w == Asked(discover_char_req(call.start, call.end))
    <3>1. IsSeq(w) BY AskedChars, CharFacts, PickSeq
    <3>2. Matches(w, call.uuid) = Found(call) BY <2>3, FirstChars
    <3> HIDE DEF w
    <3>3. IsSeq(Matches(w, call.uuid)) BY <3>1, PickSeq DEF Matches
    <3>4. Base(call) = w BY <2>3 DEF Base, w
    <3> QED BY <2>3, <3>1, <3>2, <3>3, <3>4 DEF Chosen
  <2> QED BY <2>1, <2>2, <2>3 DEF Discoveries
<1> QED BY <1>1, SeqLen DEF Extent

\* What is chosen of two sequences.
LEMMA ChosenCat ==
  ASSUME NEW call, NEW a, IsSeq(a), NEW b, IsSeq(b)
  PROVE  /\ IsSeq(Chosen(call, a))
         /\ Chosen(call, a \o b) = Chosen(call, a) \o Chosen(call, b)
<1>1. CASE call.kind = "chars"
  <2>1. IsSeq(Matches(a, call.uuid)) BY PickSeq DEF Matches
  <2>2. Matches(a \o b, call.uuid) = Matches(a, call.uuid) \o Matches(b, call.uuid) BY MatchCat
  <2> QED BY <1>1, <2>1, <2>2 DEF Chosen
<1>2. CASE call.kind # "chars" BY <1>2 DEF Chosen
<1> QED BY <1>1, <1>2

\* A sequence begins with any that it continues.
LEMMA CatPrefix ==
  ASSUME NEW a, IsSeq(a), NEW b, IsSeq(b), NEW u, u = a \o b
  PROVE  IsPrefix(a, u)
<1>1. IsSeq(u) /\ Len(u) = Len(a) + Len(b) /\ \A i \in DOMAIN a : u[i] = a[i]
  <2>1. IsSeq(u) BY CatSeq
  <2>2. Len(u) = Len(a) + Len(b) BY CatSeq
  <2>3. \A i \in DOMAIN a : u[i] = a[i] BY CatSeq
  <2> QED BY <2>1, <2>2, <2>3
<1>2. Len(a) \in Nat /\ Len(b) \in Nat /\ DOMAIN a = 1..Len(a) BY SeqLen
<1> DEFINE n == Len(a)
           S == {u[i] : i \in DOMAIN u}
           T == {a[i] : i \in DOMAIN a}
           x == SubSeq(u, 1, n)
           y == SubSeq(a, 1, n)
<1>3. u \in Seq(S) /\ a \in Seq(T) BY <1>1 DEF IsSeq
<1>4. n \in Nat /\ n <= Len(u) /\ Len(u) \in Nat /\ DOMAIN u = 1..Len(u) BY <1>1, <1>2, SeqLen
<1> HIDE DEF n, S, T
<1>5. x = [i \in 1..n |-> u[i]] /\ y = [i \in 1..n |-> a[i]]
  <2>1. \A i \in 1..n : i \in 1..Len(u) /\ 1 + i - 1 = i BY <1>4
  <2>2. \A i \in 1..n : i \in 1..Len(a) BY <1>4 DEF n
  <2>3. n - 1 + 1 = n BY <1>4
  <2> QED BY <1>3, <1>4, <2>1, <2>2, <2>3
<1>6. x = y
  <2>1. \A i \in 1..n : u[i] = a[i] BY <1>1, <1>2 DEF n
  <2> HIDE DEF x, y
  <2> QED BY <1>5, <2>1
<1> QED BY <1>4, <1>6 DEF IsPrefix, n

\* What a discovery has collected.
LEMMA CollectedFacts ==
  ASSUME NEW call, call.kind \in Discoveries, NEW a \in 0..Extent(call)
  PROVE  /\ IsSeq(Collected(call, a)) /\ IsPrefix(Collected(call, a), Found(call))
         /\ a = Extent(call) => Collected(call, a) = Found(call)
<1> DEFINE s == Base(call)
           f == FirstOf(s, a)
           r == Rest(s, a)
<1>1. IsSeq(s) /\ Extent(call) \in Nat /\ IsSeq(Found(call)) /\ Chosen(call, s) = Found(call)
  BY BaseFacts
<1>2. a \in 0..Len(s) BY DEF Extent
<1> HIDE DEF s
<1>3. IsSeq(f) /\ IsSeq(r) /\ f \o r = s BY <1>1, <1>2, FirstRest
<1>4. Collected(call, a) = Chosen(call, f) BY DEF Collected, s
<1> HIDE DEF f, r
<1>5. /\ IsSeq(Chosen(call, f)) /\ IsSeq(Chosen(call, r))
      /\ Chosen(call, f \o r) = Chosen(call, f) \o Chosen(call, r)
  BY <1>3, ChosenCat
<1>6. IsPrefix(Chosen(call, f), Found(call)) BY <1>1, <1>3, <1>5, CatPrefix
<1>7. a = Extent(call) => f = s BY <1>1, FirstEnds DEF f, Extent, s
<1> QED BY <1>1, <1>4, <1>5, <1>6, <1>7

\* With n more of the entries w behind the a-th.
Further(call, a, w, n) ==
  /\ a + n \in 0..Extent(call) /\ IsSeq(w) /\ Len(w) = Extent(call) - a
  /\ Rest(w, n) = Rest(Base(call), a + n)
  /\ Collected(call, a) \o Chosen(call, FirstOf(w, n)) = Collected(call, a + n)

\* The entries that are left lead on.
LEMMA CollectedMore ==
  ASSUME NEW call, call.kind \in Discoveries, NEW a \in 0..Extent(call), NEW w, w = Rest(Base(call), a),
         NEW n \in 0..Len(w)
  PROVE  Further(call, a, w, n)
<1> DEFINE s == Base(call)
           f == FirstOf(s, a)
           g == FirstOf(w, n)
<1>1. IsSeq(s) /\ Len(s) \in Nat BY BaseFacts, SeqLen
<1>2. a \in 0..Len(s) /\ w = Rest(s, a) BY DEF Extent
<1>0. Extent(call) = Len(s) BY DEF Extent
<1> HIDE DEF s
<1>3. IsSeq(w) /\ Len(w) = Len(s) - a /\ IsSeq(f) BY <1>1, <1>2, FirstRest
<1>4. n \in 0..(Len(s) - a) BY <1>3
<1>5. IsSeq(g) BY <1>3, FirstRest
<1>6. a + n \in 0..Len(s) /\ Rest(w, n) = Rest(s, a + n) /\ f \o g = FirstOf(s, a + n)
  BY <1>1, <1>2, <1>4, FirstCat
<1> HIDE DEF f, g
<1>7. Chosen(call, f \o g) = Chosen(call, f) \o Chosen(call, g) BY <1>3, <1>5, ChosenCat
<1>8. Collected(call, a) = Chosen(call, f) /\ Collected(call, a + n) = Chosen(call, FirstOf(s, a + n))
  BY DEF Collected, s, f
<1>9. Collected(call, a) \o Chosen(call, g) = Collected(call, a + n) BY <1>6, <1>7, <1>8
<1> QED BY <1>0, <1>3, <1>6, <1>9 DEF Further, s, g
-----------------------------------------------------------------------------
(***************************************************************************)
(* The commands of a discovery, and the way that they lead through its     *)
(* entries.                                                                *)
(***************************************************************************)
WalkReq(call, start) ==
  CASE call.kind = "primary" -> encode_discover_primary(start, call.uuid)
    [] call.kind = "included" -> FindReq(start, call.end)
    [] call.kind = "chars" -> discover_char_req(start, call.end)

WalkCb(call) ==
  CASE call.kind = "primary" -> discover_primary_cb(call.uuid)
    [] call.kind = "included" -> "find_included_cb"
    [] call.kind = "chars" -> "char_discovered_cb"

\* A command that asks for all entries behind the x-th.
Walks(c, call, x) ==
  /\ x \in 0..Extent(call) /\ c.cb = WalkCb(call)
  /\ \E start \in Nat : c.req = WalkReq(call, start)
  /\ Asked(c.req) = Rest(Base(call), x)

\* One that reads the UUID of the y-th.
Resolves(c, call, y) ==
  /\ call.kind = "included" /\ c.cb = "resolve_included_uuid_cb"
  /\ y \in 1..Extent(call) /\ Base(call)[y].ulen = 16
  /\ c.req.op = "READ_REQ" /\ c.req.handle = Base(call)[y].start
  /\ c.req.included = Hidden(Base(call)[y])

\* From the x-th entry on, a command of procedure i leads to the y-th, or
\* behind the end; the commands of others lead nowhere.
Leads(c, call, x, y) ==
  \/ Walks(c, call, x) /\ y = Extent(call) + 1
  \/ Resolves(c, call, y) /\ y = x + 1

Leg(c, i, call, x, y) == IF c.proc = i THEN Leads(c, call, x, y) ELSE y = x

IsPath(b, q, i, call) ==
  /\ b \in [0..Len(q) -> Nat]
  /\ \A k \in 1..Len(q) : Leg(q[k], i, call, b[k - 1], b[k])

\* The commands of i in q lead from the a-th entry to the z-th.
Path(q, i, call, a, z) == \E b : IsPath(b, q, i, call) /\ b[0] = a /\ b[Len(q)] = z

\* q has no command of procedure i.
NoneOf(q, i) == \A k \in 1..Len(q) : q[k].proc # i

\* Where there is no command, the way is none.
LEMMA PathNone ==
  ASSUME NEW q, IsSeq(q), NEW i, NEW call, NoneOf(q, i)
  PROVE  /\ \A a \in Nat : Path(q, i, call, a, a)
         /\ \A a, z : Path(q, i, call, a, z) => a \in Nat /\ z = a
<1>1. Len(q) \in Nat BY SeqLen
<1>2. ASSUME NEW a \in Nat PROVE Path(q, i, call, a, a)
  <2> DEFINE b == [k \in 0..Len(q) |-> a]
  <2>1. b \in [0..Len(q) -> Nat] OBVIOUS
  <2>2. \A k \in 0..Len(q) : b[k] = a OBVIOUS
  <2> HIDE DEF b
  <2>3. ASSUME NEW k \in 1..Len(q) PROVE Leg(q[k], i, call, b[k - 1], b[k])
    <3>1. k \in 0..Len(q) /\ k - 1 \in 0..Len(q) BY <1>1
    <3> QED BY <2>2, <3>1 DEF Leg, NoneOf
  <2>4. b[0] = a /\ b[Len(q)] = a BY <1>1, <2>2
  <2>5. IsPath(b, q, i, call) BY <2>1, <2>3 DEF IsPath
  <2> QED BY <2>4, <2>5 DEF Path
<1>3. ASSUME NEW a, NEW z, Path(q, i, call, a, z) PROVE a \in Nat /\ z = a
  <2>1. PICK b : IsPath(b, q, i, call) /\ b[0] = a /\ b[Len(q)] = z BY <1>3 DEF Path
  <2> DEFINE n == Len(q)
             T == {k \in 0..n : b[k] = a}
  <2>2. 0 \in T BY <1>1, <2>1
  <2>3. ASSUME NEW k \in 1..n, k - 1 \in T PROVE k \in T
    <3>1. Leg(q[k], i, call, b[k - 1], b[k]) /\ q[k].proc # i BY <2>1 DEF IsPath, NoneOf
    <3>2. k \in 0..n BY <1>1
    <3> QED BY <2>3, <3>1, <3>2 DEF Leg
  <2> HIDE DEF T
  <2>4. \A k \in 0..n : k \in T
    <3>1. n \in Nat BY <1>1
    <3> HIDE DEF n
    <3> QED BY <2>2, <2>3, <3>1, UpTo
  <2>5. n \in 0..n /\ 0 \in 0..n BY <1>1
  <2>6. b[n] = a BY <2>4, <2>5 DEF T
  <2> QED BY <1>1, <2>1, <2>6 DEF IsPath
<1> QED BY <1>2, <1>3

\* Behind the end there is nothing more to ask for.
LEMMA PathEnd ==
  ASSUME NEW q, IsSeq(q), NEW i, NEW call, call.kind \in Discoveries, NEW a, a = Extent(call) + 1,
         NEW z, Path(q, i, call, a, z)
  PROVE  NoneOf(q, i)
<1>1. Len(q) \in Nat /\ Extent(call) \in Nat BY SeqLen, BaseFacts
<1>2. PICK b : IsPath(b, q, i, call) /\ b[0] = a BY DEF Path
<1> DEFINE n == Len(q)
           T == {k \in 0..n : b[k] = a}
<1>3. 0 \in T BY <1>1, <1>2
<1>4. ASSUME NEW x, NEW y, NEW c PROVE ~ Leads(c, call, a, y)
  <2>1. ~ Walks(c, call, a) BY <1>1 DEF Walks
  <2>2. ~ (Resolves(c, call, y) /\ y = a + 1) BY <1>1 DEF Resolves
  <2> QED BY <2>1, <2>2 DEF Leads
<1>5. ASSUME NEW k \in 1..n, k - 1 \in T PROVE k \in T /\ q[k].proc # i
  <2>1. Leg(q[k], i, call, b[k - 1], b[k]) /\ b[k - 1] = a BY <1>2, <1>5 DEF IsPath
  <2>2. q[k].proc # i BY <1>4, <2>1 DEF Leg
  <2>3. k \in 0..n BY <1>1
  <2> QED BY <2>1, <2>2, <2>3 DEF Leg
<1> HIDE DEF T
<1>6. \A k \in 0..n : k \in T
  <2>1. n \in Nat BY <1>1
  <2> HIDE DEF n
  <2> QED BY <1>3, <1>5, <2>1, UpTo
<1>7. ASSUME NEW k \in 1..n PROVE q[k].proc # i
  <2>1. k - 1 \in 0..n BY <1>1
  <2> QED BY <1>5, <1>6, <2>1
<1> QED BY <1>7 DEF NoneOf

\* The first command, and the others.
LEMMA PathTail ==
  ASSUME NEW q, IsSeq(q), q # <<>>, NEW i, NEW call, NEW a, NEW z, Path(q, i, call, a, z)
  PROVE  \E y \in Nat : a \in Nat /\ Leg(q[1], i, call, a, y) /\ Path(Tail(q), i, call, y, z)
<1> DEFINE n == Len(q)
           t == Tail(q)
           m == n - 1
<1>1. /\ IsSeq(t) /\ n \in Nat /\ n >= 1 /\ Len(t) = m
      /\ \A k \in 1..m : t[k] = q[k + 1]
  BY TailSeq
<1>2. PICK b : IsPath(b, q, i, call) /\ b[0] = a /\ b[n] = z BY DEF Path
<1> DEFINE g == [k \in 0..m |-> b[k + 1]]
<1>3. m \in Nat /\ m + 1 = n /\ 1 \in 1..n /\ 1 \in 0..n /\ 0 \in 0..n /\ 1 - 1 = 0 BY <1>1
<1> HIDE DEF t, m, n
<1>4. b \in [0..n -> Nat] /\ \A k \in 1..n : Leg(q[k], i, call, b[k - 1], b[k])
  BY <1>2 DEF IsPath, n
<1>5. a \in Nat /\ b[1] \in Nat /\ Leg(q[1], i, call, a, b[1])
  <2>1. Leg(q[1], i, call, b[1 - 1], b[1]) BY <1>3, <1>4
  <2>2. b[1 - 1] = b[0] BY <1>3
  <2> QED BY <1>2, <1>3, <1>4, <2>1, <2>2
<1>6. \A k \in 0..m : k + 1 \in 0..n BY <1>3
<1>7. g \in [0..m -> Nat] BY <1>4, <1>6
<1>8. \A k \in 0..m : g[k] = b[k + 1] OBVIOUS
<1> HIDE DEF g
<1>9. ASSUME NEW k \in 1..m PROVE Leg(t[k], i, call, g[k - 1], g[k])
  <2>1. k \in 0..m /\ k - 1 \in 0..m /\ (k - 1) + 1 = k /\ (k + 1) - 1 = k /\ k + 1 \in 1..n BY <1>3
  <2>2. g[k - 1] = b[(k - 1) + 1] /\ g[k] = b[k + 1] BY <1>8, <2>1
  <2>3. Leg(q[k + 1], i, call, b[(k + 1) - 1], b[k + 1]) BY <1>4, <2>1
  <2>4. b[(k + 1) - 1] = g[k - 1] BY <2>1, <2>2
  <2> QED BY <1>1, <2>2, <2>3, <2>4
<1>10. IsPath(g, t, i, call) BY <1>1, <1>7, <1>9 DEF IsPath
<1>11. g[0] = b[1] /\ g[m] = z
  <2>1. 0 \in 0..m /\ m \in 0..m /\ 0 + 1 = 1 BY <1>3
  <2>2. g[0] = b[0 + 1] /\ g[m] = b[m + 1] BY <1>8, <2>1
  <2> QED BY <1>2, <1>3, <2>1, <2>2
<1>12. Path(t, i, call, b[1], z) BY <1>1, <1>10, <1>11 DEF Path
<1> QED BY <1>5, <1>12 DEF t

\* One way behind the other.
LEMMA PathCat ==
  ASSUME NEW s, IsSeq(s), NEW t, IsSeq(t), NEW u, u = s \o t, NEW i, NEW call, NEW a, NEW m, NEW z,
         Path(s, i, call, a, m), Path(t, i, call, m, z)
  PROVE  Path(u, i, call, a, z)
<1> DEFINE n == Len(s)
           d == Len(t)
<1>1. n \in Nat /\ d \in Nat BY SeqLen
<1>2. Len(u) = n + d BY CatSeq
<1>3. \A k \in 1..n : u[k] = s[k]
  <2>1. \A k \in DOMAIN s : u[k] = s[k] BY CatSeq
  <2>2. DOMAIN s = 1..n BY SeqLen
  <2> QED BY <2>1, <2>2
<1>4. \A k \in 1..d : u[n + k] = t[k]
  <2>1. \A k \in DOMAIN t : u[n + k] = t[k] BY CatSeq
  <2>2. DOMAIN t = 1..d BY SeqLen
  <2> QED BY <2>1, <2>2
<1>5. PICK b : IsPath(b, s, i, call) /\ b[0] = a /\ b[n] = m BY DEF Path
<1>6. PICK h : IsPath(h, t, i, call) /\ h[0] = m /\ h[d] = z BY DEF Path
<1> HIDE DEF n, d
<1>7. b \in [0..n -> Nat] /\ \A k \in 1..n : Leg(s[k], i, call, b[k - 1], b[k])
  BY <1>5 DEF IsPath, n
<1>8. h \in [0..d -> Nat] /\ \A k \in 1..d : Leg(t[k], i, call, h[k - 1], h[k])
  BY <1>6 DEF IsPath, d
<1> DEFINE g == [k \in 0..(n + d) |-> IF k <= n THEN b[k] ELSE h[k - n]]
<1>9. ASSUME NEW k \in 0..(n + d)
      PROVE  /\ g[k] \in Nat /\ (k <= n => k \in 0..n /\ g[k] = b[k])
             /\ (k >= n => k - n \in 0..d /\ g[k] = h[k - n])
  <2>1. CASE k < n BY <1>1, <1>7, <2>1
  <2>2. CASE k > n BY <1>1, <1>8, <2>2
  <2>3. CASE k = n
    <3>1. k - n = 0 /\ 0 \in 0..d /\ k \in 0..n BY <1>1, <2>3
    <3>2. g[k] = b[n] BY <1>1, <2>3
    <3> QED BY <1>5, <1>6, <1>7, <2>3, <3>1, <3>2
  <2> QED BY <1>1, <2>1, <2>2, <2>3
<1>10. g \in [0..(n + d) -> Nat]
  <2>1. g = [k \in 0..(n + d) |-> g[k]] OBVIOUS
  <2> HIDE DEF g
  <2> QED BY <1>9, <2>1
<1> HIDE DEF g
<1>11. ASSUME NEW k \in 1..(n + d) PROVE Leg(u[k], i, call, g[k - 1], g[k])
  <2>1. k \in 0..(n + d) /\ k - 1 \in 0..(n + d) /\ k \in Nat BY <1>1
  <2>2. CASE k <= n
    <3>1. k \in 1..n /\ k - 1 <= n BY <1>1, <2>2
    <3>2. g[k] = b[k] /\ g[k - 1] = b[k - 1] BY <1>9, <2>1, <2>2, <3>1
    <3>3. Leg(s[k], i, call, b[k - 1], b[k]) BY <1>7, <3>1
    <3> QED BY <1>3, <3>1, <3>2, <3>3
  <2>3. CASE ~ (k <= n)
    <3> DEFINE j == k - n
    <3>1. j \in 1..d /\ n + j = k /\ (k - 1) - n = j - 1 /\ k >= n /\ k - 1 >= n BY <1>1, <2>3
    <3>2. g[k] = h[j] /\ g[k - 1] = h[(k - 1) - n] BY <1>9, <2>1, <3>1
    <3>3. g[k - 1] = h[j - 1] BY <3>1, <3>2
    <3>4. Leg(t[j], i, call, h[j - 1], h[j]) BY <1>8, <3>1
    <3>5. u[k] = t[j] BY <1>4, <3>1
    <3> QED BY <3>2, <3>3, <3>4, <3>5
  <2> QED BY <2>2, <2>3
<1>12. IsPath(g, u, i, call) BY <1>2, <1>10, <1>11 DEF IsPath
<1>13. g[0] = a /\ g[n + d] = z
  <2>1. 0 \in 0..(n + d) /\ 0 <= n /\ n + d \in 0..(n + d) /\ n + d >= n /\ (n + d) - n = d BY <1>1
  <2>2. g[0] = b[0] /\ g[n + d] = h[(n + d) - n] BY <1>9, <2>1
  <2> QED BY <1>5, <1>6, <2>1, <2>2
<1> QED BY <1>2, <1>12, <1>13 DEF Path

\* The way of one command.
LEMMA PathOne ==
  ASSUME NEW c, NEW i, c.proc = i, NEW call, NEW a \in Nat, NEW z \in Nat, Leads(c, call, a, z),
         NEW q, IsSeq(q), Len(q) = 1, q[1] = c
  PROVE  Path(q, i, call, a, z)
<1> DEFINE b == [k \in 0..1 |-> IF k = 0 THEN a ELSE z]
<1>1. b \in [0..1 -> Nat] /\ b[0] = a /\ b[1] = z OBVIOUS
<1> HIDE DEF b
<1>2. ASSUME NEW k \in 1..1 PROVE Leg(q[k], i, call, b[k - 1], b[k])
  <2>1. k = 1 /\ k - 1 = 0 OBVIOUS
  <2>2. b[k - 1] = a /\ b[k] = z BY <1>1, <2>1
  <2> QED BY <2>1, <2>2 DEF Leg
<1>3. IsPath(b, q, i, call) BY <1>1, <1>2 DEF IsPath
<1> QED BY <1>1, <1>3 DEF Path

\* The way through entries one by one.
LEMMA PathEach ==
  ASSUME NEW q, IsSeq(q), NEW i, NEW call, NEW a \in Nat,
         \A k \in 1..Len(q) : q[k].proc = i /\ Resolves(q[k], call, a + k)
  PROVE  Path(q, i, call, a, a + Len(q))
<1> DEFINE n == Len(q)
           b == [k \in 0..n |-> a + k]
<1>1. n \in Nat BY SeqLen
<1>2. b \in [0..n -> Nat] BY <1>1
<1>3. \A k \in 0..n : b[k] = a + k OBVIOUS
<1> HIDE DEF b
<1>4. ASSUME NEW k \in 1..n PROVE Leg(q[k], i, call, b[k - 1], b[k])
  <2>1. k \in 0..n /\ k - 1 \in 0..n /\ a + k = (a + (k - 1)) + 1 BY <1>1
  <2>2. b[k - 1] = a + (k - 1) /\ b[k] = a + k BY <1>3, <2>1
  <2>3. Leads(q[k], call, b[k - 1], b[k]) BY <2>1, <2>2 DEF Leads
  <2> QED BY <2>3 DEF Leg
<1>5. IsPath(b, q, i, call) BY <1>2, <1>4 DEF IsPath
<1>6. b[0] = a /\ b[n] = a + n
  <2>1. 0 \in 0..n /\ n \in 0..n /\ a + 0 = a BY <1>1
  <2> QED BY <1>3, <2>1
<1> QED BY <1>5, <1>6 DEF Path

-----------------------------------------------------------------------------
(***************************************************************************)
(* The invariant of a discovery, which is procedure i: with no error it    *)
(* has collected what it found up to some entry, and its commands in the   *)
(* queue lead from there to the end.                                       *)
(***************************************************************************)
EndSo(p) ==
  /\ \E n \in 0..Extent(p.call) : p.ends[1].list = Collected(p.call, n)
  /\ p.fault # TRUE \/ (p.call.kind # "chars" /\ p.ends[1].status = "OK")
       => p.ends[1].list = Found(p.call)

ListSo(i, p, q) ==
  \E a \in 0..Extent(p.call) :
    /\ p.list = Collected(p.call, a)
    /\ p.ends = <<>> => \E z \in Nat : z >= Extent(p.call) /\ Path(q, i, p.call, a, z)

DiscSo(i, p, q) ==
  p.call.kind \in Discoveries =>
    /\ p.err # "OK" => p.fault = TRUE /\ p.call.kind = "included"
    /\ p.err = "OK" => ListSo(i, p, q)
    /\ p.ends # <<>> => EndSo(p)

\* A discovery that has failed.
Broken(p) ==
  /\ p.fault = TRUE
  /\ p.call.kind = "included" =>
       p.err # "OK" /\ (p.ends # <<>> => p.ends[1].status # "OK" /\ p.ends[1].list = <<>>)
  /\ p.call.kind # "included" =>
       /\ p.err = "OK" /\ p.ends # <<>> /\ p.ends[1].list = p.list
       /\ \E n \in 0..Extent(p.call) : p.list = Collected(p.call, n)
       /\ p.call.kind = "primary" => p.ends[1].status # "OK"

\* The callback of its first command, which led to the y-th entry, has
\* collected what comes up to there, or asks for the rest.
Moves(p, i, o, y) ==
  /\ o.p.err = "OK" /\ o.p.call = p.call
  /\ o.p.ends # <<>> => o.p.ends[1].list = o.p.list
  /\ \E b \in 0..Extent(p.call) :
       /\ o.p.list = Collected(p.call, b)
       /\ \/ b = y /\ o.reqs = <<>>
          \/ /\ y = Extent(p.call) + 1 /\ IsSeq(o.reqs)
             /\ \E z \in Nat : z >= Extent(p.call) /\ Path(Commands(i, o), i, p.call, b, z)

\* A failure needs no queue.
LEMMA BrokenSo ==
  ASSUME NEW p, Broken(p), NEW i, NEW q
  PROVE  DiscSo(i, p, q)
<1> SUFFICES ASSUME p.call.kind \in Discoveries PROVE DiscSo(i, p, q) BY DEF DiscSo
<1>1. Extent(p.call) \in Nat BY BaseFacts
<1>2. CASE p.call.kind = "included"
  <2>1. Collected(p.call, 0) = <<>>
    <3>1. IsSeq(Base(p.call)) BY BaseFacts
    <3> QED BY <1>2, <3>1, FirstEnds DEF Collected, Chosen
  <2>2. 0 \in 0..Extent(p.call) BY <1>1
  <2>3. p.ends # <<>> => EndSo(p) BY <1>2, <2>1, <2>2 DEF EndSo, Broken
  <2> QED BY <1>2, <2>3 DEF Broken, DiscSo
<1>3. CASE p.call.kind # "included"
  <2>1. PICK n \in 0..Extent(p.call) : p.list = Collected(p.call, n) BY <1>3 DEF Broken
  <2>2. p.err = "OK" /\ p.ends # <<>> /\ p.ends[1].list = p.list /\ p.fault = TRUE
        /\ (p.call.kind = "primary" => p.ends[1].status # "OK")
    BY <1>3 DEF Broken
  <2>3. EndSo(p) BY <1>3, <2>1, <2>2 DEF EndSo, Discoveries
  <2>4. ListSo(i, p, q) BY <2>1, <2>2 DEF ListSo
  <2> QED BY <2>2, <2>3, <2>4 DEF DiscSo
<1> QED BY <1>2, <1>3

\* The commands for requests.
LEMMA CommandsAre ==
  ASSUME NEW i, NEW o, IsSeq(o.reqs), NEW s, s = Commands(i, o)
  PROVE  /\ IsSeq(s) /\ Len(s) = Len(o.reqs)
         /\ \A k \in 1..Len(s) : s[k].proc = i /\ s[k].cb = o.reqs[k].cb /\ s[k].req = o.reqs[k].req
<1> DEFINE n == Len(o.reqs)
<1>1. n \in Nat /\ DOMAIN o.reqs = 1..n BY SeqLen
<1>2. s = [k \in 1..n |-> [proc |-> i, cb |-> o.reqs[k].cb, req |-> o.reqs[k].req]]
  BY <1>1 DEF Commands
<1> HIDE DEF n
<1>3. s = [k \in 1..n |-> s[k]] BY <1>2
<1>4. IsSeq(s) /\ Len(s) = n BY <1>1, <1>3, FcnSeq
<1>5. \A k \in 1..n : s[k].proc = i /\ s[k].cb = o.reqs[k].cb /\ s[k].req = o.reqs[k].req BY <1>2
<1> QED BY <1>4, <1>5 DEF n

\* A callback that moves on.
LEMMA MovesSo ==
  ASSUME NEW p, p.call.kind \in Discoveries, NEW i, NEW t, IsSeq(t), NEW y \in Nat, NEW z \in Nat,
         z >= Extent(p.call), Path(t, i, p.call, y, z), NEW o, Moves(p, i, o, y),
         NEW s, s = Commands(i, o), NEW q, q = t \o s, o.p.ends # <<>> => NoneOf(q, i)
  PROVE  DiscSo(i, o.p, q)
<1> DEFINE call == p.call
           n == Extent(p.call)
<1>1. n \in Nat BY BaseFacts
<1>2. PICK b \in 0..n :
        /\ o.p.list = Collected(call, b)
        /\ \/ b = y /\ o.reqs = <<>>
           \/ /\ y = n + 1 /\ IsSeq(o.reqs)
              /\ \E x \in Nat : x >= n /\ Path(s, i, call, b, x)
  BY DEF Moves
<1>3. o.p.err = "OK" /\ o.p.call = call /\ (o.p.ends # <<>> => o.p.ends[1].list = o.p.list)
  BY DEF Moves
<1> HIDE DEF n
<1>4. IsSeq(s) /\ \E x \in Nat : x >= n /\ Path(q, i, call, b, x)
  <2>1. CASE b = y /\ o.reqs = <<>>
    <3>1. IsSeq(o.reqs) /\ Len(o.reqs) = 0 BY <2>1, NoneSeq
    <3>2. IsSeq(s) /\ Len(s) = 0 BY <3>1, CommandsAre
    <3>3. s = <<>> BY <3>2, SeqLen
    <3>4. q = t BY <3>2, <3>3, CatLaws
    <3> QED BY <2>1, <3>2, <3>4 DEF n
  <2>2. CASE y = n + 1 /\ IsSeq(o.reqs) /\ \E x \in Nat : x >= n /\ Path(s, i, call, b, x)
    <3>1. IsSeq(s) BY <2>2, CommandsAre
    <3>2. NoneOf(t, i) BY <2>2, PathEnd DEF n
    <3>3. b \in Nat BY <1>1
    <3>4. Path(t, i, call, b, b) BY <3>2, <3>3, PathNone
    <3>5. PICK x \in Nat : x >= n /\ Path(s, i, call, b, x) BY <2>2
    <3> HIDE DEF call
    <3>6. Path(q, i, call, b, x) BY <3>1, <3>4, <3>5, PathCat
    <3> QED BY <3>1, <3>5, <3>6
  <2> QED BY <1>2, <2>1, <2>2
<1>5. ListSo(i, o.p, q) BY <1>2, <1>3, <1>4 DEF ListSo, n
<1>6. ASSUME o.p.ends # <<>> PROVE EndSo(o.p)
  <2>1. IsSeq(q) BY <1>4, CatSeq
  <2>2. PICK x \in Nat : x >= n /\ Path(q, i, call, b, x) BY <1>4
  <2>3. x = b BY <1>6, <2>1, <2>2, PathNone
  <2>4. b = n BY <1>1, <1>2, <2>2, <2>3
  <2>5. o.p.list = Found(call) BY <1>1, <1>2, <2>4, CollectedFacts DEF n
  <2> QED BY <1>2, <1>3, <1>6, <2>5 DEF EndSo, n
<1> QED BY <1>3, <1>5, <1>6 DEF DiscSo

\* The commands of procedure i for some requests.
CommandsFor(i, reqs) == [k \in DOMAIN reqs |-> [proc |-> i, cb |-> reqs[k].cb, req |-> reqs[k].req]]

\* Requests that lead from the m-th entry to the end.
LeadsOn(reqs, i, call, m) ==
  IsSeq(reqs) /\ \E z \in Nat : z >= Extent(call) /\ Path(CommandsFor(i, reqs), i, call, m, z)

\* The commands, one by one.
LEMMA ForReqs ==
  ASSUME NEW i, NEW reqs, IsSeq(reqs), NEW s, s = CommandsFor(i, reqs)
  PROVE  /\ IsSeq(s) /\ Len(s) = Len(reqs)
         /\ \A k \in 1..Len(s) : s[k].proc = i /\ s[k].cb = reqs[k].cb /\ s[k].req = reqs[k].req
<1> DEFINE o == [reqs |-> reqs]
<1>1. o.reqs = reqs OBVIOUS
<1> HIDE DEF o
<1>2. s = Commands(i, o) BY <1>1 DEF Commands, CommandsFor
<1>3. IsSeq(o.reqs) BY <1>1
<1>4. IsSeq(s) /\ Len(s) = Len(o.reqs)
      /\ \A k \in 1..Len(s) : s[k].proc = i /\ s[k].cb = o.reqs[k].cb /\ s[k].req = o.reqs[k].req
  BY <1>2, <1>3, CommandsAre
<1> QED BY <1>1, <1>4

\* Where a command leads does not depend on its procedure.
LEMMA WalksSame ==
  ASSUME NEW c, NEW d, c.cb = d.cb, c.req = d.req, NEW call
  PROVE  /\ \A x : Walks(c, call, x) <=> Walks(d, call, x)
         /\ \A y : Resolves(c, call, y) <=> Resolves(d, call, y)
BY DEF Walks, Resolves

\* No request is needed at the end.
LEMMA StopsHere ==
  ASSUME NEW call, call.kind \in Discoveries, NEW m, m = Extent(call), NEW i, NEW reqs, reqs = <<>>
  PROVE  LeadsOn(reqs, i, call, m)
<1> DEFINE s == CommandsFor(i, reqs)
<1>1. IsSeq(reqs) /\ Len(reqs) = 0 BY NoneSeq
<1>2. s = CommandsFor(i, reqs) OBVIOUS
<1> HIDE DEF s
<1>3. IsSeq(s) /\ Len(s) = 0 BY <1>1, <1>2, ForReqs
<1>4. NoneOf(s, i) BY <1>3 DEF NoneOf
<1>5. m \in Nat BY BaseFacts
<1>6. Path(s, i, call, m, m) BY <1>3, <1>4, <1>5, PathNone
<1> QED BY <1>1, <1>2, <1>5, <1>6 DEF LeadsOn

\* One request for the rest.
LEMMA AsksHere ==
  ASSUME NEW call, call.kind \in Discoveries, NEW m, NEW c, Walks(c, call, m), NEW i, NEW reqs,
         reqs = <<c>>
  PROVE  LeadsOn(reqs, i, call, m)
<1> DEFINE s == CommandsFor(i, reqs)
           z == Extent(call) + 1
<1>1. IsSeq(reqs) /\ Len(reqs) = 1 /\ reqs[1] = c
  <2>1. Len(reqs) = 1 /\ reqs[1] = c /\ reqs \in Seq({c}) OBVIOUS
  <2> QED BY <2>1, AnySeq
<1>2. s = CommandsFor(i, reqs) OBVIOUS
<1> HIDE DEF s
<1>3. IsSeq(s) /\ Len(s) = 1 BY <1>1, <1>2, ForReqs
<1>4. s[1].proc = i /\ s[1].cb = c.cb /\ s[1].req = c.req
  <2>1. 1 \in 1..Len(s) BY <1>3
  <2> QED BY <1>1, <1>2, <2>1, ForReqs
<1>5. Extent(call) \in Nat /\ m \in Nat
  <2>1. Extent(call) \in Nat BY BaseFacts
  <2> QED BY <2>1 DEF Walks
<1>6. z \in Nat /\ z >= Extent(call) BY <1>5
<1> DEFINE d == s[1]
<1>7. d.proc = i /\ d.cb = c.cb /\ d.req = c.req /\ s[1] = d BY <1>4
<1> HIDE DEF d
<1>8. Walks(d, call, m) BY <1>7, WalksSame
<1>9. Leads(d, call, m, z) BY <1>8 DEF Leads
<1> HIDE DEF z
<1>10. Path(s, i, call, m, z) BY <1>3, <1>5, <1>6, <1>7, <1>9, PathOne
<1> QED BY <1>1, <1>2, <1>6, <1>10 DEF LeadsOn

\* A request for the UUID of each of the next entries.
LEMMA ResolvesEach ==
  ASSUME NEW call, NEW a \in Nat, NEW i, NEW reqs, IsSeq(reqs),
         \A k \in 1..Len(reqs) : Resolves(reqs[k], call, a + k)
  PROVE  Path(CommandsFor(i, reqs), i, call, a, a + Len(reqs))
<1> DEFINE s == CommandsFor(i, reqs)
<1>1. s = CommandsFor(i, reqs) OBVIOUS
<1> HIDE DEF s
<1>2. IsSeq(s) /\ Len(s) = Len(reqs)
      /\ \A k \in 1..Len(s) : s[k].proc = i /\ s[k].cb = reqs[k].cb /\ s[k].req = reqs[k].req
  BY <1>1, ForReqs
<1>3. ASSUME NEW k \in 1..Len(s) PROVE s[k].proc = i /\ Resolves(s[k], call, a + k)
  <2> DEFINE c == s[k]
             d == reqs[k]
             y == a + k
  <2>1. c.cb = d.cb /\ c.req = d.req /\ Resolves(d, call, y) BY <1>2
  <2> HIDE DEF c, d, y
  <2>2. Resolves(c, call, y) BY <2>1, WalksSame
  <2> QED BY <1>2, <2>2 DEF c, y
<1>4. Path(s, i, call, a, a + Len(s)) BY <1>2, <1>3, PathEach
<1> QED BY <1>1, <1>2, <1>4

\* Some requests, and others behind them.
LEMMA CatLeads ==
  ASSUME NEW s, IsSeq(s), NEW t, NEW i, NEW call, NEW a, NEW m,
         Path(CommandsFor(i, s), i, call, a, m), LeadsOn(t, i, call, m), NEW u, u = s \o t
  PROVE  LeadsOn(u, i, call, a)
<1> DEFINE x == CommandsFor(i, s)
           y == CommandsFor(i, t)
           w == CommandsFor(i, u)
           v == x \o y
<1>1. IsSeq(t) BY DEF LeadsOn
<1>2. IsSeq(u) /\ Len(u) = Len(s) + Len(t) BY <1>1, CatSeq
<1>3. \A k \in DOMAIN s : u[k] = s[k] BY <1>1, CatSeq
<1>4. \A k \in DOMAIN t : u[Len(s) + k] = t[k] BY <1>1, CatSeq
<1>5. DOMAIN s = 1..Len(s) /\ DOMAIN t = 1..Len(t) /\ Len(s) \in Nat /\ Len(t) \in Nat BY <1>1, SeqLen
<1>6. PICK z \in Nat : z >= Extent(call) /\ Path(y, i, call, m, z) BY DEF LeadsOn
<1>7. x = CommandsFor(i, s) /\ y = CommandsFor(i, t) /\ w = CommandsFor(i, u) /\ v = x \o y OBVIOUS
<1> HIDE DEF x, y, w, v
<1>8. IsSeq(x) /\ Len(x) = Len(s) BY <1>7, ForReqs
<1>9. IsSeq(y) /\ Len(y) = Len(t) BY <1>1, <1>7, ForReqs
<1>10. IsSeq(w) /\ Len(w) = Len(u) BY <1>2, <1>7, ForReqs
<1>11. IsSeq(v) /\ Len(v) = Len(x) + Len(y) BY <1>7, <1>8, <1>9, CatSeq
<1>12. \A k \in DOMAIN x : v[k] = x[k] BY <1>7, <1>8, <1>9, CatSeq
<1>13. \A k \in DOMAIN y : v[Len(x) + k] = y[k] BY <1>7, <1>8, <1>9, CatSeq
<1>14. DOMAIN x = 1..Len(s) /\ DOMAIN y = 1..Len(t) /\ DOMAIN u = 1..Len(u)
  BY <1>2, <1>8, <1>9, SeqLen
<1> DEFINE At1(r, k) == [proc |-> i, cb |-> r[k].cb, req |-> r[k].req]
<1>15. /\ \A k \in 1..Len(s) : x[k] = At1(s, k)
       /\ \A k \in 1..Len(t) : y[k] = At1(t, k)
       /\ \A k \in 1..Len(u) : w[k] = At1(u, k)
  BY <1>5, <1>7, <1>14 DEF CommandsFor
<1>16. ASSUME NEW k \in 1..Len(w) PROVE w[k] = v[k]
  <2>1. w[k] = At1(u, k) BY <1>10, <1>15
  <2>2. CASE k <= Len(s)
    <3>1. k \in 1..Len(s) BY <1>2, <1>5, <1>10, <2>2
    <3>2. u[k] = s[k] /\ v[k] = x[k] /\ x[k] = At1(s, k) BY <1>3, <1>5, <1>12, <1>14, <1>15, <3>1
    <3> QED BY <2>1, <3>2
  <2>3. CASE ~ (k <= Len(s))
    <3> DEFINE j == k - Len(s)
    <3>1. j \in 1..Len(t) /\ Len(s) + j = k BY <1>2, <1>5, <1>10, <2>3
    <3> HIDE DEF j
    <3>2. u[k] = t[j] BY <1>4, <1>5, <3>1
    <3>3. v[k] = y[j] BY <1>8, <1>13, <1>14, <3>1
    <3>4. y[j] = At1(t, j) BY <1>15, <3>1
    <3> QED BY <2>1, <3>2, <3>3, <3>4
  <2> QED BY <2>2, <2>3
<1> HIDE DEF At1
<1>17. Len(w) = Len(v) BY <1>2, <1>8, <1>9, <1>10, <1>11
<1>18. w = v BY <1>10, <1>11, <1>16, <1>17, SeqEq
<1>19. Path(v, i, call, a, z)
  <2>1. Path(x, i, call, a, m) BY <1>7
  <2> QED BY <1>6, <1>7, <1>8, <1>9, <2>1, PathCat
<1> QED BY <1>2, <1>6, <1>7, <1>18, <1>19 DEF LeadsOn
-----------------------------------------------------------------------------
(***************************************************************************)
(* The callbacks of a discovery.                                           *)
(***************************************************************************)

\* A request of p was refused, which its history knows.
Refused(p, r) == r.status \notin {"OK", "NOT_FOUND"} /\ p.fault = TRUE

\* A page with the first n of the entries w.
Takes(w, r, n) ==
  /\ r.status = "OK" /\ r.data = FirstOf(w, n) /\ IsSeq(r.data) /\ Len(r.data) = n
  /\ Last(r.data) = w[n] /\ r.ulen = w[1].ulen /\ \A k \in 1..n : w[k].ulen = w[1].ulen

\* What a callback does: it fails the procedure, or goes on.
Outcome(p, i, o, y) == o.first = FALSE /\ (Broken(o.p) \/ Moves(p, i, o, y))

\* A call of the user by q, which has not called before.
Done(q, o, status, list) ==
  /\ o.reqs = <<>> /\ o.first = FALSE
  /\ o.p.ends # <<>> /\ o.p.ends[1].status = status /\ o.p.ends[1].list = list
  /\ o.p.call = q.call /\ o.p.list = q.list /\ o.p.err = q.err /\ o.p.fault = q.fault

\* An answer has a page, or there is nothing left.
LEMMA PageTakes ==
  ASSUME NEW w, IsSeq(w), NEW r, PageOf(w, r)
  PROVE  \/ w = <<>> /\ r.status = "NOT_FOUND"
         \/ \E n \in 1..Len(w) : Takes(w, r, n)
<1>1. CASE w = <<>> /\ r = Error("NOT_FOUND") BY <1>1 DEF Error
<1>2. ASSUME NEW n \in 1..Len(w), r = Page(w[1].ulen, [i \in 1..n |-> w[i]]),
             \A i \in 1..n : w[i].ulen = w[1].ulen
      PROVE  Takes(w, r, n)
  <2> DEFINE f == FirstOf(w, n)
             u == w[1].ulen
  <2>1. r = Page(u, f) BY <1>2 DEF FirstOf
  <2>2. Len(w) \in Nat /\ n \in 0..Len(w) /\ n \in 1..n BY SeqLen
  <2>3. IsSeq(f) /\ Len(f) = n /\ f[n] = w[n] BY <2>2, FirstRest
  <2> HIDE DEF f, u
  <2>4. r.status = "OK" /\ r.data = f /\ r.ulen = u BY <2>1 DEF Page
  <2>5. Last(r.data) = w[n] BY <2>3, <2>4 DEF Last
  <2> QED BY <1>2, <2>3, <2>4, <2>5 DEF Takes, f, u
<1> QED BY <1>1, <1>2 DEF PageOf

\* Ended, field by field.
LEMMA EndedDone ==
  ASSUME NEW q, IsProc(q), q.ends = <<>>, NEW status, NEW list, NEW o, o = Ended(q, status, list)
  PROVE  Done(q, o, status, list)
<1> DEFINE x == [status |-> status, list |-> list]
           e == Append(<<>>, x)
           q2 == [q EXCEPT !.ends = e]
<1>1. o = Quiet(q2) BY DEF Ended
<1>2. e # <<>> /\ e[1] = x
  <2> HIDE DEF x
  <2> QED OBVIOUS
<1> HIDE DEF e
<1>3. o.p = q2 /\ o.reqs = <<>> /\ o.first = FALSE BY <1>1 DEF Quiet, Sends
<1>4. q2.ends = e /\ q2.call = q.call /\ q2.list = q.list /\ q2.err = q.err /\ q2.fault = q.fault
  BY DEF IsProc, ProcFields
<1> HIDE DEF q2
<1>5. x.status = status /\ x.list = list OBVIOUS
<1> HIDE DEF x
<1> QED BY <1>2, <1>3, <1>4, <1>5 DEF Done

\* The end of a discovery.
LEMMA DoneMoves ==
  ASSUME NEW p, p.call.kind \in Discoveries, NEW q, q.call = p.call, q.err = "OK", NEW m, m = Extent(p.call),
         q.list = Collected(p.call, m), NEW status, NEW o, Done(q, o, status, q.list),
         NEW y, y = Extent(p.call) + 1, NEW i
  PROVE  Outcome(p, i, o, y)
<1> DEFINE call == p.call
           s == Commands(i, o)
<1>1. /\ o.reqs = <<>> /\ o.first = FALSE /\ o.p.ends # <<>> /\ o.p.ends[1].list = q.list
      /\ o.p.call = call /\ o.p.list = q.list /\ o.p.err = "OK"
  BY DEF Done
<1>2. s = CommandsFor(i, o.reqs) BY DEF Commands, CommandsFor
<1>3. LeadsOn(o.reqs, i, call, m) BY <1>1, StopsHere
<1>4. m \in 0..Extent(call)
  <2>1. Extent(call) \in Nat BY BaseFacts
  <2> QED BY <2>1
<1> HIDE DEF s
<1>5. IsSeq(o.reqs) /\ \E z \in Nat : z >= Extent(call) /\ Path(s, i, call, m, z)
  BY <1>2, <1>3 DEF LeadsOn
<1>6. Moves(p, i, o, y) BY <1>1, <1>4, <1>5 DEF Moves, s
<1> QED BY <1>1, <1>6 DEF Outcome

\* A discovery that goes on with some requests.
LEMMA LeadsMoves ==
  ASSUME NEW p, p.call.kind \in Discoveries, NEW o, o.p.call = p.call, o.p.err = "OK", o.first = FALSE,
         o.p.ends # <<>> => o.p.ends[1].list = o.p.list,
         NEW m \in 0..Extent(p.call), o.p.list = Collected(p.call, m),
         NEW i, LeadsOn(o.reqs, i, p.call, m), NEW y, y = Extent(p.call) + 1
  PROVE  Outcome(p, i, o, y)
<1> DEFINE s == Commands(i, o)
<1>1. s = CommandsFor(i, o.reqs) BY DEF Commands, CommandsFor
<1> HIDE DEF s
<1>2. IsSeq(o.reqs) /\ \E z \in Nat : z >= Extent(p.call) /\ Path(s, i, p.call, m, z)
  BY <1>1 DEF LeadsOn
<1>3. Moves(p, i, o, y) BY <1>2 DEF Moves, s
<1> QED BY <1>3 DEF Outcome

\* One that asks for the rest.
LEMMA AsksMoves ==
  ASSUME NEW p, p.call.kind \in Discoveries, NEW q, q.call = p.call, q.err = "OK", q.ends = <<>>,
         NEW m, q.list = Collected(p.call, m), NEW cb, NEW req, NEW c, c = [cb |-> cb, req |-> req],
         Walks(c, p.call, m), NEW o, o = Asks(q, cb, req), NEW y, y = Extent(p.call) + 1, NEW i
  PROVE  Outcome(p, i, o, y)
<1>1. o.p = q /\ o.reqs = <<c>> /\ o.first = FALSE BY DEF Asks, Sends
<1>2. LeadsOn(o.reqs, i, p.call, m) BY <1>1, AsksHere
<1>3. m \in 0..Extent(p.call) BY DEF Walks
<1> QED BY <1>1, <1>2, <1>3, LeadsMoves

\* A procedure with another list.
LEMMA NewList ==
  ASSUME NEW p, IsProc(p), NEW l, NEW q, q = [p EXCEPT !.list = l]
  PROVE  /\ IsProc(q) /\ q.list = l /\ q.call = p.call /\ q.err = p.err /\ q.ends = p.ends
         /\ q.fault = p.fault
<1>1. Same(p, q) BY SameExcept
<1>2. q.list = l /\ q.call = p.call /\ q.err = p.err /\ q.ends = p.ends /\ q.fault = p.fault
  BY DEF IsProc, ProcFields
<1> QED BY <1>1, <1>2 DEF Same

\* Primary services.
LEMMA PrimaryOutcome ==
  ASSUME NEW p, IsProc(p), p.call.kind = "primary", p.err = "OK", p.ends = <<>>,
         NEW x, NEW c, Walks(c, p.call, x), p.list = Collected(p.call, x),
         NEW r, Refused(p, r) \/ PageOf(Asked(c.req), r), NEW o, o = primary_cb(p, r),
         NEW y, y = Extent(p.call) + 1, NEW i
  PROVE  Outcome(p, i, o, y)
<1> DEFINE call == p.call
           u == call.uuid
           w == Asked(c.req)
<1>1. call.kind \in Discoveries /\ x \in 0..Extent(call) /\ w = Rest(Base(call), x)
  BY DEF Discoveries, Walks
<1>2. PICK start \in Nat : c.req = encode_discover_primary(start, u) BY DEF Walks, WalkReq
<1>3. Extent(call) \in Nat /\ x \in Nat BY <1>1, BaseFacts
<1> HIDE DEF w
<1>4. 0 \in 0..Len(w) /\ IsSeq(w) /\ Len(w) = Extent(call) - x
  <2> DEFINE n == 0
  <2>0. IsSeq(w)
    <3>1. IsSeq(Base(call)) BY <1>1, BaseFacts
    <3> QED BY <1>1, <3>1, FirstRest DEF Extent
  <2>1. n \in 0..Len(w) BY <2>0, SeqLen
  <2> HIDE DEF n
  <2>2. Len(w) = Extent(call) - x
    <3>1. Further(call, x, w, n) BY <1>1, <2>1, CollectedMore
    <3> QED BY <3>1 DEF Further
  <2> QED BY <2>0, <2>1, <2>2 DEF n
<1>5. CASE Refused(p, r)
  <2>1. o = Ended(p, r.status, p.list) BY <1>5 DEF Refused, primary_cb, discovery_err
  <2> DEFINE st == r.status
  <2>2. Done(p, o, st, p.list) BY <2>1, EndedDone
  <2>3. st # "OK" /\ p.fault = TRUE BY <1>5 DEF Refused
  <2> HIDE DEF st
  <2> DEFINE l == p.list
  <2>4. Done(p, o, st, l) /\ l = p.list BY <2>2
  <2>5. x \in 0..Extent(p.call) BY <1>1
  <2> HIDE DEF l
  <2>6. o.first = FALSE /\ Broken(o.p) BY <2>3, <2>4, <2>5 DEF Done, Broken
  <2> QED BY <2>6 DEF Outcome
<1>6. CASE w = <<>> /\ r.status = "NOT_FOUND"
  <2> DEFINE ok == "OK"
  <2>1. o = Ended(p, ok, p.list) BY <1>6 DEF primary_cb, discovery_err
  <2> HIDE DEF ok
  <2>2. Done(p, o, ok, p.list) BY <2>1, EndedDone
  <2>3. x = Extent(call)
    <3>1. Len(w) = 0 BY <1>6, NoneSeq
    <3> QED BY <1>3, <1>4, <3>1
  <2> QED BY <1>1, <2>2, <2>3, DoneMoves
<1>7. ASSUME NEW n \in 1..Len(w), Takes(w, r, n) PROVE Outcome(p, i, o, y)
  <2> DEFINE l == p.list \o r.data
             q == [p EXCEPT !.list = l]
             end == w[n].end
             b == x + n
  <2>1. r.status = "OK" /\ Last(r.data) = w[n] /\ r.data = FirstOf(w, n) BY <1>7 DEF Takes
  <2>2. n \in 0..Len(w) /\ n \in Nat BY <1>4
  <2>3. /\ b \in 0..Extent(call) /\ Rest(w, n) = Rest(Base(call), b)
        /\ Collected(call, x) \o Chosen(call, FirstOf(w, n)) = Collected(call, b)
    <3>1. Further(call, x, w, n) BY <1>1, <2>2, CollectedMore
    <3> QED BY <3>1 DEF Further
  <2>4. Chosen(call, FirstOf(w, n)) = FirstOf(w, n) BY DEF Chosen
  <2>5. l = Collected(call, b) BY <2>1, <2>3, <2>4
  <2>6. o = IF end = 65535 THEN Ended(q, "OK", q.list)
            ELSE Asks(q, discover_primary_cb(u), encode_discover_primary(next_handle(end), u))
    <3> DEFINE q1 == [p EXCEPT !.list = @ \o r.data]
    <3>1. q1 = q OBVIOUS
    <3>2. q1.call = call BY <3>1, NewList
    <3> HIDE DEF q1, q
    <3>3. o = IF end = 65535 THEN Ended(q1, "OK", q1.list)
              ELSE Asks(q1, discover_primary_cb(u), encode_discover_primary(next_handle(end), u))
      BY <2>1 DEF primary_cb, q1
    <3> QED BY <3>1, <3>3
  <2> HIDE DEF l
  <2>7. IsProc(q) /\ q.list = l /\ q.call = call /\ q.err = "OK" /\ q.ends = <<>> BY NewList
  <2> HIDE DEF q
  <2>8. PrimaryNext(w, n, u) BY <1>2, PrimaryWalk DEF w
  <2>9. CASE end = 65535
    <3> DEFINE ok == "OK"
    <3>1. o = Ended(q, ok, q.list) BY <2>6, <2>9
    <3> HIDE DEF ok
    <3>2. Done(q, o, ok, q.list) BY <2>7, <3>1, EndedDone
    <3>3. Rest(w, n) = <<>> BY <2>8, <2>9 DEF PrimaryNext
    <3>4. b = Extent(call)
      <4>1. Len(Rest(w, n)) = Len(w) - n BY <1>4, <2>2, FirstRest
      <4>2. Len(Rest(w, n)) = 0 BY <3>3, NoneSeq
      <4> QED BY <1>3, <1>4, <2>2, <4>1, <4>2
    <3> HIDE DEF b
    <3> QED BY <1>1, <2>5, <2>7, <3>2, <3>4, DoneMoves
  <2>10. CASE end # 65535
    <3> DEFINE e == next_handle(end)
               req == encode_discover_primary(e, u)
               cb == discover_primary_cb(u)
               d == [cb |-> cb, req |-> req]
    <3>1. o = Asks(q, cb, req) BY <2>6, <2>10
    <3>2. e \in Nat BY <2>8 DEF PrimaryNext
    <3>3. Asked(req) = Rest(Base(call), b) BY <2>3, <2>8, <2>10 DEF PrimaryNext
    <3>4. req = WalkReq(call, e) BY DEF WalkReq
    <3>5. cb = WalkCb(call) BY DEF WalkCb
    <3> HIDE DEF e, req, cb
    <3>6. d.cb = cb /\ d.req = req OBVIOUS
    <3> HIDE DEF d
    <3>7. Walks(d, call, b) BY <2>3, <3>2, <3>3, <3>4, <3>5, <3>6 DEF Walks
    <3>8. d = [cb |-> cb, req |-> req] BY DEF d
    <3> HIDE DEF b
    <3> QED BY <1>1, <2>5, <2>7, <3>1, <3>7, <3>8, AsksMoves
  <2> QED BY <2>9, <2>10
<1>8. CASE PageOf(Asked(c.req), r)
  <2>1. \/ w = <<>> /\ r.status = "NOT_FOUND"
        \/ \E n \in 1..Len(w) : Takes(w, r, n)
    BY <1>4, <1>8, PageTakes DEF w
  <2> QED BY <1>6, <1>7, <2>1
<1> QED BY <1>5, <1>8

\* Characteristics.
LEMMA CharOutcome ==
  ASSUME NEW p, IsProc(p), p.call.kind = "chars", p.call.end \in Handle, p.err = "OK", p.ends = <<>>,
         NEW x, NEW c, Walks(c, p.call, x), p.list = Collected(p.call, x),
         NEW r, Refused(p, r) \/ PageOf(Asked(c.req), r), NEW o, o = char_discovered_cb(p, r),
         NEW y, y = Extent(p.call) + 1, NEW i
  PROVE  Outcome(p, i, o, y)
<1> DEFINE call == p.call
           u == call.uuid
           w == Asked(c.req)
<1>1. call.kind \in Discoveries /\ x \in 0..Extent(call) /\ w = Rest(Base(call), x)
  BY DEF Discoveries, Walks
<1>2. PICK start \in Nat : c.req = discover_char_req(start, call.end) BY DEF Walks, WalkReq
<1>3. Extent(call) \in Nat /\ x \in Nat BY <1>1, BaseFacts
<1> HIDE DEF w
<1>4. 0 \in 0..Len(w) /\ IsSeq(w) /\ Len(w) = Extent(call) - x
  <2> DEFINE n == 0
  <2>0. IsSeq(w)
    <3>1. IsSeq(Base(call)) BY <1>1, BaseFacts
    <3> QED BY <1>1, <3>1, FirstRest DEF Extent
  <2>1. n \in 0..Len(w) BY <2>0, SeqLen
  <2> HIDE DEF n
  <2>2. Len(w) = Extent(call) - x
    <3>1. Further(call, x, w, n) BY <1>1, <2>1, CollectedMore
    <3> QED BY <3>1 DEF Further
  <2> QED BY <2>0, <2>1, <2>2 DEF n
<1>5. ASSUME NEW err, o = discover_char_ended(p, err)
      PROVE  \E st : Done(p, o, st, p.list)
  <2> DEFINE st == IF p.list # <<>> THEN "OK" ELSE err
  <2>1. o = Ended(p, st, p.list) BY <1>5 DEF discover_char_ended
  <2> HIDE DEF st
  <2>2. Done(p, o, st, p.list) BY <2>1, EndedDone
  <2> QED BY <2>2
<1>6. CASE Refused(p, r)
  <2>1. o = discover_char_ended(p, r.status) BY <1>6 DEF Refused, char_discovered_cb
  <2>2. PICK st : Done(p, o, st, p.list) BY <1>5, <2>1
  <2>3. p.fault = TRUE BY <1>6 DEF Refused
  <2>4. x \in 0..Extent(p.call) BY <1>1
  <2>5. o.first = FALSE /\ Broken(o.p) BY <2>2, <2>3, <2>4 DEF Done, Broken
  <2> QED BY <2>5 DEF Outcome
<1>7. CASE w = <<>> /\ r.status = "NOT_FOUND"
  <2>1. o = discover_char_ended(p, r.status) BY <1>7 DEF char_discovered_cb
  <2>2. PICK st : Done(p, o, st, p.list) BY <1>5, <2>1
  <2>3. x = Extent(call)
    <3>1. Len(w) = 0 BY <1>7, NoneSeq
    <3> QED BY <1>3, <1>4, <3>1
  <2> QED BY <1>1, <2>2, <2>3, DoneMoves
<1>8. ASSUME NEW n \in 1..Len(w), Takes(w, r, n) PROVE Outcome(p, i, o, y)
  <2> DEFINE found == Picked(r.data, OfUuid(r.data, u))
             l == p.list \o found
             q == [p EXCEPT !.list = l]
             last == w[n].handle
             b == x + n
  <2>1. r.status = "OK" /\ Last(r.data) = w[n] /\ r.data = FirstOf(w, n) BY <1>8 DEF Takes
  <2>2. n \in 0..Len(w) /\ n \in Nat BY <1>4
  <2>3. /\ b \in 0..Extent(call) /\ Rest(w, n) = Rest(Base(call), b)
        /\ Collected(call, x) \o Chosen(call, FirstOf(w, n)) = Collected(call, b)
    <3>1. Further(call, x, w, n) BY <1>1, <2>2, CollectedMore
    <3> QED BY <3>1 DEF Further
  <2>4. Chosen(call, FirstOf(w, n)) = found BY <2>1 DEF Chosen, Matches
  <2>5. l = Collected(call, b) BY <2>3, <2>4
  <2>6. o = IF discover_char_more(last, call.end)
            THEN Asks(q, "char_discovered_cb", discover_char_req(next_handle(last), call.end))
            ELSE discover_char_ended(q, "NOT_FOUND")
    <3> DEFINE f1 == Picked(r.data, OfUuid(r.data, p.call.uuid))
               q1 == [p EXCEPT !.list = @ \o f1]
    <3>1. q1 = q OBVIOUS
    <3> HIDE DEF q, q1
    <3>2. o = IF discover_char_more(last, call.end)
              THEN Asks(q1, "char_discovered_cb", discover_char_req(next_handle(last), call.end))
              ELSE discover_char_ended(q1, "NOT_FOUND")
      BY <2>1 DEF char_discovered_cb, q1
    <3> QED BY <3>1, <3>2
  <2> HIDE DEF l
  <2>7. IsProc(q) /\ q.list = l /\ q.call = call /\ q.err = "OK" /\ q.ends = <<>> BY NewList
  <2> HIDE DEF q
  <2>8. CharNext(w, n, call.end) BY <1>2, CharWalk DEF w
  <2>9. CASE ~ discover_char_more(last, call.end)
    <3> DEFINE st == IF q.list # <<>> THEN "OK" ELSE "NOT_FOUND"
    <3>1. o = Ended(q, st, q.list) BY <2>6, <2>9 DEF discover_char_ended
    <3> HIDE DEF st
    <3>2. Done(q, o, st, q.list) BY <2>7, <3>1, EndedDone
    <3>3. Rest(w, n) = <<>> BY <2>8, <2>9 DEF CharNext
    <3>4. b = Extent(call)
      <4>1. Len(Rest(w, n)) = Len(w) - n BY <1>4, <2>2, FirstRest
      <4>2. Len(Rest(w, n)) = 0 BY <3>3, NoneSeq
      <4> QED BY <1>3, <1>4, <2>2, <4>1, <4>2
    <3> HIDE DEF b
    <3> QED BY <1>1, <2>5, <2>7, <3>2, <3>4, DoneMoves
  <2>10. CASE discover_char_more(last, call.end)
    <3> DEFINE e == next_handle(last)
               req == discover_char_req(e, call.end)
               cb == "char_discovered_cb"
               d == [cb |-> cb, req |-> req]
    <3>1. o = Asks(q, cb, req) BY <2>6, <2>10
    <3>2. e \in Nat BY <2>8 DEF CharNext
    <3>3. Asked(req) = Rest(Base(call), b) BY <2>3, <2>8, <2>10 DEF CharNext
    <3>4. req = WalkReq(call, e) BY DEF WalkReq
    <3>5. cb = WalkCb(call) BY DEF WalkCb
    <3> HIDE DEF e, req, cb
    <3>6. d.cb = cb /\ d.req = req OBVIOUS
    <3> HIDE DEF d
    <3>7. Walks(d, call, b) BY <2>3, <3>2, <3>3, <3>4, <3>5, <3>6 DEF Walks
    <3>8. d = [cb |-> cb, req |-> req] BY DEF d
    <3> HIDE DEF b
    <3> QED BY <1>1, <2>5, <2>7, <3>1, <3>7, <3>8, AsksMoves
  <2> QED BY <2>9, <2>10
<1>9. CASE PageOf(Asked(c.req), r)
  <2>1. \/ w = <<>> /\ r.status = "NOT_FOUND"
        \/ \E n \in 1..Len(w) : Takes(w, r, n)
    BY <1>4, <1>9, PageTakes DEF w
  <2> QED BY <1>7, <1>8, <2>1
<1> QED BY <1>6, <1>9
-----------------------------------------------------------------------------
\* Fields that a callback of an included service discovery leaves alone.
Keeps(p, q) ==
  IsProc(q) /\ q.call = p.call /\ q.err = p.err /\ q.ends = p.ends /\ q.fault = p.fault

\* References are nobody's business.
LEMMA RefKeeps ==
  ASSUME NEW p, IsProc(p), NEW n \in Int, NEW q, q = isd_ref(p, n)
  PROVE  Keeps(p, q) /\ q.list = p.list
<1> DEFINE x == p.refs + n
<1>1. IsProc(q) BY RefEffect
<1>2. q = [p EXCEPT !.refs = x] BY DEF isd_ref
<1> HIDE DEF x
<1>3. q.call = p.call /\ q.err = p.err /\ q.ends = p.ends /\ q.fault = p.fault /\ q.list = p.list
  BY <1>2 DEF IsProc, ProcFields
<1> QED BY <1>1, <1>3 DEF Keeps

\* What the end of one leaves.
LEMMA UnrefKeeps ==
  ASSUME NEW p, IsProc(p), p.ends = <<>>, NEW u, u = isd_unref(p)
  PROVE  /\ u.call = p.call /\ u.list = p.list /\ u.err = p.err /\ u.fault = p.fault
         /\ u.ends # <<>> =>
              /\ u.ends[1].status = p.err
              /\ u.ends[1].list = IF p.err = "OK" THEN p.list ELSE <<>>
<1> DEFINE q == isd_ref(p, -1)
           l == IF q.err = "OK" THEN q.list ELSE <<>>
           st == q.err
           o == Ended(q, st, l)
<1>1. -1 \in Int /\ p.refs + (-1) = p.refs - 1 BY DEF IsProc
<1>2. q = [p EXCEPT !.refs = @ - 1] BY <1>1 DEF isd_ref, IsProc
<1>3. u = IF q.refs > 0 THEN q ELSE o.p
  <2> HIDE DEF q
  <2> QED BY <1>2 DEF isd_unref
<1>4. Keeps(p, q) /\ q.list = p.list
  <2>1. q = isd_ref(p, -1) OBVIOUS
  <2> HIDE DEF q
  <2> QED BY <1>1, <2>1, RefKeeps
<1> HIDE DEF q
<1>5. IsProc(q) /\ q.ends = <<>> /\ q.err = p.err /\ q.call = p.call /\ q.fault = p.fault
  BY <1>4 DEF Keeps
<1>6. l = IF p.err = "OK" THEN p.list ELSE <<>> BY <1>4, <1>5
<1>7. o = Ended(q, st, l) /\ st = p.err BY <1>5
<1> HIDE DEF l, st, o
<1>8. Done(q, o, st, l) BY <1>5, <1>7, EndedDone
<1>9. CASE q.refs > 0
  <2>1. u = q BY <1>3, <1>9
  <2> QED BY <1>4, <1>5, <2>1
<1>10. CASE ~ (q.refs > 0)
  <2>1. u = o.p BY <1>3, <1>10
  <2> QED BY <1>4, <1>5, <1>6, <1>7, <1>8, <2>1 DEF Done
<1> QED BY <1>9, <1>10

\* What find_included_cb makes of a page: the requests gr for UUIDs and mr for
\* more declarations, and the procedure m before its reference is dropped.
FindGives(p, r, o, m, gr, mr) ==
  /\ o.p = isd_unref(m) /\ o.reqs = gr \o mr /\ o.first = FALSE
  /\ Keeps(p, m)
  /\ r.ulen = 16 =>
       m.list = p.list /\ gr = [k \in DOMAIN r.data |-> resolve_request(r.data[k])]
  /\ r.ulen # 16 => m.list = p.list \o r.data /\ gr = <<>>
  /\ mr = IF Last(r.data).handle < p.call.end
          THEN <<[cb |-> "find_included_cb", req |-> FindReq(next_handle(Last(r.data).handle), p.call.end)]>>
          ELSE <<>>

\* Pages of declarations.
LEMMA FindIs ==
  ASSUME NEW p, IsProc(p), NEW r, r.status = "OK", IsSeq(r.data), NEW o, o = find_included_cb(p, r)
  PROVE  \E m, gr, mr : FindGives(p, r, o, m, gr, mr)
<1> DEFINE last == Last(r.data).handle
           l == p.list \o r.data
           q == [p EXCEPT !.list = l]
           q0 == [p EXCEPT !.list = @ \o r.data]
           got == IF r.ulen = 16 THEN resolve_included_uuid(p, r.data) ELSE Quiet(q0)
           fnd == find_included(got.p, next_handle(last))
           more == IF last < p.call.end THEN fnd ELSE Quiet(got.p)
           gr == got.reqs
           mr == more.reqs
           m == more.p
           none == <<>>
           n == Len(r.data)
<1>1. o = Sends(isd_unref(m), gr \o mr, FALSE) BY DEF find_included_cb
<1>2. o.p = isd_unref(m) /\ o.reqs = gr \o mr /\ o.first = FALSE
  <2> HIDE DEF m, gr, mr
  <2> QED BY <1>1 DEF Sends
<1>3. q0 = q OBVIOUS
<1>4. /\ Keeps(p, got.p)
      /\ r.ulen = 16 =>
           got.p.list = p.list /\ gr = [k \in DOMAIN r.data |-> resolve_request(r.data[k])]
      /\ r.ulen # 16 => got.p.list = l /\ gr = none
  <2>1. CASE r.ulen = 16
    <3> DEFINE reqs == [k \in DOMAIN r.data |-> resolve_request(r.data[k])]
               p1 == isd_ref(p, n)
    <3>1. got.p = p1 /\ gr = reqs BY <2>1 DEF resolve_included_uuid, Sends
    <3>2. n \in Int
      <4>1. n \in Nat BY SeqLen
      <4> QED BY <4>1
    <3>3. p1 = isd_ref(p, n) OBVIOUS
    <3> HIDE DEF got, p1, n, gr, reqs, none
    <3>4. Keeps(p, p1) /\ p1.list = p.list BY <3>2, <3>3, RefKeeps
    <3> QED BY <2>1, <3>1, <3>4 DEF reqs
  <2>2. CASE r.ulen # 16
    <3>1. got.p = q /\ gr = none BY <1>3, <2>2 DEF Quiet, Sends
    <3> HIDE DEF got, gr, none, l, q0
    <3>2. IsProc(q) /\ q.list = l /\ q.call = p.call /\ q.err = p.err /\ q.ends = p.ends
          /\ q.fault = p.fault
      BY NewList
    <3> HIDE DEF q
    <3> QED BY <2>2, <3>1, <3>2 DEF Keeps
  <2> QED BY <2>1, <2>2
<1> HIDE DEF got, gr
<1> DEFINE g == got.p
<1>5. g.call = p.call /\ IsProc(g) BY <1>4 DEF Keeps
<1>6. /\ Keeps(g, m) /\ m.list = g.list
      /\ mr = IF last < p.call.end
              THEN <<[cb |-> "find_included_cb", req |-> FindReq(next_handle(last), p.call.end)]>>
              ELSE none
  <2>1. CASE last < p.call.end
    <3> DEFINE p1 == isd_ref(g, 1)
               c == [cb |-> "find_included_cb", req |-> FindReq(next_handle(last), p.call.end)]
    <3>1. m = p1 /\ mr = <<c>> BY <1>5, <2>1 DEF find_included, Asks, Sends, FindReq
    <3> HIDE DEF m, mr, c
    <3>2. p1 = isd_ref(g, 1) /\ 1 \in Int OBVIOUS
    <3> HIDE DEF p1, g
    <3>3. Keeps(g, p1) /\ p1.list = g.list BY <1>5, <3>2, RefKeeps
    <3> QED BY <2>1, <3>1, <3>3 DEF c
  <2>2. CASE ~ (last < p.call.end)
    <3>1. m = g /\ mr = none BY <2>2 DEF Quiet, Sends
    <3> HIDE DEF m, mr, g, none
    <3> QED BY <1>5, <2>2, <3>1 DEF Keeps
  <2> QED BY <2>1, <2>2
<1> HIDE DEF m, mr
<1>7. Keeps(p, m) BY <1>4, <1>6 DEF Keeps
<1>8. FindGives(p, r, o, m, gr, mr) BY <1>2, <1>4, <1>6, <1>7 DEF FindGives
<1> QED BY <1>8

\* With an error the discovery is broken, whatever ends then.
LEMMA UnrefBroken ==
  ASSUME NEW p, IsProc(p), p.call.kind = "included", p.err # "OK", p.fault = TRUE, p.ends = <<>>,
         NEW u, u = isd_unref(p)
  PROVE  Broken(u)
<1>1. u.call = p.call /\ u.err = p.err /\ u.fault = p.fault
      /\ (u.ends # <<>> => u.ends[1].status = p.err /\ u.ends[1].list = <<>>)
  BY UnrefKeeps
<1> QED BY <1>1 DEF Broken

\* Errors.
LEMMA NewErr ==
  ASSUME NEW p, IsProc(p), NEW err, NEW q, q = isd_err(p, err)
  PROVE  /\ IsProc(q) /\ q.call = p.call /\ q.list = p.list /\ q.ends = p.ends /\ q.fault = p.fault
         /\ q.err = IF p.err = "OK" THEN err ELSE p.err
<1> DEFINE q1 == [p EXCEPT !.err = err]
<1>1. IsProc(q1) BY SameExcept DEF Same
<1>2. q1.call = p.call /\ q1.list = p.list /\ q1.ends = p.ends /\ q1.fault = p.fault /\ q1.err = err
  BY DEF IsProc, ProcFields
<1>3. q = IF p.err = "OK" THEN q1 ELSE p BY DEF isd_err
<1> HIDE DEF q1
<1> QED BY <1>1, <1>2, <1>3

\* And stays so.
LEMMA BrokenStays ==
  ASSUME NEW p, IsProc(p), p.call.kind = "included", p.err # "OK", p.fault = TRUE, p.ends = <<>>,
         NEW c, c.cb \in IncludedCbs, NEW r, RspOk(c, r), NEW o, o = Callback(c, p, r)
  PROVE  o.first = FALSE /\ Broken(o.p)
<1>1. CASE c.cb = "resolve_included_uuid_cb" /\ r.status # "OK"
  <2> DEFINE q == isd_err(p, r.status)
             u == isd_unref(q)
  <2>1. o.p = u /\ o.first = FALSE
    BY <1>1 DEF Callback, resolve_included_uuid_cb, Quiet, Sends
  <2>2. IsProc(q) /\ q.call = p.call /\ q.ends = p.ends /\ q.fault = p.fault /\ q.err = p.err
    BY NewErr
  <2>3. u = isd_unref(q) OBVIOUS
  <2> HIDE DEF q, u
  <2>4. Broken(u) BY <2>2, <2>3, UnrefBroken
  <2> QED BY <2>1, <2>4
<1>2. CASE c.cb = "resolve_included_uuid_cb" /\ r.status = "OK"
  <2> DEFINE l == Append(p.list, [c.req.included EXCEPT !.uuid = r.data])
             q == [p EXCEPT !.list = l]
             u == isd_unref(q)
  <2>1. o.p = u /\ o.first = FALSE
    BY <1>2 DEF Callback, resolve_included_uuid_cb, Quiet, Sends
  <2> HIDE DEF l
  <2>2. IsProc(q) /\ q.call = p.call /\ q.ends = p.ends /\ q.fault = p.fault /\ q.err = p.err
    BY NewList
  <2>3. u = isd_unref(q) OBVIOUS
  <2> HIDE DEF q, u
  <2>4. Broken(u) BY <2>2, <2>3, UnrefBroken
  <2> QED BY <2>1, <2>4
<1>3. CASE c.cb = "find_included_cb" /\ r.status # "OK"
  <2> DEFINE q == isd_err(p, discovery_err(r.status))
             u == isd_unref(q)
  <2>1. o.p = u /\ o.first = FALSE BY <1>3 DEF Callback, find_included_cb, Quiet, Sends
  <2>2. IsProc(q) /\ q.call = p.call /\ q.ends = p.ends /\ q.fault = p.fault /\ q.err = p.err
    BY NewErr
  <2>3. u = isd_unref(q) OBVIOUS
  <2> HIDE DEF q, u
  <2>4. Broken(u) BY <2>2, <2>3, UnrefBroken
  <2> QED BY <2>1, <2>4
<1>4. CASE c.cb = "find_included_cb" /\ r.status = "OK"
  <2>1. o = find_included_cb(p, r) BY <1>4 DEF Callback
  <2>2. IsSeq(r.data) BY <1>4 DEF RspOk
  <2>3. PICK m, gr, mr : FindGives(p, r, o, m, gr, mr) BY <1>4, <2>1, <2>2, FindIs
  <2>4. Keeps(p, m) /\ o.p = isd_unref(m) /\ o.first = FALSE BY <2>3 DEF FindGives
  <2>5. IsProc(m) /\ m.call = p.call /\ m.ends = p.ends /\ m.fault = p.fault /\ m.err = p.err
    BY <2>4 DEF Keeps
  <2>6. Broken(o.p) BY <2>4, <2>5, UnrefBroken
  <2> QED BY <2>4, <2>6
<1> QED BY <1>1, <1>2, <1>3, <1>4 DEF IncludedCbs
-----------------------------------------------------------------------------
\* A declaration without its UUID of 128 bits, which gets it back.
HiddenIs(x) ==
  /\ Hidden(x).ulen = x.ulen /\ Hidden(x).handle = x.handle /\ Hidden(x).start = x.start
  /\ x.ulen # 16 => Hidden(x) = x
  /\ [Hidden(x) EXCEPT !.uuid = x.uuid] = x

\* It is so of each declaration of an included service.
LEMMA HiddenFacts ==
  ASSUME NEW K \in DOMAIN Includes, NEW x, x = Includes[K]
  PROVE  HiddenIs(x)
<1> DEFINE R == [handle : Nat, start : Nat, end : Nat, uuid : Uuids(Includes), ulen : {2, 16}]
           F == {"handle", "start", "end", "uuid", "ulen"}
<1>1. x \in R
  <2>1. Includes \in Seq(R) BY GattAssumption
  <2> HIDE DEF R
  <2> QED BY <2>1
<1>2. x = [f \in F |-> x[f]] BY <1>1
<1> HIDE DEF R
<1>3. CASE x.ulen = 16
  <2> DEFINE h == [x EXCEPT !.uuid = NullUuid]
             g == [h EXCEPT !.uuid = x.uuid]
  <2>1. Hidden(x) = h BY <1>3 DEF Hidden
  <2>2. h.ulen = x.ulen /\ h.handle = x.handle /\ h.start = x.start BY <1>2
  <2>3. g = x BY <1>2
  <2> QED BY <1>3, <2>1, <2>2, <2>3 DEF HiddenIs
<1>4. CASE x.ulen # 16
  <2>1. Hidden(x) = x BY <1>4 DEF Hidden
  <2>2. [x EXCEPT !.uuid = x.uuid] = x BY <1>2
  <2> QED BY <2>1, <2>2 DEF HiddenIs
<1> QED BY <1>3, <1>4

\* Pages of declarations lead on behind their last.
FindsOn(call, x, w, n, mr, i) ==
  /\ LeadsOn(mr, i, call, x + n) /\ x + n \in 0..Extent(call) /\ x \in 0..Extent(call)
  /\ IsSeq(w)
  /\ \A k \in 1..Len(w) : x + k \in 1..Extent(call) /\ Base(call)[x + k] = w[k]
  /\ Collected(call, x) \o FirstOf(w, n) = Collected(call, x + n)

\* The requests behind it.
LEMMA FindMore ==
  ASSUME NEW call, call.kind = "included", call.end \in Handle, NEW x, NEW c, Walks(c, call, x),
         NEW w, w = Asked(c.req), NEW n \in 1..Len(w), NEW last, last = w[n].handle,
         NEW mr, mr = IF last < call.end
                      THEN <<[cb |-> "find_included_cb", req |-> FindReq(next_handle(last), call.end)]>>
                      ELSE <<>>,
         NEW i
  PROVE  FindsOn(call, x, w, n, mr, i)
<1> DEFINE b == x + n
           s == Base(call)
<1>1. call.kind \in Discoveries /\ x \in 0..Extent(call) /\ w = Rest(s, x) BY DEF Discoveries, Walks
<1>2. PICK start \in Nat : c.req = FindReq(start, call.end) BY DEF Walks, WalkReq
<1>3. Extent(call) \in Nat /\ x \in Nat /\ IsSeq(s) /\ Extent(call) = Len(s)
  BY <1>1, BaseFacts DEF Extent
<1> HIDE DEF s
<1>4. IsSeq(w) /\ Len(w) = Extent(call) - x /\ \A k \in 1..(Len(s) - x) : w[k] = s[x + k]
  <2>1. x \in 0..Len(s) BY <1>1, <1>3
  <2>2. IsSeq(Rest(s, x)) BY <1>3, <2>1, FirstRest
  <2>3. Len(Rest(s, x)) = Len(s) - x BY <1>3, <2>1, FirstRest
  <2>4. \A k \in 1..(Len(s) - x) : Rest(s, x)[k] = s[x + k] BY <1>3, <2>1, FirstRest
  <2> QED BY <1>1, <1>3, <2>2, <2>3, <2>4
<1>5. n \in 0..Len(w) /\ n \in Nat BY <1>3, <1>4
<1>6. /\ b \in 0..Extent(call) /\ Rest(w, n) = Rest(s, b)
      /\ Collected(call, x) \o Chosen(call, FirstOf(w, n)) = Collected(call, b)
  <2>1. w = Rest(Base(call), x) BY <1>1 DEF s
  <2>2. Further(call, x, w, n) BY <1>1, <1>5, <2>1, CollectedMore
  <2> QED BY <2>2 DEF Further, s
<1>7. Chosen(call, FirstOf(w, n)) = FirstOf(w, n) BY DEF Chosen
<1>8. IncludeNext(w, n, call.end) BY <1>2, IncludeWalk
<1>9. \A k \in 1..Len(w) : x + k \in 1..Extent(call) /\ s[x + k] = w[k] BY <1>3, <1>4
<1>10. CASE last < call.end
  <2> DEFINE e == next_handle(last)
             req == FindReq(e, call.end)
             d == [cb |-> "find_included_cb", req |-> req]
  <2>1. mr = <<d>> BY <1>10
  <2>2. e \in Nat /\ Asked(req) = Rest(s, b) BY <1>6, <1>8, <1>10 DEF IncludeNext
  <2>3. req = WalkReq(call, e) BY DEF WalkReq
  <2> HIDE DEF e, req, b
  <2>4. d.cb = WalkCb(call) /\ d.req = req BY DEF WalkCb
  <2> HIDE DEF d
  <2>5. Walks(d, call, b) BY <1>6, <2>2, <2>3, <2>4 DEF Walks, s
  <2>6. LeadsOn(mr, i, call, b) BY <1>1, <2>1, <2>5, AsksHere
  <2> QED BY <1>1, <1>4, <1>6, <1>7, <1>9, <2>6 DEF FindsOn, b, s
<1>11. CASE ~ (last < call.end)
  <2>1. mr = <<>> /\ Rest(w, n) = <<>> BY <1>8, <1>11 DEF IncludeNext
  <2>2. b = Extent(call)
    <3>1. Len(Rest(w, n)) = Len(w) - n BY <1>4, <1>5, FirstRest
    <3>2. Len(Rest(w, n)) = 0 BY <2>1, NoneSeq
    <3> QED BY <1>3, <1>4, <1>5, <3>1, <3>2
  <2> HIDE DEF b
  <2>3. LeadsOn(mr, i, call, b) BY <1>1, <2>1, <2>2, StopsHere
  <2> QED BY <1>1, <1>4, <1>6, <1>7, <1>9, <2>3 DEF FindsOn, b, s
<1> QED BY <1>10, <1>11

\* Pages of declarations with short UUIDs hide nothing.
LEMMA HiddenPage ==
  ASSUME NEW w, IsSeq(w), NEW h, h = [j \in DOMAIN w |-> Hidden(w[j])], NEW n \in 1..Len(w),
         \A k \in 1..Len(w) : HiddenIs(w[k])
  PROVE  /\ IsSeq(h) /\ Len(h) = Len(w) /\ \A k \in 1..Len(w) : h[k] = Hidden(w[k])
         /\ (\A k \in 1..n : w[k].ulen # 16) => FirstOf(h, n) = FirstOf(w, n)
<1> DEFINE m == Len(w)
<1>1. m \in Nat /\ DOMAIN w = 1..m BY SeqLen
<1>2. h = [j \in 1..m |-> Hidden(w[j])] BY <1>1
<1> HIDE DEF m
<1>3. h = [j \in 1..m |-> h[j]] BY <1>2
<1>4. IsSeq(h) /\ Len(h) = m BY <1>1, <1>3, FcnSeq
<1>5. \A k \in 1..m : h[k] = Hidden(w[k]) BY <1>2
<1>6. ASSUME \A k \in 1..n : w[k].ulen # 16 PROVE FirstOf(h, n) = FirstOf(w, n)
  <2>1. \A k \in 1..n : k \in 1..m BY <1>1 DEF m
  <2>2. \A k \in 1..n : h[k] = w[k] BY <1>5, <1>6, <2>1 DEF HiddenIs, m
  <2> QED BY <2>2 DEF FirstOf
<1> QED BY <1>4, <1>5, <1>6 DEF m

\* Included services: a page of declarations.
LEMMA FindTakes ==
  ASSUME NEW p, IsProc(p), p.call.kind = "included", p.call.end \in Handle, p.err = "OK", p.ends = <<>>,
         NEW x, NEW c, Walks(c, p.call, x), p.list = Collected(p.call, x),
         NEW w, w = Asked(c.req), IsSeq(w), NEW h, h = [j \in DOMAIN w |-> Hidden(w[j])],
         NEW n \in 1..Len(w), NEW r, Takes(h, r, n), NEW o, o = find_included_cb(p, r),
         NEW y, y = Extent(p.call) + 1, NEW i
  PROVE  Outcome(p, i, o, y)
<1> DEFINE call == p.call
           b == x + n
           last == w[n].handle
<1>1. r.status = "OK" /\ r.data = FirstOf(h, n) /\ IsSeq(r.data) /\ Len(r.data) = n
      /\ Last(r.data) = h[n] /\ r.ulen = h[1].ulen /\ \A k \in 1..n : h[k].ulen = h[1].ulen
  BY DEF Takes
<1>2. PICK start \in Nat : c.req = FindReq(start, call.end) BY DEF Walks, WalkReq
<1>3. \A k \in 1..Len(w) : HiddenIs(w[k])
  <2> SUFFICES ASSUME NEW k \in 1..Len(w) PROVE HiddenIs(w[k]) OBVIOUS
  <2>1. IncludeNext(w, k, call.end) BY <1>2, IncludeWalk
  <2>2. PICK K \in DOMAIN Includes : w[k] = Includes[K] BY <2>1 DEF IncludeNext
  <2> QED BY <2>2, HiddenFacts
<1>4. /\ IsSeq(h) /\ Len(h) = Len(w) /\ \A k \in 1..Len(w) : h[k] = Hidden(w[k])
      /\ (\A k \in 1..n : w[k].ulen # 16) => FirstOf(h, n) = FirstOf(w, n)
  BY <1>3, HiddenPage
<1>5. Len(w) \in Nat /\ n \in Nat /\ 1 \in 1..Len(w) /\ \A k \in 1..n : k \in 1..Len(w)
  <2>1. Len(w) \in Nat BY SeqLen
  <2> QED BY <2>1
<1>6. PICK m, gr, mr : FindGives(p, r, o, m, gr, mr) BY <1>1, FindIs
<1>7. /\ o.p = isd_unref(m) /\ o.reqs = gr \o mr /\ o.first = FALSE /\ Keeps(p, m)
      /\ r.ulen = 16 =>
           m.list = p.list /\ gr = [k \in DOMAIN r.data |-> resolve_request(r.data[k])]
      /\ r.ulen # 16 => m.list = p.list \o r.data /\ gr = <<>>
      /\ mr = IF Last(r.data).handle < call.end
              THEN <<[cb |-> "find_included_cb", req |-> FindReq(next_handle(Last(r.data).handle), call.end)]>>
              ELSE <<>>
  BY <1>6 DEF FindGives
<1>8. Last(r.data).handle = last
  <2>1. h[n] = Hidden(w[n]) /\ HiddenIs(w[n]) BY <1>3, <1>4
  <2> QED BY <1>1, <2>1 DEF HiddenIs
<1>9. mr = IF last < call.end
           THEN <<[cb |-> "find_included_cb", req |-> FindReq(next_handle(last), call.end)]>>
           ELSE <<>>
  BY <1>7, <1>8
<1>10. /\ LeadsOn(mr, i, call, b) /\ b \in 0..Extent(call) /\ x \in 0..Extent(call)
       /\ \A k \in 1..Len(w) : x + k \in 1..Extent(call) /\ Base(call)[x + k] = w[k]
       /\ Collected(call, x) \o FirstOf(w, n) = Collected(call, b)
  <2> DEFINE e == last
  <2>1. e = w[n].handle OBVIOUS
  <2>2. mr = IF e < call.end THEN <<[cb |-> "find_included_cb", req |-> FindReq(next_handle(e), call.end)]>>
             ELSE <<>>
    BY <1>9
  <2> HIDE DEF e
  <2>3. FindsOn(call, x, w, n, mr, i) BY <2>1, <2>2, FindMore
  <2> QED BY <2>3 DEF FindsOn
<1> DEFINE u == o.p
<1>11. IsProc(m) /\ m.ends = <<>> /\ m.err = "OK" /\ m.call = call /\ u = isd_unref(m)
  BY <1>7 DEF Keeps
<1> HIDE DEF u, b
<1>12. /\ u.call = call /\ u.list = m.list /\ u.err = "OK"
       /\ u.ends # <<>> => u.ends[1].list = u.list
  BY <1>11, UnrefKeeps
<1>13. call.kind \in Discoveries BY DEF Discoveries
<1>14. CASE r.ulen = 16
  <2>1. m.list = p.list /\ gr = [k \in DOMAIN r.data |-> resolve_request(r.data[k])] BY <1>7, <1>14
  <2>2. DOMAIN r.data = 1..n BY <1>1, SeqLen
  <2>3. gr = [k \in 1..n |-> resolve_request(r.data[k])] BY <2>1, <2>2
  <2>4. IsSeq(gr) /\ Len(gr) = n
    <3>1. gr = [k \in 1..n |-> gr[k]] BY <2>3
    <3> QED BY <1>5, <3>1, FcnSeq
  <2>5. \A k \in 1..n : r.data[k] = h[k] BY <1>1 DEF FirstOf
  <2>6. ASSUME NEW k \in 1..n PROVE Resolves(gr[k], call, x + k)
    <3> DEFINE e == w[k]
               d == gr[k]
               j == x + k
    <3>1. k \in 1..Len(w) BY <1>5
    <3>2. d = resolve_request(Hidden(e)) BY <1>4, <2>3, <2>5, <3>1
    <3>3. HiddenIs(e) BY <1>3, <3>1
    <3>4. e.ulen = 16
      <4>1. h[k].ulen = 16 BY <1>1, <1>14
      <4>2. h[k] = Hidden(e) BY <1>4, <3>1
      <4> QED BY <3>3, <4>1, <4>2 DEF HiddenIs
    <3>5. j \in 1..Extent(call) /\ Base(call)[j] = e BY <1>10, <3>1
    <3> HIDE DEF d, e, j
    <3>6. d.cb = "resolve_included_uuid_cb" /\ d.req.op = "READ_REQ" /\ d.req.included = Hidden(e)
          /\ d.req.handle = Hidden(e).start
      BY <3>2 DEF resolve_request
    <3>7. Resolves(d, call, j) BY <3>3, <3>4, <3>5, <3>6 DEF Resolves, HiddenIs
    <3> QED BY <3>7 DEF d, j
  <2>7. Path(CommandsFor(i, gr), i, call, x, b)
    <3>1. x \in Nat
      <4>1. Extent(call) \in Nat BY <1>13, BaseFacts
      <4> QED BY <1>10, <4>1
    <3>2. \A k \in 1..Len(gr) : Resolves(gr[k], call, x + k) BY <2>4, <2>6
    <3> HIDE DEF call
    <3>3. Path(CommandsFor(i, gr), i, call, x, x + Len(gr)) BY <2>4, <3>1, <3>2, ResolvesEach
    <3> QED BY <2>4, <3>3 DEF b
  <2> DEFINE rs == o.reqs
  <2>8. rs = gr \o mr BY <1>7
  <2> HIDE DEF rs
  <2>9. LeadsOn(rs, i, call, x) BY <1>10, <2>4, <2>7, <2>8, CatLeads
  <2>10. u.list = Collected(call, x) BY <1>12, <2>1
  <2> QED BY <1>7, <1>10, <1>12, <1>13, <2>9, <2>10, LeadsMoves DEF rs, u
<1>15. CASE r.ulen # 16
  <2>1. m.list = p.list \o r.data /\ gr = <<>> BY <1>7, <1>15
  <2>2. \A k \in 1..n : w[k].ulen # 16
    <3> SUFFICES ASSUME NEW k \in 1..n PROVE w[k].ulen # 16 OBVIOUS
    <3>1. k \in 1..Len(w) BY <1>5
    <3>2. h[k] = Hidden(w[k]) /\ HiddenIs(w[k]) BY <1>3, <1>4, <3>1
    <3> QED BY <1>1, <1>15, <3>2 DEF HiddenIs
  <2>3. u.list = Collected(call, b)
    <3>1. r.data = FirstOf(w, n) BY <1>1, <1>4, <2>2
    <3>2. u.list = p.list \o r.data BY <1>12, <2>1
    <3>3. Collected(call, x) \o FirstOf(w, n) = Collected(call, b) BY <1>10
    <3> QED BY <3>1, <3>2, <3>3
  <2>4. o.reqs = mr
    <3>1. IsSeq(mr) BY <1>10 DEF LeadsOn
    <3>2. <<>> \o mr = mr BY <3>1, CatLaws
    <3> QED BY <1>7, <2>1, <3>2
  <2> QED BY <1>7, <1>10, <1>12, <1>13, <2>3, <2>4, LeadsMoves DEF u
<1> QED BY <1>14, <1>15

\* Included services: any answer.
LEMMA FindOutcome ==
  ASSUME NEW p, IsProc(p), p.call.kind = "included", p.call.end \in Handle, p.err = "OK", p.ends = <<>>,
         NEW x, NEW c, Walks(c, p.call, x), p.list = Collected(p.call, x),
         NEW w, w = Asked(c.req), NEW h, h = [j \in DOMAIN w |-> Hidden(w[j])],
         NEW r, Refused(p, r) \/ PageOf(h, r), NEW o, o = find_included_cb(p, r),
         NEW y, y = Extent(p.call) + 1, NEW i
  PROVE  Outcome(p, i, o, y)
<1> DEFINE call == p.call
<1>1. call.kind \in Discoveries /\ x \in 0..Extent(call) /\ w = Rest(Base(call), x)
  BY DEF Discoveries, Walks
<1>2. IsSeq(w) /\ Extent(call) \in Nat /\ x \in Nat /\ Len(w) = Extent(call) - x
  <2>1. IsSeq(Base(call)) /\ Extent(call) \in Nat BY <1>1, BaseFacts
  <2> QED BY <1>1, <2>1, FirstRest DEF Extent
<1>3. IsSeq(h) /\ Len(h) = Len(w)
  <2> DEFINE m == Len(w)
  <2>1. m \in Nat /\ DOMAIN w = 1..m BY <1>2, SeqLen
  <2>2. h = [j \in 1..m |-> Hidden(w[j])] BY <2>1
  <2> HIDE DEF m
  <2>3. h = [j \in 1..m |-> h[j]] BY <2>2
  <2> QED BY <2>1, <2>3, FcnSeq DEF m
<1>4. CASE Refused(p, r)
  <2> DEFINE q == isd_err(p, r.status)
             u == isd_unref(q)
  <2>1. r.status # "OK" /\ discovery_err(r.status) = r.status /\ p.fault = TRUE
    BY <1>4 DEF Refused, discovery_err
  <2>2. o.p = u /\ o.first = FALSE BY <2>1 DEF find_included_cb, Quiet, Sends
  <2>3. IsProc(q) /\ q.call = p.call /\ q.ends = p.ends /\ q.fault = p.fault /\ q.err = r.status
    BY NewErr
  <2>4. u = isd_unref(q) OBVIOUS
  <2> HIDE DEF q, u
  <2>5. Broken(u) BY <2>1, <2>3, <2>4, UnrefBroken
  <2> QED BY <2>2, <2>5 DEF Outcome
<1>5. CASE h = <<>> /\ r.status = "NOT_FOUND"
  <2> DEFINE ok == "OK"
             q == isd_err(p, ok)
             u == isd_unref(q)
  <2>1. r.status # "OK" /\ discovery_err(r.status) = ok BY <1>5 DEF discovery_err
  <2>2. o.p = u /\ o.first = FALSE /\ o.reqs = <<>>
    BY <2>1 DEF find_included_cb, Quiet, Sends
  <2>3. IsProc(q) /\ q.call = p.call /\ q.list = p.list /\ q.ends = p.ends /\ q.err = ok
    <3> HIDE DEF ok
    <3>1. IsProc(q) /\ q.call = p.call /\ q.list = p.list /\ q.ends = p.ends
          /\ q.err = IF p.err = "OK" THEN ok ELSE p.err
      BY NewErr
    <3> QED BY <3>1 DEF ok
  <2>4. u = isd_unref(q) OBVIOUS
  <2> HIDE DEF q, u
  <2>5. u.call = call /\ u.list = p.list /\ u.err = "OK" /\ (u.ends # <<>> => u.ends[1].list = u.list)
    BY <2>3, <2>4, UnrefKeeps
  <2>6. x = Extent(call)
    <3>1. Len(h) = 0 BY <1>5, NoneSeq
    <3> QED BY <1>2, <1>3, <3>1
  <2>7. LeadsOn(o.reqs, i, call, x) BY <1>1, <2>2, <2>6, StopsHere
  <2> QED BY <1>1, <2>2, <2>5, <2>7, LeadsMoves
<1>6. CASE PageOf(h, r)
  <2>1. \/ h = <<>> /\ r.status = "NOT_FOUND"
        \/ \E n \in 1..Len(h) : Takes(h, r, n)
    BY <1>3, <1>6, PageTakes
  <2>2. ASSUME NEW n \in 1..Len(h), Takes(h, r, n) PROVE Outcome(p, i, o, y)
    BY <1>2, <1>3, <2>2, FindTakes
  <2> QED BY <1>5, <2>1, <2>2
<1> QED BY <1>4, <1>6

\* The entries of an included service discovery are declarations.
LEMMA BaseIncludes ==
  ASSUME NEW call, call.kind = "included", NEW y \in 1..Extent(call)
  PROVE  \E K \in DOMAIN Includes : Base(call)[y] = Includes[K]
<1> DEFINE s == Includes
           P == Within(s, call.start, call.end)
           w == Picked(s, P)
<1>1. Found(call) = w BY FirstIncludes, AskedIncludes
<1>2. Base(call) = w BY <1>1 DEF Base
<1>3. y \in 1..Len(w) BY <1>2 DEF Extent
<1>4. P \subseteq DOMAIN s BY DEF Within
<1>5. IsSeq(s) BY IncludeFacts
<1> HIDE DEF P, s
<1>6. \E K \in P : w[y] = s[K] BY <1>3, <1>4, <1>5, PickOne
<1> QED BY <1>2, <1>4, <1>6 DEF s

\* Included services: the UUID of one.
LEMMA ResolveOutcome ==
  ASSUME NEW p, IsProc(p), p.call.kind = "included", p.err = "OK", p.ends = <<>>,
         NEW a \in Nat, NEW y, y = a + 1, NEW c, Resolves(c, p.call, y), p.list = Collected(p.call, a),
         NEW r, Refused(p, r) \/ \E incl \in Declared(c.req.handle) : r = Ok(incl.uuid),
         NEW o, o = resolve_included_uuid_cb(p, c.req, r), NEW i
  PROVE  Outcome(p, i, o, y)
<1> DEFINE call == p.call
           e == Base(call)[y]
<1>1. call.kind \in Discoveries /\ y \in 1..Extent(call) /\ Extent(call) \in Nat
  BY BaseFacts DEF Discoveries, Resolves
<1>2. CASE Refused(p, r)
  <2> DEFINE st == r.status
             q == isd_err(p, st)
             u == isd_unref(q)
  <2>1. st # "OK" /\ p.fault = TRUE BY <1>2 DEF Refused
  <2>2. o.p = u /\ o.first = FALSE BY <2>1 DEF resolve_included_uuid_cb, Quiet, Sends
  <2> HIDE DEF st
  <2>3. IsProc(q) /\ q.call = p.call /\ q.ends = p.ends /\ q.fault = p.fault /\ q.err = st
    BY NewErr
  <2>4. u = isd_unref(q) OBVIOUS
  <2> HIDE DEF q, u
  <2>5. Broken(u) BY <2>1, <2>3, <2>4, UnrefBroken
  <2> QED BY <2>2, <2>5 DEF Outcome
<1>3. ASSUME NEW incl \in Declared(c.req.handle), r = Ok(incl.uuid) PROVE Outcome(p, i, o, y)
  <2>1. PICK K \in DOMAIN Includes : e = Includes[K] BY <1>1, BaseIncludes
  <2>2. HiddenIs(e) BY <2>1, HiddenFacts
  <2>3. c.req.handle = e.start /\ c.req.included = Hidden(e) BY DEF Resolves
  <2>4. PICK J \in DOMAIN Includes : incl = Includes[J] /\ incl.start = e.start
    BY <1>3, <2>3 DEF Declared, ToSet
  <2>5. incl.uuid = e.uuid
    <3>1. \A k, l \in DOMAIN Includes :
            Includes[k].start = Includes[l].start => Includes[k].uuid = Includes[l].uuid
      BY GattAssumption
    <3> HIDE DEF e
    <3> QED BY <2>1, <2>4, <3>1
  <2> HIDE DEF e
  <2> DEFINE d == [c.req.included EXCEPT !.uuid = r.data]
             l == Append(p.list, d)
             q == [p EXCEPT !.list = l]
             u == isd_unref(q)
  <2>6. r.status = "OK" /\ r.data = e.uuid BY <1>3, <2>5 DEF Ok
  <2>7. d = e BY <2>2, <2>3, <2>6 DEF HiddenIs
  <2>8. o.p = u /\ o.first = FALSE /\ o.reqs = <<>>
    BY <2>6 DEF resolve_included_uuid_cb, Quiet, Sends
  <2> HIDE DEF d
  <2>9. l = Collected(call, y)
    <3>1. IsSeq(Base(call)) /\ y \in 1..Len(Base(call)) /\ y - 1 = a
      BY <1>1, BaseFacts DEF Extent
    <3> DEFINE s == Base(call)
    <3>2. e = s[y] BY DEF e
    <3> HIDE DEF s
    <3>3. FirstOf(s, y) = Append(FirstOf(s, y - 1), s[y]) BY <3>1, FirstAppend DEF s
    <3>4. FirstOf(s, y) = Append(FirstOf(s, a), e) BY <3>1, <3>2, <3>3
    <3>5. Collected(call, a) = FirstOf(s, a) /\ Collected(call, y) = FirstOf(s, y)
      BY DEF Collected, Chosen, s
    <3> QED BY <2>7, <3>4, <3>5
  <2> HIDE DEF l
  <2>10. IsProc(q) /\ q.list = l /\ q.call = p.call /\ q.err = "OK" /\ q.ends = <<>> BY NewList
  <2>11. u = isd_unref(q) OBVIOUS
  <2> HIDE DEF q, u
  <2>12. u.call = call /\ u.list = l /\ u.err = "OK" /\ (u.ends # <<>> => u.ends[1].list = u.list)
    BY <2>10, <2>11, UnrefKeeps
  <2>13. y \in 0..Extent(call) BY <1>1
  <2>14. Moves(p, i, o, y) BY <2>8, <2>9, <2>12, <2>13 DEF Moves
  <2> QED BY <2>8, <2>14 DEF Outcome
<1> QED BY <1>2, <1>3
-----------------------------------------------------------------------------
(***************************************************************************)
(* Any response to any command of a discovery.                             *)
(***************************************************************************)

\* A response of the server to a request of a discovery.
Given(req, r) ==
  IF req.op = "READ_REQ" THEN \E incl \in Declared(req.handle) : r = Ok(incl.uuid)
  ELSE IF req.op = "READ_BY_TYPE_REQ" /\ req.type = "INCLUDE"
  THEN PageOf([j \in DOMAIN Asked(req) |-> Hidden(Asked(req)[j])], r)
  ELSE PageOf(Asked(req), r)

Answered(p, req, r) == Refused(p, r) \/ Given(req, r)

\* Which callback and request a command that asks for entries has.
LEMMA WalksCases ==
  ASSUME NEW c, NEW call, call.kind \in Discoveries, NEW x, Walks(c, call, x)
  PROVE  /\ call.kind = "primary" =>
              /\ c.cb \in {"primary_by_uuid_cb", "primary_all_cb"}
              /\ c.req.op \in {"READ_BY_GROUP_REQ", "FIND_BY_TYPE_REQ"}
         /\ call.kind = "included" =>
              /\ c.cb = "find_included_cb"
              /\ c.req.op = "READ_BY_TYPE_REQ" /\ c.req.type = "INCLUDE"
         /\ call.kind = "chars" =>
              /\ c.cb = "char_discovered_cb"
              /\ c.req.op = "READ_BY_TYPE_REQ" /\ c.req.type = "CHARAC"
<1>1. c.cb = WalkCb(call) BY DEF Walks
<1>2. PICK start \in Nat : c.req = WalkReq(call, start) BY DEF Walks
<1>3. CASE call.kind = "primary"
  <2>1. c.cb = discover_primary_cb(call.uuid) /\ c.req = encode_discover_primary(start, call.uuid)
    BY <1>1, <1>2, <1>3 DEF WalkCb, WalkReq
  <2>2. c.req.op \in {"READ_BY_GROUP_REQ", "FIND_BY_TYPE_REQ"}
    BY <2>1 DEF encode_discover_primary
  <2> QED BY <1>3, <2>1, <2>2 DEF discover_primary_cb
<1>4. CASE call.kind = "included"
  <2>1. c.cb = "find_included_cb" /\ c.req = FindReq(start, call.end)
    BY <1>1, <1>2, <1>4 DEF WalkCb, WalkReq
  <2> QED BY <1>4, <2>1 DEF FindReq
<1>5. CASE call.kind = "chars"
  <2>1. c.cb = "char_discovered_cb" /\ c.req = discover_char_req(start, call.end)
    BY <1>1, <1>2, <1>5 DEF WalkCb, WalkReq
  <2> QED BY <1>5, <2>1 DEF discover_char_req
<1> QED BY <1>3, <1>4, <1>5 DEF Discoveries

\* The range of a discovery of included services or characteristics.
RangeOk(call) ==
  call.kind \in Discoveries /\ call.kind # "primary" => call.end \in Handle

\* The answer to the first command of a discovery that has not failed.
LEMMA GivenOutcome ==
  ASSUME NEW p, IsProc(p), p.call.kind \in Discoveries, RangeOk(p.call),
         p.err = "OK", p.ends = <<>>, NEW a \in Nat, NEW y \in Nat, NEW c, Leads(c, p.call, a, y),
         p.list = Collected(p.call, a), NEW r, Answered(p, c.req, r), NEW o, o = Callback(c, p, r),
         NEW i
  PROVE  Outcome(p, i, o, y)
<1> DEFINE call == p.call
<1>1. CASE Walks(c, call, a) /\ y = Extent(call) + 1
  <2>1. CASE call.kind = "primary"
    <3>1. c.cb \in {"primary_by_uuid_cb", "primary_all_cb"}
          /\ c.req.op \in {"READ_BY_GROUP_REQ", "FIND_BY_TYPE_REQ"}
      BY <1>1, <2>1, WalksCases
    <3>2. o = primary_cb(p, r) BY <3>1 DEF Callback
    <3>3. Refused(p, r) \/ PageOf(Asked(c.req), r) BY <3>1 DEF Answered, Given
    <3> QED BY <1>1, <2>1, <3>2, <3>3, PrimaryOutcome
  <2>2. CASE call.kind = "included"
    <3>1. c.cb = "find_included_cb" /\ c.req.op = "READ_BY_TYPE_REQ" /\ c.req.type = "INCLUDE"
      BY <1>1, <2>2, WalksCases
    <3>2. o = find_included_cb(p, r) BY <3>1 DEF Callback
    <3> DEFINE w == Asked(c.req)
               h == [j \in DOMAIN w |-> Hidden(w[j])]
    <3>3. Refused(p, r) \/ PageOf(h, r) BY <3>1 DEF Answered, Given
    <3>4. w = Asked(c.req) /\ h = [j \in DOMAIN w |-> Hidden(w[j])] OBVIOUS
    <3>5. call.end \in Handle BY <2>2 DEF RangeOk, Discoveries
    <3> HIDE DEF w, h
    <3> QED BY <1>1, <2>2, <3>2, <3>3, <3>4, <3>5, FindOutcome
  <2>3. CASE call.kind = "chars"
    <3>1. c.cb = "char_discovered_cb" /\ c.req.op = "READ_BY_TYPE_REQ" /\ c.req.type = "CHARAC"
      BY <1>1, <2>3, WalksCases
    <3>2. o = char_discovered_cb(p, r) BY <3>1 DEF Callback
    <3>3. Refused(p, r) \/ PageOf(Asked(c.req), r) BY <3>1 DEF Answered, Given
    <3>4. call.end \in Handle BY <2>3 DEF RangeOk, Discoveries
    <3> QED BY <1>1, <2>3, <3>2, <3>3, <3>4, CharOutcome
  <2> QED BY <2>1, <2>2, <2>3 DEF Discoveries
<1>2. CASE Resolves(c, call, y) /\ y = a + 1
  <2>1. call.kind = "included" /\ c.cb = "resolve_included_uuid_cb" /\ c.req.op = "READ_REQ"
    BY <1>2 DEF Resolves
  <2>2. o = resolve_included_uuid_cb(p, c.req, r) BY <2>1 DEF Callback
  <2>3. Refused(p, r) \/ \E incl \in Declared(c.req.handle) : r = Ok(incl.uuid)
    BY <2>1 DEF Answered, Given
  <2> QED BY <1>2, <2>1, <2>2, <2>3, ResolveOutcome
<1> QED BY <1>1, <1>2 DEF Leads

\* The first command of the queue, of a discovery that has not failed.
LEMMA HeadLeads ==
  ASSUME NEW ps, NEW q, QueueOk(ps, q), q # <<>>, NEW c, c = q[1], NEW i, i = c.proc,
         NEW p, p = ps[i], p.call.kind \in Discoveries, DiscSo(i, p, q), p.err = "OK"
  PROVE  /\ p.ends = <<>>
         /\ \E a \in Nat, y \in Nat, z \in Nat :
              /\ p.list = Collected(p.call, a) /\ Leads(c, p.call, a, y)
              /\ z >= Extent(p.call) /\ Path(Tail(q), i, p.call, y, z)
<1>1. IsSeq(q) BY DEF QueueOk
<1>2. 1 \in DOMAIN q BY <1>1, TailSeq, SeqLen
<1>3. p.ends = <<>>
  <2> DEFINE k == 1
  <2>1. k \in DOMAIN q /\ ps[q[k].proc] = p /\ p.call.kind # "write_cmd" BY <1>2 DEF Discoveries
  <2> HIDE DEF k
  <2> QED BY <2>1, NotEnded
<1>4. PICK a \in 0..Extent(p.call), z \in Nat :
        p.list = Collected(p.call, a) /\ z >= Extent(p.call) /\ Path(q, i, p.call, a, z)
  BY <1>3 DEF DiscSo, ListSo
<1>5. PICK y \in Nat : a \in Nat /\ Leg(q[1], i, p.call, a, y) /\ Path(Tail(q), i, p.call, y, z)
  BY <1>1, <1>4, PathTail
<1>6. Leads(c, p.call, a, y) BY <1>5 DEF Leg
<1> QED BY <1>3, <1>4, <1>5, <1>6

\* A discovery looks at the queue for the ways through it only.
LEMMA DiscPaths ==
  ASSUME NEW i, NEW p, NEW q, DiscSo(i, p, q), NEW u,
         \A a, z \in Nat : Path(q, i, p.call, a, z) => Path(u, i, p.call, a, z)
  PROVE  DiscSo(i, p, u)
<1> SUFFICES ASSUME p.call.kind \in Discoveries PROVE DiscSo(i, p, u) BY DEF DiscSo
<1>1. Extent(p.call) \in Nat BY BaseFacts
<1>2. p.err = "OK" => ListSo(i, p, u)
  <2> SUFFICES ASSUME p.err = "OK" PROVE ListSo(i, p, u) OBVIOUS
  <2>1. PICK a \in 0..Extent(p.call) :
          /\ p.list = Collected(p.call, a)
          /\ p.ends = <<>> => \E z \in Nat : z >= Extent(p.call) /\ Path(q, i, p.call, a, z)
    BY DEF DiscSo, ListSo
  <2>2. a \in Nat BY <1>1
  <2>3. p.ends = <<>> => \E z \in Nat : z >= Extent(p.call) /\ Path(u, i, p.call, a, z)
    BY <2>1, <2>2
  <2> QED BY <2>1, <2>3 DEF ListSo
<1> QED BY <1>2 DEF DiscSo

\* The commands of others may go,
LEMMA DiscTail ==
  ASSUME NEW q, IsSeq(q), q # <<>>, NEW i, q[1].proc # i, NEW p, DiscSo(i, p, q)
  PROVE  DiscSo(i, p, Tail(q))
<1>1. ASSUME NEW a \in Nat, NEW z \in Nat, Path(q, i, p.call, a, z)
      PROVE  Path(Tail(q), i, p.call, a, z)
  <2>1. PICK y \in Nat : Leg(q[1], i, p.call, a, y) /\ Path(Tail(q), i, p.call, y, z)
    BY <1>1, PathTail
  <2>2. y = a BY <2>1 DEF Leg
  <2> QED BY <2>1, <2>2
<1> QED BY <1>1, DiscPaths

\* and others may come, behind
LEMMA DiscBack ==
  ASSUME NEW t, IsSeq(t), NEW s, IsSeq(s), NEW i, NoneOf(s, i), NEW p, DiscSo(i, p, t),
         NEW u, u = t \o s
  PROVE  DiscSo(i, p, u)
<1>1. ASSUME NEW a \in Nat, NEW z \in Nat, Path(t, i, p.call, a, z) PROVE Path(u, i, p.call, a, z)
  <2>1. Path(s, i, p.call, z, z) BY PathNone
  <2> QED BY <1>1, <2>1, PathCat
<1> QED BY <1>1, DiscPaths

\* or in front.
LEMMA DiscFront ==
  ASSUME NEW t, IsSeq(t), NEW s, IsSeq(s), NEW i, NoneOf(s, i), NEW p, DiscSo(i, p, t),
         NEW u, u = s \o t
  PROVE  DiscSo(i, p, u)
<1>1. ASSUME NEW a \in Nat, NEW z \in Nat, Path(t, i, p.call, a, z) PROVE Path(u, i, p.call, a, z)
  <2>1. Path(s, i, p.call, a, a) BY PathNone
  <2> QED BY <1>1, <2>1, PathCat
<1> QED BY <1>1, DiscPaths

\* A discovery that differs in nothing that matters to it, unless it is now
\* known to have failed.
LEMMA FaultSo ==
  ASSUME NEW i, NEW p, NEW q, DiscSo(i, p, q), NEW u, u.call = p.call, u.list = p.list,
         u.err = p.err, u.ends = p.ends, u.fault = p.fault \/ u.fault = TRUE
  PROVE  DiscSo(i, u, q)
<1> SUFFICES ASSUME p.call.kind \in Discoveries PROVE DiscSo(i, u, q) BY DEF DiscSo
<1>1. p.err = "OK" => ListSo(i, u, q) BY DEF DiscSo, ListSo
<1>2. p.ends # <<>> => EndSo(u)
  <2> SUFFICES ASSUME p.ends # <<>> PROVE EndSo(u) OBVIOUS
  <2>1. EndSo(p) BY DEF DiscSo
  <2> QED BY <2>1 DEF EndSo
<1>3. p.err # "OK" => u.fault = TRUE /\ p.call.kind = "included" BY DEF DiscSo
<1> QED BY <1>1, <1>2, <1>3 DEF DiscSo

\* A procedure that is known to have failed.
LEMMA NewFault ==
  ASSUME NEW q, IsProc(q), NEW u, u = [q EXCEPT !.fault = TRUE]
  PROVE  /\ u.call = q.call /\ u.list = q.list /\ u.err = q.err /\ u.ends = q.ends
         /\ u.fault = TRUE
BY DEF IsProc, ProcFields

\* A callback with an error that is not the end of a discovery.
LEMMA FailBroken ==
  ASSUME NEW p, IsProc(p), p.call.kind \in Discoveries, p.ends = <<>>,
         NEW c, p.call.kind = "primary" => c.cb \in {"primary_by_uuid_cb", "primary_all_cb"},
         p.call.kind = "included" => c.cb \in IncludedCbs,
         p.call.kind = "chars" => c.cb = "char_discovered_cb",
         p.call.kind # "included" =>
           p.err = "OK" /\ \E a \in 0..Extent(p.call) : p.list = Collected(p.call, a),
         NEW st, st \notin {"OK", "NOT_FOUND"}, NEW r, r = Error(st),
         NEW o, o = Callback(c, p, r), NEW u, u = [o.p EXCEPT !.fault = TRUE], IsProc(o.p)
  PROVE  Broken(u)
<1>1. r.status = st BY DEF Error
<1>2. /\ u.call = o.p.call /\ u.list = o.p.list /\ u.err = o.p.err /\ u.ends = o.p.ends
      /\ u.fault = TRUE
  BY NewFault
<1>3. ASSUME NEW status, p.call.kind # "included", Done(p, o, status, p.list),
             p.call.kind = "primary" => status # "OK"
      PROVE  Broken(u)
  <2>1. PICK a \in 0..Extent(p.call) : p.list = Collected(p.call, a) /\ p.err = "OK" BY <1>3
  <2> QED BY <1>2, <1>3, <2>1 DEF Done, Broken
<1>4. CASE p.call.kind = "primary"
  <2> DEFINE s == discovery_err(st)
             l == p.list
  <2>1. s # "OK" BY DEF discovery_err
  <2>2. o = primary_cb(p, r) BY <1>4 DEF Callback
  <2>3. o = Ended(p, s, l) BY <1>1, <2>2 DEF primary_cb
  <2> HIDE DEF s, l
  <2>4. Done(p, o, s, l) BY <2>3, EndedDone
  <2> QED BY <1>3, <1>4, <2>1, <2>4 DEF l
<1>5. CASE p.call.kind = "chars"
  <2> DEFINE s == IF p.list # <<>> THEN "OK" ELSE st
             l == p.list
  <2>1. o = char_discovered_cb(p, r) BY <1>5 DEF Callback
  <2>2. o = discover_char_ended(p, st) BY <1>1, <2>1 DEF char_discovered_cb
  <2>3. o = Ended(p, s, l) BY <2>2 DEF discover_char_ended
  <2> HIDE DEF s, l
  <2>4. Done(p, o, s, l) BY <2>3, EndedDone
  <2> QED BY <1>3, <1>5, <2>4 DEF l
<1>6. CASE p.call.kind = "included"
  <2> DEFINE q == isd_err(p, st)
             v == isd_unref(q)
  <2>1. discovery_err(st) = st BY DEF discovery_err
  <2>2. o.p = v
    <3>1. CASE c.cb = "find_included_cb"
      <4>1. o = find_included_cb(p, r) BY <3>1 DEF Callback
      <4>2. o = Quiet(isd_unref(isd_err(p, discovery_err(r.status))))
        BY <1>1, <4>1 DEF find_included_cb
      <4>3. o.p = isd_unref(isd_err(p, discovery_err(r.status))) BY <4>2 DEF Quiet, Sends
      <4> QED BY <1>1, <2>1, <4>3
    <3>2. CASE c.cb = "resolve_included_uuid_cb"
      <4>1. o = resolve_included_uuid_cb(p, c.req, r) BY <3>2 DEF Callback
      <4> QED BY <1>1, <4>1 DEF resolve_included_uuid_cb, Quiet, Sends
    <3> QED BY <1>6, <3>1, <3>2 DEF IncludedCbs
  <2>3. IsProc(q) /\ q.call = p.call /\ q.ends = <<>>
        /\ q.err = IF p.err = "OK" THEN st ELSE p.err
    BY NewErr
  <2>4. q.err # "OK" /\ v = isd_unref(q) BY <2>3
  <2> HIDE DEF q, v
  <2>5. v.call = q.call /\ v.err = q.err
        /\ (v.ends # <<>> =>
              v.ends[1].status = q.err /\ v.ends[1].list = IF q.err = "OK" THEN q.list ELSE <<>>)
    BY <2>3, <2>4, UnrefKeeps
  <2> QED BY <1>2, <1>6, <2>2, <2>3, <2>4, <2>5 DEF Broken
<1> QED BY <1>4, <1>5, <1>6 DEF Discoveries

\* A failure of the first command of the queue.
LEMMA HeadFails ==
  ASSUME NEW ps, NEW q, QueueOk(ps, q), q # <<>>, NEW c, c = q[1], NEW i, i = c.proc,
         NEW p, p = ps[i], p.call.kind \in Discoveries, DiscSo(i, p, q),
         NEW st, st \notin {"OK", "NOT_FOUND"}, NEW r, r = Error(st),
         NEW u, u = [Callback(c, p, r).p EXCEPT !.fault = TRUE]
  PROVE  Broken(u)
<1> DEFINE kind == p.call.kind
           o == Callback(c, p, r)
           k == 1
<1>1. IsSeq(q) BY DEF QueueOk
<1>2. k \in DOMAIN q /\ q[k] = c BY <1>1, TailSeq, SeqLen
<1> HIDE DEF k
<1>3. i \in DOMAIN ps /\ CmdOk(c, kind) /\ IsProc(p) BY <1>2 DEF QueueOk
<1>4. p.ends = <<>>
  <2>1. kind # "write_cmd" BY DEF Discoveries
  <2> QED BY <1>2, <2>1, NotEnded
<1>5. r.status = st BY DEF Error
<1>6. RspOk(c, r) BY <1>5 DEF RspOk
<1>7. kind = "included" => c.cb \in IncludedCbs BY <1>3 DEF CmdOk
<1>8. u = [o.p EXCEPT !.fault = TRUE] /\ o = Callback(c, p, r) OBVIOUS
<1> HIDE DEF kind, o
<1>9. IsProc(o.p)
  <2>1. CmdOk(c, p.call.kind) BY <1>3 DEF kind
  <2>2. Goes(p, Callback(c, p, r)) BY <1>3, <1>6, <2>1, CallbackGoes
  <2> QED BY <1>8, <2>2 DEF Goes
<1>10. ASSUME kind # "included"
       PROVE  /\ p.err = "OK" /\ \E a \in 0..Extent(p.call) : p.list = Collected(p.call, a)
              /\ kind = "primary" => c.cb \in {"primary_by_uuid_cb", "primary_all_cb"}
              /\ kind = "chars" => c.cb = "char_discovered_cb"
  <2>1. p.err = "OK" BY <1>10 DEF DiscSo, kind
  <2>2. PICK a \in Nat, y \in Nat : p.list = Collected(p.call, a) /\ Leads(c, p.call, a, y)
    BY <2>1, HeadLeads
  <2>3. Walks(c, p.call, a) BY <1>10, <2>2 DEF Leads, Resolves, kind
  <2>4. a \in 0..Extent(p.call) BY <2>3 DEF Walks
  <2>5. /\ kind = "primary" => c.cb \in {"primary_by_uuid_cb", "primary_all_cb"}
        /\ kind = "chars" => c.cb = "char_discovered_cb"
    BY <2>3, WalksCases DEF kind
  <2> QED BY <2>1, <2>2, <2>4, <2>5
<1>11. /\ kind = "primary" => c.cb \in {"primary_by_uuid_cb", "primary_all_cb"}
       /\ kind = "chars" => c.cb = "char_discovered_cb"
       /\ kind # "included" =>
            p.err = "OK" /\ \E a \in 0..Extent(p.call) : p.list = Collected(p.call, a)
  BY <1>10
<1> QED BY <1>3, <1>4, <1>7, <1>8, <1>9, <1>11, FailBroken DEF kind
-----------------------------------------------------------------------------
(***************************************************************************)
(* The steps.                                                              *)
(***************************************************************************)
AllDisc(ps, q) == \A i \in DOMAIN ps : DiscSo(i, ps[i], q)

\* The callback of a command that fails.
LEMMA FailedDisc ==
  ASSUME NEW ps, NEW q, QueueOk(ps, q), AllDisc(ps, q), q # <<>>,
         NEW st, st \notin {"OK", "NOT_FOUND"}
  PROVE  AllDisc(Failed(ps, q[1], st), Tail(q))
<1> DEFINE c == q[1]
           i == c.proc
           p == ps[i]
           r == Error(st)
           o == Callback(c, p, r)
           u == [o.p EXCEPT !.fault = TRUE]
           k == 1
           new == Failed(ps, c, st)
<1>1. IsSeq(q) BY DEF QueueOk
<1>2. k \in DOMAIN q /\ q[k] = c BY <1>1, TailSeq, SeqLen
<1> HIDE DEF k
<1>3. i \in DOMAIN ps /\ CmdOk(c, p.call.kind) /\ IsProc(p) BY <1>2 DEF QueueOk
<1>4. new = [ps EXCEPT ![i] = u] BY <1>3 DEF Failed
<1>5. r.status = st BY DEF Error
<1>6. u = [o.p EXCEPT !.fault = TRUE] /\ o = Callback(c, p, r) OBVIOUS
<1> HIDE DEF u, o
<1>7. DOMAIN new = DOMAIN ps /\ new[i] = u /\ \A j \in DOMAIN ps : j # i => new[j] = ps[j]
  <2> HIDE DEF new, i
  <2>1. i \in DOMAIN ps BY <1>3
  <2>2. new = [ps EXCEPT ![i] = u] BY <1>4
  <2> QED BY <2>1, <2>2
<1> HIDE DEF new
<1>8. DiscSo(i, u, Tail(q))
  <2>1. CASE p.call.kind \in Discoveries
    <3>1. DiscSo(i, p, q) BY <1>3 DEF AllDisc
    <3>2. c = q[1] /\ i = c.proc /\ p = ps[i] /\ r = Error(st) OBVIOUS
    <3> HIDE DEF c, i, p, r
    <3>3. u = [Callback(c, p, r).p EXCEPT !.fault = TRUE] BY <1>6
    <3>4. Broken(u) BY <2>1, <3>1, <3>2, <3>3, HeadFails
    <3> QED BY <3>4, BrokenSo
  <2>2. CASE p.call.kind \notin Discoveries
    <3>1. RspOk(c, r) BY <1>5 DEF RspOk
    <3> HIDE DEF c, p, r
    <3>2. Goes(p, Callback(c, p, r)) BY <1>3, <3>1, CallbackGoes
    <3>3. IsProc(o.p) /\ o.p.call = p.call BY <1>6, <3>2 DEF Goes
    <3>4. u.call = p.call BY <1>6, <3>3, NewFault
    <3> QED BY <2>2, <3>4 DEF DiscSo
  <2> QED BY <2>1, <2>2
<1>9. ASSUME NEW j \in DOMAIN ps, j # i PROVE DiscSo(j, ps[j], Tail(q))
  <2>1. DiscSo(j, ps[j], q) BY DEF AllDisc
  <2>2. q[1].proc # j BY <1>9
  <2> QED BY <1>1, <2>1, <2>2, DiscTail
<1>10. ASSUME NEW j \in DOMAIN new PROVE DiscSo(j, new[j], Tail(q))
  <2>1. CASE j = i BY <1>7, <1>8, <2>1
  <2>2. CASE j # i BY <1>7, <1>9, <2>2
  <2> QED BY <2>1, <2>2
<1> QED BY <1>10 DEF AllDisc, new, c

\* All of the commands that are left.
LEMMA AllFailedDisc ==
  ASSUME NEW ps, NEW q, QueueOk(ps, q), AllDisc(ps, q)
  PROVE  AllDisc(AllFailed(ps, q)[Len(q)], <<>>)
<1> DEFINE g == AllFailed(ps, q)
           n == Len(q)
           none == <<>>
<1>1. IsSeq(q) /\ n \in Nat BY SeqLen DEF QueueOk
<1>2. IsAfter(g, n, ps, q) BY <1>1, AllFailedRun
<1> HIDE DEF g
<1>3. \A k \in 0..n : g[k] = IF k = 0 THEN ps ELSE Failed(g[k - 1], q[k], FailStatus(k))
  <2> DEFINE f == [k \in 0..n |-> IF k = 0 THEN ps ELSE Failed(g[k - 1], q[k], FailStatus(k))]
  <2>1. g = f BY <1>2 DEF IsAfter
  <2>2. \A k \in 0..n : f[k] = IF k = 0 THEN ps ELSE Failed(g[k - 1], q[k], FailStatus(k)) OBVIOUS
  <2> HIDE DEF f
  <2> QED BY <2>1, <2>2
<1> DEFINE T == {k \in 0..n : QueueOk(g[k], Rest(q, k)) /\ AllDisc(g[k], Rest(q, k))}
           zero == 0
<1>4. zero \in T
  <2>1. Rest(q, zero) = q BY <1>1, FirstEnds
  <2>2. g[zero] = ps BY <1>1, <1>3
  <2>3. zero \in 0..n BY <1>1
  <2> HIDE DEF zero
  <2> QED BY <2>1, <2>2, <2>3
<1>5. ASSUME NEW m \in 1..n, m - 1 \in T PROVE m \in T
  <2> DEFINE k == m - 1
             u == Rest(q, k)
             status == FailStatus(m)
             before == g[k]
             after == g[m]
  <2>1. k \in Nat /\ k < n /\ k + 1 = m /\ m \in 0..n /\ m # 0 BY <1>1
  <2>2. QueueOk(before, u) /\ AllDisc(before, u) BY <1>5
  <2>3. after = Failed(before, q[m], status) BY <1>3, <2>1
  <2> HIDE DEF k
  <2>4. u # <<>> /\ u[1] = q[m] /\ Tail(u) = Rest(q, m) BY <1>1, <2>1, RestTail
  <2>5. status \notin {"OK", "NOT_FOUND"} BY DEF FailStatus
  <2> HIDE DEF u, status, before, after
  <2>6. QueueOk(Failed(before, u[1], status), Tail(u)) BY <2>2, <2>4, <2>5, FailedStep
  <2>7. AllDisc(Failed(before, u[1], status), Tail(u)) BY <2>2, <2>4, <2>5, FailedDisc
  <2>8. QueueOk(after, Rest(q, m)) /\ AllDisc(after, Rest(q, m)) BY <2>3, <2>4, <2>6, <2>7
  <2> QED BY <2>1, <2>8 DEF after
<1> HIDE DEF T
<1>6. \A k \in 0..n : k \in T
  <2> HIDE DEF n
  <2>1. 0 \in T BY <1>4
  <2> QED BY <1>1, <1>5, <2>1, UpTo
<1>7. AllDisc(g[n], Rest(q, n))
  <2>1. n \in T BY <1>1, <1>6
  <2> QED BY <2>1 DEF T
<1>8. Rest(q, n) = none BY <1>1, FirstEnds
<1> QED BY <1>7, <1>8 DEF g

\* A procedure that has called its user has no command left.
LEMMA EndedNone ==
  ASSUME NEW ps, NEW q, QueueOk(ps, q), NEW i, ps[i].ends # <<>>, ps[i].call.kind # "write_cmd"
  PROVE  NoneOf(q, i)
<1> SUFFICES ASSUME NEW k \in 1..Len(q), q[k].proc = i PROVE FALSE BY DEF NoneOf
<1>1. IsSeq(q) BY DEF QueueOk
<1>2. k \in DOMAIN q BY <1>1, SeqLen
<1>3. ps[q[k].proc].call.kind # "write_cmd" OBVIOUS
<1>4. ps[q[k].proc].ends = <<>> BY <1>2, <1>3, NotEnded
<1> QED BY <1>4

\* A response that is read.
LEMMA ReceivedDisc ==
  ASSUME NEW ps, NEW q, QueueOk(ps, q), AllDisc(ps, q), q # <<>>, NEW c, c = q[1],
         NEW i, i = c.proc, NEW p, p = ps[i],
         RangeOk(p.call), NEW r, RspOk(c, r),
         p.call.kind \in Discoveries /\ p.err = "OK" => Answered(p, c.req, r),
         NEW o, o = Callback(c, p, r), NEW s, s = Commands(i, o), NEW t, t = Tail(q),
         NEW q2, q2 = IF o.first THEN s \o t ELSE t \o s,
         NEW ps2, ps2 = [ps EXCEPT ![i] = o.p], QueueOk(ps2, q2)
  PROVE  AllDisc(ps2, q2)
<1> DEFINE kind == p.call.kind
           k == 1
<1>1. IsSeq(q) BY DEF QueueOk
<1>2. k \in DOMAIN q /\ q[k] = c BY <1>1, TailSeq, SeqLen
<1> HIDE DEF k
<1>3. i \in DOMAIN ps /\ CmdOk(c, kind) /\ IsProc(p) BY <1>2 DEF QueueOk
<1>4. Goes(p, o)
  <2>1. CmdOk(c, p.call.kind) BY <1>3 DEF kind
  <2> QED BY <1>3, <2>1, CallbackGoes
<1>5. IsSeq(o.reqs) /\ o.p.call = p.call BY <1>4 DEF Goes, ReqsOk
<1>6. IsSeq(s) /\ \A n \in 1..Len(s) : s[n].proc = i
  <2>1. IsSeq(o.reqs) BY <1>5
  <2>2. ASSUME NEW j, NEW u, IsSeq(u.reqs), NEW w, w = Commands(j, u)
        PROVE  IsSeq(w) /\ \A n \in 1..Len(w) : w[n].proc = j
    BY ONLY <2>2, CommandsAre
  <2>3. s = Commands(i, o) OBVIOUS
  <2> QED BY ONLY <2>1, <2>2, <2>3
<1>7. IsSeq(t) BY <1>1, TailSeq
<1>8. DOMAIN ps2 = DOMAIN ps /\ ps2[i] = o.p /\ \A j \in DOMAIN ps : j # i => ps2[j] = ps[j]
  BY <1>3
<1>9. ASSUME NEW j \in DOMAIN ps, j # i PROVE DiscSo(j, ps[j], q2)
  <2> DEFINE w == ps[j]
  <2>1. DiscSo(j, w, q) BY DEF AllDisc
  <2>2. q[1].proc # j BY <1>9
  <2> HIDE DEF w
  <2>3. DiscSo(j, w, t) BY <1>1, <2>1, <2>2, DiscTail
  <2>4. NoneOf(s, j) BY <1>6, <1>9 DEF NoneOf
  <2>5. CASE o.first BY <1>6, <1>7, <2>3, <2>4, <2>5, DiscFront DEF w
  <2>6. CASE ~ o.first BY <1>6, <1>7, <2>3, <2>4, <2>6, DiscBack DEF w
  <2> QED BY <2>5, <2>6
<1>10. o.p.ends # <<>> /\ kind \in Discoveries => NoneOf(q2, i)
  <2> SUFFICES ASSUME o.p.ends # <<>>, kind \in Discoveries PROVE NoneOf(q2, i) OBVIOUS
  <2>1. ps2[i].ends # <<>> BY <1>8
  <2>2. ps2[i].call.kind # "write_cmd" BY <1>5, <1>8 DEF kind, Discoveries
  <2>3. QueueOk(ps2, q2) OBVIOUS
  <2>4. ASSUME NEW a, NEW b, NEW j, QueueOk(a, b), a[j].ends # <<>>, a[j].call.kind # "write_cmd"
        PROVE  NoneOf(b, j)
    BY ONLY <2>4, EndedNone
  <2> QED BY <2>1, <2>2, <2>3, <2>4, Zenon
<1>11. DiscSo(i, o.p, q2)
  <2>1. CASE kind \notin Discoveries BY <1>5, <2>1 DEF DiscSo, kind
  <2>2. CASE kind \in Discoveries /\ p.err # "OK"
    <3>1. DiscSo(i, p, q) BY <1>3 DEF AllDisc
    <3>2. p.fault = TRUE /\ kind = "included" BY <2>2, <3>1 DEF DiscSo, kind
    <3>3. p.ends = <<>>
      <4>1. ps[q[k].proc].call.kind # "write_cmd" BY <1>2, <3>2 DEF kind
      <4> QED BY <1>2, <4>1, NotEnded
    <3>4. c.cb \in IncludedCbs BY <1>3, <3>2 DEF CmdOk
    <3>5. Broken(o.p) BY <1>3, <2>2, <3>2, <3>3, <3>4, BrokenStays DEF kind
    <3> QED BY <3>5, BrokenSo
  <2>3. CASE kind \in Discoveries /\ p.err = "OK"
    <3>1. DiscSo(i, p, q) BY <1>3 DEF AllDisc
    <3>2. p.ends = <<>> BY <2>3, <3>1, HeadLeads DEF kind
    <3>3. PICK a \in Nat, y \in Nat, z \in Nat :
            /\ p.list = Collected(p.call, a) /\ Leads(c, p.call, a, y)
            /\ z >= Extent(p.call) /\ Path(t, i, p.call, y, z)
      BY <2>3, <3>1, HeadLeads DEF kind
    <3>4. Outcome(p, i, o, y) BY <1>3, <2>3, <3>2, <3>3, GivenOutcome DEF kind
    <3>5. CASE Broken(o.p) BY <3>5, BrokenSo
    <3>6. CASE Moves(p, i, o, y)
      <4>1. q2 = t \o s BY <3>4 DEF Outcome
      <4>2. o.p.ends # <<>> => NoneOf(q2, i) BY <1>10, <2>3
      <4>3. ASSUME NEW u, u.call.kind \in Discoveries, NEW k0, NEW f, IsSeq(f),
                   NEW y0 \in Nat, NEW z0 \in Nat, z0 >= Extent(u.call),
                   Path(f, k0, u.call, y0, z0), NEW v, Moves(u, k0, v, y0),
                   NEW w, w = Commands(k0, v), NEW g, g = f \o w,
                   v.p.ends # <<>> => NoneOf(g, k0)
            PROVE  DiscSo(k0, v.p, g)
        BY ONLY <4>3, MovesSo
      <4>4. p.call.kind \in Discoveries BY <2>3 DEF kind
      <4>5. z >= Extent(p.call) /\ Path(t, i, p.call, y, z) BY <3>3
      <4> QED BY <1>7, <3>6, <4>1, <4>2, <4>3, <4>4, <4>5, ZenonT(30)
    <3> QED BY <3>4, <3>5, <3>6 DEF Outcome
  <2> QED BY <2>1, <2>2, <2>3
<1>12. ASSUME NEW j \in DOMAIN ps2 PROVE DiscSo(j, ps2[j], q2)
  <2>1. CASE j = i BY <1>8, <1>11, <2>1
  <2>2. CASE j # i BY <1>8, <1>9, <2>2
  <2> QED BY <2>1, <2>2
<1> QED BY <1>12 DEF AllDisc

\* A call that starts a procedure.
LEMMA AddDisc ==
  ASSUME NEW ps, NEW q, QueueOk(ps, q), AllDisc(ps, q), NEW i, i = Len(ps) + 1,
         NEW o, IsSeq(o.reqs), NEW s, s = Commands(i, o), NEW q2, q2 = q \o s,
         NEW ps2, ps2 = Append(ps, o.p),
         DiscSo(i, o.p, s)
  PROVE  AllDisc(ps2, q2)
<1>1. IsSeq(ps) /\ IsSeq(q) /\ Len(ps) \in Nat /\ DOMAIN ps = 1..Len(ps) /\ DOMAIN q = 1..Len(q)
  BY SeqLen DEF QueueOk
<1>2. /\ DOMAIN ps2 = 1..i /\ ps2[i] = o.p
      /\ \A j \in DOMAIN ps : ps2[j] = ps[j]
  BY <1>1, AppendSeq
<1>3. IsSeq(s) /\ \A n \in 1..Len(s) : s[n].proc = i BY CommandsAre
<1>4. i \notin DOMAIN ps /\ DOMAIN ps2 = DOMAIN ps \cup {i} BY <1>1, <1>2
<1>5. NoneOf(q, i) BY <1>1, <1>4 DEF NoneOf, QueueOk
<1>6. DiscSo(i, o.p, q2)
  <2> DEFINE w == o.p
  <2>1. DiscSo(i, w, s) OBVIOUS
  <2> HIDE DEF w
  <2>2. DiscSo(i, w, q2) BY <1>1, <1>3, <1>5, <2>1, DiscFront
  <2> QED BY <2>2 DEF w
<1>7. ASSUME NEW j \in DOMAIN ps PROVE DiscSo(j, ps[j], q2)
  <2> DEFINE w == ps[j]
  <2>1. DiscSo(j, w, q) BY DEF AllDisc
  <2>2. NoneOf(s, j) BY <1>3, <1>4 DEF NoneOf
  <2> HIDE DEF w
  <2>3. DiscSo(j, w, q2) BY <1>1, <1>3, <2>1, <2>2, DiscBack
  <2> QED BY <2>3 DEF w
<1>8. ASSUME NEW j \in DOMAIN ps2 PROVE DiscSo(j, ps2[j], q2)
  <2>1. CASE j = i BY <1>2, <1>6, <2>1
  <2>2. CASE j # i BY <1>2, <1>4, <1>7, <2>2
  <2> QED BY <2>1, <2>2
<1> QED BY <1>8 DEF AllDisc

\* The ranges of the calls.
LEMMA CallRange ==
  ASSUME NEW c \in Calls, c.kind \in Discoveries /\ c.kind # "primary"
  PROVE  c.start \in Nat /\ c.end \in Handle
<1>1. c.kind \in {"included", "chars"} BY DEF Discoveries
<1>2. c.kind \in {"included", "chars"} => c.start \in Handle /\ c.end \in Handle BY GattAssumption
<1>3. c.start \in Handle /\ c.end \in Handle BY <1>1, <1>2
<1>4. \A h \in Handle : h \in Nat BY DEF Handle
<1> QED BY <1>3, <1>4

\* The first request of a discovery asks for everything.
LEMMA StartWalks ==
  ASSUME NEW c \in Calls, c.kind \in Discoveries, NEW d, d.cb = WalkCb(c),
         d.req = WalkReq(c, IF c.kind = "primary" THEN 1 ELSE c.start)
  PROVE  Walks(d, c, 0)
<1> DEFINE w == Base(c)
           start == IF c.kind = "primary" THEN 1 ELSE c.start
           zero == 0
<1>1. start \in Nat BY CallRange
<1>2. Extent(c) \in Nat /\ IsSeq(w) BY BaseFacts
<1>3. Rest(w, zero) = w BY <1>2, FirstEnds
<1>4. Asked(d.req) = w
  <2>1. CASE c.kind = "primary"
    <3>1. d.req = encode_discover_primary(1, c.uuid) BY <2>1 DEF WalkReq
    <3>2. w = Found(c) BY <2>1 DEF Base
    <3> QED BY <2>1, <3>1, <3>2, FirstPrimary
  <2>2. CASE c.kind = "included"
    <3>1. d.req = FindReq(c.start, c.end) BY <2>2 DEF WalkReq
    <3>2. w = Found(c) BY <2>2 DEF Base
    <3> QED BY <2>2, <3>1, <3>2, FirstIncludes
  <2>3. CASE c.kind = "chars"
    <3>1. d.req = discover_char_req(c.start, c.end) BY <2>3 DEF WalkReq
    <3> QED BY <2>3, <3>1 DEF Base
  <2> QED BY <2>1, <2>2, <2>3 DEF Discoveries
<1>5. d.req = WalkReq(c, start) OBVIOUS
<1>6. zero \in 0..Extent(c) BY <1>2
<1>7. Asked(d.req) = Rest(Base(c), zero) BY <1>3, <1>4
<1> HIDE DEF start, zero, w
<1> QED BY <1>1, <1>5, <1>6, <1>7 DEF Walks, zero

\* What the first step of a discovery is.
LEMMA StartIs ==
  ASSUME NEW p, IsProc(p), p.call.kind \in Discoveries, NEW o, o = Start(p)
  PROVE  \E d : /\ o.reqs = <<d>> /\ d.cb = WalkCb(p.call)
                /\ d.req = WalkReq(p.call, IF p.call.kind = "primary" THEN 1 ELSE p.call.start)
                /\ o.p.call = p.call /\ o.p.list = p.list /\ o.p.err = p.err /\ o.p.ends = p.ends
<1> DEFINE call == p.call
<1>1. CASE call.kind = "primary"
  <2> DEFINE d == [cb |-> discover_primary_cb(call.uuid), req |-> encode_discover_primary(1, call.uuid)]
  <2>1. o.p = p /\ o.reqs = <<d>> BY <1>1 DEF Start, gatt_discover_primary, Asks, Sends
  <2>2. d.cb = WalkCb(call) /\ d.req = WalkReq(call, 1) BY <1>1 DEF WalkCb, WalkReq
  <2> HIDE DEF d
  <2> QED BY <1>1, <2>1, <2>2
<1>2. CASE call.kind = "included"
  <2> DEFINE q == isd_ref(p, 1)
             d == [cb |-> "find_included_cb", req |-> FindReq(call.start, call.end)]
  <2>1. q = isd_ref(p, 1) /\ 1 \in Int OBVIOUS
  <2>2. q.call = call
    <3> HIDE DEF q
    <3>1. Keeps(p, q) BY <2>1, RefKeeps
    <3> QED BY <3>1 DEF Keeps
  <2>3. o.p = q /\ o.reqs = <<d>>
    BY <1>2, <2>2 DEF Start, gatt_find_included, find_included, Asks, Sends, FindReq
  <2>4. d.cb = WalkCb(call) /\ d.req = WalkReq(call, call.start) BY <1>2 DEF WalkCb, WalkReq
  <2> HIDE DEF q, d
  <2>5. Keeps(p, q) /\ q.list = p.list BY <2>1, RefKeeps
  <2> QED BY <1>2, <2>3, <2>4, <2>5 DEF Keeps
<1>3. CASE call.kind = "chars"
  <2> DEFINE d == [cb |-> "char_discovered_cb", req |-> discover_char_req(call.start, call.end)]
  <2>1. o.p = p /\ o.reqs = <<d>> BY <1>3 DEF Start, gatt_discover_char, Asks, Sends
  <2>2. d.cb = WalkCb(call) /\ d.req = WalkReq(call, call.start) BY <1>3 DEF WalkCb, WalkReq
  <2> HIDE DEF d
  <2> QED BY <1>3, <2>1, <2>2
<1> QED BY <1>1, <1>2, <1>3 DEF Discoveries

\* A discovery begins with nothing, and its command leads through everything.
LEMMA StartDisc ==
  ASSUME NEW c \in Calls, NEW p, IsProc(p), p.call = c, p.list = <<>>, p.err = "OK", p.ends = <<>>,
         NEW o, o = Start(p), o.p.call = c, NEW i, NEW s, s = Commands(i, o)
  PROVE  DiscSo(i, o.p, s)
<1> SUFFICES ASSUME c.kind \in Discoveries PROVE DiscSo(i, o.p, s) BY DEF DiscSo
<1>1. PICK d : /\ o.reqs = <<d>> /\ d.cb = WalkCb(c)
               /\ d.req = WalkReq(c, IF c.kind = "primary" THEN 1 ELSE c.start)
               /\ o.p.list = <<>> /\ o.p.err = "OK" /\ o.p.ends = <<>>
  BY StartIs
<1> DEFINE z == Extent(c) + 1
           a == 0
<1>2. Walks(d, c, a) BY <1>1, StartWalks
<1>3. Extent(c) \in Nat /\ IsSeq(Base(c)) BY BaseFacts
<1>4. z \in Nat /\ z >= Extent(c) /\ a \in Nat /\ a \in 0..Extent(c) BY <1>3
<1>5. Collected(c, a) = <<>>
  <2>1. FirstOf(Base(c), a) = <<>> BY <1>3, FirstEnds
  <2>2. Matches(<<>>, c.uuid) = <<>> BY MatchNone
  <2> QED BY <2>1, <2>2 DEF Collected, Chosen
<1>6. IsSeq(o.reqs) /\ Len(o.reqs) = 1 /\ o.reqs[1] = d
  <2>1. Len(o.reqs) = 1 /\ o.reqs[1] = d /\ o.reqs \in Seq({d}) BY <1>1
  <2> QED BY <2>1, AnySeq
<1> DEFINE e == s[1]
<1>7. IsSeq(s) /\ Len(s) = 1 /\ e.proc = i /\ e.cb = d.cb /\ e.req = d.req
  <2>1. IsSeq(s) /\ Len(s) = 1 BY <1>6, CommandsAre
  <2>2. 1 \in 1..Len(s) BY <2>1
  <2>3. s[1].proc = i /\ s[1].cb = o.reqs[1].cb /\ s[1].req = o.reqs[1].req BY <1>6, <2>2, CommandsAre
  <2> QED BY <1>6, <2>1, <2>3
<1>8. s[1] = e OBVIOUS
<1> HIDE DEF e, a
<1>9. Walks(e, c, a) BY <1>2, <1>7, WalksSame
<1>10. Leads(e, c, a, z) BY <1>9 DEF Leads
<1> HIDE DEF z
<1>11. Path(s, i, c, a, z) BY <1>4, <1>7, <1>8, <1>10, PathOne
<1>12. ListSo(i, o.p, s) BY <1>1, <1>4, <1>5, <1>11 DEF ListSo
<1> QED BY <1>1, <1>12 DEF DiscSo

\* The response that waits is one to the head of the queue.
HeadGiven ==
  LET c == queue[1]
      p == procs[c.proc]
  IN  p.call.kind \in Discoveries /\ p.err = "OK" => Answered(p, c.req, rsp)

XInv == AllDisc(procs, queue) /\ (rsp # NoRsp => HeadGiven)

\* What the first command of a discovery that has not failed asks for.
LEMMA HeadAsks ==
  ASSUME QueueOk(procs, queue), AllDisc(procs, queue), queue # <<>>, NEW c, c = queue[1],
         NEW p, p = procs[c.proc], p.call.kind \in Discoveries, p.err = "OK"
  PROVE  /\ c.req.op \in {"READ_BY_GROUP_REQ", "FIND_BY_TYPE_REQ", "READ_BY_TYPE_REQ", "READ_REQ"}
         /\ \A r \in Answers(c.req) : Given(c.req, r)
<1> DEFINE i == c.proc
           call == p.call
           req == c.req
           w == Asked(req)
           h == [j \in DOMAIN w |-> Hidden(w[j])]
<1>1. i \in DOMAIN procs BY HeadOk
<1>2. DiscSo(i, p, queue) BY <1>1 DEF AllDisc
<1>3. PICK a \in Nat, y \in Nat : Leads(c, call, a, y)
  <2> DEFINE ps == procs
             q == queue
  <2>1. QueueOk(ps, q) /\ q # <<>> /\ c = q[1] /\ i = c.proc /\ p = ps[i] OBVIOUS
  <2>2. DiscSo(i, p, q) BY <1>2
  <2> HIDE DEF ps, q, i
  <2> QED BY <2>1, <2>2, HeadLeads
<1>4. CASE Walks(c, call, a)
  <2>1. IsSeq(Base(call)) /\ a \in 0..Len(Base(call)) BY <1>4, BaseFacts DEF Walks, Extent
  <2>2. w = Rest(Base(call), a) BY <1>4 DEF Walks
  <2> HIDE DEF w
  <2>3. IsSeq(w) BY <2>1, <2>2, FirstRest
  <2>4. IsSeq(h)
    <3> DEFINE m == Len(w)
    <3>1. m \in Nat /\ DOMAIN w = 1..m BY <2>3, SeqLen
    <3>2. h = [j \in 1..m |-> Hidden(w[j])] BY <3>1
    <3> HIDE DEF m
    <3>3. h = [j \in 1..m |-> h[j]] BY <3>2
    <3> QED BY <3>1, <3>3, FcnSeq
  <2> HIDE DEF h
  <2>5. ASSUME NEW header, NEW size, NEW r PROVE /\ r \in Pages(w, header, size) => PageOf(w, r)
                                                 /\ r \in Pages(h, header, size) => PageOf(h, r)
    BY <2>3, <2>4, PageOk
  <2>6. CASE call.kind = "primary"
    <3>1. req.op \in {"READ_BY_GROUP_REQ", "FIND_BY_TYPE_REQ"} BY <1>4, <2>6, WalksCases
    <3> HIDE DEF req
    <3>2. ASSUME NEW r \in Answers(req) PROVE PageOf(w, r)
      <4>1. CASE req.op = "READ_BY_GROUP_REQ"
        <5>1. Answers(req) = Pages(w, 2, ServiceSize) BY <4>1 DEF Answers, w
        <5> QED BY <2>5, <3>2, <5>1
      <4>2. CASE req.op = "FIND_BY_TYPE_REQ"
        <5>1. Answers(req) = Pages(w, 1, RangeSize) BY <4>2 DEF Answers, w
        <5> QED BY <2>5, <3>2, <5>1
      <4> QED BY <3>1, <4>1, <4>2
    <3>3. ASSUME NEW r \in Answers(req) PROVE Given(req, r) BY <3>1, <3>2, <3>3 DEF Given, w
    <3> QED BY <3>1, <3>3 DEF req
  <2>7. CASE call.kind = "included"
    <3>1. req.op = "READ_BY_TYPE_REQ" /\ req.type = "INCLUDE" BY <1>4, <2>7, WalksCases
    <3> HIDE DEF req
    <3>2. Answers(req) = Pages(h, 2, IncludeSize) BY <3>1 DEF Answers, h, w
    <3>3. ASSUME NEW r \in Answers(req) PROVE Given(req, r)
      <4>1. PageOf(h, r) BY <2>5, <3>2, <3>3
      <4> QED BY <3>1, <4>1 DEF Given, h, w
    <3> QED BY <3>1, <3>3 DEF req
  <2>8. CASE call.kind = "chars"
    <3>1. req.op = "READ_BY_TYPE_REQ" /\ req.type = "CHARAC" BY <1>4, <2>8, WalksCases
    <3> HIDE DEF req
    <3>2. Answers(req) = Pages(w, 2, CharacSize) BY <3>1 DEF Answers, w
    <3>3. ASSUME NEW r \in Answers(req) PROVE Given(req, r)
      <4>1. PageOf(w, r) BY <2>5, <3>2, <3>3
      <4> QED BY <3>1, <4>1 DEF Given, w
    <3> QED BY <3>1, <3>3 DEF req
  <2> QED BY <2>6, <2>7, <2>8 DEF Discoveries
<1>5. CASE Resolves(c, call, y)
  <2>1. call.kind = "included" /\ y \in 1..Extent(call) /\ req.op = "READ_REQ"
        /\ req.handle = Base(call)[y].start
    BY <1>5 DEF Resolves
  <2>2. PICK K \in DOMAIN Includes : Base(call)[y] = Includes[K] BY <2>1, BaseIncludes
  <2>3. Includes[K] \in Declared(req.handle) BY <2>1, <2>2 DEF Declared, ToSet
  <2> HIDE DEF req
  <2>4. Declared(req.handle) # {} BY <2>3
  <2>5. Answers(req) = {Ok(incl.uuid) : incl \in Declared(req.handle)} BY <2>1, <2>4 DEF Answers
  <2>6. \A r \in Answers(req) : Given(req, r) BY <2>1, <2>5 DEF Given
  <2> QED BY <2>1, <2>6 DEF req
<1> QED BY <1>3, <1>4, <1>5 DEF Leads

\* Only reads are touched.
LEMMA TouchDisc ==
  ASSUME NEW q, \A i \in DOMAIN procs : IsProc(procs[i]), AllDisc(procs, q), NEW new
  PROVE  AllDisc(Touch(new), q)
<1> DEFINE ps2 == Touch(new)
<1>1. DOMAIN ps2 = DOMAIN procs BY DEF Touch
<1>2. ASSUME NEW i \in DOMAIN procs PROVE DiscSo(i, ps2[i], q)
  <2> DEFINE p == procs[i]
             u == ps2[i]
  <2>1. DiscSo(i, p, q) /\ IsProc(p) BY DEF AllDisc
  <2>2. u = p \/ (p.call.kind = "read" /\ u = [p EXCEPT !.touched = TRUE]) BY DEF Touch
  <2> HIDE DEF p, u
  <2>3. CASE p.call.kind = "read" /\ u = [p EXCEPT !.touched = TRUE]
    <3>1. u.call = p.call BY <2>1, <2>3 DEF IsProc, ProcFields
    <3> QED BY <2>3, <3>1 DEF DiscSo, Discoveries, u
  <2> QED BY <2>1, <2>2, <2>3 DEF u
<1> HIDE DEF ps2
<1>3. AllDisc(ps2, q) BY <1>1, <1>2 DEF AllDisc
<1> QED BY <1>3 DEF ps2

\* Calls.
LEMMA CallX == ASSUME GInv, GInv', XInv, NEW c \in Calls, Call(c) PROVE XInv'
<1> DEFINE p == NewProc(c)
           o == Start(p)
           i == Len(procs) + 1
           s == Commands(i, o)
           ps2 == procs'
           q2 == queue'
           ps == procs
           q == queue
<1>1. QueueOk(ps, q) /\ AllDisc(ps, q) BY DEF GInv, XInv
<1>2. IsProc(p) /\ p.refs = 0 /\ p.ends = <<>> /\ p.call = c /\ p.list = <<>> /\ p.err = "OK"
  <2>1. p = [f \in ProcFields |-> p[f]] BY DEF NewProc, ProcFields
  <2>2. p.refs = 0 /\ p.ends = <<>> /\ p.call = c /\ p.list = <<>> /\ p.err = "OK" BY DEF NewProc
  <2>3. IsSeq(<<>>) BY ReqsNone DEF ReqsOk
  <2>4. c.kind \in Kinds BY GattAssumption
  <2> HIDE DEF p
  <2> QED BY <2>1, <2>2, <2>3, <2>4 DEF IsProc
<1>3. ps2 = Append(ps, o.p) /\ q2 = q \o s /\ rsp' = rsp BY DEF Call
<1>4. o = Start(p) /\ s = Commands(i, o) /\ i = Len(ps) + 1 OBVIOUS
<1> HIDE DEF p, o, s, i, ps2, q2, ps, q
<1>5. Starts(p, o) BY <1>2, <1>4, StartStarts
<1>6. IsSeq(o.reqs) /\ o.p.call = c BY <1>2, <1>5 DEF Starts, ReqsOk
<1>7. DiscSo(i, o.p, s) BY <1>2, <1>4, <1>6, StartDisc
<1>8. AllDisc(ps2, q2) BY <1>1, <1>3, <1>4, <1>6, <1>7, AddDisc
<1>9. ASSUME rsp' # NoRsp PROVE HeadGiven'
  <2>1. q # <<>> /\ HeadGiven BY <1>3, <1>9 DEF GInv, XInv, q
  <2>2. q2[1] = q[1]
    <3>1. q2 = q \o Commands(i, o) BY <1>3, <1>4
    <3> QED BY <1>1, <1>2, <1>3, <1>4, <1>5, <2>1, <3>1, AddStep
  <2> DEFINE d == q[1]
  <2>3. d.proc \in DOMAIN ps /\ ps2[d.proc] = ps[d.proc]
    <3>1. d.proc \in DOMAIN ps BY <1>1, <2>1, HeadOk DEF ps, q
    <3>2. IsSeq(ps) BY <1>1 DEF QueueOk
    <3> QED BY <1>3, <3>1, <3>2, AppendSeq
  <2>4. queue'[1] = queue[1] /\ procs'[queue'[1].proc] = procs[queue[1].proc] /\ rsp' = rsp
    BY <1>3, <2>2, <2>3 DEF ps2, q2, ps, q
  <2> QED BY <2>1, <2>4 DEF HeadGiven
<1> QED BY <1>8, <1>9 DEF XInv, ps2, q2

\* Responses.
LEMMA ReceivedX == ASSUME GInv, GInv', DInv, XInv, received_data PROVE XInv'
<1> DEFINE ps == procs
           q == queue
           ps2 == procs'
           q2 == queue'
           c == q[1]
           i == c.proc
           p == ps[i]
           r == rsp
           o == Callback(c, p, r)
           s == Commands(i, o)
           t == Tail(q)
<1>1. QueueOk(ps, q) /\ AllDisc(ps, q) /\ q # <<>> /\ RspOk(c, r) /\ HeadGiven /\ QueueOk(ps2, q2)
  BY DEF GInv, XInv, received_data
<1>2. Head(q) = c /\ i \in DOMAIN ps BY <1>1, HeadOk
<1>3. /\ ps2 = [ps EXCEPT ![i] = o.p] /\ rsp' = NoRsp
      /\ q2 = IF o.first THEN s \o t ELSE t \o s
  BY <1>2 DEF received_data
<1>4. p.call \in Calls BY <1>2 DEF DInv, AllProcData, ProcData
<1>5. RangeOk(p.call)
  <2> DEFINE call == p.call
  <2>1. call \in Calls BY <1>4
  <2> HIDE DEF call
  <2>2. RangeOk(call) BY <2>1, CallRange DEF RangeOk
  <2> QED BY <2>2 DEF call
<1>6. p.call.kind \in Discoveries /\ p.err = "OK" => Answered(p, c.req, r) BY <1>1 DEF HeadGiven
<1>7. c = q[1] /\ i = c.proc /\ p = ps[i] /\ o = Callback(c, p, r) /\ s = Commands(i, o) /\ t = Tail(q)
  OBVIOUS
<1> HIDE DEF ps, q, ps2, q2, c, i, p, r, o, s, t
<1>8. AllDisc(ps2, q2) BY <1>1, <1>3, <1>5, <1>6, <1>7, ReceivedDisc
<1> QED BY <1>3, <1>8 DEF XInv, ps2, q2

\* The timeout.
LEMMA TimeoutX == ASSUME GInv, XInv, disconnect_timeout PROVE XInv'
<1>1. QueueOk(procs, queue) /\ AllDisc(procs, queue) BY DEF GInv, XInv
<1>2. procs' = AllFailed(procs, queue)[Len(queue)] /\ queue' = <<>> /\ rsp' = NoRsp
  BY DEF disconnect_timeout
<1>3. AllDisc(procs', queue') BY <1>1, <1>2, AllFailedDisc
<1> QED BY <1>2, <1>3 DEF XInv

\* Answers to reads and discoveries.
LEMMA ReadX == ASSUME GInv, XInv, ServeRead PROVE XInv'
<1> DEFINE c == queue[1]
           p == procs[c.proc]
<1>1. QueueOk(procs, queue) /\ queue # <<>> /\ AllDisc(procs, queue)
  BY DEF GInv, XInv, ServeRead, Waiting
<1>2. rsp' \in Answers(c.req) /\ procs' = procs /\ queue' = queue
  <2>1. Head(queue) = c BY <1>1, HeadOk
  <2> QED BY <2>1 DEF ServeRead
<1>3. AllDisc(procs', queue') BY <1>1, <1>2
<1>4. p.call.kind \in Discoveries /\ p.err = "OK" => Answered(p, c.req, rsp')
  <2> SUFFICES ASSUME p.call.kind \in Discoveries, p.err = "OK" PROVE Answered(p, c.req, rsp')
    OBVIOUS
  <2>1. \A r \in Answers(c.req) : Given(c.req, r) BY <1>1, HeadAsks
  <2> QED BY <1>2, <2>1 DEF Answered
<1>5. HeadGiven' BY <1>2, <1>4 DEF HeadGiven
<1> QED BY <1>3, <1>5 DEF XInv

\* The other answers: none of their requests is a discovery's.
LEMMA OtherX ==
  ASSUME GInv, XInv, ServeMtu \/ ServePrepare \/ ServeExecute \/ (ServeWrite /\ queue' = queue)
  PROVE  XInv'
<1> DEFINE c == queue[1]
           p == procs[c.proc]
           p2 == procs'[c.proc]
<1>1. QueueOk(procs, queue) /\ queue # <<>> /\ AllDisc(procs, queue)
  BY DEF GInv, XInv, ServeMtu, ServePrepare, ServeExecute, ServeWrite, Waiting
<1>2. Head(queue) = c /\ c.proc \in DOMAIN procs /\ IsProc(p) BY <1>1, HeadOk
<1>3. queue' = queue
      /\ c.req.op \notin {"READ_BY_GROUP_REQ", "FIND_BY_TYPE_REQ", "READ_BY_TYPE_REQ", "READ_REQ"}
  BY <1>2 DEF ServeMtu, ServePrepare, ServeExecute, ServeWrite, Waiting
<1>4. procs' \in {procs, Touch(values')}
  BY DEF ServeMtu, ServePrepare, ServeExecute, ServeWrite
<1>5. AllDisc(procs', queue')
  <2>1. \A j \in DOMAIN procs : IsProc(procs[j]) BY <1>1 DEF QueueOk
  <2>2. AllDisc(Touch(values'), queue) BY <1>1, <2>1, TouchDisc
  <2> QED BY <1>1, <1>3, <1>4, <2>2
<1>6. p2.call = p.call /\ p2.err = p.err
  <2>1. p2 \in {p, [p EXCEPT !.touched = TRUE]} BY <1>2, <1>4 DEF Touch
  <2> HIDE DEF p, p2
  <2> QED BY <1>2, <2>1 DEF IsProc, ProcFields
<1>7. ~ (p.call.kind \in Discoveries /\ p.err = "OK") BY <1>1, <1>3, HeadAsks
<1>8. HeadGiven' BY <1>3, <1>6, <1>7 DEF HeadGiven
<1> QED BY <1>5, <1>8 DEF XInv

\* A command without a response leaves the queue when it is written.
LEMMA CommandX == ASSUME GInv, XInv, ServeWrite, queue' # queue PROVE XInv'
<1> DEFINE c == queue[1]
           i == c.proc
           kind == procs[i].call.kind
           t == Tail(queue)
<1>1. QueueOk(procs, queue) /\ AllDisc(procs, queue) /\ queue # <<>> /\ rsp = NoRsp
  BY DEF GInv, XInv, ServeWrite, Waiting
<1>2. Head(queue) = c /\ CmdOk(c, kind) BY <1>1, HeadOk
<1>3. c.req.op = "WRITE_CMD" /\ queue' = t /\ rsp' = NoRsp /\ procs' = Touch(values')
  BY <1>1, <1>2 DEF ServeWrite
<1>4. kind = "write_cmd"
  <2>1. c.cb = "none" BY <1>2, <1>3 DEF CmdOk
  <2> HIDE DEF c, kind
  <2> QED BY <1>2, <2>1 DEF CmdOk, IncludedCbs, PlainCbs
<1>5. IsSeq(queue) BY <1>1 DEF QueueOk
<1>6. AllDisc(procs, t)
  <2>1. ASSUME NEW j \in DOMAIN procs PROVE DiscSo(j, procs[j], t)
    <3> DEFINE w == procs[j]
    <3>1. DiscSo(j, w, queue) BY <1>1 DEF AllDisc
    <3>2. CASE j = i BY <1>4, <3>2 DEF DiscSo, Discoveries
    <3>3. CASE j # i
      <4>1. queue[1].proc # j BY <3>3
      <4> HIDE DEF w
      <4>2. DiscSo(j, w, t) BY <1>1, <1>5, <3>1, <4>1, DiscTail
      <4> QED BY <4>2 DEF w
    <3> QED BY <3>2, <3>3
  <2> HIDE DEF t
  <2> QED BY <2>1 DEF AllDisc
<1>7. AllDisc(Touch(values'), t)
  <2>1. \A j \in DOMAIN procs : IsProc(procs[j]) BY <1>1 DEF QueueOk
  <2> HIDE DEF t
  <2> QED BY <1>6, <2>1, TouchDisc
<1> QED BY <1>3, <1>7 DEF XInv

\* The server refuses a request.
LEMMA RefuseX == ASSUME GInv, XInv, Refuse PROVE XInv'
<1> DEFINE c == queue[1]
           i == c.proc
           p == procs[i]
           u == [p EXCEPT !.fault = TRUE]
<1>1. QueueOk(procs, queue) /\ AllDisc(procs, queue) /\ queue # <<>> BY DEF GInv, XInv, Refuse
<1>2. Head(queue) = c /\ i \in DOMAIN procs /\ IsProc(p) BY <1>1, HeadOk
<1>3. procs' = [procs EXCEPT ![i].fault = TRUE] /\ queue' = queue /\ rsp' = Error("REFUSED")
  BY <1>2 DEF Refuse
<1>4. DOMAIN procs' = DOMAIN procs /\ procs'[i] = u /\ \A j \in DOMAIN procs : j # i => procs'[j] = procs[j]
  BY <1>2, <1>3
<1>5. u.call = p.call /\ u.list = p.list /\ u.err = p.err /\ u.ends = p.ends /\ u.fault = TRUE
  <2> HIDE DEF p
  <2> QED BY <1>2, NewFault
<1>6. DiscSo(i, u, queue)
  <2>1. DiscSo(i, p, queue) BY <1>1, <1>2 DEF AllDisc
  <2> HIDE DEF p, u
  <2> QED BY <1>5, <2>1, FaultSo
<1>7. AllDisc(procs', queue')
  <2>1. ASSUME NEW j \in DOMAIN procs' PROVE DiscSo(j, procs'[j], queue)
    <3>1. CASE j = i BY <1>4, <1>6, <3>1
    <3>2. CASE j # i
      <4>1. procs'[j] = procs[j] /\ j \in DOMAIN procs BY <1>4, <3>2
      <4> QED BY <1>1, <4>1 DEF AllDisc
    <3> QED BY <3>1, <3>2
  <2> QED BY <1>3, <2>1 DEF AllDisc
<1>8. HeadGiven'
  <2>1. Refused(u, rsp') BY <1>3, <1>5 DEF Refused, Error
  <2> HIDE DEF u
  <2>2. Answered(u, c.req, rsp') BY <2>1 DEF Answered
  <2>3. queue'[1] = c /\ procs'[c.proc] = u BY <1>3, <1>4
  <2> QED BY <2>2, <2>3 DEF HeadGiven
<1> QED BY <1>7, <1>8 DEF XInv

\* A discovery that has not failed has collected what it found up to some
\* entry, and its commands lead from there to the end.
THEOREM DiscoveryInvariant == Spec => []XInv
<1>1. Init => XInv
  <2> SUFFICES ASSUME Init PROVE XInv OBVIOUS
  <2>1. procs = <<>> /\ rsp = NoRsp BY DEF Init
  <2>2. IsSeq(<<>>) BY ReqsNone DEF ReqsOk
  <2>3. DOMAIN <<>> = {} BY <2>2, ReqsNone, SeqLen
  <2> QED BY <2>1, <2>3 DEF XInv, AllDisc
<1>2. GInv /\ GInv' /\ DInv /\ XInv /\ [Next]_vars => XInv'
  <2> SUFFICES ASSUME GInv, GInv', DInv, XInv, [Next]_vars PROVE XInv' OBVIOUS
  <2>1. ASSUME NEW c \in Calls, Call(c) PROVE XInv' BY <2>1, CallX
  <2>2. CASE received_data BY <2>2, ReceivedX
  <2>3. CASE disconnect_timeout BY <2>3, TimeoutX
  <2>4. CASE ServeRead BY <2>4, ReadX
  <2>5. CASE ServeMtu \/ ServePrepare \/ ServeExecute BY <2>5, OtherX
  <2>6. CASE ServeWrite BY <2>6, OtherX, CommandX
  <2>7. CASE Refuse BY <2>7, RefuseX
  <2>8. CASE UNCHANGED vars BY <2>8 DEF XInv, HeadGiven, vars
  <2> QED BY <2>1, <2>2, <2>3, <2>4, <2>5, <2>6, <2>7, <2>8 DEF Next, Server
<1> QED BY <1>1, <1>2, ProcedureInvariant, DataInvariant, PTL DEF Spec

\* Discovery is exact: for any database, any calls in any interleaving, any
\* paging of the answers and whichever requests are refused or time out, a
\* discovery has a prefix of what it ought to find, and reports all of it when
\* no request of it failed, and one of services whenever it reports success.
THEOREM DiscoveriesExact == Spec => []DiscoveryExact
<1>1. XInv => DiscoveryExact
  <2> SUFFICES ASSUME XInv, NEW i \in DOMAIN procs, procs[i].call.kind \in Discoveries
               PROVE  LET p == procs[i]
                      IN  /\ p.err = "OK" => IsPrefix(p.list, Found(p.call))
                          /\ p.ends # <<>> => IsPrefix(p.ends[1].list, Found(p.call))
                          /\ p.ends # <<>> /\ (~ p.fault \/ (p.call.kind # "chars" /\ EndedWell(p)))
                             => p.ends[1].list = Found(p.call)
    BY DEF DiscoveryExact, Discoveries
  <2> DEFINE p == procs[i]
  <2>1. DiscSo(i, p, queue) BY DEF XInv, AllDisc
  <2>2. p.err = "OK" => IsPrefix(p.list, Found(p.call))
    <3> SUFFICES ASSUME p.err = "OK" PROVE IsPrefix(p.list, Found(p.call)) OBVIOUS
    <3>1. PICK a \in 0..Extent(p.call) : p.list = Collected(p.call, a) BY <2>1 DEF DiscSo, ListSo
    <3> QED BY <3>1, CollectedFacts
  <2>3. p.ends # <<>> => EndSo(p) BY <2>1 DEF DiscSo
  <2>4. p.ends # <<>> => IsPrefix(p.ends[1].list, Found(p.call))
    <3> SUFFICES ASSUME p.ends # <<>> PROVE IsPrefix(p.ends[1].list, Found(p.call)) OBVIOUS
    <3>1. PICK n \in 0..Extent(p.call) : p.ends[1].list = Collected(p.call, n) BY <2>3 DEF EndSo
    <3> QED BY <3>1, CollectedFacts
  <2>5. p.ends # <<>> /\ (~ p.fault \/ (p.call.kind # "chars" /\ EndedWell(p)))
          => p.ends[1].list = Found(p.call)
    <3>1. ~ p.fault => p.fault # TRUE OBVIOUS
    <3>2. EndedWell(p) => p.ends[1].status = "OK" BY DEF EndedWell
    <3> QED BY <2>3, <3>1, <3>2 DEF EndSo
  <2> QED BY <2>2, <2>4, <2>5
<1> QED BY <1>1, DiscoveryInvariant, PTL
=============================================================================
