--------------------------- MODULE AnswersProofs ----------------------------
(***************************************************************************)
(* Proofs about what a user is answered: whether the rate limiter lets a   *)
(* request through, username and Telegram searches, and the graph view.    *)
(* For each, its inductive invariant, that every step keeps it, and that   *)
(* it implies the properties.  ServicesProofs states the theorems.         *)
(***************************************************************************)
EXTENDS RateLimiter, UsernameOsint, TelegramSearch, GraphView, FiniteSetTheorems,
        SequenceTheorems, WellFoundedInduction, TLAPS

-----------------------------------------------------------------------------
(* Numbers                                                                 *)

Below == {ss \in Nat \X Nat : ss[1] < ss[2]}

LEMMA BelowIsWellFounded == IsWellFoundedOn(Below, Nat)
BY ONLY NatLessThanWellFounded, Zenon DEF OpToRel, Below

(* A set of numbers has a smallest.                                        *)
LEMMA LeastNat ==
  ASSUME NEW S, S \subseteq Nat, S # {}
  PROVE  \E x \in S : \A y \in S : x <= y
<1>1. PICK x \in S : \A y \in S : ~(<<y, x>> \in Below)
  BY BelowIsWellFounded, WFMin
<1>2. \A y \in S : ~(y < x) /\ y \in Nat /\ x \in Nat
  BY <1>1 DEF Below
<1> QED BY <1>2

(* A bounded one has a largest: the distances to the bound have a smallest.*)
LEMMA Largest ==
  ASSUME NEW n \in Nat, NEW S \in SUBSET (0..n), S # {}
  PROVE  \E x \in S : \A y \in S : y <= x
<1> DEFINE D == {k \in Nat : n - k \in S}
<1>1. D \in SUBSET Nat /\ D # {}
  <2>1. PICK y \in S : TRUE
    OBVIOUS
  <2>2. n - y \in Nat /\ n - (n - y) = y
    OBVIOUS
  <2> QED BY <2>1, <2>2
<1>2. PICK k \in D : \A l \in D : ~(<<l, k>> \in Below)
  <2> HIDE DEF D
  <2> QED BY <1>1, BelowIsWellFounded, WFMin
<1>3. \A y \in S : n - y \in D
  <2> TAKE y \in S
  <2>1. n - y \in Nat /\ n - (n - y) = y
    OBVIOUS
  <2> QED BY <2>1
<1>4. \A y \in S : n - k >= y
  <2> TAKE y \in S
  <2>1. n - y \in Nat /\ ~(n - y < k)
    BY <1>2, <1>3 DEF Below
  <2> QED BY <2>1
<1>5. \E x \in S : \A y \in S : x >= y
  BY <1>4
<1> QED BY <1>5
-----------------------------------------------------------------------------
(* The rate limiter                                                        *)

(* More than a remainder: the next multiple.                               *)
LEMMA NextMultiple ==
  ASSUME NEW y \in Int, NEW s \in Nat \ {0}
  PROVE  (y \div s + 1) * s > y /\ y \div s \in Int
OBVIOUS

Hit == (0..MaxTime) \X Clients

(* Hits in the order of their times.                                       *)
InTime(q) == \A i, j \in 1..Len(q) : i <= j => q[i][1] <= q[j][1]

(* The first n of them are old at a time, the others are not.              *)
OldAre(s, q, t, n) ==
    /\ n \in 0..Len(q)
    /\ \A i \in 1..n : ~Alive(s, q[i], t)
    /\ \A i \in 1..Len(q) : i > n => Alive(s, q[i], t)

LEMMA AliveLater ==
  ASSUME NEW s, NEW g, NEW h, g[1] \in Nat, h[1] \in Nat, NEW t \in Nat, NEW u \in Nat, Window \in Nat,
         g[1] <= h[1], u <= t, Alive(s, g, t)
  PROVE  Alive(s, h, t) /\ Alive(s, g, u)
BY DEF Alive

LEMMA OldOnes ==
  ASSUME NEW s, NEW q \in Seq(Hit), InTime(q), NEW t \in Nat
  PROVE  \E n \in 0..Len(q) : OldAre(s, q, t, n)
<1>1. Len(q) \in Nat /\ \A i \in 1..Len(q) : q[i] \in Hit /\ q[i][1] \in Nat
  BY ElementOfSeq, LenProperties DEF Hit
<1> DEFINE S == {i \in Nat : i < Len(q) /\ Alive(s, q[i + 1], t)}
<1>w. Window \in Nat
  BY RateAssumption DEF Window
<1>2. CASE S = {}
  <2>1. \A i \in 1..Len(q) : ~Alive(s, q[i], t)
    <3> SUFFICES ASSUME NEW i \in 1..Len(q), Alive(s, q[i], t) PROVE FALSE
      OBVIOUS
    <3>1. i - 1 \in Nat /\ i - 1 < Len(q) /\ (i - 1) + 1 = i
      BY <1>1
    <3> QED BY <1>2, <3>1
  <2> QED BY <1>1, <2>1 DEF OldAre
<1>3. CASE S # {}
  <2>1. PICK n \in S : \A m \in S : n <= m
    <3> HIDE DEF S
    <3>1. S \subseteq Nat
      BY DEF S
    <3> QED BY <1>3, <3>1, LeastNat
  <2>2. \A i \in 1..n : ~Alive(s, q[i], t)
    <3> SUFFICES ASSUME NEW i \in 1..n, Alive(s, q[i], t) PROVE FALSE
      OBVIOUS
    <3>1. i - 1 \in Nat /\ i - 1 < Len(q) /\ (i - 1) + 1 = i /\ ~(n <= i - 1)
      BY <1>1, <2>1
    <3>2. i - 1 \in S
      BY <3>1
    <3> QED BY <2>1, <3>1, <3>2
  <2>3. \A i \in 1..Len(q) : i > n => Alive(s, q[i], t)
    <3> TAKE i \in 1..Len(q)
    <3> SUFFICES ASSUME i > n PROVE Alive(s, q[i], t)
      OBVIOUS
    <3>1. n + 1 \in 1..Len(q) /\ n + 1 <= i /\ Alive(s, q[n + 1], t)
      BY <1>1, <2>1
    <3>2. q[n + 1][1] <= q[i][1]
      BY <3>1 DEF InTime
    <3>3. q[n + 1][1] \in Nat /\ q[i][1] \in Nat
      BY <1>1, <3>1
    <3> QED BY <1>w, <3>1, <3>2, <3>3, AliveLater
  <2>4. n \in 0..Len(q)
    BY <1>1, <2>1
  <2> QED BY <2>2, <2>3, <2>4 DEF OldAre
<1> QED BY <1>2, <1>3

(* What is left is what follows them.                                      *)
LEMMA LeftIs ==
  ASSUME NEW s, NEW q \in Seq(Hit), InTime(q), NEW t \in Nat, NEW n, OldAre(s, q, t, n)
  PROVE  /\ Left(s, q, t) \in Seq(Hit)
         /\ Len(Left(s, q, t)) = Len(q) - n
         /\ \A i \in 1..(Len(q) - n) : Left(s, q, t)[i] = q[n + i] /\ n + i \in 1..Len(q)
         /\ InTime(Left(s, q, t))
<1>1. /\ Len(q) \in Nat /\ n \in 0..Len(q)
      /\ \A i \in 1..Len(q) : q[i] \in Hit /\ q[i][1] \in Nat
  BY ElementOfSeq, LenProperties DEF Hit, OldAre
<1> DEFINE DropsTo(i) == /\ \A j \in 1..i : ~Alive(s, q[j], t)
                         /\ i < Len(q) => Alive(s, q[i + 1], t)
           m == CHOOSE i \in 0..Len(q) : DropsTo(i)
<1>2. DropsTo(n)
  <2>1. n < Len(q) => n + 1 \in 1..Len(q) /\ n + 1 > n
    BY <1>1
  <2> QED BY <2>1 DEF OldAre
<1>3. \A i \in 0..Len(q) : DropsTo(i) => i = n
  <2> SUFFICES ASSUME NEW i \in 0..Len(q), DropsTo(i) PROVE i = n
    OBVIOUS
  <2>1. CASE i < n
    <3>1. i + 1 \in 1..n /\ i < Len(q)
      BY <1>1, <2>1
    <3>2. Alive(s, q[i + 1], t)
      BY <3>1
    <3>3. ~Alive(s, q[i + 1], t)
      BY <3>1 DEF OldAre
    <3> QED BY <3>2, <3>3
  <2>2. CASE i > n
    <3>1. n + 1 \in 1..i /\ n + 1 \in 1..Len(q) /\ n + 1 > n
      BY <1>1, <2>2
    <3>2. ~Alive(s, q[n + 1], t)
      BY <3>1
    <3>3. Alive(s, q[n + 1], t)
      BY <3>1 DEF OldAre
    <3> QED BY <3>2, <3>3
  <2> QED BY <1>1, <2>1, <2>2
<1>4. m = n
  <2> HIDE DEF DropsTo
  <2> QED BY <1>1, <1>2, <1>3
<1>5. Left(s, q, t) = SubSeq(q, m + 1, Len(q))
  BY DEF Left
<1> HIDE DEF m
<1> DEFINE r == SubSeq(q, n + 1, Len(q))
<1>6. /\ r \in Seq(Hit) /\ Len(r) = Len(q) - n
      /\ \A i \in 1..(Len(q) - n) : r[i] = q[n + i]
  <2>1. n + 1 \in Int /\ Len(q) \in Int /\ \A i \in (n + 1)..Len(q) : q[i] \in Hit
    BY <1>1
  <2>2. /\ r \in Seq(Hit)
        /\ Len(r) = IF n + 1 <= Len(q) THEN Len(q) - (n + 1) + 1 ELSE 0
        /\ \A i \in 1..(Len(q) - (n + 1) + 1) : r[i] = q[(n + 1) + i - 1]
    BY <2>1, SubSeqProperties
  <2> HIDE DEF r
  <2>3. Len(q) - (n + 1) + 1 = Len(q) - n /\ \A i \in Int : (n + 1) + i - 1 = n + i
    BY <1>1
  <2>4. Len(r) = Len(q) - n
    BY <1>1, <2>2
  <2>5. \A i \in 1..(Len(q) - n) : r[i] = q[(n + 1) + i - 1] /\ i \in Int
    BY <2>2, <2>3
  <2> QED BY <2>2, <2>3, <2>4, <2>5
<1>7. r = Left(s, q, t)
  BY <1>4, <1>5
<1> HIDE DEF r
<1>8. \A i \in 1..(Len(q) - n) : n + i \in 1..Len(q)
  BY <1>1
<1>9. InTime(r)
  <2> SUFFICES ASSUME NEW i \in 1..Len(r), NEW j \in 1..Len(r), i <= j PROVE r[i][1] <= r[j][1]
    BY DEF InTime
  <2>1. /\ n + i \in 1..Len(q) /\ n + j \in 1..Len(q) /\ n + i <= n + j
        /\ r[i] = q[n + i] /\ r[j] = q[n + j]
    BY <1>1, <1>6, <1>8
  <2> QED BY <2>1 DEF InTime
<1> QED BY <1>6, <1>7, <1>8, <1>9

(* How many hits a store still counts at a time.                           *)
CountAt(s, q, t) == Len(Left(s, q, t))

LEMMA CountIs ==
  ASSUME NEW s, NEW q \in Seq(Hit), InTime(q), NEW t \in Nat
  PROVE  /\ CountAt(s, q, t) \in 0..Len(q)
         /\ \E n \in 0..Len(q) : OldAre(s, q, t, n) /\ CountAt(s, q, t) = Len(q) - n
         /\ \A n : OldAre(s, q, t, n) => n \in 0..Len(q) /\ CountAt(s, q, t) = Len(q) - n
         /\ Len(q) \in Nat
<1>1. Len(q) \in Nat
  BY LenProperties
<1>2. ASSUME NEW n, OldAre(s, q, t, n)
      PROVE  n \in 0..Len(q) /\ CountAt(s, q, t) = Len(q) - n
  <2>1. q \in Seq(Hit) /\ InTime(q) /\ t \in Nat
    OBVIOUS
  <2>2. /\ Left(s, q, t) \in Seq(Hit)
        /\ Len(Left(s, q, t)) = Len(q) - n
        /\ \A i \in 1..(Len(q) - n) : Left(s, q, t)[i] = q[n + i] /\ n + i \in 1..Len(q)
        /\ InTime(Left(s, q, t))
    BY ONLY <1>2, <2>1, LeftIs
  <2> QED BY <1>2, <2>2 DEF CountAt, OldAre
<1>3. PICK n \in 0..Len(q) : OldAre(s, q, t, n)
  BY OldOnes
<1> QED BY <1>1, <1>2, <1>3

(* Later a store counts less, and what it has dropped makes no difference. *)
LEMMA CountLater ==
  ASSUME NEW s, NEW q \in Seq(Hit), InTime(q), NEW t \in Nat, NEW u \in Nat, t <= u
  PROVE  /\ CountAt(s, q, u) <= CountAt(s, q, t)
         /\ CountAt(s, Left(s, q, t), u) = CountAt(s, q, u)
<1>w. Window \in Nat
  BY RateAssumption DEF Window
<1>1. PICK n \in 0..Len(q) : OldAre(s, q, t, n) /\ CountAt(s, q, t) = Len(q) - n
  BY CountIs
<1>2. PICK m \in 0..Len(q) : OldAre(s, q, u, m) /\ CountAt(s, q, u) = Len(q) - m
  BY CountIs
<1>3. /\ Len(q) \in Nat /\ n \in Nat /\ m \in Nat
      /\ \A i \in 1..Len(q) : q[i] \in Hit /\ q[i][1] \in Nat
  BY ElementOfSeq, LenProperties DEF Hit
<1>4. n <= m
  <2> SUFFICES ASSUME m < n PROVE FALSE
    BY <1>3
  <2>1. n \in 1..Len(q) /\ n > m /\ n \in 1..n
    BY <1>3
  <2>2. Alive(s, q[n], u) /\ ~Alive(s, q[n], t)
    BY <1>1, <1>2, <2>1 DEF OldAre
  <2> QED BY <1>w, <1>3, <2>1, <2>2, AliveLater
<1> DEFINE r == Left(s, q, t)
<1>0. r = Left(s, q, t)
  OBVIOUS
<1> HIDE DEF r
<1>5. /\ r \in Seq(Hit) /\ Len(r) = Len(q) - n /\ InTime(r)
      /\ \A i \in 1..(Len(q) - n) : r[i] = q[n + i] /\ n + i \in 1..Len(q)
  <2>1. OldAre(s, q, t, n)
    BY <1>1
  <2>2. /\ Left(s, q, t) \in Seq(Hit)
        /\ Len(Left(s, q, t)) = Len(q) - n
        /\ \A i \in 1..(Len(q) - n) : Left(s, q, t)[i] = q[n + i] /\ n + i \in 1..Len(q)
        /\ InTime(Left(s, q, t))
    BY <2>1, LeftIs
  <2> QED BY ONLY <1>0, <2>2, Zenon
<1>6. OldAre(s, r, u, m - n)
  <2>1. m - n \in 0..Len(r)
    BY <1>3, <1>4, <1>5
  <2>2. \A i \in 1..(m - n) : ~Alive(s, r[i], u)
    <3> TAKE i \in 1..(m - n)
    <3>1. i \in 1..(Len(q) - n) /\ n + i \in 1..m
      BY <1>3, <1>4
    <3> QED BY <1>2, <1>5, <3>1 DEF OldAre
  <2>3. \A i \in 1..Len(r) : i > m - n => Alive(s, r[i], u)
    <3> TAKE i \in 1..Len(r)
    <3> SUFFICES ASSUME i > m - n PROVE Alive(s, r[i], u)
      OBVIOUS
    <3>1. i \in 1..(Len(q) - n) /\ n + i > m
      BY <1>3, <1>4, <1>5
    <3> QED BY <1>2, <1>5, <3>1 DEF OldAre
  <2> QED BY <2>1, <2>2, <2>3 DEF OldAre
<1>7. CountAt(s, r, u) = Len(r) - (m - n)
  <2>1. \A k : OldAre(s, r, u, k) => CountAt(s, r, u) = Len(r) - k
    BY <1>5, CountIs
  <2> QED BY ONLY <1>6, <2>1, Zenon
<1>8. CountAt(s, r, u) = CountAt(s, q, u)
  BY <1>2, <1>3, <1>5, <1>7
<1>9. CountAt(s, q, u) <= CountAt(s, q, t)
  BY <1>1, <1>2, <1>3, <1>4
<1> QED BY <1>8, <1>9 DEF r

One(s, h, t) == IF Alive(s, h, t) THEN 1 ELSE 0

(* A new hit counts as one.                                                *)
LEMMA CountAppend ==
  ASSUME NEW s, NEW q \in Seq(Hit), InTime(q), NEW t \in Nat, NEW h \in Hit,
         \A i \in 1..Len(q) : q[i][1] <= h[1]
  PROVE  /\ Append(q, h) \in Seq(Hit) /\ InTime(Append(q, h)) /\ Len(Append(q, h)) = Len(q) + 1
         /\ \A i \in 1..Len(q) : Append(q, h)[i] = q[i]
         /\ Append(q, h)[Len(q) + 1] = h
         /\ CountAt(s, Append(q, h), t) = CountAt(s, q, t) + One(s, h, t)
<1>w. Window \in Nat
  BY RateAssumption DEF Window
<1> DEFINE r == Append(q, h)
<1>1. /\ r \in Seq(Hit) /\ Len(r) = Len(q) + 1
      /\ \A i \in 1..Len(q) : r[i] = q[i]
      /\ r[Len(q) + 1] = h
  BY AppendProperties
<1> HIDE DEF r
<1>2. /\ Len(q) \in Nat /\ h[1] \in Nat
      /\ \A i \in 1..Len(q) : q[i] \in Hit /\ q[i][1] \in Nat
  BY ElementOfSeq, LenProperties DEF Hit
<1>3. \A i \in 1..Len(r) : i \in 1..Len(q) \/ i = Len(q) + 1
  BY <1>1, <1>2
<1>4. InTime(r)
  <2> SUFFICES ASSUME NEW i \in 1..Len(r), NEW j \in 1..Len(r), i <= j PROVE r[i][1] <= r[j][1]
    BY DEF InTime
  <2>1. CASE j \in 1..Len(q)
    <3>1. i \in 1..Len(q)
      BY <1>2, <1>3, <2>1
    <3> QED BY <1>1, <2>1, <3>1 DEF InTime
  <2>2. CASE j = Len(q) + 1 /\ i \in 1..Len(q)
    BY <1>1, <2>2
  <2>3. CASE j = Len(q) + 1 /\ i = j
    BY <1>1, <1>2, <2>3
  <2> QED BY <1>3, <2>1, <2>2, <2>3
<1>5. PICK n \in 0..Len(q) : OldAre(s, q, t, n) /\ CountAt(s, q, t) = Len(q) - n
  BY CountIs
<1>6. CASE Alive(s, h, t)
  <2>1. OldAre(s, r, t, n)
    <3>1. n \in 0..Len(r) /\ \A i \in 1..n : i \in 1..Len(q)
      BY <1>1, <1>2
    <3>2. \A i \in 1..n : ~Alive(s, r[i], t)
      BY <1>1, <1>5, <3>1 DEF OldAre
    <3>3. \A i \in 1..Len(r) : i > n => Alive(s, r[i], t)
      BY <1>1, <1>3, <1>5, <1>6 DEF OldAre
    <3> QED BY <3>1, <3>2, <3>3 DEF OldAre
  <2>2. CountAt(s, r, t) = Len(r) - n
    BY <1>1, <1>4, <2>1, CountIs
  <2>3. CountAt(s, r, t) = CountAt(s, q, t) + 1
    BY <1>1, <1>2, <1>5, <2>2
  <2> QED BY <1>1, <1>4, <1>6, <2>3 DEF One, r
<1>7. CASE ~Alive(s, h, t)
  <2>1. \A i \in 1..Len(q) : ~Alive(s, q[i], t)
    BY <1>w, <1>2, <1>7, AliveLater
  <2>2. n = Len(q)
    <3> SUFFICES ASSUME n < Len(q) PROVE FALSE
      BY <1>2
    <3>1. n + 1 \in 1..Len(q) /\ n + 1 > n
      BY <1>2
    <3> QED BY <1>5, <2>1, <3>1 DEF OldAre
  <2>3. OldAre(s, r, t, Len(q) + 1)
    <3>1. \A i \in 1..(Len(q) + 1) : ~Alive(s, r[i], t)
      BY <1>1, <1>3, <1>7, <2>1
    <3>2. \A i \in 1..Len(r) : ~(i > Len(q) + 1)
      BY <1>1, <1>2
    <3> QED BY <1>1, <1>2, <3>1, <3>2 DEF OldAre
  <2>4. CountAt(s, r, t) = Len(r) - (Len(q) + 1)
    BY <1>1, <1>4, <2>3, CountIs
  <2>5. CountAt(s, r, t) = CountAt(s, q, t) + 0
    BY <1>1, <1>2, <1>5, <2>2, <2>4
  <2> QED BY <1>1, <1>4, <1>7, <2>5 DEF One, r
<1> QED BY <1>6, <1>7

LEMMA AppendKeeps ==
  ASSUME NEW s, NEW q \in Seq(Hit), InTime(q), NEW h \in Hit,
         \A i \in 1..Len(q) : q[i][1] <= h[1]
  PROVE  /\ Append(q, h) \in Seq(Hit) /\ InTime(Append(q, h)) /\ Len(Append(q, h)) = Len(q) + 1
         /\ \A i \in 1..Len(q) : Append(q, h)[i] = q[i]
         /\ Append(q, h)[Len(q) + 1] = h
         /\ \A t \in Nat : CountAt(s, Append(q, h), t) = CountAt(s, q, t) + One(s, h, t)
<1>1. 0 \in Nat
  OBVIOUS
<1>2. \A t \in Nat : CountAt(s, Append(q, h), t) = CountAt(s, q, t) + One(s, h, t)
  BY CountAppend
<1>3. /\ Append(q, h) \in Seq(Hit) /\ InTime(Append(q, h)) /\ Len(Append(q, h)) = Len(q) + 1
      /\ \A i \in 1..Len(q) : Append(q, h)[i] = q[i]
      /\ Append(q, h)[Len(q) + 1] = h
  BY <1>1, CountAppend
<1> QED BY <1>2, <1>3

(* A hit that is taken back counted as one at most.                        *)
LEMMA CountRemove ==
  ASSUME NEW s, NEW q \in Seq(Hit), InTime(q), NEW h \in Hit
  PROVE  LET r == Seqs!RemoveFirst(q, h)
         IN  /\ r \in Seq(Hit) /\ InTime(r)
             /\ \A i \in 1..Len(r) : \E j \in i..Len(q) : r[i] = q[j]
             /\ \A t \in Nat : CountAt(s, q, t) <= CountAt(s, r, t) + One(s, h, t)
<1> DEFINE r == Seqs!RemoveFirst(q, h)
<1>1. /\ Len(q) \in Nat
      /\ \A i \in 1..Len(q) : q[i] \in Hit /\ q[i][1] \in Nat
  BY ElementOfSeq, LenProperties DEF Hit
<1>2. CASE ~\E i \in 1..Len(q) : q[i] = h
  <2>1. r = q
    BY <1>2 DEF Seqs!RemoveFirst
  <2> HIDE DEF r
  <2>2. \A t \in Nat : CountAt(s, q, t) <= CountAt(s, r, t) + One(s, h, t)
    <3> TAKE t \in Nat
    <3>1. CountAt(s, q, t) \in 0..Len(q)
      BY CountIs
    <3> QED BY <1>1, <2>1, <3>1 DEF One
  <2>3. \A i \in 1..Len(r) : \E j \in i..Len(q) : r[i] = q[j]
    <3> TAKE i \in 1..Len(r)
    <3>1. i \in i..Len(q) /\ r[i] = q[i]
      BY <1>1, <2>1
    <3> QED BY <3>1
  <2> QED BY <2>1, <2>2, <2>3 DEF r
<1>3. CASE \E i \in 1..Len(q) : q[i] = h
  <2> DEFINE I == {i \in 1..Len(q) : q[i] = h}
             j == Seqs!SelectInSeq(q, LAMBDA v : v = h)
  <2>1. j = Seqs!Min(I) /\ r = Seqs!RemoveAt(q, j)
    BY <1>3 DEF Seqs!RemoveFirst, Seqs!SelectInSeq
  <2>2. j \in I
    <3>1. I \subseteq Nat /\ I # {}
      BY <1>1, <1>3
    <3> HIDE DEF I, j
    <3>2. \E x \in I : \A y \in I : x <= y
      BY <3>1, LeastNat
    <3> QED BY <2>1, <3>2 DEF Seqs!Min
  <2>3. j \in 1..Len(q) /\ q[j] = h
    BY <2>2
  <2> HIDE DEF I, j
  <2> DEFINE a == SubSeq(q, 1, j - 1)
             b == SubSeq(q, j + 1, Len(q))
  <2>4. r = a \o b
    BY <2>1 DEF Seqs!RemoveAt
  <2>5. a \in Seq(Hit) /\ Len(a) = j - 1 /\ \A i \in 1..(j - 1) : a[i] = q[i]
    <3>1. 1 \in Int /\ j - 1 \in Int /\ \A i \in 1..(j - 1) : q[i] \in Hit
      BY <1>1, <2>3
    <3>2. /\ a \in Seq(Hit)
          /\ Len(a) = IF 1 <= j - 1 THEN (j - 1) - 1 + 1 ELSE 0
          /\ \A i \in 1..((j - 1) - 1 + 1) : a[i] = q[1 + i - 1]
      BY <3>1, SubSeqProperties
    <3> HIDE DEF a
    <3>3. (j - 1) - 1 + 1 = j - 1 /\ \A i \in Int : 1 + i - 1 = i
      BY <2>3
    <3>4. \A i \in 1..(j - 1) : a[i] = q[1 + i - 1] /\ i \in Int
      BY <3>2, <3>3
    <3> QED BY <2>3, <3>2, <3>3, <3>4
  <2>6. b \in Seq(Hit) /\ Len(b) = Len(q) - j /\ \A i \in 1..(Len(q) - j) : b[i] = q[j + i]
    <3>1. j + 1 \in Int /\ Len(q) \in Int /\ \A i \in (j + 1)..Len(q) : q[i] \in Hit
      BY <1>1, <2>3
    <3>2. /\ b \in Seq(Hit)
          /\ Len(b) = IF j + 1 <= Len(q) THEN Len(q) - (j + 1) + 1 ELSE 0
          /\ \A i \in 1..(Len(q) - (j + 1) + 1) : b[i] = q[(j + 1) + i - 1]
      BY <3>1, SubSeqProperties
    <3> HIDE DEF b
    <3>3. Len(q) - (j + 1) + 1 = Len(q) - j /\ Len(b) = Len(q) - j
      BY <1>1, <2>3, <3>2
    <3>4. ASSUME NEW i \in 1..(Len(q) - j)
          PROVE  b[i] = q[j + i]
      <4>1. b[i] = q[(j + 1) + i - 1]
        BY <3>2, <3>3
      <4>2. (j + 1) + i - 1 = j + i
        BY <1>1, <2>3
      <4> QED BY <4>1, <4>2
    <3> QED BY <3>2, <3>3, <3>4
  <2> HIDE DEF a, b, r
  <2>7. /\ r \in Seq(Hit) /\ Len(r) = Len(q) - 1
        /\ \A i \in 1..(Len(q) - 1) : r[i] = IF i < j THEN q[i] ELSE q[i + 1]
    <3>1. /\ a \o b \in Seq(Hit) /\ Len(a \o b) = Len(a) + Len(b)
          /\ \A i \in 1..(Len(a) + Len(b)) : (a \o b)[i] = IF i <= Len(a) THEN a[i] ELSE b[i - Len(a)]
      BY <2>5, <2>6, ConcatProperties
    <3>2. Len(a) + Len(b) = Len(q) - 1 /\ Len(r) = Len(a) + Len(b)
      BY <1>1, <2>3, <2>4, <2>5, <2>6, <3>1
    <3>3. \A i \in 1..(Len(q) - 1) : r[i] = IF i <= Len(a) THEN a[i] ELSE b[i - Len(a)]
      BY <2>4, <3>1, <3>2
    <3>4. ASSUME NEW i \in 1..(Len(q) - 1)
          PROVE  r[i] = IF i < j THEN q[i] ELSE q[i + 1]
      <4>1. CASE i < j
        <5>1. i <= Len(a) /\ i \in 1..(j - 1)
          BY <2>3, <2>5, <4>1
        <5> QED BY <2>5, <3>3, <4>1, <5>1
      <4>2. CASE ~(i < j)
        <5>1. ~(i <= Len(a)) /\ i - Len(a) \in 1..(Len(q) - j) /\ j + (i - Len(a)) = i + 1
          BY <1>1, <2>3, <2>5, <4>2
        <5> QED BY <2>6, <3>3, <4>2, <5>1
      <4> QED BY <4>1, <4>2
    <3> QED BY <2>4, <3>1, <3>2, <3>4
  <2>8. InTime(r)
    <3> SUFFICES ASSUME NEW k \in 1..Len(r), NEW l \in 1..Len(r), k <= l PROVE r[k][1] <= r[l][1]
      BY DEF InTime
    <3> DEFINE K == IF k < j THEN k ELSE k + 1
               L == IF l < j THEN l ELSE l + 1
    <3>1. K \in 1..Len(q) /\ L \in 1..Len(q) /\ K <= L
      BY <1>1, <2>3, <2>7
    <3>2. r[k] = q[K] /\ r[l] = q[L]
      BY <2>7
    <3> HIDE DEF K, L
    <3> QED BY <3>1, <3>2 DEF InTime
  <2>9. \A i \in 1..Len(r) : \E k \in i..Len(q) : r[i] = q[k]
    <3> TAKE i \in 1..Len(r)
    <3> DEFINE K == IF i < j THEN i ELSE i + 1
    <3>1. K \in i..Len(q)
      BY <1>1, <2>3, <2>7
    <3>2. r[i] = q[K]
      BY <2>7
    <3> QED BY <3>1, <3>2
  <2>10. ASSUME NEW t \in Nat
         PROVE  CountAt(s, q, t) <= CountAt(s, r, t) + One(s, h, t)
    <3>1. PICK n \in 0..Len(q) : OldAre(s, q, t, n) /\ CountAt(s, q, t) = Len(q) - n
      BY CountIs
    <3>2. CASE Alive(s, h, t)
      <4>1. j > n
        <5> SUFFICES ASSUME j <= n PROVE FALSE
          BY <2>3, <3>1
        <5>1. j \in 1..n
          BY <2>3
        <5> QED BY <2>3, <3>1, <3>2, <5>1 DEF OldAre
      <4>2. OldAre(s, r, t, n)
        <5>1. n \in 0..Len(r)
          BY <1>1, <2>3, <2>7, <4>1
        <5>2. \A i \in 1..n : ~Alive(s, r[i], t)
          <6> TAKE i \in 1..n
          <6>1. i < j /\ i \in 1..(Len(q) - 1)
            BY <1>1, <2>3, <4>1
          <6> QED BY <2>7, <3>1, <6>1 DEF OldAre
        <5>3. \A i \in 1..Len(r) : i > n => Alive(s, r[i], t)
          <6> TAKE i \in 1..Len(r)
          <6> SUFFICES ASSUME i > n PROVE Alive(s, r[i], t)
            OBVIOUS
          <6>1. /\ i \in 1..(Len(q) - 1) /\ i \in 1..Len(q) /\ i + 1 \in 1..Len(q) /\ i + 1 > n
            BY <1>1, <2>7
          <6> QED BY <2>7, <3>1, <6>1 DEF OldAre
        <5> QED BY <5>1, <5>2, <5>3 DEF OldAre
      <4>3. CountAt(s, r, t) = Len(r) - n
        BY <2>7, <2>8, <4>2, CountIs
      <4> QED BY <1>1, <2>7, <3>1, <3>2, <4>3 DEF One
    <3>3. CASE ~Alive(s, h, t)
      <4>1. j <= n
        <5> SUFFICES ASSUME j > n PROVE FALSE
          BY <2>3, <3>1
        <5> QED BY <2>3, <3>1, <3>3 DEF OldAre
      <4>2. OldAre(s, r, t, n - 1)
        <5>1. n - 1 \in 0..Len(r)
          BY <1>1, <2>3, <2>7, <4>1
        <5>2. \A i \in 1..(n - 1) : ~Alive(s, r[i], t)
          <6> TAKE i \in 1..(n - 1)
          <6>1. i \in 1..(Len(q) - 1) /\ i \in 1..n /\ i + 1 \in 1..n
            BY <1>1, <2>3, <4>1
          <6> QED BY <2>7, <3>1, <6>1 DEF OldAre
        <5>3. \A i \in 1..Len(r) : i > n - 1 => Alive(s, r[i], t)
          <6> TAKE i \in 1..Len(r)
          <6> SUFFICES ASSUME i > n - 1 PROVE Alive(s, r[i], t)
            OBVIOUS
          <6>1. i \in 1..(Len(q) - 1) /\ ~(i < j) /\ i + 1 \in 1..Len(q) /\ i + 1 > n
            BY <1>1, <2>3, <2>7, <3>1, <4>1
          <6> QED BY <2>7, <3>1, <6>1 DEF OldAre
        <5> QED BY <5>1, <5>2, <5>3 DEF OldAre
      <4>3. CountAt(s, r, t) = Len(r) - (n - 1)
        BY <2>7, <2>8, <4>2, CountIs
      <4> QED BY <1>1, <2>7, <3>1, <3>3, <4>3 DEF One
    <3> QED BY <3>2, <3>3
  <2> QED BY <2>7, <2>8, <2>9, <2>10 DEF r
<1> QED BY <1>2, <1>3

(* What a store owes a key with a limit: H are the hits it holds, A those   *)
(* it let through, pend how many of H are about to be taken back, by when   *)
(* one asks, pr the time a refused caller was told, n the time it is.       *)
Dated(q, n) == \A i \in 1..Len(q) : q[i][1] <= n

Owes(s, lim, H, A, pend, pr, n) ==
    /\ H \in Seq(Hit) /\ InTime(H) /\ Dated(H, n)
    /\ A \in Seq(Hit) /\ InTime(A) /\ Dated(A, n)
    /\ pr \in 0..Never
    /\ \A X \in Nat : X >= n => CountAt(s, A, X) + pend[X] <= CountAt(s, H, X)
    /\ CountAt(s, A, n) <= lim
    /\ H # <<>> => \A X \in Nat : X >= n /\ X > H[1][1] + Window => CountAt(s, A, X) < lim
    /\ \A X \in Nat : X >= n /\ X >= pr => CountAt(s, A, X) < lim

LEMMA CountNat ==
  ASSUME NEW s, NEW q \in Seq(Hit), InTime(q), NEW t \in Nat
  PROVE  CountAt(s, q, t) \in Nat /\ CountAt(s, q, t) <= Len(q) /\ Len(q) \in Nat
<1>1. CountAt(s, q, t) \in 0..Len(q) /\ Len(q) \in Nat
  BY CountIs
<1> QED BY <1>1

(* When all are old, nothing counts.                                       *)
LEMMA CountNone ==
  ASSUME NEW s, NEW q \in Seq(Hit), InTime(q), NEW t \in Nat, NEW n \in Nat,
         Dated(q, n), t > n + Window
  PROVE  CountAt(s, q, t) = 0
<1>1. /\ Len(q) \in Nat
      /\ \A i \in 1..Len(q) : q[i] \in Hit /\ q[i][1] \in Nat
  BY ElementOfSeq, LenProperties DEF Hit
<1>w. Window \in Nat
  BY RateAssumption DEF Window
<1>2. \A i \in 1..Len(q) : ~Alive(s, q[i], t)
  <2> TAKE i \in 1..Len(q)
  <2>1. q[i][1] <= n /\ q[i][1] \in Nat
    BY <1>1 DEF Dated
  <2> QED BY <1>w, <2>1 DEF Alive
<1>3. OldAre(s, q, t, Len(q))
  BY <1>1, <1>2 DEF OldAre
<1>4. CountAt(s, q, t) = Len(q) - Len(q)
  BY <1>3, CountIs
<1> QED BY <1>1, <1>4

(* When the first is old, not all count.                                   *)
LEMMA CountFirstOld ==
  ASSUME NEW s, NEW q \in Seq(Hit), InTime(q), NEW t \in Nat,
         q # <<>>, t > q[1][1] + Window
  PROVE  CountAt(s, q, t) <= Len(q) - 1
<1>1. /\ Len(q) \in Nat
      /\ \A i \in 1..Len(q) : q[i] \in Hit /\ q[i][1] \in Nat
  BY ElementOfSeq, LenProperties DEF Hit
<1>2. Len(q) > 0 /\ 1 \in 1..Len(q)
  BY <1>1, EmptySeq
<1>w. Window \in Nat
  BY RateAssumption DEF Window
<1>3. ~Alive(s, q[1], t)
  <2>1. q[1][1] \in Nat
    BY <1>1, <1>2
  <2> QED BY <1>w, <2>1 DEF Alive
<1>4. PICK n \in 0..Len(q) : OldAre(s, q, t, n) /\ CountAt(s, q, t) = Len(q) - n
  BY CountIs
<1>5. n >= 1
  <2> SUFFICES ASSUME n = 0 PROVE FALSE
    BY <1>1
  <2> QED BY <1>2, <1>3, <1>4 DEF OldAre
<1> QED BY <1>1, <1>4, <1>5

(* Dropping the old keeps the order, the dates and the counts to come.     *)
LEMMA LeftKeeps ==
  ASSUME NEW s, NEW q \in Seq(Hit), InTime(q), NEW t \in Nat, NEW n \in Nat, Dated(q, n)
  PROVE  /\ Left(s, q, t) \in Seq(Hit) /\ InTime(Left(s, q, t)) /\ Dated(Left(s, q, t), n)
         /\ \A X \in Nat : X >= t => CountAt(s, Left(s, q, t), X) = CountAt(s, q, X)
         /\ Len(Left(s, q, t)) = CountAt(s, q, t)
         /\ Left(s, q, t) # <<>> => q # <<>> /\ q[1][1] <= Left(s, q, t)[1][1]
<1> DEFINE r == Left(s, q, t)
<1>0. r = Left(s, q, t)
  OBVIOUS
<1> HIDE DEF r
<1>1. PICK m \in 0..Len(q) : OldAre(s, q, t, m)
  BY OldOnes
<1>2. /\ r \in Seq(Hit) /\ Len(r) = Len(q) - m /\ InTime(r)
      /\ \A i \in 1..(Len(q) - m) : r[i] = q[m + i] /\ m + i \in 1..Len(q)
  <2>1. /\ Left(s, q, t) \in Seq(Hit)
        /\ Len(Left(s, q, t)) = Len(q) - m
        /\ \A i \in 1..(Len(q) - m) : Left(s, q, t)[i] = q[m + i] /\ m + i \in 1..Len(q)
        /\ InTime(Left(s, q, t))
    BY <1>1, LeftIs
  <2> QED BY ONLY <1>0, <2>1, Zenon
<1>3. Dated(r, n)
  BY <1>2 DEF Dated
<1>4. \A X \in Nat : X >= t => CountAt(s, r, X) = CountAt(s, q, X)
  <2> TAKE X \in Nat
  <2> SUFFICES ASSUME t <= X PROVE CountAt(s, r, X) = CountAt(s, q, X)
    OBVIOUS
  <2>1. CountAt(s, Left(s, q, t), X) = CountAt(s, q, X)
    BY CountLater
  <2> QED BY <1>0, <2>1
<1>5. Len(r) = CountAt(s, q, t)
  BY <1>0 DEF CountAt
<1>6. r # <<>> => q # <<>> /\ q[1][1] <= r[1][1]
  <2> SUFFICES ASSUME r # <<>> PROVE q # <<>> /\ q[1][1] <= r[1][1]
    OBVIOUS
  <2>1. Len(q) \in Nat /\ Len(r) \in Nat /\ Len(r) # 0
    BY <1>2, LenProperties, EmptySeq
  <2>2. 1 \in 1..(Len(q) - m) /\ m + 1 \in 1..Len(q) /\ 1 \in 1..Len(q) /\ 1 <= m + 1
    BY <1>2, <2>1
  <2>3. r[1] = q[m + 1]
    BY <1>2, <2>2
  <2>4. q # <<>>
    BY <2>2, EmptySeq
  <2> QED BY <2>2, <2>3, <2>4 DEF InTime
<1> QED BY ONLY <1>0, <1>2, <1>3, <1>4, <1>5, <1>6, Zenon

(* A hit that may be taken back, or one that a failure leaves behind: the   *)
(* store holds more, nothing is let through.                               *)
LEMMA KeptMore ==
  ASSUME NEW s, NEW lim \in Nat \ {0}, NEW H, NEW A, NEW pend, NEW more, NEW pr, NEW n \in Nat, NEW h \in Hit,
         h[1] = n, Owes(s, lim, H, A, pend, pr, n),
         \A X \in Nat : pend[X] \in Nat /\ more[X] \in Nat /\ more[X] <= pend[X] + One(s, h, X)
  PROVE  Owes(s, lim, Append(Left(s, H, n), h), A, more, pr, n)
<1> DEFINE L == Left(s, H, n)
           R == Append(L, h)
<1>l. L = Left(s, H, n)
  OBVIOUS
<1> HIDE DEF L
<1>n. n \in Nat /\ h \in Hit
  OBVIOUS
<1>w. Window \in Nat
  BY RateAssumption DEF Window
<1>1. /\ H \in Seq(Hit) /\ InTime(H) /\ Dated(H, n)
      /\ A \in Seq(Hit) /\ InTime(A) /\ Dated(A, n)
  BY DEF Owes
<1>2. /\ L \in Seq(Hit) /\ InTime(L) /\ Dated(L, n)
      /\ \A X \in Nat : X >= n => CountAt(s, L, X) = CountAt(s, H, X)
      /\ L # <<>> => H # <<>> /\ H[1][1] <= L[1][1]
  <2>1. /\ Left(s, H, n) \in Seq(Hit) /\ InTime(Left(s, H, n)) /\ Dated(Left(s, H, n), n)
        /\ \A X \in Nat : X >= n => CountAt(s, Left(s, H, n), X) = CountAt(s, H, X)
        /\ Len(Left(s, H, n)) = CountAt(s, H, n)
        /\ Left(s, H, n) # <<>> => H # <<>> /\ H[1][1] <= Left(s, H, n)[1][1]
    BY ONLY <1>1, <1>n, LeftKeeps
  <2> QED BY ONLY <1>l, <2>1, Zenon
<1>3. \A i \in 1..Len(L) : L[i][1] <= h[1]
  BY <1>2 DEF Dated
<1>4. /\ R \in Seq(Hit) /\ InTime(R) /\ Len(R) = Len(L) + 1
      /\ \A i \in 1..Len(L) : R[i] = L[i]
      /\ R[Len(L) + 1] = h
      /\ \A X \in Nat : CountAt(s, R, X) = CountAt(s, L, X) + One(s, h, X)
  BY ONLY <1>2, <1>3, <1>n, AppendKeeps
<1> HIDE DEF R
<1>5. Len(L) \in Nat /\ Len(H) \in Nat
  BY <1>1, <1>2, LenProperties
<1>6. Dated(R, n)
  <2> SUFFICES ASSUME NEW i \in 1..Len(R) PROVE R[i][1] <= n
    BY DEF Dated
  <2>1. i \in 1..Len(L) \/ i = Len(L) + 1
    BY <1>4, <1>5
  <2> QED BY <1>2, <1>4, <2>1 DEF Dated
<1>7. ASSUME NEW X \in Nat, X >= n
      PROVE  CountAt(s, A, X) + more[X] <= CountAt(s, R, X)
  <2>1. CountAt(s, A, X) \in Nat /\ CountAt(s, H, X) \in Nat /\ One(s, h, X) \in Nat
    BY <1>1, CountNat DEF One
  <2>2. CountAt(s, A, X) + pend[X] <= CountAt(s, H, X)
    BY <1>7 DEF Owes
  <2>3. CountAt(s, R, X) = CountAt(s, H, X) + One(s, h, X)
    BY <1>2, <1>4, <1>7
  <2>4. pend[X] \in Nat /\ more[X] \in Nat /\ more[X] <= pend[X] + One(s, h, X)
    OBVIOUS
  <2> QED BY <2>1, <2>2, <2>3, <2>4
<1>8. ASSUME R # <<>>, NEW X \in Nat, X >= n, X > R[1][1] + Window
      PROVE  CountAt(s, A, X) < lim
  <2>1. CASE L = <<>>
    <3>1. R[1] = h
      BY <1>4, <2>1, EmptySeq
    <3>2. CountAt(s, A, X) = 0
      BY <1>1, <1>8, <3>1, CountNone
    <3> QED BY <3>2
  <2>2. CASE L # <<>>
    <3>1. 1 \in 1..Len(L) /\ H # <<>> /\ 1 \in 1..Len(H)
      BY <1>1, <1>2, <1>5, <2>2, EmptySeq
    <3>2. R[1] = L[1] /\ H[1][1] <= L[1][1] /\ H[1][1] \in Nat /\ L[1][1] \in Nat
      BY <1>1, <1>2, <1>4, <2>2, <3>1, ElementOfSeq DEF Hit
    <3>3. X > H[1][1] + Window
      BY <1>w, <1>8, <3>2
    <3> QED BY <1>8, <3>1, <3>3 DEF Owes
  <2> QED BY <2>1, <2>2
<1>9. /\ pr \in 0..Never /\ CountAt(s, A, n) <= lim
      /\ \A X \in Nat : X >= n /\ X >= pr => CountAt(s, A, X) < lim
  BY DEF Owes
<1> QED BY <1>1, <1>4, <1>6, <1>7, <1>8, <1>9 DEF Owes, R, L

(* Fewer are to be taken back.                                             *)
LEMMA KeptFewer ==
  ASSUME NEW s, NEW lim, NEW H, NEW A, NEW pend, NEW less, NEW pr, NEW n \in Nat,
         Owes(s, lim, H, A, pend, pr, n),
         \A X \in Nat : pend[X] \in Nat /\ less[X] \in Nat /\ less[X] <= pend[X]
  PROVE  Owes(s, lim, H, A, less, pr, n)
<1>1. /\ H \in Seq(Hit) /\ InTime(H) /\ Dated(H, n)
      /\ A \in Seq(Hit) /\ InTime(A) /\ Dated(A, n)
  BY DEF Owes
<1>2. ASSUME NEW X \in Nat, X >= n
      PROVE  CountAt(s, A, X) + less[X] <= CountAt(s, H, X)
  <2>1. CountAt(s, A, X) \in Nat /\ CountAt(s, H, X) \in Nat
    BY <1>1, CountNat
  <2>2. CountAt(s, A, X) + pend[X] <= CountAt(s, H, X)
    BY <1>2 DEF Owes
  <2>3. pend[X] \in Nat /\ less[X] \in Nat /\ less[X] <= pend[X]
    OBVIOUS
  <2> QED BY <2>1, <2>2, <2>3
<1> QED BY <1>1, <1>2 DEF Owes

(* Never is after everything: no hit counts then.                          *)
LEMMA NeverLater ==
  /\ Never \in Nat /\ Never \in 0..Never
  /\ \A n \in 0..MaxTime, X \in Nat : X >= Never => X > n + Window
<1>1. /\ MaxTime \in Nat /\ WindowSeconds \in Nat /\ Second \in Nat
      /\ WindowSeconds * Second \in Nat
      /\ (WindowSeconds + 1) * Second = WindowSeconds * Second + Second
  BY RateAssumption
<1> QED BY <1>1 DEF Never, Window

(* A hit is let through when fewer than the limit are left.                *)
LEMMA KeptAccept ==
  ASSUME NEW s, NEW lim \in Nat \ {0}, NEW H, NEW A, NEW pend, NEW pr, NEW n \in 0..MaxTime, NEW h \in Hit,
         h[1] = n, Owes(s, lim, H, A, pend, pr, n),
         Len(Left(s, H, n)) < lim,
         \A X \in Nat : pend[X] \in Nat
  PROVE  Owes(s, lim, Append(Left(s, H, n), h), Append(A, h), pend, Never, n)
<1> DEFINE L == Left(s, H, n)
           R == Append(L, h)
           B == Append(A, h)
<1>l. L = Left(s, H, n)
  OBVIOUS
<1>0. Len(L) < lim
  OBVIOUS
<1> HIDE DEF L
<1>w. Window \in Nat /\ MaxTime \in Nat /\ n \in Nat
  BY RateAssumption DEF Window
<1>1. /\ H \in Seq(Hit) /\ InTime(H) /\ Dated(H, n)
      /\ A \in Seq(Hit) /\ InTime(A) /\ Dated(A, n)
  BY DEF Owes
<1>2. /\ L \in Seq(Hit) /\ InTime(L) /\ Dated(L, n)
      /\ \A X \in Nat : X >= n => CountAt(s, L, X) = CountAt(s, H, X)
  <2>1. /\ Left(s, H, n) \in Seq(Hit) /\ InTime(Left(s, H, n)) /\ Dated(Left(s, H, n), n)
        /\ \A X \in Nat : X >= n => CountAt(s, Left(s, H, n), X) = CountAt(s, H, X)
        /\ Len(Left(s, H, n)) = CountAt(s, H, n)
        /\ Left(s, H, n) # <<>> => H # <<>> /\ H[1][1] <= Left(s, H, n)[1][1]
    BY ONLY <1>w, <1>1, LeftKeeps
  <2> QED BY ONLY <1>l, <2>1, Zenon
<1>3. /\ \A i \in 1..Len(L) : L[i][1] <= h[1]
      /\ \A i \in 1..Len(A) : A[i][1] <= h[1]
  BY <1>1, <1>2 DEF Dated
<1>4. /\ R \in Seq(Hit) /\ InTime(R) /\ Len(R) = Len(L) + 1
      /\ \A i \in 1..Len(L) : R[i] = L[i]
      /\ R[Len(L) + 1] = h
      /\ \A X \in Nat : CountAt(s, R, X) = CountAt(s, L, X) + One(s, h, X)
  BY <1>2, <1>3, AppendKeeps
<1>5. /\ B \in Seq(Hit) /\ InTime(B) /\ Len(B) = Len(A) + 1
      /\ \A i \in 1..Len(A) : B[i] = A[i]
      /\ B[Len(A) + 1] = h
      /\ \A X \in Nat : CountAt(s, B, X) = CountAt(s, A, X) + One(s, h, X)
  BY <1>1, <1>3, AppendKeeps
<1> HIDE DEF R, B
<1>6. Len(L) \in Nat /\ Len(A) \in Nat
  BY <1>1, <1>2, LenProperties
<1>7. Dated(R, n) /\ Dated(B, n)
  <2>0. h[1] <= n
    BY <1>w
  <2>1. ASSUME NEW i \in 1..Len(R) PROVE R[i][1] <= n
    <3>1. i \in 1..Len(L) \/ i = Len(L) + 1
      BY <1>4, <1>6
    <3>2. CASE i \in 1..Len(L)
      BY ONLY <1>2, <1>4, <3>2 DEF Dated
    <3>3. CASE i = Len(L) + 1
      BY ONLY <1>4, <2>0, <3>3
    <3> QED BY <3>1, <3>2, <3>3
  <2>2. ASSUME NEW i \in 1..Len(B) PROVE B[i][1] <= n
    <3>1. i \in 1..Len(A) \/ i = Len(A) + 1
      BY <1>5, <1>6
    <3>2. CASE i \in 1..Len(A)
      BY ONLY <1>1, <1>5, <3>2 DEF Dated
    <3>3. CASE i = Len(A) + 1
      BY ONLY <1>5, <2>0, <3>3
    <3> QED BY <3>1, <3>2, <3>3
  <2> QED BY <2>1, <2>2 DEF Dated
<1>8. ASSUME NEW X \in Nat, X >= n
      PROVE  /\ CountAt(s, B, X) + pend[X] <= CountAt(s, R, X)
             /\ CountAt(s, B, X) <= CountAt(s, R, X)
             /\ CountAt(s, B, X) \in Nat /\ CountAt(s, R, X) \in Nat
  <2>1. CountAt(s, A, X) \in Nat /\ CountAt(s, H, X) \in Nat /\ One(s, h, X) \in Nat
    BY <1>1, CountNat DEF One
  <2>2. CountAt(s, A, X) + pend[X] <= CountAt(s, H, X)
    BY <1>8 DEF Owes
  <2>3. CountAt(s, R, X) = CountAt(s, H, X) + One(s, h, X)
    BY <1>2, <1>4, <1>8
  <2>4. CountAt(s, B, X) = CountAt(s, A, X) + One(s, h, X) /\ pend[X] \in Nat
    BY <1>5
  <2> QED BY ONLY <2>1, <2>2, <2>3, <2>4
<1>9. CountAt(s, B, n) <= lim
  <2>1. CountAt(s, R, n) <= Len(R) /\ CountAt(s, B, n) <= CountAt(s, R, n)
    BY <1>w, <1>4, <1>8, CountNat
  <2>2. CountAt(s, B, n) \in Nat /\ CountAt(s, R, n) \in Nat /\ n >= n
    BY <1>w, <1>8
  <2> QED BY <1>0, <1>4, <1>6, <2>1, <2>2
<1>10. ASSUME R # <<>>, NEW X \in Nat, X >= n, X > R[1][1] + Window
       PROVE  CountAt(s, B, X) < lim
  <2>1. CountAt(s, R, X) <= Len(R) - 1
    BY <1>4, <1>10, CountFirstOld
  <2>2. /\ CountAt(s, B, X) <= CountAt(s, R, X)
        /\ CountAt(s, B, X) \in Nat /\ CountAt(s, R, X) \in Nat
    BY <1>8, <1>10
  <2> QED BY <1>0, <1>4, <1>6, <2>1, <2>2
<1>11. ASSUME NEW X \in Nat, X >= Never
       PROVE  CountAt(s, B, X) < lim
  <2>1. X > n + Window
    BY <1>w, <1>11, NeverLater
  <2>2. CountAt(s, B, X) = 0
    BY <1>w, <1>5, <1>7, <2>1, CountNone
  <2> QED BY <2>2
<1>12. Never \in 0..Never
  BY NeverLater
<1> QED BY <1>4, <1>5, <1>7, <1>8, <1>9, <1>10, <1>11, <1>12 DEF Owes, R, L, B

(* A refused hit is taken back.                                            *)
LEMMA KeptRemove ==
  ASSUME NEW s, NEW lim, NEW H, NEW A, NEW pend, NEW less, NEW pr, NEW n \in Nat, NEW h \in Hit,
         Owes(s, lim, H, A, pend, pr, n),
         \A X \in Nat : pend[X] \in Nat /\ less[X] \in Nat /\ less[X] + One(s, h, X) <= pend[X]
  PROVE  Owes(s, lim, Seqs!RemoveFirst(H, h), A, less, pr, n)
<1> DEFINE R == Seqs!RemoveFirst(H, h)
<1>w. Window \in Nat
  BY RateAssumption DEF Window
<1>1. /\ H \in Seq(Hit) /\ InTime(H) /\ Dated(H, n)
      /\ A \in Seq(Hit) /\ InTime(A) /\ Dated(A, n)
  BY DEF Owes
<1>2. /\ R \in Seq(Hit) /\ InTime(R)
      /\ \A i \in 1..Len(R) : \E j \in i..Len(H) : R[i] = H[j]
      /\ \A t \in Nat : CountAt(s, H, t) <= CountAt(s, R, t) + One(s, h, t)
  BY <1>1, CountRemove
<1> HIDE DEF R
<1>3. Len(R) \in Nat /\ Len(H) \in Nat
  BY <1>1, <1>2, LenProperties
<1>4. Dated(R, n)
  <2> SUFFICES ASSUME NEW i \in 1..Len(R) PROVE R[i][1] <= n
    BY DEF Dated
  <2>1. PICK j \in i..Len(H) : R[i] = H[j]
    BY <1>2
  <2>2. j \in 1..Len(H)
    BY <1>3
  <2> QED BY <1>1, <2>1, <2>2 DEF Dated
<1>5. ASSUME NEW X \in Nat, X >= n
      PROVE  CountAt(s, A, X) + less[X] <= CountAt(s, R, X)
  <2>1. CountAt(s, A, X) \in Nat /\ CountAt(s, H, X) \in Nat /\ One(s, h, X) \in Nat
        /\ CountAt(s, R, X) \in Nat
    BY <1>1, <1>2, CountNat DEF One
  <2>2. CountAt(s, A, X) + pend[X] <= CountAt(s, H, X)
    BY <1>5 DEF Owes
  <2>3. CountAt(s, H, X) <= CountAt(s, R, X) + One(s, h, X)
    BY <1>2
  <2>4. pend[X] \in Nat /\ less[X] \in Nat /\ less[X] + One(s, h, X) <= pend[X]
    OBVIOUS
  <2> QED BY <2>1, <2>2, <2>3, <2>4
<1>6. ASSUME R # <<>>, NEW X \in Nat, X >= n, X > R[1][1] + Window
      PROVE  CountAt(s, A, X) < lim
  <2>1. 1 \in 1..Len(R)
    BY <1>2, <1>3, <1>6, EmptySeq
  <2>2. PICK j \in 1..Len(H) : R[1] = H[j]
    BY <1>2, <2>1
  <2>3. 1 \in 1..Len(H) /\ 1 <= j
    BY <1>3
  <2>4. H # <<>> /\ H[1][1] <= R[1][1]
    BY <1>1, <2>2, <2>3, EmptySeq DEF InTime
  <2>5. H[1][1] \in Nat /\ R[1][1] \in Nat
    BY <1>1, <1>2, <2>1, <2>3, ElementOfSeq DEF Hit
  <2>6. X > H[1][1] + Window
    BY ONLY <1>w, <1>6, <2>4, <2>5, X \in Nat
  <2> QED BY <1>6, <2>4, <2>6 DEF Owes
<1>7. /\ pr \in 0..Never /\ CountAt(s, A, n) <= lim
      /\ \A X \in Nat : X >= n /\ X >= pr => CountAt(s, A, X) < lim
  BY DEF Owes
<1> QED BY <1>1, <1>2, <1>4, <1>5, <1>6, <1>7 DEF Owes, R

(* A store drops its old hits.                                             *)
LEMMA KeptDrop ==
  ASSUME NEW s, NEW lim, NEW H, NEW A, NEW pend, NEW pr, NEW n \in Nat,
         Owes(s, lim, H, A, pend, pr, n)
  PROVE  Owes(s, lim, Left(s, H, n), A, pend, pr, n)
<1> DEFINE L == Left(s, H, n)
<1>l. L = Left(s, H, n)
  OBVIOUS
<1> HIDE DEF L
<1>w. Window \in Nat
  BY RateAssumption DEF Window
<1>1. /\ H \in Seq(Hit) /\ InTime(H) /\ Dated(H, n)
      /\ A \in Seq(Hit) /\ InTime(A) /\ Dated(A, n)
  BY DEF Owes
<1>2. /\ L \in Seq(Hit) /\ InTime(L) /\ Dated(L, n)
      /\ \A X \in Nat : X >= n => CountAt(s, L, X) = CountAt(s, H, X)
      /\ L # <<>> => H # <<>> /\ H[1][1] <= L[1][1]
  <2>1. /\ Left(s, H, n) \in Seq(Hit) /\ InTime(Left(s, H, n)) /\ Dated(Left(s, H, n), n)
        /\ \A X \in Nat : X >= n => CountAt(s, Left(s, H, n), X) = CountAt(s, H, X)
        /\ Len(Left(s, H, n)) = CountAt(s, H, n)
        /\ Left(s, H, n) # <<>> => H # <<>> /\ H[1][1] <= Left(s, H, n)[1][1]
    BY <1>1, LeftKeeps
  <2> QED BY ONLY <1>l, <2>1, Zenon
<1>3. \A X \in Nat : X >= n => CountAt(s, A, X) + pend[X] <= CountAt(s, L, X)
  BY <1>2 DEF Owes
<1>4. ASSUME L # <<>>, NEW X \in Nat, X >= n, X > L[1][1] + Window
      PROVE  CountAt(s, A, X) < lim
  <2>1. Len(L) \in Nat /\ Len(H) \in Nat
    BY <1>1, <1>2, LenProperties
  <2>2. 1 \in 1..Len(L) /\ H # <<>> /\ 1 \in 1..Len(H)
    BY <1>1, <1>2, <1>4, <2>1, EmptySeq
  <2>3. H[1][1] \in Nat /\ L[1][1] \in Nat
    BY <1>1, <1>2, <2>2, ElementOfSeq DEF Hit
  <2>4. X > H[1][1] + Window
    BY <1>w, <1>2, <1>4, <2>3
  <2> QED BY <1>4, <2>2, <2>4 DEF Owes
<1>5. /\ pr \in 0..Never /\ CountAt(s, A, n) <= lim
      /\ \A X \in Nat : X >= n /\ X >= pr => CountAt(s, A, X) < lim
  BY DEF Owes
<1> QED BY <1>1, <1>2, <1>3, <1>4, <1>5 DEF Owes, L

(* A refused caller is told a time.                                        *)
LEMMA KeptPromise ==
  ASSUME NEW s, NEW lim \in Nat \ {0}, NEW H, NEW A, NEW pend, NEW pr, NEW n \in Nat, NEW x \in Nat,
         Owes(s, lim, H, A, pend, pr, n),
         \A X \in Nat : pend[X] \in Nat,
         H # <<>> => x > H[1][1] + Window
  PROVE  Owes(s, lim, H, A, pend, Earlier(pr, x), n)
<1>1. /\ H \in Seq(Hit) /\ InTime(H) /\ Dated(H, n)
      /\ A \in Seq(Hit) /\ InTime(A) /\ Dated(A, n)
      /\ pr \in 0..Never
  BY DEF Owes
<1>w. Window \in Nat /\ Never \in Nat
  BY NeverLater, RateAssumption DEF Window
<1>2. Earlier(pr, x) \in 0..Never
  BY <1>1, <1>w DEF Earlier
<1>3. ASSUME NEW X \in Nat, X >= n, X >= Earlier(pr, x)
      PROVE  CountAt(s, A, X) < lim
  <2>1. CASE X >= pr
    BY <1>3, <2>1 DEF Owes
  <2>2. CASE ~(X >= pr)
    <3>1. X >= x
      BY <1>1, <1>3, <2>2 DEF Earlier
    <3>2. CASE H = <<>>
      <4>1. CountAt(s, H, X) <= 0 /\ CountAt(s, H, X) \in Nat /\ CountAt(s, A, X) \in Nat
        <5>1. Len(H) = 0
          BY <3>2
        <5> QED BY <1>1, <5>1, CountNat
      <4>2. CountAt(s, A, X) + pend[X] <= CountAt(s, H, X) /\ pend[X] \in Nat
        BY <1>3 DEF Owes
      <4> QED BY <4>1, <4>2
    <3>3. CASE H # <<>>
      <4>0. Len(H) \in Nat /\ Len(H) # 0
        BY <1>1, <3>3, LenProperties, EmptySeq
      <4>1. H[1][1] \in Nat
        BY <1>1, <4>0, ElementOfSeq DEF Hit
      <4>2. X > H[1][1] + Window
        BY <1>w, <3>1, <3>3, <4>1
      <4> QED BY <1>3, <3>3, <4>2 DEF Owes
    <3> QED BY <3>2, <3>3
  <2> QED BY <2>1, <2>2
<1> QED BY <1>1, <1>2, <1>3 DEF Owes

(* Time passes.                                                            *)
LEMMA KeptTick ==
  ASSUME NEW s, NEW lim \in Nat, NEW H, NEW A, NEW pend, NEW pr, NEW n \in Nat, NEW m \in Nat, n <= m,
         Owes(s, lim, H, A, pend, pr, n)
  PROVE  Owes(s, lim, H, Left(s, A, m), pend, pr, m)
<1> DEFINE B == Left(s, A, m)
<1>b. B = Left(s, A, m)
  OBVIOUS
<1> HIDE DEF B
<1>n. n \in Nat /\ m \in Nat /\ n <= m
  OBVIOUS
<1>1. /\ H \in Seq(Hit) /\ InTime(H) /\ Dated(H, n)
      /\ A \in Seq(Hit) /\ InTime(A) /\ Dated(A, n)
      /\ pr \in 0..Never
  BY DEF Owes
<1>2. /\ B \in Seq(Hit) /\ InTime(B) /\ Dated(B, n)
      /\ \A X \in Nat : X >= m => CountAt(s, B, X) = CountAt(s, A, X)
      /\ Len(B) = CountAt(s, A, m)
  <2>1. /\ Left(s, A, m) \in Seq(Hit) /\ InTime(Left(s, A, m)) /\ Dated(Left(s, A, m), n)
        /\ \A X \in Nat : X >= m => CountAt(s, Left(s, A, m), X) = CountAt(s, A, X)
        /\ Len(Left(s, A, m)) = CountAt(s, A, m)
        /\ Left(s, A, m) # <<>> => A # <<>> /\ A[1][1] <= Left(s, A, m)[1][1]
    BY ONLY <1>1, <1>n, LeftKeeps
  <2> QED BY ONLY <1>b, <2>1, Zenon
<1>3. Dated(H, m) /\ Dated(B, m)
  <2>1. \A q \in Seq(Hit) : Dated(q, n) => Dated(q, m)
    <3> TAKE q \in Seq(Hit)
    <3>1. \A i \in 1..Len(q) : q[i][1] \in Nat
      BY ElementOfSeq, LenProperties DEF Hit
    <3> QED BY <1>n, <3>1 DEF Dated
  <2> QED BY <1>1, <1>2, <2>1
<1>4. \A X \in Nat : X >= m => X >= n /\ CountAt(s, B, X) = CountAt(s, A, X)
  BY <1>n, <1>2
<1>5. \A X \in Nat : X >= m => CountAt(s, B, X) + pend[X] <= CountAt(s, H, X)
  BY <1>4 DEF Owes
<1>6. CountAt(s, B, m) <= lim
  <2>1. CountAt(s, A, m) <= CountAt(s, A, n)
    BY ONLY <1>1, <1>n, CountLater
  <2>2. CountAt(s, A, m) \in Nat /\ CountAt(s, A, n) \in Nat
    BY ONLY <1>1, <1>n, CountNat
  <2>3. CountAt(s, A, n) <= lim /\ CountAt(s, B, m) = CountAt(s, A, m)
    BY <1>n, <1>4 DEF Owes
  <2> QED BY <2>1, <2>2, <2>3
<1>7. H # <<>> => \A X \in Nat : X >= m /\ X > H[1][1] + Window => CountAt(s, B, X) < lim
  BY <1>4 DEF Owes
<1>8. \A X \in Nat : X >= m /\ X >= pr => CountAt(s, B, X) < lim
  BY <1>4 DEF Owes
<1>9. Owes(s, lim, H, B, pend, pr, m)
  BY <1>1, <1>2, <1>3, <1>5, <1>6, <1>7, <1>8 DEF Owes
<1> QED BY <1>b, <1>9

(* A store starts with nothing.                                            *)
LEMMA KeptStart ==
  ASSUME NEW s, NEW lim \in Nat \ {0}, NEW pend,
         \A X \in Nat : pend[X] = 0
  PROVE  Owes(s, lim, <<>>, <<>>, pend, Never, 0)
<1> DEFINE e == <<>>
<1>1. e \in Seq(Hit) /\ Len(e) = 0 /\ e = <<>>
  OBVIOUS
<1> HIDE DEF e
<1>2. InTime(e) /\ Dated(e, 0)
  BY <1>1 DEF InTime, Dated
<1>3. \A X \in Nat : CountAt(s, e, X) = 0
  <2> TAKE X \in Nat
  <2>1. CountAt(s, e, X) \in Nat /\ CountAt(s, e, X) <= Len(e)
    BY <1>1, <1>2, CountNat
  <2> QED BY <1>1, <2>1
<1>4. Owes(s, lim, e, e, pend, Never, 0)
  BY <1>1, <1>2, <1>3, NeverLater DEF Owes
<1> QED BY <1>1, <1>4

(* Retry-After is past the end of the oldest hit's window.                 *)
LEMMA RetryIsLater ==
  ASSUME NEW o \in Nat, NEW at \in Nat, NEW n \in Nat, at <= n
  PROVE  /\ n + RetryAfter(o, at) * Second \in Nat
         /\ n + RetryAfter(o, at) * Second > o + Window
<1> DEFINE y == o + Window - at
<1>1. y \in Int /\ Second \in Nat \ {0} /\ Window \in Nat
  BY RateAssumption DEF Window
<1>e. y = o + Window - at
  OBVIOUS
<1> HIDE DEF y
<1>2. (y \div Second + 1) * Second > y /\ y \div Second \in Int
  BY <1>1, NextMultiple
<1>3. RetryAfter(o, at) = y \div Second + 1
  BY <1>e DEF RetryAfter
<1> DEFINE r == RetryAfter(o, at) * Second
<1>4. r \in Int /\ r > y
  BY <1>1, <1>2, <1>3
<1> HIDE DEF r
<1>5. n + r \in Nat /\ n + r > o + Window
  BY <1>1, <1>e, <1>4
<1> QED BY <1>5 DEF r

(* The state of the limiter.                                               *)
RequestInProgress == [pc : {"checking", "removing", "asking"}, p : Processes, user : Clients,
                      at : 0..MaxTime, todo : Seq(Key)]

CallTyped(c) ==
    \/ call[c] = Idle
    \/ /\ call[c] \in RequestInProgress /\ call[c].todo # <<>> /\ call[c].at <= now
       /\ limiter[call[c].p] # "none"
       /\ call[c].pc # "checking" => limiter[call[c].p] = Redis

(* The hits that requests are about to take back, of those that count.     *)
TakingBack(s, k, X) ==
    {c \in Calls : /\ call[c].pc = "removing" /\ Store(c) = s /\ KeyOf(c) = k
                   /\ Alive(s, <<call[c].at, call[c].user>>, X)}

Waiting(s, k) == [X \in Nat |-> Cardinality(TakingBack(s, k, X))]

StoreKept(s, k) ==
    Owes(s, LimitOf(k), hits[s][k], accepted[s][k], Waiting(s, k), promise[s][k], now)

RateTypes ==
    /\ bucket \in Buckets
    /\ now \in 0..MaxTime /\ trouble \in 0..MaxTrouble
    /\ limiter \in [Processes -> Stores \cup {"none"}]
    /\ \A p \in Processes : limiter[p] \in {"none", p, Redis}
    /\ hits \in [Stores -> [Key -> Seq(Hit)]]
    /\ accepted \in [Stores -> [Key -> Seq(Hit)]]
    /\ promise \in [Stores -> [Key -> 0..Never]]
    /\ call \in [Calls -> RequestInProgress \cup {Idle}]
    /\ \A c \in Calls : CallTyped(c)

RateInv == RateTypes /\ \A s \in Stores, k \in Key : StoreKept(s, k)

LEMMA UpdateAt ==
  ASSUME NEW S, NEW K, NEW T, NEW f \in [S -> [K -> T]], NEW s \in S, NEW k \in K, NEW v \in T
  PROVE  LET g == [f EXCEPT ![s][k] = v]
         IN  /\ g \in [S -> [K -> T]]
             /\ g[s][k] = v
             /\ \A t \in S, l \in K : ~(t = s /\ l = k) => g[t][l] = f[t][l]
OBVIOUS

LEMMA LimitPositive ==
  ASSUME NEW k
  PROVE  LimitOf(k) \in Nat \ {0}
<1>1. Limit \in Nat \ {0} /\ Burst \in Nat
  BY RateAssumption
<1>2. Burst > 1 => Limit * Burst \in Nat \ {0}
  BY <1>1
<1> QED BY <1>1, <1>2 DEF LimitOf

LEMMA TakingBackFinite ==
  ASSUME NEW s, NEW k, NEW X
  PROVE  /\ IsFiniteSet(TakingBack(s, k, X)) /\ Cardinality(TakingBack(s, k, X)) \in Nat
         /\ X \in Nat => Waiting(s, k)[X] = Cardinality(TakingBack(s, k, X))
<1>1. IsFiniteSet(Calls) /\ TakingBack(s, k, X) \subseteq Calls
  BY RateAssumption DEF TakingBack
<1>2. IsFiniteSet(TakingBack(s, k, X)) /\ Cardinality(TakingBack(s, k, X)) \in Nat
  BY <1>1, FS_Subset, FS_CardinalityType
<1> QED BY <1>2 DEF Waiting

LEMMA TakingBackFiniteNext ==
  ASSUME NEW s, NEW k, NEW X
  PROVE  /\ IsFiniteSet(TakingBack(s, k, X)') /\ Cardinality(TakingBack(s, k, X)') \in Nat
         /\ X \in Nat => Waiting(s, k)'[X] = Cardinality(TakingBack(s, k, X)')
<1>1. IsFiniteSet(Calls) /\ TakingBack(s, k, X)' \subseteq Calls
  BY RateAssumption DEF TakingBack
<1>2. IsFiniteSet(TakingBack(s, k, X)') /\ Cardinality(TakingBack(s, k, X)') \in Nat
  BY <1>1, FS_Subset, FS_CardinalityType
<1> QED BY <1>2 DEF Waiting

WaitFewer(s, k) ==
    \A X \in Nat : /\ Waiting(s, k)[X] \in Nat /\ Waiting(s, k)'[X] \in Nat
                   /\ Waiting(s, k)'[X] <= Waiting(s, k)[X]

(* Fewer requests are about to take a hit back.                            *)
LEMMA FewerWait ==
  ASSUME NEW s, NEW k,
         \A c \in Calls : call'[c].pc = "removing" =>
             /\ call[c].pc = "removing" /\ call'[c] = call[c]
             /\ limiter'[call[c].p] = limiter[call[c].p]
  PROVE  WaitFewer(s, k)
<1> SUFFICES ASSUME NEW X \in Nat
             PROVE  /\ Waiting(s, k)[X] \in Nat /\ Waiting(s, k)'[X] \in Nat
                    /\ Waiting(s, k)'[X] <= Waiting(s, k)[X]
  BY DEF WaitFewer
<1>1. TakingBack(s, k, X)' \subseteq TakingBack(s, k, X)
  BY DEF TakingBack, Store, KeyOf, Alive
<1>2. Cardinality(TakingBack(s, k, X)') <= Cardinality(TakingBack(s, k, X))
  BY <1>1, TakingBackFinite, FS_Subset
<1> QED BY <1>2, TakingBackFinite, TakingBackFiniteNext

(* One more request is about to.                                           *)
LEMMA OneMoreWaits ==
  ASSUME NEW s, NEW k, NEW c \in Calls, NEW h,
         \A d \in Calls \ {c} : call'[d] = call[d],
         UNCHANGED limiter,
         h = <<call'[c].at, call'[c].user>>,
         NEW X \in Nat
  PROVE  /\ Waiting(s, k)[X] \in Nat /\ Waiting(s, k)'[X] \in Nat
         /\ Waiting(s, k)'[X] <= Waiting(s, k)[X] + One(s, h, X)
<1>0. \A d \in Calls \ {c} : d \in TakingBack(s, k, X)' => d \in TakingBack(s, k, X)
  BY DEF TakingBack, Store, KeyOf, Alive
<1>1. CASE c \in TakingBack(s, k, X)'
  <2>1. TakingBack(s, k, X)' \subseteq TakingBack(s, k, X) \cup {c}
    BY <1>0 DEF TakingBack
  <2>2. One(s, h, X) = 1
    BY <1>1 DEF TakingBack, One, Alive
  <2>3. /\ IsFiniteSet(TakingBack(s, k, X) \cup {c})
        /\ Cardinality(TakingBack(s, k, X) \cup {c}) <= Cardinality(TakingBack(s, k, X)) + 1
    <3>1. IsFiniteSet(TakingBack(s, k, X)) /\ Cardinality(TakingBack(s, k, X)) \in Nat
      BY TakingBackFinite
    <3>2. /\ IsFiniteSet(TakingBack(s, k, X) \cup {c})
          /\ \/ Cardinality(TakingBack(s, k, X) \cup {c}) = Cardinality(TakingBack(s, k, X))
             \/ Cardinality(TakingBack(s, k, X) \cup {c}) = Cardinality(TakingBack(s, k, X)) + 1
      BY ONLY <3>1, FS_AddElement, Zenon
    <3> HIDE DEF TakingBack
    <3> QED BY ONLY <3>1, <3>2
  <2>4. Cardinality(TakingBack(s, k, X)') <= Cardinality(TakingBack(s, k, X) \cup {c})
    BY <2>1, <2>3, FS_Subset
  <2>5. Cardinality(TakingBack(s, k, X) \cup {c}) \in Nat
    BY <2>3, FS_CardinalityType
  <2> QED BY <2>2, <2>3, <2>4, <2>5, TakingBackFinite, TakingBackFiniteNext
<1>2. CASE c \notin TakingBack(s, k, X)'
  <2>1. TakingBack(s, k, X)' \subseteq TakingBack(s, k, X)
    BY <1>0, <1>2 DEF TakingBack
  <2>2. Cardinality(TakingBack(s, k, X)') <= Cardinality(TakingBack(s, k, X))
    BY <2>1, TakingBackFinite, FS_Subset
  <2>3. One(s, h, X) \in Nat
    BY DEF One
  <2> QED BY <2>2, <2>3, TakingBackFinite, TakingBackFiniteNext
<1> QED BY <1>1, <1>2

(* One that was about to has done so.                                      *)
LEMMA OneFewerWaits ==
  ASSUME NEW s, NEW k, NEW c \in Calls, NEW h,
         \A d \in Calls \ {c} : call'[d] = call[d],
         UNCHANGED limiter,
         call[c].pc = "removing", call'[c].pc # "removing",
         Store(c) = s, KeyOf(c) = k,
         h = <<call[c].at, call[c].user>>,
         NEW X \in Nat
  PROVE  /\ Waiting(s, k)[X] \in Nat /\ Waiting(s, k)'[X] \in Nat
         /\ Waiting(s, k)'[X] + One(s, h, X) <= Waiting(s, k)[X]
<1>0. \A d \in Calls \ {c} : d \in TakingBack(s, k, X)' => d \in TakingBack(s, k, X)
  BY DEF TakingBack, Store, KeyOf, Alive
<1>1. c \notin TakingBack(s, k, X)' /\ TakingBack(s, k, X)' \subseteq Calls
  BY DEF TakingBack
<1>2. CASE Alive(s, h, X)
  <2>1. c \in TakingBack(s, k, X)
    BY <1>2 DEF TakingBack
  <2>2. TakingBack(s, k, X)' \subseteq TakingBack(s, k, X) \ {c}
    BY <1>0, <1>1
  <2>3. /\ IsFiniteSet(TakingBack(s, k, X) \ {c})
        /\ Cardinality(TakingBack(s, k, X) \ {c}) = Cardinality(TakingBack(s, k, X)) - 1
    BY <2>1, TakingBackFinite, FS_RemoveElement
  <2>4. Cardinality(TakingBack(s, k, X)') <= Cardinality(TakingBack(s, k, X) \ {c})
    BY <2>2, <2>3, FS_Subset
  <2>5. One(s, h, X) = 1
    BY <1>2 DEF One
  <2> QED BY <2>3, <2>4, <2>5, TakingBackFinite, TakingBackFiniteNext
<1>3. CASE ~Alive(s, h, X)
  <2>1. TakingBack(s, k, X)' \subseteq TakingBack(s, k, X)
    BY <1>0, <1>1
  <2>2. Cardinality(TakingBack(s, k, X)') <= Cardinality(TakingBack(s, k, X))
    BY <2>1, TakingBackFinite, FS_Subset
  <2>3. One(s, h, X) = 0
    BY <1>3 DEF One
  <2> QED BY <2>2, <2>3, TakingBackFinite, TakingBackFiniteNext
<1> QED BY <1>2, <1>3

(* A store's key that a step does not touch.                               *)
LEMMA Untouched ==
  ASSUME NEW s, NEW k, StoreKept(s, k), WaitFewer(s, k), now \in Nat,
         hits'[s][k] = hits[s][k], accepted'[s][k] = accepted[s][k], promise'[s][k] = promise[s][k],
         UNCHANGED <<now, bucket>>
  PROVE  StoreKept(s, k)'
<1> DEFINE old == Waiting(s, k)
           new == Waiting(s, k)'
<1>1. \A X \in Nat : old[X] \in Nat /\ new[X] \in Nat /\ new[X] <= old[X]
  BY DEF WaitFewer
<1>2. Owes(s, LimitOf(k), hits[s][k], accepted[s][k], old, promise[s][k], now)
  BY DEF StoreKept
<1> HIDE DEF old, new
<1>3. Owes(s, LimitOf(k), hits[s][k], accepted[s][k], new, promise[s][k], now)
  BY <1>1, <1>2, KeptFewer
<1>4. LimitOf(k)' = LimitOf(k) /\ now' = now
  BY DEF LimitOf
<1> QED BY <1>3, <1>4 DEF StoreKept, new

(* A request that is not idle.                                             *)
LEMMA InUse ==
  ASSUME RateTypes, NEW c \in Calls, call[c].pc # "idle"
  PROVE  /\ call[c] \in RequestInProgress /\ call[c].todo # <<>> /\ call[c].at \in Nat /\ call[c].at <= now
         /\ call[c].p \in Processes /\ limiter[call[c].p] # "none"
         /\ call[c].pc # "checking" => limiter[call[c].p] = Redis
         /\ Store(c) \in Stores /\ KeyOf(c) \in Key
         /\ <<now, call[c].user>> \in Hit /\ <<call[c].at, call[c].user>> \in Hit
         /\ now \in Nat /\ now \in 0..MaxTime
<1>1. CallTyped(c) /\ now \in 0..MaxTime /\ MaxTime \in Nat
  BY RateAssumption DEF RateTypes
<1>2. call[c] # Idle
  BY DEF Idle
<1>3. /\ call[c] \in RequestInProgress /\ call[c].todo # <<>> /\ call[c].at <= now
      /\ limiter[call[c].p] # "none"
      /\ call[c].pc # "checking" => limiter[call[c].p] = Redis
  BY <1>1, <1>2 DEF CallTyped
<1>4. /\ call[c].p \in Processes /\ call[c].user \in Clients /\ call[c].at \in 0..MaxTime
      /\ call[c].todo \in Seq(Key)
  BY <1>3 DEF RequestInProgress
<1>5. limiter[call[c].p] \in Stores
  BY <1>3, <1>4 DEF RateTypes
<1>6. Head(call[c].todo) \in Key
  BY <1>3, <1>4, HeadTailProperties
<1> QED BY <1>1, <1>3, <1>4, <1>5, <1>6 DEF Store, KeyOf, Hit

(* A request moves on.                                                     *)
GoodCall(v) ==
    \/ v = Idle
    \/ /\ v \in RequestInProgress /\ v.todo # <<>> /\ v.at <= now
       /\ limiter[v.p] # "none"
       /\ v.pc # "checking" => limiter[v.p] = Redis

LEMMA CallMoves ==
  ASSUME RateTypes, NEW c \in Calls, NEW v, GoodCall(v), call' = [call EXCEPT ![c] = v],
         UNCHANGED <<limiter, now>>
  PROVE  /\ call' \in [Calls -> RequestInProgress \cup {Idle}]
         /\ \A d \in Calls : CallTyped(d)'
         /\ call'[c] = v
         /\ \A d \in Calls \ {c} : call'[d] = call[d]
<1>1. v \in RequestInProgress \cup {Idle}
  BY DEF GoodCall
<1>2. call \in [Calls -> RequestInProgress \cup {Idle}]
  BY DEF RateTypes
<1>3. /\ call' \in [Calls -> RequestInProgress \cup {Idle}]
      /\ call'[c] = v
      /\ \A d \in Calls \ {c} : call'[d] = call[d]
  BY <1>1, <1>2
<1>4. ASSUME NEW d \in Calls PROVE CallTyped(d)'
  <2>1. CASE d = c
    BY <1>3, <2>1 DEF CallTyped, GoodCall
  <2>2. CASE d # c
    <3>1. CallTyped(d) /\ call'[d] = call[d] /\ limiter' = limiter /\ now' = now
      BY <1>3, <2>2 DEF RateTypes
    <3> QED BY <3>1 DEF CallTyped
  <2> QED BY <2>1, <2>2
<1> QED BY <1>3, <1>4

LEMMA IdleIsGood == GoodCall(Idle)
BY DEF GoodCall

LEMMA PassedIsGood ==
  ASSUME RateTypes, NEW c \in Calls, call[c].pc = "checking"
  PROVE  GoodCall(Passed(c)) /\ Passed(c).pc # "removing"
<1>1. /\ call[c] \in RequestInProgress /\ call[c].todo # <<>> /\ call[c].at <= now
      /\ limiter[call[c].p] # "none"
  BY InUse
<1>2. CASE Len(call[c].todo) = 1
  BY <1>2 DEF Passed, GoodCall, Idle
<1>3. CASE Len(call[c].todo) # 1
  <2> DEFINE t == call[c].todo
  <2>1. t \in Seq(Key) /\ Len(t) \in Nat /\ t # <<>>
    BY <1>1, LenProperties DEF RequestInProgress
  <2>2. Len(t) # 0 /\ Len(t) # 1
    BY <1>3, <2>1, EmptySeq
  <2>3. Tail(t) \in Seq(Key) /\ Len(Tail(t)) = Len(t) - 1
    BY <2>1, HeadTailProperties
  <2>4. Tail(t) # <<>>
    <3> SUFFICES ASSUME Tail(t) = <<>> PROVE FALSE
      OBVIOUS
    <3>0. \A q : q = <<>> => Len(q) = 0
      OBVIOUS
    <3>1. Len(Tail(t)) = 0
      BY <3>0, Zenon
    <3> QED BY <2>1, <2>2, <2>3, <3>1
  <2>5. Passed(c) = [call[c] EXCEPT !.todo = Tail(t)]
    BY <1>3 DEF Passed
  <2> DEFINE u == Tail(t)
  <2> HIDE DEF u, t
  <2>6. Passed(c) = [call[c] EXCEPT !.todo = u] /\ u \in Seq(Key) /\ u # <<>>
    BY <2>3, <2>4, <2>5 DEF u
  <2>7. /\ Passed(c) \in RequestInProgress /\ Passed(c).todo = u /\ Passed(c).at = call[c].at
        /\ Passed(c).p = call[c].p /\ Passed(c).pc = call[c].pc
    BY <1>1, <2>6 DEF RequestInProgress
  <2> QED BY <1>1, <2>6, <2>7 DEF GoodCall
<1> QED BY <1>2, <1>3

(* What a step that touches one key of one store has to show.              *)
LEMMA OneKeyStep ==
  ASSUME RateInv, UNCHANGED <<bucket, now>>, RateTypes',
         NEW s \in Stores, NEW k \in Key, StoreKept(s, k)',
         \A t \in Stores, l \in Key : ~(t = s /\ l = k) =>
             /\ hits'[t][l] = hits[t][l] /\ accepted'[t][l] = accepted[t][l]
             /\ promise'[t][l] = promise[t][l] /\ WaitFewer(t, l)
  PROVE  RateInv'
<1>1. now \in Nat
  BY RateAssumption DEF RateInv, RateTypes
<1>2. ASSUME NEW t \in Stores, NEW l \in Key PROVE StoreKept(t, l)'
  <2>1. CASE t = s /\ l = k
    BY <2>1
  <2>2. CASE ~(t = s /\ l = k)
    <3>1. StoreKept(t, l)
      BY DEF RateInv
    <3>2. /\ hits'[t][l] = hits[t][l] /\ accepted'[t][l] = accepted[t][l]
          /\ promise'[t][l] = promise[t][l] /\ WaitFewer(t, l)
      BY <2>2
    <3> QED BY <1>1, <3>1, <3>2, Untouched
  <2> QED BY <2>1, <2>2
<1> QED BY <1>2 DEF RateInv

(* No request is about to take a hit back that was not before.             *)
LEMMA NoneWaits ==
  ASSUME NEW c \in Calls, UNCHANGED limiter, call'[c].pc # "removing",
         \A d \in Calls \ {c} : call'[d] = call[d], NEW s, NEW k
  PROVE  WaitFewer(s, k)
<1>1. \A d \in Calls : call'[d].pc = "removing" =>
          /\ call[d].pc = "removing" /\ call'[d] = call[d]
          /\ limiter'[call[d].p] = limiter[call[d].p]
  OBVIOUS
<1> QED BY <1>1, FewerWait

LEMMA AllowKeeps ==
  ASSUME RateInv, NEW c \in Calls, call[c].pc = "checking", Allow(c),
         NEW s, NEW k, s = Store(c), k = KeyOf(c),
         hits' = [hits EXCEPT ![s][k] = Append(Left(s, hits[s][k], now), <<now, call[c].user>>)],
         Len(Left(s, hits[s][k], now)) < LimitOf(k),
         UNCHANGED <<bucket, now, limiter, trouble>>
  PROVE  RateInv'
<1> DEFINE h == <<now, call[c].user>>
           H == hits[s][k]
           A == accepted[s][k]
           old == Waiting(s, k)
           new == Waiting(s, k)'
           HH == Append(Left(s, H, now), h)
           AA == Append(A, h)
<1>1. /\ s \in Stores /\ k \in Key /\ h \in Hit /\ now \in Nat /\ now \in 0..MaxTime
      /\ RateTypes
  BY InUse DEF RateInv
<1>2. /\ call' \in [Calls -> RequestInProgress \cup {Idle}]
      /\ \A d \in Calls : CallTyped(d)'
      /\ call'[c] = Passed(c)
      /\ \A d \in Calls \ {c} : call'[d] = call[d]
  <2>1. GoodCall(Passed(c)) /\ call' = [call EXCEPT ![c] = Passed(c)]
    BY <1>1, PassedIsGood DEF Allow
  <2> QED BY <1>1, <2>1, CallMoves
<1>3. \A t, l : WaitFewer(t, l)
  BY <1>1, <1>2, PassedIsGood, NoneWaits
<1>4. Owes(s, LimitOf(k), H, A, old, promise[s][k], now)
  BY <1>1 DEF RateInv, StoreKept
<1>5. /\ hits' = [hits EXCEPT ![s][k] = HH] /\ accepted' = [accepted EXCEPT ![s][k] = AA]
      /\ promise' = [promise EXCEPT ![s][k] = Never]
  BY DEF Allow
<1>6. \A X \in Nat : old[X] \in Nat /\ new[X] \in Nat /\ new[X] <= old[X]
  BY <1>3 DEF WaitFewer
<1>7. h[1] = now /\ Len(Left(s, H, now)) < LimitOf(k)
  OBVIOUS
<1> HIDE DEF old, new, h, H, A
<1>8. Owes(s, LimitOf(k), HH, AA, old, Never, now)
  BY <1>1, <1>4, <1>6, <1>7, LimitPositive, KeptAccept
<1>9. Owes(s, LimitOf(k), HH, AA, new, Never, now)
  BY <1>1, <1>6, <1>8, KeptFewer
<1>10. HH \in Seq(Hit) /\ AA \in Seq(Hit) /\ Never \in 0..Never
  BY <1>9 DEF Owes
<1> HIDE DEF HH, AA
<1>11. /\ hits \in [Stores -> [Key -> Seq(Hit)]]
       /\ accepted \in [Stores -> [Key -> Seq(Hit)]]
       /\ promise \in [Stores -> [Key -> 0..Never]]
  BY <1>1 DEF RateTypes
<1>12. /\ hits' \in [Stores -> [Key -> Seq(Hit)]] /\ hits'[s][k] = HH
       /\ \A t \in Stores, l \in Key : ~(t = s /\ l = k) => hits'[t][l] = hits[t][l]
  BY ONLY <1>1, <1>5, <1>10, <1>11, UpdateAt
<1>13. /\ accepted' \in [Stores -> [Key -> Seq(Hit)]] /\ accepted'[s][k] = AA
       /\ \A t \in Stores, l \in Key : ~(t = s /\ l = k) => accepted'[t][l] = accepted[t][l]
  BY ONLY <1>1, <1>5, <1>10, <1>11, UpdateAt
<1>14. /\ promise' \in [Stores -> [Key -> 0..Never]] /\ promise'[s][k] = Never
       /\ \A t \in Stores, l \in Key : ~(t = s /\ l = k) => promise'[t][l] = promise[t][l]
  BY ONLY <1>1, <1>5, <1>10, <1>11, UpdateAt
<1>15. RateTypes'
  BY <1>1, <1>2, <1>12, <1>13, <1>14 DEF RateTypes
<1>16. StoreKept(s, k)'
  <2>1. LimitOf(k)' = LimitOf(k) /\ now' = now
    BY DEF LimitOf
  <2> QED BY <1>9, <1>12, <1>13, <1>14, <2>1 DEF StoreKept, new
<1>17. \A t \in Stores, l \in Key : ~(t = s /\ l = k) =>
             /\ hits'[t][l] = hits[t][l] /\ accepted'[t][l] = accepted[t][l]
             /\ promise'[t][l] = promise[t][l] /\ WaitFewer(t, l)
  BY ONLY <1>3, <1>12, <1>13, <1>14
<1>18. RateInv /\ s \in Stores /\ k \in Key /\ UNCHANGED <<bucket, now>>
  BY <1>1
<1> QED BY ONLY <1>15, <1>16, <1>17, <1>18, OneKeyStep

(* A store's hits of a key, and what a refused caller is told, change.     *)
LEMMA KeyStep ==
  ASSUME RateInv, NEW s \in Stores, NEW k \in Key, NEW HH, NEW pp,
         UNCHANGED <<bucket, now, limiter, accepted>>, trouble' \in 0..MaxTrouble,
         call' \in [Calls -> RequestInProgress \cup {Idle}], \A d \in Calls : CallTyped(d)',
         hits' = [hits EXCEPT ![s][k] = HH] \/ (hits' = hits /\ HH = hits[s][k]),
         promise' = [promise EXCEPT ![s][k] = pp] \/ (promise' = promise /\ pp = promise[s][k]),
         Owes(s, LimitOf(k), HH, accepted[s][k], Waiting(s, k)', pp, now),
         \A t \in Stores, l \in Key : ~(t = s /\ l = k) => WaitFewer(t, l)
  PROVE  RateInv'
<1>1. HH \in Seq(Hit) /\ pp \in 0..Never
  BY DEF Owes
<1>2. /\ hits \in [Stores -> [Key -> Seq(Hit)]]
      /\ promise \in [Stores -> [Key -> 0..Never]]
      /\ s \in Stores /\ k \in Key
  BY DEF RateInv, RateTypes
<1>3. /\ hits' \in [Stores -> [Key -> Seq(Hit)]] /\ hits'[s][k] = HH
      /\ \A t \in Stores, l \in Key : ~(t = s /\ l = k) => hits'[t][l] = hits[t][l]
  <2>1. CASE hits' = [hits EXCEPT ![s][k] = HH]
    BY ONLY <1>1, <1>2, <2>1, UpdateAt
  <2>2. CASE hits' = hits /\ HH = hits[s][k]
    BY <1>2, <2>2
  <2> QED BY <2>1, <2>2
<1>4. /\ promise' \in [Stores -> [Key -> 0..Never]] /\ promise'[s][k] = pp
      /\ \A t \in Stores, l \in Key : ~(t = s /\ l = k) => promise'[t][l] = promise[t][l]
  <2>1. CASE promise' = [promise EXCEPT ![s][k] = pp]
    BY ONLY <1>1, <1>2, <2>1, UpdateAt
  <2>2. CASE promise' = promise /\ pp = promise[s][k]
    BY <1>2, <2>2
  <2> QED BY <2>1, <2>2
<1>5. RateTypes'
  BY <1>3, <1>4 DEF RateInv, RateTypes
<1>6. StoreKept(s, k)'
  <2>1. LimitOf(k)' = LimitOf(k) /\ now' = now /\ accepted' = accepted
    BY DEF LimitOf
  <2> QED BY <1>3, <1>4, <2>1 DEF StoreKept
<1>7. \A t \in Stores, l \in Key : ~(t = s /\ l = k) =>
            /\ hits'[t][l] = hits[t][l] /\ accepted'[t][l] = accepted[t][l]
            /\ promise'[t][l] = promise[t][l] /\ WaitFewer(t, l)
  BY <1>3, <1>4
<1>8. RateInv /\ s \in Stores /\ k \in Key /\ UNCHANGED <<bucket, now>>
  OBVIOUS
<1> QED BY ONLY <1>5, <1>6, <1>7, <1>8, OneKeyStep

LEMMA MemoryHitKeeps ==
  ASSUME RateInv, NEW c \in Calls, MemoryHit(c)
  PROVE  RateInv'
<1>k. PICK s, k : s = Store(c) /\ k = KeyOf(c)
  OBVIOUS
<1> DEFINE H == hits[s][k]
           q == Left(s, H, now)
<1>0. /\ call[c].pc = "checking" /\ RateTypes /\ UNCHANGED <<bucket, now, limiter, trouble>>
      /\ c \in Calls /\ limiter' = limiter
  BY DEF MemoryHit, RateInv
<1>1. s \in Stores /\ k \in Key /\ now \in Nat
  BY <1>k, <1>0, InUse
<1>q. q = Live(Store(c), hits[Store(c)][KeyOf(c)])
  BY <1>k DEF Live
<1>2. CASE Len(q) >= LimitOf(k)
  <2> DEFINE x == now + RetryAfter(q[1][1], now) * Second
             pp == Earlier(promise[s][k], x)
             old == Waiting(s, k)
             new == Waiting(s, k)'
  <2>1. /\ hits' = [hits EXCEPT ![s][k] = q]
        /\ promise' = [promise EXCEPT ![s][k] = pp]
        /\ call' = [call EXCEPT ![c] = Idle]
        /\ accepted' = accepted
    BY <1>k, <1>2, <1>q DEF MemoryHit, Refuse
  <2>2. /\ call' \in [Calls -> RequestInProgress \cup {Idle}]
        /\ \A d \in Calls : CallTyped(d)'
        /\ call'[c] = Idle
        /\ \A d \in Calls \ {c} : call'[d] = call[d]
    BY <1>0, <2>1, IdleIsGood, CallMoves
  <2>3. \A t, l : WaitFewer(t, l)
    <3>1. Idle.pc # "removing"
      BY DEF Idle
    <3> QED BY <1>0, <2>2, <3>1, NoneWaits
  <2>4. \A X \in Nat : old[X] \in Nat /\ new[X] \in Nat /\ new[X] <= old[X]
    <3>1. WaitFewer(s, k)
      BY <2>3, Zenon
    <3> QED BY <3>1 DEF WaitFewer
  <2>5. Owes(s, LimitOf(k), H, accepted[s][k], old, promise[s][k], now)
    BY <1>1 DEF RateInv, StoreKept
  <2> HIDE DEF old, new
  <2>6. Owes(s, LimitOf(k), q, accepted[s][k], old, promise[s][k], now)
    BY <1>1, <2>5, KeptDrop
  <2>7. q \in Seq(Hit) /\ LimitOf(k) \in Nat \ {0}
    BY <2>6, LimitPositive DEF Owes
  <2>8. Len(q) \in Nat /\ Len(q) > 0 /\ q[1][1] \in Nat
    <3> HIDE DEF q
    <3>1. Len(q) \in Nat /\ Len(q) > 0
      BY <1>2, <2>7, LenProperties
    <3> QED BY <2>7, <3>1, ElementOfSeq DEF Hit
  <2>9. x \in Nat /\ x > q[1][1] + Window
    <3> HIDE DEF q
    <3>1. now <= now
      BY <1>1
    <3> QED BY <1>1, <2>8, <3>1, RetryIsLater
  <2>p. pp = Earlier(promise[s][k], x)
    OBVIOUS
  <2> HIDE DEF x, pp
  <2>10. Owes(s, LimitOf(k), q, accepted[s][k], old, pp, now)
    BY ONLY <1>1, <2>4, <2>6, <2>7, <2>9, <2>p, KeptPromise
  <2>11. Owes(s, LimitOf(k), q, accepted[s][k], new, pp, now)
    BY ONLY <1>1, <2>4, <2>10, KeptFewer
  <2>12. trouble' \in 0..MaxTrouble /\ RateInv
    BY <1>0 DEF RateTypes
  <2>13. Owes(s, LimitOf(k), q, accepted[s][k], Waiting(s, k)', pp, now)
    BY <2>11 DEF new
  <2>14. /\ hits' = [hits EXCEPT ![s][k] = q] \/ (hits' = hits /\ q = hits[s][k])
         /\ promise' = [promise EXCEPT ![s][k] = pp] \/ (promise' = promise /\ pp = promise[s][k])
         /\ UNCHANGED <<bucket, now, limiter, accepted>>
         /\ \A t \in Stores, l \in Key : ~(t = s /\ l = k) => WaitFewer(t, l)
    BY <1>0, <2>1, <2>3
  <2> HIDE DEF q
  <2> QED BY ONLY <1>1, <2>2, <2>12, <2>13, <2>14, KeyStep
<1>3. CASE ~(Len(q) >= LimitOf(k))
  <2>1. /\ hits' = [hits EXCEPT ![s][k] = Append(q, <<now, call[c].user>>)]
        /\ Allow(c)
    BY <1>k, <1>3, <1>q DEF MemoryHit
  <2>2. Len(q) < LimitOf(k)
    <3>1. Owes(s, LimitOf(k), H, accepted[s][k], Waiting(s, k), promise[s][k], now)
      BY <1>1 DEF RateInv, StoreKept
    <3>2. Owes(s, LimitOf(k), q, accepted[s][k], Waiting(s, k), promise[s][k], now)
      BY <1>1, <3>1, KeptDrop
    <3>3. q \in Seq(Hit) /\ LimitOf(k) \in Nat
      BY <3>2, LimitPositive DEF Owes
    <3> HIDE DEF q
    <3> QED BY <1>3, <3>3, LenProperties
  <2> QED BY <1>k, <1>0, <2>1, <2>2, AllowKeeps
<1> QED BY <1>2, <1>3

LEMMA RedisHitKeeps ==
  ASSUME RateInv, NEW c \in Calls, RedisHit(c)
  PROVE  RateInv'
<1>k. PICK k : k = KeyOf(c)
  OBVIOUS
<1> DEFINE s == Redis
           H == hits[s][k]
           q == Left(s, H, now)
           h == <<now, call[c].user>>
           R == Append(q, h)
           old == Waiting(s, k)
           new == Waiting(s, k)'
<1>0. /\ call[c].pc = "checking" /\ RateTypes /\ UNCHANGED <<bucket, now, limiter, trouble>>
      /\ Store(c) = s /\ c \in Calls /\ limiter' = limiter
      /\ hits' = [hits EXCEPT ![s][k] = R]
      /\ Added(c) = R
  BY <1>k DEF RedisHit, RateInv, Added, Live
<1>1. s \in Stores /\ k \in Key /\ now \in Nat /\ h \in Hit /\ now \in 0..MaxTime
  BY <1>k, <1>0, InUse
<1>2. Owes(s, LimitOf(k), H, accepted[s][k], old, promise[s][k], now)
  BY <1>1 DEF RateInv, StoreKept
<1>3. q \in Seq(Hit) /\ LimitOf(k) \in Nat \ {0}
  <2>1. Owes(s, LimitOf(k), q, accepted[s][k], old, promise[s][k], now)
    BY <1>1, <1>2, KeptDrop
  <2> QED BY <2>1, LimitPositive DEF Owes
<1>4. CASE ~TooMany(c)
  <2>1. Len(q) < LimitOf(k)
    <3>1. ~(Len(R) > LimitOf(k))
      BY <1>k, <1>0, <1>4 DEF TooMany
    <3> HIDE DEF q, h
    <3>2. Len(R) = Len(q) + 1 /\ Len(q) \in Nat
      BY <1>1, <1>3, AppendProperties, LenProperties
    <3> QED BY <1>3, <3>1, <3>2
  <2>2. Allow(c)
    BY <1>4 DEF RedisHit
  <2> QED BY <1>k, <1>0, <2>1, <2>2, AllowKeeps
<1>5. CASE TooMany(c)
  <2> DEFINE v == [[call[c] EXCEPT !.pc = "removing"] EXCEPT !.at = now]
  <2>1. /\ call' = [call EXCEPT ![c].pc = "removing", ![c].at = now]
        /\ UNCHANGED <<accepted, promise>>
    BY <1>5 DEF RedisHit
  <2>2. /\ call[c] \in RequestInProgress /\ call[c].todo # <<>> /\ limiter[call[c].p] # "none"
        /\ call[c].p \in Processes /\ limiter[call[c].p] = Redis
    BY <1>0, InUse DEF Store
  <2>3. /\ v \in RequestInProgress /\ v.todo = call[c].todo /\ v.at = now /\ v.p = call[c].p
        /\ v.pc = "removing" /\ v.user = call[c].user
    BY <1>1, <2>2 DEF RequestInProgress
  <2>4. call' = [call EXCEPT ![c] = v]
    <3>1. call \in [Calls -> RequestInProgress \cup {Idle}]
      BY <1>0 DEF RateTypes
    <3> QED BY <2>1, <2>2, <3>1 DEF RequestInProgress
  <2> HIDE DEF v
  <2>5. GoodCall(v)
    BY <1>1, <2>2, <2>3 DEF GoodCall
  <2>6. /\ call' \in [Calls -> RequestInProgress \cup {Idle}]
        /\ \A d \in Calls : CallTyped(d)'
        /\ call'[c] = v
        /\ \A d \in Calls \ {c} : call'[d] = call[d]
    BY <1>0, <2>4, <2>5, CallMoves
  <2>7. h = <<call'[c].at, call'[c].user>>
    BY <2>3, <2>6
  <2> HIDE DEF h
  <2>8. \A X \in Nat : old[X] \in Nat /\ new[X] \in Nat /\ new[X] <= old[X] + One(s, h, X)
    <3> TAKE X \in Nat
    <3>1. X \in Nat
      OBVIOUS
    <3>2. /\ Waiting(s, k)[X] \in Nat /\ Waiting(s, k)'[X] \in Nat
          /\ Waiting(s, k)'[X] <= Waiting(s, k)[X] + One(s, h, X)
      BY ONLY <1>0, <2>6, <2>7, <3>1, OneMoreWaits
    <3> QED BY <3>2
  <2>9. ASSUME NEW t, NEW l, ~(t = s /\ l = k) PROVE WaitFewer(t, l)
    <3> SUFFICES ASSUME NEW X \in Nat
                 PROVE  /\ Waiting(t, l)[X] \in Nat /\ Waiting(t, l)'[X] \in Nat
                        /\ Waiting(t, l)'[X] <= Waiting(t, l)[X]
      BY DEF WaitFewer
    <3>1. c \notin TakingBack(t, l, X)'
      <4>1. limiter'[call'[c].p] = s /\ Head(call'[c].todo) = k
        BY <1>k, <1>0, <2>2, <2>3, <2>6 DEF Store, KeyOf
      <4> QED BY <2>9, <4>1 DEF TakingBack, Store, KeyOf
    <3>2. TakingBack(t, l, X)' \subseteq TakingBack(t, l, X)
      BY <1>0, <2>6, <3>1 DEF TakingBack, Store, KeyOf, Alive
    <3>3. Cardinality(TakingBack(t, l, X)') <= Cardinality(TakingBack(t, l, X))
      BY <3>2, TakingBackFinite, FS_Subset
    <3> QED BY <3>3, TakingBackFinite, TakingBackFiniteNext
  <2>10. h[1] = now
    BY DEF h
  <2> HIDE DEF old, new, H, q
  <2>11. Owes(s, LimitOf(k), Append(Left(s, H, now), h), accepted[s][k], new, promise[s][k], now)
    BY ONLY <1>1, <1>2, <1>3, <2>8, <2>10, KeptMore
  <2>12. Owes(s, LimitOf(k), R, accepted[s][k], new, promise[s][k], now)
    BY <2>11 DEF q
  <2>13. trouble' \in 0..MaxTrouble /\ RateInv
    BY <1>0 DEF RateTypes
  <2> HIDE DEF R
  <2>14. Owes(s, LimitOf(k), R, accepted[s][k], Waiting(s, k)', promise[s][k], now)
    BY <2>12 DEF new
  <2>15. /\ hits' = [hits EXCEPT ![s][k] = R] \/ (hits' = hits /\ R = hits[s][k])
         /\ \/ promise' = [promise EXCEPT ![s][k] = promise[s][k]]
            \/ promise' = promise /\ promise[s][k] = promise[s][k]
         /\ UNCHANGED <<bucket, now, limiter, accepted>>
         /\ \A t \in Stores, l \in Key : ~(t = s /\ l = k) => WaitFewer(t, l)
    BY <1>0, <2>1, <2>9
  <2> QED BY ONLY <1>1, <2>6, <2>13, <2>14, <2>15, KeyStep
<1> QED BY <1>4, <1>5

LEMMA RedisRemoveKeeps ==
  ASSUME RateInv, NEW c \in Calls, RedisRemove(c)
  PROVE  RateInv'
<1>k. PICK k, h : k = KeyOf(c) /\ h = <<call[c].at, call[c].user>>
  OBVIOUS
<1> DEFINE s == Redis
           H == hits[s][k]
           R == Seqs!RemoveFirst(H, h)
           old == Waiting(s, k)
           new == Waiting(s, k)'
           v == [call[c] EXCEPT !.pc = "asking"]
<1>0. /\ call[c].pc = "removing" /\ RateTypes /\ UNCHANGED <<bucket, now, limiter, trouble>>
      /\ c \in Calls /\ limiter' = limiter /\ UNCHANGED <<accepted, promise>>
      /\ hits' = [hits EXCEPT ![s][k] = R]
      /\ call' = [call EXCEPT ![c].pc = "asking"]
  BY <1>k DEF RedisRemove, RateInv
<1>1. /\ call[c] \in RequestInProgress /\ call[c].todo # <<>> /\ call[c].at <= now
      /\ call[c].p \in Processes /\ limiter[call[c].p] # "none" /\ limiter[call[c].p] = Redis
      /\ Store(c) = s /\ s \in Stores /\ k \in Key /\ h \in Hit /\ now \in Nat
  BY <1>k, <1>0, InUse DEF Store
<1>2. /\ v \in RequestInProgress /\ v.todo = call[c].todo /\ v.at = call[c].at /\ v.p = call[c].p
      /\ v.pc = "asking"
  BY <1>1 DEF RequestInProgress
<1>3. call' = [call EXCEPT ![c] = v]
  BY <1>0
<1> HIDE DEF v
<1>4. GoodCall(v)
  BY <1>1, <1>2 DEF GoodCall
<1>5. /\ call' \in [Calls -> RequestInProgress \cup {Idle}]
      /\ \A d \in Calls : CallTyped(d)'
      /\ call'[c] = v
      /\ \A d \in Calls \ {c} : call'[d] = call[d]
  BY <1>0, <1>3, <1>4, CallMoves
<1>6. call'[c].pc # "removing"
  BY <1>2, <1>5
<1>7. \A t, l : WaitFewer(t, l)
  BY <1>0, <1>5, <1>6, NoneWaits
<1>8. \A X \in Nat : old[X] \in Nat /\ new[X] \in Nat /\ new[X] + One(s, h, X) <= old[X]
  <2> TAKE X \in Nat
  <2>1. X \in Nat
    OBVIOUS
  <2>2. Store(c) = s /\ KeyOf(c) = k
    BY <1>k, <1>1
  <2>3. /\ Waiting(s, k)[X] \in Nat /\ Waiting(s, k)'[X] \in Nat
        /\ Waiting(s, k)'[X] + One(s, h, X) <= Waiting(s, k)[X]
    BY ONLY <1>k, <1>0, <1>5, <1>6, <2>1, <2>2, OneFewerWaits
  <2> QED BY <2>3
<1>9. Owes(s, LimitOf(k), H, accepted[s][k], old, promise[s][k], now)
  BY <1>1 DEF RateInv, StoreKept
<1> HIDE DEF old, new
<1>10. Owes(s, LimitOf(k), R, accepted[s][k], new, promise[s][k], now)
  BY ONLY <1>1, <1>8, <1>9, KeptRemove
<1>11. trouble' \in 0..MaxTrouble /\ RateInv
  BY <1>0 DEF RateTypes
<1>12. Owes(s, LimitOf(k), R, accepted[s][k], Waiting(s, k)', promise[s][k], now)
  BY <1>10 DEF new
<1>13. /\ hits' = [hits EXCEPT ![s][k] = R] \/ (hits' = hits /\ R = hits[s][k])
       /\ \/ promise' = [promise EXCEPT ![s][k] = promise[s][k]]
          \/ promise' = promise /\ promise[s][k] = promise[s][k]
       /\ UNCHANGED <<bucket, now, limiter, accepted>>
       /\ \A t \in Stores, l \in Key : ~(t = s /\ l = k) => WaitFewer(t, l)
  BY <1>0, <1>7
<1> HIDE DEF R
<1> QED BY ONLY <1>1, <1>5, <1>11, <1>12, <1>13, KeyStep

LEMMA RedisOldestKeeps ==
  ASSUME RateInv, NEW c \in Calls, RedisOldest(c)
  PROVE  RateInv'
<1>k. PICK k, at : k = KeyOf(c) /\ at = call[c].at
  OBVIOUS
<1> DEFINE s == Redis
           H == hits[s][k]
           sec == IF H = <<>> THEN 1 ELSE RetryAfter(H[1][1], at)
           x == now + sec * Second
           pp == Earlier(promise[s][k], x)
           old == Waiting(s, k)
           new == Waiting(s, k)'
<1>0. /\ call[c].pc = "asking" /\ RateTypes /\ UNCHANGED <<bucket, now, limiter, trouble>>
      /\ c \in Calls /\ limiter' = limiter /\ UNCHANGED <<hits, accepted>>
      /\ Refuse(c, sec)
  BY <1>k DEF RedisOldest, RateInv
<1>1. /\ call[c] \in RequestInProgress /\ at \in Nat /\ at <= now
      /\ Store(c) = s /\ s \in Stores /\ k \in Key /\ now \in Nat
  BY <1>k, <1>0, InUse DEF Store
<1>2. /\ call' = [call EXCEPT ![c] = Idle]
      /\ promise' = [promise EXCEPT ![s][k] = pp]
  BY <1>k, <1>0, <1>1 DEF Refuse
<1>3. /\ call' \in [Calls -> RequestInProgress \cup {Idle}]
      /\ \A d \in Calls : CallTyped(d)'
      /\ call'[c] = Idle
      /\ \A d \in Calls \ {c} : call'[d] = call[d]
  BY <1>0, <1>2, IdleIsGood, CallMoves
<1>4. \A t, l : WaitFewer(t, l)
  <2>1. Idle.pc # "removing"
    BY DEF Idle
  <2> QED BY <1>0, <1>3, <2>1, NoneWaits
<1>5. \A X \in Nat : old[X] \in Nat /\ new[X] \in Nat /\ new[X] <= old[X]
  <2>1. WaitFewer(s, k)
    BY <1>4, Zenon
  <2> QED BY <2>1 DEF WaitFewer
<1>6. Owes(s, LimitOf(k), H, accepted[s][k], old, promise[s][k], now)
  BY <1>1 DEF RateInv, StoreKept
<1> HIDE DEF old, new
<1>7. H \in Seq(Hit) /\ LimitOf(k) \in Nat \ {0}
  BY <1>6, LimitPositive DEF Owes
<1>8. x \in Nat /\ (H # <<>> => x > H[1][1] + Window)
  <2>s. Second \in Nat
    BY RateAssumption
  <2>1. CASE H = <<>>
    BY <1>1, <2>s, <2>1
  <2>2. CASE H # <<>>
    <3>1. H[1][1] \in Nat
      <4> HIDE DEF H
      <4>1. Len(H) \in Nat /\ Len(H) # 0
        BY <1>7, <2>2, LenProperties, EmptySeq
      <4> QED BY <1>7, <4>1, ElementOfSeq DEF Hit
    <3>2. x = now + RetryAfter(H[1][1], at) * Second
      BY <2>2
    <3> HIDE DEF H, x
    <3> QED BY <1>1, <3>1, <3>2, RetryIsLater
  <2> QED BY <2>1, <2>2
<1>p. pp = Earlier(promise[s][k], x)
  OBVIOUS
<1> HIDE DEF x, pp, sec
<1>9. Owes(s, LimitOf(k), H, accepted[s][k], old, pp, now)
  BY ONLY <1>1, <1>5, <1>6, <1>7, <1>8, <1>p, KeptPromise
<1>10. Owes(s, LimitOf(k), H, accepted[s][k], new, pp, now)
  BY ONLY <1>1, <1>5, <1>9, KeptFewer
<1>11. trouble' \in 0..MaxTrouble /\ RateInv
  BY <1>0 DEF RateTypes
<1>12. Owes(s, LimitOf(k), H, accepted[s][k], Waiting(s, k)', pp, now)
  BY <1>10 DEF new
<1>13. /\ hits' = [hits EXCEPT ![s][k] = H] \/ (hits' = hits /\ H = hits[s][k])
       /\ promise' = [promise EXCEPT ![s][k] = pp] \/ (promise' = promise /\ pp = promise[s][k])
       /\ UNCHANGED <<bucket, now, limiter, accepted>>
       /\ \A t \in Stores, l \in Key : ~(t = s /\ l = k) => WaitFewer(t, l)
  BY <1>0, <1>2, <1>4
<1> HIDE DEF H
<1> QED BY ONLY <1>1, <1>3, <1>11, <1>12, <1>13, KeyStep

LEMMA FaultKeeps ==
  ASSUME RateInv, NEW c \in Calls, Fault(c)
  PROVE  RateInv'
<1>k. PICK k, h : k = KeyOf(c) /\ h = <<now, call[c].user>>
  OBVIOUS
<1> DEFINE s == Redis
           H == hits[s][k]
           R == Append(Left(s, H, now), h)
           old == Waiting(s, k)
           new == Waiting(s, k)'
<1>0. /\ call[c].pc # "idle" /\ RateTypes /\ UNCHANGED <<bucket, now, limiter, accepted, promise>>
      /\ c \in Calls /\ limiter' = limiter
      /\ call' = [call EXCEPT ![c] = Idle]
      /\ trouble < MaxTrouble /\ trouble' = trouble + 1
      /\ hits' = hits \/ hits' = [hits EXCEPT ![s][k] = R]
  BY <1>k DEF Fault, RateInv, Added, Live
<1>1. s \in Stores /\ k \in Key /\ now \in Nat /\ h \in Hit
  BY <1>k, <1>0, InUse DEF Stores
<1>2. /\ call' \in [Calls -> RequestInProgress \cup {Idle}]
      /\ \A d \in Calls : CallTyped(d)'
      /\ call'[c] = Idle
      /\ \A d \in Calls \ {c} : call'[d] = call[d]
  BY <1>0, IdleIsGood, CallMoves
<1>3. \A t, l : WaitFewer(t, l)
  <2>1. Idle.pc # "removing"
    BY DEF Idle
  <2> QED BY <1>0, <1>2, <2>1, NoneWaits
<1>4. \A X \in Nat : old[X] \in Nat /\ new[X] \in Nat /\ new[X] <= old[X]
  <2>1. WaitFewer(s, k)
    BY <1>3, Zenon
  <2> QED BY <2>1 DEF WaitFewer
<1>5. Owes(s, LimitOf(k), H, accepted[s][k], old, promise[s][k], now)
  BY <1>1 DEF RateInv, StoreKept
<1>6. LimitOf(k) \in Nat \ {0} /\ h[1] = now
  BY <1>k, LimitPositive
<1>7. trouble' \in 0..MaxTrouble /\ RateInv
  BY <1>0, RateAssumption DEF RateTypes
<1> HIDE DEF old, new, H
<1>8. Owes(s, LimitOf(k), H, accepted[s][k], new, promise[s][k], now)
  BY ONLY <1>1, <1>4, <1>5, KeptFewer
<1>9. Owes(s, LimitOf(k), R, accepted[s][k], new, promise[s][k], now)
  <2>1. \A X \in Nat : old[X] \in Nat /\ new[X] \in Nat /\ new[X] <= old[X] + One(s, h, X)
    <3> TAKE X \in Nat
    <3>1. One(s, h, X) \in Nat
      BY DEF One
    <3> QED BY <1>4, <3>1
  <2> QED BY ONLY <1>1, <1>5, <1>6, <2>1, KeptMore
<1>10. PICK HH : /\ HH = IF hits' = hits THEN H ELSE R
  OBVIOUS
<1>11. Owes(s, LimitOf(k), HH, accepted[s][k], Waiting(s, k)', promise[s][k], now)
  BY <1>8, <1>9, <1>10 DEF new
<1>12. /\ hits' = [hits EXCEPT ![s][k] = HH] \/ (hits' = hits /\ HH = hits[s][k])
       /\ \/ promise' = [promise EXCEPT ![s][k] = promise[s][k]]
          \/ promise' = promise /\ promise[s][k] = promise[s][k]
       /\ UNCHANGED <<bucket, now, limiter, accepted>>
       /\ \A t \in Stores, l \in Key : ~(t = s /\ l = k) => WaitFewer(t, l)
  <2>1. hits' = [hits EXCEPT ![s][k] = HH] \/ (hits' = hits /\ HH = hits[s][k])
    <3>1. CASE hits' = hits
      BY <1>10, <3>1 DEF H
    <3>2. CASE hits' # hits
      BY <1>0, <1>10, <3>2
    <3> QED BY <3>1, <3>2
  <2> QED BY <1>0, <1>3, <2>1
<1> QED BY ONLY <1>1, <1>2, <1>7, <1>11, <1>12, KeyStep

LEMMA ArriveKeeps ==
  ASSUME RateInv, NEW c \in Calls, NEW p \in Processes, NEW u \in Clients, Arrive(c, p, u)
  PROVE  RateInv'
<1> DEFINE v == [pc |-> "checking", p |-> p, user |-> u, at |-> 0, todo |-> Checks(u)]
<1>0. /\ RateTypes /\ UNCHANGED <<bucket, now, limiter, trouble, hits, accepted, promise>>
      /\ limiter' = limiter /\ call' = [call EXCEPT ![c] = v] /\ limiter[p] # "none"
  BY DEF Arrive, RateInv
<1>1. Checks(u) \in Seq(Key) /\ Checks(u) # <<>>
  <2>1. u \in Key /\ Ip \in Key /\ bucket \in {"api", "login", "bot"}
    BY <1>0 DEF Key, RateTypes, Buckets
  <2>2. \A a, b \in Key : <<a, b>> \in Seq(Key) /\ <<a>> \in Seq(Key) /\ <<a, b>> # <<>> /\ <<a>> # <<>>
    OBVIOUS
  <2>3. Checks(u) = <<u, Ip>> \/ Checks(u) = <<Ip>> \/ Checks(u) = <<u>>
    BY <2>1 DEF Checks
  <2> QED BY <2>1, <2>2, <2>3
<1>2. now \in Nat /\ 0 <= now /\ 0 \in 0..MaxTime
  BY <1>0, RateAssumption DEF RateTypes
<1>3. /\ v \in RequestInProgress /\ v.todo # <<>> /\ v.at = 0 /\ v.p = p /\ v.pc = "checking"
  BY <1>1, <1>2 DEF RequestInProgress
<1> HIDE DEF v
<1>4. GoodCall(v)
  BY <1>0, <1>2, <1>3 DEF GoodCall
<1>5. /\ call' \in [Calls -> RequestInProgress \cup {Idle}]
      /\ \A d \in Calls : CallTyped(d)'
      /\ call'[c] = v
      /\ \A d \in Calls \ {c} : call'[d] = call[d]
  BY <1>0, <1>4, CallMoves
<1>6. \A t, l : WaitFewer(t, l)
  BY <1>0, <1>3, <1>5, NoneWaits
<1>7. RateTypes'
  BY <1>0, <1>5 DEF RateTypes
<1>8. ASSUME NEW s \in Stores, NEW k \in Key PROVE StoreKept(s, k)'
  <2>1. StoreKept(s, k) /\ WaitFewer(s, k)
    BY <1>6 DEF RateInv
  <2> QED BY <1>0, <1>2, <2>1, Untouched
<1> QED BY <1>7, <1>8 DEF RateInv

LEMMA ChooseKeeps ==
  ASSUME RateInv, NEW p \in Processes, Choose(p)
  PROVE  RateInv'
<1>0. /\ RateTypes /\ UNCHANGED <<bucket, now, hits, call, accepted, trouble, promise>>
      /\ limiter[p] = "none"
  BY DEF Choose, RateInv
<1>1. PICK s \in {p, Redis} : limiter' = [limiter EXCEPT ![p] = s]
  BY DEF Choose
<1>2. /\ limiter' \in [Processes -> Stores \cup {"none"}]
      /\ \A q \in Processes : limiter'[q] \in {"none", q, Redis}
      /\ \A q \in Processes : limiter[q] # "none" => limiter'[q] = limiter[q]
  BY <1>0, <1>1 DEF RateTypes, Stores
<1>3. ASSUME NEW c \in Calls PROVE CallTyped(c)'
  <2>1. CallTyped(c) /\ call' = call /\ now' = now
    BY <1>0 DEF RateTypes
  <2>2. CASE call[c] = Idle
    BY <2>1, <2>2 DEF CallTyped
  <2>3. CASE call[c] # Idle
    <3>1. call[c] \in RequestInProgress /\ call[c].p \in Processes /\ limiter[call[c].p] # "none"
      BY <2>1, <2>3 DEF CallTyped, RequestInProgress
    <3> QED BY <1>2, <2>1, <3>1 DEF CallTyped
  <2> QED BY <2>2, <2>3
<1>4. RateTypes'
  BY <1>0, <1>2, <1>3 DEF RateTypes
<1>5. \A t, l : WaitFewer(t, l)
  <2>1. ASSUME NEW c \in Calls, call'[c].pc = "removing"
        PROVE  /\ call[c].pc = "removing" /\ call'[c] = call[c]
               /\ limiter'[call[c].p] = limiter[call[c].p]
    <3>1. call[c].pc = "removing" /\ call'[c] = call[c]
      BY <1>0, <2>1
    <3>2. call[c].p \in Processes /\ limiter[call[c].p] # "none"
      BY <1>0, <3>1, InUse
    <3> QED BY <1>2, <3>1, <3>2
  <2> QED BY <2>1, FewerWait
<1>6. now \in Nat
  BY <1>0, RateAssumption DEF RateTypes
<1>7. ASSUME NEW t \in Stores, NEW l \in Key PROVE StoreKept(t, l)'
  <2>1. StoreKept(t, l) /\ WaitFewer(t, l)
    BY <1>5 DEF RateInv
  <2> QED BY <1>0, <1>6, <2>1, Untouched
<1> QED BY <1>4, <1>7 DEF RateInv

LEMMA TickKeeps ==
  ASSUME RateInv, Tick
  PROVE  RateInv'
<1>0. /\ RateTypes /\ UNCHANGED <<bucket, limiter, hits, call, promise>>
      /\ now < MaxTime /\ now' = now + 1
      /\ accepted' = [s \in Stores |-> [k \in Key |-> Left(s, accepted[s][k], now')]]
  BY DEF Tick, RateInv
<1>1. now \in Nat /\ now' \in Nat /\ now <= now' /\ now' \in 0..MaxTime /\ trouble' \in 0..MaxTrouble
  BY <1>0, RateAssumption DEF RateTypes, Tick
<1>2. ASSUME NEW s \in Stores, NEW k \in Key
      PROVE  StoreKept(s, k)' /\ accepted'[s][k] \in Seq(Hit)
  <2> DEFINE old == Waiting(s, k)
             n == now'
  <2>1. Waiting(s, k)' = old
    BY <1>0 DEF Waiting, TakingBack, Store, KeyOf, Alive
  <2>2. Owes(s, LimitOf(k), hits[s][k], accepted[s][k], old, promise[s][k], now)
    BY DEF RateInv, StoreKept
  <2>3. LimitOf(k) \in Nat /\ n \in Nat /\ now <= n /\ now \in Nat
    BY <1>1, LimitPositive
  <2>4. accepted'[s][k] = Left(s, accepted[s][k], n)
    BY <1>0
  <2> HIDE DEF old, n
  <2>5. Owes(s, LimitOf(k), hits[s][k], Left(s, accepted[s][k], n), old, promise[s][k], n)
    BY ONLY <2>2, <2>3, KeptTick
  <2>6. LimitOf(k)' = LimitOf(k) /\ hits' = hits /\ promise' = promise
    BY <1>0 DEF LimitOf
  <2>7. Owes(s, LimitOf(k), hits[s][k], accepted'[s][k], old, promise[s][k], n)
    BY <2>4, <2>5
  <2>8. accepted'[s][k] \in Seq(Hit)
    BY <2>7 DEF Owes
  <2>9. StoreKept(s, k)'
    BY <2>1, <2>6, <2>7 DEF StoreKept, n
  <2> QED BY <2>8, <2>9
<1>3. accepted' \in [Stores -> [Key -> Seq(Hit)]]
  BY <1>0, <1>2
<1>4. \A c \in Calls : CallTyped(c)'
  <2> TAKE c \in Calls
  <2>1. CallTyped(c) /\ call' = call /\ limiter' = limiter
    BY <1>0 DEF RateTypes
  <2>2. call[c] \in RequestInProgress => call[c].at \in Nat
    BY DEF RequestInProgress
  <2> QED BY <1>1, <2>1, <2>2 DEF CallTyped
<1>5. RateTypes'
  BY <1>0, <1>1, <1>3, <1>4 DEF RateTypes
<1> QED BY <1>2, <1>5 DEF RateInv

LEMMA RateStarts == RateInit => RateInv
<1> SUFFICES ASSUME RateInit PROVE RateInv
  OBVIOUS
<1>0. MaxTime \in Nat /\ MaxTrouble \in Nat
  BY RateAssumption
<1>1. RateTypes
  <2>1. \A c \in Calls : CallTyped(c)
    BY DEF RateInit, CallTyped
  <2>2. hits \in [Stores -> [Key -> Seq(Hit)]] /\ accepted \in [Stores -> [Key -> Seq(Hit)]]
    BY DEF RateInit
  <2>3. promise \in [Stores -> [Key -> 0..Never]]
    BY NeverLater DEF RateInit
  <2>4. /\ limiter \in [Processes -> Stores \cup {"none"}]
        /\ \A p \in Processes : limiter[p] \in {"none", p, Redis}
    BY DEF RateInit
  <2> QED BY <1>0, <2>1, <2>2, <2>3, <2>4 DEF RateInit, RateTypes
<1>2. ASSUME NEW s \in Stores, NEW k \in Key PROVE StoreKept(s, k)
  <2>1. \A X \in Nat : Waiting(s, k)[X] = 0
    <3> TAKE X \in Nat
    <3>1. TakingBack(s, k, X) = {}
      BY DEF TakingBack, RateInit, Idle
    <3> QED BY <3>1, TakingBackFinite, FS_EmptySet
  <2> DEFINE w == Waiting(s, k)
  <2>2. \A X \in Nat : w[X] = 0
    BY <2>1
  <2> HIDE DEF w
  <2>3. Owes(s, LimitOf(k), <<>>, <<>>, w, Never, 0)
    BY <2>2, LimitPositive, KeptStart
  <2>4. hits[s][k] = <<>> /\ accepted[s][k] = <<>> /\ promise[s][k] = Never /\ now = 0
    BY DEF RateInit
  <2> QED BY <2>3, <2>4 DEF StoreKept, w
<1> QED BY <1>1, <1>2 DEF RateInv

LEMMA RateKept ==
  ASSUME RateInv, [RateNext]_rateVars
  PROVE  RateInv'
<1>1. CASE Tick
  BY <1>1, TickKeeps
<1>2. CASE \E p \in Processes : Choose(p)
  BY <1>2, ChooseKeeps
<1>3. CASE \E c \in Calls, p \in Processes, u \in Clients : Arrive(c, p, u)
  BY <1>3, ArriveKeeps
<1>4. CASE \E c \in Calls : MemoryHit(c)
  BY <1>4, MemoryHitKeeps
<1>5. CASE \E c \in Calls : RedisHit(c)
  BY <1>5, RedisHitKeeps
<1>6. CASE \E c \in Calls : RedisRemove(c)
  BY <1>6, RedisRemoveKeeps
<1>7. CASE \E c \in Calls : RedisOldest(c)
  BY <1>7, RedisOldestKeeps
<1>8. CASE \E c \in Calls : Fault(c)
  BY <1>8, FaultKeeps
<1>9. CASE UNCHANGED rateVars
  <2>1. RateTypes'
    BY <1>9 DEF rateVars, RateInv, RateTypes, CallTyped
  <2>2. \A t, l : WaitFewer(t, l)
    <3>1. \A c \in Calls : call'[c].pc = "removing" =>
             /\ call[c].pc = "removing" /\ call'[c] = call[c]
             /\ limiter'[call[c].p] = limiter[call[c].p]
      BY <1>9 DEF rateVars
    <3> QED BY <3>1, FewerWait
  <2>3. now \in Nat
    BY RateAssumption DEF RateInv, RateTypes
  <2>4. ASSUME NEW t \in Stores, NEW l \in Key PROVE StoreKept(t, l)'
    <3>1. StoreKept(t, l) /\ WaitFewer(t, l)
      BY <2>2 DEF RateInv
    <3> QED BY <1>9, <2>3, <3>1, Untouched DEF rateVars
  <2> QED BY <2>1, <2>4 DEF RateInv
<1> QED BY <1>1, <1>2, <1>3, <1>4, <1>5, <1>6, <1>7, <1>8, <1>9 DEF RateNext

LEMMA RateInvImplies == RateInv => RateTypeOK /\ LimiterKeepsWord
<1> SUFFICES ASSUME RateInv PROVE RateTypeOK /\ LimiterKeepsWord
  OBVIOUS
<1>0. RateTypes /\ now \in Nat
  BY RateAssumption DEF RateInv, RateTypes
<1>1. ASSUME NEW s \in Stores, NEW k \in Key
      PROVE  /\ Len(Live(s, accepted[s][k])) <= LimitOf(k)
             /\ now >= promise[s][k] => Len(Live(s, accepted[s][k])) < LimitOf(k)
             /\ \A i \in 1..Len(hits[s][k]) : hits[s][k][i] \in (0..MaxTime) \X Clients
             /\ Seqs!IsSorted(hits[s][k], LAMBDA g, h : g[1] <= h[1])
             /\ promise[s][k] \in 0..Never
  <2>1. StoreKept(s, k)
    BY DEF RateInv
  <2>2. /\ CountAt(s, accepted[s][k], now) <= LimitOf(k)
        /\ now >= promise[s][k] => CountAt(s, accepted[s][k], now) < LimitOf(k)
        /\ hits[s][k] \in Seq(Hit) /\ InTime(hits[s][k]) /\ promise[s][k] \in 0..Never
    <3>1. now >= now
      BY <1>0
    <3> QED BY <1>0, <2>1, <3>1 DEF StoreKept, Owes
  <2>3. \A i \in 1..Len(hits[s][k]) : hits[s][k][i] \in Hit
    BY <2>2, ElementOfSeq, LenProperties
  <2>4. \A i, j \in 1..Len(hits[s][k]) : i < j => hits[s][k][i][1] <= hits[s][k][j][1]
    <3>1. Len(hits[s][k]) \in Nat
      BY <2>2, LenProperties
    <3> QED BY <2>2, <3>1 DEF InTime
  <2> QED BY <2>2, <2>3, <2>4 DEF CountAt, Live, Hit, Seqs!IsSorted
<1>2. RateTypeOK
  <2>1. \A c \in Calls : call[c].pc \in {"idle", "checking", "removing", "asking"}
    BY <1>0 DEF RateTypes, CallTyped, RequestInProgress, Idle
  <2>2. \A s \in Stores, k \in Key :
          /\ \A i \in 1..Len(hits[s][k]) : hits[s][k][i] \in (0..MaxTime) \X Clients
          /\ Seqs!IsSorted(hits[s][k], LAMBDA g, h : g[1] <= h[1])
          /\ promise[s][k] \in 0..Never
    BY <1>1
  <2> QED BY <1>0, <2>1, <2>2 DEF RateTypes, RateTypeOK
<1>3. LimiterKeepsWord
  BY <1>1 DEF LimiterKeepsWord, WindowLimit, RetryAfterHonest
<1> QED BY <1>2, <1>3
-----------------------------------------------------------------------------
(* The graph view                                                          *)

\* The nodes with a relationship to one of these, and these.
Around(links, nodes) == nodes \cup UNION {l \in links : l \cap nodes # {}}

SeedNodes(seeds) == {seeds[i] : i \in DOMAIN seeds}

(* The ball grows by one relationship at a time.                           *)
LEMMA BallEquation ==
  ASSUME NEW links, NEW seeds
  PROVE  /\ Ball(links, seeds, 0) = SeedNodes(seeds)
         /\ \A k \in 1..3 : Ball(links, seeds, k) = Around(links, Ball(links, seeds, k - 1))
<1> DEFINE s == SeedNodes(seeds)
           Step(b) == [k \in 0..3 |-> IF k = 0 THEN s
                                      ELSE b[k - 1] \cup UNION {l \in links : l \cap b[k - 1] # {}}]
           b1 == Around(links, s)
           b2 == Around(links, b1)
           b3 == Around(links, b2)
           g == [k \in 0..3 |-> IF k = 0 THEN s ELSE IF k = 1 THEN b1 ELSE IF k = 2 THEN b2 ELSE b3]
           ball == CHOOSE b : b = Step(b)
<1>1. \E b : b = Step(b)
  <2>1. g[0] = s /\ g[1] = b1 /\ g[2] = b2 /\ g[3] = b3
    OBVIOUS
  <2>2. /\ b1 = s \cup UNION {l \in links : l \cap s # {}}
        /\ b2 = b1 \cup UNION {l \in links : l \cap b1 # {}}
        /\ b3 = b2 \cup UNION {l \in links : l \cap b2 # {}}
    BY DEF Around
  <2> HIDE DEF b1, b2, b3, s
  <2>3. \A k \in 0..3 : k = 0 \/ k = 1 \/ k = 2 \/ k = 3
    OBVIOUS
  <2>4. \A k \in 0..3 : g[k] = IF k = 0 THEN s
                               ELSE g[k - 1] \cup UNION {l \in links : l \cap g[k - 1] # {}}
    <3> HIDE DEF g
    <3> TAKE k \in 0..3
    <3>1. CASE k = 0
      BY <3>1, <2>1
    <3>2. CASE k = 1
      <4>1. k # 0 /\ k - 1 = 0
        BY <3>2
      <4> QED BY <3>2, <4>1, <2>1, <2>2
    <3>3. CASE k = 2
      <4>1. k # 0 /\ k - 1 = 1
        BY <3>3
      <4> QED BY <3>3, <4>1, <2>1, <2>2
    <3>4. CASE k = 3
      <4>1. k # 0 /\ k - 1 = 2
        BY <3>4
      <4> QED BY <3>4, <4>1, <2>1, <2>2
    <3> QED BY <2>3, <3>1, <3>2, <3>3, <3>4
  <2>5. g = Step(g)
    BY <2>4
  <2> QED BY <2>5
<1>2. ball = Step(ball)
  <2> HIDE DEF Step
  <2> QED BY <1>1, Zenon
<1>3. \A k \in 0..3 : Ball(links, seeds, k) = ball[k]
  BY Zenon DEF Ball, SeedNodes
<1> HIDE DEF ball
<1>4. /\ ball[0] = s
      /\ \A k \in 1..3 : ball[k] = Around(links, ball[k - 1])
  BY <1>2 DEF Around
<1>5. \A k \in 1..3 : k \in 0..3 /\ k - 1 \in 0..3
  OBVIOUS
<1> QED BY <1>3, <1>4, <1>5

LEMMA AroundGrows ==
  ASSUME NEW links, NEW more, links \subseteq more, NEW nodes, NEW others, nodes \subseteq others
  PROVE  nodes \subseteq Around(links, nodes) /\ Around(links, nodes) \subseteq Around(more, others)
BY DEF Around

(* More relationships and more depth, more nodes.                          *)
LEMMA BallGrows ==
  ASSUME NEW links, NEW more, links \subseteq more, NEW seeds, NEW k \in 0..3
  PROVE  /\ Ball(links, seeds, k) \subseteq Ball(more, seeds, k)
         /\ \A j \in 0..3 : k <= j => Ball(links, seeds, k) \subseteq Ball(links, seeds, j)
<1>0. /\ Ball(links, seeds, 0) = SeedNodes(seeds)
      /\ Ball(more, seeds, 0) = SeedNodes(seeds)
      /\ Ball(links, seeds, 1) = Around(links, Ball(links, seeds, 0))
      /\ Ball(links, seeds, 2) = Around(links, Ball(links, seeds, 1))
      /\ Ball(links, seeds, 3) = Around(links, Ball(links, seeds, 2))
      /\ Ball(more, seeds, 1) = Around(more, Ball(more, seeds, 0))
      /\ Ball(more, seeds, 2) = Around(more, Ball(more, seeds, 1))
      /\ Ball(more, seeds, 3) = Around(more, Ball(more, seeds, 2))
  <2>1. 1 \in 1..3 /\ 2 \in 1..3 /\ 3 \in 1..3 /\ 1 - 1 = 0 /\ 2 - 1 = 1 /\ 3 - 1 = 2
    OBVIOUS
  <2>2. /\ \A j \in 1..3 : Ball(links, seeds, j) = Around(links, Ball(links, seeds, j - 1))
        /\ \A j \in 1..3 : Ball(more, seeds, j) = Around(more, Ball(more, seeds, j - 1))
        /\ Ball(links, seeds, 0) = SeedNodes(seeds)
        /\ Ball(more, seeds, 0) = SeedNodes(seeds)
    BY BallEquation
  <2> QED BY <2>1, <2>2
<1>1. /\ Ball(links, seeds, 0) \subseteq Ball(links, seeds, 1)
      /\ Ball(links, seeds, 1) \subseteq Ball(links, seeds, 2)
      /\ Ball(links, seeds, 2) \subseteq Ball(links, seeds, 3)
  BY <1>0, AroundGrows
<1>2. Ball(links, seeds, 1) \subseteq Ball(more, seeds, 1)
  BY <1>0, AroundGrows
<1>3. Ball(links, seeds, 2) \subseteq Ball(more, seeds, 2)
  BY <1>0, <1>2, AroundGrows
<1>4. Ball(links, seeds, 3) \subseteq Ball(more, seeds, 3)
  BY <1>0, <1>3, AroundGrows
<1>5. k = 0 \/ k = 1 \/ k = 2 \/ k = 3
  OBVIOUS
<1>6. ASSUME NEW j \in 0..3, k <= j
      PROVE  Ball(links, seeds, k) \subseteq Ball(links, seeds, j)
  <2>1. j = 0 \/ j = 1 \/ j = 2 \/ j = 3
    OBVIOUS
  <2> QED BY <1>1, <1>5, <1>6, <2>1
<1> QED BY <1>0, <1>2, <1>3, <1>4, <1>5, <1>6

ViewTyped ==
    /\ graph \subseteq Relations
    /\ before \subseteq graph
    /\ bfs \in [at : {"idle", "running", "done"}, queue : Seq(GraphNodes \X (0..3)),
                seeds : Seq(GraphNodes), depth : 0..3, limit : Nat, nodes : SUBSET GraphNodes,
                links : SUBSET graph, truncated : BOOLEAN, cut : BOOLEAN]
    /\ IF bfs.at = "running" /\ ~bfs.truncated THEN Cardinality(bfs.nodes) < bfs.limit
       ELSE Cardinality(bfs.nodes) <= bfs.limit
    /\ bfs.at = "done" => bfs.queue = <<>> \/ bfs.truncated
    /\ bfs.at = "done" => \A l \in bfs.links : l \subseteq bfs.nodes

(* Nothing is queued or visited that is not near enough.                   *)
NearEnough ==
    /\ bfs.nodes \subseteq Ball(graph, bfs.seeds, bfs.depth)
    /\ \A i \in DOMAIN bfs.queue :
          /\ bfs.queue[i][2] <= bfs.depth
          /\ bfs.queue[i][1] \in Ball(graph, bfs.seeds, bfs.queue[i][2])

(* x has been visited at distance k, or is queued for it, or nearer.       *)
Reached(b, dist, x, k) == \/ x \in b.nodes /\ dist[x] <= k
                          \/ \E i \in DOMAIN b.queue : b.queue[i][1] = x /\ b.queue[i][2] <= k

(* The distances at which a traversal that dropped nothing has visited its *)
(* nodes: no later ones are nearer, and what was next to a node it looked  *)
(* around is at most one further.                                          *)
Distances(b, dist) ==
    /\ \A x \in SeedNodes(b.seeds) : Reached(b, dist, x, 0)
    /\ \A x \in b.nodes : dist[x] < b.depth =>
          \A l \in before : x \in l => \A y \in l : Reached(b, dist, y, dist[x] + 1)
    /\ \A x \in b.nodes, i \in DOMAIN b.queue : dist[x] <= b.queue[i][2]
    /\ \A i, j \in DOMAIN b.queue : i <= j => /\ b.queue[i][2] <= b.queue[j][2]
                                             /\ b.queue[j][2] <= b.queue[1][2] + 1

Traversed == bfs.at # "idle" /\ ~bfs.truncated /\ ~bfs.cut =>
                 \E dist \in [bfs.nodes -> 0..3] : Distances(bfs, dist)

ViewInv == ViewTyped /\ NearEnough /\ Traversed

LEMMA ViewStarts == ViewInit => ViewInv
<1> SUFFICES ASSUME ViewInit PROVE ViewInv
  OBVIOUS
<1>1. bfs = [at |-> "idle", queue |-> <<>>, seeds |-> <<>>, depth |-> 0, limit |-> 0,
             nodes |-> {}, links |-> {}, truncated |-> FALSE, cut |-> FALSE]
  <2>1. [i \in DOMAIN <<>> |-> <<(<<>>)[i], 0>>] = <<>>
    OBVIOUS
  <2> QED BY <2>1 DEF ViewInit, NewBfs
<1>2. ViewTyped
  <2>1. <<>> \in Seq(GraphNodes \X (0..3)) /\ <<>> \in Seq(GraphNodes)
    OBVIOUS
  <2>2. bfs \in [at : {"idle", "running", "done"}, queue : Seq(GraphNodes \X (0..3)),
                seeds : Seq(GraphNodes), depth : 0..3, limit : Nat, nodes : SUBSET GraphNodes,
                links : SUBSET graph, truncated : BOOLEAN, cut : BOOLEAN]
    BY <1>1, <2>1
  <2>3. bfs.at = "idle" /\ Cardinality(bfs.nodes) = 0 /\ bfs.limit = 0
    BY <1>1, FS_EmptySet
  <2>4. graph \subseteq Relations /\ before \subseteq graph
    BY DEF ViewInit
  <2> QED BY <2>2, <2>3, <2>4 DEF ViewTyped
<1>3. NearEnough
  BY <1>1 DEF NearEnough
<1>4. Traversed
  BY <1>1 DEF Traversed
<1> QED BY <1>2, <1>3, <1>4 DEF ViewInv

LEMMA AskKeepsView == ViewInv /\ AskView => ViewInv'
<1> SUFFICES ASSUME ViewInv, AskView PROVE ViewInv'
  OBVIOUS
<1>1. PICK seeds \in Seeds, d \in Depths, m \in NodeLimits : bfs' = NewBfs("running", seeds, d, m)
  BY DEF AskView
<1>2. seeds \in Seq(GraphNodes)
  BY DEF Seeds
<1>3. d \in 0..3 /\ m \in Nat \ {0}
  BY GraphViewAssumption
<1> DEFINE q == [i \in DOMAIN seeds |-> <<seeds[i], 0>>]
<1>4. /\ DOMAIN seeds = 1..Len(seeds) /\ Len(seeds) \in Nat
      /\ \A i \in DOMAIN seeds : seeds[i] \in GraphNodes
  BY <1>2, LenProperties, ElementOfSeq
<1>5. q \in Seq(GraphNodes \X (0..3)) /\ DOMAIN q = DOMAIN seeds
  <2>1. q \in [1..Len(seeds) -> GraphNodes \X (0..3)]
    BY <1>4
  <2> QED BY <1>4, <2>1, IsASeq
<1>6. /\ bfs' = [at |-> "running", queue |-> q, seeds |-> seeds, depth |-> d, limit |-> m,
                 nodes |-> {}, links |-> {}, truncated |-> FALSE, cut |-> FALSE]
      /\ \A i \in DOMAIN q : q[i][1] = seeds[i] /\ q[i][2] = 0
      /\ UNCHANGED <<graph, before>>
  BY <1>1 DEF NewBfs, AskView
<1> HIDE DEF q
<1>7. ViewTyped'
  BY <1>2, <1>3, <1>5, <1>6, FS_EmptySet DEF ViewInv, ViewTyped
<1>8. NearEnough'
  <2>1. Ball(graph, seeds, 0) = SeedNodes(seeds)
    BY BallEquation
  <2> QED BY <1>3, <1>5, <1>6, <2>1 DEF NearEnough, SeedNodes
<1>9. Traversed'
  <2> DEFINE none == [x \in {} |-> 0]
  <2>1. none \in [bfs'.nodes -> 0..3]
    BY <1>6
  <2>2. Distances(bfs, none)'
    <3>1. /\ bfs'.nodes = {} /\ bfs'.queue = q /\ bfs'.seeds = seeds
      BY <1>6
    <3>2. \A x \in SeedNodes(seeds) : Reached(bfs', none, x, 0)
      BY <1>5, <1>6, <3>1 DEF Reached, SeedNodes
    <3>3. \A i, j \in DOMAIN q : q[i][2] <= q[j][2] /\ q[j][2] <= q[1][2] + 1
      <4> SUFFICES ASSUME NEW i \in DOMAIN q, NEW j \in DOMAIN q
                   PROVE  q[i][2] <= q[j][2] /\ q[j][2] <= q[1][2] + 1
        OBVIOUS
      <4>1. 1 \in DOMAIN q
        BY <1>4, <1>5
      <4> QED BY <1>6, <4>1
    <3> QED BY <3>1, <3>2, <3>3 DEF Distances
  <2> QED BY <2>1, <2>2 DEF Traversed
<1> QED BY <1>7, <1>8, <1>9 DEF ViewInv

LEMMA GrowKeepsView == ViewInv /\ Grow => ViewInv'
<1> SUFFICES ASSUME ViewInv, Grow PROVE ViewInv'
  OBVIOUS
<1>1. /\ graph \subseteq graph' /\ graph' \subseteq Relations
      /\ UNCHANGED <<before, bfs>>
  BY DEF Grow, ViewInv, ViewTyped
<1>2. ViewTyped'
  BY <1>1 DEF ViewInv, ViewTyped
<1>3. NearEnough'
  <2>1. Ball(graph, bfs.seeds, bfs.depth) \subseteq Ball(graph', bfs.seeds, bfs.depth)
    BY <1>1, BallGrows DEF ViewInv, ViewTyped
  <2>2. ASSUME NEW i \in DOMAIN bfs.queue
        PROVE  Ball(graph, bfs.seeds, bfs.queue[i][2]) \subseteq Ball(graph', bfs.seeds, bfs.queue[i][2])
    <3>1. bfs.queue[i][2] \in 0..3
      <4>1. bfs.queue \in Seq(GraphNodes \X (0..3))
        BY DEF ViewInv, ViewTyped
      <4> QED BY <4>1
    <3>2. \A k \in 0..3 : Ball(graph, bfs.seeds, k) \subseteq Ball(graph', bfs.seeds, k)
      BY <1>1, BallGrows
    <3> QED BY <3>1, <3>2
  <2> QED BY <1>1, <2>1, <2>2 DEF ViewInv, NearEnough
<1>4. Traversed'
  BY <1>1 DEF ViewInv, Traversed, Distances, Reached
<1> QED BY <1>2, <1>3, <1>4 DEF ViewInv

LEMMA ReturnKeepsView == ViewInv /\ Return => ViewInv'
<1> SUFFICES ASSUME ViewInv, Return PROVE ViewInv'
  OBVIOUS
<1>1. /\ bfs' = [bfs EXCEPT !.at = "done", !.links = Kept(bfs)]
      /\ UNCHANGED <<graph, before>>
      /\ bfs.queue = <<>> \/ bfs.truncated
      /\ bfs.at = "running"
  BY DEF Return, Ends
<1>2. /\ bfs'.at = "done" /\ bfs'.links = Kept(bfs)
      /\ bfs'.queue = bfs.queue /\ bfs'.seeds = bfs.seeds /\ bfs'.depth = bfs.depth
      /\ bfs'.nodes = bfs.nodes /\ bfs'.truncated = bfs.truncated /\ bfs'.cut = bfs.cut
      /\ bfs'.limit = bfs.limit
  BY <1>1 DEF ViewInv, ViewTyped
<1>3. ViewTyped'
  <2>1. Kept(bfs) \subseteq bfs.links /\ \A l \in Kept(bfs) : l \subseteq bfs.nodes
    BY DEF Kept
  <2>2. Kept(bfs) \in SUBSET graph'
    BY <1>1, <2>1 DEF ViewInv, ViewTyped
  <2>3. bfs' \in [at : {"idle", "running", "done"}, queue : Seq(GraphNodes \X (0..3)),
                  seeds : Seq(GraphNodes), depth : 0..3, limit : Nat, nodes : SUBSET GraphNodes,
                  links : SUBSET graph', truncated : BOOLEAN, cut : BOOLEAN]
    BY <1>1, <2>2 DEF ViewInv, ViewTyped
  <2>4. Cardinality(bfs'.nodes) <= bfs'.limit
    <3>1. Cardinality(bfs.nodes) \in Nat
      BY GraphViewAssumption, FS_Subset, FS_CardinalityType DEF ViewInv, ViewTyped
    <3> QED BY <1>2, <3>1 DEF ViewInv, ViewTyped
  <2> QED BY <1>1, <1>2, <2>1, <2>3, <2>4 DEF ViewInv, ViewTyped
<1>4. NearEnough'
  BY <1>1, <1>2 DEF ViewInv, NearEnough
<1>5. Traversed'
  BY <1>1, <1>2 DEF ViewInv, Traversed, Distances, Reached
<1> QED BY <1>3, <1>4, <1>5 DEF ViewInv

(* What is queued after the head, in its order.                            *)
LEMMA AfterTheHead ==
  ASSUME NEW T, NEW q \in Seq(T), q # <<>>
  PROVE  /\ Len(q) \in Nat \ {0} /\ 1 \in DOMAIN q
         /\ DOMAIN q = 1..Len(q)
         /\ Head(q) = q[1] /\ q[1] \in T
         /\ Tail(q) \in Seq(T) /\ Len(Tail(q)) = Len(q) - 1
         /\ DOMAIN Tail(q) = 1..(Len(q) - 1)
         /\ \A i \in 1..(Len(q) - 1) : Tail(q)[i] = q[i + 1]
<1>1. Len(q) \in Nat \ {0}
  BY EmptySeq, LenProperties
<1>2. /\ Tail(q) \in Seq(T) /\ Len(Tail(q)) = Len(q) - 1
      /\ \A i \in 1..(Len(q) - 1) : Tail(q)[i] = q[i + 1]
  BY <1>1, HeadTailProperties
<1> QED BY <1>1, <1>2, ElementOfSeq, LenProperties

(* What is queued after a visit: what was queued after its head, and the   *)
(* neighbours it found, all of one distance.                               *)
LEMMA Joined ==
  ASSUME NEW T, NEW r \in Seq(T), NEW m \in Seq(T)
  PROVE  /\ r \o m \in Seq(T) /\ DOMAIN (r \o m) = 1..(Len(r) + Len(m))
         /\ Len(r) \in Nat /\ Len(m) \in Nat
         /\ DOMAIN r = 1..Len(r) /\ DOMAIN m = 1..Len(m)
         /\ \A i \in DOMAIN r : i \in DOMAIN (r \o m) /\ (r \o m)[i] = r[i]
         /\ \A i \in DOMAIN m : Len(r) + i \in DOMAIN (r \o m) /\ (r \o m)[Len(r) + i] = m[i]
         /\ \A i \in DOMAIN (r \o m) : \/ i \in DOMAIN r /\ (r \o m)[i] = r[i]
                                       \/ /\ i > Len(r) /\ i - Len(r) \in DOMAIN m
                                          /\ (r \o m)[i] = m[i - Len(r)]
<1>1. /\ Len(r) \in Nat /\ Len(m) \in Nat
      /\ DOMAIN r = 1..Len(r) /\ DOMAIN m = 1..Len(m)
  BY LenProperties
<1>2. /\ r \o m \in Seq(T) /\ Len(r \o m) = Len(r) + Len(m)
      /\ \A i \in 1..(Len(r) + Len(m)) : (r \o m)[i] = IF i <= Len(r) THEN r[i] ELSE m[i - Len(r)]
  BY ConcatProperties
<1>3. DOMAIN (r \o m) = 1..(Len(r) + Len(m))
  BY <1>2, LenProperties
<1> DEFINE z == r \o m
<1> HIDE DEF z
<1>4. /\ DOMAIN z = 1..(Len(r) + Len(m))
      /\ \A i \in 1..(Len(r) + Len(m)) : z[i] = IF i <= Len(r) THEN r[i] ELSE m[i - Len(r)]
  BY <1>2, <1>3 DEF z
<1>5. \A i \in DOMAIN r : i \in DOMAIN z /\ z[i] = r[i]
  BY <1>1, <1>4
<1>6. \A i \in DOMAIN m : Len(r) + i \in DOMAIN z /\ z[Len(r) + i] = m[i]
  <2> TAKE i \in DOMAIN m
  <2>1. /\ Len(r) + i \in 1..(Len(r) + Len(m)) /\ ~(Len(r) + i <= Len(r))
        /\ (Len(r) + i) - Len(r) = i
    BY <1>1
  <2> QED BY <1>4, <2>1
<1>7. \A i \in DOMAIN z : \/ i \in DOMAIN r /\ z[i] = r[i]
                          \/ i > Len(r) /\ i - Len(r) \in DOMAIN m /\ z[i] = m[i - Len(r)]
  <2> TAKE i \in DOMAIN z
  <2>1. CASE i <= Len(r)
    BY <1>1, <1>4, <2>1
  <2>2. CASE i > Len(r)
    <3>1. ~(i <= Len(r)) /\ i - Len(r) \in DOMAIN m
      BY <1>1, <1>4, <2>2
    <3> QED BY <1>4, <2>2, <3>1
  <2> QED BY <1>1, <1>4, <2>1, <2>2
<1> QED BY <1>1, <1>2, <1>3, <1>5, <1>6, <1>7 DEF z

(* The neighbours are each queued once, and all of them are.               *)
LEMMA AllQueued ==
  ASSUME NEW nodes, IsFiniteSet(nodes), NEW d, NEW more \in Queued(nodes, d)
  PROVE  /\ more \in Seq(nodes \X {d}) /\ DOMAIN more = 1..Cardinality(nodes)
         /\ \A x \in nodes : \E i \in DOMAIN more : more[i] = <<x, d>>
<1>1. Cardinality(nodes) \in Nat
  BY FS_CardinalityType
<1>2. more \in [1..Cardinality(nodes) -> nodes \X {d}]
  BY DEF Queued
<1>3. more \in Seq(nodes \X {d}) /\ DOMAIN more = 1..Cardinality(nodes)
  BY <1>1, <1>2, IsASeq
<1> DEFINE first == [i \in 1..Cardinality(nodes) |-> more[i][1]]
<1>4. first \in [1..Cardinality(nodes) -> nodes]
  BY <1>2
<1>5. first \in Injection(1..Cardinality(nodes), nodes)
  <2>1. ASSUME NEW i \in 1..Cardinality(nodes), NEW j \in 1..Cardinality(nodes), first[i] = first[j]
        PROVE  i = j
    <3>1. more[i] \in nodes \X {d} /\ more[j] \in nodes \X {d}
      BY <1>2
    <3>2. more[i] = more[j]
      BY <2>1, <3>1
    <3>3. \A a, b \in DOMAIN more : a # b => more[a] # more[b]
      BY DEF Queued
    <3> QED BY <1>3, <3>2, <3>3
  <2> QED BY <1>4, <2>1 DEF Injection, IsInjective
<1>6. IsFiniteSet(1..Cardinality(nodes)) /\ Cardinality(1..Cardinality(nodes)) = Cardinality(nodes)
  BY <1>1, FS_Interval
<1>7. first \in Surjection(1..Cardinality(nodes), nodes)
  BY <1>5, <1>6, FS_Injection
<1>8. ASSUME NEW x \in nodes PROVE \E i \in DOMAIN more : more[i] = <<x, d>>
  <2>1. PICK i \in 1..Cardinality(nodes) : first[i] = x
    BY <1>7 DEF Surjection
  <2>2. more[i] \in nodes \X {d} /\ more[i][1] = x
    BY <1>2, <2>1
  <2> QED BY <1>3, <2>2
<1> QED BY <1>3, <1>8

(* What is next to n has been visited, or is queued for this distance.     *)
LookedAround(b, n, k) ==
    \A l \in before : n \in l => \A y \in l :
       y \in b.nodes \/ \E j \in DOMAIN b.queue : b.queue[j][1] = y /\ b.queue[j][2] = k

(* A visit that drops nothing leaves distances: the node it visits has the *)
(* distance it was queued with, and what it queues is one further.         *)
LEMMA VisitDistances ==
  ASSUME ViewInv, bfs.at = "running", bfs.queue # <<>>,
         NEW dist \in [bfs.nodes -> 0..3], Distances(bfs, dist),
         NEW n, NEW d \in 0..3, bfs.queue[1] = <<n, d>>,
         NEW b, b.seeds = bfs.seeds, b.depth = bfs.depth, b.nodes = bfs.nodes \cup {n},
         b.queue \in Seq(GraphNodes \X (0..3)),
         \A i \in 2..Len(bfs.queue) : \E j \in DOMAIN b.queue : b.queue[j] = bfs.queue[i],
         \A j \in DOMAIN b.queue : d <= b.queue[j][2] /\ b.queue[j][2] <= d + 1,
         \A i, j \in DOMAIN b.queue : i <= j => b.queue[i][2] <= b.queue[j][2],
         n \in bfs.nodes \/ d >= bfs.depth \/ LookedAround(b, n, d + 1)
  PROVE  \E new \in [b.nodes -> 0..3] : Distances(b, new)
<1> DEFINE q == bfs.queue
           r == b.queue
           new == [x \in b.nodes |-> IF x \in bfs.nodes THEN dist[x] ELSE d]
<1>0. /\ \A x \in bfs.nodes : new[x] = dist[x] /\ x \in b.nodes
      /\ n \in b.nodes
      /\ n \notin bfs.nodes => new[n] = d
      /\ \A x \in b.nodes : x \in bfs.nodes \/ x = n
      /\ new \in [b.nodes -> 0..3]
  OBVIOUS
<1> HIDE DEF new
<1>1. /\ q \in Seq(GraphNodes \X (0..3))
      /\ Len(q) \in Nat \ {0} /\ 1 \in DOMAIN q /\ DOMAIN q = 1..Len(q)
      /\ \A i \in DOMAIN q : q[i] \in GraphNodes \X (0..3)
  <2>1. q \in Seq(GraphNodes \X (0..3))
    BY DEF ViewInv, ViewTyped
  <2> QED BY <2>1, AfterTheHead, ElementOfSeq
<1>2. /\ q[1][1] = n /\ q[1][2] = d
      /\ \A i \in DOMAIN q : q[i][2] \in 0..3
      /\ \A x \in bfs.nodes : dist[x] \in 0..3
  BY <1>1
<1>3. \A x \in bfs.nodes : dist[x] <= d
  BY <1>1, <1>2 DEF Distances
<1>4. new[n] <= d
  BY <1>0, <1>3
<1>5. \A j \in DOMAIN r : r[j][2] \in 0..3
  <2>1. \A j \in DOMAIN r : r[j] \in GraphNodes \X (0..3)
    BY ElementOfSeq, LenProperties
  <2> QED BY <2>1
<1>6. ASSUME NEW x, NEW k \in 0..4, Reached(bfs, dist, x, k)
      PROVE  Reached(b, new, x, k)
  <2>1. CASE x \in bfs.nodes /\ dist[x] <= k
    BY <1>0, <2>1 DEF Reached
  <2>2. ASSUME NEW i \in DOMAIN q, q[i][1] = x, q[i][2] <= k
        PROVE  Reached(b, new, x, k)
    <3>1. CASE i = 1
      <4>1. x = n /\ d <= k
        BY <1>2, <2>2, <3>1
      <4>2. n \in b.nodes /\ new[n] <= k /\ new[n] \in 0..3
        BY <1>0, <1>4, <4>1
      <4> QED BY <4>1, <4>2 DEF Reached
    <3>2. CASE i # 1
      <4>1. i \in 2..Len(q)
        BY <1>1, <3>2
      <4>2. PICK j \in DOMAIN r : r[j] = q[i]
        BY <4>1
      <4>3. r[j][1] = x /\ r[j][2] <= k
        BY <2>2, <4>2
      <4> QED BY <4>3 DEF Reached
    <3> QED BY <3>1, <3>2
  <2> QED BY <1>6, <2>1, <2>2 DEF Reached
<1>7. \A x \in SeedNodes(b.seeds) : Reached(b, new, x, 0)
  BY <1>6 DEF Distances
<1>8. ASSUME NEW x \in b.nodes, new[x] < b.depth, NEW l \in before, x \in l, NEW y \in l
      PROVE  Reached(b, new, y, new[x] + 1)
  <2>1. CASE x \in bfs.nodes
    <3>1. new[x] = dist[x] /\ dist[x] + 1 \in 0..4 /\ dist[x] < bfs.depth
      BY <1>0, <1>2, <1>8, <2>1
    <3>2. Reached(bfs, dist, y, dist[x] + 1)
      BY <1>8, <2>1, <3>1 DEF Distances
    <3> QED BY <1>6, <3>1, <3>2
  <2>2. CASE x \notin bfs.nodes
    <3>1. x = n /\ new[x] = d /\ ~(d >= bfs.depth)
      <4>1. bfs.depth \in 0..3
        BY DEF ViewInv, ViewTyped
      <4> QED BY <1>0, <1>8, <2>2, <4>1
    <3>2. y \in b.nodes \/ \E j \in DOMAIN r : r[j][1] = y /\ r[j][2] = d + 1
      BY <1>8, <2>2, <3>1 DEF LookedAround
    <3>3. CASE y \in b.nodes
      <4>1. new[y] <= d /\ new[y] \in 0..3
        BY <1>0, <1>3, <1>4, <3>3
      <4>2. new[y] <= d + 1
        BY <4>1
      <4> QED BY <3>1, <3>3, <4>2 DEF Reached
    <3>4. ASSUME NEW j \in DOMAIN r, r[j][1] = y, r[j][2] = d + 1
          PROVE  Reached(b, new, y, new[x] + 1)
      BY <3>1, <3>4 DEF Reached
    <3> QED BY <3>2, <3>3, <3>4
  <2> QED BY <2>1, <2>2
<1>9. \A x \in b.nodes, i \in DOMAIN r : new[x] <= r[i][2]
  <2> TAKE x \in b.nodes, i \in DOMAIN r
  <2>1. new[x] <= d /\ new[x] \in 0..3
    BY <1>0, <1>3, <1>4
  <2>2. d <= r[i][2] /\ r[i][2] \in 0..3
    BY <1>5
  <2> QED BY <2>1, <2>2
<1>10. \A i, j \in DOMAIN r : i <= j => r[i][2] <= r[j][2] /\ r[j][2] <= r[1][2] + 1
  <2> SUFFICES ASSUME NEW i \in DOMAIN r, NEW j \in DOMAIN r, i <= j
               PROVE  r[j][2] <= r[1][2] + 1
    OBVIOUS
  <2>1. 1 \in DOMAIN r
    BY LenProperties
  <2>2. d <= r[1][2] /\ r[1][2] \in 0..3 /\ r[j][2] <= d + 1 /\ r[j][2] \in 0..3
    BY <1>5, <2>1
  <2> QED BY <2>2
<1>11. Distances(b, new)
  BY <1>7, <1>8, <1>9, <1>10 DEF Distances
<1> QED BY <1>0, <1>11

LEMMA StillTraversed ==
  ASSUME NEW STATE b, bfs' = b, before' = before, 
         ~b.truncated /\ ~b.cut => \E new \in [b.nodes -> 0..3] : Distances(b, new)
  PROVE  Traversed'
<1>1. ASSUME NEW new, Distances(b, new)
      PROVE  Distances(bfs, new)'
  BY <1>1 DEF Distances, Reached
<1> QED BY <1>1 DEF Traversed

LEMMA VisitKeepsView == ViewInv /\ Visit => ViewInv'
<1> SUFFICES ASSUME ViewInv, Visit PROVE ViewInv'
  OBVIOUS
<1> DEFINE q == bfs.queue
           n == PopLeft(bfs).next[1]
           d == PopLeft(bfs).next[2]
           rest == PopLeft(bfs).rest
           nodes == bfs.nodes \cup {n}
           old == n \in bfs.nodes /\ bfs' = [bfs EXCEPT !.queue = rest]
           full == /\ n \notin bfs.nodes /\ Full(nodes)
                   /\ bfs' = [bfs EXCEPT !.queue = rest, !.nodes = nodes, !.truncated = TRUE]
           far == /\ n \notin bfs.nodes /\ ~Full(nodes) /\ d >= bfs.depth
                  /\ bfs' = [bfs EXCEPT !.queue = rest, !.nodes = nodes]
           opened(S, more) == bfs' = [bfs EXCEPT !.queue = rest \o more, !.nodes = nodes,
                                       !.links = @ \cup S,
                                       !.cut = @ \/ S # EdgesOf(n)]
           near == /\ n \notin bfs.nodes /\ ~Full(nodes) /\ d < bfs.depth
                   /\ \E S \in Limited(n) : \E more \in Queued((UNION S) \ nodes, d + 1) :
                         opened(S, more)
<1>0. old \/ full \/ far \/ near
  BY Zenon DEF Visit
<1>1. /\ bfs.at = "running" /\ q # <<>> /\ ~bfs.truncated
      /\ UNCHANGED <<graph, before>>
  BY DEF Visit, Ends
<1>2. /\ graph \subseteq Relations /\ before \subseteq graph
      /\ bfs \in [at : {"idle", "running", "done"}, queue : Seq(GraphNodes \X (0..3)),
                  seeds : Seq(GraphNodes), depth : 0..3, limit : Nat, nodes : SUBSET GraphNodes,
                  links : SUBSET graph, truncated : BOOLEAN, cut : BOOLEAN]
  BY DEF ViewInv, ViewTyped
<1>3. /\ Len(q) \in Nat \ {0} /\ 1 \in DOMAIN q /\ DOMAIN q = 1..Len(q)
      /\ Head(q) = q[1] /\ q[1] \in GraphNodes \X (0..3)
      /\ Tail(q) \in Seq(GraphNodes \X (0..3))
      /\ DOMAIN Tail(q) = 1..(Len(q) - 1)
      /\ \A i \in 1..(Len(q) - 1) : Tail(q)[i] = q[i + 1]
  <2>1. q \in Seq(GraphNodes \X (0..3))
    BY <1>2
  <2> QED BY <1>1, <2>1, AfterTheHead
<1>4. /\ n = q[1][1] /\ d = q[1][2] /\ rest = Tail(q)
      /\ n \in GraphNodes /\ d \in 0..3 /\ q[1] = <<n, d>>
  BY <1>3 DEF PopLeft
<1> HIDE DEF n, d, rest
<1>5. /\ rest \in Seq(GraphNodes \X (0..3))
      /\ DOMAIN rest = 1..(Len(q) - 1)
      /\ \A i \in DOMAIN rest : rest[i] = q[i + 1] /\ i + 1 \in DOMAIN q
      /\ \A i \in 2..Len(q) : i - 1 \in DOMAIN rest /\ rest[i - 1] = q[i]
  <2>1. \A i \in 1..(Len(q) - 1) : i + 1 \in 1..Len(q)
    BY <1>3
  <2>2. ASSUME NEW i \in 2..Len(q)
        PROVE  i - 1 \in DOMAIN rest /\ rest[i - 1] = q[i]
    <3>1. i - 1 \in 1..(Len(q) - 1) /\ (i - 1) + 1 = i
      BY <1>3, <2>2
    <3> QED BY <1>3, <1>4, <3>1
  <2> QED BY <1>3, <1>4, <2>1, <2>2
<1>6. /\ nodes \subseteq GraphNodes
      /\ IsFiniteSet(bfs.nodes) /\ Cardinality(bfs.nodes) \in Nat
      /\ n \notin bfs.nodes => Cardinality(nodes) = Cardinality(bfs.nodes) + 1
  <2>1. bfs.nodes \subseteq GraphNodes
    BY <1>2
  <2>2. IsFiniteSet(bfs.nodes)
    BY <2>1, GraphViewAssumption, FS_Subset
  <2>3. Cardinality(bfs.nodes) \in Nat
    BY <2>2, FS_CardinalityType
  <2>4. n \notin bfs.nodes => Cardinality(nodes) = Cardinality(bfs.nodes) + 1
    BY <2>2, FS_AddElement
  <2> QED BY <1>4, <2>1, <2>2, <2>3, <2>4
<1>7. Cardinality(bfs.nodes) < bfs.limit /\ bfs.limit \in Nat
  BY <1>1, <1>2 DEF ViewInv, ViewTyped
<1>8. n \in Ball(graph, bfs.seeds, d) /\ d <= bfs.depth /\ bfs.depth \in 0..3
  BY <1>2, <1>3, <1>4 DEF ViewInv, NearEnough
<1>y. nodes = bfs.nodes \cup {n}
  OBVIOUS
<1> HIDE DEF nodes
<1>9. nodes \subseteq Ball(graph, bfs.seeds, bfs.depth)
  <2>1. \A j \in 0..3 : d <= j => Ball(graph, bfs.seeds, d) \subseteq Ball(graph, bfs.seeds, j)
    <3> TAKE j \in 0..3
    <3>1. d \in 0..3
      BY <1>4
    <3> QED BY <3>1, BallGrows
  <2>2. n \in Ball(graph, bfs.seeds, bfs.depth)
    BY <1>8, <2>1
  <2>3. bfs.nodes \subseteq Ball(graph, bfs.seeds, bfs.depth)
    BY DEF ViewInv, NearEnough
  <2> QED BY <1>y, <2>2, <2>3
<1>10. \A i \in DOMAIN rest : /\ rest[i][2] <= bfs.depth
                              /\ rest[i][1] \in Ball(graph, bfs.seeds, rest[i][2])
  <2>1. \A i \in DOMAIN q : q[i][2] <= bfs.depth /\ q[i][1] \in Ball(graph, bfs.seeds, q[i][2])
    BY DEF ViewInv, NearEnough
  <2> QED BY <1>5, <2>1
<1>11. ASSUME ~bfs.truncated, ~bfs.cut
       PROVE  \E dist \in [bfs.nodes -> 0..3] :
                 /\ Distances(bfs, dist)
                 /\ \A i \in DOMAIN rest : d <= rest[i][2] /\ rest[i][2] <= d + 1
                 /\ \A i, j \in DOMAIN rest : i <= j => rest[i][2] <= rest[j][2]
  <2>1. PICK dist \in [bfs.nodes -> 0..3] : Distances(bfs, dist)
    BY <1>1, <1>11 DEF ViewInv, Traversed
  <2>2. \A i, j \in DOMAIN q : i <= j => q[i][2] <= q[j][2] /\ q[j][2] <= q[1][2] + 1
    BY <2>1 DEF Distances
  <2>3. ASSUME NEW i \in DOMAIN rest
        PROVE  d <= rest[i][2] /\ rest[i][2] <= d + 1
    <3>1. i + 1 \in DOMAIN q /\ 1 <= i + 1 /\ rest[i] = q[i + 1]
      BY <1>3, <1>5
    <3> QED BY <1>3, <1>4, <2>2, <3>1
  <2>4. ASSUME NEW i \in DOMAIN rest, NEW j \in DOMAIN rest, i <= j
        PROVE  rest[i][2] <= rest[j][2]
    <3>1. /\ i + 1 \in DOMAIN q /\ j + 1 \in DOMAIN q /\ i + 1 <= j + 1
          /\ rest[i] = q[i + 1] /\ rest[j] = q[j + 1]
      BY <1>3, <1>5, <2>4
    <3> QED BY <2>2, <3>1
  <2> QED BY <2>1, <2>3, <2>4
<1>12. CASE old
  <2> DEFINE b == [bfs EXCEPT !.queue = rest]
  <2>1. /\ b \in [at : {"idle", "running", "done"}, queue : Seq(GraphNodes \X (0..3)),
                  seeds : Seq(GraphNodes), depth : 0..3, limit : Nat, nodes : SUBSET GraphNodes,
                  links : SUBSET graph, truncated : BOOLEAN, cut : BOOLEAN]
        /\ b.at = bfs.at /\ b.queue = rest /\ b.seeds = bfs.seeds /\ b.depth = bfs.depth
        /\ b.limit = bfs.limit /\ b.nodes = bfs.nodes /\ b.links = bfs.links
        /\ b.truncated = bfs.truncated /\ b.cut = bfs.cut
    BY <1>2, <1>5
  <2>2. bfs' = b /\ n \in bfs.nodes
    BY <1>12
  <2> HIDE DEF b
  <2>3. ViewTyped'
    BY <1>1, <1>2, <1>7, <2>1, <2>2 DEF ViewTyped
  <2>4. NearEnough'
    BY <1>1, <1>y, <1>9, <1>10, <2>1, <2>2 DEF NearEnough
  <2>5. Traversed'
    <3> SUFFICES ASSUME ~bfs.truncated, ~bfs.cut
                 PROVE  \E new \in [b.nodes -> 0..3] : Distances(b, new)
      BY <1>1, <2>1, <2>2, StillTraversed
    <3>1. PICK dist \in [bfs.nodes -> 0..3] :
                 /\ Distances(bfs, dist)
                 /\ \A i \in DOMAIN rest : d <= rest[i][2] /\ rest[i][2] <= d + 1
                 /\ \A i, j \in DOMAIN rest : i <= j => rest[i][2] <= rest[j][2]
      BY <1>11
    <3>2. b.nodes = bfs.nodes \cup {n}
      BY <1>y, <2>1, <2>2
    <3>3. \A i \in 2..Len(q) : \E j \in DOMAIN b.queue : b.queue[j] = q[i]
      BY <1>5, <2>1
    <3> QED BY <1>1, <1>4, <1>5, <2>1, <2>2, <3>1, <3>2, <3>3, VisitDistances
  <2> QED BY <2>3, <2>4, <2>5 DEF ViewInv
<1>13. CASE full
  <2> DEFINE b == [bfs EXCEPT !.queue = rest, !.nodes = nodes, !.truncated = TRUE]
  <2>1. /\ b \in [at : {"idle", "running", "done"}, queue : Seq(GraphNodes \X (0..3)),
                  seeds : Seq(GraphNodes), depth : 0..3, limit : Nat, nodes : SUBSET GraphNodes,
                  links : SUBSET graph, truncated : BOOLEAN, cut : BOOLEAN]
        /\ b.at = bfs.at /\ b.queue = rest /\ b.seeds = bfs.seeds /\ b.depth = bfs.depth
        /\ b.limit = bfs.limit /\ b.nodes = nodes /\ b.links = bfs.links
        /\ b.truncated = TRUE /\ b.cut = bfs.cut
    BY <1>2, <1>5, <1>6
  <2>2. bfs' = b /\ n \notin bfs.nodes
    BY <1>13
  <2> HIDE DEF b
  <2>3. Cardinality(b.nodes) <= b.limit
    BY <1>6, <1>7, <2>1, <2>2
  <2>4. ViewTyped'
    BY <1>1, <1>2, <2>1, <2>2, <2>3 DEF ViewTyped
  <2>5. NearEnough'
    BY <1>1, <1>y, <1>9, <1>10, <2>1, <2>2 DEF NearEnough
  <2>6. Traversed'
    BY <2>1, <2>2 DEF Traversed
  <2> QED BY <2>4, <2>5, <2>6 DEF ViewInv
<1>14. CASE far
  <2> DEFINE b == [bfs EXCEPT !.queue = rest, !.nodes = nodes]
  <2>1. /\ b \in [at : {"idle", "running", "done"}, queue : Seq(GraphNodes \X (0..3)),
                  seeds : Seq(GraphNodes), depth : 0..3, limit : Nat, nodes : SUBSET GraphNodes,
                  links : SUBSET graph, truncated : BOOLEAN, cut : BOOLEAN]
        /\ b.at = bfs.at /\ b.queue = rest /\ b.seeds = bfs.seeds /\ b.depth = bfs.depth
        /\ b.limit = bfs.limit /\ b.nodes = nodes /\ b.links = bfs.links
        /\ b.truncated = bfs.truncated /\ b.cut = bfs.cut
    BY <1>2, <1>5, <1>6
  <2>2. bfs' = b
    BY <1>14
  <2>7. n \notin bfs.nodes /\ d >= bfs.depth /\ ~Full(nodes)
    BY <1>14
  <2> HIDE DEF b
  <2>3. Cardinality(b.nodes) < b.limit
    BY <1>6, <1>7, <2>1, <2>7 DEF Full
  <2>4. ViewTyped'
    BY <1>1, <1>2, <2>1, <2>2, <2>3 DEF ViewTyped
  <2>5. NearEnough'
    BY <1>1, <1>y, <1>9, <1>10, <2>1, <2>2 DEF NearEnough
  <2>6. Traversed'
    <3> SUFFICES ASSUME ~bfs.truncated, ~bfs.cut
                 PROVE  \E new \in [b.nodes -> 0..3] : Distances(b, new)
      BY <1>1, <2>1, <2>2, StillTraversed
    <3>1. PICK dist \in [bfs.nodes -> 0..3] :
                 /\ Distances(bfs, dist)
                 /\ \A i \in DOMAIN rest : d <= rest[i][2] /\ rest[i][2] <= d + 1
                 /\ \A i, j \in DOMAIN rest : i <= j => rest[i][2] <= rest[j][2]
      BY <1>11
    <3>3. \A i \in 2..Len(q) : \E j \in DOMAIN b.queue : b.queue[j] = q[i]
      BY <1>5, <2>1
    <3>4. /\ b.seeds = bfs.seeds /\ b.depth = bfs.depth /\ b.nodes = bfs.nodes \cup {n}
          /\ b.queue = rest /\ b.queue \in Seq(GraphNodes \X (0..3))
      BY ONLY <1>5, <1>y, <2>1
    <3>5. /\ \A j \in DOMAIN b.queue : d <= b.queue[j][2] /\ b.queue[j][2] <= d + 1
          /\ \A i, j \in DOMAIN b.queue : i <= j => b.queue[i][2] <= b.queue[j][2]
      BY ONLY <3>1, <3>4
    <3>6. /\ bfs.at = "running" /\ bfs.queue # <<>> /\ d \in 0..3 /\ bfs.queue[1] = <<n, d>>
          /\ \A i \in 2..Len(bfs.queue) : \E j \in DOMAIN b.queue : b.queue[j] = bfs.queue[i]
      BY <1>1, <1>4, <1>5, <3>3
    <3> QED BY <1>1, <2>7, <3>1, <3>4, <3>5, <3>6, VisitDistances
  <2> QED BY <2>4, <2>5, <2>6 DEF ViewInv
<1>15. CASE near
  <2>1. /\ n \notin bfs.nodes /\ ~Full(nodes) /\ d < bfs.depth
        /\ \E S \in Limited(n) : \E more \in Queued((UNION S) \ nodes, d + 1) : opened(S, more)
    BY <1>15
  <2>2. PICK S \in Limited(n) : \E more \in Queued((UNION S) \ nodes, d + 1) : opened(S, more)
    BY <2>1
  <2> DEFINE found == (UNION S) \ nodes
  <2>3. PICK more \in Queued(found, d + 1) : opened(S, more)
    BY <2>2
  <2>4. S \subseteq EdgesOf(n) /\ S \subseteq graph /\ \A l \in S : n \in l
    BY DEF Limited, EdgesOf
  <2>5. found \subseteq GraphNodes /\ IsFiniteSet(found)
    <3>1. \A l \in Relations : l \subseteq GraphNodes
      BY DEF Relations
    <3>2. found \subseteq GraphNodes
      BY <1>2, <2>4, <3>1
    <3> QED BY <3>2, GraphViewAssumption, FS_Subset
  <2> HIDE DEF found
  <2>6. /\ more \in Seq(found \X {d + 1}) /\ DOMAIN more = 1..Cardinality(found)
        /\ \A x \in found : \E i \in DOMAIN more : more[i] = <<x, d + 1>>
    <3>1. IsFiniteSet(found) /\ more \in Queued(found, d + 1)
      BY <2>5
    <3> QED BY <3>1, AllQueued
  <2>7. d + 1 \in 0..3 /\ d + 1 <= bfs.depth
    BY <1>4, <1>8, <2>1
  <2>8. /\ more \in Seq(GraphNodes \X (0..3))
        /\ \A i \in DOMAIN more : more[i] \in found \X {d + 1}
    <3> DEFINE pairs == found \X {d + 1}
    <3> HIDE DEF pairs
    <3>0. more \in Seq(pairs)
      BY <2>6 DEF pairs
    <3>1. \A i \in DOMAIN more : more[i] \in found \X {d + 1}
      <4>1. \A i \in DOMAIN more : more[i] \in pairs
        BY ONLY <3>0, ElementOfSeq, LenProperties
      <4> QED BY ONLY <4>1 DEF pairs
    <3>2. found \X {d + 1} \subseteq GraphNodes \X (0..3)
      BY <2>5, <2>7
    <3> QED BY <2>6, <3>1, <3>2
  <2> DEFINE r == rest \o more
  <2>9. /\ r \in Seq(GraphNodes \X (0..3))
        /\ \A i \in DOMAIN rest : i \in DOMAIN r /\ r[i] = rest[i]
        /\ \A i \in DOMAIN more : Len(rest) + i \in DOMAIN r /\ r[Len(rest) + i] = more[i]
        /\ \A i \in DOMAIN r : \/ i \in DOMAIN rest /\ r[i] = rest[i]
                               \/ /\ i > Len(rest) /\ i - Len(rest) \in DOMAIN more
                                  /\ r[i] = more[i - Len(rest)]
        /\ DOMAIN r \subseteq Nat /\ DOMAIN rest = 1..Len(rest) /\ Len(rest) \in Nat
    <3> DEFINE places == GraphNodes \X (0..3)
    <3>1. rest \in Seq(places) /\ more \in Seq(places)
      BY <1>5, <2>8
    <3> HIDE DEF places
    <3>2. r \in Seq(places)
      BY ONLY <3>1, Joined DEF r
    <3>3. /\ \A i \in DOMAIN rest : i \in DOMAIN r /\ r[i] = rest[i]
          /\ \A i \in DOMAIN more : Len(rest) + i \in DOMAIN r /\ r[Len(rest) + i] = more[i]
          /\ \A i \in DOMAIN r : \/ i \in DOMAIN rest /\ r[i] = rest[i]
                                 \/ /\ i > Len(rest) /\ i - Len(rest) \in DOMAIN more
                                    /\ r[i] = more[i - Len(rest)]
      BY ONLY <3>1, Joined DEF r
    <3>4. DOMAIN r \subseteq Nat /\ DOMAIN rest = 1..Len(rest) /\ Len(rest) \in Nat
      BY ONLY <3>1, Joined DEF r
    <3> QED BY ONLY <3>2, <3>3, <3>4 DEF places
  <2> DEFINE cut == bfs.cut \/ S # EdgesOf(n)
             links == bfs.links \cup S
             b == [bfs EXCEPT !.queue = r, !.nodes = nodes, !.links = links, !.cut = cut]
  <2>10. bfs' = b
    BY <2>3
  <2>11. cut \in BOOLEAN /\ links \in SUBSET graph
    BY <1>2, <2>4
  <2> HIDE DEF cut, links, r
  <2>12. b \in [at : {"idle", "running", "done"}, queue : Seq(GraphNodes \X (0..3)),
                seeds : Seq(GraphNodes), depth : 0..3, limit : Nat, nodes : SUBSET GraphNodes,
                links : SUBSET graph, truncated : BOOLEAN, cut : BOOLEAN]
    BY <1>2, <1>6, <2>9, <2>11
  <2>13. /\ b.at = bfs.at /\ b.queue = r /\ b.seeds = bfs.seeds /\ b.depth = bfs.depth
         /\ b.limit = bfs.limit /\ b.nodes = nodes /\ b.links = links
         /\ b.truncated = bfs.truncated /\ b.cut = cut
    BY <1>2
  <2> HIDE DEF b
  <2>14. Cardinality(b.nodes) < b.limit
    BY <1>6, <1>7, <2>1, <2>13 DEF Full
  <2>15. ViewTyped'
    BY <1>1, <1>2, <2>10, <2>12, <2>13, <2>14 DEF ViewTyped
  <2>16. NearEnough'
    <3>1. Ball(graph, bfs.seeds, d + 1) = Around(graph, Ball(graph, bfs.seeds, d))
      <4>1. d + 1 \in 1..3 /\ (d + 1) - 1 = d
        BY <1>4, <2>7
      <4>2. \A k \in 1..3 : Ball(graph, bfs.seeds, k) = Around(graph, Ball(graph, bfs.seeds, k - 1))
        BY BallEquation
      <4> QED BY <4>1, <4>2
    <3>2. found \subseteq Ball(graph, bfs.seeds, d + 1)
      BY <1>8, <2>4, <3>1 DEF Around, found
    <3>3. ASSUME NEW i \in DOMAIN r
          PROVE  r[i][2] <= bfs.depth /\ r[i][1] \in Ball(graph, bfs.seeds, r[i][2])
      <4>1. CASE i \in DOMAIN rest /\ r[i] = rest[i]
        BY <1>10, <4>1
      <4>2. ASSUME NEW j \in DOMAIN more, r[i] = more[j]
            PROVE  r[i][2] <= bfs.depth /\ r[i][1] \in Ball(graph, bfs.seeds, r[i][2])
        <5>1. r[i][1] \in found /\ r[i][2] = d + 1
          BY <2>8, <4>2
        <5> QED BY <2>7, <3>2, <5>1
      <4> QED BY <2>9, <4>1, <4>2
    <3> QED BY <1>1, <1>9, <2>10, <2>13, <3>3 DEF NearEnough
  <2>17. Traversed'
    <3> SUFFICES ASSUME ~bfs.truncated, ~cut
                 PROVE  \E new \in [b.nodes -> 0..3] : Distances(b, new)
      BY <1>1, <2>10, <2>13, StillTraversed
    <3>0. ~bfs.cut /\ S = EdgesOf(n)
      BY DEF cut
    <3>1. PICK dist \in [bfs.nodes -> 0..3] :
                 /\ Distances(bfs, dist)
                 /\ \A i \in DOMAIN rest : d <= rest[i][2] /\ rest[i][2] <= d + 1
                 /\ \A i, j \in DOMAIN rest : i <= j => rest[i][2] <= rest[j][2]
      BY <1>11, <3>0
    <3>2. \A i \in DOMAIN more : more[i][2] = d + 1
      BY <2>8
    <3>3. \A j \in DOMAIN r : d <= r[j][2] /\ r[j][2] <= d + 1
      <4> SUFFICES ASSUME NEW j \in DOMAIN r PROVE d <= r[j][2] /\ r[j][2] <= d + 1
        OBVIOUS
      <4>1. CASE j \in DOMAIN rest /\ r[j] = rest[j]
        BY <3>1, <4>1
      <4>2. ASSUME NEW k \in DOMAIN more, r[j] = more[k]
            PROVE  d <= r[j][2] /\ r[j][2] <= d + 1
        BY <1>4, <3>2, <4>2
      <4> QED BY <2>9, <4>1, <4>2
    <3>4. \A i, j \in DOMAIN r : i <= j => r[i][2] <= r[j][2]
      <4> SUFFICES ASSUME NEW i \in DOMAIN r, NEW j \in DOMAIN r, i <= j
                   PROVE  r[i][2] <= r[j][2]
        OBVIOUS
      <4>1. CASE j \in DOMAIN rest /\ r[j] = rest[j]
        <5>1. i \in DOMAIN rest
          BY <2>9, <4>1
        <5>2. r[i] = rest[i]
          BY <2>9, <5>1
        <5> QED BY <3>1, <4>1, <5>1, <5>2
      <4>2. ASSUME NEW k \in DOMAIN more, r[j] = more[k]
            PROVE  r[i][2] <= r[j][2]
        BY <3>2, <3>3, <4>2
      <4> QED BY <2>9, <4>1, <4>2
    <3>5. \A i \in 2..Len(q) : \E j \in DOMAIN b.queue : b.queue[j] = q[i]
      <4>1. \A i \in 2..Len(q) : i - 1 \in DOMAIN r /\ r[i - 1] = q[i]
        BY <1>5, <2>9
      <4> QED BY <2>13, <4>1
    <3>6. ASSUME NEW l \in before, n \in l, NEW y \in l
          PROVE  y \in b.nodes \/ \E j \in DOMAIN b.queue : b.queue[j][1] = y /\ b.queue[j][2] = d + 1
      <4>1. l \in S
        BY <1>2, <3>0, <3>6 DEF EdgesOf
      <4>2. CASE y \in nodes
        BY <2>13, <4>2
      <4>3. CASE y \notin nodes
        <5>1. y \in found
          BY <3>6, <4>1, <4>3 DEF found
        <5>2. PICK i \in DOMAIN more : more[i] = <<y, d + 1>>
          BY <2>6, <5>1
        <5>3. Len(rest) + i \in DOMAIN r /\ r[Len(rest) + i] = <<y, d + 1>>
          BY <2>9, <5>2
        <5>4. r[Len(rest) + i][1] = y /\ r[Len(rest) + i][2] = d + 1
          BY <5>3
        <5> QED BY <2>13, <5>3, <5>4
      <4> QED BY <4>2, <4>3
    <3>7. LookedAround(b, n, d + 1)
      BY <3>6 DEF LookedAround
    <3>8. /\ b.queue \in Seq(GraphNodes \X (0..3))
          /\ \A j \in DOMAIN b.queue : d <= b.queue[j][2] /\ b.queue[j][2] <= d + 1
          /\ \A i, j \in DOMAIN b.queue : i <= j => b.queue[i][2] <= b.queue[j][2]
      BY <2>9, <2>13, <3>3, <3>4
    <3>9. b.seeds = bfs.seeds /\ b.depth = bfs.depth /\ b.nodes = bfs.nodes \cup {n}
      BY <1>y, <2>13
    <3> QED BY <1>1, <1>4, <3>1, <3>5, <3>7, <3>8, <3>9, VisitDistances
  <2> QED BY <2>15, <2>16, <2>17 DEF ViewInv
<1> QED BY <1>0, <1>12, <1>13, <1>14, <1>15

(* When the queue is empty every node within the depth has been visited.   *)
LEMMA AllVisited ==
  ASSUME ViewInv, bfs.queue = <<>>, bfs.at # "idle", ~bfs.truncated, ~bfs.cut
  PROVE  Ball(before, bfs.seeds, bfs.depth) \subseteq bfs.nodes
<1>1. PICK dist \in [bfs.nodes -> 0..3] : Distances(bfs, dist)
  BY DEF ViewInv, Traversed
<1>2. \A x, k : Reached(bfs, dist, x, k) => x \in bfs.nodes /\ dist[x] <= k
  BY DEF Reached
<1> DEFINE B(k) == Ball(before, bfs.seeds, k)
           InReach(k) == \A x \in B(k) : x \in bfs.nodes /\ dist[x] <= k
<1>3. bfs.depth \in 0..3
  BY DEF ViewInv, ViewTyped
<1>4. /\ B(0) = SeedNodes(bfs.seeds)
      /\ \A k \in 1..3 : B(k) = Around(before, B(k - 1))
  BY BallEquation
<1> HIDE DEF B
<1>5. InReach(0)
  BY <1>1, <1>2, <1>4 DEF Distances
<1>6. ASSUME NEW k \in 1..3, k <= bfs.depth, InReach(k - 1)
      PROVE  InReach(k)
  <2> SUFFICES ASSUME NEW x \in B(k) PROVE x \in bfs.nodes /\ dist[x] <= k
    OBVIOUS
  <2>1. CASE x \in B(k - 1)
    <3>1. x \in bfs.nodes /\ dist[x] <= k - 1 /\ dist[x] \in 0..3
      BY <1>6, <2>1
    <3> QED BY <3>1
  <2>2. ASSUME NEW l \in before, NEW y \in l, y \in B(k - 1), x \in l
        PROVE  x \in bfs.nodes /\ dist[x] <= k
    <3>1. y \in bfs.nodes /\ dist[y] <= k - 1 /\ dist[y] \in 0..3
      BY <1>6, <2>2
    <3>2. dist[y] < bfs.depth /\ dist[y] + 1 <= k
      BY <1>3, <1>6, <3>1
    <3>3. Reached(bfs, dist, x, dist[y] + 1)
      BY <1>1, <2>2, <3>1, <3>2 DEF Distances
    <3>4. x \in bfs.nodes /\ dist[x] <= dist[y] + 1 /\ dist[x] \in 0..3
      BY <1>2, <3>3
    <3> QED BY <3>1, <3>2, <3>4
  <2> QED BY <1>4, <2>1, <2>2 DEF Around
<1>7. bfs.depth >= 1 => InReach(1)
  <2>1. 1 \in 1..3 /\ 1 - 1 = 0
    OBVIOUS
  <2> QED BY <1>3, <1>5, <1>6, <2>1
<1>8. bfs.depth >= 2 => InReach(2)
  <2>1. 2 \in 1..3 /\ 2 - 1 = 1 /\ (bfs.depth >= 2 => bfs.depth >= 1)
    BY <1>3
  <2> QED BY <1>3, <1>6, <1>7, <2>1
<1>9. bfs.depth >= 3 => InReach(3)
  <2>1. 3 \in 1..3 /\ 3 - 1 = 2 /\ (bfs.depth >= 3 => bfs.depth >= 2)
    BY <1>3
  <2> QED BY <1>3, <1>6, <1>8, <2>1
<1>10. bfs.depth = 0 \/ bfs.depth = 1 \/ bfs.depth = 2 \/ bfs.depth = 3
  BY <1>3
<1>11. InReach(bfs.depth)
  BY <1>5, <1>7, <1>8, <1>9, <1>10
<1> QED BY <1>11 DEF B

LEMMA ViewInvImplies == ViewInv => ViewTypeOK /\ ViewIsNeighbourhood
<1> SUFFICES ASSUME ViewInv PROVE ViewTypeOK /\ ViewIsNeighbourhood
  OBVIOUS
<1>1. Cardinality(bfs.nodes) <= bfs.limit
  <2>1. Cardinality(bfs.nodes) \in Nat /\ bfs.limit \in Nat
    BY GraphViewAssumption, FS_Subset, FS_CardinalityType DEF ViewInv, ViewTyped
  <2> QED BY <2>1 DEF ViewInv, ViewTyped
<1>2. ViewTypeOK
  BY <1>1 DEF ViewInv, ViewTyped, ViewTypeOK
<1>3. ViewIsNeighbourhood
  <2> SUFFICES ASSUME bfs.at = "done" PROVE ViewIsNeighbourhood
    BY DEF ViewIsNeighbourhood
  <2>1. \A l \in bfs.links : l \subseteq bfs.nodes
    BY DEF ViewInv, ViewTyped
  <2>2. bfs.nodes \subseteq Ball(graph, bfs.seeds, bfs.depth)
    BY DEF ViewInv, NearEnough
  <2>3. bfs.queue = <<>> \/ bfs.truncated
    BY DEF ViewInv, ViewTyped
  <2>4. bfs.truncated \/ bfs.cut \/ Ball(before, bfs.seeds, bfs.depth) \subseteq bfs.nodes
    BY <2>3, AllVisited
  <2> QED BY <2>1, <2>2, <2>4 DEF ViewIsNeighbourhood
<1> QED BY <1>2, <1>3

LEMMA ViewKept == ViewInv /\ [ViewNext]_viewVars => ViewInv'
<1>1. ViewInv /\ UNCHANGED viewVars => ViewInv'
  BY DEF viewVars, ViewInv, ViewTyped, NearEnough, Traversed, Distances, Reached
<1> QED BY <1>1, AskKeepsView, GrowKeepsView, VisitKeepsView, ReturnKeepsView DEF ViewNext
-----------------------------------------------------------------------------
(* A username search                                                       *)

LEMMA PlatformNames ==
  /\ Platforms = {"github", "reddit", "telegram", "web"}
  /\ Http = {"github", "reddit", "web"}
  /\ \A i \in 1..4 : Adapters[i] \in Platforms
  /\ \A i, j \in 1..4 : Adapters[i] = Adapters[j] => i = j
  /\ \A p \in Platforms : \E i \in 1..4 : Adapters[i] = p
<1>1. /\ Adapters[1] = "github" /\ Adapters[2] = "reddit"
      /\ Adapters[3] = "telegram" /\ Adapters[4] = "web"
      /\ DOMAIN Adapters = 1..4
  BY DEF Adapters
<1>2. \A i \in 1..4 : i = 1 \/ i = 2 \/ i = 3 \/ i = 4
  OBVIOUS
<1>3. Platforms = {"github", "reddit", "telegram", "web"}
  BY <1>1, <1>2 DEF Platforms
<1>4. Http = {"github", "reddit", "web"}
  BY <1>3 DEF Http
<1> QED BY <1>1, <1>2, <1>3, <1>4

(* q has the members of S, each once.                                      *)
Lists(q, S) == /\ q \in Seq(Platforms)
               /\ \A p \in S : \E i \in DOMAIN q : q[i] = p
               /\ \A i \in DOMAIN q : q[i] \in S
               /\ \A i, j \in DOMAIN q : q[i] = q[j] => i = j

LEMMA Listed ==
  ASSUME NEW S, NEW q, Lists(q, S), NEW p \in Platforms, p \notin S
  PROVE  Lists(Append(q, p), S \cup {p})
<1>1. /\ q \in Seq(Platforms) /\ Len(q) \in Nat /\ DOMAIN q = 1..Len(q)
      /\ \A i \in DOMAIN q : q[i] \in S
      /\ \A i, j \in DOMAIN q : q[i] = q[j] => i = j
      /\ \A x \in S : \E i \in DOMAIN q : q[i] = x
  BY LenProperties DEF Lists
<1> DEFINE r == Append(q, p)
<1>2. /\ r \in Seq(Platforms) /\ Len(r) = Len(q) + 1 /\ r[Len(q) + 1] = p
      /\ \A i \in 1..Len(q) : r[i] = q[i]
  BY <1>1, AppendProperties
<1>3. DOMAIN r = 1..(Len(q) + 1)
  BY <1>2, LenProperties
<1> HIDE DEF r
<1>4. \A i \in DOMAIN r : \/ i \in DOMAIN q /\ r[i] = q[i] /\ r[i] \in S
                          \/ i = Len(q) + 1 /\ r[i] = p
  BY <1>1, <1>2, <1>3
<1>5. \A i \in DOMAIN q : i \in DOMAIN r /\ r[i] = q[i]
  BY <1>1, <1>2, <1>3
<1>6. Len(q) + 1 \in DOMAIN r
  BY <1>1, <1>3
<1>7. \A x \in S \cup {p} : \E i \in DOMAIN r : r[i] = x
  BY <1>1, <1>2, <1>5, <1>6
<1>8. \A i, j \in DOMAIN r : r[i] = r[j] => i = j
  BY <1>1, <1>4
<1> QED BY <1>2, <1>4, <1>7, <1>8 DEF Lists, r

(* The adapters of a set, in order, are those of the set, each once.       *)
LEMMA InOrderLists ==
  ASSUME NEW S, S \subseteq Platforms
  PROVE  Lists(InOrder(S), S)
<1> DEFINE Next1(q, i) == IF Adapters[i] \in S THEN Append(q, Adapters[i]) ELSE q
           Step(b) == [i \in 0..4 |-> IF i = 0 THEN <<>>
                                      ELSE IF Adapters[i] \in S THEN Append(b[i - 1], Adapters[i])
                                      ELSE b[i - 1]]
           q1 == Next1(<<>>, 1)
           q2 == Next1(q1, 2)
           q3 == Next1(q2, 3)
           q4 == Next1(q3, 4)
           g == [i \in 0..4 |-> IF i = 0 THEN <<>> ELSE IF i = 1 THEN q1 ELSE IF i = 2 THEN q2
                                ELSE IF i = 3 THEN q3 ELSE q4]
           seq == CHOOSE b : b = Step(b)
<1>1. \E b : b = Step(b)
  <2>1. g[0] = <<>> /\ g[1] = q1 /\ g[2] = q2 /\ g[3] = q3 /\ g[4] = q4
    <3> HIDE DEF q1, q2, q3, q4
    <3> QED OBVIOUS
  <2>2. q1 = Next1(<<>>, 1) /\ q2 = Next1(q1, 2) /\ q3 = Next1(q2, 3) /\ q4 = Next1(q3, 4)
    OBVIOUS
  <2> HIDE DEF q1, q2, q3, q4, g
  <2>3. \A i \in 0..4 : i = 0 \/ i = 1 \/ i = 2 \/ i = 3 \/ i = 4
    OBVIOUS
  <2>4. \A i \in 1..4 : g[i] = Next1(g[i - 1], i)
    <3> HIDE DEF Next1
    <3>1. 1 - 1 = 0 /\ 2 - 1 = 1 /\ 3 - 1 = 2 /\ 4 - 1 = 3
      OBVIOUS
    <3>2. \A i \in 1..4 : i = 1 \/ i = 2 \/ i = 3 \/ i = 4
      OBVIOUS
    <3> QED BY <2>1, <2>2, <3>1, <3>2
  <2>5. g = Step(g)
    <3>1. \A i \in 0..4 : i # 0 => i \in 1..4
      OBVIOUS
    <3>2. g = [i \in 0..4 |-> g[i]]
      BY DEF g
    <3>3. \A i \in 0..4 : g[i] = Step(g)[i]
      BY <2>1, <2>4, <3>1
    <3> QED BY <3>2, <3>3
  <2> QED BY <2>5
<1>2. seq = Step(seq)
  <2> HIDE DEF Step
  <2> QED BY <1>1, Zenon
<1>3. InOrder(S) = seq[4]
  BY Zenon DEF InOrder
<1> HIDE DEF seq
<1>4. seq[0] = <<>> /\ \A i \in 1..4 : seq[i] = Next1(seq[i - 1], i)
  <2>1. \A i \in 0..4 : seq[i] = Step(seq)[i]
    BY <1>2
  <2>2. \A i \in 1..4 : i \in 0..4 /\ i # 0
    OBVIOUS
  <2> QED BY <2>1, <2>2
<1> DEFINE Before(i) == {p \in S : \E j \in 1..i : Adapters[j] = p}
<1>5. ASSUME NEW i \in 1..4, Lists(seq[i - 1], Before(i - 1))
      PROVE  Lists(seq[i], Before(i))
  <2>1. /\ 1..i = (1..(i - 1)) \cup {i} /\ i \notin 1..(i - 1)
        /\ Adapters[i] \in Platforms
        /\ \A j \in 1..(i - 1) : Adapters[j] # Adapters[i]
    BY PlatformNames
  <2>2. CASE Adapters[i] \in S
    <3>1. Before(i) = Before(i - 1) \cup {Adapters[i]} /\ Adapters[i] \notin Before(i - 1)
      BY <2>1, <2>2
    <3>2. seq[i] = Append(seq[i - 1], Adapters[i])
      BY <1>4, <2>2
    <3> HIDE DEF Before
    <3> QED BY <1>5, <2>1, <3>1, <3>2, Listed
  <2>3. CASE Adapters[i] \notin S
    <3>1. Before(i) = Before(i - 1)
      BY <2>1, <2>3
    <3>2. seq[i] = seq[i - 1]
      BY <1>4, <2>3
    <3> QED BY <1>5, <3>1, <3>2
  <2> QED BY <2>2, <2>3
<1>6. Lists(seq[0], Before(0))
  <2>1. Before(0) = {}
    OBVIOUS
  <2> QED BY <1>4, <2>1 DEF Lists
<1>7. Before(4) = S
  BY PlatformNames
<1> HIDE DEF Before
<1>8. Lists(seq[1], Before(1))
  <2>1. 1 \in 1..4 /\ 1 - 1 = 0
    OBVIOUS
  <2> QED BY <1>5, <1>6, <2>1
<1>9. Lists(seq[2], Before(2))
  <2>1. 2 \in 1..4 /\ 2 - 1 = 1
    OBVIOUS
  <2> QED BY <1>5, <1>8, <2>1
<1>10. Lists(seq[3], Before(3))
  <2>1. 3 \in 1..4 /\ 3 - 1 = 2
    OBVIOUS
  <2> QED BY <1>5, <1>9, <2>1
<1>11. Lists(seq[4], Before(4))
  <2>1. 4 \in 1..4 /\ 4 - 1 = 3
    OBVIOUS
  <2> QED BY <1>5, <1>10, <2>1
<1> QED BY <1>3, <1>7, <1>11

(* The adapters that found the handle are listed once each.                *)
LEMMA FoundListed ==
  /\ Found \in Seq(Platforms)
  /\ \A i \in DOMAIN Found : Found[i] \in Platforms /\ tasks[Found[i]].verdict = "found"
  /\ \A p \in Platforms : tasks[p].verdict = "found" => \E i \in DOMAIN Found : Found[i] = p
  /\ \A i, j \in DOMAIN Found : Found[i] = Found[j] => i = j
<1> DEFINE S == {p \in Answered : tasks[p].verdict = "found"}
<1>1. /\ S \subseteq Platforms
      /\ \A p \in Platforms : tasks[p].verdict = "found" => p \in S
      /\ \A p \in S : p \in Platforms /\ tasks[p].verdict = "found"
  BY DEF Answered
<1>2. Found = InOrder(S)
  BY DEF Found
<1> HIDE DEF S
<1>3. Lists(Found, S)
  BY <1>1, <1>2, InOrderLists
<1> QED BY <1>1, <1>3 DEF Lists

(* What the signals of two accounts add up to, whichever comes first.      *)
LEMMA SignalWeights ==
  ASSUME NEW f \in Facts, NEW g \in Facts
  PROVE  LET S == Signals(f, g)
         IN  /\ Weight(S, "username") = 25
             /\ Weight(S, "name") = IF f.name # {} /\ f.name = g.name THEN 25 ELSE 0
             /\ Weight(S, "overlap") = IF f.name # g.name /\ Jaccard(f.name, g.name, 1, 2) THEN 12 ELSE 0
             /\ Weight(S, "site") = IF f.site # "" /\ f.site = g.site THEN 22 ELSE 0
             /\ Weight(S, "bio") = IF Jaccard(f.bio, g.bio, 2, 5) THEN 15 ELSE 0
             /\ Weight(S, "place") = IF f.place # "" /\ f.place = g.place THEN 5 ELSE 0
<1> DEFINE S == Signals(f, g)
           All == {<<"username", 25>>, <<"name", 25>>, <<"overlap", 12>>, <<"site", 22>>,
                   <<"bio", 15>>, <<"place", 5>>}
<1>1. \A s \in S : s \in All
  BY DEF Signals
<1>2. /\ <<"username", 25>> \in S
      /\ <<"name", 25>> \in S <=> f.name # {} /\ f.name = g.name
      /\ <<"overlap", 12>> \in S <=> f.name # g.name /\ Jaccard(f.name, g.name, 1, 2)
      /\ <<"site", 22>> \in S <=> f.site # "" /\ f.site = g.site
      /\ <<"bio", 15>> \in S <=> Jaccard(f.bio, g.bio, 2, 5)
      /\ <<"place", 5>> \in S <=> f.place # "" /\ f.place = g.place
  BY DEF Signals
<1> HIDE DEF S
<1>3. ASSUME NEW nm, NEW w, <<nm, w>> \in All
      PROVE  Weight(S, nm) = IF <<nm, w>> \in S THEN w ELSE 0
  <2>1. \A s \in S : s[1] = nm => s = <<nm, w>>
    BY <1>1, <1>3
  <2>2. CASE <<nm, w>> \in S
    <3>1. \E s \in S : s[1] = nm
      BY <2>2
    <3>2. (CHOOSE s \in S : s[1] = nm) = <<nm, w>>
      BY <2>1, <3>1
    <3>3. Weight(S, nm) = (CHOOSE s \in S : s[1] = nm)[2]
      BY <3>1, Zenon DEF Weight
    <3>4. Weight(S, nm) = (<<nm, w>>)[2]
      BY <3>2, <3>3, Zenon
    <3> QED BY <2>2, <3>4
  <2>3. CASE <<nm, w>> \notin S
    BY <2>1, <2>3 DEF Weight
  <2> QED BY <2>2, <2>3
<1>4. /\ Weight(S, "username") = IF <<"username", 25>> \in S THEN 25 ELSE 0
      /\ Weight(S, "name") = IF <<"name", 25>> \in S THEN 25 ELSE 0
      /\ Weight(S, "overlap") = IF <<"overlap", 12>> \in S THEN 12 ELSE 0
      /\ Weight(S, "site") = IF <<"site", 22>> \in S THEN 22 ELSE 0
      /\ Weight(S, "bio") = IF <<"bio", 15>> \in S THEN 15 ELSE 0
      /\ Weight(S, "place") = IF <<"place", 5>> \in S THEN 5 ELSE 0
  BY <1>3
<1> QED BY <1>2, <1>4 DEF S

(* A score is a percentage, the same both ways; from the name signals it   *)
(* gets at least what the others lack.                                     *)
LEMMA PairScores ==
  ASSUME NEW f \in Facts, NEW g \in Facts
  PROVE  /\ ScorePair(f, g) \in 25..100
         /\ ScorePair(f, g) = ScorePair(g, f)
         /\ (f.site = "" /\ f.place = "") \/ (g.site = "" /\ g.place = "") =>
               (ScorePair(f, g) >= SameAsThreshold => f.name \cap g.name # {})
<1> DEFINE S == Signals(f, g)
           T == Signals(g, f)
           u == Weight(S, "username")
           n == Weight(S, "name")
           o == Weight(S, "overlap")
           s == Weight(S, "site")
           b == Weight(S, "bio")
           l == Weight(S, "place")
<1>1. /\ u = 25
      /\ n = IF f.name # {} /\ f.name = g.name THEN 25 ELSE 0
      /\ o = IF f.name # g.name /\ Jaccard(f.name, g.name, 1, 2) THEN 12 ELSE 0
      /\ s = IF f.site # "" /\ f.site = g.site THEN 22 ELSE 0
      /\ b = IF Jaccard(f.bio, g.bio, 2, 5) THEN 15 ELSE 0
      /\ l = IF f.place # "" /\ f.place = g.place THEN 5 ELSE 0
  BY SignalWeights
<1>2. \A x, y, i, j : Jaccard(x, y, i, j) <=> Jaccard(y, x, i, j)
  <2> TAKE x, y, i, j
  <2>1. x \cap y = y \cap x /\ x \cup y = y \cup x
    OBVIOUS
  <2> QED BY <2>1 DEF Jaccard
<1>3. /\ Weight(T, "username") = u /\ Weight(T, "name") = n /\ Weight(T, "overlap") = o
      /\ Weight(T, "site") = s /\ Weight(T, "bio") = b /\ Weight(T, "place") = l
  <2>1. /\ Weight(T, "username") = 25
        /\ Weight(T, "name") = IF g.name # {} /\ g.name = f.name THEN 25 ELSE 0
        /\ Weight(T, "overlap") = IF g.name # f.name /\ Jaccard(g.name, f.name, 1, 2) THEN 12 ELSE 0
        /\ Weight(T, "site") = IF g.site # "" /\ g.site = f.site THEN 22 ELSE 0
        /\ Weight(T, "bio") = IF Jaccard(g.bio, f.bio, 2, 5) THEN 15 ELSE 0
        /\ Weight(T, "place") = IF g.place # "" /\ g.place = f.place THEN 5 ELSE 0
    BY SignalWeights
  <2>2. /\ Jaccard(f.name, g.name, 1, 2) <=> Jaccard(g.name, f.name, 1, 2)
        /\ Jaccard(f.bio, g.bio, 2, 5) <=> Jaccard(g.bio, f.bio, 2, 5)
    BY <1>2
  <2> HIDE DEF S, T, u, n, o, s, b, l
  <2> QED BY <1>1, <2>1, <2>2
<1>4. /\ ScorePair(f, g) = IF u + n + o + s + b + l > 100 THEN 100 ELSE u + n + o + s + b + l
      /\ ScorePair(g, f) = IF u + n + o + s + b + l > 100 THEN 100 ELSE u + n + o + s + b + l
  <2>1. ScorePair(f, g) = IF u + n + o + s + b + l > 100 THEN 100 ELSE u + n + o + s + b + l
    BY DEF ScorePair
  <2>2. ScorePair(g, f) = IF u + n + o + s + b + l > 100 THEN 100 ELSE u + n + o + s + b + l
    <3> DEFINE raw == Weight(T, "username") + Weight(T, "name") + Weight(T, "overlap")
                      + Weight(T, "site") + Weight(T, "bio") + Weight(T, "place")
    <3>1. ScorePair(g, f) = IF raw > 100 THEN 100 ELSE raw
      BY DEF ScorePair
    <3>2. raw = u + n + o + s + b + l
      <4> HIDE DEF T, u, n, o, s, b, l
      <4> QED BY <1>3
    <3> QED BY <3>1, <3>2
  <2> QED BY <2>1, <2>2
<1> HIDE DEF S, T, u, n, o, s, b, l
<1>5. /\ u = 25 /\ n \in {0, 25} /\ o \in {0, 12} /\ s \in {0, 22} /\ b \in {0, 15}
      /\ l \in {0, 5}
  BY <1>1
<1>6. ScorePair(f, g) \in 25..100
  BY <1>4, <1>5
<1>7. ASSUME (f.site = "" /\ f.place = "") \/ (g.site = "" /\ g.place = ""),
             ScorePair(f, g) >= SameAsThreshold, f.name \cap g.name = {}
      PROVE  FALSE
  <2>1. s = 0 /\ l = 0
    BY <1>1, <1>7
  <2>2. n = 0
    BY <1>1, <1>7
  <2>3. o = 0
    <3>1. ~Jaccard(f.name, g.name, 1, 2)
      <4>1. IsFiniteSet(f.name \cup g.name) /\ f.name \cup g.name \subseteq {"ann", "lee"}
        <5>1. f.name \cup g.name \subseteq {"ann", "lee"}
          BY DEF Facts, Names
        <5>2. IsFiniteSet({"ann"} \cup {"lee"})
          BY FS_Singleton, FS_Union
        <5>3. {"ann"} \cup {"lee"} = {"ann", "lee"}
          OBVIOUS
        <5> QED BY <5>1, <5>2, <5>3, FS_Subset
      <4>2. Cardinality(f.name \cap g.name) = 0
        BY <1>7, FS_EmptySet
      <4>3. f.name # {} => Cardinality(f.name \cup g.name) \in Nat \ {0}
        BY <4>1, FS_EmptySet, FS_CardinalityType
      <4> QED BY <4>2, <4>3 DEF Jaccard
    <3> QED BY <1>1, <3>1
  <2>5. u + n + o + s + b + l \in 0..40
    BY <1>5, <2>1, <2>2, <2>3
  <2>6. ScorePair(f, g) \in 0..40
    BY <1>4, <2>5
  <2>7. ScorePair(f, g) >= 45
    BY <1>7 DEF SameAsThreshold
  <2> QED BY <2>6, <2>7
<1>8. (f.site = "" /\ f.place = "") \/ (g.site = "" /\ g.place = "") =>
         (ScorePair(f, g) >= SameAsThreshold => f.name \cap g.name # {})
  BY <1>7
<1>9. ScorePair(f, g) = ScorePair(g, f)
  BY <1>4
<1> QED BY <1>6, <1>8, <1>9

Task == [at : {"todo", "fetch", "profile", "chat", "done"}, verdict : Verdicts, facts : Facts,
         unread : BOOLEAN]

Lost == {"raised", "failed", "inconclusive"}

(* What a task may return: the facts of a profile that was found, as the   *)
(* platform publishes them; unread, where the source is an HTTP one,       *)
(* exactly if it could not be read.                                        *)
MayReturn(p, verdict, facts, unread) ==
    /\ verdict \in Verdicts /\ facts \in Facts /\ unread \in BOOLEAN
    /\ verdict # "found" => facts = NoFacts
    /\ p # "github" => facts.site = "" /\ facts.place = ""
    /\ p \in Http => (unread <=> verdict \in Lost)

TaskFits(p) ==
    /\ MayReturn(p, tasks[p].verdict, tasks[p].facts, tasks[p].unread)
    /\ tasks[p].at # "done" => tasks[p].verdict = "none"
    /\ requests[p] \in Seq({"public"}) /\ Len(requests[p]) <= MaxRedirects + 1
    /\ tasks[p].at # "fetch" => requests[p] = <<>>

TasksFit == /\ tasks \in [Platforms -> Task]
            /\ requests \in [Platforms -> Seq(UrlKinds)]
            /\ \A p \in Platforms : TaskFits(p)

LEMMA ReturnFits ==
  ASSUME TasksFit, NEW p \in Platforms, NEW v, NEW f, NEW u, MayReturn(p, v, f, u),
         Returned(p, v, f, u)
  PROVE  TasksFit'
<1> DEFINE t == [at |-> "done", verdict |-> v, facts |-> f, unread |-> u]
<1>1. t \in Task /\ t.at = "done" /\ t.verdict = v /\ t.facts = f /\ t.unread = u
  BY DEF Task, MayReturn
<1>2. tasks' = [tasks EXCEPT ![p] = t] /\ requests' = [requests EXCEPT ![p] = <<>>]
  BY DEF Returned
<1> HIDE DEF t
<1>3. /\ tasks' \in [Platforms -> Task] /\ requests' \in [Platforms -> Seq(UrlKinds)]
      /\ tasks'[p] = t /\ requests'[p] = <<>>
      /\ \A q \in Platforms : q # p => tasks'[q] = tasks[q] /\ requests'[q] = requests[q]
  BY <1>1, <1>2 DEF TasksFit
<1>4. TaskFits(p)'
  <2>1. <<>> \in Seq({"public"}) /\ Len(<<>>) = 0 /\ 0 <= MaxRedirects + 1
    BY OsintAssumption
  <2>2. MayReturn(p, tasks'[p].verdict, tasks'[p].facts, tasks'[p].unread)
    BY <1>1, <1>3
  <2> QED BY <1>1, <1>3, <2>1, <2>2 DEF TaskFits
<1>5. \A q \in Platforms : q # p => TaskFits(q)'
  BY <1>3 DEF TasksFit, TaskFits
<1> QED BY <1>3, <1>4, <1>5 DEF TasksFit

LEMMA LosesFits ==
  ASSUME TasksFit, NEW p \in Platforms, NEW v \in Lost, Loses(p, v)
  PROVE  TasksFit'
<1>1. MayReturn(p, v, NoFacts, TRUE)
  BY DEF MayReturn, Lost, Verdicts, NoFacts, Facts, Names, Bios, Links
<1> QED BY <1>1, ReturnFits DEF Loses

LEMMA NotFoundFits ==
  ASSUME TasksFit, NEW p \in Platforms, Returns(p, "notfound")
  PROVE  TasksFit'
<1>1. MayReturn(p, "notfound", NoFacts, FALSE)
  BY DEF MayReturn, Lost, Verdicts, NoFacts, Facts, Names, Bios, Links
<1> QED BY <1>1, ReturnFits DEF Returns

LEMMA FoundFits ==
  ASSUME TasksFit, NEW p \in Platforms, NEW f \in Published(p), Returned(p, "found", f, FALSE)
  PROVE  TasksFit'
<1>1. MayReturn(p, "found", f, FALSE)
  BY DEF MayReturn, Lost, Verdicts, Published
<1> QED BY <1>1, ReturnFits

LEMMA NoFactsPublished == \A p : NoFacts \in Published(p)
BY DEF Published, NoFacts, Facts, Names, Bios, Links

LEMMA HopFits ==
  ASSUME TasksFit, NEW p \in Http, NEW url, Hop(p, url), ~LastHop(p),
         tasks[p].at \in {"todo", "fetch"}
  PROVE  TasksFit'
<1>1. p \in Platforms
  BY DEF Http
<1>2. CASE Loses(p, "raised") \/ Loses(p, "failed")
  BY <1>1, <1>2, LosesFits DEF Lost
<1>3. CASE /\ CheckUrl(p, url)
           /\ tasks' = [tasks EXCEPT ![p].at = "fetch"]
           /\ requests' = [requests EXCEPT ![p] = Append(@, url)]
  <2> DEFINE t == [tasks[p] EXCEPT !.at = "fetch"]
             r == Append(requests[p], url)
  <2>1. /\ tasks[p] \in Task /\ requests[p] \in Seq({"public"}) /\ TaskFits(p)
        /\ tasks[p].verdict = "none"
    BY <1>1 DEF TasksFit, TaskFits
  <2>2. /\ t \in Task /\ t.at = "fetch" /\ t.verdict = "none"
        /\ t.facts = tasks[p].facts /\ t.unread = tasks[p].unread
    BY <2>1 DEF Task
  <2>3. url = "public"
    BY <1>3 DEF CheckUrl
  <2>4. r \in Seq({"public"}) /\ Len(r) = Len(requests[p]) + 1
    BY <2>1, <2>3, AppendProperties
  <2>5. Len(requests[p]) <= MaxRedirects
    <3>1. Len(requests[p]) \in Nat
      BY <2>1, LenProperties
    <3> QED BY <3>1, OsintAssumption DEF LastHop
  <2>6. Len(r) <= MaxRedirects + 1
    <3>1. Len(requests[p]) \in Nat
      BY <2>1, LenProperties
    <3> QED BY <2>4, <2>5, <3>1, OsintAssumption
  <2>7. tasks' = [tasks EXCEPT ![p] = t] /\ requests' = [requests EXCEPT ![p] = r]
    BY <1>1, <1>3 DEF TasksFit
  <2> HIDE DEF t, r
  <2>8. r \in Seq(UrlKinds)
    <3>1. {"public"} \subseteq UrlKinds
      BY DEF UrlKinds
    <3>2. r \in [1..Len(r) -> {"public"}] /\ Len(r) \in Nat
      BY <2>4, LenProperties
    <3>3. r \in [1..Len(r) -> UrlKinds]
      BY <3>1, <3>2
    <3> QED BY <3>2, <3>3, IsASeq
  <2>9. /\ tasks' \in [Platforms -> Task] /\ requests' \in [Platforms -> Seq(UrlKinds)]
        /\ tasks'[p] = t /\ requests'[p] = r
        /\ \A q \in Platforms : q # p => tasks'[q] = tasks[q] /\ requests'[q] = requests[q]
    BY <1>1, <2>2, <2>7, <2>8 DEF TasksFit
  <2>10. TaskFits(p)'
    BY <2>1, <2>2, <2>4, <2>6, <2>9 DEF TaskFits
  <2>11. \A q \in Platforms : q # p => TaskFits(q)'
    BY <2>9 DEF TasksFit, TaskFits
  <2> QED BY <2>9, <2>10, <2>11 DEF TasksFit
<1> QED BY <1>2, <1>3 DEF Hop

(* A task that moves on without a request.                                 *)
LEMMA MovesOn ==
  ASSUME TasksFit, NEW p \in Platforms, NEW at \in {"profile", "chat"},
         tasks[p].at \in {"todo", "profile"},
         tasks' = [tasks EXCEPT ![p].at = at], UNCHANGED requests
  PROVE  TasksFit'
<1> DEFINE t == [tasks[p] EXCEPT !.at = at]
<1>1. tasks[p] \in Task /\ TaskFits(p) /\ tasks[p].verdict = "none" /\ requests[p] = <<>>
  BY DEF TasksFit, TaskFits
<1>2. /\ t \in Task /\ t.at = at /\ t.verdict = "none"
      /\ t.facts = tasks[p].facts /\ t.unread = tasks[p].unread
  BY <1>1 DEF Task
<1>3. tasks' = [tasks EXCEPT ![p] = t]
  BY DEF TasksFit
<1> HIDE DEF t
<1>4. /\ tasks' \in [Platforms -> Task] /\ tasks'[p] = t
      /\ \A q \in Platforms : q # p => tasks'[q] = tasks[q]
  BY <1>2, <1>3 DEF TasksFit
<1>5. TaskFits(p)'
  BY <1>1, <1>2, <1>4 DEF TaskFits
<1>6. \A q \in Platforms : q # p => TaskFits(q)'
  BY <1>4 DEF TasksFit, TaskFits
<1> QED BY <1>4, <1>5, <1>6 DEF TasksFit

(* Whatever the response, what an adapter makes of it fits.                *)
LEMMA JudgeFits ==
  ASSUME TasksFit, NEW p \in Http, NEW s, NEW b, Judge(p, s, b)
  PROVE  TasksFit'
<1>1. /\ p \in Platforms /\ p \in {"github", "reddit", "web"}
      /\ "github" \in Platforms /\ "reddit" \in Platforms /\ "web" \in Platforms
      /\ "failed" \in Lost /\ "raised" \in Lost /\ "inconclusive" \in Lost
  BY PlatformNames DEF Lost
<1>2. CASE p = "github"
  <2>1. CheckGithub(s, b)
    BY <1>2 DEF Judge
  <2> QED BY <1>1, <2>1, LosesFits, NotFoundFits, FoundFits DEF CheckGithub
<1>3. CASE p = "reddit"
  <2>1. CheckReddit(s, b)
    BY <1>3 DEF Judge
  <2> QED BY <1>1, <2>1, LosesFits, NotFoundFits, FoundFits, NoFactsPublished DEF CheckReddit
<1>4. CASE p = "web"
  <2>1. CheckWeb(s, b)
    BY <1>4 DEF Judge
  <2> QED BY <1>1, <2>1, LosesFits, NotFoundFits, FoundFits, NoFactsPublished DEF CheckWeb
<1> QED BY <1>1, <1>2, <1>3, <1>4

LEMMA AdapterFits ==
  ASSUME TasksFit, NEW p \in Platforms, CheckHttp(p) \/ Fetched(p) \/ Presence(p)
  PROVE  TasksFit' /\ tasks[p].at # "done" /\ UNCHANGED <<phase, search>>
<1>1. CASE CheckHttp(p)
  <2>1. p \in Http /\ tasks[p].at = "todo" /\ \E url \in {"public", "blocked"} : Hop(p, url)
    BY <1>1 DEF CheckHttp
  <2>2. ~LastHop(p)
    <3>1. requests[p] = <<>>
      BY <2>1 DEF TasksFit, TaskFits
    <3>2. Len(<<>>) = 0
      OBVIOUS
    <3> QED BY <3>1, <3>2, OsintAssumption DEF LastHop
  <2>3. TasksFit'
    BY <2>1, <2>2, HopFits
  <2> QED BY <1>1, <2>3 DEF CheckHttp
<1>2. CASE Fetched(p)
  <2>1. /\ p \in Http /\ tasks[p].at = "fetch"
        /\ \/ Loses(p, "failed")
           \/ ~LastHop(p) /\ \E url \in UrlKinds : Hop(p, url)
           \/ \E s \in Statuses, b \in Bodies : Judge(p, s, b)
    BY <1>2 DEF Fetched
  <2>2. TasksFit'
    <3>1. CASE Loses(p, "failed")
      BY <3>1, LosesFits DEF Lost
    <3>2. CASE ~LastHop(p) /\ \E url \in UrlKinds : Hop(p, url)
      BY <2>1, <3>2, HopFits
    <3>3. CASE \E s \in Statuses, b \in Bodies : Judge(p, s, b)
      BY <2>1, <3>3, JudgeFits
    <3> QED BY <2>1, <3>1, <3>2, <3>3
  <2> QED BY <1>2, <2>1, <2>2 DEF Fetched
<1>3. CASE Presence(p)
  <2>1. /\ p = "telegram" /\ tasks[p].at \in {"todo", "profile", "chat"}
        /\ \/ Loses(p, "failed")
           \/ /\ tasks[p].at \in {"todo", "profile"} /\ UNCHANGED requests
              /\ \E at \in {"profile", "chat"} : tasks' = [tasks EXCEPT ![p].at = at]
           \/ \E f \in Published(p) : Returned(p, "found", f, FALSE)
           \/ \E failed \in BOOLEAN : Returned(p, "notfound", NoFacts, failed)
    BY <1>3 DEF Presence
  <2>2. TasksFit'
    <3>1. CASE Loses(p, "failed")
      BY <3>1, LosesFits DEF Lost
    <3>2. CASE /\ tasks[p].at \in {"todo", "profile"} /\ UNCHANGED requests
               /\ \E at \in {"profile", "chat"} : tasks' = [tasks EXCEPT ![p].at = at]
      BY <3>2, MovesOn
    <3>3. CASE \E f \in Published(p) : Returned(p, "found", f, FALSE)
      BY <3>3, FoundFits
    <3>4. CASE \E failed \in BOOLEAN : Returned(p, "notfound", NoFacts, failed)
      <4>1. PICK failed \in BOOLEAN : Returned(p, "notfound", NoFacts, failed)
        BY <3>4
      <4>2. MayReturn(p, "notfound", NoFacts, failed)
        <5>1. p \notin Http
          BY <2>1 DEF Http
        <5> QED BY <5>1 DEF MayReturn, Verdicts, NoFacts, Facts, Names, Bios, Links
      <4> QED BY <4>1, <4>2, ReturnFits
    <3> QED BY <2>1, <3>1, <3>2, <3>3, <3>4
  <2> QED BY <1>3, <2>1, <2>2 DEF Presence
<1> QED BY <1>1, <1>2, <1>3

(* What a search that has ended says.                                      *)
Outcome(twice) ==
    LET refs == Resolved(twice)
    IN  [status  |-> "COMPLETED",
         notes   |-> Notes,
         sources |-> [p \in Platforms |-> IF \E i \in DOMAIN Found : Found[i] = p
                                          THEN ScoreAccount(p) ELSE 0],
         results |-> {Found[i] : i \in refs},
         foundOn |-> [p \in Platforms |-> IF FoundOn(refs, p) = {} THEN 0
                                          ELSE CHOOSE c \in FoundOn(refs, p) : TRUE],
         sameAs  |-> SameAs(refs),
         linked  |-> [p \in Platforms |-> Linked(refs, twice, p)]]

OsintInv ==
    /\ TasksFit
    /\ phase \in {"new", "gather", "done"}
    /\ \/ search = NewSearch
       \/ phase = "done" /\ search = [NewSearch EXCEPT !.status = "FAILED"]
       \/ /\ phase = "done" /\ \A p \in Platforms : tasks[p].at = "done"
          /\ \E twice \in BOOLEAN : search = Outcome(twice)

LEMMA OsintStarts == OsintInit => OsintInv
<1> SUFFICES ASSUME OsintInit PROVE OsintInv
  OBVIOUS
<1>1. /\ NewTask \in Task /\ NewTask.at = "todo" /\ NewTask.verdict = "none"
      /\ NewTask.facts = NoFacts /\ NewTask.unread = FALSE
  BY DEF Task, NewTask, Verdicts, NoFacts, Facts, Names, Bios, Links
<1>2. \A p \in Platforms : MayReturn(p, "none", NoFacts, FALSE)
  BY DEF MayReturn, Lost, Verdicts, NoFacts, Facts, Names, Bios, Links
<1>3. \A p \in Platforms : tasks[p] = NewTask /\ requests[p] = <<>>
  BY DEF OsintInit
<1>4. <<>> \in Seq({"public"}) /\ <<>> \in Seq(UrlKinds) /\ Len(<<>>) <= MaxRedirects + 1
  <2>1. Len(<<>>) = 0
    OBVIOUS
  <2> QED BY <2>1, OsintAssumption
<1>5. \A p \in Platforms : TaskFits(p)
  BY <1>1, <1>2, <1>3, <1>4 DEF TaskFits
<1>6. TasksFit
  BY <1>1, <1>4, <1>5 DEF TasksFit, OsintInit
<1> QED BY <1>6 DEF OsintInv, OsintInit

LEMMA OsintStepKeeps ==
  ASSUME OsintInv, [OsintNext]_osintVars
  PROVE  OsintInv'
<1>0. TasksFit
  BY DEF OsintInv
<1>1. CASE UNCHANGED osintVars
  <2>1. /\ TasksFit' /\ Notes' = Notes /\ Found' = Found
    BY <1>0, <1>1 DEF osintVars, TasksFit, TaskFits, Notes, Found, Answered
  <2>2. \A twice \in BOOLEAN : Outcome(twice)' = Outcome(twice)
    BY <1>1, <2>1 DEF osintVars, Outcome, Resolved, FoundOn, Drafts, ScoreAccount, SameAs, Linked
  <2>3. UNCHANGED <<phase, tasks, search>>
    BY <1>1 DEF osintVars
  <2> QED BY <2>1, <2>2, <2>3 DEF OsintInv
<1>2. CASE Open
  <2>1. /\ phase = "new" /\ UNCHANGED <<tasks, requests>>
        /\ \/ phase' = "gather" /\ search' = search
           \/ phase' = "done" /\ search' = [search EXCEPT !.status = "FAILED"]
    BY <1>2 DEF Open
  <2>2. search = NewSearch
    BY <2>1 DEF OsintInv
  <2>3. TasksFit'
    BY <1>0, <2>1 DEF TasksFit, TaskFits
  <2> QED BY <2>1, <2>2, <2>3 DEF OsintInv
<1>3. CASE Gathered
  <2>1. /\ UNCHANGED <<tasks, requests>> /\ phase' = "done"
        /\ \A p \in Platforms : tasks[p].at = "done"
    BY <1>3 DEF Gathered
  <2>2. TasksFit'
    BY <1>0, <2>1 DEF TasksFit, TaskFits
  <2>3. \E twice \in BOOLEAN : search' = Outcome(twice)
    BY <1>3 DEF Gathered, Outcome
  <2>4. \A twice \in BOOLEAN : Outcome(twice)' = Outcome(twice)
    BY <2>1 DEF Notes, Found, Answered, Outcome, Resolved, FoundOn, Drafts,
             ScoreAccount, SameAs, Linked
  <2>5. \E twice \in BOOLEAN : search' = Outcome(twice)'
    BY <2>3, <2>4
  <2> QED BY <2>1, <2>2, <2>5 DEF OsintInv
<1>4. CASE \E p \in Platforms : CheckHttp(p) \/ Fetched(p) \/ Presence(p)
  BY <1>0, <1>4, AdapterFits DEF OsintInv
<1> QED BY <1>1, <1>2, <1>3, <1>4 DEF OsintNext

(* The number a set of percentages is bounded by is one of them.           *)
LEMMA TopScore ==
  ASSUME NEW S, S \subseteq 25..100, S # {}
  PROVE  LET top == CHOOSE s \in S : \A t \in S : t <= s
         IN  top \in S /\ \A t \in S : t <= top
<1>1. S \in SUBSET (0..100)
  OBVIOUS
<1>2. \E s \in S : \A t \in S : t <= s
  BY <1>1, Largest
<1> QED BY <1>2

LEMMA AccountScores ==
  ASSUME TasksFit, NEW p \in Platforms
  PROVE  /\ ScoreAccount(p) \in 25..100
         /\ \A i \in DOMAIN Found :
               Found[i] # p => ScorePair(tasks[p].facts, tasks[Found[i]].facts) <= ScoreAccount(p)
<1>1. \A q \in Platforms : tasks[q].facts \in Facts
  BY DEF TasksFit, TaskFits, MayReturn
<1>2. \A f, g \in Facts : ScorePair(f, g) \in 25..100
  BY PairScores
<1>3. NoFacts \in Facts
  BY DEF NoFacts, Facts, Names, Bios, Links
<1> DEFINE peers == {Found[i] : i \in DOMAIN Found} \ {p}
           scores == {ScorePair(tasks[p].facts, tasks[q].facts) : q \in peers}
<1>4. peers \subseteq Platforms
  BY FoundListed
<1>5. scores \subseteq 25..100
  BY <1>1, <1>2, <1>4
<1>6. CASE peers = {}
  <2>1. ScoreAccount(p) = ScorePair(tasks[p].facts, NoFacts)
    BY <1>6 DEF ScoreAccount
  <2>2. ScoreAccount(p) \in 25..100
    BY <1>1, <1>2, <1>3, <2>1
  <2>3. \A i \in DOMAIN Found : Found[i] = p
    BY <1>6
  <2> QED BY <2>2, <2>3
<1>7. CASE peers # {}
  <2>1. ScoreAccount(p) = CHOOSE s \in scores : \A t \in scores : t <= s
    BY <1>7 DEF ScoreAccount
  <2>2. scores # {}
    BY <1>7
  <2> HIDE DEF scores
  <2>3. ScoreAccount(p) \in scores /\ \A t \in scores : t <= ScoreAccount(p)
    BY <1>5, <2>1, <2>2, TopScore
  <2>4. \A i \in DOMAIN Found :
           Found[i] # p => ScorePair(tasks[p].facts, tasks[Found[i]].facts) \in scores
    BY DEF scores
  <2> QED BY <1>5, <2>3, <2>4
<1> QED BY <1>6, <1>7

LEMMA OsintInvImplies == OsintInv => OsintTypeOK /\ FindingsSourced
<1> SUFFICES ASSUME OsintInv PROVE OsintTypeOK /\ FindingsSourced
  OBVIOUS
<1>1. TasksFit
  BY DEF OsintInv
<1>2. FetchBounded
  <2> SUFFICES ASSUME NEW p \in Http
               PROVE  /\ Len(requests[p]) <= MaxRedirects + 1
                      /\ \A i \in DOMAIN requests[p] : requests[p][i] = "public"
    BY DEF FetchBounded
  <2>1. requests[p] \in Seq({"public"}) /\ Len(requests[p]) <= MaxRedirects + 1
    BY <1>1 DEF TasksFit, TaskFits, Http
  <2>2. \A i \in DOMAIN requests[p] : requests[p][i] \in {"public"}
    BY <2>1, ElementOfSeq, LenProperties
  <2> QED BY <2>1, <2>2
<1>3. /\ phase \in {"new", "gather", "done"}
      /\ \A p \in Platforms :
          /\ tasks[p].at \in {"todo", "fetch", "profile", "chat", "done"}
          /\ tasks[p].verdict \in Verdicts
          /\ tasks[p].facts \in Facts
          /\ tasks[p].unread \in BOOLEAN
          /\ tasks[p].verdict # "found" => tasks[p].facts = NoFacts
          /\ requests[p] \in Seq(UrlKinds)
  BY <1>1 DEF OsintInv, TasksFit, TaskFits, MayReturn, Task
<1>4. CASE search.status # "COMPLETED"
  <2>1. search.status \in {"none", "FAILED"} /\ search.results = {} /\ search.sameAs = {}
    BY <1>4 DEF OsintInv, Outcome, NewSearch
  <2>2. OsintTypeOK
    BY <1>3, <2>1 DEF OsintTypeOK
  <2>3. NoSilentFailure /\ PresenceMatches /\ SameAsCorroborated
    BY <2>1 DEF NoSilentFailure, PresenceMatches, SameAsCorroborated
  <2> QED BY <1>2, <2>2, <2>3 DEF FindingsSourced
<1>5. CASE search.status = "COMPLETED"
  <2>1. \A p \in Platforms : tasks[p].at = "done"
    BY <1>5 DEF OsintInv, NewSearch
  <2>2. PICK twice \in BOOLEAN : search = Outcome(twice)
    BY <1>5 DEF OsintInv, NewSearch
  <2> DEFINE refs == Resolved(twice)
  <2>3. /\ search.notes = Notes /\ search.results = {Found[i] : i \in refs}
        /\ search.sameAs = SameAs(refs)
        /\ \A p \in Platforms : search.sources[p] = IF \E i \in DOMAIN Found : Found[i] = p
                                                    THEN ScoreAccount(p) ELSE 0
        /\ \A p \in Platforms : search.foundOn[p] = IF FoundOn(refs, p) = {} THEN 0
                                                    ELSE CHOOSE c \in FoundOn(refs, p) : TRUE
    BY <2>2 DEF Outcome
  <2>4. refs \subseteq DOMAIN Found
    BY DEF Resolved
  <2> HIDE DEF refs
  <2>5. /\ \A i \in DOMAIN Found : Found[i] \in Platforms /\ tasks[Found[i]].verdict = "found"
        /\ \A i, j \in DOMAIN Found : Found[i] = Found[j] => i = j
    BY FoundListed
  <2>6. OsintTypeOK
    <3>1. search.results \subseteq {p \in Platforms : search.sources[p] > 0}
      <4> SUFFICES ASSUME NEW i \in refs
                   PROVE  Found[i] \in Platforms /\ search.sources[Found[i]] > 0
        BY <2>3
      <4>1. i \in DOMAIN Found /\ Found[i] \in Platforms
        BY <2>4, <2>5
      <4>2. search.sources[Found[i]] = ScoreAccount(Found[i])
        BY <2>3, <4>1
      <4>3. ScoreAccount(Found[i]) \in 25..100
        BY <1>1, <4>1, AccountScores
      <4> QED BY <4>1, <4>2, <4>3
    <3> QED BY <1>3, <1>5, <3>1 DEF OsintTypeOK
  <2>7. NoSilentFailure
    <3> SUFFICES ASSUME NEW p \in Http
                 PROVE  /\ tasks[p].unread <=> p \in search.notes
                        /\ p \in search.notes => search.sources[p] = 0
      BY DEF NoSilentFailure
    <3>1. p \in Platforms /\ (tasks[p].unread <=> tasks[p].verdict \in Lost)
      BY <1>1 DEF Http, TasksFit, TaskFits, MayReturn
    <3>2. p \in search.notes <=> tasks[p].verdict \in Lost
      BY <2>3, <3>1 DEF Notes, Lost
    <3>3. tasks[p].verdict \in Lost => search.sources[p] = 0
      BY <2>3, <2>5, <3>1 DEF Lost
    <3> QED BY <3>1, <3>2, <3>3
  <2>8. PresenceMatches
    <3> SUFFICES ASSUME NEW p \in Platforms
                 PROVE  search.foundOn[p] = IF p \in search.results THEN MatchConfidence(p) ELSE 0
      BY DEF PresenceMatches
    <3>1. \A i \in DOMAIN Found : <<i, MatchConfidence(Found[i])>> \in Drafts
      BY DEF Drafts
    <3>2. \A d \in Drafts : d[1] \in DOMAIN Found /\ d[2] = MatchConfidence(Found[d[1]])
      BY DEF Drafts
    <3>3. CASE \E i \in refs : Found[i] = p
      <4>1. FoundOn(refs, p) = {MatchConfidence(p)}
        <5>1. \A c \in FoundOn(refs, p) : c = MatchConfidence(p)
          BY <3>2 DEF FoundOn
        <5>2. MatchConfidence(p) \in FoundOn(refs, p)
          <6>1. PICK i \in refs : Found[i] = p
            BY <3>3
          <6> DEFINE d == <<i, MatchConfidence(Found[i])>>
          <6>2. d \in Drafts /\ d[1] = i /\ d[2] = MatchConfidence(p)
            BY <2>4, <3>1, <6>1
          <6> HIDE DEF d
          <6> QED BY <6>1, <6>2 DEF FoundOn
        <5> QED BY <5>1, <5>2
      <4>2. p \in search.results
        BY <2>3, <3>3
      <4> QED BY <2>3, <4>1, <4>2
    <3>4. CASE ~\E i \in refs : Found[i] = p
      <4>1. FoundOn(refs, p) = {}
        BY <3>4 DEF FoundOn
      <4>2. p \notin search.results
        BY <2>3, <3>4
      <4> QED BY <2>3, <4>1, <4>2
    <3> QED BY <3>3, <3>4
  <2>9. SameAsCorroborated
    <3> SUFFICES ASSUME NEW e \in search.sameAs
                 PROVE  /\ tasks[e[1]].facts.name \cap tasks[e[2]].facts.name # {}
                        /\ search.sources[e[1]] >= e[3] /\ search.sources[e[2]] >= e[3]
      BY DEF SameAsCorroborated
    <3>1. PICK ij \in refs \X refs :
             /\ ij[1] < ij[2]
             /\ ScorePair(tasks[Found[ij[1]]].facts, tasks[Found[ij[2]]].facts) >= SameAsThreshold
             /\ e = <<Found[ij[1]], Found[ij[2]],
                      ScorePair(tasks[Found[ij[1]]].facts, tasks[Found[ij[2]]].facts)>>
      BY <2>3 DEF SameAs
    <3> DEFINE i == ij[1]
               j == ij[2]
               p == Found[i]
               q == Found[j]
               f == tasks[p].facts
               g == tasks[q].facts
    <3>2. /\ i \in DOMAIN Found /\ j \in DOMAIN Found /\ i # j
          /\ p \in Platforms /\ q \in Platforms /\ p # q
      <4>1. i \in DOMAIN Found /\ j \in DOMAIN Found
        BY <2>4
      <4>2. DOMAIN Found \subseteq Nat
        BY FoundListed, LenProperties
      <4> QED BY <2>5, <3>1, <4>1, <4>2
    <3>3. /\ f \in Facts /\ g \in Facts
          /\ p # "github" => f.site = "" /\ f.place = ""
          /\ q # "github" => g.site = "" /\ g.place = ""
      BY <1>1, <3>2 DEF TasksFit, TaskFits, MayReturn
    <3>4. /\ e[1] = p /\ e[2] = q /\ e[3] = ScorePair(f, g) /\ ScorePair(f, g) >= SameAsThreshold
      BY <3>1
    <3> HIDE DEF i, j, p, q, f, g
    <3>5. f.name \cap g.name # {} /\ ScorePair(f, g) = ScorePair(g, f) /\ ScorePair(f, g) \in 25..100
      <4>1. (f.site = "" /\ f.place = "") \/ (g.site = "" /\ g.place = "")
        BY <3>2, <3>3
      <4> QED BY <3>3, <3>4, <4>1, PairScores
    <3>6. search.sources[p] = ScoreAccount(p) /\ search.sources[q] = ScoreAccount(q)
      BY <2>3, <3>2 DEF p, q
    <3>7. ScorePair(f, g) <= ScoreAccount(p) /\ ScorePair(g, f) <= ScoreAccount(q)
      BY <1>1, <3>2, AccountScores DEF p, q, f, g
    <3>8. ScoreAccount(p) \in 25..100 /\ ScoreAccount(q) \in 25..100
      BY <1>1, <3>2, AccountScores
    <3> QED BY <3>4, <3>5, <3>6, <3>7, <3>8 DEF f, g
  <2> QED BY <1>2, <2>6, <2>7, <2>8, <2>9 DEF FindingsSourced
<1> QED BY <1>4, <1>5
-----------------------------------------------------------------------------
(* Telegram searches: the inductive invariant                              *)

Usernames == Handles \cup {NoKey}
Chat == [id : Entities, name : Usernames, type : Types]

SearchTyped ==
    /\ SearchTypeOK
    /\ lookup \in [kind : Kinds \cup {"none", "messages"}, query : Entities \cup Handles \cup {NoKey},
                   chat : Seq(Chat), messages : SUBSET Message]
    /\ IsFiniteSet(lookup.messages)
    /\ answer \in [kind : Kinds \cup {"none", "messages"}, as : {"none", "found", "notfound", "raised"},
                   seen : Entities \cup {NoKey}, row : Nat, fresh : BOOLEAN,
                   posted : SUBSET (Message \X Nat), within : SUBSET (Message \X Nat)]

(* A row's name is one that its entity has had.                            *)
Faithful(r) == /\ r.id # NoKey => r.name \in held[r.id]
               /\ r.id = NoKey => r.name # NoKey

(* A fresh handle has one row in a table.                                  *)
OneRowOf(rs, h) == \A i, j \in DOMAIN rs :
    rs[i].type = rs[j].type /\ rs[i].name = h /\ rs[j].name = h => i = j

RowsTrue(rs) == /\ \A i \in DOMAIN rs : Faithful(rs[i])
                /\ \A h \in Handles : Fresh(h) => OneRowOf(rs, h)

(* What is asked, and what a source answered, is about one entity.         *)
LookupFits ==
    /\ lookup.chat # <<>> =>
          LET c == lookup.chat[1]
          IN  /\ Len(lookup.chat) = 1
              /\ lookup.kind \in Kinds /\ Serves(lookup.kind, c.id)
              /\ c.type = type[c.id] /\ c.name \in held[c.id]
              /\ c.id = lookup.query \/ c.name = lookup.query
              /\ lookup.messages \subseteq {[id |-> c.id, name |-> c.name]}
    /\ lookup.kind \notin Kinds => lookup.query = NoKey

SearchInv == /\ SearchTyped /\ LookupFits /\ AnswersMatch
             /\ \A e \in Entities : holds[e] \in held[e]
             /\ RowsTrue(rows)

(* The rows an ingestion leaves of those it found.                         *)
Keeps(a, b) == \A i \in DOMAIN a : /\ i \in DOMAIN b /\ b[i].type = a[i].type
                                   /\ a[i].id # NoKey => b[i].id = a[i].id
                                   /\ a[i].name # NoKey => b[i].name = a[i].name

IdsApart(rs) == \A i, j \in DOMAIN rs :
    i # j /\ rs[i].type = rs[j].type /\ rs[i].id = rs[j].id => rs[i].id = NoKey

LEMMA RowFields ==
  ASSUME NEW rs \in Seq(TgRow), NEW i \in DOMAIN rs
  PROVE  /\ rs[i] \in TgRow /\ rs[i].type \in Types /\ rs[i].id \in Entities \cup {NoKey}
         /\ rs[i].name \in Usernames
<1>1. rs[i] \in TgRow
  BY LenProperties, ElementOfSeq
<1> QED BY <1>1 DEF TgRow, Usernames

(* What Upsert does, case by case.                                         *)
LEMMA Upserted ==
  ASSUME NEW rs \in Seq(TgRow), NEW rec \in TgRow
  PROVE  LET after == Upsert(rs, rec)
             n == Len(rs)
         IN  /\ after \in Seq(TgRow) /\ n \in Nat /\ DOMAIN rs = 1..n
             /\ \/ Skipped(rs, rec) /\ after = rs
                \/ /\ Matches(rs, rec) = {} /\ DOMAIN after = 1..(n + 1)
                   /\ after[n + 1] = rec /\ \A i \in 1..n : after[i] = rs[i]
                \/ /\ ~Skipped(rs, rec) /\ Matches(rs, rec) # {} /\ DOMAIN after = 1..n
                   /\ \A i \in 1..n : after[i] = IF i \in Matches(rs, rec) THEN Filled(rs[i], rec)
                                                 ELSE rs[i]
<1> DEFINE n == Len(rs)
           filled == [i \in DOMAIN rs |-> IF i \in Matches(rs, rec) THEN Filled(rs[i], rec) ELSE rs[i]]
<1>1. n \in Nat /\ DOMAIN rs = 1..n /\ \A i \in 1..n : rs[i] \in TgRow
  BY LenProperties, ElementOfSeq
<1>2. CASE Skipped(rs, rec)
  BY <1>1, <1>2 DEF Upsert
<1>3. CASE ~Skipped(rs, rec) /\ Matches(rs, rec) = {}
  <2>1. Upsert(rs, rec) = Append(rs, rec)
    BY <1>3 DEF Upsert
  <2>2. /\ Append(rs, rec) \in Seq(TgRow) /\ Len(Append(rs, rec)) = n + 1
        /\ \A i \in 1..n : Append(rs, rec)[i] = rs[i]
        /\ Append(rs, rec)[n + 1] = rec
    BY AppendProperties
  <2>3. DOMAIN Append(rs, rec) = 1..(n + 1)
    BY <2>2, LenProperties
  <2> QED BY <1>1, <1>3, <2>1, <2>2, <2>3
<1>4. CASE ~Skipped(rs, rec) /\ Matches(rs, rec) # {}
  <2>1. Upsert(rs, rec) = filled
    BY <1>4 DEF Upsert
  <2>2. \A i \in 1..n : Filled(rs[i], rec) \in TgRow
    BY <1>1 DEF Filled, TgRow
  <2>3. filled \in [1..n -> TgRow]
    BY <1>1, <2>2
  <2>4. filled \in Seq(TgRow)
    BY <1>1, <2>3
  <2>5. DOMAIN filled = 1..n
        /\ \A i \in 1..n : filled[i] = IF i \in Matches(rs, rec) THEN Filled(rs[i], rec) ELSE rs[i]
    BY <1>1
  <2> HIDE DEF filled
  <2> QED BY <1>1, <1>4, <2>1, <2>4, <2>5
<1> QED BY <1>2, <1>3, <1>4

LEMMA FilledKeys ==
  ASSUME NEW row \in TgRow, NEW rec \in TgRow
  PROVE  /\ Filled(row, rec) \in TgRow /\ Filled(row, rec).type = row.type
         /\ Filled(row, rec).id = (IF row.id = NoKey THEN rec.id ELSE row.id)
         /\ Filled(row, rec).name = (IF row.name = NoKey THEN rec.name ELSE row.name)
BY DEF Filled, TgRow

LEMMA UpsertKeeps ==
  ASSUME NEW rs \in Seq(TgRow), NEW rec \in TgRow, IdsApart(rs)
  PROVE  Keeps(rs, Upsert(rs, rec)) /\ IdsApart(Upsert(rs, rec))
<1> DEFINE after == Upsert(rs, rec)
           n == Len(rs)
<1>1. n \in Nat /\ DOMAIN rs = 1..n /\ \A i \in 1..n : rs[i] \in TgRow
  BY LenProperties, ElementOfSeq
<1>2. CASE after = rs
  BY <1>1, <1>2 DEF Keeps, IdsApart
<1>3. CASE /\ Matches(rs, rec) = {} /\ DOMAIN after = 1..(n + 1)
           /\ after[n + 1] = rec /\ \A i \in 1..n : after[i] = rs[i]
  <2>1. \A i \in 1..n : rs[i].type = rec.type /\ rs[i].id = rec.id => rec.id = NoKey
    BY <1>1, <1>3 DEF Matches, ById
  <2>2. \A i \in 1..(n + 1) : i \in 1..n \/ i = n + 1
    BY <1>1
  <2> HIDE DEF after
  <2>3. Keeps(rs, after)
    BY <1>1, <1>3 DEF Keeps
  <2>4. IdsApart(after)
    <3> SUFFICES ASSUME NEW i \in 1..(n + 1), NEW j \in 1..(n + 1), i # j,
                        after[i].type = after[j].type, after[i].id = after[j].id
                 PROVE  after[i].id = NoKey
      BY <1>3 DEF IdsApart
    <3>1. CASE i \in 1..n /\ j \in 1..n
      BY <1>1, <1>3, <3>1 DEF IdsApart
    <3>2. CASE i = n + 1 \/ j = n + 1
      BY <1>3, <2>1, <2>2, <3>2
    <3> QED BY <2>2, <3>1, <3>2
  <2> QED BY <2>3, <2>4 DEF after
<1>4. CASE /\ ~Skipped(rs, rec) /\ Matches(rs, rec) # {} /\ DOMAIN after = 1..n
           /\ \A i \in 1..n : after[i] = IF i \in Matches(rs, rec) THEN Filled(rs[i], rec)
                                         ELSE rs[i]
  <2>1. \A i \in 1..n :
          /\ after[i].type = rs[i].type
          /\ after[i].id = IF i \in Matches(rs, rec) /\ rs[i].id = NoKey THEN rec.id ELSE rs[i].id
          /\ rs[i].name # NoKey => after[i].name = rs[i].name
    BY <1>1, <1>4, FilledKeys
  <2>2. Keeps(rs, after)
    BY <1>1, <1>4, <2>1 DEF Keeps
  <2>3. \A i, j \in Matches(rs, rec) : i = j
    <3>1. IsFiniteSet(Matches(rs, rec)) /\ Matches(rs, rec) \subseteq 1..n
      <4>1. Matches(rs, rec) \subseteq 1..n
        BY <1>1 DEF Matches, ById, ByName
      <4>2. IsFiniteSet(1..n)
        BY <1>1, FS_Interval
      <4> QED BY <4>1, <4>2, FS_Subset
    <3>2. ~(Cardinality(Matches(rs, rec)) > 1) /\ Cardinality(Matches(rs, rec)) \in Nat
      BY <1>4, <3>1, FS_CardinalityType DEF Skipped
    <3>3. Cardinality(Matches(rs, rec)) = 0 \/ Cardinality(Matches(rs, rec)) = 1
      BY <3>2
    <3> QED BY <1>4, <3>1, <3>3, FS_EmptySet, FS_Singleton
  <2>4. \A i \in Matches(rs, rec) : rs[i].id = NoKey =>
            \A j \in 1..n : rs[j].type = rs[i].type /\ rs[j].id = rec.id => rec.id = NoKey
    <3> SUFFICES ASSUME NEW i \in Matches(rs, rec), rs[i].id = NoKey, NEW j \in 1..n,
                        rs[j].type = rs[i].type, rs[j].id = rec.id, rec.id # NoKey
                 PROVE  FALSE
      OBVIOUS
    <3>1. rs[i].type = rec.type
      BY DEF Matches, ById, ByName
    <3>2. j \in ById(rs, rec)
      BY <1>1, <3>1 DEF ById
    <3>3. i \in ById(rs, rec)
      BY <3>2 DEF Matches
    <3> QED BY <3>3 DEF ById
  <2>5. IdsApart(after)
    <3> SUFFICES ASSUME NEW i \in 1..n, NEW j \in 1..n, i # j, after[i].type = after[j].type,
                        after[i].id = after[j].id, after[i].id # NoKey
                 PROVE  FALSE
      BY <1>4 DEF IdsApart
    <3>1. rs[i].type = rs[j].type
      BY <2>1
    <3>2. CASE i \in Matches(rs, rec) /\ rs[i].id = NoKey
      BY <2>1, <2>3, <2>4, <3>1, <3>2
    <3>3. CASE j \in Matches(rs, rec) /\ rs[j].id = NoKey
      BY <2>1, <2>3, <2>4, <3>1, <3>3
    <3>4. CASE ~(i \in Matches(rs, rec) /\ rs[i].id = NoKey) /\ ~(j \in Matches(rs, rec) /\ rs[j].id = NoKey)
      BY <1>1, <2>1, <3>1, <3>4 DEF IdsApart
    <3> QED BY <3>2, <3>3, <3>4
  <2> QED BY <2>2, <2>5
<1> QED BY <1>2, <1>3, <1>4, Upserted

LEMMA UpsertTrue ==
  ASSUME NEW rs \in Seq(TgRow), NEW rec \in TgRow, RowsTrue(rs), Faithful(rec)
  PROVE  RowsTrue(Upsert(rs, rec))
<1> DEFINE after == Upsert(rs, rec)
           n == Len(rs)
<1>1. n \in Nat /\ DOMAIN rs = 1..n /\ \A i \in 1..n : rs[i] \in TgRow
  BY LenProperties, ElementOfSeq
<1>2. CASE after = rs
  BY <1>2
<1>3. CASE /\ Matches(rs, rec) = {} /\ DOMAIN after = 1..(n + 1)
           /\ after[n + 1] = rec /\ \A i \in 1..n : after[i] = rs[i]
  <2>1. \A i \in 1..(n + 1) : i \in 1..n \/ i = n + 1
    BY <1>1
  <2> HIDE DEF after
  <2>2. \A i \in DOMAIN after : Faithful(after[i])
    BY <1>1, <1>3, <2>1 DEF RowsTrue
  <2>3. ASSUME NEW h \in Handles, Fresh(h), NEW i \in 1..(n + 1), NEW j \in 1..(n + 1),
               after[i].type = after[j].type, after[i].name = h, after[j].name = h
        PROVE  i = j
    <3>1. \A k \in 1..n : ~(rs[k].type = rec.type /\ rs[k].name = rec.name /\ rec.name # NoKey)
      BY <1>1, <1>3 DEF Matches, ById, ByName
    <3>2. h # NoKey
      BY SearchAssumption
    <3>3. CASE i \in 1..n /\ j \in 1..n
      BY <1>1, <1>3, <2>3, <3>3 DEF RowsTrue, OneRowOf
    <3>4. CASE i = n + 1 \/ j = n + 1
      BY <1>3, <2>1, <2>3, <3>1, <3>2, <3>4
    <3> QED BY <2>1, <3>3, <3>4
  <2> QED BY <1>3, <2>2, <2>3 DEF RowsTrue, OneRowOf, after
<1>4. CASE /\ ~Skipped(rs, rec) /\ Matches(rs, rec) # {} /\ DOMAIN after = 1..n
           /\ \A i \in 1..n : after[i] = IF i \in Matches(rs, rec) THEN Filled(rs[i], rec)
                                         ELSE rs[i]
  <2> HIDE DEF after
  <2>1. ASSUME NEW i \in 1..n, i \in Matches(rs, rec)
        PROVE  /\ Faithful(after[i]) /\ after[i].type = rs[i].type
               /\ \A h \in Handles : Fresh(h) /\ after[i].name = h => rs[i].name = h
    <3>1. Faithful(rs[i]) /\ rs[i] \in TgRow
      BY <1>1 DEF RowsTrue
    <3>2. /\ after[i].type = rs[i].type
          /\ after[i].id = (IF rs[i].id = NoKey THEN rec.id ELSE rs[i].id)
          /\ after[i].name = (IF rs[i].name = NoKey THEN rec.name ELSE rs[i].name)
      BY <1>4, <2>1, <3>1, FilledKeys
    <3>3. /\ i \in ById(rs, rec) => rec.id # NoKey /\ rs[i].id = rec.id
          /\ i \notin ById(rs, rec) => rs[i].name = rec.name /\ rec.name # NoKey
      BY <2>1 DEF Matches, ById, ByName
    <3>4. Faithful(after[i])
      BY <3>1, <3>2, <3>3 DEF Faithful
    <3>5. ASSUME NEW h \in Handles, Fresh(h), after[i].name = h, rs[i].name # h
          PROVE  FALSE
      <4>1. rs[i].name = NoKey /\ rec.name = h /\ rec.id # NoKey /\ rs[i].id = rec.id
        BY <3>2, <3>3, <3>5
      <4>2. rec.id \in Entities
        BY <4>1 DEF TgRow
      <4>3. NoKey \in held[rec.id]
        BY <3>1, <4>1 DEF Faithful
      <4>4. h \in held[rec.id]
        BY <4>1 DEF Faithful
      <4> QED BY <3>5, <4>2, <4>3, <4>4, SearchAssumption DEF Fresh
    <3> QED BY <3>2, <3>4, <3>5
  <2>2. \A i \in 1..n : i \notin Matches(rs, rec) => after[i] = rs[i]
    BY <1>4
  <2>3. \A i \in DOMAIN after : Faithful(after[i])
    BY <1>1, <1>4, <2>1, <2>2 DEF RowsTrue
  <2>4. ASSUME NEW h \in Handles, Fresh(h), NEW i \in 1..n, NEW j \in 1..n,
               after[i].type = after[j].type, after[i].name = h, after[j].name = h
        PROVE  i = j
    <3>1. rs[i].type = rs[j].type /\ rs[i].name = h /\ rs[j].name = h
      BY <2>1, <2>2, <2>4
    <3> QED BY <1>1, <2>4, <3>1 DEF RowsTrue, OneRowOf
  <2> QED BY <1>4, <2>3, <2>4 DEF RowsTrue, OneRowOf, after
<1> QED BY <1>2, <1>3, <1>4, Upserted

(* A record with a name only has its row afterwards.                       *)
LEMMA UpsertNamed ==
  ASSUME NEW rs \in Seq(TgRow), NEW rec \in TgRow, rec.id = NoKey, rec.name # NoKey
  PROVE  ByName(Upsert(rs, rec), rec) # {}
<1> DEFINE after == Upsert(rs, rec)
           n == Len(rs)
<1>1. n \in Nat /\ DOMAIN rs = 1..n /\ \A i \in 1..n : rs[i] \in TgRow
  BY LenProperties, ElementOfSeq
<1>2. Matches(rs, rec) = ByName(rs, rec)
  BY DEF Matches, ById
<1>3. CASE Skipped(rs, rec) /\ after = rs
  <2>1. Cardinality({}) = 0
    BY FS_EmptySet
  <2>2. Cardinality(Matches(rs, rec)) > 1
    BY <1>3 DEF Skipped
  <2>3. Matches(rs, rec) # {}
    <3> SUFFICES ASSUME Matches(rs, rec) = {} PROVE FALSE
      OBVIOUS
    <3>1. Cardinality(Matches(rs, rec)) = 0
      BY <2>1, Zenon
    <3> QED BY <2>2, <3>1
  <2> QED BY <1>2, <1>3, <2>3
<1>4. CASE DOMAIN after = 1..(n + 1) /\ after[n + 1] = rec
  <2>1. n + 1 \in DOMAIN after
    BY <1>1, <1>4
  <2> HIDE DEF after
  <2>2. n + 1 \in ByName(after, rec)
    BY <1>4, <2>1 DEF ByName
  <2> QED BY <2>2 DEF after
<1>5. CASE /\ Matches(rs, rec) # {} /\ DOMAIN after = 1..n
           /\ \A i \in 1..n : after[i] = IF i \in Matches(rs, rec) THEN Filled(rs[i], rec)
                                         ELSE rs[i]
  <2>1. PICK i \in Matches(rs, rec) : TRUE
    BY <1>5
  <2>2. i \in 1..n /\ rs[i].type = rec.type /\ rs[i].name = rec.name
    BY <1>1, <1>2, <2>1 DEF ByName
  <2>3. after[i].type = rec.type /\ after[i].name = rec.name
    BY <1>1, <1>5, <2>1, <2>2, FilledKeys
  <2> HIDE DEF after
  <2>4. i \in ByName(after, rec)
    BY <1>5, <2>2, <2>3 DEF ByName
  <2> QED BY <2>4 DEF after
<1> QED BY <1>3, <1>4, <1>5, Upserted

LEMMA KeepsTransitive ==
  ASSUME NEW a, NEW b, NEW c, Keeps(a, b), Keeps(b, c)
  PROVE  Keeps(a, c)
BY DEF Keeps

LEMMA KeepsItself ==
  ASSUME NEW a
  PROVE  Keeps(a, a)
BY DEF Keeps

LEMMA NamedStay ==
  ASSUME NEW a, NEW b, Keeps(a, b), NEW rec
  PROVE  ByName(a, rec) \subseteq ByName(b, rec)
BY DEF Keeps, ByName

(* The first n steps of an ingestion: w[i] are the rows after i records.   *)
Steps(rs, order, n, w) ==
    w[0] = rs /\ \A i \in 1..n : w[i] = Upsert(w[i - 1], order[i])

LEMMA StepsExist ==
  ASSUME NEW rs, NEW order, NEW n \in Nat
  PROVE  \E w : Steps(rs, order, n, w)
<1> DEFINE Bad == {k \in Nat : ~\E w : Steps(rs, order, k, w)}
<1>1. CASE Bad # {}
  <2>1. PICK k \in Bad : \A j \in Bad : k <= j
    BY <1>1, LeastNat
  <2>2. k # 0
    <3> DEFINE w == [i \in {0} |-> rs]
    <3>1. Steps(rs, order, 0, w)
      BY DEF Steps
    <3> QED BY <2>1, <3>1
  <2>3. k - 1 \in Nat /\ ~(k <= k - 1)
    BY <2>2
  <2>4. PICK v : Steps(rs, order, k - 1, v)
    BY <2>1, <2>3
  <2> DEFINE w == [i \in 0..k |-> IF i = k THEN Upsert(v[k - 1], order[k]) ELSE v[i]]
  <2>5. w[0] = rs
    BY <2>2, <2>4 DEF Steps
  <2>6. ASSUME NEW i \in 1..k
        PROVE  w[i] = Upsert(w[i - 1], order[i])
    <3>1. w[i - 1] = v[i - 1] /\ i - 1 \in 0..k
      OBVIOUS
    <3>2. CASE i = k
      BY <3>1, <3>2
    <3>3. CASE i # k
      <4>1. i \in 1..(k - 1) /\ w[i] = v[i]
        BY <3>3
      <4>2. v[i] = Upsert(v[i - 1], order[i])
        BY <2>4, <4>1 DEF Steps
      <4> QED BY <3>1, <4>1, <4>2
    <3> QED BY <3>2, <3>3
  <2> HIDE DEF w
  <2>7. Steps(rs, order, k, w)
    BY <2>5, <2>6 DEF Steps
  <2> QED BY <2>1, <2>7
<1>2. CASE Bad = {}
  BY <1>2
<1> QED BY <1>1, <1>2

LEMMA IngestedSteps ==
  ASSUME NEW rs, NEW order, Len(order) \in Nat
  PROVE  \E w : Steps(rs, order, Len(order), w) /\ Ingested(rs, order) = w[Len(order)]
<1> DEFINE n == Len(order)
           step(f, i) == IF i = 0 THEN rs ELSE Upsert(f[i - 1], order[i])
           w == CHOOSE f : f = [i \in 0..n |-> step(f, i)]
<1>1. PICK g : Steps(rs, order, n, g)
  BY StepsExist
<1>2. \E f : f = [i \in 0..n |-> step(f, i)]
  <2> DEFINE h == [i \in 0..n |-> g[i]]
  <2>1. ASSUME NEW i \in 0..n
        PROVE  h[i] = step(h, i)
    <3>1. CASE i = 0
      BY <1>1, <3>1 DEF Steps
    <3>2. CASE i # 0
      <4>1. i \in 1..n /\ i - 1 \in 0..n
        BY <3>2
      <4>2. g[i] = Upsert(g[i - 1], order[i])
        BY <1>1, <4>1 DEF Steps
      <4> QED BY <3>2, <4>1, <4>2
    <3> QED BY <3>1, <3>2
  <2>2. h = [i \in 0..n |-> step(h, i)]
    BY <2>1
  <2> QED BY <2>2
<1>3. w = [i \in 0..n |-> step(w, i)]
  <2> HIDE DEF step
  <2> QED BY <1>2, Zenon
<1>4. Ingested(rs, order) = w[n]
  BY Zenon DEF Ingested
<1> HIDE DEF w
<1>5. 0 \in 0..n /\ \A i \in 1..n : i \in 0..n /\ i # 0
  OBVIOUS
<1>6. Steps(rs, order, n, w)
  BY <1>3, <1>5 DEF Steps
<1> QED BY <1>4, <1>6

(* What an ingestion does with the rows it found.                          *)
LEMMA IngestedTrue ==
  ASSUME NEW rs \in Seq(TgRow), IdsApart(rs), RowsTrue(rs),
         NEW order, Len(order) \in Nat,
         \A i \in 1..Len(order) : order[i] \in TgRow /\ Faithful(order[i])
  PROVE  LET after == Ingested(rs, order)
         IN  /\ after \in Seq(TgRow) /\ IdsApart(after) /\ RowsTrue(after) /\ Keeps(rs, after)
             /\ \A i \in 1..Len(order) : order[i].id = NoKey => ByName(after, order[i]) # {}
<1> DEFINE n == Len(order)
<1>1. PICK w : Steps(rs, order, n, w) /\ Ingested(rs, order) = w[n]
  BY IngestedSteps
<1> DEFINE Fine(k) == /\ w[k] \in Seq(TgRow) /\ IdsApart(w[k]) /\ RowsTrue(w[k]) /\ Keeps(rs, w[k])
                      /\ \A i \in 1..k : order[i].id = NoKey => ByName(w[k], order[i]) # {}
           Bad == {k \in 0..n : ~Fine(k)}
<1>2. Fine(0)
  BY <1>1, KeepsItself DEF Steps
<1>3. ASSUME NEW k \in 1..n, Fine(k - 1)
      PROVE  Fine(k)
  <2> DEFINE v == w[k - 1]
  <2>1. w[k] = Upsert(v, order[k]) /\ order[k] \in TgRow /\ Faithful(order[k])
    BY <1>1 DEF Steps
  <2>2. v \in Seq(TgRow) /\ IdsApart(v) /\ RowsTrue(v) /\ Keeps(rs, v)
        /\ \A i \in 1..(k - 1) : order[i].id = NoKey => ByName(v, order[i]) # {}
    BY <1>3
  <2> HIDE DEF v
  <2>3. w[k] \in Seq(TgRow)
    BY <2>1, <2>2, Upserted
  <2>4. IdsApart(w[k]) /\ Keeps(v, w[k])
    BY <2>1, <2>2, UpsertKeeps
  <2>5. RowsTrue(w[k])
    BY <2>1, <2>2, UpsertTrue
  <2>6. Keeps(rs, w[k])
    BY <2>2, <2>4, KeepsTransitive
  <2>7. ASSUME NEW i \in 1..k, order[i].id = NoKey
        PROVE  ByName(w[k], order[i]) # {}
    <3>1. CASE i = k
      <4>1. order[k].name # NoKey
        BY <2>1, <2>7, <3>1 DEF Faithful
      <4> QED BY <2>1, <2>2, <2>7, <3>1, <4>1, UpsertNamed
    <3>2. CASE i # k
      <4>1. i \in 1..(k - 1)
        BY <3>2
      <4>2. ByName(v, order[i]) # {}
        BY <2>2, <2>7, <4>1
      <4> QED BY <2>4, <4>2, NamedStay
    <3> QED BY <3>1, <3>2
  <2> QED BY <2>3, <2>4, <2>5, <2>6, <2>7
<1> HIDE DEF Fine
<1>4. Bad = {}
  <2> SUFFICES ASSUME Bad # {} PROVE FALSE
    OBVIOUS
  <2>1. Bad \in SUBSET Nat
    OBVIOUS
  <2>2. PICK k \in Bad : \A j \in Bad : k <= j
    BY <2>1, LeastNat
  <2>3. k # 0 /\ k \in 0..n /\ ~Fine(k)
    BY <1>2, <2>2
  <2>4. k \in 1..n /\ k - 1 \in 0..n /\ ~(k <= k - 1)
    BY <2>3
  <2>5. Fine(k - 1)
    BY <2>2, <2>4
  <2> QED BY <1>3, <2>3, <2>4, <2>5
<1>5. Fine(n)
  BY <1>4
<1> QED BY <1>1, <1>5 DEF Fine

(* An order of a set has each of its members.                              *)
LEMMA OrderLists ==
  ASSUME NEW S, IsFiniteSet(S), NEW order \in Orders(S)
  PROVE  /\ Len(order) = Cardinality(S) /\ Len(order) \in Nat
         /\ \A i \in 1..Len(order) : order[i] \in S
         /\ \A r \in S : \E i \in 1..Len(order) : order[i] = r
<1> DEFINE n == Cardinality(S)
<1>1. n \in Nat
  BY FS_CardinalityType
<1>2. order \in [1..n -> S] /\ \A i, j \in 1..n : i # j => order[i] # order[j]
  BY DEF Orders
<1>3. Len(order) = n
  BY <1>1, <1>2
<1>4. Cardinality(1..n) = n
  <2> HIDE DEF n
  <2>1. 1 \in Int /\ n \in Int
    BY <1>1
  <2>2. Cardinality(1..n) = IF 1 > n THEN 0 ELSE n - 1 + 1
    BY <2>1, FS_Interval
  <2> QED BY <1>1, <2>2
<1>5. order \in Injection(1..n, S)
  BY <1>2 DEF Injection, IsInjective
<1>6. order \in Surjection(1..n, S)
  BY <1>4, <1>5, FS_Injection
<1>7. \A r \in S : \E i \in 1..n : order[i] = r
  BY <1>6 DEF Surjection
<1> QED BY <1>1, <1>2, <1>3, <1>7

LEMMA SynthesisedFinite ==
  ASSUME NEW msgs, IsFiniteSet(msgs)
  PROVE  IsFiniteSet(Synthesised(msgs))
<1> DEFINE S == {m \in msgs : m.name # NoKey}
           f == [m \in S |-> [type |-> "channel", id |-> NoKey, name |-> m.name]]
<1>1. IsFiniteSet(S)
  BY FS_Subset
<1>2. f \in Surjection(S, Synthesised(msgs))
  BY DEF Surjection, Synthesised
<1> HIDE DEF f, S
<1> QED BY <1>1, <1>2, FS_Surjection

(* What the source told of the chat.                                       *)
LEMMA ChatTold ==
  ASSUME SearchInv, lookup.chat # <<>>
  PROVE  LET c == lookup.chat[1]
             rec == ChatRecord(lookup.kind, c)
         IN  /\ c \in Chat /\ rec \in TgRow /\ Faithful(rec)
             /\ rec.id = c.id /\ rec.name = c.name /\ rec.id # NoKey
             /\ c.id \in Entities /\ c.name \in held[c.id]
<1> DEFINE c == lookup.chat[1]
<1>1. lookup.chat \in Seq(Chat) /\ Len(lookup.chat) = 1 /\ c.name \in held[c.id]
  BY DEF SearchInv, SearchTyped, LookupFits
<1>2. c \in Chat
  <2>1. 1 \in 1..Len(lookup.chat)
    BY <1>1
  <2> QED BY <1>1, <2>1, ElementOfSeq
<1> HIDE DEF c
<1>3. c.id \in Entities /\ c.name \in Usernames /\ c.id # NoKey
  BY <1>2, SearchAssumption DEF Chat
<1>4. ChatRecord(lookup.kind, c) \in TgRow
  BY <1>3 DEF ChatRecord, TgRow, Types, Usernames
<1>5. ChatRecord(lookup.kind, c).id = c.id /\ ChatRecord(lookup.kind, c).name = c.name
  BY DEF ChatRecord
<1>6. Faithful(ChatRecord(lookup.kind, c))
  BY <1>1, <1>3, <1>5 DEF Faithful
<1> QED BY <1>1, <1>2, <1>3, <1>4, <1>5, <1>6 DEF c

LEMMA RecordsTrue ==
  ASSUME SearchInv
  PROVE  /\ IsFiniteSet(Records(lookup))
         /\ \A rec \in Records(lookup) : /\ rec \in TgRow /\ Faithful(rec)
                                         /\ lookup.chat = <<>> => rec.id = NoKey
<1>1. CASE lookup.chat # <<>>
  <2>1. Records(lookup) = {ChatRecord(lookup.kind, lookup.chat[1])}
    BY <1>1 DEF Records
  <2> QED BY <1>1, <2>1, ChatTold, FS_Singleton
<1>2. CASE lookup.chat = <<>>
  <2>1. Records(lookup) = Synthesised(lookup.messages)
    BY <1>2 DEF Records
  <2>2. lookup.messages \subseteq Message /\ IsFiniteSet(lookup.messages)
    BY DEF SearchInv, SearchTyped
  <2>3. ASSUME NEW rec \in Synthesised(lookup.messages)
        PROVE  rec \in TgRow /\ Faithful(rec) /\ rec.id = NoKey
    <3>1. PICK m \in lookup.messages :
            m.name # NoKey /\ rec = [type |-> "channel", id |-> NoKey, name |-> m.name]
      BY DEF Synthesised
    <3>2. m.name \in Handles \cup {NoKey}
      BY <2>2 DEF Message
    <3> QED BY <3>1, <3>2 DEF TgRow, Types, Faithful
  <2> QED BY <2>1, <2>2, <2>3, SynthesisedFinite
<1> QED BY <1>1, <1>2

(* The rows a search leaves.                                               *)
LEMMA SearchedRows ==
  ASSUME SearchInv, NEW order \in Orders(Records(lookup))
  PROVE  LET after == Ingested(rows, order)
         IN  /\ after \in Seq(TgRow) /\ IdsApart(after) /\ RowsTrue(after) /\ Keeps(rows, after)
             /\ \A rec \in Records(lookup) : lookup.chat = <<>> => ByName(after, rec) # {}
             /\ lookup.chat # <<>> => after = Upsert(rows, ChatRecord(lookup.kind, lookup.chat[1]))
<1> DEFINE after == Ingested(rows, order)
<1>1. rows \in Seq(TgRow) /\ IdsApart(rows) /\ RowsTrue(rows)
  BY DEF SearchInv, SearchTyped, SearchTypeOK, IdsApart
<1>2. /\ Len(order) = Cardinality(Records(lookup)) /\ Len(order) \in Nat
      /\ \A i \in 1..Len(order) : order[i] \in Records(lookup)
      /\ \A r \in Records(lookup) : \E i \in 1..Len(order) : order[i] = r
  BY RecordsTrue, OrderLists
<1>3. \A i \in 1..Len(order) : order[i] \in TgRow /\ Faithful(order[i])
  BY <1>2, RecordsTrue
<1>4. /\ after \in Seq(TgRow) /\ IdsApart(after) /\ RowsTrue(after) /\ Keeps(rows, after)
      /\ \A i \in 1..Len(order) : order[i].id = NoKey => ByName(after, order[i]) # {}
  BY <1>1, <1>2, <1>3, IngestedTrue
<1>5. ASSUME lookup.chat # <<>>
      PROVE  after = Upsert(rows, ChatRecord(lookup.kind, lookup.chat[1]))
  <2> DEFINE rec == ChatRecord(lookup.kind, lookup.chat[1])
  <2>1. Records(lookup) = {rec}
    BY <1>5 DEF Records
  <2>2. Len(order) = 1 /\ order[1] = rec
    <3> HIDE DEF rec
    <3>1. Cardinality(Records(lookup)) = 1
      BY <2>1, FS_Singleton
    <3>2. Len(order) = 1
      BY <1>2, <3>1
    <3>3. 1 \in 1..Len(order)
      BY <3>2
    <3> QED BY <1>2, <2>1, <3>2, <3>3
  <2>3. PICK w : Steps(rows, order, Len(order), w) /\ after = w[Len(order)]
    BY <1>2, IngestedSteps
  <2>4. 1 \in 1..Len(order) /\ 1 - 1 = 0
    BY <2>2
  <2> HIDE DEF after, rec
  <2>5. w[0] = rows /\ w[1] = Upsert(w[1 - 1], order[1])
    BY <2>3, <2>4 DEF Steps
  <2>6. w[1] = Upsert(rows, rec)
    BY <2>2, <2>4, <2>5
  <2>7. after = Upsert(rows, rec)
    BY <2>2, <2>3, <2>6
  <2> QED BY <2>7 DEF after, rec
<1>6. \A rec \in Records(lookup) : lookup.chat = <<>> => ByName(after, rec) # {}
  <2> SUFFICES ASSUME NEW rec \in Records(lookup), lookup.chat = <<>>
               PROVE  ByName(after, rec) # {}
    OBVIOUS
  <2>1. rec.id = NoKey
    BY RecordsTrue
  <2>2. PICK i \in 1..Len(order) : order[i] = rec
    BY <1>2
  <2> QED BY <1>4, <2>1, <2>2
<1> QED BY <1>4, <1>5, <1>6

(* A message that names its chat is filed with it.                         *)
LEMMA FiledRight ==
  ASSUME SearchInv, NEW order \in Orders(Records(lookup)),
         NEW p \in Posted(Ingested(rows, order), lookup) \cup Within(Ingested(rows, order), lookup),
         p[1].name # NoKey
  PROVE  LET after == Ingested(rows, order)
         IN  \/ after[p[2]].name = p[1].name \/ after[p[2]].id = p[1].id
             \/ Cardinality(ByName(after, [type |-> "channel", id |-> NoKey, name |-> p[1].name])) > 1
<1> DEFINE after == Ingested(rows, order)
           m == p[1]
           named == [type |-> "channel", id |-> NoKey, name |-> m.name]
<1>1. /\ m \in lookup.messages /\ p[2] \in DOMAIN after
      /\ p[2] \in MessageRow(rows, after, lookup, m) \cup EdgeRow(rows, after, lookup, m)
  BY DEF Posted, Within
<1>2. /\ after \in Seq(TgRow) /\ Keeps(rows, after)
      /\ \A rec \in Records(lookup) : lookup.chat = <<>> => ByName(after, rec) # {}
  BY SearchedRows
<1> HIDE DEF after, m
<1>3. CASE lookup.chat # <<>>
  <2> DEFINE c == lookup.chat[1]
             rec == ChatRecord(lookup.kind, c)
  <2>1. Records(lookup) = {rec} /\ ContainerRef(lookup, m) = {}
    BY <1>3 DEF Records, ContainerRef
  <2>2. rec.id = c.id /\ rec.name = c.name
    BY <1>3, ChatTold
  <2>3. m.id = c.id /\ m.name = c.name
    BY <1>1, <1>3 DEF SearchInv, LookupFits
  <2> HIDE DEF rec, c
  <2>4. p[2] \in RowOf(rows, after, rec)
    <3>1. MessageRow(rows, after, lookup, m) \subseteq RowOf(rows, after, rec)
      BY <2>1 DEF MessageRow, Containers, Only
    <3>2. EdgeRow(rows, after, lookup, m) \subseteq RowOf(rows, after, rec)
      BY <2>1 DEF EdgeRow, Only
    <3> QED BY <1>1, <3>1, <3>2
  <2>5. p[2] \in ById(after, rec) \/ p[2] \in ByName(after, rec)
    BY <2>4 DEF RowOf, Matches
  <2>6. after[p[2]].id = rec.id \/ after[p[2]].name = rec.name
    BY <2>5 DEF ById, ByName
  <2> QED BY <2>2, <2>3, <2>6 DEF after, m
<1>4. CASE lookup.chat = <<>>
  <2>1. Records(lookup) = Synthesised(lookup.messages)
    BY <1>4 DEF Records
  <2>2. m.name # NoKey
    BY DEF m
  <2>3. named \in Records(lookup)
    BY <1>1, <2>1, <2>2 DEF Synthesised
  <2>4. ContainerRef(lookup, m) = {named}
    <3>1. \A r \in Records(lookup) : r.name = m.name => r = named
      BY <2>1 DEF Synthesised
    <3> QED BY <1>4, <2>3, <3>1 DEF ContainerRef
  <2> HIDE DEF named
  <2>5. named.id = NoKey /\ named.name = m.name
    BY DEF named
  <2>6. /\ Matches(after, named) = ByName(after, named) /\ ByName(after, named) # {}
        /\ Matches(rows, named) = ByName(rows, named)
    BY <1>2, <1>4, <2>3, <2>5 DEF Matches, ById
  <2>7. CASE Skipped(rows, named)
    <3>1. Cardinality(ByName(rows, named)) > 1
      BY <2>6, <2>7 DEF Skipped
    <3>2. ByName(rows, named) \subseteq ByName(after, named)
      BY <1>2, NamedStay
    <3>3. IsFiniteSet(ByName(after, named))
      <4>1. DOMAIN after = 1..Len(after) /\ Len(after) \in Nat
        BY <1>2, LenProperties
      <4>2. IsFiniteSet(1..Len(after))
        BY <4>1, FS_Interval
      <4>3. ByName(after, named) \subseteq 1..Len(after)
        BY <4>1 DEF ByName
      <4> QED BY <4>2, <4>3, FS_Subset
    <3>4. /\ Cardinality(ByName(rows, named)) <= Cardinality(ByName(after, named))
          /\ Cardinality(ByName(rows, named)) \in Nat /\ Cardinality(ByName(after, named)) \in Nat
      BY <3>2, <3>3, FS_Subset, FS_CardinalityType
    <3>5. Cardinality(ByName(after, named)) > 1
      BY <3>1, <3>4
    <3> QED BY <3>5 DEF named, after, m
  <2>8. CASE ~Skipped(rows, named)
    <3>1. RowOf(rows, after, named) = ByName(after, named)
      BY <2>6, <2>8 DEF RowOf
    <3>2. MessageRow(rows, after, lookup, m) = ByName(after, named)
      <4>1. UNION {RowOf(rows, after, r) : r \in ContainerRef(lookup, m)} = ByName(after, named)
        BY <2>4, <3>1
      <4> QED BY <2>6, <4>1 DEF MessageRow
    <3>3. EdgeRow(rows, after, lookup, m) = ByName(after, named)
      BY <2>4, <3>1 DEF EdgeRow
    <3>4. p[2] \in ByName(after, named)
      BY <1>1, <3>2, <3>3
    <3>5. after[p[2]].name = m.name
      BY <2>5, <3>4 DEF ByName
    <3> QED BY <3>5 DEF after, m
  <2> QED BY <2>7, <2>8
<1> QED BY <1>3, <1>4

(* The rows a search for a name finds.                                     *)
NameHits(after, kind, h) == {i \in DOMAIN after : after[i].type = Table[kind] /\ after[i].name = h}

LEMMA HitsOfName ==
  ASSUME NEW after, NEW kind, NEW h \in Handles
  PROVE  Hits(after, kind, h) = NameHits(after, kind, h)
<1>1. h \notin Entities
  BY SearchAssumption
<1>2. Hits(after, kind, h) =
        {i \in DOMAIN after : after[i].type = Table[kind] /\ after[i]["name"] = h}
  BY <1>1 DEF Hits
<1> QED BY <1>2 DEF NameHits

LEMMA HitsFinite ==
  ASSUME NEW after \in Seq(TgRow), NEW kind, NEW query
  PROVE  IsFiniteSet(Hits(after, kind, query)) /\ Hits(after, kind, query) \subseteq DOMAIN after
<1>1. Hits(after, kind, query) \subseteq DOMAIN after
  BY DEF Hits
<1>2. DOMAIN after = 1..Len(after) /\ Len(after) \in Nat
  BY LenProperties
<1>3. IsFiniteSet(1..Len(after))
  BY <1>2, FS_Interval
<1> QED BY <1>1, <1>2, <1>3, FS_Subset

LEMMA FreshHitsOnce ==
  ASSUME NEW after \in Seq(TgRow), RowsTrue(after), NEW kind, NEW h \in Handles, Fresh(h)
  PROVE  /\ \A i, j \in Hits(after, kind, h) : i = j
         /\ ~(Cardinality(Hits(after, kind, h)) > 1)
<1>1. \A i, j \in Hits(after, kind, h) : i = j
  BY HitsOfName DEF NameHits, RowsTrue, OneRowOf
<1>2. CASE Hits(after, kind, h) = {}
  <2>1. Cardinality({}) = 0
    BY FS_EmptySet
  <2>2. Cardinality(Hits(after, kind, h)) = 0
    BY <1>2, <2>1, Zenon
  <2> QED BY <1>1, <2>2
<1>3. CASE Hits(after, kind, h) # {}
  <2>1. PICK i \in Hits(after, kind, h) : TRUE
    BY <1>3
  <2>2. Hits(after, kind, h) = {i}
    BY <1>1, <2>1
  <2>3. Cardinality({i}) = 1
    BY FS_Singleton
  <2>4. Cardinality(Hits(after, kind, h)) = 1
    BY <2>2, <2>3, Zenon
  <2> QED BY <1>1, <2>4
<1> QED BY <1>2, <1>3

(* The row of what the source answered about a fresh handle is found by it.*)
LEMMA FreshRow ==
  ASSUME NEW rs \in Seq(TgRow), IdsApart(rs), RowsTrue(rs),
         NEW rec \in TgRow, rec.id # NoKey, rec.name \in Handles, Fresh(rec.name),
         rec.name \in held[rec.id]
  PROVE  LET after == Upsert(rs, rec)
         IN  \E i \in DOMAIN after :
                after[i].type = rec.type /\ after[i].name = rec.name /\ after[i].id = rec.id
<1> DEFINE after == Upsert(rs, rec)
           n == Len(rs)
           h == rec.name
<1>1. n \in Nat /\ DOMAIN rs = 1..n /\ \A i \in 1..n : rs[i] \in TgRow
  BY LenProperties, ElementOfSeq
<1>2. h # NoKey /\ rec.id \in Entities
  BY SearchAssumption DEF TgRow
<1>3. \A e \in Entities : h \in held[e] => e = rec.id
  BY <1>2 DEF Fresh
<1>4. \A g \in held[rec.id] : g = h
  BY <1>2, <1>3 DEF Fresh
<1>5. \A i \in 1..n : /\ i \in ById(rs, rec) => rs[i].type = rec.type /\ rs[i].id = rec.id
                      /\ i \in ByName(rs, rec) => rs[i].type = rec.type /\ rs[i].name = h
  BY DEF ById, ByName
<1>6. Matches(rs, rec) \subseteq 1..n
  BY <1>1 DEF Matches, ById, ByName
<1>7. \A i, j \in Matches(rs, rec) : i = j
  <2>1. CASE ById(rs, rec) # {}
    <3>1. Matches(rs, rec) = ById(rs, rec)
      BY <2>1 DEF Matches
    <3> SUFFICES ASSUME NEW i \in ById(rs, rec), NEW j \in ById(rs, rec)
                 PROVE  i = j
      BY <3>1
    <3>2. i \in 1..n /\ j \in 1..n
      BY <1>6, <3>1
    <3> QED BY <1>1, <1>5, <3>2 DEF IdsApart
  <2>2. CASE ById(rs, rec) = {}
    <3>1. Matches(rs, rec) = ByName(rs, rec)
      BY <2>2 DEF Matches
    <3> SUFFICES ASSUME NEW i \in ByName(rs, rec), NEW j \in ByName(rs, rec)
                 PROVE  i = j
      BY <3>1
    <3>2. i \in 1..n /\ j \in 1..n
      BY <1>6, <3>1
    <3>3. OneRowOf(rs, h)
      BY DEF RowsTrue
    <3> QED BY <1>1, <1>5, <3>2, <3>3 DEF OneRowOf
  <2> QED BY <2>1, <2>2
<1>8. CASE Matches(rs, rec) = {}
  <2>1. Cardinality({}) = 0
    BY FS_EmptySet
  <2>2. Cardinality(Matches(rs, rec)) = 0
    BY <1>8, <2>1, Zenon
  <2>3. after = Append(rs, rec)
    BY <1>8, <2>2 DEF Upsert, Skipped
  <2>4. n + 1 \in DOMAIN Append(rs, rec) /\ Append(rs, rec)[n + 1] = rec
    <3>1. Append(rs, rec) \in Seq(TgRow) /\ Len(Append(rs, rec)) = n + 1
      BY AppendProperties
    <3>2. DOMAIN Append(rs, rec) = 1..(n + 1)
      BY <3>1, LenProperties
    <3> QED BY <1>1, <3>2, AppendProperties
  <2> HIDE DEF after
  <2> QED BY <2>3, <2>4 DEF after
<1>9. CASE Matches(rs, rec) # {}
  <2>1. PICK i \in Matches(rs, rec) : TRUE
    BY <1>9
  <2>2. Matches(rs, rec) = {i} /\ i \in 1..n
    BY <1>6, <1>7, <2>1
  <2>3. Cardinality(Matches(rs, rec)) = 1
    <3>1. Cardinality({i}) = 1
      BY FS_Singleton
    <3> QED BY <2>2, <3>1, Zenon
  <2>4. ~Skipped(rs, rec)
    BY <2>3 DEF Skipped
  <2>5. DOMAIN after = 1..n /\ after[i] = Filled(rs[i], rec)
    BY <1>1, <1>9, <2>2, <2>4 DEF Upsert
  <2>6. Faithful(rs[i]) /\ rs[i] \in TgRow
    BY <1>1, <2>2 DEF RowsTrue
  <2>7. i \in ById(rs, rec) \/ i \in ByName(rs, rec)
    BY <2>1 DEF Matches
  <2>8. rs[i].type = rec.type
    BY <1>5, <2>2, <2>7
  <2>9. rs[i].id = rec.id \/ rs[i].id = NoKey
    <3>1. CASE i \in ByName(rs, rec) /\ rs[i].id # NoKey
      <4>1. rs[i].name = h
        BY <1>5, <2>2, <3>1
      <4>2. h \in held[rs[i].id]
        BY <2>6, <3>1, <4>1 DEF Faithful
      <4>3. rs[i].id \in Entities
        BY <2>6, <3>1 DEF TgRow
      <4> QED BY <1>3, <4>2, <4>3
    <3> QED BY <1>5, <2>2, <2>7, <3>1
  <2>10. rs[i].name = h
    <3>1. CASE rs[i].id = rec.id
      <4>1. rs[i].name \in held[rec.id]
        BY <2>6, <3>1 DEF Faithful
      <4> QED BY <1>4, <4>1
    <3>2. CASE rs[i].id # rec.id
      BY <1>5, <2>2, <2>7, <3>2
    <3> QED BY <3>1, <3>2
  <2>11. after[i].type = rec.type /\ after[i].id = rec.id /\ after[i].name = h
    BY <1>2, <2>5, <2>6, <2>8, <2>9, <2>10, FilledKeys
  <2> HIDE DEF after
  <2> QED BY <2>2, <2>5, <2>11 DEF after
<1> QED BY <1>8, <1>9

(* How a search for a fresh handle ends.                                   *)
LEMMA FreshEnds ==
  ASSUME SearchInv, lookup # NoLookup, lookup.query \in Handles, Fresh(lookup.query),
         NEW order \in Orders(Records(lookup))
  PROVE  LET after == Ingested(rows, order)
             matched == Hits(after, lookup.kind, lookup.query)
         IN  /\ lookup.kind \in Kinds /\ ~(Cardinality(matched) > 1)
             /\ lookup.chat # <<>> /\ Matching(lookup.kind, type[lookup.chat[1].id]) =>
                   matched # {} /\ \A i \in matched : after[i].id = lookup.chat[1].id
<1> DEFINE after == Ingested(rows, order)
           h == lookup.query
           kind == lookup.kind
           matched == Hits(after, kind, h)
           c == lookup.chat[1]
           rec == ChatRecord(kind, c)
<1>1. after \in Seq(TgRow) /\ RowsTrue(after)
  BY SearchedRows
<1>2. kind \in Kinds
  BY SearchAssumption DEF SearchInv, LookupFits
<1>3. (\A i, j \in matched : i = j) /\ ~(Cardinality(matched) > 1)
  <2> HIDE DEF after, kind
  <2> QED BY <1>1, FreshHitsOnce
<1>4. ASSUME lookup.chat # <<>>, Matching(kind, type[c.id])
      PROVE  matched # {} /\ \A i \in matched : after[i].id = c.id
  <2>1. /\ rec \in TgRow /\ rec.id = c.id /\ rec.name = c.name /\ rec.id # NoKey
        /\ c.id \in Entities /\ c.name \in held[c.id] /\ c \in Chat
    BY <1>4, ChatTold
  <2>2. /\ c.type = type[c.id] /\ Serves(kind, c.id)
        /\ c.id = h \/ c.name = h
    BY <1>4 DEF SearchInv, LookupFits
  <2>3. c.name = h
    BY <2>1, <2>2, SearchAssumption
  <2>4. rec.type = Table[kind]
    <3>1. type[c.id] \in Types
      BY <2>1 DEF SearchInv, SearchTyped, SearchTypeOK
    <3>2. kind = "user" \/ kind = "group" \/ kind = "channel"
      BY <1>2 DEF Kinds, Table
    <3>3. /\ Table["user"] = "account" /\ Table["group"] = "group" /\ Table["channel"] = "channel"
      BY DEF Table
    <3>4. rec.type = IF c.type = "account" THEN "account"
                     ELSE IF c.type = "channel" \/ kind = "channel" THEN "channel" ELSE "group"
      BY DEF ChatRecord
    <3> HIDE DEF rec, kind, c
    <3> QED BY <1>4, <2>2, <3>1, <3>2, <3>3, <3>4 DEF Serves, Matching, Types
  <2>5. rows \in Seq(TgRow) /\ IdsApart(rows) /\ RowsTrue(rows)
    BY DEF SearchInv, SearchTyped, SearchTypeOK, IdsApart
  <2>6. after = Upsert(rows, rec)
    BY <1>4, SearchedRows
  <2> HIDE DEF rec, c, after
  <2>7. rec.name \in Handles /\ Fresh(rec.name) /\ rec.name \in held[rec.id]
    BY <2>1, <2>3
  <2>8. PICK i \in DOMAIN after :
          after[i].type = rec.type /\ after[i].name = rec.name /\ after[i].id = rec.id
    BY <2>1, <2>5, <2>6, <2>7, FreshRow
  <2>9. i \in matched
    <3>1. i \in NameHits(after, kind, h)
      BY <2>1, <2>3, <2>4, <2>8 DEF NameHits
    <3>2. Hits(after, kind, h) = NameHits(after, kind, h)
      BY HitsOfName
    <3> QED BY <3>1, <3>2
  <2> HIDE DEF matched
  <2> QED BY <1>3, <2>1, <2>8, <2>9
<1> HIDE DEF after, matched, c
<1> QED BY <1>2, <1>3, <1>4 DEF after, matched, c

(* What Ended records.                                                     *)
LEMMA Overwritten ==
  ASSUME NEW k, NEW how, NEW r, NEW s, NEW f
  PROVE  [NoAnswer EXCEPT !.kind = k, !.as = how, !.row = r, !.seen = s, !.fresh = f]
           = [kind |-> k, as |-> how, seen |-> s, row |-> r, fresh |-> f, posted |-> {}, within |-> {}]
<1> DEFINE L == [NoAnswer EXCEPT !.kind = k, !.as = how, !.row = r, !.seen = s, !.fresh = f]
           R == [kind |-> k, as |-> how, seen |-> s, row |-> r, fresh |-> f,
                 posted |-> {}, within |-> {}]
           D == {"kind", "as", "seen", "row", "fresh", "posted", "within"}
<1>1. DOMAIN L = D /\ L = [x \in D |-> L[x]]
  BY DEF NoAnswer
<1>2. DOMAIN R = D /\ R = [x \in D |-> R[x]]
  OBVIOUS
<1>3. /\ L.kind = R.kind /\ L.as = R.as /\ L.seen = R.seen /\ L.row = R.row /\ L.fresh = R.fresh
      /\ L.posted = R.posted /\ L.within = R.within
  BY DEF NoAnswer
<1> HIDE DEF L, R
<1>4. \A x \in D : L[x] = R[x]
  BY <1>3
<1> HIDE DEF D
<1>5. L = R
  BY <1>1, <1>2, <1>4
<1> QED BY <1>5 DEF L, R

Pick(S) == CHOOSE i \in S : TRUE
SeenBy(l) == IF l.chat = <<>> THEN NoKey ELSE l.chat[1].id
IsFresh(l) == l.query \in Handles /\ Fresh(l.query)

LEMMA EndedIs ==
  ASSUME NEW l, NEW ending, NEW S
  PROVE  Ended(l, ending, S)
           = [kind |-> l.kind, as |-> ending, seen |-> SeenBy(l),
              row |-> IF ending = "found" THEN Pick(S) ELSE 0,
              fresh |-> IsFresh(l), posted |-> {}, within |-> {}]
<1>1. Ended(l, ending, S)
        = [NoAnswer EXCEPT !.kind = l.kind, !.as = ending,
                           !.row = IF ending = "found" THEN Pick(S) ELSE 0,
                           !.seen = SeenBy(l), !.fresh = IsFresh(l)]
  BY Zenon DEF Ended, SeenBy, IsFresh, Pick
<1> QED BY <1>1, Overwritten

(* What the answer of a search that did not raise is.                      *)
Storing(a, P, W) == [a EXCEPT !.posted = P, !.within = W]

LEMMA AnsweredIs ==
  ASSUME NEW l, NEW ending, NEW S, NEW P, NEW W,
         NEW r, r = IF ending = "found" THEN Pick(S) ELSE 0
  PROVE  Storing(Ended(l, ending, S), P, W)
           = [kind |-> l.kind, as |-> ending, seen |-> SeenBy(l),
              row |-> r, fresh |-> IsFresh(l), posted |-> P, within |-> W]
<1>1. Ended(l, ending, S) = [kind |-> l.kind, as |-> ending, seen |-> SeenBy(l), row |-> r,
                            fresh |-> IsFresh(l), posted |-> {}, within |-> {}]
  BY EndedIs
<1> DEFINE E == Ended(l, ending, S)
           L == Storing(E, P, W)
           R == [kind |-> l.kind, as |-> ending, seen |-> SeenBy(l), row |-> r,
                 fresh |-> IsFresh(l), posted |-> P, within |-> W]
           D == {"kind", "as", "seen", "row", "fresh", "posted", "within"}
<1>2. DOMAIN E = D /\ E = [x \in D |-> E[x]]
  <2> HIDE DEF E
  <2> QED BY <1>1 DEF E
<1>3. /\ E.kind = l.kind /\ E.as = ending /\ E.seen = SeenBy(l) /\ E.row = r /\ E.fresh = IsFresh(l)
  BY <1>1
<1> HIDE DEF E
<1>4. DOMAIN L = D /\ L = [x \in D |-> L[x]]
  BY <1>2 DEF Storing
<1>5. DOMAIN R = D /\ R = [x \in D |-> R[x]]
  OBVIOUS
<1>6. /\ L.kind = R.kind /\ L.as = R.as /\ L.seen = R.seen /\ L.row = R.row /\ L.fresh = R.fresh
      /\ L.posted = R.posted /\ L.within = R.within
  BY <1>2, <1>3 DEF Storing
<1> HIDE DEF L, R
<1>7. \A x \in D : L[x] = R[x]
  BY <1>6
<1> HIDE DEF D
<1>8. L = R
  BY <1>4, <1>5, <1>7
<1> QED BY <1>8 DEF L, R, E

Closing(matched) == IF matched = {} THEN "notfound" ELSE "found"
RowHit(matched) == IF matched = {} THEN 0 ELSE Pick(matched)

LEMMA FullIs ==
  ASSUME NEW after, NEW matched
  PROVE  Storing(Ended(lookup, Closing(matched), matched), Posted(after, lookup), Within(after, lookup))
           = [kind |-> lookup.kind, as |-> Closing(matched), seen |-> SeenBy(lookup),
              row |-> RowHit(matched), fresh |-> IsFresh(lookup),
              posted |-> Posted(after, lookup), within |-> Within(after, lookup)]
<1>1. RowHit(matched) = IF Closing(matched) = "found" THEN Pick(matched) ELSE 0
  BY DEF RowHit, Closing
<1> QED BY <1>1, AnsweredIs

AnswerFields == [kind : Kinds \cup {"none", "messages"}, as : {"none", "found", "notfound", "raised"},
                 seen : Entities \cup {NoKey}, row : Nat, fresh : BOOLEAN,
                 posted : SUBSET (Message \X Nat), within : SUBSET (Message \X Nat)]

LEMMA NoAnswerFits ==
  /\ NoAnswer \in AnswerFields /\ NoAnswer.posted \cup NoAnswer.within = {}
  /\ NoAnswer.row = 0 /\ NoAnswer.fresh = FALSE
BY DEF NoAnswer, AnswerFields

LEMMA NoLookupFits ==
  /\ NoLookup \in [kind : Kinds \cup {"none", "messages"}, query : Entities \cup Handles \cup {NoKey},
                   chat : Seq(Chat), messages : SUBSET Message]
  /\ IsFiniteSet(NoLookup.messages) /\ NoLookup.chat = <<>> /\ NoLookup.query = NoKey
<1>1. <<>> \in Seq(Chat) /\ IsFiniteSet({})
  BY EmptySeq, FS_EmptySet
<1> QED BY <1>1 DEF NoLookup

(* What a search answers is about what Telegram answered.                  *)
LEMMA FinishAnswers ==
  ASSUME SearchInv, FinishSearch
  PROVE  AnswersMatch'
<1>1. PICK order \in Orders(Records(lookup)) :
        LET after == Ingested(rows, order)
            matched == IF lookup.kind = "messages" THEN {} ELSE Hits(after, lookup.kind, lookup.query)
        IN  /\ Len(after) <= MaxRows
            /\ \/ /\ Cardinality(matched) > 1
                  /\ answer' = Ended(lookup, "raised", matched)
                  /\ UNCHANGED rows
               \/ /\ Cardinality(matched) <= 1
                  /\ rows' = after
                  /\ answer' = [Ended(lookup, IF matched = {} THEN "notfound" ELSE "found", matched)
                                  EXCEPT !.posted = Posted(after, lookup),
                                         !.within = Within(after, lookup)]
  BY Zenon DEF FinishSearch
<1>2. lookup # NoLookup /\ held' = held /\ type' = type
  BY DEF FinishSearch
<1> DEFINE after == Ingested(rows, order)
           matched == IF lookup.kind = "messages" THEN {} ELSE Hits(after, lookup.kind, lookup.query)
           raised == Ended(lookup, "raised", matched)
           full == Storing(Ended(lookup, Closing(matched), matched), Posted(after, lookup),
                           Within(after, lookup))
<1>3. /\ raised.as = "raised" /\ raised.fresh = IsFresh(lookup)
      /\ raised.posted \cup raised.within = {}
  BY EndedIs
<1>4. /\ full.kind = lookup.kind /\ full.as = (IF matched = {} THEN "notfound" ELSE "found")
      /\ full.row = (IF matched = {} THEN 0 ELSE Pick(matched))
      /\ full.seen = SeenBy(lookup)
      /\ full.fresh = IsFresh(lookup)
      /\ full.posted = Posted(after, lookup) /\ full.within = Within(after, lookup)
  <2> HIDE DEF after, matched
  <2>1. full = [kind |-> lookup.kind, as |-> Closing(matched), seen |-> SeenBy(lookup),
                row |-> RowHit(matched), fresh |-> IsFresh(lookup),
                posted |-> Posted(after, lookup), within |-> Within(after, lookup)]
    BY FullIs
  <2> HIDE DEF full
  <2> QED BY <2>1 DEF Closing, RowHit
<1>5. \/ Cardinality(matched) > 1 /\ answer' = raised
      \/ Cardinality(matched) <= 1 /\ rows' = after /\ answer' = full
  BY <1>1 DEF Storing, Closing
<1>6. ASSUME answer'.fresh
      PROVE  /\ lookup.query \in Handles /\ Fresh(lookup.query)
             /\ matched = Hits(after, lookup.kind, lookup.query) /\ ~(Cardinality(matched) > 1)
             /\ lookup.chat # <<>> /\ Matching(lookup.kind, type[lookup.chat[1].id]) =>
                   matched # {} /\ \A i \in matched : after[i].id = lookup.chat[1].id
  <2>1. lookup.query \in Handles /\ Fresh(lookup.query)
    <3> HIDE DEF raised, full
    <3> QED BY <1>3, <1>4, <1>5, <1>6 DEF IsFresh
  <2>2. /\ lookup.kind \in Kinds
        /\ ~(Cardinality(Hits(after, lookup.kind, lookup.query)) > 1)
        /\ lookup.chat # <<>> /\ Matching(lookup.kind, type[lookup.chat[1].id]) =>
              /\ Hits(after, lookup.kind, lookup.query) # {}
              /\ \A i \in Hits(after, lookup.kind, lookup.query) : after[i].id = lookup.chat[1].id
    BY <1>2, <2>1, FreshEnds
  <2>3. lookup.kind # "messages"
    BY <2>2 DEF Kinds, Table
  <2> HIDE DEF after
  <2> QED BY <2>1, <2>2, <2>3
<1>7. FreshIsFound'
  <2> SUFFICES ASSUME answer'.fresh
               PROVE  /\ answer'.as # "raised"
                      /\ answer'.seen # NoKey /\ Matching(answer'.kind, type[answer'.seen]) =>
                            answer'.as = "found" /\ rows'[answer'.row].id = answer'.seen
    BY <1>2 DEF FreshIsFound, Matching
  <2> HIDE DEF raised, full, matched, after
  <2>1. rows' = after /\ answer' = full
    BY <1>5, <1>6
  <2>2. answer'.as # "raised"
    BY <1>4, <2>1
  <2>3. ASSUME answer'.seen # NoKey, Matching(answer'.kind, type[answer'.seen])
        PROVE  answer'.as = "found" /\ rows'[answer'.row].id = answer'.seen
    <3>1. lookup.chat # <<>> /\ answer'.seen = lookup.chat[1].id /\ answer'.kind = lookup.kind
      BY <1>4, <2>1, <2>3 DEF SeenBy
    <3>2. matched # {} /\ \A i \in matched : after[i].id = lookup.chat[1].id
      BY <1>6, <2>3, <3>1
    <3>3. answer'.as = "found" /\ answer'.row = Pick(matched)
      BY <1>4, <2>1, <3>2
    <3>4. Pick(matched) \in matched
      BY <3>2 DEF Pick
    <3> QED BY <2>1, <3>1, <3>2, <3>3, <3>4
  <2> QED BY <2>2, <2>3
<1>8. MessagesInTheirChat'
  <2> SUFFICES ASSUME NEW p \in answer'.posted \cup answer'.within, p[1].name # NoKey
               PROVE  \/ rows'[p[2]].name = p[1].name \/ rows'[p[2]].id = p[1].id
                      \/ Cardinality(ByName(rows', [type |-> "channel", id |-> NoKey,
                                                    name |-> p[1].name])) > 1
    BY DEF MessagesInTheirChat, ByName
  <2> HIDE DEF raised, full, matched
  <2>1. rows' = after /\ answer' = full
    BY <1>3, <1>5
  <2>2. p \in Posted(after, lookup) \cup Within(after, lookup)
    BY <1>4, <2>1
  <2> QED BY <2>1, <2>2, FiledRight
<1> QED BY <1>7, <1>8 DEF AnswersMatch

(* The state a search leaves.                                              *)
LEMMA FinishKeeps ==
  ASSUME SearchInv, FinishSearch
  PROVE  SearchInv'
<1>1. PICK order \in Orders(Records(lookup)) :
        LET after == Ingested(rows, order)
            matched == IF lookup.kind = "messages" THEN {} ELSE Hits(after, lookup.kind, lookup.query)
        IN  /\ Len(after) <= MaxRows
            /\ \/ /\ Cardinality(matched) > 1
                  /\ answer' = Ended(lookup, "raised", matched)
                  /\ UNCHANGED rows
               \/ /\ Cardinality(matched) <= 1
                  /\ rows' = after
                  /\ answer' = [Ended(lookup, IF matched = {} THEN "notfound" ELSE "found", matched)
                                  EXCEPT !.posted = Posted(after, lookup),
                                         !.within = Within(after, lookup)]
  BY Zenon DEF FinishSearch
<1>2. lookup' = NoLookup /\ held' = held /\ type' = type /\ holds' = holds
  BY DEF FinishSearch
<1> DEFINE after == Ingested(rows, order)
           matched == IF lookup.kind = "messages" THEN {} ELSE Hits(after, lookup.kind, lookup.query)
           raised == Ended(lookup, "raised", matched)
           full == Storing(Ended(lookup, Closing(matched), matched), Posted(after, lookup),
                           Within(after, lookup))
<1>3. /\ rows \in Seq(TgRow) /\ IdsApart(rows) /\ RowsTrue(rows) /\ Len(rows) <= MaxRows
      /\ after \in Seq(TgRow) /\ IdsApart(after) /\ RowsTrue(after) /\ Len(after) <= MaxRows
  BY <1>1, SearchedRows DEF SearchInv, SearchTyped, SearchTypeOK, IdsApart
<1>4. /\ lookup.kind \in Kinds \cup {"none", "messages"} /\ lookup.messages \subseteq Message
      /\ lookup.chat = <<>> \/ lookup.chat[1].id \in Entities
  BY ChatTold DEF SearchInv, SearchTyped
<1> HIDE DEF after
<1>5. matched \subseteq DOMAIN after /\ DOMAIN after = 1..Len(after) /\ Len(after) \in Nat
  BY <1>3, HitsFinite, LenProperties
<1>6. DOMAIN rows = 1..Len(rows) /\ Len(rows) \in Nat
  BY <1>3, LenProperties
<1> HIDE DEF matched
<1>7. SeenBy(lookup) \in Entities \cup {NoKey} /\ IsFresh(lookup) \in BOOLEAN
  BY <1>4 DEF SeenBy, IsFresh
<1>8. raised \in AnswerFields /\ raised.row = 0 /\ raised.posted \cup raised.within = {}
  <2>1. raised = [kind |-> lookup.kind, as |-> "raised", seen |-> SeenBy(lookup), row |-> 0,
                  fresh |-> IsFresh(lookup), posted |-> {}, within |-> {}]
    BY EndedIs
  <2> HIDE DEF raised
  <2> QED BY <1>4, <1>7, <2>1 DEF AnswerFields
<1>9. /\ full \in AnswerFields /\ full.row \in 0..Len(after)
      /\ full.posted \cup full.within \subseteq Message \X DOMAIN after
  <2> DEFINE row == RowHit(matched)
             how == Closing(matched)
  <2>1. full = [kind |-> lookup.kind, as |-> how, seen |-> SeenBy(lookup), row |-> row,
                fresh |-> IsFresh(lookup), posted |-> Posted(after, lookup),
                within |-> Within(after, lookup)]
    BY FullIs
  <2>2. row \in 0..Len(after)
    <3>1. matched # {} => Pick(matched) \in matched
      BY DEF Pick
    <3> HIDE DEF matched
    <3> QED BY <1>5, <3>1 DEF RowHit
  <2>3. /\ Posted(after, lookup) \cup Within(after, lookup) \subseteq Message \X DOMAIN after
        /\ DOMAIN after \subseteq Nat
    BY <1>4, <1>5 DEF Posted, Within
  <2>4. how \in {"none", "found", "notfound", "raised"}
    BY DEF Closing
  <2> HIDE DEF full, row, how
  <2>5. /\ Posted(after, lookup) \in SUBSET (Message \X Nat)
        /\ Within(after, lookup) \in SUBSET (Message \X Nat) /\ row \in Nat
    BY <1>5, <2>2, <2>3
  <2>6. full \in AnswerFields
    BY <1>4, <1>7, <2>1, <2>4, <2>5 DEF AnswerFields
  <2> QED BY <2>1, <2>2, <2>3, <2>6
<1>10. \/ answer' = raised /\ rows' = rows
       \/ rows' = after /\ answer' = full
  BY <1>1 DEF after, matched, Storing, Closing
<1> HIDE DEF raised, full
<1>11. /\ rows' \in Seq(TgRow) /\ IdsApart(rows') /\ RowsTrue(rows') /\ Len(rows') <= MaxRows
       /\ answer' \in AnswerFields /\ answer'.row \in 0..Len(rows')
       /\ answer'.posted \cup answer'.within \subseteq Message \X DOMAIN rows'
  <2>1. CASE answer' = raised /\ rows' = rows
    BY <1>3, <1>6, <1>8, <2>1
  <2>2. CASE rows' = after /\ answer' = full
    BY <1>3, <1>5, <1>9, <2>2
  <2> QED BY <1>10, <2>1, <2>2
<1>12. SearchTyped'
  BY <1>2, <1>11, NoLookupFits DEF SearchInv, SearchTyped, SearchTypeOK, IdsApart, AnswerFields
<1>13. RowsTrue(rows)'
  BY <1>2, <1>11 DEF RowsTrue, Faithful, OneRowOf, Fresh
<1>14. LookupFits'
  BY <1>2, NoLookupFits DEF LookupFits
<1> QED BY <1>2, <1>12, <1>13, <1>14, FinishAnswers DEF SearchInv

LEMMA NoAnswerMatches ==
  ASSUME answer' = NoAnswer
  PROVE  AnswersMatch'
<1>1. FreshIsFound'
  BY NoAnswerFits DEF FreshIsFound
<1>2. MessagesInTheirChat'
  <2>1. \A p \in answer'.posted \cup answer'.within : FALSE
    BY NoAnswerFits
  <2> QED BY <2>1 DEF MessagesInTheirChat
<1> QED BY <1>1, <1>2 DEF AnswersMatch

(* A handle moves: what has been held is held, and no handle gets fresh.   *)
LEMMA RenameKeeps ==
  ASSUME SearchInv, NEW e \in Entities, NEW h \in Usernames, Rename(e, h)
  PROVE  SearchInv'
<1>1. /\ holds' = [holds EXCEPT ![e] = h] /\ held' = [held EXCEPT ![e] = @ \cup {h}]
      /\ answer' = NoAnswer /\ type' = type /\ rows' = rows /\ lookup' = lookup
      /\ h = NoKey \/ \A f \in Entities : holds[f] # h
  BY DEF Rename
<1>2. /\ holds \in [Entities -> Usernames] /\ held \in [Entities -> SUBSET Usernames]
      /\ \A d, f \in Entities : d # f /\ holds[d] = holds[f] => holds[d] = NoKey
      /\ \A d \in Entities : holds[d] \in held[d]
      /\ rows \in Seq(TgRow) /\ RowsTrue(rows)
  BY DEF SearchInv, SearchTyped, SearchTypeOK, Usernames
<1>3. /\ holds' \in [Entities -> Usernames] /\ held' \in [Entities -> SUBSET Usernames]
      /\ \A d \in Entities : holds'[d] \in held'[d] /\ held[d] \subseteq held'[d]
  BY <1>1, <1>2
<1>4. \A d, f \in Entities : d # f /\ holds'[d] = holds'[f] => holds'[d] = NoKey
  BY <1>1, <1>2
<1>5. SearchTyped'
  <2>1. answer' \in AnswerFields /\ answer'.posted \cup answer'.within = {} /\ answer'.row = 0
    BY <1>1, NoAnswerFits
  <2>2. 0 \in 0..Len(rows)
    BY <1>2, LenProperties
  <2> QED BY <1>1, <1>3, <1>4, <2>1, <2>2
       DEF SearchInv, SearchTyped, SearchTypeOK, Usernames, AnswerFields
<1>6. RowsTrue(rows)'
  <2>1. \A i \in DOMAIN rows : Faithful(rows[i])'
    <3> SUFFICES ASSUME NEW i \in DOMAIN rows PROVE Faithful(rows[i])'
      OBVIOUS
    <3>1. Faithful(rows[i]) /\ rows[i].id \in Entities \cup {NoKey}
      BY <1>2, RowFields DEF RowsTrue
    <3> QED BY <1>1, <1>3, <3>1 DEF Faithful
  <2>2. \A k \in Handles : Fresh(k)' => Fresh(k)
    <3> SUFFICES ASSUME NEW k \in Handles, NEW d \in Entities, held'[d] = {k},
                        \A f \in Entities \ {d} : k \notin held'[f]
                 PROVE  Fresh(k)
      BY DEF Fresh
    <3>1. held[d] = {k}
      <4>1. held[d] \subseteq {k} /\ holds[d] \in held[d]
        BY <1>2, <1>3
      <4> QED BY <4>1
    <3>2. \A f \in Entities \ {d} : k \notin held[f]
      BY <1>3
    <3> QED BY <3>1, <3>2 DEF Fresh
  <2> QED BY <1>1, <1>2, <2>1, <2>2 DEF RowsTrue, OneRowOf
<1>7. LookupFits'
  <2>1. ASSUME lookup.chat # <<>>
        PROVE  lookup.chat[1].name \in held'[lookup.chat[1].id]
    BY <1>3, <2>1, ChatTold
  <2> QED BY <1>1, <2>1 DEF SearchInv, LookupFits, Serves
<1>8. AnswersMatch'
  BY <1>1, NoAnswerMatches
<1> QED BY <1>3, <1>5, <1>6, <1>7, <1>8 DEF SearchInv

(* What a search that begins keeps.                                        *)
LEMMA AskedKeeps ==
  ASSUME SearchInv, answer' = NoAnswer, UNCHANGED <<type, holds, held, rows>>,
         lookup' \in [kind : Kinds \cup {"none", "messages"},
                      query : Entities \cup Handles \cup {NoKey},
                      chat : Seq(Chat), messages : SUBSET Message],
         IsFiniteSet(lookup'.messages), LookupFits'
  PROVE  SearchInv'
<1>1. /\ type' = type /\ holds' = holds /\ held' = held /\ rows' = rows
      /\ rows \in Seq(TgRow) /\ RowsTrue(rows)
  BY DEF SearchInv, SearchTyped, SearchTypeOK
<1>2. SearchTyped'
  <2>1. answer' \in AnswerFields /\ answer'.posted \cup answer'.within = {} /\ answer'.row = 0
    BY NoAnswerFits
  <2>2. 0 \in 0..Len(rows)
    BY <1>1, LenProperties
  <2> QED BY <1>1, <2>1, <2>2 DEF SearchInv, SearchTyped, SearchTypeOK, AnswerFields
<1>3. RowsTrue(rows)'
  BY <1>1 DEF RowsTrue, Faithful, OneRowOf, Fresh
<1>4. AnswersMatch'
  BY NoAnswerMatches
<1> QED BY <1>1, <1>2, <1>3, <1>4 DEF SearchInv

LEMMA AskKeeps ==
  ASSUME SearchInv, NEW kind \in Kinds, NEW query \in Entities \cup Handles, Ask(kind, query)
  PROVE  SearchInv'
<1>1. answer' = NoAnswer /\ UNCHANGED <<type, holds, held, rows>>
  BY DEF Ask
<1>2. CASE lookup' = Unserved(kind, query)
  <2>1. lookup' = [kind |-> kind, query |-> query, chat |-> <<>>, messages |-> {}]
    BY <1>2 DEF Unserved, NoLookup
  <2>2. <<>> \in Seq(Chat) /\ IsFiniteSet({})
    BY EmptySeq, FS_EmptySet
  <2>3. LookupFits'
    BY <2>1 DEF LookupFits
  <2> QED BY <1>1, <2>1, <2>2, <2>3, AskedKeeps
<1>3. ASSUME NEW e \in HoldersOf(query), NEW with \in BOOLEAN, Serves(kind, e),
             lookup' = [kind |-> kind, query |-> query,
                        chat |-> <<[id |-> e, name |-> holds[e], type |-> type[e]]>>,
                        messages |-> IF with THEN {[id |-> e, name |-> holds[e]]} ELSE {}]
      PROVE  SearchInv'
  <2> DEFINE c == [id |-> e, name |-> holds[e], type |-> type[e]]
             m == [id |-> e, name |-> holds[e]]
             msgs == IF with THEN {m} ELSE {}
  <2>1. /\ e \in Entities /\ holds[e] \in Usernames /\ type[e] \in Types /\ holds[e] \in held[e]
        /\ e = query \/ holds[e] = query
    BY DEF HoldersOf, SearchInv, SearchTyped, SearchTypeOK, Usernames
  <2>2. c \in Chat /\ m \in Message /\ c.id = e /\ c.name = holds[e] /\ c.type = type[e]
    BY <2>1 DEF Chat, Message, Usernames
  <2>3. m = [id |-> c.id, name |-> c.name]
    OBVIOUS
  <2> HIDE DEF c, m
  <2>4. <<c>> \in Seq(Chat) /\ Len(<<c>>) = 1 /\ <<c>>[1] = c /\ <<c>> # <<>>
    BY <2>2
  <2>5. msgs \in SUBSET Message /\ IsFiniteSet(msgs) /\ msgs \subseteq {m}
    <3>1. IsFiniteSet({}) /\ IsFiniteSet({m})
      BY FS_EmptySet, FS_Singleton
    <3> QED BY <2>2, <3>1
  <2> HIDE DEF msgs
  <2>6. lookup' = [kind |-> kind, query |-> query, chat |-> <<c>>, messages |-> msgs]
    BY <1>3 DEF c, m, msgs
  <2>7. LookupFits'
    BY <1>1, <1>3, <2>1, <2>2, <2>3, <2>4, <2>5, <2>6 DEF LookupFits, Serves
  <2> QED BY <1>1, <2>4, <2>5, <2>6, <2>7, AskedKeeps
<1> QED BY <1>2, <1>3 DEF Ask

LEMMA AskMessagesKeeps ==
  ASSUME SearchInv, AskMessages
  PROVE  SearchInv'
<1>1. answer' = NoAnswer /\ UNCHANGED <<type, holds, held, rows>>
  BY DEF AskMessages
<1>2. PICK from \in SUBSET {e \in Entities : type[e] # "account"} : \E named \in SUBSET from :
        lookup' = [NoLookup EXCEPT !.kind = "messages",
                     !.messages = {[id |-> e, name |-> IF e \in named THEN holds[e] ELSE NoKey]
                                      : e \in from}]
  BY Zenon DEF AskMessages
<1>3. PICK named \in SUBSET from :
        lookup' = [NoLookup EXCEPT !.kind = "messages",
                     !.messages = {[id |-> e, name |-> IF e \in named THEN holds[e] ELSE NoKey]
                                      : e \in from}]
  BY <1>2, Zenon
<1> DEFINE told(e) == [id |-> e, name |-> IF e \in named THEN holds[e] ELSE NoKey]
           msgs == {told(e) : e \in from}
<1>4. \A e \in from : told(e) \in Message
  <2>1. \A e \in from : e \in Entities /\ holds[e] \in Usernames
    BY DEF SearchInv, SearchTyped, SearchTypeOK, Usernames
  <2> QED BY <2>1 DEF Message, Usernames
<1>5. IsFiniteSet(msgs)
  <2> DEFINE f == [e \in from |-> told(e)]
  <2>1. IsFiniteSet(from)
    <3>1. from \in SUBSET Entities
      OBVIOUS
    <3> QED BY <3>1, FS_Subset, SearchAssumption
  <2> HIDE DEF told
  <2>2. f \in Surjection(from, msgs)
    BY DEF Surjection
  <2> HIDE DEF f, msgs
  <2> QED BY <2>1, <2>2, FS_Surjection
<1>6. msgs \in SUBSET Message
  BY <1>4
<1> HIDE DEF msgs
<1>7. lookup' = [kind |-> "messages", query |-> NoKey, chat |-> <<>>, messages |-> msgs]
  <2>1. lookup' = [NoLookup EXCEPT !.kind = "messages", !.messages = msgs]
    BY <1>3 DEF msgs
  <2> QED BY <2>1 DEF NoLookup
<1>8. LookupFits'
  <2>1. lookup'.kind = "messages" /\ lookup'.query = NoKey /\ lookup'.chat = <<>>
    BY <1>7
  <2> QED BY <2>1 DEF LookupFits
<1>9. <<>> \in Seq(Chat)
  BY EmptySeq
<1> QED BY <1>1, <1>5, <1>6, <1>7, <1>8, <1>9, AskedKeeps

LEMMA SearchStarts ==
  ASSUME SearchInit
  PROVE  SearchInv
<1>1. <<>> \in Seq(TgRow) /\ Len(<<>>) = 0
  BY EmptySeq
<1>2. SearchTyped
  BY <1>1, NoLookupFits, NoAnswerFits, SearchAssumption
     DEF SearchInit, SearchTyped, SearchTypeOK, AnswerFields
<1>3. LookupFits
  BY NoLookupFits DEF SearchInit, LookupFits
<1>4. AnswersMatch
  <2>1. FreshIsFound
    BY NoAnswerFits DEF SearchInit, FreshIsFound
  <2>2. \A p \in answer.posted \cup answer.within : FALSE
    BY NoAnswerFits DEF SearchInit
  <2> QED BY <2>1, <2>2 DEF MessagesInTheirChat, AnswersMatch
<1>5. RowsTrue(rows) /\ \A e \in Entities : holds[e] \in held[e]
  BY DEF SearchInit, RowsTrue, OneRowOf
<1> QED BY <1>2, <1>3, <1>4, <1>5 DEF SearchInv

LEMMA SearchKept ==
  ASSUME SearchInv, [SearchNext]_searchVars
  PROVE  SearchInv'
<1>1. CASE FinishSearch
  BY <1>1, FinishKeeps
<1>2. CASE AskMessages
  BY <1>2, AskMessagesKeeps
<1>3. ASSUME NEW e \in Entities, NEW h \in Handles \cup {NoKey}, Rename(e, h)
      PROVE  SearchInv'
  BY <1>3, RenameKeeps DEF Usernames
<1>4. ASSUME NEW k \in Kinds, NEW q \in Entities \cup Handles, Ask(k, q)
      PROVE  SearchInv'
  BY <1>4, AskKeeps
<1>5. CASE UNCHANGED searchVars
  <2>1. /\ type' = type /\ holds' = holds /\ held' = held /\ rows' = rows /\ lookup' = lookup
        /\ answer' = answer
    BY <1>5 DEF searchVars
  <2>2. SearchTyped' /\ LookupFits'
    BY <2>1 DEF SearchInv, SearchTyped, SearchTypeOK, LookupFits, Serves
  <2>3. RowsTrue(rows)' /\ (\A e \in Entities : holds[e] \in held[e])'
    BY <2>1 DEF SearchInv, RowsTrue, OneRowOf, Fresh, Faithful
  <2>4. AnswersMatch'
    BY <2>1 DEF SearchInv, AnswersMatch, FreshIsFound, MessagesInTheirChat, Matching, ByName
  <2> QED BY <2>2, <2>3, <2>4 DEF SearchInv
<1> QED BY <1>1, <1>2, <1>3, <1>4, <1>5 DEF SearchNext
=============================================================================
