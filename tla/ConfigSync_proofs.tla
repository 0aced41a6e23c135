-------------------------- MODULE ConfigSync_proofs --------------------------
(***************************************************************************)
(* What the agent's table of configurations keeps, for any number of       *)
(* configurations and packets, whichever of them get lost, come twice or   *)
(* late.                                                                   *)
(***************************************************************************)
EXTENDS ConfigSync, TLAPS, SequenceTheorems, WellFoundedInduction

-----------------------------------------------------------------------------
(***************************************************************************)
(* Induction: no set that lacks a number lacks a first one.                *)
(***************************************************************************)
Less == {ss \in Nat \X Nat : ss[1] < ss[2]}

LEMMA LessWellFounded == IsWellFoundedOn(Less, Nat)
BY NatLessThanWellFounded DEF OpToRel, Less

LEMMA Induction ==
  ASSUME NEW T, \A n \in Nat : (\A m \in Nat : m < n => m \in T) => n \in T
  PROVE  Nat \subseteq T
<1> SUFFICES ASSUME Nat \ T # {} PROVE FALSE
  OBVIOUS
<1>1. PICK x \in Nat \ T : \A y \in Nat \ T : ~ (<<y, x>> \in Less)
  BY LessWellFounded, WFMin
<1>2. \A y \in Nat : y < x => y \in T
  BY <1>1 DEF Less
<1> QED BY <1>1, <1>2

-----------------------------------------------------------------------------
(***************************************************************************)
(* Picked: the elements at some places, in their order.                    *)
(***************************************************************************)
Picks(s, K, n, g) ==
  g = [m \in 0 .. n |-> IF m = 0 THEN <<>>
                        ELSE IF m \in K THEN Append(g[m - 1], s[m]) ELSE g[m - 1]]

LEMMA PicksExist ==
  ASSUME NEW s, NEW K, NEW n \in Nat
  PROVE  \E g : Picks(s, K, n, g)
<1> DEFINE T == {m \in Nat : \E g : Picks(s, K, m, g)}
<1>1. ASSUME NEW m \in Nat, \A i \in Nat : i < m => i \in T PROVE m \in T
  <2>1. CASE m = 0
    <3> DEFINE g == [i \in 0 .. 0 |-> <<>>]
    <3>1. Picks(s, K, 0, g)
      BY DEF Picks
    <3> QED BY <2>1, <3>1
  <2>2. CASE m # 0
    <3>1. m - 1 \in Nat /\ m - 1 < m
      BY <2>2
    <3>2. PICK g : Picks(s, K, m - 1, g)
      BY <1>1, <3>1
    <3> DEFINE h == [i \in 0 .. m |-> IF i < m THEN g[i]
                                      ELSE IF m \in K THEN Append(g[m - 1], s[m]) ELSE g[m - 1]]
    <3>3. \A i \in 0 .. m - 1 : g[i] = IF i = 0 THEN <<>>
                                       ELSE IF i \in K THEN Append(g[i - 1], s[i]) ELSE g[i - 1]
      BY <3>2 DEF Picks
    <3>4. \A i \in 0 .. m - 1 : h[i] = g[i]
      BY <3>1
    <3>5. h[m] = IF m \in K THEN Append(h[m - 1], s[m]) ELSE h[m - 1]
      BY <2>2, <3>1, <3>4
    <3>6. \A i \in 0 .. m : h[i] = IF i = 0 THEN <<>>
                                   ELSE IF i \in K THEN Append(h[i - 1], s[i]) ELSE h[i - 1]
      <4> SUFFICES ASSUME NEW i \in 0 .. m
                   PROVE  h[i] = IF i = 0 THEN <<>>
                                 ELSE IF i \in K THEN Append(h[i - 1], s[i]) ELSE h[i - 1]
        OBVIOUS
      <4> HIDE DEF h
      <4>1. CASE i = m
        BY <2>2, <3>5, <4>1
      <4>2. CASE i = 0
        BY <2>2, <3>1, <3>3, <3>4, <4>2
      <4>3. CASE i # m /\ i # 0
        <5>1. i \in 0 .. m - 1 /\ i - 1 \in 0 .. m - 1
          BY <4>3
        <5> QED BY <3>3, <3>4, <4>3, <5>1
      <4> QED BY <4>1, <4>2, <4>3
    <3>7. Picks(s, K, m, h)
      BY <3>6 DEF Picks
    <3> QED BY <3>7
  <2> QED BY <2>1, <2>2
<1> HIDE DEF T
<1>2. Nat \subseteq T
  BY <1>1, Induction
<1> QED BY <1>2 DEF T

(* The places that stay, in their order. *)
Embeds(f, t, s, K, n) ==
  /\ f \in [DOMAIN t -> 1 .. n]
  /\ \A i \in DOMAIN t : f[i] \in K /\ t[i] = s[f[i]]
  /\ \A i, k \in DOMAIN t : i < k => f[i] < f[k]

LEMMA PicksValue ==
  ASSUME NEW S, NEW s \in Seq(S), NEW K, NEW g, Picks(s, K, Len(s), g)
  PROVE  \A n \in 0 .. Len(s) : g[n] \in Seq(S) /\ \E f : Embeds(f, g[n], s, K, n)
<1> DEFINE T == {m \in Nat : m <= Len(s) => g[m] \in Seq(S) /\ \E f : Embeds(f, g[m], s, K, m)}
<1>0. \A m \in 0 .. Len(s) : g[m] = IF m = 0 THEN <<>>
                                     ELSE IF m \in K THEN Append(g[m - 1], s[m]) ELSE g[m - 1]
  BY DEF Picks
<1>1. ASSUME NEW m \in Nat, \A i \in Nat : i < m => i \in T PROVE m \in T
  <2> SUFFICES ASSUME m <= Len(s) PROVE g[m] \in Seq(S) /\ \E f : Embeds(f, g[m], s, K, m)
    OBVIOUS
  <2>1. CASE m = 0
    <3>1. g[m] = <<>>
      BY <1>0, <2>1
    <3>2. Embeds([i \in {} |-> 1], <<>>, s, K, m)
      BY DEF Embeds
    <3> QED BY <3>1, <3>2
  <2>2. CASE m # 0
    <3>1. m - 1 \in Nat /\ m - 1 < m /\ m \in 0 .. Len(s) /\ m \in 1 .. Len(s) /\ s[m] \in S
      BY <2>2
    <3>2. g[m - 1] \in Seq(S) /\ \E f : Embeds(f, g[m - 1], s, K, m - 1)
      BY <1>1, <3>1
    <3>3. PICK f : Embeds(f, g[m - 1], s, K, m - 1)
      BY <3>2
    <3>4. PICK u \in Seq(S) : u = g[m - 1]
      BY <3>2
    <3>5. g[m] = IF m \in K THEN Append(u, s[m]) ELSE u
      BY <1>0, <2>2, <3>1, <3>4
    <3>6. CASE m \notin K
      <4>1. Embeds(f, u, s, K, m)
        BY <3>1, <3>3, <3>4 DEF Embeds
      <4> QED BY <3>4, <3>5, <3>6, <4>1
    <3>7. CASE m \in K
      <4>1. PICK k \in Nat : k = Len(u)
        OBVIOUS
      <4>2. DOMAIN u = 1 .. k /\ f \in [1 .. k -> 1 .. m - 1]
        BY <3>3, <3>4, <4>1 DEF Embeds
      <4>e. PICK e \in S : e = s[m]
        BY <3>1
      <4>a. Append(u, e) \in Seq(S)
        BY AppendProperties
      <4>3. PICK v \in Seq(S) : v = Append(u, e)
        BY <4>a
      <4>4. DOMAIN v = 1 .. k + 1 /\ v[k + 1] = s[m] /\ \A i \in 1 .. k : v[i] = u[i]
        BY <4>1, <4>3, <4>e
      <4> DEFINE h == [i \in 1 .. k + 1 |-> IF i = k + 1 THEN m ELSE f[i]]
      <4>5. h \in [1 .. k + 1 -> 1 .. m]
        BY <3>1, <4>2
      <4>6. \A i \in 1 .. k + 1 : h[i] \in K /\ v[i] = s[h[i]]
        <5> SUFFICES ASSUME NEW i \in 1 .. k + 1 PROVE h[i] \in K /\ v[i] = s[h[i]]
          OBVIOUS
        <5>1. CASE i = k + 1
          BY <3>7, <4>4, <5>1
        <5>2. CASE i # k + 1
          <6>1. i \in 1 .. k /\ h[i] = f[i] /\ v[i] = u[i]
            BY <4>4, <5>2
          <6>2. f[i] \in K /\ u[i] = s[f[i]]
            BY <3>3, <3>4, <4>2, <6>1 DEF Embeds
          <6> QED BY <6>1, <6>2
        <5> QED BY <5>1, <5>2
      <4>7. \A i, l \in 1 .. k + 1 : i < l => h[i] < h[l]
        <5> SUFFICES ASSUME NEW i \in 1 .. k + 1, NEW l \in 1 .. k + 1, i < l PROVE h[i] < h[l]
          OBVIOUS
        <5>1. i \in 1 .. k /\ h[i] = f[i] /\ f[i] \in 1 .. m - 1
          BY <4>2
        <5>2. CASE l = k + 1
          BY <5>1, <5>2, <3>1
        <5>3. CASE l # k + 1
          <6>1. l \in 1 .. k /\ h[l] = f[l]
            BY <5>3
          <6>2. f[i] < f[l]
            BY <3>3, <3>4, <4>2, <5>1, <6>1 DEF Embeds
          <6> QED BY <5>1, <6>1, <6>2
        <5> QED BY <5>2, <5>3
      <4>8. Embeds(h, v, s, K, m)
        BY <4>4, <4>5, <4>6, <4>7 DEF Embeds
      <4> QED BY <3>5, <3>7, <4>3, <4>8, <4>e
    <3> QED BY <3>6, <3>7
  <2> QED BY <2>1, <2>2
<1> HIDE DEF T
<1>2. Nat \subseteq T
  BY <1>1, Induction
<1> QED BY <1>2 DEF T

LEMMA PickedValue ==
  ASSUME NEW S, NEW s \in Seq(S), NEW K
  PROVE  Picked(s, K) \in Seq(S) /\ \E f : Embeds(f, Picked(s, K), s, K, Len(s))
<1> DEFINE g == CHOOSE p : Picks(s, K, Len(s), p)
<1>1. Picks(s, K, Len(s), g)
  <2>0. PICK n \in Nat : n = Len(s)
    OBVIOUS
  <2>1. \E p : Picks(s, K, n, p)
    BY PicksExist
  <2> QED BY <2>0, <2>1
<1>2. Picked(s, K) = g[Len(s)]
  BY DEF Picked, Picks
<1> HIDE DEF g
<1>3. Len(s) \in 0 .. Len(s)
  OBVIOUS
<1>4. g[Len(s)] \in Seq(S) /\ \E f : Embeds(f, g[Len(s)], s, K, Len(s))
  BY <1>1, <1>3, PicksValue
<1> QED BY <1>2, <1>4

-----------------------------------------------------------------------------
(***************************************************************************)
(* Bsearch finds what is there.                                            *)
(***************************************************************************)
Ordered(t)  == \A i, k \in DOMAIN t : i < k => t[i].id < t[k].id
Distinct(t) == \A i, k \in DOMAIN t : t[i].id = t[k].id => i = k

Finds(t, id, n, f) == f = [part \in (1 .. n + 1) \X (0 .. n) |-> BsearchStep(t, id, f, part[1], part[2])]

LEMMA EntryIds ==
  ASSUME NEW t \in Seq(Entries), NEW i \in 1 .. Len(t)
  PROVE  t[i] \in Entries /\ t[i].id \in Nat /\ t[i].id \in Ids /\ t[i].seq \in 1 .. MaxSeq
<1>1. t[i] \in Entries
  OBVIOUS
<1> QED BY <1>1, ConfigSizes DEF Entries

LEMMA Middle ==
  ASSUME NEW n \in Nat, NEW lo \in 1 .. n + 1, NEW hi \in 0 .. n, lo <= hi
  PROVE  /\ (lo + hi) \div 2 \in lo .. hi /\ (lo + hi) \div 2 \in 1 .. n
         /\ (lo + hi) \div 2 - 1 \in 0 .. n /\ (lo + hi) \div 2 + 1 \in 1 .. n + 1
<1>1. lo \in Nat /\ hi \in Nat /\ lo >= 1 /\ hi <= n
  OBVIOUS
<1> QED BY <1>1

LEMMA Beside ==
  ASSUME NEW t \in Seq(Entries), Ordered(t), NEW i \in 1 .. Len(t), NEW k \in 1 .. Len(t), i <= k
  PROVE  t[i].id <= t[k].id
<1>1. t[i].id \in Nat /\ t[k].id \in Nat /\ DOMAIN t = 1 .. Len(t)
  BY EntryIds
<1>2. CASE i = k
  BY <1>1, <1>2
<1>3. CASE i < k
  <2>1. t[i].id < t[k].id
    BY <1>1, <1>3 DEF Ordered
  <2> QED BY <1>1, <2>1
<1> QED BY <1>2, <1>3

LEMMA Halves ==
  ASSUME NEW t, NEW id \in Nat, NEW f, NEW lo \in Int, NEW hi \in Int, lo <= hi,
         NEW mid \in Int, mid = (lo + hi) \div 2, t[mid].id \in Nat
  PROVE  /\ t[mid].id = id => BsearchStep(t, id, f, lo, hi) = mid
         /\ t[mid].id > id => BsearchStep(t, id, f, lo, hi) = f[<<lo, mid - 1>>]
         /\ t[mid].id < id => BsearchStep(t, id, f, lo, hi) = f[<<mid + 1, hi>>]
<1>1. ASSUME t[mid].id > id PROVE BsearchStep(t, id, f, lo, hi) = f[<<lo, mid - 1>>]
  <2>1. ~(lo > hi) /\ ~(t[mid].id = id) /\ ~(t[mid].id < id)
    BY <1>1
  <2> QED BY <1>1, <2>1 DEF BsearchStep
<1>2. ASSUME t[mid].id < id PROVE BsearchStep(t, id, f, lo, hi) = f[<<mid + 1, hi>>]
  <2>1. ~(lo > hi) /\ ~(t[mid].id = id) /\ ~(t[mid].id > id)
    BY <1>2
  <2> QED BY <1>2, <2>1 DEF BsearchStep
<1>3. ASSUME t[mid].id = id PROVE BsearchStep(t, id, f, lo, hi) = mid
  <2>1. ~(lo > hi)
    OBVIOUS
  <2> QED BY <1>3, <2>1 DEF BsearchStep
<1> QED BY <1>1, <1>2, <1>3

(* The search of the parts is well defined: the place of the id satisfies its equation. *)
LEMMA FindsExists ==
  ASSUME NEW t \in Seq(Entries), Ordered(t), NEW id \in Nat, NEW n \in Nat, n = Len(t)
  PROVE  \E f : Finds(t, id, n, f)
<1> DEFINE In(lo, hi) == \E i \in lo .. hi : t[i].id = id
           P(lo, hi) == IF In(lo, hi) THEN CHOOSE i \in lo .. hi : t[i].id = id ELSE 0
           f == [part \in (1 .. n + 1) \X (0 .. n) |-> P(part[1], part[2])]
<1>0. \A i \in 1 .. n : t[i].id \in Nat
  BY EntryIds
<1>o. \A i, k \in 1 .. n : i < k => t[i].id < t[k].id
  <2>1. DOMAIN t = 1 .. n
    OBVIOUS
  <2> QED BY <2>1 DEF Ordered
<1>1. ASSUME NEW lo \in 1 .. n + 1, NEW hi \in 0 .. n, NEW i \in lo .. hi, t[i].id = id PROVE P(lo, hi) = i
  <2>1. \A k \in lo .. hi : t[k].id = id => k = i
    <3> SUFFICES ASSUME NEW k \in lo .. hi, t[k].id = id, k # i PROVE FALSE
      OBVIOUS
    <3>1. k \in 1 .. n /\ i \in 1 .. n
      OBVIOUS
    <3>2. k < i \/ i < k
      BY <3>1
    <3> QED BY <1>0, <1>o, <1>1, <3>1, <3>2
  <2> QED BY <1>1, <2>1
<1>2. ASSUME NEW lo \in 1 .. n + 1, NEW hi \in 0 .. n PROVE f[<<lo, hi>>] = BsearchStep(t, id, f, lo, hi)
  <2>0. f[<<lo, hi>>] = P(lo, hi)
    OBVIOUS
  <2>1. CASE lo > hi
    <3>1. ~In(lo, hi)
      BY <2>1
    <3> QED BY <2>0, <2>1, <3>1 DEF BsearchStep
  <2>2. CASE lo <= hi
    <3>1. PICK mid \in lo .. hi : mid = (lo + hi) \div 2 /\ mid \in 1 .. n /\ mid - 1 \in 0 .. n /\ mid + 1 \in 1 .. n + 1
      BY <2>2, Middle
    <3>2. t[mid].id \in Nat
      BY <1>0, <3>1
    <3>h. /\ t[mid].id = id => BsearchStep(t, id, f, lo, hi) = mid
          /\ t[mid].id > id => BsearchStep(t, id, f, lo, hi) = f[<<lo, mid - 1>>]
          /\ t[mid].id < id => BsearchStep(t, id, f, lo, hi) = f[<<mid + 1, hi>>]
      <4>1. lo \in Int /\ hi \in Int /\ mid \in Int /\ mid = (lo + hi) \div 2
        BY <3>1
      <4>2. PICK g : g = f
        OBVIOUS
      <4>3. /\ t[mid].id = id => BsearchStep(t, id, g, lo, hi) = mid
            /\ t[mid].id > id => BsearchStep(t, id, g, lo, hi) = g[<<lo, mid - 1>>]
            /\ t[mid].id < id => BsearchStep(t, id, g, lo, hi) = g[<<mid + 1, hi>>]
        BY ONLY <2>2, <3>2, <4>1, id \in Nat, Halves
      <4> HIDE DEF f
      <4> QED BY <4>2, <4>3
    <3>3. CASE t[mid].id = id
      <4>1. P(lo, hi) = mid
        <5> HIDE DEF P
        <5> QED BY <1>1, <3>1, <3>3
      <4>2. BsearchStep(t, id, f, lo, hi) = mid
        <5> HIDE DEF f
        <5> QED BY <3>3, <3>h
      <4> QED BY <2>0, <4>1, <4>2
    <3>4. CASE t[mid].id > id
      <4>1. BsearchStep(t, id, f, lo, hi) = f[<<lo, mid - 1>>]
        <5> HIDE DEF f
        <5> QED BY <3>4, <3>h
      <4>2. f[<<lo, mid - 1>>] = P(lo, mid - 1)
        BY <3>1
      <4>3. \A i \in mid .. hi : t[i].id # id
        <5> SUFFICES ASSUME NEW i \in mid .. hi, t[i].id = id PROVE FALSE
          OBVIOUS
        <5>1. i \in 1 .. n /\ mid \in 1 .. n /\ mid <= i
          BY <3>1
        <5>2. t[mid].id <= t[i].id
          BY <5>1, Beside
        <5> QED BY <1>0, <3>4, <5>1, <5>2
      <4>4. CASE In(lo, hi)
        <5>1. PICK i \in lo .. hi : t[i].id = id
          BY <4>4
        <5>2. i \in lo .. mid - 1
          BY <3>1, <4>3, <5>1
        <5>3. P(lo, hi) = i /\ P(lo, mid - 1) = i
          BY <1>1, <3>1, <5>1, <5>2
        <5> QED BY <2>0, <4>1, <4>2, <5>3
      <4>5. CASE ~In(lo, hi)
        <5>1. ~In(lo, mid - 1)
          BY <3>1, <4>5
        <5> QED BY <2>0, <4>1, <4>2, <4>5, <5>1
      <4> QED BY <4>4, <4>5
    <3>5. CASE t[mid].id < id
      <4>1. BsearchStep(t, id, f, lo, hi) = f[<<mid + 1, hi>>]
        <5> HIDE DEF f
        <5> QED BY <3>5, <3>h
      <4>2. f[<<mid + 1, hi>>] = P(mid + 1, hi)
        BY <3>1
      <4>3. \A i \in lo .. mid : t[i].id # id
        <5> SUFFICES ASSUME NEW i \in lo .. mid, t[i].id = id PROVE FALSE
          OBVIOUS
        <5>1. i \in 1 .. n /\ mid \in 1 .. n /\ i <= mid
          BY <3>1
        <5>2. t[i].id <= t[mid].id
          BY <5>1, Beside
        <5> QED BY <1>0, <3>5, <5>1, <5>2
      <4>4. CASE In(lo, hi)
        <5>1. PICK i \in lo .. hi : t[i].id = id
          BY <4>4
        <5>2. i \in mid + 1 .. hi
          BY <3>1, <4>3, <5>1
        <5>3. P(lo, hi) = i /\ P(mid + 1, hi) = i
          BY <1>1, <3>1, <5>1, <5>2
        <5> QED BY <2>0, <4>1, <4>2, <5>3
      <4>5. CASE ~In(lo, hi)
        <5>1. ~In(mid + 1, hi)
          BY <3>1, <4>5
        <5> QED BY <2>0, <4>1, <4>2, <4>5, <5>1
      <4> QED BY <4>4, <4>5
    <3> QED BY <3>2, <3>3, <3>4, <3>5
  <2> QED BY <2>1, <2>2
<1>3. \A part \in (1 .. n + 1) \X (0 .. n) : f[part] = BsearchStep(t, id, f, part[1], part[2])
  <2> SUFFICES ASSUME NEW part \in (1 .. n + 1) \X (0 .. n)
               PROVE  f[part] = BsearchStep(t, id, f, part[1], part[2])
    OBVIOUS
  <2>1. PICK lo \in 1 .. n + 1, hi \in 0 .. n : part = <<lo, hi>>
    OBVIOUS
  <2> HIDE DEF f
  <2> QED BY <1>2, <2>1
<1>4. f = [part \in (1 .. n + 1) \X (0 .. n) |-> f[part]]
  OBVIOUS
<1>5. Finds(t, id, n, f)
  <2> HIDE DEF f
  <2> QED BY <1>3, <1>4 DEF Finds
<1> QED BY <1>5

LEMMA FindsValue ==
  ASSUME NEW t \in Seq(Entries), Ordered(t), NEW id \in Nat, NEW n \in Nat, n = Len(t),
         NEW f, Finds(t, id, n, f), NEW lo \in 1 .. n + 1, NEW hi \in 0 .. n
  PROVE  /\ f[<<lo, hi>>] \in 0 .. n
         /\ f[<<lo, hi>>] # 0 => t[f[<<lo, hi>>]].id = id
         /\ (\E i \in lo .. hi : t[i].id = id) => f[<<lo, hi>>] # 0
<1> DEFINE Good(l, h) == /\ f[<<l, h>>] \in 0 .. n
                         /\ f[<<l, h>>] # 0 => t[f[<<l, h>>]].id = id
                         /\ (\E i \in l .. h : t[i].id = id) => f[<<l, h>>] # 0
           T == {w \in Nat : \A l \in 1 .. n + 1, h \in 0 .. n : h - l < w => Good(l, h)}
<1>0. \A i \in 1 .. n : t[i].id \in Nat
  BY EntryIds
<1>1. \A l \in 1 .. n + 1, h \in 0 .. n : f[<<l, h>>] = BsearchStep(t, id, f, l, h)
  <2> SUFFICES ASSUME NEW l \in 1 .. n + 1, NEW h \in 0 .. n PROVE f[<<l, h>>] = BsearchStep(t, id, f, l, h)
    OBVIOUS
  <2>1. PICK part \in (1 .. n + 1) \X (0 .. n) : part = <<l, h>>
    OBVIOUS
  <2>2. f[part] = BsearchStep(t, id, f, part[1], part[2])
    BY DEF Finds
  <2> QED BY <2>1, <2>2
<1>2. ASSUME NEW w \in Nat, \A v \in Nat : v < w => v \in T PROVE w \in T
  <2> SUFFICES ASSUME NEW l \in 1 .. n + 1, NEW h \in 0 .. n, h - l < w PROVE Good(l, h)
    OBVIOUS
  <2>0. f[<<l, h>>] = BsearchStep(t, id, f, l, h)
    BY <1>1
  <2>1. CASE l > h
    <3>1. f[<<l, h>>] = 0
      BY <2>0, <2>1 DEF BsearchStep
    <3> QED BY <2>1, <3>1
  <2>2. CASE l <= h
    <3>1. PICK mid \in l .. h : mid = (l + h) \div 2 /\ mid \in 1 .. n /\ mid - 1 \in 0 .. n /\ mid + 1 \in 1 .. n + 1
      BY <2>2, Middle
    <3>2. t[mid].id \in Nat /\ w - 1 \in Nat /\ w - 1 < w
      BY <1>0, <2>2, <3>1
    <3>h. /\ t[mid].id = id => BsearchStep(t, id, f, l, h) = mid
          /\ t[mid].id > id => BsearchStep(t, id, f, l, h) = f[<<l, mid - 1>>]
          /\ t[mid].id < id => BsearchStep(t, id, f, l, h) = f[<<mid + 1, h>>]
      <4>1. l \in Int /\ h \in Int /\ mid \in Int /\ mid = (l + h) \div 2
        BY <3>1
      <4> QED BY ONLY <2>2, <3>2, <4>1, id \in Nat, Halves
    <3>3. CASE t[mid].id = id
      <4>1. f[<<l, h>>] = mid
        BY <2>0, <3>3, <3>h
      <4>2. mid \in 0 .. n /\ mid # 0
        BY <3>1
      <4> QED BY <3>3, <4>1, <4>2
    <3>4. CASE t[mid].id > id
      <4>1. f[<<l, h>>] = f[<<l, mid - 1>>]
        <5>1. BsearchStep(t, id, f, l, h) = f[<<l, mid - 1>>]
          BY <3>h, <3>4
        <5> QED BY <2>0, <5>1
      <4>2. Good(l, mid - 1)
        <5>1. mid - 1 - l < w - 1
          BY <3>1
        <5>2. w - 1 \in T
          BY <1>2, <3>2
        <5> QED BY <3>1, <5>1, <5>2
      <4>3. \A i \in mid .. h : t[i].id # id
        <5> SUFFICES ASSUME NEW i \in mid .. h, t[i].id = id PROVE FALSE
          OBVIOUS
        <5>1. i \in 1 .. n /\ mid \in 1 .. n /\ mid <= i
          BY <3>1
        <5>2. t[mid].id <= t[i].id
          BY <5>1, Beside
        <5> QED BY <1>0, <3>4, <5>1, <5>2
      <4>4. (\E i \in l .. h : t[i].id = id) => (\E i \in l .. mid - 1 : t[i].id = id)
        <5> SUFFICES ASSUME NEW i \in l .. h, t[i].id = id PROVE \E k \in l .. mid - 1 : t[k].id = id
          OBVIOUS
        <5>1. i \notin mid .. h
          BY <4>3
        <5>2. i \in l .. mid - 1
          BY <3>1, <5>1
        <5> QED BY <5>2
      <4> QED BY <4>1, <4>2, <4>4
    <3>5. CASE t[mid].id < id
      <4>1. f[<<l, h>>] = f[<<mid + 1, h>>]
        <5>1. BsearchStep(t, id, f, l, h) = f[<<mid + 1, h>>]
          BY <3>h, <3>5
        <5> QED BY <2>0, <5>1
      <4>2. Good(mid + 1, h)
        <5>1. h - (mid + 1) < w - 1
          BY <3>1
        <5>2. w - 1 \in T
          BY <1>2, <3>2
        <5> QED BY <3>1, <5>1, <5>2
      <4>3. \A i \in l .. mid : t[i].id # id
        <5> SUFFICES ASSUME NEW i \in l .. mid, t[i].id = id PROVE FALSE
          OBVIOUS
        <5>1. i \in 1 .. n /\ mid \in 1 .. n /\ i <= mid
          BY <3>1
        <5>2. t[i].id <= t[mid].id
          BY <5>1, Beside
        <5> QED BY <1>0, <3>5, <5>1, <5>2
      <4>4. (\E i \in l .. h : t[i].id = id) => (\E i \in mid + 1 .. h : t[i].id = id)
        BY <3>1, <4>3
      <4> QED BY <4>1, <4>2, <4>4
    <3> QED BY <3>2, <3>3, <3>4, <3>5
  <2> QED BY <2>1, <2>2
<1> HIDE DEF T
<1>3. Nat \subseteq T
  BY <1>2, Induction
<1>4. n + 1 \in T
  BY <1>3
<1>5. Good(lo, hi)
  <2>1. hi - lo < n + 1
    OBVIOUS
  <2> QED BY <1>4, <2>1 DEF T
<1> QED BY <1>5

(* bsearch on a sorted table: what it finds has the id, and it finds what is there. *)
LEMMA BsearchValue ==
  ASSUME NEW t \in Seq(Entries), Ordered(t), NEW id \in Ids
  PROVE  /\ Bsearch(t, id) \in 0 .. Len(t)
         /\ Bsearch(t, id) # 0 => t[Bsearch(t, id)].id = id
         /\ (\E i \in DOMAIN t : t[i].id = id) => Bsearch(t, id) # 0
<1>0. PICK n \in Nat : n = Len(t)
  OBVIOUS
<1>i. id \in Nat
  BY ConfigSizes
<1> DEFINE f == CHOOSE g : Finds(t, id, n, g)
<1>1. Finds(t, id, n, f)
  <2>1. \E g : Finds(t, id, n, g)
    BY <1>0, <1>i, FindsExists
  <2> QED BY <2>1
<1>2. Bsearch(t, id) = f[<<1, n>>]
  BY <1>0 DEF Bsearch, Finds
<1> HIDE DEF f
<1>3. 1 \in 1 .. n + 1 /\ n \in 0 .. n
  OBVIOUS
<1>4. /\ f[<<1, n>>] \in 0 .. n
      /\ f[<<1, n>>] # 0 => t[f[<<1, n>>]].id = id
      /\ (\E i \in 1 .. n : t[i].id = id) => f[<<1, n>>] # 0
  BY <1>0, <1>1, <1>3, <1>i, FindsValue
<1>5. DOMAIN t = 1 .. n
  BY <1>0
<1> QED BY <1>0, <1>2, <1>4, <1>5

-----------------------------------------------------------------------------
(***************************************************************************)
(* Qsort after an addition.                                                *)
(***************************************************************************)
LEMMA Least ==
  ASSUME NEW T, T \subseteq Nat, T # {}
  PROVE  \E x \in T : \A y \in T : x <= y
<1>1. PICK x \in T : \A y \in T : ~ (<<y, x>> \in Less)
  BY LessWellFounded, WFMin
<1>2. \A y \in T : ~(y < x)
  BY <1>1 DEF Less
<1> QED BY <1>2

Places(u, n, f) ==
  /\ f \in Bijection(1 .. n + 1, 1 .. n + 1)
  /\ \A i, k \in 1 .. n + 1 : i < k => u[f[i]].id <= u[f[k]].id

(* The order of a table with one more configuration. *)
LEMMA PlaceExists ==
  ASSUME NEW t \in Seq(Entries), Ordered(t), NEW n \in Nat, n = Len(t),
         NEW e \in Entries, \A i \in 1 .. n : t[i].id # e.id,
         NEW u, u = Append(t, e)
  PROVE  \E f : Places(u, n, f)
<1>0. (\A i \in 1 .. n : t[i].id \in Nat) /\ e.id \in Nat
  <2>1. e.id \in Nat
    BY ConfigSizes DEF Entries
  <2> QED BY <2>1, EntryIds
<1>1. u[n + 1] = e /\ \A i \in 1 .. n : u[i] = t[i]
  OBVIOUS
<1> DEFINE T == {i \in 1 .. n + 1 : i <= n => t[i].id > e.id}
<1>2. PICK q \in T : \A i \in T : q <= i
  <2>1. n + 1 \in T
    OBVIOUS
  <2>2. T \subseteq Nat
    OBVIOUS
  <2> HIDE DEF T
  <2> QED BY <2>1, <2>2, Least
<1>3. q \in 1 .. n + 1
  OBVIOUS
<1>4. \A i \in 1 .. n : i < q => t[i].id < e.id
  BY <1>0, <1>2
<1>5. \A i \in 1 .. n : i >= q => t[i].id > e.id
  <2> SUFFICES ASSUME NEW i \in 1 .. n, i >= q PROVE t[i].id > e.id
    OBVIOUS
  <2>1. q \in 1 .. n /\ t[q].id > e.id
    BY <1>2
  <2>2. CASE i = q
    BY <2>1, <2>2
  <2>3. CASE i # q
    <3>1. t[q].id < t[i].id
      BY <2>1, <2>3 DEF Ordered
    <3> QED BY <1>0, <2>1, <3>1
  <2> QED BY <2>2, <2>3
<1> HIDE DEF T
<1> DEFINE f == [i \in 1 .. n + 1 |-> IF i < q THEN i ELSE IF i = q THEN n + 1 ELSE i - 1]
<1>6. f \in [1 .. n + 1 -> 1 .. n + 1]
  BY <1>3
<1>7. \A i, k \in 1 .. n + 1 : f[i] = f[k] => i = k
  BY <1>3
<1>8. \A k \in 1 .. n + 1 : \E i \in 1 .. n + 1 : f[i] = k
  <2> SUFFICES ASSUME NEW k \in 1 .. n + 1 PROVE \E i \in 1 .. n + 1 : f[i] = k
    OBVIOUS
  <2>1. CASE k = n + 1
    BY <1>3, <2>1
  <2>2. CASE k < q /\ k # n + 1
    BY <2>2
  <2>3. CASE k >= q /\ k # n + 1
    <3>1. k + 1 \in 1 .. n + 1 /\ f[k + 1] = k
      BY <1>3, <2>3
    <3> QED BY <3>1
  <2> QED BY <1>3, <2>1, <2>2, <2>3
<1>9. f \in Bijection(1 .. n + 1, 1 .. n + 1)
  <2> HIDE DEF f
  <2> QED BY <1>6, <1>7, <1>8 DEF Bijection, Injection, Surjection, IsInjective
<1>10. ASSUME NEW i \in 1 .. n + 1, NEW k \in 1 .. n + 1, i < k PROVE u[f[i]].id <= u[f[k]].id
  <2>1. CASE k < q
    <3>1. i \in 1 .. n /\ k \in 1 .. n /\ f[i] = i /\ f[k] = k
      BY <1>3, <1>10, <2>1
    <3>2. t[i].id < t[k].id
      BY <1>10, <3>1 DEF Ordered
    <3> QED BY <1>0, <1>1, <3>1, <3>2
  <2>2. CASE k = q
    <3>1. i \in 1 .. n /\ f[i] = i /\ f[k] = n + 1 /\ i < q
      BY <1>3, <1>10, <2>2
    <3> QED BY <1>0, <1>1, <1>4, <3>1
  <2>3. CASE k > q
    <3>1. k - 1 \in 1 .. n /\ f[k] = k - 1 /\ k - 1 >= q
      BY <1>3, <2>3
    <3>2. CASE i = q
      <4>1. f[i] = n + 1
        BY <3>2
      <4> QED BY <1>0, <1>1, <1>5, <3>1, <4>1
    <3>3. CASE i # q
      <4>1. PICK m \in 1 .. n : m = f[i] /\ m < k - 1
        BY <1>3, <1>10, <2>3, <3>3
      <4>2. t[m].id < t[k - 1].id
        BY <3>1, <4>1 DEF Ordered
      <4>3. u[m] = t[m] /\ u[k - 1] = t[k - 1] /\ t[m].id \in Nat /\ t[k - 1].id \in Nat
        BY <1>0, <1>1, <3>1
      <4>4. u[m].id <= u[k - 1].id
        BY <4>2, <4>3
      <4> QED BY <3>1, <4>1, <4>4
    <3> QED BY <3>2, <3>3
  <2> QED BY <1>3, <2>1, <2>2, <2>3
<1> HIDE DEF f
<1>11. Places(u, n, f)
  BY <1>9, <1>10 DEF Places
<1> QED BY <1>11

LEMMA QsortValue ==
  ASSUME NEW t \in Seq(Entries), Ordered(t), NEW e \in Entries, e.id \notin IdsOf(t),
         NEW v, v = Qsort(Append(t, e))
  PROVE  /\ v \in Seq(Entries) /\ Len(v) = Len(t) + 1 /\ Ordered(v)
         /\ \A i \in DOMAIN v : v[i] = e \/ \E k \in DOMAIN t : v[i] = t[k]
         /\ IdsOf(v) = IdsOf(t) \cup {e.id}
<1>0. PICK n \in Nat : n = Len(t)
  OBVIOUS
<1>d. DOMAIN t = 1 .. n
  BY <1>0
<1>i. \A i \in 1 .. n : t[i].id # e.id
  BY <1>d DEF IdsOf
<1>1. PICK u \in Seq(Entries) : u = Append(t, e)
  BY AppendProperties
<1>2. DOMAIN u = 1 .. n + 1 /\ Len(u) = n + 1 /\ u[n + 1] = e /\ \A i \in 1 .. n : u[i] = t[i]
  BY <1>0, <1>1, AppendProperties
<1>3. \E f : Places(u, n, f)
  BY <1>0, <1>1, <1>i, PlaceExists
<1> DEFINE OK(f) == \A i, k \in 1 .. n + 1 : i < k => u[f[i]].id <= u[f[k]].id
           place == CHOOSE f \in Bijection(1 .. n + 1, 1 .. n + 1) : OK(f)
<1>p. \E f \in Bijection(1 .. n + 1, 1 .. n + 1) : OK(f)
  BY <1>3 DEF Places
<1>5. v = [i \in 1 .. n + 1 |-> u[place[i]]]
  BY <1>1, <1>2 DEF Qsort
<1> HIDE DEF OK
<1>4. place \in Bijection(1 .. n + 1, 1 .. n + 1) /\ OK(place)
  BY <1>p
<1> HIDE DEF place
<1>6. /\ place \in [1 .. n + 1 -> 1 .. n + 1]
      /\ \A i, k \in 1 .. n + 1 : place[i] = place[k] => i = k
      /\ \A k \in 1 .. n + 1 : \E i \in 1 .. n + 1 : place[i] = k
  BY <1>4 DEF Bijection, Injection, Surjection, IsInjective
<1>7. \A i \in 1 .. n + 1 : u[i] \in Entries /\ u[i].id \in Nat
  BY <1>2, EntryIds
<1>8. v \in Seq(Entries) /\ Len(v) = n + 1
  <2>1. v \in [1 .. n + 1 -> Entries]
    BY <1>5, <1>6, <1>7
  <2>2. n + 1 \in Nat
    OBVIOUS
  <2> QED BY <2>1, <2>2
<1>9. \A i, k \in 1 .. n + 1 : i # k => u[i].id # u[k].id
  <2> SUFFICES ASSUME NEW i \in 1 .. n + 1, NEW k \in 1 .. n + 1, i < k, u[i].id = u[k].id PROVE FALSE
    BY <1>7
  <2>1. i \in 1 .. n
    OBVIOUS
  <2>2. CASE k = n + 1
    BY <1>2, <1>i, <2>1, <2>2
  <2>3. CASE k # n + 1
    <3>1. k \in 1 .. n
      BY <2>3
    <3>2. t[i].id < t[k].id
      BY <1>d, <2>1, <3>1 DEF Ordered
    <3> QED BY <1>2, <1>7, <2>1, <3>1, <3>2
  <2> QED BY <2>2, <2>3
<1>10. Ordered(v)
  <2> SUFFICES ASSUME NEW i \in 1 .. n + 1, NEW k \in 1 .. n + 1, i < k PROVE v[i].id < v[k].id
    BY <1>5 DEF Ordered
  <2>1. place[i] \in 1 .. n + 1 /\ place[k] \in 1 .. n + 1 /\ place[i] # place[k]
    <3>1. i # k
      OBVIOUS
    <3> QED BY <1>6, <3>1
  <2>2. u[place[i]].id <= u[place[k]].id
    BY <1>4 DEF OK
  <2>3. u[place[i]].id # u[place[k]].id
    BY <1>9, <2>1
  <2> QED BY <1>5, <1>7, <2>1, <2>2, <2>3
<1>11. \A i \in DOMAIN v : v[i] = e \/ \E k \in DOMAIN t : v[i] = t[k]
  <2> SUFFICES ASSUME NEW i \in 1 .. n + 1 PROVE v[i] = e \/ \E k \in 1 .. n : v[i] = t[k]
    BY <1>5, <1>d
  <2>1. PICK k \in 1 .. n + 1 : k = place[i]
    BY <1>6
  <2>2. v[i] = u[k]
    BY <1>5, <2>1
  <2>3. CASE k = n + 1
    BY <1>2, <2>2, <2>3
  <2>4. CASE k # n + 1
    <3>1. k \in 1 .. n
      BY <2>4
    <3> QED BY <1>2, <2>2, <3>1
  <2> QED BY <2>3, <2>4
<1>12. \A k \in 1 .. n + 1 : \E i \in 1 .. n + 1 : v[i] = u[k]
  <2> SUFFICES ASSUME NEW k \in 1 .. n + 1 PROVE \E i \in 1 .. n + 1 : v[i] = u[k]
    OBVIOUS
  <2>1. PICK i \in 1 .. n + 1 : place[i] = k
    BY <1>6
  <2> QED BY <1>5, <2>1
<1>13. IdsOf(v) = IdsOf(t) \cup {e.id}
  <2>1. ASSUME NEW x \in IdsOf(v) PROVE x \in IdsOf(t) \cup {e.id}
    <3>1. PICK i \in DOMAIN v : x = v[i].id
      BY <2>1 DEF IdsOf
    <3> QED BY <1>11, <3>1 DEF IdsOf
  <2>2. ASSUME NEW x \in IdsOf(t) PROVE x \in IdsOf(v)
    <3>1. PICK k \in 1 .. n : x = t[k].id
      BY <1>d, <2>2 DEF IdsOf
    <3>2. k \in 1 .. n + 1 /\ u[k] = t[k]
      BY <1>2
    <3>3. PICK i \in 1 .. n + 1 : v[i] = u[k]
      BY <1>12, <3>2
    <3> QED BY <1>5, <3>1, <3>2, <3>3 DEF IdsOf
  <2>3. e.id \in IdsOf(v)
    <3>1. n + 1 \in 1 .. n + 1
      OBVIOUS
    <3>2. PICK i \in 1 .. n + 1 : v[i] = e
      BY <1>12, <1>2, <3>1
    <3> QED BY <1>5, <3>2 DEF IdsOf
  <2> QED BY <2>1, <2>2, <2>3
<1> QED BY <1>0, <1>8, <1>10, <1>11, <1>13

-----------------------------------------------------------------------------
(***************************************************************************)
(* The parts of tables and answers.                                        *)
(***************************************************************************)
LEMMA RemoveAtValue ==
  ASSUME NEW S, NEW t \in Seq(S), NEW i \in 1 .. Len(t)
  PROVE  /\ RemoveAt(t, i) \in Seq(S) /\ Len(RemoveAt(t, i)) = Len(t) - 1
         /\ \A k \in 1 .. Len(t) - 1 : RemoveAt(t, i)[k] = IF k < i THEN t[k] ELSE t[k + 1]
<1>0. PICK n \in Nat : n = Len(t)
  OBVIOUS
<1>1. \A k \in 1 .. n : t[k] \in S
  BY <1>0
<1>2. PICK a \in Seq(S) : a = SubSeq(t, 1, i - 1) /\ Len(a) = i - 1 /\ \A k \in 1 .. i - 1 : a[k] = t[k]
  <2>1. i - 1 \in Int /\ 1 \in Int /\ \A k \in 1 .. i - 1 : t[k] \in S
    BY <1>0, <1>1
  <2>2. /\ SubSeq(t, 1, i - 1) \in Seq(S)
        /\ Len(SubSeq(t, 1, i - 1)) = IF 1 <= i - 1 THEN i - 1 - 1 + 1 ELSE 0
        /\ \A k \in 1 .. i - 1 - 1 + 1 : SubSeq(t, 1, i - 1)[k] = t[1 + k - 1]
    BY ONLY <2>1, SubSeqProperties
  <2>3. Len(SubSeq(t, 1, i - 1)) = i - 1
    BY <1>0, <2>2
  <2>4. \A k \in 1 .. i - 1 : SubSeq(t, 1, i - 1)[k] = t[k]
    <3> SUFFICES ASSUME NEW k \in 1 .. i - 1 PROVE SubSeq(t, 1, i - 1)[k] = t[k]
      OBVIOUS
    <3>1. k \in 1 .. i - 1 - 1 + 1 /\ 1 + k - 1 = k
      BY <1>0
    <3> QED BY <2>2, <3>1
  <2> QED BY <2>2, <2>3, <2>4
<1>3. PICK b \in Seq(S) : b = SubSeq(t, i + 1, n) /\ Len(b) = n - i /\ \A k \in 1 .. n - i : b[k] = t[i + k]
  <2>1. i + 1 \in Int /\ n \in Int /\ \A k \in i + 1 .. n : t[k] \in S
    BY <1>0, <1>1
  <2>2. /\ SubSeq(t, i + 1, n) \in Seq(S)
        /\ Len(SubSeq(t, i + 1, n)) = IF i + 1 <= n THEN n - (i + 1) + 1 ELSE 0
        /\ \A k \in 1 .. n - (i + 1) + 1 : SubSeq(t, i + 1, n)[k] = t[i + 1 + k - 1]
    BY ONLY <2>1, SubSeqProperties
  <2>3. Len(SubSeq(t, i + 1, n)) = n - i
    BY <1>0, <2>2
  <2>4. \A k \in 1 .. n - i : SubSeq(t, i + 1, n)[k] = t[i + k]
    <3> SUFFICES ASSUME NEW k \in 1 .. n - i PROVE SubSeq(t, i + 1, n)[k] = t[i + k]
      OBVIOUS
    <3>1. k \in 1 .. n - (i + 1) + 1 /\ i + 1 + k - 1 = i + k
      BY <1>0
    <3> QED BY <2>2, <3>1
  <2> QED BY <2>2, <2>3, <2>4
<1>4. RemoveAt(t, i) = a \o b
  BY <1>0, <1>2, <1>3 DEF RemoveAt
<1>5. /\ a \o b \in Seq(S) /\ Len(a \o b) = Len(a) + Len(b)
      /\ \A k \in 1 .. Len(a) + Len(b) : (a \o b)[k] = IF k <= Len(a) THEN a[k] ELSE b[k - Len(a)]
  BY ONLY a \in Seq(S), b \in Seq(S), ConcatProperties
<1>6. Len(a) + Len(b) = n - 1
  <2>1. i \in Int /\ Len(a) = i - 1 /\ Len(b) = n - i
    BY <1>0, <1>2, <1>3
  <2> QED BY ONLY <2>1, n \in Nat
<1>7. \A k \in 1 .. n - 1 : (a \o b)[k] = IF k < i THEN t[k] ELSE t[k + 1]
  <2> SUFFICES ASSUME NEW k \in 1 .. n - 1 PROVE (a \o b)[k] = IF k < i THEN t[k] ELSE t[k + 1]
    OBVIOUS
  <2>1. (a \o b)[k] = IF k <= Len(a) THEN a[k] ELSE b[k - Len(a)]
    BY <1>5, <1>6
  <2>2. CASE k < i
    <3>1. k <= Len(a) /\ k \in 1 .. i - 1
      BY <1>0, <1>2, <2>2
    <3> QED BY <1>2, <2>1, <2>2, <3>1
  <2>3. CASE ~(k < i)
    <3>1. ~(k <= Len(a)) /\ k - Len(a) = k - i + 1 /\ k - i + 1 \in 1 .. n - i /\ i + (k - i + 1) = k + 1
      BY <1>0, <1>2, <2>3
    <3>2. b[k - i + 1] = t[k + 1]
      BY <1>3, <3>1
    <3> QED BY <2>1, <2>3, <3>1, <3>2
  <2> QED BY <2>2, <2>3
<1> QED BY <1>0, <1>4, <1>5, <1>6, <1>7

LEMMA PrefixValue ==
  ASSUME NEW S, NEW s \in Seq(S), NEW n \in Int
  PROVE  /\ Prefix(s, n) \in Seq(S) /\ Len(Prefix(s, n)) <= Len(s)
         /\ \A i \in 1 .. Len(Prefix(s, n)) : Prefix(s, n)[i] = s[i]
<1>0. PICK l \in Nat : l = Len(s)
  OBVIOUS
<1>1. PICK k \in Int : k = Min({n, l}) /\ k <= l
  <2>1. \E x \in {n, l} : \A y \in {n, l} : x <= y
    OBVIOUS
  <2>2. Min({n, l}) \in {n, l} /\ \A y \in {n, l} : Min({n, l}) <= y
    BY <2>1 DEF Min
  <2> QED BY <2>2
<1>2. 1 \in Int /\ \A i \in 1 .. k : s[i] \in S
  <2>1. \A i \in 1 .. l : s[i] \in S
    BY <1>0
  <2> QED BY <1>1, <2>1
<1>3. /\ SubSeq(s, 1, k) \in Seq(S)
      /\ Len(SubSeq(s, 1, k)) = IF 1 <= k THEN k - 1 + 1 ELSE 0
      /\ \A i \in 1 .. k - 1 + 1 : SubSeq(s, 1, k)[i] = s[1 + i - 1]
  BY ONLY <1>2, k \in Int, SubSeqProperties
<1>4. Prefix(s, n) = SubSeq(s, 1, k)
  BY <1>0, <1>1 DEF Prefix
<1>5. PICK r \in Seq(S) : r = SubSeq(s, 1, k)
  BY <1>3
<1>6. Len(r) <= l
  BY <1>1, <1>3, <1>5
<1>7. ASSUME NEW i \in 1 .. Len(r) PROVE r[i] = s[i]
  <2>1. i \in 1 .. k - 1 + 1 /\ 1 + i - 1 = i
    BY <1>3, <1>5
  <2> QED BY <1>3, <1>5, <2>1
<1> QED BY <1>0, <1>4, <1>5, <1>6, <1>7

(* What is picked keeps its ids apart. *)
LEMMA PickedElements ==
  ASSUME NEW S, NEW s \in Seq(S), NEW K
  PROVE  /\ Picked(s, K) \in Seq(S)
         /\ \A i \in DOMAIN Picked(s, K) : \E k \in DOMAIN s : k \in K /\ Picked(s, K)[i] = s[k]
         /\ Distinct(s) => Distinct(Picked(s, K))
<1>1. PICK p \in Seq(S) : p = Picked(s, K)
  BY PickedValue
<1>2. PICK f : Embeds(f, p, s, K, Len(s))
  BY <1>1, PickedValue
<1>3. PICK n \in Nat : n = Len(s)
  OBVIOUS
<1>4. PICK l \in Nat : l = Len(p)
  OBVIOUS
<1>5. DOMAIN s = 1 .. n /\ DOMAIN p = 1 .. l
  BY <1>3, <1>4
<1>6. f \in [1 .. l -> 1 .. n]
  BY <1>2, <1>3, <1>4, <1>5 DEF Embeds
<1>7. \A i \in 1 .. l : f[i] \in K /\ p[i] = s[f[i]]
  BY <1>2, <1>5 DEF Embeds
<1>8. \A i, k \in 1 .. l : i < k => f[i] < f[k]
  BY <1>2, <1>5 DEF Embeds
<1>9. ASSUME Distinct(s), NEW i \in 1 .. l, NEW k \in 1 .. l, p[i].id = p[k].id PROVE i = k
  <2>1. f[i] \in 1 .. n /\ f[k] \in 1 .. n
    BY <1>6
  <2>2. f[i] = f[k]
    BY <1>5, <1>7, <1>9, <2>1 DEF Distinct
  <2>3. ~(i < k) /\ ~(k < i)
    BY <1>8, <2>1, <2>2
  <2> QED BY <2>3
<1>10. Distinct(s) => Distinct(p)
  BY <1>5, <1>9 DEF Distinct
<1>11. \A i \in DOMAIN p : \E k \in DOMAIN s : k \in K /\ p[i] = s[k]
  BY <1>5, <1>6, <1>7
<1> QED BY <1>1, <1>10, <1>11

(* A change is what the server has; a deletion is what it does not have. *)
IsChange(t, c) == \E k \in DOMAIN srv : /\ t.id = srv[k].id /\ t.seq = srv[k].seq
                                        /\ t.op = IF t.id \in IdsOf(c) THEN "mod" ELSE "add"
IsDeletion(t, c) == t.op = "del" /\ t.id \in IdsOf(c) /\ t.id \notin IdsOf(srv)

LEMMA ChangesValue ==
  ASSUME srv \in Seq(Entries), Distinct(srv), NEW c \in Seq(Asked)
  PROVE  /\ Changes(c) \in Seq(Tlvs) /\ Distinct(Changes(c))
         /\ \A i \in DOMAIN Changes(c) : IsChange(Changes(c)[i], c)
<1> DEFINE K == {i \in DOMAIN srv : srv[i] \notin ToSet(c)}
<1> HIDE DEF K
<1>0. /\ Picked(srv, K) \in Seq(Entries)
      /\ \A i \in DOMAIN Picked(srv, K) : \E k \in DOMAIN srv : k \in K /\ Picked(srv, K)[i] = srv[k]
      /\ Distinct(srv) => Distinct(Picked(srv, K))
  BY ONLY srv \in Seq(Entries), PickedElements
<1>1. PICK p \in Seq(Entries) : p = Picked(srv, K)
  BY <1>0
<1>2. Distinct(p) /\ \A i \in DOMAIN p : \E k \in DOMAIN srv : p[i] = srv[k]
  BY <1>0, <1>1
<1>3. PICK l \in Nat : l = Len(p) /\ DOMAIN p = 1 .. l
  OBVIOUS
<1> DEFINE r == [i \in 1 .. l |-> [op |-> IF p[i].id \in IdsOf(c) THEN "mod" ELSE "add",
                                   id |-> p[i].id, seq |-> p[i].seq]]
<1>4. Changes(c) = r
  BY <1>1, <1>3 DEF Changes, K
<1>5. \A i \in 1 .. l : r[i] \in Tlvs
  <2> SUFFICES ASSUME NEW i \in 1 .. l PROVE r[i] \in Tlvs
    OBVIOUS
  <2>1. p[i].id \in Ids /\ p[i].seq \in 1 .. MaxSeq
    BY <1>3, EntryIds
  <2> QED BY <2>1 DEF Tlvs
<1>6. r \in Seq(Tlvs)
  <2>1. r \in [1 .. l -> Tlvs]
    BY <1>5
  <2> QED BY <2>1
<1>7. DOMAIN r = 1 .. l /\ \A i \in 1 .. l : /\ r[i].id = p[i].id /\ r[i].seq = p[i].seq
                                             /\ r[i].op = IF r[i].id \in IdsOf(c) THEN "mod" ELSE "add"
  OBVIOUS
<1> HIDE DEF r
<1>8. Distinct(r)
  BY <1>2, <1>3, <1>7 DEF Distinct
<1>9. \A i \in DOMAIN r : IsChange(r[i], c)
  <2> SUFFICES ASSUME NEW i \in 1 .. l PROVE IsChange(r[i], c)
    BY <1>7
  <2>1. PICK k \in DOMAIN srv : p[i] = srv[k]
    BY <1>2, <1>3
  <2> QED BY <1>7, <2>1 DEF IsChange
<1> QED BY <1>4, <1>6, <1>8, <1>9

LEMMA DeletionsValue ==
  ASSUME NEW c \in Seq(Asked), Distinct(c)
  PROVE  /\ Deletions(c) \in Seq(Tlvs) /\ Distinct(Deletions(c))
         /\ \A i \in DOMAIN Deletions(c) : IsDeletion(Deletions(c)[i], c)
<1> DEFINE K == {i \in DOMAIN c : c[i].id \notin IdsOf(srv)}
<1>k. \A k \in K : c[k].id \notin IdsOf(srv)
  OBVIOUS
<1> HIDE DEF K
<1>0. /\ Picked(c, K) \in Seq(Asked)
      /\ \A i \in DOMAIN Picked(c, K) : \E k \in DOMAIN c : k \in K /\ Picked(c, K)[i] = c[k]
      /\ Distinct(c) => Distinct(Picked(c, K))
  BY ONLY c \in Seq(Asked), PickedElements
<1>1. PICK p \in Seq(Asked) : p = Picked(c, K)
  BY <1>0
<1>2. Distinct(p) /\ \A i \in DOMAIN p : \E k \in DOMAIN c : k \in K /\ p[i] = c[k]
  BY <1>0, <1>1
<1>3. PICK l \in Nat : l = Len(p) /\ DOMAIN p = 1 .. l
  OBVIOUS
<1> DEFINE r == [i \in 1 .. l |-> [op |-> "del", id |-> p[i].id, seq |-> 0]]
<1>4. Deletions(c) = r
  BY <1>1, <1>3 DEF Deletions, K
<1>5. \A i \in 1 .. l : r[i] \in Tlvs
  <2> SUFFICES ASSUME NEW i \in 1 .. l PROVE r[i] \in Tlvs
    OBVIOUS
  <2>1. p[i] \in Asked
    BY <1>3
  <2>2. p[i].id \in Ids
    BY <2>1 DEF Asked
  <2> QED BY <2>2 DEF Tlvs
<1>6. r \in Seq(Tlvs)
  <2>1. r \in [1 .. l -> Tlvs]
    BY <1>5
  <2> QED BY <2>1
<1>7. DOMAIN r = 1 .. l /\ \A i \in 1 .. l : r[i].id = p[i].id /\ r[i].op = "del"
  OBVIOUS
<1> HIDE DEF r
<1>8. Distinct(r)
  BY <1>2, <1>3, <1>7 DEF Distinct
<1>9. \A i \in DOMAIN r : IsDeletion(r[i], c)
  <2> SUFFICES ASSUME NEW i \in 1 .. l PROVE IsDeletion(r[i], c)
    BY <1>7
  <2>1. PICK k \in DOMAIN c : k \in K /\ p[i] = c[k]
    BY <1>2, <1>3
  <2>2. c[k].id \in IdsOf(c) /\ c[k].id \notin IdsOf(srv)
    BY <1>k, <2>1 DEF IdsOf
  <2> QED BY <1>7, <2>1, <2>2 DEF IsDeletion
<1> QED BY <1>4, <1>6, <1>8, <1>9

LEMMA PrefixElements ==
  ASSUME NEW S, NEW s \in Seq(S), NEW n \in Int, Distinct(s)
  PROVE  \E p \in Seq(S) : /\ p = Prefix(s, n) /\ Distinct(p)
                           /\ \A i \in DOMAIN p : i \in DOMAIN s /\ p[i] = s[i]
<1>1. /\ Prefix(s, n) \in Seq(S) /\ Len(Prefix(s, n)) <= Len(s)
      /\ \A i \in 1 .. Len(Prefix(s, n)) : Prefix(s, n)[i] = s[i]
  BY PrefixValue
<1>2. PICK p \in Seq(S) : p = Prefix(s, n)
  BY <1>1
<1>3. PICK k \in Nat : k = Len(s) /\ DOMAIN s = 1 .. k
  OBVIOUS
<1>4. PICK l \in Nat : l = Len(p) /\ DOMAIN p = 1 .. l
  OBVIOUS
<1>5. l <= k /\ \A i \in 1 .. l : p[i] = s[i]
  BY <1>1, <1>2, <1>3, <1>4
<1>6. \A i \in DOMAIN p : i \in DOMAIN s /\ p[i] = s[i]
  BY <1>3, <1>4, <1>5
<1>7. Distinct(p)
  BY <1>6 DEF Distinct
<1> QED BY <1>2, <1>6, <1>7

(* An answer names no configuration twice. *)
LEMMA AnswerValue ==
  ASSUME srv \in Seq(Entries), Distinct(srv), NEW c \in Seq(Asked), Distinct(c)
  PROVE  \E a \in Seq(Tlvs) : /\ a = SetLogConfigCheckInfo(c) /\ Distinct(a)
                              /\ \A i \in DOMAIN a : IsChange(a[i], c) \/ IsDeletion(a[i], c)
<1>0. /\ CfgLen \in Int /\ CfgLen > 0 /\ DelLen \in Int /\ DelLen > 0
      /\ RespLen \in Int
  BY ConfigSizes
<1>1. PICK ch \in Seq(Tlvs) : ch = Changes(c) /\ Distinct(ch) /\ \A i \in DOMAIN ch : IsChange(ch[i], c)
  BY ChangesValue
<1>2. PICK de \in Seq(Tlvs) : de = Deletions(c) /\ Distinct(de) /\ \A i \in DOMAIN de : IsDeletion(de[i], c)
  BY DeletionsValue
<1>3. PICK new \in Seq(Tlvs) : /\ new = Prefix(ch, RespLen \div CfgLen) /\ Distinct(new)
                               /\ \A i \in DOMAIN new : i \in DOMAIN ch /\ new[i] = ch[i]
  <2>1. PICK n \in Int : n = RespLen \div CfgLen
    BY <1>0
  <2>2. Distinct(ch)
    BY <1>1
  <2>3. \E p \in Seq(Tlvs) : /\ p = Prefix(ch, n) /\ Distinct(p)
                            /\ \A i \in DOMAIN p : i \in DOMAIN ch /\ p[i] = ch[i]
    BY ONLY ch \in Seq(Tlvs), n \in Int, <2>2, PrefixElements
  <2> QED BY <2>1, <2>3
<1>4. \A i \in DOMAIN new : IsChange(new[i], c)
  BY <1>1, <1>3
<1>5. CASE Len(new) < Len(Changes(c))
  <2>1. SetLogConfigCheckInfo(c) = new
    BY <1>1, <1>3, <1>5 DEF SetLogConfigCheckInfo
  <2> QED BY <1>3, <1>4, <2>1
<1>6. CASE ~(Len(new) < Len(Changes(c)))
  <2>1. PICK n \in Int : n = (RespLen - Len(new) * CfgLen) \div DelLen
    <3>1. Len(new) \in Nat
      OBVIOUS
    <3>2. PICK y \in Int : y = Len(new) * CfgLen
      BY <1>0, <3>1
    <3>3. RespLen - y \in Int
      BY <1>0
    <3>4. (RespLen - y) \div DelLen \in Int
      BY <1>0, <3>3
    <3> QED BY <3>2, <3>4
  <2>2. PICK gone \in Seq(Tlvs) : /\ gone = Prefix(de, n) /\ Distinct(gone)
                                  /\ \A i \in DOMAIN gone : i \in DOMAIN de /\ gone[i] = de[i]
    <3>1. Distinct(de)
      BY <1>2
    <3> QED BY ONLY de \in Seq(Tlvs), n \in Int, <3>1, PrefixElements
  <2>3. \A i \in DOMAIN gone : IsDeletion(gone[i], c)
    BY <1>2, <2>2
  <2>4. SetLogConfigCheckInfo(c) = new \o gone
    BY <1>1, <1>2, <1>3, <1>6, <2>1, <2>2 DEF SetLogConfigCheckInfo
  <2>5. PICK l \in Nat : l = Len(new) /\ DOMAIN new = 1 .. l
    OBVIOUS
  <2>6. PICK g \in Nat : g = Len(gone) /\ DOMAIN gone = 1 .. g
    OBVIOUS
  <2>7. /\ new \o gone \in Seq(Tlvs) /\ Len(new \o gone) = l + g
        /\ \A i \in 1 .. l + g : (new \o gone)[i] = IF i <= l THEN new[i] ELSE gone[i - l]
    BY ONLY new \in Seq(Tlvs), gone \in Seq(Tlvs), <2>5, <2>6, ConcatProperties
  <2>8. PICK a \in Seq(Tlvs) : a = new \o gone
    BY <2>7
  <2>9. DOMAIN a = 1 .. l + g
    BY <2>7, <2>8
  <2>10. \A i \in 1 .. l + g : \/ i \in 1 .. l /\ a[i] = new[i]
                               \/ i \notin 1 .. l /\ i - l \in 1 .. g /\ a[i] = gone[i - l]
    BY ONLY <2>7, <2>8, l \in Nat, g \in Nat
  <2>11. \A i \in DOMAIN a : IsChange(a[i], c) \/ IsDeletion(a[i], c)
    BY <1>4, <2>3, <2>5, <2>6, <2>9, <2>10
  <2>12. \A i \in 1 .. l, k \in 1 .. g : new[i].id # gone[k].id
    <3> SUFFICES ASSUME NEW i \in 1 .. l, NEW k \in 1 .. g PROVE new[i].id # gone[k].id
      OBVIOUS
    <3>1. new[i].id \in IdsOf(srv)
      BY <1>4, <2>5 DEF IsChange, IdsOf
    <3>2. gone[k].id \notin IdsOf(srv)
      BY <2>3, <2>6 DEF IsDeletion
    <3> QED BY <3>1, <3>2
  <2>13. Distinct(a)
    <3> SUFFICES ASSUME NEW i \in 1 .. l + g, NEW k \in 1 .. l + g, a[i].id = a[k].id PROVE i = k
      BY <2>9 DEF Distinct
    <3>1. CASE i \in 1 .. l /\ k \in 1 .. l
      BY <1>3, <2>5, <2>10, <3>1 DEF Distinct
    <3>2. CASE i \notin 1 .. l /\ k \notin 1 .. l
      <4>1. i - l \in 1 .. g /\ k - l \in 1 .. g /\ a[i] = gone[i - l] /\ a[k] = gone[k - l]
        BY <2>10, <3>2
      <4>2. i - l = k - l
        <5>1. \A x, y \in 1 .. g : gone[x].id = gone[y].id => x = y
          BY <2>2, <2>6 DEF Distinct
        <5>2. gone[i - l].id = gone[k - l].id
          BY <4>1
        <5> QED BY ONLY <4>1, <5>1, <5>2
      <4> QED BY <4>2
    <3>3. CASE i \in 1 .. l /\ k \notin 1 .. l
      BY <2>10, <2>12, <3>3
    <3>4. CASE i \notin 1 .. l /\ k \in 1 .. l
      BY <2>10, <2>12, <3>4
    <3> QED BY <3>1, <3>2, <3>3, <3>4
  <2> QED BY <2>4, <2>8, <2>11, <2>13
<1> QED BY <1>5, <1>6

-----------------------------------------------------------------------------
(***************************************************************************)
(* What holds of the server's list s with the number l given last, the     *)
(* agent's table t and an answer a on its way to that table, however much  *)
(* the server has changed since it was made.                               *)
(***************************************************************************)

(* Sequence number q of a configuration has been given, and no older one is current. *)
Known(s, l, id, q) == q <= l /\ \A i \in DOMAIN s : s[i].id = id => q <= s[i].seq

ListOK(s, l) == Distinct(s) /\ \A i \in DOMAIN s : s[i].seq <= l

TableOK(s, l, t) == Ordered(t) /\ \A i \in DOMAIN t : Known(s, l, t[i].id, t[i].seq)

(* An answer adds what the table does not have, changes to newer versions, and changes and *)
(* deletes only what the table has; it names nothing twice.                                *)
FitsOne(s, l, t, e) ==
  /\ e.op # "del" => Known(s, l, e.id, e.seq)
  /\ e.op = "add" <=> e.id \notin IdsOf(t)
  /\ \A k \in DOMAIN t : e.op = "mod" /\ t[k].id = e.id => t[k].seq <= e.seq

Fits(s, l, t, a) == Distinct(a) /\ \A i \in DOMAIN a : FitsOne(s, l, t, a[i])

NotBack(t, u) == \A i \in DOMAIN t, j \in DOMAIN u : t[i].id = u[j].id => t[i].seq <= u[j].seq

Grows(s, l, s2, l2) == \A id \in Ids, q \in Nat : Known(s, l, id, q) => Known(s2, l2, id, q)

LEMMA TlvTypes ==
  ASSUME NEW e \in Tlvs
  PROVE  /\ e.id \in Ids /\ e.id \in Nat /\ e.seq \in Nat /\ e.op \in {"add", "mod", "del"}
         /\ e.op # "del" => Entry(e) \in Entries
         /\ Entry(e).id = e.id /\ Entry(e).seq = e.seq
<1>1. (\A x \in 1 .. MaxSeq : x \in Nat) /\ \A x \in Ids : x \in Nat
  BY ConfigSizes
<1>2. Entry(e).id = e.id /\ Entry(e).seq = e.seq
  BY DEF Entry
<1>3. CASE e \in [op : {"add", "mod"}, id : Ids, seq : 1 .. MaxSeq]
  <2>1. e.id \in Ids /\ e.seq \in 1 .. MaxSeq /\ e.op \in {"add", "mod"}
    BY <1>3
  <2>2. Entry(e) \in Entries
    BY <2>1 DEF Entry, Entries
  <2>3. e.seq \in Nat /\ e.id \in Nat
    BY <1>1, <2>1
  <2> QED BY <1>2, <2>1, <2>2, <2>3
<1>4. CASE e \in [op : {"del"}, id : Ids, seq : {0}]
  <2>1. e.id \in Ids /\ e.seq = 0 /\ e.op = "del"
    BY <1>4
  <2>2. e.id \in Nat /\ e.seq \in Nat
    BY <1>1, <2>1
  <2> QED BY <1>2, <2>1, <2>2
<1> QED BY <1>3, <1>4 DEF Tlvs

(* What the server does later leaves the table and the answers on their way as they are. *)
LEMMA TableGrows ==
  ASSUME NEW s, NEW l, NEW s2, NEW l2, Grows(s, l, s2, l2), NEW t \in Seq(Entries), TableOK(s, l, t)
  PROVE  TableOK(s2, l2, t)
<1>1. ASSUME NEW i \in DOMAIN t PROVE Known(s2, l2, t[i].id, t[i].seq)
  <2>1. t[i].id \in Ids /\ t[i].seq \in Nat
    BY EntryIds, ConfigSizes
  <2>2. Known(s, l, t[i].id, t[i].seq)
    BY DEF TableOK
  <2> QED BY <2>1, <2>2 DEF Grows
<1> QED BY <1>1 DEF TableOK

LEMMA AnswerGrows ==
  ASSUME NEW s, NEW l, NEW s2, NEW l2, Grows(s, l, s2, l2), NEW t, NEW a \in Seq(Tlvs), Fits(s, l, t, a)
  PROVE  Fits(s2, l2, t, a)
<1>1. ASSUME NEW i \in DOMAIN a PROVE FitsOne(s2, l2, t, a[i])
  <2>1. a[i] \in Tlvs
    OBVIOUS
  <2>2. a[i].id \in Ids /\ a[i].seq \in Nat
    BY <2>1, TlvTypes
  <2>3. FitsOne(s, l, t, a[i])
    BY DEF Fits
  <2>4. a[i].op # "del" => Known(s2, l2, a[i].id, a[i].seq)
    BY <2>2, <2>3 DEF FitsOne, Grows
  <2> QED BY <2>3, <2>4 DEF FitsOne
<1> QED BY <1>1 DEF Fits

(* One configuration of the table is set, changed or gone: the rest of the answer still fits. *)
LEMMA RestFits ==
  ASSUME NEW s, NEW l, NEW t, NEW u, NEW a \in Seq(Tlvs), a # <<>>, Fits(s, l, t, a),
         \A k \in DOMAIN u : u[k].id = Head(a).id \/ \E m \in DOMAIN t : u[k] = t[m],
         \A m \in DOMAIN t : t[m].id = Head(a).id \/ \E k \in DOMAIN u : u[k] = t[m]
  PROVE  Tail(a) \in Seq(Tlvs) /\ Fits(s, l, u, Tail(a))
<1>1. PICK b \in Seq(Tlvs) : b = Tail(a)
  BY HeadTailProperties
<1>2. PICK n \in Nat : n = Len(b) /\ DOMAIN b = 1 .. n
  OBVIOUS
<1>3. DOMAIN a = 1 .. n + 1 /\ Head(a) = a[1] /\ \A i \in 1 .. n : b[i] = a[i + 1]
  <2>1. Len(a) = n + 1 /\ \A i \in 1 .. n : b[i] = a[i + 1]
    BY <1>1, <1>2, HeadTailProperties
  <2> QED BY <2>1
<1>4. Distinct(b)
  <2> SUFFICES ASSUME NEW i \in 1 .. n, NEW k \in 1 .. n, b[i].id = b[k].id PROVE i = k
    BY <1>2 DEF Distinct
  <2>1. i + 1 \in 1 .. n + 1 /\ k + 1 \in 1 .. n + 1 /\ a[i + 1].id = a[k + 1].id
    BY <1>3
  <2>2. i + 1 = k + 1
    BY <1>3, <2>1 DEF Fits, Distinct
  <2> QED BY <2>2
<1>5. ASSUME NEW i \in 1 .. n PROVE FitsOne(s, l, u, b[i])
  <2>1. i + 1 \in 1 .. n + 1 /\ 1 \in 1 .. n + 1 /\ i + 1 # 1
    OBVIOUS
  <2>2. FitsOne(s, l, t, b[i]) /\ b[i] = a[i + 1]
    BY <1>3, <2>1 DEF Fits
  <2>3. b[i].id # Head(a).id
    BY <1>3, <2>1, <2>2 DEF Fits, Distinct
  <2>4. b[i].id \in IdsOf(t) <=> b[i].id \in IdsOf(u)
    BY <2>3 DEF IdsOf
  <2>5. ASSUME NEW k \in DOMAIN u, b[i].op = "mod", u[k].id = b[i].id PROVE u[k].seq <= b[i].seq
    <3>1. PICK m \in DOMAIN t : u[k] = t[m]
      BY <2>3, <2>5
    <3> QED BY <2>2, <2>5, <3>1 DEF FitsOne
  <2>6. b[i].op = "add" <=> b[i].id \notin IdsOf(u)
    BY <2>2, <2>4 DEF FitsOne
  <2>7. b[i].op # "del" => Known(s, l, b[i].id, b[i].seq)
    BY <2>2 DEF FitsOne
  <2> QED BY <2>5, <2>6, <2>7 DEF FitsOne
<1> QED BY <1>1, <1>2, <1>4, <1>5 DEF Fits

(* The table t becomes u by the first item of the answer a. *)
Step(s, l, t, u, a) ==
  /\ u \in Seq(Entries) /\ TableOK(s, l, u) /\ NotBack(t, u)
  /\ Tail(a) \in Seq(Tlvs) /\ Fits(s, l, u, Tail(a))

LEMMA FirstFits ==
  ASSUME NEW s, NEW l, NEW t, NEW a \in Seq(Tlvs), a # <<>>, Fits(s, l, t, a)
  PROVE  Head(a) \in Tlvs /\ FitsOne(s, l, t, Head(a))
<1>1. Len(a) \in Nat /\ Len(a) # 0 /\ Head(a) = a[1] /\ DOMAIN a = 1 .. Len(a)
  OBVIOUS
<1>2. 1 \in DOMAIN a
  BY <1>1
<1> QED BY <1>1, <1>2 DEF Fits

(* In an ordered table an id is at one place. *)
LEMMA OrderedDistinct ==
  ASSUME NEW t \in Seq(Entries), Ordered(t)
  PROVE  Distinct(t)
<1> SUFFICES ASSUME NEW i \in DOMAIN t, NEW k \in DOMAIN t, t[i].id = t[k].id PROVE i = k
  BY DEF Distinct
<1>1. t[i].id \in Nat /\ t[k].id \in Nat /\ i \in Int /\ k \in Int
  BY EntryIds
<1>2. ~(i < k) /\ ~(k < i)
  BY <1>1 DEF Ordered
<1> QED BY <1>1, <1>2

LEMMA AddStep ==
  ASSUME NEW s, NEW l, NEW t \in Seq(Entries), TableOK(s, l, t),
         NEW a \in Seq(Tlvs), a # <<>>, Fits(s, l, t, a), Head(a).op = "add",
         NEW u, u = Qsort(Append(t, Entry(Head(a))))
  PROVE  Step(s, l, t, u, a) /\ Len(u) = Len(t) + 1
<1>1. PICK h \in Tlvs : h = Head(a) /\ FitsOne(s, l, t, h)
  BY FirstFits
<1>2. PICK e \in Entries : e = Entry(h) /\ e.id = h.id /\ e.seq = h.seq
  BY <1>1, TlvTypes
<1>3. e.id \notin IdsOf(t) /\ Known(s, l, e.id, e.seq)
  BY <1>1, <1>2 DEF FitsOne
<1>4. Ordered(t)
  BY DEF TableOK
<1>5. u = Qsort(Append(t, e))
  BY <1>1, <1>2
<1>6. /\ u \in Seq(Entries) /\ Len(u) = Len(t) + 1 /\ Ordered(u)
      /\ (\A i \in DOMAIN u : u[i] = e \/ \E k \in DOMAIN t : u[i] = t[k])
      /\ IdsOf(u) = IdsOf(t) \cup {e.id}
  BY <1>3, <1>4, <1>5, QsortValue
<1>7. TableOK(s, l, u)
  <2>1. ASSUME NEW i \in DOMAIN u PROVE Known(s, l, u[i].id, u[i].seq)
    <3>1. CASE u[i] = e
      BY <1>3, <3>1
    <3>2. ASSUME NEW k \in DOMAIN t, u[i] = t[k] PROVE Known(s, l, u[i].id, u[i].seq)
      BY <3>2 DEF TableOK
    <3> QED BY <1>6, <3>1, <3>2
  <2> QED BY <1>6, <2>1 DEF TableOK
<1>8. \A k \in DOMAIN u : u[k].id = h.id \/ \E m \in DOMAIN t : u[k] = t[m]
  BY <1>2, <1>6
<1>d. Distinct(t)
  BY <1>4, OrderedDistinct
<1>9. \A m \in DOMAIN t : \E k \in DOMAIN u : u[k] = t[m]
  <2> SUFFICES ASSUME NEW m \in DOMAIN t PROVE \E k \in DOMAIN u : u[k] = t[m]
    OBVIOUS
  <2>1. t[m].id \in IdsOf(u) /\ t[m].id # e.id
    BY <1>3, <1>6 DEF IdsOf
  <2>2. PICK k \in DOMAIN u : u[k].id = t[m].id
    BY <2>1 DEF IdsOf
  <2>3. PICK n \in DOMAIN t : u[k] = t[n]
    BY <1>6, <2>1, <2>2
  <2>4. n = m
    BY <1>d, <2>2, <2>3 DEF Distinct
  <2> QED BY <2>3, <2>4
<1>10. NotBack(t, u)
  <2> SUFFICES ASSUME NEW i \in DOMAIN t, NEW j \in DOMAIN u, t[i].id = u[j].id PROVE t[i].seq <= u[j].seq
    BY DEF NotBack
  <2>1. t[i].id # e.id
    BY <1>3 DEF IdsOf
  <2>2. PICK n \in DOMAIN t : u[j] = t[n]
    BY <1>6, <2>1
  <2>3. n = i
    BY <1>d, <2>2 DEF Distinct
  <2>4. t[i].seq \in Int
    BY EntryIds
  <2> QED BY <2>2, <2>3, <2>4
<1>11. Tail(a) \in Seq(Tlvs) /\ Fits(s, l, u, Tail(a))
  BY <1>1, <1>8, <1>9, RestFits
<1> QED BY <1>6, <1>7, <1>10, <1>11 DEF Step

LEMMA FoundAt ==
  ASSUME NEW s, NEW l, NEW t \in Seq(Entries), TableOK(s, l, t), NEW id \in Ids,
         id \in IdsOf(t)
  PROVE  Bsearch(t, id) \in 1 .. Len(t) /\ t[Bsearch(t, id)].id = id
<1>1. Ordered(t)
  BY DEF TableOK
<1>2. \E i \in DOMAIN t : t[i].id = id
  BY DEF IdsOf
<1>3. Bsearch(t, id) \in 0 .. Len(t) /\ Bsearch(t, id) # 0 /\ t[Bsearch(t, id)].id = id
  BY <1>1, <1>2, BsearchValue
<1> QED BY <1>3

Changed(t, e) == [t EXCEPT ![Bsearch(t, e.id)] = Entry(e)]

LEMMA ModStep ==
  ASSUME NEW s, NEW l, NEW t \in Seq(Entries), TableOK(s, l, t),
         NEW a \in Seq(Tlvs), a # <<>>, Fits(s, l, t, a), Head(a).op = "mod",
         NEW u, u = Changed(t, Head(a))
  PROVE  Step(s, l, t, u, a) /\ Len(u) = Len(t)
<1>1. PICK h \in Tlvs : h = Head(a) /\ FitsOne(s, l, t, h)
  BY FirstFits
<1>2. PICK e \in Entries : e = Entry(h) /\ e.id = h.id /\ e.seq = h.seq
  BY <1>1, TlvTypes
<1>3. h.id \in Ids /\ h.id \in IdsOf(t) /\ Known(s, l, e.id, e.seq)
  <2>1. h.id \in Ids
    BY TlvTypes
  <2> QED BY <1>1, <1>2, <2>1 DEF FitsOne
<1>4. PICK n \in Nat : n = Len(t) /\ DOMAIN t = 1 .. n
  OBVIOUS
<1>5. PICK p \in 1 .. n : p = Bsearch(t, h.id) /\ t[p].id = h.id
  BY <1>3, <1>4, FoundAt
<1>6. Ordered(t) /\ Distinct(t)
  BY OrderedDistinct DEF TableOK
<1>7. u = [t EXCEPT ![p] = e]
  BY <1>1, <1>2, <1>5 DEF Changed
<1>8. /\ u \in Seq(Entries) /\ Len(u) = n /\ DOMAIN u = 1 .. n /\ u[p] = e
      /\ \A i \in 1 .. n : i # p => u[i] = t[i]
  <2>1. p \in 1 .. Len(t)
    BY <1>4
  <2>2. /\ u \in Seq(Entries) /\ Len(u) = Len(t)
        /\ \A i \in 1 .. Len(t) : u[i] = IF i = p THEN e ELSE t[i]
    BY ONLY t \in Seq(Entries), e \in Entries, <1>7, <2>1, ExceptSeq
  <2>3. DOMAIN u = 1 .. n
    BY <1>4, <2>2
  <2> QED BY <1>4, <2>2, <2>3
<1>9. \A i \in 1 .. n : u[i].id = t[i].id
  BY <1>2, <1>5, <1>8
<1>10. TableOK(s, l, u)
  <2>1. Ordered(u)
    <3>1. \A i, k \in 1 .. n : i < k => t[i].id < t[k].id
      BY <1>4, <1>6 DEF Ordered
    <3>2. \A i, k \in 1 .. n : i < k => u[i].id < u[k].id
      BY <1>9, <3>1
    <3> QED BY <1>8, <3>2 DEF Ordered
  <2>2. ASSUME NEW i \in 1 .. n PROVE Known(s, l, u[i].id, u[i].seq)
    <3>1. CASE i = p
      BY <1>3, <1>8, <3>1
    <3>2. CASE i # p
      BY <1>4, <1>8, <3>2 DEF TableOK
    <3> QED BY <3>1, <3>2
  <2> QED BY <1>8, <2>1, <2>2 DEF TableOK
<1>11. NotBack(t, u)
  <2> SUFFICES ASSUME NEW i \in 1 .. n, NEW j \in 1 .. n, t[i].id = u[j].id PROVE t[i].seq <= u[j].seq
    BY <1>4, <1>8 DEF NotBack
  <2>1. i = j
    BY <1>4, <1>6, <1>9 DEF Distinct
  <2>2. CASE j = p
    BY <1>1, <1>2, <1>4, <1>5, <1>8, <2>1, <2>2 DEF FitsOne
  <2>3. CASE j # p
    <3>1. t[i].seq \in Int
      BY <1>4, EntryIds
    <3> QED BY <1>8, <2>1, <2>3, <3>1
  <2> QED BY <2>2, <2>3
<1>12. \A k \in DOMAIN u : u[k].id = h.id \/ \E m \in DOMAIN t : u[k] = t[m]
  BY <1>2, <1>4, <1>8
<1>13. \A m \in DOMAIN t : t[m].id = h.id \/ \E k \in DOMAIN u : u[k] = t[m]
  BY <1>4, <1>5, <1>8
<1>14. Tail(a) \in Seq(Tlvs) /\ Fits(s, l, u, Tail(a))
  <2>1. /\ \A k \in DOMAIN u : u[k].id = Head(a).id \/ \E m \in DOMAIN t : u[k] = t[m]
        /\ \A m \in DOMAIN t : t[m].id = Head(a).id \/ \E k \in DOMAIN u : u[k] = t[m]
    BY <1>1, <1>12, <1>13
  <2>2. a # <<>> /\ Fits(s, l, t, a)
    OBVIOUS
  <2> QED BY ONLY a \in Seq(Tlvs), <2>1, <2>2, RestFits
<1> QED BY <1>4, <1>8, <1>10, <1>11, <1>14 DEF Step

LEMMA DelStep ==
  ASSUME NEW s, NEW l, NEW t \in Seq(Entries), TableOK(s, l, t),
         NEW a \in Seq(Tlvs), a # <<>>, Fits(s, l, t, a), Head(a).op = "del",
         NEW u, u = RemoveAt(t, Bsearch(t, Head(a).id))
  PROVE  Step(s, l, t, u, a) /\ Len(u) = Len(t) - 1
<1>1. PICK h \in Tlvs : h = Head(a) /\ FitsOne(s, l, t, h)
  BY FirstFits
<1>3. h.id \in Ids /\ h.id \in IdsOf(t)
  <2>1. h.id \in Ids
    BY TlvTypes
  <2> QED BY <1>1, <2>1 DEF FitsOne
<1>4. PICK n \in Nat : n = Len(t) /\ DOMAIN t = 1 .. n
  OBVIOUS
<1>5. PICK p \in 1 .. n : p = Bsearch(t, h.id) /\ t[p].id = h.id
  BY <1>3, <1>4, FoundAt
<1>6. Ordered(t) /\ Distinct(t)
  BY OrderedDistinct DEF TableOK
<1>7. u = RemoveAt(t, p)
  BY <1>1, <1>5
<1>8. /\ u \in Seq(Entries) /\ Len(u) = n - 1
      /\ \A k \in 1 .. n - 1 : u[k] = IF k < p THEN t[k] ELSE t[k + 1]
  BY <1>4, <1>7, RemoveAtValue
<1>9. DOMAIN u = 1 .. n - 1 /\ n - 1 \in Nat
  BY <1>8
<1> DEFINE at(k) == IF k < p THEN k ELSE k + 1
<1>10. \A k \in 1 .. n - 1 : at(k) \in 1 .. n /\ at(k) # p /\ u[k] = t[at(k)]
  BY <1>8
<1>11. \A i, k \in 1 .. n - 1 : i < k => at(i) < at(k)
  OBVIOUS
<1>12. \A m \in 1 .. n : m # p => \E k \in 1 .. n - 1 : m = at(k)
  <2> SUFFICES ASSUME NEW m \in 1 .. n, m # p PROVE \E k \in 1 .. n - 1 : m = at(k)
    OBVIOUS
  <2>1. CASE m < p
    <3>1. m \in 1 .. n - 1 /\ at(m) = m
      BY <2>1
    <3> QED BY <3>1
  <2>2. CASE ~(m < p)
    <3>1. m - 1 \in 1 .. n - 1 /\ at(m - 1) = m
      BY <2>2
    <3> QED BY <3>1
  <2> QED BY <2>1, <2>2
<1> HIDE DEF at
<1>13. TableOK(s, l, u)
  <2>1. Ordered(u)
    <3> SUFFICES ASSUME NEW i \in 1 .. n - 1, NEW k \in 1 .. n - 1, i < k PROVE u[i].id < u[k].id
      BY <1>9 DEF Ordered
    <3>1. at(i) \in 1 .. n /\ at(k) \in 1 .. n /\ at(i) < at(k)
      BY <1>10, <1>11
    <3>2. t[at(i)].id < t[at(k)].id
      BY <1>4, <1>6, <3>1 DEF Ordered
    <3> QED BY <1>10, <3>2
  <2>2. ASSUME NEW i \in 1 .. n - 1 PROVE Known(s, l, u[i].id, u[i].seq)
    BY <1>4, <1>10 DEF TableOK
  <2> QED BY <1>9, <2>1, <2>2 DEF TableOK
<1>14. NotBack(t, u)
  <2> SUFFICES ASSUME NEW i \in 1 .. n, NEW j \in 1 .. n - 1, t[i].id = u[j].id PROVE t[i].seq <= u[j].seq
    BY <1>4, <1>9 DEF NotBack
  <2>1. at(j) \in 1 .. n /\ u[j] = t[at(j)]
    BY <1>10
  <2>2. i = at(j)
    BY <1>4, <1>6, <2>1 DEF Distinct
  <2>3. t[i].seq \in Int
    BY <1>4, EntryIds
  <2> QED BY <2>1, <2>2, <2>3
<1>15. \A k \in DOMAIN u : \E m \in DOMAIN t : u[k] = t[m]
  BY <1>4, <1>9, <1>10
<1>16. \A m \in DOMAIN t : t[m].id = h.id \/ \E k \in DOMAIN u : u[k] = t[m]
  <2> SUFFICES ASSUME NEW m \in 1 .. n, m # p PROVE \E k \in DOMAIN u : u[k] = t[m]
    BY <1>4, <1>5
  <2>1. PICK k \in 1 .. n - 1 : m = at(k)
    BY <1>12
  <2> QED BY <1>9, <1>10, <2>1
<1>17. Tail(a) \in Seq(Tlvs) /\ Fits(s, l, u, Tail(a))
  BY <1>1, <1>15, <1>16, RestFits
<1> QED BY <1>4, <1>8, <1>13, <1>14, <1>17 DEF Step

(* The answer to a request of the table fits the table. *)
LEMMA AnswerFits ==
  ASSUME srv \in Seq(Entries), ListOK(srv, last), NEW t \in Seq(Entries), TableOK(srv, last, t),
         NEW c \in Seq(Asked), Distinct(c), IdsOf(c) = IdsOf(t)
  PROVE  \E a \in Seq(Tlvs) : a = SetLogConfigCheckInfo(c) /\ Fits(srv, last, t, a)
<1>1. Distinct(srv) /\ \A i \in DOMAIN srv : srv[i].seq <= last
  BY DEF ListOK
<1>2. PICK a \in Seq(Tlvs) : /\ a = SetLogConfigCheckInfo(c) /\ Distinct(a)
                             /\ \A i \in DOMAIN a : IsChange(a[i], c) \/ IsDeletion(a[i], c)
  BY <1>1, AnswerValue
<1>3. ASSUME NEW i \in DOMAIN a PROVE FitsOne(srv, last, t, a[i])
  <2>0. PICK e \in Tlvs : e = a[i]
    OBVIOUS
  <2>1. CASE IsDeletion(e, c)
    <3>1. e.op = "del" /\ e.id \in IdsOf(t)
      BY <2>1 DEF IsDeletion
    <3> QED BY <2>0, <3>1 DEF FitsOne
  <2>2. CASE IsChange(e, c)
    <3>1. PICK k \in DOMAIN srv : /\ e.id = srv[k].id /\ e.seq = srv[k].seq
                                  /\ e.op = IF e.id \in IdsOf(c) THEN "mod" ELSE "add"
      BY <2>2 DEF IsChange
    <3>2. Known(srv, last, e.id, e.seq)
      <4>1. \A j \in DOMAIN srv : srv[j].id = e.id => j = k
        BY <1>1, <3>1 DEF Distinct
      <4>2. e.seq <= last
        BY <1>1, <3>1
      <4>3. e.seq <= e.seq
        <5>1. e.seq \in Nat
          BY TlvTypes
        <5> QED BY <5>1
      <4> QED BY <3>1, <4>1, <4>2, <4>3 DEF Known
    <3>3. e.op = "add" <=> e.id \notin IdsOf(t)
      BY <3>1
    <3>4. ASSUME NEW j \in DOMAIN t, t[j].id = e.id PROVE t[j].seq <= e.seq
      <4>1. Known(srv, last, t[j].id, t[j].seq)
        BY DEF TableOK
      <4> QED BY <3>1, <3>4, <4>1 DEF Known
    <3> QED BY <2>0, <3>2, <3>3, <3>4 DEF FitsOne
  <2> QED BY <1>2, <2>0, <2>1, <2>2
<1> QED BY <1>2, <1>3 DEF Fits

(* What the server does: its list is as it was but for configurations of the next number. *)
LEMMA ListGrows ==
  ASSUME NEW s \in Seq(Entries), NEW l \in Nat, ListOK(s, l), NEW r,
         \A i \in DOMAIN r : r[i].seq = l + 1 \/ \E k \in DOMAIN s : r[i] = s[k]
  PROVE  Grows(s, l, r, l + 1) /\ \A i \in DOMAIN r : r[i].seq <= l + 1
<1>1. \A k \in DOMAIN s : s[k].seq \in Nat /\ s[k].seq <= l
  <2>1. \A k \in DOMAIN s : s[k].seq \in Nat
    BY EntryIds, ConfigSizes
  <2> QED BY <2>1 DEF ListOK
<1>2. ASSUME NEW i \in DOMAIN r PROVE r[i].seq <= l + 1
  <2>1. CASE r[i].seq = l + 1
    BY <2>1
  <2>2. ASSUME NEW k \in DOMAIN s, r[i] = s[k] PROVE r[i].seq <= l + 1
    BY <1>1, <2>2
  <2> QED BY <2>1, <2>2
<1>3. ASSUME NEW id \in Ids, NEW q \in Nat, Known(s, l, id, q) PROVE Known(r, l + 1, id, q)
  <2>1. q <= l /\ \A k \in DOMAIN s : s[k].id = id => q <= s[k].seq
    BY <1>3 DEF Known
  <2>2. ASSUME NEW i \in DOMAIN r, r[i].id = id PROVE q <= r[i].seq
    <3>1. CASE r[i].seq = l + 1
      BY <2>1, <3>1
    <3>2. ASSUME NEW k \in DOMAIN s, r[i] = s[k] PROVE q <= r[i].seq
      BY <2>1, <2>2, <3>2
    <3> QED BY <3>1, <3>2
  <2>3. q <= l + 1
    BY <2>1
  <2> QED BY <2>2, <2>3 DEF Known
<1> QED BY <1>2, <1>3 DEF Grows

LEMMA ListAdds ==
  ASSUME NEW s \in Seq(Entries), NEW l \in Nat, ListOK(s, l), NEW e \in Entries,
         e.id \notin IdsOf(s), e.seq = l + 1, NEW r, r = <<e>> \o s
  PROVE  r \in Seq(Entries) /\ ListOK(r, l + 1) /\ Grows(s, l, r, l + 1)
<1>1. PICK n \in Nat : n = Len(s) /\ DOMAIN s = 1 .. n
  OBVIOUS
<1>2. PICK f \in Seq(Entries) : f = <<e>> /\ Len(f) = 1 /\ f[1] = e
  <2>1. <<e>> \in Seq(Entries) /\ Len(<<e>>) = 1 /\ <<e>>[1] = e
    BY ONLY e \in Entries
  <2> QED BY <2>1
<1>3. /\ f \o s \in Seq(Entries) /\ Len(f \o s) = Len(f) + Len(s)
      /\ \A i \in 1 .. Len(f) + Len(s) : (f \o s)[i] = IF i <= Len(f) THEN f[i] ELSE s[i - Len(f)]
  BY ONLY f \in Seq(Entries), s \in Seq(Entries), ConcatProperties
<1>4. /\ r \in Seq(Entries) /\ Len(r) = 1 + n
      /\ \A i \in 1 .. 1 + n : r[i] = IF i <= 1 THEN f[i] ELSE s[i - 1]
  BY <1>1, <1>2, <1>3
<1>5. DOMAIN r = 1 .. 1 + n
  BY <1>4
<1>6. \A i \in 1 .. 1 + n : (i = 1 /\ r[i] = e) \/ (i # 1 /\ i - 1 \in 1 .. n /\ r[i] = s[i - 1])
  <2> SUFFICES ASSUME NEW i \in 1 .. 1 + n
               PROVE  (i = 1 /\ r[i] = e) \/ (i # 1 /\ i - 1 \in 1 .. n /\ r[i] = s[i - 1])
    OBVIOUS
  <2>1. CASE i = 1
    <3>1. 1 \in 1 .. 1 + n
      OBVIOUS
    <3>2. r[1] = IF 1 <= 1 THEN f[1] ELSE s[1 - 1]
      BY ONLY <1>4, <3>1
    <3>3. r[1] = f[1]
      BY ONLY <3>2
    <3> QED BY <1>2, <2>1, <3>3
  <2>2. CASE i # 1
    <3>1. ~(i <= 1) /\ i - 1 \in 1 .. n
      BY <2>2
    <3> QED BY <1>4, <2>2, <3>1
  <2> QED BY <2>1, <2>2
<1>7. \A i \in DOMAIN r : r[i].seq = l + 1 \/ \E k \in DOMAIN s : r[i] = s[k]
  BY <1>1, <1>5, <1>6
<1>8. Grows(s, l, r, l + 1) /\ \A i \in DOMAIN r : r[i].seq <= l + 1
  BY <1>7, ListGrows
<1>9. Distinct(r)
  <2> SUFFICES ASSUME NEW i \in 1 .. 1 + n, NEW k \in 1 .. 1 + n, r[i].id = r[k].id PROVE i = k
    BY <1>5 DEF Distinct
  <2>1. \A m \in 1 .. n : s[m].id # e.id
    BY <1>1 DEF IdsOf
  <2>2. CASE i = 1 \/ k = 1
    <3>1. \A m \in 1 .. 1 + n : m # 1 => r[m].id # e.id
      BY <1>6, <2>1
    <3>2. \A m \in 1 .. 1 + n : m = 1 => r[m].id = e.id
      BY <1>6
    <3> QED BY <2>2, <3>1, <3>2
  <2>3. CASE i # 1 /\ k # 1
    <3>1. i - 1 \in 1 .. n /\ k - 1 \in 1 .. n /\ s[i - 1].id = s[k - 1].id
      BY <1>6, <2>3
    <3>2. i - 1 = k - 1
      BY <1>1, <3>1 DEF ListOK, Distinct
    <3> QED BY <3>2
  <2> QED BY <2>2, <2>3
<1> QED BY <1>4, <1>8, <1>9 DEF ListOK

LEMMA ListChanges ==
  ASSUME NEW s \in Seq(Entries), NEW l \in Nat, ListOK(s, l), NEW id, l + 1 \in 1 .. MaxSeq,
         NEW r, r = [i \in DOMAIN s |-> IF s[i].id = id THEN [s[i] EXCEPT !.seq = l + 1] ELSE s[i]]
  PROVE  r \in Seq(Entries) /\ ListOK(r, l + 1) /\ Grows(s, l, r, l + 1)
<1>1. PICK n \in Nat : n = Len(s) /\ DOMAIN s = 1 .. n
  OBVIOUS
<1>2. DOMAIN r = 1 .. n
  BY <1>1
<1>3. ASSUME NEW i \in 1 .. n PROVE r[i] \in Entries /\ r[i].id = s[i].id /\ (r[i].seq = l + 1 \/ r[i] = s[i])
  <2>0. PICK e \in Entries : e = s[i]
    BY <1>1
  <2>1. CASE e.id = id
    <3>1. r[i] = [e EXCEPT !.seq = l + 1]
      BY <1>1, <2>0, <2>1
    <3>2. [e EXCEPT !.seq = l + 1] \in Entries /\ [e EXCEPT !.seq = l + 1].id = e.id
             /\ [e EXCEPT !.seq = l + 1].seq = l + 1
      BY DEF Entries
    <3> QED BY <2>0, <3>1, <3>2
  <2>2. CASE e.id # id
    <3>1. r[i] = e
      BY <1>1, <2>0, <2>2
    <3> QED BY <2>0, <3>1
  <2> QED BY <2>1, <2>2
<1>4. r \in Seq(Entries)
  <2>0. r = [i \in 1 .. n |-> r[i]]
    BY <1>1, <1>2
  <2>1. r \in [1 .. n -> Entries]
    BY <1>3, <2>0
  <2> QED BY <2>1
<1>5. \A i \in DOMAIN r : r[i].seq = l + 1 \/ \E k \in DOMAIN s : r[i] = s[k]
  BY <1>1, <1>2, <1>3
<1>6. Grows(s, l, r, l + 1) /\ \A i \in DOMAIN r : r[i].seq <= l + 1
  <2>1. ListOK(s, l)
    OBVIOUS
  <2> QED BY ONLY s \in Seq(Entries), l \in Nat, <1>5, <2>1, ListGrows
<1>7. Distinct(r)
  BY <1>1, <1>2, <1>3 DEF ListOK, Distinct
<1> QED BY <1>4, <1>6, <1>7 DEF ListOK

LEMMA ListDeletes ==
  ASSUME NEW s \in Seq(Entries), NEW l \in Nat, ListOK(s, l), NEW K, NEW r, r = Picked(s, K)
  PROVE  r \in Seq(Entries) /\ ListOK(r, l + 1) /\ Grows(s, l, r, l + 1)
<1>0. /\ r \in Seq(Entries)
      /\ \A i \in DOMAIN r : \E k \in DOMAIN s : k \in K /\ r[i] = s[k]
      /\ Distinct(s) => Distinct(r)
  BY PickedElements
<1>1. \A i \in DOMAIN r : r[i].seq = l + 1 \/ \E k \in DOMAIN s : r[i] = s[k]
  BY <1>0
<1>2. Grows(s, l, r, l + 1) /\ \A i \in DOMAIN r : r[i].seq <= l + 1
  BY <1>1, ListGrows
<1> QED BY <1>0, <1>2 DEF ListOK

LEMMA ServerStep ==
  ASSUME srv \in Seq(Entries), last \in 0 .. MaxSeq, ListOK(srv, last), NEW id \in Ids,
         ReadTableConfigInfo(id)
  PROVE  srv' \in Seq(Entries) /\ last' \in 0 .. MaxSeq /\ ListOK(srv', last') /\ Grows(srv, last, srv', last')
<1>1. last \in Nat /\ last < MaxSeq /\ last' = last + 1 /\ last + 1 \in 1 .. MaxSeq
  BY ConfigSizes DEF ReadTableConfigInfo
<1>2. CASE id \notin IdsOf(srv) /\ srv' = <<[id |-> id, seq |-> last']>> \o srv
  <2>1. PICK e \in Entries : e = [id |-> id, seq |-> last + 1]
    BY <1>1 DEF Entries
  <2>2. e.id \notin IdsOf(srv) /\ e.seq = last + 1 /\ srv' = <<e>> \o srv
    BY <1>1, <1>2, <2>1
  <2>3. srv' \in Seq(Entries) /\ ListOK(srv', last + 1) /\ Grows(srv, last, srv', last + 1)
    BY <1>1, <2>2, ListAdds
  <2> QED BY <1>1, <2>3
<1>3. CASE srv' = [i \in DOMAIN srv |-> IF srv[i].id = id THEN [srv[i] EXCEPT !.seq = last'] ELSE srv[i]]
  <2>1. srv' = [i \in DOMAIN srv |-> IF srv[i].id = id THEN [srv[i] EXCEPT !.seq = last + 1] ELSE srv[i]]
    BY <1>1, <1>3
  <2>2. srv' \in Seq(Entries) /\ ListOK(srv', last + 1) /\ Grows(srv, last, srv', last + 1)
    BY <1>1, <2>1, ListChanges
  <2> QED BY <1>1, <2>2
<1>4. CASE srv' = Picked(srv, {i \in DOMAIN srv : srv[i].id # id})
  <2> DEFINE K == {i \in DOMAIN srv : srv[i].id # id}
  <2>1. srv' = Picked(srv, K)
    BY <1>4
  <2> HIDE DEF K
  <2>2. srv' \in Seq(Entries) /\ ListOK(srv', last + 1) /\ Grows(srv, last, srv', last + 1)
    BY <1>1, <2>1, ListDeletes
  <2> QED BY <1>1, <2>2
<1> QED BY <1>2, <1>3, <1>4 DEF ReadTableConfigInfo

-----------------------------------------------------------------------------
(***************************************************************************)
(* The inductive invariant.  An answer is taken only for the request the   *)
(* agent waits for: all packets with its number are that request, or       *)
(* answers that fit the table, which stays as it is while the agent waits. *)
(***************************************************************************)
Own(m, r, s, l, t) ==
  m.key = r.key => /\ m.kind = "check" => m = r
                   /\ m.kind = "answer" => Fits(s, l, t, m.body)

Asking ==
  phase = "wait" => /\ IdsOf(req.body) = IdsOf(stLogConfig) /\ Distinct(req.body)
                    /\ \A m \in net : Own(m, req, srv, last, stLogConfig)

Applying ==
  /\ phase = "apply" => Fits(srv, last, stLogConfig, todo)
  /\ phase # "apply" => todo = <<>>

Plain == \A m \in net : m.kind = "check" => Distinct(m.body)

Inv == /\ TypeOK /\ ListOK(srv, last) /\ TableOK(srv, last, stLogConfig)
       /\ Asking /\ Applying /\ Plain

(* What a step keeps. *)
Kept == Inv' /\ NotBack(stLogConfig, stLogConfig')

LEMMA MessageTypes ==
  ASSUME NEW m \in Requests \cup Answers
  PROVE  /\ m.key \in Keys
         /\ m.kind = "check" => m \in Requests /\ m.body \in Seq(Asked)
         /\ m.kind = "answer" => m \in Answers /\ m.body \in Seq(Tlvs)
<1>1. CASE m \in Requests
  <2>1. m.kind = "check" /\ m.key \in Keys /\ m.body \in Seq(Asked)
    BY <1>1 DEF Requests
  <2> QED BY <1>1, <2>1
<1>2. CASE m \in Answers
  <2>1. m.kind = "answer" /\ m.key \in Keys /\ m.body \in Seq(Tlvs)
    BY <1>2 DEF Answers
  <2> QED BY <1>2, <2>1
<1> QED BY <1>1, <1>2

LEMMA RequestTypes ==
  ASSUME NEW r \in Requests
  PROVE  r.kind = "check" /\ r.key \in Keys /\ r.body \in Seq(Asked)
BY DEF Requests

LEMMA NotBackSame ==
  ASSUME NEW t \in Seq(Entries), Ordered(t)
  PROVE  NotBack(t, t)
<1> SUFFICES ASSUME NEW i \in DOMAIN t, NEW k \in DOMAIN t, t[i].id = t[k].id PROVE t[i].seq <= t[k].seq
  BY DEF NotBack
<1>1. i = k
  BY OrderedDistinct DEF Distinct
<1>2. t[i].seq \in Int
  BY EntryIds
<1> QED BY <1>1, <1>2

LEMMA EmptyFits ==
  ASSUME NEW s, NEW l, NEW t
  PROVE  <<>> \in Seq(Tlvs) /\ Fits(s, l, t, <<>>)
<1>1. DOMAIN <<>> = {}
  OBVIOUS
<1>2. <<>> \in Seq(Tlvs)
  BY EmptySeq
<1>3. Distinct(<<>>)
  BY <1>1 DEF Distinct
<1> QED BY <1>1, <1>2, <1>3 DEF Fits

LEMMA CheckValue ==
  ASSUME NEW t \in Seq(Entries), Ordered(t), NEW k \in Keys
  PROVE  /\ Check(t, k) \in Requests /\ Check(t, k).key = k
         /\ IdsOf(Check(t, k).body) = IdsOf(t) /\ Distinct(Check(t, k).body)
<1>1. Entries \subseteq Asked
  BY ConfigSizes DEF Entries, Asked
<1>2. t \in Seq(Asked)
  BY <1>1, SeqMonotonic
<1>3. Check(t, k) \in Requests /\ Check(t, k).key = k /\ Check(t, k).body = t
  BY <1>2 DEF Check, Requests
<1>4. Distinct(t)
  BY OrderedDistinct
<1> QED BY <1>3, <1>4

LEMMA FirstCheckValue ==
  ASSUME NEW t \in Seq(Entries), Ordered(t), NEW k \in Keys
  PROVE  /\ FirstCheck(t, k) \in Requests /\ FirstCheck(t, k).key = k
         /\ IdsOf(FirstCheck(t, k).body) = IdsOf(t) /\ Distinct(FirstCheck(t, k).body)
<1> DEFINE b == [i \in DOMAIN t |-> [t[i] EXCEPT !.seq = @ - 1]]
<1>1. PICK n \in Nat : n = Len(t) /\ DOMAIN t = 1 .. n
  OBVIOUS
<1>2. DOMAIN b = 1 .. n
  BY <1>1
<1>3. ASSUME NEW i \in 1 .. n PROVE b[i] \in Asked /\ b[i].id = t[i].id
  <2>1. PICK e \in Entries : e = t[i]
    BY <1>1
  <2>2. b[i] = [e EXCEPT !.seq = @ - 1]
    BY <1>1, <2>1
  <2>3. e.id \in Ids /\ e.seq - 1 \in 0 .. MaxSeq
    BY ConfigSizes DEF Entries
  <2>4. [e EXCEPT !.seq = @ - 1] = [id |-> e.id, seq |-> e.seq - 1]
    BY DEF Entries
  <2>5. b[i] = [id |-> e.id, seq |-> e.seq - 1]
    BY <2>2, <2>4
  <2> QED BY <2>1, <2>3, <2>5 DEF Asked
<1>e. b = [i \in 1 .. n |-> b[i]]
  BY <1>1
<1> HIDE DEF b
<1>4. b \in Seq(Asked)
  <2>1. b \in [1 .. n -> Asked]
    BY <1>3, <1>e
  <2> QED BY <2>1
<1>5. FirstCheck(t, k) = [kind |-> "check", key |-> k, body |-> b]
  BY DEF FirstCheck, Check, b
<1>6. FirstCheck(t, k) \in Requests /\ FirstCheck(t, k).key = k /\ FirstCheck(t, k).body = b
  BY <1>4, <1>5 DEF Requests
<1>7. Distinct(t)
  BY OrderedDistinct
<1>8. Distinct(b) /\ IdsOf(b) = IdsOf(t)
  BY <1>1, <1>2, <1>3, <1>7 DEF Distinct, IdsOf
<1> QED BY <1>6, <1>8

-----------------------------------------------------------------------------
(***************************************************************************)
(* The steps.                                                              *)
(***************************************************************************)
LEMMA InitInv ==
  ASSUME Init
  PROVE  Inv
<1>1. PICK k \in Keys : req = FirstCheck(<<>>, k)
  BY DEF Init
<1>2. /\ srv = <<>> /\ last = 0 /\ stLogConfig = <<>> /\ phase = "wait" /\ todo = <<>> /\ pcfg = FALSE
      /\ net = {} /\ faults = 0
  BY DEF Init
<1>3. <<>> \in Seq(Entries) /\ <<>> \in Seq(Tlvs) /\ Len(<<>>) = 0 /\ DOMAIN <<>> = {}
  BY EmptySeq
<1>4. Ordered(<<>>) /\ Distinct(<<>>)
  BY <1>3 DEF Ordered, Distinct
<1>5. /\ req \in Requests
      /\ IdsOf(req.body) = IdsOf(<<>>) /\ Distinct(req.body)
  BY <1>1, <1>3, <1>4, FirstCheckValue
<1>6. TypeOK
  <2>1. srv \in Seq(Entries) /\ last \in 0 .. MaxSeq /\ stLogConfig \in Seq(Entries)
    BY <1>2, <1>3, ConfigSizes
  <2>2. Len(stLogConfig) <= MaxCfg /\ faults \in 0 .. MaxFaults
    BY <1>2, <1>3, ConfigSizes
  <2>3. /\ phase \in {"wait", "apply", "crash"} /\ req \in IF phase = "wait" THEN Requests ELSE {NoReq}
        /\ todo \in Seq(Tlvs) /\ pcfg \in BOOLEAN /\ net \subseteq Requests \cup Answers
    BY <1>2, <1>3, <1>5
  <2> QED BY <2>1, <2>2, <2>3 DEF TypeOK
<1>7. ListOK(srv, last) /\ TableOK(srv, last, stLogConfig)
  BY <1>2, <1>3, <1>4 DEF ListOK, TableOK
<1>8. Asking /\ Applying /\ Plain
  BY <1>2, <1>5 DEF Asking, Applying, Plain
<1> QED BY <1>6, <1>7, <1>8 DEF Inv

(* Nothing of the tables changes. *)
LEMMA SameTables ==
  ASSUME Inv, UNCHANGED <<srv, last, stLogConfig>>
  PROVE  /\ srv' \in Seq(Entries) /\ last' \in 0 .. MaxSeq
         /\ stLogConfig' \in Seq(Entries) /\ Len(stLogConfig') <= MaxCfg
         /\ ListOK(srv', last') /\ TableOK(srv', last', stLogConfig')
         /\ NotBack(stLogConfig, stLogConfig')
<1>1. srv' = srv /\ last' = last /\ stLogConfig' = stLogConfig
  OBVIOUS
<1>2. /\ srv \in Seq(Entries) /\ last \in 0 .. MaxSeq /\ stLogConfig \in Seq(Entries)
      /\ Len(stLogConfig) <= MaxCfg
      /\ ListOK(srv, last) /\ TableOK(srv, last, stLogConfig)
  BY DEF Inv, TypeOK
<1>3. NotBack(stLogConfig, stLogConfig)
  BY <1>2, NotBackSame DEF TableOK
<1> QED BY <1>1, <1>2, <1>3

LEMMA ReadTableConfigInfoKeeps ==
  ASSUME Inv, NEW id \in Ids, ReadTableConfigInfo(id)
  PROVE  Kept
<1>1. /\ stLogConfig' = stLogConfig /\ req' = req /\ phase' = phase /\ todo' = todo /\ pcfg' = pcfg
      /\ net' = net /\ faults' = faults
  BY DEF ReadTableConfigInfo, agent
<1>2. TypeOK /\ ListOK(srv, last) /\ TableOK(srv, last, stLogConfig)
  BY DEF Inv
<1>3. /\ srv' \in Seq(Entries) /\ last' \in 0 .. MaxSeq /\ ListOK(srv', last')
      /\ Grows(srv, last, srv', last')
  BY <1>2, ServerStep DEF TypeOK
<1>4. stLogConfig \in Seq(Entries) /\ todo \in Seq(Tlvs) /\ net \subseteq Requests \cup Answers
  BY <1>2 DEF TypeOK
<1>5. TypeOK'
  BY <1>1, <1>2, <1>3 DEF TypeOK
<1>6. TableOK(srv', last', stLogConfig)
  BY <1>2, <1>3, <1>4, TableGrows
<1>7. Asking'
  <2> SUFFICES ASSUME phase = "wait", NEW m \in net, m.key = req.key, m.kind = "answer"
               PROVE  Fits(srv', last', stLogConfig, m.body)
    BY <1>1 DEF Inv, Asking, Own
  <2>1. Fits(srv, last, stLogConfig, m.body)
    BY DEF Inv, Asking, Own
  <2>2. m.body \in Seq(Tlvs)
    BY <1>4, MessageTypes
  <2> QED BY <1>3, <2>1, <2>2, AnswerGrows
<1>8. Applying'
  <2>1. phase = "apply" => Fits(srv', last', stLogConfig, todo)
    <3> SUFFICES ASSUME phase = "apply" PROVE Fits(srv', last', stLogConfig, todo)
      OBVIOUS
    <3>1. Fits(srv, last, stLogConfig, todo)
      BY DEF Inv, Applying
    <3> QED BY <1>3, <1>4, <3>1, AnswerGrows
  <2> QED BY <1>1, <2>1 DEF Inv, Applying
<1>9. Plain'
  BY <1>1 DEF Inv, Plain
<1>10. NotBack(stLogConfig, stLogConfig)
  BY <1>2, <1>4, NotBackSame DEF TableOK
<1> QED BY <1>1, <1>3, <1>5, <1>6, <1>7, <1>8, <1>9, <1>10 DEF Inv, Kept

(* A packet of the server or of the agent is added. *)
LEMMA SendKeeps ==
  ASSUME Inv, UNCHANGED <<srv, last, agent>>, faults' \in 0 .. MaxFaults,
         NEW m \in Requests \cup Answers, net' = net \cup {m},
         m.kind = "check" => Distinct(m.body),
         phase = "wait" => Own(m, req, srv, last, stLogConfig)
  PROVE  Kept
<1>1. /\ srv' = srv /\ last' = last /\ stLogConfig' = stLogConfig /\ req' = req /\ phase' = phase
      /\ todo' = todo /\ pcfg' = pcfg
  BY DEF agent
<1>2. /\ ListOK(srv', last') /\ TableOK(srv', last', stLogConfig') /\ NotBack(stLogConfig, stLogConfig')
  BY <1>1, SameTables
<1>3. TypeOK'
  BY <1>1 DEF Inv, TypeOK
<1>4. Asking'
  BY <1>1 DEF Inv, Asking
<1>5. Applying'
  BY <1>1 DEF Inv, Applying
<1>6. Plain'
  BY DEF Inv, Plain
<1> QED BY <1>2, <1>3, <1>4, <1>5, <1>6 DEF Inv, Kept

LEMMA OnCmdExpireKeeps ==
  ASSUME Inv, OnCmdExpire
  PROVE  Kept
<1>1. phase = "wait" /\ net' = net \cup {req} /\ UNCHANGED <<srv, last, agent, faults>>
  BY DEF OnCmdExpire, Send
<1>2. req \in Requests /\ faults \in 0 .. MaxFaults /\ Distinct(req.body)
  BY <1>1 DEF Inv, TypeOK, Asking
<1>3. req.kind = "check"
  BY <1>2, RequestTypes
<1>4. Own(req, req, srv, last, stLogConfig)
  BY <1>3 DEF Own
<1>5. UNCHANGED <<srv, last, agent>> /\ faults' \in 0 .. MaxFaults
  BY <1>1, <1>2
<1>6. PICK m \in Requests \cup Answers : m = req
  BY <1>2
<1> QED BY <1>1, <1>2, <1>4, <1>5, SendKeeps

(* What the server answers to a packet. *)
LEMMA AnswerKeeps ==
  ASSUME Inv, UNCHANGED <<srv, last, agent>>, faults' \in 0 .. MaxFaults,
         NEW m \in net, m.kind = "check", NEW a \in Seq(Tlvs), Answer(m, a),
         (phase = "wait" /\ m = req) => Fits(srv, last, stLogConfig, a)
  PROVE  Kept
<1>1. PICK w : w = [kind |-> "answer", key |-> m.key, body |-> a]
  OBVIOUS
<1>2. net' = net \cup {w}
  BY <1>1 DEF Answer, Send
<1>3. m \in Requests \cup Answers
  BY DEF Inv, TypeOK
<1>4. m.key \in Keys
  BY <1>3, MessageTypes
<1>5. w \in Requests \cup Answers /\ w.kind = "answer" /\ w.key = m.key /\ w.body = a
  BY <1>1, <1>4 DEF Answers
<1>6. phase = "wait" => Own(w, req, srv, last, stLogConfig)
  <2> SUFFICES ASSUME phase = "wait", m.key = req.key PROVE Fits(srv, last, stLogConfig, a)
    BY <1>5 DEF Own
  <2>1. m = req
    BY DEF Inv, Asking, Own
  <2> QED BY <2>1
<1>7. w.kind = "check" => Distinct(w.body)
  BY <1>5
<1> QED BY <1>2, <1>5, <1>6, <1>7, SendKeeps

LEMMA DealCmdCheckLogConfigKeeps ==
  ASSUME Inv, NEW m \in net, DealCmdCheckLogConfig(m)
  PROVE  Kept
<1>1. m.kind = "check" /\ UNCHANGED <<srv, last, agent, faults>> /\ Answer(m, SetLogConfigCheckInfo(m.body))
  BY DEF DealCmdCheckLogConfig
<1>2. /\ srv \in Seq(Entries) /\ ListOK(srv, last) /\ stLogConfig \in Seq(Entries)
      /\ TableOK(srv, last, stLogConfig) /\ faults \in 0 .. MaxFaults
      /\ net \subseteq Requests \cup Answers
  BY DEF Inv, TypeOK
<1>3. m.body \in Seq(Asked) /\ Distinct(m.body)
  BY <1>1, <1>2, MessageTypes DEF Inv, Plain
<1>4. PICK a \in Seq(Tlvs) : a = SetLogConfigCheckInfo(m.body)
  <2>1. Distinct(srv)
    BY <1>2 DEF ListOK
  <2> QED BY <1>2, <1>3, <2>1, AnswerValue
<1>5. ASSUME phase = "wait", m = req PROVE Fits(srv, last, stLogConfig, a)
  <2>1. IdsOf(m.body) = IdsOf(stLogConfig)
    BY <1>5 DEF Inv, Asking
  <2> QED BY <1>2, <1>3, <1>4, <2>1, AnswerFits
<1>6. UNCHANGED <<srv, last, agent>> /\ faults' \in 0 .. MaxFaults /\ Answer(m, a)
  BY <1>1, <1>2, <1>4
<1> QED BY <1>1, <1>5, <1>6, AnswerKeeps

LEMMA RefuseKeeps ==
  ASSUME Inv, NEW m \in net, Refuse(m)
  PROVE  Kept
<1>1. /\ m.kind = "check" /\ UNCHANGED <<srv, last, agent>> /\ Answer(m, <<>>)
      /\ faults < MaxFaults /\ faults' = faults + 1
  BY DEF Refuse
<1>2. faults' \in 0 .. MaxFaults
  BY <1>1, ConfigSizes DEF Inv, TypeOK
<1>3. PICK a \in Seq(Tlvs) : a = <<>> /\ Fits(srv, last, stLogConfig, a)
  BY EmptyFits
<1>4. Answer(m, a)
  BY <1>1, <1>3
<1> QED BY <1>1, <1>2, <1>3, <1>4, AnswerKeeps

LEMMA LoseKeeps ==
  ASSUME Inv, NEW m \in net, Lose(m)
  PROVE  Kept
<1>1. /\ srv' = srv /\ last' = last /\ stLogConfig' = stLogConfig /\ req' = req /\ phase' = phase
      /\ todo' = todo /\ pcfg' = pcfg /\ faults' = faults /\ net' \subseteq net
  BY DEF Lose, agent
<1>2. /\ ListOK(srv', last') /\ TableOK(srv', last', stLogConfig') /\ NotBack(stLogConfig, stLogConfig')
  BY <1>1, SameTables
<1>3. TypeOK'
  BY <1>1 DEF Inv, TypeOK
<1>4. Asking'
  BY <1>1 DEF Inv, Asking
<1>5. Applying'
  BY <1>1 DEF Inv, Applying
<1>6. Plain'
  BY <1>1 DEF Inv, Plain
<1> QED BY <1>2, <1>3, <1>4, <1>5, <1>6 DEF Inv, Kept

LEMMA OnMtreportPkgKeeps ==
  ASSUME Inv, NEW m \in net, OnMtreportPkg(m)
  PROVE  Kept
<1>1. /\ phase = "wait" /\ m.kind = "answer" /\ m.key = req.key
      /\ phase' = "apply" /\ req' = NoReq /\ todo' = m.body /\ pcfg' = FALSE
      /\ srv' = srv /\ last' = last /\ stLogConfig' = stLogConfig /\ net' = net /\ faults' = faults
  BY DEF OnMtreportPkg
<1>2. /\ ListOK(srv', last') /\ TableOK(srv', last', stLogConfig') /\ NotBack(stLogConfig, stLogConfig')
  BY <1>1, SameTables
<1>3. m.body \in Seq(Tlvs)
  BY <1>1, MessageTypes DEF Inv, TypeOK
<1>4. TypeOK'
  BY <1>1, <1>3 DEF Inv, TypeOK
<1>5. Asking'
  BY <1>1 DEF Asking
<1>6. Applying'
  BY <1>1 DEF Inv, Applying, Asking, Own
<1>7. Plain'
  BY <1>1 DEF Inv, Plain
<1> QED BY <1>2, <1>4, <1>5, <1>6, <1>7 DEF Inv, Kept

(* An item of the answer: the table goes on to one the rest of the answer fits. *)
LEMMA ItemKeeps ==
  ASSUME Inv, phase = "apply", UNCHANGED <<srv, last, req, net, faults>>, pcfg' \in BOOLEAN,
         stLogConfig' \in Seq(Entries), Len(stLogConfig') <= MaxCfg,
         TableOK(srv, last, stLogConfig'), NotBack(stLogConfig, stLogConfig'),
         \/ phase' = "apply" /\ todo' \in Seq(Tlvs) /\ Fits(srv, last, stLogConfig', todo')
         \/ phase' = "crash" /\ todo' = <<>>
  PROVE  Kept
<1>1. srv' = srv /\ last' = last /\ req' = req /\ net' = net /\ faults' = faults
  OBVIOUS
<1>2. todo' \in Seq(Tlvs) /\ phase' \in {"apply", "crash"}
  BY EmptyFits
<1>3. req = NoReq
  BY DEF Inv, TypeOK
<1>4. TypeOK'
  <2>1. req' \in IF phase' = "wait" THEN Requests ELSE {NoReq}
    BY <1>1, <1>2, <1>3
  <2> QED BY <1>1, <1>2, <2>1 DEF Inv, TypeOK
<1>5. Asking'
  BY <1>2 DEF Asking
<1>6. Applying'
  BY <1>1 DEF Applying
<1>7. Plain'
  BY <1>1 DEF Inv, Plain
<1>8. ListOK(srv', last') /\ TableOK(srv', last', stLogConfig')
  BY <1>1 DEF Inv
<1> QED BY <1>4, <1>5, <1>6, <1>7, <1>8 DEF Inv, Kept

LEMMA DealRespCheckLogConfigKeeps ==
  ASSUME Inv, DealRespCheckLogConfig
  PROVE  Kept
<1>1. phase = "apply" /\ todo # <<>> /\ UNCHANGED <<srv, last, req, net, faults>>
  BY DEF DealRespCheckLogConfig
<1>2. /\ stLogConfig \in Seq(Entries) /\ TableOK(srv, last, stLogConfig) /\ todo \in Seq(Tlvs)
      /\ Fits(srv, last, stLogConfig, todo) /\ pcfg \in BOOLEAN
      /\ Len(stLogConfig) \in Nat /\ Len(stLogConfig) <= MaxCfg /\ MaxCfg \in Nat
  BY <1>1, ConfigSizes DEF Inv, TypeOK, Applying
<1>3. CASE AddConfig
  <2>0. Head(todo).op = "add" /\ pcfg' = TRUE /\ phase' = "apply"
    BY <1>1, <1>3 DEF AddConfig
  <2>1. CASE /\ Len(stLogConfig) < MaxCfg /\ todo' = Tail(todo)
             /\ stLogConfig' = Qsort(Append(stLogConfig, Entry(Head(todo))))
    <3>1. /\ Step(srv, last, stLogConfig, stLogConfig', todo)
          /\ Len(stLogConfig') = Len(stLogConfig) + 1
      BY <1>1, <1>2, <2>0, <2>1, AddStep
    <3>2. Len(stLogConfig') <= MaxCfg
      BY <1>2, <2>1, <3>1
    <3>3. /\ stLogConfig' \in Seq(Entries) /\ TableOK(srv, last, stLogConfig')
          /\ NotBack(stLogConfig, stLogConfig')
          /\ todo' \in Seq(Tlvs) /\ Fits(srv, last, stLogConfig', todo')
      BY <2>1, <3>1 DEF Step
    <3> QED BY <1>1, <2>0, <3>2, <3>3, ItemKeeps
  <2>2. CASE todo' = <<>> /\ stLogConfig' = stLogConfig
    <3>1. NotBack(stLogConfig, stLogConfig)
      BY <1>2, NotBackSame DEF TableOK
    <3>2. <<>> \in Seq(Tlvs) /\ Fits(srv, last, stLogConfig, <<>>)
      BY EmptyFits
    <3>3. /\ stLogConfig' \in Seq(Entries) /\ TableOK(srv, last, stLogConfig')
          /\ NotBack(stLogConfig, stLogConfig') /\ Len(stLogConfig') <= MaxCfg
          /\ todo' \in Seq(Tlvs) /\ Fits(srv, last, stLogConfig', todo')
      BY <1>2, <2>2, <3>1, <3>2
    <3> QED BY <1>1, <2>0, <3>3, ItemKeeps
  <2> QED BY <1>3, <2>1, <2>2 DEF AddConfig
<1>4. CASE ModConfig
  <2>0. /\ Head(todo).op = "mod" /\ pcfg' = TRUE /\ phase' = "apply" /\ todo' = Tail(todo)
        /\ stLogConfig' = [stLogConfig EXCEPT ![Bsearch(stLogConfig, Head(todo).id)] = Entry(Head(todo))]
    BY <1>1, <1>4 DEF ModConfig
  <2>1. /\ Step(srv, last, stLogConfig, stLogConfig', todo)
        /\ Len(stLogConfig') = Len(stLogConfig)
    <3>1. Head(todo).op = "mod" /\ todo # <<>> /\ stLogConfig \in Seq(Entries) /\ todo \in Seq(Tlvs)
      BY <1>1, <1>2, <2>0
    <3>2. TableOK(srv, last, stLogConfig) /\ Fits(srv, last, stLogConfig, todo)
      BY <1>2
    <3>3. stLogConfig' = Changed(stLogConfig, Head(todo))
      BY <2>0 DEF Changed
    <3> QED BY ONLY <3>1, <3>2, <3>3, ModStep
  <2>2. /\ stLogConfig' \in Seq(Entries) /\ TableOK(srv, last, stLogConfig')
        /\ NotBack(stLogConfig, stLogConfig') /\ Len(stLogConfig') <= MaxCfg
        /\ todo' \in Seq(Tlvs) /\ Fits(srv, last, stLogConfig', todo')
    BY <1>2, <2>0, <2>1 DEF Step
  <2> QED BY <1>1, <2>0, <2>2, ItemKeeps
<1>5. CASE DelConfig
  <2>0. /\ Head(todo).op = "del" /\ pcfg' = pcfg
        /\ stLogConfig' = RemoveAt(stLogConfig, Bsearch(stLogConfig, Head(todo).id))
        /\ (phase' = "crash" /\ todo' = <<>>) \/ (phase' = "apply" /\ todo' = Tail(todo))
    BY <1>1, <1>5 DEF DelConfig
  <2>1. /\ Step(srv, last, stLogConfig, stLogConfig', todo)
        /\ Len(stLogConfig') = Len(stLogConfig) - 1
    BY <1>1, <1>2, <2>0, DelStep
  <2>2. Len(stLogConfig') <= MaxCfg
    BY <1>2, <2>1
  <2>3. /\ stLogConfig' \in Seq(Entries) /\ TableOK(srv, last, stLogConfig')
        /\ NotBack(stLogConfig, stLogConfig')
        /\ Tail(todo) \in Seq(Tlvs) /\ Fits(srv, last, stLogConfig', Tail(todo))
    BY <2>1 DEF Step
  <2>4. \/ phase' = "apply" /\ todo' \in Seq(Tlvs) /\ Fits(srv, last, stLogConfig', todo')
        \/ phase' = "crash" /\ todo' = <<>>
    BY <2>0, <2>3
  <2>5. pcfg' \in BOOLEAN
    BY <1>2, <2>0
  <2> QED BY <1>1, <2>2, <2>3, <2>4, <2>5, ItemKeeps
<1> QED BY <1>3, <1>4, <1>5 DEF DealRespCheckLogConfig

(* A request with a number that no packet has. *)
LEMMA AskKeeps ==
  ASSUME Inv, UNCHANGED <<srv, last, stLogConfig, net>>, faults' \in 0 .. MaxFaults, pcfg' \in BOOLEAN,
         NEW k \in FreeKeys, phase' = "wait", todo' = <<>>,
         req' \in Requests, req'.key = k, IdsOf(req'.body) = IdsOf(stLogConfig), Distinct(req'.body)
  PROVE  Kept
<1>1. srv' = srv /\ last' = last /\ stLogConfig' = stLogConfig /\ net' = net
  OBVIOUS
<1>2. /\ ListOK(srv', last') /\ TableOK(srv', last', stLogConfig') /\ NotBack(stLogConfig, stLogConfig')
  BY <1>1, SameTables
<1>3. TypeOK'
  <2>1. todo' \in Seq(Tlvs)
    BY EmptyFits
  <2> QED BY <1>1, <2>1 DEF Inv, TypeOK
<1>4. \A m \in net : m.key # k
  BY DEF FreeKeys
<1>5. Asking'
  BY <1>1, <1>4 DEF Asking, Own
<1>6. Applying'
  BY DEF Applying
<1>7. Plain'
  BY <1>1 DEF Inv, Plain
<1> QED BY <1>2, <1>3, <1>5, <1>6, <1>7 DEF Inv, Kept

LEMMA InitCheckLogConfigKeeps ==
  ASSUME Inv, NEW k \in FreeKeys, InitCheckLogConfig(k)
  PROVE  Kept
<1>1. /\ todo = <<>> /\ req' = Check(stLogConfig, k) /\ phase' = "wait" /\ todo' = todo /\ pcfg' = pcfg
      /\ faults' = faults /\ UNCHANGED <<srv, last, stLogConfig, net>>
  BY DEF InitCheckLogConfig
<1>2. /\ stLogConfig \in Seq(Entries) /\ Ordered(stLogConfig) /\ k \in Keys
      /\ faults \in 0 .. MaxFaults /\ pcfg \in BOOLEAN
  BY DEF Inv, TypeOK, TableOK, FreeKeys
<1>3. /\ req' \in Requests /\ req'.key = k
      /\ IdsOf(req'.body) = IdsOf(stLogConfig) /\ Distinct(req'.body)
  BY <1>1, <1>2, CheckValue
<1>4. faults' \in 0 .. MaxFaults /\ pcfg' \in BOOLEAN /\ todo' = <<>>
  BY <1>1, <1>2
<1> QED BY <1>1, <1>3, <1>4, AskKeeps

LEMMA RestartKeeps ==
  ASSUME Inv, NEW k \in FreeKeys, Restart(k)
  PROVE  Kept
<1>1. /\ req' = FirstCheck(stLogConfig, k) /\ phase' = "wait" /\ todo' = <<>> /\ pcfg' = FALSE
      /\ UNCHANGED <<srv, last, stLogConfig, net>>
      /\ faults' = faults \/ (faults < MaxFaults /\ faults' = faults + 1)
  BY DEF Restart
<1>2. /\ stLogConfig \in Seq(Entries) /\ Ordered(stLogConfig) /\ k \in Keys
      /\ faults \in 0 .. MaxFaults
  BY DEF Inv, TypeOK, TableOK, FreeKeys
<1>3. /\ req' \in Requests /\ req'.key = k
      /\ IdsOf(req'.body) = IdsOf(stLogConfig) /\ Distinct(req'.body)
  <2>1. /\ FirstCheck(stLogConfig, k) \in Requests /\ FirstCheck(stLogConfig, k).key = k
        /\ IdsOf(FirstCheck(stLogConfig, k).body) = IdsOf(stLogConfig)
        /\ Distinct(FirstCheck(stLogConfig, k).body)
    BY ONLY <1>2, FirstCheckValue
  <2>2. req' = FirstCheck(stLogConfig, k)
    BY <1>1
  <2> QED BY ONLY <2>1, <2>2
<1>4. faults' \in 0 .. MaxFaults
  <2>1. MaxFaults \in Nat
    BY ConfigSizes
  <2> QED BY <1>1, <1>2, <2>1
<1>5. pcfg' \in BOOLEAN
  BY <1>1
<1> QED BY <1>1, <1>3, <1>4, <1>5, AskKeeps

LEMMA StutterKeeps ==
  ASSUME Inv, UNCHANGED vars
  PROVE  Kept
<1>1. /\ srv' = srv /\ last' = last /\ stLogConfig' = stLogConfig /\ req' = req /\ phase' = phase
      /\ todo' = todo /\ pcfg' = pcfg /\ faults' = faults /\ net' = net
  BY DEF vars, agent
<1>2. /\ ListOK(srv', last') /\ TableOK(srv', last', stLogConfig') /\ NotBack(stLogConfig, stLogConfig')
  BY <1>1, SameTables
<1>3. TypeOK'
  BY <1>1 DEF Inv, TypeOK
<1>4. Asking'
  BY <1>1 DEF Inv, Asking
<1>5. Applying' /\ Plain'
  BY <1>1 DEF Inv, Applying, Plain
<1> QED BY <1>2, <1>3, <1>4, <1>5 DEF Inv, Kept

LEMMA NextKeeps ==
  ASSUME Inv, [Next]_vars
  PROVE  Kept
<1>1. CASE UNCHANGED vars
  BY <1>1, StutterKeeps
<1>2. ASSUME NEW id \in Ids, ReadTableConfigInfo(id) PROVE Kept
  BY <1>2, ReadTableConfigInfoKeeps
<1>3. ASSUME NEW m \in net, DealCmdCheckLogConfig(m) \/ Refuse(m) \/ Lose(m) \/ OnMtreportPkg(m) PROVE Kept
  BY <1>3, DealCmdCheckLogConfigKeeps, RefuseKeeps, LoseKeeps, OnMtreportPkgKeeps
<1>4. ASSUME NEW k \in FreeKeys, InitCheckLogConfig(k) \/ Restart(k) PROVE Kept
  BY <1>4, InitCheckLogConfigKeeps, RestartKeeps
<1> QED BY <1>1, <1>2, <1>3, <1>4, OnCmdExpireKeeps, DealRespCheckLogConfigKeeps DEF Next

-----------------------------------------------------------------------------
(***************************************************************************)
(* The theorems.                                                           *)
(***************************************************************************)
LEMMA InvCorrect == Spec => []Inv
<1>1. Init => Inv
  BY InitInv
<1>2. Inv /\ [Next]_vars => Inv'
  BY NextKeeps DEF Kept
<1> QED BY <1>1, <1>2, PTL DEF Spec

(* For any number of configurations and any sizes of packets, tables and requests hold what *)
(* they may hold, and the agent's array is never overrun by the additions of an answer.     *)
THEOREM ConfigTypeCorrect == Spec => []TypeOK
<1>1. Inv => TypeOK
  BY DEF Inv
<1> QED BY <1>1, InvCorrect, PTL

LEMMA InvSorted ==
  ASSUME Inv
  PROVE  Sorted
<1>1. \A i, j \in DOMAIN stLogConfig : i < j => stLogConfig[i].id < stLogConfig[j].id
  BY DEF Inv, TableOK, Ordered
<1>2. ASSUME Missing PROVE FALSE
  <2>1. todo # <<>> /\ Head(todo).op # "add" /\ Bsearch(stLogConfig, Head(todo).id) = 0
    BY <1>2 DEF Missing
  <2>2. /\ stLogConfig \in Seq(Entries) /\ TableOK(srv, last, stLogConfig) /\ todo \in Seq(Tlvs)
        /\ Fits(srv, last, stLogConfig, todo)
    BY <2>1 DEF Inv, TypeOK, Applying
  <2>3. PICK h \in Tlvs : h = Head(todo) /\ FitsOne(srv, last, stLogConfig, h)
    BY <2>1, <2>2, FirstFits
  <2>4. h.id \in Ids
    BY TlvTypes
  <2>5. h.id \in IdsOf(stLogConfig)
    BY <2>1, <2>3 DEF FitsOne
  <2>6. Bsearch(stLogConfig, h.id) \in 1 .. Len(stLogConfig)
    BY <2>2, <2>4, <2>5, FoundAt
  <2>7. Bsearch(stLogConfig, h.id) = 0
    BY <2>1, <2>3
  <2> QED BY ONLY <2>6, <2>7
<1> QED BY <1>1, <1>2 DEF Sorted

(* The agent's table stays sorted by id without an id twice, and the binary search of a change *)
(* or a deletion always finds its configuration, whichever answers are lost, doubled or late.  *)
THEOREM SortedCorrect == Spec => []Sorted
<1>1. Inv => Sorted
  BY InvSorted
<1> QED BY <1>1, InvCorrect, PTL

(* No answer, however late, takes a configuration of the agent back to an older version. *)
THEOREM NeverBackCorrect == Spec => NeverBack
<1> DEFINE Forward == \A i \in DOMAIN stLogConfig, j \in DOMAIN stLogConfig' :
       stLogConfig[i].id = stLogConfig'[j].id => stLogConfig[i].seq <= stLogConfig'[j].seq
<1>1. Inv /\ [Next]_vars => Forward
  BY NextKeeps DEF Kept, NotBack
<1>2. Inv /\ [Next]_vars => [Forward]_vars
  BY <1>1
<1>3. NeverBack <=> [][Forward]_vars
  BY PTL DEF NeverBack
<1> HIDE DEF Forward
<1> QED BY <1>2, <1>3, InvCorrect, PTL DEF Spec

====
