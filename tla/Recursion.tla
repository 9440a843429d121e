----------------------------- MODULE Recursion -----------------------------
(***************************************************************************)
(* Induction over natural numbers, and what recursive functions over them  *)
(* compute: lemmas for the proofs about the modules that walk arrays.      *)
(*                                                                         *)
(* The induction is over sets: a set that holds 0 and the successor of     *)
(* each of its members holds every number, since a least number that it    *)
(* did not hold would have a predecessor in it.                            *)
(***************************************************************************)
EXTENDS Integers, SequencesExt, SequenceTheorems, WellFoundedInduction, TLAPS

LessThan == {ss \in Nat \X Nat : ss[1] < ss[2]}

LEMMA NatWellFounded == IsWellFoundedOn(LessThan, Nat)
BY NatLessThanWellFounded, Zenon DEF OpToRel, LessThan

LEMMA LeastNat ==
    ASSUME NEW S \in SUBSET Nat, S # {}
    PROVE  \E x \in S : \A y \in S : x <= y
<1>1. \A x, y \in Nat : y < x => <<y, x>> \in LessThan  BY DEF LessThan
<1>2. PICK x \in S : \A y \in S : ~(<<y, x>> \in LessThan)
    BY NatWellFounded, WFMin
<1>3. \A y \in S : ~(y < x) BY <1>1, <1>2
<1>4. \A y \in S : x <= y
    <2>1. \A y \in S : y \in Nat /\ x \in Nat OBVIOUS
    <2> QED BY <1>3, <2>1
<1> QED BY <1>4

LEMMA SetInduction ==
    ASSUME NEW S, 0 \in S, \A n \in Nat : n \in S => n + 1 \in S
    PROVE  Nat \subseteq S
<1> DEFINE T == Nat \ S
<1>1. \A x, y \in Nat : y < x => <<y, x>> \in LessThan  BY DEF LessThan
<1>2. ASSUME T # {} PROVE FALSE
    <2>1. T \subseteq Nat OBVIOUS
    <2> HIDE DEF T
    <2>2. PICK x \in T : \A y \in T : ~(<<y, x>> \in LessThan)
        BY NatWellFounded, <1>2, <2>1, WFMin
    <2> USE DEF T
    <2>3. x \in Nat /\ x # 0 /\ x \notin S OBVIOUS
    <2>4. x - 1 \in Nat /\ x - 1 < x BY <2>3
    <2>5. x - 1 \in S BY <1>1, <2>2, <2>3, <2>4
    <2>6. (x - 1) + 1 = x BY <2>3
    <2> QED BY <2>3, <2>4, <2>5, <2>6
<1> QED BY <1>2

(* A recursive function over 0..n exists: c in front, then D of the index  *)
(* and the value before.                                                   *)
Follows(g, c, D, n) == g[0] = c /\ \A i \in 1..n : g[i] = D[<<i, g[i - 1]>>]

LEMMA RecursiveExists ==
    ASSUME NEW T, NEW c \in T, NEW D \in [Nat \X T -> T], NEW n \in Nat
    PROVE  \E g \in [0..n -> T] : Follows(g, c, D, n)
<1> USE DEF Follows
<1> DEFINE P(m, g) == Follows(g, c, D, m)
           S == {m \in Nat : \E g \in [0..m -> T] : P(m, g)}
<1>1. 0 \in S
    <2> DEFINE g == [i \in 0..0 |-> c]
    <2>1. g \in [0..0 -> T] /\ P(0, g) OBVIOUS
    <2> QED BY <2>1
<1>2. ASSUME NEW m \in Nat, m \in S PROVE m + 1 \in S
    <2>1. PICK g \in [0..m -> T] : P(m, g) BY <1>2
    <2> DEFINE h == [i \in 0..(m + 1) |-> IF i = m + 1 THEN D[<<m + 1, g[m]>>] ELSE g[i]]
    <2>2. h \in [0..(m + 1) -> T] OBVIOUS
    <2>3. \A i \in 0..m : h[i] = g[i] OBVIOUS
    <2>4. h[m + 1] = D[<<m + 1, g[m]>>] OBVIOUS
    <2> HIDE DEF h
    <2>5. ASSUME NEW i \in 1..(m + 1) PROVE h[i] = D[<<i, h[i - 1]>>]
        <3>1. i - 1 \in 0..m /\ h[i - 1] = g[i - 1] BY <2>3
        <3>2. CASE i = m + 1
            <4>1. i - 1 = m BY <3>2
            <4> QED BY <2>4, <3>1, <3>2, <4>1
        <3>3. CASE i # m + 1
            <4>1. i \in 1..m /\ i \in 0..m BY <3>3
            <4> QED BY <2>1, <2>3, <3>1, <4>1
        <3> QED BY <3>2, <3>3
    <2>6. h[0] = c BY <2>1, <2>3
    <2>7. P(m + 1, h) BY <2>5, <2>6
    <2>8. m + 1 \in Nat OBVIOUS
    <2> QED BY <2>2, <2>7, <2>8
<1> HIDE DEF S
<1>3. Nat \subseteq S BY <1>1, <1>2, SetInduction
<1> USE DEF S
<1> QED BY <1>3

-----------------------------------------------------------------------------
(* Running sums *)

(* s[k] is the sum of the first k elements of a. *)
RunningSum(s, a, m) ==
    /\ s[0] = 0 /\ \A k \in 0..m : s[k] \in Int
    /\ \A k \in 1..m : s[k] = s[k - 1] + a[k - 1]

LEMMA SumPrefix ==
    ASSUME NEW n \in Nat, NEW m \in Nat, m <= n, NEW a, NEW s, RunningSum(s, a, n)
    PROVE  RunningSum(s, a, m)
<1>1. (\A k \in 0..m : k \in 0..n) /\ (\A k \in 1..m : k \in 1..n) OBVIOUS
<1> QED BY <1>1 DEF RunningSum

(* A sum of natural numbers is one. *)
LEMMA SumNat ==
    ASSUME NEW m \in Nat, NEW a, NEW s, RunningSum(s, a, m),
           \A k \in 0..(m - 1) : a[k] \in Nat
    PROVE  \A k \in 0..m : s[k] \in Nat
<1> DEFINE S == {k \in Nat : k \in 0..m => s[k] \in Nat}
<1>1. 0 \in S BY DEF RunningSum
<1>2. ASSUME NEW k \in Nat, k \in S PROVE k + 1 \in S
    <2>1. CASE k + 1 \in 0..m
        <3>1. k \in 0..(m - 1) /\ k \in 0..m /\ k + 1 \in 1..m /\ (k + 1) - 1 = k BY <2>1
        <3>2. s[k + 1] = s[k] + a[k] BY <3>1 DEF RunningSum
        <3>3. s[k] \in Nat /\ a[k] \in Nat BY <1>2, <3>1
        <3> QED BY <3>2, <3>3
    <2> QED BY <2>1
<1> HIDE DEF S
<1>3. Nat \subseteq S BY <1>1, <1>2, SetInduction
<1> USE DEF S
<1> QED BY <1>3

(* b is a but for the element at i, and so t is s up to there and off by   *)
(* the difference of the two elements behind.                              *)
SameBut(b, a, i, m) ==
    \A k \in 0..(m - 1) : a[k] \in Int /\ b[k] \in Int /\ (k # i => b[k] = a[k])
OffBy(t, s, d, i, m) ==
    \A k \in 0..m : t[k] = IF i < k THEN s[k] + d ELSE s[k]

(* Replacing the element at i changes the sums past it, by the difference; *)
(* with i past the end, two arrays that agree have the same sums.          *)
LEMMA SumReplace ==
    ASSUME NEW m \in Nat, NEW a, NEW b, NEW s, NEW t, NEW i \in Nat,
           RunningSum(s, a, m), RunningSum(t, b, m), SameBut(b, a, i, m)
    PROVE  OffBy(t, s, b[i] - a[i], i, m)
<1> USE DEF SameBut
<1> DEFINE P(k) == t[k] = IF i < k THEN s[k] + (b[i] - a[i]) ELSE s[k]
           S == {k \in Nat : k \in 0..m => P(k)}
<1>1. 0 \in S BY DEF RunningSum
<1>2. ASSUME NEW k \in Nat, k \in S PROVE k + 1 \in S
    <2>1. CASE k + 1 \in 0..m
        <3>1. k \in 0..(m - 1) /\ k \in 0..m /\ k + 1 \in 1..m /\ (k + 1) - 1 = k BY <2>1
        <3>2. s[k + 1] = s[k] + a[k] /\ t[k + 1] = t[k] + b[k] BY <3>1 DEF RunningSum
        <3>3. P(k) /\ s[k] \in Int /\ t[k] \in Int /\ a[k] \in Int /\ b[k] \in Int
            BY <1>2, <3>1 DEF RunningSum
        <3>4. k # i => b[k] = a[k] BY <3>1
        <3>5. CASE k < i
            BY <3>2, <3>3, <3>4, <3>5
        <3>6. CASE k = i
            BY <3>2, <3>3, <3>6
        <3>7. CASE i < k
            <4>1. a[i] \in Int /\ b[i] \in Int
                <5>1. i \in 0..(m - 1) BY <3>1, <3>7
                <5> QED BY <5>1
            <4> QED BY <3>2, <3>3, <3>4, <3>7, <4>1
        <3> QED BY <3>5, <3>6, <3>7
    <2> QED BY <2>1
<1> HIDE DEF S
<1>3. Nat \subseteq S BY <1>1, <1>2, SetInduction
<1> USE DEF S
<1> QED BY <1>3 DEF OffBy

-----------------------------------------------------------------------------
(* A walk over the elements of an array of arrays *)

(* A cursor over m nodes with cnt[i] elements each, moved n times.         *)
Walk(at, cnt, m, n) ==
    /\ at[0] = [node |-> 0, dev |-> 0]
    /\ \A k \in 1..n :
          at[k] = IF at[k - 1].node \notin 0..(m - 1) THEN at[k - 1]
                  ELSE IF at[k - 1].dev + 1 = cnt[at[k - 1].node]
                  THEN [node |-> at[k - 1].node + 1, dev |-> 0]
                  ELSE [at[k - 1] EXCEPT !.dev = @ + 1]

(* Cursor c stands at an element, with k elements in front of it.          *)
InFront(c, k, cnt, s, m) ==
    /\ c.node \in 0..(m - 1) /\ c.dev \in Nat /\ c.dev < cnt[c.node]
    /\ k = s[c.node] + c.dev

(* No node being empty, the cursor visits every element.                   *)
LEMMA WalkPosition ==
    ASSUME NEW m \in Nat, NEW cnt, NEW s, RunningSum(s, cnt, m), NEW at,
           \A i \in 0..(m - 1) : cnt[i] \in Nat \ {0},
           Walk(at, cnt, m, s[m])
    PROVE  \A k \in 0..(s[m] - 1) : InFront(at[k], k, cnt, s, m)
<1> USE DEF Walk
<1> DEFINE P(k) == /\ at[k] \in [node : 0..m, dev : Nat]
                   /\ at[k].node < m => at[k].dev < cnt[at[k].node]
                   /\ at[k].node = m => at[k].dev = 0
                   /\ k = s[at[k].node] + at[k].dev
           S == {k \in Nat : k \in 0..s[m] => P(k)}
<1>1. \A i \in 0..m : s[i] \in Nat BY SumNat
<1>2. 0 \in S
    <2>1. s[0] = 0 BY DEF RunningSum
    <2>2. 0 < m => cnt[0] \in Nat \ {0} OBVIOUS
    <2> QED BY <2>1, <2>2
<1>3. ASSUME NEW k \in Nat, k \in S PROVE k + 1 \in S
    <2>1. SUFFICES ASSUME k + 1 \in 0..s[m] PROVE P(k + 1)
        OBVIOUS
    <2>2. k \in 0..s[m] /\ k < s[m] /\ k + 1 \in 1..s[m] /\ (k + 1) - 1 = k
        BY <1>1, <2>1
    <2>3. P(k) BY <1>3, <2>2
    <2> DEFINE c == at[k]
    <2>4. c \in [node : 0..m, dev : Nat] /\ k = s[c.node] + c.dev BY <2>3
    <2>5. c.node # m
        <3>1. c.node = m => k = s[m] BY <1>1, <2>3
        <3> QED BY <2>2, <3>1, <1>1
    <2>6. c.node \in 0..(m - 1) /\ cnt[c.node] \in Nat \ {0} /\ c.dev < cnt[c.node]
        BY <2>3, <2>4, <2>5
    <2>7. at[k + 1] = IF c.dev + 1 = cnt[c.node] THEN [node |-> c.node + 1, dev |-> 0]
                      ELSE [c EXCEPT !.dev = @ + 1]
        BY <2>2, <2>6
    <2>8. s[c.node] \in Nat /\ s[c.node + 1] = s[c.node] + cnt[c.node]
        <3>1. c.node + 1 \in 1..m /\ (c.node + 1) - 1 = c.node BY <2>6
        <3> QED BY <1>1, <2>4, <3>1 DEF RunningSum
    <2> HIDE DEF c
    <2>9. CASE c.dev + 1 = cnt[c.node]
        <3>1. at[k + 1] = [node |-> c.node + 1, dev |-> 0] BY <2>7, <2>9
        <3>2. at[k + 1].node = c.node + 1 /\ at[k + 1].dev = 0 BY <3>1
        <3>3. k + 1 = s[c.node + 1] BY <2>4, <2>6, <2>8, <2>9
        <3>4. c.node + 1 < m => cnt[c.node + 1] \in Nat \ {0} BY <2>6
        <3>5. c.node + 1 \in 0..m BY <2>6
        <3> QED BY <3>1, <3>2, <3>3, <3>4, <3>5
    <2>10. CASE c.dev + 1 # cnt[c.node]
        <3>1. at[k + 1] = [node |-> c.node, dev |-> c.dev + 1] BY <2>4, <2>7, <2>10
        <3>2. at[k + 1].node = c.node /\ at[k + 1].dev = c.dev + 1 BY <3>1
        <3>3. c.dev + 1 < cnt[c.node] BY <2>4, <2>6, <2>10
        <3>4. k + 1 = s[c.node] + (c.dev + 1) BY <2>4, <2>8
        <3> QED BY <2>4, <2>5, <2>6, <3>1, <3>2, <3>3, <3>4
    <2> QED BY <2>9, <2>10
<1> HIDE DEF S
<1>4. Nat \subseteq S BY <1>2, <1>3, SetInduction
<1> USE DEF S
<1>5. ASSUME NEW k \in 0..(s[m] - 1) PROVE InFront(at[k], k, cnt, s, m)
    <2>1. k \in Nat /\ k \in 0..s[m] /\ k < s[m] BY <1>1
    <2>2. P(k) BY <1>4, <2>1
    <2>3. at[k].node # m
        <3>1. at[k].node = m => k = s[m] BY <1>1, <2>2
        <3> QED BY <2>1, <3>1
    <2> QED BY <2>2, <2>3 DEF InFront
<1> QED BY <1>5

-----------------------------------------------------------------------------
(* Concatenation *)

(* s[i] elements stand in the first i sequences of ss. *)
Offsets(s, ss, m) == s[0] = 0 /\ \A i \in 1..m : s[i] = s[i - 1] + Len(ss[i])

(* t is these m sequences of X, one behind the other. *)
Joined(t, ss, s, m, X) ==
    /\ t \in Seq(X) /\ Len(t) = s[m]
    /\ \A i \in 1..m : \A j \in 1..Len(ss[i]) : t[s[i - 1] + j] = ss[i][j]

(* Lengths of growing prefixes do not shrink.                              *)
LEMMA SumGrows ==
    ASSUME NEW X, NEW m \in Nat, NEW ss \in [1..m -> Seq(X)],
           NEW s \in [0..m -> Nat], Offsets(s, ss, m),
           NEW i \in 0..m, NEW k \in 0..m, i <= k
    PROVE  s[i] <= s[k]
<1> DEFINE S == {d \in Nat : i + d \in 0..m => s[i] <= s[i + d]}
<1>1. 0 \in S OBVIOUS
<1>2. ASSUME NEW d \in Nat, d \in S PROVE d + 1 \in S
    <2>1. CASE i + (d + 1) \in 0..m
        <3>1. i + d \in 0..m /\ i + (d + 1) \in 1..m /\ (i + (d + 1)) - 1 = i + d BY <2>1
        <3>2. s[i + (d + 1)] = s[i + d] + Len(ss[i + (d + 1)]) BY <3>1 DEF Offsets
        <3>3. Len(ss[i + (d + 1)]) \in Nat
            <4>1. ss[i + (d + 1)] \in Seq(X) BY <3>1
            <4> QED BY <4>1, LenProperties
        <3>4. s[i] <= s[i + d] /\ s[i] \in Nat /\ s[i + d] \in Nat BY <1>2, <3>1
        <3> QED BY <3>2, <3>3, <3>4
    <2> QED BY <2>1
<1> HIDE DEF S
<1>3. Nat \subseteq S BY <1>1, <1>2, SetInduction
<1> USE DEF S
<1>4. k - i \in Nat /\ i + (k - i) = k OBVIOUS
<1> QED BY <1>3, <1>4

(* FlattenSeq puts the j-th element of the i-th sequence behind all the    *)
(* elements of the sequences in front; s counts those.                     *)
LEMMA FlattenAt ==
    ASSUME NEW X, NEW m \in Nat, NEW ss \in [1..m -> Seq(X)],
           NEW s \in [0..m -> Nat], Offsets(s, ss, m)
    PROVE  Joined(FlattenSeq(ss), ss, s, m, X)
<1> USE DEF Joined
<1>1. ss \in Seq(Seq(X)) /\ Len(ss) = m
    BY LenProperties, IsASeq
<1>2. CASE m = 0
    BY <1>1, <1>2 DEF FlattenSeq
<1>3. CASE m # 0
    <2> DEFINE Body(f) == [i \in 1..m |-> IF i = 1 THEN ss[i] ELSE f[i - 1] \o ss[i]]
               flat == CHOOSE f : f = Body(f)
    <2>1. FlattenSeq(ss) = flat[m]
        BY <1>1, <1>3, Zenon DEF FlattenSeq
    <2>2. \E f : f = Body(f)
        <3> DEFINE D == [p \in Nat \X Seq(X) |-> IF p[1] \in 1..m THEN p[2] \o ss[p[1]] ELSE << >>]
        <3>1. D \in [Nat \X Seq(X) -> Seq(X)]
            <4>1. << >> \in Seq(X) BY EmptySeq
            <4>2. \A p \in Nat \X Seq(X) : p[1] \in 1..m => p[2] \o ss[p[1]] \in Seq(X)
                BY ConcatProperties
            <4> QED BY <4>1, <4>2
        <3>2. \A i \in 1..m, q \in Seq(X) : D[<<i, q>>] = q \o ss[i]
            <4>1. ASSUME NEW i \in 1..m, NEW q \in Seq(X) PROVE D[<<i, q>>] = q \o ss[i]
                <5>1. <<i, q>> \in Nat \X Seq(X) OBVIOUS
                <5> QED BY <5>1
            <4> QED BY <4>1
        <3> HIDE DEF D
        <3>3. PICK g \in [0..m -> Seq(X)] :
                 g[0] = << >> /\ \A i \in 1..m : g[i] = D[<<i, g[i - 1]>>]
            <4> DEFINE T == Seq(X)
                       e == << >>
            <4>1. e \in T /\ D \in [Nat \X T -> T] BY <3>1, EmptySeq
            <4> HIDE DEF T, e
            <4>2. \E g \in [0..m -> T] : Follows(g, e, D, m)
                BY <4>1, RecursiveExists
            <4> QED BY <4>2 DEF T, e, Follows
        <3>4. g[0] = << >> BY <3>3
        <3>5. \A i \in 1..m : g[i] = g[i - 1] \o ss[i]
            <4>1. ASSUME NEW i \in 1..m PROVE g[i] = g[i - 1] \o ss[i]
                <5>1. i \in 0..m /\ i # 0 /\ i - 1 \in 0..m OBVIOUS
                <5>2. g[i] = D[<<i, g[i - 1]>>] BY <3>3, <5>1
                <5>3. g[i - 1] \in Seq(X) BY <5>1
                <5> QED BY <3>2, <5>2, <5>3
            <4> QED BY <4>1
        <3> DEFINE h == [i \in 1..m |-> g[i]]
        <3>6. \A i \in 1..m : h[i] = IF i = 1 THEN ss[i] ELSE h[i - 1] \o ss[i]
            <4>1. ASSUME NEW i \in 1..m, i # 1 PROVE h[i] = h[i - 1] \o ss[i]
                <5>1. i - 1 \in 1..m BY <4>1
                <5> QED BY <3>5, <5>1
            <4>2. h[1] = ss[1]
                <5>1. 1 \in 1..m /\ 1 - 1 = 0 BY <1>3
                <5>2. h[1] = << >> \o ss[1] BY <3>4, <3>5, <5>1
                <5>3. ss[1] \in Seq(X) BY <5>1
                <5> QED BY <5>2, <5>3, ConcatEmptySeq
            <4> QED BY <4>1, <4>2
        <3>7. h = [i \in 1..m |-> h[i]] OBVIOUS
        <3> HIDE DEF h
        <3>8. h = Body(h) BY <3>6, <3>7
        <3> QED BY <3>8
    <2>3. flat = Body(flat) BY <2>2, Zenon
    <2> HIDE DEF flat
    <2>4. /\ flat[1] = ss[1]
          /\ \A i \in 1..m : i # 1 => flat[i] = flat[i - 1] \o ss[i]
        <3>1. 1 \in 1..m BY <1>3
        <3> QED BY <2>3, <3>1
    <2> DEFINE P(k) == /\ flat[k] \in Seq(X) /\ Len(flat[k]) = s[k]
                       /\ \A i \in 1..k : \A j \in 1..Len(ss[i]) : flat[k][s[i - 1] + j] = ss[i][j]
               S == {k \in Nat : k + 1 \in 1..m => P(k + 1)}
    <2>5. 0 \in S
        <3>1. 1 \in 1..m /\ 1 - 1 = 0 /\ 0 + 1 = 1 BY <1>3
        <3>2. ss[1] \in Seq(X) /\ s[1] = s[0] + Len(ss[1]) /\ s[0] = 0 BY <3>1 DEF Offsets
        <3>3. Len(ss[1]) \in Nat BY <3>2, LenProperties
        <3>4. s[1] = Len(ss[1]) BY <3>2, <3>3
        <3>5. \A i \in 1..1 : i = 1 OBVIOUS
        <3>6. \A j \in 1..Len(ss[1]) : s[0] + j = j BY <3>2, <3>3
        <3>7. P(1) BY <2>4, <3>1, <3>2, <3>4, <3>5, <3>6
        <3> QED BY <3>1, <3>7
    <2>6. ASSUME NEW k \in Nat, k \in S PROVE k + 1 \in S
        <3>1. SUFFICES ASSUME k + 2 \in 1..m PROVE P(k + 2)
            <4>1. (k + 1) + 1 = k + 2 /\ k + 1 \in Nat OBVIOUS
            <4> QED BY <3>1, <4>1
        <3>2. k + 1 \in 1..m /\ k + 2 # 1 /\ (k + 2) - 1 = k + 1 BY <3>1
        <3>3. P(k + 1) BY <2>6, <3>2
        <3>4. flat[k + 2] = flat[k + 1] \o ss[k + 2] BY <2>4, <3>1, <3>2
        <3>5. ss[k + 2] \in Seq(X) /\ s[k + 2] = s[k + 1] + Len(ss[k + 2]) BY <3>1, <3>2 DEF Offsets
        <3> DEFINE u == flat[k + 1]
                   w == ss[k + 2]
                   r == flat[k + 2]
        <3>7. /\ u \in Seq(X) /\ w \in Seq(X) /\ r = u \o w
              /\ Len(u) = s[k + 1]
            BY <3>2, <3>3, <3>4, <3>5
        <3> HIDE DEF u, w, r
        <3>0. s[k + 1] \in Nat /\ Len(w) \in Nat BY <3>2, <3>7, LenProperties
        <3>8. /\ r \in Seq(X) /\ Len(r) = s[k + 1] + Len(w)
              /\ \A x \in 1..(s[k + 1] + Len(w)) :
                    r[x] = IF x <= s[k + 1] THEN u[x] ELSE w[x - s[k + 1]]
            <4>1. /\ u \o w \in Seq(X) /\ Len(u \o w) = Len(u) + Len(w)
                  /\ \A x \in 1..(Len(u) + Len(w)) :
                        (u \o w)[x] = IF x <= Len(u) THEN u[x] ELSE w[x - Len(u)]
                BY <3>7, ConcatProperties
            <4> QED BY <3>7, <4>1
        <3>9. \A j \in 1..Len(w) : r[s[k + 1] + j] = w[j]
            <4>1. ASSUME NEW j \in 1..Len(w) PROVE r[s[k + 1] + j] = w[j]
                <5>1. /\ s[k + 1] + j \in 1..(s[k + 1] + Len(w)) /\ ~(s[k + 1] + j <= s[k + 1])
                      /\ (s[k + 1] + j) - s[k + 1] = j
                    BY <3>0
                <5> QED BY <3>8, <5>1
            <4> QED BY <4>1
        <3>10. \A x \in 1..s[k + 1] : r[x] = u[x]
            <4>1. \A x \in 1..s[k + 1] : x \in 1..(s[k + 1] + Len(w)) /\ x <= s[k + 1]
                BY <3>0
            <4> QED BY <3>8, <4>1
        <3>11. ASSUME NEW i \in 1..(k + 1), NEW j \in 1..Len(ss[i])
               PROVE  s[i - 1] + j \in 1..s[k + 1]
            <4>1. i \in 1..m /\ i \in 0..m /\ i - 1 \in 0..m /\ i <= k + 1 /\ k + 1 \in 0..m
                BY <3>2
            <4>2. s[i] = s[i - 1] + Len(ss[i]) /\ s[i - 1] \in Nat /\ s[i] \in Nat BY <4>1 DEF Offsets
            <4>3. s[i] <= s[k + 1] BY <4>1, SumGrows
            <4>4. Len(ss[i]) \in Nat
                <5>1. ss[i] \in Seq(X) BY <4>1
                <5> QED BY <5>1, LenProperties
            <4>5. j \in Nat /\ 1 <= j /\ j <= Len(ss[i]) BY <4>4
            <4>6. \A p, q, h, l, v \in Nat :
                     1 <= v /\ v <= l /\ q = p + l /\ q <= h => p + v \in 1..h
                OBVIOUS
            <4> QED BY <3>0, <4>2, <4>3, <4>4, <4>5, <4>6
        <3>12. ASSUME NEW i \in 1..(k + 2), NEW j \in 1..Len(ss[i])
               PROVE  r[s[i - 1] + j] = ss[i][j]
            <4>1. CASE i = k + 2
                <5>1. i - 1 = k + 1 BY <4>1
                <5>2. ss[i] = w BY <4>1 DEF w
                <5> QED BY <3>9, <5>1, <5>2
            <4>2. CASE i # k + 2
                <5>1. i \in 1..(k + 1) BY <4>2
                <5>2. u[s[i - 1] + j] = ss[i][j] BY <3>3, <5>1 DEF u
                <5> QED BY <3>10, <3>11, <5>1, <5>2
            <4> QED BY <4>1, <4>2
        <3>13. s[k + 2] = s[k + 1] + Len(w) BY <3>5 DEF w
        <3> QED BY <3>8, <3>12, <3>13 DEF r
    <2> HIDE DEF S
    <2>7. Nat \subseteq S BY <2>5, <2>6, SetInduction
    <2> USE DEF S
    <2>8. P(m)
        <3>1. m - 1 \in Nat /\ (m - 1) + 1 = m /\ m \in 1..m BY <1>3
        <3>2. (m - 1) + 1 \in 1..m => P((m - 1) + 1) BY <2>7, <3>1
        <3> HIDE DEF P
        <3> QED BY <3>1, <3>2
    <2> QED BY <2>1, <2>8
<1> QED BY <1>2, <1>3

(* There are such numbers, and so a concatenation is always a sequence.    *)
LEMMA OffsetsExist ==
    ASSUME NEW X, NEW m \in Nat, NEW ss \in [1..m -> Seq(X)]
    PROVE  \E s \in [0..m -> Nat] : Offsets(s, ss, m)
<1> DEFINE D == [p \in Nat \X Nat |-> IF p[1] \in 1..m THEN p[2] + Len(ss[p[1]]) ELSE p[2]]
<1>1. \A i \in 1..m : Len(ss[i]) \in Nat BY LenProperties
<1>2. D \in [Nat \X Nat -> Nat] BY <1>1
<1>3. \A i \in 1..m, x \in Nat : D[<<i, x>>] = x + Len(ss[i])
    <2>1. \A i \in 1..m, x \in Nat : <<i, x>> \in Nat \X Nat OBVIOUS
    <2> QED BY <2>1
<1> HIDE DEF D
<1>4. PICK s \in [0..m -> Nat] : Follows(s, 0, D, m)
    <2>1. 0 \in Nat OBVIOUS
    <2> QED BY <1>2, <2>1, RecursiveExists
<1>5. \A i \in 1..m : s[i] = s[i - 1] + Len(ss[i])
    <2>1. ASSUME NEW i \in 1..m PROVE s[i] = s[i - 1] + Len(ss[i])
        <3>1. i - 1 \in 0..m /\ s[i - 1] \in Nat BY <1>4
        <3>2. s[i] = D[<<i, s[i - 1]>>] BY <1>4 DEF Follows
        <3> QED BY <1>3, <3>1, <3>2
    <2> QED BY <2>1
<1>6. s[0] = 0 BY <1>4 DEF Follows
<1> QED BY <1>4, <1>5, <1>6 DEF Offsets

(* Every element of the concatenation is one of the sequences' elements.   *)
Stands(y, ss, s, m) == \E i \in 1..m : \E j \in 1..Len(ss[i]) : y = s[i - 1] + j

LEMMA Located ==
    ASSUME NEW X, NEW m \in Nat, NEW ss \in [1..m -> Seq(X)],
           NEW s \in [0..m -> Nat], Offsets(s, ss, m), NEW y \in 1..s[m]
    PROVE  Stands(y, ss, s, m)
<1> DEFINE S == {i \in 0..m : y <= s[i]}
<1>1. m \in S /\ S \subseteq Nat /\ y \in Nat /\ 0 < y OBVIOUS
<1>2. PICK i \in S : \A k \in S : i <= k
    <2> HIDE DEF S
    <2>1. S \in SUBSET Nat /\ S # {} BY <1>1
    <2> QED BY <2>1, LeastNat
<1>3. i \in 0..m /\ y <= s[i] OBVIOUS
<1>4. i \in 1..m /\ i - 1 \in 0..m
    <2>1. i # 0 BY <1>1, <1>3 DEF Offsets
    <2> QED BY <1>3, <2>1
<1>5. s[i - 1] < y
    <2>1. i - 1 \in S => i <= i - 1 BY <1>2
    <2>2. i - 1 \notin S BY <1>4, <2>1
    <2>3. ~(y <= s[i - 1]) BY <1>4, <2>2
    <2>4. s[i - 1] \in Nat BY <1>4
    <2> QED BY <1>1, <2>3, <2>4
<1>6. s[i] = s[i - 1] + Len(ss[i]) BY <1>4 DEF Offsets
<1>7. Len(ss[i]) \in Nat
    <2>1. ss[i] \in Seq(X) BY <1>4
    <2> QED BY <2>1, LenProperties
<1>8. PICK p \in Nat, n \in Nat : p = s[i - 1] /\ n = Len(ss[i]) BY <1>4, <1>7
<1>9. y - p \in 1..n /\ y = p + (y - p) BY <1>1, <1>3, <1>5, <1>6, <1>8, SMTT(40)
<1> QED BY <1>4, <1>8, <1>9 DEF Stands

(* Two sequences of one length that differ in one element only. *)
DifferAt(b, t, x) ==
    /\ Len(b) = Len(t) /\ x \in 1..Len(b) /\ b[x] # t[x]
    /\ \A y \in 1..Len(b) : y # x => b[y] = t[y]

(* One element of one of the sequences is one element of the concatenation. *)
LEMMA FlattenDiffers ==
    ASSUME NEW X, NEW m \in Nat, NEW ss \in [1..m -> Seq(X)], NEW tt \in [1..m -> Seq(X)],
           NEW i \in 1..m, NEW j, DifferAt(ss[i], tt[i], j),
           \A k \in 1..m : k # i => tt[k] = ss[k]
    PROVE  \E x : DifferAt(FlattenSeq(ss), FlattenSeq(tt), x)
<1> DEFINE b == FlattenSeq(ss)
           t == FlattenSeq(tt)
<1>1. PICK s \in [0..m -> Nat] : Offsets(s, ss, m) BY OffsetsExist
<1>2. \A k \in 1..m : Len(tt[k]) = Len(ss[k]) BY DEF DifferAt
<1>3. Offsets(s, tt, m) BY <1>1, <1>2 DEF Offsets
<1>4. Joined(b, ss, s, m, X) BY <1>1, FlattenAt
<1>5. Joined(t, tt, s, m, X) BY <1>3, FlattenAt
<1> HIDE DEF b, t
<1>6. j \in 1..Len(ss[i]) /\ ss[i][j] # tt[i][j] /\ Len(ss[i]) \in Nat
    <2>1. ss[i] \in Seq(X) OBVIOUS
    <2> QED BY <2>1, LenProperties DEF DifferAt
<1> DEFINE x == s[i - 1] + j
<1>7. x \in 1..s[m]
    <2>1. i \in 0..m /\ m \in 0..m /\ i - 1 \in 0..m /\ i <= m OBVIOUS
    <2>2. s[i] <= s[m] BY <1>1, <2>1, SumGrows
    <2>3. s[i] = s[i - 1] + Len(ss[i]) BY <1>1 DEF Offsets
    <2>4. PICK p, q, l, h \in Nat : p = s[i - 1] /\ q = s[i] /\ l = Len(ss[i]) /\ h = s[m]
        BY <1>6, <2>1
    <2>5. p + j \in 1..h BY <1>6, <2>2, <2>3, <2>4, SMTT(40)
    <2> QED BY <2>4, <2>5
<1>8. b[x] = ss[i][j] /\ t[x] = tt[i][j]
    BY <1>2, <1>4, <1>5, <1>6 DEF Joined
<1>9. ASSUME NEW y \in 1..s[m], y # x PROVE b[y] = t[y]
    <2>0. Stands(y, ss, s, m) BY <1>1, Located
    <2>1. PICK k \in 1..m : \E l \in 1..Len(ss[k]) : y = s[k - 1] + l BY <2>0 DEF Stands
    <2>2. PICK l \in 1..Len(ss[k]) : y = s[k - 1] + l BY <2>1
    <2>3. b[y] = ss[k][l] /\ t[y] = tt[k][l] BY <1>2, <1>4, <1>5, <2>2 DEF Joined
    <2>4. CASE k # i BY <2>3, <2>4
    <2>5. CASE k = i
        <3>1. l # j BY <1>9, <2>2, <2>5
        <3>2. ss[i][l] = tt[i][l] BY <2>2, <2>5, <3>1 DEF DifferAt
        <3> QED BY <2>3, <2>5, <3>2
    <2> QED BY <2>4, <2>5
<1>10. Len(b) = s[m] /\ Len(t) = s[m] BY <1>4, <1>5 DEF Joined
<1> HIDE DEF x
<1>11. DifferAt(b, t, x) BY <1>6, <1>7, <1>8, <1>9, <1>10 DEF DifferAt
<1> QED BY <1>11 DEF b, t

LEMMA FlattenType ==
    ASSUME NEW X, NEW m \in Nat, NEW ss \in [1..m -> Seq(X)]
    PROVE  FlattenSeq(ss) \in Seq(X)
<1>1. PICK s \in [0..m -> Nat] : Offsets(s, ss, m) BY OffsetsExist
<1> QED BY <1>1, FlattenAt DEF Joined

(* Sequences that are all of length w. *)
AllOfLength(ss, m, w) == \A i \in 1..m : Len(ss[i]) = w
EveryOther(t, ss, m, w) == \A i \in 1..m, j \in 1..w : t[(i - 1) * w + j] = ss[i][j]

LEMMA FlattenEven ==
    ASSUME NEW X, NEW m \in Nat, NEW ss \in [1..m -> Seq(X)], NEW w \in Nat,
           AllOfLength(ss, m, w)
    PROVE  /\ FlattenSeq(ss) \in Seq(X) /\ Len(FlattenSeq(ss)) = m * w
           /\ EveryOther(FlattenSeq(ss), ss, m, w)
<1> USE DEF AllOfLength, EveryOther
<1> DEFINE s == [i \in 0..m |-> i * w]
<1>1. s \in [0..m -> Nat]
    <2>1. \A i \in Nat : i * w \in Nat OBVIOUS
    <2> QED BY <2>1
<1>2. Offsets(s, ss, m)
    <2>1. \A i \in Int : i * w = (i - 1) * w + w OBVIOUS
    <2>2. \A i \in 1..m : i \in 0..m /\ i - 1 \in 0..m OBVIOUS
    <2>3. s[0] = 0 OBVIOUS
    <2>4. ASSUME NEW i \in 1..m PROVE s[i] = s[i - 1] + Len(ss[i])
        <3>1. s[i] = i * w /\ s[i - 1] = (i - 1) * w /\ Len(ss[i]) = w BY <2>2
        <3>2. i * w = (i - 1) * w + w BY <2>1
        <3> HIDE DEF s
        <3> QED BY <3>1, <3>2
    <2> HIDE DEF s
    <2> QED BY <2>3, <2>4 DEF Offsets
<1>3. \A i \in 1..m : i - 1 \in 0..m /\ s[i - 1] = (i - 1) * w OBVIOUS
<1>4. s[m] = m * w OBVIOUS
<1> HIDE DEF s
<1>5. Joined(FlattenSeq(ss), ss, s, m, X) BY <1>1, <1>2, FlattenAt
<1> QED BY <1>3, <1>4, <1>5 DEF Joined

-----------------------------------------------------------------------------
(* Folds *)

LEMMA MaxOfSome ==
    ASSUME NEW n \in Nat, NEW S \in SUBSET (1..n), S # {}
    PROVE  Max(S) \in S /\ \A x \in S : x <= Max(S)
<1> DEFINE T == {n - x : x \in S}
<1>1. T \subseteq Nat /\ T # {}
    <2>1. \A x \in S : n - x \in Nat
        <3>1. \A x \in 1..n : n - x \in Nat OBVIOUS
        <3> QED BY <3>1
    <2> QED BY <2>1
<1>2. PICK t \in T : \A u \in T : t <= u BY <1>1, LeastNat
<1>3. PICK x \in S : t = n - x BY <1>2
<1>4. \A y \in S : x >= y
    <2>1. ASSUME NEW y \in S PROVE x >= y
        <3>1. n - x <= n - y BY <1>2, <1>3
        <3>2. x \in 1..n /\ y \in 1..n OBVIOUS
        <3> QED BY <3>1, <3>2
    <2> QED BY <2>1
<1>5. Max(S) \in S /\ \A y \in S : Max(S) >= y
    BY <1>4 DEF Max
<1> QED BY <1>5

(* The function by which FoldLeft computes: c for no elements, then D of   *)
(* the last one and the value before.                                      *)
Iterates(iter, c, D, n) ==
    iter = [u \in SUBSET (1..n) |-> IF u = {} THEN c ELSE D[<<Max(u), iter[u \ {Max(u)}]>>]]

LEMMA IterExists ==
    ASSUME NEW T, NEW c \in T, NEW D \in [Nat \X T -> T], NEW n \in Nat
    PROVE  \E iter \in [SUBSET (1..n) -> T] : Iterates(iter, c, D, n)
<1> DEFINE Step(f, u) == IF u = {} THEN c ELSE D[<<Max(u), f[u \ {Max(u)}]>>]
           Below(m) == SUBSET (1..m)
           Steps(f, m) == f \in [Below(m) -> T] /\ \A u \in Below(m) : f[u] = Step(f, u)
           S == {m \in Nat : m <= n => \E f : Steps(f, m)}
<1>1. 0 \in S
    <2> DEFINE f == [u \in Below(0) |-> c]
    <2>1. \A u \in Below(0) : u = {}
        <3>1. 1..0 = {} OBVIOUS
        <3> QED BY <3>1
    <2>2. f \in [Below(0) -> T] /\ \A u \in Below(0) : f[u] = Step(f, u) BY <2>1
    <2> HIDE DEF f
    <2>3. Steps(f, 0) BY <2>2
    <2> HIDE DEF Steps
    <2> QED BY <2>3
<1>2. ASSUME NEW m \in Nat, m \in S PROVE m + 1 \in S
    <2> HIDE DEF Steps
    <2> SUFFICES ASSUME m + 1 <= n
                 PROVE \E f : Steps(f, m + 1)
        OBVIOUS
    <2> USE DEF Steps
    <2>0. \E f : Steps(f, m)
        <3>1. m <= n OBVIOUS
        <3> HIDE DEF Steps
        <3> QED BY <1>2, <3>1
    <2>1. PICK f : f \in [Below(m) -> T] /\ \A u \in Below(m) : f[u] = Step(f, u) BY <2>0
    <2> DEFINE g == [u \in Below(m + 1) |-> IF m + 1 \in u THEN D[<<m + 1, f[u \ {m + 1}]>>] ELSE f[u]]
    <2>2. \A u \in Below(m + 1) : u \ {m + 1} \in Below(m)
        <3>1. \A x \in 1..(m + 1) : x # m + 1 => x \in 1..m OBVIOUS
        <3> QED BY <3>1
    <2>3. ASSUME NEW u \in Below(m + 1), m + 1 \notin u PROVE u \in Below(m)
        <3>1. u \ {m + 1} = u BY <2>3
        <3> QED BY <2>2, <3>1
    <2>4. g \in [Below(m + 1) -> T]
        <3>1. \A u \in Below(m) : <<m + 1, f[u]>> \in Nat \X T BY <2>1
        <3>2. \A u \in Below(m) : D[<<m + 1, f[u]>>] \in T BY <3>1
        <3>3. \A u \in Below(m + 1) :
                 (IF m + 1 \in u THEN D[<<m + 1, f[u \ {m + 1}]>>] ELSE f[u]) \in T
            BY <2>1, <2>2, <2>3, <3>2
        <3> QED BY <3>3
    <2>5. \A u \in Below(m) : u \in Below(m + 1) /\ m + 1 \notin u
        <3>1. \A x \in 1..m : x \in 1..(m + 1) /\ x # m + 1 OBVIOUS
        <3> QED BY <3>1
    <2>6. \A u \in Below(m) : g[u] = f[u] BY <2>5
    <2>7. ASSUME NEW u \in Below(m + 1), m + 1 \in u PROVE g[u] = Step(g, u)
        <3>1. Max(u) = m + 1
            <4>1. m + 1 \in Nat OBVIOUS
            <4>2. Max(u) \in u /\ m + 1 <= Max(u) BY <2>7, <4>1, MaxOfSome
            <4>3. Max(u) \in 1..(m + 1) BY <4>2
            <4> QED BY <4>2, <4>3
        <3>2. g[u] = D[<<m + 1, f[u \ {m + 1}]>>] BY <2>7
        <3>3. g[u \ {m + 1}] = f[u \ {m + 1}] BY <2>2, <2>6
        <3> QED BY <2>7, <3>1, <3>2, <3>3
    <2>8. ASSUME NEW u \in Below(m + 1), m + 1 \notin u PROVE g[u] = Step(g, u)
        <3>1. u \in Below(m) /\ g[u] = f[u] BY <2>3, <2>6, <2>8
        <3>2. u \ {Max(u)} \in Below(m) BY <3>1
        <3>3. g[u \ {Max(u)}] = f[u \ {Max(u)}] BY <2>6, <3>2
        <3> QED BY <2>1, <3>1, <3>3
    <2> HIDE DEF g
    <2>9. Steps(g, m + 1) BY <2>4, <2>7, <2>8
    <2> HIDE DEF Steps
    <2> QED BY <2>9
<1> HIDE DEF S
<1>3. Nat \subseteq S BY <1>1, <1>2, SetInduction
<1> USE DEF S
<1>4. \E f : Steps(f, n)
    <2> HIDE DEF Steps
    <2> QED BY <1>3
<1>5. PICK f : Steps(f, n) BY <1>4
<1>6. f = [u \in Below(n) |-> Step(f, u)] BY <1>5
<1>7. f \in [SUBSET (1..n) -> T] BY <1>5
<1>8. Iterates(f, c, D, n) BY <1>6, Zenon DEF Iterates
<1> QED BY <1>7, <1>8

(* The step from 1..(k - 1) to 1..k. *)
LEMMA LastOf ==
    ASSUME NEW k \in Nat \ {0}
    PROVE  Max(1..k) = k /\ (1..k) \ {k} = 1..(k - 1) /\ 1..k # {}
<1>1. k \in Nat /\ 1..k \in SUBSET (1..k) /\ 1..k # {} /\ k \in 1..k OBVIOUS
<1>2. Max(1..k) \in 1..k /\ k <= Max(1..k) BY <1>1, MaxOfSome
<1> QED BY <1>2
=============================================================================
