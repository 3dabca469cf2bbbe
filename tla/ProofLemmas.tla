---------------------------- MODULE ProofLemmas -----------------------------
(* Facts about numbers, sequences and recursive functions that the proofs share. *)
EXTENDS Integers, Sequences, SequenceTheorems, WellFoundedInduction, TLAPS

(* Every set of naturals that has a member has a least one. *)
LEMMA LeastMember ==
    ASSUME NEW S \in SUBSET Nat, S # {}
    PROVE  \E n \in S : \A m \in S : n <= m
<1> DEFINE R == {xy \in Nat \X Nat : xy[1] < xy[2]}
<1>1. IsWellFoundedOn(R, Nat)
  BY NatLessThanWellFounded DEF OpToRel
<1>2. PICK n \in S : \A m \in S : ~(<<m, n>> \in R)
  BY <1>1, WFMin
<1>3. ASSUME NEW m \in S PROVE n <= m
  <2>1. m \in Nat /\ n \in Nat /\ <<m, n>> \in Nat \X Nat
    OBVIOUS
  <2>2. <<m, n>>[1] = m /\ <<m, n>>[2] = n
    OBVIOUS
  <2>3. ~(m < n)
    BY <1>2, <2>1, <2>2
  <2>4. QED BY <2>1, <2>3
<1>4. QED BY <1>3

(* Induction up to a bound, for a property given as the set of numbers     *)
(* that have it.                                                           *)
LEMMA Induct ==
    ASSUME NEW n \in Nat, NEW S, 0 \in S, \A k \in 0 .. n - 1 : k \in S => k + 1 \in S
    PROVE  \A k \in 0 .. n : k \in S
<1> DEFINE Bad == {k \in 0 .. n : k \notin S}
<1>1. SUFFICES ASSUME Bad # {} PROVE FALSE
  OBVIOUS
<1>2. Bad \in SUBSET Nat
  OBVIOUS
<1>3. PICK m \in Bad : \A k \in Bad : m <= k
  BY <1>1, <1>2, LeastMember
<1>4. m - 1 \in 0 .. n - 1 /\ m - 1 \in 0 .. n /\ ~(m <= m - 1) /\ (m - 1) + 1 = m
  BY <1>3
<1>5. m - 1 \in S
  BY <1>3, <1>4
<1>6. QED BY <1>3, <1>4, <1>5

(* Functions defined by recursion on an interval exist. *)
Steps(D) == [Nat \X D -> D]
Runs(D, a, F, n) == {f \in [0 .. n -> D] : f[0] = a /\ \A k \in 1 .. n : f[k] = F[<<k, f[k - 1]>>]}

LEMMA Recursion ==
    ASSUME NEW D, NEW a \in D, NEW F \in Steps(D), NEW n \in Nat
    PROVE  Runs(D, a, F, n) # {}
<1> USE DEF Steps
<1> DEFINE Ok(m) == \E f \in [0 .. m -> D] : f[0] = a /\ \A k \in 1 .. m : f[k] = F[<<k, f[k - 1]>>]
           Bad == {m \in Nat : ~Ok(m)}
<1>1. Ok(0)
  <2>1. PICK f : f = [k \in 0 .. 0 |-> a]
    OBVIOUS
  <2>2. f \in [0 .. 0 -> D] /\ f[0] = a /\ 1 .. 0 = {}
    BY <2>1
  <2>3. QED BY ONLY <2>2
<1>2. ASSUME NEW m \in Nat, Ok(m) PROVE Ok(m + 1)
  <2>1. PICK f \in [0 .. m -> D] : f[0] = a /\ \A k \in 1 .. m : f[k] = F[<<k, f[k - 1]>>]
    BY <1>2
  <2> DEFINE g == [k \in 0 .. m + 1 |-> IF k = m + 1 THEN F[<<m + 1, f[m]>>] ELSE f[k]]
  <2>2. m \in 0 .. m /\ \A k \in 0 .. m + 1 : k = m + 1 \/ k \in 0 .. m
    OBVIOUS
  <2>3. F[<<m + 1, f[m]>>] \in D
    BY <2>1, <2>2
  <2>4. g \in [0 .. m + 1 -> D]
    BY <2>2, <2>3
  <2>5. g[0] = a
    BY <2>1
  <2>6. ASSUME NEW k \in 1 .. m + 1 PROVE g[k] = F[<<k, g[k - 1]>>]
    <3>1. k - 1 \in 0 .. m + 1 /\ k - 1 # m + 1 /\ k \in 0 .. m + 1
      OBVIOUS
    <3>2. g[k - 1] = f[k - 1]
      BY <3>1
    <3>3. CASE k = m + 1
      BY <3>1, <3>2, <3>3
    <3>4. CASE k # m + 1
      <4>1. k \in 1 .. m /\ g[k] = f[k]
        BY <3>1, <3>4
      <4>2. QED BY <2>1, <3>2, <4>1
    <3>5. QED BY <3>3, <3>4
  <2> HIDE DEF g
  <2>7. QED BY <2>4, <2>5, <2>6
<1> HIDE DEF Ok
<1>3. ASSUME Bad # {} PROVE FALSE
  <2>1. PICK m \in Bad : \A k \in Bad : m <= k
    BY <1>3, LeastMember
  <2>2. m # 0 /\ m \in Nat
    BY <1>1
  <2>3. m - 1 \in Nat /\ ~(m <= m - 1) /\ (m - 1) + 1 = m
    BY <2>2
  <2>4. Ok(m - 1)
    BY <2>1, <2>3
  <2>5. QED BY <1>2, <2>3, <2>4
<1>4. QED BY <1>3 DEF Ok, Runs

(* Joining sequences is associative. *)
LEMMA Regroup ==
    ASSUME NEW U, NEW a \in Seq(U), NEW b \in Seq(U), NEW c \in Seq(U)
    PROVE  (a \o b) \o c = a \o (b \o c)
<1>1. /\ a \o b \in Seq(U) /\ Len(a \o b) = Len(a) + Len(b)
      /\ \A i \in 1 .. Len(a) + Len(b) : (a \o b)[i] = IF i <= Len(a) THEN a[i] ELSE b[i - Len(a)]
  BY ConcatProperties
<1>2. /\ b \o c \in Seq(U) /\ Len(b \o c) = Len(b) + Len(c)
      /\ \A i \in 1 .. Len(b) + Len(c) : (b \o c)[i] = IF i <= Len(b) THEN b[i] ELSE c[i - Len(b)]
  BY ConcatProperties
<1>3. PICK l \in Seq(U), r \in Seq(U) : l = a \o b /\ r = b \o c
  BY <1>1, <1>2
<1>4. /\ l \o c \in Seq(U) /\ Len(l \o c) = Len(l) + Len(c)
      /\ \A i \in 1 .. Len(l) + Len(c) : (l \o c)[i] = IF i <= Len(l) THEN l[i] ELSE c[i - Len(l)]
  BY ConcatProperties
<1>5. /\ a \o r \in Seq(U) /\ Len(a \o r) = Len(a) + Len(r)
      /\ \A i \in 1 .. Len(a) + Len(r) : (a \o r)[i] = IF i <= Len(a) THEN a[i] ELSE r[i - Len(a)]
  BY ConcatProperties
<1>6. PICK A \in Nat, B \in Nat, C \in Nat : A = Len(a) /\ B = Len(b) /\ C = Len(c)
  OBVIOUS
<1>7. Len(l \o c) = A + B + C /\ Len(a \o r) = A + B + C
  BY <1>1, <1>2, <1>3, <1>4, <1>5, <1>6
<1>8. PICK x \in Seq(U), y \in Seq(U) : x = l \o c /\ y = a \o r
  BY <1>4, <1>5
<1>9. ASSUME NEW i \in 1 .. A + B + C PROVE x[i] = y[i]
  <2>1. x[i] = IF i <= A + B THEN l[i] ELSE c[i - (A + B)]
    BY <1>1, <1>3, <1>4, <1>6, <1>8
  <2>2. y[i] = IF i <= A THEN a[i] ELSE r[i - A]
    BY <1>2, <1>3, <1>5, <1>6, <1>8
  <2>3. CASE i <= A
    BY <1>1, <1>3, <1>6, <2>1, <2>2, <2>3
  <2>4. CASE ~(i <= A) /\ i <= A + B
    <3>1. i \in 1 .. A + B /\ i - A \in 1 .. B + C /\ i - A <= B
      BY <2>4
    <3>2. l[i] = b[i - A] /\ r[i - A] = b[i - A]
      BY <1>1, <1>2, <1>3, <1>6, <2>4, <3>1
    <3>3. QED BY <2>1, <2>2, <2>4, <3>2
  <2>5. CASE ~(i <= A + B)
    <3>1. ~(i <= A) /\ i - A \in 1 .. B + C /\ ~(i - A <= B) /\ (i - A) - B = i - (A + B)
      BY <2>5
    <3>2. r[i - A] = c[i - (A + B)]
      BY <1>2, <1>3, <1>6, <3>1
    <3>3. QED BY <2>1, <2>2, <2>5, <3>1, <3>2
  <2>6. QED BY <2>3, <2>4, <2>5
<1>10. x = y
  BY <1>7, <1>8, <1>9, SeqEqual
<1>11. QED BY <1>3, <1>8, <1>10

(* The same as a named fact, which the provers instantiate at once. *)
Regroups(a, b, c) == (a \o b) \o c = a \o (b \o c)
LEMMA AllRegroup ==
    ASSUME NEW U, NEW a \in Seq(U), NEW b \in Seq(U), NEW c \in Seq(U)
    PROVE  Regroups(a, b, c)
  BY Regroup DEF Regroups

(* A sequence is the join of its two parts. *)
LEMMA CutJoin ==
    ASSUME NEW U, NEW s \in Seq(U), NEW n \in 0 .. Len(s)
    PROVE  /\ SubSeq(s, 1, n) \in Seq(U) /\ SubSeq(s, n + 1, Len(s)) \in Seq(U)
           /\ Len(SubSeq(s, 1, n)) = n /\ Len(SubSeq(s, n + 1, Len(s))) = Len(s) - n
           /\ \A i \in 1 .. n : SubSeq(s, 1, n)[i] = s[i]
           /\ \A i \in 1 .. Len(s) - n : SubSeq(s, n + 1, Len(s))[i] = s[n + i]
           /\ SubSeq(s, 1, n) \o SubSeq(s, n + 1, Len(s)) = s
<1>1. PICK L \in Nat : L = Len(s)
  OBVIOUS
<1>2. n \in Int /\ 1 \in Int /\ n + 1 \in Int /\ L \in Int /\ n \in 0 .. L
  BY <1>1
<1>3. (\A i \in 1 .. n : s[i] \in U) /\ (\A i \in n + 1 .. L : s[i] \in U)
  BY <1>1
<1>4. PICK a, b : a = SubSeq(s, 1, n) /\ b = SubSeq(s, n + 1, L)
  OBVIOUS
<1>5. a \in Seq(U) /\ Len(a) = (IF 1 <= n THEN n - 1 + 1 ELSE 0) /\ \A i \in 1 .. n - 1 + 1 : a[i] = s[1 + i - 1]
  BY <1>2, <1>3, <1>4, SubSeqProperties
<1>6. /\ b \in Seq(U) /\ Len(b) = (IF n + 1 <= L THEN L - (n + 1) + 1 ELSE 0)
      /\ \A i \in 1 .. L - (n + 1) + 1 : b[i] = s[(n + 1) + i - 1]
  BY <1>2, <1>3, <1>4, SubSeqProperties
<1>7. Len(a) = n /\ Len(b) = L - n /\ n - 1 + 1 = n /\ L - (n + 1) + 1 = L - n
  BY <1>2, <1>5, <1>6
<1>8. (\A i \in 1 .. n : a[i] = s[i]) /\ (\A i \in 1 .. L - n : b[i] = s[n + i])
  <2>1. ASSUME NEW i \in 1 .. n PROVE a[i] = s[i]
    <3>1. i \in 1 .. n - 1 + 1 /\ 1 + i - 1 = i
      BY <1>2
    <3>2. QED BY <1>5, <3>1
  <2>2. ASSUME NEW i \in 1 .. L - n PROVE b[i] = s[n + i]
    <3>1. i \in 1 .. L - (n + 1) + 1 /\ (n + 1) + i - 1 = n + i
      BY <1>2
    <3>2. QED BY <1>6, <3>1
  <2>3. QED BY <2>1, <2>2
<1>9. PICK c : c = a \o b
  OBVIOUS
<1>10. /\ c \in Seq(U) /\ Len(c) = Len(a) + Len(b)
       /\ \A i \in 1 .. Len(a) + Len(b) : c[i] = IF i <= Len(a) THEN a[i] ELSE b[i - Len(a)]
  BY <1>5, <1>6, <1>9, ConcatProperties
<1>11. ASSUME NEW i \in 1 .. L PROVE c[i] = s[i]
  <2>1. c[i] = IF i <= n THEN a[i] ELSE b[i - n]
    BY <1>2, <1>7, <1>10
  <2>2. CASE i <= n
    BY <1>8, <2>1, <2>2
  <2>3. CASE ~(i <= n)
    <3>1. i - n \in 1 .. L - n /\ n + (i - n) = i
      BY <1>2, <2>3
    <3>2. QED BY <1>8, <2>1, <2>3, <3>1
  <2>4. QED BY <2>2, <2>3
<1>12. Len(c) = L
  BY <1>2, <1>7, <1>10
<1>13. c = s
  BY <1>1, <1>10, <1>11, <1>12, SeqEqual
<1>14. QED BY <1>1, <1>4, <1>5, <1>6, <1>7, <1>8, <1>9, <1>13
=============================================================================
