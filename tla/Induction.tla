------------------------------ MODULE Induction ------------------------------
(***************************************************************************)
(* Induction over the natural numbers in a form the provers can use - a    *)
(* set that contains 0 and every successor - and what it gives about       *)
(* FlattenSeq, which is defined by recursion.                              *)
(***************************************************************************)
EXTENDS Integers, SequencesExt, SequenceTheorems, WellFoundedInduction, TLAPS

Less == {p \in Nat \X Nat : p[1] < p[2]}

LEMMA LessWellFounded == IsWellFoundedOn(Less, Nat)
  BY NatLessThanWellFounded DEF OpToRel, Less

\* A set that contains 0 and with every number its successor contains all:
\* the smallest number it lacks would not be 0 and would have a predecessor.
LEMMA Induct ==
    ASSUME NEW S, 0 \in S, \A n \in Nat : n \in S => n + 1 \in S
    PROVE  Nat \subseteq S
  <1>1. SUFFICES ASSUME Nat \ S # {} PROVE FALSE
    OBVIOUS
  <1>2. PICK x \in Nat \ S : \A y \in Nat \ S : ~(<<y, x>> \in Less)
    BY <1>1, LessWellFounded, WFMin
  <1>3. x # 0 /\ x - 1 \in Nat /\ <<x - 1, x>> \in Less
    BY <1>2 DEF Less
  <1>4. x - 1 \in S
    BY <1>2, <1>3
  <1> QED
    BY <1>3, <1>4

-----------------------------------------------------------------------------
(* FlattenSeq *)

\* flat is the function FlattenSeq builds for the first n sequences of s.
Flattens(flat, s, n) ==
    flat = [i \in 1..n |-> IF i = 1 THEN s[i] ELSE flat[i - 1] \o s[i]]

LEMMA FlattensExists ==
    ASSUME NEW s, NEW n \in Nat
    PROVE  \E flat : Flattens(flat, s, n)
  <1> DEFINE Has == {k \in Nat : \E flat : Flattens(flat, s, k)}
  <1>1. 0 \in Has
    <2>1. Flattens(<<>>, s, 0)
      BY DEF Flattens
    <2> QED
      BY <2>1
  <1>2. ASSUME NEW k \in Nat, k \in Has PROVE k + 1 \in Has
    <2>1. PICK flat : Flattens(flat, s, k)
      BY <1>2
    <2> DEFINE new == IF k + 1 = 1 THEN s[k + 1] ELSE flat[k] \o s[k + 1]
               longer == [i \in 1..(k + 1) |-> IF i = k + 1 THEN new ELSE flat[i]]
    <2>2. \A i \in 1..k : longer[i] = flat[i]
      OBVIOUS
    <2>3. \A i \in 1..k : flat[i] = IF i = 1 THEN s[i] ELSE flat[i - 1] \o s[i]
      BY <2>1 DEF Flattens
    <2>4. ASSUME NEW i \in 1..(k + 1)
          PROVE  longer[i] = IF i = 1 THEN s[i] ELSE longer[i - 1] \o s[i]
      <3>1. CASE i = k + 1
        <4>1. i # 1 => longer[i - 1] = flat[k]
          BY <3>1, <2>2
        <4>2. longer[i] = new
          BY <3>1
        <4> HIDE DEF longer
        <4> QED
          BY <3>1, <4>1, <4>2
      <3>2. CASE i # k + 1
        <4>1. i \in 1..k /\ (i # 1 => i - 1 \in 1..k)
          BY <3>2
        <4> HIDE DEF longer, new
        <4> QED
          BY <2>2, <2>3, <4>1
      <3> QED
        BY <3>1, <3>2
    <2>5. Flattens(longer, s, k + 1)
      BY <2>4 DEF Flattens
    <2> QED
      BY <2>5
  <1> HIDE DEF Has
  <1>3. Nat \subseteq Has
    BY <1>1, <1>2, Induct
  <1> QED
    BY <1>3 DEF Has

\* It depends on those sequences alone, and its values are sequences.
LEMMA FlattensUnique ==
    ASSUME NEW s, NEW r, NEW n \in Nat, NEW m \in Nat, n <= m,
           \A i \in 1..n : s[i] = r[i],
           NEW f, Flattens(f, s, n), NEW g, Flattens(g, r, m)
    PROVE  \A i \in 1..n : f[i] = g[i]
  <1> DEFINE Same == {k \in Nat : k \in 1..n => f[k] = g[k]}
  <1>1. /\ \A i \in 1..n : f[i] = IF i = 1 THEN s[i] ELSE f[i - 1] \o s[i]
        /\ \A i \in 1..n : g[i] = IF i = 1 THEN r[i] ELSE g[i - 1] \o r[i]
    <2>1. \A i \in 1..n : f[i] = IF i = 1 THEN s[i] ELSE f[i - 1] \o s[i]
      BY DEF Flattens
    <2>2. \A i \in 1..n : i \in 1..m
      OBVIOUS
    <2>3. \A i \in 1..m : g[i] = IF i = 1 THEN r[i] ELSE g[i - 1] \o r[i]
      BY DEF Flattens
    <2> QED
      BY <2>1, <2>2, <2>3
  <1>2. 0 \in Same
    OBVIOUS
  <1>3. ASSUME NEW k \in Nat, k \in Same PROVE k + 1 \in Same
    <2>1. SUFFICES ASSUME k + 1 \in 1..n PROVE f[k + 1] = g[k + 1]
      OBVIOUS
    <2>2. k + 1 # 1 => f[k] = g[k]
      BY <1>3, <2>1
    <2>3. s[k + 1] = r[k + 1] /\ (k + 1) - 1 = k
      BY <2>1
    <2> HIDE DEF Same
    <2> QED
      BY <1>1, <2>1, <2>2, <2>3
  <1> HIDE DEF Same
  <1>4. Nat \subseteq Same
    BY <1>2, <1>3, Induct
  <1> QED
    BY <1>4 DEF Same

LEMMA FlattensType ==
    ASSUME NEW T, NEW n \in Nat, NEW s, \A i \in 1..n : s[i] \in Seq(T),
           NEW f, Flattens(f, s, n)
    PROVE  \A i \in 1..n : f[i] \in Seq(T)
  <1> DEFINE Good == {k \in Nat : k \in 1..n => f[k] \in Seq(T)}
  <1>1. \A i \in 1..n : f[i] = IF i = 1 THEN s[i] ELSE f[i - 1] \o s[i]
    BY DEF Flattens
  <1>2. 0 \in Good
    OBVIOUS
  <1>3. ASSUME NEW k \in Nat, k \in Good PROVE k + 1 \in Good
    <2>1. SUFFICES ASSUME k + 1 \in 1..n PROVE f[k + 1] \in Seq(T)
      OBVIOUS
    <2>2. k + 1 # 1 => f[k] \in Seq(T)
      BY <1>3, <2>1
    <2>3. s[k + 1] \in Seq(T) /\ (k + 1) - 1 = k
      BY <2>1
    <2> HIDE DEF Good
    <2>4. f[k + 1] = IF k + 1 = 1 THEN s[k + 1] ELSE f[k] \o s[k + 1]
      BY <1>1, <2>1, <2>3
    <2>5. k + 1 # 1 => f[k] \o s[k + 1] \in Seq(T)
      BY <2>2, <2>3, ConcatProperties
    <2> QED
      BY <2>3, <2>4, <2>5
  <1> HIDE DEF Good
  <1>4. Nat \subseteq Good
    BY <1>2, <1>3, Induct
  <1> QED
    BY <1>4 DEF Good

\* The function is the one in the definition of FlattenSeq.
LEMMA FlattenSeqDef ==
    ASSUME NEW s, Len(s) \in Nat \ {0}
    PROVE  \E flat : Flattens(flat, s, Len(s)) /\ FlattenSeq(s) = flat[Len(s)]
  <1> DEFINE flat == CHOOSE f : f = [i \in 1..Len(s) |-> IF i = 1 THEN s[i] ELSE f[i - 1] \o s[i]]
  <1>1. Flattens(flat, s, Len(s))
    BY FlattensExists DEF Flattens
  <1>2. FlattenSeq(s) = flat[Len(s)]
    BY DEF FlattenSeq
  <1> QED
    BY <1>1, <1>2

\* FlattenSeq of no sequence is empty.
LEMMA FlattenSeqEmpty == FlattenSeq(<<>>) = <<>>
  BY DEF FlattenSeq

\* One more sequence comes at the end.
LEMMA FlattenSeqAppend ==
    ASSUME NEW T, NEW s \in Seq(Seq(T)), NEW x \in Seq(T)
    PROVE  /\ FlattenSeq(s) \in Seq(T)
           /\ FlattenSeq(Append(s, x)) = FlattenSeq(s) \o x
  <1> DEFINE n == Len(s)
             r == Append(s, x)
  <1>1. n \in Nat /\ r \in Seq(Seq(T)) /\ Len(r) = n + 1 /\ r[n + 1] = x
        /\ \A i \in 1..n : s[i] = r[i]
    BY AppendProperties, LenProperties
  <1>2. \A i \in 1..n : s[i] \in Seq(T)
    OBVIOUS
  <1> HIDE DEF n, r
  <1>3. PICK g : Flattens(g, r, n + 1) /\ FlattenSeq(r) = g[n + 1]
    <2>1. Len(r) = n + 1
      BY <1>1
    <2>2. Len(r) \in Nat \ {0}
      <3>1. n + 1 \in Nat \ {0}
        BY <1>1
      <3> QED
        BY <2>1, <3>1, Zenon
    <2>3. \E g : Flattens(g, r, Len(r)) /\ FlattenSeq(r) = g[Len(r)]
      BY <2>2, FlattenSeqDef, Zenon
    <2> QED
      BY <2>1, <2>3, Zenon
  <1>4. g[n + 1] = IF n + 1 = 1 THEN r[n + 1] ELSE g[(n + 1) - 1] \o r[n + 1]
    <2>1. n + 1 \in 1..(n + 1)
      BY <1>1
    <2> QED
      BY <1>3, <2>1 DEF Flattens
  <1>5. CASE n = 0
    <2>1. s = <<>>
      BY <1>5 DEF n
    <2>2. <<>> \o x = x /\ <<>> \in Seq(T)
      OBVIOUS
    <2>3. n + 1 = 1
      BY <1>5
    <2>4. FlattenSeq(r) = x
      BY <1>1, <1>3, <1>4, <2>3, Zenon
    <2> QED
      BY <2>1, <2>2, <2>4, FlattenSeqEmpty DEF r
  <1>6. CASE n # 0
    <2>1. PICK f : Flattens(f, s, n) /\ FlattenSeq(s) = f[n]
      <3>1. n \in Nat \ {0}
        BY <1>1, <1>6
      <3>2. Len(s) \in Nat \ {0}
        BY <3>1 DEF n
      <3> QED
        BY <3>2, FlattenSeqDef, Zenon DEF n
    <2>2. f[n] = g[n]
      <3>1. n + 1 \in Nat /\ n <= n + 1 /\ n \in 1..n
        BY <1>1, <1>6
      <3>2. \A i \in 1..n : f[i] = g[i]
        <4>1. Flattens(g, r, n + 1)
          BY <1>3
        <4>2. Flattens(f, s, n)
          BY <2>1
        <4>3. \A i \in 1..n : s[i] = r[i]
          BY <1>1
        <4> DEFINE m == n + 1
        <4>4. n \in Nat /\ m \in Nat /\ n <= m /\ Flattens(g, r, m)
          BY <1>1, <3>1, <4>1
        <4> HIDE DEF m
        <4> QED
          BY <4>2, <4>3, <4>4, FlattensUnique
      <3> QED
        BY <3>1, <3>2
    <2>3. f[n] \in Seq(T)
      <3>1. n \in 1..n
        BY <1>1, <1>6
      <3> QED
        BY <1>1, <1>2, <2>1, <3>1, FlattensType
    <2>4. n + 1 # 1 /\ (n + 1) - 1 = n
      BY <1>1, <1>6
    <2> QED
      BY <1>1, <1>3, <1>4, <2>1, <2>2, <2>3, <2>4 DEF r
  <1> QED
    BY <1>5, <1>6
=============================================================================
