------------------------------ MODULE Induction ------------------------------
(***************************************************************************)
(* Induction over numbers and finite sets, as facts about sets: a set of    *)
(* numbers that holds 0 and the successors of its members holds them all.   *)
(* The modules of proofs use them where a definition is recursive.          *)
(***************************************************************************)
EXTENDS Naturals, FiniteSets, Sequences, SequencesExt, FiniteSetTheorems,
        SequenceTheorems, TLAPS

(* A set with 0 and each successor of a member is all of Nat. *)
LEMMA NaturalInduction ==
  ASSUME NEW T, 0 \in T, \A n \in Nat : n \in T => n + 1 \in T
  PROVE  Nat \subseteq T
<1> DEFINE R == {pair \in Nat \X Nat : pair[1] < pair[2]}
           U == Nat \ T
<1>1. IsWellFoundedOn(R, Nat)
  BY NatLessThanWellFounded DEF OpToRel
<1>2. SUFFICES ASSUME U # {} PROVE FALSE
  OBVIOUS
<1>3. PICK x \in U : \A y \in U : <<y, x>> \notin R
  <2>1. U \subseteq Nat
    OBVIOUS
  <2> HIDE DEF R, U
  <2> QED
    BY <1>1, <1>2, <2>1, WFMin
<1>4. x # 0 /\ x - 1 \in Nat /\ x - 1 < x /\ (x - 1) + 1 = x
  OBVIOUS
<1>5. x - 1 \in T
  BY <1>3, <1>4
<1> QED
  BY <1>4, <1>5

(* A family of subsets of a finite set that holds the empty set, and each     *)
(* member with one more element, holds the set itself.                       *)
LEMMA FiniteSetInduction ==
  ASSUME NEW S, IsFiniteSet(S), NEW F, {} \in F,
         \A T \in SUBSET S : \A x \in S : T \in F /\ x \notin T => T \cup {x} \in F
  PROVE  S \in F
<1>1. PICK s \in Seq(S) : \A x \in S : \E n \in 1 .. Len(s) : s[n] = x
  BY DEF IsFiniteSet
<1> DEFINE Prefix(k) == {s[i] : i \in 1 .. k}
           T == {k \in Nat : k <= Len(s) => Prefix(k) \in F}
<1>2. Len(s) \in Nat /\ \A i \in 1 .. Len(s) : s[i] \in S
  BY ElementOfSeq, LenProperties
<1>3. 0 \in T
  <2>1. Prefix(0) = {}
    OBVIOUS
  <2> QED
    BY <2>1
<1>4. ASSUME NEW n \in Nat, n \in T
      PROVE  n + 1 \in T
  <2>1. SUFFICES ASSUME n + 1 <= Len(s)
                 PROVE  Prefix(n + 1) \in F
    OBVIOUS
  <2>2. Prefix(n) \in F /\ Prefix(n) \in SUBSET S /\ s[n + 1] \in S
    BY <1>2, <1>4, <2>1
  <2>3. Prefix(n + 1) = Prefix(n) \cup {s[n + 1]}
    <3>1. \A i \in 1 .. (n + 1) : i \in 1 .. n \/ i = n + 1
      OBVIOUS
    <3>2. \A i \in 1 .. n : i \in 1 .. (n + 1)
      OBVIOUS
    <3> QED
      BY <3>1, <3>2
  <2> HIDE DEF Prefix
  <2>4. CASE s[n + 1] \in Prefix(n)
    BY <2>2, <2>3, <2>4
  <2>5. CASE s[n + 1] \notin Prefix(n)
    BY <2>2, <2>3, <2>5
  <2> QED
    BY <2>4, <2>5
<1>5. Nat \subseteq T
  <2> HIDE DEF T
  <2> QED
    BY <1>3, <1>4, NaturalInduction
<1>6. Prefix(Len(s)) = S
  BY <1>1, <1>2
<1> QED
  BY <1>2, <1>5, <1>6

(* FlattenSeq appends one sequence after the other. *)
LEMMA FlattenUnfolds ==
  ASSUME NEW seqs, Len(seqs) \in Nat \ {0}
  PROVE  \E f : /\ f[1] = seqs[1]
                /\ \A i \in 2 .. Len(seqs) : f[i] = f[i - 1] \o seqs[i]
                /\ FlattenSeq(seqs) = f[Len(seqs)]
<1> DEFINE Entry(f, i) == IF i = 1 THEN seqs[i] ELSE f[i - 1] \o seqs[i]
           Flat(f, k) == f = [i \in 1 .. k |-> Entry(f, i)]
           T == {k \in Nat : \E f : Flat(f, k)}
<1>a. ASSUME NEW k \in Nat, NEW f, NEW g, NEW i \in 1 .. (k + 1),
             \A j \in 1 .. k : f[j] = g[j]
      PROVE  Entry(f, i) = Entry(g, i)
  <2>1. i # 1 => i - 1 \in 1 .. k
    OBVIOUS
  <2> QED
    BY <1>a, <2>1
<1>b. \A f : Entry(f, 1) = seqs[1]
  OBVIOUS
<1>c. ASSUME NEW f, NEW i \in 2 .. Len(seqs)
      PROVE  Entry(f, i) = f[i - 1] \o seqs[i]
  <2>1. i # 1
    OBVIOUS
  <2> QED
    BY <2>1
<1>1. FlattenSeq(seqs) = (CHOOSE f : Flat(f, Len(seqs)))[Len(seqs)]
  BY DEF FlattenSeq
<1> HIDE DEF Entry
<1>2. 0 \in T
  <2>1. Flat([i \in 1 .. 0 |-> 0], 0)
    OBVIOUS
  <2> QED
    BY <2>1
<1>3. ASSUME NEW n \in Nat, n \in T
      PROVE  n + 1 \in T
  <2>1. PICK f : Flat(f, n)
    BY <1>3
  <2> DEFINE g == [i \in 1 .. (n + 1) |-> Entry(f, i)]
  <2>2. \A i \in 1 .. n : g[i] = f[i]
    <3>1. \A i \in 1 .. n : f[i] = Entry(f, i)
      BY <2>1, Zenon
    <3>2. \A i \in 1 .. n : i \in 1 .. (n + 1)
      OBVIOUS
    <3> QED
      BY <3>1, <3>2
  <2> HIDE DEF Flat
  <2>3. \A i \in 1 .. (n + 1) : Entry(g, i) = Entry(f, i)
    <3> HIDE DEF g
    <3> QED
      BY <1>a, <2>2
  <2>4. g = [i \in 1 .. (n + 1) |-> Entry(g, i)]
    <3> DEFINE h == [i \in 1 .. (n + 1) |-> Entry(g, i)]
    <3>1. h = [i \in 1 .. (n + 1) |-> Entry(f, i)]
      <4> HIDE DEF g
      <4> QED
        BY <2>3
    <3> QED
      BY <3>1
  <2>5. Flat(g, n + 1)
    BY <2>4 DEF Flat
  <2> HIDE DEF g
  <2> QED
    BY <2>5
<1>4. Len(seqs) \in T
  <2> HIDE DEF T
  <2> QED
    BY <1>2, <1>3, NaturalInduction
<1> DEFINE flatten == CHOOSE f : Flat(f, Len(seqs))
<1>5. Flat(flatten, Len(seqs))
  <2> HIDE DEF Flat
  <2> QED
    BY <1>4
<1> HIDE DEF flatten
<1>6. \A i \in 1 .. Len(seqs) : flatten[i] = Entry(flatten, i)
  BY <1>5, Zenon
<1>7. flatten[1] = seqs[1] /\ \A i \in 2 .. Len(seqs) : flatten[i] = flatten[i - 1] \o seqs[i]
  <2>1. 1 \in 1 .. Len(seqs) /\ \A i \in 2 .. Len(seqs) : i \in 1 .. Len(seqs)
    OBVIOUS
  <2> QED
    BY <1>6, <1>b, <1>c, <2>1
<1>8. FlattenSeq(seqs) = flatten[Len(seqs)]
  BY <1>1 DEF flatten
<1> QED
  BY <1>7, <1>8
=============================================================================
