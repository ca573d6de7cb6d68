------------------------- MODULE ExternalProbeProofs -------------------------
(***************************************************************************)
(* What the external feature probe may rely on, for every list of            *)
(* experiments, workload, burst and number of attempts: whose answers and    *)
(* whose telemetry a capture shows, that a recorded rejection is genuine,     *)
(* that what a run retains passes verification, and what a shown comparison  *)
(* says.                                                                    *)
(*                                                                         *)
(* The inductive invariant says when the application of an attempt may be    *)
(* alive, that no process outlives its attempt, how long a stranger who      *)
(* answered can go unnoticed, that the collections before the present one    *)
(* are each retained in one of two ways, and what is recorded of each.       *)
(***************************************************************************)
EXTENDS ExternalProbe, Induction

-----------------------------------------------------------------------------
(* The collections of a run: the baseline comes first, none occurs twice, and *)
(* the control of an experiment comes before it.                             *)

Names == {"baseline"} \cup ToSet(suite) \cup {Controls[e] : e \in DOMAIN Controls}

(* x is collected for the i-th experiment. *)
For(x, i) ==
  \/ x = suite[i]
  \/ suite[i] \in DOMAIN Controls /\ x = Controls[suite[i]]

(* The part of the collections that is for the first k experiments. *)
Part(s, k) ==
  /\ s \in Seq(Names)
  /\ \A q \in 1 .. Len(s) : \E i \in 1 .. k : For(s[q], i)
  /\ \A i \in 1 .. k : \E q \in 1 .. Len(s) : s[q] = suite[i]
  /\ \A p, q \in 1 .. Len(s) : s[p] = s[q] => p = q
  /\ \A q \in 1 .. Len(s) :
       s[q] \in ToSet(suite) \cap DOMAIN Controls =>
         q - 1 \in 1 .. Len(s) /\ s[q - 1] = Controls[s[q]]

PartFor(i) ==
  IF suite[i] \in DOMAIN Controls THEN <<Controls[suite[i]], suite[i]>> ELSE <<suite[i]>>

(* What the assumptions say of a suite: no two experiments share a collection, *)
(* and a control is no experiment.                                           *)
LEMMA SuiteFacts ==
  ASSUME suite \in Suites
  PROVE  /\ Len(suite) \in Nat \ {0} /\ DOMAIN suite = 1 .. Len(suite)
         /\ \A i \in 1 .. Len(suite) : suite[i] \in ToSet(suite)
         /\ \A e \in ToSet(suite) : \E i \in 1 .. Len(suite) : e = suite[i]
         /\ \A i, j \in 1 .. Len(suite) : \A x : For(x, i) /\ For(x, j) => i = j
         /\ \A i \in 1 .. Len(suite) : \A x : For(x, i) => x \in Names /\ x # "baseline"
         /\ \A e \in DOMAIN Controls : Controls[e] \notin ToSet(suite)
         /\ "baseline" \notin ToSet(suite)
<1>1. /\ suite \in Seq(ToSet(suite)) /\ suite # <<>> /\ IsInjective(suite)
      /\ "baseline" \notin ToSet(suite)
      /\ \A e \in DOMAIN Controls : Controls[e] \notin ToSet(suite) /\ Controls[e] # "baseline"
      /\ IsInjective(Controls)
  BY ProbeAssumption
<1>2. Len(suite) \in Nat \ {0} /\ DOMAIN suite = 1 .. Len(suite)
  BY <1>1, EmptySeq, LenProperties
<1>3. /\ \A i \in 1 .. Len(suite) : suite[i] \in ToSet(suite)
      /\ \A e \in ToSet(suite) : \E i \in 1 .. Len(suite) : e = suite[i]
  BY <1>2 DEF ToSet
<1>4. ASSUME NEW i \in 1 .. Len(suite), NEW j \in 1 .. Len(suite), NEW x, For(x, i), For(x, j)
      PROVE  i = j
  <2>1. suite[i] = suite[j]
    BY <1>1, <1>3, <1>4 DEF For, IsInjective
  <2> QED
    BY <1>1, <1>2, <2>1 DEF IsInjective
<1>5. ASSUME NEW i \in 1 .. Len(suite), NEW x, For(x, i)
      PROVE  x \in Names /\ x # "baseline"
  BY <1>1, <1>3, <1>5 DEF For, Names
<1> QED
  BY <1>1, <1>2, <1>3, <1>4, <1>5

(* An experiment is collected after its control, if it has one. *)
LEMMA PartOfOne ==
  ASSUME suite \in Suites, NEW k \in 1 .. Len(suite)
  PROVE  /\ PartFor(k) \in Seq(Names)
         /\ Len(PartFor(k)) \in {1, 2}
         /\ \A q \in 1 .. Len(PartFor(k)) : For(PartFor(k)[q], k)
         /\ PartFor(k)[Len(PartFor(k))] = suite[k]
         /\ suite[k] \in DOMAIN Controls =>
              Len(PartFor(k)) = 2 /\ PartFor(k)[1] = Controls[suite[k]]
         /\ Len(PartFor(k)) = 2 => PartFor(k)[1] \notin ToSet(suite)
<1>1. suite[k] \in Names /\ \A e \in DOMAIN Controls : Controls[e] \in Names
  BY SuiteFacts DEF For, Names
<1>2. CASE suite[k] \in DOMAIN Controls
  <2>1. PartFor(k) = <<Controls[suite[k]], suite[k]>>
    BY <1>2 DEF PartFor
  <2>2. <<Controls[suite[k]], suite[k]>> \in Seq(Names)
    BY <1>1, <1>2
  <2>3. /\ Len(PartFor(k)) = 2 /\ PartFor(k)[1] = Controls[suite[k]]
        /\ PartFor(k)[2] = suite[k]
    BY <2>1
  <2>4. For(PartFor(k)[1], k) /\ For(PartFor(k)[2], k)
    BY <1>2, <2>3, Zenon DEF For
  <2>5. ASSUME NEW q \in 1 .. Len(PartFor(k))
        PROVE  For(PartFor(k)[q], k)
    <3>1. q = 1 \/ q = 2
      BY <2>3
    <3> QED
      BY <2>4, <3>1
  <2> QED
    BY <1>2, <2>1, <2>2, <2>3, <2>5, SuiteFacts
<1>3. CASE suite[k] \notin DOMAIN Controls
  <2>1. PartFor(k) = <<suite[k]>>
    BY <1>3 DEF PartFor
  <2>2. <<suite[k]>> \in Seq(Names)
    BY <1>1
  <2>3. Len(PartFor(k)) = 1 /\ PartFor(k)[1] = suite[k]
    BY <2>1
  <2>4. For(PartFor(k)[1], k)
    BY <2>3, Zenon DEF For
  <2>5. ASSUME NEW q \in 1 .. Len(PartFor(k))
        PROVE  For(PartFor(k)[q], k)
    <3>1. q = 1
      BY <2>3
    <3> QED
      BY <2>4, <3>1
  <2> QED
    BY <1>3, <2>1, <2>2, <2>3, <2>5
<1> QED
  BY <1>2, <1>3

(* The part of one more experiment is appended. *)
LEMMA PartGrows ==
  ASSUME suite \in Suites, NEW k \in Nat, k + 1 \in 1 .. Len(suite), NEW s, Part(s, k)
  PROVE  Part(s \o PartFor(k + 1), k + 1)
<1> DEFINE t == PartFor(k + 1)
           u == s \o t
           m == Len(s)
           n == Len(t)
<1>1. /\ t \in Seq(Names) /\ n \in {1, 2}
      /\ \A q \in 1 .. n : For(t[q], k + 1)
      /\ t[n] = suite[k + 1]
      /\ suite[k + 1] \in DOMAIN Controls => n = 2 /\ t[1] = Controls[suite[k + 1]]
      /\ n = 2 => t[1] \notin ToSet(suite)
  BY PartOfOne
<1>2. s \in Seq(Names) /\ m \in Nat
  BY LenProperties DEF Part
<1> HIDE DEF t
<1>3. /\ u \in Seq(Names) /\ Len(u) = m + n
      /\ \A q \in 1 .. m : u[q] = s[q]
      /\ \A q \in 1 .. n : u[m + q] = t[q]
  <2>1. /\ u \in Seq(Names) /\ Len(u) = m + n
        /\ \A q \in 1 .. m + n : u[q] = IF q <= m THEN s[q] ELSE t[q - m]
    BY <1>1, <1>2, ConcatProperties
  <2> QED
    BY <1>1, <1>2, <2>1
<1> HIDE DEF u, m, n
<1>4. \A q \in 1 .. Len(u) : q \in 1 .. m \/ (\E r \in 1 .. n : q = m + r)
  <2>1. ASSUME NEW q \in 1 .. Len(u), q \notin 1 .. m
        PROVE  q - m \in 1 .. n /\ q = m + (q - m)
    BY <1>1, <1>2, <1>3, <2>1
  <2> QED
    BY <2>1
<1>5. \A q \in 1 .. m : q \in 1 .. Len(u)
  BY <1>1, <1>2, <1>3
<1>6. \A q \in 1 .. n : m + q \in 1 .. Len(u)
  BY <1>1, <1>2, <1>3
<1>7. /\ \A q \in 1 .. m : \E i \in 1 .. k : For(s[q], i)
      /\ \A i \in 1 .. k : \E q \in 1 .. m : s[q] = suite[i]
      /\ \A p, q \in 1 .. m : s[p] = s[q] => p = q
      /\ \A q \in 1 .. m :
           s[q] \in ToSet(suite) \cap DOMAIN Controls =>
             q - 1 \in 1 .. m /\ s[q - 1] = Controls[s[q]]
  BY DEF Part, m
<1>8. /\ \A i \in 1 .. k : i \in 1 .. (k + 1) /\ i # k + 1 /\ i \in 1 .. Len(suite)
      /\ k + 1 \in 1 .. (k + 1)
      /\ \A i \in 1 .. (k + 1) : i \in 1 .. k \/ i = k + 1
  BY SuiteFacts
<1>9. \A p \in 1 .. m, q \in 1 .. n : s[p] # t[q]
  BY <1>1, <1>7, <1>8, SuiteFacts
<1>10. ASSUME NEW q \in 1 .. Len(u)
       PROVE  \E i \in 1 .. (k + 1) : For(u[q], i)
  <2>1. CASE q \in 1 .. m
    BY <1>3, <1>7, <1>8, <2>1
  <2>2. CASE q \notin 1 .. m
    <3>1. PICK r \in 1 .. n : q = m + r
      BY <1>4, <2>2
    <3>2. u[q] = t[r] /\ For(t[r], k + 1)
      BY <1>1, <1>3, <3>1
    <3> QED
      BY <1>8, <3>2
  <2> QED
    BY <2>1, <2>2
<1>11. ASSUME NEW i \in 1 .. (k + 1)
       PROVE  \E q \in 1 .. Len(u) : u[q] = suite[i]
  <2>1. CASE i \in 1 .. k
    BY <1>3, <1>5, <1>7, <2>1
  <2>2. CASE i = k + 1
    <3>1. n \in 1 .. n
      BY <1>1
    <3> QED
      BY <1>1, <1>3, <1>6, <2>2, <3>1
  <2> QED
    BY <1>8, <2>1, <2>2
<1>12. ASSUME NEW p \in 1 .. Len(u), NEW q \in 1 .. Len(u), u[p] = u[q]
       PROVE  p = q
  <2>1. \A a, b \in 1 .. n : t[a] = t[b] => a = b
    <3>1. n = 2 => t[1] # t[2]
      <4>1. suite[k + 1] \in ToSet(suite)
        BY SuiteFacts
      <4> QED
        BY <1>1, <4>1
    <3>2. \A a \in 1 .. n : a = 1 \/ (n = 2 /\ a = 2)
      <4>1. CASE n = 1
        BY <4>1
      <4>2. CASE n = 2
        BY <4>2
      <4> QED
        BY <1>1, <4>1, <4>2
    <3> QED
      BY <3>1, <3>2
  <2>2. CASE p \in 1 .. m /\ q \in 1 .. m
    BY <1>3, <1>7, <1>12, <2>2
  <2>3. CASE p \in 1 .. m /\ q \notin 1 .. m
    BY <1>3, <1>4, <1>9, <1>12, <2>3
  <2>4. CASE p \notin 1 .. m /\ q \in 1 .. m
    BY <1>3, <1>4, <1>9, <1>12, <2>4
  <2>5. CASE p \notin 1 .. m /\ q \notin 1 .. m
    BY <1>3, <1>4, <1>12, <2>1, <2>5
  <2> QED
    BY <2>2, <2>3, <2>4, <2>5
<1>13. ASSUME NEW q \in 1 .. Len(u), u[q] \in ToSet(suite) \cap DOMAIN Controls
       PROVE  q - 1 \in 1 .. Len(u) /\ u[q - 1] = Controls[u[q]]
  <2>1. CASE q \in 1 .. m
    BY <1>3, <1>5, <1>7, <1>13, <2>1
  <2>2. CASE q \notin 1 .. m
    <3>1. PICK r \in 1 .. n : q = m + r
      BY <1>4, <2>2
    <3>2. u[q] = t[r]
      BY <1>3, <3>1
    <3>3. r = n
      BY <1>1, <1>13, <3>2
    <3>4. n = 2 /\ t[1] = Controls[u[q]]
      BY <1>1, <1>13, <3>2, <3>3
    <3>5. q - 1 = m + 1 /\ 1 \in 1 .. n
      BY <1>2, <3>1, <3>3, <3>4
    <3> QED
      BY <1>3, <1>6, <3>4, <3>5
  <2> QED
    BY <2>1, <2>2
<1> QED
  BY <1>3, <1>10, <1>11, <1>12, <1>13 DEF Part, u, t

(* The baseline is first, no collection occurs twice, every experiment occurs,  *)
(* and after its control.                                                    *)
LEMMA CollectionsInOrder ==
  ASSUME suite \in Suites
  PROVE  /\ Collections \in Seq(Names) /\ Len(Collections) \in Nat \ {0}
         /\ DOMAIN Collections = 1 .. Len(Collections)
         /\ Collections[1] = "baseline"
         /\ \A i, j \in 1 .. Len(Collections) : Collections[i] = Collections[j] => i = j
         /\ \A e \in ToSet(suite) : \E i \in 1 .. Len(Collections) : Collections[i] = e
         /\ \A i \in 1 .. Len(Collections) : Collections[i] \in ToSet(suite) =>
              \E j \in 1 .. (i - 1) : Collections[j] = ControlOf(Collections[i])
<1> DEFINE n == Len(suite)
           seqs == [i \in DOMAIN suite |->
                     IF suite[i] \in DOMAIN Controls
                     THEN <<Controls[suite[i]], suite[i]>> ELSE <<suite[i]>>]
<1>1. n \in Nat \ {0} /\ DOMAIN suite = 1 .. n
  BY SuiteFacts
<1>2. \A i \in 1 .. n : seqs[i] = PartFor(i)
  BY <1>1 DEF PartFor
<1>3. Len(seqs) = n
  <2>1. seqs \in [1 .. n -> Seq(Names)]
    <3>1. \A i \in 1 .. n : seqs[i] \in Seq(Names)
      <4>1. \A i \in 1 .. n : PartFor(i) \in Seq(Names)
        BY PartOfOne
      <4> HIDE DEF seqs
      <4> QED
        BY <1>2, <4>1
    <3>2. seqs = [i \in 1 .. n |-> seqs[i]]
      BY <1>1
    <3> HIDE DEF seqs
    <3> QED
      BY <3>1, <3>2
  <2> HIDE DEF seqs
  <2>2. seqs \in Seq(Seq(Names))
    BY <1>1, <2>1, SeqDef
  <2> QED
    BY <1>1, <2>1, <2>2, LenProperties
<1>4. Collections = <<"baseline">> \o FlattenSeq(seqs)
  BY DEF Collections
<1> HIDE DEF seqs, n
<1>5. PICK f : /\ f[1] = seqs[1]
               /\ \A i \in 2 .. n : f[i] = f[i - 1] \o seqs[i]
               /\ FlattenSeq(seqs) = f[n]
  BY <1>1, <1>3, FlattenUnfolds
<1>6. Part(f[n], n)
  <2> DEFINE T == {k \in Nat : k + 1 <= n => Part(f[k + 1], k + 1)}
  <2>1. 0 \in T
    <3>1. Part(<<>>, 0)
      BY EmptySeq DEF Part
    <3>2. 0 + 1 \in 1 .. n /\ 0 + 1 = 1
      BY <1>1
    <3>3. Part(<<>> \o PartFor(1), 1)
      BY <3>1, <3>2, PartGrows DEF n
    <3>4. <<>> \o PartFor(1) = PartFor(1)
      BY <3>2, PartOfOne, ConcatEmptySeq DEF n
    <3> QED
      BY <1>2, <1>5, <3>2, <3>3, <3>4
  <2>2. ASSUME NEW k \in Nat, k \in T
        PROVE  k + 1 \in T
    <3>1. SUFFICES ASSUME (k + 1) + 1 <= n
                   PROVE  Part(f[(k + 1) + 1], (k + 1) + 1)
      OBVIOUS
    <3>2. Part(f[k + 1], k + 1) /\ k + 1 \in Nat /\ (k + 1) + 1 \in 1 .. n
      BY <1>1, <2>2, <3>1
    <3>3. f[(k + 1) + 1] = f[k + 1] \o PartFor((k + 1) + 1)
      <4>1. (k + 1) + 1 \in 2 .. n /\ ((k + 1) + 1) - 1 = k + 1
        BY <1>1, <3>1
      <4> QED
        BY <1>2, <1>5, <3>2, <4>1
    <3> QED
      BY <3>2, <3>3, PartGrows DEF n
  <2>3. n - 1 \in Nat /\ (n - 1) + 1 = n
    BY <1>1
  <2> HIDE DEF T
  <2>4. n - 1 \in T
    BY <2>1, <2>2, <2>3, NaturalInduction
  <2> QED
    BY <1>1, <2>3, <2>4 DEF T
<1> DEFINE s == f[n]
           m == Len(s)
<1>7. /\ s \in Seq(Names) /\ m \in Nat
      /\ \A q \in 1 .. m : \E i \in 1 .. n : For(s[q], i)
      /\ \A i \in 1 .. n : \E q \in 1 .. m : s[q] = suite[i]
      /\ \A p, q \in 1 .. m : s[p] = s[q] => p = q
      /\ \A q \in 1 .. m :
           s[q] \in ToSet(suite) \cap DOMAIN Controls =>
             q - 1 \in 1 .. m /\ s[q - 1] = Controls[s[q]]
  BY <1>6, LenProperties DEF Part
<1> HIDE DEF s, m
<1>8. /\ Collections \in Seq(Names) /\ Len(Collections) = m + 1
      /\ Collections[1] = "baseline"
      /\ \A q \in 1 .. m : Collections[q + 1] = s[q]
  <2>1. <<"baseline">> \in Seq(Names) /\ Len(<<"baseline">>) = 1 /\ <<"baseline">>[1] = "baseline"
    BY DEF Names
  <2>2. Collections = <<"baseline">> \o s
    BY <1>4, <1>5 DEF s
  <2> DEFINE b == <<"baseline">>
  <2> HIDE DEF b
  <2>3. b \in Seq(Names) /\ Len(b) = 1 /\ b[1] = "baseline" /\ Collections = b \o s
    BY <2>1, <2>2 DEF b
  <2>4. /\ Collections \in Seq(Names) /\ Len(Collections) = 1 + m
        /\ \A i \in 1 .. 1 + m : Collections[i] = IF i <= 1 THEN b[i] ELSE s[i - 1]
    <3>1. /\ b \o s \in Seq(Names) /\ Len(b \o s) = Len(b) + Len(s)
          /\ \A i \in 1 .. Len(b) + Len(s) : (b \o s)[i] =
               IF i <= Len(b) THEN b[i] ELSE s[i - Len(b)]
      <4>1. b \in Seq(Names) /\ s \in Seq(Names)
        BY <1>7, <2>3
      <4> QED
        BY <4>1, ConcatProperties
    <3>2. Len(b) = 1 /\ Len(s) = m /\ Collections = b \o s
      BY <2>3 DEF m
    <3> QED
      BY <3>1, <3>2
  <2>5. 1 \in 1 .. 1 + m /\ Len(Collections) = m + 1
    BY <1>7, <2>4
  <2>6. \A q \in 1 .. m : /\ q + 1 \in 1 .. 1 + m /\ ~ (q + 1 <= 1)
                          /\ (q + 1) - 1 = q
    BY <1>7
  <2>7. Collections[1] = "baseline"
    BY <2>3, <2>4, <2>5
  <2>8. ASSUME NEW q \in 1 .. m
        PROVE  Collections[q + 1] = s[q]
    BY <2>4, <2>6
  <2> QED
    BY <2>4, <2>5, <2>7, <2>8
<1>9. \A i \in 1 .. Len(Collections) :
         i = 1 \/ (i - 1 \in 1 .. m /\ Collections[i] = s[i - 1])
  <2>1. ASSUME NEW i \in 1 .. Len(Collections), i # 1
        PROVE  i - 1 \in 1 .. m /\ Collections[i] = s[i - 1]
    <3>1. i - 1 \in 1 .. m /\ (i - 1) + 1 = i
      BY <1>7, <1>8, <2>1
    <3>2. Collections[(i - 1) + 1] = s[i - 1]
      BY <1>8, <3>1
    <3> QED
      BY <3>1, <3>2
  <2> QED
    BY <2>1, Zenon
<1>10. \A q \in 1 .. m : s[q] # "baseline"
  BY <1>7, SuiteFacts DEF n
<1>11. ASSUME NEW i \in 1 .. Len(Collections), NEW j \in 1 .. Len(Collections),
              Collections[i] = Collections[j]
       PROVE  i = j
  <2>1. CASE i = 1 \/ j = 1
    BY <1>8, <1>9, <1>10, <1>11, <2>1
  <2>2. CASE i # 1 /\ j # 1
    <3>1. /\ i - 1 \in 1 .. m /\ j - 1 \in 1 .. m
          /\ s[i - 1] = s[j - 1]
      BY <1>9, <1>11, <2>2, Zenon
    <3>2. i - 1 = j - 1
      BY <1>7, <3>1, Zenon
    <3>3. i \in Nat /\ j \in Nat
      BY <1>7, <1>8
    <3> QED
      BY <3>2, <3>3
  <2> QED
    BY <2>1, <2>2
<1>12. ASSUME NEW e \in ToSet(suite)
       PROVE  \E i \in 1 .. Len(Collections) : Collections[i] = e
  <2>1. PICK i \in 1 .. n : e = suite[i]
    BY SuiteFacts DEF n
  <2>2. PICK q \in 1 .. m : s[q] = e
    BY <1>7, <2>1
  <2>3. q + 1 \in 1 .. Len(Collections)
    BY <1>7, <1>8
  <2> QED
    BY <1>8, <2>2, <2>3
<1>13. ASSUME NEW i \in 1 .. Len(Collections), Collections[i] \in ToSet(suite)
       PROVE  \E j \in 1 .. (i - 1) : Collections[j] = ControlOf(Collections[i])
  <2>1. i - 1 \in 1 .. m /\ Collections[i] = s[i - 1]
    BY <1>8, <1>9, <1>13, SuiteFacts
  <2>2. CASE Collections[i] \in DOMAIN Controls
    <3>1. (i - 1) - 1 \in 1 .. m /\ s[(i - 1) - 1] = Controls[Collections[i]]
      BY <1>7, <1>13, <2>1, <2>2
    <3>2. Collections[i - 1] = s[(i - 1) - 1] /\ i - 1 \in 1 .. (i - 1)
      <4>1. ((i - 1) - 1) + 1 = i - 1 /\ i - 1 \in 1 .. (i - 1)
        BY <1>7, <2>1
      <4> QED
        BY <1>8, <3>1, <4>1
    <3> QED
      BY <2>2, <3>1, <3>2 DEF ControlOf
  <2>3. CASE Collections[i] \notin DOMAIN Controls
    <3>1. 1 \in 1 .. (i - 1)
      BY <1>7, <2>1
    <3> QED
      BY <1>8, <2>3, <3>1 DEF ControlOf
  <2> QED
    BY <2>2, <2>3
<1> QED
  BY <1>7, <1>8, <1>11, <1>12, <1>13, LenProperties

-----------------------------------------------------------------------------
(* The inductive invariant *)

(* The records are records. *)
Fields ==
  /\ child \in [state : {"none", "starting", "listening", "exited", "reaped"},
                broken : BOOLEAN, code : {0, 1, 2}]
  /\ step \in [sent : Nat,
               turn : {"before", "request", "after", "fine", "error", "port in use"}]

(* An application lives no longer than the attempt that started it. *)
Contained ==
  /\ Alive => Window \/ pc \in {"stopping", "cleanup"}
  /\ survivors \in {"none", "left"}

(* What is older than the attempt was in flight when it began. *)
Dated == OnlyOwnTelemetry

(* A stranger who answered is still there, and the next check of the port is *)
(* yet to come.                                                             *)
Unnoticed ==
  /\ strange = "answered" =>
       /\ foreign = "listening"
       /\ \/ pc = "workload" /\ step.turn = "after"
          \/ pc \in {"burst", "joined", "cleanup"}
  /\ outcome = "captured" => pc \in {"reset", "launch", "write", "end"}

(* What is shown was verified, and is not edited any more. *)
Verified ==
  shown = "shown" => pc = "end" /\ verifyResult

(* The kinds of values the rest of the state takes; an attempt is begun only   *)
(* while attempts are left.                                                  *)
Contents == [spans : BOOLEAN, effect : BOOLEAN, there : BOOLEAN]
Logs == SUBSET {"nothing", "in use", "known"}

Kinds ==
  /\ suite \in Suites
  /\ at \in 1 .. Len(Collections) /\ tries \in 0 .. MaxTries
  /\ pc = "reset" => tries < MaxTries
  /\ foreign \in {"absent", "listening", "gone"}
  /\ strange \in {"none", "answered", "slipped"}
  /\ wire \subseteq {"own", "old"} /\ sink \subseteq {"own", "old"}
  /\ verdict \in {"running", "error", "changed", "passed"}
  /\ verdict = "running" <=> pc # "end"
  /\ edits \in Nat

(* The retained files have a place for every collection, the result one for    *)
(* every experiment.                                                         *)
Retained ==
  /\ files \in [captures : [ToSet(Collections) -> Contents],
                logs : [ToSet(Collections) -> Logs]]
  /\ ended = [e \in ToSet(suite) |-> ended[e]]
  /\ result = [captures |-> result.captures, rejections |-> result.rejections,
               observations |-> result.observations]
  /\ result.captures = [c \in DOMAIN result.captures |-> result.captures[c]]
  /\ result.rejections = [c \in DOMAIN result.rejections |-> result.rejections[c]]
  /\ result.observations \in [ToSet(suite) -> Statuses \cup {NoObservation}]

(* A log that shows a port conflict is that of a process that never listened,  *)
(* and an attempt that ended otherwise shows none.                           *)
Told ==
  /\ Window \/ pc \in {"stopping", "dump", "cleanup", "settle"} =>
       ("in use" \in files.logs[Name] => ~Alive)
  /\ pc \in {"cleanup", "settle"} /\ outcome \in {"startup exit", "workload failure"} =>
       "in use" \notin files.logs[Name] /\ child.state # "starting"

(* The collections that are over are those before the present one, and the     *)
(* present one once the run is.                                              *)
Over == pc \in {"write", "end"}

Held == DOMAIN result.captures \cup DOMAIN result.rejections

Places ==
  /\ \A c \in Held : \E i \in 1 .. at : c = Collections[i]
  /\ ~Over => Name \notin Held
  /\ verdict # "error" =>
       \A i \in 1 .. at : i < at \/ Over => Collections[i] \in Held
  /\ Over /\ verdict # "error" => at = Len(Collections)
  /\ DOMAIN result.captures \cap DOMAIN result.rejections = {}
  /\ DOMAIN result.rejections \subseteq ToSet(suite)

(* What was retained of a captured collection, and of a rejected one *)
Captured(c) ==
  /\ files.captures[c].there /\ files.captures[c] = result.captures[c]
  /\ NeedsSpans(c) /\ verdict # "error" => files.captures[c].spans
  /\ c \in ToSet(suite) =>
       result.observations[c] =
         Evaluate(files.captures[ControlOf(c)], files.captures[c])

Refused(e) ==
  /\ "known" \in files.logs[e] /\ "in use" \notin files.logs[e]
  /\ result.rejections[e] = files.logs[e]
  /\ e \in DOMAIN Rejections /\ result.observations[e] = Rejections[e]
  /\ ended[e] \in
       IF Rejections[e] = "startup_rejected"
       THEN [how : {"startup exit"}, code : {1}]
       ELSE [how : {"workload failure"}, code : 0 .. 2]

Recorded ==
  edits = 0 =>
    /\ \A c \in DOMAIN result.captures : Captured(c)
    /\ \A e \in DOMAIN result.rejections : Refused(e)
    /\ shown # "refused"

IInv ==
  /\ Fields
  /\ Contained
  /\ Dated
  /\ Unnoticed
  /\ Verified
  /\ Kinds
  /\ Retained
  /\ Told
  /\ Places
  /\ Recorded

-----------------------------------------------------------------------------
(* verifyResult reads the suite, the retained files and the result. *)
LEMMA SameFiles ==
  ASSUME verifyResult, UNCHANGED <<suite, files, result>>
  PROVE  verifyResult'
BY DEF verifyResult, Collections, NeedsSpans, Loads, ControlOf, Implied, Evaluate

(* The probe does not go on before the process of an attempt has ended: it is  *)
(* waited for or killed on every path.                                       *)
LEMMA ContainedStep ==
  ASSUME Fields, Contained, [Next]_vars
  PROVE  Contained'
<1>1. CASE ChildBinds
  BY <1>1 DEF Fields, Contained, Alive, Window, NoChild, ChildBinds, probe,
     run, port, telemetry, work, kept, after
<1>2. CASE ChildFindsPortTaken
  BY <1>2 DEF Fields, Contained, Alive, Window, NoChild,
     ChildFindsPortTaken, Log, probe, run, port, telemetry, work, kept, after
<1>3. CASE ChildRejectsSetting
  BY <1>3 DEF Fields, Contained, Alive, Window, NoChild,
     ChildRejectsSetting, Log, probe, run, port, telemetry, work, kept, after
<1>4. CASE ChildCrashes
  BY <1>4 DEF Fields, Contained, Alive, Window, NoChild, ChildCrashes,
     probe, run, port, telemetry, work, kept, after
<1>5. CASE ChildStops
  BY <1>5 DEF Fields, Contained, Alive, Window, NoChild, ChildStops, probe,
     run, port, telemetry, work, kept, after
<1>6. CASE Wait
  BY <1>6 DEF Fields, Contained, Alive, Window, NoChild, Wait, probe, run,
     port, telemetry, work, kept, after
<1>7. CASE ForeignBinds
  BY <1>7 DEF Fields, Contained, Alive, Window, NoChild, ForeignBinds,
     probe, run, port, telemetry, work, kept, after
<1>8. CASE ForeignLeaves
  BY <1>8 DEF Fields, Contained, Alive, Window, NoChild, ForeignLeaves,
     probe, run, port, telemetry, work, kept, after
<1>9. CASE Export
  BY <1>9 DEF Fields, Contained, Alive, Window, NoChild, Export, probe,
     run, port, telemetry, work, kept, after
<1>10. CASE SinkStores
  BY <1>10 DEF Fields, Contained, Alive, Window, NoChild, SinkStores,
     probe, run, port, telemetry, work, kept, after
<1>11. CASE Reset
  BY <1>11 DEF Fields, Contained, Alive, Window, NoChild, Reset, probe,
     run, port, telemetry, work, kept, after
<1>12. CASE ResetFails
  BY <1>12 DEF Fields, Contained, Alive, Window, NoChild, ResetFails,
     Abandon, probe, run, port, telemetry, work, kept, after
<1>13. CASE Launch
  BY <1>13 DEF Fields, Contained, Alive, Window, NoChild, Launch, Forget,
     probe, run, port, telemetry, work, kept, after
<1>14. CASE LaunchFails
  BY <1>14 DEF Fields, Contained, Alive, Window, NoChild, LaunchFails,
     Abandon, probe, run, port, telemetry, work, kept, after
<1>15. CASE SeeExit
  BY <1>15 DEF Fields, Contained, Alive, Window, NoChild, SeeExit, GroupStays, Return,
     ExitKind, probe, run, port, telemetry, work, kept, after
<1>16. CASE Ask
  BY <1>16 DEF Fields, Contained, Alive, Window, NoChild, Ask, Log, probe,
     run, port, telemetry, work, kept, after
<1>17. CASE ActOnAnswer
  BY <1>17 DEF Fields, Contained, Alive, Window, NoChild, ActOnAnswer,
     Return, Ownership, probe, run, port, telemetry, work, kept, after
<1>18. CASE ReadinessTimesOut
  BY <1>18 DEF Fields, Contained, Alive, Window, NoChild,
     ReadinessTimesOut, Return, probe, run, port, telemetry, work, kept, after
<1>19. CASE CheckBefore
  BY <1>19 DEF Fields, Contained, Alive, Window, NoChild, CheckBefore,
     Verify, Return, Refusal, Ownership, probe, run, port, telemetry, work,
     kept, after
<1>20. CASE Request
  BY <1>20 DEF Fields, Contained, Alive, Window, NoChild, Request, Noted,
     Listeners, probe, run, port, telemetry, work, kept, after
<1>21. CASE RequestFails
  BY <1>21 DEF Fields, Contained, Alive, Window, NoChild, RequestFails,
     Return, probe, run, port, telemetry, work, kept, after
<1>22. CASE CheckAfter
  BY <1>22 DEF Fields, Contained, Alive, Window, NoChild, CheckAfter,
     Verify, Return, Refusal, Ownership, NextPart, probe, run, port,
     telemetry, work, kept, after
<1>23. CASE StartBurst
  BY <1>23 DEF Fields, Contained, Alive, Window, NoChild, StartBurst,
     Verify, Return, Refusal, Ownership, probe, run, port, telemetry, work,
     kept, after
<1>24. CASE BurstTick
  BY <1>24 DEF Fields, Contained, Alive, Window, NoChild, BurstTick,
     Ownership, probe, run, port, telemetry, work, kept, after
<1>25. CASE BurstEnds
  BY <1>25 DEF Fields, Contained, Alive, Window, NoChild, BurstEnds,
     Return, probe, run, port, telemetry, work, kept, after
<1>26. CASE LastBurstCheck
  BY <1>26 DEF Fields, Contained, Alive, Window, NoChild, LastBurstCheck,
     Verify, Return, Refusal, Ownership, probe, run, port, telemetry, work,
     kept, after
<1>27. ASSUME NEW i \in 1 .. Burst, Goroutine(i)
      PROVE  Contained'
  BY <1>27 DEF Fields, Contained, Alive, Window, NoChild, Goroutine,
     Ownership, First, Refusal, Noted, Listeners, probe, run, port, telemetry,
     work, kept, after
<1>28. CASE ObservationTick
  BY <1>28 DEF Fields, Contained, Alive, Window, NoChild, ObservationTick,
     Return, Refusal, probe, run, port, telemetry, work, kept, after
<1>29. CASE ExitDuringObservation
  BY <1>29 DEF Fields, Contained, Alive, Window, NoChild,
     ExitDuringObservation, GroupStays, Return, probe, run, port, telemetry, work, kept,
     after
<1>30. CASE ObservationEnds
  BY <1>30 DEF Fields, Contained, Alive, Window, NoChild, ObservationEnds,
     probe, run, port, telemetry, work, kept, after
<1>31. CASE StopSeen
  BY <1>31 DEF Fields, Contained, Alive, Window, NoChild, StopSeen, GroupStays, probe,
     run, port, telemetry, work, kept, after
<1>32. CASE KillAfterGrace
  BY <1>32 DEF Fields, Contained, Alive, Window, NoChild, KillAfterGrace,
     probe, run, port, telemetry, work, kept, after
<1>33. CASE Cleanup
  BY <1>33 DEF Fields, Contained, Alive, Window, NoChild, Cleanup, Forget,
     probe, run, port, telemetry, work, kept, after
<1>34. CASE DumpFails
  BY <1>34 DEF Fields, Contained, Alive, Window, NoChild, DumpFails,
     Return, probe, run, port, telemetry, work, kept, after
<1>35. CASE Capture
  BY <1>35 DEF Fields, Contained, Alive, Window, NoChild, Capture, GoOn,
     GiveUpRun, Abandon, probe, run, port, telemetry, work, kept, after
<1>36. CASE Retry
  BY <1>36 DEF Fields, Contained, Alive, Window, NoChild, Retry, probe,
     run, port, telemetry, work, kept, after
<1>37. CASE RecordRejection
  BY <1>37 DEF Fields, Contained, Alive, Window, NoChild, RecordRejection,
     GoOn, probe, run, port, telemetry, work, kept, after
<1>38. CASE Fatal
  BY <1>38 DEF Fields, Contained, Alive, Window, NoChild, Fatal, Abandon,
     probe, run, port, telemetry, work, kept, after
<1>39. CASE WriteResult
  BY <1>39 DEF Fields, Contained, Alive, Window, NoChild, WriteResult,
     Abandon, probe, run, port, telemetry, work, kept, after
<1>40. ASSUME NEW e \in ToSet(suite), EditObservation(e)
      PROVE  Contained'
  BY <1>40 DEF Fields, Contained, Alive, Window, NoChild, EditObservation,
     EditsNow, Complete, probe, run, port, telemetry, work, kept, after
<1>41. ASSUME NEW c \in ToSet(Collections), EditCapture(c)
      PROVE  Contained'
  BY <1>41 DEF Fields, Contained, Alive, Window, NoChild, EditCapture,
     EditsNow, Complete, probe, run, port, telemetry, work, kept, after
<1>42. ASSUME NEW c \in ToSet(Collections), EditLog(c)
      PROVE  Contained'
  BY <1>42 DEF Fields, Contained, Alive, Window, NoChild, EditLog,
     EditsNow, Complete, probe, run, port, telemetry, work, kept, after
<1>43. CASE Compare
  BY <1>43 DEF Fields, Contained, Alive, Window, NoChild, Compare,
     Complete, probe, run, port, telemetry, work, kept, after
<1>44. CASE UNCHANGED vars
  BY <1>44 DEF Fields, Contained, Alive, Window, NoChild, vars, probe, run,
     port, telemetry, work, kept, after
<1>45. CASE KillFails
  BY <1>45 DEF Fields, Contained, Alive, Window, NoChild, KillFails,
     Return, probe, run, port, telemetry, work, kept, after
<1>46. CASE CaptureFails
  BY <1>46 DEF Fields, Contained, Alive, Window, NoChild, CaptureFails,
     Abandon, probe, run, port, telemetry, work, kept, after
<1> QED
  BY <1>1, <1>2, <1>3, <1>4, <1>5, <1>6, <1>7, <1>8, <1>9, <1>10, <1>11,
     <1>12, <1>13, <1>14, <1>15, <1>16, <1>17, <1>18, <1>19, <1>20, <1>21,
     <1>22, <1>23, <1>24, <1>25, <1>26, <1>27, <1>28, <1>29, <1>30, <1>31,
     <1>32, <1>33, <1>34, <1>35, <1>36, <1>37, <1>38, <1>39, <1>40, <1>41,
     <1>42, <1>43, <1>44, <1>45, <1>46 DEF Next, Environment, Attempt, Settling, Later

(* The records stay records. *)
LEMMA FieldsStep ==
  ASSUME Fields, [Next]_vars
  PROVE  Fields'
<1>1. CASE ChildBinds \/ ChildFindsPortTaken \/ ChildRejectsSetting \/
          ChildCrashes \/ ChildStops \/ Wait
  BY <1>1 DEF Fields, NoChild, ChildBinds, ChildFindsPortTaken,
     ChildRejectsSetting, ChildCrashes, ChildStops, Wait, Log, probe, run,
     port, telemetry, work, kept, after
<1>2. CASE ForeignBinds \/ ForeignLeaves \/ Export \/ SinkStores
  BY <1>2 DEF Fields, NoChild, ForeignBinds, ForeignLeaves, Export,
     SinkStores, probe, run, port, telemetry, work, kept, after
<1>3. CASE Reset
  BY <1>3 DEF Fields, NoChild, Reset, probe, run, port, telemetry, work,
     kept, after
<1>4. CASE ResetFails
  BY <1>4 DEF Fields, NoChild, ResetFails, Abandon, probe, run, port,
     telemetry, work, kept, after
<1>5. CASE Launch
  BY <1>5 DEF Fields, NoChild, Launch, Forget, probe, run, port, telemetry,
     work, kept, after
<1>6. CASE LaunchFails
  BY <1>6 DEF Fields, NoChild, LaunchFails, Abandon, probe, run, port,
     telemetry, work, kept, after
<1>7. CASE SeeExit
  BY <1>7 DEF Fields, NoChild, SeeExit, GroupStays, Return, ExitKind, probe, run, port,
     telemetry, work, kept, after
<1>8. CASE Ask
  BY <1>8 DEF Fields, NoChild, Ask, Log, probe, run, port, telemetry, work,
     kept, after
<1>9. CASE ActOnAnswer
  BY <1>9 DEF Fields, NoChild, ActOnAnswer, Return, Ownership, probe, run,
     port, telemetry, work, kept, after
<1>10. CASE ReadinessTimesOut
  BY <1>10 DEF Fields, NoChild, ReadinessTimesOut, Return, probe, run,
     port, telemetry, work, kept, after
<1>11. CASE CheckBefore
  BY <1>11 DEF Fields, NoChild, CheckBefore, Verify, Return, Refusal,
     Ownership, probe, run, port, telemetry, work, kept, after
<1>12. CASE Request
  BY <1>12 DEF Fields, NoChild, Request, Noted, Listeners, probe, run,
     port, telemetry, work, kept, after
<1>13. CASE RequestFails
  BY <1>13 DEF Fields, NoChild, RequestFails, Return, probe, run, port,
     telemetry, work, kept, after
<1>14. CASE CheckAfter
  <2> DEFINE n == step.sent + 1
  <2>1. child' = child
    BY <1>14 DEF CheckAfter
  <2>2. step' = step \/ step' = [sent |-> n, turn |-> "before"]
    BY <1>14 DEF CheckAfter, Verify
  <2>3. step.sent \in Nat
    BY DEF Fields
  <2>4. n \in Nat
    BY <2>3
  <2> QED
    <3> HIDE DEF n
    <3>1. CASE step' = step
      BY <2>1, <3>1 DEF Fields
    <3>2. CASE step' = [sent |-> n, turn |-> "before"]
      BY <2>1, <2>4, <3>2 DEF Fields
    <3> QED
      BY <2>2, <3>1, <3>2
<1>15. CASE StartBurst
  BY <1>15 DEF Fields, NoChild, StartBurst, Verify, Return, Refusal,
     Ownership, probe, run, port, telemetry, work, kept, after
<1>16. CASE BurstTick
  <2>1. child' = child
    BY <1>16 DEF BurstTick
  <2>2. PICK error \in {"error", "port in use"} :
          step' = [step EXCEPT !.turn = First(error)]
    BY <1>16 DEF BurstTick, Refusal
  <2>3. First(error) \in {"before", "request", "after", "fine", "error", "port in use"}
    BY DEF Fields, First
  <2> QED
    BY <2>1, <2>2, <2>3 DEF Fields
<1>17. CASE BurstEnds
  BY <1>17 DEF Fields, NoChild, BurstEnds, Return, probe, run, port,
     telemetry, work, kept, after
<1>18. CASE LastBurstCheck
  BY <1>18 DEF Fields, NoChild, LastBurstCheck, Verify, Return, Refusal,
     Ownership, probe, run, port, telemetry, work, kept, after
<1>19. ASSUME NEW i \in 1 .. Burst, Goroutine(i)
      PROVE  Fields'
  BY <1>19 DEF Fields, NoChild, Goroutine, Ownership, First, Refusal,
     Noted, Listeners, probe, run, port, telemetry, work, kept, after
<1>20. CASE ObservationTick \/ ExitDuringObservation \/ ObservationEnds \/
          StopSeen
  BY <1>20 DEF Fields, NoChild, ObservationTick, ExitDuringObservation,
     ObservationEnds, StopSeen, GroupStays, Return, Refusal, probe, run, port, telemetry,
     work, kept, after
<1>21. CASE KillAfterGrace \/ KillFails
  BY <1>21 DEF Fields, NoChild, KillAfterGrace, KillFails, Return, probe, run, port, telemetry,
     work, kept, after
<1>22. CASE Cleanup
  BY <1>22 DEF Fields, NoChild, Cleanup, Forget, probe, run, port,
     telemetry, work, kept, after
<1>23. CASE DumpFails
  BY <1>23 DEF Fields, NoChild, DumpFails, Return, probe, run, port,
     telemetry, work, kept, after
<1>24. CASE Capture \/ CaptureFails \/ Retry \/ RecordRejection \/ Fatal \/ WriteResult
  BY <1>24 DEF Fields, NoChild, Capture, CaptureFails, Retry, RecordRejection, Fatal,
     WriteResult, GoOn, GiveUpRun, Abandon, probe, run, port, telemetry, work,
     kept, after
<1>25. ASSUME NEW e \in ToSet(suite), EditObservation(e)
      PROVE  Fields'
  BY <1>25 DEF Fields, NoChild, EditObservation, EditsNow, Complete, probe,
     run, port, telemetry, work, kept, after
<1>26. ASSUME NEW c \in ToSet(Collections), EditCapture(c)
      PROVE  Fields'
  BY <1>26 DEF Fields, NoChild, EditCapture, EditsNow, Complete, probe,
     run, port, telemetry, work, kept, after
<1>27. ASSUME NEW c \in ToSet(Collections), EditLog(c)
      PROVE  Fields'
  BY <1>27 DEF Fields, NoChild, EditLog, EditsNow, Complete, probe, run,
     port, telemetry, work, kept, after
<1>28. CASE Compare
  BY <1>28 DEF Fields, NoChild, Compare, Complete, probe, run, port,
     telemetry, work, kept, after
<1>29. CASE UNCHANGED vars
  BY <1>29 DEF Fields, NoChild, vars, probe, run, port, telemetry, work,
     kept, after
<1> QED
  BY <1>1, <1>2, <1>3, <1>4, <1>5, <1>6, <1>7, <1>8, <1>9, <1>10, <1>11,
     <1>12, <1>13, <1>14, <1>15, <1>16, <1>17, <1>18, <1>19, <1>20, <1>21,
     <1>22, <1>23, <1>24, <1>25, <1>26, <1>27, <1>28, <1>29 DEF Next,
     Environment, Attempt, Settling, Later

(* Only what was in flight at the reset can be older than the attempt. *)
LEMMA DatedStep ==
  ASSUME Fields, Contained, Dated, [Next]_vars
  PROVE  Dated'
<1>1. CASE ChildBinds \/ ChildFindsPortTaken \/ ChildRejectsSetting \/
          ChildCrashes \/ ChildStops \/ Wait
  BY <1>1 DEF Contained, Dated, OnlyOwnTelemetry, Exporters, Older,
     ChildBinds, ChildFindsPortTaken, ChildRejectsSetting, ChildCrashes,
     ChildStops, Wait, Log, probe, run, port, telemetry, work, kept, after
<1>2. CASE ForeignBinds \/ ForeignLeaves \/ Export \/ SinkStores
  BY <1>2 DEF Contained, Dated, OnlyOwnTelemetry, Exporters, Older,
     ForeignBinds, ForeignLeaves, Export, SinkStores, probe, run, port,
     telemetry, work, kept, after
<1>3. CASE Reset \/ ResetFails \/ Launch \/ LaunchFails
  BY <1>3 DEF Contained, Dated, OnlyOwnTelemetry, Exporters, Older, Reset,
     ResetFails, Launch, LaunchFails, Abandon, Forget, probe, run, port,
     telemetry, work, kept, after
<1>4. CASE SeeExit \/ Ask \/ ActOnAnswer \/ ReadinessTimesOut
  BY <1>4 DEF Contained, Dated, OnlyOwnTelemetry, Exporters, Older,
     SeeExit, GroupStays, Ask, ActOnAnswer, ReadinessTimesOut, Return, ExitKind, Log,
     Ownership, probe, run, port, telemetry, work, kept, after
<1>5. CASE CheckBefore \/ Request \/ RequestFails \/ CheckAfter
  BY <1>5 DEF Contained, Dated, OnlyOwnTelemetry, Exporters, Older,
     CheckBefore, Request, RequestFails, CheckAfter, Verify, Return, Refusal,
     Ownership, Noted, Listeners, NextPart, probe, run, port, telemetry, work,
     kept, after
<1>6. CASE StartBurst \/ BurstTick \/ BurstEnds \/ LastBurstCheck
  BY <1>6 DEF Contained, Dated, OnlyOwnTelemetry, Exporters, Older,
     StartBurst, BurstTick, BurstEnds, LastBurstCheck, Verify, Return,
     Refusal, Ownership, probe, run, port, telemetry, work, kept, after
<1>7. ASSUME NEW i \in 1 .. Burst, Goroutine(i)
      PROVE  Dated'
  BY <1>7 DEF Contained, Dated, OnlyOwnTelemetry, Exporters, Older,
     Goroutine, Ownership, First, Refusal, Noted, Listeners, probe, run,
     port, telemetry, work, kept, after
<1>8. CASE ObservationTick \/ ExitDuringObservation \/ ObservationEnds \/
          StopSeen
  BY <1>8 DEF Contained, Dated, OnlyOwnTelemetry, Exporters, Older,
     ObservationTick, ExitDuringObservation, ObservationEnds, StopSeen, GroupStays,
     Return, Refusal, probe, run, port, telemetry, work, kept, after
<1>9. CASE KillAfterGrace \/ KillFails \/ Cleanup \/ DumpFails
  BY <1>9 DEF Contained, Dated, OnlyOwnTelemetry, Exporters, Older,
     KillAfterGrace, KillFails, Cleanup, DumpFails, Forget, Return, probe, run, port,
     telemetry, work, kept, after
<1>10. CASE Capture \/ CaptureFails \/ Retry \/ RecordRejection \/ Fatal \/ WriteResult
  BY <1>10 DEF Contained, Dated, OnlyOwnTelemetry, Exporters, Older,
     Capture, CaptureFails, Retry, RecordRejection, Fatal, WriteResult, GoOn, GiveUpRun,
     Abandon, probe, run, port, telemetry, work, kept, after
<1>11. ASSUME NEW e \in ToSet(suite), EditObservation(e)
      PROVE  Dated'
  BY <1>11 DEF Contained, Dated, OnlyOwnTelemetry, Exporters, Older,
     EditObservation, EditsNow, Complete, probe, run, port, telemetry, work,
     kept, after
<1>12. ASSUME NEW c \in ToSet(Collections), EditCapture(c)
      PROVE  Dated'
  BY <1>12 DEF Contained, Dated, OnlyOwnTelemetry, Exporters, Older,
     EditCapture, EditsNow, Complete, probe, run, port, telemetry, work, kept,
     after
<1>13. ASSUME NEW c \in ToSet(Collections), EditLog(c)
      PROVE  Dated'
  BY <1>13 DEF Contained, Dated, OnlyOwnTelemetry, Exporters, Older,
     EditLog, EditsNow, Complete, probe, run, port, telemetry, work, kept,
     after
<1>14. CASE Compare
  BY <1>14 DEF Contained, Dated, OnlyOwnTelemetry, Exporters, Older,
     Compare, Complete, probe, run, port, telemetry, work, kept, after
<1>15. CASE UNCHANGED vars
  BY <1>15 DEF Contained, Dated, OnlyOwnTelemetry, Exporters, Older, vars,
     probe, run, port, telemetry, work, kept, after
<1> QED
  BY <1>1, <1>2, <1>3, <1>4, <1>5, <1>6, <1>7, <1>8, <1>9, <1>10, <1>11,
     <1>12, <1>13, <1>14, <1>15 DEF Next, Environment, Attempt, Settling,
     Later

(* While the stranger listens the port is not exclusively owned, and every way *)
(* to the capture leads through a check that finds it owned.                  *)
LEMMA UnnoticedStep ==
  ASSUME Fields, Unnoticed, [Next]_vars
  PROVE  Unnoticed'
<1>1. CASE ChildBinds \/ ChildFindsPortTaken \/ ChildRejectsSetting \/
          ChildCrashes \/ ChildStops \/ Wait
  BY <1>1 DEF Fields, Unnoticed, Window, ChildBinds, ChildFindsPortTaken,
     ChildRejectsSetting, ChildCrashes, ChildStops, Wait, Log, probe, run,
     port, telemetry, work, kept, after
<1>2. CASE ForeignBinds \/ ForeignLeaves \/ Export \/ SinkStores
  BY <1>2 DEF Fields, Unnoticed, Window, ForeignBinds, ForeignLeaves,
     Export, SinkStores, probe, run, port, telemetry, work, kept, after
<1>3. CASE Reset \/ ResetFails \/ Launch \/ LaunchFails
  BY <1>3 DEF Fields, Unnoticed, Window, Reset, ResetFails, Launch,
     LaunchFails, Abandon, Forget, probe, run, port, telemetry, work, kept,
     after
<1>4. CASE SeeExit \/ Ask \/ ActOnAnswer \/ ReadinessTimesOut
  BY <1>4 DEF Fields, Unnoticed, Window, SeeExit, GroupStays, Ask, ActOnAnswer,
     ReadinessTimesOut, Return, ExitKind, Log, Ownership, probe, run, port,
     telemetry, work, kept, after
<1>5. CASE CheckBefore \/ Request \/ RequestFails \/ CheckAfter
  BY <1>5 DEF Fields, Unnoticed, Window, CheckBefore, Request,
     RequestFails, CheckAfter, Verify, Return, Refusal, Ownership, Noted,
     Listeners, NextPart, probe, run, port, telemetry, work, kept, after
<1>6. CASE StartBurst
  BY <1>6 DEF Fields, Unnoticed, Window, StartBurst, Verify, Return,
     Refusal, Ownership, probe, run, port, telemetry, work, kept, after
<1>7. CASE BurstTick
  BY <1>7 DEF Fields, Unnoticed, Window, BurstTick, Ownership, probe, run,
     port, telemetry, work, kept, after
<1>8. CASE BurstEnds
  BY <1>8 DEF Fields, Unnoticed, Window, BurstEnds, Return, probe, run,
     port, telemetry, work, kept, after
<1>9. CASE LastBurstCheck
  BY <1>9 DEF Fields, Unnoticed, Window, LastBurstCheck, Verify, Return,
     Refusal, Ownership, probe, run, port, telemetry, work, kept, after
<1>10. ASSUME NEW i \in 1 .. Burst, Goroutine(i)
      PROVE  Unnoticed'
  BY <1>10 DEF Fields, Unnoticed, Window, Goroutine, Ownership, First,
     Refusal, Noted, Listeners, probe, run, port, telemetry, work, kept, after
<1>11. CASE ObservationTick \/ ExitDuringObservation \/ ObservationEnds \/
          StopSeen
  BY <1>11 DEF Fields, Unnoticed, Window, ObservationTick,
     ExitDuringObservation, ObservationEnds, StopSeen, GroupStays, Return, Refusal, probe,
     run, port, telemetry, work, kept, after
<1>12. CASE KillAfterGrace \/ KillFails \/ Cleanup \/ DumpFails
  BY <1>12 DEF Fields, Unnoticed, Window, KillAfterGrace, KillFails, Cleanup,
     DumpFails, Forget, Return, probe, run, port, telemetry, work, kept, after
<1>13. CASE Capture \/ CaptureFails \/ Retry \/ RecordRejection \/ Fatal \/ WriteResult
  BY <1>13 DEF Fields, Unnoticed, Window, Capture, CaptureFails, Retry, RecordRejection,
     Fatal, WriteResult, GoOn, GiveUpRun, Abandon, probe, run, port,
     telemetry, work, kept, after
<1>14. ASSUME NEW e \in ToSet(suite), EditObservation(e)
      PROVE  Unnoticed'
  BY <1>14 DEF Fields, Unnoticed, Window, EditObservation, EditsNow,
     Complete, probe, run, port, telemetry, work, kept, after
<1>15. ASSUME NEW c \in ToSet(Collections), EditCapture(c)
      PROVE  Unnoticed'
  BY <1>15 DEF Fields, Unnoticed, Window, EditCapture, EditsNow, Complete,
     probe, run, port, telemetry, work, kept, after
<1>16. ASSUME NEW c \in ToSet(Collections), EditLog(c)
      PROVE  Unnoticed'
  BY <1>16 DEF Fields, Unnoticed, Window, EditLog, EditsNow, Complete,
     probe, run, port, telemetry, work, kept, after
<1>17. CASE Compare
  BY <1>17 DEF Fields, Unnoticed, Window, Compare, Complete, probe, run,
     port, telemetry, work, kept, after
<1>18. CASE UNCHANGED vars
  BY <1>18 DEF Fields, Unnoticed, Window, vars, probe, run, port, telemetry,
     work, kept, after
<1> QED
  BY <1>1, <1>2, <1>3, <1>4, <1>5, <1>6, <1>7, <1>8, <1>9, <1>10, <1>11,
     <1>12, <1>13, <1>14, <1>15, <1>16, <1>17, <1>18 DEF Next, Environment,
     Attempt, Settling, Later

(* A comparison is the last thing that happens to the files. *)
LEMMA VerifiedStep ==
  ASSUME Fields, Contained, Verified, [Next]_vars
  PROVE  Verified'
<1>1. CASE ChildBinds \/ ChildFindsPortTaken \/ ChildRejectsSetting \/
          ChildCrashes \/ ChildStops \/ Wait
  BY <1>1, SameFiles DEF Contained, Verified, Alive, Window, ChildBinds,
     ChildFindsPortTaken, ChildRejectsSetting, ChildCrashes, ChildStops, Wait,
     Log, probe, run, port, telemetry, work, kept, after
<1>2. CASE ForeignBinds \/ ForeignLeaves \/ Export \/ SinkStores
  BY <1>2, SameFiles DEF Contained, Verified, Alive, Window, ForeignBinds,
     ForeignLeaves, Export, SinkStores, probe, run, port, telemetry, work,
     kept, after
<1>3. CASE Reset \/ ResetFails \/ Launch \/ LaunchFails
  BY <1>3, SameFiles DEF Contained, Verified, Alive, Window, Reset,
     ResetFails, Launch, LaunchFails, Abandon, Forget, probe, run, port,
     telemetry, work, kept, after
<1>4. CASE SeeExit \/ Ask \/ ActOnAnswer \/ ReadinessTimesOut
  BY <1>4, SameFiles DEF Contained, Verified, Alive, Window, SeeExit, GroupStays, Ask,
     ActOnAnswer, ReadinessTimesOut, Return, ExitKind, Log, Ownership, probe,
     run, port, telemetry, work, kept, after
<1>5. CASE CheckBefore \/ Request \/ RequestFails \/ CheckAfter
  BY <1>5, SameFiles DEF Contained, Verified, Alive, Window, CheckBefore,
     Request, RequestFails, CheckAfter, Verify, Return, Refusal, Ownership,
     Noted, Listeners, NextPart, probe, run, port, telemetry, work, kept,
     after
<1>6. CASE StartBurst \/ BurstTick \/ BurstEnds \/ LastBurstCheck
  BY <1>6, SameFiles DEF Contained, Verified, Alive, Window, StartBurst,
     BurstTick, BurstEnds, LastBurstCheck, Verify, Return, Refusal, Ownership,
     probe, run, port, telemetry, work, kept, after
<1>7. ASSUME NEW i \in 1 .. Burst, Goroutine(i)
      PROVE  Verified'
  BY <1>7, SameFiles DEF Contained, Verified, Alive, Window, Goroutine,
     Ownership, First, Refusal, Noted, Listeners, probe, run, port, telemetry,
     work, kept, after
<1>8. CASE ObservationTick \/ ExitDuringObservation \/ ObservationEnds \/
          StopSeen
  BY <1>8, SameFiles DEF Contained, Verified, Alive, Window,
     ObservationTick, ExitDuringObservation, ObservationEnds, StopSeen, GroupStays,
     Return, Refusal, probe, run, port, telemetry, work, kept, after
<1>9. CASE KillAfterGrace \/ KillFails \/ Cleanup \/ DumpFails
  BY <1>9, SameFiles DEF Contained, Verified, Alive, Window, KillAfterGrace, KillFails,
     Cleanup, DumpFails, Forget, Return, probe, run, port, telemetry, work,
     kept, after
<1>10. CASE Capture \/ CaptureFails \/ Retry \/ RecordRejection \/ Fatal \/ WriteResult
  BY <1>10, SameFiles DEF Contained, Verified, Alive, Window, Capture, CaptureFails,
     Retry, RecordRejection, Fatal, WriteResult, GoOn, GiveUpRun, Abandon,
     probe, run, port, telemetry, work, kept, after
<1>11. ASSUME NEW e \in ToSet(suite), EditObservation(e)
      PROVE  Verified'
  BY <1>11, SameFiles DEF Contained, Verified, Alive, Window,
     EditObservation, EditsNow, Complete, probe, run, port, telemetry, work,
     kept, after
<1>12. ASSUME NEW c \in ToSet(Collections), EditCapture(c)
      PROVE  Verified'
  BY <1>12, SameFiles DEF Contained, Verified, Alive, Window, EditCapture,
     EditsNow, Complete, probe, run, port, telemetry, work, kept, after
<1>13. ASSUME NEW c \in ToSet(Collections), EditLog(c)
      PROVE  Verified'
  BY <1>13, SameFiles DEF Contained, Verified, Alive, Window, EditLog,
     EditsNow, Complete, probe, run, port, telemetry, work, kept, after
<1>14. CASE Compare
  BY <1>14, SameFiles DEF Contained, Verified, Alive, Window, Compare,
     Complete, probe, run, port, telemetry, work, kept, after
<1>15. CASE UNCHANGED vars
  BY <1>15, SameFiles DEF Contained, Verified, Alive, Window, vars, probe,
     run, port, telemetry, work, kept, after
<1> QED
  BY <1>1, <1>2, <1>3, <1>4, <1>5, <1>6, <1>7, <1>8, <1>9, <1>10, <1>11,
     <1>12, <1>13, <1>14, <1>15 DEF Next, Environment, Attempt, Settling,
     Later

-----------------------------------------------------------------------------
(* What is retained and recorded *)

(* The collections of a run are fixed when it begins. *)
LEMMA SameCollections ==
  ASSUME UNCHANGED suite
  PROVE  /\ Collections' = Collections
         /\ UNCHANGED at => Name' = Name
         /\ \A c : (ControlOf(c))' = ControlOf(c)
BY DEF Collections, Name, ControlOf

(* Every collection is one of the run's. *)
LEMMA Here ==
  ASSUME suite \in Suites
  PROVE  /\ Len(Collections) \in Nat \ {0}
         /\ \A i \in 1 .. Len(Collections) : Collections[i] \in ToSet(Collections)
         /\ \A c \in ToSet(Collections) : \E i \in 1 .. Len(Collections) : c = Collections[i]
         /\ ToSet(suite) \subseteq ToSet(Collections)
         /\ "baseline" \in ToSet(Collections)
<1>1. DOMAIN Collections = 1 .. Len(Collections)
  BY CollectionsInOrder
<1>2. \A c : c \in ToSet(Collections) <=> \E i \in 1 .. Len(Collections) : c = Collections[i]
  BY <1>1 DEF ToSet
<1> QED
  BY <1>2, CollectionsInOrder

(* No step changes them. *)
LEMMA SuiteStays ==
  ASSUME [Next]_vars
  PROVE  suite' = suite /\ Collections' = Collections
<1>1. suite' = suite
  BY DEF Next, Environment, Attempt, Settling, Later, ChildBinds,
     ChildFindsPortTaken, ChildRejectsSetting, ChildCrashes, ChildStops, Wait,
     ForeignBinds, ForeignLeaves, Export, SinkStores, Reset, ResetFails, Launch,
     LaunchFails, SeeExit, Ask, ActOnAnswer, ReadinessTimesOut, CheckBefore,
     Request, RequestFails, CheckAfter, StartBurst, BurstTick, BurstEnds,
     LastBurstCheck, Goroutine, ObservationTick, ExitDuringObservation,
     ObservationEnds, StopSeen, GroupStays, KillAfterGrace, KillFails, Cleanup, DumpFails, Capture, CaptureFails,
     Retry, RecordRejection, Fatal, WriteResult, EditObservation, EditCapture,
     EditLog, EditsNow, Compare, vars, probe, run
<1> QED
  BY <1>1, SameCollections

(* The collections are gone through one by one, each tried at most MaxTries     *)
(* times.                                                                    *)
LEMMA KindsStep ==
  ASSUME Kinds, Unnoticed, [Next]_vars
  PROVE  Kinds'
<1>a. /\ MaxTries \in Nat \ {0}
      /\ Len(Collections) \in Nat \ {0}
  BY ProbeAssumption, Here DEF Kinds
<1>c. Collections' = Collections
  BY SuiteStays
<1>1. CASE ChildBinds \/ ChildFindsPortTaken \/ ChildRejectsSetting \/ ChildCrashes \/
          ChildStops \/ Wait
  BY <1>1, <1>a, <1>c DEF Kinds, ChildBinds, ChildFindsPortTaken,
     ChildRejectsSetting, ChildCrashes, ChildStops, Wait, Log, probe, run,
     port, telemetry, work, kept, after
<1>2. CASE ForeignBinds \/ ForeignLeaves \/ Export \/ SinkStores
  BY <1>2, <1>a, <1>c DEF Kinds, ForeignBinds, ForeignLeaves, Export,
     SinkStores, Exporters, probe, run, port, telemetry, work, kept, after
<1>3. CASE Reset
  BY <1>3, <1>a, <1>c DEF Kinds, Reset, Older, probe, run, port, telemetry,
     work, kept, after
<1>4. CASE ResetFails \/ Launch \/ LaunchFails
  BY <1>4, <1>a, <1>c DEF Kinds, ResetFails, Launch, LaunchFails, Abandon,
     Forget, probe, run, port, telemetry, work, kept, after
<1>5. CASE SeeExit \/ ReadinessTimesOut
  BY <1>5, <1>a, <1>c DEF Kinds, SeeExit, GroupStays, ReadinessTimesOut, Return,
     ExitKind, probe, run, port, telemetry, work, kept, after
<1>6. CASE ActOnAnswer
  BY <1>6, <1>a, <1>c DEF Kinds, ActOnAnswer, Return, Ownership, probe, run,
     port, telemetry, work, kept, after
<1>7. CASE Ask
  BY <1>7, <1>a, <1>c DEF Kinds, Ask, Log, probe, run, port, telemetry,
     work, kept, after
<1>8. CASE CheckBefore \/ Request \/ RequestFails
  BY <1>8, <1>a, <1>c DEF Kinds, CheckBefore, Request, RequestFails, Verify,
     Return, Noted, probe, run, port, telemetry, work, kept, after
<1>9. CASE CheckAfter
  BY <1>9, <1>a, <1>c DEF Kinds, CheckAfter, Verify, Return, NextPart,
     probe, run, port, telemetry, work, kept, after
<1>10. CASE StartBurst \/ BurstTick \/ BurstEnds \/ LastBurstCheck
  BY <1>10, <1>a, <1>c DEF Kinds, StartBurst, BurstTick, BurstEnds,
     LastBurstCheck, Verify, Return, probe, run, port, telemetry, work,
     kept, after
<1>11. ASSUME NEW i \in 1 .. Burst, Goroutine(i)
      PROVE  Kinds'
  BY <1>11, <1>a, <1>c DEF Kinds, Goroutine, Noted, probe, run, port,
     telemetry, work, kept, after
<1>12. CASE ObservationTick \/ ExitDuringObservation \/ ObservationEnds \/ StopSeen
  BY <1>12, <1>a, <1>c DEF Kinds, ObservationTick, ExitDuringObservation,
     ObservationEnds, StopSeen, GroupStays, Return, probe, run, port, telemetry, work,
     kept, after
<1>13. CASE KillAfterGrace \/ KillFails \/ Cleanup \/ DumpFails
  BY <1>13, <1>a, <1>c DEF Kinds, KillAfterGrace, KillFails, Cleanup, DumpFails,
     Forget, Return, probe, run, port, telemetry, work, kept, after
<1>14. CASE Capture
  BY <1>14, <1>a, <1>c DEF Kinds, Capture, GoOn, GiveUpRun, Abandon, probe,
     run, port, telemetry, work, kept, after
<1>15. CASE CaptureFails \/ Retry \/ Fatal \/ WriteResult
  BY <1>15, <1>a, <1>c DEF Kinds, CaptureFails, Retry, Fatal, WriteResult, Abandon, probe,
     run, port, telemetry, work, kept, after
<1>16. CASE RecordRejection
  BY <1>16, <1>a, <1>c DEF Kinds, RecordRejection, GoOn, probe, run, port,
     telemetry, work, kept, after
<1>17. ASSUME NEW e \in ToSet(suite), EditObservation(e)
      PROVE  Kinds'
  BY <1>17, <1>a, <1>c DEF Kinds, EditObservation, EditsNow, Complete,
     probe, run, port, telemetry, work, kept, after
<1>18. ASSUME NEW c \in ToSet(Collections), EditCapture(c)
      PROVE  Kinds'
  BY <1>18, <1>a, <1>c DEF Kinds, EditCapture, EditsNow, Complete, probe,
     run, port, telemetry, work, kept, after
<1>19. ASSUME NEW c \in ToSet(Collections), EditLog(c)
      PROVE  Kinds'
  BY <1>19, <1>a, <1>c DEF Kinds, EditLog, EditsNow, Complete, probe, run,
     port, telemetry, work, kept, after
<1>20. CASE Compare
  BY <1>20, <1>a, <1>c DEF Kinds, Compare, Complete, probe, run, port,
     telemetry, work, kept, after
<1>21. CASE UNCHANGED vars
  BY <1>21, <1>a, <1>c DEF Kinds, vars, probe, run, port, telemetry, work,
     kept, after
<1> QED
  BY <1>1, <1>2, <1>3, <1>4, <1>5, <1>6, <1>7, <1>8, <1>9, <1>10, <1>11,
     <1>12, <1>13, <1>14, <1>15, <1>16, <1>17, <1>18, <1>19, <1>20, <1>21
     DEF Next, Environment, Attempt, Settling, Later

(* A log is written, and nothing else changes. *)
LEMMA LogWritten ==
  ASSUME Retained, NEW c \in ToSet(Collections), NEW log \in Logs,
         files' = [files EXCEPT !.logs[c] = log], UNCHANGED suite
  PROVE  /\ files' \in [captures : [ToSet(Collections') -> Contents],
                         logs : [ToSet(Collections') -> Logs]]
         /\ files'.captures = files.captures
         /\ files'.logs[c] = log
         /\ \A d : d # c => files'.logs[d] = files.logs[d]
<1>1. /\ files \in [captures : [ToSet(Collections) -> Contents],
                     logs : [ToSet(Collections) -> Logs]]
      /\ Collections' = Collections
  BY SameCollections DEF Retained
<1> DEFINE logs == [files.logs EXCEPT ![c] = log]
<1>2. /\ logs \in [ToSet(Collections) -> Logs] /\ logs[c] = log
      /\ \A d : d # c => logs[d] = files.logs[d]
  BY <1>1
<1>3. files' = [files EXCEPT !.logs = logs]
  OBVIOUS
<1> HIDE DEF logs
<1>4. files'.captures = files.captures /\ files'.logs = logs
  BY <1>1, <1>3
<1> QED
  BY <1>1, <1>2, <1>3, <1>4

(* So it is when a message is added. *)
LEMMA MessageLogged ==
  ASSUME Kinds, Retained, NEW message \in Logs, Log(message), UNCHANGED suite
  PROVE  /\ files' \in [captures : [ToSet(Collections') -> Contents],
                         logs : [ToSet(Collections') -> Logs]]
         /\ files'.captures = files.captures
         /\ files'.logs[Name] = files.logs[Name] \cup message
         /\ \A d : d # Name => files'.logs[d] = files.logs[d]
<1>1. Name \in ToSet(Collections)
  BY Here DEF Kinds, Name
<1> DEFINE log == files.logs[Name] \cup message
<1>2. log \in Logs
  <2>1. files.logs[Name] \in Logs
    BY <1>1 DEF Retained
  <2> QED
    BY <2>1 DEF Logs
<1>3. files' = [files EXCEPT !.logs[Name] = log]
  BY DEF Log
<1> HIDE DEF log
<1>4. /\ files' \in [captures : [ToSet(Collections') -> Contents],
                      logs : [ToSet(Collections') -> Logs]]
      /\ files'.captures = files.captures
      /\ files'.logs[Name] = log
      /\ \A d : d # Name => files'.logs[d] = files.logs[d]
  BY <1>1, <1>2, <1>3, LogWritten
<1> QED
  BY <1>4 DEF log

(* A capture is written, and nothing else changes. *)
LEMMA CaptureWritten ==
  ASSUME Retained, NEW c \in ToSet(Collections), NEW content \in Contents,
         files' = [files EXCEPT !.captures[c] = content], UNCHANGED suite
  PROVE  /\ files' \in [captures : [ToSet(Collections') -> Contents],
                         logs : [ToSet(Collections') -> Logs]]
         /\ files'.logs = files.logs
         /\ files'.captures[c] = content
         /\ \A d : d # c => files'.captures[d] = files.captures[d]
<1>1. /\ files \in [captures : [ToSet(Collections) -> Contents],
                     logs : [ToSet(Collections) -> Logs]]
      /\ Collections' = Collections
  BY SameCollections DEF Retained
<1> DEFINE captures == [files.captures EXCEPT ![c] = content]
<1>2. /\ captures \in [ToSet(Collections) -> Contents] /\ captures[c] = content
      /\ \A d : d # c => captures[d] = files.captures[d]
  BY <1>1
<1>3. files' = [files EXCEPT !.captures = captures]
  OBVIOUS
<1> HIDE DEF captures
<1>4. files'.logs = files.logs /\ files'.captures = captures
  BY <1>1, <1>3
<1> QED
  BY <1>1, <1>2, <1>3, <1>4


(* What is recorded with a capture *)
CaptureRecorded(content) ==
  /\ content.there /\ (NeedsSpans(Name) /\ ~content.spans => verdict' = "error")
  /\ files'.captures[Name] = content
  /\ \A d : d # Name => files'.captures[d] = files.captures[d]
  /\ files'.logs = files.logs
  /\ DOMAIN result'.captures = DOMAIN result.captures \cup {Name}
  /\ result'.captures[Name] = content
  /\ \A d \in DOMAIN result.captures : d # Name => result'.captures[d] = result.captures[d]
  /\ result'.rejections = result.rejections
  /\ \A e : e # Name => result'.observations[e] = result.observations[e]
  /\ Name \in ToSet(suite) =>
       result'.observations[Name] = Evaluate(files.captures[ControlOf(Name)], content)

(* Taking a capture records it, and nothing else. *)
LEMMA CaptureFacts ==
  ASSUME Kinds, Retained, Capture
  PROVE  /\ \E content \in Contents : CaptureRecorded(content)
         /\ Retained'
<1>0. suite' = suite /\ Collections' = Collections /\ Name \in ToSet(Collections)
  <2>1. suite' = suite
    BY DEF Capture
  <2> QED
    BY <2>1, SameCollections, Here DEF Kinds, Name
<1>1. PICK effect \in BOOLEAN :
        LET content == Content(sink # {}, effect) IN
        /\ files' = [files EXCEPT !.captures[Name] = content]
        /\ result' =
             [result EXCEPT
                !.captures = [c \in DOMAIN @ \cup {Name} |->
                                IF c = Name THEN content ELSE @[c]],
                !.observations =
                  IF IsExperiment(Name)
                  THEN [@ EXCEPT ![Name] =
                          Evaluate(files.captures[ControlOf(Name)], content)]
                  ELSE @]
  BY DEF Capture
<1> DEFINE content == Content(sink # {}, effect)
           status == Evaluate(files.captures[ControlOf(Name)], content)
           captures == [c \in DOMAIN result.captures \cup {Name} |->
                          IF c = Name THEN content ELSE result.captures[c]]
           observations == IF Name \in ToSet(suite)
                           THEN [result.observations EXCEPT ![Name] = status]
                           ELSE result.observations
<1>2. content \in Contents /\ content.there /\ content.spans = (sink # {})
  BY DEF Content, Contents
<1>3. status \in Statuses
  BY DEF Evaluate, Statuses
<1> HIDE DEF content, status
<1>4. files' = [files EXCEPT !.captures[Name] = content]
  BY <1>1 DEF content
<1>5. result' = [result EXCEPT !.captures = captures, !.observations = observations]
  BY <1>1 DEF content, status, IsExperiment
<1>6. /\ DOMAIN captures = DOMAIN result.captures \cup {Name}
      /\ captures[Name] = content
      /\ \A d \in DOMAIN result.captures : d # Name => captures[d] = result.captures[d]
      /\ captures = [c \in DOMAIN captures |-> captures[c]]
  OBVIOUS
<1>7. /\ observations \in [ToSet(suite) -> Statuses \cup {NoObservation}]
      /\ \A e : e # Name => observations[e] = result.observations[e]
      /\ Name \in ToSet(suite) => observations[Name] = status
  BY <1>3 DEF Retained
<1> HIDE DEF captures, observations
<1>8. /\ result' = [captures |-> captures, rejections |-> result.rejections,
                    observations |-> observations]
  BY <1>5 DEF Retained
<1>9. /\ result'.captures = captures /\ result'.rejections = result.rejections
      /\ result'.observations = observations
  BY <1>8
<1>10. NeedsSpans(Name) /\ ~content.spans => verdict' = "error"
  BY <1>2 DEF Capture, GiveUpRun, Abandon
<1>11. /\ files' \in [captures : [ToSet(Collections') -> Contents],
                      logs : [ToSet(Collections') -> Logs]]
       /\ files'.logs = files.logs
       /\ files'.captures[Name] = content
       /\ \A d : d # Name => files'.captures[d] = files.captures[d]
  BY <1>0, <1>2, <1>4, CaptureWritten
<1>12. CaptureRecorded(content)
  BY <1>2, <1>6, <1>7, <1>9, <1>10, <1>11 DEF CaptureRecorded, status
<1>13. ended' = ended
  BY DEF Capture
<1>14. Retained'
  BY <1>0, <1>6, <1>7, <1>8, <1>9, <1>11, <1>13 DEF Retained
<1> QED
  BY <1>2, <1>12, <1>14

(* What is recorded of a rejection *)
RejectionRecorded ==
  /\ files' = files
  /\ result'.captures = result.captures
  /\ DOMAIN result'.rejections = DOMAIN result.rejections \cup {Name}
  /\ result'.rejections[Name] = files.logs[Name]
  /\ \A d \in DOMAIN result.rejections :
       d # Name => result'.rejections[d] = result.rejections[d]
  /\ \A e : e # Name =>
       /\ result'.observations[e] = result.observations[e]
       /\ ended'[e] = ended[e]
  /\ result'.observations[Name] = Rejections[Name]
  /\ ended'[Name] = [how |-> outcome, code |-> child.code]

(* Recording a rejection changes nothing else. *)
LEMMA RejectionFacts ==
  ASSUME Kinds, Retained, RecordRejection
  PROVE  RejectionRecorded /\ Retained'
<1>0. /\ suite' = suite /\ Collections' = Collections /\ Name \in ToSet(suite)
      /\ files' = files /\ Name \in DOMAIN Rejections
  <2>1. suite' = suite /\ Name \in ToSet(suite) /\ files' = files /\ Name \in DOMAIN Rejections
    BY DEF RecordRejection, Rejected, IsExperiment
  <2> QED
    BY <2>1, SameCollections
<1> DEFINE log == files.logs[Name]
           rejections == [c \in DOMAIN result.rejections \cup {Name} |->
                            IF c = Name THEN log ELSE result.rejections[c]]
           status == Rejections[Name]
           observations == [result.observations EXCEPT ![Name] = status]
           end == [how |-> outcome, code |-> child.code]
<1>1. status \in Statuses
  BY <1>0, ProbeAssumption DEF Statuses
<1> HIDE DEF log, status, end
<1>2. result' = [result EXCEPT !.rejections = rejections, !.observations = observations]
  <2>1. result' = [result EXCEPT
                     !.rejections = [c \in DOMAIN @ \cup {Name} |->
                                       IF c = Name THEN files.logs[Name] ELSE @[c]],
                     !.observations[Name] = Rejections[Name]]
    BY DEF RecordRejection
  <2> QED
    BY <2>1 DEF log, status
<1>3. /\ DOMAIN rejections = DOMAIN result.rejections \cup {Name}
      /\ rejections[Name] = log
      /\ \A d \in DOMAIN result.rejections : d # Name => rejections[d] = result.rejections[d]
      /\ rejections = [c \in DOMAIN rejections |-> rejections[c]]
  OBVIOUS
<1>4. /\ observations \in [ToSet(suite) -> Statuses \cup {NoObservation}]
      /\ \A e : e # Name => observations[e] = result.observations[e]
      /\ observations[Name] = status
  BY <1>0, <1>1 DEF Retained
<1>5. /\ ended' = [e \in ToSet(suite) |-> ended'[e]]
      /\ \A e : e # Name => ended'[e] = ended[e]
      /\ ended'[Name] = end
  <2>1. ended' = [ended EXCEPT ![Name] = end]
    BY DEF RecordRejection, end
  <2> QED
    BY <1>0, <2>1 DEF Retained
<1> HIDE DEF rejections, observations
<1>6. /\ result' = [captures |-> result.captures, rejections |-> rejections,
                    observations |-> observations]
  BY <1>2 DEF Retained
<1>7. /\ result'.captures = result.captures /\ result'.rejections = rejections
      /\ result'.observations = observations
  BY <1>6
<1>8. RejectionRecorded
  BY <1>0, <1>3, <1>4, <1>5, <1>7 DEF RejectionRecorded, log, status, end
<1>9. Retained'
  BY <1>0, <1>3, <1>4, <1>5, <1>6, <1>7 DEF Retained
<1> QED
  BY <1>8, <1>9

(* The retained files and the result keep their shape. *)
LEMMA RetainedStep ==
  ASSUME Kinds, Retained, [Next]_vars
  PROVE  Retained'
<1>a. /\ Name \in ToSet(Collections) /\ ToSet(suite) \subseteq ToSet(Collections)
  BY Here DEF Kinds, Name
<1>c. suite' = suite /\ Collections' = Collections
  BY SuiteStays
<1>m. {} \in Logs /\ {"in use"} \in Logs /\ {"known"} \in Logs /\ NoLog \in Logs
  BY DEF Logs, NoLog
<1>f. ASSUME UNCHANGED <<result, ended>>,
             files' \in [captures : [ToSet(Collections') -> Contents],
                         logs : [ToSet(Collections') -> Logs]]
      PROVE  Retained'
  BY <1>c, <1>f DEF Retained
<1>g. ASSUME UNCHANGED <<result, ended, files>>
      PROVE  Retained'
  BY <1>c, <1>g DEF Retained
<1>1. CASE ChildBinds \/ ChildFindsPortTaken \/ ChildRejectsSetting \/ ChildCrashes \/
          ChildStops \/ Wait
  <2>1. CASE ChildFindsPortTaken \/ ChildRejectsSetting
    <3>1. PICK message \in {{"in use"}, {"known"}} : Log(message)
      BY <2>1 DEF ChildFindsPortTaken, ChildRejectsSetting
    <3>2. message \in Logs
      BY <1>m
    <3>3. UNCHANGED <<result, ended>>
      BY <2>1 DEF ChildFindsPortTaken, ChildRejectsSetting
    <3> QED
      BY <1>c, <1>f, <3>1, <3>2, <3>3, MessageLogged
  <2>2. CASE ChildBinds \/ ChildCrashes \/ ChildStops \/ Wait
    BY <1>g, <2>2 DEF ChildBinds, ChildCrashes, ChildStops, Wait, kept
  <2> QED
    BY <1>1, <2>1, <2>2
<1>2. CASE ForeignBinds \/ ForeignLeaves \/ Export \/ SinkStores
  BY <1>2, <1>g DEF kept, ForeignBinds, ForeignLeaves, Export, SinkStores,
     Exporters, probe, run, port, telemetry, work, kept, after
<1>3. CASE Reset
  BY <1>3, <1>g DEF kept, Reset, Older, probe, run, port, telemetry, work,
     kept, after
<1>4. CASE ResetFails \/ Launch \/ LaunchFails
  <2>1. CASE Launch
    <3>1. /\ UNCHANGED <<result, ended>>
          /\ files' = [files EXCEPT !.logs[Name] = {}]
      BY <2>1 DEF Launch
    <3> QED
      BY <1>a, <1>c, <1>f, <1>m, <3>1, LogWritten
  <2>2. CASE ResetFails \/ LaunchFails
    BY <1>g, <2>2 DEF ResetFails, LaunchFails, kept
  <2> QED
    BY <1>4, <2>1, <2>2
<1>5. CASE SeeExit \/ ReadinessTimesOut
  BY <1>5, <1>g DEF kept, SeeExit, GroupStays, ReadinessTimesOut, Return, ExitKind,
     probe, run, port, telemetry, work, kept, after
<1>6. CASE ActOnAnswer
  BY <1>6, <1>g DEF kept, ActOnAnswer, Return, Ownership, probe, run, port,
     telemetry, work, kept, after
<1>7. CASE Ask
  <2>1. UNCHANGED <<result, ended>> /\ (Log({"known"}) \/ UNCHANGED files)
    BY <1>7 DEF Ask
  <2>2. CASE Log({"known"})
    BY <1>c, <1>f, <1>m, <2>1, <2>2, MessageLogged
  <2>3. CASE UNCHANGED files
    BY <1>g, <2>1, <2>3
  <2> QED
    BY <2>1, <2>2, <2>3
<1>8. CASE CheckBefore \/ Request \/ RequestFails
  BY <1>8, <1>g DEF kept, CheckBefore, Request, RequestFails, Verify,
     Return, Noted, probe, run, port, telemetry, work, kept, after
<1>9. CASE CheckAfter
  BY <1>9, <1>g DEF kept, CheckAfter, Verify, Return, NextPart, probe, run,
     port, telemetry, work, kept, after
<1>10. CASE StartBurst \/ BurstTick \/ BurstEnds \/ LastBurstCheck
  BY <1>10, <1>g DEF kept, StartBurst, BurstTick, BurstEnds, LastBurstCheck,
     Verify, Return, probe, run, port, telemetry, work, kept, after
<1>11. ASSUME NEW i \in 1 .. Burst, Goroutine(i)
      PROVE  Retained'
  BY <1>11, <1>g DEF kept, Goroutine, Noted, probe, run, port, telemetry,
     work, kept, after
<1>12. CASE ObservationTick \/ ExitDuringObservation \/ ObservationEnds \/ StopSeen
  BY <1>12, <1>g DEF kept, ObservationTick, ExitDuringObservation,
     ObservationEnds, StopSeen, GroupStays, Return, probe, run, port, telemetry, work,
     kept, after
<1>13. CASE KillAfterGrace \/ KillFails \/ Cleanup \/ DumpFails
  BY <1>13, <1>g DEF kept, KillAfterGrace, KillFails, Cleanup, DumpFails, Forget,
     Return, probe, run, port, telemetry, work, kept, after
<1>14. CASE Capture
  BY <1>14, CaptureFacts
<1>15. CASE CaptureFails \/ Retry \/ Fatal \/ WriteResult
  BY <1>15, <1>g DEF kept, CaptureFails, Retry, Fatal, WriteResult, Abandon, probe, run,
     port, telemetry, work, kept, after
<1>16. CASE RecordRejection
  BY <1>16, RejectionFacts
<1>17. ASSUME NEW e \in ToSet(suite), EditObservation(e)
      PROVE  Retained'
  <2>1. PICK status \in Statuses : result' = [result EXCEPT !.observations[e] = status]
    BY <1>17 DEF EditObservation
  <2> DEFINE observations == [result.observations EXCEPT ![e] = status]
  <2>2. observations \in [ToSet(suite) -> Statuses \cup {NoObservation}]
    BY <1>17 DEF Retained
  <2>3. result' = [result EXCEPT !.observations = observations]
    BY <2>1
  <2> HIDE DEF observations
  <2>4. result' = [captures |-> result.captures, rejections |-> result.rejections,
                   observations |-> observations]
    BY <2>3 DEF Retained
  <2>5. /\ result'.captures = result.captures /\ result'.rejections = result.rejections
        /\ result'.observations = observations
    BY <2>4
  <2>6. UNCHANGED <<files, ended>>
    BY <1>17 DEF EditObservation, EditsNow
  <2> QED
    BY <1>c, <2>2, <2>4, <2>5, <2>6 DEF Retained
<1>18. ASSUME NEW c \in ToSet(Collections), EditCapture(c)
      PROVE  Retained'
  <2>1. PICK content \in {Missing, Content(FALSE, FALSE), Content(TRUE, TRUE)} :
          /\ files' = [files EXCEPT !.captures[c] = content]
          /\ \/ UNCHANGED result
             \/ /\ c \in DOMAIN result.captures /\ content.there
                /\ result' = [result EXCEPT !.captures[c] = content]
    BY <1>18 DEF EditCapture
  <2>2. content \in Contents
    <3>1. /\ Missing \in Contents /\ Content(FALSE, FALSE) \in Contents
          /\ Content(TRUE, TRUE) \in Contents
      BY DEF Missing, Content, Contents
    <3> QED
      BY <3>1
  <2>3. files' \in [captures : [ToSet(Collections') -> Contents],
                    logs : [ToSet(Collections') -> Logs]]
    BY <1>18, <1>c, <2>1, <2>2, CaptureWritten
  <2>4. ended' = ended
    BY <1>18 DEF EditCapture, EditsNow
  <2>5. CASE UNCHANGED result
    BY <1>f, <2>3, <2>4, <2>5
  <2>6. CASE /\ c \in DOMAIN result.captures
             /\ result' = [result EXCEPT !.captures[c] = content]
    <3> DEFINE captures == [result.captures EXCEPT ![c] = content]
    <3>1. captures = [d \in DOMAIN captures |-> captures[d]]
      OBVIOUS
    <3>2. result' = [result EXCEPT !.captures = captures]
      BY <2>6
    <3> HIDE DEF captures
    <3>3. result' = [captures |-> captures, rejections |-> result.rejections,
                     observations |-> result.observations]
      BY <3>2 DEF Retained
    <3>4. /\ result'.captures = captures /\ result'.rejections = result.rejections
          /\ result'.observations = result.observations
      BY <3>3
    <3> QED
      BY <1>c, <2>3, <2>4, <3>1, <3>3, <3>4 DEF Retained
  <2> QED
    BY <2>1, <2>5, <2>6
<1>19. ASSUME NEW c \in ToSet(Collections), EditLog(c)
      PROVE  Retained'
  <2>1. PICK log \in {NoLog, {}, {"known"}} : files' = [files EXCEPT !.logs[c] = log]
    BY <1>19 DEF EditLog
  <2>2. UNCHANGED <<result, ended>>
    BY <1>19 DEF EditLog, EditsNow
  <2> QED
    BY <1>19, <1>c, <1>f, <1>m, <2>1, <2>2, LogWritten
<1>20. CASE Compare
  BY <1>20, <1>g DEF kept, Compare, Complete, probe, run, port, telemetry,
     work, kept, after
<1>21. CASE UNCHANGED vars
  BY <1>21, <1>g DEF kept, vars, probe, run, port, telemetry, work, kept,
     after
<1> QED
  BY <1>1, <1>2, <1>3, <1>4, <1>5, <1>6, <1>7, <1>8, <1>9, <1>10, <1>11,
     <1>12, <1>13, <1>14, <1>15, <1>16, <1>17, <1>18, <1>19, <1>20, <1>21
     DEF Next, Environment, Attempt, Settling, Later

(* Only a process that never listened finds the port taken, and SeeExit looks   *)
(* for that in the log before anything else.                                 *)
LEMMA ToldStep ==
  ASSUME Fields, Contained, Kinds, Retained, Told, [Next]_vars
  PROVE  Told'
<1>a. /\ Name \in ToSet(Collections)
  BY Here DEF Kinds, Name
<1>c. suite' = suite
  BY SuiteStays
<1>d. UNCHANGED at => Name' = Name
  BY <1>c, SameCollections
<1>1. CASE ChildBinds \/ ChildFindsPortTaken \/ ChildRejectsSetting \/ ChildCrashes \/
          ChildStops \/ Wait
  BY <1>1, <1>d DEF Fields, Contained, Told, Window, Alive, NoChild,
     ChildBinds, ChildFindsPortTaken, ChildRejectsSetting, ChildCrashes,
     ChildStops, Wait, Log, probe, run, port, telemetry, work, kept, after
<1>2. CASE ForeignBinds \/ ForeignLeaves \/ Export \/ SinkStores
  BY <1>2, <1>d DEF Fields, Contained, Told, Window, Alive, NoChild,
     ForeignBinds, ForeignLeaves, Export, SinkStores, Exporters, probe, run,
     port, telemetry, work, kept, after
<1>3. CASE Reset
  BY <1>3, <1>d DEF Fields, Contained, Told, Window, Alive, NoChild, Reset,
     Older, probe, run, port, telemetry, work, kept, after
<1>4. CASE ResetFails \/ Launch \/ LaunchFails
  <2>1. CASE Launch
    <3>1. /\ files' = [files EXCEPT !.logs[Name] = {}] /\ UNCHANGED at
          /\ pc' = "poll"
      BY <2>1 DEF Launch, run
    <3>2. files'.logs[Name] = {}
      BY <1>a, <1>c, <3>1, LogWritten DEF Logs
    <3> QED
      BY <1>d, <3>1, <3>2 DEF Told, Window
  <2>2. CASE ResetFails \/ LaunchFails
    BY <1>d, <2>2 DEF Told, Window, ResetFails, LaunchFails, Abandon
  <2> QED
    BY <1>4, <2>1, <2>2
<1>5. CASE SeeExit \/ ReadinessTimesOut
  BY <1>5, <1>d DEF Fields, Contained, Told, Window, Alive, NoChild,
     SeeExit, GroupStays, ReadinessTimesOut, Return, ExitKind, probe, run, port,
     telemetry, work, kept, after
<1>6. CASE ActOnAnswer
  <2>1. /\ UNCHANGED <<at, child, files>> /\ pc = "answered"
        /\ \/ pc' \in {"poll", "workload"}
           \/ pc' = "cleanup" /\ outcome' \in {"error", "port in use"}
           \/ /\ pc' = "cleanup" /\ outcome' = "workload failure"
              /\ "exclusive" \in Ownership
    BY <1>6 DEF ActOnAnswer, Return, run, kept
  <2>2. "exclusive" \in Ownership => child.state = "listening"
    BY DEF Ownership
  <2>3. "in use" \in files.logs[Name] => ~Alive
    BY <2>1 DEF Told, Window
  <2> QED
    BY <1>d, <2>1, <2>2, <2>3 DEF Told, Window, Alive
<1>7. CASE Ask
  <2>1. /\ Log({"known"}) \/ UNCHANGED files
        /\ UNCHANGED <<at, child>> /\ pc = "poll" /\ pc' = "answered"
    BY <1>7 DEF Ask, run
  <2>2. "in use" \in files'.logs[Name] => "in use" \in files.logs[Name]
    <3>1. CASE Log({"known"})
      <4>1. {"known"} \in Logs
        BY DEF Logs
      <4>2. files'.logs[Name] = files.logs[Name] \cup {"known"}
        BY <1>c, <3>1, <4>1, MessageLogged
      <4> QED
        BY <4>2
    <3>2. CASE UNCHANGED files
      BY <3>2
    <3> QED
      BY <2>1, <3>1, <3>2
  <2> QED
    BY <1>d, <2>1, <2>2 DEF Told, Window, Alive
<1>8. CASE CheckBefore \/ Request \/ RequestFails
  BY <1>8, <1>d DEF Told, Window, Alive, CheckBefore, Request, RequestFails,
     Verify, Return, Refusal, run, kept
<1>9. CASE CheckAfter
  BY <1>9, <1>d DEF Told, Window, Alive, CheckAfter, Verify, Return, Refusal,
     NextPart, run, kept
<1>10. CASE StartBurst \/ BurstTick \/ BurstEnds \/ LastBurstCheck
  BY <1>10, <1>d DEF Fields, Told, Window, Alive, StartBurst, BurstTick,
     BurstEnds,
     LastBurstCheck, Verify, Return, Refusal, run, kept
<1>11. ASSUME NEW i \in 1 .. Burst, Goroutine(i)
      PROVE  Told'
  BY <1>11, <1>d DEF Fields, Contained, Told, Window, Alive, NoChild,
     Goroutine, Noted, probe, run, port, telemetry, work, kept, after
<1>12. CASE ObservationTick \/ ExitDuringObservation \/ ObservationEnds \/ StopSeen
  BY <1>12, <1>d DEF Told, Window, Alive, ObservationTick, ExitDuringObservation,
     ObservationEnds, StopSeen, GroupStays, Return, Refusal, run, kept
<1>13. CASE KillAfterGrace \/ KillFails \/ Cleanup \/ DumpFails
  BY <1>13, <1>d DEF Fields, Contained, Told, Window, Alive, NoChild,
     KillAfterGrace, KillFails, Cleanup, DumpFails, Forget, Return, probe, run, port,
     telemetry, work, kept, after
<1>14. CASE Capture
  BY <1>14, <1>d DEF Fields, Contained, Told, Window, Alive, NoChild,
     Capture, GoOn, GiveUpRun, Abandon, probe, run, port, telemetry, work,
     kept, after
<1>15. CASE CaptureFails \/ Retry \/ Fatal \/ WriteResult
  BY <1>15, <1>d DEF Fields, Contained, Told, Window, Alive, NoChild, CaptureFails, Retry,
     Fatal, WriteResult, Abandon, probe, run, port, telemetry, work, kept,
     after
<1>16. CASE RecordRejection
  BY <1>16, <1>d DEF Fields, Contained, Told, Window, Alive, NoChild,
     RecordRejection, GoOn, probe, run, port, telemetry, work, kept, after
<1>17. ASSUME NEW e \in ToSet(suite), EditObservation(e)
      PROVE  Told'
  BY <1>17, <1>d DEF Fields, Contained, Told, Window, Alive, NoChild,
     EditObservation, EditsNow, Complete, probe, run, port, telemetry, work,
     kept, after
<1>18. ASSUME NEW c \in ToSet(Collections), EditCapture(c)
      PROVE  Told'
  BY <1>18, <1>d DEF Fields, Contained, Told, Window, Alive, NoChild,
     EditCapture, EditsNow, Complete, probe, run, port, telemetry, work,
     kept, after
<1>19. ASSUME NEW c \in ToSet(Collections), EditLog(c)
      PROVE  Told'
  BY <1>19, <1>d DEF Fields, Contained, Told, Window, Alive, NoChild,
     EditLog, EditsNow, Complete, probe, run, port, telemetry, work, kept,
     after
<1>20. CASE Compare
  BY <1>20, <1>d DEF Fields, Contained, Told, Window, Alive, NoChild,
     Compare, Complete, probe, run, port, telemetry, work, kept, after
<1>21. CASE UNCHANGED vars
  BY <1>21, <1>d DEF Fields, Contained, Told, Window, Alive, NoChild, vars,
     probe, run, port, telemetry, work, kept, after
<1> QED
  BY <1>1, <1>2, <1>3, <1>4, <1>5, <1>6, <1>7, <1>8, <1>9, <1>10, <1>11,
     <1>12, <1>13, <1>14, <1>15, <1>16, <1>17, <1>18, <1>19, <1>20, <1>21
     DEF Next, Environment, Attempt, Settling, Later

(* No collection occurs twice. *)
LEMMA CollectionsCount ==
  ASSUME suite \in Suites
  PROVE  /\ IsFiniteSet(ToSet(Collections))
         /\ Cardinality(ToSet(Collections)) = Len(Collections)
<1> DEFINE n == Len(Collections)
           S == ToSet(Collections)
<1>1. /\ n \in Nat \ {0} /\ Collections \in Seq(Names)
      /\ \A i \in 1 .. n : Collections[i] \in S
      /\ \A c \in S : \E i \in 1 .. n : Collections[i] = c
      /\ \A i, j \in 1 .. n : Collections[i] = Collections[j] => i = j
  BY Here, CollectionsInOrder
<1>2. Collections \in [1 .. n -> Names]
  BY <1>1, LenProperties
<1> HIDE DEF n, S
<1>3. Collections \in [1 .. n -> S]
  BY <1>1, <1>2
<1>4. Collections \in Surjection(1 .. n, S) /\ Collections \in Injection(1 .. n, S)
  BY <1>1, <1>2, <1>3 DEF Surjection, Injection, IsInjective
<1>5. IsFiniteSet(1 .. n) /\ Cardinality(1 .. n) = n
  BY <1>1, FS_Interval
<1>6. IsFiniteSet(S) /\ Cardinality(S) = n
  BY <1>4, <1>5, FS_Surjection
<1> QED
  BY <1>6 DEF n, S

(* What may change while nothing is recorded. *)
LEMMA SamePlaces ==
  ASSUME Kinds, Places, [Next]_vars, UNCHANGED <<at, verdict>>, Over' <=> Over,
         DOMAIN result'.captures = DOMAIN result.captures,
         DOMAIN result'.rejections = DOMAIN result.rejections
  PROVE  Places'
<1>1. Collections' = Collections /\ Name' = Name /\ suite' = suite
  BY SuiteStays, SameCollections
<1> QED
  BY <1>1 DEF Places, Held

(* A run that is given up keeps what it has. *)
LEMMA PlacesGivenUp ==
  ASSUME Kinds, Places, [Next]_vars, UNCHANGED at, Abandon,
         DOMAIN result'.captures = DOMAIN result.captures,
         DOMAIN result'.rejections = DOMAIN result.rejections
  PROVE  Places'
<1>1. Collections' = Collections /\ suite' = suite
  BY SuiteStays
<1> QED
  BY <1>1 DEF Places, Held, Abandon, Over

(* The place after the present one is free. *)
LEMMA PlacesGoOn ==
  ASSUME Kinds, Places, [Next]_vars, ~Over, GoOn, Held' = Held \cup {Name},
         DOMAIN result'.captures \cap DOMAIN result'.rejections = {},
         DOMAIN result'.rejections \subseteq ToSet(suite)
  PROVE  Places'
<1> DEFINE n == Len(Collections)
<1>1. /\ Collections' = Collections /\ suite' = suite
      /\ n \in Nat \ {0} /\ at \in 1 .. n
      /\ \A i, j \in 1 .. n : Collections[i] = Collections[j] => i = j
  BY SuiteStays, CollectionsInOrder DEF Kinds
<1>2. verdict = "running" /\ verdict' = "running"
  BY DEF Kinds, Over, GoOn
<1> HIDE DEF n
<1>3. CASE at = n
  <2>1. Over' /\ at' = at /\ at = n
    BY <1>3 DEF GoOn, Over, n
  <2>2. \A c \in Held' : \E i \in 1 .. at : c = Collections[i]
    BY <1>1 DEF Places, Name
  <2>3. \A i \in 1 .. at : Collections[i] \in Held'
    <3>1. \A i \in 1 .. at : i < at \/ i = at
      BY <1>1
    <3> QED
      BY <1>2, <3>1 DEF Places, Name
  <2> QED
    BY <1>1, <2>1, <2>2, <2>3 DEF Places, n
<1>4. CASE at # n
  <2>1. ~Over' /\ at' = at + 1 /\ at + 1 \in 1 .. n
    BY <1>1, <1>4 DEF GoOn, Over, n
  <2>2. \A c \in Held' : \E i \in 1 .. at : c = Collections[i]
    BY <1>1 DEF Places, Name
  <2>3. \A c \in Held' : \E i \in 1 .. (at + 1) : c = Collections[i]
    <3>1. \A i \in 1 .. at : i \in 1 .. (at + 1)
      BY <1>1
    <3> QED
      BY <2>2, <3>1
  <2>4. Collections[at + 1] \notin Held'
    <3>1. \A i \in 1 .. at : i \in 1 .. n /\ i # at + 1
      BY <1>1
    <3> QED
      BY <1>1, <2>1, <2>2, <3>1
  <2>5. \A i \in 1 .. (at + 1) : i < at + 1 => Collections[i] \in Held'
    <3>1. \A i \in 1 .. (at + 1) : i < at + 1 => i \in 1 .. at /\ (i < at \/ i = at)
      BY <1>1
    <3> QED
      BY <1>2, <3>1 DEF Places, Name
  <2>6. Name' = Collections[at + 1]
    BY <1>1, <2>1 DEF Name
  <2> QED
    BY <1>1, <2>1, <2>3, <2>4, <2>5, <2>6 DEF Places, n
<1> QED
  BY <1>3, <1>4

(* A collection is recorded when it is over, and not before. *)
LEMMA PlacesStep ==
  ASSUME Kinds, Contained, Retained, Places, [Next]_vars
  PROVE  Places'
<1>a. ASSUME UNCHANGED <<at, verdict, result>>, Over' <=> Over
      PROVE  Places'
  BY <1>a, SamePlaces
<1>b. ASSUME UNCHANGED <<at, result>>, Abandon
      PROVE  Places'
  BY <1>b, PlacesGivenUp
<1>1. CASE Environment \/ Wait
  BY <1>1, <1>a DEF Environment, ChildBinds, ChildFindsPortTaken,
     ChildRejectsSetting, ChildCrashes, ChildStops, Wait, ForeignBinds,
     ForeignLeaves, Export, SinkStores, Over, probe, run, kept
<1>2. CASE ResetFails \/ LaunchFails \/ CaptureFails \/ Fatal
  BY <1>2, <1>b DEF ResetFails, LaunchFails, CaptureFails, Fatal, run, kept
<1>3. CASE Reset \/ Launch \/ Cleanup \/ Retry
  <2>1. UNCHANGED <<at, verdict, result>> /\ ~Over /\ ~Over'
    BY <1>3 DEF Reset, Launch, Cleanup, Retry, Over, run, kept
  <2> QED
    BY <1>a, <2>1
<1>4. CASE SeeExit \/ Ask \/ ReadinessTimesOut \/ Request \/ RequestFails \/ BurstTick
  BY <1>4, <1>a DEF SeeExit, GroupStays, Ask, ReadinessTimesOut, Return, Request,
     RequestFails,
     BurstTick, Over, run, kept
<1>5. CASE ActOnAnswer \/ CheckBefore \/ CheckAfter \/ StartBurst \/ LastBurstCheck
  <2>1. UNCHANGED <<at, verdict, result>> /\ ~Over /\ ~Over'
    BY <1>5 DEF ActOnAnswer, CheckBefore, CheckAfter, StartBurst, LastBurstCheck,
       Verify, NextPart, Return, Over, run, kept
  <2> QED
    BY <1>a, <2>1
<1>6. ASSUME NEW i \in 1 .. Burst, Goroutine(i)
      PROVE  Places'
  BY <1>6, <1>a DEF Goroutine, Over, run, kept
<1>7. CASE BurstEnds \/ ObservationTick \/ ExitDuringObservation \/ ObservationEnds \/
          StopSeen \/ KillAfterGrace \/ KillFails \/ DumpFails
  <2>1. UNCHANGED <<at, verdict, result>> /\ ~Over /\ ~Over'
    BY <1>7 DEF BurstEnds, ObservationTick, ExitDuringObservation,
       ObservationEnds,
       StopSeen, GroupStays, KillAfterGrace, KillFails, DumpFails, Return, Over, run, kept
  <2> QED
    BY <1>a, <2>1
<1>8. CASE Capture
  <2>1. PICK content \in Contents : CaptureRecorded(content)
    BY <1>8, CaptureFacts
  <2>2. /\ DOMAIN result'.captures = DOMAIN result.captures \cup {Name}
        /\ DOMAIN result'.rejections = DOMAIN result.rejections
    BY <2>1 DEF CaptureRecorded
  <2>3. pc = "dump" /\ ~Over
    BY <1>8 DEF Capture, Over
  <2>4. CASE GoOn
    BY <2>2, <2>3, <2>4, PlacesGoOn DEF Places, Held
  <2>5. CASE GiveUpRun
    <3>1. Collections' = Collections /\ suite' = suite /\ at' = at
      BY <2>5, SuiteStays DEF GiveUpRun
    <3>2. \A c \in Held' : \E i \in 1 .. at : c = Collections[i]
      <4>1. at \in 1 .. at
        BY DEF Kinds
      <4> QED
        BY <2>2, <4>1 DEF Held, Places, Name
    <3>3. DOMAIN result'.captures \cap DOMAIN result'.rejections = {}
      BY <2>2, <2>3 DEF Held, Places
    <3> QED
      BY <2>2, <2>5, <3>1, <3>2, <3>3 DEF Places, GiveUpRun, Abandon, Over
  <2> QED
    BY <1>8, <2>4, <2>5 DEF Capture
<1>9. CASE RecordRejection
  <2>1. /\ DOMAIN result'.captures = DOMAIN result.captures
        /\ DOMAIN result'.rejections = DOMAIN result.rejections \cup {Name}
    BY <1>9, RejectionFacts DEF RejectionRecorded
  <2>2. pc = "settle" /\ ~Over /\ GoOn /\ Name \in ToSet(suite)
    BY <1>9 DEF RecordRejection, Over, Rejected, IsExperiment
  <2> QED
    BY <2>1, <2>2, PlacesGoOn DEF Places, Held
<1>10. CASE WriteResult
  <2>1. /\ UNCHANGED <<at, result>> /\ Over /\ Over' /\ verdict = "running"
    BY <1>10 DEF WriteResult, Abandon, Over, Kinds, run, kept
  <2>2. Collections' = Collections /\ suite' = suite
    BY SuiteStays
  <2> QED
    BY <2>1, <2>2 DEF Places, Held
<1>11. ASSUME NEW e \in ToSet(suite), EditObservation(e)
       PROVE  Places'
  <2>1. PICK status \in Statuses : result' = [result EXCEPT !.observations[e] = status]
    BY <1>11 DEF EditObservation
  <2>2. result'.captures = result.captures /\ result'.rejections = result.rejections
    BY <2>1 DEF Retained
  <2> QED
    BY <1>11, <2>2, SamePlaces DEF EditObservation, EditsNow, Over, run
<1>12. ASSUME NEW c \in ToSet(Collections), EditCapture(c)
       PROVE  Places'
  <2>1. CASE UNCHANGED result
    BY <1>12, <1>a, <2>1 DEF EditCapture, EditsNow, Over, run
  <2>2. ASSUME NEW content, result' = [result EXCEPT !.captures[c] = content]
        PROVE  Places'
    <3> DEFINE captures == [result.captures EXCEPT ![c] = content]
    <3>1. DOMAIN captures = DOMAIN result.captures
      OBVIOUS
    <3>2. result' = [result EXCEPT !.captures = captures]
      BY <2>2
    <3> HIDE DEF captures
    <3>3. result'.captures = captures /\ result'.rejections = result.rejections
      BY <3>2 DEF Retained
    <3> QED
      BY <1>12, <3>1, <3>3, SamePlaces DEF EditCapture, EditsNow, Over, run
  <2> QED
    BY <1>12, <2>1, <2>2 DEF EditCapture
<1>13. ASSUME NEW c \in ToSet(Collections), EditLog(c)
       PROVE  Places'
  BY <1>13, <1>a DEF EditLog, EditsNow, Over, run
<1>14. CASE Compare \/ UNCHANGED vars
  BY <1>14, <1>a DEF Compare, vars, Over, run, kept
<1> QED
  BY <1>1, <1>2, <1>3, <1>4, <1>5, <1>6, <1>7, <1>8, <1>9, <1>10, <1>11, <1>12,
     <1>13, <1>14 DEF Next, Attempt, Settling, Later

(* The control of an experiment that is over, or is the present one, has been *)
(* collected before.                                                         *)
LEMMA ControlBefore ==
  ASSUME Kinds, NEW i \in 1 .. at, Collections[i] \in ToSet(suite)
  PROVE  ControlOf(Collections[i]) # Name
<1>1. /\ at \in 1 .. Len(Collections) /\ Len(Collections) \in Nat
      /\ \A j, k \in 1 .. Len(Collections) : Collections[j] = Collections[k] => j = k
  BY CollectionsInOrder DEF Kinds
<1>2. i \in 1 .. Len(Collections)
  BY <1>1
<1>3. PICK j \in 1 .. (i - 1) : Collections[j] = ControlOf(Collections[i])
  BY <1>2, CollectionsInOrder DEF Kinds
<1>4. j \in 1 .. Len(Collections) /\ j # at
  BY <1>1, <1>2, <1>3
<1> QED
  BY <1>1, <1>3, <1>4 DEF Name

(* A run whose files nobody has touched passes verification. *)
LEMMA CompleteVerifies ==
  ASSUME Kinds, Places, Recorded, Complete, edits = 0
  PROVE  verifyResult
<1> DEFINE S == ToSet(Collections)
           C == DOMAIN result.captures
           R == DOMAIN result.rejections
<1>1. /\ \A c \in C : Captured(c)
      /\ \A e \in R : Refused(e)
  BY DEF Recorded
<1>2. verdict # "error" /\ Over /\ at = Len(Collections)
  BY DEF Complete, Over, Places
<1>3. S = C \cup R /\ C \cap R = {} /\ R \subseteq ToSet(suite)
  <2>1. /\ \A i \in 1 .. Len(Collections) : Collections[i] \in S
        /\ \A c \in S : \E i \in 1 .. Len(Collections) : c = Collections[i]
    BY Here DEF Kinds
  <2>2. \A c \in S : c \in C \cup R
    BY <1>2, <2>1 DEF Places, Held
  <2>3. \A c \in C \cup R : c \in S
    BY <1>2, <2>1 DEF Places, Held
  <2> QED
    BY <2>2, <2>3 DEF Places
<1>4. ASSUME NEW c \in S, c \notin ToSet(suite)
      PROVE  Loads(c)
  BY <1>1, <1>3, <1>4 DEF Captured, Loads
<1>5. ASSUME NEW c \in S, NeedsSpans(c)
      PROVE  Loads(c) /\ files.captures[c].spans
  <2>1. c \notin ToSet(suite)
    <3>1. {"baseline", "sampler-arg-control"} \cap ToSet(suite) = {}
      BY ProbeAssumption DEF Kinds
    <3> QED
      BY <1>5, <3>1 DEF NeedsSpans
  <2>2. c \in C
    BY <1>3, <1>5, <2>1
  <2> QED
    BY <1>1, <1>2, <1>4, <1>5, <2>1, <2>2 DEF Captured
<1>6. Cardinality(C) + Cardinality(R) = Len(Collections)
  <2>1. IsFiniteSet(S) /\ Cardinality(S) = Len(Collections)
    BY CollectionsCount DEF Kinds
  <2> HIDE DEF S, C, R
  <2>2. /\ IsFiniteSet(C) /\ IsFiniteSet(R)
    BY <1>3, <2>1, FS_Subset
  <2>3. Cardinality(S) = Cardinality(C) + Cardinality(R) - Cardinality(C \cap R)
    BY <1>3, <2>2, FS_Union
  <2>4. Cardinality(C \cap R) = 0 /\ Cardinality(C) \in Nat /\ Cardinality(R) \in Nat
    BY <1>3, <2>2, FS_EmptySet, FS_CardinalityType
  <2> QED
    BY <2>1, <2>3, <2>4
<1>7. ASSUME NEW e \in ToSet(suite)
      PROVE  Loads(ControlOf(e)) /\ Implied(e)
  <2>1. e \in S
    BY Here DEF Kinds
  <2>2. ControlOf(e) \in S /\ ControlOf(e) \notin ToSet(suite)
    <3>1. PICK i \in 1 .. Len(Collections) : Collections[i] = e
      BY CollectionsInOrder DEF Kinds
    <3>2. PICK j \in 1 .. (i - 1) : Collections[j] = ControlOf(e)
      BY <3>1, CollectionsInOrder DEF Kinds
    <3>3. j \in 1 .. Len(Collections)
      BY <3>1, <3>2, Here DEF Kinds
    <3>4. ControlOf(e) \in S
      BY <3>2, <3>3, Here DEF Kinds
    <3>5. ControlOf(e) \notin ToSet(suite)
      BY SuiteFacts DEF Kinds, ControlOf
    <3> QED
      BY <3>4, <3>5
  <2>3. Loads(ControlOf(e))
    BY <1>4, <2>2
  <2>4. CASE e \in R
    BY <1>1, <2>3, <2>4 DEF Refused, Implied
  <2>5. CASE e \notin R
    BY <1>1, <1>3, <2>1, <2>3, <2>5 DEF Captured, Implied, Loads
  <2> QED
    BY <2>3, <2>4, <2>5
<1> QED
  BY <1>5, <1>6, <1>7 DEF verifyResult

(* What may change while nothing is recorded. *)
LEMMA SameRecord ==
  ASSUME Recorded, [Next]_vars, UNCHANGED <<result, ended, edits, shown>>,
         verdict = "error" => verdict' = "error",
         files'.captures = files.captures,
         \A e \in DOMAIN result.rejections : files'.logs[e] = files.logs[e]
  PROVE  Recorded'
<1>1. suite' = suite
  BY SuiteStays
<1> SUFFICES ASSUME edits = 0
             PROVE  /\ \A c \in DOMAIN result.captures : Captured(c)'
                    /\ \A e \in DOMAIN result.rejections : Refused(e)'
                    /\ shown' # "refused"
  BY DEF Recorded
<1>2. ASSUME NEW c \in DOMAIN result.captures
      PROVE  Captured(c)'
  <2>1. Captured(c)
    BY DEF Recorded
  <2> QED
    BY <1>1, <2>1 DEF Captured, NeedsSpans, Evaluate, ControlOf
<1>3. ASSUME NEW e \in DOMAIN result.rejections
      PROVE  Refused(e)'
  <2>1. Refused(e)
    BY DEF Recorded
  <2> QED
    BY <2>1 DEF Refused
<1> QED
  BY <1>2, <1>3 DEF Recorded

(* The log of the present collection is nobody's evidence yet. *)
LEMMA PresentLog ==
  ASSUME Recorded, Places, ~Over, [Next]_vars,
         UNCHANGED <<result, ended, edits, shown, verdict>>,
         files'.captures = files.captures,
         \A d : d # Name => files'.logs[d] = files.logs[d]
  PROVE  Recorded'
<1>1. \A e \in DOMAIN result.rejections : files'.logs[e] = files.logs[e]
  BY DEF Places, Held
<1> QED
  BY <1>1, SameRecord

(* A capture is evaluated against the control that was captured before it. *)
LEMMA RecordedCapture ==
  ASSUME Kinds, Retained, Places, Recorded, Capture, [Next]_vars
  PROVE  Recorded'
<1>1. PICK content \in Contents : CaptureRecorded(content)
  BY CaptureFacts
<1>2. /\ suite' = suite /\ ended' = ended /\ edits' = edits /\ shown' = shown
      /\ ~Over /\ verdict # "error"
  BY SuiteStays DEF Capture, Over, after, Kinds
<1>3. Name \notin Held /\ \A c \in Held : \E i \in 1 .. at : c = Collections[i]
  BY <1>2 DEF Places
<1>4. ASSUME NEW c, c \in Held \/ c = Name, c \in ToSet(suite)
      PROVE  ControlOf(c) # Name
  <2>1. PICK i \in 1 .. at : c = Collections[i]
    <3>1. at \in 1 .. at
      BY DEF Kinds
    <3> QED
      BY <1>3, <1>4, <3>1 DEF Name
  <2> QED
    BY <1>4, <2>1, ControlBefore
<1> SUFFICES ASSUME edits = 0
             PROVE  /\ \A c \in DOMAIN result'.captures : Captured(c)'
                    /\ \A e \in DOMAIN result'.rejections : Refused(e)'
  BY <1>2 DEF Recorded
<1>5. ASSUME NEW c \in DOMAIN result.captures
      PROVE  Captured(c)'
  <2>1. Captured(c) /\ c # Name /\ (c \in ToSet(suite) => ControlOf(c) # Name)
    BY <1>3, <1>4 DEF Recorded, Held
  <2>2. /\ files'.captures[c] = files.captures[c]
        /\ result'.captures[c] = result.captures[c]
        /\ result'.observations[c] = result.observations[c]
        /\ c \in ToSet(suite) =>
             files'.captures[ControlOf(c)] = files.captures[ControlOf(c)]
    BY <1>1, <2>1 DEF CaptureRecorded
  <2> QED
    BY <1>2, <2>1, <2>2 DEF Captured, NeedsSpans, Evaluate, ControlOf
<1>6. ASSUME NEW c, c = Name
      PROVE  Captured(c)'
  <2>1. c \in ToSet(suite) => ControlOf(c) # c
    BY <1>4, <1>6
  <2>2. /\ files'.captures[c] = content /\ result'.captures[c] = content
        /\ content.there /\ (NeedsSpans(c) /\ verdict' # "error" => content.spans)
    BY <1>1, <1>6 DEF CaptureRecorded
  <2>3. c \in ToSet(suite) =>
             /\ result'.observations[c] = Evaluate(files.captures[ControlOf(c)], content)
             /\ files'.captures[ControlOf(c)] = files.captures[ControlOf(c)]
    BY <1>1, <1>6, <2>1 DEF CaptureRecorded
  <2> QED
    BY <1>2, <2>2, <2>3 DEF Captured, NeedsSpans, Evaluate, ControlOf
<1>7. ASSUME NEW e \in DOMAIN result.rejections
      PROVE  Refused(e)'
  <2>1. Refused(e) /\ e # Name
    BY <1>3 DEF Recorded, Held
  <2>2. /\ files'.logs = files.logs /\ result'.rejections = result.rejections
        /\ result'.observations[e] = result.observations[e]
    BY <1>1, <2>1 DEF CaptureRecorded
  <2> QED
    BY <1>2, <2>1, <2>2 DEF Refused
<1>8. /\ DOMAIN result'.captures = DOMAIN result.captures \cup {Name}
      /\ DOMAIN result'.rejections = DOMAIN result.rejections
  BY <1>1 DEF CaptureRecorded
<1> QED
  BY <1>5, <1>6, <1>7, <1>8

(* A rejection is recorded with the log and the end of its own attempt. *)
LEMMA RecordedRejection ==
  ASSUME Fields, Kinds, Retained, Told, Places, Recorded, RecordRejection, [Next]_vars
  PROVE  Recorded'
<1>1. RejectionRecorded
  BY RejectionFacts
<1>2. /\ suite' = suite /\ edits' = edits /\ shown' = shown /\ files' = files
      /\ ~Over /\ verdict # "error" /\ verdict' = verdict
  BY SuiteStays DEF RecordRejection, GoOn, Over, after, Kinds
<1>3. Name \notin Held
  BY <1>2 DEF Places
<1> SUFFICES ASSUME edits = 0
             PROVE  /\ \A c \in DOMAIN result'.captures : Captured(c)'
                    /\ \A e \in DOMAIN result'.rejections : Refused(e)'
  BY <1>2 DEF Recorded
<1>4. ASSUME NEW c \in DOMAIN result.captures
      PROVE  Captured(c)'
  <2>1. Captured(c) /\ c # Name
    BY <1>3 DEF Recorded, Held
  <2>2. /\ result'.captures = result.captures
        /\ result'.observations[c] = result.observations[c]
    BY <1>1, <2>1 DEF RejectionRecorded
  <2> QED
    BY <1>2, <2>1, <2>2 DEF Captured, NeedsSpans, Evaluate, ControlOf
<1>5. ASSUME NEW e \in DOMAIN result.rejections
      PROVE  Refused(e)'
  <2>1. Refused(e) /\ e # Name
    BY <1>3 DEF Recorded, Held
  <2>2. /\ result'.rejections[e] = result.rejections[e] /\ ended'[e] = ended[e]
        /\ result'.observations[e] = result.observations[e]
    BY <1>1, <2>1 DEF RejectionRecorded
  <2> QED
    BY <1>2, <2>1, <2>2 DEF Refused
<1>6. ASSUME NEW e, e = Name
      PROVE  Refused(e)'
  <2>1. /\ e \in DOMAIN Rejections /\ "known" \in files.logs[e]
        /\ outcome \in {"startup exit", "workload failure"} /\ pc = "settle"
        /\ outcome = "startup exit" => child.code = 1
        /\ (outcome = "workload failure") <=> (Rejections[e] = "workload_rejected")
    BY <1>6 DEF RecordRejection, Rejected
  <2>2. "in use" \notin files.logs[e]
    BY <1>6, <2>1 DEF Told
  <2>3. Rejections[e] \in {"startup_rejected", "workload_rejected"}
    BY <2>1, ProbeAssumption
  <2>4. child.code \in 0 .. 2
    <3>1. child.code \in {0, 1, 2}
      BY DEF Fields
    <3> QED
      BY <3>1
  <2>5. /\ result'.rejections[e] = files.logs[e] /\ result'.observations[e] = Rejections[e]
        /\ ended'[e] = [how |-> outcome, code |-> child.code]
    BY <1>1, <1>6 DEF RejectionRecorded
  <2>6. ended'[e] \in IF Rejections[e] = "startup_rejected"
                      THEN [how : {"startup exit"}, code : {1}]
                      ELSE [how : {"workload failure"}, code : 0 .. 2]
    <3>1. CASE Rejections[e] = "startup_rejected"
      <4>1. ended'[e] = [how |-> "startup exit", code |-> 1]
        BY <2>1, <2>5, <3>1
      <4>2. [how |-> "startup exit", code |-> 1] \in [how : {"startup exit"}, code : {1}]
        OBVIOUS
      <4> QED
        BY <3>1, <4>1, <4>2, Zenon
    <3>2. CASE Rejections[e] = "workload_rejected"
      <4>1. outcome = "workload failure"
        BY <2>1, <3>2
      <4> DEFINE code == child.code
      <4>2. code \in 0 .. 2
        BY <2>4
      <4>3. ended'[e] = [how |-> "workload failure", code |-> code]
        BY <2>5, <4>1
      <4> HIDE DEF code
      <4>4. [how |-> "workload failure", code |-> code]
              \in [how : {"workload failure"}, code : 0 .. 2]
        BY <4>2
      <4>5. Rejections[e] # "startup_rejected"
        BY <3>2
      <4> QED
        BY <4>3, <4>4, <4>5, Zenon
    <3> QED
      BY <2>3, <3>1, <3>2
  <2> QED
    BY <1>2, <2>1, <2>2, <2>5, <2>6 DEF Refused
<1>7. /\ DOMAIN result'.captures = DOMAIN result.captures
      /\ DOMAIN result'.rejections = DOMAIN result.rejections \cup {Name}
  BY <1>1 DEF RejectionRecorded
<1> QED
  BY <1>4, <1>5, <1>6, <1>7

(* What is recorded stays what is retained until somebody edits it. *)
LEMMA RecordedStep ==
  ASSUME Fields, Contained, Kinds, Retained, Told, Places, Recorded, [Next]_vars
  PROVE  Recorded'
<1>a. ASSUME UNCHANGED <<files, result, ended, edits, shown>>,
             verdict = "error" => verdict' = "error"
      PROVE  Recorded'
  BY <1>a, SameRecord
<1>b. ASSUME NEW message \in Logs, Log(message), ~Over,
             UNCHANGED <<result, ended, edits, shown, verdict>>
      PROVE  Recorded'
  BY <1>b, SuiteStays, MessageLogged, PresentLog
<1>1. CASE ChildFindsPortTaken \/ ChildRejectsSetting
  <2>1. PICK message \in {{"in use"}, {"known"}} : Log(message)
    BY <1>1 DEF ChildFindsPortTaken, ChildRejectsSetting
  <2>2. message \in Logs
    BY DEF Logs
  <2>3. UNCHANGED <<result, ended, edits, shown, verdict>>
    BY <1>1 DEF ChildFindsPortTaken, ChildRejectsSetting, probe, after
  <2>4. ~Over
    BY <1>1 DEF ChildFindsPortTaken, ChildRejectsSetting, Contained, Alive,
       Window, Over
  <2> QED
    BY <1>b, <2>1, <2>2, <2>3, <2>4
<1>2. CASE ChildBinds \/ ChildCrashes \/ ChildStops \/ Wait \/ ForeignBinds \/
          ForeignLeaves \/ Export \/ SinkStores
  BY <1>2, <1>a DEF ChildBinds, ChildCrashes, ChildStops, Wait, ForeignBinds,
     ForeignLeaves, Export, SinkStores, probe, kept, after
<1>3. CASE ResetFails \/ LaunchFails \/ CaptureFails \/ Fatal
  BY <1>3, <1>a DEF ResetFails, LaunchFails, CaptureFails, Fatal, Abandon, kept,
     after
<1>4. CASE Reset \/ Cleanup \/ Retry
  BY <1>4, <1>a DEF Reset, Cleanup, Retry, kept, after
<1>5. CASE Launch
  <2>1. /\ files' = [files EXCEPT !.logs[Name] = {}] /\ ~Over
        /\ UNCHANGED <<result, ended, edits, shown, verdict>>
    BY <1>5 DEF Launch, Over, after
  <2>2. Name \in ToSet(Collections) /\ {} \in Logs
    BY Here DEF Kinds, Name, Logs
  <2> QED
    BY <2>1, <2>2, LogWritten, SuiteStays, PresentLog
<1>6. CASE Ask
  <2>1. /\ Log({"known"}) \/ UNCHANGED files
        /\ UNCHANGED <<result, ended, edits, shown, verdict>> /\ ~Over
    BY <1>6 DEF Ask, Over, after
  <2>2. {"known"} \in Logs
    BY DEF Logs
  <2> QED
    BY <1>a, <1>b, <2>1, <2>2
<1>7. CASE SeeExit \/ ReadinessTimesOut \/ Request \/ RequestFails \/ BurstTick
  BY <1>7, <1>a DEF SeeExit, GroupStays, ReadinessTimesOut, Request, RequestFails, BurstTick,
     kept, after
<1>8. CASE ActOnAnswer \/ CheckBefore \/ CheckAfter \/ StartBurst \/ LastBurstCheck
  BY <1>8, <1>a DEF ActOnAnswer, CheckBefore, CheckAfter, StartBurst,
     LastBurstCheck, kept, after
<1>9. ASSUME NEW i \in 1 .. Burst, Goroutine(i)
      PROVE  Recorded'
  BY <1>9, <1>a DEF Goroutine, kept, after
<1>10. CASE BurstEnds \/ ObservationTick \/ ExitDuringObservation \/ ObservationEnds \/
           StopSeen \/ KillAfterGrace \/ KillFails \/ DumpFails
  BY <1>10, <1>a DEF BurstEnds, ObservationTick, ExitDuringObservation,
     ObservationEnds, StopSeen, GroupStays, KillAfterGrace, KillFails, DumpFails, kept, after
<1>11. CASE Capture
  BY <1>11, RecordedCapture
<1>12. CASE RecordRejection
  BY <1>12, RecordedRejection
<1>13. CASE WriteResult
  <2>1. verdict = "running"
    BY <1>13 DEF WriteResult, Kinds
  <2> QED
    BY <1>13, <1>a, <2>1 DEF WriteResult, kept, after
<1>14. ASSUME EditsNow
       PROVE  Recorded'
  <2>1. edits \in Nat /\ edits' = edits + 1
    BY <1>14 DEF Kinds, EditsNow
  <2>2. edits' # 0
    BY <2>1
  <2> QED
    BY <2>2 DEF Recorded
<1>15. CASE Compare
  <2>1. /\ UNCHANGED <<files, result, ended, edits, verdict>> /\ Complete
        /\ shown' = IF verifyResult THEN "shown" ELSE "refused"
    BY <1>15 DEF Compare, kept
  <2>2. CASE edits = 0
    <3>1. shown' # "refused" /\ shown # "refused"
      BY <2>1, <2>2, CompleteVerifies DEF Recorded
    <3>2. /\ \A c \in DOMAIN result.captures : Captured(c)'
          /\ \A e \in DOMAIN result.rejections : Refused(e)'
      <4>1. suite' = suite
        BY SuiteStays
      <4> QED
        BY <2>1, <2>2, <4>1 DEF Recorded, Captured, Refused, NeedsSpans,
           Evaluate, ControlOf
    <3> QED
      BY <2>1, <3>1, <3>2 DEF Recorded
  <2>3. CASE edits # 0
    BY <2>1, <2>3 DEF Recorded
  <2> QED
    BY <2>2, <2>3
<1>16. CASE UNCHANGED vars
  BY <1>16, <1>a DEF vars, kept, after
<1> QED
  BY <1>1, <1>2, <1>3, <1>4, <1>5, <1>6, <1>7, <1>8, <1>9, <1>10, <1>11, <1>12,
     <1>13, <1>14, <1>15, <1>16
     DEF Next, Environment, Attempt, Settling, Later, EditObservation, EditCapture, EditLog

(* Nothing is recorded when the run begins. *)
LEMMA RecordedInitially ==
  Init => Kinds /\ Retained /\ Told /\ Places /\ Recorded
<1> SUFFICES ASSUME Init
             PROVE  Kinds /\ Retained /\ Told /\ Places /\ Recorded
  OBVIOUS
<1>1. /\ suite \in Suites /\ Len(Collections) \in Nat \ {0}
      /\ MaxTries \in Nat \ {0}
  BY Here, ProbeAssumption DEF Init
<1>2. Kinds
  <2>1. at = 1 /\ tries = 0 /\ pc = "reset" /\ edits = 0
    BY DEF Init
  <2>2. at \in 1 .. Len(Collections) /\ tries \in 0 .. MaxTries /\ tries < MaxTries
    BY <1>1, <2>1
  <2> QED
    BY <1>1, <2>1, <2>2 DEF Init, Kinds
<1>3. Retained
  <2> DEFINE C == ToSet(Collections)
             captures == [c \in C |-> Missing]
             logs == [c \in C |-> NoLog]
             observations == [e \in ToSet(suite) |-> NoObservation]
  <2>1. Missing \in Contents /\ NoLog \in Logs
    BY DEF Missing, Contents, NoLog, Logs
  <2>2. captures \in [C -> Contents] /\ logs \in [C -> Logs]
    BY <2>1
  <2>3. observations \in [ToSet(suite) -> Statuses \cup {NoObservation}]
    OBVIOUS
  <2>4. /\ files = [captures |-> captures, logs |-> logs]
        /\ result = [captures |-> <<>>, rejections |-> <<>>, observations |-> observations]
        /\ ended = [e \in ToSet(suite) |-> NotEnded]
    BY DEF Init
  <2> HIDE DEF captures, logs, observations, C
  <2>5. /\ result.captures = <<>> /\ result.rejections = <<>>
        /\ result.observations = observations
        /\ files \in [captures : [C -> Contents], logs : [C -> Logs]]
    BY <2>2, <2>4
  <2>6. <<>> = [c \in DOMAIN <<>> |-> <<>>[c]]
    OBVIOUS
  <2>7. ended = [e \in ToSet(suite) |-> ended[e]]
    BY <2>4
  <2> QED
    BY <2>3, <2>4, <2>5, <2>6, <2>7 DEF Retained, C
<1>4. DOMAIN result.captures = {} /\ DOMAIN result.rejections = {}
  <2>1. result.captures = <<>> /\ result.rejections = <<>> /\ DOMAIN <<>> = {}
    BY DEF Init
  <2> QED
    BY <2>1
<1>5. at = 1 /\ pc = "reset"
  BY DEF Init
<1>6. Told
  BY <1>5 DEF Told, Window
<1>7. Places
  BY <1>4, <1>5 DEF Places, Held, Over
<1>8. Recorded
  BY <1>4 DEF Recorded, Init
<1> QED
  BY <1>2, <1>3, <1>6, <1>7, <1>8

-----------------------------------------------------------------------------
(* The theorems *)

(* The invariant holds in the initial states. *)
LEMMA InitialStates ==
  Init => IInv
<1>1. Init => Fields /\ Contained /\ Dated /\ Unnoticed /\ Verified
  BY DEF Init, Fields, Contained, Alive, NoChild, Dated, OnlyOwnTelemetry,
     Unnoticed, Verified
<1> QED
  BY <1>1, RecordedInitially DEF IInv

(* The invariant holds whatever the application, the other fixture, the sink  *)
(* and whoever edits the files do.                                          *)
THEOREM InductiveInvariant ==
  Spec => []IInv
<1>1. ASSUME IInv, [Next]_vars
      PROVE  IInv'
  <2>1. Fields' /\ Contained' /\ Dated' /\ Unnoticed' /\ Verified'
    BY <1>1, FieldsStep, ContainedStep, DatedStep, UnnoticedStep, VerifiedStep
       DEF IInv
  <2>2. Kinds'
    BY <1>1, KindsStep DEF IInv
  <2>3. Retained' /\ Told' /\ Places' /\ Recorded'
    BY <1>1, RetainedStep, ToldStep, PlacesStep, RecordedStep DEF IInv
  <2> QED
    BY <2>1, <2>2, <2>3 DEF IInv
<1> QED
  BY InitialStates, <1>1, PTL DEF Spec

(* verifyOwnership before and after every request is enough: a capture is not *)
(* taken after an answer of a stranger who is still there when the port is    *)
(* next looked at, for any number of requests and of goroutines.             *)
THEOREM AnswersAreOwn ==
  Spec => []OwnAnswers
<1>1. IInv => OwnAnswers
  BY DEF IInv, Unnoticed, OwnAnswers
<1> QED
  BY InductiveInvariant, <1>1, PTL

(* collectOnce leaves no process behind on any path, so the telemetry of an   *)
(* earlier one is in a capture only if it was in flight at the reset.        *)
THEOREM TelemetryIsOwn ==
  Spec => []OnlyOwnTelemetry
<1>1. IInv => OnlyOwnTelemetry
  BY DEF IInv, Dated
<1> QED
  BY InductiveInvariant, <1>1, PTL

(* What verifyResult lets the comparison show follows from the retained files, *)
(* however often and in whatever way they were edited before.                 *)
THEOREM WhatIsShownIsImplied ==
  Spec => []ShownIsImplied
<1>1. ASSUME verifyResult, NEW e \in ToSet(suite)
      PROVE  LET status == result.observations[e]
                 control == files.captures[ControlOf(e)]
                 changed == files.captures[e]
             IN /\ status = "pass" =>
                     control.there /\ control.spans /\ changed.there /\ changed.effect
                /\ status = "gap" => control.spans /\ changed.there /\ ~changed.effect
                /\ status = "not_exercised" => control.there /\ ~control.spans
                /\ status \in {"startup_rejected", "workload_rejected"} =>
                     Rejections[e] = status /\ "known" \in files.logs[e]
                /\ status # NoObservation
  <2>1. Loads(ControlOf(e)) /\ Implied(e)
    BY <1>1 DEF verifyResult
  <2>2. CASE e \in DOMAIN result.rejections
    <3>1. /\ e \in DOMAIN Rejections /\ "known" \in files.logs[e]
          /\ result.observations[e] = Rejections[e]
      BY <2>1, <2>2 DEF Implied
    <3>2. Rejections[e] \in {"startup_rejected", "workload_rejected"}
      BY <3>1, ProbeAssumption
    <3> QED
      BY <3>1, <3>2 DEF NoObservation
  <2>3. CASE e \notin DOMAIN result.rejections
    BY <2>1, <2>3 DEF Implied, Loads, Evaluate, NoObservation
  <2> QED
    BY <2>2, <2>3
<1>2. IInv => ShownIsImplied
  BY <1>1 DEF IInv, Verified, ShownIsImplied
<1> QED
  BY InductiveInvariant, <1>2, PTL

(* The state is of the kinds TypeOK names: retryPortConflicts gives up after    *)
(* MaxTries attempts, and every status recorded is one the program knows.     *)
THEOREM TypesAreKept ==
  Spec => []TypeOK
<1>1. ASSUME IInv
      PROVE  TypeOK
  <2>1. Fields /\ Kinds /\ Retained /\ Places
    BY <1>1 DEF IInv
  <2>2. \A c \in Held : c \in ToSet(Collections)
    <3>1. at \in 1 .. Len(Collections) /\ Len(Collections) \in Nat
      BY <2>1, Here DEF Kinds
    <3>2. \A i \in 1 .. at : i \in 1 .. Len(Collections)
      BY <3>1
    <3> QED
      BY <2>1, <3>2, Here DEF Places, Kinds
  <2>3. child.state \in {"none", "starting", "listening", "exited", "reaped"}
    BY <2>1 DEF Fields
  <2>4. \A e \in ToSet(suite) : result.observations[e] \in Statuses \cup {NoObservation}
    BY <2>1 DEF Retained
  <2> QED
    BY <2>1, <2>2, <2>3, <2>4 DEF TypeOK, Kinds, Places, Held
<1> QED
  BY InductiveInvariant, <1>1, PTL

(* A rejection is recorded by collectExpected only after the exit or the        *)
(* refusal its diagnostic belongs to, with the log that shows it, for any       *)
(* interleaving of the application, the strangers and the retries.             *)
THEOREM RejectionsAreGenuine ==
  Spec => []RejectionIsGenuine
<1>1. ASSUME IInv
      PROVE  RejectionIsGenuine
  <2> SUFFICES ASSUME edits = 0, NEW e \in DOMAIN result.rejections
               PROVE  /\ "known" \in files.logs[e] /\ "in use" \notin files.logs[e]
                      /\ result.rejections[e] = files.logs[e]
                      /\ ended[e] \in
                           IF result.observations[e] = "startup_rejected"
                           THEN [how : {"startup exit"}, code : {1}]
                           ELSE [how : {"workload failure"}, code : 0 .. 2]
    BY DEF RejectionIsGenuine
  <2>1. Refused(e)
    BY <1>1 DEF IInv, Recorded
  <2> QED
    BY <2>1 DEF Refused
<1> QED
  BY InductiveInvariant, <1>1, PTL

(* verifyResult accepts what run has written: every collection is retained      *)
(* once, as captured or as rejected, none is missing and none is left over,     *)
(* for every list of experiments.                                            *)
THEOREM HonestRunIsShown ==
  Spec => []HonestIsShown
<1>1. IInv => HonestIsShown
  BY DEF IInv, Recorded, HonestIsShown
<1> QED
  BY InductiveInvariant, <1>1, PTL
=============================================================================
