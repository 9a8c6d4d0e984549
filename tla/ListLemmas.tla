------------------------------ MODULE ListLemmas ------------------------------
(***************************************************************************)
(* Facts about numbers and sequences that the proofs of several components *)
(* need, with the induction they rest on.  The induction theorems of the   *)
(* library take a predicate as parameter; WFMin takes a set, and from the  *)
(* least element of a set of numbers induction follows for any property    *)
(* that can be written as a set.                                           *)
(***************************************************************************)
EXTENDS Integers, SequencesExt, FiniteSetsExt, SequenceTheorems, WellFoundedInduction, TLAPS

LEMMA Induction ==
  ASSUME NEW S, 0 \in S, \A n \in Nat : n \in S => n + 1 \in S
  PROVE  Nat \subseteq S
<1> DEFINE T == Nat \ S
<1>1. SUFFICES ASSUME T # {} PROVE FALSE
  OBVIOUS
<1>2. PICK x \in T : \A y \in T : ~ (<<y, x>> \in OpToRel(<, Nat))
  BY <1>1, NatLessThanWellFounded, WFMin
<1>3. x \in Nat /\ x # 0 /\ x - 1 \in Nat
  OBVIOUS
<1>4. <<x - 1, x>> \in OpToRel(<, Nat)
  BY <1>3 DEF OpToRel
<1>5. x - 1 \in S
  BY <1>2, <1>3, <1>4
<1>6. (x - 1) + 1 \in S
  BY <1>3, <1>5
<1>7. (x - 1) + 1 = x
  BY <1>3
<1>8. x \notin S
  OBVIOUS
<1> QED
  BY <1>6, <1>7, <1>8

(* A set of numbers has a least one.                                       *)
LEMMA LeastExists ==
  ASSUME NEW S \in SUBSET Nat, S # {}
  PROVE  \E x \in S : \A y \in S : x <= y
<1> DEFINE T == {n \in Nat : \A y \in S : n <= y}
<1>1. SUFFICES ASSUME \A x \in S : \E y \in S : ~(x <= y) PROVE FALSE
  OBVIOUS
<1>2. 0 \in T
  OBVIOUS
<1>3. ASSUME NEW n \in Nat, n \in T PROVE n + 1 \in T
  <2>1. n \notin S
    BY <1>1, <1>3
  <2>2. \A y \in S : n <= y /\ n # y
    BY <1>3, <2>1
  <2> QED
    BY <2>2
<1> HIDE DEF T
<1>4. Nat \subseteq T
  BY <1>2, <1>3, Induction
<1>5. PICK y \in S : TRUE
  OBVIOUS
<1>6. y + 1 \in T
  BY <1>4
<1> QED
  BY <1>6 DEF T

LEMMA MinIs ==
  ASSUME NEW S \in SUBSET Nat, S # {}
  PROVE  Min(S) \in S /\ \A y \in S : Min(S) <= y
BY LeastExists DEF Min

(***************************************************************************)
(* FlattenSeq.  Its recursion has a solution, whose values are sequences.  *)
(***************************************************************************)
Flattens(f, s, m) ==
  f = [i \in 1 .. m |-> IF i = 1 THEN s[i] ELSE f[i - 1] \o s[i]]

LEMMA FlattenExists ==
  ASSUME NEW s, NEW n \in Nat
  PROVE  \E f : Flattens(f, s, n)
<1> DEFINE T == {m \in Nat : \E f : Flattens(f, s, m)}
<1>1. 0 \in T
  <2>1. Flattens([i \in 1 .. 0 |-> i], s, 0)
    BY DEF Flattens
  <2> QED
    BY <2>1
<1>2. ASSUME NEW m \in Nat, m \in T PROVE m + 1 \in T
  <2>1. PICK f : Flattens(f, s, m)
    BY <1>2
  <2> DEFINE g == [i \in 1 .. m + 1 |->
                     IF i # m + 1 THEN f[i]
                     ELSE IF i = 1 THEN s[i] ELSE f[i - 1] \o s[i]]
  <2>2. \A i \in 1 .. m + 1 : g[i] = IF i = 1 THEN s[i] ELSE g[i - 1] \o s[i]
    <3> TAKE i \in 1 .. m + 1
    <3>1. CASE i = m + 1
      BY <3>1
    <3>2. CASE i # m + 1
      <4>1. i \in 1 .. m /\ (i # 1 => i - 1 \in 1 .. m + 1 /\ i - 1 # m + 1)
        BY <3>2
      <4>2. f[i] = IF i = 1 THEN s[i] ELSE f[i - 1] \o s[i]
        BY <2>1, <4>1 DEF Flattens
      <4> QED
        BY <4>1, <4>2, <3>2
    <3> QED
      BY <3>1, <3>2
  <2>3. Flattens(g, s, m + 1)
    <3> HIDE DEF g
    <3>1. g = [i \in 1 .. m + 1 |-> g[i]]
      BY DEF g
    <3> QED
      BY <2>2, <3>1 DEF Flattens
  <2> QED
    BY <2>3
<1> HIDE DEF T
<1>3. n \in T
  BY <1>1, <1>2, Induction
<1> QED
  BY <1>3 DEF T

LEMMA FlattenType ==
  ASSUME NEW S, NEW n \in Nat \ {0}, NEW s \in [1 .. n -> Seq(S)]
  PROVE  FlattenSeq(s) \in Seq(S)
<1> DEFINE F == CHOOSE f : f = [i \in 1 .. n |-> IF i = 1 THEN s[i]
                                                 ELSE f[i - 1] \o s[i]]
<1>1. Len(s) = n
  OBVIOUS
<1>2. FlattenSeq(s) = F[n]
  BY <1>1 DEF FlattenSeq
<1>3. Flattens(F, s, n)
  BY FlattenExists DEF Flattens
<1> HIDE DEF F
<1> DEFINE T == {m \in Nat : m \in 1 .. n => F[m] \in Seq(S)}
<1>4. 0 \in T
  OBVIOUS
<1>5. ASSUME NEW m \in Nat, m \in T PROVE m + 1 \in T
  <2> SUFFICES ASSUME m + 1 \in 1 .. n PROVE F[m + 1] \in Seq(S)
    OBVIOUS
  <2>1. F[m + 1] = IF m + 1 = 1 THEN s[m + 1] ELSE F[(m + 1) - 1] \o s[m + 1]
    BY <1>3 DEF Flattens
  <2>2. s[m + 1] \in Seq(S)
    OBVIOUS
  <2>3. CASE m = 0
    BY <2>1, <2>2, <2>3
  <2>4. CASE m # 0
    <3>1. F[m] \in Seq(S) /\ (m + 1) - 1 = m
      BY <1>5, <2>4
    <3> QED
      BY <2>1, <2>2, <2>4, <3>1
  <2> QED
    BY <2>3, <2>4
<1> HIDE DEF T
<1>6. n \in T
  BY <1>4, <1>5, Induction
<1> QED
  BY <1>2, <1>6 DEF T

(***************************************************************************)
(* Sequences over a set.                                                   *)
(***************************************************************************)
LEMMA ConcatType ==
  ASSUME NEW S, NEW s \in Seq(S), NEW t \in Seq(S)
  PROVE  s \o t \in Seq(S)
OBVIOUS

LEMMA ConcatIs ==
  ASSUME NEW S, NEW s \in Seq(S), NEW t \in Seq(S)
  PROVE  /\ s \o t \in Seq(S) /\ Len(s \o t) = Len(s) + Len(t)
         /\ \A i \in 1 .. Len(s) : (s \o t)[i] = s[i]
         /\ \A i \in 1 .. Len(s) + Len(t) : i > Len(s) => (s \o t)[i] = t[i - Len(s)]
OBVIOUS

LEMMA SuffixIs ==
  ASSUME NEW S, NEW s \in Seq(S), NEW n \in 0 .. Len(s)
  PROVE  /\ SubSeq(s, n + 1, Len(s)) \in Seq(S)
         /\ Len(SubSeq(s, n + 1, Len(s))) = Len(s) - n
         /\ \A i \in 1 .. Len(s) - n : SubSeq(s, n + 1, Len(s))[i] = s[i + n]
OBVIOUS

LEMMA AppendType ==
  ASSUME NEW S, NEW s \in Seq(S), NEW x \in S
  PROVE  Append(s, x) \in Seq(S) /\ Len(Append(s, x)) = Len(s) + 1
OBVIOUS

LEMMA TailType ==
  ASSUME NEW S, NEW s \in Seq(S), s # <<>>
  PROVE  /\ Head(s) \in S /\ Tail(s) \in Seq(S)
         /\ Len(s) \in Nat \ {0} /\ Len(Tail(s)) = Len(s) - 1
OBVIOUS

LEMMA SubSeqType ==
  ASSUME NEW S, NEW s \in Seq(S), NEW m \in Nat \ {0}, NEW n \in 0 .. Len(s)
  PROVE  SubSeq(s, m, n) \in Seq(S)
OBVIOUS

LEMMA ConsTuple ==
  ASSUME NEW a, NEW b, NEW c, NEW d
  PROVE  <<a>> \o <<b, c, d>> = <<a, b, c, d>>
<1> DEFINE S == {a, b, c, d}
<1>1. <<a>> \in Seq(S) /\ <<b, c, d>> \in Seq(S) /\ <<a, b, c, d>> \in Seq(S)
  OBVIOUS
<1>2. <<a>> \o <<b, c, d>> \in Seq(S)
  BY <1>1
<1>3. Len(<<a>> \o <<b, c, d>>) = 4
  OBVIOUS
<1>4. \A i \in 1 .. 4 : (<<a>> \o <<b, c, d>>)[i] = <<a, b, c, d>>[i]
  OBVIOUS
<1> QED
  BY <1>1, <1>2, <1>3, <1>4, SeqEqual

LEMMA TupleType ==
  ASSUME NEW S, NEW a \in S, NEW b \in S, NEW c \in S
  PROVE  <<a>> \in Seq(S) /\ <<a, b>> \in Seq(S) /\ <<a, b, c>> \in Seq(S)
OBVIOUS

LEMMA TuplesType ==
  ASSUME NEW S, NEW a \in S, NEW b \in S, NEW c \in S, NEW d \in S, NEW e \in S
  PROVE  <<a, b, c, d>> \in Seq(S) /\ <<a, b, c, d, e>> \in Seq(S)
OBVIOUS

LEMMA LongTupleType ==
  ASSUME NEW S, NEW a \in S, NEW b \in S, NEW c \in S, NEW d \in S, NEW e \in S
  PROVE  <<a, b, c, d, e, b, c, d>> \in Seq(S)
OBVIOUS

(***************************************************************************)
(* The greatest element of a bounded set of numbers.                       *)
(***************************************************************************)
LEMMA MaxIs ==
  ASSUME NEW S \in SUBSET Nat, S # {}, NEW n \in Nat, \A x \in S : x <= n
  PROVE  Max(S) \in S /\ \A y \in S : Max(S) >= y
<1> DEFINE T == {n - x : x \in S}
<1>1. T \in SUBSET Nat /\ T # {}
  <2>1. \A x \in S : n - x \in Nat
    OBVIOUS
  <2>2. PICK x \in S : TRUE
    OBVIOUS
  <2> QED
    BY <2>1, <2>2
<1>2. PICK d \in T : \A y \in T : d <= y
  BY <1>1, LeastExists
<1>3. PICK m \in S : d = n - m
  BY <1>2
<1>4. \A y \in S : m >= y
  <2> TAKE y \in S
  <2>1. n - y \in T
    OBVIOUS
  <2>2. d <= n - y
    BY <1>2, <2>1
  <2>3. y \in Nat /\ m \in Nat
    OBVIOUS
  <2> HIDE DEF T
  <2> QED
    BY <1>3, <2>2, <2>3
<1> QED
  BY <1>3, <1>4 DEF Max

(***************************************************************************)
(* Lists: sequences in which nothing occurs twice.                         *)
(***************************************************************************)
Once(list) == \A i, j \in 1 .. Len(list) : list[i] = list[j] => i = j

LEMMA AppendIs ==
  ASSUME NEW S, NEW s \in Seq(S), NEW t \in S, Once(s), ~Contains(s, t)
  PROVE  /\ Append(s, t) \in Seq(S) /\ Once(Append(s, t))
         /\ \A u : Contains(Append(s, t), u) <=> Contains(s, u) \/ u = t
<1> DEFINE r == Append(s, t)
<1>1. /\ r \in Seq(S) /\ Len(r) = Len(s) + 1 /\ r[Len(s) + 1] = t
      /\ \A i \in 1 .. Len(s) : r[i] = s[i]
  OBVIOUS
<1> HIDE DEF r
<1>2. \A i \in 1 .. Len(r) : i \in 1 .. Len(s) \/ i = Len(s) + 1
  BY <1>1
<1>3. \A i \in 1 .. Len(s) : i \in 1 .. Len(r) /\ s[i] # t
  BY <1>1 DEF Contains
<1>4. Once(r)
  BY <1>1, <1>2, <1>3 DEF Once
<1>5. \A u : Contains(r, u) <=> Contains(s, u) \/ u = t
  BY <1>1, <1>2, <1>3 DEF Contains
<1> QED
  BY <1>1, <1>4, <1>5 DEF r

LEMMA TailIs ==
  ASSUME NEW S, NEW s \in Seq(S), Once(s), s # <<>>
  PROVE  /\ Head(s) \in S /\ Contains(s, Head(s)) /\ Tail(s) \in Seq(S) /\ Once(Tail(s))
         /\ \A u : Contains(Tail(s), u) <=> Contains(s, u) /\ u # Head(s)
<1> DEFINE r == Tail(s)
<1>1. /\ Head(s) \in S /\ Head(s) = s[1] /\ r \in Seq(S) /\ Len(s) \in Nat \ {0}
      /\ Len(r) = Len(s) - 1 /\ \A i \in 1 .. Len(r) : r[i] = s[i + 1]
  OBVIOUS
<1> HIDE DEF r
<1>2. \A i \in 1 .. Len(r) : i + 1 \in 1 .. Len(s) /\ i + 1 # 1
  BY <1>1
<1>3. \A i \in 1 .. Len(s) : i = 1 \/ (i - 1 \in 1 .. Len(r) /\ (i - 1) + 1 = i)
  BY <1>1
<1>4. 1 \in 1 .. Len(s)
  BY <1>1
<1>5. Once(r)
  <2> SUFFICES ASSUME NEW i \in 1 .. Len(r), NEW j \in 1 .. Len(r), r[i] = r[j] PROVE i = j
    BY DEF Once
  <2>1. s[i + 1] = s[j + 1]
    BY <1>1
  <2>2. i + 1 = j + 1
    BY <1>2, <2>1 DEF Once
  <2> QED
    BY <1>1, <2>2
<1>6. \A u : Contains(r, u) => Contains(s, u) /\ u # Head(s)
  BY <1>1, <1>2, <1>4 DEF Contains, Once
<1>7. ASSUME NEW u, Contains(s, u), u # Head(s) PROVE Contains(r, u)
  <2>1. PICK i \in 1 .. Len(s) : s[i] = u
    BY <1>7 DEF Contains
  <2>2. i # 1
    BY <1>1, <1>7, <2>1
  <2>3. i - 1 \in 1 .. Len(r) /\ r[i - 1] = u
    BY <1>1, <1>3, <2>1, <2>2
  <2> QED
    BY <2>3 DEF Contains
<1> QED
  BY <1>1, <1>4, <1>5, <1>6, <1>7 DEF r, Contains

LEMMA RotateIs ==
  ASSUME NEW S, NEW s \in Seq(S), Once(s), s # <<>>
  PROVE  LET r == Append(Tail(s), Head(s))
         IN  /\ r \in Seq(S) /\ Once(r)
             /\ \A u : Contains(r, u) <=> Contains(s, u)
<1> DEFINE tl == Tail(s)
           h == Head(s)
<1>1. /\ h \in S /\ Contains(s, h) /\ tl \in Seq(S) /\ Once(tl)
      /\ \A u : Contains(tl, u) <=> Contains(s, u) /\ u # h
  BY TailIs
<1> HIDE DEF tl, h
<1>2. ~Contains(tl, h)
  BY <1>1
<1>3. /\ Append(tl, h) \in Seq(S) /\ Once(Append(tl, h))
      /\ \A u : Contains(Append(tl, h), u) <=> Contains(tl, u) \/ u = h
  BY <1>1, <1>2, AppendIs
<1>4. \A u : Contains(Append(tl, h), u) <=> Contains(s, u)
  BY <1>1, <1>3
<1> QED
  BY <1>3, <1>4 DEF tl, h

(* The entry at place m is taken out.                                      *)
LEMMA RemoveAtIs ==
  ASSUME NEW S, NEW s \in Seq(S), Once(s), NEW m \in 1 .. Len(s)
  PROVE  /\ RemoveAt(s, m) \in Seq(S) /\ Once(RemoveAt(s, m))
         /\ \A u : Contains(RemoveAt(s, m), u) <=> Contains(s, u) /\ u # s[m]
<1> DEFINE r == RemoveAt(s, m)
<1>1. /\ r \in Seq(S) /\ Len(r) = Len(s) - 1 /\ Len(s) \in Nat \ {0}
      /\ \A i \in 1 .. Len(r) : r[i] = IF i < m THEN s[i] ELSE s[i + 1]
  <2> DEFINE a == SubSeq(s, 1, m - 1)
             b == SubSeq(s, m + 1, Len(s))
  <2> Len(s) \in Nat
    OBVIOUS
  <2>1. /\ a \in Seq(S) /\ Len(a) = m - 1
        /\ \A i \in 1 .. m - 1 : a[i] = s[i]
    <3>1. m - 1 \in 0 .. Len(s) /\ Len(s) \in Nat
      OBVIOUS
    <3> QED
      BY <3>1
  <2>2. /\ b \in Seq(S) /\ Len(b) = Len(s) - m
        /\ \A i \in 1 .. Len(s) - m : b[i] = s[i + m]
    OBVIOUS
  <2>3. r = a \o b
    BY DEF RemoveAt
  <2> HIDE DEF a, b, r
  <2>4. r \in Seq(S) /\ Len(r) = Len(a) + Len(b)
    BY <2>1, <2>2, <2>3, ConcatIs
  <2>5. ASSUME NEW i \in 1 .. Len(r) PROVE r[i] = IF i < m THEN s[i] ELSE s[i + 1]
    <3>1. CASE i < m
      BY <2>1, <2>2, <2>3, <2>4, <3>1
    <3>2. CASE i >= m
      <4>1. r[i] = b[i - Len(a)]
        BY <2>1, <2>2, <2>3, <2>4, <3>2
      <4>2. i - Len(a) \in 1 .. Len(s) - m /\ (i - Len(a)) + m = i + 1
        BY <2>1, <2>2, <2>4, <3>2
      <4>3. b[i - Len(a)] = s[(i - Len(a)) + m]
        BY <2>2, <4>2
      <4>4. ~(i < m)
        BY <2>4, <3>2
      <4> QED
        BY <4>1, <4>2, <4>3, <4>4
    <3> QED
      BY <3>1, <3>2
  <2> QED
    BY <2>1, <2>2, <2>4, <2>5
<1> HIDE DEF r
<1> DEFINE At(i) == IF i < m THEN i ELSE i + 1
<1>2. \A i \in 1 .. Len(r) : At(i) \in 1 .. Len(s) /\ At(i) # m
  BY <1>1
<1>3. \A i \in 1 .. Len(r), j \in 1 .. Len(r) : At(i) = At(j) => i = j
  BY <1>1
<1>4. \A j \in 1 .. Len(s) : j # m => \E i \in 1 .. Len(r) : At(i) = j
  <2> TAKE j \in 1 .. Len(s)
  <2>1. CASE j < m
    <3>1. j \in 1 .. Len(r) /\ At(j) = j
      BY <1>1, <2>1
    <3> QED
      BY <3>1
  <2>2. CASE j > m
    <3>1. j - 1 \in 1 .. Len(r) /\ At(j - 1) = j
      BY <1>1, <2>2
    <3> QED
      BY <3>1
  <2> QED
    BY <2>1, <2>2
<1>5. \A i \in 1 .. Len(r) : r[i] = s[At(i)]
  BY <1>1
<1> HIDE DEF At
<1>6. Once(r)
  BY <1>2, <1>3, <1>5 DEF Once
<1>7. \A u : Contains(r, u) => Contains(s, u) /\ u # s[m]
  BY <1>2, <1>5 DEF Contains, Once
<1>8. \A u : Contains(s, u) /\ u # s[m] => Contains(r, u)
  BY <1>4, <1>5 DEF Contains
<1> QED
  BY <1>1, <1>6, <1>7, <1>8 DEF r

LEMMA RemoveIs ==
  ASSUME NEW S, NEW s \in Seq(S), Once(s), NEW t
  PROVE  /\ RemoveFirst(s, t) \in Seq(S) /\ Once(RemoveFirst(s, t))
         /\ \A u : Contains(RemoveFirst(s, t), u) <=> Contains(s, u) /\ u # t
<1>1. CASE ~Contains(s, t)
  <2>1. RemoveFirst(s, t) = s
    BY <1>1 DEF Contains, RemoveFirst
  <2> QED
    BY <1>1, <2>1
<1>2. CASE Contains(s, t)
  <2> DEFINE I == {i \in 1 .. Len(s) : s[i] = t}
             m == Min(I)
  <2>1. I \in SUBSET Nat /\ I # {}
    BY <1>2 DEF Contains
  <2>2. RemoveFirst(s, t) = RemoveAt(s, m)
    BY <1>2, <2>1 DEF Contains, RemoveFirst, SelectInSeq
  <2> HIDE DEF m
  <2>3. m \in I
    <3> HIDE DEF I
    <3> QED
      BY <2>1, MinIs DEF m
  <2>4. m \in 1 .. Len(s) /\ s[m] = t
    BY <2>3
  <2> HIDE DEF I
  <2> QED
    BY <2>2, <2>4, RemoveAtIs
<1> QED
  BY <1>1, <1>2

(* The first entry of a list is taken out.                                 *)
LEMMA RemoveHead ==
  ASSUME NEW S, NEW s \in Seq(S), s # <<>>
  PROVE  RemoveFirst(s, Head(s)) = Tail(s)
<1> DEFINE I == {i \in 1 .. Len(s) : s[i] = Head(s)}
           m == Min(I)
<1>1. Len(s) \in Nat \ {0} /\ 1 \in I /\ I \in SUBSET Nat /\ \A y \in I : 1 <= y
  OBVIOUS
<1>2. RemoveFirst(s, Head(s)) = RemoveAt(s, m)
  BY <1>1 DEF RemoveFirst, SelectInSeq
<1>3. m = 1
  <2> HIDE DEF I
  <2>1. m \in I /\ \A y \in I : m <= y
    BY <1>1, MinIs
  <2>2. m \in Nat /\ m <= 1 /\ 1 <= m
    BY <1>1, <2>1
  <2> HIDE DEF m
  <2> QED
    BY <2>2
<1> HIDE DEF m
<1>4. RemoveAt(s, 1) = SubSeq(s, 1, 0) \o SubSeq(s, 2, Len(s))
  BY DEF RemoveAt
<1>5. SubSeq(s, 1, 0) \in Seq(S) /\ Len(SubSeq(s, 1, 0)) = 0
  BY <1>1
<1>6. /\ SubSeq(s, 2, Len(s)) \in Seq(S) /\ Len(SubSeq(s, 2, Len(s))) = Len(s) - 1
      /\ \A i \in 1 .. Len(s) - 1 : SubSeq(s, 2, Len(s))[i] = s[i + 1]
  <2>1. Len(s) \in Nat \ {0} /\ 1 \in 0 .. Len(s) /\ 1 + 1 = 2
    BY <1>1
  <2> HIDE DEF I, m
  <2>2. /\ SubSeq(s, 1 + 1, Len(s)) \in Seq(S) /\ Len(SubSeq(s, 1 + 1, Len(s))) = Len(s) - 1
        /\ \A i \in 1 .. Len(s) - 1 : SubSeq(s, 1 + 1, Len(s))[i] = s[i + 1]
    BY <2>1, SuffixIs
  <2> QED
    BY <2>1, <2>2
<1> DEFINE a == SubSeq(s, 1, 0)
           b == SubSeq(s, 2, Len(s))
<1> HIDE DEF a, b
<1>7. a \o b \in Seq(S) /\ Len(a \o b) = Len(s) - 1 /\ \A i \in 1 .. Len(s) - 1 : (a \o b)[i] = b[i]
  BY <1>1, <1>5, <1>6 DEF a, b
<1>8. Tail(s) \in Seq(S) /\ Len(Tail(s)) = Len(s) - 1 /\ \A i \in 1 .. Len(s) - 1 : Tail(s)[i] = s[i + 1]
  BY <1>1
<1>9. a \o b = Tail(s)
  BY <1>6, <1>7, <1>8, SeqEqual DEF b
<1> QED
  BY <1>2, <1>3, <1>4, <1>9 DEF a, b

(* An entry is put in behind the first n.                                  *)
LEMMA InsertIs ==
  ASSUME NEW S, NEW s \in Seq(S), Once(s), NEW t \in S, ~Contains(s, t), NEW n \in 0 .. Len(s)
  PROVE  LET r == SubSeq(s, 1, n) \o <<t>> \o SubSeq(s, n + 1, Len(s))
         IN  /\ r \in Seq(S) /\ Once(r)
             /\ \A u : Contains(r, u) <=> Contains(s, u) \/ u = t
<1> DEFINE r == SubSeq(s, 1, n) \o <<t>> \o SubSeq(s, n + 1, Len(s))
<1>1. /\ r \in Seq(S) /\ Len(r) = Len(s) + 1
      /\ \A i \in 1 .. Len(r) : r[i] = IF i <= n THEN s[i] ELSE IF i = n + 1 THEN t ELSE s[i - 1]
  <2> DEFINE a == SubSeq(s, 1, n)
             b == SubSeq(s, n + 1, Len(s))
             c == <<t>>
             d == a \o c
  <2>1. a \in Seq(S) /\ Len(a) = n /\ \A i \in 1 .. n : a[i] = s[i]
    OBVIOUS
  <2>2. /\ b \in Seq(S) /\ Len(b) = Len(s) - n
        /\ \A i \in 1 .. Len(s) - n : b[i] = s[i + n]
    OBVIOUS
  <2>3. c \in Seq(S) /\ Len(c) = 1 /\ c[1] = t
    OBVIOUS
  <2>4. r = d \o b
    OBVIOUS
  <2> HIDE DEF a, b, c, r
  <2>5. d \in Seq(S) /\ Len(d) = n + 1
    <3>1. n \in Nat
      OBVIOUS
    <3>2. a \o c \in Seq(S) /\ Len(a \o c) = Len(a) + Len(c)
      BY <2>1, <2>3, ConcatIs
    <3> QED
      BY <2>1, <2>3, <3>1, <3>2
  <2>6. \A i \in 1 .. n + 1 : d[i] = IF i <= n THEN s[i] ELSE t
    BY <2>1, <2>3, <2>5
  <2> HIDE DEF d
  <2>7. r \in Seq(S) /\ Len(r) = Len(s) + 1
    <3>1. d \o b \in Seq(S) /\ Len(d \o b) = Len(d) + Len(b)
      BY <2>2, <2>5, ConcatIs
    <3>2. Len(s) \in Nat
      OBVIOUS
    <3> QED
      BY <2>2, <2>4, <2>5, <3>1, <3>2
  <2>8. ASSUME NEW i \in 1 .. Len(r)
        PROVE  r[i] = IF i <= n THEN s[i] ELSE IF i = n + 1 THEN t ELSE s[i - 1]
    <3>1. CASE i <= n + 1
      <4>1. r[i] = d[i]
        BY <2>2, <2>4, <2>5, <2>7, <3>1
      <4> QED
        BY <2>6, <3>1, <4>1
    <3>2. CASE i > n + 1
      <4>1. r[i] = b[i - Len(d)]
        BY <2>2, <2>4, <2>5, <2>7, <3>2
      <4>2. i - Len(d) \in 1 .. Len(s) - n /\ (i - Len(d)) + n = i - 1
        BY <2>5, <2>7, <3>2
      <4>3. b[i - Len(d)] = s[(i - Len(d)) + n]
        BY <2>2, <4>2
      <4>4. ~(i <= n) /\ i # n + 1
        BY <2>7, <3>2
      <4> QED
        BY <4>1, <4>2, <4>3, <4>4
    <3> QED
      BY <3>1, <3>2
  <2> QED
    BY <2>7, <2>8
<1> HIDE DEF r
<1> DEFINE At(i) == IF i <= n THEN i ELSE i - 1
<1>2. \A i \in 1 .. Len(r) : i = n + 1 \/ (At(i) \in 1 .. Len(s) /\ r[i] = s[At(i)])
  BY <1>1
<1>3. n + 1 \in 1 .. Len(r) /\ r[n + 1] = t
  BY <1>1
<1>4. \A i \in 1 .. Len(r), j \in 1 .. Len(r) : i # n + 1 /\ j # n + 1 /\ At(i) = At(j) => i = j
  BY <1>1
<1>5. \A j \in 1 .. Len(s) : \E i \in 1 .. Len(r) : i # n + 1 /\ At(i) = j
  <2> TAKE j \in 1 .. Len(s)
  <2>1. CASE j <= n
    <3>1. j \in 1 .. Len(r) /\ At(j) = j /\ j # n + 1
      BY <1>1, <2>1
    <3> QED
      BY <3>1
  <2>2. CASE j > n
    <3>1. j + 1 \in 1 .. Len(r) /\ At(j + 1) = j /\ j + 1 # n + 1
      BY <1>1, <2>2
    <3> QED
      BY <3>1
  <2> QED
    BY <2>1, <2>2
<1> HIDE DEF At
<1>6. \A i \in 1 .. Len(s) : s[i] # t
  BY DEF Contains
<1>7. Once(r)
  <2> SUFFICES ASSUME NEW i \in 1 .. Len(r), NEW j \in 1 .. Len(r), r[i] = r[j] PROVE i = j
    BY DEF Once
  <2>1. CASE i = n + 1 \/ j = n + 1
    BY <1>2, <1>3, <1>6, <2>1
  <2>2. CASE i # n + 1 /\ j # n + 1
    <3>1. At(i) = At(j)
      BY <1>2, <2>2 DEF Once
    <3> QED
      BY <1>4, <2>2, <3>1
  <2> QED
    BY <2>1, <2>2
<1>8. \A u : Contains(r, u) => Contains(s, u) \/ u = t
  BY <1>2, <1>3 DEF Contains
<1>9. \A u : Contains(s, u) \/ u = t => Contains(r, u)
  <2> SUFFICES ASSUME NEW u, Contains(s, u) PROVE Contains(r, u)
    BY <1>3 DEF Contains
  <2>1. PICK j \in 1 .. Len(s) : s[j] = u
    BY DEF Contains
  <2>2. PICK i \in 1 .. Len(r) : i # n + 1 /\ At(i) = j
    BY <1>5
  <2>3. r[i] = u
    BY <1>2, <2>1, <2>2
  <2> QED
    BY <2>3 DEF Contains
<1> QED
  BY <1>1, <1>7, <1>8, <1>9 DEF r

(* The places of a list.                                                   *)
LEMMA MaxOfPlaces ==
  ASSUME NEW m \in Nat, NEW w \in SUBSET (1 .. m), w # {}
  PROVE  Max(w) \in w /\ \A x \in w : Max(w) >= x
<1>1. w \in SUBSET Nat /\ \A x \in w : x <= m
  OBVIOUS
<1> QED
  BY <1>1, MaxIs

(* The initial segments.                                                   *)
LEMMA InitialSegment ==
  ASSUME NEW m \in Nat
  PROVE  Max(1 .. m + 1) = m + 1 /\ (1 .. m + 1) \ {m + 1} = 1 .. m
<1>1. 1 .. m + 1 \in SUBSET (1 .. m + 1) /\ 1 .. m + 1 # {} /\ m + 1 \in 1 .. m + 1 /\ m + 1 \in Nat
  OBVIOUS
<1>2. Max(1 .. m + 1) \in 1 .. m + 1 /\ \A x \in 1 .. m + 1 : Max(1 .. m + 1) >= x
  BY <1>1, MaxOfPlaces
<1>3. Max(1 .. m + 1) >= m + 1
  BY <1>1, <1>2
<1>4. Max(1 .. m + 1) = m + 1
  <2> DEFINE x == Max(1 .. m + 1)
  <2> HIDE DEF x
  <2>1. x \in 1 .. m + 1 /\ x >= m + 1
    BY <1>2, <1>3 DEF x
  <2>2. x = m + 1
    BY <2>1
  <2> QED
    BY <2>2 DEF x
<1> QED
  BY <1>4

(***************************************************************************)
(* Concatenation.                                                          *)
(***************************************************************************)
LEMMA ConcatAssoc ==
  ASSUME NEW S, NEW a \in Seq(S), NEW b \in Seq(S), NEW c \in Seq(S)
  PROVE  (a \o b) \o c = a \o (b \o c)
<1> DEFINE u == a \o b
           w == b \o c
           l == u \o c
           r == a \o w
<1>1. u \in Seq(S) /\ Len(u) = Len(a) + Len(b) /\ w \in Seq(S) /\ Len(w) = Len(b) + Len(c)
  BY ConcatIs
<1>2. l \in Seq(S) /\ r \in Seq(S) /\ Len(l) = Len(r) /\ Len(l) = Len(a) + Len(b) + Len(c)
  BY <1>1, ConcatIs
<1>3. ASSUME NEW i \in 1 .. Len(l) PROVE l[i] = r[i]
  <2>0. Len(a) \in Nat /\ Len(b) \in Nat /\ Len(c) \in Nat /\ i \in Nat
    OBVIOUS
  <2>1. CASE i <= Len(a)
    <3>1. l[i] = u[i] /\ u[i] = a[i] /\ r[i] = a[i]
      BY <1>1, <1>2, <2>0, <2>1
    <3> QED
      BY <3>1
  <2>2. CASE i > Len(a) /\ i <= Len(a) + Len(b)
    <3>1. l[i] = u[i] /\ u[i] = b[i - Len(a)]
      BY <1>1, <1>2, <2>0, <2>2
    <3>2. r[i] = w[i - Len(a)] /\ w[i - Len(a)] = b[i - Len(a)]
      BY <1>1, <1>2, <2>0, <2>2
    <3> QED
      BY <3>1, <3>2
  <2>3. CASE i > Len(a) + Len(b)
    <3>1. l[i] = c[i - Len(u)] /\ i - Len(u) = i - Len(a) - Len(b)
      BY <1>1, <1>2, <2>0, <2>3
    <3>2. r[i] = w[i - Len(a)] /\ w[i - Len(a)] = c[(i - Len(a)) - Len(b)]
      BY <1>1, <1>2, <2>0, <2>3
    <3> QED
      BY <3>1, <3>2, <2>0
  <2> QED
    BY <2>0, <2>1, <2>2, <2>3
<1> HIDE DEF l, r
<1>4. l = r
  BY <1>2, <1>3, SeqEqual
<1> QED
  BY <1>4 DEF l, r

(* Three sequences of numbers that are put together, and four that another  *)
(* is put behind.                                                           *)
AreLists(a, b, c) == a \in Seq(Nat) /\ b \in Seq(Nat) /\ c \in Seq(Nat)

LEMMA ListsConcat ==
  ASSUME NEW a, NEW b, NEW c, AreLists(a, b, c)
  PROVE  a \o b \in Seq(Nat) /\ (a \o b) \o c = a \o (b \o c)
<1>1. a \o b \in Seq(Nat)
  BY ConcatType DEF AreLists
<1>2. (a \o b) \o c = a \o (b \o c)
  BY ConcatAssoc DEF AreLists
<1> QED
  BY <1>1, <1>2

LEMMA ConcatDeep ==
  ASSUME NEW p, NEW h, NEW r, NEW w, NEW f, AreLists(p, h, r), AreLists(r, w, f)
  PROVE  (p \o (h \o (r \o w))) \o f = p \o (h \o (r \o (w \o f)))
<1> DEFINE x == r \o w
           y == h \o x
<1>1. x \in Seq(Nat) /\ x \o f = r \o (w \o f)
  BY ListsConcat
<1> HIDE DEF x
<1>2. AreLists(h, x, f)
  BY <1>1 DEF AreLists
<1>3. y \in Seq(Nat) /\ y \o f = h \o (x \o f)
  BY <1>2, ListsConcat
<1> HIDE DEF y
<1>4. AreLists(p, y, f)
  BY <1>3 DEF AreLists
<1>5. (p \o y) \o f = p \o (y \o f)
  BY <1>4, ListsConcat
<1>6. (p \o y) \o f = p \o (h \o (r \o (w \o f)))
  BY <1>1, <1>3, <1>5
<1> QED
  BY <1>6 DEF x, y

LEMMA ConcatEmpty ==
  ASSUME NEW S, NEW a \in Seq(S)
  PROVE  a \o <<>> = a /\ <<>> \o a = a
OBVIOUS

LEMMA ConcatCancel ==
  ASSUME NEW S, NEW a \in Seq(S), NEW b \in Seq(S), NEW c \in Seq(S), NEW d \in Seq(S),
         a \o b = c \o d, Len(a) = Len(c)
  PROVE  a = c /\ b = d
<1> DEFINE l == a \o b
           r == c \o d
<1>1. /\ l \in Seq(S) /\ Len(l) = Len(a) + Len(b) /\ r \in Seq(S) /\ Len(r) = Len(c) + Len(d)
      /\ \A i \in 1 .. Len(a) : l[i] = a[i]
      /\ \A i \in 1 .. Len(c) : r[i] = c[i]
      /\ \A i \in 1 .. Len(a) + Len(b) : i > Len(a) => l[i] = b[i - Len(a)]
      /\ \A i \in 1 .. Len(c) + Len(d) : i > Len(c) => r[i] = d[i - Len(c)]
  BY ConcatIs
<1>2. l = r
  OBVIOUS
<1> HIDE DEF l, r
<1>3. Len(b) = Len(d) /\ Len(a) \in Nat /\ Len(b) \in Nat
  BY <1>1, <1>2
<1>4. a = c
  <2>1. \A i \in 1 .. Len(a) : a[i] = c[i]
    BY <1>1, <1>2
  <2> QED
    BY <2>1, SeqEqual
<1>5. b = d
  <2>1. ASSUME NEW i \in 1 .. Len(b) PROVE b[i] = d[i]
    <3>1. i + Len(a) \in 1 .. Len(a) + Len(b) /\ i + Len(a) > Len(a) /\ (i + Len(a)) - Len(a) = i
      BY <1>3
    <3>2. l[i + Len(a)] = b[i] /\ r[i + Len(a)] = d[i]
      BY <1>1, <1>3, <3>1
    <3> QED
      BY <1>2, <3>2
  <2> QED
    BY <1>3, <2>1, SeqEqual
<1> QED
  BY <1>4, <1>5

LEMMA RemoveAtCells ==
  ASSUME NEW S, NEW s \in Seq(S), NEW m \in 1 .. Len(s)
  PROVE  LET r == RemoveAt(s, m)
         IN  /\ r \in Seq(S) /\ Len(r) = Len(s) - 1
             /\ \A i \in 1 .. Len(r) : r[i] = IF i < m THEN s[i] ELSE s[i + 1]
<1> DEFINE r == RemoveAt(s, m)
           a == SubSeq(s, 1, m - 1)
           b == SubSeq(s, m + 1, Len(s))
<1> Len(s) \in Nat
  OBVIOUS
<1>1. /\ a \in Seq(S) /\ Len(a) = m - 1
      /\ \A i \in 1 .. m - 1 : a[i] = s[i]
  <2>1. m - 1 \in 0 .. Len(s) /\ Len(s) \in Nat
    OBVIOUS
  <2> QED
    BY <2>1
<1>2. /\ b \in Seq(S) /\ Len(b) = Len(s) - m
      /\ \A i \in 1 .. Len(s) - m : b[i] = s[i + m]
  OBVIOUS
<1>3. r = a \o b
  BY DEF RemoveAt
<1> HIDE DEF a, b, r
<1>4. r \in Seq(S) /\ Len(r) = Len(a) + Len(b)
  BY <1>1, <1>2, <1>3, ConcatIs
<1>5. ASSUME NEW i \in 1 .. Len(r) PROVE r[i] = IF i < m THEN s[i] ELSE s[i + 1]
  <2>1. CASE i < m
    BY <1>1, <1>2, <1>3, <1>4, <2>1
  <2>2. CASE i >= m
    <3>1. r[i] = b[i - Len(a)]
      BY <1>1, <1>2, <1>3, <1>4, <2>2
    <3>2. i - Len(a) \in 1 .. Len(s) - m /\ (i - Len(a)) + m = i + 1
      BY <1>1, <1>2, <1>4, <2>2
    <3>3. b[i - Len(a)] = s[(i - Len(a)) + m]
      BY <1>2, <3>2
    <3>4. ~(i < m)
      BY <1>4, <2>2
    <3> QED
      BY <3>1, <3>2, <3>3, <3>4
  <2> QED
    BY <2>1, <2>2
<1> QED
  BY <1>1, <1>2, <1>4, <1>5 DEF r

(* The list s with t put in behind the first n entries.                    *)
Spliced(s, t, n) == SubSeq(s, 1, n) \o <<t>> \o SubSeq(s, n + 1, Len(s))

LEMMA InsertCells ==
  ASSUME NEW S, NEW s \in Seq(S), NEW t \in S, NEW n \in 0 .. Len(s)
  PROVE  /\ Spliced(s, t, n) \in Seq(S) /\ Len(Spliced(s, t, n)) = Len(s) + 1
         /\ \A i \in 1 .. Len(s) + 1 :
              Spliced(s, t, n)[i] = IF i <= n THEN s[i] ELSE IF i = n + 1 THEN t ELSE s[i - 1]
<1> DEFINE r == Spliced(s, t, n)
           a == SubSeq(s, 1, n)
           b == SubSeq(s, n + 1, Len(s))
           c == <<t>>
           d == a \o c
<1>1. a \in Seq(S) /\ Len(a) = n /\ \A i \in 1 .. n : a[i] = s[i]
  OBVIOUS
<1>2. /\ b \in Seq(S) /\ Len(b) = Len(s) - n
      /\ \A i \in 1 .. Len(s) - n : b[i] = s[i + n]
  OBVIOUS
<1>3. c \in Seq(S) /\ Len(c) = 1 /\ c[1] = t
  OBVIOUS
<1>4. r = d \o b
  BY DEF Spliced
<1> HIDE DEF a, b, c, r
<1>5. d \in Seq(S) /\ Len(d) = n + 1
  <2>1. n \in Nat
    OBVIOUS
  <2>2. a \o c \in Seq(S) /\ Len(a \o c) = Len(a) + Len(c)
    BY <1>1, <1>3, ConcatIs
  <2> QED
    BY <1>1, <1>3, <2>1, <2>2
<1>6. \A i \in 1 .. n + 1 : d[i] = IF i <= n THEN s[i] ELSE t
  BY <1>1, <1>3, <1>5
<1> HIDE DEF d
<1>7. r \in Seq(S) /\ Len(r) = Len(s) + 1
  <2>1. d \o b \in Seq(S) /\ Len(d \o b) = Len(d) + Len(b)
    BY <1>2, <1>5, ConcatIs
  <2>2. Len(s) \in Nat
    OBVIOUS
  <2> QED
    BY <1>2, <1>4, <1>5, <2>1, <2>2
<1>8. ASSUME NEW i \in 1 .. Len(r)
      PROVE  r[i] = IF i <= n THEN s[i] ELSE IF i = n + 1 THEN t ELSE s[i - 1]
  <2>1. CASE i <= n + 1
    <3>1. r[i] = d[i]
      BY <1>2, <1>4, <1>5, <1>7, <2>1
    <3> QED
      BY <1>6, <2>1, <3>1
  <2>2. CASE i > n + 1
    <3>1. r[i] = b[i - Len(d)]
      BY <1>2, <1>4, <1>5, <1>7, <2>2
    <3>2. i - Len(d) \in 1 .. Len(s) - n /\ (i - Len(d)) + n = i - 1
      BY <1>5, <1>7, <2>2
    <3>3. b[i - Len(d)] = s[(i - Len(d)) + n]
      BY <1>2, <3>2
    <3>4. ~(i <= n) /\ i # n + 1
      BY <1>7, <2>2
    <3> QED
      BY <3>1, <3>2, <3>3, <3>4
  <2> QED
    BY <2>1, <2>2
<1> QED
  BY <1>7, <1>8 DEF r

(* The entries of r are entries of s, in the same order.                   *)
InOrder(r, s) ==
  \A i, j \in 1 .. Len(r) : i < j =>
    \E a, b \in 1 .. Len(s) : a < b /\ r[i] = s[a] /\ r[j] = s[b]

LEMMA RemoveInOrder ==
  ASSUME NEW S, NEW s \in Seq(S), NEW t
  PROVE  InOrder(RemoveFirst(s, t), s)
<1>1. CASE ~Contains(s, t)
  <2>1. RemoveFirst(s, t) = s
    BY <1>1 DEF Contains, RemoveFirst
  <2> QED
    BY <2>1 DEF InOrder
<1>2. CASE Contains(s, t)
  <2> DEFINE I == {i \in 1 .. Len(s) : s[i] = t}
             m == Min(I)
             r == RemoveAt(s, m)
  <2>1. I \in SUBSET Nat /\ I # {}
    BY <1>2 DEF Contains
  <2>2. RemoveFirst(s, t) = r
    BY <1>2, <2>1 DEF Contains, RemoveFirst, SelectInSeq
  <2> HIDE DEF m
  <2>3. m \in I
    <3> HIDE DEF I
    <3> QED
      BY <2>1, MinIs DEF m
  <2>4. m \in 1 .. Len(s)
    BY <2>3
  <2> HIDE DEF I
  <2>5. /\ r \in Seq(S) /\ Len(r) = Len(s) - 1
        /\ \A i \in 1 .. Len(r) : r[i] = IF i < m THEN s[i] ELSE s[i + 1]
    BY <2>4, RemoveAtCells
  <2> HIDE DEF r
  <2>6. ASSUME NEW i \in 1 .. Len(r), NEW j \in 1 .. Len(r), i < j
        PROVE  \E a, b \in 1 .. Len(s) : a < b /\ r[i] = s[a] /\ r[j] = s[b]
    <3> DEFINE Old(x) == IF x < m THEN x ELSE x + 1
    <3>1. Len(s) \in Nat
      OBVIOUS
    <3>2. Old(i) \in 1 .. Len(s) /\ Old(j) \in 1 .. Len(s) /\ Old(i) < Old(j)
      BY <2>4, <2>5, <2>6, <3>1
    <3>3. r[i] = s[Old(i)] /\ r[j] = s[Old(j)]
      BY <2>5
    <3> HIDE DEF Old
    <3> QED
      BY <3>2, <3>3
  <2> QED
    BY <2>2, <2>6 DEF InOrder
<1> QED
  BY <1>1, <1>2
=============================================================================
