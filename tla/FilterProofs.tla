---------------------------- MODULE FilterProofs ----------------------------
(***************************************************************************)
(* What the filter loops of the program keep, for every slice.  The        *)
(* library's induction theorems take a predicate as a parameter, which the *)
(* provers cannot instantiate; here induction is over a set of sequences   *)
(* and rests on the least element of a set of natural numbers.             *)
(***************************************************************************)
EXTENDS Filter, WellFoundedInduction, SequenceTheorems, TLAPS

(* A set of natural numbers that is not empty has a least element. *)
LEMMA LeastNumber ==
  ASSUME NEW T \in SUBSET Nat, T # {}
  PROVE  \E m \in T : \A k \in T : m <= k
<1>1. IsWellFoundedOn(OpToRel(<, Nat), Nat)
  BY NatLessThanWellFounded
<1>2. PICK m \in T : \A k \in T : ~(<<k, m>> \in OpToRel(<, Nat))
  BY <1>1, WFMin
<1>3. \A k \in T : ~(k < m)
  BY <1>2 DEF OpToRel
<1> QED
  BY <1>3

(* Induction over sequences, stated for a set of sequences instead of a    *)
(* predicate.                                                              *)
LEMMA SeqInduction ==
  ASSUME NEW E, NEW A \in SUBSET Seq(E),
         <<>> \in A,
         \A s \in A, e \in E : Append(s, e) \in A
  PROVE  \A s \in Seq(E) : s \in A
<1> DEFINE T == {Len(s) : s \in Seq(E) \ A}
<1>1. SUFFICES ASSUME Seq(E) \ A # {} PROVE FALSE
  OBVIOUS
<1>2. T \in SUBSET Nat
  BY LenProperties
<1>3. T # {}
  <2> PICK s : s \in Seq(E) \ A
    BY <1>1
  <2>1. Len(s) \in T
    OBVIOUS
  <2> QED
    BY <2>1
<1>9. PICK m \in T : \A k \in T : m <= k
  <2> HIDE DEF T
  <2> QED
    BY <1>2, <1>3, LeastNumber
<1>4. PICK s \in Seq(E) \ A : Len(s) = m
  OBVIOUS
<1>5. s # <<>>
  BY <1>4
<1>6. PICK r \in Seq(E), e \in E : s = Append(r, e)
  BY <1>5, SequenceEmptyOrAppend
<1>7. Len(r) < m
  BY <1>4, <1>6
<1>8. r \in A
  <2>1. r \notin A => Len(r) \in T
    OBVIOUS
  <2>2. Len(r) \in Nat /\ m \in Nat
    BY <1>4
  <2> HIDE DEF T
  <2> QED
    BY <1>9, <1>7, <2>1, <2>2
<1> QED
  BY <1>8, <1>6, <1>4

(* How the elements kept of the first n are obtained from those before. *)
KeptStep(s, S, f, n) ==
  IF n = 0 THEN <<>>
  ELSE IF s[n] \in S THEN Append(f[n - 1], s[n]) ELSE f[n - 1]

(* f[n] are the elements kept of the first n, up to m. *)
KeptUpTo(s, S, f, m) == f = [n \in 0 .. m |-> KeptStep(s, S, f, n)]

(* The recursive function in Keep exists, for every length. *)
LEMMA KeptExists ==
  ASSUME NEW E, NEW s \in Seq(E), NEW S
  PROVE  \A m \in Nat : \E f : KeptUpTo(s, S, f, m)
<1> DEFINE T == {m \in Nat : ~\E f : KeptUpTo(s, S, f, m)}
<1>1. SUFFICES ASSUME T # {} PROVE FALSE
  OBVIOUS
<1>2. PICK m \in T : \A k \in T : m <= k
  BY <1>1, LeastNumber
<1>3. CASE m = 0
  <2> DEFINE g == [n \in 0 .. 0 |-> <<>>]
  <2>1. KeptUpTo(s, S, g, 0)
    BY DEF KeptUpTo, KeptStep
  <2> QED BY <2>1, <1>3
<1>4. CASE m # 0
  <2>1. m - 1 \in Nat /\ m - 1 \notin T
    BY <1>2, <1>4
  <2>2. PICK f : KeptUpTo(s, S, f, m - 1)
    BY <2>1
  <2> DEFINE g == [n \in 0 .. m |-> IF n = m THEN KeptStep(s, S, f, n) ELSE f[n]]
  <2>3. ASSUME NEW n \in 0 .. m PROVE g[n] = KeptStep(s, S, g, n)
    <3>1. n # 0 => g[n - 1] = f[n - 1]
      OBVIOUS
    <3>2. KeptStep(s, S, g, n) = KeptStep(s, S, f, n)
      BY <3>1 DEF KeptStep
    <3>3. n # m => f[n] = KeptStep(s, S, f, n)
      BY <2>2, <1>4 DEF KeptUpTo
    <3> QED BY <3>2, <3>3
  <2>4. KeptUpTo(s, S, g, m)
    BY <2>3 DEF KeptUpTo
  <2> QED BY <2>4
<1> QED BY <1>3, <1>4

(* What Keep returns is the last value of that function. *)
LEMMA KeepUnfold ==
  ASSUME NEW E, NEW s \in Seq(E), NEW S
  PROVE  \E f : KeptUpTo(s, S, f, Len(s)) /\ Keep(s, S) = f[Len(s)]
<1> DEFINE F == CHOOSE f : KeptUpTo(s, S, f, Len(s))
<1>1. \E f : KeptUpTo(s, S, f, Len(s))
  BY KeptExists, LenProperties
<1>2. KeptUpTo(s, S, F, Len(s))
  BY <1>1, Zenon
<1>3. Keep(s, S) = F[Len(s)]
  BY DEF Keep, KeptStep, KeptUpTo
<1> QED BY <1>2, <1>3

(* Two sequences that agree on a prefix are filtered alike there. *)
LEMMA KeptEqual ==
  ASSUME NEW s, NEW t, NEW S, NEW l \in Nat, NEW k \in Nat, l <= k,
         \A i \in 1 .. l : s[i] = t[i],
         NEW f, KeptUpTo(s, S, f, l),
         NEW g, KeptUpTo(t, S, g, k)
  PROVE  \A n \in 0 .. l : f[n] = g[n]
<1> DEFINE T == {n \in 0 .. l : f[n] # g[n]}
<1>1. SUFFICES ASSUME T # {} PROVE FALSE
  OBVIOUS
<1>2. PICK m \in T : \A n \in T : m <= n
  <2>1. T \in SUBSET Nat
    OBVIOUS
  <2> HIDE DEF T
  <2> QED
    BY <1>1, <2>1, LeastNumber
<1>3. m \in 0 .. l /\ f[m] # g[m] /\ m \in 0 .. k
  OBVIOUS
<1>4. m # 0 => f[m - 1] = g[m - 1]
  <2>1. m # 0 => m - 1 \notin T
    BY <1>2, <1>3
  <2> QED
    BY <2>1, <1>3
<1> HIDE DEF T
<1>5. f[m] = KeptStep(s, S, f, m)
  BY <1>3 DEF KeptUpTo
<1>6. g[m] = KeptStep(t, S, g, m)
  BY <1>3 DEF KeptUpTo
<1>7. KeptStep(s, S, f, m) = KeptStep(t, S, g, m)
  BY <1>3, <1>4 DEF KeptStep
<1> QED
  BY <1>3, <1>5, <1>6, <1>7

(* Nothing is kept of nothing. *)
LEMMA KeepEmpty == \A S : Keep(<<>>, S) = <<>>
<1> TAKE S
<1>1. <<>> \in Seq({})
  OBVIOUS
<1>2. PICK f : KeptUpTo(<<>>, S, f, Len(<<>>)) /\ Keep(<<>>, S) = f[Len(<<>>)]
  BY <1>1, KeepUnfold
<1>3. f[0] = KeptStep(<<>>, S, f, 0)
  BY <1>2 DEF KeptUpTo
<1> QED
  BY <1>2, <1>3 DEF KeptStep

(* One more element is kept or skipped: the body of the filter loops of    *)
(* broker.go and registry.go.                                              *)
LEMMA KeepAppend ==
  ASSUME NEW E, NEW s \in Seq(E), NEW e \in E, NEW S
  PROVE  Keep(Append(s, e), S) = IF e \in S THEN Append(Keep(s, S), e) ELSE Keep(s, S)
<1> DEFINE t == Append(s, e)
<1>1. t \in Seq(E) /\ Len(t) = Len(s) + 1 /\ t[Len(s) + 1] = e /\ \A i \in 1 .. Len(s) : s[i] = t[i]
  BY AppendProperties
<1>2. Len(s) \in Nat /\ Len(t) \in Nat /\ Len(s) <= Len(t)
  BY <1>1, LenProperties
<1> HIDE DEF t
<1>3. PICK f : KeptUpTo(s, S, f, Len(s)) /\ Keep(s, S) = f[Len(s)]
  BY KeepUnfold
<1>4. PICK g : KeptUpTo(t, S, g, Len(t)) /\ Keep(t, S) = g[Len(t)]
  BY <1>1, KeepUnfold
<1>5. \A n \in 0 .. Len(s) : f[n] = g[n]
  BY <1>1, <1>2, <1>3, <1>4, KeptEqual
<1>6. g[Len(s) + 1] = KeptStep(t, S, g, Len(s) + 1)
  BY <1>1, <1>2, <1>4 DEF KeptUpTo
<1>7. g[Len(s) + 1] = IF e \in S THEN Append(g[Len(s)], e) ELSE g[Len(s)]
  BY <1>6, <1>1, <1>2 DEF KeptStep
<1> QED
  BY <1>1, <1>2, <1>3, <1>4, <1>5, <1>7 DEF t

(* The elements of a sequence with one more. *)
LEMMA AppendRange ==
  ASSUME NEW E, NEW s \in Seq(E), NEW e \in E
  PROVE  Range(Append(s, e)) = Range(s) \cup {e}
BY AppendProperties, LenProperties DEF Range

(* The empty sequence has no elements. *)
LEMMA EmptyRange == Range(<<>>) = {}
BY DEF Range

(* A filter keeps exactly the elements that are in the set. *)
LEMMA KeepRange ==
  ASSUME NEW E, NEW S
  PROVE  \A s \in Seq(E) : /\ Keep(s, S) \in Seq(E \cap S)
                           /\ Range(Keep(s, S)) = Range(s) \cap S
<1> DEFINE P(s) == Keep(s, S) \in Seq(E \cap S) /\ Range(Keep(s, S)) = Range(s) \cap S
           A == {s \in Seq(E) : P(s)}
<1>1. P(<<>>)
  <2>1. Keep(<<>>, S) = <<>> /\ <<>> \in Seq(E \cap S)
    BY KeepEmpty, EmptySeq
  <2> QED
    BY <2>1, EmptyRange
<1>2. ASSUME NEW s \in Seq(E), P(s), NEW e \in E PROVE P(Append(s, e))
  <2>1. Range(Append(s, e)) = Range(s) \cup {e}
    BY AppendRange
  <2>2. CASE e \in S
    <3>1. Keep(Append(s, e), S) = Append(Keep(s, S), e)
      BY <2>2, KeepAppend
    <3>2. e \in E \cap S
      BY <2>2
    <3>3. Keep(s, S) \in Seq(E \cap S)
      BY <1>2
    <3>4. Range(Append(Keep(s, S), e)) = Range(Keep(s, S)) \cup {e}
      BY <3>2, <3>3, AppendRange
    <3>5. Append(Keep(s, S), e) \in Seq(E \cap S)
      BY <3>2, <3>3, AppendProperties
    <3> QED
      BY <1>2, <2>1, <2>2, <3>1, <3>4, <3>5
  <2>3. CASE e \notin S
    <3>1. Keep(Append(s, e), S) = Keep(s, S)
      BY <2>3, KeepAppend
    <3> QED
      BY <1>2, <2>1, <2>3, <3>1
  <2> QED
    BY <2>2, <2>3
<1> HIDE DEF P
<1>3. \A s \in Seq(E) : s \in A
  <2>1. <<>> \in A
    BY <1>1, EmptySeq
  <2>2. \A s \in A, e \in E : Append(s, e) \in A
    BY <1>2, AppendProperties
  <2>3. A \in SUBSET Seq(E)
    OBVIOUS
  <2> HIDE DEF A
  <2> QED
    BY <2>1, <2>2, <2>3, SeqInduction
<1> QED
  BY <1>3 DEF P

(* Appending an element keeps a sequence free of duplicates exactly when   *)
(* the element is new.                                                     *)
LEMMA AppendDistinct ==
  ASSUME NEW E, NEW s \in Seq(E), NEW e \in E
  PROVE  IsInjective(Append(s, e)) <=> IsInjective(s) /\ e \notin Range(s)
<1> DEFINE t == Append(s, e)
           n == Len(s)
<1>1. /\ t \in Seq(E) /\ DOMAIN t = 1 .. n + 1 /\ DOMAIN s = 1 .. n /\ n \in Nat
      /\ t[n + 1] = e /\ \A i \in 1 .. n : t[i] = s[i]
  BY AppendProperties, LenProperties
<1> HIDE DEF t, n
<1>2. Range(s) = {s[i] : i \in 1 .. n}
  BY <1>1 DEF Range
<1>3. ASSUME IsInjective(t) PROVE IsInjective(s) /\ e \notin Range(s)
  BY <1>1, <1>2, <1>3 DEF IsInjective
<1>4. ASSUME IsInjective(s), e \notin Range(s) PROVE IsInjective(t)
  <2> SUFFICES ASSUME NEW i \in 1 .. n + 1, NEW j \in 1 .. n + 1, t[i] = t[j] PROVE i = j
    BY <1>1 DEF IsInjective
  <2>1. CASE i \in 1 .. n /\ j \in 1 .. n
    BY <2>1, <1>1, <1>4 DEF IsInjective
  <2>2. CASE i \notin 1 .. n \/ j \notin 1 .. n
    <3>1. i = n + 1 \/ j = n + 1
      BY <2>2, <1>1
    <3> QED
      BY <3>1, <1>1, <1>2, <1>4
  <2> QED
    BY <2>1, <2>2
<1> QED
  BY <1>3, <1>4 DEF t

(* Two sequences without duplicates and without a common element have no   *)
(* duplicates together.                                                    *)
LEMMA ConcatDistinct ==
  ASSUME NEW E, NEW s \in Seq(E), NEW t \in Seq(E),
         IsInjective(s), IsInjective(t), Range(s) \cap Range(t) = {}
  PROVE  IsInjective(s \o t)
<1> DEFINE u == s \o t
           n == Len(s)
           m == Len(t)
<1>1. /\ n \in Nat /\ m \in Nat /\ DOMAIN u = 1 .. n + m
      /\ DOMAIN s = 1 .. n /\ DOMAIN t = 1 .. m
      /\ \A i \in 1 .. n : u[i] = s[i]
      /\ \A i \in n + 1 .. n + m : i - n \in 1 .. m /\ u[i] = t[i - n]
  BY ConcatProperties, LenProperties
<1> HIDE DEF u, n, m
<1>2. \A i \in 1 .. n, j \in 1 .. m : s[i] # t[j]
  BY <1>1 DEF Range
<1> SUFFICES ASSUME NEW i \in 1 .. n + m, NEW j \in 1 .. n + m, u[i] = u[j] PROVE i = j
  BY <1>1 DEF IsInjective, u
<1>3. CASE i <= n /\ j <= n
  BY <1>1, <1>3 DEF IsInjective
<1>4. CASE i > n /\ j > n
  BY <1>1, <1>4 DEF IsInjective
<1>5. CASE i <= n /\ j > n
  BY <1>1, <1>2, <1>5
<1>6. CASE i > n /\ j <= n
  BY <1>1, <1>2, <1>6
<1> QED
  BY <1>1, <1>3, <1>4, <1>5, <1>6

(* A filter brings in no duplicates. *)
LEMMA KeepDistinct ==
  ASSUME NEW E, NEW S
  PROVE  \A s \in Seq(E) : IsInjective(s) => IsInjective(Keep(s, S))
<1> DEFINE P(s) == IsInjective(s) => IsInjective(Keep(s, S))
           A == {s \in Seq(E) : P(s)}
<1>1. P(<<>>)
  <2>1. DOMAIN <<>> = {} /\ Keep(<<>>, S) = <<>>
    BY KeepEmpty
  <2> QED
    BY <2>1 DEF IsInjective
<1>2. ASSUME NEW s \in Seq(E), P(s), NEW e \in E PROVE P(Append(s, e))
  <2> SUFFICES ASSUME IsInjective(s), e \notin Range(s) PROVE IsInjective(Keep(Append(s, e), S))
    BY AppendDistinct
  <2>1. Keep(s, S) \in Seq(E \cap S) /\ Range(Keep(s, S)) = Range(s) \cap S
    BY KeepRange
  <2>2. CASE e \in S
    <3>1. Keep(Append(s, e), S) = Append(Keep(s, S), e)
      BY <2>2, KeepAppend
    <3>2. e \in E \cap S /\ e \notin Range(Keep(s, S)) /\ IsInjective(Keep(s, S))
      BY <1>2, <2>1, <2>2
    <3>3. IsInjective(Append(Keep(s, S), e))
      BY <2>1, <3>2, AppendDistinct
    <3> QED
      BY <3>1, <3>3
  <2>3. CASE e \notin S
    <3>1. Keep(Append(s, e), S) = Keep(s, S)
      BY <2>3, KeepAppend
    <3> QED
      BY <1>2, <3>1
  <2> QED
    BY <2>2, <2>3
<1> HIDE DEF P
<1>3. \A s \in Seq(E) : s \in A
  <2>1. <<>> \in A
    BY <1>1, EmptySeq
  <2>2. \A s \in A, e \in E : Append(s, e) \in A
    BY <1>2, AppendProperties
  <2>3. A \in SUBSET Seq(E)
    OBVIOUS
  <2> HIDE DEF A
  <2> QED
    BY <2>1, <2>2, <2>3, SeqInduction
<1> QED
  BY <1>3 DEF P

(* A filter that refuses nothing changes nothing. *)
LEMMA KeepAll ==
  ASSUME NEW E, NEW S
  PROVE  \A s \in Seq(E) : Range(s) \subseteq S => Keep(s, S) = s
<1> DEFINE P(s) == Range(s) \subseteq S => Keep(s, S) = s
           A == {s \in Seq(E) : P(s)}
<1>1. P(<<>>)
  BY KeepEmpty
<1>2. ASSUME NEW s \in Seq(E), P(s), NEW e \in E PROVE P(Append(s, e))
  BY <1>2, AppendRange, KeepAppend
<1> HIDE DEF P
<1>3. \A s \in Seq(E) : s \in A
  <2>1. <<>> \in A
    BY <1>1, EmptySeq
  <2>2. \A s \in A, e \in E : Append(s, e) \in A
    BY <1>2, AppendProperties
  <2>3. A \in SUBSET Seq(E)
    OBVIOUS
  <2> HIDE DEF A
  <2> QED
    BY <2>1, <2>2, <2>3, SeqInduction
<1> QED
  BY <1>3 DEF P

(* A filter never makes a slice longer, so it may run in place. *)
LEMMA KeepLen ==
  ASSUME NEW E, NEW S
  PROVE  \A s \in Seq(E) : Len(Keep(s, S)) <= Len(s)
<1> DEFINE P(s) == Len(Keep(s, S)) <= Len(s)
           A == {s \in Seq(E) : P(s)}
<1>1. P(<<>>)
  BY KeepEmpty
<1>2. ASSUME NEW s \in Seq(E), P(s), NEW e \in E PROVE P(Append(s, e))
  <2>1. Keep(s, S) \in Seq(E \cap S)
    BY KeepRange
  <2>2. Len(Keep(s, S)) \in Nat /\ Len(s) \in Nat
    BY <2>1, LenProperties
  <2>3. Len(Append(s, e)) = Len(s) + 1 /\ Len(Append(Keep(s, S), e)) = Len(Keep(s, S)) + 1
    <3>1. Keep(s, S) \in Seq(E)
      BY <2>1, SeqMonotonic
    <3> QED
      BY <3>1, AppendProperties
  <2> QED
    BY <1>2, <2>2, <2>3, KeepAppend
<1> HIDE DEF P
<1>3. \A s \in Seq(E) : s \in A
  <2>1. <<>> \in A
    BY <1>1, EmptySeq
  <2>2. \A s \in A, e \in E : Append(s, e) \in A
    BY <1>2, AppendProperties
  <2>3. A \in SUBSET Seq(E)
    OBVIOUS
  <2> HIDE DEF A
  <2> QED
    BY <2>1, <2>2, <2>3, SeqInduction
<1> QED
  BY <1>3 DEF P

(* Two tests that agree on the elements of a slice keep the same of it. *)
LEMMA KeepSame ==
  ASSUME NEW E, NEW S, NEW T
  PROVE  \A s \in Seq(E) : (\A x \in Range(s) : x \in S <=> x \in T) => Keep(s, S) = Keep(s, T)
<1> DEFINE P(s) == (\A x \in Range(s) : x \in S <=> x \in T) => Keep(s, S) = Keep(s, T)
           A == {s \in Seq(E) : P(s)}
<1>1. P(<<>>)
  BY KeepEmpty
<1>2. ASSUME NEW s \in Seq(E), P(s), NEW e \in E PROVE P(Append(s, e))
  <2>1. SUFFICES ASSUME \A x \in Range(Append(s, e)) : x \in S <=> x \in T
                 PROVE  Keep(Append(s, e), S) = Keep(Append(s, e), T)
    OBVIOUS
  <2>2. Range(Append(s, e)) = Range(s) \cup {e}
    BY AppendRange
  <2>3. Keep(s, S) = Keep(s, T) /\ (e \in S <=> e \in T)
    BY <1>2, <2>1, <2>2
  <2>4. Keep(Append(s, e), S) = IF e \in S THEN Append(Keep(s, S), e) ELSE Keep(s, S)
    BY KeepAppend
  <2>5. Keep(Append(s, e), T) = IF e \in T THEN Append(Keep(s, T), e) ELSE Keep(s, T)
    BY KeepAppend
  <2> QED
    BY <2>3, <2>4, <2>5
<1> HIDE DEF P
<1>3. \A s \in Seq(E) : s \in A
  <2>1. <<>> \in A
    BY <1>1, EmptySeq
  <2>2. \A s \in A, e \in E : Append(s, e) \in A
    BY <1>2, AppendProperties
  <2>3. A \in SUBSET Seq(E)
    OBVIOUS
  <2> HIDE DEF A
  <2> QED
    BY <2>1, <2>2, <2>3, SeqInduction
<1> QED
  BY <1>3 DEF P

(* The slice up to the next element. *)
LEMMA SubSeqNext ==
  ASSUME NEW E, NEW s \in Seq(E), NEW m \in Nat, NEW n \in Nat, m <= n, n < Len(s)
  PROVE  /\ SubSeq(s, m + 1, n) \in Seq(E)
         /\ SubSeq(s, m + 1, n + 1) = Append(SubSeq(s, m + 1, n), s[n + 1])
<1>1. Len(s) \in Nat /\ \A i \in 1 .. Len(s) : s[i] \in E
  BY ElementOfSeq, LenProperties
<1>2. m + 1 \in 1 .. Len(s) /\ n + 1 \in m + 1 .. Len(s) /\ (n + 1) - 1 = n
  BY <1>1
<1>3. SubSeq(s, m + 1, n) \in Seq(E)
  <2>1. \A i \in m + 1 .. n : s[i] \in E
    BY <1>1
  <2> QED
    BY <2>1, SubSeqProperties
<1>4. SubSeq(s, m + 1, n + 1) = SubSeq(s, m + 1, (n + 1) - 1) \o <<s[n + 1]>>
  BY <1>2, SubSeqRecursiveSecond
<1>5. s[n + 1] \in E
  BY <1>1, <1>2
<1> QED
  BY <1>2, <1>3, <1>4, <1>5, AppendIsConcat

(* What is appended to a slice does not change its parts. *)
LEMMA SubSeqOfAppend ==
  ASSUME NEW E, NEW s \in Seq(E), NEW e \in E, NEW m \in Nat, NEW n \in Nat, n <= Len(s)
  PROVE  SubSeq(Append(s, e), m + 1, n) = SubSeq(s, m + 1, n)
<1> DEFINE t == Append(s, e)
           u == SubSeq(t, m + 1, n)
           v == SubSeq(s, m + 1, n)
<1>1. t \in Seq(E) /\ Len(t) = Len(s) + 1 /\ \A i \in 1 .. Len(s) : t[i] = s[i]
  BY AppendProperties
<1>2. Len(s) \in Nat /\ \A i \in 1 .. Len(s) : s[i] \in E
  BY ElementOfSeq, LenProperties
<1>3. \A i \in m + 1 .. n : s[i] \in E /\ t[i] = s[i]
  BY <1>1, <1>2
<1> HIDE DEF t
<1>4. /\ v \in Seq(E) /\ Len(v) = (IF m + 1 <= n THEN n - (m + 1) + 1 ELSE 0)
      /\ \A i \in 1 .. n - (m + 1) + 1 : v[i] = s[m + 1 + i - 1]
  BY <1>3, SubSeqProperties
<1>5. /\ u \in Seq(E) /\ Len(u) = (IF m + 1 <= n THEN n - (m + 1) + 1 ELSE 0)
      /\ \A i \in 1 .. n - (m + 1) + 1 : u[i] = t[m + 1 + i - 1]
  BY <1>3, SubSeqProperties
<1> HIDE DEF u, v
<1>6. \A i \in 1 .. Len(u) : u[i] = v[i]
  <2> TAKE i \in 1 .. Len(u)
  <2>1. i \in 1 .. n - (m + 1) + 1 /\ m + 1 + i - 1 \in m + 1 .. n
    BY <1>5
  <2> QED
    BY <2>1, <1>3, <1>4, <1>5
<1>7. u = v
  BY <1>4, <1>5, <1>6, SeqEqual
<1> QED
  BY <1>7 DEF t, u, v

-----------------------------------------------------------------------------
(* Concatenating a sequence of sequences, as FlattenSeq does it: the first *)
(* n of them, from the first n - 1.                                        *)
FlatStep(ss, f, n) == IF n = 1 THEN ss[n] ELSE f[n - 1] \o ss[n]

FlatUpTo(ss, f, m) == f = [n \in 1 .. m |-> FlatStep(ss, f, n)]

(* The partial concatenations exist, however many there are. *)
LEMMA FlatExists ==
  ASSUME NEW ss
  PROVE  \A m \in Nat : \E f : FlatUpTo(ss, f, m)
<1> DEFINE T == {m \in Nat : ~\E f : FlatUpTo(ss, f, m)}
<1>1. SUFFICES ASSUME T # {} PROVE FALSE
  OBVIOUS
<1>2. PICK m \in T : \A k \in T : m <= k
  BY <1>1, LeastNumber
<1>3. CASE m = 0
  <2> DEFINE g == [n \in 1 .. 0 |-> <<>>]
  <2>1. FlatUpTo(ss, g, 0)
    BY DEF FlatUpTo, FlatStep
  <2> QED BY <2>1, <1>3
<1>4. CASE m # 0
  <2>1. m - 1 \in Nat /\ m - 1 \notin T
    BY <1>2, <1>4
  <2>2. PICK f : FlatUpTo(ss, f, m - 1)
    BY <2>1
  <2> DEFINE g == [n \in 1 .. m |-> IF n = m THEN FlatStep(ss, f, n) ELSE f[n]]
  <2>3. ASSUME NEW n \in 1 .. m PROVE g[n] = FlatStep(ss, g, n)
    <3>1. n # 1 => g[n - 1] = f[n - 1]
      OBVIOUS
    <3>2. FlatStep(ss, g, n) = FlatStep(ss, f, n)
      BY <3>1 DEF FlatStep
    <3>3. n # m => f[n] = FlatStep(ss, f, n)
      BY <2>2, <1>4 DEF FlatUpTo
    <3> QED BY <3>2, <3>3
  <2>4. FlatUpTo(ss, g, m)
    BY <2>3 DEF FlatUpTo
  <2> QED BY <2>4
<1> QED BY <1>3, <1>4
=============================================================================
