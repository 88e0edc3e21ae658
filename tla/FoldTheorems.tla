---------------------------- MODULE FoldTheorems ----------------------------
(***************************************************************************)
(* Induction over naturals, sequences and finite sets, stated with sets,   *)
(* and the folds of the community modules: that they follow their          *)
(* recursion, and what one more element does to them.                      *)
(***************************************************************************)
EXTENDS Integers, Sequences, SequencesExt, SequenceTheorems, FiniteSetTheorems,
        WellFoundedInduction, TLAPS

-----------------------------------------------------------------------------
(* Induction.                                                              *)

LEMMA LeastNatural ==
  ASSUME NEW T, T \subseteq Nat, T # {}
  PROVE  \E x \in T : \A y \in T : x <= y
<1>1. \E x \in T : \A y \in T : ~ (<<y, x>> \in OpToRel(<, Nat))
  BY NatLessThanWellFounded, WFMin
<1>2. PICK x \in T : \A y \in T : ~ (<<y, x>> \in OpToRel(<, Nat))
  BY <1>1
<1>3. \A y \in T : ~(y < x)
  BY <1>2 DEF OpToRel
<1> QED BY <1>3

(* A set that holds zero and the successor of what it holds, up to a bound. *)
LEMMA UpToInduction ==
  ASSUME NEW n \in Nat, NEW T, 0 \in T, \A i \in 0..(n - 1) : i \in T => i + 1 \in T
  PROVE  0..n \subseteq T
<1> DEFINE Bad == {i \in 0..n : i \notin T}
<1>1. SUFFICES ASSUME Bad # {} PROVE FALSE
  OBVIOUS
<1>2. PICK i \in Bad : \A j \in Bad : i <= j
  <2>1. Bad \subseteq Nat
    OBVIOUS
  <2> QED BY <1>1, <2>1, LeastNatural
<1>3. i \in 1..n
  BY <1>2
<1>4. i - 1 \in 0..(n - 1) /\ i - 1 \in T
  BY <1>2, <1>3
<1> QED BY <1>2, <1>3, <1>4

LEMMA SequenceInduction ==
  ASSUME NEW S, NEW T, <<>> \in T,
         \A s \in Seq(S), x \in S : s \in T => Append(s, x) \in T
  PROVE  Seq(S) \subseteq T
<1> DEFINE Good == {n \in Nat : \A s \in Seq(S) : Len(s) = n => s \in T}
<1>1. 0 \in Good
  <2>1. \A s \in Seq(S) : Len(s) = 0 => s = <<>>
    BY EmptySeq
  <2> QED BY <2>1
<1>2. ASSUME NEW i \in Nat, i \in Good PROVE i + 1 \in Good
  <2> SUFFICES ASSUME NEW s \in Seq(S), Len(s) = i + 1 PROVE s \in T
    OBVIOUS
  <2>1. s # <<>>
    OBVIOUS
  <2> DEFINE front == SubSeq(s, 1, Len(s) - 1)
  <2>2. front \in Seq(S) /\ Len(front) = i /\ s[Len(s)] \in S /\ s = Append(front, s[Len(s)])
    <3>1. front \in Seq(S) /\ Len(front) = i /\ \A j \in 1..i : front[j] = s[j]
      BY <2>1, SubSeqProperties
    <3>2. s[Len(s)] \in S
      OBVIOUS
    <3> HIDE DEF front
    <3>3. /\ Append(front, s[Len(s)]) \in Seq(S) /\ Len(Append(front, s[Len(s)])) = i + 1
          /\ \A j \in 1..i : Append(front, s[Len(s)])[j] = front[j]
          /\ Append(front, s[Len(s)])[i + 1] = s[Len(s)]
      BY <3>1, <3>2, AppendProperties
    <3>4. \A j \in 1..Len(s) : s[j] = Append(front, s[Len(s)])[j]
      BY <3>1, <3>3
    <3>5. s = Append(front, s[Len(s)])
      BY <3>3, <3>4, SeqEqual
    <3> QED BY <3>1, <3>2, <3>5
  <2> HIDE DEF front
  <2>3. front \in T
    BY <1>2, <2>2
  <2> QED BY <2>2, <2>3
<1> HIDE DEF Good
<1>3. ASSUME NEW s \in Seq(S) PROVE s \in T
  <2>1. Len(s) \in Nat
    BY LenProperties
  <2>2. 0..Len(s) \subseteq Good
    BY <1>1, <1>2, <2>1, UpToInduction
  <2>3. Len(s) \in Good
    BY <2>1, <2>2
  <2> QED BY <2>3 DEF Good
<1> QED BY <1>3

LEMMA FiniteSetInduction ==
  ASSUME NEW S, IsFiniteSet(S), NEW T, {} \in T,
         \A U \in SUBSET S, x \in S : x \notin U /\ U \in T => U \cup {x} \in T
  PROVE  S \in T
<1> DEFINE Good == {n \in Nat : \A U \in SUBSET S : Cardinality(U) = n => U \in T}
<1>1. 0 \in Good
  BY FS_Subset, FS_EmptySet
<1>2. ASSUME NEW i \in Nat, i \in Good PROVE i + 1 \in Good
  <2> SUFFICES ASSUME NEW U \in SUBSET S, Cardinality(U) = i + 1 PROVE U \in T
    OBVIOUS
  <2>1. IsFiniteSet(U) /\ U # {}
    BY FS_Subset, FS_EmptySet
  <2>2. PICK x \in U : TRUE
    BY <2>1
  <2>a. IsFiniteSet(U \ {x}) /\ Cardinality(U \ {x}) = Cardinality(U) - 1
    BY <2>1, <2>2, FS_RemoveElement
  <2>3. IsFiniteSet(U \ {x}) /\ Cardinality(U \ {x}) = i
    BY <2>a
  <2>4. U \ {x} \in T
    BY <1>2, <2>3
  <2>5. U = (U \ {x}) \cup {x} /\ x \notin U \ {x} /\ x \in S
    BY <2>2
  <2> QED BY <2>4, <2>5
<1> HIDE DEF Good
<1>3. Cardinality(S) \in Nat
  BY FS_CardinalityType
<1>4. 0..Cardinality(S) \subseteq Good
  BY <1>1, <1>2, <1>3, UpToInduction
<1> QED BY <1>3, <1>4 DEF Good

-----------------------------------------------------------------------------
(* Folds.                                                                  *)

(* A function that folds the subsets of S: `step` of what the rest folds to   *)
(* and the element picked. *)
FoldsSubsets(f, S, base, step, pick) ==
  \A T \in SUBSET S :
    f[T] = IF T = {} THEN base ELSE step[<<f[T \ {pick[T]}], pick[T]>>]

(* There is one, so that the CHOOSE of a recursive definition is one. *)
LEMMA FoldExists ==
  ASSUME NEW S, IsFiniteSet(S), NEW A, NEW base \in A, NEW step \in [A \X S -> A],
         NEW pick, \A T \in SUBSET S : T # {} => pick[T] \in T
  PROVE  \E f \in [SUBSET S -> A] : FoldsSubsets(f, S, base, step, pick)
<1> DEFINE Rhs(f, T) == IF T = {} THEN base ELSE step[<<f[T \ {pick[T]}], pick[T]>>]
           Next(f)   == [T \in SUBSET S |-> Rhs(f, T)]
           UpTo(f, n) == \A T \in SUBSET S : Cardinality(T) <= n => f[T] = Rhs(f, T)
           Good == {n \in Nat : \E f \in [SUBSET S -> A] : UpTo(f, n)}
<1>0. \A T \in SUBSET S : IsFiniteSet(T) /\ Cardinality(T) \in Nat
  BY FS_Subset, FS_CardinalityType
<1>1. 0 \in Good
  <2> DEFINE f == [T \in SUBSET S |-> base]
  <2>1. f \in [SUBSET S -> A] /\ \A T \in SUBSET S : f[T] = base
    OBVIOUS
  <2>2. \A T \in SUBSET S : Cardinality(T) <= 0 => T = {}
    BY <1>0, FS_EmptySet
  <2> HIDE DEF f
  <2>3. UpTo(f, 0)
    BY <2>1, <2>2
  <2> QED BY <2>1, <2>3
<1>2. ASSUME NEW n \in Nat, n \in Good PROVE n + 1 \in Good
  <2>1. PICK f \in [SUBSET S -> A] : UpTo(f, n)
    BY <1>2
  <2> DEFINE g == Next(f)
  <2>2. \A T \in SUBSET S : Rhs(f, T) \in A
    <3> SUFFICES ASSUME NEW T \in SUBSET S, T # {} PROVE step[<<f[T \ {pick[T]}], pick[T]>>] \in A
      OBVIOUS
    <3>1. pick[T] \in S /\ f[T \ {pick[T]}] \in A
      OBVIOUS
    <3> QED BY <3>1
  <2>3. g \in [SUBSET S -> A] /\ \A T \in SUBSET S : g[T] = Rhs(f, T)
    BY <2>2
  <2> HIDE DEF g
  <2>4. UpTo(g, n + 1)
    <3> SUFFICES ASSUME NEW T \in SUBSET S, Cardinality(T) <= n + 1, T # {} PROVE Rhs(f, T) = Rhs(g, T)
      BY <2>3
    <3> DEFINE U == T \ {pick[T]}
    <3>a. pick[T] \in T /\ IsFiniteSet(T)
      BY <1>0
    <3>b. Cardinality(U) = Cardinality(T) - 1
      BY <3>a, FS_RemoveElement
    <3>1. U \in SUBSET S /\ Cardinality(U) <= n
      BY <1>0, <3>b
    <3>2. g[U] = f[U]
      BY <2>1, <2>3, <3>1
    <3> QED BY <3>2
  <2> HIDE DEF UpTo
  <2> QED BY <2>3, <2>4
<1> HIDE DEF Good
<1>3. 0..Cardinality(S) \subseteq Good
  BY <1>0, <1>1, <1>2, UpToInduction
<1>a. Cardinality(S) \in Good
  BY <1>0, <1>3
<1> HIDE DEF UpTo
<1>b. \E f \in [SUBSET S -> A] : UpTo(f, Cardinality(S))
  BY <1>a DEF Good
<1>4. PICK f \in [SUBSET S -> A] : UpTo(f, Cardinality(S))
  BY <1>b
<1> USE DEF UpTo
<1>5. \A T \in SUBSET S : Cardinality(T) <= Cardinality(S)
  BY FS_Subset
<1> QED BY <1>4, <1>5 DEF FoldsSubsets

(* The functions that fold the beginnings of a sequence. *)
Iterates(f, base, step, s) ==
  f[0] = base /\ \A i \in 1..Len(s) : f[i] = step[<<f[i - 1], s[i]>>]

(* They agree as far as the sequences do. *)
LEMMA IteratesUnique ==
  ASSUME NEW base, NEW step, NEW s, NEW t, NEW f, NEW g, Len(s) \in Nat, Len(t) \in Nat,
         Iterates(f, base, step, s), Iterates(g, base, step, t),
         NEW n \in Nat, n <= Len(s), n <= Len(t), \A i \in 1..n : s[i] = t[i]
  PROVE  f[n] = g[n]
<1> DEFINE Same == {i \in 0..n : f[i] = g[i]}
<1>1. 0 \in Same
  BY DEF Iterates
<1>2. ASSUME NEW i \in 0..(n - 1), f[i] = g[i] PROVE f[i + 1] = g[i + 1]
  <2>1. i + 1 \in 1..Len(s) /\ i + 1 \in 1..Len(t) /\ i + 1 \in 1..n /\ (i + 1) - 1 = i
    OBVIOUS
  <2>2. f[i + 1] = step[<<f[i], s[i + 1]>>]
    BY <2>1 DEF Iterates
  <2>3. g[i + 1] = step[<<g[i], t[i + 1]>>]
    BY <2>1 DEF Iterates
  <2> QED BY <1>2, <2>1, <2>2, <2>3
<1> HIDE DEF Same
<1>3. 0..n \subseteq Same
  <2>1. \A i \in 0..(n - 1) : i \in Same => i + 1 \in Same
    BY <1>2 DEF Same
  <2> QED BY <1>1, <2>1, UpToInduction
<1> QED BY <1>3 DEF Same

LEMMA MaxUpTo == \A n \in Nat \ {0} : Max(1..n) = n /\ (1..n) \ {n} = 1..(n - 1)
<1> SUFFICES ASSUME NEW n \in Nat \ {0} PROVE Max(1..n) = n
  OBVIOUS
<1>1. n \in 1..n /\ \A y \in 1..n : n >= y
  OBVIOUS
<1>2. Max(1..n) \in 1..n /\ \A y \in 1..n : Max(1..n) >= y
  BY <1>1 DEF Max
<1> QED BY <1>2

LEMMA MaxOfSome ==
  ASSUME NEW n \in Nat, NEW T \in SUBSET (1..n), T # {}
  PROVE  Max(T) \in T
<1> DEFINE D == {n - x : x \in T}
<1>1. D \subseteq Nat /\ D # {}
  <2>1. \A x \in T : n - x \in Nat
    OBVIOUS
  <2> QED BY <2>1, Zenon
<1>2. PICK d \in D : \A y \in D : d <= y
  BY <1>1, LeastNatural
<1>3. PICK x \in T : d = n - x
  OBVIOUS
<1>4. \A y \in T : n - x <= n - y
  BY <1>2, <1>3
<1>5. \A y \in T : x >= y
  BY <1>4
<1> QED BY <1>5 DEF Max

(* A function that folds a sequence from the left: the greatest index is      *)
(* picked, and stepped to from what the rest folds to. *)
LeftFolds(f, s, base, step) ==
  \A T \in SUBSET DOMAIN s :
    f[T] = IF T = {} THEN base ELSE step[<<f[T \ {Max(T)}], s[Max(T)]>>]

LEMMA SequenceFoldExists ==
  ASSUME NEW S, NEW s \in Seq(S), NEW A, NEW base \in A, NEW step \in [A \X S -> A]
  PROVE  \E f \in [SUBSET DOMAIN s -> A] : LeftFolds(f, s, base, step)
<1> DEFINE n == Len(s)
           pick == [T \in SUBSET (1..n) |-> Max(T)]
           stp == [p \in A \X (1..n) |-> step[<<p[1], s[p[2]]>>]]
<1>1. n \in Nat /\ DOMAIN s = 1..n /\ \A i \in 1..n : s[i] \in S
  BY LenProperties, ElementOfSeq
<1> HIDE DEF n
<1>2. \A T \in SUBSET (1..n) : T # {} => pick[T] \in T /\ pick[T] = Max(T)
  BY <1>1, MaxOfSome
<1>3. \A a \in A, i \in 1..n : step[<<a, s[i]>>] \in A
  BY <1>1
<1>4. stp \in [A \X (1..n) -> A] /\ \A a \in A, i \in 1..n : stp[<<a, i>>] = step[<<a, s[i]>>]
  BY <1>3
<1>5. IsFiniteSet(1..n)
  BY <1>1, FS_Interval
<1> HIDE DEF pick, stp
<1>6. PICK f \in [SUBSET (1..n) -> A] : FoldsSubsets(f, 1..n, base, stp, pick)
  <2>1. \A T \in SUBSET (1..n) : T # {} => pick[T] \in T
    BY <1>2
  <2> QED BY <2>1, <1>4, <1>5, FoldExists
<1>7. ASSUME NEW T \in SUBSET (1..n), T # {}
      PROVE  f[T] = step[<<f[T \ {Max(T)}], s[Max(T)]>>]
  <2>1. f[T] = stp[<<f[T \ {Max(T)}], Max(T)>>]
    BY <1>2, <1>6, <1>7 DEF FoldsSubsets
  <2>2. Max(T) \in 1..n /\ f[T \ {Max(T)}] \in A
    BY <1>2, <1>7
  <2> QED BY <1>4, <2>1, <2>2
<1>8. f[{}] = base
  BY <1>6 DEF FoldsSubsets
<1> QED BY <1>1, <1>7, <1>8 DEF LeftFolds

(* A function that folds the beginnings of a sequence, where it is known.      *)
StepsAlong(h, s, A, base, step) ==
  /\ h[{}] = base
  /\ \A i \in 1..Len(s) : h[1..(i - 1)] \in A => h[1..i] = step[<<h[1..(i - 1)], s[i]>>]

IterationTo(value, g, s, A, base, step) ==
  g \in [0..Len(s) -> A] /\ Iterates(g, base, step, s) /\ g[Len(s)] = value

LEMMA BeginningsFold ==
  ASSUME NEW S, NEW s \in Seq(S), NEW A, NEW base \in A, NEW step \in [A \X S -> A],
         NEW h, StepsAlong(h, s, A, base, step)
  PROVE  \E g : IterationTo(h[DOMAIN s], g, s, A, base, step)
<1> DEFINE n == Len(s)
           g == [i \in 0..n |-> h[1..i]]
           Typed == {i \in 0..n : g[i] \in A}
<1>1. n \in Nat /\ DOMAIN s = 1..n /\ \A i \in 1..n : s[i] \in S
  BY LenProperties, ElementOfSeq
<1>2. \A i \in 1..n : h[1..(i - 1)] \in A => h[1..i] = step[<<h[1..(i - 1)], s[i]>>]
  BY DEF StepsAlong
<1>a. h[{}] = base
  BY DEF StepsAlong
<1> HIDE DEF n
<1>3. \A i \in 0..n : g[i] = h[1..i]
  OBVIOUS
<1>4. g[0] = base
  <2>1. 1..0 = {} /\ 0 \in 0..n
    BY <1>1
  <2> QED BY <1>3, <1>a, <2>1
<1>5. ASSUME NEW i \in 1..n, g[i - 1] \in A
      PROVE  g[i] = step[<<g[i - 1], s[i]>>] /\ g[i] \in A
  <2>1. i \in 0..n /\ i - 1 \in 0..n
    BY <1>1
  <2>2. g[i] = h[1..i] /\ g[i - 1] = h[1..(i - 1)]
    BY <1>3, <2>1
  <2>3. step[<<g[i - 1], s[i]>>] \in A
    BY <1>1, <1>5
  <2> QED BY <1>2, <1>5, <2>2, <2>3
<1> HIDE DEF g
<1>6. 0..n \subseteq Typed
  <2>1. 0 \in Typed
    BY <1>1, <1>4
  <2>2. ASSUME NEW i \in 0..(n - 1), i \in Typed PROVE i + 1 \in Typed
    <3>1. i + 1 \in 1..n /\ i + 1 \in 0..n /\ (i + 1) - 1 = i
      BY <1>1
    <3> QED BY <1>5, <2>2, <3>1
  <2> HIDE DEF Typed
  <2> QED BY <1>1, <2>1, <2>2, UpToInduction
<1>7. g \in [0..n -> A]
  BY <1>6 DEF g
<1>8. \A i \in 1..n : g[i] = step[<<g[i - 1], s[i]>>]
  <2>1. \A i \in 1..n : i - 1 \in 0..n
    BY <1>1
  <2> QED BY <1>5, <1>7, <2>1
<1>9. g[n] = h[DOMAIN s]
  BY <1>1, <1>3
<1> QED BY <1>4, <1>7, <1>8, <1>9 DEF Iterates, IterationTo, n

(* One more element is one more step. *)
LEMMA IterationAppended ==
  ASSUME NEW S, NEW s \in Seq(S), NEW x \in S, NEW A, NEW base, NEW step,
         NEW v, NEW f, IterationTo(v, f, s, A, base, step),
         NEW w, NEW g, IterationTo(w, g, Append(s, x), A, base, step)
  PROVE  v \in A /\ w = step[<<v, x>>]
<1> DEFINE t == Append(s, x)
           n == Len(s)
<1>1. /\ t \in Seq(S) /\ Len(t) = n + 1 /\ n \in Nat /\ t[n + 1] = x
      /\ \A i \in 1..n : t[i] = s[i]
  BY AppendProperties, LenProperties
<1>2. f \in [0..n -> A] /\ Iterates(f, base, step, s) /\ f[n] = v
  BY DEF IterationTo
<1>3. Iterates(g, base, step, t) /\ g[Len(t)] = w
  BY DEF IterationTo
<1>4. Len(s) = n
  OBVIOUS
<1> HIDE DEF t, n
<1>5. f[n] = g[n]
  <2>1. Len(s) \in Nat /\ Len(t) \in Nat /\ n <= Len(s) /\ n <= Len(t)
    BY <1>1, <1>4
  <2>2. \A i \in 1..n : s[i] = t[i]
    BY <1>1
  <2> QED BY <1>1, <1>2, <1>3, <2>1, <2>2, IteratesUnique
<1>6. g[n + 1] = step[<<g[n], x>>]
  BY <1>1, <1>3 DEF Iterates
<1> QED BY <1>1, <1>2, <1>3, <1>5, <1>6

-----------------------------------------------------------------------------
(* Sums over the elements of a set, whatever the order in which they are      *)
(* picked.                                                                    *)

SumsSubsets(sum, S, f, pick) ==
  \A T \in SUBSET S : sum[T] = IF T = {} THEN 0 ELSE f[pick[T]] + sum[T \ {pick[T]}]

LEMMA SumExists ==
  ASSUME NEW S, IsFiniteSet(S), NEW f \in [S -> Int],
         NEW pick, \A T \in SUBSET S : T # {} => pick[T] \in T
  PROVE  \E sum \in [SUBSET S -> Int] : SumsSubsets(sum, S, f, pick)
<1> DEFINE step == [p \in Int \X S |-> f[p[2]] + p[1]]
<1>1. step \in [Int \X S -> Int] /\ \A a \in Int, x \in S : step[<<a, x>>] = f[x] + a
  OBVIOUS
<1> HIDE DEF step
<1>2. 0 \in Int
  OBVIOUS
<1>3. PICK sum \in [SUBSET S -> Int] : FoldsSubsets(sum, S, 0, step, pick)
  BY <1>1, <1>2, FoldExists
<1>4. ASSUME NEW T \in SUBSET S, T # {} PROVE sum[T] = f[pick[T]] + sum[T \ {pick[T]}]
  <2>1. sum[T \ {pick[T]}] \in Int /\ pick[T] \in S
    BY <1>4
  <2>2. sum[T] = step[<<sum[T \ {pick[T]}], pick[T]>>]
    BY <1>3, <1>4 DEF FoldsSubsets
  <2> QED BY <1>1, <2>1, <2>2
<1>5. sum[{}] = 0
  BY <1>3 DEF FoldsSubsets
<1> QED BY <1>4, <1>5 DEF SumsSubsets

LEMMA SumUnique ==
  ASSUME NEW S, IsFiniteSet(S), NEW f, NEW pick, \A T \in SUBSET S : T # {} => pick[T] \in T,
         NEW F, SumsSubsets(F, S, f, pick), NEW G, SumsSubsets(G, S, f, pick)
  PROVE  F[S] = G[S]
<1> DEFINE Good == {n \in Nat : \A T \in SUBSET S : Cardinality(T) = n => F[T] = G[T]}
<1>0. \A T \in SUBSET S : IsFiniteSet(T) /\ Cardinality(T) \in Nat
  BY FS_Subset, FS_CardinalityType
<1>1. 0 \in Good
  <2>1. \A T \in SUBSET S : Cardinality(T) = 0 => T = {}
    BY <1>0, FS_EmptySet
  <2>2. F[{}] = 0 /\ G[{}] = 0
    BY DEF SumsSubsets
  <2> QED BY <2>1, <2>2
<1>2. ASSUME NEW n \in Nat, n \in Good PROVE n + 1 \in Good
  <2> SUFFICES ASSUME NEW T \in SUBSET S, Cardinality(T) = n + 1 PROVE F[T] = G[T]
    OBVIOUS
  <2>1. T # {} /\ pick[T] \in T
    BY <1>0, FS_EmptySet
  <2>2. Cardinality(T \ {pick[T]}) = Cardinality(T) - 1
    BY <1>0, <2>1, FS_RemoveElement
  <2>3. F[T \ {pick[T]}] = G[T \ {pick[T]}]
    BY <1>2, <2>2
  <2> QED BY <2>1, <2>3 DEF SumsSubsets
<1> HIDE DEF Good
<1>3. 0..Cardinality(S) \subseteq Good
  BY <1>0, <1>1, <1>2, UpToInduction
<1>4. Cardinality(S) \in Good
  BY <1>0, <1>3
<1> QED BY <1>4 DEF Good

(* One term that changes from a to b changes the sum by as much. *)
Shifted(x, y, a, b) == y = x + b - a

LEMMA SumDiffers ==
  ASSUME NEW S, IsFiniteSet(S), NEW f \in [S -> Int], NEW g \in [S -> Int],
         NEW pick, \A T \in SUBSET S : T # {} => pick[T] \in T,
         NEW F \in [SUBSET S -> Int], SumsSubsets(F, S, f, pick),
         NEW G \in [SUBSET S -> Int], SumsSubsets(G, S, g, pick),
         NEW d \in S, \A x \in S \ {d} : f[x] = g[x]
  PROVE  Shifted(F[S], G[S], f[d], g[d])
<1> DEFINE Differ(T) == G[T] = F[T] + (IF d \in T THEN g[d] - f[d] ELSE 0)
           Good == {n \in Nat : \A T \in SUBSET S : Cardinality(T) = n => Differ(T)}
<1>0. \A T \in SUBSET S : IsFiniteSet(T) /\ Cardinality(T) \in Nat
  BY FS_Subset, FS_CardinalityType
<1>1. 0 \in Good
  <2>1. \A T \in SUBSET S : Cardinality(T) = 0 => T = {}
    BY <1>0, FS_EmptySet
  <2>2. F[{}] = 0 /\ G[{}] = 0
    BY DEF SumsSubsets
  <2>3. Differ({})
    BY <2>2
  <2> HIDE DEF Differ
  <2> QED BY <2>1, <2>3
<1>2. ASSUME NEW n \in Nat, n \in Good PROVE n + 1 \in Good
  <2> SUFFICES ASSUME NEW T \in SUBSET S, Cardinality(T) = n + 1 PROVE Differ(T)
    OBVIOUS
  <2> DEFINE p == pick[T]
             U == T \ {p}
  <2>1. T # {} /\ p \in T /\ p \in S
    BY <1>0, FS_EmptySet
  <2>2. Cardinality(U) = n /\ U \in SUBSET S
    <3>1. Cardinality(U) = Cardinality(T) - 1
      BY <1>0, <2>1, FS_RemoveElement
    <3> QED BY <3>1
  <2>3. Differ(U)
    BY <1>2, <2>2
  <2>4. F[T] = f[p] + F[U] /\ G[T] = g[p] + G[U]
    BY <2>1 DEF SumsSubsets
  <2>5. f[p] \in Int /\ g[p] \in Int /\ f[d] \in Int /\ g[d] \in Int /\ F[U] \in Int /\ G[U] \in Int
    BY <2>1, <2>2
  <2>6. CASE p = d
    BY <2>1, <2>3, <2>4, <2>5, <2>6
  <2>7. CASE p # d
    <3>1. f[p] = g[p] /\ (d \in T <=> d \in U)
      BY <2>1, <2>7
    <3> QED BY <2>3, <2>4, <2>5, <3>1
  <2> QED BY <2>6, <2>7
<1> HIDE DEF Good
<1>3. 0..Cardinality(S) \subseteq Good
  BY <1>0, <1>1, <1>2, UpToInduction
<1>4. Cardinality(S) \in Good
  BY <1>0, <1>3
<1>5. Differ(S)
  BY <1>4 DEF Good
<1>6. F[S] \in Int /\ G[S] \in Int /\ f[d] \in Int /\ g[d] \in Int
  OBVIOUS
<1> QED BY <1>5, <1>6 DEF Shifted

(* Nothing sums to nothing. *)
LEMMA SumOfZeros ==
  ASSUME NEW S, IsFiniteSet(S), NEW f, \A x \in S : f[x] = 0,
         NEW pick, \A T \in SUBSET S : T # {} => pick[T] \in T,
         NEW F, SumsSubsets(F, S, f, pick)
  PROVE  F[S] = 0
<1> DEFINE Good == {n \in Nat : \A T \in SUBSET S : Cardinality(T) = n => F[T] = 0}
<1>0. \A T \in SUBSET S : IsFiniteSet(T) /\ Cardinality(T) \in Nat
  BY FS_Subset, FS_CardinalityType
<1>1. 0 \in Good
  <2>1. \A T \in SUBSET S : Cardinality(T) = 0 => T = {}
    BY <1>0, FS_EmptySet
  <2>2. F[{}] = 0
    BY DEF SumsSubsets
  <2> QED BY <2>1, <2>2
<1>2. ASSUME NEW n \in Nat, n \in Good PROVE n + 1 \in Good
  <2> SUFFICES ASSUME NEW T \in SUBSET S, Cardinality(T) = n + 1 PROVE F[T] = 0
    OBVIOUS
  <2>1. T # {} /\ pick[T] \in T /\ pick[T] \in S
    BY <1>0, FS_EmptySet
  <2>2. Cardinality(T \ {pick[T]}) = Cardinality(T) - 1
    BY <1>0, <2>1, FS_RemoveElement
  <2>3. F[T \ {pick[T]}] = 0
    BY <1>2, <2>2
  <2>4. F[T] = f[pick[T]] + F[T \ {pick[T]}]
    BY <2>1 DEF SumsSubsets
  <2> QED BY <2>1, <2>3, <2>4
<1> HIDE DEF Good
<1>3. 0..Cardinality(S) \subseteq Good
  BY <1>0, <1>1, <1>2, UpToInduction
<1>4. Cardinality(S) \in Good
  BY <1>0, <1>3
<1> QED BY <1>4 DEF Good
=============================================================================
