------------------------------ MODULE Folding ------------------------------
(***************************************************************************)
(* Induction for the folds and the recursive functions of the other        *)
(* modules.  A theorem that takes an operator as a parameter is out of the *)
(* provers' reach, but the theorems of a module are instantiated with the  *)
(* module's CONSTANTs: so what a left fold does is stated here for any     *)
(* step Op and invariant Inv, and each fold of the project instantiates    *)
(* this module with its own.                                               *)
(***************************************************************************)
EXTENDS SequencesExt, WellFoundedInduction, TLAPS

CONSTANTS
    Op(_, _, _, _), \* Op(e, d, acc, x): the step, which sees e and d of its surroundings
    Inv(_, _, _)    \* Inv(ctx, n, acc): what holds of acc after n members

(***************************************************************************)
(* Numbers.                                                                *)
(***************************************************************************)
\* A set of numbers has a least member.
LEMMA LeastNumber ==
  ASSUME NEW T, T \subseteq Nat, T # {}
  PROVE  \E n \in T : \A m \in T : n <= m
<1> DEFINE R == OpToRel(<, Nat)
<1>1. IsWellFoundedOn(R, Nat)
  BY NatLessThanWellFounded
<1>2. \A m, n \in Nat : m < n => <<m, n>> \in R
  BY DEF OpToRel
<1> HIDE DEF R
<1>3. PICK n \in T : \A m \in T : ~(<<m, n>> \in R)
  BY <1>1, WFMin
<1>4. \A m \in T : ~(m < n)
  BY <1>2, <1>3
<1>5. \A m \in T : n <= m
  BY <1>4
<1> QED
  BY <1>5

\* A set that holds 0, and n + 1 with every n, holds all numbers.
LEMMA SetInduction ==
  ASSUME NEW S, 0 \in S, \A n \in Nat : n \in S => n + 1 \in S
  PROVE  \A n \in Nat : n \in S
<1> DEFINE T == {n \in Nat : n \notin S}
<1> SUFFICES T = {}
  OBVIOUS
<1>1. SUFFICES ASSUME T # {} PROVE FALSE
  OBVIOUS
<1>2. T \subseteq Nat
  OBVIOUS
<1> HIDE DEF T
<1>3. PICK n \in T : \A m \in T : n <= m
  BY <1>1, <1>2, LeastNumber
<1>4. n \in Nat /\ n # 0
  BY <1>2 DEF T
<1>5. n - 1 \in Nat /\ n - 1 \notin T
  BY <1>3, <1>4
<1> QED
  BY <1>4, <1>5 DEF T

\* The greatest member of a set of numbers up to n.
LEMMA MaxInRange ==
  ASSUME NEW n \in Nat, NEW S, S \subseteq 1 .. n, S # {}
  PROVE  Max(S) \in S /\ \A m \in S : m <= Max(S)
<1> DEFINE T == {n - m : m \in S}
<1>1. T \subseteq Nat /\ T # {}
  <2>1. \A m \in S : m \in Nat /\ n - m \in Nat
    OBVIOUS
  <2> QED
    BY <2>1
<1>2. PICK t \in T : \A u \in T : t <= u
  BY <1>1, LeastNumber
<1>3. PICK x \in S : t = n - x
  BY <1>2
<1>4. \A m \in S : x >= m
  BY <1>2, <1>3
<1>5. Max(S) \in S /\ \A m \in S : Max(S) >= m
  BY <1>4 DEF Max
<1> QED
  BY <1>5

\* So the range's own greatest member is its end.
LEMMA MaxOfRange ==
  ASSUME NEW n \in Nat \ {0}
  PROVE  Max(1 .. n) = n
<1>1. n \in 1 .. n /\ 1 .. n \subseteq 1 .. n /\ 1 .. n # {} /\ n \in Nat
  OBVIOUS
<1>2. Max(1 .. n) \in 1 .. n /\ \A m \in 1 .. n : m <= Max(1 .. n)
  BY <1>1, MaxInRange
<1> QED
  BY <1>1, <1>2

(***************************************************************************)
(* Folds.                                                                  *)
(***************************************************************************)
\* "f" is the function the fold over 1 .. n is defined with.
Iterates(f, e, d, base, seq, n) ==
    f = [s \in SUBSET (1 .. n) |->
            IF s = {} THEN base ELSE Op(e, d, f[s \ {Max(s)}], seq[Max(s)])]

\* There is one, however long the sequence.
LEMMA IteratesExists ==
  ASSUME NEW e, NEW d, NEW base, NEW seq
  PROVE  \A n \in Nat : \E f : Iterates(f, e, d, base, seq, n)
<1> DEFINE S == {n \in Nat : \E f : Iterates(f, e, d, base, seq, n)}
<1>1. 0 \in S
  <2> DEFINE f == [s \in SUBSET (1 .. 0) |-> base]
  <2>1. \A s \in SUBSET (1 .. 0) : s = {}
    OBVIOUS
  <2>2. Iterates(f, e, d, base, seq, 0)
    BY <2>1 DEF Iterates
  <2> QED
    BY <2>2
<1>2. ASSUME NEW n \in Nat, n \in S PROVE n + 1 \in S
  <2>1. PICK f : Iterates(f, e, d, base, seq, n)
    BY <1>2
  <2> DEFINE g == [s \in SUBSET (1 .. n+1) |->
                      IF s = {} THEN base
                      ELSE Op(e, d, f[s \ {Max(s)}], seq[Max(s)])]
  <2>2. ASSUME NEW s \in SUBSET (1 .. n+1), s # {}
        PROVE  s \ {Max(s)} \in SUBSET (1 .. n)
    <3>1. n + 1 \in Nat /\ s \subseteq 1 .. n+1
      OBVIOUS
    <3>2. Max(s) \in s /\ \A m \in s : m <= Max(s)
      BY <2>2, <3>1, MaxInRange
    <3>3. ASSUME NEW m \in s, m # Max(s) PROVE m \in 1 .. n
      <4>1. m \in 1 .. n+1 /\ Max(s) \in 1 .. n+1 /\ m <= Max(s)
        BY <3>1, <3>2
      <4> QED
        BY <4>1, <3>3
    <3> QED
      BY <3>3
  <2>3. ASSUME NEW s \in SUBSET (1 .. n) PROVE g[s] = f[s]
    <3>1. f[s] = IF s = {} THEN base ELSE Op(e, d, f[s \ {Max(s)}], seq[Max(s)])
      BY <2>1 DEF Iterates
    <3>2. s \in SUBSET (1 .. n+1)
      OBVIOUS
    <3> QED
      BY <3>1, <3>2
  <2>4. \A s \in SUBSET (1 .. n+1) :
           s # {} => g[s] = Op(e, d, g[s \ {Max(s)}], seq[Max(s)])
    BY <2>2, <2>3
  <2>5. Iterates(g, e, d, base, seq, n+1)
    <3> HIDE DEF g
    <3>1. g = [s \in SUBSET (1 .. n+1) |-> g[s]] /\ g[{}] = base
      BY DEF g
    <3>2. \A s \in SUBSET (1 .. n+1) :
             g[s] = IF s = {} THEN base ELSE Op(e, d, g[s \ {Max(s)}], seq[Max(s)])
      BY <3>1, <2>4
    <3> QED
      BY <3>1, <3>2 DEF Iterates
  <2> QED
    BY <2>5
<1> HIDE DEF S
<1>3. \A n \in Nat : n \in S
  BY <1>1, <1>2, SetInduction
<1> QED
  BY <1>3 DEF S

\* Its value for one number more is one step more.
LEMMA IteratesStep ==
  ASSUME NEW f, NEW e, NEW d, NEW base, NEW seq, NEW n \in Nat,
         Iterates(f, e, d, base, seq, n), NEW k \in Nat, k + 1 <= n
  PROVE  f[1 .. k+1] = Op(e, d, f[1 .. k], seq[k+1])
<1>1. Max(1 .. k+1) = k+1 /\ (1 .. k+1) \ {k+1} = 1 .. k
  BY MaxOfRange
<1>2. 1 .. k+1 \in SUBSET (1 .. n) /\ 1 .. k+1 # {}
  <2>1. \A m \in 1 .. k+1 : m \in 1 .. n
    OBVIOUS
  <2>2. 1 \in 1 .. k+1
    OBVIOUS
  <2> QED
    BY <2>1, <2>2
<1> QED
  BY <1>1, <1>2 DEF Iterates

Folded(e, d, base, seq) == FoldLeft(LAMBDA acc, x : Op(e, d, acc, x), base, seq)

\* What holds of the base, and is kept by every member, holds of the fold.
THEOREM FoldInduction ==
  ASSUME NEW e, NEW d, NEW ctx, NEW base, NEW n \in Nat, NEW seq, DOMAIN seq = 1 .. n,
         Inv(ctx, 0, base),
         \A i \in 1 .. n : \A acc : Inv(ctx, i-1, acc) => Inv(ctx, i, Op(e, d, acc, seq[i]))
  PROVE  Inv(ctx, n, Folded(e, d, base, seq))
<1> DEFINE F == CHOOSE f : Iterates(f, e, d, base, seq, n)
           S == {k \in Nat : k <= n => Inv(ctx, k, F[1 .. k])}
<1>1. Folded(e, d, base, seq) = F[1 .. n]
  BY DEF Folded, FoldLeft, MapThenFoldSet, Iterates
<1>2. Iterates(F, e, d, base, seq, n)
  BY IteratesExists
<1> HIDE DEF F
<1>3. 0 \in S
  <2>1. 1 .. 0 = {} /\ {} \in SUBSET (1 .. n)
    OBVIOUS
  <2>2. F[{}] = base
    BY <1>2, <2>1 DEF Iterates
  <2> QED
    BY <2>1, <2>2
<1>4. ASSUME NEW k \in Nat, k \in S PROVE k + 1 \in S
  <2>1. SUFFICES ASSUME k + 1 <= n PROVE Inv(ctx, k+1, F[1 .. k+1])
    OBVIOUS
  <2>2. Inv(ctx, k, F[1 .. k])
    BY <1>4, <2>1
  <2>3. F[1 .. k+1] = Op(e, d, F[1 .. k], seq[k+1])
    BY <1>2, <2>1, IteratesStep
  <2>4. k + 1 \in 1 .. n /\ (k + 1) - 1 = k
    BY <2>1
  <2> QED
    BY <2>2, <2>3, <2>4
<1> HIDE DEF S
<1>5. n \in S
  BY <1>3, <1>4, SetInduction
<1>6. Inv(ctx, n, F[1 .. n])
  BY <1>5 DEF S
<1> QED
  BY <1>1, <1>6

\* Two folds whose steps agree wherever the invariant holds are equal.
THEOREM FoldAgreement ==
  ASSUME NEW e1, NEW e2, NEW d, NEW ctx, NEW base, NEW n \in Nat, NEW seq, DOMAIN seq = 1 .. n,
         Inv(ctx, 0, base),
         \A i \in 1 .. n : \A acc : Inv(ctx, i-1, acc) =>
            /\ Inv(ctx, i, Op(e1, d, acc, seq[i]))
            /\ Op(e1, d, acc, seq[i]) = Op(e2, d, acc, seq[i])
  PROVE  Folded(e1, d, base, seq) = Folded(e2, d, base, seq)
<1> DEFINE F1 == CHOOSE f : Iterates(f, e1, d, base, seq, n)
           F2 == CHOOSE f : Iterates(f, e2, d, base, seq, n)
           S  == {k \in Nat : k <= n => /\ Inv(ctx, k, F1[1 .. k])
                                        /\ F1[1 .. k] = F2[1 .. k]}
<1>1. Folded(e1, d, base, seq) = F1[1 .. n] /\ Folded(e2, d, base, seq) = F2[1 .. n]
  BY DEF Folded, FoldLeft, MapThenFoldSet, Iterates
<1>2. Iterates(F1, e1, d, base, seq, n) /\ Iterates(F2, e2, d, base, seq, n)
  BY IteratesExists
<1> HIDE DEF F1, F2
<1>3. 0 \in S
  <2>1. 1 .. 0 = {} /\ {} \in SUBSET (1 .. n)
    OBVIOUS
  <2>2. F1[{}] = base /\ F2[{}] = base
    BY <1>2, <2>1 DEF Iterates
  <2> QED
    BY <2>1, <2>2
<1>4. ASSUME NEW k \in Nat, k \in S PROVE k + 1 \in S
  <2>1. SUFFICES ASSUME k + 1 <= n
                 PROVE  Inv(ctx, k+1, F1[1 .. k+1]) /\ F1[1 .. k+1] = F2[1 .. k+1]
    OBVIOUS
  <2>2. Inv(ctx, k, F1[1 .. k]) /\ F1[1 .. k] = F2[1 .. k]
    BY <1>4, <2>1
  <2>3. F1[1 .. k+1] = Op(e1, d, F1[1 .. k], seq[k+1])
    BY <1>2, <2>1, IteratesStep
  <2>4. F2[1 .. k+1] = Op(e2, d, F2[1 .. k], seq[k+1])
    BY <1>2, <2>1, IteratesStep
  <2>5. k + 1 \in 1 .. n /\ (k + 1) - 1 = k
    BY <2>1
  <2> QED
    BY <2>2, <2>3, <2>4, <2>5
<1> HIDE DEF S
<1>5. n \in S
  BY <1>3, <1>4, SetInduction
<1>6. F1[1 .. n] = F2[1 .. n]
  BY <1>5 DEF S
<1> QED
  BY <1>1, <1>6

\* The fold over a longer sequence is one step more.
THEOREM FoldAppend ==
  ASSUME NEW e, NEW d, NEW base, NEW n \in Nat, NEW seq, DOMAIN seq = 1 .. n,
         NEW longer, DOMAIN longer = 1 .. n+1, \A i \in 1 .. n : longer[i] = seq[i]
  PROVE  Folded(e, d, base, longer) = Op(e, d, Folded(e, d, base, seq), longer[n+1])
<1> DEFINE F == CHOOSE f : Iterates(f, e, d, base, seq, n)
           G == CHOOSE f : Iterates(f, e, d, base, longer, n+1)
           S == {k \in Nat : k <= n => F[1 .. k] = G[1 .. k]}
<1>1. Folded(e, d, base, seq) = F[1 .. n] /\ Folded(e, d, base, longer) = G[1 .. n+1]
  BY DEF Folded, FoldLeft, MapThenFoldSet, Iterates
<1>2. Iterates(F, e, d, base, seq, n) /\ Iterates(G, e, d, base, longer, n+1)
  BY IteratesExists
<1> HIDE DEF F, G
<1>3. 0 \in S
  <2>1. 1 .. 0 = {} /\ {} \in SUBSET (1 .. n) /\ {} \in SUBSET (1 .. n+1)
    OBVIOUS
  <2>2. F[{}] = base /\ G[{}] = base
    BY <1>2, <2>1 DEF Iterates
  <2> QED
    BY <2>1, <2>2
<1>4. ASSUME NEW k \in Nat, k \in S PROVE k + 1 \in S
  <2>1. SUFFICES ASSUME k + 1 <= n PROVE F[1 .. k+1] = G[1 .. k+1]
    OBVIOUS
  <2>2. F[1 .. k] = G[1 .. k]
    BY <1>4, <2>1
  <2>3. F[1 .. k+1] = Op(e, d, F[1 .. k], seq[k+1])
    BY <1>2, <2>1, IteratesStep
  <2>4. G[1 .. k+1] = Op(e, d, G[1 .. k], longer[k+1])
    <3>1. k + 1 <= n + 1 /\ n + 1 \in Nat
      BY <2>1
    <3> QED
      BY <1>2, <3>1, IteratesStep
  <2>5. longer[k+1] = seq[k+1]
    BY <2>1
  <2> QED
    BY <2>2, <2>3, <2>4, <2>5
<1> HIDE DEF S
<1>5. n \in S
  BY <1>3, <1>4, SetInduction
<1>6. F[1 .. n] = G[1 .. n]
  BY <1>5 DEF S
<1>7. G[1 .. n+1] = Op(e, d, G[1 .. n], longer[n+1])
  <2>1. n + 1 <= n + 1 /\ n + 1 \in Nat
    OBVIOUS
  <2> QED
    BY <1>2, <2>1, IteratesStep
<1> QED
  BY <1>1, <1>6, <1>7
============================================================================
