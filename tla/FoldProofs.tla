----------------------------- MODULE FoldProofs -----------------------------
(***************************************************************************)
(* Loops, as folds. FoldLeft and FoldSet of the community modules compute  *)
(* a recursive function by CHOOSE; a loop whose every turn keeps an        *)
(* invariant ends with it.                                                 *)
(*                                                                         *)
(* The turn Op(ctx, q, x) and the invariant Inv(ctx, done, q) are          *)
(* parameters of this module, so that a theorem about one loop is had by   *)
(* an INSTANCE, where the induction theorems of the library, which take an *)
(* operator as a parameter, could not be used. ctx is what the loop reads  *)
(* and does not change; done counts the turns, or holds the elements done. *)
(***************************************************************************)
EXTENDS SequencesExt, FiniteSetTheorems, WellFoundedInduction, TLAPS

CONSTANTS
    Op(_, _, _),     \* one turn, from ctx, the state so far and the element
    Inv(_, _, _)     \* what the turns keep, of ctx, what is done and the state

Less == {p \in Nat \X Nat : p[1] < p[2]}

\* A set of numbers that is not empty has a least element.
LEMMA Least ==
    ASSUME NEW S, S \subseteq Nat, S # {}
    PROVE  \E m \in S : \A k \in S : m <= k
<1>1. IsWellFoundedOn(Less, Nat)
  BY NatLessThanWellFounded DEF OpToRel, Less
<1>2. PICK m \in S : \A k \in S : <<k, m>> \notin Less
  BY <1>1, WFMin
<1>3. ASSUME NEW k \in S PROVE m <= k
  <2>1. <<k, m>> \notin Less /\ k \in Nat /\ m \in Nat
    BY <1>2
  <2>2. ~(k < m)
    BY <2>1 DEF Less
  <2>3. QED
    BY <2>1, <2>2
<1>4. QED
  BY <1>3

\* Induction, about a set instead of a predicate.
LEMMA Induction ==
    ASSUME NEW S, 0 \in S, \A n \in Nat : n \in S => n + 1 \in S
    PROVE  Nat \subseteq S
<1> SUFFICES ASSUME Nat \ S # {} PROVE FALSE
  OBVIOUS
<1>1. PICK m \in Nat \ S : \A k \in Nat \ S : m <= k
  <2>1. Nat \ S \subseteq Nat
    OBVIOUS
  <2>2. QED
    BY <2>1, Least
<1>2. m # 0 /\ m - 1 \in Nat
  BY <1>1
<1>3. m - 1 \in S
  BY <1>1, <1>2
<1>4. m \in S
  BY <1>2, <1>3
<1>5. QED
  BY <1>4

-----------------------------------------------------------------------------
\* The equation of the function that MapThenFoldSet defines.
Solves(f, ctx, base, val, choice, D) ==
    f = [t \in D |-> IF t = {} THEN base
                     ELSE Op(ctx, f[t \ {choice[t]}], val[choice[t]])]

\* Over a finite set the equation has a solution, built subset by subset in the
\* order of their sizes: the CHOOSE of a fold is not arbitrary.
LEMMA IterExists ==
    ASSUME NEW ctx, NEW base, NEW val, NEW choice, NEW S, IsFiniteSet(S),
           \A t \in SUBSET S : t # {} => choice[t] \in t
    PROVE  \E f : Solves(f, ctx, base, val, choice, SUBSET S)
<1> DEFINE D(m) == {t \in SUBSET S : Cardinality(t) <= m}
           E == {m \in Nat : \E f : Solves(f, ctx, base, val, choice, D(m))}
<1>1. 0 \in E
  <2>1. D(0) \subseteq {{}}
    BY FS_EmptySet, FS_Subset, FS_CardinalityType
  <2> DEFINE f == [t \in D(0) |-> base]
  <2>2. Solves(f, ctx, base, val, choice, D(0))
    BY <2>1 DEF Solves
  <2>3. QED
    BY <2>2
<1>2. ASSUME NEW m \in Nat, m \in E PROVE m + 1 \in E
  <2>1. PICK f : Solves(f, ctx, base, val, choice, D(m))
    BY <1>2
  <2> DEFINE g == [t \in D(m + 1) |-> IF t = {} THEN base
                       ELSE Op(ctx, f[t \ {choice[t]}], val[choice[t]])]
  <2>2. ASSUME NEW t \in D(m + 1), t # {}
        PROVE  t \ {choice[t]} \in D(m)
    <3>1. choice[t] \in t /\ IsFiniteSet(t) /\ t \ {choice[t]} \in SUBSET S
      BY <2>2, FS_Subset
    <3>2. Cardinality(t \ {choice[t]}) = Cardinality(t) - 1 /\ Cardinality(t) \in Nat
      BY <3>1, FS_RemoveElement, FS_CardinalityType
    <3>3. QED
      BY <2>2, <3>1, <3>2
  <2>3. ASSUME NEW t \in D(m) PROVE t \in D(m + 1) /\ g[t] = f[t]
    <3>1. t \in D(m + 1)
      <4>1. Cardinality(t) \in Nat
        BY FS_Subset, FS_CardinalityType
      <4>2. QED
        BY <4>1
    <3>2. QED
      BY <2>1, <3>1 DEF Solves
  <2>4. g = [t \in D(m + 1) |-> IF t = {} THEN base
                       ELSE Op(ctx, g[t \ {choice[t]}], val[choice[t]])]
    BY <2>2, <2>3
  <2>5. Solves(g, ctx, base, val, choice, D(m + 1))
    BY <2>4 DEF Solves
  <2>6. \E h : Solves(h, ctx, base, val, choice, D(m + 1))
    <3> HIDE DEF D, g
    <3>1. QED
      BY <2>5
  <2>7. m + 1 \in Nat
    OBVIOUS
  <2> HIDE DEF D
  <2>8. QED
    BY <2>6, <2>7
<1>3. Cardinality(S) \in Nat
  BY FS_CardinalityType
<1>4. Cardinality(S) \in E
  <2> HIDE DEF E
  <2>1. QED
    BY <1>1, <1>2, <1>3, Induction
<1>5. D(Cardinality(S)) = SUBSET S
  BY FS_Subset
<1>6. QED
  BY <1>4, <1>5

\* FoldLeft takes the largest index first.
LEMMA MaxIn ==
    ASSUME NEW n \in Nat, NEW t \in SUBSET (1 .. n), t # {}
    PROVE  Max(t) \in t /\ \A i \in t : i <= Max(t)
<1> DEFINE D == {n - i : i \in t}
<1>1. PICK m \in D : \A k \in D : m <= k
  <2>1. \A i \in t : n - i \in Nat
    OBVIOUS
  <2>2. D \subseteq Nat /\ D # {}
    BY <2>1
  <2> HIDE DEF D
  <2>3. QED
    BY <2>2, Least
<1>2. PICK i \in t : m = n - i
  BY <1>1
<1>3. ASSUME NEW j \in t PROVE i >= j
  <2>1. m <= n - j
    BY <1>1
  <2>2. i \in 1 .. n /\ j \in 1 .. n
    OBVIOUS
  <2>3. QED
    BY <1>2, <2>1, <2>2
<1>4. QED
  BY <1>3 DEF Max

-----------------------------------------------------------------------------
\* FoldLeft and FoldSet of Op, with their definitions expanded.
LeftFold(ctx, base, s) ==
    (CHOOSE f : f = [t \in SUBSET DOMAIN s |->
                        IF t = {} THEN base
                        ELSE Op(ctx, f[t \ {CHOOSE i \in t : \A j \in t : i >= j}],
                                s[CHOOSE i \in t : \A j \in t : i >= j])])[DOMAIN s]

SetFold(ctx, base, S) ==
    (CHOOSE f : f = [t \in SUBSET S |->
                        IF t = {} THEN base
                        ELSE Op(ctx, f[t \ {CHOOSE x \in t : TRUE}], CHOOSE x \in t : TRUE)])[S]

\* A loop over a sequence ends with its invariant if each turn, the k-th after
\* k - 1 others, keeps it.
THEOREM FoldLeftKeeps ==
    ASSUME NEW ctx, NEW base, NEW s, NEW n \in Nat, DOMAIN s = 1 .. n,
           Inv(ctx, 0, base),
           \A k \in 1 .. n : \A q : Inv(ctx, k - 1, q) => Inv(ctx, k, Op(ctx, q, s[k]))
    PROVE  Inv(ctx, n, LeftFold(ctx, base, s))
<1> DEFINE choice == [t \in SUBSET (1 .. n) |-> Max(t)]
           S == 1 .. n
           f == CHOOSE f : f = [t \in SUBSET S |-> IF t = {} THEN base
                                   ELSE Op(ctx, f[t \ {Max(t)}], s[Max(t)])]
<1>1. LeftFold(ctx, base, s) = f[S]
  BY DEF LeftFold, Max
<1>2. \E g : Solves(g, ctx, base, s, choice, SUBSET S)
  <2>1. \A t \in SUBSET S : t # {} => choice[t] \in t
    BY MaxIn
  <2>2. IsFiniteSet(S)
    BY FS_Interval
  <2> HIDE DEF choice, S
  <2>3. QED
    BY <2>1, <2>2, IterExists
<1>3. \E g : g = [t \in SUBSET S |-> IF t = {} THEN base
                                   ELSE Op(ctx, g[t \ {Max(t)}], s[Max(t)])]
  BY <1>2 DEF Solves
<1>4. f = [t \in SUBSET S |-> IF t = {} THEN base
                                   ELSE Op(ctx, f[t \ {Max(t)}], s[Max(t)])]
  BY <1>3
<1> HIDE DEF f
<1> DEFINE E == {k \in Nat : k <= n => Inv(ctx, k, f[1 .. k])}
<1>5. 0 \in E
  BY <1>4
<1>6. ASSUME NEW k \in Nat, k \in E PROVE k + 1 \in E
  <2> SUFFICES ASSUME k + 1 <= n PROVE Inv(ctx, k + 1, f[1 .. (k + 1)])
    OBVIOUS
  <2>1. Max(1 .. (k + 1)) = k + 1
    <3>1. 1 .. (k + 1) \in SUBSET (1 .. n) /\ k + 1 \in 1 .. (k + 1)
      OBVIOUS
    <3>2. Max(1 .. (k + 1)) \in 1 .. (k + 1) /\ k + 1 <= Max(1 .. (k + 1))
      BY <3>1, MaxIn
    <3>3. QED
      BY <3>2
  <2>2. (1 .. (k + 1)) \ {k + 1} = 1 .. k
    OBVIOUS
  <2>3. f[1 .. (k + 1)] = Op(ctx, f[1 .. k], s[k + 1])
    <3>1. 1 .. (k + 1) \in SUBSET S /\ k + 1 \in 1 .. (k + 1)
      OBVIOUS
    <3>2. QED
      BY <1>4, <2>1, <2>2, <3>1
  <2>4. QED
    BY <1>6, <2>3
<1>7. n \in E
  <2> HIDE DEF E
  <2>1. QED
    BY <1>5, <1>6, Induction
<1>8. Inv(ctx, n, f[S])
  BY <1>7
<1>9. QED
  BY <1>1, <1>8

\* A loop over a finite set ends with its invariant if each turn, in whatever
\* order, keeps it.
THEOREM FoldSetKeeps ==
    ASSUME NEW ctx, NEW base, NEW S, IsFiniteSet(S), Inv(ctx, {}, base),
           \A T \in SUBSET S, x \in S : \A q :
               x \notin T /\ Inv(ctx, T, q) => Inv(ctx, T \cup {x}, Op(ctx, q, x))
    PROVE  Inv(ctx, S, SetFold(ctx, base, S))
<1> DEFINE Some(t) == CHOOSE x \in t : TRUE
           val == [x \in S |-> x]
           choice == [t \in SUBSET S |-> Some(t)]
           f == CHOOSE f : f = [t \in SUBSET S |-> IF t = {} THEN base
                                   ELSE Op(ctx, f[t \ {Some(t)}], Some(t))]
<1>1. SetFold(ctx, base, S) = f[S]
  BY DEF SetFold
<1>2. \E g : Solves(g, ctx, base, val, choice, SUBSET S)
  BY IterExists
<1>3. \E g : g = [t \in SUBSET S |-> IF t = {} THEN base
                                   ELSE Op(ctx, g[t \ {Some(t)}], Some(t))]
  BY ZenonT(60), <1>2 DEF Solves
<1>4. f = [t \in SUBSET S |-> IF t = {} THEN base
                                   ELSE Op(ctx, f[t \ {Some(t)}], Some(t))]
  BY <1>3
<1> HIDE DEF f
<1> DEFINE E == {k \in Nat : \A t \in SUBSET S : Cardinality(t) = k => Inv(ctx, t, f[t])}
<1>5. 0 \in E
  BY <1>4, FS_EmptySet, FS_Subset
<1>6. ASSUME NEW k \in Nat, k \in E PROVE k + 1 \in E
  <2> SUFFICES ASSUME NEW t \in SUBSET S, Cardinality(t) = k + 1 PROVE Inv(ctx, t, f[t])
    OBVIOUS
  <2>1. t # {} /\ Some(t) \in t /\ IsFiniteSet(t)
    BY FS_EmptySet, FS_Subset
  <2>2. Cardinality(t \ {Some(t)}) = k
    <3> HIDE DEF Some
    <3>1. Cardinality(t \ {Some(t)}) = Cardinality(t) - 1
      BY <2>1, FS_RemoveElement
    <3>2. QED
      BY <3>1
  <2> HIDE DEF Some
  <2>3. Inv(ctx, t \ {Some(t)}, f[t \ {Some(t)}])
    BY <1>6, <2>2
  <2>4. (t \ {Some(t)}) \cup {Some(t)} = t
    BY <2>1
  <2>5. f[t] = Op(ctx, f[t \ {Some(t)}], Some(t))
    BY <1>4, <2>1
  <2>6. QED
    BY <2>1, <2>3, <2>4, <2>5
<1>7. Cardinality(S) \in E
  <2>1. Cardinality(S) \in Nat
    BY FS_CardinalityType
  <2> HIDE DEF E
  <2>2. QED
    BY <1>5, <1>6, <2>1, Induction
<1>8. QED
  BY <1>1, <1>7
=============================================================================
