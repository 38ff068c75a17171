-------------------------- MODULE ErizoAgentProofs --------------------------
(***************************************************************************)
(* Proofs about the pool of ErizoAgent, for every size of the pool.        *)
(***************************************************************************)
EXTENDS ErizoAgent, TLAPS, SequenceTheorems, FiniteSetTheorems

(***************************************************************************)
(* Lemmas on lists without repetition: what shift, push, splice and the    *)
(* launches of fillErizos do to the set of ids of a list.                  *)
(***************************************************************************)

\* What ToSet says of a sequence.
LEMMA ToSetElements ==
    ASSUME NEW S, NEW s \in Seq(S)
    PROVE  /\ \A x : x \in ToSet(s) <=> \E i \in 1 .. Len(s) : s[i] = x
           /\ ToSet(s) \subseteq S
<1>1. DOMAIN s = 1 .. Len(s) BY LenProperties
<1>2. \A i \in 1 .. Len(s) : s[i] \in S BY ElementOfSeq
<1> QED BY <1>1, <1>2 DEF ToSet

\* push of a new id.
LEMMA AppendList ==
    ASSUME NEW S, NEW s \in Seq(S), IsInjective(s), NEW x \in S, x \notin ToSet(s)
    PROVE  /\ Append(s, x) \in Seq(S)
           /\ Len(Append(s, x)) = Len(s) + 1
           /\ IsInjective(Append(s, x))
           /\ ToSet(Append(s, x)) = ToSet(s) \cup {x}
<1> DEFINE t == Append(s, x)
<1>1. /\ t \in Seq(S)
      /\ Len(t) = Len(s) + 1
      /\ \A i \in 1 .. Len(s) : t[i] = s[i]
      /\ t[Len(s) + 1] = x
  BY AppendProperties
<1>2. Len(s) \in Nat /\ DOMAIN s = 1 .. Len(s) /\ DOMAIN t = 1 .. Len(t)
  BY <1>1, LenProperties
<1> HIDE DEF t
<1>3. \A i \in 1 .. Len(s) : s[i] # x BY ToSetElements
<1>4. \A i, j \in 1 .. Len(s) : s[i] = s[j] => i = j BY <1>2 DEF IsInjective
<1>5. IsInjective(t)
  <2> SUFFICES ASSUME NEW i \in 1 .. Len(s) + 1, NEW j \in 1 .. Len(s) + 1, t[i] = t[j]
               PROVE  i = j
    BY <1>1, <1>2 DEF IsInjective
  <2>1. CASE i \in 1 .. Len(s) /\ j \in 1 .. Len(s) BY <2>1, <1>1, <1>4
  <2>2. CASE i = Len(s) + 1 \/ j = Len(s) + 1
    <3>1. i \in 1 .. Len(s) \/ i = Len(s) + 1 BY <1>2
    <3>2. j \in 1 .. Len(s) \/ j = Len(s) + 1 BY <1>2
    <3> QED BY <2>2, <3>1, <3>2, <1>1, <1>3
  <2> QED BY <2>1, <2>2, <1>2
<1>6. \A y : y \in ToSet(t) <=> y \in ToSet(s) \cup {x}
  <2> TAKE y
  <2>1. y \in ToSet(t) <=> \E i \in 1 .. Len(t) : t[i] = y BY <1>1, ToSetElements
  <2>2. y \in ToSet(s) <=> \E i \in 1 .. Len(s) : s[i] = y BY ToSetElements
  <2>3. 1 .. Len(t) = (1 .. Len(s)) \cup {Len(s) + 1} BY <1>1, <1>2
  <2> QED BY <2>1, <2>2, <2>3, <1>1
<1> QED BY <1>1, <1>5, <1>6 DEF t

\* shift of the first id.
LEMMA TailList ==
    ASSUME NEW S, NEW s \in Seq(S), IsInjective(s), s # <<>>
    PROVE  /\ Head(s) \in S
           /\ Head(s) \in ToSet(s)
           /\ Tail(s) \in Seq(S)
           /\ Len(s) \in Nat \ {0}
           /\ Len(Tail(s)) = Len(s) - 1
           /\ IsInjective(Tail(s))
           /\ ToSet(Tail(s)) = ToSet(s) \ {Head(s)}
<1> DEFINE t == Tail(s)
<1>1. /\ Head(s) \in S
      /\ t \in Seq(S)
      /\ Len(t) = Len(s) - 1
      /\ \A i \in 1 .. Len(t) : t[i] = s[i + 1]
  BY HeadTailProperties
<1>2. /\ Len(s) \in Nat \ {0}
      /\ DOMAIN s = 1 .. Len(s)
      /\ DOMAIN t = 1 .. Len(t)
      /\ Head(s) = s[1]
  BY <1>1, LenProperties, EmptySeq
<1> HIDE DEF t
<1>3. \A i, j \in 1 .. Len(s) : s[i] = s[j] => i = j BY <1>2 DEF IsInjective
<1>4. \A i \in 1 .. Len(t) : i + 1 \in 1 .. Len(s) /\ i + 1 # 1 BY <1>1, <1>2
<1>5. IsInjective(t)
  <2> SUFFICES ASSUME NEW i \in 1 .. Len(t), NEW j \in 1 .. Len(t), t[i] = t[j]
               PROVE  i = j
    BY <1>2 DEF IsInjective
  <2>1. i + 1 = j + 1 BY <1>1, <1>3, <1>4
  <2> QED BY <2>1, <1>2
<1>6. \A y : y \in ToSet(t) <=> y \in ToSet(s) \ {Head(s)}
  <2> TAKE y
  <2>1. y \in ToSet(t) <=> \E i \in 1 .. Len(t) : t[i] = y BY <1>1, ToSetElements
  <2>2. y \in ToSet(s) <=> \E i \in 1 .. Len(s) : s[i] = y BY ToSetElements
  <2>3. ASSUME y \in ToSet(t) PROVE y \in ToSet(s) \ {Head(s)}
    <3>1. PICK i \in 1 .. Len(t) : t[i] = y BY <2>1, <2>3
    <3>2. s[i + 1] = y /\ s[i + 1] # s[1] BY <3>1, <1>1, <1>2, <1>3, <1>4
    <3> QED BY <3>1, <3>2, <2>2, <1>2, <1>4
  <2>4. ASSUME y \in ToSet(s), y # Head(s) PROVE y \in ToSet(t)
    <3>1. PICK i \in 1 .. Len(s) : s[i] = y BY <2>2, <2>4
    <3>2. i # 1 BY <3>1, <2>4, <1>2
    <3>3. i - 1 \in 1 .. Len(t) /\ t[i - 1] = y BY <3>1, <3>2, <1>1, <1>2
    <3> QED BY <3>3, <2>1
  <2> QED BY <2>3, <2>4
<1>7. Head(s) \in ToSet(s) BY <1>2, ToSetElements
<1> QED BY <1>1, <1>2, <1>5, <1>6, <1>7 DEF t

\* splice at the index of an id.
LEMMA RemoveList ==
    ASSUME NEW S, NEW s \in Seq(S), IsInjective(s), NEW x
    PROVE  /\ RemoveFirst(s, x) \in Seq(S)
           /\ Len(RemoveFirst(s, x)) <= Len(s)
           /\ IsInjective(RemoveFirst(s, x))
           /\ ToSet(RemoveFirst(s, x)) = ToSet(s) \ {x}
<1> DEFINE t == RemoveFirst(s, x)
<1>0. Len(s) \in Nat /\ DOMAIN s = 1 .. Len(s) BY LenProperties
<1>1. \A i, j \in 1 .. Len(s) : s[i] = s[j] => i = j BY <1>0 DEF IsInjective
<1>2. CASE ~ \E i \in 1 .. Len(s) : s[i] = x
  <2>1. t = s BY <1>2 DEF RemoveFirst
  <2>2. x \notin ToSet(s) BY <1>2, ToSetElements
  <2> QED BY <2>1, <2>2, <1>0
<1>3. CASE \E i \in 1 .. Len(s) : s[i] = x
  <2>1. PICK k \in 1 .. Len(s) : s[k] = x BY <1>3
  <2>2. SelectInSeq(s, LAMBDA v : v = x) = k
    <3>1. {i \in 1 .. Len(s) : s[i] = x} = {k} BY <2>1, <1>1
    <3> QED BY <3>1, <1>0 DEF SelectInSeq, Min
  <2> DEFINE u == SubSeq(s, 1, k - 1)
             w == SubSeq(s, k + 1, Len(s))
  <2>3. t = u \o w BY <1>3, <2>2 DEF RemoveFirst, RemoveAt
  <2>4. /\ u \in Seq(S) /\ Len(u) = k - 1 /\ \A i \in 1 .. k - 1 : u[i] = s[i]
    <3>1. \A i \in 1 .. k - 1 : s[i] \in S BY ElementOfSeq, <1>0
    <3>2. k - 1 \in Int /\ 1 \in Int BY <1>0
    <3> HIDE DEF u
    <3>3. /\ u \in Seq(S) /\ Len(u) = IF 1 <= k - 1 THEN (k - 1) - 1 + 1 ELSE 0
          /\ \A i \in 1 .. (k - 1) - 1 + 1 : u[i] = s[1 + i - 1]
      BY <3>1, <3>2, SubSeqProperties DEF u
    <3> QED BY <3>3, <1>0
  <2>5. /\ w \in Seq(S) /\ Len(w) = Len(s) - k
        /\ \A i \in 1 .. Len(s) - k : w[i] = s[k + i]
    <3>1. \A i \in k + 1 .. Len(s) : s[i] \in S BY ElementOfSeq, <1>0
    <3>2. k + 1 \in Int /\ Len(s) \in Int BY <1>0
    <3> HIDE DEF w
    <3>3. /\ w \in Seq(S)
          /\ Len(w) = IF k + 1 <= Len(s) THEN Len(s) - (k + 1) + 1 ELSE 0
          /\ \A i \in 1 .. Len(s) - (k + 1) + 1 : w[i] = s[(k + 1) + i - 1]
      BY <3>1, <3>2, SubSeqProperties DEF w
    <3>4. Len(w) = Len(s) - k
      <4>1. Len(w) = IF k + 1 <= Len(s) THEN Len(s) - (k + 1) + 1 ELSE 0 BY <3>3
      <4>2. Len(s) \in Int /\ k \in Int /\ k <= Len(s) BY <1>0
      <4>3. (IF k + 1 <= Len(s) THEN Len(s) - (k + 1) + 1 ELSE 0) = Len(s) - k
        BY <4>2
      <4> QED BY <4>1, <4>3
    <3>5. \A i \in 1 .. Len(s) - k : w[i] = s[k + i]
      <4> TAKE i \in 1 .. Len(s) - k
      <4>1. i \in 1 .. Len(s) - (k + 1) + 1 /\ (k + 1) + i - 1 = k + i BY <1>0
      <4> QED BY <4>1, <3>3
    <3> QED BY <3>3, <3>4, <3>5
  <2> HIDE DEF u, w, t
  <2>6. /\ t \in Seq(S)
        /\ Len(t) = Len(u) + Len(w)
        /\ \A i \in 1 .. Len(u) + Len(w) :
              t[i] = IF i <= Len(u) THEN u[i] ELSE w[i - Len(u)]
    BY <2>3, <2>4, <2>5, ConcatProperties
  <2>7. Len(t) = Len(s) - 1 BY <2>4, <2>5, <2>6, <1>0
  <2>8. \A i \in 1 .. Len(t) : t[i] = IF i < k THEN s[i] ELSE s[i + 1]
    <3> SUFFICES ASSUME NEW i \in 1 .. Len(t)
                 PROVE  t[i] = IF i < k THEN s[i] ELSE s[i + 1]
      OBVIOUS
    <3>1. i \in 1 .. Len(u) + Len(w) BY <2>4, <2>5, <2>7, <1>0
    <3>2. CASE i < k
      <4>1. i <= Len(u) /\ i \in 1 .. k - 1 BY <3>2, <2>4, <1>0
      <4> QED BY <3>1, <3>2, <4>1, <2>6, <2>4
    <3>3. CASE ~(i < k)
      <4>1. /\ ~(i <= Len(u))
            /\ i - Len(u) \in 1 .. Len(s) - k
            /\ k + (i - Len(u)) = i + 1
        BY <3>3, <2>4, <2>7, <1>0
      <4> QED BY <3>1, <3>3, <4>1, <2>6, <2>5
    <3> QED BY <3>2, <3>3
  <2>9. DOMAIN t = 1 .. Len(t) BY <2>6, LenProperties
  <2>10. IsInjective(t)
    <3> SUFFICES ASSUME NEW i \in 1 .. Len(t), NEW j \in 1 .. Len(t), t[i] = t[j]
                 PROVE  i = j
      BY <2>9 DEF IsInjective
    <3> DEFINE at(n) == IF n < k THEN n ELSE n + 1
    <3>1. at(i) \in 1 .. Len(s) /\ at(j) \in 1 .. Len(s) BY <2>7, <1>0
    <3>2. s[at(i)] = s[at(j)] BY <2>8
    <3>3. at(i) = at(j) BY <3>1, <3>2, <1>1
    <3> QED BY <3>3, <2>7, <1>0
  <2>11. \A y : y \in ToSet(t) <=> y \in ToSet(s) \ {x}
    <3> TAKE y
    <3>1. y \in ToSet(t) <=> \E i \in 1 .. Len(t) : t[i] = y BY <2>6, ToSetElements
    <3>2. y \in ToSet(s) <=> \E i \in 1 .. Len(s) : s[i] = y BY ToSetElements
    <3>3. ASSUME y \in ToSet(t) PROVE y \in ToSet(s) \ {x}
      <4>1. PICK i \in 1 .. Len(t) : t[i] = y BY <3>1, <3>3
      <4>2. CASE i < k
        <5>1. i \in 1 .. Len(s) /\ s[i] = y /\ i # k BY <4>1, <4>2, <2>7, <2>8, <1>0
        <5> QED BY <5>1, <3>2, <2>1, <1>1
      <4>3. CASE ~(i < k)
        <5>1. i + 1 \in 1 .. Len(s) /\ s[i + 1] = y /\ i + 1 # k
          BY <4>1, <4>3, <2>7, <2>8, <1>0
        <5> QED BY <5>1, <3>2, <2>1, <1>1
      <4> QED BY <4>2, <4>3
    <3>4. ASSUME y \in ToSet(s), y # x PROVE y \in ToSet(t)
      <4>1. PICK i \in 1 .. Len(s) : s[i] = y BY <3>2, <3>4
      <4>2. i # k BY <4>1, <3>4, <2>1
      <4>3. CASE i < k
        <5>1. i \in 1 .. Len(t) /\ t[i] = y BY <4>1, <4>3, <2>7, <2>8, <1>0
        <5> QED BY <5>1, <3>1
      <4>4. CASE i > k
        <5>1. i - 1 \in 1 .. Len(t) /\ t[i - 1] = y BY <4>1, <4>4, <2>7, <2>8, <1>0
        <5> QED BY <5>1, <3>1
      <4> QED BY <4>2, <4>3, <4>4, <1>0
    <3> QED BY <3>3, <3>4
  <2> QED BY <2>6, <2>7, <2>10, <2>11, <1>0 DEF t
<1> QED BY <1>2, <1>3

\* A list has no more ids than its length.
LEMMA ListCardinality ==
    ASSUME NEW S, NEW s \in Seq(S)
    PROVE  IsFiniteSet(ToSet(s)) /\ Cardinality(ToSet(s)) <= Len(s)
<1>1. Len(s) \in Nat /\ DOMAIN s = 1 .. Len(s) /\ s \in [1 .. Len(s) -> S]
  BY LenProperties
<1>2. IsFiniteSet(1 .. Len(s)) /\ Cardinality(1 .. Len(s)) = Len(s)
  BY <1>1, FS_Interval
<1>3. s \in Surjection(1 .. Len(s), ToSet(s))
  BY <1>1 DEF Surjection, ToSet
<1> QED BY <1>2, <1>3, FS_Surjection

(***************************************************************************)
(* fillErizos.                                                             *)
(***************************************************************************)

\* fillErizos launches no more than the pool has room for.
LEMMA NumToLaunchBounds ==
    ASSUME NEW S, NEW i \in Seq(S), NEW e \in Seq(S),
           Len(i) + Len(e) <= maxProcesses
    PROVE  /\ NumToLaunch(i, e) \in Nat
           /\ Len(i) + NumToLaunch(i, e) + Len(e) <= maxProcesses
           /\ \/ Len(i) + NumToLaunch(i, e) >= prerunProcesses
              \/ Len(i) + NumToLaunch(i, e) + Len(e) >= maxProcesses
<1> DEFINE a == maxProcesses - (Len(e) + Len(i))
           b == prerunProcesses - Len(i)
<1>1. a \in Nat /\ b \in Int BY AgentAssumption, LenProperties
<1>2. Min({a, b}) = IF a <= b THEN a ELSE b
  <2> HIDE DEF a, b
  <2>1. \E m \in {a, b} : \A y \in {a, b} : m =< y BY <1>1
  <2> QED BY <2>1, <1>1 DEF Min
<1>3. \A m \in Int : Max({0, m}) = IF m <= 0 THEN 0 ELSE m
  <2> TAKE m \in Int
  <2>1. \E x \in {0, m} : \A y \in {0, m} : x >= y OBVIOUS
  <2> QED BY <2>1 DEF Max
<1>4. NumToLaunch(i, e) = IF (IF a <= b THEN a ELSE b) <= 0 THEN 0
                          ELSE IF a <= b THEN a ELSE b
  <2>1. NumToLaunch(i, e) = Max({0, Min({a, b})}) BY DEF NumToLaunch
  <2> HIDE DEF a, b
  <2>2. Min({a, b}) \in Int BY <1>1, <1>2
  <2>3. Max({0, Min({a, b})}) = IF Min({a, b}) <= 0 THEN 0 ELSE Min({a, b})
    BY <2>2, <1>3
  <2> QED BY <2>1, <2>3, <1>2
<1>5. Len(i) \in Nat /\ Len(e) \in Nat BY LenProperties
<1> QED BY <1>1, <1>4, <1>5, AgentAssumption

\* The ids of n launches: n consecutive ids from f on.
LEMMA FreshIdsProperties ==
    ASSUME NEW f \in Nat \ {0}, NEW n \in Nat
    PROVE  /\ FreshIds(f, n) \in Seq(f .. f + n - 1)
           /\ Len(FreshIds(f, n)) = n
           /\ IsInjective(FreshIds(f, n))
           /\ ToSet(FreshIds(f, n)) = f .. f + n - 1
<1> DEFINE t == FreshIds(f, n)
<1>1. t \in [1 .. n -> f .. f + n - 1] BY DEF FreshIds
<1>2. t \in Seq(f .. f + n - 1) /\ Len(t) = n /\ DOMAIN t = 1 .. n BY <1>1 DEF FreshIds
<1>3. IsInjective(t) BY DEF IsInjective, FreshIds
<1>4. ToSet(t) = f .. f + n - 1
  <2>1. ToSet(t) \subseteq f .. f + n - 1 BY <1>2, ToSetElements
  <2>2. ASSUME NEW y \in f .. f + n - 1 PROVE y \in ToSet(t)
    <3>1. y - f + 1 \in 1 .. n /\ t[y - f + 1] = y BY DEF FreshIds
    <3> QED BY <3>1, <1>2, ToSetElements
  <2> QED BY <2>1, <2>2
<1> QED BY <1>2, <1>3, <1>4

\* Two lists without a common id make one list.
LEMMA ConcatList ==
    ASSUME NEW S, NEW s \in Seq(S), NEW t \in Seq(S),
           IsInjective(s), IsInjective(t), ToSet(s) \cap ToSet(t) = {}
    PROVE  /\ s \o t \in Seq(S)
           /\ Len(s \o t) = Len(s) + Len(t)
           /\ IsInjective(s \o t)
           /\ ToSet(s \o t) = ToSet(s) \cup ToSet(t)
<1> DEFINE u == s \o t
<1>1. /\ u \in Seq(S)
      /\ Len(u) = Len(s) + Len(t)
      /\ \A i \in 1 .. Len(s) + Len(t) : u[i] = IF i <= Len(s) THEN s[i] ELSE t[i - Len(s)]
  BY ConcatProperties
<1>2. /\ Len(s) \in Nat /\ Len(t) \in Nat
      /\ DOMAIN s = 1 .. Len(s) /\ DOMAIN t = 1 .. Len(t) /\ DOMAIN u = 1 .. Len(u)
  BY <1>1, LenProperties
<1> HIDE DEF u
<1>3. \A y : y \in ToSet(u) <=> y \in ToSet(s) \cup ToSet(t)
  <2> TAKE y
  <2>0. u \in Seq(S) BY <1>1
  <2>1. y \in ToSet(u) <=> \E i \in 1 .. Len(u) : u[i] = y BY <2>0, ToSetElements
  <2>2. y \in ToSet(s) <=> \E i \in 1 .. Len(s) : s[i] = y BY ToSetElements
  <2>3. y \in ToSet(t) <=> \E i \in 1 .. Len(t) : t[i] = y BY ToSetElements
  <2>4. ASSUME y \in ToSet(u) PROVE y \in ToSet(s) \cup ToSet(t)
    <3>1. PICK i \in 1 .. Len(u) : u[i] = y BY <2>1, <2>4
    <3>2. CASE i <= Len(s)
      <4>1. i \in 1 .. Len(s) /\ s[i] = y BY <3>1, <3>2, <1>1, <1>2
      <4> QED BY <4>1, <2>2
    <3>3. CASE ~(i <= Len(s))
      <4>1. i - Len(s) \in 1 .. Len(t) /\ t[i - Len(s)] = y BY <3>1, <3>3, <1>1, <1>2
      <4> QED BY <4>1, <2>3
    <3> QED BY <3>2, <3>3
  <2>5. ASSUME y \in ToSet(s) PROVE y \in ToSet(u)
    <3>1. PICK i \in 1 .. Len(s) : s[i] = y BY <2>2, <2>5
    <3>2. i \in 1 .. Len(u) /\ u[i] = y BY <3>1, <1>1, <1>2
    <3> QED BY <3>2, <2>1
  <2>6. ASSUME y \in ToSet(t) PROVE y \in ToSet(u)
    <3>1. PICK i \in 1 .. Len(t) : t[i] = y BY <2>3, <2>6
    <3>2. i + Len(s) \in 1 .. Len(u) /\ ~(i + Len(s) <= Len(s)) /\ (i + Len(s)) - Len(s) = i
      BY <1>1, <1>2
    <3>3. u[i + Len(s)] = y BY <3>1, <3>2, <1>1
    <3> QED BY <3>2, <3>3, <2>1
  <2> QED BY <2>4, <2>5, <2>6
<1>4. IsInjective(u)
  <2> SUFFICES ASSUME NEW i \in 1 .. Len(u), NEW j \in 1 .. Len(u), u[i] = u[j], i < j
               PROVE  FALSE
    BY <1>1, <1>2 DEF IsInjective
  <2>1. CASE j <= Len(s)
    <3>1. i \in 1 .. Len(s) /\ j \in 1 .. Len(s) /\ s[i] = s[j] BY <2>1, <1>1, <1>2
    <3> QED BY <3>1, <1>2 DEF IsInjective
  <2>2. CASE i <= Len(s) /\ ~(j <= Len(s))
    <3>1. i \in 1 .. Len(s) /\ j - Len(s) \in 1 .. Len(t) /\ s[i] = t[j - Len(s)]
      BY <2>2, <1>1, <1>2
    <3>2. s[i] \in ToSet(s) /\ t[j - Len(s)] \in ToSet(t) BY <3>1, ToSetElements
    <3> QED BY <3>1, <3>2
  <2>3. CASE ~(i <= Len(s))
    <3>1. /\ i - Len(s) \in 1 .. Len(t) /\ j - Len(s) \in 1 .. Len(t)
          /\ t[i - Len(s)] = t[j - Len(s)]
      BY <2>3, <1>1, <1>2
    <3>2. i - Len(s) = j - Len(s) BY <3>1, <1>2 DEF IsInjective
    <3> QED BY <3>2, <1>2
  <2> QED BY <2>1, <2>2, <2>3
<1> QED BY <1>1, <1>3, <1>4 DEF u

(***************************************************************************)
(* The inductive invariant.  The lists alone do not bound the processes:   *)
(* one needs that the lists, the children map and the live processes name  *)
(* the same ids, what a stopped agent leaves behind, and a bound of the    *)
(* processes that nobody can reach.                                        *)
(***************************************************************************)

\* An ended process is not alive.
EndedIsNotRunning == running \cap exited = {}

\* A stopped agent holds nothing.
DownHoldsNothing == ~up => /\ idle_erizos = <<>>
                           /\ erizos = <<>>
                           /\ children = {}

\* Processes that nobody told to end and that no agent counts: each abrupt end of
\* the agent leaves at most a pool of them.
Orphans == (running \ signalled) \ Pool
FewOrphans ==
    IsFiniteSet(Orphans) /\ Cardinality(Orphans) <= maxProcesses * crashes

PoolInv ==
    /\ TypeOK
    /\ PoolBound
    /\ PoolDistinct
    /\ PoolIsLaunched
    /\ ChildrenAreKillable
    /\ WarmPool
    /\ EndedIsNotRunning
    /\ DownHoldsNothing
    /\ FewOrphans

-----------------------------------------------------------------------------
\* The processes of the pool are no more than its limit.
LEMMA PoolCardinality ==
    ASSUME PoolInv
    PROVE  IsFiniteSet(Pool) /\ Cardinality(Pool) <= maxProcesses
<1>1. /\ idle_erizos \in Seq(Ids) /\ erizos \in Seq(Ids)
      /\ Len(idle_erizos) \in Nat /\ Len(erizos) \in Nat
      /\ Len(idle_erizos) + Len(erizos) <= maxProcesses
  BY LenProperties DEF PoolInv, TypeOK, PoolBound
<1>2. /\ IsFiniteSet(ToSet(idle_erizos))
      /\ Cardinality(ToSet(idle_erizos)) <= Len(idle_erizos)
  BY <1>1, ListCardinality
<1>3. /\ IsFiniteSet(ToSet(erizos))
      /\ Cardinality(ToSet(erizos)) <= Len(erizos)
  BY <1>1, ListCardinality
<1>4. /\ IsFiniteSet(Pool)
      /\ Cardinality(Pool) = Cardinality(ToSet(idle_erizos)) + Cardinality(ToSet(erizos))
                              - Cardinality(ToSet(idle_erizos) \cap ToSet(erizos))
  BY <1>2, <1>3, FS_Union DEF Pool
<1>5. Cardinality(ToSet(idle_erizos) \cap ToSet(erizos)) = 0
  BY FS_EmptySet DEF PoolInv, PoolDistinct
<1>6. Cardinality(ToSet(idle_erizos)) \in Nat /\ Cardinality(ToSet(erizos)) \in Nat
  BY <1>2, <1>3, FS_CardinalityType
<1> QED BY <1>1, <1>2, <1>3, <1>4, <1>5, <1>6, AgentAssumption

\* A step after which no more processes are out of reach.
LEMMA FewerOrphans ==
    ASSUME FewOrphans, crashes \in Nat, Orphans' \subseteq Orphans, crashes' = crashes
    PROVE  FewOrphans'
<1>1. /\ IsFiniteSet(Orphans')
      /\ Cardinality(Orphans') <= Cardinality(Orphans)
  BY FS_Subset DEF FewOrphans
<1>2. Cardinality(Orphans') \in Nat /\ Cardinality(Orphans) \in Nat
  BY <1>1, FS_CardinalityType DEF FewOrphans
<1>3. maxProcesses * crashes \in Int BY AgentAssumption
<1>4. Cardinality(Orphans) <= maxProcesses * crashes BY DEF FewOrphans
<1>5. Cardinality(Orphans') <= maxProcesses * crashes BY <1>1, <1>2, <1>3, <1>4
<1> QED BY <1>1, <1>5 DEF FewOrphans

-----------------------------------------------------------------------------
\* What a handler that ends with fillErizos leaves, i and e being good lists of
\* ids below f.
LEMMA FillEffect ==
    ASSUME nextId \in Nat \ {0}, NEW c, NEW f \in Nat, f >= nextId,
           NEW i \in Seq(1 .. f - 1), NEW e \in Seq(1 .. f - 1),
           IsInjective(i), IsInjective(e), ToSet(i) \cap ToSet(e) = {},
           Len(i) + Len(e) <= maxProcesses,
           NEW n, n = NumToLaunch(i, e),
           idle_erizos' = i \o FreshIds(f, n),
           erizos' = e,
           children' = c \cup (nextId .. f + n - 1),
           nextId' = f + n,
           running' = running \cup (nextId .. f + n - 1)
    PROVE  /\ nextId' \in Nat \ {0}
           /\ nextId' >= f
           /\ idle_erizos' \in Seq(Ids')
           /\ erizos' \in Seq(Ids')
           /\ PoolBound'
           /\ PoolDistinct'
           /\ WarmPool'
           /\ Pool' = ToSet(i) \cup ToSet(e) \cup (f .. nextId' - 1)
           /\ children' = c \cup (nextId .. nextId' - 1)
           /\ running' = running \cup (nextId .. nextId' - 1)
<1> DEFINE fresh == FreshIds(f, n)
<1>1. /\ n \in Nat
      /\ Len(i) + n + Len(e) <= maxProcesses
      /\ \/ Len(i) + n >= prerunProcesses
         \/ Len(i) + n + Len(e) >= maxProcesses
  BY NumToLaunchBounds
<1>2. /\ idle_erizos' = i \o fresh
      /\ erizos' = e
      /\ children' = c \cup (nextId .. f + n - 1)
      /\ nextId' = f + n
      /\ running' = running \cup (nextId .. f + n - 1)
  OBVIOUS
<1>3. /\ fresh \in Seq(f .. f + n - 1)
      /\ Len(fresh) = n
      /\ IsInjective(fresh)
      /\ ToSet(fresh) = f .. f + n - 1
  <2>1. f \in Nat \ {0} OBVIOUS
  <2> QED BY <1>1, <2>1, FreshIdsProperties
<1> HIDE DEF fresh
<1>4. nextId' \in Nat \ {0} /\ nextId' >= f /\ Ids' = 1 .. f + n - 1
  <2>1. f \in Nat \ {0} /\ n \in Nat /\ nextId' = f + n BY <1>1, <1>2
  <2>2. nextId' \in Nat \ {0} /\ nextId' >= f BY <2>1
  <2>3. Ids' = 1 .. f + n - 1 BY <2>1 DEF Ids
  <2> QED BY <2>2, <2>3
<1>5. i \in Seq(Ids') /\ e \in Seq(Ids') /\ fresh \in Seq(Ids')
  <2>1. 1 .. f - 1 \subseteq Ids' /\ f .. f + n - 1 \subseteq Ids'
    <3>1. Ids' = 1 .. f + n - 1 /\ n \in Nat /\ f \in Nat /\ f >= 1 BY <1>1, <1>4
    <3> QED BY ONLY <3>1
  <2>2. i \in Seq(Ids') BY <2>1, SeqMonotonic
  <2>3. e \in Seq(Ids') BY <2>1, SeqMonotonic
  <2>4. fresh \in Seq(Ids') BY <2>1, <1>3, SeqMonotonic
  <2> QED BY <2>2, <2>3, <2>4
<1>6. ToSet(i) \subseteq 1 .. f - 1 /\ ToSet(e) \subseteq 1 .. f - 1 BY ToSetElements
<1>7. ToSet(i) \cap ToSet(fresh) = {} BY <1>3, <1>6
<1>8. /\ i \o fresh \in Seq(Ids')
      /\ Len(i \o fresh) = Len(i) + Len(fresh)
      /\ IsInjective(i \o fresh)
      /\ ToSet(i \o fresh) = ToSet(i) \cup ToSet(fresh)
  <2> DEFINE S == Ids'
  <2>1. /\ i \in Seq(S) /\ fresh \in Seq(S)
        /\ IsInjective(i) /\ IsInjective(fresh)
    BY <1>3, <1>5
  <2> HIDE DEF S
  <2>2. /\ i \o fresh \in Seq(S)
        /\ Len(i \o fresh) = Len(i) + Len(fresh)
        /\ IsInjective(i \o fresh)
        /\ ToSet(i \o fresh) = ToSet(i) \cup ToSet(fresh)
    BY <2>1, <1>7, ConcatList
  <2> QED BY <2>2 DEF S
<1>9. Len(i) \in Nat /\ Len(e) \in Nat BY LenProperties
<1>10. PoolBound' /\ WarmPool'
  BY <1>1, <1>2, <1>3, <1>8, <1>9 DEF PoolBound, WarmPool
<1>11. PoolDistinct' BY <1>2, <1>3, <1>6, <1>8 DEF PoolDistinct
<1>12. Pool' = ToSet(i) \cup ToSet(e) \cup (f .. nextId' - 1)
  <2>1. nextId' - 1 = f + n - 1 BY <1>1, <1>2
  <2> QED BY <2>1, <1>2, <1>3, <1>8 DEF Pool
<1>13. /\ children' = c \cup (nextId .. nextId' - 1)
       /\ running' = running \cup (nextId .. nextId' - 1)
  <2>1. nextId' - 1 = f + n - 1 BY <1>1, <1>2
  <2> QED BY <2>1, <1>2
<1>14. idle_erizos' \in Seq(Ids') /\ erizos' \in Seq(Ids') BY <1>2, <1>5, <1>8
<1> QED BY <1>4, <1>10, <1>11, <1>12, <1>13, <1>14

\* getErizo, and the push of createErizoJS: the lists stay good, keep every id
\* of the pool and gain the one launched, if any.
LEMMA GetErizoEffect ==
    ASSUME TypeOK, PoolBound, PoolDistinct
    PROVE  LET got == GetErizo
               used == Append(got.used, got.id)
           IN  /\ got.next \in Nat /\ got.next >= nextId
               /\ got.idle \in Seq(1 .. got.next - 1)
               /\ used \in Seq(1 .. got.next - 1)
               /\ IsInjective(got.idle)
               /\ IsInjective(used)
               /\ ToSet(got.idle) \cap ToSet(used) = {}
               /\ Len(got.idle) + Len(used) <= maxProcesses
               /\ ToSet(got.idle) \cup ToSet(used) = Pool \cup (nextId .. got.next - 1)
<1> DEFINE got == GetErizo
<1>0. /\ nextId \in Nat \ {0}
      /\ idle_erizos \in Seq(Ids) /\ erizos \in Seq(Ids)
      /\ Len(idle_erizos) \in Nat /\ Len(erizos) \in Nat
      /\ IsInjective(idle_erizos) /\ IsInjective(erizos)
      /\ ToSet(idle_erizos) \cap ToSet(erizos) = {}
      /\ ToSet(idle_erizos) \subseteq Ids /\ ToSet(erizos) \subseteq Ids
      /\ Len(idle_erizos) + Len(erizos) <= maxProcesses
  BY ToSetElements, LenProperties DEF TypeOK, PoolDistinct, PoolBound
<1>e. /\ <<>> \in Seq(Ids) /\ Len(<<>>) = 0 /\ IsInjective(<<>>) /\ ToSet(<<>>) = {}
  BY EmptySeq DEF IsInjective, ToSet
<1>1. CASE idle_erizos # <<>>
  <2>1. /\ got.id = Head(idle_erizos) /\ got.idle = Tail(idle_erizos)
        /\ got.used = erizos /\ got.next = nextId
    BY <1>1 DEF GetErizo
  <2>2. /\ Head(idle_erizos) \in Ids
        /\ Head(idle_erizos) \in ToSet(idle_erizos)
        /\ Tail(idle_erizos) \in Seq(Ids)
        /\ Len(Tail(idle_erizos)) = Len(idle_erizos) - 1
        /\ IsInjective(Tail(idle_erizos))
        /\ ToSet(Tail(idle_erizos)) = ToSet(idle_erizos) \ {Head(idle_erizos)}
    BY <1>0, <1>1, TailList
  <2>3. Head(idle_erizos) \notin ToSet(erizos) BY <2>2, <1>0
  <2>4. /\ Append(erizos, Head(idle_erizos)) \in Seq(Ids)
        /\ Len(Append(erizos, Head(idle_erizos))) = Len(erizos) + 1
        /\ IsInjective(Append(erizos, Head(idle_erizos)))
        /\ ToSet(Append(erizos, Head(idle_erizos))) = ToSet(erizos) \cup {Head(idle_erizos)}
    BY <1>0, <2>2, <2>3, AppendList
  <2>5. nextId .. nextId - 1 = {} BY <1>0
  <2> HIDE DEF got
  <2>6. /\ got.next \in Nat /\ got.next >= nextId
        /\ Len(got.idle) + Len(Append(got.used, got.id)) <= maxProcesses
    BY <2>1, <2>2, <2>4, <1>0
  <2>7. ToSet(got.idle) \cup ToSet(Append(got.used, got.id))
          = Pool \cup (nextId .. got.next - 1)
    BY <2>1, <2>2, <2>4, <2>5, <1>0 DEF Pool
  <2>8. /\ got.idle \in Seq(1 .. got.next - 1)
        /\ Append(got.used, got.id) \in Seq(1 .. got.next - 1)
        /\ IsInjective(got.idle)
        /\ IsInjective(Append(got.used, got.id))
        /\ ToSet(got.idle) \cap ToSet(Append(got.used, got.id)) = {}
    BY <2>1, <2>2, <2>4, <1>0 DEF Ids
  <2> QED BY <2>6, <2>7, <2>8 DEF got
<1>2. CASE idle_erizos = <<>> /\ Len(erizos) < maxProcesses
  <2>1. /\ got.id = nextId /\ got.idle = <<>>
        /\ got.used = erizos /\ got.next = nextId + 1
    BY <1>2 DEF GetErizo
  <2>2. /\ erizos \in Seq(1 .. nextId) /\ <<>> \in Seq(1 .. nextId)
        /\ nextId \in 1 .. nextId /\ nextId \notin ToSet(erizos)
    <3>1. /\ Ids \subseteq 1 .. nextId
          /\ nextId \in 1 .. nextId
          /\ nextId \notin Ids
      BY <1>0 DEF Ids
    <3>2. erizos \in Seq(1 .. nextId) BY <3>1, <1>0, SeqMonotonic
    <3>3. <<>> \in Seq(1 .. nextId) BY EmptySeq
    <3> QED BY <3>1, <3>2, <3>3, <1>0
  <2>3. /\ Append(erizos, nextId) \in Seq(1 .. nextId)
        /\ Len(Append(erizos, nextId)) = Len(erizos) + 1
        /\ IsInjective(Append(erizos, nextId))
        /\ ToSet(Append(erizos, nextId)) = ToSet(erizos) \cup {nextId}
    BY <1>0, <2>2, AppendList
  <2>4. nextId .. (nextId + 1) - 1 = {nextId} /\ (nextId + 1) - 1 = nextId BY <1>0
  <2>5. Pool = ToSet(erizos) BY <1>2, <1>e DEF Pool
  <2> HIDE DEF got
  <2>6. /\ got.next \in Nat /\ got.next >= nextId
        /\ Len(got.idle) + Len(Append(got.used, got.id)) <= maxProcesses
    BY <2>1, <2>3, <1>0, <1>2, <1>e, AgentAssumption
  <2>7. /\ got.idle \in Seq(1 .. got.next - 1)
        /\ Append(got.used, got.id) \in Seq(1 .. got.next - 1)
        /\ IsInjective(got.idle)
        /\ IsInjective(Append(got.used, got.id))
        /\ ToSet(got.idle) \cap ToSet(Append(got.used, got.id)) = {}
        /\ ToSet(got.idle) \cup ToSet(Append(got.used, got.id))
              = Pool \cup (nextId .. got.next - 1)
    BY <2>1, <2>2, <2>3, <2>4, <2>5, <1>e
  <2> QED BY <2>6, <2>7 DEF got
<1>3. CASE idle_erizos = <<>> /\ ~(Len(erizos) < maxProcesses)
  <2>1. /\ got.id = Head(erizos) /\ got.idle = <<>>
        /\ got.used = Tail(erizos) /\ got.next = nextId
    BY <1>3 DEF GetErizo
  <2>2. erizos # <<>> BY <1>0, <1>3, <1>e, AgentAssumption
  <2>3. /\ Head(erizos) \in Ids
        /\ Head(erizos) \in ToSet(erizos)
        /\ Tail(erizos) \in Seq(Ids)
        /\ Len(Tail(erizos)) = Len(erizos) - 1
        /\ IsInjective(Tail(erizos))
        /\ ToSet(Tail(erizos)) = ToSet(erizos) \ {Head(erizos)}
    BY <1>0, <2>2, TailList
  <2>4. /\ Append(Tail(erizos), Head(erizos)) \in Seq(Ids)
        /\ Len(Append(Tail(erizos), Head(erizos))) = Len(Tail(erizos)) + 1
        /\ IsInjective(Append(Tail(erizos), Head(erizos)))
        /\ ToSet(Append(Tail(erizos), Head(erizos))) = ToSet(Tail(erizos)) \cup {Head(erizos)}
    <3> DEFINE t == Tail(erizos)
               h == Head(erizos)
    <3>1. t \in Seq(Ids) /\ IsInjective(t) /\ h \in Ids /\ h \notin ToSet(t) BY <2>3
    <3> HIDE DEF t, h
    <3>2. /\ Append(t, h) \in Seq(Ids)
          /\ Len(Append(t, h)) = Len(t) + 1
          /\ IsInjective(Append(t, h))
          /\ ToSet(Append(t, h)) = ToSet(t) \cup {h}
      BY <3>1, AppendList
    <3> QED BY <3>2 DEF t, h
  <2>5. nextId .. nextId - 1 = {} BY <1>0
  <2>6. Pool = ToSet(erizos) BY <1>3, <1>e DEF Pool
  <2> HIDE DEF got
  <2>7. /\ got.next \in Nat /\ got.next >= nextId
        /\ Len(got.idle) + Len(Append(got.used, got.id)) <= maxProcesses
    BY <2>1, <2>3, <2>4, <1>0, <1>3, <1>e
  <2>8. /\ got.idle \in Seq(1 .. got.next - 1)
        /\ Append(got.used, got.id) \in Seq(1 .. got.next - 1)
        /\ IsInjective(got.idle)
        /\ IsInjective(Append(got.used, got.id))
        /\ ToSet(got.idle) \cap ToSet(Append(got.used, got.id)) = {}
        /\ ToSet(got.idle) \cup ToSet(Append(got.used, got.id))
              = Pool \cup (nextId .. got.next - 1)
    BY <2>1, <2>3, <2>4, <2>5, <2>6, <1>e DEF Ids
  <2> QED BY <2>7, <2>8 DEF got
<1> QED BY <1>1, <1>2, <1>3

-----------------------------------------------------------------------------
(***************************************************************************)
(* The steps.                                                              *)
(***************************************************************************)

LEMMA Intervals ==
    ASSUME NEW a \in Int, NEW b \in Int, 1 <= a, a <= b
    PROVE  /\ \A x \in 1 .. a - 1 : x \in 1 .. b - 1
           /\ \A x \in a .. b - 1 : x \in 1 .. b - 1
OBVIOUS

\* The ids a fill launches are new ones.
LEMMA NewIds ==
    ASSUME nextId \in Nat \ {0}, nextId' \in Nat \ {0}, nextId' >= nextId,
           base \in 1 .. nextId
    PROVE  /\ Ids \subseteq Ids'
           /\ nextId .. nextId' - 1 \subseteq Ids'
           /\ \A x \in nextId .. nextId' - 1 : x \notin Ids /\ x >= base
           /\ base \in 1 .. nextId'
<1>1. Ids = 1 .. nextId - 1 /\ Ids' = 1 .. nextId' - 1 BY DEF Ids
<1>2. /\ \A x \in 1 .. nextId - 1 : x \in 1 .. nextId' - 1
      /\ \A x \in nextId .. nextId' - 1 : x \in 1 .. nextId' - 1
  <2>1. nextId \in Int /\ nextId' \in Int /\ 1 <= nextId /\ nextId <= nextId' OBVIOUS
  <2> QED BY <2>1, Intervals
<1>4. \A x \in nextId .. nextId' - 1 : x \notin 1 .. nextId - 1 /\ x >= base OBVIOUS
<1>5. base \in 1 .. nextId' OBVIOUS
<1> QED BY <1>1, <1>2, <1>4, <1>5

LEMMA InitInv == Init => PoolInv
<1> SUFFICES ASSUME Init PROVE PoolInv OBVIOUS
<1> DEFINE n == NumToLaunch(<<>>, <<>>)
<1>e. /\ <<>> \in Seq(Nat) /\ Len(<<>>) = 0 /\ IsInjective(<<>>) /\ ToSet(<<>>) = {}
  BY EmptySeq DEF IsInjective, ToSet
<1>1. /\ n \in Nat /\ n <= maxProcesses
      /\ n >= prerunProcesses \/ n >= maxProcesses
  <2>1. Len(<<>>) + Len(<<>>) <= maxProcesses BY <1>e, AgentAssumption
  <2>2. /\ n \in Nat
        /\ Len(<<>>) + n + Len(<<>>) <= maxProcesses
        /\ \/ Len(<<>>) + n >= prerunProcesses
           \/ Len(<<>>) + n + Len(<<>>) >= maxProcesses
    BY <1>e, <2>1, NumToLaunchBounds
  <2> HIDE DEF n
  <2> QED BY <2>2, <1>e
<1>2. /\ idle_erizos = FreshIds(1, n) /\ erizos = <<>> /\ nextId = n + 1
      /\ children = Ids /\ running = Ids /\ base = 1 /\ up = TRUE
      /\ exited = {} /\ signalled = {} /\ crashes = 0 /\ turn = 0
  BY DEF Init
<1> HIDE DEF n
<1>3. Ids = 1 .. n /\ 1 + n - 1 = n BY <1>1, <1>2 DEF Ids
<1>4. /\ idle_erizos \in Seq(Ids) /\ Len(idle_erizos) = n
      /\ IsInjective(idle_erizos) /\ ToSet(idle_erizos) = Ids
  BY <1>1, <1>2, <1>3, FreshIdsProperties
<1>5. Pool = Ids BY <1>2, <1>4, <1>e DEF Pool
<1>6. TypeOK BY <1>1, <1>2, <1>4, EmptySeq DEF TypeOK
<1>7. PoolBound /\ WarmPool BY <1>1, <1>2, <1>4, <1>e DEF PoolBound, WarmPool
<1>8. PoolDistinct BY <1>2, <1>4, <1>e DEF PoolDistinct
<1>9. PoolIsLaunched BY <1>1, <1>2, <1>3, <1>5 DEF PoolIsLaunched
<1>10. FewOrphans
  <2>1. Orphans = {} BY <1>2, <1>5 DEF Orphans
  <2> QED BY <1>2, <2>1, FS_EmptySet, AgentAssumption DEF FewOrphans
<1> QED BY <1>2, <1>5, <1>6, <1>7, <1>8, <1>9, <1>10
        DEF PoolInv, ChildrenAreKillable, EndedIsNotRunning, DownHoldsNothing

\* createErizoJS
LEMMA CreateInv == PoolInv /\ createErizoJS => PoolInv'
<1> SUFFICES ASSUME PoolInv, createErizoJS PROVE PoolInv' OBVIOUS
<1> DEFINE got == GetErizo
           used == Append(got.used, got.id)
<1>1. /\ got.next \in Nat /\ got.next >= nextId
      /\ got.idle \in Seq(1 .. got.next - 1)
      /\ used \in Seq(1 .. got.next - 1)
      /\ IsInjective(got.idle)
      /\ IsInjective(used)
      /\ ToSet(got.idle) \cap ToSet(used) = {}
      /\ Len(got.idle) + Len(used) <= maxProcesses
      /\ ToSet(got.idle) \cup ToSet(used) = Pool \cup (nextId .. got.next - 1)
  BY GetErizoEffect DEF PoolInv
<1>2. /\ up
      /\ FillErizos(got.idle, used, children, got.next)
      /\ UNCHANGED <<base, up, exited, signalled, crashes>>
      /\ turn' = 1 - turn
  BY DEF createErizoJS
<1> HIDE DEF got, used
<1>3. TypeOK BY DEF PoolInv
<1>4. /\ nextId' \in Nat \ {0}
      /\ nextId' >= got.next
      /\ idle_erizos' \in Seq(Ids') /\ erizos' \in Seq(Ids')
      /\ PoolBound' /\ PoolDistinct' /\ WarmPool'
      /\ Pool' = ToSet(got.idle) \cup ToSet(used) \cup (got.next .. nextId' - 1)
      /\ children' = children \cup (nextId .. nextId' - 1)
      /\ running' = running \cup (nextId .. nextId' - 1)
  <2>1. nextId \in Nat \ {0} BY <1>3 DEF TypeOK
  <2> DEFINE i == got.idle
             f == got.next
             n == NumToLaunch(i, used)
  <2>2. /\ f \in Nat /\ f >= nextId
        /\ i \in Seq(1 .. f - 1) /\ used \in Seq(1 .. f - 1)
        /\ IsInjective(i) /\ IsInjective(used)
        /\ ToSet(i) \cap ToSet(used) = {}
        /\ Len(i) + Len(used) <= maxProcesses
    BY <1>1
  <2>3. /\ idle_erizos' = i \o FreshIds(f, n)
        /\ erizos' = used
        /\ children' = children \cup (nextId .. f + n - 1)
        /\ nextId' = f + n
        /\ running' = running \cup (nextId .. f + n - 1)
    BY <1>2 DEF FillErizos
  <2>4. n = NumToLaunch(i, used) OBVIOUS
  <2> HIDE DEF i, f, n
  <2>5. /\ nextId' \in Nat \ {0}
        /\ nextId' >= f
        /\ idle_erizos' \in Seq(Ids') /\ erizos' \in Seq(Ids')
        /\ PoolBound' /\ PoolDistinct' /\ WarmPool'
        /\ Pool' = ToSet(i) \cup ToSet(used) \cup (f .. nextId' - 1)
        /\ children' = children \cup (nextId .. nextId' - 1)
        /\ running' = running \cup (nextId .. nextId' - 1)
    BY <2>1, <2>2, <2>3, <2>4, FillEffect
  <2> QED BY <2>5 DEF i, f
<1>5. /\ Ids \subseteq Ids' /\ nextId .. nextId' - 1 \subseteq Ids'
      /\ \A id \in nextId .. nextId' - 1 : id \notin Ids /\ id >= base
      /\ base \in 1 .. nextId'
  <2>1. /\ nextId \in Nat \ {0} /\ nextId' \in Nat \ {0} /\ nextId' >= nextId
        /\ base \in 1 .. nextId
    BY <1>1, <1>3, <1>4 DEF TypeOK
  <2> QED BY <2>1, NewIds
<1>6. Pool' = Pool \cup (nextId .. nextId' - 1)
  <2>1. (nextId .. got.next - 1) \cup (got.next .. nextId' - 1) = nextId .. nextId' - 1
    BY <1>1, <1>3, <1>4 DEF TypeOK
  <2> QED BY <2>1, <1>1, <1>4
<1>7. TypeOK'
  <2>1. turn \in {0, 1} /\ turn' = 1 - turn BY <1>2, <1>3 DEF TypeOK
  <2>2. turn' \in {0, 1} BY ONLY <2>1
  <2>3. crashes \in Nat /\ crashes' = crashes /\ up' = up /\ base' = base
        /\ up \in BOOLEAN
    BY <1>2, <1>3 DEF TypeOK
  <2>4. /\ children' \subseteq Ids' /\ running' \subseteq Ids'
        /\ exited' \subseteq Ids' /\ signalled' \subseteq Ids'
    BY <1>2, <1>3, <1>4, <1>5 DEF TypeOK
  <2> QED BY <1>4, <1>5, <2>2, <2>3, <2>4 DEF TypeOK
<1>8. PoolIsLaunched'
  BY <1>2, <1>4, <1>5, <1>6 DEF PoolInv, PoolIsLaunched
<1>9. ChildrenAreKillable'
  BY <1>2, <1>3, <1>4, <1>5, <1>6 DEF PoolInv, ChildrenAreKillable, TypeOK
<1>10. EndedIsNotRunning'
  BY <1>2, <1>3, <1>4, <1>5 DEF PoolInv, EndedIsNotRunning, TypeOK
<1>11. DownHoldsNothing' BY <1>2 DEF DownHoldsNothing
<1>12. FewOrphans'
  <2>1. Orphans' \subseteq Orphans BY <1>2, <1>4, <1>6 DEF Orphans
  <2>2. FewOrphans /\ crashes \in Nat /\ crashes' = crashes BY <1>2 DEF PoolInv, TypeOK
  <2> QED BY <2>1, <2>2, FewerOrphans
<1> QED BY <1>4, <1>7, <1>8, <1>9, <1>10, <1>11, <1>12 DEF PoolInv

\* deleteErizoJS
LEMMA DeleteInv ==
    ASSUME PoolInv, NEW id \in Ids, deleteErizoJS(id)
    PROVE  PoolInv'
<1>1. /\ up /\ id \in children
      /\ children' = children \ {id} /\ signalled' = signalled \cup {id}
      /\ UNCHANGED <<idle_erizos, erizos, nextId, base, up, running, exited, crashes, turn>>
  BY DEF deleteErizoJS
<1>2. Pool' = Pool /\ Ids' = Ids BY <1>1 DEF Pool, Ids
<1>3. TypeOK' BY <1>1, <1>2 DEF PoolInv, TypeOK
<1>4. PoolBound' /\ PoolDistinct' /\ WarmPool'
  BY <1>1 DEF PoolInv, PoolBound, PoolDistinct, WarmPool
<1>5. PoolIsLaunched' BY <1>1, <1>2 DEF PoolInv, PoolIsLaunched
<1>6. ChildrenAreKillable' BY <1>1, <1>2 DEF PoolInv, ChildrenAreKillable
<1>7. EndedIsNotRunning' /\ DownHoldsNothing'
  BY <1>1 DEF PoolInv, EndedIsNotRunning, DownHoldsNothing
<1>8. FewOrphans'
  <2>1. Orphans' \subseteq Orphans BY <1>1, <1>2 DEF Orphans
  <2>2. FewOrphans /\ crashes \in Nat /\ crashes' = crashes BY <1>1 DEF PoolInv, TypeOK
  <2> QED BY <2>1, <2>2, FewerOrphans
<1> QED BY <1>3, <1>4, <1>5, <1>6, <1>7, <1>8 DEF PoolInv

\* A process ends.
LEMMA EndInv ==
    ASSUME PoolInv, NEW id \in Ids, ProcessEnds(id)
    PROVE  PoolInv'
<1>1. /\ id \in running
      /\ running' = running \ {id} /\ exited' = exited \cup {id}
      /\ UNCHANGED <<idle_erizos, erizos, children, nextId, base, up, signalled,
                     crashes, turn>>
  BY DEF ProcessEnds
<1>2. Pool' = Pool /\ Ids' = Ids BY <1>1 DEF Pool, Ids
<1>3. TypeOK' BY <1>1, <1>2 DEF PoolInv, TypeOK
<1>4. PoolBound' /\ PoolDistinct' /\ WarmPool'
  BY <1>1 DEF PoolInv, PoolBound, PoolDistinct, WarmPool
<1>5. running' \cup exited' = running \cup exited BY <1>1
<1>6. PoolIsLaunched' BY <1>1, <1>2, <1>5 DEF PoolInv, PoolIsLaunched
<1>7. ChildrenAreKillable' BY <1>1, <1>2 DEF PoolInv, ChildrenAreKillable
<1>8. EndedIsNotRunning' /\ DownHoldsNothing'
  BY <1>1 DEF PoolInv, EndedIsNotRunning, DownHoldsNothing
<1>9. FewOrphans'
  <2>1. Orphans' \subseteq Orphans BY <1>1, <1>2 DEF Orphans
  <2>2. FewOrphans /\ crashes \in Nat /\ crashes' = crashes BY <1>1 DEF PoolInv, TypeOK
  <2> QED BY <2>1, <2>2, FewerOrphans
<1> QED BY <1>3, <1>4, <1>6, <1>7, <1>8, <1>9 DEF PoolInv

\* The 'close' listener.
LEMMA CloseInv ==
    ASSUME PoolInv, NEW id \in Ids, onClose(id)
    PROVE  PoolInv'
<1> DEFINE i == RemoveClosed(id).idle
           e == RemoveClosed(id).used
           n == NumToLaunch(i, e)
<1>1. TypeOK /\ PoolBound /\ PoolDistinct BY DEF PoolInv
<1>2. /\ nextId \in Nat \ {0} /\ base \in 1 .. nextId
      /\ idle_erizos \in Seq(Ids) /\ erizos \in Seq(Ids)
      /\ Len(idle_erizos) \in Nat /\ Len(erizos) \in Nat
      /\ IsInjective(idle_erizos) /\ IsInjective(erizos)
      /\ ToSet(idle_erizos) \cap ToSet(erizos) = {}
      /\ Len(idle_erizos) + Len(erizos) <= maxProcesses
  BY <1>1, LenProperties DEF TypeOK, PoolDistinct, PoolBound
<1>3. /\ up /\ id \in exited /\ id >= base
      /\ exited' = exited \ {id}
      /\ UNCHANGED <<base, up, signalled, crashes, turn>>
  BY DEF onClose
<1>4. /\ idle_erizos' = i \o FreshIds(nextId, n)
      /\ erizos' = e
      /\ children' = (children \ {id}) \cup (nextId .. nextId + n - 1)
      /\ nextId' = nextId + n
      /\ running' = running \cup (nextId .. nextId + n - 1)
  BY DEF onClose, FillErizos
<1>5. /\ i \in Seq(Ids) /\ e \in Seq(Ids)
      /\ IsInjective(i) /\ IsInjective(e)
      /\ Len(i) <= Len(idle_erizos) /\ Len(e) <= Len(erizos)
      /\ ToSet(i) = ToSet(idle_erizos) \ {id}
      /\ ToSet(e) = ToSet(erizos) \ {id}
  <2>1. Contains(idle_erizos, id) <=> id \in ToSet(idle_erizos)
    BY <1>2, ToSetElements DEF Contains
  <2>2. CASE Contains(idle_erizos, id)
    <3>1. i = RemoveFirst(idle_erizos, id) /\ e = erizos BY <2>2 DEF RemoveClosed
    <3>2. id \notin ToSet(erizos) BY <2>1, <2>2, <1>2
    <3>3. /\ i \in Seq(Ids) /\ IsInjective(i)
          /\ Len(i) <= Len(idle_erizos)
          /\ ToSet(i) = ToSet(idle_erizos) \ {id}
      BY <3>1, <1>2, RemoveList
    <3> HIDE DEF i, e
    <3> QED BY <3>1, <3>2, <3>3, <1>2
  <2>3. CASE ~Contains(idle_erizos, id)
    <3>1. i = idle_erizos /\ e = RemoveFirst(erizos, id) BY <2>3 DEF RemoveClosed
    <3>2. id \notin ToSet(idle_erizos) BY <2>1, <2>3
    <3>3. /\ e \in Seq(Ids) /\ IsInjective(e)
          /\ Len(e) <= Len(erizos)
          /\ ToSet(e) = ToSet(erizos) \ {id}
      BY <3>1, <1>2, RemoveList
    <3> HIDE DEF i, e
    <3> QED BY <3>1, <3>2, <3>3, <1>2
  <2> QED BY <2>2, <2>3
<1>6. n = NumToLaunch(i, e) OBVIOUS
<1> HIDE DEF i, e, n
<1>7. Len(i) + Len(e) <= maxProcesses
  <2>1. Len(i) \in Nat /\ Len(e) \in Nat BY <1>5, LenProperties
  <2> QED BY <2>1, <1>2, <1>5, AgentAssumption
<1>8. /\ nextId' \in Nat \ {0}
      /\ nextId' >= nextId
      /\ idle_erizos' \in Seq(Ids') /\ erizos' \in Seq(Ids')
      /\ PoolBound' /\ PoolDistinct' /\ WarmPool'
      /\ Pool' = ToSet(i) \cup ToSet(e) \cup (nextId .. nextId' - 1)
      /\ children' = (children \ {id}) \cup (nextId .. nextId' - 1)
      /\ running' = running \cup (nextId .. nextId' - 1)
  <2> DEFINE c == children \ {id}
             f == nextId
  <2>1. /\ f \in Nat /\ f >= nextId
        /\ i \in Seq(1 .. f - 1) /\ e \in Seq(1 .. f - 1)
        /\ IsInjective(i) /\ IsInjective(e)
        /\ ToSet(i) \cap ToSet(e) = {}
    BY <1>2, <1>5 DEF Ids
  <2>2. /\ idle_erizos' = i \o FreshIds(f, n)
        /\ children' = c \cup (nextId .. f + n - 1)
        /\ nextId' = f + n
        /\ running' = running \cup (nextId .. f + n - 1)
    BY <1>4
  <2>4. /\ nextId \in Nat \ {0} /\ erizos' = e /\ n = NumToLaunch(i, e)
        /\ Len(i) + Len(e) <= maxProcesses
    BY <1>2, <1>4, <1>6, <1>7
  <2> HIDE DEF c, f
  <2>3. /\ nextId' \in Nat \ {0}
        /\ nextId' >= f
        /\ idle_erizos' \in Seq(Ids') /\ erizos' \in Seq(Ids')
        /\ PoolBound' /\ PoolDistinct' /\ WarmPool'
        /\ Pool' = ToSet(i) \cup ToSet(e) \cup (f .. nextId' - 1)
        /\ children' = c \cup (nextId .. nextId' - 1)
        /\ running' = running \cup (nextId .. nextId' - 1)
    BY <2>1, <2>2, <2>4, FillEffect
  <2> QED BY <2>3 DEF c, f
<1>9. /\ Ids \subseteq Ids' /\ nextId .. nextId' - 1 \subseteq Ids'
      /\ \A x \in nextId .. nextId' - 1 : x \notin Ids /\ x >= base
      /\ base \in 1 .. nextId'
  BY <1>2, <1>8, NewIds
<1>10. Pool' = (Pool \ {id}) \cup (nextId .. nextId' - 1)
  BY <1>5, <1>8 DEF Pool
<1>11. TypeOK' BY <1>1, <1>3, <1>8, <1>9 DEF TypeOK
<1>12. id \notin running BY <1>3 DEF PoolInv, EndedIsNotRunning
<1>13. PoolIsLaunched'
  <2>1. Pool = {x \in running \cup exited : x >= base}
    BY <1>3 DEF PoolInv, PoolIsLaunched
  <2> QED BY <2>1, <1>3, <1>8, <1>9, <1>10, <1>12 DEF PoolIsLaunched
<1>14. ChildrenAreKillable'
  BY <1>1, <1>3, <1>8, <1>9, <1>10 DEF PoolInv, ChildrenAreKillable, TypeOK
<1>15. EndedIsNotRunning'
  BY <1>1, <1>3, <1>8, <1>9 DEF PoolInv, EndedIsNotRunning, TypeOK
<1>16. DownHoldsNothing' BY <1>3 DEF DownHoldsNothing
<1>17. FewOrphans'
  <2>1. Orphans' \subseteq Orphans BY <1>3, <1>8, <1>10, <1>12 DEF Orphans
  <2>2. FewOrphans /\ crashes \in Nat /\ crashes' = crashes BY <1>3 DEF PoolInv, TypeOK
  <2> QED BY <2>1, <2>2, FewerOrphans
<1> QED BY <1>8, <1>11, <1>13, <1>14, <1>15, <1>16, <1>17 DEF PoolInv

\* The agent ends, in order or not.
LEMMA StopInv == PoolInv /\ (AgentExits \/ AgentCrashes) => PoolInv'
<1> SUFFICES ASSUME PoolInv, AgentExits \/ AgentCrashes PROVE PoolInv' OBVIOUS
<1>1. /\ up /\ up' = FALSE
      /\ idle_erizos' = <<>> /\ erizos' = <<>> /\ children' = {}
      /\ signalled' = signalled \/ signalled' = signalled \cup children
      /\ crashes' = crashes \/ crashes' = crashes + 1
      /\ UNCHANGED <<nextId, base, running, exited, turn>>
  BY DEF AgentExits, AgentCrashes
<1>2. Len(<<>>) = 0 /\ IsInjective(<<>>) /\ ToSet(<<>>) = {}
  BY DEF IsInjective, ToSet
<1>3. Ids' = Ids /\ Pool' = {} BY <1>1, <1>2 DEF Ids, Pool
<1>4. TypeOK'
  <2>1. TypeOK BY DEF PoolInv
  <2>2. idle_erizos' \in Seq(Ids') /\ erizos' \in Seq(Ids') BY <1>1, EmptySeq
  <2>3. nextId' \in Nat \ {0} /\ base' \in 1 .. nextId' BY <2>1, <1>1 DEF TypeOK
  <2>5. crashes' \in Nat
    <3>1. crashes \in Nat /\ (crashes' = crashes \/ crashes' = crashes + 1)
      BY <2>1, <1>1 DEF TypeOK
    <3> QED BY <3>1
  <2>6. up' \in BOOLEAN BY <1>1
  <2>7. turn' \in {0, 1} BY <2>1, <1>1 DEF TypeOK
  <2>4. /\ children' \subseteq Ids' /\ running' \subseteq Ids'
        /\ exited' \subseteq Ids' /\ signalled' \subseteq Ids'
    BY <2>1, <1>1, <1>3 DEF TypeOK
  <2> QED BY <2>2, <2>3, <2>4, <2>5, <2>6, <2>7 DEF TypeOK
<1>5. PoolBound' /\ PoolDistinct'
  BY <1>1, <1>2, AgentAssumption DEF PoolBound, PoolDistinct
<1>6. /\ PoolIsLaunched' /\ ChildrenAreKillable' /\ WarmPool' /\ DownHoldsNothing'
      /\ EndedIsNotRunning'
  BY <1>1 DEF PoolInv, PoolIsLaunched, ChildrenAreKillable, WarmPool, DownHoldsNothing,
             EndedIsNotRunning
<1>7. FewOrphans'
  <2>0. FewOrphans /\ crashes \in Nat BY DEF PoolInv, TypeOK
  <2>1. CASE AgentExits
    <3>1. signalled' = signalled \cup children /\ crashes' = crashes
      BY <2>1 DEF AgentExits
    <3>2. children = Pool \ signalled BY <1>1 DEF PoolInv, ChildrenAreKillable
    <3>3. Orphans' \subseteq Orphans BY <1>1, <1>3, <3>1, <3>2 DEF Orphans
    <3> QED BY <2>0, <3>1, <3>3, FewerOrphans
  <2>2. CASE AgentCrashes
    <3>1. signalled' = signalled /\ crashes' = crashes + 1 BY <2>2 DEF AgentCrashes
    <3>2. Orphans' \subseteq Orphans \cup Pool BY <1>1, <1>3, <3>1 DEF Orphans
    <3>3. IsFiniteSet(Pool) /\ Cardinality(Pool) <= maxProcesses BY PoolCardinality
    <3>4. IsFiniteSet(Orphans) /\ Cardinality(Orphans) <= maxProcesses * crashes
      BY <2>0 DEF FewOrphans
    <3>5. /\ IsFiniteSet(Orphans \cup Pool)
          /\ Cardinality(Orphans \cup Pool)
               = Cardinality(Orphans) + Cardinality(Pool) - Cardinality(Orphans \cap Pool)
      BY <3>3, <3>4, FS_Union
    <3>6. Orphans \cap Pool = {} BY DEF Orphans
    <3>7. /\ IsFiniteSet(Orphans')
          /\ Cardinality(Orphans') <= Cardinality(Orphans \cup Pool)
      BY <3>2, <3>5, FS_Subset
    <3>8. /\ Cardinality(Orphans) \in Nat /\ Cardinality(Pool) \in Nat
          /\ Cardinality(Orphans \cup Pool) \in Nat /\ Cardinality(Orphans') \in Nat
          /\ Cardinality(Orphans \cap Pool) = 0
      BY <3>3, <3>4, <3>5, <3>6, <3>7, FS_CardinalityType, FS_EmptySet
    <3>9. maxProcesses * (crashes + 1) = maxProcesses * crashes + maxProcesses
      BY <2>0, AgentAssumption
    <3>10. maxProcesses \in Nat /\ maxProcesses * crashes \in Nat
      BY <2>0, AgentAssumption
    <3>11. Cardinality(Orphans') <= maxProcesses * crashes + maxProcesses
      BY <3>3, <3>4, <3>5, <3>7, <3>8, <3>10
    <3> QED BY <3>1, <3>7, <3>9, <3>11 DEF FewOrphans
  <2> QED BY <2>1, <2>2
<1> QED BY <1>4, <1>5, <1>6, <1>7 DEF PoolInv

\* A new agent process.
LEMMA StartInv == PoolInv /\ AgentStarts => PoolInv'
<1> SUFFICES ASSUME PoolInv, AgentStarts PROVE PoolInv' OBVIOUS
<1> DEFINE n == NumToLaunch(<<>>, <<>>)
<1>1. TypeOK BY DEF PoolInv
<1>2. /\ ~up /\ up' = TRUE /\ base' = nextId /\ exited' = {}
      /\ UNCHANGED <<signalled, crashes, turn>>
  BY DEF AgentStarts
<1>3. /\ idle_erizos' = <<>> \o FreshIds(nextId, n)
      /\ erizos' = <<>>
      /\ children' = {} \cup (nextId .. nextId + n - 1)
      /\ nextId' = nextId + n
      /\ running' = running \cup (nextId .. nextId + n - 1)
  BY DEF AgentStarts, FillErizos
<1>4. n = NumToLaunch(<<>>, <<>>) OBVIOUS
<1> HIDE DEF n
<1>5. Len(<<>>) = 0 /\ IsInjective(<<>>) /\ ToSet(<<>>) = {}
  BY DEF IsInjective, ToSet
<1>6. nextId \in Nat \ {0} /\ base \in 1 .. nextId BY <1>1 DEF TypeOK
<1>7. /\ nextId' \in Nat \ {0}
      /\ nextId' >= nextId
      /\ idle_erizos' \in Seq(Ids') /\ erizos' \in Seq(Ids')
      /\ PoolBound' /\ PoolDistinct' /\ WarmPool'
      /\ Pool' = nextId .. nextId' - 1
      /\ children' = nextId .. nextId' - 1
      /\ running' = running \cup (nextId .. nextId' - 1)
  <2> DEFINE l == <<>>
             c == {}
             f == nextId
  <2>1. /\ f \in Nat /\ f >= nextId
        /\ l \in Seq(1 .. f - 1) /\ IsInjective(l)
        /\ ToSet(l) \cap ToSet(l) = {}
        /\ Len(l) + Len(l) <= maxProcesses
    BY <1>5, <1>6, EmptySeq, AgentAssumption
  <2>2. /\ n = NumToLaunch(l, l)
        /\ idle_erizos' = l \o FreshIds(f, n)
        /\ erizos' = l
        /\ children' = c \cup (nextId .. f + n - 1)
        /\ nextId' = f + n
        /\ running' = running \cup (nextId .. f + n - 1)
    BY <1>3, <1>4
  <2>3. ToSet(l) = {} BY <1>5
  <2> HIDE DEF c, f, l
  <2>4. /\ nextId' \in Nat \ {0}
        /\ nextId' >= f
        /\ idle_erizos' \in Seq(Ids') /\ erizos' \in Seq(Ids')
        /\ PoolBound' /\ PoolDistinct' /\ WarmPool'
        /\ Pool' = ToSet(l) \cup ToSet(l) \cup (f .. nextId' - 1)
        /\ children' = c \cup (nextId .. nextId' - 1)
        /\ running' = running \cup (nextId .. nextId' - 1)
    BY <1>6, <2>1, <2>2, FillEffect
  <2> QED BY <2>3, <2>4 DEF c, f
<1>8. /\ Ids \subseteq Ids' /\ nextId .. nextId' - 1 \subseteq Ids'
      /\ \A x \in nextId .. nextId' - 1 : x \notin Ids /\ x >= nextId
      /\ nextId \in 1 .. nextId'
  <2>1. \A x \in nextId .. nextId' - 1 : x >= nextId BY <1>6, <1>7
  <2>2. nextId \in 1 .. nextId' BY <1>6, <1>7
  <2> QED BY <2>1, <2>2, <1>6, <1>7, NewIds
<1>9. TypeOK' BY <1>1, <1>2, <1>7, <1>8 DEF TypeOK
<1>10. PoolIsLaunched'
  <2>1. \A x \in running : ~(x >= nextId) BY <1>1, <1>6 DEF TypeOK, Ids
  <2> QED BY <2>1, <1>2, <1>7, <1>8 DEF PoolIsLaunched
<1>11. ChildrenAreKillable'
  BY <1>1, <1>2, <1>7, <1>8 DEF ChildrenAreKillable, TypeOK
<1>12. EndedIsNotRunning' /\ DownHoldsNothing'
  BY <1>2 DEF EndedIsNotRunning, DownHoldsNothing
<1>13. FewOrphans'
  <2>1. Pool = {} BY <1>2, <1>5 DEF PoolInv, DownHoldsNothing, Pool
  <2>2. Orphans' \subseteq Orphans BY <2>1, <1>2, <1>7 DEF Orphans
  <2>3. FewOrphans /\ crashes \in Nat /\ crashes' = crashes
    BY <1>2 DEF PoolInv, TypeOK
  <2> QED BY <2>2, <2>3, FewerOrphans
<1> QED BY <1>7, <1>9, <1>10, <1>11, <1>12, <1>13 DEF PoolInv

-----------------------------------------------------------------------------
LEMMA NextInv == PoolInv /\ [Next]_vars => PoolInv'
<1> SUFFICES ASSUME PoolInv, [Next]_vars PROVE PoolInv' OBVIOUS
<1>1. CASE createErizoJS BY <1>1, CreateInv
<1>2. CASE \E id \in Ids : deleteErizoJS(id) BY <1>2, DeleteInv
<1>3. CASE \E id \in Ids : onClose(id) BY <1>3, CloseInv
<1>4. CASE \E id \in Ids : ProcessEnds(id) BY <1>4, EndInv
<1>5. CASE AgentExits \/ AgentCrashes BY <1>5, StopInv
<1>6. CASE AgentStarts BY <1>6, StartInv
<1>7. CASE UNCHANGED vars
  BY <1>7 DEF vars, PoolInv, TypeOK, Ids, Pool, PoolBound, PoolDistinct, PoolIsLaunched,
             ChildrenAreKillable, WarmPool, EndedIsNotRunning, DownHoldsNothing, FewOrphans, Orphans
<1> QED BY <1>1, <1>2, <1>3, <1>4, <1>5, <1>6, <1>7 DEF Next

\* The inductive invariant of the pool holds through launches, exits, kills and crashes.
THEOREM PoolInvariant == Spec => []PoolInv
BY InitInv, NextInv, PTL DEF Spec

\* The lists of createErizoJS never hold more ids than maxProcesses.
THEOREM PoolIsBounded == Spec => []PoolBound
<1>1. PoolInv => PoolBound BY DEF PoolInv
<1> QED BY <1>1, PoolInvariant, PTL

\* The pool is exactly the processes launched by this agent and not closed yet, each
\* once, and the agent can kill exactly those of them it has not killed.
THEOREM PoolIsExact == Spec => []PoolIsSound
<1>1. PoolInv => PoolIsSound BY DEF PoolInv, PoolIsSound
<1> QED BY <1>1, PoolInvariant, PTL

\* Between two handlers the pool is full or has prerunProcesses idle processes, and
\* no id is in it twice.
THEOREM PoolStaysWarm == Spec => [](WarmPool /\ PoolDistinct)
<1>1. PoolInv => WarmPool /\ PoolDistinct BY DEF PoolInv
<1> QED BY <1>1, PoolInvariant, PTL

\* The pool keeps to both of its limits.
THEOREM PoolKeepsItsSize == Spec => []PoolIsSized
<1>1. PoolInv => PoolIsSized BY DEF PoolInv, PoolIsSized
<1> QED BY <1>1, PoolInvariant, PTL

\* However often the agent ends and starts, the ErizoJS that were not told to end
\* are at most maxProcesses, and as many again for each abrupt end.
THEOREM OrphansAreBounded == Spec => []OrphanBound
<1>1. PoolInv => OrphanBound
  <2> SUFFICES ASSUME PoolInv PROVE OrphanBound OBVIOUS
  <2>1. IsFiniteSet(Pool) /\ Cardinality(Pool) <= maxProcesses BY PoolCardinality
  <2>2. /\ IsFiniteSet(Orphans) /\ Cardinality(Orphans) <= maxProcesses * crashes
        /\ crashes \in Nat
    BY DEF PoolInv, FewOrphans, TypeOK
  <2>3. /\ IsFiniteSet(Orphans \cup Pool)
        /\ Cardinality(Orphans \cup Pool)
             = Cardinality(Orphans) + Cardinality(Pool) - Cardinality(Orphans \cap Pool)
    BY <2>1, <2>2, FS_Union
  <2>4. running \ signalled \subseteq Orphans \cup Pool BY DEF Orphans
  <2>5. /\ IsFiniteSet(running \ signalled)
        /\ Cardinality(running \ signalled) <= Cardinality(Orphans \cup Pool)
    BY <2>3, <2>4, FS_Subset
  <2>6. IsFiniteSet(Orphans \cap Pool) BY <2>1, FS_Subset
  <2>7. /\ Cardinality(Orphans) \in Nat /\ Cardinality(Pool) \in Nat
        /\ Cardinality(Orphans \cap Pool) \in Nat
        /\ Cardinality(Orphans \cup Pool) \in Nat
        /\ Cardinality(running \ signalled) \in Nat
    BY <2>1, <2>2, <2>3, <2>5, <2>6, FS_CardinalityType
  <2>8. maxProcesses * (1 + crashes) = maxProcesses + maxProcesses * crashes
    BY <2>2, AgentAssumption
  <2>9. maxProcesses \in Nat /\ maxProcesses * crashes \in Nat
    BY <2>2, AgentAssumption
  <2>10. Cardinality(running \ signalled) <= maxProcesses + maxProcesses * crashes
    BY <2>1, <2>2, <2>3, <2>5, <2>7, <2>9
  <2> QED BY <2>8, <2>10 DEF OrphanBound
<1> QED BY <1>1, PoolInvariant, PTL
\* A request takes the process that erizos names first only when none is idle and none may
\* be launched; otherwise its process is one that erizos does not name (getErizo).
LEMMA CreateTakesTurns ==
    ASSUME PoolInv, PoolInv', createErizoJS
    PROVE  IF idle_erizos = <<>> /\ Len(erizos) = maxProcesses
             THEN erizos' = Append(Tail(erizos), Head(erizos))
             ELSE \E id \in Ids' \ ToSet(erizos) : erizos' = Append(erizos, id)
<1> DEFINE got == GetErizo
<1>1. erizos' = Append(got.used, got.id) BY DEF createErizoJS, FillErizos
<1>2. /\ nextId \in Nat \ {0}
      /\ idle_erizos \in Seq(Ids) /\ erizos \in Seq(Ids) /\ erizos' \in Seq(Ids')
      /\ Len(idle_erizos) \in Nat /\ Len(erizos) \in Nat
      /\ IsInjective(idle_erizos)
      /\ ToSet(idle_erizos) \cap ToSet(erizos) = {}
      /\ ToSet(erizos) \subseteq Ids
      /\ Len(idle_erizos) + Len(erizos) <= maxProcesses
  BY ToSetElements, LenProperties DEF PoolInv, TypeOK, PoolDistinct, PoolBound
<1>3. ASSUME NEW x, x \notin ToSet(erizos), erizos' = Append(erizos, x)
      PROVE  \E id \in Ids' \ ToSet(erizos) : erizos' = Append(erizos, id)
  <2>1. /\ Len(erizos) + 1 \in 1 .. Len(erizos')
        /\ erizos'[Len(erizos) + 1] = x
    <3> DEFINE S == Ids \cup {x}
    <3>1. erizos \in Seq(S) /\ x \in S BY <1>2, SeqMonotonic
    <3> HIDE DEF S
    <3>2. /\ Len(Append(erizos, x)) = Len(erizos) + 1
          /\ Append(erizos, x)[Len(erizos) + 1] = x
      BY <3>1, AppendProperties
    <3> QED BY <3>2, <1>2, <1>3
  <2>2. x \in Ids' BY <2>1, <1>2, ElementOfSeq
  <2> QED BY <2>2, <1>3
<1>4. CASE idle_erizos # <<>>
  <2>1. got.used = erizos /\ got.id = Head(idle_erizos) BY <1>4 DEF GetErizo
  <2>2. Head(idle_erizos) \in ToSet(idle_erizos) BY <1>2, <1>4, TailList
  <2> HIDE DEF got
  <2>3. got.id \notin ToSet(erizos) /\ erizos' = Append(erizos, got.id)
    BY <2>1, <2>2, <1>1, <1>2
  <2> QED BY <2>3, <1>3, <1>4
<1>5. CASE idle_erizos = <<>> /\ Len(erizos) < maxProcesses
  <2>1. got.used = erizos /\ got.id = nextId BY <1>5 DEF GetErizo
  <2>2. nextId \notin ToSet(erizos) BY <1>2 DEF Ids
  <2> HIDE DEF got
  <2>3. got.id \notin ToSet(erizos) /\ erizos' = Append(erizos, got.id)
    BY <2>1, <2>2, <1>1
  <2>4. Len(erizos) # maxProcesses BY <1>2, <1>5, AgentAssumption
  <2> QED BY <2>3, <2>4, <1>3
<1>6. CASE idle_erizos = <<>> /\ ~(Len(erizos) < maxProcesses)
  <2>1. got.used = Tail(erizos) /\ got.id = Head(erizos) BY <1>6 DEF GetErizo
  <2>2. Len(erizos) = maxProcesses
    <3>1. Len(idle_erizos) = 0 BY <1>6
    <3> QED BY <3>1, <1>2, <1>6, AgentAssumption
  <2> HIDE DEF got
  <2> QED BY <2>1, <2>2, <1>1, <1>6
<1> QED BY <1>4, <1>5, <1>6

\* A process that serves a room is given to another request only when the pool is full and
\* none is idle, and then it is the one whose turn it is (createErizoJS, getErizo).
THEOREM ProcessesAreReusedInTurn == Spec => ReuseInTurn
<1> DEFINE A == turn' # turn =>
                  IF idle_erizos = <<>> /\ Len(erizos) = maxProcesses
                    THEN erizos' = Append(Tail(erizos), Head(erizos))
                    ELSE \E id \in Ids' \ ToSet(erizos) : erizos' = Append(erizos, id)
<1>1. PoolInv /\ PoolInv' /\ [Next]_vars => A
  <2> SUFFICES ASSUME PoolInv, PoolInv', [Next]_vars, turn' # turn PROVE A OBVIOUS
  <2>1. createErizoJS
    BY DEF Next, vars, deleteErizoJS, onClose, ProcessEnds, AgentExits, AgentCrashes, AgentStarts
  <2> QED BY <2>1, CreateTakesTurns
<1>2. PoolInv /\ PoolInv' /\ [Next]_vars => [A]_vars BY <1>1
<1>3. Spec => [][A]_vars BY <1>2, PoolInvariant, PTL DEF Spec
<1> QED BY <1>3 DEF ReuseInTurn
=============================================================================
