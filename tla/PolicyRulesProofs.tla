--------------------------- MODULE PolicyRulesProofs ---------------------------
(***************************************************************************)
(* Lemmas about the table of rules and their evaluation, for tables of any *)
(* size: what ORDER BY returns, and what the loop over the rules computes. *)
(*                                                                         *)
(* The library states induction with an operator as a parameter, which the *)
(* provers cannot instantiate.  WFMin is stated without one: a set of      *)
(* numbers that is not empty has a least element.  InductionOnSets follows *)
(* and is used with the set of the numbers of which a claim holds.         *)
(***************************************************************************)
EXTENDS PolicyRules, FiniteSetTheorems, WellFoundedInduction, TLAPS

LEMMA Least ==
    ASSUME NEW S, S \subseteq Nat, S # {}
    PROVE  \E n \in S : \A m \in S : n <= m
<1> DEFINE R == OpToRel(<, Nat)
<1>1. IsWellFoundedOn(R, Nat)
  BY NatLessThanWellFounded
<1> HIDE DEF R
<1>2. PICK n \in S : \A m \in S : <<m, n>> \notin R
  BY <1>1, WFMin
<1>3. \A m \in S : ~(m < n)
  BY <1>2 DEF R, OpToRel
<1>4. QED
  BY <1>3

LEMMA InductionOnSets ==
    ASSUME NEW S, 0 \in S, \A n \in Nat : n \in S => n + 1 \in S
    PROVE  Nat \subseteq S
<1> SUFFICES ASSUME ~(Nat \subseteq S) PROVE FALSE
  OBVIOUS
<1> DEFINE T == Nat \ S
<1>1. T \subseteq Nat /\ T # {}
  OBVIOUS
<1>2. PICK n \in T : \A m \in T : n <= m
  BY <1>1, Least
<1>3. n # 0 /\ n \in Nat
  BY <1>2
<1>4. n - 1 \in Nat /\ n - 1 \notin T
  BY <1>2, <1>3
<1>5. QED
  BY <1>2, <1>3, <1>4

-----------------------------------------------------------------------------
(***************************************************************************)
(* ORDER BY returns every row once: rows with ids of their own can be put  *)
(* in order, and one way only fits.                                        *)
(***************************************************************************)
LEMMA PrecedesIsAnOrder ==
    ASSUME NEW S, Rows(S)
    PROVE  /\ \A r \in S : ~Precedes(r, r)
           /\ \A r, s \in S : r # s => Precedes(r, s) \/ Precedes(s, r)
           /\ \A r, s, t \in S : Precedes(r, s) /\ Precedes(s, t) => Precedes(r, t)
  BY DEF Rows, Precedes

LastRow(T, r) == r \in T /\ \A s \in T \ {r} : Precedes(s, r)

LEMMA LastRowExists ==
    ASSUME NEW S, Rows(S), S # {}
    PROVE  \E r \in S : LastRow(S, r)
<1> DEFINE Good == {n \in Nat : \A T \in SUBSET S : Cardinality(T) = n + 1 => \E r \in T : LastRow(T, r)}
<1>1. \A T \in SUBSET S : IsFiniteSet(T) /\ Cardinality(T) \in Nat
  BY FS_Subset, FS_CardinalityType DEF Rows
<1>2. 0 \in Good
  BY <1>1, FS_Singleton DEF LastRow
<1>3. ASSUME NEW n \in Nat, n \in Good
      PROVE  n + 1 \in Good
  <2> SUFFICES ASSUME NEW T \in SUBSET S, Cardinality(T) = n + 2
               PROVE  \E r \in T : LastRow(T, r)
    BY <1>3
  <2>1. PICK t : t \in T
    BY <1>1, FS_EmptySet
  <2>2. Cardinality(T \ {t}) = n + 1
    BY <1>1, <2>1, FS_RemoveElement
  <2>3. PICK r \in T \ {t} : LastRow(T \ {t}, r)
    BY <2>2, <1>3
  <2>4. CASE Precedes(t, r)
    BY <2>3, <2>4 DEF LastRow
  <2>5. CASE Precedes(r, t)
    <3>1. \A s \in T \ {t} : Precedes(s, t)
      <4>1. \A s \in T \ {t} : s = r \/ Precedes(s, r)
        BY <2>3 DEF LastRow
      <4>2. T \subseteq S /\ t \in S /\ r \in S
        BY <2>1
      <4>3. QED
        BY <4>1, <4>2, <2>5, PrecedesIsAnOrder
    <3>2. QED
      BY <2>1, <3>1 DEF LastRow
  <2>6. QED
    BY <2>1, <2>3, <2>4, <2>5, PrecedesIsAnOrder
<1> HIDE DEF Good
<1>4. Nat \subseteq Good
  BY <1>2, <1>3, InductionOnSets
<1>5. Cardinality(S) \in Nat /\ Cardinality(S) # 0
  BY <1>1, FS_EmptySet DEF Rows
<1>6. Cardinality(S) - 1 \in Good
  BY <1>4, <1>5
<1>7. QED
  BY <1>5, <1>6 DEF Good

Sorted(s) == \A i, j \in DOMAIN s : i < j => Precedes(s[i], s[j])

LEMMA OrderExists ==
    ASSUME NEW S, Rows(S)
    PROVE  \E s \in [1..Cardinality(S) -> S] : Sorted(s)
<1> DEFINE Good == {n \in Nat : \A T \in SUBSET S :
                      Cardinality(T) = n => \E s \in [1..n -> T] : Sorted(s)}
<1>1. \A T \in SUBSET S : IsFiniteSet(T) /\ Cardinality(T) \in Nat
  BY FS_Subset, FS_CardinalityType DEF Rows
<1>2. 0 \in Good
  <2> SUFFICES ASSUME NEW T \in SUBSET S
               PROVE  \E s \in [1..0 -> T] : Sorted(s)
    OBVIOUS
  <2>1. [i \in 1..0 |-> i] \in [1..0 -> T] /\ Sorted([i \in 1..0 |-> i])
    BY DEF Sorted
  <2>2. QED
    BY <2>1
<1>3. ASSUME NEW n \in Nat, n \in Good
      PROVE  n + 1 \in Good
  <2> SUFFICES ASSUME NEW T \in SUBSET S, Cardinality(T) = n + 1
               PROVE  \E s \in [1..(n + 1) -> T] : Sorted(s)
    BY <1>3
  <2>1. Rows(T) /\ T # {}
    BY <1>1, FS_EmptySet DEF Rows
  <2>2. PICK r \in T : LastRow(T, r)
    BY <2>1, LastRowExists
  <2>3. Cardinality(T \ {r}) = n
    BY <1>1, FS_RemoveElement
  <2>4. PICK s \in [1..n -> T \ {r}] : Sorted(s)
    BY <2>3, <1>3
  <2> DEFINE t == [i \in 1..(n + 1) |-> IF i = n + 1 THEN r ELSE s[i]]
  <2>5. t \in [1..(n + 1) -> T]
    BY <2>4
  <2>6. Sorted(t)
    <3> SUFFICES ASSUME NEW i \in 1..(n + 1), NEW j \in 1..(n + 1), i < j
                 PROVE  Precedes(t[i], t[j])
      BY DEF Sorted
    <3>1. i \in 1..n /\ t[i] = s[i] /\ s[i] \in T \ {r}
      BY <2>4
    <3>2. CASE j = n + 1
      BY <3>1, <3>2, <2>2 DEF LastRow
    <3>3. CASE j # n + 1
      <4>1. j \in 1..n /\ t[j] = s[j]
        BY <3>3
      <4>2. QED
        BY <3>1, <4>1, <2>4 DEF Sorted
    <3>4. QED
      BY <3>2, <3>3
  <2>7. QED
    BY <2>5, <2>6
<1> HIDE DEF Good
<1>4. Cardinality(S) \in Good
  BY <1>1, <1>2, <1>3, InductionOnSets
<1>5. QED
  BY <1>4 DEF Good

LEMMA InOrderReturnsAll ==
    ASSUME NEW S, Rows(S)
    PROVE  /\ Cardinality(S) \in Nat
           /\ InOrder(S) \in [1..Cardinality(S) -> S]
           /\ InOrder(S) \in Seq(S)
           /\ Len(InOrder(S)) = Cardinality(S)
           /\ Sorted(InOrder(S))
           /\ \A i, j \in 1..Cardinality(S) : InOrder(S)[i] = InOrder(S)[j] => i = j
           /\ \A r \in S : \E i \in 1..Cardinality(S) : InOrder(S)[i] = r
<1> DEFINE n == Cardinality(S)
           s == InOrder(S)
<1>1. IsFiniteSet(S) /\ n \in Nat
  BY FS_CardinalityType DEF Rows
<1>2. s \in [1..n -> S] /\ Sorted(s)
  BY OrderExists DEF InOrder, Sorted
<1> HIDE DEF n, s
<1>3. s \in Seq(S) /\ Len(s) = n
  BY <1>1, <1>2
<1>4. \A i, j \in 1..n : s[i] = s[j] => i = j
  <2> SUFFICES ASSUME NEW i \in 1..n, NEW j \in 1..n, i < j, s[i] = s[j]
               PROVE  FALSE
    BY <1>1
  <2>1. Precedes(s[i], s[j]) /\ s[i] \in S
    BY <1>2 DEF Sorted
  <2>2. QED
    BY <2>1, PrecedesIsAnOrder
<1>5. s \in Injection(1..n, S)
  BY <1>2, <1>4 DEF Injection, IsInjective
<1>6. Cardinality(1..n) = n
  BY <1>1, FS_Interval
<1>7. s \in Surjection(1..n, S)
  BY <1>1, <1>5, <1>6, FS_Injection DEF n
<1>8. \A r \in S : \E i \in 1..n : s[i] = r
  BY <1>7 DEF Surjection
<1>9. QED
  BY <1>1, <1>2, <1>3, <1>4, <1>8 DEF n, s

-----------------------------------------------------------------------------
(***************************************************************************)
(* The loop over the rules in order gives a category, but for tags, to the *)
(* first rule that matches and decides it.                                 *)
(***************************************************************************)
Says(r, attrs, a) == RuleMatches(r.match, attrs) /\ a \in DOMAIN r.actions

Loop(f, ordered, attrs, N) ==
    f = [n \in 0..N |->
          IF n = 0 THEN NoActions
          ELSE IF RuleMatches(ordered[n].match, attrs)
               THEN Take(f[n - 1], ordered[n].actions)
               ELSE f[n - 1]]

LEMMA LoopExists ==
    ASSUME NEW ordered, NEW attrs, NEW N \in Nat
    PROVE  \E f : Loop(f, ordered, attrs, N)
<1> DEFINE Good == {n \in Nat : \E f : Loop(f, ordered, attrs, n)}
<1>1. 0 \in Good
  <2>1. Loop([n \in 0..0 |-> NoActions], ordered, attrs, 0)
    BY DEF Loop
  <2>2. QED
    BY <2>1
<1>2. ASSUME NEW n \in Nat, n \in Good
      PROVE  n + 1 \in Good
  <2>1. PICK f : Loop(f, ordered, attrs, n)
    BY <1>2
  <2> DEFINE last == IF RuleMatches(ordered[n + 1].match, attrs)
                     THEN Take(f[n], ordered[n + 1].actions)
                     ELSE f[n]
             g == [m \in 0..(n + 1) |-> IF m = n + 1 THEN last ELSE f[m]]
  <2> HIDE DEF last
  <2>2. \A m \in 0..n : g[m] = f[m]
    OBVIOUS
  <2>3. g[n + 1] = last
    OBVIOUS
  <2> DEFINE h == [m \in 0..(n + 1) |->
                    IF m = 0 THEN NoActions
                    ELSE IF RuleMatches(ordered[m].match, attrs)
                         THEN Take(g[m - 1], ordered[m].actions)
                         ELSE g[m - 1]]
  <2> HIDE DEF g
  <2>4. ASSUME NEW m \in 0..(n + 1)
        PROVE  g[m] = h[m]
    <3>1. CASE m = n + 1
      <4>1. g[m - 1] = f[n]
        BY <3>1, <2>2
      <4>2. QED
        BY <3>1, <4>1, <2>3 DEF last
    <3>2. CASE m # n + 1
      <4>1. m \in 0..n /\ (m # 0 => m - 1 \in 0..n)
        BY <3>2
      <4>2. g[m] = f[m] /\ (m # 0 => g[m - 1] = f[m - 1])
        BY <4>1, <2>2
      <4>3. QED
        BY <4>1, <4>2, <2>1 DEF Loop
    <3>3. QED
      BY <3>1, <3>2
  <2>5. g = h
    BY <2>4 DEF g
  <2>6. Loop(g, ordered, attrs, n + 1)
    BY <2>5 DEF Loop
  <2>7. QED
    BY <2>6
<1> HIDE DEF Good
<1>3. N \in Good
  BY <1>1, <1>2, InductionOnSets
<1>4. QED
  BY <1>3 DEF Good

LEMMA FirstRuleHasIt ==
    ASSUME NEW ordered, Len(ordered) \in Nat, NEW attrs, NEW a, a # "add_tags"
    PROVE  LET effective == EffectiveActions(ordered, attrs)
               says == {i \in 1..Len(ordered) : Says(ordered[i], attrs, a)}
           IN  /\ a \in DOMAIN effective <=> says # {}
               /\ \A i \in says : (\A j \in says : i <= j) =>
                    effective[a] = ordered[i].actions[a]
<1> DEFINE N == Len(ordered)
           says(n) == {i \in 1..n : Says(ordered[i], attrs, a)}
           f == CHOOSE f : Loop(f, ordered, attrs, N)
           First(n) == /\ a \in DOMAIN f[n] <=> says(n) # {}
                       /\ \A i \in says(n) : (\A j \in says(n) : i <= j) =>
                            f[n][a] = ordered[i].actions[a]
           Good == {n \in Nat : n <= N => First(n)}
<1>1. Loop(f, ordered, attrs, N)
  BY LoopExists
<1>2. EffectiveActions(ordered, attrs) = f[N]
  BY DEF EffectiveActions, Loop
<1> HIDE DEF f
<1>3. /\ f[0] = NoActions
      /\ \A n \in 1..N : f[n] = IF RuleMatches(ordered[n].match, attrs)
                                 THEN Take(f[n - 1], ordered[n].actions)
                                 ELSE f[n - 1]
  BY <1>1, SMTT(30) DEF Loop
<1>4. 0 \in Good
  BY <1>3 DEF NoActions
<1>5. ASSUME NEW n \in Nat, n \in Good
      PROVE  n + 1 \in Good
  <2> SUFFICES ASSUME n + 1 <= N
               PROVE  First(n + 1)
    OBVIOUS
  <2>1. First(n)
    BY <1>5
  <2> DEFINE r == ordered[n + 1]
  <2>2. f[n + 1] = IF RuleMatches(r.match, attrs) THEN Take(f[n], r.actions) ELSE f[n]
    BY <1>3
  <2>3. /\ ~Says(r, attrs, a) => says(n + 1) = says(n)
        /\ Says(r, attrs, a) => says(n + 1) = says(n) \cup {n + 1}
    OBVIOUS
  <2>4. \A i \in says(n) : i \in Nat /\ i < n + 1
    OBVIOUS
  <2> HIDE DEF says
  <2>5. CASE ~Says(r, attrs, a)
    <3>1. (a \in DOMAIN f[n + 1] <=> a \in DOMAIN f[n]) /\ (a \in DOMAIN f[n] => f[n + 1][a] = f[n][a])
      BY <2>2, <2>5 DEF Take, Says
    <3>2. QED
      BY <3>1, <2>1, <2>3, <2>5
  <2>6. CASE Says(r, attrs, a)
    <3>1. /\ a \in DOMAIN f[n + 1]
          /\ f[n + 1][a] = IF a \in DOMAIN f[n] THEN f[n][a] ELSE r.actions[a]
      BY <2>2, <2>6 DEF Take, Says
    <3>2. says(n + 1) = says(n) \cup {n + 1}
      BY <2>3, <2>6
    <3>3. CASE says(n) = {}
      BY <3>1, <3>2, <3>3, <2>1
    <3>4. CASE says(n) # {}
      <4>1. \A i \in says(n + 1) : (\A j \in says(n + 1) : i <= j) =>
              i \in says(n) /\ \A j \in says(n) : i <= j
        BY <3>2, <3>4, <2>4
      <4>2. QED
        BY <3>1, <3>2, <3>4, <4>1, <2>1
    <3>5. QED
      BY <3>3, <3>4
  <2>7. QED
    BY <2>5, <2>6
<1> HIDE DEF Good
<1>6. N \in Good
  BY <1>4, <1>5, InductionOnSets
<1>7. First(N)
  BY <1>6 DEF Good
<1>8. QED
  BY <1>2, <1>7

=============================================================================
