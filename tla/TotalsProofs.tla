----------------------------- MODULE TotalsProofs -----------------------------
(***************************************************************************)
(* What the theorems about withdrawals and payments use of Total.          *)
(***************************************************************************)
EXTENDS Totals, FiniteSetTheorems, FunctionTheorems, TLAPS

\* The units of a function, one at a time.
LEMMA UnitsMembers ==
    ASSUME NEW S, NEW f \in [S -> Nat]
    PROVE  UnitsOf(f) = {u \in S \X Nat : u[2] >= 1 /\ u[2] <= f[u[1]]}
<1>1. \A x \in S : f[x] \in Nat /\ 1 .. f[x] \subseteq Nat
    OBVIOUS
<1>2. DOMAIN f = S
    OBVIOUS
<1>3. ASSUME NEW u \in UnitsOf(f)
      PROVE  u \in S \X Nat /\ u[2] >= 1 /\ u[2] <= f[u[1]]
    <2>1. PICK x \in S : u \in {x} \X (1 .. f[x])
        BY <1>2 DEF UnitsOf
    <2>2. u = <<x, u[2]>> /\ u[2] \in 1 .. f[x]
        BY <2>1
    <2> QED BY <1>1, <2>2
<1>4. ASSUME NEW u \in S \X Nat, u[2] >= 1, u[2] <= f[u[1]]
      PROVE  u \in UnitsOf(f)
    <2>1. u \in {u[1]} \X (1 .. f[u[1]])
        BY <1>4
    <2> QED BY <1>2, <2>1 DEF UnitsOf
<1> QED BY <1>3, <1>4

\* The units of a row form a copy of the interval up to its amount.
LEMMA Column ==
    ASSUME NEW x, NEW n \in Nat
    PROVE  IsFiniteSet({x} \X (1 .. n)) /\ Cardinality({x} \X (1 .. n)) = n
<1> DEFINE g == [k \in 1 .. n |-> <<x, k>>]
<1>1. g \in Bijection(1 .. n, {x} \X (1 .. n))
    <2>1. g \in Injection(1 .. n, {x} \X (1 .. n))
        BY DEF Injection, IsInjective
    <2>2. ASSUME NEW u \in {x} \X (1 .. n)
          PROVE  \E k \in 1 .. n : g[k] = u
        <3>1. u[2] \in 1 .. n /\ u = <<x, u[2]>>
            OBVIOUS
        <3> QED BY <3>1
    <2>3. g \in Surjection(1 .. n, {x} \X (1 .. n))
        BY <2>2 DEF Surjection
    <2> QED BY <2>1, <2>3 DEF Bijection
<1>2. IsFiniteSet(1 .. n) /\ Cardinality(1 .. n) = n
    BY FS_Interval
<1> QED BY <1>1, <1>2, FS_Bijection DEF ExistsBijection

\* Finitely many rows have finitely many units, and a total.
LEMMA TotalType ==
    ASSUME NEW S, IsFiniteSet(S), NEW f \in [S -> Nat]
    PROVE  IsFiniteSet(UnitsOf(f)) /\ Total(f) \in Nat
<1> DEFINE T == {{x} \X (1 .. f[x]) : x \in S}
           g == [x \in S |-> {x} \X (1 .. f[x])]
<1>1. IsFiniteSet(T)
    <2>1. g \in Surjection(S, T)
        BY DEF Surjection
    <2> HIDE DEF g, T
    <2> QED BY <2>1, FS_Surjection
<1>2. ASSUME NEW t \in T
      PROVE  IsFiniteSet(t)
    <2>1. PICK x \in S : t = {x} \X (1 .. f[x])
        OBVIOUS
    <2> QED BY <2>1, Column
<1>3. UnitsOf(f) = UNION T
    BY DEF UnitsOf
<1> HIDE DEF T
<1>4. IsFiniteSet(UnitsOf(f))
    BY <1>1, <1>2, <1>3, FS_UNION
<1> QED BY <1>4, FS_CardinalityType DEF Total

\* More rows with larger amounts have a larger total.
LEMMA TotalMonotone ==
    ASSUME NEW S, NEW T, IsFiniteSet(T), S \subseteq T,
           NEW f \in [S -> Nat], NEW g \in [T -> Nat],
           \A x \in S : f[x] <= g[x]
    PROVE  Total(f) <= Total(g)
<1>1. UnitsOf(f) \subseteq UnitsOf(g)
    <2> SUFFICES ASSUME NEW u \in S \X Nat, u[2] >= 1, u[2] <= f[u[1]]
                 PROVE  u \in T \X Nat /\ u[2] >= 1 /\ u[2] <= g[u[1]]
        BY UnitsMembers
    <2>1. u[1] \in S /\ u[2] \in Nat /\ f[u[1]] \in Nat /\ g[u[1]] \in Nat
        OBVIOUS
    <2>2. f[u[1]] <= g[u[1]]
        BY <2>1
    <2>3. u[2] <= g[u[1]]
        BY <2>1, <2>2
    <2> QED BY <2>1, <2>3
<1>2. IsFiniteSet(UnitsOf(g))
    BY TotalType
<1> QED BY <1>1, <1>2, FS_Subset DEF Total

\* The total over two groups of rows that share none is the sum of theirs; so
\* is the total of amounts that are never both positive.
LEMMA TotalSplit ==
    ASSUME NEW S, NEW R, NEW T, IsFiniteSet(S), IsFiniteSet(R), IsFiniteSet(T),
           S \subseteq T, R \subseteq T,
           NEW f \in [S -> Nat], NEW g \in [R -> Nat], NEW h \in [T -> Nat],
           \A x \in S \cap R : f[x] = 0 \/ g[x] = 0,
           \A x \in T : h[x] = (IF x \in S THEN f[x] ELSE 0) + (IF x \in R THEN g[x] ELSE 0)
    PROVE  Total(h) = Total(f) + Total(g)
<1>1. UnitsOf(h) = UnitsOf(f) \cup UnitsOf(g)
    <2>1. ASSUME NEW x \in T, NEW k \in Nat, k >= 1
          PROVE  k <= h[x] <=> \/ x \in S /\ k <= f[x]
                               \/ x \in R /\ k <= g[x]
        <3>1. h[x] \in Nat /\ (x \in S => f[x] \in Nat) /\ (x \in R => g[x] \in Nat)
            OBVIOUS
        <3>2. h[x] = (IF x \in S THEN f[x] ELSE 0) + (IF x \in R THEN g[x] ELSE 0)
            OBVIOUS
        <3>3. x \in S /\ x \in R => f[x] = 0 \/ g[x] = 0
            OBVIOUS
        <3> QED BY <2>1, <3>1, <3>2, <3>3
    <2>2. ASSUME NEW u \in T \X Nat, u[2] >= 1
          PROVE  u[2] <= h[u[1]] <=> \/ u[1] \in S /\ u[2] <= f[u[1]]
                                     \/ u[1] \in R /\ u[2] <= g[u[1]]
        <3>1. u[1] \in T /\ u[2] \in Nat
            OBVIOUS
        <3> QED BY <2>1, <2>2, <3>1
    <2>3. UnitsOf(f) = {u \in S \X Nat : u[2] >= 1 /\ u[2] <= f[u[1]]}
        BY UnitsMembers
    <2>4. UnitsOf(g) = {u \in R \X Nat : u[2] >= 1 /\ u[2] <= g[u[1]]}
        BY UnitsMembers
    <2>5. UnitsOf(h) = {u \in T \X Nat : u[2] >= 1 /\ u[2] <= h[u[1]]}
        BY UnitsMembers
    <2>6. \A u \in T \X Nat : (u[1] \in S <=> u \in S \X Nat) /\ (u[1] \in R <=> u \in R \X Nat)
        OBVIOUS
    <2>7. S \X Nat \subseteq T \X Nat /\ R \X Nat \subseteq T \X Nat
        OBVIOUS
    <2> QED BY <2>2, <2>3, <2>4, <2>5, <2>6, <2>7
<1>2. UnitsOf(f) \cap UnitsOf(g) = {}
    <2> SUFFICES ASSUME NEW u \in S \X Nat, u[2] >= 1, u[2] <= f[u[1]],
                        u \in R \X Nat, u[2] <= g[u[1]]
                 PROVE  FALSE
        BY UnitsMembers
    <2>1. u[1] \in S \cap R /\ u[2] \in Nat
        OBVIOUS
    <2>2. f[u[1]] = 0 \/ g[u[1]] = 0
        BY <2>1
    <2> QED BY <2>1, <2>2
<1>3. /\ IsFiniteSet(UnitsOf(f)) /\ IsFiniteSet(UnitsOf(g))
      /\ Total(f) \in Nat /\ Total(g) \in Nat
    BY TotalType
<1>4. Cardinality(UnitsOf(f) \cup UnitsOf(g)) =
         Cardinality(UnitsOf(f)) + Cardinality(UnitsOf(g))
            - Cardinality(UnitsOf(f) \cap UnitsOf(g))
    BY <1>3, FS_Union
<1>5. Cardinality(UnitsOf(f) \cap UnitsOf(g)) = 0
    BY <1>2, FS_EmptySet
<1> QED BY <1>1, <1>3, <1>4, <1>5 DEF Total

\* The total of a single row is its amount.
LEMMA TotalOfOne ==
    ASSUME NEW x, NEW n \in Nat
    PROVE  Total([y \in {x} |-> n]) = n
<1>1. UnitsOf([y \in {x} |-> n]) = {x} \X (1 .. n)
    BY DEF UnitsOf
<1> QED BY <1>1, Column DEF Total

\* Adding a row adds its amount.
LEMMA TotalAdded ==
    ASSUME NEW S, NEW T, IsFiniteSet(T), S \subseteq T,
           NEW f \in [S -> Nat], NEW g \in [T -> Nat],
           NEW x \in T, NEW n \in Nat,
           x \in S => f[x] = 0, g[x] = n,
           \A y \in T \ {x} : g[y] = IF y \in S THEN f[y] ELSE 0
    PROVE  Total(g) = Total(f) + n
<1> DEFINE one == [y \in {x} |-> n]
<1>1. one \in [{x} -> Nat] /\ one[x] = n /\ IsFiniteSet({x}) /\ IsFiniteSet(S)
    BY FS_Singleton, FS_Subset
<1>2. \A y \in T : g[y] = (IF y \in S THEN f[y] ELSE 0) + (IF y \in {x} THEN one[y] ELSE 0)
    <2> SUFFICES ASSUME NEW y \in T
                 PROVE g[y] = (IF y \in S THEN f[y] ELSE 0) + (IF y \in {x} THEN one[y] ELSE 0)
        OBVIOUS
    <2>1. g[y] \in Nat /\ (y \in S => f[y] \in Nat)
        OBVIOUS
    <2> QED BY <1>1, <2>1
<1>3. \A y \in S \cap {x} : f[y] = 0 \/ one[y] = 0
    OBVIOUS
<1>4. Total(one) = n
    BY TotalOfOne
<1> HIDE DEF one
<1>5. Total(g) = Total(f) + Total(one)
    BY <1>1, <1>2, <1>3, TotalSplit
<1> QED BY <1>4, <1>5
===============================================================================
