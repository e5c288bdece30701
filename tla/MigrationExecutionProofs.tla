---------------------- MODULE MigrationExecutionProofs ----------------------
(***************************************************************************)
(* Theorems about what a migration does to a table (SchemaEvolution), for  *)
(* every set of definitions, policies and values: it loses nothing that    *)
(* was stored, and the table stays that of the definition in force.        *)
(*                                                                         *)
(* Theorems about how it is executed (MigrationExecution), for every set   *)
(* of revisions and every bound on crashes.  The first part holds for any  *)
(* number of executors; the second for one executor at a time (Alone),     *)
(* schemas that are never proposed twice (DistinctSchemas) and callers     *)
(* that recover the migration the journal names: without any of the three, *)
(* TLC has a counterexample.                                               *)
(***************************************************************************)
EXTENDS MigrationExecution, SchemaEvolution, SequenceTheorems, FiniteSetTheorems, TLAPS

-----------------------------------------------------------------------------
(* The evolution of a table.  Induction over numbers is stated for sets of *)
(* numbers.                                                                *)
LEMMA LeastNumber ==
    ASSUME NEW T \in SUBSET Nat, T # {}
    PROVE  \E m \in T : \A k \in T : m <= k
<1> DEFINE R == OpToRel(<, Nat)
<1>1. IsWellFoundedOn(R, Nat)
  BY NatLessThanWellFounded
<1>2. PICK m \in T : \A k \in T : <<k, m>> \notin R
  <2> HIDE DEF R
  <2>. QED
    BY <1>1, WFMin
<1>3. \A k \in T : ~(k < m)
  BY <1>2, Zenon DEF OpToRel
<1>. QED
  BY <1>3

LEMMA EveryNumber ==
    ASSUME NEW S, 0 \in S, \A n \in Nat : n \in S => n + 1 \in S
    PROVE  Nat \subseteq S
<1> SUFFICES ASSUME Nat \ S # {} PROVE FALSE
  OBVIOUS
<1>1. PICK m \in Nat \ S : \A k \in Nat \ S : m <= k
  BY LeastNumber
<1>2. m # 0
  BY <1>1
<1>3. m - 1 \in Nat /\ m - 1 \in S
  BY <1>1, <1>2
<1>. QED
  BY <1>1, <1>3

\* what a group of operations makes of a run, one after the other
IsFunction(f) == f = [i \in DOMAIN f |-> f[i]]
IsGroup(f, run, ops, n) ==
    /\ IsFunction(f) /\ DOMAIN f = 0 .. n
    /\ f[0] = run
    /\ \A i \in 1 .. n : f[i] = Perform(f[i - 1], ops[i])

LEMMA GroupExists ==
    ASSUME NEW run, NEW ops, NEW n \in Nat
    PROVE  \E f : IsGroup(f, run, ops, n)
<1> DEFINE S == {k \in Nat : \E f : IsGroup(f, run, ops, k)}
<1>1. 0 \in S
  <2> DEFINE f == [i \in 0 .. 0 |-> run]
  <2>1. IsGroup(f, run, ops, 0)
    BY DEF IsGroup, IsFunction
  <2> HIDE DEF f
  <2>. QED
    BY <2>1
<1>2. ASSUME NEW k \in Nat, k \in S PROVE k + 1 \in S
  <2>1. PICK f : IsGroup(f, run, ops, k)
    BY <1>2
  <2> DEFINE g == [i \in 0 .. k + 1 |-> IF i = k + 1 THEN Perform(f[k], ops[k + 1]) ELSE f[i]]
  <2>2. /\ \A i \in 0 .. k : g[i] = f[i]
        /\ g[k + 1] = Perform(f[k], ops[k + 1])
        /\ DOMAIN g = 0 .. k + 1 /\ IsFunction(g)
    BY DEF IsFunction
  <2> HIDE DEF g
  <2>3. ASSUME NEW i \in 1 .. k + 1 PROVE g[i] = Perform(g[i - 1], ops[i])
    <3>1. CASE i = k + 1
      BY <2>2, <3>1
    <3>2. CASE i \in 1 .. k
      <4>1. g[i] = f[i] /\ g[i - 1] = f[i - 1]
        BY <2>2, <3>2
      <4>. QED
        BY <2>1, <3>2, <4>1 DEF IsGroup
    <3>. QED
      BY <3>1, <3>2
  <2>4. g[0] = run
    BY <2>1, <2>2 DEF IsGroup
  <2>5. IsGroup(g, run, ops, k + 1)
    BY <2>2, <2>3, <2>4 DEF IsGroup
  <2> HIDE DEF IsGroup
  <2>. QED
    BY <2>5
<1> HIDE DEF S
<1>3. Nat \subseteq S
  BY <1>1, <1>2, EveryNumber
<1>. QED
  BY <1>3 DEF S

LEMMA GroupIs ==
    ASSUME NEW run, NEW ops, Len(ops) \in Nat
    PROVE  \E f : IsGroup(f, run, ops, Len(ops)) /\ Group(run, ops) = f[Len(ops)]
<1> DEFINE n == Len(ops)
           Body(f) == [i \in 0 .. n |-> IF i = 0 THEN run ELSE Perform(f[i - 1], ops[i])]
           f == CHOOSE f : f = Body(f)
<1>1. PICK g : IsGroup(g, run, ops, n)
  BY GroupExists
<1>2. g = Body(g)
  <2>1. \A i \in 0 .. n : g[i] = IF i = 0 THEN run ELSE Perform(g[i - 1], ops[i])
    BY <1>1 DEF IsGroup
  <2>. QED
    BY <1>1, <2>1, Zenon DEF IsGroup, IsFunction
<1>3. f = Body(f)
  BY <1>2, Zenon
<1>4. Group(run, ops) = f[n]
  BY Zenon DEF Group
<1>5. \A k : DOMAIN Body(k) = 0 .. n /\ IsFunction(Body(k))
  BY DEF IsFunction
<1>6. \A k : Body(k)[0] = run /\ \A i \in 1 .. n : Body(k)[i] = Perform(k[i - 1], ops[i])
  OBVIOUS
<1> HIDE DEF f, Body
<1>7. IsGroup(f, run, ops, n)
  BY <1>3, <1>5, <1>6, Zenon DEF IsGroup
<1>. QED
  BY <1>4, <1>7

\* what a transaction makes of a table and its rows, one group after the other
Begun(t, rs) == [ok |-> TRUE, table |-> t, rows |-> rs]
IsTransaction(f, run, groups, n) ==
    /\ IsFunction(f) /\ DOMAIN f = 0 .. n
    /\ f[0] = run
    /\ \A i \in 1 .. n : f[i] = Group(f[i - 1], groups[i])

LEMMA TransactionExists ==
    ASSUME NEW run, NEW groups, NEW n \in Nat
    PROVE  \E f : IsTransaction(f, run, groups, n)
<1> DEFINE S == {k \in Nat : \E f : IsTransaction(f, run, groups, k)}
<1>1. 0 \in S
  <2> DEFINE f == [i \in 0 .. 0 |-> run]
  <2>1. IsTransaction(f, run, groups, 0)
    BY DEF IsTransaction, IsFunction
  <2> HIDE DEF f
  <2>. QED
    BY <2>1
<1>2. ASSUME NEW k \in Nat, k \in S PROVE k + 1 \in S
  <2>1. PICK f : IsTransaction(f, run, groups, k)
    BY <1>2
  <2> DEFINE g == [i \in 0 .. k + 1 |-> IF i = k + 1 THEN Group(f[k], groups[k + 1]) ELSE f[i]]
  <2>2. /\ \A i \in 0 .. k : g[i] = f[i]
        /\ g[k + 1] = Group(f[k], groups[k + 1])
        /\ DOMAIN g = 0 .. k + 1 /\ IsFunction(g)
    BY DEF IsFunction
  <2> HIDE DEF g
  <2>3. ASSUME NEW i \in 1 .. k + 1 PROVE g[i] = Group(g[i - 1], groups[i])
    <3>1. CASE i = k + 1
      BY <2>2, <3>1
    <3>2. CASE i \in 1 .. k
      <4>1. g[i] = f[i] /\ g[i - 1] = f[i - 1]
        BY <2>2, <3>2
      <4>. QED
        BY <2>1, <3>2, <4>1 DEF IsTransaction
    <3>. QED
      BY <3>1, <3>2
  <2>4. g[0] = run
    BY <2>1, <2>2 DEF IsTransaction
  <2>5. IsTransaction(g, run, groups, k + 1)
    BY <2>2, <2>3, <2>4 DEF IsTransaction
  <2> HIDE DEF IsTransaction
  <2>. QED
    BY <2>5
<1> HIDE DEF S
<1>3. Nat \subseteq S
  BY <1>1, <1>2, EveryNumber
<1>. QED
  BY <1>3 DEF S

LEMMA TransactionIs ==
    ASSUME NEW t, NEW rs, NEW groups, Len(groups) \in Nat
    PROVE  \E f : /\ IsTransaction(f, Begun(t, rs), groups, Len(groups))
                  /\ Transaction(t, rs, groups) = f[Len(groups)]
<1> DEFINE n == Len(groups)
           run == [ok |-> TRUE, table |-> t, rows |-> rs]
           Body(f) == [i \in 0 .. n |-> IF i = 0 THEN run ELSE Group(f[i - 1], groups[i])]
           f == CHOOSE f : f = Body(f)
<1>1. PICK g : IsTransaction(g, run, groups, n)
  BY TransactionExists
<1>2. g = Body(g)
  <2>1. \A i \in 0 .. n : g[i] = IF i = 0 THEN run ELSE Group(g[i - 1], groups[i])
    BY <1>1 DEF IsTransaction
  <2>. QED
    BY <1>1, <2>1, Zenon DEF IsTransaction, IsFunction
<1>3. f = Body(f)
  BY <1>2, Zenon
<1>4. Transaction(t, rs, groups) = f[n]
  BY Zenon DEF Transaction
<1>5. \A k : DOMAIN Body(k) = 0 .. n /\ IsFunction(Body(k))
  BY DEF IsFunction
<1>6. \A k : Body(k)[0] = run /\ \A i \in 1 .. n : Body(k)[i] = Group(k[i - 1], groups[i])
  OBVIOUS
<1>7. run = Begun(t, rs)
  BY DEF Begun
<1> HIDE DEF f, Body, run
<1>8. IsTransaction(f, run, groups, n)
  BY <1>3, <1>5, <1>6, Zenon DEF IsTransaction
<1>. QED
  BY <1>4, <1>7, <1>8

\* an operation that is carried out
LEMMA PerformIs ==
    ASSUME NEW run, NEW o, Perform(run, o).ok
    PROVE  /\ run.ok /\ Applicable(run.table, run.rows, o)
           /\ Perform(run, o).table = Effect(run.table, run.rows, o).table
           /\ Perform(run, o).rows = Effect(run.table, run.rows, o).rows
           /\ Holds(Perform(run, o).table, Perform(run, o).rows)
           /\ AllDistinct(Perform(run, o).table, Perform(run, o).rows)
<1> DEFINE next == Effect(run.table, run.rows, o)
           good == [ok |-> TRUE, table |-> next.table, rows |-> next.rows]
<1>1. Perform(run, o) = IF run.ok /\ Applicable(run.table, run.rows, o)
                        THEN IF Holds(next.table, next.rows) /\ AllDistinct(next.table, next.rows)
                             THEN good ELSE Aborted
                        ELSE Aborted
  BY DEF Perform
<1>2. ~Aborted.ok
  BY DEF Aborted
<1>3. good.table = next.table /\ good.rows = next.rows
  OBVIOUS
<1> HIDE DEF next, good
<1>4. /\ run.ok /\ Applicable(run.table, run.rows, o)
      /\ Holds(next.table, next.rows) /\ AllDistinct(next.table, next.rows)
      /\ Perform(run, o) = good
  BY <1>1, <1>2
<1>. QED
  BY <1>3, <1>4 DEF next

LEMMA PerformOk ==
    ASSUME NEW run, NEW o, run.ok, Applicable(run.table, run.rows, o),
           NEW next, next = Effect(run.table, run.rows, o),
           Holds(next.table, next.rows), AllDistinct(next.table, next.rows)
    PROVE  Perform(run, o) = [ok |-> TRUE, table |-> next.table, rows |-> next.rows]
BY DEF Perform

\* what is carried out to the end was carried out at every operation
LEMMA GroupOk ==
    ASSUME NEW n \in Nat, NEW f, NEW run, NEW ops, IsGroup(f, run, ops, n), f[n].ok
    PROVE  \A i \in 0 .. n : f[i].ok
<1> DEFINE S == {k \in Nat : k <= n => f[n - k].ok}
<1>1. 0 \in S
  OBVIOUS
<1>2. ASSUME NEW k \in Nat, k \in S PROVE k + 1 \in S
  <2> SUFFICES ASSUME k + 1 <= n PROVE f[n - (k + 1)].ok
    OBVIOUS
  <2>1. f[n - k].ok
    BY <1>2
  <2>2. f[n - k] = Perform(f[n - (k + 1)], ops[n - k])
    BY DEF IsGroup
  <2>. QED
    BY <2>1, <2>2, PerformIs
<1> HIDE DEF S
<1>3. Nat \subseteq S
  BY <1>1, <1>2, EveryNumber
<1>4. ASSUME NEW i \in 0 .. n PROVE f[i].ok
  <2>1. n - i \in S /\ n - i <= n /\ n - (n - i) = i
    BY <1>3
  <2>. QED
    BY <2>1 DEF S
<1>. QED
  BY <1>4

LEMMA GroupOne ==
    ASSUME NEW run, NEW o
    PROVE  Group(run, <<o>>) = Perform(run, o)
<1>1. Len(<<o>>) = 1 /\ <<o>>[1] = o
  OBVIOUS
<1>2. PICK f : IsGroup(f, run, <<o>>, 1) /\ Group(run, <<o>>) = f[1]
  BY <1>1, GroupIs
<1>3. f[0] = run /\ f[1] = Perform(f[1 - 1], <<o>>[1])
  BY <1>2 DEF IsGroup
<1>. QED
  BY <1>1, <1>2, <1>3

LEMMA GroupRunOk ==
    ASSUME NEW run, NEW ops, Len(ops) \in Nat, Group(run, ops).ok
    PROVE  run.ok
<1>1. PICK f : IsGroup(f, run, ops, Len(ops)) /\ Group(run, ops) = f[Len(ops)]
  BY GroupIs
<1>2. f[0].ok
  BY <1>1, GroupOk
<1>. QED
  BY <1>1, <1>2 DEF IsGroup

LEMMA TransactionOk ==
    ASSUME NEW n \in Nat, NEW f, NEW run, NEW groups, IsTransaction(f, run, groups, n), f[n].ok,
           \A i \in 1 .. n : Len(groups[i]) \in Nat
    PROVE  \A i \in 0 .. n : f[i].ok
<1> DEFINE S == {k \in Nat : k <= n => f[n - k].ok}
<1>1. 0 \in S
  OBVIOUS
<1>2. ASSUME NEW k \in Nat, k \in S PROVE k + 1 \in S
  <2> SUFFICES ASSUME k + 1 <= n PROVE f[n - (k + 1)].ok
    OBVIOUS
  <2>1. f[n - k].ok
    BY <1>2
  <2>2. f[n - k] = Group(f[n - (k + 1)], groups[n - k])
    BY DEF IsTransaction
  <2>3. Len(groups[n - k]) \in Nat
    OBVIOUS
  <2>. QED
    BY <2>1, <2>2, <2>3, GroupRunOk
<1> HIDE DEF S
<1>3. Nat \subseteq S
  BY <1>1, <1>2, EveryNumber
<1>4. ASSUME NEW i \in 0 .. n PROVE f[i].ok
  <2>1. n - i \in S /\ n - i <= n /\ n - (n - i) = i
    BY <1>3
  <2>. QED
    BY <2>1 DEF S
<1>. QED
  BY <1>4

\* A set of names in their order: every name is there, once.
LEMMA InOrderExists ==
    ASSUME NEW k \in Nat, NEW names, IsFiniteSet(names), Cardinality(names) = k, names \subseteq DOMAIN Position
    PROVE  \E s \in [1 .. k -> names] : \A i, j \in 1 .. k : i < j => Position[s[i]] < Position[s[j]]
<1> DEFINE Ordered(T, n, s) ==
               s \in [1 .. n -> T] /\ \A i, j \in 1 .. n : i < j => Position[s[i]] < Position[s[j]]
           S == {n \in Nat : \A T \in SUBSET DOMAIN Position :
                                 IsFiniteSet(T) /\ Cardinality(T) = n => \E s : Ordered(T, n, s)}
<1>0. Position \in [DOMAIN Position -> Nat] /\ \A x, y \in DOMAIN Position : Position[x] = Position[y] => x = y
  BY EvolutionAssumption DEF IsInjective
<1>1. 0 \in S
  <2> SUFFICES ASSUME NEW T \in SUBSET DOMAIN Position PROVE \E s : Ordered(T, 0, s)
    OBVIOUS
  <2> DEFINE s == [i \in 1 .. 0 |-> i]
  <2>1. s \in [1 .. 0 -> T] /\ 1 .. 0 = {}
    OBVIOUS
  <2> HIDE DEF s
  <2>2. Ordered(T, 0, s)
    BY <2>1
  <2>. QED
    BY <2>2
<1>2. ASSUME NEW n \in Nat, n \in S PROVE n + 1 \in S
  <2> SUFFICES ASSUME NEW T \in SUBSET DOMAIN Position, IsFiniteSet(T), Cardinality(T) = n + 1
               PROVE  \E s : Ordered(T, n + 1, s)
    OBVIOUS
  <2>1. T # {}
    BY FS_EmptySet
  <2>2. PICK x \in T : \A y \in T : Position[x] <= Position[y]
    <3> DEFINE P == {Position[y] : y \in T}
    <3>1. P \in SUBSET Nat /\ P # {}
      BY <1>0, <2>1
    <3>2. PICK m \in P : \A k2 \in P : m <= k2
      BY <3>1, LeastNumber
    <3>. QED
      BY <3>2
  <2>3. IsFiniteSet(T \ {x}) /\ Cardinality(T \ {x}) = n
    <3> HIDE DEF S, Ordered
    <3>1. IsFiniteSet(T \ {x}) /\ Cardinality(T \ {x}) = IF x \in T THEN Cardinality(T) - 1 ELSE Cardinality(T)
      BY FS_RemoveElement
    <3>. QED
      BY <2>2, <3>1
  <2>4. PICK r : Ordered(T \ {x}, n, r)
    BY <1>2, <2>3
  <2> DEFINE s == [i \in 1 .. n + 1 |-> IF i = 1 THEN x ELSE r[i - 1]]
  <2>5. s \in [1 .. n + 1 -> T]
    BY <2>4
  <2>6. ASSUME NEW i \in 1 .. n + 1, NEW j \in 1 .. n + 1, i < j PROVE Position[s[i]] < Position[s[j]]
    <3>1. j - 1 \in 1 .. n /\ s[j] = r[j - 1] /\ r[j - 1] \in T \ {x}
      BY <2>4, <2>6
    <3>2. CASE i = 1
      <4>1. s[i] = x /\ Position[x] <= Position[s[j]] /\ Position[x] # Position[s[j]]
        BY <1>0, <2>2, <3>1, <3>2
      <4>2. Position[x] \in Nat /\ Position[s[j]] \in Nat
        BY <1>0, <3>1
      <4>. QED
        BY <4>1, <4>2
    <3>3. CASE i # 1
      <4>1. i - 1 \in 1 .. n /\ s[i] = r[i - 1] /\ i - 1 < j - 1
        BY <2>6, <3>3
      <4>. QED
        BY <2>4, <3>1, <4>1
    <3>. QED
      BY <3>2, <3>3
  <2> HIDE DEF s
  <2>. QED
    BY <2>5, <2>6
<1> HIDE DEF S
<1>3. k \in S
  BY <1>1, <1>2, EveryNumber
<1>4. \E s : Ordered(names, k, s)
  BY <1>3 DEF S
<1>. QED
  BY <1>4

LEMMA InOrderIs ==
    ASSUME NEW names, IsFiniteSet(names), names \subseteq DOMAIN Position
    PROVE  /\ InOrder(names) \in Seq(names)
           /\ \A n \in names : \E i \in 1 .. Len(InOrder(names)) : InOrder(names)[i] = n
           /\ \A i, j \in 1 .. Len(InOrder(names)) : InOrder(names)[i] = InOrder(names)[j] => i = j
<1> DEFINE k == Cardinality(names)
           s == InOrder(names)
<1>1. k \in Nat
  BY FS_CardinalityType
<1>2. s \in [1 .. k -> names] /\ \A i, j \in 1 .. k : i < j => Position[s[i]] < Position[s[j]]
  <2>1. \E r \in [1 .. k -> names] : \A i, j \in 1 .. k : i < j => Position[r[i]] < Position[r[j]]
    BY <1>1, InOrderExists
  <2>2. \A r \in [1 .. k -> names] : DOMAIN r = 1 .. k
    OBVIOUS
  <2>3. \E r \in [1 .. k -> names] : \A i, j \in DOMAIN r : i < j => Position[r[i]] < Position[r[j]]
    BY <2>1, <2>2
  <2>4. s \in [1 .. k -> names] /\ \A i, j \in DOMAIN s : i < j => Position[s[i]] < Position[s[j]]
    BY <2>3, Zenon DEF InOrder
  <2>. QED
    BY <2>2, <2>4
<1> HIDE DEF s
<1>3. s \in Seq(names) /\ Len(s) = k
  BY <1>1, <1>2
<1>4. \A i, j \in 1 .. k : s[i] = s[j] => i = j
  <2> SUFFICES ASSUME NEW i \in 1 .. k, NEW j \in 1 .. k, s[i] = s[j], i < j PROVE FALSE
    BY <1>1
  <2>1. Position[s[i]] < Position[s[j]]
    BY <1>2
  <2>2. Position[s[i]] \in Nat
    BY <1>2, EvolutionAssumption
  <2>. QED
    BY <2>1, <2>2
<1>5. \A n \in names : \E i \in 1 .. k : s[i] = n
  <2> DEFINE T == {s[i] : i \in 1 .. k}
  <2>1. T \subseteq names /\ IsFiniteSet(1 .. k) /\ Cardinality(1 .. k) = k
    BY <1>1, <1>2, FS_Interval
  <2>2. s \in Bijection(1 .. k, T)
    BY <1>2, <1>4 DEF Bijection, Injection, Surjection, IsInjective
  <2>3. ExistsBijection(1 .. k, T)
    BY <2>2 DEF ExistsBijection
  <2>4. IsFiniteSet(T) /\ Cardinality(T) = k
    BY <2>1, <2>3, FS_Bijection
  <2>5. T = names
    BY <2>1, <2>4, FS_Subset
  <2>. QED
    BY <2>5
<1>. QED
  BY <1>3, <1>4, <1>5 DEF s

LEMMA SetToSeqIs ==
    ASSUME NEW S, IsFiniteSet(S)
    PROVE  /\ SetToSeq(S) \in Seq(S)
           /\ \A x \in S : \E i \in 1 .. Len(SetToSeq(S)) : SetToSeq(S)[i] = x
           /\ \A i, j \in 1 .. Len(SetToSeq(S)) : SetToSeq(S)[i] = SetToSeq(S)[j] => i = j
<1> DEFINE k == Cardinality(S)
           s == SetToSeq(S)
<1>1. k \in Nat
  BY FS_CardinalityType
<1>2. s \in [1 .. k -> S] /\ IsInjective(s)
  <2>1. \E f \in [1 .. k -> S] : IsInjective(f)
    <3>1. ExistsBijection(1 .. k, S)
      BY FS_CardinalityType
    <3>2. PICK f : f \in Bijection(1 .. k, S)
      BY <3>1 DEF ExistsBijection
    <3>3. f \in [1 .. k -> S] /\ IsInjective(f)
      BY <3>2 DEF Bijection, Injection, IsInjective
    <3>. QED
      BY <3>3
  <2>. QED
    BY <2>1, Zenon DEF SetToSeq
<1> HIDE DEF s
<1>3. s \in Seq(S) /\ Len(s) = k
  BY <1>1, <1>2
<1>4. \A i, j \in 1 .. k : s[i] = s[j] => i = j
  BY <1>2 DEF IsInjective
<1>5. \A n \in S : \E i \in 1 .. k : s[i] = n
  <2> DEFINE T == {s[i] : i \in 1 .. k}
  <2>1. T \subseteq S /\ IsFiniteSet(1 .. k) /\ Cardinality(1 .. k) = k
    BY <1>1, <1>2, FS_Interval
  <2>2. s \in Bijection(1 .. k, T)
    <3>1. s \in [1 .. k -> S]
      BY <1>2
    <3>2. s \in [1 .. k -> T]
      BY <3>1
    <3>. QED
      BY <1>4, <3>2 DEF Bijection, Injection, Surjection, IsInjective
  <2>3. ExistsBijection(1 .. k, T)
    BY <2>2 DEF ExistsBijection
  <2>4. IsFiniteSet(T) /\ Cardinality(T) = k
    BY <2>1, <2>3, FS_Bijection
  <2>5. T = S
    BY <2>1, <2>4, FS_Subset
  <2>. QED
    BY <2>5
<1>. QED
  BY <1>3, <1>4, <1>5 DEF s

\* A transaction is one run of operations: those of a group follow each other.
FlatOf(groups, n, run, last, m, h, o) ==
    /\ IsGroup(h, run, o, m) /\ h[m] = last
    /\ \A k \in 1 .. m : \E i \in 1 .. n : \E j \in 1 .. Len(groups[i]) : o[k] = groups[i][j]
    /\ \A i \in 1 .. n : \E b \in 0 .. m :
          b + Len(groups[i]) <= m /\ \A j \in 1 .. Len(groups[i]) : o[b + j] = groups[i][j]

OneByOne(x, m, o, q, ops) ==
    /\ \A k \in 1 .. m : x[k] = o[k]
    /\ \A k \in m + 1 .. m + q : x[k] = ops[k - m]

LEMMA Joined ==
    ASSUME NEW m \in Nat, NEW q \in Nat, NEW run, NEW h, NEW o, IsGroup(h, run, o, m),
           NEW f, NEW ops, IsGroup(f, h[m], ops, q),
           NEW x, OneByOne(x, m, o, q, ops)
    PROVE  \E g : IsGroup(g, run, x, m + q) /\ g[m + q] = f[q]
<1> DEFINE g == [k \in 0 .. m + q |-> IF k <= m THEN h[k] ELSE f[k - m]]
<1> USE DEF OneByOne
<1>1. IsFunction(g) /\ DOMAIN g = 0 .. m + q
  BY DEF IsFunction
<1>2. g[0] = run
  BY DEF IsGroup
<1>3. f[0] = h[m]
  BY DEF IsGroup
<1>4. ASSUME NEW k \in 1 .. m + q PROVE g[k] = Perform(g[k - 1], x[k])
  <2>1. CASE k <= m
    <3>1. k \in 1 .. m /\ g[k] = h[k] /\ g[k - 1] = h[k - 1] /\ x[k] = o[k]
      BY <2>1
    <3>. QED
      BY <3>1 DEF IsGroup
  <2>2. CASE k > m
    <3>1. k - m \in 1 .. q /\ g[k] = f[k - m] /\ x[k] = ops[k - m] /\ k - m - 1 = k - 1 - m
      BY <2>2
    <3>2. g[k - 1] = f[k - m - 1]
      BY <1>3, <2>2, <3>1
    <3>3. f[k - m] = Perform(f[k - m - 1], ops[k - m])
      BY <3>1 DEF IsGroup
    <3>. QED
      BY <3>1, <3>2, <3>3
  <2>. QED
    BY <2>1, <2>2
<1>5. g[m + q] = f[q]
  <2>1. CASE q = 0
    <3>1. m + q = m /\ m \in 0 .. m + q /\ m <= m
      BY <2>1
    <3>2. g[m] = h[m]
      BY <3>1
    <3>. QED
      BY <1>3, <2>1, <3>1, <3>2
  <2>2. CASE q # 0
    <3>1. m + q \in 0 .. m + q /\ ~(m + q <= m) /\ m + q - m = q
      BY <2>2
    <3>. QED
      BY <3>1
  <2>. QED
    BY <2>1, <2>2
<1> HIDE DEF g
<1>6. IsGroup(g, run, x, m + q)
  BY <1>1, <1>2, <1>4 DEF IsGroup
<1>. QED
  BY <1>5, <1>6

LEMMA FlatExists ==
    ASSUME NEW n \in Nat, NEW f, NEW run, NEW groups, IsTransaction(f, run, groups, n),
           \A i \in 1 .. n : Len(groups[i]) \in Nat
    PROVE  \E m \in Nat : \E h, o : FlatOf(groups, n, run, f[n], m, h, o)
<1> DEFINE S == {k \in Nat : k <= n => \E m \in Nat : \E h, o : FlatOf(groups, k, run, f[k], m, h, o)}
<1>1. 0 \in S
  <2> DEFINE h == [i \in 0 .. 0 |-> run]
  <2>1. IsGroup(h, run, <<>>, 0) /\ h[0] = run
    BY DEF IsGroup, IsFunction
  <2> HIDE DEF h
  <2>2. f[0] = run
    BY DEF IsTransaction
  <2>3. FlatOf(groups, 0, run, f[0], 0, h, <<>>)
    BY <2>1, <2>2 DEF FlatOf
  <2>. QED
    BY <2>3
<1>2. ASSUME NEW n1 \in Nat, n1 \in S PROVE n1 + 1 \in S
  <2> SUFFICES ASSUME n1 + 1 <= n
               PROVE  \E m \in Nat : \E h, o : FlatOf(groups, n1 + 1, run, f[n1 + 1], m, h, o)
    OBVIOUS
  <2>0. PICK m \in Nat : \E h, o : FlatOf(groups, n1, run, f[n1], m, h, o)
    BY <1>2
  <2>1. PICK h, o : FlatOf(groups, n1, run, f[n1], m, h, o)
    BY <2>0
  <2> DEFINE ops == groups[n1 + 1]
             q == Len(ops)
  <2>2. q \in Nat /\ f[n1 + 1] = Group(f[n1], ops)
    <3>1. n1 + 1 \in 1 .. n /\ n1 + 1 - 1 = n1
      OBVIOUS
    <3>. QED
      BY <3>1 DEF IsTransaction
  <2>3. PICK d : IsGroup(d, f[n1], ops, q) /\ Group(f[n1], ops) = d[q]
    BY <2>2, GroupIs
  <2> DEFINE x == [k \in 1 .. m + q |-> IF k <= m THEN o[k] ELSE ops[k - m]]
  <2>4. PICK g : IsGroup(g, run, x, m + q) /\ g[m + q] = f[n1 + 1]
    <3>1. IsGroup(h, run, o, m) /\ IsGroup(d, h[m], ops, q)
      BY <2>1, <2>3 DEF FlatOf
    <3>2. d[q] = f[n1 + 1]
      BY <2>2, <2>3
    <3>3. OneByOne(x, m, o, q, ops)
      BY <2>1, <2>2 DEF OneByOne
    <3>4. m \in Nat /\ q \in Nat
      BY <2>1, <2>2
    <3> HIDE DEF q, ops, x
    <3>5. \E g : IsGroup(g, run, x, m + q) /\ g[m + q] = d[q]
      BY <3>1, <3>3, <3>4, Joined
    <3>. QED
      BY <3>2, <3>5
  <2>5. ASSUME NEW k \in 1 .. m + q
        PROVE  \E i \in 1 .. n1 + 1 : \E j \in 1 .. Len(groups[i]) : x[k] = groups[i][j]
    <3>1. CASE k <= m
      <4>1. PICK i \in 1 .. n1 : \E j \in 1 .. Len(groups[i]) : o[k] = groups[i][j]
        BY <2>1, <3>1 DEF FlatOf
      <4>2. x[k] = o[k] /\ i \in 1 .. n1 + 1
        BY <2>2, <3>1
      <4>. QED
        BY <4>1, <4>2
    <3>2. CASE k > m
      <4>1. x[k] = ops[k - m] /\ k - m \in 1 .. q /\ n1 + 1 \in 1 .. n1 + 1
        BY <2>2, <3>2
      <4>2. x[k] = groups[n1 + 1][k - m] /\ k - m \in 1 .. Len(groups[n1 + 1])
        BY <4>1
      <4> HIDE DEF x, q, ops
      <4>. QED
        BY <4>1, <4>2
    <3>3. k <= m \/ k > m
      BY <2>2
    <3> HIDE DEF x, q, ops
    <3>. QED
      BY <3>1, <3>2, <3>3
  <2>6. ASSUME NEW i \in 1 .. n1 + 1
        PROVE  \E b \in 0 .. m + q :
                  b + Len(groups[i]) <= m + q /\ \A j \in 1 .. Len(groups[i]) : x[b + j] = groups[i][j]
    <3>1. CASE i \in 1 .. n1
      <4>1. PICK b \in 0 .. m : b + Len(groups[i]) <= m /\ \A j \in 1 .. Len(groups[i]) : o[b + j] = groups[i][j]
        BY <2>1, <3>1 DEF FlatOf
      <4>2. Len(groups[i]) \in Nat /\ b \in 0 .. m + q
        BY <2>2, <3>1
      <4>3. ASSUME NEW j \in 1 .. Len(groups[i]) PROVE x[b + j] = groups[i][j]
        <5>1. b + j \in 1 .. m + q /\ b + j <= m
          BY <2>2, <4>1, <4>2
        <5>. QED
          BY <4>1, <5>1
      <4>4. b + Len(groups[i]) <= m + q
        BY <2>2, <4>1, <4>2
      <4> HIDE DEF x
      <4>. QED
        BY <4>2, <4>3, <4>4
    <3>2. CASE i = n1 + 1
      <4>1. m \in 0 .. m + q /\ Len(groups[i]) = q
        BY <2>2, <3>2
      <4>2. ASSUME NEW j \in 1 .. q PROVE x[m + j] = ops[j]
        <5>1. m + j \in 1 .. m + q /\ ~(m + j <= m) /\ m + j - m = j
          BY <2>2
        <5> HIDE DEF q, ops
        <5>. QED
          BY <5>1
      <4> HIDE DEF x
      <4>. QED
        BY <2>2, <3>2, <4>1, <4>2
    <3>. QED
      BY <3>1, <3>2
  <2>7. m + q \in Nat
    BY <2>2
  <2> HIDE DEF x, q, ops
  <2>8. FlatOf(groups, n1 + 1, run, f[n1 + 1], m + q, g, x)
    BY <2>4, <2>5, <2>6 DEF FlatOf
  <2>. QED
    BY <2>7, <2>8
<1> HIDE DEF S
<1>3. n \in S
  BY <1>1, <1>2, EveryNumber
<1>. QED
  BY <1>3 DEF S

LEMMA Flat ==
    ASSUME NEW t, NEW rs, NEW groups, Len(groups) \in Nat,
           \A i \in 1 .. Len(groups) : Len(groups[i]) \in Nat
    PROVE  \E m \in Nat : \E h, o :
              FlatOf(groups, Len(groups), Begun(t, rs), Transaction(t, rs, groups), m, h, o)
<1>1. PICK f : /\ IsTransaction(f, Begun(t, rs), groups, Len(groups))
               /\ Transaction(t, rs, groups) = f[Len(groups)]
  BY TransactionIs
<1>. QED
  BY <1>1, FlatExists

\* what a step keeps is kept from one point of the run to its end
LEMMA Steady ==
    ASSUME NEW m \in Nat, NEW b \in 0 .. m, NEW S, b \in S, \A k \in b + 1 .. m : k - 1 \in S => k \in S
    PROVE  b .. m \subseteq S
<1> DEFINE T == {k \in Nat : k + b <= m => k + b \in S}
<1>1. 0 \in T
  OBVIOUS
<1>2. ASSUME NEW k \in Nat, k \in T PROVE k + 1 \in T
  <2> SUFFICES ASSUME k + 1 + b <= m PROVE k + 1 + b \in S
    OBVIOUS
  <2>1. k + b \in S
    BY <1>2
  <2>2. k + 1 + b \in b + 1 .. m /\ k + 1 + b - 1 = k + b
    OBVIOUS
  <2>. QED
    BY <2>1, <2>2
<1> HIDE DEF T
<1>3. Nat \subseteq T
  BY <1>1, <1>2, EveryNumber
<1>4. ASSUME NEW k \in b .. m PROVE k \in S
  <2>1. k - b \in T /\ k - b + b = k
    BY <1>3
  <2>. QED
    BY <2>1 DEF T
<1>. QED
  BY <1>4

-----------------------------------------------------------------------------
(* What a migration consists of                                            *)

\* a sequence that lists a set
Listed(s, S) == s \in Seq(S) /\ \A x \in S : \E i \in 1 .. Len(s) : s[i] = x

LEMMA ListedJoin ==
    ASSUME NEW S, NEW T, NEW s, NEW t, Listed(s, S), Listed(t, T)
    PROVE  Listed(s \o t, S \cup T)
<1>1. s \in Seq(S \cup T) /\ t \in Seq(S \cup T)
  BY DEF Listed
<1>2. /\ s \o t \in Seq(S \cup T)
      /\ Len(s \o t) = Len(s) + Len(t)
      /\ \A i \in 1 .. Len(s) + Len(t) : (s \o t)[i] = IF i <= Len(s) THEN s[i] ELSE t[i - Len(s)]
  BY <1>1, ConcatProperties, Zenon
<1>3. Len(s) \in Nat /\ Len(t) \in Nat
  BY <1>1
<1>4. ASSUME NEW x \in S PROVE \E i \in 1 .. Len(s \o t) : (s \o t)[i] = x
  <2>1. PICK i \in 1 .. Len(s) : s[i] = x
    BY <1>4 DEF Listed
  <2>2. i \in 1 .. Len(s) + Len(t) /\ i <= Len(s)
    BY <1>3, <2>1
  <2>. QED
    BY <1>2, <2>1, <2>2
<1>5. ASSUME NEW x \in T PROVE \E i \in 1 .. Len(s \o t) : (s \o t)[i] = x
  <2>1. PICK i \in 1 .. Len(t) : t[i] = x
    BY <1>5 DEF Listed
  <2>2. i + Len(s) \in 1 .. Len(s) + Len(t) /\ ~(i + Len(s) <= Len(s)) /\ i + Len(s) - Len(s) = i
    BY <1>3, <2>1
  <2>. QED
    BY <1>2, <2>1, <2>2
<1>. QED
  BY <1>2, <1>4, <1>5 DEF Listed

Covers(g, S, T) == \A y \in T : \E x \in S : g[x] = y
Image(g, S, T) == (\A x \in S : g[x] \in T) /\ Covers(g, S, T)
Through(t, g, s) == t = [i \in 1 .. Len(s) |-> g[s[i]]]

LEMMA ListedMap ==
    ASSUME NEW S, NEW s, Listed(s, S), NEW g, NEW t, Through(t, g, s), NEW T, Image(g, S, T)
    PROVE  Listed(t, T)
<1> USE DEF Through, Image, Covers
<1>1. s \in Seq(S) /\ Len(s) \in Nat /\ \A i \in 1 .. Len(s) : s[i] \in S
  BY DEF Listed
<1>2. t \in Seq(T) /\ Len(t) = Len(s)
  BY <1>1
<1>3. ASSUME NEW y \in T PROVE \E i \in 1 .. Len(t) : t[i] = y
  <2>1. PICK x \in S : g[x] = y
    BY <1>3
  <2>2. PICK i \in 1 .. Len(s) : s[i] = x
    BY <2>1 DEF Listed
  <2>. QED
    BY <1>2, <2>1, <2>2
<1>. QED
  BY <1>2, <1>3 DEF Listed

LEMMA ListedReverse ==
    ASSUME NEW S, NEW s, Listed(s, S)
    PROVE  Listed(Reverse(s), S)
<1>1. s \in Seq(S) /\ Len(s) \in Nat
  BY DEF Listed
<1>2. Reverse(s) = [i \in 1 .. Len(s) |-> s[(Len(s) - i) + 1]]
  BY DEF Reverse
<1>3. Reverse(s) \in Seq(S) /\ Len(Reverse(s)) = Len(s)
  BY <1>1, <1>2
<1>4. ASSUME NEW x \in S PROVE \E i \in 1 .. Len(Reverse(s)) : Reverse(s)[i] = x
  <2>1. PICK i \in 1 .. Len(s) : s[i] = x
    BY <1>4 DEF Listed
  <2>2. (Len(s) - i) + 1 \in 1 .. Len(s) /\ (Len(s) - ((Len(s) - i) + 1)) + 1 = i
    BY <1>1, <2>1
  <2>. QED
    BY <1>2, <1>3, <2>1, <2>2
<1>. QED
  BY <1>3, <1>4 DEF Listed

LEMMA FiniteImage ==
    ASSUME NEW S, IsFiniteSet(S), NEW g, NEW T, Covers(g, S, T)
    PROVE  IsFiniteSet(T)
<1> DEFINE R == {g[x] : x \in S}
           f == [x \in S |-> g[x]]
<1>1. f \in Surjection(S, R)
  BY DEF Surjection
<1>2. T \in SUBSET R
  BY DEF Covers
<1> HIDE DEF f, R
<1>3. IsFiniteSet(R)
  BY <1>1, FS_Surjection
<1>. QED
  BY <1>2, <1>3, FS_Subset

\* one name, one field
NamedOnce(fields) == \A f, g \in fields : f.name = g.name => f = g

LEMMA CountedOnce ==
    ASSUME NEW fields, IsFiniteSet(fields), Cardinality({f.name : f \in fields}) = Cardinality(fields)
    PROVE  NamedOnce(fields)
<1> DEFINE T == {f.name : f \in fields}
           n == [f \in fields |-> f.name]
<1>1. n \in Surjection(fields, T)
  BY DEF Surjection
<1>2. Cardinality(fields) = Cardinality(T)
  OBVIOUS
<1> HIDE DEF n, T
<1>3. n \in Injection(fields, T)
  BY <1>1, <1>2, FS_SurjSameCardinalityImpliesInj
<1>4. \A f, g \in fields : n[f] = n[g] => f = g
  BY <1>3 DEF Injection, IsInjective
<1>. QED
  BY <1>4 DEF n, NamedOnce

LEMMA NamesListed ==
    ASSUME NEW names, IsFiniteSet(names), names \subseteq DOMAIN Position
    PROVE  Listed(InOrder(names), names)
BY InOrderIs DEF Listed

LEMMA SetListed ==
    ASSUME NEW S, IsFiniteSet(S)
    PROVE  Listed(SetToSeq(S), S)
BY SetToSeqIs DEF Listed

\* what is known of a definition that validates
Sound(d) ==
    /\ IsFiniteSet(d.fields) /\ IsFiniteSet(d.indexes) /\ IsFiniteSet(d.uniques)
    /\ d.fields \subseteq FieldRecords /\ NamedOnce(d.fields)
    /\ \A f \in d.fields : f.type.kind = "int" => f.type.scale = 0
    /\ \A f \in d.fields : f.encrypted => f.type.kind \in {"str", "text"}

LEMMA AbsentSound == Sound(Absent) /\ Absent.fields = {} /\ Absent.indexes = {} /\ Absent.uniques = {}
<1>1. Absent.fields = {} /\ Absent.indexes = {} /\ Absent.uniques = {}
  BY DEF Absent, Definition
<1>. QED
  BY <1>1, FS_EmptySet DEF Sound, NamedOnce

LEMMA ValidSound ==
    ASSUME NEW d \in Definitions, Valid(d)
    PROVE  Sound(d)
<1>1. IsFiniteSet(d.fields) /\ Cardinality({f.name : f \in d.fields}) = Cardinality(d.fields)
  BY EvolutionAssumption DEF Valid, Names
<1>2. NamedOnce(d.fields)
  BY <1>1, CountedOnce
<1>3. \A f \in d.fields : f.encrypted => f.type.kind \in {"str", "text"}
  BY DEF Valid, ValidField, ValidEncryption
<1>. QED
  BY <1>2, <1>3, EvolutionAssumption DEF Sound

LEMMA NamesFinite ==
    ASSUME NEW fields, IsFiniteSet(fields), fields \subseteq FieldRecords,
           NEW names, names = {f.name : f \in fields}
    PROVE  IsFiniteSet(names) /\ names \subseteq DOMAIN Position
<1> DEFINE g == [f \in fields |-> f.name]
<1>1. Covers(g, fields, names)
  BY DEF Covers
<1>2. IsFiniteSet(names)
  <2> HIDE DEF g
  <2>. QED
    BY <1>1, FiniteImage
<1>. QED
  BY <1>2 DEF FieldRecords

LEMMA FieldNamedIs ==
    ASSUME NEW fields, NamedOnce(fields), NEW f \in fields
    PROVE  FieldNamed(fields, f.name) = f
BY DEF FieldNamed, NamedOnce

PairsNamedOnce(pairs) == \A c, e \in pairs : c[1].name = e[1].name => c = e

LEMMA PairNamedIs ==
    ASSUME NEW pairs, PairsNamedOnce(pairs), NEW c \in pairs
    PROVE  PairNamed(pairs, c[1].name) = c
BY DEF PairNamed, PairsNamedOnce

LEMMA AddedListed ==
    ASSUME NEW p, Sound(p.new), NEW policy
    PROVE  Listed(EachField(Added(p), LAMBDA f : Step(AdditionOf(f, policy), DropField(f))),
                  {Step(AdditionOf(f, policy), DropField(f)) : f \in Added(p)})
<1> DEFINE fields == Added(p)
           names == {f.name : f \in fields}
           s == InOrder(names)
           g == [n \in names |-> Step(AdditionOf(FieldNamed(fields, n), policy), DropField(FieldNamed(fields, n)))]
           T == {Step(AdditionOf(f, policy), DropField(f)) : f \in fields}
           t == [i \in 1 .. Len(s) |-> Step(AdditionOf(FieldNamed(fields, s[i]), policy), DropField(FieldNamed(fields, s[i])))]
<1>1. IsFiniteSet(fields) /\ fields \subseteq FieldRecords /\ NamedOnce(fields)
  BY FS_Subset DEF Added, Sound, NamedOnce
<1>2. IsFiniteSet(names) /\ names \subseteq DOMAIN Position
  BY <1>1, NamesFinite
<1>3. Listed(s, names)
  BY <1>2, NamesListed
<1>4. EachField(fields, LAMBDA f : Step(AdditionOf(f, policy), DropField(f))) = t
  BY DEF EachField, Each
<1> HIDE DEF fields
<1>5. \A f \in fields : FieldNamed(fields, f.name) = f
  BY <1>1, FieldNamedIs
<1>6. Through(t, g, s)
  <2>1. \A i \in 1 .. Len(s) : s[i] \in names
    <3> HIDE DEF s, names
    <3>. QED
      BY <1>3 DEF Listed
  <2> HIDE DEF s, names
  <2>. QED
    BY <2>1 DEF Through
<1>7. Image(g, names, T)
  BY <1>5 DEF Image, Covers
<1> HIDE DEF s, names, g, T, t
<1>8. Listed(t, T)
  BY <1>3, <1>6, <1>7, ListedMap
<1>. QED
  BY <1>4, <1>8 DEF T, fields

LEMMA PairsOnce ==
    ASSUME NEW p, Sound(p.old), Sound(p.new), NEW pairs, pairs \subseteq Pairs(p)
    PROVE  /\ PairsNamedOnce(pairs)
           /\ IsFiniteSet({c[1].name : c \in pairs}) /\ {c[1].name : c \in pairs} \subseteq DOMAIN Position
<1>1. \A c \in Pairs(p) : c[1] \in p.old.fields /\ c[2] \in p.new.fields /\ c[1].name = c[2].name /\ c = <<c[1], c[2]>>
  BY DEF Pairs
<1>2. PairsNamedOnce(pairs)
  <2> SUFFICES ASSUME NEW c \in pairs, NEW e \in pairs, c[1].name = e[1].name PROVE c = e
    BY DEF PairsNamedOnce
  <2>1. c[1] = e[1]
    BY <1>1 DEF Sound, NamedOnce
  <2>2. c[2] = e[2]
    BY <1>1 DEF Sound, NamedOnce
  <2>. QED
    BY <1>1, <2>1, <2>2
<1> DEFINE names == {f.name : f \in p.old.fields}
<1>3. IsFiniteSet(names) /\ names \subseteq DOMAIN Position
  BY NamesFinite DEF Sound
<1>4. {c[1].name : c \in pairs} \in SUBSET names
  BY <1>1
<1> HIDE DEF names
<1>5. IsFiniteSet({c[1].name : c \in pairs})
  BY <1>3, <1>4, FS_Subset
<1>. QED
  BY <1>2, <1>3, <1>4, <1>5

PairsThrough(t, g, pairs) ==
    t = [i \in 1 .. Len(InOrder({c[1].name : c \in pairs})) |->
            g[PairNamed(pairs, InOrder({c[1].name : c \in pairs})[i])]]

LEMMA PairsListed ==
    ASSUME NEW p, Sound(p.old), Sound(p.new), NEW pairs, pairs \subseteq Pairs(p), NEW g,
           NEW t, PairsThrough(t, g, pairs), NEW T, Image(g, pairs, T)
    PROVE  Listed(t, T)
<1> DEFINE names == {c[1].name : c \in pairs}
           s == InOrder(names)
           k == [n \in names |-> g[PairNamed(pairs, n)]]
<1>1. Listed(s, names)
  BY PairsOnce, NamesListed
<1>2. \A c \in pairs : PairNamed(pairs, c[1].name) = c
  BY PairsOnce, PairNamedIs
<1>3. \A i \in 1 .. Len(s) : s[i] \in names
  <2> HIDE DEF names, s
  <2>. QED
    BY <1>1 DEF Listed
<1>4. Through(t, k, s)
  <2>1. t = [i \in 1 .. Len(s) |-> g[PairNamed(pairs, s[i])]]
    BY DEF PairsThrough
  <2> HIDE DEF names, s
  <2>. QED
    BY <1>3, <2>1 DEF Through
<1>5. Image(k, names, T)
  BY <1>2 DEF Image, Covers
<1> HIDE DEF names, k, s
<1>. QED
  BY <1>1, <1>4, <1>5, ListedMap

LEMMA PairNamedIn ==
    ASSUME NEW p, Sound(p.old), Sound(p.new), NEW pairs, pairs \subseteq Pairs(p),
           NEW s, s = InOrder({c[1].name : c \in pairs}), NEW i \in 1 .. Len(s)
    PROVE  PairNamed(pairs, s[i]) \in pairs
<1> DEFINE names == {c[1].name : c \in pairs}
<1>1. Listed(s, names)
  BY PairsOnce, NamesListed
<1>2. \A c \in pairs : PairNamed(pairs, c[1].name) = c
  BY PairsOnce, PairNamedIs
<1>3. s[i] \in names
  <2> HIDE DEF names
  <2>. QED
    BY <1>1 DEF Listed
<1>. QED
  BY <1>2, <1>3

LEMMA RetypedListed ==
    ASSUME NEW p, Sound(p.old), Sound(p.new)
    PROVE  Listed(RetypedSteps(p), {Step(<<AlterType(c[2])>>, Raise) : c \in Retyped(p) \cup Enums(p)})
<1> DEFINE pairs == Retyped(p) \cup Enums(p)
           g == [c \in pairs |-> Step(<<AlterType(c[2])>>, Raise)]
           s == InOrder({c[1].name : c \in pairs})
           t == [i \in 1 .. Len(s) |-> Step(<<AlterType(PairNamed(pairs, s[i])[2])>>, Raise)]
           T == {Step(<<AlterType(c[2])>>, Raise) : c \in pairs}
<1>1. RetypedSteps(p) = t
  BY DEF RetypedSteps, EachPair, Each
<1>2. pairs \subseteq Pairs(p)
  BY DEF Retyped, Enums
<1> HIDE DEF pairs
<1>3. \A i \in 1 .. Len(s) : PairNamed(pairs, s[i]) \in pairs
  <2> HIDE DEF s
  <2>. QED
    BY <1>2, PairNamedIn DEF s
<1>4. PairsThrough(t, g, pairs)
  <2>1. t = [i \in 1 .. Len(s) |-> g[PairNamed(pairs, s[i])]]
    <3> HIDE DEF s
    <3>. QED
      BY <1>3
  <2>. QED
    BY <2>1 DEF PairsThrough
<1>5. Image(g, pairs, T)
  BY DEF Image, Covers
<1> HIDE DEF s, g, t, T
<1>6. Listed(t, T)
  BY <1>2, <1>4, <1>5, PairsListed
<1>. QED
  BY <1>1, <1>6 DEF T, pairs

LEMMA DefaultsListed ==
    ASSUME NEW p, Sound(p.old), Sound(p.new)
    PROVE  Listed(DefaultSteps(p), {Step(<<SetDefault(c[2])>>, SetDefault(c[1])) : c \in Redefaulted(p)})
<1> DEFINE pairs == Redefaulted(p)
           g == [c \in pairs |-> Step(<<SetDefault(c[2])>>, SetDefault(c[1]))]
           s == InOrder({c[1].name : c \in pairs})
           t == [i \in 1 .. Len(s) |->
                    Step(<<SetDefault(PairNamed(pairs, s[i])[2])>>, SetDefault(PairNamed(pairs, s[i])[1]))]
           T == {Step(<<SetDefault(c[2])>>, SetDefault(c[1])) : c \in pairs}
<1>1. DefaultSteps(p) = t
  BY DEF DefaultSteps, EachPair, Each
<1>2. pairs \subseteq Pairs(p)
  BY DEF Redefaulted
<1> HIDE DEF pairs
<1>3. \A i \in 1 .. Len(s) : PairNamed(pairs, s[i]) \in pairs
  <2> HIDE DEF s
  <2>. QED
    BY <1>2, PairNamedIn DEF s
<1>4. PairsThrough(t, g, pairs)
  <2>1. t = [i \in 1 .. Len(s) |-> g[PairNamed(pairs, s[i])]]
    <3> HIDE DEF s
    <3>. QED
      BY <1>3
  <2>. QED
    BY <2>1 DEF PairsThrough
<1>5. Image(g, pairs, T)
  BY DEF Image, Covers
<1> HIDE DEF s, g, t, T
<1>6. Listed(t, T)
  BY <1>2, <1>4, <1>5, PairsListed
<1>. QED
  BY <1>1, <1>6 DEF T, pairs

LEMMA ReferencesListed ==
    ASSUME NEW p, Sound(p.old), Sound(p.new)
    PROVE  Listed(ReferenceSteps(p), {Step(<<AddReference(c[2])>>, DropReference(c[2])) : c \in Referring(p)})
<1> DEFINE pairs == Referring(p)
           g == [c \in pairs |-> Step(<<AddReference(c[2])>>, DropReference(c[2]))]
           s == InOrder({c[1].name : c \in pairs})
           t == [i \in 1 .. Len(s) |->
                    Step(<<AddReference(PairNamed(pairs, s[i])[2])>>, DropReference(PairNamed(pairs, s[i])[2]))]
           T == {Step(<<AddReference(c[2])>>, DropReference(c[2])) : c \in pairs}
<1>1. ReferenceSteps(p) = t
  BY DEF ReferenceSteps, EachPair, Each
<1>2. pairs \subseteq Pairs(p)
  BY DEF Referring
<1> HIDE DEF pairs
<1>3. \A i \in 1 .. Len(s) : PairNamed(pairs, s[i]) \in pairs
  <2> HIDE DEF s
  <2>. QED
    BY <1>2, PairNamedIn DEF s
<1>4. PairsThrough(t, g, pairs)
  <2>1. t = [i \in 1 .. Len(s) |-> g[PairNamed(pairs, s[i])]]
    <3> HIDE DEF s
    <3>. QED
      BY <1>3
  <2>. QED
    BY <2>1 DEF PairsThrough
<1>5. Image(g, pairs, T)
  BY DEF Image, Covers
<1> HIDE DEF s, g, t, T
<1>6. Listed(t, T)
  BY <1>2, <1>4, <1>5, PairsListed
<1>. QED
  BY <1>1, <1>6 DEF T, pairs

LEMMA DifferencesFinite ==
    ASSUME NEW p, Sound(p.old), Sound(p.new)
    PROVE  /\ IsFiniteSet(IndexesRemoved(p)) /\ IsFiniteSet(IndexesAdded(p))
           /\ IsFiniteSet(UniquesAdded(p))
<1> DEFINE B == {FieldIndex(f) : f \in p.old.fields}
           A == {FieldIndex(f) : f \in p.new.fields}
           U == {{f.name} : f \in p.old.fields}
           ib == [f \in p.old.fields |-> FieldIndex(f)]
           ia == [f \in p.new.fields |-> FieldIndex(f)]
           iu == [f \in p.old.fields |-> {f.name}]
<1>1. Covers(ib, p.old.fields, B) /\ Covers(ia, p.new.fields, A) /\ Covers(iu, p.old.fields, U)
  BY DEF Covers
<1>2. \A c \in Pairs(p) : c[1] \in p.old.fields /\ c[2] \in p.new.fields
  BY DEF Pairs
<1>3. IndexesRemoved(p) \in SUBSET (p.old.indexes \cup B)
  BY <1>2 DEF IndexesRemoved, IndexesBefore, FieldIndexes
<1>4. IndexesAdded(p) \in SUBSET (p.new.indexes \cup A)
  BY <1>2 DEF IndexesAdded, IndexesAfter, FieldIndexes
<1>5. UniquesAdded(p) \in SUBSET (p.new.uniques \cup U)
  BY <1>2 DEF UniquesAdded, MadeUnique
<1> HIDE DEF B, A, U, ib, ia, iu
<1>6. IsFiniteSet(B) /\ IsFiniteSet(A) /\ IsFiniteSet(U)
  BY <1>1, FiniteImage DEF Sound
<1>7. IsFiniteSet(p.old.indexes \cup B) /\ IsFiniteSet(p.new.indexes \cup A) /\ IsFiniteSet(p.new.uniques \cup U)
  BY <1>6, FS_Union DEF Sound
<1>. QED
  BY <1>3, <1>4, <1>5, <1>7, FS_Subset

LEMMA UniquesListed ==
    ASSUME NEW p, Sound(p.old), Sound(p.new)
    PROVE  Listed(UniqueSteps(p), {Step(<<AddUnique(x)>>, DropUnique(x)) : x \in UniquesAdded(p)})
<1> DEFINE S == UniquesAdded(p)
           g == [x \in S |-> Step(<<AddUnique(x)>>, DropUnique(x))]
           s == SetToSeq(S)
           t == [i \in 1 .. Len(s) |-> Step(<<AddUnique(s[i])>>, DropUnique(s[i]))]
           T == {Step(<<AddUnique(x)>>, DropUnique(x)) : x \in S}
<1>1. UniqueSteps(p) = t
  BY DEF UniqueSteps, Each
<1>2. IsFiniteSet(S)
  BY DifferencesFinite
<1> HIDE DEF S
<1>3. Listed(s, S)
  BY <1>2, SetListed
<1>4. Through(t, g, s)
  <2> HIDE DEF s
  <2>1. \A i \in 1 .. Len(s) : s[i] \in S
    BY <1>3 DEF Listed
  <2>. QED
    BY <2>1 DEF Through
<1>5. Image(g, S, T)
  BY DEF Image, Covers
<1> HIDE DEF s, g, t, T
<1>6. Listed(t, T)
  BY <1>3, <1>4, <1>5, ListedMap
<1>. QED
  BY <1>1, <1>6 DEF T, S

LEMMA RemovalsListed ==
    ASSUME NEW p, Sound(p.old), Sound(p.new)
    PROVE  Listed(IndexRemovals(p), {Step(<<DropIndex(x)>>, CreateIndex(x)) : x \in IndexesRemoved(p)})
<1> DEFINE S == IndexesRemoved(p)
           g == [x \in S |-> Step(<<DropIndex(x)>>, CreateIndex(x))]
           s == SetToSeq(S)
           t == [i \in 1 .. Len(s) |-> Step(<<DropIndex(s[i])>>, CreateIndex(s[i]))]
           T == {Step(<<DropIndex(x)>>, CreateIndex(x)) : x \in S}
<1>1. IndexRemovals(p) = t
  BY DEF IndexRemovals, Each
<1>2. IsFiniteSet(S)
  BY DifferencesFinite
<1> HIDE DEF S
<1>3. Listed(s, S)
  BY <1>2, SetListed
<1>4. Through(t, g, s)
  <2> HIDE DEF s
  <2>1. \A i \in 1 .. Len(s) : s[i] \in S
    BY <1>3 DEF Listed
  <2>. QED
    BY <2>1 DEF Through
<1>5. Image(g, S, T)
  BY DEF Image, Covers
<1> HIDE DEF s, g, t, T
<1>6. Listed(t, T)
  BY <1>3, <1>4, <1>5, ListedMap
<1>. QED
  BY <1>1, <1>6 DEF T, S

LEMMA AdditionsListed ==
    ASSUME NEW p, Sound(p.old), Sound(p.new)
    PROVE  Listed(IndexAdditions(p), {Step(<<CreateIndex(x)>>, DropIndex(x)) : x \in IndexesAdded(p)})
<1> DEFINE S == IndexesAdded(p)
           g == [x \in S |-> Step(<<CreateIndex(x)>>, DropIndex(x))]
           s == SetToSeq(S)
           t == [i \in 1 .. Len(s) |-> Step(<<CreateIndex(s[i])>>, DropIndex(s[i]))]
           T == {Step(<<CreateIndex(x)>>, DropIndex(x)) : x \in S}
<1>1. IndexAdditions(p) = t
  BY DEF IndexAdditions, Each
<1>2. IsFiniteSet(S)
  BY DifferencesFinite
<1> HIDE DEF S
<1>3. Listed(s, S)
  BY <1>2, SetListed
<1>4. Through(t, g, s)
  <2> HIDE DEF s
  <2>1. \A i \in 1 .. Len(s) : s[i] \in S
    BY <1>3 DEF Listed
  <2>. QED
    BY <2>1 DEF Through
<1>5. Image(g, S, T)
  BY DEF Image, Covers
<1> HIDE DEF s, g, t, T
<1>6. Listed(t, T)
  BY <1>3, <1>4, <1>5, ListedMap
<1>. QED
  BY <1>1, <1>6 DEF T, S

\* the steps of a migration that does not create the table
StepSet(p, policy) ==
    {Step(<<DropIndex(x)>>, CreateIndex(x)) : x \in IndexesRemoved(p)}
        \cup {Step(AdditionOf(f, policy), DropField(f)) : f \in Added(p)}
        \cup {Step(<<AlterType(c[2])>>, Raise) : c \in Retyped(p) \cup Enums(p)}
        \cup {Step(<<SetDefault(c[2])>>, SetDefault(c[1])) : c \in Redefaulted(p)}
        \cup {Step(<<AddReference(c[2])>>, DropReference(c[2])) : c \in Referring(p)}
        \cup {Step(<<AddUnique(x)>>, DropUnique(x)) : x \in UniquesAdded(p)}
        \cup {Step(<<CreateIndex(x)>>, DropIndex(x)) : x \in IndexesAdded(p)}

LEMMA StepsListed ==
    ASSUME NEW p, Sound(p.old), Sound(p.new), p.old # Absent, NEW policy
    PROVE  Listed(Steps(p, policy), StepSet(p, policy))
<1>1. Steps(p, policy) = IndexRemovals(p) \o AddedSteps(p, policy) \o RetypedSteps(p) \o DefaultSteps(p)
                            \o ReferenceSteps(p) \o UniqueSteps(p) \o IndexAdditions(p)
  BY DEF Steps
<1>2. Listed(AddedSteps(p, policy), {Step(AdditionOf(f, policy), DropField(f)) : f \in Added(p)})
  BY AddedListed DEF AddedSteps
<1> DEFINE S1 == {Step(<<DropIndex(x)>>, CreateIndex(x)) : x \in IndexesRemoved(p)}
           S2 == {Step(AdditionOf(f, policy), DropField(f)) : f \in Added(p)}
           S3 == {Step(<<AlterType(c[2])>>, Raise) : c \in Retyped(p) \cup Enums(p)}
           S4 == {Step(<<SetDefault(c[2])>>, SetDefault(c[1])) : c \in Redefaulted(p)}
           S5 == {Step(<<AddReference(c[2])>>, DropReference(c[2])) : c \in Referring(p)}
           S6 == {Step(<<AddUnique(x)>>, DropUnique(x)) : x \in UniquesAdded(p)}
           S7 == {Step(<<CreateIndex(x)>>, DropIndex(x)) : x \in IndexesAdded(p)}
           s1 == IndexRemovals(p)
           s2 == AddedSteps(p, policy)
           s3 == RetypedSteps(p)
           s4 == DefaultSteps(p)
           s5 == ReferenceSteps(p)
           s6 == UniqueSteps(p)
           s7 == IndexAdditions(p)
<1>3. /\ Listed(s1, S1) /\ Listed(s2, S2) /\ Listed(s3, S3) /\ Listed(s4, S4)
      /\ Listed(s5, S5) /\ Listed(s6, S6) /\ Listed(s7, S7)
  BY <1>2, RemovalsListed, RetypedListed, DefaultsListed, ReferencesListed, UniquesListed, AdditionsListed
<1>4. StepSet(p, policy) = S1 \cup S2 \cup S3 \cup S4 \cup S5 \cup S6 \cup S7
  BY DEF StepSet
<1>5. Steps(p, policy) = s1 \o s2 \o s3 \o s4 \o s5 \o s6 \o s7
  BY <1>1
<1> HIDE DEF S1, S2, S3, S4, S5, S6, S7, s1, s2, s3, s4, s5, s6, s7
<1>6. Listed(s1 \o s2 \o s3 \o s4 \o s5 \o s6 \o s7, S1 \cup S2 \cup S3 \cup S4 \cup S5 \cup S6 \cup S7)
  <2>1. Listed(s1 \o s2, S1 \cup S2)
    BY <1>3, ListedJoin
  <2>2. Listed(s1 \o s2 \o s3, S1 \cup S2 \cup S3)
    BY <1>3, <2>1, ListedJoin
  <2>3. Listed(s1 \o s2 \o s3 \o s4, S1 \cup S2 \cup S3 \cup S4)
    BY <1>3, <2>2, ListedJoin
  <2>4. Listed(s1 \o s2 \o s3 \o s4 \o s5, S1 \cup S2 \cup S3 \cup S4 \cup S5)
    BY <1>3, <2>3, ListedJoin
  <2>5. Listed(s1 \o s2 \o s3 \o s4 \o s5 \o s6, S1 \cup S2 \cup S3 \cup S4 \cup S5 \cup S6)
    BY <1>3, <2>4, ListedJoin
  <2>. QED
    BY <1>3, <2>5, ListedJoin
<1>. QED
  BY <1>4, <1>5, <1>6

\* the groups of a migration, up and down
UpSet(p, policy) ==
    {<<Check(a)>> : a \in policy.assertions} \cup {s.up : s \in StepSet(p, policy)}
DownSet(p, policy) == {<<s.down>> : s \in StepSet(p, policy)}

LEMMA UpListed ==
    ASSUME NEW p, Sound(p.old), Sound(p.new), p.old # Absent, NEW policy, IsFiniteSet(policy.assertions)
    PROVE  Listed(UpgradeOf(Steps(p, policy), policy), UpSet(p, policy))
<1> DEFINE A == policy.assertions
           a == SetToSeq(A)
           ga == [x \in A |-> <<Check(x)>>]
           ta == [i \in 1 .. Len(a) |-> <<Check(a[i])>>]
           TA == {<<Check(x)>> : x \in A}
           S == StepSet(p, policy)
           s == Steps(p, policy)
           gs == [x \in S |-> x.up]
           ts == [i \in 1 .. Len(s) |-> s[i].up]
           TS == {x.up : x \in S}
<1>1. UpgradeOf(s, policy) = ta \o ts
  BY DEF UpgradeOf, Each
<1>2. UpSet(p, policy) = TA \cup TS
  BY DEF UpSet
<1>3. Listed(a, A) /\ Listed(s, S)
  BY SetListed, StepsListed
<1> HIDE DEF A, a, S, s
<1>4. Through(ta, ga, a) /\ Through(ts, gs, s)
  <2>1. /\ \A i \in 1 .. Len(a) : a[i] \in A
        /\ \A i \in 1 .. Len(s) : s[i] \in S
    BY <1>3 DEF Listed
  <2>. QED
    BY <2>1 DEF Through
<1>5. Image(ga, A, TA) /\ Image(gs, S, TS)
  BY DEF Image, Covers
<1> HIDE DEF ga, gs, ta, ts, TA, TS
<1>6. Listed(ta, TA) /\ Listed(ts, TS)
  BY <1>3, <1>4, <1>5, ListedMap
<1>7. Listed(ta \o ts, TA \cup TS)
  BY <1>6, ListedJoin
<1>. QED
  BY <1>1, <1>2, <1>7 DEF s

LEMMA DownListed ==
    ASSUME NEW p, Sound(p.old), Sound(p.new), p.old # Absent, NEW policy
    PROVE  Listed(DowngradeOf(Steps(p, policy)), DownSet(p, policy))
<1> DEFINE S == StepSet(p, policy)
           s == Steps(p, policy)
           gs == [x \in S |-> <<x.down>>]
           ts == [i \in 1 .. Len(s) |-> <<s[i].down>>]
           TS == {<<x.down>> : x \in S}
<1>1. DowngradeOf(s) = Reverse(ts)
  BY DEF DowngradeOf, Each
<1>2. DownSet(p, policy) = TS
  BY DEF DownSet
<1>3. Listed(s, S)
  BY StepsListed
<1> HIDE DEF S, s
<1>4. Through(ts, gs, s)
  <2>1. \A i \in 1 .. Len(s) : s[i] \in S
    BY <1>3 DEF Listed
  <2>. QED
    BY <2>1 DEF Through
<1>5. Image(gs, S, TS)
  BY DEF Image, Covers
<1> HIDE DEF gs, ts, TS
<1>6. Listed(ts, TS)
  BY <1>3, <1>4, <1>5, ListedMap
<1>. QED
  BY <1>1, <1>2, <1>6, ListedReverse DEF s

-----------------------------------------------------------------------------
(* Values in a column                                                      *)
LEMMA RoundTwice ==
    ASSUME NEW scale, NEW x \in Int
    PROVE  /\ (x \div Unit(scale)) * Unit(scale) \in Int
           /\ (((x \div Unit(scale)) * Unit(scale)) \div Unit(scale)) * Unit(scale) = (x \div Unit(scale)) * Unit(scale)
<1>1. CASE scale = 0
  BY <1>1 DEF Unit
<1>2. CASE scale = 1
  BY <1>2 DEF Unit
<1>3. CASE scale # 0 /\ scale # 1
  BY <1>3 DEF Unit
<1>. QED
  BY <1>1, <1>2, <1>3

LEMMA NullIsCell == Null \in Cells /\ \A n \in Int : Plain(n) \in Cells
BY DEF Null, Cells, Plain

LEMMA PlaceTwice ==
    ASSUME NEW type, NEW v \in Cells
    PROVE  Place(type, v) \in Cells /\ Place(type, Place(type, v)) = Place(type, v)
<1>1. CASE type.kind \notin {"int", "decimal"} \/ v = Null
  <2>1. Place(type, v) = v
    BY <1>1 DEF Place
  <2>. QED
    BY <2>1
<1>2. CASE type.kind \in {"int", "decimal"} /\ v # Null
  <2> DEFINE u == Unit(type.scale)
             w == [v EXCEPT !.room = (@ \div u) * u]
  <2>1. Place(type, v) = w
    BY <1>2 DEF Place
  <2>2. v.room \in Int /\ v = [room |-> v.room, sealed |-> v.sealed] /\ v.sealed \in BOOLEAN
    BY DEF Cells
  <2>3. w = [room |-> (v.room \div u) * u, sealed |-> v.sealed]
    BY <2>2
  <2>4. (v.room \div u) * u \in Int /\ (((v.room \div u) * u) \div u) * u = (v.room \div u) * u
    BY <2>2, RoundTwice
  <2>5. Place(type, w) = IF w = Null THEN w ELSE [w EXCEPT !.room = (@ \div u) * u]
    BY <1>2 DEF Place
  <2> HIDE DEF u
  <2>8. w \in Cells
    BY <2>2, <2>3, <2>4 DEF Cells
  <2> DEFINE x == (v.room \div u) * u
  <2>a. w = [room |-> x, sealed |-> v.sealed] /\ (x \div u) * u = x
    BY <2>3, <2>4
  <2> HIDE DEF w, x
  <2>6. [w EXCEPT !.room = (@ \div u) * u] = [room |-> (x \div u) * u, sealed |-> v.sealed]
    BY <2>a
  <2>7. Place(type, w) = w
    BY <2>a, <2>5, <2>6
  <2>. QED
    BY <2>1, <2>7, <2>8
<1>. QED
  BY <1>1, <1>2

LEMMA PlaceText ==
    ASSUME NEW type, type.kind \in {"str", "text"}, NEW v
    PROVE  Place(type, v) = v
BY DEF Place

\* What a reviewed type change does to a number in the column: nothing.
LEMMA WideningKeeps ==
    ASSUME NEW old, NEW new, NEW v, Place(old, v) = v,
           Classify(old, new) = "SAFE_WIDENING" \/ (old.kind = "enum" /\ new.kind = "enum"),
           old.kind = "int" => old.scale = 0
    PROVE  Place(new, v) = v
<1>1. CASE new.kind \notin {"int", "decimal"} \/ v = Null
  BY <1>1 DEF Place
<1>2. CASE new.kind \in {"int", "decimal"} /\ v # Null
  <2>1. Classify(old, new) = "SAFE_WIDENING"
    BY <1>2
  <2>2. \/ old.kind = "decimal" /\ new.kind = "decimal" /\ ClassifyDecimals(old, new) = "SAFE_WIDENING"
        \/ old.kind = "int" /\ new.kind = "decimal" /\ new.scale = 0
    <3>1. CASE old.kind = "decimal"
      BY <1>2, <2>1, <3>1 DEF Classify
    <3>2. CASE old.kind = "int"
      BY <1>2, <2>1, <3>2 DEF Classify
    <3>3. CASE old.kind = "float"
      BY <1>2, <2>1, <3>3 DEF Classify
    <3>4. CASE old.kind \notin {"decimal", "int", "float"}
      BY <1>2, <2>1, <3>4 DEF Classify
    <3>. QED
      BY <3>1, <3>2, <3>3, <3>4
  <2>3. old.scale = new.scale /\ old.kind \in {"int", "decimal"}
    BY <2>2 DEF ClassifyDecimals
  <2>. QED
    BY <1>2, <2>3 DEF Place
<1>. QED
  BY <1>1, <1>2

-----------------------------------------------------------------------------
(* What an operation that is carried out does to the table and its rows    *)
IsTable(t) ==
    t = [exists |-> t.exists, columns |-> t.columns, indexes |-> t.indexes, uniques |-> t.uniques, fks |-> t.fks]
Quiet == {"assert", "add_index", "drop_index", "add_unique", "drop_unique", "add_fk", "drop_fk"}

QuietEffect(t, u, o) ==
    /\ IsTable(u) /\ u.exists = t.exists /\ u.columns = t.columns
    /\ u.uniques = CASE o.op = "add_unique" -> t.uniques \cup {o.columns}
                     [] o.op = "drop_unique" -> t.uniques \ {o.columns}
                     [] OTHER -> t.uniques
    /\ u.fks = CASE o.op = "add_fk" -> t.fks \cup {o.name}
                 [] o.op = "drop_fk" -> t.fks \ {o.name}
                 [] OTHER -> t.fks
    /\ u.indexes = CASE o.op = "add_index" -> t.indexes \cup {o.index}
                     [] o.op = "drop_index" -> t.indexes \ {o.index}
                     [] OTHER -> t.indexes

LEMMA QuietOp ==
    ASSUME NEW run, NEW o, Perform(run, o).ok, o.op \in Quiet, IsTable(run.table),
           NEW t, t = run.table, NEW u, u = Perform(run, o).table
    PROVE  QuietEffect(t, u, o) /\ Perform(run, o).rows = run.rows
<1> USE DEF QuietEffect
<1>1. u = Effect(t, run.rows, o).table /\ Perform(run, o).rows = Effect(t, run.rows, o).rows
  BY PerformIs
<1>2. CASE o.op = "assert"
  BY <1>1, <1>2 DEF Effect, IsTable
<1>3. CASE o.op = "add_index"
  BY <1>1, <1>3 DEF Effect, IsTable
<1>4. CASE o.op = "drop_index"
  BY <1>1, <1>4 DEF Effect, IsTable
<1>5. CASE o.op = "add_unique"
  BY <1>1, <1>5 DEF Effect, IsTable
<1>6. CASE o.op = "drop_unique"
  BY <1>1, <1>6 DEF Effect, IsTable
<1>7. CASE o.op = "add_fk"
  BY <1>1, <1>7 DEF Effect, IsTable
<1>8. CASE o.op = "drop_fk"
  BY <1>1, <1>8 DEF Effect, IsTable
<1>. QED
  BY <1>2, <1>3, <1>4, <1>5, <1>6, <1>7, <1>8 DEF Quiet

\* the operations that change a column leave the rest of the table alone
SameBut(u, t) ==
    /\ IsTable(u) /\ u.exists = t.exists /\ u.uniques = t.uniques /\ u.fks = t.fks /\ u.indexes = t.indexes

LEMMA AddColumnOp ==
    ASSUME NEW run, NEW o, Perform(run, o).ok, o.op = "add_column", IsTable(run.table)
    PROVE  /\ SameBut(Perform(run, o).table, run.table)
           /\ o.column.name \notin ColumnNames(run.table)
           /\ Perform(run, o).table.columns = run.table.columns \cup {o.column}
           /\ Perform(run, o).rows =
                 [i \in DOMAIN run.rows |-> Extended(run.rows[i], o.column.name, Start(o.column))]
<1>1. /\ Perform(run, o).table = Effect(run.table, run.rows, o).table
      /\ Perform(run, o).rows = Effect(run.table, run.rows, o).rows
      /\ Applicable(run.table, run.rows, o)
  BY PerformIs
<1>2. Effect(run.table, run.rows, o) =
         [table |-> [run.table EXCEPT !.columns = @ \cup {o.column}],
          rows |-> [i \in DOMAIN run.rows |-> Extended(run.rows[i], o.column.name, Start(o.column))]]
  BY DEF Effect
<1>3. o.column.name \notin ColumnNames(run.table)
  BY <1>1 DEF Applicable
<1>. QED
  BY <1>1, <1>2, <1>3 DEF SameBut, IsTable

LEMMA FillOp ==
    ASSUME NEW run, NEW o, Perform(run, o).ok, o.op = "fill", IsTable(run.table)
    PROVE  /\ Perform(run, o).table = run.table
           /\ Perform(run, o).rows = Fill(run.table, run.rows, o).rows
           /\ o.by.source \in {""} \cup ColumnNames(run.table)
<1>1. /\ Perform(run, o).table = Effect(run.table, run.rows, o).table
      /\ Perform(run, o).rows = Effect(run.table, run.rows, o).rows
      /\ Applicable(run.table, run.rows, o)
  BY PerformIs
<1>2. Effect(run.table, run.rows, o) = Fill(run.table, run.rows, o)
  BY DEF Effect
<1>3. o.by.source \in {""} \cup ColumnNames(run.table)
  BY <1>1 DEF Applicable
<1>4. Fill(run.table, run.rows, o).table = run.table
  BY DEF Fill
<1>. QED
  BY <1>1, <1>2, <1>3, <1>4

LEMMA RequireOp ==
    ASSUME NEW run, NEW o, Perform(run, o).ok, o.op = "require", IsTable(run.table)
    PROVE  /\ SameBut(Perform(run, o).table, run.table)
           /\ Perform(run, o).rows = run.rows
           /\ Perform(run, o).table.columns =
                 {IF c.name = o.name THEN [c EXCEPT !.nullable = FALSE] ELSE c : c \in run.table.columns}
<1>1. /\ Perform(run, o).table = Effect(run.table, run.rows, o).table
      /\ Perform(run, o).rows = Effect(run.table, run.rows, o).rows
  BY PerformIs
<1> DEFINE C == {IF c.name = o.name THEN [c EXCEPT !.nullable = FALSE] ELSE c : c \in run.table.columns}
           R == run.rows
<1>2. Effect(run.table, run.rows, o) = [table |-> [run.table EXCEPT !.columns = C], rows |-> R]
  BY DEF Effect, SetColumn
<1> HIDE DEF C, R
<1>3. Perform(run, o).table = [run.table EXCEPT !.columns = C] /\ Perform(run, o).rows = R
  BY <1>1, <1>2
<1>4. SameBut(Perform(run, o).table, run.table) /\ Perform(run, o).table.columns = C
  BY <1>3 DEF SameBut, IsTable
<1>. QED
  BY <1>3, <1>4 DEF C, R

LEMMA DefaultOp ==
    ASSUME NEW run, NEW o, Perform(run, o).ok, o.op = "set_default", IsTable(run.table)
    PROVE  /\ SameBut(Perform(run, o).table, run.table)
           /\ Perform(run, o).rows = run.rows
           /\ Perform(run, o).table.columns =
                 {IF c.name = o.name THEN [c EXCEPT !.default = o.default] ELSE c : c \in run.table.columns}
<1>1. /\ Perform(run, o).table = Effect(run.table, run.rows, o).table
      /\ Perform(run, o).rows = Effect(run.table, run.rows, o).rows
  BY PerformIs
<1> DEFINE C == {IF c.name = o.name THEN [c EXCEPT !.default = o.default] ELSE c : c \in run.table.columns}
           R == run.rows
<1>2. Effect(run.table, run.rows, o) = [table |-> [run.table EXCEPT !.columns = C], rows |-> R]
  BY DEF Effect, SetColumn
<1> HIDE DEF C, R
<1>3. Perform(run, o).table = [run.table EXCEPT !.columns = C] /\ Perform(run, o).rows = R
  BY <1>1, <1>2
<1>4. SameBut(Perform(run, o).table, run.table) /\ Perform(run, o).table.columns = C
  BY <1>3 DEF SameBut, IsTable
<1>. QED
  BY <1>3, <1>4 DEF C, R

\* the columns when one has another type
Typed(columns, name, type) == {IF c.name = name THEN [c EXCEPT !.type = type] ELSE c : c \in columns}

LEMMA AlterOp ==
    ASSUME NEW run, NEW o, Perform(run, o).ok, o.op = "alter_type", IsTable(run.table)
    PROVE  /\ SameBut(Perform(run, o).table, run.table)
           /\ Perform(run, o).rows =
                 [i \in DOMAIN run.rows |-> [run.rows[i] EXCEPT ![o.name] = Place(o.type, @)]]
           /\ Perform(run, o).table.columns = Typed(run.table.columns, o.name, o.type)
<1>1. /\ Perform(run, o).table = Effect(run.table, run.rows, o).table
      /\ Perform(run, o).rows = Effect(run.table, run.rows, o).rows
  BY PerformIs
<1> DEFINE C == {IF c.name = o.name THEN [c EXCEPT !.type = o.type] ELSE c : c \in run.table.columns}
           R == [i \in DOMAIN run.rows |-> [run.rows[i] EXCEPT ![o.name] = Place(o.type, @)]]
<1>2. Effect(run.table, run.rows, o) = [table |-> [run.table EXCEPT !.columns = C], rows |-> R]
  BY DEF Effect, SetColumn, Retype
<1> HIDE DEF C, R, Typed
<1>3. Perform(run, o).table = [run.table EXCEPT !.columns = C] /\ Perform(run, o).rows = R
  BY <1>1, <1>2
<1>4. SameBut(Perform(run, o).table, run.table) /\ Perform(run, o).table.columns = C
  BY <1>3 DEF SameBut, IsTable
<1>. QED
  BY <1>3, <1>4 DEF C, R, Typed

LEMMA DropColumnOp ==
    ASSUME NEW run, NEW o, Perform(run, o).ok, o.op = "drop_column", IsTable(run.table)
    PROVE  /\ IsTable(Perform(run, o).table) /\ Perform(run, o).table.exists = run.table.exists
           /\ Perform(run, o).table.columns = {c \in run.table.columns : c.name # o.name}
           /\ Perform(run, o).table.fks = run.table.fks \ {o.name}
           /\ Perform(run, o).table.uniques = {cs \in run.table.uniques : o.name \notin cs}
           /\ Perform(run, o).table.indexes = {x \in run.table.indexes : o.name \notin x.columns}
           /\ Perform(run, o).rows = [i \in DOMAIN run.rows |-> Without(run.rows[i], o.name)]
<1>1. /\ Perform(run, o).table = Effect(run.table, run.rows, o).table
      /\ Perform(run, o).rows = Effect(run.table, run.rows, o).rows
  BY PerformIs
<1> DEFINE C == {c \in run.table.columns : c.name # o.name}
           F == run.table.fks \ {o.name}
           U == {cs \in run.table.uniques : o.name \notin cs}
           X == {x \in run.table.indexes : o.name \notin x.columns}
           R == [i \in DOMAIN run.rows |-> Without(run.rows[i], o.name)]
<1>2. Effect(run.table, run.rows, o) = DropColumn(run.table, run.rows, o)
  BY DEF Effect
<1>3. DropColumn(run.table, run.rows, o) =
         [table |-> [run.table EXCEPT !.columns = C, !.fks = F, !.uniques = U, !.indexes = X], rows |-> R]
  BY DEF DropColumn
<1> HIDE DEF C, F, U, X, R
<1>4. Perform(run, o).table = [run.table EXCEPT !.columns = C, !.fks = F, !.uniques = U, !.indexes = X]
      /\ Perform(run, o).rows = R
  BY <1>1, <1>2, <1>3
<1>5. /\ IsTable(Perform(run, o).table) /\ Perform(run, o).table.exists = run.table.exists
      /\ Perform(run, o).table.columns = C /\ Perform(run, o).table.fks = F
      /\ Perform(run, o).table.uniques = U /\ Perform(run, o).table.indexes = X
  BY <1>4 DEF IsTable
<1>. QED
  BY <1>4, <1>5 DEF C, F, U, X, R

-----------------------------------------------------------------------------
(* The operations of a migration                                           *)
Adding(f) ==
    [op |-> "add_column", column |-> IF Required(f) THEN [Column(f) EXCEPT !.nullable = TRUE] ELSE Column(f)]
Filling(f, policy) == [op |-> "fill", name |-> f.name, by |-> BackfillOf(policy, f.name)]
Requiring(f) == [op |-> "require", name |-> f.name]
Uniques(d) == CreateTable(d).uniques

\* the indexes of a definition, and those that a migration makes
IndexesOf(d) == d.indexes \cup FieldIndexes(d.fields)
IndexesMade(p) == IndexesAdded(p) \cup FieldIndexes(Added(p))

QuietUp(o, p) ==
    \/ o.op \in {"assert", "drop_index"}
    \/ o.op = "add_index" /\ o.index \in IndexesMade(p)
    \/ o.op = "add_unique" /\ o.columns \in Uniques(p.new)
    \/ o.op = "add_fk" /\ o.name \in Names(p.new)
IsUp(o, p, policy) ==
    \/ QuietUp(o, p)
    \/ \E f \in Added(p) : \/ o = Adding(f)
                           \/ Required(f) /\ (o = Filling(f, policy) \/ o = Requiring(f))
    \/ \E c \in Retyped(p) \cup Enums(p) : o = AlterType(c[2])
    \/ \E c \in Redefaulted(p) : o = SetDefault(c[2])

LEMMA ListedOne == \A x : Listed(<<x>>, {x})
<1> SUFFICES ASSUME NEW x PROVE Listed(<<x>>, {x})
  OBVIOUS
<1>1. <<x>> \in Seq({x}) /\ Len(<<x>>) = 1 /\ <<x>>[1] = x
  OBVIOUS
<1>. QED
  BY <1>1 DEF Listed

LEMMA ListedIf == \A c, o : Listed(If(c, o), {x \in {o} : c})
<1> SUFFICES ASSUME NEW c, NEW o PROVE Listed(If(c, o), {x \in {o} : c})
  OBVIOUS
<1>1. CASE c
  <2>1. If(c, o) = <<o>> /\ {x \in {o} : c} = {o}
    BY <1>1 DEF If
  <2>. QED
    BY <2>1, ListedOne
<1>2. CASE ~c
  <2>1. If(c, o) = <<>> /\ {x \in {o} : c} = {}
    BY <1>2 DEF If
  <2>2. <<>> \in Seq({}) /\ Len(<<>>) = 0
    OBVIOUS
  <2>. QED
    BY <2>1, <2>2 DEF Listed
<1>. QED
  BY <1>1, <1>2

LEMMA JoinedParts ==
    ASSUME NEW S, NEW T, NEW s, NEW t, Listed(s, S), Listed(t, T)
    PROVE  /\ Len(s) \in Nat /\ Len(t) \in Nat /\ Len(s \o t) = Len(s) + Len(t)
           /\ \A i \in 1 .. Len(s) : (s \o t)[i] = s[i]
           /\ \A i \in 1 .. Len(t) : (s \o t)[Len(s) + i] = t[i]
<1>1. s \in Seq(S \cup T) /\ t \in Seq(S \cup T)
  BY DEF Listed
<1>2. /\ Len(s \o t) = Len(s) + Len(t)
      /\ \A i \in 1 .. Len(s) + Len(t) : (s \o t)[i] = IF i <= Len(s) THEN s[i] ELSE t[i - Len(s)]
  BY <1>1, ConcatProperties, Zenon
<1>3. Len(s) \in Nat /\ Len(t) \in Nat
  BY <1>1
<1>. QED
  BY <1>2, <1>3

\* an addition begins with the column, and a required one ends by requiring it
LEMMA AdditionIs ==
    ASSUME NEW p, NEW f \in Added(p), NEW policy, NEW g, g = AdditionOf(f, policy)
    PROVE  /\ Len(g) \in Nat /\ Len(g) >= 1 /\ g[1] = Adding(f)
           /\ \A j \in 1 .. Len(g) : IsUp(g[j], p, policy)
           /\ f.unique => \E j \in 1 .. Len(g) : g[j] = AddUnique({f.name})
           /\ Required(f) => Len(g) > 1 /\ g[Len(g)] = Requiring(f)
<1> DEFINE add == Adding(f)
           uniq == AddUnique({f.name})
           ref == AddReference(f)
           ind == CreateIndex(FieldIndex(f))
           fill == Filling(f, policy)
           full == Check([kind |-> "null_count", fields |-> {f.name}, count |-> 0])
           req == Requiring(f)
<1>0. f \in p.new.fields
  BY DEF Added
<1>1. /\ IsUp(add, p, policy)
      /\ f.unique => IsUp(uniq, p, policy)
      /\ f.fk => IsUp(ref, p, policy)
      /\ f.index => IsUp(ind, p, policy)
      /\ Required(f) => IsUp(fill, p, policy) /\ IsUp(req, p, policy)
      /\ IsUp(full, p, policy)
  <2>1. f.unique => {f.name} \in Uniques(p.new)
    BY <1>0 DEF Uniques, CreateTable
  <2>2. f.name \in Names(p.new)
    BY <1>0 DEF Names
  <2>3. IsUp(add, p, policy) /\ (Required(f) => IsUp(fill, p, policy) /\ IsUp(req, p, policy))
    BY DEF IsUp
  <2>4. /\ uniq.op = "add_unique" /\ uniq.columns = {f.name} /\ ref.op = "add_fk" /\ ref.name = f.name
        /\ ind.op = "add_index" /\ ind.index = FieldIndex(f) /\ full.op = "assert"
    BY DEF AddUnique, AddReference, CreateIndex, Check
  <2>5. f.index => FieldIndex(f) \in IndexesMade(p)
    BY DEF IndexesMade, FieldIndexes
  <2> HIDE DEF add, uniq, ref, ind, fill, full, req
  <2>. QED
    BY <2>1, <2>2, <2>3, <2>4, <2>5 DEF IsUp, QuietUp
<1>2. CASE Required(f)
  <2> DEFINE a == If(f.unique, uniq)
             A == {x \in {uniq} : f.unique}
             d == <<fill, full, req>>
             D == {fill, full, req}
  <2>1. g = <<add>> \o a \o d
    BY <1>2 DEF AdditionOf, RequiredAddition, Adding, Filling, Requiring
  <2>2. Len(d) = 3 /\ d[1] = fill /\ d[2] = full /\ d[3] = req /\ d \in Seq(D)
    OBVIOUS
  <2>3. Listed(d, D)
    BY <2>2 DEF Listed
  <2>4. Listed(a, A) /\ Listed(<<add>>, {add}) /\ Len(<<add>>) = 1 /\ <<add>>[1] = add
    <3> HIDE DEF add, uniq
    <3>1. Listed(If(f.unique, uniq), {x \in {uniq} : f.unique})
      BY ListedIf
    <3>2. Listed(<<add>>, {add})
      BY ListedOne
    <3>3. Len(<<add>>) = 1 /\ <<add>>[1] = add
      OBVIOUS
    <3>. QED
      BY <3>1, <3>2, <3>3
  <2>5. (\A x \in A \cup D : IsUp(x, p, policy)) /\ (f.unique => uniq \in A)
    BY <1>1, <1>2
  <2> HIDE DEF add, uniq, fill, full, req, a, A, d, D
  <2>6. Listed(<<add>> \o a, {add} \cup A) /\ Listed(<<add>> \o a \o d, {add} \cup A \cup D)
    BY <2>3, <2>4, ListedJoin
  <2>7. Len(<<add>> \o a) = 1 + Len(a) /\ Len(a) \in Nat /\ (<<add>> \o a)[1] = add
    BY <2>4, JoinedParts
  <2> DEFINE e == <<add>> \o a
             E == {add} \cup A
  <2>8. Listed(e, E) /\ Len(e) = 1 + Len(a) /\ e[1] = add /\ g = e \o d /\ Listed(g, E \cup D)
    BY <2>1, <2>6, <2>7
  <2>9. \A x \in E \cup D : IsUp(x, p, policy)
    BY <1>1, <2>5
  <2>10. uniq \in A => uniq \in E \cup D
    OBVIOUS
  <2> HIDE DEF e, E
  <2>11. Len(g) = 1 + Len(a) + 3 /\ g[1] = add /\ g[1 + Len(a) + 3] = req
    <3>1. /\ Len(e \o d) = Len(e) + Len(d)
          /\ \A i \in 1 .. Len(e) : (e \o d)[i] = e[i]
          /\ \A i \in 1 .. Len(d) : (e \o d)[Len(e) + i] = d[i]
      <4>1. Listed(e, E)
        BY <2>8
      <4>2. Listed(d, D)
        BY <2>3
      <4>3. Len(e \o d) = Len(e) + Len(d)
        BY <4>1, <4>2, JoinedParts
      <4>4. \A i \in 1 .. Len(e) : (e \o d)[i] = e[i]
        BY <4>1, <4>2, JoinedParts
      <4>5. \A i \in 1 .. Len(d) : (e \o d)[Len(e) + i] = d[i]
        BY <4>1, <4>2, JoinedParts
      <4>. QED
        BY <4>3, <4>4, <4>5
    <3>2. 1 \in 1 .. Len(e) /\ 3 \in 1 .. Len(d)
      BY <2>2, <2>7, <2>8
    <3>. QED
      BY <2>2, <2>8, <3>1, <3>2
  <2>12. /\ \A j \in 1 .. Len(g) : IsUp(g[j], p, policy)
         /\ f.unique => \E j \in 1 .. Len(g) : g[j] = uniq
    BY <2>5, <2>8, <2>9, <2>10 DEF Listed
  <2>13. Len(g) \in Nat /\ Len(g) > 1 /\ g[Len(g)] = req
    BY <2>7, <2>11
  <2>. QED
    <3>1. g[1] = Adding(f) /\ g[Len(g)] = Requiring(f)
      BY <2>11, <2>13 DEF add, req
    <3>2. f.unique => \E j \in 1 .. Len(g) : g[j] = AddUnique({f.name})
      BY <2>12 DEF uniq
    <3>3. Len(g) >= 1
      BY <2>13
    <3>. QED
      BY <2>12, <2>13, <3>1, <3>2, <3>3
<1>3. CASE ~Required(f)
  <2>1. g = <<add>> \o If(f.unique, uniq) \o If(f.fk, ref) \o If(f.index, ind)
    BY <1>3 DEF AdditionOf, Addition, Adding
  <2>2. Listed(If(f.unique, uniq), {x \in {uniq} : f.unique}) /\ Listed(If(f.fk, ref), {x \in {ref} : f.fk})
        /\ Listed(If(f.index, ind), {x \in {ind} : f.index}) /\ Listed(<<add>>, {add})
    <3> HIDE DEF add, uniq, ref, ind
    <3>1. Listed(If(f.unique, uniq), {x \in {uniq} : f.unique})
      BY ListedIf
    <3>2. Listed(If(f.fk, ref), {x \in {ref} : f.fk})
      BY ListedIf
    <3>3. Listed(If(f.index, ind), {x \in {ind} : f.index})
      BY ListedIf
    <3>4. Listed(<<add>>, {add})
      BY ListedOne
    <3>. QED
      BY <3>1, <3>2, <3>3, <3>4
  <2> DEFINE a == If(f.unique, uniq)
             b == If(f.fk, ref)
             c == If(f.index, ind)
             A == {x \in {uniq} : f.unique}
             B == {x \in {ref} : f.fk}
             C == {x \in {ind} : f.index}
  <2>3. Listed(a, A) /\ Listed(b, B) /\ Listed(c, C) /\ Listed(<<add>>, {add}) /\ g = <<add>> \o a \o b \o c
    BY <2>1, <2>2
  <2>4. \A x \in A \cup B \cup C : IsUp(x, p, policy)
    BY <1>1
  <2>5. f.unique => uniq \in A
    OBVIOUS
  <2> HIDE DEF a, b, c, A, B, C, add, uniq, ref, ind
  <2>6. Listed(<<add>> \o a \o b \o c, {add} \cup A \cup B \cup C)
    BY <2>3, ListedJoin
  <2>7. Listed(g, {add} \cup A \cup B \cup C)
    BY <2>3, <2>6
  <2>8. \A j \in 1 .. Len(g) : IsUp(g[j], p, policy)
    BY <1>1, <2>4, <2>7 DEF Listed
  <2>9. f.unique => \E j \in 1 .. Len(g) : g[j] = uniq
    BY <2>5, <2>7 DEF Listed
  <2>10. Len(g) \in Nat /\ Len(g) >= 1 /\ g[1] = add
    <3>0. Len(<<add>>) = 1 /\ <<add>>[1] = add
      OBVIOUS
    <3>1. Listed(<<add>> \o a, {add} \cup A) /\ Len(<<add>> \o a) = 1 + Len(a) /\ Len(a) \in Nat
          /\ (<<add>> \o a)[1] = add
      BY <2>3, <3>0, ListedJoin, JoinedParts
    <3> DEFINE d == <<add>> \o a
               D == {add} \cup A
    <3>2. Listed(d, D) /\ Len(d) = 1 + Len(a) /\ d[1] = add /\ g = d \o b \o c
      BY <2>3, <3>1
    <3> HIDE DEF d, D
    <3>3. Listed(d \o b, D \cup B) /\ Len(d \o b) = 1 + Len(a) + Len(b) /\ Len(b) \in Nat
          /\ (d \o b)[1] = add
      <4>1. Listed(d \o b, D \cup B)
        BY <2>3, <3>2, ListedJoin
      <4>2. /\ Len(d \o b) = Len(d) + Len(b) /\ Len(b) \in Nat
            /\ \A i \in 1 .. Len(d) : (d \o b)[i] = d[i]
        <5>1. Listed(d, D) /\ Listed(b, B)
          BY <2>3, <3>2
        <5>2. Len(d \o b) = Len(d) + Len(b) /\ Len(b) \in Nat
          BY <5>1, JoinedParts
        <5>3. \A i \in 1 .. Len(d) : (d \o b)[i] = d[i]
          BY <5>1, JoinedParts
        <5>. QED
          BY <5>2, <5>3
      <4>3. 1 \in 1 .. Len(d)
        BY <3>1, <3>2
      <4>. QED
        BY <3>2, <4>1, <4>2, <4>3
    <3> DEFINE e == d \o b
               E == D \cup B
    <3>4. Listed(e, E) /\ Len(e) = 1 + Len(a) + Len(b) /\ e[1] = add /\ g = e \o c
      BY <3>2, <3>3
    <3> HIDE DEF e, E
    <3>5. /\ Len(e \o c) = Len(e) + Len(c) /\ Len(c) \in Nat
          /\ \A i \in 1 .. Len(e) : (e \o c)[i] = e[i]
      <4>1. Listed(e, E) /\ Listed(c, C)
        BY <2>3, <3>4
      <4>2. Len(e \o c) = Len(e) + Len(c) /\ Len(c) \in Nat
        BY <4>1, JoinedParts
      <4>3. \A i \in 1 .. Len(e) : (e \o c)[i] = e[i]
        BY <4>1, JoinedParts
      <4>. QED
        BY <4>2, <4>3
    <3>6. 1 \in 1 .. Len(e)
      BY <3>1, <3>3, <3>4
    <3>. QED
      BY <3>1, <3>3, <3>4, <3>5, <3>6
  <2>. QED
    BY <1>3, <2>8, <2>9, <2>10 DEF add, uniq
<1>. QED
  BY <1>2, <1>3

LEMMA SingleIs == \A x : Len(<<x>>) = 1 /\ <<x>>[1] = x
OBVIOUS

LEMMA GroupsUp ==
    ASSUME NEW p, NEW policy, NEW g \in UpSet(p, policy)
    PROVE  Len(g) \in Nat /\ \A j \in 1 .. Len(g) : IsUp(g[j], p, policy)
<1>1. ASSUME NEW o, g = <<o>>, IsUp(o, p, policy)
      PROVE  Len(g) \in Nat /\ \A j \in 1 .. Len(g) : IsUp(g[j], p, policy)
  <2>1. Len(g) = 1 /\ g[1] = o
    BY <1>1, SingleIs
  <2>. QED
    BY <1>1, <2>1
<1>2. CASE \E a \in policy.assertions : g = <<Check(a)>>
  <2>1. PICK a \in policy.assertions : g = <<Check(a)>>
    BY <1>2
  <2>2. IsUp(Check(a), p, policy)
    BY DEF IsUp, QuietUp, Check
  <2>. QED
    BY <1>1, <2>1, <2>2
<1>3. CASE \E s \in StepSet(p, policy) : g = s.up
  <2>1. PICK s \in StepSet(p, policy) : g = s.up
    BY <1>3
  <2>2. CASE \E x \in IndexesRemoved(p) : s = Step(<<DropIndex(x)>>, CreateIndex(x))
    <3>1. PICK x \in IndexesRemoved(p) : g = <<DropIndex(x)>>
      BY <2>1, <2>2 DEF Step
    <3>2. IsUp(DropIndex(x), p, policy)
      BY DEF IsUp, QuietUp, DropIndex
    <3>. QED
      BY <1>1, <3>1, <3>2
  <2>3. CASE \E f \in Added(p) : s = Step(AdditionOf(f, policy), DropField(f))
    <3>1. PICK f \in Added(p) : g = AdditionOf(f, policy)
      BY <2>1, <2>3 DEF Step
    <3>. QED
      BY <3>1, AdditionIs
  <2>4. CASE \E c \in Retyped(p) \cup Enums(p) : s = Step(<<AlterType(c[2])>>, Raise)
    <3>1. PICK c \in Retyped(p) \cup Enums(p) : g = <<AlterType(c[2])>>
      BY <2>1, <2>4 DEF Step
    <3>2. IsUp(AlterType(c[2]), p, policy)
      BY DEF IsUp
    <3>. QED
      BY <1>1, <3>1, <3>2
  <2>5. CASE \E c \in Redefaulted(p) : s = Step(<<SetDefault(c[2])>>, SetDefault(c[1]))
    <3>1. PICK c \in Redefaulted(p) : g = <<SetDefault(c[2])>>
      BY <2>1, <2>5 DEF Step
    <3>2. IsUp(SetDefault(c[2]), p, policy)
      BY DEF IsUp
    <3>. QED
      BY <1>1, <3>1, <3>2
  <2>6. CASE \E c \in Referring(p) : s = Step(<<AddReference(c[2])>>, DropReference(c[2]))
    <3>1. PICK c \in Referring(p) : g = <<AddReference(c[2])>>
      BY <2>1, <2>6 DEF Step
    <3>2. IsUp(AddReference(c[2]), p, policy)
      BY DEF IsUp, QuietUp, AddReference, Referring, Pairs, Names
    <3>. QED
      BY <1>1, <3>1, <3>2
  <2>7. CASE \E x \in UniquesAdded(p) : s = Step(<<AddUnique(x)>>, DropUnique(x))
    <3>1. PICK x \in UniquesAdded(p) : g = <<AddUnique(x)>>
      BY <2>1, <2>7 DEF Step
    <3>2. x \in Uniques(p.new)
      BY DEF UniquesAdded, MadeUnique, Pairs, Uniques, CreateTable
    <3>3. IsUp(AddUnique(x), p, policy)
      BY <3>2 DEF IsUp, QuietUp, AddUnique
    <3>. QED
      BY <1>1, <3>1, <3>3
  <2>8. CASE \E x \in IndexesAdded(p) : s = Step(<<CreateIndex(x)>>, DropIndex(x))
    <3>1. PICK x \in IndexesAdded(p) : g = <<CreateIndex(x)>>
      BY <2>1, <2>8 DEF Step
    <3>2. IsUp(CreateIndex(x), p, policy)
      BY DEF IsUp, QuietUp, CreateIndex, IndexesMade
    <3>. QED
      BY <1>1, <3>1, <3>2
  <2>. QED
    BY <2>2, <2>3, <2>4, <2>5, <2>6, <2>7, <2>8 DEF StepSet
<1>. QED
  BY <1>2, <1>3 DEF UpSet

UpRunOf(p, policy, run, last, m, h, o) ==
    /\ IsGroup(h, run, o, m) /\ h[m] = last
    /\ \A k \in 1 .. m : IsUp(o[k], p, policy)
    /\ \A g \in UpSet(p, policy) : \E b \in 0 .. m :
          b + Len(g) <= m /\ \A j \in 1 .. Len(g) : o[b + j] = g[j]

LEMMA UpRun ==
    ASSUME NEW p, Sound(p.old), Sound(p.new), p.old # Absent, NEW policy, IsFiniteSet(policy.assertions),
           NEW t, NEW rs
    PROVE  \E m \in Nat : \E h, o :
              UpRunOf(p, policy, Begun(t, rs), Transaction(t, rs, UpgradeOf(Steps(p, policy), policy)), m, h, o)
<1> DEFINE groups == UpgradeOf(Steps(p, policy), policy)
           last == Transaction(t, rs, groups)
           S == UpSet(p, policy)
<1>1. Listed(groups, S)
  BY UpListed
<1>2. \A g \in S : Len(g) \in Nat /\ \A j \in 1 .. Len(g) : IsUp(g[j], p, policy)
  BY GroupsUp
<1> HIDE DEF groups, S
<1>3. Len(groups) \in Nat /\ \A i \in 1 .. Len(groups) : groups[i] \in S
  BY <1>1 DEF Listed
<1>4. PICK m, h, o : m \in Nat /\ FlatOf(groups, Len(groups), Begun(t, rs), last, m, h, o)
  BY <1>2, <1>3, Flat
<1>5. \A k \in 1 .. m : IsUp(o[k], p, policy)
  BY <1>2, <1>3, <1>4 DEF FlatOf
<1>6. \A g \in S : \E b \in 0 .. m : b + Len(g) <= m /\ \A j \in 1 .. Len(g) : o[b + j] = g[j]
  <2> SUFFICES ASSUME NEW g \in S
               PROVE  \E b \in 0 .. m : b + Len(g) <= m /\ \A j \in 1 .. Len(g) : o[b + j] = g[j]
    OBVIOUS
  <2>1. PICK i \in 1 .. Len(groups) : groups[i] = g
    BY <1>1 DEF Listed
  <2>. QED
    BY <1>4, <2>1 DEF FlatOf
<1>7. IsGroup(h, Begun(t, rs), o, m) /\ h[m] = last
  BY <1>4 DEF FlatOf
<1>8. UpRunOf(p, policy, Begun(t, rs), last, m, h, o)
  BY <1>5, <1>6, <1>7 DEF UpRunOf, S
<1>9. last = Transaction(t, rs, UpgradeOf(Steps(p, policy), policy)) /\ m \in Nat
  BY <1>4 DEF groups
<1> HIDE DEF last
<1>. QED
  BY <1>8, <1>9

-----------------------------------------------------------------------------
(* What a migration makes of the columns                                   *)
IsColumn(c) == c = [name |-> c.name, type |-> c.type, nullable |-> c.nullable, default |-> c.default]

LEMMA NullableSet ==
    \A c, v : c = [name |-> c.name, type |-> c.type, nullable |-> c.nullable, default |-> c.default]
                => [c EXCEPT !.nullable = v] = [name |-> c.name, type |-> c.type, nullable |-> v, default |-> c.default]
OBVIOUS

\* a column on its way to the new field: what differs, an operation will change
Between(p, g, c) ==
    /\ c.nullable = g.nullable \/ (g \in Added(p) /\ Required(g))
    /\ IF g.encrypted THEN c.type.kind \in {"str", "text"}
       ELSE c.type = g.type \/ \E f : <<f, g>> \in Retyped(p) \cup Enums(p)
    /\ c.default = g.default \/ \E f : <<f, g>> \in Redefaulted(p)

ColumnsBetween(p, columns) ==
    /\ \A c \in columns : IsColumn(c) /\ c.name \in Names(p.new)
    /\ \A c, e \in columns : c.name = e.name => c = e
    /\ Names(p.old) \subseteq {c.name : c \in columns}
    /\ \A g \in p.new.fields : \A c \in columns : c.name = g.name => Between(p, g, c)
TableBetween(p, t) ==
    /\ IsTable(t) /\ t.exists = TRUE
    /\ ColumnsBetween(p, t.columns)
    /\ t.uniques \subseteq Uniques(p.new)
    /\ t.fks \subseteq Names(p.new)
    /\ \A x \in t.indexes : x.columns \subseteq ColumnNames(t)

\* the column that is added for a field: a required one is nullable at first
LEMMA AddingIs ==
    ASSUME NEW f, NEW e, e = Adding(f).column
    PROVE  /\ IsColumn(e) /\ e.name = f.name /\ e.type = Column(f).type /\ e.default = f.default
           /\ ~Required(f) => e.nullable = f.nullable
<1>0. e = IF Required(f) THEN [Column(f) EXCEPT !.nullable = TRUE] ELSE Column(f)
  BY DEF Adding
<1> DEFINE ty == Column(f).type
<1>1. Column(f) = [name |-> f.name, type |-> ty, nullable |-> f.nullable, default |-> f.default]
  BY DEF Column
<1>3. Column(f).type = ty
  OBVIOUS
<1> HIDE DEF ty
<1>2. CASE Required(f)
  <2>1. e = [Column(f) EXCEPT !.nullable = TRUE]
    BY <1>0, <1>2
  <2>2. e = [name |-> f.name, type |-> ty, nullable |-> TRUE, default |-> f.default]
    <3> DEFINE c == Column(f)
    <3>1. /\ c = [name |-> c.name, type |-> c.type, nullable |-> c.nullable, default |-> c.default]
          /\ c.name = f.name /\ c.type = ty /\ c.default = f.default
      BY <1>1
    <3>2. e = [c EXCEPT !.nullable = TRUE]
      BY <2>1
    <3> HIDE DEF c
    <3>3. [c EXCEPT !.nullable = TRUE] = [name |-> c.name, type |-> c.type, nullable |-> TRUE, default |-> c.default]
      BY <3>1, NullableSet, Zenon
    <3>. QED
      BY <3>1, <3>2, <3>3, Zenon
  <2>. QED
    BY <1>2, <1>3, <2>2 DEF IsColumn
<1>4. CASE ~Required(f)
  <2>1. e = [name |-> f.name, type |-> ty, nullable |-> f.nullable, default |-> f.default]
    BY <1>0, <1>1, <1>4
  <2>. QED
    BY <1>3, <2>1 DEF IsColumn
<1>. QED
  BY <1>2, <1>4

LEMMA AddedBetween ==
    ASSUME NEW p, Sound(p.old), Sound(p.new), NEW columns, ColumnsBetween(p, columns),
           NEW f \in Added(p), NEW o, o = Adding(f), o.column.name \notin {c.name : c \in columns}
    PROVE  ColumnsBetween(p, columns \cup {o.column})
<1> DEFINE e == o.column
<1>2. /\ IsColumn(e) /\ e.name = f.name /\ e.type = Column(f).type /\ e.default = f.default
      /\ ~Required(f) => e.nullable = f.nullable
  BY AddingIs
<1>3. f \in p.new.fields /\ f \in FieldRecords
  BY DEF Added, Sound
<1>4. IF f.encrypted THEN Column(f).type.kind \in {"str", "text"} ELSE Column(f).type = f.type
  <2>1. f.type \in Types
    BY <1>3 DEF FieldRecords
  <2>2. [f.type EXCEPT !.kind = "text"].kind = "text"
    BY <2>1 DEF Types
  <2>. QED
    BY <2>2 DEF Column
<1> HIDE DEF e
<1>5. ASSUME NEW g \in p.new.fields, g.name = e.name PROVE Between(p, g, e)
  <2>1. g = f
    BY <1>2, <1>3, <1>5 DEF Sound, NamedOnce
  <2>. QED
    BY <1>2, <1>4, <2>1 DEF Between
<1>6. e.name \in Names(p.new)
  BY <1>2, <1>3 DEF Names
<1>. QED
  BY <1>2, <1>5, <1>6 DEF ColumnsBetween, e

\* one column becomes what its field wants
LEMMA AlteredBetween ==
    ASSUME NEW p, Sound(p.old), Sound(p.new), NEW columns, ColumnsBetween(p, columns),
           NEW g \in p.new.fields, NEW altered,
           \A c \in columns : c.name # g.name => altered[c] = c,
           \A c \in columns : c.name = g.name /\ Between(p, g, c) =>
                IsColumn(altered[c]) /\ altered[c].name = g.name /\ Between(p, g, altered[c]),
           NEW after, after = {altered[c] : c \in columns}
    PROVE  ColumnsBetween(p, after)
<1>1. ASSUME NEW c \in columns
      PROVE  /\ IsColumn(altered[c]) /\ altered[c].name = c.name
             /\ \A k \in p.new.fields : k.name = c.name => Between(p, k, altered[c])
  <2>1. CASE c.name = g.name
    <3>1. \A k \in p.new.fields : k.name = c.name => k = g
      BY <2>1 DEF Sound, NamedOnce
    <3>2. Between(p, g, c)
      BY <2>1 DEF ColumnsBetween
    <3>. QED
      BY <2>1, <3>1, <3>2
  <2>2. CASE c.name # g.name
    BY <2>2 DEF ColumnsBetween
  <2>. QED
    BY <2>1, <2>2
<1>2. \A c, e \in columns : altered[c].name = altered[e].name => altered[c] = altered[e]
  BY <1>1 DEF ColumnsBetween
<1>3. \A c \in columns : altered[c].name \in Names(p.new)
  BY <1>1 DEF ColumnsBetween
<1>4. {c.name : c \in after} = {c.name : c \in columns}
  BY <1>1
<1>5. Names(p.old) \subseteq {c.name : c \in after}
  BY <1>4 DEF ColumnsBetween
<1>. QED
  BY <1>1, <1>2, <1>3, <1>5 DEF ColumnsBetween

\* Every operation of a migration leaves every column between the two definitions.
LEMMA UpKeepsTable ==
    ASSUME NEW p, Sound(p.old), Sound(p.new), NEW policy, NEW run, NEW o,
           Perform(run, o).ok, IsUp(o, p, policy), TableBetween(p, run.table)
    PROVE  TableBetween(p, Perform(run, o).table)
<1> DEFINE t == run.table
           u == Perform(run, o).table
<1>0. IsTable(t) /\ t.exists = TRUE /\ ColumnsBetween(p, t.columns)
  BY DEF TableBetween
<1>1. CASE QuietUp(o, p)
  <2>1. o.op \in {"assert", "add_index", "drop_index", "add_unique", "add_fk"}
    BY <1>1 DEF QuietUp
  <2>2. QuietEffect(t, u, o)
    <3>1. o.op \in Quiet /\ t = run.table /\ u = Perform(run, o).table
      BY <2>1 DEF Quiet
    <3> HIDE DEF t, u
    <3>. QED
      BY <1>0, <3>1, QuietOp
  <2>3. o.op = "add_index" => o.index.columns \subseteq ColumnNames(t)
    BY PerformIs DEF Applicable
  <2> HIDE DEF u, t
  <2>4. u.uniques \subseteq Uniques(p.new)
    BY <1>1, <2>1, <2>2 DEF QuietUp, TableBetween, QuietEffect, t
  <2>5. u.fks \subseteq Names(p.new)
    BY <1>1, <2>1, <2>2 DEF QuietUp, TableBetween, QuietEffect, t
  <2>6. ColumnNames(u) = ColumnNames(t)
    BY <2>2 DEF ColumnNames, QuietEffect
  <2>7. \A x \in u.indexes : x.columns \subseteq ColumnNames(u)
    BY <2>1, <2>2, <2>3, <2>6 DEF TableBetween, QuietEffect, t
  <2>. QED
    BY <1>0, <2>2, <2>4, <2>5, <2>7 DEF TableBetween, QuietEffect, u
<1>2. ASSUME SameBut(u, t), ColumnsBetween(p, u.columns), ColumnNames(t) \subseteq ColumnNames(u) PROVE TableBetween(p, u)
  BY <1>2 DEF TableBetween, SameBut
<1>3. CASE \E f \in Added(p) : o = Adding(f)
  <2>1. PICK f \in Added(p) : o = Adding(f)
    BY <1>3
  <2>2. SameBut(u, t) /\ o.column.name \notin ColumnNames(t) /\ u.columns = t.columns \cup {o.column}
    BY <1>0, <2>1, AddColumnOp DEF Adding
  <2>3. ColumnsBetween(p, u.columns)
    BY <1>0, <2>1, <2>2, AddedBetween DEF ColumnNames
  <2>. QED
    BY <1>2, <2>2, <2>3 DEF ColumnNames
<1>4. CASE \E f \in Added(p) : Required(f) /\ o = Filling(f, policy)
  BY <1>0, <1>4, FillOp DEF Filling
<1>5. CASE \E f \in Added(p) : Required(f) /\ o = Requiring(f)
  <2>1. PICK f \in Added(p) : Required(f) /\ o = Requiring(f)
    BY <1>5
  <2> DEFINE altered == [c \in t.columns |-> IF c.name = o.name THEN [c EXCEPT !.nullable = FALSE] ELSE c]
  <2>2. SameBut(u, t) /\ u.columns = {IF c.name = o.name THEN [c EXCEPT !.nullable = FALSE] ELSE c : c \in t.columns}
    BY <1>0, <2>1, RequireOp DEF Requiring
  <2>3. u.columns = {altered[c] : c \in t.columns}
    BY <2>2
  <2>4. o.name = f.name /\ f \in p.new.fields
    BY <2>1 DEF Requiring, Added
  <2>5. ASSUME NEW c \in t.columns, c.name = f.name, Between(p, f, c)
        PROVE  IsColumn(altered[c]) /\ altered[c].name = f.name /\ Between(p, f, altered[c])
    <3>1. altered[c] = [c EXCEPT !.nullable = FALSE] /\ IsColumn(c)
      BY <1>0, <2>4, <2>5 DEF ColumnsBetween
    <3> DEFINE k == [name |-> c.name, type |-> c.type, nullable |-> FALSE, default |-> c.default]
    <3>2. altered[c] = k
      BY <3>1 DEF IsColumn
    <3>4. IsColumn(k) /\ k.name = c.name /\ k.type = c.type /\ k.nullable = FALSE /\ k.default = c.default
      BY DEF IsColumn
    <3> HIDE DEF altered, k
    <3>. QED
      BY <2>1, <2>5, <3>2, <3>4 DEF Between
  <2>6. \A c \in t.columns : c.name # f.name => altered[c] = c
    BY <2>4
  <2> HIDE DEF altered, u, t
  <2>7. ColumnsBetween(p, u.columns)
    BY <1>0, <2>3, <2>4, <2>5, <2>6, AlteredBetween
  <2>8. ColumnNames(t) \subseteq ColumnNames(u)
    <3>1. ASSUME NEW c \in t.columns PROVE altered[c].name = c.name /\ altered[c] \in u.columns
      <4>1. CASE c.name = f.name
        BY <1>0, <2>3, <2>4, <2>5, <4>1 DEF ColumnsBetween
      <4>2. CASE c.name # f.name
        BY <2>3, <2>6, <4>2
      <4>. QED
        BY <4>1, <4>2
    <3>. QED
      BY <3>1 DEF ColumnNames
  <2>. QED
    BY <1>2, <2>2, <2>7, <2>8 DEF u
<1>6. CASE \E c \in Retyped(p) \cup Enums(p) : o = AlterType(c[2])
  <2>1. PICK pr \in Retyped(p) \cup Enums(p) : o = AlterType(pr[2])
    BY <1>6
  <2> DEFINE g == pr[2]
             altered == [c \in t.columns |-> IF c.name = o.name THEN [c EXCEPT !.type = o.type] ELSE c]
  <2>2. SameBut(u, t) /\ u.columns = Typed(t.columns, o.name, o.type)
    <3>1. o.op = "alter_type"
      BY <2>1 DEF AlterType
    <3>. QED
      BY <1>0, <3>1, AlterOp
  <2>3. u.columns = {altered[c] : c \in t.columns}
    BY <2>2 DEF Typed
  <2>4. o.name = g.name /\ o.type = g.type /\ g \in p.new.fields
    BY <2>1 DEF AlterType, Retyped, Enums, Pairs
  <2>5. ASSUME NEW c \in t.columns, c.name = g.name, Between(p, g, c)
        PROVE  IsColumn(altered[c]) /\ altered[c].name = g.name /\ Between(p, g, altered[c])
    <3>1. altered[c] = [c EXCEPT !.type = g.type] /\ IsColumn(c)
      BY <1>0, <2>4, <2>5 DEF ColumnsBetween
    <3> DEFINE k == [name |-> c.name, type |-> g.type, nullable |-> c.nullable, default |-> c.default]
    <3>2. altered[c] = k
      BY <3>1 DEF IsColumn
    <3>4. IsColumn(k) /\ k.name = c.name /\ k.type = g.type /\ k.nullable = c.nullable /\ k.default = c.default
      BY DEF IsColumn
    <3>3. g.encrypted => g.type.kind \in {"str", "text"}
      BY <2>4 DEF Sound
    <3> HIDE DEF altered, g, k
    <3>. QED
      BY <2>5, <3>2, <3>3, <3>4 DEF Between
  <2>6. \A c \in t.columns : c.name # g.name => altered[c] = c
    BY <2>4
  <2> HIDE DEF altered, u, t, g
  <2>7. ColumnsBetween(p, u.columns)
    BY <1>0, <2>3, <2>4, <2>5, <2>6, AlteredBetween
  <2>8. ColumnNames(t) \subseteq ColumnNames(u)
    <3>1. ASSUME NEW c \in t.columns PROVE altered[c].name = c.name /\ altered[c] \in u.columns
      <4>1. CASE c.name = g.name
        BY <1>0, <2>3, <2>4, <2>5, <4>1 DEF ColumnsBetween
      <4>2. CASE c.name # g.name
        BY <2>3, <2>6, <4>2
      <4>. QED
        BY <4>1, <4>2
    <3>. QED
      BY <3>1 DEF ColumnNames
  <2>. QED
    BY <1>2, <2>2, <2>7, <2>8 DEF u
<1>7. CASE \E c \in Redefaulted(p) : o = SetDefault(c[2])
  <2>1. PICK pr \in Redefaulted(p) : o = SetDefault(pr[2])
    BY <1>7
  <2> DEFINE g == pr[2]
             altered == [c \in t.columns |-> IF c.name = o.name THEN [c EXCEPT !.default = o.default] ELSE c]
  <2>2. SameBut(u, t) /\ u.columns = {IF c.name = o.name THEN [c EXCEPT !.default = o.default] ELSE c : c \in t.columns}
    BY <1>0, <2>1, DefaultOp DEF SetDefault
  <2>3. u.columns = {altered[c] : c \in t.columns}
    BY <2>2
  <2>4. o.name = g.name /\ o.default = g.default /\ g \in p.new.fields
    BY <2>1 DEF SetDefault, Redefaulted, Pairs
  <2>5. ASSUME NEW c \in t.columns, c.name = g.name, Between(p, g, c)
        PROVE  IsColumn(altered[c]) /\ altered[c].name = g.name /\ Between(p, g, altered[c])
    <3>1. altered[c] = [c EXCEPT !.default = g.default] /\ IsColumn(c)
      BY <1>0, <2>4, <2>5 DEF ColumnsBetween
    <3> DEFINE k == [name |-> c.name, type |-> c.type, nullable |-> c.nullable, default |-> g.default]
    <3>2. altered[c] = k
      BY <3>1 DEF IsColumn
    <3>4. IsColumn(k) /\ k.name = c.name /\ k.type = c.type /\ k.nullable = c.nullable /\ k.default = g.default
      BY DEF IsColumn
    <3> HIDE DEF altered, g, k
    <3>. QED
      BY <2>5, <3>2, <3>4 DEF Between
  <2>6. \A c \in t.columns : c.name # g.name => altered[c] = c
    BY <2>4
  <2> HIDE DEF altered, u, t, g
  <2>7. ColumnsBetween(p, u.columns)
    BY <1>0, <2>3, <2>4, <2>5, <2>6, AlteredBetween
  <2>8. ColumnNames(t) \subseteq ColumnNames(u)
    <3>1. ASSUME NEW c \in t.columns PROVE altered[c].name = c.name /\ altered[c] \in u.columns
      <4>1. CASE c.name = g.name
        BY <1>0, <2>3, <2>4, <2>5, <4>1 DEF ColumnsBetween
      <4>2. CASE c.name # g.name
        BY <2>3, <2>6, <4>2
      <4>. QED
        BY <4>1, <4>2
    <3>. QED
      BY <3>1 DEF ColumnNames
  <2>. QED
    BY <1>2, <2>2, <2>7, <2>8 DEF u
<1>. QED
  BY <1>1, <1>3, <1>4, <1>5, <1>6, <1>7 DEF IsUp

-----------------------------------------------------------------------------
(* What a migration makes of the rows                                      *)
RowSound(t, row) ==
    /\ IsFunction(row) /\ DOMAIN row = ColumnNames(t)
    /\ \A c \in t.columns : row[c.name] \in Cells /\ Place(c.type, row[c.name]) = row[c.name]
RowsSound(t, rs) ==
    /\ IsFunction(rs) /\ \E k \in Nat : DOMAIN rs = 1 .. k
    /\ \A i \in DOMAIN rs : RowSound(t, rs[i])
Kept(names, before, rs) ==
    /\ DOMAIN rs = DOMAIN before
    /\ \A i \in DOMAIN before : \A n \in names : rs[i][n] = before[i][n]

\* what was stored has the scale of its field
Scaled(d, rs) == \A i \in DOMAIN rs : \A f \in d.fields : Place(f.type, rs[i][f.name]) = rs[i][f.name]
\* what the policy says of the difference
Reviews(p, policy) ==
    /\ \A c \in Retyped(p) : Classify(c[1].type, c[2].type) = "SAFE_WIDENING"
    /\ \A b \in policy.backfills : b.value \in Cells /\ ValidTransform(b)
    /\ \A f \in Added(p) : Required(f) => \E b \in policy.backfills : b.target = f.name

\* rows that are changed one by one
LEMMA RowByRow ==
    ASSUME NEW t, NEW u, NEW names, NEW before, NEW rs, NEW after, RowsSound(t, rs), Kept(names, before, rs),
           IsFunction(after), DOMAIN after = DOMAIN rs,
           \A i \in DOMAIN rs : RowSound(t, rs[i]) =>
                RowSound(u, after[i]) /\ \A n \in names : after[i][n] = rs[i][n]
    PROVE  RowsSound(u, after) /\ Kept(names, before, after)
BY DEF RowsSound, Kept

LEMMA SetCell ==
    ASSUME NEW t, NEW row, RowSound(t, row), NEW name, NEW v \in Cells,
           \A c \in t.columns : c.name = name => Place(c.type, v) = v
    PROVE  /\ RowSound(t, [row EXCEPT ![name] = v])
           /\ \A n : n # name => [row EXCEPT ![name] = v][n] = row[n]
<1> DEFINE after == [row EXCEPT ![name] = v]
<1>1. /\ IsFunction(after) /\ DOMAIN after = DOMAIN row
      /\ \A n \in DOMAIN row : after[n] = IF n = name THEN v ELSE row[n]
  BY DEF IsFunction
<1>2. \A n : n # name => after[n] = row[n]
  OBVIOUS
<1> HIDE DEF after
<1>3. \A c \in t.columns : c.name \in DOMAIN row
  BY DEF RowSound, ColumnNames
<1>4. \A c \in t.columns : after[c.name] \in Cells /\ Place(c.type, after[c.name]) = after[c.name]
  BY <1>1, <1>3 DEF RowSound
<1>. QED
  BY <1>1, <1>2, <1>4 DEF RowSound, after

LEMMA SameRow ==
    ASSUME NEW t, NEW u, NEW row, RowSound(t, row),
           \A c \in u.columns : \E e \in t.columns : e.name = c.name /\ e.type = c.type,
           ColumnNames(u) = ColumnNames(t)
    PROVE  RowSound(u, row)
BY DEF RowSound

LEMMA ExtendedRow ==
    ASSUME NEW t, NEW row, RowSound(t, row), NEW e, e.name \notin ColumnNames(t),
           NEW v \in Cells, Place(e.type, v) = v, NEW u, u.columns = t.columns \cup {e}
    PROVE  /\ RowSound(u, Extended(row, e.name, v))
           /\ \A n \in ColumnNames(t) : Extended(row, e.name, v)[n] = row[n]
<1> DEFINE after == Extended(row, e.name, v)
<1>1. /\ IsFunction(after) /\ DOMAIN after = DOMAIN row \cup {e.name}
      /\ \A n \in DOMAIN row \cup {e.name} : after[n] = IF n = e.name THEN v ELSE row[n]
  BY DEF Extended, IsFunction
<1> HIDE DEF after
<1>2. DOMAIN after = ColumnNames(u)
  BY <1>1 DEF RowSound, ColumnNames
<1>3. \A c \in t.columns : c.name \in DOMAIN row /\ c.name # e.name
  BY DEF RowSound, ColumnNames
<1>4. \A c \in t.columns : after[c.name] = row[c.name]
  BY <1>1, <1>3
<1>5. \A c \in u.columns : after[c.name] \in Cells /\ Place(c.type, after[c.name]) = after[c.name]
  BY <1>1, <1>4 DEF RowSound
<1>6. \A n \in ColumnNames(t) : after[n] = row[n]
  BY <1>1 DEF RowSound
<1>. QED
  BY <1>1, <1>2, <1>5, <1>6 DEF RowSound, after

LEMMA StartPlaced ==
    ASSUME NEW f, f \in FieldRecords, NEW c, c.default = f.default
    PROVE  Start(c) \in Cells /\ Place(c.type, Start(c)) = Start(c)
<1>1. CASE c.default \in {NoDefault, NullDefault}
  BY <1>1, NullIsCell DEF Start, Place
<1>2. CASE c.default \notin {NoDefault, NullDefault}
  <2>1. Start(c) = Place(c.type, Plain(c.default))
    BY <1>2 DEF Start
  <2>2. Plain(c.default) \in Cells
    BY NullIsCell DEF FieldRecords
  <2>. QED
    BY <2>1, <2>2, PlaceTwice
<1>. QED
  BY <1>1, <1>2

\* what a backfill takes its value from
Source(row, by) ==
    CASE by.kind = "literal" -> by.value
      [] by.kind = "trim"    -> [row[by.source] EXCEPT !.room = IF @ \in DOMAIN Trimmed THEN Trimmed[@] ELSE @]
      [] OTHER               -> row[by.source]

LEMMA NatIsInt == \A n \in Nat : n \in Int
OBVIOUS

LEMMA SourceIsCell ==
    ASSUME NEW t, NEW row, RowSound(t, row), NEW b, b.value \in Cells, ValidTransform(b),
           b.source \in {""} \cup ColumnNames(t)
    PROVE  Source(row, b) \in Cells
<1>1. \A n \in ColumnNames(t) : row[n] \in Cells
  BY DEF RowSound, ColumnNames
<1>2. CASE b.kind = "literal"
  BY <1>2 DEF Source
<1>3. CASE b.kind # "literal"
  <2>1. row[b.source] \in Cells
    BY <1>1, <1>3 DEF ValidTransform
  <2> DEFINE v == row[b.source]
             x == IF v.room \in DOMAIN Trimmed THEN Trimmed[v.room] ELSE v.room
  <2>2. x \in Int
    <3>1. Trimmed \in [DOMAIN Trimmed -> Nat]
      BY EvolutionAssumption
    <3>2. v.room \in Int
      BY <2>1 DEF Cells
    <3> HIDE DEF v
    <3>3. CASE v.room \in DOMAIN Trimmed
      <4>1. \A n \in DOMAIN Trimmed : Trimmed[n] \in Nat
        BY <3>1
      <4>2. Trimmed[v.room] \in Nat
        BY <3>3, <4>1
      <4>3. x = Trimmed[v.room]
        BY <3>3
      <4> HIDE DEF x
      <4>. QED
        BY <4>2, <4>3, NatIsInt, Zenon
    <3>4. CASE v.room \notin DOMAIN Trimmed
      BY <3>2, <3>4
    <3>. QED
      BY <3>3, <3>4
  <2>3. [v EXCEPT !.room = x] \in Cells
    <3> HIDE DEF x, v
    <3>. QED
      BY <2>1, <2>2 DEF Cells, v
  <2>. QED
    BY <1>3, <2>1, <2>3 DEF Source
<1>. QED
  BY <1>2, <1>3

LEMMA UpKeepsRows ==
    ASSUME NEW p, Sound(p.old), Sound(p.new), NEW policy, Reviews(p, policy), NEW run, NEW o,
           Perform(run, o).ok, IsUp(o, p, policy), TableBetween(p, run.table),
           NEW before, Scaled(p.old, before),
           RowsSound(run.table, run.rows), Kept(Names(p.old), before, run.rows)
    PROVE  /\ RowsSound(Perform(run, o).table, Perform(run, o).rows)
           /\ Kept(Names(p.old), before, Perform(run, o).rows)
<1> DEFINE t == run.table
           u == Perform(run, o).table
           rs == run.rows
           after == Perform(run, o).rows
           names == Names(p.old)
<1>0. IsTable(t) /\ \A c \in t.columns : IsColumn(c)
  BY DEF TableBetween, ColumnsBetween
<1>n. names \subseteq ColumnNames(t)
  BY DEF TableBetween, ColumnsBetween, ColumnNames
<1>s. RowsSound(t, rs) /\ Kept(names, before, rs) /\ IsFunction(rs)
  BY DEF RowsSound
<1>t. ASSUME after = rs, ColumnNames(u) = ColumnNames(t),
             \A c \in u.columns : \E e \in t.columns : e.name = c.name /\ e.type = c.type
      PROVE  RowsSound(u, after) /\ Kept(names, before, after)
  <2>1. \A row : RowSound(t, row) => RowSound(u, row)
    BY <1>t, SameRow
  <2>. QED
    BY <1>s, <1>t, <2>1 DEF RowsSound
<1>1. CASE QuietUp(o, p)
  <2>1. o.op \in Quiet
    BY <1>1 DEF QuietUp, Quiet
  <2>2. QuietEffect(t, u, o) /\ after = rs
    BY <1>0, <2>1, QuietOp
  <2>3. u.columns = t.columns
    BY <2>2 DEF QuietEffect
  <2>. QED
    BY <1>t, <2>2, <2>3 DEF ColumnNames
<1>2. CASE \E f \in Added(p) : o = Adding(f)
  <2>1. PICK f \in Added(p) : o = Adding(f)
    BY <1>2
  <2> DEFINE e == o.column
  <2>2. /\ e.name \notin ColumnNames(t) /\ u.columns = t.columns \cup {e}
        /\ after = [i \in DOMAIN rs |-> Extended(rs[i], e.name, Start(e))]
    <3>1. o.op = "add_column"
      BY <2>1 DEF Adding
    <3> HIDE DEF t, u, rs, after, e
    <3>. QED
      BY <1>0, <3>1, AddColumnOp DEF t, u, rs, after, e
  <2>3. e.default = f.default
    BY <2>1 DEF Adding, Column
  <2>4. f \in FieldRecords
    BY DEF Added, Sound
  <2>5. Start(e) \in Cells /\ Place(e.type, Start(e)) = Start(e)
    BY <2>3, <2>4, StartPlaced
  <2>6. IsFunction(after) /\ DOMAIN after = DOMAIN rs /\ \A i \in DOMAIN rs : after[i] = Extended(rs[i], e.name, Start(e))
    BY <2>2 DEF IsFunction
  <2> HIDE DEF e, t, u, rs, after, names
  <2>7. ASSUME NEW i \in DOMAIN rs, RowSound(t, rs[i])
        PROVE  RowSound(u, after[i]) /\ \A n \in names : after[i][n] = rs[i][n]
    BY <1>n, <2>2, <2>5, <2>6, <2>7, ExtendedRow
  <2>8. RowsSound(u, after) /\ Kept(names, before, after)
    <3>1. /\ IsFunction(after) /\ DOMAIN after = DOMAIN rs
          /\ \A i \in DOMAIN rs : RowSound(t, rs[i]) =>
                RowSound(u, after[i]) /\ \A n \in names : after[i][n] = rs[i][n]
      BY <2>6, <2>7
    <3>2. RowsSound(t, rs) /\ Kept(names, before, rs)
      BY <1>s
    <3>3. RowsSound(u, after)
      BY <3>1, <3>2, RowByRow
    <3>4. Kept(names, before, after)
      BY <3>1, <3>2, RowByRow
    <3>. QED
      BY <3>3, <3>4
  <2>. QED
    BY <2>8 DEF u, after, names
<1>3. CASE \E f \in Added(p) : Required(f) /\ o = Filling(f, policy)
  <2>1. PICK f \in Added(p) : Required(f) /\ o = Filling(f, policy)
    BY <1>3
  <2> DEFINE b == BackfillOf(policy, f.name)
             v(i) == Place(TypeOf(t, f.name), Source(rs[i], b))
  <2>2. o.op = "fill" /\ o.name = f.name /\ o.by = b
    BY <2>1 DEF Filling
  <2>3. u = t /\ after = Fill(t, rs, o).rows /\ b.source \in {""} \cup ColumnNames(t)
    BY <1>0, <2>2, FillOp
  <2>4. b \in policy.backfills
    <3>1. \E x \in policy.backfills : x.target = f.name
      BY <2>1 DEF Reviews
    <3>. QED
      BY <3>1 DEF BackfillOf
  <2>5. b.value \in Cells /\ ValidTransform(b)
    BY <2>4 DEF Reviews
  <2>6. Fill(t, rs, o).rows = [i \in DOMAIN rs |-> [rs[i] EXCEPT ![f.name] = v(i)]]
    BY <2>2 DEF Fill, Source
  <2>7. f.name \notin names
    BY DEF Added
  <2>8. \A c \in t.columns : c.name = f.name => TypeOf(t, f.name) = c.type
    BY DEF TypeOf, TableBetween, ColumnsBetween
  <2>9. IsFunction(after) /\ DOMAIN after = DOMAIN rs /\ \A i \in DOMAIN rs : after[i] = [rs[i] EXCEPT ![f.name] = v(i)]
    BY <2>3, <2>6 DEF IsFunction
  <2>10. ASSUME NEW i \in DOMAIN rs, RowSound(t, rs[i])
         PROVE  RowSound(t, after[i]) /\ \A n \in names : after[i][n] = rs[i][n]
    <3>1. Source(rs[i], b) \in Cells
      BY <2>3, <2>5, <2>10, SourceIsCell
    <3>2. v(i) \in Cells /\ Place(TypeOf(t, f.name), v(i)) = v(i)
      BY <3>1, PlaceTwice
    <3>3. \A c \in t.columns : c.name = f.name => Place(c.type, v(i)) = v(i)
      BY <2>8, <3>2
    <3>4. after[i] = [rs[i] EXCEPT ![f.name] = v(i)]
      BY <2>9
    <3> DEFINE x == v(i)
    <3> HIDE DEF v, x
    <3>5. x \in Cells /\ (\A c \in t.columns : c.name = f.name => Place(c.type, x) = x)
          /\ after[i] = [rs[i] EXCEPT ![f.name] = x]
      BY <3>2, <3>3, <3>4 DEF x
    <3> HIDE DEF t, rs, after, names
    <3>6. /\ RowSound(t, [rs[i] EXCEPT ![f.name] = x])
          /\ \A n : n # f.name => [rs[i] EXCEPT ![f.name] = x][n] = rs[i][n]
      <4>1. RowSound(t, rs[i])
        BY <2>10
      <4>2. RowSound(t, [rs[i] EXCEPT ![f.name] = x])
        BY <3>5, <4>1, SetCell
      <4>3. \A n : n # f.name => [rs[i] EXCEPT ![f.name] = x][n] = rs[i][n]
        BY <3>5, <4>1, SetCell
      <4>. QED
        BY <4>2, <4>3
    <3>. QED
      BY <2>7, <3>5, <3>6
  <2> HIDE DEF v, b, t, u, rs, after, names
  <2>11. RowsSound(t, after) /\ Kept(names, before, after)
    BY <1>s, <2>9, <2>10, RowByRow
  <2>. QED
    BY <2>3, <2>11 DEF u, after, names
<1>4. CASE \E f \in Added(p) : Required(f) /\ o = Requiring(f)
  <2>1. o.op = "require"
    BY <1>4 DEF Requiring
  <2>2. after = rs /\ u.columns = {IF c.name = o.name THEN [c EXCEPT !.nullable = FALSE] ELSE c : c \in t.columns}
    BY <1>0, <2>1, RequireOp
  <2>3. \A c \in t.columns : [c EXCEPT !.nullable = FALSE].name = c.name /\ [c EXCEPT !.nullable = FALSE].type = c.type
    BY <1>0 DEF IsColumn
  <2> HIDE DEF t, u, after, rs
  <2>4. /\ \A c \in u.columns : \E e \in t.columns : e.name = c.name /\ e.type = c.type
        /\ \A e \in t.columns : \E c \in u.columns : e.name = c.name
    BY <2>2, <2>3
  <2>5. ColumnNames(u) = ColumnNames(t)
    BY <2>4 DEF ColumnNames
  <2>. QED
    BY <1>t, <2>2, <2>4, <2>5 DEF u, after
<1>5. CASE \E c \in Redefaulted(p) : o = SetDefault(c[2])
  <2>1. o.op = "set_default"
    BY <1>5 DEF SetDefault
  <2>2. after = rs /\ u.columns = {IF c.name = o.name THEN [c EXCEPT !.default = o.default] ELSE c : c \in t.columns}
    BY <1>0, <2>1, DefaultOp
  <2>3. \A c \in t.columns : [c EXCEPT !.default = o.default].name = c.name /\ [c EXCEPT !.default = o.default].type = c.type
    BY <1>0 DEF IsColumn
  <2> HIDE DEF t, u, after, rs
  <2>4. /\ \A c \in u.columns : \E e \in t.columns : e.name = c.name /\ e.type = c.type
        /\ \A e \in t.columns : \E c \in u.columns : e.name = c.name
    BY <2>2, <2>3
  <2>5. ColumnNames(u) = ColumnNames(t)
    BY <2>4 DEF ColumnNames
  <2>. QED
    BY <1>t, <2>2, <2>4, <2>5 DEF u, after
<1>6. CASE \E c \in Retyped(p) \cup Enums(p) : o = AlterType(c[2])
  <2>1. PICK pr \in Retyped(p) \cup Enums(p) : o = AlterType(pr[2])
    BY <1>6
  <2> DEFINE f == pr[1]
             g == pr[2]
  <2>2. f \in p.old.fields /\ g \in p.new.fields /\ f.name = g.name
    BY <2>1 DEF Retyped, Enums, Pairs
  <2>3. o.op = "alter_type" /\ o.name = g.name /\ o.type = g.type
    BY <2>1 DEF AlterType
  <2>4. /\ u.columns = Typed(t.columns, g.name, g.type)
        /\ after = [i \in DOMAIN rs |-> [rs[i] EXCEPT ![g.name] = Place(g.type, @)]]
    BY <1>0, <2>3, AlterOp
  <2>5. f.name \in names /\ f.name \in ColumnNames(t)
    BY <1>n, <2>2 DEF Names
  <2>6. Classify(f.type, g.type) = "SAFE_WIDENING" \/ (f.type.kind = "enum" /\ g.type.kind = "enum")
    BY <2>1 DEF Reviews, Enums, IsEnum
  <2>7. f.type.kind = "int" => f.type.scale = 0
    BY <2>2 DEF Sound
  <2>8. \A c \in t.columns : [c EXCEPT !.type = g.type].name = c.name /\ [c EXCEPT !.type = g.type].type = g.type
    BY <1>0 DEF IsColumn
  <2> HIDE DEF f, g, t, u, rs, after, names
  <2>9. /\ \A c \in u.columns : \E e \in t.columns : e.name = c.name /\ (c.name # g.name => c = e)
                                                     /\ (c.name = g.name => c.type = g.type)
        /\ \A e \in t.columns : \E c \in u.columns : e.name = c.name
    <3> DEFINE As(c) == IF c.name = g.name THEN [c EXCEPT !.type = g.type] ELSE c
    <3>1. u.columns = {As(c) : c \in t.columns}
      BY <2>4 DEF Typed
    <3>2. \A c \in t.columns : /\ As(c).name = c.name
                               /\ c.name # g.name => As(c) = c
                               /\ c.name = g.name => As(c).type = g.type
      BY <2>8
    <3> HIDE DEF As
    <3>. QED
      BY <3>1, <3>2
  <2>10. ColumnNames(u) = ColumnNames(t)
    BY <2>9 DEF ColumnNames
  <2>11. IsFunction(after) /\ DOMAIN after = DOMAIN rs
         /\ \A i \in DOMAIN rs : after[i] = [rs[i] EXCEPT ![g.name] = Place(g.type, @)]
    BY <2>4 DEF IsFunction
  <2>12. ASSUME NEW i \in DOMAIN rs, RowSound(t, rs[i])
         PROVE  RowSound(u, after[i]) /\ \A n \in names : after[i][n] = rs[i][n]
    <3>1. rs[i][g.name] = before[i][f.name] /\ i \in DOMAIN before
      BY <1>s, <2>2, <2>5, <2>12 DEF Kept
    <3>2. Place(f.type, rs[i][g.name]) = rs[i][g.name]
      BY <2>2, <3>1 DEF Scaled
    <3>3. Place(g.type, rs[i][g.name]) = rs[i][g.name]
      BY <2>6, <2>7, <3>2, WideningKeeps
    <3>4. IsFunction(rs[i])
      BY <2>12 DEF RowSound
    <3> DEFINE row == rs[i]
    <3>5. [row EXCEPT ![g.name] = Place(g.type, @)] = row
      <4> HIDE DEF row
      <4>1. Place(g.type, row[g.name]) = row[g.name] /\ row = [n \in DOMAIN row |-> row[n]]
        BY <3>3, <3>4 DEF row, IsFunction
      <4>. QED
        BY <4>1
    <3>6. after[i] = rs[i]
      BY <2>11, <3>5
    <3>7. \A c \in u.columns : rs[i][c.name] \in Cells /\ Place(c.type, rs[i][c.name]) = rs[i][c.name]
      BY <2>9, <2>12, <3>3 DEF RowSound
    <3>8. RowSound(u, rs[i])
      BY <2>10, <2>12, <3>7 DEF RowSound
    <3>. QED
      BY <3>6, <3>8
  <2>13. RowsSound(u, after) /\ Kept(names, before, after)
    <3>1. /\ IsFunction(after) /\ DOMAIN after = DOMAIN rs
          /\ \A i \in DOMAIN rs : RowSound(t, rs[i]) =>
                RowSound(u, after[i]) /\ \A n \in names : after[i][n] = rs[i][n]
      BY <2>11, <2>12
    <3>2. RowsSound(t, rs) /\ Kept(names, before, rs)
      BY <1>s
    <3>3. RowsSound(u, after)
      BY <3>1, <3>2, RowByRow
    <3>4. Kept(names, before, after)
      BY <3>1, <3>2, RowByRow
    <3>. QED
      BY <3>3, <3>4
  <2>. QED
    BY <2>13 DEF u, after, names
<1>. QED
  BY <1>1, <1>2, <1>3, <1>4, <1>5, <1>6 DEF IsUp

-----------------------------------------------------------------------------
(* A migration that is carried out to the end                              *)
UpWalk(p, policy, rs, m, h, o) ==
    /\ \A k \in 0 .. m : /\ TableBetween(p, h[k].table)
                         /\ RowsSound(h[k].table, h[k].rows) /\ Kept(Names(p.old), rs, h[k].rows)
    /\ \A k \in 1 .. m : h[k] = Perform(h[k - 1], o[k]) /\ h[k].ok /\ IsUp(o[k], p, policy)
    /\ \A g \in UpSet(p, policy) : \E b \in 0 .. m :
          b + Len(g) <= m /\ \A j \in 1 .. Len(g) : o[b + j] = g[j]

LEMMA UpWalked ==
    ASSUME NEW p, Sound(p.old), Sound(p.new), NEW policy, Reviews(p, policy),
           NEW t, NEW rs, TableBetween(p, t), RowsSound(t, rs), Scaled(p.old, rs),
           NEW m \in Nat, NEW h, NEW o, NEW last, last.ok, UpRunOf(p, policy, Begun(t, rs), last, m, h, o)
    PROVE  UpWalk(p, policy, rs, m, h, o)
<1> DEFINE S == {k \in 0 .. m : /\ TableBetween(p, h[k].table)
                                /\ RowsSound(h[k].table, h[k].rows) /\ Kept(Names(p.old), rs, h[k].rows)}
<1>1. IsGroup(h, Begun(t, rs), o, m) /\ h[m] = last /\ \A k \in 1 .. m : IsUp(o[k], p, policy)
  BY DEF UpRunOf
<1>2. \A k \in 0 .. m : h[k].ok
  BY <1>1, GroupOk
<1>3. 0 \in S
  <2>1. h[0] = Begun(t, rs) /\ 0 \in 0 .. m
    BY <1>1 DEF IsGroup
  <2>2. Begun(t, rs).table = t /\ Begun(t, rs).rows = rs
    BY DEF Begun
  <2>3. Kept(Names(p.old), rs, rs)
    BY DEF Kept
  <2>. QED
    BY <2>1, <2>2, <2>3
<1>4. \A k \in 1 .. m : h[k] = Perform(h[k - 1], o[k])
  BY <1>1 DEF IsGroup
<1>5. ASSUME NEW k \in 0 + 1 .. m, k - 1 \in S PROVE k \in S
  <2> DEFINE run == h[k - 1]
  <2>1. /\ TableBetween(p, run.table) /\ RowsSound(run.table, run.rows)
        /\ Kept(Names(p.old), rs, run.rows) /\ k \in 1 .. m /\ k \in 0 .. m
    BY <1>5
  <2>2. h[k] = Perform(run, o[k]) /\ Perform(run, o[k]).ok /\ IsUp(o[k], p, policy)
    BY <1>1, <1>2, <1>4, <2>1
  <2> HIDE DEF run
  <2>3. TableBetween(p, Perform(run, o[k]).table)
    BY <2>1, <2>2, UpKeepsTable
  <2>4. RowsSound(Perform(run, o[k]).table, Perform(run, o[k]).rows)
    BY <2>1, <2>2, UpKeepsRows
  <2>5. Kept(Names(p.old), rs, Perform(run, o[k]).rows)
    BY <2>1, <2>2, UpKeepsRows
  <2>. QED
    BY <2>1, <2>2, <2>3, <2>4, <2>5
<1>6. 0 .. m \subseteq S
  <2> HIDE DEF S
  <2>1. 0 \in 0 .. m
    OBVIOUS
  <2>. QED
    BY <1>3, <1>5, <2>1, Steady
<1>7. \A k \in 1 .. m : k \in 0 .. m
  OBVIOUS
<1>. QED
  BY <1>1, <1>2, <1>4, <1>6, <1>7 DEF UpWalk, UpRunOf

\* what one operation of a migration does to one column
UpColumn(p, t, o, c) ==
    \/ c.name \notin ColumnNames(t) /\ \E f \in Added(p) : o = Adding(f) /\ c = o.column
    \/ \E e \in t.columns :
          /\ e.name = c.name
          /\ c.nullable = e.nullable \/ c.nullable = FALSE
          /\ c.type = e.type \/ \E pr \in Retyped(p) \cup Enums(p) : pr[2].name = c.name /\ c.type = pr[2].type
          /\ c.default = e.default \/ \E pr \in Redefaulted(p) : pr[2].name = c.name /\ c.default = pr[2].default

LEMMA UpColumnIs ==
    ASSUME NEW p, NEW policy, NEW run, NEW o, Perform(run, o).ok, IsUp(o, p, policy), TableBetween(p, run.table)
    PROVE  /\ \A c \in Perform(run, o).table.columns : UpColumn(p, run.table, o, c)
           /\ ColumnNames(run.table) \subseteq ColumnNames(Perform(run, o).table)
           /\ run.table.uniques \subseteq Perform(run, o).table.uniques
<1> DEFINE t == run.table
           u == Perform(run, o).table
<1>0. IsTable(t) /\ \A c \in t.columns : IsColumn(c)
  BY DEF TableBetween, ColumnsBetween
<1>k. \A c : c \in t.columns => UpColumn(p, t, o, c)
  BY DEF UpColumn
<1>1. CASE QuietUp(o, p)
  <2>1. o.op \in {"assert", "add_index", "drop_index", "add_unique", "add_fk"}
    BY <1>1 DEF QuietUp
  <2>2. QuietEffect(t, u, o)
    <3>1. o.op \in Quiet /\ t = run.table /\ u = Perform(run, o).table
      BY <2>1 DEF Quiet
    <3> HIDE DEF t, u
    <3>. QED
      BY <1>0, <3>1, QuietOp
  <2> HIDE DEF u, t
  <2>3. u.columns = t.columns /\ t.uniques \subseteq u.uniques
    BY <2>1, <2>2 DEF QuietEffect
  <2>. QED
    BY <1>k, <2>3 DEF ColumnNames, u, t
<1>2. CASE \E f \in Added(p) : o = Adding(f)
  <2>1. PICK f \in Added(p) : o = Adding(f)
    BY <1>2
  <2>2. SameBut(u, t) /\ o.column.name \notin ColumnNames(t) /\ u.columns = t.columns \cup {o.column}
    BY <1>0, <2>1, AddColumnOp DEF Adding
  <2>3. UpColumn(p, t, o, o.column)
    BY <2>1, <2>2 DEF UpColumn
  <2>. QED
    BY <1>k, <2>2, <2>3 DEF ColumnNames, SameBut
<1>3. CASE \E f \in Added(p) : Required(f) /\ o = Filling(f, policy)
  <2>1. u = t
    BY <1>0, <1>3, FillOp DEF Filling
  <2>. QED
    BY <1>k, <2>1
<1>a. ASSUME NEW altered, SameBut(u, t), u.columns = {altered[c] : c \in t.columns},
             \A c \in t.columns : altered[c].name = c.name /\ UpColumn(p, t, o, altered[c])
      PROVE  /\ \A c \in u.columns : UpColumn(p, t, o, c)
             /\ ColumnNames(t) \subseteq ColumnNames(u)
             /\ t.uniques \subseteq u.uniques
  <2> HIDE DEF u, t
  <2>1. \A c \in t.columns : altered[c] \in u.columns
    BY <1>a
  <2>. QED
    BY <1>a, <2>1 DEF ColumnNames, SameBut
<1>4. CASE \E f \in Added(p) : Required(f) /\ o = Requiring(f)
  <2>1. PICK f \in Added(p) : Required(f) /\ o = Requiring(f)
    BY <1>4
  <2> DEFINE altered == [c \in t.columns |-> IF c.name = o.name THEN [c EXCEPT !.nullable = FALSE] ELSE c]
  <2>2. SameBut(u, t) /\ u.columns = {IF c.name = o.name THEN [c EXCEPT !.nullable = FALSE] ELSE c : c \in t.columns}
    BY <1>0, <2>1, RequireOp DEF Requiring
  <2>3. u.columns = {altered[c] : c \in t.columns}
    BY <2>2
  <2>4. ASSUME NEW c \in t.columns PROVE altered[c].name = c.name /\ UpColumn(p, t, o, altered[c])
    <3>1. CASE c.name = o.name
      <4> DEFINE k == [name |-> c.name, type |-> c.type, nullable |-> FALSE, default |-> c.default]
      <4>3. altered[c] = [c EXCEPT !.nullable = FALSE]
        BY <3>1
      <4>4. c = [name |-> c.name, type |-> c.type, nullable |-> c.nullable, default |-> c.default]
        BY <1>0 DEF IsColumn
      <4>5. [c EXCEPT !.nullable = FALSE] = k
        BY <4>4, NullableSet, Zenon
      <4>1. altered[c] = k
        BY <4>3, <4>5, Zenon
      <4>2. k.name = c.name /\ k.type = c.type /\ k.nullable = FALSE /\ k.default = c.default
        OBVIOUS
      <4> HIDE DEF k, altered, t
      <4>. QED
        BY <2>4, <4>1, <4>2 DEF UpColumn
    <3>2. CASE c.name # o.name
      BY <1>k, <2>4, <3>2
    <3>. QED
      BY <3>1, <3>2
  <2> HIDE DEF altered, t, u
  <2>. QED
    BY <1>a, <2>2, <2>3, <2>4 DEF t, u
<1>5. CASE \E c \in Retyped(p) \cup Enums(p) : o = AlterType(c[2])
  <2>1. PICK pr \in Retyped(p) \cup Enums(p) : o = AlterType(pr[2])
    BY <1>5
  <2> DEFINE altered == [c \in t.columns |-> IF c.name = o.name THEN [c EXCEPT !.type = o.type] ELSE c]
  <2>2. SameBut(u, t) /\ u.columns = Typed(t.columns, o.name, o.type)
    <3>1. o.op = "alter_type"
      BY <2>1 DEF AlterType
    <3>. QED
      BY <1>0, <3>1, AlterOp
  <2>3. u.columns = {altered[c] : c \in t.columns}
    BY <2>2 DEF Typed
  <2>5. o.name = pr[2].name /\ o.type = pr[2].type
    BY <2>1 DEF AlterType
  <2>4. ASSUME NEW c \in t.columns PROVE altered[c].name = c.name /\ UpColumn(p, t, o, altered[c])
    <3>1. CASE c.name = o.name
      <4> DEFINE k == [name |-> c.name, type |-> o.type, nullable |-> c.nullable, default |-> c.default]
      <4>1. altered[c] = k
        BY <1>0, <3>1 DEF IsColumn
      <4>2. k.name = c.name /\ k.type = o.type /\ k.nullable = c.nullable /\ k.default = c.default
        OBVIOUS
      <4> HIDE DEF k, altered, t
      <4>. QED
        BY <2>1, <2>4, <2>5, <3>1, <4>1, <4>2 DEF UpColumn
    <3>2. CASE c.name # o.name
      BY <1>k, <2>4, <3>2
    <3>. QED
      BY <3>1, <3>2
  <2> HIDE DEF altered, t, u
  <2>. QED
    BY <1>a, <2>2, <2>3, <2>4 DEF t, u
<1>6. CASE \E c \in Redefaulted(p) : o = SetDefault(c[2])
  <2>1. PICK pr \in Redefaulted(p) : o = SetDefault(pr[2])
    BY <1>6
  <2> DEFINE altered == [c \in t.columns |-> IF c.name = o.name THEN [c EXCEPT !.default = o.default] ELSE c]
  <2>2. SameBut(u, t) /\ u.columns = {IF c.name = o.name THEN [c EXCEPT !.default = o.default] ELSE c : c \in t.columns}
    BY <1>0, <2>1, DefaultOp DEF SetDefault
  <2>3. u.columns = {altered[c] : c \in t.columns}
    BY <2>2
  <2>5. o.name = pr[2].name /\ o.default = pr[2].default
    BY <2>1 DEF SetDefault
  <2>4. ASSUME NEW c \in t.columns PROVE altered[c].name = c.name /\ UpColumn(p, t, o, altered[c])
    <3>1. CASE c.name = o.name
      <4> DEFINE k == [name |-> c.name, type |-> c.type, nullable |-> c.nullable, default |-> o.default]
      <4>1. altered[c] = k
        BY <1>0, <3>1 DEF IsColumn
      <4>2. k.name = c.name /\ k.type = c.type /\ k.nullable = c.nullable /\ k.default = o.default
        OBVIOUS
      <4> HIDE DEF k, altered, t
      <4>. QED
        BY <2>1, <2>4, <2>5, <3>1, <4>1, <4>2 DEF UpColumn
    <3>2. CASE c.name # o.name
      BY <1>k, <2>4, <3>2
    <3>. QED
      BY <3>1, <3>2
  <2> HIDE DEF altered, t, u
  <2>. QED
    BY <1>a, <2>2, <2>3, <2>4 DEF t, u
<1>. QED
  BY <1>1, <1>2, <1>3, <1>4, <1>5, <1>6 DEF IsUp

LEMMA UpReached ==
    ASSUME NEW p, NEW policy, NEW rs, NEW m \in Nat, NEW h, NEW o, UpWalk(p, policy, rs, m, h, o),
           NEW g \in UpSet(p, policy), NEW j \in 1 .. Len(g)
    PROVE  \E k \in 1 .. m : o[k] = g[j]
<1>1. PICK b \in 0 .. m : b + Len(g) <= m /\ \A i \in 1 .. Len(g) : o[b + i] = g[i]
  BY DEF UpWalk
<1>2. Len(g) \in Nat
  BY GroupsUp
<1>3. b + j \in 1 .. m
  BY <1>1, <1>2
<1>. QED
  BY <1>1, <1>3

Stepped(p, h, o, k) ==
    /\ h[k] = Perform(h[k - 1], o[k]) /\ Perform(h[k - 1], o[k]).ok
    /\ TableBetween(p, h[k - 1].table) /\ TableBetween(p, h[k].table)
    /\ \A c \in h[k].table.columns : UpColumn(p, h[k - 1].table, o[k], c)
    /\ ColumnNames(h[k - 1].table) \subseteq ColumnNames(h[k].table)
    /\ h[k - 1].table.uniques \subseteq h[k].table.uniques

LEMMA UpStep ==
    ASSUME NEW p, NEW policy, NEW rs, NEW m \in Nat, NEW h, NEW o, UpWalk(p, policy, rs, m, h, o),
           NEW k \in 1 .. m
    PROVE  Stepped(p, h, o, k)
<1>1. k - 1 \in 0 .. m /\ k \in 0 .. m
  OBVIOUS
<1>2. /\ TableBetween(p, h[k - 1].table) /\ TableBetween(p, h[k].table)
      /\ h[k] = Perform(h[k - 1], o[k]) /\ h[k].ok /\ IsUp(o[k], p, policy)
  BY <1>1 DEF UpWalk
<1>3. Perform(h[k - 1], o[k]).ok
  BY <1>2
<1>4. \A c \in h[k].table.columns : UpColumn(p, h[k - 1].table, o[k], c)
  BY <1>2, <1>3, UpColumnIs
<1>5. ColumnNames(h[k - 1].table) \subseteq ColumnNames(h[k].table)
  BY <1>2, <1>3, UpColumnIs
<1>6. h[k - 1].table.uniques \subseteq h[k].table.uniques
  BY <1>2, <1>3, UpColumnIs
<1>. QED
  BY <1>2, <1>3, <1>4, <1>5, <1>6 DEF Stepped

\* the groups of an addition
LEMMA AddedGroup ==
    ASSUME NEW p, NEW policy, NEW f \in Added(p)
    PROVE  AdditionOf(f, policy) \in UpSet(p, policy)
<1>1. Step(AdditionOf(f, policy), DropField(f)) \in StepSet(p, policy)
  BY DEF StepSet
<1>2. Step(AdditionOf(f, policy), DropField(f)).up = AdditionOf(f, policy)
  BY DEF Step
<1>. QED
  BY <1>1, <1>2 DEF UpSet

LEMMA UpHasColumn ==
    ASSUME NEW p, NEW policy, NEW rs, NEW m \in Nat, NEW h, NEW o, UpWalk(p, policy, rs, m, h, o),
           NEW f \in Added(p)
    PROVE  /\ f.name \in ColumnNames(h[m].table)
           /\ Required(f) => \A c \in h[m].table.columns : c.name = f.name => c.nullable = FALSE
           /\ f.unique => {f.name} \in h[m].table.uniques
<1> DEFINE g == AdditionOf(f, policy)
           S == {k \in 0 .. m : f.name \in ColumnNames(h[k].table)}
           N == {k \in 0 .. m : f.name \in ColumnNames(h[k].table)
                                  /\ \A c \in h[k].table.columns : c.name = f.name => c.nullable = FALSE}
           U == {k \in 0 .. m : {f.name} \in h[k].table.uniques}
<1>0. /\ Len(g) \in Nat /\ Len(g) >= 1 /\ g[1] = Adding(f)
      /\ f.unique => \E j \in 1 .. Len(g) : g[j] = AddUnique({f.name})
      /\ Required(f) => Len(g) > 1 /\ g[Len(g)] = Requiring(f)
  BY AdditionIs
<1>1. PICK b \in 0 .. m : b + Len(g) <= m /\ \A i \in 1 .. Len(g) : o[b + i] = g[i]
  BY AddedGroup DEF UpWalk
<1> HIDE DEF g
<1>m. \A k \in 1 .. m : k \in 0 .. m /\ k - 1 \in 0 .. m
  OBVIOUS
<1>2. b + 1 \in 1 .. m /\ o[b + 1] = Adding(f)
  BY <1>0, <1>1
<1>3. b + 1 \in S
  <2> DEFINE run == h[b]
             op == o[b + 1]
  <2>1. h[b + 1] = Perform(run, op) /\ Perform(run, op).ok /\ TableBetween(p, run.table)
    <3>1. b + 1 - 1 = b
      OBVIOUS
    <3>2. Stepped(p, h, o, b + 1)
      BY <1>2, UpStep
    <3>. QED
      BY <3>1, <3>2 DEF Stepped
  <2>2. op.op = "add_column" /\ IsTable(run.table)
    BY <1>2, <2>1 DEF Adding, TableBetween
  <2>4. op.column.name = f.name
    BY <1>2, AddingIs
  <2> HIDE DEF run, op
  <2>3. Perform(run, op).table.columns = run.table.columns \cup {op.column}
    BY <2>1, <2>2, AddColumnOp
  <2>. QED
    BY <1>2, <1>m, <2>1, <2>3, <2>4 DEF ColumnNames
<1>4. ASSUME NEW k \in b + 1 + 1 .. m, k - 1 \in S PROVE k \in S
  <2>1. k \in 1 .. m
    OBVIOUS
  <2>. QED
    BY <1>4, <1>m, <2>1, UpStep DEF Stepped
<1>5. b + 1 .. m \subseteq S
  <2> HIDE DEF S
  <2>1. b + 1 \in 0 .. m
    BY <1>2
  <2>. QED
    BY <1>3, <1>4, <2>1, Steady
<1>6. f.name \in ColumnNames(h[m].table)
  BY <1>2, <1>5
<1>7. ASSUME Required(f) PROVE \A c \in h[m].table.columns : c.name = f.name => c.nullable = FALSE
  <2> DEFINE q == b + Len(g)
  <2>1. q \in 1 .. m /\ q - 1 \in b + 1 .. m /\ o[q] = Requiring(f)
    BY <1>0, <1>1, <1>7
  <2> HIDE DEF q
  <2>2. q \in N
    <3>0. Stepped(p, h, o, q)
      BY <2>1, UpStep
    <3> DEFINE run == h[q - 1]
               op == o[q]
    <3>1. h[q] = Perform(run, op) /\ Perform(run, op).ok /\ TableBetween(p, run.table)
             /\ ColumnNames(run.table) \subseteq ColumnNames(h[q].table)
      BY <3>0 DEF Stepped
    <3>2. op.op = "require" /\ op.name = f.name /\ IsTable(run.table)
      BY <2>1, <3>1 DEF Requiring, TableBetween
    <3>3. f.name \in ColumnNames(run.table)
      BY <1>5, <2>1
    <3>5. \A c \in run.table.columns : IsColumn(c)
      BY <3>1 DEF TableBetween, ColumnsBetween
    <3> HIDE DEF run, op
    <3>4. Perform(run, op).table.columns =
             {IF c.name = op.name THEN [c EXCEPT !.nullable = FALSE] ELSE c : c \in run.table.columns}
      BY <3>1, <3>2, RequireOp
    <3>6. ASSUME NEW c \in h[q].table.columns, c.name = f.name PROVE c.nullable = FALSE
      <4>1. PICK e \in run.table.columns : c = IF e.name = op.name THEN [e EXCEPT !.nullable = FALSE] ELSE e
        BY <3>1, <3>4, <3>6
      <4>2. e = [name |-> e.name, type |-> e.type, nullable |-> e.nullable, default |-> e.default]
        BY <3>5 DEF IsColumn
      <4>3. CASE e.name = op.name
        <5>1. c = [name |-> e.name, type |-> e.type, nullable |-> FALSE, default |-> e.default]
          <6>1. c = [e EXCEPT !.nullable = FALSE]
            BY <4>1, <4>3
          <6>. QED
            BY <4>2, <6>1, NullableSet, Zenon
        <5>. QED
          BY <5>1
      <4>4. CASE e.name # op.name
        BY <3>2, <3>6, <4>1, <4>4
      <4>. QED
        BY <4>3, <4>4
    <3>. QED
      BY <1>m, <2>1, <3>1, <3>3, <3>6
  <2>3. ASSUME NEW k \in q + 1 .. m, k - 1 \in N PROVE k \in N
    <3>1. k \in 1 .. m
      BY <2>1
    <3>2. /\ \A c \in h[k].table.columns : UpColumn(p, h[k - 1].table, o[k], c)
          /\ ColumnNames(h[k - 1].table) \subseteq ColumnNames(h[k].table)
      BY <3>1, UpStep DEF Stepped
    <3>3. ASSUME NEW c \in h[k].table.columns, c.name = f.name PROVE c.nullable = FALSE
      BY <2>3, <3>2, <3>3 DEF UpColumn
    <3>. QED
      BY <1>m, <2>3, <3>1, <3>2, <3>3
  <2>4. q .. m \subseteq N
    <3> HIDE DEF N
    <3>1. q \in 0 .. m
      BY <2>1
    <3>. QED
      BY <2>2, <2>3, <3>1, Steady
  <2>. QED
    BY <2>1, <2>4
<1>8. ASSUME f.unique PROVE {f.name} \in h[m].table.uniques
  <2>1. PICK j \in 1 .. Len(g) : g[j] = AddUnique({f.name})
    BY <1>0, <1>8
  <2> DEFINE q == b + j
  <2>2. q \in 1 .. m /\ o[q] = AddUnique({f.name})
    BY <1>0, <1>1, <2>1
  <2> HIDE DEF q
  <2>3. q \in U
    <3>0. Stepped(p, h, o, q)
      BY <2>2, UpStep
    <3> DEFINE run == h[q - 1]
               op == o[q]
               u == Perform(run, op).table
               t == run.table
    <3>1. h[q] = Perform(run, op) /\ Perform(run, op).ok /\ TableBetween(p, run.table)
      BY <3>0 DEF Stepped
    <3>2. op.op = "add_unique" /\ op.columns = {f.name} /\ IsTable(run.table) /\ op.op \in Quiet
      BY <2>2, <3>1 DEF AddUnique, TableBetween, Quiet
    <3>3. t = run.table /\ u = Perform(run, op).table
      OBVIOUS
    <3> HIDE DEF run, op, u, t
    <3>4. QuietEffect(t, u, op)
      BY <3>1, <3>2, <3>3, QuietOp
    <3>5. {f.name} \in u.uniques
      BY <3>2, <3>4 DEF QuietEffect
    <3>. QED
      BY <1>m, <2>2, <3>1, <3>3, <3>5
  <2>4. ASSUME NEW k \in q + 1 .. m, k - 1 \in U PROVE k \in U
    <3>1. k \in 1 .. m
      BY <2>2
    <3>. QED
      BY <1>m, <2>4, <3>1, UpStep DEF Stepped
  <2>5. q .. m \subseteq U
    <3> HIDE DEF U
    <3>1. q \in 0 .. m
      BY <2>2
    <3>. QED
      BY <2>3, <2>4, <3>1, Steady
  <2>6. m \in q .. m
    BY <2>2
  <2>7. m \in U
    <3> HIDE DEF U
    <3>. QED
      BY <2>5, <2>6
  <2>. QED
    BY <2>7
<1>. QED
  BY <1>6, <1>7, <1>8

Altered(p) == Retyped(p) \cup Enums(p)

LEMMA UpHasType ==
    ASSUME NEW p, Sound(p.new), NEW policy, NEW rs, NEW m \in Nat, NEW h, NEW o, UpWalk(p, policy, rs, m, h, o),
           NEW pr \in Altered(p)
    PROVE  \A c \in h[m].table.columns : c.name = pr[2].name => c.type = pr[2].type
<1> DEFINE g == pr[2]
           S == {k \in 0 .. m : \A c \in h[k].table.columns : c.name = g.name => c.type = g.type}
<1>m. \A k \in 1 .. m : k \in 0 .. m /\ k - 1 \in 0 .. m
  OBVIOUS
<1>0. pr \in Pairs(p) /\ g \in p.new.fields /\ g.name \in Names(p.old)
  BY DEF Altered, Retyped, Enums, Pairs, Names
<1>1. PICK q \in 1 .. m : o[q] = AlterType(g)
  <2> DEFINE a == <<AlterType(g)>>
  <2>1. a \in UpSet(p, policy)
    <3>1. Step(a, Raise) \in StepSet(p, policy) /\ Step(a, Raise).up = a
      BY DEF Altered, StepSet, Step
    <3>. QED
      BY <3>1 DEF UpSet
  <2>2. Len(a) = 1 /\ a[1] = AlterType(g)
    BY SingleIs
  <2>3. 1 \in 1 .. Len(a)
    BY <2>2
  <2> HIDE DEF a
  <2>4. \E k \in 1 .. m : o[k] = a[1]
    BY <2>1, <2>3, UpReached
  <2>. QED
    BY <2>2, <2>4
<1> HIDE DEF g
<1>2. q \in S
  <2>0. Stepped(p, h, o, q)
    BY UpStep
  <2> DEFINE run == h[q - 1]
             op == o[q]
  <2>1. h[q] = Perform(run, op) /\ Perform(run, op).ok /\ TableBetween(p, run.table)
    BY <2>0 DEF Stepped
  <2>2. op.op = "alter_type" /\ op.name = g.name /\ op.type = g.type /\ IsTable(run.table)
    BY <1>1, <2>1 DEF AlterType, TableBetween
  <2>5. \A c \in run.table.columns : IsColumn(c)
    BY <2>1 DEF TableBetween, ColumnsBetween
  <2> HIDE DEF run, op
  <2>3. Perform(run, op).ok /\ op.op = "alter_type" /\ IsTable(run.table)
    BY <2>1, <2>2
  <2>4. Perform(run, op).table.columns = Typed(run.table.columns, op.name, op.type)
    BY <2>3, AlterOp
  <2>6. ASSUME NEW c \in h[q].table.columns, c.name = g.name PROVE c.type = g.type
    <3>1. PICK e \in run.table.columns : c = IF e.name = op.name THEN [e EXCEPT !.type = op.type] ELSE e
      BY <2>1, <2>4, <2>6 DEF Typed
    <3>2. e = [name |-> e.name, type |-> e.type, nullable |-> e.nullable, default |-> e.default]
      BY <2>5 DEF IsColumn
    <3>3. CASE e.name = op.name
      BY <2>2, <3>1, <3>2, <3>3
    <3>4. CASE e.name # op.name
      BY <2>2, <2>6, <3>1, <3>4
    <3>. QED
      BY <3>3, <3>4
  <2>. QED
    BY <1>m, <2>6
<1>3. ASSUME NEW k \in q + 1 .. m, k - 1 \in S PROVE k \in S
  <2>1. k \in 1 .. m
    OBVIOUS
  <2>2. \A c \in h[k].table.columns : UpColumn(p, h[k - 1].table, o[k], c)
    BY <2>1, UpStep DEF Stepped
  <2>3. ASSUME NEW c \in h[k].table.columns, c.name = g.name PROVE c.type = g.type
    <3>1. CASE \E f \in Added(p) : o[k] = Adding(f) /\ c = o[k].column
      <4>1. PICK f \in Added(p) : c = Adding(f).column
        BY <3>1
      <4>2. f.name = g.name /\ f \in p.new.fields /\ f.name \notin Names(p.old)
        BY <2>3, <4>1, AddingIs DEF Added
      <4>. QED
        BY <1>0, <4>2
    <3>2. CASE \E e \in h[k - 1].table.columns :
                  e.name = c.name /\ (c.type = e.type \/ \E r \in Retyped(p) \cup Enums(p) :
                                                            r[2].name = c.name /\ c.type = r[2].type)
      <4>1. PICK e \in h[k - 1].table.columns :
                  e.name = c.name /\ (c.type = e.type \/ \E r \in Retyped(p) \cup Enums(p) :
                                                            r[2].name = c.name /\ c.type = r[2].type)
        BY <3>2
      <4>2. e.type = g.type
        BY <1>3, <2>3, <4>1
      <4>3. ASSUME NEW r \in Retyped(p) \cup Enums(p), r[2].name = c.name PROVE r[2] = g
        <5>1. r[2] \in p.new.fields
          BY DEF Retyped, Enums, Pairs
        <5>. QED
          BY <1>0, <2>3, <4>3, <5>1 DEF Sound, NamedOnce
      <4>. QED
        BY <4>1, <4>2, <4>3
    <3>. QED
      BY <2>2, <3>1, <3>2 DEF UpColumn
  <2>. QED
    BY <1>m, <2>1, <2>3
<1>4. q .. m \subseteq S
  <2> HIDE DEF S
  <2>1. q \in 0 .. m
    BY <1>m
  <2>. QED
    BY <1>2, <1>3, <2>1, Steady
<1>5. m \in q .. m
  OBVIOUS
<1>. QED
  BY <1>4, <1>5 DEF g

LEMMA UpHasDefault ==
    ASSUME NEW p, Sound(p.new), NEW policy, NEW rs, NEW m \in Nat, NEW h, NEW o, UpWalk(p, policy, rs, m, h, o),
           NEW pr \in Redefaulted(p)
    PROVE  \A c \in h[m].table.columns : c.name = pr[2].name => c.default = pr[2].default
<1> DEFINE g == pr[2]
           S == {k \in 0 .. m : \A c \in h[k].table.columns : c.name = g.name => c.default = g.default}
<1>m. \A k \in 1 .. m : k \in 0 .. m /\ k - 1 \in 0 .. m
  OBVIOUS
<1>0. pr \in Pairs(p) /\ g \in p.new.fields /\ g.name \in Names(p.old)
  BY DEF Redefaulted, Pairs, Names
<1>1. PICK q \in 1 .. m : o[q] = SetDefault(g)
  <2> DEFINE a == <<SetDefault(g)>>
  <2>1. a \in UpSet(p, policy)
    <3>1. Step(a, SetDefault(pr[1])) \in StepSet(p, policy) /\ Step(a, SetDefault(pr[1])).up = a
      BY DEF StepSet, Step
    <3>. QED
      BY <3>1 DEF UpSet
  <2>2. Len(a) = 1 /\ a[1] = SetDefault(g)
    BY SingleIs
  <2>3. 1 \in 1 .. Len(a)
    BY <2>2
  <2> HIDE DEF a
  <2>4. \E k \in 1 .. m : o[k] = a[1]
    BY <2>1, <2>3, UpReached
  <2>. QED
    BY <2>2, <2>4
<1> HIDE DEF g
<1>2. q \in S
  <2>0. Stepped(p, h, o, q)
    BY UpStep
  <2> DEFINE run == h[q - 1]
             op == o[q]
  <2>1. h[q] = Perform(run, op) /\ Perform(run, op).ok /\ TableBetween(p, run.table)
    BY <2>0 DEF Stepped
  <2>2. op.op = "set_default" /\ op.name = g.name /\ op.default = g.default /\ IsTable(run.table)
    BY <1>1, <2>1 DEF SetDefault, TableBetween
  <2>5. \A c \in run.table.columns : IsColumn(c)
    BY <2>1 DEF TableBetween, ColumnsBetween
  <2> HIDE DEF run, op
  <2>4. Perform(run, op).table.columns =
           {IF c.name = op.name THEN [c EXCEPT !.default = op.default] ELSE c : c \in run.table.columns}
    BY <2>1, <2>2, DefaultOp
  <2>6. ASSUME NEW c \in h[q].table.columns, c.name = g.name PROVE c.default = g.default
    <3>1. PICK e \in run.table.columns : c = IF e.name = op.name THEN [e EXCEPT !.default = op.default] ELSE e
      BY <2>1, <2>4, <2>6
    <3>2. e = [name |-> e.name, type |-> e.type, nullable |-> e.nullable, default |-> e.default]
      BY <2>5 DEF IsColumn
    <3>3. CASE e.name = op.name
      BY <2>2, <3>1, <3>2, <3>3
    <3>4. CASE e.name # op.name
      BY <2>2, <2>6, <3>1, <3>4
    <3>. QED
      BY <3>3, <3>4
  <2>. QED
    BY <1>m, <2>6
<1>3. ASSUME NEW k \in q + 1 .. m, k - 1 \in S PROVE k \in S
  <2>1. k \in 1 .. m
    OBVIOUS
  <2>2. \A c \in h[k].table.columns : UpColumn(p, h[k - 1].table, o[k], c)
    BY <2>1, UpStep DEF Stepped
  <2>3. ASSUME NEW c \in h[k].table.columns, c.name = g.name PROVE c.default = g.default
    <3>1. CASE \E f \in Added(p) : o[k] = Adding(f) /\ c = o[k].column
      <4>1. PICK f \in Added(p) : c = Adding(f).column
        BY <3>1
      <4>2. f.name = g.name /\ f \in p.new.fields /\ f.name \notin Names(p.old)
        BY <2>3, <4>1, AddingIs DEF Added
      <4>. QED
        BY <1>0, <4>2
    <3>2. CASE \E e \in h[k - 1].table.columns :
                  e.name = c.name /\ (c.default = e.default \/ \E r \in Redefaulted(p) :
                                                            r[2].name = c.name /\ c.default = r[2].default)
      <4>1. PICK e \in h[k - 1].table.columns :
                  e.name = c.name /\ (c.default = e.default \/ \E r \in Redefaulted(p) :
                                                            r[2].name = c.name /\ c.default = r[2].default)
        BY <3>2
      <4>2. e.default = g.default
        BY <1>3, <2>3, <4>1
      <4>3. ASSUME NEW r \in Redefaulted(p), r[2].name = c.name PROVE r[2] = g
        <5>1. r[2] \in p.new.fields
          BY DEF Redefaulted, Pairs
        <5>. QED
          BY <1>0, <2>3, <4>3, <5>1 DEF Sound, NamedOnce
      <4>. QED
        BY <4>1, <4>2, <4>3
    <3>. QED
      BY <2>2, <3>1, <3>2 DEF UpColumn
  <2>. QED
    BY <1>m, <2>1, <2>3
<1>4. q .. m \subseteq S
  <2> HIDE DEF S
  <2>1. q \in 0 .. m
    BY <1>m
  <2>. QED
    BY <1>2, <1>3, <2>1, Steady
<1>5. m \in q .. m
  OBVIOUS
<1>. QED
  BY <1>4, <1>5 DEF g

LEMMA UpHasUnique ==
    ASSUME NEW p, NEW policy, NEW rs, NEW m \in Nat, NEW h, NEW o, UpWalk(p, policy, rs, m, h, o), NEW x
    PROVE  x \in h[0].table.uniques \/ x \in UniquesAdded(p) => x \in h[m].table.uniques
<1> DEFINE S == {k \in 0 .. m : x \in h[k].table.uniques}
<1>m. \A k \in 1 .. m : k \in 0 .. m /\ k - 1 \in 0 .. m
  OBVIOUS
<1>1. ASSUME NEW q \in 0 .. m, q \in S PROVE x \in h[m].table.uniques
  <2>1. ASSUME NEW k \in q + 1 .. m, k - 1 \in S PROVE k \in S
    <3>1. k \in 1 .. m
      OBVIOUS
    <3>. QED
      BY <1>m, <2>1, <3>1, UpStep DEF Stepped
  <2>2. q .. m \subseteq S
    <3> HIDE DEF S
    <3>. QED
      BY <1>1, <2>1, Steady
  <2>3. m \in q .. m
    OBVIOUS
  <2>4. m \in S
    <3> HIDE DEF S
    <3>. QED
      BY <2>2, <2>3
  <2>. QED
    BY <2>4
<1>2. ASSUME x \in UniquesAdded(p) PROVE \E q \in 0 .. m : q \in S
  <2> DEFINE a == <<AddUnique(x)>>
  <2>1. a \in UpSet(p, policy)
    <3>1. Step(a, DropUnique(x)) \in StepSet(p, policy) /\ Step(a, DropUnique(x)).up = a
      BY <1>2 DEF StepSet, Step
    <3>. QED
      BY <3>1 DEF UpSet
  <2>2. Len(a) = 1 /\ a[1] = AddUnique(x)
    BY SingleIs
  <2>3. 1 \in 1 .. Len(a)
    BY <2>2
  <2>4. PICK q \in 1 .. m : o[q] = AddUnique(x)
    <3> HIDE DEF a
    <3>1. \E k \in 1 .. m : o[k] = a[1]
      BY <2>1, <2>3, UpReached
    <3>. QED
      BY <2>2, <3>1
  <2>5. Stepped(p, h, o, q)
    BY UpStep
  <2> DEFINE run == h[q - 1]
             op == o[q]
             u == Perform(run, op).table
             t == run.table
  <2>6. h[q] = Perform(run, op) /\ Perform(run, op).ok /\ TableBetween(p, run.table)
    BY <2>5 DEF Stepped
  <2>7. op.op = "add_unique" /\ op.columns = x /\ IsTable(run.table) /\ op.op \in Quiet
    BY <2>4, <2>6 DEF AddUnique, TableBetween, Quiet
  <2>8. t = run.table /\ u = Perform(run, op).table
    OBVIOUS
  <2> HIDE DEF run, op, u, t
  <2>9. QuietEffect(t, u, op)
    BY <2>6, <2>7, <2>8, QuietOp
  <2>10. x \in u.uniques
    BY <2>7, <2>9 DEF QuietEffect
  <2>. QED
    BY <1>m, <2>6, <2>8, <2>10
<1>3. ASSUME x \in h[0].table.uniques PROVE \E q \in 0 .. m : q \in S
  BY <1>3
<1> HIDE DEF S
<1>. QED
  BY <1>1, <1>2, <1>3

\* a table that is what the definition says
Matches(f, c) ==
    /\ c.nullable = f.nullable /\ c.default = f.default
    /\ IF f.encrypted THEN c.type.kind \in {"str", "text"} ELSE c.type = f.type
Follows(d, t) ==
    /\ IsTable(t) /\ t.exists = TRUE
    /\ \A c \in t.columns : IsColumn(c)
    /\ \A c, e \in t.columns : c.name = e.name => c = e
    /\ ColumnNames(t) = Names(d)
    /\ \A f \in d.fields : \A c \in t.columns : c.name = f.name => Matches(f, c)
    /\ t.uniques = Uniques(d)
    /\ t.fks \subseteq Names(d)
    /\ \A x \in t.indexes : x.columns \subseteq ColumnNames(t)

\* what a migration leaves as it is
Supported(p) ==
    /\ Removed(p) = {}
    /\ \A c \in Pairs(p) : /\ c[1].nullable = c[2].nullable /\ c[1].encrypted = c[2].encrypted
                           /\ c[1].unique => c[2].unique
    /\ p.old.uniques \subseteq p.new.uniques

LEMMA NotUnsupported ==
    ASSUME NEW p, ~Unsupported(p)
    PROVE  Supported(p)
BY DEF Unsupported, Supported

LEMMA PairOf ==
    ASSUME NEW p, NEW g \in p.new.fields, g.name \in Names(p.old)
    PROVE  \E f \in p.old.fields : f.name = g.name /\ <<f, g>> \in Pairs(p)
<1>1. PICK f \in p.old.fields : f.name = g.name
  BY DEF Names
<1>2. <<f, g>> \in p.old.fields \X p.new.fields /\ <<f, g>>[1] = f /\ <<f, g>>[2] = g
  OBVIOUS
<1>. QED
  BY <1>1, <1>2 DEF Pairs

LEMMA NamesStay ==
    ASSUME NEW p, Supported(p)
    PROVE  Names(p.old) \subseteq Names(p.new)
BY DEF Supported, Removed, Names

LEMMA StartBetween ==
    ASSUME NEW p, Supported(p), NEW t, Follows(p.old, t),
           \A f \in p.old.fields : f.encrypted => f.type.kind \in {"str", "text"}
    PROVE  TableBetween(p, t)
<1>1. ASSUME NEW g \in p.new.fields, NEW c \in t.columns, c.name = g.name PROVE Between(p, g, c)
  <2>1. g.name \in Names(p.old)
    BY <1>1 DEF Follows, ColumnNames
  <2>2. PICK f \in p.old.fields : f.name = g.name /\ <<f, g>> \in Pairs(p)
    BY <2>1, PairOf
  <2>3. Matches(f, c)
    BY <1>1, <2>2 DEF Follows
  <2> DEFINE pr == <<f, g>>
  <2>4. pr[1] = f /\ pr[2] = g /\ pr \in Pairs(p)
    BY <2>2
  <2> HIDE DEF pr
  <2>5. f.nullable = g.nullable /\ f.encrypted = g.encrypted
    BY <2>4 DEF Supported
  <2>6. f.type = g.type \/ pr \in Retyped(p) \cup Enums(p)
    BY <2>4 DEF Retyped
  <2>7. f.default = g.default \/ pr \in Redefaulted(p)
    BY <2>4 DEF Redefaulted
  <2>8. IF g.encrypted THEN c.type.kind \in {"str", "text"}
        ELSE c.type = g.type \/ \E k : <<k, g>> \in Retyped(p) \cup Enums(p)
    BY <2>3, <2>5, <2>6 DEF Matches, pr
  <2>9. c.default = g.default \/ \E k : <<k, g>> \in Redefaulted(p)
    BY <2>3, <2>7 DEF Matches, pr
  <2>. QED
    BY <2>3, <2>5, <2>8, <2>9 DEF Matches, Between
<1>2. Names(p.old) \subseteq Names(p.new)
  BY NamesStay
<1>3. \A c \in t.columns : c.name \in Names(p.new)
  BY <1>2 DEF Follows, ColumnNames
<1>4. ColumnsBetween(p, t.columns)
  BY <1>1, <1>3 DEF ColumnsBetween, Follows, ColumnNames
<1>5. Uniques(p.old) \subseteq Uniques(p.new)
  <2>1. ASSUME NEW f \in p.old.fields, f.unique PROVE {f.name} \in Uniques(p.new)
    <3>1. PICK g \in p.new.fields : g.name = f.name
      BY <1>2 DEF Names
    <3>2. <<f, g>> \in Pairs(p) /\ <<f, g>>[1] = f /\ <<f, g>>[2] = g
      BY <3>1 DEF Pairs
    <3>3. g.unique
      BY <2>1, <3>2 DEF Supported
    <3>. QED
      BY <3>1, <3>3 DEF Uniques, CreateTable
  <2>2. p.old.uniques \subseteq Uniques(p.new)
    BY DEF Supported, Uniques, CreateTable
  <2>. QED
    BY <2>1, <2>2 DEF Uniques, CreateTable
<1>6. t.uniques \subseteq Uniques(p.new) /\ t.fks \subseteq Names(p.new)
  BY <1>2, <1>5 DEF Follows
<1>. QED
  BY <1>4, <1>6 DEF TableBetween, Follows

LEMMA UpFollows ==
    ASSUME NEW p, Sound(p.old), Sound(p.new), Supported(p), NEW policy, NEW rs, NEW m \in Nat, NEW h, NEW o,
           UpWalk(p, policy, rs, m, h, o), Follows(p.old, h[0].table)
    PROVE  Follows(p.new, h[m].table)
<1> DEFINE t == h[m].table
<1>1. TableBetween(p, t)
  <2>1. m \in 0 .. m
    OBVIOUS
  <2>. QED
    BY <2>1 DEF UpWalk
<1>2. ColumnNames(t) = Names(p.new)
  <2>1. ASSUME NEW g \in p.new.fields PROVE g.name \in ColumnNames(t)
    <3>1. CASE g.name \in Names(p.old)
      BY <1>1, <3>1 DEF TableBetween, ColumnsBetween, ColumnNames
    <3>2. CASE g.name \notin Names(p.old)
      <4>1. g \in Added(p)
        BY <3>2 DEF Added
      <4>. QED
        BY <4>1, UpHasColumn
    <3>. QED
      BY <3>1, <3>2
  <2>. QED
    BY <1>1, <2>1 DEF TableBetween, ColumnsBetween, ColumnNames, Names
<1>3. ASSUME NEW g \in p.new.fields, NEW c \in t.columns, c.name = g.name PROVE Matches(g, c)
  <2>1. Between(p, g, c)
    BY <1>1, <1>3 DEF TableBetween, ColumnsBetween
  <2>2. c.nullable = g.nullable
    <3>1. CASE g \in Added(p) /\ Required(g)
      <4>1. c.nullable = FALSE
        BY <1>3, <3>1, UpHasColumn
      <4>2. g.nullable = FALSE
        <5>1. g.nullable \in BOOLEAN
          BY DEF Sound, FieldRecords
        <5>. QED
          BY <3>1, <5>1 DEF Required
      <4>. QED
        BY <4>1, <4>2
    <3>. QED
      BY <2>1, <3>1 DEF Between
  <2>3. ~g.encrypted => c.type = g.type
    <3>1. ASSUME NEW f, <<f, g>> \in Retyped(p) \cup Enums(p) PROVE c.type = g.type
      <4> DEFINE pr == <<f, g>>
      <4>1. pr \in Altered(p) /\ pr[2] = g
        BY <3>1 DEF Altered
      <4> HIDE DEF pr
      <4>. QED
        BY <1>3, <4>1, UpHasType
    <3>. QED
      BY <2>1, <3>1 DEF Between
  <2>4. c.default = g.default
    <3>1. ASSUME NEW f, <<f, g>> \in Redefaulted(p) PROVE c.default = g.default
      <4> DEFINE pr == <<f, g>>
      <4>1. pr \in Redefaulted(p) /\ pr[2] = g
        BY <3>1
      <4> HIDE DEF pr
      <4>. QED
        BY <1>3, <4>1, UpHasDefault
    <3>. QED
      BY <2>1, <3>1 DEF Between
  <2>. QED
    BY <2>1, <2>2, <2>3, <2>4 DEF Matches, Between
<1>4. Uniques(p.new) \subseteq t.uniques
  <2>1. ASSUME NEW x \in p.new.uniques PROVE x \in t.uniques
    <3>1. x \in Uniques(p.old) \/ x \in UniquesAdded(p)
      BY DEF Uniques, CreateTable, UniquesAdded
    <3>2. x \in h[0].table.uniques \/ x \in UniquesAdded(p)
      BY <3>1 DEF Follows
    <3>. QED
      BY <3>2, UpHasUnique
  <2>2. ASSUME NEW g \in p.new.fields, g.unique PROVE {g.name} \in t.uniques
    <3>1. CASE g.name \notin Names(p.old)
      <4>1. g \in Added(p)
        BY <3>1 DEF Added
      <4>. QED
        BY <2>2, <4>1, UpHasColumn
    <3>2. CASE g.name \in Names(p.old)
      <4>1. PICK f \in p.old.fields : f.name = g.name /\ <<f, g>> \in Pairs(p)
        BY <3>2, PairOf
      <4>2. CASE f.unique
        <5>1. {g.name} \in Uniques(p.old)
          BY <4>1, <4>2 DEF Uniques, CreateTable
        <5>2. {g.name} \in h[0].table.uniques
          BY <5>1 DEF Follows
        <5>. QED
          BY <5>2, UpHasUnique
      <4>3. CASE ~f.unique
        <5> DEFINE pr == <<f, g>>
        <5>1. pr \in MadeUnique(p) /\ pr[1].name = g.name
          BY <2>2, <4>1, <4>3 DEF MadeUnique
        <5> HIDE DEF pr
        <5>2. {g.name} \in UniquesAdded(p)
          BY <5>1 DEF UniquesAdded
        <5>. QED
          BY <5>2, UpHasUnique
      <4>. QED
        BY <4>2, <4>3
    <3>. QED
      BY <3>1, <3>2
  <2> HIDE DEF t
  <2>. QED
    BY <2>1, <2>2 DEF Uniques, CreateTable
<1>5. t.uniques = Uniques(p.new)
  BY <1>1, <1>4 DEF TableBetween
<1> HIDE DEF t
<1>6. \A f \in p.new.fields : \A c \in t.columns : c.name = f.name => Matches(f, c)
  BY <1>3
<1>7. Follows(p.new, t)
  BY <1>1, <1>2, <1>5, <1>6 DEF Follows, TableBetween, ColumnsBetween
<1>. QED
  BY <1>7 DEF t

\* what an operation of a migration does to the indexes
LEMMA UpIndexEffect ==
    ASSUME NEW p, NEW policy, NEW run, NEW o, Perform(run, o).ok, IsUp(o, p, policy), IsTable(run.table)
    PROVE  /\ \A x \in Perform(run, o).table.indexes : x \in run.table.indexes \/ x \in IndexesMade(p)
           /\ \A x : o = DropIndex(x) => x \notin Perform(run, o).table.indexes
<1> DEFINE t == run.table
           u == Perform(run, o).table
<1>1. CASE QuietUp(o, p)
  <2>1. o.op \in Quiet /\ t = run.table /\ u = Perform(run, o).table
    BY <1>1 DEF QuietUp, Quiet
  <2> HIDE DEF t, u
  <2>2. QuietEffect(t, u, o)
    BY <2>1, QuietOp
  <2>3. o.op = "add_index" => o.index \in IndexesMade(p)
    BY <1>1 DEF QuietUp
  <2>4. \A x : o = DropIndex(x) => o.op = "drop_index" /\ o.index = x
    BY DEF DropIndex
  <2>. QED
    BY <2>1, <2>2, <2>3, <2>4 DEF QuietEffect
<1>2. ASSUME o.op # "drop_index", u.indexes = t.indexes
      PROVE  /\ \A x \in u.indexes : x \in t.indexes \/ x \in IndexesMade(p)
             /\ \A x : o = DropIndex(x) => x \notin u.indexes
  BY <1>2 DEF DropIndex
<1>3. CASE \E f \in Added(p) : o = Adding(f)
  <2>1. o.op = "add_column"
    BY <1>3 DEF Adding
  <2>. QED
    BY <1>2, <2>1, AddColumnOp DEF SameBut
<1>4. CASE \E f \in Added(p) : o = Filling(f, policy)
  <2>1. o.op = "fill"
    BY <1>4 DEF Filling
  <2>. QED
    BY <1>2, <2>1, FillOp
<1>5. CASE \E f \in Added(p) : o = Requiring(f)
  <2>1. o.op = "require"
    BY <1>5 DEF Requiring
  <2>. QED
    BY <1>2, <2>1, RequireOp DEF SameBut
<1>6. CASE \E c \in Retyped(p) \cup Enums(p) : o = AlterType(c[2])
  <2>1. o.op = "alter_type"
    BY <1>6 DEF AlterType
  <2>. QED
    BY <1>2, <2>1, AlterOp DEF SameBut
<1>7. CASE \E c \in Redefaulted(p) : o = SetDefault(c[2])
  <2>1. o.op = "set_default"
    BY <1>7 DEF SetDefault
  <2>. QED
    BY <1>2, <2>1, DefaultOp DEF SameBut
<1>. QED
  BY <1>1, <1>3, <1>4, <1>5, <1>6, <1>7 DEF IsUp

LEMMA UpIndexes ==
    ASSUME NEW p, NEW policy, NEW rs, NEW m \in Nat, NEW h, NEW o, UpWalk(p, policy, rs, m, h, o)
    PROVE  /\ \A x \in h[m].table.indexes : x \in h[0].table.indexes \/ x \in IndexesMade(p)
           /\ \A x \in IndexesRemoved(p) : x \in IndexesMade(p) \/ x \notin h[m].table.indexes
<1>m. \A k \in 1 .. m : k \in 0 .. m /\ k - 1 \in 0 .. m
  OBVIOUS
<1>1. ASSUME NEW k \in 1 .. m
      PROVE  /\ \A x \in h[k].table.indexes : x \in h[k - 1].table.indexes \/ x \in IndexesMade(p)
             /\ \A x : o[k] = DropIndex(x) => x \notin h[k].table.indexes
  <2> DEFINE run == h[k - 1]
             op == o[k]
  <2>1. h[k] = Perform(run, op) /\ Perform(run, op).ok /\ IsUp(op, p, policy) /\ IsTable(run.table)
    BY <1>m DEF UpWalk, TableBetween
  <2>2. run = h[k - 1] /\ op = o[k]
    OBVIOUS
  <2> HIDE DEF run, op
  <2>3. /\ \A x \in Perform(run, op).table.indexes : x \in run.table.indexes \/ x \in IndexesMade(p)
        /\ \A x : op = DropIndex(x) => x \notin Perform(run, op).table.indexes
    BY <2>1, UpIndexEffect
  <2>. QED
    BY <2>1, <2>2, <2>3
<1>2. ASSUME NEW x, NEW q \in 0 .. m, x \notin h[q].table.indexes, x \notin IndexesMade(p)
      PROVE  x \notin h[m].table.indexes
  <2> DEFINE S == {k \in 0 .. m : x \notin h[k].table.indexes}
  <2>1. ASSUME NEW k \in q + 1 .. m, k - 1 \in S PROVE k \in S
    <3>1. k \in 1 .. m
      OBVIOUS
    <3>. QED
      BY <1>1, <1>2, <1>m, <2>1, <3>1
  <2>2. q .. m \subseteq S
    <3>1. q \in S
      BY <1>2
    <3> HIDE DEF S
    <3>. QED
      BY <2>1, <3>1, Steady
  <2>3. m \in q .. m
    OBVIOUS
  <2>. QED
    BY <2>2, <2>3
<1>3. ASSUME NEW x \in IndexesRemoved(p) PROVE \E q \in 0 .. m : x \notin h[q].table.indexes
  <2> DEFINE a == <<DropIndex(x)>>
  <2>1. a \in UpSet(p, policy)
    <3>1. Step(a, CreateIndex(x)) \in StepSet(p, policy) /\ Step(a, CreateIndex(x)).up = a
      BY <1>3 DEF StepSet, Step
    <3>. QED
      BY <3>1 DEF UpSet
  <2>2. Len(a) = 1 /\ a[1] = DropIndex(x)
    BY SingleIs
  <2>3. 1 \in 1 .. Len(a)
    BY <2>2
  <2>4. PICK q \in 1 .. m : o[q] = DropIndex(x)
    <3> HIDE DEF a
    <3>1. \E k \in 1 .. m : o[k] = a[1]
      BY <2>1, <2>3, UpReached
    <3>. QED
      BY <2>2, <3>1
  <2>. QED
    BY <1>1, <1>m, <2>4
<1>4. 0 \in 0 .. m
  OBVIOUS
<1>. QED
  BY <1>2, <1>3, <1>4

\* an index is on columns of its definition
Located(d) == \A x \in d.indexes : x.columns \subseteq Names(d)

LEMMA ValidLocated ==
    ASSUME NEW d, Valid(d)
    PROVE  Located(d)
<1>1. \A x \in d.indexes : x.columns \subseteq ColumnsOf(d)
  BY DEF Valid
<1>2. ColumnsOf(d) \subseteq Names(d)
  BY DEF ColumnsOf, Names
<1>. QED
  BY <1>1, <1>2 DEF Located

LEMMA IndexesAre ==
    ASSUME NEW p, Removed(p) = {}, Located(p.old)
    PROVE  /\ IndexesBefore(p) = IndexesOf(p.old)
           /\ \A x \in IndexesBefore(p) : x.columns \subseteq Names(p.old)
           /\ IndexesOf(p.new) = IndexesAfter(p) \cup FieldIndexes(Added(p))
           /\ \A x \in FieldIndexes(Added(p)) : ~(x.columns \subseteq Names(p.old))
<1>1. ASSUME NEW f \in p.old.fields PROVE \E c \in Pairs(p) : c[1] = f
  <2>1. f.name \in Names(p.new)
    BY DEF Removed
  <2>2. PICK g \in p.new.fields : g.name = f.name
    BY <2>1 DEF Names
  <2>3. <<f, g>> \in Pairs(p) /\ <<f, g>>[1] = f
    BY <2>2 DEF Pairs
  <2>. QED
    BY <2>3
<1>2. \A c \in Pairs(p) : c[1] \in p.old.fields /\ c[2] \in p.new.fields /\ c[1].name = c[2].name
  BY DEF Pairs
<1>3. {c[1] : c \in Pairs(p)} = p.old.fields
  BY <1>1, <1>2
<1>4. IndexesBefore(p) = IndexesOf(p.old)
  BY <1>3 DEF IndexesBefore, IndexesOf
<1>5. \A f : FieldIndex(f).columns = {f.name}
  BY DEF FieldIndex, Index
<1>6. \A x \in IndexesBefore(p) : x.columns \subseteq Names(p.old)
  <2>1. \A x \in FieldIndexes(p.old.fields) : x.columns \subseteq Names(p.old)
    BY <1>5 DEF FieldIndexes, Names
  <2>. QED
    BY <1>4, <2>1 DEF IndexesOf, Located
<1>7. p.new.fields = {c[2] : c \in Pairs(p)} \cup Added(p)
  <2>1. ASSUME NEW g \in p.new.fields, g \notin Added(p) PROVE \E c \in Pairs(p) : c[2] = g
    <3>1. g.name \in Names(p.old)
      BY <2>1 DEF Added
    <3>2. PICK f \in p.old.fields : f.name = g.name /\ <<f, g>> \in Pairs(p)
      BY <3>1, PairOf
    <3>3. <<f, g>>[2] = g
      OBVIOUS
    <3>. QED
      BY <3>2, <3>3
  <2>2. Added(p) \subseteq p.new.fields
    BY DEF Added
  <2>. QED
    BY <1>2, <2>1, <2>2
<1>8. FieldIndexes(p.new.fields) = FieldIndexes({c[2] : c \in Pairs(p)}) \cup FieldIndexes(Added(p))
  BY <1>7 DEF FieldIndexes
<1>9. \A x \in FieldIndexes(Added(p)) : ~(x.columns \subseteq Names(p.old))
  BY <1>5 DEF FieldIndexes, Added
<1>. QED
  BY <1>4, <1>6, <1>8, <1>9 DEF IndexesOf, IndexesAfter

LEMMA UpKeepsIndexes ==
    ASSUME NEW p, Removed(p) = {}, Located(p.old), NEW policy, NEW rs, NEW m \in Nat, NEW h, NEW o,
           UpWalk(p, policy, rs, m, h, o), h[0].table.indexes \subseteq IndexesOf(p.old)
    PROVE  h[m].table.indexes \subseteq IndexesOf(p.new)
<1> SUFFICES ASSUME NEW x \in h[m].table.indexes PROVE x \in IndexesOf(p.new)
  OBVIOUS
<1>1. x \in h[0].table.indexes \/ x \in IndexesMade(p)
  BY UpIndexes
<1>2. x \in IndexesRemoved(p) => x \in IndexesMade(p)
  BY UpIndexes
<1>3. IndexesBefore(p) = IndexesOf(p.old) /\ IndexesOf(p.new) = IndexesAfter(p) \cup FieldIndexes(Added(p))
  BY IndexesAre
<1>. QED
  BY <1>1, <1>2, <1>3 DEF IndexesMade, IndexesAdded, IndexesRemoved

-----------------------------------------------------------------------------
(* A downgrade                                                             *)
IsDown(o, p) ==
    \/ o.op \in {"drop_index", "drop_fk"}
    \/ o.op = "add_index" /\ o.index \in IndexesRemoved(p)
    \/ o.op = "drop_unique" /\ o.columns \in UniquesAdded(p)
    \/ \E f \in Added(p) : o = DropField(f)
    \/ \E c \in Redefaulted(p) : o = SetDefault(c[1])
    \/ o = Raise

LEMMA GroupsDown ==
    ASSUME NEW p, NEW policy, NEW g \in DownSet(p, policy)
    PROVE  Len(g) = 1 /\ IsDown(g[1], p)
<1>1. PICK s \in StepSet(p, policy) : g = <<s.down>>
  BY DEF DownSet
<1>2. Len(g) = 1 /\ g[1] = s.down
  BY <1>1, SingleIs
<1>3. CASE \E x \in IndexesRemoved(p) : s = Step(<<DropIndex(x)>>, CreateIndex(x))
  BY <1>2, <1>3 DEF Step, CreateIndex, IsDown
<1>4. CASE \E f \in Added(p) : s = Step(AdditionOf(f, policy), DropField(f))
  BY <1>2, <1>4 DEF Step, IsDown
<1>5. CASE \E c \in Retyped(p) \cup Enums(p) : s = Step(<<AlterType(c[2])>>, Raise)
  BY <1>2, <1>5 DEF Step, IsDown
<1>6. CASE \E c \in Redefaulted(p) : s = Step(<<SetDefault(c[2])>>, SetDefault(c[1]))
  BY <1>2, <1>6 DEF Step, IsDown
<1>7. CASE \E c \in Referring(p) : s = Step(<<AddReference(c[2])>>, DropReference(c[2]))
  BY <1>2, <1>7 DEF Step, DropReference, IsDown
<1>8. CASE \E x \in UniquesAdded(p) : s = Step(<<AddUnique(x)>>, DropUnique(x))
  BY <1>2, <1>8 DEF Step, DropUnique, IsDown
<1>9. CASE \E x \in IndexesAdded(p) : s = Step(<<CreateIndex(x)>>, DropIndex(x))
  BY <1>2, <1>9 DEF Step, DropIndex, IsDown
<1>. QED
  BY <1>3, <1>4, <1>5, <1>6, <1>7, <1>8, <1>9 DEF StepSet

DownRunOf(p, policy, run, last, m, h, o) ==
    /\ IsGroup(h, run, o, m) /\ h[m] = last
    /\ \A k \in 1 .. m : IsDown(o[k], p)
    /\ \A s \in StepSet(p, policy) : \E k \in 1 .. m : o[k] = s.down

LEMMA DownRun ==
    ASSUME NEW p, Sound(p.old), Sound(p.new), p.old # Absent, NEW policy, NEW t, NEW rs
    PROVE  \E m \in Nat : \E h, o :
              DownRunOf(p, policy, Begun(t, rs), Transaction(t, rs, DowngradeOf(Steps(p, policy))), m, h, o)
<1> DEFINE groups == DowngradeOf(Steps(p, policy))
           last == Transaction(t, rs, groups)
           S == DownSet(p, policy)
<1>1. Listed(groups, S)
  BY DownListed
<1>2. \A g \in S : Len(g) = 1 /\ IsDown(g[1], p)
  BY GroupsDown
<1>0. \A s \in StepSet(p, policy) : <<s.down>> \in S
  BY DEF DownSet
<1> HIDE DEF groups, S
<1>3. Len(groups) \in Nat /\ \A i \in 1 .. Len(groups) : groups[i] \in S
  BY <1>1 DEF Listed
<1>4. \A i \in 1 .. Len(groups) : Len(groups[i]) \in Nat
  BY <1>2, <1>3
<1>5. PICK m \in Nat : \E h, o : FlatOf(groups, Len(groups), Begun(t, rs), last, m, h, o)
  BY <1>3, <1>4, Flat
<1>6. PICK h, o : FlatOf(groups, Len(groups), Begun(t, rs), last, m, h, o)
  BY <1>5
<1>7. \A k \in 1 .. m : IsDown(o[k], p)
  <2> SUFFICES ASSUME NEW k \in 1 .. m PROVE IsDown(o[k], p)
    OBVIOUS
  <2>1. PICK i \in 1 .. Len(groups) : \E j \in 1 .. Len(groups[i]) : o[k] = groups[i][j]
    BY <1>6 DEF FlatOf
  <2>2. groups[i] \in S /\ Len(groups[i]) = 1
    BY <1>2, <1>3
  <2>3. o[k] = groups[i][1]
    BY <2>1, <2>2
  <2>. QED
    BY <1>2, <2>2, <2>3
<1>8. ASSUME NEW s \in StepSet(p, policy) PROVE \E k \in 1 .. m : o[k] = s.down
  <2>1. PICK i \in 1 .. Len(groups) : groups[i] = <<s.down>>
    BY <1>0, <1>1 DEF Listed
  <2>2. Len(groups[i]) = 1 /\ groups[i][1] = s.down
    BY <2>1, SingleIs
  <2>3. PICK b \in 0 .. m : b + Len(groups[i]) <= m /\ \A j \in 1 .. Len(groups[i]) : o[b + j] = groups[i][j]
    BY <1>6 DEF FlatOf
  <2>4. b + 1 \in 1 .. m /\ o[b + 1] = s.down
    BY <2>2, <2>3
  <2>. QED
    BY <2>4
<1>9. IsGroup(h, Begun(t, rs), o, m) /\ h[m] = last
  BY <1>6 DEF FlatOf
<1>10. DownRunOf(p, policy, Begun(t, rs), last, m, h, o)
  BY <1>7, <1>8, <1>9 DEF DownRunOf
<1>11. last = Transaction(t, rs, DowngradeOf(Steps(p, policy)))
  BY DEF groups
<1> HIDE DEF last
<1>. QED
  BY <1>10, <1>11

\* what one operation of a downgrade does
DownColumn(p, c, e) ==
    /\ e.name = c.name /\ e.type = c.type /\ e.nullable = c.nullable
    /\ e.default = c.default \/ \E pr \in Redefaulted(p) : pr[1].name = c.name /\ c.default = pr[1].default
DownEffect(p, t, u) ==
    /\ IsTable(u) /\ u.exists = t.exists
    /\ \A c \in u.columns : IsColumn(c) /\ \E e \in t.columns : DownColumn(p, c, e)
    /\ \A c, e \in u.columns : c.name = e.name => c = e
    /\ \A n \in ColumnNames(t) : n \in ColumnNames(u) \/ \E f \in Added(p) : f.name = n
    /\ u.uniques \subseteq t.uniques
    /\ \A x \in t.uniques : x \in u.uniques \/ x \in UniquesAdded(p) \/ \E f \in Added(p) : f.name \in x
    /\ u.fks \subseteq t.fks
    /\ \A x \in u.indexes : x.columns \subseteq ColumnNames(u) /\ (x \in t.indexes \/ x \in IndexesRemoved(p))
\* a table as it may be on the way
WellFormed(t) ==
    /\ IsTable(t) /\ \A c \in t.columns : IsColumn(c)
    /\ \A c, e \in t.columns : c.name = e.name => c = e
    /\ \A x \in t.indexes : x.columns \subseteq ColumnNames(t)

LEMMA RowsFollow ==
    ASSUME NEW t, NEW u, NEW rs, RowsSound(t, rs), ColumnNames(u) = ColumnNames(t),
           \A c \in u.columns : \E e \in t.columns : e.name = c.name /\ e.type = c.type
    PROVE  RowsSound(u, rs)
<1>1. \A row : RowSound(t, row) => RowSound(u, row)
  BY SameRow
<1>. QED
  BY <1>1 DEF RowsSound

LEMMA DownIs ==
    ASSUME NEW p, NEW run, NEW o, Perform(run, o).ok, IsDown(o, p), WellFormed(run.table),
           RowsSound(run.table, run.rows)
    PROVE  /\ DownEffect(p, run.table, Perform(run, o).table)
           /\ RowsSound(Perform(run, o).table, Perform(run, o).rows)
<1> DEFINE t == run.table
           u == Perform(run, o).table
           rs == run.rows
           after == Perform(run, o).rows
<1>0. IsTable(t) /\ \A c \in t.columns : IsColumn(c)
  BY DEF WellFormed
<1>1. CASE \/ o.op \in {"drop_index", "drop_fk"}
           \/ o.op = "add_index" /\ o.index \in IndexesRemoved(p)
           \/ o.op = "drop_unique" /\ o.columns \in UniquesAdded(p)
  <2>1. o.op \in Quiet /\ t = run.table /\ u = Perform(run, o).table
    BY <1>1 DEF Quiet
  <2>2. o.op = "add_index" => o.index.columns \subseteq ColumnNames(t)
    BY PerformIs DEF Applicable
  <2>3. RowsSound(t, rs)
    OBVIOUS
  <2>4. QuietEffect(t, u, o) /\ after = rs
    <3> HIDE DEF t, u
    <3>. QED
      BY <1>0, <2>1, QuietOp
  <2> HIDE DEF t, u, rs, after
  <2>5. ColumnNames(u) = ColumnNames(t) /\ u.columns = t.columns
    BY <2>4 DEF QuietEffect, ColumnNames
  <2>6. \A x \in u.indexes : x.columns \subseteq ColumnNames(u) /\ (x \in t.indexes \/ x \in IndexesRemoved(p))
    BY <1>1, <2>2, <2>4, <2>5 DEF QuietEffect, WellFormed, t
  <2>7. u.uniques \subseteq t.uniques /\ \A x \in t.uniques : x \in u.uniques \/ x \in UniquesAdded(p)
    BY <1>1, <2>4 DEF QuietEffect
  <2>8. u.fks \subseteq t.fks
    BY <1>1, <2>4 DEF QuietEffect
  <2>9. DownEffect(p, t, u)
    BY <1>0, <2>4, <2>5, <2>6, <2>7, <2>8 DEF DownEffect, QuietEffect, DownColumn, WellFormed, t
  <2>10. RowsSound(u, after)
    BY <2>3, <2>4, <2>5, RowsFollow
  <2>. QED
    BY <2>9, <2>10 DEF t, u, after
<1>2. CASE \E f \in Added(p) : o = DropField(f)
  <2>1. PICK f \in Added(p) : o = DropField(f)
    BY <1>2
  <2>2. o.op = "drop_column" /\ o.name = f.name
    BY <2>1 DEF DropField
  <2>3. /\ IsTable(u) /\ u.exists = t.exists
        /\ u.columns = {c \in t.columns : c.name # o.name}
        /\ u.fks = t.fks \ {o.name}
        /\ u.uniques = {cs \in t.uniques : o.name \notin cs}
        /\ u.indexes = {x \in t.indexes : o.name \notin x.columns}
        /\ after = [i \in DOMAIN rs |-> Without(rs[i], o.name)]
    BY <1>0, <2>2, DropColumnOp
  <2>4. RowsSound(t, rs) /\ WellFormed(t)
    OBVIOUS
  <2> HIDE DEF t, u, rs, after
  <2>5. ColumnNames(u) = ColumnNames(t) \ {o.name}
    BY <2>3 DEF ColumnNames
  <2>6. DownEffect(p, t, u)
    <3>1. \A c \in u.columns : IsColumn(c) /\ \E e \in t.columns : DownColumn(p, c, e)
      BY <1>0, <2>3 DEF DownColumn
    <3>2. \A c, e \in u.columns : c.name = e.name => c = e
      BY <2>3, <2>4 DEF WellFormed
    <3>3. \A n \in ColumnNames(t) : n \in ColumnNames(u) \/ \E k \in Added(p) : k.name = n
      BY <2>2, <2>5
    <3>4. u.uniques \subseteq t.uniques
      BY <2>3
    <3>5. \A x \in t.uniques : x \in u.uniques \/ x \in UniquesAdded(p) \/ \E k \in Added(p) : k.name \in x
      BY <2>2, <2>3
    <3>6. \A x \in u.indexes : x.columns \subseteq ColumnNames(u) /\ x \in t.indexes
      BY <2>3, <2>4, <2>5 DEF WellFormed
    <3>. QED
      BY <2>3, <3>1, <3>2, <3>3, <3>4, <3>5, <3>6 DEF DownEffect
  <2>7. ASSUME NEW row, RowSound(t, row) PROVE RowSound(u, Without(row, o.name))
    <3> DEFINE w == Without(row, o.name)
    <3>1. IsFunction(w) /\ DOMAIN w = DOMAIN row \ {o.name} /\ \A n \in DOMAIN w : w[n] = row[n]
      BY DEF Without, IsFunction
    <3> HIDE DEF w
    <3>2. DOMAIN w = ColumnNames(u)
      BY <2>5, <2>7, <3>1 DEF RowSound
    <3>3. \A c \in u.columns : c.name \in DOMAIN w /\ c \in t.columns
      BY <2>3, <3>2 DEF ColumnNames
    <3>. QED
      BY <2>7, <3>1, <3>2, <3>3 DEF RowSound, w
  <2>8. RowsSound(u, after)
    <3>1. IsFunction(after) /\ DOMAIN after = DOMAIN rs /\ \A i \in DOMAIN rs : after[i] = Without(rs[i], o.name)
      BY <2>3 DEF IsFunction
    <3>. QED
      BY <2>4, <2>7, <3>1 DEF RowsSound
  <2>. QED
    BY <2>6, <2>8 DEF t, u, after
<1>3. CASE \E c \in Redefaulted(p) : o = SetDefault(c[1])
  <2>1. PICK pr \in Redefaulted(p) : o = SetDefault(pr[1])
    BY <1>3
  <2> DEFINE altered == [c \in t.columns |-> IF c.name = o.name THEN [c EXCEPT !.default = o.default] ELSE c]
  <2>2. o.op = "set_default" /\ o.name = pr[1].name /\ o.default = pr[1].default
    BY <2>1 DEF SetDefault
  <2>3. /\ SameBut(u, t) /\ after = rs
        /\ u.columns = {IF c.name = o.name THEN [c EXCEPT !.default = o.default] ELSE c : c \in t.columns}
    BY <1>0, <2>2, DefaultOp
  <2>4. u.columns = {altered[c] : c \in t.columns}
    BY <2>3
  <2>5. ASSUME NEW c \in t.columns PROVE IsColumn(altered[c]) /\ DownColumn(p, altered[c], c)
    <3>1. CASE c.name = o.name
      <4> DEFINE k == [name |-> c.name, type |-> c.type, nullable |-> c.nullable, default |-> o.default]
      <4>1. altered[c] = k
        BY <1>0, <3>1 DEF IsColumn
      <4>2. k.name = c.name /\ k.type = c.type /\ k.nullable = c.nullable /\ k.default = o.default /\ IsColumn(k)
        BY DEF IsColumn
      <4> HIDE DEF k, altered, t
      <4>. QED
        BY <2>1, <2>2, <3>1, <4>1, <4>2 DEF DownColumn
    <3>2. CASE c.name # o.name
      BY <1>0, <3>2 DEF DownColumn
    <3>. QED
      BY <3>1, <3>2
  <2>6. RowsSound(t, rs) /\ WellFormed(t)
    OBVIOUS
  <2> HIDE DEF altered, t, u, rs, after
  <2>7. \A c \in t.columns : altered[c] \in u.columns
    BY <2>4
  <2>8. ColumnNames(u) = ColumnNames(t)
    BY <2>4, <2>5, <2>7 DEF ColumnNames, DownColumn
  <2>9. \A c \in u.columns : IsColumn(c) /\ \E e \in t.columns : DownColumn(p, c, e)
    BY <2>4, <2>5
  <2>10. \A c, e \in u.columns : c.name = e.name => c = e
    BY <2>4, <2>5, <2>6 DEF DownColumn, WellFormed
  <2>11. DownEffect(p, t, u)
    BY <2>3, <2>6, <2>8, <2>9, <2>10 DEF DownEffect, SameBut, WellFormed
  <2>12. \A c \in u.columns : \E e \in t.columns : e.name = c.name /\ e.type = c.type
    BY <2>9 DEF DownColumn
  <2>13. RowsSound(u, rs)
    BY <2>6, <2>8, <2>12, RowsFollow
  <2>. QED
    BY <2>3, <2>11, <2>13 DEF t, u, after
<1>4. CASE o = Raise
  BY <1>4, PerformIs DEF Raise, Applicable
<1>. QED
  BY <1>1, <1>2, <1>3, <1>4 DEF IsDown

\* what validation says of the constraints of several columns
Composed(d) == \A cs \in d.uniques : cs \subseteq Names(d) /\ \A n : cs # {n}

LEMMA ValidComposed ==
    ASSUME NEW d, Valid(d)
    PROVE  Composed(d)
<1> SUFFICES ASSUME NEW cs \in d.uniques PROVE cs \subseteq Names(d) /\ \A n : cs # {n}
  BY DEF Composed
<1>1. Cardinality(cs) >= 2 /\ cs \subseteq ColumnsOf(d)
  BY DEF Valid
<1>2. ColumnsOf(d) \subseteq Names(d)
  BY DEF ColumnsOf, Names
<1>3. ASSUME NEW n, cs = {n} PROVE FALSE
  <2>1. Cardinality({n}) = 1
    BY FS_Singleton
  <2>. QED
    BY <1>1, <1>3, <2>1
<1>. QED
  BY <1>1, <1>2, <1>3

LEMMA UniquesApart ==
    ASSUME NEW p, Sound(p.old), Composed(p.old), Composed(p.new), NEW x \in Uniques(p.old)
    PROVE  x \subseteq Names(p.old) /\ x \notin UniquesAdded(p)
<1>1. CASE x \in p.old.uniques
  <2>1. x \subseteq Names(p.old) /\ \A n : x # {n}
    BY <1>1 DEF Composed
  <2>. QED
    BY <1>1, <2>1 DEF UniquesAdded
<1>2. CASE \E f \in p.old.fields : f.unique /\ x = {f.name}
  <2>1. PICK f \in p.old.fields : f.unique /\ x = {f.name}
    BY <1>2
  <2>2. x \subseteq Names(p.old)
    BY <2>1 DEF Names
  <2>3. x \notin p.new.uniques
    BY <2>1 DEF Composed
  <2>4. ASSUME NEW pr \in MadeUnique(p) PROVE x # {pr[1].name}
    <3>1. pr[1] \in p.old.fields /\ ~pr[1].unique
      BY DEF MadeUnique, Pairs
    <3>2. pr[1].name # f.name
      BY <2>1, <3>1 DEF Sound, NamedOnce
    <3>. QED
      BY <2>1, <3>2
  <2>. QED
    BY <2>2, <2>3, <2>4 DEF UniquesAdded
<1>. QED
  BY <1>1, <1>2 DEF Uniques, CreateTable

\* a table on its way back to the old definition
Back(p, g, c) ==
    /\ c.nullable = g.nullable
    /\ IF g.encrypted THEN c.type.kind \in {"str", "text"} ELSE c.type = g.type
    /\ c.default = g.default \/ \E k : <<g, k>> \in Redefaulted(p)
DownBetween(p, t) ==
    /\ WellFormed(t) /\ t.exists = TRUE
    /\ Names(p.old) \subseteq ColumnNames(t) /\ ColumnNames(t) \subseteq Names(p.new)
    /\ \A g \in p.old.fields : \A c \in t.columns : c.name = g.name => Back(p, g, c)
    /\ Uniques(p.old) \subseteq t.uniques /\ t.uniques \subseteq Uniques(p.new)
    /\ t.fks \subseteq Names(p.new)

LEMMA DownKeeps ==
    ASSUME NEW p, Sound(p.old), Composed(p.old), Composed(p.new), NEW t, DownBetween(p, t),
           NEW u, DownEffect(p, t, u)
    PROVE  DownBetween(p, u)
<1>1. ASSUME NEW g \in p.old.fields, NEW c \in u.columns, c.name = g.name PROVE Back(p, g, c)
  <2>1. PICK e \in t.columns : DownColumn(p, c, e)
    BY DEF DownEffect
  <2>2. Back(p, g, e)
    BY <1>1, <2>1 DEF DownBetween, DownColumn
  <2>3. c.default = e.default \/ c.default = g.default
    <3>1. ASSUME NEW pr \in Redefaulted(p), pr[1].name = c.name PROVE pr[1] = g
      <4>1. pr[1] \in p.old.fields
        BY DEF Redefaulted, Pairs
      <4>. QED
        BY <1>1, <3>1, <4>1 DEF Sound, NamedOnce
    <3>. QED
      BY <2>1, <3>1 DEF DownColumn
  <2>. QED
    BY <2>1, <2>2, <2>3 DEF Back, DownColumn
<1>2. Names(p.old) \subseteq ColumnNames(u)
  BY DEF DownEffect, DownBetween, Added
<1>3. ColumnNames(u) \subseteq ColumnNames(t)
  BY DEF DownEffect, DownColumn, ColumnNames
<1>4. Uniques(p.old) \subseteq u.uniques
  <2> SUFFICES ASSUME NEW x \in Uniques(p.old) PROVE x \in u.uniques
    OBVIOUS
  <2>1. x \subseteq Names(p.old) /\ x \notin UniquesAdded(p)
    BY UniquesApart
  <2>2. \A f \in Added(p) : f.name \notin x
    BY <2>1 DEF Added
  <2>. QED
    BY <2>1, <2>2 DEF DownBetween, DownEffect
<1>5. WellFormed(u)
  BY DEF DownEffect, WellFormed
<1>6. u.exists = TRUE /\ u.uniques \subseteq Uniques(p.new) /\ u.fks \subseteq Names(p.new)
  BY DEF DownEffect, DownBetween
<1>7. ColumnNames(u) \subseteq Names(p.new)
  BY <1>3 DEF DownBetween
<1>. QED
  BY <1>1, <1>2, <1>4, <1>5, <1>6, <1>7 DEF DownBetween

\* A downgrade that is carried out starts from no changed type: nothing undoes one.
DownWalk(p, policy, m, h, o) ==
    /\ \A k \in 0 .. m : DownBetween(p, h[k].table) /\ RowsSound(h[k].table, h[k].rows)
    /\ \A k \in 1 .. m : /\ h[k] = Perform(h[k - 1], o[k]) /\ h[k].ok
                         /\ DownEffect(p, h[k - 1].table, h[k].table)
    /\ \A s \in StepSet(p, policy) : \E k \in 1 .. m : o[k] = s.down

LEMMA DownTypes ==
    ASSUME NEW p, NEW policy, NEW run, NEW last, last.ok, NEW m \in Nat, NEW h, NEW o,
           DownRunOf(p, policy, run, last, m, h, o)
    PROVE  Altered(p) = {}
<1> SUFFICES ASSUME NEW c \in Altered(p) PROVE FALSE
  OBVIOUS
<1>1. Step(<<AlterType(c[2])>>, Raise) \in StepSet(p, policy) /\ Step(<<AlterType(c[2])>>, Raise).down = Raise
  BY DEF Altered, StepSet, Step
<1>2. PICK k \in 1 .. m : o[k] = Raise
  BY <1>1 DEF DownRunOf
<1>3. IsGroup(h, run, o, m) /\ h[m] = last
  BY DEF DownRunOf
<1>4. h[k].ok
  BY <1>3, GroupOk
<1>5. Perform(h[k - 1], Raise).ok
  BY <1>2, <1>3, <1>4 DEF IsGroup
<1>6. Applicable(h[k - 1].table, h[k - 1].rows, Raise)
  BY <1>5, PerformIs
<1>. QED
  BY <1>6 DEF Applicable, Raise

LEMMA DownStarts ==
    ASSUME NEW p, Sound(p.old), Sound(p.new), Supported(p), Altered(p) = {}, NEW t, Follows(p.new, t)
    PROVE  DownBetween(p, t)
<1>1. ASSUME NEW f \in p.old.fields, NEW c \in t.columns, c.name = f.name PROVE Back(p, f, c)
  <2>1. f.name \in Names(p.new)
    BY NamesStay DEF Names
  <2>2. PICK g \in p.new.fields : g.name = f.name
    BY <2>1 DEF Names
  <2> DEFINE pr == <<f, g>>
  <2>3. pr \in Pairs(p) /\ pr[1] = f /\ pr[2] = g
    BY <2>2 DEF Pairs
  <2> HIDE DEF pr
  <2>4. Matches(g, c)
    BY <1>1, <2>2 DEF Follows
  <2>5. f.nullable = g.nullable /\ f.encrypted = g.encrypted
    BY <2>3 DEF Supported
  <2>6. f.type = g.type
    BY <2>3 DEF Altered, Retyped, Enums
  <2>7. f.default = g.default \/ pr \in Redefaulted(p)
    BY <2>3 DEF Redefaulted
  <2>8. c.default = f.default \/ \E k : <<f, k>> \in Redefaulted(p)
    BY <2>4, <2>7 DEF Matches, pr
  <2>. QED
    BY <2>4, <2>5, <2>6, <2>8 DEF Matches, Back
<1>2. Names(p.old) \subseteq Names(p.new)
  BY NamesStay
<1>3. Uniques(p.old) \subseteq Uniques(p.new)
  <2>1. ASSUME NEW f \in p.old.fields, f.unique PROVE {f.name} \in Uniques(p.new)
    <3>1. PICK g \in p.new.fields : g.name = f.name
      BY <1>2 DEF Names
    <3>2. <<f, g>> \in Pairs(p) /\ <<f, g>>[1] = f /\ <<f, g>>[2] = g
      BY <3>1 DEF Pairs
    <3>3. g.unique
      BY <2>1, <3>2 DEF Supported
    <3>. QED
      BY <3>1, <3>3 DEF Uniques, CreateTable
  <2>2. p.old.uniques \subseteq Uniques(p.new)
    BY DEF Supported, Uniques, CreateTable
  <2>. QED
    BY <2>1, <2>2 DEF Uniques, CreateTable
<1>4. WellFormed(t)
  BY DEF Follows, WellFormed
<1>. QED
  BY <1>1, <1>2, <1>3, <1>4 DEF DownBetween, Follows

LEMMA DownWalked ==
    ASSUME NEW p, Sound(p.old), Sound(p.new), Composed(p.old), Composed(p.new), Supported(p), NEW policy,
           NEW t, NEW rs, Follows(p.new, t), RowsSound(t, rs),
           NEW m \in Nat, NEW h, NEW o, NEW last, last.ok, DownRunOf(p, policy, Begun(t, rs), last, m, h, o)
    PROVE  DownWalk(p, policy, m, h, o)
<1> DEFINE S == {k \in 0 .. m : DownBetween(p, h[k].table) /\ RowsSound(h[k].table, h[k].rows)}
<1>1. /\ IsGroup(h, Begun(t, rs), o, m) /\ h[m] = last /\ \A k \in 1 .. m : IsDown(o[k], p)
      /\ \A s \in StepSet(p, policy) : \E k \in 1 .. m : o[k] = s.down
  BY DEF DownRunOf
<1>2. \A k \in 0 .. m : h[k].ok
  BY <1>1, GroupOk
<1>3. 0 \in S
  <2>1. h[0] = Begun(t, rs) /\ 0 \in 0 .. m
    BY <1>1 DEF IsGroup
  <2>2. Begun(t, rs).table = t /\ Begun(t, rs).rows = rs
    BY DEF Begun
  <2>3. DownBetween(p, t)
    BY DownTypes, DownStarts
  <2>. QED
    BY <2>1, <2>2, <2>3
<1>4. \A k \in 1 .. m : h[k] = Perform(h[k - 1], o[k])
  BY <1>1 DEF IsGroup
<1>5. ASSUME NEW k \in 1 .. m, k - 1 \in S
      PROVE  k \in S /\ DownEffect(p, h[k - 1].table, h[k].table)
  <2> DEFINE run == h[k - 1]
  <2>1. DownBetween(p, run.table) /\ RowsSound(run.table, run.rows) /\ k \in 0 .. m
    BY <1>5
  <2>2. h[k] = Perform(run, o[k]) /\ Perform(run, o[k]).ok /\ IsDown(o[k], p)
    BY <1>1, <1>2, <1>4, <2>1
  <2>3. WellFormed(run.table)
    BY <2>1 DEF DownBetween
  <2> HIDE DEF run
  <2>4. DownEffect(p, run.table, Perform(run, o[k]).table)
    BY <2>1, <2>2, <2>3, DownIs
  <2>5. RowsSound(Perform(run, o[k]).table, Perform(run, o[k]).rows)
    BY <2>1, <2>2, <2>3, DownIs
  <2>6. DownBetween(p, Perform(run, o[k]).table)
    BY <2>1, <2>4, DownKeeps
  <2>. QED
    BY <2>1, <2>2, <2>4, <2>5, <2>6 DEF run
<1>6. 0 .. m \subseteq S
  <2> HIDE DEF S
  <2>1. 0 \in 0 .. m /\ 0 + 1 = 1
    OBVIOUS
  <2>2. \A k \in 0 + 1 .. m : k - 1 \in S => k \in S
    BY <1>5, <2>1
  <2>. QED
    BY <1>3, <2>1, <2>2, Steady
<1>7. \A k \in 1 .. m : k \in 0 .. m /\ k - 1 \in 0 .. m
  OBVIOUS
<1>8. \A k \in 1 .. m : DownEffect(p, h[k - 1].table, h[k].table)
  <2> HIDE DEF S
  <2>. QED
    BY <1>5, <1>6, <1>7
<1>9. \A k \in 0 .. m : DownBetween(p, h[k].table) /\ RowsSound(h[k].table, h[k].rows)
  BY <1>6
<1>10. \A k \in 1 .. m : h[k].ok
  BY <1>2, <1>7
<1>. QED
  BY <1>1, <1>4, <1>8, <1>9, <1>10 DEF DownWalk

\* what an operation of the downgrade has made so holds at its end
LEMMA DownDropped ==
    ASSUME NEW p, NEW policy, NEW m \in Nat, NEW h, NEW o, DownWalk(p, policy, m, h, o), NEW f \in Added(p)
    PROVE  /\ f.name \notin ColumnNames(h[m].table) /\ f.name \notin h[m].table.fks
           /\ \A x \in h[m].table.uniques : f.name \notin x
<1> DEFINE S == {k \in 0 .. m : /\ f.name \notin ColumnNames(h[k].table) /\ f.name \notin h[k].table.fks
                                /\ \A x \in h[k].table.uniques : f.name \notin x}
<1>m. \A k \in 1 .. m : k \in 0 .. m /\ k - 1 \in 0 .. m
  OBVIOUS
<1>1. PICK q \in 1 .. m : o[q] = DropField(f)
  <2>1. /\ Step(AdditionOf(f, policy), DropField(f)) \in StepSet(p, policy)
        /\ Step(AdditionOf(f, policy), DropField(f)).down = DropField(f)
    BY DEF StepSet, Step
  <2>. QED
    BY <2>1 DEF DownWalk
<1>2. q \in S
  <2> DEFINE run == h[q - 1]
             op == o[q]
  <2>1. h[q] = Perform(run, op) /\ Perform(run, op).ok /\ IsTable(run.table)
    <3>1. h[q] = Perform(h[q - 1], o[q]) /\ h[q].ok
      BY DEF DownWalk
    <3>2. DownBetween(p, h[q - 1].table)
      BY <1>m DEF DownWalk
    <3>. QED
      BY <3>1, <3>2 DEF DownBetween, WellFormed
  <2>2. op.op = "drop_column" /\ op.name = f.name
    BY <1>1 DEF DropField
  <2> HIDE DEF run, op
  <2>3. /\ IsTable(Perform(run, op).table) /\ Perform(run, op).table.exists = run.table.exists
        /\ Perform(run, op).table.columns = {c \in run.table.columns : c.name # op.name}
        /\ Perform(run, op).table.fks = run.table.fks \ {op.name}
        /\ Perform(run, op).table.uniques = {cs \in run.table.uniques : op.name \notin cs}
        /\ Perform(run, op).table.indexes = {x \in run.table.indexes : op.name \notin x.columns}
        /\ Perform(run, op).rows = [i \in DOMAIN run.rows |-> Without(run.rows[i], op.name)]
    <3>1. Perform(run, op).ok /\ op.op = "drop_column" /\ IsTable(run.table)
      BY <2>1, <2>2
    <3>. QED
      BY <3>1, DropColumnOp
  <2>4. /\ f.name \notin ColumnNames(h[q].table) /\ f.name \notin h[q].table.fks
        /\ \A x \in h[q].table.uniques : f.name \notin x
    BY <2>1, <2>2, <2>3 DEF ColumnNames
  <2>. QED
    BY <1>m, <2>4
<1>3. ASSUME NEW k \in q + 1 .. m, k - 1 \in S PROVE k \in S
  <2>1. k \in 1 .. m
    OBVIOUS
  <2>2. DownEffect(p, h[k - 1].table, h[k].table)
    BY <2>1 DEF DownWalk
  <2>3. ColumnNames(h[k].table) \subseteq ColumnNames(h[k - 1].table)
    BY <2>2 DEF DownEffect, DownColumn, ColumnNames
  <2>4. h[k].table.fks \subseteq h[k - 1].table.fks /\ h[k].table.uniques \subseteq h[k - 1].table.uniques
    BY <2>2 DEF DownEffect
  <2>. QED
    BY <1>3, <1>m, <2>1, <2>3, <2>4
<1>4. q .. m \subseteq S
  <2> HIDE DEF S
  <2>1. q \in 0 .. m
    BY <1>m
  <2>. QED
    BY <1>2, <1>3, <2>1, Steady
<1>5. m \in q .. m
  OBVIOUS
<1>6. m \in S
  <2> HIDE DEF S
  <2>. QED
    BY <1>4, <1>5
<1>. QED
  BY <1>6

LEMMA DownUnique ==
    ASSUME NEW p, NEW policy, NEW m \in Nat, NEW h, NEW o, DownWalk(p, policy, m, h, o), NEW x \in UniquesAdded(p)
    PROVE  x \notin h[m].table.uniques
<1> DEFINE S == {k \in 0 .. m : x \notin h[k].table.uniques}
<1>m. \A k \in 1 .. m : k \in 0 .. m /\ k - 1 \in 0 .. m
  OBVIOUS
<1>1. PICK q \in 1 .. m : o[q] = DropUnique(x)
  <2>1. /\ Step(<<AddUnique(x)>>, DropUnique(x)) \in StepSet(p, policy)
        /\ Step(<<AddUnique(x)>>, DropUnique(x)).down = DropUnique(x)
    BY DEF StepSet, Step
  <2>. QED
    BY <2>1 DEF DownWalk
<1>2. q \in S
  <2> DEFINE run == h[q - 1]
             op == o[q]
             t == run.table
             u == Perform(run, op).table
  <2>1. h[q] = Perform(run, op) /\ Perform(run, op).ok /\ IsTable(run.table)
    <3>1. h[q] = Perform(h[q - 1], o[q]) /\ h[q].ok
      BY DEF DownWalk
    <3>2. DownBetween(p, h[q - 1].table)
      BY <1>m DEF DownWalk
    <3>. QED
      BY <3>1, <3>2 DEF DownBetween, WellFormed
  <2>2. op.op = "drop_unique" /\ op.columns = x /\ op.op \in Quiet
    BY <1>1 DEF DropUnique, Quiet
  <2>3. t = run.table /\ u = Perform(run, op).table
    OBVIOUS
  <2> HIDE DEF run, op, t, u
  <2>4. QuietEffect(t, u, op)
    BY <2>1, <2>2, <2>3, QuietOp
  <2>5. x \notin u.uniques
    BY <2>2, <2>4 DEF QuietEffect
  <2>. QED
    BY <1>m, <2>1, <2>3, <2>5
<1>3. ASSUME NEW k \in q + 1 .. m, k - 1 \in S PROVE k \in S
  <2>1. k \in 1 .. m
    OBVIOUS
  <2>2. h[k].table.uniques \subseteq h[k - 1].table.uniques
    BY <2>1 DEF DownWalk, DownEffect
  <2>. QED
    BY <1>3, <1>m, <2>1, <2>2
<1>4. q .. m \subseteq S
  <2> HIDE DEF S
  <2>1. q \in 0 .. m
    BY <1>m
  <2>. QED
    BY <1>2, <1>3, <2>1, Steady
<1>5. m \in q .. m
  OBVIOUS
<1>6. m \in S
  <2> HIDE DEF S
  <2>. QED
    BY <1>4, <1>5
<1>. QED
  BY <1>6

LEMMA DownDefault ==
    ASSUME NEW p, Sound(p.old), NEW policy, NEW m \in Nat, NEW h, NEW o, DownWalk(p, policy, m, h, o),
           NEW pr \in Redefaulted(p)
    PROVE  \A c \in h[m].table.columns : c.name = pr[1].name => c.default = pr[1].default
<1> DEFINE g == pr[1]
           S == {k \in 0 .. m : \A c \in h[k].table.columns : c.name = g.name => c.default = g.default}
<1>m. \A k \in 1 .. m : k \in 0 .. m /\ k - 1 \in 0 .. m
  OBVIOUS
<1>0. g \in p.old.fields
  BY DEF Redefaulted, Pairs
<1>1. PICK q \in 1 .. m : o[q] = SetDefault(g)
  <2>1. /\ Step(<<SetDefault(pr[2])>>, SetDefault(g)) \in StepSet(p, policy)
        /\ Step(<<SetDefault(pr[2])>>, SetDefault(g)).down = SetDefault(g)
    BY DEF StepSet, Step
  <2>. QED
    BY <2>1 DEF DownWalk
<1> HIDE DEF g
<1>2. q \in S
  <2> DEFINE run == h[q - 1]
             op == o[q]
  <2>1. /\ h[q] = Perform(run, op) /\ Perform(run, op).ok /\ IsTable(run.table)
        /\ \A c \in run.table.columns : IsColumn(c)
    <3>1. h[q] = Perform(h[q - 1], o[q]) /\ h[q].ok
      BY DEF DownWalk
    <3>2. DownBetween(p, h[q - 1].table)
      BY <1>m DEF DownWalk
    <3>. QED
      BY <3>1, <3>2 DEF DownBetween, WellFormed
  <2>2. op.op = "set_default" /\ op.name = g.name /\ op.default = g.default
    BY <1>1 DEF SetDefault
  <2> HIDE DEF run, op
  <2>4. Perform(run, op).table.columns =
           {IF c.name = op.name THEN [c EXCEPT !.default = op.default] ELSE c : c \in run.table.columns}
    BY <2>1, <2>2, DefaultOp
  <2>6. ASSUME NEW c \in h[q].table.columns, c.name = g.name PROVE c.default = g.default
    <3>1. PICK e \in run.table.columns : c = IF e.name = op.name THEN [e EXCEPT !.default = op.default] ELSE e
      BY <2>1, <2>4, <2>6
    <3>2. e = [name |-> e.name, type |-> e.type, nullable |-> e.nullable, default |-> e.default]
      BY <2>1 DEF IsColumn
    <3>3. CASE e.name = op.name
      BY <2>2, <3>1, <3>2, <3>3
    <3>4. CASE e.name # op.name
      BY <2>2, <2>6, <3>1, <3>4
    <3>. QED
      BY <3>3, <3>4
  <2>. QED
    BY <1>m, <2>6
<1>3. ASSUME NEW k \in q + 1 .. m, k - 1 \in S PROVE k \in S
  <2>1. k \in 1 .. m
    OBVIOUS
  <2>2. DownEffect(p, h[k - 1].table, h[k].table)
    BY <2>1 DEF DownWalk
  <2>3. ASSUME NEW c \in h[k].table.columns, c.name = g.name PROVE c.default = g.default
    <3>1. PICK e \in h[k - 1].table.columns : DownColumn(p, c, e)
      BY <2>2, <2>3 DEF DownEffect
    <3>2. e.default = g.default
      BY <1>3, <2>3, <3>1 DEF DownColumn
    <3>3. ASSUME NEW r \in Redefaulted(p), r[1].name = c.name PROVE r[1] = g
      <4>1. r[1] \in p.old.fields
        BY DEF Redefaulted, Pairs
      <4>. QED
        BY <1>0, <2>3, <3>3, <4>1 DEF Sound, NamedOnce
    <3>. QED
      BY <3>1, <3>2, <3>3 DEF DownColumn
  <2>. QED
    BY <1>m, <2>1, <2>3
<1>4. q .. m \subseteq S
  <2> HIDE DEF S
  <2>1. q \in 0 .. m
    BY <1>m
  <2>. QED
    BY <1>2, <1>3, <2>1, Steady
<1>5. m \in q .. m
  OBVIOUS
<1>. QED
  BY <1>4, <1>5 DEF g

LEMMA DownFollows ==
    ASSUME NEW p, Sound(p.old), Sound(p.new), Composed(p.old), Composed(p.new), Supported(p), NEW policy,
           NEW m \in Nat, NEW h, NEW o, DownWalk(p, policy, m, h, o)
    PROVE  Follows(p.old, h[m].table)
<1> DEFINE t == h[m].table
<1>1. DownBetween(p, t)
  <2>1. m \in 0 .. m
    OBVIOUS
  <2>. QED
    BY <2>1 DEF DownWalk
<1>2. ColumnNames(t) = Names(p.old)
  <2>1. ASSUME NEW n \in ColumnNames(t) PROVE n \in Names(p.old)
    <3>1. PICK g \in p.new.fields : g.name = n
      BY <1>1, <2>1 DEF DownBetween, Names
    <3>2. g \notin Added(p)
      BY <2>1, <3>1, DownDropped
    <3>. QED
      BY <3>1, <3>2 DEF Added
  <2>. QED
    BY <1>1, <2>1 DEF DownBetween
<1>3. ASSUME NEW g \in p.old.fields, NEW c \in t.columns, c.name = g.name PROVE Matches(g, c)
  <2>1. Back(p, g, c)
    BY <1>1, <1>3 DEF DownBetween
  <2>2. c.default = g.default
    <3>1. ASSUME NEW k, <<g, k>> \in Redefaulted(p) PROVE c.default = g.default
      <4> DEFINE pr == <<g, k>>
      <4>1. pr \in Redefaulted(p) /\ pr[1] = g
        BY <3>1
      <4> HIDE DEF pr
      <4>. QED
        BY <1>3, <4>1, DownDefault
    <3>. QED
      BY <2>1, <3>1 DEF Back
  <2>. QED
    BY <2>1, <2>2 DEF Back, Matches
<1>4. t.uniques \subseteq Uniques(p.old)
  <2> SUFFICES ASSUME NEW x \in t.uniques PROVE x \in Uniques(p.old)
    OBVIOUS
  <2>1. x \in Uniques(p.new) /\ x \notin UniquesAdded(p)
    BY <1>1, DownUnique DEF DownBetween
  <2>2. CASE x \in p.new.uniques
    BY <2>1, <2>2 DEF UniquesAdded, Uniques, CreateTable
  <2>3. CASE \E g \in p.new.fields : g.unique /\ x = {g.name}
    <3>1. PICK g \in p.new.fields : g.unique /\ x = {g.name}
      BY <2>3
    <3>2. g \notin Added(p)
      BY <3>1, DownDropped
    <3>3. g.name \in Names(p.old)
      BY <3>2 DEF Added
    <3>4. PICK f \in p.old.fields : f.name = g.name /\ <<f, g>> \in Pairs(p)
      BY <3>3, PairOf
    <3> DEFINE pr == <<f, g>>
    <3>5. pr \in Pairs(p) /\ pr[1] = f /\ pr[2] = g
      BY <3>4
    <3> HIDE DEF pr
    <3>6. f.unique
      <4> SUFFICES ASSUME ~f.unique PROVE FALSE
        OBVIOUS
      <4>1. pr \in MadeUnique(p)
        BY <3>1, <3>5 DEF MadeUnique
      <4>2. {f.name} \in UniquesAdded(p)
        BY <3>5, <4>1 DEF UniquesAdded
      <4>. QED
        BY <2>1, <3>1, <3>4, <4>2
    <3>. QED
      BY <3>1, <3>4, <3>6 DEF Uniques, CreateTable
  <2>. QED
    BY <2>1, <2>2, <2>3 DEF Uniques, CreateTable
<1>5. t.fks \subseteq Names(p.old)
  <2> SUFFICES ASSUME NEW n \in t.fks PROVE n \in Names(p.old)
    OBVIOUS
  <2>1. PICK g \in p.new.fields : g.name = n
    BY <1>1 DEF DownBetween, Names
  <2>2. g \notin Added(p)
    BY <2>1, DownDropped
  <2>. QED
    BY <2>1, <2>2 DEF Added
<1> HIDE DEF t
<1>6. t.uniques = Uniques(p.old)
  BY <1>1, <1>4 DEF DownBetween
<1>7. Follows(p.old, t)
  BY <1>1, <1>2, <1>3, <1>5, <1>6 DEF Follows, DownBetween, WellFormed
<1>. QED
  BY <1>7 DEF t

LEMMA DownIndexes ==
    ASSUME NEW p, NEW policy, NEW m \in Nat, NEW h, NEW o, DownWalk(p, policy, m, h, o)
    PROVE  /\ \A x \in h[m].table.indexes : x \in h[0].table.indexes \/ x \in IndexesRemoved(p)
           /\ \A x \in IndexesAdded(p) : x \in IndexesRemoved(p) \/ x \notin h[m].table.indexes
<1>m. \A k \in 1 .. m : k \in 0 .. m /\ k - 1 \in 0 .. m
  OBVIOUS
<1>1. \A k \in 1 .. m : \A x \in h[k].table.indexes : x \in h[k - 1].table.indexes \/ x \in IndexesRemoved(p)
  BY DEF DownWalk, DownEffect
<1>2. ASSUME NEW x, NEW q \in 0 .. m, x \notin h[q].table.indexes, x \notin IndexesRemoved(p)
      PROVE  x \notin h[m].table.indexes
  <2> DEFINE S == {k \in 0 .. m : x \notin h[k].table.indexes}
  <2>1. ASSUME NEW k \in q + 1 .. m, k - 1 \in S PROVE k \in S
    <3>1. k \in 1 .. m
      OBVIOUS
    <3>. QED
      BY <1>1, <1>2, <1>m, <2>1, <3>1
  <2>2. q .. m \subseteq S
    <3>1. q \in S
      BY <1>2
    <3> HIDE DEF S
    <3>. QED
      BY <2>1, <3>1, Steady
  <2>3. m \in q .. m
    OBVIOUS
  <2>. QED
    BY <2>2, <2>3
<1>3. ASSUME NEW x \in IndexesAdded(p) PROVE \E q \in 0 .. m : x \notin h[q].table.indexes
  <2>1. PICK q \in 1 .. m : o[q] = DropIndex(x)
    <3>1. /\ Step(<<CreateIndex(x)>>, DropIndex(x)) \in StepSet(p, policy)
          /\ Step(<<CreateIndex(x)>>, DropIndex(x)).down = DropIndex(x)
      BY DEF StepSet, Step
    <3>. QED
      BY <3>1 DEF DownWalk
  <2> DEFINE run == h[q - 1]
             op == o[q]
             t == run.table
             u == Perform(run, op).table
  <2>2. h[q] = Perform(run, op) /\ Perform(run, op).ok /\ IsTable(run.table)
    <3>1. h[q] = Perform(h[q - 1], o[q]) /\ h[q].ok
      BY DEF DownWalk
    <3>2. DownBetween(p, h[q - 1].table)
      BY <1>m DEF DownWalk
    <3>. QED
      BY <3>1, <3>2 DEF DownBetween, WellFormed
  <2>3. op.op = "drop_index" /\ op.index = x /\ op.op \in Quiet
    BY <2>1 DEF DropIndex, Quiet
  <2>4. t = run.table /\ u = Perform(run, op).table
    OBVIOUS
  <2> HIDE DEF run, op, t, u
  <2>5. QuietEffect(t, u, op)
    BY <2>2, <2>3, <2>4, QuietOp
  <2>6. x \notin u.indexes
    BY <2>3, <2>5 DEF QuietEffect
  <2>. QED
    BY <1>m, <2>2, <2>4, <2>6
<1>4. 0 \in 0 .. m
  OBVIOUS
<1>. QED
  BY <1>2, <1>3, <1>4

LEMMA DownKeepsIndexes ==
    ASSUME NEW p, Removed(p) = {}, Located(p.old), NEW policy, NEW m \in Nat, NEW h, NEW o,
           DownWalk(p, policy, m, h, o), h[0].table.indexes \subseteq IndexesOf(p.new),
           Follows(p.old, h[m].table)
    PROVE  h[m].table.indexes \subseteq IndexesOf(p.old)
<1> SUFFICES ASSUME NEW x \in h[m].table.indexes PROVE x \in IndexesOf(p.old)
  OBVIOUS
<1>1. x \in h[0].table.indexes \/ x \in IndexesRemoved(p)
  BY DownIndexes
<1>2. x \in IndexesAdded(p) => x \in IndexesRemoved(p)
  BY DownIndexes
<1>3. /\ IndexesBefore(p) = IndexesOf(p.old)
      /\ IndexesOf(p.new) = IndexesAfter(p) \cup FieldIndexes(Added(p))
      /\ \A y \in FieldIndexes(Added(p)) : ~(y.columns \subseteq Names(p.old))
  BY IndexesAre
<1>4. x.columns \subseteq Names(p.old)
  BY DEF Follows
<1>. QED
  BY <1>1, <1>2, <1>3, <1>4 DEF IndexesAdded, IndexesRemoved

-----------------------------------------------------------------------------
(* The first migration creates the table                                   *)
Creating(d) == [op |-> "create_table", definition |-> d]
Dropping == [op |-> "drop_table"]

LEMMA CreatedFollows ==
    ASSUME NEW d, Sound(d), Valid(d)
    PROVE  Follows(d, CreateTable(d))
<1> DEFINE t == CreateTable(d)
<1>1. /\ IsTable(t) /\ t.exists = TRUE /\ t.columns = {Column(f) : f \in d.fields} /\ t.indexes = d.indexes
      /\ t.fks = {f.name : f \in {g \in d.fields : g.fk}} /\ t.uniques = Uniques(d)
  BY DEF CreateTable, IsTable, Uniques
<1> HIDE DEF t
<1>2. ASSUME NEW f \in d.fields
      PROVE  /\ IsColumn(Column(f)) /\ Column(f).name = f.name /\ Matches(f, Column(f))
  <2> DEFINE ty == Column(f).type
             k == [name |-> f.name, type |-> ty, nullable |-> f.nullable, default |-> f.default]
  <2>1. Column(f) = k
    BY DEF Column
  <2>2. IF f.encrypted THEN ty.kind \in {"str", "text"} ELSE ty = f.type
    <3>1. f.type \in Types
      BY DEF Sound, FieldRecords
    <3>2. [f.type EXCEPT !.kind = "text"].kind = "text"
      BY <3>1 DEF Types
    <3>. QED
      BY <3>2 DEF Column
  <2> HIDE DEF ty
  <2>3. k.name = f.name /\ k.type = ty /\ k.nullable = f.nullable /\ k.default = f.default /\ IsColumn(k)
    BY DEF IsColumn
  <2> HIDE DEF k
  <2>. QED
    BY <2>1, <2>2, <2>3 DEF Matches
<1>3. ColumnNames(t) = Names(d)
  BY <1>1, <1>2 DEF ColumnNames, Names
<1>4. \A c, e \in t.columns : c.name = e.name => c = e
  BY <1>1, <1>2 DEF Sound, NamedOnce
<1>5. \A f \in d.fields : \A c \in t.columns : c.name = f.name => Matches(f, c)
  BY <1>1, <1>2 DEF Sound, NamedOnce
<1>6. \A x \in t.indexes : x.columns \subseteq ColumnNames(t)
  <2>1. \A x \in d.indexes : x.columns \subseteq ColumnsOf(d)
    BY DEF Valid
  <2>2. ColumnsOf(d) \subseteq Names(d)
    BY DEF ColumnsOf, Names
  <2>. QED
    BY <1>1, <1>3, <2>1, <2>2
<1>7. t.fks \subseteq Names(d)
  BY <1>1 DEF Names
<1>8. \A c \in t.columns : IsColumn(c)
  BY <1>1, <1>2
<1>9. Follows(d, t)
  BY <1>1, <1>3, <1>4, <1>5, <1>6, <1>7, <1>8 DEF Follows
<1>. QED
  BY <1>9 DEF t

LEMMA FirstListed ==
    ASSUME NEW p, p.old = Absent, NEW policy, IsFiniteSet(policy.assertions)
    PROVE  /\ Listed(UpgradeOf(Steps(p, policy), policy),
                     {<<Check(a)>> : a \in policy.assertions} \cup {<<Creating(p.new)>>})
           /\ DowngradeOf(Steps(p, policy)) = <<<<Dropping>>>>
<1> DEFINE A == policy.assertions
           a == SetToSeq(A)
           ga == [x \in A |-> <<Check(x)>>]
           ta == [i \in 1 .. Len(a) |-> <<Check(a[i])>>]
           TA == {<<Check(x)>> : x \in A}
           up == <<Creating(p.new)>>
           s == Steps(p, policy)
           step == Step(up, Dropping)
<1>1. s = <<step>>
  BY DEF Steps, TableSteps, Creating, Dropping
<1>2. step.up = up /\ step.down = Dropping
  BY DEF Step
<1> HIDE DEF step, up
<1>3. [i \in 1 .. Len(s) |-> s[i].up] = <<up>> /\ [i \in 1 .. Len(s) |-> <<s[i].down>>] = <<<<Dropping>>>>
  <2>1. Len(s) = 1 /\ s[1] = step
    BY <1>1, SingleIs
  <2> HIDE DEF s
  <2>2. [i \in 1 .. Len(s) |-> s[i].up] = <<up>>
    BY <1>2, <2>1
  <2>3. [i \in 1 .. Len(s) |-> <<s[i].down>>] = <<<<Dropping>>>>
    <3> DEFINE z == <<Dropping>>
    <3>1. s[1].down = Dropping
      BY <1>2, <2>1
    <3>2. \A i \in 1 .. 1 : <<s[i].down>> = z
      BY <3>1
    <3> HIDE DEF z
    <3>3. [i \in 1 .. 1 |-> <<s[i].down>>] = [i \in 1 .. 1 |-> z]
      BY <3>2
    <3>4. [i \in 1 .. 1 |-> z] = <<z>>
      OBVIOUS
    <3>. QED
      BY <2>1, <3>3, <3>4 DEF z
  <2>. QED
    BY <2>2, <2>3
<1>4. UpgradeOf(s, policy) = ta \o <<up>>
  BY <1>3 DEF UpgradeOf, Each
<1>5. DowngradeOf(s) = Reverse(<<<<Dropping>>>>)
  BY <1>3 DEF DowngradeOf, Each
<1>6. Reverse(<<<<Dropping>>>>) = <<<<Dropping>>>>
  <2> DEFINE z == <<Dropping>>
  <2> HIDE DEF z
  <2>1. Reverse(<<z>>) = <<z>>
    <3>1. Len(<<z>>) = 1 /\ <<z>>[1] = z
      BY SingleIs
    <3>2. Reverse(<<z>>) = [i \in 1 .. Len(<<z>>) |-> <<z>>[(Len(<<z>>) - i) + 1]]
      BY DEF Reverse
    <3>3. \A i \in 1 .. 1 : <<z>>[(1 - i) + 1] = z
      BY <3>1
    <3>. QED
      BY <3>1, <3>2, <3>3
  <2>. QED
    BY <2>1 DEF z
<1>7. Listed(a, A)
  BY SetListed
<1> HIDE DEF A, a, s
<1>8. Through(ta, ga, a)
  <2>1. \A i \in 1 .. Len(a) : a[i] \in A
    BY <1>7 DEF Listed
  <2>. QED
    BY <2>1 DEF Through
<1>9. Image(ga, A, TA)
  BY DEF Image, Covers
<1> HIDE DEF ga, ta, TA
<1>10. Listed(ta, TA)
  BY <1>7, <1>8, <1>9, ListedMap
<1>11. Listed(<<up>>, {up})
  BY ListedOne
<1>12. Listed(ta \o <<up>>, TA \cup {up})
  BY <1>10, <1>11, ListedJoin
<1>13. Listed(UpgradeOf(s, policy), TA \cup {up}) /\ DowngradeOf(s) = <<<<Dropping>>>>
  BY <1>4, <1>5, <1>6, <1>12
<1>. QED
  BY <1>13 DEF TA, A, s, up

LEMMA FirstUpgrade ==
    ASSUME NEW p, p.old = Absent, NEW policy, IsFiniteSet(policy.assertions), NEW last,
           last = Transaction(NoTable, <<>>, UpgradeOf(Steps(p, policy), policy)), last.ok
    PROVE  last.table = CreateTable(p.new) /\ last.rows = <<>> /\ Holds(last.table, last.rows)
<1> DEFINE groups == UpgradeOf(Steps(p, policy), policy)
           S == {<<Check(a)>> : a \in policy.assertions} \cup {<<Creating(p.new)>>}
           create == Creating(p.new)
           IsFirst(op) == op.op = "assert" \/ op = create
<1>1. Listed(groups, S)
  BY FirstListed
<1>2. \A g \in S : Len(g) = 1 /\ IsFirst(g[1])
  <2>1. ASSUME NEW a \in policy.assertions PROVE Len(<<Check(a)>>) = 1 /\ IsFirst(<<Check(a)>>[1])
    BY SingleIs DEF Check
  <2>2. Len(<<create>>) = 1 /\ IsFirst(<<create>>[1])
    BY SingleIs
  <2>. QED
    BY <2>1, <2>2
<1>3. <<create>> \in S
  OBVIOUS
<1>0. last = Transaction(NoTable, <<>>, groups)
  OBVIOUS
<1> HIDE DEF groups, S, create
<1>4. Len(groups) \in Nat /\ \A i \in 1 .. Len(groups) : groups[i] \in S
  BY <1>1 DEF Listed
<1>5. \A i \in 1 .. Len(groups) : Len(groups[i]) \in Nat
  BY <1>2, <1>4
<1>6. PICK m \in Nat : \E h, o : FlatOf(groups, Len(groups), Begun(NoTable, <<>>), last, m, h, o)
  BY <1>0, <1>4, <1>5, Flat
<1>7. PICK h, o : FlatOf(groups, Len(groups), Begun(NoTable, <<>>), last, m, h, o)
  BY <1>6
<1>8. IsGroup(h, Begun(NoTable, <<>>), o, m) /\ h[m] = last
  BY <1>7 DEF FlatOf
<1>9. \A k \in 1 .. m : IsFirst(o[k])
  <2> SUFFICES ASSUME NEW k \in 1 .. m PROVE IsFirst(o[k])
    OBVIOUS
  <2>1. PICK i \in 1 .. Len(groups) : \E j \in 1 .. Len(groups[i]) : o[k] = groups[i][j]
    BY <1>7 DEF FlatOf
  <2>2. groups[i] \in S /\ Len(groups[i]) = 1
    BY <1>2, <1>4
  <2>3. o[k] = groups[i][1]
    BY <2>1, <2>2
  <2> HIDE DEF IsFirst
  <2>. QED
    BY <1>2, <2>2, <2>3
<1>10. PICK q \in 1 .. m : o[q] = create
  <2>1. PICK i \in 1 .. Len(groups) : groups[i] = <<create>>
    BY <1>1, <1>3 DEF Listed
  <2>2. Len(groups[i]) = 1 /\ groups[i][1] = create
    BY <2>1, SingleIs
  <2>3. PICK b \in 0 .. m : b + Len(groups[i]) <= m /\ \A j \in 1 .. Len(groups[i]) : o[b + j] = groups[i][j]
    BY <1>7 DEF FlatOf
  <2>4. b + 1 \in 1 .. m /\ o[b + 1] = create
    BY <2>2, <2>3
  <2>. QED
    BY <2>4
<1>11. \A k \in 0 .. m : h[k].ok
  BY <1>8, GroupOk
<1>m. \A k \in 1 .. m : k \in 0 .. m /\ k - 1 \in 0 .. m
  OBVIOUS
<1>12. ASSUME NEW k \in 1 .. m
       PROVE  /\ Holds(h[k].table, h[k].rows)
              /\ h[k - 1].rows = <<>> => h[k].rows = <<>>
              /\ o[k] = create => h[k].table = CreateTable(p.new)
              /\ h[k].table \in {h[k - 1].table, CreateTable(p.new)}
  <2> DEFINE run == h[k - 1]
             op == o[k]
  <2>1. h[k] = Perform(run, op) /\ Perform(run, op).ok
    BY <1>8, <1>11, <1>m DEF IsGroup
  <2>2. IsFirst(op)
    BY <1>9
  <2>6. op = o[k] /\ run = h[k - 1]
    OBVIOUS
  <2> HIDE DEF run, op
  <2>3. /\ h[k].table = Effect(run.table, run.rows, op).table /\ h[k].rows = Effect(run.table, run.rows, op).rows
        /\ Holds(h[k].table, h[k].rows)
    BY <2>1, PerformIs
  <2>4. CASE op.op = "assert"
    <3>1. h[k].table = run.table /\ h[k].rows = run.rows
      BY <2>3, <2>4 DEF Effect
    <3>2. op # create
      BY <2>4 DEF create, Creating
    <3>. QED
      BY <2>3, <2>6, <3>1, <3>2
  <2>5. CASE op = create
    <3>1. h[k].table = CreateTable(p.new) /\ h[k].rows = run.rows
      BY <2>3, <2>5 DEF Effect, create, Creating
    <3>. QED
      BY <2>3, <2>6, <3>1
  <2>. QED
    BY <2>2, <2>4, <2>5
<1> DEFINE R == {k \in 0 .. m : h[k].rows = <<>>}
           C == {k \in 0 .. m : h[k].table = CreateTable(p.new)}
<1>13. h[m].rows = <<>>
  <2>1. 0 \in R
    BY <1>8 DEF IsGroup, Begun
  <2>2. ASSUME NEW k \in 0 + 1 .. m, k - 1 \in R PROVE k \in R
    <3>1. k \in 1 .. m
      OBVIOUS
    <3>. QED
      BY <1>12, <1>m, <2>2, <3>1
  <2>3. 0 .. m \subseteq R
    <3> HIDE DEF R
    <3>1. 0 \in 0 .. m
      OBVIOUS
    <3>. QED
      BY <2>1, <2>2, <3>1, Steady
  <2>. QED
    BY <1>10, <2>3
<1>14. h[m].table = CreateTable(p.new)
  <2>1. q \in C
    BY <1>10, <1>12, <1>m
  <2>2. ASSUME NEW k \in q + 1 .. m, k - 1 \in C PROVE k \in C
    <3>1. k \in 1 .. m
      OBVIOUS
    <3>. QED
      BY <1>12, <1>m, <2>2, <3>1
  <2>3. q .. m \subseteq C
    <3> HIDE DEF C
    <3>1. q \in 0 .. m
      BY <1>m
    <3>. QED
      BY <2>1, <2>2, <3>1, Steady
  <2>. QED
    BY <1>10, <2>3
<1>15. Holds(h[m].table, h[m].rows)
  BY <1>10, <1>12
<1>. QED
  BY <1>8, <1>13, <1>14, <1>15

LEMMA FirstDowngrade ==
    ASSUME NEW t, NEW rs, NEW last, last = Transaction(t, rs, <<<<Dropping>>>>), last.ok
    PROVE  last.table = NoTable /\ last.rows = <<>>
<1> DEFINE g == <<Dropping>>
           groups == <<g>>
<1>1. Len(groups) = 1 /\ groups[1] = g
  BY SingleIs
<1>2. last = Transaction(t, rs, groups)
  OBVIOUS
<1> HIDE DEF groups
<1>3. PICK f : IsTransaction(f, Begun(t, rs), groups, 1) /\ last = f[1]
  <2>1. Len(groups) \in Nat
    BY <1>1
  <2>2. \E f : IsTransaction(f, Begun(t, rs), groups, Len(groups)) /\ Transaction(t, rs, groups) = f[Len(groups)]
    BY <2>1, TransactionIs
  <2>. QED
    BY <1>1, <1>2, <2>2
<1>4. f[0] = Begun(t, rs) /\ f[1] = Group(f[1 - 1], groups[1])
  BY <1>3 DEF IsTransaction
<1>5. last = Group(Begun(t, rs), g)
  BY <1>1, <1>3, <1>4
<1> DEFINE run == Begun(t, rs)
<1>6. last = Perform(run, Dropping)
  BY <1>5, GroupOne DEF g
<1> HIDE DEF run
<1>7. /\ last.table = Effect(run.table, run.rows, Dropping).table
      /\ last.rows = Effect(run.table, run.rows, Dropping).rows
  BY <1>6, PerformIs
<1>8. Effect(run.table, run.rows, Dropping) = [table |-> NoTable, rows |-> <<>>]
  BY DEF Effect, Dropping
<1>. QED
  BY <1>7, <1>8

-----------------------------------------------------------------------------
(* What is true of the definition in force, the table and its rows         *)
Downs == {DowngradeOf(Steps(Plan(old, new), policy)) :
              old \in Definitions \cup {Absent}, new \in Definitions, policy \in Policies}
Entries == [before : Definitions \cup {Absent}, down : Downs]

\* a migration in force, and the definition after it
Undoes(entry, after) ==
    /\ entry.before # Absent => entry.before \in Definitions /\ Valid(entry.before)
    /\ after # Absent /\ after \in Definitions /\ Valid(after)
    /\ \E policy \in Policies :
          /\ entry.before # Absent => Supported(Plan(entry.before, after))
          /\ entry.down = DowngradeOf(Steps(Plan(entry.before, after), policy))
AfterOf(k, steps, d) == IF k = Len(steps) THEN d ELSE steps[k + 1].before
InForce(steps, d) ==
    /\ steps \in Seq(Entries)
    /\ \A k \in 1 .. Len(steps) : Undoes(steps[k], AfterOf(k, steps, d)) /\ (steps[k].before = Absent => k = 1)

Served(d, t, rs) ==
    /\ d \in Definitions /\ Valid(d)
    /\ Follows(d, t) /\ t.indexes \subseteq IndexesOf(d)
    /\ RowsSound(t, rs) /\ Holds(t, rs) /\ AllDistinct(t, rs)

EvolutionInv ==
    /\ InForce(applied, definition)
    /\ definition = Absent => table = NoTable /\ rows = <<>> /\ applied = <<>>
    /\ definition # Absent => Served(definition, table, rows)

LEMMA DefinedIsNotAbsent == Absent \notin Definitions
<1> SUFFICES ASSUME Absent \in Definitions PROVE FALSE
  OBVIOUS
<1>1. Absent.options # Absent.options
  BY EvolutionAssumption
<1>. QED
  BY <1>1

LEMMA ServedIsScaled ==
    ASSUME NEW d, NEW t, NEW rs, Served(d, t, rs)
    PROVE  Scaled(d, rs)
<1> SUFFICES ASSUME NEW i \in DOMAIN rs, NEW f \in d.fields
             PROVE  Place(f.type, rs[i][f.name]) = rs[i][f.name]
  BY DEF Scaled
<1>1. PICK c \in t.columns : c.name = f.name
  <2>1. f.name \in ColumnNames(t)
    BY DEF Served, Follows, Names
  <2>. QED
    BY <2>1 DEF ColumnNames
<1>2. Matches(f, c)
  BY <1>1 DEF Served, Follows
<1>3. Place(c.type, rs[i][c.name]) = rs[i][c.name]
  BY DEF Served, RowsSound, RowSound
<1>4. CASE f.encrypted
  <2>1. f.type.kind \in {"str", "text"}
    BY <1>4 DEF Served, Valid, ValidField, ValidEncryption
  <2>. QED
    BY <2>1, PlaceText
<1>5. CASE ~f.encrypted
  <2>1. c.type = f.type
    BY <1>2, <1>5 DEF Matches
  <2>. QED
    BY <1>1, <1>3, <2>1
<1>. QED
  BY <1>4, <1>5

\* what can be stored is a value of its column
LEMMA StoredIsPlaced ==
    ASSUME NEW f, NEW c, Matches(f, c), NEW v \in Stored(f)
    PROVE  v \in Cells /\ Place(c.type, v) = v
<1>0. Values \subseteq Int /\ Envelope \in Nat
  BY EvolutionAssumption
<1>1. CASE v = Null
  BY <1>1, NullIsCell DEF Place
<1>2. CASE f.encrypted /\ \E n \in Values : v = Sealed(n)
  <2>1. PICK n \in Values : v = Sealed(n)
    BY <1>2
  <2>2. v \in Cells
    BY <1>0, <2>1 DEF Sealed, Cells
  <2>3. c.type.kind \in {"str", "text"}
    BY <1>2 DEF Matches
  <2>. QED
    BY <2>2, <2>3, PlaceText
<1>3. CASE ~f.encrypted /\ \E n \in Values : v = Place(f.type, Plain(n))
  <2>1. PICK n \in Values : v = Place(f.type, Plain(n))
    BY <1>3
  <2>2. Plain(n) \in Cells
    BY <1>0, NullIsCell
  <2>3. v \in Cells /\ Place(f.type, v) = v
    BY <2>1, <2>2, PlaceTwice
  <2>4. c.type = f.type
    BY <1>3 DEF Matches
  <2>. QED
    BY <2>3, <2>4
<1>. QED
  BY <1>1, <1>2, <1>3 DEF Stored

\* a sequence of rows grows by one
LEMMA GrownRows ==
    ASSUME NEW t, NEW rs, RowsSound(t, rs), NEW row, RowSound(t, row)
    PROVE  RowsSound(t, Append(rs, row))
<1>1. PICK k \in Nat : DOMAIN rs = 1 .. k
  BY DEF RowsSound
<1> DEFINE T == {rs[i] : i \in 1 .. k} \cup {row}
<1>2. rs \in Seq(T) /\ Len(rs) = k
  <2>1. rs = [i \in 1 .. k |-> rs[i]]
    BY <1>1 DEF RowsSound, IsFunction
  <2>2. \A i \in 1 .. k : rs[i] \in T
    OBVIOUS
  <2> HIDE DEF T
  <2>3. rs \in [1 .. k -> T]
    BY <2>1, <2>2
  <2>4. rs \in Seq(T)
    BY <2>3
  <2>5. Len(rs) = k
    BY <1>1, <2>4
  <2>. QED
    BY <2>4, <2>5
<1>3. row \in T
  OBVIOUS
<1> HIDE DEF T
<1> DEFINE after == Append(rs, row)
<1>4. /\ after \in Seq(T) /\ Len(after) = k + 1 /\ after[k + 1] = row
      /\ \A i \in 1 .. k : after[i] = rs[i]
  BY <1>2, <1>3
<1>5. DOMAIN after = 1 .. k + 1
  BY <1>4
<1>6. IsFunction(after)
  <2> HIDE DEF after
  <2>1. PICK n \in Nat : after \in [1 .. n -> T]
    BY <1>4, SeqDef
  <2>. QED
    BY <2>1 DEF IsFunction
<1> HIDE DEF after
<1>7. \A i \in 1 .. k + 1 : RowSound(t, after[i])
  <2>1. \A i \in 1 .. k : RowSound(t, rs[i])
    BY <1>1 DEF RowsSound
  <2>2. \A i \in 1 .. k + 1 : i \in 1 .. k \/ i = k + 1
    OBVIOUS
  <2>. QED
    BY <1>4, <2>1, <2>2
<1>8. RowsSound(t, after)
  BY <1>5, <1>6, <1>7 DEF RowsSound
<1>. QED
  BY <1>8 DEF after

LEMMA WrittenServed ==
    ASSUME NEW d, NEW t, NEW rs, Served(d, t, rs), NEW row,
           row \in [Names(d) -> UNION {Stored(f) : f \in d.fields}],
           \A f \in d.fields : row[f.name] \in Stored(f),
           Holds(t, Append(rs, row)), AllDistinct(t, Append(rs, row))
    PROVE  Served(d, t, Append(rs, row))
<1>1. RowSound(t, row)
  <2>1. IsFunction(row) /\ DOMAIN row = ColumnNames(t)
    BY DEF IsFunction, Served, Follows
  <2>2. ASSUME NEW c \in t.columns PROVE row[c.name] \in Cells /\ Place(c.type, row[c.name]) = row[c.name]
    <3>1. c.name \in Names(d)
      BY DEF Served, Follows, ColumnNames
    <3>2. PICK f \in d.fields : f.name = c.name
      BY <3>1 DEF Names
    <3>3. Matches(f, c)
      BY <3>2 DEF Served, Follows
    <3>4. row[c.name] \in Stored(f)
      BY <3>2
    <3>. QED
      BY <3>3, <3>4, StoredIsPlaced
  <2>. QED
    BY <2>1, <2>2 DEF RowSound
<1>2. RowsSound(t, Append(rs, row))
  BY <1>1, GrownRows DEF Served
<1>. QED
  BY <1>2 DEF Served

LEMMA LastHolds ==
    ASSUME NEW t, NEW rs, Holds(t, rs), AllDistinct(t, rs), NEW m \in Nat, NEW h, NEW o, NEW last, last.ok,
           IsGroup(h, Begun(t, rs), o, m), h[m] = last
    PROVE  Holds(last.table, last.rows) /\ AllDistinct(last.table, last.rows)
<1>1. CASE m = 0
  BY <1>1 DEF IsGroup, Begun
<1>2. CASE m # 0
  <2>1. m \in 1 .. m
    BY <1>2
  <2>2. last = Perform(h[m - 1], o[m])
    BY <2>1 DEF IsGroup
  <2> DEFINE run == h[m - 1]
             op == o[m]
  <2>3. last = Perform(run, op)
    BY <2>2
  <2> HIDE DEF run, op
  <2>4. /\ Holds(Perform(run, op).table, Perform(run, op).rows)
        /\ AllDistinct(Perform(run, op).table, Perform(run, op).rows)
    BY <2>3, PerformIs
  <2>. QED
    BY <2>3, <2>4
<1>. QED
  BY <1>1, <1>2

LEMMA ReviewedPlan ==
    ASSUME NEW p, p.old # Absent, NEW policy \in Policies, ValidPolicy(policy), Renderable(p, policy)
    PROVE  Reviews(p, policy) /\ Supported(p) /\ IsFiniteSet(policy.assertions)
<1>1. IsFiniteSet(policy.assertions) /\ \A b \in policy.backfills : b.value \in Cells
  BY EvolutionAssumption
<1>2. Supported(p)
  BY NotUnsupported DEF Renderable
<1>3. \A c \in Retyped(p) : Classify(c[1].type, c[2].type) = "SAFE_WIDENING"
  BY DEF Renderable
<1>4. \A b \in policy.backfills : ValidTransform(b)
  BY DEF ValidPolicy
<1>5. ASSUME NEW f \in Added(p), Required(f) PROVE \E b \in policy.backfills : b.target = f.name
  <2>1. {b.target : b \in policy.backfills} = {g.name : g \in {k \in Added(p) : Required(k)}}
    BY DEF Renderable
  <2>2. f.name \in {g.name : g \in {k \in Added(p) : Required(k)}}
    BY <1>5
  <2>. QED
    BY <2>1, <2>2
<1>. QED
  BY <1>1, <1>2, <1>3, <1>4, <1>5 DEF Reviews

LEMMA UpgradeServed ==
    ASSUME NEW d, NEW t, NEW rs, Served(d, t, rs), NEW new \in Definitions, Valid(new),
           NEW policy \in Policies, ValidPolicy(policy), NEW p, p = Plan(d, new), Renderable(p, policy),
           NEW last, last = Transaction(t, rs, UpgradeOf(Steps(p, policy), policy)), last.ok
    PROVE  Served(new, last.table, last.rows) /\ Kept(Names(d), rs, last.rows) /\ Supported(p)
<1>1. p.old = d /\ p.new = new
  BY DEF Plan
<1>2. p.old # Absent /\ Sound(p.old) /\ Sound(p.new)
  BY <1>1, DefinedIsNotAbsent, ValidSound DEF Served
<1>3. Reviews(p, policy) /\ Supported(p) /\ IsFiniteSet(policy.assertions)
  BY <1>2, ReviewedPlan
<1>4. PICK m \in Nat : \E h, o : UpRunOf(p, policy, Begun(t, rs), last, m, h, o)
  BY <1>2, <1>3, UpRun
<1>5. PICK h, o : UpRunOf(p, policy, Begun(t, rs), last, m, h, o)
  BY <1>4
<1>6. \A f \in p.old.fields : f.encrypted => f.type.kind \in {"str", "text"}
  BY <1>2 DEF Sound
<1>7. Follows(p.old, t) /\ RowsSound(t, rs) /\ Holds(t, rs) /\ AllDistinct(t, rs) /\ Scaled(p.old, rs)
  BY <1>1, ServedIsScaled DEF Served
<1>8. TableBetween(p, t)
  BY <1>3, <1>6, <1>7, StartBetween
<1>9. UpWalk(p, policy, rs, m, h, o)
  BY <1>2, <1>3, <1>5, <1>7, <1>8, UpWalked
<1>10. IsGroup(h, Begun(t, rs), o, m) /\ h[m] = last
  BY <1>5 DEF UpRunOf
<1>11. Follows(p.new, h[m].table)
  <2>1. h[0].table = t
    BY <1>10 DEF IsGroup, Begun
  <2>2. Follows(p.old, h[0].table)
    BY <1>7, <2>1
  <2>. QED
    BY <1>2, <1>3, <1>9, <2>2, UpFollows
<1>12. RowsSound(h[m].table, h[m].rows) /\ Kept(Names(p.old), rs, h[m].rows)
  <2>1. m \in 0 .. m
    OBVIOUS
  <2>. QED
    BY <1>9, <2>1 DEF UpWalk
<1>13. Holds(last.table, last.rows) /\ AllDistinct(last.table, last.rows)
  BY <1>7, <1>10, LastHolds
<1>15. h[m].table.indexes \subseteq IndexesOf(p.new)
  <2>1. h[0].table = t /\ t.indexes \subseteq IndexesOf(p.old)
    BY <1>1, <1>10 DEF IsGroup, Begun, Served
  <2>2. Removed(p) = {} /\ Located(p.old)
    BY <1>1, <1>3, ValidLocated DEF Supported, Served
  <2>. QED
    BY <1>9, <2>1, <2>2, UpKeepsIndexes
<1>14. Served(new, last.table, last.rows)
  BY <1>1, <1>10, <1>11, <1>12, <1>13, <1>15 DEF Served
<1>. QED
  BY <1>1, <1>3, <1>10, <1>12, <1>14

LEMMA DowngradeServed ==
    ASSUME NEW old \in Definitions, Valid(old), NEW new, NEW t, NEW rs, Served(new, t, rs),
           NEW policy, NEW p, p = Plan(old, new), Supported(p),
           NEW last, last = Transaction(t, rs, DowngradeOf(Steps(p, policy))), last.ok
    PROVE  Served(old, last.table, last.rows)
<1>1. p.old = old /\ p.new = new
  BY DEF Plan
<1>2. /\ p.old # Absent /\ Sound(p.old) /\ Sound(p.new)
      /\ Composed(p.old) /\ Composed(p.new)
  BY <1>1, DefinedIsNotAbsent, ValidSound, ValidComposed DEF Served
<1>3. PICK m \in Nat : \E h, o : DownRunOf(p, policy, Begun(t, rs), last, m, h, o)
  BY <1>2, DownRun
<1>4. PICK h, o : DownRunOf(p, policy, Begun(t, rs), last, m, h, o)
  BY <1>3
<1>5. Follows(p.new, t) /\ RowsSound(t, rs) /\ Holds(t, rs) /\ AllDistinct(t, rs)
  BY <1>1 DEF Served
<1>6. DownWalk(p, policy, m, h, o)
  BY <1>2, <1>4, <1>5, DownWalked
<1>7. IsGroup(h, Begun(t, rs), o, m) /\ h[m] = last
  BY <1>4 DEF DownRunOf
<1>8. Follows(p.old, h[m].table)
  BY <1>2, <1>6, DownFollows
<1>9. RowsSound(h[m].table, h[m].rows)
  <2>1. m \in 0 .. m
    OBVIOUS
  <2>. QED
    BY <1>6, <2>1 DEF DownWalk
<1>10. Holds(last.table, last.rows) /\ AllDistinct(last.table, last.rows)
  BY <1>5, <1>7, LastHolds
<1>11. h[m].table.indexes \subseteq IndexesOf(p.old)
  <2>1. h[0].table = t /\ t.indexes \subseteq IndexesOf(p.new)
    BY <1>1, <1>7 DEF IsGroup, Begun, Served
  <2>2. Removed(p) = {} /\ Located(p.old)
    BY <1>1, ValidLocated DEF Supported
  <2>. QED
    BY <1>6, <1>8, <2>1, <2>2, DownKeepsIndexes
<1>. QED
  BY <1>1, <1>7, <1>8, <1>9, <1>10, <1>11 DEF Served

\* the list of the migrations in force grows and shrinks at its end
LEMMA OneMoreInForce ==
    ASSUME NEW steps, NEW d, InForce(steps, d), NEW entry \in Entries, entry.before = d, NEW new,
           Undoes(entry, new), d = Absent => steps = <<>>
    PROVE  InForce(Append(steps, entry), new)
<1> DEFINE after == Append(steps, entry)
           n == Len(steps)
<1>1. steps \in Seq(Entries) /\ n \in Nat
  BY DEF InForce
<1>2. /\ after \in Seq(Entries) /\ Len(after) = n + 1 /\ after[n + 1] = entry
      /\ \A k \in 1 .. n : after[k] = steps[k]
  BY <1>1
<1>7. n = 0 <=> steps = <<>>
  BY <1>1
<1>0. \A k \in 1 .. n : Undoes(steps[k], AfterOf(k, steps, d)) /\ (steps[k].before = Absent => k = 1)
  BY DEF InForce
<1> HIDE DEF after
<1>3. ASSUME NEW k \in 1 .. n PROVE AfterOf(k, after, new) = AfterOf(k, steps, d) /\ after[k] = steps[k]
  <2>1. CASE k = n
    BY <1>2, <2>1 DEF AfterOf
  <2>2. CASE k # n
    <3>1. k + 1 \in 1 .. n /\ k # n + 1
      BY <1>1, <2>2
    <3>. QED
      BY <1>2, <2>2, <3>1 DEF AfterOf
  <2>. QED
    BY <2>1, <2>2
<1>4. AfterOf(n + 1, after, new) = new
  BY <1>2 DEF AfterOf
<1>5. \A k \in 1 .. n : Undoes(after[k], AfterOf(k, after, new)) /\ (after[k].before = Absent => k = 1)
  BY <1>0, <1>3
<1>6. Undoes(after[n + 1], AfterOf(n + 1, after, new)) /\ (after[n + 1].before = Absent => n + 1 = 1)
  BY <1>1, <1>2, <1>4, <1>7
<1>8. \A k \in 1 .. n + 1 : k \in 1 .. n \/ k = n + 1
  BY <1>1
<1>9. InForce(after, new)
  BY <1>2, <1>5, <1>6, <1>8 DEF InForce
<1>. QED
  BY <1>9 DEF after

LEMMA OneLessInForce ==
    ASSUME NEW steps, NEW d, InForce(steps, d), steps # <<>>
    PROVE  /\ InForce(Front(steps), Last(steps).before)
           /\ Undoes(Last(steps), d)
           /\ Last(steps).before = Absent => Front(steps) = <<>>
           /\ Len(Front(steps)) = Len(steps) - 1
<1> DEFINE after == Front(steps)
           n == Len(steps)
           old == Last(steps).before
<1>1. steps \in Seq(Entries) /\ n \in Nat /\ n # 0
  BY DEF InForce
<1>2. /\ after \in Seq(Entries) /\ Len(after) = n - 1
      /\ \A k \in 1 .. n - 1 : after[k] = steps[k]
  <2>1. after = SubSeq(steps, 1, n - 1)
    BY DEF Front
  <2>2. n - 1 \in Nat /\ n - 1 <= n
    BY <1>1
  <2>3. 1 \in 1 .. n + 1 /\ n - 1 \in 1 - 1 .. n
    BY <1>1, <2>2
  <2> HIDE DEF after, n
  <2>4. /\ SubSeq(steps, 1, n - 1) \in Seq(Entries)
        /\ Len(SubSeq(steps, 1, n - 1)) = IF 1 <= n - 1 THEN n - 1 - 1 + 1 ELSE 0
        /\ \A k \in 1 .. n - 1 - 1 + 1 : SubSeq(steps, 1, n - 1)[k] = steps[1 + k - 1]
    BY <1>1, <2>3, SubSeqProperties DEF n
  <2>5. n - 1 - 1 + 1 = n - 1 /\ (1 <= n - 1 \/ n - 1 = 0)
    <3>1. n \in Nat /\ n - 1 \in Nat
      BY <1>1, <2>2
    <3>. QED
      BY <3>1
  <2>6. \A k \in 1 .. n - 1 : 1 + k - 1 = k
    BY <2>2
  <2>. QED
    BY <2>1, <2>4, <2>5, <2>6
<1>3. Last(steps) = steps[n]
  BY DEF Last
<1>0. \A k \in 1 .. n : Undoes(steps[k], AfterOf(k, steps, d)) /\ (steps[k].before = Absent => k = 1)
  BY DEF InForce
<1> HIDE DEF after
<1>4. ASSUME NEW k \in 1 .. n - 1 PROVE AfterOf(k, after, old) = AfterOf(k, steps, d) /\ after[k] = steps[k]
  <2>0. k # n /\ k \in 1 .. n
    BY <1>1
  <2>1. CASE k = n - 1
    <3>1. k + 1 = n
      BY <1>1, <2>1
    <3>. QED
      BY <1>2, <1>3, <2>0, <2>1, <3>1 DEF AfterOf
  <2>2. CASE k # n - 1
    <3>1. k + 1 \in 1 .. n - 1
      BY <1>1, <2>2
    <3>. QED
      BY <1>2, <2>0, <2>2, <3>1 DEF AfterOf
  <2>. QED
    BY <2>1, <2>2
<1>5. \A k \in 1 .. n - 1 : k \in 1 .. n
  BY <1>1
<1>6. InForce(after, old)
  <2> HIDE DEF n, old
  <2>. QED
    BY <1>0, <1>2, <1>4, <1>5 DEF InForce
<1>7. n \in 1 .. n /\ AfterOf(n, steps, d) = d
  BY <1>1 DEF AfterOf
<1>8. Undoes(Last(steps), d) /\ (old = Absent => n = 1)
  BY <1>0, <1>3, <1>7
<1>9. n = 1 => after = <<>>
  BY <1>1, <1>2
<1>. QED
  BY <1>2, <1>6, <1>8, <1>9 DEF after

\* what create_all makes of a definition serves it
LEMMA BaselineServed ==
    ASSUME NEW d \in Definitions, Founding(d)
    PROVE  Served(d, Baseline(d), <<>>)
<1> DEFINE t == CreateTable(d)
           u == Baseline(d)
<1>1. Valid(d) /\ Sound(d)
  BY ValidSound DEF Founding
<1>2. Follows(d, t) /\ t.indexes = d.indexes
  BY <1>1, CreatedFollows DEF CreateTable
<1>3. /\ u.exists = t.exists /\ u.columns = t.columns /\ u.uniques = t.uniques /\ u.fks = t.fks
      /\ u.indexes = IndexesOf(d) /\ IsTable(u)
  <2>1. IsTable(t) /\ u = [t EXCEPT !.indexes = IndexesOf(d)]
    BY <1>2 DEF Follows, Baseline, IndexesOf
  <2> HIDE DEF t, u
  <2>. QED
    BY <2>1 DEF IsTable
<1> HIDE DEF t, u
<1>4. \A x \in u.indexes : x.columns \subseteq ColumnNames(u)
  <2>1. ColumnNames(u) = Names(d)
    BY <1>2, <1>3 DEF Follows, ColumnNames
  <2>2. \A x \in FieldIndexes(d.fields) : x.columns \subseteq Names(d)
    BY DEF FieldIndexes, FieldIndex, Index, Names
  <2>3. \A x \in d.indexes : x.columns \subseteq Names(d)
    BY <1>1, ValidLocated DEF Located
  <2>. QED
    BY <1>3, <2>1, <2>2, <2>3 DEF IndexesOf
<1>5. Follows(d, u)
  BY <1>2, <1>3, <1>4 DEF Follows, ColumnNames
<1>6. RowsSound(u, <<>>)
  <2>1. DOMAIN <<>> = 1 .. 0 /\ IsFunction(<<>>)
    BY DEF IsFunction
  <2>. QED
    BY <2>1 DEF RowsSound
<1>7. Holds(u, <<>>) /\ AllDistinct(u, <<>>)
  BY DEF Holds, AllDistinct, Distinct
<1>8. Served(d, u, <<>>)
  BY <1>1, <1>3, <1>5, <1>6, <1>7 DEF Served
<1>. QED
  BY <1>8 DEF u

LEMMA EvolutionStarts == EvolutionInit => EvolutionInv
<1> SUFFICES ASSUME EvolutionInit PROVE EvolutionInv
  OBVIOUS
<1>1. rows = <<>> /\ applied = <<>>
  BY DEF EvolutionInit
<1>2. InForce(applied, definition)
  BY <1>1 DEF InForce
<1>3. CASE definition = Absent /\ table = NoTable
  BY <1>1, <1>2, <1>3 DEF EvolutionInv
<1>4. CASE \E d \in Definitions : Founding(d) /\ definition = d /\ table = Baseline(d)
  <2>1. definition # Absent /\ Served(definition, table, rows)
    BY <1>1, <1>4, BaselineServed, DefinedIsNotAbsent
  <2>. QED
    BY <1>2, <2>1 DEF EvolutionInv
<1>. QED
  BY <1>3, <1>4 DEF EvolutionInit

LEMMA UpgradeKeeps ==
    ASSUME EvolutionInv, NEW new \in Definitions, NEW policy \in Policies, Upgrade(new, policy)
    PROVE  /\ EvolutionInv'
           /\ DOMAIN rows' = DOMAIN rows
           /\ \A i \in DOMAIN rows : \A n \in DOMAIN rows[i] : rows'[i][n] = rows[i][n]
<1> DEFINE p == Plan(definition, new)
           steps == Steps(p, policy)
           last == Transaction(table, rows, UpgradeOf(steps, policy))
           entry == [before |-> definition, down |-> DowngradeOf(steps)]
<1>1. Valid(new) /\ ValidPolicy(policy) /\ Renderable(p, policy)
  BY DEF Upgrade
<1>2. /\ last.ok
      /\ definition' = new /\ table' = last.table /\ rows' = last.rows
      /\ applied' = Append(applied, entry)
  BY DEF Upgrade
<1>3. InForce(applied, definition)
  BY DEF EvolutionInv
<1>4. new # Absent
  BY DefinedIsNotAbsent
<1>5. definition # Absent => Served(definition, table, rows)
  BY DEF EvolutionInv
<1>6. entry \in Entries /\ entry.before = definition
  <2>1. definition \in Definitions \cup {Absent}
    BY <1>5 DEF Served
  <2>2. DowngradeOf(steps) \in Downs
    BY <2>1 DEF Downs
  <2>. QED
    BY <2>1, <2>2 DEF Entries
<1>7. definition # Absent => Supported(p)
  <2>1. p.old = definition
    BY DEF Plan
  <2> HIDE DEF p
  <2>. QED
    BY <1>1, <2>1, ReviewedPlan
<1>8. Undoes(entry, new)
  <2>1. entry.down = DowngradeOf(Steps(Plan(entry.before, new), policy))
    BY <1>6
  <2> HIDE DEF entry
  <2>. QED
    BY <1>1, <1>4, <1>5, <1>6, <1>7, <2>1 DEF Undoes, Served, p
<1>9. definition = Absent => applied = <<>>
  BY DEF EvolutionInv
<1> HIDE DEF entry
<1>10. InForce(applied', definition')
  BY <1>2, <1>3, <1>6, <1>8, <1>9, OneMoreInForce
<1>11. CASE definition = Absent
  <2>1. table = NoTable /\ rows = <<>>
    BY <1>11 DEF EvolutionInv
  <2>2. p.old = Absent /\ p.new = new
    BY <1>11 DEF Plan
  <2>3. last = Transaction(NoTable, <<>>, UpgradeOf(Steps(p, policy), policy))
    BY <2>1
  <2>4. IsFiniteSet(policy.assertions)
    BY EvolutionAssumption
  <2>5. Sound(new)
    BY <1>1, ValidSound
  <2> HIDE DEF p, last
  <2>6. last.table = CreateTable(p.new) /\ last.rows = <<>> /\ Holds(last.table, last.rows)
    BY <1>2, <2>2, <2>3, <2>4, FirstUpgrade
  <2>7. Follows(new, last.table)
    BY <1>1, <2>2, <2>5, <2>6, CreatedFollows
  <2>8. RowsSound(last.table, last.rows)
    <3>1. last.rows = <<>> /\ DOMAIN <<>> = 1 .. 0
      BY <2>6
    <3>2. IsFunction(<<>>)
      BY DEF IsFunction
    <3>. QED
      BY <3>1, <3>2 DEF RowsSound
  <2>11. AllDistinct(last.table, last.rows)
    BY <2>6 DEF AllDistinct, Distinct
  <2>12. last.table.indexes \subseteq IndexesOf(new)
    BY <2>2, <2>6 DEF CreateTable, IndexesOf
  <2>9. Served(new, last.table, last.rows)
    BY <1>1, <2>6, <2>7, <2>8, <2>11, <2>12 DEF Served
  <2>10. EvolutionInv'
    BY <1>2, <1>4, <1>10, <2>9 DEF EvolutionInv
  <2>. QED
    BY <1>2, <2>1, <2>6, <2>10
<1>12. CASE definition # Absent
  <2>1. Served(definition, table, rows)
    BY <1>5, <1>12
  <2>2. last = Transaction(table, rows, UpgradeOf(Steps(p, policy), policy)) /\ p = Plan(definition, new)
    OBVIOUS
  <2> HIDE DEF p, last
  <2>3. Served(new, last.table, last.rows) /\ Kept(Names(definition), rows, last.rows) /\ Supported(p)
    BY <1>1, <1>2, <2>1, <2>2, UpgradeServed
  <2>4. EvolutionInv'
    BY <1>2, <1>4, <1>10, <2>3 DEF EvolutionInv
  <2>5. \A i \in DOMAIN rows : DOMAIN rows[i] = Names(definition)
    BY <2>1 DEF Served, RowsSound, RowSound, Follows
  <2>. QED
    BY <1>2, <2>3, <2>4, <2>5 DEF Kept
<1>. QED
  BY <1>11, <1>12

LEMMA DowngradeKeeps ==
    ASSUME EvolutionInv, Downgrade
    PROVE  EvolutionInv' /\ ~(Len(applied') > Len(applied))
<1> DEFINE entry == Last(applied)
           last == Transaction(table, rows, entry.down)
<1>1. /\ applied # <<>> /\ last.ok
      /\ definition' = entry.before /\ table' = last.table /\ rows' = last.rows
      /\ applied' = Front(applied)
  BY DEF Downgrade, Undone
<1>2. InForce(applied, definition)
  BY DEF EvolutionInv
<1> HIDE DEF entry
<1>3. /\ InForce(applied', definition') /\ Undoes(entry, definition)
      /\ entry.before = Absent => applied' = <<>>
  <2>1. InForce(Front(applied), Last(applied).before)
    BY <1>1, <1>2, OneLessInForce
  <2>2. Undoes(Last(applied), definition)
    BY <1>1, <1>2, OneLessInForce
  <2>3. Last(applied).before = Absent => Front(applied) = <<>>
    BY <1>1, <1>2, OneLessInForce
  <2>. QED
    BY <1>1, <2>1, <2>2, <2>3 DEF entry
<1>4. ~(Len(applied') > Len(applied))
  <2>1. applied \in Seq(Entries) /\ Len(applied) \in Nat
    BY <1>2 DEF InForce
  <2>2. Len(Front(applied)) = Len(applied) - 1
    BY <1>1, <1>2, OneLessInForce
  <2>. QED
    BY <1>1, <2>1, <2>2
<1>5. definition # Absent /\ Served(definition, table, rows)
  BY <1>3 DEF EvolutionInv, Undoes
<1>6. PICK policy \in Policies :
         /\ entry.before # Absent => Supported(Plan(entry.before, definition))
         /\ entry.down = DowngradeOf(Steps(Plan(entry.before, definition), policy))
  BY <1>3 DEF Undoes
<1> DEFINE p == Plan(entry.before, definition)
<1>7. CASE entry.before = Absent
  <2>1. p.old = Absent /\ IsFiniteSet(policy.assertions)
    BY <1>7, EvolutionAssumption DEF Plan
  <2>2. entry.down = DowngradeOf(Steps(p, policy))
    BY <1>6
  <2>3. DowngradeOf(Steps(p, policy)) = <<<<Dropping>>>>
    <3> HIDE DEF p
    <3>. QED
      BY <2>1, FirstListed
  <2>4. last = Transaction(table, rows, <<<<Dropping>>>>)
    BY <2>2, <2>3
  <2> HIDE DEF last
  <2>5. last.table = NoTable /\ last.rows = <<>>
    BY <1>1, <2>4, FirstDowngrade
  <2>6. EvolutionInv'
    BY <1>1, <1>3, <1>7, <2>5 DEF EvolutionInv
  <2>. QED
    BY <1>4, <2>6
<1>8. CASE entry.before # Absent
  <2>1. entry.before \in Definitions /\ Valid(entry.before)
    BY <1>3, <1>8 DEF Undoes
  <2>2. Supported(p) /\ last = Transaction(table, rows, DowngradeOf(Steps(p, policy)))
    BY <1>6, <1>8
  <2>3. p = Plan(entry.before, definition)
    OBVIOUS
  <2> HIDE DEF p, last
  <2>4. Served(entry.before, last.table, last.rows)
    BY <1>1, <1>5, <2>1, <2>2, <2>3, DowngradeServed
  <2>5. EvolutionInv'
    BY <1>1, <1>3, <1>8, <2>4 DEF EvolutionInv
  <2>. QED
    BY <1>4, <2>5
<1>. QED
  BY <1>7, <1>8

LEMMA WriteKeeps ==
    ASSUME EvolutionInv, Write
    PROVE  EvolutionInv' /\ applied' = applied
<1>1. PICK row \in {r \in [Names(definition) -> UNION {Stored(f) : f \in definition.fields}] :
                       \A f \in definition.fields : r[f.name] \in Stored(f)} :
         Holds(table, Append(rows, row)) /\ AllDistinct(table, Append(rows, row)) /\ rows' = Append(rows, row)
  BY DEF Write
<1>2. table.exists /\ definition' = definition /\ table' = table /\ applied' = applied
  BY DEF Write
<1>3. definition # Absent
  BY <1>2 DEF EvolutionInv, NoTable
<1>4. Served(definition, table, rows)
  BY <1>3 DEF EvolutionInv
<1>5. Served(definition, table, Append(rows, row))
  BY <1>1, <1>4, WrittenServed
<1>6. InForce(applied, definition)
  BY <1>3 DEF EvolutionInv
<1>7. InForce(applied', definition') /\ definition' # Absent /\ Served(definition', table', rows')
  BY <1>1, <1>2, <1>3, <1>5, <1>6
<1>. QED
  BY <1>2, <1>7 DEF EvolutionInv

LEMMA EvolutionKept ==
    ASSUME EvolutionInv, [EvolutionNext]_evolutionVars
    PROVE  /\ EvolutionInv'
           /\ Len(applied') > Len(applied) =>
                 /\ DOMAIN rows' = DOMAIN rows
                 /\ \A i \in DOMAIN rows : \A n \in DOMAIN rows[i] : rows'[i][n] = rows[i][n]
<1>0. Len(applied) \in Nat
  BY DEF EvolutionInv, InForce
<1>1. CASE \E new \in Definitions, policy \in Policies : Upgrade(new, policy)
  BY <1>1, UpgradeKeeps
<1>2. CASE Downgrade
  BY <1>2, DowngradeKeeps
<1>3. CASE Write
  BY <1>0, <1>3, WriteKeeps
<1>4. CASE UNCHANGED evolutionVars
  <2>1. definition' = definition /\ table' = table /\ rows' = rows /\ applied' = applied
    BY <1>4 DEF evolutionVars
  <2>2. EvolutionInv'
    BY <2>1 DEF EvolutionInv
  <2>. QED
    BY <1>0, <2>1, <2>2
<1>. QED
  BY <1>1, <1>2, <1>3, <1>4 DEF EvolutionNext

LEMMA EvolutionSafe == EvolutionSpec => []EvolutionInv
<1>1. EvolutionInv /\ [EvolutionNext]_evolutionVars => EvolutionInv'
  BY EvolutionKept
<1>. QED
  BY <1>1, EvolutionStarts, PTL DEF EvolutionSpec

\* A migration that is carried out loses nothing that was stored, whatever was
\* written since it was planned: every row is still there, with the value it
\* had in every column (type_evolution.py, _render_operations).
THEOREM MigrationKeepsRows == EvolutionSpec => RowsKept
<1>1. EvolutionInv /\ [EvolutionNext]_evolutionVars =>
         [Len(applied') > Len(applied) =>
             /\ DOMAIN rows' = DOMAIN rows
             /\ \A i \in DOMAIN rows : \A n \in DOMAIN rows[i] : rows'[i][n] = rows[i][n]]_evolutionVars
  BY EvolutionKept
<1>. QED
  BY <1>1, EvolutionSafe, PTL DEF EvolutionSpec, RowsKept

LEMMA InvFollows ==
    ASSUME EvolutionInv
    PROVE  DatabaseFollows
<1> SUFFICES ASSUME definition # Absent PROVE DatabaseFollows
  BY DEF DatabaseFollows
<1>1. Follows(definition, table) /\ RowsSound(table, rows) /\ Holds(table, rows)
  BY DEF EvolutionInv, Served
<1>2. ASSUME NEW f \in definition.fields PROVE \E c \in table.columns : c.name = f.name /\ Matches(f, c) /\ IsColumn(c)
  <2>1. f.name \in ColumnNames(table)
    BY <1>1 DEF Follows, Names
  <2>2. PICK c \in table.columns : c.name = f.name
    BY <2>1 DEF ColumnNames
  <2>. QED
    BY <1>1, <2>2 DEF Follows
<1>3. ASSUME NEW f \in definition.fields, ~f.encrypted PROVE Column(f) \in table.columns
  <2>1. PICK c \in table.columns : c.name = f.name /\ Matches(f, c) /\ IsColumn(c)
    BY <1>2
  <2>2. c = [name |-> f.name, type |-> f.type, nullable |-> f.nullable, default |-> f.default]
    BY <1>3, <2>1 DEF IsColumn, Matches
  <2>3. Column(f) = [name |-> f.name, type |-> f.type, nullable |-> f.nullable, default |-> f.default]
    BY <1>3 DEF Column
  <2>. QED
    BY <2>1, <2>2, <2>3
<1>4. ASSUME NEW i \in DOMAIN rows, NEW f \in definition.fields
      PROVE  /\ rows[i][f.name] = Null => f.nullable
             /\ f.encrypted \/ Fits(f.type, rows[i][f.name])
  <2>1. PICK c \in table.columns : c.name = f.name /\ Matches(f, c)
    BY <1>2
  <2>2. Fits(c.type, rows[i][c.name]) /\ (rows[i][c.name] = Null => c.nullable)
    BY <1>1 DEF Holds
  <2>. QED
    BY <2>1, <2>2 DEF Matches
<1>5. ColumnNames(table) = Names(definition) /\ table.uniques = CreateTable(definition).uniques
  BY <1>1 DEF Follows, Uniques
<1>. QED
  BY <1>3, <1>4, <1>5 DEF DatabaseFollows

\* After any upgrades and downgrades the columns and the unique constraints are
\* those of the definition in force, and it admits every row (the operations
\* that generate_alembic_migration writes, and their inverses).
THEOREM MigrationsFollowed == EvolutionSpec => []DatabaseFollows
<1>1. EvolutionInv => DatabaseFollows
  BY InvFollows
<1>. QED
  BY <1>1, EvolutionSafe, PTL

-----------------------------------------------------------------------------
(* A migration that is called safe                                         *)

\* a sequence in which nothing comes twice
Once(s) == \A i, j \in 1 .. Len(s) : s[i] = s[j] => i = j

LEMMA OnceJoin ==
    ASSUME NEW S, NEW T, NEW s, NEW t, Listed(s, S), Listed(t, T), Once(s), Once(t), S \cap T = {}
    PROVE  Once(s \o t)
<1>1. /\ Len(s) \in Nat /\ Len(t) \in Nat /\ Len(s \o t) = Len(s) + Len(t)
      /\ \A i \in 1 .. Len(s) : (s \o t)[i] = s[i]
      /\ \A i \in 1 .. Len(t) : (s \o t)[Len(s) + i] = t[i]
  <2>1. Len(s) \in Nat /\ Len(t) \in Nat /\ Len(s \o t) = Len(s) + Len(t)
    BY JoinedParts
  <2>2. \A i \in 1 .. Len(s) : (s \o t)[i] = s[i]
    BY JoinedParts
  <2>3. \A i \in 1 .. Len(t) : (s \o t)[Len(s) + i] = t[i]
    BY JoinedParts
  <2>. QED
    BY <2>1, <2>2, <2>3
<1>2. /\ \A i \in 1 .. Len(s) : s[i] \in S
      /\ \A i \in 1 .. Len(t) : t[i] \in T
  BY DEF Listed
<1> DEFINE x == s \o t
<1>3. \A i \in 1 .. Len(x) : i \in 1 .. Len(s) \/ (i - Len(s) \in 1 .. Len(t) /\ i = Len(s) + (i - Len(s)))
  BY <1>1
<1>4. \A i \in 1 .. Len(s) : x[i] = s[i] /\ x[i] \in S
  BY <1>1, <1>2
<1>5. \A i \in 1 .. Len(x) : i - Len(s) \in 1 .. Len(t) => x[i] = t[i - Len(s)] /\ x[i] \in T
  BY <1>1, <1>2, <1>3
<1> HIDE DEF x
<1>6. ASSUME NEW i \in 1 .. Len(x), NEW j \in 1 .. Len(x), x[i] = x[j] PROVE i = j
  <2>1. CASE i \in 1 .. Len(s) /\ j \in 1 .. Len(s)
    BY <1>4, <1>6, <2>1 DEF Once
  <2>2. CASE i - Len(s) \in 1 .. Len(t) /\ j - Len(s) \in 1 .. Len(t)
    <3>1. t[i - Len(s)] = t[j - Len(s)]
      BY <1>5, <1>6, <2>2
    <3>2. i - Len(s) = j - Len(s)
      BY <2>2, <3>1 DEF Once
    <3>. QED
      BY <1>1, <3>2
  <2>3. ~(i \in 1 .. Len(s) /\ j - Len(s) \in 1 .. Len(t)) /\ ~(j \in 1 .. Len(s) /\ i - Len(s) \in 1 .. Len(t))
    BY <1>4, <1>5, <1>6
  <2>. QED
    BY <1>3, <2>1, <2>2, <2>3
<1>. QED
  BY <1>6 DEF Once, x

LEMMA OnceNone ==
    ASSUME NEW s, Listed(s, {})
    PROVE  Once(s)
BY DEF Listed, Once

LEMMA AddedOnce ==
    ASSUME NEW p, p.old # Absent, Sound(p.new), NEW policy
    PROVE  Once(AddedSteps(p, policy))
<1> DEFINE fields == Added(p)
           names == {f.name : f \in fields}
           s == InOrder(names)
           t == [i \in 1 .. Len(s) |-> Step(AdditionOf(FieldNamed(fields, s[i]), policy), DropField(FieldNamed(fields, s[i])))]
<1>1. IsFiniteSet(fields) /\ fields \subseteq FieldRecords /\ NamedOnce(fields)
  BY FS_Subset DEF Added, Sound, NamedOnce
<1>2. IsFiniteSet(names) /\ names \subseteq DOMAIN Position
  BY <1>1, NamesFinite
<1>3. Listed(s, names) /\ Once(s)
  BY <1>2, NamesListed, InOrderIs DEF Once
<1>4. AddedSteps(p, policy) = t
  BY DEF AddedSteps, EachField, Each
<1> HIDE DEF fields
<1>5. \A f \in fields : FieldNamed(fields, f.name) = f
  BY <1>1, FieldNamedIs
<1>6. \A n \in names : FieldNamed(fields, n).name = n
  BY <1>5
<1>7. Len(s) \in Nat /\ \A i \in 1 .. Len(s) : s[i] \in names
  <2> HIDE DEF names, s
  <2>. QED
    BY <1>3 DEF Listed
<1> HIDE DEF names, s
<1>8. Len(t) = Len(s)
  BY <1>7
<1>9. ASSUME NEW i \in 1 .. Len(s), NEW j \in 1 .. Len(s), t[i] = t[j] PROVE i = j
  <2>1. t[i].down.name = s[i] /\ t[j].down.name = s[j]
    BY <1>6, <1>7 DEF Step, DropField
  <2>. QED
    BY <1>3, <1>9, <2>1 DEF Once
<1> HIDE DEF t
<1>. QED
  BY <1>4, <1>8, <1>9 DEF Once, fields

LEMMA RetypedOnce ==
    ASSUME NEW p, Sound(p.old), Sound(p.new)
    PROVE  Once(RetypedSteps(p))
<1> DEFINE pairs == Retyped(p) \cup Enums(p)
           names == {c[1].name : c \in pairs}
           s == InOrder(names)
           t == [i \in 1 .. Len(s) |-> Step(<<AlterType(PairNamed(pairs, s[i])[2])>>, Raise)]
<1>1. pairs \subseteq Pairs(p)
  BY DEF Retyped, Enums
<1>2. RetypedSteps(p) = t
  BY DEF RetypedSteps, EachPair, Each
<1>3. \A c \in pairs : c[1].name = c[2].name
  BY <1>1 DEF Pairs
<1> HIDE DEF pairs
<1>4. IsFiniteSet(names) /\ names \subseteq DOMAIN Position
  BY <1>1, PairsOnce
<1>5. Listed(s, names) /\ Once(s)
  BY <1>4, NamesListed, InOrderIs DEF Once
<1>6. \A c \in pairs : PairNamed(pairs, c[1].name) = c
  BY <1>1, PairsOnce, PairNamedIs
<1>7. \A n \in names : PairNamed(pairs, n)[2].name = n
  BY <1>3, <1>6
<1>8. Len(s) \in Nat /\ \A i \in 1 .. Len(s) : s[i] \in names
  <2> HIDE DEF names, s
  <2>. QED
    BY <1>5 DEF Listed
<1> HIDE DEF names, s
<1>9. ASSUME NEW i \in 1 .. Len(s), NEW j \in 1 .. Len(s), t[i] = t[j] PROVE i = j
  <2> DEFINE a == AlterType(PairNamed(pairs, s[i])[2])
             b == AlterType(PairNamed(pairs, s[j])[2])
  <2>1. t[i] = Step(<<a>>, Raise) /\ t[j] = Step(<<b>>, Raise)
    OBVIOUS
  <2>2. a.name = s[i] /\ b.name = s[j]
    BY <1>7, <1>8 DEF AlterType
  <2> HIDE DEF a, b, t
  <2>3. t[i].up = <<a>> /\ t[j].up = <<b>>
    BY <2>1 DEF Step
  <2>4. a = b
    BY <1>9, <2>3, SingleIs
  <2>. QED
    BY <1>5, <2>2, <2>4 DEF Once
<1>10. Len(t) = Len(s)
  BY <1>8
<1> HIDE DEF t
<1>. QED
  BY <1>2, <1>9, <1>10 DEF Once

LEMMA AdditionsOnce ==
    ASSUME NEW p, IsFiniteSet(IndexesAdded(p))
    PROVE  Once(IndexAdditions(p))
<1> DEFINE s == SetToSeq(IndexesAdded(p))
           t == [i \in 1 .. Len(s) |-> Step(<<CreateIndex(s[i])>>, DropIndex(s[i]))]
<1>1. IndexAdditions(p) = t
  BY DEF IndexAdditions, Each
<1>2. Listed(s, IndexesAdded(p)) /\ Once(s)
  BY SetListed, SetToSeqIs DEF Once
<1>3. Len(s) \in Nat
  BY <1>2 DEF Listed
<1> HIDE DEF s
<1>4. ASSUME NEW i \in 1 .. Len(s), NEW j \in 1 .. Len(s), t[i] = t[j] PROVE i = j
  <2>1. t[i].down.index = s[i] /\ t[j].down.index = s[j]
    BY DEF Step, DropIndex
  <2>. QED
    BY <1>2, <1>4, <2>1 DEF Once
<1>5. Len(t) = Len(s)
  BY <1>3
<1> HIDE DEF t
<1>. QED
  BY <1>1, <1>4, <1>5 DEF Once

\* a field that can be added to any row
Tame(f) ==
    /\ ~Required(f) /\ ~f.unique /\ ~f.fk /\ ~f.encrypted /\ ~IsEnum(f.type)
    /\ f.default # NoDefault => /\ f.default \notin {NullDefault, Callable}
                                /\ Fits(f.type, Plain(f.default))
SafePlan(p) ==
    /\ Removed(p) = {} /\ Retyped(p) = {} /\ Redefaulted(p) = {} /\ Referring(p) = {} /\ UniquesAdded(p) = {}
    /\ IndexesRemoved(p) = {} /\ p.new.indexes \subseteq p.old.indexes
    /\ \A c \in Enums(p) : IsPrefix(c[1].type.values, c[2].type.values)
    /\ \A f \in Added(p) : Tame(f)

LEMMA NeedsNoPolicy ==
    ASSUME NEW p, p.old # Absent, Sound(p.new), Renderable(p, NoPolicy), DefaultsFit(p), NoEnumAdded(p)
    PROVE  /\ Removed(p) = {} /\ Redefaulted(p) = {} /\ Referring(p) = {} /\ UniquesAdded(p) = {}
           /\ IndexesRemoved(p) = {}
           /\ \A f \in Added(p) : ~f.encrypted => Tame(f)
<1>1. /\ NoPolicy.backfills = {} /\ NoPolicy.removals = {} /\ NoPolicy.verified = {} /\ NoPolicy.constraints = FALSE
  BY DEF NoPolicy
<1>2. /\ {b.target : b \in {}} = {f.name : f \in {g \in Added(p) : Required(g)}}
      /\ IndexesRemoved(p) \subseteq {} /\ NeedsProof(p) \subseteq {}
      /\ p.new.uniques \ p.old.uniques = {}
      /\ \A f \in Added(p) : Literal(f.default)
      /\ ~Unsupported(p)
  BY <1>1 DEF Renderable
<1>3. Removed(p) = {}
  BY <1>2 DEF Unsupported
<1>4. Redefaulted(p) = {} /\ Referring(p) = {} /\ MadeUnique(p) = {}
  BY <1>2 DEF NeedsProof
<1>5. \A f \in Added(p) : ~Required(f)
  BY <1>2
<1>6. \A f \in Added(p) : ~f.unique /\ ~f.fk
  BY <1>2, <1>5 DEF NeedsProof
<1>7. UniquesAdded(p) = {}
  BY <1>2, <1>4 DEF UniquesAdded
<1>8. \A f \in Added(p) : ~f.encrypted => Tame(f)
  BY <1>2, <1>5, <1>6 DEF Tame, Literal, DefaultsFit, NoEnumAdded
<1>. QED
  BY <1>2, <1>3, <1>4, <1>7, <1>8

LEMMA SafeIsTame ==
    ASSUME NEW p, p.old # Absent, Sound(p.new), ClassifyPlan(p) = "SAFE_ADDITIVE",
           Renderable(p, NoPolicy), DefaultsFit(p), NoEnumAdded(p)
    PROVE  SafePlan(p)
<1>1. "REQUIRES_DATA_MIGRATION" \notin Safeties(p) /\ "POTENTIALLY_DESTRUCTIVE" \notin Safeties(p)
  BY DEF ClassifyPlan
<1>2. /\ \A f \in Added(p) : AdditionSafety(f) \in Safeties(p)
      /\ \A c \in Pairs(p) : PairSafety(c[1], c[2]) \subseteq Safeties(p)
      /\ Judged(p.new.indexes \ p.old.indexes, "REQUIRES_DATA_MIGRATION") \subseteq Safeties(p)
  <2>1. ASSUME NEW f \in Added(p) PROVE AdditionSafety(f) \in Safeties(p)
    <3>1. AdditionSafety(f) \in {AdditionSafety(g) : g \in Added(p)}
      OBVIOUS
    <3>. QED
      BY <3>1, Zenon DEF Safeties
  <2>2. ASSUME NEW c \in Pairs(p) PROVE PairSafety(c[1], c[2]) \subseteq Safeties(p)
    <3>1. PairSafety(c[1], c[2]) \in {PairSafety(e[1], e[2]) : e \in Pairs(p)}
      OBVIOUS
    <3>2. PairSafety(c[1], c[2]) \subseteq UNION {PairSafety(e[1], e[2]) : e \in Pairs(p)}
      BY <3>1, Zenon
    <3>. QED
      BY <3>2, Zenon DEF Safeties
  <2>3. Judged(p.new.indexes \ p.old.indexes, "REQUIRES_DATA_MIGRATION") \subseteq Safeties(p)
    <3>1. ASSUME NEW s \in Judged(p.new.indexes \ p.old.indexes, "REQUIRES_DATA_MIGRATION")
          PROVE  s \in Safeties(p)
      BY <3>1, SMT DEF Safeties, NamedSafety
    <3>. QED
      BY <3>1
  <2>. QED
    BY <2>1, <2>2, <2>3
<1>3. \A f \in Added(p) : ~f.encrypted
  BY <1>1, <1>2 DEF AdditionSafety
<1>4. p.new.indexes \subseteq p.old.indexes
  BY <1>1, <1>2 DEF Judged
<1>5. ASSUME NEW c \in Pairs(p), c[1].type # c[2].type
      PROVE  /\ IsEnum(c[1].type) /\ IsEnum(c[2].type)
             /\ IsPrefix(c[1].type.values, c[2].type.values)
  <2>1. "POTENTIALLY_DESTRUCTIVE" \notin PairSafety(c[1], c[2])
    BY <1>1, <1>2
  <2>. QED
    BY <1>5, <2>1 DEF PairSafety
<1>6. Retyped(p) = {}
  BY <1>5 DEF Retyped, Enums
<1>7. \A c \in Enums(p) : IsPrefix(c[1].type.values, c[2].type.values)
  BY <1>5 DEF Enums
<1>8. /\ Removed(p) = {} /\ Redefaulted(p) = {} /\ Referring(p) = {} /\ UniquesAdded(p) = {}
      /\ IndexesRemoved(p) = {}
      /\ \A f \in Added(p) : ~f.encrypted => Tame(f)
  BY NeedsNoPolicy
<1>. QED
  BY <1>3, <1>4, <1>6, <1>7, <1>8 DEF SafePlan

\* the steps of a safe migration
AddStep(f) == Step(Addition(f), DropField(f))
AlterStep(c) == Step(<<AlterType(c[2])>>, Raise)
IndexStep(x) == Step(<<CreateIndex(x)>>, DropIndex(x))
SafeSteps(p) ==
    {AddStep(f) : f \in Added(p)} \cup {AlterStep(c) : c \in Enums(p)} \cup {IndexStep(x) : x \in IndexesAdded(p)}

LEMMA SafeStepsOnce ==
    ASSUME NEW p, Sound(p.old), Sound(p.new), p.old # Absent, SafePlan(p), NEW policy
    PROVE  Listed(Steps(p, policy), SafeSteps(p)) /\ Once(Steps(p, policy))
<1> DEFINE S1 == {Step(<<DropIndex(x)>>, CreateIndex(x)) : x \in IndexesRemoved(p)}
           S2 == {Step(AdditionOf(f, policy), DropField(f)) : f \in Added(p)}
           S3 == {Step(<<AlterType(c[2])>>, Raise) : c \in Retyped(p) \cup Enums(p)}
           S4 == {Step(<<SetDefault(c[2])>>, SetDefault(c[1])) : c \in Redefaulted(p)}
           S5 == {Step(<<AddReference(c[2])>>, DropReference(c[2])) : c \in Referring(p)}
           S6 == {Step(<<AddUnique(x)>>, DropUnique(x)) : x \in UniquesAdded(p)}
           S7 == {Step(<<CreateIndex(x)>>, DropIndex(x)) : x \in IndexesAdded(p)}
           s1 == IndexRemovals(p)
           s2 == AddedSteps(p, policy)
           s3 == RetypedSteps(p)
           s4 == DefaultSteps(p)
           s5 == ReferenceSteps(p)
           s6 == UniqueSteps(p)
           s7 == IndexAdditions(p)
<1>2. Listed(s2, S2) /\ Once(s2)
  <2>1. Listed(s2, S2)
    BY AddedListed DEF AddedSteps
  <2>2. Once(s2)
    BY AddedOnce
  <2>. QED
    BY <2>1, <2>2
<1>3. /\ Listed(s1, S1) /\ Listed(s3, S3) /\ Listed(s4, S4) /\ Listed(s5, S5) /\ Listed(s6, S6) /\ Listed(s7, S7)
  BY RemovalsListed, RetypedListed, DefaultsListed, ReferencesListed, UniquesListed, AdditionsListed
<1>4. Once(s3) /\ Once(s7)
  BY RetypedOnce, AdditionsOnce, DifferencesFinite
<1>5. Steps(p, policy) = s1 \o s2 \o s3 \o s4 \o s5 \o s6 \o s7
  BY DEF Steps
<1>6. S1 = {} /\ S4 = {} /\ S5 = {} /\ S6 = {}
  BY DEF SafePlan
<1>7. /\ S2 = {AddStep(f) : f \in Added(p)} /\ S3 = {AlterStep(c) : c \in Enums(p)}
      /\ S7 = {IndexStep(x) : x \in IndexesAdded(p)}
  <2>1. \A f \in Added(p) : AdditionOf(f, policy) = Addition(f)
    BY DEF SafePlan, Tame, AdditionOf
  <2>2. Retyped(p) \cup Enums(p) = Enums(p)
    BY DEF SafePlan
  <2>3. S2 = {AddStep(f) : f \in Added(p)}
    BY <2>1 DEF AddStep
  <2>. QED
    BY <2>2, <2>3 DEF AlterStep, IndexStep
<1>8. \A x \in S2 : x.down.op = "drop_column"
  BY DEF Step, DropField
<1>9. \A x \in S3 : x.down.op = "raise"
  BY DEF Step, Raise
<1>10. \A x \in S7 : x.down.op = "drop_index"
  BY DEF Step, DropIndex
<1> HIDE DEF S1, S2, S3, S4, S5, S6, S7, s1, s2, s3, s4, s5, s6, s7
<1>11. Once(s1) /\ Once(s4) /\ Once(s5) /\ Once(s6)
  BY <1>3, <1>6, OnceNone
<1>12. Listed(s1 \o s2, S2) /\ Once(s1 \o s2)
  <2>1. S1 \cap S2 = {} /\ S1 \cup S2 = S2
    BY <1>6
  <2>. QED
    BY <1>2, <1>3, <1>11, <2>1, ListedJoin, OnceJoin
<1>13. Listed(s1 \o s2 \o s3, S2 \cup S3) /\ Once(s1 \o s2 \o s3)
  <2>1. S2 \cap S3 = {}
    BY <1>8, <1>9
  <2>. QED
    BY <1>3, <1>4, <1>12, <2>1, ListedJoin, OnceJoin
<1> DEFINE a == s1 \o s2 \o s3
           A == S2 \cup S3
<1>14. Listed(a, A) /\ Once(a) /\ Steps(p, policy) = a \o s4 \o s5 \o s6 \o s7
  BY <1>5, <1>13
<1>15. A \cap S7 = {} /\ A \cup S7 = SafeSteps(p)
  BY <1>7, <1>8, <1>9, <1>10 DEF SafeSteps
<1> HIDE DEF a, A
<1>16. A \cup {} = A /\ A \cap {} = {}
  OBVIOUS
<1>17. Listed(a \o s4, A) /\ Once(a \o s4)
  BY <1>3, <1>6, <1>11, <1>14, <1>16, ListedJoin, OnceJoin
<1>18. Listed(a \o s4 \o s5, A) /\ Once(a \o s4 \o s5)
  BY <1>3, <1>6, <1>11, <1>16, <1>17, ListedJoin, OnceJoin
<1>19. Listed(a \o s4 \o s5 \o s6, A) /\ Once(a \o s4 \o s5 \o s6)
  BY <1>3, <1>6, <1>11, <1>16, <1>18, ListedJoin, OnceJoin
<1>20. Listed(a \o s4 \o s5 \o s6 \o s7, A \cup S7) /\ Once(a \o s4 \o s5 \o s6 \o s7)
  BY <1>3, <1>4, <1>15, <1>19, ListedJoin, OnceJoin
<1>. QED
  BY <1>14, <1>15, <1>20

\* what a new column holds at first fits into it
LEMMA StartFits ==
    ASSUME NEW f \in FieldRecords, Tame(f), ValidField(f), NEW c, c.default = f.default, c.type = f.type,
           c.nullable = f.nullable
    PROVE  Fits(c.type, Start(c)) /\ (Start(c) = Null => c.nullable)
<1>1. CASE f.default = NoDefault
  <2>1. Start(c) = Null
    BY <1>1 DEF Start
  <2>2. c.nullable
    BY <1>1 DEF Tame, Required
  <2>. QED
    BY <2>1, <2>2 DEF Fits
<1>2. CASE f.default # NoDefault
  <2> DEFINE d == f.default
             v == Plain(d)
             ty == f.type
             u == Unit(ty.scale)
  <2>1. d \in Int /\ d # -1 /\ d # -2 /\ ty \in Types /\ Fits(ty, v)
    BY <1>2 DEF FieldRecords, Tame, NoDefault, NullDefault
  <2>2. Start(c) = Place(ty, v)
    BY <1>2 DEF Start, Tame
  <2>3. v # Null /\ v.room = d /\ v = [room |-> d, sealed |-> FALSE]
    BY <2>1 DEF Plain, Null
  <2>4. CASE ty.kind \notin {"int", "decimal"}
    BY <2>1, <2>2, <2>3, <2>4 DEF Place
  <2>5. CASE ty.kind \in {"int", "decimal"}
    <3> DEFINE x == (d \div u) * u
               w == [room |-> x, sealed |-> FALSE]
    <3>1. Place(ty, v) = w
      <4>1. v = [room |-> d, sealed |-> FALSE] /\ v # Null /\ v.room = d
        BY <2>3
      <4>2. Place(ty, v) = [v EXCEPT !.room = (v.room \div u) * u]
        <5> HIDE DEF v
        <5>. QED
          BY <2>5, <4>1 DEF Place
      <4> HIDE DEF u, d, v
      <4>. QED
        BY <4>1, <4>2
    <3>2. x \in Int /\ x <= d /\ x # -1
      <4>1. u \in {1, 10, 100}
        BY DEF Unit
      <4> HIDE DEF u
      <4>2. CASE u = 1
        BY <2>1, <4>2
      <4>3. CASE u = 10
        BY <2>1, <4>3
      <4>4. CASE u = 100
        BY <2>1, <4>4
      <4>. QED
        BY <4>1, <4>2, <4>3, <4>4
    <3>3. w.room = x /\ w # Null
      BY <3>2 DEF Null
    <3>4. CASE ty.kind = "int"
      BY <2>2, <3>1, <3>3, <3>4 DEF Fits
    <3>5. CASE ty.kind = "decimal"
      <4>1. ty.size \in Nat /\ ty.scale \in Nat /\ ty.scale <= ty.size
        BY <2>1, <3>5 DEF Types, ValidField, ValidDecimal
      <4> DEFINE bound == 10 ^ (ty.size - ty.scale + 2)
      <4>2. bound \in Int
        <5>1. ty.size - ty.scale + 2 \in Nat
          BY <4>1
        <5>. QED
          BY <5>1
      <4>3. ty.size - ty.scale > 3 \/ d < bound
        BY <2>1, <2>3, <3>5 DEF Fits
      <4> HIDE DEF bound, x, d, u
      <4>4. ty.size - ty.scale > 3 \/ x < bound
        BY <2>1, <3>2, <4>2, <4>3
      <4>5. Fits(ty, w)
        BY <3>3, <3>5, <4>4 DEF Fits, bound
      <4>. QED
        BY <2>2, <3>1, <3>3, <4>5
    <3>. QED
      BY <2>5, <3>4, <3>5
  <2>. QED
    BY <2>4, <2>5
<1>. QED
  BY <1>1, <1>2

LEMMA GroupTwo ==
    ASSUME NEW run, NEW a, NEW b
    PROVE  Group(run, <<a, b>>) = Perform(Perform(run, a), b)
<1> DEFINE ops == <<a, b>>
<1>1. Len(ops) = 2 /\ ops[1] = a /\ ops[2] = b
  OBVIOUS
<1> HIDE DEF ops
<1>2. PICK f : IsGroup(f, run, ops, 2) /\ Group(run, ops) = f[2]
  BY <1>1, GroupIs
<1>3. f[0] = run /\ f[1] = Perform(f[1 - 1], ops[1]) /\ f[2] = Perform(f[2 - 1], ops[2])
  BY <1>2 DEF IsGroup
<1>4. f[1] = Perform(run, a) /\ f[2] = Perform(f[1], b)
  BY <1>1, <1>3
<1>. QED
  BY <1>2, <1>4 DEF ops

\* without a policy, the groups are those of the steps
LEMMA NoPolicyGroups ==
    ASSUME NEW steps, NEW S, Listed(steps, S)
    PROVE  /\ Len(UpgradeOf(steps, NoPolicy)) = Len(steps)
           /\ \A i \in 1 .. Len(steps) : UpgradeOf(steps, NoPolicy)[i] = steps[i].up
<1> DEFINE a == SetToSeq(NoPolicy.assertions)
           ta == [i \in 1 .. Len(a) |-> <<Check(a[i])>>]
           ts == [i \in 1 .. Len(steps) |-> steps[i].up]
           TS == {s.up : s \in S}
           gs == [s \in S |-> s.up]
<1>1. UpgradeOf(steps, NoPolicy) = ta \o ts
  BY DEF UpgradeOf, Each
<1>2. NoPolicy.assertions = {} /\ IsFiniteSet({})
  BY FS_EmptySet DEF NoPolicy
<1>3. Listed(a, {})
  BY <1>2, SetListed
<1> HIDE DEF a
<1>4. Len(a) = 0
  BY <1>3 DEF Listed
<1>5. ta = <<>>
  BY <1>4
<1>6. Listed(ta, {}) /\ Len(ta) = 0
  <2>1. <<>> \in Seq({}) /\ Len(<<>>) = 0
    OBVIOUS
  <2>2. Listed(<<>>, {})
    BY <2>1 DEF Listed
  <2>. QED
    BY <1>5, <2>1, <2>2
<1>7. Len(steps) \in Nat /\ \A i \in 1 .. Len(steps) : steps[i] \in S
  BY DEF Listed
<1>8. Through(ts, gs, steps) /\ Image(gs, S, TS)
  BY <1>7 DEF Through, Image, Covers
<1>9. Len(ts) = Len(steps) /\ \A i \in 1 .. Len(steps) : ts[i] = steps[i].up
  BY <1>7
<1> HIDE DEF ta, ts, gs, TS
<1>10. Listed(ts, TS)
  BY <1>8, ListedMap
<1>11. Len(ta \o ts) = Len(ta) + Len(ts) /\ \A i \in 1 .. Len(ts) : (ta \o ts)[Len(ta) + i] = ts[i]
  BY <1>6, <1>10, JoinedParts
<1>. QED
  BY <1>1, <1>6, <1>7, <1>9, <1>11

\* where a migration starts: its constraints are about the columns there are
StartsOn(p, t, rs) ==
    /\ t.fks \subseteq Names(p.old)
    /\ \A columns \in t.uniques \cup {x.columns : x \in t.indexes} : columns \subseteq Names(p.old)
    /\ Holds(t, rs) /\ AllDistinct(t, rs)

\* A safe migration on its way, from table t and rows rs: no constraint is
\* new, what was stored is there, and every value fits its column.
SafelyOn(p, t, rs, run) ==
    /\ run.ok /\ IsTable(run.table)
    /\ run.table.uniques = t.uniques /\ run.table.fks = t.fks
    /\ \A x \in run.table.indexes : x \in t.indexes \/ ~x.unique
    /\ \A c \in run.table.columns :
          /\ IsColumn(c)
          /\ \A e \in Enums(p) : c.name = e[1].name => c.type = e[1].type \/ c.type = e[2].type
    /\ Names(p.old) \subseteq ColumnNames(run.table)
    /\ Kept(Names(p.old), rs, run.rows) /\ IsFunction(run.rows)
    /\ \A i \in DOMAIN run.rows :
          /\ IsFunction(run.rows[i]) /\ DOMAIN run.rows[i] = ColumnNames(run.table)
          /\ \A c \in run.table.columns :
                Fits(c.type, run.rows[i][c.name]) /\ (run.rows[i][c.name] = Null => c.nullable)

LEMMA SafelyHolds ==
    ASSUME NEW p, NEW t, NEW rs, StartsOn(p, t, rs), NEW run, SafelyOn(p, t, rs, run)
    PROVE  Holds(run.table, run.rows) /\ AllDistinct(run.table, run.rows)
<1> DEFINE names == Names(p.old)
           u == run.table
           now == run.rows
<1>1. DOMAIN now = DOMAIN rs /\ \A i \in DOMAIN rs : \A n \in names : now[i][n] = rs[i][n]
  BY DEF SafelyOn, Kept
<1>2. ASSUME NEW i \in DOMAIN now, NEW n \in u.fks PROVE now[i][n] = Null \/ now[i][n].room \in Owners
  <2>1. n \in t.fks /\ n \in names
    BY <1>2 DEF SafelyOn, StartsOn
  <2>2. rs[i][n] = Null \/ rs[i][n].room \in Owners
    BY <1>1, <2>1 DEF StartsOn, Holds
  <2>. QED
    BY <1>1, <2>1, <2>2
<1>3. Holds(u, now)
  BY <1>2 DEF Holds, SafelyOn
<1>4. ASSUME NEW columns \in u.uniques \cup {x.columns : x \in {y \in u.indexes : y.unique}}
      PROVE  Distinct(now, columns)
  <2>1. columns \in t.uniques \cup {x.columns : x \in {y \in t.indexes : y.unique}}
    BY DEF SafelyOn
  <2>2. Distinct(rs, columns) /\ columns \subseteq names
    BY <2>1 DEF StartsOn, AllDistinct
  <2> HIDE DEF names, now
  <2>. QED
    BY <1>1, <2>2 DEF Distinct
<1>5. AllDistinct(u, now)
  BY <1>4 DEF AllDistinct
<1>. QED
  BY <1>3, <1>5

\* an operation succeeds when it applies and leads to a table that holds its rows
LEMMA PerformDone ==
    ASSUME NEW run, run.ok, NEW o, Applicable(run.table, run.rows, o), NEW u, NEW now,
           u = Effect(run.table, run.rows, o).table, now = Effect(run.table, run.rows, o).rows,
           Holds(u, now), AllDistinct(u, now)
    PROVE  Perform(run, o) = Begun(u, now)
<1> DEFINE next == Effect(run.table, run.rows, o)
<1>1. next = Effect(run.table, run.rows, o) /\ next.table = u /\ next.rows = now
  OBVIOUS
<1> HIDE DEF next
<1>2. Perform(run, o) = [ok |-> TRUE, table |-> next.table, rows |-> next.rows]
  BY <1>1, PerformOk
<1>. QED
  BY <1>1, <1>2 DEF Begun

LEMMA SafeColumn ==
    ASSUME NEW p, NEW t, NEW rs, StartsOn(p, t, rs), NEW run, SafelyOn(p, t, rs, run),
           NEW f \in Added(p), f \in FieldRecords, Tame(f), ValidField(f), f.name \notin ColumnNames(run.table)
    PROVE  /\ SafelyOn(p, t, rs, Perform(run, Adding(f)))
           /\ ColumnNames(Perform(run, Adding(f)).table) = ColumnNames(run.table) \cup {f.name}
           /\ Perform(run, Adding(f)).table.indexes = run.table.indexes
<1> DEFINE o == Adding(f)
           e == o.column
           v == Start(e)
           s == run.table
           C == s.columns \cup {e}
           u == [s EXCEPT !.columns = C]
           now == [i \in DOMAIN run.rows |-> Extended(run.rows[i], e.name, v)]
           next == Begun(u, now)
<1>1. IsColumn(e) /\ e.name = f.name /\ e.type = f.type /\ e.default = f.default /\ e.nullable = f.nullable
  <2>1. Column(f).type = f.type
    BY DEF Column, Tame
  <2>. QED
    BY <2>1, AddingIs DEF Tame
<1>2. Fits(e.type, v) /\ (v = Null => e.nullable)
  BY <1>1, StartFits
<1>3. o.op = "add_column"
  BY DEF Adding
<1>4. Applicable(s, run.rows, o) /\ Effect(s, run.rows, o) = [table |-> u, rows |-> now]
  BY <1>1, <1>3 DEF Applicable, Effect, Tame
<1>5. /\ next.ok /\ next.table = u /\ next.rows = now
      /\ IsTable(s) /\ IsFunction(run.rows) /\ run.ok
  BY DEF SafelyOn, Begun
<1>6. /\ IsTable(u) /\ u.uniques = s.uniques /\ u.fks = s.fks /\ u.indexes = s.indexes /\ u.columns = C
  <2> HIDE DEF C, s
  <2>. QED
    BY <1>5 DEF IsTable
<1>7. ColumnNames(u) = ColumnNames(s) \cup {f.name}
  BY <1>1, <1>6 DEF ColumnNames
<1> HIDE DEF u, o, v
<1>8. IsFunction(now) /\ DOMAIN now = DOMAIN run.rows
  BY DEF IsFunction
<1>9. \A i \in DOMAIN run.rows : now[i] = Extended(run.rows[i], e.name, v)
  OBVIOUS
<1> HIDE DEF now, e
<1>10. ASSUME NEW i \in DOMAIN now
       PROVE  /\ IsFunction(now[i]) /\ DOMAIN now[i] = ColumnNames(u)
              /\ now[i][e.name] = v
              /\ \A n \in ColumnNames(s) : now[i][n] = run.rows[i][n]
  <2>1. DOMAIN run.rows[i] = ColumnNames(s)
    BY <1>8 DEF SafelyOn
  <2>2. now[i] = Extended(run.rows[i], e.name, v)
    BY <1>8, <1>9
  <2> DEFINE row == run.rows[i]
             after == Extended(row, e.name, v)
  <2>3. /\ IsFunction(after) /\ DOMAIN after = DOMAIN row \cup {e.name}
        /\ \A n \in DOMAIN row \cup {e.name} : after[n] = IF n = e.name THEN v ELSE row[n]
    BY DEF Extended, IsFunction
  <2> HIDE DEF after
  <2>4. now[i] = after
    BY <2>2 DEF after
  <2>. QED
    BY <1>1, <1>7, <2>1, <2>3, <2>4
<1>11. Kept(Names(p.old), rs, now)
  <2>1. /\ DOMAIN run.rows = DOMAIN rs /\ \A i \in DOMAIN rs : \A n \in Names(p.old) : run.rows[i][n] = rs[i][n]
        /\ Names(p.old) \subseteq ColumnNames(s)
    BY DEF SafelyOn, Kept
  <2>. QED
    BY <1>8, <1>10, <2>1 DEF Kept
<1>12. ASSUME NEW i \in DOMAIN now, NEW c \in u.columns
       PROVE  Fits(c.type, now[i][c.name]) /\ (now[i][c.name] = Null => c.nullable)
  <2>1. CASE c = e
    BY <1>2, <1>10, <2>1
  <2>2. CASE c \in s.columns
    <3>1. Fits(c.type, run.rows[i][c.name]) /\ (run.rows[i][c.name] = Null => c.nullable)
      BY <1>8, <2>2 DEF SafelyOn
    <3>2. now[i][c.name] = run.rows[i][c.name]
      BY <1>10, <2>2 DEF ColumnNames
    <3>. QED
      BY <3>1, <3>2
  <2>. QED
    BY <1>6, <2>1, <2>2
<1>13. ASSUME NEW c \in u.columns
       PROVE  /\ IsColumn(c)
              /\ \A x \in Enums(p) : c.name = x[1].name => c.type = x[1].type \/ c.type = x[2].type
  <2>1. CASE c = e
    <3>1. \A x \in Enums(p) : x[1].name \in Names(p.old)
      BY DEF Enums, Pairs, Names
    <3>2. e.name \notin Names(p.old)
      BY <1>1 DEF Added
    <3>. QED
      BY <1>1, <2>1, <3>1, <3>2
  <2>2. CASE c \in s.columns
    BY <2>2 DEF SafelyOn
  <2>. QED
    BY <1>6, <2>1, <2>2
<1>14. Names(p.old) \subseteq ColumnNames(u)
  BY <1>7 DEF SafelyOn
<1>15. /\ u.uniques = t.uniques /\ u.fks = t.fks
       /\ \A x \in u.indexes : x \in t.indexes \/ ~x.unique
  BY <1>6 DEF SafelyOn
<1> HIDE DEF next, s
<1>16. SafelyOn(p, t, rs, next)
  BY <1>5, <1>6, <1>8, <1>10, <1>11, <1>12, <1>13, <1>14, <1>15 DEF SafelyOn
<1>17. Perform(run, o) = next
  <2>1. /\ Applicable(run.table, run.rows, o)
        /\ u = Effect(run.table, run.rows, o).table /\ now = Effect(run.table, run.rows, o).rows
    BY <1>4 DEF s
  <2>2. Holds(u, now) /\ AllDistinct(u, now)
    BY <1>5, <1>16, SafelyHolds
  <2>3. Perform(run, o) = Begun(u, now)
    BY <1>5, <2>1, <2>2, PerformDone
  <2>. QED
    BY <2>3 DEF next
<1>. QED
  BY <1>5, <1>6, <1>7, <1>16, <1>17 DEF o, s

LEMMA SafeIndex ==
    ASSUME NEW p, NEW t, NEW rs, StartsOn(p, t, rs), NEW run, SafelyOn(p, t, rs, run),
           NEW x, ~x.unique, x \notin run.table.indexes, x.columns \subseteq ColumnNames(run.table)
    PROVE  /\ SafelyOn(p, t, rs, Perform(run, CreateIndex(x)))
           /\ ColumnNames(Perform(run, CreateIndex(x)).table) = ColumnNames(run.table)
           /\ Perform(run, CreateIndex(x)).table.indexes = run.table.indexes \cup {x}
<1> DEFINE o == CreateIndex(x)
           s == run.table
           X == s.indexes \cup {x}
           u == [s EXCEPT !.indexes = X]
           now == run.rows
           next == Begun(u, now)
<1>1. o.op = "add_index" /\ o.index = x
  BY DEF CreateIndex
<1>2. Applicable(s, now, o) /\ Effect(s, now, o) = [table |-> u, rows |-> now]
  BY <1>1 DEF Applicable, Effect
<1>3. /\ next.ok /\ next.table = u /\ next.rows = now
      /\ IsTable(s) /\ run.ok
  BY DEF SafelyOn, Begun
<1>4. /\ IsTable(u) /\ u.uniques = s.uniques /\ u.fks = s.fks /\ u.indexes = X /\ u.columns = s.columns
  <2> HIDE DEF X, s
  <2>. QED
    BY <1>3 DEF IsTable
<1> HIDE DEF u, o
<1>5. ColumnNames(u) = ColumnNames(s)
  BY <1>4 DEF ColumnNames
<1>6. \A y \in u.indexes : y \in t.indexes \/ ~y.unique
  BY <1>4 DEF SafelyOn
<1> HIDE DEF next, s, now, X
<1>7. SafelyOn(p, t, rs, next)
  BY <1>3, <1>4, <1>5, <1>6 DEF SafelyOn, s, now
<1>8. Perform(run, o) = next
  <2>1. /\ Applicable(run.table, run.rows, o)
        /\ u = Effect(run.table, run.rows, o).table /\ now = Effect(run.table, run.rows, o).rows
    BY <1>2 DEF s, now
  <2>2. Holds(u, now) /\ AllDistinct(u, now)
    BY <1>3, <1>7, SafelyHolds
  <2>3. Perform(run, o) = Begun(u, now)
    BY <1>3, <2>1, <2>2, PerformDone
  <2>. QED
    BY <2>3 DEF next
<1>. QED
  BY <1>3, <1>4, <1>5, <1>7, <1>8 DEF o, s, X

\* a value of an enumeration is one of the longer enumeration
LEMMA LongerFits ==
    ASSUME NEW old \in Types, NEW new \in Types, IsEnum(old), IsEnum(new), IsPrefix(old.values, new.values),
           NEW v, Fits(old, v)
    PROVE  Fits(new, v)
<1>1. Len(old.values) \in Nat /\ Len(new.values) \in Nat
  BY DEF Types
<1>2. Len(old.values) <= Len(new.values)
  BY DEF IsPrefix
<1>3. CASE v = Null
  BY <1>3 DEF Fits
<1>4. CASE v # Null
  <2>1. v.room \in 1 .. Len(old.values)
    BY <1>4 DEF Fits, IsEnum
  <2>2. v.room \in 1 .. Len(new.values)
    BY <1>1, <1>2, <2>1
  <2>. QED
    BY <2>2 DEF Fits, IsEnum
<1>. QED
  BY <1>3, <1>4

LEMMA SafeAlter ==
    ASSUME NEW p, Sound(p.old), Sound(p.new), NEW t, NEW rs, StartsOn(p, t, rs), NEW run, SafelyOn(p, t, rs, run),
           NEW pair \in Enums(p), IsPrefix(pair[1].type.values, pair[2].type.values)
    PROVE  /\ SafelyOn(p, t, rs, Perform(run, AlterType(pair[2])))
           /\ ColumnNames(Perform(run, AlterType(pair[2])).table) = ColumnNames(run.table)
           /\ Perform(run, AlterType(pair[2])).table.indexes = run.table.indexes
<1> DEFINE g == pair[2]
           o == AlterType(g)
           s == run.table
           old == run.rows
           C == Typed(s.columns, g.name, g.type)
           u == [s EXCEPT !.columns = C]
           now == [i \in DOMAIN old |-> [old[i] EXCEPT ![g.name] = Place(g.type, @)]]
           next == Begun(u, now)
<1>1. o.op = "alter_type" /\ o.name = g.name /\ o.type = g.type
  BY DEF AlterType
<1>2. /\ Applicable(s, old, o)
      /\ u = Effect(s, old, o).table /\ now = Effect(s, old, o).rows
  <2>1. Effect(s, old, o) = Retype(s, old, o)
    BY <1>1 DEF Effect
  <2>2. Retype(s, old, o) = [table |-> u, rows |-> now]
    BY <1>1 DEF Retype, SetColumn, Typed
  <2>3. Applicable(s, old, o)
    BY <1>1 DEF Applicable
  <2> HIDE DEF u, now
  <2>. QED
    BY <2>1, <2>2, <2>3
<1>3. /\ next.ok /\ next.table = u /\ next.rows = now
      /\ IsTable(s) /\ run.ok
      /\ IsFunction(old) /\ \A i \in DOMAIN old : IsFunction(old[i])
  BY DEF SafelyOn, Begun
<1>4. /\ IsTable(u) /\ u.uniques = s.uniques /\ u.fks = s.fks /\ u.indexes = s.indexes /\ u.columns = C
  <2> HIDE DEF C, s
  <2>. QED
    BY <1>3 DEF IsTable
<1>5. /\ pair[1].type \in Types /\ g.type \in Types /\ IsEnum(pair[1].type) /\ IsEnum(g.type)
      /\ pair[1].name = g.name
      /\ \A e \in Enums(p) : e[1].name = g.name => e = pair
  <2>1. pair[1] \in FieldRecords /\ g \in FieldRecords
    BY DEF Enums, Pairs, Sound
  <2>2. pair[1].type \in Types /\ g.type \in Types
    BY <2>1 DEF FieldRecords
  <2>3. Enums(p) \subseteq Pairs(p)
    BY DEF Enums
  <2>4. \A c, e \in Enums(p) : c[1].name = e[1].name => c = e
    BY <2>3, PairsOnce DEF PairsNamedOnce
  <2>5. pair[1].name = g.name
    BY <2>3 DEF Pairs
  <2>. QED
    BY <2>2, <2>4, <2>5 DEF Enums
<1>6. now = old
  <2>1. \A v : Place(g.type, v) = v
    BY <1>5 DEF Place, IsEnum
  <2>2. ASSUME NEW i \in DOMAIN old PROVE [old[i] EXCEPT ![g.name] = Place(g.type, @)] = old[i]
    <3> DEFINE row == old[i]
               n == g.name
    <3>1. row = [k \in DOMAIN row |-> row[k]]
      BY <1>3, <2>2 DEF IsFunction
    <3> HIDE DEF row, n
    <3>2. [row EXCEPT ![n] = row[n]] = row
      BY <3>1
    <3>3. [row EXCEPT ![n] = Place(g.type, row[n])] = row
      BY <2>1, <3>2
    <3>. QED
      BY <3>3 DEF row, n
  <2>3. now = [i \in DOMAIN old |-> old[i]]
    BY <2>2
  <2>. QED
    BY <1>3, <2>3, Zenon DEF IsFunction
<1> HIDE DEF u, o, now, next
<1>7. ASSUME NEW c \in u.columns
      PROVE  /\ IsColumn(c)
             /\ \A x \in Enums(p) : c.name = x[1].name => c.type = x[1].type \/ c.type = x[2].type
             /\ \E e \in s.columns : /\ e.name = c.name /\ e.nullable = c.nullable
                                     /\ \A v : Fits(e.type, v) => Fits(c.type, v)
  <2>1. PICK e \in s.columns : c = IF e.name = g.name THEN [e EXCEPT !.type = g.type] ELSE e
    BY <1>4 DEF Typed
  <2>2. /\ IsColumn(e)
        /\ \A x \in Enums(p) : e.name = x[1].name => e.type = x[1].type \/ e.type = x[2].type
    BY DEF SafelyOn
  <2>3. CASE e.name # g.name
    BY <2>1, <2>2, <2>3
  <2>4. CASE e.name = g.name
    <3>1. c = [name |-> e.name, type |-> g.type, nullable |-> e.nullable, default |-> e.default]
      BY <2>1, <2>2, <2>4 DEF IsColumn
    <3>2. IsColumn(c) /\ c.name = e.name /\ c.type = g.type /\ c.nullable = e.nullable
      BY <3>1 DEF IsColumn
    <3>3. e.type = pair[1].type \/ e.type = g.type
      BY <1>5, <2>2, <2>4
    <3>4. \A v : Fits(e.type, v) => Fits(c.type, v)
      BY <1>5, <3>2, <3>3, LongerFits
    <3>. QED
      BY <1>5, <2>4, <3>2, <3>4
  <2>. QED
    BY <2>3, <2>4
<1>8. ColumnNames(u) = ColumnNames(s)
  <2>1. \A c \in s.columns : \E e \in u.columns : e.name = c.name
    <3> SUFFICES ASSUME NEW c \in s.columns PROVE \E e \in u.columns : e.name = c.name
      OBVIOUS
    <3> DEFINE e == IF c.name = g.name THEN [c EXCEPT !.type = g.type] ELSE c
    <3>1. e \in u.columns
      BY <1>4 DEF Typed
    <3>2. e.name = c.name
      BY DEF SafelyOn, IsColumn
    <3>. QED
      BY <3>1, <3>2
  <2>. QED
    BY <1>7, <2>1 DEF ColumnNames
<1>9. ASSUME NEW i \in DOMAIN now, NEW c \in u.columns
      PROVE  Fits(c.type, now[i][c.name]) /\ (now[i][c.name] = Null => c.nullable)
  <2>1. PICK e \in s.columns : /\ e.name = c.name /\ e.nullable = c.nullable
                               /\ \A v : Fits(e.type, v) => Fits(c.type, v)
    BY <1>7
  <2>2. Fits(e.type, old[i][e.name]) /\ (old[i][e.name] = Null => e.nullable)
    BY <1>6 DEF SafelyOn
  <2>. QED
    BY <1>6, <2>1, <2>2
<1>10. /\ u.uniques = t.uniques /\ u.fks = t.fks
       /\ \A x \in u.indexes : x \in t.indexes \/ ~x.unique
       /\ Names(p.old) \subseteq ColumnNames(u)
       /\ Kept(Names(p.old), rs, now) /\ IsFunction(now)
       /\ \A i \in DOMAIN now : IsFunction(now[i]) /\ DOMAIN now[i] = ColumnNames(u)
  BY <1>4, <1>6, <1>8 DEF SafelyOn
<1> HIDE DEF s, old, g
<1>11. SafelyOn(p, t, rs, next)
  BY <1>3, <1>4, <1>7, <1>9, <1>10 DEF SafelyOn
<1>12. Perform(run, o) = next
  <2>1. Holds(u, now) /\ AllDistinct(u, now)
    BY <1>3, <1>11, SafelyHolds
  <2>2. /\ Applicable(run.table, run.rows, o)
        /\ u = Effect(run.table, run.rows, o).table /\ now = Effect(run.table, run.rows, o).rows
    BY <1>2 DEF s, old
  <2>3. Perform(run, o) = Begun(u, now)
    BY <1>3, <2>1, <2>2, PerformDone
  <2>. QED
    BY <2>3 DEF next
<1>. QED
  BY <1>3, <1>4, <1>8, <1>11, <1>12 DEF o, g, s

\* an addition is one operation, or two
LEMMA TameAddition ==
    ASSUME NEW f, Tame(f)
    PROVE  Addition(f) = IF f.index THEN <<Adding(f), CreateIndex(FieldIndex(f))>> ELSE <<Adding(f)>>
<1>1. Adding(f) = [op |-> "add_column", column |-> Column(f)]
  BY DEF Adding, Tame
<1>2. \A o : If(f.unique, o) = <<>> /\ If(f.fk, o) = <<>>
  BY DEF If, Tame
<1>3. If(f.index, CreateIndex(FieldIndex(f))) = IF f.index THEN <<CreateIndex(FieldIndex(f))>> ELSE <<>>
  BY DEF If
<1>4. Addition(f) = <<Adding(f)>> \o <<>> \o <<>> \o If(f.index, CreateIndex(FieldIndex(f)))
  BY <1>1, <1>2 DEF Addition
<1> DEFINE a == Adding(f)
           b == CreateIndex(FieldIndex(f))
<1>5. <<a>> \o <<>> \o <<>> \o <<>> = <<a>> /\ <<a>> \o <<>> \o <<>> \o <<b>> = <<a, b>>
  <2> HIDE DEF a, b
  <2>1. <<a>> \in Seq({a, b}) /\ <<b>> \in Seq({a, b})
    OBVIOUS
  <2>2. \A s \in Seq({a, b}) : s \o <<>> = s
    OBVIOUS
  <2>3. <<a>> \o <<b>> = <<a, b>>
    <3>1. Len(<<a>>) = 1 /\ Len(<<b>>) = 1 /\ <<a>>[1] = a /\ <<b>>[1] = b
      OBVIOUS
    <3>2. <<a>> \o <<b>> = [i \in 1 .. 2 |-> IF i <= 1 THEN <<a>>[i] ELSE <<b>>[i - 1]]
      BY <3>1 DEF \o
    <3>3. [i \in 1 .. 2 |-> IF i <= 1 THEN <<a>>[i] ELSE <<b>>[i - 1]] = [i \in 1 .. 2 |-> IF i = 1 THEN a ELSE b]
      BY <3>1
    <3>4. [i \in 1 .. 2 |-> IF i = 1 THEN a ELSE b] = <<a, b>>
      OBVIOUS
    <3>. QED
      BY <3>2, <3>3, <3>4
  <2>. QED
    BY <2>1, <2>2, <2>3
<1>. QED
  BY <1>3, <1>4, <1>5

\* what a migration has still to do is new to the table
Fresh(p, step, t) ==
    /\ \A f \in Added(p) : step = AddStep(f) => f.name \notin ColumnNames(t) /\ FieldIndex(f) \notin t.indexes
    /\ \A x \in IndexesAdded(p) : step = IndexStep(x) => x \notin t.indexes

LEMMA SafeAddition ==
    ASSUME NEW p, NEW t, NEW rs, StartsOn(p, t, rs), NEW run, SafelyOn(p, t, rs, run),
           NEW f \in Added(p), f \in FieldRecords, Tame(f), ValidField(f),
           f.name \notin ColumnNames(run.table), FieldIndex(f) \notin run.table.indexes
    PROVE  /\ SafelyOn(p, t, rs, Group(run, Addition(f)))
           /\ ColumnNames(Group(run, Addition(f)).table) = ColumnNames(run.table) \cup {f.name}
           /\ Group(run, Addition(f)).table.indexes \subseteq run.table.indexes \cup {FieldIndex(f)}
<1> DEFINE a == Perform(run, Adding(f))
           x == FieldIndex(f)
           b == Perform(a, CreateIndex(x))
<1>1. /\ SafelyOn(p, t, rs, a)
      /\ ColumnNames(a.table) = ColumnNames(run.table) \cup {f.name} /\ a.table.indexes = run.table.indexes
  BY SafeColumn
<1>2. ~x.unique /\ x.columns = {f.name}
  BY DEF FieldIndex, Index
<1> HIDE DEF a, x
<1>3. /\ SafelyOn(p, t, rs, b)
      /\ ColumnNames(b.table) = ColumnNames(a.table) /\ b.table.indexes = a.table.indexes \cup {x}
  <2>1. x \notin a.table.indexes /\ x.columns \subseteq ColumnNames(a.table)
    BY <1>1, <1>2 DEF x
  <2>. QED
    BY <1>1, <1>2, <2>1, SafeIndex
<1>4. Group(run, Addition(f)) = IF f.index THEN b ELSE a
  BY TameAddition, GroupOne, GroupTwo DEF a, x
<1> HIDE DEF b
<1>. QED
  BY <1>1, <1>3, <1>4 DEF x

\* the indexes that a safe migration makes are on columns that were there
LEMMA SafeIndexes ==
    ASSUME NEW p, Located(p.old), SafePlan(p)
    PROVE  /\ \A x \in IndexesAdded(p) : ~x.unique /\ x.columns \subseteq Names(p.old) /\ x \notin IndexesOf(p.old)
           /\ \A f \in Added(p) : ~(FieldIndex(f).columns \subseteq Names(p.old))
<1>1. IndexesBefore(p) = IndexesOf(p.old)
  BY IndexesAre DEF SafePlan
<1>2. ASSUME NEW x \in IndexesAdded(p)
      PROVE  ~x.unique /\ x.columns \subseteq Names(p.old) /\ x \notin IndexesOf(p.old)
  <2>1. x \in IndexesAfter(p) /\ x \notin IndexesBefore(p)
    BY DEF IndexesAdded
  <2>2. x \notin p.new.indexes
    BY <2>1 DEF SafePlan, IndexesBefore
  <2>3. PICK c \in Pairs(p) : x = FieldIndex(c[2])
    BY <2>1, <2>2 DEF IndexesAfter, FieldIndexes
  <2>4. c[2].name \in Names(p.old)
    BY DEF Pairs, Names
  <2>5. ~x.unique /\ x.columns = {c[2].name}
    BY <2>3 DEF FieldIndex, Index
  <2>. QED
    BY <1>1, <2>1, <2>4, <2>5
<1>3. \A f \in Added(p) : ~(FieldIndex(f).columns \subseteq Names(p.old))
  BY DEF FieldIndex, Index, Added
<1>. QED
  BY <1>2, <1>3

\* a difference of two valid definitions that is written safely
SafePlanOf(p) ==
    /\ p.old # Absent /\ Sound(p.old) /\ Sound(p.new) /\ Located(p.old) /\ SafePlan(p)
    /\ \A f \in Added(p) : ValidField(f)

LEMMA SafeStep ==
    ASSUME NEW p, SafePlanOf(p), NEW t, NEW rs, StartsOn(p, t, rs), NEW run, SafelyOn(p, t, rs, run),
           NEW step \in SafeSteps(p), Fresh(p, step, run.table)
    PROVE  /\ SafelyOn(p, t, rs, Group(run, step.up))
           /\ \A later \in SafeSteps(p) :
                 later # step /\ Fresh(p, later, run.table) => Fresh(p, later, Group(run, step.up).table)
<1> DEFINE next == Group(run, step.up)
           s == run.table
<1>0. /\ SafePlan(p) /\ Sound(p.old) /\ Sound(p.new) /\ Names(p.old) \subseteq ColumnNames(s)
      /\ \A x \in IndexesAdded(p) : ~x.unique /\ x.columns \subseteq Names(p.old)
      /\ \A f \in Added(p) : FieldIndex(f).columns = {f.name} /\ f.name \notin Names(p.old)
      /\ \A f \in Added(p) : f \in FieldRecords /\ Tame(f) /\ ValidField(f)
  <2>1. \A f \in Added(p) : FieldIndex(f).columns = {f.name} /\ f.name \notin Names(p.old) /\ f \in p.new.fields
    BY DEF FieldIndex, Index, Added
  <2>. QED
    BY <2>1, SafeIndexes DEF SafePlanOf, SafePlan, SafelyOn, Sound
<1>1. CASE \E f \in Added(p) : step = AddStep(f)
  <2>1. PICK f \in Added(p) : step = AddStep(f)
    BY <1>1
  <2>2. step.up = Addition(f)
    BY <2>1 DEF AddStep, Step
  <2>3. f.name \notin ColumnNames(s) /\ FieldIndex(f) \notin s.indexes
    BY <2>1 DEF Fresh
  <2>4. /\ SafelyOn(p, t, rs, next)
        /\ ColumnNames(next.table) = ColumnNames(s) \cup {f.name}
        /\ next.table.indexes \subseteq s.indexes \cup {FieldIndex(f)}
    BY <1>0, <2>2, <2>3, SafeAddition
  <2> HIDE DEF next, s
  <2>5. ASSUME NEW later, later # step, Fresh(p, later, s) PROVE Fresh(p, later, next.table)
    <3>1. ASSUME NEW g \in Added(p), later = AddStep(g)
          PROVE  g.name \notin ColumnNames(next.table) /\ FieldIndex(g) \notin next.table.indexes
      <4>1. g # f
        BY <2>1, <2>5, <3>1
      <4>2. g.name # f.name
        BY <1>0, <4>1 DEF Sound, NamedOnce, Added
      <4>3. FieldIndex(g) # FieldIndex(f)
        BY <1>0, <4>2
      <4>4. g.name \notin ColumnNames(s) /\ FieldIndex(g) \notin s.indexes
        BY <2>5, <3>1 DEF Fresh
      <4>. QED
        BY <2>4, <4>2, <4>3, <4>4
    <3>2. ASSUME NEW x \in IndexesAdded(p), later = IndexStep(x) PROVE x \notin next.table.indexes
      <4>1. x # FieldIndex(f)
        BY <1>0
      <4>2. x \notin s.indexes
        BY <2>5, <3>2 DEF Fresh
      <4>. QED
        BY <2>4, <4>1, <4>2
    <3>. QED
      BY <3>1, <3>2 DEF Fresh
  <2>. QED
    BY <2>4, <2>5 DEF next, s
<1>2. CASE \E c \in Enums(p) : step = AlterStep(c)
  <2>1. PICK c \in Enums(p) : step = AlterStep(c)
    BY <1>2
  <2>2. step.up = <<AlterType(c[2])>>
    BY <2>1 DEF AlterStep, Step
  <2>3. next = Perform(run, AlterType(c[2]))
    BY <2>2, GroupOne
  <2>4. IsPrefix(c[1].type.values, c[2].type.values)
    BY <1>0 DEF SafePlan
  <2>5. /\ SafelyOn(p, t, rs, next)
        /\ ColumnNames(next.table) = ColumnNames(s) /\ next.table.indexes = s.indexes
    BY <1>0, <2>3, <2>4, SafeAlter
  <2> HIDE DEF next, s
  <2>6. \A later : Fresh(p, later, s) => Fresh(p, later, next.table)
    BY <2>5 DEF Fresh
  <2>. QED
    BY <2>5, <2>6 DEF next, s
<1>3. CASE \E x \in IndexesAdded(p) : step = IndexStep(x)
  <2>1. PICK x \in IndexesAdded(p) : step = IndexStep(x)
    BY <1>3
  <2>2. step.up = <<CreateIndex(x)>>
    BY <2>1 DEF IndexStep, Step
  <2>3. next = Perform(run, CreateIndex(x))
    BY <2>2, GroupOne
  <2>4. ~x.unique /\ x \notin s.indexes /\ x.columns \subseteq ColumnNames(s)
    BY <1>0, <2>1 DEF Fresh
  <2>5. /\ SafelyOn(p, t, rs, next)
        /\ ColumnNames(next.table) = ColumnNames(s) /\ next.table.indexes = s.indexes \cup {x}
    BY <2>3, <2>4, SafeIndex
  <2> HIDE DEF next, s
  <2>6. ASSUME NEW later, later # step, Fresh(p, later, s) PROVE Fresh(p, later, next.table)
    <3>1. \A g \in Added(p) : FieldIndex(g) # x
      BY <1>0
    <3>2. \A y \in IndexesAdded(p) : later = IndexStep(y) => y # x
      BY <2>1, <2>6
    <3>. QED
      BY <2>5, <2>6, <3>1, <3>2 DEF Fresh
  <2>. QED
    BY <2>5, <2>6 DEF next, s
<1>. QED
  BY <1>1, <1>2, <1>3 DEF SafeSteps

LEMMA SafeTransaction ==
    ASSUME NEW p, SafePlanOf(p), NEW t, NEW rs, StartsOn(p, t, rs), SafelyOn(p, t, rs, Begun(t, rs)),
           ColumnNames(t) = Names(p.old), t.indexes \subseteq IndexesOf(p.old)
    PROVE  Transaction(t, rs, UpgradeOf(Steps(p, NoPolicy), NoPolicy)).ok
<1> DEFINE steps == Steps(p, NoPolicy)
           groups == UpgradeOf(steps, NoPolicy)
           n == Len(steps)
<1>1. Listed(steps, SafeSteps(p)) /\ Once(steps)
  BY SafeStepsOnce DEF SafePlanOf
<1>2. Len(groups) = n /\ \A i \in 1 .. n : groups[i] = steps[i].up
  BY <1>1, NoPolicyGroups
<1> HIDE DEF steps, groups
<1>3. n \in Nat /\ \A i \in 1 .. n : steps[i] \in SafeSteps(p)
  BY <1>1 DEF Listed
<1>4. PICK h : IsTransaction(h, Begun(t, rs), groups, n) /\ Transaction(t, rs, groups) = h[n]
  BY <1>2, <1>3, TransactionIs
<1>5. h[0] = Begun(t, rs) /\ \A i \in 1 .. n : h[i] = Group(h[i - 1], steps[i].up)
  BY <1>2, <1>4 DEF IsTransaction
<1> DEFINE S == {k \in 0 .. n : /\ SafelyOn(p, t, rs, h[k])
                                /\ \A j \in k + 1 .. n : Fresh(p, steps[j], h[k].table)}
<1>6. 0 \in S
  <2>1. \A x \in t.indexes : x \in IndexesOf(p.old)
    OBVIOUS
  <2>2. /\ \A x \in IndexesAdded(p) : x \notin IndexesOf(p.old)
        /\ \A f \in Added(p) : FieldIndex(f) \notin t.indexes
    <3>1. \A x \in IndexesOf(p.old) : x.columns \subseteq Names(p.old)
      BY IndexesAre DEF SafePlanOf, SafePlan
    <3>. QED
      BY <2>1, <3>1, SafeIndexes DEF SafePlanOf
  <2>3. \A step : Fresh(p, step, t)
    BY <2>1, <2>2 DEF Fresh, Added
  <2>4. h[0].table = t
    BY <1>5 DEF Begun
  <2>5. 0 \in 0 .. n
    BY <1>3
  <2>. QED
    BY <1>5, <2>3, <2>4, <2>5
<1>7. ASSUME NEW k \in 0 + 1 .. n, k - 1 \in S PROVE k \in S
  <2> DEFINE run == h[k - 1]
             step == steps[k]
  <2>1. k \in 1 .. n /\ k \in (k - 1) + 1 .. n /\ k \in 0 .. n
    BY <1>3
  <2>2. SafelyOn(p, t, rs, run) /\ Fresh(p, step, run.table) /\ step \in SafeSteps(p)
    BY <1>3, <1>7, <2>1
  <2>3. h[k] = Group(run, step.up)
    BY <1>5, <2>1
  <2> HIDE DEF run, step
  <2>4. /\ SafelyOn(p, t, rs, h[k])
        /\ \A later \in SafeSteps(p) : later # step /\ Fresh(p, later, run.table) => Fresh(p, later, h[k].table)
    BY <2>2, <2>3, SafeStep
  <2>5. ASSUME NEW j \in k + 1 .. n PROVE Fresh(p, steps[j], h[k].table)
    <3>1. j \in 1 .. n /\ j # k /\ j \in (k - 1) + 1 .. n
      BY <1>3, <2>1
    <3>2. steps[j] # step
      BY <1>1, <2>1, <3>1 DEF Once, step
    <3>3. Fresh(p, steps[j], run.table)
      BY <1>7, <3>1 DEF run
    <3>. QED
      BY <1>3, <2>4, <3>1, <3>2, <3>3
  <2>. QED
    BY <2>1, <2>4, <2>5
<1>8. n \in S
  <2>1. 0 \in 0 .. n /\ n \in 0 .. n
    BY <1>3
  <2> HIDE DEF S
  <2>2. 0 .. n \subseteq S
    BY <1>3, <1>6, <1>7, <2>1, Steady
  <2>. QED
    BY <2>1, <2>2
<1>9. h[n].ok
  BY <1>8 DEF SafelyOn
<1>. QED
  BY <1>4, <1>9 DEF groups, steps

LEMMA ServedStarts ==
    ASSUME NEW p, Sound(p.old), NEW t, NEW rs, Served(p.old, t, rs)
    PROVE  StartsOn(p, t, rs) /\ SafelyOn(p, t, rs, Begun(t, rs))
<1> DEFINE d == p.old
           run == Begun(t, rs)
<1>1. Follows(d, t) /\ RowsSound(t, rs) /\ Holds(t, rs) /\ AllDistinct(t, rs) /\ Valid(d)
  BY DEF Served
<1>2. /\ IsTable(t) /\ ColumnNames(t) = Names(d) /\ t.fks \subseteq Names(d) /\ t.uniques = Uniques(d)
      /\ \A x \in t.indexes : x.columns \subseteq Names(d)
      /\ \A c \in t.columns : IsColumn(c)
  BY <1>1 DEF Follows
<1>3. \A columns \in Uniques(d) : columns \subseteq Names(d)
  <2>1. \A columns \in d.uniques : columns \subseteq Names(d)
    BY <1>1, ValidComposed DEF Composed
  <2>. QED
    BY <2>1 DEF Uniques, CreateTable, Names
<1>4. StartsOn(p, t, rs)
  BY <1>1, <1>2, <1>3 DEF StartsOn
<1>5. ASSUME NEW c \in t.columns, NEW e \in Enums(p), c.name = e[1].name PROVE c.type = e[1].type
  <2>1. e[1] \in d.fields /\ IsEnum(e[1].type)
    BY DEF Enums, Pairs
  <2>2. ~e[1].encrypted
    BY <2>1 DEF Sound, IsEnum
  <2>3. Matches(e[1], c)
    BY <1>1, <1>5, <2>1 DEF Follows
  <2>. QED
    BY <2>2, <2>3 DEF Matches
<1>6. /\ IsFunction(rs)
      /\ \A i \in DOMAIN rs : IsFunction(rs[i]) /\ DOMAIN rs[i] = ColumnNames(t)
  BY <1>1 DEF RowsSound, RowSound
<1>7. \A i \in DOMAIN rs : \A c \in t.columns :
         Fits(c.type, rs[i][c.name]) /\ (rs[i][c.name] = Null => c.nullable)
  BY <1>1 DEF Holds
<1>8. Kept(Names(d), rs, rs)
  BY DEF Kept
<1>9. run.ok /\ run.table = t /\ run.rows = rs
  BY DEF Begun
<1> HIDE DEF run
<1>10. SafelyOn(p, t, rs, run)
  BY <1>2, <1>5, <1>6, <1>7, <1>8, <1>9 DEF SafelyOn
<1>. QED
  BY <1>4, <1>10 DEF run

LEMMA SafeUpgrade ==
    ASSUME NEW d, NEW t, NEW rs, Served(d, t, rs), NEW new \in Definitions, Valid(new), NEW p, p = Plan(d, new),
           ClassifyPlan(p) = "SAFE_ADDITIVE", Renderable(p, NoPolicy), DefaultsFit(p), NoEnumAdded(p)
    PROVE  Transaction(t, rs, UpgradeOf(Steps(p, NoPolicy), NoPolicy)).ok
<1>1. p.old = d /\ p.new = new
  BY DEF Plan
<1>2. p.old # Absent /\ Sound(p.old) /\ Sound(p.new) /\ Located(p.old)
  BY <1>1, DefinedIsNotAbsent, ValidSound, ValidLocated DEF Served
<1>3. SafePlan(p)
  BY <1>2, SafeIsTame
<1>4. \A f \in Added(p) : ValidField(f)
  BY <1>1 DEF Added, Valid
<1>5. SafePlanOf(p)
  BY <1>2, <1>3, <1>4 DEF SafePlanOf
<1>6. StartsOn(p, t, rs) /\ SafelyOn(p, t, rs, Begun(t, rs))
  BY <1>1, <1>2, ServedStarts
<1>7. ColumnNames(t) = Names(p.old) /\ t.indexes \subseteq IndexesOf(p.old)
  BY <1>1 DEF Served, Follows
<1>. QED
  BY <1>5, <1>6, <1>7, SafeTransaction

\* the first migration has no rows to fail on
LEMMA SafeCreation ==
    ASSUME NEW p, p.old = Absent, Valid(p.new)
    PROVE  Transaction(NoTable, <<>>, UpgradeOf(Steps(p, NoPolicy), NoPolicy)).ok
<1> DEFINE create == Creating(p.new)
           step == Step(<<create>>, Dropping)
           steps == Steps(p, NoPolicy)
           groups == UpgradeOf(steps, NoPolicy)
           run == Begun(NoTable, <<>>)
           u == CreateTable(p.new)
<1>1. steps = <<step>> /\ step.up = <<create>>
  BY DEF Steps, TableSteps, Creating, Dropping, Step
<1>2. run.ok /\ run.table = NoTable /\ run.rows = <<>>
  BY DEF Begun
<1>3. create.op = "create_table" /\ create.definition = p.new
  BY DEF Creating
<1> HIDE DEF step, steps, create, run, groups
<1>4. Listed(steps, {step}) /\ Len(steps) = 1 /\ steps[1] = step
  BY <1>1, ListedOne, SingleIs
<1>5. Len(groups) = 1 /\ groups[1] = <<create>>
  <2>1. 1 \in 1 .. Len(steps)
    BY <1>4
  <2>. QED
    BY <1>1, <1>4, <2>1, NoPolicyGroups DEF groups
<1>6. PICK h : IsTransaction(h, run, groups, 1) /\ Transaction(NoTable, <<>>, groups) = h[1]
  <2>1. Len(groups) \in Nat
    BY <1>5
  <2>2. \E f : IsTransaction(f, run, groups, Len(groups)) /\ Transaction(NoTable, <<>>, groups) = f[Len(groups)]
    BY <2>1, TransactionIs DEF run
  <2>. QED
    BY <1>5, <2>2
<1>7. h[1] = Perform(run, create)
  <2>1. h[0] = run /\ h[1] = Group(h[1 - 1], groups[1])
    BY <1>6 DEF IsTransaction
  <2>. QED
    BY <1>5, <2>1, GroupOne
<1>8. Applicable(run.table, run.rows, create)
  <2>1. ~NoTable.exists
    BY DEF NoTable
  <2>2. \A x \in p.new.indexes : x.columns \subseteq Names(p.new)
    BY ValidLocated DEF Located
  <2>. QED
    BY <1>2, <1>3, <2>1, <2>2 DEF Applicable
<1>9. u = Effect(run.table, run.rows, create).table /\ <<>> = Effect(run.table, run.rows, create).rows
  BY <1>2, <1>3 DEF Effect
<1>10. Holds(u, <<>>) /\ AllDistinct(u, <<>>)
  BY DEF Holds, AllDistinct, Distinct
<1> HIDE DEF u
<1>11. Perform(run, create) = Begun(u, <<>>)
  BY <1>2, <1>8, <1>9, <1>10, PerformDone
<1>12. Begun(u, <<>>).ok
  BY DEF Begun
<1>. QED
  BY <1>6, <1>7, <1>11, <1>12 DEF groups, steps

LEMMA InvSafe ==
    ASSUME EvolutionInv
    PROVE  SafeNeverFails
<1> SUFFICES ASSUME NEW new \in Definitions, Valid(new), NEW p, p = Plan(definition, new),
                    ClassifyPlan(p) = "SAFE_ADDITIVE", Renderable(p, NoPolicy), DefaultsFit(p), NoEnumAdded(p)
             PROVE  Transaction(table, rows, UpgradeOf(Steps(p, NoPolicy), NoPolicy)).ok
  BY DEF SafeNeverFails
<1>1. CASE definition # Absent
  BY <1>1, SafeUpgrade DEF EvolutionInv
<1>2. CASE definition = Absent
  <2>1. p.old = Absent /\ p.new = new
    BY <1>2 DEF Plan
  <2>2. table = NoTable /\ rows = <<>>
    BY <1>2 DEF EvolutionInv
  <2>. QED
    BY <2>1, <2>2, SafeCreation
<1>. QED
  BY <1>1, <1>2

\* A migration whose changes are all called safe, that needs no policy and adds
\* no enum, is carried out whatever rows the table holds (classify_plan and
\* generate_alembic_migration, which look at the definitions alone).
THEOREM SafeMigrationsSucceed == EvolutionSpec => []SafeNeverFails
<1>1. EvolutionInv => SafeNeverFails
  BY InvSafe
<1>. QED
  BY <1>1, EvolutionSafe, PTL

-----------------------------------------------------------------------------
(* The execution of migrations                                              *)
\* a rollback that got this far has the historical revision to go back to
GoingBack == {"undoAccept", "rollbackStart", "rollbackDb", "rollbackCommitted",
              "rollbackAccept"}

\* What a call in progress keeps of what it validated
CallInv ==
    \A e \in Executors :
        /\ pc[e] # "idle" => rev[e] # Root
        /\ pc[e] \in GoingBack => Historical(rev[e]) # None
        /\ pc[e] \in {"applyStart", "applyDb"} => Parent[rev[e]] = acc[e]

TInv == TypeOK /\ CallInv

(* Any number of executors *)

USE RevisionsAssumption, NoneAssumption, BoundsAssumption

LEMMA TInvInit == Init => TInv
BY DEF Init, TInv, TypeOK, CallInv, GoingBack, Labels, JournalStates

\* Every step of every call keeps the types and what the calls rely on.
LEMMA TInvNext == TInv /\ [Next]_vars => TInv'
<1> SUFFICES ASSUME TInv, [Next]_vars PROVE TInv'
  OBVIOUS
<1> USE DEF TInv, TypeOK, CallInv, GoingBack, Historical, Labels, JournalStates,
            Goto, files, locals
<1>1. ASSUME NEW e \in Executors, Render(e) PROVE TInv'
  BY <1>1 DEF Render, Begin, Planned
<1>2. ASSUME NEW e \in Executors, RenderArtifact(e) PROVE TInv'
  BY <1>2 DEF RenderArtifact
<1>3. ASSUME NEW e \in Executors, RenderManifest(e) PROVE TInv'
  BY <1>3 DEF RenderManifest, CreatedArtifact
<1>4. ASSUME NEW e \in Executors, RenderPending(e) PROVE TInv'
  BY <1>4 DEF RenderPending, CreatedArtifact
<1>5. ASSUME NEW e \in Executors, Apply(e) PROVE TInv'
  BY <1>5 DEF Apply, Begin, Validated, Entry
<1>6. ASSUME NEW e \in Executors, ApplyStart(e) PROVE TInv'
  BY <1>6 DEF ApplyStart, WriteJournal, Entry
<1>7. ASSUME NEW e \in Executors, ApplyDb(e) PROVE TInv'
  BY <1>7 DEF ApplyDb
<1>8. ASSUME NEW e \in Executors, ApplyCommitted(e) PROVE TInv'
  BY <1>8 DEF ApplyCommitted, WriteJournal, Entry
<1>9. ASSUME NEW e \in Executors, FinalizeHistory(e) PROVE TInv'
  BY <1>9 DEF FinalizeHistory
<1>10. ASSUME NEW e \in Executors, FinalizePublish(e) PROVE TInv'
  <2>0. acc[e] \in Revs /\ history \in [Schemas -> Revs \cup {None}]
    OBVIOUS
  <2>8. \/ history' = history
        \/ history' = [history EXCEPT ![SchemaOf[acc[e]]] = acc[e]]
    BY <1>10 DEF FinalizePublish
  <2>1. history' \in [Schemas -> Revs \cup {None}]
    BY <2>0, <2>8, ZenonT(20)
  <2>2. \A d \in Schemas : history[d] # None => history'[d] = history[d]
    BY <2>0, <1>10, SMTT(20) DEF FinalizePublish
  <2>3. TypeOK'
    BY <1>10, <2>1 DEF FinalizePublish
  <2>4. \A f \in Executors : /\ pc'[f] # "idle" => pc[f] # "idle"
                             /\ pc'[f] \in GoingBack \cup {"applyStart", "applyDb"} => pc'[f] = pc[f]
    BY <1>10 DEF FinalizePublish
  <2>5. rev' = rev /\ acc' = acc
    BY <1>10 DEF FinalizePublish
  <2>6. \A f \in Executors : pc[f] # "idle" => SchemaOf[Parent[rev[f]]] \in Schemas
    OBVIOUS
  <2>7. CallInv'
    BY <2>2, <2>4, <2>5, <2>6
  <2> QED BY <2>3, <2>7
<1>11. ASSUME NEW e \in Executors, FinalizeAccept(e) PROVE TInv'
  BY <1>11 DEF FinalizeAccept
<1>12. ASSUME NEW e \in Executors, FinalizeUnlink(e) PROVE TInv'
  BY <1>12 DEF FinalizeUnlink, UnlinkPending
<1>13. ASSUME NEW e \in Executors, FinalizeComplete(e) PROVE TInv'
  BY <1>13 DEF FinalizeComplete, WriteJournal, Entry
<1>14. ASSUME NEW e \in Executors, RecoverFast(e) PROVE TInv'
  BY <1>14 DEF RecoverFast, Begin, FastPath
<1>15. ASSUME NEW e \in Executors, RecoverForward(e) PROVE TInv'
  BY <1>15 DEF RecoverForward, Begin, Validated
<1>16. ASSUME NEW e \in Executors, RecoverUndo(e) PROVE TInv'
  BY <1>16 DEF RecoverUndo, Begin, Undoing
<1>17. ASSUME NEW e \in Executors, RecoverFastUnlink(e) PROVE TInv'
  BY <1>17 DEF RecoverFastUnlink, UnlinkPending
<1>18. ASSUME NEW e \in Executors, RecoverFastComplete(e) PROVE TInv'
  BY <1>18 DEF RecoverFastComplete, WriteJournal, Entry
<1>19. ASSUME NEW e \in Executors, RecoverLock(e) PROVE TInv'
  BY <1>19 DEF RecoverLock
<1>20. ASSUME NEW e \in Executors, RecoverRetrySafe(e) PROVE TInv'
  BY <1>20 DEF RecoverRetrySafe, CompleteAndUnlock, Entry
<1>21. ASSUME NEW e \in Executors, UndoLock(e) PROVE TInv'
  BY <1>21 DEF UndoLock
<1>22. ASSUME NEW e \in Executors, UndoAccept(e) PROVE TInv'
  BY <1>22 DEF UndoAccept
<1>23. ASSUME NEW e \in Executors, UndoComplete(e) PROVE TInv'
  BY <1>23 DEF UndoComplete, CompleteAndUnlock, Entry
<1>24. ASSUME NEW e \in Executors, Rollback(e) PROVE TInv'
  BY <1>24 DEF Rollback, Begin
<1>25. ASSUME NEW e \in Executors, RollbackStart(e) PROVE TInv'
  BY <1>25 DEF RollbackStart, WriteJournal, Entry
<1>26. ASSUME NEW e \in Executors, RollbackDb(e) PROVE TInv'
  BY <1>26 DEF RollbackDb
<1>27. ASSUME NEW e \in Executors, RollbackCommitted(e) PROVE TInv'
  BY <1>27 DEF RollbackCommitted, WriteJournal, Entry
<1>28. ASSUME NEW e \in Executors, RollbackAccept(e) PROVE TInv'
  BY <1>28 DEF RollbackAccept
<1>29. ASSUME NEW e \in Executors, RollbackComplete(e) PROVE TInv'
  BY <1>29 DEF RollbackComplete, WriteJournal, Entry
<1>30. ASSUME NEW e \in Executors, LockTimeout(e) PROVE TInv'
  BY <1>30 DEF LockTimeout
<1>31. ASSUME NEW e \in Executors, Crash(e) PROVE TInv'
  BY <1>31 DEF Crash
<1>34. CASE SessionEnds
  BY <1>34 DEF SessionEnds
<1>32. CASE OperatorClear
  BY <1>32 DEF OperatorClear
<1>33. CASE UNCHANGED vars
  BY <1>33 DEF vars
<1>. QED
  BY <1>1, <1>2, <1>3, <1>4, <1>5, <1>6, <1>7, <1>8, <1>9, <1>10, <1>11, <1>12, <1>13, <1>14, <1>15, <1>16, <1>17, <1>18, <1>19, <1>20, <1>21, <1>22, <1>23, <1>24, <1>25, <1>26, <1>27, <1>28, <1>29, <1>30, <1>31, <1>32, <1>33, <1>34 DEF Next, Continue, Recover

\* The state keeps its types, for any number of executors and crashes.
THEOREM TypeCorrect == Spec => []TypeOK
<1>1. TInv => TypeOK
  BY DEF TInv
<1>. QED
  BY TInvInit, TInvNext, <1>1, PTL DEF Spec

\* However many executors race for the lock, the database moves along the
\* lineage only, one migration at a time.
THEOREM LineageKept == Spec => DbFollowsLineage
<1> DEFINE Along == db'.rev # db.rev =>
                       \/ db'.rev # Root /\ Parent[db'.rev] = db.rev
                       \/ db.rev # Root /\ Parent[db.rev] = db'.rev
<1>1. ASSUME TInv, [Next]_vars PROVE [Along]_vars
  <2>1. ASSUME NEW e \in Executors, ApplyDb(e) PROVE Along
    BY <1>1, <2>1 DEF ApplyDb, TInv, TypeOK, CallInv
  <2>2. ASSUME NEW e \in Executors, RollbackDb(e) PROVE Along
    BY <1>1, <2>2 DEF RollbackDb, TInv, TypeOK, CallInv
  <2>3. \/ UNCHANGED db
        \/ \E e \in Executors : ApplyDb(e) \/ RollbackDb(e)
    BY <1>1 DEF Next, Continue, Recover, OperatorClear, vars, files, locals,
         Render, RenderArtifact, RenderManifest, RenderPending, Apply, ApplyStart,
         ApplyCommitted, FinalizeHistory, FinalizePublish, FinalizeAccept,
         FinalizeUnlink, FinalizeComplete, RecoverFast, RecoverForward,
         RecoverUndo, RecoverFastUnlink, RecoverFastComplete, RecoverLock,
         RecoverRetrySafe, UndoLock, UndoAccept, UndoComplete, Rollback,
         RollbackStart, RollbackCommitted, RollbackAccept, RollbackComplete,
         LockTimeout, Crash, SessionEnds, Begin, WriteJournal, UnlinkPending, CompleteAndUnlock
  <2>. QED
    BY <2>1, <2>2, <2>3
<1>. QED
  BY <1>1, TInvInit, TInvNext, PTL DEF Spec, DbFollowsLineage

-----------------------------------------------------------------------------
(* One executor at a time *)

Alone == \A e, f \in Executors : e = f

DistinctSchemas == \A r, s \in Revs : SchemaOf[r] = SchemaOf[s] => r = s

\* a history file holds a revision of the schema it is named after
HistoryOK == \A s \in Schemas : history[s] # None => SchemaOf[history[s]] = s

\* the database committed a migration that is not accepted yet
ApplyGap ==
    /\ journal # None
    /\ journal.state \in {"STARTED", "DATABASE_COMMITTED"}
    /\ journal.rev = db.rev
    /\ db.manifest = db.rev
    /\ Validated(db.rev)

\* the database undid a migration that is still accepted
RollbackGap ==
    /\ journal # None
    /\ journal.state \in RollbackStates
    /\ manifest # None
    /\ accepted = manifest
    /\ db.rev = Parent[manifest]
    /\ Historical(manifest) # None

GapInv == db.rev = accepted \/ ApplyGap \/ RollbackGap

Rendering == {"renderArtifact", "renderManifest", "renderPending"}
Planning == {"applyStart", "applyDb", "applyCommitted", "history", "publish",
             "accept", "recoverLock", "retryComplete"}
Agreed == {"renderPending", "applyStart", "applyDb", "unlink", "complete",
           "fastUnlink", "fastComplete", "retryComplete", "undoComplete",
           "rollbackComplete"}
Finished == {"unlink", "complete", "fastUnlink", "fastComplete"}
Forward == {"applyDb", "applyCommitted", "history", "publish", "accept"}
Backward == {"undoLock", "undoAccept", "rollbackStart", "rollbackDb",
             "rollbackCommitted", "rollbackAccept"}

\* What the files and the database are while the only call is at each label
LocalInv ==
    \A e \in Executors :
        /\ pc[e] \in Rendering => pending = None
        /\ pc[e] \in {"renderManifest", "renderPending"} => rev[e] \in artifacts
        /\ pc[e] \in Planning => Validated(rev[e]) /\ acc[e] = accepted
        /\ pc[e] \in Agreed => db.rev = accepted
        /\ pc[e] \in Finished => accepted = rev[e]
        /\ pc[e] \in Forward =>
              journal # None /\ journal.rev = rev[e]
                /\ journal.state \in {"STARTED", "DATABASE_COMMITTED"}
        /\ pc[e] \in {"applyCommitted", "history", "publish", "accept"} =>
              db = [rev |-> rev[e], manifest |-> rev[e]]
        /\ pc[e] = "recoverLock" => journal # None /\ journal.rev = rev[e]
        /\ pc[e] \in Backward => rev[e] = manifest /\ rev[e] = accepted
        /\ pc[e] \in {"undoLock", "undoAccept", "rollbackDb", "rollbackCommitted",
                      "rollbackAccept"} =>
              journal # None /\ journal.state \in RollbackStates
        /\ pc[e] \in {"undoAccept", "rollbackCommitted", "rollbackAccept"} =>
              db.rev = Parent[rev[e]]

PairInv == HistoryOK /\ GapInv /\ LocalInv /\ PendingHasArtifact

IInv == TInv /\ PairInv

LEMMA IInvInit == Init => IInv
<1>1. ASSUME Init PROVE PairInv
  BY <1>1 DEF Init, PairInv, PendingHasArtifact, HistoryOK, GapInv, LocalInv, Rendering, Planning, Agreed,
       Finished, Forward, Backward
<1>. QED
  BY <1>1, TInvInit DEF IInv

\* Every step of the one executor keeps the database and the files at one of
\* the three points GapInv names.
LEMMA IInvNext ==
    ASSUME Alone, DistinctSchemas, CallersRepeat PROVE IInv /\ [Next]_vars => IInv'
<1> SUFFICES ASSUME IInv, [Next]_vars PROVE PairInv'
  BY TInvNext DEF IInv
<1>t. TInv'
  BY TInvNext DEF IInv
<1> USE <1>t DEF IInv, PairInv, PendingHasArtifact, TInv, TypeOK, CallInv, GoingBack, HistoryOK, GapInv, ApplyGap,
            RollbackGap, LocalInv, Alone, DistinctSchemas, Historical, Goto, files,
            locals, Rendering, Planning, Agreed, Finished, Forward, Backward,
            Validated, RollbackStates
<1>1. ASSUME NEW e \in Executors, Render(e) PROVE PairInv'
  BY <1>1 DEF Render, Begin, Planned
<1>2. ASSUME NEW e \in Executors, RenderArtifact(e) PROVE PairInv'
  BY <1>2 DEF RenderArtifact
<1>3. ASSUME NEW e \in Executors, RenderManifest(e) PROVE PairInv'
  BY <1>3 DEF RenderManifest, CreatedArtifact
<1>4. ASSUME NEW e \in Executors, RenderPending(e) PROVE PairInv'
  BY <1>4 DEF RenderPending, CreatedArtifact
<1>5. ASSUME NEW e \in Executors, Apply(e) PROVE PairInv'
  BY <1>5 DEF Apply, Begin, Entry
<1>6. ASSUME NEW e \in Executors, ApplyStart(e) PROVE PairInv'
  BY <1>6 DEF ApplyStart, WriteJournal, Entry, JournalStates
<1>7. ASSUME NEW e \in Executors, ApplyDb(e) PROVE PairInv'
  BY <1>7 DEF ApplyDb
<1>8. ASSUME NEW e \in Executors, ApplyCommitted(e) PROVE PairInv'
  BY <1>8 DEF ApplyCommitted, WriteJournal, Entry, JournalStates
<1>9. ASSUME NEW e \in Executors, FinalizeHistory(e) PROVE PairInv'
  BY <1>9 DEF FinalizeHistory
<1>10. ASSUME NEW e \in Executors, FinalizePublish(e) PROVE PairInv'
  BY <1>10 DEF FinalizePublish
<1>11. ASSUME NEW e \in Executors, FinalizeAccept(e) PROVE PairInv'
  BY <1>11 DEF FinalizeAccept
<1>12. ASSUME NEW e \in Executors, FinalizeUnlink(e) PROVE PairInv'
  BY <1>12 DEF FinalizeUnlink, UnlinkPending
<1>13. ASSUME NEW e \in Executors, FinalizeComplete(e) PROVE PairInv'
  BY <1>13 DEF FinalizeComplete, WriteJournal, Entry
<1>14. ASSUME NEW e \in Executors, RecoverFast(e) PROVE PairInv'
  BY <1>14 DEF RecoverFast, Begin, FastPath
<1>15. ASSUME NEW e \in Executors, RecoverForward(e) PROVE PairInv'
  BY <1>15 DEF RecoverForward, Begin
<1>16. ASSUME NEW e \in Executors, RecoverUndo(e) PROVE PairInv'
  BY <1>16 DEF RecoverUndo, Begin, Undoing
<1>17. ASSUME NEW e \in Executors, RecoverFastUnlink(e) PROVE PairInv'
  BY <1>17 DEF RecoverFastUnlink, UnlinkPending
<1>18. ASSUME NEW e \in Executors, RecoverFastComplete(e) PROVE PairInv'
  BY <1>18 DEF RecoverFastComplete, WriteJournal, Entry
<1>19. ASSUME NEW e \in Executors, RecoverLock(e) PROVE PairInv'
  BY <1>19 DEF RecoverLock
<1>20. ASSUME NEW e \in Executors, RecoverRetrySafe(e) PROVE PairInv'
  BY <1>20 DEF RecoverRetrySafe, CompleteAndUnlock, Entry
<1>21. ASSUME NEW e \in Executors, UndoLock(e) PROVE PairInv'
  BY <1>21 DEF UndoLock
<1>22. ASSUME NEW e \in Executors, UndoAccept(e) PROVE PairInv'
  BY <1>22 DEF UndoAccept
<1>23. ASSUME NEW e \in Executors, UndoComplete(e) PROVE PairInv'
  BY <1>23 DEF UndoComplete, CompleteAndUnlock, Entry
<1>24. ASSUME NEW e \in Executors, Rollback(e) PROVE PairInv'
  BY <1>24 DEF Rollback, Begin
<1>25. ASSUME NEW e \in Executors, RollbackStart(e) PROVE PairInv'
  BY <1>25 DEF RollbackStart, WriteJournal, Entry, JournalStates
<1>26. ASSUME NEW e \in Executors, RollbackDb(e) PROVE PairInv'
  BY <1>26 DEF RollbackDb
<1>27. ASSUME NEW e \in Executors, RollbackCommitted(e) PROVE PairInv'
  BY <1>27 DEF RollbackCommitted, WriteJournal, Entry, JournalStates
<1>28. ASSUME NEW e \in Executors, RollbackAccept(e) PROVE PairInv'
  BY <1>28 DEF RollbackAccept
<1>29. ASSUME NEW e \in Executors, RollbackComplete(e) PROVE PairInv'
  BY <1>29 DEF RollbackComplete, WriteJournal, Entry
<1>30. ASSUME NEW e \in Executors, LockTimeout(e) PROVE PairInv'
  BY <1>30 DEF LockTimeout
<1>31. ASSUME NEW e \in Executors, Crash(e) PROVE PairInv'
  BY <1>31 DEF Crash
<1>34. CASE SessionEnds
  BY <1>34 DEF SessionEnds
<1>32. CASE OperatorClear
  BY <1>32 DEF OperatorClear, Quiescent, Settled
<1>33. CASE UNCHANGED vars
  BY <1>33 DEF vars
<1>. QED
  BY <1>1, <1>2, <1>3, <1>4, <1>5, <1>6, <1>7, <1>8, <1>9, <1>10, <1>11, <1>12, <1>13, <1>14, <1>15, <1>16, <1>17, <1>18, <1>19, <1>20, <1>21, <1>22, <1>23, <1>24, <1>25, <1>26, <1>27, <1>28, <1>29, <1>30, <1>31, <1>32, <1>33, <1>34 DEF Next, Continue, Recover

LEMMA IInvAlways ==
    ASSUME Alone, DistinctSchemas, CallersRepeat PROVE Spec => []IInv
<1>1. IInv /\ [Next]_vars => IInv'
  BY IInvNext
<1>. QED
  BY IInvInit, <1>1, PTL DEF Spec

\* Wherever apply, recover and rollback may die, an executor that finds no call
\* running and a journal that asks for no recovery finds the database at the
\* accepted revision.
THEOREM Agreement ==
    ASSUME Alone, DistinctSchemas, CallersRepeat PROVE Spec => []DbAcceptedAgree
<1>1. IInv => DbAcceptedAgree
  BY DEF IInv, PairInv, GapInv, ApplyGap, RollbackGap, DbAcceptedAgree, Quiescent,
         Settled, RollbackStates, TInv, TypeOK
<1>. QED
  BY IInvAlways, <1>1, PTL

\* What recover's short cut declares finalized is accepted and in the database.
THEOREM ShortCutFinal ==
    ASSUME Alone, DistinctSchemas, CallersRepeat PROVE Spec => []FastPathIsFinalized
<1>1. IInv => FastPathIsFinalized
  BY DEF IInv, PairInv, LocalInv, Agreed, Finished, FastPathIsFinalized
<1>. QED
  BY IInvAlways, <1>1, PTL

\* One renderer at a time never leaves a pending revision without its migration.
THEOREM PendingPublished ==
    ASSUME Alone, DistinctSchemas, CallersRepeat PROVE Spec => []PendingHasArtifact
<1>1. IInv => PendingHasArtifact
  BY DEF IInv, PairInv
<1>. QED
  BY IInvAlways, <1>1, PTL

-----------------------------------------------------------------------------
(* Refinement of the two-step promise *)

\* Every step is a database transaction along the lineage, a publication of what
\* the database holds, or invisible.
LEMMA StepRefines ==
    ASSUME Alone, DistinctSchemas, CallersRepeat, IInv, [Next]_vars
    PROVE  [Atomic!Next]_<<db.rev, accepted>>
<1> USE DEF Atomic!Next, Atomic!Upgrade, Atomic!Downgrade, Atomic!Publish, IInv,
            PairInv, TInv, TypeOK, CallInv, LocalInv, HistoryOK, Alone,
            DistinctSchemas, Validated, Historical, files, locals, Agreed, Planning,
            Backward, Forward, GoingBack
<1>1. ASSUME NEW e \in Executors, ApplyDb(e) PROVE Atomic!Upgrade \/ UNCHANGED <<db.rev, accepted>>
  BY <1>1 DEF ApplyDb
<1>2. ASSUME NEW e \in Executors, RollbackDb(e) PROVE Atomic!Downgrade \/ UNCHANGED <<db.rev, accepted>>
  BY <1>2 DEF RollbackDb, GapInv, ApplyGap, RollbackGap
<1>3. ASSUME NEW e \in Executors, FinalizeAccept(e) PROVE Atomic!Publish
  BY <1>3 DEF FinalizeAccept
<1>4. ASSUME NEW e \in Executors, UndoAccept(e) \/ RollbackAccept(e) PROVE Atomic!Publish
  BY <1>4 DEF UndoAccept, RollbackAccept
<1>5. \/ UNCHANGED <<db, accepted>>
      \/ \E e \in Executors : ApplyDb(e) \/ RollbackDb(e) \/ FinalizeAccept(e)
                                 \/ UndoAccept(e) \/ RollbackAccept(e)
  BY DEF Next, Continue, Recover, OperatorClear, vars,
       Render, RenderArtifact, RenderManifest, RenderPending, Apply, ApplyStart,
       ApplyCommitted, FinalizeHistory, FinalizePublish,
       FinalizeUnlink, FinalizeComplete, RecoverFast, RecoverForward,
       RecoverUndo, RecoverFastUnlink, RecoverFastComplete, RecoverLock,
       RecoverRetrySafe, UndoLock, UndoComplete, Rollback,
       RollbackStart, RollbackCommitted, RollbackComplete,
       LockTimeout, Crash, SessionEnds, Begin, WriteJournal, UnlinkPending, CompleteAndUnlock
<1>. QED
  BY <1>1, <1>2, <1>3, <1>4, <1>5

\* The journalled executor implements AtomicMigration: the database leads, the
\* accepted state follows, and they are never more than one migration apart.
THEOREM Refinement ==
    ASSUME Alone, DistinctSchemas, CallersRepeat PROVE Spec => AtomicSpec
<1>1. Init => Atomic!Init
  BY DEF Init, Atomic!Init
<1>2. IInv /\ [Next]_vars => [Atomic!Next]_<<db.rev, accepted>>
  BY StepRefines
<1>. QED
  BY <1>1, <1>2, IInvAlways, PTL DEF Spec, AtomicSpec, Atomic!Spec

-----------------------------------------------------------------------------
(* An apply that died once *)

Applying == journal # None /\ journal.state \in {"STARTED", "DATABASE_COMMITTED"}

\* what ApplyRecoverable asks for, whether or not a call is running
Recoverable ==
    Applying =>
        \/ FastPath(SchemaOf[journal.rev]) /\ db.rev = accepted
        \/ Validated(journal.rev) /\ db.rev \in {journal.rev, accepted}

\* Only a death between the transaction and the journal leaves STARTED over a
\* migration that was committed; the one call that then finalizes it passes a
\* point, after accepted moved, from which nothing could recover it again.
ApplyInv ==
    /\ \A e \in Executors :
          /\ pc[e] \in Finished => Applying /\ journal.rev = rev[e]
          /\ pc[e] \in {"fastUnlink", "fastComplete"} => journal.state = "DATABASE_COMMITTED"
    /\ journal # None /\ journal.state = "STARTED" /\ db.rev = journal.rev =>
          crashes >= 1 \/ \E e \in Executors : pc[e] = "applyCommitted"
    /\ crashes <= 1 =>
          Recoverable \/ (crashes = 1 /\ \E e \in Executors : pc[e] \in {"unlink", "complete"})

LEMMA ApplyInvInit == Init => ApplyInv
BY DEF Init, ApplyInv, Applying, Recoverable, Finished

\* Every step of the one executor keeps the way out of an unfinished apply.
LEMMA ApplyInvNext ==
    ASSUME Alone, DistinctSchemas, CallersRepeat PROVE IInv /\ ApplyInv /\ [Next]_vars => ApplyInv'
<1> SUFFICES ASSUME IInv, ApplyInv, [Next]_vars PROVE ApplyInv'
  OBVIOUS
<1> USE DEF IInv, PairInv, TInv, TypeOK, CallInv, LocalInv, Alone, DistinctSchemas, Goto, files, locals,
            Rendering, Planning, Agreed, Finished, Forward, Backward, Validated, RollbackStates, FastPath,
            ApplyInv, Applying, Recoverable
<1>1. ASSUME NEW e \in Executors, Render(e) PROVE ApplyInv'
  BY <1>1 DEF Render, Begin, Planned
<1>2. ASSUME NEW e \in Executors, RenderArtifact(e) PROVE ApplyInv'
  BY <1>2 DEF RenderArtifact
<1>3. ASSUME NEW e \in Executors, RenderManifest(e) PROVE ApplyInv'
  BY <1>3 DEF RenderManifest, CreatedArtifact
<1>4. ASSUME NEW e \in Executors, RenderPending(e) PROVE ApplyInv'
  BY <1>4 DEF RenderPending, CreatedArtifact
<1>5. ASSUME NEW e \in Executors, Apply(e) PROVE ApplyInv'
  BY <1>5 DEF Apply, Begin, Entry
<1>6. ASSUME NEW e \in Executors, ApplyStart(e) PROVE ApplyInv'
  BY <1>6 DEF ApplyStart, WriteJournal, Entry
<1>7. ASSUME NEW e \in Executors, ApplyDb(e) PROVE ApplyInv'
  BY <1>7 DEF ApplyDb
<1>8. ASSUME NEW e \in Executors, ApplyCommitted(e) PROVE ApplyInv'
  BY <1>8 DEF ApplyCommitted, WriteJournal, Entry
<1>9. ASSUME NEW e \in Executors, FinalizeHistory(e) PROVE ApplyInv'
  BY <1>9 DEF FinalizeHistory
<1>10. ASSUME NEW e \in Executors, FinalizePublish(e) PROVE ApplyInv'
  BY <1>10 DEF FinalizePublish
<1>11. ASSUME NEW e \in Executors, FinalizeAccept(e) PROVE ApplyInv'
  BY <1>11 DEF FinalizeAccept
<1>12. ASSUME NEW e \in Executors, FinalizeUnlink(e) PROVE ApplyInv'
  BY <1>12 DEF FinalizeUnlink, UnlinkPending
<1>13. ASSUME NEW e \in Executors, FinalizeComplete(e) PROVE ApplyInv'
  BY <1>13 DEF FinalizeComplete, WriteJournal, Entry
<1>14. ASSUME NEW e \in Executors, RecoverFast(e) PROVE ApplyInv'
  BY <1>14 DEF RecoverFast, Begin
<1>15. ASSUME NEW e \in Executors, RecoverForward(e) PROVE ApplyInv'
  BY <1>15 DEF RecoverForward, Begin
<1>16. ASSUME NEW e \in Executors, RecoverUndo(e) PROVE ApplyInv'
  BY <1>16 DEF RecoverUndo, Begin, Undoing
<1>17. ASSUME NEW e \in Executors, RecoverFastUnlink(e) PROVE ApplyInv'
  BY <1>17 DEF RecoverFastUnlink, UnlinkPending
<1>18. ASSUME NEW e \in Executors, RecoverFastComplete(e) PROVE ApplyInv'
  BY <1>18 DEF RecoverFastComplete, WriteJournal, Entry
<1>19. ASSUME NEW e \in Executors, RecoverLock(e) PROVE ApplyInv'
  BY <1>19 DEF RecoverLock
<1>20. ASSUME NEW e \in Executors, RecoverRetrySafe(e) PROVE ApplyInv'
  BY <1>20 DEF RecoverRetrySafe, CompleteAndUnlock, Entry
<1>21. ASSUME NEW e \in Executors, UndoLock(e) PROVE ApplyInv'
  BY <1>21 DEF UndoLock
<1>22. ASSUME NEW e \in Executors, UndoAccept(e) PROVE ApplyInv'
  BY <1>22 DEF UndoAccept
<1>23. ASSUME NEW e \in Executors, UndoComplete(e) PROVE ApplyInv'
  BY <1>23 DEF UndoComplete, CompleteAndUnlock, Entry
<1>24. ASSUME NEW e \in Executors, Rollback(e) PROVE ApplyInv'
  BY <1>24 DEF Rollback, Begin
<1>25. ASSUME NEW e \in Executors, RollbackStart(e) PROVE ApplyInv'
  BY <1>25 DEF RollbackStart, WriteJournal, Entry
<1>26. ASSUME NEW e \in Executors, RollbackDb(e) PROVE ApplyInv'
  BY <1>26 DEF RollbackDb
<1>27. ASSUME NEW e \in Executors, RollbackCommitted(e) PROVE ApplyInv'
  BY <1>27 DEF RollbackCommitted, WriteJournal, Entry
<1>28. ASSUME NEW e \in Executors, RollbackAccept(e) PROVE ApplyInv'
  BY <1>28 DEF RollbackAccept
<1>29. ASSUME NEW e \in Executors, RollbackComplete(e) PROVE ApplyInv'
  BY <1>29 DEF RollbackComplete, WriteJournal, Entry
<1>30. ASSUME NEW e \in Executors, LockTimeout(e) PROVE ApplyInv'
  BY <1>30 DEF LockTimeout
<1>31. ASSUME NEW e \in Executors, Crash(e) PROVE ApplyInv'
  BY <1>31 DEF Crash
<1>32. CASE SessionEnds
  BY <1>32 DEF SessionEnds
<1>33. CASE OperatorClear
  BY <1>33 DEF OperatorClear, Quiescent, Settled
<1>34. CASE UNCHANGED vars
  BY <1>34 DEF vars
<1>. QED
  BY <1>1, <1>2, <1>3, <1>4, <1>5, <1>6, <1>7, <1>8, <1>9, <1>10, <1>11, <1>12, <1>13, <1>14, <1>15, <1>16, <1>17, <1>18, <1>19, <1>20, <1>21, <1>22, <1>23, <1>24, <1>25, <1>26, <1>27, <1>28, <1>29, <1>30, <1>31, <1>32, <1>33, <1>34 DEF Next, Continue, Recover

\* An apply that died once, wherever it died, can be recovered.
THEOREM DiedOnceRecoverable ==
    ASSUME Alone, DistinctSchemas, CallersRepeat PROVE Spec => []OneCrashRecoverable
<1>1. IInv /\ ApplyInv /\ [Next]_vars => ApplyInv'
  BY ApplyInvNext
<1>2. ApplyInv /\ IInv => OneCrashRecoverable
  BY DEF IInv, TInv, TypeOK, JournalStates, ApplyInv, Applying, Recoverable, OneCrashRecoverable, ApplyRecoverable,
         Quiescent, Settled, RollbackStates
<1>. QED
  BY ApplyInvInit, IInvAlways, <1>1, <1>2, PTL DEF Spec
=============================================================================
