----------------------------- MODULE ServicesProofs -----------------------------
(***************************************************************************)
(* Proofs about three of the services around the engine: Transcript, for   *)
(* any number of rows and calls, any times and page size, and any order of *)
(* writing, polling, streaming and reading; CedarServer, for any callers,  *)
(* schemas, policies, entities and requests, and any number of calls, in   *)
(* any interleaving; and Guardrails, for any limits and any number of      *)
(* templates, whatever they say and however long they take.                *)
(***************************************************************************)
EXTENDS Transcript, CedarServer, Guardrails, FiniteSetTheorems, FunctionTheorems,
        SequenceTheorems, WellFoundedInduction, TLAPS

-----------------------------------------------------------------------------
\* Induction on the natural numbers, for a set.
LEMMA EveryNumber ==
    ASSUME NEW S, 0 \in S, \A k \in Nat : k \in S => k + 1 \in S
    PROVE  Nat \subseteq S
<1> DEFINE T == Nat \ S
<1>1. SUFFICES ASSUME T # {} PROVE FALSE
  OBVIOUS
<1>2. PICK x \in T : \A y \in T : ~(<<y, x>> \in OpToRel(<, Nat))
  BY <1>1, NatLessThanWellFounded, WFMin
<1>3. \A y \in T : ~(y < x)
  BY <1>2 DEF OpToRel
<1>4. x # 0 /\ x - 1 \in Nat /\ x - 1 < x
  OBVIOUS
<1>5. x - 1 \in S
  BY <1>3, <1>4
<1>6. (x - 1) + 1 \in S
  BY <1>4, <1>5
<1>7. QED
  BY <1>6

-----------------------------------------------------------------------------
(***************************************************************************)
(* Rows in event order.                                                    *)
(***************************************************************************)
Sortable(S) ==
    /\ IsFiniteSet(S)
    /\ \A e \in S : e.id \in Nat /\ e.time \in Nat
    /\ \A e, f \in S : e.id = f.id => e = f

\* EVENT_ORDER is a strict total order: ids are not used twice.
LEMMA OrderIsTotal ==
    ASSUME NEW S, Sortable(S)
    PROVE  /\ \A e \in S : ~InEventOrder(e, e)
           /\ \A e, f \in S : e # f => InEventOrder(e, f) \/ InEventOrder(f, e)
           /\ \A e, f, g \in S : InEventOrder(e, f) /\ InEventOrder(f, g) => InEventOrder(e, g)
  BY DEF Sortable, InEventOrder

Rank(S, e) == Cardinality(Before(S, e))

\* The rank of a row is the number of rows before it.
LEMMA Ranks ==
    ASSUME NEW S, Sortable(S), NEW e \in S
    PROVE  Rank(S, e) \in 0..(Cardinality(S) - 1)
<1>1. Before(S, e) \in SUBSET (S \ {e})
  BY OrderIsTotal DEF Before
<1>2. IsFiniteSet(S \ {e}) /\ Cardinality(S \ {e}) = Cardinality(S) - 1
  BY FS_RemoveElement DEF Sortable
<1>3. Cardinality(S) \in Nat
  BY FS_CardinalityType DEF Sortable
<1>4. /\ IsFiniteSet(Before(S, e))
      /\ Cardinality(Before(S, e)) <= Cardinality(S \ {e})
  BY <1>1, <1>2, FS_Subset
<1>5. Cardinality(Before(S, e)) \in Nat
  BY <1>4, FS_CardinalityType
<1>6. QED
  BY <1>2, <1>3, <1>4, <1>5 DEF Rank

\* A later row has a higher rank.
LEMMA RanksGrow ==
    ASSUME NEW S, Sortable(S), NEW e \in S, NEW f \in S, InEventOrder(e, f)
    PROVE  Rank(S, e) < Rank(S, f)
<1>1. Before(S, e) \cup {e} \in SUBSET Before(S, f)
  BY OrderIsTotal DEF Before
<1>2. e \notin Before(S, e)
  BY OrderIsTotal DEF Before
<1>3. IsFiniteSet(Before(S, e)) /\ IsFiniteSet(Before(S, f))
  <2>1. Before(S, e) \in SUBSET S /\ Before(S, f) \in SUBSET S
    BY DEF Before
  <2>2. QED
    BY <2>1, FS_Subset DEF Sortable
<1>4. Cardinality(Before(S, e) \cup {e}) = Cardinality(Before(S, e)) + 1
  BY <1>2, <1>3, FS_AddElement
<1>5. Cardinality(Before(S, e) \cup {e}) <= Cardinality(Before(S, f))
  BY <1>1, <1>3, FS_Subset
<1>6. Cardinality(Before(S, e)) \in Nat /\ Cardinality(Before(S, f)) \in Nat
  BY <1>3, FS_CardinalityType
<1>7. QED
  BY <1>4, <1>5, <1>6 DEF Rank

\* No two rows have the same rank.
LEMMA RanksDiffer ==
    ASSUME NEW S, Sortable(S), NEW e \in S, NEW f \in S, Rank(S, e) = Rank(S, f)
    PROVE  e = f
<1>1. Rank(S, e) \in Int /\ Rank(S, f) \in Int
  BY Ranks
<1>2. SUFFICES ASSUME e # f PROVE FALSE
  OBVIOUS
<1>3. InEventOrder(e, f) \/ InEventOrder(f, e)
  BY <1>2, OrderIsTotal
<1>4. Rank(S, e) < Rank(S, f) \/ Rank(S, f) < Rank(S, e)
  BY <1>3, RanksGrow
<1>5. QED
  BY <1>1, <1>4

\* Every rank has a row, since there are as many of each.
LEMMA EveryRank ==
    ASSUME NEW S, Sortable(S), NEW k \in 0..(Cardinality(S) - 1)
    PROVE  \E e \in S : Rank(S, e) = k
<1> DEFINE T == 0..(Cardinality(S) - 1)
           rank == [e \in S |-> Rank(S, e)]
<1>1. Cardinality(S) \in Nat
  BY FS_CardinalityType DEF Sortable
<1>2. IsFiniteSet(T) /\ Cardinality(T) = Cardinality(S)
  BY <1>1, FS_Interval
<1>3. rank \in [S -> T]
  BY Ranks
<1>4. rank \in Injection(S, T)
  BY <1>3, RanksDiffer DEF Injection, IsInjective
<1>5. rank \in Surjection(S, T)
  <2> HIDE DEF T, rank
  <2>1. Cardinality(S) = Cardinality(T) <=> rank \in Surjection(S, T)
    BY <1>2, <1>4, FS_Injection, Zenon
  <2>2. QED
    BY <1>2, <2>1
<1>6. QED
  BY <1>5 DEF Surjection

\* A set of rows in event order: each of them once, earlier ones first.
LEMMA OrderedIs ==
    ASSUME NEW S, Sortable(S)
    PROVE  /\ Cardinality(S) \in Nat
           /\ Ordered(S) \in [1..Cardinality(S) -> S]
           /\ Ordered(S) \in Seq(S) /\ Len(Ordered(S)) = Cardinality(S)
           /\ \A i \in 1..Cardinality(S) : Rank(S, Ordered(S)[i]) = i - 1
           /\ \A e \in S : \E i \in 1..Cardinality(S) : Ordered(S)[i] = e
           /\ \A i, j \in 1..Cardinality(S) :
                  i < j => InEventOrder(Ordered(S)[i], Ordered(S)[j])
<1> DEFINE n == Cardinality(S)
           s == Ordered(S)
<1>1. n \in Nat
  BY FS_CardinalityType DEF Sortable
<1>2. \A i \in 1..n : s[i] \in S /\ Rank(S, s[i]) = i - 1
  <2>1. TAKE i \in 1..n
  <2>2. i - 1 \in 0..(n - 1)
    BY <1>1
  <2>3. \E e \in S : Cardinality(Before(S, e)) = i - 1
    BY <2>2, EveryRank DEF Rank
  <2>4. s[i] = CHOOSE e \in S : Cardinality(Before(S, e)) = i - 1
    BY <2>1 DEF Ordered
  <2>5. QED
    BY <2>3, <2>4 DEF Rank
<1>3. s = [i \in 1..n |-> s[i]]
  BY DEF Ordered
<1>4. s \in [1..n -> S]
  BY <1>2, <1>3
<1>5. s \in Seq(S) /\ Len(s) = n
  BY <1>1, <1>4, SeqDef, LenProperties
<1>6. ASSUME NEW e \in S PROVE \E i \in 1..n : s[i] = e
  <2>1. PICK k \in 0..(n - 1) : Rank(S, e) = k
    BY Ranks
  <2>2. k + 1 \in 1..n /\ (k + 1) - 1 = k
    BY <1>1
  <2>3. s[k + 1] = e
    BY <1>2, <2>1, <2>2, RanksDiffer
  <2>4. QED
    BY <2>2, <2>3
<1>7. ASSUME NEW i \in 1..n, NEW j \in 1..n, i < j PROVE InEventOrder(s[i], s[j])
  <2>1. s[i] \in S /\ s[j] \in S /\ Rank(S, s[i]) = i - 1 /\ Rank(S, s[j]) = j - 1
    BY <1>2
  <2>2. s[i] # s[j]
    BY <1>7, <2>1
  <2>3. ~(Rank(S, s[j]) < Rank(S, s[i]))
    BY <1>7, <2>1
  <2>4. QED
    BY <2>1, <2>2, <2>3, OrderIsTotal, RanksGrow
<1>8. QED
  BY <1>1, <1>2, <1>4, <1>5, <1>6, <1>7

\* There is one list of them that is in order.
LEMMA OrderedIsTheOnly ==
    ASSUME NEW S, Sortable(S), NEW n \in Nat, NEW s \in [1..n -> S],
           \A e \in S : \E i \in 1..n : s[i] = e,
           \A i, j \in 1..n : i < j => InEventOrder(s[i], s[j])
    PROVE  s = Ordered(S)
<1>1. ASSUME NEW i \in 1..n PROVE Rank(S, s[i]) = i - 1
  <2> DEFINE first == [k \in 1..(i - 1) |-> s[k]]
  <2>1. ASSUME NEW j \in 1..n, NEW k \in 1..n, InEventOrder(s[j], s[k]) PROVE j < k
    <3>1. ~InEventOrder(s[k], s[j]) /\ s[j] # s[k]
      BY <2>1, OrderIsTotal
    <3>2. ~(k < j) /\ j # k
      BY <3>1
    <3>3. QED
      BY <3>2
  <2>2. first \in [1..(i - 1) -> Before(S, s[i])]
    BY DEF Before
  <2>3. \A e \in Before(S, s[i]) : \E k \in 1..(i - 1) : first[k] = e
    <3> TAKE e \in Before(S, s[i])
    <3>1. e \in S /\ InEventOrder(e, s[i])
      BY DEF Before
    <3>2. PICK k \in 1..n : s[k] = e
      BY <3>1
    <3>3. k < i
      BY <2>1, <3>1, <3>2
    <3>4. QED
      BY <3>2, <3>3
  <2>4. first \in Surjection(1..(i - 1), Before(S, s[i]))
    BY <2>2, <2>3 DEF Surjection
  <2>5. \A j, k \in 1..(i - 1) : first[j] = first[k] => j = k
    <3> SUFFICES ASSUME NEW j \in 1..(i - 1), NEW k \in 1..(i - 1), j < k PROVE first[j] # first[k]
      OBVIOUS
    <3>1. InEventOrder(s[j], s[k]) /\ s[j] \in S
      OBVIOUS
    <3>2. QED
      BY <3>1, OrderIsTotal
  <2>6. first \in Injection(1..(i - 1), Before(S, s[i]))
    BY <2>2, <2>5 DEF Injection, IsInjective
  <2>7. IsFiniteSet(1..(i - 1)) /\ Cardinality(1..(i - 1)) = i - 1
    BY FS_Interval
  <2>8. Cardinality(Before(S, s[i])) = Cardinality(1..(i - 1))
    <3> HIDE DEF first
    <3> DEFINE A == 1..(i - 1)
               B == Before(S, s[i])
    <3>1. first \in Surjection(A, B) /\ first \in Injection(A, B) /\ IsFiniteSet(A)
      BY <2>4, <2>6, <2>7
    <3> HIDE DEF A, B
    <3>2. Cardinality(B) = Cardinality(A)
      BY <3>1, FS_Surjection, Zenon
    <3>3. QED
      BY <3>2 DEF A, B
  <2>9. QED
    BY <2>7, <2>8 DEF Rank
<1>2. n = Cardinality(S)
  <2>1. s \in Surjection(1..n, S)
    BY DEF Surjection
  <2>2. \A j, k \in 1..n : s[j] = s[k] => j = k
    <3> SUFFICES ASSUME NEW j \in 1..n, NEW k \in 1..n, j < k PROVE s[j] # s[k]
      OBVIOUS
    <3>1. InEventOrder(s[j], s[k]) /\ s[j] \in S
      OBVIOUS
    <3>2. QED
      BY <3>1, OrderIsTotal
  <2>3. s \in Injection(1..n, S)
    BY <2>2 DEF Injection, IsInjective
  <2>4. IsFiniteSet(1..n) /\ Cardinality(1..n) = n
    BY FS_Interval
  <2>5. Cardinality(S) = Cardinality(1..n)
    <3> DEFINE A == 1..n
    <3>1. s \in Surjection(A, S) /\ s \in Injection(A, S) /\ IsFiniteSet(A)
      BY <2>1, <2>3, <2>4
    <3> HIDE DEF A
    <3>2. Cardinality(S) = Cardinality(A)
      BY <3>1, FS_Surjection, Zenon
    <3>3. QED
      BY <3>2 DEF A
  <2>6. QED
    BY <2>4, <2>5
<1>3. \A i \in 1..n : Ordered(S)[i] = s[i]
  <2> TAKE i \in 1..n
  <2>1. Ordered(S)[i] \in S /\ Rank(S, Ordered(S)[i]) = i - 1
    BY <1>2, OrderedIs
  <2>2. QED
    BY <1>1, <2>1, RanksDiffer
<1>4. QED
  BY <1>2, <1>3, OrderedIs

-----------------------------------------------------------------------------
(***************************************************************************)
(* The two folds over a list, step by step.                                *)
(***************************************************************************)
\* f is what the screen is after each of the first n events.
IsIngest(f, n, screen) ==
    /\ f[0] = screen
    /\ \A i \in 1..n : f[i] = Ingest(f[i - 1], queue[i])

\* The fold of Ingest over a list is a function.
LEMMA IngestExists ==
    ASSUME NEW n \in Nat, NEW screen
    PROVE  \E f : f = [i \in 0..n |-> f[i]] /\ IsIngest(f, n, screen)
<1> DEFINE S == {k \in Nat : \E f : f = [i \in 0..k |-> f[i]] /\ IsIngest(f, k, screen)}
<1>1. 0 \in S
  <2>1. PICK f : f = [i \in 0..0 |-> screen]
    OBVIOUS
  <2>2. f[0] = screen /\ f = [i \in 0..0 |-> f[i]]
    BY <2>1
  <2>3. QED
    BY <2>2 DEF IsIngest
<1>2. ASSUME NEW k \in Nat, k \in S PROVE k + 1 \in S
  <2>1. PICK old : old = [i \in 0..k |-> old[i]] /\ IsIngest(old, k, screen)
    BY <1>2
  <2>2. PICK f : f = [i \in 0..(k + 1) |->
                        IF i = k + 1 THEN Ingest(old[k], queue[k + 1]) ELSE old[i]]
    OBVIOUS
  <2>3. f = [i \in 0..(k + 1) |-> f[i]]
    BY <2>2
  <2>4. f[k + 1] = Ingest(old[k], queue[k + 1]) /\ \A i \in 0..k : f[i] = old[i]
    BY <2>2
  <2>5. ASSUME NEW i \in 1..(k + 1) PROVE f[i] = Ingest(f[i - 1], queue[i])
    <3>1. i - 1 \in 0..k /\ f[i - 1] = old[i - 1]
      BY <2>4
    <3>2. CASE i = k + 1
      BY <2>4, <3>1, <3>2
    <3>3. CASE i \in 1..k
      <4>1. old[i] = Ingest(old[i - 1], queue[i])
        BY <2>1, <3>3 DEF IsIngest
      <4>2. QED
        BY <2>4, <3>1, <3>3, <4>1
    <3>4. QED
      BY <3>2, <3>3
  <2>6. f[0] = screen
    BY <2>1, <2>4 DEF IsIngest
  <2>7. IsIngest(f, k + 1, screen)
    BY <2>5, <2>6 DEF IsIngest
  <2>8. QED
    BY <2>3, <2>7
<1>3. \A k \in Nat : k \in S => k + 1 \in S
  BY <1>2
<1>4. Nat \subseteq S
  <2> HIDE DEF S
  <2>1. QED
    BY <1>1, <1>3, EveryNumber
<1>5. QED
  BY <1>4

IngestsOf(screen, n) ==
    CHOOSE after : after =
        [i \in 0..n |-> IF i = 0 THEN screen ELSE Ingest(after[i - 1], queue[i])]

\* So Ingested unfolds, one event at a time.
LEMMA IngestedSteps ==
    ASSUME NEW n \in Nat, NEW screen
    PROVE  /\ Ingested(screen, n) = IngestsOf(screen, n)[n]
           /\ IsIngest(IngestsOf(screen, n), n, screen)
<1>1. PICK f : f = [i \in 0..n |-> f[i]] /\ IsIngest(f, n, screen)
  BY IngestExists
<1>2. \A i \in 0..n : f[i] = IF i = 0 THEN screen ELSE Ingest(f[i - 1], queue[i])
  <2> TAKE i \in 0..n
  <2>1. CASE i = 0
    BY <1>1, <2>1 DEF IsIngest
  <2>2. CASE i \in 1..n
    <3>1. f[i] = Ingest(f[i - 1], queue[i])
      BY <1>1, <2>2 DEF IsIngest
    <3>2. i # 0
      BY <2>2
    <3>3. QED
      BY <3>1, <3>2
  <2>3. QED
    BY <2>1, <2>2
<1>3. f = [i \in 0..n |-> IF i = 0 THEN screen ELSE Ingest(f[i - 1], queue[i])]
  BY <1>1, <1>2
<1> DEFINE g == IngestsOf(screen, n)
<1>4. g = [i \in 0..n |-> IF i = 0 THEN screen ELSE Ingest(g[i - 1], queue[i])]
  BY <1>3 DEF IngestsOf
<1>5. \A i \in 0..n : g[i] = IF i = 0 THEN screen ELSE Ingest(g[i - 1], queue[i])
  <2> HIDE DEF g
  <2>1. QED
    BY <1>4
<1>6. IsIngest(g, n, screen)
  <2> HIDE DEF g
  <2>1. QED
    BY <1>5 DEF IsIngest
<1>7. Ingested(screen, n) = g[n]
  BY DEF Ingested, IngestsOf
<1>8. QED
  BY <1>6, <1>7

\* f is the tree of each of the first n events.
IsTree(f, n, list) ==
    /\ f[0] = EmptyTree
    /\ \A i \in 1..n : f[i] = Placed(f[i - 1], list[i], i)

\* The fold of Placed over a list is a function.
LEMMA TreeExists ==
    ASSUME NEW n \in Nat, NEW list
    PROVE  \E f : f = [i \in 0..n |-> f[i]] /\ IsTree(f, n, list)
<1> DEFINE S == {k \in Nat : \E f : f = [i \in 0..k |-> f[i]] /\ IsTree(f, k, list)}
<1>1. 0 \in S
  <2>1. PICK f : f = [i \in 0..0 |-> EmptyTree]
    OBVIOUS
  <2>2. f[0] = EmptyTree /\ f = [i \in 0..0 |-> f[i]]
    BY <2>1
  <2>3. QED
    BY <2>2 DEF IsTree
<1>2. ASSUME NEW k \in Nat, k \in S PROVE k + 1 \in S
  <2>1. PICK old : old = [i \in 0..k |-> old[i]] /\ IsTree(old, k, list)
    BY <1>2
  <2>2. PICK f : f = [i \in 0..(k + 1) |->
                        IF i = k + 1 THEN Placed(old[k], list[k + 1], k + 1) ELSE old[i]]
    OBVIOUS
  <2>3. f = [i \in 0..(k + 1) |-> f[i]]
    BY <2>2
  <2>4. f[k + 1] = Placed(old[k], list[k + 1], k + 1) /\ \A i \in 0..k : f[i] = old[i]
    BY <2>2
  <2>5. ASSUME NEW i \in 1..(k + 1) PROVE f[i] = Placed(f[i - 1], list[i], i)
    <3>1. i - 1 \in 0..k /\ f[i - 1] = old[i - 1]
      BY <2>4
    <3>2. CASE i = k + 1
      BY <2>4, <3>1, <3>2
    <3>3. CASE i \in 1..k
      <4>1. old[i] = Placed(old[i - 1], list[i], i)
        BY <2>1, <3>3 DEF IsTree
      <4>2. QED
        BY <2>4, <3>1, <3>3, <4>1
    <3>4. QED
      BY <3>2, <3>3
  <2>6. f[0] = EmptyTree
    BY <2>1, <2>4 DEF IsTree
  <2>7. IsTree(f, k + 1, list)
    BY <2>5, <2>6 DEF IsTree
  <2>8. QED
    BY <2>3, <2>7
<1>3. \A k \in Nat : k \in S => k + 1 \in S
  BY <1>2
<1>4. Nat \subseteq S
  <2> HIDE DEF S
  <2>1. QED
    BY <1>1, <1>3, EveryNumber
<1>5. QED
  BY <1>4

TreesOf(list) ==
    CHOOSE tree_ : tree_ =
        [n \in 0..Len(list) |-> IF n = 0 THEN EmptyTree ELSE Placed(tree_[n - 1], list[n], n)]

\* So BuildTree unfolds, one node at a time.
LEMMA TreeSteps ==
    ASSUME NEW list, Len(list) \in Nat
    PROVE  /\ BuildTree(list) = TreesOf(list)[Len(list)]
           /\ IsTree(TreesOf(list), Len(list), list)
<1> DEFINE n == Len(list)
<1>1. PICK f : f = [i \in 0..n |-> f[i]] /\ IsTree(f, n, list)
  BY TreeExists
<1>2. \A i \in 0..n : f[i] = IF i = 0 THEN EmptyTree ELSE Placed(f[i - 1], list[i], i)
  BY <1>1 DEF IsTree
<1>3. f = [i \in 0..n |-> IF i = 0 THEN EmptyTree ELSE Placed(f[i - 1], list[i], i)]
  BY <1>1, <1>2
<1> DEFINE g == TreesOf(list)
<1>4. g = [i \in 0..n |-> IF i = 0 THEN EmptyTree ELSE Placed(g[i - 1], list[i], i)]
  BY <1>3 DEF TreesOf
<1>5. \A i \in 0..n : g[i] = IF i = 0 THEN EmptyTree ELSE Placed(g[i - 1], list[i], i)
  <2> HIDE DEF g
  <2>1. QED
    BY <1>4
<1>6. IsTree(g, n, list)
  <2> HIDE DEF g
  <2>1. QED
    BY <1>5 DEF IsTree
<1>7. BuildTree(list) = g[n]
  BY DEF BuildTree, TreesOf
<1>8. QED
  BY <1>6, <1>7

\* The tree of a longer list is that of the list with the last event placed.
LEMMA TreeOfOneMore ==
    ASSUME NEW list, NEW longer, NEW n \in Nat, Len(list) = n, Len(longer) = n + 1,
           \A i \in 1..n : longer[i] = list[i]
    PROVE  BuildTree(longer) = Placed(BuildTree(list), longer[n + 1], n + 1)
<1> DEFINE f == TreesOf(list)
           g == TreesOf(longer)
           S == {k \in Nat : k <= n => g[k] = f[k]}
<1>1. BuildTree(list) = f[n] /\ IsTree(f, n, list)
  BY TreeSteps
<1>2. BuildTree(longer) = g[n + 1] /\ IsTree(g, n + 1, longer)
  BY TreeSteps
<1> HIDE DEF f, g
<1>3. 0 \in S
  BY <1>1, <1>2 DEF IsTree
<1>4. ASSUME NEW k \in Nat, k \in S PROVE k + 1 \in S
  <2>1. SUFFICES ASSUME k + 1 <= n PROVE g[k + 1] = f[k + 1]
    OBVIOUS
  <2>2. k + 1 \in 1..n /\ k + 1 \in 1..(n + 1) /\ (k + 1) - 1 = k
    BY <2>1
  <2>3. g[k + 1] = Placed(g[k], longer[k + 1], k + 1)
    BY <1>2, <2>2 DEF IsTree
  <2>4. f[k + 1] = Placed(f[k], list[k + 1], k + 1)
    BY <1>1, <2>2 DEF IsTree
  <2>5. g[k] = f[k]
    BY <1>4, <2>1
  <2>6. QED
    BY <2>2, <2>3, <2>4, <2>5
<1>5. \A k \in Nat : k \in S => k + 1 \in S
  BY <1>4
<1>6. Nat \subseteq S
  <2> HIDE DEF S
  <2>1. QED
    BY <1>3, <1>5, EveryNumber
<1>7. g[n] = f[n]
  BY <1>6
<1>8. g[n + 1] = Placed(g[n], longer[n + 1], n + 1)
  <2>1. n + 1 \in 1..(n + 1) /\ (n + 1) - 1 = n
    OBVIOUS
  <2>2. QED
    BY <1>2, <2>1 DEF IsTree
<1>9. QED
  BY <1>1, <1>2, <1>7, <1>8

-----------------------------------------------------------------------------
(***************************************************************************)
(* The rows of the run: each has its id, a time, and what it grades; an    *)
(* event has one verdict and one message scan, of what the table holds.    *)
(***************************************************************************)
Findings == [of : Nat, hit : Hits \cup {None}]
RowsInv ==
    /\ IsFiniteSet(rows)
    /\ \A r \in rows :
          /\ r.id \in 1..Cardinality(rows) /\ r.time \in Times
          /\ r.cause # 0 <=> r.body \in Governances
          /\ r.cause \in Nat /\ r.hit \in Hits \cup {None}
          /\ r.body = "message_scan" =>
                r.cause \in DOMAIN table /\ table[r.cause] = ScanOf(r)
    /\ \A r, s \in rows :
          \/ r.id = s.id
          \/ r.body = s.body /\ r.cause = s.cause /\ r.cause # 0
          => r = s

\* What a record says of the event that it names, and what an event without
\* one is shown with.
SaidBy(r) == IF r.body = "message_scan" THEN ScanOf(r) ELSE r.id
Unsaid(body) == IF body = "message_scan" THEN NoScan ELSE 0

\* What is folded onto events comes from rows that name them.
Grades(over, body) ==
    \A e \in DOMAIN over : \E r \in rows : r.body = body /\ r.cause = e /\ over[e] = SaidBy(r)

Nodes == [event : rows, adjudication : Nat, summary : Findings]

\* A screen: a node for an event, graded as the screen knows it, and their tree.
ScreenOK(screen) ==
    /\ screen = [nodes |-> screen.nodes, tree |-> screen.tree,
                 verdicts |-> screen.verdicts, scans |-> screen.scans]
    /\ screen.nodes \in Seq(Nodes)
    /\ \A n \in DOMAIN screen.nodes :
          /\ ~GovernanceOf(screen.nodes[n].event)
          /\ screen.nodes[n] = Graded(screen.nodes[n].event, screen.verdicts, screen.scans)
    /\ \A m, n \in DOMAIN screen.nodes :
          screen.nodes[m].event.id = screen.nodes[n].event.id => m = n
    /\ Grades(screen.verdicts, "adjudicated") /\ Grades(screen.scans, "message_scan")
    /\ screen.tree = BuildTree(EventsIn(screen.nodes))

\* The screen shows the row, or has it folded onto what it grades.
Takes(screen, r) ==
    /\ r.body = "adjudicated" => r.cause \in DOMAIN screen.verdicts
    /\ r.body = "message_scan" => r.cause \in DOMAIN screen.scans
    /\ ~GovernanceOf(r) => \E n \in DOMAIN screen.nodes : screen.nodes[n].event = r

Screen == [nodes |-> nodes, tree |-> tree, verdicts |-> verdicts, scans |-> scans]
Queued(r) == \E i \in DOMAIN queue : queue[i] = r

\* The cursor moves back when a batch ends in a row that was inserted early, but
\* no row at or below it is lost: it is in the queue or on the screen.
LiveInv ==
    load = "Live" =>
        /\ queue \in Seq(rows) /\ cursor \in 0..Cardinality(rows)
        /\ ScreenOK(Screen)
        /\ \A r \in rows : r.id <= cursor => Queued(r) \/ Takes(Screen, r)

\* Rows that come in the order of their times are sent once, and in that order.
Ascending(screen, taken) ==
    /\ \A m, n \in DOMAIN screen.nodes :
          m < n => screen.nodes[m].event.id < screen.nodes[n].event.id
    /\ \A n \in DOMAIN screen.nodes, i \in DOMAIN queue :
          i > taken => screen.nodes[n].event.id < queue[i].id
OrderInv ==
    load = "Live" /\ InOrder =>
        /\ \A n \in DOMAIN nodes : nodes[n].event.id <= cursor
        /\ \A i \in DOMAIN queue : queue[i].id <= cursor
        /\ \A i, j \in DOMAIN queue : i < j => queue[i].id < queue[j].id
        /\ Ascending(Screen, 0)

\* Any rows of a run can be put in event order.
LEMMA RowsSortable ==
    ASSUME RowsInv, NEW S \in SUBSET rows PROVE Sortable(S)
<1>1. IsFiniteSet(S)
  BY FS_Subset DEF RowsInv
<1>2. Cardinality(rows) \in Nat
  BY FS_CardinalityType DEF RowsInv
<1>3. \A r \in rows : r.id \in Nat /\ r.time \in Nat
  <2>1. \A r \in rows : r.id \in 1..Cardinality(rows) /\ r.time \in Times
    BY DEF RowsInv
  <2>2. QED
    <3> DEFINE n == Cardinality(rows)
    <3> HIDE DEF n
    <3>1. n \in Nat /\ \A i \in 1..n : i \in Nat
      BY <1>2 DEF n
    <3>2. \A t \in Times : t \in Nat
      BY TimesAssumption
    <3>3. QED
      BY <2>1, <3>1, <3>2 DEF n
<1>4. \A r, s \in rows : r.id = s.id => r = s
  BY DEF RowsInv
<1>5. QED
  BY <1>1, <1>3, <1>4 DEF Sortable

\* The two records that a node shows.
LEMMA GradeKinds ==
    "adjudicated" \in Governances /\ "message_scan" \in Governances
  BY DEF Governances

\* A graded event is a node.
LEMMA GradedIsNode ==
    ASSUME RowsInv, NEW r \in rows, NEW over, NEW under,
           Grades(over, "adjudicated"), Grades(under, "message_scan")
    PROVE  /\ Graded(r, over, under) \in Nodes
           /\ Graded(r, over, under).event = r
<1>1. \A q \in rows : q.id \in Nat /\ ScanOf(q) \in Findings
  <2>1. \A q \in rows : q.id \in Nat
    BY RowsSortable DEF Sortable
  <2>2. \A q \in rows : q.cause \in Nat /\ q.hit \in Hits \cup {None}
    BY DEF RowsInv
  <2>3. QED
    BY <2>1, <2>2 DEF ScanOf, Findings
<1>2. r.id \in DOMAIN over => over[r.id] \in Nat
  BY <1>1 DEF Grades, SaidBy
<1>3. r.id \in DOMAIN under => under[r.id] \in Findings
  BY <1>1 DEF Grades, SaidBy
<1>4. NoScan \in Findings
  BY DEF NoScan, Findings
<1>5. QED
  BY <1>2, <1>3, <1>4 DEF Graded, Nodes

\* A record that grades an event enters what is folded onto events.
LEMMA WithGrades ==
    ASSUME NEW over, NEW body, Grades(over, body), NEW r \in rows, r.body = body
    PROVE  Grades(With(over, r.cause, SaidBy(r)), body)
<1> DEFINE longer == With(over, r.cause, SaidBy(r))
<1>1. /\ DOMAIN longer = DOMAIN over \cup {r.cause} /\ longer[r.cause] = SaidBy(r)
      /\ \A e \in DOMAIN over : e # r.cause => longer[e] = over[e]
  BY DEF With
<1> HIDE DEF longer
<1>2. SUFFICES ASSUME NEW e \in DOMAIN longer
               PROVE  \E q \in rows : q.body = body /\ q.cause = e /\ longer[e] = SaidBy(q)
  BY DEF Grades, longer
<1>3. CASE e = r.cause
  BY <1>1, <1>3
<1>4. CASE e # r.cause
  BY <1>1, <1>4 DEF Grades
<1>5. QED
  BY <1>3, <1>4

\* A verdict or a scan reaches the node that it grades, or waits for it.
LEMMA GovernanceStep ==
    ASSUME RowsInv, NEW s, ScreenOK(s), NEW e \in rows, GovernanceOf(e)
    PROVE  LET t == Ingest(s, e)
           IN  /\ ScreenOK(t) /\ Takes(t, e)
               /\ \A r \in rows : Takes(s, r) => Takes(t, r)
               /\ EventsIn(t.nodes) = EventsIn(s.nodes) /\ DOMAIN t.nodes = DOMAIN s.nodes
<1> DEFINE over == IF e.body = "adjudicated" THEN With(s.verdicts, e.cause, e.id)
                   ELSE s.verdicts
           under == IF e.body = "message_scan" THEN With(s.scans, e.cause, ScanOf(e))
                    ELSE s.scans
           list == [n \in DOMAIN s.nodes |->
                       IF s.nodes[n].event.id = e.cause
                       THEN Graded(s.nodes[n].event, over, under) ELSE s.nodes[n]]
           t == Ingest(s, e)
<1>1. t = [nodes |-> list, tree |-> s.tree, verdicts |-> over, scans |-> under]
  <2>1. t = [s EXCEPT !.verdicts = over, !.scans = under,
                      !.nodes = [n \in DOMAIN @ |->
                          IF @[n].event.id = e.cause
                          THEN Graded(@[n].event, over, under) ELSE @[n]]]
    BY DEF Ingest
  <2>2. s = [nodes |-> s.nodes, tree |-> s.tree, verdicts |-> s.verdicts, scans |-> s.scans]
    BY DEF ScreenOK
  <2> HIDE DEF over, under
  <2>3. QED
    BY <2>1, <2>2
<1>2. Grades(over, "adjudicated") /\ Grades(under, "message_scan")
  BY WithGrades DEF ScreenOK, SaidBy
<1>3. s.nodes \in Seq(Nodes) /\ Len(s.nodes) \in Nat /\ DOMAIN s.nodes = 1..Len(s.nodes)
  BY LenProperties DEF ScreenOK
<1>4. \A n \in DOMAIN s.nodes : s.nodes[n] \in Nodes /\ s.nodes[n].event \in rows
  <2>1. \A n \in DOMAIN s.nodes : s.nodes[n] \in Nodes
    BY <1>3, ElementOfSeq
  <2>2. QED
    BY <2>1 DEF Nodes
<1>0. /\ DOMAIN s.verdicts \subseteq DOMAIN over /\ DOMAIN s.scans \subseteq DOMAIN under
      /\ e.body = "adjudicated" => DOMAIN over = DOMAIN s.verdicts \cup {e.cause}
      /\ e.body # "adjudicated" => DOMAIN over = DOMAIN s.verdicts
      /\ e.body = "message_scan" => DOMAIN under = DOMAIN s.scans \cup {e.cause}
      /\ e.body # "message_scan" => DOMAIN under = DOMAIN s.scans
      /\ \A c \in DOMAIN s.verdicts : c # e.cause => over[c] = s.verdicts[c]
      /\ \A c \in DOMAIN s.scans : c # e.cause => under[c] = s.scans[c]
  <2>1. ASSUME NEW f, NEW said
        PROVE  /\ DOMAIN With(f, e.cause, said) = DOMAIN f \cup {e.cause}
               /\ \A c \in DOMAIN f : c # e.cause => With(f, e.cause, said)[c] = f[c]
    BY DEF With
  <2>2. CASE e.body = "adjudicated"
    <3>1. over = With(s.verdicts, e.cause, e.id) /\ under = s.scans
      BY <2>2
    <3>2. /\ DOMAIN With(s.verdicts, e.cause, e.id) = DOMAIN s.verdicts \cup {e.cause}
          /\ \A c \in DOMAIN s.verdicts : c # e.cause =>
                 With(s.verdicts, e.cause, e.id)[c] = s.verdicts[c]
      BY <2>1
    <3> HIDE DEF over, under
    <3>3. QED
      BY <2>2, <3>1, <3>2
  <2>3. CASE e.body = "message_scan"
    <3>1. over = s.verdicts /\ under = With(s.scans, e.cause, ScanOf(e))
      BY <2>3
    <3>2. /\ DOMAIN With(s.scans, e.cause, ScanOf(e)) = DOMAIN s.scans \cup {e.cause}
          /\ \A c \in DOMAIN s.scans : c # e.cause =>
                 With(s.scans, e.cause, ScanOf(e))[c] = s.scans[c]
      BY <2>1
    <3> HIDE DEF over, under
    <3>3. QED
      BY <2>3, <3>1, <3>2
  <2>4. QED
    BY <2>2, <2>3 DEF GovernanceOf
<1>5. ASSUME NEW n \in DOMAIN s.nodes
      PROVE  /\ list[n] \in Nodes
             /\ list[n].event = s.nodes[n].event
             /\ list[n] = Graded(list[n].event, over, under)
  <2>1. s.nodes[n] = Graded(s.nodes[n].event, s.verdicts, s.scans)
    BY DEF ScreenOK
  <2>2. s.nodes[n] \in Nodes /\ s.nodes[n].event \in rows
    BY <1>4
  <2>3. CASE s.nodes[n].event.id = e.cause
    <3>1. list[n] = Graded(s.nodes[n].event, over, under)
      BY <2>3
    <3> HIDE DEF list, over, under
    <3>2. QED
      BY <1>2, <2>2, <3>1, GradedIsNode
  <2>4. CASE s.nodes[n].event.id # e.cause
    <3>1. list[n] = s.nodes[n]
      BY <2>4
    <3>2. Graded(s.nodes[n].event, over, under) = Graded(s.nodes[n].event, s.verdicts, s.scans)
      <4> DEFINE r == s.nodes[n].event
      <4>1. /\ r.id \in DOMAIN over <=> r.id \in DOMAIN s.verdicts
            /\ r.id \in DOMAIN under <=> r.id \in DOMAIN s.scans
            /\ r.id \in DOMAIN over => over[r.id] = s.verdicts[r.id]
            /\ r.id \in DOMAIN under => under[r.id] = s.scans[r.id]
        <5> HIDE DEF over, under
        <5>1. QED
          BY <1>0, <2>4
      <4> HIDE DEF over, under
      <4>2. QED
        BY <4>1 DEF Graded
    <3> HIDE DEF list, over, under
    <3>3. QED
      BY <2>1, <2>2, <3>1, <3>2
  <2>5. QED
    BY <2>3, <2>4
<1>6. DOMAIN list = DOMAIN s.nodes /\ list \in Seq(Nodes) /\ Len(list) = Len(s.nodes)
  <2>1. DOMAIN list = 1..Len(s.nodes)
    BY <1>3
  <2>2. list \in [1..Len(s.nodes) -> Nodes]
    <3>1. list = [n \in 1..Len(s.nodes) |-> list[n]]
      BY <1>3
    <3> HIDE DEF list
    <3>2. QED
      BY <1>3, <1>5, <3>1
  <2> HIDE DEF list
  <2>3. QED
    BY <1>3, <2>1, <2>2, SeqDef, LenProperties
<1>7. EventsIn(list) = EventsIn(s.nodes)
  <2> HIDE DEF list
  <2>1. QED
    BY <1>5, <1>6 DEF EventsIn
<1>8. ScreenOK(t)
  <2> HIDE DEF list, over, under, t
  <2>1. /\ t.nodes = list /\ t.tree = s.tree /\ t.verdicts = over /\ t.scans = under
    BY <1>1
  <2>2. \A n \in DOMAIN list : ~GovernanceOf(list[n].event)
                              /\ list[n] = Graded(list[n].event, over, under)
    BY <1>5, <1>6 DEF ScreenOK
  <2>3. \A m, n \in DOMAIN list : list[m].event.id = list[n].event.id => m = n
    BY <1>5, <1>6 DEF ScreenOK
  <2>4. s.tree = BuildTree(EventsIn(list))
    BY <1>7 DEF ScreenOK
  <2>5. t = [nodes |-> t.nodes, tree |-> t.tree, verdicts |-> t.verdicts, scans |-> t.scans]
    BY <1>1, <2>1
  <2>6. QED
    BY <1>2, <1>6, <2>1, <2>2, <2>3, <2>4, <2>5 DEF ScreenOK
<1>9. DOMAIN s.verdicts \subseteq DOMAIN over /\ DOMAIN s.scans \subseteq DOMAIN under
  BY <1>0
<1>10. Takes(t, e)
  <2>1. e.body = "adjudicated" => e.cause \in DOMAIN over
    BY <1>0
  <2>2. e.body = "message_scan" => e.cause \in DOMAIN under
    BY <1>0
  <2> HIDE DEF over, under, list, t
  <2>3. QED
    BY <1>1, <2>1, <2>2 DEF Takes
<1>11. \A r \in rows : Takes(s, r) => Takes(t, r)
  <2> HIDE DEF over, under, list, t
  <2>1. t.nodes = list /\ t.verdicts = over /\ t.scans = under
    BY <1>1
  <2>2. QED
    BY <1>5, <1>6, <1>9, <2>1 DEF Takes
<1>12. t.nodes = list
  <2> HIDE DEF over, under, list, t
  <2>1. QED
    BY <1>1
<1>13. QED
  BY <1>6, <1>7, <1>8, <1>10, <1>11, <1>12

\* An event that is there already changes nothing.
LEMMA KnownStep ==
    ASSUME RowsInv, NEW s, ScreenOK(s), NEW e \in rows, ~GovernanceOf(e), Known(s, e)
    PROVE  Ingest(s, e) = s /\ Takes(s, e)
<1>1. PICK n \in DOMAIN s.nodes : s.nodes[n].event.id = e.id
  BY DEF Known
<1>2. s.nodes[n] \in Nodes
  BY <1>1, ElementOfSeq, LenProperties DEF ScreenOK
<1>3. s.nodes[n].event = e
  BY <1>1, <1>2 DEF RowsInv, Nodes
<1>4. QED
  BY <1>1, <1>3 DEF Takes, Ingest, GovernanceOf

\* Another is a node of its own, with the governance that waited for it.
LEMMA NodeStep ==
    ASSUME RowsInv, NEW s, ScreenOK(s), NEW e \in rows, ~GovernanceOf(e), ~Known(s, e)
    PROVE  LET t == Ingest(s, e)
           IN  /\ ScreenOK(t) /\ Takes(t, e)
               /\ \A r \in rows : Takes(s, r) => Takes(t, r)
               /\ DOMAIN t.nodes = 1..(Len(s.nodes) + 1)
               /\ t.nodes[Len(s.nodes) + 1].event = e
               /\ \A n \in DOMAIN s.nodes : t.nodes[n] = s.nodes[n]
<1> DEFINE k == Len(s.nodes)
           node == Graded(e, s.verdicts, s.scans)
           list == Append(s.nodes, node)
           t == Ingest(s, e)
<1>1. t = [nodes |-> list, tree |-> Placed(s.tree, e, k + 1),
           verdicts |-> s.verdicts, scans |-> s.scans]
  <2>1. t = [s EXCEPT !.nodes = Append(@, node), !.tree = Placed(@, e, k + 1)]
    BY DEF Ingest
  <2>2. s = [nodes |-> s.nodes, tree |-> s.tree, verdicts |-> s.verdicts, scans |-> s.scans]
    BY DEF ScreenOK
  <2> HIDE DEF node
  <2>3. QED
    BY <2>1, <2>2
<1>2. s.nodes \in Seq(Nodes) /\ k \in Nat /\ DOMAIN s.nodes = 1..k
  BY LenProperties DEF ScreenOK
<1>3. node \in Nodes /\ node.event = e
  BY GradedIsNode DEF ScreenOK
<1> HIDE DEF node
<1>4. /\ list \in Seq(Nodes) /\ Len(list) = k + 1 /\ DOMAIN list = 1..(k + 1)
      /\ list[k + 1] = node /\ \A n \in 1..k : list[n] = s.nodes[n]
  BY <1>2, <1>3, AppendProperties, LenProperties
<1> HIDE DEF list, t, k
<1>5. /\ t.nodes = list /\ t.verdicts = s.verdicts /\ t.scans = s.scans
      /\ t.tree = Placed(s.tree, e, k + 1)
      /\ t = [nodes |-> t.nodes, tree |-> t.tree, verdicts |-> t.verdicts, scans |-> t.scans]
  BY <1>1
<1>6. \A n \in 1..(k + 1) : ~GovernanceOf(list[n].event)
                           /\ list[n] = Graded(list[n].event, s.verdicts, s.scans)
  <2> TAKE n \in 1..(k + 1)
  <2>1. CASE n = k + 1
    BY <1>3, <1>4, <2>1 DEF node
  <2>2. CASE n \in 1..k
    BY <1>2, <1>4, <2>2 DEF ScreenOK
  <2>3. QED
    BY <1>2, <2>1, <2>2
<1>7. \A n \in 1..k : list[n].event.id # e.id
  BY <1>2, <1>4 DEF Known
<1>8. \A m, n \in 1..(k + 1) : list[m].event.id = list[n].event.id => m = n
  <2>1. \A m, n \in 1..k : list[m].event.id = list[n].event.id => m = n
    BY <1>2, <1>4 DEF ScreenOK
  <2>2. list[k + 1].event.id = e.id
    BY <1>3, <1>4
  <2>3. QED
    BY <1>2, <1>7, <2>1, <2>2
<1>9. t.tree = BuildTree(EventsIn(t.nodes))
  <2>1. /\ EventsIn(s.nodes) = [n \in 1..k |-> s.nodes[n].event]
        /\ EventsIn(list) = [n \in 1..(k + 1) |-> list[n].event]
    BY <1>2, <1>4 DEF EventsIn
  <2>2. \A n \in 1..k : s.nodes[n].event \in rows
    <3>1. \A n \in 1..k : s.nodes[n] \in Nodes
      BY <1>2, ElementOfSeq
    <3>2. QED
      BY <3>1 DEF Nodes
  <2>3. \A n \in 1..(k + 1) : list[n].event \in rows
    <3>1. \A n \in 1..(k + 1) : list[n] \in Nodes
      BY <1>4, ElementOfSeq
    <3>2. QED
      BY <3>1 DEF Nodes
  <2>4. Len(EventsIn(s.nodes)) = k /\ Len(EventsIn(list)) = k + 1
    BY <1>2, <2>1, <2>2, <2>3, LenProperties
  <2>5. \A n \in 1..k : EventsIn(list)[n] = EventsIn(s.nodes)[n]
    BY <1>2, <1>4, <2>1
  <2>6. EventsIn(list)[k + 1] = e
    BY <1>2, <1>3, <1>4, <2>1
  <2>7. BuildTree(EventsIn(list)) = Placed(BuildTree(EventsIn(s.nodes)), e, k + 1)
    BY <1>2, <2>4, <2>5, <2>6, TreeOfOneMore
  <2>8. s.tree = BuildTree(EventsIn(s.nodes))
    BY DEF ScreenOK
  <2>9. QED
    BY <1>5, <2>7, <2>8
<1>10. ScreenOK(t)
  <2>1. Grades(t.verdicts, "adjudicated") /\ Grades(t.scans, "message_scan")
    BY <1>5 DEF ScreenOK
  <2>2. QED
    BY <1>4, <1>5, <1>6, <1>8, <1>9, <2>1 DEF ScreenOK
<1>11. Takes(t, e)
  <2>1. list[k + 1].event = e /\ k + 1 \in DOMAIN list
    BY <1>2, <1>3, <1>4
  <2>2. QED
    BY <1>5, <2>1 DEF Takes, GovernanceOf
<1>12. \A r \in rows : Takes(s, r) => Takes(t, r)
  BY <1>2, <1>4, <1>5 DEF Takes
<1>13. QED
  BY <1>2, <1>3, <1>4, <1>5, <1>10, <1>11, <1>12 DEF k, t

\* An ingested event is taken, and what was taken before still is.
LEMMA IngestStep ==
    ASSUME RowsInv, NEW s, ScreenOK(s), NEW e \in rows
    PROVE  LET t == Ingest(s, e)
           IN  /\ ScreenOK(t) /\ Takes(t, e)
               /\ \A r \in rows : Takes(s, r) => Takes(t, r)
<1>1. CASE GovernanceOf(e)
  BY <1>1, GovernanceStep
<1>2. CASE ~GovernanceOf(e) /\ Known(s, e)
  BY <1>2, KnownStep
<1>3. CASE ~GovernanceOf(e) /\ ~Known(s, e)
  BY <1>3, NodeStep
<1>4. QED
  BY <1>1, <1>2, <1>3

QueueAscends == \A i, j \in DOMAIN queue : i < j => queue[i].id < queue[j].id
Behind(screen) == \A n \in DOMAIN screen.nodes : screen.nodes[n].event.id <= cursor

\* An event above all that is shown leaves the nodes ascending.
LEMMA AscendStep ==
    ASSUME RowsInv, NEW s, ScreenOK(s), queue \in Seq(rows), QueueAscends,
           NEW i \in Nat, i + 1 \in DOMAIN queue, Ascending(s, i), Behind(s),
           queue[i + 1].id <= cursor
    PROVE  Ascending(Ingest(s, queue[i + 1]), i + 1) /\ Behind(Ingest(s, queue[i + 1]))
<1> DEFINE e == queue[i + 1]
           t == Ingest(s, e)
<1>1. e \in rows /\ DOMAIN queue = 1..Len(queue) /\ Len(queue) \in Nat
  BY ElementOfSeq, LenProperties
<1>2. Ascending(s, i + 1)
  BY <1>1 DEF Ascending
<1>3. CASE GovernanceOf(e)
  <2>1. EventsIn(t.nodes) = EventsIn(s.nodes) /\ DOMAIN t.nodes = DOMAIN s.nodes
    BY <1>1, <1>3, GovernanceStep
  <2> HIDE DEF t, e
  <2>2. \A n \in DOMAIN s.nodes : t.nodes[n].event = s.nodes[n].event
    <3> TAKE n \in DOMAIN s.nodes
    <3>1. EventsIn(t.nodes)[n] = t.nodes[n].event /\ EventsIn(s.nodes)[n] = s.nodes[n].event
      BY <2>1 DEF EventsIn
    <3>2. QED
      BY <2>1, <3>1
  <2>3. Ascending(t, i + 1) /\ Behind(t)
    BY <1>2, <2>1, <2>2 DEF Ascending, Behind
  <2>4. QED
    BY <2>3 DEF t, e
<1>4. CASE ~GovernanceOf(e) /\ Known(s, e)
  BY <1>1, <1>2, <1>4, KnownStep
<1>5. CASE ~GovernanceOf(e) /\ ~Known(s, e)
  <2> DEFINE k == Len(s.nodes)
  <2>1. /\ DOMAIN t.nodes = 1..(k + 1) /\ t.nodes[k + 1].event = e
        /\ \A n \in DOMAIN s.nodes : t.nodes[n] = s.nodes[n]
    BY <1>1, <1>5, NodeStep
  <2>2. DOMAIN s.nodes = 1..k /\ k \in Nat
    BY LenProperties DEF ScreenOK
  <2> HIDE DEF t, k
  <2>3. \A n \in 1..k : s.nodes[n].event.id < e.id
    BY <1>1, <2>2 DEF Ascending
  <2>4. \A m, n \in 1..k : m < n => s.nodes[m].event.id < s.nodes[n].event.id
    BY <2>2 DEF Ascending
  <2>5. \A n \in 1..k, j \in DOMAIN queue : j > i + 1 => s.nodes[n].event.id < queue[j].id
    BY <1>2, <2>2 DEF Ascending
  <2>6. \A j \in DOMAIN queue : j > i + 1 => e.id < queue[j].id
    BY <1>1 DEF QueueAscends
  <2>7. \A n \in 1..k : s.nodes[n].event.id <= cursor
    BY <2>2 DEF Behind
  <2>8. e.id <= cursor
    OBVIOUS
  <2> HIDE DEF e
  <2>9. ASSUME NEW m \in 1..(k + 1), NEW n \in 1..(k + 1), m < n
        PROVE  t.nodes[m].event.id < t.nodes[n].event.id
    <3>1. m \in 1..k /\ t.nodes[m] = s.nodes[m]
      BY <2>1, <2>2, <2>9
    <3>2. CASE n = k + 1
      BY <2>1, <2>3, <3>1, <3>2
    <3>3. CASE n \in 1..k
      BY <2>1, <2>2, <2>4, <2>9, <3>1, <3>3
    <3>4. QED
      BY <2>2, <3>2, <3>3
  <2>10. ASSUME NEW n \in 1..(k + 1)
         PROVE  /\ t.nodes[n].event.id <= cursor
                /\ \A j \in DOMAIN queue : j > i + 1 => t.nodes[n].event.id < queue[j].id
    <3>1. CASE n = k + 1
      BY <2>1, <2>6, <2>8, <3>1
    <3>2. CASE n \in 1..k
      BY <2>1, <2>2, <2>5, <2>7, <3>2
    <3>3. QED
      BY <2>2, <3>1, <3>2
  <2>11. Ascending(t, i + 1) /\ Behind(t)
    BY <2>1, <2>9, <2>10 DEF Ascending, Behind
  <2>12. QED
    BY <2>11 DEF t, e
<1>6. QED
  BY <1>3, <1>4, <1>5

Taken(screen, i) ==
    /\ ScreenOK(screen)
    /\ \A r \in rows : Takes(Screen, r) \/ (\E j \in 1..i : queue[j] = r) => Takes(screen, r)
    /\ OrderInv /\ InOrder => Ascending(screen, i) /\ Behind(screen)

\* An event of the queue is taken with its step.
LEMMA TakenStep ==
    ASSUME RowsInv, load = "Live", queue \in Seq(rows), NEW s, NEW i \in Nat,
           i + 1 \in DOMAIN queue, Taken(s, i)
    PROVE  Taken(Ingest(s, queue[i + 1]), i + 1)
<1> DEFINE e == queue[i + 1]
           t == Ingest(s, e)
<1>1. e \in rows
  BY ElementOfSeq, LenProperties
<1>2. /\ ScreenOK(t) /\ Takes(t, e)
      /\ \A r \in rows : Takes(s, r) => Takes(t, r)
  BY <1>1, IngestStep DEF Taken
<1>3. ASSUME NEW r \in rows, Takes(Screen, r) \/ (\E j \in 1..(i + 1) : queue[j] = r)
      PROVE  Takes(t, r)
  <2>1. CASE Takes(Screen, r) \/ (\E j \in 1..i : queue[j] = r)
    <3>1. Takes(s, r)
      BY <2>1 DEF Taken
    <3> HIDE DEF t
    <3>2. QED
      BY <1>2, <3>1
  <2>2. CASE r = e
    <3> HIDE DEF t
    <3>1. QED
      BY <1>2, <2>2
  <2>3. QED
    BY <1>3, <2>1, <2>2
<1>4. OrderInv /\ InOrder => Ascending(t, i + 1) /\ Behind(t)
  <2>1. SUFFICES ASSUME OrderInv, InOrder PROVE Ascending(t, i + 1) /\ Behind(t)
    OBVIOUS
  <2>2. QueueAscends /\ e.id <= cursor
    BY <2>1 DEF OrderInv, QueueAscends
  <2>3. QED
    BY <2>1, <2>2, AscendStep DEF Taken
<1>5. QED
  <2> HIDE DEF t
  <2>1. Taken(t, i + 1)
    BY <1>2, <1>3, <1>4 DEF Taken
  <2>2. QED
    BY <2>1 DEF t

\* A batch that has been ingested is taken, all of it.
LEMMA IngestedTaken ==
    ASSUME RowsInv, LiveInv, load = "Live", NEW n \in DOMAIN queue
    PROVE  Taken(Ingested(Screen, n), n)
<1> DEFINE f == IngestsOf(Screen, n)
           S == {k \in Nat : k <= n => Taken(f[k], k)}
<1>1. queue \in Seq(rows) /\ DOMAIN queue = 1..Len(queue) /\ Len(queue) \in Nat
  BY LenProperties DEF LiveInv
<1>2. n \in Nat
  BY <1>1
<1>3. Ingested(Screen, n) = f[n] /\ IsIngest(f, n, Screen)
  BY <1>2, IngestedSteps
<1> HIDE DEF f
<1>4. 0 \in S
  <2>1. Taken(Screen, 0)
    <3>1. OrderInv /\ InOrder => Ascending(Screen, 0) /\ Behind(Screen)
      BY DEF OrderInv, Behind, Screen
    <3>2. ScreenOK(Screen)
      BY DEF LiveInv
    <3>3. \A r \in rows : Takes(Screen, r) \/ (\E j \in 1..0 : queue[j] = r) => Takes(Screen, r)
      OBVIOUS
    <3>4. QED
      BY <3>1, <3>2, <3>3 DEF Taken
  <2>2. f[0] = Screen
    BY <1>3 DEF IsIngest
  <2>3. QED
    BY <2>1, <2>2
<1>5. ASSUME NEW k \in Nat, k \in S PROVE k + 1 \in S
  <2>1. SUFFICES ASSUME k + 1 <= n PROVE Taken(f[k + 1], k + 1)
    OBVIOUS
  <2>2. Taken(f[k], k)
    BY <1>2, <1>5, <2>1
  <2>3. k + 1 \in 1..n /\ (k + 1) - 1 = k /\ k + 1 \in DOMAIN queue
    BY <1>1, <2>1
  <2>4. f[k + 1] = Ingest(f[k], queue[k + 1])
    BY <1>3, <2>3 DEF IsIngest
  <2>5. QED
    BY <1>1, <2>2, <2>3, <2>4, TakenStep
<1>6. \A k \in Nat : k \in S => k + 1 \in S
  BY <1>5
<1>7. Nat \subseteq S
  <2> HIDE DEF S
  <2>1. QED
    BY <1>4, <1>6, EveryNumber
<1>8. QED
  BY <1>2, <1>3, <1>7

\* A stored scan is that of its event.
TableInv == \A e \in DOMAIN table : table[e] = [of |-> e, hit |-> table[e].hit]

IInv == RowsInv /\ TableInv /\ LiveInv /\ OrderInv

LEMMA InitIInv == ASSUME Init PROVE IInv
<1>1. RowsInv
  BY FS_EmptySet DEF Init, RowsInv, Unscanned
<1>2. load # "Live" /\ TableInv
  BY DEF Init, TableInv, Unscanned
<1>3. QED
  BY <1>1, <1>2 DEF IInv, LiveInv, OrderInv

\* Nothing but a new row touches what the invariant says of the rows.
LEMMA RowsStay ==
    ASSUME RowsInv, TableInv, UNCHANGED ledger PROVE RowsInv' /\ TableInv'
  BY DEF RowsInv, TableInv, ledger

\* Nor does a key touch what it says of the screen.
LEMMA LiveStays ==
    ASSUME LiveInv, OrderInv, UNCHANGED <<rows, tail, content>>
    PROVE  LiveInv' /\ OrderInv'
<1>1. /\ rows' = rows /\ cursor' = cursor /\ queue' = queue /\ load' = load /\ nodes' = nodes
      /\ tree' = tree /\ verdicts' = verdicts /\ scans' = scans
  BY DEF tail, content
<1>2. Screen' = Screen /\ Nodes' = Nodes
  BY <1>1 DEF Screen, Nodes, Findings
<1>3. ScreenOK(Screen) => ScreenOK(Screen)'
  BY <1>1, <1>2 DEF ScreenOK, Grades
<1>4. \A r : Queued(r)' <=> Queued(r)
  BY <1>1 DEF Queued
<1>5. \A r : Takes(Screen, r)' <=> Takes(Screen, r)
  BY <1>1, <1>2 DEF Takes
<1>6. LiveInv'
  BY <1>1, <1>3, <1>4, <1>5 DEF LiveInv
<1>7. InOrder' <=> InOrder
  BY <1>1 DEF InOrder
<1>8. Ascending(Screen, 0)' <=> Ascending(Screen, 0)
  BY <1>1, <1>2 DEF Ascending
<1>9. OrderInv'
  BY <1>1, <1>7, <1>8 DEF OrderInv
<1>10. QED
  BY <1>6, <1>9

\* Of a transcript that is not live it says nothing.
LEMMA NotLive ==
    ASSUME load' # "Live" PROVE LiveInv' /\ OrderInv'
  BY DEF LiveInv, OrderInv

\* A new row is above the cursor, and grades no event twice.
LEMMA InsertStep ==
    ASSUME IInv, InsertRow PROVE IInv'
<1> DEFINE n == Cardinality(rows)
<1>1. PICK row : /\ rows' = rows \cup {row} /\ row.id = n + 1 /\ row.time \in Times
                 /\ row.cause # 0 <=> row.body \in Governances
                 /\ row.cause # 0 => \A r \in rows : r.body = row.body => r.cause # row.cause
                 /\ row.cause \in Nat /\ row.hit \in Hits \cup {None}
                 /\ row.body = "message_scan" =>
                       row.cause \in DOMAIN table /\ table[row.cause] = ScanOf(row)
                 /\ table' = table
                 /\ UNCHANGED <<tail, content>>
  <2>1. PICK body \in Written, time \in Times, callId \in Calls \cup {None},
             cause \in {r.id : r \in rows} \cup {0}, decision \in {"Allow", "Deny"},
             hit \in Found \cup {None} :
          /\ callId # None <=> body \in Actions \cup Outputs
          /\ cause # 0 <=> body \in Governances
          /\ body # "adjudicated" => decision = "Allow"
          /\ body # "message_scan" => hit = None
          /\ body = "message_scan" => cause \in DOMAIN table /\ hit = table[cause].hit
          /\ cause # 0 => /\ RowIn(cause).body \notin Governances
                          /\ \A r \in rows : r.body = body => r.cause # cause
                          /\ RowIn(cause).time <= time
          /\ rows' = rows \cup {[id |-> Cardinality(rows) + 1, time |-> time, body |-> body,
                                 call |-> callId, cause |-> cause,
                                 decision |-> decision, hit |-> hit]}
    BY DEF InsertRow
  <2> DEFINE row == [id |-> n + 1, time |-> time, body |-> body, call |-> callId,
                     cause |-> cause, decision |-> decision, hit |-> hit]
  <2>2. /\ row.id = n + 1 /\ row.time = time /\ row.cause = cause /\ row.body = body
        /\ row.hit = hit
    OBVIOUS
  <2>3. UNCHANGED <<tail, content>> /\ table' = table
    BY DEF InsertRow
  <2>4. rows' = rows \cup {row}
    BY <2>1
  <2>5. cause \in Nat
    <3>1. \A r \in rows : r.id \in Nat
      BY RowsSortable DEF Sortable, IInv
    <3>2. QED
      BY <3>1
  <2>6. hit \in Hits \cup {None}
    BY FoundAssumption
  <2>7. body = "message_scan" => cause \in DOMAIN table /\ table[cause] = ScanOf(row)
    <3>1. SUFFICES ASSUME body = "message_scan" PROVE table[cause] = ScanOf(row)
      BY <2>1
    <3>2. cause \in DOMAIN table /\ hit = table[cause].hit
      BY <2>1, <3>1
    <3>3. table[cause] = [of |-> cause, hit |-> table[cause].hit]
      BY <3>2 DEF IInv, TableInv
    <3>4. QED
      BY <2>2, <3>2, <3>3 DEF ScanOf
  <2>9. /\ cause # 0 <=> body \in Governances
        /\ cause # 0 => \A r \in rows : r.body = body => r.cause # cause
    BY <2>1
  <2> HIDE DEF n, row
  <2>8. QED
    BY <2>9, <2>2, <2>3, <2>4, <2>5, <2>6, <2>7
<1>2. IsFiniteSet(rows) /\ n \in Nat
  BY FS_CardinalityType DEF IInv, RowsInv
<1>3. \A r \in rows : r.id \in 1..n
  BY DEF IInv, RowsInv
<1>4. row \notin rows
  BY <1>1, <1>2, <1>3
<1>5. IsFiniteSet(rows') /\ Cardinality(rows') = n + 1
  BY <1>1, <1>2, <1>4, FS_AddElement
<1> HIDE DEF n
<1>6. RowsInv'
  <2>1. \A r \in rows' : /\ r.id \in 1..(n + 1) /\ r.time \in Times
                         /\ r.cause # 0 <=> r.body \in Governances
                         /\ r.cause \in Nat /\ r.hit \in Hits \cup {None}
                         /\ r.body = "message_scan" =>
                               r.cause \in DOMAIN table' /\ table'[r.cause] = ScanOf(r)
    <3>1. \A r \in rows : /\ r.time \in Times /\ (r.cause # 0 <=> r.body \in Governances)
                          /\ r.cause \in Nat /\ r.hit \in Hits \cup {None}
                          /\ r.body = "message_scan" =>
                                r.cause \in DOMAIN table /\ table[r.cause] = ScanOf(r)
      BY DEF IInv, RowsInv
    <3>2. QED
      BY <1>1, <1>2, <1>3, <3>1
  <2>2. \A r, s \in rows' : \/ r.id = s.id
                            \/ r.body = s.body /\ r.cause = s.cause /\ r.cause # 0
                            => r = s
    <3>1. \A r, s \in rows : \/ r.id = s.id
                             \/ r.body = s.body /\ r.cause = s.cause /\ r.cause # 0
                             => r = s
      BY DEF IInv, RowsInv
    <3>2. \A r \in rows : /\ r.id # row.id
                          /\ ~(r.body = row.body /\ r.cause = row.cause /\ row.cause # 0)
      BY <1>1, <1>2, <1>3
    <3>3. QED
      BY <1>1, <3>1, <3>2
  <2>3. QED
    BY <1>5, <2>1, <2>2 DEF RowsInv
<1>7. /\ cursor' = cursor /\ queue' = queue /\ load' = load /\ nodes' = nodes
      /\ tree' = tree /\ verdicts' = verdicts /\ scans' = scans
  BY <1>1 DEF tail, content
<1>8. Screen' = Screen /\ rows \subseteq rows' /\ Nodes \subseteq Nodes'
  BY <1>1, <1>7 DEF Screen, Nodes, Findings
<1>9. LiveInv'
  <2>1. SUFFICES ASSUME load = "Live" PROVE LiveInv'
    BY <1>7 DEF LiveInv
  <2>2. queue \in Seq(rows) /\ cursor \in 0..n /\ ScreenOK(Screen)
    BY <2>1 DEF IInv, LiveInv, n
  <2>3. queue' \in Seq(rows')
    <3>1. queue \in [1..Len(queue) -> rows] /\ Len(queue) \in Nat
      BY <2>2, LenProperties
    <3>2. queue \in [1..Len(queue) -> rows']
      BY <1>8, <3>1
    <3>3. QED
      BY <1>7, <3>1, <3>2, SeqDef
  <2>4. ScreenOK(Screen)'
    <3>1. Screen.nodes \in Seq(Nodes')
      <4>1. Screen.nodes \in Seq(Nodes)
        BY <2>2 DEF ScreenOK
      <4>2. Screen.nodes \in [1..Len(Screen.nodes) -> Nodes] /\ Len(Screen.nodes) \in Nat
        BY <4>1, LenProperties
      <4>3. Screen.nodes \in [1..Len(Screen.nodes) -> Nodes']
        BY <1>8, <4>2
      <4>4. QED
        BY <4>2, <4>3, SeqDef
    <3>2. Grades(Screen.verdicts, "adjudicated")' /\ Grades(Screen.scans, "message_scan")'
      BY <1>8, <2>2 DEF ScreenOK, Grades
    <3> HIDE DEF Screen
    <3>3. QED
      BY <1>8, <2>2, <3>1, <3>2 DEF ScreenOK
  <2>5. \A r \in rows' : r.id <= cursor' => Queued(r)' \/ Takes(Screen, r)'
    <3> SUFFICES ASSUME NEW r \in rows', r.id <= cursor'
                 PROVE  Queued(r)' \/ Takes(Screen, r)'
      OBVIOUS
    <3>1. r \in rows
      BY <1>1, <1>2, <1>7, <2>2
    <3>2. Queued(r) \/ Takes(Screen, r)
      BY <1>7, <2>1, <3>1 DEF IInv, LiveInv
    <3>3. QED
      BY <1>7, <1>8, <3>2 DEF Queued, Takes
  <2>6. cursor' \in 0..Cardinality(rows)'
    BY <1>2, <1>5, <1>7, <2>2
  <2>7. QED
    BY <2>3, <2>4, <2>5, <2>6 DEF LiveInv
<1>10. OrderInv'
  <2>1. InOrder' => InOrder
    BY <1>8 DEF InOrder
  <2>2. Ascending(Screen, 0) => Ascending(Screen, 0)'
    BY <1>7, <1>8 DEF Ascending
  <2>3. QED
    BY <1>7, <2>1, <2>2 DEF IInv, OrderInv
<1>11. TableInv'
  BY <1>1 DEF IInv, TableInv
<1>12. QED
  BY <1>6, <1>9, <1>10, <1>11 DEF IInv

\* A stored scan is of its event, and leaves those already stored.
LEMMA PersistScanStep ==
    ASSUME IInv, PersistScan PROVE IInv'
<1>1. PICK id, hit : /\ id \notin DOMAIN table
                     /\ table' = With(table, id, [of |-> id, hit |-> hit])
                     /\ UNCHANGED <<rows, tail, content, reader>>
  BY DEF PersistScan
<1>2. /\ DOMAIN table' = DOMAIN table \cup {id} /\ table'[id] = [of |-> id, hit |-> hit]
      /\ \A e \in DOMAIN table : table'[e] = table[e]
  BY <1>1 DEF With
<1>3. TableInv'
  <2>1. \A e \in DOMAIN table : table[e] = [of |-> e, hit |-> table[e].hit]
    BY DEF IInv, TableInv
  <2>2. \A e \in DOMAIN table' : table'[e] = [of |-> e, hit |-> table'[e].hit]
    BY <1>2, <2>1
  <2>3. QED
    BY <2>2 DEF TableInv
<1>4. RowsInv'
  <2>1. \A r \in rows : r.body = "message_scan" =>
            r.cause \in DOMAIN table' /\ table'[r.cause] = ScanOf(r)
    BY <1>2 DEF IInv, RowsInv
  <2>2. QED
    BY <1>1, <2>1 DEF IInv, RowsInv
<1>5. LiveInv' /\ OrderInv'
  BY <1>1, LiveStays DEF IInv
<1>6. QED
  BY <1>3, <1>4, <1>5 DEF IInv

\* What a poll sends: the rows past the cursor, by time; if rows come in the
\* order of their times, by id too.
LEMMA BatchIs ==
    ASSUME RowsInv
    PROVE  LET S == {r \in rows : r.id > cursor}
               k == Cardinality(S)
           IN  /\ k \in Nat /\ EventsAfter \in Seq(S) /\ EventsAfter \in Seq(rows)
               /\ Len(EventsAfter) = k
               /\ \A i \in 1..k : EventsAfter[i] \in S
               /\ \A r \in S : \E i \in 1..k : EventsAfter[i] = r
               /\ InOrder => \A i, j \in 1..k :
                      i < j => EventsAfter[i].id < EventsAfter[j].id
<1> DEFINE S == {r \in rows : r.id > cursor}
           k == Cardinality(S)
           s == Ordered(S)
<1>1. S \in SUBSET rows
  OBVIOUS
<1>2. Sortable(S)
  BY <1>1, RowsSortable
<1> HIDE DEF S
<1>3. /\ k \in Nat /\ s \in [1..k -> S] /\ s \in Seq(S) /\ Len(s) = k
      /\ \A r \in S : \E i \in 1..k : s[i] = r
      /\ \A i, j \in 1..k : i < j => InEventOrder(s[i], s[j])
  BY <1>2, OrderedIs
<1>4. \A i \in 1..k : s[i] \in S
  BY <1>3
<1>5. s \in Seq(rows)
  <2>1. s \in [1..k -> rows]
    BY <1>1, <1>3
  <2> HIDE DEF s, k
  <2>2. QED
    BY <1>3, <2>1, SeqDef
<1>6. ASSUME InOrder, NEW i \in 1..k, NEW j \in 1..k, i < j PROVE s[i].id < s[j].id
  <2>1. InEventOrder(s[i], s[j]) /\ s[i] \in rows /\ s[j] \in rows /\ s[i] \in S /\ s[j] \in S
    BY <1>1, <1>3, <1>4, <1>6
  <2> HIDE DEF s, k
  <2>2. /\ s[i].id \in Nat /\ s[j].id \in Nat /\ s[i].time \in Nat /\ s[j].time \in Nat
    BY <1>2, <2>1 DEF Sortable
  <2>3. s[j].id < s[i].id => s[j].time <= s[i].time
    BY <1>6, <2>1 DEF InOrder
  <2>4. s[i].id = s[j].id => s[i] = s[j]
    BY <1>2, <2>1 DEF Sortable
  <2>5. QED
    BY <2>1, <2>2, <2>3, <2>4 DEF InEventOrder
<1>7. s = EventsAfter
  BY DEF EventsAfter, S
<1> HIDE DEF s, k
<1>8. QED
  BY <1>3, <1>4, <1>5, <1>6, <1>7 DEF S, k

\* What a poll sends covers the rows up to the new cursor, wherever it falls.
LEMMA PollStep ==
    ASSUME IInv, Poll PROVE IInv'
<1> DEFINE S == {r \in rows : r.id > cursor}
           k == Cardinality(S)
           s == EventsAfter
           m == Len(queue)
<1>1. RowsInv /\ TableInv /\ LiveInv /\ OrderInv /\ load = "Live"
  BY DEF IInv, Poll
<1>2. /\ k \in Nat /\ s \in Seq(rows) /\ Len(s) = k
      /\ \A i \in 1..k : s[i] \in S
      /\ \A r \in S : \E i \in 1..k : s[i] = r
      /\ InOrder => \A i, j \in 1..k : i < j => s[i].id < s[j].id
  BY <1>1, BatchIs
<1>3. /\ s # << >> /\ queue' = queue \o s /\ cursor' = s[Len(s)].id
      /\ UNCHANGED <<ledger, content, reader>>
  BY DEF Poll
<1>4. /\ rows' = rows /\ load' = load /\ nodes' = nodes /\ tree' = tree
      /\ verdicts' = verdicts /\ scans' = scans /\ table' = table
  BY <1>3 DEF ledger, content
<1>5. RowsInv' /\ TableInv'
  BY <1>1, <1>3, RowsStay
<1>6. Screen' = Screen /\ Nodes' = Nodes
  BY <1>4 DEF Screen, Nodes, Findings
<1>7. /\ queue \in Seq(rows) /\ m \in Nat /\ DOMAIN queue = 1..m
      /\ cursor \in 0..Cardinality(rows) /\ ScreenOK(Screen)
  BY <1>1, LenProperties DEF LiveInv
<1>8. k > 0
  BY <1>2, <1>3, EmptySeq
<1> HIDE DEF s, m, k
<1>9. /\ queue' \in Seq(rows) /\ Len(queue') = m + k /\ DOMAIN queue' = 1..(m + k)
      /\ \A i \in 1..m : queue'[i] = queue[i]
      /\ \A i \in 1..k : queue'[m + i] = s[i]
  <2>1. Len(queue) = m
    BY DEF m
  <2>2. /\ queue \o s \in Seq(rows) /\ Len(queue \o s) = m + k
        /\ \A i \in 1..(m + k) : (queue \o s)[i] = IF i <= m THEN queue[i] ELSE s[i - m]
    <3>1. /\ queue \o s \in Seq(rows) /\ Len(queue \o s) = Len(queue) + Len(s)
          /\ \A i \in 1..(Len(queue) + Len(s)) :
                 (queue \o s)[i] = IF i <= Len(queue) THEN queue[i] ELSE s[i - Len(queue)]
      BY <1>2, <1>7, ConcatProperties, Zenon
    <3>2. QED
      BY <1>2, <2>1, <3>1
  <2>3. DOMAIN (queue \o s) = 1..(m + k)
    BY <2>2, LenProperties
  <2>4. ASSUME NEW i \in 1..k PROVE (queue \o s)[m + i] = s[i]
    <3>1. m + i \in 1..(m + k) /\ ~(m + i <= m) /\ (m + i) - m = i
      BY <1>2, <1>7
    <3>2. QED
      BY <2>2, <3>1
  <2>5. ASSUME NEW i \in 1..m PROVE (queue \o s)[i] = queue[i]
    <3>1. i \in 1..(m + k) /\ i <= m
      BY <1>2, <1>7
    <3>2. QED
      BY <2>2, <3>1
  <2>6. QED
    BY <1>3, <2>2, <2>3, <2>4, <2>5
<1>10. cursor' = s[k].id /\ s[k] \in S /\ k \in 1..k
  BY <1>2, <1>3, <1>8
<1>11. cursor' \in 0..Cardinality(rows)
  <2>1. s[k].id \in 1..Cardinality(rows)
    BY <1>1, <1>10 DEF RowsInv
  <2>2. QED
    BY <1>10, <2>1
<1>12. LiveInv'
  <2>1. \A r \in rows : r.id <= cursor' => Queued(r)' \/ Takes(Screen, r)'
    <3> SUFFICES ASSUME NEW r \in rows, r.id <= cursor' PROVE Queued(r)' \/ Takes(Screen, r)'
      OBVIOUS
    <3>1. CASE r.id <= cursor
      <4>1. Queued(r) \/ Takes(Screen, r)
        BY <1>1, <3>1 DEF LiveInv
      <4>2. Queued(r) => Queued(r)'
        <5>1. SUFFICES ASSUME NEW i \in 1..m, queue[i] = r PROVE Queued(r)'
          BY <1>7 DEF Queued
        <5>2. i \in DOMAIN queue' /\ queue'[i] = r
          BY <1>2, <1>7, <1>9, <5>1
        <5>3. QED
          BY <5>2 DEF Queued
      <4>3. Takes(Screen, r) => Takes(Screen, r)'
        BY <1>4, <1>6 DEF Takes
      <4>4. QED
        BY <4>1, <4>2, <4>3
    <3>2. CASE ~(r.id <= cursor)
      <4>1. r.id \in 1..Cardinality(rows)
        BY <1>1 DEF RowsInv
      <4>2. r \in S
        BY <1>7, <3>2, <4>1
      <4>3. PICK i \in 1..k : s[i] = r
        BY <1>2, <4>2
      <4>4. m + i \in DOMAIN queue' /\ queue'[m + i] = r
        BY <1>2, <1>7, <1>9, <4>3
      <4>5. QED
        BY <4>4 DEF Queued
    <3>3. QED
      BY <3>1, <3>2
  <2>2. ScreenOK(Screen)'
    BY <1>4, <1>6, <1>7 DEF ScreenOK, Grades
  <2>3. QED
    BY <1>4, <1>9, <1>11, <2>1, <2>2 DEF LiveInv
<1>13. OrderInv'
  <2>1. SUFFICES ASSUME InOrder
                 PROVE  /\ \A n \in DOMAIN nodes : nodes[n].event.id <= cursor'
                        /\ \A i \in DOMAIN queue' : queue'[i].id <= cursor'
                        /\ \A i, j \in DOMAIN queue' : i < j => queue'[i].id < queue'[j].id
                        /\ Ascending(Screen, 0)'
    BY <1>4 DEF OrderInv, InOrder
  <2>2. /\ \A n \in DOMAIN nodes : nodes[n].event.id <= cursor
        /\ \A i \in 1..m : queue[i].id <= cursor
        /\ \A i, j \in 1..m : i < j => queue[i].id < queue[j].id
        /\ \A i, j \in DOMAIN nodes : i < j => nodes[i].event.id < nodes[j].event.id
        /\ \A n \in DOMAIN nodes, i \in 1..m : nodes[n].event.id < queue[i].id
    <3>1. \A i \in 1..m : i > 0
      BY <1>7
    <3>2. QED
      BY <1>1, <1>7, <2>1, <3>1 DEF OrderInv, Ascending, Screen
  <2>3. \A r \in rows : r.id \in Nat
    BY <1>1, RowsSortable DEF Sortable
  <2>4. \A i \in 1..m : queue[i].id \in Nat
    <3>1. \A i \in 1..m : queue[i] \in rows
      BY <1>7, ElementOfSeq
    <3>2. QED
      BY <2>3, <3>1
  <2>5. \A n \in DOMAIN nodes : nodes[n].event.id \in Nat
    <3>1. nodes \in Seq(Nodes)
      BY <1>7 DEF ScreenOK, Screen
    <3>2. \A n \in DOMAIN nodes : nodes[n] \in Nodes
      BY <3>1, ElementOfSeq, LenProperties
    <3>3. QED
      BY <2>3, <3>2 DEF Nodes
  <2>6. \A i \in 1..k : s[i].id \in Nat /\ s[i].id > cursor /\ s[i].id <= cursor'
    <3> TAKE i \in 1..k
    <3>1. s[i].id \in Nat /\ s[i].id > cursor /\ s[k].id \in Nat
      BY <1>2, <1>10, <2>3
    <3>2. CASE i = k
      BY <1>10, <3>1, <3>2
    <3>3. CASE i < k
      BY <1>2, <1>10, <2>1, <3>1, <3>3
    <3>4. QED
      BY <1>2, <3>2, <3>3
  <2>7. cursor \in Nat /\ cursor' \in Nat /\ cursor < cursor'
    BY <1>7, <1>10, <2>6
  <2>8. \A n \in DOMAIN nodes : nodes[n].event.id <= cursor'
    BY <2>2, <2>5, <2>7
  <2>9. ASSUME NEW i \in 1..(m + k)
        PROVE  \/ i \in 1..m /\ queue'[i] = queue[i]
               \/ i - m \in 1..k /\ queue'[i] = s[i - m]
    <3>1. CASE i \in 1..m
      BY <1>9, <3>1
    <3>2. CASE i - m \in 1..k
      <4>1. m + (i - m) = i
        BY <1>7
      <4>2. QED
        BY <1>9, <3>2, <4>1
    <3>3. QED
      BY <1>2, <1>7, <3>1, <3>2
  <2>10. \A i \in 1..(m + k) : queue'[i].id <= cursor'
    BY <2>2, <2>4, <2>6, <2>7, <2>9
  <2>11. ASSUME NEW i \in 1..(m + k), NEW j \in 1..(m + k), i < j
         PROVE  queue'[i].id < queue'[j].id
    <3>1. CASE i \in 1..m /\ j \in 1..m
      BY <1>9, <2>2, <2>11, <3>1
    <3>2. CASE i \in 1..m /\ j - m \in 1..k /\ queue'[j] = s[j - m]
      BY <1>9, <2>2, <2>4, <2>6, <2>7, <3>2
    <3>3. CASE i - m \in 1..k /\ j - m \in 1..k /\ queue'[i] = s[i - m] /\ queue'[j] = s[j - m]
      <4>1. i - m < j - m
        BY <1>7, <2>11
      <4>2. QED
        BY <1>2, <2>1, <3>3, <4>1
    <3>4. CASE i - m \in 1..k /\ j \in 1..m
      BY <1>7, <2>11, <3>4
    <3>5. QED
      BY <2>9, <3>1, <3>2, <3>3, <3>4
  <2>12. \A n \in DOMAIN nodes, i \in 1..(m + k) : nodes[n].event.id < queue'[i].id
    <3> TAKE n \in DOMAIN nodes, i \in 1..(m + k)
    <3>1. CASE i \in 1..m /\ queue'[i] = queue[i]
      BY <2>2, <3>1
    <3>2. CASE i - m \in 1..k /\ queue'[i] = s[i - m]
      BY <2>2, <2>5, <2>6, <2>7, <3>2
    <3>3. QED
      BY <2>9, <3>1, <3>2
  <2>13. Ascending(Screen, 0)'
    BY <1>4, <1>6, <1>9, <2>2, <2>12 DEF Ascending, Screen
  <2>14. QED
    BY <1>9, <2>8, <2>10, <2>11, <2>13
<1>14. QED
  BY <1>5, <1>12, <1>13 DEF IInv

\* What has arrived leaves the queue for the screen.
LEMMA IngestLiveStep ==
    ASSUME IInv, NEW n \in DOMAIN queue, IngestLive(n) PROVE IInv'
<1> DEFINE after == Ingested(Screen, n)
           m == Len(queue)
<1>1. RowsInv /\ TableInv /\ LiveInv /\ OrderInv /\ load = "Live"
  BY DEF IInv, IngestLive
<1>2. /\ nodes' = after.nodes /\ tree' = after.tree
      /\ verdicts' = after.verdicts /\ scans' = after.scans
      /\ queue' = SubSeq(queue, n + 1, Len(queue))
      /\ UNCHANGED <<ledger, cursor, load>>
  BY DEF IngestLive, Screen
<1>3. Taken(after, n)
  BY <1>1, IngestedTaken
<1> HIDE DEF after
<1>4. rows' = rows /\ table' = table /\ cursor' = cursor /\ load' = load
  BY <1>2 DEF ledger
<1>5. RowsInv' /\ TableInv'
  BY <1>1, <1>2, RowsStay
<1>6. Screen' = after /\ Nodes' = Nodes
  BY <1>2, <1>3, <1>4 DEF Screen, Nodes, Findings, Taken, ScreenOK
<1>7. /\ queue \in Seq(rows) /\ m \in Nat /\ DOMAIN queue = 1..m /\ n \in 1..m
      /\ cursor \in 0..Cardinality(rows)
  BY <1>1, LenProperties DEF LiveInv
<1> HIDE DEF m
<1>8. /\ queue' \in Seq(rows) /\ DOMAIN queue' = 1..(m - n)
      /\ \A i \in 1..(m - n) : i + n \in 1..m /\ queue'[i] = queue[i + n]
  <2>1. queue' = SubSeq(queue, n + 1, m)
    BY <1>2 DEF m
  <2>2. \A i \in (n + 1)..m : queue[i] \in rows
    BY <1>7, ElementOfSeq
  <2>3. queue' = [i \in 1..(m - n) |-> queue[i + n]]
    BY <1>7, <2>1
  <2>4. \A i \in 1..(m - n) : i + n \in (n + 1)..m
    BY <1>7
  <2>5. queue' \in [1..(m - n) -> rows] /\ m - n \in Nat
    BY <1>7, <2>2, <2>3, <2>4
  <2>6. queue' \in Seq(rows)
    BY <2>5, SeqDef
  <2>7. QED
    BY <1>7, <2>3, <2>4, <2>6
<1>9. LiveInv'
  <2>1. ScreenOK(Screen)'
    <3>1. ScreenOK(after)
      BY <1>3 DEF Taken
    <3>2. QED
      BY <1>4, <1>6, <3>1 DEF ScreenOK, Grades
  <2>2. \A r \in rows : r.id <= cursor => Queued(r)' \/ Takes(Screen, r)'
    <3> SUFFICES ASSUME NEW r \in rows, r.id <= cursor PROVE Queued(r)' \/ Takes(Screen, r)'
      OBVIOUS
    <3>1. CASE Takes(after, r)
      BY <1>6, <3>1 DEF Takes
    <3>2. CASE ~Takes(after, r)
      <4>1. ~Takes(Screen, r) /\ ~\E j \in 1..n : queue[j] = r
        BY <1>3, <3>2 DEF Taken
      <4>2. PICK i \in 1..m : queue[i] = r
        BY <1>1, <1>7, <4>1 DEF LiveInv, Queued
      <4>3. i - n \in 1..(m - n) /\ (i - n) + n = i
        BY <1>7, <4>1, <4>2
      <4>4. QED
        BY <1>8, <4>2, <4>3 DEF Queued
    <3>3. QED
      BY <3>1, <3>2
  <2>3. QED
    BY <1>4, <1>7, <1>8, <2>1, <2>2 DEF LiveInv
<1>10. OrderInv'
  <2>1. SUFFICES ASSUME InOrder
                 PROVE  /\ \A i \in DOMAIN nodes' : nodes'[i].event.id <= cursor
                        /\ \A i \in DOMAIN queue' : queue'[i].id <= cursor
                        /\ \A i, j \in DOMAIN queue' : i < j => queue'[i].id < queue'[j].id
                        /\ Ascending(Screen, 0)'
    BY <1>4 DEF OrderInv, InOrder
  <2>2. Ascending(after, n) /\ Behind(after)
    BY <1>1, <1>3, <2>1 DEF Taken
  <2>3. \A i \in DOMAIN nodes' : nodes'[i].event.id <= cursor
    BY <1>2, <2>2 DEF Behind
  <2>4. /\ \A i \in 1..m : queue[i].id <= cursor
        /\ \A i, j \in 1..m : i < j => queue[i].id < queue[j].id
    BY <1>1, <1>7, <2>1 DEF OrderInv
  <2>5. \A i \in 1..(m - n) : queue'[i].id <= cursor
    BY <1>8, <2>4
  <2>6. ASSUME NEW i \in 1..(m - n), NEW j \in 1..(m - n), i < j
        PROVE  queue'[i].id < queue'[j].id
    <3>1. i + n < j + n
      BY <1>7, <2>6
    <3>2. QED
      BY <1>8, <2>4, <3>1
  <2>7. \A k \in DOMAIN after.nodes, i \in 1..(m - n) : after.nodes[k].event.id < queue'[i].id
    <3> TAKE k \in DOMAIN after.nodes, i \in 1..(m - n)
    <3>1. i + n > n /\ i + n \in DOMAIN queue
      BY <1>7, <1>8
    <3>2. QED
      BY <1>8, <2>2, <3>1 DEF Ascending
  <2>8. Ascending(Screen, 0)'
    BY <1>6, <1>8, <2>2, <2>7 DEF Ascending
  <2>9. QED
    BY <1>8, <2>3, <2>5, <2>6, <2>8
<1>11. QED
  BY <1>5, <1>9, <1>10 DEF IInv

\* A transcript that goes live starts empty, its cursor before every row.
LEMMA BeginLiveStep ==
    ASSUME IInv, BeginLive PROVE IInv'
<1>1. /\ nodes' = << >> /\ tree' = [steps |-> << >>, open |-> EmptyTree.open]
      /\ verdicts' = Unscanned /\ scans' = Unscanned /\ load' = "Live"
      /\ cursor' = 0 /\ queue' = << >> /\ UNCHANGED ledger
  BY DEF BeginLive, Show
<1>2. RowsInv /\ RowsInv' /\ TableInv' /\ rows' = rows
  BY <1>1, RowsStay DEF IInv, ledger
<1>3. DOMAIN Unscanned = {}
  BY DEF Unscanned
<1>4. BuildTree(<< >>) = EmptyTree
  <2>1. Len(<< >>) = 0
    OBVIOUS
  <2>2. QED
    BY <2>1, TreeSteps DEF IsTree
<1>5. tree' = EmptyTree
  BY <1>1 DEF EmptyTree
<1>6. Screen' = [nodes |-> << >>, tree |-> EmptyTree, verdicts |-> Unscanned, scans |-> Unscanned]
  BY <1>1, <1>5 DEF Screen
<1>7. EventsIn(<< >>) = << >>
  BY DEF EventsIn
<1>8. ScreenOK(Screen)'
  <2>1. Grades(Unscanned, "adjudicated")' /\ Grades(Unscanned, "message_scan")'
    BY <1>3 DEF Grades
  <2>2. << >> \in Seq(Nodes') /\ DOMAIN << >> = {}
    OBVIOUS
  <2> HIDE DEF Unscanned
  <2>3. QED
    BY <1>4, <1>6, <1>7, <2>1, <2>2 DEF ScreenOK
<1>9. Cardinality(rows) \in Nat /\ \A r \in rows : r.id \in 1..Cardinality(rows)
  BY <1>2, FS_CardinalityType DEF RowsInv
<1>10. LiveInv'
  <2>1. \A r \in rows : ~(r.id <= 0)
    BY <1>9
  <2>2. 0 \in 0..Cardinality(rows) /\ << >> \in Seq(rows)
    BY <1>9
  <2>3. QED
    BY <1>1, <1>2, <1>8, <2>1, <2>2 DEF LiveInv
<1>11. OrderInv'
  <2>1. DOMAIN << >> = {}
    OBVIOUS
  <2>2. Ascending(Screen, 0)'
    BY <1>1, <1>6, <2>1 DEF Ascending
  <2>3. QED
    BY <1>1, <2>1, <2>2 DEF OrderInv
<1>12. QED
  BY <1>2, <1>10, <1>11 DEF IInv

\* Keys move the reader alone.
LEMMA KeyStays == ASSUME Key PROVE UNCHANGED <<ledger, tail, content>>
  BY DEF Key, MoveRow, ToggleExpanded, ExpandAll, CollapseAll, JumpToNextFire,
         JumpToNextSignal, JumpTo, TogglePane, Moves

\* One step per action of Next.
LEMMA NextIInv == ASSUME IInv, [Next]_vars PROVE IInv'
<1>1. CASE InsertRow
  BY <1>1, InsertStep
<1>2. CASE Poll
  BY <1>2, PollStep
<1>3. CASE Ingests
  BY <1>3, IngestLiveStep DEF Ingests
<1>4. CASE BeginLive
  BY <1>4, BeginLiveStep
<1>5. CASE SetTranscript
  <2>1. UNCHANGED ledger /\ load' = "Ready"
    BY <1>5 DEF SetTranscript, Show
  <2>2. QED
    BY <2>1, RowsStay, NotLive DEF IInv
<1>6. CASE LoadFails \/ EndLive \/ Reload
  <2>1. UNCHANGED ledger /\ load' \in {"Failed", "Ready", "Loading"}
    BY <1>6 DEF LoadFails, EndLive, Reload
  <2>2. QED
    BY <2>1, RowsStay, NotLive DEF IInv
<1>7. CASE Key \/ UNCHANGED vars
  <2>1. UNCHANGED <<ledger, tail, content>>
    BY <1>7, KeyStays DEF vars
  <2>2. rows' = rows
    BY <2>1 DEF ledger
  <2>3. QED
    BY <2>1, <2>2, RowsStay, LiveStays DEF IInv
<1>8. CASE PersistScan
  BY <1>8, PersistScanStep
<1>9. QED
  BY <1>1, <1>2, <1>3, <1>4, <1>5, <1>6, <1>7, <1>8 DEF Next

-----------------------------------------------------------------------------
(***************************************************************************)
(* The page: the events that are no records of scanners or of the engine,  *)
(* in event order, with what those say of them.                            *)
(***************************************************************************)
ListedRows == {r \in rows : ~IsFoldedControl(r)}

\* Of the records of one kind that name an event there is at most one.
LEMMA FoldedIs ==
    ASSUME RowsInv, NEW body, NEW id \in Nat \ {0}
    PROVE  LET at == FoldedOnto(Ledger, body, id)
           IN  /\ \A r \in rows : r.body = body /\ r.cause = id => at # 0 /\ Ledger[at] = r
               /\ (\A r \in rows : ~(r.body = body /\ r.cause = id)) => at = 0
<1> DEFINE k == Cardinality(rows)
           L == Ledger
           found == {i \in DOMAIN L : L[i].body = body /\ L[i].cause = id /\ L[i].cause # 0}
           at == FoldedOnto(Ledger, body, id)
<1>1. Sortable(rows)
  BY RowsSortable
<1>2. /\ k \in Nat /\ L \in [1..k -> rows]
      /\ \A r \in rows : \E i \in 1..k : L[i] = r
      /\ \A i, j \in 1..k : i < j => InEventOrder(L[i], L[j])
  BY <1>1, OrderedIs DEF Ledger
<1>3. at = IF found = {} THEN 0 ELSE CHOOSE i \in found : \A j \in found : j <= i
  BY DEF FoldedOnto, Newest
<1> HIDE DEF k, L, at
<1>4. \A i, j \in 1..k : L[i] = L[j] => i = j
  <2> SUFFICES ASSUME NEW i \in 1..k, NEW j \in 1..k, i < j PROVE L[i] # L[j]
    BY <1>2
  <2>1. InEventOrder(L[i], L[j]) /\ L[i] \in rows
    BY <1>2
  <2>2. QED
    BY <1>1, <2>1, OrderIsTotal
<1>5. \A i, j \in found : i = j
  <2> TAKE i \in found, j \in found
  <2>1. i \in 1..k /\ j \in 1..k /\ L[i] \in rows /\ L[j] \in rows
    BY <1>2
  <2>2. L[i] = L[j]
    BY <2>1 DEF RowsInv
  <2>3. QED
    BY <1>4, <2>1, <2>2
<1>6. ASSUME NEW r \in rows, r.body = body, r.cause = id PROVE at # 0 /\ L[at] = r
  <2>1. PICK i \in 1..k : L[i] = r
    BY <1>2
  <2>2. i \in found /\ i # 0
    BY <1>2, <1>6, <2>1
  <2>3. \A j \in found : j = i
    BY <1>5, <2>2
  <2>4. i <= i
    BY <2>1
  <2> HIDE DEF found
  <2>5. (CHOOSE x \in found : \A j \in found : j <= x) = i
    BY <2>2, <2>3, <2>4
  <2>6. at = i
    BY <1>3, <2>2, <2>5
  <2>7. QED
    BY <2>1, <2>2, <2>6
<1>7. ASSUME \A r \in rows : ~(r.body = body /\ r.cause = id) PROVE at = 0
  <2>1. found = {}
    BY <1>2, <1>7
  <2>2. QED
    BY <1>3, <2>1
<1>8. QED
  BY <1>6, <1>7 DEF L, at

\* What the record of a kind says of an event, if there is one.
IsGradeOf(id, body, said) ==
    \/ \E r \in rows : r.body = body /\ r.cause = id /\ said = SaidBy(r)
    \/ said = Unsaid(body) /\ \A r \in rows : ~(r.body = body /\ r.cause = id)

\* What the page says of an event is what its record says.
LEMMA FoldSays ==
    ASSUME RowsInv, NEW body, NEW id \in Nat \ {0}
    PROVE  LET at == FoldedOnto(Ledger, body, id)
           IN  /\ IsGradeOf(id, body, IF at = 0 THEN Unsaid(body) ELSE SaidBy(Ledger[at]))
               /\ at # 0 => Ledger[at].body = body
<1> DEFINE at == FoldedOnto(Ledger, body, id)
<1>1. /\ \A r \in rows : r.body = body /\ r.cause = id => at # 0 /\ Ledger[at] = r
      /\ (\A r \in rows : ~(r.body = body /\ r.cause = id)) => at = 0
  BY FoldedIs
<1> HIDE DEF at
<1>2. /\ IsGradeOf(id, body, IF at = 0 THEN Unsaid(body) ELSE SaidBy(Ledger[at]))
      /\ at # 0 => Ledger[at].body = body
  <2>1. CASE \E r \in rows : r.body = body /\ r.cause = id
    BY <1>1, <2>1 DEF IsGradeOf
  <2>2. CASE \A r \in rows : ~(r.body = body /\ r.cause = id)
    BY <1>1, <2>2 DEF IsGradeOf
  <2>3. QED
    BY <2>1, <2>2
<1>3. QED
  BY <1>2 DEF at

\* No event has two records of one kind.
LEMMA SaysOne ==
    ASSUME RowsInv, NEW id \in Nat \ {0}, NEW body, NEW x, NEW y,
           IsGradeOf(id, body, x), IsGradeOf(id, body, y)
    PROVE  x = y
  BY DEF IsGradeOf, RowsInv

\* The page lists every row that is not folded away, graded: with its verdict,
\* and with its scan if that was announced.
LEMMA PageIs ==
    ASSUME RowsInv
    PROVE  LET k == Cardinality(ListedRows)
           IN  /\ DOMAIN Page = 1..k
               /\ \A i \in 1..k :
                    /\ Page[i].event = Ordered(ListedRows)[i]
                    /\ \E verdict, scan :
                          /\ Page[i] = [event |-> Ordered(ListedRows)[i],
                                        adjudication |-> verdict, summary |-> scan]
                          /\ IsGradeOf(Page[i].event.id, "adjudicated", verdict)
                          /\ Announced(Page[i].event.id) =>
                                IsGradeOf(Page[i].event.id, "message_scan", scan)
<1> DEFINE k == Cardinality(ListedRows)
           kept == Ordered(ListedRows)
           L == Ledger
           details == [i \in DOMAIN kept |-> Detail(L, kept[i])]
<1>1. {e \in {L[i] : i \in DOMAIN L} : ~IsFoldedControl(e)} = ListedRows
  <2>1. Sortable(rows)
    BY RowsSortable
  <2>2. /\ Ledger \in [1..Cardinality(rows) -> rows]
        /\ \A e \in rows : \E i \in 1..Cardinality(rows) : Ledger[i] = e
    BY <2>1, OrderedIs DEF Ledger
  <2>3. {L[i] : i \in DOMAIN L} = rows
    <3> HIDE DEF L
    <3>1. /\ L \in [1..Cardinality(rows) -> rows]
          /\ \A e \in rows : \E i \in 1..Cardinality(rows) : L[i] = e
      BY <2>2 DEF L
    <3>2. QED
      BY <3>1
  <2>4. QED
    BY <2>3 DEF ListedRows
<1>2. FoldEventDetails(Ledger) = details
  <2> DEFINE S == {e \in {L[i] : i \in DOMAIN L} : ~IsFoldedControl(e)}
  <2>1. FoldEventDetails(L) = [i \in DOMAIN Ordered(S) |-> Detail(L, Ordered(S)[i])]
    BY DEF FoldEventDetails
  <2>2. S = ListedRows
    BY <1>1
  <2> HIDE DEF S, L
  <2>3. QED
    BY <2>1, <2>2 DEF L
<1>3. Sortable(ListedRows)
  <2>1. ListedRows \in SUBSET rows
    BY DEF ListedRows
  <2>2. QED
    BY <2>1, RowsSortable
<1>4. k \in Nat /\ kept \in [1..k -> ListedRows]
  BY <1>3, OrderedIs
<1> HIDE DEF kept, k
<1>5. DOMAIN kept = 1..k /\ DOMAIN details = 1..k
  BY <1>4
<1>6. Page = [i \in DOMAIN details |->
                 IF details[i].event.id \in DOMAIN table
                 THEN [details[i] EXCEPT !.summary = table[details[i].event.id]]
                 ELSE details[i]]
  BY <1>2 DEF Page, AttachEventScans
<1>7. DOMAIN Page = 1..k
  BY <1>5, <1>6
<1>8. ASSUME NEW i \in 1..k
      PROVE  /\ Page[i].event = kept[i]
             /\ \E verdict, scan :
                   /\ Page[i] = [event |-> kept[i], adjudication |-> verdict, summary |-> scan]
                   /\ IsGradeOf(Page[i].event.id, "adjudicated", verdict)
                   /\ Announced(Page[i].event.id) =>
                         IsGradeOf(Page[i].event.id, "message_scan", scan)
  <2> DEFINE e == kept[i]
             a == FoldedOnto(L, "adjudicated", e.id)
             b == FoldedOnto(L, "message_scan", e.id)
             verdict == IF a = 0 THEN 0 ELSE L[a].id
             summary == IF b = 0 THEN NoScan ELSE ScanOf(L[b])
             scan == IF e.id \in DOMAIN table THEN table[e.id] ELSE summary
  <2>1. e \in rows
    BY <1>4 DEF ListedRows
  <2>2. e.id \in Nat \ {0}
    <3>1. Cardinality(rows) \in Nat /\ e.id \in 1..Cardinality(rows)
      BY <2>1, FS_CardinalityType DEF RowsInv
    <3>2. QED
      BY <3>1
  <2>3. IsGradeOf(e.id, "adjudicated", verdict) /\ IsGradeOf(e.id, "message_scan", summary)
    <3>1. /\ IsGradeOf(e.id, "adjudicated", IF a = 0 THEN Unsaid("adjudicated") ELSE SaidBy(L[a]))
          /\ a # 0 => L[a].body = "adjudicated"
      BY <2>2, FoldSays
    <3>2. /\ IsGradeOf(e.id, "message_scan", IF b = 0 THEN Unsaid("message_scan") ELSE SaidBy(L[b]))
          /\ b # 0 => L[b].body = "message_scan"
      BY <2>2, FoldSays
    <3> HIDE DEF a, b, L
    <3>3. /\ verdict = IF a = 0 THEN Unsaid("adjudicated") ELSE SaidBy(L[a])
          /\ summary = IF b = 0 THEN Unsaid("message_scan") ELSE SaidBy(L[b])
      BY <3>1, <3>2 DEF SaidBy, Unsaid
    <3>4. QED
      BY <3>1, <3>2, <3>3
  <2>4. details[i] = [event |-> e, adjudication |-> verdict, summary |-> summary]
    BY <1>5 DEF Detail
  <2> HIDE DEF L, a, b, verdict, summary, details
  <2>5. Announced(e.id) => IsGradeOf(e.id, "message_scan", scan)
    <3>1. CASE e.id \in DOMAIN table
      <4>1. SUFFICES ASSUME NEW r \in rows, r.body = "message_scan", r.cause = e.id
                     PROVE  IsGradeOf(e.id, "message_scan", table[e.id])
        BY <3>1 DEF Announced
      <4>2. table[e.id] = SaidBy(r)
        BY <4>1 DEF RowsInv, SaidBy
      <4>3. QED
        BY <4>1, <4>2 DEF IsGradeOf
    <3>2. CASE e.id \notin DOMAIN table
      BY <2>3, <3>2
    <3>3. QED
      BY <3>1, <3>2
  <2>6. Page[i] = [event |-> e, adjudication |-> verdict, summary |-> scan]
    <3>1. details[i].event = e
      BY <2>4
    <3>2. Page[i] = IF e.id \in DOMAIN table
                    THEN [details[i] EXCEPT !.summary = table[e.id]] ELSE details[i]
      BY <1>5, <1>6, <3>1 DEF details
    <3>3. QED
      BY <2>4, <3>2
  <2> HIDE DEF scan
  <2>7. Page[i].event = e
    BY <2>6
  <2> HIDE DEF e
  <2>8. QED
    BY <2>3, <2>5, <2>6, <2>7 DEF e
<1>9. QED
  BY <1>7, <1>8 DEF k, kept

-----------------------------------------------------------------------------
\* A live transcript that has caught up has taken every row.
LEMMA CaughtUp ==
    ASSUME IInv, Streamed, NEW r \in rows PROVE Takes(Screen, r)
<1>1. RowsInv /\ LiveInv /\ queue = << >> /\ EventsAfter = << >> /\ load = "Live"
  BY DEF IInv, Streamed
<1> DEFINE S == {q \in rows : q.id > cursor}
<1>2. Cardinality(S) = 0
  <2>1. Len(EventsAfter) = Cardinality(S)
    BY <1>1, BatchIs
  <2>2. QED
    BY <1>1, <2>1
<1>3. S = {}
  <2>1. IsFiniteSet(S)
    BY <1>1, FS_Subset DEF RowsInv
  <2> HIDE DEF S
  <2>2. QED
    BY <1>2, <2>1, FS_EmptySet
<1>4. r.id <= cursor
  <2>1. r.id \in Nat
    BY <1>1, RowsSortable DEF Sortable
  <2>2. Cardinality(rows) \in Nat /\ cursor \in 0..Cardinality(rows)
    BY <1>1, FS_CardinalityType DEF RowsInv, LiveInv
  <2>3. ~(r.id > cursor)
    BY <1>3
  <2>4. QED
    BY <2>1, <2>2, <2>3
<1>5. ~Queued(r)
  BY <1>1 DEF Queued
<1>6. QED
  BY <1>1, <1>4, <1>5 DEF LiveInv

\* So its node says of an event what the records say.
LEMMA ScreenSays ==
    ASSUME IInv, Streamed, NEW r \in rows,
           NEW over, NEW body \in {"adjudicated", "message_scan"},
           over = IF body = "adjudicated" THEN verdicts ELSE scans
    PROVE  IsGradeOf(r.id, body, IF r.id \in DOMAIN over THEN over[r.id] ELSE Unsaid(body))
<1>1. Grades(over, body)
  BY DEF IInv, LiveInv, Streamed, ScreenOK, Screen
<1>2. CASE r.id \in DOMAIN over
  BY <1>1, <1>2 DEF Grades, IsGradeOf
<1>3. CASE r.id \notin DOMAIN over
  <2>1. ASSUME NEW q \in rows, q.body = body, q.cause = r.id PROVE FALSE
    <3>1. Takes(Screen, q)
      BY CaughtUp
    <3>2. QED
      BY <1>3, <2>1, <3>1 DEF Takes, Screen
  <2>2. QED
    BY <1>3, <2>1 DEF IsGradeOf
<1>4. QED
  BY <1>2, <1>3

\* The nodes are those of the page.
LEMMA NodesMatchPage == ASSUME IInv PROVE VerdictsReachTheirRows
<1>1. SUFFICES ASSUME Streamed
               PROVE  /\ \A i \in DOMAIN Page : \E n \in DOMAIN nodes :
                                                     nodes[n] = Streamable(Page[i])
                      /\ Cardinality(Shown) = Len(nodes)
  BY DEF VerdictsReachTheirRows
<1>2. RowsInv /\ ScreenOK(Screen)
  BY <1>1 DEF IInv, LiveInv, Streamed
<1>3. ASSUME NEW i \in DOMAIN Page
      PROVE  \E n \in DOMAIN nodes : nodes[n] = Streamable(Page[i])
  <2> DEFINE e == Page[i].event
  <2>1. PICK verdict, scan : /\ Page[i] = [event |-> e, adjudication |-> verdict, summary |-> scan]
                             /\ IsGradeOf(e.id, "adjudicated", verdict)
                             /\ Announced(e.id) => IsGradeOf(e.id, "message_scan", scan)
    BY <1>2, <1>3, PageIs
  <2>2. e \in ListedRows
    <3>1. Sortable(ListedRows)
      <4>1. ListedRows \in SUBSET rows
        BY DEF ListedRows
      <4>2. QED
        BY <1>2, <4>1, RowsSortable
    <3>2. QED
      BY <1>2, <1>3, <3>1, PageIs, OrderedIs
  <2> HIDE DEF e
  <2>3. e \in rows /\ ~GovernanceOf(e)
    BY <2>2 DEF ListedRows, IsFoldedControl, GovernanceOf, Governances
  <2>4. PICK n \in DOMAIN nodes : nodes[n].event = e
    BY <1>1, <2>3, CaughtUp DEF Takes, Screen
  <2>5. nodes[n] = Graded(e, verdicts, scans)
    BY <1>2, <2>4 DEF ScreenOK, Screen
  <2>6. e.id \in Nat \ {0}
    <3>1. Cardinality(rows) \in Nat /\ e.id \in 1..Cardinality(rows)
      BY <1>2, <2>3, FS_CardinalityType DEF RowsInv
    <3>2. QED
      BY <3>1
  <2> DEFINE graded == IF e.id \in DOMAIN verdicts THEN verdicts[e.id] ELSE 0
             scanned == IF e.id \in DOMAIN scans THEN scans[e.id] ELSE NoScan
  <2>7. IsGradeOf(e.id, "adjudicated", graded) /\ IsGradeOf(e.id, "message_scan", scanned)
    <3>1. IsGradeOf(e.id, "adjudicated", IF e.id \in DOMAIN verdicts THEN verdicts[e.id]
                                         ELSE Unsaid("adjudicated"))
      BY <1>1, <2>3, ScreenSays
    <3>2. IsGradeOf(e.id, "message_scan", IF e.id \in DOMAIN scans THEN scans[e.id]
                                          ELSE Unsaid("message_scan"))
      BY <1>1, <2>3, ScreenSays
    <3>3. QED
      BY <3>1, <3>2 DEF Unsaid
  <2>8. nodes[n] = [event |-> e, adjudication |-> graded, summary |-> scanned]
    BY <2>5 DEF Graded
  <2> HIDE DEF graded, scanned
  <2>9. /\ verdict = graded
        /\ Announced(e.id) => scan = scanned
        /\ ~Announced(e.id) => scanned = NoScan
    <3>1. verdict = graded /\ (Announced(e.id) => scan = scanned)
      BY <1>2, <2>1, <2>6, <2>7, SaysOne
    <3>2. ~Announced(e.id) => scanned = NoScan
      BY <2>7 DEF IsGradeOf, Announced, Unsaid
    <3>3. QED
      BY <3>1, <3>2
  <2>10. nodes[n] = Streamable(Page[i])
    <3>1. Page[i].event = e
      BY <2>1
    <3>2. CASE Announced(e.id)
      BY <2>1, <2>8, <2>9, <3>1, <3>2 DEF Streamable
    <3>3. CASE ~Announced(e.id)
      BY <2>1, <2>8, <2>9, <3>1, <3>3 DEF Streamable
    <3>4. QED
      BY <3>2, <3>3
  <2>11. QED
    BY <2>4, <2>10
<1>4. Cardinality(Shown) = Len(nodes)
  <2> DEFINE A == 1..Len(nodes)
             f == [n \in A |-> nodes[n].event.id]
  <2>1. Len(nodes) \in Nat /\ DOMAIN nodes = A
    BY <1>2, LenProperties DEF ScreenOK, Screen
  <2>2. \A m, n \in A : f[m] = f[n] => m = n
    BY <1>2, <2>1 DEF ScreenOK, Screen
  <2>3. Shown = {f[n] : n \in A}
    BY <2>1 DEF Shown
  <2>4. IsFiniteSet(A) /\ Cardinality(A) = Len(nodes)
    <3> DEFINE c == Len(nodes)
    <3> HIDE DEF c
    <3>1. c \in Nat
      BY <2>1 DEF c
    <3>2. IsFiniteSet(1..c) /\ Cardinality(1..c) = c
      BY <3>1, FS_Interval
    <3>3. QED
      BY <3>2 DEF c
  <2>5. f \in [A -> Shown]
    BY <2>3
  <2>6. f \in Injection(A, Shown) /\ f \in Surjection(A, Shown)
    <3> HIDE DEF A, f
    <3>1. QED
      BY <2>2, <2>3, <2>5 DEF Injection, IsInjective, Surjection
  <2> HIDE DEF A, f
  <2>7. Cardinality(Shown) = Cardinality(A)
    BY <2>4, <2>6, FS_Surjection, Zenon
  <2>8. QED
    BY <2>4, <2>7
<1>5. QED
  BY <1>3, <1>4

\* TranscriptTail: a live transcript that has caught up shows what the page of
\* the console lists, each event once, with the verdict that the page gives it
\* and, if the record of its scan reached the ledger, with that scan, in whatever
\* order scans were stored and rows were written, stamped and streamed.
THEOREM VerdictsReachTheirRowsHolds == Spec => []VerdictsReachTheirRows
  BY InitIInv, NextIInv, NodesMatchPage, PTL DEF Spec

\* If both are in one order they are the same list, and so have the same tree.
LEMMA StepsMatchPage == ASSUME IInv PROVE SameTreeAsPage
<1> DEFINE list == EventsIn(Page)
           shown == EventsIn(nodes)
           k == Cardinality(ListedRows)
           m == Len(nodes)
<1>1. SUFFICES ASSUME Streamed, InOrder, ~HasInsight
               PROVE  shown = list /\ tree.steps = BuildSteps(list)
  BY DEF SameTreeAsPage
<1>2. RowsInv /\ ScreenOK(Screen) /\ Ascending(Screen, 0)
  BY <1>1 DEF IInv, LiveInv, OrderInv, Streamed
<1>3. Sortable(ListedRows)
  <2>1. ListedRows \in SUBSET rows
    BY DEF ListedRows
  <2>2. QED
    BY <1>2, <2>1, RowsSortable
<1>4. list = Ordered(ListedRows)
  <2>1. DOMAIN Page = 1..k /\ \A i \in 1..k : Page[i].event = Ordered(ListedRows)[i]
    BY <1>2, PageIs
  <2>2. Ordered(ListedRows) \in [1..k -> ListedRows]
    BY <1>3, OrderedIs
  <2>3. QED
    BY <2>1, <2>2 DEF EventsIn
<1>5. m \in Nat /\ DOMAIN nodes = 1..m /\ nodes \in Seq(Nodes)
  BY <1>2, LenProperties DEF ScreenOK, Screen
<1>6. \A n \in 1..m : shown[n] \in rows /\ ~GovernanceOf(shown[n])
  <2>1. \A n \in 1..m : nodes[n] \in Nodes
    BY <1>5, ElementOfSeq
  <2>2. QED
    BY <1>2, <1>5, <2>1 DEF Nodes, ScreenOK, Screen, EventsIn
<1>7. shown \in [1..m -> ListedRows]
  <2>1. \A n \in 1..m : ~IsFoldedControl(shown[n])
    BY <1>1, <1>6 DEF HasInsight, IsFoldedControl, GovernanceOf, Governances
  <2>2. \A n \in 1..m : shown[n] \in ListedRows
    BY <1>6, <2>1 DEF ListedRows
  <2>3. shown = [n \in 1..m |-> shown[n]]
    BY <1>5 DEF EventsIn
  <2> HIDE DEF shown
  <2>4. QED
    BY <2>2, <2>3
<1>8. \A r \in ListedRows : \E n \in 1..m : shown[n] = r
  <2> TAKE r \in ListedRows
  <2>1. r \in rows /\ ~GovernanceOf(r)
    BY DEF ListedRows, IsFoldedControl, GovernanceOf, Governances
  <2>2. PICK n \in DOMAIN nodes : nodes[n].event = r
    BY <1>1, <2>1, CaughtUp DEF Takes, Screen
  <2>3. QED
    BY <1>5, <2>2 DEF EventsIn
<1>9. \A i, j \in 1..m : i < j => InEventOrder(shown[i], shown[j])
  <2> SUFFICES ASSUME NEW i \in 1..m, NEW j \in 1..m, i < j
               PROVE  InEventOrder(shown[i], shown[j])
    OBVIOUS
  <2>1. shown[i].id < shown[j].id
    BY <1>2, <1>5 DEF Ascending, Screen, EventsIn
  <2>2. shown[i] \in rows /\ shown[j] \in rows
    BY <1>6
  <2> HIDE DEF shown
  <2>3. shown[i].time <= shown[j].time
    BY <1>1, <2>1, <2>2 DEF InOrder
  <2>4. shown[i].time \in Nat /\ shown[j].time \in Nat
    <3>1. Sortable(rows)
      BY <1>2, RowsSortable
    <3>2. QED
      BY <2>2, <3>1 DEF Sortable
  <2>5. QED
    BY <2>1, <2>3, <2>4 DEF InEventOrder
<1>10. shown = Ordered(ListedRows)
  <2> HIDE DEF shown, m
  <2>1. QED
    BY <1>3, <1>5, <1>7, <1>8, <1>9, OrderedIsTheOnly
<1>11. tree.steps = BuildSteps(shown)
  <2>1. tree = BuildTree(EventsIn(nodes))
    BY <1>2 DEF ScreenOK, Screen
  <2>2. QED
    BY <2>1 DEF BuildSteps
<1>12. QED
  BY <1>4, <1>10, <1>11

\* TranscriptTail: if rows came in the order of their times, the steps that the
\* fold of the stream has built are those that the page is folded into: an output
\* is under the same action, and the steps are in the same order.
THEOREM SameTreeAsPageHolds == Spec => []SameTreeAsPage
  BY InitIInv, NextIInv, StepsMatchPage, PTL DEF Spec

-----------------------------------------------------------------------------
(***************************************************************************)
(* The names of the entities.                                              *)
(***************************************************************************)
IsEntity(e) == e = [uid |-> e.uid, attrs |-> e.attrs, parents |-> e.parents]

StoreInv == \A e \in entities : IsEntity(e)

\* A removal takes no other entity with it.
LEMMA RemovedKeeps ==
    ASSUME NEW store, NEW uid, \A e \in store : IsEntity(e)
    PROVE  /\ \A e \in Removed(uid, store) : IsEntity(e)
           /\ \A e \in store : e.uid # uid =>
                  \E f \in Removed(uid, store) : f.uid = e.uid
<1>1. ASSUME NEW e \in store
      PROVE  LET f == [e EXCEPT !.parents = @ \ {uid}]
             IN  IsEntity(f) /\ f.uid = e.uid
  BY <1>1 DEF IsEntity
<1>2. QED
  BY <1>1 DEF Removed

-----------------------------------------------------------------------------
(***************************************************************************)
(* The request that is judged is the one that was asked for: its action    *)
(* resolved, under the schema that the answer will name.                   *)
(***************************************************************************)
AsksFor(state) ==
    /\ Resolves(ResolveAction(state.asked.action, state.in))
    /\ state.request.action = The(ResolveAction(state.asked.action, state.in))
    /\ state.in # Nothing => state.request.action \in state.in.actions

\* An action that the caller's spelling stands for is the one judged.
LEMMA OneAction ==
    ASSUME NEW state, AsksFor(state), state.in # Nothing,
           NEW n \in state.in.actions, Names(state.asked.action, n)
    PROVE  n = state.request.action
<1>1. PICK a : a = state.asked.action
  OBVIOUS
<1>2. PICK m : ResolveAction(a, state.in) = {m}
  BY <1>1 DEF AsksFor, Resolves
<1>3. state.request.action = m
  BY <1>1, <1>2 DEF AsksFor, The
<1>4. CASE a.ns # ""
  BY <1>1, <1>2, <1>3, <1>4 DEF ResolveAction, Names
<1>5. CASE a.ns = ""
  <2>1. {b \in state.in.actions : b.id = a.id} = {m}
    BY <1>2, <1>5 DEF ResolveAction
  <2>2. n.id = a.id
    BY <1>1 DEF Names
  <2>3. QED
    BY <1>3, <2>1, <2>2
<1>6. QED
  BY <1>4, <1>5

\* A verdict of which nothing is to be warned: no policy failed, a forbid that
\* concerns the request denies it, and a DENY names one.
LEMMA JudgeProves ==
    ASSUME NEW r, NEW set, NEW store, NEW in,
           Warnings(in, Judge(r, set, store)) = {}
    PROVE  /\ in # Nothing
           /\ Judge(r, set, store).errors = {}
           /\ Judge(r, set, store).decision = "ALLOW" =>
                  \A p \in set : Concerned(p, r) => p.effect # "forbid"
           /\ Judge(r, set, store).decision = "DENY" =>
                  \E p \in Judge(r, set, store).reasons : p.effect = "forbid"
<1> DEFINE concerned == {p \in set : Concerned(p, r)}
           fired == {p \in concerned : ~Errs(p, store)}
           forbids == {p \in fired : p.effect = "forbid"}
<1>1. PICK j : j = Judge(r, set, store)
  OBVIOUS
<1>2. /\ j.decision = IF forbids = {} /\ fired # {} THEN "ALLOW" ELSE "DENY"
      /\ j.reasons = IF forbids # {} THEN forbids ELSE fired
      /\ j.errors = concerned \ fired
  BY <1>1 DEF Judge
<1>3. in # Nothing /\ j.errors = {} /\ ~(j.decision = "DENY" /\ j.reasons = {})
  BY <1>1 DEF Warnings
<1>4. j.decision = "ALLOW" => \A p \in set : Concerned(p, r) => p.effect # "forbid"
  <2>1. ASSUME j.decision = "ALLOW", NEW p \in set, Concerned(p, r), p.effect = "forbid"
        PROVE  FALSE
    <3>1. p \in fired
      BY <1>2, <1>3, <2>1
    <3>2. p \in forbids
      BY <2>1, <3>1
    <3> HIDE DEF forbids, fired
    <3>3. QED
      BY <1>2, <2>1, <3>2
  <2>2. QED
    BY <2>1
<1>5. j.decision = "DENY" => \E p \in j.reasons : p.effect = "forbid"
  <2> HIDE DEF fired
  <2>1. QED
    BY <1>2, <1>3
<1>6. QED
  BY <1>1, <1>3, <1>4, <1>5

-----------------------------------------------------------------------------
(***************************************************************************)
(* The invariant, and the ways in which a call goes on.                    *)
(***************************************************************************)
CallOK(state) ==
    /\ state.tool = "add_entity" => IsEntity(state.entity)
    /\ state.tool \in {"is_authorized", "judging"} => AsksFor(state)
CallsInv ==
    /\ call = [c \in Callers |-> call[c]] /\ answer = [c \in Callers |-> answer[c]]
    /\ \A c \in Callers : CallOK(call[c])

\* What AnswersProve says of one answer.
Proves(a) ==
    /\ a.tool = "is_authorized" /\ a.warnings = {} =>
           LET named == {p \in a.over : p.effect = "forbid"
                           /\ \E n \in p.over \cap a.in.actions : Names(a.asked.action, n)}
           IN  /\ a.decision = "ALLOW" => named = {}
               /\ a.decision = "DENY" => \E p \in a.reasons : p.effect = "forbid"
               /\ a.errors = {}
    /\ a.tool = "validate_entity" /\ a.valid => "entity-validation" \in a.checks

CedarInv == StoreInv /\ CallsInv /\ EntitiesKept /\ \A c \in Callers : Proves(answer[c])

LEMMA ProvesIs == AnswersProve <=> \A c \in Callers : Proves(answer[c])
  BY Zenon DEF AnswersProve, Proves

LEMMA EndStep ==
    ASSUME CedarInv, NEW c \in Callers, NEW what, End(c, what), Proves(what)
    PROVE  CallsInv' /\ \A d \in Callers : Proves(answer[d])'
<1>1. /\ call = [d \in Callers |-> call[d]] /\ answer = [d \in Callers |-> answer[d]]
      /\ \A d \in Callers : CallOK(call[d])
      /\ \A d \in Callers : Proves(answer[d])
  BY Zenon DEF CedarInv, CallsInv
<1>2. DOMAIN call = Callers /\ DOMAIN answer = Callers
  BY <1>1
<1>3. CallOK(Idle)
  BY DEF CallOK, Idle
<1>4. /\ call' = [d \in Callers |-> call'[d]] /\ answer' = [d \in Callers |-> answer'[d]]
      /\ \A d \in Callers : call'[d] = (IF d = c THEN Idle ELSE call[d])
      /\ \A d \in Callers : answer'[d] = (IF d = c THEN what ELSE answer[d])
  BY <1>2 DEF End
<1>5. \A d \in Callers : CallOK(call'[d]) /\ Proves(answer'[d])
  BY <1>1, <1>3, <1>4, Zenon
<1>6. CallsInv'
  BY <1>4, <1>5, Zenon DEF CallsInv, CallOK, IsEntity, AsksFor
<1>7. QED
  BY <1>5, <1>6, Zenon DEF Proves

LEMMA GotoStep ==
    ASSUME CedarInv, NEW c \in Callers, NEW state, Goto(c, state), CallOK(state)
    PROVE  CallsInv' /\ \A d \in Callers : Proves(answer[d])'
<1>1. /\ call = [d \in Callers |-> call[d]] /\ answer = [d \in Callers |-> answer[d]]
      /\ \A d \in Callers : CallOK(call[d])
      /\ \A d \in Callers : Proves(answer[d])
  BY Zenon DEF CedarInv, CallsInv
<1>2. DOMAIN call = Callers
  BY <1>1
<1>3. /\ call' = [d \in Callers |-> call'[d]] /\ answer' = answer
      /\ \A d \in Callers : call'[d] = (IF d = c THEN state ELSE call[d])
  BY <1>2 DEF Goto
<1>4. \A d \in Callers : CallOK(call'[d]) /\ Proves(answer'[d])
  BY <1>1, <1>3, Zenon
<1>5. CallsInv'
  BY <1>1, <1>3, <1>4, Zenon DEF CallsInv, CallOK, IsEntity, AsksFor
<1>6. QED
  BY <1>4, <1>5, Zenon DEF Proves

\* Whatever is neither a decision nor a report of an entity promises nothing.
LEMMA Harmless ==
    ASSUME NEW a, a.tool \notin {"is_authorized", "validate_entity"} PROVE Proves(a)
  BY Zenon DEF Proves

LEMMA Decided ==
    ASSUME NEW state, AsksFor(state), NEW set, NEW store
    PROVE  LET judged == Judge(state.request, set, store)
           IN  Proves(AuthorizationResult(state, judged, set))
<1>1. PICK j : j = Judge(state.request, set, store)
  OBVIOUS
<1>2. PICK w : w = Warnings(state.in, j)
  OBVIOUS
<1>3. PICK a : a = [tool |-> "is_authorized", decision |-> j.decision,
                    reasons |-> j.reasons, errors |-> j.errors, warnings |-> w,
                    asked |-> state.asked, in |-> state.in, over |-> set]
  OBVIOUS
<1>4. ASSUME w = {} PROVE Proves(a)
  <2>1. /\ state.in # Nothing /\ j.errors = {}
        /\ j.decision = "ALLOW" =>
               \A p \in set : Concerned(p, state.request) => p.effect # "forbid"
        /\ j.decision = "DENY" => \E p \in j.reasons : p.effect = "forbid"
    <3>1. Warnings(state.in, Judge(state.request, set, store)) = {}
      BY <1>1, <1>2, <1>4, Zenon
    <3>2. /\ state.in # Nothing
          /\ Judge(state.request, set, store).errors = {}
          /\ Judge(state.request, set, store).decision = "ALLOW" =>
                 \A p \in set : Concerned(p, state.request) => p.effect # "forbid"
          /\ Judge(state.request, set, store).decision = "DENY" =>
                 \E p \in Judge(state.request, set, store).reasons : p.effect = "forbid"
      BY <3>1, JudgeProves
    <3>3. QED
      BY <1>1, <3>2
  <2>2. ASSUME j.decision = "ALLOW", NEW p \in set, p.effect = "forbid",
               NEW n \in p.over \cap state.in.actions, Names(state.asked.action, n)
        PROVE  FALSE
    <3>1. n = state.request.action
      BY <2>1, <2>2, OneAction
    <3>2. Concerned(p, state.request)
      BY <3>1 DEF Concerned
    <3>3. QED
      BY <2>1, <2>2, <3>2
  <2>3. /\ a.tool = "is_authorized" /\ a.decision = j.decision /\ a.reasons = j.reasons
        /\ a.errors = {} /\ a.asked = state.asked /\ a.in = state.in /\ a.over = set
    BY <1>3, <2>1
  <2>4. j.decision = "ALLOW" =>
            {p \in a.over : p.effect = "forbid"
                /\ \E n \in p.over \cap a.in.actions : Names(a.asked.action, n)} = {}
    BY <2>2, <2>3
  <2>5. a.tool # "validate_entity"
    BY <2>3
  <2>6. QED
    BY <1>1, <1>2, <1>3, <2>1, <2>3, <2>4, <2>5, Zenon DEF Proves
<1>5. ASSUME w # {} PROVE Proves(a)
  <2>1. a.tool = "is_authorized" /\ a.warnings # {} /\ a.tool # "validate_entity"
    BY <1>3, <1>5
  <2>2. QED
    BY <1>1, <1>2, <1>3, <2>1, Zenon DEF Proves
<1>6. Proves(a)
  BY <1>4, <1>5
<1>7. AuthorizationResult(state, j, set) = a
  BY <1>2, <1>3, Zenon DEF AuthorizationResult
<1>8. QED
  BY <1>1, <1>6, <1>7, Zenon

-----------------------------------------------------------------------------
(***************************************************************************)
(* The steps of a call.                                                    *)
(***************************************************************************)
\* A call that leaves the entities alone.
Quiet == UNCHANGED <<entities, acked>>

LEMMA QuietStep ==
    ASSUME CedarInv, Quiet, CallsInv', \A c \in Callers : Proves(answer[c])'
    PROVE  CedarInv'
<1>1. StoreInv' /\ EntitiesKept'
  BY DEF Quiet, CedarInv, StoreInv, EntitiesKept, IsEntity
<1>2. QED
  BY <1>1 DEF CedarInv

\* Text, lists and the state of the schema.
LEMMA PlainStep ==
    ASSUME CedarInv, NEW c \in Callers,
           \/ \E s \in Schemas : LoadSchema(c, s)
           \/ Unparsed(c) \/ ReplacePolicies(c)
           \/ ListEntities(c) \/ SchemaStatus(c) \/ AnalyzePolicies(c)
    PROVE  CedarInv'
<1>1. Quiet /\ \E what : End(c, what) /\ what.tool \notin {"is_authorized", "validate_entity"}
  <2>1. /\ Done.tool \notin {"is_authorized", "validate_entity"}
        /\ Failed.tool \notin {"is_authorized", "validate_entity"}
    BY DEF Done, Failed
  <2>2. CASE (\E s \in Schemas : LoadSchema(c, s)) \/ ReplacePolicies(c) \/ Unparsed(c)
    <3>1. (End(c, Done) \/ End(c, Failed)) /\ UNCHANGED <<entities, acked>>
      BY <2>2 DEF LoadSchema, ReplacePolicies, Unparsed
    <3>2. QED
      BY <2>1, <3>1, Zenon DEF Quiet
  <2>3. CASE ListEntities(c)
    <3>1. PICK w : w = [tool |-> "list_entities", found |-> {e.uid : e \in entities}]
      OBVIOUS
    <3>2. w.tool \notin {"is_authorized", "validate_entity"}
      BY <3>1
    <3>3. QED
      BY <2>3, <3>1, <3>2 DEF ListEntities, Quiet
  <2>4. CASE SchemaStatus(c)
    <3>1. PICK w : w = [tool |-> "get_schema_status", loaded |-> schema # Nothing]
      OBVIOUS
    <3>2. w.tool \notin {"is_authorized", "validate_entity"}
      BY <3>1
    <3>3. QED
      BY <2>4, <3>1, <3>2, Zenon DEF SchemaStatus, Quiet
  <2>5. CASE AnalyzePolicies(c)
    <3>1. PICK w : w = [tool |-> "analyze_policies", found |-> {p.id : p \in policies}]
      OBVIOUS
    <3>2. w.tool \notin {"is_authorized", "validate_entity"}
      BY <3>1
    <3>3. QED
      BY <2>5, <3>1, <3>2 DEF AnalyzePolicies, Quiet
  <2>6. QED
    BY <2>2, <2>3, <2>4, <2>5
<1>2. QED
  BY <1>1, EndStep, Harmless, QuietStep

LEMMA PoliciesStep ==
    ASSUME CedarInv, NEW c \in Callers, NEW set, LoadPolicies(c, set) PROVE CedarInv'
<1>1. PICK state : state = [tool |-> "load_policies", set |-> set]
  OBVIOUS
<1>2. CallOK(state)
  <2>1. state.tool \notin {"add_entity", "is_authorized", "judging"}
    BY <1>1
  <2>2. QED
    BY <2>1, Zenon DEF CallOK
<1>3. Quiet /\ (End(c, Failed) \/ Goto(c, state))
  BY <1>1 DEF LoadPolicies, Quiet
<1>4. Proves(Failed)
  BY Harmless DEF Failed
<1>5. QED
  BY <1>2, <1>3, <1>4, EndStep, GotoStep, QuietStep

LEMMA EntityStep ==
    ASSUME CedarInv, NEW c \in Callers,
           (\E e \in Arguments : AddEntity(c, e)) \/ StoreEntity(c)
    PROVE  CedarInv'
<1>1. CASE \E e \in Arguments : AddEntity(c, e)
  <2>1. PICK e \in Arguments : AddEntity(c, e)
    BY <1>1
  <2>2. PICK built : built = [uid |-> The(ResolveUid(e.uid, schema)), attrs |-> e.attrs,
                              parents |-> {The(p) : p \in {ResolveUid(q, schema) : q \in e.parents}}]
    OBVIOUS
  <2>3. PICK state : state = [tool |-> "add_entity", entity |-> built]
    OBVIOUS
  <2>4. CallOK(state)
    BY <2>2, <2>3 DEF CallOK, IsEntity
  <2>5. Quiet /\ (End(c, Failed) \/ Goto(c, state))
    BY <2>1, <2>2, <2>3, Zenon DEF AddEntity, Quiet
  <2>6. Proves(Failed)
    BY Harmless DEF Failed
  <2>7. QED
    BY <2>4, <2>5, <2>6, EndStep, GotoStep, QuietStep
<1>2. CASE StoreEntity(c)
  <2>1. PICK e : e = call[c].entity
    OBVIOUS
  <2>2. call[c].tool = "add_entity" /\ IsEntity(e)
    BY <1>2, <2>1 DEF StoreEntity, CedarInv, CallsInv, CallOK
  <2>3. Proves(Failed) /\ Proves(Done)
    BY Harmless DEF Failed, Done
  <2>4. /\ End(c, Failed) \/ End(c, Done)
        /\ \/ Quiet
           \/ entities' = entities \cup {e} /\ acked' = acked \cup {e.uid}
    BY <1>2, <2>1, Zenon DEF StoreEntity, Quiet
  <2>5. CallsInv' /\ \A d \in Callers : Proves(answer[d])'
    BY <2>3, <2>4, EndStep
  <2>6. CASE Quiet
    BY <2>5, <2>6, QuietStep
  <2>7. CASE entities' = entities \cup {e} /\ acked' = acked \cup {e.uid}
    <3>1. StoreInv'
      BY <2>2, <2>7 DEF CedarInv, StoreInv, IsEntity
    <3>2. EntitiesKept'
      BY <2>7 DEF CedarInv, EntitiesKept
    <3>3. QED
      BY <2>5, <3>1, <3>2 DEF CedarInv
  <2>8. QED
    BY <2>4, <2>6, <2>7
<1>3. QED
  BY <1>1, <1>2

LEMMA RemovalStep ==
    ASSUME CedarInv, NEW c \in Callers,
           (\E e \in Arguments : RemoveEntity(c, e.uid)) \/ ClearEntities(c)
    PROVE  CedarInv'
<1>1. End(c, Done) /\ Proves(Done)
  BY Harmless DEF RemoveEntity, ClearEntities, Done
<1>2. CallsInv' /\ \A d \in Callers : Proves(answer[d])'
  BY <1>1, EndStep
<1>3. StoreInv' /\ EntitiesKept'
  <2>1. CASE ClearEntities(c)
    BY <2>1 DEF ClearEntities, StoreInv, EntitiesKept
  <2>2. CASE \E e \in Arguments : RemoveEntity(c, e.uid)
    <3>1. PICK uid : entities' = Removed(uid, entities) /\ acked' = acked \ {uid}
      BY <2>2 DEF RemoveEntity
    <3>2. PICK kept : kept = Removed(uid, entities)
      OBVIOUS
    <3>3. /\ \A e \in kept : IsEntity(e)
          /\ \A e \in entities : e.uid # uid => \E f \in kept : f.uid = e.uid
      BY <3>2, RemovedKeeps DEF CedarInv, StoreInv
    <3>4. acked \subseteq {e.uid : e \in entities}
      BY DEF CedarInv, EntitiesKept
    <3>5. entities' = kept
      BY <3>1, <3>2
    <3>6. EntitiesKept'
      BY <3>1, <3>3, <3>4, <3>5 DEF EntitiesKept
    <3>7. QED
      BY <3>3, <3>5, <3>6 DEF StoreInv, IsEntity
  <2>3. QED
    BY <2>1, <2>2
<1>4. QED
  BY <1>2, <1>3 DEF CedarInv

LEMMA ClearStep ==
    ASSUME CedarInv, NEW c \in Callers, ClearState(c) \/ ClearPolicies(c) PROVE CedarInv'
<1>1. \A t \in {"clear_policies", "clear_entities"} : CallOK([tool |-> t])
  <2>1. ASSUME NEW t \in {"clear_policies", "clear_entities"} PROVE CallOK([tool |-> t])
    <3>1. PICK s : s = [tool |-> t]
      OBVIOUS
    <3>2. s.tool \notin {"add_entity", "is_authorized", "judging"}
      BY <3>1
    <3>3. QED
      BY <3>1, <3>2, Zenon DEF CallOK
  <2>2. QED
    BY <2>1
<1>2. Quiet /\ \E t \in {"clear_policies", "clear_entities"} : Goto(c, [tool |-> t])
  BY DEF ClearState, ClearPolicies, Quiet
<1>3. QED
  BY <1>1, <1>2, GotoStep, QuietStep

\* The tools that touch none of what the server holds.
LEMMA OutsideStep ==
    ASSUME CedarInv, NEW c \in Callers,
           ValidateText(c) \/ DraftSchema(c) \/ ReadDoctrine(c)
           \/ AskConsole(c) \/ ConsoleAnswers(c)
    PROVE  CedarInv'
<1>1. Quiet
  BY DEF ValidateText, DraftSchema, ReadDoctrine, AskConsole, ConsoleAnswers, Quiet
<1>2. CASE AskConsole(c)
  <2>1. PICK state : state = [tool |-> "console"]
    OBVIOUS
  <2>2. state.tool \notin {"add_entity", "is_authorized", "judging"}
    BY <2>1
  <2>3. CallOK(state)
    BY <2>2, Zenon DEF CallOK
  <2>4. Goto(c, state)
    BY <1>2, <2>1 DEF AskConsole
  <2>5. QED
    BY <1>1, <2>3, <2>4, GotoStep, QuietStep
<1>3. CASE ~AskConsole(c)
  <2>1. PICK a : End(c, a) /\ a.tool \in {"report", "done", "failed", "console"}
    <3>1. Done.tool = "done" /\ Failed.tool = "failed"
      BY DEF Done, Failed
    <3>2. \A valid \in BOOLEAN : [tool |-> "report", valid |-> valid].tool = "report"
      OBVIOUS
    <3>3. \A status : ConsoleError(status).tool = "console"
      BY DEF ConsoleError
    <3>4. \/ End(c, Done) \/ End(c, Failed)
          \/ \E valid \in BOOLEAN : End(c, [tool |-> "report", valid |-> valid])
          \/ \E status \in {"NotFound", "Unavailable"} : End(c, ConsoleError(status))
      BY <1>3, Zenon DEF ValidateText, DraftSchema, ReadDoctrine, ConsoleAnswers
    <3>5. CASE \E valid \in BOOLEAN : End(c, [tool |-> "report", valid |-> valid])
      BY <3>2, <3>5, Zenon
    <3>6. QED
      BY <3>1, <3>3, <3>4, <3>5, Zenon
  <2>2. Proves(a)
    BY <2>1, Harmless
  <2>3. QED
    BY <1>1, <2>1, <2>2, EndStep, QuietStep
<1>4. QED
  BY <1>2, <1>3

LEMMA ValidateStep ==
    ASSUME CedarInv, NEW c \in Callers, NEW uid, ValidateEntity(c, uid) PROVE CedarInv'
<1>1. PICK valid : valid = (schema # Nothing /\
                            Conforms([uid |-> uid, attrs |-> FALSE, parents |-> {}], schema))
  OBVIOUS
<1>2. PICK checks : checks = {"entity-type-parse"} \cup
                             (IF schema = Nothing THEN {} ELSE {"entity-validation"})
  OBVIOUS
<1>3. PICK a : a = [tool |-> "validate_entity", checks |-> checks, valid |-> valid]
  OBVIOUS
<1>4. valid => "entity-validation" \in checks
  <2>1. valid => schema # Nothing
    BY <1>1, Zenon
  <2>2. schema # Nothing => "entity-validation" \in checks
    BY <1>2
  <2>3. QED
    BY <2>1, <2>2, Zenon
<1>5. a.tool # "is_authorized" /\ a.valid = valid /\ a.checks = checks
  BY <1>3
<1>6. Proves(a)
  BY <1>4, <1>5, Zenon DEF Proves
<1>7. End(c, a) /\ Quiet
  BY <1>1, <1>2, <1>3, Zenon DEF ValidateEntity, Quiet
<1>8. QED
  BY <1>6, <1>7, EndStep, QuietStep

LEMMA AskStep ==
    ASSUME CedarInv, NEW c \in Callers, NEW r, IsAuthorized(c, r) PROVE CedarInv'
<1>1. PICK request : request = [principal |-> The(ResolveUid(r.principal, schema)),
                                action |-> The(ResolveAction(r.action, schema)),
                                resource |-> The(ResolveUid(r.resource, schema))]
  OBVIOUS
<1>2. PICK state : state = [tool |-> "is_authorized", in |-> schema, asked |-> r,
                            request |-> request]
  OBVIOUS
<1>3. /\ Quiet
      /\ \/ End(c, Failed)
         \/ /\ Goto(c, state) /\ Resolves(ResolveAction(r.action, schema))
            /\ ValidRequest(request, schema)
  BY <1>1, <1>2, Zenon DEF IsAuthorized, Quiet
<1>4. ASSUME Resolves(ResolveAction(r.action, schema)), ValidRequest(request, schema)
      PROVE  CallOK(state)
  <2>1. schema # Nothing => request.action \in schema.actions
    BY <1>4 DEF ValidRequest
  <2>2. state.in = schema /\ state.asked = r /\ state.request = request
        /\ state.tool = "is_authorized" /\ request.action = The(ResolveAction(r.action, schema))
    BY <1>1, <1>2
  <2>3. AsksFor(state)
    BY <1>4, <2>1, <2>2, Zenon DEF AsksFor
  <2>4. state.tool # "add_entity"
    BY <2>2
  <2>5. QED
    BY <2>3, <2>4, Zenon DEF CallOK
<1>5. Proves(Failed)
  BY Harmless DEF Failed
<1>6. QED
  BY <1>3, <1>4, <1>5, EndStep, GotoStep, QuietStep

LEMMA JudgeStep ==
    ASSUME CedarInv, NEW c \in Callers, LockPolicies(c) \/ Authorize(c) PROVE CedarInv'
<1>1. CallOK(call[c])
  BY DEF CedarInv, CallsInv
<1>2. CASE LockPolicies(c)
  <2>1. PICK state : state = [call[c] EXCEPT !.tool = "judging"]
    OBVIOUS
  <2>2. call[c].tool = "is_authorized" /\ Goto(c, state) /\ Quiet
    BY <1>2, <2>1 DEF LockPolicies, Quiet
  <2>3. AsksFor(call[c])
    BY <1>1, <2>2 DEF CallOK
  <2>4. /\ state.asked = call[c].asked /\ state.in = call[c].in
        /\ state.request = call[c].request /\ state.tool # "add_entity"
    BY <2>1, <2>2
  <2>5. AsksFor(state)
    BY <2>3, <2>4, Zenon DEF AsksFor
  <2>6. CallOK(state)
    BY <2>4, <2>5, Zenon DEF CallOK
  <2>7. QED
    BY <2>2, <2>6, GotoStep, QuietStep
<1>3. CASE Authorize(c)
  <2>1. AsksFor(call[c]) /\ Quiet
    BY <1>1, <1>3 DEF Authorize, CallOK, Quiet
  <2>2. PICK j : j = Judge(call[c].request, policies, entities)
    OBVIOUS
  <2>3. PICK a : a = AuthorizationResult(call[c], j, policies)
    OBVIOUS
  <2>4. Proves(a)
    BY <2>1, <2>2, <2>3, Decided, Zenon
  <2>5. End(c, a)
    BY <1>3, <2>2, <2>3, Zenon DEF Authorize
  <2>6. QED
    BY <2>1, <2>4, <2>5, EndStep, QuietStep
<1>4. QED
  BY <1>2, <1>3

LEMMA CedarInvNext == ASSUME CedarInv, [CedarNext]_cedarVars PROVE CedarInv'
<1>1. CASE CedarNext
  BY <1>1, PlainStep, PoliciesStep, EntityStep, RemovalStep, ClearStep, ValidateStep,
     AskStep, JudgeStep, OutsideStep, Zenon DEF CedarNext
<1>2. CASE UNCHANGED cedarVars
  <2>1. CallsInv' /\ \A c \in Callers : Proves(answer[c])'
    BY <1>2 DEF cedarVars, CedarInv, CallsInv, CallOK, IsEntity, AsksFor, Proves
  <2>2. Quiet
    BY <1>2 DEF cedarVars, Quiet
  <2>3. QED
    BY <2>1, <2>2, QuietStep
<1>3. QED
  BY <1>1, <1>2

LEMMA CedarInvInit == ASSUME CedarInit PROVE CedarInv
<1>1. StoreInv /\ EntitiesKept
  BY DEF CedarInit, StoreInv, EntitiesKept
<1>2. Proves(Done)
  BY Harmless DEF Done
<1>3. CallOK(Idle)
  BY DEF CallOK, Idle
<1>4. CallsInv /\ \A c \in Callers : Proves(answer[c])
  BY <1>2, <1>3 DEF CedarInit, CallsInv
<1>5. QED
  BY <1>1, <1>4 DEF CedarInv

\* What add_entity reported as added is in the store until it is removed or the
\* state is cleared, whatever calls are refused in between (lib.rs:1188); and an
\* answer that warns of nothing proves what it appears to, however the calls that
\* replace the schema, the policies and the entities come in between its steps
\* (lib.rs:1206, :1595).
THEOREM CedarAnswersAreTrueHolds == CedarSpec => []CedarAnswersAreTrue
<1>1. CedarInv => CedarAnswersAreTrue
  BY ProvesIs DEF CedarInv, CedarAnswersAreTrue
<1>2. QED
  BY <1>1, CedarInvInit, CedarInvNext, PTL DEF CedarSpec

-----------------------------------------------------------------------------
(***************************************************************************)
(* Folds.  What SequencesExt defines by a choice of a function on the sets *)
(* of positions exists, and goes from one position to the next.            *)
(***************************************************************************)
LEMMA MaxIs ==
    ASSUME NEW k \in Nat, NEW s \in SUBSET (1..(k + 1)), k + 1 \in s
    PROVE  Max(s) = k + 1
<1>1. \A y \in s : k + 1 >= y
  OBVIOUS
<1>2. \A x \in s : (\A y \in s : x >= y) => x = k + 1
  OBVIOUS
<1>3. QED
  BY <1>1, <1>2 DEF Max

IsFold(iter, n, base, g) ==
    /\ iter[{}] = base
    /\ \A s \in SUBSET (1..n) :
          s # {} => /\ Max(s) \in s
                    /\ iter[s] = g[<<Max(s), iter[s \ {Max(s)}]>>]

LEMMA FoldExists ==
    ASSUME NEW n \in Nat, NEW X, NEW base \in X, NEW g \in [(1..n) \X X -> X]
    PROVE  \E iter \in [SUBSET (1..n) -> X] : IsFold(iter, n, base, g)
<1> DEFINE S == {k \in Nat : k <= n =>
                    \E iter \in [SUBSET (1..k) -> X] : IsFold(iter, k, base, g)}
<1>1. 0 \in S
  <2> DEFINE iter == [s \in SUBSET (1..0) |-> base]
  <2>1. 1..0 = {} /\ SUBSET (1..0) = {{}}
    OBVIOUS
  <2>2. iter \in [SUBSET (1..0) -> X] /\ IsFold(iter, 0, base, g)
    BY <2>1 DEF IsFold
  <2>3. QED
    BY <2>2
<1>2. ASSUME NEW k \in Nat, k \in S, k + 1 <= n
      PROVE  \E iter \in [SUBSET (1..(k + 1)) -> X] : IsFold(iter, k + 1, base, g)
  <2>0. k <= n => \E old \in [SUBSET (1..k) -> X] : IsFold(old, k, base, g)
    BY <1>2, Zenon
  <2>1. PICK old \in [SUBSET (1..k) -> X] : IsFold(old, k, base, g)
    <3>1. k <= n
      BY <1>2
    <3>2. QED
      BY <2>0, <3>1, Zenon
  <2> DEFINE iter == [s \in SUBSET (1..(k + 1)) |->
                        IF k + 1 \in s THEN g[<<k + 1, old[s \ {k + 1}]>>] ELSE old[s]]
  <2>2. \A s \in SUBSET (1..(k + 1)) : s \ {k + 1} \in SUBSET (1..k)
    OBVIOUS
  <2>3. \A s \in SUBSET (1..k) : s \in SUBSET (1..(k + 1)) /\ k + 1 \notin s
    OBVIOUS
  <2>4. \A s \in SUBSET (1..k) : iter[s] = old[s]
    BY <2>3
  <2>5. iter \in [SUBSET (1..(k + 1)) -> X]
    <3> SUFFICES ASSUME NEW s \in SUBSET (1..(k + 1)) PROVE iter[s] \in X
      OBVIOUS
    <3>1. CASE k + 1 \in s
      <4>1. old[s \ {k + 1}] \in X
        BY <2>2
      <4>2. <<k + 1, old[s \ {k + 1}]>> \in (1..n) \X X
        BY <1>2, <4>1
      <4>3. QED
        BY <3>1, <4>2
    <3>2. CASE k + 1 \notin s
      <4>1. s \in SUBSET (1..k)
        BY <2>2, <3>2
      <4>2. QED
        BY <4>1, <2>4
    <3>3. QED
      BY <3>1, <3>2
  <2>6. iter[{}] = base
    BY <2>1, <2>4 DEF IsFold
  <2>7. ASSUME NEW s \in SUBSET (1..(k + 1)), s # {}
        PROVE  Max(s) \in s /\ iter[s] = g[<<Max(s), iter[s \ {Max(s)}]>>]
    <3>1. CASE k + 1 \in s
      <4>1. Max(s) = k + 1
        BY <3>1, MaxIs
      <4>2. iter[s \ {k + 1}] = old[s \ {k + 1}]
        BY <2>2, <2>4
      <4>3. iter[s] = g[<<k + 1, old[s \ {k + 1}]>>]
        BY <3>1
      <4>4. QED
        BY <3>1, <4>1, <4>2, <4>3
    <3>2. CASE k + 1 \notin s
      <4>1. s \in SUBSET (1..k)
        BY <2>2, <3>2
      <4>2. Max(s) \in s /\ old[s] = g[<<Max(s), old[s \ {Max(s)}]>>]
        BY <2>1, <2>7, <4>1 DEF IsFold
      <4>3. s \ {Max(s)} \in SUBSET (1..k)
        BY <4>1
      <4>4. iter[s] = old[s] /\ iter[s \ {Max(s)}] = old[s \ {Max(s)}]
        BY <2>4, <4>1, <4>3
      <4>5. QED
        BY <4>2, <4>4
    <3>3. QED
      BY <3>1, <3>2
  <2>8. IsFold(iter, k + 1, base, g)
    BY <2>6, <2>7 DEF IsFold
  <2>9. QED
    BY <2>5, <2>8
<1>3. ASSUME NEW k \in Nat, k \in S PROVE k + 1 \in S
  <2>1. k + 1 \in Nat
    OBVIOUS
  <2>2. k + 1 <= n => \E iter \in [SUBSET (1..(k + 1)) -> X] : IsFold(iter, k + 1, base, g)
    BY <1>2, <1>3, Zenon
  <2>3. QED
    BY <2>1, <2>2, Zenon
<1>4. Nat \subseteq S
  <2> HIDE DEF S
  <2>1. QED
    BY <1>1, <1>3, EveryNumber
<1>5. QED
  BY <1>4

LEMMA FirstPositions ==
    ASSUME NEW k \in Nat \ {0}
    PROVE  1..k # {} /\ Max(1..k) = k /\ (1..k) \ {k} = 1..(k - 1)
<1>1. k - 1 \in Nat /\ (k - 1) + 1 = k /\ k \in 1..k
  OBVIOUS
<1>2. Max(1..k) = k
  BY <1>1, MaxIs
<1>3. QED
  BY <1>1, <1>2

-----------------------------------------------------------------------------
(***************************************************************************)
(* One classifier's templates, one after the other.                        *)
(***************************************************************************)
Answers(Says) == Seq([takes : Nat, says : Says])
Classifiers(Says) == [on : BOOLEAN, empty : BOOLEAN, calls : Answers(Says)]
RunsOver(Says) == [spent : Nat, failed : BOOLEAN, found : Seq(Says)]

\* What FoldLeft chooses, for a run and for the sum of its times.
Runs(tries) ==
    CHOOSE iter : iter = [s \in SUBSET DOMAIN tries |->
        IF s = {} THEN Started
        ELSE LET x == Max(s) IN AskTemplate(iter[s \ {x}], tries[x])]
Sums(tries) ==
    CHOOSE iter : iter = [s \in SUBSET DOMAIN tries |->
        IF s = {} THEN 0
        ELSE LET x == Max(s) IN iter[s \ {x}] + tries[x].takes]

LEMMA CallsAre ==
    ASSUME NEW Says, NEW tries \in Answers(Says)
    PROVE  /\ Len(tries) \in Nat /\ DOMAIN tries = 1..Len(tries)
           /\ \A i \in 1..Len(tries) : tries[i] \in [takes : Nat, says : Says]
<1> DEFINE C == [takes : Nat, says : Says]
<1>1. tries \in Seq(C)
  BY DEF Answers
<1> HIDE DEF C
<1>2. Len(tries) \in Nat /\ DOMAIN tries = 1..Len(tries) /\ \A i \in 1..Len(tries) : tries[i] \in C
  BY <1>1
<1>3. QED
  BY <1>2 DEF C

LEMMA AskTemplateType ==
    ASSUME TEMPLATE_TIMEOUT \in Nat, NEW Says, NEW run \in RunsOver(Says),
           NEW try \in [takes : Nat, says : Says]
    PROVE  AskTemplate(run, try) \in RunsOver(Says)
<1>1. CASE run.failed
  BY <1>1 DEF AskTemplate
<1>2. CASE ~run.failed /\ try.takes > TEMPLATE_TIMEOUT
  <2>1. AskTemplate(run, try) =
            [run EXCEPT !.spent = @ + TEMPLATE_TIMEOUT, !.failed = TRUE]
    BY <1>2 DEF AskTemplate
  <2>2. run.spent + TEMPLATE_TIMEOUT \in Nat
    BY DEF RunsOver
  <2>3. QED
    BY <2>1, <2>2 DEF RunsOver
<1>3. CASE ~run.failed /\ try.takes <= TEMPLATE_TIMEOUT
  <2>1. AskTemplate(run, try) =
            [run EXCEPT !.spent = @ + try.takes, !.failed = try.says = "fails",
                        !.found = IF try.says \in {"fails", "nothing"} THEN @
                                  ELSE Append(@, try.says)]
    BY <1>3 DEF AskTemplate
  <2>2. (IF try.says \in {"fails", "nothing"} THEN run.found
         ELSE Append(run.found, try.says)) \in Seq(Says)
    BY DEF RunsOver
  <2>3. run.spent + try.takes \in Nat /\ (try.says = "fails") \in BOOLEAN
    BY DEF RunsOver
  <2>4. QED
    BY <2>1, <2>2, <2>3 DEF RunsOver
<1>4. QED
  BY <1>1, <1>2, <1>3 DEF RunsOver

LEMMA RunsSteps ==
    ASSUME TEMPLATE_TIMEOUT \in Nat, NEW Says, NEW tries \in Answers(Says)
    PROVE  /\ Runs(tries)[1..0] = Started
           /\ \A k \in 1..Len(tries) :
                 Runs(tries)[1..k] = AskTemplate(Runs(tries)[1..(k - 1)], tries[k])
           /\ FoldLeft(AskTemplate, Started, tries) = Runs(tries)[1..Len(tries)]
<1> DEFINE n == Len(tries)
           X == RunsOver(Says)
           g == [p \in (1..n) \X X |-> AskTemplate(p[2], tries[p[1]])]
           Is(iter) == iter = [s \in SUBSET DOMAIN tries |->
                        IF s = {} THEN Started
                        ELSE LET x == Max(s) IN AskTemplate(iter[s \ {x}], tries[x])]
<1>1. n \in Nat /\ DOMAIN tries = 1..n /\ \A i \in 1..n : tries[i] \in [takes : Nat, says : Says]
  BY CallsAre
<1>2. Started \in X
  BY DEF Started, RunsOver
<1>3. g \in [(1..n) \X X -> X]
  BY <1>1, AskTemplateType
<1>4. \E iter : Is(iter)
  <2>1. PICK iter \in [SUBSET (1..n) -> X] : IsFold(iter, n, Started, g)
    <3> HIDE DEF n, X, g
    <3>1. QED
      BY <1>1, <1>2, <1>3, FoldExists
  <2>2. ASSUME NEW s \in SUBSET (1..n), s # {}
        PROVE  iter[s] = AskTemplate(iter[s \ {Max(s)}], tries[Max(s)])
    <3>1. Max(s) \in s /\ iter[s] = g[<<Max(s), iter[s \ {Max(s)}]>>]
      BY <2>1, <2>2 DEF IsFold
    <3>2. <<Max(s), iter[s \ {Max(s)}]>> \in (1..n) \X X
      BY <3>1
    <3>3. QED
      BY <3>1, <3>2
  <2>3. iter[{}] = Started
    BY <2>1 DEF IsFold
  <2>4. Is(iter)
    BY <1>1, <2>2, <2>3
  <2>5. QED
    BY <2>4
<1>5. Is(Runs(tries))
  BY <1>4 DEF Runs
<1>6. Runs(tries)[1..0] = Started
  <2>1. 1..0 = {} /\ {} \in SUBSET DOMAIN tries
    OBVIOUS
  <2>2. QED
    BY <1>5, <2>1
<1>7. ASSUME NEW k \in 1..n
      PROVE  Runs(tries)[1..k] = AskTemplate(Runs(tries)[1..(k - 1)], tries[k])
  <2>1. 1..k # {} /\ Max(1..k) = k /\ (1..k) \ {k} = 1..(k - 1)
    BY <1>1, FirstPositions
  <2>2. 1..k \in SUBSET DOMAIN tries
    BY <1>1
  <2>3. QED
    BY <1>5, <2>1, <2>2
<1>8. FoldLeft(AskTemplate, Started, tries) = Runs(tries)[DOMAIN tries]
  BY DEF FoldLeft, MapThenFoldSet, Runs
<1>9. QED
  BY <1>1, <1>6, <1>7, <1>8

LEMMA SumsSteps ==
    ASSUME NEW Says, NEW tries \in Answers(Says)
    PROVE  /\ Sums(tries)[1..0] = 0
           /\ \A k \in 1..Len(tries) :
                 Sums(tries)[1..k] = Sums(tries)[1..(k - 1)] + tries[k].takes
           /\ FoldLeft(LAMBDA t, c : t + c.takes, 0, tries) = Sums(tries)[1..Len(tries)]
<1> DEFINE n == Len(tries)
           g == [p \in (1..n) \X Nat |-> p[2] + tries[p[1]].takes]
           Is(iter) == iter = [s \in SUBSET DOMAIN tries |->
                        IF s = {} THEN 0
                        ELSE LET x == Max(s) IN iter[s \ {x}] + tries[x].takes]
<1>1. n \in Nat /\ DOMAIN tries = 1..n /\ \A i \in 1..n : tries[i].takes \in Nat
  BY CallsAre
<1>2. 0 \in Nat
  OBVIOUS
<1>3. g \in [(1..n) \X Nat -> Nat]
  BY <1>1
<1>4. \E iter : Is(iter)
  <2>1. PICK iter \in [SUBSET (1..n) -> Nat] : IsFold(iter, n, 0, g)
    <3> HIDE DEF n, g
    <3>1. QED
      BY <1>1, <1>2, <1>3, FoldExists
  <2>2. ASSUME NEW s \in SUBSET (1..n), s # {}
        PROVE  iter[s] = iter[s \ {Max(s)}] + tries[Max(s)].takes
    <3>1. Max(s) \in s /\ iter[s] = g[<<Max(s), iter[s \ {Max(s)}]>>]
      BY <2>1, <2>2 DEF IsFold
    <3>2. <<Max(s), iter[s \ {Max(s)}]>> \in (1..n) \X Nat
      BY <3>1
    <3>3. QED
      BY <3>1, <3>2
  <2>3. iter[{}] = 0
    BY <2>1 DEF IsFold
  <2>4. Is(iter)
    BY <1>1, <2>2, <2>3
  <2>5. QED
    BY <2>4
<1>5. Is(Sums(tries))
  BY <1>4 DEF Sums
<1>6. Sums(tries)[1..0] = 0
  <2>1. 1..0 = {} /\ {} \in SUBSET DOMAIN tries
    OBVIOUS
  <2>2. QED
    BY <1>5, <2>1
<1>7. ASSUME NEW k \in 1..n
      PROVE  Sums(tries)[1..k] = Sums(tries)[1..(k - 1)] + tries[k].takes
  <2>1. 1..k # {} /\ Max(1..k) = k /\ (1..k) \ {k} = 1..(k - 1)
    BY <1>1, FirstPositions
  <2>2. 1..k \in SUBSET DOMAIN tries
    BY <1>1
  <2>3. QED
    BY <1>5, <2>1, <2>2
<1>8. FoldLeft(LAMBDA t, c : t + c.takes, 0, tries) = Sums(tries)[DOMAIN tries]
  BY DEF FoldLeft, MapThenFoldSet, Sums
<1>9. QED
  BY <1>1, <1>6, <1>7, <1>8

\* After the first k templates: one that failed is never forgotten; until then
\* the time is the sum of theirs, and what was found is all that they said.
Bad(try) == try.says = "fails" \/ try.takes > TEMPLATE_TIMEOUT
Said(tries, k) == {tries[i].says : i \in 1..k} \ {"nothing"}
After(tries, k, run) ==
    /\ run.failed <=> \E i \in 1..k : Bad(tries[i])
    /\ ~run.failed => /\ run.spent = Sums(tries)[1..k]
                      /\ ToSet(run.found) = Said(tries, k)

LEMMA SaidMore ==
    ASSUME NEW Says, NEW tries \in Answers(Says), NEW k \in Nat, k + 1 <= Len(tries)
    PROVE  Said(tries, k + 1) = Said(tries, k) \cup ({tries[k + 1].says} \ {"nothing"})
<1>1. 1..(k + 1) = (1..k) \cup {k + 1}
  OBVIOUS
<1>2. QED
  BY <1>1 DEF Said

LEMMA SetOfOneMore ==
    ASSUME NEW S, NEW s \in Seq(S), NEW e \in S
    PROVE  ToSet(Append(s, e)) = ToSet(s) \cup {e}
<1> DEFINE t == Append(s, e)
<1>1. Len(s) \in Nat /\ DOMAIN s = 1..Len(s) /\ DOMAIN t = (1..Len(s)) \cup {Len(s) + 1}
  OBVIOUS
<1>2. (\A i \in 1..Len(s) : t[i] = s[i]) /\ t[Len(s) + 1] = e
  OBVIOUS
<1>. HIDE DEF t
<1>3. ToSet(t) = ToSet(s) \cup {e}
  BY <1>1, <1>2 DEF ToSet
<1>4. QED
  BY <1>3 DEF t

LEMMA AfterOneMore ==
    ASSUME TEMPLATE_TIMEOUT \in Nat, NEW Says, NEW tries \in Answers(Says),
           NEW k \in Nat, k + 1 <= Len(tries),
           NEW run \in RunsOver(Says), After(tries, k, run)
    PROVE  After(tries, k + 1, AskTemplate(run, tries[k + 1]))
<1>0. PICK try : try = tries[k + 1]
  OBVIOUS
<1> DEFINE next == AskTemplate(run, try)
<1>. SUFFICES After(tries, k + 1, next)
  BY <1>0
<1>1. try \in [takes : Nat, says : Says]
  BY <1>0, CallsAre
<1>2. Sums(tries)[1..(k + 1)] = Sums(tries)[1..k] + try.takes
  <2>1. k + 1 \in 1..Len(tries) /\ (k + 1) - 1 = k
    BY CallsAre
  <2>2. QED
    BY <1>0, <2>1, SumsSteps
<1>3. (\E i \in 1..(k + 1) : Bad(tries[i])) <=> (\E i \in 1..k : Bad(tries[i])) \/ Bad(try)
  <2>1. 1..(k + 1) = (1..k) \cup {k + 1}
    OBVIOUS
  <2>2. QED
    BY <1>0, <2>1
<1>4. CASE run.failed
  <2>1. next = run
    BY <1>4 DEF AskTemplate
  <2>2. QED
    BY <1>3, <1>4, <2>1 DEF After
<1>5. CASE ~run.failed /\ try.takes > TEMPLATE_TIMEOUT
  <2>1. next = [run EXCEPT !.spent = @ + TEMPLATE_TIMEOUT, !.failed = TRUE]
    BY <1>1, <1>5 DEF AskTemplate
  <2>2. next.failed
    BY <2>1 DEF RunsOver
  <2>3. QED
    BY <1>3, <1>5, <2>2 DEF After, Bad
<1>6. CASE ~run.failed /\ try.takes <= TEMPLATE_TIMEOUT
  <2>1. next = [run EXCEPT !.spent = @ + try.takes, !.failed = try.says = "fails",
                           !.found = IF try.says \in {"fails", "nothing"} THEN @
                                     ELSE Append(@, try.says)]
    BY <1>6 DEF AskTemplate
  <2>2. /\ next.spent = run.spent + try.takes
        /\ next.failed <=> try.says = "fails"
        /\ next.found = IF try.says \in {"fails", "nothing"} THEN run.found
                        ELSE Append(run.found, try.says)
    BY <2>1 DEF RunsOver
  <2>3. next.failed <=> \E i \in 1..(k + 1) : Bad(tries[i])
    <3>1. ~\E i \in 1..k : Bad(tries[i])
      BY <1>6 DEF After
    <3>2. Bad(try) <=> try.says = "fails"
      BY <1>1, <1>6 DEF Bad
    <3>3. QED
      BY <1>3, <2>2, <3>1, <3>2
  <2>4. ASSUME ~next.failed PROVE ToSet(next.found) = Said(tries, k + 1)
    <3>1. ToSet(run.found) = Said(tries, k)
      BY <1>6 DEF After
    <3>2. ToSet(Append(run.found, try.says)) = ToSet(run.found) \cup {try.says}
      <4>1. run.found \in Seq(Says) /\ try.says \in Says
        BY <1>1 DEF RunsOver
      <4>2. QED
        BY <4>1, SetOfOneMore
    <3>3. Said(tries, k + 1) = Said(tries, k) \cup ({try.says} \ {"nothing"})
      BY <1>0, SaidMore
    <3>4. QED
      BY <2>2, <2>4, <3>1, <3>2, <3>3
  <2>5. ~next.failed => next.spent = Sums(tries)[1..(k + 1)]
    BY <1>2, <1>6, <2>2 DEF After
  <2>6. QED
    BY <2>3, <2>4, <2>5 DEF After
<1>7. QED
  BY <1>1, <1>4, <1>5, <1>6

LEMMA ClassifyTells ==
    ASSUME TEMPLATE_TIMEOUT \in Nat, NEW Says, NEW tries \in Answers(Says), tries # << >>
    PROVE  /\ Classify(tries) \in RunsOver(Says)
           /\ After(tries, Len(tries), Classify(tries))
<1> DEFINE n == Len(tries)
           At(k) == Runs(tries)[1..k]
           S == {k \in Nat : k <= n => At(k) \in RunsOver(Says) /\ After(tries, k, At(k))}
<1>1. n \in Nat
  BY CallsAre
<1>2. 0 \in S
  <2>1. At(0) = Started
    BY RunsSteps
  <2>2. Started \in RunsOver(Says) /\ ToSet(Started.found) = {} /\ 1..0 = {}
    BY DEF Started, RunsOver, ToSet
  <2>3. Sums(tries)[1..0] = 0
    BY SumsSteps
  <2>4. After(tries, 0, Started)
    BY <2>2, <2>3 DEF After, Said, Started
  <2>5. QED
    BY <2>1, <2>2, <2>4
<1>3. ASSUME NEW k \in Nat, k \in S PROVE k + 1 \in S
  <2>1. SUFFICES ASSUME k + 1 <= n
                 PROVE  At(k + 1) \in RunsOver(Says) /\ After(tries, k + 1, At(k + 1))
    OBVIOUS
  <2>2. At(k) \in RunsOver(Says) /\ After(tries, k, At(k))
    BY <1>1, <1>3, <2>1
  <2>3. At(k + 1) = AskTemplate(At(k), tries[k + 1])
    <3>1. k + 1 \in 1..n /\ (k + 1) - 1 = k
      BY <1>1, <2>1
    <3>2. QED
      BY <3>1, RunsSteps
  <2>4. tries[k + 1] \in [takes : Nat, says : Says]
    BY <1>1, <2>1, CallsAre
  <2>5. QED
    BY <2>1, <2>2, <2>3, <2>4, AskTemplateType, AfterOneMore
<1>4. Nat \subseteq S
  <2> HIDE DEF S
  <2>1. QED
    BY <1>2, <1>3, EveryNumber
<1>5. Classify(tries) = At(n)
  BY RunsSteps DEF Classify
<1>6. QED
  BY <1>1, <1>4, <1>5

-----------------------------------------------------------------------------
(***************************************************************************)
(* What the engine makes of it.                                            *)
(***************************************************************************)
Whole(m) ==
    /\ m.on /\ ~m.empty /\ m.calls # << >>
    /\ \A i \in DOMAIN m.calls : m.calls[i].says # "fails"
                                 /\ m.calls[i].takes <= TEMPLATE_TIMEOUT
    /\ FoldLeft(LAMBDA t, c : t + c.takes, 0, m.calls) <= CLASSIFY_TIMEOUT
AllSaid(m) == {m.calls[i].says : i \in DOMAIN m.calls} \ {"nothing"}

\* The answer of a classifier that is asked is taken if it is whole.
LEMMA TakenIfWhole ==
    ASSUME TEMPLATE_TIMEOUT \in Nat, NEW Says, NEW m \in Classifiers(Says)
    PROVE  LET run == Classify(m.calls)
           IN  /\ run.spent \in Nat
               /\ Whole(m) <=> m.on /\ ~m.empty /\ InTime(run)
               /\ Whole(m) => run.found \in Seq(Says) /\ ToSet(run.found) = AllSaid(m)
<1>0. PICK tries : tries = m.calls
  OBVIOUS
<1>1. tries \in Answers(Says)
  BY <1>0 DEF Classifiers
<1> DEFINE run == Classify(tries)
<1>2. CASE tries = << >>
  <2>1. run = [Started EXCEPT !.failed = TRUE]
    BY <1>2 DEF Classify
  <2>2. run.failed /\ run.spent = 0
    BY <2>1 DEF Started
  <2>3. ~Whole(m)
    BY <1>0, <1>2 DEF Whole
  <2>4. QED
    BY <1>0, <2>2, <2>3 DEF InTime
<1>3. CASE tries # << >>
  <2>1. run \in RunsOver(Says) /\ After(tries, Len(tries), run)
    BY <1>1, <1>3, ClassifyTells
  <2>2. /\ DOMAIN tries = 1..Len(tries)
        /\ \A i \in DOMAIN tries : tries[i].takes \in Nat
    BY <1>1, CallsAre
  <2>3. FoldLeft(LAMBDA t, c : t + c.takes, 0, tries) = Sums(tries)[1..Len(tries)]
    BY <1>1, SumsSteps
  <2>4. (\A i \in DOMAIN tries : tries[i].says # "fails"
                                 /\ tries[i].takes <= TEMPLATE_TIMEOUT) <=> ~run.failed
    <3>1. \A i \in DOMAIN tries : Bad(tries[i]) <=>
              ~(tries[i].says # "fails" /\ tries[i].takes <= TEMPLATE_TIMEOUT)
      BY <2>2 DEF Bad
    <3>2. run.failed <=> \E i \in DOMAIN tries : Bad(tries[i])
      BY <2>1, <2>2 DEF After
    <3>3. QED
      BY <3>1, <3>2
  <2>5. run.spent \in Nat /\ run.found \in Seq(Says)
    BY <2>1 DEF RunsOver
  <2>6. ~run.failed => run.spent = FoldLeft(LAMBDA t, c : t + c.takes, 0, tries)
    BY <2>1, <2>3 DEF After
  <2>7. Whole(m) <=> /\ m.on /\ ~m.empty /\ ~run.failed
                     /\ FoldLeft(LAMBDA t, c : t + c.takes, 0, tries) <= CLASSIFY_TIMEOUT
    BY <1>0, <1>3, <2>4 DEF Whole
  <2>8. Whole(m) <=> m.on /\ ~m.empty /\ InTime(run)
    BY <2>6, <2>7 DEF InTime
  <2>9. Whole(m) => ToSet(run.found) = AllSaid(m)
    BY <1>0, <2>1, <2>2, <2>7 DEF After, Said, AllSaid
  <2>10. QED
    BY <1>0, <2>5, <2>8, <2>9
<1>4. QED
  BY <1>2, <1>3

Labels == DOMAIN Level

LEMMA EmptyIsEmpty ==
    ASSUME NEW S, NEW s \in Seq(S)
    PROVE  s = << >> <=> ToSet(s) = {}
<1>1. Len(s) \in Nat /\ DOMAIN s = 1..Len(s)
  OBVIOUS
<1>2. s = << >> <=> Len(s) = 0
  OBVIOUS
<1>3. ToSet(s) = {} <=> DOMAIN s = {}
  BY DEF ToSet
<1>4. DOMAIN s = {} <=> Len(s) = 0
  <2>1. Len(s) = 0 => 1..Len(s) = {}
    BY <1>1
  <2>2. Len(s) # 0 => 1 \in 1..Len(s)
    BY <1>1
  <2>3. QED
    BY <1>1, <2>1, <2>2
<1>5. QED
  BY <1>2, <1>3, <1>4

\* The greatest of the labels found is one of them, and there is only one.
LEMMA MaxLabelIs ==
    ASSUME NEW Says, NEW found \in Seq(Says), ToSet(found) \subseteq Labels
    PROVE  \A l \in Labels :
              MaxLabel(found) = l <=>
                  IF ToSet(found) = {} THEN l = "Public"
                  ELSE l \in ToSet(found) /\ \A k \in ToSet(found) : Level[k] <= Level[l]
<1>1. PICK S : S = ToSet(found)
  OBVIOUS
<1>2. /\ Labels = {"Public", "Internal", "Confidential", "HighlyConfidential"}
      /\ Level["Public"] = 0 /\ Level["Internal"] = 1 /\ Level["Confidential"] = 2
      /\ Level["HighlyConfidential"] = 3
  BY DEF Labels, Level
<1>3. ASSUME S # {} PROVE \E l \in S : \A k \in S : Level[k] <= Level[l]
  <2>1. CASE "HighlyConfidential" \in S
    BY <1>1, <1>2, <2>1
  <2>2. CASE "HighlyConfidential" \notin S /\ "Confidential" \in S
    BY <1>1, <1>2, <2>2
  <2>3. CASE "HighlyConfidential" \notin S /\ "Confidential" \notin S /\ "Internal" \in S
    BY <1>1, <1>2, <2>3
  <2>4. CASE S \subseteq {"Public"}
    <3>1. S = {"Public"}
      BY <1>3, <2>4
    <3>2. QED
      BY <1>2, <3>1
  <2>5. QED
    BY <1>1, <1>2, <2>1, <2>2, <2>3, <2>4
<1>4. \A l, k \in Labels : Level[k] <= Level[l] /\ Level[l] <= Level[k] => l = k
  BY <1>2
<1>5. found = << >> <=> S = {}
  BY <1>1, EmptyIsEmpty
<1>6. S # {} => /\ MaxLabel(found) \in S
                /\ \A k \in S : Level[k] <= Level[MaxLabel(found)]
  BY <1>1, <1>3, <1>5 DEF MaxLabel
<1>7. S = {} => MaxLabel(found) = "Public"
  BY <1>5 DEF MaxLabel
<1>8. QED
  BY <1>1, <1>4, <1>6, <1>7

LEMMA HeldIs ==
    ASSUME CLASSIFY_TIMEOUT \in Nat, NEW run, run.spent \in Nat
    PROVE  Held(run) \in Nat /\ Held(run) <= CLASSIFY_TIMEOUT
<1> DEFINE S == {run.spent, CLASSIFY_TIMEOUT}
<1>1. \E x \in S : \A y \in S : x <= y
  <2>1. CASE run.spent <= CLASSIFY_TIMEOUT
    BY <2>1
  <2>2. CASE CLASSIFY_TIMEOUT <= run.spent
    BY <2>2
  <2>3. QED
    BY <2>1, <2>2
<1>2. Min(S) \in S /\ \A y \in S : Min(S) <= y
  BY <1>1 DEF Min
<1>3. QED
  BY <1>2 DEF Held

LEMMA MaxOfTwo ==
    ASSUME NEW a \in Nat, NEW b \in Nat
    PROVE  Max({a, b}) \in {a, b}
<1>1. \E x \in {a, b} : \A y \in {a, b} : x >= y
  <2>1. CASE a >= b
    BY <2>1
  <2>2. CASE b >= a
    BY <2>2
  <2>3. QED
    BY <2>1, <2>2
<1>2. QED
  BY <1>1 DEF Max

\* A classifier's answer holds all of its findings or none: one template that
\* fails or is late, or a sum of their times that is over the limit, takes the
\* findings of the others back, whichever it is; and neither classifier waits
\* longer than its limit (transform.rs:73-78, :105-112, :141-146).
THEOREM WholeOrOpenHolds ==
    ASSUME CLASSIFY_TIMEOUT \in Nat, TEMPLATE_TIMEOUT \in Nat, NEW Codes,
           NEW data \in Classifiers(Labels \cup {"fails", "nothing"}),
           NEW policy \in Classifiers(Codes)
    PROVE  WholeOrOpen(data, policy)
<1> DEFINE told == ClassifyBoth(data, policy)
           label == ClassifyLabel(data, data.calls)
           verdict == ClassifyPolicy(policy, policy.calls)
           run == Classify(data.calls)
           judged == Classify(policy.calls)
<1>1. told.label = label.label /\ told.policy = verdict.policy
      /\ told.after = Max({label.after, verdict.after})
  BY DEF ClassifyBoth
<1>2. /\ label.label = IF Whole(data) THEN MaxLabel(run.found) ELSE "Public"
      /\ label.after \in Nat /\ label.after <= CLASSIFY_TIMEOUT
  <2>1. run.spent \in Nat /\ (Whole(data) <=> data.on /\ ~data.empty /\ InTime(run))
    BY TakenIfWhole
  <2>2. Held(run) \in Nat /\ Held(run) <= CLASSIFY_TIMEOUT
    BY <2>1, HeldIs
  <2>3. QED
    BY <2>1, <2>2 DEF ClassifyLabel
<1>3. /\ verdict.policy = IF Whole(policy) THEN Verdict(judged.found) ELSE Unjudged
      /\ verdict.after \in Nat /\ verdict.after <= CLASSIFY_TIMEOUT
  <2>1. judged.spent \in Nat /\ (Whole(policy) <=> policy.on /\ ~policy.empty /\ InTime(judged))
    BY TakenIfWhole
  <2>2. Held(judged) \in Nat /\ Held(judged) <= CLASSIFY_TIMEOUT
    BY <2>1, HeldIs
  <2>3. QED
    BY <2>1, <2>2 DEF ClassifyPolicy
<1>4. ASSUME NEW l \in Labels
      PROVE  told.label = l <=>
                IF Whole(data) /\ AllSaid(data) # {}
                THEN l \in AllSaid(data) /\ \A k \in AllSaid(data) : Level[k] <= Level[l]
                ELSE l = "Public"
  <2>1. CASE Whole(data)
    <3>1. run.found \in Seq(Labels \cup {"fails", "nothing"}) /\ ToSet(run.found) = AllSaid(data)
      BY <2>1, TakenIfWhole
    <3>2. AllSaid(data) \subseteq Labels
      <4>1. \A i \in DOMAIN data.calls : data.calls[i].says # "fails"
        BY <2>1 DEF Whole
      <4>2. \A i \in DOMAIN data.calls : data.calls[i].says \in Labels \cup {"fails", "nothing"}
        <5>1. data.calls \in Answers(Labels \cup {"fails", "nothing"})
          BY DEF Classifiers
        <5>2. QED
          BY <5>1, CallsAre
      <4>3. QED
        BY <4>1, <4>2 DEF AllSaid
    <3>3. QED
      BY <1>1, <1>2, <2>1, <3>1, <3>2, MaxLabelIs
  <2>2. CASE ~Whole(data)
    BY <1>1, <1>2, <2>2
  <2>3. QED
    BY <2>1, <2>2
<1>5. /\ told.policy.violations = IF Whole(policy) THEN AllSaid(policy) ELSE {}
      /\ told.policy.compliant <=> told.policy.violations = {}
  <2>1. CASE Whole(policy)
    <3>1. judged.found \in Seq(Codes) /\ ToSet(judged.found) = AllSaid(policy)
      BY <2>1, TakenIfWhole
    <3>2. judged.found = << >> <=> ToSet(judged.found) = {}
      BY <3>1, EmptyIsEmpty
    <3>3. told.policy = Verdict(judged.found)
      BY <1>1, <1>3, <2>1
    <3>. HIDE DEF told, judged
    <3>4. told.policy.violations = ToSet(judged.found)
      BY <3>3 DEF Verdict
    <3>5. told.policy.compliant <=> judged.found = << >>
      <4>1. CASE judged.found = << >>
        <5>1. told.policy = [compliant |-> TRUE, violations |-> ToSet(judged.found)]
          BY <3>3, <4>1, Zenon DEF Verdict
        <5>2. QED
          BY <4>1, <5>1
      <4>2. CASE judged.found # << >>
        <5>1. told.policy = [compliant |-> FALSE, violations |-> ToSet(judged.found)]
          BY <3>3, <4>2 DEF Verdict
        <5>2. QED
          BY <4>2, <5>1
      <4>3. QED
        BY <4>1, <4>2
    <3>6. QED
      BY <2>1, <3>1, <3>2, <3>4, <3>5
  <2>2. CASE ~Whole(policy)
    BY <1>1, <1>3, <2>2 DEF Unjudged
  <2>3. QED
    BY <2>1, <2>2
<1>6. told.after <= CLASSIFY_TIMEOUT
  BY <1>1, <1>2, <1>3, MaxOfTwo
<1>7. QED
  <2> HIDE DEF told
  <2>1. QED
    BY <1>4, <1>5, <1>6 DEF WholeOrOpen, told, Whole, AllSaid, Labels
==============================================================================
