--------------------------- MODULE InstallersProofs ---------------------------
(***************************************************************************)
(* Proofs about Installers, for any of the agents, any documents a user    *)
(* may write, and any number of installs, edits and crashes.               *)
(***************************************************************************)
EXTENDS Installers, SequenceTheorems, WellFoundedInduction, TLAPS

-----------------------------------------------------------------------------
(***************************************************************************)
(* Lists: induction over them, and what Kept and FlattenSeq compute.       *)
(***************************************************************************)
LEMMA EveryNumber ==
    ASSUME NEW S, 0 \in S, \A k \in Nat : k \in S => k + 1 \in S
    PROVE  Nat \subseteq S
<1> DEFINE T == Nat \ S
<1>1. SUFFICES ASSUME T # {} PROVE FALSE
  OBVIOUS
<1>2. PICK x \in T : \A y \in T : ~(<<y, x>> \in OpToRel(<, Nat))
  BY <1>1, NatLessThanWellFounded, WFMin
<1>3. \A y \in T : ~(y < x)
  BY <1>2 DEF OpToRel
<1>4. x # 0 /\ x - 1 \in Nat /\ x - 1 < x
  OBVIOUS
<1>5. x - 1 \in S
  BY <1>3, <1>4
<1>6. (x - 1) + 1 \in S
  BY <1>4, <1>5
<1>7. QED
  BY <1>6

\* A property of sequences that an Append keeps, as the set of those that have it.
LEMMA EverySeq ==
    ASSUME NEW E, NEW G, << >> \in G,
           \A s \in Seq(E), e \in E : s \in G => Append(s, e) \in G
    PROVE  Seq(E) \subseteq G
<1> DEFINE S == {n \in Nat : \A s \in Seq(E) : Len(s) = n => s \in G}
<1>1. 0 \in S
  <2>1. \A s \in Seq(E) : Len(s) = 0 => s = << >>
    BY EmptySeq
  <2>2. QED
    BY <2>1
<1>2. ASSUME NEW k \in Nat, k \in S PROVE k + 1 \in S
  <2>1. ASSUME NEW s \in Seq(E), Len(s) = k + 1 PROVE s \in G
    <3>1. s # << >>
      BY <2>1, EmptySeq
    <3>2. PICK t \in Seq(E), e \in E : s = Append(t, e)
      BY <3>1, SequenceEmptyOrAppend
    <3>3. Len(t) = k
      BY <2>1, <3>2, AppendProperties, LenProperties
    <3>4. QED
      BY <1>2, <3>2, <3>3
  <2>2. QED
    BY <2>1
<1>3. Nat \subseteq S
  <2> HIDE DEF S
  <2>1. QED
    BY <1>1, <1>2, EveryNumber
<1>4. QED
  BY <1>3, LenProperties

IsRec(f, n, base, g) == f[0] = base /\ \A i \in 1..n : f[i] = g[<<i, f[i - 1]>>]

LEMMA RecExists ==
    ASSUME NEW n \in Nat, NEW X, NEW base \in X, NEW g \in [(1..n) \X X -> X]
    PROVE  \E f \in [0..n -> X] : IsRec(f, n, base, g)
<1> USE DEF IsRec
<1> DEFINE S == {k \in Nat : k <= n => \E f \in [0..k -> X] : IsRec(f, k, base, g)}
<1>1. 0 \in S
  <2>1. PICK f : f = [i \in 0..0 |-> base]
    OBVIOUS
  <2>2. f \in [0..0 -> X] /\ IsRec(f, 0, base, g)
    BY <2>1
  <2>3. QED
    BY <2>2
<1>2. ASSUME NEW k \in Nat, k \in S, k + 1 <= n
      PROVE  \E f \in [0..(k + 1) -> X] : IsRec(f, k + 1, base, g)
  <2>1. PICK old \in [0..k -> X] : IsRec(old, k, base, g)
    BY <1>2
  <2>2. PICK f : f = [i \in 0..(k + 1) |-> IF i = k + 1 THEN g[<<k + 1, old[k]>>] ELSE old[i]]
    OBVIOUS
  <2>3. g[<<k + 1, old[k]>>] \in X
    <3>1. <<k + 1, old[k]>> \in (1..n) \X X
      BY <1>2
    <3>2. QED
      BY <3>1
  <2>4. f \in [0..(k + 1) -> X]
    BY <2>2, <2>3
  <2>5. /\ f[k + 1] = g[<<k + 1, old[k]>>]
        /\ \A i \in 0..k : f[i] = old[i]
    BY <2>2
  <2>6. ASSUME NEW i \in 1..(k + 1) PROVE f[i] = g[<<i, f[i - 1]>>]
    <3>1. CASE i = k + 1
      BY <2>5, <3>1
    <3>2. CASE i \in 1..k
      <4>1. old[i] = g[<<i, old[i - 1]>>]
        BY <2>1, <3>2
      <4>2. f[i] = old[i] /\ f[i - 1] = old[i - 1]
        BY <2>5, <3>2
      <4>3. QED
        BY <4>1, <4>2
    <3>3. QED
      BY <3>1, <3>2
  <2>7. f[0] = base
    BY <2>1, <2>5
  <2>8. QED
    BY <2>4, <2>6, <2>7
<1>3. \A k \in Nat : k \in S => k + 1 \in S
  BY <1>2
<1>4. Nat \subseteq S
  <2> HIDE DEF S
  <2>1. QED
    BY <1>1, <1>3, EveryNumber
<1>5. QED
  BY <1>4

KeptTo(seq, S) ==
    CHOOSE kept : kept =
        [n \in 0..Len(seq) |->
            IF n = 0 THEN << >>
            ELSE IF seq[n] \in S THEN Append(kept[n - 1], seq[n]) ELSE kept[n - 1]]

LEMMA KeptIs ==
    ASSUME NEW seq, NEW S PROVE Kept(seq, S) = KeptTo(seq, S)[Len(seq)]
  BY DEF Kept, KeptTo

IsKept(k, n, seq, S) ==
    /\ k[0] = << >>
    /\ \A i \in 1..n : k[i] = IF seq[i] \in S THEN Append(k[i - 1], seq[i]) ELSE k[i - 1]

LEMMA KeptSteps ==
    ASSUME NEW E, NEW seq \in Seq(E), NEW S, NEW n \in Nat, n = Len(seq)
    PROVE  /\ KeptTo(seq, S) \in [0..n -> Seq(E)]
           /\ IsKept(KeptTo(seq, S), n, seq, S)
<1> DEFINE Step(f, i) == IF seq[i] \in S THEN Append(f[i - 1], seq[i]) ELSE f[i - 1]
<1>1. PICK X : X = Seq(E)
  OBVIOUS
<1>2. << >> \in X /\ \A i \in 1..n, x \in X : Append(x, seq[i]) \in X
  BY <1>1, EmptySeq, ElementOfSeq, AppendProperties
<1>3. PICK g : g = [p \in (1..n) \X X |->
                       IF seq[p[1]] \in S THEN Append(p[2], seq[p[1]]) ELSE p[2]]
  OBVIOUS
<1>4. g \in [(1..n) \X X -> X]
  <2>1. \A p \in (1..n) \X X : g[p] \in X
    BY <1>2, <1>3
  <2>2. QED
    BY <1>3, <2>1
<1>5. PICK f \in [0..n -> X] : IsRec(f, n, << >>, g)
  BY <1>2, <1>4, RecExists
<1>6. \A i \in 1..n : f[i] = Step(f, i)
  <2>0. \A i \in 1..n : f[i] = g[<<i, f[i - 1]>>]
    BY <1>5 DEF IsRec
  <2>1. ASSUME NEW i \in 1..n PROVE f[i] = Step(f, i)
    <3>1. PICK x \in X : x = f[i - 1]
      BY <1>5
    <3>2. g[<<i, x>>] = IF seq[i] \in S THEN Append(x, seq[i]) ELSE x
      BY <1>3
    <3>3. QED
      BY <2>0, <3>1, <3>2
  <2>2. QED
    BY <2>1
<1>7. f = [i \in 0..n |-> IF i = 0 THEN << >> ELSE Step(f, i)]
  <2> HIDE DEF Step
  <2>1. \A i \in 0..n : f[i] = IF i = 0 THEN << >> ELSE Step(f, i)
    BY <1>5, <1>6 DEF IsRec
  <2>2. QED
    BY <1>5, <2>1
<1>8. PICK k : k = KeptTo(seq, S)
  OBVIOUS
<1>9. k = [i \in 0..n |-> IF i = 0 THEN << >> ELSE Step(k, i)]
  BY <1>7, <1>8 DEF KeptTo
<1>10. /\ DOMAIN k = 0..n /\ k[0] = << >>
       /\ \A i \in 1..n : k[i] = Step(k, i)
  <2> HIDE DEF Step
  <2>1. QED
    BY <1>9
<1>11. \A i \in 0..n : k[i] = f[i]
  <2> DEFINE D == {i \in Nat : i <= n => k[i] = f[i]}
  <2>1. 0 \in D
    BY <1>5, <1>10 DEF IsRec
  <2>2. ASSUME NEW i \in Nat, i \in D, i + 1 <= n PROVE k[i + 1] = f[i + 1]
    <3>1. i + 1 \in 1..n /\ (i + 1) - 1 = i /\ k[i] = f[i]
      BY <2>2
    <3>2. Step(k, i + 1) = Step(f, i + 1)
      BY <3>1
    <3>3. QED
      BY <1>6, <1>10, <3>1, <3>2, Zenon
  <2>3. \A i \in Nat : i \in D => i + 1 \in D
    BY <2>2
  <2>4. Nat \subseteq D
    <3> HIDE DEF D
    <3>1. QED
      BY <2>1, <2>3, EveryNumber
  <2>5. QED
    BY <2>4
<1>12. k = f
  <2>1. DOMAIN f = 0..n /\ k = [i \in 0..n |-> k[i]]
    BY <1>5, <1>9
  <2>2. f = [i \in 0..n |-> f[i]]
    BY <1>5
  <2>3. QED
    BY <1>11, <2>1, <2>2
<1>13. QED
  BY <1>1, <1>5, <1>6, <1>8, <1>12 DEF IsRec, IsKept

LEMMA KeptEmpty == ASSUME NEW S PROVE Kept(<< >>, S) = << >>
<1>1. << >> \in Seq({}) /\ 0 = Len(<< >>) /\ 0 \in Nat
  BY EmptySeq
<1>2. IsKept(KeptTo(<< >>, S), 0, << >>, S)
  BY <1>1, KeptSteps
<1>3. QED
  BY <1>1, <1>2, KeptIs DEF IsKept

LEMMA KeptAppend ==
    ASSUME NEW E, NEW seq \in Seq(E), NEW e \in E, NEW S
    PROVE  /\ Kept(seq, S) \in Seq(E)
           /\ e \in S => Kept(Append(seq, e), S) = Append(Kept(seq, S), e)
           /\ e \notin S => Kept(Append(seq, e), S) = Kept(seq, S)
<1>1. PICK k : k = KeptTo(seq, S)
  OBVIOUS
<1>2. PICK a : a = Append(seq, e)
  OBVIOUS
<1>3. PICK m : m = KeptTo(a, S)
  OBVIOUS
<1>4. PICK n \in Nat : n = Len(seq)
  BY LenProperties
<1>5. /\ a \in Seq(E) /\ Len(a) = n + 1 /\ a[n + 1] = e
      /\ \A i \in 1..n : a[i] = seq[i]
  BY <1>2, <1>4, AppendProperties
<1>6. /\ k \in [0..n -> Seq(E)] /\ k[0] = << >>
      /\ \A i \in 1..n : k[i] = IF seq[i] \in S THEN Append(k[i - 1], seq[i]) ELSE k[i - 1]
  <2>1. k \in [0..n -> Seq(E)] /\ IsKept(k, n, seq, S)
    BY <1>1, <1>4, KeptSteps
  <2>2. QED
    BY <2>1 DEF IsKept
<1>7. /\ m[0] = << >>
      /\ \A i \in 1..(n + 1) : m[i] = IF a[i] \in S THEN Append(m[i - 1], a[i]) ELSE m[i - 1]
  <2>1. n + 1 \in Nat /\ n + 1 = Len(a)
    BY <1>5
  <2>2. IsKept(m, n + 1, a, S)
    BY <1>3, <1>5, <2>1, KeptSteps
  <2>3. QED
    BY <2>2 DEF IsKept
<1>8. m[n] = k[n]
  <2> DEFINE D == {j \in Nat : j <= n => m[j] = k[j]}
  <2>1. 0 \in D
    BY <1>6, <1>7
  <2>2. ASSUME NEW j \in Nat, j \in D, j + 1 <= n PROVE m[j + 1] = k[j + 1]
    <3>1. j + 1 \in 1..n /\ j + 1 \in 1..(n + 1) /\ (j + 1) - 1 = j /\ m[j] = k[j]
      BY <2>2
    <3>2. a[j + 1] = seq[j + 1]
      BY <1>5, <3>1
    <3>3. QED
      BY <1>6, <1>7, <3>1, <3>2
  <2>3. \A j \in Nat : j \in D => j + 1 \in D
    BY <2>2
  <2>4. Nat \subseteq D
    <3> HIDE DEF D
    <3>1. QED
      BY <2>1, <2>3, EveryNumber
  <2>5. QED
    BY <2>4
<1>9. n + 1 \in 1..(n + 1) /\ (n + 1) - 1 = n
  OBVIOUS
<1>10. m[n + 1] = IF e \in S THEN Append(k[n], e) ELSE k[n]
  BY <1>5, <1>7, <1>8, <1>9
<1>11. /\ Kept(seq, S) = k[n] /\ Kept(a, S) = m[n + 1]
  BY <1>1, <1>3, <1>4, <1>5, KeptIs
<1>12. QED
  BY <1>2, <1>6, <1>10, <1>11

\* What is kept is in the set, whatever else the sequence's elements are known to be.
LEMMA KeptType ==
    ASSUME NEW E, NEW seq \in Seq(E), NEW S PROVE Kept(seq, S) \in Seq(E \cap S)
<1> DEFINE G == {s \in Seq(E) : Kept(s, S) \in Seq(E \cap S)}
<1>1. << >> \in G
  BY KeptEmpty, EmptySeq
<1>2. ASSUME NEW s \in Seq(E), NEW e \in E, s \in G PROVE Append(s, e) \in G
  <2>1. Append(s, e) \in Seq(E)
    BY AppendProperties
  <2>2. PICK k \in Seq(E \cap S) : k = Kept(s, S)
    BY <1>2
  <2>3. e \in S => Append(k, e) \in Seq(E \cap S)
    BY AppendProperties
  <2>4. Kept(Append(s, e), S) = IF e \in S THEN Append(Kept(s, S), e) ELSE Kept(s, S)
    BY KeptAppend
  <2>5. QED
    BY <2>1, <2>2, <2>3, <2>4
<1>3. Seq(E) \subseteq G
  <2> HIDE DEF G
  <2>1. QED
    BY <1>1, <1>2, EverySeq
<1>4. QED
  BY <1>3

LEMMA NoneKept ==
    ASSUME NEW E, NEW seq \in Seq(E), NEW S, E \cap S = {} PROVE Kept(seq, S) = << >>
<1>1. Kept(seq, S) \in Seq({})
  BY KeptType
<1>2. PICK k \in Seq({}) : k = Kept(seq, S)
  BY <1>1
<1>3. Len(k) \in Nat /\ \A i \in 1..Len(k) : k[i] \in {}
  BY LenProperties, ElementOfSeq
<1>4. Len(k) = 0
  <2>1. PICK n \in Nat : n = Len(k)
    BY <1>3
  <2>2. n # 0 => 1 \in 1..n
    OBVIOUS
  <2>3. QED
    BY <1>3, <2>1, <2>2
<1>5. k = << >>
  BY <1>4, EmptySeq
<1>6. QED
  BY <1>2, <1>5

LEMMA AllKept ==
    ASSUME NEW E, NEW seq \in Seq(E), NEW S, E \subseteq S PROVE Kept(seq, S) = seq
<1> DEFINE G == {s \in Seq(E) : Kept(s, S) = s}
<1>1. << >> \in G
  BY KeptEmpty, EmptySeq
<1>2. ASSUME NEW s \in Seq(E), NEW e \in E, s \in G PROVE Append(s, e) \in G
  <2>1. Append(s, e) \in Seq(E) /\ Kept(s, S) = s
    BY <1>2, AppendProperties
  <2>2. Kept(Append(s, e), S) = Append(s, e)
    <3>1. e \in S /\ Kept(Append(s, e), S) = Append(Kept(s, S), e)
      BY KeptAppend
    <3>2. QED
      BY <2>1, <3>1
  <2>3. QED
    BY <2>1, <2>2
<1>3. Seq(E) \subseteq G
  <2> HIDE DEF G
  <2>1. QED
    BY <1>1, <1>2, EverySeq
<1>4. QED
  BY <1>3

\* Keeping more first changes nothing.
LEMMA KeptOfKept ==
    ASSUME NEW E, NEW seq \in Seq(E), NEW S, NEW T, E \cap T \subseteq S
    PROVE  Kept(Kept(seq, S), T) = Kept(seq, T)
<1> DEFINE G == {s \in Seq(E) : Kept(Kept(s, S), T) = Kept(s, T)}
<1>1. << >> \in G
  BY KeptEmpty, EmptySeq
<1>2. ASSUME NEW s \in Seq(E), NEW e \in E, s \in G PROVE Append(s, e) \in G
  <2>1. Append(s, e) \in Seq(E) /\ Kept(Kept(s, S), T) = Kept(s, T)
    BY <1>2, AppendProperties
  <2>2. PICK k \in Seq(E) : k = Kept(s, S)
    BY KeptAppend
  <2>3. Kept(Append(s, e), S) = IF e \in S THEN Append(Kept(s, S), e) ELSE Kept(s, S)
    BY KeptAppend
  <2>4. Kept(Append(s, e), T) = IF e \in T THEN Append(Kept(s, T), e) ELSE Kept(s, T)
    BY KeptAppend
  <2>5. Kept(Append(k, e), T) = IF e \in T THEN Append(Kept(k, T), e) ELSE Kept(k, T)
    BY KeptAppend
  <2>6. Kept(Kept(Append(s, e), S), T) = Kept(Append(s, e), T)
    BY <2>1, <2>2, <2>3, <2>4, <2>5
  <2>7. QED
    BY <2>1, <2>6
<1>3. Seq(E) \subseteq G
  <2> HIDE DEF G
  <2>1. QED
    BY <1>1, <1>2, EverySeq
<1>4. QED
  BY <1>3

LEMMA AppendToConcat ==
    ASSUME NEW E, NEW s \in Seq(E), NEW t \in Seq(E), NEW e \in E
    PROVE  s \o Append(t, e) = Append(s \o t, e)
<1>1. <<e>> \in Seq(E) /\ s \o t \in Seq(E)
  BY ConcatProperties
<1>2. Append(t, e) = t \o <<e>> /\ Append(s \o t, e) = (s \o t) \o <<e>>
  BY <1>1, AppendIsConcat
<1>3. s \o (t \o <<e>>) = (s \o t) \o <<e>>
  BY <1>1, ConcatAssociative
<1>4. QED
  BY <1>2, <1>3

KeptGrows(E, S) ==
    \A seq \in Seq(E), e \in E :
        /\ e \in S => Kept(Append(seq, e), S) = Append(Kept(seq, S), e)
        /\ e \notin S => Kept(Append(seq, e), S) = Kept(seq, S)
LEMMA KeptGrowing == ASSUME NEW E, NEW S PROVE KeptGrows(E, S)
<1>1. ASSUME NEW seq \in Seq(E), NEW e \in E
      PROVE  /\ e \in S => Kept(Append(seq, e), S) = Append(Kept(seq, S), e)
             /\ e \notin S => Kept(Append(seq, e), S) = Kept(seq, S)
  <2>1. CASE e \in S
    BY <2>1, KeptAppend
  <2>2. CASE e \notin S
    BY <2>2, KeptAppend
  <2>3. QED
    BY <2>1, <2>2
<1>2. QED
  BY <1>1, Zenon DEF KeptGrows

LEMMA KeptOfConcat ==
    ASSUME NEW E, NEW s \in Seq(E), NEW t \in Seq(E), NEW S
    PROVE  Kept(s \o t, S) = Kept(s, S) \o Kept(t, S)
<1> DEFINE G == {u \in Seq(E) : Kept(s \o u, S) = Kept(s, S) \o Kept(u, S)}
<1>9. KeptGrows(E, S)
  BY KeptGrowing
<1>0. PICK k \in Seq(E) : k = Kept(s, S)
  <2>1. Kept(s, S) \in Seq(E \cap S) /\ E \cap S \subseteq E
    BY KeptType
  <2>2. QED
    BY <2>1, SeqMonotonic
<1>1. << >> \in G
  <2>1. << >> \in Seq(E) /\ s \o << >> = s /\ k \o << >> = k
    BY EmptySeq, ConcatEmptySeq
  <2>2. QED
    BY <1>0, <2>1, KeptEmpty
<1>2. ASSUME NEW u \in Seq(E), NEW e \in E, u \in G PROVE Append(u, e) \in G
  <2>1. Append(u, e) \in Seq(E) /\ s \o u \in Seq(E)
    BY AppendProperties, ConcatProperties
  <2>2. PICK m \in Seq(E) : m = Kept(u, S)
    BY KeptAppend
  <2>3. Kept(s \o u, S) = k \o m
    BY <1>0, <1>2, <2>2
  <2>4. Kept(Append(u, e), S) = IF e \in S THEN Append(m, e) ELSE m
    <3>1. /\ e \in S => Kept(Append(u, e), S) = Append(Kept(u, S), e)
          /\ e \notin S => Kept(Append(u, e), S) = Kept(u, S)
      BY <1>9, Zenon DEF KeptGrows
    <3>2. QED
      BY <2>2, <3>1
  <2>5. Kept(s \o Append(u, e), S) = IF e \in S THEN Append(k \o m, e) ELSE k \o m
    <3>1. PICK v \in Seq(E) : v = s \o u
      BY <2>1
    <3>2. /\ e \in S => Kept(Append(v, e), S) = Append(Kept(v, S), e)
          /\ e \notin S => Kept(Append(v, e), S) = Kept(v, S)
      BY <1>9, Zenon DEF KeptGrows
    <3>3. s \o Append(u, e) = Append(v, e)
      BY <3>1, AppendToConcat
    <3>4. QED
      BY <2>3, <3>1, <3>2, <3>3
  <2>6. k \o Append(m, e) = Append(k \o m, e)
    BY AppendToConcat
  <2>7. Kept(s \o Append(u, e), S) = k \o Kept(Append(u, e), S)
    BY <2>4, <2>5, <2>6
  <2>8. QED
    BY <1>0, <2>1, <2>7
<1>3. Seq(E) \subseteq G
  <2> HIDE DEF G
  <2>1. QED
    BY <1>1, <1>2, EverySeq
<1>4. QED
  BY <1>3

FlatTo(seqs) ==
    CHOOSE flatten : flatten =
        [i \in 1..Len(seqs) |-> IF i = 1 THEN seqs[i] ELSE flatten[i - 1] \o seqs[i]]

LEMMA FlatIs ==
    ASSUME NEW seqs
    PROVE  FlattenSeq(seqs) = IF Len(seqs) = 0 THEN seqs ELSE FlatTo(seqs)[Len(seqs)]
  BY DEF FlattenSeq, FlatTo

IsFlat(f, n, seqs) ==
    \A i \in 1..n : f[i] = IF i = 1 THEN seqs[i] ELSE f[i - 1] \o seqs[i]

LEMMA FlatSteps ==
    ASSUME NEW E, NEW seqs \in Seq(Seq(E)), NEW n \in Nat, n = Len(seqs)
    PROVE  FlatTo(seqs) \in [1..n -> Seq(E)] /\ IsFlat(FlatTo(seqs), n, seqs)
<1> DEFINE Step(f, i) == IF i = 1 THEN seqs[i] ELSE f[i - 1] \o seqs[i]
<1>1. PICK X : X = Seq(E)
  OBVIOUS
<1>2. /\ << >> \in X
      /\ \A i \in 1..n : seqs[i] \in X /\ << >> \o seqs[i] = seqs[i]
      /\ \A i \in 1..n, x \in X : x \o seqs[i] \in X
  BY <1>1, EmptySeq, ElementOfSeq, ConcatProperties, ConcatEmptySeq
<1>3. PICK g : g = [p \in (1..n) \X X |-> p[2] \o seqs[p[1]]]
  OBVIOUS
<1>4. g \in [(1..n) \X X -> X]
  <2>1. \A p \in (1..n) \X X : g[p] \in X
    BY <1>2, <1>3
  <2>2. QED
    BY <1>3, <2>1
<1>5. PICK r \in [0..n -> X] : IsRec(r, n, << >>, g)
  BY <1>2, <1>4, RecExists
<1>6. PICK f : f = [i \in 1..n |-> r[i]]
  OBVIOUS
<1>7. \A i \in 1..n : f[i] = Step(f, i) /\ f[i] \in X
  <2>0. r[0] = << >> /\ \A i \in 1..n : r[i] = g[<<i, r[i - 1]>>]
    BY <1>5 DEF IsRec
  <2>1. ASSUME NEW i \in 1..n PROVE f[i] = Step(f, i)
    <3>0. i - 1 \in 0..n
      OBVIOUS
    <3>1. PICK x \in X : x = r[i - 1]
      BY <1>5, <3>0
    <3>2. g[<<i, x>>] = x \o seqs[i]
      BY <1>3
    <3>3. f[i] = x \o seqs[i]
      BY <1>6, <2>0, <3>1, <3>2
    <3>4. i = 1 => x = << >>
      BY <2>0, <3>1
    <3>5. i # 1 => x = f[i - 1]
      BY <1>6, <3>1
    <3>6. QED
      BY <1>2, <3>3, <3>4, <3>5
  <2>2. \A i \in 1..n : f[i] \in X
    <3>1. \A i \in 0..n : r[i] \in X
      BY <1>5
    <3>2. QED
      BY <1>6, <3>1
  <2>3. QED
    BY <2>1, <2>2
<1>8. f = [i \in 1..n |-> Step(f, i)]
  <2> HIDE DEF Step
  <2>1. QED
    BY <1>6, <1>7
<1>9. PICK k : k = FlatTo(seqs)
  OBVIOUS
<1>10. k = [i \in 1..n |-> Step(k, i)]
  BY <1>8, <1>9 DEF FlatTo
<1>11. DOMAIN k = 1..n /\ \A i \in 1..n : k[i] = Step(k, i)
  <2> HIDE DEF Step
  <2>1. QED
    BY <1>10
<1>12. \A i \in 1..n : k[i] = f[i]
  <2> DEFINE D == {i \in Nat : i \in 1..n => k[i] = f[i]}
  <2>1. 0 \in D
    OBVIOUS
  <2>2. ASSUME NEW i \in Nat, i \in D, i + 1 \in 1..n PROVE k[i + 1] = f[i + 1]
    <3>1. (i + 1) - 1 = i /\ (i + 1 # 1 => k[i] = f[i])
      BY <2>2
    <3>2. Step(k, i + 1) = Step(f, i + 1)
      BY <3>1
    <3>3. QED
      BY <1>7, <1>11, <2>2, <3>2, Zenon
  <2>3. \A i \in Nat : i \in D => i + 1 \in D
    BY <2>2
  <2>4. Nat \subseteq D
    <3> HIDE DEF D
    <3>1. QED
      BY <2>1, <2>3, EveryNumber
  <2>5. QED
    BY <2>4
<1>13. k \in [1..n -> X]
  <2>1. k = [i \in 1..n |-> k[i]]
    BY <1>10
  <2>2. QED
    BY <1>7, <1>12, <2>1
<1>14. QED
  BY <1>1, <1>9, <1>11, <1>13 DEF IsFlat

LEMMA FlatEmpty == FlattenSeq(<< >>) = << >>
<1>1. Len(<< >>) = 0
  BY EmptySeq
<1>2. QED
  BY <1>1, FlatIs

LEMMA FlatAppend ==
    ASSUME NEW E, NEW seqs \in Seq(Seq(E)), NEW s \in Seq(E)
    PROVE  /\ FlattenSeq(seqs) \in Seq(E)
           /\ FlattenSeq(Append(seqs, s)) = FlattenSeq(seqs) \o s
<1>1. PICK k : k = FlatTo(seqs)
  OBVIOUS
<1>2. PICK a : a = Append(seqs, s)
  OBVIOUS
<1>3. PICK m : m = FlatTo(a)
  OBVIOUS
<1>4. PICK n \in Nat : n = Len(seqs)
  BY LenProperties
<1>5. /\ a \in Seq(Seq(E)) /\ Len(a) = n + 1 /\ a[n + 1] = s
      /\ \A i \in 1..n : a[i] = seqs[i]
  BY <1>2, <1>4, AppendProperties
<1>6. k \in [1..n -> Seq(E)] /\ IsFlat(k, n, seqs)
  BY <1>1, <1>4, FlatSteps
<1>7. IsFlat(m, n + 1, a)
  <2>1. n + 1 \in Nat /\ n + 1 = Len(a)
    BY <1>5
  <2>2. QED
    BY <1>3, <1>5, <2>1, FlatSteps
<1>8. n # 0 => m[n] = k[n]
  <2> DEFINE D == {j \in Nat : j \in 1..n => m[j] = k[j]}
  <2>1. 0 \in D
    OBVIOUS
  <2>2. ASSUME NEW j \in Nat, j \in D, j + 1 \in 1..n PROVE m[j + 1] = k[j + 1]
    <3>1. j + 1 \in 1..(n + 1) /\ (j + 1) - 1 = j /\ (j + 1 # 1 => m[j] = k[j])
      BY <2>2
    <3>2. a[j + 1] = seqs[j + 1]
      BY <1>5, <2>2
    <3>3. /\ k[j + 1] = IF j + 1 = 1 THEN seqs[j + 1] ELSE k[(j + 1) - 1] \o seqs[j + 1]
          /\ m[j + 1] = IF j + 1 = 1 THEN a[j + 1] ELSE m[(j + 1) - 1] \o a[j + 1]
      BY <1>6, <1>7, <2>2, <3>1, Zenon DEF IsFlat
    <3>4. QED
      BY <3>1, <3>2, <3>3
  <2>3. \A j \in Nat : j \in D => j + 1 \in D
    <3>1. ASSUME NEW j \in Nat, j \in D PROVE j + 1 \in D
      <4>1. j + 1 \in 1..n => m[j + 1] = k[j + 1]
        BY <2>2, <3>1, Zenon
      <4>2. QED
        BY <4>1
    <3>2. QED
      BY <3>1, Zenon
  <2>4. Nat \subseteq D
    <3> HIDE DEF D
    <3>1. QED
      BY <2>1, <2>3, EveryNumber
  <2>5. n # 0 => n \in 1..n
    OBVIOUS
  <2>6. QED
    BY <2>4, <2>5
<1>9. m[n + 1] = IF n = 0 THEN s ELSE k[n] \o s
  <2>1. n + 1 \in 1..(n + 1) /\ (n + 1) - 1 = n /\ (n + 1 = 1 <=> n = 0)
    OBVIOUS
  <2>2. m[n + 1] = IF n + 1 = 1 THEN a[n + 1] ELSE m[(n + 1) - 1] \o a[n + 1]
    BY <1>7, <2>1 DEF IsFlat
  <2>3. QED
    BY <1>5, <1>8, <2>1, <2>2
<1>10. FlattenSeq(a) = m[n + 1]
  <2>1. Len(a) # 0
    BY <1>5
  <2>2. QED
    BY <1>3, <1>5, <2>1, FlatIs
<1>11. n = 0 => seqs = << >>
  BY <1>4, EmptySeq
<1>12. n = 0 => FlattenSeq(seqs) = << >> /\ << >> \in Seq(E) /\ << >> \o s = s
  BY <1>11, FlatEmpty, EmptySeq, ConcatEmptySeq
<1>13. ASSUME n # 0 PROVE FlattenSeq(seqs) = k[n] /\ k[n] \in Seq(E)
  <2>1. FlattenSeq(seqs) = FlatTo(seqs)[n]
    BY <1>4, <1>13, FlatIs
  <2>2. n \in 1..n
    BY <1>13
  <2>3. QED
    BY <1>1, <1>6, <2>1, <2>2
<1>14. QED
  BY <1>2, <1>9, <1>10, <1>12, <1>13

-----------------------------------------------------------------------------
(***************************************************************************)
(* Lists of rules: the entries of a kind that a list holds, in their       *)
(* order, and what adding our rule or taking entries out does to them.     *)
(***************************************************************************)
Of(rules, S) == Kept(FlattenSeq(rules), S)

LEMMA NoRules == ASSUME NEW S PROVE Of(<< >>, S) = << >>
  BY FlatEmpty, KeptEmpty DEF Of

LEMMA OfAppend ==
    ASSUME NEW E, NEW rules \in Seq(Seq(E)), NEW rule \in Seq(E), NEW S
    PROVE  /\ Of(rules, S) \in Seq(E)
           /\ Of(Append(rules, rule), S) = Of(rules, S) \o Kept(rule, S)
<1>1. PICK f \in Seq(E) : f = FlattenSeq(rules)
  BY FlatAppend
<1>2. FlattenSeq(Append(rules, rule)) = f \o rule
  BY <1>1, FlatAppend
<1>3. Kept(f \o rule, S) = Kept(f, S) \o Kept(rule, S)
  BY KeptOfConcat
<1>4. Kept(f, S) \in Seq(E)
  <2>1. Kept(f, S) \in Seq(E \cap S) /\ E \cap S \subseteq E
    BY KeptType
  <2>2. QED
    BY <2>1, SeqMonotonic
<1>5. QED
  BY <1>1, <1>2, <1>3, <1>4 DEF Of

OfGrows(E, S) ==
    \A rules \in Seq(Seq(E)), rule \in Seq(E) :
        Of(Append(rules, rule), S) = Of(rules, S) \o Kept(rule, S)
LEMMA OfGrowing == ASSUME NEW E, NEW S PROVE OfGrows(E, S)
<1>1. ASSUME NEW rules \in Seq(Seq(E)), NEW rule \in Seq(E)
      PROVE  Of(Append(rules, rule), S) = Of(rules, S) \o Kept(rule, S)
  BY OfAppend
<1>2. QED
  BY <1>1, Zenon DEF OfGrows

LEMMA OfNone ==
    ASSUME NEW E, NEW rules \in Seq(Seq(E)), NEW S, E \cap S = {}
    PROVE  Of(rules, S) = << >>
<1>1. FlattenSeq(rules) \in Seq(E)
  <2>1. << >> \in Seq(E)
    BY EmptySeq
  <2>2. QED
    BY <2>1, FlatAppend
<1>2. QED
  BY <1>1, NoneKept DEF Of

Associates(E) ==
    /\ \A s, t, u \in Seq(E) : (s \o t) \o u = s \o (t \o u)
    /\ \A s, t \in Seq(E), e \in E : s \o Append(t, e) = Append(s \o t, e)
LEMMA ConcatAssociates == ASSUME NEW E PROVE Associates(E)
  BY ConcatAssociative, AppendToConcat DEF Associates

LEMMA OfConcat ==
    ASSUME NEW E, NEW left_ \in Seq(Seq(E)), NEW right \in Seq(Seq(E)), NEW S
    PROVE  Of(left_ \o right, S) = Of(left_, S) \o Of(right, S)
<1> DEFINE G == {rules \in Seq(Seq(E)) : Of(left_ \o rules, S) = Of(left_, S) \o Of(rules, S)}
<1>0. << >> \in Seq(E) /\ Of(left_, S) \in Seq(E)
  <2>1. << >> \in Seq(E)
    BY EmptySeq
  <2>2. QED
    BY <2>1, OfAppend
<1>1. << >> \in G
  <2>1. << >> \in Seq(Seq(E)) /\ left_ \o << >> = left_ /\ Of(left_, S) \o << >> = Of(left_, S)
    BY <1>0, EmptySeq, ConcatEmptySeq
  <2>2. QED
    BY <2>1, NoRules
<1>2. ASSUME NEW rules \in Seq(Seq(E)), NEW rule \in Seq(E), rules \in G
      PROVE  Append(rules, rule) \in G
  <2>1. PICK x \in Seq(E) : x = Of(left_, S)
    BY <1>0
  <2>2. PICK y \in Seq(E) : y = Of(rules, S)
    BY OfAppend
  <2>3. PICK z \in Seq(E) : z = Kept(rule, S)
    <3>1. Kept(rule, S) \in Seq(E \cap S) /\ E \cap S \subseteq E
      BY KeptType
    <3>2. QED
      BY <3>1, SeqMonotonic
  <2>4. PICK both \in Seq(Seq(E)) : both = left_ \o rules
    BY ConcatProperties
  <2>5. Of(both, S) = x \o y
    BY <1>2, <2>1, <2>2, <2>4
  <2>6. left_ \o Append(rules, rule) = Append(both, rule) /\ Append(rules, rule) \in Seq(Seq(E))
    <3>1. left_ \o Append(rules, rule) = Append(left_ \o rules, rule)
      <4>1. Associates(Seq(E))
        BY ConcatAssociates
      <4>2. QED
        BY <4>1, Zenon DEF Associates
    <3>2. Append(rules, rule) \in Seq(Seq(E))
      BY AppendProperties
    <3>3. QED
      BY <2>4, <3>1, <3>2
  <2>7. Of(Append(both, rule), S) = Of(both, S) \o z
    BY <2>3, OfGrowing, Zenon DEF OfGrows
  <2>8. Of(Append(rules, rule), S) = y \o z
    BY <2>2, <2>3, OfGrowing, Zenon DEF OfGrows
  <2>9. (x \o y) \o z = x \o (y \o z)
    <3>1. Associates(E)
      BY ConcatAssociates
    <3>2. QED
      BY <3>1, Zenon DEF Associates
  <2>10. QED
    BY <2>1, <2>5, <2>6, <2>7, <2>8, <2>9
<1>3. Seq(Seq(E)) \subseteq G
  <2> HIDE DEF G
  <2>1. QED
    BY <1>1, <1>2, EverySeq
<1>4. QED
  BY <1>3

\* Our rule among others.
LEMMA OurRuleIs ==
    /\ OurRule \in Seq({"ours"}) /\ <<OurRule>> \in Seq(Seq({"ours"}))
    /\ Of(<<OurRule>>, Others) = << >>
    /\ Of(<<OurRule>>, Entries \ Others) = <<"ours">>
<1>1. OurRule \in Seq({"ours"}) /\ <<OurRule>> \in Seq(Seq({"ours"}))
  BY DEF OurRule
<1>2. Of(<<OurRule>>, Others) = << >>
  <2>1. {"ours"} \cap Others = {}
    BY DEF Others
  <2>2. QED
    BY <1>1, <2>1, OfNone
<1>3. Of(<<OurRule>>, Entries \ Others) = <<"ours">>
  <2>1. << >> \in Seq(Seq({"ours"})) /\ Append(<< >>, OurRule) = <<OurRule>>
    BY EmptySeq
  <2>2. Of(<<OurRule>>, Entries \ Others) = << >> \o Kept(OurRule, Entries \ Others)
    <3>1. OfGrows({"ours"}, Entries \ Others)
      BY OfGrowing
    <3>2. Of(Append(<< >>, OurRule), Entries \ Others)
              = Of(<< >>, Entries \ Others) \o Kept(OurRule, Entries \ Others)
      BY <1>1, <2>1, <3>1, Zenon DEF OfGrows
    <3>3. QED
      BY <2>1, <3>2, NoRules, Zenon
  <2>3. {"ours"} \subseteq Entries \ Others
    BY DEF Entries, Others
  <2>4. Kept(OurRule, Entries \ Others) = OurRule
    BY <1>1, <2>3, AllKept
  <2>5. << >> \o OurRule = OurRule
    BY <1>1, ConcatEmptySeq
  <2>6. QED
    BY <2>2, <2>4, <2>5 DEF OurRule
<1>4. QED
  BY <1>1, <1>2, <1>3

WithOurs(rules, first) == IF first THEN <<OurRule>> \o rules ELSE rules \o <<OurRule>>
OursJoined(E, rules, new) ==
    /\ new \in Seq(Seq(E))
    /\ Of(new, Others) = Of(rules, Others)
    /\ rules \in Seq(Seq(Others)) => Of(new, Entries \ Others) = <<"ours">>

LEMMA WithOurRule ==
    ASSUME NEW E, "ours" \in E, NEW rules \in Seq(Seq(E)), NEW first \in BOOLEAN
    PROVE  OursJoined(E, rules, WithOurs(rules, first))
<1>0. PICK new : new = IF first THEN <<OurRule>> \o rules ELSE rules \o <<OurRule>>
  OBVIOUS
<1>1. <<OurRule>> \in Seq(Seq(E))
  <2>1. Seq({"ours"}) \subseteq Seq(E)
    BY SeqMonotonic
  <2>2. QED
    BY <2>1, OurRuleIs, SeqMonotonic
<1>2. new \in Seq(Seq(E))
  BY <1>0, <1>1, ConcatProperties
<1>3. \A S : /\ Of(<<OurRule>> \o rules, S) = Of(<<OurRule>>, S) \o Of(rules, S)
             /\ Of(rules \o <<OurRule>>, S) = Of(rules, S) \o Of(<<OurRule>>, S)
  <2>1. \A r, t \in Seq(Seq(E)) : \A S : Of(r \o t, S) = Of(r, S) \o Of(t, S)
    BY OfConcat
  <2>2. QED
    BY <1>1, <2>1, Zenon
<1>4. Of(rules, Others) \in Seq(E)
  <2>1. << >> \in Seq(E)
    BY EmptySeq
  <2>2. QED
    BY <2>1, OfAppend
<1>5. Of(new, Others) = Of(rules, Others)
  <2>1. Of(<<OurRule>> \o rules, Others) = << >> \o Of(rules, Others)
    BY <1>3, OurRuleIs
  <2>2. Of(rules \o <<OurRule>>, Others) = Of(rules, Others) \o << >>
    BY <1>3, OurRuleIs
  <2>3. PICK x \in Seq(E) : x = Of(rules, Others)
    BY <1>4
  <2>4. << >> \o x = x /\ x \o << >> = x
    BY ConcatEmptySeq
  <2>5. QED
    BY <1>0, <2>1, <2>2, <2>3, <2>4
<1>6. ASSUME rules \in Seq(Seq(Others)) PROVE Of(new, Entries \ Others) = <<"ours">>
  <2>1. Of(rules, Entries \ Others) = << >>
    <3>1. Others \cap (Entries \ Others) = {}
      OBVIOUS
    <3>2. QED
      BY <1>6, <3>1, OfNone
  <2>2. Of(<<OurRule>> \o rules, Entries \ Others) = <<"ours">> \o << >>
    BY <1>3, <2>1, OurRuleIs
  <2>3. Of(rules \o <<OurRule>>, Entries \ Others) = << >> \o <<"ours">>
    BY <1>3, <2>1, OurRuleIs
  <2>4. <<"ours">> \in Seq({"ours"})
    OBVIOUS
  <2>5. <<"ours">> \o << >> = <<"ours">> /\ << >> \o <<"ours">> = <<"ours">>
    BY <2>4, ConcatEmptySeq
  <2>6. QED
    BY <1>0, <2>2, <2>3, <2>5
<1>7. QED
  BY <1>0, <1>2, <1>5, <1>6 DEF OursJoined, WithOurs

\* Dropping whole rules keeps what they do not hold.
LEMMA DropRules ==
    ASSUME NEW E, NEW S, NEW X,
           NEW Y, Y \subseteq Seq(E), \A rule \in Y : rule \notin X => Kept(rule, S) = << >>,
           NEW rules \in Seq(Y)
    PROVE  Of(Kept(rules, X), S) = Of(rules, S)
<1> DEFINE G == {r \in Seq(Y) : Of(Kept(r, X), S) = Of(r, S)}
<1>1. << >> \in G
  BY KeptEmpty, EmptySeq
<1>2. ASSUME NEW r \in Seq(Y), NEW rule \in Y, r \in G PROVE Append(r, rule) \in G
  <2>1. r \in Seq(Seq(E)) /\ rule \in Seq(E)
    BY SeqMonotonic
  <2>2. Append(r, rule) \in Seq(Y)
    BY AppendProperties
  <2>3. /\ Of(r, S) \in Seq(E)
        /\ Of(Append(r, rule), S) = Of(r, S) \o Kept(rule, S)
    BY <2>1, OfAppend
  <2>4. PICK k \in Seq(Y) : k = Kept(r, X)
    BY KeptAppend
  <2>5. Of(k, S) = Of(r, S)
    BY <1>2, <2>4
  <2>6. KeptGrows(Y, X)
    BY KeptGrowing
  <2>7. CASE rule \in X
    <3>1. Kept(Append(r, rule), X) = Append(k, rule)
      BY <2>4, <2>6, <2>7 DEF KeptGrows
    <3>2. k \in Seq(Seq(E))
      BY SeqMonotonic
    <3>3. Of(Append(k, rule), S) = Of(k, S) \o Kept(rule, S)
      BY <2>1, <3>2, OfAppend
    <3>4. QED
      BY <2>2, <2>3, <2>5, <3>1, <3>3
  <2>8. CASE rule \notin X
    <3>1. Kept(Append(r, rule), X) = k
      BY <2>4, <2>6, <2>8 DEF KeptGrows
    <3>2. Of(r, S) \o << >> = Of(r, S)
      BY <2>3, ConcatEmptySeq
    <3>3. Kept(rule, S) = << >>
      BY <2>8
    <3>4. QED
      BY <2>2, <2>3, <2>5, <3>1, <3>2, <3>3
  <2>9. QED
    BY <2>7, <2>8
<1>3. Seq(Y) \subseteq G
  <2> HIDE DEF G
  <2>1. QED
    BY <1>1, <1>2, EverySeq
<1>4. QED
  BY <1>3

\* Taking entries out of rules keeps the others.
Thinned(rules, stay) == [r \in DOMAIN rules |-> Kept(rules[r], stay)]

LEMMA ThinnedIs ==
    ASSUME NEW E, NEW rules \in Seq(Seq(E)), NEW stay
    PROVE  /\ Thinned(rules, stay) \in Seq(Seq(E \cap stay))
           /\ Len(Thinned(rules, stay)) = Len(rules)
           /\ \A i \in 1..Len(rules) : Thinned(rules, stay)[i] = Kept(rules[i], stay)
<1>1. PICK n \in Nat : n = Len(rules) /\ DOMAIN rules = 1..n
  BY LenProperties
<1>2. \A i \in 1..n : Kept(rules[i], stay) \in Seq(E \cap stay)
  BY <1>1, ElementOfSeq, KeptType
<1>3. PICK t : t = [r \in 1..n |-> Kept(rules[r], stay)]
  OBVIOUS
<1>4. t \in [1..n -> Seq(E \cap stay)]
  BY <1>2, <1>3
<1>5. t \in Seq(Seq(E \cap stay)) /\ Len(t) = n
  BY <1>4
<1>6. Thinned(rules, stay) = t
  BY <1>1, <1>3 DEF Thinned
<1>7. QED
  BY <1>1, <1>3, <1>5, <1>6

LEMMA ThinnedAppend ==
    ASSUME NEW E, NEW rules \in Seq(Seq(E)), NEW rule \in Seq(E), NEW stay
    PROVE  Thinned(Append(rules, rule), stay) = Append(Thinned(rules, stay), Kept(rule, stay))
<1>1. PICK n \in Nat : n = Len(rules)
  BY LenProperties
<1>2. PICK a \in Seq(Seq(E)) : a = Append(rules, rule)
  BY AppendProperties
<1>3. Len(a) = n + 1 /\ a[n + 1] = rule /\ \A i \in 1..n : a[i] = rules[i]
  BY <1>1, <1>2, AppendProperties
<1>4. PICK t \in Seq(Seq(E \cap stay)) : t = Thinned(rules, stay)
  BY ThinnedIs
<1>5. Len(t) = n /\ \A i \in 1..n : t[i] = Kept(rules[i], stay)
  BY <1>1, <1>4, ThinnedIs
<1>6. PICK u \in Seq(Seq(E \cap stay)) : u = Thinned(a, stay)
  BY ThinnedIs
<1>7. Len(u) = n + 1 /\ \A i \in 1..(n + 1) : u[i] = Kept(a[i], stay)
  BY <1>3, <1>6, ThinnedIs
<1>8. Kept(rule, stay) \in Seq(E \cap stay)
  BY KeptType
<1>9. PICK v \in Seq(Seq(E \cap stay)) : v = Append(t, Kept(rule, stay))
  BY <1>8, AppendProperties
<1>10. Len(v) = n + 1 /\ v[n + 1] = Kept(rule, stay) /\ \A i \in 1..n : v[i] = t[i]
  BY <1>5, <1>8, <1>9, AppendProperties
<1>11. \A i \in 1..(n + 1) : u[i] = v[i]
  <2>1. \A i \in 1..(n + 1) : i = n + 1 \/ i \in 1..n
    OBVIOUS
  <2>2. QED
    BY <1>3, <1>5, <1>7, <1>10, <2>1
<1>12. u = v
  BY <1>7, <1>10, <1>11, SeqEqual
<1>13. QED
  BY <1>2, <1>4, <1>6, <1>9, <1>12

LEMMA EntrywiseIs ==
    ASSUME NEW rules, NEW stay
    PROVE  Entrywise(rules, stay) = Kept(Thinned(rules, stay), Seq(Entries) \ {<< >>})
  BY DEF Entrywise, Thinned

ThinsTo(E, rules, stay, new) ==
    /\ new \in Seq(Seq(E \cap stay))
    /\ \A S : E \cap S \subseteq stay => Of(new, S) = Of(rules, S)

LEMMA EntrywiseKeeps ==
    ASSUME NEW E, E \subseteq Entries, NEW rules \in Seq(Seq(E)), NEW stay
    PROVE  ThinsTo(E, rules, stay, Entrywise(rules, stay))
<1>1. PICK t \in Seq(Seq(E \cap stay)) : t = Thinned(rules, stay)
  BY ThinnedIs
<1>2. Entrywise(rules, stay) \in Seq(Seq(E \cap stay))
  <2>1. << >> \in Seq(E \cap stay)
    BY EmptySeq
  <2>2. QED
    BY <1>1, <2>1, KeptAppend, EntrywiseIs
<1>3. ASSUME NEW S, E \cap S \subseteq stay PROVE Of(Entrywise(rules, stay), S) = Of(rules, S)
  <2>1. Of(Entrywise(rules, stay), S) = Of(t, S)
    <3>1. \A rule \in Seq(E \cap stay) :
              rule \notin Seq(Entries) \ {<< >>} => Kept(rule, S) = << >>
      <4>1. Seq(E \cap stay) \subseteq Seq(Entries)
        BY SeqMonotonic
      <4>2. QED
        BY <4>1, KeptEmpty
    <3>2. QED
      BY <1>1, <3>1, DropRules, EntrywiseIs
  <2>2. Of(t, S) = Of(rules, S)
    <3> DEFINE G == {r \in Seq(Seq(E)) : Of(Thinned(r, stay), S) = Of(r, S)}
    <3>1. << >> \in G
      <4>1. << >> \in Seq(Seq(E)) /\ Len(<< >>) = 0
        BY EmptySeq
      <4>2. Len(Thinned(<< >>, stay)) = 0 /\ Thinned(<< >>, stay) \in Seq(Seq(E \cap stay))
        BY <4>1, ThinnedIs
      <4>3. Thinned(<< >>, stay) = << >>
        BY <4>2, EmptySeq
      <4>4. QED
        BY <4>1, <4>3
    <3>2. ASSUME NEW r \in Seq(Seq(E)), NEW rule \in Seq(E), r \in G
          PROVE  Append(r, rule) \in G
      <4>1. Append(r, rule) \in Seq(Seq(E))
        BY AppendProperties
      <4>2. PICK u \in Seq(Seq(E \cap stay)) : u = Thinned(r, stay)
        BY ThinnedIs
      <4>3. Thinned(Append(r, rule), stay) = Append(u, Kept(rule, stay))
        BY <4>2, ThinnedAppend
      <4>4. Kept(rule, stay) \in Seq(E \cap stay)
        BY KeptType
      <4>5. Of(Append(u, Kept(rule, stay)), S) = Of(u, S) \o Kept(Kept(rule, stay), S)
        BY <4>4, OfGrowing DEF OfGrows
      <4>6. Kept(Kept(rule, stay), S) = Kept(rule, S)
        BY <1>3, KeptOfKept
      <4>7. Of(Append(r, rule), S) = Of(r, S) \o Kept(rule, S)
        BY OfAppend
      <4>8. Of(u, S) = Of(r, S)
        BY <3>2, <4>2
      <4>9. QED
        BY <4>1, <4>3, <4>5, <4>6, <4>7, <4>8
    <3>3. Seq(Seq(E)) \subseteq G
      <4> HIDE DEF G
      <4>1. QED
        BY <3>1, <3>2, EverySeq
    <3>4. QED
      BY <1>1, <3>3
  <2>3. QED
    BY <2>1, <2>2
<1>4. QED
  BY <1>2, <1>3 DEF ThinsTo

-----------------------------------------------------------------------------
(***************************************************************************)
(* Maps of events: what the agents' removals leave of one, and what        *)
(* splicing ours in makes of that.                                         *)
(***************************************************************************)
Lists(a, events) == \A k \in DOMAIN events : ListOf(a, events[k])
Cleared(list) == list.array => list.rules \in Seq(Seq(Others))
Strips(a, events, new) ==
    /\ DOMAIN new \subseteq DOMAIN events
    /\ \A k \in DOMAIN new :
          ListOf(a, new[k]) /\ new[k].array = events[k].array /\ Cleared(new[k])
Tell(events, k) == IF k \in DOMAIN events THEN Of(events[k].rules, Others) ELSE << >>
SameTold(events, new) == \A k : Tell(new, k) = Tell(events, k)

NotOurs == {e \in Entries : ~Targets(e)}
NotOursClaude == {e \in Entries : ~TargetsClaude(e)}

LEMMA EntriesAre ==
    ASSUME NEW a
    PROVE  /\ EntriesOf(a) \subseteq Entries /\ Others \subseteq EntriesOf(a)
           /\ {"ours", "stale"} \subseteq EntriesOf(a)
           /\ a # "claude" => EntriesOf(a) \cap NotOurs = Others
           /\ EntriesOf(a) \cap NotOursClaude = Others
  BY DEF EntriesOf, Entries, Others, NotOurs, NotOursClaude, Targets, TargetsClaude

LEMMA SeqTyped ==
    ASSUME NEW E, NEW s \in Seq(E), NEW X, \A i \in DOMAIN s : s[i] \in X
    PROVE  s \in Seq(X)
<1>1. PICK n \in Nat : n = Len(s) /\ s \in [1..n -> E]
  BY LenProperties
<1>2. s \in [1..n -> X]
  BY <1>1
<1>3. QED
  BY <1>2

LEMMA SeqOfBoth ==
    ASSUME NEW E, NEW X, NEW s \in Seq(E) \cap Seq(X) PROVE s \in Seq(E \cap X)
<1>1. \A i \in DOMAIN s : s[i] \in E \cap X
  BY LenProperties, ElementOfSeq
<1>2. QED
  BY <1>1, SeqTyped

MixedRule(rule) == Has(rule) /\ ToSet(rule) \cap Others # {}

LEMMA RulesWithoutIs ==
    ASSUME NEW a, a # "claude", NEW rules \in Seq(Seq(EntriesOf(a)))
    PROVE  /\ RulesWithout(rules) \in Seq(Seq(Others))
           /\ (\A r \in DOMAIN rules : ~MixedRule(rules[r])) =>
                 Of(RulesWithout(rules), Others) = Of(rules, Others)
<1>1. PICK E : E = EntriesOf(a)
  OBVIOUS
<1>2. /\ E \subseteq Entries /\ E \cap NotOurs = Others
      /\ RulesWithout(rules) = Kept(rules, Seq(NotOurs)) /\ rules \in Seq(Seq(E))
  BY <1>1, EntriesAre DEF RulesWithout, NotOurs
<1>3. RulesWithout(rules) \in Seq(Seq(Others))
  <2>1. RulesWithout(rules) \in Seq(Seq(E) \cap Seq(NotOurs))
    BY <1>2, KeptType
  <2>2. Seq(E) \cap Seq(NotOurs) \subseteq Seq(Others)
    BY <1>2, SeqOfBoth
  <2>3. QED
    BY <2>1, <2>2, SeqMonotonic
<1>4. ASSUME \A r \in DOMAIN rules : ~MixedRule(rules[r])
      PROVE  Of(RulesWithout(rules), Others) = Of(rules, Others)
  <2> DEFINE Y == {rule \in Seq(E) : ~MixedRule(rule)}
  <2>1. rules \in Seq(Y)
    <3>1. \A r \in DOMAIN rules : rules[r] \in Y
      BY <1>2, <1>4, LenProperties, ElementOfSeq
    <3> HIDE DEF Y
    <3>2. QED
      BY <1>2, <3>1, SeqTyped
  <2>2. ASSUME NEW rule \in Y, rule \notin Seq(NotOurs) PROVE Kept(rule, Others) = << >>
    <3>1. rule \in Seq(E)
      OBVIOUS
    <3>2. DOMAIN rule = 1..Len(rule) /\ \A i \in DOMAIN rule : rule[i] \in E
      BY <3>1, LenProperties, ElementOfSeq
    <3>3. Has(rule)
      <4>1. SUFFICES ASSUME ~Has(rule) PROVE rule \in Seq(NotOurs)
        BY <2>2
      <4>2. \A i \in DOMAIN rule : rule[i] \in NotOurs
        BY <1>2, <3>2, <4>1 DEF Has, NotOurs
      <4>3. QED
        BY <3>1, <4>2, SeqTyped
    <3>4. \A i \in DOMAIN rule : rule[i] \in E \ Others
      <4>1. ToSet(rule) \cap Others = {}
        BY <3>3 DEF MixedRule
      <4>2. \A i \in DOMAIN rule : rule[i] \in ToSet(rule)
        BY DEF ToSet
      <4>3. QED
        BY <3>2, <4>1, <4>2
    <3>5. rule \in Seq(E \ Others)
      BY <3>1, <3>4, SeqTyped
    <3>6. QED
      BY <3>5, NoneKept
  <2>3. Y \subseteq Seq(E)
    OBVIOUS
  <2> HIDE DEF Y
  <2>4. Of(Kept(rules, Seq(NotOurs)), Others) = Of(rules, Others)
    BY <2>1, <2>2, <2>3, DropRules
  <2>5. QED
    BY <1>2, <2>4
<1>5. QED
  BY <1>3, <1>4

LEMMA CodexEntriesIs ==
    ASSUME NEW a, a # "claude", NEW rules \in Seq(Seq(EntriesOf(a)))
    PROVE  /\ CodexEntries(rules) \in Seq(Seq(Others))
           /\ Of(CodexEntries(rules), Others) = Of(rules, Others)
<1>1. /\ EntriesOf(a) \subseteq Entries /\ EntriesOf(a) \cap NotOurs = Others
      /\ EntriesOf(a) \cap Others \subseteq NotOurs
      /\ CodexEntries(rules) = Entrywise(rules, NotOurs)
  BY EntriesAre DEF CodexEntries, NotOurs
<1>2. PICK E : E = EntriesOf(a)
  OBVIOUS
<1>3. ThinsTo(E, rules, NotOurs, Entrywise(rules, NotOurs))
  BY <1>1, <1>2, EntrywiseKeeps
<1>4. QED
  BY <1>1, <1>2, <1>3 DEF ThinsTo

LEMMA ClaudeEntriesIs ==
    ASSUME NEW rules \in Seq(Seq(EntriesOf("claude")))
    PROVE  /\ ClaudeEntries(rules, FALSE) \in Seq(Seq(Others))
           /\ Of(ClaudeEntries(rules, FALSE), Others) = Of(rules, Others)
<1>1. {e \in Entries : IF FALSE THEN e # "retired" ELSE ~TargetsClaude(e)} = NotOursClaude
  BY DEF NotOursClaude
<1>2. /\ EntriesOf("claude") \subseteq Entries
      /\ EntriesOf("claude") \cap NotOursClaude = Others
      /\ EntriesOf("claude") \cap Others \subseteq NotOursClaude
      /\ ClaudeEntries(rules, FALSE) = Entrywise(rules, NotOursClaude)
  BY <1>1, EntriesAre, Zenon DEF ClaudeEntries
<1>3. PICK E : E = EntriesOf("claude")
  OBVIOUS
<1>4. E \subseteq Entries /\ E \cap NotOursClaude = Others /\ E \cap Others \subseteq NotOursClaude
      /\ rules \in Seq(Seq(E))
  BY <1>2, <1>3
<1>5. /\ Entrywise(rules, NotOursClaude) \in Seq(Seq(E \cap NotOursClaude))
      /\ Of(Entrywise(rules, NotOursClaude), Others) = Of(rules, Others)
  <2>1. ThinsTo(E, rules, NotOursClaude, Entrywise(rules, NotOursClaude))
    BY <1>4, EntrywiseKeeps
  <2>2. QED
    BY <1>4, <2>1 DEF ThinsTo
<1>6. QED
  BY <1>2, <1>4, <1>5

\* Leaving out events whose rules are gone.
LEMMA WithoutStrips ==
    ASSUME NEW a, NEW events, NEW kept, NEW keys, DOMAIN kept = DOMAIN events,
           \A k \in DOMAIN events :
               ListOf(a, kept[k]) /\ kept[k].array = events[k].array /\ Cleared(kept[k]),
           \A k \in keys : kept[k].rules = << >>
    PROVE  /\ Strips(a, events, Without(kept, keys))
           /\ (\A k \in DOMAIN events :
                  Of(kept[k].rules, Others) = Of(events[k].rules, Others)) =>
                 SameTold(events, Without(kept, keys))
<1>1. PICK w : w = Without(kept, keys)
  OBVIOUS
<1>2. DOMAIN w = DOMAIN events \ keys /\ \A k \in DOMAIN w : w[k] = kept[k]
  BY <1>1 DEF Without
<1>3. Strips(a, events, w)
  BY <1>2, Zenon DEF Strips
<1>4. ASSUME \A k \in DOMAIN events : Of(kept[k].rules, Others) = Of(events[k].rules, Others)
      PROVE  SameTold(events, w)
  <2>1. ASSUME NEW k PROVE Tell(w, k) = Tell(events, k)
    <3>1. CASE k \in DOMAIN w
      BY <1>2, <1>4, <3>1 DEF Tell
    <3>2. CASE k \in DOMAIN events /\ k \in keys
      <4>1. Of(kept[k].rules, Others) = << >>
        BY <3>2, NoRules
      <4>2. QED
        BY <1>2, <1>4, <3>2, <4>1 DEF Tell
    <3>3. CASE k \notin DOMAIN events
      BY <1>2, <3>3 DEF Tell
    <3>4. QED
      BY <1>2, <3>1, <3>2, <3>3
  <2>2. QED
    BY <2>1 DEF SameTold
<1>5. QED
  BY <1>1, <1>3, <1>4

MixedNone(events) ==
    \A k \in DOMAIN events : \A r \in DOMAIN events[k].rules : ~MixedRule(events[k].rules[r])
LEMMA MixedIs == ASSUME NEW events PROVE ~Mixed(events) <=> MixedNone(events)
  BY Zenon DEF Mixed, MixedNone, MixedRule

LEMMA ListIs == ASSUME NEW rules PROVE List(rules).array = TRUE /\ List(rules).rules = rules
  BY DEF List

LEMMA RemoveRulesStrips ==
    ASSUME NEW a, a # "claude", NEW events, Lists(a, events)
    PROVE  /\ Strips(a, events, RemoveRules(events))
           /\ MixedNone(events) => SameTold(events, RemoveRules(events))
<1> DEFINE kept == [k \in DOMAIN events |->
                       IF events[k].array THEN List(RulesWithout(events[k].rules))
                       ELSE events[k]]
           keys == {k \in DOMAIN kept : kept[k] # events[k] /\ kept[k].rules = << >>}
<1>1. RemoveRules(events) = Without(kept, keys)
  BY Zenon DEF RemoveRules
<1>2. DOMAIN kept = DOMAIN events /\ \A k \in keys : kept[k].rules = << >>
  OBVIOUS
<1>3. \A k \in DOMAIN events : /\ events[k].array => kept[k] = List(RulesWithout(events[k].rules))
                               /\ ~events[k].array => kept[k] = events[k]
  BY Zenon
<1> HIDE DEF kept, keys
<1>4. Seq(Seq(Others)) \subseteq Seq(Seq(EntriesOf(a)))
  <2>1. Seq(Others) \subseteq Seq(EntriesOf(a))
    BY EntriesAre, SeqMonotonic
  <2>2. QED
    BY <2>1, SeqMonotonic
<1>5. ASSUME NEW k \in DOMAIN events
      PROVE  /\ ListOf(a, kept[k]) /\ kept[k].array = events[k].array /\ Cleared(kept[k])
             /\ MixedNone(events) => Of(kept[k].rules, Others) = Of(events[k].rules, Others)
  <2>1. ListOf(a, events[k])
    BY DEF Lists
  <2>2. CASE events[k].array
    <3>1. PICK w : w = RulesWithout(events[k].rules)
      OBVIOUS
    <3>2. /\ w \in Seq(Seq(Others))
          /\ MixedNone(events) => Of(w, Others) = Of(events[k].rules, Others)
      BY <2>1, <3>1, RulesWithoutIs DEF ListOf, MixedNone
    <3>3. kept[k].array = TRUE /\ kept[k].rules = w
      BY <1>3, <2>2, <3>1, ListIs
    <3>4. events[k].array = TRUE
      BY <2>1, <2>2 DEF ListOf
    <3>5. QED
      BY <1>4, <3>2, <3>3, <3>4 DEF ListOf, Cleared
  <2>3. CASE ~events[k].array
    BY <1>3, <2>1, <2>3 DEF Cleared
  <2>4. QED
    BY <2>2, <2>3
<1>6. QED
  BY <1>1, <1>2, <1>5, WithoutStrips

LEMMA RemoveCopilotStrips ==
    ASSUME NEW a, a # "claude", NEW events, Lists(a, events)
    PROVE  /\ Strips(a, events, RemoveCopilot(events))
           /\ MixedNone(events) => SameTold(events, RemoveCopilot(events))
<1> DEFINE Odd(k) == ~events[k].array /\ \E r \in DOMAIN events[k].rules : Has(events[k].rules[r])
           keys == {k \in DOMAIN events : Odd(k)}
<1>1. PICK w : w = Without(events, keys)
  OBVIOUS
<1>2. RemoveCopilot(events) = RemoveRules(w)
  BY <1>1, Zenon DEF RemoveCopilot
<1>3. DOMAIN w = DOMAIN events \ keys /\ \A k \in DOMAIN w : w[k] = events[k]
  BY <1>1 DEF Without
<1>4. \A k \in keys : k \in DOMAIN events /\ Odd(k)
  OBVIOUS
<1> HIDE DEF keys
<1>5. Lists(a, w) /\ (MixedNone(events) => MixedNone(w))
  BY <1>3 DEF Lists, MixedNone
<1>6. /\ Strips(a, w, RemoveRules(w))
      /\ MixedNone(w) => SameTold(w, RemoveRules(w))
  BY <1>5, RemoveRulesStrips
<1>7. Strips(a, events, RemoveRules(w))
  BY <1>3, <1>6 DEF Strips
<1>8. ASSUME MixedNone(events) PROVE SameTold(events, w)
  <2>1. ASSUME NEW k \in keys PROVE Of(events[k].rules, Others) = << >>
    <3>1. k \in DOMAIN events /\ ~events[k].array
      BY <1>4
    <3>2. PICK rules \in Seq(Seq(EntriesOf(a))) : rules = events[k].rules /\ Len(rules) = 1
      BY <3>1 DEF Lists, ListOf
    <3>3. DOMAIN rules = {1}
      <4>1. DOMAIN rules = 1..Len(rules)
        BY LenProperties
      <4>2. QED
        BY <3>2, <4>1
    <3>4. Has(rules[1]) /\ ~MixedRule(rules[1])
      BY <1>4, <1>8, <3>1, <3>2, <3>3 DEF MixedNone
    <3>5. rules[1] \in Seq(EntriesOf(a))
      BY <3>2, <3>3, ElementOfSeq
    <3>6. rules[1] \in Seq(EntriesOf(a) \ Others)
      <4>1. ToSet(rules[1]) \cap Others = {}
        BY <3>4 DEF MixedRule
      <4>2. \A i \in DOMAIN rules[1] : rules[1][i] \in ToSet(rules[1])
        BY DEF ToSet
      <4>3. \A i \in DOMAIN rules[1] : rules[1][i] \in EntriesOf(a)
        BY <3>5, LenProperties, ElementOfSeq
      <4>4. \A i \in DOMAIN rules[1] : rules[1][i] \in EntriesOf(a) \ Others
        BY <4>1, <4>2, <4>3
      <4>5. QED
        BY <3>5, <4>4, SeqTyped
    <3>7. rules \in Seq(Seq(EntriesOf(a) \ Others))
      BY <3>3, <3>6, SeqTyped
    <3>8. (EntriesOf(a) \ Others) \cap Others = {}
      OBVIOUS
    <3>9. Of(rules, Others) = << >>
      BY <3>7, <3>8, OfNone
    <3>10. QED
      BY <3>2, <3>9
  <2>2. ASSUME NEW k PROVE Tell(w, k) = Tell(events, k)
    BY <1>3, <2>1 DEF Tell
  <2>3. QED
    BY <2>2 DEF SameTold
<1>9. MixedNone(events) => SameTold(events, RemoveRules(w))
  BY <1>5, <1>6, <1>8 DEF SameTold
<1>10. QED
  BY <1>2, <1>7, <1>9

LEMMA RemoveCodexStrips ==
    ASSUME NEW a, a # "claude", NEW events, Lists(a, events)
    PROVE  /\ Strips(a, events, RemoveCodex(events))
           /\ SameTold(events, RemoveCodex(events))
<1> DEFINE ours(k) == \E r \in DOMAIN events[k].rules : Has(events[k].rules[r])
           kept == [k \in DOMAIN events |->
                       IF events[k].array /\ ours(k) THEN List(CodexEntries(events[k].rules))
                       ELSE events[k]]
           keys == {k \in DOMAIN kept : kept[k] # events[k] /\ kept[k].rules = << >>}
<1>1. RemoveCodex(events) = Without(kept, keys)
  BY Zenon DEF RemoveCodex
<1>2. DOMAIN kept = DOMAIN events /\ \A k \in keys : kept[k].rules = << >>
  OBVIOUS
<1>3. \A k \in DOMAIN events :
          /\ events[k].array /\ ours(k) => kept[k] = List(CodexEntries(events[k].rules))
          /\ ~(events[k].array /\ ours(k)) => kept[k] = events[k]
  BY Zenon
<1> HIDE DEF kept, keys
<1>4. Seq(Seq(Others)) \subseteq Seq(Seq(EntriesOf(a)))
  <2>1. Seq(Others) \subseteq Seq(EntriesOf(a))
    BY EntriesAre, SeqMonotonic
  <2>2. QED
    BY <2>1, SeqMonotonic
<1>5. ASSUME NEW k \in DOMAIN events
      PROVE  /\ ListOf(a, kept[k]) /\ kept[k].array = events[k].array /\ Cleared(kept[k])
             /\ Of(kept[k].rules, Others) = Of(events[k].rules, Others)
  <2>1. ListOf(a, events[k])
    BY DEF Lists
  <2>2. CASE events[k].array /\ ours(k)
    <3>1. PICK w : w = CodexEntries(events[k].rules)
      OBVIOUS
    <3>2. w \in Seq(Seq(Others)) /\ Of(w, Others) = Of(events[k].rules, Others)
      BY <2>1, <3>1, CodexEntriesIs DEF ListOf
    <3>3. kept[k].array = TRUE /\ kept[k].rules = w
      BY <1>3, <2>2, <3>1, ListIs, Zenon
    <3>4. events[k].array = TRUE
      BY <2>1, <2>2 DEF ListOf
    <3>5. QED
      BY <1>4, <3>2, <3>3, <3>4 DEF ListOf, Cleared
  <2>3. CASE ~(events[k].array /\ ours(k))
    <3>1. kept[k] = events[k]
      BY <1>3, <2>3, Zenon
    <3>2. ASSUME events[k].array PROVE events[k].rules \in Seq(Seq(Others))
      <4>1. PICK rules \in Seq(Seq(EntriesOf(a))) : rules = events[k].rules
        BY <2>1 DEF ListOf
      <4>2. ASSUME NEW r \in DOMAIN rules PROVE rules[r] \in Seq(Others)
        <5>1. ~Has(rules[r]) /\ rules[r] \in Seq(EntriesOf(a))
          BY <2>3, <3>2, <4>1, LenProperties, ElementOfSeq
        <5>2. \A i \in DOMAIN rules[r] : rules[r][i] \in EntriesOf(a)
          BY <5>1, LenProperties, ElementOfSeq
        <5>3. \A i \in DOMAIN rules[r] : rules[r][i] \in Others
          BY <5>1, <5>2, EntriesAre DEF Has, NotOurs
        <5>4. QED
          BY <5>1, <5>3, SeqTyped
      <4>3. QED
        BY <4>1, <4>2, SeqTyped
    <3>3. QED
      BY <2>1, <3>1, <3>2 DEF Cleared
  <2>4. QED
    BY <2>2, <2>3
<1>6. QED
  BY <1>1, <1>2, <1>5, WithoutStrips

LEMMA CleanedClaudeStrips ==
    ASSUME NEW events, Lists("claude", events)
    PROVE  /\ Strips("claude", events, CleanedClaude(events, FALSE))
           /\ SameTold(events, CleanedClaude(events, FALSE))
<1> DEFINE kept == [k \in DOMAIN events |->
                       IF events[k].array THEN List(ClaudeEntries(events[k].rules, FALSE))
                       ELSE events[k]]
           keys == {k \in DOMAIN kept : kept[k].array /\ kept[k].rules = << >>}
<1>1. CleanedClaude(events, FALSE) = Without(kept, keys)
  BY Zenon DEF CleanedClaude
<1>2. DOMAIN kept = DOMAIN events /\ \A k \in keys : kept[k].rules = << >>
  OBVIOUS
<1>3. \A k \in DOMAIN events :
          /\ events[k].array => kept[k] = List(ClaudeEntries(events[k].rules, FALSE))
          /\ ~events[k].array => kept[k] = events[k]
  BY Zenon
<1> HIDE DEF kept, keys
<1>4. Seq(Seq(Others)) \subseteq Seq(Seq(EntriesOf("claude")))
  <2>1. Seq(Others) \subseteq Seq(EntriesOf("claude"))
    BY EntriesAre, SeqMonotonic
  <2>2. QED
    BY <2>1, SeqMonotonic
<1>5. ASSUME NEW k \in DOMAIN events
      PROVE  /\ ListOf("claude", kept[k]) /\ kept[k].array = events[k].array /\ Cleared(kept[k])
             /\ Of(kept[k].rules, Others) = Of(events[k].rules, Others)
  <2>1. ListOf("claude", events[k])
    BY DEF Lists
  <2>2. CASE events[k].array
    <3>1. PICK w : w = ClaudeEntries(events[k].rules, FALSE)
      OBVIOUS
    <3>2. w \in Seq(Seq(Others)) /\ Of(w, Others) = Of(events[k].rules, Others)
      BY <2>1, <3>1, ClaudeEntriesIs DEF ListOf
    <3>3. kept[k].array = TRUE /\ kept[k].rules = w
      BY <1>3, <2>2, <3>1, ListIs
    <3>4. events[k].array = TRUE
      BY <2>1, <2>2 DEF ListOf
    <3>5. QED
      BY <1>4, <3>2, <3>3, <3>4 DEF ListOf, Cleared
  <2>3. CASE ~events[k].array
    BY <1>3, <2>1, <2>3 DEF Cleared
  <2>4. QED
    BY <2>2, <2>3
<1>6. QED
  BY <1>1, <1>2, <1>5, WithoutStrips

\* Merging ours into what is left.
Wires(events) ==
    /\ \A k \in Wired : /\ k \in DOMAIN events /\ events[k].array
                        /\ Of(events[k].rules, Entries \ Others) = <<"ours">>
    /\ \A k \in DOMAIN events \ Wired : Cleared(events[k])

LEMMA GeneratedWires ==
    ASSUME NEW a
    PROVE  /\ Lists(a, Generated) /\ Wires(Generated) /\ ListOf(a, List(<<OurRule>>))
           /\ \A k : Tell(Generated, k) = << >>
           /\ DOMAIN Generated = Wired
           /\ \A k \in Wired : Generated[k] = List(<<OurRule>>)
<1>1. DOMAIN Generated = Wired /\ \A k \in Wired : Generated[k] = List(<<OurRule>>)
  BY DEF Generated
<1>2. <<OurRule>> \in Seq(Seq(EntriesOf(a)))
  <2>1. Seq({"ours"}) \subseteq Seq(EntriesOf(a))
    BY EntriesAre, SeqMonotonic
  <2>2. QED
    BY <2>1, OurRuleIs, SeqMonotonic
<1>3. ListOf(a, List(<<OurRule>>))
  BY <1>2, ListIs DEF ListOf
<1>4. QED
  BY <1>1, <1>3, OurRuleIs, ListIs DEF Lists, Wires, Tell

LEMMA MergeWires ==
    ASSUME NEW a, NEW events, NEW removed, NEW first \in BOOLEAN, Strips(a, events, removed)
    PROVE  /\ Lists(a, Merge(removed, first)) /\ Wires(Merge(removed, first))
           /\ SameTold(events, removed) /\ (\A k \in DOMAIN events \cap Wired : events[k].array)
                 => SameTold(events, Merge(removed, first))
<1>1. PICK m : m = Merge(removed, first)
  OBVIOUS
<1> DEFINE Joined(k) == IF first THEN <<OurRule>> \o removed[k].rules
                        ELSE removed[k].rules \o <<OurRule>>
<1>2. /\ DOMAIN m = DOMAIN removed \cup Wired
      /\ \A k \in DOMAIN m \ Wired : m[k] = removed[k]
      /\ \A k \in Wired : k \in DOMAIN removed /\ removed[k].array => m[k] = List(Joined(k))
      /\ \A k \in Wired : ~(k \in DOMAIN removed /\ removed[k].array) => m[k] = List(<<OurRule>>)
  <2>1. \A k \in Wired : Generated[k] = List(<<OurRule>>) /\ Generated[k].rules = <<OurRule>>
    BY GeneratedWires, ListIs
  <2>2. DOMAIN m = DOMAIN removed \cup Wired
    BY <1>1 DEF Merge
  <2>3. ASSUME NEW k \in DOMAIN m
        PROVE  m[k] = IF k \notin Wired THEN removed[k]
                      ELSE IF k \in DOMAIN removed /\ removed[k].array
                      THEN List(IF first THEN Generated[k].rules \o removed[k].rules
                                ELSE removed[k].rules \o Generated[k].rules)
                      ELSE Generated[k]
    BY <1>1, <2>2, <2>3, Zenon DEF Merge
  <2>4. ASSUME NEW k \in Wired, k \in DOMAIN removed, removed[k].array
        PROVE  m[k] = List(Joined(k))
    <3>1. m[k] = List(IF first THEN Generated[k].rules \o removed[k].rules
                      ELSE removed[k].rules \o Generated[k].rules)
      BY <2>2, <2>3, <2>4, Zenon
    <3>2. QED
      BY <2>1, <3>1
  <2>5. ASSUME NEW k \in Wired, ~(k \in DOMAIN removed /\ removed[k].array)
        PROVE  m[k] = List(<<OurRule>>)
    BY <2>1, <2>2, <2>3, <2>5, Zenon
  <2>6. \A k \in DOMAIN m \ Wired : m[k] = removed[k]
    BY <2>3, Zenon
  <2>7. QED
    BY <2>2, <2>4, <2>5, <2>6, Zenon
<1>3. \A k \in DOMAIN removed : /\ ListOf(a, removed[k]) /\ removed[k].array = events[k].array
                                /\ Cleared(removed[k]) /\ k \in DOMAIN events
  BY DEF Strips
<1>4. ASSUME NEW k \in Wired, k \in DOMAIN removed, removed[k].array
      PROVE  /\ Joined(k) \in Seq(Seq(EntriesOf(a)))
             /\ Of(Joined(k), Others) = Of(removed[k].rules, Others)
             /\ Of(Joined(k), Entries \ Others) = <<"ours">>
  <2>1. removed[k].rules \in Seq(Seq(EntriesOf(a))) /\ removed[k].rules \in Seq(Seq(Others))
    BY <1>3, <1>4 DEF ListOf, Cleared
  <2>2. "ours" \in EntriesOf(a)
    BY EntriesAre
  <2>3. PICK rules : rules = removed[k].rules
    OBVIOUS
  <2>4. PICK new : new = IF first THEN <<OurRule>> \o rules ELSE rules \o <<OurRule>>
    OBVIOUS
  <2>5. PICK E : E = EntriesOf(a)
    OBVIOUS
  <2>6. new \in Seq(Seq(E)) /\ Of(new, Others) = Of(rules, Others)
        /\ Of(new, Entries \ Others) = <<"ours">>
    <3>1. rules \in Seq(Seq(E)) /\ "ours" \in E /\ rules \in Seq(Seq(Others))
      BY <2>1, <2>2, <2>3, <2>5
    <3>2. OursJoined(E, rules, WithOurs(rules, first))
      BY <3>1, WithOurRule
    <3>3. QED
      BY <2>4, <3>1, <3>2 DEF OursJoined, WithOurs
  <2>7. Joined(k) = new
    BY <2>3, <2>4, Zenon
  <2>8. QED
    BY <2>3, <2>5, <2>6, <2>7
<1> HIDE DEF Joined
<1>5. \A r : List(r).array = TRUE /\ List(r).rules = r
  BY ListIs
<1>6. ListOf(a, List(<<OurRule>>))
  BY GeneratedWires
<1>7. Lists(a, m)
  <2>1. ASSUME NEW k \in DOMAIN m PROVE ListOf(a, m[k])
    <3>1. CASE k \notin Wired
      BY <1>2, <1>3, <3>1
    <3>2. CASE k \in Wired /\ k \in DOMAIN removed /\ removed[k].array
      BY <1>2, <1>4, <1>5, <3>2 DEF ListOf
    <3>3. CASE k \in Wired /\ ~(k \in DOMAIN removed /\ removed[k].array)
      BY <1>2, <1>6, <3>3
    <3>4. QED
      BY <3>1, <3>2, <3>3
  <2>2. QED
    BY <2>1 DEF Lists
<1>8. Wires(m)
  <2>1. ASSUME NEW k \in Wired
        PROVE  /\ k \in DOMAIN m /\ m[k].array
               /\ Of(m[k].rules, Entries \ Others) = <<"ours">>
    <3>1. CASE k \in DOMAIN removed /\ removed[k].array
      BY <1>2, <1>4, <1>5, <3>1
    <3>2. CASE ~(k \in DOMAIN removed /\ removed[k].array)
      BY <1>2, <1>5, <3>2, OurRuleIs
    <3>3. QED
      BY <3>1, <3>2
  <2>2. \A k \in DOMAIN m \ Wired : Cleared(m[k])
    BY <1>2, <1>3
  <2>3. QED
    BY <2>1, <2>2 DEF Wires
<1>9. ASSUME SameTold(events, removed), \A k \in DOMAIN events \cap Wired : events[k].array
      PROVE  SameTold(events, m)
  <2>1. ASSUME NEW k PROVE Tell(m, k) = Tell(removed, k)
    <3>1. CASE k \notin Wired
      BY <1>2, <3>1 DEF Tell
    <3>2. CASE k \in Wired /\ k \in DOMAIN removed
      <4>1. removed[k].array
        BY <1>3, <1>9, <3>2
      <4>2. QED
        BY <1>2, <1>4, <1>5, <3>2, <4>1 DEF Tell
    <3>3. CASE k \in Wired /\ k \notin DOMAIN removed
      BY <1>2, <1>5, <3>3, OurRuleIs DEF Tell
    <3>4. QED
      BY <3>1, <3>2, <3>3
  <2>2. QED
    BY <1>9, <2>1 DEF SameTold
<1>10. QED
  BY <1>1, <1>7, <1>8, <1>9

USE AgentsAssumption, UsersAssumption

-----------------------------------------------------------------------------
(***************************************************************************)
(* The documents: what is spliced in or taken out leaves a document, and   *)
(* an empty one holds nothing of its user's before and after.              *)
(***************************************************************************)
IsEvents(events) ==
    \A k \in DOMAIN events :
        events[k] = [array |-> events[k].array, rules |-> events[k].rules]
IsDoc(hooks, flags) == [hooks |-> hooks, flags |-> flags]

LEMMA Shape ==
    ASSUME NEW doc, DocOK(doc)
    PROVE  /\ doc = IsDoc([is |-> doc.hooks.is, events |-> doc.hooks.events], doc.flags)
           /\ IsEvents(doc.hooks.events)
  BY DEF DocOK, IsEvents, IsDoc

LEMMA ShapeOf ==
    ASSUME NEW is, NEW events, NEW flags, IsEvents(events)
    PROVE  DocOK(IsDoc([is |-> is, events |-> events], flags))
  BY DEF DocOK, IsEvents, IsDoc

LEMMA NoEvents == IsEvents(<< >>) /\ DOMAIN << >> = {}
  BY DEF IsEvents

LEMMA EmptyIsDoc == DocOK(Empty) /\ DocOK([Empty EXCEPT !.flags = {"own"}])
<1>1. \A f : DocOK(IsDoc([is |-> "none", events |-> << >>], f))
  BY NoEvents, ShapeOf, Zenon
<1>2. /\ Empty = IsDoc([is |-> "none", events |-> << >>], {})
      /\ [Empty EXCEPT !.flags = {"own"}] = IsDoc([is |-> "none", events |-> << >>], {"own"})
  <2>1. PICK n : n = NoHooks
    OBVIOUS
  <2>2. [[hooks |-> n, flags |-> {}] EXCEPT !.flags = {"own"}] = [hooks |-> n, flags |-> {"own"}]
    OBVIOUS
  <2>3. QED
    BY <2>1, <2>2, Zenon DEF Empty, NoHooks, IsDoc
<1>3. QED
  BY <1>1, <1>2

LEMMA GeneratedShape == IsEvents(Generated)
  BY DEF IsEvents, Generated, List

LEMMA WithoutShape ==
    ASSUME NEW events, NEW keys, IsEvents(events) PROVE IsEvents(Without(events, keys))
  BY DEF IsEvents, Without

LEMMA RemoveRulesShape ==
    ASSUME NEW events, IsEvents(events) PROVE IsEvents(RemoveRules(events))
<1> DEFINE kept == [k \in DOMAIN events |->
                       IF events[k].array THEN List(RulesWithout(events[k].rules))
                       ELSE events[k]]
           keys == {k \in DOMAIN kept : kept[k] # events[k] /\ kept[k].rules = << >>}
<1>1. IsEvents(kept)
  BY DEF IsEvents, List
<1>2. RemoveRules(events) = Without(kept, keys)
  BY Zenon DEF RemoveRules
<1> HIDE DEF kept, keys
<1>3. QED
  BY <1>1, <1>2, WithoutShape

LEMMA RemoveCopilotShape ==
    ASSUME NEW events, IsEvents(events) PROVE IsEvents(RemoveCopilot(events))
  BY WithoutShape, RemoveRulesShape, Zenon DEF RemoveCopilot

LEMMA RemoveCodexShape ==
    ASSUME NEW events, IsEvents(events) PROVE IsEvents(RemoveCodex(events))
<1> DEFINE ours(k) == \E r \in DOMAIN events[k].rules : Has(events[k].rules[r])
           kept == [k \in DOMAIN events |->
                       IF events[k].array /\ ours(k) THEN List(CodexEntries(events[k].rules))
                       ELSE events[k]]
           keys == {k \in DOMAIN kept : kept[k] # events[k] /\ kept[k].rules = << >>}
<1>1. RemoveCodex(events) = Without(kept, keys)
  BY Zenon DEF RemoveCodex
<1>2. IsEvents(kept)
  <2> HIDE DEF ours
  <2>1. QED
    BY DEF IsEvents, List
<1> HIDE DEF kept, keys
<1>3. QED
  BY <1>1, <1>2, WithoutShape

LEMMA CleanedClaudeShape ==
    ASSUME NEW events, NEW retiredOnly, IsEvents(events)
    PROVE  IsEvents(CleanedClaude(events, retiredOnly))
<1> DEFINE kept == [k \in DOMAIN events |->
                       IF events[k].array THEN List(ClaudeEntries(events[k].rules, retiredOnly))
                       ELSE events[k]]
           keys == {k \in DOMAIN kept : kept[k].array /\ kept[k].rules = << >>}
<1>1. CleanedClaude(events, retiredOnly) = Without(kept, keys)
  BY Zenon DEF CleanedClaude
<1>2. IsEvents(kept)
  BY DEF IsEvents, List
<1> HIDE DEF kept, keys
<1>3. QED
  BY <1>1, <1>2, WithoutShape

LEMMA RevokedShape ==
    ASSUME NEW doc, NEW removed, DocOK(doc), IsEvents(removed)
    PROVE  DocOK(Revoked(doc, removed)) /\ Revoked(doc, doc.hooks.events) = doc
<1>1. DocOK([doc EXCEPT !.hooks = NoHooks]) /\ DocOK([doc EXCEPT !.hooks = Hooks(removed)])
  BY NoEvents DEF DocOK, IsEvents, NoHooks, Hooks
<1>2. QED
  BY <1>1 DEF Revoked

LEMMA RemoveClaudeShape ==
    ASSUME NEW doc, NEW retiredOnly, DocOK(doc)
    PROVE  DocOK(RemoveClaude(doc, retiredOnly))
<1>1. IsEvents(CleanedClaude(doc.hooks.events, retiredOnly))
  BY Shape, CleanedClaudeShape
<1>2. RemoveClaude(doc, retiredOnly) = Revoked(doc, CleanedClaude(doc.hooks.events, retiredOnly))
  BY Zenon DEF RemoveClaude, Revoked
<1>3. QED
  BY <1>1, <1>2, RevokedShape

LEMMA MergeIntoShape ==
    ASSUME NEW doc, NEW removed, NEW first, DocOK(doc), IsEvents(removed)
    PROVE  /\ DocOK(MergeInto(doc, removed, first))
           /\ MergeInto(doc, removed, first).flags = doc.flags
<1>1. IsEvents(Merge(removed, first))
  <2>1. \A k \in Wired : Generated[k] = [array |-> TRUE, rules |-> <<OurRule>>]
    BY DEF Generated, List
  <2>2. ASSUME NEW k \in DOMAIN removed \cup Wired
        PROVE  Merge(removed, first)[k] = [array |-> Merge(removed, first)[k].array,
                                           rules |-> Merge(removed, first)[k].rules]
    <3>1. PICK v : v = IF first THEN Generated[k].rules \o removed[k].rules
                       ELSE removed[k].rules \o Generated[k].rules
      OBVIOUS
    <3>2. Merge(removed, first)[k] = IF k \notin Wired THEN removed[k]
                                     ELSE IF k \in DOMAIN removed /\ removed[k].array
                                     THEN [array |-> TRUE, rules |-> v] ELSE Generated[k]
      BY <3>1, Zenon DEF Merge, List
    <3> HIDE DEF Merge
    <3>3. k \notin Wired => removed[k] = [array |-> removed[k].array, rules |-> removed[k].rules]
      BY DEF IsEvents
    <3>4. PICK m : m = Merge(removed, first)[k]
      OBVIOUS
    <3>5. m = [array |-> m.array, rules |-> m.rules]
      <4>1. CASE k \notin Wired
        BY <3>2, <3>3, <3>4, <4>1
      <4>2. CASE k \in Wired
        <5>1. m = [array |-> TRUE, rules |-> v] \/ m = Generated[k]
          BY <3>2, <3>4, <4>2, Zenon
        <5>2. m = [array |-> TRUE, rules |-> v] \/ m = [array |-> TRUE, rules |-> <<OurRule>>]
          BY <2>1, <4>2, <5>1
        <5>3. QED
          BY <5>2
      <4>3. QED
        BY <4>1, <4>2
    <3>6. QED
      BY <3>4, <3>5
  <2>3. DOMAIN Merge(removed, first) = DOMAIN removed \cup Wired
    BY DEF Merge
  <2>4. QED
    BY <2>2, <2>3, Zenon DEF IsEvents
<1>2. PICK e : e = IF doc.hooks.is = "object" THEN Merge(removed, first) ELSE Generated
  OBVIOUS
<1>3. IsEvents(e) /\ MergeInto(doc, removed, first) = [doc EXCEPT !.hooks = Hooks(e)]
  BY <1>1, <1>2, GeneratedShape, Zenon DEF MergeInto
<1>4. QED
  BY <1>3 DEF DocOK, IsEvents, Hooks

LEMMA ApplyShape ==
    ASSUME NEW a \in AllAgents \ {"opencode"}, NEW doc, NEW auto, DocOK(doc)
    PROVE  DocOK(Apply(a, doc, auto))
<1>1. IsEvents(doc.hooks.events)
  BY Shape
<1>2. \A removed, first : IsEvents(removed) => DocOK(MergeInto(doc, removed, first))
  BY MergeIntoShape, Zenon
<1>3. \A d, f : DocOK(d) => DocOK([d EXCEPT !.flags = f])
  BY DEF DocOK
<1>4. /\ DocOK([doc EXCEPT !.hooks = Hooks(Generated)])
      /\ \A f : DocOK([hooks |-> Hooks(Generated), flags |-> f])
  BY GeneratedShape DEF DocOK, IsEvents, Hooks
<1>5. DocOK(ApplyAntigravity(doc)) /\ DocOK(ApplyGemini(doc))
  BY <1>4, Zenon DEF ApplyAntigravity, ApplyGemini
<1>6. DocOK(ApplyCursor(doc)) /\ DocOK(ApplyVscode(doc))
  BY <1>4, Zenon DEF ApplyCursor, ApplyVscode
<1>7. DocOK(ApplyOpenhands(doc)) /\ DocOK(ApplyCodex(doc))
  BY <1>1, <1>2, RemoveRulesShape, RemoveCodexShape, Zenon DEF ApplyOpenhands, ApplyCodex
<1>8. DocOK(ApplyClaude(doc))
  <2>1. IsEvents(RemoveClaude(doc, FALSE).hooks.events)
    BY RemoveClaudeShape, Shape, Zenon
  <2>2. QED
    BY <1>2, <2>1, Zenon DEF ApplyClaude
<1>9. DocOK(ApplyCopilot(doc))
  <2>1. PICK m : m = MergeInto(doc, RemoveCopilot(doc.hooks.events), TRUE)
    OBVIOUS
  <2>2. DocOK(m)
    BY <1>1, <1>2, <2>1, RemoveCopilotShape, Zenon
  <2>3. DocOK([m EXCEPT !.flags = (@ \ {"enabled"}) \cup {"version"}
                                  \cup (IF "disabled" \in @ THEN {} ELSE {"enabled"})])
    BY <1>3, <2>2, Zenon
  <2>4. QED
    BY <2>1, <2>3, Zenon DEF ApplyCopilot
<1>10. DocOK(ApplyHermes(doc, auto))
  <2>1. PICK m : m = MergeInto(doc, RemoveHermes(doc.hooks.events), TRUE)
    OBVIOUS
  <2>2. DocOK(m)
    BY <1>1, <1>2, <2>1, RemoveRulesShape, Zenon DEF RemoveHermes
  <2>3. DocOK([m EXCEPT !.flags =
                   IF ~auto THEN @
                   ELSE @ \cup {"autoAccept"}
                          \cup (IF "autoAccept" \in @ THEN {} ELSE {"autoManaged"})])
    BY <1>3, <2>2, Zenon
  <2>4. QED
    BY <2>1, <2>3, Zenon DEF ApplyHermes
<1>11. QED
  BY <1>5, <1>6, <1>7, <1>8, <1>9, <1>10 DEF Apply, AllAgents

LEMMA RevokeShape ==
    ASSUME NEW a \in AllAgents \ {"opencode"}, NEW doc, DocOK(doc)
    PROVE  DocOK(Revoke(a, doc))
<1>0. \A d, f : DocOK(d) => DocOK([d EXCEPT !.flags = f])
  BY DEF DocOK
<1>1. IsEvents(doc.hooks.events)
  BY Shape
<1>2. \A removed : IsEvents(removed) => DocOK(Revoked(doc, removed))
  BY RevokedShape, Zenon
<1>3. DocOK([doc EXCEPT !.hooks = NoHooks])
  BY NoEvents DEF DocOK, IsEvents, NoHooks
<1>4. DocOK(RevokeAntigravity(doc)) /\ DocOK(RevokeCursor(doc)) /\ DocOK(RevokeGemini(doc))
  BY <1>3, Zenon DEF RevokeAntigravity, RevokeCursor, RevokeGemini
<1>5. DocOK(RevokeVscode(doc)) /\ DocOK(RemoveClaude(doc, FALSE))
  BY EmptyIsDoc, RemoveClaudeShape, Zenon DEF RevokeVscode
<1>6. DocOK(RevokeOpenhands(doc)) /\ DocOK(RevokeCodex(doc)) /\ DocOK(RevokeCopilot(doc))
  BY <1>1, <1>2, RemoveRulesShape, RemoveCodexShape, RemoveCopilotShape, Zenon
     DEF RevokeOpenhands, RevokeCodex, RevokeCopilot
<1>7. DocOK(RevokeHermes(doc))
  <2>1. PICK m : m = Revoked(doc, RemoveHermes(doc.hooks.events))
    OBVIOUS
  <2>2. DocOK(m)
    BY <1>1, <1>2, <2>1, RemoveRulesShape, Zenon DEF RemoveHermes
  <2>3. DocOK([m EXCEPT !.flags = @ \ (IF "autoManaged" \in @
                                       THEN {"autoManaged", "autoAccept"} ELSE {})])
    BY <1>0, <2>2, Zenon
  <2>4. QED
    BY <2>1, <2>2, <2>3, Zenon DEF RevokeHermes
<1>8. QED
  BY <1>4, <1>5, <1>6, <1>7 DEF Revoke, AllAgents

LEMMA RevokeEmpty ==
    ASSUME NEW a \in AllAgents \ {"opencode"} PROVE Revoke(a, Empty) = Empty
<1>1. Empty.hooks.is # "object" /\ [Empty EXCEPT !.hooks = NoHooks] = Empty
  BY DEF Empty, NoHooks
<1>2. /\ RevokeAntigravity(Empty) = Empty /\ RevokeCursor(Empty) = Empty
      /\ RevokeGemini(Empty) = Empty /\ RevokeVscode(Empty) = Empty
  BY <1>1, Zenon DEF RevokeAntigravity, RevokeCursor, RevokeGemini, RevokeVscode
<1>3. RemoveClaude(Empty, FALSE) = Empty
  BY <1>1, Zenon DEF RemoveClaude
<1>4. \A removed : Revoked(Empty, removed) = Empty
  BY <1>1, Zenon DEF Revoked
<1>5. /\ RevokeOpenhands(Empty) = Empty /\ RevokeCodex(Empty) = Empty
      /\ RevokeCopilot(Empty) = Empty /\ RevokeHermes(Empty) = Empty
  BY <1>4, Zenon DEF RevokeOpenhands, RevokeCodex, RevokeCopilot, RevokeHermes
<1>6. QED
  BY <1>2, <1>3, <1>5 DEF Revoke, AllAgents

-----------------------------------------------------------------------------
(***************************************************************************)
(* What a document holds of its user's.                                    *)
(***************************************************************************)
PlacedIn(rules) ==
    {<<p, rules[p[1]][p[2]]>> : p \in {q \in Places(rules) : rules[q[1]][q[2]] \in Others}}
PlacedAt(events) ==
    [k \in Wired \cup OtherEvents |->
        IF k \notin DOMAIN events THEN {} ELSE PlacedIn(events[k].rules)]

LEMMA PlacedIs ==
    ASSUME NEW doc
    PROVE  Placed(doc) = [flags |-> UserFlags(doc), hooks |-> PlacedAt(doc.hooks.events)]
  BY Zenon DEF Placed, PlacedAt, PlacedIn

LEMMA PlacedEmpty ==
    Placed(Empty) = [flags |-> {}, hooks |-> [k \in Wired \cup OtherEvents |-> {}]]
<1>1. UserFlags(Empty) = {} /\ Empty.hooks.events = << >>
  BY DEF UserFlags, Empty, NoHooks
<1>2. PlacedAt(<< >>) = [k \in Wired \cup OtherEvents |-> {}]
  BY NoEvents, Zenon DEF PlacedAt
<1>3. QED
  BY <1>1, <1>2, PlacedIs, Zenon

\* Generated rules hold entries of ours alone.
LEMMA PlacedGenerated ==
    ASSUME NEW doc, UserFlags(doc) = {}, doc.hooks.events = Generated
    PROVE  Placed(doc) = Placed(Empty)
<1>1. Places(<<OurRule>>) = {<<1, 1>>}
  <2>1. DOMAIN <<OurRule>> = {1} /\ <<OurRule>>[1] = OurRule /\ DOMAIN OurRule = {1}
    BY DEF OurRule
  <2>2. PICK o : o = <<OurRule>>
    OBVIOUS
  <2>3. Places(o) = {<<1, 1>>}
    BY <2>1, <2>2 DEF Places
  <2>4. QED
    BY <2>2, <2>3
<1>2. <<OurRule>>[1][1] = "ours" /\ "ours" \notin Others
  BY DEF OurRule, Others
<1>3. PlacedIn(<<OurRule>>) = {}
  <2>1. \A q \in Places(<<OurRule>>) : <<OurRule>>[q[1]][q[2]] \notin Others
    BY <1>1, <1>2
  <2>2. QED
    BY <2>1, Zenon DEF PlacedIn
<1>4. PlacedAt(Generated) = [k \in Wired \cup OtherEvents |-> {}]
  <2>1. ASSUME NEW k \in Wired \cup OtherEvents, k \in DOMAIN Generated
        PROVE  Generated[k].rules = <<OurRule>>
    BY <2>1 DEF Generated, List
  <2>2. \A k \in Wired \cup OtherEvents :
            (IF k \notin DOMAIN Generated THEN {} ELSE PlacedIn(Generated[k].rules)) = {}
    BY <1>3, <2>1, Zenon
  <2> HIDE DEF Generated
  <2>3. QED
    BY <2>2, Zenon DEF PlacedAt
<1>5. QED
  BY <1>4, PlacedIs, PlacedEmpty, Zenon

LEMMA ApplyEmpty ==
    ASSUME NEW a \in AllAgents \ {"opencode"}, NEW auto
    PROVE  Placed(Apply(a, Empty, auto)) = Placed(Empty)
<1> DEFINE Fresh(f) == [hooks |-> Hooks(Generated), flags |-> f]
           Flags == {{}, {"version"}, {"version", "enabled"}, {"autoAccept", "autoManaged"}}
<1>1. ASSUME NEW f \in Flags PROVE Placed(Fresh(f)) = Placed(Empty)
  <2>1. Fresh(f).hooks.events = Generated /\ UserFlags(Fresh(f)) = {}
    BY DEF Hooks, UserFlags
  <2> HIDE DEF Fresh
  <2>2. QED
    BY <2>1, PlacedGenerated, Zenon
<1>2. Fresh({}) = [Empty EXCEPT !.hooks = Hooks(Generated)]
  <2>1. PICK h : h = Hooks(Generated)
    OBVIOUS
  <2>2. PICK n : n = NoHooks
    OBVIOUS
  <2>3. [[hooks |-> n, flags |-> {}] EXCEPT !.hooks = h] = [hooks |-> h, flags |-> {}]
    OBVIOUS
  <2>4. QED
    BY <2>1, <2>2, <2>3, Zenon DEF Empty
<1>3. Empty.flags = {} /\ Empty.hooks.is # "object"
  BY DEF Empty, NoHooks
<1>4. \A f, g : [Fresh(f) EXCEPT !.flags = g] = Fresh(g)
  OBVIOUS
<1>5. \A f : Fresh(f).flags = f
  OBVIOUS
<1>6. \A removed, first : MergeInto(Empty, removed, first) = Fresh({})
  BY <1>2, <1>3, Zenon DEF MergeInto
<1> HIDE DEF Fresh
<1>7. ApplyAntigravity(Empty) = Fresh({}) /\ ApplyGemini(Empty) = Fresh({})
  BY <1>2, Zenon DEF ApplyAntigravity, ApplyGemini
<1>8. ApplyVscode(Empty) = Fresh({}) /\ ApplyCursor(Empty) = Fresh({"version"})
  <2>1. {} \cup {"version"} = {"version"}
    OBVIOUS
  <2>2. QED
    BY <1>3, <2>1, Zenon DEF ApplyVscode, ApplyCursor, Fresh
<1>9. /\ ApplyOpenhands(Empty) = Fresh({}) /\ ApplyCodex(Empty) = Fresh({})
      /\ ApplyClaude(Empty) = Fresh({})
  BY <1>6, Zenon DEF ApplyOpenhands, ApplyCodex, ApplyClaude
<1>10. ApplyCopilot(Empty) = Fresh({"version", "enabled"})
  <2>1. ({} \ {"enabled"}) \cup {"version"} \cup (IF "disabled" \in {} THEN {} ELSE {"enabled"})
            = {"version", "enabled"}
    OBVIOUS
  <2>2. ApplyCopilot(Empty) =
            [Fresh({}) EXCEPT !.flags = (@ \ {"enabled"}) \cup {"version"}
                                        \cup (IF "disabled" \in @ THEN {} ELSE {"enabled"})]
    BY <1>6, Zenon DEF ApplyCopilot
  <2>3. QED
    BY <1>4, <1>5, <2>1, <2>2, Zenon
<1>11. ApplyHermes(Empty, auto) \in {Fresh({}), Fresh({"autoAccept", "autoManaged"})}
  <2>1. {} \cup {"autoAccept"} \cup (IF "autoAccept" \in {} THEN {} ELSE {"autoManaged"})
            = {"autoAccept", "autoManaged"}
    OBVIOUS
  <2>2. PICK f : f = IF ~auto THEN {}
                     ELSE {} \cup {"autoAccept"}
                             \cup (IF "autoAccept" \in {} THEN {} ELSE {"autoManaged"})
    OBVIOUS
  <2>3. ApplyHermes(Empty, auto) =
            [Fresh({}) EXCEPT !.flags =
                IF ~auto THEN @
                ELSE @ \cup {"autoAccept"}
                       \cup (IF "autoAccept" \in @ THEN {} ELSE {"autoManaged"})]
    BY <1>6, Zenon DEF ApplyHermes
  <2>4. ApplyHermes(Empty, auto) = Fresh(f)
    BY <1>4, <1>5, <2>2, <2>3, Zenon
  <2>5. f \in {{}, {"autoAccept", "autoManaged"}}
    BY <2>1, <2>2, Zenon
  <2>6. QED
    BY <2>4, <2>5, Zenon
<1>12. \E f \in Flags : Apply(a, Empty, auto) = Fresh(f)
  BY <1>7, <1>8, <1>9, <1>10, <1>11 DEF Apply, AllAgents
<1>13. QED
  BY <1>1, <1>12

LEMMA WithoutLegacyKeeps ==
    ASSUME NEW doc, DocOK(doc)
    PROVE  DocOK(WithoutLegacy(doc)) /\ Placed(WithoutLegacy(doc)) = Placed(doc)
<1>1. PICK d : d = WithoutLegacy(doc)
  OBVIOUS
<1>2. DocOK(d) /\ d.hooks = doc.hooks /\ d.flags = doc.flags \ {"legacy"}
  <2>1. \A f : /\ DocOK([doc EXCEPT !.flags = f])
               /\ [doc EXCEPT !.flags = f].hooks = doc.hooks
               /\ [doc EXCEPT !.flags = f].flags = f
    BY DEF DocOK
  <2>2. d = [doc EXCEPT !.flags = doc.flags \ {"legacy"}]
    BY <1>1, Zenon DEF WithoutLegacy
  <2>3. QED
    BY <2>1, <2>2, Zenon
<1>3. UserFlags(d) = UserFlags(doc)
  BY <1>2 DEF UserFlags
<1>4. QED
  BY <1>1, <1>2, <1>3, PlacedIs, Zenon

\* Entries that age are ours, and they keep their places.
LEMMA AgedKeeps ==
    ASSUME NEW doc, DocOK(doc), NEW to \in {"stale", "retired"}
    PROVE  DocOK(Aged(doc, to)) /\ Placed(Aged(doc, to)) = Placed(doc)
<1> DEFINE Old(rules) == [r \in DOMAIN rules |-> [i \in DOMAIN rules[r] |->
                             IF rules[r][i] = "ours" THEN to ELSE rules[r][i]]]
           old == [k \in DOMAIN doc.hooks.events |->
                      [array |-> doc.hooks.events[k].array,
                       rules |-> Old(doc.hooks.events[k].rules)]]
<1>1. "ours" \notin Others /\ to \notin Others
  BY DEF Others
<1>2. ASSUME NEW rules PROVE PlacedIn(Old(rules)) = PlacedIn(rules)
  <2>1. /\ DOMAIN Old(rules) = DOMAIN rules
        /\ \A r \in DOMAIN rules : DOMAIN Old(rules)[r] = DOMAIN rules[r]
        /\ \A r \in DOMAIN rules : \A i \in DOMAIN rules[r] :
               Old(rules)[r][i] = IF rules[r][i] = "ours" THEN to ELSE rules[r][i]
    OBVIOUS
  <2> HIDE DEF Old
  <2>2. Places(Old(rules)) = Places(rules)
    BY <2>1 DEF Places
  <2>3. ASSUME NEW q \in Places(rules)
        PROVE  /\ Old(rules)[q[1]][q[2]] \in Others <=> rules[q[1]][q[2]] \in Others
               /\ rules[q[1]][q[2]] \in Others =>
                      Old(rules)[q[1]][q[2]] = rules[q[1]][q[2]]
    <3>1. q[1] \in DOMAIN rules /\ q[2] \in DOMAIN rules[q[1]]
      BY DEF Places
    <3>2. QED
      BY <1>1, <2>1, <3>1
  <2>4. QED
    BY <2>2, <2>3 DEF PlacedIn
<1>3. Aged(doc, to) = IsDoc([is |-> doc.hooks.is, events |-> old], doc.flags)
  <2>1. PICK n : n = [k \in DOMAIN doc.hooks.events |->
                         [doc.hooks.events[k] EXCEPT !.rules = Old(doc.hooks.events[k].rules)]]
    OBVIOUS
  <2>2. Aged(doc, to) = [doc EXCEPT !.hooks.events = n]
    BY <2>1, Zenon DEF Aged
  <2> HIDE DEF Old
  <2>3. n = old
    <3>1. \A v, x : v = [array |-> v.array, rules |-> v.rules] =>
                       [v EXCEPT !.rules = x] = [array |-> v.array, rules |-> x]
      OBVIOUS
    <3>2. \A k \in DOMAIN doc.hooks.events :
              [doc.hooks.events[k] EXCEPT !.rules = Old(doc.hooks.events[k].rules)]
                  = [array |-> doc.hooks.events[k].array, rules |-> Old(doc.hooks.events[k].rules)]
      BY <3>1, Zenon DEF DocOK
    <3>3. QED
      BY <2>1, <3>2
  <2> HIDE DEF old
  <2>4. [doc EXCEPT !.hooks.events = n]
            = IsDoc([is |-> doc.hooks.is, events |-> n], doc.flags)
    BY DEF DocOK, IsDoc
  <2>5. QED
    BY <2>2, <2>3, <2>4, Zenon
<1> HIDE DEF Old
<1>4. IsEvents(old)
  BY DEF IsEvents
<1>5. PlacedAt(old) = PlacedAt(doc.hooks.events)
  <2>1. /\ DOMAIN old = DOMAIN doc.hooks.events
        /\ \A k \in DOMAIN old : old[k].rules = Old(doc.hooks.events[k].rules)
    OBVIOUS
  <2> HIDE DEF old
  <2>2. \A k \in DOMAIN old : PlacedIn(old[k].rules) = PlacedIn(doc.hooks.events[k].rules)
    BY <1>2, <2>1, Zenon
  <2>3. \A k : (IF k \notin DOMAIN old THEN {} ELSE PlacedIn(old[k].rules))
                 = (IF k \notin DOMAIN doc.hooks.events THEN {}
                    ELSE PlacedIn(doc.hooks.events[k].rules))
    BY <2>1, <2>2, Zenon
  <2>4. QED
    BY <2>3, Zenon DEF PlacedAt
<1> HIDE DEF old
<1>6. PICK d : d = Aged(doc, to)
  OBVIOUS
<1>7. DocOK(d)
  BY <1>3, <1>4, <1>6, ShapeOf, Zenon
<1>8. d.hooks.events = old /\ d.flags = doc.flags
  BY <1>3, <1>6 DEF IsDoc
<1>9. UserFlags(d) = UserFlags(doc)
  BY <1>8, Zenon DEF UserFlags
<1>10. QED
  BY <1>5, <1>6, <1>7, <1>8, <1>9, PlacedIs, Zenon

\* What an edit leaves is a document.
LEMMA EditedShape ==
    ASSUME NEW doc, NEW k, NEW d \in Edited(doc, k), DocOK(doc) PROVE DocOK(d)
<1> DEFINE events == doc.hooks.events
           put(rules) == [doc EXCEPT !.hooks =
               Hooks([e \in DOMAIN events \cup {k} |->
                         IF e = k THEN List(rules) ELSE events[e]])]
<1>1. ASSUME NEW rules PROVE DocOK(put(rules))
  <2>1. PICK v : v = [e \in DOMAIN events \cup {k} |->
                         IF e = k THEN List(rules) ELSE events[e]]
    OBVIOUS
  <2>2. IsEvents(v)
    BY <2>1, Shape DEF IsEvents, List
  <2>3. DocOK([doc EXCEPT !.hooks = Hooks(v)])
    BY <2>2 DEF DocOK, IsEvents, Hooks
  <2>4. QED
    BY <2>1, <2>3, Zenon
<1>2. \E rules : d = put(rules)
  <2> HIDE DEF put
  <2>1. PICK rules : rules = IF k \in DOMAIN events /\ events[k].array THEN events[k].rules
                             ELSE << >>
    OBVIOUS
  <2>2. Edited(doc, k) = {put(<< <<"t2">> >> \o rules)}
            \cup (IF rules = << >> THEN {}
                  ELSE {put(rules \o <<rules[1]>>),
                        put(<<Append(rules[1], "t2")>> \o Tail(rules))})
    BY <2>1, Zenon DEF Edited, put
  <2>3. QED
    BY <2>2
<1>3. QED
  BY <1>1, <1>2, Zenon

-----------------------------------------------------------------------------
(***************************************************************************)
(* The shape of the state.  The files hold documents, of which an absent   *)
(* file's is the empty one, and each task is one that its place is for.    *)
(***************************************************************************)
Settings == {"main", "managed", "around"}

FileOK(f) ==
    /\ f = [is |-> f.is, doc |-> f.doc, link |-> f.link]
    /\ DocOK(f.doc)
    /\ f.is = "absent" => f.doc = Empty
FilesOK(fs) == fs = [l \in Locs |-> fs[l]] /\ \A l \in Locs : FileOK(fs[l])
FilesInv == FilesOK(files) /\ DocOK(mem)

Whats == {"install", "dedupe", "revoke", "reconcile", "register", "deregister",
          "enable", "enlist", "delist", "legacy", "persist", "unplug"}
Tasks(a) ==
    {t \in [loc : Locs, what : Whats] :
        /\ t.what \in {"install", "dedupe", "revoke", "reconcile"} => a # "opencode"
        /\ t.loc \in Settings =>
               t.what \in {"install", "dedupe", "revoke", "reconcile", "legacy", "persist"}
        /\ t.what \in {"legacy", "persist"} => t.loc = "main"}
TasksInv ==
    /\ agent \in AllAgents
    /\ backups = [l \in Locs |-> backups[l]] /\ left = [l \in Locs |-> left[l]]
    /\ todo \in Seq(Tasks(agent))
    /\ pc # "idle" => todo # << >>
    /\ pc = "plugin" => Now.what = "legacy"
    /\ pc = "persist" => Now.what \in {"legacy", "persist"}

LEMMA TasksGiven ==
    ASSUME agent \in AllAgents
    PROVE  InstallTasks \in Seq(Tasks(agent)) /\ UninstallTasks \in Seq(Tasks(agent))
<1>1. ASSUME NEW loc, NEW what, [loc |-> loc, what |-> what] \in Tasks(agent)
      PROVE  Task(loc, what) \in Seq(Tasks(agent))
  BY <1>1 DEF Task
<1>2. \A c, s : s \in Seq(Tasks(agent)) => Maybe(c, s) \in Seq(Tasks(agent))
  BY DEF Maybe
<1>3. \A s, t \in Seq(Tasks(agent)) : s \o t \in Seq(Tasks(agent))
  BY ConcatProperties
<1>4. /\ agent = "opencode" =>
            /\ Task("main", "legacy") \in Seq(Tasks(agent))
            /\ Task("plugin", "unplug") \in Seq(Tasks(agent))
            /\ Task("main", "persist") \in Seq(Tasks(agent))
      /\ \A loc \in Settings, what \in {"install", "dedupe", "revoke", "reconcile"} :
            agent # "opencode" => Task(loc, what) \in Seq(Tasks(agent))
      /\ \A loc \in {"side", "market"},
            what \in {"register", "deregister", "enable", "enlist", "delist"} :
            Task(loc, what) \in Seq(Tasks(agent))
  BY <1>1 DEF Tasks, Whats, Locs, Settings
<1>5. InstallTasks \in Seq(Tasks(agent))
  <2>1. PICK w \in {"install", "dedupe"} : w = IF Deduped THEN "dedupe" ELSE "install"
    BY Zenon
  <2>2. CASE agent # "opencode"
    <3>1. /\ Task("main", w) \in Seq(Tasks(agent))
          /\ Maybe(agent = "claude" /\ opts.elevated, Task("managed", "reconcile"))
                \in Seq(Tasks(agent))
          /\ Maybe(agent = "vscode" /\ opts.user, Task("side", "register")) \in Seq(Tasks(agent))
          /\ Task("side", "enable") \in Seq(Tasks(agent))
          /\ Task("market", "enlist") \in Seq(Tasks(agent))
      BY <1>2, <1>4, <2>1, <2>2 DEF Settings
    <3>2. Maybe(agent = "codex", Task("side", "enable") \o Task("market", "enlist"))
             \in Seq(Tasks(agent))
      BY <1>2, <1>3, <3>1, Zenon
    <3>3. QED
      BY <1>3, <2>1, <2>2, <3>1, <3>2, Zenon DEF InstallTasks
  <2>3. QED
    BY <1>4, <2>2, Zenon DEF InstallTasks
<1>6. UninstallTasks \in Seq(Tasks(agent))
  <2>1. CASE agent # "opencode"
    <3>1. /\ Task("main", "reconcile") \in Seq(Tasks(agent))
          /\ Task("around", "reconcile") \in Seq(Tasks(agent))
          /\ Task("managed", "reconcile") \in Seq(Tasks(agent))
          /\ Task("main", "revoke") \in Seq(Tasks(agent))
          /\ Maybe(agent = "vscode" /\ opts.user, Task("side", "deregister"))
                \in Seq(Tasks(agent))
          /\ Maybe(agent = "codex", Task("market", "delist")) \in Seq(Tasks(agent))
      BY <1>2, <1>4, <2>1 DEF Settings
    <3>2. /\ Task("main", "reconcile") \o Task("around", "reconcile")
                \o Task("managed", "reconcile") \in Seq(Tasks(agent))
          /\ Task("main", "revoke")
                \o Maybe(agent = "vscode" /\ opts.user, Task("side", "deregister"))
                \o Maybe(agent = "codex", Task("market", "delist")) \in Seq(Tasks(agent))
      BY <1>3, <3>1, Zenon
    <3>3. QED
      BY <2>1, <3>2, Zenon DEF UninstallTasks
  <2>2. QED
    BY <1>3, <1>4, <2>1, Zenon DEF UninstallTasks
<1>7. QED
  BY <1>5, <1>6

\* A run, or its next task, begins.
LEMMA Begins ==
    ASSUME NEW a, NEW tasks \in Seq(Tasks(a))
    PROVE  /\ FirstPc(tasks) \in {"idle", "backup", "read"}
           /\ FirstPc(tasks) # "idle" => tasks # << >>
           /\ FirstPc(tasks) = "read" => ~BacksUpFirst(Head(tasks).what)
           /\ tasks # << >> => /\ Head(tasks) \in Tasks(a) /\ Tail(tasks) \in Seq(Tasks(a))
  BY HeadTailProperties DEF FirstPc

LEMMA HoldsOK ==
    ASSUME FilesOK(files), NEW l \in Locs, NEW is, NEW doc, DocOK(doc),
           is = "absent" => doc = Empty, Holds(l, is, doc)
    PROVE  /\ FilesOK(files)'
           /\ files'[l].is = is /\ files'[l].doc = doc
           /\ \A m \in Locs : m # l => files'[m] = files[m]
<1>1. \A f \in {files} : /\ f = [m \in Locs |-> f[m]]
                         /\ f[l] = [is |-> f[l].is, doc |-> f[l].doc, link |-> f[l].link]
                         /\ \A m \in Locs : FileOK(f[m])
  BY Zenon DEF FilesOK, FileOK
<1>2. PICK g : g = [is |-> is, doc |-> doc, link |-> files[l].link]
  OBVIOUS
<1>3. g.is = is /\ g.doc = doc /\ FileOK(g)
  BY <1>2 DEF FileOK
<1>4. files' = [m \in Locs |-> IF m = l THEN g ELSE files[m]]
  <2>1. files' = [files EXCEPT ![l].is = is, ![l].doc = doc]
    BY DEF Holds
  <2>2. DOMAIN files = Locs
    BY <1>1, Zenon
  <2>3. DOMAIN files' = Locs
    BY <2>1, <2>2
  <2>4. \A m \in Locs : m # l => files'[m] = files[m]
    BY <2>1, <2>2
  <2>5. files'[l] = [[files[l] EXCEPT !.is = is] EXCEPT !.doc = doc]
    BY <2>1, <2>2
  <2>6. files'[l] = g
    BY <1>1, <1>2, <2>5
  <2>7. files' = [m \in Locs |-> files'[m]]
    BY <2>1, <2>2, <2>3
  <2>8. QED
    BY <2>4, <2>6, <2>7
<1>5. files'[l] = g /\ (\A m \in Locs : m # l => files'[m] = files[m])
      /\ files' = [m \in Locs |-> files'[m]]
  BY <1>4
<1>6. \A m \in Locs : FileOK(files'[m])
  BY <1>1, <1>3, <1>5, Zenon
<1>7. FilesOK(files')
  BY <1>5, <1>6, Zenon DEF FilesOK
<1>8. QED
  BY <1>3, <1>5, <1>7, Zenon DEF FilesOK, FileOK

\* The ways in which a run may go on.
Turn == todo' = Tail(todo) /\ pc' = FirstPc(Tail(todo)) /\ mem' = Empty
Ends == todo' = << >> /\ pc' = "idle" /\ mem' = Empty
Begin ==
    \E tasks \in {InstallTasks, UninstallTasks} :
        todo' = tasks /\ pc' = FirstPc(tasks) /\ mem' = mem
Stays ==
    /\ todo' = todo /\ mem' = mem
    /\ pc' = pc \/ (pc # "idle" /\ pc' \in {"read", "truncate", "write"})
Loads ==
    /\ pc = "read" /\ Now.what # "unplug" /\ Reads(File) /\ Writes(File.doc)
    /\ todo' = todo /\ pc' = AfterRead /\ mem' = Spliced(File.doc)
Plugs == pc = "plugin" /\ pc' = "persist" /\ todo' = todo /\ mem' = mem

LEMMA Fails == ASSUME FailTask PROVE Turn \/ Ends
  BY Zenon DEF FailTask, NextTask, Stop, Turn, Ends

LEMMA ReadFlow ==
    ASSUME Read PROVE (Turn \/ Ends \/ Loads) /\ UNCHANGED <<agent, files, backups, left>>
<1>1. Done => Turn
  BY Zenon DEF Done, NextTask, Turn
<1>2. FailTask \/ Done \/ Loads
  BY Zenon DEF Read, Loads
<1>3. UNCHANGED <<agent, files, backups, left>>
  BY DEF Read, Still
<1>4. QED
  BY <1>1, <1>2, <1>3, Fails, Zenon

LEMMA Flow ==
    ASSUME [Next]_vars
    PROVE  /\ agent' = agent
           /\ (Turn /\ pc # "idle") \/ Ends \/ Begin \/ Stays \/ Loads \/ Plugs
<1>1. CASE Install
  BY <1>1, Zenon DEF Install, Start, Begin
<1>2. CASE Uninstall
  BY <1>2, Zenon DEF Uninstall, Start, Begin
<1>3. CASE InstallRefused
  BY <1>3, Zenon DEF InstallRefused, Stays
<1>4. CASE BackupFirst
  BY <1>4 DEF BackupFirst, Still, Stays
<1>5. CASE Read
  BY <1>5, ReadFlow DEF Read
<1>6. CASE BackupLast
  BY <1>6 DEF BackupLast, Still, Stays
<1>7. CASE Delete
  BY <1>7 DEF Delete, NextTask, Still, Turn
<1>8. CASE Truncate
  BY <1>8 DEF Truncate, Still, Stays
<1>9. CASE Write
  BY <1>9 DEF Write, NextTask, Still, Turn
<1>10. CASE WritePlugin
  BY <1>10 DEF WritePlugin, Still, Plugs
<1>11. CASE Persist
  BY <1>11 DEF Persist, NextTask, Still, Turn
<1>12. CASE RemovePlugin
  BY <1>12 DEF RemovePlugin, NextTask, Still, Turn
<1>13. CASE Dies
  BY <1>13 DEF Dies, Stop, Ends
<1>14. CASE Edit
  BY <1>14 DEF Edit, run, Stays
<1>15. CASE BinaryMoves
  BY <1>15 DEF BinaryMoves, run, Stays
<1>16. CASE UNCHANGED vars
  BY <1>16 DEF vars, run, Stays
<1>17. CASE TaskFails
  <2>1. pc # "idle" /\ FailTask /\ agent' = agent
    BY <1>17 DEF TaskFails
  <2>2. QED
    BY <2>1, Fails, Zenon
<1>18. QED
  BY <1>1, <1>2, <1>3, <1>4, <1>5, <1>6, <1>7, <1>8, <1>9, <1>10, <1>11, <1>12,
     <1>13, <1>14, <1>15, <1>16, <1>17, Zenon DEF Next

LEMMA CopiesKeep ==
    ASSUME backups = [l \in Locs |-> backups[l]], NEW l \in Locs, Copies(l)
    PROVE  /\ backups' = [m \in Locs |-> backups'[m]]
           /\ \A m \in Locs : backups[m] \subseteq backups'[m]
           /\ files[l].is \notin {"absent", "broken"} => files[l].doc \in backups'[l]
<1>1. DOMAIN backups = Locs
  OBVIOUS
<1>2. QED
  BY <1>1 DEF Copies, KeepBackup

LEMMA TasksStep == ASSUME TasksInv, [Next]_vars PROVE TasksInv'
<1>0. /\ agent \in AllAgents /\ todo \in Seq(Tasks(agent)) /\ agent' = agent
      /\ pc # "idle" => todo # << >>
  BY Flow DEF TasksInv
<1>1. backups' = [l \in Locs |-> backups'[l]] /\ left' = [l \in Locs |-> left'[l]]
  <2>1. ASSUME NEW l \in Locs, Copies(l) PROVE backups' = [m \in Locs |-> backups'[m]]
    BY <2>1, CopiesKeep DEF TasksInv
  <2>2. ASSUME BackupFirst \/ BackupLast
        PROVE  backups' = [l \in Locs |-> backups'[l]] /\ left' = left
    <3>1. Now \in Tasks(agent)
      BY <1>0, <2>2, HeadTailProperties DEF BackupFirst, BackupLast, Now
    <3>2. Now.loc \in Locs
      BY <3>1 DEF Tasks
    <3>3. Copies(Now.loc) /\ left' = left
      BY <2>2 DEF BackupFirst, BackupLast, Still
    <3>4. QED
      BY <2>1, <3>2, <3>3
  <2>3. CASE UNCHANGED backups /\ (left' = left \/ \E d : left' = [left EXCEPT !["main"] = d])
    <3>1. DOMAIN left = Locs
      BY DEF TasksInv
    <3>2. left' = [l \in Locs |-> left'[l]]
      BY <2>3, <3>1 DEF TasksInv
    <3>3. QED
      BY <2>3, <3>2 DEF TasksInv
  <2>4. \/ BackupFirst \/ BackupLast
        \/ UNCHANGED backups /\ (left' = left \/ \E d : left' = [left EXCEPT !["main"] = d])
    <3>1. CASE Install \/ Uninstall \/ InstallRefused
      BY <3>1 DEF Install, Uninstall, Start, InstallRefused
    <3>2. CASE Read
      BY <3>2, ReadFlow
    <3>3. CASE Delete \/ Truncate \/ Write
      BY <3>3 DEF Delete, Truncate, Write, Still
    <3>4. CASE WritePlugin \/ Persist \/ RemovePlugin
      BY <3>4 DEF WritePlugin, Persist, RemovePlugin, Still
    <3>5. CASE Dies \/ TaskFails \/ BinaryMoves \/ UNCHANGED vars
      BY <3>5 DEF Dies, TaskFails, BinaryMoves, vars
    <3>6. CASE Edit
      BY <3>6, Zenon DEF Edit
    <3>7. QED
      BY <3>1, <3>2, <3>3, <3>4, <3>5, <3>6, Zenon DEF Next
  <2>5. QED
    BY <2>2, <2>3, <2>4 DEF TasksInv
<1>2. CASE (Turn /\ pc # "idle") \/ Begin \/ Ends
  <2>1. PICK s \in Seq(Tasks(agent)) : todo' = s /\ pc' = FirstPc(s)
    <3>1. CASE Turn /\ pc # "idle"
      BY <1>0, <3>1, Begins, Zenon DEF Turn
    <3>2. CASE Begin
      BY <1>0, <3>2, TasksGiven DEF Begin
    <3>3. CASE Ends
      <4>1. << >> \in Seq(Tasks(agent)) /\ FirstPc(<< >>) = "idle"
        BY DEF FirstPc
      <4>2. QED
        BY <3>3, <4>1, Zenon DEF Ends
    <3>4. QED
      BY <1>2, <3>1, <3>2, <3>3
  <2>2. pc' \in {"idle", "backup", "read"} /\ (pc' # "idle" => todo' # << >>)
    BY <2>1, Begins
  <2>3. QED
    BY <1>0, <1>1, <2>1, <2>2 DEF TasksInv
<1>3. CASE Stays
  BY <1>0, <1>1, <1>3 DEF Stays, TasksInv, Now
<1>4. CASE Loads
  BY <1>0, <1>1, <1>4 DEF Loads, TasksInv, Now, AfterRead
<1>5. CASE Plugs
  BY <1>0, <1>1, <1>5 DEF Plugs, TasksInv, Now
<1>6. QED
  BY <1>2, <1>3, <1>4, <1>5, Flow, Zenon

LEMMA SplicedOK ==
    ASSUME agent \in AllAgents, NEW doc, DocOK(doc), Now \in Tasks(agent), Now.what # "unplug"
    PROVE  DocOK(Spliced(doc))
<1>1. \A f : DocOK([doc EXCEPT !.flags = f])
  BY DEF DocOK
<1>2. /\ DocOK(Registered(doc)) /\ DocOK(Enabled(doc)) /\ DocOK(Enlisted(doc))
      /\ DocOK(Deregistered(doc)) /\ DocOK(Delisted(doc)) /\ DocOK(WithoutLegacy(doc))
  BY <1>1, Zenon DEF Registered, Enabled, Enlisted, Deregistered, Delisted, Marked,
                     Unmarked, WithoutLegacy
<1>3. Now.what = "install" => DocOK(Apply(agent, doc, opts.auto))
  BY ApplyShape DEF Tasks
<1>4. Now.what \in {"revoke", "reconcile", "dedupe"} => DocOK(Revoke(agent, doc))
  BY RevokeShape DEF Tasks
<1>5. Now.what \in Whats
  BY DEF Tasks
<1>6. QED
  BY <1>2, <1>3, <1>4, <1>5 DEF Spliced, Whats

\* How a step may leave the files.
Replaces ==
    \E doc : \E l \in Locs, is \in {"absent", "blank", "doc"} :
        DocOK(doc) /\ (is = "absent" => doc = Empty) /\ Holds(l, is, doc)

LEMMA FilesStep ==
    ASSUME TasksInv, FilesInv, [Next]_vars PROVE FilesInv'
<1>0. /\ agent \in AllAgents /\ FilesOK(files) /\ DocOK(mem) /\ DocOK(Empty)
      /\ \A l \in Locs : DocOK(files[l].doc)
      /\ pc # "idle" => Now \in Tasks(agent) /\ Now.loc \in Locs
  <2>1. pc # "idle" => Now \in Tasks(agent)
    BY HeadTailProperties DEF TasksInv, Now
  <2>2. QED
    BY <2>1, EmptyIsDoc DEF TasksInv, FilesInv, FilesOK, FileOK, Tasks
<1>1. DocOK(mem')
  <2>1. CASE Loads
    <3>1. DocOK(File.doc) /\ Now.what # "unplug"
      BY <1>0, <2>1 DEF Loads, File
    <3>2. DocOK(Spliced(File.doc))
      BY <1>0, <2>1, <3>1, SplicedOK DEF Loads
    <3>3. QED
      BY <2>1, <3>2, Zenon DEF Loads, DocOK
  <2>2. CASE mem' = Empty
    BY <1>0, <2>2
  <2>3. CASE mem' = mem
    BY <1>0, <2>3
  <2>4. QED
    BY <2>1, <2>2, <2>3, Flow, Zenon DEF Turn, Ends, Begin, Stays, Plugs
<1>2. ASSUME Replaces PROVE FilesOK(files)'
  BY <1>0, <1>2, HoldsOK, Zenon DEF Replaces
<1>3. FilesOK(files')
  <2>1. CASE Delete
    <3>1. Holds(Now.loc, "absent", Empty) /\ pc # "idle"
      BY <2>1 DEF Delete
    <3>2. QED
      BY <1>0, <1>2, <3>1, Zenon DEF Replaces
  <2>2. CASE Truncate
    <3>1. Holds(Now.loc, "blank", Empty) /\ pc # "idle"
      BY <2>2 DEF Truncate
    <3>2. QED
      BY <1>0, <1>2, <3>1, Zenon DEF Replaces
  <2>3. CASE Write
    <3>1. Holds(Now.loc, "doc", mem) /\ pc # "idle" /\ "doc" # "absent"
      BY <2>3 DEF Write
    <3>2. QED
      BY <1>0, <1>2, <3>1, Zenon DEF Replaces
  <2>4. CASE WritePlugin
    <3>1. DocOK([Empty EXCEPT !.hooks = Hooks(Generated)])
      BY <1>0, GeneratedShape DEF DocOK, Hooks, IsEvents
    <3>2. "doc" # "absent" /\ "plugin" \in Locs
      BY DEF Locs
    <3>3. QED
      BY <1>2, <2>4, <3>1, <3>2, Zenon DEF WritePlugin, Replaces
  <2>5. CASE Persist
    <3>1. "doc" # "absent" /\ "main" \in Locs
      BY DEF Locs
    <3>2. QED
      BY <1>0, <1>2, <2>5, <3>1, Zenon DEF Persist, Replaces
  <2>6. CASE RemovePlugin
    <3>1. "plugin" \in Locs
      BY DEF Locs
    <3>2. QED
      BY <1>0, <1>2, <2>6, <3>1, Zenon DEF RemovePlugin, Replaces
  <2>7. CASE Edit
    <3>1. PICK k \in Wired \cup OtherEvents, doc \in Users \cup UNION
              {Edited(files["main"].doc, e) : e \in Wired \cup OtherEvents} :
              Holds("main", "doc", doc)
      BY <2>7, Zenon DEF Edit
    <3>2. "doc" # "absent" /\ "main" \in Locs
      BY DEF Locs
    <3>3. DocOK(doc)
      <4>1. CASE doc \in Users
        BY <4>1 DEF UsersAssumption
      <4>2. CASE doc \notin Users
        <5>1. PICK e \in Wired \cup OtherEvents : doc \in Edited(files["main"].doc, e)
          BY <3>1, <4>2
        <5>2. QED
          BY <1>0, <3>2, <5>1, EditedShape
      <4>3. QED
        BY <4>1, <4>2
    <3>4. QED
      BY <1>2, <3>1, <3>2, <3>3, Zenon DEF Replaces
  <2>8. CASE BinaryMoves
    <3>1. PICK to \in {"stale", "retired"} :
              files' = [files EXCEPT !["main"].doc = Aged(files["main"].doc, to)]
      BY <2>8 DEF BinaryMoves
    <3>2. files["main"].is = "doc" /\ "main" \in Locs
      BY <2>8 DEF BinaryMoves, Locs
    <3>3. PICK d : d = Aged(files["main"].doc, to)
      OBVIOUS
    <3>4. DocOK(d)
      BY <1>0, <3>2, <3>3, AgedKeeps
    <3>5. Holds("main", "doc", d)
      <4>1. files["main"] = [is |-> "doc", doc |-> files["main"].doc, link |-> files["main"].link]
        BY <1>0, <3>2 DEF FilesOK, FileOK
      <4>2. files' = [files EXCEPT !["main"].doc = d]
        BY <3>1, <3>3, Zenon
      <4>3. DOMAIN files = Locs
        BY <1>0, Zenon DEF FilesOK
      <4>4. QED
        BY <3>2, <4>1, <4>2, <4>3 DEF Holds
    <3>6. QED
      BY <1>2, <3>2, <3>4, <3>5, Zenon DEF Replaces
  <2>9. CASE UNCHANGED files
    BY <1>0, <2>9
  <2>10. \/ Delete \/ Truncate \/ Write \/ WritePlugin \/ Persist \/ RemovePlugin
         \/ Edit \/ BinaryMoves \/ UNCHANGED files
    <3>1. Install \/ Uninstall \/ InstallRefused => UNCHANGED files
      BY DEF Install, Uninstall, Start, InstallRefused
    <3>2. BackupFirst \/ BackupLast \/ Dies \/ TaskFails \/ UNCHANGED vars => UNCHANGED files
      BY DEF BackupFirst, BackupLast, Dies, TaskFails, vars
    <3>3. QED
      BY <3>1, <3>2, ReadFlow, Zenon DEF Next
  <2>11. QED
    BY <2>1, <2>2, <2>3, <2>4, <2>5, <2>6, <2>7, <2>8, <2>9, <2>10, Zenon
<1>4. QED
  BY <1>1, <1>3, Zenon DEF FilesInv, FilesOK, FileOK, DocOK

-----------------------------------------------------------------------------
(***************************************************************************)
(* What the user left is in the file or in a backup.  A file is emptied    *)
(* only once it has been copied, unless there was none: then it held       *)
(* nothing of the user's, and what is written holds nothing either.        *)
(***************************************************************************)
Saved(l) == \E b \in backups[l] : Placed(b) = Placed(left[l])
RecoverableAt(l) == Placed(files[l].doc) = Placed(left[l]) \/ Saved(l)
SafeAt(l) ==
    pc # "idle" /\ Now.loc = l =>
        /\ pc = "read" /\ BacksUpFirst(Now.what) =>
               Saved(l) \/ files[l].is \in {"absent", "broken"}
        /\ pc = "save" => files[l].is \notin {"absent", "broken"}
        /\ pc \in {"truncate", "write"} =>
               Saved(l) \/ (/\ Placed(Empty) = Placed(left[l])
                            /\ Placed(mem) = Placed(left[l]))
        /\ pc \in {"plugin", "persist"} => Saved(l) \/ Placed(mem) = Placed(left[l])
SavedInv == \A l \in Settings : RecoverableAt(l) /\ SafeAt(l)

LEMMA Fresh ==
    ASSUME TasksInv, (Turn /\ pc # "idle") \/ Ends \/ Begin, NEW l PROVE SafeAt(l)'
<1>1. agent \in AllAgents /\ todo \in Seq(Tasks(agent)) /\ (pc # "idle" => todo # << >>)
  BY DEF TasksInv
<1>2. PICK s \in Seq(Tasks(agent)) : todo' = s /\ pc' = FirstPc(s)
  <2>1. CASE Turn /\ pc # "idle"
    BY <1>1, <2>1, Begins, Zenon DEF Turn
  <2>2. CASE Begin
    BY <1>1, <2>2, TasksGiven DEF Begin
  <2>3. CASE Ends
    <3>1. << >> \in Seq(Tasks(agent)) /\ FirstPc(<< >>) = "idle"
      BY DEF FirstPc
    <3>2. QED
      BY <2>3, <3>1, Zenon DEF Ends
  <2>4. QED
    BY <2>1, <2>2, <2>3
<1>3. pc' \in {"idle", "backup", "read"} /\ (pc' = "read" => ~BacksUpFirst(Head(s).what))
  BY <1>2, Begins
<1>4. Now' = Head(s)
  BY <1>2 DEF Now
<1>5. ~(pc' = "read" /\ BacksUpFirst(Now'.what))
  BY <1>3, <1>4, Zenon
<1>6. pc' \notin {"save", "truncate", "write", "plugin", "persist"}
  BY <1>3
<1>7. QED
  BY <1>5, <1>6, Zenon DEF SafeAt, BacksUpFirst

\* The files, but for one, are as they were, and no backup is lost.
LEMMA SavedStays ==
    ASSUME NEW l, backups[l] \subseteq backups'[l], left'[l] = left[l]
    PROVE  /\ Saved(l) => Saved(l)'
           /\ files'[l].doc = files[l].doc /\ RecoverableAt(l) => RecoverableAt(l)'
<1>1. ASSUME Saved(l) PROVE Saved(l)'
  <2>1. PICK b \in backups[l] : Placed(b) = Placed(left[l])
    BY <1>1, Zenon DEF Saved
  <2>2. b \in backups'[l]
    BY <2>1
  <2>3. QED
    BY <2>1, <2>2, Zenon DEF Saved
<1>2. QED
  BY <1>1, Zenon DEF RecoverableAt

\* A copy of a file that can be recovered is a backup of what the user left.
LEMMA CopySaves ==
    ASSUME TasksInv, NEW l \in Locs, Copies(l), left' = left, RecoverableAt(l),
           files[l].is \notin {"absent", "broken"}
    PROVE  Saved(l)'
<1>1. files[l].doc \in backups'[l] /\ backups[l] \subseteq backups'[l]
  BY CopiesKeep DEF TasksInv
<1>2. CASE Saved(l)
  BY <1>1, <1>2, SavedStays
<1>3. CASE Placed(files[l].doc) = Placed(left[l])
  <2>1. left'[l] = left[l]
    OBVIOUS
  <2>2. QED
    BY <1>1, <1>3, <2>1, Zenon DEF Saved
<1>4. QED
  BY <1>2, <1>3, Zenon DEF RecoverableAt

\* What an installer is about to write over.
LEMMA LoadSafe ==
    ASSUME TasksInv, FilesInv, Loads, NEW l \in Settings, RecoverableAt(l), SafeAt(l),
           UNCHANGED <<files, backups, left>>
    PROVE  SafeAt(l)'
<1> SUFFICES ASSUME Now.loc = l PROVE SafeAt(l)'
  <2>1. Now' = Now
    BY DEF Loads, Now
  <2>2. QED
    BY <2>1, Zenon DEF SafeAt
<1>1. /\ agent \in AllAgents /\ Now \in Tasks(agent) /\ l \in Locs /\ FileOK(files[l])
      /\ Now.what \in {"install", "dedupe", "revoke", "reconcile", "legacy", "persist"}
      /\ Now.what \in {"install", "dedupe", "revoke", "reconcile"} => agent # "opencode"
  <2>1. Now \in Tasks(agent) /\ agent \in AllAgents
    BY HeadTailProperties DEF TasksInv, Now, Loads
  <2>2. QED
    BY <2>1 DEF Tasks, FilesInv, FilesOK, Settings, Locs
<1>2. PICK d : d = files[l].doc
  OBVIOUS
<1>3. /\ pc = "read" /\ Reads(files[l]) /\ Writes(d) /\ mem' = Spliced(d) /\ pc' = AfterRead
      /\ Now' = Now
  BY <1>2 DEF Loads, File, Now
<1>4. DocOK(d) /\ (files[l].is = "absent" => d = Empty)
  BY <1>1, <1>2 DEF FileOK
<1>5. files[l].is # "broken"
  BY <1>3 DEF Reads
<1>6. Saved(l)' <=> Saved(l)
  BY DEF Saved
<1>7. Placed(left[l])' = Placed(left[l])
  BY DEF Placed
<1>8. CASE Now.what \in {"legacy", "persist"}
  <2>1. mem' = WithoutLegacy(d) /\ pc' \in {"plugin", "persist"}
    BY <1>3, <1>8 DEF Spliced, AfterRead
  <2>2. Placed(mem') = Placed(d)
    BY <1>4, <2>1, WithoutLegacyKeeps, Zenon
  <2>3. Saved(l) \/ Placed(mem') = Placed(left[l])
    BY <1>2, <2>2, Zenon DEF RecoverableAt
  <2>4. pc' \notin {"read", "save", "truncate", "write"}
    BY <2>1
  <2>5. QED
    BY <1>6, <2>3, <2>4, Zenon DEF SafeAt
<1>9. CASE Now.what \in {"revoke", "reconcile"}
  <2>1. mem' = Revoke(agent, d) /\ pc' = "save" /\ Revoke(agent, d) # d
    BY <1>3, <1>9 DEF Spliced, AfterRead, BacksUpLast, Writes
  <2>2. files[l].is # "absent"
    BY <1>1, <1>4, <1>9, <2>1, RevokeEmpty
  <2>3. pc' \notin {"read", "truncate", "write", "plugin", "persist"}
    BY <2>1
  <2>4. files[l].is \notin {"absent", "broken"} /\ files' = files
    BY <1>5, <2>2
  <2>5. QED
    BY <2>3, <2>4, Zenon DEF SafeAt
<1>10. CASE Now.what \in {"install", "dedupe"}
  <2>1. pc' = "truncate" /\ (Saved(l) \/ files[l].is = "absent")
    BY <1>3, <1>5, <1>10 DEF SafeAt, AfterRead, BacksUpFirst, BacksUpLast
  <2>2. CASE ~Saved(l)
    <3>1. d = Empty /\ files[l].is = "absent"
      BY <1>4, <2>1, <2>2
    <3>2. Placed(Empty) = Placed(left[l])
      BY <1>2, <2>2, <3>1, Zenon DEF RecoverableAt
    <3>3. CASE Now.what = "install"
      <4>1. mem' = Apply(agent, Empty, opts.auto)
        BY <1>3, <3>1, <3>3 DEF Spliced
      <4>2. Placed(mem') = Placed(Empty)
        BY <1>1, <3>3, <4>1, ApplyEmpty
      <4>3. QED
        BY <2>1, <3>2, <4>2 DEF SafeAt
    <3>4. CASE Now.what = "dedupe"
      BY <1>1, <1>3, <3>1, <3>4, RevokeEmpty DEF Writes, Spliced
    <3>5. QED
      BY <1>10, <3>3, <3>4
  <2>3. CASE Saved(l)
    <3>1. pc' \notin {"read", "save", "plugin", "persist"}
      BY <2>1
    <3>2. QED
      BY <1>6, <2>3, <3>1, Zenon DEF SafeAt
  <2>4. QED
    BY <2>2, <2>3
<1>11. QED
  BY <1>1, <1>8, <1>9, <1>10

LEMMA SavedStep ==
    ASSUME TasksInv, FilesInv, SavedInv, [Next]_vars PROVE SavedInv'
<1> SUFFICES ASSUME NEW l \in Settings PROVE (RecoverableAt(l) /\ SafeAt(l))'
  BY Zenon DEF SavedInv
<1>0. /\ RecoverableAt(l) /\ SafeAt(l) /\ l \in Locs /\ l # "plugin"
      /\ "main" \in Locs /\ "plugin" \in Locs
      /\ FilesOK(files) /\ DocOK(mem) /\ DocOK(Empty)
      /\ pc # "idle" => Now \in Tasks(agent) /\ Now.loc \in Locs
  <2>1. pc # "idle" => Now \in Tasks(agent)
    BY HeadTailProperties DEF TasksInv, Now
  <2>2. QED
    BY <2>1, EmptyIsDoc DEF SavedInv, FilesInv, Settings, Locs, Tasks
\* A step that leaves the place alone.
<1>1. ASSUME files'[l].doc = files[l].doc, UNCHANGED <<backups, left>>
      PROVE  RecoverableAt(l)' /\ (Saved(l) => Saved(l)')
  <2>1. backups[l] \subseteq backups'[l] /\ left'[l] = left[l]
    BY <1>1
  <2>2. QED
    BY <1>0, <1>1, <2>1, SavedStays
\* A step that fills the place.
<1>2. ASSUME NEW d, files'[l].doc = d, UNCHANGED <<backups, left>>,
             Saved(l) \/ Placed(d) = Placed(left[l])
      PROVE  RecoverableAt(l)' /\ (Saved(l) => Saved(l)')
  <2>1. backups[l] \subseteq backups'[l] /\ left'[l] = left[l]
    BY <1>2
  <2>2. Saved(l) => Saved(l)'
    BY <2>1, SavedStays
  <2>3. QED
    BY <1>2, <2>1, <2>2, Zenon DEF RecoverableAt
<1>3. ASSUME (Turn /\ pc # "idle") \/ Ends \/ Begin PROVE SafeAt(l)'
  BY <1>3, Fresh
<1>4. ASSUME pc' = "idle" PROVE SafeAt(l)'
  BY <1>4, Zenon DEF SafeAt
<1>5. CASE Install \/ Uninstall
  <2>1. Begin /\ UNCHANGED <<files, backups, left>>
    BY <1>5, Zenon DEF Install, Uninstall, Start, Begin
  <2>2. QED
    BY <1>1, <1>3, <2>1
<1>6. CASE InstallRefused
  BY <1>1, <1>4, <1>6 DEF InstallRefused
<1>7. CASE BackupFirst
  <2>1. /\ pc = "backup" /\ Copies(Now.loc) /\ pc' = "read"
        /\ UNCHANGED <<files, todo, left>> /\ Now' = Now
    BY <1>7 DEF BackupFirst, Still, Now
  <2>2. backups[l] \subseteq backups'[l] /\ left'[l] = left[l] /\ files'[l].doc = files[l].doc
    BY <1>0, <2>1, CopiesKeep DEF TasksInv
  <2>3. RecoverableAt(l)'
    BY <1>0, <2>2, SavedStays
  <2>4. CASE Now.loc = l /\ files[l].is \notin {"absent", "broken"}
    <3>1. Saved(l)'
      BY <1>0, <2>1, <2>4, CopySaves
    <3>2. pc' \notin {"save", "truncate", "write", "plugin", "persist"}
      BY <2>1
    <3>3. QED
      BY <2>3, <3>1, <3>2, Zenon DEF SafeAt
  <2>5. CASE files[l].is \in {"absent", "broken"}
    <3>1. files'[l].is \in {"absent", "broken"}
      BY <2>1, <2>5
    <3>2. pc' \notin {"save", "truncate", "write", "plugin", "persist"}
      BY <2>1
    <3>3. QED
      BY <2>3, <3>1, <3>2, Zenon DEF SafeAt
  <2>6. CASE Now.loc # l
    BY <2>1, <2>3, <2>6, Zenon DEF SafeAt
  <2>7. QED
    BY <2>4, <2>5, <2>6
<1>8. CASE Read
  <2>1. (Turn \/ Ends \/ Loads) /\ UNCHANGED <<files, backups, left>> /\ pc # "idle"
    BY <1>8, ReadFlow DEF Read
  <2>2. RecoverableAt(l)'
    BY <1>1, <2>1
  <2>3. Loads => SafeAt(l)'
    BY <1>0, <2>1, LoadSafe
  <2>4. QED
    BY <1>3, <2>1, <2>2, <2>3, Zenon
<1>9. CASE BackupLast
  <2>1. /\ pc = "save" /\ Copies(Now.loc) /\ pc' = "truncate"
        /\ UNCHANGED <<files, todo, left>> /\ Now' = Now
    BY <1>9 DEF BackupLast, Still, Now
  <2>2. backups[l] \subseteq backups'[l] /\ left'[l] = left[l] /\ files'[l].doc = files[l].doc
    BY <1>0, <2>1, CopiesKeep DEF TasksInv
  <2>3. RecoverableAt(l)'
    BY <1>0, <2>2, SavedStays
  <2>4. CASE Now.loc = l
    <3>1. files[l].is \notin {"absent", "broken"}
      BY <1>0, <2>1, <2>4, Zenon DEF SafeAt
    <3>2. Saved(l)'
      BY <1>0, <2>1, <2>4, <3>1, CopySaves
    <3>3. pc' \notin {"read", "save", "plugin", "persist"}
      BY <2>1
    <3>4. QED
      BY <2>3, <3>2, <3>3, Zenon DEF SafeAt
  <2>5. CASE Now.loc # l
    BY <2>1, <2>3, <2>5, Zenon DEF SafeAt
  <2>6. QED
    BY <2>4, <2>5
<1>10. CASE Delete
  <2>1. /\ pc = "truncate" /\ Holds(Now.loc, "absent", Empty) /\ UNCHANGED <<backups, left>>
        /\ Turn /\ pc # "idle"
    BY <1>10 DEF Delete, NextTask, Still, Turn
  <2>2. files'[Now.loc].doc = Empty /\ (l # Now.loc => files'[l] = files[l])
    BY <1>0, <2>1, HoldsOK
  <2>3. CASE l = Now.loc
    <3>1. Saved(l) \/ Placed(Empty) = Placed(left[l])
      BY <1>0, <2>1, <2>3 DEF SafeAt
    <3>2. files'[l].doc = Empty
      BY <2>2, <2>3
    <3>3. QED
      BY <1>2, <1>3, <2>1, <3>1, <3>2
  <2>4. CASE l # Now.loc
    BY <1>1, <1>3, <2>1, <2>2, <2>4
  <2>5. QED
    BY <2>3, <2>4
<1>11. CASE Truncate
  <2>1. /\ pc = "truncate" /\ Holds(Now.loc, "blank", Empty) /\ UNCHANGED <<backups, left, mem>>
        /\ Now' = Now /\ pc' = "write"
    BY <1>11 DEF Truncate, Still, Now
  <2>2. files'[Now.loc].doc = Empty /\ (l # Now.loc => files'[l] = files[l])
    BY <1>0, <2>1, HoldsOK
  <2>3. CASE l = Now.loc
    <3>1. Saved(l) \/ (Placed(Empty) = Placed(left[l]) /\ Placed(mem) = Placed(left[l]))
      BY <1>0, <2>1, <2>3 DEF SafeAt
    <3>2. files'[l].doc = Empty
      BY <2>2, <2>3
    <3>3. RecoverableAt(l)' /\ (Saved(l) => Saved(l)')
      BY <1>2, <2>1, <3>1, <3>2
    <3>4. Saved(l)' \/ (Placed(Empty) = Placed(left'[l]) /\ Placed(mem') = Placed(left'[l]))
      BY <2>1, <3>1, <3>3, Zenon
    <3>5. pc' \notin {"read", "save", "plugin", "persist"}
      BY <2>1
    <3>6. QED
      BY <3>3, <3>4, <3>5, Zenon DEF SafeAt
  <2>4. CASE l # Now.loc
    <3>1. RecoverableAt(l)'
      BY <1>1, <2>1, <2>2, <2>4
    <3>2. QED
      BY <2>1, <2>4, <3>1, Zenon DEF SafeAt
  <2>5. QED
    BY <2>3, <2>4
<1>12. CASE Write
  <2>1. /\ pc = "write" /\ Holds(Now.loc, "doc", mem) /\ UNCHANGED <<backups, left>>
        /\ Turn /\ pc # "idle"
    BY <1>12 DEF Write, NextTask, Still, Turn
  <2>2. files'[Now.loc].doc = mem /\ (l # Now.loc => files'[l] = files[l])
    <3>1. "doc" # "absent"
      OBVIOUS
    <3>2. QED
      BY <1>0, <2>1, <3>1, HoldsOK
  <2>3. CASE l = Now.loc
    <3>1. Saved(l) \/ Placed(mem) = Placed(left[l])
      BY <1>0, <2>1, <2>3 DEF SafeAt
    <3>2. PICK d : d = mem
      OBVIOUS
    <3>3. files'[l].doc = d /\ (Saved(l) \/ Placed(d) = Placed(left[l]))
      BY <2>2, <2>3, <3>1, <3>2, Zenon
    <3>4. RecoverableAt(l)'
      BY <1>2, <2>1, <3>3
    <3>5. QED
      BY <1>3, <2>1, <3>4
  <2>4. CASE l # Now.loc
    BY <1>1, <1>3, <2>1, <2>2, <2>4
  <2>5. QED
    BY <2>3, <2>4
<1>13. CASE WritePlugin
  <2>1. /\ pc = "plugin" /\ pc' = "persist" /\ UNCHANGED <<backups, left, mem>> /\ Now' = Now
        /\ Holds("plugin", "doc", [Empty EXCEPT !.hooks = Hooks(Generated)])
    BY <1>13 DEF WritePlugin, Still, Now
  <2>2. files'[l] = files[l]
    <3>1. DocOK([Empty EXCEPT !.hooks = Hooks(Generated)])
      BY <1>0, GeneratedShape DEF DocOK, Hooks, IsEvents
    <3>2. "doc" # "absent"
      OBVIOUS
    <3>3. QED
      BY <1>0, <2>1, <3>1, <3>2, HoldsOK, Zenon
  <2>3. RecoverableAt(l)' /\ (Saved(l) => Saved(l)')
    BY <1>1, <2>1, <2>2
  <2>4. CASE Now.loc = l
    <3>1. Saved(l) \/ Placed(mem) = Placed(left[l])
      BY <1>0, <2>1, <2>4 DEF SafeAt
    <3>2. Saved(l)' \/ Placed(mem') = Placed(left'[l])
      BY <2>1, <2>3, <3>1, Zenon
    <3>3. pc' \notin {"read", "save", "truncate", "write"}
      BY <2>1
    <3>4. QED
      BY <2>3, <3>2, <3>3, Zenon DEF SafeAt
  <2>5. CASE Now.loc # l
    BY <2>1, <2>3, <2>5, Zenon DEF SafeAt
  <2>6. QED
    BY <2>4, <2>5
<1>14. CASE Persist
  <2>1. /\ pc = "persist" /\ UNCHANGED <<backups, left>> /\ Turn /\ pc # "idle"
        /\ IF mem = Empty THEN Holds("main", "absent", Empty) ELSE Holds("main", "doc", mem)
    BY <1>14 DEF Persist, NextTask, Still, Turn
  <2>2. Now.loc = "main"
    BY <1>0, <2>1 DEF TasksInv, Tasks
  <2>3. files'["main"].doc = mem /\ (l # "main" => files'[l] = files[l])
    <3>1. "doc" # "absent"
      OBVIOUS
    <3>2. QED
      BY <1>0, <2>1, <3>1, HoldsOK, Zenon
  <2>4. CASE l = "main"
    <3>1. Saved(l) \/ Placed(mem) = Placed(left[l])
      BY <1>0, <2>1, <2>2, <2>4 DEF SafeAt
    <3>2. PICK d : d = mem
      OBVIOUS
    <3>3. files'[l].doc = d /\ (Saved(l) \/ Placed(d) = Placed(left[l]))
      BY <2>3, <2>4, <3>1, <3>2, Zenon
    <3>4. RecoverableAt(l)'
      BY <1>2, <2>1, <3>3
    <3>5. QED
      BY <1>3, <2>1, <3>4
  <2>5. CASE l # "main"
    BY <1>1, <1>3, <2>1, <2>3, <2>5
  <2>6. QED
    BY <2>4, <2>5
<1>15. CASE RemovePlugin
  <2>1. /\ Holds("plugin", "absent", Empty) /\ UNCHANGED <<backups, left>> /\ Turn /\ pc # "idle"
    BY <1>15 DEF RemovePlugin, NextTask, Still, Turn
  <2>2. files'[l] = files[l]
    BY <1>0, <2>1, HoldsOK
  <2>3. QED
    BY <1>1, <1>3, <2>1, <2>2
<1>16. CASE Dies \/ TaskFails
  <2>1. pc # "idle" /\ UNCHANGED <<files, backups, left>>
    BY <1>16 DEF Dies, TaskFails
  <2>2. Turn \/ Ends
    BY <1>16, Fails, Zenon DEF Dies, TaskFails, Stop, Ends
  <2>3. QED
    BY <1>1, <1>3, <2>1, <2>2
<1>17. CASE Edit
  <2>1. PICK doc : /\ files' = [files EXCEPT !["main"].is = "doc", !["main"].doc = doc]
                   /\ left' = [left EXCEPT !["main"] = doc]
    BY <1>17, Zenon DEF Edit, Holds
  <2>2. UNCHANGED backups /\ pc' = "idle"
    BY <1>17 DEF Edit, run
  <2>3. DOMAIN files = Locs /\ DOMAIN left = Locs /\ FileOK(files["main"])
    BY <1>0 DEF FilesOK, TasksInv
  <2>4. CASE l = "main"
    <3>1. files'[l].doc = doc /\ left'[l] = doc
      BY <1>0, <2>1, <2>3, <2>4 DEF FileOK
    <3>2. QED
      BY <1>4, <2>2, <3>1, Zenon DEF RecoverableAt
  <2>5. CASE l # "main"
    <3>1. files'[l].doc = files[l].doc /\ left'[l] = left[l] /\ backups[l] \subseteq backups'[l]
      BY <1>0, <2>1, <2>2, <2>3, <2>5
    <3>2. QED
      BY <1>0, <1>4, <2>2, <3>1, SavedStays
  <2>6. QED
    BY <2>4, <2>5
<1>18. CASE BinaryMoves
  <2>1. PICK to \in {"stale", "retired"} :
            files' = [files EXCEPT !["main"].doc = Aged(files["main"].doc, to)]
    BY <1>18 DEF BinaryMoves
  <2>2. UNCHANGED <<backups, left>> /\ pc' = "idle"
    BY <1>18 DEF BinaryMoves, run
  <2>3. PICK d : d = Aged(files["main"].doc, to)
    OBVIOUS
  <2>4. files' = [files EXCEPT !["main"].doc = d]
    BY <2>1, <2>3, Zenon
  <2>5. DOMAIN files = Locs /\ FileOK(files["main"])
    BY <1>0 DEF FilesOK
  <2>6. CASE l = "main"
    <3>1. files'[l].doc = d
      BY <1>0, <2>4, <2>5, <2>6 DEF FileOK
    <3>2. Placed(d) = Placed(files[l].doc)
      <4>1. DocOK(files["main"].doc)
        BY <2>5 DEF FileOK
      <4>2. Placed(Aged(files["main"].doc, to)) = Placed(files["main"].doc)
        BY <4>1, AgedKeeps
      <4>3. QED
        BY <2>3, <2>6, <4>2, Zenon
    <3>3. Saved(l) \/ Placed(d) = Placed(left[l])
      BY <1>0, <3>2, Zenon DEF RecoverableAt
    <3>4. QED
      BY <1>2, <1>4, <2>2, <3>1, <3>3
  <2>7. CASE l # "main"
    <3>1. files'[l].doc = files[l].doc
      BY <1>0, <2>4, <2>5, <2>7
    <3>2. QED
      BY <1>1, <1>4, <2>2, <3>1
  <2>8. QED
    BY <2>6, <2>7
<1>19. CASE UNCHANGED vars
  <2>1. UNCHANGED <<files, backups, left, mem, pc>> /\ Now' = Now
    BY <1>19 DEF vars, run, Now
  <2>2. RecoverableAt(l)' /\ Saved(l)' = Saved(l)
    BY <1>1, <2>1 DEF Saved
  <2>3. QED
    BY <1>0, <2>1, <2>2, Zenon DEF SafeAt
<1>20. QED
  BY <1>5, <1>6, <1>7, <1>8, <1>9, <1>10, <1>11, <1>12, <1>13, <1>14, <1>15, <1>16,
     <1>17, <1>18, <1>19, Zenon DEF Next

-----------------------------------------------------------------------------
(***************************************************************************)
(* Documents: what an installer writes wires our hooks once or leaves none *)
(* of them, and holds what the document that was read holds of others.     *)
(***************************************************************************)
Clean(events) == \A k \in DOMAIN events : Cleared(events[k])

LEMMA DocIs ==
    ASSUME NEW a, NEW doc
    PROVE  DocOf(a, doc) <=> /\ doc.hooks.is # "object" => DOMAIN doc.hooks.events = {}
                             /\ Lists(a, doc.hooks.events)
  BY Zenon DEF DocOf, Lists

LEMMA TheirsIs ==
    ASSUME NEW doc
    PROVE  Theirs(doc) = [flags |-> UserFlags(doc),
                          hooks |-> [k \in Wired \cup OtherEvents |-> Tell(doc.hooks.events, k)]]
<1>1. \A k : (IF k \notin DOMAIN doc.hooks.events THEN << >>
              ELSE Kept(FlattenSeq(doc.hooks.events[k].rules), Others)) = Tell(doc.hooks.events, k)
  BY DEF Tell, Of
<1>2. QED
  BY <1>1, Zenon DEF Theirs

LEMMA SameTheirs ==
    ASSUME NEW doc, NEW new, UserFlags(new) = UserFlags(doc),
           SameTold(doc.hooks.events, new.hooks.events)
    PROVE  Theirs(new) = Theirs(doc)
<1>1. \A k : Tell(new.hooks.events, k) = Tell(doc.hooks.events, k)
  BY DEF SameTold
<1>2. [k \in Wired \cup OtherEvents |-> Tell(new.hooks.events, k)]
         = [k \in Wired \cup OtherEvents |-> Tell(doc.hooks.events, k)]
  BY <1>1, Zenon
<1>3. QED
  BY <1>2, TheirsIs, Zenon

LEMMA OneMember ==
    ASSUME NEW doc, DocOK(doc), NEW x
    PROVE  /\ [doc EXCEPT !.hooks = x].hooks = x /\ [doc EXCEPT !.hooks = x].flags = doc.flags
           /\ [doc EXCEPT !.flags = x].flags = x /\ [doc EXCEPT !.flags = x].hooks = doc.hooks
  BY DEF DocOK

LEMMA HooksIs ==
    ASSUME NEW events
    PROVE  /\ Hooks(events).is = "object" /\ Hooks(events).events = events
           /\ NoHooks.is # "object" /\ DOMAIN NoHooks.events = {}
  BY NoEvents DEF Hooks, NoHooks

\* What is left after our entries are gone.
LEMMA StrippedIs ==
    ASSUME NEW a, NEW doc, DocOf(a, doc), NEW removed, Strips(a, doc.hooks.events, removed)
    PROVE  Lists(a, removed) /\ Clean(removed)
  BY DEF Strips, Lists, Clean

Merged(a, doc, removed, new) ==
    /\ DocOf(a, new) /\ Wires(new.hooks.events) /\ new.flags = doc.flags
    /\ Regular(doc) /\ SameTold(doc.hooks.events, removed) =>
          SameTold(doc.hooks.events, new.hooks.events)

LEMMA MergeIntoKeeps ==
    ASSUME NEW a, NEW doc, DocOK(doc), DocOf(a, doc), NEW removed, NEW first \in BOOLEAN,
           Strips(a, doc.hooks.events, removed)
    PROVE  Merged(a, doc, removed, MergeInto(doc, removed, first))
<1>0. PICK new : new = MergeInto(doc, removed, first)
  OBVIOUS
<1>1. PICK e : e = IF doc.hooks.is = "object" THEN Merge(removed, first) ELSE Generated
  OBVIOUS
<1>2. new = [doc EXCEPT !.hooks = Hooks(e)]
  BY <1>0, <1>1, Zenon DEF MergeInto
<1>3. new.hooks = Hooks(e) /\ new.flags = doc.flags
  BY <1>2, OneMember
<1>4. new.hooks.is = "object" /\ new.hooks.events = e
  BY <1>3, HooksIs
<1>5. Lists(a, e) /\ Wires(e)
  BY <1>1, MergeWires, GeneratedWires
<1>6. ASSUME Regular(doc), SameTold(doc.hooks.events, removed)
      PROVE  SameTold(doc.hooks.events, e)
  <2>1. CASE doc.hooks.is = "object"
    <3>1. \A k \in DOMAIN doc.hooks.events \cap Wired : doc.hooks.events[k].array
      BY <1>6, Zenon DEF Regular
    <3>2. e = Merge(removed, first)
      BY <1>1, <2>1
    <3>3. QED
      BY <1>6, <3>1, <3>2, MergeWires
  <2>2. CASE doc.hooks.is # "object"
    <3>1. DOMAIN doc.hooks.events = {} /\ e = Generated
      BY <1>1, <2>2 DEF DocOf
    <3>2. \A k : Tell(doc.hooks.events, k) = << >> /\ Tell(e, k) = << >>
      BY <3>1, GeneratedWires DEF Tell
    <3>3. QED
      BY <3>2 DEF SameTold
  <2>3. QED
    BY <2>1, <2>2
<1>7. QED
  BY <1>0, <1>3, <1>4, <1>5, <1>6, DocIs, Zenon DEF Merged

\* Of the agents that share their settings with other tools.
Sharing == {"claude", "codex", "copilot", "hermes", "openhands"}
Whole(a, doc) == a \in {"claude", "codex"} \/ MixedNone(doc.hooks.events)
Removal(a, events) ==
    CASE a = "claude" -> CleanedClaude(events, FALSE)
      [] a = "codex" -> RemoveCodex(events)
      [] a = "copilot" -> RemoveCopilot(events)
      [] a \in {"hermes", "openhands"} -> RemoveRules(events)

LEMMA RemovalStrips ==
    ASSUME NEW a \in Sharing, NEW doc, DocOf(a, doc)
    PROVE  /\ Strips(a, doc.hooks.events, Removal(a, doc.hooks.events))
           /\ Whole(a, doc) => SameTold(doc.hooks.events, Removal(a, doc.hooks.events))
<1>1. Lists(a, doc.hooks.events)
  BY DocIs
<1>2. CASE a = "claude"
  BY <1>1, <1>2, CleanedClaudeStrips DEF Removal
<1>3. CASE a = "codex"
  BY <1>1, <1>3, RemoveCodexStrips DEF Removal
<1>4. CASE a = "copilot"
  BY <1>1, <1>4, RemoveCopilotStrips DEF Removal, Whole
<1>5. CASE a \in {"hermes", "openhands"}
  BY <1>1, <1>5, RemoveRulesStrips DEF Removal, Whole
<1>6. QED
  BY <1>2, <1>3, <1>4, <1>5 DEF Sharing

SplicesIn(a, doc, new) ==
    /\ DocOf(a, new) /\ Wires(new.hooks.events)
    /\ a \in Sharing /\ Regular(doc) /\ Whole(a, doc) => Theirs(new) = Theirs(doc)

\* An agent's splice is a merge of ours into what its removal leaves, the flags
\* that it sets aside.
LEMMA MergedKeeps ==
    ASSUME NEW a \in Sharing, NEW doc, DocOK(doc), DocOf(a, doc), NEW first \in BOOLEAN,
           NEW new, new.hooks = MergeInto(doc, Removal(a, doc.hooks.events), first).hooks,
           UserFlags(new) = UserFlags(doc)
    PROVE  SplicesIn(a, doc, new)
<1>1. PICK r : r = Removal(a, doc.hooks.events)
  OBVIOUS
<1>2. Strips(a, doc.hooks.events, r)
      /\ (Whole(a, doc) => SameTold(doc.hooks.events, r))
  BY <1>1, RemovalStrips
<1>3. PICK m : m = MergeInto(doc, r, first)
  OBVIOUS
<1>4. /\ DocOf(a, m) /\ Wires(m.hooks.events)
      /\ Regular(doc) /\ SameTold(doc.hooks.events, r) =>
            SameTold(doc.hooks.events, m.hooks.events)
  <2>1. Merged(a, doc, r, MergeInto(doc, r, first))
    BY <1>2, MergeIntoKeeps
  <2>2. QED
    BY <1>3, <2>1 DEF Merged
<1>5. new.hooks = m.hooks
  BY <1>1, <1>3
<1>6. DocOf(a, new) /\ Wires(new.hooks.events)
  BY <1>4, <1>5, DocIs
<1>7. ASSUME Regular(doc), Whole(a, doc) PROVE Theirs(new) = Theirs(doc)
  <2>1. SameTold(doc.hooks.events, new.hooks.events)
    BY <1>2, <1>4, <1>5, <1>7
  <2>2. QED
    BY <2>1, SameTheirs
<1>8. QED
  BY <1>6, <1>7 DEF SplicesIn

LEMMA RemovedHooks ==
    ASSUME NEW doc, DocOK(doc), NEW removed
    PROVE  Revoked(doc, removed) =
              IF doc.hooks.is # "object" \/ removed = doc.hooks.events THEN doc
              ELSE [doc EXCEPT !.hooks = IF DOMAIN removed = {} THEN NoHooks ELSE Hooks(removed)]
  BY DEF Revoked

\* What is written in place of a map of events, whose agent owns the file.
LEMMA OwnedKeeps ==
    ASSUME NEW a, a \notin Sharing, NEW doc, NEW new, new.hooks = Hooks(Generated)
    PROVE  SplicesIn(a, doc, new)
<1>1. new.hooks.is = "object" /\ new.hooks.events = Generated
  BY HooksIs
<1>2. QED
  BY <1>1, GeneratedWires, DocIs DEF SplicesIn

LEMMA ApplyKeeps ==
    ASSUME NEW a \in AllAgents \ {"opencode"}, NEW doc, NEW auto, DocOK(doc), DocOf(a, doc)
    PROVE  SplicesIn(a, doc, Apply(a, doc, auto))
<1>0. \A first, r : IsEvents(r) => /\ DocOK(MergeInto(doc, r, first))
                                   /\ MergeInto(doc, r, first).flags = doc.flags
  BY MergeIntoShape
<1>1. CASE a \in {"antigravity", "gemini"}
  <2>1. [doc EXCEPT !.hooks = Hooks(Generated)].hooks = Hooks(Generated)
    BY OneMember
  <2>2. Apply(a, doc, auto) = [doc EXCEPT !.hooks = Hooks(Generated)]
    BY <1>1 DEF Apply, ApplyAntigravity, ApplyGemini
  <2>3. QED
    BY <1>1, <2>1, <2>2, OwnedKeeps DEF Sharing
<1>2. CASE a = "cursor"
  <2>1. Apply(a, doc, auto) = ApplyCursor(doc)
    BY <1>2 DEF Apply
  <2>2. ApplyCursor(doc).hooks = Hooks(Generated)
    BY DEF ApplyCursor
  <2>3. QED
    BY <1>2, <2>1, <2>2, OwnedKeeps DEF Sharing
<1>3. CASE a = "vscode"
  <2>1. Apply(a, doc, auto) = ApplyVscode(doc)
    BY <1>3 DEF Apply
  <2>2. ApplyVscode(doc).hooks = Hooks(Generated)
    BY DEF ApplyVscode
  <2>3. QED
    BY <1>3, <2>1, <2>2, OwnedKeeps DEF Sharing
<1>4. CASE a = "openhands"
  <2>1. Apply(a, doc, auto) = ApplyOpenhands(doc)
    BY <1>4 DEF Apply
  <2>2. PICK m : m = MergeInto(doc, RemoveRules(doc.hooks.events), FALSE)
    OBVIOUS
  <2>3. ApplyOpenhands(doc) = m /\ Removal(a, doc.hooks.events) = RemoveRules(doc.hooks.events)
    BY <1>4, <2>2 DEF ApplyOpenhands, Removal
  <2>4. m.flags = doc.flags
    BY <1>0, <2>2, RemoveRulesShape, Shape
  <2>5. UserFlags(m) = UserFlags(doc)
    BY <2>4, Zenon DEF UserFlags
  <2>6. QED
    BY <1>4, <2>1, <2>2, <2>3, <2>5, MergedKeeps DEF Sharing
<1>5. CASE a = "codex"
  <2>1. Apply(a, doc, auto) = ApplyCodex(doc)
    BY <1>5 DEF Apply
  <2>2. PICK m : m = MergeInto(doc, RemoveCodex(doc.hooks.events), FALSE)
    OBVIOUS
  <2>3. ApplyCodex(doc) = m /\ Removal(a, doc.hooks.events) = RemoveCodex(doc.hooks.events)
    BY <1>5, <2>2 DEF ApplyCodex, Removal
  <2>4. m.flags = doc.flags
    BY <1>0, <2>2, RemoveCodexShape, Shape
  <2>5. UserFlags(m) = UserFlags(doc)
    BY <2>4, Zenon DEF UserFlags
  <2>6. QED
    BY <1>5, <2>1, <2>2, <2>3, <2>5, MergedKeeps DEF Sharing
<1>6. CASE a = "copilot"
  <2>1. Apply(a, doc, auto) = ApplyCopilot(doc)
    BY <1>6 DEF Apply
  <2>2. PICK m : m = MergeInto(doc, RemoveCopilot(doc.hooks.events), TRUE)
    OBVIOUS
  <2>3. PICK f : f = (m.flags \ {"enabled"}) \cup {"version"}
                     \cup (IF "disabled" \in m.flags THEN {} ELSE {"enabled"})
    OBVIOUS
  <2>4. ApplyCopilot(doc) = [m EXCEPT !.flags = f]
    BY <2>2, <2>3, Zenon DEF ApplyCopilot
  <2>5. DocOK(m) /\ m.flags = doc.flags
    BY <1>0, <2>2, RemoveCopilotShape, Shape
  <2>6. PICK d : d = [m EXCEPT !.flags = f]
    OBVIOUS
  <2>7. d.flags = f /\ d.hooks = m.hooks
    BY <2>5, <2>6, OneMember
  <2>8. UserFlags(d) = UserFlags(doc)
    BY <2>3, <2>5, <2>7 DEF UserFlags
  <2>9. Removal(a, doc.hooks.events) = RemoveCopilot(doc.hooks.events)
    BY <1>6 DEF Removal
  <2>10. QED
    BY <1>6, <2>1, <2>2, <2>4, <2>6, <2>7, <2>8, <2>9, MergedKeeps DEF Sharing
<1>7. CASE a = "hermes"
  <2>1. Apply(a, doc, auto) = ApplyHermes(doc, auto)
    BY <1>7 DEF Apply
  <2>2. PICK m : m = MergeInto(doc, RemoveHermes(doc.hooks.events), TRUE)
    OBVIOUS
  <2>3. PICK f : f = IF ~auto THEN m.flags
                     ELSE m.flags \cup {"autoAccept"}
                          \cup (IF "autoAccept" \in m.flags THEN {} ELSE {"autoManaged"})
    OBVIOUS
  <2>4. ApplyHermes(doc, auto) = [m EXCEPT !.flags = f]
    BY <2>2, <2>3, Zenon DEF ApplyHermes
  <2>5. DocOK(m) /\ m.flags = doc.flags
    BY <1>0, <2>2, RemoveRulesShape, Shape DEF RemoveHermes
  <2>6. PICK d : d = [m EXCEPT !.flags = f]
    OBVIOUS
  <2>7. d.flags = f /\ d.hooks = m.hooks
    BY <2>5, <2>6, OneMember
  <2>8. UserFlags(d) = UserFlags(doc)
    BY <2>3, <2>5, <2>7 DEF UserFlags
  <2>9. Removal(a, doc.hooks.events) = RemoveHermes(doc.hooks.events)
    BY <1>7 DEF Removal, RemoveHermes
  <2>10. QED
    BY <1>7, <2>1, <2>2, <2>4, <2>6, <2>7, <2>8, <2>9, MergedKeeps DEF Sharing
<1>8. CASE a = "claude"
  <2>1. Apply(a, doc, auto) = ApplyClaude(doc)
    BY <1>8 DEF Apply
  <2>2. PICK d : d = RemoveClaude(doc, FALSE)
    OBVIOUS
  <2>3. PICK c : c = CleanedClaude(doc.hooks.events, FALSE)
    OBVIOUS
  <2>4. ApplyClaude(doc) = MergeInto(doc, d.hooks.events, TRUE)
    BY <2>2, Zenon DEF ApplyClaude
  <2>5. /\ Strips(a, doc.hooks.events, c)
        /\ SameTold(doc.hooks.events, c)
    BY <1>8, <2>3, RemovalStrips DEF Removal, Whole, Sharing
  <2>6. /\ Strips(a, doc.hooks.events, d.hooks.events)
        /\ SameTold(doc.hooks.events, d.hooks.events)
    <3>1. CASE d = doc /\ doc.hooks.is # "object"
      <4>1. DOMAIN doc.hooks.events = {}
        BY <3>1 DEF DocOf
      <4>2. QED
        BY <3>1, <4>1 DEF Strips, SameTold
    <3>2. CASE d = doc /\ c = doc.hooks.events
      BY <2>5, <3>2
    <3>3. CASE d = [doc EXCEPT !.hooks = IF DOMAIN c = {} THEN NoHooks ELSE Hooks(c)]
      <4>1. d.hooks = IF DOMAIN c = {} THEN NoHooks ELSE Hooks(c)
        BY <3>3, OneMember
      <4>2. CASE DOMAIN c = {}
        <5>1. DOMAIN d.hooks.events = {}
          BY <4>1, <4>2, HooksIs
        <5>2. QED
          BY <2>5, <4>2, <5>1 DEF Strips, SameTold, Tell
      <4>3. CASE DOMAIN c # {}
        BY <2>5, <4>1, <4>3, HooksIs
      <4>4. QED
        BY <4>2, <4>3
    <3>4. QED
      BY <2>2, <2>3, <3>1, <3>2, <3>3, Zenon DEF RemoveClaude
  <2>7. PICK m : m = MergeInto(doc, d.hooks.events, TRUE)
    OBVIOUS
  <2>8. /\ DocOf(a, m) /\ Wires(m.hooks.events) /\ m.flags = doc.flags
        /\ Regular(doc) => SameTold(doc.hooks.events, m.hooks.events)
    <3>1. PICK r : r = d.hooks.events
      OBVIOUS
    <3>2. Strips(a, doc.hooks.events, r) /\ SameTold(doc.hooks.events, r)
          /\ m = MergeInto(doc, r, TRUE) /\ TRUE \in BOOLEAN
      BY <2>6, <2>7, <3>1
    <3>3. Merged(a, doc, r, MergeInto(doc, r, TRUE))
      BY <3>2, MergeIntoKeeps
    <3>4. QED
      BY <3>2, <3>3 DEF Merged
  <2>9. UserFlags(m) = UserFlags(doc)
    BY <2>8, Zenon DEF UserFlags
  <2>10. Regular(doc) => Theirs(m) = Theirs(doc)
    BY <2>8, <2>9, SameTheirs
  <2>11. QED
    BY <2>1, <2>4, <2>7, <2>8, <2>10 DEF SplicesIn
<1>9. QED
  BY <1>1, <1>2, <1>3, <1>4, <1>5, <1>6, <1>7, <1>8 DEF AllAgents

Cleans(a, doc, new) ==
    /\ DocOf(a, new) /\ Clean(new.hooks.events)
    /\ a \in Sharing /\ Whole(a, doc) => Theirs(new) = Theirs(doc)

LEMMA RevokedCleans ==
    ASSUME NEW a \in Sharing, NEW doc, DocOK(doc), DocOf(a, doc), NEW new,
           new.hooks = Revoked(doc, Removal(a, doc.hooks.events)).hooks,
           UserFlags(new) = UserFlags(doc)
    PROVE  Cleans(a, doc, new)
<1>1. PICK c : c = Removal(a, doc.hooks.events)
  OBVIOUS
<1>2. /\ Strips(a, doc.hooks.events, c)
      /\ Whole(a, doc) => SameTold(doc.hooks.events, c)
  BY <1>1, RemovalStrips
<1>3. Lists(a, c) /\ Clean(c)
  BY <1>2, StrippedIs
<1>4. /\ DocOf(a, new) /\ Clean(new.hooks.events)
      /\ Whole(a, doc) => SameTold(doc.hooks.events, new.hooks.events)
  <2>1. CASE doc.hooks.is # "object"
    <3>1. DOMAIN doc.hooks.events = {} /\ new.hooks = doc.hooks
      BY <2>1, RemovedHooks DEF DocOf
    <3>2. QED
      BY <3>1, DocIs DEF Clean, SameTold
  <2>2. CASE doc.hooks.is = "object" /\ c = doc.hooks.events
    <3>1. new.hooks = doc.hooks
      BY <1>1, <2>2, RemovedHooks
    <3>2. QED
      BY <1>2, <1>3, <2>2, <3>1, DocIs
  <2>3. CASE doc.hooks.is = "object" /\ c # doc.hooks.events
    <3>1. Revoked(doc, c) = [doc EXCEPT !.hooks = IF DOMAIN c = {} THEN NoHooks ELSE Hooks(c)]
      BY <2>3, RemovedHooks
    <3>2. new.hooks = IF DOMAIN c = {} THEN NoHooks ELSE Hooks(c)
      BY <1>1, <3>1, OneMember
    <3>3. CASE DOMAIN c = {}
      <4>1. DOMAIN new.hooks.events = {}
        BY <3>2, <3>3, HooksIs
      <4>2. Whole(a, doc) => SameTold(doc.hooks.events, new.hooks.events)
        BY <1>2, <3>3, <4>1 DEF SameTold, Tell
      <4>3. QED
        BY <4>1, <4>2, DocIs DEF Clean, Lists
    <3>4. CASE DOMAIN c # {}
      <4>1. new.hooks.is = "object" /\ new.hooks.events = c
        BY <3>2, <3>4, HooksIs
      <4>2. QED
        BY <1>2, <1>3, <4>1, DocIs
    <3>5. QED
      BY <3>3, <3>4
  <2>4. QED
    BY <2>1, <2>2, <2>3
<1>5. Whole(a, doc) => Theirs(new) = Theirs(doc)
  BY <1>4, SameTheirs
<1>6. QED
  BY <1>4, <1>5 DEF Cleans

LEMMA EmptiedCleans ==
    ASSUME NEW a, a \notin Sharing, NEW doc, NEW new, new.hooks = NoHooks
    PROVE  Cleans(a, doc, new)
<1>1. DOMAIN new.hooks.events = {}
  BY HooksIs
<1>2. QED
  BY <1>1 DEF Cleans, DocOf, Clean

LEMMA RevokeCleans ==
    ASSUME NEW a \in AllAgents \ {"opencode"}, NEW doc, DocOK(doc), DocOf(a, doc)
    PROVE  Cleans(a, doc, Revoke(a, doc))
<1>0. \A r : Revoked(doc, r).flags = doc.flags
  <2>1. ASSUME NEW r PROVE Revoked(doc, r).flags = doc.flags
    <3>1. \A x : [doc EXCEPT !.hooks = x].flags = doc.flags
      BY OneMember
    <3>2. QED
      BY <3>1, Zenon DEF Revoked
  <2>2. QED
    BY <2>1
<1>1. CASE a \in {"antigravity", "cursor", "gemini"}
  <2>1. [doc EXCEPT !.hooks = NoHooks].hooks = NoHooks
    BY OneMember
  <2>2. Revoke(a, doc) = [doc EXCEPT !.hooks = NoHooks]
    BY <1>1 DEF Revoke, RevokeAntigravity, RevokeGemini, RevokeCursor
  <2>3. QED
    BY <1>1, <2>1, <2>2, EmptiedCleans DEF Sharing
<1>2. CASE a = "vscode"
  <2>1. Revoke(a, doc) = Empty /\ Empty.hooks = NoHooks
    BY <1>2 DEF Revoke, RevokeVscode, Empty
  <2>2. QED
    BY <1>2, <2>1, EmptiedCleans DEF Sharing
<1>3. CASE a \in {"claude", "codex", "copilot", "openhands"}
  <2>1. PICK d : d = Revoked(doc, Removal(a, doc.hooks.events))
    OBVIOUS
  <2>2. d.flags = doc.flags
    BY <1>0, <2>1
  <2>3. UserFlags(d) = UserFlags(doc)
    BY <2>2, Zenon DEF UserFlags
  <2>4. Revoke(a, doc) = d
    <3>1. CASE a = "claude"
      <4>1. Removal(a, doc.hooks.events) = CleanedClaude(doc.hooks.events, FALSE)
        BY <3>1 DEF Removal
      <4>2. RemoveClaude(doc, FALSE) = d
        BY <2>1, <4>1, Zenon DEF RemoveClaude, Revoked
      <4>3. QED
        BY <3>1, <4>2 DEF Revoke
    <3>2. CASE a = "codex"
      BY <2>1, <3>2 DEF Removal, Revoke, RevokeCodex
    <3>3. CASE a = "copilot"
      BY <2>1, <3>3 DEF Removal, Revoke, RevokeCopilot
    <3>4. CASE a = "openhands"
      BY <2>1, <3>4 DEF Removal, Revoke, RevokeOpenhands
    <3>5. QED
      BY <1>3, <3>1, <3>2, <3>3, <3>4
  <2>5. QED
    BY <1>3, <2>1, <2>3, <2>4, RevokedCleans DEF Sharing
<1>4. CASE a = "hermes"
  <2>1. PICK d : d = Revoked(doc, RemoveHermes(doc.hooks.events))
    OBVIOUS
  <2>2. d.flags = doc.flags /\ Removal(a, doc.hooks.events) = RemoveHermes(doc.hooks.events)
    BY <1>0, <1>4, <2>1 DEF Removal, RemoveHermes
  <2>3. DocOK(d)
    BY <2>1, RevokedShape, RemoveRulesShape, Shape DEF RemoveHermes
  <2>4. PICK f : f = d.flags \ (IF "autoManaged" \in d.flags
                                THEN {"autoManaged", "autoAccept"} ELSE {})
    OBVIOUS
  <2>5. PICK n : n = [d EXCEPT !.flags = f]
    OBVIOUS
  <2>6. n.flags = f /\ n.hooks = d.hooks
    BY <2>3, <2>5, OneMember
  <2>7. UserFlags(n) = UserFlags(doc) /\ UserFlags(d) = UserFlags(doc)
    BY <2>2, <2>4, <2>6 DEF UserFlags
  <2>8. (RevokeHermes(doc) = doc /\ d = doc) \/ RevokeHermes(doc) = n
    BY <2>1, <2>4, <2>5, Zenon DEF RevokeHermes
  <2>9. Revoke(a, doc) = RevokeHermes(doc)
    BY <1>4 DEF Revoke
  <2>10. Cleans(a, doc, d) /\ Cleans(a, doc, n)
    BY <1>4, <2>1, <2>2, <2>6, <2>7, RevokedCleans DEF Sharing
  <2>11. QED
    BY <2>8, <2>9, <2>10
<1>5. QED
  BY <1>1, <1>2, <1>3, <1>4 DEF AllAgents

LEMMA SameHooks ==
    ASSUME NEW a, NEW doc, NEW new, DocOf(a, doc), new.hooks = doc.hooks PROVE DocOf(a, new)
  BY DEF DocOf

LEMMA EmptyHolds == \A a : DocOf(a, Empty)
<1>1. Empty.hooks = NoHooks
  BY DEF Empty
<1>2. QED
  BY <1>1, HooksIs DEF DocOf

LEMMA GeneratedHolds ==
    ASSUME NEW a, NEW doc, DocOK(doc) PROVE DocOf(a, [doc EXCEPT !.hooks = Hooks(Generated)])
<1>1. [doc EXCEPT !.hooks = Hooks(Generated)].hooks = Hooks(Generated)
  BY OneMember
<1>2. QED
  BY <1>1, HooksIs, GeneratedWires, DocIs

\* A task's edit of the document it read.
LEMMA SplicedKeeps ==
    ASSUME agent \in AllAgents, NEW doc, DocOK(doc), DocOf(agent, doc),
           Now \in Tasks(agent), Now.what # "unplug"
    PROVE  /\ DocOf(agent, Spliced(doc))
           /\ Now.what = "install" => SplicesIn(agent, doc, Spliced(doc))
           /\ Now.what \in {"revoke", "reconcile", "dedupe"} => Cleans(agent, doc, Spliced(doc))
           /\ Now.what \notin {"install", "revoke", "reconcile", "dedupe"} =>
                  Theirs(Spliced(doc)) = Theirs(doc)
<1>1. CASE Now.what = "install"
  <2>1. Spliced(doc) = Apply(agent, doc, opts.auto) /\ agent # "opencode"
    BY <1>1 DEF Spliced, Tasks
  <2>2. SplicesIn(agent, doc, Apply(agent, doc, opts.auto))
    BY <2>1, ApplyKeeps
  <2>3. QED
    BY <1>1, <2>1, <2>2 DEF SplicesIn
<1>2. CASE Now.what \in {"revoke", "reconcile", "dedupe"}
  <2>1. Spliced(doc) = Revoke(agent, doc) /\ agent # "opencode"
    BY <1>2 DEF Spliced, Tasks
  <2>2. Cleans(agent, doc, Revoke(agent, doc))
    BY <2>1, RevokeCleans
  <2>3. QED
    BY <1>2, <2>1, <2>2 DEF Cleans
<1>3. CASE Now.what \notin {"install", "revoke", "reconcile", "dedupe"}
  <2>1. PICK f : /\ f \in {doc.flags \cup {"registered"}, doc.flags \ {"registered"},
                           doc.flags \ {"legacy"}}
                 /\ Spliced(doc) = [doc EXCEPT !.flags = f]
    <3>1. Now.what \in Whats
      BY DEF Tasks
    <3>2. Spliced(doc) \in {Marked(doc), Unmarked(doc), WithoutLegacy(doc)}
      BY <1>3, <3>1 DEF Spliced, Whats, Registered, Enabled, Enlisted, Deregistered, Delisted
    <3>3. QED
      BY <3>2, Zenon DEF Marked, Unmarked, WithoutLegacy
  <2>2. PICK d : d = Spliced(doc)
    OBVIOUS
  <2>3. d.flags = f /\ d.hooks = doc.hooks
    BY <2>1, <2>2, OneMember
  <2>4. UserFlags(d) = UserFlags(doc)
    BY <2>1, <2>3 DEF UserFlags
  <2>5. Theirs(d) = Theirs(doc)
    BY <2>3, <2>4, TheirsIs
  <2>6. QED
    BY <1>3, <2>2, <2>3, <2>5, SameHooks
<1>4. QED
  BY <1>1, <1>2, <1>3

LEMMA EditedHolds ==
    ASSUME NEW a, NEW doc, DocOK(doc), DocOf(a, doc), NEW k, NEW d \in Edited(doc, k)
    PROVE  DocOf(a, d)
<1> DEFINE events == doc.hooks.events
           put(rules) == [doc EXCEPT !.hooks =
               Hooks([e \in DOMAIN events \cup {k} |->
                         IF e = k THEN List(rules) ELSE events[e]])]
<1>1. ASSUME NEW rules \in Seq(Seq(EntriesOf(a))) PROVE DocOf(a, put(rules))
  <2>1. PICK v : v = [e \in DOMAIN events \cup {k} |->
                         IF e = k THEN List(rules) ELSE events[e]]
    OBVIOUS
  <2>2. Lists(a, v)
    <3>1. ListOf(a, List(rules))
      BY DEF List, ListOf
    <3>2. \A e \in DOMAIN events : ListOf(a, events[e])
      BY DEF DocOf
    <3>3. QED
      BY <2>1, <3>1, <3>2 DEF Lists
  <2>3. [doc EXCEPT !.hooks = Hooks(v)].hooks = Hooks(v)
    BY OneMember
  <2>4. DocOf(a, [doc EXCEPT !.hooks = Hooks(v)])
    BY <2>2, <2>3, HooksIs, DocIs
  <2>5. QED
    BY <2>1, <2>4, Zenon
<1>2. \E rules \in Seq(Seq(EntriesOf(a))) : d = put(rules)
  <2> HIDE DEF put
  <2>1. PICK rules : rules = IF k \in DOMAIN events /\ events[k].array THEN events[k].rules
                             ELSE << >>
    OBVIOUS
  <2>2. Edited(doc, k) = {put(<< <<"t2">> >> \o rules)}
            \cup (IF rules = << >> THEN {}
                  ELSE {put(rules \o <<rules[1]>>),
                        put(<<Append(rules[1], "t2")>> \o Tail(rules))})
    BY <2>1, Zenon DEF Edited, put
  <2>3. rules \in Seq(Seq(EntriesOf(a)))
    BY <2>1 DEF DocOf, ListOf
  <2>4. PICK E : E = EntriesOf(a) /\ "t2" \in E
    BY EntriesAre DEF EntriesOf, Others, Entries
  <2>5. << <<"t2">> >> \o rules \in Seq(Seq(E))
    <3>1. << <<"t2">> >> \in Seq(Seq(E))
      BY <2>4
    <3>2. QED
      BY <2>3, <2>4, <3>1, ConcatProperties
  <2>6. ASSUME rules # << >>
        PROVE  /\ rules \o <<rules[1]>> \in Seq(Seq(E))
               /\ <<Append(rules[1], "t2")>> \o Tail(rules) \in Seq(Seq(E))
    <3>1. rules[1] \in Seq(E) /\ Tail(rules) \in Seq(Seq(E))
      BY <2>3, <2>4, <2>6, HeadTailProperties
    <3>2. Append(rules[1], "t2") \in Seq(E)
      BY <2>4, <3>1, AppendProperties
    <3>3. <<rules[1]>> \in Seq(Seq(E)) /\ <<Append(rules[1], "t2")>> \in Seq(Seq(E))
      BY <3>1, <3>2
    <3>4. QED
      BY <2>3, <2>4, <3>1, <3>3, ConcatProperties
  <2>7. QED
    BY <2>2, <2>4, <2>5, <2>6
<1>3. QED
  BY <1>1, <1>2, Zenon

LEMMA AgedHolds ==
    ASSUME NEW a, NEW doc, DocOK(doc), DocOf(a, doc), NEW to \in EntriesOf(a)
    PROVE  DocOf(a, Aged(doc, to))
<1> DEFINE Old(rules) == [r \in DOMAIN rules |-> [i \in DOMAIN rules[r] |->
                             IF rules[r][i] = "ours" THEN to ELSE rules[r][i]]]
           events == doc.hooks.events
<1>1. ASSUME NEW rules \in Seq(Seq(EntriesOf(a)))
      PROVE  Old(rules) \in Seq(Seq(EntriesOf(a))) /\ Len(Old(rules)) = Len(rules)
  <2>1. PICK E : E = EntriesOf(a)
    OBVIOUS
  <2>2. \A rule \in Seq(E) :
            [i \in DOMAIN rule |-> IF rule[i] = "ours" THEN to ELSE rule[i]] \in Seq(E)
    BY <2>1
  <2>3. PICK n \in Nat : n = Len(rules) /\ rules \in [1..n -> Seq(E)]
    BY <2>1, LenProperties
  <2>4. PICK o : o = Old(rules)
    OBVIOUS
  <2>5. DOMAIN o = 1..n /\ o = [r \in 1..n |-> o[r]] /\ \A r \in 1..n : o[r] \in Seq(E)
    BY <2>2, <2>3, <2>4
  <2>6. o \in [1..n -> Seq(E)]
    BY <2>5
  <2>7. o \in Seq(Seq(E)) /\ Len(o) = n
    BY <2>5, <2>6
  <2>8. QED
    BY <2>1, <2>3, <2>4, <2>7, Zenon
<1>2. PICK n : n = [k \in DOMAIN events |-> [events[k] EXCEPT !.rules = Old(events[k].rules)]]
  OBVIOUS
<1>3. Aged(doc, to) = [doc EXCEPT !.hooks.events = n]
  BY <1>2, Zenon DEF Aged
<1> HIDE DEF Old
<1>4. Lists(a, n)
  <2>1. ASSUME NEW k \in DOMAIN events PROVE ListOf(a, n[k])
    <3>1. PICK e : e = events[k]
      OBVIOUS
    <3>2. e = [array |-> e.array, rules |-> e.rules] /\ ListOf(a, e)
      BY <3>1 DEF DocOK, DocOf
    <3>3. n[k] = [e EXCEPT !.rules = Old(e.rules)]
      BY <1>2, <3>1
    <3>4. n[k].array = e.array /\ n[k].rules = Old(e.rules)
      BY <3>2, <3>3
    <3>5. QED
      BY <1>1, <3>2, <3>4 DEF ListOf
  <2>2. QED
    BY <1>2, <2>1 DEF Lists
<1>5. PICK d : d = Aged(doc, to)
  OBVIOUS
<1>6. d.hooks.is = doc.hooks.is /\ d.hooks.events = n
  BY <1>3, <1>5 DEF DocOK
<1>7. DOMAIN n = DOMAIN events
  BY <1>2
<1>8. DocOf(a, d)
  BY <1>4, <1>6, <1>7, DocIs
<1>9. QED
  BY <1>5, <1>8

-----------------------------------------------------------------------------
(***************************************************************************)
(* The files hold what users and installers write, and what is about to be *)
(* written is the edit of the document that was read.                      *)
(***************************************************************************)
DocsHold == \A l \in Locs : DocOf(agent, files[l].doc)
EditUnderway ==
    pc \in {"save", "truncate", "write"} =>
        /\ DocOK(read) /\ DocOf(agent, read)
        /\ mem = Spliced(read)
        /\ Now.what # "unplug"
ListsInv == agent \in Agents /\ DocsHold /\ DocOf(agent, mem) /\ EditUnderway

LEMMA OptsStay == ASSUME [Next]_vars PROVE opts' = opts /\ agent' = agent
  BY DEF Next, Install, Uninstall, Start, InstallRefused, BackupFirst, Read, BackupLast,
         Delete, Truncate, Write, WritePlugin, Persist, RemovePlugin, Dies,
         TaskFails, Edit, BinaryMoves, Still, vars

LEMMA SplicedStays ==
    ASSUME UNCHANGED <<opts, agent, todo>>, NEW d, read' = d
    PROVE  Spliced(read)' = Spliced(d)
<1>1. Now' = Now
  BY DEF Now
<1>2. QED
  BY <1>1 DEF Spliced

LEMMA ReadLoads ==
    ASSUME Read PROVE Turn \/ Ends \/ (Loads /\ read' = File.doc)
<1>1. Done => Turn
  BY Zenon DEF Done, NextTask, Turn
<1>2. FailTask \/ Done \/ (Loads /\ read' = File.doc)
  BY Zenon DEF Read, Loads
<1>3. QED
  BY <1>1, <1>2, Fails, Zenon

LEMMA EditStep ==
    ASSUME TasksInv, FilesInv, DocsHold, EditUnderway, [Next]_vars PROVE EditUnderway'
<1>0. opts' = opts /\ agent' = agent
  BY OptsStay
<1>1. ASSUME pc' \notin {"save", "truncate", "write"} PROVE EditUnderway'
  BY <1>1 DEF EditUnderway
<1>2. ASSUME pc \in {"save", "truncate", "write"}, UNCHANGED <<todo, read, mem>>
      PROVE  EditUnderway'
  <2>1. PICK d : d = read
    OBVIOUS
  <2>2. DocOK(d) /\ DocOf(agent, d) /\ mem = Spliced(d) /\ Now.what # "unplug"
    BY <1>2, <2>1 DEF EditUnderway
  <2>3. Spliced(read)' = Spliced(d) /\ Now' = Now /\ read' = d
    BY <1>0, <1>2, <2>1, SplicedStays DEF Now
  <2>4. DocOK(read)' /\ DocOf(agent, read)'
    BY <1>0, <2>2, <2>3 DEF DocOK, DocOf
  <2>5. QED
    BY <1>2, <2>2, <2>3, <2>4, Zenon DEF EditUnderway
<1>3. ASSUME Turn \/ Ends \/ Begin PROVE EditUnderway'
  <2>1. \E s : pc' = FirstPc(s)
    <3>1. FirstPc(<< >>) = "idle"
      BY DEF FirstPc
    <3>2. QED
      BY <1>3, <3>1, Zenon DEF Turn, Ends, Begin
  <2>2. pc' \in {"idle", "backup", "read"}
    BY <2>1 DEF FirstPc
  <2>3. QED
    BY <1>1, <2>2
<1>4. CASE Install \/ Uninstall
  BY <1>3, <1>4, Zenon DEF Install, Uninstall, Start, Begin
<1>5. CASE InstallRefused \/ Edit \/ BinaryMoves
  <2>1. pc' = "idle"
    BY <1>5 DEF InstallRefused, Edit, BinaryMoves, run
  <2>2. QED
    BY <1>1, <2>1
<1>6. CASE BackupFirst \/ WritePlugin
  <2>1. pc' \in {"read", "persist"}
    BY <1>6 DEF BackupFirst, WritePlugin
  <2>2. QED
    BY <1>1, <2>1
<1>7. CASE Read
  <2>1. CASE Loads /\ read' = File.doc
    <3>1. PICK d : d = File.doc
      OBVIOUS
    <3>2. /\ read' = d /\ mem' = Spliced(d) /\ todo' = todo /\ Now' = Now
          /\ Now.what # "unplug" /\ pc # "idle"
      BY <2>1, <3>1 DEF Loads, Now
    <3>3. Now \in Tasks(agent) /\ Now.loc \in Locs
      BY <3>2, HeadTailProperties DEF TasksInv, Now, Tasks
    <3>4. DocOK(d) /\ DocOf(agent, d)
      BY <3>1, <3>3 DEF FilesInv, FilesOK, FileOK, DocsHold, File
    <3>5. Spliced(read)' = Spliced(d)
      BY <1>0, <3>2, SplicedStays
    <3>6. DocOK(read)' /\ DocOf(agent, read)'
      BY <1>0, <3>2, <3>4 DEF DocOK, DocOf
    <3>7. QED
      BY <3>2, <3>5, <3>6, Zenon DEF EditUnderway
  <2>2. QED
    BY <1>3, <1>7, <2>1, ReadLoads
<1>8. CASE BackupLast \/ Truncate
  <2>1. pc \in {"save", "truncate", "write"} /\ UNCHANGED <<todo, read, mem>>
    BY <1>8 DEF BackupLast, Truncate
  <2>2. QED
    BY <1>2, <2>1
<1>9. CASE Delete \/ Write \/ Persist \/ RemovePlugin
  <2>1. NextTask(Cleaned, files')
    BY <1>9 DEF Delete, Write, Persist, RemovePlugin
  <2>2. QED
    BY <1>3, <2>1, Zenon DEF NextTask, Turn
<1>10. CASE Dies \/ TaskFails
  BY <1>3, <1>10, Fails, Zenon DEF Dies, TaskFails, Stop, Ends
<1>11. CASE UNCHANGED vars
  <2>1. UNCHANGED <<pc, todo, read, mem>>
    BY <1>11 DEF vars, run
  <2>2. QED
    BY <1>1, <1>2, <2>1
<1>12. QED
  BY <1>4, <1>5, <1>6, <1>7, <1>8, <1>9, <1>10, <1>11, Zenon DEF Next

\* How a step may leave the documents.
PutsHeld ==
    \E doc : \E l \in Locs, is \in {"absent", "blank", "doc"} :
        /\ DocOK(doc) /\ DocOf(agent, doc)
        /\ is = "absent" => doc = Empty
        /\ Holds(l, is, doc)

LEMMA DocsStep ==
    ASSUME TasksInv, FilesInv, ListsInv, [Next]_vars PROVE DocsHold'
<1>0. /\ agent \in AllAgents /\ FilesOK(files) /\ DocOK(mem) /\ DocOK(Empty)
      /\ DocOf(agent, mem) /\ DocOf(agent, Empty) /\ agent' = agent
      /\ \A l \in Locs : DocOK(files[l].doc) /\ DocOf(agent, files[l].doc)
      /\ pc # "idle" => Now.loc \in Locs
      /\ "main" \in Locs /\ "plugin" \in Locs /\ "doc" # "absent"
  <2>1. pc # "idle" => Now \in Tasks(agent)
    BY HeadTailProperties DEF TasksInv, Now
  <2>2. QED
    BY <2>1, EmptyIsDoc, EmptyHolds, OptsStay
       DEF TasksInv, FilesInv, FilesOK, FileOK, Tasks, ListsInv, DocsHold, Locs
<1>1. ASSUME PutsHeld PROVE DocsHold'
  <2>1. PICK doc : \E l \in Locs, is \in {"absent", "blank", "doc"} :
            DocOK(doc) /\ DocOf(agent, doc) /\ (is = "absent" => doc = Empty) /\ Holds(l, is, doc)
    BY <1>1, Zenon DEF PutsHeld
  <2>2. PICK l \in Locs, is \in {"absent", "blank", "doc"} :
            DocOK(doc) /\ DocOf(agent, doc) /\ (is = "absent" => doc = Empty) /\ Holds(l, is, doc)
    BY <2>1
  <2>3. files'[l].doc = doc /\ \A m \in Locs : m # l => files'[m] = files[m]
    BY <1>0, <2>2, HoldsOK
  <2>4. QED
    BY <1>0, <2>2, <2>3 DEF DocsHold
<1>2. CASE Delete
  BY <1>0, <1>1, <1>2, Zenon DEF Delete, PutsHeld
<1>3. CASE Truncate
  BY <1>0, <1>1, <1>3, Zenon DEF Truncate, PutsHeld
<1>4. CASE Write
  BY <1>0, <1>1, <1>4, Zenon DEF Write, PutsHeld
<1>5. CASE WritePlugin
  <2>1. DocOK([Empty EXCEPT !.hooks = Hooks(Generated)])
    BY <1>0, GeneratedShape DEF DocOK, Hooks, IsEvents
  <2>2. DocOf(agent, [Empty EXCEPT !.hooks = Hooks(Generated)])
    BY <1>0, GeneratedHolds
  <2>3. QED
    BY <1>0, <1>1, <1>5, <2>1, <2>2, Zenon DEF WritePlugin, PutsHeld
<1>6. CASE Persist
  BY <1>0, <1>1, <1>6, Zenon DEF Persist, PutsHeld
<1>7. CASE RemovePlugin
  BY <1>0, <1>1, <1>7, Zenon DEF RemovePlugin, PutsHeld
<1>8. CASE Edit
  <2>1. PICK k \in Wired \cup OtherEvents, doc \in Users \cup UNION
            {Edited(files["main"].doc, e) : e \in Wired \cup OtherEvents} :
            Holds("main", "doc", doc)
    BY <1>8, Zenon DEF Edit
  <2>2. DocOK(doc) /\ DocOf(agent, doc)
    <3>1. CASE doc \in Users
      BY <3>1, UsersAssumption DEF ListsInv
    <3>2. CASE doc \notin Users
      <4>1. PICK e \in Wired \cup OtherEvents : doc \in Edited(files["main"].doc, e)
        BY <2>1, <3>2
      <4>2. QED
        BY <1>0, <4>1, EditedShape, EditedHolds
    <3>3. QED
      BY <3>1, <3>2
  <2>3. QED
    BY <1>0, <1>1, <2>1, <2>2, Zenon DEF PutsHeld
<1>9. CASE BinaryMoves
  <2>1. PICK to \in IF agent = "claude" THEN {"stale", "retired"} ELSE {"stale"} :
            files' = [files EXCEPT !["main"].doc = Aged(files["main"].doc, to)]
    BY <1>9 DEF BinaryMoves
  <2>2. to \in {"stale", "retired"} /\ to \in EntriesOf(agent)
    BY DEF EntriesOf, Entries
  <2>3. PICK d : d = Aged(files["main"].doc, to)
    OBVIOUS
  <2>4. DocOf(agent, d)
    BY <1>0, <2>2, <2>3, AgedHolds
  <2>5. DOMAIN files = Locs /\ FileOK(files["main"])
    BY <1>0 DEF FilesOK
  <2>6. files'["main"].doc = d /\ \A l \in Locs : l # "main" => files'[l] = files[l]
    BY <1>0, <2>1, <2>3, <2>5 DEF FileOK
  <2>7. QED
    BY <1>0, <2>4, <2>6 DEF DocsHold
<1>10. CASE UNCHANGED files
  BY <1>0, <1>10 DEF DocsHold
<1>11. \/ Delete \/ Truncate \/ Write \/ WritePlugin \/ Persist \/ RemovePlugin
       \/ Edit \/ BinaryMoves \/ UNCHANGED files
  <2>1. Install \/ Uninstall \/ InstallRefused => UNCHANGED files
    BY DEF Install, Uninstall, Start, InstallRefused
  <2>2. BackupFirst \/ BackupLast \/ Dies \/ TaskFails \/ UNCHANGED vars => UNCHANGED files
    BY DEF BackupFirst, BackupLast, Dies, TaskFails, vars
  <2>3. QED
    BY <2>1, <2>2, ReadFlow, Zenon DEF Next
<1>12. QED
  BY <1>2, <1>3, <1>4, <1>5, <1>6, <1>7, <1>8, <1>9, <1>10, <1>11, Zenon

LEMMA ListsStep == ASSUME TasksInv, FilesInv, ListsInv, [Next]_vars PROVE ListsInv'
<1>1. DocsHold' /\ EditUnderway'
  BY DocsStep, EditStep, Zenon DEF ListsInv
<1>2. agent' = agent /\ DocOf(agent, Empty)
  BY OptsStay, EmptyHolds
<1>3. DocOf(agent, mem')
  <2>1. CASE Loads
    <3>1. Now \in Tasks(agent) /\ Now.loc \in Locs /\ Now.what # "unplug" /\ agent \in AllAgents
      BY <2>1, HeadTailProperties DEF Loads, TasksInv, Now, Tasks
    <3>2. PICK d : d = File.doc
      OBVIOUS
    <3>3. DocOK(d) /\ DocOf(agent, d)
      BY <3>1, <3>2 DEF FilesInv, FilesOK, FileOK, ListsInv, DocsHold, File
    <3>4. DocOf(agent, Spliced(d)) /\ mem' = Spliced(d)
      BY <2>1, <3>1, <3>2, <3>3, SplicedKeeps DEF Loads
    <3>5. QED
      BY <3>4, Zenon
  <2>2. CASE mem' = Empty
    BY <1>2, <2>2
  <2>3. CASE mem' = mem
    BY <2>3 DEF ListsInv
  <2>4. QED
    BY <2>1, <2>2, <2>3, Flow, Zenon DEF Turn, Ends, Begin, Stays, Plugs
<1>4. DocOf(agent, mem)'
  BY <1>2, <1>3 DEF DocOf
<1>5. agent' \in Agents
  BY <1>2 DEF ListsInv
<1>6. QED
  BY <1>1, <1>4, <1>5, Zenon DEF ListsInv

\* Cursor's and Gemini's edits set no flag of the user's.
LEMMA FlagsOnly ==
    ASSUME agent \in {"cursor", "gemini"}, NEW doc, DocOK(doc), Now \in Tasks(agent),
           Now.what # "unplug"
    PROVE  Spliced(doc).flags \in
               {doc.flags, doc.flags \cup {"version"}, doc.flags \cup {"registered"},
                doc.flags \ {"registered"}, doc.flags \ {"legacy"}}
<1>1. Now.what \in Whats
  BY DEF Tasks
<1>2. \A x : [doc EXCEPT !.hooks = x].flags = doc.flags
  BY OneMember
<1>3. \A x : [doc EXCEPT !.flags = x].flags = x
  BY OneMember
<1>4. Revoke(agent, doc).flags = doc.flags
  BY <1>2 DEF Revoke, RevokeCursor, RevokeGemini
<1>5. Apply(agent, doc, opts.auto).flags \in {doc.flags, doc.flags \cup {"version"}}
  BY <1>2 DEF Apply, ApplyCursor, ApplyGemini
<1>6. /\ Marked(doc).flags = doc.flags \cup {"registered"}
      /\ Unmarked(doc).flags = doc.flags \ {"registered"}
      /\ WithoutLegacy(doc).flags = doc.flags \ {"legacy"}
  BY <1>3 DEF Marked, Unmarked, WithoutLegacy
<1>7. QED
  BY <1>1, <1>4, <1>5, <1>6
     DEF Spliced, Whats, Registered, Enabled, Enlisted, Deregistered, Delisted

LEMMA ListsKeep ==
    ASSUME TasksInv, ListsInv PROVE OthersKept
<1> SUFFICES ASSUME pc \in {"truncate", "write"}
             PROVE  /\ /\ agent \in Sharing
                       /\ Regular(read)
                       /\ agent \in {"claude", "codex"} \/ ~Mixed(read.hooks.events)
                       => Theirs(mem) = Theirs(read)
                    /\ agent \in {"cursor", "gemini"} => UserFlags(mem) = UserFlags(read)
  BY Zenon DEF OthersKept, Sharing
<1>1. DocOK(read) /\ DocOf(agent, read) /\ mem = Spliced(read) /\ Now.what # "unplug"
  BY DEF ListsInv, EditUnderway
<1>2. Now \in Tasks(agent) /\ agent \in AllAgents
  BY HeadTailProperties DEF TasksInv, Now
<1>3. ASSUME agent \in {"cursor", "gemini"} PROVE UserFlags(mem) = UserFlags(read)
  <2>1. PICK d : d = Spliced(read)
    OBVIOUS
  <2>2. \E f \in {read.flags, read.flags \cup {"version"}, read.flags \cup {"registered"},
                 read.flags \ {"registered"}, read.flags \ {"legacy"}} : d.flags = f
    BY <1>1, <1>2, <1>3, <2>1, FlagsOnly
  <2>3. UserFlags(d) = UserFlags(read)
    BY <2>2 DEF UserFlags
  <2>4. QED
    BY <1>1, <2>1, <2>3, Zenon
<1>4. ASSUME agent \in Sharing, Regular(read),
             agent \in {"claude", "codex"} \/ ~Mixed(read.hooks.events)
      PROVE  Theirs(Spliced(read)) = Theirs(read)
  <2>0. Whole(agent, read)
    BY <1>4, MixedIs DEF Whole
  <2>1. PICK d : d = Spliced(read)
    OBVIOUS
  <2>2. CASE Now.what = "install"
    BY <1>1, <1>2, <1>4, <2>0, <2>2, SplicedKeeps DEF SplicesIn
  <2>3. CASE Now.what \in {"revoke", "reconcile", "dedupe"}
    BY <1>1, <1>2, <1>4, <2>0, <2>3, SplicedKeeps DEF Cleans
  <2>4. QED
    BY <1>1, <1>2, <2>2, <2>3, SplicedKeeps
<1>5. QED
  BY <1>1, <1>3, <1>4, Zenon

-----------------------------------------------------------------------------
(***************************************************************************)
(* Nothing is said before the last task is done, and then of the files as  *)
(* that task left them.  While Claude Code's uninstall runs, a file it     *)
(* knows holds of others what it held before, and is as it was if nothing  *)
(* has been written, unless it is being written or has been warned of.     *)
(***************************************************************************)
OutcomeOK(o) == o = [removed |-> o.removed, failed |-> o.failed]
Same(l) ==
    /\ Theirs(files[l].doc) = Theirs(before[l].doc)
    /\ outcome.removed = {} => files[l] = before[l]
HeldAt(l) == l \in outcome.failed \/ (pc = "write" /\ Now.loc = l) \/ Same(l)
MemHeld == Now.loc \in outcome.failed \/ Theirs(mem) = Theirs(before[Now.loc].doc)
Revocations == [loc : Known, what : {"revoke", "reconcile"}]
Cleaning == pc # "idle" /\ agent = "claude" /\ last = "uninstall"
ReportInv ==
    /\ OutcomeOK(outcome)
    /\ pc # "idle" => last \in {"install", "uninstall"} /\ report = "none"
    /\ Cleaning => /\ todo \in Seq(Revocations)
                   /\ \A l \in Known : HeldAt(l)
                   /\ pc \in {"save", "truncate", "write"} => MemHeld

LEMMA Counts ==
    ASSUME OutcomeOK(outcome)
    PROVE  /\ OutcomeOK(Cleaned) /\ OutcomeOK(Warned(outcome)) /\ OutcomeOK(NoOutcome)
           /\ Cleaned.failed = outcome.failed /\ Cleaned.removed # {}
           /\ Warned(outcome).failed = outcome.failed \cup {Now.loc}
           /\ Warned(outcome).removed = outcome.removed
           /\ NoOutcome.failed = {} /\ NoOutcome.removed = {}
<1>1. PICK r, f : r = outcome.removed /\ f = outcome.failed
  OBVIOUS
<1>2. outcome = [removed |-> r, failed |-> f]
  BY <1>1 DEF OutcomeOK
<1>3. PICK x : x = r \cup {Now.loc}
  OBVIOUS
<1>4. PICK y : y = f \cup {Now.loc}
  OBVIOUS
<1>5. Cleaned = [removed |-> x, failed |-> f]
  BY <1>1, <1>2, <1>3 DEF Cleaned
<1>6. Warned(outcome) = [removed |-> r, failed |-> y]
  BY <1>1, <1>2, <1>4 DEF Warned
<1>7. x # {}
  BY <1>3
<1>8. QED
  BY <1>1, <1>4, <1>5, <1>6, <1>7 DEF OutcomeOK, NoOutcome

\* The next task, or the end of the run.
LEMMA Tells ==
    ASSUME ReportInv, pc # "idle", NEW r, NEW fs, NextTask(r, fs), fs = files',
           OutcomeOK(r), UNCHANGED <<agent, before>>,
           Cleaning => \A l \in Known :
               \/ l \in r.failed
               \/ /\ Theirs(files'[l].doc) = Theirs(before[l].doc)
                  /\ r.removed = {} => files'[l] = before[l]
    PROVE  ReportInv' /\ ReportIsTrue'
<1>1. /\ last \in {"install", "uninstall"} /\ report = "none" /\ outcome' = r
      /\ todo' = Tail(todo) /\ pc' = FirstPc(Tail(todo)) /\ OutcomeOK(outcome)'
  BY DEF ReportInv, NextTask, OutcomeOK
<1>2. CASE Tail(todo) # << >>
  <2>1. last' = last /\ last' # "uninstalled" /\ report' = "none"
    BY <1>1, <1>2 DEF NextTask
  <2>2. pc' \in {"idle", "backup", "read"}
    BY <1>1 DEF FirstPc
  <2>3. Cleaning' => Cleaning
    BY <2>1 DEF Cleaning
  <2>4. ASSUME Cleaning PROVE todo' \in Seq(Revocations) /\ \A l \in Known : HeldAt(l)'
    <3>1. todo \in Seq(Revocations)
      BY <2>4 DEF ReportInv
    <3>2. Tail(todo) \in Seq(Revocations)
      <4>1. CASE todo = << >>
        BY <1>2, <4>1
      <4>2. CASE todo # << >>
        BY <3>1, <4>2, HeadTailProperties
      <4>3. QED
        BY <4>1, <4>2
    <3>3. \A l \in Known : l \in outcome'.failed \/ Same(l)'
      BY <1>1, <2>4 DEF Same
    <3>4. QED
      BY <1>1, <3>2, <3>3, Zenon DEF HeldAt
  <2>5. QED
    BY <1>1, <2>1, <2>2, <2>3, <2>4 DEF ReportInv, ReportIsTrue
<1>3. CASE Tail(todo) = << >>
  <2>1. pc' = "idle" /\ (report' = "none" \/ (agent = "claude" /\ last = "uninstall"
                                              /\ report' = Says(r, fs)))
    BY <1>1, <1>3 DEF NextTask, FirstPc
  <2>2. ReportInv'
    BY <1>1, <2>1 DEF ReportInv, Cleaning
  <2>3. CASE report' = "none"
    <3>1. report' \notin {"all", "nothing"}
      BY <2>3
    <3>2. QED
      BY <2>2, <3>1, Zenon DEF ReportIsTrue
  <2>4. CASE agent = "claude" /\ last = "uninstall" /\ report' = Says(r, fs)
    <3>1. SUFFICES ASSUME report' \in {"all", "nothing"}, NEW l \in Known
                   PROVE  /\ files'[l].is = "doc" => ~HasOurs(files'[l].doc)
                          /\ Theirs(files'[l].doc) = Theirs(before'[l].doc)
                          /\ report' = "nothing" => files'[l] = before'[l]
      BY <2>2, Zenon DEF ReportIsTrue
    <3>2. Remain(fs) = {} /\ r.failed = {} /\ (report' = "nothing" => r.removed = {})
      BY <2>4, <3>1 DEF Says
    <3>3. files'[l].is = "doc" => ~HasOurs(files'[l].doc)
      BY <3>2, Zenon DEF Remain, ContainsOurs
    <3>4. Cleaning
      BY <2>4 DEF Cleaning
    <3>5. l \notin r.failed
      BY <3>2
    <3>6. QED
      BY <3>2, <3>3, <3>4, <3>5, Zenon
  <2>5. QED
    BY <2>1, <2>2, <2>3, <2>4
<1>4. QED
  BY <1>2, <1>3

\* A task that fails is a warning, or the end of the run.
LEMMA FailTells ==
    ASSUME ReportInv, pc # "idle", FailTask, UNCHANGED <<agent, before, files>>
    PROVE  ReportInv' /\ ReportIsTrue'
<1>1. CASE Fatal(Now.what)
  <2>1. pc' = "idle" /\ last' = "failed" /\ outcome' = outcome
    BY <1>1 DEF FailTask, Stop
  <2>2. QED
    BY <2>1 DEF ReportInv, ReportIsTrue, Cleaning, OutcomeOK
<1>2. CASE ~Fatal(Now.what)
  <2>1. NextTask(Warned(outcome), files')
    BY <1>2, Zenon DEF FailTask
  <2>2. OutcomeOK(outcome)
    BY DEF ReportInv
  <2>3. PICK r : r = Warned(outcome)
    OBVIOUS
  <2>4. /\ OutcomeOK(r) /\ r.failed = outcome.failed \cup {Now.loc}
        /\ r.removed = outcome.removed
    BY <2>2, <2>3, Counts
  <2>5. ASSUME Cleaning, NEW l \in Known, l \notin r.failed
        PROVE  /\ Theirs(files'[l].doc) = Theirs(before[l].doc)
               /\ r.removed = {} => files'[l] = before[l]
    <3>1. HeldAt(l) /\ l \notin outcome.failed /\ Now.loc # l
      BY <2>4, <2>5 DEF ReportInv
    <3>2. Same(l)
      BY <3>1 DEF HeldAt
    <3>3. QED
      BY <2>4, <3>2 DEF Same
  <2>6. QED
    BY <2>1, <2>3, <2>4, <2>5, Tells
<1>3. QED
  BY <1>1, <1>2

\* What Claude Code's uninstall writes holds of others what the file held.
LEMMA LoadHeld ==
    ASSUME TasksInv, FilesInv, ListsInv, ReportInv, Cleaning, Loads
    PROVE  Now.loc \in outcome.failed \/ Theirs(mem') = Theirs(before[Now.loc].doc)
<1>1. /\ pc = "read" /\ mem' = Spliced(File.doc) /\ agent = "claude" /\ agent \in AllAgents
      /\ Now \in Tasks(agent) /\ Now \in Revocations
  <2>1. todo # << >> /\ todo \in Seq(Tasks(agent)) /\ todo \in Seq(Revocations)
    BY DEF TasksInv, ReportInv, Cleaning
  <2>2. QED
    BY <2>1, HeadTailProperties DEF Loads, Cleaning, Now, AllAgents
<1>2. Now.loc \in Known /\ Now.loc \in Locs /\ Now.what \in {"revoke", "reconcile"}
  BY <1>1 DEF Revocations, Tasks
<1>3. PICK d : d = File.doc
  OBVIOUS
<1>4. DocOK(d) /\ DocOf(agent, d)
  BY <1>2, <1>3 DEF FilesInv, FilesOK, FileOK, ListsInv, DocsHold, File
<1>5. Cleans(agent, d, Spliced(d))
  BY <1>1, <1>2, <1>4, SplicedKeeps
<1>6. Theirs(Spliced(d)) = Theirs(d)
  BY <1>1, <1>5 DEF Cleans, Sharing, Whole
<1>7. HeldAt(Now.loc)
  BY <1>2 DEF ReportInv
<1>8. Now.loc \in outcome.failed \/ Theirs(d) = Theirs(before[Now.loc].doc)
  BY <1>1, <1>3, <1>7 DEF HeldAt, Same, File
<1>9. QED
  BY <1>1, <1>3, <1>6, <1>8, Zenon

LEMMA ReportStep ==
    ASSUME TasksInv, FilesInv, ListsInv, ReportInv, ReportIsTrue, [Next]_vars
    PROVE  ReportInv' /\ ReportIsTrue'
<1>0. /\ agent' = agent /\ OutcomeOK(outcome) /\ FilesOK(files) /\ DocOK(mem) /\ DocOK(Empty)
      /\ pc # "idle" => Now \in Tasks(agent) /\ Now.loc \in Locs
      /\ Cleaning => Now \in Revocations
  <2>1. pc # "idle" => Now \in Tasks(agent)
    BY HeadTailProperties DEF TasksInv, Now
  <2>2. Cleaning => Now \in Revocations
    BY HeadTailProperties DEF TasksInv, ReportInv, Cleaning, Now
  <2>3. QED
    BY <2>1, <2>2, OptsStay, EmptyIsDoc DEF ReportInv, FilesInv, Tasks
<1>1. ASSUME last' # "uninstalled", pc' = "idle", OutcomeOK(outcome')
      PROVE  ReportInv' /\ ReportIsTrue'
  BY <1>1, Zenon DEF ReportInv, ReportIsTrue, Cleaning, OutcomeOK
\* A step inside a task.
<1>2. ASSUME pc # "idle", UNCHANGED <<todo, last, outcome, report, before>>,
             \A l \in Known : Cleaning /\ HeldAt(l) => HeldAt(l)',
             Cleaning /\ pc' \in {"save", "truncate", "write"} => MemHeld'
      PROVE  ReportInv' /\ ReportIsTrue'
  <2>1. report' = "none" /\ last' \in {"install", "uninstall"} /\ OutcomeOK(outcome')
    BY <1>0, <1>2 DEF ReportInv, OutcomeOK
  <2>2. report' \notin {"all", "nothing"}
    BY <2>1
  <2>3. Cleaning' => Cleaning
    BY <1>0, <1>2 DEF Cleaning
  <2>4. ASSUME Cleaning
        PROVE  todo' \in Seq(Revocations) /\ \A l \in Known : HeldAt(l)'
    BY <1>2, <2>4, Zenon DEF ReportInv
  <2>5. OutcomeOK(outcome)'
    BY <2>1 DEF OutcomeOK
  <2>6. ReportInv'
    BY <1>2, <2>1, <2>3, <2>4, <2>5, Zenon DEF ReportInv
  <2>7. QED
    BY <2>2, <2>6, Zenon DEF ReportIsTrue
<1>3. ASSUME UNCHANGED <<files, before, outcome>>, pc # "write", NEW l \in Known, HeldAt(l)
      PROVE  HeldAt(l)'
  <2>1. l \in outcome.failed \/ Same(l)
    BY <1>3 DEF HeldAt
  <2>2. l \in outcome'.failed \/ Same(l)'
    BY <1>3, <2>1 DEF Same
  <2>3. QED
    BY <2>2, Zenon DEF HeldAt
<1>4. ASSUME NEW tasks, NEW name, Start(tasks, name), name \in {"install", "uninstall"},
             agent = "claude" /\ name = "uninstall" => tasks \in Seq(Revocations)
      PROVE  ReportInv' /\ ReportIsTrue'
  <2>1. /\ report' = "none" /\ last' = name /\ outcome' = NoOutcome /\ todo' = tasks
        /\ files' = files /\ before' = files /\ pc' = FirstPc(tasks)
    BY <1>4 DEF Start
  <2>2. pc' \in {"idle", "backup", "read"} /\ OutcomeOK(outcome)'
    BY <1>0, <2>1, Counts DEF FirstPc, OutcomeOK
  <2>3. \A l \in Known : HeldAt(l)'
    BY <2>1 DEF HeldAt, Same
  <2>4. QED
    BY <1>0, <1>4, <2>1, <2>2, <2>3 DEF ReportInv, ReportIsTrue, Cleaning
<1>5. CASE Install
  BY <1>4, <1>5 DEF Install
<1>6. CASE Uninstall
  <2>1. agent = "claude" => UninstallTasks \in Seq(Revocations)
    <3>1. \A l \in Known, w \in {"revoke", "reconcile"} : Task(l, w) \in Seq(Revocations)
      BY DEF Task, Revocations
    <3>2. "main" \in Known /\ "around" \in Known /\ "managed" \in Known
      BY DEF Known
    <3>3. \A s, t \in Seq(Revocations) : s \o t \in Seq(Revocations)
      BY ConcatProperties
    <3>4. << >> \in Seq(Revocations)
      OBVIOUS
    <3>5. QED
      BY <3>1, <3>2, <3>3, <3>4 DEF UninstallTasks, Maybe
  <2>2. QED
    BY <1>4, <1>6, <2>1 DEF Uninstall
<1>7. CASE InstallRefused \/ Edit \/ BinaryMoves \/ Dies
  <2>1. last' # "uninstalled" /\ pc' = "idle" /\ outcome' \in {outcome, NoOutcome}
    BY <1>7 DEF InstallRefused, Edit, BinaryMoves, Dies, Stop, run
  <2>2. OutcomeOK(outcome')
    BY <1>0, <2>1, Counts
  <2>3. QED
    BY <1>1, <2>1, <2>2
<1>8. CASE TaskFails
  BY <1>8, FailTells DEF TaskFails
<1>9. CASE BackupFirst \/ BackupLast
  <2>1. /\ pc \in {"backup", "save"} /\ pc' \in {"read", "truncate"}
        /\ pc' = "truncate" => pc = "save"
        /\ UNCHANGED <<files, before, todo, mem, last, outcome, report>>
    BY <1>9 DEF BackupFirst, BackupLast, Still
  <2>2. Cleaning /\ pc' \in {"save", "truncate", "write"} => MemHeld'
    BY <2>1 DEF ReportInv, MemHeld, Now
  <2>3. QED
    BY <1>2, <1>3, <2>1, <2>2
<1>10. CASE Read
  <2>0. pc = "read" /\ UNCHANGED <<files, before>>
    BY <1>10 DEF Read, Still
  <2>1. CASE FailTask
    BY <1>0, <2>0, <2>1, FailTells
  <2>2. CASE Done
    <3>1. NextTask(outcome, files')
      BY <2>0, <2>2, Zenon DEF Done
    <3>2. ASSUME Cleaning, NEW l \in Known
          PROVE  l \in outcome.failed \/ Same(l)
      BY <2>0, <3>2 DEF ReportInv, HeldAt
    <3>3. QED
      BY <1>0, <2>0, <3>1, <3>2, Tells DEF Same
  <2>3. CASE Loads /\ UNCHANGED <<todo, last, outcome, report>>
    <3>1. Cleaning => MemHeld'
      <4>1. Now' = Now
        BY <2>3 DEF Now
      <4>2. QED
        BY <2>0, <2>3, <4>1, LoadHeld DEF MemHeld
    <3>2. QED
      BY <1>2, <1>3, <2>0, <2>3, <3>1
  <2>4. FailTask \/ Done \/ (Loads /\ UNCHANGED <<todo, last, outcome, report>>)
    BY <1>10, Zenon DEF Read, Loads
  <2>5. QED
    BY <2>1, <2>2, <2>3, <2>4
<1>11. CASE Truncate
  <2>1. /\ pc = "truncate" /\ pc' = "write" /\ Holds(Now.loc, "blank", Empty) /\ Now' = Now
        /\ UNCHANGED <<before, todo, mem, last, outcome, report>>
    BY <1>11 DEF Truncate, Still, Now
  <2>2. \A l \in Locs : l # Now.loc => files'[l] = files[l]
    BY <1>0, <2>1, HoldsOK
  <2>3. ASSUME NEW l \in Known, HeldAt(l) PROVE HeldAt(l)'
    <3>1. CASE l = Now.loc
      BY <2>1, <3>1 DEF HeldAt
    <3>2. CASE l # Now.loc
      <4>1. files'[l] = files[l]
        BY <2>2, <3>2 DEF Known, Locs
      <4>2. l \in outcome.failed \/ Same(l)
        BY <2>1, <2>3 DEF HeldAt
      <4>3. l \in outcome'.failed \/ Same(l)'
        BY <2>1, <4>1, <4>2 DEF Same
      <4>4. QED
        BY <4>3, Zenon DEF HeldAt
    <3>3. QED
      BY <3>1, <3>2
  <2>4. Cleaning => MemHeld'
    BY <2>1 DEF ReportInv, MemHeld
  <2>5. QED
    BY <1>2, <2>1, <2>3, <2>4
<1>12. CASE Write
  <2>1. /\ pc = "write" /\ Holds(Now.loc, "doc", mem) /\ NextTask(Cleaned, files')
        /\ before' = before /\ "doc" # "absent"
    BY <1>12 DEF Write, Still
  <2>2. files'[Now.loc].doc = mem /\ \A l \in Locs : l # Now.loc => files'[l] = files[l]
    BY <1>0, <2>1, HoldsOK
  <2>3. PICK r : r = Cleaned
    OBVIOUS
  <2>4. OutcomeOK(r) /\ r.failed = outcome.failed /\ r.removed # {}
    BY <1>0, <2>3, Counts
  <2>5. ASSUME Cleaning, NEW l \in Known, l \notin r.failed
        PROVE  Theirs(files'[l].doc) = Theirs(before[l].doc)
    <3>1. CASE l = Now.loc
      BY <2>1, <2>2, <2>4, <2>5, <3>1 DEF ReportInv, MemHeld
    <3>2. CASE l # Now.loc
      <4>1. files'[l] = files[l]
        BY <2>2, <3>2 DEF Known, Locs
      <4>2. Same(l)
        BY <2>4, <2>5, <3>2 DEF ReportInv, HeldAt
      <4>3. QED
        BY <4>1, <4>2 DEF Same
    <3>3. QED
      BY <3>1, <3>2
  <2>6. QED
    BY <1>0, <2>1, <2>3, <2>4, <2>5, Tells
\* The uninstall of Claude Code neither deletes a file nor has a plugin file.
<1>13. CASE Delete \/ Persist \/ RemovePlugin
  <2>1. pc # "idle" /\ NextTask(Cleaned, files') /\ before' = before
    BY <1>13 DEF Delete, Persist, RemovePlugin, Still
  <2>2. ~Cleaning
    <3>1. SUFFICES ASSUME Cleaning PROVE FALSE
      OBVIOUS
    <3>2. agent = "claude" /\ Now.what \in {"revoke", "reconcile"}
      BY <1>0, <3>1 DEF Cleaning, Revocations
    <3>3. ~Deletes
      BY <3>2 DEF Deletes, RemoveWhen
    <3>4. QED
      BY <1>13, <3>2, <3>3 DEF Delete, Persist, RemovePlugin, TasksInv
  <2>3. OutcomeOK(Cleaned)
    BY <1>0, Counts
  <2>4. QED
    BY <1>0, <2>1, <2>2, <2>3, Tells
<1>14. CASE WritePlugin
  <2>1. /\ pc = "plugin" /\ pc' = "persist"
        /\ UNCHANGED <<before, todo, last, outcome, report>>
    BY <1>14 DEF WritePlugin, Still
  <2>2. ~Cleaning
    BY <1>0, <2>1 DEF Revocations, TasksInv
  <2>3. QED
    BY <1>2, <2>1, <2>2
<1>15. CASE UNCHANGED vars
  <2>1. UNCHANGED <<agent, files, before, todo, pc, mem, last, outcome, report>> /\ Now' = Now
    BY <1>15 DEF vars, run, Now
  <2>2. /\ \A l : HeldAt(l) => HeldAt(l)'
        /\ MemHeld => MemHeld'
        /\ Cleaning' = Cleaning
    BY <2>1 DEF HeldAt, Same, MemHeld, Cleaning
  <2>3. ReportIsTrue'
    BY <2>1, Zenon DEF ReportIsTrue
  <2>4. OutcomeOK(outcome)'
    BY <1>0, <2>1 DEF OutcomeOK
  <2>5. QED
    BY <2>1, <2>2, <2>3, <2>4, Zenon DEF ReportInv
<1>16. QED
  BY <1>5, <1>6, <1>7, <1>8, <1>9, <1>10, <1>11, <1>12, <1>13, <1>14, <1>15, Zenon DEF Next

-----------------------------------------------------------------------------
(***************************************************************************)
(* What a run still has to do: the selected settings come first, Claude    *)
(* Code's managed ones last.                                               *)
(***************************************************************************)
Managed == [loc |-> "managed", what |-> "reconcile"]
Plan(tasks, name) ==
    IF agent = "opencode"
    THEN \/ name = "install" /\ tasks = Task("main", "legacy")
         \/ name = "uninstall" /\ tasks = Task("plugin", "unplug") \o Task("main", "persist")
         \/ name = "uninstall" /\ tasks = Task("main", "persist")
    ELSE /\ \A i \in 2..Len(tasks) : tasks[i].loc # "main"
         /\ Head(tasks).loc = "main" =>
               /\ name = "install" =>
                     Head(tasks).what = IF Deduped THEN "dedupe" ELSE "install"
               /\ name = "uninstall" => Head(tasks).what \in {"revoke", "reconcile"}
         /\ opts.elevated => tasks[Len(tasks)] = Managed
\* Where a run begins.
Begun(tasks) ==
    IF agent = "opencode" THEN Head(tasks).what # "persist" ELSE Head(tasks).loc = "main"
PlanInv ==
    /\ opts \in OptsOf(agent)
    /\ pc # "idle" =>
          /\ Plan(todo, last)
          /\ agent = "opencode" => pc \in {"read", "plugin", "persist"}

LEMMA Joined ==
    ASSUME NEW a, NEW b, NEW c
    PROVE  /\ <<a>> \o <<b>> = <<a, b>>
           /\ <<a>> \o <<b, c>> = <<a, b, c>>
           /\ <<a, b>> \o <<c>> = <<a, b, c>>
           /\ <<a>> \o << >> = <<a>> /\ <<a, b>> \o << >> = <<a, b>>
<1>1. PICK S : a \in S /\ b \in S /\ c \in S
  <2>1. a \in {a, b, c} /\ b \in {a, b, c} /\ c \in {a, b, c}
    OBVIOUS
  <2>2. QED
    BY <2>1
<1>2. /\ <<a>> \in Seq(S) /\ <<b>> \in Seq(S) /\ <<c>> \in Seq(S)
      /\ <<a, b>> \in Seq(S) /\ <<b, c>> \in Seq(S) /\ <<a, b, c>> \in Seq(S)
  BY <1>1
<1>3. ASSUME NEW s \in Seq(S), NEW t \in Seq(S), NEW u \in Seq(S), Len(u) = Len(s) + Len(t),
             \A i \in 1..Len(u) : u[i] = IF i <= Len(s) THEN s[i] ELSE t[i - Len(s)]
      PROVE  s \o t = u
  BY <1>3, ConcatProperties, SeqEqual
<1>4. <<a>> \o <<b>> = <<a, b>>
  <2>1. PICK s, t, u : s = <<a>> /\ t = <<b>> /\ u = <<a, b>>
    OBVIOUS
  <2>2. Len(u) = Len(s) + Len(t) /\ Len(u) = 2
        /\ \A i \in 1..2 : u[i] = IF i <= Len(s) THEN s[i] ELSE t[i - Len(s)]
    BY <2>1
  <2>3. s \o t = u
    BY <1>2, <1>3, <2>1, <2>2
  <2>4. QED
    BY <2>1, <2>3, Zenon
<1>5. <<a>> \o <<b, c>> = <<a, b, c>>
  <2>1. PICK s, t, u : s = <<a>> /\ t = <<b, c>> /\ u = <<a, b, c>>
    OBVIOUS
  <2>2. Len(u) = Len(s) + Len(t) /\ Len(u) = 3
        /\ \A i \in 1..3 : u[i] = IF i <= Len(s) THEN s[i] ELSE t[i - Len(s)]
    BY <2>1
  <2>3. s \o t = u
    BY <1>2, <1>3, <2>1, <2>2
  <2>4. QED
    BY <2>1, <2>3, Zenon
<1>6. <<a, b>> \o <<c>> = <<a, b, c>>
  <2>1. PICK s, t, u : s = <<a, b>> /\ t = <<c>> /\ u = <<a, b, c>>
    OBVIOUS
  <2>2. Len(u) = Len(s) + Len(t) /\ Len(u) = 3
        /\ \A i \in 1..3 : u[i] = IF i <= Len(s) THEN s[i] ELSE t[i - Len(s)]
    BY <2>1
  <2>3. s \o t = u
    BY <1>2, <1>3, <2>1, <2>2
  <2>4. QED
    BY <2>1, <2>3, Zenon
<1>7. <<a>> \o << >> = <<a>> /\ <<a, b>> \o << >> = <<a, b>>
  OBVIOUS
<1>8. QED
  BY <1>4, <1>5, <1>6, <1>7

LEMMA MaybeIs ==
    ASSUME NEW c, NEW tasks
    PROVE  (c => Maybe(c, tasks) = tasks) /\ (~c => Maybe(c, tasks) = << >>)
  BY DEF Maybe

LEMMA OneLeft ==
    ASSUME NEW S, NEW s \in Seq(S), s # << >>, Tail(s) = << >> PROVE Len(s) = 1
<1>1. PICK t : t = Tail(s)
  OBVIOUS
<1>2. Len(t) = Len(s) - 1 /\ Len(s) \in Nat
  BY <1>1, HeadTailProperties, LenProperties
<1>3. t = << >>
  BY <1>1
<1>4. Len(t) = 0
  BY <1>3
<1>5. QED
  BY <1>2, <1>4

LEMMA PlansGiven ==
    ASSUME agent \in AllAgents, opts \in OptsOf(agent)
    PROVE  /\ Plan(InstallTasks, "install") /\ Plan(UninstallTasks, "uninstall")
           /\ Begun(InstallTasks) /\ Begun(UninstallTasks)
<1>0. /\ opts.elevated => agent = "claude"
      /\ "claude" # "opencode"
  BY DEF OptsOf
<1>1. Plan(InstallTasks, "install") /\ Begun(InstallTasks)
  <2>1. PICK w : w = IF Deduped THEN "dedupe" ELSE "install"
    OBVIOUS
  <2>2. CASE agent = "opencode"
    BY <2>2, Joined DEF InstallTasks, Plan, Begun, Task
  <2>3. ASSUME agent # "opencode"
        PROVE  \/ /\ InstallTasks = <<[loc |-> "main", what |-> w]>> /\ ~opts.elevated
               \/ InstallTasks = <<[loc |-> "main", what |-> w], Managed>>
               \/ /\ InstallTasks = <<[loc |-> "main", what |-> w],
                                      [loc |-> "side", what |-> "register"]>>
                  /\ ~opts.elevated
               \/ /\ InstallTasks = <<[loc |-> "main", what |-> w],
                                      [loc |-> "side", what |-> "enable"],
                                      [loc |-> "market", what |-> "enlist"]>>
                  /\ ~opts.elevated
    <3>1. InstallTasks =
              Task("main", w)
              \o Maybe(agent = "claude" /\ opts.elevated, Task("managed", "reconcile"))
              \o Maybe(agent = "vscode" /\ opts.user, Task("side", "register"))
              \o Maybe(agent = "codex", Task("side", "enable") \o Task("market", "enlist"))
      BY <2>1, <2>3, Zenon DEF InstallTasks
    <3>2. CASE agent = "claude" /\ opts.elevated
      <4>1. agent # "vscode" /\ agent # "codex"
        BY <3>2
      <4>2. InstallTasks = Task("main", w) \o Task("managed", "reconcile") \o << >> \o << >>
        BY <3>1, <3>2, <4>1, MaybeIs, Zenon
      <4>3. QED
        BY <4>2, Joined, Zenon DEF Task, Managed
    <3>3. CASE agent = "vscode" /\ opts.user
      <4>1. agent # "claude" /\ agent # "codex"
        BY <3>3
      <4>2. InstallTasks = Task("main", w) \o << >> \o Task("side", "register") \o << >>
        BY <3>1, <3>3, <4>1, MaybeIs, Zenon
      <4>3. QED
        BY <1>0, <4>1, <4>2, Joined, Zenon DEF Task
    <3>4. CASE agent = "codex"
      <4>1. agent # "claude" /\ agent # "vscode"
        BY <3>4
      <4>2. PICK both : both = Task("side", "enable") \o Task("market", "enlist")
        OBVIOUS
      <4>3. InstallTasks = Task("main", w) \o << >> \o << >> \o both
        <5>1. /\ Maybe(agent = "claude" /\ opts.elevated, Task("managed", "reconcile")) = << >>
              /\ Maybe(agent = "vscode" /\ opts.user, Task("side", "register")) = << >>
          BY <4>1, MaybeIs, Zenon
        <5>2. Maybe(agent = "codex", Task("side", "enable") \o Task("market", "enlist")) = both
          BY <3>4, <4>2 DEF Maybe
        <5>3. QED
          BY <3>1, <5>1, <5>2, Zenon
      <4>4. both = <<[loc |-> "side", what |-> "enable"], [loc |-> "market", what |-> "enlist"]>>
        BY <4>2, Joined, Zenon DEF Task
      <4>5. InstallTasks = <<[loc |-> "main", what |-> w]>> \o both
        BY <4>3, Joined, Zenon DEF Task
      <4>6. QED
        BY <1>0, <4>1, <4>4, <4>5, Joined, Zenon DEF Task
    <3>5. CASE ~(agent = "claude" /\ opts.elevated) /\ ~(agent = "vscode" /\ opts.user)
               /\ agent # "codex"
      <4>1. InstallTasks = Task("main", w) \o << >> \o << >> \o << >>
        BY <3>1, <3>5, MaybeIs, Zenon
      <4>2. QED
        BY <1>0, <3>5, <4>1, Joined, Zenon DEF Task
    <3>6. QED
      BY <3>2, <3>3, <3>4, <3>5
  <2>4. ASSUME agent # "opencode" PROVE Plan(InstallTasks, "install") /\ Begun(InstallTasks)
    BY <2>1, <2>3, <2>4 DEF Plan, Begun, Managed
  <2>5. QED
    BY <2>2, <2>4
<1>2. Plan(UninstallTasks, "uninstall") /\ Begun(UninstallTasks)
  <2>1. CASE agent = "opencode"
    <3>1. /\ UninstallTasks = Task("plugin", "unplug") \o Task("main", "persist")
          /\ UninstallTasks = <<[loc |-> "plugin", what |-> "unplug"],
                                [loc |-> "main", what |-> "persist"]>>
      BY <2>1, Joined, Zenon DEF UninstallTasks, Task
    <3>2. Begun(UninstallTasks)
      BY <2>1, <3>1 DEF Begun
    <3>3. QED
      BY <2>1, <3>1, <3>2, Zenon DEF Plan
  <2>2. ASSUME agent # "opencode"
        PROVE  \/ UninstallTasks = <<[loc |-> "main", what |-> "reconcile"],
                                     [loc |-> "around", what |-> "reconcile"], Managed>>
               \/ /\ UninstallTasks = <<[loc |-> "main", what |-> "revoke"]>> /\ ~opts.elevated
               \/ /\ UninstallTasks = <<[loc |-> "main", what |-> "revoke"],
                                        [loc |-> "side", what |-> "deregister"]>>
                  /\ ~opts.elevated
               \/ /\ UninstallTasks = <<[loc |-> "main", what |-> "revoke"],
                                        [loc |-> "market", what |-> "delist"]>>
                  /\ ~opts.elevated
    <3>1. CASE agent = "claude" /\ opts.elevated
      BY <2>2, <3>1, Joined DEF UninstallTasks, Task, Managed
    <3>2. CASE ~(agent = "claude" /\ opts.elevated)
      <4>1. UninstallTasks =
                Task("main", "revoke")
                \o Maybe(agent = "vscode" /\ opts.user, Task("side", "deregister"))
                \o Maybe(agent = "codex", Task("market", "delist"))
        BY <2>2, <3>2, Zenon DEF UninstallTasks
      <4>2. CASE agent = "vscode" /\ opts.user
        <5>1. agent # "claude" /\ agent # "codex"
          BY <4>2
        <5>2. UninstallTasks = Task("main", "revoke") \o Task("side", "deregister") \o << >>
          BY <4>1, <4>2, <5>1, MaybeIs, Zenon
        <5>3. QED
          BY <1>0, <5>1, <5>2, Joined, Zenon DEF Task
      <4>3. CASE agent = "codex"
        <5>1. agent # "claude" /\ agent # "vscode"
          BY <4>3
        <5>2. UninstallTasks = Task("main", "revoke") \o << >> \o Task("market", "delist")
          BY <4>1, <4>3, <5>1, MaybeIs, Zenon
        <5>3. QED
          BY <1>0, <5>1, <5>2, Joined, Zenon DEF Task
      <4>4. CASE ~(agent = "vscode" /\ opts.user) /\ agent # "codex"
        <5>1. UninstallTasks = Task("main", "revoke") \o << >> \o << >>
          BY <4>1, <4>4, MaybeIs, Zenon
        <5>2. QED
          BY <1>0, <3>2, <5>1, Joined, Zenon DEF Task
      <4>5. QED
        BY <4>2, <4>3, <4>4
    <3>3. QED
      BY <3>1, <3>2
  <2>3. ASSUME agent # "opencode" PROVE Plan(UninstallTasks, "uninstall") /\ Begun(UninstallTasks)
    BY <2>2, <2>3 DEF Plan, Begun, Managed
  <2>4. QED
    BY <2>1, <2>3
<1>3. QED
  BY <1>1, <1>2

LEMMA PlanTail ==
    ASSUME NEW s \in Seq(Tasks(agent)), NEW name, Plan(s, name), s # << >>, Tail(s) # << >>
    PROVE  /\ Plan(Tail(s), name)
           /\ agent # "opencode" => Head(Tail(s)).loc # "main"
           /\ agent = "opencode" =>
                 /\ name = "uninstall" /\ Head(s).what = "unplug"
                 /\ FirstPc(Tail(s)) = "read"
<1>1. CASE agent = "opencode"
  <2>1. /\ s = <<[loc |-> "plugin", what |-> "unplug"], [loc |-> "main", what |-> "persist"]>>
        /\ name = "uninstall"
    BY <1>1 DEF Plan, Task
  <2>2. Tail(s) = Task("main", "persist") /\ Head(s).what = "unplug"
    BY <2>1 DEF Task
  <2>3. FirstPc(Tail(s)) = "read"
    <3>1. PICK t : t = Tail(s)
      OBVIOUS
    <3>2. t = <<[loc |-> "main", what |-> "persist"]>>
      BY <2>2, <3>1 DEF Task
    <3>3. t # << >> /\ Head(t) = [loc |-> "main", what |-> "persist"]
      BY <3>2
    <3>4. FirstPc(t) = "read"
      BY <3>3 DEF FirstPc, BacksUpFirst
    <3>5. QED
      BY <3>1, <3>4
  <2>4. QED
    BY <1>1, <2>1, <2>2, <2>3 DEF Plan
<1>2. CASE agent # "opencode"
  <2>1. PICK t : t = Tail(s)
    OBVIOUS
  <2>2. PICK n \in Nat : n = Len(s) /\ n >= 2
    BY LenProperties, HeadTailProperties
  <2>3. /\ t \in Seq(Tasks(agent)) /\ Len(t) = n - 1
        /\ \A i \in 1..n-1 : t[i] = s[i + 1]
    BY <2>1, <2>2, HeadTailProperties
  <2>4. Head(t) = s[2]
    BY <2>1, <2>2, <2>3
  <2>5. \A i \in 2..n : s[i].loc # "main"
    BY <1>2, <2>2 DEF Plan
  <2>6. \A i \in 2..n-1 : t[i].loc # "main"
    BY <2>2, <2>3, <2>5
  <2>7. t[n - 1] = s[n]
    BY <2>2, <2>3
  <2>8. s[2].loc # "main"
    BY <2>2, <2>5
  <2>9. opts.elevated => t[Len(t)] = Managed
    BY <1>2, <2>2, <2>3, <2>7 DEF Plan
  <2>10. Plan(t, name)
    BY <1>2, <2>3, <2>4, <2>6, <2>8, <2>9 DEF Plan
  <2>11. QED
    BY <1>2, <2>1, <2>4, <2>8, <2>10
<1>3. QED
  BY <1>1, <1>2

LEMMA PlanStays ==
    ASSUME UNCHANGED <<agent, opts>>, NEW s, NEW n, todo' = s, last' = n, Plan(s, n)
    PROVE  Plan(todo, last)'
  BY DEF Plan, Deduped

\* The task that ends a run is its plan's last.
LEMMA LastTask ==
    ASSUME TasksInv, PlanInv, pc # "idle", Tail(todo) = << >>, opts.elevated
    PROVE  Now = Managed
<1>1. agent # "opencode" /\ todo \in Seq(Tasks(agent)) /\ todo # << >> /\ Plan(todo, last)
  BY DEF PlanInv, OptsOf, TasksInv
<1>2. Len(todo) = 1
  BY <1>1, OneLeft
<1>3. QED
  BY <1>1, <1>2 DEF Plan, Now

LEMMA PlanStep ==
    ASSUME TasksInv, ReportInv, PlanInv, [Next]_vars PROVE PlanInv'
<1>0. /\ opts' = opts /\ agent' = agent /\ agent \in AllAgents /\ opts \in OptsOf(agent)
      /\ todo \in Seq(Tasks(agent))
      /\ pc # "idle" => todo # << >> /\ Plan(todo, last)
  BY OptsStay DEF TasksInv, PlanInv
<1>1. opts' \in OptsOf(agent)'
  BY <1>0 DEF OptsOf
<1>2. ASSUME pc' = "idle" PROVE PlanInv'
  BY <1>1, <1>2 DEF PlanInv
<1>3. ASSUME pc # "idle", UNCHANGED <<todo, last>>,
             agent = "opencode" => pc' \in {"read", "plugin", "persist"}
      PROVE  PlanInv'
  <2>1. Plan(todo, last)'
    BY <1>0, <1>3, PlanStays
  <2>2. QED
    BY <1>0, <1>1, <1>3, <2>1, Zenon DEF PlanInv
<1>4. ASSUME pc # "idle", NEW r, NEW fs, NextTask(r, fs) PROVE PlanInv'
  <2>1. CASE Tail(todo) = << >>
    <3>1. pc' = "idle"
      BY <1>4, <2>1 DEF NextTask, FirstPc
    <3>2. QED
      BY <1>2, <3>1
  <2>2. CASE Tail(todo) # << >>
    <3>1. todo' = Tail(todo) /\ last' = last /\ pc' = FirstPc(Tail(todo))
      BY <1>4, <2>2 DEF NextTask
    <3>2. Plan(Tail(todo), last) /\ (agent = "opencode" => pc' = "read")
      BY <1>0, <1>4, <2>2, <3>1, PlanTail
    <3>3. Plan(todo, last)'
      BY <1>0, <3>1, <3>2, PlanStays
    <3>4. QED
      BY <1>0, <1>1, <3>2, <3>3, Zenon DEF PlanInv
  <2>3. QED
    BY <2>1, <2>2
<1>5. ASSUME NEW tasks, NEW name, Start(tasks, name), Plan(tasks, name) PROVE PlanInv'
  <2>1. todo' = tasks /\ last' = name /\ pc' = FirstPc(tasks)
    BY <1>5 DEF Start
  <2>2. Plan(todo, last)'
    BY <1>0, <1>5, <2>1, PlanStays
  <2>3. agent = "opencode" => pc' = "read"
    BY <1>5, <2>1 DEF Plan, FirstPc, Task, BacksUpFirst
  <2>4. QED
    BY <1>0, <1>1, <2>2, <2>3, Zenon DEF PlanInv
<1>6. CASE Install \/ Uninstall
  BY <1>0, <1>5, <1>6, PlansGiven DEF Install, Uninstall
<1>7. CASE InstallRefused \/ Edit \/ BinaryMoves \/ Dies
  <2>1. pc' = "idle"
    BY <1>7 DEF InstallRefused, Edit, BinaryMoves, Dies, Stop, run
  <2>2. QED
    BY <1>2, <2>1
\* A task that fails, whether in what it reads or in what it writes.
<1>14. ASSUME pc # "idle", FailTask PROVE PlanInv'
  <2>1. CASE Fatal(Now.what)
    <3>1. pc' = "idle"
      BY <1>14, <2>1 DEF FailTask, Stop
    <3>2. QED
      BY <1>2, <3>1
  <2>2. CASE ~Fatal(Now.what)
    BY <1>4, <1>14, <2>2 DEF FailTask
  <2>3. QED
    BY <2>1, <2>2
<1>15. CASE TaskFails
  BY <1>14, <1>15 DEF TaskFails
<1>8. CASE BackupFirst \/ BackupLast \/ Truncate
  <2>1. pc \in {"backup", "save", "truncate"} /\ UNCHANGED <<todo, last>>
    BY <1>8 DEF BackupFirst, BackupLast, Truncate
  <2>2. agent # "opencode"
    BY <2>1 DEF PlanInv
  <2>3. QED
    BY <1>3, <2>1, <2>2
<1>9. CASE WritePlugin
  BY <1>3, <1>9 DEF WritePlugin
<1>10. CASE Read
  <2>1. CASE FailTask
    BY <1>10, <1>14, <2>1 DEF Read
  <2>2. CASE Done
    BY <1>4, <1>10, <2>2 DEF Done, Read
  <2>3. CASE UNCHANGED <<todo, last>> /\ pc' = AfterRead
    <3>1. agent = "opencode" => pc' \in {"read", "plugin", "persist"}
      <4>1. agent = "opencode" => Now.what \in {"legacy", "persist"}
        BY <1>0, <1>10 DEF Read, Plan, Now, Task
      <4>2. QED
        BY <2>3, <4>1 DEF AfterRead
    <3>2. QED
      BY <1>3, <1>10, <2>3, <3>1 DEF Read
  <2>4. QED
    BY <1>10, <2>1, <2>2, <2>3, Zenon DEF Read
<1>11. CASE Delete \/ Write \/ Persist \/ RemovePlugin
  <2>1. pc # "idle" /\ NextTask(Cleaned, files')
    BY <1>11 DEF Delete, Write, Persist, RemovePlugin
  <2>2. QED
    BY <1>4, <2>1
<1>12. CASE UNCHANGED vars
  <2>1. UNCHANGED <<pc, todo, last>>
    BY <1>12 DEF vars, run
  <2>2. pc # "idle" /\ agent = "opencode" => pc' \in {"read", "plugin", "persist"}
    BY <2>1 DEF PlanInv
  <2>3. QED
    BY <1>2, <1>3, <2>1, <2>2
<1>13. QED
  BY <1>6, <1>7, <1>8, <1>9, <1>10, <1>11, <1>12, <1>15, Zenon DEF Next

-----------------------------------------------------------------------------
(***************************************************************************)
(* Our hooks: the agent's own settings are wired, or clean, from the task  *)
(* that is for them to the end of the run, and the managed ones at its     *)
(* end, but for those the run has warned of.                               *)
(***************************************************************************)
At == IF agent = "opencode" THEN "plugin" ELSE "main"
CleanIn(f) == Clean(f.doc.hooks.events)
WiredIn(f) == IF Deduped THEN CleanIn(f) ELSE Wires(f.doc.hooks.events)
Settled(name, f, warned) ==
    /\ name \in {"install", "installed"} => WiredIn(f)
    /\ name \in {"uninstall", "uninstalled"} => At \in warned \/ CleanIn(f)
ManagedClean(f, warned) == "managed" \in warned \/ CleanIn(f)
PastOwn ==
    IF agent = "opencode" THEN pc = "persist" \/ Now.what = "persist" ELSE Now.loc # "main"
OnceInv ==
    /\ last \in {"installed", "uninstalled"} =>
          /\ Settled(last, files[At], outcome.failed)
          /\ opts.elevated => ManagedClean(files["managed"], outcome.failed)
    /\ pc # "idle" /\ PastOwn => Settled(last, files[At], outcome.failed)

LEMMA SettledStays ==
    ASSUME UNCHANGED <<agent, opts>>, NEW n, NEW f, NEW warned
    PROVE  /\ At' = At
           /\ last' = n /\ files'[At] = f /\ outcome'.failed = warned /\ Settled(n, f, warned)
                 => Settled(last, files[At], outcome.failed)'
  BY DEF At, Settled, WiredIn, CleanIn, Deduped

LEMMA EmptyIsClean == Clean(Empty.hooks.events)
<1>1. DOMAIN Empty.hooks.events = {}
  BY HooksIs DEF Empty
<1>2. QED
  BY <1>1 DEF Clean

\* What the task that a step ends leaves behind.
TaskDone(warned) ==
    /\ \A l \in Locs : l # Now.loc => files'[l] = files[l]
    /\ Now.what = "install" => Wires(files'[Now.loc].doc.hooks.events)
    /\ Now.what \in {"revoke", "dedupe"} => CleanIn(files'[Now.loc])
    /\ Now.what = "reconcile" => Now.loc \in warned \/ CleanIn(files'[Now.loc])
    /\ outcome.failed \subseteq warned

LEMMA TaskSettles ==
    ASSUME TasksInv, ReportInv, PlanInv, OnceInv, pc # "idle", agent # "opencode",
           NEW warned, TaskDone(warned)
    PROVE  /\ Settled(last, files'["main"], warned)
           /\ opts.elevated /\ Now = Managed => ManagedClean(files'["managed"], warned)
<1>0. "main" \in Locs /\ "managed" \in Locs /\ last \in {"install", "uninstall"} /\ At = "main"
  BY DEF Locs, ReportInv, At
<1>1. ASSUME Now = Managed PROVE ManagedClean(files'["managed"], warned)
  BY <1>1 DEF Managed, TaskDone, ManagedClean
<1>2. Settled(last, files'["main"], warned)
  <2>1. CASE Now.loc # "main"
    <3>1. files'["main"] = files["main"] /\ PastOwn /\ outcome.failed \subseteq warned
      BY <1>0, <2>1 DEF TaskDone, PastOwn
    <3>2. Settled(last, files["main"], outcome.failed)
      BY <1>0, <3>1 DEF OnceInv
    <3>3. QED
      BY <3>1, <3>2 DEF Settled
  <2>2. CASE Now.loc = "main" /\ last = "install"
    <3>1. Now.what = IF Deduped THEN "dedupe" ELSE "install"
      BY <2>2 DEF PlanInv, Plan, Now
    <3>2. WiredIn(files'["main"])
      BY <2>2, <3>1 DEF TaskDone, WiredIn
    <3>3. QED
      BY <2>2, <3>2 DEF Settled
  <2>3. CASE Now.loc = "main" /\ last = "uninstall"
    <3>1. Now.what \in {"revoke", "reconcile"}
      BY <2>3 DEF PlanInv, Plan, Now
    <3>2. "main" \in warned \/ CleanIn(files'["main"])
      BY <2>3, <3>1 DEF TaskDone
    <3>3. QED
      BY <1>0, <2>3, <3>2 DEF Settled
  <2>4. QED
    BY <1>0, <2>1, <2>2, <2>3
<1>3. QED
  BY <1>1, <1>2

\* The next task, or the end of the run.
LEMMA TurnOnce ==
    ASSUME TasksInv, ReportInv, PlanInv, UNCHANGED <<agent, opts>>, pc # "idle",
           NEW r, NEW fs, NextTask(r, fs),
           Settled(last, files'[At], r.failed),
           opts.elevated /\ Now = Managed => ManagedClean(files'["managed"], r.failed)
    PROVE  OnceInv'
<1>1. last \in {"install", "uninstall"} /\ outcome'.failed = r.failed
  BY DEF ReportInv, NextTask
<1>2. CASE Tail(todo) = << >>
  <2>1. /\ pc' = "idle"
        /\ last' = IF last = "install" THEN "installed" ELSE "uninstalled"
    BY <1>2 DEF NextTask, FirstPc
  <2>2. PICK n : n = IF last = "install" THEN "installed" ELSE "uninstalled"
    OBVIOUS
  <2>3. Settled(n, files'[At], r.failed)
    BY <1>1, <2>2 DEF Settled
  <2>4. Settled(last, files[At], outcome.failed)'
    BY <1>1, <2>1, <2>2, <2>3, SettledStays
  <2>5. opts.elevated => ManagedClean(files["managed"], outcome.failed)'
    BY <1>1, <1>2, LastTask DEF ManagedClean, CleanIn, Clean, Cleared
  <2>6. opts' = opts
    OBVIOUS
  <2>7. QED
    BY <1>1, <2>1, <2>4, <2>5, <2>6, Zenon DEF OnceInv
<1>3. CASE Tail(todo) # << >>
  <2>1. last' = last
    BY <1>3 DEF NextTask
  <2>2. Settled(last, files[At], outcome.failed)'
    BY <1>1, <2>1, SettledStays
  <2>3. last' \notin {"installed", "uninstalled"}
    BY <1>1, <2>1
  <2>4. QED
    BY <1>1, <2>2, <2>3, Zenon DEF OnceInv
<1>4. QED
  BY <1>2, <1>3

\* A task that only warns, one that has nothing to do, and one that writes or
\* deletes.
LEMMA FailDone ==
    ASSUME ReportInv, files' = files, ~Fatal(Now.what) PROVE TaskDone(Warned(outcome).failed)
<1>1. Now.what \notin {"install", "revoke", "dedupe"}
  BY DEF Fatal
<1>2. Warned(outcome).failed = outcome.failed \cup {Now.loc}
  BY Counts DEF ReportInv
<1>3. QED
  BY <1>1, <1>2 DEF TaskDone

LEMMA ReadDone ==
    ASSUME TasksInv, FilesInv, ListsInv, Read, ~Writes(File.doc)
    PROVE  TaskDone(outcome.failed)
<1>0. /\ files' = files /\ pc # "idle" /\ Now.what # "unplug"
      /\ Now \in Tasks(agent) /\ Now.loc \in Locs /\ agent \in AllAgents
  <2>1. files' = files /\ pc # "idle" /\ Now.what # "unplug"
    BY DEF Read
  <2>2. QED
    BY <2>1, HeadTailProperties DEF TasksInv, Now, Tasks
<1>1. PICK d : d = File.doc
  OBVIOUS
<1>2. DocOK(d) /\ DocOf(agent, d)
  BY <1>0, <1>1 DEF FilesInv, FilesOK, FileOK, ListsInv, DocsHold, File
<1>3. Now.what # "install" /\ Spliced(d) = d
  BY <1>1 DEF Writes
<1>4. Now.what \in {"revoke", "reconcile", "dedupe"} => Clean(d.hooks.events)
  <2>1. Now.what \in {"revoke", "reconcile", "dedupe"} => Cleans(agent, d, Spliced(d))
    BY <1>0, <1>2, SplicedKeeps
  <2>2. QED
    BY <1>3, <2>1 DEF Cleans
<1>5. QED
  BY <1>0, <1>1, <1>3, <1>4 DEF TaskDone, CleanIn, File

LEMMA WriteDone ==
    ASSUME TasksInv, FilesInv, ListsInv, ReportInv, Write \/ Delete
    PROVE  TaskDone(Cleaned.failed)
<1>0. /\ pc # "idle" /\ FilesOK(files) /\ DocOK(mem) /\ DocOK(Empty)
      /\ Now \in Tasks(agent) /\ Now.loc \in Locs /\ agent \in AllAgents
      /\ DocOK(read) /\ DocOf(agent, read) /\ mem = Spliced(read) /\ Now.what # "unplug"
  <2>1. pc \in {"truncate", "write"}
    BY DEF Write, Delete
  <2>2. Now \in Tasks(agent) /\ agent \in AllAgents
    BY <2>1, HeadTailProperties DEF TasksInv, Now
  <2>3. DocOK(read) /\ DocOf(agent, read) /\ mem = Spliced(read) /\ Now.what # "unplug"
    BY <2>1 DEF ListsInv, EditUnderway
  <2>4. QED
    BY <2>1, <2>2, <2>3, EmptyIsDoc DEF FilesInv, Tasks
<1>4. Cleaned.failed = outcome.failed
  BY Counts DEF ReportInv
<1>1. CASE Write
  <2>1. Holds(Now.loc, "doc", mem) /\ "doc" # "absent"
    BY <1>1 DEF Write
  <2>2. /\ files'[Now.loc].is = "doc" /\ files'[Now.loc].doc = mem
        /\ \A l \in Locs : l # Now.loc => files'[l] = files[l]
    BY <1>0, <2>1, HoldsOK
  <2>3. PICK d : d = Spliced(read)
    OBVIOUS
  <2>4. /\ Now.what = "install" => Wires(d.hooks.events)
        /\ Now.what \in {"revoke", "reconcile", "dedupe"} => Clean(d.hooks.events)
    <3>1. /\ Now.what = "install" => SplicesIn(agent, read, d)
          /\ Now.what \in {"revoke", "reconcile", "dedupe"} => Cleans(agent, read, d)
      BY <1>0, <2>3, SplicedKeeps
    <3>2. QED
      BY <3>1 DEF SplicesIn, Cleans
  <2>5. files'[Now.loc].doc = d
    BY <1>0, <2>2, <2>3, Zenon
  <2>6. QED
    BY <1>4, <2>2, <2>4, <2>5 DEF TaskDone, CleanIn
<1>2. CASE Delete
  <2>1. Holds(Now.loc, "absent", Empty) /\ Now.what # "install"
    BY <1>2 DEF Delete, Deletes
  <2>2. /\ files'[Now.loc].is = "absent" /\ files'[Now.loc].doc = Empty
        /\ \A l \in Locs : l # Now.loc => files'[l] = files[l]
    BY <1>0, <2>1, HoldsOK
  <2>3. QED
    BY <1>4, <2>1, <2>2, EmptyIsClean DEF TaskDone, CleanIn
<1>3. QED
  BY <1>1, <1>2

LEMMA PersistOnce ==
    ASSUME TasksInv, FilesInv, ReportInv, PlanInv, OnceInv, Persist \/ RemovePlugin
    PROVE  Settled(last, files'[At], Cleaned.failed) /\ Now # Managed
<1>0. /\ pc # "idle" /\ FilesOK(files) /\ DocOK(mem) /\ DocOK(Empty)
      /\ Now \in Tasks(agent) /\ "main" \in Locs /\ "plugin" \in Locs /\ "managed" \in Locs
      /\ "doc" # "absent"
  <2>1. pc # "idle"
    BY DEF Persist, RemovePlugin
  <2>2. Now \in Tasks(agent)
    BY <2>1, HeadTailProperties DEF TasksInv, Now
  <2>3. QED
    BY <2>1, <2>2, EmptyIsDoc DEF FilesInv, Locs
<1>4. Cleaned.failed = outcome.failed
  BY Counts DEF ReportInv
<1>1. CASE Persist
  <2>1. pc = "persist" /\ Now.what \in {"legacy", "persist"} /\ Now.loc = "main"
    BY <1>0, <1>1 DEF Persist, TasksInv, Tasks
  <2>2. agent = "opencode"
    BY <2>1 DEF PlanInv, Plan, Now, ReportInv
  <2>3. \A l \in Locs : l # "main" => files'[l] = files[l]
    BY <1>0, <1>1, HoldsOK, Zenon DEF Persist
  <2>4. PastOwn /\ At = "plugin"
    BY <2>1, <2>2 DEF PastOwn, At
  <2>5. QED
    BY <1>0, <1>4, <2>1, <2>3, <2>4 DEF OnceInv, Managed
<1>2. CASE RemovePlugin
  <2>1. Holds("plugin", "absent", Empty) /\ Now.what = "unplug" /\ Now.loc \notin Settings
    BY <1>0, <1>2 DEF RemovePlugin, Tasks
  <2>2. /\ files'["plugin"].doc = Empty
        /\ \A l \in Locs : l # "plugin" => files'[l] = files[l]
    BY <1>0, <2>1, HoldsOK
  <2>3. CASE agent = "opencode"
    <3>1. last = "uninstall"
      BY <1>0, <2>1, <2>3 DEF PlanInv, Plan, Now, Task
    <3>2. QED
      BY <1>0, <2>1, <2>2, <2>3, <3>1, EmptyIsClean DEF Settled, CleanIn, At, Managed
  <2>4. CASE agent # "opencode"
    <3>1. PastOwn /\ At = "main"
      BY <2>1, <2>4 DEF PastOwn, At, Settings
    <3>2. QED
      BY <1>0, <1>4, <2>1, <2>2, <3>1 DEF OnceInv, Managed
  <2>5. QED
    BY <2>3, <2>4
<1>3. QED
  BY <1>1, <1>2

LEMMA OnceStep ==
    ASSUME TasksInv, FilesInv, ReportInv, ListsInv, PlanInv, OnceInv, [Next]_vars
    PROVE  OnceInv'
<1>0. /\ opts' = opts /\ agent' = agent /\ agent \in AllAgents /\ opts \in OptsOf(agent)
      /\ FilesOK(files) /\ DocOK(mem) /\ DocOK(Empty)
      /\ "main" \in Locs /\ "managed" \in Locs /\ "plugin" \in Locs
      /\ pc # "idle" => Now \in Tasks(agent) /\ Now.loc \in Locs /\ last \in {"install", "uninstall"}
  <2>1. pc # "idle" => Now \in Tasks(agent)
    BY HeadTailProperties DEF TasksInv, Now
  <2>2. QED
    BY <2>1, OptsStay, EmptyIsDoc
       DEF TasksInv, FilesInv, PlanInv, ReportInv, OnceInv, Tasks, Locs
<1>1. ASSUME pc' = "idle", last' \notin {"installed", "uninstalled"} PROVE OnceInv'
  BY <1>0, <1>1 DEF OnceInv
\* A step inside a task, or one that begins a run.
<1>2. ASSUME last' \in {"install", "uninstall"},
             PastOwn' => /\ PastOwn /\ last' = last /\ pc # "idle" /\ files'[At] = files[At]
                         /\ outcome' = outcome
      PROVE  OnceInv'
  <2>1. ASSUME PastOwn' PROVE Settled(last, files[At], outcome.failed)'
    <3>1. /\ Settled(last, files[At], outcome.failed) /\ last' = last
          /\ files'[At] = files[At] /\ outcome'.failed = outcome.failed
      BY <1>2, <2>1 DEF OnceInv
    <3>2. QED
      BY <1>0, <3>1, SettledStays
  <2>2. last' \notin {"installed", "uninstalled"}
    BY <1>2
  <2>3. QED
    BY <2>1, <2>2, Zenon DEF OnceInv
\* A step that ends a task.
<1>3. ASSUME NEW r, NEW fs, NextTask(r, fs), TaskDone(r.failed), agent # "opencode", pc # "idle"
      PROVE  OnceInv'
  <2>1. At = "main"
    BY <1>3 DEF At
  <2>2. QED
    BY <1>0, <1>3, <2>1, TaskSettles, TurnOnce
<1>4. ASSUME NEW tasks, NEW name \in {"install", "uninstall"}, Start(tasks, name), Begun(tasks)
      PROVE  OnceInv'
  <2>1. Now' = Head(tasks) /\ files' = files /\ pc' = FirstPc(tasks) /\ last' = name
    BY <1>4 DEF Start, Now
  <2>2. ~PastOwn'
    BY <1>0, <1>4, <2>1 DEF PastOwn, Begun, FirstPc
  <2>3. QED
    BY <1>0, <1>2, <1>4, <2>1, <2>2
<1>5. CASE Install \/ Uninstall
  BY <1>0, <1>4, <1>5, PlansGiven DEF Install, Uninstall
<1>6. CASE InstallRefused \/ Dies
  <2>1. pc' = "idle" /\ last' = "failed"
    BY <1>6 DEF InstallRefused, Dies, Stop
  <2>2. QED
    BY <1>1, <2>1
<1>7. CASE Edit \/ BinaryMoves
  <2>1. pc' = "idle" /\ last' \in {"edited", "moved"}
    BY <1>7 DEF Edit, BinaryMoves, run
  <2>2. QED
    BY <1>1, <2>1
\* A task that fails, whether in what it reads or in what it writes.
<1>8. ASSUME pc # "idle", FailTask, files' = files PROVE OnceInv'
  <2>1. CASE Fatal(Now.what)
    <3>1. pc' = "idle" /\ last' = "failed"
      BY <1>8, <2>1 DEF FailTask, Stop
    <3>2. QED
      BY <1>1, <3>1
  <2>2. CASE ~Fatal(Now.what)
    <3>1. NextTask(Warned(outcome), files)
      BY <1>8, <2>2, Zenon DEF FailTask
    <3>2. agent # "opencode"
      BY <1>0, <1>8, <2>2 DEF PlanInv, Plan, Now, Task, Fatal
    <3>3. TaskDone(Warned(outcome).failed)
      BY <1>8, <2>2, FailDone
    <3>4. QED
      BY <1>3, <1>8, <3>1, <3>2, <3>3
  <2>3. QED
    BY <2>1, <2>2
<1>9. CASE BackupFirst \/ BackupLast
  <2>1. /\ UNCHANGED <<files, todo, last, outcome>> /\ Now' = Now
        /\ pc' \in {"read", "truncate"} /\ pc # "idle"
    BY <1>9 DEF BackupFirst, BackupLast, Now
  <2>2. PastOwn' => PastOwn
    BY <1>0, <2>1 DEF PastOwn
  <2>3. QED
    BY <1>0, <1>2, <2>1, <2>2
<1>10. CASE Truncate
  <2>1. /\ UNCHANGED <<todo, last, outcome>> /\ Now' = Now
        /\ pc' = "write" /\ pc = "truncate" /\ Holds(Now.loc, "blank", Empty)
    BY <1>10 DEF Truncate, Now
  <2>2. agent # "opencode" /\ At = "main"
    BY <2>1 DEF PlanInv, At
  <2>3. \A l \in Locs : l # Now.loc => files'[l] = files[l]
    BY <1>0, <2>1, HoldsOK
  <2>5. PastOwn' => PastOwn /\ files'[At] = files[At]
    BY <1>0, <2>1, <2>2, <2>3 DEF PastOwn
  <2>6. QED
    BY <1>0, <1>2, <2>1, <2>5
<1>11. CASE WritePlugin
  <2>1. /\ UNCHANGED <<todo, last, outcome>> /\ Now' = Now
        /\ pc' = "persist" /\ pc = "plugin" /\ Now.what = "legacy" /\ Now.loc = "main"
    BY <1>0, <1>11 DEF WritePlugin, Now, TasksInv, Tasks
  <2>2. agent = "opencode" /\ last = "install" /\ At = "plugin"
    BY <1>0, <2>1 DEF PlanInv, Plan, Now, Task, At
  <2>3. PICK d : d = [Empty EXCEPT !.hooks = Hooks(Generated)]
    OBVIOUS
  <2>4. DocOK(d) /\ Wires(d.hooks.events)
    <3>1. DocOK(d)
      BY <1>0, <2>3, GeneratedShape DEF DocOK, Hooks, IsEvents
    <3>2. d.hooks = Hooks(Generated)
      BY <1>0, <2>3, OneMember
    <3>3. QED
      BY <3>1, <3>2, HooksIs, GeneratedWires
  <2>5. Holds("plugin", "doc", d) /\ "doc" # "absent"
    BY <1>11, <2>3, Zenon DEF WritePlugin
  <2>6. files'["plugin"].doc = d /\ \A l \in Locs : l # "plugin" => files'[l] = files[l]
    BY <1>0, <2>4, <2>5, HoldsOK
  <2>7. Settled("install", files'["plugin"], outcome.failed)
    BY <2>2, <2>4, <2>6 DEF Settled, WiredIn, Deduped
  <2>8. Settled(last, files[At], outcome.failed)'
    BY <1>0, <2>1, <2>2, <2>7, SettledStays
  <2>9. last' \notin {"installed", "uninstalled"}
    BY <2>1, <2>2
  <2>10. QED
    BY <2>8, <2>9, Zenon DEF OnceInv
<1>12. CASE Read
  <2>0. pc = "read" /\ files' = files
    BY <1>12 DEF Read
  <2>1. CASE FailTask
    BY <1>8, <2>0, <2>1
  <2>2. CASE Done /\ ~Writes(File.doc)
    <3>1. NextTask(outcome, files)
      BY <2>2, Zenon DEF Done
    <3>2. agent # "opencode"
      BY <1>0, <1>12, <2>0, <2>2 DEF PlanInv, Plan, Now, Task, Writes, Read
    <3>3. TaskDone(outcome.failed)
      BY <1>12, <2>2, ReadDone
    <3>4. QED
      BY <1>3, <2>0, <3>1, <3>2, <3>3
  <2>3. CASE UNCHANGED <<todo, last, outcome>> /\ pc' = AfterRead
    <3>1. Now' = Now
      BY <2>3 DEF Now
    <3>2. PastOwn' => PastOwn
      BY <1>0, <2>3, <3>1 DEF PastOwn, AfterRead
    <3>3. QED
      BY <1>0, <1>2, <2>0, <2>3, <3>2
  <2>4. \/ FailTask
        \/ Done /\ ~Writes(File.doc)
        \/ UNCHANGED <<todo, last, outcome>> /\ pc' = AfterRead
    <3>1. \/ FailTask
          \/ Done /\ ~Writes(File.doc)
          \/ UNCHANGED <<todo, last, outcome, report>> /\ pc' = AfterRead
      BY <1>12, Zenon DEF Read
    <3>2. QED
      BY <3>1
  <2>5. QED
    BY <2>1, <2>2, <2>3, <2>4, Zenon
<1>13. CASE Delete \/ Write
  <2>1. pc \in {"truncate", "write"} /\ NextTask(Cleaned, files')
    BY <1>13 DEF Delete, Write
  <2>2. agent # "opencode"
    BY <2>1 DEF PlanInv
  <2>3. QED
    BY <1>3, <1>13, <2>1, <2>2, WriteDone
<1>14. CASE Persist \/ RemovePlugin
  <2>1. pc # "idle" /\ NextTask(Cleaned, files')
    BY <1>14 DEF Persist, RemovePlugin
  <2>2. QED
    BY <1>0, <1>14, <2>1, PersistOnce, TurnOnce
<1>15. CASE UNCHANGED vars
  <2>1. UNCHANGED <<files, last, pc, outcome>> /\ Now' = Now
    BY <1>15 DEF vars, run, Now
  <2>2. /\ PastOwn' <=> PastOwn
        /\ ManagedClean(files["managed"], outcome.failed)
              => ManagedClean(files["managed"], outcome.failed)'
    BY <1>0, <2>1 DEF PastOwn, ManagedClean, CleanIn, Clean, Cleared
  <2>3. Settled(last, files[At], outcome.failed) => Settled(last, files[At], outcome.failed)'
    BY <1>0, <2>1, SettledStays
  <2>4. QED
    BY <1>0, <2>1, <2>2, <2>3, Zenon DEF OnceInv
<1>16. CASE TaskFails
  BY <1>8, <1>16 DEF TaskFails
<1>17. QED
  BY <1>5, <1>6, <1>7, <1>9, <1>10, <1>11, <1>12, <1>13, <1>14, <1>15, <1>16, Zenon DEF Next

\* Clean events hold no entry of ours, wired ones hold it once.
LEMMA CleanIs ==
    ASSUME NEW events, Clean(events)
    PROVE  \A k : OurEntries(events, k) = << >>
<1>1. ASSUME NEW k PROVE OurEntries(events, k) = << >>
  <2>1. CASE k \in DOMAIN events /\ events[k].array
    <3>1. events[k].rules \in Seq(Seq(Others)) /\ Others \cap (Entries \ Others) = {}
      BY <2>1 DEF Clean, Cleared
    <3>2. Of(events[k].rules, Entries \ Others) = << >>
      BY <3>1, OfNone
    <3>3. QED
      BY <2>1, <3>2 DEF OurEntries, Of
  <2>2. CASE ~(k \in DOMAIN events /\ events[k].array)
    BY <2>2 DEF OurEntries
  <2>3. QED
    BY <2>1, <2>2
<1>2. QED
  BY <1>1

LEMMA WiresIs ==
    ASSUME NEW events, Wires(events)
    PROVE  \A k : OurEntries(events, k) = IF k \in Wired THEN <<"ours">> ELSE << >>
<1>1. ASSUME NEW k \in Wired PROVE OurEntries(events, k) = <<"ours">>
  BY DEF Wires, OurEntries, Of
<1>2. ASSUME NEW k, k \notin Wired PROVE OurEntries(events, k) = << >>
  <2>1. CASE k \in DOMAIN events /\ events[k].array
    <3>1. events[k].rules \in Seq(Seq(Others)) /\ Others \cap (Entries \ Others) = {}
      BY <1>2, <2>1 DEF Wires, Cleared
    <3>2. Of(events[k].rules, Entries \ Others) = << >>
      BY <3>1, OfNone
    <3>3. QED
      BY <2>1, <3>2 DEF OurEntries, Of
  <2>2. CASE ~(k \in DOMAIN events /\ events[k].array)
    BY <2>2 DEF OurEntries
  <2>3. QED
    BY <2>1, <2>2
<1>3. QED
  BY <1>1, <1>2

LEMMA CleanHasNone ==
    ASSUME NEW doc, Clean(doc.hooks.events) PROVE ~HasOurs(doc)
<1>1. SUFFICES ASSUME NEW k \in DOMAIN doc.hooks.events, doc.hooks.events[k].array,
                      NEW r \in DOMAIN doc.hooks.events[k].rules,
                      NEW i \in DOMAIN doc.hooks.events[k].rules[r],
                      TargetsClaude(doc.hooks.events[k].rules[r][i])
               PROVE  FALSE
  BY DEF HasOurs
<1>2. PICK rules \in Seq(Seq(Others)) : rules = doc.hooks.events[k].rules
  BY <1>1 DEF Clean, Cleared
<1>3. PICK rule \in Seq(Others) : rule = rules[r]
  BY <1>1, <1>2
<1>4. rule[i] \in Others
  BY <1>1, <1>2, <1>3
<1>5. QED
  BY <1>1, <1>2, <1>3, <1>4 DEF TargetsClaude

LEMMA OnceHolds == ASSUME OnceInv PROVE HookOnce
<1>1. ASSUME last = "installed", NEW k \in Wired \cup OtherEvents
      PROVE  OurEntries(files[At].doc.hooks.events, k)
                 = IF k \in Wired /\ ~Deduped THEN <<"ours">> ELSE << >>
  <2>1. PICK e : e = files[At].doc.hooks.events
    OBVIOUS
  <2>2. IF Deduped THEN Clean(e) ELSE Wires(e)
    BY <1>1, <2>1 DEF OnceInv, Settled, WiredIn, CleanIn
  <2>3. QED
    BY <2>1, <2>2, CleanIs, WiresIs
<1>2. ASSUME last = "uninstalled", At \notin outcome.failed PROVE ~HasOurs(files[At].doc)
  BY <1>2, CleanHasNone DEF OnceInv, Settled, CleanIn
<1>3. ASSUME opts.elevated, last \in {"installed", "uninstalled"}
      PROVE  "managed" \in outcome.failed \/ ~HasOurs(files["managed"].doc)
  BY <1>3, CleanHasNone DEF OnceInv, ManagedClean, CleanIn
<1>4. QED
  BY <1>1, <1>2, <1>3, Zenon DEF HookOnce, At

-----------------------------------------------------------------------------
LEMMA FirstDocs ==
    ASSUME Init PROVE DocsHold
<1>1. PICK u \in Users : \E side \in Registry : \E broken, around, link \in BOOLEAN :
          files = FilesAre(IF broken THEN Broken(u) ELSE Given(u), Given(side),
                           IF around THEN Wrote(u, link) ELSE Absent)
  BY DEF Init
<1>2. PICK side \in Registry : \E broken, around, link \in BOOLEAN :
          files = FilesAre(IF broken THEN Broken(u) ELSE Given(u), Given(side),
                           IF around THEN Wrote(u, link) ELSE Absent)
  BY <1>1
<1>3. DocOK(u) /\ DocOf(agent, u) /\ DocOf(agent, side) /\ DocOf(agent, Empty)
  <2>1. agent \in Agents
    BY DEF Init
  <2>2. DocOK(u) /\ DocOf(agent, u) /\ DocOf(agent, Empty) /\ DocOK(Empty)
    BY <2>1, UsersAssumption, EmptyHolds, EmptyIsDoc
  <2>3. [Empty EXCEPT !.flags = {"own"}].hooks = Empty.hooks
    BY <2>2, OneMember
  <2>4. DocOf(agent, side)
    BY <2>2, <2>3, SameHooks DEF Registry
  <2>5. QED
    BY <2>2, <2>4
<1>4. \A d : Document(d).doc = d /\ Broken(d).doc = d /\ Document(d).is = "doc"
  BY DEF Document, Broken
<1>5. Absent.doc = Empty /\ Absent.is = "absent"
  BY DEF Absent
<1>6. \A d : DocOf(agent, d) => DocOf(agent, Broken(d).doc) /\ DocOf(agent, Given(d).doc)
  BY <1>3, <1>4, <1>5 DEF Given
<1>7. \A link : DocOf(agent, Wrote(u, link).doc) /\ Wrote(u, link).is = "doc"
  <2>1. PICK d : d = [u EXCEPT !.hooks = Hooks(Generated)]
    OBVIOUS
  <2>2. DocOf(agent, d)
    BY <1>3, <2>1, GeneratedHolds
  <2>3. \A link : Wrote(u, link).doc = d /\ Wrote(u, link).is = "doc"
    BY <2>1 DEF Wrote, Document
  <2>4. QED
    BY <2>2, <2>3
<1>8. ASSUME NEW m, NEW s, NEW p, files = FilesAre(m, s, p), DocOf(agent, m.doc),
             DocOf(agent, s.doc), DocOf(agent, p.doc)
      PROVE  DocsHold
  <2>1. \A l \in Locs : files[l] \in {m, s, p, Absent}
    BY <1>8 DEF FilesAre, Locs
  <2>3. \A l \in Locs : DocOf(agent, files[l].doc)
    BY <1>3, <1>5, <1>8, <2>1
  <2>4. QED
    BY <2>3 DEF DocsHold
<1>9. \E m, p : /\ DocOf(agent, m.doc) /\ DocOf(agent, p.doc)
                /\ files = FilesAre(m, Given(side), p)
  BY <1>2, <1>3, <1>5, <1>6, <1>7, Zenon
<1>10. QED
  BY <1>3, <1>6, <1>8, <1>9, Zenon

LEMMA InitOnce == ASSUME Init PROVE ListsInv /\ PlanInv /\ OnceInv
<1>1. /\ agent \in Agents /\ opts \in OptsOf(agent) /\ pc = "idle" /\ mem = Empty
      /\ last = "edited"
  BY Zenon DEF Init
<1>2. DocOf(agent, mem)
  BY <1>1, EmptyHolds, Zenon
<1>3. ListsInv
  BY <1>1, <1>2, FirstDocs DEF ListsInv, EditUnderway
<1>4. OnceInv
  BY <1>1, FirstDocs DEF OnceInv
<1>5. QED
  BY <1>1, <1>3, <1>4 DEF PlanInv

-----------------------------------------------------------------------------
IInv ==
    /\ TasksInv /\ FilesInv /\ SavedInv
    /\ ReportInv /\ ReportIsTrue
    /\ ListsInv /\ PlanInv /\ OnceInv

LEMMA FirstFiles ==
    ASSUME Init PROVE FilesOK(files)
<1>1. PICK u \in Users : \E side \in Registry : \E broken, around, link \in BOOLEAN :
          files = FilesAre(IF broken THEN Broken(u) ELSE Given(u), Given(side),
                           IF around THEN Wrote(u, link) ELSE Absent)
  BY DEF Init
<1>2. PICK side \in Registry : \E broken, around, link \in BOOLEAN :
          files = FilesAre(IF broken THEN Broken(u) ELSE Given(u), Given(side),
                           IF around THEN Wrote(u, link) ELSE Absent)
  BY <1>1
<1>3. DocOK(u) /\ DocOK(side) /\ DocOK([u EXCEPT !.hooks = Hooks(Generated)])
  <2>1. DocOK(u) /\ DocOK(side)
    BY EmptyIsDoc DEF UsersAssumption, Registry
  <2>2. QED
    BY <2>1, GeneratedShape DEF DocOK, Hooks, IsEvents
<1>4. FileOK(Absent)
  BY EmptyIsDoc DEF FileOK, Absent
<1>5. \A d : DocOK(d) => FileOK(Document(d)) /\ FileOK(Broken(d)) /\ FileOK(Given(d))
  <2>1. ASSUME NEW d, DocOK(d) PROVE FileOK(Document(d)) /\ FileOK(Broken(d))
    <3>1. /\ Document(d) = [is |-> "doc", doc |-> d, link |-> FALSE]
          /\ Broken(d) = [is |-> "broken", doc |-> d, link |-> FALSE]
      <4>1. Document(d) = [is |-> "doc", doc |-> d, link |-> FALSE]
        BY Zenon DEF Document
      <4>2. \A x, y : [[is |-> x, doc |-> d, link |-> y] EXCEPT !.is = "broken"]
                         = [is |-> "broken", doc |-> d, link |-> y]
        OBVIOUS
      <4>3. QED
        BY <4>1, <4>2, Zenon DEF Broken
    <3>2. QED
      BY <2>1, <3>1 DEF FileOK
  <2>2. QED
    BY <1>4, <2>1, Zenon DEF Given
<1>6. \A link : FileOK(Wrote(u, link))
  <2>1. PICK d : d = [u EXCEPT !.hooks = Hooks(Generated)]
    OBVIOUS
  <2>2. ASSUME NEW link PROVE FileOK(Wrote(u, link))
    <3>1. Wrote(u, link) = [is |-> "doc", doc |-> d, link |-> link]
      BY <2>1 DEF Wrote, Document
    <3>2. QED
      BY <1>3, <2>1, <3>1 DEF FileOK
  <2>3. QED
    BY <2>2
<1>7. ASSUME NEW m, NEW s, NEW p, FileOK(m), FileOK(s), FileOK(p), files = FilesAre(m, s, p)
      PROVE  FilesOK(files)
  <2>1. \A l \in Locs : files[l] \in {m, s, p, Absent}
    BY <1>7 DEF FilesAre, Locs
  <2>2. files = [l \in Locs |-> files[l]]
    <3> DEFINE G(l) == CASE l = "main" -> m
                         [] l \in {"side", "market"} -> s
                         [] l \in {"managed", "around"} -> p
                         [] l = "plugin" -> Absent
    <3>1. files = [l \in Locs |-> G(l)]
      BY <1>7, Zenon DEF FilesAre
    <3> HIDE DEF G
    <3>2. QED
      BY <3>1
  <2>3. \A l \in Locs : FileOK(files[l])
    BY <1>4, <1>7, <2>1
  <2>4. QED
    BY <2>2, <2>3, Zenon DEF FilesOK
<1>8. \E m, p : FileOK(m) /\ FileOK(p) /\ files = FilesAre(m, Given(side), p)
  BY <1>2, <1>3, <1>4, <1>5, <1>6, Zenon
<1>9. QED
  BY <1>3, <1>5, <1>7, <1>8, Zenon

LEMMA InitIInv == ASSUME Init PROVE IInv
<1>1. /\ agent \in Agents /\ backups = [l \in Locs |-> {}] /\ todo = << >> /\ pc = "idle"
      /\ mem = Empty /\ left = [l \in Locs |-> files[l].doc] /\ report = "none"
      /\ outcome = NoOutcome
  BY Zenon DEF Init
<1>2. TasksInv
  BY <1>1 DEF TasksInv, AgentsAssumption
<1>3. FilesInv
  BY <1>1, FirstFiles, EmptyIsDoc DEF FilesInv
<1>4. SavedInv
  <2>1. ASSUME NEW l \in Settings PROVE RecoverableAt(l) /\ SafeAt(l)
    <3>1. left[l] = files[l].doc
      BY <1>1 DEF Settings, Locs
    <3>2. QED
      BY <1>1, <3>1, Zenon DEF RecoverableAt, SafeAt
  <2>2. QED
    BY <2>1, Zenon DEF SavedInv
<1>5. ReportInv /\ ReportIsTrue
  BY <1>1 DEF ReportInv, ReportIsTrue, Cleaning, OutcomeOK, NoOutcome
<1>6. QED
  BY <1>2, <1>3, <1>4, <1>5, InitOnce DEF IInv

LEMMA NextIInv == ASSUME IInv, [Next]_vars PROVE IInv'
  BY TasksStep, FilesStep, SavedStep, ReportStep, ListsStep, PlanStep, OnceStep, Zenon DEF IInv

\* Wherever an installer dies, and whatever runs after it, what the user last
\* left in the settings is in the file or in a backup (HookConfigInstaller::apply
\* and revoke, backup_at).
THEOREM SettingsRecoverableHolds == Spec => []SettingsRecoverable
<1>1. IInv => SettingsRecoverable
  BY Zenon DEF IInv, SavedInv, RecoverableAt, Saved, Settings, SettingsRecoverable
<1>2. QED
  BY <1>1, InitIInv, NextIInv, PTL DEF Spec

\* When Claude Code's uninstall says that our hooks are gone, or were not there, no
\* file it knows holds one and each holds what it held of others before the run,
\* whatever copy, write or delete failed on the way and was only warned of
\* (cleanup_uninstall_locations, print_remaining_hook_locations).
THEOREM ReportIsTrueHolds == Spec => []ReportIsTrue
<1>1. IInv => ReportIsTrue
  BY DEF IInv
<1>2. QED
  BY <1>1, InitIInv, NextIInv, PTL DEF Spec

\* Claude Code's and Codex's installers write other tools' hooks back, in their
\* order, with our own spliced in or taken out, and so do Copilot's, Hermes's and
\* OpenHands's where no rule mixes the two; Cursor's and Gemini's keep the user's
\* other settings only (HookConfigInstaller::apply and revoke, merge_hooks,
\* remove_hooks).
THEOREM OthersKeptHolds == Spec => []OthersKept
<1>1. IInv => OthersKept
  BY ListsKeep, Zenon DEF IInv
<1>2. QED
  BY <1>1, InitIInv, NextIInv, PTL DEF Spec

\* An install that ends has every wired event run our hook once, whatever was
\* there before, and an uninstall that ends leaves none of ours in the settings,
\* Claude Code's managed ones among them when it runs elevated, but in a file of
\* which it has warned (install_hooks, uninstall_hooks,
\* reconcile_managed_settings_paths).
THEOREM HookOnceHolds == Spec => []HookOnce
<1>1. IInv => HookOnce
  BY OnceHolds, Zenon DEF IInv
<1>2. QED
  BY <1>1, InitIInv, NextIInv, PTL DEF Spec
===============================================================================
