-------------------------- MODULE NetpolRulesProofs --------------------------
(***************************************************************************)
(* What the network policy controller computes (NetpolRules), for any      *)
(* number of pods, policies, rules and peers: which commands the three     *)
(* parts of Sync are made of, one lemma per function of the code, what a   *)
(* command does to the kernel, and what is left to be done of a list of    *)
(* commands when its first has been carried out or has failed.             *)
(* NetworkPolicyProofs rests on these lemmas.                              *)
(***************************************************************************)
EXTENDS NetpolRules, FiniteSetTheorems, TLAPS

\* The list of a loop that is never entered.
LEMMA NoCommands ==
  ASSUME NEW S
  PROVE  /\ <<>> \in Seq(S) /\ Len(<<>>) = 0
         /\ \A l \in Seq(S) : l # <<>> => Len(l) \in Nat \ {0}
<1>1. <<>> \in Seq(S) /\ Len(<<>>) = 0
  OBVIOUS
<1>2. \A l \in Seq(S) : l # <<>> => Len(l) \in Nat \ {0}
  OBVIOUS
<1> QED
  BY <1>1, <1>2

\* A set of natural numbers has a least one.
LEMMA Least ==
  ASSUME NEW T \in SUBSET Nat, T # {}
  PROVE  \E n \in T : \A m \in T : n <= m
<1>1. PICK less : less = {m \in Nat \X Nat : m[1] < m[2]}
  BY Zenon
<1>2. OpToRel(<, Nat) = {m \in Nat \X Nat : m[1] < m[2]}
  BY Zenon DEF OpToRel
<1>3. IsWellFoundedOn(less, Nat)
  BY <1>1, <1>2, NatLessThanWellFounded, Zenon
<1>4. PICK n \in T : \A m \in T : ~ (<<m, n>> \in less)
  BY <1>3, WFMin, Zenon
<1>5. ASSUME NEW m \in T PROVE n <= m
  <2>1. m \in Nat /\ n \in Nat /\ ~ (<<m, n>> \in less)
    BY <1>4
  <2>2. ~ (m < n)
    BY <2>1, <1>1
  <2> QED
    BY <2>1, <2>2
<1> QED
  BY <1>4, <1>5, Zenon

\* The subsets of a finite set, by size: what holds of {} and of every set
\* that it holds of without one of its members holds of every subset.
LEMMA BySize ==
  ASSUME NEW S, IsFiniteSet(S), NEW Bad \in SUBSET SUBSET S, {} \notin Bad,
         \A s \in Bad : \E x \in s : s \ {x} \in Bad
  PROVE  Bad = {}
<1>1. SUFFICES ASSUME Bad # {} PROVE FALSE
  BY Zenon
<1>2. \A s \in Bad : IsFiniteSet(s) /\ Cardinality(s) \in Nat
  BY FS_Subset, FS_CardinalityType, Zenon
<1>3. PICK sizes : sizes = {Cardinality(s) : s \in Bad}
  BY Zenon
<1>4. sizes \in SUBSET Nat /\ sizes # {}
  BY <1>1, <1>2, <1>3
<1>5. PICK n \in sizes : \A m \in sizes : n <= m
  BY <1>4, Least, Zenon
<1>6. PICK s \in Bad : n = Cardinality(s)
  BY <1>3, <1>5, Zenon
<1>7. PICK x \in s : s \ {x} \in Bad
  BY Zenon
<1>8. Cardinality(s \ {x}) = Cardinality(s) - 1
  BY <1>2, <1>7, FS_RemoveElement
<1>9. n <= Cardinality(s \ {x})
  BY <1>3, <1>5, <1>7, Zenon
<1> QED
  BY <1>2, <1>6, <1>8, <1>9

\* g appends what F has for the members of a set, in the order of pick.
Gathers(g, S, pick, F) ==
    g = [s \in SUBSET S |-> IF s = {} THEN <<>> ELSE g[s \ {pick[s]}] \o F[pick[s]]]

\* A function of the subsets of a finite set may be defined by recursion on
\* the set without one of its members.
LEMMA FoldExists ==
  ASSUME NEW S, IsFiniteSet(S), NEW pick, NEW F,
         \A s \in SUBSET S : s # {} => pick[s] \in s
  PROVE  \E g : Gathers(g, S, pick, F)
<1> DEFINE Upto(n) == {s \in SUBSET S : Cardinality(s) <= n}
           Body(g, s) == IF s = {} THEN <<>> ELSE g[s \ {pick[s]}] \o F[pick[s]]
           Has(n) == \E g : g = [s \in Upto(n) |-> Body(g, s)]
<1>1. \A s \in SUBSET S : IsFiniteSet(s) /\ Cardinality(s) \in Nat
  BY FS_Subset, FS_CardinalityType, Zenon
<1>2. Has(0)
  <2>1. \A s \in Upto(0) : s = {}
    <3> TAKE s \in Upto(0)
    <3>1. s \in SUBSET S /\ Cardinality(s) <= 0
      OBVIOUS
    <3>2. Cardinality(s) = 0
      BY <1>1, <3>1
    <3> QED
      BY <1>1, <3>1, <3>2, FS_EmptySet, Zenon
  <2>2. PICK g : g = [s \in Upto(0) |-> <<>>]
    BY Zenon
  <2>3. g = [s \in Upto(0) |-> Body(g, s)]
    BY <2>1, <2>2, Zenon
  <2> QED
    BY <2>3, Zenon
<1>3. ASSUME NEW n \in Nat, Has(n) PROVE Has(n + 1)
  <2>1. PICK g : g = [s \in Upto(n) |-> Body(g, s)]
    BY <1>3, Zenon
  <2>2. PICK h : h = [s \in Upto(n + 1) |-> Body(g, s)]
    BY Zenon
  <2>3. Upto(n) \subseteq Upto(n + 1)
    BY <1>1
  <2>4. \A s \in Upto(n) : h[s] = g[s]
    <3> HIDE DEF Body
    <3> TAKE s \in Upto(n)
    <3>1. h[s] = Body(g, s)
      BY <2>2, <2>3, Zenon
    <3>2. g[s] = Body(g, s)
      BY <2>1, Zenon
    <3> QED
      BY <3>1, <3>2, Zenon
  <2>5. ASSUME NEW s \in Upto(n + 1), s # {} PROVE s \ {pick[s]} \in Upto(n)
    <3>1. pick[s] \in s /\ s \in SUBSET S /\ Cardinality(s) <= n + 1
      BY <2>5
    <3>2. Cardinality(s \ {pick[s]}) = Cardinality(s) - 1
      BY <1>1, <3>1, FS_RemoveElement, Zenon
    <3>3. Cardinality(s \ {pick[s]}) <= n
      BY <1>1, <3>1, <3>2
    <3> QED
      BY <3>1, <3>3
  <2>6. \A s \in Upto(n + 1) : Body(g, s) = Body(h, s)
    BY <2>4, <2>5, Zenon
  <2>7. h = [s \in Upto(n + 1) |-> Body(h, s)]
    BY <2>2, <2>6, Zenon
  <2> QED
    BY <2>7, Zenon
<1>4. \A n \in Nat : Has(n)
  <2>1. PICK bad : bad = {n \in Nat : ~ Has(n)}
    BY Zenon
  <2> HIDE DEF Has
  <2>2. SUFFICES ASSUME bad # {} PROVE FALSE
    BY <2>1, Zenon
  <2>3. bad \in SUBSET Nat
    BY <2>1, Zenon
  <2>4. PICK n \in bad : \A m \in bad : n <= m
    BY <2>2, <2>3, Least, Zenon
  <2>5. n \in Nat /\ n # 0
    BY <1>2, <2>1, <2>4
  <2>6. PICK m \in Nat : n = m + 1
    BY <2>5
  <2>7. ~ (n <= m)
    BY <2>6
  <2> QED
    BY <1>3, <2>1, <2>4, <2>6, <2>7, Zenon
<1>5. Has(Cardinality(S))
  BY <1>1, <1>4, Zenon
<1>6. Upto(Cardinality(S)) = SUBSET S
  BY FS_Subset
<1> QED
  BY <1>5, <1>6, Zenon DEF Gathers

\* The members of two sequences, one after the other.
LEMMA ConcatRange ==
  ASSUME NEW C, NEW a \in Seq(C), NEW b \in Seq(C)
  PROVE  /\ a \o b \in Seq(C)
         /\ Len(a \o b) = Len(a) + Len(b)
         /\ \A i \in 1 .. Len(a) : (a \o b)[i] = a[i]
         /\ \A i \in 1 .. Len(b) : (a \o b)[Len(a) + i] = b[i]
         /\ Range(a) \subseteq Range(a \o b)
         /\ Range(b) \subseteq Range(a \o b)
         /\ Range(a \o b) \subseteq Range(a) \cup Range(b)
<1>1. /\ a \o b \in Seq(C)
      /\ Len(a \o b) = Len(a) + Len(b)
      /\ \A i \in 1 .. Len(a) : (a \o b)[i] = a[i]
      /\ \A i \in 1 .. Len(b) : (a \o b)[Len(a) + i] = b[i]
  OBVIOUS
<1>2. /\ DOMAIN a = 1 .. Len(a) /\ DOMAIN b = 1 .. Len(b)
      /\ DOMAIN (a \o b) = 1 .. (Len(a) + Len(b))
      /\ Len(a) \in Nat /\ Len(b) \in Nat
  BY <1>1
<1>3. \A i \in 1 .. Len(a) : i \in 1 .. (Len(a) + Len(b))
  BY <1>2
<1>4. \A i \in 1 .. Len(b) : Len(a) + i \in 1 .. (Len(a) + Len(b))
  BY <1>2
<1>5. \A i \in 1 .. (Len(a) + Len(b)) :
        \/ i \in 1 .. Len(a)
        \/ \E j \in 1 .. Len(b) : i = Len(a) + j
  <2> TAKE i \in 1 .. (Len(a) + Len(b))
  <2>1. i \notin 1 .. Len(a) => (i - Len(a) \in 1 .. Len(b) /\ i = Len(a) + (i - Len(a)))
    BY <1>2
  <2> QED
    BY <2>1
<1>6. Range(a) \subseteq Range(a \o b)
  BY <1>1, <1>2, <1>3, Zenon DEF Range
<1>7. Range(b) \subseteq Range(a \o b)
  BY <1>1, <1>2, <1>4, Zenon DEF Range
<1>8. Range(a \o b) \subseteq Range(a) \cup Range(b)
  <2>1. ASSUME NEW i \in 1 .. (Len(a) + Len(b)) PROVE (a \o b)[i] \in Range(a) \cup Range(b)
    <3>1. CASE i \in 1 .. Len(a)
      BY <1>1, <1>2, <3>1, Zenon DEF Range
    <3>2. CASE \E j \in 1 .. Len(b) : i = Len(a) + j
      BY <1>1, <1>2, <3>2, Zenon DEF Range
    <3> QED
      BY <1>5, <3>1, <3>2, Zenon
  <2> QED
    BY <1>2, <2>1, Zenon DEF Range
<1> QED
  BY <1>1, <1>6, <1>7, <1>8, Zenon

\* Concat folds over its domain by recursion on the set without one member.
LEMMA ConcatIter ==
  ASSUME NEW F, IsFiniteSet(DOMAIN F)
  PROVE  \E g : /\ g = [s \in SUBSET DOMAIN F |->
                          IF s = {} THEN <<>>
                          ELSE g[s \ {CHOOSE x \in s : TRUE}] \o F[CHOOSE x \in s : TRUE]]
                /\ Concat(F) = g[DOMAIN F]
<1>1. PICK D : D = DOMAIN F
  BY Zenon
<1>2. PICK pick : pick = [s \in SUBSET D |-> CHOOSE x \in s : TRUE]
  BY Zenon
<1>3. IsFiniteSet(D) /\ \A s \in SUBSET D : s # {} => pick[s] \in s
  BY <1>1, <1>2, Zenon
<1>4. PICK g : Gathers(g, D, pick, F)
  BY <1>3, FoldExists, Zenon
<1>5. g = [s \in SUBSET D |->
             IF s = {} THEN <<>>
             ELSE g[s \ {CHOOSE x \in s : TRUE}] \o F[CHOOSE x \in s : TRUE]]
  BY <1>2, <1>4, Zenon DEF Gathers
<1> QED
  BY <1>1, <1>5, Zenon DEF Concat, FoldSet, MapThenFoldSet

\* What holds of the parts, of nothing and of two lists with it, one after the
\* other, holds of Concat.
LEMMA ConcatIn ==
  ASSUME NEW G, <<>> \in G, \A a, b \in G : a \o b \in G,
         NEW F, IsFiniteSet(DOMAIN F), \A x \in DOMAIN F : F[x] \in G
  PROVE  Concat(F) \in G
<1>1. PICK g : /\ g = [s \in SUBSET DOMAIN F |->
                          IF s = {} THEN <<>>
                          ELSE g[s \ {CHOOSE x \in s : TRUE}] \o F[CHOOSE x \in s : TRUE]]
               /\ Concat(F) = g[DOMAIN F]
  BY ConcatIter, Zenon
<1>2. PICK bad : bad = {s \in SUBSET DOMAIN F : g[s] \notin G}
  BY Zenon
<1>3. {} \notin bad
  BY <1>1, <1>2, Zenon
<1>4. ASSUME NEW s \in bad PROVE \E x \in s : s \ {x} \in bad
  <2>1. s \in SUBSET DOMAIN F /\ s # {} /\ g[s] \notin G
    BY <1>2, <1>3, Zenon
  <2>2. PICK x : x = CHOOSE y \in s : TRUE
    BY Zenon
  <2>3. x \in s /\ x \in DOMAIN F
    BY <2>1, <2>2, Zenon
  <2>4. g[s] = g[s \ {x}] \o F[x]
    BY <1>1, <2>1, <2>2, Zenon
  <2>5. g[s \ {x}] \notin G
    BY <2>1, <2>3, <2>4, Zenon
  <2>6. s \ {x} \in SUBSET DOMAIN F
    BY <2>1, Zenon
  <2> QED
    BY <1>2, <2>3, <2>5, <2>6, Zenon
<1>5. bad = {}
  BY <1>2, <1>3, <1>4, BySize, Zenon
<1>6. \A s \in SUBSET DOMAIN F : g[s] \in G
  BY <1>2, <1>5, Zenon
<1> QED
  BY <1>1, <1>6, Zenon

\* Every part is in the list.
LEMMA ConcatHas ==
  ASSUME NEW C, NEW F, IsFiniteSet(DOMAIN F), \A x \in DOMAIN F : F[x] \in Seq(C),
         NEW y \in DOMAIN F
  PROVE  Range(F[y]) \subseteq Range(Concat(F))
<1>1. PICK g : /\ g = [s \in SUBSET DOMAIN F |->
                          IF s = {} THEN <<>>
                          ELSE g[s \ {CHOOSE x \in s : TRUE}] \o F[CHOOSE x \in s : TRUE]]
               /\ Concat(F) = g[DOMAIN F]
  BY ConcatIter, Zenon
<1> DEFINE Ok(s) == g[s] \in Seq(C) /\ \A x \in s : Range(F[x]) \subseteq Range(g[s])
<1>2. PICK bad : bad = {s \in SUBSET DOMAIN F : ~ Ok(s)}
  BY Zenon
<1>3. {} \notin bad
  <2>1. g[{}] = <<>>
    BY <1>1, Zenon
  <2>2. <<>> \in Seq(C)
    OBVIOUS
  <2> QED
    BY <1>2, <2>1, <2>2, Zenon
<1>4. ASSUME NEW s \in bad PROVE \E x \in s : s \ {x} \in bad
  <2>1. s \in SUBSET DOMAIN F /\ s # {} /\ ~ Ok(s)
    BY <1>2, <1>3, Zenon
  <2>2. PICK x : x = CHOOSE y1 \in s : TRUE
    BY Zenon
  <2>3. x \in s /\ x \in DOMAIN F
    BY <2>1, <2>2, Zenon
  <2>4. g[s] = g[s \ {x}] \o F[x]
    BY <1>1, <2>1, <2>2, Zenon
  <2>6. s \ {x} \in SUBSET DOMAIN F
    BY <2>1, Zenon
  <2>7. SUFFICES ASSUME Ok(s \ {x}) PROVE FALSE
    BY <1>2, <2>3, <2>6, Zenon
  <2>8. PICK a, b : a = g[s \ {x}] /\ b = F[x]
    BY Zenon
  <2>9. a \in Seq(C) /\ b \in Seq(C)
    BY <2>3, <2>7, <2>8, Zenon
  <2>10. a \o b \in Seq(C) /\ Range(a) \subseteq Range(a \o b) /\ Range(b) \subseteq Range(a \o b)
    BY <2>9, ConcatRange, Zenon
  <2> QED
    BY <2>1, <2>3, <2>4, <2>7, <2>8, <2>10, Zenon
<1>5. bad = {}
  BY <1>2, <1>3, <1>4, BySize, Zenon
<1> QED
  BY <1>1, <1>2, <1>5, Zenon

\* g appends the members of ss in their order.
Flattens(g, n, ss) ==
    g = [i \in 1 .. n |-> IF i = 1 THEN ss[i] ELSE g[i - 1] \o ss[i]]

\* A function of 1 .. n may be defined by recursion on the number before.
LEMMA FlattenExists ==
  ASSUME NEW ss, NEW n \in Nat
  PROVE  \E g : Flattens(g, n, ss)
<1> DEFINE Body(g, i) == IF i = 1 THEN ss[i] ELSE g[i - 1] \o ss[i]
           Has(m) == \E g : g = [i \in 1 .. m |-> Body(g, i)]
<1>1. Has(0)
  <2>1. PICK g : g = [i \in 1 .. 0 |-> {}]
    BY Zenon
  <2>2. \A i \in 1 .. 0 : FALSE
    OBVIOUS
  <2>3. g = [i \in 1 .. 0 |-> Body(g, i)]
    BY <2>1, <2>2, Zenon
  <2> QED
    BY <2>3, Zenon
<1>2. ASSUME NEW m \in Nat, Has(m) PROVE Has(m + 1)
  <2>1. PICK g : g = [i \in 1 .. m |-> Body(g, i)]
    BY <1>2, Zenon
  <2>2. PICK h : h = [i \in 1 .. m + 1 |-> Body(g, i)]
    BY Zenon
  <2>3. \A i \in 1 .. m : h[i] = g[i]
    <3> HIDE DEF Body
    <3> TAKE i \in 1 .. m
    <3>1. i \in 1 .. m + 1
      OBVIOUS
    <3>2. h[i] = Body(g, i)
      BY <2>2, <3>1, Zenon
    <3>3. g[i] = Body(g, i)
      BY <2>1, Zenon
    <3> QED
      BY <3>2, <3>3, Zenon
  <2>4. \A i \in 1 .. m + 1 : i # 1 => i - 1 \in 1 .. m
    OBVIOUS
  <2>5. \A i \in 1 .. m + 1 : Body(g, i) = Body(h, i)
    BY <2>3, <2>4, Zenon
  <2>6. h = [i \in 1 .. m + 1 |-> Body(h, i)]
    BY <2>2, <2>5, Zenon
  <2> QED
    BY <2>6, Zenon
<1>3. \A m \in Nat : Has(m)
  <2>1. PICK bad : bad = {m \in Nat : ~ Has(m)}
    BY Zenon
  <2> HIDE DEF Has
  <2>2. SUFFICES ASSUME bad # {} PROVE FALSE
    BY <2>1, Zenon
  <2>3. bad \in SUBSET Nat
    BY <2>1, Zenon
  <2>4. PICK m \in bad : \A k \in bad : m <= k
    BY <2>2, <2>3, Least, Zenon
  <2>5. m \in Nat /\ m # 0
    BY <1>1, <2>1, <2>4
  <2>6. PICK k \in Nat : m = k + 1
    BY <2>5
  <2>7. ~ (m <= k)
    BY <2>6
  <2> QED
    BY <1>2, <2>1, <2>4, <2>6, <2>7, Zenon
<1> QED
  BY <1>3, Zenon DEF Flattens

\* The same of InTurn.
LEMMA FlattenIn ==
  ASSUME NEW G, <<>> \in G, \A a, b \in G : a \o b \in G,
         NEW ss \in Seq(G)
  PROVE  InTurn(ss) \in G
<1>1. PICK n : n = Len(ss)
  BY Zenon
<1>2. n \in Nat /\ \A i \in 1 .. n : ss[i] \in G
  BY <1>1
<1>3. CASE n = 0
  <2>1. ss = <<>>
    BY <1>1, <1>3, NoCommands, Zenon
  <2> QED
    BY <1>1, <1>3, <2>1, Zenon DEF InTurn
<1>4. CASE n # 0
  <2>1. PICK g : g = [i \in 1 .. n |-> IF i = 1 THEN ss[i] ELSE g[i - 1] \o ss[i]]
                 /\ InTurn(ss) = g[n]
    <3>1. PICK g : Flattens(g, n, ss)
      BY <1>2, FlattenExists, Zenon
    <3> QED
      BY <1>1, <1>4, <3>1, Zenon DEF InTurn, Flattens
  <2>2. PICK bad : bad = {i \in 1 .. n : g[i] \notin G}
    BY Zenon
  <2>3. SUFFICES ASSUME bad # {} PROVE FALSE
    <3>1. n \in 1 .. n
      BY <1>2, <1>4
    <3> QED
      BY <2>1, <2>2, <2>3, <3>1, Zenon
  <2>4. bad \in SUBSET Nat
    BY <1>2, <2>2
  <2>5. PICK i \in bad : \A k \in bad : i <= k
    BY <2>3, <2>4, Least, Zenon
  <2>6. i \in 1 .. n /\ g[i] \notin G
    BY <2>2, <2>5, Zenon
  <2>7. i # 1
    BY <1>2, <2>1, <2>6, Zenon
  <2>8. i - 1 \in 1 .. n /\ ~ (i <= i - 1)
    BY <1>2, <2>6, <2>7
  <2>9. g[i - 1] \in G
    BY <2>2, <2>5, <2>8, Zenon
  <2> QED
    BY <1>2, <2>1, <2>6, <2>7, <2>9, Zenon
<1> QED
  BY <1>3, <1>4, Zenon

\* ------------------------------------------------------------------ lists

IsSeq(l) == l \in Seq(Range(l))

\* m is what l has after its first n members, or a part of that.
Part(m, l, n) ==
    /\ IsSeq(m) /\ IsSeq(l) /\ n \in Nat
    /\ n + Len(m) <= Len(l)
    /\ \A i \in 1 .. Len(m) : m[i] = l[n + i]

\* The positions of a sequence.
LEMMA Positions ==
  ASSUME NEW l, IsSeq(l)
  PROVE  Len(l) \in Nat /\ DOMAIN l = 1 .. Len(l)
<1>1. PICK C : l \in Seq(C)
  BY Zenon DEF IsSeq
<1> QED
  BY <1>1

\* A sequence of members of any set is one of its own members.
LEMMA OwnMembers ==
  ASSUME NEW C, NEW l \in Seq(C)
  PROVE  IsSeq(l)
<1>1. Len(l) \in Nat /\ DOMAIN l = 1 .. Len(l) /\ l = [i \in 1 .. Len(l) |-> l[i]]
  OBVIOUS
<1>2. PICK n \in Nat : n = Len(l)
  BY <1>1
<1>3. \A i \in 1 .. n : l[i] \in Range(l)
  BY <1>1, <1>2, Zenon DEF Range
<1>4. l \in [1 .. n -> Range(l)]
  BY <1>1, <1>2, <1>3, Zenon
<1>5. PICK R : R = Range(l)
  BY Zenon
<1>6. l \in Seq(R)
  BY <1>4, <1>5
<1> QED
  BY <1>5, <1>6, Zenon DEF IsSeq

\* The members of a list of members of C are in C.
LEMMA RangeIn ==
  ASSUME NEW C, NEW l \in Seq(C)
  PROVE  Range(l) \subseteq C
<1>1. \A i \in DOMAIN l : l[i] \in C
  OBVIOUS
<1> QED
  BY <1>1, Zenon DEF Range

\* A function of 1 .. n is a sequence.
LEMMA FunctionSeq ==
  ASSUME NEW n \in Nat, NEW l, l = [i \in 1 .. n |-> l[i]]
  PROVE  IsSeq(l) /\ Len(l) = n
<1>1. DOMAIN l = 1 .. n
  BY Zenon
<1>2. PICK R : R = Range(l)
  BY Zenon
<1>3. \A i \in 1 .. n : l[i] \in R
  BY <1>1, <1>2, Zenon DEF Range
<1>4. l \in [1 .. n -> R]
  BY <1>3, Zenon
<1>5. l \in Seq(R) /\ Len(l) = n
  BY <1>4
<1> QED
  BY <1>2, <1>5, Zenon DEF IsSeq

\* A sequence and one with more members are members of one set of sequences.
LEMMA Wider ==
  ASSUME NEW l, IsSeq(l), NEW C, Range(l) \subseteq C
  PROVE  l \in Seq(C)
<1>1. PICK R : R = Range(l)
  BY Zenon
<1>2. l \in Seq(R) /\ R \subseteq C
  BY <1>1, Zenon DEF IsSeq
<1> QED
  BY <1>2

\* Two sequences, one after the other.
LEMMA Cat ==
  ASSUME NEW x, NEW y, IsSeq(x), IsSeq(y)
  PROVE  /\ Part(x, x \o y, 0) /\ Part(y, x \o y, Len(x))
         /\ Len(x \o y) = Len(x) + Len(y)
         /\ Range(x \o y) = Range(x) \cup Range(y)
<1>1. PICK C : C = Range(x) \cup Range(y)
  BY Zenon
<1>2. x \in Seq(C) /\ y \in Seq(C)
  BY <1>1, Wider
<1>3. PICK z : z = x \o y
  BY Zenon
<1>4. /\ z \in Seq(C)
      /\ Len(z) = Len(x) + Len(y)
      /\ \A i \in 1 .. Len(x) : z[i] = x[i]
      /\ \A i \in 1 .. Len(y) : z[Len(x) + i] = y[i]
      /\ Range(x) \subseteq Range(z)
      /\ Range(y) \subseteq Range(z)
      /\ Range(z) \subseteq Range(x) \cup Range(y)
  <2>1. /\ x \o y \in Seq(C)
        /\ Len(x \o y) = Len(x) + Len(y)
        /\ \A i \in 1 .. Len(x) : (x \o y)[i] = x[i]
        /\ \A i \in 1 .. Len(y) : (x \o y)[Len(x) + i] = y[i]
        /\ Range(x) \subseteq Range(x \o y)
        /\ Range(y) \subseteq Range(x \o y)
        /\ Range(x \o y) \subseteq Range(x) \cup Range(y)
    BY <1>2, ConcatRange
  <2> QED
    BY <1>3, <2>1, Zenon
<1>5. IsSeq(z)
  BY <1>4, OwnMembers, Zenon
<1>6. Len(x) \in Nat /\ Len(y) \in Nat
  BY Positions, Zenon
<1>7. /\ 0 + Len(x) <= Len(z) /\ Len(x) + Len(y) <= Len(z) /\ 0 \in Nat
      /\ \A i \in 1 .. Len(x) : 0 + i = i
  BY <1>4, <1>6
<1>8. \A i \in 1 .. Len(x) : x[i] = z[0 + i]
  BY <1>4, <1>7, Zenon
<1>9. Part(x, z, 0)
  BY <1>5, <1>7, <1>8, Zenon DEF Part
<1>10. Part(y, z, Len(x))
  BY <1>4, <1>5, <1>6, <1>7, Zenon DEF Part
<1>11. Range(z) = Range(x) \cup Range(y)
  BY <1>4, Zenon
<1> QED
  BY <1>3, <1>4, <1>9, <1>10, <1>11, Zenon

\* What is left after the first command.
LEMMA TailPart ==
  ASSUME NEW l, IsSeq(l), l # <<>>
  PROVE  /\ Part(Tail(l), l, 1) /\ Len(Tail(l)) + 1 = Len(l)
         /\ Head(l) = l[1] /\ 1 \in DOMAIN l
<1>1. PICK C : l \in Seq(C)
  BY Zenon DEF IsSeq
<1>2. PICK m : m = Tail(l)
  BY Zenon
<1>3. /\ m \in Seq(C) /\ Len(m) + 1 = Len(l) /\ Len(l) \in Nat /\ Len(m) \in Nat
      /\ \A i \in 1 .. Len(m) : m[i] = l[1 + i]
      /\ Head(l) = l[1] /\ 1 \in DOMAIN l
  BY <1>1, <1>2, NoCommands
<1>4. IsSeq(m)
  BY <1>3, OwnMembers, Zenon
<1>5. 1 + Len(m) <= Len(l) /\ 1 \in Nat
  BY <1>3
<1> QED
  BY <1>2, <1>3, <1>4, <1>5, Zenon DEF Part

\* What is left when a Refresh failed.
LEMMA RestPart ==
  ASSUME NEW l, IsSeq(l), NEW n \in Nat, n <= Len(l)
  PROVE  /\ Part(SubSeq(l, n + 1, Len(l)), l, n)
         /\ Len(SubSeq(l, n + 1, Len(l))) + n = Len(l)
<1>1. PICK C : l \in Seq(C)
  BY Zenon DEF IsSeq
<1>2. PICK m : m = SubSeq(l, n + 1, Len(l))
  BY Zenon
<1>3. /\ m \in Seq(C) /\ Len(m) + n = Len(l) /\ Len(l) \in Nat /\ Len(m) \in Nat
      /\ \A i \in 1 .. Len(m) : m[i] = l[n + i]
  BY <1>1, <1>2
<1>4. IsSeq(m)
  BY <1>3, OwnMembers, Zenon
<1>5. n + Len(m) <= Len(l)
  BY <1>3
<1> QED
  BY <1>2, <1>3, <1>4, <1>5, Zenon DEF Part

\* -------------------------------------------------- commands of a Refresh

\* The set that a command of a Refresh is about, and its second set.
SetOf(c) == IF c.op = "swap" THEN c.on ELSE c.on[2]
SecondSet(c) == IF c.op = "swap" THEN c.arg ELSE c.on

\* What the set s is filled with, by its name.
EntriesOf(S) == {Entry(x) : x \in S}
RulesFor(is, p, dir) == IF dir = "ingress" THEN is[p].ingress ELSE is[p].egress
Content(is, s) ==
    LET rule == RulesFor(is, s[2], s[3][1])[s[4]]
    IN  IF s[3] \in {<<"target">>, <<"source">>} THEN EntriesOf(is[s[2]].targets)
        ELSE IF s[3][2] = "pod" THEN EntriesOf(rule.pods)
        ELSE IF s[3][2] = "ipblock" THEN rule.blocks
        ELSE EntriesOf(Listed(rule.named)[s[5]].ips)
Fills(is, s, E) == E = Content(is, s)

\* The commands of syncNetworkPolicyChains, outside and inside a Refresh.
Outside(c) ==
    \/ c.op = "newchain" /\ c.on[1] = "KUBE-NWPLCY-"
    \/ c.op = "create" /\ c.on[1] = "set"
    \/ c.op = "append"

Inside(c, is) ==
    /\ c.op \in {"create", "add", "swap", "destroy"}
    /\ SetOf(c)[1] = "set"
    /\ SecondSet(c) = TempName(SetOf(c))
    /\ c.op = "add" => c.arg \in Content(is, SetOf(c))

Step(c, is) ==
    /\ c.skip \in Nat
    /\ c.skip = 0 => Outside(c)
    /\ c.skip # 0 => Inside(c, is)

\* Positions i and k are in the same Refresh: what they skip ends together.
Same(l, i, k) == i + l[i].skip = k + l[k].skip

\* The order of the commands of a Refresh.
Later(x, y) ==
    \/ x \in {"create", "add"} /\ y # "create"
    \/ x = "swap" /\ y = "destroy"

\* What the command at k skips is in the list and is the rest of its Refresh.
Skips(l, k) ==
    l[k].skip # 0 =>
        /\ k + l[k].skip <= Len(l) + 1
        /\ \A i \in DOMAIN l : k <= i /\ i < k + l[k].skip =>
              /\ Same(l, i, k)
              /\ SetOf(l[i]) = SetOf(l[k])
              /\ i # k => Later(l[k].op, l[i].op)

Steps(l, is) == IsSeq(l) /\ \A k \in DOMAIN l : Step(l[k], is) /\ Skips(l, k)

\* Before position k: the same Refresh creates its second set; the same
\* Refresh adds the entry e; the set itself is created.
Creates(l, k) == \E j \in DOMAIN l : j < k /\ l[j].op = "create" /\ l[j].skip # 0 /\ Same(l, j, k)
Adds(l, k, e) ==
    \E j \in DOMAIN l : j < k /\ l[j].op = "add" /\ l[j].arg = e /\ Same(l, j, k)
Makes(l, k) ==
    \E j \in DOMAIN l : j < k /\ l[j].op = "create" /\ l[j].skip = 0 /\ l[j].on = l[k].on

\* Every Refresh of the list is whole.
Whole(l, k, is) ==
    /\ l[k].op \in {"add", "swap"} => Creates(l, k)
    /\ l[k].op = "swap" => \A e \in Content(is, l[k].on) : Adds(l, k, e)
Plan(l, is) == Steps(l, is) /\ \A k \in DOMAIN l : Whole(l, k, is)

\* A part of a list, as positions.
LEMMA PartPositions ==
  ASSUME NEW m, NEW l, NEW n, Part(m, l, n)
  PROVE  /\ IsSeq(m) /\ IsSeq(l) /\ n \in Nat /\ Len(m) \in Nat /\ Len(l) \in Nat
         /\ n + Len(m) <= Len(l)
         /\ DOMAIN m = 1 .. Len(m) /\ DOMAIN l = 1 .. Len(l)
         /\ \A i \in DOMAIN m : n + i \in DOMAIN l /\ m[i] = l[n + i]
         /\ \A i \in DOMAIN m : i \in Nat
         /\ \A i \in DOMAIN l : i \in Nat
<1>1. IsSeq(m) /\ IsSeq(l) /\ n \in Nat /\ n + Len(m) <= Len(l)
      /\ \A i \in 1 .. Len(m) : m[i] = l[n + i]
  BY Zenon DEF Part
<1>2. Len(m) \in Nat /\ Len(l) \in Nat /\ DOMAIN m = 1 .. Len(m) /\ DOMAIN l = 1 .. Len(l)
  BY <1>1, Positions, Zenon
<1>3. \A i \in 1 .. Len(m) : n + i \in 1 .. Len(l)
  BY <1>1, <1>2
<1>4. (\A i \in 1 .. Len(m) : i \in Nat) /\ (\A i \in 1 .. Len(l) : i \in Nat)
  BY <1>2
<1> QED
  BY <1>1, <1>2, <1>3, <1>4, Zenon

\* Positions move by n.
LEMMA SameMoves ==
  ASSUME NEW m, NEW l, NEW n, Part(m, l, n), NEW i \in DOMAIN m, NEW k \in DOMAIN m,
         m[i].skip \in Nat, m[k].skip \in Nat
  PROVE  Same(m, i, k) <=> Same(l, n + i, n + k)
<1>1. n \in Nat /\ i \in Nat /\ k \in Nat /\ m[i] = l[n + i] /\ m[k] = l[n + k]
  BY PartPositions
<1>2. PICK x \in Nat, y \in Nat : x = m[i].skip /\ y = m[k].skip
  BY Zenon
<1>3. (i + x = k + y) <=> ((n + i) + x = (n + k) + y)
  BY <1>1
<1>4. Same(m, i, k) <=> (i + x = k + y)
  BY <1>2, Zenon DEF Same
<1>5. Same(l, n + i, n + k) <=> ((n + i) + x = (n + k) + y)
  BY <1>1, <1>2, Zenon DEF Same
<1> QED
  BY <1>3, <1>4, <1>5, Zenon

\* What the list does before a position it does in every longer list.
LEMMA FirstMoves ==
  ASSUME NEW m, NEW l, NEW n, Part(m, l, n), NEW k \in DOMAIN m,
         \A i \in DOMAIN m : m[i].skip \in Nat
  PROVE  /\ Creates(m, k) => Creates(l, n + k)
         /\ \A e : Adds(m, k, e) => Adds(l, n + k, e)
         /\ Makes(m, k) => Makes(l, n + k)
<1>1. n \in Nat /\ k \in Nat /\ m[k] = l[n + k]
      /\ \A i \in DOMAIN m : i \in Nat /\ n + i \in DOMAIN l /\ m[i] = l[n + i]
  BY PartPositions
<1>2. \A i \in DOMAIN m : i < k => n + i < n + k
  BY <1>1
<1>3. \A i \in DOMAIN m : Same(m, i, k) => Same(l, n + i, n + k)
  BY SameMoves, Zenon
<1>4. Creates(m, k) => Creates(l, n + k)
  BY <1>1, <1>2, <1>3, Zenon DEF Creates
<1>5. \A e : Adds(m, k, e) => Adds(l, n + k, e)
  BY <1>1, <1>2, <1>3, Zenon DEF Adds
<1>6. Makes(m, k) => Makes(l, n + k)
  BY <1>1, <1>2, Zenon DEF Makes
<1> QED
  BY <1>4, <1>5, <1>6, Zenon

\* What a command skips, in a longer list.
LEMMA SkipsMoves ==
  ASSUME NEW m, NEW l, NEW n, Part(m, l, n), NEW k \in DOMAIN m,
         \A i \in DOMAIN m : m[i].skip \in Nat, Skips(m, k)
  PROVE  Skips(l, n + k)
<1>1. /\ n \in Nat /\ k \in Nat /\ Len(m) \in Nat /\ Len(l) \in Nat /\ n + Len(m) <= Len(l)
      /\ m[k] = l[n + k] /\ DOMAIN m = 1 .. Len(m)
      /\ \A i \in DOMAIN m : i \in Nat /\ n + i \in DOMAIN l /\ m[i] = l[n + i]
      /\ \A i \in DOMAIN l : i \in Nat
  BY PartPositions
<1>2. PICK x \in Nat : x = m[k].skip
  BY Zenon
<1>3. SUFFICES ASSUME x # 0
               PROVE  /\ n + k + x <= Len(l) + 1
                      /\ \A i \in DOMAIN l : n + k <= i /\ i < n + k + x =>
                            /\ Same(l, i, n + k)
                            /\ SetOf(l[i]) = SetOf(l[n + k])
                            /\ i # n + k => Later(l[n + k].op, l[i].op)
  BY <1>1, <1>2, Zenon DEF Skips
<1>4. /\ k + x <= Len(m) + 1
      /\ \A i \in DOMAIN m : k <= i /\ i < k + x =>
            /\ Same(m, i, k)
            /\ SetOf(m[i]) = SetOf(m[k])
            /\ i # k => Later(m[k].op, m[i].op)
  BY <1>2, <1>3, Zenon DEF Skips
<1>5. n + k + x <= Len(l) + 1
  BY <1>1, <1>4
<1>6. ASSUME NEW i \in DOMAIN l, n + k <= i, i < n + k + x
      PROVE  /\ Same(l, i, n + k)
             /\ SetOf(l[i]) = SetOf(l[n + k])
             /\ i # n + k => Later(l[n + k].op, l[i].op)
  <2>1. PICK j \in Nat : i = n + j
    <3>1. i - n \in Nat /\ i = n + (i - n)
      BY <1>1, <1>6
    <3> QED
      BY <3>1, Zenon
  <2>2. j \in 1 .. Len(m) /\ k <= j /\ j < k + x /\ (i # n + k => j # k)
    <3>1. n \in Nat /\ k \in Nat /\ Len(m) \in Nat /\ 1 <= k /\ k + x <= Len(m) + 1
      BY <1>1, <1>4
    <3>2. n + k <= n + j /\ n + j < n + k + x
      BY <1>6, <2>1
    <3>3. k <= j /\ j < k + x
      BY <3>1, <3>2
    <3>4. j \in 1 .. Len(m)
      BY <3>1, <3>3
    <3>5. i # n + k => j # k
      BY <2>1
    <3> QED
      BY <3>3, <3>4, <3>5, Zenon
  <2>3. j \in DOMAIN m
    BY <1>1, <2>2, Zenon
  <2>4. Same(l, n + j, n + k)
    BY <1>4, <2>2, <2>3, SameMoves, Zenon
  <2> QED
    BY <1>1, <1>4, <2>1, <2>2, <2>3, <2>4, Zenon
<1> QED
  BY <1>5, <1>6, Zenon

\* What a command skips, when the commands before it are gone.
LEMMA SkipsStays ==
  ASSUME NEW m, NEW l, NEW n, Part(m, l, n), n + Len(m) = Len(l), NEW k \in DOMAIN m,
         \A i \in DOMAIN m : m[i].skip \in Nat, Skips(l, n + k)
  PROVE  Skips(m, k)
<1>1. /\ n \in Nat /\ k \in Nat /\ Len(m) \in Nat /\ Len(l) \in Nat
      /\ m[k] = l[n + k]
      /\ \A i \in DOMAIN m : i \in Nat /\ n + i \in DOMAIN l /\ m[i] = l[n + i]
  BY PartPositions
<1>2. PICK x \in Nat : x = m[k].skip
  BY Zenon
<1>3. SUFFICES ASSUME x # 0
               PROVE  /\ k + x <= Len(m) + 1
                      /\ \A i \in DOMAIN m : k <= i /\ i < k + x =>
                            /\ Same(m, i, k)
                            /\ SetOf(m[i]) = SetOf(m[k])
                            /\ i # k => Later(m[k].op, m[i].op)
  BY <1>2, Zenon DEF Skips
<1>4. /\ n + k + x <= Len(l) + 1
      /\ \A i \in DOMAIN l : n + k <= i /\ i < n + k + x =>
            /\ Same(l, i, n + k)
            /\ SetOf(l[i]) = SetOf(l[n + k])
            /\ i # n + k => Later(l[n + k].op, l[i].op)
  BY <1>1, <1>2, <1>3, Zenon DEF Skips
<1>5. k + x <= Len(m) + 1
  BY <1>1, <1>4
<1>6. ASSUME NEW i \in DOMAIN m, k <= i, i < k + x
      PROVE  /\ Same(m, i, k)
             /\ SetOf(m[i]) = SetOf(m[k])
             /\ i # k => Later(m[k].op, m[i].op)
  <2>1. n + k <= n + i /\ n + i < n + k + x /\ (i # k => n + i # n + k)
    <3>1. n \in Nat /\ k \in Nat /\ i \in Nat
      BY <1>1, Zenon
    <3> QED
      BY <1>6, <3>1
  <2>2. n + i \in DOMAIN l /\ m[i] = l[n + i]
    BY <1>1, Zenon
  <2>3. Same(m, i, k)
    BY <1>4, <2>1, <2>2, SameMoves, Zenon
  <2> QED
    BY <1>1, <1>4, <2>1, <2>2, <2>3, Zenon
<1> QED
  BY <1>5, <1>6, Zenon

\* A position of two lists, one after the other, is one of the first or one
\* of the second.
LEMMA CatPosition ==
  ASSUME NEW x, NEW y, IsSeq(x), IsSeq(y), NEW k \in DOMAIN (x \o y)
  PROVE  (k \in DOMAIN x /\ 0 + k = k) \/ \E j \in DOMAIN y : k = Len(x) + j
<1>1. /\ Len(x) \in Nat /\ Len(y) \in Nat /\ DOMAIN x = 1 .. Len(x) /\ DOMAIN y = 1 .. Len(y)
  BY Positions, Zenon
<1>2. IsSeq(x \o y) /\ Len(x \o y) = Len(x) + Len(y)
  BY Cat, Zenon DEF Part
<1>3. k \in 1 .. Len(x) + Len(y)
  BY <1>2, Positions
<1>4. k \notin 1 .. Len(x) => (k - Len(x) \in 1 .. Len(y) /\ k = Len(x) + (k - Len(x)))
  BY <1>1, <1>3
<1>5. k \in 1 .. Len(x) => 0 + k = k
  BY <1>1
<1> QED
  BY <1>1, <1>4, <1>5, Zenon

\* A whole plan after a whole plan is one.
LEMMA PlanCat ==
  ASSUME NEW x, NEW y, NEW is, Plan(x, is), Plan(y, is)
  PROVE  Plan(x \o y, is)
<1>1. IsSeq(x) /\ IsSeq(y)
  BY Zenon DEF Plan, Steps
<1>2. PICK z : z = x \o y
  BY Zenon
<1>3. Part(x, z, 0) /\ Part(y, z, Len(x))
  BY <1>1, <1>2, Cat, Zenon
<1>4. \A k \in DOMAIN z : (k \in DOMAIN x /\ 0 + k = k) \/ \E j \in DOMAIN y : k = Len(x) + j
  <2>1. \A k \in DOMAIN (x \o y) :
            (k \in DOMAIN x /\ 0 + k = k) \/ \E j \in DOMAIN y : k = Len(x) + j
    BY <1>1, CatPosition
  <2> QED
    BY <1>2, <2>1, Zenon
<1>5. ASSUME NEW m, NEW n, Part(m, z, n), Plan(m, is), NEW k \in DOMAIN m
      PROVE  Step(z[n + k], is) /\ Skips(z, n + k) /\ Whole(z, n + k, is)
  <2>1. /\ \A i \in DOMAIN m : m[i].skip \in Nat
        /\ Step(m[k], is) /\ Skips(m, k) /\ Whole(m, k, is)
    BY <1>5, Zenon DEF Plan, Steps, Step
  <2>2. m[k] = z[n + k]
    BY <1>5, PartPositions
  <2>3. Skips(z, n + k)
    BY <1>5, <2>1, SkipsMoves, Zenon
  <2>4. /\ Creates(m, k) => Creates(z, n + k)
        /\ \A e : Adds(m, k, e) => Adds(z, n + k, e)
    BY <1>5, <2>1, FirstMoves, Zenon
  <2>5. Whole(z, n + k, is)
    BY <2>1, <2>2, <2>4, Zenon DEF Whole
  <2> QED
    BY <2>1, <2>2, <2>3, <2>5, Zenon
<1>6. ASSUME NEW k \in DOMAIN z
      PROVE  Step(z[k], is) /\ Skips(z, k) /\ Whole(z, k, is)
  <2>1. CASE k \in DOMAIN x /\ 0 + k = k
    <3>1. Step(z[0 + k], is) /\ Skips(z, 0 + k) /\ Whole(z, 0 + k, is)
      BY <1>3, <1>5, <2>1, Zenon
    <3> QED
      BY <2>1, <3>1, Zenon
  <2>2. CASE \E j \in DOMAIN y : k = Len(x) + j
    BY <1>3, <1>5, <2>2, Zenon
  <2> QED
    BY <1>4, <2>1, <2>2, Zenon
<1> QED
  BY <1>2, <1>3, <1>6, Zenon DEF Plan, Steps, Part

\* Every set that is swapped is created before, and every Refresh is whole.
Ready(l, is) == Plan(l, is) /\ \A k \in DOMAIN l : l[k].op = "swap" => Makes(l, k)

\* The set s is created in the list.
Made(l, s) == \E c \in Range(l) : c.op = "create" /\ c.skip = 0 /\ c.on = s

\* A set that the first list creates is there for the second.
LEMMA ReadyAfter ==
  ASSUME NEW x, NEW y, NEW is, Ready(x, is), Plan(y, is),
         \A k \in DOMAIN y : y[k].op = "swap" => Makes(y, k) \/ Made(x, y[k].on)
  PROVE  Ready(x \o y, is)
<1>1. /\ IsSeq(x) /\ IsSeq(y) /\ Plan(x, is)
      /\ \A i \in DOMAIN x : x[i].skip \in Nat
      /\ \A i \in DOMAIN y : y[i].skip \in Nat
  BY Zenon DEF Ready, Plan, Steps, Step
<1>2. PICK z : z = x \o y
  BY Zenon
<1>3. Part(x, z, 0) /\ Part(y, z, Len(x)) /\ Plan(z, is)
  BY <1>1, <1>2, Cat, PlanCat, Zenon
<1>4. \A k \in DOMAIN z : (k \in DOMAIN x /\ 0 + k = k) \/ \E j \in DOMAIN y : k = Len(x) + j
  <2>1. \A k \in DOMAIN (x \o y) :
            (k \in DOMAIN x /\ 0 + k = k) \/ \E j \in DOMAIN y : k = Len(x) + j
    BY <1>1, CatPosition
  <2> QED
    BY <1>2, <2>1, Zenon
<1>5. ASSUME NEW k \in DOMAIN x, 0 + k = k, z[k].op = "swap"
      PROVE  Makes(z, k)
  <2>1. x[k] = z[0 + k]
    BY <1>3, PartPositions
  <2>2. Makes(x, k)
    BY <1>5, <2>1, Zenon DEF Ready
  <2>3. Makes(z, 0 + k)
    BY <1>1, <1>3, <2>2, FirstMoves, Zenon
  <2> QED
    BY <1>5, <2>3, Zenon
<1>6. ASSUME NEW j \in DOMAIN y, z[Len(x) + j].op = "swap"
      PROVE  Makes(z, Len(x) + j)
  <2>1. /\ y[j] = z[Len(x) + j] /\ j \in DOMAIN y /\ DOMAIN y = 1 .. Len(y)
        /\ Len(y) \in Nat
    BY <1>3, PartPositions
  <2>2. CASE Makes(y, j)
    BY <1>1, <1>3, <2>2, FirstMoves, Zenon
  <2>3. CASE Made(x, y[j].on)
    <3>1. PICK i \in DOMAIN x : x[i].op = "create" /\ x[i].skip = 0 /\ x[i].on = y[j].on
      BY <2>3, Zenon DEF Made, Range
    <3>2. DOMAIN x = 1 .. Len(x) /\ Len(x) \in Nat
      BY <1>1, Positions, Zenon
    <3>3. 0 + i = i /\ i < Len(x) + j
      BY <2>1, <3>2
    <3>4. 0 + i \in DOMAIN z /\ x[i] = z[0 + i]
      BY <1>3, PartPositions
    <3>5. i \in DOMAIN z /\ x[i] = z[i]
      BY <3>3, <3>4, Zenon
    <3> QED
      BY <2>1, <3>1, <3>3, <3>5, Zenon DEF Makes
  <2> QED
    BY <1>6, <2>1, <2>2, <2>3, Zenon
<1>7. \A k \in DOMAIN z : z[k].op = "swap" => Makes(z, k)
  BY <1>4, <1>5, <1>6, Zenon
<1> QED
  BY <1>2, <1>3, <1>7, Zenon DEF Ready

\* Two whole lists of commands of syncNetworkPolicyChains, one after the other,
\* are a whole list: no failure in the first skips into the second.
LEMMA ReadyCat ==
  ASSUME NEW x, NEW y, NEW is, Ready(x, is), Ready(y, is)
  PROVE  Ready(x \o y, is)
BY ReadyAfter, Zenon DEF Ready

\* A rule that issues no command breaks nothing.
LEMMA ReadyEmpty ==
  ASSUME NEW is
  PROVE  Ready(<<>>, is)
<1>1. IsSeq(<<>>)
  BY OwnMembers, NoCommands, Zenon
<1>2. DOMAIN <<>> = {}
  OBVIOUS
<1>3. PICK l : l = <<>>
  BY Zenon
<1>4. IsSeq(l) /\ DOMAIN l = {}
  BY <1>1, <1>2, <1>3, Zenon
<1>5. Ready(l, is)
  BY <1>4, Zenon DEF Ready, Plan, Steps
<1> QED
  BY <1>3, <1>5, Zenon

\* What a loop over a finite set issues is whole when each turn of it is.
LEMMA ReadyConcat ==
  ASSUME NEW is, NEW F, IsFiniteSet(DOMAIN F), \A x \in DOMAIN F : Ready(F[x], is)
  PROVE  Ready(Concat(F), is)
<1>1. PICK C : C = UNION {Range(F[x]) : x \in DOMAIN F}
  BY Zenon
<1>2. PICK G : G = {l \in Seq(C) : Ready(l, is)}
  BY Zenon
<1>3. <<>> \in G
  BY <1>2, ReadyEmpty, NoCommands, Zenon
<1>4. \A x, y \in G : x \o y \in G
  BY <1>2, ReadyCat, ConcatRange, Zenon
<1>5. ASSUME NEW x \in DOMAIN F PROVE F[x] \in G
  <2>1. IsSeq(F[x]) /\ Ready(F[x], is)
    BY Zenon DEF Ready, Plan, Steps
  <2>2. Range(F[x]) \subseteq C
    BY <1>1, Zenon
  <2>3. F[x] \in Seq(C)
    BY <2>1, <2>2, Wider, Zenon
  <2> QED
    BY <1>2, <2>1, <2>3, Zenon
<1>6. Concat(F) \in G
  BY <1>3, <1>4, <1>5, ConcatIn, Zenon
<1> QED
  BY <1>2, <1>6, Zenon

\* What a loop over a list issues is whole when each turn of it is.
LEMMA ReadyFlatten ==
  ASSUME NEW is, NEW ss, IsSeq(ss), \A i \in DOMAIN ss : Ready(ss[i], is)
  PROVE  Ready(InTurn(ss), is)
<1>1. PICK C : C = UNION {Range(ss[i]) : i \in DOMAIN ss}
  BY Zenon
<1>2. PICK G : G = {l \in Seq(C) : Ready(l, is)}
  BY Zenon
<1>3. <<>> \in G
  BY <1>2, ReadyEmpty, NoCommands, Zenon
<1>4. \A x, y \in G : x \o y \in G
  BY <1>2, ReadyCat, ConcatRange, Zenon
<1>5. ASSUME NEW i \in DOMAIN ss PROVE ss[i] \in G
  <2>1. IsSeq(ss[i]) /\ Ready(ss[i], is)
    BY Zenon DEF Ready, Plan, Steps
  <2>2. Range(ss[i]) \subseteq C
    BY <1>1, Zenon
  <2>3. ss[i] \in Seq(C)
    BY <2>1, <2>2, Wider, Zenon
  <2> QED
    BY <1>2, <2>1, <2>3, Zenon
<1>6. Range(ss) \subseteq G
  BY <1>5, Zenon DEF Range
<1>7. InTurn(ss) \in G
  BY <1>3, <1>4, <1>6, Wider, FlattenIn, Zenon
<1> QED
  BY <1>2, <1>7, Zenon

\* A list of one command.
LEMMA Single ==
  ASSUME NEW c
  PROVE  /\ IsSeq(<<c>>) /\ Len(<<c>>) = 1 /\ DOMAIN <<c>> = {1}
         /\ <<c>>[1] = c /\ Range(<<c>>) = {c}
<1>1. <<c>> \in Seq({c}) /\ Len(<<c>>) = 1 /\ DOMAIN <<c>> = {1} /\ <<c>>[1] = c
  OBVIOUS
<1>2. IsSeq(<<c>>)
  BY <1>1, OwnMembers, Zenon
<1>3. Range(<<c>>) = {c}
  BY <1>1 DEF Range
<1> QED
  BY <1>1, <1>2, <1>3, Zenon

\* A single command outside of Refresh is whole: its failure skips nothing.
LEMMA ReadySingle ==
  ASSUME NEW c, NEW is, c.skip = 0, Outside(c)
  PROVE  Ready(<<c>>, is)
<1>1. PICK l : l = <<c>>
  BY Zenon
<1>2. IsSeq(l) /\ DOMAIN l = {1} /\ l[1] = c
  BY <1>1, Single, Zenon
<1>3. c.op \notin {"add", "swap"} /\ 0 \in Nat
  BY Zenon DEF Outside
<1>4. Step(c, is)
  BY <1>3, Zenon DEF Step
<1>5. \A k \in DOMAIN l : l[k] = c
  BY <1>2, Zenon
<1>6. \A k \in DOMAIN l : Step(l[k], is) /\ Skips(l, k) /\ Whole(l, k, is) /\ l[k].op # "swap"
  BY <1>3, <1>4, <1>5, Zenon DEF Skips, Whole
<1> QED
  BY <1>1, <1>2, <1>6, Zenon DEF Ready, Plan, Steps

\* The adds of a Refresh.
AddCommands(t, entries) == Concat([e \in entries |-> <<Cmd("add", t, e)>>])

\* Refresh adds every entry to the second set, and issues nothing else there.
LEMMA AddList ==
  ASSUME NEW t, NEW entries, IsFiniteSet(entries)
  PROVE  /\ IsSeq(AddCommands(t, entries))
         /\ Range(AddCommands(t, entries)) = {Cmd("add", t, e) : e \in entries}
<1>1. PICK F : F = [e \in entries |-> <<Cmd("add", t, e)>>]
  BY Zenon
<1>2. DOMAIN F = entries /\ \A e \in entries : F[e] = <<Cmd("add", t, e)>>
  BY <1>1, Zenon
<1>3. PICK C : C = {Cmd("add", t, e) : e \in entries}
  BY Zenon
<1>4. ASSUME NEW e \in entries PROVE F[e] \in Seq(C) /\ Range(F[e]) = {Cmd("add", t, e)}
  <2>1. PICK c : c = Cmd("add", t, e)
    BY Zenon
  <2>2. c \in C /\ F[e] = <<c>>
    BY <1>2, <1>3, <2>1, Zenon
  <2>3. <<c>> \in Seq(C)
    BY <2>2
  <2> QED
    BY <2>1, <2>2, <2>3, Single, Zenon
<1>5. Concat(F) \in Seq(C)
  <2>1. PICK G : G = Seq(C)
    BY Zenon
  <2>2. <<>> \in G /\ \A x, y \in G : x \o y \in G
    BY <2>1, NoCommands, ConcatRange, Zenon
  <2> QED
    BY <1>2, <1>4, <2>1, <2>2, ConcatIn, Zenon
<1>6. \A e \in entries : Range(F[e]) \subseteq Range(Concat(F))
  BY <1>2, <1>4, ConcatHas, Zenon
<1>7. PICK B : B = AddCommands(t, entries) /\ B = Concat(F)
  BY <1>1, Zenon DEF AddCommands
<1>8. IsSeq(B)
  BY <1>5, <1>7, OwnMembers, Zenon
<1>9. Range(B) \subseteq C
  BY <1>5, <1>7, RangeIn, Zenon
<1>10. C \subseteq Range(B)
  BY <1>3, <1>4, <1>6, <1>7, Zenon
<1> QED
  BY <1>3, <1>7, <1>8, <1>9, <1>10, Zenon

\* The commands of a Refresh, by position; n entries.
Refreshes(l, s, entries, n) ==
    /\ IsSeq(l) /\ n \in Nat /\ Len(l) = n + 3
    /\ \A k \in 1 .. n + 3 : l[k].skip = n + 4 - k
    /\ l[1].op = "create" /\ l[1].on = TempName(s)
    /\ \A k \in 2 .. n + 1 : l[k].op = "add" /\ l[k].on = TempName(s) /\ l[k].arg \in entries
    /\ l[n + 2].op = "swap" /\ l[n + 2].on = s /\ l[n + 2].arg = TempName(s)
    /\ l[n + 3].op = "destroy" /\ l[n + 3].on = TempName(s)
    /\ \A e \in entries : \E k \in 2 .. n + 1 : l[k].arg = e

\* A list of two commands.
LEMMA Pair ==
  ASSUME NEW c, NEW d
  PROVE  IsSeq(<<c, d>>) /\ Len(<<c, d>>) = 2 /\ <<c, d>>[1] = c /\ <<c, d>>[2] = d
         /\ Range(<<c, d>>) = {c, d}
<1>1. /\ <<c, d>> \in Seq({c, d}) /\ Len(<<c, d>>) = 2 /\ <<c, d>>[1] = c /\ <<c, d>>[2] = d
      /\ DOMAIN <<c, d>> = {1, 2}
  OBVIOUS
<1>2. IsSeq(<<c, d>>)
  BY <1>1, OwnMembers, Zenon
<1>3. Range(<<c, d>>) = {c, d}
  BY <1>1 DEF Range
<1> QED
  BY <1>1, <1>2, <1>3, Zenon

\* c is the command whose failure skips nothing, or the one that skips n.
IsCommand(c, op, on, arg) == c = Cmd(op, on, arg)
IsSkipping(c, op, on, arg, n) == c.op = op /\ c.on = on /\ c.arg = arg /\ c.skip = n

\* Refresh is: create the second set, add the entries to it, swap, destroy it,
\* each command with what is left of the Refresh to skip.
LEMMA RefreshList ==
  ASSUME NEW s, NEW entries, IsFiniteSet(entries)
  PROVE  \E n : Refreshes(Refresh(s, entries), s, entries, n)
<1>1. PICK t, x, B, y, z : /\ t = TempName(s) /\ x = Cmd("create", t, Nil)
                          /\ B = AddCommands(t, entries)
                          /\ y = Cmd("swap", s, t) /\ z = Cmd("destroy", t, Nil)
  BY Zenon
<1>2. IsSeq(B) /\ Range(B) = {Cmd("add", t, e) : e \in entries}
  <2>1. /\ IsSeq(AddCommands(t, entries))
        /\ Range(AddCommands(t, entries)) = {Cmd("add", t, e) : e \in entries}
    BY AddList
  <2> QED
    BY <1>1, <2>1, Zenon
<1>3. PICK n : n = Len(B)
  BY Zenon
<1>4. n \in Nat /\ DOMAIN B = 1 .. n
  BY <1>2, <1>3, Positions, Zenon
<1>5. PICK X, A : X = <<x>> /\ A = X \o B
  BY Zenon
<1>6. PICK Y, l : Y = <<y, z>> /\ l = A \o Y
  BY Zenon
<1>7. /\ IsSeq(A) /\ Len(A) = n + 1 /\ A[1] = x /\ \A k \in 1 .. n : A[k + 1] = B[k]
  <2>0. IsSeq(X) /\ Len(X) = 1 /\ X[1] = x
    BY <1>5, Single, Zenon
  <2>1. Part(X, A, 0) /\ Part(B, A, 1) /\ Len(A) = 1 + n
    BY <1>2, <1>3, <1>5, <2>0, Cat, Zenon
  <2>2. IsSeq(A) /\ (\A i \in 1 .. 1 : X[i] = A[0 + i]) /\ (\A i \in 1 .. n : B[i] = A[1 + i])
    BY <2>0, <2>1, <1>3, Zenon DEF Part
  <2>3. A[1] = x
    BY <2>0, <2>2
  <2>4. \A i \in 1 .. n : 1 + i = i + 1
    BY <1>4
  <2>5. 1 + n = n + 1
    BY <1>4
  <2> QED
    BY <2>1, <2>2, <2>3, <2>4, <2>5, Zenon
<1>8. /\ IsSeq(l) /\ Len(l) = n + 3 /\ l[n + 2] = y /\ l[n + 3] = z
      /\ \A k \in 1 .. n + 1 : l[k] = A[k]
  <2>0. IsSeq(Y) /\ Len(Y) = 2 /\ Y[1] = y /\ Y[2] = z
    BY <1>6, Pair, Zenon
  <2>1. Part(A, l, 0) /\ Part(Y, l, n + 1) /\ Len(l) = n + 1 + 2
    <3>1. Part(A, A \o Y, 0) /\ Part(Y, A \o Y, Len(A)) /\ Len(A \o Y) = Len(A) + Len(Y)
      BY <1>7, <2>0, Cat, Zenon
    <3> QED
      BY <1>6, <1>7, <2>0, <3>1, Zenon
  <2>2. /\ IsSeq(l) /\ (\A i \in 1 .. n + 1 : A[i] = l[0 + i])
        /\ (\A i \in 1 .. 2 : Y[i] = l[n + 1 + i])
    BY <1>7, <2>0, <2>1, Zenon DEF Part
  <2>3. n + 1 + 2 = n + 3 /\ n + 1 + 1 = n + 2 /\ 1 \in 1 .. 2 /\ 2 \in 1 .. 2
        /\ \A i \in 1 .. n + 1 : 0 + i = i
    BY <1>4
  <2>4. l[n + 2] = y /\ l[n + 3] = z
    BY <2>0, <2>2, <2>3, Zenon
  <2> QED
    BY <2>1, <2>2, <2>3, <2>4, Zenon
<1>9. DOMAIN l = 1 .. n + 3
  BY <1>8, Positions, Zenon
<1>10. PICK r : r = [k \in DOMAIN l |-> [l[k] EXCEPT !.skip = Len(l) - k + 1]]
  BY Zenon
<1>11. r = Refresh(s, entries)
  BY <1>1, <1>5, <1>6, <1>10, Zenon DEF Refresh, AddCommands
<1>12. ASSUME NEW op, NEW on, NEW arg, NEW k \in 1 .. n + 3, IsCommand(l[k], op, on, arg)
       PROVE  IsSkipping(r[k], op, on, arg, n + 4 - k)
  <2>1. PICK v : v = n + 4 - k
    BY Zenon
  <2>2. v = n + 3 - k + 1
    BY <1>4, <2>1
  <2>3. r[k] = [l[k] EXCEPT !.skip = Len(l) - k + 1]
    BY <1>9, <1>10, Zenon
  <2>4. r[k] = [Cmd(op, on, arg) EXCEPT !.skip = v]
    <3>1. Len(l) - k + 1 = v
      BY <1>4, <1>8, <2>2
    <3>2. l[k] = Cmd(op, on, arg)
      BY <1>12, Zenon DEF IsCommand
    <3> QED
      BY <2>3, <3>1, <3>2, Zenon
  <2>5. r[k].op = op /\ r[k].on = on /\ r[k].arg = arg /\ r[k].skip = v
    BY <2>4 DEF Cmd
  <2> QED
    BY <2>1, <2>5, Zenon DEF IsSkipping
<1>13. \A k \in 2 .. n + 1 : \E e \in entries : IsCommand(l[k], "add", t, e)
  <2> TAKE k \in 2 .. n + 1
  <2>1. k - 1 \in 1 .. n /\ k \in 1 .. n + 1 /\ k - 1 + 1 = k
    BY <1>4
  <2>2. l[k] = B[k - 1]
    BY <1>7, <1>8, <2>1, Zenon
  <2>3. B[k - 1] \in Range(B)
    BY <1>4, <2>1, Zenon DEF Range
  <2> QED
    BY <1>2, <2>2, <2>3, Zenon DEF IsCommand
<1>14. \A e \in entries : \E k \in 2 .. n + 1 : IsCommand(l[k], "add", t, e)
  <2> TAKE e \in entries
  <2>1. PICK i \in 1 .. n : B[i] = Cmd("add", t, e)
    BY <1>2, <1>4, Zenon DEF Range
  <2>2. i + 1 \in 2 .. n + 1 /\ i + 1 \in 1 .. n + 1
    BY <1>4
  <2>3. l[i + 1] = B[i]
    BY <1>7, <1>8, <2>2, Zenon
  <2> QED
    BY <2>1, <2>2, <2>3, Zenon DEF IsCommand
<1>15. /\ 1 \in 1 .. n + 3 /\ n + 2 \in 1 .. n + 3 /\ n + 3 \in 1 .. n + 3 /\ 1 \in 1 .. n + 1
       /\ \A k \in 2 .. n + 1 : k \in 1 .. n + 3
       /\ n + 3 \in Nat
  BY <1>4
<1>25. \A k \in 1 .. n + 3 : k = 1 \/ k \in 2 .. n + 1 \/ k = n + 2 \/ k = n + 3
  BY <1>4
<1>16. IsCommand(l[1], "create", t, Nil) /\ IsCommand(l[n + 2], "swap", s, t)
       /\ IsCommand(l[n + 3], "destroy", t, Nil)
  BY <1>1, <1>7, <1>8, <1>15, Zenon DEF IsCommand
<1>17. r[1].op = "create" /\ r[1].on = t
  <2>1. IsSkipping(r[1], "create", t, Nil, n + 4 - 1)
    BY <1>12, <1>15, <1>16, Zenon
  <2> QED
    BY <2>1, Zenon DEF IsSkipping
<1>18. r[n + 2].op = "swap" /\ r[n + 2].on = s /\ r[n + 2].arg = t
  <2>1. IsSkipping(r[n + 2], "swap", s, t, n + 4 - (n + 2))
    BY <1>12, <1>15, <1>16, Zenon
  <2> QED
    BY <2>1, Zenon DEF IsSkipping
<1>19. r[n + 3].op = "destroy" /\ r[n + 3].on = t
  <2>1. IsSkipping(r[n + 3], "destroy", t, Nil, n + 4 - (n + 3))
    BY <1>12, <1>15, <1>16, Zenon
  <2> QED
    BY <2>1, Zenon DEF IsSkipping
<1>20. \A k \in 2 .. n + 1 : r[k].op = "add" /\ r[k].on = t /\ r[k].arg \in entries
  <2> TAKE k \in 2 .. n + 1
  <2>1. PICK e \in entries : IsCommand(l[k], "add", t, e)
    BY <1>13, Zenon
  <2>2. IsSkipping(r[k], "add", t, e, n + 4 - k)
    BY <1>12, <1>15, <2>1, Zenon
  <2> QED
    BY <2>2, Zenon DEF IsSkipping
<1>21. \A e \in entries : \E k \in 2 .. n + 1 : r[k].arg = e
  <2> TAKE e \in entries
  <2>1. PICK k \in 2 .. n + 1 : IsCommand(l[k], "add", t, e)
    BY <1>14, Zenon
  <2>2. IsSkipping(r[k], "add", t, e, n + 4 - k)
    BY <1>12, <1>15, <2>1, Zenon
  <2> QED
    BY <2>2, Zenon DEF IsSkipping
<1>22. \A k \in 1 .. n + 3 : r[k].skip = n + 4 - k
  <2> TAKE k \in 1 .. n + 3
  <2>1. \E op, on, arg : IsCommand(l[k], op, on, arg)
    BY <1>13, <1>16, <1>25, Zenon
  <2>2. PICK op, on, arg : IsCommand(l[k], op, on, arg)
    BY <2>1, Zenon
  <2>3. IsSkipping(r[k], op, on, arg, n + 4 - k)
    BY <1>12, <2>2, Zenon
  <2> QED
    BY <2>3, Zenon DEF IsSkipping
<1>23. IsSeq(r) /\ Len(r) = n + 3
  <2>1. r = [k \in 1 .. n + 3 |-> r[k]]
    BY <1>9, <1>10, Zenon
  <2> QED
    BY <1>15, <2>1, FunctionSeq, Zenon
<1>24. Refreshes(r, s, entries, n)
  BY <1>1, <1>4, <1>17, <1>18, <1>19, <1>20, <1>21, <1>22, <1>23, Zenon DEF Refreshes
<1> QED
  BY <1>11, <1>24, Zenon

\* A Refresh is whole, and swaps nothing but its own set.
LEMMA RefreshPlan ==
  ASSUME NEW s, NEW is, s[1] = "set", IsFiniteSet(Content(is, s))
  PROVE  /\ Plan(Refresh(s, Content(is, s)), is)
         /\ \A k \in DOMAIN Refresh(s, Content(is, s)) :
               Refresh(s, Content(is, s))[k].op = "swap" => Refresh(s, Content(is, s))[k].on = s
<1>1. PICK l, E : l = Refresh(s, E) /\ E = Content(is, s)
  BY Zenon
<1>2. PICK n : Refreshes(l, s, E, n)
  <2>1. IsFiniteSet(E)
    BY <1>1, Zenon
  <2>2. \E n : Refreshes(Refresh(s, E), s, E, n)
    BY <2>1, RefreshList, Zenon
  <2>3. Refresh(s, E) = l
    BY <1>1, Zenon
  <2> QED
    BY <2>2, <2>3, Zenon
<1>3. IsSeq(l) /\ n \in Nat /\ Len(l) = n + 3 /\ DOMAIN l = 1 .. n + 3
  <2>1. IsSeq(l) /\ n \in Nat /\ Len(l) = n + 3
    BY <1>2, Zenon DEF Refreshes
  <2>2. DOMAIN l = 1 .. Len(l)
    BY <2>1, Positions, Zenon
  <2> QED
    BY <2>1, <2>2, Zenon
<1>4. PICK t : t = TempName(s)
  BY Zenon
<1>5. t[2] = s
  BY <1>4 DEF TempName
<1>6. \A k \in DOMAIN l : \/ k = 1 \/ k \in 2 .. n + 1 \/ k = n + 2 \/ k = n + 3
  BY <1>3
<1>7. ASSUME NEW k \in DOMAIN l
      PROVE  /\ l[k].op \in {"create", "add", "swap", "destroy"}
             /\ SetOf(l[k]) = s /\ SecondSet(l[k]) = t
             /\ l[k].op = "add" => l[k].arg \in E
             /\ l[k].op = "swap" => l[k].on = s /\ k = n + 2
             /\ l[k].op = "create" => k = 1
             /\ l[k].op = "destroy" => k = n + 3
             /\ l[k].op = "add" => k \in 2 .. n + 1
  <2>1. CASE k = 1
    <3>1. l[k].op = "create" /\ l[k].on = t
      BY <1>2, <1>4, <2>1, Zenon DEF Refreshes
    <3> QED
      BY <2>1, <3>1, <1>5, Zenon DEF SetOf, SecondSet
  <2>2. CASE k \in 2 .. n + 1
    <3>1. l[k].op = "add" /\ l[k].on = t /\ l[k].arg \in E
      BY <1>2, <1>4, <2>2, Zenon DEF Refreshes
    <3> QED
      BY <2>2, <3>1, <1>5, Zenon DEF SetOf, SecondSet
  <2>3. CASE k = n + 2
    <3>1. l[k].op = "swap" /\ l[k].on = s /\ l[k].arg = t
      BY <1>2, <1>4, <2>3, Zenon DEF Refreshes
    <3> QED
      BY <2>3, <3>1, Zenon DEF SetOf, SecondSet
  <2>4. CASE k = n + 3
    <3>1. l[k].op = "destroy" /\ l[k].on = t
      BY <1>2, <1>4, <2>4, Zenon DEF Refreshes
    <3> QED
      BY <2>4, <3>1, <1>5, Zenon DEF SetOf, SecondSet
  <2> QED
    BY <1>6, <2>1, <2>2, <2>3, <2>4, Zenon
<1>8. \A k \in DOMAIN l : l[k].skip = n + 4 - k /\ l[k].skip \in Nat /\ l[k].skip # 0
                          /\ k + l[k].skip = n + 4
  <2> TAKE k \in DOMAIN l
  <2>1. l[k].skip = n + 4 - k
    BY <1>2, <1>3, Zenon DEF Refreshes
  <2>2. PICK v : v = l[k].skip
    BY Zenon
  <2>3. v = n + 4 - k /\ v \in Nat /\ v # 0 /\ k + v = n + 4
    BY <1>3, <2>1, <2>2
  <2> QED
    BY <2>1, <2>2, <2>3, Zenon
<1>9. \A i, k \in DOMAIN l : Same(l, i, k)
  BY <1>8, Zenon DEF Same
<1>10. ASSUME NEW k \in DOMAIN l PROVE Step(l[k], is)
  <2>1. Inside(l[k], is)
    BY <1>1, <1>4, <1>7, Zenon DEF Inside
  <2> QED
    BY <1>8, <2>1, Zenon DEF Step
<1>11. ASSUME NEW k \in DOMAIN l, NEW i \in DOMAIN l, k < i PROVE Later(l[k].op, l[i].op)
  <2>1. l[i].op # "create"
    BY <1>3, <1>7, <1>11
  <2>2. l[k].op # "destroy"
    BY <1>3, <1>7, <1>11
  <2>3. l[k].op = "swap" => l[i].op = "destroy"
    <3>1. ASSUME l[k].op = "swap" PROVE i = n + 3
      BY <1>3, <1>7, <1>11, <3>1
    <3> QED
      BY <1>2, <3>1, Zenon DEF Refreshes
  <2> QED
    BY <1>7, <2>1, <2>2, <2>3, Zenon DEF Later
<1>12. ASSUME NEW k \in DOMAIN l PROVE Skips(l, k)
  <2>1. k + l[k].skip <= Len(l) + 1
    BY <1>3, <1>8
  <2>2. \A i \in DOMAIN l : k <= i /\ i # k => k < i
    BY <1>3
  <2> QED
    BY <1>7, <1>9, <1>11, <2>1, <2>2, Zenon DEF Skips
<1>13. ASSUME NEW k \in DOMAIN l PROVE Whole(l, k, is)
  <2>1. 1 \in DOMAIN l /\ l[1].op = "create"
    BY <1>2, <1>3 DEF Refreshes
  <2>2. ASSUME l[k].op \in {"add", "swap"} PROVE Creates(l, k)
    <3>1. 1 < k
      BY <1>3, <1>7, <2>2
    <3> QED
      BY <1>8, <1>9, <2>1, <3>1, Zenon DEF Creates
  <2>3. ASSUME l[k].op = "swap", NEW e \in E PROVE Adds(l, k, e)
    <3>1. PICK j \in 2 .. n + 1 : l[j].arg = e
      BY <1>2, Zenon DEF Refreshes
    <3>2. l[j].op = "add"
      BY <1>2, Zenon DEF Refreshes
    <3>3. k = n + 2
      BY <1>7, <2>3, Zenon
    <3>4. j \in DOMAIN l /\ j < k
      BY <1>3, <3>3
    <3> QED
      BY <1>9, <3>1, <3>2, <3>4, Zenon DEF Adds
  <2>4. ASSUME l[k].op = "swap" PROVE Content(is, l[k].on) = E
    BY <1>1, <1>7, <2>4, Zenon
  <2> QED
    BY <2>2, <2>3, <2>4, Zenon DEF Whole
<1>14. Plan(l, is)
  BY <1>3, <1>10, <1>12, <1>13, Zenon DEF Plan, Steps
<1>15. \A k \in DOMAIN l : l[k].op = "swap" => l[k].on = s
  BY <1>7, Zenon
<1> QED
  BY <1>1, <1>14, <1>15, Zenon

\* -------------------------------------------- syncNetworkPolicyChains

\* The image of a finite set.
LEMMA FiniteRange ==
  ASSUME NEW f, IsFiniteSet(DOMAIN f), f = [x \in DOMAIN f |-> f[x]]
  PROVE  IsFiniteSet(Range(f))
<1>1. PICK S, T : S = DOMAIN f /\ T = Range(f)
  BY Zenon
<1>2. f \in Surjection(S, T)
  BY <1>1 DEF Surjection, Range
<1> QED
  BY <1>1, <1>2, FS_Surjection, Zenon

\* The entries made of a finite set of addresses are finite.
LEMMA FiniteEntries ==
  ASSUME NEW S, IsFiniteSet(S)
  PROVE  IsFiniteSet(EntriesOf(S))
<1>1. PICK f : f = [x \in S |-> Entry(x)]
  BY Zenon
<1>2. DOMAIN f = S /\ f = [x \in DOMAIN f |-> f[x]] /\ Range(f) = EntriesOf(S)
  BY <1>1, Zenon DEF Range, EntriesOf
<1> QED
  BY <1>2, FiniteRange, Zenon

\* The members of a finite set in one order.
LEMMA ListedMembers ==
  ASSUME NEW S, IsFiniteSet(S)
  PROVE  IsSeq(Listed(S)) /\ Range(Listed(S)) = S
<1>1. PICK F : F = [x \in S |-> <<x>>]
  BY Zenon
<1>2. DOMAIN F = S /\ \A x \in S : F[x] = <<x>>
  BY <1>1, Zenon
<1>3. ASSUME NEW x \in S PROVE F[x] \in Seq(S) /\ Range(F[x]) = {x}
  <2>1. <<x>> \in Seq(S)
    OBVIOUS
  <2> QED
    BY <1>2, <2>1, Single, Zenon
<1>4. PICK B : B = Listed(S) /\ B = Concat(F)
  BY <1>1, Zenon DEF Listed
<1>5. B \in Seq(S)
  <2>1. PICK G : G = Seq(S)
    BY Zenon
  <2>2. <<>> \in G /\ \A x, y \in G : x \o y \in G
    BY <2>1, NoCommands, ConcatRange, Zenon
  <2>3. Concat(F) \in G
    BY <1>2, <1>3, <2>1, <2>2, ConcatIn, Zenon
  <2> QED
    BY <1>4, <2>1, <2>3, Zenon
<1>6. \A x \in S : Range(F[x]) \subseteq Range(B)
  BY <1>2, <1>3, <1>4, ConcatHas, Zenon
<1>7. IsSeq(B) /\ Range(B) \subseteq S
  BY <1>5, OwnMembers, RangeIn, Zenon
<1>8. S \subseteq Range(B)
  BY <1>3, <1>6, Zenon
<1> QED
  BY <1>4, <1>7, <1>8, Zenon

\* By the name of a set.
LEMMA ContentByName ==
  ASSUME NEW is, NEW p, NEW dir \in {"ingress", "egress"}, NEW i, NEW j
  PROVE  /\ Fills(is, SetName(p, <<dir, "pod">>, i, j), EntriesOf(RulesFor(is, p, dir)[i].pods))
         /\ Fills(is, SetName(p, <<dir, "ipblock">>, i, j), RulesFor(is, p, dir)[i].blocks)
         /\ Fills(is, SetName(p, <<dir, "named">>, i, j),
                  EntriesOf(Listed(RulesFor(is, p, dir)[i].named)[j].ips))
<1>1. PICK rule : rule = RulesFor(is, p, dir)[i]
  BY Zenon
<1>2. ASSUME NEW what, NEW s, s = SetName(p, <<dir, what>>, i, j)
      PROVE  Content(is, s) =
               IF what = "pod" THEN EntriesOf(rule.pods)
               ELSE IF what = "ipblock" THEN rule.blocks
               ELSE EntriesOf(Listed(rule.named)[j].ips)
  <2>1. PICK kind : kind = <<dir, what>>
    BY Zenon
  <2>2. kind # <<"target">> /\ kind # <<"source">> /\ kind[1] = dir /\ kind[2] = what
    BY <2>1
  <2>3. s = SetName(p, kind, i, j)
    BY <1>2, <2>1, Zenon
  <2>4. s[2] = p /\ s[3] = kind /\ s[4] = i /\ s[5] = j
    BY <2>3 DEF SetName
  <2> QED
    BY <1>1, <2>2, <2>4, Zenon DEF Content
<1>3. "pod" # "ipblock" /\ "pod" # "named" /\ "ipblock" # "named"
  OBVIOUS
<1>4. ASSUME NEW s, s = SetName(p, <<dir, "pod">>, i, j)
      PROVE  Fills(is, s, EntriesOf(rule.pods))
  BY <1>2, <1>4, Zenon DEF Fills
<1>5. ASSUME NEW s, s = SetName(p, <<dir, "ipblock">>, i, j)
      PROVE  Fills(is, s, rule.blocks)
  BY <1>2, <1>3, <1>5, Zenon DEF Fills
<1>6. ASSUME NEW s, s = SetName(p, <<dir, "named">>, i, j)
      PROVE  Fills(is, s, EntriesOf(Listed(rule.named)[j].ips))
  BY <1>2, <1>3, <1>6, Zenon DEF Fills
<1> QED
  BY <1>1, <1>4, <1>5, <1>6, Zenon

\* The sets of target and of source pods of a policy hold its targets' addresses.
LEMMA TargetsByName ==
  ASSUME NEW is, NEW p, NEW i, NEW j, NEW kind \in {<<"target">>, <<"source">>}
  PROVE  Fills(is, SetName(p, kind, i, j), EntriesOf(is[p].targets))
<1>1. PICK s : s = SetName(p, kind, i, j)
  BY Zenon
<1>2. s[2] = p /\ s[3] = kind
  BY <1>1 DEF SetName
<1>3. Content(is, s) = EntriesOf(is[p].targets)
  BY <1>2, Zenon DEF Content
<1> QED
  BY <1>1, <1>3, Zenon DEF Fills

\* What the proofs need of a rule and of the policies: finite sets.
RuleOK(rule) ==
    /\ IsFiniteSet(rule.pods) /\ IsFiniteSet(rule.blocks) /\ IsFiniteSet(rule.ports)
    /\ IsFiniteSet(rule.named) /\ \A ep \in rule.named : IsFiniteSet(ep.ips)

InfosOK(is) ==
    /\ IsFiniteSet(DOMAIN is)
    /\ \A p \in DOMAIN is :
          /\ IsFiniteSet(is[p].targets)
          /\ \A dir \in {"ingress", "egress"} :
                /\ IsSeq(RulesFor(is, p, dir))
                /\ \A i \in DOMAIN RulesFor(is, p, dir) : RuleOK(RulesFor(is, p, dir)[i])

\* r is about rule r.i of policy r.p.
About(r, is) ==
    /\ r.dir \in {"ingress", "egress"}
    /\ r.rule = RulesFor(is, r.p, r.dir)[r.i]
    /\ RuleOK(r.rule)

\* Create and Refresh of one set, issued together for every set, are whole.
LEMMA ReadyCreateAndRefresh ==
  ASSUME NEW s, NEW is, NEW E, s[1] = "set", Fills(is, s, E), IsFiniteSet(E)
  PROVE  Ready(CreateAndRefresh(s, E), is)
<1>1. PICK c, x, y : c = Cmd("create", s, Nil) /\ x = <<c>> /\ y = Refresh(s, E)
  BY Zenon
<1>2. c.op = "create" /\ c.skip = 0 /\ c.on = s
  BY <1>1 DEF Cmd
<1>3. Outside(c)
  BY <1>2, Zenon DEF Outside
<1>4. Ready(x, is)
  BY <1>1, <1>2, <1>3, ReadySingle, Zenon
<1>5. Range(x) = {c}
  BY <1>1, Single, Zenon
<1>6. Made(x, s)
  BY <1>2, <1>5, Zenon DEF Made
<1>7. Plan(y, is) /\ \A k \in DOMAIN y : y[k].op = "swap" => y[k].on = s
  <2>1. IsFiniteSet(Content(is, s))
    BY Zenon DEF Fills
  <2>2. /\ Plan(Refresh(s, Content(is, s)), is)
        /\ \A k \in DOMAIN Refresh(s, Content(is, s)) :
              Refresh(s, Content(is, s))[k].op = "swap" => Refresh(s, Content(is, s))[k].on = s
    BY <2>1, RefreshPlan, Zenon
  <2>3. y = Refresh(s, Content(is, s))
    BY <1>1, Zenon DEF Fills
  <2> QED
    BY <2>2, <2>3, Zenon
<1>8. \A k \in DOMAIN y : y[k].op = "swap" => Makes(y, k) \/ Made(x, y[k].on)
  BY <1>6, <1>7, Zenon
<1>9. Ready(x \o y, is)
  BY <1>4, <1>7, <1>8, ReadyAfter, Zenon
<1>10. CreateAndRefresh(s, E) = x \o y
  BY <1>1, Zenon DEF CreateAndRefresh
<1> QED
  BY <1>9, <1>10, Zenon

\* appendRuleToPolicyChain appends its rules and touches no set.
LEMMA ReadyAppend ==
  ASSUME NEW is, NEW chain, NEW src, NEW dst, NEW port
  PROVE  Ready(appendRuleToPolicyChain(chain, src, dst, port), is)
<1>1. PICK c : c = Cmd("append", chain, Rule(src, dst, port, "", ACCEPT))
  BY Zenon
<1>2. c.op = "append" /\ c.skip = 0
  BY <1>1 DEF Cmd
<1>3. Outside(c)
  BY <1>2, Zenon DEF Outside
<1>4. Ready(<<c>>, is)
  BY <1>2, <1>3, ReadySingle, Zenon
<1> QED
  BY <1>1, <1>4, Zenon DEF appendRuleToPolicyChain

\* The rule that accepts traffic touches no set.
LEMMA ReadyAccept ==
  ASSUME NEW is, NEW r, NEW peer, NEW port
  PROVE  Ready(Accept(r, peer, port), is)
BY ReadyAppend, Zenon DEF Accept

\* The commands for the numeric ports of a rule are whole.
LEMMA ReadyNumeric ==
  ASSUME NEW is, NEW r, NEW peer, About(r, is)
  PROVE  Ready(numericPortRules(r, peer), is)
<1>1. PICK F : F = [n \in r.rule.ports |-> Accept(r, peer, n)]
  BY Zenon
<1>2. DOMAIN F = r.rule.ports /\ \A n \in DOMAIN F : F[n] = Accept(r, peer, n)
  BY <1>1, Zenon
<1>3. IsFiniteSet(DOMAIN F)
  BY <1>2, Zenon DEF About, RuleOK
<1>4. \A n \in DOMAIN F : Ready(F[n], is)
  BY <1>2, ReadyAccept, Zenon
<1>5. Ready(Concat(F), is)
  BY <1>3, <1>4, ReadyConcat, Zenon
<1> QED
  BY <1>1, <1>5, Zenon DEF numericPortRules

\* The first member of the name of a set.
LEMMA SetNameKind ==
  ASSUME NEW p, NEW kind, NEW i, NEW j
  PROVE  SetName(p, kind, i, j)[1] = "set"
BY DEF SetName

\* The commands for the named ports of a rule, a set for each, are whole.
LEMMA ReadyNamed ==
  ASSUME NEW is, NEW r, NEW peer, About(r, is)
  PROVE  Ready(namedPortRules(r, peer), is)
<1>1. PICK L : L = Listed(r.rule.named)
  BY Zenon
<1>2. IsSeq(L) /\ Range(L) = r.rule.named
  BY <1>1, ListedMembers, Zenon DEF About, RuleOK
<1>3. PICK n : n = Len(L)
  BY Zenon
<1>4. n \in Nat /\ DOMAIN L = 1 .. n
  BY <1>2, <1>3, Positions, Zenon
<1> DEFINE Name(j) == SetName(r.p, <<r.dir, "named">>, r.i, j)
           Part1(j) == CreateAndRefresh(Name(j), EntriesOf(L[j].ips))
           Part2(j) == appendRuleToPolicyChain(
                         r.chain, IF r.dir = "ingress" THEN peer ELSE r.target, Name(j), L[j].port)
<1>5. PICK ss : ss = [j \in DOMAIN L |-> Part1(j) \o Part2(j)]
  BY Zenon
<1>6. ASSUME NEW j \in DOMAIN L PROVE Ready(Part1(j) \o Part2(j), is)
  <2>1. L[j] \in r.rule.named
    BY <1>2, Zenon DEF Range
  <2>2. PICK s, E : s = Name(j) /\ E = EntriesOf(L[j].ips)
    BY Zenon
  <2>3. IsFiniteSet(E)
    BY <2>1, <2>2, FiniteEntries, Zenon DEF About, RuleOK
  <2>4. Fills(is, s, E)
    <3>1. PICK dir \in {"ingress", "egress"} : dir = r.dir
      BY Zenon DEF About
    <3>2. Fills(is, SetName(r.p, <<dir, "named">>, r.i, j),
                EntriesOf(Listed(RulesFor(is, r.p, dir)[r.i].named)[j].ips))
      BY ContentByName, Zenon
    <3>3. L = Listed(RulesFor(is, r.p, dir)[r.i].named)
      BY <1>1, <3>1, Zenon DEF About
    <3> QED
      BY <2>2, <3>1, <3>2, <3>3, Zenon
  <2>5. s[1] = "set"
    BY <2>2, SetNameKind, Zenon
  <2>6. Ready(CreateAndRefresh(s, E), is)
    BY <2>3, <2>4, <2>5, ReadyCreateAndRefresh, Zenon
  <2>7. Ready(Part1(j), is)
    BY <2>2, <2>6, Zenon
  <2>8. Ready(Part2(j), is)
    BY ReadyAppend, Zenon
  <2> HIDE DEF Part1, Part2
  <2> QED
    BY <2>7, <2>8, ReadyCat, Zenon
<1> HIDE DEF Part1, Part2
<1>7. IsSeq(ss)
  <2>1. ss = [j \in 1 .. n |-> ss[j]]
    BY <1>4, <1>5, Zenon
  <2> QED
    BY <1>4, <2>1, FunctionSeq, Zenon
<1>8. \A j \in DOMAIN ss : Ready(ss[j], is)
  BY <1>5, <1>6, Zenon
<1>9. Ready(InTurn(ss), is)
  BY <1>7, <1>8, ReadyFlatten, Zenon
<1>10. namedPortRules(r, peer) = InTurn(ss)
  BY <1>1, <1>5, Zenon DEF namedPortRules, Part1, Part2, EntriesOf
<1> QED
  BY <1>9, <1>10, Zenon

\* The commands for a rule that lists ports are whole.
LEMMA ReadySomePorts ==
  ASSUME NEW is, NEW r, NEW peer, About(r, is)
  PROVE  Ready(somePortsRules(r, peer), is)
<1>1. PICK x, y : /\ x = numericPortRules(r, peer)
                  /\ y = IF r.dir = "ingress" THEN namedPortRules(r, peer) ELSE <<>>
  BY Zenon
<1>2. Ready(x, is)
  BY <1>1, ReadyNumeric, Zenon
<1>3. Ready(y, is)
  BY <1>1, ReadyNamed, ReadyEmpty, Zenon
<1>4. Ready(x \o y, is)
  BY <1>2, <1>3, ReadyCat, Zenon
<1> QED
  BY <1>1, <1>4, Zenon DEF somePortsRules

\* The commands for the pods a rule selects are whole.
LEMMA ReadyPodPeer ==
  ASSUME NEW is, NEW r, About(r, is)
  PROVE  Ready(podPeerRules(r), is)
<1>1. CASE r.rule.pods = {}
  BY <1>1, ReadyEmpty, Zenon DEF podPeerRules
<1>2. CASE r.rule.pods # {}
  <2>1. PICK dir \in {"ingress", "egress"} : dir = r.dir
    BY Zenon DEF About
  <2>2. PICK s, E : s = SetName(r.p, <<r.dir, "pod">>, r.i, 0) /\ E = EntriesOf(r.rule.pods)
    BY Zenon
  <2>3. s[1] = "set"
    BY <2>2, SetNameKind, Zenon
  <2>4. Fills(is, s, E)
    <3>1. Fills(is, SetName(r.p, <<dir, "pod">>, r.i, 0),
                EntriesOf(RulesFor(is, r.p, dir)[r.i].pods))
      BY ContentByName, Zenon
    <3>2. r.rule = RulesFor(is, r.p, dir)[r.i]
      BY <2>1, Zenon DEF About
    <3> QED
      BY <2>1, <2>2, <3>1, <3>2, Zenon
  <2>5. IsFiniteSet(E)
    BY <2>2, FiniteEntries, Zenon DEF About, RuleOK
  <2>6. PICK w, x, y, z : /\ w = CreateAndRefresh(s, E)
                          /\ x = numericPortRules(r, s) /\ y = namedPortRules(r, s)
                          /\ z = IF r.rule.ports = {} /\ r.rule.named = {}
                                 THEN Accept(r, s, Anything) ELSE <<>>
    BY Zenon
  <2>7. Ready(w, is)
    BY <2>3, <2>4, <2>5, <2>6, ReadyCreateAndRefresh, Zenon
  <2>8. Ready(x, is) /\ Ready(y, is)
    BY <2>6, ReadyNumeric, ReadyNamed, Zenon
  <2>9. Ready(z, is)
    BY <2>6, ReadyAccept, ReadyEmpty, Zenon
  <2>10. Ready(((w \o x) \o y) \o z, is)
    BY <2>7, <2>8, <2>9, ReadyCat, Zenon
  <2>11. podPeerRules(r) = ((w \o x) \o y) \o z
    BY <1>2, <2>2, <2>6, Zenon DEF podPeerRules, EntriesOf
  <2> QED
    BY <2>10, <2>11, Zenon
<1> QED
  BY <1>1, <1>2, Zenon

\* The commands for a rule that selects everyone are whole.
LEMMA ReadyEveryone ==
  ASSUME NEW is, NEW r, About(r, is)
  PROVE  Ready(everyoneRules(r), is)
BY ReadyEmpty, ReadyAccept, ReadySomePorts, Zenon DEF everyoneRules

\* The commands for the address blocks of a rule are whole.
LEMMA ReadyIPBlock ==
  ASSUME NEW is, NEW r, About(r, is)
  PROVE  Ready(ipBlockRules(r), is)
<1>1. CASE r.rule.blocks = {}
  BY <1>1, ReadyEmpty, Zenon DEF ipBlockRules
<1>2. CASE r.rule.blocks # {}
  <2>1. PICK dir \in {"ingress", "egress"} : dir = r.dir
    BY Zenon DEF About
  <2>2. PICK s, E : s = SetName(r.p, <<r.dir, "ipblock">>, r.i, 0) /\ E = r.rule.blocks
    BY Zenon
  <2>3. s[1] = "set"
    BY <2>2, SetNameKind, Zenon
  <2>4. Fills(is, s, E)
    <3>1. Fills(is, SetName(r.p, <<dir, "ipblock">>, r.i, 0),
                RulesFor(is, r.p, dir)[r.i].blocks)
      BY ContentByName, Zenon
    <3>2. r.rule = RulesFor(is, r.p, dir)[r.i]
      BY <2>1, Zenon DEF About
    <3> QED
      BY <2>1, <2>2, <3>1, <3>2, Zenon
  <2>5. IsFiniteSet(E)
    BY <2>2, Zenon DEF About, RuleOK
  <2>6. PICK w, x : /\ w = CreateAndRefresh(s, E)
                    /\ x = IF r.rule.allPorts THEN Accept(r, s, Anything)
                           ELSE somePortsRules(r, s)
    BY Zenon
  <2>7. Ready(w, is)
    BY <2>3, <2>4, <2>5, <2>6, ReadyCreateAndRefresh, Zenon
  <2>8. Ready(x, is)
    BY <2>6, ReadyAccept, ReadySomePorts, Zenon
  <2>9. Ready(w \o x, is)
    BY <2>7, <2>8, ReadyCat, Zenon
  <2>10. ipBlockRules(r) = w \o x
    BY <1>2, <2>2, <2>6, Zenon DEF ipBlockRules
  <2> QED
    BY <2>9, <2>10, Zenon
<1> QED
  BY <1>1, <1>2, Zenon

\* processIngressRules and processEgressRules issue a whole list of commands.
LEMMA ReadyRules ==
  ASSUME NEW is, InfosOK(is), NEW p \in DOMAIN is, NEW dir \in {"ingress", "egress"},
         NEW target, NEW chain
  PROVE  Ready(processRules(p, dir, RulesFor(is, p, dir), target, chain), is)
<1>1. PICK rules : rules = RulesFor(is, p, dir)
  BY Zenon
<1>2. IsSeq(rules) /\ \A i \in DOMAIN rules : RuleOK(rules[i])
  BY <1>1, Zenon DEF InfosOK
<1>3. PICK n : n = Len(rules)
  BY Zenon
<1>4. n \in Nat /\ DOMAIN rules = 1 .. n
  BY <1>2, <1>3, Positions, Zenon
<1> DEFINE R(i) == [p |-> p, dir |-> dir, i |-> i, rule |-> rules[i],
                    target |-> target, chain |-> chain]
<1>5. PICK ss : ss = [i \in DOMAIN rules |->
                        podPeerRules(R(i)) \o everyoneRules(R(i)) \o ipBlockRules(R(i))]
  BY Zenon
<1>6. processRules(p, dir, rules, target, chain) = InTurn(ss)
  BY <1>5, Zenon DEF processRules
<1>7. ASSUME NEW i \in DOMAIN rules PROVE Ready(ss[i], is)
  <2>1. PICK r : r = R(i)
    BY Zenon
  <2>2. r.p = p /\ r.dir = dir /\ r.i = i /\ r.rule = rules[i]
    BY <2>1
  <2>3. About(r, is)
    BY <1>1, <1>2, <2>2, Zenon DEF About
  <2>4. ss[i] = podPeerRules(r) \o everyoneRules(r) \o ipBlockRules(r)
    BY <1>5, <2>1, Zenon
  <2>5. PICK x, y, z : x = podPeerRules(r) /\ y = everyoneRules(r) /\ z = ipBlockRules(r)
    BY Zenon
  <2>6. Ready(x, is) /\ Ready(y, is) /\ Ready(z, is)
    BY <2>3, <2>5, ReadyPodPeer, ReadyEveryone, ReadyIPBlock, Zenon
  <2>7. Ready((x \o y) \o z, is)
    BY <2>6, ReadyCat, Zenon
  <2> QED
    BY <2>4, <2>5, <2>7, Zenon
<1> HIDE DEF R
<1>8. IsSeq(ss)
  <2>1. ss = [i \in 1 .. n |-> ss[i]]
    BY <1>4, <1>5, Zenon
  <2> QED
    BY <1>4, <2>1, FunctionSeq, Zenon
<1>9. \A i \in DOMAIN ss : Ready(ss[i], is)
  BY <1>5, <1>7, Zenon
<1>10. Ready(InTurn(ss), is)
  BY <1>8, <1>9, ReadyFlatten, Zenon
<1> QED
  BY <1>1, <1>6, <1>10, Zenon

\* A list without a Refresh.
LEMMA ReadyOutside ==
  ASSUME NEW l, NEW is, IsSeq(l), \A k \in DOMAIN l : l[k].skip = 0 /\ Outside(l[k])
  PROVE  Ready(l, is)
<1>1. \A k \in DOMAIN l : l[k].op \notin {"add", "swap"}
  BY Zenon DEF Outside
<1>2. 0 \in Nat
  OBVIOUS
<1>3. \A k \in DOMAIN l : Step(l[k], is)
  BY <1>2, Zenon DEF Step
<1>4. \A k \in DOMAIN l : Skips(l, k) /\ Whole(l, k, is) /\ l[k].op # "swap"
  BY <1>1, Zenon DEF Skips, Whole
<1> QED
  BY <1>3, <1>4, Zenon DEF Ready, Plan, Steps

\* c makes the chain with -N.
NewChain(c, chain) == c.op = "newchain" /\ c.on = chain

\* What is issued for one policy is whole and makes the policy's chain.
LEMMA ReadyPolicy ==
  ASSUME NEW is, InfosOK(is), NEW p \in DOMAIN is, NEW v
  PROVE  /\ Ready(policyCommands(p, is[p], v), is)
         /\ \E c \in Range(policyCommands(p, is[p], v)) : NewChain(c, policyChainName(p, v))
<1>1. PICK chain, dst, src, E : /\ chain = policyChainName(p, v)
                                /\ dst = SetName(p, <<"target">>, 0, 0)
                                /\ src = SetName(p, <<"source">>, 0, 0)
                                /\ E = EntriesOf(is[p].targets)
  BY Zenon
<1>2. PICK a, b, c : a = Cmd("newchain", chain, Nil) /\ b = Cmd("create", dst, Nil)
                     /\ c = Cmd("create", src, Nil)
  BY Zenon
<1>3. PICK h : h = <<a, b, c>>
  BY Zenon
<1>4. /\ a.op = "newchain" /\ a.on = chain /\ a.skip = 0
      /\ b.op = "create" /\ b.on = dst /\ b.skip = 0
      /\ c.op = "create" /\ c.on = src /\ c.skip = 0
  BY <1>2 DEF Cmd
<1>5. /\ chain[1] = "KUBE-NWPLCY-" /\ dst[1] = "set" /\ src[1] = "set"
  BY <1>1 DEF policyChainName, SetName
<1>6. Outside(a) /\ Outside(b) /\ Outside(c)
  BY <1>4, <1>5, Zenon DEF Outside
<1>7. h \in Seq({a, b, c}) /\ DOMAIN h = {1, 2, 3} /\ h[1] = a /\ h[2] = b /\ h[3] = c
  BY <1>3
<1>8. IsSeq(h)
  BY <1>7, OwnMembers, Zenon
<1>9. a \in Range(h) /\ b \in Range(h) /\ c \in Range(h)
  BY <1>7, Zenon DEF Range
<1>10. Ready(h, is)
  <2>1. \A k \in DOMAIN h : h[k].skip = 0 /\ Outside(h[k])
    BY <1>4, <1>6, <1>7, Zenon
  <2> QED
    BY <1>8, <2>1, ReadyOutside, Zenon
<1>11. Fills(is, dst, E) /\ Fills(is, src, E) /\ IsFiniteSet(E)
  <2>1. Fills(is, dst, E) /\ Fills(is, src, E)
    BY <1>1, TargetsByName, Zenon
  <2>2. IsFiniteSet(E)
    BY <1>1, FiniteEntries, Zenon DEF InfosOK
  <2> QED
    BY <2>1, <2>2, Zenon
<1>12. ASSUME NEW s \in {src, dst}, NEW y, y = Refresh(s, E)
       PROVE  Plan(y, is) /\ \A k \in DOMAIN y : y[k].op = "swap" => y[k].on = s
  <2>1. IsFiniteSet(Content(is, s)) /\ s[1] = "set"
    BY <1>5, <1>11, Zenon DEF Fills
  <2>2. /\ Plan(Refresh(s, Content(is, s)), is)
        /\ \A k \in DOMAIN Refresh(s, Content(is, s)) :
              Refresh(s, Content(is, s))[k].op = "swap" => Refresh(s, Content(is, s))[k].on = s
    BY <2>1, RefreshPlan, Zenon
  <2>3. y = Refresh(s, Content(is, s))
    BY <1>11, <1>12, Zenon DEF Fills
  <2> QED
    BY <2>2, <2>3, Zenon
<1>13. PICK x, y : x = Refresh(src, E) /\ y = Refresh(dst, E)
  BY Zenon
<1>14. Ready(h \o x, is)
  <2>1. Made(h, src)
    BY <1>4, <1>9, Zenon DEF Made
  <2>2. Plan(x, is) /\ \A k \in DOMAIN x : x[k].op = "swap" => x[k].on = src
    BY <1>12, <1>13, Zenon
  <2>3. \A k \in DOMAIN x : x[k].op = "swap" => Makes(x, k) \/ Made(h, x[k].on)
    BY <2>1, <2>2, Zenon
  <2> QED
    BY <1>10, <2>2, <2>3, ReadyAfter, Zenon
<1>15. PICK g : g = h \o x
  BY Zenon
<1>16. a \in Range(g) /\ b \in Range(g) /\ IsSeq(g)
  <2>1. IsSeq(x) /\ IsSeq(g)
    BY <1>12, <1>13, <1>14, <1>15, Zenon DEF Ready, Plan, Steps
  <2>2. Range(h \o x) = Range(h) \cup Range(x)
    BY <1>8, <2>1, Cat, Zenon
  <2> QED
    BY <1>9, <1>15, <2>1, <2>2, Zenon
<1>17. Ready(g \o y, is)
  <2>1. Made(g, dst)
    BY <1>4, <1>16, Zenon DEF Made
  <2>2. Plan(y, is) /\ \A k \in DOMAIN y : y[k].op = "swap" => y[k].on = dst
    BY <1>12, <1>13, Zenon
  <2>3. \A k \in DOMAIN y : y[k].op = "swap" => Makes(y, k) \/ Made(g, y[k].on)
    BY <2>1, <2>2, Zenon
  <2> QED
    BY <1>14, <1>15, <2>2, <2>3, ReadyAfter, Zenon
<1>18. PICK i, e : i = processIngressRules(p, is[p], dst, chain)
                   /\ e = processEgressRules(p, is[p], src, chain)
  BY Zenon
<1>19. Ready(i, is) /\ Ready(e, is)
  <2>1. "ingress" \in {"ingress", "egress"} /\ "egress" \in {"ingress", "egress"}
        /\ "ingress" # "egress"
    OBVIOUS
  <2>2. RulesFor(is, p, "ingress") = is[p].ingress /\ RulesFor(is, p, "egress") = is[p].egress
    BY <2>1, Zenon DEF RulesFor
  <2>3. Ready(processRules(p, "ingress", RulesFor(is, p, "ingress"), dst, chain), is)
        /\ Ready(processRules(p, "egress", RulesFor(is, p, "egress"), src, chain), is)
    BY <2>1, ReadyRules, Zenon
  <2> QED
    BY <1>18, <2>2, <2>3, Zenon DEF processIngressRules, processEgressRules
<1>20. PICK m : m = g \o y
  BY Zenon
<1>21. PICK l : l = (m \o i) \o e
  BY Zenon
<1>22. Ready(m \o i, is) /\ Ready(l, is)
  BY <1>17, <1>19, <1>20, <1>21, ReadyCat, Zenon
<1>23. a \in Range(l)
  <2>1. IsSeq(y) /\ IsSeq(i) /\ IsSeq(e) /\ IsSeq(m) /\ IsSeq(m \o i)
    BY <1>12, <1>13, <1>17, <1>19, <1>20, <1>22, Zenon DEF Ready, Plan, Steps
  <2>2. a \in Range(m)
    BY <1>16, <1>20, <2>1, Cat, Zenon
  <2>3. a \in Range(m \o i)
    BY <2>1, <2>2, Cat, Zenon
  <2> QED
    BY <1>21, <2>1, <2>3, Cat, Zenon
<1>24. policyCommands(p, is[p], v) = l
  BY <1>1, <1>2, <1>3, <1>13, <1>15, <1>18, <1>20, <1>21, Zenon DEF policyCommands, EntriesOf
<1>25. NewChain(a, policyChainName(p, v))
  BY <1>1, <1>4, Zenon DEF NewChain
<1> QED
  BY <1>22, <1>23, <1>24, <1>25, Zenon

\* What is in a list that Concat or InTurn makes.
LEMMA ConcatMembers ==
  ASSUME NEW F, IsFiniteSet(DOMAIN F), \A x \in DOMAIN F : IsSeq(F[x])
  PROVE  /\ IsSeq(Concat(F))
         /\ \A c : c \in Range(Concat(F)) <=> \E x \in DOMAIN F : c \in Range(F[x])
<1>1. PICK C : C = UNION {Range(F[x]) : x \in DOMAIN F}
  BY Zenon
<1>2. \A x \in DOMAIN F : F[x] \in Seq(C)
  <2> TAKE x \in DOMAIN F
  <2>1. Range(F[x]) \subseteq C
    BY <1>1, Zenon
  <2> QED
    BY <2>1, Wider, Zenon
<1>3. Concat(F) \in Seq(C)
  <2>1. PICK G : G = Seq(C)
    BY Zenon
  <2>2. <<>> \in G /\ \A x, y \in G : x \o y \in G
    BY <2>1, NoCommands, ConcatRange, Zenon
  <2>3. Concat(F) \in G
    BY <1>2, <2>1, <2>2, ConcatIn, Zenon
  <2> QED
    BY <2>1, <2>3, Zenon
<1>4. \A x \in DOMAIN F : Range(F[x]) \subseteq Range(Concat(F))
  BY <1>2, ConcatHas, Zenon
<1>5. IsSeq(Concat(F)) /\ Range(Concat(F)) \subseteq C
  BY <1>3, OwnMembers, RangeIn, Zenon
<1> QED
  BY <1>1, <1>4, <1>5, Zenon

\* The members of a flattened list are those of its parts.
LEMMA FlattenMembers ==
  ASSUME NEW ss, IsSeq(ss), \A i \in DOMAIN ss : IsSeq(ss[i])
  PROVE  /\ IsSeq(InTurn(ss))
         /\ \A c \in Range(InTurn(ss)) : \E i \in DOMAIN ss : c \in Range(ss[i])
<1>1. PICK C : C = UNION {Range(ss[i]) : i \in DOMAIN ss}
  BY Zenon
<1>2. \A i \in DOMAIN ss : ss[i] \in Seq(C)
  <2> TAKE i \in DOMAIN ss
  <2>1. Range(ss[i]) \subseteq C
    BY <1>1, Zenon
  <2> QED
    BY <2>1, Wider, Zenon
<1>3. InTurn(ss) \in Seq(C)
  <2>1. PICK G : G = Seq(C)
    BY Zenon
  <2>2. <<>> \in G /\ \A x, y \in G : x \o y \in G
    BY <2>1, NoCommands, ConcatRange, Zenon
  <2>3. Range(ss) \subseteq G
    BY <1>2, <2>1, Zenon DEF Range
  <2>4. InTurn(ss) \in G
    BY <2>2, <2>3, Wider, FlattenIn, Zenon
  <2> QED
    BY <2>1, <2>4, Zenon
<1>4. IsSeq(InTurn(ss)) /\ Range(InTurn(ss)) \subseteq C
  BY <1>3, OwnMembers, RangeIn, Zenon
<1> QED
  BY <1>1, <1>4, Zenon

\* syncNetworkPolicyChains issues a whole list that makes every policy's chain.
LEMMA ReadySync ==
  ASSUME NEW is, InfosOK(is), NEW v
  PROVE  /\ Ready(syncNetworkPolicyChains(is, v), is)
         /\ \A p \in DOMAIN is : \E c \in Range(syncNetworkPolicyChains(is, v)) :
               NewChain(c, policyChainName(p, v))
<1>1. PICK F : F = [p \in DOMAIN is |-> policyCommands(p, is[p], v)]
  BY Zenon
<1>2. DOMAIN F = DOMAIN is /\ \A p \in DOMAIN is : F[p] = policyCommands(p, is[p], v)
  BY <1>1, Zenon
<1>3. syncNetworkPolicyChains(is, v) = Concat(F)
  BY <1>1, Zenon DEF syncNetworkPolicyChains
<1>4. IsFiniteSet(DOMAIN F)
  BY <1>2, Zenon DEF InfosOK
<1>5. ASSUME NEW p \in DOMAIN is
      PROVE  Ready(F[p], is) /\ \E c \in Range(F[p]) : NewChain(c, policyChainName(p, v))
  BY <1>2, ReadyPolicy, Zenon
<1>6. Ready(Concat(F), is)
  BY <1>2, <1>4, <1>5, ReadyConcat, Zenon
<1>7. \A p \in DOMAIN F : IsSeq(F[p])
  BY <1>2, <1>5, Zenon DEF Ready, Plan, Steps
<1>8. \A p \in DOMAIN F : \A c \in Range(F[p]) : c \in Range(Concat(F))
  BY <1>4, <1>7, ConcatMembers, Zenon
<1> QED
  BY <1>2, <1>3, <1>5, <1>6, <1>8, Zenon

\* ---------------------------------------------- syncPodFirewallChains

\* The commands of syncPodFirewallChains: they edit chains, and make pod chains.
FwCommand(c) ==
    /\ c.skip = 0
    /\ \/ c.op \in {"insert", "append"}
       \/ c.op = "newchain" /\ c.on[1] = "KUBE-POD-FW-"

FwList(l) == IsSeq(l) /\ \A c \in Range(l) : FwCommand(c)

\* The commands of two parts of syncPodFirewallChains, one after the other.
LEMMA FwCat ==
  ASSUME NEW x, NEW y, FwList(x), FwList(y)
  PROVE  FwList(x \o y) /\ Range(x \o y) = Range(x) \cup Range(y)
<1>1. IsSeq(x) /\ IsSeq(y)
  BY Zenon DEF FwList
<1>2. IsSeq(x \o y) /\ Range(x \o y) = Range(x) \cup Range(y)
  BY <1>1, Cat, Zenon DEF Part
<1> QED
  BY <1>2, Zenon DEF FwList

\* The rules that syncPodFirewallChains inserts or appends.
LEMMA FwInsert ==
  ASSUME NEW op \in {"insert", "append"}, NEW on, NEW arg
  PROVE  FwCommand(Cmd(op, on, arg))
<1>1. PICK c : c = Cmd(op, on, arg)
  BY Zenon
<1>2. c.op = op /\ c.skip = 0
  BY <1>1 DEF Cmd
<1> QED
  BY <1>1, <1>2, Zenon DEF FwCommand

\* The jumps from a pod's chain to the chains of the policies that select it.
LEMMA FwRun ==
  ASSUME NEW is, IsFiniteSet(DOMAIN is), NEW chain, NEW ip, NEW v
  PROVE  FwList(runThroughPolicies(chain, ip, is, v))
<1>1. PICK S : S = {x \in DOMAIN is : ip \in is[x].targets}
  BY Zenon
<1>2. IsFiniteSet(S)
  BY <1>1, FS_Subset, Zenon
<1> DEFINE C(p) == Cmd("insert", chain,
                       Rule(Anything, Anything, Anything, "", policyChainName(p, v)))
<1>3. PICK F : F = [p \in S |-> <<C(p)>>]
  BY Zenon
<1>4. DOMAIN F = S /\ \A p \in S : F[p] = <<C(p)>>
  BY <1>3, Zenon
<1>5. runThroughPolicies(chain, ip, is, v) = Concat(F)
  BY <1>1, <1>3, Zenon DEF runThroughPolicies
<1>6. \A p : FwCommand(C(p))
  BY FwInsert, Zenon
<1> HIDE DEF C
<1>7. \A p \in DOMAIN F : IsSeq(F[p]) /\ \A c \in Range(F[p]) : FwCommand(c)
  <2> TAKE p \in DOMAIN F
  <2>1. IsSeq(<<C(p)>>) /\ Range(<<C(p)>>) = {C(p)}
    BY Single, Zenon
  <2>2. F[p] = <<C(p)>>
    BY <1>4, Zenon
  <2>3. IsSeq(F[p]) /\ Range(F[p]) = {C(p)} /\ FwCommand(C(p))
    BY <1>6, <2>1, <2>2, Zenon
  <2> QED
    BY <2>3, Zenon
<1>8. FwList(Concat(F))
  BY <1>2, <1>4, <1>7, ConcatMembers, Zenon DEF FwList
<1> QED
  BY <1>5, <1>8, Zenon

\* The pod's chain is made.
LEMMA FwNewChain ==
  ASSUME NEW q, NEW v
  PROVE  /\ FwList(<<Cmd("newchain", podFwChainName(q, v), Nil)>>)
         /\ \E c \in Range(<<Cmd("newchain", podFwChainName(q, v), Nil)>>) :
               NewChain(c, podFwChainName(q, v))
<1>1. PICK chain : chain = podFwChainName(q, v)
  BY Zenon
<1>2. chain[1] = "KUBE-POD-FW-"
  BY <1>1 DEF podFwChainName
<1>3. PICK c : c = Cmd("newchain", chain, Nil)
  BY Zenon
<1>4. c.op = "newchain" /\ c.on = chain /\ c.skip = 0
  BY <1>3 DEF Cmd
<1>5. IsSeq(<<c>>) /\ Range(<<c>>) = {c}
  BY Single, Zenon
<1>6. FwCommand(c) /\ NewChain(c, chain)
  BY <1>2, <1>4, Zenon DEF FwCommand, NewChain
<1>7. FwList(<<c>>) /\ \E d \in Range(<<c>>) : NewChain(d, chain)
  BY <1>5, <1>6, Zenon DEF FwList
<1> QED
  BY <1>1, <1>3, <1>7, Zenon

\* The rules that reject what no policy has accepted.
LEMMA FwReject ==
  ASSUME NEW chain
  PROVE  FwList(rejectRest(chain))
<1>1. PICK c, d :
        /\ c = Cmd("append", chain, Rule(Anything, Anything, Anything, "", REJECT))
        /\ d = Cmd("insert", chain, Rule(Anything, Anything, Anything, "established", ACCEPT))
  BY Zenon
<1>2. FwCommand(Cmd("append", chain, Rule(Anything, Anything, Anything, "", REJECT)))
  BY FwInsert, Zenon
<1>3. FwCommand(Cmd("insert", chain, Rule(Anything, Anything, Anything, "established", ACCEPT)))
  BY FwInsert, Zenon
<1>4. rejectRest(chain) = <<c, d>>
  BY <1>1, Zenon DEF rejectRest
<1>5. IsSeq(<<c, d>>) /\ Range(<<c, d>>) = {c, d}
  BY Pair, Zenon
<1>6. FwList(<<c, d>>)
  BY <1>1, <1>2, <1>3, <1>5, Zenon DEF FwList
<1> QED
  BY <1>4, <1>6, Zenon

\* Two inserts.
LEMMA FwPair ==
  ASSUME NEW o1, NEW a1, NEW o2, NEW a2
  PROVE  FwList(<<Cmd("insert", o1, a1), Cmd("insert", o2, a2)>>)
<1>1. PICK c, d : c = Cmd("insert", o1, a1) /\ d = Cmd("insert", o2, a2)
  BY Zenon
<1>2. FwCommand(Cmd("insert", o1, a1)) /\ FwCommand(Cmd("insert", o2, a2))
  BY FwInsert, Zenon
<1>3. IsSeq(<<c, d>>) /\ Range(<<c, d>>) = {c, d}
  BY Pair, Zenon
<1>4. FwList(<<c, d>>)
  BY <1>1, <1>2, <1>3, Zenon DEF FwList
<1> QED
  BY <1>1, <1>4, Zenon

\* Four inserts.
LEMMA FwFour ==
  ASSUME NEW o1, NEW a1, NEW o2, NEW a2, NEW o3, NEW a3, NEW o4, NEW a4
  PROVE  FwList(<<Cmd("insert", o1, a1), Cmd("insert", o2, a2), Cmd("insert", o3, a3),
                  Cmd("insert", o4, a4)>>)
<1>1. PICK c, d, e, f : /\ c = Cmd("insert", o1, a1) /\ d = Cmd("insert", o2, a2)
                        /\ e = Cmd("insert", o3, a3) /\ f = Cmd("insert", o4, a4)
  BY Zenon
<1>2. FwList(<<Cmd("insert", o1, a1), Cmd("insert", o2, a2)>>)
  BY FwPair, Zenon
<1>3. FwList(<<Cmd("insert", o3, a3), Cmd("insert", o4, a4)>>)
  BY FwPair, Zenon
<1>4. FwList(<<c, d>> \o <<e, f>>)
  BY <1>1, <1>2, <1>3, FwCat, Zenon
<1>5. <<c, d, e, f>> = <<c, d>> \o <<e, f>>
  OBVIOUS
<1> QED
  BY <1>1, <1>4, <1>5, Zenon

\* The firewall for what a pod receives: edits of chains, the pod's chain first.
LEMMA FwIngress ==
  ASSUME NEW is, IsFiniteSet(DOMAIN is), NEW q, NEW ip, NEW v
  PROVE  /\ FwList(ingressFirewall(q, ip, is, v))
         /\ \E c \in Range(ingressFirewall(q, ip, is, v)) : NewChain(c, podFwChainName(q, v))
<1>1. PICK chain, jump, bridged : /\ chain = podFwChainName(q, v)
                                  /\ jump = Rule(Anything, ip, Anything, "", chain)
                                  /\ bridged = [jump EXCEPT !.only = "bridged"]
  BY Zenon
<1>2. PICK w, x, y, z :
        /\ w = <<Cmd("newchain", chain, Nil)>>
        /\ x = runThroughPolicies(chain, ip, is, v)
        /\ y = <<Cmd("insert", chain, Rule(Anything, ip, Anything, "local", ACCEPT)),
                 Cmd("insert", FORWARD, jump), Cmd("insert", OUTPUT, jump),
                 Cmd("insert", FORWARD, bridged)>>
        /\ z = rejectRest(chain)
  BY Zenon
<1>3. ingressFirewall(q, ip, is, v) = w \o x \o y \o z
  BY <1>1, <1>2, Zenon DEF ingressFirewall
<1>4. FwList(<<Cmd("newchain", chain, Nil)>>)
      /\ \E c \in Range(<<Cmd("newchain", chain, Nil)>>) : NewChain(c, chain)
  BY <1>1, FwNewChain, Zenon
<1>5. FwList(w) /\ \E c \in Range(w) : NewChain(c, chain)
  BY <1>2, <1>4, Zenon
<1>6. FwList(runThroughPolicies(chain, ip, is, v)) /\ FwList(rejectRest(chain))
  BY FwRun, FwReject, Zenon
<1>7. FwList(<<Cmd("insert", chain, Rule(Anything, ip, Anything, "local", ACCEPT)),
               Cmd("insert", FORWARD, jump), Cmd("insert", OUTPUT, jump),
               Cmd("insert", FORWARD, bridged)>>)
  BY FwFour, Zenon
<1>8. FwList(x) /\ FwList(y) /\ FwList(z)
  BY <1>2, <1>6, <1>7, Zenon
<1>9. FwList(w \o x \o y \o z) /\ Range(w) \subseteq Range(w \o x \o y \o z)
  <2>1. FwList(w \o x) /\ Range(w \o x) = Range(w) \cup Range(x)
    BY <1>5, <1>8, FwCat, Zenon
  <2>2. FwList(w \o x \o y) /\ Range(w \o x \o y) = Range(w \o x) \cup Range(y)
    BY <1>8, <2>1, FwCat, Zenon
  <2>3. FwList(w \o x \o y \o z) /\ Range(w \o x \o y \o z) = Range(w \o x \o y) \cup Range(z)
    BY <1>8, <2>2, FwCat, Zenon
  <2> QED
    BY <2>1, <2>2, <2>3, Zenon
<1> QED
  BY <1>1, <1>3, <1>5, <1>9, Zenon

\* The firewall for what a pod sends: edits of chains, the pod's chain first.
LEMMA FwEgress ==
  ASSUME NEW is, IsFiniteSet(DOMAIN is), NEW q, NEW ip, NEW v
  PROVE  /\ FwList(egressFirewall(q, ip, is, v))
         /\ \E c \in Range(egressFirewall(q, ip, is, v)) : NewChain(c, podFwChainName(q, v))
<1>1. PICK chain, jump, bridged : /\ chain = podFwChainName(q, v)
                                  /\ jump = Rule(ip, Anything, Anything, "", chain)
                                  /\ bridged = [jump EXCEPT !.only = "bridged"]
  BY Zenon
<1>2. PICK w, x, y, z :
        /\ w = <<Cmd("newchain", chain, Nil)>>
        /\ x = runThroughPolicies(chain, ip, is, v)
        /\ y = <<Cmd("insert", FORWARD, jump), Cmd("insert", FORWARD, bridged)>>
        /\ z = rejectRest(chain)
  BY Zenon
<1>3. egressFirewall(q, ip, is, v) = w \o x \o y \o z
  BY <1>1, <1>2, Zenon DEF egressFirewall
<1>4. FwList(<<Cmd("newchain", chain, Nil)>>)
      /\ \E c \in Range(<<Cmd("newchain", chain, Nil)>>) : NewChain(c, chain)
  BY <1>1, FwNewChain, Zenon
<1>5. FwList(w) /\ \E c \in Range(w) : NewChain(c, chain)
  BY <1>2, <1>4, Zenon
<1>6. FwList(runThroughPolicies(chain, ip, is, v)) /\ FwList(rejectRest(chain))
  BY FwRun, FwReject, Zenon
<1>7. FwList(<<Cmd("insert", FORWARD, jump), Cmd("insert", FORWARD, bridged)>>)
  BY FwPair, Zenon
<1>8. FwList(x) /\ FwList(y) /\ FwList(z)
  BY <1>2, <1>6, <1>7, Zenon
<1>9. FwList(w \o x \o y \o z) /\ Range(w) \subseteq Range(w \o x \o y \o z)
  <2>1. FwList(w \o x) /\ Range(w \o x) = Range(w) \cup Range(x)
    BY <1>5, <1>8, FwCat, Zenon
  <2>2. FwList(w \o x \o y) /\ Range(w \o x \o y) = Range(w \o x) \cup Range(y)
    BY <1>8, <2>1, FwCat, Zenon
  <2>3. FwList(w \o x \o y \o z) /\ Range(w \o x \o y \o z) = Range(w \o x \o y) \cup Range(z)
    BY <1>8, <2>2, FwCat, Zenon
  <2> QED
    BY <2>1, <2>2, <2>3, Zenon
<1> QED
  BY <1>1, <1>3, <1>5, <1>9, Zenon

\* syncPodFirewallChains edits chains only, and makes the chain of every pod that
\* some policy selects in this direction.
LEMMA FwSync ==
  ASSUME NEW is, IsFiniteSet(DOMAIN is), NEW ps, NEW v, NEW dir \in {"ingress", "egress"},
         IsFiniteSet(OnNode)
  PROVE  /\ FwList(syncPodFirewallChains(dir, ps, is, v))
         /\ \A q \in EnabledPods(ps, is, dir) :
               \E c \in Range(syncPodFirewallChains(dir, ps, is, v)) :
                   NewChain(c, podFwChainName(q, v))
<1>1. PICK S : S = EnabledPods(ps, is, dir)
  BY Zenon
<1>2. IsFiniteSet(S)
  <2>1. S \subseteq OnNode
    BY <1>1, Zenon DEF EnabledPods
  <2> QED
    BY <2>1, FS_Subset, Zenon
<1>3. PICK F :
        /\ syncPodFirewallChains(dir, ps, is, v) = Concat(F)
        /\ DOMAIN F = S
        /\ \A q \in S : /\ FwList(F[q])
                        /\ \E c \in Range(F[q]) : NewChain(c, podFwChainName(q, v))
  <2>1. CASE dir = "ingress"
    <3>1. PICK F : F = [q \in S |-> ingressFirewall(q, ps[q].ip, is, v)]
      BY Zenon
    <3>2. syncPodFirewallChains(dir, ps, is, v) = Concat(F)
      BY <1>1, <2>1, <3>1, Zenon
      DEF syncPodFirewallChains, getIngressNetworkPolicyEnabledPods
    <3>3. DOMAIN F = S /\ \A q \in S : F[q] = ingressFirewall(q, ps[q].ip, is, v)
      BY <3>1, Zenon
    <3>4. ASSUME NEW q \in S
          PROVE  FwList(F[q]) /\ \E c \in Range(F[q]) : NewChain(c, podFwChainName(q, v))
      <4>1. PICK l : l = ingressFirewall(q, ps[q].ip, is, v)
        BY Zenon
      <4>2. FwList(l) /\ \E c \in Range(l) : NewChain(c, podFwChainName(q, v))
        BY <4>1, FwIngress, Zenon
      <4>3. F[q] = l
        BY <3>3, <4>1, Zenon
      <4> QED
        BY <4>2, <4>3, Zenon
    <3> QED
      BY <3>2, <3>3, <3>4, Zenon
  <2>2. CASE dir = "egress"
    <3>1. PICK F : F = [q \in S |-> egressFirewall(q, ps[q].ip, is, v)]
      BY Zenon
    <3>0. dir # "ingress"
      BY <2>2
    <3>2. syncPodFirewallChains(dir, ps, is, v) = Concat(F)
      BY <1>1, <2>2, <3>0, <3>1, Zenon
      DEF syncPodFirewallChains, getEgressNetworkPolicyEnabledPods
    <3>3. DOMAIN F = S /\ \A q \in S : F[q] = egressFirewall(q, ps[q].ip, is, v)
      BY <3>1, Zenon
    <3>4. ASSUME NEW q \in S
          PROVE  FwList(F[q]) /\ \E c \in Range(F[q]) : NewChain(c, podFwChainName(q, v))
      <4>1. PICK l : l = egressFirewall(q, ps[q].ip, is, v)
        BY Zenon
      <4>2. FwList(l) /\ \E c \in Range(l) : NewChain(c, podFwChainName(q, v))
        BY <4>1, FwEgress, Zenon
      <4>3. F[q] = l
        BY <3>3, <4>1, Zenon
      <4> QED
        BY <4>2, <4>3, Zenon
    <3> QED
      BY <3>2, <3>3, <3>4, Zenon
  <2> QED
    BY <2>1, <2>2, Zenon
<1>4. \A q \in DOMAIN F : IsSeq(F[q]) /\ \A c \in Range(F[q]) : FwCommand(c)
  BY <1>3, Zenon DEF FwList
<1>5. /\ IsSeq(Concat(F))
      /\ \A c : c \in Range(Concat(F)) <=> \E q \in DOMAIN F : c \in Range(F[q])
  BY <1>2, <1>3, <1>4, ConcatMembers, Zenon
<1>6. FwList(Concat(F))
  BY <1>4, <1>5, Zenon DEF FwList
<1>7. \A q \in S : \E c \in Range(Concat(F)) : NewChain(c, podFwChainName(q, v))
  BY <1>3, <1>5, Zenon
<1> QED
  BY <1>1, <1>3, <1>6, <1>7, Zenon

\* --------------------------------------------------- cleanupStaleRules

\* A command that cleanupStaleRules may give, when the chains and sets in use
\* are K and W.
Sweeps(c, K, W) ==
    /\ c.skip = 0
    /\ \/ c.op \in {"delete", "clear"}
       \/ c.op = "delchain" /\ c.on \notin K
       \/ c.op = "destroy" /\ c.on \notin W

SweepList(l, K, W) == IsSeq(l) /\ \A c \in Range(l) : Sweeps(c, K, W)

Gives(l, op, x) == \E c \in Range(l) : c.op = op /\ c.on = x

\* What two lists of the cleanup do, they do one after the other.
LEMMA SweepCat ==
  ASSUME NEW x, NEW y, NEW K, NEW W, SweepList(x, K, W), SweepList(y, K, W)
  PROVE  /\ SweepList(x \o y, K, W)
         /\ \A op, s : Gives(x, op, s) \/ Gives(y, op, s) => Gives(x \o y, op, s)
<1>1. IsSeq(x) /\ IsSeq(y)
  BY Zenon DEF SweepList
<1>2. IsSeq(x \o y) /\ Range(x \o y) = Range(x) \cup Range(y)
  BY <1>1, Cat, Zenon DEF Part
<1> QED
  BY <1>2, Zenon DEF SweepList, Gives

\* What a loop of the cleanup does is what its turns do.
LEMMA SweepConcat ==
  ASSUME NEW F, NEW K, NEW W, IsFiniteSet(DOMAIN F), \A x \in DOMAIN F : SweepList(F[x], K, W)
  PROVE  /\ SweepList(Concat(F), K, W)
         /\ \A op, s : \A x \in DOMAIN F : Gives(F[x], op, s) => Gives(Concat(F), op, s)
<1>1. \A x \in DOMAIN F : IsSeq(F[x]) /\ \A c \in Range(F[x]) : Sweeps(c, K, W)
  BY Zenon DEF SweepList
<1>2. /\ IsSeq(Concat(F))
      /\ \A c : c \in Range(Concat(F)) <=> \E x \in DOMAIN F : c \in Range(F[x])
  BY <1>1, ConcatMembers, Zenon
<1> QED
  BY <1>1, <1>2, Zenon DEF SweepList, Gives

\* A list of one command of the cleanup.
LEMMA SweepSingle ==
  ASSUME NEW c, NEW K, NEW W, Sweeps(c, K, W)
  PROVE  SweepList(<<c>>, K, W) /\ Gives(<<c>>, c.op, c.on)
<1>1. IsSeq(<<c>>) /\ Range(<<c>>) = {c}
  BY Single, Zenon
<1> QED
  BY <1>1, Zenon DEF SweepList, Gives

\* -D takes away a rule, never a chain or a set.
LEMMA SweepDelete ==
  ASSUME NEW on, NEW arg, NEW K, NEW W
  PROVE  Sweeps(Cmd("delete", on, arg), K, W)
<1>1. PICK c : c = Cmd("delete", on, arg)
  BY Zenon
<1>2. c.op = "delete" /\ c.skip = 0
  BY <1>1 DEF Cmd
<1> QED
  BY <1>1, <1>2, Zenon DEF Sweeps

\* The jumps to a chain that the cleanup deletes from FORWARD or OUTPUT.
LEMMA SweepJumps ==
  ASSUME NEW t, NEW hook, IsSeq(t[hook]), NEW chain, NEW done, NEW K, NEW W
  PROVE  SweepList(deleteJumps(t, hook, chain, done), K, W)
<1> DEFINE at == {i \in DOMAIN t[hook] : t[hook][i].to = chain}
<1>2. IsFiniteSet(DOMAIN t[hook])
  <2>1. PICK l : l = t[hook]
    BY Zenon
  <2>2. Len(l) \in Nat /\ DOMAIN l = 1 .. Len(l)
    BY <2>1 DEF IsSeq
  <2>3. IsFiniteSet(1 .. Len(l))
    BY <2>2, FS_Interval
  <2> QED
    BY <2>1, <2>2, <2>3, Zenon
<1>3. Cardinality(at) \in Nat
  <2>1. at \subseteq DOMAIN t[hook]
    BY Zenon
  <2> QED
    BY <1>2, <2>1, FS_Subset, FS_CardinalityType, Zenon
<1> DEFINE Nth(k) == CHOOSE i \in at : Cardinality({j \in at : j < i}) = k - 1
           Listing(i) == Cardinality({j \in 1 .. i : t[hook][j].to \notin done})
           A(k) == Listing(Nth(k)) - (k - 1)
<1>4. PICK l : l = [k \in 1 .. Cardinality(at) |-> Cmd("delete", hook, A(k))]
  BY Zenon
<1>5. deleteJumps(t, hook, chain, done) = l
  BY <1>4, Zenon DEF deleteJumps
<1> HIDE DEF A, at
<1>6. PICK n \in Nat : n = Cardinality(at)
  BY <1>3, Zenon
<1>7. l = [k \in 1 .. n |-> l[k]] /\ \A k \in DOMAIN l : l[k] = Cmd("delete", hook, A(k))
  BY <1>4, <1>6, Zenon
<1>8. IsSeq(l)
  BY <1>7, FunctionSeq, Zenon
<1>9. \A k \in DOMAIN l : Sweeps(l[k], K, W)
  BY <1>7, SweepDelete, Zenon
<1>10. \A c \in Range(l) : Sweeps(c, K, W)
  BY <1>9, Zenon DEF Range
<1> QED
  BY <1>5, <1>8, <1>10, Zenon DEF SweepList

\* The jumps to all stale chains that the cleanup deletes.
LEMMA SweepAllJumps ==
  ASSUME NEW t, IsSeq(t[FORWARD]), IsSeq(t[OUTPUT]), NEW chains, IsSeq(chains), NEW K, NEW W
  PROVE  SweepList(deleteAllJumps(t, chains), K, W)
<1> DEFINE done(k) == {chains[m] : m \in 1 .. k - 1}
           J(k) == deleteJumps(t, FORWARD, chains[k], done(k))
                     \o deleteJumps(t, OUTPUT, chains[k], done(k))
<1>1. PICK ss : ss = [k \in DOMAIN chains |-> J(k)]
  BY Zenon
<1>2. deleteAllJumps(t, chains) = InTurn(ss)
  BY <1>1, Zenon DEF deleteAllJumps
<1>3. \A k : SweepList(J(k), K, W)
  <2> TAKE k
  <2>1. /\ SweepList(deleteJumps(t, FORWARD, chains[k], done(k)), K, W)
        /\ SweepList(deleteJumps(t, OUTPUT, chains[k], done(k)), K, W)
    BY SweepJumps, Zenon
  <2> QED
    BY <2>1, SweepCat, Zenon
<1> HIDE DEF J
<1>4. DOMAIN ss = DOMAIN chains /\ \A k \in DOMAIN ss : ss[k] = J(k)
  BY <1>1, Zenon
<1>5. IsSeq(ss)
  <2>1. PICK n \in Nat : n = Len(chains) /\ DOMAIN chains = 1 .. n
    BY DEF IsSeq
  <2>2. ss = [k \in 1 .. n |-> ss[k]]
    BY <1>1, <2>1, Zenon
  <2> QED
    BY <2>2, FunctionSeq, Zenon
<1>6. \A k \in DOMAIN ss : IsSeq(ss[k]) /\ \A c \in Range(ss[k]) : Sweeps(c, K, W)
  BY <1>3, <1>4, Zenon DEF SweepList
<1>7. /\ IsSeq(InTurn(ss))
      /\ \A c \in Range(InTurn(ss)) : \E i \in DOMAIN ss : c \in Range(ss[i])
  BY <1>5, <1>6, FlattenMembers, Zenon
<1> QED
  BY <1>2, <1>6, <1>7, Zenon DEF SweepList

\* The cleanup deletes the chain after it has flushed it.
LEMMA SweepChain ==
  ASSUME NEW chain, NEW K, NEW W, chain \notin K
  PROVE  /\ SweepList(flushAndDelete(chain), K, W)
         /\ Gives(flushAndDelete(chain), "delchain", chain)
<1>1. PICK c, d : c = Cmd("clear", chain, Nil) /\ d = Cmd("delchain", chain, Nil)
  BY Zenon
<1>2. c.op = "clear" /\ c.skip = 0 /\ d.op = "delchain" /\ d.on = chain /\ d.skip = 0
  BY <1>1 DEF Cmd
<1>3. flushAndDelete(chain) = <<c, d>>
  BY <1>1, Zenon DEF flushAndDelete
<1>4. IsSeq(<<c, d>>) /\ Range(<<c, d>>) = {c, d}
  BY Pair, Zenon
<1>5. Sweeps(c, K, W) /\ Sweeps(d, K, W)
  BY <1>2, Zenon DEF Sweeps
<1>6. SweepList(<<c, d>>, K, W) /\ Gives(<<c, d>>, "delchain", chain)
  BY <1>2, <1>4, <1>5, Zenon DEF SweepList, Gives
<1> QED
  BY <1>3, <1>6, Zenon

\* The cleanup deletes the jumps to a stale policy chain from the pods' chains.
LEMMA SweepReference ==
  ASSUME NEW t, NEW chain, NEW active, IsFiniteSet(active), NEW K, NEW W
  PROVE  SweepList(deleteReference(t, chain, active), K, W)
<1> DEFINE S == {x \in active : \E r \in Range(t[x]) : r.to = chain}
           C(c) == Cmd("delete", c, CHOOSE i \in DOMAIN t[c] :
                                        /\ t[c][i].to = chain
                                        /\ \A j \in 1 .. i - 1 : t[c][j].to # chain)
<1>1. PICK F : F = [c \in S |-> <<C(c)>>]
  BY Zenon
<1>2. deleteReference(t, chain, active) = Concat(F)
  BY <1>1, Zenon DEF deleteReference
<1>3. IsFiniteSet(S)
  <2>1. S \subseteq active
    BY Zenon
  <2> QED
    BY <2>1, FS_Subset, Zenon
<1>4. \A c : Sweeps(C(c), K, W)
  BY SweepDelete, Zenon
<1> HIDE DEF C, S
<1>5. DOMAIN F = S /\ \A c \in S : F[c] = <<C(c)>>
  BY <1>1, Zenon
<1>6. \A c \in DOMAIN F : SweepList(F[c], K, W)
  <2> TAKE c \in DOMAIN F
  <2>1. SweepList(<<C(c)>>, K, W)
    BY <1>4, SweepSingle, Zenon
  <2>2. F[c] = <<C(c)>>
    BY <1>5, Zenon
  <2> QED
    BY <2>1, <2>2, Zenon
<1>7. SweepList(Concat(F), K, W)
  BY <1>3, <1>5, <1>6, SweepConcat, Zenon
<1> QED
  BY <1>2, <1>7, Zenon

\* The cleanup destroys every set of a group that has no set in use.
LEMMA SweepSets ==
  ASSUME NEW S, IsFiniteSet(S), NEW K, NEW W, S \cap W = {}
  PROVE  /\ SweepList(Concat([s \in S |-> <<Cmd("destroy", s, Nil)>>]), K, W)
         /\ \A s \in S : Gives(Concat([x \in S |-> <<Cmd("destroy", x, Nil)>>]), "destroy", s)
<1>1. PICK F : F = [s \in S |-> <<Cmd("destroy", s, Nil)>>]
  BY Zenon
<1>2. ASSUME NEW s \in S
      PROVE  SweepList(F[s], K, W) /\ Gives(F[s], "destroy", s)
  <2>1. PICK c : c = Cmd("destroy", s, Nil)
    BY Zenon
  <2>2. c.op = "destroy" /\ c.on = s /\ c.skip = 0
    BY <2>1 DEF Cmd
  <2>3. Sweeps(c, K, W)
    BY <2>2, Zenon DEF Sweeps
  <2>4. SweepList(<<c>>, K, W) /\ Gives(<<c>>, c.op, c.on)
    BY <2>3, SweepSingle, Zenon
  <2>5. F[s] = <<c>>
    BY <1>1, <2>1, Zenon
  <2> QED
    BY <2>2, <2>4, <2>5, Zenon
<1>3. DOMAIN F = S
  BY <1>1, Zenon
<1>4. SweepList(Concat(F), K, W) /\ \A s \in S : Gives(Concat(F), "destroy", s)
  <2>1. \A s \in DOMAIN F : SweepList(F[s], K, W)
    BY <1>2, <1>3, Zenon
  <2>2. /\ SweepList(Concat(F), K, W)
        /\ \A op, s : \A x \in DOMAIN F : Gives(F[x], op, s) => Gives(Concat(F), op, s)
    BY <1>3, <2>1, SweepConcat, Zenon
  <2> QED
    BY <1>2, <1>3, <2>2, Zenon
<1> QED
  BY <1>1, <1>4, Zenon

\* The ipsets that are not in use, and no others, are destroyed.
LEMMA SweepStaleSets ==
  ASSUME NEW ss, NEW K, NEW W, IsFiniteSet(DOMAIN ss)
  PROVE  /\ SweepList(destroyStaleSets(ss, W), K, W)
         /\ \A s \in DOMAIN ss \ W : Gives(destroyStaleSets(ss, W), "destroy", s)
<1>1. PICK D : D = DOMAIN ss \ W
  BY Zenon
<1>2. D \cap W = {} /\ D \subseteq DOMAIN ss
  BY <1>1, Zenon
<1>3. IsFiniteSet(D)
  BY <1>2, FS_Subset, Zenon
<1>4. /\ SweepList(Concat([s \in D |-> <<Cmd("destroy", s, Nil)>>]), K, W)
      /\ \A s \in D : Gives(Concat([e \in D |-> <<Cmd("destroy", e, Nil)>>]), "destroy", s)
  BY <1>2, <1>3, SweepSets, Zenon
<1>5. destroyStaleSets(ss, W) = Concat([s \in D |-> <<Cmd("destroy", s, Nil)>>])
  BY <1>1, Zenon DEF destroyStaleSets
<1> QED
  BY <1>1, <1>4, <1>5, Zenon

\* The chains the cleanup finds stale are exactly those of its prefix that this
\* Sync has not made, and each is deleted.
LEMMA SweepStale ==
  ASSUME NEW t, NEW pre, NEW active, IsFiniteSet(DOMAIN t),
         NEW K, NEW W, \A ch \in K : ch[1] = pre => ch \in active
  PROVE  /\ IsFiniteSet(StaleChains(t, pre, active))
         /\ \A ch \in StaleChains(t, pre, active) :
               /\ SweepList(flushAndDelete(ch), K, W)
               /\ Gives(flushAndDelete(ch), "delchain", ch)
         /\ \A ch \in DOMAIN t : ch[1] = pre /\ ch \notin active => ch \in StaleChains(t, pre, active)
<1>1. \A ch : ch \in StaleChains(t, pre, active) <=> ch \in DOMAIN t /\ ch[1] = pre /\ ch \notin active
  BY Zenon DEF StaleChains
<1>2. StaleChains(t, pre, active) \subseteq DOMAIN t
  BY <1>1, Zenon
<1>3. IsFiniteSet(StaleChains(t, pre, active))
  BY <1>2, FS_Subset, Zenon
<1> QED
  BY <1>1, <1>3, SweepChain, Zenon

\* cleanupStaleRules deletes every chain of the controller and every set that
\* is not in use, and nothing that is.
LEMMA SweepAll ==
  ASSUME NEW t, NEW ss, NEW pol, NEW fw, NEW W, NEW K,
         IsSeq(t[FORWARD]), IsSeq(t[OUTPUT]),
         IsFiniteSet(DOMAIN t), IsFiniteSet(DOMAIN ss), IsFiniteSet(fw),
         K = {FORWARD, OUTPUT} \cup pol \cup fw,
         \A ch \in pol : ch[1] = "KUBE-NWPLCY-", \A ch \in fw : ch[1] = "KUBE-POD-FW-"
  PROVE  /\ SweepList(cleanupStaleRules(t, ss, pol, fw, W), K, W)
         /\ \A ch \in DOMAIN t \ K : ch[1] \in {"KUBE-NWPLCY-", "KUBE-POD-FW-"} =>
               Gives(cleanupStaleRules(t, ss, pol, fw, W), "delchain", ch)
         /\ \A s \in DOMAIN ss \ W : Gives(cleanupStaleRules(t, ss, pol, fw, W), "destroy", s)
<1>1. PICK SF, SP : /\ SF = StaleChains(t, "KUBE-POD-FW-", fw)
                    /\ SP = StaleChains(t, "KUBE-NWPLCY-", pol)
  BY Zenon
<1>2. /\ \A ch \in K : ch[1] = "KUBE-POD-FW-" => ch \in fw
      /\ \A ch \in K : ch[1] = "KUBE-NWPLCY-" => ch \in pol
  <2>1. FORWARD[1] = "FORWARD" /\ OUTPUT[1] = "OUTPUT"
    BY DEF FORWARD, OUTPUT
  <2>2. \A ch \in {FORWARD, OUTPUT} : ch[1] \notin {"KUBE-POD-FW-", "KUBE-NWPLCY-"}
    BY <2>1
  <2>3. "KUBE-POD-FW-" # "KUBE-NWPLCY-"
    OBVIOUS
  <2> QED
    BY <2>2, <2>3, Zenon
<1>3. /\ IsFiniteSet(SF)
      /\ \A ch \in SF : /\ SweepList(flushAndDelete(ch), K, W)
                        /\ Gives(flushAndDelete(ch), "delchain", ch)
      /\ \A ch \in DOMAIN t : ch[1] = "KUBE-POD-FW-" /\ ch \notin fw => ch \in SF
  BY <1>1, <1>2, SweepStale, Zenon
<1>4. /\ IsFiniteSet(SP)
      /\ \A ch \in SP : /\ SweepList(flushAndDelete(ch), K, W)
                        /\ Gives(flushAndDelete(ch), "delchain", ch)
      /\ \A ch \in DOMAIN t : ch[1] = "KUBE-NWPLCY-" /\ ch \notin pol => ch \in SP
  BY <1>1, <1>2, SweepStale, Zenon
<1>5. PICK F, G : /\ F = [c \in SF |-> flushAndDelete(c)]
                  /\ G = [c \in SP |-> deleteReference(t, c, fw) \o flushAndDelete(c)]
  BY Zenon
<1>6. PICK w, x, y, z : /\ w = deleteAllJumps(t, Listed(SF))
                        /\ x = Concat(F) /\ y = Concat(G)
                        /\ z = destroyStaleSets(ss, W)
  BY Zenon
<1>7. cleanupStaleRules(t, ss, pol, fw, W) = w \o x \o y \o z
  BY <1>1, <1>5, <1>6, Zenon DEF cleanupStaleRules
<1>8. SweepList(w, K, W)
  BY <1>3, <1>6, ListedMembers, SweepAllJumps, Zenon
<1>9. SweepList(x, K, W) /\ \A ch \in SF : Gives(x, "delchain", ch)
  <2>1. DOMAIN F = SF /\ \A c \in SF : F[c] = flushAndDelete(c)
    BY <1>5, Zenon
  <2>2. \A c \in DOMAIN F : SweepList(F[c], K, W)
    BY <1>3, <2>1, Zenon
  <2>3. /\ SweepList(Concat(F), K, W)
        /\ \A op, s : \A c \in DOMAIN F : Gives(F[c], op, s) => Gives(Concat(F), op, s)
    BY <1>3, <2>1, <2>2, SweepConcat, Zenon
  <2> QED
    BY <1>3, <1>6, <2>1, <2>3, Zenon
<1>10. SweepList(y, K, W) /\ \A ch \in SP : Gives(y, "delchain", ch)
  <2>1. DOMAIN G = SP /\ \A c \in SP : G[c] = deleteReference(t, c, fw) \o flushAndDelete(c)
    BY <1>5, Zenon
  <2>2. ASSUME NEW c \in SP
        PROVE  SweepList(G[c], K, W) /\ Gives(G[c], "delchain", c)
    <3>1. SweepList(deleteReference(t, c, fw), K, W)
      BY SweepReference, Zenon
    <3>2. SweepList(flushAndDelete(c), K, W) /\ Gives(flushAndDelete(c), "delchain", c)
      BY <1>4, Zenon
    <3>3. /\ SweepList(deleteReference(t, c, fw) \o flushAndDelete(c), K, W)
          /\ Gives(deleteReference(t, c, fw) \o flushAndDelete(c), "delchain", c)
      BY <3>1, <3>2, SweepCat, Zenon
    <3> QED
      BY <2>1, <3>3, Zenon
  <2>3. \A c \in DOMAIN G : SweepList(G[c], K, W)
    BY <2>1, <2>2, Zenon
  <2>4. /\ SweepList(Concat(G), K, W)
        /\ \A op, s : \A c \in DOMAIN G : Gives(G[c], op, s) => Gives(Concat(G), op, s)
    BY <1>4, <2>1, <2>3, SweepConcat, Zenon
  <2> QED
    BY <1>6, <2>1, <2>2, <2>4, Zenon
<1>11. SweepList(z, K, W) /\ \A s \in DOMAIN ss \ W : Gives(z, "destroy", s)
  BY <1>6, SweepStaleSets, Zenon
<1>12. /\ SweepList(w \o x, K, W)
       /\ \A op, s : Gives(x, op, s) => Gives(w \o x, op, s)
  BY <1>8, <1>9, SweepCat, Zenon
<1>13. /\ SweepList(w \o x \o y, K, W)
       /\ \A op, s : Gives(w \o x, op, s) \/ Gives(y, op, s) => Gives(w \o x \o y, op, s)
  BY <1>10, <1>12, SweepCat, Zenon
<1>14. /\ SweepList(w \o x \o y \o z, K, W)
       /\ \A op, s : Gives(w \o x \o y, op, s) \/ Gives(z, op, s) => Gives(w \o x \o y \o z, op, s)
  BY <1>11, <1>13, SweepCat, Zenon
<1>15. \A ch \in DOMAIN t \ K : ch[1] \in {"KUBE-NWPLCY-", "KUBE-POD-FW-"} => ch \in SF \/ ch \in SP
  BY <1>3, <1>4, Zenon
<1>16. \A ch : ch \in SF \/ ch \in SP => Gives(w \o x \o y \o z, "delchain", ch)
  BY <1>9, <1>10, <1>12, <1>13, <1>14, Zenon
<1>17. \A s \in DOMAIN ss \ W : Gives(w \o x \o y \o z, "destroy", s)
  BY <1>11, <1>14, Zenon
<1> QED
  BY <1>7, <1>14, <1>15, <1>16, <1>17, Zenon

\* ------------------------------------------- buildNetworkPoliciesInfo

\* What a loop over finitely many objects collects from finite lists is finite.
LEMMA FiniteUnion ==
  ASSUME NEW f, IsFiniteSet(DOMAIN f), f = [x \in DOMAIN f |-> f[x]],
         \A x \in DOMAIN f : IsFiniteSet(f[x])
  PROVE  IsFiniteSet(UNION Range(f))
<1>1. IsFiniteSet(Range(f))
  BY FiniteRange, Zenon
<1>2. \A T \in Range(f) : IsFiniteSet(T)
  BY Zenon DEF Range
<1> QED
  BY <1>1, <1>2, FS_UNION, Zenon

\* Pods have finitely many addresses.
LEMMA FiniteIPs ==
  ASSUME NEW ps, NEW qs, qs \subseteq Pods
  PROVE  IsFiniteSet(IPsOf(ps, qs))
<1>1. IsFiniteSet(qs)
  BY ClusterAssumption, FS_Subset, Zenon
<1>2. PICK f : f = [q \in qs |-> ps[q].ip]
  BY Zenon
<1>3. DOMAIN f = qs /\ f = [x \in DOMAIN f |-> f[x]] /\ IPsOf(ps, qs) \subseteq Range(f)
  BY <1>2, Zenon DEF Range, IPsOf
<1>4. IsFiniteSet(Range(f))
  BY <1>1, <1>3, FiniteRange, Zenon
<1> QED
  BY <1>3, <1>4, FS_Subset, Zenon

\* The pods that a peer selects are pods of the cluster.
LEMMA PeersArePods ==
  ASSUME NEW ps, NEW nl, NEW ns, NEW peer
  PROVE  evalPodPeer(ps, nl, ns, peer) \subseteq Pods
<1>1. \A n, sel : ListPods(ps, n, sel) \subseteq Pods
  BY Zenon DEF ListPods
<1>2. PICK sel : sel = IF peer.pod = Nil THEN Labels ELSE peer.pod.labels
  BY Zenon
<1>3. CASE peer.ns # Nil
  <2>1. PICK M : M = {m \in Namespaces : nl[m] \in peer.ns.labels}
    BY Zenon
  <2>2. evalPodPeer(ps, nl, ns, peer) = UNION {ListPods(ps, n, sel) : n \in M}
    BY <1>2, <1>3, <2>1, Zenon DEF evalPodPeer
  <2>3. UNION {ListPods(ps, n, sel) : n \in M} \subseteq Pods
    BY <1>1, Zenon
  <2> QED
    BY <2>2, <2>3, Zenon
<1>4. CASE peer.ns = Nil /\ peer.pod # Nil
  <2>1. evalPodPeer(ps, nl, ns, peer) = ListPods(ps, ns, peer.pod.labels)
    BY <1>4, Zenon DEF evalPodPeer
  <2> QED
    BY <1>1, <2>1, Zenon
<1>5. CASE peer.ns = Nil /\ peer.pod = Nil
  <2>1. evalPodPeer(ps, nl, ns, peer) = {}
    BY <1>5, Zenon DEF evalPodPeer
  <2> QED
    BY <2>1, Zenon
<1> QED
  BY <1>3, <1>4, <1>5, Zenon

\* grabNamedPort gives finitely many ports with finitely many addresses.
LEMMA FiniteNamedPorts ==
  ASSUME NEW ps, NEW qs, qs \subseteq Pods, NEW name
  PROVE  /\ IsFiniteSet(grabNamedPort(ps, qs, name))
         /\ \A ep \in grabNamedPort(ps, qs, name) : IsFiniteSet(ep.ips)
<1> DEFINE ports(q) == {np[2] : np \in NamedPorts[q]}
           all == UNION {ports(q) : q \in qs}
           numbers == {n \in all : \E q \in qs : <<name, n>> \in NamedPorts[q] /\ ps[q].ip # NoIP}
           ips(n) == IPsOf(ps, {q \in qs : <<name, n>> \in NamedPorts[q]})
<1>1. \A q \in qs : IsFiniteSet(ports(q))
  <2> TAKE q \in qs
  <2>1. PICK f : f = [np \in NamedPorts[q] |-> np[2]]
    BY Zenon
  <2>2. DOMAIN f = NamedPorts[q] /\ f = [x \in DOMAIN f |-> f[x]] /\ Range(f) = ports(q)
    BY <2>1, Zenon DEF Range
  <2>3. IsFiniteSet(NamedPorts[q])
    BY ClusterAssumption, Zenon
  <2> QED
    BY <2>2, <2>3, FiniteRange, Zenon
<1>2. IsFiniteSet(all)
  <2> HIDE DEF ports
  <2>1. IsFiniteSet(qs)
    BY ClusterAssumption, FS_Subset, Zenon
  <2>2. PICK f : f = [q \in qs |-> ports(q)]
    BY Zenon
  <2>3. DOMAIN f = qs /\ f = [x \in DOMAIN f |-> f[x]] /\ UNION Range(f) = all
        /\ \A q \in DOMAIN f : f[q] = ports(q)
    BY <2>2, Zenon DEF Range
  <2>4. ASSUME NEW q \in DOMAIN f PROVE IsFiniteSet(f[q])
    <3>1. IsFiniteSet(ports(q)) /\ f[q] = ports(q)
      BY <1>1, <2>3, Zenon
    <3> QED
      BY <3>1, Zenon
  <2>5. IsFiniteSet(UNION Range(f))
    BY <2>1, <2>3, <2>4, FiniteUnion, Zenon
  <2> QED
    BY <2>3, <2>5, Zenon
<1>3. IsFiniteSet(numbers)
  <2> HIDE DEF all
  <2>1. numbers \subseteq all
    BY Zenon
  <2> QED
    BY <1>2, <2>1, FS_Subset, Zenon
<1>4. \A n : IsFiniteSet(ips(n))
  <2> TAKE n
  <2>1. {q \in qs : <<name, n>> \in NamedPorts[q]} \subseteq Pods
    BY Zenon
  <2> QED
    BY <2>1, FiniteIPs, Zenon
<1>5. grabNamedPort(ps, qs, name) = {[port |-> n, ips |-> ips(n)] : n \in numbers}
  BY Zenon DEF grabNamedPort
<1> HIDE DEF numbers, ips
<1>6. PICK f : f = [n \in numbers |-> [port |-> n, ips |-> ips(n)]]
  BY Zenon
<1>7. DOMAIN f = numbers /\ f = [x \in DOMAIN f |-> f[x]] /\ Range(f) = grabNamedPort(ps, qs, name)
  BY <1>5, <1>6, Zenon DEF Range
<1>8. IsFiniteSet(Range(f))
  BY <1>3, <1>7, FiniteRange, Zenon
<1>9. \A n : [port |-> n, ips |-> ips(n)].ips = ips(n)
  OBVIOUS
<1>10. ASSUME NEW ep \in grabNamedPort(ps, qs, name) PROVE IsFiniteSet(ep.ips)
  <2>1. PICK n \in numbers : ep = [port |-> n, ips |-> ips(n)]
    BY <1>5, Zenon
  <2>2. ep.ips = ips(n)
    BY <1>9, <2>1, Zenon
  <2> QED
    BY <1>4, <2>2, Zenon
<1> QED
  BY <1>7, <1>8, <1>10, Zenon

\* evalIPBlockPeer gives finitely many blocks.
LEMMA FiniteBlocks ==
  ASSUME NEW peer, peer.block # Nil => IsFiniteSet(peer.block.except)
  PROVE  IsFiniteSet(evalIPBlockPeer(peer))
<1> DEFINE nets(net) == IF net = AllNets THEN Halves ELSE {net}
           E(net, no) == {[net |-> n, no |-> no] : n \in nets(net)}
<1>1. \A net, no : IsFiniteSet(E(net, no))
  <2> TAKE net, no
  <2>1. IsFiniteSet(nets(net))
    BY ClusterAssumption, FS_Singleton, Zenon
  <2> HIDE DEF nets
  <2>2. PICK f : f = [n \in nets(net) |-> [net |-> n, no |-> no]]
    BY Zenon
  <2>3. DOMAIN f = nets(net) /\ f = [x \in DOMAIN f |-> f[x]] /\ Range(f) = E(net, no)
    BY <2>2, Zenon DEF Range
  <2> QED
    BY <2>1, <2>3, FiniteRange, Zenon
<1>2. CASE peer.pod # Nil \/ peer.ns # Nil \/ peer.block = Nil
  <2>1. evalIPBlockPeer(peer) = {}
    BY <1>2, Zenon DEF evalIPBlockPeer
  <2> QED
    BY <2>1, FS_EmptySet, Zenon
<1>3. CASE ~ (peer.pod # Nil \/ peer.ns # Nil \/ peer.block = Nil)
  <2>1. evalIPBlockPeer(peer) = E(peer.block.cidr, FALSE)
                                  \cup UNION {E(x, TRUE) : x \in peer.block.except}
    BY <1>3, Zenon DEF evalIPBlockPeer
  <2> HIDE DEF E
  <2>2. PICK f : f = [x \in peer.block.except |-> E(x, TRUE)]
    BY Zenon
  <2>3. DOMAIN f = peer.block.except /\ f = [x \in DOMAIN f |-> f[x]]
        /\ Range(f) = {E(x, TRUE) : x \in peer.block.except}
        /\ \A x \in DOMAIN f : f[x] = E(x, TRUE)
    BY <2>2, Zenon DEF Range
  <2>4. ASSUME NEW x \in DOMAIN f PROVE IsFiniteSet(f[x])
    <3>1. IsFiniteSet(E(x, TRUE)) /\ f[x] = E(x, TRUE)
      BY <1>1, <2>3, Zenon
    <3> QED
      BY <3>1, Zenon
  <2>5. IsFiniteSet(DOMAIN f)
    BY <1>3, <2>3, Zenon
  <2>6. IsFiniteSet(UNION Range(f))
    BY <2>3, <2>4, <2>5, FiniteUnion, Zenon
  <2>7. IsFiniteSet(E(peer.block.cidr, FALSE))
    BY <1>1, Zenon
  <2>8. IsFiniteSet(E(peer.block.cidr, FALSE) \cup UNION Range(f))
    BY <2>6, <2>7, FS_Union, Zenon
  <2> QED
    BY <2>1, <2>3, <2>8, Zenon
<1> QED
  BY <1>2, <1>3, Zenon

\* What the controller computes for a rule has finite lists.
LEMMA RuleInfoOK ==
  ASSUME NEW ps, NEW nl, NEW ns, NEW rule, NEW own,
         own = Nil \/ own \subseteq Pods,
         IsFiniteSet(rule.peers), IsFiniteSet(rule.ports),
         \A x \in rule.peers : x.block # Nil => IsFiniteSet(x.block.except)
  PROVE  RuleOK(ruleInfo(ps, nl, ns, rule, own))
<1>1. PICK peers : peers = UNION {evalPodPeer(ps, nl, ns, x) : x \in rule.peers}
  BY Zenon
<1>2. peers \subseteq Pods
  <2>1. \A x : evalPodPeer(ps, nl, ns, x) \subseteq Pods
    BY PeersArePods, Zenon
  <2>2. PICK f : f = [x \in rule.peers |-> evalPodPeer(ps, nl, ns, x)]
    BY Zenon
  <2>3. peers = UNION {f[x] : x \in rule.peers} /\ \A x \in rule.peers : f[x] \subseteq Pods
    BY <1>1, <2>1, <2>2
  <2> QED
    BY <2>3, Zenon
<1>3. PICK qs : qs = IF own = Nil THEN peers ELSE own
  BY Zenon
<1>4. qs \subseteq Pods
  BY <1>2, <1>3, Zenon
<1>5. PICK ports : ports = processNetworkPolicyPorts(ps, qs, rule.ports)
  BY Zenon
<1>6. PICK blocks : blocks = UNION {evalIPBlockPeer(x) : x \in rule.peers}
  BY Zenon
<1>7. PICK info : info = ruleInfo(ps, nl, ns, rule, own)
  BY Zenon
<1>8. info = [all |-> rule.peers = {}, pods |-> IPsOf(ps, peers), blocks |-> blocks,
              allPorts |-> rule.ports = {}, ports |-> ports.numeric, named |-> ports.named]
  BY <1>1, <1>3, <1>5, <1>6, <1>7, Zenon DEF ruleInfo
<1>9. /\ info.pods = IPsOf(ps, peers) /\ info.blocks = blocks
      /\ info.ports = ports.numeric /\ info.named = ports.named
  <2>1. PICK u, v : u = (rule.peers = {}) /\ v = (rule.ports = {})
    BY Zenon
  <2>2. info = [all |-> u, pods |-> IPsOf(ps, peers), blocks |-> blocks,
                allPorts |-> v, ports |-> ports.numeric, named |-> ports.named]
    BY <1>8, <2>1, Zenon
  <2> QED
    BY <2>2
<1>10. IsFiniteSet(info.pods)
  BY <1>2, <1>9, FiniteIPs, Zenon
<1>11. IsFiniteSet(info.blocks)
  <2>1. PICK f : f = [x \in rule.peers |-> evalIPBlockPeer(x)]
    BY Zenon
  <2>2. /\ DOMAIN f = rule.peers /\ f = [x \in DOMAIN f |-> f[x]]
        /\ UNION Range(f) = blocks
        /\ \A x \in DOMAIN f : f[x] = evalIPBlockPeer(x)
    BY <1>6, <2>1, Zenon DEF Range
  <2>3. ASSUME NEW x \in DOMAIN f PROVE IsFiniteSet(f[x])
    <3>1. x.block # Nil => IsFiniteSet(x.block.except)
      BY <2>2, Zenon
    <3>2. IsFiniteSet(evalIPBlockPeer(x)) /\ f[x] = evalIPBlockPeer(x)
      BY <2>2, <3>1, FiniteBlocks, Zenon
    <3> QED
      BY <3>2, Zenon
  <2>4. IsFiniteSet(DOMAIN f)
    BY <2>2, Zenon
  <2>5. IsFiniteSet(UNION Range(f))
    BY <2>2, <2>3, <2>4, FiniteUnion, Zenon
  <2> QED
    BY <1>9, <2>2, <2>5, Zenon
<1> DEFINE P == {x \in rule.ports : x.name = Nil}
           Q == {x \in rule.ports : x.name # Nil}
<1>12. IsFiniteSet(P) /\ IsFiniteSet(Q)
  <2>1. P \subseteq rule.ports /\ Q \subseteq rule.ports
    BY Zenon
  <2> QED
    BY <2>1, FS_Subset, Zenon
<1>13. /\ ports.numeric = {pt.number : pt \in P}
       /\ ports.named = UNION {grabNamedPort(ps, qs, pt.name) : pt \in Q}
  <2> DEFINE A == {pt.number : pt \in P}
             B == UNION {grabNamedPort(ps, qs, pt.name) : pt \in Q}
  <2>1. ports = [numeric |-> A, named |-> B]
    BY <1>5, Zenon DEF processNetworkPolicyPorts
  <2> HIDE DEF A, B
  <2>2. ports.numeric = A /\ ports.named = B
    BY <2>1
  <2> QED
    BY <2>2, Zenon DEF A, B
<1> HIDE DEF P, Q
<1>14. IsFiniteSet(info.ports)
  <2>1. PICK f : f = [pt \in P |-> pt.number]
    BY Zenon
  <2>2. DOMAIN f = P /\ f = [x \in DOMAIN f |-> f[x]] /\ Range(f) = ports.numeric
    BY <1>13, <2>1, Zenon DEF Range
  <2>3. IsFiniteSet(DOMAIN f)
    BY <1>12, <2>2, Zenon
  <2>4. IsFiniteSet(Range(f))
    BY <2>2, <2>3, FiniteRange, Zenon
  <2> QED
    BY <1>9, <2>2, <2>4, Zenon
<1>15. IsFiniteSet(info.named) /\ \A ep \in info.named : IsFiniteSet(ep.ips)
  <2>1. PICK f : f = [pt \in Q |-> grabNamedPort(ps, qs, pt.name)]
    BY Zenon
  <2>2. /\ DOMAIN f = Q /\ f = [x \in DOMAIN f |-> f[x]] /\ UNION Range(f) = ports.named
        /\ \A pt \in DOMAIN f : f[pt] = grabNamedPort(ps, qs, pt.name)
    BY <1>13, <2>1, Zenon DEF Range
  <2>3. ASSUME NEW pt \in DOMAIN f
        PROVE  IsFiniteSet(f[pt]) /\ \A ep \in f[pt] : IsFiniteSet(ep.ips)
    <3>1. /\ IsFiniteSet(grabNamedPort(ps, qs, pt.name))
          /\ \A ep \in grabNamedPort(ps, qs, pt.name) : IsFiniteSet(ep.ips)
      BY <1>4, FiniteNamedPorts, Zenon
    <3>2. f[pt] = grabNamedPort(ps, qs, pt.name)
      BY <2>2, Zenon
    <3> QED
      BY <3>1, <3>2, Zenon
  <2>4. IsFiniteSet(DOMAIN f)
    BY <1>12, <2>2, Zenon
  <2>5. IsFiniteSet(UNION Range(f))
    BY <2>2, <2>3, <2>4, FiniteUnion, Zenon
  <2>6. \A ep \in UNION Range(f) : IsFiniteSet(ep.ips)
    BY <2>3, Zenon DEF Range
  <2> QED
    BY <1>9, <2>2, <2>5, <2>6, Zenon
<1>16. RuleOK(info)
  BY <1>10, <1>11, <1>14, <1>15, Zenon DEF RuleOK
<1> QED
  BY <1>7, <1>16, Zenon

\* ------------------------------------------------ commands on the kernel

TableOK(t) ==
    /\ {FORWARD, OUTPUT} \subseteq DOMAIN t
    /\ IsFiniteSet(DOMAIN t)
    /\ \A ch \in DOMAIN t : IsSeq(t[ch])
    /\ \A ch \in DOMAIN t : ch \in {FORWARD, OUTPUT} \/ ch[1] \in {"KUBE-NWPLCY-", "KUBE-POD-FW-"}

\* What -N and -X are used for.
Tame(c) ==
    /\ c.op = "newchain" => c.on[1] \in {"KUBE-NWPLCY-", "KUBE-POD-FW-"}
    /\ c.op = "delchain" => c.on \notin {FORWARD, OUTPUT}

\* Put changes the value at one key and adds the key.
LEMMA PutDomain ==
  ASSUME NEW f, NEW k, NEW v
  PROVE  /\ DOMAIN Put(f, k, v) = DOMAIN f \cup {k}
         /\ Put(f, k, v)[k] = v
         /\ \A x \in DOMAIN f : x # k => Put(f, k, v)[x] = f[x]
BY Zenon DEF Put

\* Drop takes away one key.
LEMMA DropDomain ==
  ASSUME NEW f, NEW k
  PROVE  /\ DOMAIN Drop(f, k) = DOMAIN f \ {k}
         /\ \A x \in DOMAIN f : x # k => Drop(f, k)[x] = f[x]
BY Zenon DEF Drop

\* EXCEPT changes the value at one key.
LEMMA ExceptDomain ==
  ASSUME NEW f, NEW k, NEW v
  PROVE  /\ DOMAIN [f EXCEPT ![k] = v] = DOMAIN f
         /\ k \in DOMAIN f => [f EXCEPT ![k] = v][k] = v
         /\ \A x \in DOMAIN f : x # k => [f EXCEPT ![k] = v][x] = f[x]
OBVIOUS

\* A chain stays a list of rules when a rule is appended, inserted or deleted.
LEMMA SeqEdits ==
  ASSUME NEW l, IsSeq(l), NEW x
  PROVE  /\ IsSeq(Append(l, x)) /\ IsSeq(<<x>> \o l) /\ IsSeq(<<>>)
         /\ \A i \in DOMAIN l : IsSeq(Without(l, i))
<1>1. PICK C : C = Range(l) \cup {x}
  BY Zenon
<1>2. l \in Seq(C) /\ x \in C
  BY <1>1, Wider, Zenon
<1>3. Append(l, x) \in Seq(C) /\ <<x>> \o l \in Seq(C) /\ <<>> \in Seq(C)
  BY <1>2
<1>4. ASSUME NEW i \in DOMAIN l PROVE IsSeq(Without(l, i))
  <2>1. i \in Nat /\ 1 <= i /\ i <= Len(l) /\ Len(l) \in Nat
    BY <1>2
  <2>2. PICK y, z : y = SubSeq(l, 1, i - 1) /\ z = SubSeq(l, i + 1, Len(l))
    BY Zenon
  <2>3. y \in Seq(C) /\ z \in Seq(C)
    BY <1>2, <2>1, <2>2
  <2>4. y \o z \in Seq(C)
    BY <2>3
  <2>5. Without(l, i) = y \o z
    BY <2>2, Zenon DEF Without
  <2> QED
    BY <2>4, <2>5, OwnMembers, Zenon
<1> QED
  BY <1>3, <1>4, OwnMembers, Zenon

\* The chains change by -N and -X only.
LEMMA TableAfter ==
  ASSUME NEW t, NEW c, \A ch \in DOMAIN t : IsSeq(t[ch])
  PROVE  /\ DOMAIN ExecTable(t, c) =
               IF c.op = "newchain" THEN DOMAIN t \cup {c.on}
               ELSE IF c.op = "delchain" THEN DOMAIN t \ {c.on} ELSE DOMAIN t
         /\ \A ch \in DOMAIN ExecTable(t, c) : IsSeq(ExecTable(t, c)[ch])
<1>1. PICK u, op, on, arg : u = ExecTable(t, c) /\ op = c.op /\ on = c.on /\ arg = c.arg
  BY Zenon
<1>2. u = CASE op = "newchain" /\ on \notin DOMAIN t -> Put(t, on, <<>>)
            [] op = "append" /\ arg \notin Range(t[on]) -> [t EXCEPT ![on] = Append(@, arg)]
            [] op = "insert" /\ arg \notin Range(t[on]) -> [t EXCEPT ![on] = <<arg>> \o @]
            [] op = "delete" /\ arg \in DOMAIN t[on] -> [t EXCEPT ![on] = Without(@, arg)]
            [] op = "clear" -> [t EXCEPT ![on] = <<>>]
            [] op = "delchain" -> Drop(t, on)
            [] OTHER -> t
  BY <1>1, Zenon DEF ExecTable
<1>3. PICK D, E, G, R : /\ D = Append(t[on], arg) /\ E = <<arg>> \o t[on]
                        /\ G = Without(t[on], arg) /\ R = (arg \in Range(t[on]))
  BY Zenon
<1>4. \/ op = "newchain" /\ on \notin DOMAIN t /\ u = Put(t, on, <<>>)
      \/ op = "append" /\ u = [t EXCEPT ![on] = D]
      \/ op = "insert" /\ u = [t EXCEPT ![on] = E]
      \/ op = "delete" /\ arg \in DOMAIN t[on] /\ u = [t EXCEPT ![on] = G]
      \/ op = "clear" /\ u = [t EXCEPT ![on] = <<>>]
      \/ op = "delchain" /\ u = Drop(t, on)
      \/ op \notin {"newchain", "delchain"} /\ u = t
      \/ op = "newchain" /\ on \in DOMAIN t /\ u = t
  <2> HIDE DEF ExecTable
  <2> QED
    BY <1>2, <1>3
<1>5. IsSeq(<<>>)
  BY NoCommands, OwnMembers, Zenon
<1>6. CASE op = "newchain" /\ on \notin DOMAIN t /\ u = Put(t, on, <<>>)
  <2>1. DOMAIN u = DOMAIN t \cup {on} /\ u[on] = <<>> /\ \A x \in DOMAIN t : x # on => u[x] = t[x]
    BY <1>6 DEF Put
  <2>2. \A ch \in DOMAIN u : IsSeq(u[ch])
    BY <1>5, <2>1, Zenon
  <2> QED
    BY <1>1, <1>6, <2>1, <2>2, Zenon
<1>7. ASSUME NEW v, on \in DOMAIN t => IsSeq(v), u = [t EXCEPT ![on] = v]
      PROVE  DOMAIN u = DOMAIN t /\ \A ch \in DOMAIN u : IsSeq(u[ch])
  <2>1. /\ DOMAIN u = DOMAIN t /\ (on \in DOMAIN t => u[on] = v)
        /\ \A x \in DOMAIN t : x # on => u[x] = t[x]
    BY <1>7, ExceptDomain, Zenon
  <2> QED
    BY <1>7, <2>1, Zenon
<1>8. on \in DOMAIN t => IsSeq(D) /\ IsSeq(E) /\ (arg \in DOMAIN t[on] => IsSeq(G))
  BY <1>3, SeqEdits, Zenon
<1>9. "append" # "newchain" /\ "append" # "delchain" /\ "insert" # "newchain" /\ "insert" # "delchain"
      /\ "delete" # "newchain" /\ "delete" # "delchain" /\ "clear" # "newchain" /\ "clear" # "delchain"
      /\ "delchain" # "newchain"
  OBVIOUS
<1>10. CASE op = "append" /\ u = [t EXCEPT ![on] = D]
  BY <1>1, <1>7, <1>8, <1>9, <1>10, Zenon
<1>11. CASE op = "insert" /\ u = [t EXCEPT ![on] = E]
  BY <1>1, <1>7, <1>8, <1>9, <1>11, Zenon
<1>12. CASE op = "delete" /\ arg \in DOMAIN t[on] /\ u = [t EXCEPT ![on] = G]
  BY <1>1, <1>7, <1>8, <1>9, <1>12, Zenon
<1>13. CASE op = "clear" /\ u = [t EXCEPT ![on] = <<>>]
  BY <1>1, <1>5, <1>7, <1>9, <1>13, Zenon
<1>14. CASE op = "delchain" /\ u = Drop(t, on)
  <2>1. DOMAIN u = DOMAIN t \ {on} /\ \A x \in DOMAIN t : x # on => u[x] = t[x]
    BY <1>14, DropDomain, Zenon
  <2>2. \A ch \in DOMAIN u : IsSeq(u[ch])
    BY <2>1, Zenon
  <2> QED
    BY <1>1, <1>9, <1>14, <2>1, <2>2, Zenon
<1>15. CASE op \notin {"newchain", "delchain"} /\ u = t
  BY <1>1, <1>15, Zenon
<1>16. CASE op = "newchain" /\ on \in DOMAIN t /\ u = t
  <2>1. DOMAIN t = DOMAIN t \cup {on}
    BY <1>16, Zenon
  <2> QED
    BY <1>1, <1>16, <2>1, Zenon
<1> QED
  BY <1>4, <1>6, <1>10, <1>11, <1>12, <1>13, <1>14, <1>15, <1>16, Zenon

\* No command of a Sync leaves the filter table malformed.
LEMMA TableStays ==
  ASSUME NEW t, NEW c, TableOK(t), Tame(c)
  PROVE  TableOK(ExecTable(t, c))
<1>1. PICK u : u = ExecTable(t, c)
  BY Zenon
<1>2. /\ DOMAIN u = IF c.op = "newchain" THEN DOMAIN t \cup {c.on}
                    ELSE IF c.op = "delchain" THEN DOMAIN t \ {c.on} ELSE DOMAIN t
      /\ \A ch \in DOMAIN u : IsSeq(u[ch])
  BY <1>1, TableAfter, Zenon DEF TableOK
<1>3. IsFiniteSet(DOMAIN u)
  <2>1. IsFiniteSet(DOMAIN t)
    BY Zenon DEF TableOK
  <2>2. IsFiniteSet(DOMAIN t \cup {c.on})
    BY <2>1, FS_Singleton, FS_Union, Zenon
  <2>3. DOMAIN u \subseteq DOMAIN t \cup {c.on}
    BY <1>2, Zenon
  <2> QED
    BY <2>2, <2>3, FS_Subset, Zenon
<1>4. \A ch \in DOMAIN u : ch \in DOMAIN t \/ (c.op = "newchain" /\ ch = c.on)
  BY <1>2, Zenon
<1>5. \A ch \in DOMAIN t : ch \in DOMAIN u \/ (c.op = "delchain" /\ ch = c.on)
  BY <1>2, Zenon
<1>6. TableOK(u)
  BY <1>2, <1>3, <1>4, <1>5, Zenon DEF TableOK, Tame
<1> QED
  BY <1>1, <1>6, Zenon

\* The sets change by create and destroy only.
LEMMA SetsAfter ==
  ASSUME NEW S, NEW c
  PROVE  DOMAIN ExecSets(S, c) =
               IF c.op = "create" THEN DOMAIN S \cup {c.on}
               ELSE IF c.op = "destroy" THEN DOMAIN S \ {c.on} ELSE DOMAIN S
<1>1. PICK u, op, on, arg : u = ExecSets(S, c) /\ op = c.op /\ on = c.on /\ arg = c.arg
  BY Zenon
<1>2. PICK v, w : v = ipsetAdd(S, on, arg) /\ w = ipsetSwap(S, on, arg)
  BY Zenon
<1>3. DOMAIN v = DOMAIN S /\ DOMAIN w = DOMAIN S
  BY <1>2 DEF ipsetAdd, ipsetSwap
<1>4. u = CASE op = "create" -> ipsetCreate(S, on)
            [] op = "add" -> v
            [] op = "swap" -> w
            [] op = "destroy" -> ipsetDestroy(S, on)
            [] OTHER -> S
  BY <1>1, <1>2, Zenon DEF ExecSets
<1>5. \/ op = "create" /\ u = ipsetCreate(S, on)
      \/ op = "destroy" /\ u = ipsetDestroy(S, on)
      \/ op \notin {"create", "destroy"} /\ u \in {v, w, S}
  BY <1>4
<1>6. CASE op = "create" /\ u = ipsetCreate(S, on)
  <2>1. DOMAIN Put(S, on, {}) = DOMAIN S \cup {on}
    BY PutDomain, Zenon
  <2>2. DOMAIN u = DOMAIN S \cup {on}
    <3>1. CASE on \in DOMAIN S
      <4>1. u = S
        BY <1>6, <3>1, Zenon DEF ipsetCreate
      <4> QED
        BY <3>1, <4>1, Zenon
    <3>2. CASE on \notin DOMAIN S
      <4>1. u = Put(S, on, {})
        BY <1>6, <3>2, Zenon DEF ipsetCreate
      <4> QED
        BY <2>1, <4>1, Zenon
    <3> QED
      BY <3>1, <3>2, Zenon
  <2> QED
    BY <1>1, <1>6, <2>2, Zenon
<1>7. CASE op = "destroy" /\ u = ipsetDestroy(S, on)
  <2>1. op # "create"
    BY <1>7
  <2>2. DOMAIN Drop(S, on) = DOMAIN S \ {on}
    BY DropDomain, Zenon
  <2>3. DOMAIN u = DOMAIN S \ {on}
    BY <1>7, <2>2, Zenon DEF ipsetDestroy
  <2> QED
    BY <1>1, <1>7, <2>1, <2>3, Zenon
<1>8. CASE op \notin {"create", "destroy"} /\ u \in {v, w, S}
  BY <1>1, <1>3, <1>8, Zenon
<1> QED
  BY <1>5, <1>6, <1>7, <1>8, Zenon

\* --------------------------------------------- what is left of the commands

\* What is left of the commands of a part of Sync has their form, and what a failure
\* skips is the same.
LEMMA RestSteps ==
  ASSUME NEW m, NEW l, NEW n, NEW is, Part(m, l, n), n + Len(m) = Len(l), Steps(l, is)
  PROVE  Steps(m, is)
<1>1. IsSeq(m) /\ \A i \in DOMAIN m : n + i \in DOMAIN l /\ m[i] = l[n + i]
  BY PartPositions
<1>2. \A i \in DOMAIN m : Step(m[i], is) /\ Skips(l, n + i)
  BY <1>1, Zenon DEF Steps
<1>3. \A i \in DOMAIN m : m[i].skip \in Nat
  BY <1>2, Zenon DEF Step
<1>4. \A i \in DOMAIN m : Skips(m, i)
  BY <1>2, <1>3, SkipsStays, Zenon
<1> QED
  BY <1>1, <1>2, <1>4, Zenon DEF Steps

\* A position of the rest of a list, or one of the n before it.
LEMMA RestPosition ==
  ASSUME NEW m, NEW l, NEW n, Part(m, l, n), n + Len(m) = Len(l), NEW j \in DOMAIN l,
         NEW k \in DOMAIN m, j < n + k, \A i \in DOMAIN m : m[i].skip \in Nat
  PROVE  \/ j \in Nat /\ 1 <= j /\ j <= n
         \/ \E i \in DOMAIN m : i < k /\ m[i] = l[j] /\ (Same(l, j, n + k) => Same(m, i, k))
<1>1. /\ n \in Nat /\ k \in Nat /\ j \in Nat /\ Len(m) \in Nat /\ Len(l) \in Nat
      /\ DOMAIN m = 1 .. Len(m) /\ DOMAIN l = 1 .. Len(l)
      /\ \A i \in DOMAIN m : m[i] = l[n + i]
  BY PartPositions
<1>2. 1 <= j /\ j <= Len(l)
  BY <1>1
<1>3. CASE j <= n
  BY <1>1, <1>2, <1>3, Zenon
<1>4. CASE ~ (j <= n)
  <2>1. PICK i \in Nat : i = j - n
    BY <1>1, <1>4
  <2>2. i \in 1 .. Len(m) /\ i < k /\ j = n + i
    BY <1>1, <1>2, <1>4, <2>1
  <2>3. i \in DOMAIN m /\ m[i] = l[j]
    BY <1>1, <2>2, Zenon
  <2>4. Same(m, i, k) <=> Same(l, n + i, n + k)
    BY <2>3, SameMoves, Zenon
  <2> QED
    BY <2>2, <2>3, <2>4, Zenon
<1> QED
  BY <1>3, <1>4, Zenon

\* Among the first n commands: a Refresh creates its second set, or adds e,
\* and position k is in the same Refresh; the set s is created.
FirstCreate(l, n, k) ==
    \E j \in DOMAIN l : /\ j \in Nat /\ 1 <= j /\ j <= n /\ Same(l, j, k)
                        /\ l[j].op = "create" /\ l[j].skip # 0
FirstAdd(l, n, k, e) ==
    \E j \in DOMAIN l : /\ j \in Nat /\ 1 <= j /\ j <= n /\ Same(l, j, k)
                        /\ l[j].op = "add" /\ l[j].arg = e
FirstMake(l, n, s) ==
    \E j \in DOMAIN l : /\ j \in Nat /\ 1 <= j /\ j <= n /\ l[j].on = s
                        /\ l[j].op = "create" /\ l[j].skip = 0

\* What the whole list does before a position the rest does, or the first n do.
LEMMA RestFirst ==
  ASSUME NEW m, NEW l, NEW n, Part(m, l, n), n + Len(m) = Len(l), NEW k \in DOMAIN m,
         \A i \in DOMAIN m : m[i].skip \in Nat
  PROVE  /\ Creates(l, n + k) => Creates(m, k) \/ FirstCreate(l, n, n + k)
         /\ \A e : Adds(l, n + k, e) => Adds(m, k, e) \/ FirstAdd(l, n, n + k, e)
         /\ Makes(l, n + k) => Makes(m, k) \/ FirstMake(l, n, m[k].on)
<1>1. m[k] = l[n + k]
  BY PartPositions
<1>2. ASSUME NEW j \in DOMAIN l, j < n + k
      PROVE  \/ j \in Nat /\ 1 <= j /\ j <= n
             \/ \E i \in DOMAIN m : i < k /\ m[i] = l[j] /\ (Same(l, j, n + k) => Same(m, i, k))
  BY <1>2, RestPosition, Zenon
<1>3. ASSUME Creates(l, n + k), ~ Creates(m, k) PROVE FirstCreate(l, n, n + k)
  <2>1. PICK j \in DOMAIN l : /\ j < n + k /\ l[j].op = "create" /\ l[j].skip # 0
                              /\ Same(l, j, n + k)
    BY <1>3, Zenon DEF Creates
  <2> QED
    BY <1>2, <1>3, <2>1, Zenon DEF Creates, FirstCreate
<1>4. ASSUME NEW e, Adds(l, n + k, e), ~ Adds(m, k, e) PROVE FirstAdd(l, n, n + k, e)
  <2>1. PICK j \in DOMAIN l : /\ j < n + k /\ l[j].op = "add" /\ l[j].arg = e
                              /\ Same(l, j, n + k)
    BY <1>4, Zenon DEF Adds
  <2> QED
    BY <1>2, <1>4, <2>1, Zenon DEF Adds, FirstAdd
<1>5. ASSUME Makes(l, n + k), ~ Makes(m, k) PROVE FirstMake(l, n, m[k].on)
  <2>1. PICK j \in DOMAIN l : /\ j < n + k /\ l[j].op = "create" /\ l[j].skip = 0
                              /\ l[j].on = m[k].on
    BY <1>1, <1>5, Zenon DEF Makes
  <2> QED
    BY <1>2, <1>5, <2>1, Zenon DEF Makes, FirstMake
<1> QED
  BY <1>3, <1>4, <1>5, Zenon

\* The state of the Refreshes: S are the sets of the kernel, W is what is
\* wanted.  Only the first command of the list can be inside a Refresh whose
\* beginning is over.
Holds(S, s, e) == s \in DOMAIN S /\ e \in S[s]
Filled(l, k, is, S, W) ==
    /\ l[k].op \in {"add", "swap"} =>
          Creates(l, k) \/ (Same(l, 1, k) /\ TempName(SetOf(l[k])) \in DOMAIN S)
    /\ l[k].op = "swap" =>
          /\ \A e \in Content(is, l[k].on) :
                Adds(l, k, e) \/ (Same(l, 1, k) /\ Holds(S, TempName(l[k].on), e))
          /\ l[k].on \in DOMAIN S \/ Makes(l, k)
          /\ l[k].on \in DOMAIN W /\ W[l[k].on] \subseteq Content(is, l[k].on)
    /\ l[k].op = "create" /\ l[k].skip = 0 => l[k].on \in DOMAIN W
Filling(l, is, S, W) == Steps(l, is) /\ \A k \in DOMAIN l : Filled(l, k, is, S, W)

\* The commands of a Refresh are the ones that skip.
LEMMA InRefresh ==
  ASSUME NEW l, NEW is, Steps(l, is), NEW k \in DOMAIN l, l[k].op \in {"add", "swap", "destroy"}
  PROVE  /\ l[k].skip \in Nat /\ l[k].skip # 0 /\ Inside(l[k], is)
<1>1. Step(l[k], is)
  BY Zenon DEF Steps
<1>2. l[k].op \notin {"newchain", "create", "append"}
  OBVIOUS
<1>3. ~ Outside(l[k])
  BY <1>2, Zenon DEF Outside
<1> QED
  BY <1>1, <1>3, Zenon DEF Step

\* What follows the first command of a Refresh in the same Refresh.
LEMMA NextInRefresh ==
  ASSUME NEW m, NEW l, NEW is, Part(m, l, 1), 1 + Len(m) = Len(l), Steps(l, is),
         NEW k \in DOMAIN m, m[k].op \in {"add", "swap"}, Same(l, 1, 1 + k)
  PROVE  /\ Same(m, 1, k) /\ SetOf(m[k]) = SetOf(l[1]) /\ Later(l[1].op, m[k].op)
         /\ l[1].skip # 0
<1>1. /\ k \in Nat /\ Len(m) \in Nat /\ Len(l) \in Nat /\ IsSeq(l)
      /\ DOMAIN m = 1 .. Len(m) /\ DOMAIN l = 1 .. Len(l)
      /\ \A i \in DOMAIN m : 1 + i \in DOMAIN l /\ m[i] = l[1 + i]
  BY PartPositions
<1>2. 1 \in DOMAIN l /\ 1 \in DOMAIN m /\ 2 \in DOMAIN l /\ 1 + k \in DOMAIN l /\ m[k] = l[1 + k]
  BY <1>1
<1>3. l[1 + k].op \in {"add", "swap", "destroy"}
  BY <1>2
<1>4. l[1 + k].skip \in Nat /\ l[1 + k].skip # 0
  BY <1>2, <1>3, InRefresh, Zenon
<1>5. \A i \in DOMAIN l : l[i].skip \in Nat /\ Skips(l, i)
  BY Zenon DEF Steps, Step
<1>6. PICK x \in Nat, y \in Nat, z \in Nat : x = l[1].skip /\ y = l[1 + k].skip /\ z = l[2].skip
  BY <1>2, <1>5, Zenon
<1>7. 1 + x = (1 + k) + y
  BY <1>6, Zenon DEF Same
<1>8. y # 0
  BY <1>4, <1>6, Zenon
<1>9. x # 0 /\ 1 <= 1 + k /\ 1 + k < 1 + x /\ 1 <= 2 /\ 2 < 1 + x /\ 1 + k # 1
  BY <1>1, <1>7, <1>8
<1>10. \A i \in DOMAIN l : 1 <= i /\ i < 1 + x =>
          Same(l, i, 1) /\ SetOf(l[i]) = SetOf(l[1]) /\ (i # 1 => Later(l[1].op, l[i].op))
  <2>1. Skips(l, 1)
    BY <1>2, <1>5, Zenon
  <2> QED
    BY <1>6, <1>9, <2>1, Zenon DEF Skips
<1>11. SetOf(m[k]) = SetOf(l[1]) /\ Later(l[1].op, m[k].op)
  BY <1>2, <1>9, <1>10, Zenon
<1>12. Same(l, 2, 1)
  BY <1>2, <1>9, <1>10, Zenon
<1>13. 2 + z = 1 + x
  BY <1>6, <1>12, Zenon DEF Same
<1>14. 2 + z = (1 + k) + y
  BY <1>7, <1>13, Zenon
<1>15. Same(l, 1 + 1, 1 + k)
  <2>1. 1 + 1 = 2
    OBVIOUS
  <2> QED
    BY <1>6, <1>14, <2>1, Zenon DEF Same
<1>16. m[1].skip \in Nat /\ m[k].skip \in Nat
  BY <1>1, <1>2, <1>5
<1>17. Same(m, 1, k)
  BY <1>2, <1>15, <1>16, SameMoves, Zenon
<1> QED
  BY <1>6, <1>9, <1>11, <1>17, Zenon

\* create and add take no entry out of a set, and add puts its entry there.
LEMMA HoldsAfter ==
  ASSUME NEW S, NEW c, c.op \in {"create", "add"}
  PROVE  /\ \A s, e : Holds(S, s, e) => Holds(ExecSets(S, c), s, e)
         /\ c.op = "add" /\ c.on \in DOMAIN S => Holds(ExecSets(S, c), c.on, c.arg)
<1>1. CASE c.op = "create"
  <2>1. ExecSets(S, c) = ipsetCreate(S, c.on)
    BY <1>1 DEF ExecSets
  <2>2. CASE c.on \in DOMAIN S
    <3>1. ExecSets(S, c) = S
      BY <2>1, <2>2, Zenon DEF ipsetCreate
    <3>2. c.op # "add"
      BY <1>1
    <3> QED
      BY <3>1, <3>2, Zenon
  <2>3. CASE c.on \notin DOMAIN S
    <3>1. ExecSets(S, c) = Put(S, c.on, {})
      BY <2>1, <2>3, Zenon DEF ipsetCreate
    <3>2. /\ DOMAIN Put(S, c.on, {}) = DOMAIN S \cup {c.on}
          /\ \A x \in DOMAIN S : x # c.on => Put(S, c.on, {})[x] = S[x]
      BY Zenon DEF Put
    <3>3. c.op # "add"
      BY <1>1
    <3>4. \A s, e : Holds(S, s, e) => Holds(Put(S, c.on, {}), s, e)
      BY <2>3, <3>2, Zenon DEF Holds
    <3> QED
      BY <3>1, <3>3, <3>4, Zenon
  <2> QED
    BY <2>2, <2>3, Zenon
<1>2. CASE c.op = "add"
  <2>1. ExecSets(S, c) = ipsetAdd(S, c.on, c.arg)
    BY <1>2 DEF ExecSets
  <2>2. PICK on, v, T : on = c.on /\ v = S[on] \cup {c.arg} /\ T = ExecSets(S, c)
    BY Zenon
  <2>3. T = [S EXCEPT ![on] = v]
    BY <2>1, <2>2, Zenon DEF ipsetAdd
  <2>4. /\ DOMAIN T = DOMAIN S /\ (on \in DOMAIN S => T[on] = v)
        /\ \A x \in DOMAIN S : x # on => T[x] = S[x]
    BY <2>3, ExceptDomain, Zenon
  <2>5. \A s, e : Holds(S, s, e) => Holds(T, s, e)
    BY <2>2, <2>4, Zenon DEF Holds
  <2>6. on \in DOMAIN S => Holds(T, on, c.arg)
    BY <2>2, <2>4, Zenon DEF Holds
  <2> QED
    BY <2>2, <2>5, <2>6, Zenon
<1> QED
  BY <1>1, <1>2, Zenon

\* A command of a Refresh keeps the Refreshes in order.
LEMMA FillingAfter ==
  ASSUME NEW l, NEW is, NEW S, NEW W, l # <<>>, Filling(l, is, S, W)
  PROVE  Filling(Tail(l), is, ExecSets(S, Head(l)), W)
<1>1. Steps(l, is) /\ IsSeq(l) /\ \A k \in DOMAIN l : Filled(l, k, is, S, W)
  BY Zenon DEF Filling, Steps
<1>2. PICK m, c, T : m = Tail(l) /\ c = l[1] /\ T = ExecSets(S, c)
  BY Zenon
<1>3. Part(m, l, 1) /\ Len(m) + 1 = Len(l) /\ Head(l) = c /\ 1 \in DOMAIN l
  BY <1>1, <1>2, TailPart, Zenon
<1>4. /\ IsSeq(m) /\ Len(m) \in Nat /\ Len(l) \in Nat /\ DOMAIN l = 1 .. Len(l)
      /\ \A i \in DOMAIN m : 1 + i \in DOMAIN l /\ m[i] = l[1 + i]
      /\ \A i \in DOMAIN m : i \in Nat
      /\ \A i \in DOMAIN l : i \in Nat
  BY <1>3, PartPositions
<1>5. 1 + Len(m) = Len(l)
  BY <1>3, <1>4
<1>6. Steps(m, is)
  BY <1>1, <1>3, <1>5, RestSteps, Zenon
<1>7. \A i \in DOMAIN m : m[i].skip \in Nat
  BY <1>6, Zenon DEF Steps, Step
<1>8. Step(c, is) /\ Filled(l, 1, is, S, W)
  BY <1>1, <1>2, <1>3, Zenon DEF Steps
<1>9. \A j \in DOMAIN l : j \in Nat /\ 1 <= j /\ j <= 1 => j = 1
  BY <1>4
<1>10. \A j \in DOMAIN l : ~ (j < 1)
  BY <1>4
<1>11. c.skip # 0 => SecondSet(c) = TempName(SetOf(c))
  BY <1>8, Zenon DEF Step, Inside
<1>12. c.op \in {"create", "add"} /\ c.skip # 0 => c.on = TempName(SetOf(c))
  <2>1. c.op \in {"create", "add"} => c.op # "swap"
    OBVIOUS
  <2> QED
    BY <1>11, <2>1, Zenon DEF SecondSet
<1>13. c.op = "add" => TempName(SetOf(c)) \in DOMAIN S
  BY <1>2, <1>8, <1>10, Zenon DEF Filled, Creates
<1>14. DOMAIN T = IF c.op = "create" THEN DOMAIN S \cup {c.on}
                  ELSE IF c.op = "destroy" THEN DOMAIN S \ {c.on} ELSE DOMAIN S
  BY <1>2, SetsAfter, Zenon
<1>15. c.op \in {"create", "add"} => DOMAIN S \subseteq DOMAIN T
  <2>1. c.op \in {"create", "add"} => c.op # "destroy"
    OBVIOUS
  <2> QED
    BY <1>14, <2>1, Zenon
<1>16. ASSUME NEW k \in DOMAIN m PROVE Filled(m, k, is, T, W)
  <2>1. 1 + k \in DOMAIN l /\ m[k] = l[1 + k]
    BY <1>4, Zenon
  <2>2. Filled(l, 1 + k, is, S, W)
    BY <1>1, <2>1, Zenon
  <2>3. /\ Creates(l, 1 + k) => Creates(m, k) \/ (Same(l, 1, 1 + k) /\ c.op = "create" /\ c.skip # 0)
        /\ \A e : Adds(l, 1 + k, e) =>
               Adds(m, k, e) \/ (Same(l, 1, 1 + k) /\ c.op = "add" /\ c.arg = e)
        /\ Makes(l, 1 + k) => Makes(m, k) \/ (c.op = "create" /\ c.on = m[k].on)
    <3>1. /\ Creates(l, 1 + k) => Creates(m, k) \/ FirstCreate(l, 1, 1 + k)
          /\ \A e : Adds(l, 1 + k, e) => Adds(m, k, e) \/ FirstAdd(l, 1, 1 + k, e)
          /\ Makes(l, 1 + k) => Makes(m, k) \/ FirstMake(l, 1, m[k].on)
      BY <1>3, <1>5, <1>7, RestFirst, Zenon
    <3>2. Creates(l, 1 + k) => Creates(m, k) \/ (Same(l, 1, 1 + k) /\ c.op = "create" /\ c.skip # 0)
      BY <1>2, <1>9, <3>1, Zenon DEF FirstCreate
    <3>3. \A e : Adds(l, 1 + k, e) =>
               Adds(m, k, e) \/ (Same(l, 1, 1 + k) /\ c.op = "add" /\ c.arg = e)
      BY <1>2, <1>9, <3>1, Zenon DEF FirstAdd
    <3>4. Makes(l, 1 + k) => Makes(m, k) \/ (c.op = "create" /\ c.on = m[k].on)
      BY <1>2, <1>9, <3>1, Zenon DEF FirstMake
    <3> QED
      BY <3>2, <3>3, <3>4, Zenon
  <2>4. m[k].op \in {"add", "swap"} /\ Same(l, 1, 1 + k) =>
           /\ Same(m, 1, k) /\ SetOf(m[k]) = SetOf(c) /\ c.op \in {"create", "add"}
           /\ c.skip # 0
    <3>1. SUFFICES ASSUME m[k].op \in {"add", "swap"}, Same(l, 1, 1 + k)
                   PROVE  /\ Same(m, 1, k) /\ SetOf(m[k]) = SetOf(c) /\ c.op \in {"create", "add"}
                          /\ c.skip # 0
      BY Zenon
    <3>2. /\ Same(m, 1, k) /\ SetOf(m[k]) = SetOf(l[1]) /\ Later(l[1].op, m[k].op)
          /\ l[1].skip # 0
      BY <1>1, <1>3, <1>5, <3>1, NextInRefresh, Zenon
    <3>3. m[k].op # "destroy"
      BY <3>1
    <3> QED
      BY <1>2, <3>2, <3>3, Zenon DEF Later
  <2>5. ASSUME m[k].op \in {"add", "swap"}
        PROVE  Creates(m, k) \/ (Same(m, 1, k) /\ TempName(SetOf(m[k])) \in DOMAIN T)
    <3>1. Creates(l, 1 + k) \/ (Same(l, 1, 1 + k) /\ TempName(SetOf(m[k])) \in DOMAIN S)
      BY <2>1, <2>2, <2>5, Zenon DEF Filled
    <3>2. CASE Creates(m, k)
      BY <3>2, Zenon
    <3>3. CASE Same(l, 1, 1 + k) /\ c.op = "create" /\ c.skip # 0
      <4>1. c.on = TempName(SetOf(m[k])) /\ Same(m, 1, k)
        BY <1>12, <2>4, <2>5, <3>3, Zenon
      <4>2. c.on \in DOMAIN T
        BY <1>14, <3>3, Zenon
      <4> QED
        BY <4>1, <4>2, Zenon
    <3>4. CASE Same(l, 1, 1 + k) /\ TempName(SetOf(m[k])) \in DOMAIN S
      BY <1>15, <2>4, <2>5, <3>4, Zenon
    <3> QED
      BY <2>3, <3>1, <3>2, <3>3, <3>4, Zenon
  <2>6. ASSUME m[k].op = "swap"
        PROVE  /\ \A e \in Content(is, m[k].on) :
                     Adds(m, k, e) \/ (Same(m, 1, k) /\ Holds(T, TempName(m[k].on), e))
               /\ m[k].on \in DOMAIN T \/ Makes(m, k)
               /\ m[k].on \in DOMAIN W /\ W[m[k].on] \subseteq Content(is, m[k].on)
    <3>1. /\ \A e \in Content(is, m[k].on) :
                \/ Adds(l, 1 + k, e)
                \/ Same(l, 1, 1 + k) /\ Holds(S, TempName(m[k].on), e)
          /\ m[k].on \in DOMAIN S \/ Makes(l, 1 + k)
          /\ m[k].on \in DOMAIN W /\ W[m[k].on] \subseteq Content(is, m[k].on)
      BY <2>1, <2>2, <2>6, Zenon DEF Filled
    <3>2. SetOf(m[k]) = m[k].on
      BY <2>6, Zenon DEF SetOf
    <3>3. ASSUME NEW e \in Content(is, m[k].on)
          PROVE  Adds(m, k, e) \/ (Same(m, 1, k) /\ Holds(T, TempName(m[k].on), e))
      <4>1. CASE Adds(m, k, e)
        BY <4>1, Zenon
      <4>2. CASE Same(l, 1, 1 + k) /\ c.op = "add" /\ c.arg = e
        <5>1. Same(m, 1, k) /\ c.on = TempName(m[k].on) /\ TempName(m[k].on) \in DOMAIN S
          BY <1>12, <1>13, <2>4, <2>6, <3>2, <4>2, Zenon
        <5>2. Holds(ExecSets(S, c), c.on, c.arg)
          <6>1. c.op \in {"create", "add"} /\ c.on \in DOMAIN S
            BY <4>2, <5>1, Zenon
          <6> QED
            BY <4>2, <6>1, HoldsAfter
        <5> QED
          BY <1>2, <4>2, <5>1, <5>2, Zenon
      <4>3. CASE Same(l, 1, 1 + k) /\ Holds(S, TempName(m[k].on), e)
        <5>1. Same(m, 1, k) /\ c.op \in {"create", "add"}
          BY <2>4, <2>6, <4>3, Zenon
        <5>2. Holds(ExecSets(S, c), TempName(m[k].on), e)
          BY <4>3, <5>1, HoldsAfter
        <5> QED
          BY <1>2, <5>1, <5>2, Zenon
      <4> QED
        BY <2>3, <3>1, <4>1, <4>2, <4>3, Zenon
    <3>4. m[k].on \in DOMAIN T \/ Makes(m, k)
      <4>1. CASE c.op = "create" /\ c.on = m[k].on
        BY <1>14, <4>1, Zenon
      <4>2. CASE m[k].on \in DOMAIN S
        <5>1. CASE c.op = "destroy"
          <6>1. Inside(c, is)
            BY <1>1, <1>2, <1>3, <5>1, InRefresh, Zenon
          <6>2. c.op # "swap"
            BY <5>1
          <6>3. c.on = TempName(SetOf(c))
            BY <6>1, <6>2, Zenon DEF Inside, SecondSet
          <6>4. c.on[1] = "temp"
            BY <6>3 DEF TempName
          <6>5. Inside(l[1 + k], is)
            BY <1>1, <2>1, <2>6, InRefresh, Zenon
          <6>6. m[k].on[1] = "set"
            BY <2>1, <3>2, <6>5, Zenon DEF Inside
          <6>7. m[k].on # c.on
            <7>1. "set" # "temp"
              OBVIOUS
            <7> QED
              BY <6>4, <6>6, <7>1, Zenon
          <6>8. c.op # "create"
            BY <5>1
          <6> QED
            BY <1>14, <4>2, <5>1, <6>7, <6>8, Zenon
        <5>2. CASE c.op # "destroy"
          BY <1>14, <4>2, <5>2, Zenon
        <5> QED
          BY <5>1, <5>2, Zenon
      <4> QED
        BY <2>3, <3>1, <4>1, <4>2, Zenon
    <3> QED
      BY <3>1, <3>3, <3>4, Zenon
  <2>7. m[k].op = "create" /\ m[k].skip = 0 => m[k].on \in DOMAIN W
    BY <2>1, <2>2, Zenon DEF Filled
  <2> QED
    BY <2>5, <2>6, <2>7, Zenon DEF Filled
<1>17. Filling(m, is, T, W)
  BY <1>6, <1>16, Zenon DEF Filling
<1> QED
  BY <1>2, <1>3, <1>17, Zenon

\* The commands that a failing command of a Refresh skips, itself included,
\* are all inside that Refresh.
LEMMA Skipped ==
  ASSUME NEW l, NEW is, Steps(l, is), l # <<>>, l[1].skip # 0,
         NEW j \in DOMAIN l, 1 <= j, j <= l[1].skip
  PROVE  Same(l, j, 1) /\ l[j].skip \in Nat /\ l[j].skip # 0 /\ Inside(l[j], is)
<1>1. IsSeq(l)
  BY Zenon DEF Steps
<1>2. 1 \in DOMAIN l
  BY <1>1, TailPart, Zenon
<1>3. j \in Nat
  BY <1>1, Positions
<1>4. Step(l[1], is) /\ Skips(l, 1) /\ Step(l[j], is)
  BY <1>2, Zenon DEF Steps
<1>5. PICK n \in Nat, y \in Nat : n = l[1].skip /\ y = l[j].skip
  BY <1>4, Zenon DEF Step
<1>6. j < 1 + n
  BY <1>3, <1>5
<1>7. Same(l, j, 1)
  BY <1>4, <1>5, <1>6, Zenon DEF Skips
<1>8. j + y = 1 + n
  BY <1>5, <1>7, Zenon DEF Same
<1>9. y # 0
  BY <1>3, <1>6, <1>8
<1> QED
  BY <1>4, <1>5, <1>7, <1>9, Zenon DEF Step

\* What is left when a command of a Refresh fails keeps the Refreshes in order.
LEMMA FillingSkips ==
  ASSUME NEW l, NEW is, NEW S, NEW W, l # <<>>, Filling(l, is, S, W), l[1].skip # 0
  PROVE  Filling(SubSeq(l, l[1].skip + 1, Len(l)), is, S, W)
<1>1. Steps(l, is) /\ IsSeq(l) /\ \A k \in DOMAIN l : Filled(l, k, is, S, W)
  BY Zenon DEF Filling, Steps
<1>2. 1 \in DOMAIN l
  BY <1>1, TailPart, Zenon
<1>3. Step(l[1], is) /\ Skips(l, 1)
  BY <1>1, <1>2, Zenon DEF Steps
<1>4. PICK n \in Nat : n = l[1].skip
  BY <1>3, Zenon DEF Step
<1>5. 1 + n <= Len(l) + 1 /\ Len(l) \in Nat
  BY <1>1, <1>3, <1>4, Positions, Zenon DEF Skips
<1>6. n <= Len(l)
  BY <1>5
<1>7. PICK m : m = SubSeq(l, n + 1, Len(l))
  BY Zenon
<1>8. Part(m, l, n) /\ Len(m) + n = Len(l)
  BY <1>1, <1>6, <1>7, RestPart, Zenon
<1>9. /\ IsSeq(m) /\ Len(m) \in Nat /\ DOMAIN l = 1 .. Len(l) /\ DOMAIN m = 1 .. Len(m)
      /\ \A i \in DOMAIN m : n + i \in DOMAIN l /\ m[i] = l[n + i]
      /\ \A i \in DOMAIN m : i \in Nat
  BY <1>8, PartPositions
<1>10. n + Len(m) = Len(l)
  BY <1>5, <1>8, <1>9
<1>11. Steps(m, is)
  BY <1>1, <1>8, <1>10, RestSteps, Zenon
<1>12. \A i \in DOMAIN m : m[i].skip \in Nat
  BY <1>11, Zenon DEF Steps, Step
<1>13. \A j \in DOMAIN l : 1 <= j /\ j <= n => Same(l, j, 1) /\ l[j].skip # 0
  BY <1>1, <1>4, Skipped, Zenon
<1>14. ASSUME NEW k \in DOMAIN m PROVE Filled(m, k, is, S, W)
  <2>1. n + k \in DOMAIN l /\ m[k] = l[n + k] /\ k \in Nat /\ 1 <= k
    BY <1>9
  <2>2. Filled(l, n + k, is, S, W)
    BY <1>1, <2>1, Zenon
  <2>3. /\ Creates(l, n + k) => Creates(m, k) \/ FirstCreate(l, n, n + k)
        /\ \A e : Adds(l, n + k, e) => Adds(m, k, e) \/ FirstAdd(l, n, n + k, e)
        /\ Makes(l, n + k) => Makes(m, k) \/ FirstMake(l, n, m[k].on)
    BY <1>8, <1>10, <1>12, RestFirst, Zenon
  <2>4. m[k].op \in {"add", "swap"} => ~ Same(l, 1, n + k)
    <3>1. SUFFICES ASSUME m[k].op \in {"add", "swap"}, Same(l, 1, n + k) PROVE FALSE
      BY Zenon
    <3>2. l[n + k].op \in {"add", "swap", "destroy"}
      BY <2>1, <3>1, Zenon
    <3>3. l[n + k].skip \in Nat /\ l[n + k].skip # 0
      BY <1>1, <2>1, <3>2, InRefresh, Zenon
    <3>4. PICK y \in Nat : y = l[n + k].skip
      BY <3>3, Zenon
    <3>5. 1 + n = (n + k) + y
      BY <1>4, <3>1, <3>4, Zenon DEF Same
    <3>6. y # 0
      BY <3>3, <3>4, Zenon
    <3> QED
      BY <2>1, <3>5, <3>6
  <2>5. m[k].op \in {"add", "swap"} =>
           \A j \in DOMAIN l : 1 <= j /\ j <= n => ~ Same(l, j, n + k)
    <3>1. \A j \in DOMAIN l : Same(l, j, 1) /\ Same(l, j, n + k) => Same(l, 1, n + k)
      BY Zenon DEF Same
    <3> QED
      BY <1>13, <2>4, <3>1, Zenon
  <2>6. m[k].op \in {"add", "swap"} => Creates(m, k)
    <3>1. m[k].op \in {"add", "swap"} => Creates(l, n + k)
      BY <2>1, <2>2, <2>4, Zenon DEF Filled
    <3> QED
      BY <2>3, <2>5, <3>1, Zenon DEF FirstCreate
  <2>7. ASSUME m[k].op = "swap"
        PROVE  /\ \A e \in Content(is, m[k].on) : Adds(m, k, e)
               /\ m[k].on \in DOMAIN S \/ Makes(m, k)
               /\ m[k].on \in DOMAIN W /\ W[m[k].on] \subseteq Content(is, m[k].on)
    <3>1. /\ \A e \in Content(is, m[k].on) :
                Adds(l, n + k, e) \/ (Same(l, 1, n + k) /\ Holds(S, TempName(m[k].on), e))
          /\ m[k].on \in DOMAIN S \/ Makes(l, n + k)
          /\ m[k].on \in DOMAIN W /\ W[m[k].on] \subseteq Content(is, m[k].on)
      BY <2>1, <2>2, <2>7, Zenon DEF Filled
    <3>2. \A e \in Content(is, m[k].on) : Adds(l, n + k, e)
      BY <2>4, <2>7, <3>1, Zenon
    <3>3. \A e \in Content(is, m[k].on) : Adds(m, k, e)
      BY <2>3, <2>5, <2>7, <3>2, Zenon DEF FirstAdd
    <3>4. Makes(l, n + k) => Makes(m, k)
      BY <1>13, <2>3, Zenon DEF FirstMake
    <3> QED
      BY <3>1, <3>3, <3>4, Zenon
  <2>8. m[k].op = "create" /\ m[k].skip = 0 => m[k].on \in DOMAIN W
    BY <2>1, <2>2, Zenon DEF Filled
  <2> QED
    BY <2>6, <2>7, <2>8, Zenon DEF Filled
<1>15. Filling(m, is, S, W)
  BY <1>11, <1>14, Zenon DEF Filling
<1> QED
  BY <1>4, <1>7, <1>15, Zenon

\* What a list gives, its first command or the rest of it gives.
LEMMA GivesTail ==
  ASSUME NEW l, IsSeq(l), l # <<>>, NEW op, NEW x, Gives(l, op, x)
  PROVE  Gives(Tail(l), op, x) \/ (Head(l).op = op /\ Head(l).on = x)
<1>1. Part(Tail(l), l, 1) /\ Len(Tail(l)) + 1 = Len(l) /\ Head(l) = l[1]
  BY TailPart, Zenon
<1>2. PICK m : m = Tail(l)
  BY Zenon
<1>3. /\ Len(m) \in Nat /\ Len(l) \in Nat /\ DOMAIN l = 1 .. Len(l) /\ DOMAIN m = 1 .. Len(m)
      /\ \A i \in DOMAIN m : m[i] = l[1 + i]
  BY <1>1, <1>2, PartPositions
<1>4. PICK k \in DOMAIN l : l[k].op = op /\ l[k].on = x
  BY Zenon DEF Gives, Range
<1>5. CASE k = 1
  BY <1>1, <1>4, <1>5, Zenon
<1>6. CASE k # 1
  <2>1. PICK i \in Nat : i = k - 1
    BY <1>3, <1>6
  <2>2. k = 1 + i /\ i \in 1 .. Len(m)
    BY <1>1, <1>2, <1>3, <1>6, <2>1
  <2>3. i \in DOMAIN m /\ m[i] = l[k]
    BY <1>3, <2>2, Zenon
  <2>4. Gives(m, op, x)
    BY <1>4, <2>3, Zenon DEF Gives, Range
  <2> QED
    BY <1>2, <2>4, Zenon
<1> QED
  BY <1>5, <1>6, Zenon

\* The new chains and sets are not part of a Refresh: a failure inside one
\* does not skip them.
LEMMA GivesSkips ==
  ASSUME NEW l, NEW is, Steps(l, is), l # <<>>, l[1].skip # 0, NEW op, NEW x, Gives(l, op, x),
         op = "newchain" \/ (op = "create" /\ x[1] = "set")
  PROVE  Gives(SubSeq(l, l[1].skip + 1, Len(l)), op, x)
<1>1. IsSeq(l)
  BY Zenon DEF Steps
<1>2. 1 \in DOMAIN l
  BY <1>1, TailPart, Zenon
<1>3. Step(l[1], is) /\ Skips(l, 1)
  BY <1>2, Zenon DEF Steps
<1>4. PICK n \in Nat : n = l[1].skip
  BY <1>3, Zenon DEF Step
<1>5. 1 + n <= Len(l) + 1 /\ Len(l) \in Nat
  BY <1>1, <1>3, <1>4, Positions, Zenon DEF Skips
<1>6. n <= Len(l)
  BY <1>5
<1>7. PICK m : m = SubSeq(l, n + 1, Len(l))
  BY Zenon
<1>8. Part(m, l, n) /\ Len(m) + n = Len(l)
  BY <1>1, <1>6, <1>7, RestPart, Zenon
<1>9. /\ Len(m) \in Nat /\ DOMAIN l = 1 .. Len(l) /\ DOMAIN m = 1 .. Len(m)
      /\ \A i \in DOMAIN m : m[i] = l[n + i]
  BY <1>8, PartPositions
<1>10. PICK k \in DOMAIN l : l[k].op = op /\ l[k].on = x
  BY Zenon DEF Gives, Range
<1>11. k \in Nat /\ 1 <= k /\ k <= Len(l)
  BY <1>9
<1>12. CASE k <= n
  <2>1. Inside(l[k], is)
    BY <1>4, <1>11, <1>12, Skipped, Zenon
  <2>2. op # "newchain"
    <3>1. l[k].op \in {"create", "add", "swap", "destroy"}
      BY <2>1, Zenon DEF Inside
    <3> QED
      BY <1>10, <3>1
  <2>3. op = "create" /\ x[1] = "set"
    BY <2>2, Zenon
  <2>4. l[k].op # "swap"
    BY <1>10, <2>3
  <2>5. x = TempName(SetOf(l[k]))
    BY <1>10, <2>1, <2>4, Zenon DEF Inside, SecondSet
  <2>6. x[1] = "temp"
    BY <2>5 DEF TempName
  <2> QED
    BY <2>3, <2>6
<1>13. CASE ~ (k <= n)
  <2>1. PICK i \in Nat : i = k - n
    BY <1>11, <1>13
  <2>2. k = n + i /\ i \in 1 .. Len(m)
    BY <1>8, <1>9, <1>5, <1>11, <1>13, <2>1
  <2>3. i \in DOMAIN m /\ m[i] = l[k]
    BY <1>9, <2>2, Zenon
  <2>4. Gives(m, op, x)
    BY <1>10, <2>3, Zenon DEF Gives, Range
  <2> QED
    BY <1>4, <1>7, <2>4, Zenon
<1> QED
  BY <1>12, <1>13, Zenon

=============================================================================
