------------------------ MODULE LibraryCleanup_groups -----------------------
(***************************************************************************)
(* The duplicate groups, for any folder, pictures and number of calls that *)
(* overlap: what _form_duplicate_groups computes, and what the table it    *)
(* fills says while files are moved, deleted, saved and scanned again.     *)
(***************************************************************************)
EXTENDS LibraryCleanup_proofs, SequenceTheorems, WellFoundedInduction

-----------------------------------------------------------------------------
(* What _form_duplicate_groups makes of a list of files.  The recursive     *)
(* function of Clusters is taken apart with the least number for which a    *)
(* claim about it could fail.                                               *)

LEMMA LeastNumber ==
    ASSUME NEW T \in SUBSET Nat, T # {}
    PROVE  \E m \in T : \A k \in T : m <= k
<1>1. PICK m \in T : \A k \in T : <<k, m>> \notin OpToRel(<, Nat)
  BY NatLessThanWellFounded, WFMin
<1>2. \A k \in T : ~(k < m)
  BY <1>1 DEF OpToRel
<1> QED
  BY <1>2

LEMMA MinIs ==
    ASSUME NEW T \in SUBSET Nat, T # {}
    PROVE  Min(T) \in T /\ \A k \in T : Min(T) <= k
BY LeastNumber DEF Min

LEMMA MaxIs ==
    ASSUME NEW n \in Nat, NEW T \in SUBSET (0..n), T # {}
    PROVE  Max(T) \in T /\ \A k \in T : k <= Max(T)
<1> DEFINE U == {m \in Nat : \A k \in T : k <= m}
<1>1. U \in SUBSET Nat /\ n \in U
  OBVIOUS
<1>2. PICK m \in U : \A k \in U : m <= k
  BY <1>1, LeastNumber
<1>3. m \in T
  <2> SUFFICES ASSUME m \notin T PROVE FALSE
    OBVIOUS
  <2>1. PICK k \in T : TRUE
    OBVIOUS
  <2>2. m > 0
    BY <1>2, <2>1
  <2>3. m - 1 \in U
    BY <1>2, <2>2
  <2> QED
    BY <1>2, <2>3
<1>4. \E x \in T : \A y \in T : x >= y
  BY <1>2, <1>3
<1> QED
  BY <1>4 DEF Max

LEMMA TwoAreMany ==
    ASSUME NEW S, IsFiniteSet(S), NEW p \in S, NEW q \in S, p # q
    PROVE  Large(S)
<1> DEFINE T == {p}  U == {p} \union {q}
<1>1. IsFiniteSet(T) /\ Cardinality(T) = 1 /\ q \notin T
  BY FS_Singleton
<1> HIDE DEF T
<1>2. IsFiniteSet(T \union {q}) /\ Cardinality(T \union {q}) = 2
  BY <1>1, FS_AddElement
<1>3. IsFiniteSet(U) /\ Cardinality(U) = 2 /\ U \subseteq S
  BY <1>2 DEF T
<1> HIDE DEF U
<1>4. Cardinality(U) <= Cardinality(S) /\ Cardinality(S) \in Nat
  BY <1>3, FS_Subset, FS_CardinalityType
<1> QED
  BY <1>3, <1>4 DEF Large

\* The groups of one content.
LEMMA SameHashParts ==
    ASSUME NEW files
    PROVE  /\ \A G \in SameHash(files) :
                /\ G \subseteq DOMAIN files /\ Large(G)
                /\ \A i, j \in G : Hash[files[i]] = Hash[files[j]]
           /\ \A G, H \in SameHash(files) : G # H => G \cap H = {}
           /\ IsFiniteSet(DOMAIN files) => \A i, j \in DOMAIN files :
                i # j /\ Hash[files[i]] = Hash[files[j]] =>
                    \E G \in SameHash(files) : i \in G /\ j \in G
<1> DEFINE Twins(i) == {j \in DOMAIN files : Hash[files[j]] = Hash[files[i]]}
<1>1. SameHash(files) = {G \in {Twins(i) : i \in DOMAIN files} : Large(G)}
  BY DEF SameHash
<1>2. \A i, j \in DOMAIN files : Twins(i) # Twins(j) => Twins(i) \cap Twins(j) = {}
  OBVIOUS
<1>3. ASSUME IsFiniteSet(DOMAIN files), NEW i \in DOMAIN files, NEW j \in DOMAIN files,
             i # j, Hash[files[i]] = Hash[files[j]]
      PROVE  \E G \in SameHash(files) : i \in G /\ j \in G
  <2>1. i \in Twins(i) /\ j \in Twins(i) /\ Twins(i) \subseteq DOMAIN files
    BY <1>3
  <2>2. IsFiniteSet(Twins(i))
    BY <1>3, <2>1, FS_Subset
  <2>3. Large(Twins(i))
    BY <1>3, <2>1, <2>2, TwoAreMany
  <2> QED
    BY <1>1, <2>1, <2>3
<1> QED
  BY <1>1, <1>2, <1>3

Candidates(files) == {i \in DOMAIN files \ UNION SameHash(files) :
                        Look[files[i]] # NoLook}

\* Clusters of members of S: no two share one, and all of a cluster resemble
\* its first.
Around(files, c) == \A x \in ToSet(c) : x = c[1] \/ Alike(files, c[1], x)
Clustered(files, cs, S) ==
    /\ cs \in Seq(Seq(S))
    /\ \A k, l \in DOMAIN cs : k # l => ToSet(cs[k]) \cap ToSet(cs[l]) = {}
    /\ \A k \in DOMAIN cs : cs[k] # <<>> /\ Around(files, cs[k])

\* Clusters of fewer files are clusters of more.
LEMMA ClustersGrow ==
    ASSUME NEW files, NEW cs, NEW S, NEW T, S \subseteq T, Clustered(files, cs, S)
    PROVE  Clustered(files, cs, T)
<1>1. \A c \in Seq(S) : c \in Seq(T)
  OBVIOUS
<1>2. cs \in Seq(Seq(T))
  BY <1>1 DEF Clustered
<1> QED
  BY <1>2 DEF Clustered

LEMMA InSet ==
    ASSUME NEW S, NEW c \in Seq(S)
    PROVE  ToSet(c) \subseteq S
BY DEF ToSet

\* A cluster that takes in a file.
LEMMA AppendSet ==
    ASSUME NEW S, NEW c \in Seq(S), NEW i
    PROVE  /\ Append(c, i) \in Seq(S \union {i})
           /\ ToSet(Append(c, i)) = ToSet(c) \union {i}
<1>1. c \in Seq(S \union {i})
  OBVIOUS
<1>2. Append(c, i) \in Seq(S \union {i})
  BY <1>1
<1>3. /\ DOMAIN c = 1..Len(c) /\ Len(c) \in Nat
      /\ DOMAIN Append(c, i) = 1..(Len(c) + 1)
      /\ Append(c, i)[Len(c) + 1] = i
      /\ \A k \in 1..Len(c) : Append(c, i)[k] = c[k]
  OBVIOUS
<1>4. ToSet(Append(c, i)) = ToSet(c) \union {i}
  <2> DEFINE u == Append(c, i)
  <2>1. /\ DOMAIN u = 1..(Len(c) + 1) /\ u[Len(c) + 1] = i
        /\ \A k \in 1..Len(c) : u[k] = c[k]
    BY <1>3
  <2> HIDE DEF u
  <2>2. ToSet(u) = {u[k] : k \in 1..(Len(c) + 1)} /\ ToSet(c) = {c[k] : k \in 1..Len(c)}
    BY <1>3, <2>1 DEF ToSet
  <2>3. \A k \in 1..(Len(c) + 1) : k \in 1..Len(c) \/ k = Len(c) + 1
    BY <1>3
  <2> QED
    BY <1>3, <2>1, <2>2, <2>3 DEF u
<1> QED
  BY <1>2, <1>4

\* A candidate joins one cluster, or makes a new one.
LEMMA PlacedClusters ==
    ASSUME NEW files, NEW cs, NEW S, Clustered(files, cs, S), NEW i, i \notin S
    PROVE  Clustered(files, Placed(files, cs, i), S \union {i})
<1> DEFINE near == {k \in DOMAIN cs : Alike(files, cs[k][1], i)}
           T == S \union {i}
           p == Placed(files, cs, i)
<1>1. /\ cs \in Seq(Seq(T)) /\ cs \in Seq(Seq(S))
      /\ DOMAIN cs = 1..Len(cs) /\ Len(cs) \in Nat
      /\ \A k \in DOMAIN cs : cs[k] \in Seq(S) /\ ToSet(cs[k]) \subseteq S
  <2>1. cs \in Seq(Seq(T))
    BY ClustersGrow DEF Clustered
  <2>2. \A k \in DOMAIN cs : cs[k] \in Seq(S)
    BY DEF Clustered
  <2> QED
    BY <2>1, <2>2, InSet DEF Clustered
<1>2. CASE near = {}
  <2> DEFINE c == <<i>>
  <2>1. p = Append(cs, c)
    BY <1>2 DEF Placed
  <2>2. c \in Seq(T) /\ ToSet(c) = {i}
    BY DEF ToSet
  <2> HIDE DEF c
  <2>3. /\ p \in Seq(Seq(T)) /\ DOMAIN p = 1..(Len(cs) + 1)
        /\ p[Len(cs) + 1] = c /\ \A k \in 1..Len(cs) : p[k] = cs[k]
    BY <1>1, <2>1, <2>2
  <2> HIDE DEF p
  <2>4. ASSUME NEW k \in DOMAIN p, NEW l \in DOMAIN p, k # l
        PROVE  ToSet(p[k]) \cap ToSet(p[l]) = {}
    <3>1. k \in 1..Len(cs) \/ l \in 1..Len(cs)
      BY <1>1, <2>3, <2>4
    <3>2. CASE k \in 1..Len(cs) /\ l \in 1..Len(cs)
      BY <1>1, <2>3, <2>4, <3>2 DEF Clustered
    <3>3. CASE k = Len(cs) + 1 /\ l \in 1..Len(cs)
      BY <1>1, <2>2, <2>3, <3>3
    <3>4. CASE l = Len(cs) + 1 /\ k \in 1..Len(cs)
      BY <1>1, <2>2, <2>3, <3>4
    <3> QED
      BY <1>1, <2>3, <3>1, <3>2, <3>3, <3>4
  <2>5. \A k \in DOMAIN p : p[k] # <<>> /\ Around(files, p[k])
    <3>1. c # <<>> /\ Around(files, c)
      BY DEF c, Around, ToSet
    <3>2. \A k \in 1..Len(cs) : cs[k] # <<>> /\ Around(files, cs[k])
      BY <1>1 DEF Clustered
    <3>3. \A k \in DOMAIN p : k \in 1..Len(cs) \/ k = Len(cs) + 1
      BY <1>1, <2>3
    <3> QED
      BY <2>3, <3>1, <3>2, <3>3
  <2> QED
    BY <2>3, <2>4, <2>5 DEF Clustered, p
<1>3. CASE near # {}
  <2> DEFINE m == Min(near)
  <2>1. m \in near
    <3>1. near \in SUBSET Nat
      BY <1>1
    <3> HIDE DEF near
    <3> QED
      BY <1>3, <3>1, MinIs
  <2>2. p = [cs EXCEPT ![m] = Append(cs[m], i)]
    BY <1>3 DEF Placed
  <2> HIDE DEF m
  <2>3. /\ Append(cs[m], i) \in Seq(T)
        /\ ToSet(Append(cs[m], i)) = ToSet(cs[m]) \union {i}
    BY <1>1, <2>1, AppendSet
  <2>4. /\ p \in Seq(Seq(T)) /\ DOMAIN p = DOMAIN cs
        /\ p[m] = Append(cs[m], i) /\ \A k \in DOMAIN cs \ {m} : p[k] = cs[k]
    <3>1. m \in 1..Len(cs)
      BY <1>1, <2>1
    <3>2. p \in Seq(Seq(T))
      BY <1>1, <2>2, <2>3, <3>1, ExceptSeq
    <3> QED
      BY <1>1, <2>2, <3>1, <3>2
  <2> HIDE DEF p, near
  <2>5. m \in DOMAIN cs
    BY <2>1 DEF near
  <2>6. ASSUME NEW k \in DOMAIN p, NEW l \in DOMAIN p, k # l
        PROVE  ToSet(p[k]) \cap ToSet(p[l]) = {}
    <3>1. ToSet(cs[k]) \cap ToSet(cs[l]) = {}
      BY <2>4, <2>6 DEF Clustered
    <3>2. i \notin ToSet(cs[k]) /\ i \notin ToSet(cs[l])
      BY <1>1, <2>4
    <3>3. /\ ToSet(p[k]) \subseteq ToSet(cs[k]) \union (IF k = m THEN {i} ELSE {})
          /\ ToSet(p[l]) \subseteq ToSet(cs[l]) \union (IF l = m THEN {i} ELSE {})
      BY <2>3, <2>4
    <3> QED
      BY <2>6, <3>1, <3>2, <3>3
  <2>7. p[m] # <<>> /\ Around(files, p[m])
    <3>1. cs[m] \in Seq(S) /\ cs[m] # <<>> /\ Around(files, cs[m])
      BY <1>1, <2>5 DEF Clustered
    <3>2. p[m] # <<>> /\ p[m][1] = cs[m][1]
      <4> DEFINE c == cs[m]
      <4>1. c \in Seq(S) /\ c # <<>> /\ p[m] = Append(c, i)
        BY <2>4, <3>1
      <4> HIDE DEF c
      <4>2. Append(c, i) # <<>> /\ Append(c, i)[1] = c[1]
        BY <4>1
      <4> QED
        BY <4>1, <4>2 DEF c
    <3>3. Alike(files, cs[m][1], i)
      BY <2>1 DEF near
    <3> QED
      BY <2>3, <2>4, <3>1, <3>2, <3>3 DEF Around
  <2>8. \A k \in DOMAIN p : p[k] # <<>> /\ Around(files, p[k])
    BY <2>4, <2>7 DEF Clustered
  <2> QED
    BY <2>4, <2>6, <2>8 DEF Clustered, p
<1> QED
  BY <1>2, <1>3

\* One more id in turn, g the clusters after the ones before it.
Grown(files, g, i) ==
    IF i = 0 THEN <<>>
    ELSE IF i \in Candidates(files) THEN Placed(files, g[i - 1], i) ELSE g[i - 1]

\* The recursive function is defined.
LEMMA GrownExists ==
    ASSUME NEW files, NEW m \in Nat
    PROVE  \E g : g = [i \in 0..m |-> Grown(files, g, i)]
<1> DEFINE Fails == {n \in Nat : ~ \E g : g = [i \in 0..n |-> Grown(files, g, i)]}
<1>1. CASE Fails = {}
  BY <1>1
<1>2. CASE Fails # {}
  <2>1. PICK n \in Fails : \A k \in Fails : n <= k
    <3>1. Fails \in SUBSET Nat
      OBVIOUS
    <3> HIDE DEF Fails
    <3> QED
      BY <1>2, <3>1, LeastNumber
  <2>2. n \in Nat /\ ~ \E g : g = [i \in 0..n |-> Grown(files, g, i)]
    BY <2>1
  <2>3. n # 0
    <3> SUFFICES ASSUME n = 0 PROVE FALSE
      OBVIOUS
    <3> DEFINE g == [i \in 0..0 |-> <<>>]
    <3>1. g = [i \in 0..0 |-> Grown(files, g, i)]
      BY DEF Grown
    <3> HIDE DEF g
    <3> QED
      BY <2>2, <3>1
  <2>4. n - 1 \in Nat /\ n - 1 \notin Fails
    BY <2>1, <2>2, <2>3
  <2>5. PICK h : h = [i \in 0..(n - 1) |-> Grown(files, h, i)]
    BY <2>4
  <2> DEFINE g == [i \in 0..n |-> IF i = n THEN Grown(files, h, n) ELSE h[i]]
  <2>6. \A i \in 0..n : g[i] = Grown(files, g, i)
    <3> TAKE i \in 0..n
    <3>1. \A k \in 0..(n - 1) : g[k] = h[k]
      BY <2>2
    <3>2. g[n] = Grown(files, h, n)
      BY <2>2
    <3> HIDE DEF g
    <3>3. i # 0 => g[i - 1] = h[i - 1]
      BY <2>2, <3>1
    <3>4. Grown(files, g, i) = Grown(files, h, i)
      BY <3>3 DEF Grown
    <3>5. CASE i = n
      BY <3>2, <3>4, <3>5
    <3>6. CASE i # n
      <4>1. i \in 0..(n - 1)
        BY <2>2, <3>6
      <4>2. h[i] = Grown(files, h, i)
        BY <2>5, <4>1
      <4> QED
        BY <3>1, <3>4, <4>1, <4>2
    <3> QED
      BY <3>5, <3>6
  <2>7. g = [i \in 0..n |-> Grown(files, g, i)]
    BY <2>6
  <2> HIDE DEF g
  <2> QED
    BY <2>2, <2>7
<1> QED
  BY <1>1, <1>2

\* After each id, clusters of the candidates so far.
LEMMA GrownClusters ==
    ASSUME NEW files, NEW m \in Nat, NEW g,
           g = [i \in 0..m |-> Grown(files, g, i)]
    PROVE  \A i \in 0..m : Clustered(files, g[i], Candidates(files) \cap (1..i))
<1> DEFINE S(i) == Candidates(files) \cap (1..i)
           Fails == {i \in 0..m : ~Clustered(files, g[i], S(i))}
<1> SUFFICES ASSUME Fails # {} PROVE FALSE
  OBVIOUS
<1>1. PICK n \in Fails : \A k \in Fails : n <= k
  <2>1. Fails \in SUBSET Nat
    OBVIOUS
  <2> HIDE DEF Fails
  <2> QED
    BY <2>1, LeastNumber
<1>2. n \in 0..m /\ ~Clustered(files, g[n], S(n)) /\ g[n] = Grown(files, g, n)
  BY <1>1
<1>3. CASE n = 0
  <2>1. g[n] = <<>>
    BY <1>2, <1>3 DEF Grown
  <2>2. \A T : Clustered(files, <<>>, T)
    BY DEF Clustered
  <2> QED
    BY <1>2, <2>1, <2>2
<1>4. CASE n # 0
  <2>1. n - 1 \in 0..m
    BY <1>2, <1>4
  <2>2. n - 1 \notin Fails
    BY <1>1, <1>2, <2>1
  <2>3. Clustered(files, g[n - 1], S(n - 1))
    BY <2>1, <2>2
  <2>4. S(n - 1) \subseteq S(n) /\ n \notin S(n - 1)
    BY <1>2, <1>4
  <2>5. n \in Candidates(files) => S(n - 1) \union {n} \subseteq S(n)
    BY <1>2, <1>4
  <2> HIDE DEF S
  <2>6. CASE n \in Candidates(files)
    <3>1. g[n] = Placed(files, g[n - 1], n)
      BY <1>2, <1>4, <2>6 DEF Grown
    <3>2. Clustered(files, g[n], S(n - 1) \union {n})
      BY <2>3, <2>4, <3>1, PlacedClusters
    <3> QED
      BY <1>2, <2>5, <2>6, <3>2, ClustersGrow
  <2>7. CASE n \notin Candidates(files)
    <3>1. g[n] = g[n - 1]
      BY <1>2, <1>4, <2>7 DEF Grown
    <3> QED
      BY <1>2, <2>3, <2>4, <3>1, ClustersGrow
  <2> QED
    BY <2>6, <2>7
<1> QED
  BY <1>3, <1>4

\* Clusters returns clusters of the candidates.
LEMMA ClustersAre ==
    ASSUME NEW n \in Nat, NEW files, DOMAIN files \in SUBSET (1..n)
    PROVE  Clustered(files, Clusters(files), Candidates(files))
<1> DEFINE last == Max({0} \union DOMAIN files)
           after[i \in 0..last] ==
            IF i = 0 THEN <<>>
            ELSE IF i \in Candidates(files) THEN Placed(files, after[i - 1], i)
            ELSE after[i - 1]
<1>1. last \in Nat
  <2>1. {0} \union DOMAIN files \in SUBSET (0..n) /\ {0} \union DOMAIN files # {}
    OBVIOUS
  <2>2. last \in 0..n
    BY <2>1, MaxIs
  <2> QED
    BY <2>2
<1>2. Clusters(files) = after[last]
  BY DEF Clusters, Candidates
<1>3. after = CHOOSE g : g = [i \in 0..last |-> Grown(files, g, i)]
  BY DEF Grown
<1> HIDE DEF after, last
<1>4. after = [i \in 0..last |-> Grown(files, after, i)]
  BY <1>1, <1>3, GrownExists
<1>5. Clustered(files, after[last], Candidates(files) \cap (1..last))
  <2>1. \A i \in 0..last : Clustered(files, after[i], Candidates(files) \cap (1..i))
    BY <1>1, <1>4, GrownClusters
  <2> QED
    BY <1>1, <2>1
<1> QED
  BY <1>2, <1>5, ClustersGrow

\* The groups of like pictures.
LEMMA NearParts ==
    ASSUME NEW n \in Nat, NEW files, DOMAIN files \in SUBSET (1..n)
    PROVE  /\ \A G \in NearGroups(files) :
                /\ G \subseteq DOMAIN files /\ Large(G)
                /\ \A H \in SameHash(files) : G \cap H = {}
                /\ \E r \in G : \A x \in G : x = r \/ Alike(files, r, x)
           /\ \A G, H \in NearGroups(files) : G # H => G \cap H = {}
<1> DEFINE cs == Clusters(files)
<1>1. Clustered(files, cs, Candidates(files))
  BY ClustersAre
<1> HIDE DEF cs
<1>2. NearGroups(files) = {G \in {ToSet(c) : c \in ToSet(cs)} : Large(G)}
  BY DEF NearGroups, cs
<1>3. \A G \in NearGroups(files) : \E k \in DOMAIN cs : G = ToSet(cs[k])
  BY <1>2 DEF ToSet
<1>4. ASSUME NEW G \in NearGroups(files) PROVE G \subseteq Candidates(files)
  <2>1. PICK k \in DOMAIN cs : G = ToSet(cs[k])
    BY <1>3
  <2>2. cs[k] \in Seq(Candidates(files))
    BY <1>1, <2>1 DEF Clustered
  <2> QED
    BY <2>1, <2>2, InSet
<1>5. \A G \in NearGroups(files) :
        /\ G \subseteq DOMAIN files
        /\ \A H \in SameHash(files) : G \cap H = {}
  BY <1>4 DEF Candidates
<1>6. \A G, H \in NearGroups(files) : G # H => G \cap H = {}
  BY <1>1, <1>3 DEF Clustered
<1>7. ASSUME NEW G \in NearGroups(files)
      PROVE  \E r \in G : \A x \in G : x = r \/ Alike(files, r, x)
  <2>1. PICK k \in DOMAIN cs : G = ToSet(cs[k])
    BY <1>3
  <2>2. /\ cs[k] \in Seq(Candidates(files)) /\ cs[k] # <<>> /\ Around(files, cs[k])
    BY <1>1, <2>1 DEF Clustered
  <2>3. cs[k][1] \in ToSet(cs[k])
    BY <2>2 DEF ToSet
  <2> QED
    BY <2>1, <2>2, <2>3 DEF Around
<1> QED
  BY <1>2, <1>5, <1>6, <1>7

\* A finite set in a row, each member once.
LEMMA SetToSeqIs ==
    ASSUME NEW S, IsFiniteSet(S)
    PROVE  /\ SetToSeq(S) \in [1..Cardinality(S) -> S]
           /\ Cardinality(S) \in Nat /\ Len(SetToSeq(S)) = Cardinality(S)
           /\ \A k, l \in 1..Cardinality(S) :
                SetToSeq(S)[k] = SetToSeq(S)[l] => k = l
           /\ \A x \in S : \E k \in 1..Cardinality(S) : SetToSeq(S)[k] = x
<1> DEFINE n == Cardinality(S)
<1>1. n \in Nat /\ ExistsBijection(1..n, S)
  BY FS_CardinalityType
<1>2. \E f \in [1..n -> S] : IsInjective(f)
  BY <1>1 DEF ExistsBijection, Bijection, Injection, IsInjective
<1>3. SetToSeq(S) \in [1..n -> S] /\ IsInjective(SetToSeq(S))
  BY <1>2 DEF SetToSeq
<1>4. SetToSeq(S) \in Surjection(1..n, S)
  <2> DEFINE I == 1..n
  <2>1. SetToSeq(S) \in Injection(I, S)
    BY <1>3 DEF Injection
  <2>2. Cardinality(I) = Cardinality(S)
    BY <1>1, FS_Interval
  <2> HIDE DEF I
  <2>3. SetToSeq(S) \in Surjection(I, S)
    BY <2>1, <2>2, FS_Injection
  <2> QED
    BY <2>3 DEF I
<1> HIDE DEF n
<1>5. Len(SetToSeq(S)) = n
  BY <1>1, <1>3
<1> QED
  BY <1>1, <1>3, <1>4, <1>5 DEF IsInjective, Surjection, n

\* Disjoint parts of a finite set are no more than it has members.
LEMMA PartsAreFew ==
    ASSUME NEW D, IsFiniteSet(D), NEW P \in SUBSET (SUBSET D),
           {} \notin P, \A G, H \in P : G # H => G \cap H = {}
    PROVE  IsFiniteSet(P) /\ Cardinality(P) <= Cardinality(D)
<1> DEFINE f == [G \in P |-> CHOOSE x \in G : TRUE]
<1>1. \A G \in P : f[G] \in G /\ G \subseteq D
  OBVIOUS
<1>2. f \in [P -> D]
  BY <1>1
<1>3. \A G, H \in P : f[G] = f[H] => G = H
  BY <1>1
<1> HIDE DEF f
<1>4. f \in Injection(P, D)
  BY <1>2, <1>3 DEF Injection, IsInjective
<1> QED
  BY <1>4, FS_Injection

LEMMA LargeIsFilled ==
    ASSUME NEW G, Large(G)
    PROVE  G # {}
<1>1. Cardinality({}) = 0
  BY FS_EmptySet
<1> QED
  BY <1>1 DEF Large

\* What _form_duplicate_groups makes of any list of files: any two files of one
\* content are in an exact group, and all of an exact group are of one content;
\* all of a near group resemble one of it; no file is in two groups, none is
\* alone, and the ids are no more than the files.
THEOREM GroupsFormed ==
    ASSUME NEW n \in Nat, NEW files, DOMAIN files \in SUBSET (1..n)
    PROVE  /\ \A g \in Groups(files) :
                /\ g = [id |-> g.id, kind |-> g.kind, members |-> g.members]
                /\ g.kind \in {"exact", "near"}
                /\ g.members \subseteq DOMAIN files /\ Large(g.members)
                /\ g.id \in 1..Cardinality(DOMAIN files)
                /\ g.kind = "exact" => \A i, j \in g.members :
                        Hash[files[i]] = Hash[files[j]]
                /\ g.kind = "near" => \E r \in g.members : \A x \in g.members :
                        x = r \/ Alike(files, r, x)
           /\ \A g, h \in Groups(files) : g # h =>
                g.id # h.id /\ g.members \cap h.members = {}
           /\ \A i, j \in DOMAIN files : i # j /\ Hash[files[i]] = Hash[files[j]] =>
                \E g \in Groups(files) : g.kind = "exact" /\ i \in g.members /\ j \in g.members
<1> DEFINE D == DOMAIN files
           E == SameHash(files)
           N == NearGroups(files)
           exact == SetToSeq(E)
           near == SetToSeq(N)
           a == Cardinality(E)
           b == Cardinality(N)
<1>1. IsFiniteSet(D) /\ Cardinality(D) \in Nat
  <2>1. IsFiniteSet(1..n)
    BY FS_Interval
  <2> QED
    BY <2>1, FS_Subset, FS_CardinalityType
<1>2. /\ \A G \in E : /\ G \subseteq D /\ Large(G) /\ G # {}
                      /\ \A i, j \in G : Hash[files[i]] = Hash[files[j]]
      /\ \A G, H \in E : G # H => G \cap H = {}
  BY SameHashParts, LargeIsFilled
<1>3. /\ \A G \in N : /\ G \subseteq D /\ Large(G) /\ G # {}
                      /\ \A H \in E : G \cap H = {}
      /\ \A G, H \in N : G # H => G \cap H = {}
  BY NearParts, LargeIsFilled
<1>4. Groups(files) =
        {[id |-> k, kind |-> "exact", members |-> exact[k]] : k \in DOMAIN exact}
        \union {[id |-> Len(exact) + k, kind |-> "near", members |-> near[k]] :
                    k \in DOMAIN near}
  BY DEF Groups
<1> HIDE DEF D, E, N
<1>5. IsFiniteSet(E) /\ IsFiniteSet(N) /\ a + b <= Cardinality(D)
  <2>1. IsFiniteSet(E) /\ IsFiniteSet(N)
    BY <1>1, <1>2, <1>3, PartsAreFew
  <2>2. IsFiniteSet(E \cup N) /\ Cardinality(E \cup N) <= Cardinality(D)
    <3>1. E \cup N \in SUBSET (SUBSET D) /\ {} \notin E \cup N
      BY <1>2, <1>3
    <3>2. \A G, H \in E \cup N : G # H => G \cap H = {}
      BY <1>2, <1>3
    <3> QED
      BY <1>1, <3>1, <3>2, PartsAreFew
  <2>3. E \cap N = {}
    BY <1>3
  <2>4. Cardinality(E \cup N) = a + b
    <3>1. a \in Nat /\ b \in Nat /\ Cardinality({}) = 0
      BY <2>1, FS_CardinalityType, FS_EmptySet
    <3>2. Cardinality(E \cup N) = a + b - Cardinality(E \cap N)
      BY <2>1, FS_Union
    <3>3. Cardinality(E \cap N) = 0
      BY <2>3, <3>1, Zenon
    <3> HIDE DEF a, b
    <3> QED
      BY <3>1, <3>2, <3>3
  <2> QED
    BY <2>1, <2>2, <2>4
<1>6. /\ exact \in [1..a -> E] /\ a \in Nat /\ Len(exact) = a
      /\ \A k, l \in 1..a : exact[k] = exact[l] => k = l
  BY <1>5, SetToSeqIs
<1>7. /\ near \in [1..b -> N] /\ b \in Nat
      /\ \A k, l \in 1..b : near[k] = near[l] => k = l
  BY <1>5, SetToSeqIs
<1> HIDE DEF exact, near, a, b
<1>8. \A g \in Groups(files) :
        \/ \E k \in 1..a : g = [id |-> k, kind |-> "exact", members |-> exact[k]]
        \/ \E k \in 1..b : g = [id |-> a + k, kind |-> "near", members |-> near[k]]
  BY <1>4, <1>6, <1>7
<1>9. ASSUME NEW g \in Groups(files)
      PROVE  /\ g = [id |-> g.id, kind |-> g.kind, members |-> g.members]
             /\ g.kind \in {"exact", "near"}
             /\ g.members \subseteq D /\ Large(g.members)
             /\ g.id \in 1..Cardinality(D)
             /\ g.kind = "exact" => /\ g.id \in 1..a /\ g.members = exact[g.id]
                                    /\ \A i, j \in g.members :
                                        Hash[files[i]] = Hash[files[j]]
             /\ g.kind = "near" => /\ g.id > a /\ g.id - a \in 1..b
                                   /\ g.members = near[g.id - a]
  <2>1. CASE \E k \in 1..a : g = [id |-> k, kind |-> "exact", members |-> exact[k]]
    <3>1. PICK k \in 1..a : g = [id |-> k, kind |-> "exact", members |-> exact[k]]
      BY <2>1
    <3>2. exact[k] \in E
      BY <1>6
    <3>3. k \in 1..Cardinality(D)
      BY <1>1, <1>5, <1>6, <1>7
    <3> QED
      BY <1>2, <3>1, <3>2, <3>3
  <2>2. CASE \E k \in 1..b : g = [id |-> a + k, kind |-> "near", members |-> near[k]]
    <3>1. PICK k \in 1..b : g = [id |-> a + k, kind |-> "near", members |-> near[k]]
      BY <2>2
    <3>2. near[k] \in N
      BY <1>7
    <3>3. a + k \in 1..Cardinality(D) /\ (a + k) - a = k /\ a + k > a
      BY <1>1, <1>5, <1>6, <1>7
    <3> QED
      BY <1>3, <3>1, <3>2, <3>3
  <2> QED
    BY <1>8, <2>1, <2>2
<1>10. ASSUME NEW g \in Groups(files), NEW h \in Groups(files), g # h
       PROVE  g.id # h.id /\ g.members \cap h.members = {}
  <2>1. CASE g.kind = "exact" /\ h.kind = "exact"
    <3>1. g.id # h.id
      BY <1>9, <1>10, <2>1
    <3>2. exact[g.id] # exact[h.id] /\ exact[g.id] \in E /\ exact[h.id] \in E
      BY <1>6, <1>9, <2>1, <3>1
    <3> QED
      BY <1>2, <1>9, <2>1, <3>1, <3>2
  <2>2. CASE g.kind = "near" /\ h.kind = "near"
    <3>1. g.id # h.id
      BY <1>9, <1>10, <2>2
    <3>2. g.id - a # h.id - a
      BY <1>1, <1>6, <1>9, <3>1
    <3>3. near[g.id - a] # near[h.id - a] /\ near[g.id - a] \in N /\ near[h.id - a] \in N
      BY <1>7, <1>9, <2>2, <3>2
    <3> QED
      BY <1>3, <1>9, <2>2, <3>1, <3>3
  <2>3. ASSUME NEW x \in Groups(files), NEW y \in Groups(files),
               x.kind = "exact", y.kind = "near"
        PROVE  x.id # y.id /\ x.members \cap y.members = {}
    <3>1. x.id # y.id
      BY <1>6, <1>9, <2>3
    <3>2. x.members \in E /\ y.members \in N
      BY <1>6, <1>7, <1>9, <2>3
    <3> QED
      BY <1>3, <3>1, <3>2
  <2> QED
    BY <1>9, <2>1, <2>2, <2>3
<1>11. ASSUME NEW g \in Groups(files), g.kind = "near"
       PROVE  \E r \in g.members : \A x \in g.members : x = r \/ Alike(files, r, x)
  <2>1. g.members \in N
    BY <1>7, <1>9, <1>11
  <2> QED
    BY <2>1, NearParts DEF N
<1>12. ASSUME NEW i \in D, NEW j \in D, i # j, Hash[files[i]] = Hash[files[j]]
       PROVE  \E g \in Groups(files) :
                g.kind = "exact" /\ i \in g.members /\ j \in g.members
  <2>1. PICK G \in E : i \in G /\ j \in G
    BY <1>1, <1>12, SameHashParts DEF D, E
  <2>2. PICK k \in 1..a : exact[k] = G
    BY <1>5, SetToSeqIs DEF a, exact
  <2>3. [id |-> k, kind |-> "exact", members |-> exact[k]] \in Groups(files)
    BY <1>4, <1>6
  <2> QED
    BY <2>1, <2>2, <2>3
<1> QED
  BY <1>9, <1>10, <1>11, <1>12 DEF D

-----------------------------------------------------------------------------
(* The invariant of the groups, and what every part of it is for.           *)

\* The steps of a scan on one file.
Hashing(f) == ScanHash(f) \/ ScanHashRaises(f)
OnFile(f) == ScanStat(f) \/ Hashing(f) \/ ScanWrite(f)

\* What is left of the listing are positions in it; a row and a file in work
\* have a picture they were made for; what a scan groups are rows, one of a path
\* at most.
ScanTyped ==
    /\ scan.pc \in {"idle", "files", "select", "insert"}
    /\ scan.todo \subseteq DOMAIN Listing
    /\ \A f \in Files : scan.work[f].pc # "done" => scan.work[f].seen \in Pictures
    /\ \A i \in Ids : row[i].seen \in Pictures
    /\ scan.pc = "insert" => /\ DOMAIN scan.files \subseteq Ids
                             /\ Cardinality(DOMAIN scan.files) <= Cardinality(Files)

CallTyped(r) ==
    /\ r.pc \in {"idle", "next", "act", "commit", "prune", "count", "drop"}
    /\ r.todo \subseteq Ids /\ r.permanent \in BOOLEAN
    /\ r.id \in Ids \union {0} /\ r.gid \in 0..Cardinality(Files)
CallsTyped == \A b \in Batches : CallTyped(del[b])

\* A group is a row of its table, and a file is in one group at most.
GroupRow(g) ==
    /\ g = [id |-> g.id, kind |-> g.kind, members |-> g.members]
    /\ g.kind \in {"exact", "near"} /\ g.members \subseteq Ids
    /\ g.id \in 1..Cardinality(Files)
GroupsTyped ==
    /\ \A g \in group : GroupRow(g)
    /\ \A g, h \in group : g # h => g.id # h.id /\ g.members \cap h.members = {}

\* Only a call that prunes it has yet to see a group that is too small.
Attended(g) == \E b \in Batches : del[b].gid = g.id /\ del[b].pc \in {"count", "drop"}
Reviewed == spent.crashes = 0 => \A g \in group : Large(g.members) \/ Attended(g)

\* Whatever happens, also crashes and scans beside deletions.
GroupInv == ScanTyped /\ CallsTyped /\ GroupsTyped /\ Reviewed

\* In calm a member is active, or its call has yet to prune it; rows that a scan
\* has selected stay active until they are inserted.
Held(i) == row[i].status = "active" \/ InHand(i, {"prune"})
MembersHeld == Calm =>
    /\ \A g \in group : \A i \in g.members : Held(i)
    /\ scan.pc = "insert" => \A i \in DOMAIN scan.files : row[i].status = "active"

\* In calm a file in work is still what it was seen as, and one that is not
\* hashed has a row of that picture.
WorkTrue ==
    \A f \in Files : scan.work[f].pc # "done" =>
        /\ scan.work[f].seen = disk[At(f)]
        /\ scan.work[f].hash \in {NoPicture, scan.work[f].seen}
        /\ ~scan.work[f].needs =>
            \E i \in RowsAt(At(f)) : row[i].seen = scan.work[f].seen
\* A row's hash, and its file while it may be in a group, are of the picture
\* the row was made for.
RowsTrue ==
    /\ \A i \in Ids : row[i].hash \in {NoPicture, row[i].seen}
    /\ \A i \in Ids : Held(i) => disk[Path(row[i].at)] \in {NoPicture, row[i].seen}
\* A file that a call may still take is an active row's, and one it has moved
\* is where its row will say.
CallsTrue ==
    /\ \A b \in Acting : Real(disk[At(File(b))]) => row[del[b].id].status = "active"
    /\ \A b \in Landing : del[b].to # "here" =>
         disk[Path(Landed(b))] = row[del[b].id].seen
\* While a scan groups there is no group; afterwards the rows of an exact one
\* are of one content.
GroupsTrue ==
    /\ scan.pc \in {"select", "insert"} => group = {}
    /\ scan.pc = "insert" => \A i \in DOMAIN scan.files : scan.files[i] = row[i].seen
    /\ ~Scanning => \A g \in group : g.kind = "exact" =>
         \A i, j \in g.members : Hash[row[i].seen] = Hash[row[j].seen]
Truthful == Calm => WorkTrue /\ RowsTrue /\ CallsTrue /\ GroupsTrue

\* The walk ends, so there are finitely many files.
LEMMA FilesAreFew == IsFiniteSet(Files) /\ Cardinality(Files) \in Nat
<1>1. /\ Listing \in [1..Len(Listing) -> Files] /\ Len(Listing) \in Nat
      /\ \A f \in Files : \E k \in 1..Len(Listing) : Listing[k] = f
  BY ListingAssumption DEF Files, ToSet
<1>2. Listing \in Surjection(1..Len(Listing), Files)
  BY <1>1 DEF Surjection
<1>3. IsFiniteSet(1..Len(Listing))
  BY <1>1, FS_Interval
<1>4. IsFiniteSet(Files)
  BY <1>2, <1>3, FS_Surjection
<1> QED
  BY <1>4, FS_CardinalityType

LEMMA InitGroups == Init => GroupInv /\ MembersHeld /\ Truthful
<1> SUFFICES ASSUME Init PROVE GroupInv /\ MembersHeld /\ Truthful
  OBVIOUS
<1>1. /\ Ids = {} /\ group = {} /\ scan.pc = "idle" /\ scan.todo = {}
      /\ \A f \in Files : scan.work[f].pc = "done"
      /\ Acting = {} /\ Landing = {}
  BY DEF Init, Ids, IdleScan, IdleWork, Acting, Landing, IdleBatch
<1>2. CallsTyped
  <2>1. 0 \in 0..Cardinality(Files)
    BY FilesAreFew
  <2>2. CallTyped(IdleBatch)
    BY <2>1 DEF CallTyped, IdleBatch
  <2> QED
    BY <2>2 DEF Init, CallsTyped
<1>3. ScanTyped /\ GroupsTyped /\ Reviewed
  BY <1>1 DEF ScanTyped, GroupsTyped, Reviewed
<1> QED
  BY <1>1, <1>2, <1>3 DEF GroupInv, MembersHeld, Truthful, WorkTrue, RowsTrue, CallsTrue,
                          GroupsTrue

\* What a call's record says after each of its steps.
LEMMA CallFields ==
    ASSUME Shape, NEW b \in Batches
    PROVE  /\ \A ids, permanent : DeleteBegin(b, ids, permanent) =>
                /\ del'[b].pc = "next" /\ del'[b].todo = ids
                /\ del'[b].permanent = permanent
                /\ del'[b].id = 0 /\ del'[b].gid = 0
           /\ Delete(b) =>
                /\ del'[b].pc \in {"idle", "next", "act", "commit", "prune", "count", "drop"}
                /\ del'[b].todo \subseteq del[b].todo
                /\ del'[b].permanent \in {del[b].permanent, FALSE}
                /\ del'[b].id \in {del[b].id, 0} \union Ids
                /\ \/ del'[b].gid \in {del[b].gid, 0}
                   \/ \E g \in Memberships(b) : del'[b].gid = g.id
           /\ Begun(b) \/ Delete(b) => \A c \in Batches \ {b} : del'[c] = del[c]
<1>1. IsCall(del[b]) /\ del = [c \in Batches |-> del[c]]
  BY DEF Shape, DelShape, CallShape
<1>2. \A r : Becomes(b, r) => del'[b] = r /\ \A c \in Batches \ {b} : del'[c] = del[c]
  BY <1>1 DEF Becomes
<1>3. ASSUME NEW ids, NEW permanent, DeleteBegin(b, ids, permanent)
      PROVE  /\ del'[b].pc = "next" /\ del'[b].todo = ids
             /\ del'[b].permanent = permanent
             /\ del'[b].id = 0 /\ del'[b].gid = 0
             /\ \E r : Becomes(b, r)
  <2> DEFINE r == [IdleBatch EXCEPT !.pc = "next", !.todo = ids, !.permanent = permanent]
  <2>1. Becomes(b, r)
    BY <1>3 DEF DeleteBegin, Becomes
  <2>2. r.pc = "next" /\ r.todo = ids /\ r.id = 0 /\ r.gid = 0
    BY DEF IdleBatch
  <2>3. r.permanent = permanent
    BY DEF IdleBatch
  <2>4. del'[b] = r
    BY <1>2, <2>1
  <2> HIDE DEF r
  <2> QED
    BY <2>1, <2>2, <2>3, <2>4
<1> DEFINE Told(r) ==
             /\ r.pc \in {"idle", "next", "act", "commit", "prune", "count", "drop"}
             /\ r.todo \subseteq del[b].todo
             /\ r.permanent \in {del[b].permanent, FALSE}
             /\ r.id \in {del[b].id, 0} \union Ids
             /\ \/ r.gid \in {del[b].gid, 0}
                \/ \E g \in Memberships(b) : r.gid = g.id
<1>4. ASSUME Delete(b) PROVE \E r : Becomes(b, r) /\ Told(r)
  <2>1. CASE \/ DeleteMove(b) \/ DeleteUnlink(b) \/ DeleteRaises(b) \/ DeleteCopies(b)
             \/ PruneCount(b) \/ PruneDrop(b) \/ PruneMember(b) \/ DeleteCommit(b)
    <3>1. \/ \E p \in {"next", "prune", "drop"} : Becomes(b, [del[b] EXCEPT !.pc = p])
          \/ \E t : Becomes(b, [del[b] EXCEPT !.pc = "commit", !.to = t])
          \/ \E g \in Memberships(b) :
                Becomes(b, [del[b] EXCEPT !.pc = "count", !.gid = g.id])
          \/ Becomes(b, IdleBatch)
      BY <2>1 DEF DeleteMove, DeleteUnlink, DeleteRaises, DeleteCopies, PruneCount, PruneDrop,
                  PruneMember, DeleteCommit, Becomes
    <3>2. \A p \in {"next", "prune", "drop"} : Told([del[b] EXCEPT !.pc = p])
      BY <1>1 DEF IsCall
    <3>3. \A t : Told([del[b] EXCEPT !.pc = "commit", !.to = t])
      BY <1>1 DEF IsCall
    <3>4. \A g \in Memberships(b) : Told([del[b] EXCEPT !.pc = "count", !.gid = g.id])
      BY <1>1 DEF IsCall
    <3>5. Told(IdleBatch)
      BY DEF IdleBatch
    <3> HIDE DEF Told
    <3> QED
      BY <3>1, <3>2, <3>3, <3>4, <3>5
  <2>2. ASSUME NEW i \in Ids, DeleteLoad(b, i) PROVE \E r : Becomes(b, r) /\ Told(r)
    <3> DEFINE p == IF row[i].status = "active" THEN "act" ELSE "next"
               T == del[b].todo \ {i}
               r == [del[b] EXCEPT !.pc = p, !.todo = T, !.id = i]
    <3>1. Becomes(b, r)
      BY <2>2 DEF DeleteLoad, Becomes
    <3>2. p \in {"act", "next"} /\ T \subseteq del[b].todo
      OBVIOUS
    <3> HIDE DEF p, T
    <3>3. Told(r)
      BY <1>1, <3>2 DEF IsCall
    <3> QED
      BY <3>1, <3>3
  <2>3. CASE DeleteDone(b)
    <3>1. Becomes(b, IdleBatch) /\ Told(IdleBatch)
      BY <2>3 DEF DeleteDone, Becomes, IdleBatch
    <3> QED
      BY <3>1
  <2> QED
    BY <1>4, <2>1, <2>2, <2>3 DEF Delete
<1>5. ASSUME Delete(b) PROVE Told(del'[b])
  <2>1. PICK r : Becomes(b, r) /\ Told(r)
    BY <1>4, <1>5
  <2>2. del'[b] = r
    BY <1>2, <2>1
  <2> HIDE DEF Told
  <2> QED
    BY <2>1, <2>2
<1> QED
  BY <1>2, <1>3, <1>4, <1>5 DEF Begun

-----------------------------------------------------------------------------
(* GroupInv is kept: what steps do to rows, then the scan, the table and the *)
(* calls.                                                                    *)

\* The one row a commit touches stays of the picture it was made for.
LEMMA CallRows ==
    ASSUME Shape, NEW b \in Batches, Begun(b) \/ Delete(b)
    PROVE  /\ UNCHANGED scan /\ Ids' = Ids
           /\ \A i \in Ids : row'[i].seen = row[i].seen /\ row'[i].hash = row[i].hash
           /\ ~DeleteCommit(b) => UNCHANGED row
<1>1. UNCHANGED scan /\ (~DeleteCommit(b) => UNCHANGED row)
  BY DEF Begun, Delete, DeleteBegin, DeleteLoad, DeleteMove, DeleteUnlink, DeleteRaises,
         DeleteCopies, DeleteCommit, PruneMember, PruneCount, PruneDrop, DeleteDone
<1>2. CASE UNCHANGED row
  BY <1>1, <1>2 DEF Ids
<1>3. CASE DeleteCommit(b)
  <2> DEFINE i == del[b].id
             place == <<File(b), del[b].to>>
             moved == [row[i] EXCEPT !.at = place, !.status =
                          IF del[b].permanent THEN "deleted" ELSE "moved"]
  <2>1. i \in Ids /\ Len(row') = Len(row) /\ \A j \in Ids \ {i} : row'[j] = row[j]
    BY <1>3, CommitRow
  <2>2. row[i] \in RowRecord /\ row \in Seq(RowRecord)
    BY <2>1, RowTypes DEF Shape
  <2>3. UNCHANGED row \/ row' = [row EXCEPT ![i] = moved]
    BY <1>3 DEF DeleteCommit
  <2>4. moved.seen = row[i].seen /\ moved.hash = row[i].hash
    BY <2>2 DEF RowRecord
  <2> HIDE DEF moved, i
  <2>5. row'[i] \in {moved, row[i]}
    BY <2>1, <2>2, <2>3 DEF Ids
  <2> QED
    BY <1>1, <2>1, <2>4, <2>5 DEF Ids
<1> QED
  BY <1>1, <1>2, <1>3

\* What _process_file writes.
LEMMA WrittenRows ==
    ASSUME Shape, NEW f \in Files, ScanWrite(f)
    PROVE  /\ Ids \subseteq Ids'
           /\ \A i \in Ids :
                \/ row[i].at # At(f) /\ row'[i] = row[i]
                \/ /\ row[i].at = At(f) /\ row'[i].at = At(f)
                   /\ row'[i].status = "active" /\ row'[i].seen = scan.work[f].seen
                   /\ row'[i].hash = IF scan.work[f].needs THEN scan.work[f].hash
                                     ELSE row[i].hash
           /\ \A i \in Ids' \ Ids :
                /\ RowsAt(At(f)) = {} /\ row'[i].at = At(f)
                /\ row'[i].status = "active" /\ row'[i].seen = scan.work[f].seen
                /\ row'[i].hash = IF scan.work[f].needs THEN scan.work[f].hash
                                  ELSE NoPicture
<1> DEFINE w == scan.work[f]
           Fresh(old) == [at |-> At(f), status |-> "active", seen |-> w.seen,
                          hash |-> IF w.needs THEN w.hash ELSE old]
<1>1. \A old : /\ Fresh(old).at = At(f) /\ Fresh(old).status = "active"
               /\ Fresh(old).seen = w.seen
               /\ Fresh(old).hash = IF w.needs THEN w.hash ELSE old
  OBVIOUS
<1>2. row \in Seq(RowRecord) /\ Len(row) \in Nat
  BY RowTypes DEF Shape
<1>3. row' = IF RowsAt(At(f)) = {} THEN Append(row, Fresh(NoPicture))
             ELSE [i \in Ids |-> IF row[i].at = At(f) THEN Fresh(row[i].hash) ELSE row[i]]
  BY DEF ScanWrite
<1> HIDE DEF Fresh
<1>4. CASE RowsAt(At(f)) = {}
  <2>1. row' = Append(row, Fresh(NoPicture))
    BY <1>3, <1>4
  <2>2. /\ Len(row') = Len(row) + 1 /\ row'[Len(row) + 1] = Fresh(NoPicture)
        /\ \A i \in 1..Len(row) : row'[i] = row[i]
    BY <1>2, <2>1, AppendIs
  <2>3. /\ Ids \subseteq Ids' /\ \A i \in Ids' \ Ids : i = Len(row) + 1
    BY <1>2, <2>2 DEF Ids
  <2>4. \A i \in Ids : row[i].at # At(f)
    BY <1>4 DEF RowsAt
  <2>5. /\ \A i \in Ids : row'[i] = row[i]
        /\ \A i \in Ids' \ Ids : row'[i] = Fresh(NoPicture)
    BY <2>2, <2>3 DEF Ids
  <2> HIDE DEF w
  <2>6. \A i \in Ids' \ Ids : /\ row'[i].at = At(f)
                /\ row'[i].status = "active" /\ row'[i].seen = w.seen
                /\ row'[i].hash = IF w.needs THEN w.hash ELSE NoPicture
    BY <1>1, <2>5
  <2> QED
    BY <1>4, <2>3, <2>4, <2>5, <2>6 DEF w
<1>5. CASE RowsAt(At(f)) # {}
  <2>1. row' = [i \in 1..Len(row) |-> IF row[i].at = At(f) THEN Fresh(row[i].hash)
                                      ELSE row[i]]
    BY <1>3, <1>5 DEF Ids
  <2>2. Ids' = Ids /\ Ids \subseteq Ids'
    BY <1>2, <2>1 DEF Ids
  <2> HIDE DEF w
  <2>3. ASSUME NEW i \in Ids
        PROVE  \/ row[i].at # At(f) /\ row'[i] = row[i]
               \/ /\ row[i].at = At(f) /\ row'[i].at = At(f)
                  /\ row'[i].status = "active" /\ row'[i].seen = w.seen
                  /\ row'[i].hash = IF w.needs THEN w.hash ELSE row[i].hash
    <3>1. i \in 1..Len(row)
      BY DEF Ids
    <3>2. CASE row[i].at = At(f)
      <4>1. row'[i] = Fresh(row[i].hash)
        BY <2>1, <3>1, <3>2
      <4> QED
        BY <1>1, <3>2, <4>1
    <3>3. CASE row[i].at # At(f)
      BY <2>1, <3>1, <3>3
    <3> QED
      BY <3>2, <3>3
  <2> QED
    BY <2>2, <2>3 DEF w
<1> QED
  BY <1>4, <1>5

\* No more files are grouped than there are paths.
LEMMA GroupableAreFew ==
    ASSUME Shape, RowsInPlace
    PROVE  /\ Groupable \subseteq Ids
           /\ Cardinality(Groupable) <= Cardinality(Files)
<1> DEFINE path == [i \in Groupable |-> row[i].at[1]]
<1>1. \A i \in Groupable : /\ i \in Ids /\ row[i].at[2] = "here" /\ row[i].at[1] \in Files
                           /\ row[i].at = <<row[i].at[1], row[i].at[2]>>
                           /\ Path(row[i].at) = row[i].at
  BY RowTypes, PathTypes DEF Groupable, RowsInPlace
<1>2. path \in [Groupable -> Files]
  BY <1>1
<1>3. \A i, j \in Groupable : path[i] = path[j] => i = j
  BY <1>1 DEF RowsInPlace
<1>4. path \in Injection(Groupable, Files)
  BY <1>2, <1>3 DEF Injection, IsInjective
<1>5. Cardinality(Groupable) <= Cardinality(Files)
  BY <1>4, FilesAreFew, FS_Injection
<1> QED
  BY <1>1, <1>5

LEMMA ScanTypes ==
    ASSUME Shape, RowsInPlace, ScanTyped, ScanStart \/ Scan
    PROVE  ScanTyped'
<1>1. /\ DOMAIN scan = {"pc", "todo", "work", "files"}
      /\ scan = [k \in DOMAIN scan |-> scan[k]]
      /\ scan.work \in [Files -> WorkRecord]
      /\ \A f \in Files : disk[At(f)] \in MaybePicture
  BY RowTypes DEF Shape, ScanShape
<1>2. IdleScan.pc = "idle" /\ IdleScan.todo = {} /\ \A f \in Files : IdleScan.work[f].pc = "done"
  BY DEF IdleScan, IdleWork
<1>3. CASE ScanStart
  <2>1. /\ scan'.pc = "files" /\ scan'.todo \subseteq DOMAIN Listing
        /\ scan'.work = IdleScan.work /\ UNCHANGED row
    BY <1>3 DEF ScanStart, IdleScan
  <2> QED
    BY <1>2, <2>1 DEF ScanTyped, Ids
<1>4. ASSUME NEW f \in Files, ScanStat(f) PROVE ScanTyped'
  <2>1. /\ scan'.pc = scan.pc /\ scan'.todo \subseteq scan.todo /\ UNCHANGED row
        /\ scan'.files = scan.files
        /\ \A g \in Files \ {f} : scan'.work[g] = scan.work[g]
    BY <1>1, <1>4 DEF ScanStat
  <2>2. scan'.work[f].pc # "done" => scan'.work[f].seen = disk[At(f)] /\ disk[At(f)] # NoPicture
    BY <1>1, <1>4 DEF ScanStat, IdleWork
  <2> QED
    BY <1>1, <2>1, <2>2 DEF ScanTyped, MaybePicture, Ids
<1>5. ASSUME NEW f \in Files, Hashing(f) PROVE ScanTyped'
  <2>1. /\ scan'.pc = scan.pc /\ scan'.todo = scan.todo /\ UNCHANGED row
        /\ scan'.files = scan.files
        /\ \A g \in Files \ {f} : scan'.work[g] = scan.work[g]
        /\ scan.work[f].pc # "done"
    BY <1>1, <1>5 DEF Hashing, ScanHash, ScanHashRaises
  <2>2. scan'.work[f].seen = scan.work[f].seen
    <3> DEFINE w == scan.work[f]
    <3>1. w \in WorkRecord
      BY <1>1
    <3>2. \/ scan'.work[f] = [w EXCEPT !.pc = "write", !.hash = disk[At(f)]]
          \/ scan'.work[f] = [w EXCEPT !.pc = "write"]
          \/ scan'.work[f] = [w EXCEPT !.pc = "raised"]
      BY <1>1, <1>5 DEF Hashing, ScanHash, ScanHashRaises
    <3> QED
      BY <3>1, <3>2 DEF WorkRecord
  <2> QED
    BY <2>1, <2>2 DEF ScanTyped, Ids
<1>6. ASSUME NEW f \in Files, ScanWrite(f) PROVE ScanTyped'
  <2>1. /\ scan'.pc = scan.pc /\ scan'.todo = scan.todo /\ scan'.files = scan.files
        /\ \A g \in Files : scan'.work[g] = scan.work[g] \/ scan'.work[g].pc = "done"
        /\ scan.work[f].pc # "done"
    BY <1>1, <1>6 DEF ScanWrite, IdleWork
  <2>2. \A i \in Ids' : row'[i].seen \in Pictures
    <3>1. scan.work[f].seen \in Pictures /\ \A i \in Ids : row[i].seen \in Pictures
      BY <2>1 DEF ScanTyped
    <3> QED
      BY <1>6, <3>1, WrittenRows
  <2>3. Ids \subseteq Ids'
    BY <1>6, WrittenRows
  <2> QED
    BY <2>1, <2>2, <2>3 DEF ScanTyped
<1>7. CASE ScanClear
  BY <1>1, <1>7 DEF ScanClear, ScanTyped, Ids
<1>8. CASE ScanSelect
  <2>1. /\ scan'.pc = "insert" /\ scan'.todo = scan.todo /\ scan'.work = scan.work
        /\ UNCHANGED row /\ DOMAIN scan'.files = Groupable
    BY <1>1, <1>8 DEF ScanSelect
  <2> QED
    BY <2>1, GroupableAreFew DEF ScanTyped, Ids
<1>9. CASE ScanInsert
  BY <1>2, <1>9 DEF ScanInsert, ScanTyped, Ids
<1> QED
  BY <1>3, <1>4, <1>5, <1>6, <1>7, <1>8, <1>9 DEF Scan, OnFile, Hashing

\* What a scan inserts is fit to be shown.
LEMMA InsertedGroups ==
    ASSUME Shape, ScanTyped, scan.pc = "insert"
    PROVE  /\ \A g \in Groups(scan.files) :
                /\ GroupRow(g) /\ Large(g.members) /\ g.members \subseteq DOMAIN scan.files
                /\ g.kind = "exact" => \A i, j \in g.members :
                        Hash[scan.files[i]] = Hash[scan.files[j]]
           /\ \A g, h \in Groups(scan.files) : g # h =>
                g.id # h.id /\ g.members \cap h.members = {}
<1> DEFINE files == scan.files  n == Len(row)
<1>1. /\ n \in Nat /\ DOMAIN files \in SUBSET (1..n)
      /\ Cardinality(DOMAIN files) <= Cardinality(Files)
  BY RowTypes DEF ScanTyped, Ids
<1>2. IsFiniteSet(DOMAIN files) /\ Cardinality(DOMAIN files) \in Nat
  <2>1. IsFiniteSet(1..n)
    BY <1>1, FS_Interval
  <2> QED
    BY <1>1, <2>1, FS_Subset, FS_CardinalityType
<1>3. /\ \A g \in Groups(files) :
           /\ g = [id |-> g.id, kind |-> g.kind, members |-> g.members]
           /\ g.kind \in {"exact", "near"}
           /\ g.members \subseteq DOMAIN files /\ Large(g.members)
           /\ g.id \in 1..Cardinality(DOMAIN files)
           /\ g.kind = "exact" => \A i, j \in g.members : Hash[files[i]] = Hash[files[j]]
      /\ \A g, h \in Groups(files) : g # h => g.id # h.id /\ g.members \cap h.members = {}
  <2> HIDE DEF files, n
  <2> QED
    BY <1>1, GroupsFormed
<1>4. 1..Cardinality(DOMAIN files) \subseteq 1..Cardinality(Files)
  BY <1>1, <1>2, FilesAreFew
<1>5. DOMAIN files \subseteq Ids
  BY DEF ScanTyped
<1> HIDE DEF files
<1>6. \A g \in Groups(files) : GroupRow(g)
  BY <1>3, <1>4, <1>5 DEF GroupRow
<1> QED
  BY <1>3, <1>6 DEF files

\* A table that only loses groups stays fit, as long as calls attend to small ones.
LEMMA FewerGroups ==
    ASSUME GroupsTyped, Reviewed, group' \subseteq group, Ids \subseteq Ids',
           spent'.crashes = 0 => spent.crashes = 0,
           \A g \in group' : Attended(g) => Attended(g)' \/ Large(g.members)
    PROVE  GroupsTyped' /\ Reviewed'
BY DEF GroupsTyped, GroupRow, Reviewed

LEMMA CrashesStay ==
    ASSUME Shape, [Next]_vars, spent'.crashes = 0
    PROVE  spent.crashes = 0
<1>1. /\ spent["crashes"] \in Nat /\ spent'["crashes"] \in Nat
      /\ spent["crashes"] <= spent'["crashes"]
  BY SpentGrows DEF Shape, Caps
<1> QED
  BY <1>1

\* The table after a scan's step.
LEMMA ScanGroups ==
    ASSUME Shape, ScanTyped, GroupsTyped, Reviewed, ScanStart \/ Scan
    PROVE  GroupsTyped' /\ Reviewed' /\ UNCHANGED del
<1>1. spent'.crashes = 0 => spent.crashes = 0
  BY CrashesStay DEF Next
<1>2. UNCHANGED del
  <2>1. ASSUME NEW f \in Files, OnFile(f)
        PROVE  UNCHANGED del
    BY <2>1 DEF OnFile, Hashing, ScanStat, ScanHash, ScanHashRaises, ScanWrite
  <2> QED
    BY <2>1 DEF ScanStart, Scan, OnFile, Hashing, ScanClear, ScanSelect, ScanInsert
<1>3. \A g : Attended(g) => Attended(g)'
  BY <1>2 DEF Attended
<1>4. CASE ScanInsert
  <2>1. scan.pc = "insert" /\ group' = Groups(scan.files) /\ UNCHANGED row
    BY <1>4 DEF ScanInsert
  <2>2. \A g \in group' : GroupRow(g) /\ GroupRow(g)' /\ Large(g.members)
    BY <2>1, InsertedGroups DEF GroupRow, Ids
  <2>3. GroupsTyped'
    BY <2>1, <2>2, InsertedGroups DEF GroupsTyped
  <2> QED
    BY <1>2, <2>2, <2>3 DEF Reviewed
<1>5. CASE ~ScanInsert
  <2>1. group' \subseteq group
    <3>1. ASSUME NEW f \in Files, OnFile(f)
          PROVE  UNCHANGED group
      BY <3>1 DEF OnFile, Hashing, ScanStat, ScanHash, ScanHashRaises, ScanWrite
    <3> QED
      BY <1>5, <3>1 DEF ScanStart, Scan, OnFile, Hashing, ScanClear, ScanSelect
  <2>2. Ids \subseteq Ids'
    <3>1. ASSUME NEW f \in Files, ScanStat(f) \/ Hashing(f)
          PROVE  UNCHANGED row
      BY <3>1 DEF Hashing, ScanStat, ScanHash, ScanHashRaises
    <3>2. UNCHANGED row => Ids \subseteq Ids'
      BY DEF Ids
    <3> QED
      BY <1>5, <3>1, <3>2, WrittenRows DEF ScanStart, Scan, OnFile, Hashing, ScanClear, ScanSelect
  <2> QED
    BY <1>1, <1>2, <1>3, <2>1, <2>2, FewerGroups
<1> QED
  BY <1>4, <1>5

\* The table after a call's step: a group that becomes too small is the one
\* the call then counts, and drops.
LEMMA CallGroups ==
    ASSUME Shape, GroupsTyped, Reviewed, NEW b \in Batches, Begun(b) \/ Delete(b),
           [Next]_vars
    PROVE  GroupsTyped' /\ Reviewed'
<1>1. spent'.crashes = 0 => spent.crashes = 0
  BY CrashesStay
<1>2. Ids' = Ids
  BY CallRows
<1>3. \A c \in Batches \ {b} : del'[c] = del[c]
  BY CallFields
<1>4. CASE PruneMember(b) /\ Memberships(b) # {}
  <2>1. PICK g \in Memberships(b) :
          /\ group' = (group \ {g}) \union {Without(g, {del[b].id})}
          /\ Becomes(b, [del[b] EXCEPT !.pc = "count", !.gid = g.id])
    BY <1>4 DEF PruneMember, Becomes
  <2> DEFINE w == Without(g, {del[b].id})
  <2>2. g \in group /\ GroupRow(g)
    BY DEF Memberships, GroupsTyped
  <2>3. /\ w.id = g.id /\ w.members \subseteq g.members /\ w.kind = g.kind
        /\ w = [id |-> w.id, kind |-> w.kind, members |-> w.members]
    BY <2>2 DEF Without, GroupRow
  <2>4. del'[b].pc = "count" /\ del'[b].gid = g.id
    <3>1. IsCall(del[b]) /\ del = [c \in Batches |-> del[c]]
      BY DEF Shape, DelShape, CallShape
    <3> QED
      BY <2>1, <3>1 DEF Becomes, IsCall
  <2>5. del[b].pc = "prune"
    BY <1>4 DEF PruneMember
  <2> HIDE DEF w
  <2>6. GroupRow(w)
    BY <2>2, <2>3 DEF GroupRow
  <2>7. \A h \in group' : GroupRow(h)'
    BY <1>2, <2>1, <2>6 DEF w, GroupsTyped, GroupRow
  <2>8. \A h, k \in group' : h # k => h.id # k.id /\ h.members \cap k.members = {}
    <3>1. \A h, k \in group : h # k => h.id # k.id /\ h.members \cap k.members = {}
      BY DEF GroupsTyped
    <3>2. \A h \in group' : h = w \/ (h \in group /\ h # g)
      BY <2>1 DEF w
    <3>3. \A h \in group \ {g} : h.id # w.id /\ h.members \cap w.members = {}
      BY <2>2, <2>3, <3>1
    <3> QED
      BY <3>1, <3>2, <3>3
  <2>9. ASSUME spent'.crashes = 0, NEW h \in group'
        PROVE  Large(h.members) \/ Attended(h)'
    <3>1. CASE h = w
      BY <2>3, <2>4, <3>1 DEF Attended
    <3>2. CASE h # w
      <4>1. h \in group
        BY <2>1, <3>2 DEF w
      <4>2. CASE Attended(h)
        BY <1>3, <2>5, <4>2 DEF Attended
      <4> QED
        BY <1>1, <2>9, <4>1, <4>2 DEF Reviewed
    <3> QED
      BY <3>1, <3>2
  <2> QED
    BY <2>7, <2>8, <2>9 DEF GroupsTyped, Reviewed
<1>5. CASE PruneCount(b)
  <2> DEFINE left == UNION {g.members : g \in {h \in group : h.id = del[b].gid}}
  <2>1. /\ UNCHANGED group /\ del[b].pc = "count"
        /\ Becomes(b, [del[b] EXCEPT !.pc = IF Large(left) THEN "next" ELSE "drop"])
    BY <1>5 DEF PruneCount, Becomes
  <2>2. \A g \in group : g.id = del[b].gid => left = g.members
    <3>1. \A g \in group : g.id = del[b].gid => {h \in group : h.id = del[b].gid} = {g}
      BY DEF GroupsTyped
    <3> QED
      BY <3>1
  <2> HIDE DEF left
  <2>3. del'[b].pc = (IF Large(left) THEN "next" ELSE "drop") /\ del'[b].gid = del[b].gid
    <3> DEFINE p == IF Large(left) THEN "next" ELSE "drop"
    <3>1. IsCall(del[b]) /\ del = [c \in Batches |-> del[c]]
      BY DEF Shape, DelShape, CallShape
    <3>2. Becomes(b, [del[b] EXCEPT !.pc = p])
      BY <2>1
    <3> HIDE DEF p
    <3>3. del'[b].pc = p /\ del'[b].gid = del[b].gid
      BY <3>1, <3>2 DEF Becomes, IsCall
    <3> QED
      BY <3>3 DEF p
  <2>4. ASSUME NEW g \in group', Attended(g) PROVE Attended(g)' \/ Large(g.members)
    <3>1. PICK c \in Batches : del[c].gid = g.id /\ del[c].pc \in {"count", "drop"}
      BY <2>4 DEF Attended
    <3>2. CASE c # b
      BY <1>3, <3>1, <3>2 DEF Attended
    <3>3. CASE c = b
      BY <2>1, <2>2, <2>3, <3>1, <3>3 DEF Attended
    <3> QED
      BY <3>2, <3>3
  <2> QED
    BY <1>1, <1>2, <2>1, <2>4, FewerGroups
<1>6. CASE PruneDrop(b)
  <2>1. group' = {g \in group : g.id # del[b].gid}
    BY <1>6 DEF PruneDrop
  <2>2. \A g \in group' : Attended(g) => Attended(g)'
    BY <1>3, <2>1 DEF Attended
  <2> QED
    BY <1>1, <1>2, <2>1, <2>2, FewerGroups
<1>7. CASE /\ ~PruneCount(b) /\ ~PruneDrop(b)
           /\ ~(PruneMember(b) /\ Memberships(b) # {})
  <2>1. UNCHANGED group /\ del[b].pc \notin {"count", "drop"}
    BY <1>7 DEF Begun, Delete, DeleteBegin, DeleteLoad, DeleteMove, DeleteUnlink,
       DeleteRaises, DeleteCopies, DeleteCommit, PruneMember, DeleteDone
  <2>2. \A g : Attended(g) => Attended(g)'
    BY <1>3, <2>1 DEF Attended
  <2> QED
    BY <1>1, <1>2, <2>1, <2>2, FewerGroups
<1> QED
  BY <1>4, <1>5, <1>6, <1>7

LEMMA StepGroups ==
    ASSUME Shape, RowsInPlace, GroupInv, [Next]_vars
    PROVE  GroupInv'
<1>1. CASE ScanStart \/ Scan
  <2>1. ScanTyped' /\ GroupsTyped' /\ Reviewed' /\ UNCHANGED del
    BY <1>1, ScanTypes, ScanGroups DEF GroupInv
  <2>2. Ids \subseteq Ids'
    <3>1. UNCHANGED row => Ids \subseteq Ids'
      BY DEF Ids
    <3>2. ASSUME NEW f \in Files, ScanStat(f) \/ Hashing(f)
          PROVE  UNCHANGED row
      BY <3>2 DEF Hashing, ScanStat, ScanHash, ScanHashRaises
    <3> QED
      BY <1>1, <3>1, <3>2, WrittenRows DEF ScanStart, Scan, OnFile, Hashing, ScanClear, ScanSelect, ScanInsert
  <2> QED
    BY <2>1, <2>2 DEF GroupInv, CallsTyped, CallTyped
<1>2. ASSUME NEW b \in Batches,
             \/ \E ids \in (SUBSET Shown) \ {{}}, permanent \in BOOLEAN :
                    DeleteBegin(b, ids, permanent)
             \/ Delete(b)
      PROVE  GroupInv'
  <2>1. Begun(b) \/ Delete(b)
    BY <1>2 DEF Begun
  <2>2. /\ UNCHANGED scan /\ Ids' = Ids
        /\ \A i \in Ids : row'[i].seen = row[i].seen
        /\ \A c \in Batches \ {b} : del'[c] = del[c]
    BY <2>1, CallRows, CallFields
  <2>3. CallTyped(del'[b])
    <3>0. 0 \in 0..Cardinality(Files) /\ 1..Cardinality(Files) \subseteq 0..Cardinality(Files)
      BY FilesAreFew
    <3>1. ASSUME NEW ids \in SUBSET Shown, NEW permanent \in BOOLEAN,
                 DeleteBegin(b, ids, permanent)
          PROVE  CallTyped(del'[b])
      <4>1. /\ del'[b].pc = "next" /\ del'[b].todo = ids
            /\ del'[b].permanent = permanent
            /\ del'[b].id = 0 /\ del'[b].gid = 0
        BY <3>1, CallFields
      <4>2. Shown \subseteq Ids
        BY DEF Shown, GroupInv, GroupsTyped, GroupRow
      <4>3. del'[b].permanent \in BOOLEAN
        BY <4>1, Zenon
      <4> QED
        BY <3>0, <4>1, <4>2, <4>3 DEF CallTyped
    <3>2. CASE Delete(b)
      <4>1. CallTyped(del[b])
        BY DEF GroupInv, CallsTyped
      <4>2. /\ del'[b].pc \in {"idle", "next", "act", "commit", "prune", "count", "drop"}
            /\ del'[b].todo \subseteq del[b].todo
            /\ del'[b].permanent \in {del[b].permanent, FALSE}
            /\ del'[b].id \in {del[b].id, 0} \union Ids
            /\ \/ del'[b].gid \in {del[b].gid, 0}
               \/ \E g \in Memberships(b) : del'[b].gid = g.id
        BY <3>2, CallFields
      <4>3. del'[b].permanent \in BOOLEAN
        BY <4>1, <4>2, Zenon DEF CallTyped
      <4>4. \A g \in Memberships(b) : g.id \in 1..Cardinality(Files)
        BY DEF Memberships, GroupInv, GroupsTyped, GroupRow
      <4> QED
        BY <3>0, <4>1, <4>2, <4>3, <4>4 DEF CallTyped
    <3> QED
      BY <1>2, <3>1, <3>2
  <2>4. CallsTyped'
    <3>1. \A c \in Batches : CallTyped(del'[c])
      BY <2>2, <2>3 DEF GroupInv, CallsTyped
    <3> QED
      BY <2>2, <3>1 DEF CallsTyped, CallTyped
  <2>5. GroupsTyped' /\ Reviewed'
    BY <2>1, CallGroups DEF GroupInv
  <2>6. ScanTyped'
    BY <2>2 DEF GroupInv, ScanTyped
  <2> QED
    BY <2>4, <2>5, <2>6 DEF GroupInv
<1>3. CASE (\E p \in Pictures : Save(p)) \/ (\E f \in Files : Vanish(f)) \/ UNCHANGED vars
  <2>1. UNCHANGED <<row, group, scan, del>>
    BY <1>3 DEF Save, Vanish, vars
  <2>2. spent'.crashes = 0 => spent.crashes = 0
    BY CrashesStay
  <2> QED
    BY <2>1, <2>2 DEF GroupInv, ScanTyped, CallsTyped, CallTyped, GroupsTyped, GroupRow,
                      Reviewed, Attended, Ids
<1>4. CASE Crash
  <2>1. /\ UNCHANGED <<row, group>> /\ scan' = IdleScan /\ del' = [b \in Batches |-> IdleBatch]
    BY <1>4 DEF Crash
  <2>2. spent'.crashes # 0
    BY <1>4, TroubleGrows DEF Crash, Shape, Caps
  <2>3. ScanTyped'
    BY <2>1 DEF GroupInv, ScanTyped, IdleScan, IdleWork, Ids
  <2>4. CallsTyped'
    <3>1. 0 \in 0..Cardinality(Files)
      BY FilesAreFew
    <3>2. CallTyped(IdleBatch)'
      BY <3>1 DEF CallTyped, IdleBatch
    <3> QED
      BY <2>1, <3>2 DEF CallsTyped
  <2> QED
    BY <2>1, <2>2, <2>3, <2>4 DEF GroupInv, GroupsTyped, GroupRow, Reviewed, Ids
<1> QED
  BY <1>1, <1>2, <1>3, <1>4 DEF Next

-----------------------------------------------------------------------------
(* MembersHeld is kept.                                                      *)

\* In calm no call works beside a scan.
LEMMA CallsAlone ==
    ASSUME PlaceInv, PlaceInv', Calm, Calm', NEW b \in Batches, Shape,
           Begun(b) \/ Delete(b)
    PROVE  /\ ~Scanning /\ ~Scanning'
           /\ \A f \in Files : scan.work[f].pc = "done"
<1>1. UNCHANGED scan
  BY CallRows
<1>2. CASE Delete(b)
  <2>1. Deleting
    BY <1>2 DEF Deleting, Delete, DeleteLoad, DeleteMove, DeleteUnlink, DeleteRaises,
       DeleteCopies, DeleteCommit, PruneMember, PruneCount, PruneDrop, DeleteDone
  <2> QED
    BY <1>1, <2>1 DEF PlaceInv, Orderly, WorkListed, Scanning
<1>3. CASE Begun(b)
  <2>1. del'[b].pc = "next"
    BY <1>3, CallFields DEF Begun
  <2>2. Deleting'
    BY <2>1 DEF Deleting
  <2>3. ~Scanning'
    BY <2>2 DEF PlaceInv, Orderly
  <2> QED
    BY <1>1, <2>3 DEF PlaceInv, WorkListed, Scanning
<1> QED
  BY <1>2, <1>3

LEMMA ScansAlone ==
    ASSUME PlaceInv, PlaceInv', Calm, Calm', ScanStart \/ Scan
    PROVE  UNCHANGED <<disk, del>> /\ ~Deleting /\ Acting = {} /\ Landing = {}
<1>1. UNCHANGED <<disk, del>>
  <2>1. ASSUME NEW f \in Files, OnFile(f)
        PROVE  UNCHANGED <<disk, del>>
    BY <2>1 DEF OnFile, Hashing, ScanStat, ScanHash, ScanHashRaises, ScanWrite
  <2> QED
    BY <2>1 DEF ScanStart, Scan, OnFile, Hashing, ScanClear, ScanSelect, ScanInsert
<1>2. Scanning \/ Scanning'
  <2>1. ASSUME NEW f \in Files, OnFile(f)
        PROVE  Scanning
    <3>1. scan.todo # {} \/ scan.work[f].pc # "done"
      BY <2>1 DEF OnFile, Hashing, ScanStat, ScanHash, ScanHashRaises, ScanWrite, Admitted
    <3> QED
      BY <3>1 DEF PlaceInv, WorkListed, Scanning
  <2>2. ScanStart => Scanning'
    BY DEF ScanStart, Scanning, IdleScan
  <2> QED
    BY <2>1, <2>2 DEF Scan, OnFile, Hashing, ScanClear, ScanSelect, ScanInsert, Scanning
<1>3. ~Deleting
  BY <1>1, <1>2 DEF PlaceInv, Orderly, Deleting
<1> QED
  BY <1>1, <1>3 DEF Deleting, Acting, Landing

\* In calm a commit is made.
LEMMA CalmCommit ==
    ASSUME Shape, PlaceInv, Calm, NEW b \in Batches, DeleteCommit(b)
    PROVE  /\ del[b].id \in Ids /\ row'[del[b].id].at = Landed(b)
           /\ \A j \in Ids \ {del[b].id} : row'[j] = row[j]
           /\ del'[b].pc = "prune" /\ del'[b].id = del[b].id
           /\ b \in Landing
<1>1. b \in Landing
  BY DEF Landing, DeleteCommit
<1>2. RowsOn(Landed(b)) \subseteq {del[b].id}
  BY <1>1 DEF PlaceInv, Orderly, RowsOn
<1>3. /\ del[b].id \in Ids /\ row'[del[b].id].at = Landed(b)
      /\ \A j \in Ids \ {del[b].id} : row'[j] = row[j]
  BY <1>2, CommitRow DEF Landed
<1>4. Becomes(b, [del[b] EXCEPT !.pc = "prune"])
  BY <1>2 DEF DeleteCommit, Becomes, Landed
<1>5. IsCall(del[b]) /\ del = [c \in Batches |-> del[c]]
  BY DEF Shape, DelShape, CallShape
<1>6. del'[b].pc = "prune" /\ del'[b].id = del[b].id
  BY <1>4, <1>5 DEF Becomes, IsCall
<1> QED
  BY <1>1, <1>3, <1>6

\* Only a commit puts a file into a call's hand to be pruned.
LEMMA PruneHands ==
    ASSUME Shape, NEW b \in Batches, Begun(b) \/ Delete(b), ~DeleteCommit(b)
    PROVE  del'[b].pc # "prune"
<1>1. Begun(b) => del'[b].pc = "next"
  BY CallFields DEF Begun
<1>2. ASSUME NEW r, Becomes(b, r), r.pc # "prune" PROVE del'[b].pc # "prune"
  BY <1>2 DEF Becomes, Shape, DelShape
<1>3. Delete(b) => \E r : Becomes(b, r) /\ r.pc # "prune"
  BY CallSteps DEF Delete, Pruned
<1> QED
  BY <1>1, <1>2, <1>3

\* A scan deactivates nothing, and groups what is active.
LEMMA ScanHolds ==
    ASSUME Shape, PlaceInv, PlaceInv', GroupInv, MembersHeld, Calm, Calm',
           ScanStart \/ Scan
    PROVE  MembersHeld'
<1>1. UNCHANGED del
  BY ScansAlone
<1>2. \A i \in Ids : /\ i \in Ids'
                     /\ row'[i].status = row[i].status \/ row'[i].status = "active"
  <2>1. UNCHANGED row => \A i \in Ids : i \in Ids' /\ row'[i].status = row[i].status
    BY DEF Ids
  <2>2. ASSUME NEW f \in Files, ScanStat(f) \/ Hashing(f)
        PROVE  UNCHANGED row
    BY <2>2 DEF Hashing, ScanStat, ScanHash, ScanHashRaises
  <2>3. ASSUME NEW f \in Files, ScanWrite(f), NEW i \in Ids
        PROVE  i \in Ids' /\ (row'[i].status = row[i].status \/ row'[i].status = "active")
    BY <2>3, WrittenRows
  <2> QED
    BY <2>1, <2>2, <2>3 DEF ScanStart, Scan, OnFile, Hashing, ScanClear, ScanSelect, ScanInsert
<1>3. \A i \in Ids : Held(i) => Held(i)'
  BY <1>1, <1>2 DEF Held, InHand
<1>4. \A g \in group : g.members \subseteq Ids
  BY DEF GroupInv, GroupsTyped, GroupRow
<1>5. CASE ScanInsert
  <2>1. /\ scan.pc = "insert" /\ group' = Groups(scan.files) /\ UNCHANGED row
        /\ scan'.pc = "idle"
    BY <1>5 DEF ScanInsert, IdleScan
  <2>2. \A g \in group' : g.members \subseteq DOMAIN scan.files
    BY <2>1, InsertedGroups DEF GroupInv
  <2> QED
    BY <2>1, <2>2 DEF MembersHeld, Held
<1>6. CASE ScanSelect
  <2>1. /\ UNCHANGED <<row, group>> /\ DOMAIN scan'.files = Groupable
    BY <1>6 DEF ScanSelect, Shape, ScanShape
  <2> QED
    BY <1>3, <1>4, <2>1 DEF MembersHeld, Groupable
<1>7. CASE ~ScanInsert /\ ~ScanSelect
  <2>1. group' \subseteq group /\ scan'.pc # "insert"
    <3>1. ASSUME NEW f \in Files, OnFile(f)
          PROVE  UNCHANGED group /\ scan'.pc = scan.pc /\ scan.pc = "files"
      <4>1. scan.todo # {} \/ scan.work[f].pc # "done"
        BY <3>1 DEF OnFile, Hashing, ScanStat, ScanHash, ScanHashRaises, ScanWrite, Admitted
      <4> QED
        BY <3>1, <4>1 DEF OnFile, Hashing, ScanStat, ScanHash, ScanHashRaises, ScanWrite,
                              Shape, ScanShape, PlaceInv, WorkListed
    <3>2. ScanStart => UNCHANGED group /\ scan'.pc = "files"
      BY DEF ScanStart, IdleScan
    <3>3. ScanClear => group' = {} /\ scan'.pc = "select"
      BY DEF ScanClear, Shape, ScanShape
    <3> QED
      BY <1>7, <3>1, <3>2, <3>3 DEF Scan, OnFile, Hashing
  <2> QED
    BY <1>3, <1>4, <2>1 DEF MembersHeld
<1> QED
  BY <1>5, <1>6, <1>7

\* A call deactivates the one row it then prunes.
LEMMA CallHolds ==
    ASSUME Shape, PlaceInv, PlaceInv', GroupInv, MembersHeld, Calm, Calm',
           NEW b \in Batches, Begun(b) \/ Delete(b)
    PROVE  MembersHeld'
<1>1. ~Scanning' /\ Ids' = Ids
  BY CallsAlone, CallRows
<1>2. SUFFICES \A g \in group' : \A i \in g.members : Held(i)'
  BY <1>1 DEF MembersHeld, Scanning
<1>3. \A c \in Batches \ {b} : del'[c] = del[c]
  BY CallFields
<1>4. \A g \in group : g.members \subseteq Ids /\ \A i \in g.members : Held(i)
  BY DEF MembersHeld, GroupInv, GroupsTyped, GroupRow
<1>5. CASE DeleteCommit(b)
  <2>1. UNCHANGED group /\ del[b].pc = "commit"
    BY <1>5 DEF DeleteCommit
  <2>2. /\ \A j \in Ids \ {del[b].id} : row'[j] = row[j]
        /\ del'[b].pc = "prune" /\ del'[b].id = del[b].id
    BY <1>5, CalmCommit
  <2>3. \A i \in Ids : Held(i) => Held(i)'
    BY <1>3, <2>1, <2>2 DEF Held, InHand
  <2> QED
    BY <1>4, <2>1, <2>3
<1>6. CASE PruneMember(b)
  <2>1. UNCHANGED row /\ del[b].pc = "prune"
    BY <1>6 DEF PruneMember
  <2>2. \A i \in Ids \ {del[b].id} : Held(i) => Held(i)'
    BY <1>3, <2>1 DEF Held, InHand
  <2>3. \A g \in group' : g.members \subseteq Ids \ {del[b].id}
    <3>1. CASE Memberships(b) = {} /\ UNCHANGED group
      BY <1>4, <3>1 DEF Memberships
    <3>2. ASSUME NEW g \in Memberships(b),
                 group' = (group \ {g}) \union {Without(g, {del[b].id})}
          PROVE  \A h \in group' : h.members \subseteq Ids \ {del[b].id}
      <4>1. g \in group /\ GroupRow(g) /\ del[b].id \in g.members
        BY DEF Memberships, GroupInv, GroupsTyped
      <4>2. Without(g, {del[b].id}).members = g.members \ {del[b].id}
        BY <4>1 DEF Without, GroupRow
      <4>3. \A h \in group \ {g} : del[b].id \notin h.members
        BY <4>1 DEF GroupInv, GroupsTyped
      <4> QED
        BY <1>4, <3>2, <4>1, <4>2, <4>3
    <3> QED
      BY <1>6, <3>1, <3>2 DEF PruneMember
  <2>4. \A g \in group' : \A i \in g.members : Held(i)
    <3>1. CASE Memberships(b) = {} /\ UNCHANGED group
      BY <1>4, <3>1
    <3>2. ASSUME NEW g \in Memberships(b),
                 group' = (group \ {g}) \union {Without(g, {del[b].id})}
          PROVE  \A h \in group' : \A i \in h.members : Held(i)
      <4>1. g \in group /\ GroupRow(g)
        BY DEF Memberships, GroupInv, GroupsTyped
      <4>2. Without(g, {del[b].id}).members \subseteq g.members
        BY <4>1 DEF Without, GroupRow
      <4> QED
        BY <1>4, <3>2, <4>1, <4>2
    <3> QED
      BY <1>6, <3>1, <3>2 DEF PruneMember
  <2> QED
    BY <2>2, <2>3, <2>4
<1>7. CASE ~DeleteCommit(b) /\ ~PruneMember(b)
  <2>1. group' \subseteq group /\ UNCHANGED row /\ del[b].pc # "prune"
    BY <1>7 DEF Begun, Delete, DeleteBegin, DeleteLoad, DeleteMove, DeleteUnlink,
       DeleteRaises, DeleteCopies, PruneCount, PruneDrop, DeleteDone
  <2>2. \A i \in Ids : Held(i) => Held(i)'
    BY <1>3, <2>1 DEF Held, InHand
  <2> QED
    BY <1>4, <2>1, <2>2
<1> QED
  BY <1>5, <1>6, <1>7

LEMMA StepHolds ==
    ASSUME Shape, Sorted, PlaceInv, PlaceInv', GroupInv, MembersHeld,
           IsFiniteSet(Pictures), [Next]_vars
    PROVE  MembersHeld'
<1> SUFFICES ASSUME Calm' PROVE MembersHeld'
  BY DEF MembersHeld
<1>1. Calm
  BY CalmEnds
<1>2. CASE (\E p \in Pictures : Save(p)) \/ (\E f \in Files : Vanish(f)) \/ UNCHANGED vars
  <2>1. UNCHANGED <<row, group, scan, del>>
    BY <1>2 DEF Save, Vanish, vars
  <2> QED
    BY <1>1, <2>1 DEF MembersHeld, Held, InHand
<1>3. ~Crash
  BY TroubleGrows DEF Crash, Shape, Caps, Calm
<1> QED
  BY <1>1, <1>2, <1>3, ScanHolds, CallHolds DEF Next, Begun

-----------------------------------------------------------------------------
(* Truthful is kept.                                                         *)

\* A scan's steps on one file.
LEMMA Statted ==
    ASSUME Shape, NEW f \in Files, ScanStat(f)
    PROVE  /\ \A g \in Files \ {f} : scan'.work[g] = scan.work[g]
           /\ scan'.pc = scan.pc /\ scan'.files = scan.files /\ UNCHANGED group
           /\ scan'.work[f].pc # "done" =>
                /\ scan'.work[f].seen = disk[At(f)] /\ scan'.work[f].hash = NoPicture
                /\ scan'.work[f].needs <=> NeedsHashing(f, disk[At(f)])
<1>1. /\ DOMAIN scan = {"pc", "todo", "work", "files"}
      /\ scan = [k \in DOMAIN scan |-> scan[k]]
      /\ scan.work \in [Files -> WorkRecord]
  BY DEF Shape, ScanShape
<1> DEFINE seen == disk[At(f)]
           needs == NeedsHashing(f, seen)
           r == [pc |-> IF needs THEN "hash" ELSE "write", seen |-> seen,
                 needs |-> needs, hash |-> NoPicture]
<1>2. /\ scan'.pc = scan.pc /\ scan'.files = scan.files /\ UNCHANGED group
      /\ \A g \in Files \ {f} : scan'.work[g] = scan.work[g]
      /\ scan'.work[f] = IdleWork \/ scan'.work[f] = r
  BY <1>1 DEF ScanStat
<1>3. r.seen = seen /\ r.hash = NoPicture /\ (r.needs <=> needs) /\ IdleWork.pc = "done"
  BY DEF IdleWork
<1> HIDE DEF r
<1>4. scan'.work[f].pc # "done" => scan'.work[f] = r
  BY <1>2, <1>3
<1>5. scan'.work[f].pc # "done" => (scan'.work[f].needs <=> needs)
  BY <1>3, <1>4, Zenon
<1>6. scan'.work[f].pc # "done" =>
          scan'.work[f].seen = seen /\ scan'.work[f].hash = NoPicture
  BY <1>3, <1>4
<1> QED
  BY <1>2, <1>5, <1>6

LEMMA Hashed ==
    ASSUME Shape, NEW f \in Files, Hashing(f)
    PROVE  /\ \A g \in Files \ {f} : scan'.work[g] = scan.work[g]
           /\ scan'.pc = scan.pc /\ scan'.files = scan.files /\ UNCHANGED group
           /\ scan.work[f].pc # "done"
           /\ scan'.work[f].seen = scan.work[f].seen
           /\ scan'.work[f].needs <=> scan.work[f].needs
           /\ scan'.work[f].hash \in {scan.work[f].hash, disk[At(f)]}
<1>1. /\ DOMAIN scan = {"pc", "todo", "work", "files"}
      /\ scan = [k \in DOMAIN scan |-> scan[k]]
      /\ scan.work \in [Files -> WorkRecord]
  BY DEF Shape, ScanShape
<1> DEFINE w == scan.work[f]
           h == [w EXCEPT !.pc = "write", !.hash = disk[At(f)]]
           n == [w EXCEPT !.pc = "write"]
           d == [w EXCEPT !.pc = "raised"]
<1>2. /\ scan'.pc = scan.pc /\ scan'.files = scan.files /\ UNCHANGED group
      /\ \A g \in Files \ {f} : scan'.work[g] = scan.work[g]
      /\ scan'.work[f] \in {h, n, d} /\ w.pc # "done"
  BY <1>1 DEF Hashing, ScanHash, ScanHashRaises
<1>3. w \in WorkRecord
  BY <1>1
<1>4. /\ h.seen = w.seen /\ h.hash = disk[At(f)] /\ h.needs = w.needs
      /\ n.seen = w.seen /\ n.hash = w.hash /\ n.needs = w.needs
      /\ d.seen = w.seen /\ d.hash = w.hash /\ d.needs = w.needs
  BY <1>3 DEF WorkRecord
<1> HIDE DEF h, n, d
<1>5. scan'.work[f].needs <=> w.needs
  BY <1>2, <1>4
<1> QED
  BY <1>2, <1>4, <1>5

LEMMA Written ==
    ASSUME Shape, NEW f \in Files, ScanWrite(f)
    PROVE  /\ \A g \in Files \ {f} : scan'.work[g] = scan.work[g]
           /\ scan'.pc = scan.pc /\ scan'.files = scan.files /\ UNCHANGED group
           /\ scan.work[f].pc # "done" /\ scan'.work[f].pc = "done"
BY DEF ScanWrite, IdleWork, Shape, ScanShape

\* What is known of a file in work stays true.
LEMMA WorkStaysTrue ==
    ASSUME Shape, PlaceInv, PlaceInv', Calm, Calm', WorkTrue, ScanStart \/ Scan
    PROVE  WorkTrue'
<1>1. UNCHANGED disk
  BY ScansAlone
<1> DEFINE True(g) ==
             /\ scan.work[g].seen = disk[At(g)]
             /\ scan.work[g].hash \in {NoPicture, scan.work[g].seen}
             /\ ~scan.work[g].needs =>
                 \E i \in RowsAt(At(g)) : row[i].seen = scan.work[g].seen
<1>2. ASSUME NEW g \in Files, UNCHANGED row, scan'.work[g] = scan.work[g],
             scan'.work[g].pc # "done"
      PROVE  True(g)'
  BY <1>1, <1>2 DEF WorkTrue, RowsAt, Ids, At
<1>3. ASSUME NEW f \in Files, ScanStat(f), NEW g \in Files, scan'.work[g].pc # "done"
      PROVE  True(g)'
  <2>1. UNCHANGED row
    BY <1>3 DEF ScanStat
  <2>2. CASE g = f
    <3>1. /\ scan'.work[f].seen = disk[At(f)] /\ scan'.work[f].hash = NoPicture
          /\ scan'.work[f].needs <=> NeedsHashing(f, disk[At(f)])
      BY <1>3, <2>2, Statted
    <3>2. ~scan'.work[f].needs =>
            \E i \in RowsAt(At(f)) : row[i].seen = disk[At(f)]
      BY <3>1 DEF NeedsHashing
    <3> QED
      BY <1>1, <2>1, <2>2, <3>1, <3>2 DEF RowsAt, Ids, At
  <2>3. CASE g # f
    BY <1>2, <1>3, <2>1, <2>3, Statted
  <2> QED
    BY <2>2, <2>3
<1>4. ASSUME NEW f \in Files, Hashing(f), NEW g \in Files, scan'.work[g].pc # "done"
      PROVE  True(g)'
  <2>1. UNCHANGED row
    BY <1>4 DEF Hashing, ScanHash, ScanHashRaises
  <2>2. CASE g = f
    <3>1. /\ scan.work[f].pc # "done"
          /\ scan'.work[f].seen = scan.work[f].seen
          /\ scan'.work[f].needs <=> scan.work[f].needs
          /\ scan'.work[f].hash \in {scan.work[f].hash, disk[At(f)]}
      BY <1>4, Hashed
    <3>2. True(f)
      BY <3>1 DEF WorkTrue
    <3> QED
      BY <1>1, <2>1, <2>2, <3>1, <3>2 DEF RowsAt, Ids, At
  <2>3. CASE g # f
    BY <1>2, <1>4, <2>1, <2>3, Hashed
  <2> QED
    BY <2>2, <2>3
<1>5. ASSUME NEW f \in Files, ScanWrite(f), NEW g \in Files, scan'.work[g].pc # "done"
      PROVE  True(g)'
  <2>1. g # f /\ scan'.work[g] = scan.work[g]
    BY <1>5, Written
  <2>2. \A i \in Ids : i \in Ids' /\ (row[i].at = At(g) => row'[i] = row[i])
    <3>1. At(g) # At(f)
      BY <2>1 DEF At
    <3>2. \A i \in Ids : i \in Ids' /\ (row[i].at # At(f) => row'[i] = row[i])
      BY <1>5, WrittenRows
    <3> QED
      BY <3>1, <3>2
  <2>3. True(g)
    BY <1>5, <2>1 DEF WorkTrue
  <2> QED
    BY <1>1, <2>1, <2>2, <2>3 DEF RowsAt, At
<1>6. ASSUME NEW g \in Files, ScanStart \/ ScanClear \/ ScanSelect \/ ScanInsert
      PROVE  scan'.work[g].pc = "done"
  <2>1. CASE ScanStart \/ ScanInsert
    <3>1. scan'.work = IdleScan.work
      BY <2>1 DEF ScanStart, ScanInsert, IdleScan
    <3>2. IdleScan.work[g].pc = "done"
      BY DEF IdleScan, IdleWork
    <3> QED
      BY <3>1, <3>2
  <2>2. CASE ScanClear
    BY <2>2 DEF ScanClear, Shape, ScanShape
  <2>3. CASE ScanSelect
    BY <2>3 DEF ScanSelect, Shape, ScanShape, PlaceInv, WorkListed
  <2> QED
    BY <1>6, <2>1, <2>2, <2>3
<1> HIDE DEF True
<1>7. \A g \in Files : scan'.work[g].pc # "done" => True(g)'
  BY <1>3, <1>4, <1>5, <1>6 DEF Scan, OnFile, Hashing
<1> QED
  BY <1>7 DEF WorkTrue, True

LEMMA ScanStaysTrue ==
    ASSUME Shape, PlaceInv, PlaceInv', GroupInv, Calm, Calm', Truthful, ScanStart \/ Scan
    PROVE  Truthful'
<1>1. WorkTrue'
  BY WorkStaysTrue DEF Truthful
<1>2. UNCHANGED <<disk, del>> /\ Acting = {} /\ Landing = {}
      /\ \A b \in Batches : del[b].pc = "idle"
  BY ScansAlone DEF Deleting
<1>3. CallsTrue'
  BY <1>2 DEF CallsTrue, Acting, Landing
<1>4. RowsTrue'
  <2>1. UNCHANGED row => RowsTrue'
    BY <1>2, RowPaths DEF Truthful, RowsTrue, Held, InHand, Ids
  <2>2. ASSUME NEW f \in Files, ScanWrite(f) PROVE RowsTrue'
    <3> DEFINE w == scan.work[f]
    <3>1. /\ w.seen = disk[At(f)] /\ w.hash \in {NoPicture, w.seen}
          /\ ~w.needs => \E i \in RowsAt(At(f)) : row[i].seen = w.seen
      BY <2>2, Written DEF Truthful, WorkTrue
    <3>2. \A i \in Ids : /\ row[i].hash \in {NoPicture, row[i].seen}
                         /\ Held(i) => disk[Path(row[i].at)] \in {NoPicture, row[i].seen}
      BY DEF Truthful, RowsTrue
    <3>3. /\ \A i, j \in Ids : row[i].at = row[j].at => i = j
          /\ Path(At(f)) = At(f)
      BY PathTypes DEF PlaceInv, RowsInPlace
    <3>4. ASSUME NEW i \in Ids
          PROVE  /\ row'[i].hash \in {NoPicture, row'[i].seen}
                 /\ Held(i)' => disk'[Path(row'[i].at)] \in {NoPicture, row'[i].seen}
      <4>1. CASE row[i].at # At(f) /\ row'[i] = row[i]
        <5>1. Held(i)' => Held(i)
          BY <1>2, <4>1 DEF Held, InHand
        <5> QED
          BY <1>2, <3>2, <4>1, <5>1
      <4>2. CASE /\ row[i].at = At(f) /\ row'[i].at = At(f) /\ row'[i].seen = w.seen
                 /\ row'[i].hash = IF w.needs THEN w.hash ELSE row[i].hash
        <5>1. disk'[Path(row'[i].at)] = row'[i].seen
          BY <1>2, <3>1, <3>3, <4>2
        <5>2. ~w.needs => row[i].seen = w.seen
          BY <3>1, <3>3, <4>2 DEF RowsAt
        <5> QED
          BY <3>1, <3>2, <4>2, <5>1, <5>2
      <4> QED
        BY <2>2, <4>1, <4>2, WrittenRows
    <3>5. ASSUME NEW i \in Ids' \ Ids
          PROVE  /\ row'[i].hash \in {NoPicture, row'[i].seen}
                 /\ disk'[Path(row'[i].at)] \in {NoPicture, row'[i].seen}
      <4>1. /\ row'[i].at = At(f) /\ row'[i].seen = w.seen
            /\ row'[i].hash = IF w.needs THEN w.hash ELSE NoPicture
        BY <2>2, WrittenRows
      <4> QED
        BY <1>2, <3>1, <3>3, <4>1
    <3>6. \A i : Path(row[i].at)' = Path(row'[i].at)
      BY DEF Path
    <3> QED
      BY <3>4, <3>5, <3>6 DEF RowsTrue
  <2>3. ASSUME NEW f \in Files, ScanStat(f) \/ Hashing(f) PROVE UNCHANGED row
    BY <2>3 DEF Hashing, ScanStat, ScanHash, ScanHashRaises
  <2> QED
    BY <2>1, <2>2, <2>3 DEF ScanStart, Scan, OnFile, Hashing, ScanClear, ScanSelect, ScanInsert
<1>5. GroupsTrue'
  <2>1. ASSUME NEW f \in Files, OnFile(f)
        PROVE  GroupsTrue'
    <3>1. scan.todo # {} \/ scan.work[f].pc # "done"
      BY <2>1 DEF OnFile, Hashing, ScanStat, ScanHash, ScanHashRaises, ScanWrite, Admitted
    <3>2. scan.pc = "files"
      BY <3>1 DEF PlaceInv, WorkListed
    <3>3. scan'.pc = "files"
      BY <2>1, <3>2, Statted, Hashed, Written DEF OnFile
    <3> QED
      BY <3>3 DEF GroupsTrue, Scanning
  <2>2. CASE ScanStart
    <3>1. scan'.pc = "files"
      BY <2>2 DEF ScanStart, IdleScan
    <3> QED
      BY <3>1 DEF GroupsTrue, Scanning
  <2>3. CASE ScanClear
    <3>1. scan'.pc = "select" /\ group' = {}
      BY <2>3 DEF ScanClear, Shape, ScanShape
    <3> QED
      BY <3>1 DEF GroupsTrue, Scanning
  <2>4. CASE ScanSelect
    <3>1. /\ scan'.pc = "insert" /\ scan'.files = [i \in Groupable |-> row[i].hash]
          /\ UNCHANGED <<row, group>> /\ scan.pc = "select"
      BY <2>4 DEF ScanSelect, Shape, ScanShape
    <3>2. group = {} /\ \A i \in Groupable : row[i].hash = row[i].seen
      BY <3>1 DEF Truthful, RowsTrue, GroupsTrue, Groupable
    <3> QED
      BY <3>1, <3>2 DEF GroupsTrue, Scanning
  <2>5. CASE ScanInsert
    <3>1. /\ scan'.pc = "idle" /\ scan.pc = "insert" /\ group' = Groups(scan.files)
          /\ UNCHANGED row
      BY <2>5 DEF ScanInsert, IdleScan
    <3>2. \A i \in DOMAIN scan.files : scan.files[i] = row[i].seen
      BY <3>1 DEF Truthful, GroupsTrue
    <3>3. \A g \in group' : /\ g.members \subseteq DOMAIN scan.files
                            /\ g.kind = "exact" => \A i, j \in g.members :
                                Hash[scan.files[i]] = Hash[scan.files[j]]
      BY <3>1, InsertedGroups DEF GroupInv
    <3>4. \A g \in group' : g.kind = "exact" => \A i, j \in g.members :
                Hash[row'[i].seen] = Hash[row'[j].seen]
      <4> SUFFICES ASSUME NEW g \in group', g.kind = "exact", NEW i \in g.members,
                          NEW j \in g.members
                   PROVE  Hash[row'[i].seen] = Hash[row'[j].seen]
        OBVIOUS
      <4>1. /\ scan.files[i] = row[i].seen /\ scan.files[j] = row[j].seen
            /\ Hash[scan.files[i]] = Hash[scan.files[j]]
        BY <3>2, <3>3
      <4> QED
        BY <3>1, <4>1
    <3> QED
      BY <3>1, <3>4 DEF GroupsTrue
  <2> QED
    BY <2>1, <2>2, <2>3, <2>4, <2>5 DEF Scan, OnFile, Hashing
<1> QED
  BY <1>1, <1>3, <1>4, <1>5 DEF Truthful

\* Where a call takes a file away, and to, no row speaks of another picture.
LEMMA TakeStaysTrue ==
    ASSUME Shape, Shape', PlaceInv, PlaceInv', Known', Calm, Calm', RowsTrue, CallsTrue,
           NEW b \in Batches, DeleteMove(b) \/ DeleteUnlink(b)
    PROVE  RowsTrue' /\ CallsTrue'
<1> DEFINE f == File(b)  here == At(f)  land == <<f, del'[b].to>>  i == del[b].id
           there == Path(land)
<1>1. /\ del[b].pc = "act" /\ b \in Acting /\ Real(disk[here]) /\ UNCHANGED row
      /\ i \in Ids /\ f \in Files /\ here \in Places /\ row[i].at[1] = f
      /\ Delete(b)
  <2>1. del[b].pc = "act" /\ Real(disk[here]) /\ UNCHANGED row /\ Delete(b)
    BY DEF DeleteMove, DeleteUnlink, Real, Delete
  <2> QED
    BY <2>1, ActingTypes DEF Acting
<1>2. /\ del'[b].pc = "commit" /\ del'[b].id = i
      /\ \/ DeleteMove(b) /\ del'[b].to = Target(f)
         \/ DeleteUnlink(b) /\ del'[b].to = "here"
  <2>1. \A r : Becomes(b, r) => del'[b] = r
    BY DEF Becomes, Shape, DelShape
  <2> QED
    BY <2>1, CallSteps
<1>3. \A c \in Batches \ {b} : del'[c] = del[c]
  BY <1>1, CallFields
<1>4. /\ b \in Landing' /\ \A c \in Landing' : c = b \/ c \in Landing \ {b}
      /\ \A c \in Acting' : c \in Acting \ {b}
  BY <1>2, <1>3 DEF Landing, Acting
<1>5. /\ \A c \in Batches : File(c)' = File(c)
      /\ \A c \in Batches \ {b} : Landed(c)' = Landed(c)
      /\ Landed(b)' = land
      /\ \A j : Path(row[j].at)' = Path(row[j].at)
      /\ \A c \in Batches : Path(Landed(c))' = Path(Landed(c)')
  <2>1. \A a : Path(a)' = Path(a')
    BY DEF Path
  <2> QED
    BY <1>1, <1>2, <1>3, <2>1 DEF File, Landed, Path
<1>6. row[i].at = here /\ Path(here) = here
  BY <1>1, PathTypes DEF PlaceInv, CallsInPlace
<1>7. \A j \in Ids : Path(row[j].at) = there => j = i
  <2>1. \A j \in Ids' : Path(row[j].at)' = Path(Landed(b))' => j = del'[b].id
    BY <1>4 DEF PlaceInv, Orderly
  <2> QED
    BY <1>1, <1>2, <1>5, <2>1 DEF Ids
<1>8. /\ disk'[here] = NoPicture
      /\ \A a \in Places \ {here, there} : disk'[a] = disk[a]
      /\ DeleteUnlink(b) => \A a \in Places \ {here} : disk'[a] = disk[a]
      /\ DeleteMove(b) => disk'[there] = disk[here] /\ there # here /\ there \in Places
  <2>1. disk \in [Places -> MaybePicture]
    BY DEF Shape
  <2>2. CASE DeleteUnlink(b)
    <3>1. disk' = [disk EXCEPT ![here] = NoPicture]
      BY <2>2 DEF DeleteUnlink
    <3>2. /\ disk'[here] = NoPicture /\ \A a \in Places \ {here} : disk'[a] = disk[a]
      BY <1>1, <2>1, <3>1
    <3>3. DeleteMove(b) => disk'[there] = disk[here] /\ there # here /\ there \in Places
      BY <2>2 DEF DeleteMove, DeleteUnlink
    <3> QED
      BY <3>2, <3>3
  <2>3. CASE DeleteMove(b)
    <3>1. there = Path(<<f, Target(f)>>)
      BY <1>2, <2>3 DEF DeleteMove, DeleteUnlink
    <3>2. there \in Places /\ there # here
      <4>1. Target(f) \in {"staged", "renamed"} /\ <<f, Target(f)>> \in Places
        BY <1>1, ActingTypes
      <4>2. there \in Places /\ there[2] # "here" /\ here[2] = "here"
        BY <3>1, <4>1, PathTypes DEF At
      <4> QED
        BY <4>2
    <3>3. disk' = [disk EXCEPT ![there] = disk[here], ![here] = NoPicture]
      BY <2>3, <3>1 DEF DeleteMove
    <3>4. ~DeleteUnlink(b)
      BY <2>3 DEF DeleteMove, DeleteUnlink
    <3> HIDE DEF there, here
    <3> QED
      BY <1>1, <2>1, <3>2, <3>3, <3>4
  <2> QED
    BY <2>2, <2>3
<1> HIDE DEF f, here, there, i
<1>9. RowsTrue'
  <2>1. Ids' = Ids /\ \A j \in Ids : Path(row[j].at) \in Places
    BY <1>1, RowTypes, PathTypes DEF Ids
  <2>2. \A j : Held(j)' => Held(j)
    BY <1>1, <1>2, <1>3 DEF Held, InHand
  <2>3. ASSUME NEW j \in Ids, Held(j) PROVE disk'[Path(row[j].at)] \in {NoPicture, row[j].seen}
    <3>1. disk[Path(row[j].at)] \in {NoPicture, row[j].seen}
      BY <2>3 DEF RowsTrue
    <3>2. CASE Path(row[j].at) = here
      BY <1>8, <3>2
    <3>3. CASE Path(row[j].at) # here
      <4>1. Path(row[j].at) # there
        BY <1>6, <1>7, <3>3
      <4> QED
        BY <1>8, <2>1, <3>1, <3>3, <4>1
    <3> QED
      BY <3>2, <3>3
  <2> QED
    BY <1>1, <1>5, <2>1, <2>2, <2>3 DEF RowsTrue
<1>10. CallsTrue'
  <2>1. ASSUME NEW c \in Acting', Real(disk'[At(File(c)')])
        PROVE  row'[del'[c].id].status = "active"
    <3>1. c \in Acting \ {b} /\ c \in Batches /\ del[c].pc = "act"
      BY <1>4, <2>1 DEF Acting
    <3>2. File(c)' = File(c) /\ File(c) \in Files /\ At(File(c)) \in Places /\ del'[c] = del[c]
      BY <1>3, <1>5, <3>1, ActingTypes
    <3>3. At(File(c)) # here
      BY <1>8, <2>1, <3>2 DEF Real
    <3>4. At(File(c)) # there \/ DeleteUnlink(b)
      <4>1. DeleteMove(b) => del'[b].to \in {"staged", "renamed"}
        BY <1>2 DEF Target, DeleteMove, DeleteUnlink
      <4>2. DeleteMove(b) => there[2] # "here"
        BY <1>1, <4>1, PathTypes DEF there, f, Places, Slots
      <4>3. At(File(c))[2] = "here"
        BY SlotIs
      <4> QED
        BY <4>2, <4>3
    <3>5. Real(disk[At(File(c))])
      BY <1>8, <2>1, <3>2, <3>3, <3>4
    <3> QED
      BY <1>1, <3>1, <3>2, <3>5 DEF CallsTrue
  <2>2. ASSUME NEW c \in Landing', del'[c].to # "here"
        PROVE  disk'[Path(Landed(c)')] = row'[del'[c].id].seen
    <3>1. CASE c = b
      <4>1. DeleteMove(b)
        BY <1>2, <2>2, <3>1
      <4>2. row[i].status = "active"
        BY <1>1 DEF CallsTrue, here, f, i
      <4>3. disk[here] = row[i].seen
        BY <1>1, <1>6, <4>2 DEF RowsTrue, Held, Real
      <4> QED
        BY <1>1, <1>2, <1>5, <1>8, <3>1, <4>1, <4>3 DEF there
    <3>2. CASE c # b
      <4>1. c \in Landing /\ c \in Batches /\ del[c].pc = "commit" /\ del'[c] = del[c]
        BY <1>3, <1>4, <3>2 DEF Landing
      <4>2. Landed(c)' = Landed(c) /\ Landed(c) \in Places /\ Landed(c) = <<File(c), del[c].to>>
        BY <1>5, <3>2, <4>1, ActingTypes DEF Landed
      <4>3. File(c) # f
        <5>1. \A x, y \in Landing' : File(x)' = File(y)' => x = y
          BY DEF PlaceInv, CallsInPlace
        <5>2. File(c)' = File(c) /\ File(b)' = f
          BY <1>5, <4>1 DEF f
        <5> QED
          BY <1>4, <2>2, <3>2, <5>1, <5>2
      <4>4. Path(Landed(c)) # here /\ Path(Landed(c)) # there /\ Path(Landed(c)) \in Places
        <5>1. Path(Landed(c)) \in Places /\ Path(Landed(c))[2] # "here" /\ here[2] = "here"
          <6>1. Landed(c)[2] # "here"
            BY <2>2, <4>1, <4>2
          <6> QED
            BY <4>2, <6>1, PathTypes, SlotIs DEF here
        <5>2. (Path(Landed(c)) # Path(Landed(b)))'
          <6>1. /\ \E p \in saved' : Home[p] = File(c)
                /\ \E p \in saved' : Home[p] = f
            BY <1>4, <1>5, <2>2, <4>1 DEF Known, f
          <6>2. RenamedTo[f] # <<File(c), "staged">> /\ RenamedTo[File(c)] # <<f, "staged">>
            BY <6>1 DEF Calm
          <6>3. del[c].to \in Slots /\ del'[b].to \in Slots /\ File(c) \in Files
            BY <4>1, ActingTypes DEF Shape, DelShape, CallShape
          <6>4. Path(Landed(c)) # there
            BY <1>1, <4>2, <4>3, <6>2, <6>3, PathsPart DEF there
          <6> QED
            BY <1>5, <3>2, <4>1, <6>4 DEF there
        <5>3. Path(Landed(c))' = Path(Landed(c)) /\ Path(Landed(b))' = there
          BY <1>5, <3>2, <4>1 DEF there
        <5> QED
          BY <5>1, <5>2, <5>3
      <4>5. disk[Path(Landed(c))] = row[del[c].id].seen
        BY <2>2, <4>1 DEF CallsTrue
      <4> QED
        BY <1>1, <1>8, <4>1, <4>2, <4>4, <4>5
    <3> QED
      BY <3>1, <3>2
  <2>3. \A c : At(File(c))' = At(File(c)')
    BY DEF At
  <2> QED
    BY <1>5, <2>1, <2>2, <2>3 DEF CallsTrue, Landing
<1> QED
  BY <1>9, <1>10

\* A call's other steps.
LEMMA CallStaysTrue ==
    ASSUME Shape, Shape', PlaceInv, PlaceInv', Known', GroupInv, Calm, Calm', Truthful,
           NEW b \in Batches, Begun(b) \/ Delete(b)
    PROVE  Truthful'
<1>1. /\ ~Scanning /\ ~Scanning' /\ UNCHANGED scan /\ Ids' = Ids
      /\ \A f \in Files : scan'.work[f].pc = "done"
      /\ \A i \in Ids : row'[i].seen = row[i].seen /\ row'[i].hash = row[i].hash
      /\ \A c \in Batches \ {b} : del'[c] = del[c]
  BY CallsAlone, CallRows, CallFields
<1>2. WorkTrue'
  BY <1>1 DEF WorkTrue
<1>3. RowsTrue /\ CallsTrue /\ GroupsTrue
  BY DEF Truthful
<1>4. GroupsTrue'
  <2>1. \A h \in group' : \E g \in group : h.kind = g.kind /\ h.members \subseteq g.members
    <3>1. ASSUME NEW g \in Memberships(b),
                 group' = (group \ {g}) \union {Without(g, {del[b].id})}
          PROVE  \A h \in group' : \E k \in group :
                    h.kind = k.kind /\ h.members \subseteq k.members
      <4>1. g \in group /\ GroupRow(g)
        BY DEF Memberships, GroupInv, GroupsTyped
      <4>2. /\ Without(g, {del[b].id}).members \subseteq g.members
            /\ Without(g, {del[b].id}).kind = g.kind
        BY <4>1 DEF Without, GroupRow
      <4> QED
        BY <3>1, <4>1, <4>2
    <3>2. CASE group' \subseteq group
      BY <3>2
    <3>3. PruneMember(b) =>
            \/ UNCHANGED group
            \/ \E g \in Memberships(b) :
                group' = (group \ {g}) \union {Without(g, {del[b].id})}
      BY DEF PruneMember
    <3>4. ~PruneMember(b) => group' \subseteq group
      BY DEF Begun, Delete, DeleteBegin, DeleteLoad, DeleteMove, DeleteUnlink,
         DeleteRaises, DeleteCopies, DeleteCommit, PruneCount, PruneDrop, DeleteDone
    <3> QED
      BY <3>1, <3>2, <3>3, <3>4
  <2>2. \A g \in group : g.members \subseteq Ids
    BY DEF GroupInv, GroupsTyped, GroupRow
  <2>3. ASSUME NEW h \in group', h.kind = "exact", NEW i \in h.members, NEW j \in h.members
        PROVE  Hash[row'[i].seen] = Hash[row'[j].seen]
    <3>1. PICK g \in group : h.kind = g.kind /\ h.members \subseteq g.members
      BY <2>1
    <3>2. Hash[row[i].seen] = Hash[row[j].seen] /\ i \in Ids /\ j \in Ids
      BY <1>1, <1>3, <2>2, <2>3, <3>1 DEF GroupsTrue
    <3> QED
      BY <1>1, <3>2
  <2> QED
    BY <1>1, <2>3 DEF GroupsTrue, Scanning
<1>5. RowsTrue' /\ CallsTrue'
  <2>0. ~DeleteCopies(b) /\ \A a : Path(a)' = Path(a')
    <3>1. spent["copies"] \in Nat /\ spent'["copies"] = 0
      BY DEF Shape, Caps, Calm
    <3> QED
      BY <3>1, TroubleGrows DEF Shape, Caps, DeleteCopies, Path
  <2>1. CASE DeleteMove(b) \/ DeleteUnlink(b)
    BY <1>3, <2>1, TakeStaysTrue
  <2>2. CASE DeleteCommit(b)
    <3> DEFINE i == del[b].id
    <3>1. /\ i \in Ids /\ row'[i].at = Landed(b)
          /\ \A j \in Ids \ {i} : row'[j] = row[j]
          /\ del'[b].pc = "prune" /\ del'[b].id = i /\ b \in Landing
      BY <2>2, CalmCommit
    <3>2. UNCHANGED disk /\ del[b].pc = "commit" /\ File(b) = row[i].at[1]
          /\ Landed(b)[1] = File(b) /\ Path(At(File(b))) = At(File(b))
          /\ \A j : Path(row[j].at)' = Path(row'[j].at)
          /\ \A c : Path(Landed(c))' = Path(Landed(c)')
      <4>1. UNCHANGED disk /\ del[b].pc = "commit"
        BY <2>2 DEF DeleteCommit
      <4>2. File(b) \in Files /\ File(b) = row[i].at[1] /\ Landed(b)[1] = File(b)
        BY <4>1, ActingTypes DEF Landed
      <4> QED
        BY <2>0, <4>1, <4>2, PathTypes
    <3>3. ~Real(disk[At(File(b))])
      BY <3>1 DEF PlaceInv, CallsInPlace
    <3> HIDE DEF i
    <3>4. disk[Path(Landed(b))] \in {NoPicture, row[i].seen}
      <4>1. CASE del[b].to = "here"
        BY <3>2, <3>3, <4>1 DEF Landed, At, Real
      <4>2. CASE del[b].to # "here"
        BY <1>3, <3>1, <4>2 DEF CallsTrue, i
      <4> QED
        BY <4>1, <4>2
    <3>5. RowsTrue'
      <4>1. \A j \in Ids \ {i} : Held(j)' => Held(j)
        BY <1>1, <3>1 DEF Held, InHand
      <4> QED
        BY <1>1, <1>3, <3>1, <3>2, <3>4, <4>1 DEF RowsTrue
    <3>6. \A c \in Batches \ {b} : del[c].pc \in {"act", "commit"} =>
            /\ File(c)' = File(c) /\ Landed(c)' = Landed(c) /\ del[c].id \in Ids
            /\ File(c) = row[del[c].id].at[1]
      <4>1. \A j \in Ids : row'[j].at[1] = row[j].at[1]
        BY <3>1, <3>2
      <4> QED
        BY <1>1, <4>1, ActingTypes DEF File, Landed
    <3>7. ASSUME NEW c \in Acting', Real(disk'[At(File(c)')])
          PROVE  row'[del'[c].id].status = "active"
      <4>1. /\ c \in Batches \ {b} /\ del'[c] = del[c] /\ del[c].pc = "act" /\ c \in Acting
        BY <1>1, <3>1 DEF Acting
      <4>2. File(c)' = File(c) /\ del[c].id \in Ids /\ File(c) = row[del[c].id].at[1]
        BY <3>6, <4>1
      <4>3. Real(disk[At(File(c))])
        BY <3>2, <3>7, <4>2
      <4>4. del[c].id # i
        BY <3>2, <3>3, <4>2, <4>3
      <4>5. row[del[c].id].status = "active"
        BY <1>3, <4>1, <4>3 DEF CallsTrue
      <4> QED
        BY <3>1, <4>1, <4>2, <4>4, <4>5
    <3>8. ASSUME NEW c \in Landing', del'[c].to # "here"
          PROVE  disk'[Path(Landed(c)')] = row'[del'[c].id].seen
      <4>1. c \in Batches \ {b} /\ del'[c] = del[c] /\ del[c].pc = "commit" /\ c \in Landing
        BY <1>1, <3>1 DEF Landing
      <4>2. Landed(c)' = Landed(c) /\ del[c].id \in Ids
        BY <3>6, <4>1
      <4>3. disk[Path(Landed(c))] = row[del[c].id].seen
        BY <1>3, <3>8, <4>1 DEF CallsTrue
      <4> QED
        BY <1>1, <3>2, <4>1, <4>2, <4>3
    <3>9. \A c : At(File(c))' = At(File(c)')
      BY DEF At
    <3> QED
      BY <3>2, <3>5, <3>7, <3>8, <3>9 DEF CallsTrue
  <2>3. CASE ~DeleteMove(b) /\ ~DeleteUnlink(b) /\ ~DeleteCommit(b)
    <3>1. UNCHANGED <<disk, row>>
      BY <2>0, <2>3 DEF Begun, Delete, DeleteBegin, DeleteLoad, DeleteRaises, PruneMember,
         PruneCount, PruneDrop, DeleteDone
    <3>2. del'[b].pc # "prune"
      BY <2>3, PruneHands
    <3>3. RowsTrue'
      <4>1. \A j : Held(j)' => Held(j)
        BY <1>1, <3>1, <3>2 DEF Held, InHand
      <4> QED
        BY <1>1, <1>3, <3>1, <4>1, RowPaths DEF RowsTrue
    <3>4. \A c \in Batches \ {b} : File(c)' = File(c) /\ Landed(c)' = Landed(c)
      BY <1>1, <3>1 DEF File, Landed
    <3>5. /\ del'[b].pc # "commit"
          /\ del'[b].pc = "act" => row[del'[b].id].status = "active"
      <4>1. \A r : Becomes(b, r) => del'[b] = r
        BY DEF Becomes, Shape, DelShape
      <4>2. Begun(b) \/ DeleteRaises(b) \/ Pruned(b) => del'[b].pc \notin {"commit", "act"}
        BY <4>1, CallSteps
      <4>3. \A i \in Ids : DeleteLoad(b, i) =>
              /\ del'[b].id = i
              /\ del'[b].pc = IF row[i].status = "active" THEN "act" ELSE "next"
        BY <4>1, CallSteps
      <4> QED
        BY <2>0, <2>3, <4>2, <4>3 DEF Delete, Pruned
    <3>6. CallsTrue'
      <4>1. \A c : At(File(c))' = At(File(c)') /\ Path(Landed(c))' = Path(Landed(c)')
        BY DEF At, Path
      <4>2. \A c \in Landing' : c \in Landing /\ c \in Batches \ {b}
        BY <1>1, <3>5 DEF Landing
      <4>3. \A c \in Acting' : \/ c \in Acting /\ c \in Batches \ {b}
                               \/ c = b /\ del'[b].pc = "act"
        BY <1>1 DEF Acting
      <4> QED
        BY <1>1, <1>3, <3>1, <3>4, <3>5, <4>1, <4>2, <4>3 DEF CallsTrue
    <3> QED
      BY <3>3, <3>6
  <2> QED
    BY <2>1, <2>2, <2>3
<1> QED
  BY <1>2, <1>4, <1>5 DEF Truthful

\* A picture is saved where none was, and no row in use says there is one.
LEMMA SaveStaysTrue ==
    ASSUME Shape, PlaceInv, GroupInv, Calm, Truthful, NEW p \in Pictures, Save(p)
    PROVE  Truthful'
<1> DEFINE h == At(Home[p])
<1>1. /\ UNCHANGED <<row, group, scan, del>> /\ ~Deleting /\ ~Real(disk[h])
      /\ disk' = [disk EXCEPT ![h] = p]
  BY DEF Save, Real
<1>2. Home[p] \in Files /\ h \in Places
  BY PicturesAssumption, RowTypes
<1> HIDE DEF h
<1>3. \A a \in Places : Real(disk[a]) => disk'[a] = disk[a]
  BY <1>1, <1>2 DEF Shape
<1>4. Acting = {} /\ Landing = {} /\ \A i, pcs : "idle" \notin pcs => ~InHand(i, pcs)
  BY <1>1 DEF Deleting, Acting, Landing, InHand
<1>5. WorkTrue'
  <2>1. \A f \in Files : scan.work[f].pc # "done" => Real(disk[At(f)]) /\ At(f) \in Places
    BY RowTypes DEF PlaceInv, Orderly
  <2>2. \A f \in Files : scan.work[f].pc # "done" => disk'[At(f)] = disk[At(f)]
    BY <1>3, <2>1
  <2> QED
    BY <1>1, <2>2 DEF Truthful, WorkTrue, RowsAt, Ids, At
<1>6. RowsTrue'
  <2>1. ASSUME NEW i \in Ids, Held(i) PROVE disk'[Path(row[i].at)] = disk[Path(row[i].at)]
    <3>1. row[i].status = "active" /\ row[i].at \in Places /\ Path(row[i].at) = row[i].at
      BY <1>4, <2>1, RowTypes, PathTypes DEF Held, PlaceInv, RowsInPlace
    <3>2. Real(disk[row[i].at])
      BY <1>4, <3>1 DEF PlaceInv, ActiveIsThere, Real
    <3> QED
      BY <1>3, <3>1, <3>2
  <2> QED
    BY <1>1, <2>1, RowPaths DEF Truthful, RowsTrue, Held, InHand, Ids
<1>7. CallsTrue'
  BY <1>1, <1>4 DEF CallsTrue, Acting, Landing
<1>8. GroupsTrue'
  BY <1>1 DEF Truthful, GroupsTrue, Scanning
<1> QED
  BY <1>5, <1>6, <1>7, <1>8 DEF Truthful

LEMMA StepStaysTrue ==
    ASSUME Shape, Shape', Sorted, PlaceInv, PlaceInv', Known', GroupInv, Truthful,
           IsFiniteSet(Pictures), [Next]_vars
    PROVE  Truthful'
<1> SUFFICES ASSUME Calm' PROVE Truthful'
  BY DEF Truthful
<1>1. Calm
  BY CalmEnds
<1>2. CASE UNCHANGED vars
  BY <1>1, <1>2 DEF vars, Truthful, WorkTrue, RowsTrue, CallsTrue, GroupsTrue, Held, InHand,
     RowsAt, Ids, At, Path, Acting, Landing, Landed, File, Scanning
<1>3. ~Crash /\ \A f \in Files : ~Vanish(f)
  BY TroubleGrows DEF Crash, Vanish, Shape, Caps, Calm
<1> QED
  BY <1>1, <1>2, <1>3, ScanStaysTrue, CallStaysTrue, SaveStaysTrue DEF Next, Begun

-----------------------------------------------------------------------------
(* The theorems about the groups.                                           *)

CleanupInv == Shape /\ PictureInv /\ PlaceInv /\ Known /\ GroupInv /\ MembersHeld /\ Truthful

\* All of it together is inductive.
LEMMA CleanupInvariant ==
    ASSUME IsFiniteSet(Pictures)
    PROVE  Spec => []CleanupInv
<1>1. Init => CleanupInv
  BY InitShape, InitPictures, InitPlaces, InitGroups DEF CleanupInv
<1>2. CleanupInv /\ [Next]_vars => CleanupInv'
  <2> SUFFICES ASSUME CleanupInv, [Next]_vars PROVE CleanupInv'
    OBVIOUS
  <2>1. Shape' /\ PictureInv' /\ PlaceInv' /\ Known'
    BY ShapeKept, StepKeepsPictures, StepPlaces, StepKnown DEF CleanupInv, PictureInv
  <2>2. GroupInv'
    BY StepGroups DEF CleanupInv, PlaceInv
  <2>3. MembersHeld' /\ Truthful'
    BY <2>1, StepHolds, StepStaysTrue DEF CleanupInv, PictureInv
  <2> QED
    BY <2>1, <2>2, <2>3 DEF CleanupInv
<1> QED
  BY <1>1, <1>2, PTL DEF Spec

\* Every step leaves the tables, the scan and the calls what they are: in
\* particular the ids of groups formed anew stay within the number of files,
\* and what a call is asked for are rows.
THEOREM TypeCorrect ==
    ASSUME IsFiniteSet(Pictures)
    PROVE  Spec => []TypeOK
<1>1. ASSUME CleanupInv PROVE TypeOK
  <2>1. disk \in [Places -> Pictures \union {NoPicture}]
    BY <1>1 DEF CleanupInv, Shape, MaybePicture
  <2>2. \A i \in Ids : row[i] \in
          [at : Places, status : {"active", "moved", "deleted"},
           seen : Pictures, hash : Pictures \union {NoPicture}]
    <3>1. \A i \in Ids : row[i] \in RowRecord /\ row[i].seen \in Pictures
      BY <1>1, RowTypes DEF CleanupInv, GroupInv, ScanTyped
    <3> QED
      BY <3>1 DEF RowRecord, MaybePicture
  <2>3. \A i, j \in Ids : Path(row[i].at) = Path(row[j].at) => i = j
    BY <1>1 DEF CleanupInv, PlaceInv, RowsInPlace
  <2>4. \A g \in group : /\ g.members \subseteq Ids
                         /\ g.kind \in {"exact", "near"}
                         /\ \A h \in group : g.id = h.id => g = h
    BY <1>1 DEF CleanupInv, GroupInv, GroupsTyped, GroupRow
  <2>5. /\ scan.pc \in {"idle", "files", "select", "insert"}
        /\ scan.todo \subseteq DOMAIN Listing
    BY <1>1 DEF CleanupInv, GroupInv, ScanTyped
  <2>6. scan.work \in [Files ->
          [pc : {"done", "hash", "write", "raised"}, needs : BOOLEAN,
           seen : Pictures \union {NoPicture}, hash : Pictures \union {NoPicture}]]
    BY <1>1 DEF CleanupInv, Shape, ScanShape, WorkRecord, MaybePicture
  <2>7. \A b \in Batches : del[b] \in
          [pc : {"idle", "next", "act", "commit", "prune", "count", "drop"},
           todo : SUBSET Ids, permanent : BOOLEAN, id : Ids \union {0},
           to : Slots, gid : 0..Cardinality(Files)]
    <3>1. \A b \in Batches : CallShape(del[b]) /\ CallTyped(del[b])
      BY <1>1 DEF CleanupInv, Shape, DelShape, GroupInv, CallsTyped
    <3> QED
      BY <3>1 DEF CallShape, IsCall, CallTyped
  <2>8. purged \subseteq saved /\ saved \subseteq Pictures
    BY <1>1 DEF CleanupInv, PictureInv, Sorted
  <2> QED
    BY <2>1, <2>2, <2>3, <2>4, <2>5, <2>6, <2>7, <2>8 DEF TypeOK
<1> QED
  BY <1>1, CleanupInvariant, PTL

\* The groups are fit for review: no file is in two of them, and as long as the
\* backend lives a group of less than two is one that a call is about to count
\* and drop, also when several calls prune the same group, or a scan forms the
\* groups anew under them.
THEOREM GroupsReviewable ==
    ASSUME IsFiniteSet(Pictures)
    PROVE  Spec => []GroupsAreReviewable
<1>1. CleanupInv => GroupsAreReviewable
  BY DEF CleanupInv, GroupInv, GroupsTyped, Reviewed, Attended, GroupsAreReviewable
<1> QED
  BY <1>1, CleanupInvariant, PTL

\* In calm a moved or deleted file is in no group, except until the call that
\* moved it prunes it.
THEOREM GroupsActive ==
    ASSUME IsFiniteSet(Pictures)
    PROVE  Spec => []GroupsAreActive
<1>1. CleanupInv => GroupsAreActive
  BY DEF CleanupInv, MembersHeld, Held, GroupsAreActive
<1> QED
  BY <1>1, CleanupInvariant, PTL

\* In calm the files of an exact group have one content on the disk: rows are
\* of what lies there, however files come, go and are scanned again.
THEOREM ExactExact ==
    ASSUME IsFiniteSet(Pictures)
    PROVE  Spec => []ExactIsExact
<1>1. ASSUME CleanupInv, Calm, ~Scanning, NEW g \in group, g.kind = "exact",
             NEW p \in {disk[Path(row[i].at)] : i \in g.members} \ {NoPicture},
             NEW q \in {disk[Path(row[i].at)] : i \in g.members} \ {NoPicture}
      PROVE  Hash[p] = Hash[q]
  <2>1. PICK i \in g.members : p = disk[Path(row[i].at)]
    OBVIOUS
  <2>2. PICK j \in g.members : q = disk[Path(row[j].at)]
    OBVIOUS
  <2>3. i \in Ids /\ j \in Ids /\ Held(i) /\ Held(j)
    BY <1>1 DEF CleanupInv, GroupInv, GroupsTyped, GroupRow, MembersHeld
  <2>4. RowsTrue /\ GroupsTrue
    BY <1>1 DEF CleanupInv, Truthful
  <2>5. p = row[i].seen /\ q = row[j].seen
    BY <2>1, <2>2, <2>3, <2>4 DEF RowsTrue
  <2> QED
    BY <1>1, <2>4, <2>5 DEF GroupsTrue
<1>2. CleanupInv => ExactIsExact
  BY <1>1 DEF ExactIsExact
<1> QED
  BY <1>2, CleanupInvariant, PTL
=============================================================================
