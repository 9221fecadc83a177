-------------------------- MODULE EvacuationProofs --------------------------
(***************************************************************************)
(* Proofs about verifyEvacuationFeasibility, for any number of pods and    *)
(* nodes.  The amounts that it compares are sums over sets, defined by     *)
(* recursion.  Facts about them are proved with a smallest counterexample  *)
(* among the subsets of a finite set, which takes the place of induction.  *)
(***************************************************************************)
EXTENDS Evacuation, FiniteSetTheorems, TLAPS

-----------------------------------------------------------------------------
(* Sums.                                                                   *)

(* Among some subsets of a finite set there is one without a smaller one. *)
LEMMA SmallestSubset ==
  ASSUME NEW S, IsFiniteSet(S), NEW T \in SUBSET (SUBSET S), T # {}
  PROVE  \E x \in T : \A y \in T : y \subseteq x => y = x
<1>1. IsWellFoundedOn(StrictSubsetOrdering(S), SUBSET S)
  BY FS_StrictSubsetOrderingWellFounded, FS_FiniteSubsetsOfFinite
<1>2. PICK x \in T : \A y \in T : ~(<<y, x>> \in StrictSubsetOrdering(S))
  BY <1>1, WFMin
<1> QED
  BY <1>2, Zenon DEF StrictSubsetOrdering

(* The element that MapThenSumSet takes next, and what it makes of the     *)
(* sums of the smaller sets.                                               *)
Taken(s) == CHOOSE x \in s : TRUE

Recursion(g, S, w) ==
  [s \in SUBSET S |-> IF s = {} THEN 0 ELSE w[Taken(s)] + g[s \ {Taken(s)}]]

Sums(S, w) == CHOOSE g : g = Recursion(g, S, w)

Sum(S, w) == Sums(S, w)[S]

(* Adding up is possible: the sums of the sets with up to k elements give  *)
(* those of the sets with one more.                                        *)
UpTo(S, k) == {s \in SUBSET S : Cardinality(s) <= k}

Adds(g, S, w, k) ==
  /\ g \in [UpTo(S, k) -> Int]
  /\ \A s \in UpTo(S, k) : g[s] = IF s = {} THEN 0 ELSE w[Taken(s)] + g[s \ {Taken(s)}]

LEMMA OneLess ==
  ASSUME NEW S, IsFiniteSet(S), NEW s \in SUBSET S, s # {}
  PROVE  /\ Taken(s) \in s /\ s \ {Taken(s)} \in SUBSET S
         /\ Cardinality(s) \in Nat \ {0}
         /\ Cardinality(s \ {Taken(s)}) = Cardinality(s) - 1
<1>1. Taken(s) \in s
  BY DEF Taken
<1>2. IsFiniteSet(s)
  BY FS_Subset
<1> QED
  BY <1>1, <1>2, FS_CardinalityType, FS_EmptySet, FS_RemoveElement, Zenon

LEMMA AddsOneMore ==
  ASSUME NEW S, IsFiniteSet(S), NEW w \in [S -> Int], NEW k \in Nat, NEW g, Adds(g, S, w, k)
  PROVE  \E h : Adds(h, S, w, k + 1)
<1> DEFINE h == [s \in UpTo(S, k + 1) |->
                   IF s = {} THEN 0 ELSE w[Taken(s)] + g[s \ {Taken(s)}]]
<1>1. ASSUME NEW s \in UpTo(S, k + 1), s # {}
      PROVE  /\ Taken(s) \in S /\ s \ {Taken(s)} \in UpTo(S, k)
  BY <1>1, OneLess DEF UpTo
<1>2. UpTo(S, k) \subseteq UpTo(S, k + 1)
  BY FS_Subset, FS_CardinalityType DEF UpTo
<1>3. \A s \in UpTo(S, k) : h[s] = g[s]
  BY <1>2 DEF Adds
<1>4. h \in [UpTo(S, k + 1) -> Int]
  <2> SUFFICES ASSUME NEW s \in UpTo(S, k + 1), s # {}
               PROVE  w[Taken(s)] + g[s \ {Taken(s)}] \in Int
    OBVIOUS
  <2>1. w[Taken(s)] \in Int /\ g[s \ {Taken(s)}] \in Int
    BY <1>1 DEF Adds
  <2> QED
    BY <2>1
<1>5. \A s \in UpTo(S, k + 1) : h[s] = IF s = {} THEN 0 ELSE w[Taken(s)] + h[s \ {Taken(s)}]
  BY <1>1, <1>3, Zenon
<1> HIDE DEF h
<1> QED
  BY <1>4, <1>5, Zenon DEF Adds

LEMMA AddsUpTo ==
  ASSUME NEW S, IsFiniteSet(S), NEW w \in [S -> Int]
  PROVE  \A k \in Nat : \E g : Adds(g, S, w, k)
<1> DEFINE T == {k \in Nat : ~\E g : Adds(g, S, w, k)}
<1> SUFFICES ASSUME T # {} PROVE FALSE
  OBVIOUS
<1>1. PICK k \in T : \A j \in T : ~(<<j, k>> \in OpToRel(<, Nat))
  BY NatLessThanWellFounded, WFMin, Zenon
<1>2. \A j \in T : ~(j < k)
  BY <1>1, Zenon DEF OpToRel
<1>3. k # 0
  <2>1. UpTo(S, 0) = {{}}
    BY FS_EmptySet, FS_Subset, FS_CardinalityType DEF UpTo
  <2>2. Adds([s \in {{}} |-> 0], S, w, 0)
    BY <2>1 DEF Adds
  <2> QED
    BY <2>2
<1>4. k - 1 \in Nat /\ k - 1 \notin T
  BY <1>2, <1>3
<1>5. PICK g : Adds(g, S, w, k - 1)
  BY <1>4
<1>6. \E h : Adds(h, S, w, k - 1 + 1)
  BY <1>4, <1>5, AddsOneMore
<1> QED
  BY <1>4, <1>6

(* So the recursive definition defines the sums of all subsets. *)
AreSums(g, S, w) ==
  \A s \in SUBSET S : g[s] = IF s = {} THEN 0 ELSE w[Taken(s)] + g[s \ {Taken(s)}]

LEMMA SumsRecursion ==
  ASSUME NEW S, IsFiniteSet(S), NEW w \in [S -> Int]
  PROVE  AreSums(Sums(S, w), S, w)
<1>1. Cardinality(S) \in Nat /\ UpTo(S, Cardinality(S)) = SUBSET S
  BY FS_Subset, FS_CardinalityType DEF UpTo
<1>2. PICK g : Adds(g, S, w, Cardinality(S))
  BY <1>1, AddsUpTo
<1>3. g = Recursion(g, S, w)
  BY <1>1, <1>2 DEF Adds, Recursion
<1>4. Sums(S, w) = Recursion(Sums(S, w), S, w)
  BY <1>3 DEF Sums
<1> QED
  BY <1>4, Zenon DEF Recursion, AreSums

LEMMA SumsAreIntegers ==
  ASSUME NEW S, IsFiniteSet(S), NEW w \in [S -> Int], NEW s \in SUBSET S
  PROVE  Sums(S, w)[s] \in Int
<1> DEFINE g == Sums(S, w)
<1>1. AreSums(g, S, w)
  BY SumsRecursion
<1> HIDE DEF g
<1> DEFINE T == {t \in SUBSET S : g[t] \notin Int}
<1> SUFFICES ASSUME T # {} PROVE FALSE
  BY DEF g
<1>2. T \in SUBSET (SUBSET S)
  OBVIOUS
<1> HIDE DEF T
<1>3. PICK t \in T : \A u \in T : u \subseteq t => u = t
  BY <1>2, SmallestSubset
<1>4. t \in SUBSET S /\ g[t] \notin Int
  BY DEF T
<1>5. t # {} /\ g[t] = w[Taken(t)] + g[t \ {Taken(t)}]
  BY <1>1, <1>4 DEF AreSums
<1>6. Taken(t) \in t /\ t \ {Taken(t)} \in SUBSET S
  BY <1>4, <1>5, OneLess, Zenon
<1>7. t \ {Taken(t)} \notin T
  BY <1>3, <1>6
<1>8. g[t \ {Taken(t)}] \in Int /\ w[Taken(t)] \in Int
  BY <1>4, <1>6, <1>7 DEF T
<1> QED
  BY <1>4, <1>5, <1>8

(* The order in which the elements are taken does not matter. *)
LEMMA SumsTakeAny ==
  ASSUME NEW S, IsFiniteSet(S), NEW w \in [S -> Int], NEW s \in SUBSET S, NEW x \in s
  PROVE  Sums(S, w)[s] = w[x] + Sums(S, w)[s \ {x}]
<1> DEFINE g == Sums(S, w)
<1>1. \A t \in SUBSET S : g[t] \in Int
  BY SumsAreIntegers
<1>2. AreSums(g, S, w)
  BY SumsRecursion
<1> HIDE DEF g
<1> DEFINE T == {t \in SUBSET S : \E y \in t : g[t] # w[y] + g[t \ {y}]}
<1> SUFFICES ASSUME T # {} PROVE FALSE
  BY Zenon DEF g
<1>3. T \in SUBSET (SUBSET S)
  OBVIOUS
<1> HIDE DEF T
<1>4. PICK t \in T : \A u \in T : u \subseteq t => u = t
  BY <1>3, SmallestSubset
<1>5. PICK y \in t : t \in SUBSET S /\ g[t] # w[y] + g[t \ {y}]
  BY DEF T
<1>6. PICK c \in t : g[t] = w[c] + g[t \ {c}]
  BY <1>2, <1>5, OneLess, Zenon DEF AreSums
<1>7. y # c
  BY <1>5, <1>6, Zenon
<1>8. ASSUME NEW a \in t, NEW b \in t \ {a}
      PROVE  g[t \ {a}] = w[b] + g[(t \ {a}) \ {b}]
  <2>1. t \ {a} \in SUBSET S /\ t \ {a} \notin T
    BY <1>4, <1>5
  <2> QED
    BY <2>1, Zenon DEF T
<1>9. g[t \ {c}] = w[y] + g[(t \ {c}) \ {y}] /\ g[t \ {y}] = w[c] + g[(t \ {y}) \ {c}]
  BY <1>7, <1>8, Zenon
<1>10. (t \ {c}) \ {y} = (t \ {y}) \ {c} /\ (t \ {y}) \ {c} \in SUBSET S
  BY <1>5
<1>11. PICK z \in Int : g[t \ {c}] = w[y] + z /\ g[t \ {y}] = w[c] + z
  BY <1>1, <1>9, <1>10, Zenon
<1>12. w[c] \in Int /\ w[y] \in Int
  BY <1>5
<1> QED
  BY <1>5, <1>6, <1>11, <1>12

(* The sum over a set is the same within a larger one. *)
LEMMA SumsWithin ==
  ASSUME NEW U, IsFiniteSet(U), NEW w \in [U -> Int], NEW S \in SUBSET U
  PROVE  Sums(U, w)[S] = Sum(S, [x \in S |-> w[x]])
<1> DEFINE v == [x \in S |-> w[x]]
           g == Sums(U, w)
           h == Sums(S, v)
<1>1. IsFiniteSet(S) /\ v \in [S -> Int] /\ \A x \in S : v[x] = w[x]
  BY FS_Subset
<1> HIDE DEF v
<1>2. AreSums(g, U, w)
  BY SumsRecursion
<1>3. AreSums(h, S, v)
  BY <1>1, SumsRecursion
<1> HIDE DEF g, h
<1> DEFINE T == {t \in SUBSET S : g[t] # h[t]}
<1> SUFFICES ASSUME T # {} PROVE FALSE
  BY DEF Sum, g, h, v
<1>4. T \in SUBSET (SUBSET S)
  OBVIOUS
<1> HIDE DEF T
<1>5. PICK t \in T : \A u \in T : u \subseteq t => u = t
  BY <1>1, <1>4, SmallestSubset
<1>6. t \in SUBSET S /\ g[t] # h[t]
  BY DEF T
<1>7. t # {}
  BY <1>2, <1>3, <1>6 DEF AreSums
<1>8. Taken(t) \in t
  BY <1>7 DEF Taken
<1>9. g[t \ {Taken(t)}] = h[t \ {Taken(t)}]
  BY <1>5, <1>6, <1>8 DEF T
<1>10. w[Taken(t)] = v[Taken(t)]
  BY <1>1, <1>6, <1>8
<1> QED
  BY <1>2, <1>3, <1>6, <1>7, <1>9, <1>10, Zenon DEF AreSums

(* A sum without one of its elements, and the sum of nothing. *)
LEMMA SumLess ==
  ASSUME NEW S, IsFiniteSet(S), NEW w \in [S -> Int], NEW x \in S
  PROVE  /\ Sum(S, w) \in Int /\ w[x] \in Int
         /\ Sum(S \ {x}, [y \in S \ {x} |-> w[y]]) \in Int
         /\ Sum(S, w) = w[x] + Sum(S \ {x}, [y \in S \ {x} |-> w[y]])
<1>1. Sums(S, w)[S] = w[x] + Sums(S, w)[S \ {x}]
  BY SumsTakeAny
<1>2. Sums(S, w)[S \ {x}] = Sum(S \ {x}, [y \in S \ {x} |-> w[y]])
  BY SumsWithin
<1>3. Sums(S, w)[S] \in Int /\ Sums(S, w)[S \ {x}] \in Int
  BY SumsAreIntegers
<1> QED
  BY <1>1, <1>2, <1>3 DEF Sum

LEMMA SumOfNothing ==
  ASSUME NEW w \in [{} -> Int] PROVE Sum({}, w) = 0
<1>1. AreSums(Sums({}, w), {}, w)
  BY SumsRecursion, FS_EmptySet, Zenon
<1> QED
  BY <1>1, SMTT(20) DEF AreSums, Sum

(* What pods request together. *)
Sizes(pods, r) == [p \in pods |-> podSize(p, r)]

LEMMA RequestsAreSums ==
  ASSUME NEW pods, NEW r PROVE totalRequests(pods, r) = Sum(pods, Sizes(pods, r))
<1> DEFINE Direct(g) == [s \in SUBSET pods |->
              IF s = {} THEN 0 ELSE podSize(Taken(s), r) + g[s \ {Taken(s)}]]
<1>1. totalRequests(pods, r) = (CHOOSE g : g = Direct(g))[pods]
  BY DEF totalRequests, MapThenSumSet, MapThenFoldSet, Taken
<1>2. ASSUME NEW g PROVE Direct(g) = Recursion(g, pods, Sizes(pods, r))
  <2>1. \A s \in SUBSET pods : s # {} => Taken(s) \in pods
    BY DEF Taken
  <2> QED
    BY <2>1 DEF Recursion, Sizes
<1>3. (CHOOSE g : g = Direct(g)) = Sums(pods, Sizes(pods, r))
  BY <1>2, Zenon DEF Sums
<1> QED
  BY <1>1, <1>3, Zenon DEF Sum

IsSized(pods) == IsFiniteSet(pods) /\ \A p \in pods, r \in Resource : podSize(p, r) \in Nat

LEMMA SizedSubset ==
  ASSUME NEW pods, IsSized(pods), NEW some \in SUBSET pods PROVE IsSized(some)
BY FS_Subset DEF IsSized

LEMMA RequestsOfNone ==
  ASSUME NEW r PROVE totalRequests({}, r) = 0
<1>1. Sizes({}, r) \in [{} -> Int]
  BY DEF Sizes
<1> QED
  BY <1>1, SumOfNothing, RequestsAreSums

LEMMA RequestsWithout ==
  ASSUME NEW pods, IsSized(pods), NEW r \in Resource, NEW p \in pods
  PROVE  /\ totalRequests(pods, r) \in Int /\ totalRequests(pods \ {p}, r) \in Int
         /\ podSize(p, r) \in Nat
         /\ totalRequests(pods, r) = podSize(p, r) + totalRequests(pods \ {p}, r)
<1>1. IsFiniteSet(pods) /\ Sizes(pods, r) \in [pods -> Int]
  BY DEF IsSized, Sizes
<1>2. Sizes(pods \ {p}, r) = [q \in pods \ {p} |-> Sizes(pods, r)[q]]
  BY DEF Sizes
<1>3. podSize(p, r) \in Nat /\ Sizes(pods, r)[p] = podSize(p, r)
  BY DEF IsSized, Sizes
<1>4. /\ Sum(pods, Sizes(pods, r)) \in Int
      /\ Sum(pods \ {p}, Sizes(pods \ {p}, r)) \in Int
      /\ Sum(pods, Sizes(pods, r)) = podSize(p, r) + Sum(pods \ {p}, Sizes(pods \ {p}, r))
  <2>1. PICK w : w = Sizes(pods, r)
    OBVIOUS
  <2>2. /\ Sum(pods, w) \in Int
        /\ Sum(pods \ {p}, [q \in pods \ {p} |-> w[q]]) \in Int
        /\ Sum(pods, w) = w[p] + Sum(pods \ {p}, [q \in pods \ {p} |-> w[q]])
    BY <1>1, <2>1, SumLess
  <2> QED
    BY <1>2, <1>3, <2>1, <2>2, Zenon
<1>5. /\ totalRequests(pods, r) = Sum(pods, Sizes(pods, r))
      /\ totalRequests(pods \ {p}, r) = Sum(pods \ {p}, Sizes(pods \ {p}, r))
  BY RequestsAreSums, Zenon
<1> QED
  BY <1>3, <1>4, <1>5

LEMMA RequestsAreNatural ==
  ASSUME NEW pods, IsSized(pods), NEW r \in Resource
  PROVE  totalRequests(pods, r) \in Nat
<1> DEFINE T == {s \in SUBSET pods : totalRequests(s, r) \notin Nat}
<1> SUFFICES ASSUME T # {} PROVE FALSE
  OBVIOUS
<1>1. T \in SUBSET (SUBSET pods) /\ IsFiniteSet(pods)
  BY DEF IsSized
<1> HIDE DEF T
<1>2. PICK s \in T : \A u \in T : u \subseteq s => u = s
  BY <1>1, SmallestSubset
<1>3. s \in SUBSET pods /\ totalRequests(s, r) \notin Nat
  BY DEF T
<1>4. PICK p \in s : TRUE
  BY <1>3, RequestsOfNone
<1>5. totalRequests(s, r) = podSize(p, r) + totalRequests(s \ {p}, r) /\ podSize(p, r) \in Nat
  BY <1>3, SizedSubset, RequestsWithout, Zenon
<1>6. totalRequests(s \ {p}, r) \in Nat
  BY <1>2, <1>3 DEF T
<1> QED
  BY <1>3, <1>5, <1>6

LEMMA RequestsAdd ==
  ASSUME NEW A, IsSized(A), NEW B, IsSized(B), A \cap B = {}, NEW r \in Resource
  PROVE  totalRequests(A \cup B, r) = totalRequests(A, r) + totalRequests(B, r)
<1>0. IsSized(A \cup B)
  BY FS_Union, Zenon DEF IsSized
<1> DEFINE T == {s \in SUBSET B : totalRequests(A \cup s, r) # totalRequests(A, r) + totalRequests(s, r)}
<1> SUFFICES ASSUME T # {} PROVE FALSE
  OBVIOUS
<1>1. T \in SUBSET (SUBSET B) /\ IsFiniteSet(B)
  BY DEF IsSized
<1> HIDE DEF T
<1>2. PICK s \in T : \A u \in T : u \subseteq s => u = s
  BY <1>1, SmallestSubset
<1>3. s \in SUBSET B /\ totalRequests(A \cup s, r) # totalRequests(A, r) + totalRequests(s, r)
  BY DEF T
<1>4. PICK p \in s : TRUE
  <2>1. totalRequests(A, r) \in Nat /\ A \cup {} = A
    BY RequestsAreNatural
  <2> QED
    BY <1>3, <2>1, RequestsOfNone
<1>5. totalRequests(s, r) = podSize(p, r) + totalRequests(s \ {p}, r) /\ podSize(p, r) \in Nat
  BY <1>3, SizedSubset, RequestsWithout, Zenon
<1>6. totalRequests(A \cup s, r) = podSize(p, r) + totalRequests(A \cup (s \ {p}), r)
  <2>1. A \cup s \in SUBSET (A \cup B) /\ p \in A \cup s /\ (A \cup s) \ {p} = A \cup (s \ {p})
    BY <1>3
  <2>2. IsSized(A \cup s)
    BY <1>0, <2>1, SizedSubset
  <2>3. totalRequests(A \cup s, r) = podSize(p, r) + totalRequests((A \cup s) \ {p}, r)
    BY <2>1, <2>2, RequestsWithout
  <2> QED
    BY <2>1, <2>3
<1>7. totalRequests(A \cup (s \ {p}), r) = totalRequests(A, r) + totalRequests(s \ {p}, r)
  BY <1>2, <1>3 DEF T
<1>8. totalRequests(A, r) \in Nat /\ totalRequests(s \ {p}, r) \in Nat
  BY <1>3, SizedSubset, RequestsAreNatural
<1> QED
  BY <1>3, <1>5, <1>6, <1>7, <1>8

LEMMA RequestsGrow ==
  ASSUME NEW B, IsSized(B), NEW A \in SUBSET B, NEW r \in Resource
  PROVE  totalRequests(A, r) <= totalRequests(B, r)
<1>1. IsSized(A) /\ IsSized(B \ A) /\ A \cap (B \ A) = {} /\ A \cup (B \ A) = B
  BY SizedSubset
<1>2. totalRequests(A, r) \in Nat /\ totalRequests(B \ A, r) \in Nat
  BY <1>1, RequestsAreNatural
<1>3. totalRequests(B, r) = totalRequests(A, r) + totalRequests(B \ A, r)
  BY <1>1, RequestsAdd
<1> QED
  BY <1>2, <1>3

(* The reference adds up the same requests. *)
LEMMA SameRequests ==
  ASSUME NEW pods, NEW r PROVE Request(pods, r) = totalRequests(pods, r)
BY Zenon DEF Request, totalRequests, podSize

(* What is free on several nodes. *)
FreeOf(nodes, r) == [n \in nodes |-> Free(n, r)]

LEMMA FreeIsSum ==
  ASSUME NEW nodes, NEW r
  PROVE  MapThenSumSet(LAMBDA n : Free(n, r), nodes) = Sum(nodes, FreeOf(nodes, r))
<1> DEFINE Direct(g) == [s \in SUBSET nodes |->
              IF s = {} THEN 0 ELSE Free(Taken(s), r) + g[s \ {Taken(s)}]]
<1>1. MapThenSumSet(LAMBDA n : Free(n, r), nodes) = (CHOOSE g : g = Direct(g))[nodes]
  BY DEF MapThenSumSet, MapThenFoldSet, Taken
<1>2. ASSUME NEW g PROVE Direct(g) = Recursion(g, nodes, FreeOf(nodes, r))
  <2>1. \A s \in SUBSET nodes : s # {} => Taken(s) \in nodes
    BY DEF Taken
  <2> QED
    BY <2>1 DEF Recursion, FreeOf
<1>3. (CHOOSE g : g = Direct(g)) = Sums(nodes, FreeOf(nodes, r))
  BY <1>2, Zenon DEF Sums
<1> QED
  BY <1>1, <1>3, Zenon DEF Sum

-----------------------------------------------------------------------------
(* Inputs.                                                                 *)

(* A node without surprises in its fields. *)
IsNode(n) ==
  /\ {"name", "allocatable", "labels", "taints", "pods"} \subseteq DOMAIN n
  /\ IsSized(n.pods)
  /\ \A r \in Resource : n.allocatable[r] \in Nat
  /\ \A t \in n.taints : t.effect \in {"NoSchedule", "PreferNoSchedule", "NoExecute"}

LEMMA InputFacts ==
  ASSUME NEW i \in Instance
  PROVE  /\ IsSized(i.pods) /\ IsFiniteSet(i.nodes)
         /\ \A n, m \in i.nodes : n.name = m.name => n = m
         /\ \A n \in i.nodes : IsNode(n) /\ n.pods \cap i.pods = {}
<1>1. /\ IsFiniteSet(i.pods) /\ IsFiniteSet(i.nodes)
      /\ \A n, m \in i.nodes : n.name = m.name => n = m
      /\ \A n \in i.nodes : n.pods \cap i.pods = {} /\ IsFiniteSet(n.pods)
  BY InstanceAssumption
<1>2. \A p \in KnownPods(i), r \in Resource : podSize(p, r) \in Nat
  BY InstanceAssumption
<1>3. \A n \in i.nodes : n.pods \subseteq KnownPods(i)
  BY DEF KnownPods
<1>4. i.pods \subseteq KnownPods(i)
  BY DEF KnownPods
<1>5. IsSized(i.pods) /\ \A n \in i.nodes : IsSized(n.pods)
  BY <1>1, <1>2, <1>3, <1>4 DEF IsSized
<1>6. \A n \in i.nodes :
        /\ {"name", "allocatable", "labels", "taints", "pods"} \subseteq DOMAIN n
        /\ \A r \in Resource : n.allocatable[r] \in Nat
        /\ \A t \in n.taints : t.effect \in {"NoSchedule", "PreferNoSchedule", "NoExecute"}
  BY InstanceAssumption
<1> QED
  BY <1>1, <1>5, <1>6 DEF IsNode

-----------------------------------------------------------------------------
(* The quick check.                                                        *)

(* The pods that a placement puts on some nodes. *)
Placed(place, pods, nodes) == {p \in pods : place[p] \in nodes}

(* Pods that Kubernetes can place on a node as it is fit into what is free *)
(* there.                                                                  *)
LEMMA PlacedFitsIntoFree ==
  ASSUME NEW n, IsNode(n), ~Overcommitted(n), ~HasEndedPods(n), NEW r \in Resource,
         NEW new, IsSized(new), n.pods \cap new = {},
         new # {} => Request({p \in n.pods : p.phase \notin {"Succeeded", "Failed"}} \cup new, r)
                       <= n.allocatable[r]
  PROVE  /\ Free(n, r) \in Int /\ totalRequests(new, r) \in Nat
         /\ totalRequests(new, r) <= Free(n, r)
<1>1. {p \in n.pods : p.phase \notin {"Succeeded", "Failed"}} = n.pods
  BY DEF HasEndedPods
<1>2. /\ totalRequests(n.pods, r) \in Nat /\ totalRequests(new, r) \in Nat
      /\ n.allocatable[r] \in Nat
  BY RequestsAreNatural DEF IsNode
<1>3. Free(n, r) = n.allocatable[r] - totalRequests(n.pods, r)
  BY DEF Free, Allocated
<1>4. CASE new = {}
  <2>1. totalRequests(n.pods, r) <= n.allocatable[r]
    BY <1>2, SameRequests DEF Overcommitted
  <2> QED
    BY <1>2, <1>3, <1>4, <2>1, RequestsOfNone
<1>5. CASE new # {}
  <2>1. totalRequests(n.pods \cup new, r) <= n.allocatable[r]
    BY <1>1, <1>5, SameRequests
  <2>2. totalRequests(n.pods \cup new, r) = totalRequests(n.pods, r) + totalRequests(new, r)
    BY RequestsAdd DEF IsNode
  <2> QED
    BY <1>2, <1>3, <2>1, <2>2
<1> QED
  BY <1>4, <1>5

(* A placement, spelled out. *)
IsPlacement(place, pods, on) ==
  /\ place \in [pods -> on]
  /\ \A n \in on :
       /\ \A p \in {q \in pods : place[q] = n} : KubernetesAccepts(p, n)
       /\ {p \in pods : place[p] = n} # {} => \A r \in Resource :
            Request({p \in n.pods : p.phase \notin {"Succeeded", "Failed"}}
                      \cup {p \in pods : place[p] = n}, r) <= n.allocatable[r]

LEMMA PlaceableMeansPlacement ==
  ASSUME NEW pods, NEW on
  PROVE  Placeable(pods, on) <=> \E place : IsPlacement(place, pods, on)
BY Zenon DEF Placeable, IsPlacement

(* VerifySchedulingViable turns no pods away that Kubernetes could place,  *)
(* if no node is overcommitted or has pods that have ended.                *)
LEMMA QuickCheckAccepts ==
  ASSUME NEW i \in Instance, Placeable(i.pods, i.nodes),
         \A n \in i.nodes : ~Overcommitted(n) /\ ~HasEndedPods(n)
  PROVE  VerifySchedulingViable(i.pods, i.nodes)
<1>1. PICK place : IsPlacement(place, i.pods, i.nodes)
  BY PlaceableMeansPlacement
<1>2. /\ IsSized(i.pods) /\ IsFiniteSet(i.nodes)
      /\ \A n \in i.nodes : IsNode(n) /\ n.pods \cap i.pods = {}
  BY InputFacts
<1> DEFINE On(nodes) == Placed(place, i.pods, nodes)
<1>3. ASSUME NEW nodes PROVE On(nodes) \in SUBSET i.pods /\ IsSized(On(nodes))
  BY <1>2, SizedSubset DEF Placed
<1>4. ASSUME NEW n \in i.nodes, NEW r \in Resource
      PROVE  /\ Free(n, r) \in Int /\ totalRequests(On({n}), r) \in Nat
             /\ totalRequests(On({n}), r) <= Free(n, r)
  <2>1. IsSized(On({n})) /\ n.pods \cap On({n}) = {} /\ IsNode(n)
    BY <1>2, <1>3
  <2>2. On({n}) # {} => Request({p \in n.pods : p.phase \notin {"Succeeded", "Failed"}}
                                  \cup On({n}), r) <= n.allocatable[r]
    <3>1. On({n}) = {p \in i.pods : place[p] = n}
      BY DEF Placed
    <3> QED
      BY <1>1, <3>1, Zenon DEF IsPlacement
  <2> HIDE DEF On
  <2> QED
    BY <2>1, <2>2, PlacedFitsIntoFree, Zenon
<1> SUFFICES ASSUME NEW r \in Resource
             PROVE  totalRequests(i.pods, r) <= Sum(i.nodes, FreeOf(i.nodes, r))
  BY FreeIsSum, Zenon DEF VerifySchedulingViable
<1> DEFINE Fits(nodes) == totalRequests(On(nodes), r) <= Sum(nodes, FreeOf(nodes, r))
           T == {nodes \in SUBSET i.nodes : ~Fits(nodes)}
<1>5. On(i.nodes) = i.pods
  BY <1>1 DEF IsPlacement, Placed
<1>6. On({}) = {}
  BY DEF Placed
<1>7. ASSUME NEW nodes \in SUBSET i.nodes, NEW n \in nodes
      PROVE  On(nodes) = On(nodes \ {n}) \cup On({n}) /\ On(nodes \ {n}) \cap On({n}) = {}
  BY <1>7 DEF Placed
<1> HIDE DEF On
<1> SUFFICES ASSUME T # {} PROVE FALSE
  BY <1>5
<1>8. T \in SUBSET (SUBSET i.nodes)
  OBVIOUS
<1> HIDE DEF T
<1>9. PICK nodes \in T : \A u \in T : u \subseteq nodes => u = nodes
  BY <1>2, <1>8, SmallestSubset
<1>10. nodes \in SUBSET i.nodes /\ IsFiniteSet(nodes) /\ ~Fits(nodes)
  BY <1>2, FS_Subset DEF T
<1>11. FreeOf(nodes, r) \in [nodes -> Int]
  BY <1>4, <1>10, Zenon DEF FreeOf
<1>12. nodes # {}
  <2>1. ASSUME nodes = {} PROVE Sum(nodes, FreeOf(nodes, r)) = 0
    BY <1>11, <2>1, SumOfNothing
  <2> QED
    BY <1>6, <1>10, <2>1, RequestsOfNone
<1>13. PICK n \in nodes : TRUE
  BY <1>12
<1>14. /\ Sum(nodes \ {n}, FreeOf(nodes \ {n}, r)) \in Int
       /\ Sum(nodes, FreeOf(nodes, r)) = Free(n, r) + Sum(nodes \ {n}, FreeOf(nodes \ {n}, r))
  <2>1. FreeOf(nodes \ {n}, r) = [m \in nodes \ {n} |-> FreeOf(nodes, r)[m]]
    BY DEF FreeOf
  <2>2. FreeOf(nodes, r)[n] = Free(n, r)
    BY DEF FreeOf
  <2> QED
    BY <1>10, <1>11, <2>1, <2>2, SumLess
<1>15. Fits(nodes \ {n})
  BY <1>9, <1>10, <1>13 DEF T
<1>16. totalRequests(On(nodes), r) = totalRequests(On(nodes \ {n}), r) + totalRequests(On({n}), r)
  BY <1>3, <1>7, <1>10, <1>13, RequestsAdd
<1>17. totalRequests(On(nodes \ {n}), r) \in Nat
  BY <1>3, RequestsAreNatural
<1>18. /\ Free(n, r) \in Int /\ totalRequests(On({n}), r) \in Nat
       /\ totalRequests(On({n}), r) <= Free(n, r)
  BY <1>4, <1>10, <1>13
<1> QED
  BY <1>10, <1>14, <1>15, <1>16, <1>17, <1>18

-----------------------------------------------------------------------------
(* Placing pods.                                                           *)

(* The copy n of the node m, with room reserved for new pods. *)
Carries(n, m, new) ==
  /\ {"name", "allocatable", "labels", "taints", "pods"} \subseteq DOMAIN n
  /\ n.name = m.name /\ n.allocatable = m.allocatable
  /\ n.labels = m.labels /\ n.taints = m.taints
  /\ n.pods = m.pods \cup new

NewOn(place, done, m) == {p \in done : place[p] = m}

(* The pods that are done have places that Kubernetes accepts, and the     *)
(* scheduler's copies of the nodes say so.                                 *)
IsProgress(i, nodes, place, copy, done) ==
  /\ place \in [done -> i.nodes]
  /\ nodes = {copy[m] : m \in i.nodes}
  /\ \A m \in i.nodes : Carries(copy[m], m, NewOn(place, done, m))
  /\ \A p \in done : KubernetesAccepts(p, place[p])
  /\ \A m \in i.nodes : NewOn(place, done, m) # {} => \A r \in Resource :
       totalRequests(m.pods \cup NewOn(place, done, m), r) <= m.allocatable[r]

LEMMA AssignedNode ==
  ASSUME NEW n, NEW m, NEW new, Carries(n, m, new), NEW pod
  PROVE  Carries([n EXCEPT !.pods = @ \cup {pod}], m, new \cup {pod})
BY DEF Carries

(* The scheduler is as strict as Kubernetes. *)
LEMMA AcceptableMeansAccepted ==
  ASSUME NEW n, NEW m, IsNode(m), NEW new, Carries(n, m, new),
         NEW pod, acceptablePodDestination(pod, n)
  PROVE  KubernetesAccepts(pod, m)
<1>1. n.taints = m.taints /\ n.labels = m.labels
  BY DEF Carries
<1>2. ASSUME NEW t \in m.taints, t.effect # "PreferNoSchedule"
      PROVE  \E tol \in pod.tolerations : ToleratesTaint(tol, t)
  <2>1. t.effect \in {"NoSchedule", "NoExecute"}
    BY <1>2 DEF IsNode
  <2> QED
    BY <1>1, <1>2, <2>1 DEF acceptablePodDestination, podToleratesNodeTaints, hasToleration
<1>3. \A key \in DOMAIN pod.nodeSelector :
        key \in DOMAIN m.labels /\ m.labels[key] = pod.nodeSelector[key]
  BY <1>1 DEF acceptablePodDestination, podNodeSelectorPermitsNode
<1>4. \/ pod.affinity = {}
      \/ \E term \in pod.affinity :
           /\ term # {}
           /\ \A expr \in term : validRequirement(expr) /\ requirementMatches(expr, m.labels)
  BY <1>1, Zenon DEF acceptablePodDestination, podNodeAffinityPermitsNode, nodeSelectorTermMatches
<1> QED
  BY <1>2, <1>3, <1>4 DEF KubernetesAccepts

(* Room for one more pod. *)
LEMMA AcceptableMeansRoom ==
  ASSUME NEW n, NEW m, NEW new, Carries(n, m, new), IsSized(m.pods \cup new), IsNode(m),
         NEW pod, pod \notin m.pods \cup new, IsSized(m.pods \cup (new \cup {pod})),
         acceptablePodDestination(pod, n), NEW r \in Resource
  PROVE  totalRequests(m.pods \cup (new \cup {pod}), r) <= m.allocatable[r]
<1>1. podSize(pod, r) <= m.allocatable[r] - totalRequests(m.pods \cup new, r)
  BY DEF acceptablePodDestination, podFitsOnNode, Free, Allocated, Carries
<1>2. (m.pods \cup (new \cup {pod})) \ {pod} = m.pods \cup new
  OBVIOUS
<1>3. /\ totalRequests(m.pods \cup (new \cup {pod}), r)
           = podSize(pod, r) + totalRequests((m.pods \cup (new \cup {pod})) \ {pod}, r)
      /\ podSize(pod, r) \in Nat
  BY RequestsWithout
<1>4. totalRequests(m.pods \cup new, r) \in Nat /\ m.allocatable[r] \in Nat
  BY RequestsAreNatural DEF IsNode
<1>5. totalRequests(m.pods \cup (new \cup {pod}), r)
        = podSize(pod, r) + totalRequests(m.pods \cup new, r)
  BY <1>2, <1>3, Zenon
<1> HIDE DEF Resource
<1> QED
  BY <1>1, <1>3, <1>4, <1>5

(* Each pod that Schedule places adds to the progress. *)
LEMMA ProgressGoesOn ==
  ASSUME NEW i \in Instance, NEW nodes, NEW done \in SUBSET i.pods, NEW place, NEW copy,
         IsProgress(i, nodes, place, copy, done),
         NEW pod \in i.pods \ done, NEW n \in nodes, acceptablePodDestination(pod, n)
  PROVE  \E p, c : IsProgress(i, assign(pod, n, nodes), p, c, done \cup {pod})
<1>1. /\ IsSized(i.pods)
      /\ \A k, m \in i.nodes : k.name = m.name => k = m
      /\ \A m \in i.nodes : IsNode(m) /\ m.pods \cap i.pods = {}
  BY InputFacts
<1>2. PICK home \in i.nodes : n = copy[home]
  BY DEF IsProgress
<1> DEFINE place2 == [p \in done \cup {pod} |-> IF p = pod THEN home ELSE place[p]]
           copy2  == [m \in i.nodes |->
                        IF m = home THEN [n EXCEPT !.pods = @ \cup {pod}] ELSE copy[m]]
           new(m) == NewOn(place, done, m)
           new2(m) == NewOn(place2, done \cup {pod}, m)
<1>3. place \in [done -> i.nodes] /\ place2 \in [done \cup {pod} -> i.nodes]
  BY DEF IsProgress
<1>4. /\ new2(home) = new(home) \cup {pod} /\ pod \notin new(home)
      /\ \A m \in i.nodes \ {home} : new2(m) = new(m)
  BY DEF NewOn
<1>5. \A m \in i.nodes : Carries(copy[m], m, new(m))
  BY DEF IsProgress
<1>6. assign(pod, n, nodes) = {copy2[m] : m \in i.nodes}
  <2>1. nodes = {copy[m] : m \in i.nodes}
    BY DEF IsProgress
  <2>2. \A m \in i.nodes \ {home} : copy[m] # copy[home]
    BY <1>1, <1>5 DEF Carries
  <2>3. PICK a : a = [n EXCEPT !.pods = @ \cup {pod}]
    BY Zenon
  <2>4. copy2[home] = a /\ \A m \in i.nodes \ {home} : copy2[m] = copy[m]
    BY <2>3
  <2>5. assign(pod, n, nodes) = (nodes \ {n}) \cup {a}
    BY <2>3 DEF assign
  <2> HIDE DEF copy2
  <2> QED
    BY <1>2, <2>1, <2>2, <2>4, <2>5
<1>7. Carries([n EXCEPT !.pods = @ \cup {pod}], home, new(home) \cup {pod})
  BY <1>2, <1>5, AssignedNode
<1>8. KubernetesAccepts(pod, home)
  BY <1>1, <1>2, <1>5, AcceptableMeansAccepted
<1>9. ASSUME NEW r \in Resource
      PROVE  totalRequests(home.pods \cup (new(home) \cup {pod}), r) <= home.allocatable[r]
  <2>1. new(home) \in SUBSET i.pods /\ pod \notin home.pods \cup new(home)
    BY <1>1, <1>4 DEF NewOn
  <2>2. IsSized(home.pods \cup i.pods)
    BY <1>1, FS_Union, Zenon DEF IsNode, IsSized
  <2>3. IsSized(home.pods \cup new(home)) /\ IsSized(home.pods \cup (new(home) \cup {pod}))
    BY <2>1, <2>2, SizedSubset
  <2> HIDE DEF new
  <2> QED
    BY <1>1, <1>2, <1>5, <2>1, <2>3, AcceptableMeansRoom
<1>10. \A m \in i.nodes : Carries(copy2[m], m, new2(m))
  BY <1>4, <1>5, <1>7, Zenon
<1>11. \A p \in done \cup {pod} : KubernetesAccepts(p, place2[p])
  BY <1>8 DEF IsProgress
<1>12. \A m \in i.nodes : new2(m) # {} => \A r \in Resource :
         totalRequests(m.pods \cup new2(m), r) <= m.allocatable[r]
  <2> SUFFICES ASSUME NEW m \in i.nodes, new2(m) # {}, NEW r \in Resource
               PROVE  totalRequests(m.pods \cup new2(m), r) <= m.allocatable[r]
    OBVIOUS
  <2>1. CASE m = home
    BY <1>4, <1>9, <2>1, Zenon
  <2>2. CASE m # home
    BY <1>4, <2>2, Zenon DEF IsProgress
  <2> QED
    BY <2>1, <2>2
<1> HIDE DEF place2, copy2
<1>13. IsProgress(i, assign(pod, n, nodes), place2, copy2, done \cup {pod})
  BY <1>3, <1>6, <1>10, <1>11, <1>12, Zenon DEF IsProgress
<1> QED
  BY <1>13

(* The copies at the start. *)
LEMMA ProgressBegins ==
  ASSUME NEW i \in Instance PROVE \E p, c : IsProgress(i, i.nodes, p, c, {})
<1> DEFINE place == [p \in {} |-> p]
           copy  == [m \in i.nodes |-> m]
<1>1. \A m \in i.nodes : NewOn(place, {}, m) = {}
  BY DEF NewOn
<1>2. \A m \in i.nodes : Carries(copy[m], m, {})
  BY InputFacts DEF Carries, IsNode
<1>3. place \in [{} -> i.nodes] /\ i.nodes = {copy[m] : m \in i.nodes}
  BY Zenon
<1> HIDE DEF place, copy
<1>4. IsProgress(i, i.nodes, place, copy, {})
  BY <1>1, <1>2, <1>3, Zenon DEF IsProgress
<1> QED
  BY <1>4

(* Once all pods are done, Kubernetes could place them. *)
LEMMA ProgressMeansPlaceable ==
  ASSUME NEW i \in Instance, NEW nodes, NEW place, NEW copy,
         IsProgress(i, nodes, place, copy, i.pods)
  PROVE  Placeable(i.pods, i.nodes)
<1>1. IsSized(i.pods) /\ \A m \in i.nodes : IsNode(m)
  BY InputFacts
<1>2. ASSUME NEW n \in i.nodes, NEW p \in {q \in i.pods : place[q] = n}
      PROVE  KubernetesAccepts(p, n)
  BY <1>2 DEF IsProgress
<1>3. ASSUME NEW n \in i.nodes, {p \in i.pods : place[p] = n} # {}, NEW r \in Resource
      PROVE  Request({p \in n.pods : p.phase \notin {"Succeeded", "Failed"}}
                       \cup {p \in i.pods : place[p] = n}, r) <= n.allocatable[r]
  <2> DEFINE new     == {p \in i.pods : place[p] = n}
             running == {p \in n.pods : p.phase \notin {"Succeeded", "Failed"}}
  <2>1. new = NewOn(place, i.pods, n)
    BY DEF NewOn
  <2>2. totalRequests(n.pods \cup new, r) <= n.allocatable[r]
    BY <1>3, <2>1 DEF IsProgress
  <2>3. IsSized(n.pods \cup i.pods)
    BY <1>1, FS_Union, Zenon DEF IsNode, IsSized
  <2>4. /\ n.pods \cup new \in SUBSET (n.pods \cup i.pods)
        /\ running \cup new \in SUBSET (n.pods \cup i.pods)
        /\ running \cup new \in SUBSET (n.pods \cup new)
    OBVIOUS
  <2> HIDE DEF new, running
  <2>5. IsSized(n.pods \cup new) /\ IsSized(running \cup new)
    BY <2>3, <2>4, SizedSubset
  <2>6. /\ totalRequests(running \cup new, r) <= totalRequests(n.pods \cup new, r)
        /\ totalRequests(running \cup new, r) \in Nat /\ totalRequests(n.pods \cup new, r) \in Nat
        /\ n.allocatable[r] \in Nat
    BY <1>1, <2>4, <2>5, RequestsGrow, RequestsAreNatural DEF IsNode
  <2>7. Request(running \cup new, r) = totalRequests(running \cup new, r)
    BY SameRequests
  <2>8. Request(running \cup new, r) <= n.allocatable[r]
    BY <2>2, <2>6, <2>7
  <2> QED
    BY <2>8 DEF new, running
<1>4. place \in [i.pods -> i.nodes]
  BY DEF IsProgress
<1>5. IsPlacement(place, i.pods, i.nodes)
  BY <1>2, <1>3, <1>4, Zenon DEF IsPlacement
<1> QED
  BY <1>5, PlaceableMeansPlacement

(* Pods that are done are on one copy each, and no copy has lost a pod. *)
LEMMA ProgressConserves ==
  ASSUME NEW i \in Instance, NEW nodes, NEW done \in SUBSET i.pods, NEW place, NEW copy,
         IsProgress(i, nodes, place, copy, done)
  PROVE  /\ \A p \in done : Cardinality({n \in nodes : p \in n.pods}) = 1
         /\ UNION {n.pods : n \in nodes} = done \cup UNION {n.pods : n \in i.nodes}
<1>1. \A m \in i.nodes : m.pods \cap i.pods = {}
  BY InputFacts
<1>2. /\ place \in [done -> i.nodes] /\ nodes = {copy[m] : m \in i.nodes}
      /\ \A m \in i.nodes : copy[m].pods = m.pods \cup {p \in done : place[p] = m}
  BY DEF IsProgress, Carries, NewOn
<1>3. ASSUME NEW p \in done PROVE Cardinality({n \in nodes : p \in n.pods}) = 1
  <2>1. {n \in nodes : p \in n.pods} = {copy[place[p]]}
    BY <1>1, <1>2
  <2> QED
    BY <2>1, FS_Singleton, Zenon
<1>4. ASSUME NEW n \in nodes, NEW p \in n.pods
      PROVE  p \in done \cup UNION {m.pods : m \in i.nodes}
  BY <1>2
<1>5. ASSUME NEW p \in done \cup UNION {m.pods : m \in i.nodes}
      PROVE  \E n \in nodes : p \in n.pods
  <2>1. CASE p \in done
    BY <1>2, <2>1
  <2>2. CASE p \in UNION {m.pods : m \in i.nodes}
    BY <1>2, <2>2
  <2> QED
    BY <2>1, <2>2
<1> QED
  BY <1>3, <1>4, <1>5

(* A pod that Kubernetes accepts on a node as it is: Schedule does too, if *)
(* the pod has no alternatives and the node no pods that have ended.       *)
LEMMA AcceptedMeansAcceptable ==
  ASSUME NEW n, IsNode(n), ~HasEndedPods(n), NEW pod, pod \notin n.pods, IsSized({pod}),
         IsFiniteSet(pod.affinity), ~(Cardinality(pod.affinity) > 1), KubernetesAccepts(pod, n),
         \A r \in Resource : Request({p \in n.pods : p.phase \notin {"Succeeded", "Failed"}}
                                       \cup {pod}, r) <= n.allocatable[r]
  PROVE  acceptablePodDestination(pod, n)
<1>1. podFitsOnNode(pod, n)
  <2> SUFFICES ASSUME NEW r \in Resource PROVE podSize(pod, r) <= Free(n, r)
    BY DEF podFitsOnNode
  <2>1. {p \in n.pods : p.phase \notin {"Succeeded", "Failed"}} = n.pods
    BY DEF HasEndedPods
  <2>2. totalRequests(n.pods \cup {pod}, r) <= n.allocatable[r]
    BY <2>1, SameRequests
  <2>3. IsSized(n.pods \cup {pod}) /\ (n.pods \cup {pod}) \ {pod} = n.pods
    BY FS_Union, Zenon DEF IsSized, IsNode
  <2>4. /\ totalRequests(n.pods \cup {pod}, r)
             = podSize(pod, r) + totalRequests((n.pods \cup {pod}) \ {pod}, r)
        /\ podSize(pod, r) \in Nat
    BY <2>3, RequestsWithout, Zenon
  <2>5. totalRequests(n.pods \cup {pod}, r) = podSize(pod, r) + totalRequests(n.pods, r)
    BY <2>3, <2>4, Zenon
  <2>6. totalRequests(n.pods, r) \in Nat /\ n.allocatable[r] \in Nat
    BY RequestsAreNatural DEF IsNode
  <2> QED
    BY <2>2, <2>4, <2>5, <2>6 DEF Free, Allocated
<1>2. podToleratesNodeTaints(pod, n)
  BY DEF podToleratesNodeTaints, hasToleration, KubernetesAccepts
<1>3. podNodeSelectorPermitsNode(pod, n)
  BY DEF podNodeSelectorPermitsNode, KubernetesAccepts
<1>4. podNodeAffinityPermitsNode(pod, n)
  <2>1. CASE pod.affinity = {}
    BY <2>1 DEF podNodeAffinityPermitsNode
  <2>2. CASE pod.affinity # {}
    <3>1. PICK term \in pod.affinity :
            /\ term # {}
            /\ \A expr \in term : validRequirement(expr) /\ requirementMatches(expr, n.labels)
      BY <2>2, Zenon DEF KubernetesAccepts
    <3>2. Cardinality(pod.affinity) \in Nat /\ Cardinality(pod.affinity) # 0
      BY <2>2, FS_CardinalityType, FS_EmptySet
    <3>3. Cardinality(pod.affinity) = 1
      BY <3>2
    <3>4. pod.affinity = {term}
      BY <3>3, FS_Singleton
    <3> QED
      BY <3>1, <3>4, Zenon DEF podNodeAffinityPermitsNode, nodeSelectorTermMatches
  <2> QED
    BY <2>1, <2>2
<1> QED
  BY <1>1, <1>2, <1>3, <1>4 DEF acceptablePodDestination

-----------------------------------------------------------------------------
(* The least load.                                                         *)

(* Fractions are ordered. *)
LEMMA LessIsTransitive ==
  ASSUME NEW a \in Int, NEW b \in Nat \ {0}, NEW c \in Int, NEW d \in Nat \ {0},
         NEW e \in Int, NEW f \in Nat \ {0}, a * d < c * b, c * f < e * d
  PROVE  a * f < e * b
<1>1. (a * d) * f < (c * b) * f
  OBVIOUS
<1>2. (c * f) * b < (e * d) * b
  OBVIOUS
<1>3. (a * d) * f = d * (a * f) /\ (c * b) * f = (c * f) * b /\ (e * d) * b = d * (e * b)
  OBVIOUS
<1>4. d * (a * f) < d * (e * b)
  BY <1>1, <1>2, <1>3
<1> QED
  BY <1>4

(* A load that is a fraction. *)
IsFraction(load) == load.kind = "finite" /\ load.num \in Int /\ load.den \in Nat \ {0}

LEMMA LoadOfNode ==
  ASSUME NEW n, IsNode(n)
  PROVE  /\ NodeLoad(n).kind = "finite" => IsFraction(NodeLoad(n))
         /\ NodeLoad(n).kind # "finite" => \E r \in Resource : n.allocatable[r] = 0
<1> DEFINE used(r) == totalRequests(n.pods, r)
           size(r) == n.allocatable[r]
<1>1. \A r \in Resource : used(r) \in Nat /\ size(r) \in Nat
  BY RequestsAreNatural DEF IsNode
<1>2. CASE \E r \in Resource : size(r) = 0
  <2>1. NodeLoad(n).kind # "finite"
    BY <1>2 DEF NodeLoad, SumOfAllocatedMemAndCPUFractions
  <2> QED
    BY <1>2, <2>1
<1>3. CASE ~\E r \in Resource : size(r) = 0
  <2>1. NodeLoad(n) = [kind |-> "finite",
                       num |-> used("cpu") * size("memory") + used("memory") * size("cpu"),
                       den |-> size("cpu") * size("memory")]
    BY <1>3 DEF NodeLoad, SumOfAllocatedMemAndCPUFractions, Allocated
  <2>2. /\ used("cpu") \in Nat /\ used("memory") \in Nat
        /\ size("cpu") \in Nat \ {0} /\ size("memory") \in Nat \ {0}
    BY <1>1, <1>3 DEF Resource
  <2> HIDE DEF used, size
  <2>3. /\ used("cpu") * size("memory") + used("memory") * size("cpu") \in Int
        /\ size("cpu") * size("memory") \in Nat \ {0}
    BY <2>2
  <2> QED
    BY <2>1, <2>3 DEF IsFraction
<1> QED
  BY <1>2, <1>3

(* Among finitely many nodes with such loads there is a least loaded one,  *)
(* so leastLoadedNode returns one unless no load is a fraction.            *)
LEMMA SomeNodeIsLeastLoaded ==
  ASSUME NEW nodes, IsFiniteSet(nodes), \A n \in nodes : IsNode(n), leastLoadedNodes(nodes) = {}
  PROVE  \A n \in nodes : \E r \in Resource : n.allocatable[r] = 0
<1> DEFINE F == {n \in nodes : NodeLoad(n).kind = "finite"}
           Least(x, s) == \A y \in s : ~LoadLess(NodeLoad(y), NodeLoad(x))
           T == {s \in SUBSET F : s # {} /\ \A x \in s : ~Least(x, s)}
<1>1. IsFiniteSet(F)
  BY FS_Subset
<1>2. \A n \in F : IsFraction(NodeLoad(n))
  BY LoadOfNode
<1>3. ASSUME F # {} PROVE F \in T
  <2> SUFFICES ASSUME NEW x \in F, Least(x, F) PROVE FALSE
    BY <1>3
  <2>1. \A y \in nodes : ~LoadLess(NodeLoad(y), NodeLoad(x))
    BY DEF LoadLess
  <2>2. x \in leastLoadedNodes(nodes)
    BY <2>1 DEF leastLoadedNodes
  <2> QED
    BY <2>2
<1>4. T \in SUBSET (SUBSET F)
  OBVIOUS
<1>5. ASSUME NEW s \in T, \A u \in T : u \subseteq s => u = s PROVE FALSE
  <2>1. PICK x \in s : TRUE
    OBVIOUS
  <2>2. s \subseteq F /\ \A z \in s : ~Least(z, s)
    OBVIOUS
  <2>3. ~LoadLess(NodeLoad(x), NodeLoad(x))
    BY <1>2, <2>2 DEF LoadLess, IsFraction
  <2>4. s \ {x} # {}
    <3>1. ASSUME s \ {x} = {} PROVE Least(x, s)
      BY <2>3, <3>1
    <3> QED
      BY <2>2, <3>1
  <2>5. s \ {x} \notin T
    BY <1>5, Zenon
  <2>6. PICK y \in s \ {x} : Least(y, s \ {x})
    BY <2>2, <2>4, <2>5
  <2>7. LoadLess(NodeLoad(x), NodeLoad(y))
    <3>1. ASSUME ~LoadLess(NodeLoad(x), NodeLoad(y)) PROVE Least(y, s)
      BY <2>6, <3>1
    <3> QED
      BY <2>2, <3>1
  <2>8. ASSUME NEW z \in s, LoadLess(NodeLoad(z), NodeLoad(x)) PROVE FALSE
    <3>1. z # x
      BY <2>3, <2>8
    <3>2. LoadLess(NodeLoad(z), NodeLoad(y))
      <4>1. IsFraction(NodeLoad(x)) /\ IsFraction(NodeLoad(y)) /\ IsFraction(NodeLoad(z))
        BY <1>2, <2>2
      <4>2. /\ NodeLoad(z).num * NodeLoad(x).den < NodeLoad(x).num * NodeLoad(z).den
            /\ NodeLoad(x).num * NodeLoad(y).den < NodeLoad(y).num * NodeLoad(x).den
        BY <2>7, <2>8, <4>1 DEF LoadLess, IsFraction
      <4>3. NodeLoad(z).num * NodeLoad(y).den < NodeLoad(y).num * NodeLoad(z).den
        BY <4>1, <4>2, LessIsTransitive DEF IsFraction
      <4> QED
        BY <4>1, <4>3 DEF LoadLess, IsFraction
    <3> QED
      BY <2>6, <3>1, <3>2
  <2> QED
    BY <2>2, <2>8
<1>6. T = {}
  <2> HIDE DEF T
  <2> QED
    BY <1>1, <1>4, <1>5, SmallestSubset
<1>7. F = {}
  BY <1>3, <1>6, Zenon
<1> QED
  BY <1>7, LoadOfNode

(* When leastLoadedNode returns nil, every acceptable node reports nothing *)
(* allocatable of some resource.                                           *)
LEMMA NilMeansNoAllocatable ==
  ASSUME NEW i \in Instance, NEW nodes, NEW done \in SUBSET i.pods, NEW place, NEW copy,
         IsProgress(i, nodes, place, copy, done),
         NEW pod, leastLoadedNodes(schedulingCandidates(pod, nodes)) = {}
  PROVE  \A n \in nodes : acceptablePodDestination(pod, n) =>
           \E r \in Resource : n.allocatable[r] = 0
<1>1. IsSized(i.pods) /\ IsFiniteSet(i.nodes) /\ \A m \in i.nodes : IsNode(m)
  BY InputFacts
<1>2. /\ nodes = {copy[m] : m \in i.nodes}
      /\ \A m \in i.nodes : Carries(copy[m], m, NewOn(place, done, m))
  BY DEF IsProgress
<1>3. \A n \in nodes : IsNode(n)
  <2> SUFFICES ASSUME NEW m \in i.nodes PROVE IsNode(copy[m])
    BY <1>2
  <2>1. IsSized(m.pods \cup i.pods)
    BY <1>1, FS_Union, Zenon DEF IsNode, IsSized
  <2>2. IsSized(m.pods \cup NewOn(place, done, m))
    BY <2>1, SizedSubset DEF NewOn
  <2> QED
    BY <1>1, <1>2, <2>2, Zenon DEF IsNode, Carries
<1>4. IsFiniteSet(nodes)
  <2>1. [m \in i.nodes |-> copy[m]] \in Surjection(i.nodes, nodes)
    BY <1>2 DEF Surjection
  <2> QED
    BY <1>1, <2>1, FS_Surjection
<1>5. IsFiniteSet(schedulingCandidates(pod, nodes)) /\ schedulingCandidates(pod, nodes) \subseteq nodes
  BY <1>4, FS_Subset DEF schedulingCandidates
<1>6. \A n \in schedulingCandidates(pod, nodes) : \E r \in Resource : n.allocatable[r] = 0
  BY <1>3, <1>5, SomeNodeIsLeastLoaded
<1> QED
  BY <1>6 DEF schedulingCandidates

-----------------------------------------------------------------------------
(* The steps of verifyEvacuationFeasibility.                               *)

Progress(done) == \E place, copy : IsProgress(input, Nodes, place, copy, done)

(* The inductive invariant: the pods that are done have acceptable places, *)
(* and each way to fail has left its reason.                               *)
EvacuationInv ==
  /\ input \in Instance /\ todo \in SUBSET input.pods
  /\ verdict \in {"asked", "placing", "feasible", "noCapacity", "unschedulable", "panic"}
  /\ verdict \in {"asked", "placing", "feasible", "noCapacity"} => Progress(input.pods \ todo)
  /\ todo = input.pods => Nodes = input.nodes
  /\ verdict = "asked" => todo = input.pods
  /\ verdict = "feasible" => todo = {}
  /\ verdict = "noCapacity" => ~VerifySchedulingViable(input.pods, input.nodes)
  /\ verdict = "unschedulable" =>
       \E p \in input.pods \ todo : /\ schedulingCandidates(p, Nodes) = {}
                                    /\ input.pods = {p} => Nodes = input.nodes
  /\ PanicMeansNoAllocatable

LEMMA EvacuationBegins == NewQuasiScheduler => EvacuationInv
<1> SUFFICES ASSUME NewQuasiScheduler PROVE EvacuationInv
  OBVIOUS
<1>1. /\ input \in Instance /\ Nodes = input.nodes /\ todo = input.pods /\ verdict = "asked"
      /\ input.pods \ todo = {}
  BY DEF NewQuasiScheduler
<1>2. Progress(input.pods \ todo)
  BY <1>1, ProgressBegins DEF Progress
<1> QED
  BY <1>1, <1>2 DEF EvacuationInv, PanicMeansNoAllocatable

LEMMA QuickCheckKeeps ==
  ASSUME EvacuationInv, QuickCheck PROVE EvacuationInv'
<1>1. /\ verdict = "asked" /\ input' = input /\ Nodes' = Nodes /\ todo' = todo
      /\ todo = input.pods /\ Nodes = input.nodes
  BY DEF QuickCheck, EvacuationInv
<1>2. Progress(input.pods \ todo)' 
  BY <1>1, Zenon DEF EvacuationInv, Progress
<1>3. verdict' # "panic"
  BY DEF QuickCheck
<1>4. PanicMeansNoAllocatable'
  BY <1>3 DEF PanicMeansNoAllocatable
<1>5. \/ verdict' = "noCapacity" /\ ~VerifySchedulingViable(todo, Nodes)
      \/ verdict' = "feasible" /\ todo = {}
      \/ verdict' = "placing"
  BY DEF QuickCheck
<1> QED
  BY <1>1, <1>2, <1>4, <1>5 DEF EvacuationInv

LEMMA SchedulePodKeeps ==
  ASSUME EvacuationInv, NEW pod \in todo, SchedulePod(pod) PROVE EvacuationInv'
<1> DEFINE candidates == schedulingCandidates(pod, Nodes)
           best       == leastLoadedNodes(candidates)
<1>1. /\ verdict = "placing" /\ input' = input /\ todo' = todo \ {pod}
      /\ input \in Instance /\ todo \in SUBSET input.pods /\ Progress(input.pods \ todo)
  BY Zenon DEF SchedulePod, EvacuationInv
<1>2. /\ pod \in input.pods /\ input.pods \ todo' = (input.pods \ todo) \cup {pod}
      /\ pod \in input.pods \ todo' /\ todo' # input.pods /\ todo' \in SUBSET input.pods
  BY <1>1
<1>3. PICK place, copy : IsProgress(input, Nodes, place, copy, input.pods \ todo)
  BY <1>1 DEF Progress
<1>4. CASE candidates = {} /\ verdict' = "unschedulable" /\ UNCHANGED Nodes
  <2>1. input.pods = {pod} => Nodes = input.nodes
    <3>1. input.pods = {pod} => todo = input.pods
      BY <1>1
    <3> QED
      BY <3>1, Zenon DEF EvacuationInv
  <2>2. \E p \in (input.pods \ todo)' : /\ schedulingCandidates(p, Nodes)' = {}
                                        /\ (input.pods = {p} => Nodes = input.nodes)'
    <3>1. schedulingCandidates(pod, Nodes)' = {}
      BY <1>4 DEF schedulingCandidates
    <3> QED
      BY <1>1, <1>2, <1>4, <2>1, <3>1
  <2>3. PanicMeansNoAllocatable'
    BY <1>4 DEF PanicMeansNoAllocatable
  <2> QED
    BY <1>1, <1>2, <1>4, <2>2, <2>3 DEF EvacuationInv
<1>5. CASE candidates # {} /\ best = {} /\ verdict' = "panic" /\ UNCHANGED Nodes
  <2>1. \A n \in Nodes : acceptablePodDestination(pod, n) =>
          \E r \in Resource : n.allocatable[r] = 0
    BY <1>1, <1>3, <1>5, NilMeansNoAllocatable
  <2>2. PanicMeansNoAllocatable'
    BY <1>1, <1>2, <1>5, <2>1 DEF PanicMeansNoAllocatable
  <2> QED
    BY <1>1, <1>2, <1>5, <2>2 DEF EvacuationInv
<1>6. CASE /\ \E n \in best : Nodes' = assign(pod, n, Nodes)
           /\ verdict' = IF todo = {pod} THEN "feasible" ELSE "placing"
  <2>1. PICK n \in Nodes : acceptablePodDestination(pod, n) /\ Nodes' = assign(pod, n, Nodes)
    BY <1>6 DEF leastLoadedNodes, schedulingCandidates
  <2>2. \E p, c : IsProgress(input, assign(pod, n, Nodes), p, c, (input.pods \ todo) \cup {pod})
    BY <1>1, <1>2, <1>3, <2>1, ProgressGoesOn
  <2>3. Progress(input.pods \ todo)'
    BY <1>1, <1>2, <2>1, <2>2 DEF Progress
  <2>4. verdict' \in {"feasible", "placing"} /\ (verdict' = "feasible" => todo' = {})
    BY <1>1, <1>6
  <2>5. PanicMeansNoAllocatable'
    BY <2>4 DEF PanicMeansNoAllocatable
  <2> QED
    BY <1>1, <1>2, <2>3, <2>4, <2>5 DEF EvacuationInv
<1> QED
  BY <1>4, <1>5, <1>6, Zenon DEF SchedulePod

LEMMA EvacuationInvariant == Spec => []EvacuationInv
<1>1. NewQuasiScheduler => EvacuationInv
  BY EvacuationBegins
<1>2. EvacuationInv /\ [Next]_vars => EvacuationInv'
  <2> SUFFICES ASSUME EvacuationInv, [Next]_vars PROVE EvacuationInv'
    OBVIOUS
  <2>1. CASE QuickCheck
    BY <2>1, QuickCheckKeeps
  <2>2. CASE \E pod \in todo : SchedulePod(pod)
    BY <2>2, SchedulePodKeeps
  <2>3. CASE UNCHANGED vars
    BY <2>3 DEF vars, EvacuationInv, Progress, PanicMeansNoAllocatable
  <2> QED
    BY <2>1, <2>2, <2>3 DEF Next
<1> QED
  BY <1>1, <1>2, PTL DEF Spec

(* Schedule reserves room for each pod once, and no copy of a node loses   *)
(* any pod.                                                                *)
THEOREM ConservesPods == Spec => []PodsAreConserved
<1>1. EvacuationInv => PodsAreConserved
  <2> SUFFICES ASSUME EvacuationInv, verdict \notin {"unschedulable", "panic"}
               PROVE  /\ \A p \in input.pods \ todo : Cardinality({n \in Nodes : p \in n.pods}) = 1
                      /\ UNION {n.pods : n \in Nodes} =
                           (input.pods \ todo) \cup UNION {n.pods : n \in input.nodes}
    BY DEF PodsAreConserved
  <2>1. PICK place, copy : IsProgress(input, Nodes, place, copy, input.pods \ todo)
    BY DEF EvacuationInv, Progress
  <2> QED
    BY <2>1, ProgressConserves DEF EvacuationInv
<1> QED
  BY <1>1, EvacuationInvariant, PTL

(* verifyEvacuationFeasibility, when it says yes, has found a placement    *)
(* that Kubernetes accepts, for any pods, nodes and order of the pods.     *)
THEOREM FeasibleIsPlaceable == Spec => []FeasibleMeansPlaceable
<1>1. EvacuationInv => FeasibleMeansPlaceable
  <2> SUFFICES ASSUME EvacuationInv, verdict = "feasible"
               PROVE  Placeable(input.pods, input.nodes)
    BY DEF FeasibleMeansPlaceable
  <2>1. input.pods \ todo = input.pods
    BY DEF EvacuationInv
  <2>2. \E place, copy : IsProgress(input, Nodes, place, copy, input.pods)
    BY <2>1 DEF EvacuationInv, Progress
  <2> QED
    BY <2>2, ProgressMeansPlaceable DEF EvacuationInv
<1> QED
  BY <1>1, EvacuationInvariant, PTL

(* VerifySchedulingViable never turns away pods that could be placed,      *)
(* apart from the two kinds of nodes that the property excepts.            *)
THEOREM QuickCheckNeverErrs == Spec => []QuickCheckIsNecessary
<1>1. EvacuationInv => QuickCheckIsNecessary
  BY QuickCheckAccepts DEF EvacuationInv, QuickCheckIsNecessary
<1> QED
  BY <1>1, EvacuationInvariant, PTL

(* Schedule decides exactly for a single pod, apart from the two cases     *)
(* that the property excepts.                                              *)
THEOREM LonePodDecidedExactly == Spec => []LonePodIsDecidedExactly
<1>1. EvacuationInv => LonePodIsDecidedExactly
  <2> SUFFICES ASSUME EvacuationInv, verdict = "unschedulable",
                      Placeable(input.pods, input.nodes), ~(Cardinality(input.pods) > 1),
                      \A p \in input.pods : ~(Cardinality(p.affinity) > 1),
                      \A n \in input.nodes : ~HasEndedPods(n)
               PROVE  FALSE
    BY Zenon DEF LonePodIsDecidedExactly
  <2>1. input \in Instance
    BY DEF EvacuationInv
  <2>2. PICK p \in input.pods : /\ schedulingCandidates(p, Nodes) = {}
                                /\ input.pods = {p} => Nodes = input.nodes
    BY DEF EvacuationInv
  <2>3. /\ IsSized(input.pods) /\ IsFiniteSet(input.pods) /\ IsFiniteSet(p.affinity)
        /\ \A n \in input.nodes : IsNode(n) /\ n.pods \cap input.pods = {}
    BY <2>1, InputFacts, InstanceAssumption
  <2>4. input.pods = {p}
    <3>1. Cardinality(input.pods) \in Nat /\ Cardinality(input.pods) # 0
      BY <2>2, <2>3, FS_CardinalityType, FS_EmptySet
    <3>2. Cardinality(input.pods) = 1
      BY <3>1
    <3> QED
      BY <2>2, <2>3, <3>2, FS_Singleton
  <2>5. PICK place : IsPlacement(place, input.pods, input.nodes)
    BY PlaceableMeansPlacement
  <2>6. PICK n \in input.nodes : place[p] = n
    BY <2>2, <2>5 DEF IsPlacement
  <2>7. {q \in input.pods : place[q] = n} = {p}
    BY <2>4, <2>6
  <2>8. /\ KubernetesAccepts(p, n)
        /\ \A r \in Resource : Request({q \in n.pods : q.phase \notin {"Succeeded", "Failed"}}
                                         \cup {p}, r) <= n.allocatable[r]
    BY <2>5, <2>7, Zenon DEF IsPlacement
  <2>9. IsNode(n) /\ p \notin n.pods /\ IsSized({p}) /\ ~HasEndedPods(n)
    BY <2>3, <2>4, <2>6
  <2>10. acceptablePodDestination(p, n)
    BY <2>3, <2>8, <2>9, AcceptedMeansAcceptable
  <2> QED
    BY <2>2, <2>4, <2>6, <2>10 DEF schedulingCandidates
<1> QED
  BY <1>1, EvacuationInvariant, PTL

(* Schedule panics only when each acceptable node reports nothing          *)
(* allocatable of some resource.                                           *)
THEOREM PanicIsExplained == Spec => []PanicMeansNoAllocatable
<1>1. EvacuationInv => PanicMeansNoAllocatable
  BY DEF EvacuationInv
<1> QED
  BY <1>1, EvacuationInvariant, PTL
=============================================================================
