---------------------------- MODULE QueriesProofs ----------------------------
(***************************************************************************)
(* Theorems about Topology, Queries and VtkClient, for any files, indices  *)
(* and number of ingests: what is in the stores and on disk after an       *)
(* ingest, whatever was there before, are the files of it, and so is what  *)
(* the clients answer.                                                     *)
(***************************************************************************)
EXTENDS VtkClient, SequenceLemmas, FiniteSetTheorems

-----------------------------------------------------------------------------
(* Sums over finite sets.  SumFunction is a fold, a recursive function on  *)
(* the subsets of the domain that takes away an element at a time, any     *)
(* there is.  The lemmas show that there is such a function, and that it   *)
(* does not matter which element is taken.                                 *)

Pick(s) == CHOOSE x \in s : TRUE
Adding(f, S, g) == g = [s \in SUBSET S |-> IF s = {} THEN 0 ELSE f[Pick(s)] + g[s \ {Pick(s)}]]

\* The sum of f over a subset of its domain.
Adder(f) == CHOOSE g : Adding(f, DOMAIN f, g)
Part(f, s) == Adder(f)[s]

LEMMA SumPart ==
  ASSUME NEW f
  PROVE  SumFunction(f) = Part(f, DOMAIN f)
  BY Zenon DEF SumFunction, SumFunctionOnSet, FoldFunctionOnSet, MapThenFoldSet, Part, Adder, Adding, Pick

Small(S, n) == {s \in SUBSET S : Cardinality(s) <= n}
AddingTo(f, S, n, g) ==
  \A s \in Small(S, n) : g[s] = IF s = {} THEN 0 ELSE f[Pick(s)] + g[s \ {Pick(s)}]

\* An element fewer.
LEMMA Fewer ==
  ASSUME NEW S, IsFiniteSet(S), NEW s \in SUBSET S, NEW x \in s
  PROVE  /\ IsFiniteSet(s) /\ Cardinality(s) \in Nat \ {0} /\ s \ {x} \in SUBSET S
         /\ Cardinality(s \ {x}) = Cardinality(s) - 1 /\ Cardinality(s \ {x}) \in Nat
<1>1. IsFiniteSet(s) /\ Cardinality(s) \in Nat
  BY FS_Subset, FS_CardinalityType
<1>2. IsFiniteSet(s \ {x}) /\ Cardinality(s \ {x}) = Cardinality(s) - 1
  BY <1>1, FS_RemoveElement
<1>3. Cardinality(s \ {x}) \in Nat
  BY <1>2, FS_CardinalityType
<1>4. QED
  BY <1>1, <1>2, <1>3

LEMMA AdderExists ==
  ASSUME NEW f, NEW S, IsFiniteSet(S)
  PROVE  \E g : Adding(f, S, g)
<1> DEFINE good == {n \in Nat : \E g : AddingTo(f, S, n, g)}
           limit == Cardinality(S)
<1>1. limit \in Nat /\ \A s \in SUBSET S : Cardinality(s) <= limit
  BY FS_CardinalityType, FS_Subset
<1>2. 0 \in good
  <2> DEFINE zero == [s \in SUBSET S |-> 0]
  <2>1. ASSUME NEW s \in Small(S, 0) PROVE s = {}
    <3>1. s \in SUBSET S /\ IsFiniteSet(s) /\ Cardinality(s) <= 0 /\ Cardinality(s) \in Nat
      BY FS_Subset, FS_CardinalityType DEF Small
    <3>2. Cardinality(s) = 0
      BY <3>1
    <3>3. QED
      BY <3>1, <3>2, FS_EmptySet
  <2>2. AddingTo(f, S, 0, zero)
    BY <2>1 DEF AddingTo
  <2>3. QED
    BY <2>2
<1>3. ASSUME NEW n \in 0..limit, n < limit, n \in good PROVE n + 1 \in good
  <2>1. PICK g : AddingTo(f, S, n, g)
    BY <1>3
  <2> DEFINE h == [s \in SUBSET S |-> IF s \in Small(S, n) THEN g[s]
                                      ELSE IF s = {} THEN 0 ELSE f[Pick(s)] + g[s \ {Pick(s)}]]
  <2>2. ASSUME NEW s \in Small(S, n + 1), s # {} PROVE s \ {Pick(s)} \in Small(S, n)
    <3>1. s \in SUBSET S /\ Cardinality(s) <= n + 1 /\ Pick(s) \in s
      BY <2>2 DEF Small, Pick
    <3>2. s \ {Pick(s)} \in SUBSET S /\ Cardinality(s \ {Pick(s)}) = Cardinality(s) - 1 /\ Cardinality(s) \in Nat
      BY <3>1, Fewer
    <3>3. Cardinality(s \ {Pick(s)}) <= n
      BY <3>1, <3>2
    <3>4. QED
      BY <3>2, <3>3 DEF Small
  <2>3. ASSUME NEW s \in Small(S, n + 1)
        PROVE  h[s] = IF s = {} THEN 0 ELSE f[Pick(s)] + h[s \ {Pick(s)}]
    <3>1. s \in SUBSET S
      BY DEF Small
    <3>2. s # {} => h[s \ {Pick(s)}] = g[s \ {Pick(s)}]
      BY <2>2 DEF Small
    <3>3. CASE s \in Small(S, n)
      BY <2>1, <3>1, <3>2, <3>3 DEF AddingTo
    <3>4. CASE s \notin Small(S, n)
      BY <3>1, <3>2, <3>4
    <3>5. QED
      BY <3>3, <3>4
  <2>4. AddingTo(f, S, n + 1, h)
    <3> HIDE DEF h
    <3>1. QED
      BY <2>3 DEF AddingTo
  <2>5. QED
    BY <2>4
<1>4. PICK g : AddingTo(f, S, limit, g)
  <2> HIDE DEF good, limit
  <2>1. limit \in 0..limit
    BY <1>1
  <2>2. limit \in good
    BY <1>1, <1>2, <1>3, <2>1, Climb
  <2>3. QED
    BY <2>2 DEF good
<1>5. SUBSET S = Small(S, limit)
  BY <1>1 DEF Small
<1> DEFINE h == [s \in SUBSET S |-> g[s]]
<1>6. \A s \in SUBSET S : h[s] = IF s = {} THEN 0 ELSE f[Pick(s)] + h[s \ {Pick(s)}]
  BY <1>4, <1>5 DEF AddingTo
<1>7. h = [s \in SUBSET S |-> h[s]]
  OBVIOUS
<1> HIDE DEF h
<1>8. Adding(f, S, h)
  BY <1>6, <1>7 DEF Adding
<1>9. QED
  BY <1>8

LEMMA PartStep ==
  ASSUME NEW f, IsFiniteSet(DOMAIN f), NEW s \in SUBSET DOMAIN f
  PROVE  Part(f, s) = IF s = {} THEN 0 ELSE f[Pick(s)] + Part(f, s \ {Pick(s)})
<1>1. Adding(f, DOMAIN f, Adder(f))
  BY AdderExists, Zenon DEF Adder
<1>2. QED
  BY <1>1 DEF Adding, Part

\* Induction on finite sets: the sets that have a property are the good ones.
LEMMA Shrink ==
  ASSUME NEW S, IsFiniteSet(S), NEW good, {} \in good,
         \A s \in SUBSET S : s # {} /\ (\A x \in s : s \ {x} \in good) => s \in good
  PROVE  \A s \in SUBSET S : s \in good
<1> DEFINE sizes == {n \in Nat : \A s \in SUBSET S : Cardinality(s) = n => s \in good}
           limit == Cardinality(S)
<1>1. limit \in Nat /\ \A s \in SUBSET S : IsFiniteSet(s) /\ Cardinality(s) \in 0..limit
  BY FS_CardinalityType, FS_Subset
<1>2. 0 \in sizes
  BY <1>1, FS_EmptySet
<1>3. ASSUME NEW n \in 0..limit, n < limit, n \in sizes PROVE n + 1 \in sizes
  <2> SUFFICES ASSUME NEW s \in SUBSET S, Cardinality(s) = n + 1 PROVE s \in good
    OBVIOUS
  <2>1. s # {}
    BY FS_EmptySet
  <2>2. ASSUME NEW x \in s PROVE s \ {x} \in good
    <3>1. s \ {x} \in SUBSET S /\ Cardinality(s \ {x}) = n
      BY Fewer
    <3>2. QED
      BY <1>3, <3>1
  <2>3. QED
    BY <2>1, <2>2
<1>4. \A n \in 0..limit : n \in sizes
  <2> HIDE DEF sizes, limit
  <2>1. QED
    BY <1>1, <1>2, <1>3, Climb
<1>5. QED
  BY <1>1, <1>4

LEMMA PartEmpty ==
  ASSUME NEW f, IsFiniteSet(DOMAIN f)
  PROVE  Part(f, {}) = 0
  BY PartStep

\* The sum depends on the values that are added only.
LEMMA PartSame ==
  ASSUME NEW f, NEW g, IsFiniteSet(DOMAIN f), IsFiniteSet(DOMAIN g),
         NEW S, S \subseteq DOMAIN f, S \subseteq DOMAIN g, \A x \in S : f[x] = g[x]
  PROVE  Part(f, S) = Part(g, S)
<1> DEFINE good == {s \in SUBSET S : Part(f, s) = Part(g, s)}
<1>1. {} \in good
  BY PartEmpty
<1>2. ASSUME NEW s \in SUBSET S, s # {}, \A x \in s : s \ {x} \in good PROVE s \in good
  <2>1. Pick(s) \in s
    BY <1>2 DEF Pick
  <2>2. Part(f, s \ {Pick(s)}) = Part(g, s \ {Pick(s)}) /\ f[Pick(s)] = g[Pick(s)]
    BY <1>2, <2>1
  <2>3. s \in SUBSET DOMAIN f /\ s \in SUBSET DOMAIN g
    OBVIOUS
  <2>4. Part(f, s) = f[Pick(s)] + Part(f, s \ {Pick(s)}) /\ Part(g, s) = g[Pick(s)] + Part(g, s \ {Pick(s)})
    BY <1>2, <2>3, PartStep
  <2>5. QED
    BY <2>2, <2>4
<1>3. IsFiniteSet(S)
  BY FS_Subset
<1>4. S \in good
  <2> HIDE DEF good
  <2>1. \A s \in SUBSET S : s \in good
    BY <1>1, <1>2, <1>3, Shrink
  <2>2. QED
    BY <2>1
<1>5. QED
  BY <1>4

LEMMA PartInt ==
  ASSUME NEW f, IsFiniteSet(DOMAIN f), \A x \in DOMAIN f : f[x] \in Int
  PROVE  \A s \in SUBSET DOMAIN f : Part(f, s) \in Int
<1> DEFINE good == {s \in SUBSET DOMAIN f : Part(f, s) \in Int}
<1>1. {} \in good
  BY PartEmpty
<1>2. ASSUME NEW s \in SUBSET DOMAIN f, s # {}, \A x \in s : s \ {x} \in good PROVE s \in good
  <2>1. Pick(s) \in s
    BY <1>2 DEF Pick
  <2>2. Part(f, s) = f[Pick(s)] + Part(f, s \ {Pick(s)})
    BY <1>2, PartStep
  <2>3. Part(f, s \ {Pick(s)}) \in Int /\ f[Pick(s)] \in Int
    BY <1>2, <2>1
  <2>4. QED
    BY <2>2, <2>3
<1>3. \A s \in SUBSET DOMAIN f : s \in good
  <2> HIDE DEF good
  <2>1. QED
    BY <1>1, <1>2, Shrink
<1>4. QED
  BY <1>3

\* Any element can be taken first.
LEMMA PartTake ==
  ASSUME NEW f, IsFiniteSet(DOMAIN f), \A x \in DOMAIN f : f[x] \in Int
  PROVE  \A s \in SUBSET DOMAIN f : \A x \in s : Part(f, s) = f[x] + Part(f, s \ {x})
<1> DEFINE good == {s \in SUBSET DOMAIN f : \A x \in s : Part(f, s) = f[x] + Part(f, s \ {x})}
<1>1. {} \in good
  OBVIOUS
<1>2. ASSUME NEW s \in SUBSET DOMAIN f, s # {}, \A x \in s : s \ {x} \in good PROVE s \in good
  <2> SUFFICES ASSUME NEW x \in s PROVE Part(f, s) = f[x] + Part(f, s \ {x})
    OBVIOUS
  <2> DEFINE p == Pick(s)
  <2>1. p \in s
    BY DEF Pick
  <2>2. Part(f, s) = f[p] + Part(f, s \ {p})
    BY PartStep
  <2> HIDE DEF p
  <2>3. CASE x = p
    BY <2>2, <2>3
  <2>4. CASE x # p
    <3>1. s \ {p} \in good /\ x \in s \ {p} /\ s \ {x} \in good /\ p \in s \ {x}
      BY <1>2, <2>1, <2>4
    <3> DEFINE rest == (s \ {p}) \ {x}
    <3>2. Part(f, s \ {p}) = f[x] + Part(f, rest)
      BY <3>1
    <3>3. rest = (s \ {x}) \ {p} /\ rest \in SUBSET DOMAIN f
      OBVIOUS
    <3>4. Part(f, s \ {x}) = f[p] + Part(f, rest)
      BY <3>1, <3>3
    <3> HIDE DEF rest
    <3>5. f[x] \in Int /\ f[p] \in Int /\ Part(f, rest) \in Int
      BY <2>1, <3>3, PartInt
    <3>6. f[p] + (f[x] + Part(f, rest)) = f[x] + (f[p] + Part(f, rest))
      BY <3>5
    <3>7. QED
      BY <2>2, <3>2, <3>4, <3>6
  <2>5. QED
    BY <2>3, <2>4
<1>3. \A s \in SUBSET DOMAIN f : s \in good
  <2> HIDE DEF good
  <2>1. QED
    BY <1>1, <1>2, Shrink
<1>4. QED
  BY <1>3

\* The sum over two sets that have nothing in common.
LEMMA PartUnion ==
  ASSUME NEW f, IsFiniteSet(DOMAIN f), \A x \in DOMAIN f : f[x] \in Int,
         NEW B \in SUBSET DOMAIN f, NEW A \in SUBSET DOMAIN f, A \cap B = {}
  PROVE  Part(f, A \cup B) = Part(f, A) + Part(f, B)
<1> DEFINE good == {s \in SUBSET A : Part(f, s \cup B) = Part(f, s) + Part(f, B)}
<1>1. {} \in good
  <2>1. Part(f, {}) = 0 /\ Part(f, B) \in Int /\ {} \cup B = B
    BY PartEmpty, PartInt
  <2>2. QED
    BY <2>1
<1>2. ASSUME NEW s \in SUBSET A, s # {}, \A x \in s : s \ {x} \in good PROVE s \in good
  <2>1. PICK x : x \in s
    BY <1>2
  <2>2. s \in SUBSET DOMAIN f /\ s \cup B \in SUBSET DOMAIN f /\ x \in s \cup B
        /\ (s \cup B) \ {x} = (s \ {x}) \cup B
    BY <2>1
  <2>3. Part(f, s \cup B) = f[x] + Part(f, (s \ {x}) \cup B) /\ Part(f, s) = f[x] + Part(f, s \ {x})
    BY <2>1, <2>2, PartTake
  <2>4. Part(f, (s \ {x}) \cup B) = Part(f, s \ {x}) + Part(f, B)
    BY <1>2, <2>1
  <2>5. f[x] \in Int /\ Part(f, s \ {x}) \in Int /\ Part(f, B) \in Int
    BY <2>1, <2>2, PartInt
  <2>6. QED
    BY <2>3, <2>4, <2>5
<1>3. IsFiniteSet(A)
  BY FS_Subset
<1>4. A \in good
  <2> HIDE DEF good
  <2>1. QED
    BY <1>1, <1>2, <1>3, Shrink
<1>5. QED
  BY <1>4

LEMMA SumEmpty ==
  ASSUME NEW f, DOMAIN f = {}
  PROVE  SumFunction(f) = 0
  BY SumPart, PartEmpty, FS_EmptySet

LEMMA SumInt ==
  ASSUME NEW f, IsFiniteSet(DOMAIN f), \A x \in DOMAIN f : f[x] \in Int
  PROVE  SumFunction(f) \in Int
  BY SumPart, PartInt

LEMMA PartSum ==
  ASSUME NEW f, IsFiniteSet(DOMAIN f), NEW s \in SUBSET DOMAIN f
  PROVE  Part(f, s) = SumFunction([x \in s |-> f[x]])
<1> DEFINE g == [x \in s |-> f[x]]
<1>1. DOMAIN g = s /\ \A x \in s : f[x] = g[x]
  OBVIOUS
<1>2. IsFiniteSet(s)
  BY FS_Subset
<1> HIDE DEF g
<1>3. Part(f, s) = Part(g, s)
  BY <1>1, <1>2, PartSame
<1>4. QED
  BY <1>1, <1>3, SumPart DEF g

\* What is added may have other names.
LEMMA SumMoved ==
  ASSUME NEW f, NEW g, NEW h, IsFiniteSet(DOMAIN f), IsFiniteSet(DOMAIN g),
         \A x \in DOMAIN g : g[x] \in Int,
         \A x \in DOMAIN f : h[x] \in DOMAIN g /\ f[x] = g[h[x]],
         \A x, y \in DOMAIN f : h[x] = h[y] => x = y,
         \A z \in DOMAIN g : \E x \in DOMAIN f : z = h[x]
  PROVE  SumFunction(f) = SumFunction(g)
<1> DEFINE Image(s) == {h[x] : x \in s}
           good == {s \in SUBSET DOMAIN f : Part(f, s) = Part(g, Image(s))}
<1>0. \A x \in DOMAIN f : f[x] \in Int
  OBVIOUS
<1>1. {} \in good
  <2>1. Image({}) = {}
    OBVIOUS
  <2>2. QED
    BY <2>1, PartEmpty
<1>2. ASSUME NEW s \in SUBSET DOMAIN f, s # {}, \A x \in s : s \ {x} \in good PROVE s \in good
  <2>1. PICK x : x \in s
    BY <1>2
  <2>2. Part(f, s) = f[x] + Part(f, s \ {x})
    BY <1>0, <2>1, PartTake
  <2>3. Part(f, s \ {x}) = Part(g, Image(s \ {x}))
    BY <1>2, <2>1
  <2>4. Image(s) \in SUBSET DOMAIN g /\ h[x] \in Image(s)
    BY <2>1
  <2>5. Image(s \ {x}) = Image(s) \ {h[x]}
    BY <2>1
  <2> HIDE DEF Image
  <2>6. Part(g, Image(s)) = g[h[x]] + Part(g, Image(s) \ {h[x]})
    BY <2>4, PartTake
  <2>7. f[x] = g[h[x]]
    BY <2>1
  <2>8. QED
    BY <2>2, <2>3, <2>5, <2>6, <2>7
<1>3. DOMAIN f \in good
  <2> HIDE DEF good
  <2>1. \A s \in SUBSET DOMAIN f : s \in good
    BY <1>1, <1>2, Shrink
  <2>2. QED
    BY <2>1
<1>4. Image(DOMAIN f) = DOMAIN g
  OBVIOUS
<1>5. QED
  BY <1>3, <1>4, SumPart

\* What is added may be added in groups.
LEMMA SumGrouped ==
  ASSUME NEW f, IsFiniteSet(DOMAIN f), \A x \in DOMAIN f : f[x] \in Int,
         NEW g, UNION DOMAIN g = DOMAIN f, \A p \in DOMAIN g : g[p] = Part(f, p),
         \A p, q \in DOMAIN g : p # q => p \cap q = {}
  PROVE  SumFunction(g) = SumFunction(f)
<1> DEFINE good == {s \in SUBSET DOMAIN g : Part(g, s) = Part(f, UNION s)}
<1>0. \A p \in DOMAIN g : p \in SUBSET DOMAIN f
  OBVIOUS
<1>1. IsFiniteSet(DOMAIN g) /\ \A p \in DOMAIN g : g[p] \in Int
  <2>1. IsFiniteSet(SUBSET DOMAIN f) /\ DOMAIN g \in SUBSET SUBSET DOMAIN f
    BY <1>0, FS_SUBSET
  <2>2. QED
    BY <1>0, <2>1, FS_Subset, PartInt
<1>2. {} \in good
  <2>1. UNION {} = {}
    OBVIOUS
  <2>2. QED
    BY <1>1, <2>1, PartEmpty
<1>3. ASSUME NEW s \in SUBSET DOMAIN g, s # {}, \A p \in s : s \ {p} \in good PROVE s \in good
  <2>1. PICK p : p \in s
    BY <1>3
  <2>2. Part(g, s) = g[p] + Part(g, s \ {p})
    BY <1>1, <2>1, PartTake
  <2>3. Part(g, s \ {p}) = Part(f, UNION (s \ {p})) /\ g[p] = Part(f, p)
    BY <1>3, <2>1
  <2> DEFINE rest == UNION (s \ {p})
  <2>4. rest \in SUBSET DOMAIN f /\ p \in SUBSET DOMAIN f
    BY <1>0, <2>1
  <2>5. p \cap rest = {}
    BY <2>1
  <2>6. UNION s = p \cup rest
    BY <2>1
  <2> HIDE DEF rest
  <2>7. Part(f, p \cup rest) = Part(f, p) + Part(f, rest)
    BY <2>4, <2>5, PartUnion
  <2>8. QED
    BY <2>2, <2>3, <2>6, <2>7 DEF rest
<1>4. DOMAIN g \in good
  <2> HIDE DEF good
  <2>1. \A s \in SUBSET DOMAIN g : s \in good
    BY <1>1, <1>2, <1>3, Shrink
  <2>2. QED
    BY <2>1
<1>5. QED
  BY <1>4, SumPart

LEMMA CountIsSum ==
  ASSUME NEW S, IsFiniteSet(S)
  PROVE  \A s \in SUBSET S : Cardinality(s) = Part([x \in S |-> 1], s)
<1> DEFINE f == [x \in S |-> 1]
           good == {s \in SUBSET S : Cardinality(s) = Part(f, s)}
<1>0. DOMAIN f = S /\ \A x \in S : f[x] = 1
  OBVIOUS
<1> HIDE DEF f
<1>1. {} \in good
  BY <1>0, PartEmpty, FS_EmptySet
<1>2. ASSUME NEW s \in SUBSET S, s # {}, \A x \in s : s \ {x} \in good PROVE s \in good
  <2>1. PICK x : x \in s
    BY <1>2
  <2>2. Part(f, s) = 1 + Part(f, s \ {x})
    BY <1>0, <2>1, PartTake
  <2>3. Cardinality(s \ {x}) = Part(f, s \ {x})
    BY <1>2, <2>1
  <2>4. Cardinality(s \ {x}) = Cardinality(s) - 1 /\ Cardinality(s) \in Nat
    BY <2>1, Fewer
  <2>5. QED
    BY <2>2, <2>3, <2>4
<1>3. \A s \in SUBSET S : s \in good
  <2> HIDE DEF good
  <2>1. QED
    BY <1>1, <1>2, Shrink
<1>4. QED
  BY <1>3 DEF f

-----------------------------------------------------------------------------
(* Extremes of sets.                                                       *)

LEMMA LargestOf ==
  ASSUME NEW S, NEW bound \in Nat, S \subseteq 0..bound, S # {}
  PROVE  Max(S) \in S /\ \A x \in S : x <= Max(S)
<1> DEFINE below == {bound - x : x \in S}
<1>1. \A x \in S : x \in Int /\ 0 <= x /\ x <= bound
  OBVIOUS
<1>a. \A x \in S : bound - x \in Nat
  BY <1>1
<1>2. below \subseteq Nat /\ below # {}
  BY <1>a
<1>3. PICK n \in below : \A x \in below : n <= x
  BY <1>2, SmallestOf
<1>4. PICK m \in S : n = bound - m
  BY <1>3
<1>5. ASSUME NEW x \in S PROVE m >= x
  <2>1. n <= bound - x
    BY <1>3
  <2>2. QED
    BY <2>1, <1>1, <1>4
<1>6. QED
  BY <1>1, <1>5 DEF Max

\* The largest element is the only one that no other exceeds.
LEMMA LargestIs ==
  ASSUME NEW S, S \subseteq Int, NEW m \in S, \A x \in S : x <= m
  PROVE  Max(S) = m
<1>1. m \in S /\ \A y \in S : m >= y
  OBVIOUS
<1>2. Max(S) \in S /\ \A y \in S : Max(S) >= y
  BY <1>1, Zenon DEF Max
<1>3. Max(S) <= m /\ m <= Max(S) /\ m \in Int /\ Max(S) \in Int
  BY <1>2
<1> HIDE DEF Max
<1>4. QED
  BY <1>3

-----------------------------------------------------------------------------
(* Files and zones.                                                        *)

LEMMA InputFacts ==
  ASSUME NEW input \in FileSets
  PROVE  /\ Len(input) \in Nat \ {0} /\ DOMAIN input = 1..Len(input) /\ input # NoFiles
         /\ \A i \in 1..Len(input) : IsFile(input[i])
<1>1. input # <<>> /\ input \in Seq(ToSet(input)) /\ \A file \in ToSet(input) : IsFile(file)
  BY FilesAssumption
<1>2. Len(input) \in Nat /\ DOMAIN input = 1..Len(input) /\ Len(input) # 0
  BY <1>1
<1>3. \A i \in 1..Len(input) : input[i] \in ToSet(input)
  BY <1>2 DEF ToSet
<1>4. QED
  BY <1>1, <1>2, <1>3 DEF NoFiles

LEMMA RequestedFacts ==
  ASSUME NEW file, IsFile(file), NEW k \in Requested(file, Indices)
  PROVE  /\ k \in 1..Len(Indices) /\ Indices[k] \in Nat /\ Indices[k] + 1 \in 1..Len(file.zones)
         /\ Indices[k] + 1 \in DOMAIN file.zones /\ IsZone(ZoneAt(file, Indices[k]))
<1>1. file.zones \in Seq(ToSet(file.zones)) /\ \A zone \in ToSet(file.zones) : IsZone(zone)
  BY DEF IsFile
<1>2. Indices \in Seq(Nat) /\ k \in DOMAIN Indices /\ Indices[k] < Len(file.zones)
  BY FilesAssumption DEF Requested
<1>3. k \in 1..Len(Indices) /\ Indices[k] \in Nat
  BY <1>2
<1>4. Len(file.zones) \in Nat /\ DOMAIN file.zones = 1..Len(file.zones)
  BY <1>1
<1>5. Indices[k] + 1 \in 1..Len(file.zones)
  <2>1. \A n, m \in Nat : n < m => n + 1 \in 1..m
    OBVIOUS
  <2>2. QED
    BY <1>2, <1>3, <1>4, <2>1
<1>6. file.zones[Indices[k] + 1] \in ToSet(file.zones)
  <2>1. \A i \in DOMAIN file.zones : file.zones[i] \in ToSet(file.zones)
    BY DEF ToSet
  <2>2. QED
    BY <1>4, <1>5, <2>1
<1>7. QED
  BY <1>1, <1>3, <1>4, <1>5, <1>6 DEF ZoneAt

\* The zone that counts for a name is the last one of that name that is asked for.
LEMMA NamedFacts ==
  ASSUME NEW file, IsFile(file), NEW name \in Names(file, Indices)
  PROVE  /\ Max(Named(file, Indices, name)) \in Named(file, Indices, name)
         /\ \A k \in Named(file, Indices, name) : k <= Max(Named(file, Indices, name))
         /\ Max(Named(file, Indices, name)) \in Requested(file, Indices)
         /\ LastNamed(file, Indices, name).name = name
<1> DEFINE S == Named(file, Indices, name)
<1>1. S \subseteq Requested(file, Indices) /\ S # {}
  BY DEF Names, Named
<1>2. Len(Indices) \in Nat /\ \A k \in Requested(file, Indices) : k \in 1..Len(Indices)
  BY RequestedFacts
<1>3. S \subseteq 0..Len(Indices)
  BY <1>1, <1>2
<1> HIDE DEF S
<1>4. Max(S) \in S /\ \A k \in S : k <= Max(S)
  BY <1>1, <1>2, <1>3, LargestOf
<1>5. Max(S) \in Requested(file, Indices)
  BY <1>1, <1>4
<1>6. LastNamed(file, Indices, name).name = name
  BY <1>4 DEF LastNamed, Named, S
<1>7. QED
  BY <1>4, <1>5, <1>6 DEF S

LEMMA NamesFound ==
  ASSUME NEW file, NEW k \in Requested(file, Indices)
  PROVE  /\ Frame(file, Indices)[k].name \in Names(file, Indices)
         /\ k \in Named(file, Indices, Frame(file, Indices)[k].name)
  BY DEF Frame, Names, Named

-----------------------------------------------------------------------------
(* Meshes.                                                                 *)

\* Nodes keep the numbers of the file but one: around a cell they are those of the faces that
\* have it left or right.
LEMMA NodesAround ==
  ASSUME NEW zone, Decodes(zone), NEW c \in CellIds(zone)
  PROVE  /\ FacesOf(zone, c) = FacesAt(zone, c)
         /\ CellNodes(zone, c) = {p - 1 : p \in PointsAt(zone, c)}
<1>1. zone.cells \in Int \/ zone.cells \notin Int
  OBVIOUS
<1>2. \A i \in DOMAIN zone.faces : zone.faces[i].le \in 0..zone.cells /\ zone.faces[i].re \in 0..zone.cells
  BY DEF Decodes
<1>3. c \in Int /\ c >= 0
  BY DEF CellIds
<1>4. ASSUME NEW i \in DOMAIN zone.faces
      PROVE  c \in FaceCells(zone.faces[i]) <=> c + 1 \in {zone.faces[i].le, zone.faces[i].re}
  <2> DEFINE l == zone.faces[i].le
             r == zone.faces[i].re
  <2>1. l \in Int /\ r \in Int
    BY <1>2
  <2> HIDE DEF l, r
  <2>2. c # -1
    BY <1>3
  <2>3. (c = l - 1 <=> c + 1 = l) /\ (c = r - 1 <=> c + 1 = r)
    BY <1>3, <2>1
  <2>4. c \in ({l - 1, r - 1} \ {-1}) <=> c + 1 \in {l, r}
    BY <2>2, <2>3
  <2>5. QED
    BY <2>4 DEF FaceCells, l, r
<1>5. FacesOf(zone, c) = FacesAt(zone, c)
  BY <1>4 DEF FacesOf, FacesAt
<1>6. CellNodes(zone, c) = {p - 1 : p \in PointsAt(zone, c)}
  <2>1. \A i : ToSet(zone.faces[i].nodes) = Range(zone.faces[i].nodes)
    BY DEF ToSet, Range
  <2> DEFINE F == FacesAt(zone, c)
             of == [i \in F |-> Range(zone.faces[i].nodes)]
  <2>2. CellNodes(zone, c) = UNION {{n - 1 : n \in Range(zone.faces[i].nodes)} : i \in F}
    BY <1>5, <2>1 DEF CellNodes
  <2>3. PointsAt(zone, c) = UNION {Range(zone.faces[i].nodes) : i \in F}
    BY DEF PointsAt
  <2>4. QED
    BY <2>2, <2>3
<1>7. QED
  BY <1>5, <1>6

\* What the files say is beside a cell.
LEMMA NeighboursBeside ==
  ASSUME NEW zone, Decodes(zone), zone.cells \in Nat, NEW c \in CellIds(zone)
  PROVE  Neighbours(zone, c) = Beside(zone, c)
<1>1. \A i \in DOMAIN zone.faces : zone.faces[i].le \in 0..zone.cells /\ zone.faces[i].re \in 0..zone.cells
  BY DEF Decodes
<1>2. c \in Int /\ c >= 0 /\ c <= zone.cells - 1
  BY DEF CellIds
<1>3. ASSUME NEW i \in DOMAIN zone.faces, NEW d, d # c
      PROVE  d \in FaceCells(zone.faces[i]) /\ c \in FaceCells(zone.faces[i]) <=>
               d \in CellIds(zone) /\ {zone.faces[i].le, zone.faces[i].re} = {c + 1, d + 1}
  <2> DEFINE l == zone.faces[i].le
             r == zone.faces[i].re
  <2>1. l \in Int /\ r \in Int /\ 0 <= l /\ l <= zone.cells /\ 0 <= r /\ r <= zone.cells
    BY <1>1
  <2> HIDE DEF l, r
  <2>2. ASSUME d \in ({l - 1, r - 1} \ {-1}), c \in ({l - 1, r - 1} \ {-1})
        PROVE  d \in 0..zone.cells - 1 /\ {l, r} = {c + 1, d + 1}
    <3>1. d \in Int /\ d # -1 /\ (d = l - 1 \/ d = r - 1) /\ (c = l - 1 \/ c = r - 1)
      BY <2>1, <2>2
    <3>2. (d = l - 1 /\ c = r - 1) \/ (d = r - 1 /\ c = l - 1)
      BY <1>3, <3>1
    <3>3. (d + 1 = l /\ c + 1 = r) \/ (d + 1 = r /\ c + 1 = l)
      BY <1>2, <2>1, <3>1, <3>2
    <3>4. d >= 0 /\ d <= zone.cells - 1
      <4>1. d + 1 = l \/ d + 1 = r
        BY <3>3
      <4>2. 0 <= d + 1 /\ d + 1 <= zone.cells
        BY <2>1, <4>1
      <4>3. QED
        BY <3>1, <4>2
    <3>5. QED
      BY <3>1, <3>3, <3>4
  <2>3. ASSUME d \in 0..zone.cells - 1, {l, r} = {c + 1, d + 1}
        PROVE  d \in ({l - 1, r - 1} \ {-1}) /\ c \in ({l - 1, r - 1} \ {-1})
    <3>1. d \in Int /\ d >= 0
      BY <2>3
    <3>2. (l = c + 1 /\ r = d + 1) \/ (l = d + 1 /\ r = c + 1)
      BY <1>2, <1>3, <2>3, <3>1
    <3>3. c # -1 /\ d # -1 /\ (c + 1) - 1 = c /\ (d + 1) - 1 = d
      BY <1>2, <3>1
    <3>4. (l - 1 = c /\ r - 1 = d) \/ (l - 1 = d /\ r - 1 = c)
      BY <3>2, <3>3
    <3>5. QED
      BY <3>3, <3>4
  <2>4. QED
    BY <2>2, <2>3 DEF FaceCells, CellIds, l, r
<1>4. Neighbours(zone, c) \subseteq Beside(zone, c)
  <2> SUFFICES ASSUME NEW d \in Neighbours(zone, c) PROVE d \in Beside(zone, c)
    OBVIOUS
  <2>a. d \in UNION {FaceCells(zone.faces[i]) : i \in FacesOf(zone, c)} /\ d # c
    BY DEF Neighbours
  <2>1. PICK i \in FacesOf(zone, c) : d \in FaceCells(zone.faces[i])
    BY <2>a
  <2>2. i \in DOMAIN zone.faces /\ c \in FaceCells(zone.faces[i])
    BY <2>1 DEF FacesOf
  <2>3. d \in CellIds(zone) /\ {zone.faces[i].le, zone.faces[i].re} = {c + 1, d + 1}
    BY <1>3, <2>a, <2>1, <2>2
  <2>4. QED
    BY <2>a, <2>2, <2>3 DEF Beside
<1>5. Beside(zone, c) \subseteq Neighbours(zone, c)
  <2> SUFFICES ASSUME NEW d \in Beside(zone, c) PROVE d \in Neighbours(zone, c)
    OBVIOUS
  <2>1. PICK i \in DOMAIN zone.faces : {zone.faces[i].le, zone.faces[i].re} = {c + 1, d + 1}
    BY DEF Beside
  <2>2. d \in CellIds(zone) /\ d # c
    BY DEF Beside
  <2>3. d \in FaceCells(zone.faces[i]) /\ c \in FaceCells(zone.faces[i])
    BY <1>3, <2>1, <2>2
  <2>4. i \in FacesOf(zone, c)
    BY <2>3 DEF FacesOf
  <2>5. d \in UNION {FaceCells(zone.faces[j]) : j \in FacesOf(zone, c)}
    BY <2>3, <2>4
  <2>6. QED
    BY <2>2, <2>5 DEF Neighbours
<1>6. QED
  BY <1>4, <1>5

\* A mesh is sound if nodes and neighbours are its own.
Sound(mesh) ==
  \A c \in CellsOf(mesh) : mesh.nodes[c] \subseteq 0..mesh.nodeCount - 1 /\ mesh.adjacency[c] \subseteq CellsOf(mesh)

LEMMA PayloadFacts ==
  ASSUME NEW zone
  PROVE  /\ CellsOf(Payload(zone)) = CellIds(zone)
         /\ Payload(zone).nodes = [c \in CellIds(zone) |-> CellNodes(zone, c)]
         /\ Payload(zone).adjacency = [c \in CellIds(zone) |-> Neighbours(zone, c)]
         /\ Payload(zone).centre = [c \in CellIds(zone) |-> Centre(zone, c)]
         /\ Payload(zone).points = zone.nodes /\ Payload(zone).nodeCount = Len(zone.nodes)
  BY DEF Payload, CellsOf

LEMMA PayloadSound ==
  ASSUME NEW zone, IsZone(zone), Decodes(zone)
  PROVE  Sound(Payload(zone))
<1> SUFFICES ASSUME NEW c \in CellIds(zone)
             PROVE  /\ Payload(zone).nodes[c] \subseteq 0..Payload(zone).nodeCount - 1
                    /\ Payload(zone).adjacency[c] \subseteq CellIds(zone)
  BY PayloadFacts DEF Sound
<1>1. zone.nodes \in Seq(Int) /\ zone.cells \in Nat
  BY DEF IsZone
<1>2. Len(zone.nodes) \in Nat /\ DOMAIN zone.nodes = 1..Len(zone.nodes)
  BY <1>1
<1>3. CellNodes(zone, c) \subseteq 0..Len(zone.nodes) - 1
  <2> SUFFICES ASSUME NEW i \in FacesOf(zone, c), NEW n \in ToSet(zone.faces[i].nodes)
               PROVE  n - 1 \in 0..Len(zone.nodes) - 1
    BY DEF CellNodes
  <2>1. i \in DOMAIN zone.faces
    BY DEF FacesOf
  <2>2. n \in 1..Len(zone.nodes)
    BY <1>2, <2>1 DEF Decodes
  <2>3. QED
    BY <1>2, <2>2
<1>4. Neighbours(zone, c) \subseteq CellIds(zone)
  BY <1>1, NeighboursBeside DEF Beside
<1>5. QED
  BY <1>3, <1>4, PayloadFacts


\* The zones of the file that the topology is made of, decoded.
LEMMA LoadedFacts ==
  ASSUME NEW file, IsFile(file), TopologyLoads(file, Indices), NEW name \in Names(file, Indices)
  PROVE  /\ LoadTopology(file, Indices)[name] = Payload(LastNamed(file, Indices, name))
         /\ IsZone(LastNamed(file, Indices, name)) /\ Decodes(LastNamed(file, Indices, name))
<1> DEFINE k == Max(Named(file, Indices, name))
<1>1. k \in Requested(file, Indices)
  BY NamedFacts
<1> HIDE DEF k
<1>2. Indices[k] + 1 \in DOMAIN file.zones /\ IsZone(ZoneAt(file, Indices[k]))
  BY <1>1, RequestedFacts
<1>3. Decodes(ZoneAt(file, Indices[k]))
  BY <1>2 DEF TopologyLoads, ZoneAt
<1>4. LastNamed(file, Indices, name) = ZoneAt(file, Indices[k])
  BY DEF LastNamed, k
<1>5. QED
  BY <1>2, <1>3, <1>4 DEF LoadTopology

LEMMA LoadedNames ==
  ASSUME NEW file
  PROVE  DOMAIN LoadTopology(file, Indices) = Names(file, Indices)
  BY DEF LoadTopology

LEMMA LoadedSome ==
  ASSUME NEW file, IsFile(file), TopologyLoads(file, Indices)
  PROVE  Names(file, Indices) # {}
  BY DEF TopologyLoads, Names

-----------------------------------------------------------------------------
(* Frames.                                                                 *)

\* There is a first frame that does not fit, or all do.
LEMMA FittingFacts ==
  ASSUME NEW input \in FileSets, NEW topology
  PROVE  /\ Fitting(input, topology) \in 0..Len(input)
         /\ \A i \in 1..Fitting(input, topology) : FrameFits(input[i], Indices, topology)
         /\ \/ Fitting(input, topology) = Len(input)
            \/ ~FrameFits(input[Fitting(input, topology) + 1], Indices, topology)
<1> DEFINE Fits(i) == FrameFits(input[i], Indices, topology)
           S == {n \in 0..Len(input) : \A i \in 1..n : Fits(i)}
<1>1. Len(input) \in Nat
  BY InputFacts
<1> HIDE DEF Fits
<1>2. 0 \in S
  BY <1>1
<1>3. S \subseteq 0..Len(input)
  OBVIOUS
<1>4. PICK n \in S : \A m \in S : m <= n
  <2> HIDE DEF S
  <2>1. QED
    BY <1>1, <1>2, <1>3, LargestOf
<1>5. n \in 0..Len(input) /\ \A i \in 1..n : Fits(i)
  BY <1>4
<1>6. n = Len(input) \/ ~Fits(n + 1)
  <2> SUFFICES ASSUME n # Len(input), Fits(n + 1) PROVE FALSE
    OBVIOUS
  <2>1. n + 1 \in 0..Len(input)
    BY <1>1, <1>5
  <2>2. \A i \in 1..n + 1 : i \in 1..n \/ i = n + 1
    BY <1>1, <1>5
  <2>3. n + 1 \in S
    BY <1>5, <2>1, <2>2
  <2>4. n + 1 <= n
    BY <1>4, <2>3
  <2>5. QED
    BY <1>5, <2>4
<1>7. \E m \in 0..Len(input) : (\A i \in 1..m : Fits(i)) /\ (m = Len(input) \/ ~Fits(m + 1))
  BY <1>5, <1>6
<1>8. QED
  BY <1>7 DEF Fitting, Fits

LEMMA FrameFacts ==
  ASSUME NEW file, NEW k \in Requested(file, Indices)
  PROVE  /\ Frame(file, Indices)[k].name = ZoneAt(file, Indices[k]).name
         /\ Frame(file, Indices)[k].values = ZoneAt(file, Indices[k]).values
         /\ Frame(file, Indices)[k].index = Indices[k]
  BY DEF Frame

\* In a frame that fits, the zone that counts for a name has a value for every cell.
LEMMA FittingValues ==
  ASSUME NEW file, IsFile(file), NEW topology, FrameFits(file, Indices, topology), NEW name \in Names(file, Indices)
  PROVE  /\ name \in DOMAIN topology
         /\ Len(LastNamed(file, Indices, name).values) = Cardinality(CellsOf(topology[name]))
<1> DEFINE k == Max(Named(file, Indices, name))
<1>1. k \in Requested(file, Indices) /\ LastNamed(file, Indices, name).name = name
  BY NamedFacts
<1>2. LastNamed(file, Indices, name) = ZoneAt(file, Indices[k])
  BY DEF LastNamed
<1> HIDE DEF k
<1>3. k \in DOMAIN Frame(file, Indices)
  BY <1>1 DEF Frame
<1>4. QED
  BY <1>1, <1>2, <1>3, FrameFacts DEF FrameFits

-----------------------------------------------------------------------------
(* Tables.                                                                 *)

LEMMA LatestIs ==
  ASSUME NEW W, NEW w \in W, \A v \in W : v[1] \in Nat /\ v[2] \in Nat,
         \A v \in W : v = w \/ Precedes(v, w)
  PROVE  Latest(W) = w
<1>1. Latest(W) \in W /\ \A v \in W : v = Latest(W) \/ Precedes(v, Latest(W))
  BY Zenon DEF Latest
<1> DEFINE u == Latest(W)
<1>2. w = u \/ Precedes(w, u)
  BY <1>1
<1>3. u = w \/ Precedes(u, w)
  BY <1>1
<1>4. u[1] \in Nat /\ u[2] \in Nat /\ w[1] \in Nat /\ w[2] \in Nat
  BY <1>1
<1> HIDE DEF u
<1>5. ~(Precedes(w, u) /\ Precedes(u, w))
  <2>1. \A i, k, j, l \in Nat : ~((i < j \/ (i = j /\ k < l)) /\ (j < i \/ (j = i /\ l < k)))
    OBVIOUS
  <2>2. QED
    BY <1>4, <2>1, Zenon DEF Precedes
<1>6. QED
  BY <1>2, <1>3, <1>5 DEF u

LEMMA WritesFacts ==
  ASSUME NEW input \in FileSets, NEW n \in 0..Len(input), NEW w \in Writes(input, n)
  PROVE  /\ w = <<w[1], w[2]>> /\ w[1] \in 1..n /\ w[1] \in 1..Len(input) /\ w[1] \in Nat /\ w[2] \in Nat
         /\ IsFile(input[w[1]]) /\ w[2] \in Requested(input[w[1]], Indices)
<1>1. PICK i \in 1..n : w \in {<<i, k>> : k \in Requested(input[i], Indices)}
  BY DEF Writes
<1>2. PICK k \in Requested(input[i], Indices) : w = <<i, k>>
  BY <1>1
<1>3. Len(input) \in Nat /\ i \in 1..Len(input)
  BY InputFacts
<1>4. IsFile(input[i])
  BY <1>3, InputFacts
<1>5. k \in 1..Len(Indices)
  BY <1>4, RequestedFacts
<1>6. w[1] = i /\ w[2] = k
  BY <1>2
<1>7. QED
  BY <1>2, <1>3, <1>4, <1>5, <1>6

LEMMA WriteIs ==
  ASSUME NEW input, NEW n, NEW i \in 1..n, NEW k \in Requested(input[i], Indices)
  PROVE  <<i, k>> \in Writes(input, n)
  BY DEF Writes


\* The frames of a step that have a zone, the writes of it, and the values that last.
FramesOf(input, name, step) == {i \in DOMAIN input : input[i].step = step /\ name \in Names(input[i], Indices)}
WritesOf(input, name, step) ==
  {w \in Writes(input, Len(input)) : ZoneOf(input, w).name = name /\ StepOf(input, w) = step}
Lasting(input, name, step) == LastNamed(input[Max(FramesOf(input, name, step))], Indices, name)

LEMMA LastFrame ==
  ASSUME NEW input \in FileSets, NEW name, NEW step, FramesOf(input, name, step) # {}
  PROVE  LET i == Max(FramesOf(input, name, step)) IN
         /\ i \in 1..Len(input) /\ input[i].step = step /\ name \in Names(input[i], Indices) /\ IsFile(input[i])
         /\ \A j \in FramesOf(input, name, step) : j <= i
<1> DEFINE S == FramesOf(input, name, step)
<1>1. Len(input) \in Nat /\ DOMAIN input = 1..Len(input) /\ \A i \in 1..Len(input) : IsFile(input[i])
  BY InputFacts
<1>2. S \subseteq 0..Len(input) /\ S # {} /\ \A i \in S : i \in DOMAIN input /\ input[i].step = step /\ name \in Names(input[i], Indices)
  BY <1>1 DEF FramesOf
<1> HIDE DEF S
<1>3. Max(S) \in S /\ \A j \in S : j <= Max(S)
  BY <1>1, <1>2, LargestOf
<1>4. QED
  BY <1>1, <1>2, <1>3 DEF S

\* Of all writes of a zone and step, the latest is that of the last frame's last zone of the name.
LEMMA LatestWrite ==
  ASSUME NEW input \in FileSets, NEW name, NEW step, FramesOf(input, name, step) # {}
  PROVE  /\ WritesOf(input, name, step) # {}
         /\ Latest(WritesOf(input, name, step)) \in WritesOf(input, name, step)
         /\ ZoneOf(input, Latest(WritesOf(input, name, step))).values = Lasting(input, name, step).values
<1> DEFINE i == Max(FramesOf(input, name, step))
           k == Max(Named(input[i], Indices, name))
           W == WritesOf(input, name, step)
           w == <<i, k>>
<1>1. /\ i \in 1..Len(input) /\ input[i].step = step /\ name \in Names(input[i], Indices) /\ IsFile(input[i])
      /\ \A j \in FramesOf(input, name, step) : j <= i
  BY LastFrame
<1>2. Lasting(input, name, step) = LastNamed(input[i], Indices, name)
  BY DEF Lasting
<1> HIDE DEF i
<1>3. /\ k \in Named(input[i], Indices, name) /\ k \in Requested(input[i], Indices)
      /\ \A l \in Named(input[i], Indices, name) : l <= k
  BY <1>1, NamedFacts
<1>4. LastNamed(input[i], Indices, name) = ZoneAt(input[i], Indices[k])
  BY DEF LastNamed
<1> HIDE DEF k
<1>5. ZoneAt(input[i], Indices[k]).name = name
  BY <1>3 DEF Named
<1>6. w \in Writes(input, Len(input))
  BY <1>1, <1>3, WriteIs
<1>7. ZoneOf(input, w) = Frame(input[i], Indices)[k] /\ StepOf(input, w) = step
  BY <1>1 DEF ZoneOf, StepOf
<1>8. ZoneOf(input, w).name = name /\ ZoneOf(input, w).values = LastNamed(input[i], Indices, name).values
  BY <1>3, <1>4, <1>5, <1>7, FrameFacts
<1>9. w \in W
  BY <1>6, <1>7, <1>8 DEF WritesOf
<1>10. ASSUME NEW v \in W
       PROVE  v[1] \in Nat /\ v[2] \in Nat /\ (v = w \/ Precedes(v, w))
  <2>1. v \in Writes(input, Len(input)) /\ ZoneOf(input, v).name = name /\ StepOf(input, v) = step
    BY DEF WritesOf
  <2>2. Len(input) \in 0..Len(input) /\ DOMAIN input = 1..Len(input)
    BY InputFacts
  <2>3. /\ v = <<v[1], v[2]>> /\ v[1] \in 1..Len(input) /\ v[1] \in Nat /\ v[2] \in Nat
        /\ v[2] \in Requested(input[v[1]], Indices)
    BY <2>1, <2>2, WritesFacts
  <2>4. ZoneOf(input, v) = Frame(input[v[1]], Indices)[v[2]] /\ input[v[1]].step = step
    BY <2>1 DEF ZoneOf, StepOf
  <2>5. name \in Names(input[v[1]], Indices) /\ v[2] \in Named(input[v[1]], Indices, name)
    BY <2>1, <2>3, <2>4, NamesFound
  <2>6. v[1] \in FramesOf(input, name, step)
    BY <2>2, <2>3, <2>4, <2>5 DEF FramesOf
  <2>7. v[1] <= i /\ (v[1] = i => v[2] <= k)
    BY <1>1, <1>3, <2>5, <2>6
  <2>8. i \in Nat /\ k \in Nat
    <3>1. k \in 1..Len(Indices) /\ Len(input) \in Nat
      BY <1>1, <1>3, RequestedFacts, InputFacts
    <3>2. QED
      BY <1>1, <3>1
  <2>9. (v[1] = i /\ v[2] = k) \/ v[1] < i \/ (v[1] = i /\ v[2] < k)
    BY <2>3, <2>7, <2>8
  <2>10. (v[1] = i /\ v[2] = k) => v = w
    BY <2>3
  <2>11. Precedes(v, w) <=> v[1] < i \/ (v[1] = i /\ v[2] < k)
    BY DEF Precedes
  <2>12. QED
    BY <2>3, <2>9, <2>10, <2>11
<1> HIDE DEF w, W
<1>11. Latest(W) = w
  BY <1>9, <1>10, LatestIs
<1>12. QED
  BY <1>2, <1>8, <1>9, <1>11 DEF W

\* What is put under a key is the latest.
LEMMA PutLatest ==
  ASSUME NEW table, NEW writes, NEW at, NEW value, DOMAIN at = writes,
         NEW key, NEW W, \A w : w \in W <=> w \in writes /\ at[w] = key, W # {}
  PROVE  key \in DOMAIN Put(table, at, value) /\ Put(table, at, value)[key] = value[Latest(W)]
<1>1. key \in Range(at)
  BY DEF Range
<1>2. key \in DOMAIN Put(table, at, value) /\ Put(table, at, value)[key] = value[Latest({w \in DOMAIN at : at[w] = key})]
  BY <1>1 DEF Put
<1>3. W = {w \in DOMAIN at : at[w] = key}
  OBVIOUS
<1>4. QED
  BY <1>2, <1>3

\* A key is written for one zone and step, whichever write it is.
KeyTells(input, b, key, name, step) ==
  \A w \in Writes(input, Len(input)) :
    WriteKey(b, ZoneOf(input, w), StepOf(input, w)) = key <=> ZoneOf(input, w).name = name /\ StepOf(input, w) = step

\* What a table then has for the key is what lasts.
LEMMA TableHolds ==
  ASSUME NEW input \in FileSets, NEW name, NEW step, FramesOf(input, name, step) # {},
         NEW table, NEW b \in Backends, NEW key, KeyTells(input, b, key, name, step)
  PROVE  /\ key \in DOMAIN PutScalars(b, table, input, Len(input))
         /\ PutScalars(b, table, input, Len(input))[key] = Lasting(input, name, step).values
<1> DEFINE all == Writes(input, Len(input))
           at == [w \in all |-> WriteKey(b, ZoneOf(input, w), StepOf(input, w))]
           value == [w \in all |-> ZoneOf(input, w).values]
           W == WritesOf(input, name, step)
<1>1. DOMAIN at = all /\ \A w : w \in W <=> w \in all /\ at[w] = key
  BY DEF WritesOf, KeyTells
<1>2. W # {} /\ Latest(W) \in W /\ ZoneOf(input, Latest(W)).values = Lasting(input, name, step).values
  BY LatestWrite
<1>3. Latest(W) \in all
  BY <1>2 DEF WritesOf
<1>4. value[Latest(W)] = Lasting(input, name, step).values
  BY <1>2, <1>3
<1>5. PutScalars(b, table, input, Len(input)) = Put(table, at, value)
  BY DEF PutScalars
<1> HIDE DEF at, value, all, W
<1>6. key \in DOMAIN Put(table, at, value) /\ Put(table, at, value)[key] = value[Latest(W)]
  BY <1>1, <1>2, PutLatest
<1>7. QED
  BY <1>4, <1>5, <1>6

\* The key that a zone and step are read by is the one they are written by, and no other's.
LEMMA KeysTell ==
  ASSUME NEW input \in FileSets, NEW b \in Backends, b = "postgresql" \/ LeavesTell(input),
         NEW name, NEW step, FramesOf(input, name, step) # {}
  PROVE  KeyTells(input, b, ReadKey(b, name, step), name, step)
<1> SUFFICES ASSUME NEW w \in Writes(input, Len(input))
             PROVE  WriteKey(b, ZoneOf(input, w), StepOf(input, w)) = ReadKey(b, name, step) <=>
                      ZoneOf(input, w).name = name /\ StepOf(input, w) = step
  BY DEF KeyTells
<1>1. CASE b = "postgresql"
  <2>1. /\ WriteKey(b, ZoneOf(input, w), StepOf(input, w)) = <<ZoneOf(input, w).name, StepOf(input, w)>>
        /\ ReadKey(b, name, step) = <<name, step>>
    BY <1>1 DEF WriteKey, ReadKey
  <2> DEFINE x == ZoneOf(input, w).name
             y == StepOf(input, w)
  <2> HIDE DEF x, y
  <2>2. <<x, y>> = <<name, step>> <=> x = name /\ y = step
    OBVIOUS
  <2>3. QED
    BY <2>1, <2>2 DEF x, y
<1>2. CASE b # "postgresql"
  <2>1. PICK v \in Writes(input, Len(input)) : ZoneOf(input, v).name = name
    <3>1. Latest(WritesOf(input, name, step)) \in WritesOf(input, name, step)
      BY LatestWrite
    <3>2. QED
      BY <3>1, Zenon DEF WritesOf
  <2> DEFINE z == ZoneOf(input, w)
  <2>2. LeafWritten(z.name, z.index) = LeafRead(z.name) /\ (LeafRead(name) = LeafRead(z.name) => name = z.name)
    BY <1>2, <2>1 DEF LeavesTell
  <2>3. WriteKey(b, z, StepOf(input, w)) = <<LeafRead(z.name), StepOf(input, w)>> /\ ReadKey(b, name, step) = <<LeafRead(name), step>>
    BY <1>2, <2>2 DEF WriteKey, ReadKey
  <2> HIDE DEF z
  <2>4. <<LeafRead(z.name), StepOf(input, w)>> = <<LeafRead(name), step>> <=> LeafRead(z.name) = LeafRead(name) /\ StepOf(input, w) = step
    OBVIOUS
  <2>5. LeafRead(z.name) = LeafRead(name) <=> z.name = name
    BY <2>2
  <2>6. QED
    BY <2>3, <2>4, <2>5 DEF z
<1>3. QED
  BY <1>1, <1>2

\* The differences that last.
LEMMA DiffHolds ==
  ASSUME NEW input \in FileSets, NEW name, NEW step, FramesOf(input, name, step) # {}, NEW table, NEW topology,
         NEW b \in Backends, b = "postgresql" \/ LeavesTell(input), b = "postgresql" \/ ~HullName(name)
  PROVE  /\ DiffKey(b, name, step) \in DOMAIN PutDiffs(b, table, input, Len(input), topology)
         /\ PutDiffs(b, table, input, Len(input), topology)[DiffKey(b, name, step)] =
              MaxDiff(topology[name], Lasting(input, name, step).values)
<1> DEFINE all == {w \in Writes(input, Len(input)) : HasDiff(b, ZoneOf(input, w))}
           at == [w \in all |-> DiffKey(b, ZoneOf(input, w).name, StepOf(input, w))]
           value == [w \in all |-> MaxDiff(topology[ZoneOf(input, w).name], ZoneOf(input, w).values)]
           key == DiffKey(b, name, step)
           W == WritesOf(input, name, step)
<1>1. W # {} /\ Latest(W) \in W /\ ZoneOf(input, Latest(W)).values = Lasting(input, name, step).values
  BY LatestWrite
<1>2. ASSUME NEW w \in Writes(input, Len(input))
      PROVE  HasDiff(b, ZoneOf(input, w)) /\ DiffKey(b, ZoneOf(input, w).name, StepOf(input, w)) = key <=>
               ZoneOf(input, w).name = name /\ StepOf(input, w) = step
  <2> DEFINE z == ZoneOf(input, w)
             s == StepOf(input, w)
  <2>1. CASE b = "postgresql"
    <3>1. HasDiff(b, z) /\ DiffKey(b, z.name, s) = <<z.name, s>> /\ key = <<name, step>>
      BY <2>1 DEF HasDiff, DiffKey
    <3> HIDE DEF z, s, key
    <3>2. <<z.name, s>> = <<name, step>> <=> z.name = name /\ s = step
      OBVIOUS
    <3>3. QED
      BY <3>1, <3>2 DEF z, s
  <2>2. CASE b # "postgresql"
    <3>1. PICK v \in Writes(input, Len(input)) : ZoneOf(input, v).name = name
      BY <1>1, Zenon DEF WritesOf
    <3>2. LeafWritten(z.name, z.index) = LeafRead(z.name) /\ (LeafRead(name) = LeafRead(z.name) => name = z.name)
      BY <2>2, <3>1 DEF LeavesTell
    <3>3. DiffKey(b, z.name, s) = <<"max_diff", s>> /\ key = <<"max_diff", step>>
      BY <2>2 DEF DiffKey
    <3>4. HasDiff(b, z) <=> LeafRead(z.name) = "cell_vars"
      BY <2>2, <3>2 DEF HasDiff
    <3> HIDE DEF z, s, key
    <3>5. LeafRead(name) = "cell_vars"
      BY <2>2 DEF LeafRead
    <3>6. <<"max_diff", s>> = <<"max_diff", step>> <=> s = step
      OBVIOUS
    <3>7. QED
      BY <3>2, <3>3, <3>4, <3>5, <3>6 DEF z, s
  <2>3. QED
    BY <2>1, <2>2
<1>3. DOMAIN at = all /\ \A w : w \in W <=> w \in all /\ at[w] = key
  <2> HIDE DEF key
  <2>1. QED
    BY <1>2 DEF WritesOf
<1>4. Latest(W) \in all /\ ZoneOf(input, Latest(W)).name = name
  BY <1>1, <1>3 DEF WritesOf
<1>5. value[Latest(W)] = MaxDiff(topology[name], Lasting(input, name, step).values)
  <2> HIDE DEF all, W
  <2>1. QED
    BY <1>1, <1>4
<1>6. PutDiffs(b, table, input, Len(input), topology) = Put(table, at, value)
  BY DEF PutDiffs
<1> HIDE DEF at, value, all, W, key
<1>7. key \in DOMAIN Put(table, at, value) /\ Put(table, at, value)[key] = value[Latest(W)]
  BY <1>1, <1>3, PutLatest
<1>8. QED
  BY <1>5, <1>6, <1>7 DEF key

\* Values are put under steps of the files.
LEMMA StepsPut ==
  ASSUME NEW input \in FileSets, NEW n \in 0..Len(input), NEW b, NEW table,
         \A key \in DOMAIN table : \E other \in FileSets : key[2] \in StepsOf(other)
  PROVE  \A key \in DOMAIN PutScalars(b, table, input, n) : \E other \in FileSets : key[2] \in StepsOf(other)
<1> DEFINE at == [w \in Writes(input, n) |-> WriteKey(b, ZoneOf(input, w), StepOf(input, w))]
<1>1. DOMAIN PutScalars(b, table, input, n) = DOMAIN table \cup Range(at)
  BY DEF PutScalars, Put
<1>2. ASSUME NEW key \in Range(at) PROVE key[2] \in StepsOf(input)
  <2>1. PICK w \in Writes(input, n) : key = WriteKey(b, ZoneOf(input, w), StepOf(input, w))
    BY DEF Range
  <2>2. key[2] = input[w[1]].step
    BY <2>1 DEF WriteKey, StepOf
  <2>3. w[1] \in DOMAIN input
    BY WritesFacts, InputFacts
  <2>4. QED
    BY <2>2, <2>3 DEF StepsOf
<1>3. QED
  BY <1>1, <1>2

\* A mesh that was stored is the one exported, but for boundary faces of an earlier one.
SameMesh(mesh, payload) ==
  /\ mesh.nodes = payload.nodes /\ mesh.adjacency = payload.adjacency /\ mesh.centre = payload.centre
  /\ mesh.points = payload.points /\ mesh.nodeCount = payload.nodeCount
  /\ DOMAIN payload.boundary # {} => mesh.boundary = payload.boundary

LEMMA SameSound ==
  ASSUME NEW mesh, NEW payload, SameMesh(mesh, payload), Sound(payload)
  PROVE  Sound(mesh) /\ CellsOf(mesh) = CellsOf(payload)
  BY DEF SameMesh, Sound, CellsOf

Extended(new, mesh, file) ==
  /\ DOMAIN new = DOMAIN mesh \cup Names(file, Indices)
  /\ \A z \in Names(file, Indices) : SameMesh(new[z], Payload(LastNamed(file, Indices, z)))
  /\ \A z \in DOMAIN mesh \ Names(file, Indices) : new[z] = mesh[z]

LEMMA MeshPut ==
  ASSUME NEW b, NEW mesh, NEW file, IsFile(file), TopologyLoads(file, Indices)
  PROVE  Extended(PutMesh(b, mesh, LoadTopology(file, Indices)), mesh, file)
<1> DEFINE topology == LoadTopology(file, Indices)
           new == PutMesh(b, mesh, topology)
<1>1. DOMAIN topology = Names(file, Indices)
  BY LoadedNames
<1>2. DOMAIN new = DOMAIN mesh \cup Names(file, Indices) /\ \A z \in DOMAIN mesh \ Names(file, Indices) : new[z] = mesh[z]
  BY <1>1 DEF PutMesh
<1>3. ASSUME NEW z \in Names(file, Indices) PROVE SameMesh(new[z], Payload(LastNamed(file, Indices, z)))
  <2> DEFINE p == Payload(LastNamed(file, Indices, z))
  <2>1. topology[z] = p
    BY LoadedFacts
  <2>2. \/ new[z] = p
        \/ DOMAIN p.boundary = {} /\ new[z] = [p EXCEPT !.boundary = mesh[z].boundary]
    BY <1>1, <2>1 DEF PutMesh
  <2>3. /\ \A x : SameMesh([p EXCEPT !.boundary = x], p) \/ DOMAIN p.boundary # {}
        /\ SameMesh(p, p)
    BY DEF SameMesh, Payload
  <2>4. QED
    BY <2>2, <2>3
<1>4. QED
  BY <1>2, <1>3 DEF Extended

-----------------------------------------------------------------------------
(* What is stored after an ingest.                                         *)

\* The last files loaded and fitted.
FilesGood ==
  files # NoFiles =>
    /\ files \in FileSets /\ TopologyLoads(files[1], Indices)
    /\ \A i \in 1..Len(files) : FrameFits(files[i], Indices, LoadTopology(files[1], Indices))

\* Every backend has their meshes, and their scalars under the keys that are read.
MeshesHold(b) ==
  files # NoFiles =>
    \A name \in Names(files[1], Indices) :
      name \in DOMAIN store[b].mesh /\ SameMesh(store[b].mesh[name], Payload(GivenZone(name)))

ScalarsHold(b) ==
  files # NoFiles /\ (b = "postgresql" \/ LeavesTell(files)) =>
    \A name, step : FramesOf(files, name, step) # {} =>
      /\ ReadKey(b, name, step) \in DOMAIN store[b].scalar
      /\ store[b].scalar[ReadKey(b, name, step)] = Lasting(files, name, step).values

\* The greatest differences of a zone are those of its lasting values.
DiffsHold(b) ==
  files # NoFiles /\ (b = "postgresql" \/ LeavesTell(files)) =>
    \A name, step : FramesOf(files, name, step) # {} /\ (b = "postgresql" \/ ~HullName(name)) =>
      /\ DiffKey(b, name, step) \in DOMAIN store[b].diff
      /\ store[b].diff[DiffKey(b, name, step)] =
           MaxDiff(LoadTopology(files[1], Indices)[name], Lasting(files, name, step).values)

MetaHolds(b) ==
  files # NoFiles /\ b # "postgresql" => store[b].meta = Meta(files, LoadTopology(files[1], Indices))

\* No other steps than those of inputs.
StepsHold(b) == \A key \in DOMAIN store[b].scalar : \E input \in FileSets : key[2] \in StepsOf(input)

StoresTyped ==
  \A b \in Backends : /\ DOMAIN store[b] = DOMAIN EmptyStore
                      /\ \A z \in DOMAIN store[b].mesh : Sound(store[b].mesh[z])

StoreInv ==
  /\ FilesGood /\ StoresTyped
  /\ \A b \in Backends : MeshesHold(b) /\ ScalarsHold(b) /\ DiffsHold(b) /\ MetaHolds(b) /\ StepsHold(b)

LEMMA FirstFile ==
  ASSUME NEW input \in FileSets
  PROVE  1 \in 1..Len(input) /\ IsFile(input[1])
  BY InputFacts

LEMMA StoreStays ==
  ASSUME StoreInv, UNCHANGED <<files, store>>
  PROVE  StoreInv'
  BY DEF StoreInv, FilesGood, StoresTyped, MeshesHold, ScalarsHold, DiffsHold, MetaHolds, StepsHold, GivenZone

LEMMA IngestKeepsStore ==
  ASSUME NEW input \in FileSets, IngestFiles(input), StoreInv
  PROVE  StoreInv'
<1> DEFINE topology == LoadTopology(input[1], Indices)
<1>1. IsFile(input[1]) /\ input # NoFiles /\ Len(input) \in Nat
  BY FirstFile, InputFacts
<1>2. CASE ~TopologyLoads(input[1], Indices)
  <2>1. UNCHANGED <<store, files>>
    BY <1>2 DEF IngestFiles
  <2>2. QED
    BY <2>1, StoreStays
<1>3. CASE TopologyLoads(input[1], Indices)
  <2>1. /\ store' = [b \in Backends |-> Loaded(b, input, topology)]
        /\ files' = IF Fitting(input, topology) = Len(input) THEN input ELSE NoFiles
    BY <1>3 DEF IngestFiles
  <2>2. \A b \in Backends : /\ store'[b].mesh = PutMesh(b, store[b].mesh, topology)
                            /\ store'[b].scalar = PutScalars(b, store[b].scalar, input, Fitting(input, topology))
                            /\ store'[b].diff = PutDiffs(b, store[b].diff, input, Fitting(input, topology), topology)
                            /\ Fitting(input, topology) = Len(input) /\ b # "postgresql" => store'[b].meta = Meta(input, topology)
                            /\ DOMAIN store'[b] = DOMAIN EmptyStore
    BY <2>1 DEF Loaded, EmptyStore
  <2>3. files' # NoFiles => files' = input /\ Fitting(input, topology) = Len(input)
    BY <2>1
  <2> HIDE DEF topology
  <2>4. FilesGood'
    BY <1>3, <2>3, FittingFacts DEF FilesGood, topology
  <2>5. ASSUME NEW b \in Backends
        PROVE  Extended(store'[b].mesh, store[b].mesh, input[1])
    <3>1. store'[b].mesh = PutMesh(b, store[b].mesh, LoadTopology(input[1], Indices))
      BY <2>2 DEF topology
    <3>2. QED
      BY <1>1, <1>3, <3>1, MeshPut
  <2>6. StoresTyped'
    <3> SUFFICES ASSUME NEW b \in Backends, NEW z \in DOMAIN store'[b].mesh PROVE Sound(store'[b].mesh[z])
      BY <2>2 DEF StoresTyped
    <3>1. CASE z \in Names(input[1], Indices)
      <4>1. Sound(Payload(LastNamed(input[1], Indices, z)))
        BY <1>1, <1>3, <3>1, LoadedFacts, PayloadSound
      <4>2. QED
        BY <2>5, <3>1, <4>1, SameSound DEF Extended
    <3>2. CASE z \notin Names(input[1], Indices)
      BY <2>5, <3>2 DEF StoreInv, StoresTyped, Extended
    <3>3. QED
      BY <3>1, <3>2
  <2>7. \A b \in Backends : MeshesHold(b)'
    BY <2>3, <2>5 DEF MeshesHold, GivenZone, Extended
  <2>8. ASSUME NEW b \in Backends PROVE ScalarsHold(b)'
    <3> SUFFICES ASSUME files' # NoFiles, b = "postgresql" \/ LeavesTell(input),
                        NEW name, NEW step, FramesOf(input, name, step) # {}
                 PROVE  /\ ReadKey(b, name, step) \in DOMAIN store'[b].scalar
                        /\ store'[b].scalar[ReadKey(b, name, step)] = Lasting(input, name, step).values
      BY <2>3 DEF ScalarsHold
    <3>1. store'[b].scalar = PutScalars(b, store[b].scalar, input, Len(input))
      BY <2>2, <2>3
    <3>2. QED
      BY <3>1, KeysTell, TableHolds
  <2>9. ASSUME NEW b \in Backends PROVE DiffsHold(b)'
    <3> SUFFICES ASSUME files' # NoFiles, b = "postgresql" \/ LeavesTell(input),
                        NEW name, NEW step, FramesOf(input, name, step) # {}, b = "postgresql" \/ ~HullName(name)
                 PROVE  /\ DiffKey(b, name, step) \in DOMAIN store'[b].diff
                        /\ store'[b].diff[DiffKey(b, name, step)] = MaxDiff(topology[name], Lasting(input, name, step).values)
      BY <2>3 DEF DiffsHold, topology
    <3>1. store'[b].diff = PutDiffs(b, store[b].diff, input, Len(input), topology)
      BY <2>2, <2>3
    <3>2. QED
      BY <3>1, DiffHolds
  <2>10. \A b \in Backends : MetaHolds(b)'
    BY <2>2, <2>3 DEF MetaHolds, topology
  <2>11. ASSUME NEW b \in Backends PROVE StepsHold(b)'
    <3>1. store'[b].scalar = PutScalars(b, store[b].scalar, input, Fitting(input, topology))
      BY <2>2
    <3>2. Fitting(input, topology) \in 0..Len(input)
      BY FittingFacts
    <3>3. \A key \in DOMAIN store[b].scalar : \E other \in FileSets : key[2] \in StepsOf(other)
      BY DEF StoreInv, StepsHold
    <3>4. QED
      BY <3>1, <3>2, <3>3, StepsPut DEF StepsHold
  <2>12. QED
    BY <2>4, <2>6, <2>7, <2>8, <2>9, <2>10, <2>11 DEF StoreInv
<1>4. QED
  BY <1>2, <1>3


-----------------------------------------------------------------------------
(* The directory of the VTK backend.                                       *)

\* It is made by the ingest of the last files, or announces nothing.
DiskGood ==
  /\ disk.manifest # NoManifest => files # NoFiles
  /\ files # NoFiles => disk = Directory(files, LoadTopology(files[1], Indices))

LEMMA IngestKeepsDisk ==
  ASSUME NEW input \in FileSets, IngestAll(input), DiskGood
  PROVE  DiskGood'
<1> DEFINE topology == LoadTopology(input[1], Indices)
<1>1. CASE ~TopologyLoads(input[1], Indices)
  <2>1. UNCHANGED <<disk, files>>
    BY <1>1 DEF IngestAll, IngestFiles
  <2>2. QED
    BY <2>1 DEF DiskGood
<1>2. CASE TopologyLoads(input[1], Indices)
  <2>1. /\ disk' = Directory(input, topology)
        /\ files' = IF Fitting(input, topology) = Len(input) THEN input ELSE NoFiles
    BY <1>2 DEF IngestAll, IngestFiles
  <2>2. input # NoFiles
    BY InputFacts
  <2>3. disk'.manifest # NoManifest => Fitting(input, topology) = Len(input)
    BY <2>1 DEF Directory
  <2>4. files' # NoFiles => files' = input
    BY <2>1
  <2>5. QED
    BY <2>1, <2>2, <2>3, <2>4 DEF DiskGood
<1>3. QED
  BY <1>1, <1>2

LEMMA FrameWritten ==
  ASSUME NEW input \in FileSets, NEW name, NEW step, FramesOf(input, name, step) # {}, NEW topology
  PROVE  /\ <<name, step>> \in DOMAIN WriteFrames(topology, input, Len(input))
         /\ WriteFrames(topology, input, Len(input))[<<name, step>>] = Grid(topology[name], Lasting(input, name, step).values)
<1> DEFINE all == Writes(input, Len(input))
           at == [w \in all |-> <<ZoneOf(input, w).name, StepOf(input, w)>>]
           value == [w \in all |-> Grid(topology[ZoneOf(input, w).name], ZoneOf(input, w).values)]
           key == <<name, step>>
           W == WritesOf(input, name, step)
<1>1. DOMAIN at = all /\ \A w : w \in W <=> w \in all /\ at[w] = key
  BY DEF WritesOf
<1>2. W # {} /\ Latest(W) \in W /\ ZoneOf(input, Latest(W)).values = Lasting(input, name, step).values
  BY LatestWrite
<1>3. Latest(W) \in all /\ ZoneOf(input, Latest(W)).name = name
  BY <1>2 DEF WritesOf
<1>4. value[Latest(W)] = Grid(topology[name], Lasting(input, name, step).values)
  BY <1>2, <1>3
<1>5. WriteFrames(topology, input, Len(input)) = Put(<<>>, at, value)
  BY DEF WriteFrames
<1> HIDE DEF at, value, all, W, key
<1>6. key \in DOMAIN Put(<<>>, at, value) /\ Put(<<>>, at, value)[key] = value[Latest(W)]
  BY <1>1, <1>2, PutLatest
<1>7. QED
  BY <1>4, <1>5, <1>6 DEF key

\* What the manifest has of a zone are the steps of the frames that have it.
LEMMA ManifestFacts ==
  ASSUME NEW input \in FileSets, IsFile(input[1]), NEW name \in Names(input[1], Indices), NEW step
  PROVE  LET topology == LoadTopology(input[1], Indices) IN
         /\ DOMAIN Manifest(input, topology).zones = Names(input[1], Indices)
         /\ step \in DOMAIN Manifest(input, topology).zones[name].diffs <=> FramesOf(input, name, step) # {}
<1> DEFINE topology == LoadTopology(input[1], Indices)
<1>1. DOMAIN topology = Names(input[1], Indices)
  BY LoadedNames
<1> HIDE DEF topology
<1>2. DOMAIN Manifest(input, topology).zones = Names(input[1], Indices)
      /\ Manifest(input, topology).zones[name].diffs = Diffs(input, topology, name)
  BY <1>1 DEF Manifest
<1>3. DOMAIN Diffs(input, topology, name) = {input[i].step : i \in {j \in DOMAIN input : name \in Names(input[j], Indices)}}
  BY DEF Diffs
<1>4. step \in DOMAIN Diffs(input, topology, name) <=> FramesOf(input, name, step) # {}
  BY <1>3 DEF FramesOf
<1>5. QED
  BY <1>2, <1>4 DEF topology

\* A frame that is announced is the mesh of the first file and the values of the last of its step.
LEMMA DirectoryFrame ==
  ASSUME FilesGood, DiskGood, files # NoFiles, NEW name, NEW step, FramesOf(files, name, step) # {}
  PROVE  /\ name \in Names(files[1], Indices) /\ IsZone(GivenZone(name)) /\ Decodes(GivenZone(name))
         /\ HasFrame(name, step) /\ <<name, step>> \in DOMAIN disk.frames
         /\ disk.frames[<<name, step>>] = Grid(Payload(GivenZone(name)), Lasting(files, name, step).values)
         /\ DOMAIN disk.manifest.zones = Names(files[1], Indices)
<1> DEFINE topology == LoadTopology(files[1], Indices)
<1>1. /\ files \in FileSets /\ TopologyLoads(files[1], Indices) /\ IsFile(files[1])
      /\ \A i \in 1..Len(files) : FrameFits(files[i], Indices, topology)
  BY FirstFile DEF FilesGood
<1>2. PICK i \in 1..Len(files) : name \in Names(files[i], Indices) /\ IsFile(files[i])
  BY <1>1, InputFacts DEF FramesOf
<1>3. name \in Names(files[1], Indices)
  BY <1>1, <1>2, FittingValues, LoadedNames
<1>4. topology[name] = Payload(GivenZone(name)) /\ IsZone(GivenZone(name)) /\ Decodes(GivenZone(name))
  BY <1>1, <1>3, LoadedFacts DEF GivenZone
<1>5. Fitting(files, topology) = Len(files)
  <2>1. Fitting(files, topology) \in 0..Len(files) /\ Len(files) \in Nat
        /\ (Fitting(files, topology) = Len(files) \/ ~FrameFits(files[Fitting(files, topology) + 1], Indices, topology))
    BY <1>1, FittingFacts, InputFacts
  <2> HIDE DEF topology
  <2>2. Fitting(files, topology) # Len(files) => Fitting(files, topology) + 1 \in 1..Len(files)
    BY <2>1
  <2>3. QED
    BY <1>1, <2>1, <2>2
<1>6. disk.manifest = Manifest(files, topology) /\ disk.frames = WriteFrames(topology, files, Len(files))
  BY <1>5 DEF DiskGood, Directory
<1>7. DOMAIN disk.manifest.zones = Names(files[1], Indices) /\ HasFrame(name, step)
  BY <1>1, <1>3, <1>6, ManifestFacts DEF HasFrame
<1> HIDE DEF topology
<1>8. <<name, step>> \in DOMAIN disk.frames /\ disk.frames[<<name, step>>] = Grid(topology[name], Lasting(files, name, step).values)
  BY <1>1, <1>6, FrameWritten
<1>9. QED
  BY <1>3, <1>4, <1>7, <1>8

LEMMA DirectoryHolds == FilesGood /\ DiskGood => DirectoryIsTheFiles
<1> SUFFICES ASSUME FilesGood, DiskGood, disk.manifest # NoManifest PROVE DirectoryIsTheFiles
  BY DEF DirectoryIsTheFiles
<1>1. files # NoFiles /\ files \in FileSets /\ IsFile(files[1]) /\ TopologyLoads(files[1], Indices)
  BY FirstFile DEF DiskGood, FilesGood
<1>2. ASSUME NEW i \in DOMAIN files, NEW name \in Names(files[i], Indices)
      PROVE  LET zone == GivenZone(name)
                 key == <<name, files[i].step>>
             IN /\ HasFrame(name, files[i].step) /\ key \in DOMAIN disk.frames
                /\ disk.frames[key].values = Given(name, files[i].step)
                /\ disk.frames[key].nodes = [c \in CellIds(zone) |-> {p - 1 : p \in PointsAt(zone, c)}]
  <2> DEFINE zone == GivenZone(name)
             step == files[i].step
  <2>1. FramesOf(files, name, step) # {}
    BY DEF FramesOf
  <2>2. /\ Decodes(zone) /\ HasFrame(name, step) /\ <<name, step>> \in DOMAIN disk.frames
        /\ disk.frames[<<name, step>>] = Grid(Payload(zone), Lasting(files, name, step).values)
    BY <1>1, <2>1, DirectoryFrame
  <2>3. Given(name, step) = Lasting(files, name, step).values
    BY DEF Given, Lasting, FilesOf, FramesOf
  <2> HIDE DEF zone, step
  <2>4. [c \in CellIds(zone) |-> CellNodes(zone, c)] = [c \in CellIds(zone) |-> {p - 1 : p \in PointsAt(zone, c)}]
    BY <2>2, NodesAround
  <2>5. disk.frames[<<name, step>>].nodes = [c \in CellIds(zone) |-> {p - 1 : p \in PointsAt(zone, c)}]
    <3>1. disk.frames[<<name, step>>].nodes = Payload(zone).nodes
      BY <2>2 DEF Grid
    <3>2. Payload(zone).nodes = [c \in CellIds(zone) |-> CellNodes(zone, c)]
      BY PayloadFacts, Zenon
    <3>3. QED
      BY <2>4, <3>1, <3>2, Zenon
  <2>6. disk.frames[<<name, step>>].values = Given(name, step)
    BY <2>2, <2>3 DEF Grid
  <2>7. QED
    BY <2>2, <2>5, <2>6 DEF zone, step
<1>3. DOMAIN disk.manifest.zones = Names(files[1], Indices)
  <2>1. PICK name : name \in Names(files[1], Indices)
    BY <1>1, LoadedSome
  <2>2. 1 \in DOMAIN files
    BY <1>1, FirstFile, InputFacts
  <2>3. FramesOf(files, name, files[1].step) # {}
    BY <2>1, <2>2 DEF FramesOf
  <2>4. QED
    BY <1>1, <2>3, DirectoryFrame
<1>4. QED
  BY <1>1, <1>2, <1>3 DEF DirectoryIsTheFiles


-----------------------------------------------------------------------------
(* The VTK client.                                                         *)

\* An open client has the manifest that is there, and a zone and a step that it announces.
VtkGood ==
  vtk # NoClient =>
    /\ disk.manifest # NoManifest /\ vtk.manifest = disk.manifest
    /\ vtk.zone \in DOMAIN disk.manifest.zones /\ HasFrame(vtk.zone, vtk.step)
    /\ vtk = [zone |-> vtk.zone, step |-> vtk.step, manifest |-> vtk.manifest, csr |-> vtk.csr]

\* What the frames of the zone of the client are made of.
LEMMA GridFacts ==
  ASSUME FilesGood, DiskGood, VtkGood, vtk # NoClient, NEW step, HasFrame(vtk.zone, step)
  PROVE  LET zone == GivenZone(vtk.zone) IN
         /\ files # NoFiles /\ files \in FileSets /\ vtk.zone \in Names(files[1], Indices)
         /\ vtk.manifest = Manifest(files, LoadTopology(files[1], Indices))
         /\ IsZone(zone) /\ Decodes(zone) /\ FramesOf(files, vtk.zone, step) # {}
         /\ GridAt(step) = Grid(Payload(zone), Lasting(files, vtk.zone, step).values)
<1> DEFINE zone == GivenZone(vtk.zone)
           name == vtk.zone
<1>1. disk.manifest # NoManifest /\ name \in DOMAIN disk.manifest.zones /\ files # NoFiles
  BY DEF VtkGood, DiskGood
<1>2. files \in FileSets /\ IsFile(files[1]) /\ DOMAIN disk.manifest.zones = Names(files[1], Indices)
  BY <1>1, DirectoryHolds, FirstFile DEF DirectoryIsTheFiles, FilesGood
<1>3. disk.manifest = Manifest(files, LoadTopology(files[1], Indices)) /\ vtk.manifest = disk.manifest
  BY <1>1 DEF DiskGood, Directory, VtkGood
<1>4. FramesOf(files, name, step) # {}
  BY <1>1, <1>2, <1>3, ManifestFacts DEF HasFrame
<1>5. /\ IsZone(zone) /\ Decodes(zone)
      /\ disk.frames[<<name, step>>] = Grid(Payload(zone), Lasting(files, name, step).values)
  BY <1>1, <1>4, DirectoryFrame
<1>6. QED
  BY <1>1, <1>2, <1>3, <1>4, <1>5 DEF GridAt

LEMMA HereFacts ==
  ASSUME FilesGood, DiskGood, VtkGood, vtk # NoClient
  PROVE  LET zone == GivenZone(vtk.zone) IN
         /\ Here.points = zone.nodes /\ GridCells = CellIds(zone)
         /\ \A c \in CellIds(zone) : Here.nodes[c] = {p - 1 : p \in PointsAt(zone, c)}
         /\ \A c \in CellIds(zone) : Coordinates(c) = Reach(zone, c)
<1> DEFINE zone == GivenZone(vtk.zone)
           values == Lasting(files, vtk.zone, vtk.step).values
<1>1. IsZone(zone) /\ Decodes(zone)
  BY GridFacts DEF VtkGood
<1>2. Here = Grid(Payload(zone), values)
  BY GridFacts DEF VtkGood, Here
<1> HIDE DEF zone, values
<1>3. Here.points = zone.nodes /\ Here.nodes = Payload(zone).nodes
  BY <1>2, PayloadFacts DEF Grid
<1>4. Payload(zone).nodes = [c \in CellIds(zone) |-> CellNodes(zone, c)]
  BY PayloadFacts, Zenon
<1>5. GridCells = CellIds(zone) /\ \A c \in CellIds(zone) : Here.nodes[c] = {p - 1 : p \in PointsAt(zone, c)}
  BY <1>1, <1>3, <1>4, NodesAround DEF GridCells
<1>6. ASSUME NEW c \in CellIds(zone) PROVE Coordinates(c) = Reach(zone, c)
  <2>1. \A p \in PointsAt(zone, c) : p \in Int
    <3> SUFFICES ASSUME NEW i \in FacesAt(zone, c), NEW p \in Range(zone.faces[i].nodes) PROVE p \in Int
      BY DEF PointsAt
    <3>1. i \in DOMAIN zone.faces /\ ToSet(zone.faces[i].nodes) = Range(zone.faces[i].nodes)
      BY DEF FacesAt, ToSet, Range
    <3>2. p \in DOMAIN zone.nodes
      BY <1>1, <3>1 DEF Decodes
    <3>3. QED
      BY <1>1, <3>2 DEF IsZone
  <2>2. Coordinates(c) = {zone.nodes[n + 1] : n \in {p - 1 : p \in PointsAt(zone, c)}}
    BY <1>3, <1>5 DEF Coordinates
  <2> DEFINE P == PointsAt(zone, c)
  <2> HIDE DEF P
  <2>3. \A p \in P : (p - 1) + 1 = p
    BY <2>1 DEF P
  <2>4. {zone.nodes[n + 1] : n \in {p - 1 : p \in P}} = {zone.nodes[p] : p \in P}
    BY <2>3
  <2>5. QED
    BY <2>2, <2>4 DEF P, Reach
<1>7. QED
  BY <1>3, <1>5, <1>6 DEF zone

\* Cells within coordinates and around them.
LEMMA WithinHolds ==
  ASSUME FilesGood, DiskGood, VtkGood, vtk # NoClient, NEW lo, NEW hi, TellWithin(lo, hi)
  PROVE  BoxesAreTheFiles'
<1> DEFINE zone == GivenZone(vtk.zone)
           low == Min({lo, hi})
           high == Max({lo, hi})
<1>1. /\ answer'.op = "within" /\ answer'.arg = <<lo, hi>> /\ answer'.zone = vtk.zone
      /\ answer'.value = Within(lo, hi) /\ files' = files
  BY DEF TellWithin, Tells, Says
<1>2. GivenZone(answer.zone)' = zone
  BY <1>1 DEF GivenZone
<1>3. Within(lo, hi) = Inside(zone, low, high)
  BY HereFacts DEF Within, Inside
<1>4. Asked'[1] = lo /\ Asked'[2] = hi
  BY <1>1 DEF Asked
<1> HIDE DEF zone
<1>5. QED
  BY <1>1, <1>2, <1>3, <1>4 DEF BoxesAreTheFiles, Claimed

LEMMA BoxedHolds ==
  ASSUME FilesGood, DiskGood, VtkGood, vtk # NoClient, NEW lo, NEW hi, TellElements(lo, hi)
  PROVE  BoxesAreTheFiles'
<1> DEFINE zone == GivenZone(vtk.zone)
           low == Min({lo, hi})
           high == Max({lo, hi})
           found == {d \in GridCells : 2 * low <= Middle(d) /\ Middle(d) <= 2 * high}
<1>1. /\ answer'.op = "boxed" /\ answer'.arg = <<lo, hi>> /\ answer'.zone = vtk.zone /\ files' = files
      /\ answer'.value = {c + 1 : c \in found}
  BY DEF TellElements, Tells, Says
<1>2. GivenZone(answer.zone)' = zone
  BY <1>1 DEF GivenZone
<1>3. GridCells = CellIds(zone) /\ \A c \in CellIds(zone) : Middle(c) = Min(Reach(zone, c)) + Max(Reach(zone, c))
  BY HereFacts DEF Middle
<1>4. Asked'[1] = lo /\ Asked'[2] = hi
  BY <1>1 DEF Asked
<1> HIDE DEF zone
<1>5. found = Around(zone, low, high)
  BY <1>3 DEF Around
<1> HIDE DEF found
<1>6. QED
  BY <1>1, <1>2, <1>4, <1>5 DEF BoxesAreTheFiles, Claimed


-----------------------------------------------------------------------------
(* Steps that do not ingest.                                               *)

BoxOps == {"within", "boxed"}

LEMMA RepliesFacts ==
  ASSUME NEW op, NEW arg, NEW value, Replies(op, arg, value) \/ Doubts(op, arg, value)
  PROVE  UNCHANGED <<files, ingests, store>> /\ answer'.op = op
  BY DEF Replies, Doubts

\* The clients of the databases change nothing stored, and do not answer for the VTK client.
LEMMA ReadingKeeps ==
  ASSUME Reading
  PROVE  UNCHANGED <<files, ingests, store>> /\ answer'.op \notin BoxOps
<1>1. ASSUME NEW ids, ReadPoints(ids) \/ ReadAggregate(ToSet(ids)) \/ ReadSubmesh(ToSet(ids)) \/ ReadGradients(ToSet(ids))
      PROVE  UNCHANGED <<files, ingests, store>> /\ answer'.op \in {"points", "aggregate", "submesh", "gradients"}
  BY <1>1, RepliesFacts DEF ReadPoints, ReadAggregate, ReadSubmesh, ReadGradients, Reads
<1>2. ASSUME NEW lo, NEW hi, ReadRange(lo, hi) \/ ReadElements(lo, hi)
      PROVE  UNCHANGED <<files, ingests, store>> /\ answer'.op \in {"range", "elements"}
  BY <1>2, RepliesFacts DEF ReadRange, ReadElements, Reads
<1>3. ASSUME ReadValueRange \/ ReadSurface \/ ReadForce
      PROVE  UNCHANGED <<files, ingests, store>> /\ answer'.op \in {"value_range", "surface", "force"}
  BY <1>3, RepliesFacts DEF ReadValueRange, ReadSurface, ReadForce, Reads
<1>4. ASSUME PrepareForce
      PROVE  UNCHANGED <<files, ingests, store>> /\ answer'.op = "none"
  BY <1>4 DEF PrepareForce, NoAnswer
<1>5. ASSUME NEW point, ReadExtrema(point)
      PROVE  UNCHANGED <<files, ingests, store>> /\ answer'.op = "extrema"
  BY <1>5, RepliesFacts DEF ReadExtrema
<1>6. ASSUME ReadMaxDiffs \/ ReadStatistics \/ ReadZones \/ StatementFails("any")
      PROVE  UNCHANGED <<files, ingests, store>> /\ answer'.op \in {"max_diffs", "statistics", "zones", "any"}
  BY <1>6, RepliesFacts DEF ReadMaxDiffs, ReadStatistics, ReadZones, StatementFails, Reads
<1>7. QED
  BY <1>1, <1>2, <1>3, <1>4, <1>5, <1>6 DEF Reading, BoxOps

LEMMA UsingKeeps ==
  ASSUME Using
  PROVE  UNCHANGED <<files, ingests, store>> /\ answer'.op \notin BoxOps
<1>1. CASE Reading
  BY <1>1, ReadingKeeps
<1>2. CASE ~Reading
  BY <1>2 DEF Using, Open, Connect, Close, NoAnswer, BoxOps
<1>3. QED
  BY <1>1, <1>2

-----------------------------------------------------------------------------
(* The client of a database.                                               *)

ClientShape ==
  client = [backend |-> client.backend, zone |-> client.zone, step |-> client.step,
            surface |-> client.surface, csr |-> client.csr, ranges |-> client.ranges,
            normals |-> client.normals, aborted |-> client.aborted, doubtful |-> client.doubtful]

ClientOK ==
  client # NoClient =>
    /\ ClientShape
    /\ client.backend \in Backends /\ client.zone \in DOMAIN store[client.backend].mesh
    /\ client.normals # {} \/ client.aborted => client.backend = "postgresql"
    /\ client.doubtful => client.backend = "iotdb" /\ client.surface # {}

LEMMA ClientSet ==
  ASSUME NEW b \in Backends, NEW zone \in DOMAIN store[b].mesh, NEW step, NEW surface, NEW csr, NEW ranges,
         NEW normals, NEW aborted, NEW doubtful, store' = store,
         client' = [backend |-> b, zone |-> zone, step |-> step, surface |-> surface, csr |-> csr, ranges |-> ranges,
                    normals |-> normals, aborted |-> aborted, doubtful |-> doubtful],
         normals # {} \/ aborted => b = "postgresql",
         doubtful => b = "iotdb" /\ surface # {}
  PROVE  ClientOK'
  BY DEF ClientOK, ClientShape

LEMMA ReadingKeepsClient ==
  ASSUME Reading, ClientOK
  PROVE  ClientOK'
<1> DEFINE S(surface, csr, ranges, normals, aborted, doubtful) ==
             [backend |-> client.backend, zone |-> client.zone, step |-> client.step,
              surface |-> surface, csr |-> csr, ranges |-> ranges,
              normals |-> normals, aborted |-> aborted, doubtful |-> doubtful]
<1>1. store' = store
  BY ReadingKeeps
<1>2. CASE client' = client
  BY <1>1, <1>2 DEF ClientOK, ClientShape
<1>3. CASE client' # client
  <2>1. client # NoClient
    BY <1>3 DEF Reading, ReadPoints, ReadAggregate, ReadSubmesh, ReadGradients, ReadRange, ReadElements, ReadValueRange,
       ReadSurface, PrepareForce, ReadForce, ReadExtrema, ReadMaxDiffs, ReadStatistics, ReadZones, StatementFails, Reads, Ready, Readable
  <2>2. /\ client = S(client.surface, client.csr, client.ranges, client.normals, client.aborted, client.doubtful)
        /\ client.backend \in Backends /\ client.zone \in DOMAIN store[client.backend].mesh
        /\ client.normals # {} \/ client.aborted => client.backend = "postgresql"
        /\ client.doubtful => client.backend = "iotdb" /\ client.surface # {}
    BY <2>1 DEF ClientOK, ClientShape
  <2>3. CASE StatementFails("any")
    <3>1. PICK aborted : aborted = Aborts
      OBVIOUS
    <3>2. client' = S(client.surface, client.csr, client.ranges, client.normals, aborted, client.doubtful)
      BY <2>2, <2>3, <3>1 DEF StatementFails
    <3>3. aborted => client.backend = "postgresql"
      BY <3>1 DEF Aborts, IsPg
    <3>4. QED
      BY <1>1, <2>2, <3>2, <3>3, ClientSet
  <2>4. CASE ReadValueRange
    <3>1. PICK ranges : client' = [client EXCEPT !.ranges = ranges]
      BY <1>3, <2>4 DEF ReadValueRange, Reads
    <3>2. client' = S(client.surface, client.csr, ranges, client.normals, client.aborted, client.doubtful)
      BY <2>2, <3>1
    <3>3. QED
      BY <1>1, <2>2, <3>2, ClientSet
  <2>5. CASE ReadSurface
    <3> DEFINE Kept1(x) == x # {} /\ client' = [client EXCEPT !.surface = x]
               Kept2(x) == x # {} /\ client' = [client EXCEPT !.surface = x, !.doubtful = TRUE]
    <3>0. {Surface} # {} /\ {CellNormals} # {}
      OBVIOUS
    <3>1. Kept1({Surface}) \/ (client.backend = "iotdb" /\ Kept2({CellNormals}))
      BY <1>3, <2>5, <3>0 DEF ReadSurface
    <3>2. CASE Kept1({Surface})
      <4>1. PICK surface : Kept1(surface)
        BY <3>2
      <4>2. surface # {} /\ client' = S(surface, client.csr, client.ranges, client.normals, client.aborted, client.doubtful)
        BY <2>2, <4>1
      <4>3. QED
        BY <1>1, <2>2, <4>2, ClientSet
    <3>3. CASE client.backend = "iotdb" /\ Kept2({CellNormals})
      <4>1. PICK surface : Kept2(surface)
        BY <3>3
      <4>2. PICK doubtful : doubtful = TRUE
        OBVIOUS
      <4>3. surface # {} /\ client' = S(surface, client.csr, client.ranges, client.normals, client.aborted, doubtful)
        BY <2>2, <4>1, <4>2
      <4>4. client.backend = "iotdb" /\ (client.normals # {} \/ client.aborted => client.backend = "postgresql")
        BY <2>2, <3>3
      <4>5. client.backend \in Backends /\ client.zone \in DOMAIN store[client.backend].mesh
        BY <2>2
      <4>6. QED
        BY <1>1, <4>3, <4>4, <4>5, ClientSet
    <3>4. QED
      BY <3>1, <3>2, <3>3
  <2>6. CASE PrepareForce
    <3>1. client.backend = "postgresql"
      BY <2>6 DEF PrepareForce, IsPg
    <3>2. \/ client' = S(client.surface, client.csr, client.ranges, client.surface, client.aborted, client.doubtful)
          \/ client' = S(client.surface, client.csr, client.ranges, {}, FALSE, client.doubtful)
      BY <2>2, <2>6 DEF PrepareForce
    <3>3. QED
      BY <1>1, <2>2, <3>1, <3>2, ClientSet
  <2>7. CASE \E point \in Points : ReadExtrema(point)
    <3>1. PICK csr : client' = [client EXCEPT !.csr = csr]
      BY <2>7 DEF ReadExtrema
    <3>2. client' = S(client.surface, csr, client.ranges, client.normals, client.aborted, client.doubtful)
      BY <2>2, <3>1
    <3>3. QED
      BY <1>1, <2>2, <3>2, ClientSet
  <2>8. QED
    BY <1>3, <2>3, <2>4, <2>5, <2>6, <2>7
    DEF Reading, ReadPoints, ReadAggregate, ReadSubmesh, ReadGradients, ReadRange, ReadElements,
        ReadForce, ReadMaxDiffs, ReadStatistics, ReadZones, Reads
<1>4. QED
  BY <1>2, <1>3

LEMMA UsingKeepsClient ==
  ASSUME Using, ClientOK
  PROVE  ClientOK'
<1>1. CASE Reading
  BY <1>1, ReadingKeepsClient
<1>2. ASSUME NEW b \in Backends, NEW zone, NEW step, Open(b, zone, step) PROVE ClientOK'
  <2>1. store' = store /\ zone \in DOMAIN store[b].mesh /\ client' = FreshClient(b, zone, step)
    BY <1>2 DEF Open
  <2>2. QED
    BY <2>1, ClientSet DEF FreshClient
<1>3. ASSUME NEW zone, NEW step, Connect(zone, step) PROVE ClientOK'
  <2>1. /\ client # NoClient /\ store' = store /\ zone \in DOMAIN store[client.backend].mesh
        /\ client' = Reconnected(zone, step)
    BY <1>3 DEF Connect
  <2>2. client.backend \in Backends
    BY <2>1 DEF ClientOK
  <2>3. PICK ranges : client' = [FreshClient(client.backend, zone, step) EXCEPT !.ranges = ranges]
    BY <2>1 DEF Reconnected
  <2>4. client' = [backend |-> client.backend, zone |-> zone, step |-> step, surface |-> {}, csr |-> {},
                   ranges |-> ranges, normals |-> {}, aborted |-> FALSE, doubtful |-> FALSE]
    BY <2>3 DEF FreshClient
  <2>5. QED
    BY <2>1, <2>2, <2>4, ClientSet
<1>4. CASE Close
  BY <1>4 DEF Close, ClientOK
<1>5. QED
  BY <1>1, <1>2, <1>3, <1>4 DEF Using


-----------------------------------------------------------------------------
(* Steps of the VTK client.                                                *)


\* A client is attached to a zone that is announced, and at a step it is announced with.
LEMMA AttachKeeps ==
  ASSUME FilesGood, DiskGood, NEW zone, NEW step, NEW csr, Attach(zone, step, csr)
  PROVE  VtkGood'
<1>1. PICK chosen \in Chosen(zone) :
        /\ HasFrame(chosen, step)
        /\ vtk' = [zone |-> chosen, step |-> step, manifest |-> disk.manifest, csr |-> csr]
  BY DEF Attach
<1>2. disk.manifest # NoManifest /\ disk' = disk
  BY DEF Attach
<1>3. chosen \in DOMAIN disk.manifest.zones
  <2>1. CASE chosen = zone /\ zone \in DOMAIN disk.manifest.zones
    BY <2>1
  <2>2. CASE chosen = disk.manifest.primary
    <3> DEFINE topology == LoadTopology(files[1], Indices)
    <3>1. files # NoFiles /\ files \in FileSets /\ TopologyLoads(files[1], Indices) /\ IsFile(files[1])
      BY <1>2, FirstFile DEF DiskGood, FilesGood
    <3>2. disk.manifest = Manifest(files, topology)
      BY <1>2, <3>1 DEF DiskGood, Directory
    <3>3. DOMAIN topology = Names(files[1], Indices) /\ DOMAIN topology # {}
      BY <3>1, LoadedNames, LoadedSome
    <3> HIDE DEF topology
    <3>4. PrimaryZone(DOMAIN topology) \in DOMAIN topology
      BY <3>3 DEF PrimaryZone
    <3>5. QED
      BY <2>2, <3>2, <3>4 DEF Manifest
  <2>3. QED
    BY <2>1, <2>2 DEF Chosen
<1>4. HasFrame(vtk.zone, vtk.step)'
  BY <1>1, <1>2 DEF HasFrame
<1>5. QED
  BY <1>1, <1>2, <1>3, <1>4 DEF VtkGood

\* A query changes the client's cells of the nodes at most.
LEMMA TellingFacts ==
  ASSUME Telling
  PROVE  /\ vtk # NoClient /\ UNCHANGED <<files, ingests, store, client, disk>>
         /\ vtk' = vtk \/ \E csr : vtk' = [vtk EXCEPT !.csr = csr]
         /\ \/ answer'.op \notin BoxOps
            \/ \E lo, hi \in Thresholds : TellWithin(lo, hi) \/ TellElements(lo, hi)
<1>1. ASSUME NEW op, NEW arg, NEW step, NEW value, Says(op, arg, step, value)
      PROVE  UNCHANGED <<files, ingests, store, client, disk>> /\ answer'.op = op
  BY <1>1 DEF Says
<1>2. vtk # NoClient
  BY DEF Telling
<1>3. ASSUME NEW step, NEW ids, TellPoints(ids, step) \/ TellSubmesh(ids)
      PROVE  UNCHANGED <<files, ingests, store, client, disk, vtk>> /\ answer'.op \in {"points", "submesh"}
  BY <1>1, <1>3 DEF TellPoints, TellSubmesh, Tells
<1>4. ASSUME NEW step, NEW lo, NEW hi, TellRange(lo, hi, step) \/ TellElements(lo, hi) \/ TellWithin(lo, hi)
      PROVE  UNCHANGED <<files, ingests, store, client, disk, vtk>> /\ answer'.op \in {"range", "boxed", "within"}
  BY <1>1, <1>4 DEF TellRange, TellElements, TellWithin, Tells
<1>5. ASSUME NEW step, TellValueRange(step) \/ TellStatistics(step) \/ TellMaxDiffs(step) \/ TellZones \/ TellSurface
      PROVE  UNCHANGED <<files, ingests, store, client, disk, vtk>>
             /\ answer'.op \in {"value_range", "statistics", "max_diffs", "zones", "cells"}
  BY <1>1, <1>5 DEF TellValueRange, TellStatistics, TellMaxDiffs, TellZones, TellSurface, Tells
<1>6. ASSUME NEW point, TellExtrema(point)
      PROVE  /\ UNCHANGED <<files, ingests, store, client, disk>> /\ answer'.op \in {"extrema", "any"}
             /\ \E csr : vtk' = [vtk EXCEPT !.csr = csr]
  BY <1>1, <1>6 DEF TellExtrema
<1>7. CASE \E step \in StepsListed :
             \/ \E ids \in PointLists : ToSet(ids) \subseteq GridCells /\ TellPoints(ids, step)
             \/ \E lo, hi \in Thresholds : TellRange(lo, hi, step)
             \/ TellValueRange(step) \/ TellStatistics(step) \/ TellMaxDiffs(step)
  <2>1. CASE \E step \in StepsListed : \E ids \in PointLists : TellPoints(ids, step)
    BY <1>2, <1>3, <2>1 DEF BoxOps
  <2>2. ASSUME NEW step, NEW lo, NEW hi, TellRange(lo, hi, step)
        PROVE  UNCHANGED <<files, ingests, store, client, disk, vtk>> /\ answer'.op = "range"
    BY <2>2, <1>1 DEF TellRange, Tells
  <2>3. QED
    BY <1>2, <1>5, <1>7, <2>1, <2>2 DEF BoxOps
<1>8. CASE \E lo, hi \in Thresholds : TellElements(lo, hi) \/ TellWithin(lo, hi)
  BY <1>2, <1>4, <1>8
<1>9. CASE (\E ids \in PointLists : TellSubmesh(ToSet(ids))) \/ TellZones \/ TellSurface
  BY <1>2, <1>3, <1>5, <1>9 DEF BoxOps
<1>10. CASE \E point \in Points : TellExtrema(point)
  BY <1>2, <1>6, <1>10 DEF BoxOps
<1>11. QED
  BY <1>7, <1>8, <1>9, <1>10 DEF Telling

LEMMA TellingKeeps ==
  ASSUME Telling, FilesGood, DiskGood, VtkGood
  PROVE  VtkGood' /\ BoxesAreTheFiles'
<1>1. /\ vtk # NoClient /\ disk' = disk
      /\ vtk' = vtk \/ \E csr : vtk' = [vtk EXCEPT !.csr = csr]
  BY TellingFacts
<1>2. vtk'.zone = vtk.zone /\ vtk'.step = vtk.step /\ vtk'.manifest = vtk.manifest
      /\ vtk' = [zone |-> vtk'.zone, step |-> vtk'.step, manifest |-> vtk'.manifest, csr |-> vtk'.csr]
  BY <1>1 DEF VtkGood
<1>3. VtkGood'
  BY <1>1, <1>2 DEF VtkGood, HasFrame
<1>4. CASE answer'.op \notin BoxOps
  BY <1>3, <1>4 DEF BoxesAreTheFiles, Claimed, BoxOps
<1>5. CASE \E lo, hi \in Thresholds : TellWithin(lo, hi) \/ TellElements(lo, hi)
  BY <1>1, <1>3, <1>5, WithinHolds, BoxedHolds
<1>6. QED
  BY <1>4, <1>5, TellingFacts


-----------------------------------------------------------------------------
(* The inductive invariant.                                                *)

IInv ==
  /\ ingests \in 0..MaxIngests
  /\ StoreInv /\ DiskGood /\ VtkGood /\ ClientOK
  /\ BoxesAreTheFiles

LEMMA NothingAnswered ==
  ASSUME answer' = NoAnswer \/ answer'.op \notin BoxOps
  PROVE  BoxesAreTheFiles'
  BY DEF BoxesAreTheFiles, Claimed, NoAnswer, BoxOps

LEMMA InitHolds == InitAll => IInv
<1> SUFFICES ASSUME InitAll PROVE IInv
  OBVIOUS
<1>1. files = NoFiles /\ ingests = 0 /\ client = NoClient /\ answer = NoAnswer /\ vtk = NoClient
      /\ disk.manifest = NoManifest /\ store = [b \in Backends |-> EmptyStore]
  BY DEF InitAll, Init, EmptyDirectory
<1>2. BoxesAreTheFiles
  BY <1>1 DEF BoxesAreTheFiles, Claimed, NoAnswer
<1>3. StoresTyped
  BY <1>1 DEF StoresTyped, EmptyStore
<1>4. FilesGood /\ \A b \in Backends : MeshesHold(b) /\ ScalarsHold(b) /\ DiffsHold(b) /\ MetaHolds(b) /\ StepsHold(b)
  BY <1>1 DEF FilesGood, MeshesHold, ScalarsHold, DiffsHold, MetaHolds, StepsHold, EmptyStore
<1>5. ingests \in 0..MaxIngests
  BY <1>1, PlannerAssumption
<1>6. DiskGood /\ VtkGood /\ ClientOK
  BY <1>1 DEF DiskGood, VtkGood, ClientOK
<1>7. QED
  BY <1>2, <1>3, <1>4, <1>5, <1>6 DEF IInv, StoreInv

LEMMA StepHolds == IInv /\ [NextAll]_every => IInv'
<1> SUFFICES ASSUME IInv, [NextAll]_every PROVE IInv'
  OBVIOUS
<1>0. FilesGood
  BY DEF IInv, StoreInv
<1>1. ASSUME NEW input \in FileSets, IngestAll(input) PROVE IInv'
  <2>1. IngestFiles(input) /\ vtk = NoClient /\ vtk' = vtk
    BY <1>1 DEF IngestAll
  <2>2. client' = NoClient /\ answer' = NoAnswer /\ ingests < MaxIngests /\ ingests' = ingests + 1
    BY <2>1 DEF IngestFiles
  <2>3. ingests' \in 0..MaxIngests
    BY <2>2, PlannerAssumption DEF IInv
  <2>4. StoreInv' /\ DiskGood'
    BY <1>1, <2>1, IngestKeepsStore, IngestKeepsDisk DEF IInv
  <2>5. VtkGood' /\ ClientOK' /\ BoxesAreTheFiles'
    BY <2>1, <2>2, NothingAnswered DEF VtkGood, ClientOK
  <2>6. QED
    BY <2>3, <2>4, <2>5 DEF IInv
<1>2. CASE vtk = NoClient /\ Using /\ UNCHANGED <<disk, vtk>>
  <2>1. UNCHANGED <<files, ingests, store>> /\ BoxesAreTheFiles'
    BY <1>2, UsingKeeps, NothingAnswered
  <2>2. ClientOK'
    BY <1>2, UsingKeepsClient DEF IInv
  <2>3. StoreInv' /\ DiskGood' /\ VtkGood'
    BY <1>2, <2>1, StoreStays DEF IInv, DiskGood, VtkGood
  <2>4. QED
    BY <2>1, <2>2, <2>3 DEF IInv
<1>3. ASSUME NEW zone, NEW step, OpenVtk(zone, step) \/ ConnectVtk(zone, step) PROVE IInv'
  <2>1. PICK csr : Attach(zone, step, csr)
    BY <1>3 DEF OpenVtk, ConnectVtk
  <2>2. UNCHANGED <<files, ingests, store, client, disk>> /\ answer' = NoAnswer
    BY <2>1 DEF Attach
  <2>3. VtkGood'
    BY <1>0, <2>1, AttachKeeps DEF IInv
  <2>4. StoreInv' /\ DiskGood' /\ ClientOK' /\ BoxesAreTheFiles'
    BY <2>2, StoreStays, NothingAnswered DEF IInv, DiskGood, ClientOK, ClientShape
  <2>5. QED
    BY <2>2, <2>3, <2>4 DEF IInv
<1>4. CASE CloseVtk
  <2>1. UNCHANGED <<files, ingests, store, client, disk>> /\ answer' = NoAnswer /\ vtk' = NoClient
    BY <1>4 DEF CloseVtk
  <2>2. StoreInv' /\ DiskGood' /\ ClientOK' /\ BoxesAreTheFiles' /\ VtkGood'
    BY <2>1, StoreStays, NothingAnswered DEF IInv, DiskGood, ClientOK, ClientShape, VtkGood
  <2>3. QED
    BY <2>1, <2>2 DEF IInv
<1>5. CASE Telling
  <2>1. UNCHANGED <<files, ingests, store, client, disk>>
    BY <1>5, TellingFacts
  <2>2. VtkGood' /\ BoxesAreTheFiles'
    BY <1>0, <1>5, TellingKeeps DEF IInv
  <2>3. StoreInv' /\ DiskGood' /\ ClientOK'
    BY <2>1, StoreStays DEF IInv, DiskGood, ClientOK, ClientShape
  <2>4. QED
    BY <2>1, <2>2, <2>3 DEF IInv
<1>6. CASE UNCHANGED every
  <2>1. UNCHANGED <<files, ingests, store, client, answer, disk, vtk>>
    BY <1>6 DEF every, vars
  <2>2. BoxesAreTheFiles'
    BY <2>1 DEF IInv, BoxesAreTheFiles, Claimed, IsGiven, FilesOf, GivenZone, Asked
  <2>3. StoreInv' /\ DiskGood' /\ ClientOK' /\ VtkGood'
    BY <2>1, StoreStays DEF IInv, DiskGood, ClientOK, ClientShape, VtkGood, HasFrame
  <2>4. QED
    BY <2>1, <2>2, <2>3 DEF IInv
<1>7. QED
  BY <1>1, <1>2, <1>3, <1>4, <1>5, <1>6 DEF NextAll

\* Whatever is ingested, over whatever there was, and asked: the stores, the directory and the
\* clients stay in step with the files of the last ingest that succeeded.
THEOREM StoredInvariant == SpecAll => []IInv
  BY InitHolds, StepHolds, PTL DEF SpecAll

\* The backends keep meshes whose nodes and neighbours are there, a client is at a zone that its
\* backend has, only PostgreSQL's has normals and aborted transactions, only IoTDB's a doubtful
\* surface (init_schema and load_cfd_to_* of the loaders, the clients of API/).
THEOREM TypeCorrect == SpecAll => []TypeOK
<1>1. IInv => TypeOK
  <2> SUFFICES ASSUME IInv PROVE TypeOK
    OBVIOUS
  <2>1. files \in FileSets \cup {NoFiles} /\ ingests \in 0..MaxIngests
    BY DEF IInv, StoreInv, FilesGood
  <2>2. ASSUME NEW b \in Backends
        PROVE  /\ DOMAIN store[b] = DOMAIN EmptyStore
               /\ \A z \in DOMAIN store[b].mesh : \A c \in CellsOf(store[b].mesh[z]) :
                    /\ store[b].mesh[z].nodes[c] \subseteq 0..store[b].mesh[z].nodeCount - 1
                    /\ store[b].mesh[z].adjacency[c] \subseteq CellsOf(store[b].mesh[z])
    <3>1. DOMAIN store[b] = DOMAIN EmptyStore /\ \A z \in DOMAIN store[b].mesh : Sound(store[b].mesh[z])
      BY DEF IInv, StoreInv, StoresTyped
    <3>2. QED
      BY <3>1 DEF Sound
  <2>3. client # NoClient =>
          /\ client.backend \in Backends /\ client.zone \in DOMAIN Db.mesh
          /\ client.normals # {} \/ client.aborted => IsPg
          /\ client.doubtful => client.backend = "iotdb" /\ client.surface # {}
    BY DEF IInv, ClientOK, Db, IsPg
  <2>4. QED
    BY <2>1, <2>2, <2>3 DEF TypeOK
<1>2. QED
  BY <1>1, StoredInvariant, PTL

\* If the names of zones tell their series apart, then after an ingest that succeeded every backend
\* has, for each zone and step of the files, as many values as the zone it stores has cells,
\* whatever earlier ingests left (validate_frame_topology, _leaf, path_cell_vars).
THEOREM ValuesFit ==
  ASSUME \A input \in FileSets : LeavesTell(input)
  PROVE  SpecAll => []ValuesFitTheMesh
<1>1. IInv => ValuesFitTheMesh
  <2> SUFFICES ASSUME IInv, files # NoFiles, NEW b \in Backends, NEW i \in DOMAIN files,
                      NEW name \in Names(files[i], Indices)
               PROVE  /\ name \in DOMAIN store[b].mesh
                      /\ ReadKey(b, name, files[i].step) \in DOMAIN store[b].scalar
                      /\ Len(store[b].scalar[ReadKey(b, name, files[i].step)]) = Cardinality(CellsOf(store[b].mesh[name]))
    BY DEF ValuesFitTheMesh
  <2> DEFINE step == files[i].step
             topology == LoadTopology(files[1], Indices)
             last == Max(FramesOf(files, name, step))
  <2>1. /\ files \in FileSets /\ TopologyLoads(files[1], Indices) /\ IsFile(files[1])
        /\ \A j \in 1..Len(files) : FrameFits(files[j], Indices, topology)
    BY FirstFile DEF IInv, StoreInv, FilesGood
  <2>2. FramesOf(files, name, step) # {}
    BY DEF FramesOf
  <2>3. last \in 1..Len(files) /\ name \in Names(files[last], Indices) /\ IsFile(files[last])
    BY <2>1, <2>2, LastFrame
  <2>4. /\ ReadKey(b, name, step) \in DOMAIN store[b].scalar
        /\ store[b].scalar[ReadKey(b, name, step)] = LastNamed(files[last], Indices, name).values
    BY <2>1, <2>2 DEF IInv, StoreInv, ScalarsHold, Lasting
  <2> HIDE DEF last, step
  <2>5. name \in DOMAIN topology /\ Len(LastNamed(files[last], Indices, name).values) = Cardinality(CellsOf(topology[name]))
    BY <2>1, <2>3, FittingValues
  <2>6. name \in Names(files[1], Indices) /\ topology[name] = Payload(GivenZone(name))
    BY <2>1, <2>5, LoadedNames, LoadedFacts DEF GivenZone
  <2>7. name \in DOMAIN store[b].mesh /\ SameMesh(store[b].mesh[name], Payload(GivenZone(name)))
    BY <2>6 DEF IInv, StoreInv, MeshesHold
  <2>8. CellsOf(store[b].mesh[name]) = CellsOf(topology[name])
    BY <2>6, <2>7 DEF SameMesh, CellsOf
  <2>9. QED
    BY <2>4, <2>5, <2>7, <2>8 DEF step
<1>2. QED
  BY <1>1, StoredInvariant, PTL

\* The directory of the VTK backend announces the zones and steps of one ingest, with the mesh of
\* its first file and the values of each, or nothing; the cells that its client finds within
\* coordinates and around them are those of the files (load_cfd_to_vtk, range_query_coord,
\* _element_ids_in_coordinate_range).
THEOREM FramesFaithful == SpecAll => []FramesAreTheFiles
<1>1. IInv => FramesAreTheFiles
  BY DirectoryHolds DEF IInv, StoreInv, FramesAreTheFiles
<1>2. QED
  BY <1>1, StoredInvariant, PTL

-----------------------------------------------------------------------------
(* Extremes of finite sets of integers.                                    *)

LEMMA ExtremesExist ==
  ASSUME NEW S, IsFiniteSet(S), S \subseteq Int, S # {}
  PROVE  \E m, n \in S : \A x \in S : m <= x /\ x <= n
<1> DEFINE good == {s \in SUBSET S : s # {} => \E m, n \in s : \A x \in s : m <= x /\ x <= n}
<1>1. {} \in good
  OBVIOUS
<1>2. ASSUME NEW s \in SUBSET S, s # {}, \A x \in s : s \ {x} \in good PROVE s \in good
  <2>1. PICK y : y \in s
    BY <1>2
  <2>2. CASE s \ {y} = {}
    <3>1. s = {y} /\ y \in Int
      BY <2>1, <2>2
    <3>2. y <= y
      BY <3>1
    <3>3. QED
      BY <3>1, <3>2
  <2>3. CASE s \ {y} # {}
    <3>1. PICK m, n \in s \ {y} : \A x \in s \ {y} : m <= x /\ x <= n
      BY <1>2, <2>1, <2>3
    <3>2. m \in Int /\ n \in Int /\ y \in Int /\ \A x \in s : x \in Int
      BY <2>1
    <3> DEFINE low == IF y < m THEN y ELSE m
               high == IF n < y THEN y ELSE n
    <3>3. low \in s /\ high \in s
      BY <2>1
    <3>4. ASSUME NEW x \in s PROVE low <= x /\ x <= high
      <4>1. low \in Int /\ high \in Int /\ low <= y /\ low <= m /\ y <= high /\ n <= high
        BY <3>2
      <4> HIDE DEF low, high
      <4>2. CASE x = y
        BY <4>1, <4>2
      <4>3. CASE x # y
        <5>1. m <= x /\ x <= n /\ x \in Int
          BY <3>1, <3>2, <4>3
        <5>2. QED
          BY <3>2, <4>1, <5>1
      <4>4. QED
        BY <4>2, <4>3
    <3> HIDE DEF low, high
    <3>5. QED
      BY <3>3, <3>4
  <2>4. QED
    BY <2>2, <2>3
<1>3. S \in good
  <2> HIDE DEF good
  <2>1. \A s \in SUBSET S : s \in good
    BY <1>1, <1>2, Shrink
  <2>2. QED
    BY <2>1
<1>4. QED
  BY <1>3

LEMMA ExtremesAre ==
  ASSUME NEW S, IsFiniteSet(S), S \subseteq Int, S # {}
  PROVE  /\ Min(S) \in S /\ Max(S) \in S /\ Min(S) \in Int /\ Max(S) \in Int
         /\ \A x \in S : Min(S) <= x /\ x <= Max(S)
<1>1. PICK m, n \in S : \A x \in S : m <= x /\ x <= n
  BY ExtremesExist
<1>2. \A x \in S : n >= x
  BY <1>1
<1>3. Min(S) \in S /\ \A x \in S : Min(S) <= x
  BY <1>1, Zenon DEF Min
<1>4. Max(S) \in S /\ \A x \in S : Max(S) >= x
  BY <1>2, Zenon DEF Max
<1> HIDE DEF Min, Max
<1>5. QED
  BY <1>3, <1>4

LEMMA SmallestIs ==
  ASSUME NEW S, S \subseteq Int, NEW m \in S, \A x \in S : m <= x
  PROVE  Min(S) = m
<1>1. Min(S) \in S /\ \A y \in S : Min(S) <= y
  BY Zenon DEF Min
<1>2. Min(S) <= m /\ m <= Min(S) /\ m \in Int /\ Min(S) \in Int
  BY <1>1
<1> HIDE DEF Min
<1>3. QED
  BY <1>2

LEMMA RangeFinite ==
  ASSUME NEW f, IsFiniteSet(DOMAIN f)
  PROVE  IsFiniteSet(Range(f))
<1> DEFINE g == [x \in DOMAIN f |-> f[x]]
<1>1. g \in Surjection(DOMAIN f, Range(f))
  BY DEF Surjection, Range
<1>2. QED
  BY <1>1, FS_Surjection

LEMMA BoundedFinite ==
  ASSUME NEW bound \in Nat, NEW S \in SUBSET (0..bound)
  PROVE  IsFiniteSet(S) /\ S \subseteq Int
<1>1. 0 \in Int /\ bound \in Int
  OBVIOUS
<1>2. IsFiniteSet(0..bound)
  BY <1>1, FS_Interval
<1>3. IsFiniteSet(S)
  BY <1>2, FS_Subset
<1>4. QED
  BY <1>3

-----------------------------------------------------------------------------
(* Selections.                                                             *)

LEMMA ListsCover ==
  ASSUME NEW S, NEW size
  PROVE  UNION InLists(S, size) = S
<1>1. \A i \in S : i \in {j \in S : Rank(S, j) \div size = Rank(S, i) \div size}
  OBVIOUS
<1>2. \A i \in S : {j \in S : Rank(S, j) \div size = Rank(S, i) \div size} \in InLists(S, size)
  BY DEF InLists
<1>3. \A p \in InLists(S, size) : p \subseteq S
  BY DEF InLists
<1>4. QED
  BY <1>1, <1>2, <1>3

\* Every id is in a run.
LEMMA RunsCover ==
  ASSUME NEW bound \in Nat, NEW ids \in SUBSET (0..bound), NEW j \in ids
  PROVE  \E i \in RunStarts(ids) : j \in RunFrom(ids, i)
<1> DEFINE S == {n \in 0..j : n..j \subseteq ids}
<1>1. j \in Nat /\ j..j = {j}
  OBVIOUS
<1>2. S \subseteq Nat /\ S # {}
  BY <1>1
<1>3. PICK n \in S : \A x \in S : n <= x
  <2> HIDE DEF S
  <2>1. QED
    BY <1>2, SmallestOf
<1>4. n \in Nat /\ n <= j /\ n..j \subseteq ids
  BY <1>3
<1>5. n \in ids
  BY <1>1, <1>4
<1>6. n - 1 \notin ids
  <2> SUFFICES ASSUME n - 1 \in ids PROVE FALSE
    OBVIOUS
  <2>1. n - 1 \in 0..j
    BY <1>1, <1>4
  <2>2. \A x \in (n - 1)..j : x = n - 1 \/ x \in n..j
    BY <1>1, <1>4
  <2>3. n - 1 \in S
    BY <1>4, <2>1, <2>2
  <2>4. n <= n - 1
    BY <1>3, <2>3
  <2>5. QED
    BY <1>4, <2>4
<1>7. QED
  BY <1>1, <1>4, <1>5, <1>6 DEF RunStarts, RunFrom

\* Whatever the sizes, the queries of a selection ask for all of it.
LEMMA SelectionsCover ==
  ASSUME NEW bound \in Nat, NEW ids \in SUBSET (0..bound)
  PROVE  ids \subseteq UNION Selections(ids)
<1>1. CASE Selections(ids) = {ids}
  BY <1>1
<1>2. CASE Selections(ids) = RunQueries(ids)
  <2> SUFFICES ASSUME NEW j \in ids PROVE \E q \in RunQueries(ids) : j \in q
    BY <1>2
  <2>1. PICK i \in RunStarts(ids) : j \in RunFrom(ids, i)
    BY RunsCover
  <2>2. PICK starts \in InLists(RunStarts(ids), RunsPerQuery) : i \in starts
    BY ListsCover
  <2>3. j \in UNION {RunFrom(ids, k) : k \in starts}
    BY <2>1, <2>2
  <2>4. QED
    BY <2>3 DEF RunQueries
<1>3. CASE Selections(ids) = {Window(ids)}
  <2>1. ASSUME NEW i \in ids PROVE i \in Window(ids)
    <3>1. IsFiniteSet(ids) /\ ids \subseteq Int /\ ids # {}
      BY BoundedFinite
    <3>2. Min(ids) \in Int /\ Max(ids) \in Int /\ Min(ids) <= i /\ i <= Max(ids) /\ i \in Int
      BY <3>1, ExtremesAre
    <3>3. QED
      BY <3>2 DEF Window
  <2>2. QED
    BY <1>3, <2>1
<1>4. CASE Selections(ids) = InLists(ids, Chunk)
  BY <1>4, ListsCover
<1>5. QED
  BY <1>1, <1>2, <1>3, <1>4 DEF Selections

LEMMA FetchedAll ==
  ASSUME NEW step, Len(RowsAt(step)) \in Nat, NEW ids \in SUBSET RowIds(step)
  PROVE  Fetched(ids, step) = [c \in ids |-> RowsAt(step)[c + 1]]
<1> DEFINE read == (IF client.backend = "iotdb" THEN UNION Selections(ids) ELSE ids) \cap RowIds(step)
<1>1. ids \subseteq UNION Selections(ids)
  <2>1. ids \in SUBSET (0..Len(RowsAt(step)))
    BY DEF RowIds
  <2>2. QED
    BY <2>1, SelectionsCover
<1>2. read \cap ids = ids
  BY <1>1
<1>3. QED
  BY <1>2 DEF Fetched


-----------------------------------------------------------------------------
(* What the files say of a mesh.                                           *)

\* The mean over nodes is that over the points they are.
LEMMA MeanIs ==
  ASSUME NEW zone, zone.nodes \in Seq(Int), NEW P \in SUBSET DOMAIN zone.nodes
  PROVE  Mean(zone, {p - 1 : p \in P}) = Position(zone, P)
<1> DEFINE N == {p - 1 : p \in P}
           f == [n \in N |-> zone.nodes[n + 1]]
           g == [p \in P |-> zone.nodes[p]]
           h == [n \in N |-> n + 1]
           one == [n \in N |-> 1]
           once == [p \in P |-> 1]
<1>1. Len(zone.nodes) \in Nat /\ P \in SUBSET (0..Len(zone.nodes)) /\ N \in SUBSET (0..Len(zone.nodes))
  OBVIOUS
<1>2. \A p \in P : p \in Int /\ zone.nodes[p] \in Int /\ (p - 1) + 1 = p
  OBVIOUS
<1>3. IsFiniteSet(P) /\ IsFiniteSet(N)
  BY <1>1, BoundedFinite
<1>4. \A n \in N : n \in Int /\ n + 1 \in P
  BY <1>2
<1>5. \A m, n \in N : m + 1 = n + 1 => m = n
  BY <1>4
<1>6. \A p \in P : \E n \in N : p = n + 1
  BY <1>2
<1> HIDE DEF N
<1>7. /\ DOMAIN f = N /\ DOMAIN g = P /\ DOMAIN one = N /\ DOMAIN once = P
      /\ \A n \in N : h[n] = n + 1 /\ h[n] \in P /\ f[n] = g[h[n]] /\ one[n] = once[h[n]]
      /\ \A p \in P : g[p] \in Int /\ once[p] \in Int
  BY <1>2, <1>4
<1>8. (\A m, n \in N : h[m] = h[n] => m = n) /\ \A p \in P : \E n \in N : p = h[n]
  BY <1>5, <1>6, <1>7
<1> HIDE DEF f, g, h, one, once
<1>9. SumFunction(f) = SumFunction(g)
  <2>1. /\ IsFiniteSet(DOMAIN f) /\ IsFiniteSet(DOMAIN g) /\ \A x \in DOMAIN g : g[x] \in Int
        /\ \A x \in DOMAIN f : h[x] \in DOMAIN g /\ f[x] = g[h[x]]
        /\ \A x, y \in DOMAIN f : h[x] = h[y] => x = y
        /\ \A z \in DOMAIN g : \E x \in DOMAIN f : z = h[x]
    BY <1>3, <1>7, <1>8
  <2>2. QED
    BY <2>1, SumMoved
<1>10. SumFunction(one) = SumFunction(once)
  <2>1. /\ IsFiniteSet(DOMAIN one) /\ IsFiniteSet(DOMAIN once) /\ \A x \in DOMAIN once : once[x] \in Int
        /\ \A x \in DOMAIN one : h[x] \in DOMAIN once /\ one[x] = once[h[x]]
        /\ \A x, y \in DOMAIN one : h[x] = h[y] => x = y
        /\ \A z \in DOMAIN once : \E x \in DOMAIN one : z = h[x]
    BY <1>3, <1>7, <1>8
  <2>2. QED
    BY <2>1, SumMoved
<1>11. Cardinality(N) = SumFunction(one) /\ Cardinality(P) = SumFunction(once)
  <2>1. DOMAIN one = N /\ DOMAIN once = P
    BY <1>7
  <2>2. Cardinality(N) = Part(one, N) /\ Cardinality(P) = Part(once, P)
    BY <1>3, CountIsSum DEF one, once
  <2>3. QED
    BY <2>1, <2>2, SumPart
<1>12. QED
  BY <1>9, <1>10, <1>11 DEF Mean, Position, N, f, g

LEMMA PointsThere ==
  ASSUME NEW zone, Decodes(zone), NEW c \in CellIds(zone)
  PROVE  /\ PointsAt(zone, c) \in SUBSET DOMAIN zone.nodes
         /\ \A i \in DOMAIN zone.faces : Range(zone.faces[i].nodes) \in SUBSET DOMAIN zone.nodes
<1>1. \A i \in DOMAIN zone.faces : ToSet(zone.faces[i].nodes) = Range(zone.faces[i].nodes)
  BY DEF ToSet, Range
<1>2. \A i \in DOMAIN zone.faces : Range(zone.faces[i].nodes) \in SUBSET DOMAIN zone.nodes
  BY <1>1 DEF Decodes
<1>3. QED
  BY <1>2 DEF PointsAt, FacesAt

\* A stored mesh, cell by cell.
LEMMA MeshTells ==
  ASSUME NEW zone, IsZone(zone), Decodes(zone), NEW mesh, SameMesh(mesh, Payload(zone))
  PROVE  /\ CellsOf(mesh) = CellIds(zone) /\ mesh.nodeCount = Len(zone.nodes)
         /\ \A c \in CellIds(zone) : /\ mesh.nodes[c] = {p - 1 : p \in PointsAt(zone, c)}
                                     /\ mesh.adjacency[c] = Beside(zone, c)
                                     /\ mesh.centre[c] = Position(zone, PointsAt(zone, c))
<1>1. /\ mesh.nodes = Payload(zone).nodes /\ mesh.adjacency = Payload(zone).adjacency
      /\ mesh.centre = Payload(zone).centre /\ mesh.nodeCount = Payload(zone).nodeCount
  BY DEF SameMesh
<1>2. /\ Payload(zone).nodes = [c \in CellIds(zone) |-> CellNodes(zone, c)]
      /\ Payload(zone).adjacency = [c \in CellIds(zone) |-> Neighbours(zone, c)]
      /\ Payload(zone).centre = [c \in CellIds(zone) |-> Centre(zone, c)]
      /\ Payload(zone).nodeCount = Len(zone.nodes)
  BY PayloadFacts, Zenon
<1>3. zone.nodes \in Seq(Int) /\ zone.cells \in Nat
  BY DEF IsZone
<1>4. ASSUME NEW c \in CellIds(zone)
      PROVE  /\ CellNodes(zone, c) = {p - 1 : p \in PointsAt(zone, c)}
             /\ Neighbours(zone, c) = Beside(zone, c)
             /\ Centre(zone, c) = Position(zone, PointsAt(zone, c))
  <2>1. CellNodes(zone, c) = {p - 1 : p \in PointsAt(zone, c)}
    BY NodesAround
  <2>2. Mean(zone, {p - 1 : p \in PointsAt(zone, c)}) = Position(zone, PointsAt(zone, c))
    BY <1>3, PointsThere, MeanIs
  <2>3. QED
    BY <1>3, <2>1, <2>2, NeighboursBeside DEF Centre
<1>5. QED
  BY <1>1, <1>2, <1>4 DEF CellsOf

\* What is in a backend for a zone and step of the last files.
LEMMA GivenFacts ==
  ASSUME FilesGood, NEW name, NEW step, IsGiven(name, step)
  PROVE  LET zone == GivenZone(name) IN
         /\ files # NoFiles /\ files \in FileSets /\ name \in Names(files[1], Indices)
         /\ IsZone(zone) /\ Decodes(zone) /\ zone.cells \in Nat \ {0}
         /\ FramesOf(files, name, step) = FilesOf(name, step) /\ FramesOf(files, name, step) # {}
         /\ Given(name, step) = Lasting(files, name, step).values
         /\ Given(name, step) \in Seq(Int) /\ Len(Given(name, step)) = zone.cells
         /\ LoadTopology(files[1], Indices)[name] = Payload(zone)
<1> DEFINE zone == GivenZone(name)
           topology == LoadTopology(files[1], Indices)
           last == Max(FramesOf(files, name, step))
<1>1. /\ files # NoFiles /\ files \in FileSets /\ name \in Names(files[1], Indices)
      /\ IsFile(files[1]) /\ TopologyLoads(files[1], Indices)
      /\ \A i \in 1..Len(files) : FrameFits(files[i], Indices, topology)
  BY FirstFile DEF IsGiven, FilesGood
<1>2. topology[name] = Payload(zone) /\ IsZone(zone) /\ Decodes(zone)
  BY <1>1, LoadedFacts DEF GivenZone
<1>3. zone.cells \in Nat \ {0}
  BY <1>2 DEF IsZone, Decodes
<1>4. FramesOf(files, name, step) = FilesOf(name, step) /\ FramesOf(files, name, step) # {}
  BY DEF FramesOf, FilesOf, IsGiven
<1>5. Given(name, step) = Lasting(files, name, step).values
  BY <1>4 DEF Given, Lasting
<1>6. last \in 1..Len(files) /\ name \in Names(files[last], Indices) /\ IsFile(files[last])
  BY <1>1, <1>4, LastFrame
<1>7. Lasting(files, name, step) = LastNamed(files[last], Indices, name)
  BY DEF Lasting
<1> HIDE DEF last, topology
<1>8. Len(LastNamed(files[last], Indices, name).values) = Cardinality(CellsOf(topology[name]))
  BY <1>1, <1>6, FittingValues
<1>9. CellsOf(topology[name]) = CellIds(zone) /\ Cardinality(CellIds(zone)) = zone.cells
  <2>1. CellsOf(topology[name]) = CellIds(zone)
    BY <1>2, PayloadFacts
  <2> HIDE DEF zone
  <2>2. 0 \in Int /\ zone.cells - 1 \in Int /\ ~(0 > zone.cells - 1) /\ (zone.cells - 1) - 0 + 1 = zone.cells
    BY <1>3
  <2>3. QED
    BY <2>1, <2>2, FS_Interval DEF CellIds
<1>10. IsZone(LastNamed(files[last], Indices, name))
  BY <1>6, NamedFacts, RequestedFacts DEF LastNamed
<1>11. LastNamed(files[last], Indices, name).values \in Seq(Int)
  BY <1>10 DEF IsZone
<1>12. QED
  BY <1>1, <1>2, <1>3, <1>4, <1>5, <1>7, <1>8, <1>9, <1>11 DEF topology


-----------------------------------------------------------------------------
(* What a client of a database reads.                                      *)

Telltale == files = NoFiles \/ LeavesTell(files)

\* The mesh, whatever the series of its zone.
LEMMA ClientMesh ==
  ASSUME StoreInv, ClientOK, client # NoClient, NEW step, IsGiven(client.zone, step)
  PROVE  LET zone == GivenZone(client.zone) IN
         /\ CellsOf(MeshRows) = CellIds(zone) /\ Cells = CellIds(zone) /\ MeshRows.nodeCount = Len(zone.nodes)
         /\ \A c \in CellIds(zone) : /\ MeshRows.nodes[c] = {p - 1 : p \in PointsAt(zone, c)}
                                     /\ MeshRows.adjacency[c] = Beside(zone, c)
                                     /\ MeshRows.centre[c] = Position(zone, PointsAt(zone, c))
         /\ SameMesh(MeshRows, Payload(zone))
<1> DEFINE zone == GivenZone(client.zone)
<1>1. IsZone(zone) /\ Decodes(zone) /\ files # NoFiles /\ client.zone \in Names(files[1], Indices)
  BY GivenFacts DEF StoreInv
<1>2. client.backend \in Backends
  BY DEF ClientOK
<1>3. SameMesh(MeshRows, Payload(zone))
  BY <1>1, <1>2 DEF StoreInv, MeshesHold, MeshRows, Db
<1>4. QED
  BY <1>1, <1>3, MeshTells DEF Cells

\* The rows, if the series can be told apart.
LEMMA ClientRows ==
  ASSUME StoreInv, ClientOK, client # NoClient, Telltale, NEW step, IsGiven(client.zone, step)
  PROVE  LET cells == CellIds(GivenZone(client.zone))
             truth == Given(client.zone, step)
         IN /\ ReadKey(client.backend, client.zone, step) \in DOMAIN Db.scalar
            /\ RowsAt(step) = truth /\ RowIds(step) = cells
            /\ \A ids \in SUBSET cells : Fetched(ids, step) = [c \in ids |-> truth[c + 1]]
<1> DEFINE zone == GivenZone(client.zone)
           truth == Given(client.zone, step)
<1>1. /\ files # NoFiles /\ truth \in Seq(Int) /\ Len(truth) = zone.cells /\ zone.cells \in Nat
      /\ FramesOf(files, client.zone, step) # {} /\ truth = Lasting(files, client.zone, step).values
  BY GivenFacts DEF StoreInv
<1>2. client.backend \in Backends
  BY DEF ClientOK
<1>3. /\ ReadKey(client.backend, client.zone, step) \in DOMAIN Db.scalar
      /\ Db.scalar[ReadKey(client.backend, client.zone, step)] = truth
  BY <1>1, <1>2 DEF StoreInv, ScalarsHold, Db, Telltale
<1>4. RowsAt(step) = truth
  BY <1>3 DEF RowsAt
<1>5. RowIds(step) = CellIds(zone)
  BY <1>1, <1>4 DEF RowIds, CellIds
<1> HIDE DEF truth, zone
<1>6. ASSUME NEW ids \in SUBSET CellIds(zone) PROVE Fetched(ids, step) = [c \in ids |-> truth[c + 1]]
  <2>1. Len(RowsAt(step)) \in Nat /\ ids \in SUBSET RowIds(step)
    BY <1>1, <1>4, <1>5
  <2>2. QED
    BY <1>4, <2>1, FetchedAll
<1>7. QED
  BY <1>3, <1>4, <1>5, <1>6 DEF truth, zone

\* Cells of a list or a set are numbers of cells.
LEMMA ListIn ==
  ASSUME NEW ids \in Seq(Nat)
  PROVE  DOMAIN ids = 1..Len(ids) /\ \A i \in DOMAIN ids : ids[i] \in ToSet(ids)
  BY DEF ToSet

-----------------------------------------------------------------------------
(* The right answers.                                                      *)

\* Answers as records of what was asked and said.
Reply(op, arg, value, name, step, b, doubtful) ==
  [op |-> op, arg |-> arg, value |-> value, zone |-> name, step |-> step, backend |-> b, doubtful |-> doubtful]

Values(name, step, cells) == [c \in cells |-> Given(name, step)[c + 1]]
Largest(name, step) ==
  LET zone == GivenZone(name)
      truth == Given(name, step)
  IN Max({0} \cup UNION {{AbsDiff(truth[c + 1], truth[d + 1]) : d \in Beside(zone, c)} : c \in CellIds(zone)})

ScalarRight(op, arg, value, name, step, b) ==
  LET truth == Given(name, step) IN
  /\ op = "points" => value = [i \in DOMAIN arg |-> truth[arg[i] + 1]]
  /\ op = "aggregate" => value = Summary(Values(name, step, arg))
  /\ op = "range" /\ arg[1] <= arg[2] =>
       value = {c \in 0..Len(truth) - 1 : truth[c + 1] \in arg[1]..arg[2]}
  /\ op = "value_range" => value = <<Min(Range(truth)), Max(Range(truth))>>
  /\ op = "statistics" => value = Summary(Values(name, step, 0..Len(truth) - 1))
  /\ op = "max_diffs" /\ (b \in {"postgresql", "vtk"} \/ ~HullName(name)) => value = {Largest(name, step)}

LEMMA ScalarTold ==
  ASSUME NEW op, NEW arg, NEW value, NEW name, NEW step, NEW b, NEW doubtful, files' = files,
         answer' = Reply(op, arg, value, name, step, b, doubtful),
         ~doubtful /\ IsGiven(name, step) => ScalarRight(op, arg, value, name, step, b)
  PROVE  ScalarsAreTheFiles'
<1>1. /\ answer'.op = op /\ answer'.arg = arg /\ answer'.value = value /\ answer'.zone = name /\ answer'.step = step
      /\ answer'.backend = b /\ answer'.doubtful = doubtful
  BY DEF Reply
<1>2. Truth' = Given(name, step) /\ Asked' = arg /\ GivenZone(answer.zone)' = GivenZone(name)
  BY <1>1 DEF Truth, Asked, Given, FilesOf, GivenZone
<1>3. \A o : Claimed(o)' => o = op /\ ~doubtful /\ IsGiven(name, step)
  BY <1>1 DEF Claimed, IsGiven, FilesOf
<1>4. \A cells : Of(cells)' = Summary(Values(name, step, cells))
  BY <1>2 DEF Of, Values, Summary
<1>5. QED
  BY <1>1, <1>2, <1>3, <1>4 DEF ScalarsAreTheFiles, ScalarRight, Ordered, Largest


\* The lists of a selection are parts of it.
LEMMA ListsFacts ==
  ASSUME NEW S, NEW size
  PROVE  /\ \A p \in InLists(S, size) : p # {} /\ p \in SUBSET S
         /\ \A p, q \in InLists(S, size) : p # q => p \cap q = {}
<1> DEFINE At(k) == {i \in S : Rank(S, i) \div size = k}
<1>1. \A p \in InLists(S, size) : \E i \in S : p = At(Rank(S, i) \div size)
  BY DEF InLists
<1>2. \A i \in S : i \in At(Rank(S, i) \div size)
  OBVIOUS
<1>3. \A p \in InLists(S, size) : p # {} /\ p \in SUBSET S
  BY <1>1, <1>2
<1>4. ASSUME NEW p \in InLists(S, size), NEW q \in InLists(S, size), NEW x \in p \cap q PROVE p = q
  <2>1. PICK i \in S : p = At(Rank(S, i) \div size)
    BY <1>1
  <2>2. PICK j \in S : q = At(Rank(S, j) \div size)
    BY <1>1
  <2>3. x \in At(Rank(S, i) \div size) /\ x \in At(Rank(S, j) \div size)
    BY <2>1, <2>2
  <2>4. Rank(S, i) \div size = Rank(S, j) \div size
    BY <2>3
  <2>5. QED
    BY <2>1, <2>2, <2>4
<1>5. QED
  BY <1>3, <1>4

\* Over any rows there are.
LEMMA SummaryIs ==
  ASSUME NEW rows, DOMAIN rows # {}
  PROVE  /\ Summary(rows).count = Cardinality(DOMAIN rows) /\ Summary(rows).sum = SumFunction(rows)
         /\ Summary(rows).min = Min(Range(rows)) /\ Summary(rows).max = Max(Range(rows))
         /\ Summary(rows) = [count |-> Cardinality(DOMAIN rows), sum |-> SumFunction(rows),
                             min |-> Min(Range(rows)), max |-> Max(Range(rows))]
  BY DEF Summary

\* Adding up over lists what was added up in each is adding up all.
AddsUp(f, parts, of) ==
  /\ \A p \in parts : of[p].count > 0
  /\ SumFunction([p \in parts |-> of[p].count]) = Cardinality(DOMAIN f)
  /\ SumFunction([p \in parts |-> of[p].sum]) = SumFunction(f)
  /\ Min({of[p].min : p \in parts}) = Min(Range(f))
  /\ Max({of[p].max : p \in parts}) = Max(Range(f))

LEMMA ListsAddUp ==
  ASSUME NEW f, IsFiniteSet(DOMAIN f), \A c \in DOMAIN f : f[c] \in Int, NEW size, DOMAIN f # {},
         NEW of, of = [p \in InLists(DOMAIN f, size) |-> Summary([c \in p |-> f[c]])]
  PROVE  AddsUp(f, InLists(DOMAIN f, size), of)
<1> DEFINE parts == InLists(DOMAIN f, size)
           counts == [p \in parts |-> of[p].count]
           sums == [p \in parts |-> of[p].sum]
           one == [c \in DOMAIN f |-> 1]
<1>1. /\ UNION parts = DOMAIN f /\ \A p \in parts : p # {} /\ p \in SUBSET DOMAIN f
      /\ \A p, q \in parts : p # q => p \cap q = {}
  <2>1. UNION parts = DOMAIN f
    BY ListsCover
  <2>2. \A p \in parts : p # {} /\ p \in SUBSET DOMAIN f
    BY ListsFacts
  <2>3. \A p, q \in parts : p # q => p \cap q = {}
    BY ListsFacts
  <2> HIDE DEF parts
  <2>4. QED
    BY <2>1, <2>2, <2>3
<1> HIDE DEF parts
<1>2. ASSUME NEW p \in parts
      PROVE  /\ of[p].count = Cardinality(p) /\ of[p].sum = SumFunction([c \in p |-> f[c]])
             /\ of[p].min = Min(Range([c \in p |-> f[c]])) /\ of[p].max = Max(Range([c \in p |-> f[c]]))
             /\ IsFiniteSet(p) /\ Cardinality(p) \in Nat \ {0}
  <2> DEFINE rows == [c \in p |-> f[c]]
  <2>1. of[p] = Summary(rows)
    BY DEF parts
  <2>2. DOMAIN rows = p /\ p # {} /\ p \in SUBSET DOMAIN f
    BY <1>1
  <2> HIDE DEF rows
  <2>3. IsFiniteSet(p) /\ Cardinality(p) \in Nat /\ Cardinality(p) # 0
    BY <2>2, FS_Subset, FS_CardinalityType, FS_EmptySet
  <2>4. QED
    BY <2>1, <2>2, <2>3, SummaryIs DEF rows
<1>3. SumFunction(counts) = Cardinality(DOMAIN f)
  <2>1. DOMAIN one = DOMAIN f /\ \A c \in DOMAIN one : one[c] \in Int
    OBVIOUS
  <2>2. \A s \in SUBSET DOMAIN f : Cardinality(s) = Part(one, s)
    BY CountIsSum
  <2> HIDE DEF one
  <2>3. DOMAIN counts = parts /\ \A p \in parts : counts[p] = Part(one, p)
    BY <1>1, <1>2, <2>2
  <2> HIDE DEF counts
  <2>4. SumFunction(counts) = SumFunction(one)
    BY <1>1, <2>1, <2>3, SumGrouped
  <2>5. QED
    BY <2>1, <2>2, <2>4, SumPart
<1>4. SumFunction(sums) = SumFunction(f)
  <2>1. DOMAIN sums = parts /\ \A p \in parts : sums[p] = Part(f, p)
    BY <1>1, <1>2, PartSum
  <2> HIDE DEF sums
  <2>2. QED
    BY <1>1, <2>1, SumGrouped
<1>5. IsFiniteSet(Range(f)) /\ Range(f) \subseteq Int /\ Range(f) # {}
  BY RangeFinite DEF Range
<1>6. \A p \in parts : Range([c \in p |-> f[c]]) = {f[c] : c \in p}
  BY DEF Range
<1>7. ASSUME NEW p \in parts
      PROVE  /\ of[p].min \in Range(f) /\ of[p].max \in Range(f)
             /\ \A c \in p : of[p].min <= f[c] /\ f[c] <= of[p].max
  <2> DEFINE S == {f[c] : c \in p}
  <2>1. of[p].min = Min(S) /\ of[p].max = Max(S)
    BY <1>2, <1>6
  <2>2. S \in SUBSET Range(f) /\ S # {}
    BY <1>1 DEF Range
  <2> HIDE DEF S
  <2>3. IsFiniteSet(S) /\ S \subseteq Int
    BY <1>5, <2>2, FS_Subset
  <2>4. Min(S) \in S /\ Max(S) \in S /\ \A x \in S : Min(S) <= x /\ x <= Max(S)
    BY <2>2, <2>3, ExtremesAre
  <2>5. QED
    BY <2>1, <2>2, <2>4 DEF S
<1>8. Min({of[p].min : p \in parts}) = Min(Range(f))
  <2> DEFINE M == {of[p].min : p \in parts}
             m == Min(Range(f))
  <2>1. m \in Range(f) /\ m \in Int /\ \A x \in Range(f) : m <= x
    BY <1>5, ExtremesAre
  <2>2. M \subseteq Range(f)
    BY <1>7
  <2> HIDE DEF m
  <2>3. PICK c \in DOMAIN f : m = f[c]
    BY <2>1 DEF Range
  <2>4. PICK p \in parts : c \in p
    BY <1>1
  <2>5. of[p].min <= m /\ m <= of[p].min /\ of[p].min \in Int
    BY <1>5, <1>7, <2>1, <2>3, <2>4
  <2>6. of[p].min = m
    BY <2>1, <2>5
  <2>7. m \in M /\ M \subseteq Int /\ \A x \in M : m <= x
    BY <1>5, <2>1, <2>2, <2>6
  <2> HIDE DEF M
  <2>8. Min(M) = m
    BY <2>7, SmallestIs
  <2>9. QED
    BY <2>8 DEF M, m
<1>9. Max({of[p].max : p \in parts}) = Max(Range(f))
  <2> DEFINE M == {of[p].max : p \in parts}
             m == Max(Range(f))
  <2>1. m \in Range(f) /\ m \in Int /\ \A x \in Range(f) : x <= m
    BY <1>5, ExtremesAre
  <2>2. M \subseteq Range(f)
    BY <1>7
  <2> HIDE DEF m
  <2>3. PICK c \in DOMAIN f : m = f[c]
    BY <2>1 DEF Range
  <2>4. PICK p \in parts : c \in p
    BY <1>1
  <2>5. of[p].max <= m /\ m <= of[p].max /\ of[p].max \in Int
    BY <1>5, <1>7, <2>1, <2>3, <2>4
  <2>6. of[p].max = m
    BY <2>1, <2>5
  <2>7. m \in M /\ M \subseteq Int /\ \A x \in M : x <= m
    BY <1>5, <2>1, <2>2, <2>6
  <2> HIDE DEF M
  <2>8. Max(M) = m
    BY <2>7, LargestIs
  <2>9. QED
    BY <2>8 DEF M, m
<1>10. \A p \in parts : of[p].count > 0
  <2>1. \A n \in Nat \ {0} : n > 0
    OBVIOUS
  <2>2. QED
    BY <1>2, <2>1
<1>11. QED
  BY <1>3, <1>4, <1>8, <1>9, <1>10 DEF parts, AddsUp


\* A client at a zone and step of the last files, whose series can be told apart.
Served == StoreInv /\ ClientOK /\ client # NoClient /\ Telltale /\ IsGiven(client.zone, client.step)

LEMMA ServedFacts ==
  ASSUME Served
  PROVE  LET cells == CellIds(GivenZone(client.zone))
             truth == Given(client.zone, client.step)
         IN /\ Rows = truth /\ RowIds(client.step) = cells /\ Cells = cells /\ HasRows
            /\ cells = 0..Len(truth) - 1 /\ IsFiniteSet(cells) /\ Len(truth) \in Nat \ {0} /\ truth \in Seq(Int)
            /\ \A c \in cells : truth[c + 1] \in Int
            /\ \A ids \in SUBSET cells : Fetched(ids, client.step) = [c \in ids |-> truth[c + 1]]
<1> DEFINE cells == CellIds(GivenZone(client.zone))
           truth == Given(client.zone, client.step)
<1>1. /\ truth \in Seq(Int) /\ Len(truth) = GivenZone(client.zone).cells
      /\ GivenZone(client.zone).cells \in Nat \ {0}
  BY GivenFacts DEF Served, StoreInv
<1>2. /\ ReadKey(client.backend, client.zone, client.step) \in DOMAIN Db.scalar
      /\ RowsAt(client.step) = truth /\ RowIds(client.step) = cells
      /\ \A ids \in SUBSET cells : Fetched(ids, client.step) = [c \in ids |-> truth[c + 1]]
  BY ClientRows DEF Served
<1>3. cells = 0..Len(truth) - 1
  BY <1>1 DEF CellIds
<1>4. Cells = cells
  BY ClientMesh DEF Served
<1> HIDE DEF cells, truth
<1>5. IsFiniteSet(cells)
  <2>1. 0 \in Int /\ Len(truth) - 1 \in Int
    BY <1>1
  <2>2. QED
    BY <1>3, <2>1, FS_Interval
<1>6. \A c \in cells : truth[c + 1] \in Int
  <2>1. \A c \in cells : c + 1 \in 1..Len(truth)
    BY <1>1, <1>3
  <2>2. QED
    BY <1>1, <2>1
<1>7. Len(truth) \in Nat \ {0}
  BY <1>1
<1>8. QED
  BY <1>1, <1>2, <1>3, <1>4, <1>5, <1>6, <1>7 DEF Rows, HasRows, cells, truth

LEMMA PointsRight ==
  ASSUME Served, NEW ids \in Seq(Nat), ToSet(ids) \subseteq Cells
  PROVE  ScalarRight("points", ids, PointQuery(ids), client.zone, client.step, client.backend)
<1> DEFINE truth == Given(client.zone, client.step)
<1>1. Fetched(ToSet(ids), client.step) = [c \in ToSet(ids) |-> truth[c + 1]]
  BY ServedFacts
<1> HIDE DEF truth
<1>2. PointQuery(ids) = [i \in DOMAIN ids |-> truth[ids[i] + 1]]
  BY <1>1, ListIn DEF PointQuery
<1>3. QED
  BY <1>2 DEF ScalarRight, truth

LEMMA AggregateRight ==
  ASSUME Served, NEW ids, ids \subseteq Cells, NEW failing
  PROVE  ScalarRight("aggregate", ids, Aggregate(ids, failing), client.zone, client.step, client.backend)
<1> DEFINE truth == Given(client.zone, client.step)
           f == [c \in ids |-> truth[c + 1]]
           parts == InLists(ids, AggregateChunk)
           of == [p \in parts |-> Summary(IF p \in failing THEN Fetched(p, client.step) ELSE ServerChunk(p))]
           counted == {p \in parts : of[p].count > 0}
<1>1. ids \in SUBSET CellIds(GivenZone(client.zone)) /\ IsFiniteSet(ids) /\ \A c \in ids : truth[c + 1] \in Int
  <2>1. ids \in SUBSET CellIds(GivenZone(client.zone)) /\ IsFiniteSet(CellIds(GivenZone(client.zone)))
        /\ \A c \in CellIds(GivenZone(client.zone)) : truth[c + 1] \in Int
    BY ServedFacts
  <2>2. QED
    BY <2>1, FS_Subset
<1>2. DOMAIN f = ids /\ \A c \in DOMAIN f : f[c] \in Int
  BY <1>1
<1>3. \A p \in parts : p # {} /\ p \in SUBSET ids
  BY ListsFacts
<1>4. of = [p \in parts |-> Summary([c \in p |-> f[c]])]
  <2> SUFFICES ASSUME NEW p \in parts
               PROVE  (IF p \in failing THEN Fetched(p, client.step) ELSE ServerChunk(p)) = [c \in p |-> f[c]]
    BY Zenon
  <2>1. p \in SUBSET ids /\ p \in SUBSET CellIds(GivenZone(client.zone))
    BY <1>1, <1>3
  <2>2. Fetched(p, client.step) = [c \in p |-> truth[c + 1]]
    BY <2>1, ServedFacts
  <2>3. RowIds(client.step) = CellIds(GivenZone(client.zone)) /\ Rows = truth
    BY ServedFacts
  <2>4. ServerChunk(p) = [c \in p |-> truth[c + 1]]
    <3>1. p \cap RowIds(client.step) = p
      BY <2>1, <2>3
    <3>2. QED
      BY <2>3, <3>1 DEF ServerChunk
  <2>5. [c \in p |-> truth[c + 1]] = [c \in p |-> f[c]]
    BY <2>1
  <2>6. QED
    BY <2>2, <2>4, <2>5
<1>5. Aggregate(ids, failing) = Summary(f)
  <2>1. CASE ids = {}
    <3>1. counted = {}
      BY <1>3, <2>1
    <3>2. Summary(f) = [count |-> 0, sum |-> 0]
      BY <1>2, <2>1 DEF Summary
    <3> HIDE DEF f
    <3>3. Aggregate(ids, failing) = [count |-> 0, sum |-> 0]
      BY <3>1 DEF Aggregate
    <3>4. QED
      BY <3>2, <3>3
  <2>2. CASE ids # {}
    <3>0. parts # {}
      <4>1. UNION parts = ids
        BY ListsCover
      <4>2. QED
        BY <2>2, <4>1
    <3>1. Aggregate(ids, failing) =
            IF counted = {} THEN [count |-> 0, sum |-> 0]
            ELSE [count |-> SumFunction([p \in counted |-> of[p].count]),
                  sum |-> SumFunction([p \in counted |-> of[p].sum]),
                  min |-> Min({of[p].min : p \in counted}), max |-> Max({of[p].max : p \in counted})]
      BY Zenon DEF Aggregate
    <3> HIDE DEF f, of
    <3>2. /\ \A p \in parts : of[p].count > 0
          /\ SumFunction([p \in parts |-> of[p].count]) = Cardinality(ids)
          /\ SumFunction([p \in parts |-> of[p].sum]) = SumFunction(f)
          /\ Min({of[p].min : p \in parts}) = Min(Range(f))
          /\ Max({of[p].max : p \in parts}) = Max(Range(f))
      <4>1. of = [p \in InLists(DOMAIN f, AggregateChunk) |-> Summary([c \in p |-> f[c]])]
        BY <1>2, <1>4
      <4>2. DOMAIN f = ids /\ IsFiniteSet(DOMAIN f) /\ DOMAIN f # {} /\ \A c \in DOMAIN f : f[c] \in Int
        BY <1>1, <1>2, <2>2
      <4>3. AddsUp(f, InLists(DOMAIN f, AggregateChunk), of)
        BY <4>1, <4>2, ListsAddUp
      <4>4. InLists(DOMAIN f, AggregateChunk) = parts
        BY <4>2
      <4> HIDE DEF parts
      <4>5. QED
        BY <4>2, <4>3, <4>4 DEF AddsUp
    <3>3. counted = parts
      BY <3>2
    <3> HIDE DEF counted, parts
    <3>4. Summary(f) = [count |-> Cardinality(ids), sum |-> SumFunction(f),
                        min |-> Min(Range(f)), max |-> Max(Range(f))]
      BY <1>2, <2>2, SummaryIs
    <3>5. QED
      BY <3>0, <3>1, <3>2, <3>3, <3>4
  <2>3. QED
    BY <2>1, <2>2
<1>6. f = Values(client.zone, client.step, ids)
  BY DEF Values
<1> HIDE DEF f
<1>7. QED
  BY <1>5, <1>6 DEF ScalarRight

LEMMA RangeRight ==
  ASSUME Served, NEW lo \in Int, NEW hi \in Int
  PROVE  ScalarRight("range", <<lo, hi>>, RangeIds(lo, hi), client.zone, client.step, client.backend)
<1> DEFINE truth == Given(client.zone, client.step)
           cells == CellIds(GivenZone(client.zone))
<1>1. Rows = truth /\ RowIds(client.step) = cells /\ cells = 0..Len(truth) - 1 /\ \A c \in cells : truth[c + 1] \in Int
  BY ServedFacts
<1> HIDE DEF truth, cells
<1>2. ASSUME lo <= hi
      PROVE  RangeIds(lo, hi) = {c \in cells : truth[c + 1] \in lo..hi}
  <2>1. Min({lo, hi}) = lo
    BY <1>2, SmallestIs
  <2>2. Max({lo, hi}) = hi
    BY <1>2, LargestIs
  <2>3. RangeIds(lo, hi) = {c \in cells : lo <= truth[c + 1] /\ truth[c + 1] <= hi}
    BY <1>1, <2>1, <2>2 DEF RangeIds
  <2>4. \A c \in cells : truth[c + 1] \in lo..hi <=> lo <= truth[c + 1] /\ truth[c + 1] <= hi
    BY <1>1
  <2>5. QED
    BY <2>3, <2>4
<1>3. QED
  BY <1>1, <1>2 DEF ScalarRight, truth

LEMMA StatisticsRight ==
  ASSUME Served
  PROVE  ScalarRight("statistics", <<>>, Summary([c \in RowIds(client.step) |-> Rows[c + 1]]),
                     client.zone, client.step, client.backend)
  BY ServedFacts DEF ScalarRight, Values

\* Of the mesh and values there are.
LEMMA LargestRight ==
  ASSUME FilesGood, NEW name, NEW step, IsGiven(name, step)
  PROVE  MaxDiff(LoadTopology(files[1], Indices)[name], Given(name, step)) = Largest(name, step)
<1> DEFINE zone == GivenZone(name)
           mesh == Payload(zone)
           truth == Given(name, step)
<1>1. LoadTopology(files[1], Indices)[name] = mesh /\ IsZone(zone) /\ Decodes(zone)
  BY GivenFacts
<1>2. SameMesh(mesh, Payload(zone))
  BY DEF SameMesh
<1>3. CellsOf(mesh) = CellIds(zone) /\ \A c \in CellIds(zone) : mesh.adjacency[c] = Beside(zone, c)
  BY <1>1, <1>2, MeshTells
<1> HIDE DEF zone, mesh, truth
<1>4. MaxDiff(mesh, truth) = Max({0} \cup UNION {{AbsDiff(truth[c + 1], truth[d + 1]) : d \in mesh.adjacency[c]} : c \in CellsOf(mesh)})
  BY DEF MaxDiff
<1>5. UNION {{AbsDiff(truth[c + 1], truth[d + 1]) : d \in mesh.adjacency[c]} : c \in CellsOf(mesh)} =
      UNION {{AbsDiff(truth[c + 1], truth[d + 1]) : d \in Beside(zone, c)} : c \in CellIds(zone)}
  BY <1>3
<1>6. QED
  BY <1>1, <1>4, <1>5 DEF Largest, zone, truth

LEMMA MaxDiffsRight ==
  ASSUME Served
  PROVE  ScalarRight("max_diffs", <<>>, MaxDiffs, client.zone, client.step, client.backend)
<1> DEFINE name == client.zone
           step == client.step
           b == client.backend
           topology == LoadTopology(files[1], Indices)
<1>0. b \in Backends /\ FilesGood /\ IsGiven(name, step)
  BY DEF Served, ClientOK, StoreInv
<1> SUFFICES ASSUME b \in {"postgresql", "vtk"} \/ ~HullName(name) PROVE MaxDiffs = {Largest(name, step)}
  BY DEF ScalarRight
<1>1. b = "postgresql" \/ ~HullName(name)
  BY <1>0 DEF Backends
<1>2. FramesOf(files, name, step) # {} /\ files # NoFiles /\ Given(name, step) = Lasting(files, name, step).values
  BY <1>0, GivenFacts
<1>3. /\ DiffKey(b, name, step) \in DOMAIN Db.diff
      /\ Db.diff[DiffKey(b, name, step)] = MaxDiff(topology[name], Given(name, step))
  BY <1>0, <1>1, <1>2 DEF Served, StoreInv, DiffsHold, Db, Telltale
<1>4. MaxDiff(topology[name], Given(name, step)) = Largest(name, step)
  BY <1>0, LargestRight
<1> HIDE DEF topology
<1>5. QED
  BY <1>3, <1>4 DEF MaxDiffs

\* The range of the values of a zone at a step.
RangeAt(b, key) ==
  LET row == ReadKey(b, key[1], key[2]) IN
  IF row \in DOMAIN store[b].scalar /\ store[b].scalar[row] # <<>>
  THEN <<Min(Range(store[b].scalar[row])), Max(Range(store[b].scalar[row]))>> ELSE <<0, 1>>

LEMMA RangeNow ==
  ASSUME client # NoClient
  PROVE  ValueRange = RangeAt(client.backend, RangeKey)
<1> DEFINE row == ReadKey(client.backend, client.zone, client.step)
<1>1. RangeKey[1] = client.zone /\ RangeKey[2] = client.step
  BY DEF RangeKey
<1>2. Rows = IF row \in DOMAIN Db.scalar THEN Db.scalar[row] ELSE <<>>
  BY DEF Rows, RowsAt
<1> HIDE DEF row
<1>3. QED
  BY <1>1, <1>2 DEF ValueRange, RangeAt, Db, row

LEMMA ValueRangeRight ==
  ASSUME Served
  PROVE  ScalarRight("value_range", <<>>, RangeAt(client.backend, RangeKey), client.zone, client.step, client.backend)
<1> DEFINE truth == Given(client.zone, client.step)
<1>1. Rows = truth /\ Len(truth) \in Nat \ {0}
  BY ServedFacts
<1> HIDE DEF truth
<1>2. ValueRange = <<Min(Range(truth)), Max(Range(truth))>>
  <2>1. truth # <<>>
    BY <1>1
  <2>2. QED
    BY <1>1, <2>1 DEF ValueRange
<1>3. QED
  BY <1>2, RangeNow DEF ScalarRight, Served, truth


-----------------------------------------------------------------------------
(* What a client remembers.                                                *)

\* The ranges it keeps are those of the values there are, the surface that of its zone unless it is
\* doubtful, the normals are of the surface, the cells of the nodes those of its mesh.
Remembered ==
  client # NoClient =>
    /\ \A key \in DOMAIN client.ranges : client.ranges[key] = RangeAt(client.backend, key)
    /\ client.surface # {} /\ ~client.doubtful => client.surface = {Surface}
    /\ client.normals # {} => client.normals = client.surface
    /\ client.csr # {} => client.csr = {NodeCells}

LEMMA KeptIs == \A x : Kept({x}) = x
  BY Zenon DEF Kept

\* Surface and nodes are those of the zone.
LEMMA SameView ==
  ASSUME store' = store, client'.backend = client.backend, client'.zone = client.zone
  PROVE  Surface' = Surface /\ NodeCells' = NodeCells
<1>1. MeshRows' = MeshRows /\ Db' = Db /\ IsPg' = IsPg /\ Cells' = Cells
  BY DEF MeshRows, Db, IsPg, Cells
<1>2. CellNormals' = CellNormals
  BY <1>1 DEF CellNormals
<1>3. Surface' = Surface
  BY <1>1, <1>2 DEF Surface, BoundaryNormals
<1>4. NodeCells' = NodeCells
  BY <1>1 DEF NodeCells
<1>5. QED
  BY <1>3, <1>4

LEMMA RememberedSet ==
  ASSUME client # NoClient, store' = store,
         NEW surface, NEW csr, NEW ranges, NEW normals, NEW aborted, NEW doubtful,
         client' = [backend |-> client.backend, zone |-> client.zone, step |-> client.step,
                    surface |-> surface, csr |-> csr, ranges |-> ranges,
                    normals |-> normals, aborted |-> aborted, doubtful |-> doubtful],
         \A key \in DOMAIN ranges : ranges[key] = RangeAt(client.backend, key),
         surface # {} /\ ~doubtful => surface = {Surface},
         normals # {} => normals = surface,
         csr # {} => csr = {NodeCells}
  PROVE  Remembered'
<1>1. /\ client'.backend = client.backend /\ client'.zone = client.zone /\ client'.ranges = ranges
      /\ client'.surface = surface /\ client'.csr = csr /\ client'.normals = normals /\ client'.doubtful = doubtful
  OBVIOUS
<1>2. Surface' = Surface /\ NodeCells' = NodeCells
  BY <1>1, SameView
<1>3. \A key : RangeAt(client.backend, key)' = RangeAt(client.backend, key)
  BY <1>1 DEF RangeAt
<1>4. QED
  BY <1>1, <1>2, <1>3 DEF Remembered

LEMMA ReadingRemembers ==
  ASSUME Reading, ClientOK, Remembered
  PROVE  Remembered'
<1> DEFINE S(surface, csr, ranges, normals, aborted, doubtful) ==
             [backend |-> client.backend, zone |-> client.zone, step |-> client.step,
              surface |-> surface, csr |-> csr, ranges |-> ranges,
              normals |-> normals, aborted |-> aborted, doubtful |-> doubtful]
<1>1. store' = store
  BY ReadingKeeps
<1>2. CASE client' = client
  <2>1. Surface' = Surface /\ NodeCells' = NodeCells
    BY <1>1, <1>2, SameView
  <2>2. \A key : RangeAt(client.backend, key)' = RangeAt(client.backend, key)
    BY <1>1, <1>2 DEF RangeAt
  <2>3. QED
    BY <1>2, <2>1, <2>2 DEF Remembered
<1>3. CASE client' # client
  <2>1. client # NoClient
    BY <1>3 DEF Reading, ReadPoints, ReadAggregate, ReadSubmesh, ReadGradients, ReadRange, ReadElements, ReadValueRange,
       ReadSurface, PrepareForce, ReadForce, ReadExtrema, ReadMaxDiffs, ReadStatistics, ReadZones, StatementFails, Reads, Ready, Readable
  <2>2. client = S(client.surface, client.csr, client.ranges, client.normals, client.aborted, client.doubtful)
    BY <2>1 DEF ClientOK, ClientShape
  <2>3. /\ \A key \in DOMAIN client.ranges : client.ranges[key] = RangeAt(client.backend, key)
        /\ client.surface # {} /\ ~client.doubtful => client.surface = {Surface}
        /\ client.normals # {} => client.normals = client.surface
        /\ client.csr # {} => client.csr = {NodeCells}
        /\ client.doubtful => client.surface # {}
    BY <2>1 DEF Remembered, ClientOK
  <2>4. CASE StatementFails("any")
    <3>1. PICK aborted : aborted = Aborts
      OBVIOUS
    <3>2. client' = S(client.surface, client.csr, client.ranges, client.normals, aborted, client.doubtful)
      BY <2>2, <2>4, <3>1 DEF StatementFails
    <3>3. QED
      BY <1>1, <2>1, <2>3, <3>2, RememberedSet
  <2>5. CASE ReadValueRange
    <3>1. client' = [client EXCEPT !.ranges = RangesThen]
      BY <1>3, <2>5 DEF ReadValueRange, Reads
    <3>2. \A key \in DOMAIN RangesThen : RangesThen[key] = RangeAt(client.backend, key)
      BY <2>1, <2>3, RangeNow DEF RangesThen
    <3>3. PICK ranges : ranges = RangesThen
      OBVIOUS
    <3>4. client' = S(client.surface, client.csr, ranges, client.normals, client.aborted, client.doubtful)
      BY <2>2, <3>1, <3>3
    <3>5. QED
      BY <1>1, <2>1, <2>3, <3>2, <3>3, <3>4, RememberedSet
  <2>6. CASE ReadSurface
    <3>1. client.surface = {}
      BY <1>3, <2>6 DEF ReadSurface
    <3>2. client.normals = {} /\ ~client.doubtful
      BY <2>3, <3>1
    <3>3. \/ client' = [client EXCEPT !.surface = {Surface}]
          \/ client' = [client EXCEPT !.surface = {CellNormals}, !.doubtful = TRUE]
      BY <1>3, <2>6 DEF ReadSurface
    <3>4. CASE client' = [client EXCEPT !.surface = {Surface}]
      <4>1. PICK surface : surface = {Surface}
        OBVIOUS
      <4>2. client' = S(surface, client.csr, client.ranges, client.normals, client.aborted, client.doubtful)
        BY <2>2, <3>4, <4>1
      <4>3. QED
        BY <1>1, <2>1, <2>3, <3>2, <4>1, <4>2, RememberedSet
    <3>5. CASE client' = [client EXCEPT !.surface = {CellNormals}, !.doubtful = TRUE]
      <4>1. PICK surface, doubtful : surface = {CellNormals} /\ doubtful = TRUE
        OBVIOUS
      <4>2. client' = S(surface, client.csr, client.ranges, client.normals, client.aborted, doubtful)
        BY <2>2, <3>5, <4>1
      <4>3. QED
        BY <1>1, <2>1, <2>3, <3>2, <4>1, <4>2, RememberedSet
    <3>6. QED
      BY <3>3, <3>4, <3>5
  <2>7. CASE PrepareForce
    <3>1. \/ client' = S(client.surface, client.csr, client.ranges, client.surface, client.aborted, client.doubtful)
          \/ client' = S(client.surface, client.csr, client.ranges, {}, FALSE, client.doubtful)
      BY <2>2, <2>7 DEF PrepareForce
    <3>2. QED
      BY <1>1, <2>1, <2>3, <3>1, RememberedSet
  <2>8. CASE \E point \in Points : ReadExtrema(point)
    <3>1. client' = [client EXCEPT !.csr = {IF client.csr # {} THEN Kept(client.csr) ELSE NodeCells}]
      BY <2>8 DEF ReadExtrema
    <3>2. (IF client.csr # {} THEN Kept(client.csr) ELSE NodeCells) = NodeCells
      BY <2>3, KeptIs
    <3>3. PICK csr : csr = {NodeCells}
      OBVIOUS
    <3>4. client' = S(client.surface, csr, client.ranges, client.normals, client.aborted, client.doubtful)
      BY <2>2, <3>1, <3>2, <3>3
    <3>5. QED
      BY <1>1, <2>1, <2>3, <3>3, <3>4, RememberedSet
  <2>9. QED
    BY <1>3, <2>4, <2>5, <2>6, <2>7, <2>8
    DEF Reading, ReadPoints, ReadAggregate, ReadSubmesh, ReadGradients, ReadRange, ReadElements,
        ReadForce, ReadMaxDiffs, ReadStatistics, ReadZones, Reads
<1>4. QED
  BY <1>2, <1>3

LEMMA UsingRemembers ==
  ASSUME Using, ClientOK, Remembered
  PROVE  Remembered'
<1>1. CASE Reading
  BY <1>1, ReadingRemembers
<1>2. ASSUME NEW b \in Backends, NEW zone, NEW step, Open(b, zone, step) PROVE Remembered'
  <2>1. client' = FreshClient(b, zone, step)
    BY <1>2 DEF Open
  <2>2. client'.ranges = <<>> /\ client'.surface = {} /\ client'.normals = {} /\ client'.csr = {}
    BY <2>1 DEF FreshClient
  <2>3. DOMAIN client'.ranges = {}
    BY <2>2
  <2>4. QED
    BY <2>2, <2>3 DEF Remembered
<1>3. ASSUME NEW zone, NEW step, Connect(zone, step) PROVE Remembered'
  <2>1. client # NoClient /\ store' = store /\ client' = Reconnected(zone, step)
    BY <1>3 DEF Connect
  <2>2. PICK ranges : /\ ranges = (IF client.backend = "postgresql" THEN <<>> ELSE client.ranges)
                      /\ client' = [FreshClient(client.backend, zone, step) EXCEPT !.ranges = ranges]
    BY <2>1 DEF Reconnected, FreshClient
  <2>3. /\ client'.ranges = ranges /\ client'.backend = client.backend
        /\ client'.surface = {} /\ client'.normals = {} /\ client'.csr = {}
    BY <2>2 DEF FreshClient
  <2>4. \A key : RangeAt(client.backend, key)' = RangeAt(client.backend, key)
    BY <2>1, <2>3 DEF RangeAt
  <2>5. \A key \in DOMAIN ranges : ranges[key] = RangeAt(client.backend, key)
    BY <2>1, <2>2 DEF Remembered
  <2>6. QED
    BY <2>3, <2>4, <2>5 DEF Remembered
<1>4. CASE Close
  BY <1>4 DEF Close, Remembered
<1>5. QED
  BY <1>1, <1>2, <1>3, <1>4 DEF Using


-----------------------------------------------------------------------------
(* What the VTK client reads.                                              *)

Attached == FilesGood /\ DiskGood /\ VtkGood /\ vtk # NoClient

LEMMA GridTells ==
  ASSUME Attached, NEW step, HasFrame(vtk.zone, step)
  PROVE  LET zone == GivenZone(vtk.zone)
             truth == Given(vtk.zone, step)
         IN /\ IsGiven(vtk.zone, step) /\ GridAt(step).values = truth
            /\ CellIds(zone) = 0..Len(truth) - 1 /\ Len(truth) \in Nat \ {0} /\ truth \in Seq(Int)
            /\ GridCells = CellIds(zone)
<1> DEFINE zone == GivenZone(vtk.zone)
           truth == Given(vtk.zone, step)
<1>1. /\ files # NoFiles /\ vtk.zone \in Names(files[1], Indices) /\ FramesOf(files, vtk.zone, step) # {}
      /\ GridAt(step) = Grid(Payload(zone), Lasting(files, vtk.zone, step).values)
  BY GridFacts DEF Attached
<1>2. IsGiven(vtk.zone, step)
  BY <1>1 DEF IsGiven, FramesOf, FilesOf
<1>3. /\ truth = Lasting(files, vtk.zone, step).values /\ truth \in Seq(Int) /\ Len(truth) = zone.cells
      /\ zone.cells \in Nat \ {0}
  BY <1>2, GivenFacts DEF Attached
<1>4. GridCells = CellIds(zone)
  BY HereFacts DEF Attached
<1>5. GridAt(step).values = truth
  BY <1>1, <1>3 DEF Grid
<1>6. CellIds(zone) = 0..Len(truth) - 1
  BY <1>3 DEF CellIds
<1> HIDE DEF zone, truth
<1>7. Len(truth) \in Nat \ {0}
  BY <1>3
<1>8. QED
  BY <1>2, <1>3, <1>4, <1>5, <1>6, <1>7 DEF zone, truth

LEMMA PickedAll ==
  ASSUME Attached, NEW step, HasFrame(vtk.zone, step), NEW ids, \A i \in DOMAIN ids : ids[i] \in GridCells
  PROVE  Picked(ids, step) = [i \in DOMAIN ids |-> Given(vtk.zone, step)[ids[i] + 1]]
<1> DEFINE truth == Given(vtk.zone, step)
<1>1. GridAt(step).values = truth /\ GridCells = 0..Len(truth) - 1 /\ Len(truth) \in Nat /\ truth \in Seq(Int)
  BY GridTells
<1> HIDE DEF truth
<1>2. \A i \in DOMAIN ids : ids[i] + 1 \in DOMAIN truth
  BY <1>1
<1>3. {i \in DOMAIN ids : ids[i] + 1 \in DOMAIN GridAt(step).values} = DOMAIN ids
  BY <1>1, <1>2
<1>4. QED
  BY <1>1, <1>3 DEF Picked, truth

LEMMA PickedRight ==
  ASSUME Attached, NEW step, HasFrame(vtk.zone, step), NEW ids \in Seq(Nat), ToSet(ids) \subseteq GridCells
  PROVE  ScalarRight("points", ids, Picked(ids, step), vtk.zone, step, "vtk")
<1>1. \A i \in DOMAIN ids : ids[i] \in GridCells
  BY ListIn
<1>2. QED
  BY <1>1, PickedAll DEF ScalarRight

LEMMA FoundRight ==
  ASSUME Attached, NEW step, HasFrame(vtk.zone, step), NEW lo \in Int, NEW hi \in Int
  PROVE  LET values == GridAt(step).values IN
         ScalarRight("range", <<lo, hi>>,
                     {i - 1 : i \in {k \in DOMAIN values : Min({lo, hi}) <= values[k] /\ values[k] <= Max({lo, hi})}},
                     vtk.zone, step, "vtk")
<1> DEFINE truth == Given(vtk.zone, step)
<1>1. GridAt(step).values = truth /\ Len(truth) \in Nat /\ truth \in Seq(Int)
  BY GridTells
<1> HIDE DEF truth
<1>2. ASSUME lo <= hi
      PROVE  {i - 1 : i \in {k \in DOMAIN truth : Min({lo, hi}) <= truth[k] /\ truth[k] <= Max({lo, hi})}} =
             {c \in 0..Len(truth) - 1 : truth[c + 1] \in lo..hi}
  <2>1. Min({lo, hi}) = lo /\ Max({lo, hi}) = hi
    BY <1>2, SmallestIs, LargestIs
  <2>2. DOMAIN truth = 1..Len(truth) /\ \A k \in 1..Len(truth) : truth[k] \in Int
    BY <1>1
  <2>3. \A k \in 1..Len(truth) : truth[k] \in lo..hi <=> lo <= truth[k] /\ truth[k] <= hi
    BY <2>2
  <2> DEFINE in == {k \in 1..Len(truth) : truth[k] \in lo..hi}
  <2>4. {k \in DOMAIN truth : Min({lo, hi}) <= truth[k] /\ truth[k] <= Max({lo, hi})} = in
    BY <2>1, <2>2, <2>3
  <2>5. \A k \in 1..Len(truth) : k - 1 \in 0..Len(truth) - 1 /\ (k - 1) + 1 = k
    BY <1>1
  <2>6. \A c \in 0..Len(truth) - 1 : c + 1 \in 1..Len(truth) /\ (c + 1) - 1 = c
    BY <1>1
  <2>7. {i - 1 : i \in in} = {c \in 0..Len(truth) - 1 : truth[c + 1] \in lo..hi}
    <3>1. ASSUME NEW k \in in PROVE k - 1 \in {c \in 0..Len(truth) - 1 : truth[c + 1] \in lo..hi}
      BY <2>5
    <3>2. ASSUME NEW c \in 0..Len(truth) - 1, truth[c + 1] \in lo..hi PROVE c + 1 \in in /\ c = (c + 1) - 1
      BY <2>6, <3>2
    <3> HIDE DEF in
    <3>3. QED
      BY <3>1, <3>2
  <2>8. QED
    BY <2>4, <2>7
<1>3. QED
  BY <1>1, <1>2 DEF ScalarRight, truth

LEMMA GridRight ==
  ASSUME Attached, NEW step, HasFrame(vtk.zone, step)
  PROVE  LET values == GridAt(step).values IN
         /\ ScalarRight("value_range", <<>>, <<Min(Range(values)), Max(Range(values))>>, vtk.zone, step, "vtk")
         /\ ScalarRight("statistics", <<>>, Summary([c \in 0..Len(values) - 1 |-> values[c + 1]]), vtk.zone, step, "vtk")
<1>1. GridAt(step).values = Given(vtk.zone, step)
  BY GridTells
<1>2. QED
  BY <1>1 DEF ScalarRight, Values

LEMMA ListedRight ==
  ASSUME Attached, NEW step, HasFrame(vtk.zone, step)
  PROVE  ScalarRight("max_diffs", <<>>, {vtk.manifest.zones[vtk.zone].diffs[step]}, vtk.zone, step, "vtk")
<1> DEFINE topology == LoadTopology(files[1], Indices)
           name == vtk.zone
<1>1. /\ vtk.manifest = Manifest(files, topology) /\ name \in Names(files[1], Indices)
      /\ FramesOf(files, name, step) # {}
  BY GridFacts DEF Attached
<1>2. IsGiven(name, step) /\ FilesGood
  BY GridTells DEF Attached
<1>3. Given(name, step) = Lasting(files, name, step).values
  BY <1>2, GivenFacts
<1>4. MaxDiff(topology[name], Given(name, step)) = Largest(name, step)
  BY <1>2, LargestRight
<1>5. DOMAIN topology = Names(files[1], Indices)
  BY LoadedNames
<1> HIDE DEF topology, name
<1>6. vtk.manifest.zones[name].diffs = Diffs(files, topology, name)
  BY <1>1, <1>5 DEF Manifest
<1> DEFINE with == {i \in DOMAIN files : name \in Names(files[i], Indices)}
<1>7. {i \in with : files[i].step = step} = FramesOf(files, name, step)
  BY DEF FramesOf
<1>8. step \in {files[i].step : i \in with}
  BY <1>1, <1>7
<1>9. Diffs(files, topology, name)[step] =
        MaxDiff(topology[name], LastNamed(files[Max({i \in with : files[i].step = step})], Indices, name).values)
  BY <1>8 DEF Diffs
<1> HIDE DEF with
<1>10. Diffs(files, topology, name)[step] = MaxDiff(topology[name], Given(name, step))
  BY <1>3, <1>7, <1>9 DEF Lasting
<1>11. QED
  BY <1>4, <1>6, <1>10 DEF ScalarRight, name

-----------------------------------------------------------------------------
(* Scalars.                                                                *)

LEMMA ReplyIs ==
  ASSUME NEW op, NEW arg, NEW value
  PROVE  /\ Replies(op, arg, value) => /\ files' = files
                                       /\ answer' = Reply(op, arg, value, client.zone, client.step, client.backend, FALSE)
         /\ Doubts(op, arg, value) => /\ files' = files
                                      /\ answer' = Reply(op, arg, value, client.zone, client.step, client.backend, TRUE)
  BY DEF Replies, Doubts, Reply

ScalarOps == {"points", "aggregate", "range", "value_range", "statistics", "max_diffs"}

LEMMA NoScalarTold ==
  ASSUME answer' = NoAnswer \/ answer'.op \notin ScalarOps \/ answer'.doubtful
  PROVE  ScalarsAreTheFiles'
  BY DEF ScalarsAreTheFiles, Claimed, NoAnswer, ScalarOps

LEMMA ScalarReplies ==
  ASSUME StoreInv, ClientOK, Telltale, client # NoClient, NEW op, NEW arg, NEW value, Replies(op, arg, value),
         Served => ScalarRight(op, arg, value, client.zone, client.step, client.backend)
  PROVE  ScalarsAreTheFiles'
<1>1. files' = files /\ answer' = Reply(op, arg, value, client.zone, client.step, client.backend, FALSE)
  BY ReplyIs
<1>2. IsGiven(client.zone, client.step) => ScalarRight(op, arg, value, client.zone, client.step, client.backend)
  BY DEF Served
<1>3. QED
  BY <1>1, <1>2, ScalarTold

LEMMA ReadingScalars ==
  ASSUME Reading, StoreInv, ClientOK, Remembered, Telltale
  PROVE  ScalarsAreTheFiles'
<1>1. ASSUME NEW ids \in PointLists, ReadPoints(ids) PROVE ScalarsAreTheFiles'
  <2>1. client # NoClient /\ ToSet(ids) \subseteq Cells /\ Replies("points", ids, PointQuery(ids)) /\ ids \in Seq(Nat)
    BY <1>1, FilesAssumption DEF ReadPoints, Readable, Ready, Reads
  <2>2. QED
    BY <2>1, PointsRight, ScalarReplies
<1>2. ASSUME NEW ids, ReadAggregate(ids) PROVE ScalarsAreTheFiles'
  <2>1. client # NoClient /\ ids \subseteq Cells /\ \E failing : Replies("aggregate", ids, Aggregate(ids, failing))
    BY <1>2 DEF ReadAggregate, Readable, Ready, Reads
  <2>2. QED
    BY <2>1, AggregateRight, ScalarReplies
<1>3. ASSUME NEW lo \in Thresholds, NEW hi \in Thresholds, ReadRange(lo, hi) PROVE ScalarsAreTheFiles'
  <2>1. client # NoClient /\ Replies("range", <<lo, hi>>, RangeIds(lo, hi)) /\ lo \in Int /\ hi \in Int
    BY <1>3, FilesAssumption DEF ReadRange, Readable, Ready, Reads
  <2>2. QED
    BY <2>1, RangeRight, ScalarReplies
<1>4. CASE ReadValueRange
  <2>1. client # NoClient
    BY <1>4 DEF ReadValueRange, Readable, Ready
  <2>2. Replies("value_range", <<>>, RangeAt(client.backend, RangeKey))
    BY <1>4, <2>1, RangeNow DEF ReadValueRange, Reads, Remembered
  <2>3. QED
    BY <2>1, <2>2, ValueRangeRight, ScalarReplies
<1>5. CASE ReadStatistics
  <2>1. client # NoClient /\ Replies("statistics", <<>>, Summary([c \in RowIds(client.step) |-> Rows[c + 1]]))
    BY <1>5 DEF ReadStatistics, Readable, Ready, Reads
  <2>2. QED
    BY <2>1, StatisticsRight, ScalarReplies
<1>6. CASE ReadMaxDiffs
  <2>1. client # NoClient /\ (Replies("max_diffs", <<>>, MaxDiffs) \/ Doubts("max_diffs", <<>>, {}))
    BY <1>6 DEF ReadMaxDiffs, Ready
  <2>2. CASE Doubts("max_diffs", <<>>, {})
    BY <2>2, NoScalarTold DEF Doubts
  <2>3. QED
    BY <2>1, <2>2, MaxDiffsRight, ScalarReplies
<1>7. ASSUME NEW lo, NEW hi, ReadElements(lo, hi) PROVE ScalarsAreTheFiles'
  BY <1>7, RepliesFacts, NoScalarTold DEF ReadElements, Reads, ScalarOps
<1>8. ASSUME NEW ids, ReadSubmesh(ids) \/ ReadGradients(ids) PROVE ScalarsAreTheFiles'
  BY <1>8, RepliesFacts, NoScalarTold DEF ReadSubmesh, ReadGradients, Reads, ScalarOps
<1>9. ASSUME NEW point, ReadExtrema(point) PROVE ScalarsAreTheFiles'
  BY <1>9, RepliesFacts, NoScalarTold DEF ReadExtrema, ScalarOps
<1>10. CASE ReadSurface \/ ReadForce \/ ReadZones \/ StatementFails("any")
  BY <1>10, RepliesFacts, NoScalarTold DEF ReadSurface, ReadForce, ReadZones, StatementFails, Reads, ScalarOps
<1>11. CASE PrepareForce
  BY <1>11, NoScalarTold DEF PrepareForce
<1>12. QED
  BY <1>1, <1>2, <1>3, <1>4, <1>5, <1>6, <1>7, <1>8, <1>9, <1>10, <1>11 DEF Reading

LEMMA VtkScalar ==
  ASSUME NEW op, NEW arg, NEW step, NEW value, Says(op, arg, step, value),
         ScalarRight(op, arg, value, vtk.zone, step, "vtk")
  PROVE  ScalarsAreTheFiles'
<1>1. files' = files /\ answer' = Reply(op, arg, value, vtk.zone, step, "vtk", FALSE)
  BY DEF Says, Reply
<1>2. QED
  BY <1>1, ScalarTold

LEMMA TellsOp ==
  ASSUME NEW op, NEW arg, NEW step, NEW value
  PROVE  Says(op, arg, step, value) => answer'.op = op
  BY DEF Says

LEMMA TellingScalars ==
  ASSUME Telling, Attached
  PROVE  ScalarsAreTheFiles'
<1>1. \A step \in StepsListed : HasFrame(vtk.zone, step)
  BY DEF Attached, VtkGood, StepsListed, HasFrame
<1>2. ASSUME NEW step \in StepsListed, NEW ids \in PointLists, ToSet(ids) \subseteq GridCells, TellPoints(ids, step)
      PROVE  ScalarsAreTheFiles'
  <2>1. ids \in Seq(Nat) /\ Says("points", ids, step, Picked(ids, step))
    BY <1>2, FilesAssumption DEF TellPoints, Tells
  <2>2. QED
    BY <1>1, <1>2, <2>1, PickedRight, VtkScalar
<1>3. ASSUME NEW step \in StepsListed, NEW lo \in Thresholds, NEW hi \in Thresholds, TellRange(lo, hi, step)
      PROVE  ScalarsAreTheFiles'
  <2> DEFINE values == GridAt(step).values
             found == {i - 1 : i \in {k \in DOMAIN values : Min({lo, hi}) <= values[k] /\ values[k] <= Max({lo, hi})}}
  <2>1. lo \in Int /\ hi \in Int /\ Says("range", <<lo, hi>>, step, found)
    BY <1>3, FilesAssumption, Zenon DEF TellRange, Tells
  <2>2. ScalarRight("range", <<lo, hi>>, found, vtk.zone, step, "vtk")
    BY <1>1, <2>1, FoundRight
  <2> HIDE DEF found
  <2>3. QED
    BY <2>1, <2>2, VtkScalar
<1>4. ASSUME NEW step \in StepsListed, TellValueRange(step) \/ TellStatistics(step) PROVE ScalarsAreTheFiles'
  <2> DEFINE values == GridAt(step).values
             ends == <<Min(Range(values)), Max(Range(values))>>
             all == Summary([c \in 0..Len(values) - 1 |-> values[c + 1]])
  <2>1. Says("value_range", <<>>, step, ends) \/ Says("statistics", <<>>, step, all)
    BY <1>4, Zenon DEF TellValueRange, TellStatistics, Tells
  <2>2. /\ ScalarRight("value_range", <<>>, ends, vtk.zone, step, "vtk")
        /\ ScalarRight("statistics", <<>>, all, vtk.zone, step, "vtk")
    BY <1>1, GridRight
  <2> HIDE DEF ends, all
  <2>3. QED
    BY <2>1, <2>2, VtkScalar
<1>5. ASSUME NEW step \in StepsListed, TellMaxDiffs(step) PROVE ScalarsAreTheFiles'
  BY <1>1, <1>5, ListedRight, VtkScalar DEF TellMaxDiffs, Tells
<1>6. CASE (\E lo, hi \in Thresholds : TellElements(lo, hi) \/ TellWithin(lo, hi)) \/ TellZones \/ TellSurface
           \/ (\E ids \in PointLists : TellSubmesh(ToSet(ids)))
  <2>1. answer'.op \in {"boxed", "within", "zones", "cells", "submesh"}
    <3>1. ASSUME NEW lo, NEW hi, TellElements(lo, hi) PROVE answer'.op = "boxed"
      BY <3>1, TellsOp DEF TellElements, Tells
    <3>2. ASSUME NEW lo, NEW hi, TellWithin(lo, hi) PROVE answer'.op = "within"
      BY <3>2, TellsOp DEF TellWithin, Tells
    <3>3. ASSUME NEW ids, TellSubmesh(ids) PROVE answer'.op = "submesh"
      BY <3>3, TellsOp DEF TellSubmesh, Tells
    <3>4. ASSUME TellZones \/ TellSurface PROVE answer'.op \in {"zones", "cells"}
      BY <3>4, TellsOp DEF TellZones, TellSurface, Tells
    <3>5. QED
      BY <1>6, <3>1, <3>2, <3>3, <3>4
  <2>2. QED
    BY <2>1, NoScalarTold DEF ScalarOps
<1>7. CASE \E point \in Points : TellExtrema(point)
  <2>1. answer'.op \in {"extrema", "any"}
    BY <1>7, TellsOp DEF TellExtrema
  <2>2. QED
    BY <2>1, NoScalarTold DEF ScalarOps
<1>8. QED
  BY <1>2, <1>3, <1>4, <1>5, <1>6, <1>7 DEF Telling


-----------------------------------------------------------------------------
(* Every step of every client.                                             *)

\* The cells of the points of a zone, by the place of the point.
CellsOfPoints(name) ==
  LET zone == GivenZone(name) IN
  [n \in 0..Len(zone.nodes) - 1 |-> {c \in CellIds(zone) : n + 1 \in PointsAt(zone, c)}]

LEMMA PlacesOfPoints ==
  ASSUME NEW zone, IsZone(zone), Decodes(zone), NEW c \in CellIds(zone)
  PROVE  /\ \A p \in PointsAt(zone, c) : p \in DOMAIN zone.nodes /\ p \in Nat /\ zone.nodes[p] \in Int
         /\ \A n \in Int : n \in {p - 1 : p \in PointsAt(zone, c)} <=> n + 1 \in PointsAt(zone, c)
<1>1. \A p \in PointsAt(zone, c) : p \in DOMAIN zone.nodes /\ p \in Nat /\ zone.nodes[p] \in Int
  <2> SUFFICES ASSUME NEW i \in FacesAt(zone, c), NEW p \in Range(zone.faces[i].nodes)
               PROVE  p \in DOMAIN zone.nodes /\ p \in Nat /\ zone.nodes[p] \in Int
    BY DEF PointsAt
  <2>1. i \in DOMAIN zone.faces /\ ToSet(zone.faces[i].nodes) = Range(zone.faces[i].nodes)
    BY DEF FacesAt, ToSet, Range
  <2>2. p \in DOMAIN zone.nodes
    BY <2>1 DEF Decodes
  <2>3. zone.nodes \in Seq(Int)
    BY DEF IsZone
  <2>4. QED
    BY <2>2, <2>3
<1>2. \A p \in PointsAt(zone, c) : p \in Int
  BY <1>1
<1> DEFINE P == PointsAt(zone, c)
<1> HIDE DEF P
<1>3. \A n \in Int : n \in {p - 1 : p \in P} <=> n + 1 \in P
  BY <1>2 DEF P
<1>4. QED
  BY <1>1, <1>3 DEF P

LEMMA CellsOfNodesAre ==
  ASSUME Attached
  PROVE  CellsOfNodes = CellsOfPoints(vtk.zone)
<1> DEFINE zone == GivenZone(vtk.zone)
<1>1. IsZone(zone) /\ Decodes(zone)
  BY GridFacts DEF Attached, VtkGood
<1>2. /\ Here.points = zone.nodes /\ GridCells = CellIds(zone)
      /\ \A c \in CellIds(zone) : Here.nodes[c] = {p - 1 : p \in PointsAt(zone, c)}
  BY HereFacts DEF Attached
<1>3. Len(zone.nodes) \in Nat
  BY <1>1 DEF IsZone
<1> HIDE DEF zone
<1>4. \A n \in 0..Len(zone.nodes) - 1, c \in CellIds(zone) : n \in Here.nodes[c] <=> n + 1 \in PointsAt(zone, c)
  BY <1>1, <1>2, <1>3, PlacesOfPoints
<1>5. QED
  BY <1>2, <1>4 DEF CellsOfNodes, CellsOfPoints, zone

\* Unless it is moved to another zone.
VtkRemembers ==
  vtk # NoClient /\ ~ChangeZones /\ vtk.csr # {} => vtk.csr = {CellsOfPoints(vtk.zone)}

MInv == IInv /\ Remembered /\ VtkRemembers

LEMMA RememberedStays ==
  ASSUME Remembered, store' = store, client' = client
  PROVE  Remembered'
<1>1. client # NoClient => Surface' = Surface /\ NodeCells' = NodeCells
  BY SameView
<1>2. \A b, key : RangeAt(b, key)' = RangeAt(b, key)
  BY DEF RangeAt
<1>3. QED
  BY <1>1, <1>2 DEF Remembered

LEMMA VtkRemembersStays ==
  ASSUME VtkRemembers, files' = files, vtk # NoClient, ~ChangeZones => vtk'.zone = vtk.zone, vtk'.csr = vtk.csr
  PROVE  VtkRemembers'
  BY DEF VtkRemembers, CellsOfPoints, GivenZone

LEMMA TellingRemembers ==
  ASSUME Telling, IInv, VtkRemembers
  PROVE  VtkRemembers'
<1>1. vtk # NoClient /\ files' = files
  BY TellingFacts
<1>2. Attached
  BY <1>1 DEF Attached, IInv, StoreInv
<1>3. CASE vtk' = vtk
  BY <1>1, <1>3, VtkRemembersStays
<1>4. CASE \E point \in Points : TellExtrema(point)
  <2>1. vtk' = [vtk EXCEPT !.csr = {IF vtk.csr # {} THEN Kept(vtk.csr) ELSE CellsOfNodes}]
    BY <1>4, Zenon DEF TellExtrema
  <2>2. PICK kept : kept = IF vtk.csr # {} THEN Kept(vtk.csr) ELSE CellsOfNodes
    OBVIOUS
  <2>3. ~ChangeZones => kept = CellsOfPoints(vtk.zone)
    BY <1>1, <1>2, <2>2, CellsOfNodesAre, KeptIs DEF VtkRemembers
  <2>4. vtk'.zone = vtk.zone /\ vtk'.csr = {kept}
    BY <1>1, <2>1, <2>2 DEF IInv, VtkGood
  <2>5. CellsOfPoints(vtk.zone)' = CellsOfPoints(vtk.zone)
    BY <1>1, <2>4 DEF CellsOfPoints, GivenZone
  <2>6. QED
    BY <2>3, <2>4, <2>5 DEF VtkRemembers
<1>5. QED
  BY <1>3, <1>4, Zenon
  DEF Telling, Tells, TellPoints, TellRange, TellValueRange, TellStatistics, TellMaxDiffs, TellZones,
      TellElements, TellWithin, TellSubmesh, TellSurface

LEMMA Remembers == SpecAll => []MInv
<1>1. InitAll => Remembered /\ VtkRemembers
  BY DEF InitAll, Init, Remembered, VtkRemembers
<1>2. IInv /\ Remembered /\ VtkRemembers /\ [NextAll]_every => Remembered' /\ VtkRemembers'
  <2> SUFFICES ASSUME IInv, Remembered, VtkRemembers, [NextAll]_every PROVE Remembered' /\ VtkRemembers'
    OBVIOUS
  <2>1. ASSUME NEW input \in FileSets, IngestAll(input) PROVE Remembered' /\ VtkRemembers'
    BY <2>1 DEF IngestAll, IngestFiles, Remembered, VtkRemembers
  <2>2. CASE vtk = NoClient /\ Using /\ UNCHANGED <<disk, vtk>>
    BY <2>2, UsingRemembers DEF IInv, VtkRemembers
  <2>3. ASSUME NEW zone, NEW step, OpenVtk(zone, step) PROVE Remembered' /\ VtkRemembers'
    <3>1. Attach(zone, step, {})
      BY <2>3 DEF OpenVtk
    <3>2. store' = store /\ client' = client /\ vtk'.csr = {}
      BY <3>1 DEF Attach
    <3>3. QED
      BY <3>2, RememberedStays DEF VtkRemembers
  <2>4. ASSUME NEW zone, NEW step, ConnectVtk(zone, step) PROVE Remembered' /\ VtkRemembers'
    <3>1. vtk # NoClient /\ Attach(zone, step, vtk.csr) /\ (ChangeZones \/ Chosen(zone) = {vtk.zone})
      BY <2>4 DEF ConnectVtk
    <3>2. /\ store' = store /\ client' = client /\ files' = files /\ vtk'.csr = vtk.csr
          /\ vtk'.zone \in Chosen(zone)
      BY <3>1 DEF Attach
    <3>3. QED
      BY <3>1, <3>2, RememberedStays, VtkRemembersStays
  <2>5. CASE CloseVtk
    BY <2>5, RememberedStays DEF CloseVtk, VtkRemembers
  <2>6. CASE Telling
    BY <2>6, TellingFacts, TellingRemembers, RememberedStays
  <2>7. CASE UNCHANGED every
    <3>1. store' = store /\ client' = client /\ files' = files /\ vtk' = vtk
      BY <2>7 DEF every, vars
    <3>2. QED
      BY <3>1, RememberedStays, VtkRemembersStays DEF VtkRemembers
  <2>8. QED
    BY <2>1, <2>2, <2>3, <2>4, <2>5, <2>6, <2>7 DEF NextAll
<1>3. QED
  BY <1>1, <1>2, StoredInvariant, PTL DEF SpecAll, MInv

\* What a step answers.
LEMMA Answered ==
  ASSUME [NextAll]_every
  PROVE  \/ answer' = NoAnswer \/ Reading \/ Telling
         \/ UNCHANGED <<files, answer>>
<1>1. ASSUME NEW input, IngestAll(input) PROVE answer' = NoAnswer
  BY <1>1 DEF IngestAll, IngestFiles
<1>2. ASSUME Using PROVE answer' = NoAnswer \/ Reading
  BY <1>2 DEF Using, Open, Connect, Close
<1>3. ASSUME NEW zone, NEW step, OpenVtk(zone, step) \/ ConnectVtk(zone, step) PROVE answer' = NoAnswer
  BY <1>3 DEF OpenVtk, ConnectVtk, Attach
<1>4. ASSUME CloseVtk PROVE answer' = NoAnswer
  BY <1>4 DEF CloseVtk
<1>5. ASSUME UNCHANGED every PROVE UNCHANGED <<files, answer>>
  BY <1>5 DEF every, vars
<1>6. QED
  BY <1>1, <1>2, <1>3, <1>4, <1>5 DEF NextAll

LEMMA SameAnswer ==
  ASSUME UNCHANGED <<files, answer>>
  PROVE  /\ \A op : Claimed(op)' <=> Claimed(op)
         /\ Truth' = Truth /\ Asked' = Asked /\ (Ordered' <=> Ordered)
         /\ GivenZone(answer.zone)' = GivenZone(answer.zone)
         /\ \A s : Given(answer.zone, s)' = Given(answer.zone, s)
  BY DEF Claimed, IsGiven, FilesOf, Given, GivenZone, Truth, Asked, Ordered

LEMMA CanTell ==
  ASSUME \A input \in FileSets : LeavesTell(input), MInv
  PROVE  Telltale
  BY DEF MInv, IInv, StoreInv, FilesGood, Telltale

\* Whatever was ingested before and asked in between, through whatever planner, cache and chunks, and
\* of whichever backend: if the names of zones tell their series apart, the scalars answered are
\* those of the cells asked for in the files of the last ingest (fetch_cell_scalar_values,
\* aggregate_cell_scalar_selection, fetch_var_value_range, cfd_frame_statistics, get_max_diffs).
THEOREM ScalarsFaithful ==
  ASSUME \A input \in FileSets : LeavesTell(input)
  PROVE  SpecAll => []ScalarsAreTheFiles
<1>1. InitAll => ScalarsAreTheFiles
  BY DEF InitAll, Init, ScalarsAreTheFiles, Claimed, NoAnswer
<1>2. MInv /\ ScalarsAreTheFiles /\ [NextAll]_every => ScalarsAreTheFiles'
  <2> SUFFICES ASSUME MInv, ScalarsAreTheFiles, [NextAll]_every PROVE ScalarsAreTheFiles'
    OBVIOUS
  <2>1. CASE answer' = NoAnswer
    BY <2>1, NoScalarTold
  <2>2. CASE Reading
    BY <2>2, CanTell, ReadingScalars DEF MInv, IInv
  <2>3. CASE Telling
    <3>1. Attached
      BY <2>3, TellingFacts DEF MInv, IInv, StoreInv, Attached
    <3>2. QED
      BY <2>3, <3>1, TellingScalars
  <2>4. CASE UNCHANGED <<files, answer>>
    <3>1. answer' = answer /\ files' = files
      BY <2>4
    <3>2. QED
      BY <3>1, SameAnswer DEF ScalarsAreTheFiles, GivenZone, Of
  <2>5. QED
    BY <2>1, <2>2, <2>3, <2>4, Answered
<1>3. QED
  BY <1>1, <1>2, Remembers, PTL DEF SpecAll


-----------------------------------------------------------------------------
(* The mesh.                                                               *)

Between(zone, lo, hi) ==
  {c + 1 : c \in {d \in CellIds(zone) :
    LET at == Position(zone, PointsAt(zone, d)) IN lo * at.n <= at.sum /\ at.sum <= hi * at.n}}

GeometryRight(op, arg, value, name, b) ==
  LET zone == GivenZone(name) IN
  /\ op = "elements" /\ arg[1] <= arg[2] => value = Between(zone, arg[1], arg[2])
  /\ op = "submesh" => value = [c \in arg |-> {p - 1 : p \in PointsAt(zone, c)}]
  /\ op = "gradients" =>
       LET enough == IF b = "iotdb" THEN 0 ELSE MinNeighbours IN
       IF b = "tiledb"
       THEN \A c \in DOMAIN value : value[c] = Beside(zone, c) \cap arg
       ELSE value = [c \in {d \in arg : Cardinality(Beside(zone, d)) >= enough} |-> Beside(zone, c)]
  /\ op = "zones" => Names(files[1], Indices) \subseteq value

LEMMA GeometryTold ==
  ASSUME NEW op, NEW arg, NEW value, NEW name, NEW step, NEW b, NEW doubtful, files' = files,
         answer' = Reply(op, arg, value, name, step, b, doubtful),
         ~doubtful /\ IsGiven(name, step) => GeometryRight(op, arg, value, name, b)
  PROVE  GeometryIsTheFiles'
<1>1. /\ answer'.op = op /\ answer'.arg = arg /\ answer'.value = value /\ answer'.zone = name /\ answer'.step = step
      /\ answer'.backend = b /\ answer'.doubtful = doubtful
  BY DEF Reply
<1>2. Asked' = arg /\ GivenZone(answer.zone)' = GivenZone(name)
  BY <1>1 DEF Asked, GivenZone
<1>3. \A o : Claimed(o)' => o = op /\ ~doubtful /\ IsGiven(name, step)
  BY <1>1 DEF Claimed, IsGiven, FilesOf
<1>4. QED
  BY <1>1, <1>2, <1>3 DEF GeometryIsTheFiles, GeometryRight, Ordered, Between

GeometryOps == {"elements", "submesh", "gradients", "zones"}

LEMMA NoGeometryTold ==
  ASSUME answer' = NoAnswer \/ answer'.op \notin GeometryOps \/ answer'.doubtful
  PROVE  GeometryIsTheFiles'
  BY DEF GeometryIsTheFiles, Claimed, NoAnswer, GeometryOps

LEMMA ElementsRight ==
  ASSUME Served, NEW lo \in Int, NEW hi \in Int
  PROVE  GeometryRight("elements", <<lo, hi>>, Elements(lo, hi), client.zone, client.backend)
<1> DEFINE zone == GivenZone(client.zone)
<1>1. /\ Cells = CellIds(zone)
      /\ \A c \in CellIds(zone) : MeshRows.centre[c] = Position(zone, PointsAt(zone, c))
  BY ClientMesh DEF Served
<1>2. IsZone(zone) /\ Decodes(zone)
  BY GivenFacts DEF Served, StoreInv
<1> HIDE DEF zone
<1>3. ASSUME NEW c \in CellIds(zone)
      PROVE  Position(zone, PointsAt(zone, c)).sum \in Int /\ Position(zone, PointsAt(zone, c)).n \in Int
  <2> DEFINE P == PointsAt(zone, c)
             f == [p \in P |-> zone.nodes[p]]
  <2>1. P \subseteq DOMAIN zone.nodes /\ \A p \in P : zone.nodes[p] \in Int
    BY <1>2, PlacesOfPoints
  <2>2. IsFiniteSet(P)
    <3>1. DOMAIN zone.nodes = 1..Len(zone.nodes) /\ 1 \in Int /\ Len(zone.nodes) \in Int
      BY <1>2 DEF IsZone
    <3>2. IsFiniteSet(DOMAIN zone.nodes)
      BY <3>1, FS_Interval
    <3>3. QED
      BY <2>1, <3>2, FS_Subset
  <2> HIDE DEF P
  <2>3. DOMAIN f = P /\ \A p \in DOMAIN f : f[p] \in Int
    BY <2>1
  <2>4. SumFunction(f) \in Int
    <3> HIDE DEF f
    <3>1. IsFiniteSet(DOMAIN f)
      BY <2>2, <2>3
    <3>2. QED
      BY <2>3, <3>1, SumInt
  <2>5. Cardinality(P) \in Int
    BY <2>2, FS_CardinalityType
  <2>6. QED
    BY <2>4, <2>5 DEF Position, P
<1>4. Elements(lo, hi) = Between(zone, lo, hi)
  <2>1. \A d \in CellIds(zone) :
          LET at == Position(zone, PointsAt(zone, d)) IN
          (MeshRows.centre[d].sum >= lo * MeshRows.centre[d].n /\ MeshRows.centre[d].sum <= hi * MeshRows.centre[d].n)
            <=> (lo * at.n <= at.sum /\ at.sum <= hi * at.n)
    <3> SUFFICES ASSUME NEW d \in CellIds(zone)
                 PROVE  LET at == Position(zone, PointsAt(zone, d)) IN
                        (at.sum >= lo * at.n /\ at.sum <= hi * at.n) <=> (lo * at.n <= at.sum /\ at.sum <= hi * at.n)
      BY <1>1
    <3>1. PICK sum \in Int, n \in Int : Position(zone, PointsAt(zone, d)).sum = sum /\ Position(zone, PointsAt(zone, d)).n = n
      BY <1>3
    <3>2. lo * n \in Int /\ hi * n \in Int
      OBVIOUS
    <3>3. QED
      BY <3>1, <3>2
  <2>2. QED
    BY <1>1, <2>1 DEF Elements, Between
<1>5. QED
  BY <1>4 DEF GeometryRight, zone

LEMMA SubmeshRight ==
  ASSUME Served, NEW ids, ids \subseteq Cells
  PROVE  GeometryRight("submesh", ids, Submesh(ids), client.zone, client.backend)
<1> DEFINE zone == GivenZone(client.zone)
<1>1. /\ Cells = CellIds(zone)
      /\ \A c \in CellIds(zone) : MeshRows.nodes[c] = {p - 1 : p \in PointsAt(zone, c)}
  BY ClientMesh DEF Served
<1>2. ids \cap Cells = ids
  OBVIOUS
<1>3. Submesh(ids) = [c \in ids |-> {p - 1 : p \in PointsAt(zone, c)}]
  BY <1>1, <1>2 DEF Submesh
<1>4. QED
  BY <1>3 DEF GeometryRight

LEMMA GradientsRight ==
  ASSUME Served, NEW ids, ids \subseteq Cells
  PROVE  GeometryRight("gradients", ids, Fitted(ids), client.zone, client.backend)
<1> DEFINE zone == GivenZone(client.zone)
           halo == IF client.backend = "tiledb" THEN ids ELSE ids \cup UNION {MeshRows.adjacency[c] : c \in ids}
           enough == IF client.backend = "iotdb" THEN 0 ELSE MinNeighbours
           used == [c \in ids |-> MeshRows.adjacency[c] \cap DOMAIN Fetched(halo, client.step)]
<1>1. /\ Cells = CellIds(zone) /\ ids \subseteq CellIds(zone)
      /\ \A c \in CellIds(zone) : MeshRows.adjacency[c] = Beside(zone, c)
  BY ClientMesh DEF Served
<1>2. \A c : Beside(zone, c) \subseteq CellIds(zone)
  BY DEF Beside
<1> HIDE DEF zone
<1>3. halo \in SUBSET CellIds(zone)
  BY <1>1, <1>2
<1>4. DOMAIN Fetched(halo, client.step) = halo
  <2> HIDE DEF halo
  <2>1. Fetched(halo, client.step) = [c \in halo |-> Given(client.zone, client.step)[c + 1]]
    BY <1>3, ServedFacts DEF zone
  <2>2. QED
    BY <2>1
<1>5. ASSUME NEW c \in ids
      PROVE  used[c] = IF client.backend = "tiledb" THEN Beside(zone, c) \cap ids ELSE Beside(zone, c)
  <2>1. used[c] = Beside(zone, c) \cap halo
    BY <1>1, <1>4
  <2>2. client.backend # "tiledb" => Beside(zone, c) \subseteq halo
    BY <1>1
  <2>3. QED
    BY <2>1, <2>2
<1>6. Fitted(ids) = [c \in {d \in ids : Cardinality(used[d]) >= enough} |-> used[c]]
  BY DEF Fitted
<1> HIDE DEF used, enough
<1>7. CASE client.backend = "tiledb"
  <2>1. \A c \in DOMAIN Fitted(ids) : Fitted(ids)[c] = Beside(zone, c) \cap ids
    BY <1>5, <1>6, <1>7
  <2>2. QED
    BY <1>7, <2>1 DEF GeometryRight, zone
<1>8. CASE client.backend # "tiledb"
  <2>1. \A c \in ids : used[c] = Beside(zone, c)
    BY <1>5, <1>8
  <2>2. Fitted(ids) = [c \in {d \in ids : Cardinality(Beside(zone, d)) >= enough} |-> Beside(zone, c)]
    BY <1>6, <2>1
  <2>3. QED
    BY <1>8, <2>2 DEF GeometryRight, enough, zone
<1>9. QED
  BY <1>7, <1>8

LEMMA ZonesRight ==
  ASSUME Served
  PROVE  GeometryRight("zones", <<>>, ZoneCandidates, client.zone, client.backend)
<1>1. client.backend \in Backends /\ files # NoFiles
  BY DEF Served, ClientOK, IsGiven
<1>2. Names(files[1], Indices) \subseteq DOMAIN Db.mesh
  BY <1>1 DEF Served, StoreInv, MeshesHold, Db
<1>3. client.backend = "iotdb" => Db.meta.zones = Names(files[1], Indices)
  <2>1. client.backend = "iotdb" => Db.meta = Meta(files, LoadTopology(files[1], Indices))
    BY <1>1 DEF Served, StoreInv, MetaHolds, Db
  <2>2. QED
    BY <2>1, LoadedNames DEF Meta
<1>4. QED
  BY <1>2, <1>3 DEF GeometryRight, ZoneCandidates

LEMMA GeometryReplies ==
  ASSUME StoreInv, ClientOK, Telltale, client # NoClient, NEW op, NEW arg, NEW value, Replies(op, arg, value),
         Served => GeometryRight(op, arg, value, client.zone, client.backend)
  PROVE  GeometryIsTheFiles'
<1>1. files' = files /\ answer' = Reply(op, arg, value, client.zone, client.step, client.backend, FALSE)
  BY ReplyIs
<1>2. IsGiven(client.zone, client.step) => GeometryRight(op, arg, value, client.zone, client.backend)
  BY DEF Served
<1>3. QED
  BY <1>1, <1>2, GeometryTold

LEMMA ReadingGeometry ==
  ASSUME Reading, StoreInv, ClientOK, Telltale
  PROVE  GeometryIsTheFiles'
<1>1. ASSUME NEW lo \in Thresholds, NEW hi \in Thresholds, ReadElements(lo, hi) PROVE GeometryIsTheFiles'
  <2>1. client # NoClient /\ Replies("elements", <<lo, hi>>, Elements(lo, hi)) /\ lo \in Int /\ hi \in Int
    BY <1>1, FilesAssumption DEF ReadElements, Ready, Reads
  <2>2. QED
    BY <2>1, ElementsRight, GeometryReplies
<1>2. ASSUME NEW ids, ReadSubmesh(ids) PROVE GeometryIsTheFiles'
  <2>1. client # NoClient /\ ids \subseteq Cells /\ Replies("submesh", ids, Submesh(ids))
    BY <1>2 DEF ReadSubmesh, Ready, Reads
  <2>2. QED
    BY <2>1, SubmeshRight, GeometryReplies
<1>3. ASSUME NEW ids, ReadGradients(ids) PROVE GeometryIsTheFiles'
  <2>1. /\ client # NoClient /\ ids \subseteq Cells
        /\ Replies("gradients", ids, Fitted(ids)) \/ \E value : Doubts("gradients", ids, value)
    BY <1>3 DEF ReadGradients, Readable, Ready
  <2>2. CASE \E value : Doubts("gradients", ids, value)
    BY <2>2, NoGeometryTold DEF Doubts
  <2>3. QED
    BY <2>1, <2>2, GradientsRight, GeometryReplies
<1>4. CASE ReadZones
  <2>1. client # NoClient /\ Replies("zones", <<>>, ZoneCandidates)
    BY <1>4 DEF ReadZones, Ready, Reads
  <2>2. QED
    BY <2>1, ZonesRight, GeometryReplies
<1>5. ASSUME NEW lo, NEW hi, ReadRange(lo, hi) PROVE GeometryIsTheFiles'
  BY <1>5, RepliesFacts, NoGeometryTold DEF ReadRange, Reads, GeometryOps
<1>6. ASSUME NEW ids, ReadPoints(ids) \/ ReadAggregate(ids) PROVE GeometryIsTheFiles'
  BY <1>6, RepliesFacts, NoGeometryTold DEF ReadPoints, ReadAggregate, Reads, GeometryOps
<1>7. ASSUME NEW point, ReadExtrema(point) PROVE GeometryIsTheFiles'
  BY <1>7, RepliesFacts, NoGeometryTold DEF ReadExtrema, GeometryOps
<1>8. CASE ReadValueRange \/ ReadSurface \/ ReadForce \/ ReadMaxDiffs \/ ReadStatistics \/ StatementFails("any")
  BY <1>8, RepliesFacts, NoGeometryTold
  DEF ReadValueRange, ReadSurface, ReadForce, ReadMaxDiffs, ReadStatistics, StatementFails, Reads, GeometryOps
<1>9. CASE PrepareForce
  BY <1>9, NoGeometryTold DEF PrepareForce
<1>10. QED
  BY <1>1, <1>2, <1>3, <1>4, <1>5, <1>6, <1>7, <1>8, <1>9 DEF Reading

LEMMA TellingGeometry ==
  ASSUME Telling, Attached
  PROVE  GeometryIsTheFiles'
<1> DEFINE zone == GivenZone(vtk.zone)
<1>1. ASSUME NEW ids, TellSubmesh(ids) PROVE GeometryIsTheFiles'
  <2>1. /\ GridCells = CellIds(zone)
        /\ \A c \in CellIds(zone) : Here.nodes[c] = {p - 1 : p \in PointsAt(zone, c)}
    BY HereFacts DEF Attached
  <2>2. [c \in ids |-> Here.nodes[c]] = [c \in ids |-> {p - 1 : p \in PointsAt(zone, c)}]
    BY <1>1, <2>1 DEF TellSubmesh
  <2>3. Says("submesh", ids, vtk.step, [c \in ids |-> {p - 1 : p \in PointsAt(zone, c)}])
    BY <1>1, <2>2 DEF TellSubmesh, Tells
  <2>4. GeometryRight("submesh", ids, [c \in ids |-> {p - 1 : p \in PointsAt(zone, c)}], vtk.zone, "vtk")
    BY DEF GeometryRight
  <2>5. PICK value : /\ Says("submesh", ids, vtk.step, value)
                     /\ GeometryRight("submesh", ids, value, vtk.zone, "vtk")
    BY <2>3, <2>4
  <2>6. files' = files /\ answer' = Reply("submesh", ids, value, vtk.zone, vtk.step, "vtk", FALSE)
    BY <2>5 DEF Says, Reply
  <2>7. QED
    BY <2>5, <2>6, GeometryTold
<1>2. CASE TellZones
  <2>1. files' = files /\ answer' = Reply("zones", <<>>, ZonesListed, vtk.zone, vtk.step, "vtk", FALSE)
    BY <1>2 DEF TellZones, Tells, Says, Reply
  <2>2. ZonesListed = Names(files[1], Indices)
    BY DirectoryHolds DEF Attached, VtkGood, DirectoryIsTheFiles, ZonesListed
  <2>3. GeometryRight("zones", <<>>, ZonesListed, vtk.zone, "vtk")
    BY <2>2 DEF GeometryRight
  <2>4. QED
    BY <2>1, <2>3, GeometryTold
<1>3. ASSUME answer'.op \notin GeometryOps PROVE GeometryIsTheFiles'
  BY <1>3, NoGeometryTold
<1>4. ASSUME NEW step, NEW ids, TellPoints(ids, step) PROVE GeometryIsTheFiles'
  BY <1>3, <1>4, TellsOp DEF TellPoints, Tells, GeometryOps
<1>5. ASSUME NEW step, NEW lo, NEW hi, TellRange(lo, hi, step) \/ TellElements(lo, hi) \/ TellWithin(lo, hi)
      PROVE  GeometryIsTheFiles'
  BY <1>3, <1>5, TellsOp DEF TellRange, TellElements, TellWithin, Tells, GeometryOps
<1>6. ASSUME NEW step, TellValueRange(step) \/ TellStatistics(step) \/ TellMaxDiffs(step) \/ TellSurface
      PROVE  GeometryIsTheFiles'
  BY <1>3, <1>6, TellsOp DEF TellValueRange, TellStatistics, TellMaxDiffs, TellSurface, Tells, GeometryOps
<1>7. ASSUME NEW point, TellExtrema(point) PROVE GeometryIsTheFiles'
  <2>1. answer'.op \in {"extrema", "any"}
    BY <1>7, TellsOp DEF TellExtrema
  <2>2. QED
    BY <1>3, <2>1 DEF GeometryOps
<1>8. QED
  BY <1>1, <1>2, <1>4, <1>5, <1>6, <1>7, Zenon DEF Telling

LEMMA GeometryKept ==
  ASSUME MInv, Telltale, GeometryIsTheFiles, [NextAll]_every
  PROVE  GeometryIsTheFiles'
<1>1. CASE answer' = NoAnswer
  BY <1>1, NoGeometryTold
<1>2. CASE Reading
  BY <1>2, ReadingGeometry DEF MInv, IInv
<1>3. CASE Telling
  <2>1. Attached
    BY <1>3, TellingFacts DEF MInv, IInv, StoreInv, Attached
  <2>2. QED
    BY <1>3, <2>1, TellingGeometry
<1>4. CASE UNCHANGED <<files, answer>>
  <2>1. answer' = answer /\ files' = files
    BY <1>4
  <2>2. QED
    BY <1>4, <2>1, SameAnswer DEF GeometryIsTheFiles, GivenZone
<1>5. QED
  BY <1>1, <1>2, <1>3, <1>4, Answered


-----------------------------------------------------------------------------
(* Extrema over the steps.                                                 *)

Touching(name, point) == {c \in CellIds(GivenZone(name)) : point \in PointsAt(GivenZone(name), c)}
Sums(name, cells) == {SumFunction(Values(name, s, cells)) : s \in StepsOf(files)}
Extreme(cells, sums) ==
  IF cells = {} THEN {} ELSE {[n |-> Cardinality(cells), min |-> Min(sums), max |-> Max(sums)]}

ExtremaRight(arg, value, name) ==
  value = Extreme(Touching(name, arg), Sums(name, Touching(name, arg)))

LEMMA ExtremaTold ==
  ASSUME NEW arg, NEW value, NEW name, NEW step, NEW b, NEW doubtful, files' = files,
         answer' = Reply("extrema", arg, value, name, step, b, doubtful),
         ~doubtful /\ IsGiven(name, step) => ExtremaRight(arg, value, name)
  PROVE  ExtremaAreTheFiles'
<1>1. /\ answer'.op = "extrema" /\ answer'.arg = arg /\ answer'.value = value /\ answer'.zone = name
      /\ answer'.step = step /\ answer'.doubtful = doubtful
  BY DEF Reply
<1>2. Asked' = arg /\ GivenZone(answer.zone)' = GivenZone(name) /\ \A s : Given(answer.zone, s)' = Given(name, s)
  BY <1>1 DEF Asked, GivenZone, Given, FilesOf
<1>3. Claimed("extrema")' => ~doubtful /\ IsGiven(name, step)
  BY <1>1 DEF Claimed, IsGiven, FilesOf
<1>4. StepsOf(files)' = StepsOf(files)
  BY DEF StepsOf
<1> DEFINE around == {c \in CellIds(GivenZone(answer.zone)) : Asked \in PointsAt(GivenZone(answer.zone), c)}
           sums == {SumFunction([c \in around |-> Given(answer.zone, s)[c + 1]]) : s \in StepsOf(files)}
<1>5. around' = Touching(name, arg)
  BY <1>2 DEF Touching
<1>6. sums' = Sums(name, Touching(name, arg))
  BY <1>2, <1>4, <1>5 DEF Sums, Values
<1>7. ExtremaAreTheFiles' <=>
        (Claimed("extrema")' => answer'.value = Extreme(around', sums'))
  BY DEF ExtremaAreTheFiles, Extreme
<1> HIDE DEF around, sums
<1>8. QED
  BY <1>1, <1>3, <1>5, <1>6, <1>7 DEF ExtremaRight

LEMMA NoExtremaTold ==
  ASSUME answer' = NoAnswer \/ answer'.op # "extrema" \/ answer'.doubtful
  PROVE  ExtremaAreTheFiles'
  BY DEF ExtremaAreTheFiles, Claimed, NoAnswer

\* Inputs have the same steps, and the last files all zones in each.
AllAlike == files = NoFiles \/ FramesAlike(files)

LEMMA GivenAtAll ==
  ASSUME FilesGood, AllAlike, NEW name, NEW step, IsGiven(name, step)
  PROVE  \A s \in StepsOf(files) : IsGiven(name, s)
<1>1. /\ files # NoFiles /\ name \in Names(files[1], Indices)
      /\ \A i \in DOMAIN files : Names(files[i], Indices) = Names(files[1], Indices)
  BY DEF IsGiven, AllAlike, FramesAlike
<1>2. ASSUME NEW s \in StepsOf(files) PROVE FilesOf(name, s) # {}
  <2>1. PICK i \in DOMAIN files : files[i].step = s
    BY DEF StepsOf
  <2>2. i \in FilesOf(name, s)
    BY <1>1, <2>1 DEF FilesOf
  <2>3. QED
    BY <2>2
<1>3. QED
  BY <1>1, <1>2 DEF IsGiven

\* The steps a client looks at.
LEMMA StepsThere ==
  ASSUME Served, AllAlike
  PROVE  StepsWithRows = StepsOf(files)
<1> DEFINE name == client.zone
           b == client.backend
<1>1. /\ b \in Backends /\ files # NoFiles /\ files \in FileSets /\ FilesGood
      /\ \A other \in FileSets : StepsOf(other) = StepsOf(files)
  BY GivenFacts DEF Served, StoreInv, ClientOK, AllAlike, FramesAlike
<1>2. CASE b = "postgresql"
  <2>1. StepsWithRows = {key[2] : key \in {k \in DOMAIN Db.scalar : k[1] = name}}
    BY <1>2 DEF StepsWithRows, IsPg
  <2>2. \A key \in DOMAIN Db.scalar : key[2] \in StepsOf(files)
    BY <1>1 DEF Served, StoreInv, StepsHold, Db
  <2>3. ASSUME NEW s \in StepsOf(files) PROVE \E key \in DOMAIN Db.scalar : key[1] = name /\ key[2] = s
    <3>1. IsGiven(name, s)
      BY <1>1, GivenAtAll DEF Served
    <3>2. FramesOf(files, name, s) # {}
      BY <1>1, <3>1, GivenFacts
    <3>3. <<name, s>> \in DOMAIN Db.scalar
      BY <1>1, <1>2, <3>2 DEF Served, StoreInv, ScalarsHold, Db, ReadKey
    <3>4. QED
      BY <3>3
  <2>4. QED
    BY <2>1, <2>2, <2>3
<1>3. CASE b # "postgresql"
  <2>1. Db.meta = Meta(files, LoadTopology(files[1], Indices))
    BY <1>1, <1>3 DEF Served, StoreInv, MetaHolds, Db
  <2>2. QED
    BY <1>3, <2>1 DEF Meta, StepsWithRows, StepsOf, IsPg
<1>4. QED
  BY <1>2, <1>3

\* A table of the cells of nodes that is long enough has those of a point.
LEMMA CellsOfAPoint ==
  ASSUME NEW name, IsZone(GivenZone(name)), Decodes(GivenZone(name)), NEW point \in Nat,
         NEW count \in Nat, Len(GivenZone(name).nodes) <= count,
         NEW csr, DOMAIN csr = 0..count - 1,
         \A n \in 0..count - 1 : csr[n] = {c \in CellIds(GivenZone(name)) : n + 1 \in PointsAt(GivenZone(name), c)}
  PROVE  (IF DenseNode(point) \in DOMAIN csr THEN csr[DenseNode(point)] ELSE {}) = Touching(name, point)
<1> DEFINE zone == GivenZone(name)
<1>1. zone.nodes \in Seq(Int)
  BY DEF IsZone
<1>2. \A c \in CellIds(zone) : point \in PointsAt(zone, c) => point \in 1..Len(zone.nodes)
  BY <1>1, PlacesOfPoints
<1> HIDE DEF zone
<1>3. DenseNode(point) \in Int /\ DenseNode(point) + 1 = point
  BY DEF DenseNode
<1>4. CASE DenseNode(point) \in 0..count - 1
  BY <1>3, <1>4 DEF Touching, zone
<1>5. CASE DenseNode(point) \notin 0..count - 1
  <2>1. point \notin 1..Len(zone.nodes)
    <3>1. Len(zone.nodes) \in Nat /\ Len(zone.nodes) <= count
      BY <1>1 DEF zone
    <3>2. QED
      BY <1>5, <3>1 DEF DenseNode
  <2>2. Touching(name, point) = {}
    BY <1>2, <2>1 DEF Touching, zone
  <2>3. QED
    BY <1>5, <2>2
<1>6. QED
  BY <1>4, <1>5

LEMMA EnoughNodes ==
  ASSUME Served, AllAlike
  PROVE  LET count == IF IsPg THEN MeshRows.nodeCount ELSE Db.meta.nodeCount IN
         count \in Nat /\ Len(GivenZone(client.zone).nodes) <= count
<1> DEFINE name == client.zone
           topology == LoadTopology(files[1], Indices)
           primary == PrimaryZone(Names(files[1], Indices))
<1>1. /\ client.backend \in Backends /\ files # NoFiles /\ files \in FileSets /\ name \in Names(files[1], Indices)
      /\ IsZone(GivenZone(name))
  BY GivenFacts DEF Served, StoreInv, ClientOK
<1>2. Len(GivenZone(name).nodes) \in Nat
  BY <1>1 DEF IsZone
<1>3. CASE IsPg
  <2>1. MeshRows.nodeCount = Len(GivenZone(name).nodes)
    BY ClientMesh DEF Served
  <2>2. QED
    BY <1>2, <1>3, <2>1
<1>4. CASE ~IsPg
  <2>1. Db.meta = Meta(files, topology)
    BY <1>1, <1>4 DEF Served, StoreInv, MetaHolds, Db, IsPg
  <2>2. IsFile(files[1]) /\ TopologyLoads(files[1], Indices) /\ DOMAIN topology = Names(files[1], Indices)
    BY <1>1, FirstFile, LoadedNames DEF Served, StoreInv, FilesGood
  <2>3. primary \in Names(files[1], Indices)
    BY <1>1 DEF PrimaryZone
  <2>4. topology[primary] = Payload(GivenZone(primary)) /\ IsZone(GivenZone(primary))
    BY <2>2, <2>3, LoadedFacts DEF GivenZone
  <2>5. Db.meta.nodeCount = Len(GivenZone(primary).nodes)
    <3> HIDE DEF topology
    <3>1. Db.meta.nodeCount = topology[primary].nodeCount
      BY <2>1, <2>2 DEF Meta
    <3>2. QED
      BY <2>4, <3>1, PayloadFacts
  <2>6. Len(GivenZone(primary).nodes) \in Nat
    BY <2>4 DEF IsZone
  <2>7. Len(GivenZone(name).nodes) <= Len(GivenZone(primary).nodes)
    BY <1>1 DEF AllAlike, FramesAlike, NodesOf, GivenZone
  <2>8. QED
    BY <1>4, <2>5, <2>6, <2>7
<1>5. QED
  BY <1>3, <1>4

LEMMA NodeCellsAre ==
  ASSUME Served, AllAlike, NEW point \in Nat
  PROVE  (IF DenseNode(point) \in DOMAIN NodeCells THEN NodeCells[DenseNode(point)] ELSE {}) =
           Touching(client.zone, point)
<1> DEFINE zone == GivenZone(client.zone)
           count == IF IsPg THEN MeshRows.nodeCount ELSE Db.meta.nodeCount
<1>1. count \in Nat /\ Len(zone.nodes) <= count
  BY EnoughNodes
<1>2. IsZone(zone) /\ Decodes(zone)
  BY GivenFacts DEF Served, StoreInv
<1>3. /\ Cells = CellIds(zone)
      /\ \A c \in CellIds(zone) : MeshRows.nodes[c] = {p - 1 : p \in PointsAt(zone, c)}
  BY ClientMesh DEF Served
<1>4. NodeCells = [n \in 0..count - 1 |-> {c \in Cells : n \in MeshRows.nodes[c]}]
  BY DEF NodeCells
<1> HIDE DEF count, zone
<1>5. \A n \in 0..count - 1, c \in CellIds(zone) : n \in MeshRows.nodes[c] <=> n + 1 \in PointsAt(zone, c)
  BY <1>1, <1>2, <1>3, PlacesOfPoints
<1>6. /\ DOMAIN NodeCells = 0..count - 1
      /\ \A n \in 0..count - 1 : NodeCells[n] = {c \in CellIds(zone) : n + 1 \in PointsAt(zone, c)}
  BY <1>3, <1>4, <1>5
<1>7. QED
  BY <1>1, <1>2, <1>6, CellsOfAPoint DEF zone

LEMMA ExtremaAre ==
  ASSUME Served, AllAlike, NEW point \in Nat
  PROVE  ExtremaRight(point, Extrema(NodeCells, point), client.zone)
<1> DEFINE cells == Touching(client.zone, point)
           sums == {SumFunction(Fetched(cells, s)) : s \in StepsWithRows}
<1>1. FilesGood
  BY DEF Served, StoreInv
<1>2. ASSUME NEW s \in StepsOf(files) PROVE Fetched(cells, s) = Values(client.zone, s, cells)
  <2>1. IsGiven(client.zone, s)
    BY <1>1, GivenAtAll DEF Served
  <2>2. cells \in SUBSET CellIds(GivenZone(client.zone))
    BY DEF Touching
  <2>3. Fetched(cells, s) = [c \in cells |-> Given(client.zone, s)[c + 1]]
    BY <2>1, <2>2, ClientRows DEF Served
  <2>4. QED
    BY <2>3 DEF Values
<1>3. StepsWithRows = StepsOf(files)
  BY StepsThere
<1> HIDE DEF cells
<1>4. sums = Sums(client.zone, cells)
  BY <1>2, <1>3 DEF Sums
<1>5. (IF DenseNode(point) \in DOMAIN NodeCells THEN NodeCells[DenseNode(point)] ELSE {}) = cells
  BY NodeCellsAre DEF cells
<1>6. Extrema(NodeCells, point) = Extreme(cells, sums)
  BY <1>5 DEF Extrema, Extreme
<1>7. QED
  BY <1>4, <1>6 DEF ExtremaRight, cells


LEMMA ReadingExtrema ==
  ASSUME Reading, StoreInv, ClientOK, Remembered, Telltale, AllAlike
  PROVE  ExtremaAreTheFiles'
<1>1. ASSUME NEW point \in Points, ReadExtrema(point) PROVE ExtremaAreTheFiles'
  <2>1. point \in Nat
    <3>1. PICK ids \in PointLists : point \in Range(ids)
      BY DEF Points
    <3>2. ids \in Seq(Nat)
      BY FilesAssumption
    <3>3. QED
      BY <3>1, <3>2 DEF Range
  <2>2. client # NoClient
    BY <1>1 DEF ReadExtrema, Ready
  <2>3. (IF client.csr # {} THEN Kept(client.csr) ELSE NodeCells) = NodeCells
    BY <2>2, KeptIs DEF Remembered
  <2>4. Replies("extrema", point, Extrema(NodeCells, point)) \/ Doubts("extrema", point, {})
    BY <1>1, <2>3 DEF ReadExtrema
  <2>5. CASE Doubts("extrema", point, {})
    BY <2>5, NoExtremaTold DEF Doubts
  <2>6. CASE Replies("extrema", point, Extrema(NodeCells, point))
    <3> DEFINE value == Extrema(NodeCells, point)
    <3>1. /\ files' = files
          /\ answer' = Reply("extrema", point, value, client.zone, client.step, client.backend, FALSE)
      BY <2>6, ReplyIs
    <3>2. IsGiven(client.zone, client.step) => ExtremaRight(point, value, client.zone)
      BY <2>1, <2>2, ExtremaAre DEF Served
    <3> HIDE DEF value
    <3>3. QED
      BY <3>1, <3>2, ExtremaTold
  <2>7. QED
    BY <2>4, <2>5, <2>6
<1>2. ASSUME answer'.op # "extrema" PROVE ExtremaAreTheFiles'
  BY <1>2, NoExtremaTold
<1>3. ASSUME NEW ids, ReadPoints(ids) \/ ReadAggregate(ids) \/ ReadSubmesh(ids) \/ ReadGradients(ids)
      PROVE  ExtremaAreTheFiles'
  BY <1>2, <1>3, RepliesFacts DEF ReadPoints, ReadAggregate, ReadSubmesh, ReadGradients, Reads
<1>4. ASSUME NEW lo, NEW hi, ReadRange(lo, hi) \/ ReadElements(lo, hi) PROVE ExtremaAreTheFiles'
  BY <1>2, <1>4, RepliesFacts DEF ReadRange, ReadElements, Reads
<1>5. CASE ReadValueRange \/ ReadSurface \/ ReadForce
  BY <1>2, <1>5, RepliesFacts DEF ReadValueRange, ReadSurface, ReadForce, Reads
<1>6. CASE ReadMaxDiffs \/ ReadStatistics \/ ReadZones \/ StatementFails("any")
  BY <1>2, <1>6, RepliesFacts DEF ReadMaxDiffs, ReadStatistics, ReadZones, StatementFails, Reads
<1>7. CASE PrepareForce
  BY <1>7, NoExtremaTold DEF PrepareForce
<1>8. QED
  BY <1>1, <1>3, <1>4, <1>5, <1>6, <1>7 DEF Reading

LEMMA TellingExtrema ==
  ASSUME Telling, Attached, VtkRemembers, ~ChangeZones
  PROVE  ExtremaAreTheFiles'
<1>1. ASSUME NEW point \in Points, TellExtrema(point) PROVE ExtremaAreTheFiles'
  <2> DEFINE name == vtk.zone
             csr == IF vtk.csr # {} THEN Kept(vtk.csr) ELSE CellsOfNodes
             cells == IF DenseNode(point) \in DOMAIN csr THEN csr[DenseNode(point)] ELSE {}
             Picks(s) == Picked([c \in cells |-> c], s)
  <2>1. point \in Nat
    <3>1. PICK ids \in PointLists : point \in Range(ids)
      BY DEF Points
    <3>2. ids \in Seq(Nat)
      BY FilesAssumption
    <3>3. QED
      BY <3>1, <3>2 DEF Range
  <2>2. cells = Touching(name, point)
    <3>1. csr = CellsOfPoints(name)
      BY CellsOfNodesAre, KeptIs DEF Attached, VtkRemembers
    <3>2. IsZone(GivenZone(name)) /\ Decodes(GivenZone(name))
      BY GridFacts DEF Attached, VtkGood
    <3>3. PICK count \in Nat : count = Len(GivenZone(name).nodes) /\ Len(GivenZone(name).nodes) <= count
      BY <3>2 DEF IsZone
    <3> HIDE DEF csr
    <3>4. /\ DOMAIN csr = 0..count - 1
          /\ \A n \in 0..count - 1 :
               csr[n] = {c \in CellIds(GivenZone(name)) : n + 1 \in PointsAt(GivenZone(name), c)}
      BY <3>1, <3>3 DEF CellsOfPoints
    <3>5. QED
      BY <2>1, <3>2, <3>3, <3>4, CellsOfAPoint
  <2>3. \/ cells = {} /\ Says("extrema", point, vtk.step, {})
        \/ Says("any", <<>>, vtk.step, Raised)
        \/ /\ cells # {} /\ \A s \in vtk.manifest.steps : s \in StepsListed
           /\ Says("extrema", point, vtk.step,
                   {[n |-> Cardinality(cells), min |-> Min({SumFunction(Picks(s)) : s \in vtk.manifest.steps}),
                     max |-> Max({SumFunction(Picks(s)) : s \in vtk.manifest.steps})]})
    BY <1>1, Zenon DEF TellExtrema
  <2> HIDE DEF cells
  <2>4. CASE cells = {} /\ Says("extrema", point, vtk.step, {})
    <3>1. ExtremaRight(point, {}, name)
      BY <2>2, <2>4 DEF ExtremaRight, Extreme
    <3>2. files' = files /\ answer' = Reply("extrema", point, {}, name, vtk.step, "vtk", FALSE)
      BY <2>4 DEF Says, Reply
    <3>3. QED
      BY <3>1, <3>2, ExtremaTold
  <2>5. CASE Says("any", <<>>, vtk.step, Raised)
    BY <2>5, TellsOp, NoExtremaTold
  <2>6. ASSUME cells # {}, \A s \in vtk.manifest.steps : s \in StepsListed,
               Says("extrema", point, vtk.step,
                    {[n |-> Cardinality(cells), min |-> Min({SumFunction(Picks(s)) : s \in vtk.manifest.steps}),
                      max |-> Max({SumFunction(Picks(s)) : s \in vtk.manifest.steps})]})
        PROVE  ExtremaAreTheFiles'
    <3>1. vtk.manifest.steps = StepsOf(files)
      BY GridFacts DEF Attached, VtkGood, Manifest, StepsOf
    <3>2. cells \subseteq GridCells
      BY <2>2, HereFacts DEF Attached, Touching
    <3>3. ASSUME NEW s \in StepsOf(files) PROVE Picks(s) = Values(name, s, cells)
      <4>1. HasFrame(name, s)
        BY <2>6, <3>1, <3>3 DEF StepsListed, HasFrame, Attached, VtkGood
      <4> DEFINE ids == [c \in cells |-> c]
      <4>2. DOMAIN ids = cells /\ \A c \in DOMAIN ids : ids[c] \in GridCells
        BY <3>2
      <4>3. \A c \in cells : ids[c] = c
        OBVIOUS
      <4> HIDE DEF ids
      <4>4. Picked(ids, s) = [i \in DOMAIN ids |-> Given(name, s)[ids[i] + 1]]
        BY <4>1, <4>2, PickedAll
      <4>5. QED
        BY <4>2, <4>3, <4>4 DEF Values, ids
    <3>4. {SumFunction(Picks(s)) : s \in vtk.manifest.steps} = Sums(name, cells)
      BY <3>1, <3>3 DEF Sums
    <3>5. PICK value : /\ Says("extrema", point, vtk.step, value)
                       /\ value = {[n |-> Cardinality(cells), min |-> Min(Sums(name, cells)), max |-> Max(Sums(name, cells))]}
      BY <2>6, <3>4
    <3>6. ExtremaRight(point, value, name)
      BY <2>2, <2>6, <3>5 DEF ExtremaRight, Extreme
    <3>7. files' = files /\ answer' = Reply("extrema", point, value, name, vtk.step, "vtk", FALSE)
      BY <3>5 DEF Says, Reply
    <3>8. QED
      BY <3>6, <3>7, ExtremaTold
  <2>7. QED
    BY <2>3, <2>4, <2>5, <2>6
<1>2. ASSUME answer'.op # "extrema" PROVE ExtremaAreTheFiles'
  BY <1>2, NoExtremaTold
<1>3. ASSUME NEW step, NEW ids, TellPoints(ids, step) \/ TellSubmesh(ids) PROVE ExtremaAreTheFiles'
  BY <1>2, <1>3, TellsOp DEF TellPoints, TellSubmesh, Tells
<1>4. ASSUME NEW step, NEW lo, NEW hi, TellRange(lo, hi, step) \/ TellElements(lo, hi) \/ TellWithin(lo, hi)
      PROVE  ExtremaAreTheFiles'
  BY <1>2, <1>4, TellsOp DEF TellRange, TellElements, TellWithin, Tells
<1>5. ASSUME NEW step, TellValueRange(step) \/ TellStatistics(step) \/ TellMaxDiffs(step) \/ TellSurface \/ TellZones
      PROVE  ExtremaAreTheFiles'
  BY <1>2, <1>5, TellsOp DEF TellValueRange, TellStatistics, TellMaxDiffs, TellSurface, TellZones, Tells
<1>6. QED
  BY <1>1, <1>3, <1>4, <1>5, Zenon DEF Telling

\* If besides every input has the same steps, every zone is in each of its frames and the primary
\* zone has the most nodes, and a VTK client keeps to one zone, then elements, submeshes, neighbours,
\* zones and the extrema of points over the steps are those of the files
\* (cfd_element_ids_in_coordinate_range, extract_submesh, compute_qcriterion_roi,
\* w6_zone_candidates, cfd_point_frame_extrema).
THEOREM MeshFaithful ==
  ASSUME \A input \in FileSets : LeavesTell(input) /\ FramesAlike(input), ~ChangeZones
  PROVE  SpecAll => []MeshIsTheFiles
<1>0. \A input \in FileSets : LeavesTell(input)
  OBVIOUS
<1>1. InitAll => MeshIsTheFiles
  BY DEF InitAll, Init, MeshIsTheFiles, GeometryIsTheFiles, ExtremaAreTheFiles, Claimed, NoAnswer
<1>2. MInv /\ MeshIsTheFiles /\ [NextAll]_every => MeshIsTheFiles'
  <2> SUFFICES ASSUME MInv, MeshIsTheFiles, [NextAll]_every PROVE MeshIsTheFiles'
    OBVIOUS
  <2>1. Telltale /\ AllAlike
    BY <1>0 DEF MInv, IInv, StoreInv, FilesGood, Telltale, AllAlike
  <2>2. GeometryIsTheFiles'
    BY <2>1, GeometryKept DEF MeshIsTheFiles
  <2>3. ExtremaAreTheFiles'
    <3>1. CASE answer' = NoAnswer
      BY <3>1, NoExtremaTold
    <3>2. CASE Reading
      BY <2>1, <3>2, ReadingExtrema DEF MInv, IInv
    <3>3. CASE Telling
      <4>1. Attached
        BY <3>3, TellingFacts DEF MInv, IInv, StoreInv, Attached
      <4>2. QED
        BY <3>3, <4>1, TellingExtrema DEF MInv
    <3>4. CASE UNCHANGED <<files, answer>>
      <4>1. answer' = answer /\ files' = files
        BY <3>4
      <4>2. QED
        BY <3>4, <4>1, SameAnswer DEF MeshIsTheFiles, ExtremaAreTheFiles, GivenZone, StepsOf, Given, FilesOf
    <3>5. QED
      BY <3>1, <3>2, <3>3, <3>4, Answered
  <2>4. QED
    BY <2>2, <2>3 DEF MeshIsTheFiles
<1>3. QED
  BY <1>1, <1>2, Remembers, PTL DEF SpecAll


-----------------------------------------------------------------------------
(* The surface.                                                            *)

\* A face on the boundary is outside its cell, and outside no other.
LEMMA OutsideIs ==
  ASSUME NEW zone, IsZone(zone), Decodes(zone), NEW i \in DOMAIN zone.faces
  PROVE  /\ OnBoundary(zone.faces[i]) => Owner(zone.faces[i]) \in CellIds(zone)
         /\ \A c \in CellIds(zone) :
              i \in Outside(zone, c) <=> OnBoundary(zone.faces[i]) /\ Owner(zone.faces[i]) = c
<1> DEFINE face == zone.faces[i]
<1>1. zone.cells \in Nat /\ face.le \in 0..zone.cells /\ face.re \in 0..zone.cells
  BY DEF IsZone, Decodes
<1> HIDE DEF face
<1>2. ASSUME NEW c \in CellIds(zone), FaceCells(face) = {c}
      PROVE  Cardinality(FaceCells(face)) = 1 /\ Owner(face) = c
  BY <1>2, FS_Singleton DEF Owner
<1>3. ASSUME NEW c \in CellIds(zone), i \in Outside(zone, c)
      PROVE  OnBoundary(face) /\ Owner(face) = c
  <2>1. c + 1 \in {face.le, face.re} /\ 0 \in {face.le, face.re} /\ face.area > 0
    BY <1>3 DEF Outside, FacesAt, face
  <2>2. FaceCells(face) = {c}
    BY <1>1, <2>1 DEF FaceCells, CellIds
  <2>3. QED
    BY <1>2, <2>1, <2>2 DEF OnBoundary
<1>4. ASSUME OnBoundary(face)
      PROVE  \E c \in CellIds(zone) : i \in Outside(zone, c)
  <2>1. /\ Cardinality(FaceCells(face)) = 1 /\ 0 \in {face.le, face.re} /\ face.area > 0
    BY <1>4 DEF OnBoundary
  <2>2. FaceCells(face) # {}
    BY <2>1, FS_EmptySet
  <2>3. PICK c : c \in {face.le - 1, face.re - 1} /\ c # -1
    BY <2>2 DEF FaceCells
  <2>4. c \in CellIds(zone) /\ c + 1 \in {face.le, face.re}
    BY <1>1, <2>3 DEF CellIds
  <2>5. QED
    BY <2>1, <2>4 DEF Outside, FacesAt, face
<1>5. QED
  BY <1>3, <1>4 DEF face

\* Seen from its cell, a face with a side looks to that side.
LEMMA OutwardIsAway ==
  ASSUME NEW zone, IsZone(zone), Decodes(zone), NEW c \in CellIds(zone), NEW i \in Outside(zone, c),
         Away(zone, c, i) # 0
  PROVE  Outward(zone, zone.faces[i]) = Away(zone, c, i)
<1> DEFINE face == zone.faces[i]
<1>1. i \in DOMAIN zone.faces /\ Owner(face) = c
  <2>1. i \in DOMAIN zone.faces
    BY DEF Outside, FacesAt
  <2>2. QED
    BY <2>1, OutsideIs
<1>2. face.turn \in {-1, 1}
  <2>1. face \in ToSet(zone.faces)
    BY <1>1 DEF ToSet
  <2>2. QED
    BY <2>1 DEF IsZone
<1>3. zone.nodes \in Seq(Int) /\ ToSet(face.nodes) = Range(face.nodes)
  BY DEF IsZone, ToSet, Range
<1>4. Mean(zone, {n - 1 : n \in Range(face.nodes)}) = Position(zone, Range(face.nodes))
  BY <1>1, <1>3, PointsThere, MeanIs
<1>5. FaceCentre(zone, face) = Position(zone, Range(face.nodes))
  BY <1>3, <1>4 DEF FaceCentre
<1>6. Centre(zone, c) = Position(zone, PointsAt(zone, c))
  <2>1. CellNodes(zone, c) = {p - 1 : p \in PointsAt(zone, c)}
    BY NodesAround
  <2>2. Mean(zone, {p - 1 : p \in PointsAt(zone, c)}) = Position(zone, PointsAt(zone, c))
    BY <1>3, PointsThere, MeanIs
  <2>3. QED
    BY <2>1, <2>2 DEF Centre
<1>7. Side(FaceCentre(zone, face), Centre(zone, Owner(face))) = Away(zone, c, i)
  BY <1>1, <1>5, <1>6 DEF Away
<1>8. Away(zone, c, i) \in {-1, 1}
  BY DEF Away, Side
<1> HIDE DEF face
<1>9. Outward(zone, face) = IF face.turn * Away(zone, c, i) < 0 THEN -face.turn ELSE face.turn
  BY <1>7 DEF Outward
<1>10. \A turn, away \in {-1, 1} : (IF turn * away < 0 THEN -turn ELSE turn) = away
  OBVIOUS
<1>11. QED
  BY <1>2, <1>8, <1>9, <1>10 DEF face

\* The rows of the boundary, and the directions of the cells along it.
LEMMA RowsAre ==
  ASSUME NEW zone, IsZone(zone), Decodes(zone)
  PROVE  LET rows == Payload(zone).boundary IN
         /\ {rows[i].cell : i \in DOMAIN rows} = Skin(zone)
         /\ \A c \in CellIds(zone) : {j \in DOMAIN rows : rows[j].cell = c} = Outside(zone, c)
         /\ \A c \in Clear(zone) : Weighted(rows, c) = Facing(zone, c)
<1> DEFINE rows == Payload(zone).boundary
<1>1. /\ DOMAIN rows = {j \in DOMAIN zone.faces : OnBoundary(zone.faces[j])}
      /\ \A i \in DOMAIN rows : /\ rows[i].cell = Owner(zone.faces[i])
                                /\ rows[i].normal = Outward(zone, zone.faces[i])
                                /\ rows[i].area = zone.faces[i].area
  <2>1. rows = [i \in {j \in DOMAIN zone.faces : OnBoundary(zone.faces[j])} |-> BoundaryRow(zone, zone.faces[i])]
    BY DEF Payload
  <2> HIDE DEF rows
  <2>2. QED
    BY <2>1 DEF BoundaryRow
<1> HIDE DEF rows
<1>2. ASSUME NEW c \in CellIds(zone) PROVE {j \in DOMAIN rows : rows[j].cell = c} = Outside(zone, c)
  <2>1. Outside(zone, c) \subseteq DOMAIN zone.faces
    BY DEF Outside, FacesAt
  <2>2. QED
    BY <1>1, <2>1, OutsideIs
<1>3. {rows[i].cell : i \in DOMAIN rows} = Skin(zone)
  <2>1. ASSUME NEW i \in DOMAIN rows PROVE rows[i].cell \in Skin(zone)
    <3>1. i \in DOMAIN zone.faces /\ OnBoundary(zone.faces[i]) /\ rows[i].cell = Owner(zone.faces[i])
      BY <1>1
    <3>2. rows[i].cell \in CellIds(zone) /\ i \in Outside(zone, rows[i].cell)
      BY <3>1, OutsideIs
    <3>3. QED
      BY <3>2 DEF Skin
  <2>2. ASSUME NEW c \in Skin(zone) PROVE \E i \in DOMAIN rows : rows[i].cell = c
    BY <1>2 DEF Skin
  <2>3. QED
    BY <2>1, <2>2
<1>4. ASSUME NEW c \in Clear(zone) PROVE Weighted(rows, c) = Facing(zone, c)
  <2>1. c \in CellIds(zone) /\ \A i \in Outside(zone, c) : Away(zone, c, i) # 0
    BY DEF Clear, Skin
  <2>2. ASSUME NEW i \in Outside(zone, c)
        PROVE  rows[i].normal * rows[i].area = zone.faces[i].area * Away(zone, c, i)
    <3>1. rows[i].normal = Away(zone, c, i) /\ rows[i].area = zone.faces[i].area
      BY <1>1, <1>2, <2>1, OutwardIsAway
    <3>2. Away(zone, c, i) \in {-1, 0, 1}
      BY DEF Away, Side
    <3>3. zone.faces[i].area \in Int
      <4>1. i \in DOMAIN zone.faces
        BY DEF Outside, FacesAt
      <4>2. zone.faces[i] \in ToSet(zone.faces)
        BY <4>1 DEF ToSet
      <4>3. QED
        BY <4>2 DEF IsZone
    <3>4. \A away \in {-1, 0, 1}, area \in Int : away * area = area * away
      OBVIOUS
    <3>5. QED
      BY <3>1, <3>2, <3>3, <3>4
  <2>3. {j \in DOMAIN rows : rows[j].cell = c} = Outside(zone, c)
    BY <1>2, <2>1
  <2>4. [i \in {j \in DOMAIN rows : rows[j].cell = c} |-> rows[i].normal * rows[i].area] =
          [i \in Outside(zone, c) |-> zone.faces[i].area * Away(zone, c, i)]
    BY <2>2, <2>3
  <2>5. QED
    BY <2>4 DEF Weighted, Facing
<1>5. QED
  BY <1>2, <1>3, <1>4 DEF rows

\* The surface of the zone of the client.
SurfaceRight(value, name) ==
  LET zone == GivenZone(name) IN
  Skin(zone) # {} =>
    /\ DOMAIN value = Skin(zone)
    /\ \A c \in Clear(zone) : value[c] = Unit(Facing(zone, c))

ForceRight(value, name, step) ==
  LET zone == GivenZone(name) IN
  Skin(zone) # {} /\ Clear(zone) = Skin(zone) =>
    value = SumFunction([c \in Skin(zone) |-> Unit(Facing(zone, c)) * Given(name, step)[c + 1]])

LEMMA SurfaceIs ==
  ASSUME StoreInv, ClientOK, client # NoClient, NEW step, IsGiven(client.zone, step)
  PROVE  SurfaceRight(Surface, client.zone)
<1> DEFINE zone == GivenZone(client.zone)
           rows == Payload(zone).boundary
<1>1. SameMesh(MeshRows, Payload(zone)) /\ IsZone(zone) /\ Decodes(zone)
  BY ClientMesh, GivenFacts DEF StoreInv
<1>2. /\ {rows[i].cell : i \in DOMAIN rows} = Skin(zone)
      /\ \A c \in Clear(zone) : Weighted(rows, c) = Facing(zone, c)
  BY <1>1, RowsAre
<1>3. DOMAIN rows # {} => MeshRows.boundary = rows
  BY <1>1 DEF SameMesh
<1>4. \A c \in Clear(zone) : c \in Skin(zone) /\ Facing(zone, c) # 0
  BY DEF Clear
<1> HIDE DEF zone, rows
<1>5. ASSUME Skin(zone) # {}
      PROVE  /\ DOMAIN Surface = Skin(zone)
             /\ \A c \in Clear(zone) : Surface[c] = Unit(Facing(zone, c))
  <2>1. DOMAIN rows # {} /\ MeshRows.boundary = rows
    BY <1>2, <1>3, <1>5
  <2>2. Surface = BoundaryNormals(rows)
    BY <2>1 DEF Surface
  <2>3. Surface = [c \in Skin(zone) |-> IF Weighted(rows, c) = 0 /\ ~IsPg THEN 1 ELSE Unit(Weighted(rows, c))]
    BY <1>2, <2>2 DEF BoundaryNormals
  <2>4. QED
    BY <1>2, <1>4, <2>3
<1>6. QED
  BY <1>5 DEF SurfaceRight, zone

LEMMA ForceIs ==
  ASSUME Served
  PROVE  ForceRight(SurfaceForce(Surface), client.zone, client.step)
<1> DEFINE zone == GivenZone(client.zone)
           truth == Given(client.zone, client.step)
<1>1. SurfaceRight(Surface, client.zone)
  BY SurfaceIs DEF Served
<1>2. Rows = truth /\ RowIds(client.step) = CellIds(zone)
  BY ServedFacts
<1>3. ASSUME Skin(zone) # {}, Clear(zone) = Skin(zone)
      PROVE  SurfaceForce(Surface) = SumFunction([c \in Skin(zone) |-> Unit(Facing(zone, c)) * truth[c + 1]])
  <2>1. DOMAIN Surface = Skin(zone) /\ \A c \in Skin(zone) : Surface[c] = Unit(Facing(zone, c))
    BY <1>1, <1>3 DEF SurfaceRight
  <2>2. Skin(zone) \subseteq CellIds(zone)
    BY DEF Skin
  <2> HIDE DEF zone, truth
  <2>3. DOMAIN Surface \cap RowIds(client.step) = Skin(zone)
    BY <1>2, <2>1, <2>2
  <2>4. SurfaceForce(Surface) = SumFunction([c \in Skin(zone) |-> Surface[c] * Rows[c + 1]])
    BY <2>1, <2>3 DEF SurfaceForce
  <2>5. [c \in Skin(zone) |-> Surface[c] * Rows[c + 1]] = [c \in Skin(zone) |-> Unit(Facing(zone, c)) * truth[c + 1]]
    BY <1>2, <2>1
  <2>6. QED
    BY <2>4, <2>5
<1>4. QED
  BY <1>3 DEF ForceRight

LEMMA SurfaceTold ==
  ASSUME NEW op, NEW arg, NEW value, NEW name, NEW step, NEW b, NEW doubtful, files' = files,
         answer' = Reply(op, arg, value, name, step, b, doubtful),
         ~doubtful /\ IsGiven(name, step) => /\ op = "surface" => SurfaceRight(value, name)
                                             /\ op = "force" => ForceRight(value, name, step)
  PROVE  SurfaceIsTheSkin'
<1>1. /\ answer'.op = op /\ answer'.value = value /\ answer'.zone = name
      /\ answer'.step = step /\ answer'.doubtful = doubtful
  BY DEF Reply
<1>2. Truth' = Given(name, step) /\ GivenZone(answer.zone)' = GivenZone(name)
  BY <1>1 DEF Truth, Given, FilesOf, GivenZone
<1>3. \A o : Claimed(o)' => o = op /\ ~doubtful /\ IsGiven(name, step)
  BY <1>1 DEF Claimed, IsGiven, FilesOf
<1>4. QED
  BY <1>1, <1>2, <1>3 DEF SurfaceIsTheSkin, SurfaceRight, ForceRight

LEMMA NoSurfaceTold ==
  ASSUME answer' = NoAnswer \/ answer'.op \notin {"surface", "force"} \/ answer'.doubtful
  PROVE  SurfaceIsTheSkin'
  BY DEF SurfaceIsTheSkin, Claimed, NoAnswer

LEMMA ReadingSurface ==
  ASSUME Reading, StoreInv, ClientOK, Remembered, Telltale
  PROVE  SurfaceIsTheSkin'
<1>1. CASE ReadSurface
  <2>1. client # NoClient
    BY <1>1 DEF ReadSurface, Ready
  <2>2. ~client.doubtful /\ client.surface # {} => Kept(client.surface) = Surface
    BY <2>1, KeptIs DEF Remembered
  <2>3. Replies("surface", <<>>, Surface) \/ \E value : Doubts("surface", <<>>, value)
    BY <1>1, <2>2 DEF ReadSurface
  <2>4. CASE \E value : Doubts("surface", <<>>, value)
    BY <2>4, NoSurfaceTold DEF Doubts
  <2>5. CASE Replies("surface", <<>>, Surface)
    <3>1. /\ files' = files
          /\ answer' = Reply("surface", <<>>, Surface, client.zone, client.step, client.backend, FALSE)
      BY <2>5, ReplyIs
    <3>2. IsGiven(client.zone, client.step) => SurfaceRight(Surface, client.zone)
      BY <2>1, SurfaceIs
    <3>3. QED
      BY <3>1, <3>2, SurfaceTold
  <2>6. QED
    BY <2>3, <2>4, <2>5
<1>2. CASE ReadForce
  <2> DEFINE kept == Kept(IF client.normals # {} THEN client.normals ELSE client.surface)
  <2>1. client # NoClient /\ client.surface # {}
    BY <1>2 DEF ReadForce, Readable, Ready
  <2>2. ~client.doubtful => kept = Surface
    BY <2>1, KeptIs DEF Remembered
  <2>3. CASE client.doubtful
    BY <1>2, <2>3, NoSurfaceTold DEF ReadForce, Doubts
  <2>4. CASE ~client.doubtful
    <3>1. Replies("force", <<>>, SurfaceForce(kept))
      BY <1>2, <2>4 DEF ReadForce
    <3>2. Replies("force", <<>>, SurfaceForce(Surface))
      BY <2>2, <2>4, <3>1
    <3>3. /\ files' = files
          /\ answer' = Reply("force", <<>>, SurfaceForce(Surface), client.zone, client.step, client.backend, FALSE)
      BY <3>2, ReplyIs
    <3>4. IsGiven(client.zone, client.step) => ForceRight(SurfaceForce(Surface), client.zone, client.step)
      BY <2>1, ForceIs DEF Served
    <3>5. QED
      BY <3>3, <3>4, SurfaceTold
  <2>5. QED
    BY <2>3, <2>4
<1>3. ASSUME answer'.op \notin {"surface", "force"} PROVE SurfaceIsTheSkin'
  BY <1>3, NoSurfaceTold
<1>4. ASSUME NEW ids, ReadPoints(ids) \/ ReadAggregate(ids) \/ ReadSubmesh(ids) \/ ReadGradients(ids)
      PROVE  SurfaceIsTheSkin'
  BY <1>3, <1>4, RepliesFacts DEF ReadPoints, ReadAggregate, ReadSubmesh, ReadGradients, Reads
<1>5. ASSUME NEW lo, NEW hi, ReadRange(lo, hi) \/ ReadElements(lo, hi) PROVE SurfaceIsTheSkin'
  BY <1>3, <1>5, RepliesFacts DEF ReadRange, ReadElements, Reads
<1>6. ASSUME NEW point, ReadExtrema(point) PROVE SurfaceIsTheSkin'
  BY <1>3, <1>6, RepliesFacts DEF ReadExtrema
<1>7. CASE ReadValueRange \/ ReadMaxDiffs \/ ReadStatistics \/ ReadZones \/ StatementFails("any")
  BY <1>3, <1>7, RepliesFacts DEF ReadValueRange, ReadMaxDiffs, ReadStatistics, ReadZones, StatementFails, Reads
<1>8. CASE PrepareForce
  BY <1>8, NoSurfaceTold DEF PrepareForce
<1>9. QED
  BY <1>1, <1>2, <1>4, <1>5, <1>6, <1>7, <1>8 DEF Reading

LEMMA TellingSurface ==
  ASSUME Telling
  PROVE  SurfaceIsTheSkin'
<1>1. ASSUME answer'.op \notin {"surface", "force"} PROVE SurfaceIsTheSkin'
  BY <1>1, NoSurfaceTold
<1>2. ASSUME NEW step, NEW ids, TellPoints(ids, step) \/ TellSubmesh(ids) PROVE SurfaceIsTheSkin'
  BY <1>1, <1>2, TellsOp DEF TellPoints, TellSubmesh, Tells
<1>3. ASSUME NEW step, NEW lo, NEW hi, TellRange(lo, hi, step) \/ TellElements(lo, hi) \/ TellWithin(lo, hi)
      PROVE  SurfaceIsTheSkin'
  BY <1>1, <1>3, TellsOp DEF TellRange, TellElements, TellWithin, Tells
<1>4. ASSUME NEW step, TellValueRange(step) \/ TellStatistics(step) \/ TellMaxDiffs(step) \/ TellSurface \/ TellZones
      PROVE  SurfaceIsTheSkin'
  BY <1>1, <1>4, TellsOp DEF TellValueRange, TellStatistics, TellMaxDiffs, TellSurface, TellZones, Tells
<1>5. ASSUME NEW point, TellExtrema(point) PROVE SurfaceIsTheSkin'
  <2>1. answer'.op \in {"extrema", "any"}
    BY <1>5, TellsOp DEF TellExtrema
  <2>2. QED
    BY <1>1, <2>1
<1>6. QED
  BY <1>2, <1>3, <1>4, <1>5, Zenon DEF Telling

\* If the names of zones tell their series apart, a surface that is not doubtful is the skin of the
\* zone of the client with its normals looking away from the mesh, and the force is the sum over
\* it, remembered or not, after any other calls (surface_cells_and_normals,
\* prepare_surface_force_query, surface_force_query).
THEOREM SurfaceFaithful ==
  ASSUME \A input \in FileSets : LeavesTell(input)
  PROVE  SpecAll => []SurfaceIsTheSkin
<1>1. InitAll => SurfaceIsTheSkin
  BY DEF InitAll, Init, SurfaceIsTheSkin, Claimed, NoAnswer
<1>2. MInv /\ SurfaceIsTheSkin /\ [NextAll]_every => SurfaceIsTheSkin'
  <2> SUFFICES ASSUME MInv, SurfaceIsTheSkin, [NextAll]_every PROVE SurfaceIsTheSkin'
    OBVIOUS
  <2>1. CASE answer' = NoAnswer
    BY <2>1, NoSurfaceTold
  <2>2. CASE Reading
    BY <2>2, CanTell, ReadingSurface DEF MInv, IInv
  <2>3. CASE Telling
    BY <2>3, TellingSurface
  <2>4. CASE UNCHANGED <<files, answer>>
    <3>1. answer' = answer /\ files' = files
      BY <2>4
    <3>2. QED
      BY <2>4, <3>1, SameAnswer DEF SurfaceIsTheSkin, GivenZone
  <2>5. QED
    BY <2>1, <2>2, <2>3, <2>4, Answered
<1>3. QED
  BY <1>1, <1>2, Remembers, PTL DEF SpecAll

=============================================================================
