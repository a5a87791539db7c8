---------------------------- MODULE IngestProofs ----------------------------
(***************************************************************************)
(* Proofs about Ingest, for every set of zones, steps, sources and         *)
(* selections, and any number of ingests and faults.                       *)
(***************************************************************************)
EXTENDS Ingest, SequenceLemmas

WriteSet == [drop : SUBSET Parts, put : SUBSET Parts, from : Seq(Parts)]

\* A write leaves a part alone; or the part is of the current ingest after it.
Spares(w, part) == part \notin w.drop \cup w.put
Renews(w, part) == part \in w.put /\ w.from = <<>>

\* After the writes before position p, the part is of the current ingest.
LeftBefore(seq, p, part) ==
  \E i \in 1..Len(seq) :
    /\ i < p /\ Renews(seq[i], part)
    /\ \A j \in 1..Len(seq) : i < j /\ j < p => Spares(seq[j], part) \/ Renews(seq[j], part)

\* After all of them it is, whatever it was before, or if it was.
Leaves(seq, part) == LeftBefore(seq, Len(seq) + 1, part)
Keeps(seq, part) == \A j \in 1..Len(seq) : Spares(seq[j], part) \/ Renews(seq[j], part)
Handles(seq, part) == Leaves(seq, part) \/ Keeps(seq, part)
EachHandles(blocks, part) == \A i \in 1..Len(blocks) : Handles(blocks[i], part)
EachKeeps(blocks, part) == \A i \in 1..Len(blocks) : Keeps(blocks[i], part)

-----------------------------------------------------------------------------
(* Sequences of writes, of any length.                                     *)

LEMMA ConcatElements ==
  ASSUME NEW S, NEW a \in Seq(S), NEW b \in Seq(S)
  PROVE  /\ Len(a) \in Nat /\ Len(b) \in Nat /\ Len(a \o b) = Len(a) + Len(b) /\ a \o b \in Seq(S)
         /\ \A i \in 1..Len(a) : (a \o b)[i] = a[i]
         /\ \A i \in 1..Len(b) : (a \o b)[Len(a) + i] = b[i]
         /\ \A i \in 1..Len(a \o b) : i > Len(a) => i - Len(a) \in 1..Len(b) /\ (a \o b)[i] = b[i - Len(a)]
  OBVIOUS

LEMMA ConcatKeeps ==
  ASSUME NEW S, NEW a \in Seq(S), NEW b \in Seq(S), NEW part, Keeps(a, part), Keeps(b, part)
  PROVE  Keeps(a \o b, part)
<1> DEFINE c == a \o b
<1>1. SUFFICES ASSUME NEW j \in 1..Len(c) PROVE Spares(c[j], part) \/ Renews(c[j], part)
  BY DEF Keeps
<1>2. CASE j <= Len(a)
  <2>1. j \in 1..Len(a) /\ c[j] = a[j]
    BY <1>2, ConcatElements
  <2>2. QED
    BY <2>1 DEF Keeps
<1>3. CASE j > Len(a)
  <2>1. j - Len(a) \in 1..Len(b) /\ c[j] = b[j - Len(a)]
    BY <1>3, ConcatElements
  <2>2. QED
    BY <2>1 DEF Keeps
<1>4. QED
  BY <1>2, <1>3, ConcatElements

\* What the first sequence leaves is there at any position of the second that keeps it.
LEMMA LeftByFirst ==
  ASSUME NEW S, NEW a \in Seq(S), NEW b \in Seq(S), NEW part, Leaves(a, part),
         NEW p \in Nat, p > Len(a), p = Len(a) + 1 \/ Keeps(b, part)
  PROVE  LeftBefore(a \o b, p, part)
<1> DEFINE c == a \o b
<1>1. PICK i \in 1..Len(a) :
        /\ Renews(a[i], part)
        /\ \A j \in 1..Len(a) : i < j /\ j < Len(a) + 1 => Spares(a[j], part) \/ Renews(a[j], part)
  BY DEF Leaves, LeftBefore
<1>2. i \in 1..Len(c) /\ i < p /\ c[i] = a[i]
  BY ConcatElements
<1>3. ASSUME NEW j \in 1..Len(c), i < j, j < p PROVE Spares(c[j], part) \/ Renews(c[j], part)
  <2>1. CASE j <= Len(a)
    <3>1. j \in 1..Len(a) /\ j < Len(a) + 1 /\ c[j] = a[j]
      BY <2>1, ConcatElements
    <3>2. QED
      BY <1>1, <1>3, <3>1
  <2>2. CASE j > Len(a)
    <3>1. j - Len(a) \in 1..Len(b) /\ c[j] = b[j - Len(a)] /\ p # Len(a) + 1
      BY <1>3, <2>2, ConcatElements
    <3>2. QED
      BY <3>1 DEF Keeps
  <2>3. QED
    BY <2>1, <2>2, ConcatElements
<1>4. QED
  BY <1>1, <1>2, <1>3 DEF LeftBefore

LEMMA LeftBySecond ==
  ASSUME NEW S, NEW a \in Seq(S), NEW b \in Seq(S), NEW part, Leaves(b, part)
  PROVE  Leaves(a \o b, part)
<1> DEFINE c == a \o b
           m == Len(a)
<1>1. PICK i \in 1..Len(b) :
        /\ Renews(b[i], part)
        /\ \A j \in 1..Len(b) : i < j /\ j < Len(b) + 1 => Spares(b[j], part) \/ Renews(b[j], part)
  BY DEF Leaves, LeftBefore
<1>2. m + i \in 1..Len(c) /\ m + i < Len(c) + 1 /\ c[m + i] = b[i]
  BY ConcatElements
<1>3. ASSUME NEW j \in 1..Len(c), m + i < j PROVE Spares(c[j], part) \/ Renews(c[j], part)
  <2>1. j > m /\ j - m \in 1..Len(b) /\ c[j] = b[j - m] /\ i < j - m /\ j - m < Len(b) + 1
    BY <1>3, ConcatElements
  <2>2. QED
    BY <1>1, <2>1
<1>4. QED
  BY <1>1, <1>2, <1>3 DEF Leaves, LeftBefore

LEMMA ConcatHandles ==
  ASSUME NEW S, NEW a \in Seq(S), NEW b \in Seq(S), NEW part, Handles(a, part), Handles(b, part)
  PROVE  Handles(a \o b, part) /\ (Leaves(a, part) \/ Leaves(b, part) => Leaves(a \o b, part))
<1>1. ASSUME Leaves(a, part), Keeps(b, part) PROVE Leaves(a \o b, part)
  <2>1. Len(a \o b) + 1 \in Nat /\ Len(a \o b) + 1 > Len(a)
    BY ConcatElements
  <2>2. QED
    BY <1>1, <2>1, LeftByFirst DEF Leaves
<1>2. ASSUME Leaves(b, part) PROVE Leaves(a \o b, part)
  BY <1>2, LeftBySecond
<1>3. ASSUME Keeps(a, part), Keeps(b, part) PROVE Keeps(a \o b, part)
  BY <1>3, ConcatKeeps
<1>4. QED
  BY <1>1, <1>2, <1>3 DEF Handles

\* A part that every block keeps or leaves is left by all of them if one does.
LEMMA FlattenLeaves ==
  ASSUME NEW S, NEW blocks \in Seq(Seq(S)), NEW part, EachHandles(blocks, part),
         NEW k \in 1..Len(blocks), Leaves(blocks[k], part)
  PROVE  Leaves(FlattenSeq(blocks), part)
<1> DEFINE F(n) == FlattenSeq(SubSeq(blocks, 1, n))
           good == {n \in 0..Len(blocks) : Handles(F(n), part) /\ (n >= k => Leaves(F(n), part))}
<1>1. Len(blocks) \in Nat
  OBVIOUS
<1>2. 0 \in good
  <2>1. F(0) = <<>>
    BY AllOf, FlattenEmpty, Zenon
  <2>2. Keeps(<<>>, part)
    BY DEF Keeps
  <2>3. Handles(F(0), part)
    BY <2>1, <2>2, Zenon DEF Handles
  <2>4. 0 \in 0..Len(blocks) /\ ~(0 >= k)
    BY <1>1
  <2> HIDE DEF F
  <2>5. QED
    BY <2>3, <2>4
<1>3. ASSUME NEW n \in 0..Len(blocks), n < Len(blocks), n \in good PROVE n + 1 \in good
  <2>1. n \in Nat /\ n + 1 \in 0..Len(blocks) /\ n + 1 \in 1..Len(blocks)
    BY <1>1, <1>3
  <2>2. blocks[n + 1] \in Seq(S) /\ F(n) \in Seq(S)
    BY <2>1, ElementOf, FlattenInSeq
  <2>3. F(n + 1) = F(n) \o blocks[n + 1]
    BY <1>3, <2>1, FlattenStep
  <2>4. Handles(F(n), part) /\ (n >= k => Leaves(F(n), part))
    BY <1>3
  <2>5. Handles(blocks[n + 1], part) /\ (n + 1 = k => Leaves(blocks[n + 1], part))
    BY <2>1 DEF EachHandles
  <2> HIDE DEF F
  <2>6. Handles(F(n) \o blocks[n + 1], part)
        /\ (Leaves(F(n), part) \/ Leaves(blocks[n + 1], part) => Leaves(F(n) \o blocks[n + 1], part))
    BY <2>2, <2>4, <2>5, ConcatHandles
  <2>7. n + 1 >= k => n >= k \/ n + 1 = k
    BY <2>1
  <2>8. QED
    BY <2>1, <2>3, <2>4, <2>5, <2>6, <2>7
<1>4. Len(blocks) \in good
  <2> HIDE DEF good
  <2>1. \A n \in 0..Len(blocks) : n \in good
    BY <1>1, <1>2, <1>3, Climb
  <2>2. QED
    BY <1>1, <2>1
<1>5. Leaves(F(Len(blocks)), part)
  BY <1>1, <1>4
<1>6. QED
  BY <1>5, AllOf, Zenon

\* A part that every block keeps is kept by all of them.
LEMMA FlattenKeeps ==
  ASSUME NEW S, NEW blocks \in Seq(Seq(S)), NEW part, EachKeeps(blocks, part)
  PROVE  Keeps(FlattenSeq(blocks), part)
<1> DEFINE F(n) == FlattenSeq(SubSeq(blocks, 1, n))
           good == {n \in 0..Len(blocks) : Keeps(F(n), part)}
<1>1. Len(blocks) \in Nat
  OBVIOUS
<1>2. 0 \in good
  <2>1. F(0) = <<>>
    BY AllOf, FlattenEmpty, Zenon
  <2>2. Keeps(<<>>, part)
    BY DEF Keeps
  <2>3. Keeps(F(0), part) /\ 0 \in 0..Len(blocks)
    BY <1>1, <2>1, <2>2
  <2> HIDE DEF F
  <2>4. QED
    BY <2>3
<1>3. ASSUME NEW n \in 0..Len(blocks), n < Len(blocks), n \in good PROVE n + 1 \in good
  <2>1. n \in Nat /\ n + 1 \in 0..Len(blocks) /\ n + 1 \in 1..Len(blocks)
    BY <1>1, <1>3
  <2>2. blocks[n + 1] \in Seq(S) /\ F(n) \in Seq(S)
    BY <2>1, ElementOf, FlattenInSeq
  <2>3. F(n + 1) = F(n) \o blocks[n + 1]
    BY <1>3, <2>1, FlattenStep
  <2>4. Keeps(F(n), part) /\ Keeps(blocks[n + 1], part)
    BY <1>3, <2>1 DEF EachKeeps
  <2> HIDE DEF F
  <2>5. QED
    BY <2>1, <2>2, <2>3, <2>4, ConcatKeeps
<1>4. Len(blocks) \in good
  <2> HIDE DEF good
  <2>1. \A n \in 0..Len(blocks) : n \in good
    BY <1>1, <1>2, <1>3, Climb
  <2>2. QED
    BY <1>1, <2>1
<1>5. QED
  BY <1>4, AllOf, Zenon

-----------------------------------------------------------------------------
(* What sequences of writes leave.                                         *)

\* All parts but the spatial layers, which are computed from stored ones.
Lasting == {part \in Parts : \A z \in Zones : part # Geom(z) /\ part # Locator(z)}

Fills(seq, parts) == seq \in Seq(WriteSet) /\ \A part \in parts : Leaves(seq, part)
Brings(seq, parts) == Fills(seq, parts) /\ \A part \in Lasting : Handles(seq, part)
EachBrings(blocks, parts) == \A i \in 1..Len(blocks) : Brings(blocks[i], parts[i])

LEMMA BringsNothing == Brings(<<>>, {})
<1>1. <<>> \in Seq(WriteSet) /\ \A part : Keeps(<<>>, part)
  BY DEF Keeps
<1>2. QED
  BY <1>1 DEF Brings, Fills, Handles

LEMMA FillsThenBrings ==
  ASSUME NEW a, NEW b, NEW A, NEW B, A \subseteq Lasting, Fills(a, A), Brings(b, B)
  PROVE  Fills(a \o b, A \cup B)
<1>1. a \in Seq(WriteSet) /\ b \in Seq(WriteSet) /\ a \o b \in Seq(WriteSet)
  BY ConcatElements DEF Fills, Brings
<1>2. ASSUME NEW part \in A PROVE Leaves(a \o b, part)
  <2>1. Leaves(a, part) /\ Handles(b, part) /\ Handles(a, part)
    BY DEF Fills, Brings, Handles
  <2>2. QED
    BY <1>1, <2>1, ConcatHandles
<1>3. ASSUME NEW part \in B PROVE Leaves(a \o b, part)
  <2>1. Leaves(b, part)
    BY DEF Fills, Brings
  <2>2. QED
    BY <1>1, <2>1, LeftBySecond
<1>4. QED
  BY <1>1, <1>2, <1>3 DEF Fills

LEMMA ConcatBrings ==
  ASSUME NEW a, NEW b, NEW A, NEW B, A \subseteq Lasting, Brings(a, A), Brings(b, B)
  PROVE  Brings(a \o b, A \cup B)
<1>1. Fills(a \o b, A \cup B)
  BY FillsThenBrings DEF Brings
<1>2. ASSUME NEW part \in Lasting PROVE Handles(a \o b, part)
  <2>1. a \in Seq(WriteSet) /\ b \in Seq(WriteSet) /\ Handles(a, part) /\ Handles(b, part)
    BY DEF Brings, Fills
  <2>2. QED
    BY <2>1, ConcatHandles
<1>3. QED
  BY <1>1, <1>2 DEF Brings

LEMMA FlattenBrings ==
  ASSUME NEW blocks \in Seq(Seq(WriteSet)), NEW parts, EachBrings(blocks, parts),
         \A i \in 1..Len(blocks) : parts[i] \subseteq Lasting
  PROVE  Brings(FlattenSeq(blocks), UNION {parts[i] : i \in 1..Len(blocks)})
<1>1. FlattenSeq(blocks) \in Seq(WriteSet)
  BY FlattenInSeq
<1>2. ASSUME NEW part \in Lasting PROVE EachHandles(blocks, part)
  BY DEF EachBrings, Brings, EachHandles
<1>3. ASSUME NEW k \in 1..Len(blocks), NEW part \in parts[k] PROVE Leaves(FlattenSeq(blocks), part)
  <2>1. Leaves(blocks[k], part) /\ part \in Lasting
    BY DEF EachBrings, Brings, Fills
  <2>2. QED
    BY <1>2, <2>1, FlattenLeaves
<1>4. ASSUME NEW part \in Lasting PROVE Handles(FlattenSeq(blocks), part)
  <2>1. CASE \E k \in 1..Len(blocks) : Leaves(blocks[k], part)
    BY <1>2, <2>1, FlattenLeaves DEF Handles
  <2>2. CASE ~\E k \in 1..Len(blocks) : Leaves(blocks[k], part)
    <3>1. EachKeeps(blocks, part)
      BY <1>2, <2>2 DEF EachHandles, EachKeeps, Handles
    <3>2. QED
      BY <3>1, FlattenKeeps DEF Handles
  <2>3. QED
    BY <2>1, <2>2
<1>5. QED
  BY <1>1, <1>3, <1>4 DEF Brings, Fills

LEMMA WriteFields ==
  ASSUME NEW drop, NEW put, NEW from
  PROVE  /\ Write(drop, put, from).drop = drop /\ Write(drop, put, from).put = put
         /\ Write(drop, put, from).from = from
  BY DEF Write

LEMMA OneWrite ==
  ASSUME NEW drop \in SUBSET Parts, NEW put \in SUBSET Parts, NEW from \in Seq(Parts)
  PROVE  LET w == Write(drop, put, from) IN
         /\ w \in WriteSet /\ <<w>> \in Seq(WriteSet) /\ Len(<<w>>) = 1 /\ <<w>>[1] = w
         /\ \A part : (part \in put /\ from = <<>> => Leaves(<<w>>, part))
                      /\ (part \notin drop \cup put => Keeps(<<w>>, part))
<1> DEFINE w == Write(drop, put, from)
<1>1. w \in WriteSet /\ w.drop = drop /\ w.put = put /\ w.from = from
  BY DEF Write, WriteSet
<1> HIDE DEF w
<1>2. <<w>> \in Seq(WriteSet) /\ Len(<<w>>) = 1 /\ <<w>>[1] = w
  BY <1>1
<1>3. ASSUME NEW part, part \in put, from = <<>> PROVE Leaves(<<w>>, part)
  <2>1. Renews(w, part)
    BY <1>1, <1>3 DEF Renews
  <2>2. QED
    BY <1>2, <2>1 DEF Leaves, LeftBefore
<1>4. ASSUME NEW part, part \notin drop \cup put PROVE Keeps(<<w>>, part)
  <2>1. Spares(w, part)
    BY <1>1, <1>4 DEF Spares
  <2>2. QED
    BY <1>2, <2>1 DEF Keeps
<1>5. QED
  BY <1>1, <1>2, <1>3, <1>4 DEF w

\* A write that puts what it drops, of the source.
LEMMA WriteBrings ==
  ASSUME NEW drop \in SUBSET Parts, NEW put \in SUBSET Parts, drop \cap Lasting \subseteq put
  PROVE  Brings(<<Write(drop, put, <<>>)>>, put)
<1>1. <<>> \in Seq(Parts)
  OBVIOUS
<1>2. QED
  BY <1>1, OneWrite DEF Brings, Fills, Handles, Lasting

LEMMA DropPutReplace ==
  ASSUME NEW parts \in SUBSET Parts
  PROVE  /\ Drop(parts) \in Seq(WriteSet) /\ Len(Drop(parts)) = 1
         /\ Brings(Put(parts), parts)
         /\ parts \subseteq Lasting => Brings(Replace(parts), parts)
<1>1. <<>> \in Seq(Parts) /\ {} \in SUBSET Parts
  OBVIOUS
<1>2. Drop(parts) \in Seq(WriteSet) /\ Len(Drop(parts)) = 1
      /\ \A part : part \notin parts => Keeps(Drop(parts), part)
  BY <1>1, OneWrite DEF Drop
<1>3. Brings(Put(parts), parts)
  BY <1>1, WriteBrings DEF Put
<1>4. ASSUME parts \subseteq Lasting PROVE Brings(Replace(parts), parts)
  <2>1. Put(parts) \in Seq(WriteSet) /\ Drop(parts) \o Put(parts) \in Seq(WriteSet)
    BY <1>2, <1>3, ConcatElements DEF Brings, Fills
  <2>2. ASSUME NEW part \in parts PROVE Leaves(Drop(parts) \o Put(parts), part)
    <3>1. Leaves(Put(parts), part)
      BY <1>3 DEF Brings, Fills
    <3>2. QED
      BY <1>2, <2>1, <3>1, LeftBySecond
  <2>3. ASSUME NEW part \in Lasting \ parts PROVE Handles(Drop(parts) \o Put(parts), part)
    <3>1. Handles(Drop(parts), part) /\ Handles(Put(parts), part)
      BY <1>2, <1>3 DEF Brings, Handles
    <3>2. QED
      BY <1>2, <2>1, <3>1, ConcatHandles
  <2>4. ASSUME NEW part \in Lasting PROVE Handles(Drop(parts) \o Put(parts), part)
    BY <2>2, <2>3 DEF Handles
  <2>5. QED
    BY <2>1, <2>2, <2>4 DEF Replace, Brings, Fills
<1>5. QED
  BY <1>2, <1>3, <1>4

-----------------------------------------------------------------------------
(* Sources and parts.                                                      *)

LEMMA SourceFacts ==
  ASSUME NEW src \in Sources
  PROVE  /\ src.kind \in {"cfd", "h5"}
         /\ src.zones \in Seq(Zones) /\ src.zones # <<>> /\ Len(src.zones) \in Nat /\ Len(src.zones) >= 1
         /\ src.steps \in Seq(Steps)
         /\ ToSet(src.zones) \subseteq Zones
         /\ Head(src.zones) \in ToSet(src.zones) /\ Head(src.zones) \in Zones
         /\ \A b : StepsFor(b, src) \in Seq(Steps)
         /\ src.kind = "h5" => ToSet(src.zones) = {Head(src.zones)} /\ \A b : StepsFor(b, src) = src.steps
<1>1. src \in [kind : {"cfd", "h5"}, zones : Seq(Zones) \ {<<>>}, steps : Seq(Steps),
               given : Steps \cup {0}, spatial : BOOLEAN]
      /\ (src.kind = "h5" => Len(src.zones) = 1 /\ src.given = 0)
  BY SourceAssumption
<1>2. /\ src.kind \in {"cfd", "h5"} /\ src.zones \in Seq(Zones) /\ src.zones # <<>>
      /\ src.steps \in Seq(Steps) /\ src.given \in Steps \cup {0}
  BY <1>1
<1>3. Len(src.zones) \in Nat /\ Len(src.zones) >= 1 /\ Head(src.zones) = src.zones[1] /\ src.zones[1] \in Zones
  BY <1>2
<1>4. ToSet(src.zones) = {src.zones[i] : i \in 1..Len(src.zones)} /\ ToSet(src.zones) \subseteq Zones
  BY <1>2 DEF ToSet
<1>5. ASSUME NEW b PROVE StepsFor(b, src) \in Seq(Steps)
  BY <1>2 DEF StepsFor
<1>6. ASSUME src.kind = "h5" PROVE ToSet(src.zones) = {Head(src.zones)} /\ \A b : StepsFor(b, src) = src.steps
  <2>1. Len(src.zones) = 1 /\ src.given = 0
    BY <1>1, <1>6
  <2>2. \A i \in 1..Len(src.zones) : i = 1
    BY <2>1
  <2>3. ToSet(src.zones) = {Head(src.zones)}
    BY <1>3, <1>4, <2>1, <2>2
  <2>4. QED
    BY <2>1, <2>3 DEF StepsFor
<1>7. Head(src.zones) \in ToSet(src.zones)
  BY <1>3, <1>4
<1>8. QED
  BY <1>2, <1>3, <1>4, <1>5, <1>6, <1>7, Zenon

LEMMA ValuePartsFacts ==
  ASSUME NEW zones \in SUBSET Zones, NEW steps \in SUBSET Steps
  PROVE  \A part : part \in ValueParts(zones, steps) <=>
                     \E z \in zones, s \in steps : part = Values(z, s) \/ part = Nodal(z, s)
<1> DEFINE all == {{Values(z, s), Nodal(z, s)} : z \in zones, s \in steps}
<1>1. \A set : set \in all <=> \E z \in zones, s \in steps : set = {Values(z, s), Nodal(z, s)}
  OBVIOUS
<1>2. \A part : part \in UNION all <=> \E set \in all : part \in set
  OBVIOUS
<1>3. ValueParts(zones, steps) = UNION all
  BY DEF ValueParts
<1> HIDE DEF all
<1>4. ASSUME NEW part \in ValueParts(zones, steps)
      PROVE  \E z \in zones, s \in steps : part = Values(z, s) \/ part = Nodal(z, s)
  <2>1. PICK set \in all : part \in set
    BY <1>2, <1>3
  <2>2. QED
    BY <1>1, <2>1
<1>5. ASSUME NEW z \in zones, NEW s \in steps
      PROVE  Values(z, s) \in ValueParts(zones, steps) /\ Nodal(z, s) \in ValueParts(zones, steps)
  <2>1. {Values(z, s), Nodal(z, s)} \in all
    BY <1>1
  <2>2. QED
    BY <1>2, <1>3, <2>1
<1>6. QED
  BY <1>4, <1>5, Zenon

LEMMA ZonePartsFacts ==
  \A part : part \in UNION {{Mesh(z), Bounds(z), Geom(z), Locator(z)} : z \in Zones} <=>
    \E z \in Zones : part = Mesh(z) \/ part = Bounds(z) \/ part = Geom(z) \/ part = Locator(z)
<1> DEFINE all == {{Mesh(z), Bounds(z), Geom(z), Locator(z)} : z \in Zones}
<1>1. \A set : set \in all <=> \E z \in Zones : set = {Mesh(z), Bounds(z), Geom(z), Locator(z)}
  OBVIOUS
<1>2. \A part : part \in UNION all <=> \E set \in all : part \in set
  OBVIOUS
<1> HIDE DEF all
<1>3. ASSUME NEW part \in UNION all
      PROVE  \E z \in Zones : part = Mesh(z) \/ part = Bounds(z) \/ part = Geom(z) \/ part = Locator(z)
  <2>1. PICK set \in all : part \in set
    BY <1>2
  <2>2. QED
    BY <1>1, <2>1
<1>4. ASSUME NEW z \in Zones
      PROVE  Mesh(z) \in UNION all /\ Bounds(z) \in UNION all /\ Geom(z) \in UNION all /\ Locator(z) \in UNION all
  <2>1. {Mesh(z), Bounds(z), Geom(z), Locator(z)} \in all
    BY <1>1
  <2>2. QED
    BY <1>2, <2>1
<1>5. \A part : part \in UNION all <=>
        \E z \in Zones : part = Mesh(z) \/ part = Bounds(z) \/ part = Geom(z) \/ part = Locator(z)
  BY <1>3, <1>4, Zenon
<1>6. QED
  BY <1>5, Zenon DEF all

LEMMA InParts ==
  \A part : part \in Parts <=>
    \/ \E z \in Zones : part = Mesh(z) \/ part = Bounds(z) \/ part = Geom(z) \/ part = Locator(z)
    \/ part \in ValueParts(Zones, Steps)
    \/ \E s \in Steps : part = Diff(s)
    \/ part \in {H5Meta, H5Frames, CfdMeta, Manifest}
<1> DEFINE A == UNION {{Mesh(z), Bounds(z), Geom(z), Locator(z)} : z \in Zones}
           B == ValueParts(Zones, Steps)
           C == {Diff(s) : s \in Steps}
           D == {H5Meta, H5Frames, CfdMeta, Manifest}
<1>1. \A part : part \in A <=>
        \E z \in Zones : part = Mesh(z) \/ part = Bounds(z) \/ part = Geom(z) \/ part = Locator(z)
  BY ZonePartsFacts, Zenon
<1>2. \A part : part \in C <=> \E s \in Steps : part = Diff(s)
  OBVIOUS
<1>3. \A part : part \in Parts <=> part \in A \/ part \in B \/ part \in C \/ part \in D
  <2>1. Parts = A \cup B \cup C \cup D
    BY DEF Parts
  <2> HIDE DEF A, B, C, D
  <2>2. QED
    BY <2>1
<1> HIDE DEF A, B, C, D
<1>4. \A part : part \in Parts <=>
        \/ \E z \in Zones : part = Mesh(z) \/ part = Bounds(z) \/ part = Geom(z) \/ part = Locator(z)
        \/ part \in B \/ (\E s \in Steps : part = Diff(s)) \/ part \in D
  BY <1>1, <1>2, <1>3, Zenon
<1>5. QED
  BY <1>4, Zenon DEF B, D

\* Parts of different names or zones are different.
LEMMA PartsDiffer ==
  \A x, y, s, t :
    /\ Mesh(x) # Geom(y) /\ Mesh(x) # Locator(y) /\ Bounds(x) # Geom(y) /\ Bounds(x) # Locator(y)
    /\ Mesh(x) # Bounds(y) /\ Geom(x) # Locator(y)
    /\ Mesh(x) # Values(y, s) /\ Mesh(x) # Nodal(y, s) /\ Bounds(x) # Values(y, s) /\ Bounds(x) # Nodal(y, s)
    /\ Geom(x) # Values(y, s) /\ Geom(x) # Nodal(y, s) /\ Locator(x) # Values(y, s) /\ Locator(x) # Nodal(y, s)
    /\ Values(x, t) # Nodal(y, s)
    /\ Diff(s) # Geom(y) /\ Diff(s) # Locator(y)
    /\ Manifest # Values(y, s) /\ Manifest # Nodal(y, s)
    /\ Mesh(x) = Mesh(y) => x = y
    /\ Bounds(x) = Bounds(y) => x = y
    /\ Geom(x) = Geom(y) => x = y
    /\ Locator(x) = Locator(y) => x = y
    /\ Values(x, s) = Values(y, t) => x = y /\ s = t
    /\ Nodal(x, s) = Nodal(y, t) => x = y /\ s = t
  BY DEF Mesh, Geom, Locator, Bounds, Values, Nodal, Diff, Manifest

LEMMA PartFacts ==
  /\ Lasting \subseteq Parts
  /\ \A z \in Zones : {Mesh(z), Bounds(z), Geom(z), Locator(z)} \subseteq Parts /\ {Mesh(z), Bounds(z)} \subseteq Lasting
  /\ \A z \in Zones, s \in Steps : {Values(z, s), Nodal(z, s)} \subseteq Lasting
  /\ \A s \in Steps : Diff(s) \in Lasting
  /\ {H5Meta, H5Frames, CfdMeta, Manifest} \subseteq Lasting
<1>1. Lasting \subseteq Parts
  BY DEF Lasting
<1>2. ASSUME NEW z \in Zones
      PROVE {Mesh(z), Bounds(z), Geom(z), Locator(z)} \subseteq Parts
  BY InParts
<1>3. ASSUME NEW z \in Zones PROVE {Mesh(z), Bounds(z)} \subseteq Lasting
  BY <1>2, PartsDiffer DEF Lasting
<1>4. ASSUME NEW z \in Zones, NEW s \in Steps PROVE {Values(z, s), Nodal(z, s)} \subseteq Lasting
  <2>1. Values(z, s) \in ValueParts(Zones, Steps) /\ Nodal(z, s) \in ValueParts(Zones, Steps)
    BY ValuePartsFacts
  <2>2. {Values(z, s), Nodal(z, s)} \subseteq Parts
    BY <2>1, InParts
  <2>3. QED
    BY <2>2, PartsDiffer DEF Lasting
<1>5. ASSUME NEW s \in Steps PROVE Diff(s) \in Lasting
  <2>1. Diff(s) \in Parts
    BY InParts
  <2>2. QED
    BY <2>1, PartsDiffer DEF Lasting
<1>6. {H5Meta, H5Frames, CfdMeta, Manifest} \subseteq Lasting
  <2>1. {H5Meta, H5Frames, CfdMeta, Manifest} \subseteq Parts
    BY InParts
  <2>2. QED
    BY <2>1 DEF Lasting, H5Meta, H5Frames, CfdMeta, Manifest, Geom, Locator
<1>7. QED
  BY <1>1, <1>2, <1>3, <1>4, <1>5, <1>6

LEMMA ValuePartsLast ==
  ASSUME NEW zones \in SUBSET Zones, NEW steps \in SUBSET Steps
  PROVE  ValueParts(zones, steps) \subseteq Lasting /\ ValueParts(zones, steps) \subseteq Parts
<1>1. \A z \in zones, s \in steps : Values(z, s) \in Lasting /\ Nodal(z, s) \in Lasting
  BY PartFacts
<1>2. ASSUME NEW part \in ValueParts(zones, steps) PROVE part \in Lasting
  BY <1>1, ValuePartsFacts
<1>3. QED
  BY <1>2, PartFacts

-----------------------------------------------------------------------------
(* What the loaders leave.                                                 *)

\* The parts that a backend has to have of its ingest once that is done.
Needed(b, src) ==
  LET zones == ToSet(src.zones)
      steps == ToSet(StepsFor(b, src))
  IN {Values(z, s) : z \in zones, s \in steps}
       \cup (IF src.kind = "h5" /\ b # "vtk" THEN {Nodal(z, s) : z \in zones, s \in steps} ELSE {})
       \cup (IF b # "vtk" THEN {Mesh(z) : z \in zones} ELSE {})
       \cup (IF b \in {"iotdb", "tiledb"} /\ (src.kind = "h5" \/ FluidZone \in zones)
             THEN {Diff(s) : s \in steps} ELSE {})
       \cup (CASE b = "vtk" -> {Manifest} [] b = "postgresql" -> {}
               [] OTHER -> IF src.kind = "h5" THEN {H5Meta, H5Frames} ELSE {CfdMeta})

LEMMA BringsLess ==
  ASSUME NEW a, NEW A, NEW B, Brings(a, A), B \subseteq A
  PROVE  Brings(a, B)
  BY DEF Brings, Fills

LEMMA BlocksBring ==
  ASSUME NEW n \in Nat, NEW blocks, blocks = [i \in 1..n |-> blocks[i]], NEW parts,
         \A i \in 1..n : Brings(blocks[i], parts[i]) /\ parts[i] \subseteq Lasting,
         NEW all, \A part \in all : \E i \in 1..n : part \in parts[i]
  PROVE  Brings(FlattenSeq(blocks), all)
<1>1. \A i \in 1..n : blocks[i] \in Seq(WriteSet)
  BY DEF Brings, Fills
<1>2. blocks \in Seq(Seq(WriteSet)) /\ Len(blocks) = n
  BY <1>1
<1>3. EachBrings(blocks, parts) /\ \A i \in 1..Len(blocks) : parts[i] \subseteq Lasting
  BY <1>2 DEF EachBrings
<1>4. Brings(FlattenSeq(blocks), UNION {parts[i] : i \in 1..Len(blocks)})
  BY <1>2, <1>3, FlattenBrings
<1>5. all \subseteq UNION {parts[i] : i \in 1..Len(blocks)}
  BY <1>2
<1>6. QED
  BY <1>4, <1>5, BringsLess

\* Meshes that are replaced zone by zone.
LEMMA MeshesBrought ==
  ASSUME NEW src \in Sources
  PROVE  /\ Brings(Each(src.zones, LAMBDA z : Replace({Mesh(z)})), {Mesh(z) : z \in ToSet(src.zones)})
         /\ {Mesh(z) : z \in ToSet(src.zones)} \subseteq Lasting
<1> DEFINE zones == src.zones
           n == Len(zones)
           blocks == [i \in DOMAIN zones |-> Replace({Mesh(zones[i])})]
           parts == [i \in 1..n |-> {Mesh(zones[i])}]
           all == {Mesh(z) : z \in ToSet(zones)}
<1>1. n \in Nat /\ DOMAIN zones = 1..n /\ ToSet(zones) \subseteq Zones /\ \A i \in 1..n : zones[i] \in Zones
  BY SourceFacts
<1>2. ASSUME NEW i \in 1..n PROVE Brings(blocks[i], parts[i]) /\ parts[i] \subseteq Lasting
  <2>1. blocks[i] = Replace({Mesh(zones[i])}) /\ parts[i] = {Mesh(zones[i])}
    BY <1>1
  <2>2. {Mesh(zones[i])} \subseteq Lasting /\ {Mesh(zones[i])} \in SUBSET Parts
    BY <1>1, PartFacts
  <2>3. QED
    BY <2>1, <2>2, DropPutReplace
<1>3. ASSUME NEW part \in all PROVE \E i \in 1..n : part \in parts[i]
  BY <1>1 DEF ToSet
<1>4. blocks = [i \in 1..n |-> blocks[i]]
  BY <1>1
<1>5. Each(zones, LAMBDA z : Replace({Mesh(z)})) = FlattenSeq(blocks)
  BY DEF Each
<1>6. all \subseteq Lasting
  BY <1>1, PartFacts
<1> HIDE DEF blocks, parts, all, n, zones
<1>7. Brings(FlattenSeq(blocks), all)
  BY <1>1, <1>2, <1>3, <1>4, BlocksBring
<1>8. QED
  BY <1>5, <1>6, <1>7 DEF all, zones

ValuesOf(src, s) == {Values(z, s) : z \in ToSet(src.zones)}

\* The values of a step, brought zone by zone.
LEMMA ZonesBring ==
  ASSUME NEW src \in Sources, NEW s \in Steps, NEW blocks, blocks = [i \in DOMAIN src.zones |-> blocks[i]],
         \A i \in 1..Len(src.zones) : Brings(blocks[i], {Values(src.zones[i], s)})
  PROVE  Brings(FlattenSeq(blocks), ValuesOf(src, s)) /\ ValuesOf(src, s) \subseteq Lasting
<1> DEFINE zones == src.zones
           n == Len(zones)
           parts == [i \in 1..n |-> {Values(zones[i], s)}]
           all == ValuesOf(src, s)
<1>1. n \in Nat /\ DOMAIN zones = 1..n /\ ToSet(zones) \subseteq Zones /\ \A i \in 1..n : zones[i] \in Zones
  BY SourceFacts
<1>2. ASSUME NEW i \in 1..n PROVE Brings(blocks[i], parts[i]) /\ parts[i] \subseteq Lasting
  <2>1. parts[i] = {Values(zones[i], s)} /\ parts[i] \subseteq Lasting
    BY <1>1, PartFacts
  <2>2. QED
    BY <2>1
<1>3. ASSUME NEW part \in all PROVE \E i \in 1..n : part \in parts[i]
  BY <1>1 DEF ToSet, ValuesOf
<1>4. blocks = [i \in 1..n |-> blocks[i]]
  BY <1>1
<1>5. all \subseteq Lasting
  BY <1>1, PartFacts DEF ValuesOf
<1> HIDE DEF parts, all, n, zones
<1>6. Brings(FlattenSeq(blocks), all)
  BY <1>1, <1>2, <1>3, <1>4, BlocksBring
<1>7. QED
  BY <1>5, <1>6 DEF all

\* The frames of an ingest, brought step by step.
LEMMA FramesBring ==
  ASSUME NEW src \in Sources, NEW steps \in Seq(Steps), NEW blocks, blocks = [i \in DOMAIN steps |-> blocks[i]],
         NEW Frame, \A s \in Steps : Frame[s] \subseteq Lasting,
         \A i \in 1..Len(steps) : Brings(blocks[i], Frame[steps[i]])
  PROVE  Brings(FlattenSeq(blocks), UNION {Frame[s] : s \in ToSet(steps)})
         /\ UNION {Frame[s] : s \in ToSet(steps)} \subseteq Lasting
<1> DEFINE n == Len(steps)
           parts == [i \in 1..n |-> Frame[steps[i]]]
           all == UNION {Frame[s] : s \in ToSet(steps)}
<1>1. n \in Nat /\ DOMAIN steps = 1..n /\ \A i \in 1..n : steps[i] \in Steps
  OBVIOUS
<1>2. \A i \in 1..n : parts[i] = Frame[steps[i]]
  BY <1>1
<1>3. \A part \in all : \E i \in 1..n : part \in Frame[steps[i]]
  <2>1. ToSet(steps) = {steps[i] : i \in 1..n}
    BY <1>1 DEF ToSet
  <2> HIDE DEF n
  <2>2. QED
    BY <2>1
<1>4. blocks = [i \in 1..n |-> blocks[i]]
  BY <1>1
<1>5. all \subseteq Lasting
  BY <1>1, <1>3
<1>6. \A i \in 1..n : Brings(blocks[i], parts[i]) /\ parts[i] \subseteq Lasting
  BY <1>1, <1>2
<1>7. \A part \in all : \E i \in 1..n : part \in parts[i]
  BY <1>2, <1>3
<1> HIDE DEF parts, all, n
<1>8. Brings(FlattenSeq(blocks), all)
  BY <1>1, <1>4, <1>6, <1>7, BlocksBring
<1>9. QED
  BY <1>5, <1>8 DEF all

LEMMA IotdbCfdFills ==
  ASSUME NEW src \in Sources, src.kind = "cfd"
  PROVE  Brings(IotdbCfd(src), Needed("iotdb", src))
<1> DEFINE zones == src.zones
           steps == src.steps
           Inner(s) == FlattenSeq([i \in DOMAIN zones |-> Replace({Values(zones[i], s)})])
           diffs(s) == IF FluidZone \in ToSet(zones) THEN Replace({Diff(s)}) ELSE <<>>
           blocks == [i \in DOMAIN steps |-> Inner(steps[i]) \o diffs(steps[i])]
           Frame == [s \in Steps |-> ValuesOf(src, s) \cup (IF FluidZone \in ToSet(zones) THEN {Diff(s)} ELSE {})]
           meshes == {Mesh(z) : z \in ToSet(zones)}
           frames == UNION {Frame[s] : s \in ToSet(steps)}
<1>1. ASSUME NEW s \in Steps PROVE Brings(Inner(s), ValuesOf(src, s)) /\ ValuesOf(src, s) \subseteq Lasting
  <2> DEFINE inner == [i \in DOMAIN zones |-> Replace({Values(zones[i], s)})]
  <2>1. inner = [i \in DOMAIN zones |-> inner[i]]
    OBVIOUS
  <2>2. ASSUME NEW i \in 1..Len(zones) PROVE Brings(inner[i], {Values(zones[i], s)})
    <3>1. zones[i] \in Zones /\ inner[i] = Replace({Values(zones[i], s)})
      BY SourceFacts
    <3>2. {Values(zones[i], s)} \subseteq Lasting /\ {Values(zones[i], s)} \in SUBSET Parts
      BY <3>1, PartFacts
    <3>3. QED
      BY <3>1, <3>2, DropPutReplace
  <2> HIDE DEF inner
  <2>3. Brings(FlattenSeq(inner), ValuesOf(src, s)) /\ ValuesOf(src, s) \subseteq Lasting
    BY <2>1, <2>2, ZonesBring
  <2>4. QED
    BY <2>3 DEF inner
<1>2. ASSUME NEW s \in Steps PROVE Brings(Inner(s) \o diffs(s), Frame[s]) /\ Frame[s] \subseteq Lasting
  <2>1. {Diff(s)} \subseteq Lasting /\ {Diff(s)} \in SUBSET Parts
    BY PartFacts
  <2>2. Brings(Replace({Diff(s)}), {Diff(s)})
    BY <2>1, DropPutReplace
  <2>3. Brings(diffs(s), IF FluidZone \in ToSet(zones) THEN {Diff(s)} ELSE {})
    BY <2>2, BringsNothing
  <2>4. Frame[s] = ValuesOf(src, s) \cup (IF FluidZone \in ToSet(zones) THEN {Diff(s)} ELSE {})
    OBVIOUS
  <2> HIDE DEF Inner, diffs, Frame
  <2>5. QED
    BY <1>1, <2>1, <2>3, <2>4, ConcatBrings
<1>3. Brings(FlattenSeq(blocks), frames) /\ frames \subseteq Lasting
  <2>1. steps \in Seq(Steps) /\ DOMAIN steps = 1..Len(steps) /\ \A i \in 1..Len(steps) : steps[i] \in Steps
    BY SourceFacts
  <2>2. blocks = [i \in DOMAIN steps |-> blocks[i]]
    OBVIOUS
  <2>3. \A i \in 1..Len(steps) : Brings(blocks[i], Frame[steps[i]])
    <3> HIDE DEF Inner, diffs, Frame
    <3>1. QED
      BY <1>2, <2>1
  <2>4. \A s \in Steps : Frame[s] \subseteq Lasting
    BY <1>2
  <2> HIDE DEF blocks, Frame, steps
  <2>5. QED
    BY <2>1, <2>2, <2>3, <2>4, FramesBring, ZenonT(60)
<1>4. Brings(Replace({CfdMeta}), {CfdMeta})
  BY PartFacts, DropPutReplace
<1>5. Brings(Each(zones, LAMBDA z : Replace({Mesh(z)})), meshes) /\ meshes \subseteq Lasting
  BY MeshesBrought
<1>6. IotdbCfd(src) = Each(zones, LAMBDA z : Replace({Mesh(z)})) \o FlattenSeq(blocks) \o Replace({CfdMeta})
  BY DEF IotdbCfd, Each
<1>7. Needed("iotdb", src) \subseteq meshes \cup frames \cup {CfdMeta}
  <2>1. StepsFor("iotdb", src) = steps
    BY DEF StepsFor
  <2>2. ToSet(steps) \subseteq Steps
    BY SourceFacts DEF ToSet
  <2>3. ASSUME NEW part \in Needed("iotdb", src) PROVE part \in meshes \cup frames \cup {CfdMeta}
    <3>1. \/ \E z \in ToSet(zones), s \in ToSet(steps) : part = Values(z, s)
          \/ FluidZone \in ToSet(zones) /\ \E s \in ToSet(steps) : part = Diff(s)
          \/ part \in meshes \/ part = CfdMeta
      BY <2>1 DEF Needed
    <3>2. (\E s \in ToSet(steps) : part \in Frame[s]) => part \in frames
      OBVIOUS
    <3>3. \A s \in ToSet(steps) : Frame[s] = ValuesOf(src, s) \cup (IF FluidZone \in ToSet(zones) THEN {Diff(s)} ELSE {})
      BY <2>2
    <3> HIDE DEF Frame, frames, meshes
    <3>4. QED
      BY <3>1, <3>2, <3>3 DEF ValuesOf
  <2>4. QED
    BY <2>3
<1> HIDE DEF zones, steps, blocks, frames, meshes
<1>8. Brings(IotdbCfd(src), meshes \cup frames \cup {CfdMeta})
  <2>1. Brings(Each(zones, LAMBDA z : Replace({Mesh(z)})) \o FlattenSeq(blocks), meshes \cup frames)
    BY <1>3, <1>5, ConcatBrings
  <2>2. meshes \cup frames \subseteq Lasting
    BY <1>3, <1>5
  <2>3. QED
    BY <1>4, <1>6, <2>1, <2>2, ConcatBrings
<1>9. QED
  BY <1>7, <1>8, BringsLess

LEMMA TiledbCfdFills ==
  ASSUME NEW src \in Sources, src.kind = "cfd"
  PROVE  Brings(TiledbCfd(src), Needed("tiledb", src))
<1> DEFINE zones == src.zones
           n == Len(zones)
           steps == StepsFor("tiledb", src)
           diffs(z, s) == IF z = FluidZone THEN Replace({Diff(s)}) ELSE <<>>
           Inner(s) == FlattenSeq([i \in DOMAIN zones |-> Replace({Values(zones[i], s)}) \o diffs(zones[i], s)])
           blocks == [i \in DOMAIN steps |-> Inner(steps[i])]
           Frame == [s \in Steps |-> ValuesOf(src, s) \cup (IF FluidZone \in ToSet(zones) THEN {Diff(s)} ELSE {})]
           meshes == {Mesh(z) : z \in ToSet(zones)}
           frames == UNION {Frame[s] : s \in ToSet(steps)}
<1>1. ASSUME NEW s \in Steps PROVE Brings(Inner(s), Frame[s]) /\ Frame[s] \subseteq Lasting
  <2> DEFINE inner == [i \in DOMAIN zones |-> Replace({Values(zones[i], s)}) \o diffs(zones[i], s)]
             parts == [i \in 1..n |-> {Values(zones[i], s)} \cup (IF zones[i] = FluidZone THEN {Diff(s)} ELSE {})]
  <2>1. n \in Nat /\ DOMAIN zones = 1..n /\ \A i \in 1..n : zones[i] \in Zones
    BY SourceFacts
  <2>2. ASSUME NEW i \in 1..n PROVE Brings(inner[i], parts[i]) /\ parts[i] \subseteq Lasting
    <3>1. zones[i] \in Zones /\ inner[i] = Replace({Values(zones[i], s)}) \o diffs(zones[i], s)
          /\ parts[i] = {Values(zones[i], s)} \cup (IF zones[i] = FluidZone THEN {Diff(s)} ELSE {})
      BY <2>1
    <3>2. {Values(zones[i], s)} \subseteq Lasting /\ {Values(zones[i], s)} \in SUBSET Parts
          /\ {Diff(s)} \subseteq Lasting /\ {Diff(s)} \in SUBSET Parts
      BY <3>1, PartFacts
    <3>3. Brings(Replace({Values(zones[i], s)}), {Values(zones[i], s)}) /\ Brings(Replace({Diff(s)}), {Diff(s)})
      BY <3>2, DropPutReplace
    <3>4. Brings(diffs(zones[i], s), IF zones[i] = FluidZone THEN {Diff(s)} ELSE {})
      BY <3>3, BringsNothing
    <3> DEFINE extra == IF zones[i] = FluidZone THEN {Diff(s)} ELSE {}
               own == {Values(zones[i], s)}
    <3>5. parts[i] = own \cup extra /\ extra \subseteq Lasting /\ own \subseteq Lasting
      BY <3>1, <3>2
    <3>6. Brings(Replace(own), own) /\ Brings(diffs(zones[i], s), extra)
          /\ inner[i] = Replace(own) \o diffs(zones[i], s)
      BY <3>1, <3>3, <3>4
    <3> HIDE DEF diffs, inner, parts, own, extra
    <3>7. Brings(inner[i], own \cup extra)
      BY <3>5, <3>6, ConcatBrings
    <3>8. QED
      BY <3>5, <3>7
  <2>3. \A part \in Frame[s] : \E i \in 1..n : part \in parts[i]
    <3>1. ToSet(zones) = {zones[i] : i \in 1..n}
      BY <2>1 DEF ToSet
    <3>2. Frame[s] = ValuesOf(src, s) \cup (IF FluidZone \in ToSet(zones) THEN {Diff(s)} ELSE {})
      OBVIOUS
    <3>3. \A i \in 1..n : parts[i] = {Values(zones[i], s)} \cup (IF zones[i] = FluidZone THEN {Diff(s)} ELSE {})
      OBVIOUS
    <3>4. ASSUME NEW part \in Frame[s] PROVE \E i \in 1..n : part \in parts[i]
      <4>1. CASE part \in ValuesOf(src, s)
        <5>1. PICK i \in 1..n : part = Values(zones[i], s)
          BY <3>1, <4>1 DEF ValuesOf
        <5>2. QED
          BY <3>3, <5>1
      <4>2. CASE FluidZone \in ToSet(zones) /\ part = Diff(s)
        <5>1. PICK i \in 1..n : zones[i] = FluidZone
          BY <3>1, <4>2
        <5>2. QED
          BY <3>3, <4>2, <5>1
      <4>3. QED
        BY <3>2, <4>1, <4>2
    <3>5. QED
      BY <3>4
  <2>4. inner = [i \in 1..n |-> inner[i]]
    BY <2>1
  <2>5. Frame[s] \subseteq Lasting
    BY <2>2, <2>3
  <2>6. FlattenSeq(inner) = Inner(s)
    OBVIOUS
  <2> HIDE DEF inner, parts, Frame, n, Inner, diffs
  <2>7. Brings(FlattenSeq(inner), Frame[s])
    BY <2>1, <2>2, <2>3, <2>4, BlocksBring
  <2>8. QED
    BY <2>5, <2>6, <2>7
<1>2. steps \in Seq(Steps) /\ DOMAIN steps = 1..Len(steps) /\ \A i \in 1..Len(steps) : steps[i] \in Steps
  BY SourceFacts
<1>3. Brings(FlattenSeq(blocks), frames) /\ frames \subseteq Lasting
  <2>1. blocks = [i \in DOMAIN steps |-> blocks[i]]
    OBVIOUS
  <2>2. \A i \in 1..Len(steps) : Brings(blocks[i], Frame[steps[i]])
    <3> HIDE DEF Inner, Frame
    <3>1. QED
      BY <1>1, <1>2
  <2>3. \A s \in Steps : Frame[s] \subseteq Lasting
    BY <1>1
  <2> HIDE DEF blocks, Frame, steps
  <2>4. QED
    BY <1>2, <2>1, <2>2, <2>3, FramesBring, ZenonT(60)
<1>4. Brings(Replace({CfdMeta}), {CfdMeta})
  BY PartFacts, DropPutReplace
<1>5. Brings(Each(zones, LAMBDA z : Replace({Mesh(z)})), meshes) /\ meshes \subseteq Lasting
  BY MeshesBrought
<1>6. TiledbCfd(src) = Each(zones, LAMBDA z : Replace({Mesh(z)})) \o FlattenSeq(blocks) \o Replace({CfdMeta})
  BY DEF TiledbCfd, Each
<1>7. Needed("tiledb", src) \subseteq meshes \cup frames \cup {CfdMeta}
  <2>1. ToSet(steps) \subseteq Steps
    BY <1>2 DEF ToSet
  <2>2. ASSUME NEW part \in Needed("tiledb", src) PROVE part \in meshes \cup frames \cup {CfdMeta}
    <3>1. \/ \E z \in ToSet(zones), s \in ToSet(steps) : part = Values(z, s)
          \/ FluidZone \in ToSet(zones) /\ \E s \in ToSet(steps) : part = Diff(s)
          \/ part \in meshes \/ part = CfdMeta
      BY DEF Needed
    <3>2. (\E s \in ToSet(steps) : part \in Frame[s]) => part \in frames
      OBVIOUS
    <3>3. \A s \in ToSet(steps) : Frame[s] = ValuesOf(src, s) \cup (IF FluidZone \in ToSet(zones) THEN {Diff(s)} ELSE {})
      BY <2>1
    <3> HIDE DEF Frame, frames, meshes
    <3>4. QED
      BY <3>1, <3>2, <3>3 DEF ValuesOf
  <2>3. QED
    BY <2>2
<1> HIDE DEF zones, steps, blocks, frames, meshes
<1>8. Brings(TiledbCfd(src), meshes \cup frames \cup {CfdMeta})
  <2>1. Brings(Each(zones, LAMBDA z : Replace({Mesh(z)})) \o FlattenSeq(blocks), meshes \cup frames)
    BY <1>3, <1>5, ConcatBrings
  <2>2. meshes \cup frames \subseteq Lasting
    BY <1>3, <1>5
  <2>3. QED
    BY <1>4, <1>6, <2>1, <2>2, ConcatBrings
<1>9. QED
  BY <1>7, <1>8, BringsLess

\* Four parts put one after the other, or more, for a step of an H5 dataset.
LEMMA H5FrameBrings ==
  ASSUME NEW z \in Zones, NEW s \in Steps
  PROVE  /\ Brings(Put({Values(z, s)}) \o Put({Nodal(z, s)}) \o Put({Diff(s)}),
                   {Values(z, s), Nodal(z, s), Diff(s)})
         /\ Brings(Put({Values(z, s)}) \o Put({Diff(s)}) \o Put({Nodal(z, s)}),
                   {Values(z, s), Nodal(z, s), Diff(s)})
         /\ {Values(z, s), Nodal(z, s), Diff(s)} \subseteq Lasting
<1> DEFINE v == {Values(z, s)}
           w == {Nodal(z, s)}
           d == {Diff(s)}
<1>1. v \subseteq Lasting /\ w \subseteq Lasting /\ d \subseteq Lasting /\ Lasting \subseteq Parts
  BY PartFacts
<1>2. v \cup w \cup d = {Values(z, s), Nodal(z, s), Diff(s)} /\ v \cup d \cup w = v \cup w \cup d
  OBVIOUS
<1> HIDE DEF v, w, d
<1>3. v \in SUBSET Parts /\ w \in SUBSET Parts /\ d \in SUBSET Parts
  BY <1>1
<1>4. Brings(Put(v), v) /\ Brings(Put(w), w) /\ Brings(Put(d), d)
  BY <1>3, DropPutReplace
<1>5. Brings(Put(v) \o Put(w), v \cup w) /\ Brings(Put(v) \o Put(d), v \cup d)
      /\ v \cup w \subseteq Lasting /\ v \cup d \subseteq Lasting
  BY <1>1, <1>4, ConcatBrings
<1>6. Brings(Put(v) \o Put(w) \o Put(d), v \cup w \cup d) /\ Brings(Put(v) \o Put(d) \o Put(w), v \cup d \cup w)
      /\ v \cup w \cup d \subseteq Lasting
  BY <1>1, <1>4, <1>5, ConcatBrings
<1>7. QED
  BY <1>2, <1>6 DEF v, w, d

\* The frames of an H5 dataset, with the parts that backends other than PostgreSQL have of each.
H5Parts(src) ==
  UNION {{Values(Head(src.zones), s), Nodal(Head(src.zones), s), Diff(s)} : s \in ToSet(src.steps)}

LEMMA H5FramesBring ==
  ASSUME NEW src \in Sources
  PROVE  LET z == Head(src.zones) IN
         /\ Brings(Each(src.steps, LAMBDA s : Put({Values(z, s)}) \o Put({Nodal(z, s)}) \o Put({Diff(s)})), H5Parts(src))
         /\ Brings(Each(src.steps, LAMBDA s : Put({Values(z, s)}) \o Put({Diff(s)}) \o Put({Nodal(z, s)})), H5Parts(src))
         /\ H5Parts(src) \subseteq Lasting
<1> DEFINE z == Head(src.zones)
           steps == src.steps
           first == [i \in DOMAIN steps |-> Put({Values(z, steps[i])}) \o Put({Nodal(z, steps[i])}) \o Put({Diff(steps[i])})]
           second == [i \in DOMAIN steps |-> Put({Values(z, steps[i])}) \o Put({Diff(steps[i])}) \o Put({Nodal(z, steps[i])})]
           Frame == [s \in Steps |-> {Values(z, s), Nodal(z, s), Diff(s)}]
<1>1. z \in Zones /\ steps \in Seq(Steps) /\ DOMAIN steps = 1..Len(steps) /\ (\A i \in 1..Len(steps) : steps[i] \in Steps)
      /\ ToSet(steps) \subseteq Steps
  BY SourceFacts DEF ToSet
<1>2. \A s \in Steps : Frame[s] = {Values(z, s), Nodal(z, s), Diff(s)} /\ Frame[s] \subseteq Lasting
  BY <1>1, H5FrameBrings
<1>3. \A i \in 1..Len(steps) : Brings(first[i], Frame[steps[i]]) /\ Brings(second[i], Frame[steps[i]])
  <2> SUFFICES ASSUME NEW i \in 1..Len(steps)
               PROVE Brings(first[i], Frame[steps[i]]) /\ Brings(second[i], Frame[steps[i]])
    OBVIOUS
  <2>1. first[i] = Put({Values(z, steps[i])}) \o Put({Nodal(z, steps[i])}) \o Put({Diff(steps[i])})
        /\ second[i] = Put({Values(z, steps[i])}) \o Put({Diff(steps[i])}) \o Put({Nodal(z, steps[i])})
        /\ steps[i] \in Steps /\ Frame[steps[i]] = {Values(z, steps[i]), Nodal(z, steps[i]), Diff(steps[i])}
    BY <1>1, <1>2
  <2> HIDE DEF first, second, Frame, z, steps
  <2>2. QED
    BY <1>1, <2>1, H5FrameBrings
<1>4. first = [i \in DOMAIN steps |-> first[i]] /\ second = [i \in DOMAIN steps |-> second[i]]
  OBVIOUS
<1>5. UNION {Frame[s] : s \in ToSet(steps)} = H5Parts(src)
  BY <1>1, <1>2 DEF H5Parts
<1>6. Brings(FlattenSeq(first), H5Parts(src)) /\ Brings(FlattenSeq(second), H5Parts(src)) /\ H5Parts(src) \subseteq Lasting
  <2>1. \A s \in Steps : Frame[s] \subseteq Lasting
    BY <1>2
  <2> HIDE DEF first, second, Frame, z, steps
  <2>2. QED
    BY <1>1, <1>3, <1>4, <1>5, <2>1, FramesBring, SMTT(60)
<1>7. QED
  BY <1>6 DEF Each

LEMMA IotdbH5Fills ==
  ASSUME NEW src \in Sources, src.kind = "h5"
  PROVE  Fills(IotdbH5(src), Needed("iotdb", src))
<1> DEFINE z == Head(src.zones)
           clean == CleanDataset(z)
           mesh == Put({Mesh(z)})
           frames == Each(src.steps, LAMBDA s : Put({Values(z, s)}) \o Put({Nodal(z, s)}) \o Put({Diff(s)}))
<1>1. z \in Zones /\ ToSet(src.zones) = {z} /\ StepsFor("iotdb", src) = src.steps
  BY SourceFacts
<1>2. Fills(clean, {})
  <2>1. {Mesh(z)} \in SUBSET Parts /\ ValueParts(Zones, Steps) \in SUBSET Parts
        /\ {H5Meta, H5Frames} \in SUBSET Parts /\ {Diff(s) : s \in Steps} \in SUBSET Parts
    <3>1. \A s \in Steps : Diff(s) \in Parts
      BY PartFacts
    <3>2. QED
      BY <1>1, <3>1, PartFacts, ValuePartsLast
  <2>2. Drop({Mesh(z)}) \in Seq(WriteSet) /\ Drop(ValueParts(Zones, Steps)) \in Seq(WriteSet)
        /\ Drop({H5Meta, H5Frames}) \in Seq(WriteSet) /\ Drop({Diff(s) : s \in Steps}) \in Seq(WriteSet)
    BY <2>1, DropPutReplace
  <2>3. clean \in Seq(WriteSet)
    BY <2>2, ConcatElements DEF CleanDataset
  <2>4. QED
    BY <2>3 DEF Fills
<1>3. {Mesh(z)} \subseteq Lasting /\ {H5Meta} \subseteq Lasting /\ {H5Frames} \subseteq Lasting /\ Lasting \subseteq Parts
  BY <1>1, PartFacts
<1>4. Brings(mesh, {Mesh(z)}) /\ Brings(Put({H5Meta}), {H5Meta}) /\ Brings(Put({H5Frames}), {H5Frames})
  BY <1>3, DropPutReplace
<1>5. Brings(frames, H5Parts(src)) /\ H5Parts(src) \subseteq Lasting
  BY H5FramesBring
<1>6. IotdbH5(src) = clean \o mesh \o Put({H5Meta}) \o Put({H5Frames}) \o frames
  BY DEF IotdbH5
<1> HIDE DEF clean, mesh, frames, z
<1>7. Fills(clean \o mesh, {Mesh(z)})
  <2>1. {} \cup {Mesh(z)} = {Mesh(z)}
    OBVIOUS
  <2>2. QED
    BY <1>2, <1>4, <2>1, FillsThenBrings
<1>8. Fills(clean \o mesh \o Put({H5Meta}), {Mesh(z), H5Meta})
  <2>1. {Mesh(z)} \cup {H5Meta} = {Mesh(z), H5Meta}
    OBVIOUS
  <2>2. QED
    BY <1>3, <1>4, <1>7, <2>1, FillsThenBrings
<1>9. Fills(clean \o mesh \o Put({H5Meta}) \o Put({H5Frames}), {Mesh(z), H5Meta, H5Frames})
  <2>1. {Mesh(z), H5Meta} \cup {H5Frames} = {Mesh(z), H5Meta, H5Frames} /\ {Mesh(z), H5Meta} \subseteq Lasting
    BY <1>3
  <2>2. QED
    BY <1>4, <1>8, <2>1, FillsThenBrings
<1>10. Fills(IotdbH5(src), {Mesh(z), H5Meta, H5Frames} \cup H5Parts(src))
  <2> DEFINE start == clean \o mesh \o Put({H5Meta}) \o Put({H5Frames})
             parts == {Mesh(z), H5Meta, H5Frames}
  <2>1. parts \subseteq Lasting /\ Fills(start, parts) /\ IotdbH5(src) = start \o frames
    BY <1>3, <1>6, <1>9
  <2> HIDE DEF start, parts
  <2>2. Fills(IotdbH5(src), parts \cup H5Parts(src))
    BY <1>5, <2>1, FillsThenBrings
  <2>3. QED
    BY <2>2 DEF parts
<1>11. Needed("iotdb", src) \subseteq {Mesh(z), H5Meta, H5Frames} \cup H5Parts(src)
  BY <1>1 DEF Needed, H5Parts, z
<1>12. QED
  BY <1>10, <1>11 DEF Fills

LEMMA TiledbH5Fills ==
  ASSUME NEW src \in Sources, src.kind = "h5"
  PROVE  Fills(TiledbH5(src), Needed("tiledb", src))
<1> DEFINE z == Head(src.zones)
           mesh == Put({Mesh(z)})
           meta == {H5Meta, H5Frames}
           frames == Each(src.steps, LAMBDA s : Put({Values(z, s)}) \o Put({Diff(s)}) \o Put({Nodal(z, s)}))
<1>1. z \in Zones /\ ToSet(src.zones) = {z} /\ StepsFor("tiledb", src) = src.steps
  BY SourceFacts
<1>2. Fills(RemoveTree, {})
  BY DropPutReplace DEF Fills, RemoveTree
<1>3. {Mesh(z)} \subseteq Lasting /\ meta \subseteq Lasting /\ Lasting \subseteq Parts
  BY <1>1, PartFacts
<1>4. Brings(mesh, {Mesh(z)}) /\ Brings(Put(meta), meta)
  BY <1>3, DropPutReplace
<1>5. Brings(frames, H5Parts(src)) /\ H5Parts(src) \subseteq Lasting
  BY H5FramesBring
<1>6. TiledbH5(src) = RemoveTree \o mesh \o Put(meta) \o frames
  BY DEF TiledbH5
<1>7. Needed("tiledb", src) \subseteq {Mesh(z)} \cup meta \cup H5Parts(src)
  BY <1>1 DEF Needed, H5Parts
<1> HIDE DEF mesh, frames, z, meta
<1>8. Fills(RemoveTree \o mesh, {Mesh(z)})
  <2>1. {} \cup {Mesh(z)} = {Mesh(z)}
    OBVIOUS
  <2>2. QED
    BY <1>2, <1>4, <2>1, FillsThenBrings
<1>9. Fills(RemoveTree \o mesh \o Put(meta), {Mesh(z)} \cup meta)
  BY <1>3, <1>4, <1>8, FillsThenBrings
<1>10. Fills(TiledbH5(src), {Mesh(z)} \cup meta \cup H5Parts(src))
  <2>1. {Mesh(z)} \cup meta \subseteq Lasting
    BY <1>3
  <2>2. QED
    BY <1>5, <1>6, <1>9, <2>1, FillsThenBrings
<1>11. QED
  BY <1>7, <1>10 DEF Fills

-----------------------------------------------------------------------------
(* The writes of the VTK loader, in order.                                 *)

VtkFrames(src) ==
  Each(StepsFor("vtk", src), LAMBDA s : Each(src.zones, LAMBDA z : Put({Values(z, s)})))
FrameWrite(z, s) == Write({}, {Values(z, s)}, <<>>)
FrameWrites(src) ==
  {FrameWrite(z, s) : z \in ToSet(src.zones), s \in ToSet(StepsFor("vtk", src))}

LEMMA InFrameWrites ==
  ASSUME NEW src, NEW w
  PROVE  w \in FrameWrites(src) <=>
           \E z \in ToSet(src.zones), s \in ToSet(StepsFor("vtk", src)) : w = FrameWrite(z, s)
  BY DEF FrameWrites

LEMMA VtkFramesBring ==
  ASSUME NEW src \in Sources
  PROVE  /\ VtkFrames(src) \in Seq(FrameWrites(src))
         /\ Brings(VtkFrames(src), UNION {ValuesOf(src, s) : s \in ToSet(StepsFor("vtk", src))})
         /\ UNION {ValuesOf(src, s) : s \in ToSet(StepsFor("vtk", src))} \subseteq Lasting
<1> DEFINE zones == src.zones
           n == Len(zones)
           steps == StepsFor("vtk", src)
           inner(s) == [i \in DOMAIN zones |-> Put({Values(zones[i], s)})]
           blocks == [i \in DOMAIN steps |-> FlattenSeq(inner(steps[i]))]
           Frame == [s \in Steps |-> ValuesOf(src, s)]
           all == UNION {ValuesOf(src, s) : s \in ToSet(StepsFor("vtk", src))}
<1>1. steps \in Seq(Steps) /\ DOMAIN steps = 1..Len(steps) /\ (\A i \in 1..Len(steps) : steps[i] \in Steps)
      /\ ToSet(steps) = {steps[i] : i \in 1..Len(steps)} /\ ToSet(steps) \subseteq Steps
  BY SourceFacts DEF ToSet
<1>2. n \in Nat /\ DOMAIN zones = 1..n /\ (\A i \in 1..n : zones[i] \in Zones /\ zones[i] \in ToSet(zones))
  BY SourceFacts DEF ToSet
<1>3. ASSUME NEW s \in ToSet(steps)
      PROVE Brings(FlattenSeq(inner(s)), ValuesOf(src, s)) /\ FlattenSeq(inner(s)) \in Seq(FrameWrites(src))
            /\ ValuesOf(src, s) \subseteq Lasting
  <2>1. inner(s) = [i \in DOMAIN zones |-> inner(s)[i]]
    OBVIOUS
  <2>2. ASSUME NEW i \in 1..n
        PROVE Brings(inner(s)[i], {Values(zones[i], s)}) /\ inner(s)[i] \in Seq(FrameWrites(src))
    <3>1. inner(s)[i] = Put({Values(zones[i], s)}) /\ s \in Steps
      BY <1>1, <1>2
    <3>2. {Values(zones[i], s)} \in SUBSET Parts
      BY <1>2, <3>1, PartFacts
    <3>3. Write({}, {Values(zones[i], s)}, <<>>) \in FrameWrites(src)
      <4>1. zones[i] \in ToSet(src.zones) /\ s \in ToSet(StepsFor("vtk", src))
        BY <1>2
      <4>2. QED
        BY <4>1, InFrameWrites DEF FrameWrite
    <3>4. Put({Values(zones[i], s)}) \in Seq(FrameWrites(src))
      BY <3>3 DEF Put
    <3>5. QED
      BY <3>1, <3>2, <3>4, DropPutReplace
  <2>3. inner(s) \in Seq(Seq(FrameWrites(src)))
    <3>1. \A i \in 1..n : inner(s)[i] \in Seq(FrameWrites(src))
      BY <2>2
    <3>2. inner(s) = [i \in 1..n |-> inner(s)[i]]
      BY <1>2
    <3> HIDE DEF inner, n
    <3>3. QED
      BY <1>2, <3>1, <3>2
  <2>4. s \in Steps
    BY <1>1
  <2> HIDE DEF inner
  <2>5. FlattenSeq(inner(s)) \in Seq(FrameWrites(src))
    BY <2>3, FlattenInSeq
  <2>6. Brings(FlattenSeq(inner(s)), ValuesOf(src, s)) /\ ValuesOf(src, s) \subseteq Lasting
    BY <2>1, <2>2, <2>4, ZonesBring
  <2>7. QED
    BY <2>5, <2>6
<1>4. VtkFrames(src) = FlattenSeq(blocks)
  BY DEF VtkFrames, Each
<1>5. \A i \in 1..Len(steps) : blocks[i] = FlattenSeq(inner(steps[i])) /\ steps[i] \in ToSet(steps)
  BY <1>1
<1>6. blocks = [i \in 1..Len(steps) |-> blocks[i]]
  BY <1>1
<1> HIDE DEF inner, blocks
<1>7. FlattenSeq(blocks) \in Seq(FrameWrites(src))
  <2>1. \A i \in 1..Len(steps) : blocks[i] \in Seq(FrameWrites(src))
    BY <1>3, <1>5
  <2>2. Len(steps) \in Nat
    BY <1>1
  <2> HIDE DEF steps
  <2>3. blocks \in Seq(Seq(FrameWrites(src)))
    BY <1>6, <2>1, <2>2
  <2>4. QED
    BY <2>3, FlattenInSeq
<1>8. Brings(FlattenSeq(blocks), all) /\ all \subseteq Lasting
  <2> DEFINE parts == [i \in 1..Len(steps) |-> ValuesOf(src, steps[i])]
  <2>1. \A i \in 1..Len(steps) : parts[i] = ValuesOf(src, steps[i])
    OBVIOUS
  <2>2. \A i \in 1..Len(steps) : Brings(blocks[i], parts[i]) /\ parts[i] \subseteq Lasting
    BY <1>3, <1>5, <2>1
  <2>3. \A part \in all : \E i \in 1..Len(steps) : part \in parts[i]
    <3>1. \A part \in all : \E s \in ToSet(steps) : part \in ValuesOf(src, s)
      OBVIOUS
    <3> HIDE DEF all, steps, parts
    <3>2. QED
      BY <1>1, <2>1, <3>1
  <2>4. all \subseteq Lasting
    BY <2>2, <2>3
  <2>5. Len(steps) \in Nat
    BY <1>1
  <2> HIDE DEF all, steps, parts
  <2>6. QED
    BY <1>6, <2>2, <2>3, <2>4, <2>5, BlocksBring
<1>9. QED
  BY <1>4, <1>7, <1>8

\* The first write removes everything, the last one is the manifest, those between are frames,
\* and all of them are there before the manifest.
LEMMA VtkWrites ==
  ASSUME NEW src \in Sources
  PROVE  LET L == Vtk(src) IN
         /\ Fills(L, Needed("vtk", src))
         /\ Len(L) \in Nat /\ Len(L) >= 2
         /\ L[1] = Write(Parts, {}, <<>>) /\ L[Len(L)] = Write({}, {Manifest}, <<>>)
         /\ \A p \in 1..Len(L) : p # 1 /\ p # Len(L) => L[p] \in FrameWrites(src)
         /\ \A z \in ToSet(src.zones), s \in ToSet(StepsFor("vtk", src)) : LeftBefore(L, Len(L), Values(z, s))
<1> DEFINE a == RemoveTree
           f == VtkFrames(src)
           m == Put({Manifest})
           L == Vtk(src)
           values == UNION {ValuesOf(src, s) : s \in ToSet(StepsFor("vtk", src))}
<1>1. L = a \o f \o m
  BY DEF Vtk, VtkFrames
<1>2. a = <<Write(Parts, {}, <<>>)>> /\ m = <<Write({}, {Manifest}, <<>>)>>
  BY DEF RemoveTree, Drop, Put
<1>3. f \in Seq(FrameWrites(src)) /\ Brings(f, values) /\ values \subseteq Lasting
  BY VtkFramesBring
<1>4. {Manifest} \subseteq Lasting /\ Lasting \subseteq Parts
  BY PartFacts
<1>5. Brings(m, {Manifest})
  BY <1>4, DropPutReplace
<1>6. Fills(a, {}) /\ a \in Seq(WriteSet)
  BY DropPutReplace DEF Fills, RemoveTree
<1>7. \A z \in ToSet(src.zones), s \in ToSet(StepsFor("vtk", src)) : Values(z, s) \in values
  BY DEF ValuesOf
<1>8. Needed("vtk", src) \subseteq values \cup {Manifest}
  <2>1. \A part \in Needed("vtk", src) :
           part = Manifest \/ \E z \in ToSet(src.zones), s \in ToSet(StepsFor("vtk", src)) : part = Values(z, s)
    BY DEF Needed
  <2> HIDE DEF values
  <2>2. QED
    BY <1>7, <2>1
<1>9. Len(f) \in Nat /\ f \in Seq(WriteSet) /\ \A i \in 1..Len(f) : f[i] \in FrameWrites(src)
  BY <1>3 DEF Brings, Fills
<1> HIDE DEF f, m, L, values, a
<1>10. Fills(a \o f, values)
  <2>1. {} \cup values = values
    OBVIOUS
  <2>2. QED
    BY <1>3, <1>6, <2>1, FillsThenBrings
<1>11. Fills(L, values \cup {Manifest})
  BY <1>1, <1>3, <1>5, <1>10, FillsThenBrings
<1>12. Len(L) = Len(f) + 2 /\ L[1] = Write(Parts, {}, <<>>) /\ L[Len(L)] = Write({}, {Manifest}, <<>>)
       /\ (\A i \in 1..Len(f) : L[i + 1] = f[i]) /\ Len(a \o f) = Len(f) + 1
  <2>1. Len(a) = 1 /\ a[1] = Write(Parts, {}, <<>>) /\ Len(m) = 1 /\ m[1] = Write({}, {Manifest}, <<>>)
        /\ m \in Seq(WriteSet)
    BY <1>2, <1>5 DEF Brings, Fills
  <2>2. Len(a \o f) = Len(f) + 1 /\ (a \o f)[1] = a[1] /\ (\A i \in 1..Len(f) : (a \o f)[1 + i] = f[i]) /\ a \o f \in Seq(WriteSet)
    <3>1. /\ Len(a \o f) = Len(a) + Len(f) /\ a \o f \in Seq(WriteSet)
          /\ \A i \in 1..Len(a) : (a \o f)[i] = a[i]
          /\ \A i \in 1..Len(f) : (a \o f)[Len(a) + i] = f[i]
      BY <1>6, <1>9, ConcatElements
    <3>2. 1 \in 1..Len(a)
      BY <2>1
    <3>3. QED
      BY <1>9, <2>1, <3>1, <3>2
  <2>3. /\ Len(L) = Len(f) + 2 /\ L[Len(f) + 1 + 1] = m[1]
        /\ \A i \in 1..Len(f) + 1 : L[i] = (a \o f)[i]
    <3>1. /\ Len(L) = Len(a \o f) + Len(m)
          /\ \A i \in 1..Len(a \o f) : L[i] = (a \o f)[i]
          /\ \A i \in 1..Len(m) : L[Len(a \o f) + i] = m[i]
      BY <1>1, <2>1, <2>2, ConcatElements
    <3>2. 1 \in 1..Len(m)
      BY <2>1
    <3>3. QED
      BY <1>9, <2>1, <2>2, <3>1, <3>2
  <2>4. 1 \in 1..Len(f) + 1 /\ Len(f) + 1 + 1 = Len(f) + 2 /\ \A i \in 1..Len(f) : i + 1 \in 1..Len(f) + 1 /\ i + 1 = 1 + i
    BY <1>9
  <2>5. QED
    BY <1>9, <2>1, <2>2, <2>3, <2>4
<1>13. ASSUME NEW p \in 1..Len(L), p # 1, p # Len(L) PROVE L[p] \in FrameWrites(src)
  <2>1. p - 1 \in 1..Len(f) /\ p - 1 + 1 = p
    BY <1>9, <1>12, <1>13
  <2>2. L[p] = f[p - 1]
    BY <1>12, <2>1
  <2>3. QED
    BY <1>9, <2>1, <2>2
<1>14. ASSUME NEW part \in values PROVE LeftBefore(L, Len(L), part)
  <2>1. Leaves(a \o f, part) /\ a \o f \in Seq(WriteSet) /\ m \in Seq(WriteSet)
    BY <1>5, <1>10 DEF Fills, Brings
  <2>2. Len(L) \in Nat /\ Len(L) > Len(a \o f) /\ Len(L) = Len(a \o f) + 1
    BY <1>9, <1>12
  <2>3. QED
    BY <1>1, <2>1, <2>2, LeftByFirst
<1>15. Len(L) \in Nat /\ Len(L) >= 2
  BY <1>9, <1>12
<1>16. Fills(L, Needed("vtk", src))
  BY <1>8, <1>11 DEF Fills
<1>17. QED
  BY <1>7, <1>12, <1>13, <1>14, <1>15, <1>16 DEF L

-----------------------------------------------------------------------------
(* The writes of the PostgreSQL loaders: those that bring meshes, then     *)
(* those that rest on them.                                                *)

StaticWrite(z) == Write(StaticTables(z), {Mesh(z), Bounds(z)}, <<>>)
WholeWrite(z, steps) == Write(ZoneTables(z), {Mesh(z)} \cup ValueParts({z}, steps), <<>>)
ValuesWrite(z, s) == Write({Values(z, s)}, {Values(z, s)}, <<>>)
GeomWrite(z) == Write({Geom(z)}, {Geom(z)}, <<Mesh(z)>>)
LocatorWrite(z) == Write({Locator(z)}, {Locator(z)}, <<Bounds(z), Mesh(z)>>)

IsFirst(w, src) ==
  \E z \in ToSet(src.zones) :
    w = IF src.kind = "cfd" THEN StaticWrite(z) ELSE WholeWrite(z, ToSet(src.steps))
IsLate(w, src) ==
  \E z \in ToSet(src.zones) :
    w = LocatorWrite(z) \/ w = GeomWrite(z) \/ (src.kind = "cfd" /\ \E s \in Steps : w = ValuesWrite(z, s))
FirstWrites(src) == {w \in WriteSet : IsFirst(w, src)}
LateWrites(src) == {w \in WriteSet : IsLate(w, src)}

LEMMA BlocksIn ==
  ASSUME NEW S, NEW n \in Nat, NEW blocks, blocks = [i \in 1..n |-> blocks[i]],
         \A i \in 1..n : blocks[i] \in Seq(S)
  PROVE  FlattenSeq(blocks) \in Seq(S)
<1>1. blocks \in Seq(Seq(S))
  OBVIOUS
<1>2. QED
  BY <1>1, FlattenInSeq

LEMMA ThisWrite ==
  ASSUME NEW drop \in SUBSET Parts, NEW put \in SUBSET Parts, NEW from \in Seq(Parts),
         NEW w, w = Write(drop, put, from)
  PROVE  /\ w \in WriteSet /\ <<w>> \in Seq(WriteSet)
         /\ \A part : part \notin drop \cup put => Keeps(<<w>>, part)
         /\ from = <<>> /\ drop \cap Lasting \subseteq put => Brings(<<w>>, put)
  BY OneWrite, WriteBrings

LEMMA PostgresqlWrite ==
  ASSUME NEW src \in Sources, NEW z \in ToSet(src.zones)
  PROVE  /\ <<LocatorWrite(z)>> \in Seq(LateWrites(src)) /\ Brings(<<LocatorWrite(z)>>, {})
         /\ <<GeomWrite(z)>> \in Seq(LateWrites(src)) /\ Brings(<<GeomWrite(z)>>, {})
         /\ \A s \in Steps : /\ src.kind = "cfd" => <<ValuesWrite(z, s)>> \in Seq(LateWrites(src))
                             /\ Brings(<<ValuesWrite(z, s)>>, {Values(z, s)})
         /\ src.kind = "cfd" => /\ <<StaticWrite(z)>> \in Seq(FirstWrites(src))
                                /\ Brings(<<StaticWrite(z)>>, {Mesh(z), Bounds(z)})
         /\ src.kind = "h5" => /\ <<WholeWrite(z, ToSet(src.steps))>> \in Seq(FirstWrites(src))
                               /\ Fills(<<WholeWrite(z, ToSet(src.steps))>>, {Mesh(z)} \cup ValueParts({z}, ToSet(src.steps)))
<1>1. z \in Zones /\ ToSet(src.steps) \in SUBSET Steps
  BY SourceFacts DEF ToSet
<1>2. {Locator(z)} \in SUBSET Parts /\ {Geom(z)} \in SUBSET Parts /\ <<Mesh(z)>> \in Seq(Parts)
      /\ <<Bounds(z), Mesh(z)>> \in Seq(Parts) /\ <<>> \in Seq(Parts) /\ <<Mesh(z)>> # <<>>
      /\ StaticTables(z) \in SUBSET Parts /\ {Mesh(z), Bounds(z)} \in SUBSET Parts
  BY <1>1, PartFacts DEF StaticTables
<1>3. <<LocatorWrite(z)>> \in Seq(LateWrites(src)) /\ Brings(<<LocatorWrite(z)>>, {})
  <2>1. LocatorWrite(z) \in WriteSet /\ <<LocatorWrite(z)>> \in Seq(WriteSet)
        /\ \A part : part \notin {Locator(z)} => Keeps(<<LocatorWrite(z)>>, part)
    <3>1. LocatorWrite(z) = Write({Locator(z)}, {Locator(z)}, <<Bounds(z), Mesh(z)>>)
      BY DEF LocatorWrite
    <3>2. QED
      BY <1>2, <3>1, ThisWrite
  <2>2. LocatorWrite(z) \in LateWrites(src)
    <3>1. IsLate(LocatorWrite(z), src)
      BY Zenon DEF IsLate
    <3>2. QED
      BY <2>1, <3>1 DEF LateWrites
  <2>3. \A part \in Lasting : Keeps(<<LocatorWrite(z)>>, part)
    BY <1>1, <2>1 DEF Lasting
  <2>4. QED
    BY <2>1, <2>2, <2>3 DEF Brings, Fills, Handles
<1>4. <<GeomWrite(z)>> \in Seq(LateWrites(src)) /\ Brings(<<GeomWrite(z)>>, {})
  <2>1. GeomWrite(z) \in WriteSet /\ <<GeomWrite(z)>> \in Seq(WriteSet)
        /\ \A part : part \notin {Geom(z)} => Keeps(<<GeomWrite(z)>>, part)
    <3>1. GeomWrite(z) = Write({Geom(z)}, {Geom(z)}, <<Mesh(z)>>)
      BY DEF GeomWrite
    <3>2. QED
      BY <1>2, <3>1, ThisWrite
  <2>2. GeomWrite(z) \in LateWrites(src)
    <3>1. IsLate(GeomWrite(z), src)
      BY Zenon DEF IsLate
    <3>2. QED
      BY <2>1, <3>1 DEF LateWrites
  <2>3. \A part \in Lasting : Keeps(<<GeomWrite(z)>>, part)
    BY <1>1, <2>1 DEF Lasting
  <2>4. QED
    BY <2>1, <2>2, <2>3 DEF Brings, Fills, Handles
<1>5. ASSUME NEW s \in Steps
      PROVE  /\ src.kind = "cfd" => <<ValuesWrite(z, s)>> \in Seq(LateWrites(src))
             /\ Brings(<<ValuesWrite(z, s)>>, {Values(z, s)})
  <2>1. {Values(z, s)} \in SUBSET Parts
    BY <1>1, PartFacts
  <2>2. ValuesWrite(z, s) \in WriteSet /\ Brings(<<ValuesWrite(z, s)>>, {Values(z, s)})
    <3>1. ValuesWrite(z, s) = Write({Values(z, s)}, {Values(z, s)}, <<>>)
      BY DEF ValuesWrite
    <3>2. QED
      BY <1>2, <2>1, <3>1, ThisWrite
  <2>3. src.kind = "cfd" => ValuesWrite(z, s) \in LateWrites(src)
    <3>1. src.kind = "cfd" => IsLate(ValuesWrite(z, s), src)
      BY Zenon DEF IsLate
    <3>2. QED
      BY <2>2, <3>1 DEF LateWrites
  <2>4. QED
    BY <2>2, <2>3
<1>6. ASSUME src.kind = "cfd"
      PROVE  /\ <<StaticWrite(z)>> \in Seq(FirstWrites(src))
             /\ Brings(<<StaticWrite(z)>>, {Mesh(z), Bounds(z)})
  <2>1. StaticTables(z) \cap Lasting \subseteq {Mesh(z), Bounds(z)}
    BY <1>1 DEF StaticTables, Lasting
  <2>2. StaticWrite(z) \in WriteSet /\ Brings(<<StaticWrite(z)>>, {Mesh(z), Bounds(z)})
    <3>1. StaticWrite(z) = Write(StaticTables(z), {Mesh(z), Bounds(z)}, <<>>)
      BY DEF StaticWrite
    <3>2. QED
      BY <1>2, <2>1, <3>1, ThisWrite
  <2>3. StaticWrite(z) \in FirstWrites(src)
    <3>1. IsFirst(StaticWrite(z), src)
      BY <1>6, Zenon DEF IsFirst
    <3>2. QED
      BY <2>2, <3>1 DEF FirstWrites
  <2>4. QED
    BY <2>2, <2>3
<1>7. ASSUME src.kind = "h5"
      PROVE  /\ <<WholeWrite(z, ToSet(src.steps))>> \in Seq(FirstWrites(src))
             /\ Fills(<<WholeWrite(z, ToSet(src.steps))>>, {Mesh(z)} \cup ValueParts({z}, ToSet(src.steps)))
  <2> DEFINE w == WholeWrite(z, ToSet(src.steps))
             put == {Mesh(z)} \cup ValueParts({z}, ToSet(src.steps))
  <2>1. put \in SUBSET Parts /\ ZoneTables(z) \in SUBSET Parts
    <3>1. {z} \in SUBSET Zones /\ Steps \in SUBSET Steps
      BY <1>1
    <3>2. ValueParts({z}, ToSet(src.steps)) \subseteq Parts /\ ValueParts({z}, Steps) \subseteq Parts
      BY <1>1, <3>1, ValuePartsLast
    <3>3. QED
      BY <1>2, <3>2 DEF ZoneTables
  <2>2. w = Write(ZoneTables(z), put, <<>>)
    BY DEF WholeWrite
  <2> HIDE DEF w, put
  <2>3. w \in WriteSet /\ <<w>> \in Seq(WriteSet) /\ \A part : part \in put => Leaves(<<w>>, part)
    BY <1>2, <2>1, <2>2, OneWrite
  <2>4. w \in FirstWrites(src)
    <3>1. src.kind # "cfd"
      BY <1>7
    <3>2. IsFirst(w, src)
      BY <3>1, Zenon DEF IsFirst, w
    <3>3. QED
      BY <2>3, <3>2 DEF FirstWrites
  <2>5. Fills(<<w>>, put)
    BY <2>3 DEF Fills
  <2>6. QED
    BY <2>4, <2>5 DEF w, put
<1>8. QED
  BY <1>3, <1>4, <1>5, <1>6, <1>7

LEMMA PostgresqlH5Writes ==
  ASSUME NEW src \in Sources, src.kind = "h5"
  PROVE  /\ Fills(PostgresqlH5(src), Needed("postgresql", src))
         /\ \E first \in Seq(FirstWrites(src)), late \in Seq(LateWrites(src)) :
              /\ PostgresqlH5(src) = first \o late
              /\ \A z \in ToSet(src.zones) : Leaves(first, Mesh(z))
<1> DEFINE z == Head(src.zones)
           put == {Mesh(z)} \cup ValueParts({z}, ToSet(src.steps))
           first == <<WholeWrite(z, ToSet(src.steps))>>
           late == IF src.spatial THEN <<GeomWrite(z)>> \o <<LocatorWrite(z)>> ELSE <<>>
<1>1. z \in ToSet(src.zones) /\ z \in Zones /\ ToSet(src.zones) = {z} /\ StepsFor("postgresql", src) = src.steps
      /\ ToSet(src.steps) \subseteq Steps
  <2>1. ToSet(src.steps) \subseteq Steps
    BY SourceFacts DEF ToSet
  <2>2. QED
    BY <2>1, SourceFacts
<1>2. PostgresqlH5(src) = first \o late
  BY DEF PostgresqlH5, WholeWrite, BuildGeom, BuildLocator, GeomWrite, LocatorWrite
<1>3. first \in Seq(FirstWrites(src)) /\ Fills(first, put)
  BY <1>1, PostgresqlWrite
<1>4. late \in Seq(LateWrites(src)) /\ Brings(late, {})
  <2>1. Brings(<<GeomWrite(z)>>, {}) /\ Brings(<<LocatorWrite(z)>>, {})
        /\ <<GeomWrite(z)>> \in Seq(LateWrites(src)) /\ <<LocatorWrite(z)>> \in Seq(LateWrites(src))
    BY <1>1, PostgresqlWrite
  <2>2. Brings(<<GeomWrite(z)>> \o <<LocatorWrite(z)>>, {})
    <3>1. {} \cup {} = {} /\ {} \subseteq Lasting
      OBVIOUS
    <3>2. QED
      BY <2>1, <3>1, ConcatBrings
  <2>3. <<GeomWrite(z)>> \o <<LocatorWrite(z)>> \in Seq(LateWrites(src))
    BY <2>1, ConcatElements
  <2>4. <<>> \in Seq(LateWrites(src))
    OBVIOUS
  <2>5. QED
    BY <2>2, <2>3, <2>4, BringsNothing
<1>5. put \subseteq Lasting
  <2>1. {z} \in SUBSET Zones /\ ToSet(src.steps) \in SUBSET Steps
    BY <1>1
  <2>2. ValueParts({z}, ToSet(src.steps)) \subseteq Lasting
    BY <2>1, ValuePartsLast
  <2>3. QED
    BY <1>1, <2>2, PartFacts
<1>6. Needed("postgresql", src) \subseteq put
  <2>1. {z} \in SUBSET Zones /\ ToSet(src.steps) \in SUBSET Steps
    BY <1>1
  <2>2. \A s \in ToSet(src.steps) : Values(z, s) \in ValueParts({z}, ToSet(src.steps))
                                    /\ Nodal(z, s) \in ValueParts({z}, ToSet(src.steps))
    BY <2>1, ValuePartsFacts
  <2>3. QED
    BY <1>1, <2>2 DEF Needed
<1>7. \A y \in ToSet(src.zones) : Leaves(first, Mesh(y))
  BY <1>1, <1>3 DEF Fills
<1> HIDE DEF first, late, put
<1>8. Fills(PostgresqlH5(src), put)
  <2>1. put \cup {} = put
    OBVIOUS
  <2>2. QED
    BY <1>2, <1>3, <1>4, <1>5, <2>1, FillsThenBrings
<1>9. Fills(PostgresqlH5(src), Needed("postgresql", src))
  BY <1>6, <1>8 DEF Fills
<1>10. QED
  BY <1>2, <1>3, <1>4, <1>7, <1>9

LEMMA PostgresqlCfdWrites ==
  ASSUME NEW src \in Sources, src.kind = "cfd"
  PROVE  /\ Fills(PostgresqlCfd(src), Needed("postgresql", src))
         /\ \E first \in Seq(FirstWrites(src)), late \in Seq(LateWrites(src)) :
              /\ PostgresqlCfd(src) = first \o late
              /\ \A z \in ToSet(src.zones) : Leaves(first, Mesh(z))
<1> DEFINE zones == src.zones
           n == Len(zones)
           steps == src.steps
           meshBlocks == [i \in DOMAIN zones |-> <<StaticWrite(zones[i])>>]
           inner(s) == [i \in DOMAIN zones |-> <<ValuesWrite(zones[i], s)>>]
           frameBlocks == [i \in DOMAIN steps |-> FlattenSeq(inner(steps[i]))]
           locatorBlocks == [i \in DOMAIN zones |-> <<LocatorWrite(zones[i])>>]
           first == FlattenSeq(meshBlocks)
           frames == FlattenSeq(frameBlocks)
           spatial == IF src.spatial THEN FlattenSeq(locatorBlocks) ELSE <<>>
           meshes == {Mesh(z) : z \in ToSet(zones)}
           Frame == [s \in Steps |-> ValuesOf(src, s)]
           values == UNION {Frame[s] : s \in ToSet(steps)}
<1>1. n \in Nat /\ DOMAIN zones = 1..n /\ (\A i \in 1..n : zones[i] \in Zones /\ zones[i] \in ToSet(zones))
      /\ ToSet(zones) = {zones[i] : i \in 1..n}
  BY SourceFacts DEF ToSet
<1>2. steps \in Seq(Steps) /\ DOMAIN steps = 1..Len(steps) /\ (\A i \in 1..Len(steps) : steps[i] \in Steps)
      /\ ToSet(steps) \subseteq Steps /\ StepsFor("postgresql", src) = steps /\ Len(steps) \in Nat
  <2>1. StepsFor("postgresql", src) = steps
    BY DEF StepsFor
  <2>2. QED
    BY <2>1, SourceFacts DEF ToSet
<1>3. PostgresqlCfd(src) = first \o frames \o spatial
  BY DEF PostgresqlCfd, Each, StaticWrite, ValuesWrite, BuildLocator, LocatorWrite
<1>4. first \in Seq(FirstWrites(src)) /\ Brings(first, meshes) /\ meshes \subseteq Lasting
  <2> DEFINE parts == [i \in 1..n |-> {Mesh(zones[i]), Bounds(zones[i])}]
  <2>1. ASSUME NEW i \in 1..n
        PROVE  meshBlocks[i] \in Seq(FirstWrites(src)) /\ Brings(meshBlocks[i], parts[i]) /\ parts[i] \subseteq Lasting
    <3>1. meshBlocks[i] = <<StaticWrite(zones[i])>> /\ parts[i] = {Mesh(zones[i]), Bounds(zones[i])}
          /\ zones[i] \in ToSet(zones) /\ zones[i] \in Zones
      BY <1>1
    <3>2. QED
      BY <3>1, PostgresqlWrite, PartFacts
  <2>2. \A part \in meshes : \E i \in 1..n : part \in parts[i]
    BY <1>1
  <2>3. meshBlocks = [i \in 1..n |-> meshBlocks[i]]
    BY <1>1
  <2>4. meshes \subseteq Lasting
    BY <2>1, <2>2
  <2> HIDE DEF meshBlocks, parts, meshes, n
  <2>5. QED
    BY <1>1, <2>1, <2>2, <2>3, <2>4, BlocksBring, BlocksIn
<1>5. ASSUME NEW s \in Steps
      PROVE  FlattenSeq(inner(s)) \in Seq(LateWrites(src)) /\ Brings(FlattenSeq(inner(s)), Frame[s])
             /\ Frame[s] \subseteq Lasting
  <2>1. \A i \in 1..n : inner(s)[i] \in Seq(LateWrites(src)) /\ Brings(inner(s)[i], {Values(zones[i], s)})
    BY <1>1, PostgresqlWrite
  <2>2. inner(s) = [i \in DOMAIN zones |-> inner(s)[i]] /\ inner(s) = [i \in 1..n |-> inner(s)[i]] /\ Frame[s] = ValuesOf(src, s)
    BY <1>1
  <2> HIDE DEF inner
  <2>3. Brings(FlattenSeq(inner(s)), ValuesOf(src, s)) /\ ValuesOf(src, s) \subseteq Lasting
    BY <2>1, <2>2, ZonesBring
  <2> HIDE DEF n, Frame
  <2>4. FlattenSeq(inner(s)) \in Seq(LateWrites(src))
    BY <1>1, <2>1, <2>2, BlocksIn
  <2>5. QED
    BY <2>2, <2>3, <2>4
<1>6. frames \in Seq(LateWrites(src)) /\ Brings(frames, values) /\ values \subseteq Lasting
  <2>1. \A i \in 1..Len(steps) : frameBlocks[i] \in Seq(LateWrites(src)) /\ Brings(frameBlocks[i], Frame[steps[i]])
    <3>1. \A i \in 1..Len(steps) : frameBlocks[i] = FlattenSeq(inner(steps[i]))
      BY <1>2
    <3> HIDE DEF frameBlocks, inner, Frame
    <3>2. QED
      BY <1>2, <1>5, <3>1
  <2>2. frameBlocks = [i \in DOMAIN steps |-> frameBlocks[i]] /\ frameBlocks = [i \in 1..Len(steps) |-> frameBlocks[i]]
    BY <1>2
  <2>3. \A s \in Steps : Frame[s] \subseteq Lasting
    BY <1>5
  <2> HIDE DEF frameBlocks, Frame, steps
  <2>4. Brings(frames, values) /\ values \subseteq Lasting
    <3>1. steps \in Seq(Steps) /\ frameBlocks = [i \in DOMAIN steps |-> frameBlocks[i]]
      BY <1>2, <2>2
    <3>2. \A i \in 1..Len(steps) : Brings(frameBlocks[i], Frame[steps[i]])
      BY <2>1
    <3>3. QED
      BY <2>3, <3>1, <3>2, FramesBring, ZenonT(60)
  <2>5. frames \in Seq(LateWrites(src))
    BY <1>2, <2>1, <2>2, BlocksIn
  <2>6. QED
    BY <2>4, <2>5
<1>7. spatial \in Seq(LateWrites(src)) /\ Brings(spatial, {})
  <2> DEFINE parts == [i \in 1..n |-> {}]
  <2>1. \A i \in 1..n : locatorBlocks[i] \in Seq(LateWrites(src)) /\ Brings(locatorBlocks[i], parts[i]) /\ parts[i] \subseteq Lasting
    BY <1>1, PostgresqlWrite
  <2>2. locatorBlocks = [i \in 1..n |-> locatorBlocks[i]]
    BY <1>1
  <2>3. <<>> \in Seq(LateWrites(src)) /\ \A part \in {} : \E i \in 1..n : part \in parts[i]
    OBVIOUS
  <2> HIDE DEF locatorBlocks, parts, n
  <2>4. FlattenSeq(locatorBlocks) \in Seq(LateWrites(src)) /\ Brings(FlattenSeq(locatorBlocks), {})
    <3> DEFINE all == {}
    <3>1. \A part \in all : \E i \in 1..n : part \in parts[i]
      OBVIOUS
    <3> HIDE DEF all
    <3>2. Brings(FlattenSeq(locatorBlocks), all)
      BY <1>1, <2>1, <2>2, <3>1, BlocksBring
    <3>3. FlattenSeq(locatorBlocks) \in Seq(LateWrites(src))
      BY <1>1, <2>1, <2>2, BlocksIn
    <3>4. QED
      BY <3>2, <3>3 DEF all
  <2>5. QED
    BY <2>3, <2>4, BringsNothing
<1>8. Needed("postgresql", src) \subseteq meshes \cup values
  <2>1. ASSUME NEW part \in Needed("postgresql", src) PROVE part \in meshes \cup values
    <3>1. part \in meshes \/ \E z \in ToSet(zones), s \in ToSet(steps) : part = Values(z, s)
      BY <1>2 DEF Needed
    <3>2. \A s \in ToSet(steps) : Frame[s] = ValuesOf(src, s)
      BY <1>2
    <3>3. (\E s \in ToSet(steps) : part \in Frame[s]) => part \in values
      OBVIOUS
    <3> HIDE DEF Frame, values, meshes
    <3>4. QED
      BY <3>1, <3>2, <3>3 DEF ValuesOf
  <2>2. QED
    BY <2>1
<1>9. \A z \in ToSet(zones) : Leaves(first, Mesh(z))
  BY <1>4 DEF Brings, Fills
<1> HIDE DEF first, frames, spatial, meshes, values
<1>10. frames \o spatial \in Seq(LateWrites(src))
  BY <1>6, <1>7, ConcatElements
<1>11. PostgresqlCfd(src) = first \o (frames \o spatial)
  <2>1. first \in Seq(WriteSet) /\ frames \in Seq(WriteSet) /\ spatial \in Seq(WriteSet)
    BY <1>4, <1>6, <1>7 DEF Brings, Fills
  <2>2. QED
    BY <1>3, <2>1, ConcatAssociates
<1>12. Brings(first \o frames, meshes \cup values) /\ meshes \cup values \subseteq Lasting
  BY <1>4, <1>6, ConcatBrings
<1>13. Brings(PostgresqlCfd(src), meshes \cup values)
  <2> DEFINE parts == meshes \cup values
             start == first \o frames
  <2>1. parts \cup {} = parts /\ parts \subseteq Lasting /\ Brings(start, parts) /\ PostgresqlCfd(src) = start \o spatial
    BY <1>3, <1>12
  <2> HIDE DEF parts, start
  <2>2. Brings(PostgresqlCfd(src), parts)
    BY <1>7, <2>1, ConcatBrings
  <2>3. QED
    BY <2>2 DEF parts
<1>14. Fills(PostgresqlCfd(src), Needed("postgresql", src))
  BY <1>8, <1>13 DEF Brings, Fills
<1>15. QED
  BY <1>4, <1>9, <1>10, <1>11, <1>14

LEMMA LoaderIs ==
  ASSUME NEW src \in Sources
  PROVE  /\ Loader["postgresql"][src] = IF src.kind = "cfd" THEN PostgresqlCfd(src) ELSE PostgresqlH5(src)
         /\ Loader["iotdb"][src] = IF src.kind = "cfd" THEN IotdbCfd(src) ELSE IotdbH5(src)
         /\ Loader["tiledb"][src] = IF src.kind = "cfd" THEN TiledbCfd(src) ELSE TiledbH5(src)
         /\ Loader["vtk"][src] = Vtk(src)
  BY DEF Loader, Backends

\* Every loader leaves all that its backend needs, and makes at least one write.
LEMMA LoaderFills ==
  ASSUME NEW b \in Backends, NEW src \in Sources
  PROVE  /\ Fills(Loader[b][src], Needed(b, src))
         /\ Loader[b][src] \in Seq(WriteSet) /\ Len(Loader[b][src]) \in Nat /\ Len(Loader[b][src]) >= 1
         /\ \A part : ~LeftBefore(Loader[b][src], 1, part)
<1>1. Fills(Loader[b][src], Needed(b, src))
  <2>1. src.kind \in {"cfd", "h5"}
    BY SourceFacts
  <2>2. CASE src.kind = "cfd"
    BY <2>2, LoaderIs, PostgresqlCfdWrites, IotdbCfdFills, TiledbCfdFills, VtkWrites DEF Backends, Brings
  <2>3. CASE src.kind = "h5"
    BY <2>3, LoaderIs, PostgresqlH5Writes, IotdbH5Fills, TiledbH5Fills, VtkWrites DEF Backends
  <2>4. QED
    BY <2>1, <2>2, <2>3
<1>2. Loader[b][src] \in Seq(WriteSet)
  BY <1>1 DEF Fills
<1>3. PICK part : part \in Needed(b, src)
  <2>1. Manifest \in Needed("vtk", src)
    BY DEF Needed
  <2>2. b # "vtk" => Mesh(Head(src.zones)) \in Needed(b, src)
    BY SourceFacts DEF Needed
  <2>3. QED
    BY <2>1, <2>2
<1>4. \E i \in 1..Len(Loader[b][src]) : TRUE
  BY <1>1, <1>3 DEF Fills, Leaves, LeftBefore
<1>5. Len(Loader[b][src]) \in Nat
  BY <1>2
<1>6. \A part_1 : ~LeftBefore(Loader[b][src], 1, part_1)
  BY <1>5 DEF LeftBefore
<1>7. QED
  BY <1>1, <1>2, <1>4, <1>5, <1>6

\* At a write of PostgreSQL that rests on meshes, those of the ingest are there.
LEMMA PostgresqlWrites ==
  ASSUME NEW src \in Sources, NEW p \in 1..Len(Loader["postgresql"][src])
  PROVE  LET L == Loader["postgresql"][src] IN
         \/ L[p] \in FirstWrites(src)
         \/ L[p] \in LateWrites(src) /\ \A z \in ToSet(src.zones) : LeftBefore(L, p, Mesh(z))
<1> DEFINE L == Loader["postgresql"][src]
<1>1. PICK first \in Seq(FirstWrites(src)), late \in Seq(LateWrites(src)) :
        L = first \o late /\ \A z \in ToSet(src.zones) : Leaves(first, Mesh(z))
  BY LoaderIs, SourceFacts, PostgresqlCfdWrites, PostgresqlH5Writes
<1>2. first \in Seq(WriteSet) /\ late \in Seq(WriteSet)
  BY DEF FirstWrites, LateWrites
<1>3. \A z : Keeps(late, Mesh(z))
  <2> SUFFICES ASSUME NEW z, NEW j \in 1..Len(late) PROVE Spares(late[j], Mesh(z))
    BY DEF Keeps
  <2>1. IsLate(late[j], src)
    BY ElementOf DEF LateWrites
  <2>2. QED
    <3> DEFINE w == late[j]
    <3>1. PICK y : w = LocatorWrite(y) \/ w = GeomWrite(y) \/ \E s \in Steps : w = ValuesWrite(y, s)
      BY <2>1, Zenon DEF IsLate
    <3> HIDE DEF w
    <3>2. \E part : w.drop = {part} /\ w.put = {part} /\ part # Mesh(z)
      <4>1. CASE w = LocatorWrite(y)
        <5>1. w.drop = {Locator(y)} /\ w.put = {Locator(y)} /\ Locator(y) # Mesh(z)
          BY <4>1, WriteFields, PartsDiffer DEF LocatorWrite
        <5>2. QED
          BY <5>1
      <4>2. CASE w = GeomWrite(y)
        <5>1. w.drop = {Geom(y)} /\ w.put = {Geom(y)} /\ Geom(y) # Mesh(z)
          BY <4>2, WriteFields, PartsDiffer DEF GeomWrite
        <5>2. QED
          BY <5>1
      <4>3. CASE \E s \in Steps : w = ValuesWrite(y, s)
        <5>1. PICK s \in Steps : w = ValuesWrite(y, s)
          BY <4>3
        <5>2. w.drop = {Values(y, s)} /\ w.put = {Values(y, s)} /\ Values(y, s) # Mesh(z)
          BY <5>1, WriteFields, PartsDiffer DEF ValuesWrite
        <5>3. QED
          BY <5>2
      <4>4. QED
        BY <3>1, <4>1, <4>2, <4>3
    <3>5. Spares(w, Mesh(z))
      BY <3>2 DEF Spares
    <3>6. QED
      BY <3>5 DEF w
<1>4. CASE p <= Len(first)
  <2>1. p \in 1..Len(first) /\ L[p] = first[p]
    BY <1>1, <1>2, <1>4, ConcatElements
  <2>2. QED
    BY <2>1
<1>5. CASE p > Len(first)
  <2>1. p - Len(first) \in 1..Len(late) /\ L[p] = late[p - Len(first)] /\ p \in Nat
    BY <1>1, <1>2, <1>5, ConcatElements
  <2>2. L[p] \in LateWrites(src)
    BY <2>1
  <2>3. \A z \in ToSet(src.zones) : LeftBefore(L, p, Mesh(z))
    BY <1>1, <1>2, <1>3, <1>5, <2>1, LeftByFirst
  <2>4. QED
    BY <2>2, <2>3
<1>6. Len(first) \in Nat
  BY <1>2
<1>7. QED
  BY <1>4, <1>5, <1>6

-----------------------------------------------------------------------------
(* The inductive invariants.                                               *)

\* TypeOK, with what it needs: the command cannot run before the first ingest is begun, no part is
\* of an ingest that is still to come, and a backend that is unknown is found at the first write.
TypeInv ==
  /\ TypeOK
  /\ store \in [Backends -> [Parts -> 0..Now]]
  /\ selected \in Seq(ToSet(selected))
  /\ exit = "running" => Now # 0
  /\ Busy /\ Current \notin Backends => position = 1

\* What the writes made so far leave is there.
Performed ==
  Busy /\ Current \in Backends =>
    \A part \in Parts : LeftBefore(Loader[Current][Source], position, part) => store[Current][part] = Now

\* What is reported done is there, whatever else is.
Served ==
  \A b \in Backends :
    reported[b] # 0 => \A part \in Needed(b, sources[reported[b]]) : store[b][part] = reported[b]

\* A backend is done, to do, or there is a failure.
Accounted ==
  exit = "running" /\ failed = {} =>
    \A i \in 1..Len(selected) :
      selected[i] \in ToSet(todo) \/ (selected[i] \in Backends /\ reported[selected[i]] = Now)

\* The files that the manifest of an ingest names.
IsFrame(part, src) == \E z \in ToSet(src.zones), s \in ToSet(StepsFor("vtk", src)) : part = Values(z, s)

\* The frames that a manifest names are of its ingest or gone, and there is no manifest while
\* frames are written.
ManifestLast ==
  LET n == store["vtk"][Manifest] IN
  /\ n # 0 => \A part : IsFrame(part, sources[n]) => store["vtk"][part] \in {0, n}
  /\ Busy /\ Current = "vtk" /\ position # 1 => n = 0

-----------------------------------------------------------------------------
(* What steps do to the store.                                             *)

\* A part that is computed from stored ones is of an ingest that there was.
LEMMA OriginOf ==
  ASSUME Now \in Nat, NEW from \in Seq(Parts), NEW content \in [Parts -> 0..Now]
  PROVE  /\ Origin(from, content) \in 0..Now
         /\ from = <<>> => Origin(from, content) = Now
         /\ Len(from) \in {1, 2} /\ content[from[1]] # 0 => Origin(from, content) = content[from[1]]
         /\ Len(from) = 2 /\ content[from[1]] = 0 /\ content[from[2]] # 0 =>
              Origin(from, content) = content[from[2]]
<1> DEFINE present == {i \in DOMAIN from : content[from[i]] # 0}
<1>1. DOMAIN from = 1..Len(from) /\ Len(from) \in Nat /\ present \subseteq 1..Len(from) /\ present \subseteq Nat
      /\ \A i \in 1..Len(from) : content[from[i]] \in 0..Now
  OBVIOUS
<1>2. Origin(from, content) = IF present = {} THEN Now ELSE content[from[Min(present)]]
  BY DEF Origin
<1>3. \A i \in 1..Len(from) : i \in present <=> content[from[i]] # 0
  BY <1>1
<1> HIDE DEF present
<1>4. ASSUME present # {} PROVE Min(present) \in present /\ \A i \in present : Min(present) <= i
  <2>1. PICK n \in present : \A x \in present : n <= x
    BY <1>1, <1>4, SmallestOf
  <2>2. QED
    BY <2>1, Zenon DEF Min
<1>5. Origin(from, content) \in 0..Now
  <2>1. CASE present = {}
    BY <1>2, <2>1
  <2>2. CASE present # {}
    <3>1. Min(present) \in 1..Len(from)
      BY <1>1, <1>4, <2>2
    <3>2. QED
      BY <1>1, <1>2, <2>2, <3>1
  <2>3. QED
    BY <2>1, <2>2
<1>6. from = <<>> => Origin(from, content) = Now
  BY <1>1, <1>2
<1>7. ASSUME Len(from) \in {1, 2}, content[from[1]] # 0 PROVE Origin(from, content) = content[from[1]]
  <2>1. 1 \in present
    BY <1>3, <1>7
  <2>2. Min(present) \in 1..Len(from) /\ Min(present) <= 1
    BY <1>1, <1>4, <2>1
  <2>3. Min(present) = 1
    BY <1>7, <2>2
  <2>4. QED
    BY <1>2, <2>1, <2>3
<1>8. ASSUME Len(from) = 2, content[from[1]] = 0, content[from[2]] # 0 PROVE Origin(from, content) = content[from[2]]
  <2>1. 2 \in present /\ 1 \notin present
    BY <1>3, <1>8
  <2>2. Min(present) \in 1..Len(from) /\ Min(present) <= 2 /\ Min(present) # 1
    BY <1>1, <1>4, <2>1
  <2>3. Min(present) = 2
    BY <1>8, <2>2
  <2>4. QED
    BY <1>2, <2>1, <2>3
<1>9. QED
  BY <1>5, <1>6, <1>7, <1>8

\* The loader that is at work.
LEMMA AtWork ==
  ASSUME TypeInv, Busy
  PROVE  /\ Now \in Nat \ {0} /\ Source \in Sources
         /\ Current \in Backends =>
              /\ Loader[Current][Source] \in Seq(WriteSet) /\ position \in 1..Len(Loader[Current][Source])
              /\ Loader[Current][Source][position] \in WriteSet
<1>1. Now \in Nat \ {0} /\ Source \in Sources
  BY DEF TypeInv, TypeOK, Busy, Now, Source
<1>2. ASSUME Current \in Backends
      PROVE  /\ Loader[Current][Source] \in Seq(WriteSet) /\ position \in 1..Len(Loader[Current][Source])
             /\ Loader[Current][Source][position] \in WriteSet
  <2>1. Loader[Current][Source] \in Seq(WriteSet) /\ Len(Loader[Current][Source]) \in Nat
    BY <1>1, <1>2, LoaderFills
  <2>2. position \in Nat \ {0} /\ position <= Len(Loader[Current][Source])
    BY <1>2 DEF TypeInv, TypeOK
  <2>3. QED
    BY <2>1, <2>2, ElementOf
<1>3. QED
  BY <1>1, <1>2

\* What a write does to each part.
Written(b, w) ==
  /\ \A c \in Backends : c # b => store'[c] = store[c]
  /\ \A part \in Parts :
       /\ part \in w.put => store'[b][part] = Origin(w.from, store[b])
       /\ part \notin w.put /\ part \in w.drop => store'[b][part] = 0
       /\ part \notin w.put /\ part \notin w.drop => store'[b][part] = store[b][part]

LEMMA LoaderStep ==
  ASSUME TypeInv, LoaderWrites
  PROVE  /\ Written(Current, Loader[Current][Source][position])
         /\ store' \in [Backends -> [Parts -> 0..Now]]
         /\ reported' \in [Backends -> 0..Now]
         /\ \A c \in Backends : c # Current => reported'[c] = reported[c]
         /\ \A part \in Parts :
              /\ Renews(Loader[Current][Source][position], part) => store'[Current][part] = Now
              /\ Spares(Loader[Current][Source][position], part) => store'[Current][part] = store[Current][part]
<1> DEFINE b == Current
           w == Loader[b][Source][position]
<1>1. b \in Backends /\ w \in WriteSet /\ Now \in Nat \ {0} /\ store[b] \in [Parts -> 0..Now]
      /\ store \in [Backends -> [Parts -> 0..Now]] /\ reported \in [Backends -> 0..Now]
  BY AtWork DEF LoaderWrites, TypeInv, TypeOK
<1> DEFINE new == [p \in Parts |-> IF p \in w.put THEN Origin(w.from, store[b]) ELSE IF p \in w.drop THEN 0 ELSE store[b][p]]
<1>2. store' = [store EXCEPT ![b] = new]
  BY Zenon DEF LoaderWrites
<1>3. reported' = [reported EXCEPT ![b] = IF position = Len(Loader[b][Source]) THEN Now ELSE 0]
  BY Zenon DEF LoaderWrites
<1>4. w.from \in Seq(Parts) /\ w.drop \subseteq Parts /\ w.put \subseteq Parts
  BY <1>1 DEF WriteSet
<1> HIDE DEF w, b
<1>5. Origin(w.from, store[b]) \in 0..Now /\ (w.from = <<>> => Origin(w.from, store[b]) = Now)
  BY <1>1, <1>4, OriginOf
<1>6. new \in [Parts -> 0..Now]
  BY <1>1, <1>5
<1>7. \A p \in Parts : new[p] = IF p \in w.put THEN Origin(w.from, store[b]) ELSE IF p \in w.drop THEN 0 ELSE store[b][p]
  OBVIOUS
<1> HIDE DEF new
<1>8. store'[b] = new /\ (\A c \in Backends : c # b => store'[c] = store[c]) /\ store' \in [Backends -> [Parts -> 0..Now]]
  BY <1>1, <1>2, <1>6
<1>9. reported' \in [Backends -> 0..Now] /\ \A c \in Backends : c # b => reported'[c] = reported[c]
  BY <1>1, <1>3
<1>10. Written(b, w)
  BY <1>7, <1>8 DEF Written
<1>11. \A part \in Parts : /\ Renews(w, part) => store'[b][part] = Now
                           /\ Spares(w, part) => store'[b][part] = store[b][part]
  BY <1>5, <1>7, <1>8 DEF Renews, Spares
<1>12. QED
  BY <1>8, <1>9, <1>10, <1>11 DEF w, b

\* An interruption leaves everything as it is, or takes files out of a tree that is being removed.
Torn(b) ==
  /\ Busy /\ b = Current /\ b \in Backends
  /\ Loader[b][Source][position] = Write(Parts, {}, <<>>)
  /\ \A c \in Backends : c # b => store'[c] = store[c] /\ reported'[c] = reported[c]
  /\ reported'[b] = 0
  /\ \E gone \in SUBSET Directories :
       \A part \in Parts : store'[b][part] = IF part[1] \in UNION gone THEN 0 ELSE store[b][part]

LEMMA InterruptStep ==
  ASSUME TypeInv, Interrupts
  PROVE  /\ store' \in [Backends -> [Parts -> 0..Now]]
         /\ reported' \in [Backends -> 0..Now]
         /\ (store' = store /\ reported' = reported) \/ Torn(Current)
<1>1. Now \in Nat /\ store \in [Backends -> [Parts -> 0..Now]] /\ reported \in [Backends -> 0..Now]
  BY DEF TypeInv, TypeOK, Now
<1>2. CASE store' = store /\ reported' = reported
  BY <1>1, <1>2
<1>3. CASE ~(store' = store /\ reported' = reported)
  <2> DEFINE b == Current
  <2>1. Busy /\ b \in Backends /\ <<Loader[b][Source][position]>> = RemoveTree
    BY <1>3 DEF Interrupts
  <2>2. PICK gone \in SUBSET Directories :
          store' = [store EXCEPT ![b] = [p \in Parts |-> IF p[1] \in UNION gone THEN 0 ELSE store[b][p]]]
    BY <1>3, <2>1, Zenon DEF Interrupts
  <2>3. reported' = [reported EXCEPT ![b] = 0]
    BY <1>3, <2>1, Zenon DEF Interrupts
  <2>4. Loader[b][Source][position] = Write(Parts, {}, <<>>)
    BY <2>1 DEF RemoveTree, Drop
  <2> DEFINE new == [p \in Parts |-> IF p[1] \in UNION gone THEN 0 ELSE store[b][p]]
  <2> HIDE DEF b
  <2>5. new \in [Parts -> 0..Now] /\ \A p \in Parts : new[p] = IF p[1] \in UNION gone THEN 0 ELSE store[b][p]
    BY <1>1, <2>1
  <2>6. store' = [store EXCEPT ![b] = new]
    BY <2>2
  <2> HIDE DEF new
  <2>7. store'[b] = new /\ (\A c \in Backends : c # b => store'[c] = store[c]) /\ store' \in [Backends -> [Parts -> 0..Now]]
    BY <1>1, <2>1, <2>5, <2>6
  <2>8. reported' \in [Backends -> 0..Now] /\ reported'[b] = 0 /\ \A c \in Backends : c # b => reported'[c] = reported[c]
    BY <1>1, <2>1, <2>3
  <2>9. Torn(b)
    BY <2>1, <2>4, <2>5, <2>7, <2>8, ZenonT(60) DEF Torn, b
  <2>10. QED
    BY <2>7, <2>8, <2>9 DEF b
<1>4. QED
  BY <1>2, <1>3

-----------------------------------------------------------------------------
(* Type correctness.                                                       *)

LEMMA InH5OrderType ==
  ASSUME NEW sel
  PROVE  InH5Order(sel) \in Seq(Backends)
<1> DEFINE blocks == [i \in DOMAIN H5Order |-> IF H5Order[i] \in ToSet(sel) THEN <<H5Order[i]>> ELSE <<>>]
<1>1. H5Order \in Seq(Backends)
  BY DEF H5Order, Backends
<1>2. DOMAIN H5Order = 1..Len(H5Order) /\ Len(H5Order) \in Nat /\ \A i \in 1..Len(H5Order) : H5Order[i] \in Backends
  BY <1>1
<1>3. \A i \in 1..Len(H5Order) : blocks[i] \in Seq(Backends)
  BY <1>2
<1>4. blocks = [i \in 1..Len(H5Order) |-> blocks[i]]
  BY <1>2
<1>5. InH5Order(sel) = FlattenSeq(blocks)
  BY DEF InH5Order, Each
<1> HIDE DEF blocks
<1>6. QED
  BY <1>2, <1>3, <1>4, <1>5, BlocksIn

LEMMA ElementsOf ==
  ASSUME NEW S, NEW s \in Seq(S)
  PROVE  ToSet(s) \subseteq S /\ s \in Seq(ToSet(s)) /\ \A x : x \in ToSet(s) <=> \E i \in 1..Len(s) : x = s[i]
  BY DEF ToSet

\* What is left of a sequence.
LEMMA Suffix ==
  ASSUME NEW S, NEW s \in Seq(S), NEW i \in 1..Len(s) + 1, NEW t, t = SubSeq(s, i, Len(s))
  PROVE  /\ t \in Seq(S) /\ Len(s) \in Nat /\ Len(t) = Len(s) + 1 - i
         /\ \A j \in 1..Len(t) : t[j] = s[i + j - 1] /\ i + j - 1 \in 1..Len(s)
         /\ ToSet(t) \subseteq ToSet(s)
         /\ t # <<>> => Head(t) = s[i] /\ i \in 1..Len(s) /\ Head(t) \in ToSet(s) /\ Head(t) \in ToSet(t)
         /\ t # <<>> => Tail(t) = SubSeq(s, i + 1, Len(s)) /\ i + 1 \in 1..Len(s) + 1
         /\ \A x \in ToSet(t) : t # <<>> => x = Head(t) \/ x \in ToSet(Tail(t))
<1>1. Len(s) \in Nat /\ i \in Nat /\ i >= 1 /\ i <= Len(s) + 1
  OBVIOUS
<1>2. t \in Seq(S) /\ Len(t) = Len(s) + 1 - i /\ \A j \in 1..Len(t) : t[j] = s[i + j - 1] /\ i + j - 1 \in 1..Len(s)
  <2>1. Len(t) = Len(s) + 1 - i /\ DOMAIN t = 1..Len(t)
    BY <1>1
  <2>2. \A j \in 1..Len(t) : t[j] = s[i + j - 1]
    BY <1>1, <2>1
  <2>3. \A j \in 1..Len(t) : i + j - 1 \in 1..Len(s)
    BY <1>1, <2>1
  <2>4. t \in Seq(S)
    BY <1>1
  <2>5. QED
    BY <2>1, <2>2, <2>3, <2>4
<1>3. /\ \A x : x \in ToSet(t) <=> \E j \in 1..Len(t) : x = t[j]
      /\ \A x : x \in ToSet(s) <=> \E j \in 1..Len(s) : x = s[j]
  BY <1>2, ElementsOf
<1>4. ToSet(t) \subseteq ToSet(s)
  BY <1>2, <1>3
<1>5. ASSUME t # <<>> PROVE Head(t) = s[i] /\ i \in 1..Len(s) /\ Head(t) \in ToSet(s) /\ Head(t) \in ToSet(t)
  <2>1. Len(t) # 0 /\ Len(t) \in Nat
    BY <1>2, <1>5
  <2>2. 1 \in 1..Len(t) /\ Head(t) = t[1] /\ i + 1 - 1 = i
    BY <1>1, <1>2, <1>5, <2>1
  <2>3. QED
    BY <1>2, <1>3, <2>2
<1>6. ASSUME t # <<>> PROVE Tail(t) = SubSeq(s, i + 1, Len(s)) /\ i + 1 \in 1..Len(s) + 1
  <2>1. i \in 1..Len(s)
    BY <1>5, <1>6
  <2>2. i + 1 \in 1..Len(s) + 1
    BY <1>1, <2>1
  <2>3. SubSeq(s, i + 1, Len(s)) \in Seq(S) /\ Len(SubSeq(s, i + 1, Len(s))) = Len(s) - i
        /\ \A j \in 1..Len(s) - i : SubSeq(s, i + 1, Len(s))[j] = s[i + j]
    BY <1>1, <2>1
  <2>4. Tail(t) \in Seq(S) /\ Len(Tail(t)) = Len(t) - 1 /\ \A j \in 1..Len(t) - 1 : Tail(t)[j] = t[j + 1] /\ j + 1 \in 1..Len(t)
    BY <1>2, <1>6
  <2>5. Len(t) - 1 = Len(s) - i /\ \A j \in 1..Len(s) - i : i + (j + 1) - 1 = i + j
    BY <1>1, <1>2, <2>1
  <2>6. \A j \in 1..Len(s) - i : Tail(t)[j] = SubSeq(s, i + 1, Len(s))[j]
    BY <1>2, <2>3, <2>4, <2>5
  <2>7. QED
    BY <2>2, <2>3, <2>4, <2>5, <2>6, SameSequence
<1>7. ASSUME t # <<>>, NEW x \in ToSet(t) PROVE x = Head(t) \/ x \in ToSet(Tail(t))
  <2>1. PICK j \in 1..Len(t) : x = t[j]
    BY <1>3
  <2>2. Len(t) \in Nat /\ Len(t) # 0 /\ Head(t) = t[1]
    BY <1>2, <1>7
  <2>3. Tail(t) \in Seq(S) /\ Len(Tail(t)) = Len(t) - 1 /\ \A k \in 1..Len(t) - 1 : Tail(t)[k] = t[k + 1]
    BY <1>2, <1>7
  <2>4. CASE j # 1
    <3>1. j - 1 \in 1..Len(t) - 1 /\ j - 1 + 1 = j
      BY <2>2, <2>4
    <3>2. Tail(t)[j - 1] = x /\ j - 1 \in 1..Len(Tail(t))
      BY <2>1, <2>3, <3>1
    <3>3. DOMAIN Tail(t) = 1..Len(Tail(t))
      BY <2>3
    <3>4. QED
      BY <3>2, <3>3 DEF ToSet
  <2>5. QED
    BY <2>1, <2>2, <2>4
<1>8. QED
  BY <1>1, <1>2, <1>4, <1>5, <1>6, <1>7

\* A backend is taken off the list, or the whole list is.
LEMMA TodoShrinks ==
  ASSUME TypeInv, selected' = selected
  PROVE  /\ Busy => Current \in ToSet(selected)
         /\ todo' = todo => \E i \in 1..Len(selected') + 1 : todo' = SubSeq(selected', i, Len(selected'))
         /\ Busy /\ todo' = Tail(todo) => \E i \in 1..Len(selected') + 1 : todo' = SubSeq(selected', i, Len(selected'))
         /\ todo' = <<>> => \E i \in 1..Len(selected') + 1 : todo' = SubSeq(selected', i, Len(selected'))
<1>1. selected \in Seq(ToSet(selected))
  BY DEF TypeInv
<1>2. PICK i \in 1..Len(selected) + 1 : todo = SubSeq(selected, i, Len(selected))
  BY DEF TypeInv, TypeOK
<1>3. Busy => todo # <<>>
  BY DEF Busy
<1>4. Busy => Current \in ToSet(selected)
  <2>1. PICK S : selected \in Seq(S)
    BY <1>1
  <2>2. todo # <<>> => Head(todo) \in ToSet(selected)
    <3>1. SubSeq(selected, i, Len(selected)) # <<>> => Head(SubSeq(selected, i, Len(selected))) \in ToSet(selected)
      BY <2>1, Suffix
    <3>2. QED
      BY <1>2, <3>1, Zenon
  <2>3. QED
    BY <1>3, <2>2 DEF Current
<1>5. Busy => Tail(todo) = SubSeq(selected, i + 1, Len(selected)) /\ i + 1 \in 1..Len(selected) + 1
  BY <1>1, <1>2, <1>3, Suffix
<1>6. SubSeq(selected, Len(selected) + 1, Len(selected)) = <<>> /\ Len(selected) + 1 \in 1..Len(selected) + 1
  BY <1>1
<1>7. QED
  BY <1>2, <1>4, <1>5, <1>6

LEMMA HeadIsTodo ==
  ASSUME TypeInv, Busy
  PROVE  Current \in ToSet(todo) /\ \A x \in ToSet(todo) : x = Current \/ x \in ToSet(Tail(todo))
<1>1. selected \in Seq(ToSet(selected)) /\ todo # <<>>
  BY DEF TypeInv, Busy
<1>2. PICK i \in 1..Len(selected) + 1 : todo = SubSeq(selected, i, Len(selected))
  BY DEF TypeInv, TypeOK
<1> DEFINE t == SubSeq(selected, i, Len(selected))
<1>3. t # <<>> => Head(t) \in ToSet(t) /\ \A x \in ToSet(t) : x = Head(t) \/ x \in ToSet(Tail(t))
  BY <1>1, Suffix
<1>4. QED
  BY <1>1, <1>2, <1>3, Zenon DEF Current

LEMMA InitIngest == Init => TypeInv
<1> SUFFICES ASSUME Init PROVE TypeInv
  OBVIOUS
<1>1. sources = <<>> /\ Now = 0 /\ sources \in Seq(Sources)
  BY DEF Init, Now
<1>2. store \in [Backends -> [Parts -> 0..Now]] /\ store \in [Backends -> [Parts -> 0..MaxIngests]]
      /\ reported \in [Backends -> 0..Now]
  BY <1>1, BoundsAssumption DEF Init
<1>3. selected = <<>> /\ selected \in Seq(ToSet(selected)) /\ Len(selected) = 0
  BY DEF Init, ToSet
<1>4. 1 \in 1..Len(selected) + 1 /\ todo = SubSeq(selected, 1, Len(selected))
  <2>1. SubSeq(selected, 1, Len(selected)) = <<>>
    BY <1>3
  <2>2. QED
    BY <1>3, <2>1 DEF Init
<1>5. QED
  BY <1>1, <1>2, <1>3, <1>4, BoundsAssumption DEF Init, TypeInv, TypeOK, Busy

LEMMA BeginTypes ==
  ASSUME TypeInv, NEW src \in Sources, NEW sel \in Selections, BeginIngest(src, sel)
  PROVE  /\ TypeInv'
         /\ Now' = Now + 1 /\ Source' = src /\ \A n \in 1..Now : sources'[n] = sources[n]
         /\ todo' = selected'
<1>1. sources \in Seq(Sources) /\ Now \in Nat /\ Now < MaxIngests
  BY DEF TypeInv, TypeOK, BeginIngest, Now
<1>2. sources' = Append(sources, src)
  BY DEF BeginIngest
<1>3. sources' \in Seq(Sources) /\ Now' = Now + 1 /\ Now' <= MaxIngests /\ sources'[Now'] = src
      /\ \A n \in 1..Now : sources'[n] = sources[n]
  BY <1>1, <1>2, BoundsAssumption DEF Now
<1>4. store' \in [Backends -> [Parts -> 0..Now']] /\ store' \in [Backends -> [Parts -> 0..MaxIngests]]
      /\ reported' \in [Backends -> 0..Now']
  <2>1. store' = store /\ reported' = reported /\ 0..Now \subseteq 0..Now' /\ 0..Now' \subseteq 0..MaxIngests
    BY <1>1, <1>3, BoundsAssumption DEF BeginIngest
  <2>2. store \in [Backends -> [Parts -> 0..Now]] /\ reported \in [Backends -> 0..Now]
    BY DEF TypeInv, TypeOK
  <2>3. QED
    BY <2>1, <2>2
<1>5. selected' \in Seq(ToSet(selected')) /\ (selected' \in Selections \cup {<<>>} \/ ToSet(selected') \subseteq Backends)
  <2>1. CASE src.kind = "h5"
    <3>1. selected' = InH5Order(sel)
      <4>1. selected' = IF src.kind = "h5" THEN InH5Order(sel) ELSE sel
        BY Zenon DEF BeginIngest
      <4>2. QED
        BY <2>1, <4>1
    <3>2. QED
      BY <3>1, InH5OrderType, ElementsOf
  <2>2. CASE src.kind # "h5"
    BY <2>2, SelectionAssumption DEF BeginIngest
  <2>3. QED
    BY <2>1, <2>2
<1>6. todo' = selected' /\ position' = 1 /\ failed' = {} /\ exit' = "running" /\ faults' = faults
  BY DEF BeginIngest
<1>7. \E i \in 1..Len(selected') + 1 : todo' = SubSeq(selected', i, Len(selected'))
  <2>1. SubSeq(selected', 1, Len(selected')) = selected' /\ Len(selected') \in Nat
    BY <1>5, AllOf
  <2>2. 1 \in 1..Len(selected') + 1
    BY <2>1
  <2>3. QED
    BY <1>6, <2>1, <2>2
<1>8. Busy' /\ Current' \in Backends => position' <= Len(Loader[Current'][Source'])
  <2>1. Source' = src
    BY <1>3 DEF Source
  <2>2. \A b \in Backends : Len(Loader[b][src]) \in Nat /\ 1 <= Len(Loader[b][src])
    BY LoaderFills
  <2>3. ASSUME Current' \in Backends PROVE 1 <= Len(Loader[Current'][src])
    BY <2>2, <2>3
  <2>4. QED
    BY <1>6, <2>1, <2>3
<1>9. TypeOK'
  <2>1. faults' \in 0..MaxFaults /\ failed' \subseteq ToSet(selected')
        /\ exit' \in {"none", "running", "killed", "0", "1"} /\ position' \in Nat \ {0}
    BY <1>6 DEF TypeInv, TypeOK
  <2>2. QED
    BY <1>3, <1>4, <1>5, <1>7, <1>8, <2>1, Zenon DEF TypeOK
<1>10. QED
  BY <1>1, <1>3, <1>4, <1>5, <1>6, <1>9 DEF TypeInv, Source

\* A write, one that is not the last or the last one.
LEMMA Positions ==
  ASSUME TypeInv, LoaderWrites
  PROVE  /\ sources' = sources /\ selected' = selected /\ failed' = failed /\ exit' = exit /\ faults' = faults
         /\ Now' = Now /\ Source' = Source
         /\ \/ /\ position = Len(Loader[Current][Source]) /\ todo' = Tail(todo) /\ position' = 1
               /\ reported' = [reported EXCEPT ![Current] = Now]
            \/ /\ position # Len(Loader[Current][Source]) /\ todo' = todo /\ position' = position + 1
               /\ Current' = Current /\ reported' = [reported EXCEPT ![Current] = 0]
<1>1. sources' = sources /\ selected' = selected /\ failed' = failed /\ exit' = exit /\ faults' = faults
  BY DEF LoaderWrites
<1>2. Now' = Now /\ Source' = Source
  BY <1>1 DEF Now, Source
<1>3. /\ reported' = [reported EXCEPT ![Current] = IF position = Len(Loader[Current][Source]) THEN Now ELSE 0]
      /\ todo' = IF position = Len(Loader[Current][Source]) THEN Tail(todo) ELSE todo
      /\ position' = IF position = Len(Loader[Current][Source]) THEN 1 ELSE position + 1
  BY Zenon DEF LoaderWrites
<1>4. todo' = todo => Current' = Current
  BY DEF Current
<1>5. QED
  BY <1>1, <1>2, <1>3, <1>4

LEMMA WriteTypes ==
  ASSUME TypeInv, LoaderWrites
  PROVE  TypeInv'
<1>1. /\ sources' = sources /\ selected' = selected /\ failed' = failed /\ exit' = exit /\ faults' = faults
      /\ Now' = Now /\ Source' = Source
  BY Positions
<1>2. Busy /\ Current \in Backends
  BY DEF LoaderWrites
<1>3. store' \in [Backends -> [Parts -> 0..Now]] /\ reported' \in [Backends -> 0..Now]
  BY LoaderStep
<1>4. \E i \in 1..Len(selected') + 1 : todo' = SubSeq(selected', i, Len(selected'))
  BY <1>1, <1>2, Positions, TodoShrinks
<1>5. position \in 1..Len(Loader[Current][Source]) /\ Len(Loader[Current][Source]) \in Nat /\ Source \in Sources
      /\ Now \in Nat
  BY <1>2, AtWork, LoaderFills
<1>6. \A b \in Backends : Len(Loader[b][Source]) \in Nat /\ 1 <= Len(Loader[b][Source])
  BY <1>5, LoaderFills
<1>7. position' \in Nat \ {0} /\ (Busy' /\ Current' \in Backends => position' <= Len(Loader[Current'][Source']))
  <2>1. CASE position' = 1
    <3>1. ASSUME Current' \in Backends PROVE 1 <= Len(Loader[Current'][Source])
      BY <1>6, <3>1
    <3>2. QED
      BY <1>1, <2>1, <3>1
  <2>2. CASE position # Len(Loader[Current][Source]) /\ position' = position + 1 /\ Current' = Current
    <3>1. position' \in Nat \ {0} /\ position' <= Len(Loader[Current][Source])
      BY <1>5, <2>2
    <3>2. QED
      BY <1>1, <2>2, <3>1
  <2>3. QED
    BY <2>1, <2>2, Positions
<1>8. store' \in [Backends -> [Parts -> 0..MaxIngests]]
  <2>1. Now \in Nat /\ Now <= MaxIngests /\ MaxIngests \in Nat
    BY <1>5, BoundsAssumption DEF TypeInv, TypeOK
  <2>2. 0..Now \subseteq 0..MaxIngests
    BY <2>1
  <2>3. QED
    BY <1>3, <2>2
<1>9. TypeOK'
  <2>1. /\ sources' \in Seq(Sources) /\ Now' <= MaxIngests /\ faults' \in 0..MaxFaults
        /\ failed' \subseteq ToSet(selected') /\ exit' \in {"none", "running", "killed", "0", "1"}
        /\ selected' \in Selections \cup {<<>>} \/ ToSet(selected') \subseteq Backends
    BY <1>1 DEF TypeInv, TypeOK
  <2>2. reported' \in [Backends -> 0..Now']
    BY <1>1, <1>3
  <2>3. QED
    BY <1>4, <1>7, <1>8, <2>1, <2>2, Zenon DEF TypeOK
<1>10. selected' \in Seq(ToSet(selected')) /\ (exit' = "running" => Now' # 0)
       /\ (Busy' /\ Current' \notin Backends => position' = 1)
  BY <1>1, <1>2, Positions DEF TypeInv
<1>11. QED
  BY <1>1, <1>3, <1>9, <1>10 DEF TypeInv

\* Any other step but BeginIngest: nothing is begun, a backend may be given up.
Aborts == UnknownBackend \/ CfdLoaderRaises \/ H5LoaderRaises \/ Killed \/ Finish \/ UNCHANGED vars

LEMMA AbortStep ==
  ASSUME TypeInv, Aborts
  PROVE  /\ TypeInv'
         /\ sources' = sources /\ selected' = selected /\ Now' = Now /\ Source' = Source
         /\ (store' = store /\ reported' = reported) \/ Torn(Current)
         /\ Busy' => position' = 1 \/ (todo' = todo /\ position' = position /\ exit' = exit /\ store' = store)
         /\ UnknownBackend => Current \notin Backends
<1>1. sources' = sources /\ selected' = selected
  BY DEF Aborts, UnknownBackend, CfdLoaderRaises, H5LoaderRaises, Killed, Finish, vars
<1>2. Now' = Now /\ Source' = Source
  BY <1>1 DEF Now, Source
<1>3. (store' = store /\ reported' = reported) \/ Interrupts
  BY DEF Aborts, UnknownBackend, CfdLoaderRaises, H5LoaderRaises, Killed, Finish, vars
<1>4. /\ store' \in [Backends -> [Parts -> 0..Now]] /\ reported' \in [Backends -> 0..Now]
      /\ (store' = store /\ reported' = reported) \/ Torn(Current)
  <2>1. store \in [Backends -> [Parts -> 0..Now]] /\ reported \in [Backends -> 0..Now]
    BY DEF TypeInv, TypeOK
  <2>2. QED
    BY <1>3, <2>1, InterruptStep
<1>5. \/ todo' = todo /\ position' = position /\ exit' = exit /\ store' = store /\ failed' = failed
      \/ todo' = todo /\ position' = position /\ exit' # "running" /\ exit' \in {"0", "1"} /\ failed' = failed
      \/ todo' = <<>> /\ position' = 1 /\ exit' \in {"1", "killed"} /\ failed' = failed
      \/ Busy /\ todo' = Tail(todo) /\ (position' = 1 \/ position' = position) /\ exit' = exit
           /\ failed' = failed \cup {Current}
  BY DEF Aborts, UnknownBackend, CfdLoaderRaises, H5LoaderRaises, Killed, Stops, Finish, vars
<1>6. \E i \in 1..Len(selected') + 1 : todo' = SubSeq(selected', i, Len(selected'))
  BY <1>1, <1>5, TodoShrinks
<1>7. ASSUME Busy'
      PROVE  position' = 1 \/ (todo' = todo /\ position' = position /\ exit' = exit /\ store' = store)
  <2>1. exit' = "running"
    BY <1>7 DEF Busy
  <2>2. CASE UnknownBackend
    BY <2>2 DEF UnknownBackend, TypeInv
  <2>3. CASE ~UnknownBackend
    BY <2>1, <2>3 DEF Aborts, CfdLoaderRaises, H5LoaderRaises, Killed, Stops, Finish, vars
  <2>4. QED
    BY <2>2, <2>3
<1>8. ASSUME Busy', Current' \in Backends PROVE position' <= Len(Loader[Current'][Source'])
  <2>1. exit' = "running" /\ exit = "running"
    BY <1>5, <1>8 DEF Busy
  <2>2. Source \in Sources
    BY <2>1 DEF TypeInv, TypeOK, Source, Now
  <2>3. \A b \in Backends : Len(Loader[b][Source]) \in Nat /\ 1 <= Len(Loader[b][Source])
    BY <2>2, LoaderFills
  <2>4. 1 <= Len(Loader[Current'][Source])
    BY <1>8, <2>3
  <2>5. CASE position' = 1
    BY <1>2, <2>4, <2>5
  <2>6. CASE todo' = todo /\ position' = position /\ exit' = exit
    <3>1. Current' = Current /\ Busy
      BY <1>8, <2>6 DEF Current, Busy
    <3>2. position <= Len(Loader[Current][Source])
      BY <1>8, <3>1 DEF TypeInv, TypeOK
    <3>3. QED
      BY <1>2, <2>6, <3>1, <3>2
  <2>7. QED
    BY <1>7, <1>8, <2>5, <2>6
<1>9. position' \in Nat \ {0} /\ exit' \in {"none", "running", "killed", "0", "1"} /\ (exit' = "running" => exit = "running")
  BY <1>5 DEF TypeInv, TypeOK
<1>10. failed' \subseteq ToSet(selected')
  BY <1>1, <1>5, TodoShrinks DEF TypeInv, TypeOK
<1>11. faults' \in 0..MaxFaults
  <2>1. faults \in 0..MaxFaults /\ MaxFaults \in Nat
    BY BoundsAssumption DEF TypeInv, TypeOK
  <2>2. faults' = faults \/ (faults < MaxFaults /\ faults' = faults + 1)
    BY DEF Aborts, UnknownBackend, CfdLoaderRaises, H5LoaderRaises, Killed, Finish, vars
  <2>3. QED
    BY <2>1, <2>2
<1>12. store' \in [Backends -> [Parts -> 0..MaxIngests]]
  <2>1. Now \in Nat /\ Now <= MaxIngests /\ MaxIngests \in Nat
    BY BoundsAssumption DEF TypeInv, TypeOK, Now
  <2>2. 0..Now \subseteq 0..MaxIngests
    BY <2>1
  <2>3. QED
    BY <1>4, <2>2
<1>13. TypeOK'
  <2>1. sources' \in Seq(Sources) /\ Now' <= MaxIngests
        /\ (selected' \in Selections \cup {<<>>} \/ ToSet(selected') \subseteq Backends)
    BY <1>1, <1>2 DEF TypeInv, TypeOK
  <2>2. reported' \in [Backends -> 0..Now']
    BY <1>2, <1>4
  <2>3. QED
    BY <1>6, <1>8, <1>9, <1>10, <1>11, <1>12, <2>1, <2>2, Zenon DEF TypeOK
<1>14. Busy' /\ Current' \notin Backends => position' = 1
  <2> SUFFICES ASSUME Busy', Current' \notin Backends, position' # 1 PROVE FALSE
    OBVIOUS
  <2>1. todo' = todo /\ position' = position /\ exit' = exit
    BY <1>7
  <2>2. Current' = Current /\ Busy
    BY <2>1 DEF Current, Busy
  <2>3. QED
    BY <2>1, <2>2 DEF TypeInv
<1>15. selected' \in Seq(ToSet(selected')) /\ (exit' = "running" => Now' # 0)
  BY <1>1, <1>2, <1>9 DEF TypeInv
<1>16. TypeInv'
  BY <1>2, <1>4, <1>13, <1>14, <1>15 DEF TypeInv
<1>17. UnknownBackend => Current \notin Backends
  BY DEF UnknownBackend
<1>18. QED
  BY <1>1, <1>2, <1>4, <1>7, <1>16, <1>17

\* Any step begins an ingest, makes a write or gives up.
LEMMA Cases ==
  ASSUME [Next]_vars
  PROVE  (\E src \in Sources, sel \in Selections : BeginIngest(src, sel)) \/ LoaderWrites \/ Aborts
  BY DEF Next, Aborts

LEMMA TypeStep == TypeInv /\ [Next]_vars => TypeInv'
  BY Cases, BeginTypes, WriteTypes, AbortStep

\* The stored parts are of ingests there were, a position is one of the loader that is at work, what
\* is to do is a tail of what was selected.
THEOREM TypeCorrect == Spec => []TypeOK
<1>1. TypeInv => TypeOK
  BY DEF TypeInv
<1>2. QED
  BY <1>1, InitIngest, TypeStep, PTL DEF Spec

-----------------------------------------------------------------------------
(* Success.                                                                *)

LEMMA LeftNext ==
  ASSUME NEW S, NEW seq \in Seq(S), NEW p \in 1..Len(seq), NEW part, LeftBefore(seq, p + 1, part)
  PROVE  Renews(seq[p], part) \/ (LeftBefore(seq, p, part) /\ Spares(seq[p], part))
<1>1. PICK i \in 1..Len(seq) :
        /\ i < p + 1 /\ Renews(seq[i], part)
        /\ \A j \in 1..Len(seq) : i < j /\ j < p + 1 => Spares(seq[j], part) \/ Renews(seq[j], part)
  BY DEF LeftBefore
<1>2. CASE i = p
  BY <1>1, <1>2
<1>3. CASE i # p
  <2>1. i < p
    BY <1>1, <1>3
  <2>2. p < p + 1 /\ (Spares(seq[p], part) \/ Renews(seq[p], part))
    BY <1>1, <2>1
  <2>3. LeftBefore(seq, p, part)
    <3>1. \A j \in 1..Len(seq) : i < j /\ j < p => Spares(seq[j], part) \/ Renews(seq[j], part)
      BY <1>1
    <3>2. QED
      BY <1>1, <2>1, <3>1 DEF LeftBefore
  <2>4. QED
    BY <2>2, <2>3
<1>4. QED
  BY <1>2, <1>3

\* After a write, what the writes so far leave, that one among them, is there.
LEMMA AfterWrite ==
  ASSUME TypeInv, Performed, LoaderWrites, NEW part \in Parts,
         LeftBefore(Loader[Current][Source], position + 1, part)
  PROVE  store'[Current][part] = Now
<1> DEFINE L == Loader[Current][Source]
<1>1. Busy /\ Current \in Backends
  BY DEF LoaderWrites
<1>2. L \in Seq(WriteSet) /\ position \in 1..Len(L)
  BY <1>1, AtWork
<1>3. Renews(L[position], part) \/ (LeftBefore(L, position, part) /\ Spares(L[position], part))
  BY <1>2, LeftNext
<1>4. LeftBefore(L, position, part) => store[Current][part] = Now
  BY <1>1 DEF Performed
<1>5. QED
  BY <1>3, <1>4, LoaderStep

LEMMA PerformedStep == TypeInv /\ Performed /\ [Next]_vars => Performed'
<1> SUFFICES ASSUME TypeInv, Performed, [Next]_vars, Busy', Current' \in Backends,
                    NEW part \in Parts, LeftBefore(Loader[Current'][Source'], position', part)
             PROVE  store'[Current'][part] = Now'
  BY DEF Performed
<1>1. ASSUME position' = 1 PROVE FALSE
  <2>1. Source' \in Sources
    <3>1. TypeInv'
      BY TypeStep
    <3>2. sources' \in Seq(Sources) /\ Now' # 0 /\ Now' = Len(sources')
      BY <3>1 DEF TypeInv, TypeOK, Busy, Now
    <3>3. QED
      BY <3>2 DEF Source
  <2>2. QED
    BY <1>1, <2>1, LoaderFills
<1>2. ASSUME NEW src \in Sources, NEW sel \in Selections, BeginIngest(src, sel) PROVE FALSE
  BY <1>1, <1>2 DEF BeginIngest
<1>3. CASE LoaderWrites
  <2>1. Now' = Now /\ Source' = Source /\ Current' = Current /\ position' = position + 1
    BY <1>1, <1>3, Positions
  <2>2. QED
    BY <1>3, <2>1, AfterWrite
<1>4. CASE Aborts
  <2>1. /\ todo' = todo /\ position' = position /\ exit' = exit /\ store' = store
        /\ Now' = Now /\ Source' = Source
    BY <1>1, <1>4, AbortStep
  <2>2. Current' = Current /\ Busy
    BY <2>1 DEF Current, Busy
  <2>3. QED
    BY <2>1, <2>2 DEF Performed
<1>5. QED
  BY <1>2, <1>3, <1>4, Cases

LEMMA NeededParts ==
  ASSUME NEW b \in Backends, NEW src \in Sources
  PROVE  Needed(b, src) \subseteq Parts
<1>1. ToSet(src.zones) \subseteq Zones /\ ToSet(StepsFor(b, src)) \subseteq Steps
  BY SourceFacts DEF ToSet
<1>2. \A z \in Zones : Mesh(z) \in Parts
  BY PartFacts
<1>3. \A z \in Zones, s \in Steps : Values(z, s) \in Parts /\ Nodal(z, s) \in Parts
  BY PartFacts
<1>4. (\A s \in Steps : Diff(s) \in Parts) /\ {H5Meta, H5Frames, CfdMeta, Manifest} \subseteq Parts
  BY PartFacts
<1>5. QED
  BY <1>1, <1>2, <1>3, <1>4 DEF Needed

LEMMA ServedStep == TypeInv /\ Performed /\ Served /\ [Next]_vars => Served'
<1> SUFFICES ASSUME TypeInv, Performed, Served, [Next]_vars, NEW b \in Backends, reported'[b] # 0,
                    NEW part \in Needed(b, sources'[reported'[b]])
             PROVE  store'[b][part] = reported'[b]
  BY DEF Served
<1>1. reported \in [Backends -> 0..Now] /\ Now \in Nat
  BY DEF TypeInv, TypeOK, Now
<1>2. ASSUME reported'[b] = reported[b], store'[b] = store[b], \A n \in 1..Now : sources'[n] = sources[n]
      PROVE  store'[b][part] = reported'[b]
  <2>1. reported[b] \in 1..Now
    BY <1>1, <1>2
  <2>2. sources'[reported[b]] = sources[reported[b]]
    BY <1>2, <2>1
  <2>3. part \in Needed(b, sources[reported[b]])
    BY <1>2, <2>2
  <2>4. QED
    BY <1>2, <2>1, <2>3 DEF Served
<1>3. ASSUME NEW src \in Sources, NEW sel \in Selections, BeginIngest(src, sel)
      PROVE  store'[b][part] = reported'[b]
  <2>1. reported' = reported /\ store' = store
    BY <1>3 DEF BeginIngest
  <2>2. QED
    BY <1>2, <1>3, <2>1, BeginTypes
<1>4. CASE LoaderWrites
  <2>1. sources' = sources /\ Busy /\ Current \in Backends
    BY <1>4, Positions DEF LoaderWrites
  <2>2. CASE b # Current
    BY <1>2, <1>4, <2>1, <2>2, LoaderStep DEF Written
  <2>3. CASE b = Current
    <3>1. position = Len(Loader[b][Source]) /\ reported'[b] = Now
      BY <1>1, <1>4, <2>3, Positions
    <3>2. Source \in Sources /\ sources'[Now] = Source
      BY <2>1, AtWork DEF Source
    <3>3. part \in Needed(b, Source) /\ part \in Parts
      BY <3>1, <3>2, NeededParts
    <3>4. LeftBefore(Loader[b][Source], position + 1, part)
      BY <3>1, <3>2, <3>3, LoaderFills DEF Fills, Leaves
    <3>5. QED
      BY <1>4, <2>3, <3>1, <3>3, <3>4, AfterWrite
  <2>4. QED
    BY <2>2, <2>3
<1>5. CASE Aborts
  <2>1. sources' = sources
    BY <1>5, AbortStep
  <2>2. CASE store' = store /\ reported' = reported
    BY <1>2, <2>1, <2>2
  <2>3. CASE Torn(Current)
    BY <1>2, <2>1, <2>3 DEF Torn
  <2>4. QED
    BY <1>5, <2>2, <2>3, AbortStep
<1>6. QED
  BY <1>3, <1>4, <1>5, Cases

LEMMA ServedIsSuccess == TypeInv /\ Served => SuccessIsServed
<1> SUFFICES ASSUME TypeInv, Served, NEW b \in Backends, NEW n, n = reported[b], n # 0
             PROVE  /\ Stored(b, n)
                    /\ b # "postgresql" /\ ~Shadowed(b, n) =>
                         Announced(b) = Dataset(Primary(sources[n]), ToSet(StepsFor(b, sources[n])))
  BY DEF SuccessIsServed
<1> DEFINE src == sources[n]
<1>1. src \in Sources
  BY DEF TypeInv, TypeOK, Now
<1>2. \A part \in Needed(b, src) : store[b][part] = n
  BY DEF Served
<1>3. src.kind \in {"cfd", "h5"}
  BY <1>1, SourceFacts
<1> HIDE DEF src
<1>4. Stored(b, n)
  <2>1. \A z \in ToSet(src.zones), s \in ToSet(StepsFor(b, src)) : Values(z, s) \in Needed(b, src)
    BY DEF Needed
  <2>2. src.kind = "h5" /\ b # "vtk" =>
          \A z \in ToSet(src.zones), s \in ToSet(StepsFor(b, src)) : Nodal(z, s) \in Needed(b, src)
    BY DEF Needed
  <2>3. b # "vtk" => \A z \in ToSet(src.zones) : Mesh(z) \in Needed(b, src)
    BY DEF Needed
  <2>4. b \in {"iotdb", "tiledb"} /\ (src.kind = "h5" \/ FluidZone \in ToSet(src.zones)) =>
          \A s \in ToSet(StepsFor(b, src)) : Diff(s) \in Needed(b, src)
    BY DEF Needed
  <2>5. QED
    BY <1>2, <2>1, <2>2, <2>3, <2>4 DEF Stored, src
<1>5. CASE b = "vtk"
  <2>1. Manifest \in Needed("vtk", src)
    BY DEF Needed
  <2>2. store["vtk"][Manifest] = n
    BY <1>2, <1>5, <2>1
  <2>3. Announced(b) = Dataset(Primary(sources[n]), ToSet(StepsFor(b, sources[n])))
    BY <1>5, <2>2 DEF Announced, AnnouncedByManifest
  <2>4. QED
    BY <1>4, <2>3
<1>6. CASE b \in {"iotdb", "tiledb"} /\ src.kind = "h5"
  <2>1. H5Meta \in Needed(b, src) /\ H5Frames \in Needed(b, src)
    BY <1>6 DEF Needed
  <2>2. store[b][H5Meta] = n /\ store[b][H5Frames] = n
    BY <1>2, <2>1
  <2>3. Announced(b) = Dataset(Head(src.zones), ToSet(src.steps))
    BY <1>6, <2>2 DEF Announced, AnnouncedByMetadata, src
  <2>4. Primary(src) = Head(src.zones) /\ StepsFor(b, src) = src.steps
    <3>1. ToSet(src.zones) = {Head(src.zones)} /\ StepsFor(b, src) = src.steps
      BY <1>1, <1>6, SourceFacts
    <3>2. QED
      BY <3>1 DEF Primary
  <2>5. QED
    BY <1>4, <2>3, <2>4 DEF src
<1>7. CASE b \in {"iotdb", "tiledb"} /\ src.kind = "cfd"
  <2>1. CfdMeta \in Needed(b, src)
    BY <1>7 DEF Needed
  <2>2. store[b][CfdMeta] = n
    BY <1>2, <2>1
  <2>3. ~Shadowed(b, n) => Announced(b) = Dataset(Primary(src), ToSet(StepsFor(b, src)))
    BY <1>7, <2>2 DEF Shadowed, Announced, AnnouncedByMetadata, src
  <2>4. QED
    BY <1>4, <2>3 DEF src
<1>8. QED
  BY <1>3, <1>4, <1>5, <1>6, <1>7 DEF Backends

\* A backend reported done serves the ingest it was done with, until the next one touches it.
THEOREM SuccessServes == Spec => []SuccessIsServed
<1>1. Init => TypeInv /\ Performed /\ Served
  BY InitIngest DEF Init, Performed, Served, Busy
<1>2. TypeInv /\ Performed /\ Served /\ [Next]_vars => (TypeInv /\ Performed /\ Served)'
  BY TypeStep, PerformedStep, ServedStep
<1>3. TypeInv /\ Performed /\ Served => SuccessIsServed
  BY ServedIsSuccess
<1>4. QED
  BY <1>1, <1>2, <1>3, PTL DEF Spec

-----------------------------------------------------------------------------
(* The exit code.                                                          *)

LEMMA AccountedStep == TypeInv /\ Accounted /\ [Next]_vars => Accounted'
<1> SUFFICES ASSUME TypeInv, Accounted, [Next]_vars, exit' = "running", failed' = {}, NEW i \in 1..Len(selected')
             PROVE  selected'[i] \in ToSet(todo') \/ (selected'[i] \in Backends /\ reported'[selected'[i]] = Now')
  BY DEF Accounted
<1> DEFINE x == selected'[i]
<1>1. ASSUME NEW src \in Sources, NEW sel \in Selections, BeginIngest(src, sel)
      PROVE  x \in ToSet(todo')
  <2>1. TypeInv' /\ todo' = selected'
    BY <1>1, BeginTypes
  <2>2. selected' \in Seq(ToSet(selected'))
    BY <2>1 DEF TypeInv
  <2>3. QED
    BY <2>1, <2>2, ElementOf
<1>2. ASSUME selected' = selected, exit = "running", failed = {}
      PROVE  x \in ToSet(todo) \/ (x \in Backends /\ reported[x] = Now)
  BY <1>2 DEF Accounted
<1>3. CASE LoaderWrites
  <2>1. /\ selected' = selected /\ exit = "running" /\ failed = {} /\ Now' = Now
        /\ Busy /\ Current \in Backends
    BY <1>3, Positions DEF LoaderWrites
  <2>2. CASE todo' = todo
    <3>1. Current \in ToSet(todo)
      BY <2>1, HeadIsTodo
    <3>2. x # Current /\ x \in Backends => reported'[x] = reported[x]
      BY <1>3, LoaderStep
    <3>3. QED
      BY <1>2, <2>1, <2>2, <3>1, <3>2
  <2>3. CASE todo' = Tail(todo) /\ reported' = [reported EXCEPT ![Current] = Now]
    <3>1. reported \in [Backends -> 0..Now]
      BY DEF TypeInv, TypeOK
    <3>2. reported'[Current] = Now /\ \A b \in Backends : b # Current => reported'[b] = reported[b]
      BY <2>1, <2>3, <3>1
    <3>3. x \in ToSet(todo) => x = Current \/ x \in ToSet(todo')
      BY <2>1, <2>3, HeadIsTodo
    <3>4. QED
      BY <1>2, <2>1, <3>2, <3>3
  <2>4. QED
    BY <1>3, <2>2, <2>3, Positions
<1>4. CASE Aborts
  <2>1. UNCHANGED <<todo, exit, failed, reported>>
    <3>1. ~UnknownBackend /\ ~CfdLoaderRaises
      BY DEF UnknownBackend, CfdLoaderRaises
    <3>2. ~H5LoaderRaises /\ ~Killed /\ ~Finish
      BY DEF H5LoaderRaises, Killed, Stops, Finish
    <3>3. QED
      BY <1>4, <3>1, <3>2 DEF Aborts, vars
  <2>2. QED
    BY <1>2, <1>4, <2>1, AbortStep
<1>5. QED
  BY <1>1, <1>3, <1>4, Cases

LEMMA HonestStep == TypeInv /\ Accounted /\ ExitIsHonest /\ [Next]_vars => ExitIsHonest'
<1> SUFFICES ASSUME TypeInv, Accounted, ExitIsHonest, [Next]_vars, exit' = "0", NEW i \in DOMAIN selected'
             PROVE  selected'[i] \in Backends /\ reported'[selected'[i]] = Now'
  BY DEF ExitIsHonest
<1>1. ASSUME NEW src \in Sources, NEW sel \in Selections PROVE ~BeginIngest(src, sel)
  BY DEF BeginIngest
<1>2. ASSUME LoaderWrites PROVE FALSE
  BY <1>2 DEF LoaderWrites, Busy
<1>3. Aborts /\ selected' = selected /\ Now' = Now
  BY <1>1, <1>2, Cases, AbortStep
<1>4. CASE Finish
  <2>1. exit = "running" /\ todo = <<>> /\ failed = {} /\ reported' = reported
    BY <1>4 DEF Finish
  <2>2. selected \in Seq(ToSet(selected))
    BY DEF TypeInv
  <2>3. i \in 1..Len(selected)
    BY <1>3, <2>2
  <2>4. ToSet(todo) = {}
    BY <2>1 DEF ToSet
  <2>5. QED
    BY <1>3, <2>1, <2>3, <2>4 DEF Accounted
<1>5. CASE ~Finish
  <2>1. exit' = exit /\ reported' = reported
    <3>1. ~UnknownBackend /\ ~CfdLoaderRaises /\ ~H5LoaderRaises /\ ~Killed
      BY DEF UnknownBackend, CfdLoaderRaises, H5LoaderRaises, Killed, Stops, Busy
    <3>2. QED
      BY <1>3, <1>5, <3>1 DEF Aborts, vars
  <2>2. QED
    BY <1>3, <2>1 DEF ExitIsHonest
<1>6. QED
  BY <1>4, <1>5

\* Exit code 0 means that every backend that was selected is done with the ingest.
THEOREM ExitHonest == Spec => []ExitIsHonest
<1>1. Init => TypeInv /\ Accounted /\ ExitIsHonest
  BY InitIngest DEF Init, Accounted, ExitIsHonest
<1>2. TypeInv /\ Accounted /\ ExitIsHonest /\ [Next]_vars => (TypeInv /\ Accounted /\ ExitIsHonest)'
  BY TypeStep, AccountedStep, HonestStep
<1>3. QED
  BY <1>1, <1>2, PTL DEF Spec

-----------------------------------------------------------------------------
(* PostgreSQL: the zones of H5 datasets and the spatial layers.            *)

\* A write of PostgreSQL brings the mesh of a zone, or finds it there.
LEMMA PostgresqlStep ==
  ASSUME TypeInv, Performed, LoaderWrites, Current = "postgresql"
  PROVE  LET w == Loader["postgresql"][Source][position] IN
         /\ Source.kind \in {"cfd", "h5"} /\ sources[Now] = Source /\ ToSet(Source.steps) \subseteq Steps /\ Now \in Nat \ {0}
         /\ \E z \in Zones :
              \/ Source.kind = "cfd" /\ w = StaticWrite(z)
              \/ Source.kind = "h5" /\ w = WholeWrite(z, ToSet(Source.steps))
              \/ /\ store["postgresql"][Mesh(z)] = Now
                 /\ \/ w = LocatorWrite(z)
                    \/ w = GeomWrite(z)
                    \/ Source.kind = "cfd" /\ \E s \in Steps : w = ValuesWrite(z, s)
<1> DEFINE L == Loader["postgresql"][Source]
           w == L[position]
<1>1. Busy /\ Current \in Backends
  BY DEF LoaderWrites
<1>2. Source \in Sources /\ position \in 1..Len(L) /\ Now \in Nat \ {0}
  BY <1>1, AtWork
<1>3. ToSet(Source.zones) \subseteq Zones /\ Source.kind \in {"cfd", "h5"} /\ ToSet(Source.steps) \subseteq Steps
  BY <1>2, SourceFacts DEF ToSet
<1>4. sources[Now] = Source
  BY DEF Source
<1>5. \/ w \in FirstWrites(Source)
      \/ w \in LateWrites(Source) /\ \A z \in ToSet(Source.zones) : LeftBefore(L, position, Mesh(z))
  BY <1>2, PostgresqlWrites
<1> HIDE DEF w
<1>6. CASE w \in FirstWrites(Source)
  <2>1. PICK z \in ToSet(Source.zones) :
          w = IF Source.kind = "cfd" THEN StaticWrite(z) ELSE WholeWrite(z, ToSet(Source.steps))
    BY <1>6 DEF FirstWrites, IsFirst
  <2>2. (Source.kind = "cfd" /\ w = StaticWrite(z)) \/ (Source.kind = "h5" /\ w = WholeWrite(z, ToSet(Source.steps)))
    BY <1>3, <2>1
  <2>3. z \in Zones
    BY <1>3
  <2>4. QED
    BY <1>2, <1>3, <1>4, <2>2, <2>3 DEF w
<1>7. CASE w \in LateWrites(Source) /\ \A z \in ToSet(Source.zones) : LeftBefore(L, position, Mesh(z))
  <2>1. PICK z \in ToSet(Source.zones) :
          w = LocatorWrite(z) \/ w = GeomWrite(z) \/ (Source.kind = "cfd" /\ \E s \in Steps : w = ValuesWrite(z, s))
    BY <1>7 DEF LateWrites, IsLate
  <2>2. z \in Zones /\ Mesh(z) \in Parts
    BY <1>3, PartFacts
  <2>3. store["postgresql"][Mesh(z)] = Now
    BY <1>1, <1>7, <2>2 DEF Performed
  <2>4. QED
    BY <1>2, <1>3, <1>4, <2>1, <2>2, <2>3 DEF w
<1>8. QED
  BY <1>5, <1>6, <1>7

\* No other step changes what PostgreSQL has.
LEMMA PostgresqlAlone ==
  ASSUME TypeInv, [Next]_vars, ~(LoaderWrites /\ Current = "postgresql")
  PROVE  store'["postgresql"] = store["postgresql"]
<1>1. ASSUME NEW src \in Sources, NEW sel \in Selections, BeginIngest(src, sel)
      PROVE  store'["postgresql"] = store["postgresql"]
  BY <1>1 DEF BeginIngest
<1>2. CASE LoaderWrites
  <2>1. Current # "postgresql" /\ "postgresql" \in Backends
    BY <1>2 DEF Backends
  <2>2. QED
    BY <1>2, <2>1, LoaderStep DEF Written
<1>3. CASE Aborts
  <2>1. CASE Torn(Current)
    <3>1. Busy /\ Current \in Backends /\ Loader[Current][Source][position] = Write(Parts, {}, <<>>)
      BY <2>1 DEF Torn
    <3>2. Source \in Sources /\ position \in 1..Len(Loader[Current][Source])
      BY <3>1, AtWork
    <3>3. Current # "postgresql"
      <4> SUFFICES ASSUME Current = "postgresql" PROVE FALSE
        OBVIOUS
      <4> DEFINE w == Loader["postgresql"][Source][position]
      <4>1. w \in FirstWrites(Source) \/ w \in LateWrites(Source)
        BY <3>2, PostgresqlWrites
      <4>2. w.put = {}
        BY <3>1, WriteFields
      <4> HIDE DEF w
      <4>3. IsFirst(w, Source) \/ IsLate(w, Source)
        BY <4>1 DEF FirstWrites, LateWrites
      <4>4. \E z, s : w = StaticWrite(z) \/ w = WholeWrite(z, ToSet(Source.steps)) \/ w = LocatorWrite(z)
                      \/ w = GeomWrite(z) \/ w = ValuesWrite(z, s)
        BY <4>3 DEF IsFirst, IsLate
      <4>5. w.put # {}
        BY <4>4, WriteFields DEF StaticWrite, WholeWrite, LocatorWrite, GeomWrite, ValuesWrite
      <4>6. QED
        BY <4>2, <4>5
    <3>4. "postgresql" \in Backends
      BY DEF Backends
    <3>5. QED
      BY <2>1, <3>3, <3>4 DEF Torn
  <2>2. QED
    BY <1>3, <2>1, AbortStep
<1>4. QED
  BY <1>1, <1>2, <1>3, Cases

\* No step changes the source of an ingest that was begun.
LEMMA SourcesStay ==
  ASSUME TypeInv, [Next]_vars
  PROVE  \A n \in 1..Now : sources'[n] = sources[n]
  BY Cases, BeginTypes, Positions, AbortStep

LEMMA WholeKept ==
  ASSUME TypeInv, [Next]_vars, H5ZoneIsWhole, NEW z \in Zones,
         store'["postgresql"][Mesh(z)] = store["postgresql"][Mesh(z)],
         \A s \in Steps : /\ store'["postgresql"][Values(z, s)] = store["postgresql"][Values(z, s)]
                          /\ store'["postgresql"][Nodal(z, s)] = store["postgresql"][Nodal(z, s)],
         NEW n, n = store'["postgresql"][Mesh(z)], n # 0, sources'[n].kind = "h5",
         NEW s \in Steps, NEW p \in ValueParts({z}, {s})
  PROVE  store'["postgresql"][p] = IF s \in ToSet(sources'[n].steps) THEN n ELSE 0
<1>1. p = Values(z, s) \/ p = Nodal(z, s)
  <2>1. {z} \in SUBSET Zones /\ {s} \in SUBSET Steps
    OBVIOUS
  <2>2. QED
    BY <2>1, ValuePartsFacts
<1>2. store'["postgresql"][p] = store["postgresql"][p]
  BY <1>1
<1>3. n = store["postgresql"][Mesh(z)] /\ n \in 1..Now
  <2>1. Mesh(z) \in Parts /\ "postgresql" \in Backends
    BY PartFacts DEF Backends
  <2>2. store["postgresql"][Mesh(z)] \in 0..Now /\ Now \in Nat
    BY <2>1 DEF TypeInv, TypeOK, Now
  <2>3. QED
    BY <2>2
<1>4. sources'[n] = sources[n]
  BY <1>3, SourcesStay
<1>5. store["postgresql"][p] = IF s \in ToSet(sources[n].steps) THEN n ELSE 0
  BY <1>3, <1>4 DEF H5ZoneIsWhole
<1>6. QED
  BY <1>2, <1>4, <1>5

\* The values among the parts of a zone's replacement are those of the zone.
LEMMA ZoneValues ==
  ASSUME NEW z \in Zones, NEW steps \in SUBSET Steps
  PROVE  /\ \A x, t : Values(x, t) \in ValueParts({z}, steps) <=> x = z /\ t \in steps
         /\ \A x, t : Nodal(x, t) \in ValueParts({z}, steps) <=> x = z /\ t \in steps
         /\ \A x : /\ Mesh(x) \notin ValueParts({z}, steps) /\ Geom(x) \notin ValueParts({z}, steps)
                  /\ Locator(x) \notin ValueParts({z}, steps) /\ Bounds(x) \notin ValueParts({z}, steps)
<1>1. \A part : part \in ValueParts({z}, steps) <=> \E t \in steps : part = Values(z, t) \/ part = Nodal(z, t)
  <2>1. {z} \in SUBSET Zones
    OBVIOUS
  <2>2. \A part : part \in ValueParts({z}, steps) <=> \E y \in {z}, t \in steps : part = Values(y, t) \/ part = Nodal(y, t)
    BY <2>1, ValuePartsFacts
  <2>3. QED
    BY <2>2
<1>2. ASSUME NEW x, NEW t PROVE Values(x, t) \in ValueParts({z}, steps) <=> x = z /\ t \in steps
  BY <1>1, PartsDiffer
<1>3. ASSUME NEW x, NEW t PROVE Nodal(x, t) \in ValueParts({z}, steps) <=> x = z /\ t \in steps
  <2>1. ASSUME NEW r \in steps PROVE Nodal(x, t) # Values(z, r)
    BY PartsDiffer
  <2>2. ASSUME NEW r \in steps, Nodal(x, t) = Nodal(z, r) PROVE x = z /\ t = r
    BY <2>2, PartsDiffer
  <2>3. QED
    BY <1>1, <2>1, <2>2
<1>4. ASSUME NEW x
      PROVE  /\ Mesh(x) \notin ValueParts({z}, steps) /\ Geom(x) \notin ValueParts({z}, steps)
             /\ Locator(x) \notin ValueParts({z}, steps) /\ Bounds(x) \notin ValueParts({z}, steps)
  BY <1>1, PartsDiffer
<1>5. QED
  BY <1>2, <1>3, <1>4

\* The fields of the writes of PostgreSQL.
LEMMA WholeFields ==
  ASSUME NEW z, NEW steps, NEW w, w = WholeWrite(z, steps)
  PROVE  /\ w.put = {Mesh(z)} \cup ValueParts({z}, steps) /\ w.from = <<>>
         /\ w.drop = {Mesh(z), Geom(z), Locator(z)} \cup ValueParts({z}, Steps)
<1> DEFINE put == {Mesh(z)} \cup ValueParts({z}, steps)
<1>1. w = Write(ZoneTables(z), put, <<>>)
  BY Zenon DEF WholeWrite
<1> HIDE DEF put
<1>2. w.put = put /\ w.from = <<>> /\ w.drop = ZoneTables(z)
  BY <1>1, WriteFields
<1>3. QED
  BY <1>2, Zenon DEF ZoneTables, put

LEMMA PostgresqlFields ==
  ASSUME NEW z, NEW s, NEW w
  PROVE  /\ w = StaticWrite(z) =>
              w.put = {Mesh(z), Bounds(z)} /\ w.drop = {Mesh(z), Bounds(z), Geom(z), Locator(z)} /\ w.from = <<>>
         /\ w = LocatorWrite(z) =>
              w.put = {Locator(z)} /\ w.drop = {Locator(z)} /\ w.from = <<Bounds(z), Mesh(z)>>
         /\ w = GeomWrite(z) => w.put = {Geom(z)} /\ w.drop = {Geom(z)} /\ w.from = <<Mesh(z)>>
         /\ w = ValuesWrite(z, s) => w.put = {Values(z, s)} /\ w.drop = {Values(z, s)} /\ w.from = <<>>
<1>1. w = StaticWrite(z) =>
        w.put = {Mesh(z), Bounds(z)} /\ w.drop = {Mesh(z), Bounds(z), Geom(z), Locator(z)} /\ w.from = <<>>
  BY WriteFields DEF StaticWrite, StaticTables
<1>2. w = LocatorWrite(z) =>
        w.put = {Locator(z)} /\ w.drop = {Locator(z)} /\ w.from = <<Bounds(z), Mesh(z)>>
  BY WriteFields DEF LocatorWrite
<1>3. w = GeomWrite(z) => w.put = {Geom(z)} /\ w.drop = {Geom(z)} /\ w.from = <<Mesh(z)>>
  BY WriteFields DEF GeomWrite
<1>4. w = ValuesWrite(z, s) => w.put = {Values(z, s)} /\ w.drop = {Values(z, s)} /\ w.from = <<>>
  BY WriteFields DEF ValuesWrite
<1>5. QED
  BY <1>1, <1>2, <1>3, <1>4

LEMMA WholeStep == TypeInv /\ Performed /\ H5ZoneIsWhole /\ [Next]_vars => H5ZoneIsWhole'
<1> SUFFICES ASSUME TypeInv, Performed, H5ZoneIsWhole, [Next]_vars,
                    NEW y \in Zones, NEW n, n = store'["postgresql"][Mesh(y)], n # 0, sources'[n].kind = "h5",
                    NEW s \in Steps, NEW p \in ValueParts({y}, {s})
             PROVE  store'["postgresql"][p] = IF s \in ToSet(sources'[n].steps) THEN n ELSE 0
  BY DEF H5ZoneIsWhole
<1> DEFINE was == store["postgresql"]
           is == store'["postgresql"]
           w == Loader["postgresql"][Source][position]
<1>1. CASE ~(LoaderWrites /\ Current = "postgresql")
  BY <1>1, PostgresqlAlone, WholeKept
<1>2. CASE LoaderWrites /\ Current = "postgresql"
  <2>1. /\ Source.kind \in {"cfd", "h5"} /\ sources[Now] = Source /\ ToSet(Source.steps) \subseteq Steps
        /\ Now \in Nat \ {0} /\ sources'[Now] = Source
    BY <1>2, PostgresqlStep, Positions
  <2>2. \A part \in Parts : /\ part \notin w.put /\ part \notin w.drop => is[part] = was[part]
                            /\ part \notin w.put /\ part \in w.drop => is[part] = 0
                            /\ Renews(w, part) => is[part] = Now
    BY <1>2, LoaderStep DEF Written
  <2>3. PICK z \in Zones :
          \/ Source.kind = "cfd" /\ w = StaticWrite(z)
          \/ Source.kind = "h5" /\ w = WholeWrite(z, ToSet(Source.steps))
          \/ /\ was[Mesh(z)] = Now
             /\ \/ w = LocatorWrite(z)
                \/ w = GeomWrite(z)
                \/ Source.kind = "cfd" /\ \E t \in Steps : w = ValuesWrite(z, t)
    BY <1>2, PostgresqlStep
  <2>4. Mesh(y) \in Parts /\ \A t \in Steps : Values(y, t) \in Parts /\ Nodal(y, t) \in Parts
    BY PartFacts
  <2>5. {y} \in SUBSET Zones /\ {z} \in SUBSET Zones /\ {s} \in SUBSET Steps /\ Steps \in SUBSET Steps
        /\ ToSet(Source.steps) \in SUBSET Steps
    BY <2>1
  <2>6. p = Values(y, s) \/ p = Nodal(y, s)
    BY <2>5, ValuePartsFacts
  <2> HIDE DEF was, is, w
  <2>7. ASSUME is[Mesh(y)] = was[Mesh(y)],
               \A t \in Steps : is[Values(y, t)] = was[Values(y, t)] /\ is[Nodal(y, t)] = was[Nodal(y, t)]
        PROVE  store'["postgresql"][p] = IF s \in ToSet(sources'[n].steps) THEN n ELSE 0
    BY <2>7, WholeKept DEF is, was
  <2>8. ASSUME Source.kind = "cfd" PROVE n # Now
    BY <2>1, <2>8
  <2>9. CASE Source.kind = "cfd" /\ w = StaticWrite(z)
    <3>1. w.put = {Mesh(z), Bounds(z)} /\ w.drop = {Mesh(z), Bounds(z), Geom(z), Locator(z)} /\ w.from = <<>>
      BY <2>9, PostgresqlFields
    <3>2. y # z
      <4> SUFFICES ASSUME y = z PROVE FALSE
        OBVIOUS
      <4>1. is[Mesh(y)] = Now
        BY <2>2, <2>4, <3>1 DEF Renews
      <4>2. QED
        BY <2>8, <2>9, <4>1 DEF is
    <3>3. Mesh(y) \notin w.put \cup w.drop
          /\ \A t \in Steps : Values(y, t) \notin w.put \cup w.drop /\ Nodal(y, t) \notin w.put \cup w.drop
      BY <3>1, <3>2, PartsDiffer
    <3>4. QED
      BY <2>2, <2>4, <2>7, <3>3
  <2>10. CASE Source.kind = "h5" /\ w = WholeWrite(z, ToSet(Source.steps))
    <3>1. w.put = {Mesh(z)} \cup ValueParts({z}, ToSet(Source.steps)) /\ w.from = <<>>
          /\ w.drop = {Mesh(z), Geom(z), Locator(z)} \cup ValueParts({z}, Steps)
      BY <2>10, WholeFields
    <3>2. \A x \in Zones, t \in Steps :
            /\ Values(x, t) \in ValueParts({z}, Steps) <=> x = z
            /\ Nodal(x, t) \in ValueParts({z}, Steps) <=> x = z
            /\ Values(x, t) \in ValueParts({z}, ToSet(Source.steps)) <=> x = z /\ t \in ToSet(Source.steps)
            /\ Nodal(x, t) \in ValueParts({z}, ToSet(Source.steps)) <=> x = z /\ t \in ToSet(Source.steps)
      BY <2>5, ZoneValues
    <3>3. Mesh(y) \notin ValueParts({z}, Steps) /\ Mesh(y) \notin ValueParts({z}, ToSet(Source.steps))
      BY <2>5, ZoneValues
    <3>4. CASE y = z
      <4>1. n = Now
        BY <2>2, <2>4, <3>1, <3>4 DEF Renews, is
      <4>2. CASE s \in ToSet(Source.steps)
        <5>1. p \in w.put
          BY <2>6, <3>1, <3>2, <3>4, <4>2
        <5>2. is[p] = Now
          BY <2>2, <2>4, <2>6, <3>1, <5>1 DEF Renews
        <5>3. QED
          BY <2>1, <4>1, <4>2, <5>2 DEF is
      <4>3. CASE s \notin ToSet(Source.steps)
        <5>1. p \in ValueParts({z}, Steps) /\ p \notin ValueParts({z}, ToSet(Source.steps)) /\ p # Mesh(z)
          BY <2>6, <3>2, <3>4, <4>3, PartsDiffer
        <5>2. p \in w.drop /\ p \notin w.put
          BY <3>1, <5>1
        <5>3. is[p] = 0
          BY <2>2, <2>4, <2>6, <5>2
        <5>4. QED
          BY <2>1, <4>1, <4>3, <5>3 DEF is
      <4>4. QED
        BY <4>2, <4>3
    <3>5. CASE y # z
      <4>1. Mesh(y) \notin w.put \cup w.drop
            /\ \A t \in Steps : Values(y, t) \notin w.put \cup w.drop /\ Nodal(y, t) \notin w.put \cup w.drop
        BY <3>1, <3>2, <3>3, <3>5, PartsDiffer
      <4>2. QED
        BY <2>2, <2>4, <2>7, <4>1
    <3>6. QED
      BY <3>4, <3>5
  <2>11. CASE w = LocatorWrite(z) \/ w = GeomWrite(z)
    <3>1. w.put = w.drop /\ (w.put = {Locator(z)} \/ w.put = {Geom(z)})
      BY <2>11, PostgresqlFields
    <3>2. Mesh(y) \notin w.put \cup w.drop
          /\ \A t \in Steps : Values(y, t) \notin w.put \cup w.drop /\ Nodal(y, t) \notin w.put \cup w.drop
      BY <3>1, PartsDiffer
    <3>3. QED
      BY <2>2, <2>4, <2>7, <3>2
  <2>12. CASE Source.kind = "cfd" /\ was[Mesh(z)] = Now /\ \E t \in Steps : w = ValuesWrite(z, t)
    <3>1. PICK r \in Steps : w = ValuesWrite(z, r)
      BY <2>12
    <3>2. w.put = {Values(z, r)} /\ w.drop = {Values(z, r)}
      BY <3>1, PostgresqlFields
    <3>3. Mesh(y) \notin w.put \cup w.drop
      BY <3>2, PartsDiffer
    <3>4. is[Mesh(y)] = was[Mesh(y)]
      BY <2>2, <2>4, <3>3
    <3>5. y # z
      BY <2>8, <2>12, <3>4 DEF is
    <3>6. \A t \in Steps : Values(y, t) \notin w.put \cup w.drop /\ Nodal(y, t) \notin w.put \cup w.drop
      BY <3>2, <3>5, PartsDiffer
    <3>7. QED
      BY <2>2, <2>4, <2>7, <3>4, <3>6
  <2>13. QED
    BY <2>3, <2>9, <2>10, <2>11, <2>12
<1>3. QED
  BY <1>1, <1>2

\* At any time, also in the middle of an ingest and after one that died, a zone of PostgreSQL whose
\* mesh is of an H5 ingest has the values of that ingest and no others.
THEOREM ZonesAreWhole == Spec => []H5ZoneIsWhole
<1>1. Init => TypeInv /\ Performed /\ H5ZoneIsWhole
  <2>1. ASSUME Init PROVE \A part \in Parts : store["postgresql"][part] = 0
    BY <2>1 DEF Init, Backends
  <2>2. Init => H5ZoneIsWhole
    BY <2>1, PartFacts DEF H5ZoneIsWhole
  <2>3. Init => Performed
    BY DEF Init, Performed, Busy
  <2>4. QED
    BY <2>2, <2>3, InitIngest
<1>2. TypeInv /\ Performed /\ H5ZoneIsWhole /\ [Next]_vars => (TypeInv /\ Performed /\ H5ZoneIsWhole)'
  BY TypeStep, PerformedStep, WholeStep
<1>3. QED
  BY <1>1, <1>2, PTL DEF Spec

LEMMA SpatialStep == TypeInv /\ Performed /\ SpatialLayersCurrent /\ [Next]_vars => SpatialLayersCurrent'
<1> DEFINE was == store["postgresql"]
           is == store'["postgresql"]
           w == Loader["postgresql"][Source][position]
<1> SUFFICES ASSUME TypeInv, Performed, SpatialLayersCurrent, [Next]_vars, NEW y \in Zones
             PROVE  /\ is[Geom(y)] \in {0, is[Mesh(y)]}
                    /\ is[Bounds(y)] \in {0, is[Mesh(y)]} => is[Locator(y)] \in {0, is[Mesh(y)]}
  BY DEF SpatialLayersCurrent
<1>1. /\ was[Geom(y)] \in {0, was[Mesh(y)]}
      /\ was[Bounds(y)] \in {0, was[Mesh(y)]} => was[Locator(y)] \in {0, was[Mesh(y)]}
  BY DEF SpatialLayersCurrent
<1>2. CASE ~(LoaderWrites /\ Current = "postgresql")
  BY <1>1, <1>2, PostgresqlAlone
<1>3. CASE LoaderWrites /\ Current = "postgresql"
  <2>1. /\ Source.kind \in {"cfd", "h5"} /\ ToSet(Source.steps) \in SUBSET Steps
        /\ Now \in Nat \ {0}
    BY <1>3, PostgresqlStep
  <2>2. was \in [Parts -> 0..Now]
    BY DEF TypeInv, Backends
  <2>3. \A part \in Parts : /\ part \notin w.put /\ part \notin w.drop => is[part] = was[part]
                            /\ part \notin w.put /\ part \in w.drop => is[part] = 0
                            /\ part \in w.put => is[part] = Origin(w.from, was)
                            /\ Renews(w, part) => is[part] = Now
    BY <1>3, LoaderStep DEF Written
  <2>4. PICK z \in Zones :
          \/ Source.kind = "cfd" /\ w = StaticWrite(z)
          \/ Source.kind = "h5" /\ w = WholeWrite(z, ToSet(Source.steps))
          \/ /\ was[Mesh(z)] = Now
             /\ \/ w = LocatorWrite(z)
                \/ w = GeomWrite(z)
                \/ Source.kind = "cfd" /\ \E t \in Steps : w = ValuesWrite(z, t)
    BY <1>3, PostgresqlStep
  <2>5. Mesh(y) \in Parts /\ Bounds(y) \in Parts /\ Geom(y) \in Parts /\ Locator(y) \in Parts
        /\ Mesh(z) \in Parts /\ Bounds(z) \in Parts
    BY PartFacts
  <2> HIDE DEF was, is, w
  <2>6. CASE w = StaticWrite(z)
    <3>1. w.put = {Mesh(z), Bounds(z)} /\ w.drop = {Mesh(z), Bounds(z), Geom(z), Locator(z)}
      BY <2>6, PostgresqlFields
    <3>2. CASE y = z
      <4>1. Geom(y) \notin w.put /\ Geom(y) \in w.drop /\ Locator(y) \notin w.put /\ Locator(y) \in w.drop
        BY <3>1, <3>2, PartsDiffer
      <4>2. QED
        BY <2>3, <2>5, <4>1
    <3>3. CASE y # z
      <4>1. /\ Mesh(y) \notin w.put /\ Mesh(y) \notin w.drop /\ Bounds(y) \notin w.put /\ Bounds(y) \notin w.drop
            /\ Geom(y) \notin w.put /\ Geom(y) \notin w.drop /\ Locator(y) \notin w.put /\ Locator(y) \notin w.drop
        BY <3>1, <3>3, PartsDiffer
      <4>2. QED
        BY <1>1, <2>3, <2>5, <4>1
    <3>4. QED
      BY <3>2, <3>3
  <2>7. CASE w = WholeWrite(z, ToSet(Source.steps))
    <3>1. w.put = {Mesh(z)} \cup ValueParts({z}, ToSet(Source.steps))
          /\ w.drop = {Mesh(z), Geom(z), Locator(z)} \cup ValueParts({z}, Steps)
      BY <2>7, WholeFields
    <3>2. \A x : /\ Mesh(x) \notin ValueParts({z}, Steps) /\ Mesh(x) \notin ValueParts({z}, ToSet(Source.steps))
                 /\ Bounds(x) \notin ValueParts({z}, Steps) /\ Bounds(x) \notin ValueParts({z}, ToSet(Source.steps))
                 /\ Geom(x) \notin ValueParts({z}, Steps) /\ Geom(x) \notin ValueParts({z}, ToSet(Source.steps))
                 /\ Locator(x) \notin ValueParts({z}, Steps) /\ Locator(x) \notin ValueParts({z}, ToSet(Source.steps))
      <4> SUFFICES ASSUME NEW steps \in SUBSET Steps, NEW x
                   PROVE  /\ Mesh(x) \notin ValueParts({z}, steps) /\ Bounds(x) \notin ValueParts({z}, steps)
                          /\ Geom(x) \notin ValueParts({z}, steps) /\ Locator(x) \notin ValueParts({z}, steps)
        BY <2>1
      <4>1. QED
        BY ZoneValues
    <3>3. CASE y = z
      <4>1. Geom(y) \notin w.put /\ Geom(y) \in w.drop /\ Locator(y) \notin w.put /\ Locator(y) \in w.drop
        BY <3>1, <3>2, <3>3, PartsDiffer
      <4>2. QED
        BY <2>3, <2>5, <4>1
    <3>4. CASE y # z
      <4>1. Mesh(y) \notin w.put /\ Mesh(y) \notin w.drop /\ Bounds(y) \notin w.put /\ Bounds(y) \notin w.drop
        BY <3>1, <3>2, <3>4, PartsDiffer
      <4>2. Geom(y) \notin w.put /\ Geom(y) \notin w.drop /\ Locator(y) \notin w.put /\ Locator(y) \notin w.drop
        BY <3>1, <3>2, <3>4, PartsDiffer
      <4>3. QED
        BY <1>1, <2>3, <2>5, <4>1, <4>2
    <3>5. QED
      BY <3>3, <3>4
  <2>8. CASE was[Mesh(z)] = Now /\ w = GeomWrite(z)
    <3>1. w.put = {Geom(z)} /\ w.drop = {Geom(z)} /\ w.from = <<Mesh(z)>>
      BY <2>8, PostgresqlFields
    <3>2. is[Mesh(y)] = was[Mesh(y)] /\ is[Bounds(y)] = was[Bounds(y)] /\ is[Locator(y)] = was[Locator(y)]
      <4>1. Mesh(y) \notin w.put \cup w.drop /\ Bounds(y) \notin w.put \cup w.drop /\ Locator(y) \notin w.put \cup w.drop
        BY <3>1, PartsDiffer
      <4>2. QED
        BY <2>3, <2>5, <4>1
    <3>3. CASE y # z
      <4>1. Geom(y) \notin w.put \cup w.drop
        BY <3>1, <3>3, PartsDiffer
      <4>2. QED
        BY <1>1, <2>3, <2>5, <3>2, <4>1
    <3>4. CASE y = z
      <4>1. <<Mesh(z)>> \in Seq(Parts) /\ Len(<<Mesh(z)>>) \in {1, 2} /\ <<Mesh(z)>>[1] = Mesh(z)
        BY <2>5
      <4>2. Origin(<<Mesh(z)>>, was) = Now
        BY <2>1, <2>2, <2>8, <4>1, OriginOf
      <4>3. is[Geom(y)] = Now
        BY <2>3, <2>5, <3>1, <3>4, <4>2
      <4>4. QED
        BY <1>1, <2>8, <3>2, <3>4, <4>3
    <3>5. QED
      BY <3>3, <3>4
  <2>9. CASE was[Mesh(z)] = Now /\ w = LocatorWrite(z)
    <3>1. w.put = {Locator(z)} /\ w.drop = {Locator(z)} /\ w.from = <<Bounds(z), Mesh(z)>>
      BY <2>9, PostgresqlFields
    <3>2. is[Mesh(y)] = was[Mesh(y)] /\ is[Bounds(y)] = was[Bounds(y)] /\ is[Geom(y)] = was[Geom(y)]
      <4>1. Mesh(y) \notin w.put \cup w.drop /\ Bounds(y) \notin w.put \cup w.drop /\ Geom(y) \notin w.put \cup w.drop
        BY <3>1, PartsDiffer
      <4>2. QED
        BY <2>3, <2>5, <4>1
    <3>3. CASE y # z
      <4>1. Locator(y) \notin w.put \cup w.drop
        BY <3>1, <3>3, PartsDiffer
      <4>2. QED
        BY <1>1, <2>3, <2>5, <3>2, <4>1
    <3>4. ASSUME y = z, was[Bounds(y)] \in {0, was[Mesh(y)]} PROVE is[Locator(y)] = Now
      <4> DEFINE from == <<Bounds(z), Mesh(z)>>
      <4>1. from \in Seq(Parts) /\ Len(from) = 2 /\ from[1] = Bounds(z) /\ from[2] = Mesh(z)
        BY <2>5
      <4> HIDE DEF from
      <4>2. Origin(from, was) = Now
        <5>1. CASE was[Bounds(z)] = 0
          BY <2>1, <2>2, <2>9, <4>1, <5>1, OriginOf
        <5>2. CASE was[Bounds(z)] = Now /\ was[Bounds(z)] # 0
          BY <2>1, <2>2, <4>1, <5>2, OriginOf
        <5>3. QED
          BY <2>1, <2>9, <3>4, <5>1, <5>2
      <4>3. QED
        BY <2>3, <2>5, <3>1, <3>4, <4>2 DEF from
    <3>5. QED
      BY <1>1, <2>9, <3>2, <3>3, <3>4
  <2>10. CASE \E t \in Steps : w = ValuesWrite(z, t)
    <3>1. PICK t \in Steps : w = ValuesWrite(z, t)
      BY <2>10
    <3>2. w.put = {Values(z, t)} /\ w.drop = {Values(z, t)}
      BY <3>1, PostgresqlFields
    <3>3. /\ Mesh(y) \notin w.put \cup w.drop /\ Bounds(y) \notin w.put \cup w.drop
          /\ Geom(y) \notin w.put \cup w.drop /\ Locator(y) \notin w.put \cup w.drop
      BY <3>2, PartsDiffer
    <3>4. QED
      BY <1>1, <2>3, <2>5, <3>3
  <2>11. QED
    BY <2>4, <2>6, <2>7, <2>8, <2>9, <2>10
<1>4. QED
  BY <1>2, <1>3

\* The geometry of the cells that is there is of the mesh that is there, and so are the buckets of
\* the locator as long as cell_bounds is: each is rebuilt of the mesh or removed along with it.
THEOREM SpatialIsCurrent == Spec => []SpatialLayersCurrent
<1>1. Init => TypeInv /\ Performed /\ SpatialLayersCurrent
  <2>1. ASSUME Init PROVE \A part \in Parts : store["postgresql"][part] = 0
    BY <2>1 DEF Init, Backends
  <2>2. Init => SpatialLayersCurrent
    BY <2>1, PartFacts DEF SpatialLayersCurrent
  <2>3. Init => Performed
    BY DEF Init, Performed, Busy
  <2>4. QED
    BY <2>2, <2>3, InitIngest
<1>2. TypeInv /\ Performed /\ SpatialLayersCurrent /\ [Next]_vars => (TypeInv /\ Performed /\ SpatialLayersCurrent)'
  BY TypeStep, PerformedStep, SpatialStep
<1>3. QED
  BY <1>1, <1>2, PTL DEF Spec

-----------------------------------------------------------------------------
(* VTK: the loader implements Publication.                                 *)

\* What the manifest of these files leads to.
Found(files, srcs) ==
  LET n == files[Manifest]
      frames == IF n = 0 THEN {}
                ELSE {files[Values(z, s)] : z \in ToSet(srcs[n].zones), s \in ToSet(StepsFor("vtk", srcs[n]))}
  IN IF n = 0 \/ 0 \in frames THEN 0 ELSE IF frames \subseteq {n} THEN n ELSE MaxIngests + 1

LEMMA FoundIs ==
  ASSUME NEW files, NEW srcs, NEW n, n = files[Manifest]
  PROVE  /\ n = 0 => Found(files, srcs) = 0
         /\ n # 0 /\ (\A part : IsFrame(part, srcs[n]) => files[part] = n) => Found(files, srcs) = n
         /\ n # 0 /\ (\E part : IsFrame(part, srcs[n]) /\ files[part] = 0) => Found(files, srcs) = 0
<1> DEFINE frames == {files[Values(z, s)] : z \in ToSet(srcs[n].zones), s \in ToSet(StepsFor("vtk", srcs[n]))}
<1>1. n = 0 => Found(files, srcs) = 0
  BY DEF Found
<1>2. n # 0 => Found(files, srcs) = IF 0 \in frames THEN 0 ELSE IF frames \subseteq {n} THEN n ELSE MaxIngests + 1
  BY DEF Found
<1>3. \A m : m \in frames <=> \E part : IsFrame(part, srcs[n]) /\ m = files[part]
  BY DEF IsFrame
<1> HIDE DEF frames
<1>4. ASSUME n # 0, \A part : IsFrame(part, srcs[n]) => files[part] = n PROVE Found(files, srcs) = n
  <2>1. frames \subseteq {n} /\ 0 \notin frames
    BY <1>3, <1>4
  <2>2. QED
    BY <1>2, <1>4, <2>1
<1>5. ASSUME n # 0, \E part : IsFrame(part, srcs[n]) /\ files[part] = 0 PROVE Found(files, srcs) = 0
  <2>1. 0 \in frames
    BY <1>3, <1>5
  <2>2. QED
    BY <1>2, <1>5, <2>1
<1>6. QED
  BY <1>1, <1>4, <1>5

LEMMA FramesAreParts ==
  ASSUME NEW src \in Sources, NEW part, IsFrame(part, src)
  PROVE  part \in Parts /\ part # Manifest
<1>1. PICK z \in ToSet(src.zones), s \in ToSet(StepsFor("vtk", src)) : part = Values(z, s)
  BY DEF IsFrame
<1>2. z \in Zones /\ s \in Steps
  <2>1. StepsFor("vtk", src) \in Seq(Steps) /\ ToSet(src.zones) \subseteq Zones
    BY SourceFacts
  <2>2. ToSet(StepsFor("vtk", src)) \subseteq Steps
    BY <2>1, ElementsOf
  <2>3. QED
    BY <2>1, <2>2
<1>3. QED
  BY <1>1, <1>2, PartFacts, PartsDiffer

\* What a step does to the files of VTK: an ingest is begun; files go, or stay; frames are written
\* without a manifest; the manifest is written when all its frames are there.
Begun == /\ Now' = Now + 1 /\ position' = 1
         /\ \A n \in 1..Now : sources'[n] = sources[n]
         /\ store'["vtk"] = store["vtk"]
Lost == /\ Now' = Now /\ sources' = sources
        /\ \A part \in Parts : store'["vtk"][part] \in {0, store["vtk"][part]}
        /\ position' = 1 \/ ~(Busy' /\ Current' = "vtk") \/ store'["vtk"][Manifest] = 0
Filled == /\ Now' = Now /\ sources' = sources
          /\ store["vtk"][Manifest] = 0 /\ store'["vtk"][Manifest] = 0
Completed == /\ Now' = Now /\ sources' = sources /\ position' = 1
             /\ store["vtk"][Manifest] = 0 /\ store'["vtk"][Manifest] = Now
             /\ \A part : IsFrame(part, Source) => store'["vtk"][part] = Now

\* Writing one frame's file leaves the manifest alone.
LEMMA FrameSparesManifest ==
  ASSUME NEW src, NEW x, x \in FrameWrites(src)
  PROVE  Manifest \notin x.put /\ Manifest \notin x.drop
<1>1. PICK z, s : x = FrameWrite(z, s)
  BY InFrameWrites
<1>2. x.drop = {} /\ x.put = {Values(z, s)}
  BY <1>1, WriteFields DEF FrameWrite
<1>3. QED
  BY <1>2, PartsDiffer

LEMMA VtkLoaderStep ==
  ASSUME TypeInv, Performed, ManifestLast, LoaderWrites, Current = "vtk"
  PROVE  Lost \/ Filled \/ Completed
<1> DEFINE L == Loader["vtk"][Source]
           w == L[position]
           was == store["vtk"]
           is == store'["vtk"]
<1>1. Busy /\ "vtk" \in Backends
  BY DEF LoaderWrites
<1>2. Source \in Sources /\ position \in 1..Len(L) /\ Now \in Nat \ {0}
  BY <1>1, AtWork
<1>3. L = Vtk(Source)
  BY <1>2, LoaderIs
<1>4. /\ Len(L) \in Nat /\ Len(L) >= 2
      /\ L[1] = Write(Parts, {}, <<>>) /\ L[Len(L)] = Write({}, {Manifest}, <<>>)
      /\ position # 1 /\ position # Len(L) => w \in FrameWrites(Source)
      /\ \A z \in ToSet(Source.zones), s \in ToSet(StepsFor("vtk", Source)) : LeftBefore(L, Len(L), Values(z, s))
  BY <1>2, <1>3, VtkWrites
<1>5. sources' = sources /\ Now' = Now /\ (position = Len(L) => position' = 1)
  BY Positions
<1>6. \A part \in Parts : /\ part \notin w.put /\ part \notin w.drop => is[part] = was[part]
                          /\ part \notin w.put /\ part \in w.drop => is[part] = 0
                          /\ Renews(w, part) => is[part] = Now
  BY LoaderStep DEF Written
<1>7. Manifest \in Parts
  BY PartFacts
<1>8. position # 1 => was[Manifest] = 0
  BY <1>1 DEF ManifestLast
<1>9. \A part \in Parts : LeftBefore(L, position, part) => was[part] = Now
  BY <1>1 DEF Performed
<1> HIDE DEF w, L, was, is
<1>10. CASE position = 1
  <2>1. w = Write(Parts, {}, <<>>)
    BY <1>4, <1>10 DEF w
  <2>2. w.drop = Parts /\ w.put = {}
    BY <2>1, WriteFields
  <2>3. \A part \in Parts : is[part] = 0
    BY <1>6, <2>2
  <2>4. QED
    BY <1>5, <1>7, <2>3 DEF Lost, is, was
<1>11. CASE position # 1 /\ position # Len(L)
  <2>1. w \in FrameWrites(Source)
    BY <1>4, <1>11, Zenon
  <2>2. Manifest \notin w.put /\ Manifest \notin w.drop
    BY <2>1, FrameSparesManifest
  <2>3. Manifest \in Parts /\ is[Manifest] = was[Manifest]
    BY <1>6, <1>7, <2>2
  <2>4. QED
    BY <1>5, <1>8, <1>11, <2>3 DEF Filled, is, was
<1>12. CASE position = Len(L)
  <2>1. w = Write({}, {Manifest}, <<>>) /\ position # 1
    BY <1>4, <1>12 DEF w
  <2>2. w.drop = {} /\ w.put = {Manifest} /\ w.from = <<>>
    BY <2>1, WriteFields
  <2>3. is[Manifest] = Now
    BY <1>6, <1>7, <2>2 DEF Renews
  <2>4. ASSUME NEW part, IsFrame(part, Source) PROVE is[part] = Now
    <3>1. part \in Parts /\ part # Manifest
      BY <1>2, <2>4, FramesAreParts
    <3>2. LeftBefore(L, position, part)
      BY <1>4, <1>12, <2>4 DEF IsFrame
    <3>3. was[part] = Now
      BY <1>9, <3>1, <3>2
    <3>4. part \notin w.put /\ part \notin w.drop
      BY <2>2, <3>1
    <3>5. QED
      BY <1>6, <3>1, <3>3, <3>4
  <2>5. QED
    BY <1>5, <1>8, <1>12, <2>1, <2>3, <2>4 DEF Completed, is, was
<1>13. QED
  BY <1>10, <1>11, <1>12

LEMMA VtkStep ==
  ASSUME TypeInv, Performed, ManifestLast, [Next]_vars
  PROVE  Begun \/ Lost \/ Filled \/ Completed
<1>1. "vtk" \in Backends /\ Manifest \in Parts
  BY PartFacts DEF Backends
<1>2. ASSUME NEW src \in Sources, NEW sel \in Selections, BeginIngest(src, sel) PROVE Begun
  <2>1. store' = store /\ position' = 1
    BY <1>2 DEF BeginIngest
  <2>2. QED
    BY <1>2, <2>1, BeginTypes DEF Begun
<1>3. CASE LoaderWrites /\ Current = "vtk"
  BY <1>3, VtkLoaderStep
<1>4. CASE LoaderWrites /\ Current # "vtk"
  <2>1. store'["vtk"] = store["vtk"]
    BY <1>1, <1>4, LoaderStep DEF Written
  <2>2. sources' = sources /\ Now' = Now /\ (position' = 1 \/ Current' = Current)
    BY <1>4, Positions
  <2>3. QED
    BY <1>4, <2>1, <2>2 DEF Lost
<1>5. CASE Aborts
  <2>1. /\ sources' = sources /\ Now' = Now
        /\ store' = store \/ Torn(Current)
        /\ Busy' => position' = 1 \/ (todo' = todo /\ position' = position /\ exit' = exit /\ store' = store)
    BY <1>5, AbortStep
  <2>2. ASSUME NEW part \in Parts PROVE store'["vtk"][part] \in {0, store["vtk"][part]}
    <3>1. CASE store' = store
      BY <3>1
    <3>2. CASE Torn(Current)
      <4>1. CASE Current = "vtk"
        BY <3>2, <4>1 DEF Torn
      <4>2. CASE Current # "vtk"
        BY <1>1, <3>2, <4>2 DEF Torn
      <4>3. QED
        BY <4>1, <4>2
    <3>3. QED
      BY <2>1, <3>1, <3>2
  <2>3. ASSUME position' # 1, Busy', Current' = "vtk" PROVE store'["vtk"][Manifest] = 0
    <3>1. todo' = todo /\ position' = position /\ exit' = exit /\ store' = store
      BY <2>1, <2>3
    <3>2. Busy /\ Current = "vtk" /\ position # 1
      BY <2>3, <3>1 DEF Busy, Current
    <3>3. QED
      BY <3>1, <3>2 DEF ManifestLast
  <2>4. QED
    BY <2>1, <2>2, <2>3 DEF Lost
<1>6. QED
  BY <1>2, <1>3, <1>4, <1>5, Cases

\* What stands in the store is of ingests that were begun.
LEMMA ManifestType ==
  ASSUME TypeInv, store["vtk"][Manifest] # 0
  PROVE  store["vtk"][Manifest] \in 1..Now /\ sources[store["vtk"][Manifest]] \in Sources
<1>1. Manifest \in Parts /\ "vtk" \in Backends
  BY PartFacts DEF Backends
<1>2. sources \in Seq(Sources) /\ Now = Len(sources) /\ store["vtk"][Manifest] \in 0..Now
  BY <1>1 DEF TypeInv, TypeOK, Now
<1>3. QED
  BY <1>2

LEMMA ManifestStep == TypeInv /\ Performed /\ ManifestLast /\ [Next]_vars => ManifestLast'
<1> SUFFICES ASSUME TypeInv, Performed, ManifestLast, [Next]_vars PROVE ManifestLast'
  OBVIOUS
<1> DEFINE is == store'["vtk"]
           was == store["vtk"]
           n == is[Manifest]
<1>1. SUFFICES /\ n # 0 => \A part : IsFrame(part, sources'[n]) => is[part] \in {0, n}
               /\ Busy' /\ Current' = "vtk" /\ position' # 1 => n = 0
  BY DEF ManifestLast, IsFrame
<1>2. was[Manifest] # 0 => /\ was[Manifest] \in 1..Now /\ sources[was[Manifest]] \in Sources
                           /\ \A part : IsFrame(part, sources[was[Manifest]]) => was[part] \in {0, was[Manifest]}
  BY ManifestType DEF ManifestLast
<1>3. Manifest \in Parts
  BY PartFacts
<1>4. sources[Now] = Source
  BY DEF Source
<1> HIDE DEF is, was
<1>5. CASE Begun
  <2>1. is = was /\ position' = 1 /\ \A m \in 1..Now : sources'[m] = sources[m]
    BY <1>5 DEF Begun, is, was
  <2>2. QED
    BY <1>2, <2>1
<1>6. CASE Lost
  <2>1. sources' = sources /\ (position' = 1 \/ ~(Busy' /\ Current' = "vtk") \/ is[Manifest] = 0)
        /\ \A part \in Parts : is[part] \in {0, was[part]}
    BY <1>6 DEF Lost, is, was
  <2>2. ASSUME n # 0, NEW part, IsFrame(part, sources'[n]) PROVE is[part] \in {0, n}
    <3>1. n = was[Manifest]
      BY <1>3, <2>1, <2>2
    <3>2. part \in Parts
      BY <1>2, <2>1, <2>2, <3>1, FramesAreParts
    <3>3. QED
      BY <1>2, <2>1, <2>2, <3>1, <3>2
  <2>3. QED
    BY <2>1, <2>2
<1>7. CASE Filled
  BY <1>7 DEF Filled, is
<1>8. CASE Completed
  BY <1>4, <1>8 DEF Completed, is
<1>9. QED
  BY <1>5, <1>6, <1>7, <1>8, VtkStep

LEMMA PublicationStep ==
  ASSUME TypeInv, Performed, ManifestLast, [Next]_vars
  PROVE  [Published!Begin \/ Published!Withdraw \/ Published!Publish]_<<Now, VtkContent>>
<1> DEFINE is == store'["vtk"]
           was == store["vtk"]
<1>1. VtkContent = Found(was, sources) /\ VtkContent' = Found(is, sources')
  BY DEF VtkContent, Found
<1>2. was[Manifest] # 0 => /\ was[Manifest] \in 1..Now /\ sources[was[Manifest]] \in Sources
                           /\ \A part : IsFrame(part, sources[was[Manifest]]) => was[part] \in {0, was[Manifest]}
  BY ManifestType DEF ManifestLast
<1>3. Manifest \in Parts
  BY PartFacts
<1>4. sources[Now] = Source
  BY DEF Source
<1>5. SUFFICES \/ Now' = Now + 1 /\ VtkContent' = VtkContent
               \/ Now' = Now /\ VtkContent' \in {0, VtkContent}
               \/ Now' = Now /\ VtkContent = 0 /\ VtkContent' = Now
  BY DEF Published!Begin, Published!Withdraw, Published!Publish
<1> HIDE DEF is, was
<1>6. CASE Begun
  <2>1. is = was /\ Now' = Now + 1 /\ \A m \in 1..Now : sources'[m] = sources[m]
    BY <1>6 DEF Begun, is, was
  <2>2. CASE was[Manifest] = 0
    BY <1>1, <2>1, <2>2, FoundIs
  <2>3. CASE was[Manifest] # 0
    <3> DEFINE n == was[Manifest]
    <3>1. n # 0 /\ sources'[n] = sources[n] /\ is[Manifest] = n
      BY <1>2, <2>1, <2>3
    <3> HIDE DEF n
    <3>2. CASE \A part : IsFrame(part, sources[n]) => was[part] = n
      BY <1>1, <2>1, <3>1, <3>2, FoundIs
    <3>3. CASE \E part : IsFrame(part, sources[n]) /\ was[part] = 0
      BY <1>1, <2>1, <3>1, <3>3, FoundIs
    <3>4. QED
      BY <1>2, <2>3, <3>2, <3>3 DEF n
  <2>4. QED
    BY <2>1, <2>2, <2>3
<1>7. CASE Lost
  <2>1. Now' = Now /\ sources' = sources /\ \A part \in Parts : is[part] \in {0, was[part]}
    BY <1>7 DEF Lost, is, was
  <2>2. CASE is[Manifest] = 0
    BY <1>1, <2>1, <2>2, FoundIs
  <2>3. CASE is[Manifest] # 0
    <3> DEFINE n == is[Manifest]
    <3>1. n # 0 /\ was[Manifest] = n
      BY <1>3, <2>1, <2>3
    <3>2. ASSUME NEW part, IsFrame(part, sources[n])
          PROVE  is[part] \in {0, was[part]} /\ was[part] \in {0, n}
      <4>1. part \in Parts
        BY <1>2, <2>3, <3>1, <3>2, FramesAreParts
      <4>2. QED
        BY <1>2, <2>1, <2>3, <3>1, <3>2, <4>1
    <3> HIDE DEF n
    <3>3. CASE \E part : IsFrame(part, sources[n]) /\ is[part] = 0
      <4>1. Found(is, sources') = 0
        BY <2>1, <3>1, <3>3, FoundIs DEF n
      <4>2. QED
        BY <1>1, <2>1, <4>1
    <3>4. CASE \A part : IsFrame(part, sources[n]) => is[part] # 0
      <4>1. \A part : IsFrame(part, sources[n]) => is[part] = n /\ was[part] = n
        BY <3>2, <3>4
      <4>2. Found(is, sources') = n
        BY <2>1, <3>1, <4>1, FoundIs DEF n
      <4>3. Found(was, sources) = n
        BY <3>1, <4>1, FoundIs
      <4>4. QED
        BY <1>1, <2>1, <4>2, <4>3
    <3>5. QED
      BY <3>3, <3>4
  <2>4. QED
    BY <2>2, <2>3
<1>8. CASE Filled
  <2>1. Now' = Now /\ was[Manifest] = 0 /\ is[Manifest] = 0
    BY <1>8 DEF Filled, is, was
  <2>2. QED
    BY <1>1, <2>1, FoundIs
<1>9. CASE Completed
  <2>1. /\ Now' = Now /\ sources' = sources /\ was[Manifest] = 0 /\ is[Manifest] = Now
        /\ \A part : IsFrame(part, sources[Now]) => is[part] = Now
    BY <1>4, <1>9 DEF Completed, is, was
  <2>2. Found(was, sources) = 0
    BY <2>1, FoundIs
  <2>3. Found(is, sources') \in {0, Now}
    BY <2>1, FoundIs
  <2>4. QED
    BY <1>1, <2>1, <2>2, <2>3
<1>10. QED
  BY <1>6, <1>7, <1>8, <1>9, VtkStep

\* The VTK loader implements Publication: at any time, also while files are removed or written and
\* after the command died, what the manifest leads to is nothing, or one whole ingest, and only the
\* latest ingest is put in the place of nothing.
THEOREM VtkPublishes == Spec => VtkPublishesWhole
<1>1. Init => TypeInv /\ Performed /\ ManifestLast
  <2>1. Init => store["vtk"][Manifest] = 0 /\ ~Busy
    BY PartFacts DEF Init, Backends, Busy
  <2>2. QED
    BY <2>1, InitIngest DEF Performed, ManifestLast
<1>2. TypeInv /\ Performed /\ ManifestLast /\ [Next]_vars => (TypeInv /\ Performed /\ ManifestLast)'
  BY TypeStep, PerformedStep, ManifestStep
<1>3. Init => Published!PInit
  <2>1. Init => Now = 0 /\ store["vtk"][Manifest] = 0
    BY PartFacts DEF Init, Backends, Now
  <2>2. VtkContent = Found(store["vtk"], sources)
    BY DEF VtkContent, Found
  <2>3. QED
    BY <2>1, <2>2, FoundIs DEF Published!PInit
<1>4. TypeInv /\ Performed /\ ManifestLast /\ [Next]_vars
        => [Published!Begin \/ Published!Withdraw \/ Published!Publish]_<<Now, VtkContent>>
  BY PublicationStep
<1>5. QED
  BY <1>1, <1>2, <1>3, <1>4, PTL DEF Spec, VtkPublishesWhole, Published!PSpec

=============================================================================
