------------------------- MODULE InterpolationProofs -------------------------
(***************************************************************************)
(* Theorems about Interpolation, for any finite set of requests, any       *)
(* datasets, any size of the cache and any number of ingests.              *)
(***************************************************************************)
EXTENDS Interpolation, FiniteSetTheorems, SequenceTheorems, TLAPS

USE LimitsAssumption

Entries == [dataset : Datasets, mesh : Requests]

Typed ==
  /\ GateTypeOK
  /\ sharedCache \in Seq(Entries)
  /\ mesh \in [Requests -> [Fields -> 0..MaxVersion]]
  /\ version \in [Datasets -> 0..MaxVersion]
  /\ request \in [Requests -> RequestType]

\* The entries of a cache.
Held(cache) == {cache[i] : i \in DOMAIN cache}

\* A mesh is only ever shared under the dataset of the request that created it.
Keyed ==
  /\ \A r \in Requests : request[request[r].mesh].dataset = request[r].dataset
  /\ \A entry \in Held(sharedCache) : request[entry.mesh].dataset = entry.dataset

\* The counter of the gate is exact, and an ingest has the gate to itself.
Gated ==
  /\ activeInteractiveReads = Cardinality(Inside)
  /\ activeJobType \in {"none", "ingest"}
  /\ activeJobType = "ingest" => activeInteractiveReads = 0

\* A mesh without cells has no other field either.
Whole(fields) == fields["cells"] = 0 => \A f \in Fields : fields[f] = 0

\* What the request loads is the version its dataset has, and so are the fields
\* that are set in the mesh it loads; cells is set first.
LoadsCurrent(rec, meshes) ==
  /\ rec.pc \in {"fetch", "assign"} =>
       \A f \in Fields : meshes[rec.mesh][f] \in {0, version[rec.dataset]}
  /\ rec.pc = "assign" =>
       /\ rec.fetched = version[rec.dataset]
       /\ rec.next # 1 => meshes[rec.mesh]["cells"] = rec.fetched

Loading ==
  /\ \A m \in Requests : Whole(mesh[m])
  /\ \A r \in Requests : LoadsCurrent(request[r], mesh)

\* The inductive invariant.
LInv == Typed /\ Keyed /\ Gated /\ Loading /\ ArraysAgree

-----------------------------------------------------------------------------
(* The shared cache.                                                       *)

\* What assignment, pop and popitem leave in the cache was there, or is put there.
LEMMA CacheElements ==
  ASSUME Typed, NEW d \in Datasets, NEW m \in Requests
  PROVE  /\ With(d, m) \in Seq(Entries)
         /\ Held(With(d, m)) \subseteq Held(sharedCache) \cup {[dataset |-> d, mesh |-> m]}
<1> DEFINE entry == [dataset |-> d, mesh |-> m]
<1>0. sharedCache \in Seq(Entries) /\ entry \in Entries
  BY DEF Typed, Entries
<1>1. CASE Cached(d)
  <2> DEFINE new == [i \in DOMAIN sharedCache |->
                       IF sharedCache[i].dataset = d THEN entry ELSE sharedCache[i]]
  <2>1. With(d, m) = new
    BY <1>1 DEF With
  <2>2. new \in Seq(Entries) /\ DOMAIN new = DOMAIN sharedCache
    BY <1>0
  <2> QED
    BY <2>1, <2>2 DEF Held
<1>2. CASE ~Cached(d)
  BY <1>0, <1>2 DEF With, Held
<1> QED
  BY <1>1, <1>2

\* A concatenation holds what the two sequences hold.
LEMMA Joined ==
  ASSUME NEW S, NEW a \in Seq(S), NEW b \in Seq(S)
  PROVE  a \o b \in Seq(S) /\ Held(a \o b) \subseteq Held(a) \cup Held(b)
<1>1. /\ a \o b \in Seq(S) /\ Len(a \o b) = Len(a) + Len(b)
      /\ \A k \in 1..(Len(a) + Len(b)) : (a \o b)[k] = IF k <= Len(a) THEN a[k] ELSE b[k - Len(a)]
  BY ConcatProperties
<1>2. /\ DOMAIN a = 1..Len(a) /\ DOMAIN b = 1..Len(b) /\ DOMAIN (a \o b) = 1..(Len(a) + Len(b))
      /\ Len(a) \in Nat /\ Len(b) \in Nat
  BY <1>1, LenProperties
<1>3. ASSUME NEW k \in 1..(Len(a) + Len(b))
      PROVE  (a \o b)[k] \in Held(a) \cup Held(b)
  <2>1. CASE k <= Len(a)
    <3>1. k \in 1..Len(a) /\ (a \o b)[k] = a[k]
      BY <1>1, <1>2, <2>1
    <3> QED
      BY <1>2, <3>1 DEF Held
  <2>2. CASE ~(k <= Len(a))
    <3>1. k - Len(a) \in 1..Len(b) /\ (a \o b)[k] = b[k - Len(a)]
      BY <1>1, <1>2, <2>2
    <3> QED
      BY <1>2, <3>1 DEF Held
  <2> QED
    BY <2>1, <2>2
<1>4. Held(a \o b) \subseteq Held(a) \cup Held(b)
  BY <1>2, <1>3 DEF Held
<1> QED
  BY <1>1, <1>4

LEMMA RemovedElements ==
  ASSUME Typed, NEW i \in DOMAIN sharedCache
  PROVE  LET rest == SubSeq(sharedCache, 1, i - 1) \o SubSeq(sharedCache, i + 1, Len(sharedCache))
         IN  rest \in Seq(Entries) /\ Held(rest) \subseteq Held(sharedCache)
<1>0. /\ sharedCache \in Seq(Entries) /\ DOMAIN sharedCache = 1..Len(sharedCache)
      /\ i \in 1..Len(sharedCache) /\ Len(sharedCache) \in Nat
  BY DEF Typed
<1> DEFINE a == SubSeq(sharedCache, 1, i - 1)
           b == SubSeq(sharedCache, i + 1, Len(sharedCache))
<1>1. a \in Seq(Entries) /\ Held(a) \subseteq Held(sharedCache)
  <2>1. /\ a \in Seq(Entries) /\ Len(a) = i - 1
        /\ \A k \in 1..(i - 1) : a[k] = sharedCache[k]
    BY <1>0
  <2>2. DOMAIN a = 1..(i - 1)
    BY <2>1, LenProperties
  <2> QED
    BY <1>0, <2>1, <2>2 DEF Held
<1>2. b \in Seq(Entries) /\ Held(b) \subseteq Held(sharedCache)
  <2>1. /\ b \in Seq(Entries) /\ Len(b) = Len(sharedCache) - i
        /\ \A k \in 1..(Len(sharedCache) - i) : b[k] = sharedCache[k + i]
    BY <1>0
  <2>2. DOMAIN b = 1..(Len(sharedCache) - i)
    BY <2>1, LenProperties
  <2>3. \A k \in 1..(Len(sharedCache) - i) : k + i \in DOMAIN sharedCache
    BY <1>0
  <2> QED
    BY <2>1, <2>2, <2>3 DEF Held
<1> HIDE DEF a, b
<1>3. a \o b \in Seq(Entries) /\ Held(a \o b) \subseteq Held(a) \cup Held(b)
  BY <1>1, <1>2, Joined
<1>4. a \o b \in Seq(Entries) /\ Held(a \o b) \subseteq Held(sharedCache)
  BY <1>1, <1>2, <1>3
<1> QED
  BY <1>4 DEF a, b

LEMMA TailElements ==
  ASSUME Typed, sharedCache # <<>>
  PROVE  Tail(sharedCache) \in Seq(Entries) /\ Held(Tail(sharedCache)) \subseteq Held(sharedCache)
<1>0. sharedCache \in Seq(Entries) /\ Len(sharedCache) > 0
  BY DEF Typed
<1>1. /\ Tail(sharedCache) \in Seq(Entries) /\ Len(Tail(sharedCache)) = Len(sharedCache) - 1
      /\ \A k \in 1..Len(Tail(sharedCache)) : Tail(sharedCache)[k] = sharedCache[k + 1]
  BY <1>0
<1> QED
  BY <1>0, <1>1 DEF Held

-----------------------------------------------------------------------------
(* Requests.                                                               *)

\* A step of a request inside the gate that keeps its dataset.
LEMMA Moved ==
  ASSUME Typed, NEW r \in Requests, NEW from \in Steps \ {"new", "done"}, NEW rec \in RequestType,
         Moves(r, from, rec), rec.dataset = request[r].dataset, rec.pc # "new"
  PROVE  /\ request' \in [Requests -> RequestType]
         /\ request[r].pc = from /\ request'[r] = rec
         /\ \A q \in Requests : q # r => request'[q] = request[q]
         /\ \A q \in Requests : request'[q].dataset = request[q].dataset
         /\ rec.pc # "done" => Inside' = Inside
         /\ rec.pc = "done" => r \in Inside /\ Inside' = Inside \ {r}
BY DEF Typed, Moves, Inside, RequestType, Steps

LEMMA InsideFinite == IsFiniteSet(Inside) /\ Cardinality(Inside) \in Nat
BY RequestsFinite, FS_Subset, FS_CardinalityType DEF Inside

\* While a request is inside the gate no ingest is.
LEMMA NoIngestInside ==
  ASSUME Gated, NEW r \in Inside
  PROVE  activeJobType # "ingest"
BY InsideFinite, FS_EmptySet DEF Gated

-----------------------------------------------------------------------------
(* The steps of a request.                                                 *)

LEMMA InitEstablishes == Init => LInv
<1> SUFFICES ASSUME Init PROVE LInv
  OBVIOUS
<1>1. Typed
  <2>1. PICK asked \in [Requests -> Datasets] :
          request = [r \in Requests |->
                       [pc |-> "new", dataset |-> asked[r], mesh |-> r, fetched |-> 0, next |-> 1,
                        used |-> 0, company |-> "alone", outcome |-> "none"]]
    BY DEF Init
  <2>2. request \in [Requests -> RequestType]
    BY <2>1 DEF RequestType, Steps, Outcomes
  <2>3. GateTypeOK
    BY DEF Init, GateInit, GateTypeOK
  <2>4. /\ mesh \in [Requests -> [Fields -> 0..MaxVersion]]
        /\ version \in [Datasets -> 0..MaxVersion]
        /\ sharedCache \in Seq(Entries)
    BY DEF Init
  <2> QED
    BY <2>2, <2>3, <2>4 DEF Typed
<1>2. Keyed
  BY DEF Init, Keyed, Held
<1>3. Inside = {}
  BY DEF Init, Inside
<1>4. Gated
  BY <1>3, FS_EmptySet DEF Init, GateInit, Gated
<1>5. Loading /\ ArraysAgree
  BY DEF Init, Loading, Whole, LoadsCurrent, ArraysAgree, Fields
<1> QED
  BY <1>1, <1>2, <1>4, <1>5 DEF LInv

\* The version that belongs to a mesh is the same for all who refer to it.
LEMMA SameDataset ==
  ASSUME Typed, Keyed, NEW r \in Requests, NEW q \in Requests, request[r].mesh = request[q].mesh
  PROVE  request[r].dataset = request[q].dataset
BY DEF Keyed

\* What a request may become while it stays inside the gate and does not load.
Becomes(r, rec) ==
  /\ rec \in RequestType
  /\ rec.dataset = request[r].dataset
  /\ rec.pc \notin {"new", "done", "fetch", "assign"}
  /\ request[rec.mesh].dataset = rec.dataset

\* What the cache may become.
CacheKeyed(cache) ==
  cache \in Seq(Entries) /\ \A entry \in Held(cache) : request[entry.mesh].dataset = entry.dataset

\* Changes of the program counter and of the outcome alone.
LEMMA BecomesAt ==
  ASSUME Typed, Keyed, NEW r \in Requests
  PROVE  \A pc \in {"pop", "insert", "reinsert", "trim", "evict", "ensure", "read", "leave"} :
           /\ Becomes(r, [request[r] EXCEPT !.pc = pc])
           /\ \A o \in Outcomes : Becomes(r, [request[r] EXCEPT !.pc = pc, !.outcome = o])
           /\ \A o \in Outcomes, u \in 0..MaxVersion :
                Becomes(r, [request[r] EXCEPT !.pc = pc, !.outcome = o, !.used = u])
<1>1. request[r] \in RequestType /\ request[request[r].mesh].dataset = request[r].dataset
  BY DEF Typed, Keyed
<1>2. ASSUME NEW pc \in {"pop", "insert", "reinsert", "trim", "evict", "ensure", "read", "leave"}
      PROVE  /\ pc \in Steps /\ pc \notin {"new", "done", "fetch", "assign"}
             /\ Becomes(r, [request[r] EXCEPT !.pc = pc])
  BY <1>1 DEF Becomes, RequestType, Steps
<1>3. ASSUME NEW pc \in {"pop", "insert", "reinsert", "trim", "evict", "ensure", "read", "leave"},
             NEW o \in Outcomes
      PROVE  Becomes(r, [request[r] EXCEPT !.pc = pc, !.outcome = o])
  BY <1>1, <1>2 DEF Becomes, RequestType
<1>4. ASSUME NEW pc \in {"pop", "insert", "reinsert", "trim", "evict", "ensure", "read", "leave"},
             NEW o \in Outcomes, NEW u \in 0..MaxVersion
      PROVE  Becomes(r, [request[r] EXCEPT !.pc = pc, !.outcome = o, !.used = u])
  BY <1>1, <1>2 DEF Becomes, RequestType
<1> QED
  BY <1>2, <1>3, <1>4

\* A step inside the gate that leaves the meshes alone and does not start to load.
LEMMA Harmless ==
  ASSUME LInv, NEW r \in Requests, NEW from \in Steps \ {"new", "done"}, NEW rec,
         Moves(r, from, rec), Becomes(r, rec), CacheKeyed(sharedCache'),
         UNCHANGED <<gateVars, mesh, version>>
  PROVE  LInv'
<1> USE DEF LInv
<1>1. /\ request' \in [Requests -> RequestType]
      /\ request'[r] = rec /\ Inside' = Inside
      /\ \A q \in Requests : q # r => request'[q] = request[q]
      /\ \A q \in Requests : request'[q].dataset = request[q].dataset
  BY Moved DEF Becomes
<1>2. Typed'
  BY <1>1 DEF Typed, GateTypeOK, gateVars, CacheKeyed
<1>3. Keyed'
  <2>1. \A q \in Requests : request'[q].mesh \in Requests
    BY <1>1 DEF RequestType
  <2>2. \A q \in Requests : request[request'[q].mesh].dataset = request[q].dataset
    BY <1>1 DEF Keyed, Becomes
  <2>3. ASSUME NEW entry \in Held(sharedCache')
        PROVE  request'[entry.mesh].dataset = entry.dataset
    <3>1. entry \in Entries
      BY DEF Held, CacheKeyed
    <3>2. entry.mesh \in Requests
      BY <3>1 DEF Entries
    <3> QED
      BY <1>1, <3>2 DEF CacheKeyed
  <2>4. \A q \in Requests : request'[request'[q].mesh].dataset = request'[q].dataset
    BY <1>1, <2>1, <2>2
  <2> QED
    BY <2>3, <2>4 DEF Keyed, Held
<1>4. Gated'
  BY <1>1 DEF Gated, gateVars
<1>5. Loading'
  BY <1>1 DEF Loading, LoadsCurrent, Becomes
<1>6. ArraysAgree'
  BY DEF ArraysAgree
<1> QED
  BY <1>2, <1>3, <1>4, <1>5, <1>6

\* The steps on the cache, the last look at the mesh and the failures.
LEMMA HarmlessSteps ==
  ASSUME LInv, NEW r \in Requests,
         \/ Lookup(r) \/ Pop(r) \/ Reinsert(r) \/ Insert(r) \/ Trim(r) \/ Evict(r)
         \/ Read(r) \/ QueryFails(r)
  PROVE  LInv'
<1>t. /\ Typed /\ Keyed /\ CacheKeyed(sharedCache)
      /\ request[r] \in RequestType /\ request[request[r].mesh].dataset = request[r].dataset
      /\ request[r].dataset \in Datasets /\ request[r].mesh \in Requests
  BY DEF LInv, Typed, Keyed, CacheKeyed, RequestType
<1>c. sharedCache' = sharedCache => CacheKeyed(sharedCache')
  BY <1>t
<1>s. {"lookup", "pop", "reinsert", "insert", "trim", "evict", "read", "fetch"} \subseteq Steps \ {"new", "done"}
  BY DEF Steps
<1>o. {"keyError", "failed", "refused", "answered"} \subseteq Outcomes
  BY DEF Outcomes
<1>1. CASE Lookup(r)
  <2>1. PICK pc \in {"pop", "insert"} : Moves(r, "lookup", [request[r] EXCEPT !.pc = pc])
    BY <1>1 DEF Lookup, Goes
  <2>2. Becomes(r, [request[r] EXCEPT !.pc = pc])
    BY <1>t, <1>o, BecomesAt
  <2>3. UNCHANGED <<gateVars, mesh, version>> /\ CacheKeyed(sharedCache')
    BY <1>1, <1>c DEF Lookup
  <2> QED
    BY <1>s, <2>1, <2>2, <2>3, Harmless
<1>2. CASE Pop(r)
  <2>0. UNCHANGED <<gateVars, mesh, version>>
    BY <1>2 DEF Pop
  <2>1. ASSUME NEW i \in DOMAIN sharedCache, sharedCache[i].dataset = request[r].dataset,
               Moves(r, "pop", [request[r] EXCEPT !.pc = "reinsert", !.mesh = sharedCache[i].mesh]),
               sharedCache' = SubSeq(sharedCache, 1, i - 1)
                                \o SubSeq(sharedCache, i + 1, Len(sharedCache))
        PROVE  LInv'
    <3>0. sharedCache[i] \in Held(sharedCache) /\ sharedCache[i] \in Entries
      BY <1>t DEF Held, CacheKeyed
    <3>1. sharedCache[i] \in Held(sharedCache) /\ sharedCache[i].mesh \in Requests
      BY <3>0 DEF Entries
    <3>2. request[sharedCache[i].mesh].dataset = request[r].dataset
      BY <1>t, <2>1, <3>1 DEF CacheKeyed
    <3>3. Becomes(r, [request[r] EXCEPT !.pc = "reinsert", !.mesh = sharedCache[i].mesh])
      BY <1>t, <3>1, <3>2 DEF Becomes, RequestType, Steps
    <3>4. sharedCache' \in Seq(Entries) /\ Held(sharedCache') \subseteq Held(sharedCache)
      BY <1>t, <2>1, RemovedElements
    <3>5. CacheKeyed(sharedCache')
      BY <1>t, <3>4 DEF CacheKeyed
    <3> QED
      BY <1>s, <2>0, <2>1, <3>3, <3>5, Harmless
  <2>2. CASE Ends(r, "pop", "keyError") /\ UNCHANGED sharedCache
    <3>1. Moves(r, "pop", [request[r] EXCEPT !.pc = "leave", !.outcome = "keyError"])
      BY <2>2 DEF Ends
    <3>2. Becomes(r, [request[r] EXCEPT !.pc = "leave", !.outcome = "keyError"])
      BY <1>t, <1>o, BecomesAt
    <3> QED
      BY <1>s, <1>c, <2>0, <2>2, <3>1, <3>2, Harmless
  <2> QED
    BY <1>2, <2>1, <2>2 DEF Pop
<1>3. ASSUME NEW m \in Requests, request[m].dataset = request[r].dataset,
             sharedCache' = With(request[r].dataset, m)
      PROVE  CacheKeyed(sharedCache')
  <2>1. /\ sharedCache' \in Seq(Entries)
        /\ Held(sharedCache') \subseteq
             Held(sharedCache) \cup {[dataset |-> request[r].dataset, mesh |-> m]}
    BY <1>t, <1>3, CacheElements
  <2> QED
    BY <1>t, <1>3, <2>1 DEF CacheKeyed
<1>4. CASE Reinsert(r)
  <2>1. Moves(r, "reinsert", [request[r] EXCEPT !.pc = "ensure"]) /\ UNCHANGED <<gateVars, mesh, version>>
    BY <1>4 DEF Reinsert, Goes
  <2>2. Becomes(r, [request[r] EXCEPT !.pc = "ensure"])
    BY <1>t, <1>o, BecomesAt
  <2>3. CacheKeyed(sharedCache')
    BY <1>t, <1>3, <1>4 DEF Reinsert
  <2> QED
    BY <1>s, <2>1, <2>2, <2>3, Harmless
<1>5. CASE Insert(r)
  <2>1. Moves(r, "insert", [request[r] EXCEPT !.pc = "trim"]) /\ UNCHANGED <<gateVars, mesh, version>>
    BY <1>5 DEF Insert, Goes
  <2>2. Becomes(r, [request[r] EXCEPT !.pc = "trim"])
    BY <1>t, <1>o, BecomesAt
  <2>3. CacheKeyed(sharedCache')
    BY <1>3, <1>5 DEF Insert
  <2> QED
    BY <1>s, <2>1, <2>2, <2>3, Harmless
<1>6. CASE Trim(r)
  <2>1. PICK pc \in {"evict", "ensure"} : Moves(r, "trim", [request[r] EXCEPT !.pc = pc])
    BY <1>6 DEF Trim, Goes
  <2>2. Becomes(r, [request[r] EXCEPT !.pc = pc])
    BY <1>t, <1>o, BecomesAt
  <2>3. UNCHANGED <<gateVars, mesh, version>> /\ CacheKeyed(sharedCache')
    BY <1>6, <1>c DEF Trim
  <2> QED
    BY <1>s, <2>1, <2>2, <2>3, Harmless
<1>7. CASE Evict(r)
  <2>0. UNCHANGED <<gateVars, mesh, version>>
    BY <1>7 DEF Evict
  <2>1. CASE sharedCache = <<>>
    <3>1. /\ Moves(r, "evict", [request[r] EXCEPT !.pc = "leave", !.outcome = "keyError"])
          /\ UNCHANGED sharedCache
      BY <1>7, <2>1 DEF Evict, Ends
    <3>2. Becomes(r, [request[r] EXCEPT !.pc = "leave", !.outcome = "keyError"])
      BY <1>t, <1>o, BecomesAt
    <3> QED
      BY <1>s, <1>c, <2>0, <3>1, <3>2, Harmless
  <2>2. CASE sharedCache # <<>>
    <3>1. Moves(r, "evict", [request[r] EXCEPT !.pc = "trim"]) /\ sharedCache' = Tail(sharedCache)
      BY <1>7, <2>2 DEF Evict, Goes
    <3>2. Becomes(r, [request[r] EXCEPT !.pc = "trim"])
      BY <1>t, <1>o, BecomesAt
    <3>3. sharedCache' \in Seq(Entries) /\ Held(sharedCache') \subseteq Held(sharedCache)
      BY <1>t, <2>2, <3>1, TailElements
    <3>4. CacheKeyed(sharedCache')
      BY <1>t, <3>3 DEF CacheKeyed
    <3> QED
      BY <1>s, <2>0, <3>1, <3>2, <3>4, Harmless
  <2> QED
    BY <2>1, <2>2
<1>8. CASE Read(r)
  <2>0. UNCHANGED <<gateVars, mesh, version>> /\ CacheKeyed(sharedCache')
    BY <1>8, <1>c DEF Read
  <2>1. CASE Ends(r, "read", "refused")
    <3>1. Moves(r, "read", [request[r] EXCEPT !.pc = "leave", !.outcome = "refused"])
      BY <2>1 DEF Ends
    <3>2. Becomes(r, [request[r] EXCEPT !.pc = "leave", !.outcome = "refused"])
      BY <1>t, <1>o, BecomesAt
    <3> QED
      BY <1>s, <2>0, <3>1, <3>2, Harmless
  <2>2. CASE Moves(r, "read", [request[r] EXCEPT !.pc = "leave", !.outcome = "answered",
                                                 !.used = MeshOf(r).ids])
    <3>1. MeshOf(r).ids \in 0..MaxVersion
      BY <1>t DEF MeshOf, Typed, Fields
    <3>2. Becomes(r, [request[r] EXCEPT !.pc = "leave", !.outcome = "answered", !.used = MeshOf(r).ids])
      BY <1>t, <1>o, <3>1, BecomesAt
    <3> QED
      BY <1>s, <2>0, <2>2, <3>2, Harmless
  <2> QED
    BY <1>8, <2>1, <2>2 DEF Read
<1>9. CASE QueryFails(r)
  <2>1. PICK from \in {"lookup", "fetch", "read"} :
          Moves(r, from, [request[r] EXCEPT !.pc = "leave", !.outcome = "failed"])
    BY <1>9 DEF QueryFails, Ends
  <2>2. Becomes(r, [request[r] EXCEPT !.pc = "leave", !.outcome = "failed"])
    BY <1>t, <1>o, BecomesAt
  <2>3. UNCHANGED <<gateVars, mesh, version>> /\ CacheKeyed(sharedCache')
    BY <1>9, <1>c DEF QueryFails
  <2> QED
    BY <1>s, <2>1, <2>2, <2>3, Harmless
<1> QED
  BY <1>1, <1>2, <1>4, <1>5, <1>6, <1>7, <1>8, <1>9

LEMMA HeldMeshes ==
  ASSUME Typed
  PROVE  \A entry \in Held(sharedCache) : entry.mesh \in Requests
<1> TAKE entry \in Held(sharedCache)
<1>1. entry \in Entries
  BY DEF Typed, Held
<1> QED
  BY <1>1 DEF Entries

\* A request enters: no ingest is in progress, and one more is inside.
LEMMA BeginKeeps ==
  ASSUME LInv, NEW r \in Requests, Begin(r)
  PROVE  LInv'
<1> USE DEF LInv
<1>1. \A q \in Requests :
        /\ request'[q] = 
             IF q = r THEN [request[q] EXCEPT !.pc = "lookup", !.company = Company]
             ELSE IF q \in Inside THEN [request[q] EXCEPT !.company = "others"]
             ELSE request[q]
        /\ request[q] \in RequestType
  BY DEF Begin, Typed
<1>2. request[r].pc = "new" /\ r \notin Inside
  BY DEF Begin, Inside
<1>3. ASSUME NEW q \in Requests
      PROVE  /\ request'[q] \in RequestType
             /\ request'[q].pc = IF q = r THEN "lookup" ELSE request[q].pc
             /\ request'[q].dataset = request[q].dataset /\ request'[q].mesh = request[q].mesh
             /\ request'[q].fetched = request[q].fetched /\ request'[q].next = request[q].next
  <2>0. request[q] \in RequestType
    BY <1>1
  <2>1. CASE q = r
    <3>1. request'[q] = [request[q] EXCEPT !.pc = "lookup", !.company = Company]
      BY <1>1, <2>1
    <3>2. Company \in {"alone", "others"}
      BY DEF Company
    <3> QED
      BY <2>0, <2>1, <3>1, <3>2 DEF RequestType, Steps
  <2>2. CASE q # r /\ q \in Inside
    <3>1. request'[q] = [request[q] EXCEPT !.company = "others"]
      BY <1>1, <2>2
    <3> QED
      BY <2>0, <2>2, <3>1 DEF RequestType
  <2>3. CASE q # r /\ q \notin Inside
    <3>1. request'[q] = request[q]
      BY <1>1, <2>3
    <3> QED
      BY <2>0, <2>3, <3>1
  <2> QED
    BY <2>1, <2>2, <2>3
<1>4. \A q \in Requests :
        /\ request'[q].pc = IF q = r THEN "lookup" ELSE request[q].pc
        /\ request'[q].dataset = request[q].dataset /\ request'[q].mesh = request[q].mesh
        /\ request'[q].fetched = request[q].fetched /\ request'[q].next = request[q].next
  BY <1>3
<1>5. Inside' = Inside \cup {r}
  BY <1>2, <1>4 DEF Inside
<1>6. UNCHANGED <<sharedCache, mesh, version>>
  BY DEF Begin
<1>7. Typed'
  <2>1. request' \in [Requests -> RequestType]
    BY <1>3 DEF Begin
  <2>2. GateTypeOK /\ BeginInteractiveRead
    BY DEF Typed, Begin
  <2>3. GateTypeOK'
    BY <2>2 DEF GateTypeOK, BeginInteractiveRead
  <2> QED
    BY <1>6, <2>1, <2>3 DEF Typed
<1>8. Keyed'
  <2>1. \A entry \in Held(sharedCache) : entry.mesh \in Requests
    BY HeldMeshes
  <2>2. \A q \in Requests : request[q].mesh \in Requests
    BY <1>1 DEF RequestType
  <2> QED
    BY <1>4, <1>6, <2>1, <2>2 DEF Keyed, Held
<1>9. Gated'
  <2>1. Cardinality(Inside') = Cardinality(Inside) + 1
    BY <1>2, <1>5, InsideFinite, FS_AddElement
  <2> QED
    BY <2>1 DEF Gated, Begin, BeginInteractiveRead, InteractiveReadAdmitted, JobTypes
<1>10. Loading'
  BY <1>4, <1>6 DEF Loading, LoadsCurrent
<1>11. ArraysAgree'
  BY <1>6 DEF ArraysAgree
<1> QED
  BY <1>7, <1>8, <1>9, <1>10, <1>11

\* A request leaves: the counter loses exactly this one.
LEMMA LeaveKeeps ==
  ASSUME LInv, NEW r \in Requests, Leave(r)
  PROVE  LInv'
<1> USE DEF LInv
<1> DEFINE rec == [request[r] EXCEPT !.pc = "done"]
<1>0. /\ Moves(r, "leave", rec) /\ UNCHANGED <<sharedCache, mesh, version>>
      /\ request[r] \in RequestType
  BY DEF Leave, Goes, Typed
<1>1. rec \in RequestType /\ rec.dataset = request[r].dataset /\ rec.pc = "done"
      /\ rec.mesh = request[r].mesh
  BY <1>0 DEF RequestType, Steps
<1> HIDE DEF rec
<1>2. /\ request' \in [Requests -> RequestType] /\ request'[r] = rec
      /\ \A q \in Requests : q # r => request'[q] = request[q]
      /\ \A q \in Requests : request'[q].dataset = request[q].dataset
      /\ r \in Inside /\ Inside' = Inside \ {r}
  BY <1>0, <1>1, Moved DEF Steps
<1>3. Typed'
  <2>1. activeInteractiveReads' \in Nat
    BY DEF Typed, GateTypeOK, Leave, EndInteractiveRead, Decremented
  <2> QED
    BY <1>0, <1>2, <2>1 DEF Typed, GateTypeOK, Leave, EndInteractiveRead
<1>4. Keyed'
  <2>1. \A entry \in Held(sharedCache) : entry.mesh \in Requests
    BY HeldMeshes
  <2>2. \A q \in Requests : request[q].mesh \in Requests /\ request'[q].mesh = request[q].mesh
    BY <1>1, <1>2 DEF Typed, RequestType
  <2> QED
    BY <1>0, <1>2, <2>1, <2>2 DEF Keyed, Held
<1>5. Gated'
  <2>1. Cardinality(Inside') = Cardinality(Inside) - 1 /\ IsFiniteSet(Inside')
    BY <1>2, InsideFinite, FS_RemoveElement
  <2>2. Cardinality(Inside) \in Nat /\ Cardinality(Inside') \in Nat
    BY <2>1, InsideFinite, FS_CardinalityType
  <2> QED
    BY <2>1, <2>2 DEF Gated, Leave, EndInteractiveRead, Decremented
<1>6. Loading'
  BY <1>0, <1>1, <1>2 DEF Loading, LoadsCurrent
<1>7. ArraysAgree'
  BY <1>0 DEF ArraysAgree
<1> QED
  BY <1>3, <1>4, <1>5, <1>6, <1>7

\* A step inside the gate that keeps the mesh and the dataset of the request: all
\* that is left to show is about the loading.
LEMMA RequestKeeps ==
  ASSUME LInv, NEW r \in Requests, NEW from \in Steps \ {"new", "done"}, NEW rec \in RequestType,
         Moves(r, from, rec), rec.dataset = request[r].dataset, rec.mesh = request[r].mesh,
         rec.pc \notin {"new", "done"}, UNCHANGED <<gateVars, sharedCache, version>>,
         mesh' \in [Requests -> [Fields -> 0..MaxVersion]], ArraysAgree',
         \A m \in Requests : Whole(mesh'[m]),
         \A q \in Requests \ {r} : LoadsCurrent(request[q], mesh'), LoadsCurrent(rec, mesh')
  PROVE  LInv'
<1> USE DEF LInv
<1>1. /\ request' \in [Requests -> RequestType] /\ request'[r] = rec /\ Inside' = Inside
      /\ \A q \in Requests : q # r => request'[q] = request[q]
      /\ \A q \in Requests : request'[q].dataset = request[q].dataset
  BY Moved
<1>2. Typed'
  BY <1>1 DEF Typed, GateTypeOK, gateVars
<1>3. Keyed'
  <2>1. \A entry \in Held(sharedCache) : entry.mesh \in Requests
    BY HeldMeshes
  <2>2. \A q \in Requests : request[q].mesh \in Requests /\ request'[q].mesh = request[q].mesh
    BY <1>1 DEF Typed, RequestType
  <2> QED
    BY <1>1, <2>1, <2>2 DEF Keyed, Held
<1>4. Gated'
  BY <1>1 DEF Gated, gateVars
<1>5. Loading'
  <2>1. \A q \in Requests : LoadsCurrent(request'[q], mesh')
    BY <1>1
  <2> QED
    BY <2>1 DEF Loading, LoadsCurrent, Whole
<1> QED
  BY <1>2, <1>3, <1>4, <1>5

\* ensure_cells decides to read the mesh, or to load it: then nothing is loaded yet.
LEMMA EnsureKeeps ==
  ASSUME LInv, NEW r \in Requests, Ensure(r)
  PROVE  LInv'
<1> USE DEF LInv
<1>t. /\ Typed /\ Keyed /\ request[r] \in RequestType
      /\ request[r].mesh \in Requests
      /\ UNCHANGED <<gateVars, sharedCache, mesh, version>>
  BY DEF Typed, Ensure, RequestType
<1>1. CASE MeshOf(r).cells # 0
  <2>1. Moves(r, "ensure", [request[r] EXCEPT !.pc = "read"])
    BY <1>1 DEF Ensure, Goes
  <2>2. Becomes(r, [request[r] EXCEPT !.pc = "read"])
    BY <1>t, BecomesAt
  <2>3. CacheKeyed(sharedCache')
    BY <1>t DEF Typed, Keyed, CacheKeyed
  <2> QED
    BY <1>t, <2>1, <2>2, <2>3, Harmless DEF Steps
<1>2. CASE MeshOf(r).cells = 0
  <2> DEFINE rec == [request[r] EXCEPT !.pc = "fetch"]
  <2>1. Moves(r, "ensure", rec)
    BY <1>2 DEF Ensure, Goes
  <2>2. /\ rec \in RequestType /\ rec.dataset = request[r].dataset /\ rec.pc = "fetch"
        /\ rec.mesh = request[r].mesh
    BY <1>t DEF RequestType, Steps
  <2>3. \A f \in Fields : mesh[request[r].mesh][f] = 0
    BY <1>t, <1>2 DEF Loading, Whole, MeshOf
  <2>4. /\ mesh' \in [Requests -> [Fields -> 0..MaxVersion]] /\ ArraysAgree'
        /\ \A m \in Requests : Whole(mesh'[m])
        /\ \A q \in Requests \ {r} : LoadsCurrent(request[q], mesh')
    BY <1>t DEF Typed, ArraysAgree, Loading
  <2> HIDE DEF rec
  <2>5. LoadsCurrent(rec, mesh')
    BY <1>t, <2>2, <2>3 DEF LoadsCurrent
  <2>6. "ensure" \in Steps \ {"new", "done"}
    BY DEF Steps
  <2> QED
    BY <1>t, <2>1, <2>2, <2>4, <2>5, <2>6, RequestKeeps
<1> QED
  BY <1>1, <1>2

\* fetch_cells_arrays reads the version the dataset has.
LEMMA FetchKeeps ==
  ASSUME LInv, NEW r \in Requests, Fetch(r)
  PROVE  LInv'
<1> USE DEF LInv
<1> DEFINE v == version[request[r].dataset]
           rec == [request[r] EXCEPT !.pc = "assign", !.next = 1, !.fetched = v]
<1>1. /\ Moves(r, "fetch", rec) /\ UNCHANGED <<gateVars, sharedCache, mesh, version>>
      /\ request[r] \in RequestType /\ request[r].pc = "fetch"
  BY DEF Fetch, Moves, Typed
<1>2. v \in 0..MaxVersion
  BY <1>1 DEF Typed, RequestType
<1> HIDE DEF v
<1>3. /\ rec \in RequestType /\ rec.dataset = request[r].dataset /\ rec.mesh = request[r].mesh
      /\ rec.pc = "assign" /\ rec.next = 1 /\ rec.fetched = v
  <2>1. "assign" \in Steps /\ 1 \in 1..5
    BY DEF Steps
  <2> QED
    BY <1>1, <1>2, <2>1 DEF RequestType
<1> HIDE DEF rec
<1>4. /\ mesh' \in [Requests -> [Fields -> 0..MaxVersion]] /\ ArraysAgree'
      /\ \A m \in Requests : Whole(mesh'[m])
      /\ \A q \in Requests \ {r} : LoadsCurrent(request[q], mesh')
  BY <1>1 DEF Typed, ArraysAgree, Loading
<1>5. LoadsCurrent(rec, mesh')
  BY <1>1, <1>3 DEF Loading, LoadsCurrent, v
<1>6. "fetch" \in Steps \ {"new", "done"}
  BY DEF Steps
<1> QED
  BY <1>1, <1>3, <1>4, <1>5, <1>6, RequestKeeps

\* One field of the mesh takes the version that every other set field of it has:
\* whoever loads this mesh loads the same dataset, and no ingest is inside.
LEMMA AssignKeeps ==
  ASSUME LInv, NEW r \in Requests, Assign(r)
  PROVE  LInv'
<1> USE DEF LInv
<1> DEFINE m == request[r].mesh
           f == FieldOrder[request[r].next]
           v == version[request[r].dataset]
<1>1. /\ request[r] \in RequestType /\ request[r].pc = "assign" /\ m \in Requests
      /\ request[r].fetched = v /\ v \in 0..MaxVersion
      /\ UNCHANGED <<gateVars, sharedCache, version>>
  BY DEF Assign, Goes, Moves, Typed, RequestType, Loading, LoadsCurrent
<1>2. f \in Fields /\ (request[r].next = 1 => f = "cells") /\ (request[r].next # 1 => f # "cells")
  BY <1>1 DEF RequestType, FieldOrder, Fields
<1>3. mesh' = [mesh EXCEPT ![m][f] = v]
  BY <1>1 DEF Assign
<1>4. \A g \in Fields : mesh[m][g] \in {0, v}
  BY <1>1 DEF Loading, LoadsCurrent
<1>5. request[r].next # 1 => mesh[m]["cells"] = v
  BY <1>1 DEF Loading, LoadsCurrent
<1> HIDE DEF m, f, v
<1>6. /\ mesh' \in [Requests -> [Fields -> 0..MaxVersion]]
      /\ \A n \in Requests : n # m => mesh'[n] = mesh[n]
      /\ \A g \in Fields : mesh'[m][g] = IF g = f THEN v ELSE mesh[m][g]
  BY <1>1, <1>2, <1>3 DEF Typed
<1>7. \A g \in Fields : mesh'[m][g] \in {0, v}
  BY <1>4, <1>6
<1>8. mesh'[m]["cells"] = v
  BY <1>2, <1>5, <1>6 DEF Fields
<1>9. \A n \in Requests : Whole(mesh'[n])
  BY <1>6, <1>7, <1>8 DEF Loading, Whole
<1>10. ArraysAgree'
  BY <1>6, <1>7 DEF ArraysAgree
<1>11. ASSUME NEW q \in Requests \ {r} PROVE LoadsCurrent(request[q], mesh')
  <2>1. LoadsCurrent(request[q], mesh) /\ request[q].mesh \in Requests
    BY DEF Loading, Typed, RequestType
  <2>2. CASE request[q].mesh # m
    BY <1>6, <2>1, <2>2 DEF LoadsCurrent
  <2>3. CASE request[q].mesh = m
    <3>1. version[request[q].dataset] = v
      BY <2>3, SameDataset DEF m, v
    <3> QED
      BY <1>7, <1>8, <2>1, <2>3, <3>1 DEF LoadsCurrent
  <2> QED
    BY <2>2, <2>3
<1>12. PICK rec \in RequestType :
         /\ Moves(r, "assign", rec) /\ rec.pc \in {"assign", "read"}
         /\ rec.dataset = request[r].dataset /\ rec.mesh = m /\ rec.fetched = v
  <2>1. CASE request[r].next = 5
    BY <1>1, <2>1 DEF Assign, Goes, RequestType, Steps, m, v
  <2>2. CASE request[r].next # 5
    BY <1>1, <2>2 DEF Assign, RequestType, Steps, m, v
  <2> QED
    BY <2>1, <2>2
<1>13. LoadsCurrent(rec, mesh')
  BY <1>7, <1>8, <1>12 DEF LoadsCurrent, v
<1>14. "assign" \in Steps \ {"new", "done"}
  BY DEF Steps
<1>15. rec.mesh = request[r].mesh
  BY <1>12 DEF m
<1> QED
  BY <1>1, <1>6, <1>9, <1>10, <1>11, <1>12, <1>13, <1>14, <1>15, RequestKeeps

-----------------------------------------------------------------------------
(* The steps of an ingest.                                                 *)

LEMMA IngestKeeps ==
  ASSUME LInv, IngestStep
  PROVE  LInv'
<1> USE DEF LInv
<1>1. ASSUME UNCHANGED <<sharedCache, mesh, version, request>>, GateTypeOK', Gated'
      PROVE  LInv'
  <2>1. Typed' /\ ArraysAgree' /\ Keyed'
    BY <1>1 DEF Typed, ArraysAgree, Keyed, Held
  <2>2. Loading'
    BY <1>1 DEF Loading, Whole, LoadsCurrent
  <2> QED
    BY <1>1, <2>1, <2>2
<1>2. CASE IngestEnters
  <2>1. UNCHANGED <<sharedCache, mesh, version, request>> /\ EnterJob("ingest")
    BY <1>2 DEF IngestEnters
  <2>2. GateTypeOK' /\ activeInteractiveReads' = activeInteractiveReads
    BY <2>1 DEF EnterJob, Typed, GateTypeOK, JobTypes
  <2>3. Inside' = Inside
    BY <2>1 DEF Inside
  <2>4. activeInteractiveReads = 0 /\ activeJobType' = "ingest"
    BY <2>1 DEF EnterJob, Blocked, Typed, GateTypeOK
  <2>5. Gated'
    BY <2>2, <2>3, <2>4 DEF Gated
  <2> QED
    BY <1>1, <2>1, <2>2, <2>5
<1>3. CASE IngestLeaves
  <2>1. UNCHANGED <<sharedCache, mesh, version, request>> /\ LeaveJob
    BY <1>3 DEF IngestLeaves
  <2>2. GateTypeOK'
    BY <2>1 DEF LeaveJob, Typed, GateTypeOK, JobTypes
  <2>3. Inside' = Inside
    BY <2>1 DEF Inside
  <2>4. Gated'
    BY <2>1, <2>3 DEF Gated, LeaveJob
  <2> QED
    BY <1>1, <2>1, <2>2, <2>4
<1>4. ASSUME NEW d \in Datasets, IngestReplaces(d) PROVE LInv'
  <2>1. /\ UNCHANGED <<gateVars, sharedCache, mesh, request>>
        /\ version' \in [Datasets -> 0..MaxVersion] /\ activeJobType = "ingest"
    BY <1>4 DEF IngestReplaces, Typed
  <2>2. Inside = {}
    BY <2>1, NoIngestInside
  <2>3. Inside' = Inside
    BY <2>1 DEF Inside
  <2>4. Typed' /\ ArraysAgree' /\ Keyed'
    BY <2>1 DEF Typed, GateTypeOK, gateVars, ArraysAgree, Keyed, Held
  <2>5. Gated'
    BY <2>1, <2>3 DEF Gated, gateVars
  <2>6. \A r \in Requests : request[r].pc \notin {"fetch", "assign"}
    BY <2>2 DEF Inside
  <2>7. Loading'
    BY <2>1, <2>6 DEF Loading, Whole, LoadsCurrent
  <2> QED
    BY <2>4, <2>5, <2>7
<1> QED
  BY <1>2, <1>3, <1>4 DEF IngestStep

-----------------------------------------------------------------------------
(* Theorems.                                                               *)

LEMMA StepKeeps ==
  ASSUME LInv, [Next]_vars
  PROVE  LInv'
<1>1. CASE IngestStep
  BY <1>1, IngestKeeps
<1>2. ASSUME NEW r \in Requests, RequestStep(r) PROVE LInv'
  BY <1>2, BeginKeeps, HarmlessSteps, EnsureKeeps, FetchKeeps, AssignKeeps, LeaveKeeps
     DEF RequestStep
<1>3. CASE UNCHANGED vars
  <2>1. UNCHANGED <<gateVars, sharedCache, mesh, version, request>> /\ Inside' = Inside
    BY <1>3 DEF vars, Inside
  <2> QED
    BY <2>1 DEF LInv, Typed, GateTypeOK, gateVars, Keyed, Held, Gated, Loading, Whole, LoadsCurrent,
                ArraysAgree
<1> QED
  BY <1>1, <1>2, <1>3 DEF Next

\* The inductive invariant holds of every behaviour: in particular the counter of
\* reads is the number of requests inside, so an ingest (ExecutionGate.enter_job)
\* never replaces a dataset while a request reads it.
THEOREM LoadingInvariant == Spec => []LInv
<1>1. Init => LInv
  BY InitEstablishes
<1>2. LInv /\ [Next]_vars => LInv'
  BY StepKeeps
<1> QED
  BY <1>1, <1>2, PTL DEF Spec

\* However many requests load a mesh at once, without a lock, in ensure_cells
\* (mesh_runtime.py:52-66), its arrays are of one version of the dataset.
THEOREM ArraysAlwaysAgree == Spec => []ArraysAgree
<1>1. LInv => ArraysAgree
  BY DEF LInv
<1> QED
  BY <1>1, LoadingInvariant, PTL

-----------------------------------------------------------------------------
(* A request alone is answered: the state that earlier races leave behind  *)
(* in the cache and in half loaded meshes.                                 *)

Sole(r) == request[r].company = "alone"

\* A request inside that nobody has overlapped is inside by itself.
ByItself == \A r \in Inside : Sole(r) => \A q \in Inside : q = r

\* What has been looked up is there.
Ingested ==
  \A r \in Requests : request[r].pc \notin {"new", "lookup", "leave", "done"} =>
    version[request[r].dataset] # 0

\* The fields before the next one of a request that assigns them are set.
Behind(rec, meshes) ==
  rec.pc = "assign" => \A k \in 1..5 : k < rec.next => meshes[rec.mesh][FieldOrder[k]] # 0

Prefix == \A r \in Requests : Behind(request[r], mesh)

Half(fields) == fields["cells"] # 0 /\ \E f \in Fields : fields[f] = 0

\* A half loaded mesh is being loaded: a failed load leaves it empty, or whole.
Attended ==
  \A m \in Requests : Half(mesh[m]) =>
    \E q \in Requests : request[q].pc = "assign" /\ request[q].mesh = m

\* What a request by itself has found is still there at its next step.
Undisturbed(rec, cache, meshes) ==
  rec.company = "alone" =>
    /\ rec.pc = "pop" => \E i \in DOMAIN cache : cache[i].dataset = rec.dataset
    /\ rec.pc = "evict" => cache # <<>>
    /\ rec.pc = "read" => meshes[rec.mesh]["cells"] # 0
    /\ rec.pc \in {"leave", "done"} => rec.outcome \in {"answered", "failed"}

Serene == \A r \in Requests : Undisturbed(request[r], sharedCache, mesh)

SInv == ByItself /\ Ingested /\ Prefix /\ Attended /\ Serene

LEMMA InitSole == Init => SInv
<1> SUFFICES ASSUME Init PROVE SInv
  OBVIOUS
<1>1. PICK asked \in [Requests -> Datasets] :
        request = [r \in Requests |->
                     [pc |-> "new", dataset |-> asked[r], mesh |-> r, fetched |-> 0, next |-> 1,
                      used |-> 0, company |-> "alone", outcome |-> "none"]]
  BY DEF Init
<1>2. \A r \in Requests : request[r].pc = "new"
  BY <1>1
<1>3. \A m \in Requests : mesh[m]["cells"] = 0
  BY DEF Init, Fields
<1> QED
  BY <1>2, <1>3
     DEF SInv, ByItself, Inside, Ingested, Prefix, Behind, Attended, Half, Serene, Undisturbed

\* A step of a request that leaves the gate to itself and loads nothing.
LEMMA SoleMoves ==
  ASSUME LInv, SInv, NEW r \in Requests, NEW from \in Steps \ {"new", "done"},
         NEW rec \in RequestType, Moves(r, from, rec), from # "assign", rec.pc \notin {"new"},
         rec.dataset = request[r].dataset, rec.company = request[r].company,
         UNCHANGED <<mesh, version>>,
         rec.pc \notin {"leave", "done"} => version[rec.dataset] # 0,
         Behind(rec, mesh), Undisturbed(rec, sharedCache', mesh)
  PROVE  SInv'
<1>t. Typed
  BY DEF LInv
<1>1. /\ request[r].pc = from /\ request'[r] = rec
      /\ \A q \in Requests : q # r => request'[q] = request[q]
      /\ r \in Inside /\ Inside' \subseteq Inside /\ Inside \subseteq Requests
  BY <1>t, Moved DEF Inside
<1>2. ByItself'
  BY <1>1 DEF SInv, ByItself, Sole
<1>3. Ingested'
  BY <1>1 DEF SInv, Ingested
<1>4. Prefix'
  <2>1. \A q \in Requests : Behind(request'[q], mesh)
    BY <1>1 DEF SInv, Prefix
  <2> QED
    BY <2>1 DEF Prefix, Behind
<1>5. Attended'
  <2> SUFFICES ASSUME NEW m \in Requests, Half(mesh[m])
               PROVE  \E q \in Requests : request'[q].pc = "assign" /\ request'[q].mesh = m
    BY DEF Attended, Half
  <2>1. PICK q \in Requests : request[q].pc = "assign" /\ request[q].mesh = m
    BY DEF SInv, Attended
  <2> QED
    BY <1>1, <2>1
<1>6. Serene'
  <2> SUFFICES ASSUME NEW q \in Requests PROVE Undisturbed(request'[q], sharedCache', mesh)
    BY DEF Serene, Undisturbed
  <2>1. CASE q = r
    BY <1>1, <2>1
  <2>2. CASE q # r
    <3>1. request'[q] = request[q] /\ Undisturbed(request[q], sharedCache, mesh)
      BY <1>1, <2>2 DEF SInv, Serene
    <3>2. Sole(q) => q \notin Inside
      BY <1>1, <2>2 DEF SInv, ByItself
    <3> QED
      BY <3>1, <3>2 DEF Undisturbed, Sole, Inside
  <2> QED
    BY <2>1, <2>2
<1> QED
  BY <1>2, <1>3, <1>4, <1>5, <1>6 DEF SInv

\* The changes of its own record that such a step makes.
LEMMA Changed ==
  ASSUME NEW rec \in RequestType, NEW pc \in Steps
  PROVE  LET new == [rec EXCEPT !.pc = pc] IN
           /\ new \in RequestType /\ new.pc = pc /\ new.dataset = rec.dataset
           /\ new.mesh = rec.mesh /\ new.company = rec.company /\ new.outcome = rec.outcome
BY DEF RequestType

\* Looking up, re-inserting, trimming and loading go to a step that finds what it needs.
LEMMA SoleGoes ==
  ASSUME LInv, SInv, NEW r \in Requests,
         \/ Lookup(r) \/ Reinsert(r) \/ Insert(r) \/ Trim(r) \/ Ensure(r) \/ Leave(r)
  PROVE  SInv'
<1>t. request[r] \in RequestType /\ request[r].dataset \in Datasets
  BY DEF LInv, Typed, RequestType
<1>1. ASSUME NEW from \in Steps \ {"new", "done", "assign"},
             NEW to \in Steps \ {"new", "assign"}, Goes(r, from, to), UNCHANGED <<mesh, version>>,
             to \notin {"leave", "done"} => version[request[r].dataset] # 0,
             to = "pop" => \E i \in DOMAIN sharedCache' : sharedCache'[i].dataset = request[r].dataset,
             to = "evict" => sharedCache' # <<>>,
             to = "read" => MeshOf(r)["cells"] # 0,
             to # "leave", to = "done" => from = "leave"
      PROVE  SInv'
  <2> DEFINE rec == [request[r] EXCEPT !.pc = to]
  <2>1. /\ rec \in RequestType /\ rec.pc = to /\ rec.dataset = request[r].dataset
        /\ rec.mesh = request[r].mesh /\ rec.company = request[r].company
        /\ rec.outcome = request[r].outcome
    BY <1>t, Changed
  <2>2. Moves(r, from, rec) /\ request[r].pc = from
    BY <1>1 DEF Goes, Moves
  <2> HIDE DEF rec
  <2>3. Undisturbed(rec, sharedCache', mesh)
    BY <1>1, <2>1, <2>2 DEF Undisturbed, SInv, Serene, MeshOf
  <2>4. Behind(rec, mesh)
    BY <2>1 DEF Behind
  <2> QED
    BY <1>1, <2>1, <2>2, <2>3, <2>4, SoleMoves
<1>2. CASE Lookup(r)
  BY <1>1, <1>2 DEF Lookup, Cached, Steps
<1>i. request[r].pc \notin {"new", "lookup", "leave", "done"} => version[request[r].dataset] # 0
  BY DEF SInv, Ingested
<1>3. CASE Reinsert(r)
  <2>1. Goes(r, "reinsert", "ensure") /\ request[r].pc = "reinsert" /\ UNCHANGED <<mesh, version>>
    BY <1>3 DEF Reinsert, Goes, Moves
  <2> QED
    BY <1>1, <1>i, <2>1 DEF Steps
<1>4. CASE Insert(r)
  <2>1. Goes(r, "insert", "trim") /\ request[r].pc = "insert" /\ UNCHANGED <<mesh, version>>
    BY <1>4 DEF Insert, Goes, Moves
  <2> QED
    BY <1>1, <1>i, <2>1 DEF Steps
<1>5. CASE Trim(r)
  <2>1. /\ request[r].pc = "trim" /\ UNCHANGED <<sharedCache, mesh, version>>
        /\ Goes(r, "trim", IF Len(sharedCache) > CacheLimit THEN "evict" ELSE "ensure")
    BY <1>5 DEF Trim, Goes, Moves
  <2>2. CASE Len(sharedCache) > CacheLimit
    <3>1. sharedCache # <<>> /\ Goes(r, "trim", "evict")
      BY <2>1, <2>2
    <3> QED
      BY <1>1, <1>i, <2>1, <3>1 DEF Steps
  <2>3. CASE ~(Len(sharedCache) > CacheLimit)
    BY <1>1, <1>i, <2>1, <2>3 DEF Steps
  <2> QED
    BY <2>2, <2>3
<1>6. CASE Ensure(r)
  <2>1. /\ request[r].pc = "ensure" /\ UNCHANGED <<sharedCache, mesh, version>>
        /\ Goes(r, "ensure", IF MeshOf(r).cells # 0 THEN "read" ELSE "fetch")
    BY <1>6 DEF Ensure, Goes, Moves
  <2>2. CASE MeshOf(r).cells # 0
    BY <1>1, <1>i, <2>1, <2>2 DEF Steps
  <2>3. CASE MeshOf(r).cells = 0
    BY <1>1, <1>i, <2>1, <2>3 DEF Steps
  <2> QED
    BY <2>2, <2>3
<1>7. CASE Leave(r)
  BY <1>1, <1>7 DEF Leave, Steps
<1> QED
  BY <1>2, <1>3, <1>4, <1>5, <1>6, <1>7

\* A request that nobody overlaps meets no KeyError and no half loaded mesh.
LEMMA SoleEnds ==
  ASSUME LInv, SInv, NEW r \in Requests, Pop(r) \/ Evict(r) \/ Read(r) \/ QueryFails(r)
  PROVE  SInv'
<1>t. request[r] \in RequestType /\ request[r].dataset \in Datasets /\ request[r].mesh \in Requests
  BY DEF LInv, Typed, RequestType
<1>i. request[r].pc \notin {"new", "lookup", "leave", "done"} => version[request[r].dataset] # 0
  BY DEF SInv, Ingested
<1>u. Undisturbed(request[r], sharedCache, mesh)
  BY DEF SInv, Serene
<1>1. ASSUME NEW from \in Steps \ {"new", "done", "assign"}, NEW rec \in RequestType,
             Moves(r, from, rec), rec.pc = "leave", UNCHANGED <<mesh, version>>,
             rec.dataset = request[r].dataset, rec.company = request[r].company,
             Sole(r) => rec.outcome \in {"answered", "failed"}
      PROVE  SInv'
  BY <1>1, SoleMoves DEF Behind, Undisturbed, Sole
<1>2. ASSUME NEW from \in Steps \ {"new", "done", "assign"}, NEW o \in Outcomes, Ends(r, from, o),
             UNCHANGED <<mesh, version>>, Sole(r) => o \in {"answered", "failed"}
      PROVE  SInv'
  <2> DEFINE rec == [request[r] EXCEPT !.pc = "leave", !.outcome = o]
  <2>1. /\ rec \in RequestType /\ rec.pc = "leave" /\ rec.dataset = request[r].dataset
        /\ rec.company = request[r].company /\ rec.outcome = o
    BY <1>t DEF RequestType, Steps
  <2>2. Moves(r, from, rec)
    BY <1>2 DEF Ends
  <2> HIDE DEF rec
  <2> QED
    BY <1>1, <1>2, <2>1, <2>2
<1>3. CASE Pop(r)
  <2>1. CASE ~Cached(request[r].dataset) /\ Ends(r, "pop", "keyError")
    <3>1. ~Sole(r)
      BY <1>u, <2>1 DEF Ends, Moves, Undisturbed, Cached, Sole
    <3> QED
      BY <1>2, <1>3, <2>1, <3>1 DEF Pop, Steps, Outcomes
  <2>2. ASSUME NEW i \in DOMAIN sharedCache,
               Moves(r, "pop", [request[r] EXCEPT !.pc = "reinsert", !.mesh = sharedCache[i].mesh])
        PROVE  SInv'
    <3> DEFINE rec == [request[r] EXCEPT !.pc = "reinsert", !.mesh = sharedCache[i].mesh]
    <3>1. sharedCache[i].mesh \in Requests
      <4>1. sharedCache[i] \in Entries
        BY DEF LInv, Typed
      <4> QED
        BY <4>1 DEF Entries
    <3>2. /\ rec \in RequestType /\ rec.pc = "reinsert" /\ rec.dataset = request[r].dataset
          /\ rec.company = request[r].company
      BY <1>t, <3>1 DEF RequestType, Steps
    <3>3. request[r].pc = "pop" /\ UNCHANGED <<mesh, version>>
      BY <1>3, <2>2 DEF Moves, Pop
    <3> HIDE DEF rec
    <3>4. Behind(rec, mesh) /\ Undisturbed(rec, sharedCache', mesh)
      BY <3>2 DEF Behind, Undisturbed
    <3> QED
      BY <1>i, <2>2, <3>2, <3>3, <3>4, SoleMoves DEF Steps, rec
  <2> QED
    BY <1>3, <2>1, <2>2 DEF Pop
<1>4. CASE Evict(r)
  <2>1. CASE sharedCache = <<>>
    <3>1. Ends(r, "evict", "keyError") /\ UNCHANGED <<mesh, version>>
      BY <1>4, <2>1 DEF Evict
    <3>2. ~Sole(r)
      BY <1>u, <2>1, <3>1 DEF Ends, Moves, Undisturbed, Sole
    <3> QED
      BY <1>2, <3>1, <3>2 DEF Steps, Outcomes
  <2>2. CASE sharedCache # <<>>
    <3> DEFINE rec == [request[r] EXCEPT !.pc = "trim"]
    <3>1. /\ rec \in RequestType /\ rec.pc = "trim" /\ rec.dataset = request[r].dataset
          /\ rec.company = request[r].company
      BY <1>t DEF RequestType, Steps
    <3>2. /\ Moves(r, "evict", rec) /\ request[r].pc = "evict" /\ UNCHANGED <<mesh, version>>
      BY <1>4, <2>2 DEF Evict, Goes, Moves
    <3> HIDE DEF rec
    <3>3. Behind(rec, mesh) /\ Undisturbed(rec, sharedCache', mesh)
      BY <3>1 DEF Behind, Undisturbed
    <3> QED
      BY <1>i, <3>1, <3>2, <3>3, SoleMoves DEF Steps
  <2> QED
    BY <2>1, <2>2
<1>5. CASE Read(r)
  <2>1. request[r].pc = "read" /\ UNCHANGED <<mesh, version>>
    BY <1>5 DEF Read, Ends, Moves
  <2>2. CASE \E f \in {"ids", "mins", "maxs"} : MeshOf(r)[f] = 0
    <3>1. Ends(r, "read", "refused")
      BY <1>5, <2>2 DEF Read
    <3>2. ASSUME Sole(r) PROVE FALSE
      <4>1. Half(mesh[request[r].mesh])
        BY <1>u, <2>1, <2>2, <3>2 DEF Half, Undisturbed, Sole, MeshOf, Fields
      <4>2. PICK q \in Requests : request[q].pc = "assign"
        BY <1>t, <4>1 DEF SInv, Attended
      <4>3. q \in Inside /\ r \in Inside
        BY <2>1, <4>2 DEF Inside
      <4> QED
        BY <2>1, <3>2, <4>2, <4>3 DEF SInv, ByItself
    <3> QED
      BY <1>2, <2>1, <3>1, <3>2 DEF Steps, Outcomes
  <2>3. CASE ~\E f \in {"ids", "mins", "maxs"} : MeshOf(r)[f] = 0
    <3> DEFINE rec == [request[r] EXCEPT !.pc = "leave", !.outcome = "answered",
                                         !.used = MeshOf(r).ids]
    <3>1. Moves(r, "read", rec)
      BY <1>5, <2>3 DEF Read
    <3>2. MeshOf(r).ids \in 0..MaxVersion
      BY <1>t DEF LInv, Typed, MeshOf, Fields
    <3>3. /\ rec \in RequestType /\ rec.pc = "leave" /\ rec.dataset = request[r].dataset
          /\ rec.company = request[r].company /\ rec.outcome = "answered"
      BY <1>t, <3>2 DEF RequestType, Steps, Outcomes
    <3> QED
      BY <1>1, <2>1, <3>1, <3>3 DEF Steps
  <2> QED
    BY <2>2, <2>3
<1>6. CASE QueryFails(r)
  BY <1>2, <1>6 DEF QueryFails, Steps, Outcomes
<1> QED
  BY <1>3, <1>4, <1>5, <1>6

\* A request that comes in tells those inside, and is told, that it is not alone.
LEMMA SoleBegins ==
  ASSUME LInv, SInv, NEW r \in Requests, Begin(r)
  PROVE  SInv'
<1>t. /\ request \in [Requests -> RequestType] /\ UNCHANGED <<sharedCache, mesh, version>>
      /\ request[r].pc = "new" /\ r \notin Inside /\ Inside \subseteq Requests
  BY DEF LInv, Typed, Begin, Inside
<1>1. \A q \in Requests :
        /\ request'[q].pc = IF q = r THEN "lookup" ELSE request[q].pc
        /\ request'[q].company = IF q = r THEN Company
                                 ELSE IF q \in Inside THEN "others" ELSE request[q].company
        /\ request'[q].dataset = request[q].dataset /\ request'[q].mesh = request[q].mesh
        /\ request'[q].next = request[q].next /\ request'[q].outcome = request[q].outcome
  <2> TAKE q \in Requests
  <2>1. /\ request[q] \in RequestType
        /\ request'[q] = 
             IF q = r THEN [request[q] EXCEPT !.pc = "lookup", !.company = Company]
             ELSE IF q \in Inside THEN [request[q] EXCEPT !.company = "others"]
             ELSE request[q]
    BY <1>t DEF Begin
  <2> QED
    BY <2>1 DEF RequestType
<1>2. Inside' = Inside \cup {r}
  BY <1>1, <1>t DEF Inside
<1>3. ByItself'
  <2> SUFFICES ASSUME NEW q \in Inside', Sole(q)', NEW p \in Inside' PROVE p = q
    BY DEF ByItself
  <2>1. CASE Inside = {}
    BY <1>2, <2>1
  <2>2. CASE Inside # {}
    BY <1>1, <1>2, <1>t, <2>2 DEF Sole, Company
  <2> QED
    BY <2>1, <2>2
<1>4. Ingested'
  BY <1>1, <1>t DEF SInv, Ingested
<1>5. Prefix'
  BY <1>1, <1>t DEF SInv, Prefix, Behind
<1>6. Attended'
  <2> SUFFICES ASSUME NEW m \in Requests, Half(mesh[m])
               PROVE  \E q \in Requests : request'[q].pc = "assign" /\ request'[q].mesh = m
    BY <1>t DEF Attended, Half
  <2>1. PICK q \in Requests : request[q].pc = "assign" /\ request[q].mesh = m
    BY DEF SInv, Attended
  <2> QED
    BY <1>1, <1>t, <2>1
<1>7. Serene'
  <2> SUFFICES ASSUME NEW q \in Requests PROVE Undisturbed(request'[q], sharedCache', mesh')
    BY DEF Serene, Undisturbed
  <2>1. CASE q = r
    BY <1>1, <2>1 DEF Undisturbed
  <2>2. CASE q \in Inside
    BY <1>1, <1>t, <2>2 DEF Undisturbed
  <2>3. CASE q # r /\ q \notin Inside
    BY <1>1, <1>t, <2>3 DEF SInv, Serene, Undisturbed
  <2> QED
    BY <2>1, <2>2, <2>3
<1> QED
  BY <1>3, <1>4, <1>5, <1>6, <1>7 DEF SInv

\* An assignment sets one field more; the last one leaves the mesh whole.
LEMMA SoleAssigns ==
  ASSUME LInv, SInv, NEW r \in Requests, Assign(r)
  PROVE  SInv'
<1> DEFINE m == request[r].mesh
           n == request[r].next
           v == request[r].fetched
<1>t. /\ Typed /\ request[r] \in RequestType /\ request[r].pc = "assign"
      /\ m \in Requests /\ n \in 1..5 /\ UNCHANGED <<sharedCache, version>>
      /\ mesh \in [Requests -> [Fields -> 0..MaxVersion]]
      /\ mesh' = [mesh EXCEPT ![m][FieldOrder[n]] = v]
  BY DEF LInv, Typed, RequestType, Assign, Goes, Moves
<1>v. v # 0
  BY <1>t DEF LInv, Loading, LoadsCurrent, SInv, Ingested
<1>f. /\ \A k \in 1..5 : FieldOrder[k] \in Fields
      /\ \A f \in Fields : \E k \in 1..5 : FieldOrder[k] = f
      /\ FieldOrder[1] = "cells"
  <2>1. /\ FieldOrder[1] = "cells" /\ FieldOrder[2] = "ids" /\ FieldOrder[3] = "centroids"
        /\ FieldOrder[4] = "mins" /\ FieldOrder[5] = "maxs"
    BY DEF FieldOrder
  <2>2. 1..5 = {1, 2, 3, 4, 5}
    OBVIOUS
  <2> QED
    BY <2>1, <2>2 DEF Fields
<1>m. /\ \A q \in Requests, f \in Fields :
           mesh'[q][f] = IF q = m /\ f = FieldOrder[n] THEN v ELSE mesh[q][f]
      /\ \A q \in Requests, f \in Fields : mesh[q][f] # 0 => mesh'[q][f] # 0
  BY <1>t, <1>v, <1>f
<1> HIDE DEF v
<1>1. PICK rec \in RequestType :
        /\ Moves(r, "assign", rec) /\ rec.dataset = request[r].dataset
        /\ rec.mesh = m /\ rec.company = request[r].company
        /\ \/ n = 5 /\ rec.pc = "read"
           \/ n # 5 /\ rec.pc = "assign" /\ rec.next = n + 1
  <2>1. CASE n = 5
    <3>1. [request[r] EXCEPT !.pc = "read"] \in RequestType
      BY <1>t DEF RequestType, Steps
    <3> QED
      BY <1>t, <2>1, <3>1 DEF Assign, Goes, RequestType
  <2>2. CASE n # 5
    <3>1. n + 1 \in 1..5
      BY <1>t, <2>2
    <3>2. [request[r] EXCEPT !.next = @ + 1] \in RequestType
      BY <1>t, <3>1 DEF RequestType
    <3> QED
      BY <1>t, <2>2, <3>2 DEF Assign, RequestType
  <2> QED
    BY <2>1, <2>2
<1>2. /\ request'[r] = rec /\ r \in Inside /\ Inside' \subseteq Inside /\ Inside \subseteq Requests
      /\ \A q \in Requests : q # r => request'[q] = request[q]
  <2>1. "assign" \in Steps \ {"new", "done"} /\ rec.pc \notin {"new", "done"}
    BY <1>1 DEF Steps
  <2>2. /\ request'[r] = rec /\ Inside' = Inside
        /\ \A q \in Requests : q # r => request'[q] = request[q]
    BY <1>t, <1>1, <2>1, Moved
  <2> QED
    BY <1>t, <2>2 DEF Inside
<1>3. ByItself'
  BY <1>1, <1>2 DEF SInv, ByItself, Sole
<1>4. Ingested'
  BY <1>1, <1>2, <1>t DEF SInv, Ingested
<1>5. \A k \in 1..5 : k <= n => mesh'[m][FieldOrder[k]] # 0
  <2> SUFFICES ASSUME NEW k \in 1..5, k <= n PROVE mesh'[m][FieldOrder[k]] # 0
    OBVIOUS
  <2>1. CASE k = n
    BY <1>m, <1>f, <1>t, <1>v, <2>1
  <2>2. CASE k < n
    <3>1. mesh[m][FieldOrder[k]] # 0
      BY <1>t, <2>2 DEF SInv, Prefix, Behind
    <3> QED
      BY <1>m, <1>f, <1>t, <3>1
  <2> QED
    BY <1>t, <2>1, <2>2
<1>6. Prefix'
  <2> SUFFICES ASSUME NEW q \in Requests PROVE Behind(request'[q], mesh')
    BY DEF Prefix, Behind
  <2>1. CASE q = r
    BY <1>1, <1>2, <1>5, <1>t, <2>1 DEF Behind
  <2>2. CASE q # r
    <3>1. Behind(request[q], mesh) /\ request[q].mesh \in Requests
      BY DEF SInv, Prefix, LInv, Typed, RequestType
    <3> QED
      BY <1>2, <1>m, <1>f, <2>2, <3>1 DEF Behind
  <2> QED
    BY <2>1, <2>2
<1>7. Attended'
  <2> SUFFICES ASSUME NEW q \in Requests, Half(mesh'[q])
               PROVE  \E p \in Requests : request'[p].pc = "assign" /\ request'[p].mesh = q
    BY DEF Attended, Half
  <2>1. CASE q = m
    <3>1. n # 5
      <4> SUFFICES ASSUME n = 5 PROVE FALSE
        OBVIOUS
      <4>1. \A k \in 1..5 : mesh'[m][FieldOrder[k]] # 0
        BY <1>5
      <4> QED
        BY <1>f, <2>1, <4>1 DEF Half
    <3> QED
      BY <1>1, <1>2, <2>1, <3>1
  <2>2. CASE q # m
    <3>1. Half(mesh[q])
      BY <1>m, <2>2 DEF Half, Fields
    <3>2. PICK p \in Requests : request[p].pc = "assign" /\ request[p].mesh = q
      BY <3>1 DEF SInv, Attended
    <3> QED
      BY <1>2, <2>2, <3>2
  <2> QED
    BY <2>1, <2>2
<1>8. Serene'
  <2> SUFFICES ASSUME NEW q \in Requests PROVE Undisturbed(request'[q], sharedCache', mesh')
    BY DEF Serene, Undisturbed
  <2>1. CASE q = r
    <3>1. mesh'[m]["cells"] # 0
      BY <1>5, <1>f, <1>t
    <3> QED
      BY <1>1, <1>2, <2>1, <3>1 DEF Undisturbed
  <2>2. CASE q # r
    <3>1. request'[q] = request[q] /\ Undisturbed(request[q], sharedCache, mesh)
      BY <1>2, <2>2 DEF SInv, Serene
    <3>2. Sole(q) => q \notin Inside
      BY <1>2, <2>2 DEF SInv, ByItself
    <3> QED
      BY <3>1, <3>2 DEF Undisturbed, Sole, Inside
  <2> QED
    BY <2>1, <2>2
<1> QED
  BY <1>3, <1>4, <1>6, <1>7, <1>8 DEF SInv

LEMMA SoleFetches ==
  ASSUME LInv, SInv, NEW r \in Requests, Fetch(r)
  PROVE  SInv'
<1> DEFINE w == version[request[r].dataset]
           rec == [request[r] EXCEPT !.pc = "assign", !.next = 1, !.fetched = w]
<1>1. request[r] \in RequestType /\ w \in 0..MaxVersion
  BY DEF LInv, Typed, RequestType
<1>2. /\ Moves(r, "fetch", rec) /\ UNCHANGED <<sharedCache, mesh, version>> /\ request[r].pc = "fetch"
  BY DEF Fetch, Moves
<1> HIDE DEF w
<1>3. /\ rec \in RequestType /\ rec.pc = "assign" /\ rec.next = 1
      /\ rec.dataset = request[r].dataset /\ rec.company = request[r].company
  <2>1. "assign" \in Steps /\ 1 \in 1..5
    BY DEF Steps
  <2> QED
    BY <1>1, <2>1 DEF RequestType
<1>4. version[request[r].dataset] # 0
  BY <1>2 DEF SInv, Ingested
<1> HIDE DEF rec
<1>5. Behind(rec, mesh) /\ Undisturbed(rec, sharedCache', mesh)
  BY <1>3 DEF Behind, Undisturbed
<1> QED
  BY <1>2, <1>3, <1>4, <1>5, SoleMoves DEF Steps

LEMMA SoleIngests ==
  ASSUME LInv, SInv, IngestStep
  PROVE  SInv'
<1>1. UNCHANGED <<sharedCache, mesh, request>>
  BY DEF IngestStep, IngestEnters, IngestLeaves, IngestReplaces
<1>2. \A d \in Datasets : version[d] # 0 => version'[d] # 0
  <2>1. version \in [Datasets -> 0..MaxVersion]
    BY DEF LInv, Typed
  <2>2. ASSUME NEW d \in Datasets, IngestReplaces(d)
        PROVE  \A e \in Datasets : version[e] # 0 => version'[e] # 0
    BY <2>1, <2>2 DEF IngestReplaces
  <2> QED
    BY <2>2 DEF IngestStep, IngestEnters, IngestLeaves
<1>3. \A r \in Requests : request[r].dataset \in Datasets
  BY DEF LInv, Typed, RequestType
<1>4. ByItself' /\ Prefix' /\ Attended' /\ Serene'
  BY <1>1 DEF SInv, ByItself, Sole, Inside, Prefix, Behind, Attended, Half, Serene, Undisturbed
<1>5. Ingested'
  BY <1>1, <1>2, <1>3 DEF SInv, Ingested
<1> QED
  BY <1>4, <1>5 DEF SInv

-----------------------------------------------------------------------------
(* The keys of the cache.                                                  *)

\* The OrderedDict has each key once.
Distinct(cache) == \A i, k \in DOMAIN cache : cache[i].dataset = cache[k].dataset => i = k

LEMMA DistinctWith ==
  ASSUME Typed, Distinct(sharedCache), NEW d \in Datasets, NEW m \in Requests
  PROVE  Distinct(With(d, m))
<1> DEFINE entry == [dataset |-> d, mesh |-> m]
<1>0. sharedCache \in Seq(Entries) /\ entry \in Entries /\ entry.dataset = d
  BY DEF Typed, Entries
<1> HIDE DEF entry
<1>1. CASE Cached(d)
  <2> DEFINE new == [i \in DOMAIN sharedCache |->
                       IF sharedCache[i].dataset = d THEN entry ELSE sharedCache[i]]
  <2>1. With(d, m) = new
    BY <1>1 DEF With, entry
  <2>2. DOMAIN new = DOMAIN sharedCache
        /\ \A i \in DOMAIN new : new[i].dataset = sharedCache[i].dataset
    BY <1>0
  <2> HIDE DEF new
  <2> QED
    BY <2>1, <2>2 DEF Distinct
<1>2. CASE ~Cached(d)
  <2>1. With(d, m) = Append(sharedCache, entry)
    BY <1>2 DEF With, entry
  <2>2. /\ DOMAIN sharedCache = 1..Len(sharedCache) /\ Len(sharedCache) \in Nat
        /\ DOMAIN Append(sharedCache, entry) = 1..(Len(sharedCache) + 1)
        /\ \A i \in 1..Len(sharedCache) : Append(sharedCache, entry)[i] = sharedCache[i]
        /\ Append(sharedCache, entry)[Len(sharedCache) + 1] = entry
    BY <1>0
  <2>3. \A i \in 1..Len(sharedCache) : sharedCache[i].dataset # d
    BY <1>2, <2>2 DEF Cached
  <2>4. \A i \in 1..(Len(sharedCache) + 1) : i \in 1..Len(sharedCache) \/ i = Len(sharedCache) + 1
    BY <2>2
  <2> QED
    BY <1>0, <2>1, <2>2, <2>3, <2>4 DEF Distinct
<1> QED
  BY <1>1, <1>2

LEMMA DistinctRest ==
  ASSUME Typed, Distinct(sharedCache), NEW i \in DOMAIN sharedCache
  PROVE  Distinct(SubSeq(sharedCache, 1, i - 1) \o SubSeq(sharedCache, i + 1, Len(sharedCache)))
<1> DEFINE n == Len(sharedCache)
           a == SubSeq(sharedCache, 1, i - 1)
           b == SubSeq(sharedCache, i + 1, n)
<1>0. /\ sharedCache \in Seq(Entries) /\ DOMAIN sharedCache = 1..n
      /\ i \in 1..n /\ n \in Nat
  BY DEF Typed
<1>1. /\ a \in Seq(Entries) /\ Len(a) = i - 1
      /\ \A k \in 1..(i - 1) : a[k] = sharedCache[k]
  BY <1>0
<1>2. /\ b \in Seq(Entries) /\ Len(b) = n - i
      /\ \A k \in 1..(n - i) : b[k] = sharedCache[k + i]
  BY <1>0
<1> HIDE DEF a, b
<1>3. /\ a \o b \in Seq(Entries) /\ Len(a \o b) = Len(a) + Len(b)
      /\ \A k \in 1..(Len(a) + Len(b)) : (a \o b)[k] = IF k <= Len(a) THEN a[k] ELSE b[k - Len(a)]
  BY <1>1, <1>2, ConcatProperties
<1> HIDE DEF n
<1>4. DOMAIN (a \o b) = 1..(n - 1)
  BY <1>0, <1>1, <1>2, <1>3, LenProperties
<1> DEFINE old(k) == IF k < i THEN k ELSE k + 1
<1>5. \A k \in 1..(n - 1) : (a \o b)[k] = sharedCache[old(k)]
  <2> TAKE k \in 1..(n - 1)
  <2>1. (a \o b)[k] = IF k <= i - 1 THEN a[k] ELSE b[k - (i - 1)]
    BY <1>0, <1>1, <1>2, <1>3
  <2>2. CASE k < i
    <3>1. k \in 1..(i - 1)
      BY <1>0, <2>2
    <3> QED
      BY <1>0, <1>1, <2>1, <2>2, <3>1
  <2>3. CASE ~(k < i)
    <3>1. k - (i - 1) \in 1..(n - i) /\ (k - (i - 1)) + i = k + 1
      BY <1>0, <2>3
    <3>2. b[k - (i - 1)] = sharedCache[k + 1]
      BY <1>2, <3>1
    <3> QED
      BY <1>0, <2>1, <2>3, <3>2
  <2> QED
    BY <2>2, <2>3
<1>6. \A k \in 1..(n - 1) : old(k) \in 1..n
  BY <1>0
<1>7. \A k, l \in 1..(n - 1) : old(k) = old(l) => k = l
  BY <1>0
<1> HIDE DEF old
<1>8. Distinct(a \o b)
  <2> SUFFICES ASSUME NEW k \in 1..(n - 1), NEW l \in 1..(n - 1),
                      (a \o b)[k].dataset = (a \o b)[l].dataset
               PROVE  k = l
    BY <1>4 DEF Distinct
  <2>1. sharedCache[old(k)].dataset = sharedCache[old(l)].dataset
    BY <1>5
  <2>2. old(k) = old(l)
    BY <1>0, <1>6, <2>1 DEF Distinct
  <2> QED
    BY <1>7, <2>2
<1> QED
  BY <1>8 DEF a, b, n

LEMMA DistinctTail ==
  ASSUME Typed, Distinct(sharedCache), sharedCache # <<>>
  PROVE  Distinct(Tail(sharedCache))
<1>0. /\ sharedCache \in Seq(Entries) /\ Len(sharedCache) \in Nat /\ Len(sharedCache) > 0
      /\ DOMAIN sharedCache = 1..Len(sharedCache)
  BY DEF Typed
<1>1. /\ DOMAIN Tail(sharedCache) = 1..(Len(sharedCache) - 1)
      /\ \A k \in 1..(Len(sharedCache) - 1) : Tail(sharedCache)[k] = sharedCache[k + 1]
  BY <1>0
<1>2. \A k \in 1..(Len(sharedCache) - 1) : k + 1 \in 1..Len(sharedCache)
  BY <1>0
<1> QED
  BY <1>0, <1>1, <1>2 DEF Distinct

LEMMA StepDistinct ==
  ASSUME LInv, Distinct(sharedCache), [Next]_vars
  PROVE  Distinct(sharedCache')
<1>t. Typed
  BY DEF LInv
<1>1. CASE UNCHANGED sharedCache
  BY <1>1
<1>2. ASSUME NEW r \in Requests, Pop(r) \/ Reinsert(r) \/ Insert(r) \/ Evict(r)
      PROVE  Distinct(sharedCache')
  <2>1. request[r].dataset \in Datasets /\ request[r].mesh \in Requests
    BY <1>t DEF Typed, RequestType
  <2>2. CASE Pop(r)
    <3>1. ASSUME NEW i \in DOMAIN sharedCache,
                 sharedCache' = SubSeq(sharedCache, 1, i - 1)
                                \o SubSeq(sharedCache, i + 1, Len(sharedCache))
          PROVE  Distinct(sharedCache')
      BY <1>t, <3>1, DistinctRest
    <3> QED
      BY <1>1, <2>2, <3>1 DEF Pop
  <2>3. CASE Reinsert(r)
    BY <1>t, <2>1, <2>3, DistinctWith DEF Reinsert
  <2>4. CASE Insert(r)
    BY <1>t, <2>1, <2>4, DistinctWith DEF Insert
  <2>5. CASE Evict(r)
    BY <1>t, <1>1, <2>5, DistinctTail DEF Evict
  <2> QED
    BY <1>2, <2>2, <2>3, <2>4, <2>5
<1>3. ASSUME NEW r \in Requests,
             \/ Begin(r) \/ Lookup(r) \/ Trim(r) \/ Ensure(r) \/ Fetch(r) \/ Assign(r)
             \/ Read(r) \/ QueryFails(r) \/ Leave(r)
      PROVE  UNCHANGED sharedCache
  BY <1>3 DEF Begin, Lookup, Trim, Ensure, Fetch, Assign, Read, QueryFails, Leave
<1>4. CASE IngestStep
  BY <1>1, <1>4 DEF IngestStep, IngestEnters, IngestLeaves, IngestReplaces
<1>5. CASE UNCHANGED vars
  BY <1>1, <1>5 DEF vars
<1> QED
  BY <1>1, <1>2, <1>3, <1>4, <1>5 DEF Next, RequestStep

-----------------------------------------------------------------------------
(* The theorems on requests that are alone, and on the types.              *)

LEMMA StepSole ==
  ASSUME LInv, SInv, [Next]_vars
  PROVE  SInv'
<1>1. CASE IngestStep
  BY <1>1, SoleIngests
<1>2. ASSUME NEW r \in Requests, RequestStep(r) PROVE SInv'
  BY <1>2, SoleBegins, SoleGoes, SoleEnds, SoleFetches, SoleAssigns DEF RequestStep
<1>3. CASE UNCHANGED vars
  BY <1>3 DEF vars, SInv, ByItself, Sole, Inside, Ingested, Prefix, Behind, Attended, Half,
              Serene, Undisturbed
<1> QED
  BY <1>1, <1>2, <1>3 DEF Next

\* A request that nobody overlapped is answered, or one of its own queries failed: whatever races
\* came before, they leave no half loaded mesh and no cache that makes pop or popitem raise
\* (mesh_runtime.py:38-47, ensure_cells; engine.py of fluid_interpolation).
THEOREM AloneIsAnswered == Spec => []SoleRequestIsAnswered
<1>1. Init => LInv /\ SInv
  BY InitEstablishes, InitSole
<1>2. LInv /\ SInv /\ [Next]_vars => LInv' /\ SInv'
  BY StepKeeps, StepSole
<1>3. SInv => SoleRequestIsAnswered
  BY DEF SInv, Serene, Undisturbed, SoleRequestIsAnswered
<1> QED
  BY <1>1, <1>2, <1>3, PTL DEF Spec

\* The gate, the cache with each key once (mesh_runtime.py:20), the meshes and the requests keep
\* their types.
THEOREM TypeCorrect == Spec => []TypeOK
<1>1. Init => LInv /\ Distinct(sharedCache)
  BY InitEstablishes DEF Init, Distinct
<1>2. LInv /\ Distinct(sharedCache) /\ [Next]_vars => LInv' /\ Distinct(sharedCache)'
  BY StepKeeps, StepDistinct DEF Distinct
<1>3. LInv /\ Distinct(sharedCache) => TypeOK
  <2> SUFFICES ASSUME LInv, Distinct(sharedCache) PROVE TypeOK
    OBVIOUS
  <2>1. Typed /\ DOMAIN sharedCache = 1..Len(sharedCache) /\ Len(sharedCache) \in Nat
    BY DEF LInv, Typed
  <2>2. ASSUME NEW i \in DOMAIN sharedCache, NEW k \in 1..(i - 1)
        PROVE  sharedCache[k].dataset # sharedCache[i].dataset
    BY <2>1 DEF Distinct
  <2>3. \A i \in DOMAIN sharedCache : sharedCache[i] \in [dataset : Datasets, mesh : Requests]
    <3>1. \A i \in DOMAIN sharedCache : sharedCache[i] \in Entries
      BY <2>1 DEF Typed
    <3> QED
      BY <3>1 DEF Entries
  <2> QED
    BY <2>1, <2>2, <2>3 DEF TypeOK, Typed
<1> QED
  BY <1>1, <1>2, <1>3, PTL DEF Spec

=============================================================================
