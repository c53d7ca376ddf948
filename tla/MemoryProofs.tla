----------------------------- MODULE MemoryProofs ----------------------------
(***************************************************************************)
(* Proofs about what keeps the stored memory in order: the reconcile walk  *)
(* over facts that are still being written (Reconcile), the measured       *)
(* budget and the answers of the reranker (Rerank), the sleep pass         *)
(* (Consolidation) and the passes that cut turns into episodes (Episodes), *)
(* the rules the corpus holds (Corpus) and the documents it is sent        *)
(* (DocIngest); and, with ChangeProofs, what the run of all these checks.  *)
(***************************************************************************)
EXTENDS MCMemory, ChangeProofs, FiniteSetTheorems, WellFoundedInduction, TLAPS

-----------------------------------------------------------------------------
(* Reconcile.  The holder of the lock is the one walker under way.  Its    *)
(* cursor is the committed one; what it has read and handled since lies    *)
(* below that, newest first and without a gap in the facts that were there *)
(* when the walk began.                                                    *)
WalkType ==
  [stage : {"out", "page", "facts", "commit"}, page : SUBSET Places,
   cursor : Places \cup {Top}, done : SUBSET Places,
   write : SUBSET (Places \X {"closed", "expired"}), tries : Nat]

ReconcileTypes ==
  /\ axis \in [Places -> [value : Values, is : {"none", "live", "closed", "expired"}]]
  /\ mark \in [cursor : Places \cup {Top}, scanned : Nat, finished : BOOLEAN]
  /\ walk \in [Walkers -> WalkType]
  /\ scope \in SUBSET Places /\ covered \in SUBSET Places
  /\ \A p \in scope : axis[p].is # "none"

InScope == scope \cap LivePlaces

(* A pair of facts of which neither is closed yet.                         *)
Unsettled(p, q) == q < p /\ p \in InScope /\ q \in InScope

WalkSound(r) ==
  /\ r.stage \in {"out", "page"} => r.page = {} /\ r.done = {} /\ r.write = {}
  /\ r.stage = "facts" => r.page # {} /\ r.write = {}
  /\ r.stage = "commit" => r.done # {}
  /\ \A g \in r.page : g < r.cursor
  /\ \A d \in r.done : d < r.cursor /\ \A g \in r.page : g < d
  /\ \A g \in r.page \cup r.done : \A p \in InScope :
       g <= p /\ p < r.cursor => p \in r.page \cup r.done
  /\ \A d \in r.done, q \in Places : Unsettled(d, q) =>
       \E e \in r.write : e[1] \in {d, q}

OneWalker ==
  \A w \in Walkers :
    /\ walk[w].stage # "out" => walkLock = w
    /\ walk[w].stage # "out" => walk[w].cursor = mark.cursor /\ ~mark.finished

Durable ==
  /\ \A p \in InScope : p >= mark.cursor => p \in covered
  /\ \A p \in covered : p >= mark.cursor
  /\ mark.scanned = Cardinality(covered)
  /\ mark.finished => InScope \subseteq covered
  /\ \A p \in covered, q \in Places : ~Unsettled(p, q)

ReconcileInv ==
  ReconcileTypes /\ OneWalker /\ Durable /\ \A w \in Walkers : WalkSound(walk[w])

LEMMA PlaceFacts ==
  /\ Top \in Nat /\ Cardinality(Places) \in Nat /\ IsFiniteSet(Places)
  /\ \A p \in Places : p \in Nat /\ p < Top
  <1>1. Cardinality(Places) \in Nat /\ Places = 1..Cardinality(Places)
    BY ReconcileBounds
  <1>2. PICK n \in Nat : n = Cardinality(Places) /\ Places = 1..n
    BY <1>1
  <1>3. IsFiniteSet(1..n)
    BY <1>2, FS_Interval
  <1>4. \A p \in 1..n : p \in Nat /\ p < 1 + n
    BY <1>2
  <1>5. Top = 1 + n
    BY <1>2 DEF Top
  <1>6. ASSUME NEW p \in Places PROVE p \in Nat /\ p < Top
    <2>1. p \in 1..n
      BY <1>2
    <2> QED
      BY <1>4, <1>5, <2>1
  <1>7. Top \in Nat
    <2>1. n \in Nat
      OBVIOUS
    <2> QED
      BY <1>5, <2>1
  <1> QED
    BY <1>1, <1>2, <1>3, <1>6, <1>7

LEMMA LeastExists ==
  ASSUME NEW S \in SUBSET Nat, S # {} PROVE \E x \in S : \A y \in S : x <= y
  <1> DEFINE Less == OpToRel(<, Nat)
  <1>1. IsWellFoundedOn(Less, Nat)
    BY NatLessThanWellFounded DEF OpToRel
  <1>2. Less = {ss \in Nat \X Nat : ss[1] < ss[2]}
    BY DEF OpToRel
  <1>3. PICK x \in S : \A y \in S : ~(<<y, x>> \in Less)
    <2> HIDE DEF Less
    <2> QED
      BY <1>1, WFMin
  <1> HIDE DEF Less
  <1>4. ASSUME NEW y \in S PROVE x <= y
    <2>1. x \in Nat /\ y \in Nat /\ ~(<<y, x>> \in Less)
      BY <1>3
    <2>2. ~(y < x)
      BY <1>2, <2>1
    <2> QED
      BY <2>1, <2>2
  <1> QED
    BY <1>4

LEMMA LowestOf ==
  ASSUME NEW S \in SUBSET Places, S # {}
  PROVE  Lowest(S) \in S /\ \A q \in S : Lowest(S) <= q
  <1>1. S \subseteq Nat
    BY PlaceFacts
  <1>2. \E p \in S : \A q \in S : p <= q
    BY <1>1, LeastExists
  <1> QED
    BY <1>2 DEF Lowest

LEMMA HighestOf ==
  ASSUME NEW S \in SUBSET Places, S # {}
  PROVE  Highest(S) \in S /\ \A q \in S : q <= Highest(S)
  <1>1. PICK n \in Nat : n = Top
    BY PlaceFacts
  <1>2. \A p \in S : p \in Nat /\ p < n
    BY <1>1, PlaceFacts
  <1>3. PICK R : R = {n - p : p \in S}
    OBVIOUS
  <1>4. R \subseteq Nat /\ R # {}
    <2>1. \A p \in S : n - p \in Nat
      BY <1>1, <1>2
    <2> QED
      BY <1>3, <2>1
  <1>6. PICK x \in R : \A y \in R : x <= y
    BY <1>4, LeastExists
  <1>7. PICK p \in S : x = n - p
    BY <1>3
  <1>8. \A q \in S : q <= p
    <2> SUFFICES ASSUME NEW q \in S PROVE q <= p
      OBVIOUS
    <2>1. n - q \in R
      BY <1>3
    <2>2. n - p <= n - q
      BY <1>6, <1>7, <2>1
    <2> QED
      BY <1>1, <1>2, <2>2
  <1> QED
    BY <1>8 DEF Highest

LEMMA WalkFields ==
  ASSUME NEW r \in WalkType
  PROVE  /\ r.stage \in {"out", "page", "facts", "commit"} /\ r.page \in SUBSET Places
         /\ r.cursor \in Places \cup {Top} /\ r.cursor \in Nat /\ r.done \in SUBSET Places
         /\ r.write \in SUBSET (Places \X {"closed", "expired"}) /\ r.tries \in Nat
  BY PlaceFacts DEF WalkType

(* Facts in scope are only ever closed, which leaves a walk sound.         *)
LEMMA WalkSoundKept ==
  ASSUME NEW r, WalkSound(r), InScope' \subseteq InScope PROVE WalkSound(r)'
  <1>1. \A p, q \in Places : Unsettled(p, q)' => Unsettled(p, q)
    BY DEF Unsettled
  <1>2. \A d \in r.done, q \in Places : Unsettled(d, q)' => Unsettled(d, q)
    BY DEF Unsettled
  <1> QED
    BY <1>2 DEF WalkSound

LEMMA DurableKept ==
  ASSUME Durable, InScope' \subseteq InScope, UNCHANGED <<mark, covered>> PROVE Durable'
  BY DEF Durable, Unsettled

LEMMA RestIsSound == AtRest \in WalkType /\ AtRest.stage = "out" /\ WalkSound(AtRest)
  <1>1. /\ AtRest.stage = "out" /\ AtRest.page = {} /\ AtRest.cursor = Top /\ AtRest.done = {}
        /\ AtRest.write = {} /\ AtRest.tries = 0
    BY DEF AtRest
  <1>2. AtRest \in WalkType
    BY DEF AtRest, WalkType
  <1> QED
    BY <1>1, <1>2 DEF WalkSound

(* A step of one walker that commits nothing.                              *)
LEMMA MoveKeeps ==
  ASSUME ReconcileInv, NEW w \in Walkers, NEW r \in WalkType, walk[w].stage # "out",
         walk' = [walk EXCEPT ![w] = r], WalkSound(r),
         UNCHANGED <<axis, mark, scope, covered>>,
         \/ r.stage # "out" /\ r.cursor = walk[w].cursor /\ walkLock' = walkLock
         \/ r.stage = "out"
  PROVE  ReconcileInv'
  <1>1. ReconcileTypes /\ \A v \in Walkers : walk'[v] = IF v = w THEN r ELSE walk[v]
    BY DEF ReconcileInv, ReconcileTypes
  <1>2. ReconcileTypes'
    BY <1>1 DEF ReconcileTypes
  <1>3. InScope' = InScope
    BY DEF InScope, LivePlaces
  <1>4. OneWalker'
    BY <1>1 DEF ReconcileInv, OneWalker
  <1>5. Durable'
    BY <1>3, DurableKept DEF ReconcileInv
  <1>6. ASSUME NEW v \in Walkers PROVE WalkSound(walk[v])'
    <2>1. PICK p : p = walk'[v]
      OBVIOUS
    <2>2. WalkSound(p)
      BY <1>1, <2>1 DEF ReconcileInv
    <2>3. WalkSound(p)'
      BY <1>3, <2>2, WalkSoundKept
    <2> QED
      BY <2>1, <2>3
  <1> QED
    BY <1>2, <1>4, <1>5, <1>6 DEF ReconcileInv

LEMMA LeaveKeeps ==
  ASSUME ReconcileInv, NEW w \in Walkers, walk[w].stage # "out", Exit(w),
         UNCHANGED <<axis, mark, scope, covered>>
  PROVE  ReconcileInv'
  BY RestIsSound, MoveKeeps DEF Exit

LEMMA StartKeeps ==
  ASSUME ReconcileInv, NEW w \in Walkers, StartWalk(w) PROVE ReconcileInv'
  <1>1. /\ ReconcileTypes /\ UNCHANGED axis /\ walkLock' = w
        /\ \A v \in Walkers : walk[v].stage = "out"
    BY NobodyIsNoWalker DEF ReconcileInv, StartWalk, OneWalker
  <1>2. PICK r : r = IF mark' = FreshMark /\ scope' = LivePlaces /\ covered' = {}
                       /\ walk' = [walk EXCEPT ![w] = [AtRest EXCEPT !.stage = "page"]]
                     THEN [AtRest EXCEPT !.stage = "page"]
                     ELSE [[AtRest EXCEPT !.stage = "page"] EXCEPT !.cursor = mark.cursor]
    OBVIOUS
  <1>3. /\ walk' = [walk EXCEPT ![w] = r]
        /\ \/ mark' = FreshMark /\ scope' = LivePlaces /\ covered' = {} /\ r.cursor = Top
           \/ UNCHANGED <<mark, scope, covered>> /\ ~mark.finished /\ r.cursor = mark.cursor
        /\ r.stage = "page" /\ r.page = {} /\ r.done = {} /\ r.write = {} /\ r.tries = 0
        /\ r = [stage |-> r.stage, page |-> r.page, cursor |-> r.cursor, done |-> r.done,
                write |-> r.write, tries |-> r.tries]
    BY <1>2 DEF StartWalk, AtRest
  <1>4. r \in WalkType
    BY <1>1, <1>3 DEF WalkType, ReconcileTypes
  <1>5. \A v \in Walkers : walk'[v] = IF v = w THEN r ELSE walk[v]
    BY <1>1, <1>3 DEF ReconcileTypes
  <1>6. FreshMark.cursor = Top /\ FreshMark.scanned = 0 /\ ~FreshMark.finished
        /\ FreshMark \in [cursor : Places \cup {Top}, scanned : Nat, finished : BOOLEAN]
    BY DEF FreshMark
  <1>7. ReconcileTypes'
    <2>1. mark' \in [cursor : Places \cup {Top}, scanned : Nat, finished : BOOLEAN]
      BY <1>1, <1>3, <1>6 DEF ReconcileTypes
    <2>2. /\ scope' \in SUBSET Places /\ covered' \in SUBSET Places
          /\ \A p \in scope' : axis[p].is # "none"
      BY <1>1, <1>3 DEF ReconcileTypes, LivePlaces
    <2>3. walk' \in [Walkers -> WalkType]
      BY <1>1, <1>3, <1>4 DEF ReconcileTypes
    <2> QED
      BY <1>1, <2>1, <2>2, <2>3 DEF ReconcileTypes
  <1>8. OneWalker'
    <2>1. r.cursor = mark'.cursor /\ ~mark'.finished
      BY <1>3, <1>6
    <2> QED
      BY <1>1, <1>5, <2>1 DEF OneWalker
  <1>9. Durable'
    <2>1. CASE mark' = FreshMark /\ scope' = LivePlaces /\ covered' = {}
      <3>1. \A p \in InScope' : ~(p >= mark'.cursor)
        BY <1>6, <2>1, PlaceFacts DEF InScope, LivePlaces
      <3> QED
        BY <1>6, <2>1, <3>1, FS_EmptySet DEF Durable
    <2>2. CASE UNCHANGED <<mark, scope, covered>>
      <3>1. InScope' = InScope
        BY <1>1, <2>2 DEF InScope, LivePlaces
      <3> QED
        BY <2>2, <3>1, DurableKept DEF ReconcileInv
    <2> QED
      BY <1>3, <2>1, <2>2
  <1>10. ASSUME NEW v \in Walkers PROVE WalkSound(walk[v])'
    <2>1. PICK p : p = walk'[v]
      OBVIOUS
    <2>2. /\ p.stage \in {"out", "page"} /\ p.page = {} /\ p.done = {} /\ p.write = {}
      BY <1>1, <1>3, <1>5, <2>1 DEF ReconcileInv, WalkSound
    <2>3. WalkSound(p)'
      BY <2>2 DEF WalkSound
    <2> QED
      BY <2>1, <2>3
  <1> QED
    BY <1>7, <1>8, <1>9, <1>10 DEF ReconcileInv

(* A page is the top of what is live below the cursor.                     *)
LEMMA PageIsTop ==
  ASSUME NEW below \in SUBSET Places, NEW page,
         page = {p \in below : Cardinality({q \in below : q > p}) < ChunkSize}
  PROVE  /\ \A g \in page : \A p \in below : g <= p => p \in page
         /\ page = {} => below = {}
  <1>1. \A p \in below : /\ IsFiniteSet({q \in below : q > p})
                         /\ Cardinality({q \in below : q > p}) \in Nat
    <2> SUFFICES ASSUME NEW p \in below
                 PROVE  /\ IsFiniteSet({q \in below : q > p})
                        /\ Cardinality({q \in below : q > p}) \in Nat
      OBVIOUS
    <2>1. {q \in below : q > p} \subseteq Places
      OBVIOUS
    <2>2. IsFiniteSet({q \in below : q > p})
      BY <2>1, PlaceFacts, FS_Subset
    <2> QED
      BY <2>2, FS_CardinalityType
  <1>2. ASSUME NEW g \in page, NEW p \in below, g <= p PROVE p \in page
    <2>1. g \in below /\ Cardinality({q \in below : q > g}) < ChunkSize
      OBVIOUS
    <2>2. {q \in below : q > p} \subseteq {q \in below : q > g}
      <3>1. \A q \in below : q \in Nat
        BY PlaceFacts
      <3> QED
        BY <1>2, <2>1, <3>1
    <2>3. Cardinality({q \in below : q > p}) <= Cardinality({q \in below : q > g})
      BY <1>1, <2>1, <2>2, FS_Subset
    <2>4. PICK cp, cg : /\ cp = Cardinality({q \in below : q > p})
                        /\ cg = Cardinality({q \in below : q > g})
      OBVIOUS
    <2>5. cp \in Nat /\ cg \in Nat /\ cp <= cg /\ cg < ChunkSize
      BY <1>1, <2>1, <2>3, <2>4
    <2>6. cp < ChunkSize
      BY <2>5, ReconcileBounds
    <2> QED
      BY <2>4, <2>6
  <1>3. ASSUME below # {} PROVE page # {}
    <2>1. PICK p \in below : \A q \in below : q <= p
      BY <1>3, HighestOf
    <2>2. \A q \in below : ~(q > p)
      BY <2>1, PlaceFacts
    <2>3. {q \in below : q > p} = {}
      BY <2>2
    <2>4. Cardinality({q \in below : q > p}) < ChunkSize
      BY <2>3, FS_EmptySet, ReconcileBounds
    <2> QED
      BY <2>4
  <1> QED
    BY <1>2, <1>3

LEMMA ReadPageKeeps ==
  ASSUME ReconcileInv, NEW w \in Walkers, ReadPage(w) PROVE ReconcileInv'
  <1>1. PICK below : below = {p \in LivePlaces : p < walk[w].cursor}
    OBVIOUS
  <1>2. PICK page : page = {p \in below : Cardinality({q \in below : q > p}) < ChunkSize}
    OBVIOUS
  <1>3. PICK q : q = walk[w]
    OBVIOUS
  <1>4. /\ q.stage = "page" /\ UNCHANGED <<axis, scope, covered>>
        /\ page = {} => mark' = [mark EXCEPT !.finished = TRUE] /\ Exit(w)
        /\ page # {} =>
             /\ walk' = [walk EXCEPT ![w].stage = "facts", ![w].page = page]
             /\ UNCHANGED <<mark, walkLock>>
    BY <1>1, <1>2, <1>3 DEF ReadPage
  <1>5. /\ ReconcileTypes /\ q \in WalkType /\ q.cursor = mark.cursor /\ q.cursor \in Nat
        /\ WalkSound(q) /\ walkLock = w
    BY <1>3, <1>4, WalkFields DEF ReconcileInv, ReconcileTypes, OneWalker
  <1>6. below \in SUBSET Places /\ page \in SUBSET Places
    BY <1>1, <1>2 DEF LivePlaces
  <1>7. /\ \A g \in page : \A p \in below : g <= p => p \in page
        /\ page = {} => below = {}
    BY <1>2, <1>6, PageIsTop
  <1>8. CASE page = {}
    <2>1. /\ mark'.cursor = mark.cursor /\ mark'.scanned = mark.scanned /\ mark'.finished
          /\ mark' \in [cursor : Places \cup {Top}, scanned : Nat, finished : BOOLEAN]
      BY <1>4, <1>5, <1>8 DEF ReconcileTypes
    <2>2. walk' = [walk EXCEPT ![w] = AtRest]
      BY <1>4, <1>8 DEF Exit
    <2>3. \A v \in Walkers : walk'[v].stage = "out" /\ WalkSound(walk'[v])
      BY <1>5, <2>2, RestIsSound DEF ReconcileInv, ReconcileTypes, OneWalker
    <2>4. ReconcileTypes'
      BY <1>4, <1>5, <2>1, <2>2, RestIsSound DEF ReconcileTypes
    <2>5. InScope' = InScope
      BY <1>4 DEF InScope, LivePlaces
    <2>6. \A p \in InScope : p >= mark.cursor
      <3>1. \A p \in InScope : p \in LivePlaces /\ p \notin below /\ p \in Nat
        BY <1>7, <1>8, PlaceFacts DEF InScope, LivePlaces
      <3> QED
        BY <1>1, <1>3, <1>5, <3>1
    <2>7. Durable'
      BY <1>4, <2>1, <2>5, <2>6 DEF ReconcileInv, Durable, Unsettled
    <2>8. ASSUME NEW v \in Walkers PROVE WalkSound(walk[v])'
      <3>1. PICK p : p = walk'[v]
        OBVIOUS
      <3>2. WalkSound(p)'
        BY <2>3, <2>5, <3>1, WalkSoundKept
      <3> QED
        BY <3>1, <3>2
    <2> QED
      BY <2>3, <2>4, <2>7, <2>8 DEF ReconcileInv, OneWalker
  <1>9. CASE page # {}
    <2>1. PICK r : r = [[q EXCEPT !.stage = "facts"] EXCEPT !.page = page]
      OBVIOUS
    <2>2. walk' = [walk EXCEPT ![w] = r]
      BY <1>3, <1>4, <1>5, <1>9, <2>1 DEF ReconcileTypes
    <2>3. /\ r.stage = "facts" /\ r.page = page /\ r.cursor = q.cursor /\ r.done = q.done
          /\ r.write = q.write /\ r \in WalkType
      BY <1>5, <1>6, <2>1 DEF WalkType
    <2>4. q.done = {} /\ q.write = {}
      BY <1>4, <1>5 DEF WalkSound
    <2>5. \A g \in page : g < q.cursor
      BY <1>1, <1>2, <1>3
    <2>6. \A g \in page : \A p \in InScope : g <= p /\ p < q.cursor => p \in page
      BY <1>1, <1>3, <1>7 DEF InScope
    <2>7. WalkSound(r)
      BY <1>9, <2>3, <2>4, <2>5, <2>6 DEF WalkSound
    <2> QED
      BY <1>3, <1>4, <1>5, <1>9, <2>2, <2>3, <2>7, MoveKeeps
  <1> QED
    BY <1>8, <1>9

LEMMA HandleFactKeeps ==
  ASSUME ReconcileInv, NEW w \in Walkers, HandleFact(w) PROVE ReconcileInv'
  <1>1. PICK q : q = walk[w]
    OBVIOUS
  <1>2. PICK p : p = Highest(q.page)
    OBVIOUS
  <1>3. PICK rest : rest = q.page \ {p}
    OBVIOUS
  <1>4. PICK effect : effect = Effect(p)
    OBVIOUS
  <1>0. PICK next : next = IF effect # {} \/ rest = {} THEN "commit" ELSE "facts"
    OBVIOUS
  <1>5. PICK r : r = [q EXCEPT !.page = rest, !.done = q.done \cup {p}, !.write = effect,
                               !.stage = next]
    OBVIOUS
  <1>6. q.stage = "facts" /\ UNCHANGED <<axis, mark, walkLock, scope, covered>>
    BY <1>1 DEF HandleFact
  <1>7. ReconcileTypes /\ q \in WalkType /\ WalkSound(q)
    BY <1>1 DEF ReconcileInv, ReconcileTypes
  <1>8. walk' = [walk EXCEPT ![w] = r]
    BY <1>0, <1>1, <1>2, <1>3, <1>4, <1>5, <1>7 DEF HandleFact, ReconcileTypes
  <1>9. q.page \in SUBSET Places /\ q.done \in SUBSET Places /\ q.page # {}
    BY <1>6, <1>7, WalkFields DEF WalkSound
  <1>10. p \in q.page /\ p \in Places /\ \A g \in q.page : g <= p
    BY <1>2, <1>9, HighestOf
  <1>11. effect \in SUBSET (Places \X {"closed", "expired"})
    BY <1>4, <1>10 DEF Effect, Older, LivePlaces
  <1>12. /\ r.page = rest /\ r.done = q.done \cup {p} /\ r.write = effect
         /\ r.stage = (IF effect # {} \/ rest = {} THEN "commit" ELSE "facts")
         /\ r.cursor = q.cursor /\ r.tries = q.tries
         /\ r = [stage |-> r.stage, page |-> r.page, cursor |-> r.cursor, done |-> r.done,
                 write |-> r.write, tries |-> r.tries]
    BY <1>0, <1>5, <1>7 DEF WalkType
  <1>13. r \in WalkType
    BY <1>3, <1>7, <1>9, <1>10, <1>11, <1>12, WalkFields DEF WalkType
  <1>14. /\ \A g \in q.page \cup q.done : g \in Nat
         /\ rest \subseteq q.page /\ rest \cup (q.done \cup {p}) = q.page \cup q.done
    BY <1>3, <1>9, <1>10, PlaceFacts
  <1>15. WalkSound(r)
    <2>1. \A g \in rest : g < p
      <3> SUFFICES ASSUME NEW g \in rest PROVE g < p
        OBVIOUS
      <3>1. g \in q.page /\ g # p /\ g <= p /\ g \in Nat /\ p \in Nat
        BY <1>3, <1>10, <1>14
      <3> QED
        BY <3>1
    <2>2. \A d \in q.done \cup {p} : d < r.cursor /\ \A g \in rest : g < d
      BY <1>7, <1>10, <1>12, <1>14, <2>1 DEF WalkSound
    <2>3. \A g \in rest \cup (q.done \cup {p}) : \A x \in InScope :
            g <= x /\ x < r.cursor => x \in rest \cup (q.done \cup {p})
      BY <1>7, <1>12, <1>14 DEF WalkSound
    <2>4. ASSUME NEW d \in q.done \cup {p}, NEW x \in Places, Unsettled(d, x)
          PROVE  \E e \in effect : e[1] \in {d, x}
      <3>1. CASE d \in q.done
        <4>1. \E e \in q.write : e[1] \in {d, x}
          BY <1>7, <2>4, <3>1 DEF WalkSound
        <4> QED
          BY <1>6, <1>7, <4>1 DEF WalkSound
      <3>2. CASE d = p
        <4>1. p \in LivePlaces /\ x \in Older(p)
          BY <2>4, <3>2 DEF Unsettled, InScope, Older
        <4>2. CASE \E y \in Older(p) : axis[y].value = axis[p].value
          <5>1. <<p, "expired">> \in effect
            BY <1>4, <4>1, <4>2 DEF Effect
          <5> QED
            BY <3>2, <5>1
        <4>3. CASE ~\E y \in Older(p) : axis[y].value = axis[p].value
          <5>1. <<x, "closed">> \in effect
            BY <1>4, <4>1, <4>3 DEF Effect
          <5> QED
            BY <5>1
        <4> QED
          BY <4>2, <4>3
      <3> QED
        BY <2>4, <3>1, <3>2
    <2>5. r.stage \in {"facts", "commit"} /\ r.done # {}
          /\ (r.stage = "facts" => rest # {} /\ effect = {})
      BY <1>12
    <2>6. \A g \in rest : g < r.cursor
      BY <1>7, <1>12, <1>14 DEF WalkSound
    <2> QED
      BY <1>12, <2>2, <2>3, <2>4, <2>5, <2>6 DEF WalkSound
  <1>16. r.stage # "out"
    BY <1>12
  <1> QED
    BY <1>1, <1>6, <1>8, <1>12, <1>13, <1>15, <1>16, MoveKeeps

LEMMA CutPageKeeps ==
  ASSUME ReconcileInv, NEW w \in Walkers, CutPage(w) PROVE ReconcileInv'
  <1>1. PICK q : q = walk[w]
    OBVIOUS
  <1>2. PICK r : r = [[q EXCEPT !.page = {}] EXCEPT !.stage = "commit"]
    OBVIOUS
  <1>3. q.stage = "facts" /\ q.done # {} /\ UNCHANGED <<axis, mark, walkLock, scope, covered>>
    BY <1>1 DEF CutPage
  <1>4. ReconcileTypes /\ q \in WalkType /\ WalkSound(q) /\ q.done \in SUBSET Places
    BY <1>1, WalkFields DEF ReconcileInv, ReconcileTypes
  <1>5. walk' = [walk EXCEPT ![w] = r]
    BY <1>1, <1>2, <1>4 DEF CutPage, ReconcileTypes
  <1>6. /\ r.page = {} /\ r.done = q.done /\ r.write = q.write /\ r.stage = "commit"
        /\ r.cursor = q.cursor /\ r \in WalkType
    BY <1>2, <1>4 DEF WalkType
  <1>7. ASSUME NEW d \in q.done, NEW x \in InScope, d <= x, x < q.cursor PROVE x \in q.done
    <2>1. x \in q.page \cup q.done
      BY <1>4, <1>7 DEF WalkSound
    <2>2. x \in q.page => x < d
      BY <1>4 DEF WalkSound
    <2>3. x \in Nat /\ d \in Nat
      BY <1>4, PlaceFacts DEF InScope, LivePlaces
    <2> QED
      BY <1>7, <2>1, <2>2, <2>3
  <1>8. WalkSound(r)
    BY <1>3, <1>4, <1>6, <1>7 DEF WalkSound
  <1> QED
    BY <1>1, <1>3, <1>5, <1>6, <1>8, MoveKeeps

LEMMA ContendKeeps ==
  ASSUME ReconcileInv, NEW w \in Walkers, Contend(w) PROVE ReconcileInv'
  <1>1. PICK q : q = walk[w]
    OBVIOUS
  <1>2. q.stage \in {"facts", "commit"} /\ UNCHANGED <<axis, mark, scope, covered>>
    BY <1>1 DEF Contend
  <1>3. ReconcileTypes /\ q \in WalkType /\ q.tries \in Nat
    BY <1>1, WalkFields DEF ReconcileInv, ReconcileTypes
  <1>4. CASE Exit(w)
    BY <1>1, <1>2, <1>4, LeaveKeeps
  <1>5. CASE ~Exit(w)
    <2>1. PICK r : r = [q EXCEPT !.stage = "page", !.page = {}, !.done = {}, !.write = {},
                                 !.tries = q.tries + 1]
      OBVIOUS
    <2>2. walk' = [walk EXCEPT ![w] = r] /\ walkLock' = walkLock
      BY <1>1, <1>3, <1>5, <2>1 DEF Contend, ReconcileTypes
    <2>3. /\ r.stage = "page" /\ r.page = {} /\ r.done = {} /\ r.write = {}
          /\ r.tries = q.tries + 1 /\ r.cursor = q.cursor
          /\ r = [stage |-> r.stage, page |-> r.page, cursor |-> r.cursor, done |-> r.done,
                  write |-> r.write, tries |-> r.tries]
      BY <1>3, <2>1 DEF WalkType
    <2>4. r \in WalkType
      BY <1>3, <2>3, WalkFields DEF WalkType
    <2>5. WalkSound(r)
      BY <2>3 DEF WalkSound
    <2> QED
      BY <1>1, <1>2, <2>2, <2>3, <2>4, <2>5, MoveKeeps
  <1> QED
    BY <1>4, <1>5

(* A commit closes what the page decided, and moves the cursor to the last *)
(* fact handled.                                                           *)
LEMMA CommitKeeps ==
  ASSUME ReconcileInv, NEW w \in Walkers, CommitChunk(w) PROVE ReconcileInv'
  <1>1. PICK q : q = walk[w]
    OBVIOUS
  <1>2. PICK last : last = Lowest(q.done)
    OBVIOUS
  <1>3. PICK new : new = covered \cup q.done
    OBVIOUS
  <1>4. PICK r : r = [stage |-> IF q.page = {} THEN "page" ELSE "facts",
                      page |-> q.page, cursor |-> last, done |-> {}, write |-> {},
                      tries |-> IF q.page = {} THEN 0 ELSE q.tries]
    OBVIOUS
  <1>5. /\ q.stage = "commit" /\ covered' = new /\ UNCHANGED <<walkLock, scope>>
        /\ axis' = [p \in Places |->
             IF \E e \in q.write : e[1] = p
               THEN [axis[p] EXCEPT !.is = Outcome(q.write, p)]
               ELSE axis[p]]
        /\ mark' = [mark EXCEPT !.cursor = last,
                                !.scanned = mark.scanned + Cardinality(q.done)]
    BY <1>1, <1>2, <1>3 DEF CommitChunk
  <1>6. /\ ReconcileTypes /\ q \in WalkType /\ WalkSound(q) /\ q.cursor = mark.cursor
        /\ ~mark.finished /\ walkLock = w
    BY <1>1, <1>5 DEF ReconcileInv, ReconcileTypes, OneWalker
  <1>7. walk' = [walk EXCEPT ![w] = r]
    BY <1>1, <1>2, <1>4, <1>6 DEF CommitChunk, ReconcileTypes
  <1>8. /\ q.page \in SUBSET Places /\ q.done \in SUBSET Places /\ q.done # {}
        /\ q.write \in SUBSET (Places \X {"closed", "expired"}) /\ q.tries \in Nat
        /\ q.cursor \in Nat
    BY <1>5, <1>6, WalkFields DEF WalkSound
  <1>9. last \in q.done /\ last \in Places /\ last \in Nat /\ \A d \in q.done : last <= d
    BY <1>2, <1>8, LowestOf, PlaceFacts
  <1>10. /\ r.cursor = last /\ r.page = q.page /\ r.done = {} /\ r.write = {}
         /\ r.tries = (IF q.page = {} THEN 0 ELSE q.tries)
         /\ r.stage = (IF q.page = {} THEN "page" ELSE "facts")
         /\ r = [stage |-> r.stage, page |-> r.page, cursor |-> r.cursor, done |-> r.done,
                 write |-> r.write, tries |-> r.tries]
    BY <1>4 DEF WalkType
  <1>11. r \in WalkType
    BY <1>8, <1>9, <1>10 DEF WalkType
  <1>12. \A v \in Walkers : walk'[v] = IF v = w THEN r ELSE walk[v]
    BY <1>6, <1>7 DEF ReconcileTypes
  <1>13. ASSUME NEW p \in Places
         PROVE  /\ axis'[p] \in [value : Values, is : {"none", "live", "closed", "expired"}]
                /\ axis'[p] = axis[p] \/ axis'[p].is \in {"closed", "expired"}
                /\ (\E e \in q.write : e[1] = p) => axis'[p].is \in {"closed", "expired"}
    <2>1. axis[p] \in [value : Values, is : {"none", "live", "closed", "expired"}]
      BY <1>6 DEF ReconcileTypes
    <2>2. CASE \E e \in q.write : e[1] = p
      <3>1. PICK f : f = CHOOSE e \in q.write : e[1] = p
        OBVIOUS
      <3>2. f \in q.write /\ f[2] \in {"closed", "expired"}
        BY <1>8, <2>2, <3>1
      <3>3. axis'[p] = [axis[p] EXCEPT !.is = f[2]]
        BY <1>5, <2>2, <3>1 DEF Outcome
      <3> QED
        BY <2>1, <3>2, <3>3
    <2>3. CASE ~\E e \in q.write : e[1] = p
      <3>1. axis'[p] = axis[p]
        BY <1>5, <2>3
      <3> QED
        BY <2>1, <2>3, <3>1
    <2> QED
      BY <2>2, <2>3
  <1>14. InScope' \subseteq InScope
    BY <1>5, <1>13 DEF InScope, LivePlaces
  <1>15. \A p \in Places, x \in Places : Unsettled(p, x)' => Unsettled(p, x) /\ p \notin q.done
    <2> SUFFICES ASSUME NEW p \in Places, NEW x \in Places, Unsettled(p, x)'
                 PROVE  Unsettled(p, x) /\ p \notin q.done
      OBVIOUS
    <2>1. /\ Unsettled(p, x) /\ axis'[p].is = "live" /\ axis'[x].is = "live"
      BY <1>14 DEF Unsettled, InScope, LivePlaces
    <2>2. ~\E e \in q.write : e[1] \in {p, x}
      BY <1>13, <2>1
    <2> QED
      BY <1>6, <2>1, <2>2 DEF WalkSound
  <1>16. /\ IsFiniteSet(covered) /\ IsFiniteSet(q.done) /\ covered \cap q.done = {}
         /\ Cardinality(covered) \in Nat /\ Cardinality(q.done) \in Nat
         /\ Cardinality(new) = Cardinality(covered) + Cardinality(q.done)
    <2>1. IsFiniteSet(covered) /\ IsFiniteSet(q.done)
      BY <1>6, <1>8, PlaceFacts, FS_Subset DEF ReconcileTypes
    <2>2. covered \cap q.done = {}
      <3> SUFFICES ASSUME NEW p \in covered, p \in q.done PROVE FALSE
        OBVIOUS
      <3>1. p >= mark.cursor /\ p < q.cursor /\ p \in Nat
        BY <1>6, PlaceFacts DEF ReconcileInv, Durable, WalkSound, ReconcileTypes
      <3> QED
        BY <1>6, <1>8, <3>1
    <2>3. Cardinality(covered) \in Nat /\ Cardinality(q.done) \in Nat
      BY <2>1, FS_CardinalityType
    <2>4. Cardinality(new) = Cardinality(covered) + Cardinality(q.done) - Cardinality(covered \cap q.done)
      BY <1>3, <2>1, FS_Union
    <2>5. Cardinality(covered \cap q.done) = 0
      BY <2>2, FS_EmptySet
    <2> QED
      BY <2>1, <2>2, <2>3, <2>4, <2>5
  <1>17. /\ mark'.cursor = last /\ mark'.scanned = mark.scanned + Cardinality(q.done)
         /\ ~mark'.finished
         /\ mark' \in [cursor : Places \cup {Top}, scanned : Nat, finished : BOOLEAN]
    <2>1. PICK k : k = Cardinality(q.done)
      OBVIOUS
    <2>2. k \in Nat /\ mark \in [cursor : Places \cup {Top}, scanned : Nat, finished : BOOLEAN]
      BY <1>6, <1>16, <2>1 DEF ReconcileTypes
    <2>3. mark' = [mark EXCEPT !.cursor = last, !.scanned = mark.scanned + k]
      BY <1>5, <2>1
    <2>4. PICK m : m = mark'
      OBVIOUS
    <2>5. /\ m.cursor = last /\ m.scanned = mark.scanned + k /\ m.finished = mark.finished
          /\ m = [cursor |-> m.cursor, scanned |-> m.scanned, finished |-> m.finished]
      BY <2>2, <2>3, <2>4
    <2>6. mark.scanned + k \in Nat
      BY <2>2
    <2> QED
      BY <1>6, <1>9, <2>1, <2>2, <2>4, <2>5, <2>6
  <1>18. ReconcileTypes'
    <2>1. axis' \in [Places -> [value : Values, is : {"none", "live", "closed", "expired"}]]
      <3>1. axis' = [p \in Places |-> axis'[p]]
        BY <1>5
      <3> QED
        BY <1>13, <3>1
    <2>2. walk' \in [Walkers -> WalkType]
      BY <1>6, <1>7, <1>11 DEF ReconcileTypes
    <2>3. new \in SUBSET Places
      BY <1>3, <1>6, <1>8 DEF ReconcileTypes
    <2>4. \A p \in scope' : axis'[p].is # "none"
      BY <1>5, <1>6, <1>13 DEF ReconcileTypes
    <2> QED
      BY <1>5, <1>6, <1>17, <2>1, <2>2, <2>3, <2>4 DEF ReconcileTypes
  <1>19. OneWalker'
    BY <1>5, <1>6, <1>10, <1>12, <1>17 DEF ReconcileInv, OneWalker
  <1>20. Durable'
    <2>1. ASSUME NEW p \in InScope', p >= last PROVE p \in new
      <3>1. p \in InScope /\ p \in Nat
        BY <1>14, PlaceFacts DEF InScope, LivePlaces
      <3>2. CASE p >= q.cursor
        BY <1>3, <1>6, <3>1, <3>2 DEF ReconcileInv, Durable
      <3>3. CASE p < q.cursor
        <4>1. last <= p
          BY <1>9, <2>1, <3>1
        <4>2. p \in q.page \cup q.done
          BY <1>6, <1>9, <3>1, <3>3, <4>1 DEF WalkSound
        <4>3. p \in q.page => p < last
          BY <1>6, <1>9 DEF WalkSound
        <4>4. p \in q.done
          BY <1>9, <3>1, <4>1, <4>2, <4>3
        <4> QED
          BY <1>3, <4>4
      <3> QED
        BY <1>8, <3>1, <3>2, <3>3
    <2>2. ASSUME NEW p \in new PROVE p >= last
      <3>1. CASE p \in q.done
        BY <1>8, <1>9, <3>1, PlaceFacts
      <3>2. CASE p \in covered
        <4>1. p >= q.cursor /\ p \in Nat /\ last < q.cursor
          BY <1>6, <1>9, <3>2, PlaceFacts DEF ReconcileInv, Durable,
             ReconcileTypes, WalkSound
        <4> QED
          BY <1>8, <1>9, <4>1
      <3> QED
        BY <1>3, <3>1, <3>2
    <2>3. mark'.scanned = Cardinality(new)
      BY <1>6, <1>16, <1>17 DEF ReconcileInv, Durable
    <2>4. \A p \in new, x \in Places : ~Unsettled(p, x)'
      BY <1>3, <1>6, <1>8, <1>15 DEF ReconcileInv, Durable, ReconcileTypes
    <2> QED
      BY <1>5, <1>17, <2>1, <2>2, <2>3, <2>4 DEF Durable
  <1>21. WalkSound(r)
    <2>1. \A g \in q.page : g < last
      BY <1>6, <1>9 DEF WalkSound
    <2>2. ASSUME NEW g \in q.page, NEW x \in InScope, g <= x, x < last PROVE x \in q.page
      <3>1. x \in Nat /\ last < q.cursor
        BY <1>6, <1>9, PlaceFacts DEF InScope, LivePlaces, WalkSound
      <3>2. x < q.cursor
        BY <1>8, <1>9, <2>2, <3>1
      <3>3. x \in q.page \cup q.done
        BY <1>6, <2>2, <3>2 DEF WalkSound
      <3>4. x \notin q.done
        BY <1>9, <2>2, <3>1
      <3> QED
        BY <3>3, <3>4
    <2> QED
      BY <1>10, <2>1, <2>2 DEF WalkSound
  <1>22. ASSUME NEW v \in Walkers PROVE WalkSound(walk[v])'
    <2>1. PICK p : p = walk'[v]
      OBVIOUS
    <2>2. WalkSound(p)
      BY <1>12, <1>21, <2>1 DEF ReconcileInv
    <2>3. WalkSound(p)'
      BY <1>14, <2>2, WalkSoundKept
    <2> QED
      BY <2>1, <2>3
  <1> QED
    BY <1>18, <1>19, <1>20, <1>22 DEF ReconcileInv

LEMMA LiveWriteKeeps ==
  ASSUME ReconcileInv, LiveWrite PROVE ReconcileInv'
  <1>1. PICK p \in Places, v \in Values, closes \in SUBSET Places, is \in {"live", "closed"} :
          /\ axis[p].is = "none" /\ p \notin closes
          /\ UNCHANGED <<mark, walkLock, walk, scope, covered>>
          /\ axis' = [x \in Places |->
               CASE x = p -> [value |-> v, is |-> is]
                 [] x \in closes -> [axis[x] EXCEPT !.is = "closed"]
                 [] OTHER -> axis[x]]
    <2>1. PICK p \in Places, v \in Values : 
            LET wrote == {e[1] : e \in UNION {walk[w].write : w \in Walkers}}
                other == {q \in LivePlaces : axis[q].value # v}
                closes == {q \in other : q < p}
            IN /\ liveWrites < MaxLiveWrites /\ axis[p].is = "none"
               /\ ~\E q \in LivePlaces : axis[q].value = v
               /\ closes \cap wrote = {}
               /\ liveWrites' = liveWrites + 1
               /\ axis' = [q \in Places |->
                    CASE q = p -> [value |-> v, is |->
                                     IF closes = other THEN "live" ELSE "closed"]
                      [] q \in closes -> [axis[q] EXCEPT !.is = "closed"]
                      [] OTHER -> axis[q]]
               /\ UNCHANGED <<mark, walkLock, walk, scope, covered, starts, troubles>>
      BY DEF LiveWrite
    <2>2. PICK other : other = {q \in LivePlaces : axis[q].value # v}
      OBVIOUS
    <2>3. PICK closes : closes = {q \in other : q < p}
      OBVIOUS
    <2>4. PICK is : is = IF closes = other THEN "live" ELSE "closed"
      OBVIOUS
    <2>5. closes \in SUBSET Places /\ is \in {"live", "closed"}
      BY <2>2, <2>3, <2>4 DEF LivePlaces
    <2>6. /\ axis[p].is = "none" /\ UNCHANGED <<mark, walkLock, walk, scope, covered>>
          /\ axis' = [x \in Places |->
               CASE x = p -> [value |-> v, is |-> is]
                 [] x \in closes -> [axis[x] EXCEPT !.is = "closed"]
                 [] OTHER -> axis[x]]
      BY <2>1, <2>2, <2>3, <2>4
    <2>7. p \notin closes
      BY <2>2, <2>3, <2>6 DEF LivePlaces
    <2> QED
      BY <2>5, <2>6, <2>7
  <1>2. ReconcileTypes /\ p \notin scope
    BY <1>1 DEF ReconcileInv, ReconcileTypes
  <1>3. ASSUME NEW x \in Places
        PROVE  /\ axis'[x] \in [value : Values, is : {"none", "live", "closed", "expired"}]
               /\ x = p \/ axis'[x] = axis[x] \/ axis'[x].is = "closed"
    <2>1. axis[x] \in [value : Values, is : {"none", "live", "closed", "expired"}]
      BY <1>2 DEF ReconcileTypes
    <2>2. axis'[x] = CASE x = p -> [value |-> v, is |-> is]
                       [] x \in closes -> [axis[x] EXCEPT !.is = "closed"]
                       [] OTHER -> axis[x]
      BY <1>1
    <2>3. CASE x = p
      <3>1. axis'[x] = [value |-> v, is |-> is]
        BY <1>1, <2>2, <2>3
      <3>2. is \in {"none", "live", "closed", "expired"}
        BY <1>1
      <3> QED
        BY <2>3, <3>1, <3>2
    <2>4. CASE x # p /\ x \in closes
      <3>1. axis'[x] = [axis[x] EXCEPT !.is = "closed"]
        BY <2>2, <2>4
      <3> QED
        BY <2>1, <3>1
    <2>5. CASE x # p /\ x \notin closes
      BY <2>1, <2>2, <2>5
    <2> QED
      BY <2>3, <2>4, <2>5
  <1>4. ReconcileTypes'
    <2>1. axis' = [x \in Places |-> axis'[x]]
      BY <1>1
    <2>2. axis' \in [Places -> [value : Values, is : {"none", "live", "closed", "expired"}]]
      BY <1>3, <2>1
    <2>3. \A x \in scope : axis'[x].is # "none"
      BY <1>2, <1>3 DEF ReconcileTypes
    <2> QED
      BY <1>1, <1>2, <2>2, <2>3 DEF ReconcileTypes
  <1>5. InScope' \subseteq InScope
    BY <1>1, <1>2, <1>3 DEF InScope, LivePlaces
  <1>6. OneWalker' /\ Durable'
    BY <1>1, <1>5, DurableKept DEF ReconcileInv, OneWalker
  <1>7. ASSUME NEW w \in Walkers PROVE WalkSound(walk[w])'
    <2>1. PICK r : r = walk[w] /\ r = walk'[w]
      BY <1>1
    <2>2. WalkSound(r)
      BY <2>1 DEF ReconcileInv
    <2>3. WalkSound(r)'
      BY <1>5, <2>2, WalkSoundKept
    <2> QED
      BY <2>1, <2>3
  <1> QED
    BY <1>4, <1>6, <1>7 DEF ReconcileInv

LEMMA InitReconcile ==
  ASSUME ReconcileInit PROVE ReconcileInv
  <1>1. /\ mark = [FreshMark EXCEPT !.finished = TRUE] /\ walkLock = Nobody
        /\ walk = [w \in Walkers |-> AtRest] /\ scope = {} /\ covered = {}
    BY DEF ReconcileInit
  <1>2. /\ mark.cursor = Top /\ mark.scanned = 0
        /\ mark \in [cursor : Places \cup {Top}, scanned : Nat, finished : BOOLEAN]
    BY <1>1 DEF FreshMark
  <1>3. axis \in [Places -> [value : Values, is : {"none", "live", "closed", "expired"}]]
    <2>1. PICK debt \in SUBSET Places : \E v \in [debt -> Values] :
            axis = [p \in Places |-> IF p \in debt
                      THEN [value |-> v[p], is |-> "live"]
                      ELSE [value |-> CHOOSE x \in Values : TRUE, is |-> "none"]]
      BY DEF ReconcileInit
    <2>2. PICK v \in [debt -> Values] :
            axis = [p \in Places |-> IF p \in debt
                      THEN [value |-> v[p], is |-> "live"]
                      ELSE [value |-> CHOOSE x \in Values : TRUE, is |-> "none"]]
      BY <2>1
    <2>3. (CHOOSE x \in Values : TRUE) \in Values
      BY ValuesAssumption
    <2> QED
      BY <2>2, <2>3
  <1>4. ReconcileTypes
    BY <1>1, <1>2, <1>3, RestIsSound DEF ReconcileTypes
  <1>5. OneWalker /\ \A w \in Walkers : WalkSound(walk[w])
    BY <1>1, RestIsSound DEF OneWalker
  <1>6. Durable
    BY <1>1, <1>2, FS_EmptySet DEF Durable, InScope
  <1> QED
    BY <1>4, <1>5, <1>6 DEF ReconcileInv

LEMMA ReconcileNextInv ==
  ASSUME ReconcileInv, [ReconcileNext]_reconcileVars PROVE ReconcileInv'
  <1>1. CASE \E w \in Walkers : StartWalk(w) \/ ReadPage(w) \/ HandleFact(w) \/ CutPage(w)
    BY <1>1, StartKeeps, ReadPageKeeps, HandleFactKeeps, CutPageKeeps
  <1>2. CASE \E w \in Walkers : CommitChunk(w) \/ Contend(w)
    BY <1>2, CommitKeeps, ContendKeeps
  <1>3. CASE \E w \in Walkers : Leave(w) \/ KillWalk(w)
    BY <1>3, LeaveKeeps DEF Leave, KillWalk
  <1>4. CASE LiveWrite
    BY <1>4, LiveWriteKeeps
  <1>5. CASE UNCHANGED reconcileVars
    <2>1. UNCHANGED <<axis, mark, walkLock, walk, scope, covered>>
      BY <1>5 DEF reconcileVars
    <2>2. InScope' = InScope
      BY <2>1 DEF InScope, LivePlaces
    <2>3. ReconcileTypes' /\ OneWalker' /\ Durable'
      BY <2>1, <2>2, DurableKept DEF ReconcileInv, ReconcileTypes, OneWalker
    <2>4. ASSUME NEW w \in Walkers PROVE WalkSound(walk[w])'
      <3>1. PICK r : r = walk[w] /\ r = walk'[w]
        BY <2>1
      <3>2. WalkSound(r)
        BY <3>1 DEF ReconcileInv
      <3>3. WalkSound(r)'
        BY <2>2, <3>2, WalkSoundKept
      <3> QED
        BY <3>1, <3>3
    <2> QED
      BY <2>3, <2>4 DEF ReconcileInv
  <1> QED
    BY <1>1, <1>2, <1>3, <1>4, <1>5 DEF ReconcileNext

(* A namespace is reconciled soundly by any number of commands, started,   *)
(* killed and resumed in any order while its writers go on: the watermark  *)
(* covers exactly what was committed and counts each fact once, a finished *)
(* walk has handled everything still live, and of two facts it has handled *)
(* or passed no pair is left that contradicts.                             *)
THEOREM ReconcileIsSound == ReconcileSpec => []ReconcileSound
  <1>1. ReconcileInv => ReconcileSound
    <2> SUFFICES ASSUME ReconcileInv PROVE ReconcileSound
      OBVIOUS
    <2>1. WatermarkIsDurable
      BY DEF ReconcileInv, ReconcileTypes, Durable, InScope, LivePlaces,
         WatermarkIsDurable
    <2>2. HandledPairsSettle
      BY DEF ReconcileInv, ReconcileTypes, Durable, InScope, Unsettled,
         HandledPairsSettle
    <2> QED
      BY <2>1, <2>2 DEF ReconcileSound
  <1>2. ReconcileInit => ReconcileInv
    BY InitReconcile
  <1>3. ReconcileInv /\ [ReconcileNext]_reconcileVars => ReconcileInv'
    BY ReconcileNextInv
  <1> QED
    BY <1>1, <1>2, <1>3, PTL DEF ReconcileSpec

-----------------------------------------------------------------------------
(* Rerank.  Arithmetic: a product is monotone, a quotient is below.        *)
LEMMA ProductMonotone ==
  ASSUME NEW a \in Nat, NEW b \in Nat, NEW c \in Nat, NEW d \in Nat, a <= b, c <= d
  PROVE  a * c <= b * d
  <1>1. a * c <= b * c
    OBVIOUS
  <1>2. b * c <= b * d
    OBVIOUS
  <1>3. a * c \in Nat /\ b * c \in Nat /\ b * d \in Nat
    OBVIOUS
  <1> QED
    BY <1>1, <1>2, <1>3

LEMMA QuotientBelow ==
  ASSUME NEW a \in Nat, NEW b \in Nat \ {0}
  PROVE  a \div b \in Nat /\ (a \div b) * b <= a
  OBVIOUS

LEMMA QuotientMonotone ==
  ASSUME NEW a \in Nat, NEW c \in Nat, NEW b \in Nat \ {0}, a <= c
  PROVE  a \div b <= c \div b
  OBVIOUS

LEMMA QuotientLess ==
  ASSUME NEW a \in Nat, NEW c \in Nat, NEW b \in Nat \ {0}, a < c * b
  PROVE  a \div b < c
  OBVIOUS

(* The scores of the tail fall, and begin below the floor.                 *)
LEMMA TailFalls ==
  ASSUME NEW floor \in Nat \ {0}, NEW tail \in Nat, NEW i \in Nat, NEW j \in Nat,
         i <= j, j <= tail
  PROVE  /\ TailScore(floor, tail, j) \in Nat
         /\ TailScore(floor, tail, j) <= TailScore(floor, tail, i)
         /\ TailScore(floor, tail, i) < floor
  <1> DEFINE a == floor * (tail - j)
             b == floor * (tail - i)
  <1>1. tail - i \in Nat /\ tail - j \in Nat /\ tail - j <= tail - i /\ tail + 1 \in Nat \ {0}
    OBVIOUS
  <1>2. a \in Nat /\ b \in Nat /\ a <= b
    BY <1>1, ProductMonotone
  <1>3. b <= floor * tail /\ floor * tail < floor * (tail + 1)
    BY <1>1, ProductMonotone
  <1>4. b < floor * (tail + 1)
    BY <1>2, <1>3
  <1> HIDE DEF a, b
  <1>5. a \div (tail + 1) <= b \div (tail + 1) /\ a \div (tail + 1) \in Nat
    BY <1>1, <1>2, QuotientMonotone, QuotientBelow
  <1>6. b \div (tail + 1) < floor
    BY <1>1, <1>2, <1>4, QuotientLess
  <1> QED
    BY <1>5, <1>6 DEF TailScore, a, b

(* Every scored candidate has a place of its own, and those ahead of it    *)
(* have the places before.                                                 *)
AheadOf(fed, scores, i) == {j \in 1..fed : Ahead(scores, j, i)}
PlaceOf(fed, scores) == [i \in 1..fed |-> Cardinality(AheadOf(fed, scores, i)) + 1]

LEMMA FurtherBack ==
  ASSUME NEW fed \in Nat, NEW scores \in [1..fed -> Nat],
         NEW i \in 1..fed, NEW j \in 1..fed, Ahead(scores, i, j)
  PROVE  Cardinality(AheadOf(fed, scores, i)) < Cardinality(AheadOf(fed, scores, j))
  <1> DEFINE A == AheadOf(fed, scores, i)
             B == AheadOf(fed, scores, j)
  <1>1. IsFiniteSet(B) /\ Cardinality(B) \in Nat
    <2>1. B \in SUBSET (1..fed)
      BY DEF AheadOf
    <2>2. IsFiniteSet(1..fed)
      BY FS_Interval
    <2> QED
      BY <2>1, <2>2, FS_Subset, FS_CardinalityType
  <1>2. A \subseteq B /\ i \in B /\ i \notin A
    BY DEF AheadOf, Ahead
  <1>3. IsFiniteSet(A) /\ Cardinality(A) \in Nat /\ Cardinality(A) <= Cardinality(B)
        /\ (Cardinality(A) = Cardinality(B) => A = B)
    <2>1. A \in SUBSET B
      BY <1>2
    <2>2. IsFiniteSet(A) /\ Cardinality(A) <= Cardinality(B)
          /\ (Cardinality(B) = Cardinality(A) => B = A)
      BY <1>1, <2>1, FS_Subset
    <2> QED
      BY <2>2, FS_CardinalityType
  <1> QED
    BY <1>1, <1>2, <1>3

LEMMA PlacesTaken ==
  ASSUME NEW fed \in Nat, NEW scores \in [1..fed -> Nat]
  PROVE  /\ PlaceOf(fed, scores) \in [1..fed -> 1..fed]
         /\ \A i, j \in 1..fed : i # j => Ahead(scores, i, j) \/ Ahead(scores, j, i)
         /\ \A i, j \in 1..fed : Ahead(scores, i, j) =>
              PlaceOf(fed, scores)[i] < PlaceOf(fed, scores)[j]
         /\ \A k \in 1..fed : \E i \in 1..fed : PlaceOf(fed, scores)[i] = k
  <1> DEFINE S == 1..fed
             f == PlaceOf(fed, scores)
  <1>1. IsFiniteSet(S) /\ Cardinality(S) = fed
    BY FS_Interval
  <1>2. ASSUME NEW i \in S
        PROVE  Cardinality(AheadOf(fed, scores, i)) \in Nat
               /\ Cardinality(AheadOf(fed, scores, i)) < fed
    <2>1. AheadOf(fed, scores, i) \in SUBSET S /\ i \notin AheadOf(fed, scores, i)
      BY DEF AheadOf, Ahead
    <2>2. /\ IsFiniteSet(AheadOf(fed, scores, i))
          /\ Cardinality(AheadOf(fed, scores, i)) <= Cardinality(S)
          /\ Cardinality(S) = Cardinality(AheadOf(fed, scores, i)) => S = AheadOf(fed, scores, i)
      BY <1>1, <2>1, FS_Subset
    <2>3. Cardinality(AheadOf(fed, scores, i)) \in Nat
      BY <2>2, FS_CardinalityType
    <2> QED
      BY <1>1, <2>1, <2>2, <2>3
  <1>3. f \in [S -> S]
    BY <1>2 DEF PlaceOf
  <1>4. \A i, j \in S : i # j => Ahead(scores, i, j) \/ Ahead(scores, j, i)
    BY DEF Ahead
  <1>5. \A i, j \in S : Ahead(scores, i, j) => f[i] < f[j]
    <2> SUFFICES ASSUME NEW i \in S, NEW j \in S, Ahead(scores, i, j) PROVE f[i] < f[j]
      OBVIOUS
    <2>1. Cardinality(AheadOf(fed, scores, i)) < Cardinality(AheadOf(fed, scores, j))
      BY FurtherBack
    <2>2. /\ f[i] = Cardinality(AheadOf(fed, scores, i)) + 1
          /\ f[j] = Cardinality(AheadOf(fed, scores, j)) + 1
      BY DEF PlaceOf
    <2>3. /\ Cardinality(AheadOf(fed, scores, i)) \in Nat
          /\ Cardinality(AheadOf(fed, scores, j)) \in Nat
      BY <1>2
    <2> QED
      BY <2>1, <2>2, <2>3
  <1>6. f \in Injection(S, S)
    <2>1. ASSUME NEW i \in S, NEW j \in S, f[i] = f[j], i # j PROVE FALSE
      <3>1. f[i] \in Nat /\ f[j] \in Nat
        BY <1>3
      <3>2. Ahead(scores, i, j) \/ Ahead(scores, j, i)
        BY <1>4, <2>1
      <3>3. f[i] < f[j] \/ f[j] < f[i]
        BY <1>5, <3>2
      <3> QED
        BY <2>1, <3>1, <3>3
    <2> QED
      BY <1>3, <2>1 DEF Injection, IsInjective
  <1>7. f \in Surjection(S, S)
    BY <1>1, <1>6, FS_Injection
  <1>8. \A k \in S : \E i \in S : f[i] = k
    BY <1>7 DEF Surjection
  <1> QED
    BY <1>3, <1>4, <1>5, <1>8

LEMMA LeastOf ==
  ASSUME NEW fed \in Nat \ {0}, NEW scores \in [1..fed -> Nat]
  PROVE  LET S == {scores[i] : i \in 1..fed}
         IN Least(S) \in S /\ \A i \in 1..fed : Least(S) <= scores[i]
  <1> DEFINE S == {scores[i] : i \in 1..fed}
  <1>1. \E x \in S : \A y \in S : x <= y
    <2>1. 1 \in 1..fed /\ scores[1] \in S /\ S \subseteq Nat
      OBVIOUS
    <2>2. \E i \in 1..fed : PlaceOf(fed, scores)[i] = fed
      BY PlacesTaken
    <2>3. PICK m \in 1..fed : PlaceOf(fed, scores)[m] = fed
      BY <2>2
    <2>4. \A i \in 1..fed : scores[m] <= scores[i]
      <3>1. PlaceOf(fed, scores) \in [1..fed -> 1..fed]
        BY PlacesTaken
      <3>2. ASSUME NEW i \in 1..fed, Ahead(scores, m, i) PROVE FALSE
        <4>1. PlaceOf(fed, scores)[m] < PlaceOf(fed, scores)[i]
          BY <3>2, PlacesTaken
        <4>2. PlaceOf(fed, scores)[i] \in 1..fed
          BY <3>1
        <4> QED
          BY <2>3, <4>1, <4>2
      <3>3. \A i \in 1..fed : scores[m] <= scores[i]
        BY <3>2 DEF Ahead
      <3> QED
        BY <3>3
    <2> QED
      BY <2>4
  <1>2. Least(S) \in S /\ \A y \in S : Least(S) <= y
    BY <1>1 DEF Least
  <1> QED
    BY <1>2

Entry == [candidate : Nat, score : Nat]

(* What an answer of n candidates has to be, the first fed of them scored. *)
Complete(order, n) ==
  /\ Len(order) = n
  /\ {order[k].candidate : k \in DOMAIN order} = 1..n
  /\ \A k, l \in DOMAIN order : k < l => order[k].score >= order[l].score
ScoredAhead(order, fed) ==
  \A k, l \in DOMAIN order :
    order[k].candidate <= fed /\ order[l].candidate > fed => order[k].score > order[l].score

LEMMA UnrankedComplete ==
  ASSUME NEW n \in Nat PROVE Unranked(n) \in Seq(Entry) /\ Complete(Unranked(n), n)
  <1>1. Unranked(n) \in Seq(Entry) /\ Len(Unranked(n)) = n /\ DOMAIN Unranked(n) = 1..n
    BY DEF Unranked, Entry
  <1>2. \A k \in 1..n : Unranked(n)[k].candidate = k /\ Unranked(n)[k].score = 0
    BY DEF Unranked
  <1> QED
    BY <1>1, <1>2 DEF Complete

(* The candidate at each place of the scored ones.                         *)
LEMMA PlacesFilled ==
  ASSUME NEW fed \in Nat, NEW scores \in [1..fed -> Nat]
  PROVE  \E inv \in [1..fed -> 1..fed] :
           /\ \A k \in 1..fed : inv[k] = CHOOSE x \in 1..fed : PlaceOf(fed, scores)[x] = k
           /\ \A i \in 1..fed : \E k \in 1..fed : inv[k] = i
           /\ \A k, l \in 1..fed : k < l => scores[inv[k]] >= scores[inv[l]]
  <1> DEFINE f == PlaceOf(fed, scores)
             inv == [k \in 1..fed |-> CHOOSE x \in 1..fed : f[x] = k]
  <1>1. /\ f \in [1..fed -> 1..fed]
        /\ \A i, j \in 1..fed : i # j => Ahead(scores, i, j) \/ Ahead(scores, j, i)
        /\ \A i, j \in 1..fed : Ahead(scores, i, j) => f[i] < f[j]
        /\ \A k \in 1..fed : \E i \in 1..fed : f[i] = k
    BY PlacesTaken
  <1> HIDE DEF f
  <1>2. ASSUME NEW k \in 1..fed
        PROVE  inv[k] \in 1..fed /\ f[inv[k]] = k
    <2>1. PICK i \in 1..fed : f[i] = k
      BY <1>1
    <2>2. inv[k] = CHOOSE x \in 1..fed : f[x] = k
      OBVIOUS
    <2> QED
      BY <2>1, <2>2
  <1>3. inv \in [1..fed -> 1..fed]
    BY <1>2
  <1>4. \A k \in 1..fed : inv[k] = CHOOSE x \in 1..fed : f[x] = k
    OBVIOUS
  <1> HIDE DEF inv
  <1>5. ASSUME NEW i \in 1..fed, NEW j \in 1..fed, f[i] = f[j], i # j PROVE FALSE
    <2>1. Ahead(scores, i, j) \/ Ahead(scores, j, i)
      BY <1>1, <1>5
    <2>2. f[i] < f[j] \/ f[j] < f[i]
      BY <1>1, <2>1
    <2>3. f[i] \in 1..fed /\ f[j] \in 1..fed
      BY <1>1
    <2>4. \A x \in 1..fed : ~(x < x)
      OBVIOUS
    <2> QED
      BY <1>5, <2>2, <2>3, <2>4
  <1>6. ASSUME NEW i \in 1..fed PROVE \E k \in 1..fed : inv[k] = i
    <2>1. f[i] \in 1..fed
      BY <1>1
    <2>2. inv[f[i]] \in 1..fed /\ f[inv[f[i]]] = f[i]
      BY <1>2, <2>1
    <2>3. inv[f[i]] = i
      BY <1>5, <2>2
    <2> QED
      BY <2>1, <2>3
  <1>7. ASSUME NEW k \in 1..fed, NEW l \in 1..fed, k < l
        PROVE  scores[inv[k]] >= scores[inv[l]]
    <2>1. inv[k] \in 1..fed /\ inv[l] \in 1..fed /\ f[inv[k]] = k /\ f[inv[l]] = l
      BY <1>2
    <2>2. ASSUME Ahead(scores, inv[l], inv[k]) PROVE FALSE
      <3>1. f[inv[l]] < f[inv[k]]
        BY <1>1, <2>1, <2>2
      <3> QED
        BY <1>7, <2>1, <3>1
    <2>3. ~(scores[inv[l]] > scores[inv[k]])
      BY <2>2 DEF Ahead
    <2>4. scores[inv[l]] \in Nat /\ scores[inv[k]] \in Nat
      BY <2>1
    <2> QED
      BY <2>3, <2>4
  <1> QED
    BY <1>3, <1>4, <1>6, <1>7 DEF f

LEMMA RankedComplete ==
  ASSUME NEW n \in Nat, NEW fed \in 0..n, fed = 0 => n = 0,
         NEW scores \in [1..fed -> Nat \ {0}]
  PROVE  /\ Ranked(n, fed, scores) \in Seq(Entry)
         /\ Complete(Ranked(n, fed, scores), n)
         /\ ScoredAhead(Ranked(n, fed, scores), fed)
  <1>1. scores \in [1..fed -> Nat] /\ fed \in Nat /\ fed <= n
    OBVIOUS
  <1>2. PICK inv \in [1..fed -> 1..fed] :
           /\ \A k \in 1..fed : inv[k] = CHOOSE x \in 1..fed : PlaceOf(fed, scores)[x] = k
           /\ \A i \in 1..fed : \E k \in 1..fed : inv[k] = i
           /\ \A k, l \in 1..fed : k < l => scores[inv[k]] >= scores[inv[l]]
    BY <1>1, PlacesFilled
  <1>3. \E fl : /\ fl = Least({scores[i] : i \in 1..fed})
                /\ fed # 0 => fl \in Nat \ {0} /\ \A i \in 1..fed : fl <= scores[i]
    <2>1. CASE fed = 0
      BY <2>1
    <2>2. CASE fed # 0
      <3>1. /\ Least({scores[x] : x \in 1..fed}) \in {scores[x] : x \in 1..fed}
            /\ \A y \in 1..fed : Least({scores[x] : x \in 1..fed}) <= scores[y]
        BY <1>1, <2>2, LeastOf
      <3> QED
        BY <3>1
    <2> QED
      BY <2>1, <2>2
  <1>4. PICK fl : /\ fl = Least({scores[i] : i \in 1..fed})
                  /\ fed # 0 => fl \in Nat \ {0} /\ \A i \in 1..fed : fl <= scores[i]
    BY <1>3
  <1>5. PICK order : order = Ranked(n, fed, scores)
    OBVIOUS
  <1>6. PICK tail \in [1..n -> Nat \cup {fl}] :
          /\ \A k \in 1..n : ~(k <= fed) => /\ tail[k] = TailScore(fl, n - fed, k - fed - 1)
                                            /\ tail[k] \in Nat /\ tail[k] < fl
          /\ \A k, l \in 1..n : ~(k <= fed) /\ k < l => tail[l] <= tail[k]
    <2> DEFINE t(k) == TailScore(fl, n - fed, k - fed - 1)
               w == [k \in 1..n |-> IF k <= fed THEN fl ELSE t(k)]
    <2>1. ASSUME NEW k \in 1..n, NEW l \in 1..n, ~(k <= fed), k <= l
          PROVE  t(l) \in Nat /\ t(l) <= t(k) /\ t(k) < fl
      <3>1. /\ n - fed \in Nat /\ k - fed - 1 \in Nat /\ l - fed - 1 \in Nat
            /\ k - fed - 1 <= l - fed - 1 /\ l - fed - 1 <= n - fed
        BY <1>1, <2>1
      <3>2. fl \in Nat \ {0}
        BY <1>4, <2>1
      <3> QED
        BY <3>1, <3>2, TailFalls
    <2>2. \A k \in 1..n : ~(k <= fed) => t(k) \in Nat /\ t(k) < fl
      <3> SUFFICES ASSUME NEW k \in 1..n, ~(k <= fed) PROVE t(k) \in Nat /\ t(k) < fl
        OBVIOUS
      <3>1. k <= k
        OBVIOUS
      <3> QED
        BY <2>1, <3>1
    <2>3. \A k, l \in 1..n : ~(k <= fed) /\ k < l => t(l) <= t(k)
      <3> SUFFICES ASSUME NEW k \in 1..n, NEW l \in 1..n, ~(k <= fed), k < l
                   PROVE  t(l) <= t(k)
        OBVIOUS
      <3>1. k <= l
        OBVIOUS
      <3> QED
        BY <2>1, <3>1
    <2> HIDE DEF t
    <2>4. w \in [1..n -> Nat \cup {fl}]
      BY <2>2
    <2>5. \A k \in 1..n : ~(k <= fed) => w[k] = t(k)
      OBVIOUS
    <2>6. \A k, l \in 1..n : ~(k <= fed) /\ k < l => ~(l <= fed)
      BY <1>1
    <2>7. \A k \in 1..n : ~(k <= fed) => /\ w[k] = TailScore(fl, n - fed, k - fed - 1)
                                         /\ w[k] \in Nat /\ w[k] < fl
      BY <2>2, <2>5 DEF t
    <2>8. \A k, l \in 1..n : ~(k <= fed) /\ k < l => w[l] <= w[k]
      BY <2>3, <2>5, <2>6
    <2> HIDE DEF w
    <2> QED
      BY <2>4, <2>7, <2>8
  <1>7. order = [k \in 1..n |-> IF k <= fed
                                THEN [candidate |-> inv[k], score |-> scores[inv[k]]]
                                ELSE [candidate |-> k, score |-> tail[k]]]
    <2> DEFINE at(k) == CHOOSE x \in 1..fed : PlaceOf(fed, scores)[x] = k
               e(k) == IF k <= fed THEN [candidate |-> at(k), score |-> scores[at(k)]]
                       ELSE [candidate |-> k, score |-> TailScore(fl, n - fed, k - fed - 1)]
               g(k) == IF k <= fed THEN [candidate |-> inv[k], score |-> scores[inv[k]]]
                       ELSE [candidate |-> k, score |-> tail[k]]
    <2>1. Ranked(n, fed, scores) = [k \in 1..n |-> e(k)]
      BY <1>4 DEF Ranked, PlaceOf, AheadOf
    <2>2. \A k \in 1..n : k <= fed => k \in 1..fed
      BY <1>1
    <2>3. \A k \in 1..fed : inv[k] = at(k)
      BY <1>2
    <2> HIDE DEF at
    <2>4. \A k \in 1..n : e(k) = g(k)
      BY <1>6, <2>2, <2>3
    <2> HIDE DEF e, g
    <2>5. order = [k \in 1..n |-> g(k)]
      BY <1>5, <2>1, <2>4
    <2> QED
      BY <2>5 DEF g
  <1>8. DOMAIN order = 1..n /\ \A k \in 1..n :
          /\ k <= fed => /\ inv[k] \in 1..fed /\ scores[inv[k]] \in Nat /\ fl <= scores[inv[k]]
                         /\ order[k] = [candidate |-> inv[k], score |-> scores[inv[k]]]
          /\ ~(k <= fed) => order[k] = [candidate |-> k, score |-> tail[k]]
    <2>1. \A k \in 1..n : k <= fed => k \in 1..fed /\ fed # 0
      BY <1>1
    <2>2. \A k \in 1..fed : inv[k] \in 1..fed
      BY <1>2
    <2>3. \A i \in 1..fed : scores[i] \in Nat
      OBVIOUS
    <2> QED
      BY <1>4, <1>7, <2>1, <2>2, <2>3
  <1>9. \A k \in 1..n :
          /\ order[k] \in Entry /\ order[k].candidate \in Nat /\ order[k].score \in Nat
          /\ k <= fed => order[k].candidate = inv[k] /\ order[k].score = scores[inv[k]]
          /\ ~(k <= fed) => order[k].candidate = k /\ order[k].score = tail[k]
    <2> SUFFICES ASSUME NEW k \in 1..n
                 PROVE /\ order[k] \in Entry /\ order[k].candidate \in Nat /\ order[k].score \in Nat
                       /\ k <= fed => order[k].candidate = inv[k] /\ order[k].score = scores[inv[k]]
                       /\ ~(k <= fed) => order[k].candidate = k /\ order[k].score = tail[k]
      OBVIOUS
    <2>1. CASE k <= fed
      <3>1. inv[k] \in 1..fed /\ scores[inv[k]] \in Nat
        BY <1>8, <2>1
      <3>2. order[k] = [candidate |-> inv[k], score |-> scores[inv[k]]]
        BY <1>8, <2>1
      <3>3. inv[k] \in Nat
        <4>1. \A x \in 1..fed : x \in Nat
          OBVIOUS
        <4> QED
          BY <3>1, <4>1
      <3> QED
        BY <2>1, <3>1, <3>2, <3>3 DEF Entry
    <2>2. CASE ~(k <= fed)
      <3>1. tail[k] \in Nat
        BY <1>6, <2>2
      <3>2. order[k] = [candidate |-> k, score |-> tail[k]]
        BY <1>8, <2>2
      <3>3. k \in Nat
        OBVIOUS
      <3> QED
        BY <2>2, <3>1, <3>2, <3>3 DEF Entry
    <2> QED
      BY <2>1, <2>2
  <1>10. order \in Seq(Entry) /\ Len(order) = n
    <2>1. order \in [1..n -> Entry]
      BY <1>7, <1>9
    <2> QED
      BY <2>1
  <1>11. {order[k].candidate : k \in DOMAIN order} = 1..n
    <2>1. \A k \in 1..n : order[k].candidate \in 1..n
      <3> SUFFICES ASSUME NEW k \in 1..n PROVE order[k].candidate \in 1..n
        OBVIOUS
      <3>1. CASE k <= fed
        BY <1>1, <1>8, <1>9, <3>1
      <3>2. CASE ~(k <= fed)
        BY <1>9, <3>2
      <3> QED
        BY <3>1, <3>2
    <2>2. ASSUME NEW i \in 1..n PROVE \E k \in 1..n : order[k].candidate = i
      <3>1. CASE i <= fed
        <4>1. PICK k \in 1..fed : inv[k] = i
          BY <1>2, <3>1
        <4>2. k \in 1..n /\ k <= fed
          BY <1>1
        <4> QED
          BY <1>9, <4>1, <4>2
      <3>2. CASE ~(i <= fed)
        BY <1>9, <3>2
      <3> QED
        BY <3>1, <3>2
    <2>3. DOMAIN order = 1..n
      BY <1>8
    <2>4. \A i \in 1..n : \E k \in 1..n : order[k].candidate = i
      BY <2>2
    <2>5. {order[k].candidate : k \in 1..n} = 1..n
      BY ZenonT(30), <2>1, <2>4
    <2> QED
      BY <2>3, <2>5
  <1>12. ASSUME NEW k \in 1..n, NEW l \in 1..n, k < l
         PROVE  order[k].score >= order[l].score
    <2>0. order[k].score \in Nat /\ order[l].score \in Nat
      BY <1>9
    <2>1. CASE l <= fed
      <3>1. k \in 1..fed /\ l \in 1..fed /\ k <= fed
        BY <1>1, <1>12, <2>1
      <3>2. scores[inv[k]] >= scores[inv[l]]
        BY <1>2, <1>12, <3>1
      <3> QED
        BY <1>9, <2>1, <3>1, <3>2
    <2>2. CASE k <= fed /\ ~(l <= fed)
      <3>1. fl <= scores[inv[k]] /\ tail[l] < fl /\ fl \in Nat /\ tail[l] \in Nat
        <4>1. fed # 0
          BY <1>1, <2>2
        <4> QED
          BY <1>4, <1>6, <1>8, <2>2, <4>1
      <3>2. order[k].score = scores[inv[k]] /\ order[l].score = tail[l]
        BY <1>9, <2>2
      <3>3. fl <= order[k].score /\ order[l].score < fl
        BY <3>1, <3>2
      <3>4. \A a, b, c \in Nat : c <= a /\ b < c => a >= b
        OBVIOUS
      <3> QED
        BY <2>0, <3>1, <3>3, <3>4
    <2>3. CASE ~(k <= fed)
      <3>1. ~(l <= fed)
        BY <1>1, <1>12, <2>3
      <3>2. tail[l] <= tail[k]
        BY <1>6, <1>12, <2>3
      <3>3. order[k].score = tail[k] /\ order[l].score = tail[l]
        BY <1>9, <2>3, <3>1
      <3> QED
        BY <2>0, <3>2, <3>3
    <2> QED
      BY <2>1, <2>2, <2>3
  <1>13. ASSUME NEW k \in 1..n, NEW l \in 1..n,
                order[k].candidate <= fed, order[l].candidate > fed
         PROVE  order[k].score > order[l].score
    <2>1. k <= fed
      BY <1>9, <1>13
    <2>2. ~(l <= fed)
      <3>1. ASSUME l <= fed PROVE FALSE
        <4>1. order[l].candidate = inv[l] /\ inv[l] \in 1..fed
          BY <1>8, <1>9, <3>1
        <4>2. order[l].candidate \in 1..fed
          BY <4>1
        <4>3. \A x \in 1..fed : ~(x > fed)
          BY <1>1
        <4> QED
          BY <1>13, <4>2, <4>3
      <3> QED
        BY <3>1
    <2>3. fl <= scores[inv[k]] /\ tail[l] < fl /\ fl \in Nat /\ tail[l] \in Nat
      <3>1. fed # 0
        BY <1>1, <2>1
      <3> QED
        BY <1>4, <1>6, <1>8, <2>1, <2>2, <3>1
    <2>4. order[k].score = scores[inv[k]] /\ order[l].score = tail[l]
      BY <1>9, <2>1, <2>2
    <2>5. order[k].score \in Nat /\ order[l].score \in Nat
      BY <1>9
    <2>6. fl <= order[k].score /\ order[l].score < fl
      BY <2>3, <2>4
    <2>7. \A a, b, c \in Nat : c <= a /\ b < c => a > b
      OBVIOUS
    <2> QED
      BY <2>3, <2>5, <2>6, <2>7
  <1>14. Complete(order, n)
    BY <1>8, <1>10, <1>11, <1>12 DEF Complete
  <1>15. ScoredAhead(order, fed)
    BY <1>8, <1>13 DEF ScoredAhead
  <1> QED
    BY <1>5, <1>10, <1>14, <1>15

-----------------------------------------------------------------------------
BootStages == {"first", "second", "warm", "publish", "raise", "over", "failed"}
AskStages == {"idle", "cap", "load", "score", "ranked", "plain"}
Ask == [at : AskStages, size : Nat, fed : Nat, order : Seq(Entry)]

RerankTypes ==
  /\ booting \in BootStages /\ measured \in Seq(Samples) /\ ready \in BOOLEAN
  /\ asks \in [Askers -> Ask]

(* A cap is derived from the best sample, and only before recalls are let  *)
(* on, or after a prewarm that failed none is.                             *)
CapMeasured ==
  /\ booting \in {"second", "warm", "publish", "raise", "over"} => measured # <<>>
  /\ derived # NoCap => booting \in {"raise", "over"} /\ derived = DerivedCap(BestSample)
  /\ ready => booting \in {"over", "failed"}

LetOnAfterBoot ==
  \A q \in Askers : asks[q].at \in {"cap", "load", "score", "ranked"} =>
    booting \in {"over", "failed"}

(* What is fed to the model: some of the candidates, within the budget.    *)
FedWithin(fed) == ExplicitCap = NoCap => fed <= MinCap \/ fed * TrueCost <= Budget
FedRight ==
  \A q \in Askers :
    /\ asks[q].fed <= asks[q].size
    /\ asks[q].at \in {"load", "score", "ranked"} /\ asks[q].fed = 0 => asks[q].size = 0
    /\ FedWithin(asks[q].fed)

AnsweredInFull ==
  \A q \in Askers :
    /\ asks[q].at \in {"ranked", "plain"} => Complete(asks[q].order, asks[q].size)
    /\ asks[q].at = "ranked" => ScoredAhead(asks[q].order, asks[q].fed)

RerankInv == RerankTypes /\ CapMeasured /\ LetOnAfterBoot /\ FedRight /\ AnsweredInFull

(* The best sample is one of them, and no machine beats its own cost.      *)
LEMMA BestOfSamples ==
  ASSUME RerankBounds, measured \in Seq(Samples), measured # <<>>
  PROVE  /\ BestSample \in {measured[i] : i \in DOMAIN measured}
         /\ BestSample \in Nat \ {0} /\ BestSample >= TrueCost
         /\ TrueCost \in {measured[i] : i \in DOMAIN measured} => BestSample = TrueCost
  <1>1. PICK n \in Nat \ {0} : n = Len(measured) /\ DOMAIN measured = 1..n
                               /\ measured \in [1..n -> Samples]
    OBVIOUS
  <1>2. /\ Samples \subseteq Nat /\ TrueCost \in Nat \ {0}
        /\ \A s \in Samples : s >= TrueCost
    BY DEF RerankBounds
  <1>3. measured \in [1..n -> Nat]
    BY <1>1, <1>2
  <1>4. /\ BestSample \in {measured[i] : i \in 1..n}
        /\ \A i \in 1..n : BestSample <= measured[i]
    BY <1>1, <1>3, LeastOf DEF BestSample
  <1>5. BestSample \in Samples
    BY <1>1, <1>4
  <1>6. BestSample \in Nat \ {0} /\ BestSample >= TrueCost
    BY <1>2, <1>5
  <1>7. ASSUME TrueCost \in {measured[i] : i \in 1..n} PROVE BestSample = TrueCost
    <2>1. BestSample <= TrueCost
      BY <1>4, <1>7
    <2> QED
      BY <1>2, <1>6, <2>1
  <1> QED
    BY <1>1, <1>4, <1>6, <1>7

(* Whatever the cap, what is fed stays within the budget.                  *)
LEMMA CapWithinBudget ==
  ASSUME RerankBounds, RerankInv, NEW n \in Nat
  PROVE  Fed(n) \in Nat /\ Fed(n) <= n /\ (Fed(n) = 0 => n = 0) /\ FedWithin(Fed(n))
  <1>1. /\ TrueCost \in Nat \ {0} /\ Budget \in Nat \ {0} /\ MinCap \in Nat \ {0}
        /\ MaxCap \in Nat \ {0} /\ ExplicitCap \in Nat \cup {NoCap}
    BY DEF RerankBounds
  <1>2. CASE ExplicitCap # NoCap
    <2>1. Cap \in Nat
      BY <1>1, <1>2 DEF Cap
    <2> QED
      BY <1>2, <2>1 DEF Fed, FedWithin, AtMost
  <1>3. CASE ExplicitCap = NoCap /\ derived = NoCap
    <2>1. Cap = MinCap
      BY <1>3 DEF Cap
    <2> QED
      BY <1>1, <2>1 DEF Fed, FedWithin, AtMost
  <1>4. CASE ExplicitCap = NoCap /\ derived # NoCap
    <2>1. measured \in Seq(Samples) /\ measured # <<>> /\ derived = DerivedCap(BestSample)
      BY <1>4 DEF RerankInv, RerankTypes, CapMeasured
    <2>2. BestSample \in Nat \ {0} /\ BestSample >= TrueCost
      BY <2>1, BestOfSamples
    <2>3. PICK most \in Nat : most = Budget \div BestSample /\ most * BestSample <= Budget
      BY <1>1, <2>2, QuotientBelow
    <2>4. Cap = AtLeast(MinCap, AtMost(MaxCap, most))
      BY <1>4, <2>1, <2>3 DEF Cap, DerivedCap
    <2>5. Cap \in Nat /\ Cap >= MinCap /\ (Cap <= MinCap \/ Cap <= most)
      BY <1>1, <2>3, <2>4 DEF AtLeast, AtMost
    <2> DEFINE c == Cap
    <2> HIDE DEF c
    <2>6. c \in Nat /\ c # 0 /\ (c <= MinCap \/ c <= most)
      BY <1>1, <2>5 DEF c
    <2>7. Fed(n) = AtMost(n, c)
      BY <2>6 DEF Fed, c
    <2>8. /\ Fed(n) \in Nat /\ Fed(n) <= n /\ Fed(n) <= c /\ (Fed(n) = 0 => n = 0)
      BY <2>6, <2>7 DEF AtMost
    <2>9. FedWithin(Fed(n))
      <3>1. CASE c <= MinCap
        BY <1>1, <2>6, <2>8, <3>1 DEF FedWithin
      <3>2. CASE c <= most
        <4>1. Fed(n) <= most
          BY <2>3, <2>6, <2>8, <3>2
        <4>2. Fed(n) * TrueCost <= most * BestSample
          BY <1>1, <2>2, <2>3, <2>8, <4>1, ProductMonotone
        <4>3. Fed(n) * TrueCost \in Nat /\ most * BestSample \in Nat
          BY <1>1, <2>2, <2>3, <2>8
        <4>4. Fed(n) * TrueCost <= Budget
          BY <1>1, <2>3, <4>2, <4>3
        <4> QED
          BY <4>4 DEF FedWithin
      <3> QED
        BY <2>6, <3>1, <3>2
    <2> QED
      BY <2>8, <2>9
  <1> QED
    BY <1>2, <1>3, <1>4

LEMMA RerankInitInv == ASSUME RerankBounds PROVE RerankInit => RerankInv
  <1> SUFFICES ASSUME RerankInit PROVE RerankInv
    OBVIOUS
  <1>1. RerankTypes
    <2>1. <<>> \in Seq(Samples) /\ <<>> \in Seq(Entry)
      OBVIOUS
    <2>2. Unasked \in Ask
      BY <2>1 DEF Ask, AskStages, Unasked
    <2> QED
      BY <2>1, <2>2 DEF RerankInit, RerankTypes, BootStages
  <1>2. CapMeasured
    BY DEF RerankInit, CapMeasured
  <1>3. LetOnAfterBoot
    BY DEF RerankInit, LetOnAfterBoot, Unasked
  <1>4. FedRight
    <2>1. MinCap \in Nat
      BY DEF RerankBounds
    <2> QED
      BY <2>1 DEF RerankInit, FedRight, FedWithin, Unasked
  <1>5. AnsweredInFull
    BY DEF RerankInit, AnsweredInFull, Unasked
  <1> QED
    BY <1>1, <1>2, <1>3, <1>4, <1>5 DEF RerankInv

(* The steps of the boot, keep-alive and download threads.                 *)
LEMMA BootStep ==
  ASSUME RerankBounds, RerankInv,
         TakeSample \/ PrewarmFails \/ WarmUp \/ Publish \/ Raise \/ KeepAlive \/ Redownloaded
  PROVE  RerankInv'
  <1>1. asks' = asks
    BY DEF TakeSample, PrewarmFails, WarmUp, Publish, Raise, KeepAlive, Redownloaded
  <1>2. RerankTypes'
    <2>1. booting' \in BootStages /\ ready' \in BOOLEAN
      BY DEF RerankInv, RerankTypes, BootStages, TakeSample, PrewarmFails, WarmUp,
             Publish, Raise, KeepAlive, Redownloaded
    <2>2. measured' \in Seq(Samples)
      BY DEF RerankInv, RerankTypes, TakeSample, PrewarmFails, WarmUp, Publish, Raise,
             KeepAlive, Redownloaded
    <2> QED
      BY <1>1, <2>1, <2>2 DEF RerankInv, RerankTypes
  <1>3. booting \in {"over", "failed"} => booting' = booting
    BY DEF TakeSample, PrewarmFails, WarmUp, Publish, Raise, KeepAlive, Redownloaded
  <1>4. CapMeasured'
    <2>1. CASE TakeSample
      <3>1. measured' # <<>>
        BY SMTT(30), <2>1 DEF TakeSample, RerankInv, RerankTypes
      <3> QED
        BY <2>1, <3>1 DEF TakeSample, RerankInv, CapMeasured
    <2>2. CASE PrewarmFails
      BY <2>2 DEF PrewarmFails, RerankInv, CapMeasured
    <2>3. CASE WarmUp
      BY <2>3 DEF WarmUp, RerankInv, CapMeasured
    <2>4. CASE Publish
      BY <2>4 DEF Publish, RerankInv, CapMeasured, BestSample
    <2>5. CASE Raise
      BY <2>5 DEF Raise, RerankInv, CapMeasured, BestSample
    <2>6. CASE KeepAlive
      BY <2>6 DEF KeepAlive, RerankInv, CapMeasured, BestSample
    <2>7. CASE Redownloaded
      BY <2>7 DEF Redownloaded, RerankInv, CapMeasured, BestSample
    <2> QED
      BY <2>1, <2>2, <2>3, <2>4, <2>5, <2>6, <2>7
  <1>5. LetOnAfterBoot'
    BY <1>1, <1>3 DEF RerankInv, LetOnAfterBoot
  <1>6. FedRight' /\ AnsweredInFull'
    BY <1>1 DEF RerankInv, FedRight, FedWithin, AnsweredInFull
  <1> QED
    BY <1>2, <1>4, <1>5, <1>6 DEF RerankInv

(* A step of one recall keeps the invariant when its own entry does.       *)
LEMMA AskStep ==
  ASSUME RerankInv, NEW q \in Askers, NEW a \in Ask, asks' = [asks EXCEPT ![q] = a],
         UNCHANGED <<booting, measured, derived, ready>>,
         a.at \in {"cap", "load", "score", "ranked"} => booting \in {"over", "failed"},
         a.fed <= a.size,
         a.at \in {"load", "score", "ranked"} /\ a.fed = 0 => a.size = 0,
         FedWithin(a.fed),
         a.at \in {"ranked", "plain"} => Complete(a.order, a.size),
         a.at = "ranked" => ScoredAhead(a.order, a.fed)
  PROVE  RerankInv'
  <1>1. asks \in [Askers -> Ask]
    BY DEF RerankInv, RerankTypes
  <1>2. asks'[q] = a /\ \A r \in Askers : r # q => asks'[r] = asks[r]
    BY <1>1
  <1>3. RerankTypes'
    BY <1>1 DEF RerankInv, RerankTypes
  <1>4. CapMeasured'
    BY DEF RerankInv, CapMeasured, BestSample
  <1>5. LetOnAfterBoot'
    BY <1>2 DEF RerankInv, LetOnAfterBoot
  <1>6. FedRight'
    BY <1>2 DEF RerankInv, FedRight, FedWithin
  <1>7. AnsweredInFull'
    BY <1>2 DEF RerankInv, AnsweredInFull
  <1> QED
    BY <1>3, <1>4, <1>5, <1>6, <1>7 DEF RerankInv

(* The steps of a recall.                                                  *)
LEMMA RecallStep ==
  ASSUME RerankBounds, RerankInv, NEW q \in Askers,
         (\E n \in Sizes : AskRanked(q, n)) \/ TakeCap(q) \/ LoadForAsk(q)
         \/ RerankScore(q) \/ AskFails(q)
  PROVE  RerankInv'
  <1>1. asks \in [Askers -> Ask] /\ asks[q] \in Ask
    BY DEF RerankInv, RerankTypes
  <1>2. PICK at \in AskStages, size \in Nat, fed \in Nat, order \in Seq(Entry) :
          asks[q] = [at |-> at, size |-> size, fed |-> fed, order |-> order]
    BY <1>1 DEF Ask
  <1>3. asks[q].at = at /\ asks[q].size = size /\ asks[q].fed = fed /\ asks[q].order = order
    BY <1>2
  <1>4. /\ at \in {"cap", "load", "score", "ranked"} => booting \in {"over", "failed"}
        /\ fed <= size /\ FedWithin(fed)
        /\ at \in {"load", "score", "ranked"} /\ fed = 0 => size = 0
    BY <1>2 DEF RerankInv, LetOnAfterBoot, FedRight
  <1>5. CASE \E n \in Sizes : AskRanked(q, n)
    <2>1. PICK n \in Sizes : AskRanked(q, n)
      BY <1>5
    <2>2. n \in Nat /\ MinCap \in Nat
      BY DEF RerankBounds
    <2>3. FedWithin(0)
      BY <2>2 DEF FedWithin
    <2>4. CASE ready
      <3> DEFINE a == [at |-> "cap", size |-> n, fed |-> 0, order |-> <<>>]
      <3>1. asks' = [asks EXCEPT ![q] = a]
        <4>1. PICK s : s = [Unasked EXCEPT !.at = "cap"]
          OBVIOUS
        <4>2. s = [at |-> "cap", size |-> 0, fed |-> 0, order |-> <<>>]
          BY <4>1 DEF Unasked
        <4>3. PICK t : t = [s EXCEPT !.size = n]
          OBVIOUS
        <4>4. t = a
          BY <4>2, <4>3
        <4> QED
          BY <2>1, <2>4, <4>1, <4>3, <4>4 DEF AskRanked, IsReady
      <3>2. a \in Ask
        BY <2>2 DEF Ask, AskStages
      <3>3. booting \in {"over", "failed"}
        BY <2>4 DEF RerankInv, CapMeasured
      <3>4. UNCHANGED <<booting, measured, derived, ready>>
        BY <2>1 DEF AskRanked
      <3>5. a.at = "cap" /\ a.size = n /\ a.fed = 0 /\ 0 <= n
        BY <2>2
      <3> HIDE DEF a
      <3> QED
        BY <2>3, <3>1, <3>2, <3>3, <3>4, <3>5, AskStep
    <2>5. CASE ~ready
      <3> DEFINE a == [at |-> "plain", size |-> n, fed |-> 0, order |-> Unranked(n)]
      <3>1. asks' = [asks EXCEPT ![q] = a]
        <4>1. PICK s : s = [Unasked EXCEPT !.at = "plain"]
          OBVIOUS
        <4>2. s = [at |-> "plain", size |-> 0, fed |-> 0, order |-> <<>>]
          BY <4>1 DEF Unasked
        <4>3. PICK t : t = [s EXCEPT !.size = n]
          OBVIOUS
        <4>4. t = [at |-> "plain", size |-> n, fed |-> 0, order |-> <<>>]
          BY <4>2, <4>3
        <4>5. PICK u : u = [t EXCEPT !.order = Unranked(n)]
          OBVIOUS
        <4>6. u = a
          BY <4>4, <4>5
        <4> QED
          BY <2>1, <2>5, <4>1, <4>3, <4>5, <4>6 DEF AskRanked, IsReady
      <3>2. Unranked(n) \in Seq(Entry) /\ Complete(Unranked(n), n)
        BY <2>2, UnrankedComplete
      <3>3. a \in Ask
        BY <2>2, <3>2 DEF Ask, AskStages
      <3>4. UNCHANGED <<booting, measured, derived, ready>>
        BY <2>1 DEF AskRanked
      <3>5. 0 <= n
        BY <2>2
      <3> QED
        BY <2>3, <3>1, <3>2, <3>3, <3>4, <3>5, AskStep
    <2> QED
      BY <2>4, <2>5
  <1>6. CASE TakeCap(q)
    <2> DEFINE a == [at |-> IF loaded THEN "score" ELSE "load",
                     size |-> size, fed |-> Fed(size), order |-> order]
    <2>1. Fed(size) \in Nat /\ Fed(size) <= size /\ (Fed(size) = 0 => size = 0)
          /\ FedWithin(Fed(size))
      BY CapWithinBudget
    <2>2. at = "cap"
      BY <1>2, <1>6 DEF TakeCap
    <2>3. asks' = [asks EXCEPT ![q] = a]
      BY <1>1, <1>2, <1>6 DEF TakeCap
    <2>4. a \in Ask /\ a.at \in {"score", "load"}
      BY <2>1 DEF Ask, AskStages
    <2>5. UNCHANGED <<booting, measured, derived, ready>>
      BY <1>6 DEF TakeCap
    <2> QED
      BY <1>4, <2>1, <2>2, <2>3, <2>4, <2>5, AskStep
  <1>7. CASE LoadForAsk(q)
    <2> DEFINE a == [at |-> "score", size |-> size, fed |-> fed, order |-> order]
    <2>1. at = "load"
      BY <1>2, <1>7 DEF LoadForAsk
    <2>2. asks' = [asks EXCEPT ![q] = a]
      <3>1. [asks[q] EXCEPT !.at = "score"] = a
        BY <1>2
      <3> QED
        BY <1>1, <1>7, <3>1 DEF LoadForAsk
    <2>3. a \in Ask
      BY DEF Ask, AskStages
    <2>4. UNCHANGED <<booting, measured, derived, ready>>
      BY <1>7 DEF LoadForAsk
    <2> QED
      BY <1>4, <2>1, <2>2, <2>3, <2>4, AskStep
  <1>8. CASE RerankScore(q)
    <2>1. PICK scores \in [1..fed -> Scores] :
            asks' = [asks EXCEPT ![q].at = "ranked", ![q].order = Ranked(size, fed, scores)]
      BY <1>3, <1>8 DEF RerankScore
    <2> DEFINE a == [at |-> "ranked", size |-> size, fed |-> fed,
                     order |-> Ranked(size, fed, scores)]
    <2>2. at = "score"
      BY <1>2, <1>8 DEF RerankScore
    <2>3. asks' = [asks EXCEPT ![q] = a]
      <3>1. PICK s : s = [asks[q] EXCEPT !.at = "ranked"]
        OBVIOUS
      <3>2. s = [at |-> "ranked", size |-> size, fed |-> fed, order |-> order]
        BY <1>2, <3>1
      <3>3. PICK t : t = [s EXCEPT !.order = Ranked(size, fed, scores)]
        OBVIOUS
      <3>4. t = a
        BY <3>2, <3>3
      <3> QED
        BY <1>1, <2>1, <3>1, <3>3, <3>4
    <2>4. scores \in [1..fed -> Nat \ {0}] /\ fed \in 0..size /\ (fed = 0 => size = 0)
      <3>1. Scores \subseteq Nat \ {0}
        BY DEF RerankBounds
      <3>2. scores \in [1..fed -> Nat \ {0}]
        BY <2>1, <3>1
      <3>3. fed \in 0..size /\ (fed = 0 => size = 0)
        BY <1>4, <2>2
      <3> QED
        BY <3>2, <3>3
    <2>5. /\ Ranked(size, fed, scores) \in Seq(Entry)
          /\ Complete(Ranked(size, fed, scores), size)
          /\ ScoredAhead(Ranked(size, fed, scores), fed)
      BY <2>4, RankedComplete
    <2>6. a \in Ask
      BY <2>5 DEF Ask, AskStages
    <2>7. UNCHANGED <<booting, measured, derived, ready>>
      BY <1>8 DEF RerankScore
    <2> QED
      BY <1>4, <2>2, <2>3, <2>4, <2>5, <2>6, <2>7, AskStep
  <1>9. CASE AskFails(q)
    <2> DEFINE a == [at |-> "plain", size |-> size, fed |-> fed, order |-> Unranked(size)]
    <2>1. asks' = [asks EXCEPT ![q] = a]
      <3>1. PICK s : s = [asks[q] EXCEPT !.at = "plain"]
        OBVIOUS
      <3>2. s = [at |-> "plain", size |-> size, fed |-> fed, order |-> order]
        BY <1>2, <3>1
      <3>3. PICK t : t = [s EXCEPT !.order = Unranked(size)]
        OBVIOUS
      <3>4. t = a
        BY <3>2, <3>3
      <3> QED
        BY <1>1, <1>3, <1>9, <3>1, <3>3, <3>4 DEF AskFails
    <2>2. Unranked(size) \in Seq(Entry) /\ Complete(Unranked(size), size)
      BY UnrankedComplete
    <2>3. a \in Ask
      BY <2>2 DEF Ask, AskStages
    <2>4. UNCHANGED <<booting, measured, derived, ready>>
      BY <1>9 DEF AskFails
    <2> QED
      BY <1>4, <2>1, <2>2, <2>3, <2>4, AskStep
  <1> QED
    BY <1>5, <1>6, <1>7, <1>8, <1>9

LEMMA RerankNextInv == ASSUME RerankBounds, RerankInv, [RerankNext]_rerankVars PROVE RerankInv'
  <1>1. CASE RerankNext
    <2>1. CASE TakeSample \/ PrewarmFails \/ WarmUp \/ Publish \/ Raise \/ KeepAlive
               \/ Redownloaded
      BY <2>1, BootStep
    <2>2. CASE \E q \in Askers : \/ \E n \in Sizes : AskRanked(q, n)
                                 \/ TakeCap(q) \/ LoadForAsk(q) \/ RerankScore(q) \/ AskFails(q)
      <3>1. PICK q \in Askers : \/ \E n \in Sizes : AskRanked(q, n)
                                \/ TakeCap(q) \/ LoadForAsk(q) \/ RerankScore(q) \/ AskFails(q)
        BY <2>2
      <3> QED
        BY <3>1, RecallStep
    <2> QED
      BY <1>1, <2>1, <2>2 DEF RerankNext
  <1>2. CASE UNCHANGED rerankVars
    BY <1>2 DEF rerankVars, RerankInv, RerankTypes, CapMeasured, BestSample, LetOnAfterBoot,
                FedRight, FedWithin, AnsweredInFull
  <1> QED
    BY <1>1, <1>2

(* No recall waits for the boot thread, what is fed stays within the       *)
(* budget, and an answer holds every candidate once, best first, whatever  *)
(* was measured, however many recalls arrive and calls fail.               *)
THEOREM RankingIsSound == RerankSpec => []RerankSound
  <1>1. RerankInv => RerankSound
    <2> SUFFICES ASSUME RerankInv PROVE RerankSound
      OBVIOUS
    <2>1. NoRecallWaitsForBoot
      BY DEF RerankInv, LetOnAfterBoot, NoRecallWaitsForBoot
    <2>2. WithinBudget
      <3>1. ASSUME derived # NoCap, TrueCost \in {measured[i] : i \in DOMAIN measured}
            PROVE  derived = AtLeast(MinCap, AtMost(MaxCap, Budget \div TrueCost))
        <4>1. derived = DerivedCap(BestSample) /\ measured # <<>> /\ measured \in Seq(Samples)
          BY <3>1 DEF RerankInv, CapMeasured, RerankTypes
        <4>2. BestSample = TrueCost
          BY <3>1, <4>1, RerankBounds, BestOfSamples
        <4> QED
          BY <4>1, <4>2 DEF DerivedCap
      <3>2. ExplicitCap = NoCap =>
              \A q \in Askers : asks[q].fed <= MinCap \/ asks[q].fed * TrueCost <= Budget
        BY DEF RerankInv, FedRight, FedWithin
      <3> QED
        BY <3>1, <3>2 DEF WithinBudget
    <2>3. EveryCandidateRanked
      BY DEF RerankInv, AnsweredInFull, Complete, ScoredAhead, EveryCandidateRanked
    <2> QED
      BY <2>1, <2>2, <2>3 DEF RerankSound
  <1>2. RerankInit => RerankInv
    BY RerankBounds, RerankInitInv
  <1>3. RerankInv /\ [RerankNext]_rerankVars => RerankInv'
    BY RerankBounds, RerankNextInv
  <1> QED
    BY <1>1, <1>2, <1>3, PTL DEF RerankSpec

-----------------------------------------------------------------------------
(* Consolidation.  Passes that are under way together have raced.  What a  *)
(* pass read still stands, as far as subject and date go; it has the facts *)
(* that were there when it began to answer for, until each is in a dossier *)
(* or excused; and no dossier of a pass it did not race is newer than what *)
(* it read.                                                                *)
SleepRows == [id : Nat, kind : {"fact", "dossier", "inferred"}, subject : Subjects,
              saying : Sayings, from : Nat \ {0}, to : Nat, run : Nat]
Fields == [at : {"awake", "read", "close", "insert", "infer"}, run : Nat,
           read : SUBSET SleepRows, dossiers : SUBSET (Subjects \X Sayings),
           inferred : SUBSET Subjects,
           item : (Subjects \cup {NoSubject}) \X (Sayings \cup {NoSubject})]

(* The latest date of the rows of a subject.                               *)
LastDate(R, s) == CHOOSE d \in {f.from : f \in {g \in R : g.subject = s}} :
                    \A f \in {g \in R : g.subject = s} : f.from <= d

SleepTypes ==
  /\ memory \in SUBSET SleepRows /\ IsFiniteSet(memory) /\ lastRow \in Nat /\ runs \in Nat
  /\ \A r \in memory : r.id <= lastRow /\ r.run <= runs
  /\ pass \in [Passes -> Fields]

RacedTogether ==
  \A p, q \in Passes : p # q /\ pass[p] # Awake /\ pass[q] # Awake =>
    pass[p].run # pass[q].run /\ pass[p].run \in raced

PassSound(p) ==
  /\ pass[p].at # "awake" /\ pass[p].run <= runs /\ IsFiniteSet(pass[p].read)
  /\ \A f \in pass[p].read : \E g \in memory :
       g.kind = "fact" /\ g.subject = f.subject /\ g.from = f.from
  /\ \A i \in pass[p].dossiers : \E f \in pass[p].read : f.subject = i[1]
  /\ \A s \in pass[p].inferred : \E f \in pass[p].read : f.subject = s
  /\ pass[p].at = "insert" => pass[p].item \in pass[p].dossiers
  /\ pass[p].at = "infer" => \E f \in pass[p].read : f.subject = pass[p].item[1]
PassesSound == \A p \in Passes : pass[p] # Awake => PassSound(p)

OlderClosed ==
  \A p \in Passes : pass[p] # Awake /\ pass[p].at = "insert" =>
    \A q \in memory :
      /\ q.kind = "dossier" /\ q.to = 0 /\ q.subject = pass[p].item[1]
      /\ q.saying # pass[p].item[2] /\ q.from < LastDate(pass[p].read, pass[p].item[1])
      => q.run \in raced \/ pass[p].run \in raced

InferredClosed ==
  \A p \in Passes : pass[p] # Awake /\ pass[p].at = "infer" =>
    \A q \in memory :
      /\ q.kind = "inferred" /\ q.to = 0 /\ q.subject = pass[p].item[1]
      /\ q.run # pass[p].run
      => q.run \in raced /\ pass[p].run \in raced

ReadOlder ==
  \A p \in Passes : pass[p] # Awake =>
    \A q \in memory : q.kind = "dossier" =>
      \/ q.run = pass[p].run \/ q.run \in raced \/ pass[p].run \in raced
      \/ \E f \in pass[p].read : f.subject = q.subject /\ f.from = q.from

OwnDate ==
  \A p \in Passes : pass[p] # Awake =>
    \A q \in memory : q.kind = "dossier" /\ q.run = pass[p].run =>
      q.from = LastDate(pass[p].read, q.subject)

Sourced ==
  \A q \in memory : q.kind = "dossier" =>
    \E f \in memory : f.kind = "fact" /\ f.subject = q.subject /\ f.from = q.from

AnswersFor ==
  \A p \in Passes : pass[p] # Awake =>
    /\ \A f \in memory : f.kind = "fact" =>
         f.id \in excused \cup written \cup IdsOf(pass[p].read)
    /\ pass[p].at # "read" => \A f \in pass[p].read :
         f.id \in excused \cup written \/ \E i \in pass[p].dossiers : i[1] = f.subject

NewerThanDossiers ==
  (\A p \in Passes : pass[p] = Awake) =>
    \A f, d \in memory : f.kind = "fact" /\ d.kind = "dossier" =>
      f.id \in excused \cup written \/ d.id < f.id

Sleeping == /\ RacedTogether /\ PassesSound /\ OlderClosed /\ InferredClosed /\ ReadOlder
            /\ OwnDate /\ Sourced /\ AnswersFor /\ NewerThanDossiers
SleepInv == SleepTypes /\ Sleeping /\ NoStaleDossier /\ SentencesKept /\ OneInference

(* A finite set of rows has a latest one.                                  *)
LEMMA LatestExists ==
  ASSUME NEW R \in SUBSET SleepRows, IsFiniteSet(R), R # {}
  PROVE  \E r \in R : \A q \in R : q.from <= r.from
  <1> DEFINE after(r) == {q \in R : q.from > r.from}
             counts == {Cardinality(after(r)) : r \in R}
  <1>1. \A r \in R : r.from \in Nat
    BY DEF SleepRows
  <1>2. ASSUME NEW r \in R PROVE IsFiniteSet(after(r)) /\ Cardinality(after(r)) \in Nat
    <2>1. after(r) \in SUBSET R
      OBVIOUS
    <2> QED
      BY <2>1, FS_Subset, FS_CardinalityType
  <1>3. counts \in SUBSET Nat /\ counts # {}
    BY <1>2
  <1>4. PICK n \in counts : \A m \in counts : n <= m
    BY <1>3, LeastExists
  <1>5. PICK r \in R : n = Cardinality(after(r))
    BY <1>4
  <1>6. ASSUME NEW q \in R, q.from > r.from PROVE FALSE
    <2>1. after(q) \subseteq after(r) /\ q \in after(r) /\ q \notin after(q)
      BY <1>1, <1>6
    <2>2. after(q) \in SUBSET after(r)
      BY <2>1
    <2>3. /\ Cardinality(after(q)) <= Cardinality(after(r))
          /\ Cardinality(after(r)) = Cardinality(after(q)) => after(r) = after(q)
      BY <1>2, <2>2, FS_Subset
    <2>4. n <= Cardinality(after(q))
      BY <1>4
    <2> HIDE DEF after, counts
    <2>5. Cardinality(after(q)) \in Nat /\ Cardinality(after(r)) \in Nat
      BY <1>2
    <2> QED
      BY <1>5, <2>1, <2>3, <2>4, <2>5
  <1>7. \A q \in R : q.from <= r.from
    BY <1>1, <1>6
  <1> QED
    BY <1>7

LEMMA LastDateOf ==
  ASSUME NEW R \in SUBSET SleepRows, IsFiniteSet(R), NEW s,
         \E f \in R : f.subject = s
  PROVE  /\ LastDate(R, s) \in Nat \ {0}
         /\ \E f \in R : f.subject = s /\ f.from = LastDate(R, s)
         /\ \A f \in R : f.subject = s => f.from <= LastDate(R, s)
  <1> DEFINE C == {g \in R : g.subject = s}
  <1>1. C \in SUBSET R /\ C # {}
    OBVIOUS
  <1>2. IsFiniteSet(C) /\ C \in SUBSET SleepRows
    BY <1>1, FS_Subset
  <1>3. PICK r \in C : \A q \in C : q.from <= r.from
    BY <1>1, <1>2, LatestExists
  <1>4. \E d \in {f.from : f \in C} : \A f \in C : f.from <= d
    BY <1>3
  <1>5. /\ LastDate(R, s) \in {f.from : f \in C}
        /\ \A f \in C : f.from <= LastDate(R, s)
    BY <1>4 DEF LastDate
  <1>6. PICK f \in C : f.from = LastDate(R, s)
    BY <1>5
  <1>7. f.from \in Nat \ {0}
    BY <1>2 DEF SleepRows
  <1> QED
    BY <1>5, <1>6, <1>7

(* A row and what an UPDATE of its end has made of it.                     *)
SameRow(q, r) ==
  /\ q.id = r.id /\ q.kind = r.kind /\ q.subject = r.subject
  /\ q.saying = r.saying /\ q.from = r.from /\ q.run = r.run

(* The rows after some of them have been closed.                           *)
Ended(closed, d) == {IF r \in closed THEN [r EXCEPT !.to = d] ELSE r : r \in memory}

LEMMA Closing ==
  ASSUME SleepTypes, NEW closed \in SUBSET memory, NEW d \in Nat \ {0}, NEW M,
         M = Ended(closed, d)
  PROVE  /\ M \in SUBSET SleepRows /\ IsFiniteSet(M)
         /\ \A r \in M : \E q \in memory :
              /\ SameRow(q, r)
              /\ IF q \in closed THEN r.to = d ELSE r.to = q.to
         /\ \A q \in memory : \E r \in M :
              /\ SameRow(q, r)
              /\ IF q \in closed THEN r.to = d ELSE r.to = q.to
  <1> DEFINE f == [r \in memory |-> IF r \in closed THEN [r EXCEPT !.to = d] ELSE r]
  <1>1. ASSUME NEW q \in memory
        PROVE  /\ f[q] \in SleepRows
               /\ SameRow(q, f[q])
               /\ IF q \in closed THEN f[q].to = d ELSE f[q].to = q.to
    <2>1. q \in SleepRows
      BY DEF SleepTypes
    <2>2. CASE q \in closed
      BY <2>1, <2>2 DEF SleepRows, SameRow
    <2>3. CASE q \notin closed
      BY <2>1, <2>3 DEF SameRow
    <2> QED
      BY <2>2, <2>3
  <1>2. M = {f[r] : r \in memory}
    BY DEF Ended
  <1>3. f \in Surjection(memory, M)
    BY <1>2 DEF Surjection
  <1>4. IsFiniteSet(M)
    BY <1>3, FS_Surjection DEF SleepTypes
  <1> HIDE DEF f
  <1>5. M \in SUBSET SleepRows
    BY <1>1, <1>2
  <1>6. \A r \in M : \E q \in memory : r = f[q]
    BY <1>2
  <1>7. \A q \in memory : f[q] \in M
    BY <1>2
  <1> QED
    BY <1>1, <1>4, <1>5, <1>6, <1>7

(* What a step of one pass leaves of the others.                           *)
LEMMA OnePass ==
  ASSUME SleepTypes, NEW p \in Passes, NEW a, pass' = [pass EXCEPT ![p] = a]
  PROVE  /\ pass[p] \in Fields /\ pass'[p] = a
         /\ \A q \in Passes : q # p => pass'[q] = pass[q]
         /\ a \in Fields => pass' \in [Passes -> Fields]
  BY DEF SleepTypes

(* A pass that thinks, or gives up an item, keeps the invariant when what  *)
(* it still means to write is drawn from what it read.                     *)
LEMMA ThoughtStep ==
  ASSUME SleepInv, NEW p \in Passes, NEW a \in Fields, pass[p] # Awake,
         pass' = [pass EXCEPT ![p] = a], UNCHANGED <<memory, lastRow, runs, raced, written>>,
         excused \subseteq excused',
         a.at = "close", a.run = pass[p].run, a.read = pass[p].read,
         \A i \in a.dossiers : \E f \in a.read : f.subject = i[1],
         \A s \in a.inferred : \E f \in a.read : f.subject = s,
         \A f \in a.read : f.id \in excused' \cup written
                           \/ \E i \in a.dossiers : i[1] = f.subject
  PROVE  SleepInv'
  <1>1. /\ pass'[p] = a /\ \A q \in Passes : q # p => pass'[q] = pass[q]
        /\ pass' \in [Passes -> Fields]
    BY OnePass DEF SleepInv
  <1>2. SleepTypes'
    BY <1>1 DEF SleepInv, SleepTypes
  <1>3. RacedTogether'
    BY <1>1 DEF SleepInv, Sleeping, RacedTogether
  <1>4. PassesSound'
    BY <1>1 DEF SleepInv, Sleeping, PassesSound, PassSound
  <1>5. OlderClosed' /\ InferredClosed'
    BY <1>1 DEF SleepInv, Sleeping, OlderClosed, InferredClosed
  <1>6. ReadOlder' /\ OwnDate'
    BY <1>1 DEF SleepInv, Sleeping, ReadOlder, OwnDate
  <1>7. Sourced'
    BY DEF SleepInv, Sleeping, Sourced
  <1>8. AnswersFor'
    BY <1>1 DEF SleepInv, Sleeping, AnswersFor
  <1>9. NewerThanDossiers'
    BY <1>1 DEF SleepInv, Sleeping, NewerThanDossiers, Awake
  <1>10. NoStaleDossier' /\ SentencesKept' /\ OneInference'
    BY DEF SleepInv, NoStaleDossier, SentencesKept, OneInference, Live, Current, Facts
  <1> QED
    BY <1>2, <1>3, <1>4, <1>5, <1>6, <1>7, <1>8, <1>9, <1>10 DEF SleepInv, Sleeping

(* A pass that ends has answered for all it read.                          *)
LEMMA WakeStep ==
  ASSUME SleepInv, NEW p \in Passes, pass[p] # Awake, pass' = [pass EXCEPT ![p] = Awake],
         UNCHANGED <<memory, lastRow, runs, raced, written>>, excused \subseteq excused',
         \A f \in pass[p].read : f.id \in excused' \cup written
  PROVE  SleepInv'
  <1>1. /\ pass'[p] = Awake /\ \A q \in Passes : q # p => pass'[q] = pass[q]
    BY OnePass DEF SleepInv
  <1>2. SleepTypes'
    <2>1. Awake \in Fields
      BY DEF Awake, Fields, NoItem
    <2> QED
      BY <2>1, OnePass DEF SleepInv, SleepTypes
  <1>3. RacedTogether' /\ PassesSound' /\ OlderClosed' /\ InferredClosed'
    BY <1>1 DEF SleepInv, Sleeping, RacedTogether, PassesSound, PassSound, OlderClosed, InferredClosed
  <1>4. ReadOlder' /\ OwnDate' /\ Sourced'
    BY <1>1 DEF SleepInv, Sleeping, ReadOlder, OwnDate, Sourced
  <1>5. AnswersFor'
    BY <1>1 DEF SleepInv, Sleeping, AnswersFor
  <1>6. NewerThanDossiers'
    <2>1. \A f \in memory : f.kind = "fact" => f.id \in excused' \cup written
      BY DEF SleepInv, Sleeping, AnswersFor, IdsOf
    <2> QED
      BY <2>1 DEF NewerThanDossiers
  <1>7. NoStaleDossier' /\ SentencesKept' /\ OneInference'
    BY DEF SleepInv, NoStaleDossier, SentencesKept, OneInference, Live, Current, Facts
  <1> QED
    BY <1>2, <1>3, <1>4, <1>5, <1>6, <1>7 DEF SleepInv, Sleeping

LEMMA BeginPassStep ==
  ASSUME SleepInv, NEW p \in Passes, BeginPass(p) PROVE SleepInv'
  <1> DEFINE a == [at |-> "read", run |-> runs + 1, read |-> Facts, dossiers |-> {},
                   inferred |-> {}, item |-> NoItem]
  <1>1. pass' = [pass EXCEPT ![p] = a] /\ pass[p] = Awake
    <2>1. PICK s : s = [Awake EXCEPT !.at = "read"]
      OBVIOUS
    <2>2. s = [at |-> "read", run |-> 0, read |-> {}, dossiers |-> {}, inferred |-> {},
               item |-> NoItem]
      BY <2>1 DEF Awake
    <2>3. PICK t : t = [s EXCEPT !.run = runs + 1]
      OBVIOUS
    <2>4. t = [at |-> "read", run |-> runs + 1, read |-> {}, dossiers |-> {},
               inferred |-> {}, item |-> NoItem]
      BY <2>2, <2>3
    <2>5. PICK u : u = [t EXCEPT !.read = Facts]
      OBVIOUS
    <2>6. u = a
      BY <2>4, <2>5
    <2> QED
      BY <2>1, <2>3, <2>5, <2>6 DEF BeginPass
  <1>2. /\ a.at = "read" /\ a.run = runs + 1 /\ a.read = Facts /\ a.dossiers = {}
        /\ a.inferred = {}
    OBVIOUS
  <1>3. UNCHANGED <<memory, lastRow, written, excused>> /\ runs' = runs + 1 /\ runs \in Nat
    BY DEF BeginPass, SleepInv, SleepTypes
  <1>4. a \in Fields
    <2>1. Facts \in SUBSET SleepRows
      BY DEF Facts, SleepInv, SleepTypes
    <2>2. runs + 1 \in Nat
      BY <1>3
    <2> QED
      BY <2>1, <2>2 DEF Fields, NoItem
  <1>5. a # Awake
    BY DEF Awake
  <1> HIDE DEF a
  <1>6. /\ pass'[p] = a /\ \A q \in Passes : q # p => pass'[q] = pass[q]
        /\ pass' \in [Passes -> Fields]
    BY <1>1, <1>4, OnePass DEF SleepInv
  <1>7. /\ \A q \in Passes : q # p /\ pass[q] # Awake =>
             /\ runs + 1 \in raced' /\ pass[q].run \in raced'
             /\ pass[q].run # runs + 1
        /\ raced \subseteq raced'
    <2>1. \A q \in Passes : pass[q] # Awake => q \in Asleep
      BY DEF Asleep
    <2>2. ASSUME NEW q \in Passes, pass[q] # Awake PROVE pass[q].run # runs + 1
      <3>1. pass[q].run <= runs /\ pass[q] \in Fields
        BY <2>2 DEF SleepInv, Sleeping, PassesSound, PassSound, SleepTypes
      <3> QED
        BY <1>3, <3>1 DEF Fields
    <2> QED
      BY <2>1, <2>2 DEF BeginPass
  <1>8. SleepTypes'
    <2>1. \A r \in memory : r.id <= lastRow /\ r.run <= runs + 1
      BY <1>3 DEF SleepInv, SleepTypes, SleepRows
    <2> QED
      BY <1>3, <1>6, <2>1 DEF SleepInv, SleepTypes
  <1>9. RacedTogether'
    BY <1>2, <1>6, <1>7 DEF SleepInv, Sleeping, RacedTogether
  <1>10. PassesSound'
    <2>1. ASSUME NEW q \in Passes, q # p, pass[q] # Awake PROVE pass[q].run <= runs'
      <3>1. pass[q].run <= runs /\ pass[q] \in Fields
        BY <2>1 DEF SleepInv, Sleeping, PassesSound, PassSound, SleepTypes
      <3> QED
        BY <1>3, <3>1 DEF Fields
    <2>2. IsFiniteSet(Facts)
      <3>1. Facts \in SUBSET memory
        BY DEF Facts
      <3> QED
        BY <3>1, FS_Subset DEF SleepInv, SleepTypes
    <2>3. \A f \in Facts : \E g \in memory :
            g.kind = "fact" /\ g.subject = f.subject /\ g.from = f.from
      BY DEF Facts
    <2>4. runs + 1 <= runs'
      BY <1>3
    <2> QED
      BY <1>2, <1>3, <1>6, <2>1, <2>2, <2>3, <2>4 DEF SleepInv, Sleeping, PassesSound, PassSound
  <1>11. OlderClosed' /\ InferredClosed'
    BY <1>2, <1>3, <1>6, <1>7 DEF SleepInv, Sleeping, OlderClosed, InferredClosed
  <1>12. ReadOlder'
    <2>1. \A q \in memory : q.kind = "dossier" =>
            \E f \in Facts : f.subject = q.subject /\ f.from = q.from
      BY DEF SleepInv, Sleeping, Sourced, Facts
    <2> QED
      BY <1>2, <1>3, <1>6, <1>7, <2>1 DEF SleepInv, Sleeping, ReadOlder
  <1>13. OwnDate'
    <2>1. \A q \in memory : q.run # runs + 1
      <3> SUFFICES ASSUME NEW q \in memory PROVE q.run # runs + 1
        OBVIOUS
      <3>1. q.run <= runs /\ q.run \in Nat
        BY DEF SleepInv, SleepTypes, SleepRows
      <3> QED
        BY <1>3, <3>1
    <2> QED
      BY <1>2, <1>3, <1>6, <2>1 DEF SleepInv, Sleeping, OwnDate
  <1>14. Sourced'
    BY <1>3 DEF SleepInv, Sleeping, Sourced
  <1>15. AnswersFor'
    <2>1. \A f \in memory : f.kind = "fact" => f.id \in IdsOf(Facts)
      BY DEF Facts, IdsOf
    <2> QED
      BY <1>2, <1>3, <1>6, <2>1 DEF SleepInv, Sleeping, AnswersFor
  <1>16. NewerThanDossiers'
    BY <1>5, <1>6 DEF NewerThanDossiers
  <1>17. NoStaleDossier' /\ SentencesKept' /\ OneInference'
    BY <1>3, <1>7 DEF SleepInv, NoStaleDossier, SentencesKept, OneInference, Live, Current,
                      Facts
  <1> QED
    BY <1>8, <1>9, <1>10, <1>11, <1>12, <1>13, <1>14, <1>15, <1>16, <1>17
    DEF SleepInv, Sleeping

(* What a pass is about, field by field.                                   *)
LEMMA PassFields ==
  ASSUME SleepInv, NEW p \in Passes
  PROVE  \E at \in {"awake", "read", "close", "insert", "infer"}, run \in Nat,
            read \in SUBSET SleepRows, dossiers \in SUBSET (Subjects \X Sayings),
            inferred \in SUBSET Subjects,
            item \in (Subjects \cup {NoSubject}) \X (Sayings \cup {NoSubject}) :
           pass[p] = [at |-> at, run |-> run, read |-> read, dossiers |-> dossiers,
                      inferred |-> inferred, item |-> item]
  <1>1. pass[p] \in Fields
    BY DEF SleepInv, SleepTypes
  <1> QED
    BY <1>1 DEF Fields

LEMMA CondenseStep ==
  ASSUME SleepBounds, SleepInv, NEW p \in Passes, Condense(p) PROVE SleepInv'
  <1>1. PICK at \in {"awake", "read", "close", "insert", "infer"}, run \in Nat,
            read \in SUBSET SleepRows, dossiers \in SUBSET (Subjects \X Sayings),
            inferred \in SUBSET Subjects,
            item \in (Subjects \cup {NoSubject}) \X (Sayings \cup {NoSubject}) :
           pass[p] = [at |-> at, run |-> run, read |-> read, dossiers |-> dossiers,
                      inferred |-> inferred, item |-> item]
    BY PassFields
  <1>2. pass[p].at = "read" /\ pass[p] # Awake /\ pass[p].read = read /\ pass[p].run = run
    BY <1>1 DEF Condense, Awake
  <1>3. PICK found \in SUBSET Clusters(p), xs \in (SUBSET Sayings) \ {{}},
             ends \in Conclusions(p) :
          /\ pass' = [pass EXCEPT ![p].at = "close", ![p].dossiers = found \X xs,
                                  ![p].inferred = ends]
          /\ excused' = excused \cup {f.id : f \in {g \in pass[p].read :
                                                      g.subject \notin found}}
    BY DEF Condense
  <1> DEFINE a == [at |-> "close", run |-> run, read |-> read, dossiers |-> found \X xs,
                   inferred |-> ends, item |-> item]
  <1>4. pass' = [pass EXCEPT ![p] = a]
    <2>1. PICK s : s = [pass[p] EXCEPT !.at = "close"]
      OBVIOUS
    <2>2. s = [at |-> "close", run |-> run, read |-> read, dossiers |-> dossiers,
               inferred |-> inferred, item |-> item]
      BY <1>1, <2>1
    <2>3. PICK t : t = [s EXCEPT !.dossiers = found \X xs]
      OBVIOUS
    <2>4. t = [at |-> "close", run |-> run, read |-> read, dossiers |-> found \X xs,
               inferred |-> inferred, item |-> item]
      BY <2>2, <2>3
    <2>5. PICK u : u = [t EXCEPT !.inferred = ends]
      OBVIOUS
    <2>6. u = a
      BY <2>4, <2>5
    <2>7. pass \in [Passes -> Fields]
      BY DEF SleepInv, SleepTypes
    <2> QED
      BY <1>3, <2>1, <2>3, <2>5, <2>6, <2>7
  <1>5. \A s \in Clusters(p) : s \in Subjects /\ \E f \in read : f.subject = s
    <2> SUFFICES ASSUME NEW s \in Clusters(p) PROVE \E f \in read : f.subject = s
      BY DEF Clusters
    <2>1. Cardinality(Cluster(p, s)) >= MinFacts /\ MinFacts \in Nat \ {0}
      BY DEF Clusters, SleepBounds
    <2>2. Cardinality({}) = 0
      BY FS_EmptySet
    <2>3. Cluster(p, s) # {}
      BY <2>1, <2>2
    <2> QED
      BY <1>2, <2>3 DEF Cluster
  <1>6. found \subseteq Clusters(p) /\ ends \subseteq Clusters(p) /\ xs \subseteq Sayings
        /\ xs # {}
    BY <1>3 DEF Conclusions
  <1>7. a \in Fields
    <2>1. found \X xs \in SUBSET (Subjects \X Sayings) /\ ends \in SUBSET Subjects
      BY <1>5, <1>6
    <2> QED
      BY <1>1, <2>1 DEF Fields
  <1>8. /\ \A i \in a.dossiers : \E f \in a.read : f.subject = i[1]
        /\ \A s \in a.inferred : \E f \in a.read : f.subject = s
    BY <1>5, <1>6
  <1>9. \A f \in a.read : f.id \in excused' \cup written
                          \/ \E i \in a.dossiers : i[1] = f.subject
    <2> SUFFICES ASSUME NEW f \in read, f.subject \in found
                 PROVE  \E i \in found \X xs : i[1] = f.subject
      BY <1>2, <1>3
    <2>1. PICK x \in xs : TRUE
      BY <1>6
    <2>2. <<f.subject, x>> \in found \X xs /\ <<f.subject, x>>[1] = f.subject
      OBVIOUS
    <2> QED
      BY <2>2
  <1>10. excused \subseteq excused' /\ UNCHANGED <<memory, lastRow, runs, raced, written>>
    BY <1>3 DEF Condense
  <1>11. a.at = "close" /\ a.run = pass[p].run /\ a.read = pass[p].read
    BY <1>2
  <1> HIDE DEF a
  <1> QED
    BY <1>2, <1>4, <1>7, <1>8, <1>9, <1>10, <1>11, ThoughtStep

LEMMA EndPassStep == ASSUME SleepInv, NEW p \in Passes, EndPass(p) PROVE SleepInv'
  <1>1. pass[p] # Awake
    BY DEF EndPass, Awake
  <1>2. \A f \in pass[p].read : f.id \in excused \cup written
    BY <1>1 DEF EndPass, SleepInv, Sleeping, AnswersFor
  <1> QED
    BY <1>1, <1>2, WakeStep DEF EndPass

LEMMA PassFailsStep == ASSUME SleepInv, NEW p \in Passes, PassFails(p) PROVE SleepInv'
  <1>1. /\ pass[p] # Awake /\ UNCHANGED <<memory, lastRow, runs, raced, written>>
        /\ excused' = excused \cup IdsOf(pass[p].read)
    BY DEF PassFails
  <1>2. excused \subseteq excused' /\ \A f \in pass[p].read : f.id \in excused'
    BY <1>1 DEF IdsOf
  <1>3. CASE pass' = [pass EXCEPT ![p] = Awake]
    BY <1>1, <1>2, <1>3, WakeStep
  <1>4. CASE pass' # [pass EXCEPT ![p] = Awake]
    <2>1. PICK at \in {"awake", "read", "close", "insert", "infer"}, run \in Nat,
            read \in SUBSET SleepRows, dossiers \in SUBSET (Subjects \X Sayings),
            inferred \in SUBSET Subjects,
            item \in (Subjects \cup {NoSubject}) \X (Sayings \cup {NoSubject}) :
           pass[p] = [at |-> at, run |-> run, read |-> read, dossiers |-> dossiers,
                      inferred |-> inferred, item |-> item]
      BY PassFields
    <2> DEFINE left == {i \in dossiers : i[1] # item[1]}
               a == [at |-> "close", run |-> run, read |-> read, dossiers |-> left,
                     inferred |-> inferred, item |-> NoItem]
    <2>2. pass' = [pass EXCEPT ![p] = a]
      <3>1. pass' = [pass EXCEPT ![p].at = "close", ![p].item = NoItem,
                       ![p].dossiers = {i \in @ : i[1] # pass[p].item[1]}]
        BY <1>4 DEF PassFails
      <3>2. PICK s : s = [pass[p] EXCEPT !.at = "close"]
        OBVIOUS
      <3>3. s = [at |-> "close", run |-> run, read |-> read, dossiers |-> dossiers,
                 inferred |-> inferred, item |-> item]
        BY <2>1, <3>2
      <3>4. PICK t : t = [s EXCEPT !.item = NoItem]
        OBVIOUS
      <3>5. t = [at |-> "close", run |-> run, read |-> read, dossiers |-> dossiers,
                 inferred |-> inferred, item |-> NoItem]
        BY <3>3, <3>4
      <3>6. PICK u : u = [t EXCEPT !.dossiers = left]
        OBVIOUS
      <3>7. u = a
        BY <3>5, <3>6
      <3>8. pass \in [Passes -> Fields] /\ pass[p].item = item /\ t.dossiers = dossiers
        BY <2>1, <3>5 DEF SleepInv, SleepTypes
      <3> QED
        BY ZenonT(30), <3>1, <3>2, <3>4, <3>6, <3>7, <3>8
    <2>3. /\ pass[p].read = read /\ pass[p].run = run /\ pass[p].dossiers = dossiers
          /\ pass[p].inferred = inferred
      BY <2>1
    <2>4. left \subseteq dossiers
      OBVIOUS
    <2>5. a \in Fields
      <3>1. left \in SUBSET (Subjects \X Sayings)
        BY <2>1, <2>4
      <3>2. NoItem \in (Subjects \cup {NoSubject}) \X (Sayings \cup {NoSubject})
        BY DEF NoItem
      <3> HIDE DEF left
      <3> QED
        BY <2>1, <3>1, <3>2 DEF Fields
    <2>6. /\ \A i \in a.dossiers : \E f \in a.read : f.subject = i[1]
          /\ \A s \in a.inferred : \E f \in a.read : f.subject = s
      <3>1. /\ \A i \in dossiers : \E f \in read : f.subject = i[1]
            /\ \A s \in inferred : \E f \in read : f.subject = s
        BY <1>1, <2>3 DEF SleepInv, Sleeping, PassesSound, PassSound
      <3> QED
        BY <2>4, <3>1
    <2>7. /\ a.at = "close" /\ a.run = pass[p].run /\ a.read = pass[p].read
          /\ \A f \in a.read : f.id \in excused'
      BY <1>2, <2>3
    <2> HIDE DEF a, left
    <2> QED
      BY <1>1, <1>2, <2>2, <2>5, <2>6, <2>7, ThoughtStep
  <1> QED
    BY <1>3, <1>4

(* What a pass may end, and what it then is about to write.                *)
MayEnd(p, a, closed, d) ==
  /\ \A r \in closed : r.to = 0
  /\ \A r \in closed : r.kind = "dossier" =>
       r.from < d /\ \E f \in memory : f.kind = "fact" /\ f.subject = r.subject /\ f.from = d
  /\ a.at \in {"insert", "infer"} /\ a.run = pass[p].run /\ a.read = pass[p].read
  /\ a.dossiers = pass[p].dossiers /\ a.inferred \subseteq pass[p].inferred
  /\ a.at = "insert" =>
       /\ a.item \in a.dossiers
       /\ \A q \in memory :
            /\ q.kind = "dossier" /\ q.to = 0 /\ q.subject = a.item[1]
            /\ q.saying # a.item[2] /\ q.from < LastDate(a.read, a.item[1])
            => q \in closed
  /\ a.at = "infer" =>
       /\ \E f \in a.read : f.subject = a.item[1]
       /\ \A q \in memory :
            q.kind = "inferred" /\ q.to = 0 /\ q.subject = a.item[1] => q \in closed

(* An UPDATE that ends some rows: what a pass is then about to write has   *)
(* no older current rival but of a pass it raced.                          *)
LEMMA CloseStep ==
  ASSUME SleepInv, NEW p \in Passes, NEW a \in Fields, pass[p].at = "close", pass[p] # Awake,
         pass' = [pass EXCEPT ![p] = a], UNCHANGED <<lastRow, runs, raced, written, excused>>,
         NEW closed \in SUBSET memory, NEW d \in Nat \ {0},
         memory' = Ended(closed, d),
         MayEnd(p, a, closed, d)
  PROVE  SleepInv'
  <1> USE DEF MayEnd
  <1>1. /\ pass'[p] = a /\ \A q \in Passes : q # p => pass'[q] = pass[q]
        /\ pass' \in [Passes -> Fields]
    BY OnePass DEF SleepInv
  <1>2. /\ memory' \in SUBSET SleepRows /\ IsFiniteSet(memory')
        /\ \A r \in memory' : \E q \in memory :
             SameRow(q, r) /\ IF q \in closed THEN r.to = d ELSE r.to = q.to
        /\ \A q \in memory : \E r \in memory' :
             SameRow(q, r) /\ IF q \in closed THEN r.to = d ELSE r.to = q.to
    <2>1. SleepTypes
      BY DEF SleepInv
    <2> QED
      BY <2>1, Closing
  <1>3. \A r \in memory' : r.to = 0 =>
          \E q \in memory : q \notin closed /\ q.to = 0 /\ SameRow(q, r)
    BY <1>2
  <1>4. a # Awake
    BY DEF Awake
  <1> DEFINE Remains(q) == \E r \in memory' : SameRow(q, r)
  <1>0. \A q \in memory : Remains(q)
    BY <1>2
  <1>5. SleepTypes'
    BY <1>1, <1>2 DEF SleepInv, SleepTypes, SameRow
  <1>6. RacedTogether'
    BY <1>1 DEF SleepInv, Sleeping, RacedTogether
  <1>7. PassesSound'
    <2>1. ASSUME NEW R, \A f \in R : \E g \in memory :
                          g.kind = "fact" /\ g.subject = f.subject /\ g.from = f.from
          PROVE  \A f \in R : \E g \in memory' :
                   g.kind = "fact" /\ g.subject = f.subject /\ g.from = f.from
      <3> SUFFICES ASSUME NEW f \in R
                   PROVE  \E g \in memory' :
                            g.kind = "fact" /\ g.subject = f.subject /\ g.from = f.from
        OBVIOUS
      <3>1. PICK g \in memory : g.kind = "fact" /\ g.subject = f.subject /\ g.from = f.from
        BY <2>1
      <3>2. PICK r \in memory' : SameRow(g, r)
        BY <1>0
      <3> QED
        BY <3>1, <3>2 DEF SameRow
    <2>2. ASSUME NEW q \in Passes, pass[q] # Awake
          PROVE  \A f \in pass[q].read : \E g \in memory' :
                   g.kind = "fact" /\ g.subject = f.subject /\ g.from = f.from
      <3>1. \A f \in pass[q].read : \E g \in memory :
              g.kind = "fact" /\ g.subject = f.subject /\ g.from = f.from
        BY <2>2 DEF SleepInv, Sleeping, PassesSound, PassSound
      <3> QED
        BY <2>1, <3>1
    <2>3. ASSUME NEW q \in Passes, q # p, pass[q] # Awake
          PROVE  /\ pass[q].at # "awake" /\ pass[q].run <= runs /\ IsFiniteSet(pass[q].read)
                 /\ \A i \in pass[q].dossiers : \E f \in pass[q].read : f.subject = i[1]
                 /\ \A s \in pass[q].inferred : \E f \in pass[q].read : f.subject = s
                 /\ pass[q].at = "insert" => pass[q].item \in pass[q].dossiers
                 /\ pass[q].at = "infer" => \E f \in pass[q].read : f.subject = pass[q].item[1]
      BY <2>3 DEF SleepInv, Sleeping, PassesSound, PassSound
    <2>4. /\ a.at # "awake" /\ a.run <= runs /\ IsFiniteSet(a.read)
          /\ \A i \in a.dossiers : \E f \in a.read : f.subject = i[1]
          /\ \A s \in a.inferred : \E f \in a.read : f.subject = s
          /\ a.at = "insert" => a.item \in a.dossiers
          /\ a.at = "infer" => \E f \in a.read : f.subject = a.item[1]
      BY DEF SleepInv, Sleeping, PassesSound, PassSound
    <2>5. \A f \in a.read : \E g \in memory' :
            g.kind = "fact" /\ g.subject = f.subject /\ g.from = f.from
      BY <2>2
    <2>6. runs' = runs
      OBVIOUS
    <2>7. ASSUME NEW q \in Passes, q # p, pass'[q] # Awake
          PROVE  PassSound(q)'
      BY <1>1, <2>2, <2>3, <2>6, <2>7 DEF PassSound
    <2>8. PassSound(p)'
      BY <1>1, <2>4, <2>5, <2>6 DEF PassSound
    <2> QED
      BY <2>7, <2>8 DEF PassesSound
  <1>8. OlderClosed'
    BY <1>1, <1>3 DEF SleepInv, Sleeping, OlderClosed, SameRow
  <1>9. InferredClosed'
    BY <1>1, <1>3 DEF SleepInv, Sleeping, InferredClosed, SameRow
  <1>10. ReadOlder'
    BY <1>1, <1>2 DEF SleepInv, Sleeping, ReadOlder, SameRow
  <1>11. OwnDate'
    BY <1>1, <1>2 DEF SleepInv, Sleeping, OwnDate, SameRow
  <1>12. Sourced'
    <2> SUFFICES ASSUME NEW r \in memory', r.kind = "dossier"
                 PROVE  \E f \in memory' : f.kind = "fact" /\ f.subject = r.subject
                                           /\ f.from = r.from
      BY DEF Sourced
    <2>1. PICK q \in memory : SameRow(q, r)
      BY <1>2
    <2>2. PICK f \in memory : f.kind = "fact" /\ f.subject = r.subject /\ f.from = r.from
      BY <2>1 DEF SleepInv, Sleeping, Sourced, SameRow
    <2>3. PICK g \in memory' : SameRow(f, g)
      BY <1>0
    <2> QED
      BY <2>2, <2>3 DEF SameRow
  <1>13. AnswersFor'
    <2>1. ASSUME NEW q \in Passes, pass[q] # Awake, NEW r \in memory', r.kind = "fact"
          PROVE  r.id \in excused \cup written \cup IdsOf(pass[q].read)
      <3>1. PICK f \in memory : SameRow(f, r)
        BY <1>2
      <3> QED
        BY <2>1, <3>1 DEF SleepInv, Sleeping, AnswersFor, SameRow
    <2>2. \A f \in a.read : f.id \in excused \cup written \/
            \E i \in a.dossiers : i[1] = f.subject
      BY DEF SleepInv, Sleeping, AnswersFor
    <2>3. ASSUME NEW q \in Passes, q # p, pass[q] # Awake, pass[q].at # "read"
          PROVE  \A f \in pass[q].read : f.id \in excused \cup written \/
                   \E i \in pass[q].dossiers : i[1] = f.subject
      BY <2>3 DEF SleepInv, Sleeping, AnswersFor
    <2>4. \A r \in memory' : r.kind = "fact" =>
            r.id \in excused \cup written \cup IdsOf(a.read)
      BY <2>1
    <2> QED
      BY <1>1, <2>1, <2>2, <2>3, <2>4 DEF AnswersFor
  <1>14. NewerThanDossiers'
    BY <1>1, <1>4 DEF NewerThanDossiers
  <1>15. NoStaleDossier'
    BY <1>3 DEF SleepInv, NoStaleDossier, Live, Current, SameRow
  <1>16. OneInference'
    BY <1>3 DEF SleepInv, OneInference, Live, Current, SameRow
  <1>17. SentencesKept'
    <2> SUFFICES ASSUME NEW r \in memory', r.kind = "dossier", r.to # 0
                 PROVE  \E f \in memory' : /\ f.kind = "fact" /\ f.subject = r.subject
                                           /\ f.from = r.to /\ r.from < f.from
      BY DEF SentencesKept, Current, Facts
    <2>1. PICK q \in memory :
            SameRow(q, r) /\ IF q \in closed THEN r.to = d ELSE r.to = q.to
      BY <1>2
    <2>2. \E f \in memory : f.kind = "fact" /\ f.subject = r.subject
                            /\ f.from = r.to /\ r.from < f.from
      <3>1. CASE q \in closed
        BY <2>1, <3>1 DEF SameRow
      <3>2. CASE q \notin closed
        BY <2>1, <3>2 DEF SleepInv, SentencesKept, Current, Facts, SameRow
      <3> QED
        BY <3>1, <3>2
    <2>3. PICK f \in memory : f.kind = "fact" /\ f.subject = r.subject
                              /\ f.from = r.to /\ r.from < f.from
      BY <2>2
    <2>4. PICK g \in memory' : SameRow(f, g)
      BY <1>0
    <2> QED
      BY <2>3, <2>4 DEF SameRow
  <1> QED
    BY <1>5, <1>6, <1>7, <1>8, <1>9, <1>10, <1>11, <1>12, <1>13, <1>14, <1>15, <1>16, <1>17
    DEF SleepInv, Sleeping

(* The subject of an item is one of the subjects read, and its date theirs. *)
LEMMA DateIsLast ==
  ASSUME SleepInv, NEW p \in Passes, pass[p] # Awake, NEW s,
         \E f \in pass[p].read : f.subject = s
  PROVE  /\ DateOf(p, s) = LastDate(pass[p].read, s)
         /\ LastDate(pass[p].read, s) \in Nat \ {0}
         /\ \A f \in pass[p].read : f.subject = s => f.from <= LastDate(pass[p].read, s)
         /\ \E f \in memory : f.kind = "fact" /\ f.subject = s
                              /\ f.from = LastDate(pass[p].read, s)
  <1> DEFINE R == pass[p].read
  <1>1. R \in SUBSET SleepRows /\ IsFiniteSet(R)
    <2>1. pass[p] \in Fields /\ PassSound(p)
      BY DEF SleepInv, SleepTypes, Sleeping, PassesSound
    <2> QED
      BY <2>1 DEF Fields, PassSound
  <1>2. DateOf(p, s) = LastDate(R, s)
    BY DEF DateOf, Cluster, LastDate
  <1>3. /\ LastDate(R, s) \in Nat \ {0}
        /\ \E f \in R : f.subject = s /\ f.from = LastDate(R, s)
        /\ \A f \in R : f.subject = s => f.from <= LastDate(R, s)
    <2>1. \E f \in R : f.subject = s
      OBVIOUS
    <2> HIDE DEF R
    <2> QED
      BY <1>1, <2>1, LastDateOf
  <1>4. PICK f \in R : f.subject = s /\ f.from = LastDate(R, s)
    BY <1>3
  <1>5. \E g \in memory : g.kind = "fact" /\ g.subject = f.subject /\ g.from = f.from
    BY <1>4 DEF SleepInv, Sleeping, PassesSound, PassSound
  <1> QED
    BY <1>2, <1>3, <1>4, <1>5

LEMMA CloseSubjectStep == ASSUME SleepInv, NEW p \in Passes, CloseSubject(p) PROVE SleepInv'
  <1>1. PICK at \in {"awake", "read", "close", "insert", "infer"}, run \in Nat,
            read \in SUBSET SleepRows, dossiers \in SUBSET (Subjects \X Sayings),
            inferred \in SUBSET Subjects,
            item \in (Subjects \cup {NoSubject}) \X (Sayings \cup {NoSubject}) :
           pass[p] = [at |-> at, run |-> run, read |-> read, dossiers |-> dossiers,
                      inferred |-> inferred, item |-> item]
    BY PassFields
  <1>2. /\ pass[p].at = "close" /\ pass[p] # Awake /\ pass[p].read = read
        /\ pass[p].run = run /\ pass[p].dossiers = dossiers /\ pass[p].inferred = inferred
        /\ dossiers # {}
    BY <1>1 DEF CloseSubject, Awake
  <1>3. PICK i \in dossiers : i = CHOOSE j \in pass[p].dossiers : TRUE
    BY <1>2
  <1> DEFINE a == [at |-> "insert", run |-> run, read |-> read, dossiers |-> dossiers,
                   inferred |-> inferred, item |-> i]
             d == LastDate(read, i[1])
             closed == {r \in memory : Closes(r, i[1], i[2], d)}
  <1>4. PassSound(p)
    BY <1>2 DEF SleepInv, Sleeping, PassesSound
  <1>5. \E f \in pass[p].read : f.subject = i[1]
    BY <1>2, <1>4 DEF PassSound
  <1>6. /\ DateOf(p, i[1]) = d /\ d \in Nat \ {0}
        /\ \E f \in memory : f.kind = "fact" /\ f.subject = i[1] /\ f.from = d
    BY <1>2, <1>5, DateIsLast
  <1>7. pass' = [pass EXCEPT ![p] = a]
    <2>1. PICK s : s = [pass[p] EXCEPT !.at = "insert"]
      OBVIOUS
    <2>2. s = [at |-> "insert", run |-> run, read |-> read, dossiers |-> dossiers,
               inferred |-> inferred, item |-> item]
      BY <1>1, <2>1
    <2>3. PICK t : t = [s EXCEPT !.item = i]
      OBVIOUS
    <2>4. t = a
      BY <2>2, <2>3
    <2>5. pass \in [Passes -> Fields]
      BY DEF SleepInv, SleepTypes
    <2>6. pass' = [pass EXCEPT ![p].at = "insert", ![p].item = i]
      BY <1>3 DEF CloseSubject
    <2> QED
      BY <2>1, <2>3, <2>4, <2>5, <2>6
  <1>8. a \in Fields
    <2>1. i \in (Subjects \cup {NoSubject}) \X (Sayings \cup {NoSubject})
      BY <1>3
    <2> QED
      BY <1>1, <2>1 DEF Fields
  <1>9. memory' = Ended(closed, d)
    <2>1. \A r \in memory : r \in closed <=> Closes(r, i[1], i[2], d)
      OBVIOUS
    <2> HIDE DEF a, d, closed
    <2>2. memory' = {IF Closes(r, i[1], i[2], DateOf(p, i[1]))
                     THEN [r EXCEPT !.to = DateOf(p, i[1])] ELSE r : r \in memory}
      BY <1>3 DEF CloseSubject
    <2>3. memory' = {IF Closes(r, i[1], i[2], d) THEN [r EXCEPT !.to = d] ELSE r
                     : r \in memory}
      BY <1>6, <2>2
    <2> QED
      BY <2>1, <2>3 DEF Ended
  <1>10. \A r \in closed : r \in memory /\ r.to = 0 /\ r.subject = i[1] /\ r.from < d
    BY DEF Closes, Current
  <1>11. \A q \in memory : q.to = 0 /\ q.subject = i[1] /\ q.saying # i[2] /\ q.from < d
           => q \in closed
    BY DEF Closes, Current
  <1>12. /\ a.at = "insert" /\ a.run = pass[p].run /\ a.read = pass[p].read
         /\ a.dossiers = pass[p].dossiers /\ a.inferred = pass[p].inferred
         /\ a.item = i /\ a.item \in a.dossiers
    BY <1>2
  <1>13. d = LastDate(a.read, a.item[1])
    OBVIOUS
  <1>14. UNCHANGED <<lastRow, runs, raced, written, excused>>
    BY DEF CloseSubject
  <1>15. closed \in SUBSET memory
    OBVIOUS
  <1> HIDE DEF a, d, closed
  <1>16. /\ \A r \in closed : r.to = 0
         /\ \A r \in closed : r.kind = "dossier" =>
              r.from < d /\ \E f \in memory : f.kind = "fact" /\ f.subject = r.subject
                                             /\ f.from = d
    BY <1>6, <1>10
  <1>17. a.at = "insert" =>
           /\ a.item \in a.dossiers
           /\ \A q \in memory :
                /\ q.kind = "dossier" /\ q.to = 0 /\ q.subject = a.item[1]
                /\ q.saying # a.item[2] /\ q.from < LastDate(a.read, a.item[1])
                => q \in closed
    <2>1. a.item = i /\ a.item \in a.dossiers /\ LastDate(a.read, a.item[1]) = d
      BY <1>12, <1>13
    <2> QED
      BY <1>11, <2>1
  <1>18. a.at \in {"insert", "infer"} /\ a.inferred \subseteq pass[p].inferred
    BY <1>12
  <1>19. a.at = "infer" =>
           /\ \E f \in a.read : f.subject = a.item[1]
           /\ \A q \in memory :
                q.kind = "inferred" /\ q.to = 0 /\ q.subject = a.item[1] => q \in closed
    BY <1>12
  <1>20. MayEnd(p, a, closed, d)
    BY <1>12, <1>16, <1>17, <1>18, <1>19 DEF MayEnd
  <1> QED
    BY <1>2, <1>6, <1>7, <1>8, <1>9, <1>14, <1>15, <1>20, CloseStep

LEMMA CloseInferredStep == ASSUME SleepInv, NEW p \in Passes, CloseInferred(p) PROVE SleepInv'
  <1>1. PICK at \in {"awake", "read", "close", "insert", "infer"}, run \in Nat,
            read \in SUBSET SleepRows, dossiers \in SUBSET (Subjects \X Sayings),
            inferred \in SUBSET Subjects,
            item \in (Subjects \cup {NoSubject}) \X (Sayings \cup {NoSubject}) :
           pass[p] = [at |-> at, run |-> run, read |-> read, dossiers |-> dossiers,
                      inferred |-> inferred, item |-> item]
    BY PassFields
  <1>2. /\ pass[p].at = "close" /\ pass[p] # Awake /\ pass[p].read = read
        /\ pass[p].run = run /\ pass[p].dossiers = dossiers /\ pass[p].inferred = inferred
    BY <1>1 DEF CloseInferred, Awake
  <1>3. PICK s \in inferred :
          /\ memory' = {IF EndsInferred(r, s) THEN [r EXCEPT !.to = DateOf(p, s)] ELSE r
                        : r \in memory}
          /\ pass' = [pass EXCEPT ![p].at = "infer", ![p].item = <<s, NoSubject>>,
                                  ![p].inferred = @ \ {s}]
    BY <1>2 DEF CloseInferred
  <1> DEFINE rest == inferred \ {s}
             a == [at |-> "infer", run |-> run, read |-> read, dossiers |-> dossiers,
                   inferred |-> rest, item |-> <<s, NoSubject>>]
             d == LastDate(read, s)
             closed == {r \in memory : EndsInferred(r, s)}
  <1>4. PassSound(p)
    BY <1>2 DEF SleepInv, Sleeping, PassesSound
  <1>5. \E f \in pass[p].read : f.subject = s
    BY <1>2, <1>4 DEF PassSound
  <1>6. DateOf(p, s) = d /\ d \in Nat \ {0}
    BY <1>2, <1>5, DateIsLast
  <1>7. pass' = [pass EXCEPT ![p] = a]
    <2>1. PICK t : t = [pass[p] EXCEPT !.at = "infer"]
      OBVIOUS
    <2>2. t = [at |-> "infer", run |-> run, read |-> read, dossiers |-> dossiers,
               inferred |-> inferred, item |-> item]
      BY <1>1, <2>1
    <2>3. PICK u : u = [t EXCEPT !.item = <<s, NoSubject>>]
      OBVIOUS
    <2>4. u = [at |-> "infer", run |-> run, read |-> read, dossiers |-> dossiers,
               inferred |-> inferred, item |-> <<s, NoSubject>>]
      BY <2>2, <2>3
    <2>5. PICK v : v = [u EXCEPT !.inferred = rest]
      OBVIOUS
    <2>6. v = a
      BY <2>4, <2>5
    <2>7. pass \in [Passes -> Fields] /\ u.inferred = inferred
      BY <2>4 DEF SleepInv, SleepTypes
    <2> QED
      BY <1>3, <2>1, <2>3, <2>5, <2>6, <2>7
  <1>8. a \in Fields
    <2>1. <<s, NoSubject>> \in (Subjects \cup {NoSubject}) \X (Sayings \cup {NoSubject})
      BY <1>3
    <2>2. rest \in SUBSET Subjects
      BY <1>1
    <2> HIDE DEF rest
    <2> QED
      BY <1>1, <2>1, <2>2 DEF Fields
  <1>9. memory' = Ended(closed, d)
    <2>1. \A r \in memory : r \in closed <=> EndsInferred(r, s)
      OBVIOUS
    <2> HIDE DEF d, closed
    <2> QED
      BY <1>3, <1>6, <2>1 DEF Ended
  <1>10. \A r \in closed : r \in memory /\ r.to = 0 /\ r.kind # "dossier"
    BY DEF EndsInferred, Current
  <1>11. \A q \in memory : q.kind = "inferred" /\ q.to = 0 /\ q.subject = s => q \in closed
    BY DEF EndsInferred, Current
  <1>12. /\ a.at = "infer" /\ a.at # "insert" /\ a.run = pass[p].run /\ a.read = pass[p].read
         /\ a.dossiers = pass[p].dossiers /\ a.inferred \subseteq pass[p].inferred
         /\ a.item[1] = s
    BY <1>2
  <1>13. UNCHANGED <<lastRow, runs, raced, written, excused>>
    BY DEF CloseInferred
  <1>14. closed \in SUBSET memory
    OBVIOUS
  <1> HIDE DEF a, d, closed
  <1>15. /\ \A r \in closed : r.to = 0
         /\ \A r \in closed : r.kind = "dossier" =>
              r.from < d /\ \E f \in memory : f.kind = "fact" /\ f.subject = r.subject
                                             /\ f.from = d
    BY <1>10
  <1>16. a.at = "infer" =>
           /\ \E f \in a.read : f.subject = a.item[1]
           /\ \A q \in memory :
                q.kind = "inferred" /\ q.to = 0 /\ q.subject = a.item[1] => q \in closed
    <2>1. a.item[1] = s /\ a.read = pass[p].read
      BY <1>12
    <2> QED
      BY <1>5, <1>11, <2>1
  <1>17. a.at \in {"insert", "infer"}
    BY <1>12
  <1>18. a.at = "insert" =>
           /\ a.item \in a.dossiers
           /\ \A q \in memory :
                /\ q.kind = "dossier" /\ q.to = 0 /\ q.subject = a.item[1]
                /\ q.saying # a.item[2] /\ q.from < LastDate(a.read, a.item[1])
                => q \in closed
    BY <1>12
  <1>19. MayEnd(p, a, closed, d)
    BY <1>12, <1>15, <1>16, <1>17, <1>18 DEF MayEnd
  <1> QED
    BY <1>2, <1>6, <1>7, <1>8, <1>9, <1>13, <1>14, <1>19, CloseStep

(* An INSERT: the new row has the next id.                                 *)
LEMMA InsertedRow ==
  ASSUME SleepTypes, NEW kind \in {"fact", "dossier", "inferred"}, NEW s \in Subjects,
         NEW x \in Sayings, NEW from \in Nat \ {0}, NEW run \in Nat, run <= runs,
         Insert(kind, s, x, from, run), runs' = runs, pass' \in [Passes -> Fields]
  PROVE  /\ SleepTypes'
         /\ \E row : /\ memory' = memory \cup {row} /\ row \in SleepRows
                     /\ row.id = lastRow + 1 /\ row.kind = kind /\ row.subject = s
                     /\ row.saying = x /\ row.from = from /\ row.to = 0 /\ row.run = run
         /\ lastRow' = lastRow + 1 /\ \A r \in memory : r.id < lastRow + 1
  <1> DEFINE row == Row(kind, s, x, from, run)
  <1>1. /\ row.id = lastRow + 1 /\ row.kind = kind /\ row.subject = s
        /\ row.saying = x /\ row.from = from /\ row.to = 0 /\ row.run = run
    BY DEF Row
  <1>2. row \in SleepRows
    BY DEF Row, SleepRows, SleepTypes
  <1>3. memory' = memory \cup {row} /\ lastRow' = lastRow + 1
    BY DEF Insert
  <1> HIDE DEF row
  <1>4. IsFiniteSet(memory \cup {row})
    BY FS_AddElement DEF SleepTypes
  <1>5. \A r \in memory : r.id \in Nat /\ r.run \in Nat /\ r.id <= lastRow /\ r.run <= runs
    BY DEF SleepTypes, SleepRows
  <1>6. lastRow \in Nat /\ \A r \in memory : r.id < lastRow + 1 /\ r.id <= lastRow + 1
    BY <1>5 DEF SleepTypes
  <1>7. SleepTypes'
    BY <1>1, <1>2, <1>3, <1>4, <1>5, <1>6 DEF SleepTypes
  <1> QED
    BY <1>1, <1>2, <1>3, <1>6, <1>7

LEMMA FactArrivesStep ==
  ASSUME SleepBounds, SleepInv, NEW s \in Subjects, NEW x \in Stated, NEW from \in Dates,
         FactArrives(s, x, from)
  PROVE  SleepInv'
  <1>1. /\ Insert("fact", s, x, from, 0) /\ UNCHANGED <<pass, runs, raced, written>>
        /\ excused \subseteq excused' /\ (Asleep # {} => lastRow + 1 \in excused')
    BY DEF FactArrives
  <1>2. x \in Sayings /\ from \in Nat \ {0} /\ 0 \in Nat /\ 0 <= runs /\ SleepTypes
        /\ pass' \in [Passes -> Fields] /\ runs \in Nat /\ lastRow \in Nat
    BY <1>1 DEF SleepBounds, SleepInv, SleepTypes
  <1>3. /\ SleepTypes' /\ lastRow' = lastRow + 1 /\ \A r \in memory : r.id < lastRow + 1
    BY <1>1, <1>2, InsertedRow
  <1>4. PICK row : /\ memory' = memory \cup {row} /\ row.id = lastRow + 1
                   /\ row.kind = "fact" /\ row.to = 0
    BY <1>1, <1>2, InsertedRow
  <1>5. (\E p \in Passes : pass[p] # Awake) => row.id \in excused'
    BY <1>1, <1>4 DEF Asleep
  <1>6. RacedTogether' /\ PassesSound'
    BY <1>1, <1>4 DEF SleepInv, Sleeping, RacedTogether, PassesSound, PassSound
  <1>7. OlderClosed' /\ InferredClosed'
    BY <1>1, <1>4 DEF SleepInv, Sleeping, OlderClosed, InferredClosed
  <1>8. ReadOlder' /\ OwnDate' /\ Sourced'
    BY <1>1, <1>4 DEF SleepInv, Sleeping, ReadOlder, OwnDate, Sourced
  <1>9. AnswersFor'
    <2>1. ASSUME NEW p \in Passes, pass[p] # Awake
          PROVE  \A f \in memory' : f.kind = "fact" =>
                   f.id \in excused' \cup written \cup IdsOf(pass[p].read)
      BY <1>1, <1>4, <1>5, <2>1 DEF SleepInv, Sleeping, AnswersFor
    <2>2. ASSUME NEW p \in Passes, pass[p] # Awake, pass[p].at # "read"
          PROVE  \A f \in pass[p].read :
                   f.id \in excused' \cup written \/ \E i \in pass[p].dossiers : i[1] = f.subject
      BY <1>1, <2>2 DEF SleepInv, Sleeping, AnswersFor
    <2> QED
      BY <1>1, <2>1, <2>2 DEF AnswersFor
  <1>10. NewerThanDossiers'
    <2> SUFFICES ASSUME \A p \in Passes : pass[p] = Awake,
                        NEW f \in memory', NEW d \in memory', f.kind = "fact",
                        d.kind = "dossier"
                 PROVE  f.id \in excused' \cup written \/ d.id < f.id
      BY <1>1 DEF NewerThanDossiers
    <2>1. d \in memory
      BY <1>4
    <2>2. CASE f = row
      BY <1>3, <1>4, <2>1, <2>2
    <2>3. CASE f # row
      BY <1>1, <1>4, <2>1, <2>3 DEF SleepInv, Sleeping, NewerThanDossiers
    <2> QED
      BY <2>2, <2>3
  <1>11. NoStaleDossier' /\ OneInference'
    BY <1>1, <1>4 DEF SleepInv, NoStaleDossier, OneInference, Live, Current
  <1>12. SentencesKept'
    BY <1>1, <1>4 DEF SleepInv, SentencesKept, Current, Facts
  <1> QED
    BY <1>3, <1>6, <1>7, <1>8, <1>9, <1>10, <1>11, <1>12 DEF SleepInv, Sleeping

LEMMA WriteDossierStep == ASSUME SleepInv, NEW p \in Passes, WriteDossier(p) PROVE SleepInv'
  <1>1. PICK at \in {"awake", "read", "close", "insert", "infer"}, run \in Nat,
            read \in SUBSET SleepRows, dossiers \in SUBSET (Subjects \X Sayings),
            inferred \in SUBSET Subjects,
            item \in (Subjects \cup {NoSubject}) \X (Sayings \cup {NoSubject}) :
           pass[p] = [at |-> at, run |-> run, read |-> read, dossiers |-> dossiers,
                      inferred |-> inferred, item |-> item]
    BY PassFields
  <1>2. /\ pass[p].at = "insert" /\ pass[p] # Awake /\ pass[p].read = read
        /\ pass[p].run = run /\ pass[p].dossiers = dossiers /\ pass[p].inferred = inferred
        /\ pass[p].item = item
    BY <1>1 DEF WriteDossier, Awake
  <1> DEFINE s == item[1]
             rest == dossiers \ {item}
             d == LastDate(read, s)
             a == [at |-> "close", run |-> run, read |-> read, dossiers |-> rest,
                   inferred |-> inferred, item |-> NoItem]
  <1>3. PassSound(p)
    BY <1>2 DEF SleepInv, Sleeping, PassesSound
  <1>4. item \in dossiers /\ s \in Subjects /\ item[2] \in Sayings
        /\ \E f \in pass[p].read : f.subject = s
    BY <1>1, <1>2, <1>3 DEF PassSound
  <1>5. /\ DateOf(p, s) = d /\ d \in Nat \ {0}
        /\ \A f \in read : f.subject = s => f.from <= d
        /\ \E f \in memory : f.kind = "fact" /\ f.subject = s /\ f.from = d
    BY <1>2, <1>4, DateIsLast
  <1>6. pass' = [pass EXCEPT ![p] = a]
    <2>1. PICK t : t = [pass[p] EXCEPT !.at = "close"]
      OBVIOUS
    <2>2. t = [at |-> "close", run |-> run, read |-> read, dossiers |-> dossiers,
               inferred |-> inferred, item |-> item]
      BY <1>1, <2>1
    <2>3. PICK u : u = [t EXCEPT !.item = NoItem]
      OBVIOUS
    <2>4. u = [at |-> "close", run |-> run, read |-> read, dossiers |-> dossiers,
               inferred |-> inferred, item |-> NoItem]
      BY <2>2, <2>3
    <2>5. PICK v : v = [u EXCEPT !.dossiers = rest]
      OBVIOUS
    <2>6. v = a
      BY <2>4, <2>5
    <2>7. pass \in [Passes -> Fields] /\ u.dossiers = dossiers
      BY <2>4 DEF SleepInv, SleepTypes
    <2>8. pass' = [pass EXCEPT ![p].at = "close", ![p].item = NoItem,
                               ![p].dossiers = @ \ {pass[p].item}]
      BY DEF WriteDossier
    <2> QED
      BY <1>2, <2>1, <2>3, <2>5, <2>6, <2>7, <2>8
  <1>7. a \in Fields
    <2>1. NoItem \in (Subjects \cup {NoSubject}) \X (Sayings \cup {NoSubject})
      BY DEF NoItem
    <2>2. rest \in SUBSET (Subjects \X Sayings)
      BY <1>1
    <2> HIDE DEF rest
    <2> QED
      BY <1>1, <2>1, <2>2 DEF Fields
  <1>8. /\ a.at = "close" /\ a.run = run /\ a.read = read /\ a.dossiers = rest
        /\ a.inferred = inferred /\ a # Awake
    BY DEF Awake
  <1>9. /\ UNCHANGED <<runs, raced, excused>> /\ written' = written \cup IdsOf(Cluster(p, s))
        /\ Insert("dossier", s, item[2], d, run)
    BY <1>2, <1>5 DEF WriteDossier
  <1> HIDE DEF a, d
  <1>10. /\ pass'[p] = a /\ \A q \in Passes : q # p => pass'[q] = pass[q]
         /\ pass' \in [Passes -> Fields]
    BY <1>6, <1>7, OnePass DEF SleepInv
  <1>11. run \in Nat /\ run <= runs /\ SleepTypes
    BY <1>2, <1>3 DEF PassSound, SleepInv
  <1>12. SleepTypes'
    BY <1>4, <1>5, <1>9, <1>10, <1>11, InsertedRow
  <1>13. PICK row : /\ memory' = memory \cup {row} /\ row.kind = "dossier" /\ row.subject = s
                    /\ row.saying = item[2] /\ row.from = d /\ row.to = 0 /\ row.run = run
    BY <1>4, <1>5, <1>9, <1>10, <1>11, InsertedRow
  <1>14. \A q \in Passes : q # p /\ pass[q] # Awake => run \in raced /\ pass[q].run # run
    BY <1>2 DEF SleepInv, Sleeping, RacedTogether
  <1>15. RacedTogether'
    BY <1>2, <1>8, <1>9, <1>10 DEF SleepInv, Sleeping, RacedTogether
  <1>16. PassesSound'
    <2>1. ASSUME NEW q \in Passes, q # p, pass'[q] # Awake PROVE PassSound(q)'
      <3>1. PassSound(q)
        BY <1>10, <2>1 DEF SleepInv, Sleeping, PassesSound
      <3> QED
        BY <1>9, <1>10, <1>13, <2>1, <3>1 DEF PassSound
    <2>2. PassSound(p)'
      <3>1. /\ IsFiniteSet(read) /\ run <= runs
            /\ \A f \in read : \E g \in memory :
                 g.kind = "fact" /\ g.subject = f.subject /\ g.from = f.from
            /\ \A i \in dossiers : \E f \in read : f.subject = i[1]
            /\ \A r \in inferred : \E f \in read : f.subject = r
        BY <1>2, <1>3 DEF PassSound
      <3>2. rest \subseteq dossiers /\ memory \subseteq memory' /\ runs' = runs
        BY <1>9, <1>13
      <3> QED
        BY <1>8, <1>10, <3>1, <3>2 DEF PassSound
    <2> QED
      BY <2>1, <2>2 DEF PassesSound
  <1>17. OlderClosed'
    BY <1>8, <1>9, <1>10, <1>13, <1>14 DEF SleepInv, Sleeping, OlderClosed
  <1>18. InferredClosed'
    BY <1>8, <1>9, <1>10, <1>13 DEF SleepInv, Sleeping, InferredClosed
  <1>19. ReadOlder'
    BY <1>2, <1>8, <1>9, <1>10, <1>13, <1>14 DEF SleepInv, Sleeping, ReadOlder
  <1>20. OwnDate'
    BY <1>2, <1>8, <1>9, <1>10, <1>13, <1>14 DEF SleepInv, Sleeping, OwnDate, d
  <1>21. Sourced'
    BY <1>5, <1>13 DEF SleepInv, Sleeping, Sourced
  <1>22. AnswersFor'
    <2>1. \A f \in memory' : f.kind = "fact" => f \in memory
      BY <1>13
    <2>2. written \subseteq written' /\ excused' = excused
      BY <1>9
    <2>3. \A f \in read : f.subject = s => f.id \in written'
      BY <1>2, <1>9 DEF IdsOf, Cluster
    <2>4. \A f \in read : f.id \in excused \cup written' \/ \E i \in rest : i[1] = f.subject
      <3> SUFFICES ASSUME NEW f \in read, f.subject # s, f.id \notin excused \cup written
                   PROVE  \E i \in rest : i[1] = f.subject
        BY <2>2, <2>3
      <3>1. PICK i \in dossiers : i[1] = f.subject
        BY <1>2 DEF SleepInv, Sleeping, AnswersFor
      <3> QED
        BY <3>1
    <2>5. ASSUME NEW q \in Passes, pass[q] # Awake, NEW f \in memory', f.kind = "fact"
          PROVE  f.id \in excused \cup written' \cup IdsOf(pass[q].read)
      BY <2>1, <2>2, <2>5 DEF SleepInv, Sleeping, AnswersFor
    <2>6. ASSUME NEW q \in Passes, pass[q] # Awake, q # p, pass[q].at # "read"
          PROVE  \A f \in pass[q].read :
                   f.id \in excused \cup written' \/ \E i \in pass[q].dossiers : i[1] = f.subject
      BY <2>2, <2>6 DEF SleepInv, Sleeping, AnswersFor
    <2>7. \A f \in memory' : f.kind = "fact" => f.id \in excused \cup written' \cup IdsOf(read)
      BY <1>2, <2>5
    <2> HIDE DEF rest
    <2> QED
      BY <1>8, <1>9, <1>10, <2>4, <2>5, <2>6, <2>7 DEF AnswersFor
  <1>23. NewerThanDossiers'
    BY <1>8, <1>10 DEF NewerThanDossiers
  <1>24. NoStaleDossier'
    <2>1. ASSUME NEW q \in memory, q.kind = "dossier", q.to = 0, q.subject = s,
                 q.saying # item[2]
          PROVE  q.from # d => q.run \in raced \/ run \in raced
      <3>1. CASE q.from < d
        BY <1>2, <2>1, <3>1 DEF SleepInv, Sleeping, OlderClosed, d
      <3>2. CASE q.run # run /\ q.run \notin raced /\ run \notin raced
        <4>1. \E f \in read : f.subject = q.subject /\ f.from = q.from
          BY <1>2, <2>1, <3>2 DEF SleepInv, Sleeping, ReadOlder
        <4>2. q.from <= d
          BY <1>5, <2>1, <4>1
        <4>3. q.from \in Nat /\ d \in Nat
          BY <1>5 DEF SleepInv, SleepTypes, SleepRows
        <4> QED
          BY <3>1, <4>2, <4>3
      <3>3. CASE q.run = run
        BY <1>2, <2>1, <3>3 DEF SleepInv, Sleeping, OwnDate, d
      <3> QED
        BY <3>2, <3>3
    <2>2. d \in Nat /\ \A q \in memory : q.from \in Nat
      BY <1>5 DEF SleepInv, SleepTypes, SleepRows
    <2> SUFFICES ASSUME NEW r \in memory', NEW q \in memory', r.kind = "dossier", r.to = 0,
                        q.kind = "dossier", q.to = 0, r.subject = q.subject,
                        r.saying # q.saying, r.from < q.from
                 PROVE  r.run \in raced \/ q.run \in raced
      BY <1>9 DEF NoStaleDossier, Live, Current
    <2>3. CASE r \in memory /\ q \in memory
      BY <2>3 DEF SleepInv, NoStaleDossier, Live, Current
    <2>4. CASE r = row /\ q \in memory
      BY <1>13, <2>1, <2>2, <2>4
    <2>5. CASE q = row /\ r \in memory
      BY <1>13, <2>1, <2>2, <2>5
    <2>6. CASE q = row /\ r = row
      BY <2>6
    <2> QED
      BY <1>13, <2>3, <2>4, <2>5, <2>6
  <1>25. OneInference'
    BY <1>9, <1>13 DEF SleepInv, OneInference, Live, Current
  <1>26. SentencesKept'
    BY <1>13 DEF SleepInv, SentencesKept, Current, Facts
  <1> QED
    BY <1>12, <1>15, <1>16, <1>17, <1>18, <1>19, <1>20, <1>21, <1>22, <1>23, <1>24, <1>25,
       <1>26
    DEF SleepInv, Sleeping

LEMMA WriteInferredStep == ASSUME SleepInv, NEW p \in Passes, WriteInferred(p) PROVE SleepInv'
  <1>1. PICK at \in {"awake", "read", "close", "insert", "infer"}, run \in Nat,
            read \in SUBSET SleepRows, dossiers \in SUBSET (Subjects \X Sayings),
            inferred \in SUBSET Subjects,
            item \in (Subjects \cup {NoSubject}) \X (Sayings \cup {NoSubject}) :
           pass[p] = [at |-> at, run |-> run, read |-> read, dossiers |-> dossiers,
                      inferred |-> inferred, item |-> item]
    BY PassFields
  <1>2. /\ pass[p].at = "infer" /\ pass[p] # Awake /\ pass[p].read = read
        /\ pass[p].run = run /\ pass[p].dossiers = dossiers /\ pass[p].inferred = inferred
        /\ pass[p].item = item
    BY <1>1 DEF WriteInferred, Awake
  <1> DEFINE s == item[1]
             a == [at |-> "close", run |-> run, read |-> read, dossiers |-> dossiers,
                   inferred |-> inferred, item |-> NoItem]
  <1>3. PassSound(p)
    BY <1>2 DEF SleepInv, Sleeping, PassesSound
  <1>4. s \in Subjects /\ \E f \in pass[p].read : f.subject = s
    BY <1>1, <1>2, <1>3 DEF PassSound, SleepRows
  <1>5. DateOf(p, s) \in Nat \ {0}
    BY <1>2, <1>4, DateIsLast
  <1>6. pass' = [pass EXCEPT ![p] = a]
    <2>1. PICK t : t = [pass[p] EXCEPT !.at = "close"]
      OBVIOUS
    <2>2. t = [at |-> "close", run |-> run, read |-> read, dossiers |-> dossiers,
               inferred |-> inferred, item |-> item]
      BY <1>1, <2>1
    <2>3. PICK u : u = [t EXCEPT !.item = NoItem]
      OBVIOUS
    <2>4. u = a
      BY <2>2, <2>3
    <2>5. pass \in [Passes -> Fields]
      BY DEF SleepInv, SleepTypes
    <2>6. pass' = [pass EXCEPT ![p].at = "close", ![p].item = NoItem]
      BY DEF WriteInferred
    <2> QED
      BY <2>1, <2>3, <2>4, <2>5, <2>6
  <1>7. a \in Fields
    <2>1. NoItem \in (Subjects \cup {NoSubject}) \X (Sayings \cup {NoSubject})
      BY DEF NoItem
    <2> QED
      BY <1>1, <2>1 DEF Fields
  <1>8. /\ a.at = "close" /\ a.run = run /\ a.read = read /\ a.dossiers = dossiers
        /\ a.inferred = inferred /\ a # Awake
    BY DEF Awake
  <1>9. PICK x \in Sayings : Insert("inferred", s, x, DateOf(p, s), run)
    BY <1>2 DEF WriteInferred
  <1>10. UNCHANGED <<runs, raced, written, excused>>
    BY DEF WriteInferred
  <1> HIDE DEF a
  <1>11. /\ pass'[p] = a /\ \A q \in Passes : q # p => pass'[q] = pass[q]
         /\ pass' \in [Passes -> Fields]
    BY <1>6, <1>7, OnePass DEF SleepInv
  <1>12. run \in Nat /\ run <= runs /\ SleepTypes
    BY <1>2, <1>3 DEF PassSound, SleepInv
  <1>13. SleepTypes'
    BY <1>4, <1>5, <1>9, <1>10, <1>11, <1>12, InsertedRow
  <1>14. PICK row : /\ memory' = memory \cup {row} /\ row.kind = "inferred"
                    /\ row.subject = s /\ row.to = 0 /\ row.run = run
    BY <1>4, <1>5, <1>9, <1>10, <1>11, <1>12, InsertedRow
  <1>15. \A q \in Passes : q # p /\ pass[q] # Awake =>
           run \in raced /\ pass[q].run \in raced /\ pass[q].run # run
    BY <1>2 DEF SleepInv, Sleeping, RacedTogether
  <1>16. RacedTogether'
    BY <1>2, <1>8, <1>10, <1>11 DEF SleepInv, Sleeping, RacedTogether
  <1>17. PassesSound'
    <2>1. ASSUME NEW q \in Passes, q # p, pass'[q] # Awake PROVE PassSound(q)'
      <3>1. PassSound(q)
        BY <1>11, <2>1 DEF SleepInv, Sleeping, PassesSound
      <3> QED
        BY <1>10, <1>11, <1>14, <2>1, <3>1 DEF PassSound
    <2>2. PassSound(p)'
      <3>1. /\ IsFiniteSet(read) /\ run <= runs
            /\ \A f \in read : \E g \in memory :
                 g.kind = "fact" /\ g.subject = f.subject /\ g.from = f.from
            /\ \A i \in dossiers : \E f \in read : f.subject = i[1]
            /\ \A r \in inferred : \E f \in read : f.subject = r
        BY <1>2, <1>3 DEF PassSound
      <3>2. memory \subseteq memory' /\ runs' = runs
        BY <1>10, <1>14
      <3> QED
        BY <1>8, <1>11, <3>1, <3>2 DEF PassSound
    <2> QED
      BY <2>1, <2>2 DEF PassesSound
  <1>18. OlderClosed'
    BY <1>8, <1>10, <1>11, <1>14 DEF SleepInv, Sleeping, OlderClosed
  <1>19. InferredClosed'
    BY <1>8, <1>10, <1>11, <1>14, <1>15 DEF SleepInv, Sleeping, InferredClosed
  <1>20. ReadOlder'
    BY <1>2, <1>8, <1>10, <1>11, <1>14 DEF SleepInv, Sleeping, ReadOlder
  <1>21. OwnDate'
    BY <1>2, <1>8, <1>10, <1>11, <1>14 DEF SleepInv, Sleeping, OwnDate
  <1>22. Sourced'
    BY <1>14 DEF SleepInv, Sleeping, Sourced
  <1>23. AnswersFor'
    BY <1>2, <1>8, <1>10, <1>11, <1>14 DEF SleepInv, Sleeping, AnswersFor
  <1>24. NewerThanDossiers'
    BY <1>8, <1>11 DEF NewerThanDossiers
  <1>25. NoStaleDossier'
    BY <1>10, <1>14 DEF SleepInv, NoStaleDossier, Live, Current
  <1>26. OneInference'
    <2>1. ASSUME NEW q \in memory, q.kind = "inferred", q.to = 0, q.subject = s, q.run # run
          PROVE  q.run \in raced /\ run \in raced
      BY <1>2, <2>1 DEF SleepInv, Sleeping, InferredClosed
    <2> QED
      BY <1>10, <1>14, <2>1 DEF SleepInv, OneInference, Live, Current
  <1>27. SentencesKept'
    BY <1>14 DEF SleepInv, SentencesKept, Current, Facts
  <1> QED
    BY <1>13, <1>16, <1>17, <1>18, <1>19, <1>20, <1>21, <1>22, <1>23, <1>24, <1>25, <1>26,
       <1>27
    DEF SleepInv, Sleeping

LEMMA SleepInitInv == SleepInit => SleepInv
  <1> SUFFICES ASSUME SleepInit PROVE SleepInv
    OBVIOUS
  <1>1. Awake \in Fields
    BY DEF Awake, Fields, NoItem
  <1>2. SleepTypes
    BY <1>1, FS_EmptySet DEF SleepInit, SleepTypes
  <1>3. Sleeping
    BY DEF SleepInit, Sleeping, RacedTogether, PassesSound, OlderClosed, InferredClosed,
           ReadOlder, OwnDate, Sourced, AnswersFor, NewerThanDossiers
  <1>4. NoStaleDossier /\ SentencesKept /\ OneInference
    BY DEF SleepInit, NoStaleDossier, SentencesKept, OneInference, Live
  <1> QED
    BY <1>2, <1>3, <1>4 DEF SleepInv

LEMMA SleepNextInv == ASSUME SleepBounds, SleepInv, [SleepNext]_sleepVars PROVE SleepInv'
  <1>1. CASE \E s \in Subjects, x \in Stated, from \in Dates : FactArrives(s, x, from)
    BY <1>1, FactArrivesStep
  <1>2. ASSUME NEW p \in Passes,
               \/ BeginPass(p) \/ Condense(p) \/ CloseSubject(p) \/ WriteDossier(p)
               \/ CloseInferred(p) \/ WriteInferred(p) \/ EndPass(p) \/ PassFails(p)
        PROVE  SleepInv'
    BY <1>2, BeginPassStep, CondenseStep, CloseSubjectStep, WriteDossierStep,
       CloseInferredStep, WriteInferredStep, EndPassStep, PassFailsStep
  <1>3. CASE UNCHANGED sleepVars
    BY <1>3 DEF sleepVars, SleepInv, SleepTypes, Sleeping, RacedTogether, PassesSound,
                PassSound, OlderClosed, InferredClosed, ReadOlder, OwnDate, Sourced,
                AnswersFor, NewerThanDossiers, NoStaleDossier, SentencesKept, OneInference,
                Live, Current, Facts
  <1> QED
    BY <1>1, <1>2, <1>3 DEF SleepNext

(* The newest fact exists: ids are given in order.                         *)
LEMMA NewestFact ==
  ASSUME SleepTypes, NEW f \in memory, f.kind = "fact"
  PROVE  \E n \in Newest("fact") : f.id <= n.id
  <1> DEFINE F == {r \in memory : r.kind = "fact"}
             younger == {lastRow - r.id : r \in F}
  <1>1. \A r \in F : r.id \in Nat /\ r.id <= lastRow /\ lastRow \in Nat
    BY DEF SleepTypes, SleepRows
  <1>2. younger \in SUBSET Nat /\ younger # {}
    BY <1>1
  <1>3. PICK y \in younger : \A z \in younger : y <= z
    BY <1>2, LeastExists
  <1>4. PICK n \in F : y = lastRow - n.id
    BY <1>3
  <1>5. ASSUME NEW r \in F PROVE r.id <= n.id
    <2>1. lastRow - n.id <= lastRow - r.id
      BY <1>3, <1>4
    <2> QED
      BY <1>1, <2>1
  <1> QED
    BY <1>5 DEF Newest

LEMMA CleanIsDone == SleepInv => CleanMeansDone
  <1> SUFFICES ASSUME SleepInv, ~Dirty, Asleep = {}, NEW f \in memory, f.kind = "fact"
               PROVE  f.id \in written \cup excused
    BY DEF CleanMeansDone, Facts, IdsOf
  <1>1. PICK n \in Newest("fact") : f.id <= n.id
    BY NewestFact DEF SleepInv
  <1>2. PICK d \in Newest("dossier") : TRUE
    BY DEF Dirty, Facts
  <1>3. ~(n.id > d.id)
    BY DEF Dirty
  <1>4. d \in memory /\ n \in memory /\ d.kind = "dossier"
    BY DEF Newest
  <1>5. f.id \in Nat /\ n.id \in Nat /\ d.id \in Nat
    BY <1>4 DEF SleepInv, SleepTypes, SleepRows
  <1>6. ~(d.id < f.id)
    BY <1>1, <1>3, <1>5
  <1>7. \A p \in Passes : pass[p] = Awake
    BY DEF Asleep
  <1> QED
    BY <1>4, <1>6, <1>7 DEF SleepInv, Sleeping, NewerThanDossiers

(* No dossier is staler than an older one, a pass keeps what it writes,    *)
(* the conclusions on a subject come from one pass, and a namespace that   *)
(* looks clean is done, but for passes that raced and facts that came      *)
(* beside one, for any number of passes, facts and failures.  A part of    *)
(* DerivedSound.                                                           *)
THEOREM SleepPassIsSound == SleepSpec => []SleepPassSound
  <1>1. SleepInit => SleepInv
    BY SleepInitInv
  <1>2. SleepInv /\ [SleepNext]_sleepVars => SleepInv'
    BY SleepNextInv, SleepBounds
  <1>3. SleepInv => SleepPassSound
    BY CleanIsDone DEF SleepInv, SleepPassSound
  <1> QED
    BY <1>1, <1>2, <1>3, PTL DEF SleepSpec

-----------------------------------------------------------------------------
(* Episodes.  A turn is told by its id; what a pass has still to write are *)
(* groups of turns of its own, of turns no episode holds unless passes ran *)
(* side by side; and whoever has written an episode is to link it.         *)
Turn == [id : Nat \ {0}, session : Sessions, moment : Nat]
Fact == [id : Nat \ {0}, from : SUBSET (Nat \ {0})]
Episode == [id : Nat \ {0}, turns : SUBSET Turn, pass : Nat]
Work == [stage : {"idle", "insert", "link"}, pass : Nat, todo : SUBSET (SUBSET Turn),
         episode : Nat, known : SUBSET Turn]

TurnsNumbered ==
  /\ said \in SUBSET Turn /\ IsFiniteSet(said)
  /\ \A t \in said : t.id <= Cardinality(said)
  /\ \A t, u \in said : t.id = u.id => t = u
FactsNumbered ==
  /\ extracted \in SUBSET Fact /\ IsFiniteSet(extracted)
  /\ \A f \in extracted : f.id <= Cardinality(extracted)
  /\ \A f, g \in extracted : f.id = g.id => f = g
EpisodesNumbered ==
  /\ episodes \in SUBSET Episode /\ IsFiniteSet(episodes)
  /\ \A e \in episodes : e.id <= Cardinality(episodes) /\ e.turns \subseteq said
  /\ \A e, f \in episodes : e.id = f.id => e = f
  /\ links \subseteq IdsIn(extracted) \X IdsIn(episodes)
SegmentersSound ==
  /\ segmentings \in Nat /\ segmenter \in [Segmenters -> Work]
  /\ \A p \in Segmenters : LET w == segmenter[p] IN w # NotSegmenting =>
       /\ w.pass <= segmentings /\ w.stage # "idle"
       /\ \A g \in w.todo : g # {} /\ g \subseteq said
       /\ w.stage = "insert" => w.episode = 0
       /\ w.stage = "link" => \E e \in episodes : e.id = w.episode

(* What belongs together, and nothing else, is one group.                  *)
Coherent(g) ==
  \A t, u \in g : Adjacent(g, t, u) => t.session = u.session /\ u.moment - t.moment <= Gap

SideBySide ==
  \A p, q \in Segmenters :
    p # q /\ segmenter[p] # NotSegmenting /\ segmenter[q] # NotSegmenting =>
      segmenter[p].pass # segmenter[q].pass /\ segmenter[p].pass \in beside
GroupsApart ==
  \A p \in Segmenters : \A g \in segmenter[p].todo :
    /\ Coherent(g)
    /\ \A h \in segmenter[p].todo : h # g => g \cap h = {}
    /\ \A e \in episodes : g \cap e.turns # {} => {segmenter[p].pass, e.pass} \subseteq beside
KnownInHand ==
  \A p \in Segmenters : \A t \in segmenter[p].known :
    (\E e \in episodes : t \in e.turns) \/ \E g \in segmenter[p].todo : t \in g

EpisodesTypes == TurnsNumbered /\ FactsNumbered /\ EpisodesNumbered /\ SegmentersSound
EpisodesInv == EpisodesTypes /\ SideBySide /\ GroupsApart /\ KnownInHand /\ EpisodesSound

-----------------------------------------------------------------------------
LEMMA EarlierOrder ==
  ASSUME NEW t \in Turn, NEW u \in Turn
  PROVE  /\ ~Earlier(t, t)
         /\ Earlier(t, u) => ~Earlier(u, t)
         /\ \A v \in Turn : Earlier(t, u) /\ Earlier(u, v) => Earlier(t, v)
         /\ t.id # u.id => Earlier(t, u) \/ Earlier(u, t)
  BY DEF Earlier, Turn

(* Groups are the classes of the turns with the same cuts before them.     *)
LEMMA GroupsCoherent ==
  ASSUME EpisodeBounds, NEW T \in SUBSET Turn, NEW g \in Groups(T)
  PROVE  Coherent(g) /\ g # {} /\ g \subseteq T
  <1>1. PICK t0 \in T : g = {u \in T : CutsBefore(T, u) = CutsBefore(T, t0)}
    BY DEF Groups
  <1>2. ASSUME NEW t \in T, NEW u \in T, Earlier(t, u)
        PROVE  CutsBefore(T, t) \subseteq CutsBefore(T, u)
    <2> SUFFICES ASSUME NEW c \in Cuts(T), c[1] # t, Earlier(c[1], t)
                 PROVE  c[1] # u /\ Earlier(c[1], u)
      BY DEF CutsBefore
    <2>1. c[1] \in Turn
      BY DEF Cuts
    <2> QED
      BY <1>2, <2>1, EarlierOrder
  <1>3. ASSUME NEW t \in g, NEW u \in g, Adjacent(g, t, u) PROVE Adjacent(T, t, u)
    <2> SUFFICES ASSUME NEW v \in T, Earlier(t, v), Earlier(v, u) PROVE v \in g
      BY <1>3 DEF Adjacent
    <2>1. CutsBefore(T, t) \subseteq CutsBefore(T, v) /\ CutsBefore(T, v) \subseteq CutsBefore(T, u)
      BY <1>1, <1>2
    <2>2. CutsBefore(T, t) = CutsBefore(T, t0) /\ CutsBefore(T, u) = CutsBefore(T, t0)
      BY <1>1
    <2>3. CutsBefore(T, v) = CutsBefore(T, t0)
      BY <2>1, <2>2
    <2> QED
      BY <1>1, <2>3
  <1>4. ASSUME NEW t \in g, NEW u \in g, Adjacent(g, t, u) PROVE ~Boundary(t, u)
    <2>1. Adjacent(T, t, u) /\ t \in T /\ u \in T /\ Earlier(t, u)
      BY <1>1, <1>3, <1>4 DEF Adjacent
    <2> SUFFICES ASSUME Boundary(t, u) PROVE FALSE
      OBVIOUS
    <2>2. <<t, u>> \in Cuts(T) /\ <<t, u>>[1] = t
      BY <2>1 DEF Cuts
    <2>3. t # u
      BY <2>1, EarlierOrder
    <2>4. <<t, u>> \in CutsBefore(T, u)
      BY <2>1, <2>2, <2>3 DEF CutsBefore
    <2>5. <<t, u>> \notin CutsBefore(T, t)
      BY <2>2 DEF CutsBefore
    <2> QED
      BY <1>1, <2>4, <2>5
  <1>5. \A t, u \in g : t.moment \in Nat /\ u.moment \in Nat /\ Gap \in Nat
    BY <1>1 DEF Turn, EpisodeBounds
  <1>6. Coherent(g)
    BY <1>4, <1>5 DEF Coherent, Boundary
  <1> QED
    BY <1>1, <1>6

LEMMA GroupsDisjoint ==
  ASSUME NEW T, NEW g \in Groups(T), NEW h \in Groups(T), g # h PROVE g \cap h = {}
  <1>1. PICK t \in T : g = {u \in T : CutsBefore(T, u) = CutsBefore(T, t)}
    BY DEF Groups
  <1>2. PICK v \in T : h = {u \in T : CutsBefore(T, u) = CutsBefore(T, v)}
    BY DEF Groups
  <1>3. ASSUME NEW x \in g, x \in h PROVE FALSE
    <2>1. CutsBefore(T, x) = CutsBefore(T, t) /\ CutsBefore(T, x) = CutsBefore(T, v)
      BY <1>1, <1>2, <1>3
    <2> QED
      BY <1>1, <1>2, <2>1
  <1> QED
    BY <1>3

LEMMA GroupsCover == ASSUME NEW T, NEW t \in T PROVE \E g \in Groups(T) : t \in g
  <1>1. {u \in T : CutsBefore(T, u) = CutsBefore(T, t)} \in Groups(T)
    BY DEF Groups
  <1> QED
    BY <1>1

LEMMA GroupsFinite == ASSUME NEW T, IsFiniteSet(T) PROVE IsFiniteSet(Groups(T))
  <1> DEFINE f == [t \in T |-> {u \in T : CutsBefore(T, u) = CutsBefore(T, t)}]
  <1>1. f \in Surjection(T, Groups(T))
    BY DEF Surjection, Groups
  <1> QED
    BY <1>1, FS_Surjection

(* Of some turns, one has none before it.                                  *)
LEMMA EarliestTurn ==
  ASSUME NEW S \in SUBSET Turn, S # {} PROVE \E t \in S : \A u \in S : ~Earlier(u, t)
  <1> DEFINE M == {t.moment : t \in S}
  <1>1. M \in SUBSET Nat /\ M # {}
    BY DEF Turn
  <1>2. PICK m \in M : \A n \in M : m <= n
    BY <1>1, LeastExists
  <1> DEFINE I == {t.id : t \in {u \in S : u.moment = m}}
  <1>3. I \in SUBSET Nat /\ I # {}
    BY <1>2 DEF Turn
  <1>4. PICK i \in I : \A j \in I : i <= j
    BY <1>3, LeastExists
  <1>5. PICK t \in S : t.moment = m /\ t.id = i
    BY <1>4
  <1>6. ASSUME NEW u \in S PROVE ~Earlier(u, t)
    <2>1. m <= u.moment /\ m \in Nat /\ u.moment \in Nat
      BY <1>1, <1>2
    <2>2. u.moment = m => i <= u.id
      BY <1>4
    <2>3. i \in Nat /\ u.id \in Nat
      BY <1>3, <1>4 DEF Turn
    <2> QED
      BY <1>5, <2>1, <2>2, <2>3 DEF Earlier
  <1> QED
    BY <1>6

LEMMA FirstOfGroup ==
  ASSUME NEW g \in SUBSET Turn, g # {}, \A t, u \in g : t.id = u.id => t = u
  PROVE  First(g) \in g
  <1>1. PICK t \in g : \A u \in g : ~Earlier(u, t)
    BY EarliestTurn
  <1>2. \A u \in g \ {t} : Earlier(t, u)
    BY <1>1, EarlierOrder
  <1> QED
    BY <1>1, <1>2 DEF First

(* The group a pass takes next is one of its groups.                       *)
LEMMA NextGroup ==
  ASSUME NEW G \in SUBSET (SUBSET Turn), G # {}, IsFiniteSet(G),
         \A g \in G : g # {} /\ \A t, u \in g : t.id = u.id => t = u
  PROVE  (CHOOSE h \in G : h \in Soonest(G, 1)) \in G
  <1> DEFINE F == {First(g) : g \in G}
  <1>1. \A g \in G : First(g) \in g
    BY FirstOfGroup
  <1>2. F \in SUBSET Turn /\ F # {}
    BY <1>1
  <1>3. PICK t \in F : \A u \in F : ~Earlier(u, t)
    BY <1>2, EarliestTurn
  <1>4. PICK g \in G : t = First(g)
    BY <1>3
  <1> DEFINE E == {h \in G : Earlier(First(h), First(g))}
  <1>5. E = {}
    BY <1>3, <1>4
  <1>6. Cardinality(E) < 1
    <2>1. Cardinality({}) = 0
      BY FS_EmptySet
    <2> HIDE DEF E
    <2> QED
      BY <1>5, <2>1
  <1>7. g \in Soonest(G, 1)
    BY <1>6 DEF Soonest
  <1> QED
    BY <1>7

(* Every group is taken when there are no more than a pass may write.      *)
LEMMA AllTaken ==
  ASSUME NEW G \in SUBSET (SUBSET Turn), IsFiniteSet(G), NEW n \in Nat, Cardinality(G) <= n,
         \A g \in G : g # {} /\ \A t, u \in g : t.id = u.id => t = u
  PROVE  Soonest(G, n) = G
  <1> SUFFICES ASSUME NEW g \in G
               PROVE  Cardinality({h \in G : Earlier(First(h), First(g))}) < n
    BY DEF Soonest
  <1> DEFINE E == {h \in G : Earlier(First(h), First(g))}
  <1>1. First(g) \in g /\ First(g) \in Turn
    BY FirstOfGroup
  <1>2. g \notin E
    BY <1>1, EarlierOrder
  <1>3. E \in SUBSET G /\ E # G
    BY <1>2
  <1>4. /\ IsFiniteSet(E) /\ Cardinality(E) <= Cardinality(G)
        /\ Cardinality(G) = Cardinality(E) => G = E
    BY <1>3, FS_Subset
  <1>5. Cardinality(E) \in Nat /\ Cardinality(G) \in Nat
    BY <1>4, FS_CardinalityType
  <1> HIDE DEF E
  <1>6. Cardinality(E) < n
    BY <1>3, <1>4, <1>5
  <1> QED
    BY <1>6 DEF E

-----------------------------------------------------------------------------
LEMMA NextNumber ==
  ASSUME NEW S, IsFiniteSet(S), NEW x, \A y \in S : y.id \in Nat /\ y.id <= Cardinality(S),
         x.id = Cardinality(S) + 1
  PROVE  /\ x \notin S /\ Cardinality(S) \in Nat /\ IsFiniteSet(S \cup {x})
         /\ Cardinality(S \cup {x}) = Cardinality(S) + 1
         /\ x.id \in Nat \ {0} /\ \A y \in S : y.id # x.id /\ y.id <= Cardinality(S) + 1
  <1>1. Cardinality(S) \in Nat
    BY FS_CardinalityType
  <1>2. \A y \in S : y.id # x.id /\ y.id <= Cardinality(S) + 1
    BY <1>1
  <1>3. x \notin S
    BY <1>2
  <1>4. IsFiniteSet(S \cup {x}) /\ Cardinality(S \cup {x}) = Cardinality(S) + 1
    BY <1>3, FS_AddElement
  <1> QED
    BY <1>1, <1>2, <1>3, <1>4

LEMMA TurnSaidStep ==
  ASSUME EpisodeBounds, EpisodesInv, NEW s \in Sessions, NEW m \in Moments, TurnSaid(s, m)
  PROVE  EpisodesInv'
  <1> DEFINE t == [id |-> Cardinality(said) + 1, session |-> s, moment |-> m]
  <1>1. /\ said' = said \cup {t}
        /\ UNCHANGED <<extracted, episodes, links, segmenter, segmentings, beside, unlinked,
                       settled, late>>
    BY DEF TurnSaid
  <1>2. t.id = Cardinality(said) + 1
    OBVIOUS
  <1>3. \A u \in said : u.id \in Nat /\ u.id <= Cardinality(said)
    BY DEF EpisodesInv, EpisodesTypes, TurnsNumbered, Turn
  <1>4. /\ t \notin said /\ Cardinality(said) \in Nat /\ IsFiniteSet(said \cup {t})
        /\ Cardinality(said \cup {t}) = Cardinality(said) + 1
        /\ t.id \in Nat \ {0} /\ \A u \in said : u.id # t.id /\ u.id <= Cardinality(said) + 1
    <2>1. IsFiniteSet(said)
      BY DEF EpisodesInv, EpisodesTypes, TurnsNumbered
    <2> HIDE DEF t
    <2> QED
      BY <1>2, <1>3, <2>1, NextNumber
  <1>5. t \in Turn
    BY <1>4 DEF Turn, EpisodeBounds
  <1> HIDE DEF t
  <1>6. TurnsNumbered'
    <2>1. /\ said \in SUBSET Turn
          /\ \A u, v \in said : u.id = v.id => u = v
      BY DEF EpisodesInv, EpisodesTypes, TurnsNumbered
    <2>2. said' \in SUBSET Turn /\ IsFiniteSet(said')
      BY <1>1, <1>4, <1>5, <2>1
    <2>3. Cardinality(said') = Cardinality(said) + 1
      BY <1>1, <1>4
    <2>4. \A u \in said' : u.id <= Cardinality(said')
      BY <1>1, <1>2, <1>4, <2>3
    <2>5. \A u, v \in said' : u.id = v.id => u = v
      BY <1>1, <1>4, <2>1
    <2> QED
      BY <2>2, <2>4, <2>5 DEF TurnsNumbered
  <1>7. FactsNumbered' /\ EpisodesNumbered' /\ SegmentersSound'
    BY <1>1 DEF EpisodesInv, EpisodesTypes, FactsNumbered, EpisodesNumbered, SegmentersSound
  <1>8. SideBySide' /\ GroupsApart' /\ KnownInHand'
    BY <1>1 DEF EpisodesInv, SideBySide, GroupsApart, KnownInHand, Coherent, Adjacent
  <1>9. EpisodesSound'
    BY <1>1 DEF EpisodesInv, EpisodesSound, TurnsEpisodesOnce, NoTurnLeftBehind, FactsLinked,
                Linking, Adjacent
  <1> QED
    BY <1>6, <1>7, <1>8, <1>9 DEF EpisodesInv, EpisodesTypes

LEMMA FactExtractedStep ==
  ASSUME EpisodesInv, NEW from \in SUBSET IdsIn(said), FactExtracted(from)
  PROVE  EpisodesInv'
  <1> DEFINE f == [id |-> Cardinality(extracted) + 1, from |-> from]
             missed == {<<f.id, e.id>> : e \in {x \in episodes : ~Linking(x.id)}}
  <1>1. /\ extracted' = extracted \cup {f} /\ late' = late \cup missed
        /\ UNCHANGED <<said, episodes, links, segmenter, segmentings, beside, unlinked, settled>>
    BY DEF FactExtracted
  <1>2. f.id = Cardinality(extracted) + 1 /\ f.from = from
    OBVIOUS
  <1>3. \A g \in extracted : g.id \in Nat /\ g.id <= Cardinality(extracted)
    BY DEF EpisodesInv, EpisodesTypes, FactsNumbered, Fact
  <1>4. /\ f \notin extracted /\ Cardinality(extracted) \in Nat /\ IsFiniteSet(extracted \cup {f})
        /\ Cardinality(extracted \cup {f}) = Cardinality(extracted) + 1
        /\ f.id \in Nat \ {0}
        /\ \A g \in extracted : g.id # f.id /\ g.id <= Cardinality(extracted) + 1
    <2>1. IsFiniteSet(extracted)
      BY DEF EpisodesInv, EpisodesTypes, FactsNumbered
    <2> HIDE DEF f
    <2> QED
      BY <1>2, <1>3, <2>1, NextNumber
  <1>5. f \in Fact
    <2>1. IdsIn(said) \subseteq Nat \ {0}
      BY DEF EpisodesInv, EpisodesTypes, TurnsNumbered, Turn, IdsIn
    <2> QED
      BY <1>4, <2>1 DEF Fact
  <1>6. \A e \in episodes : ~Linking(e.id) => <<f.id, e.id>> \in late'
    BY <1>1
  <1> HIDE DEF f, missed
  <1>7. FactsNumbered'
    <2>1. /\ extracted \in SUBSET Fact
          /\ \A g, h \in extracted : g.id = h.id => g = h
      BY DEF EpisodesInv, EpisodesTypes, FactsNumbered
    <2>2. extracted' \in SUBSET Fact /\ IsFiniteSet(extracted')
      BY <1>1, <1>4, <1>5, <2>1
    <2>3. Cardinality(extracted') = Cardinality(extracted) + 1
      BY <1>1, <1>4
    <2>4. \A g \in extracted' : g.id <= Cardinality(extracted')
      BY <1>1, <1>2, <1>4, <2>3
    <2>5. \A g, h \in extracted' : g.id = h.id => g = h
      BY <1>1, <1>4, <2>1
    <2> QED
      BY <2>2, <2>4, <2>5 DEF FactsNumbered
  <1>8. TurnsNumbered' /\ EpisodesNumbered' /\ SegmentersSound'
    BY <1>1 DEF EpisodesInv, EpisodesTypes, TurnsNumbered, EpisodesNumbered, SegmentersSound,
                IdsIn
  <1>9. SideBySide' /\ GroupsApart' /\ KnownInHand'
    BY <1>1 DEF EpisodesInv, SideBySide, GroupsApart, KnownInHand
  <1>10. TurnsEpisodesOnce' /\ NoTurnLeftBehind'
    BY <1>1 DEF EpisodesInv, EpisodesSound, TurnsEpisodesOnce, NoTurnLeftBehind
  <1>11. FactsLinked'
    <2> SUFFICES ASSUME NEW g \in extracted', NEW e \in episodes
                 PROVE  /\ <<g.id, e.id>> \in links => g.from \cap IdsIn(e.turns) # {}
                        /\ /\ g.from \cap IdsIn(e.turns) # {} /\ ~Linking(e.id)
                           /\ <<g.id, e.id>> \notin late' /\ e.id \notin unlinked
                           => <<g.id, e.id>> \in links
      BY <1>1 DEF FactsLinked, Linking
    <2>1. CASE g \in extracted
      BY <1>1, <2>1 DEF EpisodesInv, EpisodesSound, FactsLinked
    <2>2. CASE g = f
      <3>1. <<f.id, e.id>> \notin links
        BY <1>4 DEF EpisodesInv, EpisodesTypes, EpisodesNumbered, IdsIn
      <3> QED
        BY <1>6, <2>2, <3>1
    <2> QED
      BY <1>1, <2>1, <2>2
  <1> QED
    BY <1>7, <1>8, <1>9, <1>10, <1>11 DEF EpisodesInv, EpisodesTypes, EpisodesSound

LEMMA OneSegmenter ==
  ASSUME SegmentersSound, NEW p \in Segmenters, NEW a,
         segmenter' = [segmenter EXCEPT ![p] = a]
  PROVE  /\ segmenter[p] \in Work /\ segmenter'[p] = a
         /\ \A q \in Segmenters : q # p => segmenter'[q] = segmenter[q]
         /\ a \in Work => segmenter' \in [Segmenters -> Work]
  BY DEF SegmentersSound

LEMMA WorkFields ==
  ASSUME EpisodesInv, NEW p \in Segmenters
  PROVE  \E stage \in {"idle", "insert", "link"}, num \in Nat,
            todo \in SUBSET (SUBSET Turn), episode \in Nat, known \in SUBSET Turn :
           segmenter[p] = [stage |-> stage, pass |-> num, todo |-> todo,
                           episode |-> episode, known |-> known]
  <1>1. segmenter[p] \in Work
    BY DEF EpisodesInv, EpisodesTypes, SegmentersSound
  <1> QED
    BY <1>1 DEF Work

(* A pass that leaves, done or not.                                        *)
LEMMA LeaveStep ==
  ASSUME EpisodesInv, NEW p \in Segmenters, segmenter[p] # NotSegmenting,
         segmenter' = [segmenter EXCEPT ![p] = NotSegmenting],
         UNCHANGED <<said, extracted, episodes, links, segmentings, beside, late>>,
         unlinked \subseteq unlinked',
         segmenter[p].episode # 0 => segmenter[p].episode \in unlinked',
         \A t \in settled' : t \in settled \/ \E e \in episodes : t \in e.turns
  PROVE  EpisodesInv'
  <1>1. NotSegmenting.episode = 0 /\ NotSegmenting.todo = {} /\ NotSegmenting.known = {}
        /\ NotSegmenting \in Work
    BY DEF NotSegmenting, Work
  <1>2. /\ segmenter'[p] = NotSegmenting
        /\ \A q \in Segmenters : q # p => segmenter'[q] = segmenter[q]
        /\ segmenter' \in [Segmenters -> Work]
    BY <1>1, OneSegmenter DEF EpisodesInv, EpisodesTypes
  <1>3. TurnsNumbered' /\ FactsNumbered' /\ EpisodesNumbered'
    BY DEF EpisodesInv, EpisodesTypes, TurnsNumbered, FactsNumbered, EpisodesNumbered, IdsIn
  <1>4. SegmentersSound'
    BY <1>2 DEF EpisodesInv, EpisodesTypes, SegmentersSound
  <1>5. SideBySide' /\ GroupsApart' /\ KnownInHand'
    BY <1>1, <1>2 DEF EpisodesInv, SideBySide, GroupsApart, KnownInHand
  <1>6. TurnsEpisodesOnce' /\ NoTurnLeftBehind'
    BY DEF EpisodesInv, EpisodesSound, TurnsEpisodesOnce, NoTurnLeftBehind
  <1>7. FactsLinked'
    <2>1. ASSUME NEW e \in episodes, ~Linking(e.id)', e.id \notin unlinked'
          PROVE  ~Linking(e.id) /\ e.id \notin unlinked
      <3>1. e.id # 0
        BY DEF EpisodesInv, EpisodesTypes, EpisodesNumbered, Episode
      <3> QED
        BY <1>2, <2>1, <3>1 DEF Linking
    <2> QED
      BY <2>1 DEF EpisodesInv, EpisodesSound, FactsLinked
  <1> QED
    BY <1>3, <1>4, <1>5, <1>6, <1>7 DEF EpisodesInv, EpisodesTypes, EpisodesSound

LEMMA EndSegmentingStep ==
  ASSUME EpisodesInv, NEW p \in Segmenters, EndSegmenting(p) PROVE EpisodesInv'
  <1>1. segmenter[p] # NotSegmenting
    BY DEF EndSegmenting, NotSegmenting
  <1>2. segmenter[p].episode = 0
    BY <1>1 DEF EndSegmenting, EpisodesInv, EpisodesTypes, SegmentersSound
  <1>3. \A t \in segmenter[p].known : \E e \in episodes : t \in e.turns
    BY DEF EndSegmenting, EpisodesInv, KnownInHand
  <1> QED
    BY <1>1, <1>2, <1>3, LeaveStep DEF EndSegmenting

LEMMA SegmentingFailsStep ==
  ASSUME EpisodesInv, NEW p \in Segmenters, SegmentingFails(p) PROVE EpisodesInv'
  BY LeaveStep DEF SegmentingFails

LEMMA LinkEpisodeStep ==
  ASSUME EpisodesInv, NEW p \in Segmenters, LinkEpisode(p) PROVE EpisodesInv'
  <1>1. PICK stage \in {"idle", "insert", "link"}, num \in Nat,
            todo \in SUBSET (SUBSET Turn), episode \in Nat, known \in SUBSET Turn :
           segmenter[p] = [stage |-> stage, pass |-> num, todo |-> todo,
                           episode |-> episode, known |-> known]
    BY WorkFields
  <1>2. /\ segmenter[p].stage = "link" /\ segmenter[p] # NotSegmenting
        /\ segmenter[p].pass = num /\ segmenter[p].todo = todo
        /\ segmenter[p].episode = episode /\ segmenter[p].known = known
    BY <1>1 DEF LinkEpisode, NotSegmenting
  <1> DEFINE a == [stage |-> "insert", pass |-> num, todo |-> todo, episode |-> 0,
                   known |-> known]
  <1>3. segmenter' = [segmenter EXCEPT ![p] = a]
    <2>1. PICK s : s = [segmenter[p] EXCEPT !.stage = "insert"]
      OBVIOUS
    <2>2. s = [stage |-> "insert", pass |-> num, todo |-> todo, episode |-> episode,
               known |-> known]
      BY <1>1, <2>1
    <2>3. PICK t : t = [s EXCEPT !.episode = 0]
      OBVIOUS
    <2>4. t = a
      BY <2>2, <2>3
    <2>5. segmenter \in [Segmenters -> Work]
      BY DEF EpisodesInv, EpisodesTypes, SegmentersSound
    <2>6. segmenter' = [segmenter EXCEPT ![p].stage = "insert", ![p].episode = 0]
      BY DEF LinkEpisode
    <2> QED
      BY <2>1, <2>3, <2>4, <2>5, <2>6
  <1>4. /\ a \in Work /\ a.stage = "insert" /\ a.pass = num /\ a.todo = todo
        /\ a.episode = 0 /\ a.known = known /\ a # NotSegmenting
    BY <1>1 DEF Work, NotSegmenting
  <1> HIDE DEF a
  <1>5. /\ segmenter'[p] = a /\ \A q \in Segmenters : q # p => segmenter'[q] = segmenter[q]
        /\ segmenter' \in [Segmenters -> Work]
    BY <1>3, <1>4, OneSegmenter DEF EpisodesInv, EpisodesTypes
  <1>6. PICK e \in episodes : e.id = episode
    BY <1>2 DEF EpisodesInv, EpisodesTypes, SegmentersSound
  <1>7. e = CHOOSE x \in episodes : x.id = segmenter[p].episode
    BY <1>2, <1>6 DEF EpisodesInv, EpisodesTypes, EpisodesNumbered
  <1>8. /\ links' = links \cup {<<f.id, e.id>> : f \in {x \in extracted : Overlaps(x, e.turns)}}
        /\ UNCHANGED <<said, extracted, episodes, segmentings, beside, unlinked, settled, late>>
    BY <1>7 DEF LinkEpisode
  <1>9. \A l \in links' : l \in links
          \/ \E f \in extracted : l = <<f.id, e.id>> /\ f.from \cap IdsIn(e.turns) # {}
    BY <1>8 DEF Overlaps
  <1>10. \A f \in extracted : f.from \cap IdsIn(e.turns) # {} => <<f.id, e.id>> \in links'
    BY <1>8 DEF Overlaps
  <1>11. TurnsNumbered' /\ FactsNumbered'
    BY <1>8 DEF EpisodesInv, EpisodesTypes, TurnsNumbered, FactsNumbered
  <1>12. EpisodesNumbered'
    <2>1. links' \subseteq IdsIn(extracted) \X IdsIn(episodes)
      BY <1>6, <1>8 DEF EpisodesInv, EpisodesTypes, EpisodesNumbered, IdsIn
    <2> QED
      BY <1>8, <2>1 DEF EpisodesInv, EpisodesTypes, EpisodesNumbered, IdsIn
  <1>13. SegmentersSound'
    BY <1>2, <1>4, <1>5, <1>8 DEF EpisodesInv, EpisodesTypes, SegmentersSound
  <1>14. SideBySide' /\ GroupsApart' /\ KnownInHand'
    BY <1>2, <1>4, <1>5, <1>8 DEF EpisodesInv, SideBySide, GroupsApart, KnownInHand
  <1>15. TurnsEpisodesOnce' /\ NoTurnLeftBehind'
    BY <1>8 DEF EpisodesInv, EpisodesSound, TurnsEpisodesOnce, NoTurnLeftBehind
  <1>16. FactsLinked'
    <2> SUFFICES ASSUME NEW f \in extracted, NEW x \in episodes
                 PROVE  /\ <<f.id, x.id>> \in links' => f.from \cap IdsIn(x.turns) # {}
                        /\ /\ f.from \cap IdsIn(x.turns) # {} /\ ~Linking(x.id)'
                           /\ <<f.id, x.id>> \notin late /\ x.id \notin unlinked
                           => <<f.id, x.id>> \in links'
      BY <1>8 DEF FactsLinked
    <2>1. <<f.id, x.id>> \in links => f.from \cap IdsIn(x.turns) # {}
      BY DEF EpisodesInv, EpisodesSound, FactsLinked
    <2>2. x.id # e.id => (~Linking(x.id)' => ~Linking(x.id))
      BY <1>2, <1>5, <1>6 DEF Linking
    <2>3. x.id = e.id => x = e
      BY DEF EpisodesInv, EpisodesTypes, EpisodesNumbered
    <2>4. ASSUME <<f.id, x.id>> \in links' PROVE f.from \cap IdsIn(x.turns) # {}
      <3>1. CASE <<f.id, x.id>> \in links
        BY <2>1, <3>1
      <3>2. CASE <<f.id, x.id>> \notin links
        <4>1. PICK g \in extracted : /\ <<f.id, x.id>> = <<g.id, e.id>>
                                     /\ g.from \cap IdsIn(e.turns) # {}
          BY <1>9, <2>4, <3>2
        <4>2. g.id = f.id /\ x.id = e.id
          BY <4>1
        <4>3. g = f
          BY <4>2 DEF EpisodesInv, EpisodesTypes, FactsNumbered
        <4> QED
          BY <2>3, <4>1, <4>2, <4>3
      <3> QED
        BY <3>1, <3>2
    <2>5. ASSUME f.from \cap IdsIn(x.turns) # {}, ~Linking(x.id)',
                 <<f.id, x.id>> \notin late, x.id \notin unlinked
          PROVE  <<f.id, x.id>> \in links'
      <3>1. CASE x = e
        BY <1>10, <2>5, <3>1
      <3>2. CASE x # e
        <4>1. <<f.id, x.id>> \in links
          BY <2>2, <2>3, <2>5, <3>2 DEF EpisodesInv, EpisodesSound, FactsLinked
        <4> QED
          BY <1>8, <4>1
      <3> QED
        BY <3>1, <3>2
    <2> QED
      BY <2>4, <2>5
  <1> QED
    BY <1>11, <1>12, <1>13, <1>14, <1>15, <1>16 DEF EpisodesInv, EpisodesTypes, EpisodesSound

LEMMA BeginSegmentingStep ==
  ASSUME EpisodeBounds, EpisodesInv, NEW p \in Segmenters, BeginSegmenting(p)
  PROVE  EpisodesInv'
  <1> DEFINE U == Uncovered
             G == Groups(U)
             todo == Soonest(G, MaxEpisodes)
             known == IF Cardinality(G) <= MaxEpisodes THEN said ELSE {}
             num == segmentings + 1
             a == [stage |-> "insert", pass |-> num, episode |-> 0, todo |-> todo,
                   known |-> known]
  <1>1. /\ segmenter[p] = NotSegmenting /\ segmenter' = [segmenter EXCEPT ![p] = a]
        /\ segmentings' = num /\ beside \subseteq beside'
        /\ UNCHANGED <<said, extracted, episodes, links, unlinked, settled, late>>
    BY DEF BeginSegmenting
  <1>2. segmentings \in Nat /\ num \in Nat
    BY DEF EpisodesInv, EpisodesTypes, SegmentersSound
  <1>3. U \in SUBSET said /\ said \in SUBSET Turn /\ IsFiniteSet(said)
        /\ \A t, u \in said : t.id = u.id => t = u
    BY DEF Uncovered, EpisodesInv, EpisodesTypes, TurnsNumbered
  <1>4. IsFiniteSet(U) /\ U \in SUBSET Turn
    BY <1>3, FS_Subset
  <1> HIDE DEF U
  <1>5. \A g \in G : Coherent(g) /\ g # {} /\ g \subseteq U
    BY <1>4, GroupsCoherent
  <1>6. IsFiniteSet(G)
    BY <1>4, GroupsFinite
  <1>7. G \in SUBSET (SUBSET Turn) /\ \A g \in G : g # {} /\ \A t, u \in g : t.id = u.id => t = u
    BY <1>3, <1>4, <1>5
  <1> HIDE DEF G
  <1>8. todo \subseteq G
    BY DEF Soonest
  <1>9. known # {} => todo = G /\ known = said
    <2>1. MaxEpisodes \in Nat
      BY DEF EpisodeBounds
    <2> QED
      BY <1>6, <1>7, <2>1, AllTaken
  <1>10. a \in Work
    <2>1. todo \in SUBSET (SUBSET Turn) /\ known \in SUBSET Turn
      BY <1>3, <1>7, <1>8
    <2> HIDE DEF todo, known
    <2> QED
      BY <1>2, <2>1 DEF Work
  <1>11. /\ a.stage = "insert" /\ a.pass = num /\ a.episode = 0 /\ a.todo = todo
         /\ a.known = known
    OBVIOUS
  <1>12. a # NotSegmenting
    BY DEF NotSegmenting
  <1> HIDE DEF a, todo, known
  <1>13. /\ segmenter'[p] = a /\ \A q \in Segmenters : q # p => segmenter'[q] = segmenter[q]
         /\ segmenter' \in [Segmenters -> Work]
    BY <1>1, <1>10, OneSegmenter DEF EpisodesInv, EpisodesTypes
  <1>14. \A q \in Segmenters : q # p /\ segmenter[q] # NotSegmenting =>
           /\ num \in beside' /\ segmenter[q].pass \in beside'
           /\ segmenter[q].pass # num
    <2>1. \A q \in Segmenters : segmenter[q] # NotSegmenting => q \in Segmenting
      BY DEF Segmenting
    <2>2. ASSUME NEW q \in Segmenters, segmenter[q] # NotSegmenting
          PROVE  segmenter[q].pass # num
      <3>1. segmenter[q].pass <= segmentings /\ segmenter[q].pass \in Nat
        BY <2>2 DEF EpisodesInv, EpisodesTypes, SegmentersSound, Work
      <3> QED
        BY <1>2, <3>1
    <2> QED
      BY <2>1, <2>2 DEF BeginSegmenting
  <1>15. TurnsNumbered' /\ FactsNumbered' /\ EpisodesNumbered'
    BY <1>1 DEF EpisodesInv, EpisodesTypes, TurnsNumbered, FactsNumbered, EpisodesNumbered, IdsIn
  <1>16. SegmentersSound'
    <2>1. ASSUME NEW q \in Segmenters, q # p, segmenter[q] # NotSegmenting
          PROVE  segmenter[q].pass <= segmentings'
      <3>1. segmenter[q].pass <= segmentings /\ segmenter[q].pass \in Nat
        BY <2>1 DEF EpisodesInv, EpisodesTypes, SegmentersSound, Work
      <3> QED
        BY <1>1, <1>2, <3>1
    <2>2. ASSUME NEW q \in Segmenters, q # p, segmenter'[q] # NotSegmenting
          PROVE  LET w == segmenter'[q] IN
                 /\ w.pass <= segmentings' /\ w.stage # "idle"
                 /\ \A g \in w.todo : g # {} /\ g \subseteq said
                 /\ w.stage = "insert" => w.episode = 0
                 /\ w.stage = "link" => \E e \in episodes : e.id = w.episode
      BY <1>13, <2>1, <2>2 DEF EpisodesInv, EpisodesTypes, SegmentersSound
    <2>3. \A g \in todo : g # {} /\ g \subseteq said
      BY <1>3, <1>5, <1>8
    <2>4. num <= segmentings' /\ segmentings' \in Nat
      BY <1>1, <1>2
    <2> QED
      BY <1>1, <1>11, <1>13, <2>2, <2>3, <2>4 DEF SegmentersSound
  <1>17. SideBySide'
    BY <1>1, <1>11, <1>13, <1>14 DEF EpisodesInv, SideBySide
  <1>18. GroupsApart'
    <2>1. \A g \in todo : /\ Coherent(g)
                          /\ \A h \in todo : h # g => g \cap h = {}
      BY <1>5, <1>8, GroupsDisjoint DEF G
    <2>2. ASSUME NEW g \in todo, NEW e \in episodes PROVE g \cap e.turns = {}
      <3>1. g \subseteq U
        BY <1>5, <1>8
      <3> QED
        BY <3>1 DEF U, Uncovered, IdsIn
    <2> QED
      BY <1>1, <1>11, <1>13, <2>1, <2>2 DEF EpisodesInv, GroupsApart
  <1>19. KnownInHand'
    <2>1. ASSUME NEW t \in known
          PROVE  (\E e \in episodes : t \in e.turns) \/ \E g \in todo : t \in g
      <3>1. todo = G /\ t \in said
        BY <1>9, <2>1
      <3>2. CASE t \in U
        BY <3>1, <3>2, GroupsCover DEF G
      <3>3. CASE t \notin U
        <4>1. PICK e \in episodes : t.id \in IdsIn(e.turns)
          BY <3>1, <3>3 DEF U, Uncovered
        <4>2. PICK u \in e.turns : u.id = t.id
          BY <4>1 DEF IdsIn
        <4>3. u \in said
          BY <4>2 DEF EpisodesInv, EpisodesTypes, EpisodesNumbered
        <4> QED
          BY <1>3, <3>1, <4>2, <4>3
      <3> QED
        BY <3>2, <3>3
    <2> QED
      BY <1>1, <1>11, <1>13, <2>1 DEF EpisodesInv, KnownInHand
  <1>20. TurnsEpisodesOnce' /\ NoTurnLeftBehind'
    BY <1>1 DEF EpisodesInv, EpisodesSound, TurnsEpisodesOnce, NoTurnLeftBehind
  <1>21. FactsLinked'
    <2>1. \A e \in episodes : Linking(e.id)' <=> Linking(e.id)
      <3>1. \A e \in episodes : e.id # 0
        BY DEF EpisodesInv, EpisodesTypes, EpisodesNumbered, Episode
      <3>2. segmenter[p].episode = 0 /\ segmenter'[p].episode = 0
        BY <1>1, <1>11, <1>13 DEF NotSegmenting
      <3> QED
        BY <1>13, <3>1, <3>2 DEF Linking
    <2> QED
      BY <1>1, <2>1 DEF EpisodesInv, EpisodesSound, FactsLinked
  <1> QED
    BY <1>15, <1>16, <1>17, <1>18, <1>19, <1>20, <1>21
    DEF EpisodesInv, EpisodesTypes, EpisodesSound

LEMMA InsertEpisodeStep ==
  ASSUME EpisodesInv, NEW p \in Segmenters, InsertEpisode(p) PROVE EpisodesInv'
  <1>1. PICK stage \in {"idle", "insert", "link"}, num \in Nat,
            todo \in SUBSET (SUBSET Turn), episode \in Nat, known \in SUBSET Turn :
           segmenter[p] = [stage |-> stage, pass |-> num, todo |-> todo,
                           episode |-> episode, known |-> known]
    BY WorkFields
  <1>2. /\ segmenter[p].stage = "insert" /\ segmenter[p] # NotSegmenting
        /\ segmenter[p].pass = num /\ segmenter[p].todo = todo
        /\ segmenter[p].episode = episode /\ segmenter[p].known = known /\ todo # {}
    BY <1>1 DEF InsertEpisode, NotSegmenting
  <1>3. /\ num <= segmentings /\ \A g \in todo : g # {} /\ g \subseteq said
        /\ episode = 0
    BY <1>2 DEF EpisodesInv, EpisodesTypes, SegmentersSound
  <1>4. said \in SUBSET Turn /\ IsFiniteSet(said) /\ \A t, u \in said : t.id = u.id => t = u
    BY DEF EpisodesInv, EpisodesTypes, TurnsNumbered
  <1>5. IsFiniteSet(todo)
    <2>1. todo \in SUBSET (SUBSET said)
      BY <1>3
    <2>2. IsFiniteSet(SUBSET said)
      BY <1>4, FS_SUBSET
    <2> QED
      BY <2>1, <2>2, FS_Subset
  <1>6. \A g \in todo : g # {} /\ \A t, u \in g : t.id = u.id => t = u
    BY <1>3, <1>4
  <1>7. PICK g \in todo : g = CHOOSE h \in todo : h \in Soonest(todo, 1)
    BY <1>2, <1>5, <1>6, NextGroup
  <1> DEFINE id == Cardinality(episodes) + 1
             e == [id |-> id, turns |-> g, pass |-> num]
             rest == todo \ {g}
             a == [stage |-> "link", pass |-> num, todo |-> rest, episode |-> id,
                   known |-> known]
  <1>8. /\ episodes' = episodes \cup {e}
        /\ UNCHANGED <<said, extracted, links, segmentings, beside, unlinked, settled, late>>
    BY <1>2, <1>7 DEF InsertEpisode
  <1>9. segmenter' = [segmenter EXCEPT ![p] = a]
    <2>1. PICK s : s = [segmenter[p] EXCEPT !.stage = "link"]
      OBVIOUS
    <2>2. s = [stage |-> "link", pass |-> num, todo |-> todo, episode |-> episode,
               known |-> known]
      BY <1>1, <2>1
    <2>3. PICK t : t = [s EXCEPT !.episode = id]
      OBVIOUS
    <2>4. t = [stage |-> "link", pass |-> num, todo |-> todo, episode |-> id,
               known |-> known]
      BY <2>2, <2>3
    <2>5. PICK u : u = [t EXCEPT !.todo = rest]
      OBVIOUS
    <2>6. u = a
      BY <2>4, <2>5
    <2>7. segmenter \in [Segmenters -> Work] /\ t.todo = todo
      BY <2>4 DEF EpisodesInv, EpisodesTypes, SegmentersSound
    <2>8. segmenter' = [segmenter EXCEPT ![p].stage = "link", ![p].episode = id,
                                         ![p].todo = @ \ {g}]
      BY <1>2, <1>7 DEF InsertEpisode
    <2> QED
      BY <2>1, <2>3, <2>5, <2>6, <2>7, <2>8
  <1>10. /\ episodes \in SUBSET Episode /\ IsFiniteSet(episodes)
         /\ \A x \in episodes : x.id \in Nat /\ x.id <= Cardinality(episodes)
         /\ \A x, y \in episodes : x.id = y.id => x = y
    BY DEF EpisodesInv, EpisodesTypes, EpisodesNumbered, Episode
  <1>11. e.id = id /\ e.turns = g /\ e.pass = num
    OBVIOUS
  <1>12. /\ IsFiniteSet(episodes \cup {e}) /\ id \in Nat \ {0}
         /\ Cardinality(episodes \cup {e}) = id
         /\ \A x \in episodes : x.id # id /\ x.id <= id
    <2> HIDE DEF e
    <2>1. e.id = Cardinality(episodes) + 1
      BY <1>11
    <2>2. /\ IsFiniteSet(episodes \cup {e})
          /\ Cardinality(episodes \cup {e}) = Cardinality(episodes) + 1
          /\ e.id \in Nat \ {0}
          /\ \A y \in episodes : y.id # e.id /\ y.id <= Cardinality(episodes) + 1
      BY <1>10, <2>1, NextNumber
    <2> QED
      BY <1>11, <2>1, <2>2
  <1>13. e \in Episode
    BY <1>1, <1>7, <1>12 DEF Episode
  <1>14. /\ a.stage = "link" /\ a.pass = num /\ a.todo = rest /\ a.episode = id
         /\ a.known = known
    OBVIOUS
  <1>15. a \in Work
    <2>1. rest \in SUBSET (SUBSET Turn) /\ id \in Nat
      BY <1>1, <1>12
    <2> HIDE DEF rest, id
    <2> QED
      BY <1>1, <2>1 DEF Work
  <1>16. a # NotSegmenting
    BY DEF NotSegmenting
  <1>17. rest \subseteq todo /\ g \notin rest /\ \A h \in todo : h \in rest \/ h = g
    OBVIOUS
  <1> HIDE DEF a, e, rest, id
  <1>18. /\ segmenter'[p] = a /\ \A q \in Segmenters : q # p => segmenter'[q] = segmenter[q]
         /\ segmenter' \in [Segmenters -> Work]
    BY <1>9, <1>15, OneSegmenter DEF EpisodesInv, EpisodesTypes
  <1>19. TurnsNumbered' /\ FactsNumbered'
    BY <1>8 DEF EpisodesInv, EpisodesTypes, TurnsNumbered, FactsNumbered
  <1>20. EpisodesNumbered'
    <2>1. episodes' \in SUBSET Episode /\ IsFiniteSet(episodes')
      BY <1>8, <1>10, <1>12, <1>13
    <2>2. Cardinality(episodes') = id
      BY <1>8, <1>12
    <2>3. \A x \in episodes' : x.id <= id
      BY <1>8, <1>11, <1>12
    <2>4. \A x \in episodes' : x.turns \subseteq said'
      BY <1>3, <1>7, <1>8, <1>11 DEF EpisodesInv, EpisodesTypes, EpisodesNumbered
    <2>5. \A x, y \in episodes' : x.id = y.id => x = y
      BY <1>8, <1>10, <1>11, <1>12
    <2>6. links' \subseteq IdsIn(extracted') \X IdsIn(episodes')
      BY <1>8 DEF EpisodesInv, EpisodesTypes, EpisodesNumbered, IdsIn
    <2> QED
      BY <2>1, <2>2, <2>3, <2>4, <2>5, <2>6 DEF EpisodesNumbered
  <1>21. SegmentersSound'
    <2>1. \E x \in episodes' : x.id = id
      BY <1>8, <1>11
    <2>2. \A h \in rest : h # {} /\ h \subseteq said
      BY <1>3, <1>17
    <2>3. ASSUME NEW q \in Segmenters, q # p, segmenter'[q] # NotSegmenting
          PROVE  LET w == segmenter'[q] IN
                 /\ w.pass <= segmentings /\ w.stage # "idle"
                 /\ \A h \in w.todo : h # {} /\ h \subseteq said
                 /\ w.stage = "insert" => w.episode = 0
                 /\ w.stage = "link" => \E x \in episodes' : x.id = w.episode
      BY <1>8, <1>18, <2>3 DEF EpisodesInv, EpisodesTypes, SegmentersSound
    <2>4. segmentings \in Nat
      BY DEF EpisodesInv, EpisodesTypes, SegmentersSound
    <2> QED
      BY <1>3, <1>8, <1>14, <1>18, <2>1, <2>2, <2>3, <2>4 DEF SegmentersSound
  <1>22. \A q \in Segmenters : q # p /\ segmenter[q] # NotSegmenting =>
           segmenter[q].pass \in beside /\ num \in beside
    BY <1>2 DEF EpisodesInv, SideBySide
  <1>23. SideBySide'
    BY <1>2, <1>8, <1>14, <1>18 DEF EpisodesInv, SideBySide
  <1>24. /\ Coherent(g) /\ \A h \in todo : h # g => g \cap h = {}
         /\ \A x \in episodes : g \cap x.turns # {} => {num, x.pass} \subseteq beside
    BY <1>2 DEF EpisodesInv, GroupsApart
  <1>25. GroupsApart'
    <2>1. ASSUME NEW q \in Segmenters, NEW h \in segmenter'[q].todo
          PROVE  /\ Coherent(h)
                 /\ \A k \in segmenter'[q].todo : k # h => h \cap k = {}
                 /\ \A x \in episodes' : h \cap x.turns # {} =>
                      {segmenter'[q].pass, x.pass} \subseteq beside
      <3>1. segmenter'[q].todo \subseteq segmenter[q].todo
            /\ segmenter'[q].pass = segmenter[q].pass
        BY <1>2, <1>14, <1>17, <1>18
      <3>2. /\ Coherent(h) /\ \A k \in segmenter[q].todo : k # h => h \cap k = {}
            /\ \A x \in episodes : h \cap x.turns # {} =>
                 {segmenter[q].pass, x.pass} \subseteq beside
        BY <2>1, <3>1 DEF EpisodesInv, GroupsApart
      <3>3. ASSUME h \cap e.turns # {} PROVE {segmenter'[q].pass, e.pass} \subseteq beside
        <4>1. CASE q = p
          BY <1>2, <1>11, <1>14, <1>17, <1>18, <1>24, <2>1, <3>3, <4>1
        <4>2. CASE q # p
          <5>1. segmenter[q] # NotSegmenting
            BY <2>1, <3>1 DEF NotSegmenting
          <5> QED
            BY <1>11, <1>18, <1>22, <4>2, <5>1
        <4> QED
          BY <4>1, <4>2
      <3> QED
        BY <1>8, <3>1, <3>2, <3>3
    <2> QED
      BY <1>8, <2>1 DEF GroupsApart
  <1>26. KnownInHand'
    BY <1>2, <1>8, <1>11, <1>14, <1>17, <1>18 DEF EpisodesInv, KnownInHand
  <1>27. TurnsEpisodesOnce'
    <2>1. ASSUME NEW x \in episodes', NEW y \in episodes', x.id # y.id,
                 x.turns \cap y.turns # {}
          PROVE  {x.pass, y.pass} \subseteq beside
      <3>1. CASE x \in episodes /\ y \in episodes
        BY <2>1, <3>1 DEF EpisodesInv, EpisodesSound, TurnsEpisodesOnce
      <3>2. CASE x = e /\ y \in episodes
        BY <1>11, <1>24, <2>1, <3>2
      <3>3. CASE y = e /\ x \in episodes
        BY <1>11, <1>24, <2>1, <3>3
      <3>4. CASE x = e /\ y = e
        BY <2>1, <3>4
      <3> QED
        BY <1>8, <3>1, <3>2, <3>3, <3>4
    <2>2. \A x \in episodes' : Coherent(x.turns)
      BY <1>8, <1>11, <1>24 DEF EpisodesInv, EpisodesSound, TurnsEpisodesOnce, Coherent
    <2> QED
      BY <1>8, <2>1, <2>2 DEF TurnsEpisodesOnce, Coherent
  <1>28. NoTurnLeftBehind'
    BY <1>8 DEF EpisodesInv, EpisodesSound, NoTurnLeftBehind
  <1>29. FactsLinked'
    <2>1. ASSUME NEW x \in episodes, ~Linking(x.id)' PROVE ~Linking(x.id)
      <3>1. x.id # 0
        BY DEF EpisodesInv, EpisodesTypes, EpisodesNumbered, Episode
      <3> QED
        BY <1>2, <1>3, <1>18, <2>1, <3>1 DEF Linking
    <2>2. \A f \in extracted : <<f.id, e.id>> \notin links
      BY <1>11, <1>12 DEF EpisodesInv, EpisodesTypes, EpisodesNumbered, IdsIn
    <2> SUFFICES ASSUME NEW f \in extracted, NEW x \in episodes'
                 PROVE  /\ <<f.id, x.id>> \in links => f.from \cap IdsIn(x.turns) # {}
                        /\ /\ f.from \cap IdsIn(x.turns) # {} /\ ~Linking(x.id)'
                           /\ <<f.id, x.id>> \notin late /\ x.id \notin unlinked
                           => <<f.id, x.id>> \in links
      BY <1>8 DEF FactsLinked
    <2>3. CASE x \in episodes
      BY <2>1, <2>3 DEF EpisodesInv, EpisodesSound, FactsLinked
    <2>4. CASE x = e
      <3>1. Linking(x.id)'
        BY <1>11, <1>14, <1>18, <2>4 DEF Linking
      <3> QED
        BY <2>2, <2>4, <3>1
    <2> QED
      BY <1>8, <2>3, <2>4
  <1> QED
    BY <1>19, <1>20, <1>21, <1>23, <1>25, <1>26, <1>27, <1>28, <1>29
    DEF EpisodesInv, EpisodesTypes, EpisodesSound

LEMMA EpisodesInitInv == EpisodesInit => EpisodesInv
  <1> SUFFICES ASSUME EpisodesInit PROVE EpisodesInv
    OBVIOUS
  <1>1. NotSegmenting \in Work /\ NotSegmenting.todo = {} /\ NotSegmenting.known = {}
    BY DEF NotSegmenting, Work
  <1>2. EpisodesTypes
    BY <1>1, FS_EmptySet DEF EpisodesInit, EpisodesTypes, TurnsNumbered, FactsNumbered,
                             EpisodesNumbered, SegmentersSound
  <1>3. SideBySide /\ GroupsApart /\ KnownInHand
    BY <1>1 DEF EpisodesInit, SideBySide, GroupsApart, KnownInHand
  <1>4. EpisodesSound
    BY DEF EpisodesInit, EpisodesSound, TurnsEpisodesOnce, NoTurnLeftBehind, FactsLinked
  <1> QED
    BY <1>2, <1>3, <1>4 DEF EpisodesInv

LEMMA EpisodesNextInv ==
  ASSUME EpisodeBounds, EpisodesInv, [EpisodesNext]_episodeVars PROVE EpisodesInv'
  <1>1. CASE \E s \in Speaking, m \in Moments : TurnSaid(s, m)
    <2>1. Speaking \subseteq Sessions
      BY DEF Speaking, Opened, EpisodesInv, EpisodesTypes, TurnsNumbered, Turn
    <2> QED
      BY <1>1, <2>1, TurnSaidStep
  <1>2. CASE \E from \in SUBSET IdsIn(said) : FactExtracted(from)
    BY <1>2, FactExtractedStep
  <1>3. ASSUME NEW p \in Segmenters,
               \/ BeginSegmenting(p) \/ InsertEpisode(p) \/ LinkEpisode(p)
               \/ EndSegmenting(p) \/ SegmentingFails(p)
        PROVE  EpisodesInv'
    BY <1>3, BeginSegmentingStep, InsertEpisodeStep, LinkEpisodeStep, EndSegmentingStep,
       SegmentingFailsStep
  <1>4. CASE UNCHANGED episodeVars
    BY <1>4 DEF episodeVars, EpisodesInv, EpisodesTypes, TurnsNumbered, FactsNumbered,
                EpisodesNumbered, SegmentersSound, SideBySide, GroupsApart, KnownInHand,
                EpisodesSound, TurnsEpisodesOnce, NoTurnLeftBehind, FactsLinked, Linking
  <1> QED
    BY <1>1, <1>2, <1>3, <1>4 DEF EpisodesNext

(* A turn is in one episode unless passes ran side by side; when a pass    *)
(* has ended well no turn it was shown is left without an episode; and a   *)
(* fact is linked to the episode of a turn it came from.                   *)
THEOREM TurnsEndInEpisodes == EpisodesSpec => []EpisodesSound
  <1>1. EpisodesInv => EpisodesSound
    BY DEF EpisodesInv
  <1> QED
    BY <1>1, EpisodesInitInv, EpisodesNextInv, EpisodeBounds, PTL DEF EpisodesSpec

-----------------------------------------------------------------------------
(* What the memory group's run checks of the sleep pass and of episodes    *)
(* together: a step of the group is a step of each part or leaves it be.   *)
THEOREM DerivedIsSound == MemorySpec => []DerivedSound
  <1>1. MemoryInit => SleepInit /\ EpisodesInit
    BY DEF MemoryInit
  <1>2. ASSUME [MemoryNext]_<<part, reconcileVars, corpusVars, sleepVars, episodeVars,
                              vaultVars, migrationVars, rerankVars, configVars, docVars,
                              provisionVars>>
        PROVE  [SleepNext]_sleepVars /\ [EpisodesNext]_episodeVars
    BY <1>2 DEF MemoryNext
  <1>3. MemorySpec => SleepSpec /\ EpisodesSpec
    BY <1>1, <1>2, PTL DEF MemorySpec, SleepSpec, EpisodesSpec
  <1>4. SleepPassSound /\ EpisodesSound => DerivedSound
    BY DEF DerivedSound
  <1> QED
    BY <1>3, <1>4, SleepPassIsSound, TurnsEndInEpisodes, PTL

-----------------------------------------------------------------------------
(* What the memory group's run checks of the vault, a migration, the       *)
(* config file and setup together: a change of key loses no secret, a      *)
(* change of mode no vector, a change of settings no setting, a run of     *)
(* setup no memory.                                                        *)
THEOREM ChangesKeepWhatIsStored == MemorySpec => []KeptThroughChange
  <1>1. MemoryInit => VaultInit /\ MigrationInit /\ ConfigInit /\ ProvisionInit
    BY DEF MemoryInit
  <1>2. ASSUME [MemoryNext]_<<part, reconcileVars, corpusVars, sleepVars, episodeVars,
                              vaultVars, migrationVars, rerankVars, configVars, docVars,
                              provisionVars>>
        PROVE  /\ [VaultNext]_vaultVars /\ [MigrationNext]_migrationVars
               /\ [ConfigNext]_configVars /\ [ProvisionNext]_provisionVars
    BY <1>2 DEF MemoryNext
  <1>3. MemorySpec => VaultSpec /\ MigrationSpec /\ ConfigSpec /\ ProvisionSpec
    BY <1>1, <1>2, PTL DEF MemorySpec, VaultSpec, MigrationSpec, ConfigSpec, ProvisionSpec
  <1>4. /\ SecretsSurviveRotation /\ EveryRowEmbedded
        /\ ConfigKept /\ UpdatesOnlyAsAsked
        /\ StateMeansReady /\ ConfigFitsDatabase /\ MemoriesKept
        => KeptThroughChange
    BY DEF KeptThroughChange
  <1> QED
    BY <1>3, <1>4, SecretsAreKept, MigrationLosesNoVector, SettingsAreKept,
       SetupLeavesOrder, PTL

-----------------------------------------------------------------------------
(* Corpus.  The first n of a finite set under a strict total order are n.  *)
Orders(before, R) ==
  /\ \A r \in R : <<r, r>> \notin before
  /\ \A r, s \in R : r # s => <<r, s>> \in before \/ <<s, r>> \in before
  /\ \A r, s, t \in R : <<r, s>> \in before /\ <<s, t>> \in before => <<r, t>> \in before
LowerThan(before, R, r) == {s \in R : <<s, r>> \in before}
FirstOf(before, R, n) == {r \in R : Cardinality(LowerThan(before, R, r)) < n}

LEMMA PositionsDiffer ==
  ASSUME NEW R, IsFiniteSet(R), NEW before, Orders(before, R)
  PROVE  [r \in R |-> Cardinality(LowerThan(before, R, r))]
           \in Bijection(R, 0..Cardinality(R) - 1)
  <1> DEFINE pos == [r \in R |-> Cardinality(LowerThan(before, R, r))]
             N == Cardinality(R)
  <1>1. N \in Nat
    BY FS_CardinalityType
  <1>2. \A r \in R : LowerThan(before, R, r) \subseteq R /\ r \notin LowerThan(before, R, r)
                     /\ IsFiniteSet(LowerThan(before, R, r)) /\ pos[r] \in Nat /\ pos[r] < N
    <2>1. ASSUME NEW r \in R
          PROVE  LowerThan(before, R, r) \subseteq R /\ r \notin LowerThan(before, R, r)
                 /\ IsFiniteSet(LowerThan(before, R, r)) /\ pos[r] \in Nat /\ pos[r] < N
      <3>1. LowerThan(before, R, r) \subseteq R /\ r \notin LowerThan(before, R, r)
        BY DEF LowerThan, Orders
      <3>2. /\ IsFiniteSet(LowerThan(before, R, r))
            /\ Cardinality(LowerThan(before, R, r)) <= N
            /\ Cardinality(LowerThan(before, R, r)) # N
        BY <3>1, FS_Subset
      <3>3. Cardinality(LowerThan(before, R, r)) \in Nat
        BY <3>2, FS_CardinalityType
      <3> QED
        BY <1>1, <3>1, <3>2, <3>3
    <2> QED
      BY <2>1
  <1>3. \A r, s \in R : <<r, s>> \in before => pos[r] < pos[s]
    <2>1. ASSUME NEW r \in R, NEW s \in R, <<r, s>> \in before PROVE pos[r] < pos[s]
      <3>1. LowerThan(before, R, r) \subseteq LowerThan(before, R, s)
        BY <2>1 DEF LowerThan, Orders
      <3>2. r \in LowerThan(before, R, s) /\ r \notin LowerThan(before, R, r)
        BY <1>2, <2>1 DEF LowerThan
      <3>3. /\ Cardinality(LowerThan(before, R, r)) <= Cardinality(LowerThan(before, R, s))
            /\ Cardinality(LowerThan(before, R, r)) # Cardinality(LowerThan(before, R, s))
        BY <1>2, <3>1, <3>2, FS_Subset
      <3> QED
        BY <1>2, <3>3
    <2> QED
      BY <2>1
  <1>4. pos \in [R -> 0..N - 1]
    BY <1>1, <1>2
  <1>5. \A r, s \in R : pos[r] = pos[s] => r = s
    <2>1. \A r, s \in R : <<r, s>> \in before => pos[r] # pos[s]
      BY <1>2, <1>3
    <2>2. \A r, s \in R : r # s => <<r, s>> \in before \/ <<s, r>> \in before
      BY DEF Orders
    <2> HIDE DEF pos
    <2>3. ASSUME NEW r \in R, NEW s \in R, pos[r] = pos[s], r # s PROVE FALSE
      BY <2>1, <2>2, <2>3
    <2> QED
      BY <2>3
  <1>6. IsFiniteSet(0..N - 1) /\ Cardinality(0..N - 1) = N
    <2>1. 0 \in Int /\ N - 1 \in Int
      BY <1>1
    <2>2. IsFiniteSet(0..N - 1) /\ Cardinality(0..N - 1) = IF 0 > N - 1 THEN 0 ELSE N - 1 - 0 + 1
      BY <2>1, FS_Interval
    <2> QED
      BY <1>1, <2>2
  <1> HIDE DEF pos
  <1>7. pos \in Injection(R, 0..N - 1)
    BY <1>4, <1>5 DEF Injection, IsInjective
  <1>8. pos \in Surjection(R, 0..N - 1)
    BY <1>6, <1>7, FS_Injection
  <1> QED
    BY <1>7, <1>8 DEF Bijection, pos

LEMMA FirstOfCount ==
  ASSUME NEW R, IsFiniteSet(R), NEW before, Orders(before, R),
         NEW n \in Nat, n <= Cardinality(R)
  PROVE  Cardinality(FirstOf(before, R, n)) = n
  <1> DEFINE pos == [r \in R |-> Cardinality(LowerThan(before, R, r))]
             first == FirstOf(before, R, n)
             g == [r \in first |-> pos[r]]
  <1>1. pos \in Bijection(R, 0..Cardinality(R) - 1) /\ Cardinality(R) \in Nat
    BY PositionsDiffer, FS_CardinalityType
  <1>2. /\ pos \in [R -> 0..Cardinality(R) - 1]
        /\ \A r, s \in R : pos[r] = pos[s] => r = s
        /\ \A k \in 0..Cardinality(R) - 1 : \E r \in R : pos[r] = k
    <2> HIDE DEF pos
    <2> QED
      BY <1>1 DEF Bijection, Injection, Surjection, IsInjective
  <1>3. first = {r \in R : pos[r] < n} /\ first \subseteq R
    BY DEF FirstOf
  <1> HIDE DEF pos, first
  <1>4. g \in [first -> 0..n - 1] /\ \A r \in first : g[r] = pos[r]
    BY <1>1, <1>2, <1>3
  <1>5. \A k \in 0..n - 1 : \E r \in first : g[r] = k
    BY <1>1, <1>2, <1>3, <1>4
  <1>6. g \in Injection(first, 0..n - 1) /\ g \in Surjection(first, 0..n - 1)
    <2>1. \A r, s \in first : g[r] = g[s] => r = s
      BY <1>2, <1>3, <1>4
    <2> HIDE DEF g
    <2> QED
      BY <1>4, <1>5, <2>1 DEF Injection, Surjection, IsInjective
  <1>7. IsFiniteSet(0..n - 1) /\ Cardinality(0..n - 1) = n
    <2>1. 0 \in Int /\ n - 1 \in Int
      OBVIOUS
    <2>2. IsFiniteSet(0..n - 1) /\ Cardinality(0..n - 1) = IF 0 > n - 1 THEN 0 ELSE n - 1 - 0 + 1
      BY <2>1, FS_Interval
    <2> QED
      BY <2>2
  <1> QED
    BY <1>6, <1>7, FS_Injection DEF first

(* The rows: distinct ids, documents and rules that are known.             *)
RowsApart(R) ==
  /\ IsFiniteSet(R)
  /\ \A r \in R : r.id \in Nat /\ r.doc \in Docs /\ r.rule \in Rules
  /\ \A r, s \in R : r.id = s.id => r = s

BetterIn(R) == {w \in R \X R : Better(w[1], w[2])}
NearerIn(R) == {w \in R \X R : Nearer(w[1], w[2])}

LEMMA DepthFacts ==
  ASSUME CorpusBounds
  PROVE  /\ \A d \in Docs : Depth(NsOf[d]) \in DOMAIN Lineage /\ Lineage[Depth(NsOf[d])] = NsOf[d]
         /\ \A d, e \in Docs : Depth(NsOf[d]) = Depth(NsOf[e]) => NsOf[d] = NsOf[e]
         /\ \A d \in Docs : Depth(NsOf[d]) \in Nat
  <1>1. ASSUME NEW d \in Docs
        PROVE  Depth(NsOf[d]) \in DOMAIN Lineage /\ Lineage[Depth(NsOf[d])] = NsOf[d]
    <2>1. \E i \in DOMAIN Lineage : Lineage[i] = NsOf[d]
      BY DEF CorpusBounds
    <2> QED
      BY <2>1 DEF Depth
  <1>2. DOMAIN Lineage \subseteq Nat
    BY DEF CorpusBounds
  <1> QED
    BY <1>1, <1>2

LEMMA BetterOrders ==
  ASSUME CorpusBounds, NEW R, RowsApart(R), NEW S \in SUBSET R
  PROVE  Orders(BetterIn(R), S) /\ IsFiniteSet(S)
         /\ \A r, s \in R : <<r, s>> \in BetterIn(R) <=> Better(r, s)
  <1>1. \A r \in R : Score[r.rule] \in Nat /\ r.id \in Nat
    BY DEF RowsApart, CorpusBounds
  <1>2. \A r, s \in R : <<r, s>> \in BetterIn(R) <=> Better(r, s)
    BY DEF BetterIn
  <1>4. \A r \in R : ~Better(r, r)
    BY <1>1 DEF Better
  <1>5. \A r, s \in R : r # s => Better(r, s) \/ Better(s, r)
    BY <1>1 DEF Better, RowsApart
  <1>6. \A r, s, t \in R : Better(r, s) /\ Better(s, t) => Better(r, t)
    BY <1>1 DEF Better
  <1>7. Orders(BetterIn(R), S)
    <2>1. S \subseteq R
      OBVIOUS
    <2> QED
      BY <1>2, <1>4, <1>5, <1>6, <2>1 DEF Orders
  <1> QED
    BY <1>2, <1>7, FS_Subset DEF RowsApart

LEMMA NearerOrders ==
  ASSUME CorpusBounds, NEW R, RowsApart(R), NEW S \in SUBSET R
  PROVE  Orders(NearerIn(R), S)
         /\ \A r, s \in R : <<r, s>> \in NearerIn(R) <=> Nearer(r, s)
  <1>1. \A r \in R : Score[r.rule] \in Nat /\ r.id \in Nat /\ Depth(NsOf[r.doc]) \in Nat
    BY DepthFacts DEF RowsApart, CorpusBounds
  <1>2. \A r, s \in R : <<r, s>> \in NearerIn(R) <=> Nearer(r, s)
    BY DEF NearerIn
  <1>4. \A r \in R : ~Nearer(r, r)
    BY <1>1 DEF Better, Nearer
  <1>5. \A r, s \in R : r # s => Nearer(r, s) \/ Nearer(s, r)
    <2>1. \A r, s \in R : NsOf[r.doc] = NsOf[s.doc] \/ Depth(NsOf[r.doc]) # Depth(NsOf[s.doc])
      BY DepthFacts DEF RowsApart
    <2>2. \A r, s \in R : r # s => Better(r, s) \/ Better(s, r)
      BY <1>1 DEF Better, RowsApart
    <2> QED
      BY <1>1, <2>1, <2>2 DEF Nearer
  <1>6. \A r, s, t \in R : Nearer(r, s) /\ Nearer(s, t) => Nearer(r, t)
    <2>1. \A r, s, t \in R : Better(r, s) /\ Better(s, t) => Better(r, t)
      BY <1>1 DEF Better
    <2>2. \A r, s \in R : NsOf[r.doc] = NsOf[s.doc] => Depth(NsOf[r.doc]) = Depth(NsOf[s.doc])
      OBVIOUS
    <2> QED
      BY <1>1, <2>1, <2>2 DEF Nearer
  <1>7. Orders(NearerIn(R), S)
    <2>1. S \subseteq R
      OBVIOUS
    <2> QED
      BY <1>2, <1>4, <1>5, <1>6, <2>1 DEF Orders
  <1> QED
    BY <1>2, <1>7

Fewer(m, n) == IF m <= n THEN m ELSE n

LEMMA BestCount ==
  ASSUME CorpusBounds, NEW R, RowsApart(R), NEW S \in SUBSET R, NEW n \in Nat
  PROVE  /\ Best(S, n) \subseteq S /\ IsFiniteSet(Best(S, n)) /\ Cardinality(S) \in Nat
         /\ Cardinality(Best(S, n)) = Fewer(Cardinality(S), n)
  <1>1. Best(S, n) \subseteq S
    BY DEF Best
  <1>2. Orders(BetterIn(R), S) /\ IsFiniteSet(S)
        /\ \A r, s \in R : <<r, s>> \in BetterIn(R) <=> Better(r, s)
    BY BetterOrders
  <1>3. IsFiniteSet(Best(S, n)) /\ Cardinality(S) \in Nat
    BY <1>1, <1>2, FS_Subset, FS_CardinalityType
  <1>4. CASE Cardinality(S) <= n
    BY <1>1, <1>3, <1>4 DEF Best, Fewer
  <1>5. CASE ~(Cardinality(S) <= n)
    <2>4. \A r \in S : LowerThan(BetterIn(R), S, r) = {s \in S : Better(s, r)}
      BY <1>2 DEF LowerThan
    <2>1. Best(S, n) = FirstOf(BetterIn(R), S, n)
      BY <1>5, <2>4 DEF Best, FirstOf
    <2>2. n <= Cardinality(S)
      BY <1>3, <1>5
    <2>3. Cardinality(FirstOf(BetterIn(R), S, n)) = n
      BY <1>2, <2>2, FirstOfCount
    <2> QED
      BY <1>1, <1>3, <1>5, <2>1, <2>3 DEF Fewer
  <1> QED
    BY <1>4, <1>5

LEMMA NearestCount ==
  ASSUME CorpusBounds, NEW R, RowsApart(R), NEW S \in SUBSET R, NEW n \in Nat
  PROVE  /\ Nearest(S, n) \subseteq S /\ IsFiniteSet(Nearest(S, n)) /\ Cardinality(S) \in Nat
         /\ Cardinality(Nearest(S, n)) = Fewer(Cardinality(S), n)
  <1>1. Nearest(S, n) \subseteq S
    BY DEF Nearest
  <1>2. Orders(NearerIn(R), S)
        /\ \A r, s \in R : <<r, s>> \in NearerIn(R) <=> Nearer(r, s)
    BY NearerOrders
  <1>3. IsFiniteSet(Nearest(S, n)) /\ Cardinality(S) \in Nat
    BY <1>1, FS_Subset, FS_CardinalityType DEF RowsApart
  <1>4. CASE Cardinality(S) <= n
    BY <1>1, <1>3, <1>4 DEF Nearest, Fewer
  <1>5. CASE ~(Cardinality(S) <= n)
    <2>4. \A r \in S : LowerThan(NearerIn(R), S, r) = {s \in S : Nearer(s, r)}
      BY <1>2 DEF LowerThan
    <2>1. Nearest(S, n) = FirstOf(NearerIn(R), S, n)
      BY <1>5, <2>4 DEF Nearest, FirstOf
    <2>2. n <= Cardinality(S)
      BY <1>3, <1>5
    <2>3. Cardinality(FirstOf(NearerIn(R), S, n)) = n
      BY <1>2, BetterOrders, <2>2, FirstOfCount
    <2> QED
      BY <1>1, <1>3, <1>5, <2>1, <2>3 DEF Fewer
  <1> QED
    BY <1>4, <1>5

(* A row among the n best has a place below n, and no other has its place. *)
LEMMA BestPlace ==
  ASSUME CorpusBounds, NEW R, RowsApart(R), NEW S \in SUBSET R, NEW n \in Nat
  PROVE  /\ \A r \in Best(S, n) : Cardinality(LowerThan(BetterIn(R), S, r)) \in 0..n - 1
         /\ \A r, s \in S : Cardinality(LowerThan(BetterIn(R), S, r))
                             = Cardinality(LowerThan(BetterIn(R), S, s)) => r = s
  <1> DEFINE pos == [r \in S |-> Cardinality(LowerThan(BetterIn(R), S, r))]
  <1>1. Orders(BetterIn(R), S) /\ IsFiniteSet(S)
        /\ \A r, s \in R : <<r, s>> \in BetterIn(R) <=> Better(r, s)
    BY BetterOrders
  <1>2. pos \in Bijection(S, 0..Cardinality(S) - 1) /\ Cardinality(S) \in Nat
    BY <1>1, PositionsDiffer, FS_CardinalityType
  <1>3. pos \in [S -> 0..Cardinality(S) - 1] /\ \A r, s \in S : pos[r] = pos[s] => r = s
    <2> HIDE DEF pos
    <2> QED
      BY <1>2 DEF Bijection, Injection, IsInjective
  <1>4. ASSUME NEW r \in Best(S, n) PROVE r \in S /\ pos[r] \in 0..n - 1
    <2>1. r \in S
      BY <1>4 DEF Best
    <2>2. pos[r] \in 0..Cardinality(S) - 1
      BY <1>3, <2>1
    <2>3. CASE Cardinality(S) <= n
      BY <1>2, <2>1, <2>2, <2>3
    <2>4. CASE ~(Cardinality(S) <= n)
      <3>1. LowerThan(BetterIn(R), S, r) = {s \in S : Better(s, r)}
        BY <1>1, <2>1 DEF LowerThan
      <3>2. Cardinality({s \in S : Better(s, r)}) < n
        BY <1>4, <2>4 DEF Best
      <3>3. pos[r] < n
        BY <2>1, <3>1, <3>2
      <3> QED
        BY <2>1, <2>2, <3>3
    <2> QED
      BY <2>3, <2>4
  <1> QED
    BY <1>3, <1>4

LEMMA PlacesApart ==
  ASSUME CorpusBounds, NEW R, RowsApart(R), NEW S \in SUBSET R, NEW r \in S, NEW s \in S,
         Cardinality(LowerThan(BetterIn(R), S, r)) = Cardinality(LowerThan(BetterIn(R), S, s))
  PROVE  r = s
  <1>1. 0 \in Nat
    OBVIOUS
  <1> QED
    BY <1>1, BestPlace

(* What a fair share lets through: something of every level, and no more   *)
(* than a share of each.                                                   *)
Fair(R, share) == UNION {Best(At(R, ns), share) : ns \in LevelsOf(R)}

LEMMA FairShares ==
  ASSUME CorpusBounds, NEW R, RowsApart(R), NEW share \in Nat \ {0}
  PROVE  /\ Fair(R, share) \subseteq R /\ LevelsOf(Fair(R, share)) = LevelsOf(R)
         /\ IsFiniteSet(LevelsOf(R)) /\ Cardinality(LevelsOf(R)) \in Nat
         /\ Cardinality(Fair(R, share)) \in Nat
         /\ Cardinality(Fair(R, share)) <= Cardinality(LevelsOf(R)) * share
  <1> DEFINE fair == Fair(R, share)
             levels == LevelsOf(R)
             pos(r) == Cardinality(LowerThan(BetterIn(R), At(R, NsOf[r.doc]), r))
             h == [r \in fair |-> <<NsOf[r.doc], pos(r)>>]
  <1>1. \A ns : At(R, ns) \in SUBSET R /\ \A r \in At(R, ns) : NsOf[r.doc] = ns
    BY DEF At
  <1>2. \A r : r \in fair <=> \E ns \in levels : r \in Best(At(R, ns), share)
    BY DEF Fair
  <1>3. \A ns : Best(At(R, ns), share) \subseteq At(R, ns)
    BY DEF Best
  <1>4. \A r \in fair : r \in R /\ NsOf[r.doc] \in levels
                        /\ r \in Best(At(R, NsOf[r.doc]), share)
                        /\ r \in At(R, NsOf[r.doc])
    <2> HIDE DEF fair, levels
    <2>1. ASSUME NEW r \in fair PROVE r \in R /\ NsOf[r.doc] \in levels
                        /\ r \in Best(At(R, NsOf[r.doc]), share)
                        /\ r \in At(R, NsOf[r.doc])
      <3>1. PICK ns \in levels : r \in Best(At(R, ns), share)
        BY <1>2
      <3>2. NsOf[r.doc] = ns /\ r \in At(R, ns) /\ r \in R
        BY <1>1, <1>3, <3>1
      <3> QED
        BY <3>1, <3>2
    <2> QED
      BY <2>1
  <1>5. IsFiniteSet(levels) /\ Cardinality(levels) \in Nat
    <2> DEFINE f == [r \in R |-> NsOf[r.doc]]
    <2>1. f \in Surjection(R, levels)
      BY DEF Surjection, LevelsOf
    <2> HIDE DEF f, levels
    <2> QED
      BY <2>1, FS_Surjection, FS_CardinalityType DEF RowsApart
  <1>6. LevelsOf(fair) = levels
    <2>1. ASSUME NEW ns \in levels PROVE \E r \in fair : NsOf[r.doc] = ns
      <3>1. At(R, ns) # {} /\ At(R, ns) \in SUBSET R
        BY <2>1 DEF At, LevelsOf
      <3>2. IsFiniteSet(At(R, ns)) /\ Cardinality(At(R, ns)) \in Nat
        BY <3>1, FS_Subset, FS_CardinalityType DEF RowsApart
      <3>3. Cardinality(At(R, ns)) # 0
        BY <3>1, <3>2, FS_EmptySet
      <3>4. share \in Nat /\ share # 0
        OBVIOUS
      <3>5. Cardinality(Best(At(R, ns), share)) = Fewer(Cardinality(At(R, ns)), share)
        BY <3>1, <3>4, BestCount
      <3>6. Cardinality(Best(At(R, ns), share)) # 0
        BY <3>2, <3>3, <3>4, <3>5 DEF Fewer
      <3>7. Best(At(R, ns), share) # {}
        BY <3>6, FS_EmptySet
      <3>8. PICK r : r \in Best(At(R, ns), share)
        BY <3>7
      <3>9. r \in fair /\ r \in At(R, ns)
        BY <1>2, <1>3, <2>1, <3>8
      <3> QED
        BY <1>1, <3>9
    <2> HIDE DEF fair
    <2> QED
      BY <1>4, <2>1 DEF LevelsOf
  <1>7. \A r \in fair : pos(r) \in 0..share - 1
    <2>1. ASSUME NEW r \in fair PROVE pos(r) \in 0..share - 1
      <3>1. At(R, NsOf[r.doc]) \in SUBSET R /\ share \in Nat
        BY <1>1
      <3>2. r \in Best(At(R, NsOf[r.doc]), share)
        BY <1>4
      <3> QED
        BY <3>1, <3>2, BestPlace
    <2> QED
      BY <2>1
  <1>8. \A r, s \in fair : NsOf[r.doc] = NsOf[s.doc] /\ pos(r) = pos(s) => r = s
    <2>1. ASSUME NEW r \in fair, NEW s \in fair, NsOf[r.doc] = NsOf[s.doc], pos(r) = pos(s)
          PROVE  r = s
      <3> PICK S : S = At(R, NsOf[r.doc])
        OBVIOUS
      <3>1. S \in SUBSET R /\ share \in Nat
        BY <1>1
      <3>2. r \in S /\ s \in S
        BY <1>4, <2>1
      <3>3. Cardinality(LowerThan(BetterIn(R), S, r)) = Cardinality(LowerThan(BetterIn(R), S, s))
        BY <2>1
      <3> QED
        BY <3>1, <3>2, <3>3, PlacesApart
    <2> QED
      BY <2>1
  <1>9. h \in Injection(fair, levels \X (0..share - 1))
    <2> HIDE DEF fair, levels, pos
    <2>1. h \in [fair -> levels \X (0..share - 1)]
      BY <1>4, <1>7
    <2>2. \A r, s \in fair : h[r] = h[s] => r = s
      BY <1>8
    <2> HIDE DEF h
    <2> QED
      BY <2>1, <2>2 DEF Injection, IsInjective
  <1>10. IsFiniteSet(0..share - 1) /\ Cardinality(0..share - 1) = share
    <2>1. 0 \in Int /\ share - 1 \in Int
      OBVIOUS
    <2>2. IsFiniteSet(0..share - 1)
          /\ Cardinality(0..share - 1) = IF 0 > share - 1 THEN 0 ELSE share - 1 - 0 + 1
      BY <2>1, FS_Interval
    <2> QED
      BY <2>2
  <1>11. /\ IsFiniteSet(levels \X (0..share - 1))
         /\ Cardinality(levels \X (0..share - 1)) = Cardinality(levels) * share
    <2> HIDE DEF levels
    <2> QED
      BY <1>5, <1>10, FS_Product
  <1>12. IsFiniteSet(fair) /\ Cardinality(fair) <= Cardinality(levels) * share
    <2> HIDE DEF fair, levels, h
    <2> QED
      BY <1>9, <1>11, FS_Injection
  <1>13. Cardinality(fair) \in Nat
    BY <1>12, FS_CardinalityType
  <1> QED
    BY <1>4, <1>5, <1>6, <1>12, <1>13

(* _rank_by_specificity: every level is heard if there are places for all, *)
(* and no place is left empty.                                             *)
LEMMA RankHeard ==
  ASSUME CorpusBounds, NEW R, RowsApart(R), NEW k \in Nat \ {0}
  PROVE  /\ k >= Cardinality(LevelsOf(R)) => LevelsOf(Rank(R, k)) = LevelsOf(R)
         /\ Cardinality(Rank(R, k)) = Fewer(Cardinality(R), k)
  <1> DEFINE levels == LevelsOf(R)
             n == Cardinality(levels)
  <1>1. Cardinality(R) \in Nat /\ IsFiniteSet(R) /\ k \in Nat
    BY FS_CardinalityType DEF RowsApart
  <1>2. CASE R = {}
    <2>1. Rank(R, k) = {} /\ Cardinality({}) = 0
      BY <1>2, FS_EmptySet DEF Rank
    <2>2. LevelsOf(Rank(R, k)) = LevelsOf(R)
      BY <1>2, <2>1
    <2>3. Cardinality(Rank(R, k)) = 0 /\ Cardinality(R) = 0
      BY <1>2, <2>1
    <2> QED
      BY <1>1, <2>2, <2>3 DEF Fewer
  <1>3. CASE R # {}
    <2>1. n \in Nat /\ IsFiniteSet(levels)
      <3>1. 1 \in Nat \ {0}
        OBVIOUS
      <3> QED
        BY <3>1, FairShares
    <2>2. n # 0
      <3>1. levels # {}
        <4>1. PICK r \in R : TRUE
          BY <1>3
        <4>2. NsOf[r.doc] \in levels
          BY DEF LevelsOf
        <4> QED
          BY <4>2
      <3> QED
        BY <2>1, <3>1, FS_EmptySet
    <2>3. k \div n \in Nat /\ (k \div n) * n <= k
      <3> HIDE DEF n
      <3> QED
        BY <2>1, <2>2, QuotientBelow
    <2>4. PICK share \in Nat \ {0} : /\ share = (IF k \div n = 0 THEN 1 ELSE k \div n)
                                     /\ k >= n => n * share <= k
      <3> HIDE DEF n
      <3>1. CASE k \div n = 0
        BY <1>1, <2>1, <3>1
      <3>2. CASE k \div n # 0
        BY <1>1, <2>1, <2>3, <3>2
      <3> QED
        BY <3>1, <3>2
    <2> DEFINE fair == Fair(R, share)
               rest == R \ fair
               more == IF Cardinality(fair) >= k THEN {} ELSE Nearest(rest, k - Cardinality(fair))
               both == fair \cup more
    <2>5. Rank(R, k) = Nearest(both, k)
      <3>4. PICK q : q = IF k \div n = 0 THEN 1 ELSE k \div n
        OBVIOUS
      <3>1. PICK F : F = Fair(R, IF k \div n = 0 THEN 1 ELSE k \div n)
        OBVIOUS
      <3>2. Rank(R, k) = Nearest(F \cup IF Cardinality(F) >= k THEN {}
                                        ELSE Nearest(R \ F, k - Cardinality(F)), k)
        BY <1>3, <3>1, Zenon DEF Rank, Fair
      <3>5. q = share
        BY <2>4, <3>4
      <3>3. F = fair
        BY <3>1, <3>4, <3>5
      <3> QED
        BY <3>2, <3>3
    <2>6. /\ fair \subseteq R /\ LevelsOf(fair) = levels /\ Cardinality(fair) \in Nat
          /\ Cardinality(fair) <= n * share
      BY FairShares
    <2> HIDE DEF fair
    <2>7. IsFiniteSet(fair) /\ IsFiniteSet(rest) /\ Cardinality(rest) = Cardinality(R) - Cardinality(fair)
          /\ Cardinality(rest) \in Nat
      <3>1. R \cap fair = fair
        BY <2>6
      <3>2. IsFiniteSet(fair) /\ IsFiniteSet(rest)
        BY <1>1, <2>6, FS_Subset, FS_Difference
      <3> QED
        BY <1>1, <3>1, <3>2, FS_Difference, FS_CardinalityType
    <2>8. more \subseteq rest /\ IsFiniteSet(more)
          /\ Cardinality(more) = IF Cardinality(fair) >= k THEN 0
                                 ELSE Fewer(Cardinality(rest), k - Cardinality(fair))
      <3>1. CASE Cardinality(fair) >= k
        BY <3>1, FS_EmptySet
      <3>2. CASE ~(Cardinality(fair) >= k)
        <4>1. PICK m \in Nat : m = k - Cardinality(fair)
          BY <1>1, <2>6, <3>2
        <4>2. PICK S \in SUBSET R : S = rest
          OBVIOUS
        <4>5. Nearest(S, m) \subseteq S /\ IsFiniteSet(Nearest(S, m))
              /\ Cardinality(Nearest(S, m)) = Fewer(Cardinality(S), m)
          <5> HIDE DEF rest
          <5> QED
            BY NearestCount, Zenon
        <4>3. Nearest(rest, m) \subseteq rest /\ IsFiniteSet(Nearest(rest, m))
              /\ Cardinality(Nearest(rest, m)) = Fewer(Cardinality(rest), m)
          BY <4>2, <4>5
        <4>4. more = Nearest(rest, m)
          <5>1. more = Nearest(rest, k - Cardinality(fair))
            BY <3>2, Zenon
          <5> QED
            BY <4>1, <5>1, Zenon
        <4> QED
          BY <3>2, <4>1, <4>3, <4>4
      <3> QED
        BY <3>1, <3>2
    <2> HIDE DEF more
    <2>9. both \in SUBSET R /\ Cardinality(both) = Cardinality(fair) + Cardinality(more)
      <3>5. fair \cap more = {}
        BY <2>8
      <3>1. Cardinality(fair \cap more) = 0
        BY <3>5, FS_EmptySet
      <3>2. Cardinality(both) = Cardinality(fair) + Cardinality(more) - Cardinality(fair \cap more)
        BY <2>7, <2>8, FS_Union
      <3>3. Cardinality(more) \in Nat
        BY <2>8, FS_CardinalityType
      <3>4. Cardinality(both) = Cardinality(fair) + Cardinality(more)
        <4> HIDE DEF both
        <4> QED
          BY <2>6, <3>1, <3>2, <3>3
      <3> QED
        BY <2>6, <2>8, <3>4
    <2>10. Cardinality(Nearest(both, k)) = Fewer(Cardinality(both), k)
           /\ Nearest(both, k) \subseteq both
      BY ZenonT(30), <1>1, <2>9, NearestCount
    <2>11. Fewer(Cardinality(both), k) = Fewer(Cardinality(R), k)
      BY <1>1, <2>6, <2>7, <2>8, <2>9 DEF Fewer
    <2>12. ASSUME k >= n PROVE LevelsOf(Rank(R, k)) = levels
      <3>4. Cardinality(fair) <= k
        <4>1. PICK m : m = n * share
          OBVIOUS
        <4>2. m \in Nat
          BY <2>1, <4>1
        <4>3. m <= k
          <5> HIDE DEF n
          <5> QED
            BY <2>4, <2>12, <4>1
        <4>4. Cardinality(fair) <= m
          BY <2>6, <4>1
        <4> QED
          BY <1>1, <2>6, <4>2, <4>3, <4>4
      <3>1. Cardinality(both) <= k
        <4> HIDE DEF both, n
        <4> QED
          BY <1>1, <2>6, <2>7, <2>8, <2>9, <3>4 DEF Fewer
      <3>2. Rank(R, k) = both
        BY <2>5, <3>1 DEF Nearest
      <3>3. LevelsOf(fair) \subseteq LevelsOf(both) /\ LevelsOf(both) \subseteq LevelsOf(R)
        BY <2>9 DEF LevelsOf
      <3> QED
        <4> HIDE DEF both
        <4> QED
          BY <2>6, <3>2, <3>3
    <2> QED
      BY <2>5, <2>10, <2>11, <2>12
  <1> QED
    BY <1>2, <1>3

(* Corpus.  A row is made with a new id, of a known document and rule.     *)
CorpusRows ==
  /\ RowsApart(rows) /\ nextRow \in Nat \ {0}
  /\ \A r \in rows : r.id < nextRow

Edition == [text : SUBSET Rules, since : {w.since : w \in Windows} \cup {0},
            until : {w.until : w \in Windows} \cup {0}]
Spaces == {NsOf[d] : d \in Docs}
Handling == [doc : Docs \cup {NoDoc}, todo : SUBSET (Rules \cup Spaces),
             count : 0..Cardinality(Rules), stage : {"idle", "insert", "list", "alert"}]

CorpusTypes ==
  /\ edition \in [Docs -> Edition] /\ ingest \in [Ingesters -> Handling]
  /\ sources \in [Docs -> 0..Cardinality(Rules) \cup {Unrecorded}]
  /\ torn \subseteq Docs
  /\ \A p \in Ingesters : ingest[p].doc = NoDoc => ingest[p] = NotIngesting
  /\ \A p \in Ingesters : ingest[p].doc # NoDoc => ingest[p].stage # "idle"
  /\ \A p \in Ingesters : ingest[p].stage = "insert" => ingest[p].todo \subseteq Rules

(* What is on file names the rule of the row it was approved for.          *)
Logged == [id : Nat, rule : Rules, ns : Spaces, until : Versions \cup {0}]
Names(x) == x.id < nextRow /\ \A r \in rows : r.id = x.id => r.rule = x.rule
DeviationsName ==
  /\ deviations \in Seq(Logged) /\ \A i \in DOMAIN deviations : Names(deviations[i])
  /\ Len(deviations) <= MaxDeviations
  /\ approval # NoApproval =>
       approval \in Logged /\ Names(approval) /\ Len(deviations) < MaxDeviations

(* The rows of a document are those of its edition but the ones to come.   *)
Holds(d, todo) ==
  /\ \A r \in rows : r.doc = d => /\ r.rule \in edition[d].text /\ r.rule \notin todo
                                  /\ r.since = edition[d].since /\ r.until = edition[d].until
  /\ \A x \in edition[d].text : x \notin todo => \E r \in rows : r.doc = d /\ r.rule = x
  /\ \A r, s \in rows : r.doc = d /\ s.doc = d /\ r.rule = s.rule => r = s
InFull(d) == Holds(d, {})
Counted(d) == sources[d] = Cardinality(edition[d].text)

(* A document no ingest of which was cut short or ran beside another.      *)
InOrder(d) ==
  /\ \A p, q \in Ingesters : ingest[p].doc = d /\ ingest[q].doc = d => p = q
  /\ (\A p \in Ingesters : ingest[p].doc # d) => InFull(d)
  /\ \A ns : <<ns, d>> \in alerted => InFull(d) /\ Counted(d)
  /\ \A p \in Ingesters : ingest[p].doc = d =>
       /\ ingest[p].stage = "insert" =>
            /\ Holds(d, ingest[p].todo) /\ ingest[p].todo \subseteq edition[d].text
            /\ ingest[p].count = Cardinality(edition[d].text)
            /\ \A ns : <<ns, d>> \notin alerted
       /\ ingest[p].stage # "insert" => InFull(d) /\ Counted(d)

CorpusInv ==
  /\ CorpusRows /\ CorpusTypes /\ DeviationsName
  /\ \A d \in Docs : d \notin torn => InOrder(d)

LEMMA TextsFinite ==
  ASSUME CorpusBounds, NEW text \in SUBSET Rules
  PROVE  IsFiniteSet(text) /\ Cardinality(text) \in 0..Cardinality(Rules)
  <1>1. IsFiniteSet(Rules)
    BY DEF CorpusBounds
  <1>2. IsFiniteSet(text) /\ Cardinality(text) <= Cardinality(Rules)
    BY <1>1, FS_Subset
  <1>3. Cardinality(text) \in Nat /\ Cardinality(Rules) \in Nat
    BY <1>1, <1>2, FS_CardinalityType
  <1> QED
    BY <1>2, <1>3

LEMMA CorpusInitInv == ASSUME CorpusBounds, CorpusInit PROVE CorpusInv
  <1>1. CorpusRows
    BY FS_EmptySet DEF CorpusInit, CorpusRows, RowsApart
  <1>2. CorpusTypes
    <2>1. 0 \in 0..Cardinality(Rules)
      <3>1. {} \in SUBSET Rules
        OBVIOUS
      <3> QED
        BY <3>1, TextsFinite, FS_EmptySet
    <2>2. NotIngesting \in Handling
      BY <2>1 DEF NotIngesting, Handling
    <2>3. [text |-> {}, since |-> 0, until |-> 0] \in Edition
      BY DEF Edition
    <2> QED
      BY <2>1, <2>2, <2>3 DEF CorpusInit, CorpusTypes, NotIngesting
  <1>3. DeviationsName
    BY DEF CorpusInit, DeviationsName, CorpusBounds
  <1>4. ASSUME NEW d \in Docs PROVE InOrder(d)
    <2>1. \A p \in Ingesters : ingest[p].doc # d
      BY DEF CorpusInit, NotIngesting, CorpusBounds
    <2>2. InFull(d) /\ alerted = {}
      BY DEF CorpusInit, InFull, Holds
    <2> QED
      BY <2>1, <2>2 DEF InOrder
  <1> QED
    BY <1>1, <1>2, <1>3, <1>4 DEF CorpusInv

(* A request of document d changes, and with it nothing of another's.      *)
LEMMA OthersInOrder ==
  ASSUME NEW e \in Docs, InOrder(e),
         UNCHANGED edition[e], UNCHANGED sources[e],
         \A r : r.doc = e => (r \in rows <=> r \in rows'),
         \A ns : <<ns, e>> \in alerted' => <<ns, e>> \in alerted,
         \A p \in Ingesters : ingest'[p].doc = e => ingest'[p] = ingest[p],
         \A p \in Ingesters : ingest[p].doc = e => ingest'[p] = ingest[p]
  PROVE  InOrder(e)'
  <1>1. \A todo : Holds(e, todo) => Holds(e, todo)'
    <2>1. ASSUME NEW todo, Holds(e, todo) PROVE Holds(e, todo)'
      <3>1. \A r \in rows' : r.doc = e => r \in rows
        OBVIOUS
      <3>2. \A r \in rows : r.doc = e => r \in rows'
        OBVIOUS
      <3> QED
        BY <2>1, <3>1, <3>2 DEF Holds
    <2> QED
      BY <2>1
  <1>2. InFull(e) => InFull(e)'
    BY <1>1 DEF InFull
  <1>3. Counted(e) => Counted(e)'
    BY DEF Counted
  <1> QED
    BY <1>1, <1>2, <1>3 DEF InOrder

LEMMA BeginIngestKeeps ==
  ASSUME CorpusBounds, CorpusInv, NEW p \in Ingesters, NEW d \in Docs, NEW text \in Texts,
         NEW w \in Windows, BeginIngest(p, d, text, w)
  PROVE  CorpusInv'
  <1>1. /\ CorpusRows /\ CorpusTypes /\ DeviationsName
        /\ \A e \in Docs : e \notin torn => InOrder(e)
    BY DEF CorpusInv
  <1>2. /\ ingest[p] = NotIngesting /\ rows' = {r \in rows : r.doc # d}
        /\ alerted' = {a \in alerted : a[2] # d}
        /\ torn' = IF Ingesting(d) = {} THEN torn \ {d} ELSE torn \cup {d}
        /\ UNCHANGED <<nextRow, sources, deviations, approval>>
    BY DEF BeginIngest, Dropped, RowsOf
  <1>3. PICK req : req = [doc |-> d, todo |-> text, stage |-> "insert",
                          count |-> Cardinality(text)]
    OBVIOUS
  <1>4. PICK ed : ed = [text |-> text, since |-> w.since, until |-> w.until]
    OBVIOUS
  <1>5. ingest' = [ingest EXCEPT ![p] = req] /\ edition' = [edition EXCEPT ![d] = ed]
    BY <1>3, <1>4 DEF BeginIngest
  <1>6. text \in SUBSET Rules /\ IsFiniteSet(text) /\ Cardinality(text) \in 0..Cardinality(Rules)
    <2>1. text \in SUBSET Rules
      BY DEF CorpusBounds
    <2> QED
      BY <2>1, TextsFinite
  <1>7. ed \in Edition /\ ed.text = text
    BY <1>4, <1>6 DEF Edition
  <1>8. req \in Handling /\ req.doc = d /\ req.todo = text /\ req.stage = "insert"
        /\ req.count = Cardinality(text)
    BY <1>3, <1>6 DEF Handling
  <1>9. d # NoDoc
    BY DEF CorpusBounds
  <1>10. /\ edition' \in [Docs -> Edition] /\ edition'[d] = ed
         /\ \A e \in Docs : e # d => edition'[e] = edition[e]
         /\ ingest' \in [Ingesters -> Handling] /\ ingest'[p] = req
         /\ \A q \in Ingesters : q # p => ingest'[q] = ingest[q]
    BY <1>1, <1>5, <1>7, <1>8 DEF CorpusTypes
  <1>11. CorpusRows'
    <2>1. rows' \subseteq rows
      BY <1>2
    <2>2. IsFiniteSet(rows')
      BY <1>1, <2>1, FS_Subset DEF CorpusRows, RowsApart
    <2> QED
      BY <1>1, <1>2, <2>1, <2>2 DEF CorpusRows, RowsApart
  <1>12. CorpusTypes'
    BY <1>1, <1>2, <1>8, <1>9, <1>10 DEF CorpusTypes
  <1>13. DeviationsName'
    <2>1. \A x : Names(x) => Names(x)'
      BY <1>2 DEF Names
    <2> QED
      BY <1>1, <1>2, <2>1 DEF DeviationsName
  <1>14. ASSUME NEW e \in Docs, e \notin torn', e # d PROVE InOrder(e)'
    <2>1. InOrder(e)
      BY <1>1, <1>2, <1>14
    <2>2. \A r : r.doc = e => (r \in rows <=> r \in rows')
      BY <1>2, <1>14
    <2>3. \A ns : <<ns, e>> \in alerted' => <<ns, e>> \in alerted
      BY <1>2
    <2>4. ingest[p].doc # e
      BY <1>2 DEF NotIngesting, CorpusBounds
    <2>5. /\ \A q \in Ingesters : ingest'[q].doc = e => ingest'[q] = ingest[q]
          /\ \A q \in Ingesters : ingest[q].doc = e => ingest'[q] = ingest[q]
      BY <1>8, <1>10, <1>14, <2>4
    <2> QED
      BY <1>2, <1>10, <1>14, <2>1, <2>2, <2>3, <2>5, OthersInOrder
  <1>15. ASSUME d \notin torn' PROVE InOrder(d)'
    <2>1. \A q \in Ingesters : ingest[q].doc # d
      BY <1>2, <1>15 DEF Ingesting
    <2>2. \A q \in Ingesters : ingest'[q].doc = d => q = p
      BY <1>10, <2>1
    <2>3. Holds(d, text)'
      BY <1>2, <1>7, <1>10 DEF Holds
    <2>4. \A ns : <<ns, d>> \notin alerted'
      BY <1>2
    <2> QED
      BY <1>7, <1>8, <1>10, <2>2, <2>3, <2>4 DEF InOrder
  <1> QED
    BY <1>11, <1>12, <1>13, <1>14, <1>15 DEF CorpusInv

LEMMA InsertRuleKeeps ==
  ASSUME CorpusBounds, CorpusInv, NEW p \in Ingesters, InsertRule(p)
  PROVE  CorpusInv'
  <1>1. /\ CorpusRows /\ CorpusTypes /\ DeviationsName
        /\ \A e \in Docs : e \notin torn => InOrder(e)
    BY DEF CorpusInv
  <1>2. PICK d : d = ingest[p].doc
    OBVIOUS
  <1>3. PICK x : x = CHOOSE y \in ingest[p].todo : TRUE
    OBVIOUS
  <1>4. PICK new : new = [id |-> nextRow, doc |-> d, rule |-> x,
                          since |-> edition[d].since, until |-> edition[d].until]
    OBVIOUS
  <1>5. PICK req : req = [ingest[p] EXCEPT !.todo = @ \ {x}]
    OBVIOUS
  <1>6. /\ ingest[p].stage = "insert" /\ x \in ingest[p].todo
        /\ rows' = rows \cup {new} /\ ingest' = [ingest EXCEPT ![p] = req]
        /\ nextRow' = nextRow + 1
        /\ UNCHANGED <<sources, deviations, approval, edition, torn, alerted>>
    <2>1. /\ ingest[p].stage = "insert" /\ ingest[p].todo # {}
          /\ rows' = rows \cup {new} /\ ingest' = [ingest EXCEPT ![p].todo = @ \ {x}]
          /\ nextRow' = nextRow + 1
          /\ UNCHANGED <<sources, deviations, approval, edition, torn, alerted>>
      BY <1>2, <1>3, <1>4 DEF InsertRule, NewId
    <2>2. x \in ingest[p].todo
      BY <1>3, <2>1
    <2>3. ingest' = [ingest EXCEPT ![p] = req]
      BY <1>5, <2>1
    <2> QED
      BY <2>1, <2>2, <2>3
  <1>7. ingest[p] \in Handling /\ ingest[p] # NotIngesting
    BY <1>1, <1>6 DEF CorpusTypes, NotIngesting
  <1>8. d \in Docs
    BY <1>1, <1>2, <1>7 DEF CorpusTypes, Handling
  <1>9. /\ req \in Handling /\ req.doc = d /\ req.todo = ingest[p].todo \ {x}
        /\ req.stage = "insert" /\ req.count = ingest[p].count
    BY <1>2, <1>5, <1>6, <1>7 DEF Handling
  <1>10. /\ ingest' \in [Ingesters -> Handling] /\ ingest'[p] = req
         /\ \A q \in Ingesters : q # p => ingest'[q] = ingest[q]
    BY <1>1, <1>6, <1>9 DEF CorpusTypes
  <1>11. nextRow \in Nat \ {0} /\ nextRow' \in Nat \ {0} /\ \A r \in rows : r.id \in Nat /\ r.id < nextRow
    BY <1>1, <1>6 DEF CorpusRows, RowsApart
  <1>12. d # NoDoc
    BY <1>8 DEF CorpusBounds
  <1>13. CorpusTypes'
    BY <1>1, <1>6, <1>9, <1>10, <1>12 DEF CorpusTypes
  <1>14. new.id = nextRow /\ new.doc = d /\ new.rule = x
         /\ new.since = edition[d].since /\ new.until = edition[d].until
    BY <1>4
  <1>15. DeviationsName'
    <2>1. \A i : Names(i) /\ i.id \in Nat => Names(i)'
      BY <1>6, <1>11, <1>14 DEF Names
    <2>2. \A i \in DOMAIN deviations : deviations[i].id \in Nat
      <3>1. \A i \in DOMAIN deviations : deviations[i] \in Logged
        BY <1>1 DEF DeviationsName
      <3> QED
        BY <3>1 DEF Logged
    <2>3. approval # NoApproval => approval.id \in Nat
      BY <1>1 DEF DeviationsName, Logged
    <2> QED
      BY <1>1, <1>6, <2>1, <2>2, <2>3 DEF DeviationsName
  <1>16. ASSUME d \notin torn PROVE InOrder(d)'
    <2>1. InOrder(d) /\ ingest[p].doc = d
      BY <1>1, <1>2, <1>8, <1>16
    <2>2. /\ Holds(d, ingest[p].todo) /\ ingest[p].todo \subseteq edition[d].text
          /\ ingest[p].count = Cardinality(edition[d].text)
          /\ \A ns : <<ns, d>> \notin alerted
          /\ \A q \in Ingesters : ingest[q].doc = d => q = p
      BY <1>6, <2>1 DEF InOrder
    <2>3. Holds(d, req.todo)'
      <3>1. x \in edition[d].text /\ x \notin req.todo /\ \A y : y \notin req.todo => y = x \/ y \notin ingest[p].todo
        BY <1>6, <1>9, <2>2
      <3>2. \A r \in rows : r.doc = d => r.rule # x
        BY <1>6, <2>2 DEF Holds
      <3>3. \A r \in rows' : r \in rows \/ r = new
        BY <1>6
      <3>4. new \in rows' /\ rows \subseteq rows'
        BY <1>6
      <3>5. \A r \in rows' : r.doc = d => /\ r.rule \in edition[d].text /\ r.rule \notin req.todo
                                  /\ r.since = edition[d].since /\ r.until = edition[d].until
        BY <1>9, <1>14, <2>2, <3>1, <3>3 DEF Holds
      <3>6. \A y \in edition[d].text : y \notin req.todo => \E r \in rows' : r.doc = d /\ r.rule = y
        BY <1>14, <2>2, <3>1, <3>4 DEF Holds
      <3>7. \A r, s \in rows' : r.doc = d /\ s.doc = d /\ r.rule = s.rule => r = s
        BY <1>14, <2>2, <3>2, <3>3 DEF Holds
      <3> QED
        BY <1>6, <1>10, <3>5, <3>6, <3>7, Zenon DEF Holds
    <2> QED
      <3>1. \A q \in Ingesters : ingest'[q].doc = d => q = p
        BY <1>10, <2>2
      <3>2. ingest'[p].todo \subseteq edition'[d].text /\ ingest'[p].count = Cardinality(edition'[d].text)
        BY <1>6, <1>9, <1>10, <2>2
      <3>3. (\A ns : <<ns, d>> \notin alerted') /\ ingest'[p].stage = "insert" /\ ingest'[p].doc = d
        BY <1>6, <1>9, <1>10, <2>2
      <3>4. Holds(d, ingest[p].todo)'
        BY <1>10, <2>3
      <3> QED
        BY <3>1, <3>2, <3>3, <3>4 DEF InOrder
  <1>17. ASSUME NEW e \in Docs, e \notin torn', e # d PROVE InOrder(e)'
    <2>1. InOrder(e)
      BY <1>1, <1>6, <1>17
    <2>2. \A r : r.doc = e => (r \in rows <=> r \in rows')
      BY <1>6, <1>14, <1>17
    <2>5. /\ \A q \in Ingesters : ingest'[q].doc = e => ingest'[q] = ingest[q]
          /\ \A q \in Ingesters : ingest[q].doc = e => ingest'[q] = ingest[q]
      BY <1>2, <1>9, <1>10, <1>17
    <2> QED
      BY <1>6, <2>1, <2>2, <2>5, OthersInOrder
  <1>18. CorpusRows'
    <2>1. IsFiniteSet(rows')
      BY <1>1, <1>6, FS_AddElement DEF CorpusRows, RowsApart
    <2>2. x \in Rules
      BY <1>1, <1>6 DEF CorpusTypes
    <2> QED
      BY <1>1, <1>6, <1>8, <1>11, <1>14, <2>1, <2>2 DEF CorpusRows, RowsApart
  <1> QED
    BY <1>6, <1>13, <1>15, <1>16, <1>17, <1>18 DEF CorpusInv

(* A request that has put its last rule in, or gives up.                   *)
LEMMA RecordSourceKeeps ==
  ASSUME CorpusBounds, CorpusInv, NEW p \in Ingesters, RecordSource(p)
  PROVE  CorpusInv'
  <1>1. /\ CorpusRows /\ CorpusTypes /\ DeviationsName
        /\ \A e \in Docs : e \notin torn => InOrder(e)
    BY DEF CorpusInv
  <1>2. PICK d : d = ingest[p].doc
    OBVIOUS
  <1>3. PICK req : req = [ingest[p] EXCEPT !.stage = "list"]
    OBVIOUS
  <1>4. /\ ingest[p].stage = "insert" /\ ingest[p].todo = {}
        /\ sources' = [sources EXCEPT ![d] = ingest[p].count]
        /\ ingest' = [ingest EXCEPT ![p] = req]
        /\ UNCHANGED <<rows, nextRow, deviations, approval, edition, torn, alerted>>
    <2>1. ingest' = [ingest EXCEPT ![p].stage = "list"]
      BY DEF RecordSource
    <2>2. ingest' = [ingest EXCEPT ![p] = req]
      BY <1>3, <2>1
    <2> QED
      BY <1>2, <2>2 DEF RecordSource, Records
  <1>5. ingest[p] \in Handling /\ ingest[p] # NotIngesting
    BY <1>1, <1>4 DEF CorpusTypes, NotIngesting
  <1>6. d \in Docs /\ ingest[p].count \in 0..Cardinality(Rules)
    BY <1>1, <1>2, <1>5 DEF CorpusTypes, Handling
  <1>7. req \in Handling /\ req.doc = d /\ req.stage = "list" /\ req.todo = ingest[p].todo
    BY <1>2, <1>3, <1>5 DEF Handling
  <1>8. /\ ingest' \in [Ingesters -> Handling] /\ ingest'[p] = req
        /\ \A q \in Ingesters : q # p => ingest'[q] = ingest[q]
        /\ sources' \in [Docs -> 0..Cardinality(Rules) \cup {Unrecorded}]
        /\ sources'[d] = ingest[p].count
        /\ \A e \in Docs : e # d => sources'[e] = sources[e]
    BY <1>1, <1>4, <1>6, <1>7 DEF CorpusTypes
  <1>9. d # NoDoc
    BY <1>6 DEF CorpusBounds
  <1>10. CorpusTypes'
    BY <1>1, <1>4, <1>7, <1>8, <1>9 DEF CorpusTypes
  <1>11. CorpusRows' /\ DeviationsName'
    BY <1>1, <1>4 DEF CorpusRows, RowsApart, DeviationsName, Names
  <1>12. ASSUME d \notin torn PROVE InOrder(d)'
    <2>1. InOrder(d) /\ ingest[p].doc = d
      BY <1>1, <1>2, <1>6, <1>12
    <2>2. /\ Holds(d, {}) /\ ingest[p].count = Cardinality(edition[d].text)
          /\ \A q \in Ingesters : ingest[q].doc = d => q = p
      BY <1>4, <2>1 DEF InOrder
    <2>3. InFull(d)' /\ Counted(d)'
      BY <1>4, <1>8, <2>2 DEF InFull, Holds, Counted
    <2>4. \A q \in Ingesters : ingest'[q].doc = d => q = p
      BY <1>8, <2>2
    <2>5. ingest'[p].doc = d /\ ingest'[p].stage = "list"
      BY <1>7, <1>8
    <2> QED
      BY <2>3, <2>4, <2>5 DEF InOrder
  <1>13. ASSUME NEW e \in Docs, e \notin torn', e # d PROVE InOrder(e)'
    <2>1. InOrder(e)
      BY <1>1, <1>4, <1>13
    <2>2. /\ \A q \in Ingesters : ingest'[q].doc = e => ingest'[q] = ingest[q]
          /\ \A q \in Ingesters : ingest[q].doc = e => ingest'[q] = ingest[q]
      BY <1>2, <1>7, <1>8, <1>13
    <2> QED
      BY <1>4, <1>8, <1>13, <2>1, <2>2, OthersInOrder
  <1> QED
    BY <1>4, <1>10, <1>11, <1>12, <1>13 DEF CorpusInv

LEMMA ListDescendantsKeeps ==
  ASSUME CorpusBounds, CorpusInv, NEW p \in Ingesters, ListDescendants(p)
  PROVE  CorpusInv'
  <1>1. /\ CorpusRows /\ CorpusTypes /\ DeviationsName
        /\ \A e \in Docs : e \notin torn => InOrder(e)
    BY DEF CorpusInv
  <1>2. PICK targets \in {Descendants(ingest[p].doc), {}} :
          ingest' = [ingest EXCEPT ![p] = [@ EXCEPT !.stage = "alert", !.todo = targets]]
    BY DEF ListDescendants
  <1>3. PICK moved : moved = [ingest[p] EXCEPT !.stage = "alert"]
    OBVIOUS
  <1>4. PICK req : req = [moved EXCEPT !.todo = targets]
    OBVIOUS
  <1>5. /\ ingest[p].stage = "list" /\ ingest' = [ingest EXCEPT ![p] = req]
        /\ UNCHANGED <<rows, nextRow, sources, deviations, approval, edition, torn, alerted>>
    BY <1>2, <1>3, <1>4 DEF ListDescendants
  <1>6. targets \subseteq Spaces
    BY DEF Descendants, Spaces
  <1>7. ingest[p] \in Handling /\ ingest[p] # NotIngesting /\ ingest[p].doc # NoDoc
    BY <1>1, <1>5 DEF CorpusTypes, NotIngesting
  <1>8. moved \in Handling /\ moved.doc = ingest[p].doc /\ moved.stage = "alert"
    BY <1>3, <1>7 DEF Handling
  <1>9. req \in Handling /\ req.doc = ingest[p].doc /\ req.stage = "alert"
    BY <1>4, <1>6, <1>8 DEF Handling
  <1>10. /\ ingest' \in [Ingesters -> Handling] /\ ingest'[p] = req
         /\ \A q \in Ingesters : q # p => ingest'[q] = ingest[q]
    BY <1>1, <1>5, <1>9 DEF CorpusTypes
  <1>11. CorpusTypes'
    BY <1>1, <1>5, <1>7, <1>9, <1>10 DEF CorpusTypes
  <1>12. CorpusRows' /\ DeviationsName'
    BY <1>1, <1>5 DEF CorpusRows, RowsApart, DeviationsName, Names
  <1>13. ASSUME NEW e \in Docs, e \notin torn PROVE InOrder(e)'
    <2>1. InOrder(e)
      BY <1>1, <1>13
    <2>2. InFull(e) => InFull(e)'
      BY <1>5 DEF InFull, Holds
    <2>3. Counted(e)' <=> Counted(e)
      BY <1>5 DEF Counted
    <2>4. \A todo : Holds(e, todo) => Holds(e, todo)'
      BY <1>5 DEF Holds
    <2>5. \A q \in Ingesters :
            /\ ingest'[q].doc = ingest[q].doc
            /\ \/ ingest'[q] = ingest[q]
               \/ ingest[q].stage = "list" /\ ingest'[q].stage = "alert"
      BY <1>5, <1>9, <1>10
    <2> QED
      BY <1>5, <2>1, <2>2, <2>3, <2>4, <2>5 DEF InOrder
  <1> QED
    BY <1>5, <1>11, <1>12, <1>13 DEF CorpusInv

LEMMA AlertKeeps ==
  ASSUME CorpusBounds, CorpusInv, NEW p \in Ingesters, Alert(p)
  PROVE  CorpusInv'
  <1>1. /\ CorpusRows /\ CorpusTypes /\ DeviationsName
        /\ \A e \in Docs : e \notin torn => InOrder(e)
    BY DEF CorpusInv
  <1>2. PICK d : d = ingest[p].doc
    OBVIOUS
  <1>3. /\ ingest[p].stage = "alert"
        /\ UNCHANGED <<rows, nextRow, sources, deviations, approval, edition, torn>>
    BY DEF Alert
  <1>4. ingest[p] \in Handling /\ d # NoDoc /\ d \in Docs
    BY <1>1, <1>2, <1>3 DEF CorpusTypes, NotIngesting, Handling
  <1>5. PICK req : /\ ingest' = [ingest EXCEPT ![p] = req]
                   /\ \/ req = [ingest[p] EXCEPT !.todo = ingest'[p].todo]
                         /\ ingest'[p].todo \subseteq ingest[p].todo
                      \/ req = NotIngesting
    <2>1. CASE \E ns \in ingest[p].todo : ingest' = [ingest EXCEPT ![p].todo = @ \ {ns}]
      <3>1. PICK ns : ingest' = [ingest EXCEPT ![p].todo = @ \ {ns}]
        BY <2>1
      <3>2. PICK r : r = [ingest[p] EXCEPT !.todo = @ \ {ns}]
        OBVIOUS
      <3>3. ingest' = [ingest EXCEPT ![p] = r]
        BY <3>1, <3>2
      <3>4. r.todo = ingest[p].todo \ {ns}
        BY <1>4, <3>2 DEF Handling
      <3>5. ingest'[p] = r
        BY <1>1, <3>3 DEF CorpusTypes
      <3> QED
        BY <3>2, <3>3, <3>4, <3>5
    <2>2. CASE ingest' = [ingest EXCEPT ![p] = NotIngesting]
      BY <2>2
    <2> QED
      BY <2>1, <2>2 DEF Alert
  <1>6. \A a : a \in alerted' => a \in alerted \/ \E ns : a = <<ns, d>>
    BY <1>2 DEF Alert
  <1>7. \/ /\ req \in Handling /\ req.doc = d /\ req.stage = "alert"
        \/ req = NotIngesting
    BY <1>2, <1>3, <1>4, <1>5 DEF Handling
  <1>8. NotIngesting \in Handling /\ NotIngesting.doc = NoDoc /\ NotIngesting.stage = "idle"
    <2>1. {} \in SUBSET Rules
      OBVIOUS
    <2>2. 0 \in 0..Cardinality(Rules)
      BY <2>1, TextsFinite, FS_EmptySet
    <2> QED
      BY <2>2 DEF NotIngesting, Handling
  <1>9. /\ ingest' \in [Ingesters -> Handling] /\ ingest'[p] = req
        /\ \A q \in Ingesters : q # p => ingest'[q] = ingest[q]
    BY <1>1, <1>5, <1>7, <1>8 DEF CorpusTypes
  <1>10. CorpusTypes'
    BY <1>1, <1>3, <1>4, <1>7, <1>8, <1>9 DEF CorpusTypes
  <1>11. CorpusRows' /\ DeviationsName'
    BY <1>1, <1>3 DEF CorpusRows, RowsApart, DeviationsName, Names
  <1>12. ASSUME NEW e \in Docs, e \notin torn PROVE InOrder(e)'
    <2>1. InOrder(e) /\ e # NoDoc
      BY <1>1, <1>12 DEF CorpusBounds
    <2>2. InFull(e) => InFull(e)'
      BY <1>3 DEF InFull, Holds
    <2>3. Counted(e)' <=> Counted(e)
      BY <1>3 DEF Counted
    <2>4. \A todo : Holds(e, todo) => Holds(e, todo)'
      BY <1>3 DEF Holds
    <2>5. d = e => InFull(e) /\ Counted(e)
      BY <1>2, <1>3, <2>1 DEF InOrder
    <2>6. \A q \in Ingesters :
            ingest'[q].doc = e =>
              /\ ingest[q].doc = e
              /\ \/ ingest'[q] = ingest[q]
                 \/ ingest[q].stage = "alert" /\ ingest'[q].stage = "alert"
      BY <1>2, <1>3, <1>7, <1>8, <1>9, <2>1
    <2>7. (\A q \in Ingesters : ingest'[q].doc # e) => InFull(e)
      <3>1. CASE d = e
        BY <2>5, <3>1
      <3>2. CASE d # e
        <4>1. \A q \in Ingesters : ingest[q].doc = e => ingest'[q].doc = e
          BY <1>2, <1>9, <3>2
        <4> QED
          BY <2>1, <4>1 DEF InOrder
      <3> QED
        BY <3>1, <3>2
    <2>8. \A ns : <<ns, e>> \in alerted' => InFull(e) /\ Counted(e)
      <3>1. ASSUME NEW ns, <<ns, e>> \in alerted', d # e PROVE <<ns, e>> \in alerted
        BY <1>6, <3>1
      <3> QED
        BY <2>1, <2>5, <3>1 DEF InOrder
    <2>9. \A q \in Ingesters : ingest'[q].doc = e /\ ingest'[q].stage = "insert"
            => \A ns : <<ns, e>> \notin alerted'
      <3>1. CASE d = e
        <4>1. \A q \in Ingesters : ingest[q].doc = e => q = p
          BY <1>2, <2>1, <3>1 DEF InOrder
        <4> QED
          BY <1>3, <2>6, <4>1
      <3>2. CASE d # e
        <4>1. \A ns : <<ns, e>> \in alerted' => <<ns, e>> \in alerted
          BY <1>6, <3>2
        <4>2. \A q \in Ingesters : ingest'[q].doc = e /\ ingest'[q].stage = "insert"
                => ingest[q].doc = e /\ ingest[q].stage = "insert"
          BY <2>6
        <4> QED
          BY <2>1, <4>1, <4>2 DEF InOrder
      <3> QED
        BY <3>1, <3>2
    <2>10. ASSUME NEW q \in Ingesters, ingest'[q].doc = e, ingest'[q].stage = "insert"
           PROVE  /\ Holds(e, ingest[q].todo)' /\ ingest'[q].todo \subseteq edition'[e].text
                  /\ ingest'[q].count = Cardinality(edition'[e].text)
      <3>1. ingest'[q] = ingest[q] /\ ingest[q].doc = e /\ ingest[q].stage = "insert"
        BY <2>6, <2>10
      <3> QED
        BY <1>3, <2>1, <2>4, <3>1 DEF InOrder
    <2>11. ASSUME NEW q \in Ingesters, ingest'[q].doc = e, ingest'[q].stage # "insert"
           PROVE  InFull(e) /\ Counted(e)
      <3>1. ingest[q].doc = e /\ ingest[q].stage # "insert"
        BY <2>6, <2>11
      <3> QED
        BY <2>1, <3>1 DEF InOrder
    <2>12. \A q, s \in Ingesters : ingest'[q].doc = e /\ ingest'[s].doc = e => q = s
      BY <2>1, <2>6 DEF InOrder
    <2> QED
      BY <2>2, <2>3, <2>7, <2>8, <2>9, <2>10, <2>11, <2>12 DEF InOrder
  <1> QED
    BY <1>3, <1>10, <1>11, <1>12 DEF CorpusInv

LEMMA IngestFailsKeeps ==
  ASSUME CorpusBounds, CorpusInv, NEW p \in Ingesters, IngestFails(p)
  PROVE  CorpusInv'
  <1>1. /\ CorpusRows /\ CorpusTypes /\ DeviationsName
        /\ \A e \in Docs : e \notin torn => InOrder(e)
    BY DEF CorpusInv
  <1>2. PICK d : d = ingest[p].doc
    OBVIOUS
  <1>3. /\ ingest[p] # NotIngesting /\ ingest' = [ingest EXCEPT ![p] = NotIngesting]
        /\ torn' = IF ingest[p].stage = "insert" THEN torn \cup {d} ELSE torn
        /\ UNCHANGED <<rows, nextRow, sources, deviations, approval, edition, alerted>>
    BY <1>2 DEF IngestFails
  <1>4. d # NoDoc /\ d \in Docs
    BY <1>1, <1>2, <1>3 DEF CorpusTypes, Handling
  <1>5. NotIngesting \in Handling /\ NotIngesting.doc = NoDoc /\ NotIngesting.stage = "idle"
    <2>1. {} \in SUBSET Rules
      OBVIOUS
    <2>2. 0 \in 0..Cardinality(Rules)
      BY <2>1, TextsFinite, FS_EmptySet
    <2> QED
      BY <2>2 DEF NotIngesting, Handling
  <1>6. /\ ingest' \in [Ingesters -> Handling] /\ ingest'[p] = NotIngesting
        /\ \A q \in Ingesters : q # p => ingest'[q] = ingest[q]
    BY <1>1, <1>3, <1>5 DEF CorpusTypes
  <1>7. CorpusTypes'
    BY <1>1, <1>3, <1>4, <1>5, <1>6 DEF CorpusTypes
  <1>8. CorpusRows' /\ DeviationsName'
    BY <1>1, <1>3 DEF CorpusRows, RowsApart, DeviationsName, Names
  <1>9. ASSUME NEW e \in Docs, e \notin torn', e # d PROVE InOrder(e)'
    <2>1. InOrder(e) /\ e # NoDoc
      BY <1>1, <1>3, <1>9 DEF CorpusBounds
    <2>2. /\ \A q \in Ingesters : ingest'[q].doc = e => ingest'[q] = ingest[q]
          /\ \A q \in Ingesters : ingest[q].doc = e => ingest'[q] = ingest[q]
      BY <1>2, <1>5, <1>6, <1>9, <2>1
    <2> QED
      BY <1>3, <2>1, <2>2, OthersInOrder
  <1>10. ASSUME d \notin torn' PROVE InOrder(d)'
    <2>1. InOrder(d) /\ ingest[p].doc = d /\ ingest[p].stage # "insert"
      BY <1>1, <1>2, <1>3, <1>4, <1>10
    <2>2. InFull(d) /\ Counted(d) /\ \A q \in Ingesters : ingest[q].doc = d => q = p
      BY <2>1 DEF InOrder
    <2>3. \A q \in Ingesters : ingest'[q].doc # d
      BY <1>4, <1>5, <1>6, <2>2
    <2>4. InFull(d)' /\ Counted(d)'
      BY <1>3, <2>2 DEF InFull, Holds, Counted
    <2> QED
      BY <2>3, <2>4 DEF InOrder
  <1> QED
    BY <1>3, <1>7, <1>8, <1>9, <1>10 DEF CorpusInv

LEMMA DeviationsKeep ==
  ASSUME CorpusBounds, CorpusInv,
         (\E r \in rows, until \in Versions \cup {0} : Approve(r, until)) \/ LogDeviation
  PROVE  CorpusInv'
  <1>1. /\ CorpusRows /\ CorpusTypes /\ DeviationsName
        /\ \A e \in Docs : e \notin torn => InOrder(e)
    BY DEF CorpusInv
  <1>2. UNCHANGED <<rows, nextRow, sources, ingest, edition, torn, alerted>>
    BY DEF Approve, LogDeviation
  <1>3. CorpusRows' /\ CorpusTypes' /\ \A x : Names(x) => Names(x)'
    BY <1>1, <1>2 DEF CorpusRows, RowsApart, CorpusTypes, Names
  <1>4. ASSUME \E r \in rows, until \in Versions \cup {0} : Approve(r, until)
        PROVE  DeviationsName'
    <2>1. PICK r \in rows, until \in Versions \cup {0} : Approve(r, until)
      BY <1>4
    <2>2. PICK new : new = [id |-> r.id, rule |-> r.rule, ns |-> NsOf[r.doc], until |-> until]
      OBVIOUS
    <2>3. approval' = new /\ deviations' = deviations /\ Len(deviations) < MaxDeviations
      BY <2>1, <2>2 DEF Approve
    <2>4. new \in Logged
      BY <1>1, <2>2 DEF Logged, Spaces, CorpusRows, RowsApart
    <2>5. Names(new)
      BY <1>1, <2>2 DEF Names, CorpusRows, RowsApart
    <2> QED
      BY <1>1, <1>2, <2>3, <2>4, <2>5 DEF DeviationsName, Names
  <1>5. ASSUME LogDeviation PROVE DeviationsName'
    <2>1. /\ approval # NoApproval /\ deviations' = Append(deviations, approval)
          /\ approval' = NoApproval
      BY <1>5 DEF LogDeviation
    <2>2. /\ approval \in Logged /\ Names(approval) /\ Len(deviations) < MaxDeviations
          /\ deviations \in Seq(Logged) /\ \A i \in DOMAIN deviations : Names(deviations[i])
      BY <1>1, <2>1 DEF DeviationsName
    <2>3. /\ deviations' \in Seq(Logged) /\ Len(deviations') = Len(deviations) + 1
          /\ \A i \in DOMAIN deviations' :
               \/ i \in DOMAIN deviations /\ deviations'[i] = deviations[i]
               \/ deviations'[i] = approval
      BY <2>1, <2>2
    <2>4. MaxDeviations \in Nat /\ Len(deviations) \in Nat
      BY <2>2 DEF CorpusBounds
    <2>5. \A x : Names(x) => x.id < nextRow' /\ \A r \in rows' : r.id = x.id => r.rule = x.rule
      BY <1>2 DEF Names
    <2>6. \A i \in DOMAIN deviations' :
            /\ deviations'[i].id < nextRow'
            /\ \A r \in rows' : r.id = deviations'[i].id => r.rule = deviations'[i].rule
      BY <2>2, <2>3, <2>5
    <2>7. Len(deviations') <= MaxDeviations
      BY <2>2, <2>3, <2>4
    <2> QED
      BY <2>1, <2>3, <2>6, <2>7 DEF DeviationsName, Names
  <1>6. DeviationsName'
    BY <1>4, <1>5
  <1>7. ASSUME NEW e \in Docs, e \notin torn PROVE InOrder(e)'
    <2>1. InOrder(e)
      BY <1>1, <1>7
    <2> QED
      BY <1>2, <2>1, OthersInOrder, <1>7
  <1> QED
    BY <1>2, <1>3, <1>6, <1>7 DEF CorpusInv

LEMMA CorpusNextInv ==
  ASSUME CorpusBounds, CorpusInv, [CorpusNext]_corpusVars PROVE CorpusInv'
  <1>1. CASE \E p \in Ingesters : InsertRule(p) \/ RecordSource(p) \/ ListDescendants(p)
                                  \/ Alert(p) \/ IngestFails(p)
    BY <1>1, InsertRuleKeeps, RecordSourceKeeps, ListDescendantsKeeps, AlertKeeps,
       IngestFailsKeeps
  <1>2. CASE \E p \in Ingesters, d \in Docs, text \in Texts, w \in Windows :
               BeginIngest(p, d, text, w)
    BY <1>2, BeginIngestKeeps
  <1>3. CASE (\E r \in rows, until \in Versions \cup {0} : Approve(r, until)) \/ LogDeviation
    BY <1>3, DeviationsKeep
  <1>4. CASE UNCHANGED corpusVars
    <2>1. UNCHANGED <<rows, nextRow, sources, deviations, approval, ingest, edition, torn, alerted>>
      BY <1>4 DEF corpusVars
    <2>2. CorpusRows' /\ CorpusTypes' /\ DeviationsName'
      BY <2>1 DEF CorpusInv, CorpusRows, RowsApart, CorpusTypes, DeviationsName, Names
    <2>3. ASSUME NEW e \in Docs, e \notin torn PROVE InOrder(e)'
      <3>1. InOrder(e)
        BY <2>3 DEF CorpusInv
      <3> QED
        BY <2>1, <3>1, OthersInOrder, <2>3
    <2> QED
      BY <2>1, <2>2, <2>3 DEF CorpusInv
  <1> QED
    BY <1>1, <1>2, <1>3, <1>4 DEF CorpusNext

(* What the invariant says of the properties.                              *)
LEMMA InFullAsGiven ==
  ASSUME CorpusBounds, CorpusInv, NEW d \in Docs, InFull(d) PROVE AsGiven(d)
  <1> DEFINE mine == RowsOf(d)
             f == [r \in mine |-> r.rule]
  <1>1. PICK ed : ed = edition[d]
    OBVIOUS
  <1>2. /\ \A r \in rows : r.doc = d => r.rule \in ed.text /\ r.since = ed.since
                                        /\ r.until = ed.until
        /\ \A x \in ed.text : \E r \in rows : r.doc = d /\ r.rule = x
        /\ \A r, s \in rows : r.doc = d /\ s.doc = d /\ r.rule = s.rule => r = s
    BY <1>1 DEF InFull, Holds
  <1>3. \A r : r \in mine <=> r \in rows /\ r.doc = d
    BY DEF RowsOf
  <1> HIDE DEF mine
  <1>4. {<<r.rule, r.since, r.until>> : r \in mine} = {<<x, ed.since, ed.until>> : x \in ed.text}
    <2>1. ASSUME NEW t, t \in {<<r.rule, r.since, r.until>> : r \in mine}
          PROVE  t \in {<<x, ed.since, ed.until>> : x \in ed.text}
      <3>1. PICK r \in mine : t = <<r.rule, r.since, r.until>>
        BY <2>1
      <3>2. r.rule \in ed.text /\ r.since = ed.since /\ r.until = ed.until
        BY <1>2, <1>3
      <3> QED
        BY <3>1, <3>2
    <2>2. ASSUME NEW t, t \in {<<x, ed.since, ed.until>> : x \in ed.text}
          PROVE  t \in {<<r.rule, r.since, r.until>> : r \in mine}
      <3>1. PICK x \in ed.text : t = <<x, ed.since, ed.until>>
        BY <2>2
      <3>2. PICK r \in mine : r.rule = x
        BY <1>2, <1>3
      <3>3. r.since = ed.since /\ r.until = ed.until
        BY <1>2, <1>3
      <3> QED
        BY <3>1, <3>2, <3>3
    <2> QED
      BY <2>1, <2>2
  <1>5. f \in Bijection(mine, ed.text)
    <2>1. f \in [mine -> ed.text]
      BY <1>2, <1>3
    <2>2. \A r, s \in mine : f[r] = f[s] => r = s
      BY <1>2, <1>3
    <2>3. \A x \in ed.text : \E r \in mine : f[r] = x
      BY <1>2, <1>3
    <2> HIDE DEF f
    <2> QED
      BY <2>1, <2>2, <2>3 DEF Bijection, Injection, Surjection, IsInjective
  <1>6. IsFiniteSet(mine)
    <2>1. mine \subseteq rows /\ IsFiniteSet(rows)
      BY <1>3 DEF CorpusInv, CorpusRows, RowsApart
    <2> QED
      BY <2>1, FS_Subset
  <1>7. Cardinality(mine) = Cardinality(ed.text)
    <2>1. f \in Surjection(mine, ed.text)
      BY <1>5 DEF Bijection
    <2>2. IsFiniteSet(ed.text)
      <3> HIDE DEF f
      <3> QED
        BY <1>6, <2>1, FS_Surjection
    <2> HIDE DEF f
    <2> QED
      BY <1>5, <1>6, <2>2, FS_Bijection DEF ExistsBijection
  <1> QED
    BY <1>1, <1>4, <1>7 DEF AsGiven, mine

LEMMA CorpusInvIngested == ASSUME CorpusBounds, CorpusInv PROVE RulesAsIngested
  <1>1. ASSUME NEW d \in Docs, d \notin torn
        PROVE  /\ Ingesting(d) = {} => AsGiven(d)
               /\ (\E ns \in LevelsOf(rows) \cup {NsOf[e] : e \in Docs} : <<ns, d>> \in alerted)
                    => AsGiven(d) /\ sources[d] = Cardinality(edition[d].text)
    <2>1. InOrder(d)
      BY <1>1 DEF CorpusInv
    <2>2. Ingesting(d) = {} => InFull(d)
      BY <2>1 DEF InOrder, Ingesting
    <2>3. \A ns : <<ns, d>> \in alerted => InFull(d) /\ Counted(d)
      BY <2>1 DEF InOrder
    <2> QED
      BY <2>2, <2>3, InFullAsGiven DEF Counted
  <1> QED
    BY <1>1 DEF RulesAsIngested

LEMMA CorpusInvDeviations == ASSUME CorpusBounds, CorpusInv PROVE DeviationsStayPut
  <1>1. ASSUME NEW r \in rows, NEW v \in Versions \cup {0}, Status(r, v) = "approved_deviation"
        PROVE  \E i \in DOMAIN deviations :
                 /\ deviations[i].id = r.id /\ deviations[i].rule = r.rule
                 /\ v = 0 \/ deviations[i].until = 0 \/ v < deviations[i].until
    <2>1. Deviates(r, v)
      BY <1>1 DEF Status
    <2>2. OnFile(r) # {} /\ (v = 0 \/ Latest(r).until = 0 \/ v < Latest(r).until)
      BY <2>1 DEF Deviates
    <2>3. \E i \in OnFile(r) : \A j \in OnFile(r) : j <= i
      <3>1. Len(deviations) \in Nat /\ DOMAIN deviations = 1..Len(deviations)
        BY DEF CorpusInv, DeviationsName
      <3>2. OnFile(r) \in SUBSET (1..Len(deviations))
        BY <3>1 DEF OnFile
      <3> DEFINE over == {Len(deviations) - i : i \in OnFile(r)}
      <3>3. over \in SUBSET Nat /\ over # {}
        BY <2>2, <3>1, <3>2
      <3>4. PICK n \in over : \A m \in over : n <= m
        <4> HIDE DEF over
        <4> QED
          BY <3>3, LeastExists
      <3>5. PICK i \in OnFile(r) : n = Len(deviations) - i
        OBVIOUS
      <3>6. ASSUME NEW j \in OnFile(r) PROVE j <= i
        <4>1. Len(deviations) - j \in over
          OBVIOUS
        <4>2. n <= Len(deviations) - j
          BY <3>4, <4>1
        <4>3. j \in 1..Len(deviations) /\ i \in 1..Len(deviations)
          BY <3>2, <3>5
        <4> QED
          BY <3>1, <3>5, <4>2, <4>3
      <3> QED
        BY <3>5, <3>6
    <2>4. PICK i : i = CHOOSE k \in OnFile(r) : \A j \in OnFile(r) : j <= k
      OBVIOUS
    <2>5. i \in OnFile(r) /\ Latest(r) = deviations[i]
      BY <2>3, <2>4 DEF Latest
    <2>6. i \in DOMAIN deviations /\ deviations[i].id = r.id
      BY <2>5 DEF OnFile
    <2>7. Names(deviations[i])
      BY <2>6 DEF CorpusInv, DeviationsName
    <2>8. deviations[i].rule = r.rule
      BY <2>6, <2>7 DEF Names
    <2> QED
      BY <2>2, <2>5, <2>6, <2>8
  <1> QED
    BY <1>1 DEF DeviationsStayPut

LEMMA CorpusInvHeard == ASSUME CorpusBounds, CorpusInv PROVE EveryLevelHeard
  <1>1. RowsApart(rows)
    BY DEF CorpusInv, CorpusRows
  <1>2. ASSUME NEW v \in Versions \cup {0} PROVE RowsApart(Filtered(v))
    <2>1. Pool \subseteq rows
      BY DEF Pool, Best, At
    <2>2. Filtered(v) \subseteq rows
      BY <2>1 DEF Filtered
    <2>3. IsFiniteSet(Filtered(v))
      BY <1>1, <2>2, FS_Subset DEF RowsApart
    <2> QED
      BY <1>1, <2>2, <2>3 DEF RowsApart
  <1>3. ASSUME NEW R, RowsApart(R), NEW k \in 1..Cardinality(rows)
        PROVE  /\ k >= Cardinality(LevelsOf(R)) => LevelsOf(Rank(R, k)) = LevelsOf(R)
               /\ Cardinality(Rank(R, k)) = IF Cardinality(R) < k THEN Cardinality(R) ELSE k
    <2>1. k \in Nat \ {0}
      <3>1. Cardinality(rows) \in Nat
        BY <1>1, FS_CardinalityType DEF RowsApart
      <3> QED
        BY <3>1
    <2>2. Cardinality(R) \in Nat
      BY <1>3, FS_CardinalityType DEF RowsApart
    <2>3. Fewer(Cardinality(R), k) = IF Cardinality(R) < k THEN Cardinality(R) ELSE k
      BY <2>1, <2>2 DEF Fewer
    <2> QED
      BY <1>3, <2>1, <2>3, RankHeard
  <1> QED
    BY <1>2, <1>3 DEF EveryLevelHeard

LEMMA HunksApart == NoHunkHidesAnother
  <1>1. ASSUME NEW x, NEW status, NEW hs \in SUBSET HunkHits
        PROVE  Verdict(x, status, hs) = "violated"
                 <=> \E h \in hs : Verdict(x, status, {h}) = "violated"
    <2>1. \A gs : Verdict(x, status, gs) = "violated"
                    <=> "violated" \in Votes(x, gs) /\ status = "active"
      BY DEF Verdict
    <2>2. \A gs : "violated" \in Votes(x, gs) <=> \E h \in gs : Vote(x, h) = "violated"
      BY DEF Votes
    <2> QED
      BY <2>1, <2>2
  <1> QED
    BY <1>1 DEF NoHunkHidesAnother

LEMMA CorpusInvTypes == ASSUME CorpusBounds, CorpusInv PROVE CorpusTypeOK
  <1>1. \A p \in Ingesters : ingest[p].stage \in {"idle", "insert", "list", "alert"}
    BY DEF CorpusInv, CorpusTypes, Handling
  <1> QED
    BY <1>1 DEF CorpusInv, CorpusTypeOK, CorpusRows, RowsApart, CorpusTypes, DeviationsName

(* However ingests of the corpus fall beside each other, fail or race an   *)
(* approval: a document no ingest of which was cut short or overlapped     *)
(* holds the rules of its last edition and no others, whoever was alerted  *)
(* finds them in force, a deviation excuses its own rule alone, every      *)
(* level is heard, and no hunk hides another.                              *)
THEOREM RulesHoldAsIngested ==
  CorpusSpec => [](RulesAsIngested /\ DeviationsStayPut /\ EveryLevelHeard /\ NoHunkHidesAnother)
  <1>1. CorpusInit => CorpusInv
    BY CorpusBounds, CorpusInitInv
  <1>2. CorpusInv /\ [CorpusNext]_corpusVars => CorpusInv'
    BY CorpusBounds, CorpusNextInv
  <1>3. CorpusInv => RulesAsIngested /\ DeviationsStayPut /\ EveryLevelHeard /\ NoHunkHidesAnother
    BY CorpusBounds, CorpusInvIngested, CorpusInvDeviations, CorpusInvHeard, HunksApart
  <1> QED
    BY <1>1, <1>2, <1>3, PTL DEF CorpusSpec

(* DocIngest.  A launch that is under way has documents to do.             *)
Launching == [step : {"off", "list", "read", "post"}, todo : SUBSET Papers,
              text : PaperTexts, prior : [Papers -> Nat]]
DocTypes ==
  /\ tree \in [Papers -> PaperTexts] /\ held \in [Papers -> PaperTexts]
  /\ driver \in [Drivers -> Launching]
  /\ \A l \in Drivers : /\ driver[l].step # "off" => driver[l].todo # {}
                        /\ driver[l].step = "off" => driver[l] = Off

(* No launch began beside another.                                         *)
OneLaunch ==
  "overlap" \notin slips =>
    \A l, k \in Drivers : driver[l] # Off /\ driver[k] # Off => l = k

(* What the corpus does not hold as the tree has it is on its way.         *)
OnItsWay(p) ==
  \/ held[p] = tree[p] \/ tree[p] = 0 \/ p \in due \/ p \in unseen
  \/ \E l \in Drivers : p \in driver[l].todo
ReadAsIs(l) == driver[l].step = "post" => driver[l].text = tree[Foremost(l)] \/ Foremost(l) \in due
NothingForgotten ==
  slips \cap {"overlap", "failed"} = {} =>
    /\ \A p \in Papers : OnItsWay(p)
    /\ \A l \in Drivers : ReadAsIs(l)

(* A launch knows the rules held of the documents it has yet to do.        *)
ListedRight(l) ==
  driver[l].step \in {"read", "post"} =>
    \A p \in driver[l].todo : driver[l].prior[p] = Weight[held[p]]
DropsKnown ==
  slips \cap {"overlap", "no_list"} = {} => ~quietDrop /\ \A l \in Drivers : ListedRight(l)

DocInv == DocTypes /\ OneLaunch /\ NothingForgotten /\ DropsKnown

LEMMA OffFacts ==
  Off \in Launching /\ Off.todo = {} /\ Off.step = "off" /\ 0 \in PaperTexts
  BY NoFileNoRules DEF Off, Launching

LEMMA DocInitInv == ASSUME DocInit PROVE DocInv
  <1>1. DocTypes
    BY OffFacts DEF DocInit, DocTypes
  <1>2. OneLaunch /\ NothingForgotten /\ DropsKnown
    BY OffFacts DEF DocInit, OneLaunch, NothingForgotten, OnItsWay, ReadAsIs, DropsKnown, ListedRight
  <1> QED
    BY <1>1, <1>2 DEF DocInv

(* What leaves the launches alone.                                         *)
LEMMA TreeChanges ==
  ASSUME DocInv, (\E p \in Papers : EditPaper(p)) \/ CommitTree \/ UNCHANGED docVars
  PROVE  DocInv'
  <1>1. /\ DocTypes /\ OneLaunch /\ NothingForgotten /\ DropsKnown
        /\ UNCHANGED <<held, driver, unseen, slips, quietDrop>>
    BY DEF DocInv, EditPaper, CommitTree, docVars
  <1>2. /\ tree' \in [Papers -> PaperTexts] /\ due \subseteq due'
        /\ \A p \in Papers : tree'[p] # tree[p] => p \in due'
    <2>1. ASSUME NEW p \in Papers, EditPaper(p)
          PROVE  /\ tree' \in [Papers -> PaperTexts] /\ due \subseteq due'
                 /\ \A q \in Papers : tree'[q] # tree[q] => q \in due'
      <3>1. PICK v \in PaperTexts : tree' = [tree EXCEPT ![p] = v]
        BY <2>1 DEF EditPaper
      <3>2. due' = due \cup {p}
        BY <2>1 DEF EditPaper
      <3> QED
        BY <1>1, <3>1, <3>2 DEF DocTypes
    <2>2. ASSUME CommitTree \/ UNCHANGED docVars PROVE UNCHANGED <<tree, due>>
      BY <2>2 DEF CommitTree, docVars
    <2> QED
      BY <1>1, <2>1, <2>2 DEF DocTypes
  <1>3. DocTypes' /\ OneLaunch'
    BY <1>1, <1>2 DEF DocTypes, OneLaunch
  <1>4. DropsKnown'
    BY <1>1 DEF DropsKnown, ListedRight
  <1>5. ASSUME NEW p \in Papers, OnItsWay(p) PROVE OnItsWay(p)'
    BY <1>1, <1>2, <1>5 DEF OnItsWay
  <1>6. ASSUME NEW l \in Drivers, ReadAsIs(l) PROVE ReadAsIs(l)'
    <2>1. PICK f : f = Foremost(l)
      OBVIOUS
    <2>2. Foremost(l)' = f
      BY <1>1, <2>1 DEF Foremost
    <2>3. driver[l].step = "post" => f \in Papers
      <3>1. driver[l].step = "post" => driver[l].todo # {} /\ driver[l].todo \subseteq Papers
        BY <1>1 DEF DocTypes, Launching
      <3> QED
        BY <2>1, <3>1 DEF Foremost
    <2> QED
      BY <1>1, <1>2, <1>6, <2>1, <2>2, <2>3 DEF ReadAsIs
  <1>7. NothingForgotten'
    BY <1>1, <1>5, <1>6 DEF NothingForgotten
  <1> QED
    BY <1>3, <1>4, <1>7 DEF DocInv

LEMMA LookForChangesKeeps ==
  ASSUME DocInv, NEW l \in Drivers, LookForChanges(l) PROVE DocInv'
  <1>1. /\ DocTypes /\ OneLaunch /\ NothingForgotten /\ DropsKnown
        /\ driver[l] = Off /\ due' = {} /\ unseen' = Papers \ Changed
        /\ slips' = slips \cup (IF \E k \in Drivers : driver[k] # Off THEN {"overlap"} ELSE {})
        /\ UNCHANGED <<tree, held, quietDrop>>
    BY DEF DocInv, LookForChanges
  <1>2. PICK step : step = IF Changed = {} THEN "off" ELSE "list"
    OBVIOUS
  <1>3. PICK first : first = [driver EXCEPT ![l].step = step]
    OBVIOUS
  <1>4. driver' = [first EXCEPT ![l].todo = Changed]
    BY <1>2, <1>3 DEF LookForChanges
  <1>5. PICK a : a = [Off EXCEPT !.step = step]
    OBVIOUS
  <1>6. PICK b : b = [a EXCEPT !.todo = Changed]
    OBVIOUS
  <1>7. Changed \subseteq Papers /\ step \in {"off", "list"} /\ (step = "off" <=> Changed = {})
    BY <1>2 DEF Changed
  <1>8. a \in Launching /\ a.step = step
    BY <1>5, <1>7, OffFacts DEF Launching
  <1>9. b \in Launching /\ b.step = step /\ b.todo = Changed /\ (step = "off" => b = Off)
    <2>1. b \in Launching /\ b.step = step /\ b.todo = Changed
      BY <1>6, <1>7, <1>8 DEF Launching
    <2>2. step = "off" => a = Off
      BY <1>5, OffFacts DEF Off
    <2>3. step = "off" => b = Off
      BY <1>6, <1>7, <2>2, OffFacts DEF Off
    <2> QED
      BY <2>1, <2>3
  <1>10. first \in [Drivers -> Launching] /\ first[l] = a /\ \A k \in Drivers : k # l => first[k] = driver[k]
    BY <1>1, <1>3, <1>5, <1>8 DEF DocTypes
  <1>11. driver' = [first EXCEPT ![l] = b]
    BY <1>4, <1>6, <1>10
  <1>12. driver' \in [Drivers -> Launching] /\ driver'[l] = b /\ \A k \in Drivers : k # l => driver'[k] = driver[k]
    BY <1>9, <1>10, <1>11
  <1>13. DocTypes'
    BY <1>1, <1>7, <1>9, <1>12 DEF DocTypes
  <1>14. ASSUME "overlap" \notin slips' PROVE \A k \in Drivers : driver[k] = Off /\ (k # l => driver'[k] = Off)
    BY <1>1, <1>12, <1>14
  <1>15. OneLaunch'
    BY <1>12, <1>14 DEF OneLaunch
  <1>16. NothingForgotten'
    <2>1. \A p \in Papers : OnItsWay(p)'
      BY <1>1, <1>9, <1>12 DEF OnItsWay
    <2>2. ASSUME "overlap" \notin slips', NEW k \in Drivers PROVE ReadAsIs(k)'
      <3>1. driver'[k].step # "post"
        BY <1>7, <1>9, <1>12, <1>14, <2>2, OffFacts
      <3> QED
        BY <3>1 DEF ReadAsIs
    <2> QED
      BY <2>1, <2>2 DEF NothingForgotten
  <1>17. DropsKnown'
    <2>1. ASSUME "overlap" \notin slips', NEW k \in Drivers PROVE ListedRight(k)'
      <3>1. driver'[k].step \notin {"read", "post"}
        BY <1>7, <1>9, <1>12, <1>14, <2>1, OffFacts
      <3> QED
        BY <3>1 DEF ListedRight
    <2>2. slips' \cap {"overlap", "no_list"} = {} => slips \cap {"overlap", "no_list"} = {}
      BY <1>1
    <2> QED
      BY <1>1, <2>1, <2>2 DEF DropsKnown
  <1> QED
    BY <1>13, <1>15, <1>16, <1>17 DEF DocInv

LEMMA ListCorpusKeeps ==
  ASSUME DocInv, NEW l \in Drivers, ListCorpus(l) PROVE DocInv'
  <1>1. /\ DocTypes /\ OneLaunch /\ NothingForgotten /\ DropsKnown
        /\ driver[l].step = "list" /\ slips \subseteq slips'
        /\ UNCHANGED <<tree, held, due, unseen, quietDrop>>
    BY DEF DocInv, ListCorpus
  <1>2. driver[l] \in Launching /\ driver[l] # Off
    BY <1>1, OffFacts DEF DocTypes
  <1>3. PICK req : /\ driver' = [driver EXCEPT ![l] = req] /\ req \in Launching
                   /\ req.step = "read" /\ req.todo = driver[l].todo
                   /\ \/ slips' = slips /\ \A p \in Papers : req.prior[p] = Weight[held[p]]
                      \/ "no_list" \in slips'
    <2>1. PICK given : given = [p \in Papers |-> Weight[held[p]]]
      OBVIOUS
    <2>2. given \in [Papers -> Nat] /\ \A p \in Papers : given[p] = Weight[held[p]]
      BY <1>1, <2>1, NoFileNoRules DEF DocTypes
    <2>3. PICK a : a = [driver[l] EXCEPT !.step = "read"]
      OBVIOUS
    <2>4. a \in Launching /\ a.step = "read" /\ a.todo = driver[l].todo
      BY <1>2, <2>3 DEF Launching
    <2>5. CASE driver' = [driver EXCEPT ![l].step = "read"] /\ slips' = slips \cup {"no_list"}
      <3>1. driver' = [driver EXCEPT ![l] = a]
        BY <2>3, <2>5
      <3> QED
        BY <2>4, <2>5, <3>1
    <2>6. CASE driver' = [driver EXCEPT ![l].step = "read",
                                        ![l].prior = [p \in Papers |-> Weight[held[p]]]]
               /\ slips' = slips
      <3>1. PICK b : b = [a EXCEPT !.prior = given]
        OBVIOUS
      <3>2. b \in Launching /\ b.step = "read" /\ b.todo = driver[l].todo /\ b.prior = given
        BY <2>2, <2>4, <3>1 DEF Launching
      <3>3. PICK first : first = [driver EXCEPT ![l].step = "read"]
        OBVIOUS
      <3>4. driver' = [first EXCEPT ![l].prior = given]
        BY <2>1, <2>6, <3>3
      <3>5. first \in [Drivers -> Launching] /\ first[l] = a
            /\ \A k \in Drivers : k # l => first[k] = driver[k]
        BY <1>1, <2>3, <2>4, <3>3 DEF DocTypes
      <3>6. driver' = [first EXCEPT ![l] = b]
        BY <3>1, <3>4, <3>5
      <3>7. driver' = [driver EXCEPT ![l] = b]
        <4>1. driver' \in [Drivers -> Launching] /\ driver'[l] = b
              /\ \A k \in Drivers : k # l => driver'[k] = driver[k]
          BY <3>2, <3>5, <3>6
        <4> QED
          BY <1>1, <4>1 DEF DocTypes
      <3> QED
        BY <2>2, <2>6, <3>2, <3>7
    <2> QED
      BY <2>5, <2>6 DEF ListCorpus
  <1>4. driver' \in [Drivers -> Launching] /\ driver'[l] = req
        /\ \A k \in Drivers : k # l => driver'[k] = driver[k]
    BY <1>1, <1>3 DEF DocTypes
  <1>5. DocTypes'
    BY <1>1, <1>3, <1>4 DEF DocTypes
  <1>6. OneLaunch'
    BY <1>1, <1>2, <1>4 DEF OneLaunch
  <1>7. NothingForgotten'
    <2>1. ASSUME NEW p \in Papers, OnItsWay(p) PROVE OnItsWay(p)'
      BY <1>1, <1>3, <1>4, <2>1 DEF OnItsWay
    <2>2. ASSUME NEW k \in Drivers, ReadAsIs(k) PROVE ReadAsIs(k)'
      <3>1. CASE k = l
        BY <1>3, <1>4, <3>1 DEF ReadAsIs
      <3>2. CASE k # l
        <4>1. driver'[k] = driver[k]
          BY <1>4, <3>2
        <4>2. Foremost(k)' = Foremost(k)
          BY <4>1 DEF Foremost
        <4> QED
          BY <1>1, <2>2, <4>1, <4>2 DEF ReadAsIs
      <3> QED
        BY <3>1, <3>2
    <2>3. slips' \cap {"overlap", "failed"} = {} => slips \cap {"overlap", "failed"} = {}
      BY <1>1
    <2> QED
      BY <1>1, <2>1, <2>2, <2>3 DEF NothingForgotten
  <1>8. DropsKnown'
    <2>1. ASSUME "no_list" \notin slips', slips \cap {"overlap", "no_list"} = {}, NEW k \in Drivers
          PROVE  ListedRight(k)'
      <3>1. CASE k = l
        <4>1. req.todo \subseteq Papers
          BY <1>3 DEF Launching
        <4> QED
          BY <1>1, <1>3, <1>4, <2>1, <3>1, <4>1 DEF ListedRight
      <3>2. CASE k # l
        BY <1>1, <1>4, <2>1, <3>2 DEF ListedRight, DropsKnown
      <3> QED
        BY <3>1, <3>2
    <2>2. slips' \cap {"overlap", "no_list"} = {} =>
            slips \cap {"overlap", "no_list"} = {} /\ "no_list" \notin slips'
      BY <1>1
    <2> QED
      BY <1>1, <2>1, <2>2 DEF DropsKnown
  <1> QED
    BY <1>5, <1>6, <1>7, <1>8 DEF DocInv

(* A launch done with the foremost document.                               *)
LEMMA PassedFacts ==
  ASSUME DocTypes, NEW l \in Drivers, driver[l].step \in {"read", "post"},
         NEW step \in {"list", "read", "post"}
  PROVE  /\ Foremost(l) \in driver[l].todo /\ Foremost(l) \in Papers
         /\ Passed(l, step) \in Launching
         /\ Passed(l, step).todo = driver[l].todo \ {Foremost(l)}
         /\ Passed(l, step).step = "off" => Passed(l, step) = Off
         /\ Passed(l, step).step # "off" => /\ Passed(l, step).todo # {}
                                            /\ Passed(l, step).step = step
                                            /\ Passed(l, step).prior = driver[l].prior
         /\ driver[l] # Off /\ driver[l] \in Launching
  <1>1. driver[l] \in Launching /\ driver[l].todo # {}
    BY DEF DocTypes
  <1>2. driver[l].todo \subseteq Papers
    BY <1>1 DEF Launching
  <1>3. PICK f : f = Foremost(l)
    OBVIOUS
  <1>4. f \in driver[l].todo /\ f \in Papers
    BY <1>1, <1>2, <1>3 DEF Foremost
  <1>5. driver[l] # Off
    BY OffFacts
  <1>6. CASE driver[l].todo = {f}
    <2>1. Passed(l, step) = Off
      BY <1>3, <1>6 DEF Passed
    <2> QED
      BY <1>1, <1>3, <1>4, <1>5, <1>6, <2>1, OffFacts
  <1>7. CASE driver[l].todo # {f}
    <2>1. PICK a : a = [driver[l] EXCEPT !.todo = @ \ {f}]
      OBVIOUS
    <2>2. PICK b : b = [a EXCEPT !.step = step]
      OBVIOUS
    <2>3. Passed(l, step) = b
      BY <1>3, <1>7, <2>1, <2>2 DEF Passed
    <2>4. a \in Launching /\ a.todo = driver[l].todo \ {f} /\ a.prior = driver[l].prior
      BY <1>1, <2>1 DEF Launching
    <2>5. b \in Launching /\ b.todo = driver[l].todo \ {f} /\ b.step = step
          /\ b.prior = driver[l].prior
      BY <2>2, <2>4 DEF Launching
    <2>6. driver[l].todo \ {f} # {}
      BY <1>4, <1>7
    <2> QED
      BY <1>1, <1>3, <1>4, <1>5, <2>3, <2>5, <2>6
  <1> QED
    BY <1>6, <1>7

LEMMA ReadPaperKeeps ==
  ASSUME DocInv, NEW l \in Drivers, ReadPaper(l) PROVE DocInv'
  <1>1. PICK f : f = Foremost(l)
    OBVIOUS
  <1>2. /\ DocTypes /\ OneLaunch /\ NothingForgotten /\ DropsKnown
        /\ driver[l].step = "read" /\ due' = due \ {f}
        /\ UNCHANGED <<tree, held, unseen, slips, quietDrop>>
    BY <1>1 DEF DocInv, ReadPaper
  <1>3. /\ f \in driver[l].todo /\ f \in Papers /\ driver[l] # Off /\ driver[l] \in Launching
        /\ Passed(l, "read") \in Launching
        /\ Passed(l, "read").todo = driver[l].todo \ {f}
        /\ Passed(l, "read").step = "off" => Passed(l, "read") = Off
        /\ Passed(l, "read").step # "off" => /\ Passed(l, "read").todo # {}
                                             /\ Passed(l, "read").step = "read"
                                             /\ Passed(l, "read").prior = driver[l].prior
    BY <1>1, <1>2, PassedFacts
  <1>4. PICK req : /\ driver' = [driver EXCEPT ![l] = req] /\ req \in Launching
                   /\ req.step = "off" => req = Off
                   /\ req.step # "off" => req.todo # {} /\ req.prior = driver[l].prior
                   /\ \/ tree[f] = 0 /\ req.todo = driver[l].todo \ {f} /\ req.step # "post"
                      \/ req.todo = driver[l].todo /\ req.step = "post" /\ req.text = tree[f]
    <2>1. CASE tree[f] = 0
      <3>1. PICK req : req = Passed(l, "read")
        OBVIOUS
      <3>2. driver' = [driver EXCEPT ![l] = req]
        BY <1>1, <2>1, <3>1 DEF ReadPaper
      <3> QED
        BY <1>3, <2>1, <3>1, <3>2
    <2>2. CASE tree[f] # 0
      <3>1. PICK a : a = [driver[l] EXCEPT !.step = "post"]
        OBVIOUS
      <3>2. PICK b : b = [a EXCEPT !.text = tree[f]]
        OBVIOUS
      <3>3. driver' = [driver EXCEPT ![l] = b]
        BY <1>1, <2>2, <3>1, <3>2 DEF ReadPaper
      <3>4. a \in Launching /\ a.step = "post" /\ a.todo = driver[l].todo /\ a.prior = driver[l].prior
        BY <1>3, <3>1 DEF Launching
      <3>5. tree[f] \in PaperTexts
        BY <1>2, <1>3 DEF DocTypes
      <3>6. b \in Launching /\ b.step = "post" /\ b.todo = driver[l].todo
            /\ b.prior = driver[l].prior /\ b.text = tree[f]
        BY <3>2, <3>4, <3>5 DEF Launching
      <3> QED
        BY <1>3, <3>3, <3>6
    <2> QED
      BY <2>1, <2>2
  <1>5. driver' \in [Drivers -> Launching] /\ driver'[l] = req
        /\ \A k \in Drivers : k # l => driver'[k] = driver[k]
    BY <1>2, <1>4 DEF DocTypes
  <1>6. DocTypes'
    BY <1>2, <1>4, <1>5 DEF DocTypes
  <1>7. OneLaunch'
    BY <1>2, <1>3, <1>5 DEF OneLaunch
  <1>8. NothingForgotten'
    <2>1. ASSUME NEW p \in Papers, OnItsWay(p) PROVE OnItsWay(p)'
      <3>1. CASE p = f
        BY <1>2, <1>3, <1>4, <1>5, <3>1 DEF OnItsWay
      <3>2. CASE p # f
        BY <1>2, <1>4, <1>5, <2>1, <3>2 DEF OnItsWay
      <3> QED
        BY <3>1, <3>2
    <2>2. ASSUME "overlap" \notin slips, NEW k \in Drivers PROVE ReadAsIs(k)'
      <3>1. CASE k = l
        <4>1. driver'[l].step = "post" => driver'[l].todo = driver[l].todo /\ driver'[l].text = tree[f]
          BY <1>4, <1>5
        <4>2. driver'[l].todo = driver[l].todo => Foremost(l)' = f
          BY <1>1 DEF Foremost
        <4> QED
          BY <1>2, <3>1, <4>1, <4>2 DEF ReadAsIs
      <3>2. CASE k # l
        <4>1. driver'[k] = Off
          BY <1>2, <1>3, <1>5, <2>2, <3>2 DEF OneLaunch
        <4> QED
          BY <4>1, OffFacts DEF ReadAsIs
      <3> QED
        BY <3>1, <3>2
    <2> QED
      BY <1>2, <2>1, <2>2 DEF NothingForgotten
  <1>9. DropsKnown'
    <2>1. ASSUME NEW k \in Drivers, ListedRight(k) PROVE ListedRight(k)'
      <3>1. CASE k = l
        <4>1. \A p \in driver[l].todo : driver[l].prior[p] = Weight[held[p]]
          BY <1>2, <2>1, <3>1 DEF ListedRight
        <4>2. driver'[l].step # "off" => driver'[l].prior = driver[l].prior
              /\ driver'[l].todo \subseteq driver[l].todo
          BY <1>4, <1>5
        <4> QED
          BY <1>2, <3>1, <4>1, <4>2 DEF ListedRight
      <3>2. CASE k # l
        BY <1>2, <1>5, <2>1, <3>2 DEF ListedRight
      <3> QED
        BY <3>1, <3>2
    <2> QED
      BY <1>2, <2>1 DEF DropsKnown
  <1> QED
    BY <1>6, <1>7, <1>8, <1>9 DEF DocInv

LEMMA PostPaperKeeps ==
  ASSUME DocInv, NEW l \in Drivers, PostPaper(l) PROVE DocInv'
  <1>1. PICK f : f = Foremost(l)
    OBVIOUS
  <1>2. PICK req : req = Passed(l, "read")
    OBVIOUS
  <1>3. /\ DocTypes /\ OneLaunch /\ NothingForgotten /\ DropsKnown
        /\ driver[l].step = "post" /\ held' = [held EXCEPT ![f] = driver[l].text]
        /\ driver' = [driver EXCEPT ![l] = req]
        /\ quietDrop' = (quietDrop \/ /\ Weight[driver[l].text] < Weight[held[f]]
                                      /\ Weight[driver[l].text] >= driver[l].prior[f])
        /\ UNCHANGED <<tree, due, unseen, slips>>
    BY <1>1, <1>2 DEF DocInv, PostPaper
  <1>4. /\ f \in driver[l].todo /\ f \in Papers /\ driver[l] # Off /\ driver[l] \in Launching
        /\ req \in Launching /\ req.todo = driver[l].todo \ {f}
        /\ req.step = "off" => req = Off
        /\ req.step # "off" => req.todo # {} /\ req.step = "read" /\ req.prior = driver[l].prior
    BY <1>1, <1>2, <1>3, PassedFacts
  <1>5. driver' \in [Drivers -> Launching] /\ driver'[l] = req
        /\ \A k \in Drivers : k # l => driver'[k] = driver[k]
    BY <1>3, <1>4 DEF DocTypes
  <1>6. driver[l].text \in PaperTexts
    BY <1>4 DEF Launching
  <1>7. held' \in [Papers -> PaperTexts] /\ held'[f] = driver[l].text
        /\ \A p \in Papers : p # f => held'[p] = held[p]
    BY <1>3, <1>4, <1>6 DEF DocTypes
  <1>8. DocTypes'
    BY <1>3, <1>4, <1>5, <1>7 DEF DocTypes
  <1>9. OneLaunch'
    BY <1>3, <1>4, <1>5 DEF OneLaunch
  <1>10. ASSUME "overlap" \notin slips, NEW k \in Drivers, k # l PROVE driver'[k] = Off
    BY <1>3, <1>4, <1>5, <1>10 DEF OneLaunch
  <1>11. NothingForgotten'
    <2>1. ASSUME slips \cap {"overlap", "failed"} = {}, NEW p \in Papers PROVE OnItsWay(p)'
      <3>1. CASE p = f
        <4>1. driver[l].text = tree[f] \/ f \in due
          BY <1>1, <1>3, <2>1 DEF NothingForgotten, ReadAsIs
        <4> QED
          BY <1>3, <1>7, <3>1, <4>1 DEF OnItsWay
      <3>2. CASE p # f
        <4>1. OnItsWay(p)
          BY <1>3, <2>1 DEF NothingForgotten
        <4> QED
          BY <1>3, <1>4, <1>5, <1>7, <3>2, <4>1 DEF OnItsWay
      <3> QED
        BY <3>1, <3>2
    <2>2. ASSUME "overlap" \notin slips, NEW k \in Drivers PROVE ReadAsIs(k)'
      <3>1. driver'[k].step # "post"
        BY <1>4, <1>5, <1>10, <2>2, OffFacts
      <3> QED
        BY <3>1 DEF ReadAsIs
    <2> QED
      BY <1>3, <2>1, <2>2 DEF NothingForgotten
  <1>12. DropsKnown'
    <2>1. ASSUME slips \cap {"overlap", "no_list"} = {} PROVE ~quietDrop'
      <3>1. ListedRight(l) /\ ~quietDrop
        BY <1>3, <2>1 DEF DropsKnown
      <3>2. driver[l].prior[f] = Weight[held[f]]
        BY <1>3, <1>4, <3>1 DEF ListedRight
      <3>3. Weight[held[f]] \in Nat /\ Weight[driver[l].text] \in Nat
        BY <1>3, <1>4, <1>6, NoFileNoRules DEF DocTypes
      <3>4. ~(/\ Weight[driver[l].text] < Weight[held[f]]
              /\ Weight[driver[l].text] >= driver[l].prior[f])
        BY <3>2, <3>3
      <3> QED
        BY <1>3, <3>1, <3>4, Zenon
    <2>2. ASSUME slips \cap {"overlap", "no_list"} = {}, NEW k \in Drivers PROVE ListedRight(k)'
      <3>1. CASE k = l
        <4>1. ListedRight(l) /\ driver[l].todo \subseteq Papers
          BY <1>3, <1>4, <2>2 DEF DropsKnown, Launching
        <4>2. \A p \in driver[l].todo : driver[l].prior[p] = Weight[held[p]]
          BY <1>3, <4>1 DEF ListedRight
        <4>3. \A p \in req.todo : req.step # "off" => req.prior[p] = Weight[held'[p]]
          BY <1>4, <1>7, <4>1, <4>2
        <4> QED
          BY <1>5, <3>1, <4>3 DEF ListedRight
      <3>2. CASE k # l
        BY <1>10, <2>2, <3>2, OffFacts DEF ListedRight
      <3> QED
        BY <3>1, <3>2
    <2> QED
      BY <1>3, <2>1, <2>2 DEF DropsKnown
  <1> QED
    BY <1>8, <1>9, <1>11, <1>12 DEF DocInv

LEMMA PostFailsKeeps ==
  ASSUME DocInv, NEW l \in Drivers, PostFails(l) PROVE DocInv'
  <1>1. PICK f : f = Foremost(l)
    OBVIOUS
  <1>2. PICK req : req = Passed(l, "read")
    OBVIOUS
  <1>3. /\ DocTypes /\ OneLaunch /\ NothingForgotten /\ DropsKnown
        /\ driver[l].step = "post" /\ driver' = [driver EXCEPT ![l] = req]
        /\ slips' = slips \cup {"failed"}
        /\ UNCHANGED <<tree, held, due, unseen, quietDrop>>
    BY <1>2 DEF DocInv, PostFails
  <1>4. /\ f \in driver[l].todo /\ driver[l] # Off /\ driver[l] \in Launching
        /\ req \in Launching /\ req.todo = driver[l].todo \ {f}
        /\ req.step = "off" => req = Off
        /\ req.step # "off" => req.todo # {} /\ req.step = "read" /\ req.prior = driver[l].prior
    BY <1>1, <1>2, <1>3, PassedFacts
  <1>5. driver' \in [Drivers -> Launching] /\ driver'[l] = req
        /\ \A k \in Drivers : k # l => driver'[k] = driver[k]
    BY <1>3, <1>4 DEF DocTypes
  <1>6. DocTypes' /\ OneLaunch'
    BY <1>3, <1>4, <1>5 DEF DocTypes, OneLaunch
  <1>7. NothingForgotten'
    BY <1>3 DEF NothingForgotten
  <1>8. DropsKnown'
    <2>1. ASSUME NEW k \in Drivers, ListedRight(k) PROVE ListedRight(k)'
      <3>1. CASE k = l
        <4>1. \A p \in driver[l].todo : driver[l].prior[p] = Weight[held[p]]
          BY <1>3, <2>1, <3>1 DEF ListedRight
        <4> QED
          BY <1>3, <1>4, <1>5, <3>1, <4>1 DEF ListedRight
      <3>2. CASE k # l
        BY <1>3, <1>5, <2>1, <3>2 DEF ListedRight
      <3> QED
        BY <3>1, <3>2
    <2>2. slips' \cap {"overlap", "no_list"} = {} => slips \cap {"overlap", "no_list"} = {}
      BY <1>3
    <2> QED
      BY <1>3, <2>1, <2>2 DEF DropsKnown
  <1> QED
    BY <1>6, <1>7, <1>8 DEF DocInv

LEMMA DocNextInv == ASSUME DocInv, [DocNext]_docVars PROVE DocInv'
  BY TreeChanges, LookForChangesKeeps, ListCorpusKeeps, ReadPaperKeeps, PostPaperKeeps,
     PostFailsKeeps DEF DocNext

LEMMA DocInvProperties == ASSUME DocInv PROVE CorpusFollowsTree /\ DropsAreTold
  <1>1. CorpusFollowsTree
    BY OffFacts DEF DocInv, NothingForgotten, OnItsWay, CorpusFollowsTree
  <1>2. DropsAreTold
    BY DEF DocInv, DropsKnown, DropsAreTold
  <1> QED
    BY <1>1, <1>2

(* However launches of Tommy fall among edits and commits: when every      *)
(* launch is done, none overlapped and no POST failed, the corpus holds    *)
(* each document as the tree has it but those edited since or that git     *)
(* found unchanged; and a document that loses rules is warned of unless    *)
(* launches overlapped or the corpus could not be listed.                  *)
THEOREM TheCorpusFollowsTheTree == DocSpec => [](CorpusFollowsTree /\ DropsAreTold)
  <1>1. DocInit => DocInv
    BY DocInitInv
  <1>2. DocInv /\ [DocNext]_docVars => DocInv'
    BY DocNextInv
  <1>3. DocInv => CorpusFollowsTree /\ DropsAreTold
    BY DocInvProperties
  <1> QED
    BY <1>1, <1>2, <1>3, PTL DEF DocSpec

(* What the memory group's run checks of the corpus: it holds and checks   *)
(* the rules as they were last ingested, and is sent what changed.         *)
THEOREM TheCorpusIsSound == MemorySpec => []CorpusSound
  <1>1. MemoryInit => CorpusInit /\ DocInit
    BY DEF MemoryInit
  <1>2. ASSUME [MemoryNext]_<<part, reconcileVars, corpusVars, sleepVars, episodeVars,
                              vaultVars, migrationVars, rerankVars, configVars, docVars,
                              provisionVars>>
        PROVE  [CorpusNext]_corpusVars /\ [DocNext]_docVars
    BY <1>2 DEF MemoryNext
  <1>3. MemorySpec => CorpusSpec /\ DocSpec
    BY <1>1, <1>2, PTL DEF MemorySpec, CorpusSpec, DocSpec
  <1>4. (RulesAsIngested /\ DeviationsStayPut /\ EveryLevelHeard /\ NoHunkHidesAnother)
        /\ (CorpusFollowsTree /\ DropsAreTold) => CorpusSound
    BY DEF CorpusSound
  <1> QED
    BY <1>3, <1>4, RulesHoldAsIngested, TheCorpusFollowsTheTree, PTL
-----------------------------------------------------------------------------
(* Reconcile: retries, starts and faults stay within their bounds.         *)
WalkTallies ==
  /\ walkLock \in Walkers \cup {Nobody} /\ \A w \in Walkers : walk[w].tries <= MaxRetries
  /\ starts \in 0..MaxStarts /\ troubles \in 0..MaxTroubles /\ liveWrites \in 0..MaxLiveWrites

LEMMA BoundsOfReconcile ==
  MaxRetries \in Nat /\ MaxStarts \in Nat /\ MaxTroubles \in Nat /\ MaxLiveWrites \in Nat
  BY ReconcileBounds

LEMMA WalkTalliesInit == ASSUME ReconcileInit PROVE WalkTallies
  <1>1. \A w \in Walkers : walk[w].tries = 0
    BY DEF ReconcileInit, AtRest
  <1>2. walkLock \in Walkers \cup {Nobody} /\ starts = 0 /\ troubles = 0 /\ liveWrites = 0
    BY DEF ReconcileInit
  <1> QED
    BY <1>1, <1>2, BoundsOfReconcile DEF WalkTallies

(* A walker that exits has tried nothing.                                  *)
LEMMA ExitTallies ==
  ASSUME ReconcileTypes, WalkTallies, NEW w \in Walkers, Exit(w)
  PROVE  walkLock' \in Walkers \cup {Nobody} /\ \A u \in Walkers : walk'[u].tries <= MaxRetries
  BY BoundsOfReconcile DEF ReconcileTypes, WalkTallies, Exit, AtRest

LEMMA WalkerTallies ==
  ASSUME ReconcileTypes, WalkTallies, NEW w \in Walkers,
         StartWalk(w) \/ ReadPage(w) \/ HandleFact(w) \/ CutPage(w) \/ CommitChunk(w)
         \/ Contend(w) \/ Leave(w) \/ KillWalk(w)
  PROVE  WalkTallies'
  <1> DEFINE InBounds == walkLock' \in Walkers \cup {Nobody}
                         /\ \A u \in Walkers : walk'[u].tries <= MaxRetries
  <1>0. /\ DOMAIN walk = Walkers /\ \A u \in Walkers : walk[u].tries \in Nat
        /\ walk[w] \in WalkType
    BY DEF ReconcileTypes, WalkType
  <1>1. CASE StartWalk(w)
    <2>1. PICK q : /\ walk' = [walk EXCEPT ![w] = q]
                   /\ q \in {[AtRest EXCEPT !.stage = "page"],
                            [AtRest EXCEPT !.stage = "page", !.cursor = mark.cursor]}
      BY <1>1 DEF StartWalk
    <2>6. q.tries = 0
      BY <2>1 DEF AtRest
    <2>3. \A u \in Walkers : walk'[u].tries = IF u = w THEN 0 ELSE walk[u].tries
      BY <1>0, <2>1, <2>6
    <2>4. walkLock' = w
      BY <1>1 DEF StartWalk
    <2>5. InBounds
      BY <2>3, <2>4, BoundsOfReconcile DEF WalkTallies
    <2>2. starts' \in 0..MaxStarts /\ troubles' = troubles /\ liveWrites' = liveWrites
      BY <1>1, BoundsOfReconcile DEF StartWalk, WalkTallies
    <2> QED
      BY <2>2, <2>5 DEF WalkTallies
  <1>2. CASE ReadPage(w)
    <2>1. InBounds
      <3>1. CASE Exit(w)
        BY <3>1, ExitTallies
      <3>2. CASE ~Exit(w)
        BY <1>0, <1>2, <3>2 DEF ReadPage, WalkTallies, WalkType
      <3> QED
        BY <3>1, <3>2
    <2>2. UNCHANGED <<starts, troubles, liveWrites>>
      BY <1>2 DEF ReadPage
    <2> QED
      BY <2>1, <2>2 DEF WalkTallies
  <1>3. CASE HandleFact(w) \/ CutPage(w)
    <2>1. InBounds
      BY <1>0, <1>3 DEF HandleFact, CutPage, WalkTallies, WalkType
    <2>2. UNCHANGED <<starts, troubles, liveWrites>>
      BY <1>3 DEF HandleFact, CutPage
    <2> QED
      BY <2>1, <2>2 DEF WalkTallies
  <1>4. CASE CommitChunk(w)
    <2>1. InBounds
      BY <1>0, <1>4, BoundsOfReconcile DEF CommitChunk, WalkTallies
    <2>2. UNCHANGED <<starts, troubles, liveWrites>>
      BY <1>4 DEF CommitChunk
    <2> QED
      BY <2>1, <2>2 DEF WalkTallies
  <1>5. CASE Contend(w)
    <2>1. InBounds
      <3>1. CASE Exit(w)
        BY <3>1, ExitTallies
      <3>2. CASE ~Exit(w)
        <4>1. ~(walk[w].tries + 1 > MaxRetries) /\ walkLock' = walkLock
          BY <1>5, <3>2 DEF Contend
        <4>2. \A u \in Walkers : walk'[u].tries = IF u = w THEN walk[w].tries + 1 ELSE walk[u].tries
          BY <1>0, <1>5, <4>1 DEF Contend, WalkType
        <4> QED
          BY <1>0, <4>1, <4>2, BoundsOfReconcile DEF WalkTallies
      <3> QED
        BY <3>1, <3>2
    <2>2. troubles' \in 0..MaxTroubles /\ starts' = starts /\ liveWrites' = liveWrites
      BY <1>5, BoundsOfReconcile DEF Contend, WalkTallies
    <2> QED
      BY <2>1, <2>2 DEF WalkTallies
  <1>6. CASE Leave(w) \/ KillWalk(w)
    <2>1. InBounds
      BY <1>6, ExitTallies DEF Leave, KillWalk
    <2>2. troubles' \in 0..MaxTroubles /\ starts' = starts /\ liveWrites' = liveWrites
      BY <1>6, BoundsOfReconcile DEF Leave, KillWalk, WalkTallies
    <2> QED
      BY <2>1, <2>2 DEF WalkTallies
  <1> QED
    BY <1>1, <1>2, <1>3, <1>4, <1>5, <1>6

LEMMA WalkTalliesKept ==
  ASSUME ReconcileTypes, WalkTallies, [ReconcileNext]_reconcileVars
  PROVE  WalkTallies'
  <1>1. CASE LiveWrite
    <2>1. liveWrites' \in 0..MaxLiveWrites /\ UNCHANGED <<walkLock, walk, starts, troubles>>
      BY <1>1, BoundsOfReconcile DEF LiveWrite, WalkTallies
    <2> QED
      BY <2>1 DEF WalkTallies
  <1>2. CASE UNCHANGED reconcileVars
    BY <1>2 DEF WalkTallies, reconcileVars
  <1> QED
    BY <1>1, <1>2, WalkerTallies DEF ReconcileNext

LEMMA ReconcileTyped == ASSUME ReconcileInv, WalkTallies PROVE ReconcileTypeOK
  <1> DEFINE Bounded == [stage : {"out", "page", "facts", "commit"}, page : SUBSET Places,
        cursor : Places \cup {Top}, done : SUBSET Places,
        write : SUBSET (Places \X {"closed", "expired"}), tries : 0..MaxRetries]
  <1>1. ReconcileTypes
    BY DEF ReconcileInv
  <1>2. ASSUME NEW w \in Walkers PROVE walk[w] \in Bounded
    <2>1. walk[w] \in WalkType /\ walk[w].tries <= MaxRetries
      BY <1>1 DEF ReconcileTypes, WalkTallies
    <2>2. walk[w].tries \in 0..MaxRetries
      BY <2>1, BoundsOfReconcile DEF WalkType
    <2> QED
      BY <2>1, <2>2 DEF WalkType
  <1>3. walk \in [Walkers -> Bounded]
    <2>1. walk \in [Walkers -> WalkType]
      BY <1>1 DEF ReconcileTypes
    <2> HIDE DEF Bounded
    <2> QED
      BY <1>2, <2>1
  <1> QED
    BY <1>1, <1>3 DEF ReconcileTypes, WalkTallies, ReconcileTypeOK

-----------------------------------------------------------------------------
(* Rerank: the boot thread takes at most two samples.                      *)
BootTallies ==
  /\ loaded \in BOOLEAN /\ reloading \in BOOLEAN /\ Len(measured) <= 2
  /\ booting = "first" => Len(measured) = 0
  /\ booting = "second" => Len(measured) <= 1

LEMMA BootTalliesInit == ASSUME RerankInit PROVE BootTallies
  <1>1. loaded \in BOOLEAN /\ reloading \in BOOLEAN
    BY DEF RerankInit
  <1>2. Len(measured) = 0
    <2>1. measured = <<>> /\ Len(<<>>) = 0
      BY DEF RerankInit
    <2> QED
      BY <2>1
  <1>3. Len(measured) <= 2 /\ Len(measured) <= 1
    BY <1>2
  <1> QED
    BY <1>1, <1>2, <1>3 DEF BootTallies

LEMMA BootTalliesKept ==
  ASSUME RerankTypes, BootTallies, [RerankNext]_rerankVars PROVE BootTallies'
  <1>1. CASE TakeSample
    <2>1. PICK cost \in Samples : measured' = Append(measured, cost)
      BY <1>1 DEF TakeSample
    <2>2. measured \in Seq(Samples)
      BY DEF RerankTypes
    <2>3. Len(measured') = Len(measured) + 1 /\ Len(measured) \in Nat
      BY <2>1, <2>2
    <2>4. /\ booting \in {"first", "second"} /\ Len(measured) <= 1
          /\ booting = "first" => Len(measured) = 0
      BY <1>1 DEF TakeSample, BootTallies
    <2>5. (booting' = "second" /\ booting = "first") \/ booting' = "warm"
      BY <1>1 DEF TakeSample
    <2>6. loaded' = TRUE /\ reloading' = reloading
      BY <1>1 DEF TakeSample
    <2> QED
      BY <2>3, <2>4, <2>5, <2>6 DEF BootTallies
  <1>2. CASE WarmUp \/ KeepAlive \/ Redownloaded
    <2>1. measured' = measured /\ (booting' = booting \/ booting' = "publish")
      BY <1>2 DEF WarmUp, KeepAlive, Redownloaded
    <2>2. loaded' \in BOOLEAN /\ reloading' \in BOOLEAN
      BY <1>2 DEF WarmUp, KeepAlive, Redownloaded, BootTallies
    <2> QED
      BY <2>1, <2>2 DEF BootTallies
  <1>3. CASE PrewarmFails \/ Publish \/ Raise \/ UNCHANGED rerankVars
    <2>1. /\ UNCHANGED <<measured, loaded, reloading>>
          /\ booting' \in {booting, "failed", "raise", "over"}
      BY <1>3 DEF PrewarmFails, Publish, Raise, rerankVars
    <2> QED
      BY <2>1 DEF BootTallies
  <1>4. CASE \E q \in Askers : \/ \E n \in Sizes : AskRanked(q, n)
                               \/ TakeCap(q) \/ LoadForAsk(q) \/ RerankScore(q) \/ AskFails(q)
    <2>1. /\ measured' = measured /\ booting' = booting
          /\ loaded' \in {loaded, TRUE, FALSE} /\ reloading' \in {reloading, TRUE}
      BY <1>4 DEF AskRanked, TakeCap, LoadForAsk, RerankScore, AskFails
    <2>2. loaded' \in BOOLEAN /\ reloading' \in BOOLEAN
      BY <2>1 DEF BootTallies
    <2> QED
      BY <2>1, <2>2 DEF BootTallies
  <1> QED
    BY <1>1, <1>2, <1>3, <1>4 DEF RerankNext

(* _effective_cap is within its clamps.                                    *)
LEMMA CapClamped ==
  ASSUME RerankBounds, NEW cost \in Nat \ {0} PROVE DerivedCap(cost) \in MinCap..MaxCap
  <1>1. MinCap \in Nat /\ MaxCap \in Nat /\ Budget \in Nat /\ MinCap <= MaxCap
    BY DEF RerankBounds
  <1>2. PICK n \in Int : n = Budget \div cost
    BY <1>1
  <1>3. DerivedCap(cost) = AtLeast(MinCap, AtMost(MaxCap, n))
    BY <1>2 DEF DerivedCap
  <1> QED
    BY <1>1, <1>3 DEF AtLeast, AtMost

LEMMA RerankTyped ==
  ASSUME RerankBounds, RerankInv, BootTallies PROVE RerankTypeOK
  <1>1. RerankTypes /\ CapMeasured
    BY DEF RerankInv
  <1>2. derived \in {NoCap} \cup MinCap..MaxCap
    <2>1. ASSUME derived # NoCap PROVE derived \in MinCap..MaxCap
      <3>1. measured # <<>> /\ derived = DerivedCap(BestSample)
        BY <1>1, <2>1 DEF CapMeasured
      <3>2. BestSample \in Nat \ {0}
        BY <1>1, <3>1, BestOfSamples DEF RerankTypes
      <3> QED
        BY <3>1, <3>2, CapClamped
    <2> QED
      BY <2>1
  <1>3. \A q \in Askers : asks[q].at \in AskStages
    BY <1>1 DEF RerankTypes, Ask
  <1>4. booting \in BootStages /\ ready \in BOOLEAN
    BY <1>1 DEF RerankTypes
  <1> QED
    BY <1>2, <1>3, <1>4 DEF BootStages, AskStages, BootTallies, RerankTypeOK

-----------------------------------------------------------------------------
(* DocIngest: what git keeps are trees that were, and the sets of papers   *)
(* hold papers.                                                            *)
DocTallies ==
  /\ history \in Seq([Papers -> PaperTexts]) /\ 1 <= Len(history) /\ Len(history) <= MaxCommits
  /\ due \in SUBSET Papers /\ unseen \in SUBSET Papers /\ quietDrop \in BOOLEAN
  /\ slips \in SUBSET {"overlap", "failed", "no_list"}

LEMMA DocTalliesInit == ASSUME DocInit PROVE DocTallies
  <1>1. tree \in [Papers -> PaperTexts] /\ history = <<tree>>
    BY NoFileNoRules DEF DocInit
  <1>2. Len(history) = 1 /\ 1 <= MaxCommits
    BY <1>1, DocBounds
  <1>3. history \in Seq([Papers -> PaperTexts]) /\ 1 <= Len(history) /\ Len(history) <= MaxCommits
    BY <1>1, <1>2
  <1>4. quietDrop \in BOOLEAN
    BY DEF DocInit
  <1>5. due = {} /\ unseen = {} /\ slips = {}
    BY DEF DocInit
  <1> QED
    BY <1>3, <1>4, <1>5 DEF DocTallies

LEMMA DocTalliesKept ==
  ASSUME DocTypes, DocTallies, [DocNext]_docVars PROVE DocTallies'
  <1>1. CASE \E p \in Papers : EditPaper(p)
    BY <1>1 DEF EditPaper, DocTallies
  <1>2. CASE CommitTree
    <2>1. history' = Append(history, tree) /\ Len(history) < MaxCommits
          /\ UNCHANGED <<due, unseen, slips, quietDrop>>
      BY <1>2 DEF CommitTree
    <2>2. tree \in [Papers -> PaperTexts] /\ history \in Seq([Papers -> PaperTexts])
      BY DEF DocTypes, DocTallies
    <2>3. /\ history' \in Seq([Papers -> PaperTexts]) /\ Len(history') = Len(history) + 1
          /\ Len(history) \in Nat
      BY <2>1, <2>2
    <2>4. 1 <= Len(history') /\ Len(history') <= MaxCommits
      BY <2>1, <2>3, DocBounds
    <2> QED
      BY <2>1, <2>3, <2>4 DEF DocTallies
  <1>3. CASE \E l \in Drivers : LookForChanges(l)
    <2>1. /\ history' = history /\ due' = {} /\ unseen' = Papers \ Changed /\ quietDrop' = quietDrop
          /\ slips' \in {slips, slips \cup {"overlap"}}
      BY <1>3 DEF LookForChanges
    <2> QED
      BY <2>1 DEF DocTallies
  <1>4. CASE \E l \in Drivers : ListCorpus(l) \/ ReadPaper(l) \/ PostFails(l)
    <2>1. /\ UNCHANGED <<history, unseen, quietDrop>> /\ due' \subseteq due
          /\ slips' \subseteq slips \cup {"no_list", "failed"}
      BY <1>4 DEF ListCorpus, ReadPaper, PostFails
    <2> QED
      BY <2>1 DEF DocTallies
  <1>5. CASE \E l \in Drivers : PostPaper(l)
    <2>1. UNCHANGED <<history, due, unseen, slips>>
      BY <1>5 DEF PostPaper
    <2>2. quietDrop' \in BOOLEAN
      <3>1. PICK l \in Drivers : PostPaper(l)
        BY <1>5
      <3>2. PICK b \in BOOLEAN : b = (/\ Weight[driver[l].text] < Weight[held[Foremost(l)]]
                                      /\ Weight[driver[l].text] >= driver[l].prior[Foremost(l)])
        OBVIOUS
      <3>3. quietDrop' = (quietDrop \/ b)
        BY <3>1, <3>2 DEF PostPaper
      <3> QED
        BY <3>3 DEF DocTallies
    <2> QED
      BY <2>1, <2>2 DEF DocTallies
  <1>6. CASE UNCHANGED docVars
    BY <1>6 DEF DocTallies, docVars
  <1> QED
    BY <1>1, <1>2, <1>3, <1>4, <1>5, <1>6 DEF DocNext

LEMMA DocTyped == ASSUME DocInv, DocTallies PROVE DocTypeOK
  <1>1. DocTypes
    BY DEF DocInv
  <1>2. \A l \in Drivers : /\ driver[l].step \in {"off", "list", "read", "post"}
                           /\ driver[l].todo \subseteq Papers
    BY <1>1 DEF DocTypes, Launching
  <1>3. Len(history) \in 1..MaxCommits
    BY DocBounds DEF DocTallies
  <1> QED
    BY <1>1, <1>2, <1>3 DEF DocTypes, DocTallies, DocTypeOK

-----------------------------------------------------------------------------
(* Consolidation: every row has an id of its own, the ids are those given  *)
(* so far, and what the passes count are runs begun and ids of facts.      *)
RowIdsGiven ==
  /\ \A r \in memory : r.id \in 1..lastRow
  /\ \A i \in 1..lastRow : \E r \in memory : r.id = i
  /\ \A r, q \in memory : r.id = q.id => r = q

PassesCounted ==
  /\ runs <= MaxRuns /\ raced \subseteq 1..runs
  /\ \A p \in Passes : pass[p] # Awake => pass[p].run \in 1..runs
  /\ \A p \in Passes : IdsOf(pass[p].read) \subseteq IdsOf(Facts)
  /\ written \subseteq IdsOf(Facts) /\ excused \subseteq IdsOf(Facts)

LEMMA SleepTalliesInit == ASSUME SleepBounds, SleepInit PROVE RowIdsGiven /\ PassesCounted
  <1>1. RowIdsGiven
    BY DEF SleepInit, RowIdsGiven
  <1>2. runs = 0 /\ runs <= MaxRuns
    BY DEF SleepInit, SleepBounds
  <1>3. \A p \in Passes : pass[p] = Awake /\ pass[p].read = {}
    BY DEF SleepInit, Awake
  <1> QED
    BY <1>1, <1>2, <1>3 DEF SleepInit, PassesCounted, IdsOf

(* A row is added, or rows end: the ids stay those given, one to a row.    *)
LEMMA RowJoins ==
  ASSUME SleepTypes, RowIdsGiven, NEW row, memory' = memory \cup {row},
         row.id = lastRow + 1, lastRow' = lastRow + 1
  PROVE  RowIdsGiven' /\ IdsOf(Facts) \subseteq IdsOf(Facts)'
  <1>1. lastRow \in Nat /\ lastRow' \in Nat
    BY DEF SleepTypes
  <1>2. \A r \in memory : r.id \in 1..lastRow /\ r.id # row.id
    BY <1>1 DEF RowIdsGiven
  <1>3. \A r \in memory' : r.id \in 1..lastRow'
    BY <1>1, <1>2
  <1>4. \A i \in 1..lastRow' : i \in 1..lastRow \/ i = row.id
    BY <1>1
  <1>5. \A i \in 1..lastRow' : \E r \in memory' : r.id = i
    BY <1>4 DEF RowIdsGiven
  <1>6. \A r, q \in memory' : r.id = q.id => r = q
    BY <1>2 DEF RowIdsGiven
  <1>7. IdsOf(Facts) \subseteq IdsOf(Facts)'
    BY DEF IdsOf, Facts
  <1> QED
    BY <1>3, <1>5, <1>6, <1>7 DEF RowIdsGiven

LEMMA RowsEnd ==
  ASSUME SleepTypes, RowIdsGiven, NEW closed \in SUBSET memory, NEW d,
         memory' = Ended(closed, d), lastRow' = lastRow
  PROVE  RowIdsGiven' /\ IdsOf(Facts) \subseteq IdsOf(Facts)'
  <1>1. \A r \in memory : LET x == IF r \in closed THEN [r EXCEPT !.to = d] ELSE r
                          IN x.id = r.id /\ x.kind = r.kind /\ x \in memory'
    BY DEF Ended, SleepTypes, SleepRows
  <1>2. ASSUME NEW x \in memory'
        PROVE  \E r \in memory : /\ x = IF r \in closed THEN [r EXCEPT !.to = d] ELSE r
                                 /\ x.id = r.id
    BY <1>1 DEF Ended
  <1>3. \A x \in memory' : x.id \in 1..lastRow'
    BY <1>2 DEF RowIdsGiven
  <1>4. \A i \in 1..lastRow' : \E x \in memory' : x.id = i
    BY <1>1 DEF RowIdsGiven
  <1>5. ASSUME NEW x \in memory', NEW y \in memory', x.id = y.id PROVE x = y
    BY <1>2, <1>5 DEF RowIdsGiven
  <1>6. ASSUME NEW i \in IdsOf(Facts) PROVE i \in IdsOf(Facts)'
    <2>1. PICK r \in memory : r.kind = "fact" /\ r.id = i
      BY DEF IdsOf, Facts
    <2>2. \E x \in memory' : x.kind = "fact" /\ x.id = i
      BY <1>1, <2>1
    <2> QED
      BY <2>2 DEF IdsOf, Facts
  <1> QED
    BY <1>3, <1>4, <1>5, <1>6 DEF RowIdsGiven

(* Passes that go on, or end, hold what they held.                         *)
LEMMA PassesGoOn ==
  ASSUME SleepTypes, PassesCounted, UNCHANGED <<runs, raced>>,
         \A q \in Passes : \/ pass'[q] = Awake \/ pass'[q] = pass[q]
                           \/ /\ pass[q] # Awake /\ pass'[q].run = pass[q].run
                              /\ pass'[q].read = pass[q].read,
         IdsOf(Facts) \subseteq IdsOf(Facts)',
         written' \subseteq written \cup IdsOf(Facts)', excused' \subseteq excused \cup IdsOf(Facts)'
  PROVE  PassesCounted'
  <1>1. runs' <= MaxRuns /\ raced' \subseteq 1..runs'
    BY DEF PassesCounted
  <1>2. \A q \in Passes : pass'[q] # Awake => pass'[q].run \in 1..runs'
    BY DEF PassesCounted
  <1>3. ASSUME NEW q \in Passes PROVE IdsOf(pass'[q].read) \subseteq IdsOf(Facts)'
    <2>1. pass'[q].read \in {{}, pass[q].read}
      BY DEF Awake
    <2>2. IdsOf(pass[q].read) \subseteq IdsOf(Facts)'
      BY DEF PassesCounted
    <2> QED
      BY <2>1, <2>2 DEF IdsOf
  <1>4. written' \subseteq IdsOf(Facts)' /\ excused' \subseteq IdsOf(Facts)'
    BY DEF PassesCounted
  <1>5. \A q \in Passes : (IdsOf(pass[q].read) \subseteq IdsOf(Facts))'
    BY <1>3 DEF IdsOf
  <1> QED
    BY <1>1, <1>2, <1>4, <1>5 DEF PassesCounted

LEMMA SleepTalliesKept ==
  ASSUME SleepBounds, SleepTypes, RowIdsGiven, PassesCounted, [SleepNext]_sleepVars
  PROVE  RowIdsGiven' /\ PassesCounted'
  <1>0. /\ pass \in [Passes -> Fields] /\ runs \in Nat /\ lastRow \in Nat
        /\ memory \in SUBSET SleepRows
    BY DEF SleepTypes
  <1>1. CASE UNCHANGED sleepVars
    BY <1>1 DEF sleepVars, RowIdsGiven, PassesCounted, IdsOf, Facts
  <1>2. ASSUME NEW s \in Subjects, NEW x \in Stated, NEW from \in Dates, FactArrives(s, x, from)
        PROVE  RowIdsGiven' /\ PassesCounted'
    <2>1. /\ memory' = memory \cup {Row("fact", s, x, from, 0)} /\ lastRow' = lastRow + 1
          /\ UNCHANGED <<pass, runs, raced, written>>
          /\ excused' \subseteq excused \cup {lastRow + 1}
      BY <1>2 DEF FactArrives, Insert
    <2>2. PICK row : row = Row("fact", s, x, from, 0)
      OBVIOUS
    <2>3. row.id = lastRow + 1 /\ row.kind = "fact" /\ memory' = memory \cup {row}
      BY <2>1, <2>2 DEF Row
    <2>4. RowIdsGiven' /\ IdsOf(Facts) \subseteq IdsOf(Facts)'
      BY <2>1, <2>3, RowJoins
    <2>5. lastRow + 1 \in IdsOf(Facts)'
      BY <2>3 DEF IdsOf, Facts
    <2> QED
      BY <2>1, <2>4, <2>5, PassesGoOn
  <1>3. ASSUME NEW p \in Passes, BeginPass(p) PROVE RowIdsGiven' /\ PassesCounted'
    <2>1. /\ UNCHANGED <<memory, lastRow, written, excused>>
          /\ runs < MaxRuns /\ runs' = runs + 1
          /\ raced' \subseteq raced \cup {runs + 1} \cup {pass[q].run : q \in Asleep}
          /\ pass' = [pass EXCEPT ![p] = [Awake EXCEPT !.at = "read", !.run = runs + 1,
                                                       !.read = Facts]]
      BY <1>3 DEF BeginPass
    <2>2. PICK a : a = [Awake EXCEPT !.at = "read", !.run = runs + 1, !.read = Facts]
      OBVIOUS
    <2>3. a.run = runs + 1 /\ a.read = Facts
      BY <2>2 DEF Awake
    <2>4. \A q \in Passes : pass'[q] = IF q = p THEN a ELSE pass[q]
      BY <1>0, <2>1, <2>2
    <2>5. RowIdsGiven' /\ IdsOf(Facts)' = IdsOf(Facts)
      BY <2>1 DEF RowIdsGiven, IdsOf, Facts
    <2>6. 1..runs \subseteq 1..runs' /\ runs + 1 \in 1..runs' /\ runs' <= MaxRuns
      BY <1>0, <2>1 DEF SleepBounds
    <2>7. \A q \in Asleep : pass[q].run \in 1..runs
      BY DEF Asleep, PassesCounted
    <2>8. raced' \subseteq 1..runs'
      BY <2>1, <2>6, <2>7 DEF PassesCounted
    <2>9. \A q \in Passes : pass'[q] # Awake => pass'[q].run \in 1..runs'
      BY <2>3, <2>4, <2>6 DEF PassesCounted
    <2>10. ASSUME NEW q \in Passes PROVE (IdsOf(pass[q].read) \subseteq IdsOf(Facts))'
      <3>1. pass'[q].read = IF q = p THEN Facts ELSE pass[q].read
        BY <2>3, <2>4
      <3>2. IdsOf(pass'[q].read) \subseteq IdsOf(Facts)
        BY <3>1 DEF PassesCounted, IdsOf
      <3> QED
        BY <2>5, <3>2 DEF IdsOf
    <2>11. (written \subseteq IdsOf(Facts) /\ excused \subseteq IdsOf(Facts))'
      BY <2>1, <2>5 DEF PassesCounted
    <2> QED
      BY <2>5, <2>6, <2>8, <2>9, <2>10, <2>11 DEF PassesCounted
  <1>4. ASSUME NEW p \in Passes, Condense(p) PROVE RowIdsGiven' /\ PassesCounted'
    <2>1. PICK found \in SUBSET Clusters(p), xs \in (SUBSET Sayings) \ {{}},
               ends \in Conclusions(p) :
            /\ pass' = [pass EXCEPT ![p].at = "close", ![p].dossiers = found \X xs,
                                    ![p].inferred = ends]
            /\ excused' = excused \cup {f.id : f \in {g \in pass[p].read :
                                                        g.subject \notin found}}
      BY <1>4 DEF Condense
    <2>2. UNCHANGED <<memory, lastRow, runs, raced, written>> /\ pass[p].at = "read"
      BY <1>4 DEF Condense
    <2>3. RowIdsGiven' /\ IdsOf(Facts)' = IdsOf(Facts)
      BY <2>2 DEF RowIdsGiven, IdsOf, Facts
    <2>4. excused' \subseteq excused \cup IdsOf(Facts)
      BY <2>1 DEF PassesCounted, IdsOf
    <2>5. pass'[p].run = pass[p].run /\ pass'[p].read = pass[p].read /\ pass[p] # Awake
          /\ \A q \in Passes : q # p => pass'[q] = pass[q]
      BY <1>0, <2>1, <2>2 DEF Fields, Awake
    <2>6. UNCHANGED <<runs, raced>> /\ written' = written
      BY <2>2
    <2> QED
      BY <2>3, <2>4, <2>5, <2>6, PassesGoOn
  <1>5. ASSUME NEW p \in Passes, CloseSubject(p) PROVE RowIdsGiven' /\ PassesCounted'
    <2>1. PICK i : i = CHOOSE j \in pass[p].dossiers : TRUE
      OBVIOUS
    <2>2. PICK d : d = DateOf(p, i[1])
      OBVIOUS
    <2>3. /\ memory' = {IF Closes(r, i[1], i[2], d) THEN [r EXCEPT !.to = d] ELSE r : r \in memory}
          /\ pass' = [pass EXCEPT ![p].at = "insert", ![p].item = i] /\ pass[p].at = "close"
          /\ UNCHANGED <<lastRow, runs, raced, written, excused>>
      BY <1>5, <2>1, <2>2 DEF CloseSubject
    <2>4. PICK closed \in SUBSET memory : \A r \in memory : r \in closed <=> Closes(r, i[1], i[2], d)
      <3>1. {r \in memory : Closes(r, i[1], i[2], d)} \in SUBSET memory
        OBVIOUS
      <3> QED
        BY <3>1
    <2>5. memory' = Ended(closed, d)
      BY <2>3, <2>4 DEF Ended
    <2>6. RowIdsGiven' /\ IdsOf(Facts) \subseteq IdsOf(Facts)'
      BY <2>3, <2>5, RowsEnd
    <2>7. pass'[p].run = pass[p].run /\ pass'[p].read = pass[p].read /\ pass[p] # Awake
          /\ \A q \in Passes : q # p => pass'[q] = pass[q]
      BY <1>0, <2>3 DEF Fields, Awake
    <2> QED
      BY <2>3, <2>6, <2>7, PassesGoOn
  <1>6. ASSUME NEW p \in Passes, WriteDossier(p) PROVE RowIdsGiven' /\ PassesCounted'
    <2>1. PICK s, row : /\ s = pass[p].item[1]
                        /\ row = Row("dossier", s, pass[p].item[2], DateOf(p, s), pass[p].run)
      OBVIOUS
    <2>2. /\ memory' = memory \cup {row} /\ lastRow' = lastRow + 1
          /\ written' = written \cup IdsOf(Cluster(p, s))
          /\ UNCHANGED <<runs, raced, excused>> /\ pass[p].at = "insert"
          /\ pass' = [pass EXCEPT ![p].at = "close", ![p].item = NoItem,
                                  ![p].dossiers = @ \ {pass[p].item}]
      BY <1>6, <2>1 DEF WriteDossier, Insert
    <2>3. row.id = lastRow + 1
      BY <2>1 DEF Row
    <2>4. RowIdsGiven' /\ IdsOf(Facts) \subseteq IdsOf(Facts)'
      BY <2>2, <2>3, RowJoins
    <2>5. written' \subseteq written \cup IdsOf(Facts)'
      BY <2>2, <2>4 DEF PassesCounted, IdsOf, Cluster
    <2>6. pass'[p].run = pass[p].run /\ pass'[p].read = pass[p].read /\ pass[p] # Awake
          /\ \A q \in Passes : q # p => pass'[q] = pass[q]
      BY <1>0, <2>2 DEF Fields, Awake
    <2> QED
      BY <2>2, <2>4, <2>5, <2>6, PassesGoOn
  <1>7. ASSUME NEW p \in Passes, CloseInferred(p) PROVE RowIdsGiven' /\ PassesCounted'
    <2>1. PICK s \in pass[p].inferred :
            /\ memory' = {IF EndsInferred(r, s) THEN [r EXCEPT !.to = DateOf(p, s)] ELSE r
                          : r \in memory}
            /\ pass' = [pass EXCEPT ![p].at = "infer", ![p].item = <<s, NoSubject>>,
                                    ![p].inferred = @ \ {s}]
      BY <1>7 DEF CloseInferred
    <2>2. PICK d : d = DateOf(p, s)
      OBVIOUS
    <2>3. UNCHANGED <<lastRow, runs, raced, written, excused>> /\ pass[p].at = "close"
      BY <1>7 DEF CloseInferred
    <2>4. PICK closed \in SUBSET memory : \A r \in memory : r \in closed <=> EndsInferred(r, s)
      <3>1. {r \in memory : EndsInferred(r, s)} \in SUBSET memory
        OBVIOUS
      <3> QED
        BY <3>1
    <2>5. memory' = Ended(closed, d)
      BY <2>1, <2>2, <2>4 DEF Ended
    <2>6. RowIdsGiven' /\ IdsOf(Facts) \subseteq IdsOf(Facts)'
      BY <2>3, <2>5, RowsEnd
    <2>7. pass'[p].run = pass[p].run /\ pass'[p].read = pass[p].read /\ pass[p] # Awake
          /\ \A q \in Passes : q # p => pass'[q] = pass[q]
      BY <1>0, <2>1, <2>3 DEF Fields, Awake
    <2> QED
      BY <2>3, <2>6, <2>7, PassesGoOn
  <1>8. ASSUME NEW p \in Passes, WriteInferred(p) PROVE RowIdsGiven' /\ PassesCounted'
    <2>1. PICK x \in Sayings : Insert("inferred", pass[p].item[1], x,
                                      DateOf(p, pass[p].item[1]), pass[p].run)
      BY <1>8 DEF WriteInferred
    <2>2. PICK row : row = Row("inferred", pass[p].item[1], x, DateOf(p, pass[p].item[1]),
                               pass[p].run)
      OBVIOUS
    <2>3. /\ memory' = memory \cup {row} /\ lastRow' = lastRow + 1 /\ row.id = lastRow + 1
      BY <2>1, <2>2 DEF Insert, Row
    <2>4. /\ UNCHANGED <<runs, raced, written, excused>> /\ pass[p].at = "infer"
          /\ pass' = [pass EXCEPT ![p].at = "close", ![p].item = NoItem]
      BY <1>8 DEF WriteInferred
    <2>5. RowIdsGiven' /\ IdsOf(Facts) \subseteq IdsOf(Facts)'
      BY <2>3, RowJoins
    <2>6. pass'[p].run = pass[p].run /\ pass'[p].read = pass[p].read /\ pass[p] # Awake
          /\ \A q \in Passes : q # p => pass'[q] = pass[q]
      BY <1>0, <2>4 DEF Fields, Awake
    <2> QED
      BY <2>4, <2>5, <2>6, PassesGoOn
  <1>9. ASSUME NEW p \in Passes, EndPass(p) \/ PassFails(p) PROVE RowIdsGiven' /\ PassesCounted'
    <2>1. UNCHANGED <<memory, lastRow, runs, raced, written>>
          /\ excused' \subseteq excused \cup IdsOf(pass[p].read)
      BY <1>9 DEF EndPass, PassFails
    <2>2. RowIdsGiven' /\ IdsOf(Facts)' = IdsOf(Facts)
      BY <2>1 DEF RowIdsGiven, IdsOf, Facts
    <2>3. excused' \subseteq excused \cup IdsOf(Facts)
      BY <2>1 DEF PassesCounted
    <2>4. \/ pass' = [pass EXCEPT ![p] = Awake]
          \/ /\ pass[p] # Awake
             /\ pass' = [pass EXCEPT ![p].at = "close", ![p].item = NoItem,
                           ![p].dossiers = {i \in @ : i[1] # pass[p].item[1]}]
      BY <1>9 DEF EndPass, PassFails
    <2>5. \A q \in Passes : \/ pass'[q] = Awake \/ pass'[q] = pass[q]
                            \/ /\ pass[q] # Awake /\ pass'[q].run = pass[q].run
                               /\ pass'[q].read = pass[q].read
      BY <1>0, <2>4 DEF Fields
    <2> QED
      BY <2>1, <2>2, <2>3, <2>5, PassesGoOn
  <1> QED
    BY <1>1, <1>2, <1>3, <1>4, <1>5, <1>6, <1>7, <1>8, <1>9 DEF SleepNext

LEMMA SleepTyped ==
  ASSUME SleepBounds, SleepTypes, RowIdsGiven, PassesCounted PROVE SleepTypeOK
  <1>1. IdsOf(memory) = 1..lastRow
    BY DEF RowIdsGiven, IdsOf
  <1>2. Cardinality(memory) = lastRow
    <2> DEFINE f == [r \in memory |-> r.id]
    <2>1. f \in Bijection(memory, 1..lastRow)
      <3>1. f \in [memory -> 1..lastRow]
        BY DEF RowIdsGiven
      <3>2. \A r, q \in memory : f[r] = f[q] => r = q
        BY DEF RowIdsGiven
      <3>3. \A i \in 1..lastRow : \E r \in memory : f[r] = i
        BY DEF RowIdsGiven
      <3> HIDE DEF f
      <3> QED
        BY <3>1, <3>2, <3>3 DEF Bijection, Injection, Surjection, IsInjective
    <2>2. ExistsBijection(memory, 1..lastRow)
      BY <2>1 DEF ExistsBijection
    <2>3. IsFiniteSet(memory) /\ lastRow \in Nat
      BY DEF SleepTypes
    <2>4. Cardinality(1..lastRow) = Cardinality(memory)
      BY <2>2, <2>3, FS_Bijection
    <2>5. Cardinality(1..lastRow) = lastRow
      BY <2>3, FS_Interval
    <2> QED
      BY <2>4, <2>5
  <1>3. \A r \in memory : r.kind \in {"fact", "dossier", "inferred"} /\ r.subject \in Subjects
    BY DEF SleepTypes, SleepRows
  <1>4. raced \subseteq 1..runs /\ runs <= MaxRuns /\ written \cup excused \subseteq IdsOf(Facts)
    BY DEF PassesCounted
  <1> QED
    BY <1>1, <1>2, <1>3, <1>4 DEF SleepTypeOK

-----------------------------------------------------------------------------
(* Episodes: ids that are each given once and never above their count are  *)
(* the numbers up to it.                                                   *)
LEMMA IdsFill ==
  ASSUME NEW S, IsFiniteSet(S), \A x \in S : x.id \in 1..Cardinality(S),
         \A x, y \in S : x.id = y.id => x = y
  PROVE  IdsIn(S) = 1..Cardinality(S)
  <1> DEFINE f == [x \in S |-> x.id]
  <1>1. f \in [S -> IdsIn(S)]
    BY DEF IdsIn
  <1>2. \A x, y \in S : f[x] = f[y] => x = y
    OBVIOUS
  <1>3. \A i \in IdsIn(S) : \E x \in S : f[x] = i
    BY DEF IdsIn
  <1> HIDE DEF f
  <1>4. ExistsBijection(S, IdsIn(S))
    BY <1>1, <1>2, <1>3 DEF ExistsBijection, Bijection, Injection, Surjection, IsInjective
  <1>5. Cardinality(IdsIn(S)) = Cardinality(S)
    BY <1>4, FS_Bijection
  <1>6. Cardinality(S) \in Nat
    BY FS_CardinalityType
  <1>7. IsFiniteSet(1..Cardinality(S)) /\ Cardinality(1..Cardinality(S)) = Cardinality(S)
    BY <1>6, FS_Interval
  <1>8. IdsIn(S) \in SUBSET (1..Cardinality(S))
    BY DEF IdsIn
  <1> QED
    BY <1>5, <1>7, <1>8, FS_Subset

(* An episode is of some turns; what the passes leave behind are ids of    *)
(* facts, of episodes and of passes begun.                                 *)
EpisodeTallies ==
  /\ \A e \in episodes : e.turns # {}
  /\ late \subseteq IdsIn(extracted) \X IdsIn(episodes)
  /\ beside \subseteq 1..segmentings /\ unlinked \subseteq IdsIn(episodes)
  /\ \A p \in Segmenters : segmenter[p] # NotSegmenting => segmenter[p].pass \in 1..segmentings

LEMMA EpisodeTalliesInit == ASSUME EpisodesInit PROVE EpisodeTallies
  BY DEF EpisodesInit, EpisodeTallies

(* Where ids only join, nothing left behind is lost sight of.              *)
LEMMA LeftBehind ==
  ASSUME EpisodeTallies, NEW e, episodes' \in {episodes, episodes \cup {e}},
         e.turns # {}, UNCHANGED <<extracted, late, beside, segmentings>>, unlinked' \subseteq unlinked \cup IdsIn(episodes),
         \A p \in Segmenters : \/ segmenter'[p] = NotSegmenting \/ segmenter'[p] = segmenter[p]
                               \/ /\ segmenter[p] # NotSegmenting
                                  /\ segmenter'[p].pass = segmenter[p].pass
  PROVE  EpisodeTallies'
  <1>1. IdsIn(extracted) \subseteq IdsIn(extracted') /\ IdsIn(episodes) \subseteq IdsIn(episodes')
    BY DEF IdsIn
  <1>2. \A x \in episodes' : x.turns # {}
    BY DEF EpisodeTallies
  <1>3. late' \subseteq IdsIn(extracted') \X IdsIn(episodes')
    BY <1>1 DEF EpisodeTallies
  <1>4. unlinked' \subseteq IdsIn(episodes')
    BY <1>1 DEF EpisodeTallies
  <1>5. \A p \in Segmenters : segmenter'[p] # NotSegmenting => segmenter'[p].pass \in 1..segmentings'
    BY DEF EpisodeTallies
  <1>6. beside' \subseteq 1..segmentings'
    BY DEF EpisodeTallies
  <1> QED
    BY <1>2, <1>3, <1>4, <1>5, <1>6 DEF EpisodeTallies

LEMMA EpisodeTalliesKept ==
  ASSUME EpisodeBounds, EpisodesInv, EpisodeTallies, [EpisodesNext]_episodeVars
  PROVE  EpisodeTallies'
  <1> PICK someone : someone = [id |-> 1, turns |-> {1}]
    OBVIOUS
  <1>0. someone.turns # {} /\ segmenter \in [Segmenters -> Work] /\ segmentings \in Nat
    BY DEF EpisodesInv, EpisodesTypes, SegmentersSound
  <1>1. CASE UNCHANGED episodeVars
    BY <1>1 DEF episodeVars, EpisodeTallies, IdsIn
  <1>2. CASE \E s \in Speaking, m \in Moments : TurnSaid(s, m)
    <2>1. UNCHANGED <<extracted, episodes, segmenter, segmentings, beside, unlinked, late>>
      BY <1>2 DEF TurnSaid
    <2> QED
      BY <1>0, <2>1, LeftBehind
  <1>3. ASSUME NEW from \in SUBSET IdsIn(said), FactExtracted(from) PROVE EpisodeTallies'
    <2>1. PICK id, f : id = Cardinality(extracted) + 1 /\ f = [id |-> id, from |-> from]
      OBVIOUS
    <2>2. /\ extracted' = extracted \cup {f} /\ UNCHANGED <<episodes, segmenter, segmentings, beside, unlinked>>
          /\ late' = late \cup {<<id, e.id>> : e \in {x \in episodes : ~Linking(x.id)}}
      BY <1>3, <2>1 DEF FactExtracted
    <2>3. f.id = id
      BY <2>1
    <2>4. late' \subseteq late \cup (IdsIn(extracted') \X IdsIn(episodes))
      BY <2>2, <2>3 DEF IdsIn
    <2>5. IdsIn(extracted) \subseteq IdsIn(extracted')
      BY <2>2 DEF IdsIn
    <2>6. late' \subseteq IdsIn(extracted') \X IdsIn(episodes)
      BY <2>4, <2>5 DEF EpisodeTallies
    <2> QED
      BY <2>2, <2>6 DEF EpisodeTallies
  <1>4. ASSUME NEW p \in Segmenters, BeginSegmenting(p) PROVE EpisodeTallies'
    <2>1. PICK todo, known :
            segmenter' = [segmenter EXCEPT ![p] =
              [stage |-> "insert", pass |-> segmentings + 1, episode |-> 0,
               todo |-> todo, known |-> known]]
      BY <1>4 DEF BeginSegmenting
    <2>2. /\ segmentings' = segmentings + 1
          /\ beside' \subseteq beside \cup {segmentings + 1}
                              \cup {segmenter[q].pass : q \in Segmenting}
          /\ UNCHANGED <<extracted, episodes, unlinked, late>>
      BY <1>4 DEF BeginSegmenting
    <2>3. 1..segmentings \subseteq 1..segmentings' /\ segmentings + 1 \in 1..segmentings'
      BY <1>0, <2>2
    <2>4. \A q \in Segmenting : segmenter[q].pass \in 1..segmentings
      BY DEF Segmenting, EpisodeTallies
    <2>5. beside' \subseteq 1..segmentings'
      BY <2>2, <2>3, <2>4 DEF EpisodeTallies
    <2>6. \A q \in Segmenters : segmenter'[q] # NotSegmenting => segmenter'[q].pass \in 1..segmentings'
      BY <1>0, <2>1, <2>3 DEF EpisodeTallies
    <2>7. /\ \A e \in episodes' : e.turns # {}
          /\ late' \subseteq IdsIn(extracted') \X IdsIn(episodes')
          /\ unlinked' \subseteq IdsIn(episodes')
      BY <2>2 DEF EpisodeTallies, IdsIn
    <2> QED
      BY <2>5, <2>6, <2>7 DEF EpisodeTallies
  <1>5. ASSUME NEW p \in Segmenters, InsertEpisode(p) PROVE EpisodeTallies'
    <2>1. PICK todo \in SUBSET (SUBSET Turn) : todo = segmenter[p].todo
      BY <1>0 DEF Work
    <2>2. segmenter[p].stage = "insert" /\ segmenter[p] # NotSegmenting /\ todo # {}
      BY <1>5, <2>1 DEF InsertEpisode, NotSegmenting
    <2>3. \A g \in todo : g # {} /\ g \subseteq said
      BY <2>1, <2>2 DEF EpisodesInv, EpisodesTypes, SegmentersSound
    <2>4. IsFiniteSet(said) /\ \A t, u \in said : t.id = u.id => t = u
      BY DEF EpisodesInv, EpisodesTypes, TurnsNumbered
    <2>5. IsFiniteSet(todo)
      <3>1. todo \in SUBSET (SUBSET said) /\ IsFiniteSet(SUBSET said)
        BY <2>3, <2>4, FS_SUBSET
      <3> QED
        BY <3>1, FS_Subset
    <2>6. \A g \in todo : g # {} /\ \A t, u \in g : t.id = u.id => t = u
      BY <2>3, <2>4
    <2>7. PICK g \in todo : g = CHOOSE h \in todo : h \in Soonest(todo, 1)
      BY <2>2, <2>5, <2>6, NextGroup
    <2>8. PICK id, e : /\ id = Cardinality(episodes) + 1
                       /\ e = [id |-> id, turns |-> g, pass |-> segmenter[p].pass]
      OBVIOUS
    <2>9. /\ episodes' = episodes \cup {e} /\ e.turns # {}
          /\ UNCHANGED <<extracted, segmentings, beside, unlinked, late>>
      BY <1>5, <2>1, <2>3, <2>7, <2>8 DEF InsertEpisode
    <2>10. segmenter' = [segmenter EXCEPT ![p].stage = "link", ![p].episode = id,
                                          ![p].todo = @ \ {g}]
      BY <1>5, <2>1, <2>7, <2>8 DEF InsertEpisode
    <2>11. segmenter'[p].pass = segmenter[p].pass
           /\ \A q \in Segmenters : q # p => segmenter'[q] = segmenter[q]
      BY <1>0, <2>10 DEF Work
    <2> QED
      BY <2>2, <2>9, <2>11, LeftBehind
  <1>6. ASSUME NEW p \in Segmenters, LinkEpisode(p) PROVE EpisodeTallies'
    <2>1. /\ UNCHANGED <<extracted, episodes, segmentings, beside, unlinked, late>>
          /\ segmenter' = [segmenter EXCEPT ![p].stage = "insert", ![p].episode = 0]
          /\ segmenter[p] # NotSegmenting
      BY <1>6 DEF LinkEpisode, NotSegmenting
    <2>2. segmenter'[p].pass = segmenter[p].pass
          /\ \A q \in Segmenters : q # p => segmenter'[q] = segmenter[q]
      BY <1>0, <2>1 DEF Work
    <2> QED
      BY <1>0, <2>1, <2>2, LeftBehind
  <1>7. ASSUME NEW p \in Segmenters, EndSegmenting(p) \/ SegmentingFails(p) PROVE EpisodeTallies'
    <2>1. /\ UNCHANGED <<extracted, episodes, segmentings, beside, late>>
          /\ segmenter' = [segmenter EXCEPT ![p] = NotSegmenting] /\ segmenter[p] # NotSegmenting
          /\ unlinked' \subseteq unlinked \cup ({segmenter[p].episode} \ {0})
      BY <1>7 DEF EndSegmenting, SegmentingFails, NotSegmenting
    <2>2. segmenter[p].episode = 0 \/ segmenter[p].episode \in IdsIn(episodes)
      <3>1. segmenter[p].stage \in {"insert", "link"}
        BY <1>0, <2>1 DEF EpisodesInv, EpisodesTypes, SegmentersSound, Work
      <3> QED
        BY <2>1, <3>1 DEF EpisodesInv, EpisodesTypes, SegmentersSound, IdsIn
    <2>3. unlinked' \subseteq unlinked \cup IdsIn(episodes)
      BY <2>1, <2>2
    <2>4. \A q \in Segmenters : segmenter'[q] = NotSegmenting \/ segmenter'[q] = segmenter[q]
      BY <1>0, <2>1
    <2> QED
      BY <1>0, <2>1, <2>3, <2>4, LeftBehind
  <1> QED
    BY <1>1, <1>2, <1>3, <1>4, <1>5, <1>6, <1>7 DEF EpisodesNext

LEMMA EpisodesTyped == ASSUME EpisodesInv, EpisodeTallies PROVE EpisodesTypeOK
  <1>1. IdsIn(said) = 1..Cardinality(said)
    <2>1. /\ IsFiniteSet(said) /\ \A t, u \in said : t.id = u.id => t = u
          /\ \A t \in said : t.id \in Nat \ {0} /\ t.id <= Cardinality(said)
      BY DEF EpisodesInv, EpisodesTypes, TurnsNumbered, Turn
    <2>2. \A t \in said : t.id \in 1..Cardinality(said)
      BY <2>1, FS_CardinalityType
    <2> QED
      BY <2>1, <2>2, IdsFill
  <1>2. IdsIn(episodes) = 1..Cardinality(episodes)
    <2>1. /\ IsFiniteSet(episodes) /\ \A t, u \in episodes : t.id = u.id => t = u
          /\ \A t \in episodes : t.id \in Nat \ {0} /\ t.id <= Cardinality(episodes)
      BY DEF EpisodesInv, EpisodesTypes, EpisodesNumbered, Episode
    <2>2. \A t \in episodes : t.id \in 1..Cardinality(episodes)
      BY <2>1, FS_CardinalityType
    <2> QED
      BY <2>1, <2>2, IdsFill
  <1>3. \A e \in episodes : e.turns # {} /\ e.turns \subseteq said
    BY DEF EpisodesInv, EpisodesTypes, EpisodesNumbered, EpisodeTallies
  <1>4. links \cup late \subseteq IdsIn(extracted) \X IdsIn(episodes)
    BY DEF EpisodesInv, EpisodesTypes, EpisodesNumbered, EpisodeTallies
  <1>5. beside \subseteq 1..segmentings /\ unlinked \subseteq IdsIn(episodes)
    BY DEF EpisodeTallies
  <1> QED
    BY <1>1, <1>2, <1>3, <1>4, <1>5 DEF EpisodesTypeOK

-----------------------------------------------------------------------------
(* Each part of the memory has its types, for every size of it: from the   *)
(* invariant its safety rests on, and the counts of what it bounds.        *)
LEMMA ReconcileKeepsTypes == ReconcileSpec => []ReconcileTypeOK
  <1>1. ReconcileInit => ReconcileInv /\ WalkTallies
    BY InitReconcile, WalkTalliesInit
  <1>2. ReconcileInv /\ WalkTallies /\ [ReconcileNext]_reconcileVars => (ReconcileInv /\ WalkTallies)'
    <2> SUFFICES ASSUME ReconcileInv, WalkTallies, [ReconcileNext]_reconcileVars PROVE (ReconcileInv /\ WalkTallies)'
      OBVIOUS
    <2> QED
      BY ReconcileNextInv, WalkTalliesKept DEF ReconcileInv
  <1>3. ReconcileInv /\ WalkTallies => ReconcileTypeOK
    BY ReconcileTyped
  <1> QED
    BY <1>1, <1>2, <1>3, PTL DEF ReconcileSpec

LEMMA CorpusKeepsTypes == CorpusSpec => []CorpusTypeOK
  <1>1. CorpusInit => CorpusInv
    BY CorpusInitInv, CorpusBounds
  <1>2. CorpusInv /\ [CorpusNext]_corpusVars => CorpusInv'
    <2> SUFFICES ASSUME CorpusInv, [CorpusNext]_corpusVars PROVE CorpusInv'
      OBVIOUS
    <2> QED
      BY CorpusNextInv, CorpusBounds
  <1>3. CorpusInv => CorpusTypeOK
    BY CorpusInvTypes, CorpusBounds
  <1> QED
    BY <1>1, <1>2, <1>3, PTL DEF CorpusSpec

LEMMA SleepKeepsTypes == SleepSpec => []SleepTypeOK
  <1>1. SleepInit => SleepInv /\ RowIdsGiven /\ PassesCounted
    BY SleepInitInv, SleepTalliesInit, SleepBounds
  <1>2. SleepInv /\ RowIdsGiven /\ PassesCounted /\ [SleepNext]_sleepVars => (SleepInv /\ RowIdsGiven /\ PassesCounted)'
    <2> SUFFICES ASSUME SleepInv, RowIdsGiven, PassesCounted, [SleepNext]_sleepVars PROVE (SleepInv /\ RowIdsGiven /\ PassesCounted)'
      OBVIOUS
    <2> QED
      BY SleepNextInv, SleepTalliesKept, SleepBounds DEF SleepInv
  <1>3. SleepInv /\ RowIdsGiven /\ PassesCounted => SleepTypeOK
    BY SleepTyped, SleepBounds DEF SleepInv
  <1> QED
    BY <1>1, <1>2, <1>3, PTL DEF SleepSpec

LEMMA EpisodesKeepTypes == EpisodesSpec => []EpisodesTypeOK
  <1>1. EpisodesInit => EpisodesInv /\ EpisodeTallies
    BY EpisodesInitInv, EpisodeTalliesInit
  <1>2. EpisodesInv /\ EpisodeTallies /\ [EpisodesNext]_episodeVars => (EpisodesInv /\ EpisodeTallies)'
    <2> SUFFICES ASSUME EpisodesInv, EpisodeTallies, [EpisodesNext]_episodeVars PROVE (EpisodesInv /\ EpisodeTallies)'
      OBVIOUS
    <2> QED
      BY EpisodesNextInv, EpisodeTalliesKept, EpisodeBounds
  <1>3. EpisodesInv /\ EpisodeTallies => EpisodesTypeOK
    BY EpisodesTyped
  <1> QED
    BY <1>1, <1>2, <1>3, PTL DEF EpisodesSpec

LEMMA VaultKeepsTypes == VaultSpec => []VaultTypeOK
  <1>1. VaultInit => VaultInv /\ VaultTallies
    BY InitVault, VaultTalliesInit
  <1>2. VaultInv /\ VaultTallies /\ [VaultNext]_vaultVars => (VaultInv /\ VaultTallies)'
    <2> SUFFICES ASSUME VaultInv, VaultTallies, [VaultNext]_vaultVars PROVE (VaultInv /\ VaultTallies)'
      OBVIOUS
    <2> QED
      BY VaultNextInv, VaultTalliesKept
  <1>3. VaultInv /\ VaultTallies => VaultTypeOK
    BY VaultTyped
  <1> QED
    BY <1>1, <1>2, <1>3, PTL DEF VaultSpec

LEMMA MigrationKeepsTypes == MigrationSpec => []MigrationTypeOK
  <1>1. MigrationInit => MigrationInv /\ VectorsFit
    BY MigrationInitInv, VectorsFitInit
  <1>2. MigrationInv /\ VectorsFit /\ [MigrationNext]_migrationVars => (MigrationInv /\ VectorsFit)'
    <2> SUFFICES ASSUME MigrationInv, VectorsFit, [MigrationNext]_migrationVars PROVE (MigrationInv /\ VectorsFit)'
      OBVIOUS
    <2> QED
      BY MigrationNextInv, VectorsFitKept, MigrationBounds
  <1>3. MigrationInv /\ VectorsFit => MigrationTypeOK
    BY MigrationTyped
  <1> QED
    BY <1>1, <1>2, <1>3, PTL DEF MigrationSpec

LEMMA RerankKeepsTypes == RerankSpec => []RerankTypeOK
  <1>1. RerankInit => RerankInv /\ BootTallies
    BY RerankInitInv, BootTalliesInit, RerankBounds
  <1>2. RerankInv /\ BootTallies /\ [RerankNext]_rerankVars => (RerankInv /\ BootTallies)'
    <2> SUFFICES ASSUME RerankInv, BootTallies, [RerankNext]_rerankVars PROVE (RerankInv /\ BootTallies)'
      OBVIOUS
    <2> QED
      BY RerankNextInv, BootTalliesKept, RerankBounds DEF RerankInv
  <1>3. RerankInv /\ BootTallies => RerankTypeOK
    BY RerankTyped, RerankBounds
  <1> QED
    BY <1>1, <1>2, <1>3, PTL DEF RerankSpec

LEMMA ConfigKeepsTypes == ConfigSpec => []ConfigTypeOK
  <1>1. ConfigInit => ConfigInv /\ ConfigTallies
    BY ConfigInitInv, ConfigTalliesInit
  <1>2. ConfigInv /\ ConfigTallies /\ [ConfigNext]_configVars => (ConfigInv /\ ConfigTallies)'
    <2> SUFFICES ASSUME ConfigInv, ConfigTallies, [ConfigNext]_configVars PROVE (ConfigInv /\ ConfigTallies)'
      OBVIOUS
    <2> QED
      BY ConfigNextInv, ConfigTalliesKept DEF ConfigInv
  <1>3. ConfigInv /\ ConfigTallies => ConfigTypeOK
    BY ConfigTyped
  <1> QED
    BY <1>1, <1>2, <1>3, PTL DEF ConfigSpec

LEMMA DocsKeepTypes == DocSpec => []DocTypeOK
  <1>1. DocInit => DocInv /\ DocTallies
    BY DocInitInv, DocTalliesInit
  <1>2. DocInv /\ DocTallies /\ [DocNext]_docVars => (DocInv /\ DocTallies)'
    <2> SUFFICES ASSUME DocInv, DocTallies, [DocNext]_docVars PROVE (DocInv /\ DocTallies)'
      OBVIOUS
    <2> QED
      BY DocNextInv, DocTalliesKept DEF DocInv
  <1>3. DocInv /\ DocTallies => DocTypeOK
    BY DocTyped
  <1> QED
    BY <1>1, <1>2, <1>3, PTL DEF DocSpec

LEMMA ProvisionKeepsTypes == ProvisionSpec => []ProvisionTypeOK
  <1>1. ProvisionInit => ProvisionInv /\ SetupTallies /\ ProvisionPlaces
    BY ProvisionInitInv, SetupTalliesInit
  <1>2. ProvisionInv /\ SetupTallies /\ ProvisionPlaces /\ [ProvisionNext]_provisionVars => (ProvisionInv /\ SetupTallies /\ ProvisionPlaces)'
    <2> SUFFICES ASSUME ProvisionInv, SetupTallies, ProvisionPlaces, [ProvisionNext]_provisionVars PROVE (ProvisionInv /\ SetupTallies /\ ProvisionPlaces)'
      OBVIOUS
    <2> QED
      BY ProvisionNextInv, SetupTalliesKept, PlacesKept DEF ProvisionInv
  <1>3. ProvisionInv /\ SetupTallies /\ ProvisionPlaces => ProvisionTypeOK
    BY ProvisionTyped DEF ProvisionInv
  <1> QED
    BY <1>1, <1>2, <1>3, PTL DEF ProvisionSpec

PartNamed ==
  part \in {"reconcile", "corpus", "sleep", "episodes", "vault", "migration",
            "rerank", "config", "documents", "provision"}

(* The type invariant of the memory's parts, for every size of each: ids   *)
(* are given once and in order, a walk, a pass, a migration and a rotation *)
(* hold only what is stored, no vector, key or version was never made, and *)
(* what the code counts or caps stays below its bound.                     *)
THEOREM TheMemoryKeepsItsTypes == MemorySpec => []MemoryTypeOK
  <1>1. MemoryInit =>
          /\ PartNamed /\ ReconcileInit /\ CorpusInit /\ SleepInit /\ EpisodesInit /\ VaultInit
          /\ MigrationInit /\ RerankInit /\ ConfigInit /\ DocInit /\ ProvisionInit
    BY DEF MemoryInit, PartNamed
  <1>2. ASSUME [MemoryNext]_<<part, reconcileVars, corpusVars, sleepVars, episodeVars,
                              vaultVars, migrationVars, rerankVars, configVars, docVars,
                              provisionVars>>
        PROVE  /\ [ReconcileNext]_reconcileVars /\ [CorpusNext]_corpusVars
               /\ [SleepNext]_sleepVars /\ [EpisodesNext]_episodeVars
               /\ [VaultNext]_vaultVars /\ [MigrationNext]_migrationVars
               /\ [RerankNext]_rerankVars /\ [ConfigNext]_configVars
               /\ [DocNext]_docVars /\ [ProvisionNext]_provisionVars
    BY <1>2 DEF MemoryNext
  <1>3. ASSUME PartNamed, [MemoryNext]_<<part, reconcileVars, corpusVars, sleepVars, episodeVars,
                              vaultVars, migrationVars, rerankVars, configVars, docVars,
                              provisionVars>>
        PROVE  PartNamed'
    BY <1>3 DEF MemoryNext, PartNamed
  <1>4. MemorySpec => /\ ReconcileSpec /\ CorpusSpec /\ SleepSpec /\ EpisodesSpec /\ VaultSpec
                      /\ MigrationSpec /\ RerankSpec /\ ConfigSpec /\ DocSpec /\ ProvisionSpec
    BY <1>1, <1>2, PTL DEF MemorySpec, ReconcileSpec, CorpusSpec, SleepSpec, EpisodesSpec, VaultSpec,
       MigrationSpec, RerankSpec, ConfigSpec, DocSpec, ProvisionSpec
  <1>5. MemorySpec => []PartNamed
    BY <1>1, <1>3, PTL DEF MemorySpec
  <1>6. PartNamed /\ ReconcileTypeOK /\ CorpusTypeOK /\ SleepTypeOK /\ EpisodesTypeOK /\ VaultTypeOK
           /\ MigrationTypeOK /\ RerankTypeOK /\ ConfigTypeOK /\ DocTypeOK /\ ProvisionTypeOK
          => MemoryTypeOK
    BY DEF PartNamed, MemoryTypeOK
  <1> QED
    BY <1>4, <1>5, <1>6, ReconcileKeepsTypes, CorpusKeepsTypes, SleepKeepsTypes, EpisodesKeepTypes, VaultKeepsTypes,
       MigrationKeepsTypes, RerankKeepsTypes, ConfigKeepsTypes, DocsKeepTypes, ProvisionKeepsTypes, PTL
=============================================================================
