---------------------------- MODULE Constraints ----------------------------
(***************************************************************************)
(* Pinned constraints: remember_turn of a typed constraint (backfill of    *)
(* untagged rows, insert, retirement of the subject's older rows), episode *)
(* segmentation, which turns constraint turns into constraint episodes,    *)
(* and the set a recall pins, after precedence between namespaces.         *)
(* Every statement commits on its own, so the steps of a write interleave  *)
(* with other writes, and a failure leaves the ones that ran.              *)
(***************************************************************************)
EXTENDS Naturals, Sequences

CONSTANTS
  Spaces3,       \* namespaces
  Above,         \* pairs <<a, b>>: a is a ':'-prefix ancestor of b
  Edges,         \* pairs of Above the administrator may reverse
  Rules,         \* constraint texts
  Subjects,      \* subjects an author may supply
  NoTag,         \* constraint_subject IS NULL
  Authors,       \* requests that write a constraint at the same time
  Sleepers,      \* episode segmentations that may run at the same time
  MaxRows,       \* bound: rows
  MaxFailures    \* bound: writes and segmentations cut short

ASSUME AboveIsOrder ==
  /\ Above \subseteq Spaces3 \X Spaces3
  /\ \A n \in Spaces3 : <<n, n>> \notin Above
  /\ \A a, b, c \in Spaces3 :
       <<a, b>> \in Above /\ <<b, c>> \in Above => <<a, c>> \in Above
ASSUME TagsAreSubjects ==      \* a subject, given or derived, is no NULL
  NoTag \notin Subjects
  /\ \A kind \in {"turn", "episode"}, says \in SUBSET Rules : <<kind, says>> # NoTag
ASSUME ConstraintBounds ==
  MaxRows \in Nat /\ MaxFailures \in Nat /\ Edges \subseteq Above

VARIABLES
  pinboard,    \* the constraint rows, oldest first; the index is the id
  author,      \* author[a]: the write request a is in, or Unwritten
  sleeper,     \* sleeper[p]: the groups segmentation p still has to write
  overrides,   \* constraint_overrides: pairs <<child, parent>>
  cut,         \* turns whose write failed before it retired the others
  crossed,     \* turns of writes that overlapped another of their subject
  failures     \* writes and segmentations cut short so far

constraintVars ==
  <<pinboard, author, sleeper, overrides, cut, crossed, failures>>

Ids == DOMAIN pinboard
Unwritten == [stage |-> "idle"]

(* A row: says is the rules its text holds, of the turns it was made from  *)
(* (an episode's).                                                         *)
PinRow(kind, ns, says, tag, of) ==
  [kind |-> kind, ns |-> ns, says |-> says, tag |-> tag, of |-> of,
   retired |-> 0]

(* An episode's text ("user: ...") is never a turn's text.                 *)
Content(i) == <<pinboard[i].kind, pinboard[i].says>>
Derived(kind, says) == <<kind, says>>
Live(i) == pinboard[i].retired = 0

-----------------------------------------------------------------------------
ConstraintInit ==
  /\ pinboard = <<>>
  /\ author = [a \in Authors |-> Unwritten]
  /\ sleeper = [p \in Sleepers |-> {}]
  /\ overrides = {}
  /\ cut = {} /\ crossed = {} /\ failures = 0

(* The write's first statements: every live untagged row of the namespace  *)
(* gets a subject derived from its own text.                               *)
Backfill(ns) ==
  [i \in Ids |->
     IF pinboard[i].ns = ns /\ Live(i) /\ pinboard[i].tag = NoTag
       THEN [pinboard[i] EXCEPT
               !.tag = Derived(pinboard[i].kind, pinboard[i].says)]
       ELSE pinboard[i]]

EffectiveSubject(given, rule) ==
  IF given = NoTag THEN Derived("turn", {rule}) ELSE given

(* Writes of one subject that have inserted and not yet retired overlap.   *)
Overlapping(ns, tag) ==
  {b \in Authors : /\ author[b].stage = "retire"
                   /\ author[b].ns = ns /\ author[b].tag = tag}

(* Requests are alike, and so are texts nobody has written yet.            *)
NextAuthor == CHOOSE a \in Authors : author[a].stage = "idle"
Written    == UNION {pinboard[i].says : i \in Ids}
Sayable    == Written \cup (IF Rules \subseteq Written THEN {}
                          ELSE {CHOOSE r \in Rules : r \notin Written})

(* The backfill and the insert are one step: a row that became untagged    *)
(* between them is no row the retirement below would match.                *)
InsertRule(a) ==
  /\ author[a].stage = "idle" /\ a = NextAuthor /\ Len(pinboard) < MaxRows
  /\ \E ns \in Spaces3, rule \in Sayable, given \in Subjects \cup {NoTag} :
       LET tag == EffectiveSubject(given, rule)
           id == Len(pinboard) + 1
       IN /\ pinboard' = Append(Backfill(ns),
                               PinRow("turn", ns, {rule}, tag, {}))
          /\ author' = [author EXCEPT ![a] =
               [stage |-> "retire", ns |-> ns, tag |-> tag, id |-> id]]
          /\ crossed' = crossed \cup
               (IF Overlapping(ns, tag) = {} THEN {}
                ELSE {id} \cup {author[b].id : b \in Overlapping(ns, tag)})
  /\ UNCHANGED <<sleeper, overrides, cut, failures>>

(* retire_constraints, one UPDATE per table.                               *)
Retired(w, kind) ==
  [i \in Ids |->
     IF /\ pinboard[i].kind = kind /\ pinboard[i].ns = w.ns
        /\ pinboard[i].tag = w.tag /\ Live(i) /\ i # w.id
       THEN [pinboard[i] EXCEPT !.retired = w.id]
       ELSE pinboard[i]]

RetireTurns(a) ==
  /\ author[a].stage = "retire"
  /\ pinboard' = Retired(author[a], "turn")
  /\ author' = [author EXCEPT ![a].stage = "episodes"]
  /\ UNCHANGED <<sleeper, overrides, cut, crossed, failures>>

RetireEpisodes(a) ==
  /\ author[a].stage = "episodes"
  /\ pinboard' = Retired(author[a], "episode")
  /\ author' = [author EXCEPT ![a] = Unwritten]
  /\ UNCHANGED <<sleeper, overrides, cut, crossed, failures>>

(* A statement fails, or the server dies: what ran stays.                  *)
RuleFails(a) ==
  /\ author[a].stage # "idle" /\ failures < MaxFailures
  /\ author' = [author EXCEPT ![a] = Unwritten]
  /\ cut' = IF author[a].stage = "retire" THEN cut \cup {author[a].id} ELSE cut
  /\ failures' = failures + 1
  /\ UNCHANGED <<pinboard, sleeper, overrides, crossed>>

-----------------------------------------------------------------------------
(* segment_episodes.                                                       *)

Covered == UNION {pinboard[i].of : i \in Ids}
Uncovered(ns) ==
  {i \in Ids : /\ pinboard[i].kind = "turn" /\ pinboard[i].ns = ns
               /\ i \notin Covered}

(* Turns of different sessions, or far apart, are groups of their own.     *)
SegmentRead(p) ==
  /\ sleeper[p] = {}
  /\ \E ns \in Spaces3 : \E apart \in SUBSET Uncovered(ns) :
       LET together == Uncovered(ns) \ apart
       IN sleeper' = [sleeper EXCEPT ![p] =
            ({{i} : i \in apart} \cup {together}) \ {{}}]
  /\ sleeper'[p] # {}
  /\ UNCHANGED <<pinboard, author, overrides, cut, crossed, failures>>

(* All turns of the group are constraints, so the episode is one: it gets  *)
(* the type and no subject.                                                *)
SegmentWrite(p) ==
  /\ Len(pinboard) < MaxRows
  /\ \E g \in sleeper[p] :
       /\ pinboard' = Append(pinboard,
            PinRow("episode", pinboard[CHOOSE i \in g : TRUE].ns,
                   UNION {pinboard[i].says : i \in g}, NoTag, g))
       /\ sleeper' = [sleeper EXCEPT ![p] = @ \ {g}]
  /\ UNCHANGED <<author, overrides, cut, crossed, failures>>

(* The summary or its embedding fails, or the process dies.                *)
SegmentFails(p) ==
  /\ sleeper[p] # {} /\ failures < MaxFailures
  /\ sleeper' = [sleeper EXCEPT ![p] = {}]
  /\ failures' = failures + 1
  /\ UNCHANGED <<pinboard, author, overrides, cut, crossed>>

(* add_constraint_override refuses unrelated namespaces.                   *)
AddOverrideSwapped ==                         \* mutant: parent and child swapped
  \E e \in Edges :
    /\ overrides' = overrides \cup {e}
    /\ UNCHANGED <<pinboard, author, sleeper, cut, crossed, failures>>

AddOverride ==
  \E e \in Edges :
    /\ overrides' = overrides \cup {<<e[2], e[1]>>}
    /\ UNCHANGED <<pinboard, author, sleeper, cut, crossed, failures>>

RemoveOverride ==
  \E e \in overrides :
    /\ overrides' = overrides \ {e}
    /\ UNCHANGED <<pinboard, author, sleeper, cut, crossed, failures>>

ConstraintNext ==
  \/ \E a \in Authors : \/ InsertRule(a)     \/ RetireTurns(a)
                         \/ RetireEpisodes(a)
                         \/ RuleFails(a)
  \/ \E p \in Sleepers : SegmentRead(p) \/ SegmentWrite(p) \/ SegmentFails(p)
  \/ AddOverride \/ RemoveOverride

ConstraintSpec == ConstraintInit /\ [][ConstraintNext]_constraintVars

-----------------------------------------------------------------------------
(* pinned_constraints over the namespaces nss of one recall.               *)

(* An episode is as old as its first turn.                                 *)
Age(i) == IF pinboard[i].kind = "turn" THEN i
          ELSE CHOOSE t \in pinboard[i].of : \A u \in pinboard[i].of : t <= u
Older(i, j) == Age(i) < Age(j) \/ (Age(i) = Age(j) /\ i < j)

(* The live rows, the oldest of each text.                                 *)
Candidates(nss) ==
  LET rows == {i \in Ids : Live(i) /\ pinboard[i].ns \in nss}
  IN {i \in rows : ~\E j \in rows \ {i} : Content(j) = Content(i) /\ Older(j, i)}

(* An ancestor beats its descendant unless an edge says the reverse.       *)
Beats(a, b) == \/ <<a, b>> \in Above /\ <<b, a>> \notin overrides
               \/ <<b, a>> \in Above /\ <<a, b>> \in overrides

(* Mutant: a cycle suppresses every row of the subject.                    *)
LosersOfACycle(group) ==
  {i \in group : \E j \in group : Beats(pinboard[j].ns, pinboard[i].ns)}

(* A subject whose namespaces are all beaten (a cycle) keeps every row.    *)
Losers(group) ==
  LET spaces == {pinboard[i].ns : i \in group}
      beaten == {n \in spaces : \E m \in spaces : Beats(m, n)}
  IN IF beaten = spaces THEN {}
     ELSE {i \in group : pinboard[i].ns \in beaten}

SameTag(rows, tag) == {i \in rows : pinboard[i].tag = tag}

Pins(nss) ==
  LET rows == Candidates(nss)
  IN {i \in rows : \/ pinboard[i].tag = NoTag
                   \/ i \notin Losers(SameTag(rows, pinboard[i].tag))}

-----------------------------------------------------------------------------
(* Type invariant.                                                         *)
ConstraintTypeOK ==
  /\ Len(pinboard) <= MaxRows
  /\ \A i \in Ids : /\ pinboard[i].kind \in {"turn", "episode"}
                    /\ pinboard[i].ns \in Spaces3
                    /\ pinboard[i].says \subseteq Rules
                    /\ pinboard[i].of \subseteq Ids /\ pinboard[i].retired \in Ids \cup {0}
  /\ \A a \in Authors :
       author[a].stage \in {"idle", "retire", "episodes"}
  /\ \A p \in Sleepers : \A g \in sleeper[p] : g \subseteq Ids
  /\ \A e \in overrides : <<e[2], e[1]>> \in Above
  /\ cut \cup crossed \subseteq Ids
  /\ failures \in 0..MaxFailures

(* Two live constraint turns of one subject and namespace: one was written *)
(* by a request that failed before it retired the others, or one of the    *)
(* two requests has its retirement still to do.                            *)
OneRulePerSubject ==
  \A i, j \in Ids :
    /\ i # j /\ Live(i) /\ Live(j)
    /\ pinboard[i].kind = "turn" /\ pinboard[j].kind = "turn"
    /\ pinboard[i].ns = pinboard[j].ns /\ pinboard[i].tag = pinboard[j].tag
    => \/ {i, j} \cap cut # {}
       \/ \E a \in Authors : author[a].stage = "retire" /\ author[a].id \in {i, j}

(* A superseded constraint has a live successor under its subject, unless  *)
(* writes of that subject overlapped: then each may have retired the       *)
(* other's row, and the subject is left with none.                         *)
SubjectLostOnlyInARace ==
  \A i \in Ids :
    pinboard[i].kind = "turn" /\ ~Live(i) =>
      \E j \in Ids : /\ pinboard[j].ns = pinboard[i].ns
                     /\ pinboard[j].tag = pinboard[i].tag
                     /\ Live(j) \/ j \in crossed

(* Whatever namespaces a recall consults (one without rows adds nothing)   *)
(* and whatever override edges there are, precedence leaves every subject  *)
(* at least one pin.                                                       *)
NoSubjectSilenced ==
  \A nss \in SUBSET {pinboard[i].ns : i \in Ids} :
    LET shown == {pinboard[i].tag : i \in Pins(nss)}
    IN {pinboard[i].tag : i \in Candidates(nss)} \subseteq shown

(* A subject has one live constraint, lost only in a race of two writes,   *)
(* and a recall pins one.                                                  *)
ConstraintsSound ==
  OneRulePerSubject /\ SubjectLostOnlyInARace /\ NoSubjectSilenced
=============================================================================
