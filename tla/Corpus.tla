-------------------------------- MODULE Corpus -------------------------------
(***************************************************************************)
(* The corpus of architecture rules: documents are ingested into rule rows *)
(* (a DELETE and an INSERT per rule, each committed alone), approved       *)
(* deviations are logged against a row's id, and code is checked against   *)
(* the rules of a namespace and its parents.  A check is one statement and *)
(* then a pure computation, so it is an operator of the state.             *)
(***************************************************************************)
EXTENDS Naturals, Sequences, FiniteSets

CONSTANTS
  Docs, Rules,
  Texts,               \* the sets of rules a document may be found to hold
  Lineage,             \* a namespace, then its ancestors, the nearest first
  NsOf,                \* NsOf[d]: the namespace document d belongs to
  Score,               \* Score[x]: how well rule x matches a query
  Prohibitions,        \* the rules with a SHALL NOT; the others require
  Windows,             \* [since, until] an ingest may carry; 0: open
  Versions, HunkHits,  \* releases; [add, rem]: words a hunk shares with a rule
  Ingesters,
  PoolCap, MinOverlap, \* per_ns_cap, _DIFF_MIN_OVERLAP
  MaxIngests, MaxDeviations,
  NoDoc

ASSUME CorpusBounds ==
  /\ Texts \subseteq SUBSET Rules /\ {PoolCap, MinOverlap} \subseteq Nat \ {0}
  /\ Versions \subseteq Nat \ {0} /\ NoDoc \notin Docs
  /\ MaxIngests \in Nat /\ MaxDeviations \in Nat /\ Prohibitions \subseteq Rules
  /\ IsFiniteSet(Rules) /\ Score \in [Rules -> Nat]
  /\ Lineage \in Seq({Lineage[i] : i \in DOMAIN Lineage})
  /\ \A d \in Docs : \E i \in DOMAIN Lineage : Lineage[i] = NsOf[d]
  /\ \A w \in Windows : w.since = 0 \/ w.until = 0 \/ w.since < w.until

VARIABLES
  rows,       \* semantic rows of kind 'constraint': [id, doc, rule, since, until]
  nextRow,    \* the next value of the id sequence
  sources,    \* corpus_sources: sources[d] is the recorded count, or none
  deviations, \* corpus_deviations, the oldest first: [ns, id, rule, until]
  ingest,     \* ingest[p]: the ingest request handler p is serving
  approval,   \* the deviation request under way
  edition,    \* edition[d]: the text and window last given for document d
  torn,       \* documents whose last ingest died or ran beside another
  alerted,    \* <<ns, d>>: ns has been told of the edition of d
  ingests     \* ingests begun

corpusVars == <<rows, nextRow, sources, deviations, ingest, approval, edition, torn,
                alerted, ingests>>

Unrecorded == 999
NotIngesting == [doc |-> NoDoc, todo |-> {}, count |-> 0, stage |-> "idle"]
NoApproval == [id |-> 0, rule |-> NoDoc, ns |-> NoDoc, until |-> 0]
RowsOf(d) == {r \in rows : r.doc = d}
Depth(ns) == CHOOSE i \in DOMAIN Lineage : Lineage[i] = ns
Ingesting(d) == {p \in Ingesters : ingest[p].doc = d}

CorpusInit ==
  /\ rows = {} /\ nextRow = 1 /\ sources = [d \in Docs |-> Unrecorded]
  /\ deviations = <<>> /\ ingest = [p \in Ingesters |-> NotIngesting]
  /\ approval = NoApproval /\ torn = {} /\ alerted = {} /\ ingests = 0
  /\ edition = [d \in Docs |-> [text |-> {}, since |-> 0, until |-> 0]]

-----------------------------------------------------------------------------
(* ingest_constraints: the rules of the earlier edition go.                *)
(* A mutated DELETE that spares the rules of another version window.       *)
DroppedOfWindow(d, w) == {r \in RowsOf(d) : r.since = w.since /\ r.until = w.until}
Dropped(d, w) == RowsOf(d)

NextIngester == CHOOSE p \in Ingesters : ingest[p] = NotIngesting
BeginIngest(p, d, text, w) ==
  /\ ingest[p] = NotIngesting /\ p = NextIngester   \* handlers are alike
  /\ ingests < MaxIngests /\ ingests' = ingests + 1
  /\ rows' = rows \ Dropped(d, w)
  /\ ingest' = [ingest EXCEPT ![p] = [doc |-> d, todo |-> text, stage |-> "insert",
                                      count |-> Cardinality(text)]]
  /\ edition' = [edition EXCEPT ![d] = [text |-> text, since |-> w.since, until |-> w.until]]
  /\ torn' = IF Ingesting(d) = {} THEN torn \ {d} ELSE torn \cup {d}
  /\ alerted' = {a \in alerted : a[2] # d}
  /\ UNCHANGED <<nextRow, sources, deviations, approval>>

NewId == nextRow

InsertRule(p) ==
  /\ ingest[p].stage = "insert" /\ ingest[p].todo # {}
  /\ LET d == ingest[p].doc
         x == CHOOSE y \in ingest[p].todo : TRUE
     IN /\ rows' = rows \cup {[id |-> NewId, doc |-> d, rule |-> x,
                               since |-> edition[d].since, until |-> edition[d].until]}
        /\ ingest' = [ingest EXCEPT ![p].todo = @ \ {x}]
  /\ nextRow' = nextRow + 1
  /\ UNCHANGED <<sources, deviations, approval, edition, torn, alerted, ingests>>

(* Control.corpus_record, once the last rule is in.                        *)
Records(p) == ingest[p].stage = "insert" /\ ingest[p].todo = {}
RecordSource(p) ==
  /\ Records(p)
  /\ sources' = [sources EXCEPT ![ingest[p].doc] = ingest[p].count]
  /\ ingest' = [ingest EXCEPT ![p].stage = "list"]
  /\ UNCHANGED <<rows, nextRow, deviations, approval, edition, torn, alerted, ingests>>

(* corpus_descendants: the namespaces below that have documents recorded;  *)
(* a failed listing counts as none.                                        *)
Descendants(d) ==
  {NsOf[e] : e \in {f \in Docs : /\ Depth(NsOf[f]) < Depth(NsOf[d])
                                 /\ sources[f] # Unrecorded}}
ListDescendants(p) ==
  /\ ingest[p].stage = "list"
  /\ \E targets \in {Descendants(ingest[p].doc), {}} :
       ingest' = [ingest EXCEPT ![p] = [@ EXCEPT !.stage = "alert", !.todo = targets]]
  /\ UNCHANGED <<rows, nextRow, sources, deviations, approval, edition, torn, alerted,
                 ingests>>

(* One raw turn per descendant, then the answer.                           *)
Alert(p) ==
  /\ ingest[p].stage = "alert"
  /\ \/ \E ns \in ingest[p].todo :
          /\ alerted' = alerted \cup {<<ns, ingest[p].doc>>}
          /\ ingest' = [ingest EXCEPT ![p].todo = @ \ {ns}]
     \/ /\ ingest[p].todo = {} /\ UNCHANGED alerted
        /\ ingest' = [ingest EXCEPT ![p] = NotIngesting]
  /\ UNCHANGED <<rows, nextRow, sources, deviations, approval, edition, torn, ingests>>

(* A statement fails, or the server dies.                                  *)
IngestFails(p) ==
  /\ ingest[p] # NotIngesting
  /\ ingest' = [ingest EXCEPT ![p] = NotIngesting]
  /\ torn' = IF ingest[p].stage = "insert" THEN torn \cup {ingest[p].doc} ELSE torn
  /\ UNCHANGED <<rows, nextRow, sources, deviations, approval, edition, alerted, ingests>>

-----------------------------------------------------------------------------
(* /corpus/deviation: the rule is looked up, and then the decision logged; *)
(* the rule may have been ingested anew in between.                        *)
Approve(r, until) ==
  /\ approval = NoApproval /\ Len(deviations) < MaxDeviations
  /\ approval' = [id |-> r.id, rule |-> r.rule, ns |-> NsOf[r.doc], until |-> until]
  /\ UNCHANGED <<rows, nextRow, sources, deviations, ingest, edition, torn, alerted, ingests>>

LogDeviation ==
  /\ approval # NoApproval /\ deviations' = Append(deviations, approval)
  /\ approval' = NoApproval
  /\ UNCHANGED <<rows, nextRow, sources, ingest, edition, torn, alerted, ingests>>

CorpusNext ==
  \/ \E p \in Ingesters : InsertRule(p) \/ RecordSource(p) \/ ListDescendants(p)
                          \/ Alert(p) \/ IngestFails(p)
  \/ \E p \in Ingesters, d \in Docs, text \in Texts, w \in Windows :
       BeginIngest(p, d, text, w)
  \/ \E r \in rows, until \in Versions \cup {0} : Approve(r, until)
  \/ LogDeviation

CorpusSpec == CorpusInit /\ [][CorpusNext]_corpusVars

-----------------------------------------------------------------------------
(* corpus_check: of the rows (those that match the words of a query), at   *)
(* most k, at a version (0: none given).                                   *)
Better(r, s) == \/ Score[r.rule] > Score[s.rule]
                \/ Score[r.rule] = Score[s.rule] /\ r.id < s.id
Nearer(r, s) == \/ Depth(NsOf[r.doc]) < Depth(NsOf[s.doc])
                \/ NsOf[r.doc] = NsOf[s.doc] /\ Better(r, s)
At(R, ns) == {r \in R : NsOf[r.doc] = ns}
LevelsOf(R) == {NsOf[r.doc] : r \in R}
Best(R, n) == IF Cardinality(R) <= n THEN R
              ELSE {r \in R : Cardinality({s \in R : Better(s, r)}) < n}
Nearest(R, n) == IF Cardinality(R) <= n THEN R
                 ELSE {r \in R : Cardinality({s \in R : Nearer(s, r)}) < n}

Pool == UNION {Best(At(rows, Lineage[i]), PoolCap) : i \in DOMAIN Lineage}
Introduced(r, v) == v = 0 \/ r.since = 0 \/ v >= r.since

(* The candidates of corpus_check, before they are ranked.                 *)
Filtered(v) == {r \in Pool : Introduced(r, v)}

(* _rank_by_specificity: a fair share of the k places for every level.     *)
Rank(R, k) ==
  LET share == IF k \div Cardinality(LevelsOf(R)) = 0 THEN 1
               ELSE k \div Cardinality(LevelsOf(R))
      shared == UNION {Best(At(R, ns), share) : ns \in LevelsOf(R)}
      more == IF Cardinality(shared) >= k THEN {}
              ELSE Nearest(R \ shared, k - Cardinality(shared))
  IN IF R = {} THEN {} ELSE Nearest(shared \cup more, k)

(* The most recent deviation on file for the row.                          *)
OnFile(r) == {i \in DOMAIN deviations :
                deviations[i].ns = NsOf[r.doc] /\ deviations[i].id = r.id}
Latest(r) == deviations[CHOOSE i \in OnFile(r) : \A j \in OnFile(r) : j <= i]
Deviates(r, v) == OnFile(r) # {} /\ (v = 0 \/ Latest(r).until = 0 \/ v < Latest(r).until)
Status(r, v) ==
  IF Deviates(r, v) THEN "approved_deviation"
  ELSE IF v # 0 /\ r.until # 0 /\ v >= r.until THEN "expired" ELSE "active"

(* corpus_check_diff: each hunk votes for itself.                          *)
Vote(x, h) ==
  IF h.add < MinOverlap /\ h.rem < MinOverlap THEN "none"
  ELSE IF (h.add >= h.rem) <=> (x \in Prohibitions) THEN "violated" ELSE "satisfied"
Votes(x, hs) == {Vote(x, h) : h \in hs}
Verdict(x, status, hs) ==
  IF "violated" \in Votes(x, hs)
  THEN IF status = "active" THEN "violated" ELSE "deviated"
  ELSE IF "satisfied" \in Votes(x, hs) THEN "satisfied" ELSE "uncovered"
(* The rules a check at version v holds a diff to, with their standing.    *)
CheckDiff(v) == {<<r.rule, Status(r, v)>> : r \in Filtered(v)}

-----------------------------------------------------------------------------
CorpusTypeOK ==
  /\ \A r \in rows : r.id < nextRow /\ r.doc \in Docs /\ r.rule \in Rules
  /\ sources \in [Docs -> 0..Cardinality(Rules) \cup {Unrecorded}]
  /\ Len(deviations) <= MaxDeviations /\ torn \subseteq Docs
  /\ \A p \in Ingesters : ingest[p].stage \in {"idle", "insert", "list", "alert"}

AsGiven(d) ==
  /\ {<<r.rule, r.since, r.until>> : r \in RowsOf(d)}
       = {<<x, edition[d].since, edition[d].until>> : x \in edition[d].text}
  /\ Cardinality(RowsOf(d)) = Cardinality(edition[d].text)

(* An ingest that was not cut short and had no other beside it leaves its  *)
(* edition and nothing of an earlier one, whatever came before it; and who *)
(* is alerted to a new edition, and checks, finds all of it in force.      *)
RulesAsIngested ==
  \A d \in Docs \ torn :
    /\ Ingesting(d) = {} => AsGiven(d)
    /\ (\E ns \in LevelsOf(rows) \cup {NsOf[e] : e \in Docs} : <<ns, d>> \in alerted)
         => AsGiven(d) /\ sources[d] = Cardinality(edition[d].text)

(* A deviation excuses the rule it was approved for and no other, whatever *)
(* is ingested anew meanwhile, and for no release past its own end.        *)
DeviationsStayPut ==
  \A r \in rows, v \in Versions \cup {0} :
    Status(r, v) = "approved_deviation" =>
      \E i \in DOMAIN deviations :
        /\ deviations[i].id = r.id /\ deviations[i].rule = r.rule
        /\ v = 0 \/ deviations[i].until = 0 \/ v < deviations[i].until

(* Every level with a rule in the pool that is in force at the version is  *)
(* heard when there are places for all levels, and no place stays empty    *)
(* while a rule is left out.                                               *)
EveryLevelHeard ==
  \A R \in {Filtered(v) : v \in Versions \cup {0}} :
    LET levels == LevelsOf(R)
        size == Cardinality(R)
    IN \A k \in 1..Cardinality(rows) :
         LET out == Rank(R, k)
         IN /\ k >= Cardinality(levels) => LevelsOf(out) = levels
            /\ Cardinality(out) = IF size < k THEN size ELSE k

(* A hunk that by itself breaks a rule in force is never made good by      *)
(* another hunk of the diff, nor is a diff held to break a rule that none  *)
(* of its hunks breaks, whatever the rule's standing at the version.       *)
NoHunkHidesAnother ==
  \A v \in Versions \cup {0}, hs \in SUBSET HunkHits : \A x \in CheckDiff(v) :
    Verdict(x[1], x[2], hs) = "violated"
      <=> \E h \in hs : Verdict(x[1], x[2], {h}) = "violated"
=============================================================================
