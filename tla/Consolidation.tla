----------------------------- MODULE Consolidation ---------------------------
(***************************************************************************)
(* The sleep pass over a namespace: its facts are read, a language model   *)
(* condenses them per subject with no connection held, and the dossiers    *)
(* and inferred conclusions are written, each statement committed alone.   *)
(* The nightly scheduler runs it for a namespace that looks dirty, the     *)
(* server whenever it is asked; facts arrive throughout.                   *)
(***************************************************************************)
EXTENDS Naturals, Sequences, FiniteSets

CONSTANTS
  Subjects, Sayings,   \* two different sayings of a subject are similar, so in the band
  Stated,              \* what the facts say
  Passes, Nightly,     \* processes that may run a pass; the scheduler's
  Dates, MinFacts,     \* valid_from of a fact; 3 facts make a cluster
  MaxFacts, MaxRuns,   \* facts written, passes begun
  NoSubject

ASSUME SleepBounds ==
  /\ Stated \subseteq Sayings /\ Nightly \in Passes /\ Dates \subseteq Nat \ {0}
  /\ MinFacts \in Nat \ {0} /\ MaxFacts \in Nat /\ MaxRuns \in Nat

VARIABLES
  memory,   \* semantic: [id, kind, subject, saying, from, to, run]; to = 0: current
  lastRow,  \* the id last given; created_at is in its order
  pass,     \* pass[p]: where p is, and what it has read and is to write
  runs,     \* passes begun
  raced,    \* runs that had another beside them
  written,  \* ids of facts of which a run that read them has written a dossier
  excused   \* facts written during a run, or that a run read and passed over

sleepVars == <<memory, lastRow, pass, runs, raced, written, excused>>

NoItem == <<NoSubject, NoSubject>>
Awake == [at |-> "awake", run |-> 0, read |-> {}, dossiers |-> {}, inferred |-> {},
          item |-> NoItem]
Current(r) == r.to = 0
Facts == {r \in memory : r.kind = "fact"}
Asleep == {p \in Passes : pass[p] # Awake}
IdsOf(R) == {r.id : r \in R}

SleepInit ==
  /\ memory = {} /\ lastRow = 0 /\ pass = [p \in Passes |-> Awake] /\ runs = 0
  /\ raced = {} /\ written = {} /\ excused = {}

Row(kind, s, x, from, run) ==
  [id |-> lastRow + 1, kind |-> kind, subject |-> s, saying |-> x, from |-> from,
   to |-> 0, run |-> run]
Insert(kind, s, x, from, run) ==
  memory' = memory \cup {Row(kind, s, x, from, run)} /\ lastRow' = lastRow + 1

(* A fact is extracted from a turn.                                        *)
FactArrives(s, x, from) ==
  /\ Cardinality(Facts) < MaxFacts /\ Insert("fact", s, x, from, 0)
  /\ excused' = IF Asleep = {} THEN excused ELSE excused \cup {lastRow + 1}
  /\ UNCHANGED <<pass, runs, raced, written>>

-----------------------------------------------------------------------------
(* dirty_namespaces: facts but no dossier, or a fact newer than the newest *)
(* dossier.                                                                *)
Newest(kind) == {r \in memory : r.kind = kind /\
                   \A q \in memory : q.kind = kind => q.id <= r.id}
Dirty == \/ Facts # {} /\ Newest("dossier") = {}
         \/ \E f \in Newest("fact"), d \in Newest("dossier") : f.id > d.id

(* The read phase: every fact, closed ones too.                            *)
BeginPass(p) ==
  /\ pass[p] = Awake /\ runs < MaxRuns /\ runs' = runs + 1 /\ Facts # {}
  /\ p = Nightly => Dirty
  /\ pass' = [pass EXCEPT ![p] = [Awake EXCEPT !.at = "read", !.run = runs + 1,
                                               !.read = Facts]]
  /\ raced' = IF Asleep = {} THEN raced
              ELSE raced \cup {runs + 1} \cup {pass[q].run : q \in Asleep}
  /\ UNCHANGED <<memory, lastRow, written, excused>>

Cluster(p, s) == {f \in pass[p].read : f.subject = s}
(* The date of a dossier is that of the latest of its facts.               *)
DateOf(p, s) == CHOOSE d \in {f.from : f \in Cluster(p, s)} :
                  \A f \in Cluster(p, s) : f.from <= d

(* Clusters below the size are left out.                                   *)
Clusters(p) == {s \in Subjects : Cardinality(Cluster(p, s)) >= MinFacts}
(* infer_conclusions finds a pattern in some of them, or none; one         *)
(* conclusion on a subject stands for all that one call returns.           *)
Conclusions(p) == SUBSET Clusters(p)

(* The model phase: for some of the clusters there are dossier sentences;  *)
(* a failed call gives none.                                               *)
Condense(p) ==
  /\ pass[p].at = "read"
  /\ \E found \in SUBSET Clusters(p), xs \in (SUBSET Sayings) \ {{}} :
     \E inferred \in Conclusions(p) :
       /\ pass' = [pass EXCEPT ![p].at = "close", ![p].dossiers = found \X xs,
                               ![p].inferred = inferred]
       /\ excused' = excused \cup {f.id : f \in {g \in pass[p].read :
                                                   g.subject \notin found}}
  /\ UNCHANGED <<memory, lastRow, runs, raced, written>>

(* supersede_subject: similar rows of the subject that began earlier end,  *)
(* whatever their kind.                                                    *)
Closes(r, s, x, from) ==
  Current(r) /\ r.subject = s /\ r.saying # x /\ r.from < from

CloseSubject(p) ==
  /\ pass[p].at = "close" /\ pass[p].dossiers # {}
  /\ LET i == CHOOSE j \in pass[p].dossiers : TRUE
         from == DateOf(p, i[1])
     IN /\ memory' = {IF Closes(r, i[1], i[2], from)
                      THEN [r EXCEPT !.to = from] ELSE r : r \in memory}
        /\ pass' = [pass EXCEPT ![p].at = "insert", ![p].item = i]
  /\ UNCHANGED <<lastRow, runs, raced, written, excused>>

WriteDossier(p) ==
  /\ pass[p].at = "insert"
  /\ LET s == pass[p].item[1]
     IN /\ Insert("dossier", s, pass[p].item[2], DateOf(p, s), pass[p].run)
        /\ written' = written \cup IdsOf(Cluster(p, s))
  /\ pass' = [pass EXCEPT ![p].at = "close", ![p].item = NoItem,
                          ![p].dossiers = @ \ {pass[p].item}]
  /\ UNCHANGED <<runs, raced, excused>>

(* supersede_inferred, and then a conclusion.                              *)
EndsInferred(r, s) == Current(r) /\ r.subject = s /\ r.kind = "inferred"
CloseInferred(p) ==
  /\ pass[p].at = "close" /\ pass[p].dossiers = {}
  /\ \E s \in pass[p].inferred :
       /\ memory' = {IF EndsInferred(r, s) THEN [r EXCEPT !.to = DateOf(p, s)] ELSE r
                     : r \in memory}
       /\ pass' = [pass EXCEPT ![p].at = "infer", ![p].item = <<s, NoSubject>>,
                               ![p].inferred = @ \ {s}]
  /\ UNCHANGED <<lastRow, runs, raced, written, excused>>

WriteInferred(p) ==
  /\ pass[p].at = "infer"
  /\ \E x \in Sayings : Insert("inferred", pass[p].item[1], x,
                               DateOf(p, pass[p].item[1]), pass[p].run)
  /\ pass' = [pass EXCEPT ![p].at = "close", ![p].item = NoItem]
  /\ UNCHANGED <<runs, raced, written, excused>>

EndPass(p) ==
  /\ pass[p].at = "close" /\ pass[p].dossiers = {} /\ pass[p].inferred = {}
  /\ pass' = [pass EXCEPT ![p] = Awake]
  /\ UNCHANGED <<memory, lastRow, runs, raced, written, excused>>

(* A statement fails, and with it the rest of its subject; or all of it.   *)
PassFails(p) ==
  /\ pass[p] # Awake
  /\ \/ pass' = [pass EXCEPT ![p] = Awake]
     \/ /\ pass[p].at \in {"insert", "infer"}
        /\ pass' = [pass EXCEPT
             ![p].at = "close", ![p].item = NoItem,
             ![p].dossiers = {i \in @ : i[1] # pass[p].item[1]}]
  /\ excused' = excused \cup IdsOf(pass[p].read)
  /\ UNCHANGED <<memory, lastRow, runs, raced, written>>

SleepNext ==
  \/ \E s \in Subjects, x \in Stated, from \in Dates : FactArrives(s, x, from)
  \/ \E p \in Passes :
       \/ BeginPass(p) \/ Condense(p) \/ CloseSubject(p) \/ WriteDossier(p)
       \/ CloseInferred(p) \/ WriteInferred(p) \/ EndPass(p) \/ PassFails(p)

SleepSpec == SleepInit /\ [][SleepNext]_sleepVars

-----------------------------------------------------------------------------
SleepTypeOK ==
  /\ IdsOf(memory) = 1..lastRow /\ Cardinality(memory) = lastRow
  /\ \A r \in memory : r.kind \in {"fact", "dossier", "inferred"} /\ r.subject \in Subjects
  /\ raced \subseteq 1..runs /\ runs <= MaxRuns
  /\ written \cup excused \subseteq IdsOf(Facts)

Live(kind) == {r \in memory : r.kind = kind /\ Current(r)}

(* Of two similar dossiers of a subject that both count as current, the    *)
(* one written later is not the staler one, unless passes ran side by side *)
(* (the slower one then writes what it read before).                       *)
NoStaleDossier ==
  \A r, q \in Live("dossier") :
    r.subject = q.subject /\ r.saying # q.saying /\ r.from < q.from
      => r.run \in raced \/ q.run \in raced

(* A pass keeps every sentence it writes: only a pass with newer facts     *)
(* ends them, never the pass itself or one that knows no more.             *)
SentencesKept ==
  \A r \in memory : r.kind = "dossier" /\ ~Current(r) =>
    \E q \in Facts : q.subject = r.subject /\ q.from = r.to /\ r.from < q.from

(* The current conclusions on a subject come from one pass.                *)
OneInference ==
  \A r, q \in Live("inferred") :
    r.subject = q.subject /\ r.run # q.run => r.run \in raced /\ q.run \in raced

(* When the scheduler finds the namespace clean, every fact has gone into  *)
(* a dossier, but for those a pass passed over or that came during one.    *)
CleanMeansDone == ~Dirty /\ Asleep = {} => IdsOf(Facts) \subseteq written \cup excused

SleepPassSound == NoStaleDossier /\ SentencesKept /\ OneInference /\ CleanMeansDone
=============================================================================
