------------------------------ MODULE DocIngest ------------------------------
(***************************************************************************)
(* The design documents a launch of Tommy ingests into the corpus          *)
(* (agents/tommy/tommy/cli.py, _auto_ingest_changed_docs): those git says  *)
(* changed in the last commits, read from the working tree, one POST each. *)
(* What an ingest does to the corpus is module Corpus; here a document is  *)
(* the text last ingested, and its weight the rules found in the text.     *)
(***************************************************************************)
EXTENDS Naturals, Sequences

CONSTANTS
  Papers,        \* documents matching the design_docs globs
  PaperTexts,      \* their texts; 0 is no file
  Weight,        \* Weight[v]: the rules in a text
  WindowBack,    \* commits looked back (10)
  Drivers,       \* launches of Tommy
  MaxEdits, MaxCommits, MaxLaunchings, MaxPostFailures \* bounds

ASSUME DocBounds ==
  {MaxEdits, MaxCommits, MaxLaunchings, MaxPostFailures} \subseteq Nat /\ MaxCommits # 0
ASSUME NoFileNoRules == 0 \in PaperTexts /\ Weight \in [PaperTexts -> Nat] /\ Weight[0] = 0

VARIABLES
  tree,      \* tree[p]: the text in the working tree
  history,   \* history[i][p]: the text in commit i
  held,      \* held[p]: the text the corpus holds, 0 if none
  driver,    \* driver[l]: its step, the documents to do, the text of the one in
             \* hand, the rules the corpus listed before
  due,       \* documents edited since a launch last looked
  unseen,    \* documents the last look found unchanged
  slips,     \* "overlap", "failed", "no_list"
  quietDrop, \* a document lost rules and no warning was given
  edits, launchings, postFailures

docVars == <<tree, history, held, driver, due, unseen, slips, quietDrop, edits,
             launchings, postFailures>>

Off == [step |-> "off", todo |-> {}, text |-> 0, prior |-> [p \in Papers |-> 0]]

(* _git_diff_base: HEAD~10, or the oldest commit there is.                 *)
Base == IF Len(history) > WindowBack THEN Len(history) - WindowBack ELSE 1
(* _changed_files_since: git diff compares the two commits, not what lies  *)
(* between them.                                                           *)
Changed == {p \in Papers : history[Base][p] # history[Len(history)][p]}

-----------------------------------------------------------------------------
DocInit ==
  /\ tree = [p \in Papers |-> 0] /\ history = <<tree>>
  /\ held = tree /\ driver = [l \in Drivers |-> Off]
  /\ due = {} /\ unseen = {} /\ slips = {} /\ quietDrop = FALSE
  /\ edits = 0 /\ launchings = 0 /\ postFailures = 0

EditPaper(p) ==
  /\ edits < MaxEdits /\ edits' = edits + 1
  /\ \E v \in PaperTexts \ {tree[p]} : tree' = [tree EXCEPT ![p] = v]
  /\ due' = due \cup {p}
  /\ UNCHANGED <<history, held, driver, unseen, slips, quietDrop, launchings, postFailures>>

CommitTree ==
  /\ Len(history) < MaxCommits /\ history[Len(history)] # tree
  /\ history' = Append(history, tree)
  /\ UNCHANGED <<tree, held, driver, due, unseen, slips, quietDrop, edits, launchings,
                 postFailures>>

(* The diff is taken, then the corpus is listed; a failed listing counts   *)
(* for nothing held.                                                       *)
LookForChanges(l) ==
  /\ driver[l] = Off /\ launchings < MaxLaunchings /\ launchings' = launchings + 1
  /\ driver' = [driver EXCEPT ![l].step = IF Changed = {} THEN "off" ELSE "list",
                              ![l].todo = Changed]
  /\ due' = {} /\ unseen' = Papers \ Changed
  /\ slips' = slips \cup (IF \E k \in Drivers : driver[k] # Off THEN {"overlap"} ELSE {})
  /\ UNCHANGED <<tree, history, held, quietDrop, edits, postFailures>>

ListCorpus(l) ==
  /\ driver[l].step = "list"
  /\ \/ /\ driver' = [driver EXCEPT ![l].step = "read",
                                    ![l].prior = [p \in Papers |-> Weight[held[p]]]]
        /\ UNCHANGED <<slips, postFailures>>
     \/ /\ postFailures < MaxPostFailures /\ postFailures' = postFailures + 1
        /\ driver' = [driver EXCEPT ![l].step = "read"]
        /\ slips' = slips \cup {"no_list"}
  /\ UNCHANGED <<tree, history, held, due, unseen, quietDrop, edits, launchings>>

(* In the order of their names; nothing depends on it.                     *)
Foremost(l) == CHOOSE p \in driver[l].todo : TRUE
Passed(l, step) ==
  IF driver[l].todo = {Foremost(l)} THEN Off
  ELSE [driver[l] EXCEPT !.todo = @ \ {Foremost(l)}, !.step = step]

(* A document deleted since is passed over, and stays in the corpus.       *)
ReadPaper(l) ==
  /\ driver[l].step = "read"
  /\ driver' = [driver EXCEPT ![l] = IF tree[Foremost(l)] = 0 THEN Passed(l, "read")
                                     ELSE [@ EXCEPT !.step = "post", !.text = tree[Foremost(l)]]]
  /\ due' = due \ {Foremost(l)}
  /\ UNCHANGED <<tree, history, held, unseen, slips, quietDrop, edits, launchings,
                 postFailures>>

PostPaper(l) ==
  LET p == Foremost(l) IN
  /\ driver[l].step = "post"
  /\ held' = [held EXCEPT ![p] = driver[l].text]
  /\ quietDrop' = (quietDrop \/ /\ Weight[driver[l].text] < Weight[held[p]]
                                /\ Weight[driver[l].text] >= driver[l].prior[p])
  /\ driver' = [driver EXCEPT ![l] = Passed(l, "read")]
  /\ UNCHANGED <<tree, history, due, unseen, slips, edits, launchings, postFailures>>

PostFails(l) ==
  /\ driver[l].step = "post" /\ postFailures < MaxPostFailures
  /\ postFailures' = postFailures + 1
  /\ driver' = [driver EXCEPT ![l] = Passed(l, "read")]
  /\ slips' = slips \cup {"failed"}
  /\ UNCHANGED <<tree, history, held, due, unseen, quietDrop, edits, launchings>>

DocNext ==
  \/ \E p \in Papers : EditPaper(p)
  \/ CommitTree
  \/ \E l \in Drivers : \/ LookForChanges(l) \/ ListCorpus(l) \/ ReadPaper(l)
                        \/ PostPaper(l) \/ PostFails(l)

DocSpec == DocInit /\ [][DocNext]_docVars

-----------------------------------------------------------------------------
(* Type invariant.                                                         *)
DocTypeOK ==
  /\ {tree, held} \subseteq [Papers -> PaperTexts]
  /\ history \in Seq([Papers -> PaperTexts]) /\ Len(history) \in 1..MaxCommits
  /\ \A l \in Drivers : /\ driver[l].step \in {"off", "list", "read", "post"}
                        /\ driver[l].todo \subseteq Papers
  /\ (due \cup unseen) \subseteq Papers /\ quietDrop \in BOOLEAN
  /\ slips \subseteq {"overlap", "failed", "no_list"}

(* Between launches the corpus holds every document as the working tree    *)
(* has it, except one deleted, one edited since, and one that git found    *)
(* unchanged: put back to the older commit's text, committed too long ago, *)
(* or not committed at all.  A failed POST is not tried again by itself.   *)
CorpusFollowsTree ==
  slips \subseteq {"no_list"} /\ (\A l \in Drivers : driver[l] = Off) =>
    \A p \in Papers : held[p] = tree[p] \/ tree[p] = 0 \/ p \in due \cup unseen

(* A document does not lose rules without a warning, as long as launches   *)
(* do not overlap and the corpus could be listed.                          *)
DropsAreTold == quietDrop => slips \cap {"overlap", "no_list"} # {}
=============================================================================
