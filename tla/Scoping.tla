------------------------------ MODULE Scoping ------------------------------
(***************************************************************************)
(* Tommy's dispatch-scoped workspace files (memnos_scope.py; the launches  *)
(* of mcp_server.py and cli.py).  Dispatches into one workspace share one  *)
(* snapshot of its .mcp.json and settings.local.json: the first to come    *)
(* takes it, the last live one to leave puts it back.  People and the      *)
(* harness edit the files meanwhile; Tommy processes die anywhere.         *)
(***************************************************************************)
EXTENDS Naturals, FiniteSets

CONSTANTS
  Dispatches, ProcessOf, \* dispatches, and the Tommy process that runs each
  Slots,                 \* the managed files
  MaxEdits, MaxDeaths    \* bounds: edits by hand, processes killed

ASSUME ScopingBounds == MaxEdits \in Nat /\ MaxDeaths \in Nat

VARIABLES
  file,     \* file[s]: whose text it has, and whether the memnos block is in
  state,    \* the shared state file: holders, snapshot, what was last written
  at,       \* at[d]: where the dispatch is
  mem,      \* the state as the dispatch inside the lock has it in memory
  left,     \* slots that dispatch has still to treat
  dead,     \* processes that are gone
  recycled, \* dead processes whose pid another program has
  bound,    \* the workspace has a binding of its own
  latest,   \* latest[s]: the text a person last gave the file
  unblocked, \* slots whose block a person has taken out since it was written
  touched,  \* slots edited while the block was in
  rejoined, \* slots whose edit was signed as written by a later merge
  torn,     \* slots truncated by a death in the middle of a write
  window,   \* a death fell between a file's write and the state's
  edits

scopingVars == <<file, state, at, mem, left, dead, recycled, bound, latest,
                 unblocked, touched, rejoined, torn, window, edits>>
scopeGhosts == <<latest, unblocked, touched, rejoined, torn, window, edits>>

NoText    == 0                      \* the file does not exist, or held nothing
Original  == 1
Edited(n) == Original + n
Truncated == Edited(MaxEdits) + 1
Content == [text : NoText..Truncated, block : BOOLEAN]
Plain(t) == [text |-> t, block |-> FALSE]
NoState == [holders |-> {}, signed |-> {},
            prior |-> [s \in Slots |-> Plain(NoText)],
            wrote |-> [s \in Slots |-> Plain(NoText)]]

Inside == {"giving_back", "snapshot", "merging", "recording", "restoring", "clearing"}
Locked == \E d \in Dispatches : at[d] \in Inside
PidAlive(d) == ProcessOf[d] \notin dead \/ ProcessOf[d] \in recycled
LiveHolders == {d \in state.holders : PidAlive(d)}

ScopingInit ==
  /\ file \in [Slots -> {Plain(NoText), Plain(Original)}]
  /\ state = NoState
  /\ at = [d \in Dispatches |-> "idle"]
  /\ mem = NoState /\ left = {}
  /\ dead = {} /\ recycled = {} /\ bound = FALSE
  /\ latest = [s \in Slots |-> file[s].text]
  /\ unblocked = {} /\ touched = {} /\ rejoined = {} /\ torn = {}
  /\ window = FALSE /\ edits = 0

-----------------------------------------------------------------------------
Goes(d, from, to) ==
  at[d] = from /\ ProcessOf[d] \notin dead /\ at' = [at EXCEPT ![d] = to]

(* should_scope_dispatch: a workspace with a binding is left alone.        *)
RunUnscoped(d) ==
  /\ bound /\ Goes(d, "idle", "unscoped")
  /\ UNCHANGED <<file, state, mem, left, dead, recycled, bound, scopeGhosts>>

DecideToScope(d) ==
  /\ ~bound /\ Goes(d, "idle", "scoped")
  /\ UNCHANGED <<file, state, mem, left, dead, recycled, bound, scopeGhosts>>

(* _acquire_holder takes the lock and drops the holders whose pid is gone. *)
EnterToAcquire(d) ==
  /\ ~Locked
  /\ Goes(d, "scoped", IF LiveHolders = {} THEN "giving_back" ELSE "merging")
  /\ mem' = [state EXCEPT !.holders = LiveHolders]
  /\ left' = Slots
  /\ UNCHANGED <<file, state, dead, recycled, bound, scopeGhosts>>

(* A mutated restore that does not compare the file with what was written. *)
GiveBackUnverified(s, kept) ==
  IF s \in kept.signed THEN [file EXCEPT ![s] = kept.prior[s]] ELSE file

(* _resolve_abandoned_snapshot, for one file.                              *)
GiveBack(s, kept) ==
  IF s \in kept.signed /\ kept.wrote[s] = file[s]
    THEN [file EXCEPT ![s] = kept.prior[s]] ELSE file

(* The slots are visited in one order.                                     *)
NextSlot(S) == {CHOOSE s \in S : TRUE}

Restore(d, s, from, next) ==
  /\ s \in left /\ s \in NextSlot(left) /\ left' = left \ {s}
  /\ Goes(d, from, IF left = {s} THEN next ELSE from)
  /\ file' = GiveBack(s, mem)
  /\ unblocked' = unblocked \ {s}
  /\ UNCHANGED <<state, mem, dead, recycled, bound, latest, touched,
                 rejoined, torn, window, edits>>

RestoreAbandoned(d, s) == Restore(d, s, "giving_back", "snapshot")

FreshSnapshot(d) ==
  /\ Goes(d, "snapshot", "merging")
  /\ mem' = [NoState EXCEPT !.prior = file]
  /\ left' = Slots
  /\ UNCHANGED <<file, state, dead, recycled, bound, scopeGhosts>>

(* _SLOT_WRITERS: read, merge the block in, write, sign what was written.  *)
MergeBlock(d, s) ==
  LET merged == [file[s] EXCEPT !.block = TRUE]
  IN /\ s \in left /\ s \in NextSlot(left) /\ left' = left \ {s}
     /\ Goes(d, "merging", IF left = {s} THEN "recording" ELSE "merging")
     /\ file' = [file EXCEPT ![s] = merged]
     /\ mem' = [mem EXCEPT !.wrote[s] = merged, !.signed = @ \cup {s}]
     /\ unblocked' = unblocked \ {s}
     /\ rejoined' = IF mem.prior[s].text # merged.text
                      THEN rejoined \cup {s} ELSE rejoined
     /\ UNCHANGED <<state, dead, recycled, bound, latest, touched,
                    torn, window, edits>>

Record(d) ==
  /\ Goes(d, "recording", "running")
  /\ state' = [mem EXCEPT !.holders = @ \cup {d}]
  /\ mem' = NoState
  /\ UNCHANGED <<file, left, dead, recycled, bound, scopeGhosts>>

(* The harness has exited, or Popen failed: cleanup.                       *)
HarnessExits(d) ==
  /\ \/ Goes(d, "running", "leaving")
     \/ Goes(d, "unscoped", "done")
  /\ UNCHANGED <<file, state, mem, left, dead, recycled, bound, scopeGhosts>>

OthersOf(d) == LiveHolders \ {d}

(* _release_holder: others are live, so only the holders change ...        *)
ReleaseShared(d) ==
  /\ ~Locked /\ OthersOf(d) # {}
  /\ Goes(d, "leaving", "done")
  /\ state' = [state EXCEPT !.holders = OthersOf(d)]
  /\ UNCHANGED <<file, mem, left, dead, recycled, bound, scopeGhosts>>

(* ... or it is the last: restore, then unlink the state.                  *)
EnterToRelease(d) ==
  /\ ~Locked /\ OthersOf(d) = {}
  /\ Goes(d, "leaving", "restoring")
  /\ mem' = state /\ left' = Slots
  /\ UNCHANGED <<file, state, dead, recycled, bound, scopeGhosts>>

RestoreLast(d, s) == Restore(d, s, "restoring", "clearing")

ClearScopeState(d) ==
  /\ Goes(d, "clearing", "done")
  /\ state' = NoState /\ mem' = NoState
  /\ UNCHANGED <<file, left, dead, recycled, bound, scopeGhosts>>

-----------------------------------------------------------------------------
(* A process is killed; a file it was writing may be left truncated.  The  *)
(* lock goes with the process, and its pid may be given out again.         *)
ProcessDies(p) ==
  LET mine == {d \in Dispatches : ProcessOf[d] = p}
      inside == {d \in mine : at[d] \in Inside}
      writing == \E d \in inside : at[d] \in {"giving_back", "merging", "restoring"}
  IN /\ p \notin dead /\ Cardinality(dead) < MaxDeaths
     /\ dead' = dead \cup {p}
     /\ recycled' \in {recycled, recycled \cup {p}}
     /\ at' = [d \in Dispatches |-> IF d \in mine THEN "dead" ELSE at[d]]
     /\ \/ UNCHANGED <<file, torn>>
        \/ \E s \in left :
             /\ writing /\ s \in NextSlot(left)
             /\ file' = [file EXCEPT ![s] = Plain(Truncated)]
             /\ torn' = torn \cup {s}
     /\ window' = (window \/ \E d \in inside : at[d] \in {"merging", "recording"})
     /\ IF inside = {} THEN UNCHANGED <<mem, left>>
                       ELSE mem' = NoState /\ left' = {}
     /\ UNCHANGED <<state, bound, latest, unblocked, touched,
                    rejoined, edits>>

(* A person, or the harness saving a permission, edits a file.             *)
EditByHand(s) ==
  /\ edits < MaxEdits /\ edits' = edits + 1
  /\ \E keeps \in {file[s].block, FALSE} :
       /\ file' = [file EXCEPT ![s] = [text |-> Edited(edits + 1), block |-> keeps]]
       /\ unblocked' = IF keeps THEN unblocked ELSE unblocked \cup {s}
  /\ latest' = [latest EXCEPT ![s] = Edited(edits + 1)]
  /\ touched' = IF file[s].block THEN touched \cup {s} ELSE touched
  /\ UNCHANGED <<state, at, mem, left, dead, recycled, bound, rejoined, torn, window>>

WorkspaceBound ==
  /\ ~bound /\ bound' = TRUE
  /\ UNCHANGED <<file, state, at, mem, left, dead, recycled, scopeGhosts>>

ScopingNext ==
  \/ \E d \in Dispatches :
       \/ RunUnscoped(d) \/ DecideToScope(d) \/ EnterToAcquire(d)
       \/ FreshSnapshot(d) \/ Record(d) \/ HarnessExits(d)
       \/ ReleaseShared(d) \/ EnterToRelease(d) \/ ClearScopeState(d)
       \/ \E s \in Slots : \/ RestoreAbandoned(d, s) \/ MergeBlock(d, s)
                           \/ RestoreLast(d, s)
  \/ \E d \in Dispatches : ProcessDies(ProcessOf[d])
  \/ \E s \in Slots : EditByHand(s)
  \/ WorkspaceBound

ScopingSpec == ScopingInit /\ [][ScopingNext]_scopingVars

-----------------------------------------------------------------------------
(* Type invariant.                                                         *)
ScopingTypeOK ==
  /\ file \in [Slots -> Content] /\ latest \in [Slots -> NoText..Truncated]
  /\ \A st \in {state, mem} : /\ st.holders \subseteq Dispatches /\ st.signed \subseteq Slots
                              /\ st.prior \in [Slots -> Content]
                              /\ st.wrote \in [Slots -> Content]
  /\ \A d \in Dispatches :
       at[d] \in Inside \cup {"idle", "scoped", "unscoped", "running", "leaving",
                              "done", "dead"}
  /\ Cardinality({d \in Dispatches : at[d] \in Inside}) <= 1
  /\ left \subseteq Slots /\ recycled \subseteq dead

(* While a scoped harness runs, the files it reads carry the memnos block, *)
(* whoever of the others has left meanwhile, unless a person took it out   *)
(* or a death truncated the file.                                          *)
ScopedWhileRunning ==
  \A d \in Dispatches, s \in Slots :
    at[d] = "running" => file[s].block \/ s \in unblocked \cup torn

(* Once no dispatch is at work, a block still in a file can be taken out   *)
(* by the next one, or a person edited around it, or a death fell between  *)
(* the file and the state that speaks of it.                               *)
AtWork(d) == at[d] \in Inside \cup {"running", "leaving"}
BlockTakenOut ==
  (\A d \in Dispatches : ~AtWork(d)) =>
    \A s \in Slots : file[s].block =>
      \/ s \in state.signed /\ state.wrote[s] = file[s]
      \/ s \in touched \/ window

(* A restore never undoes an edit, except one that a later dispatch's      *)
(* merge has signed as its own.                                            *)
EditsUndoneOnlyIfRejoined ==
  \A s \in Slots : file[s].text # latest[s] => s \in rejoined \cup torn

WorkspaceGivenBack == BlockTakenOut /\ EditsUndoneOnlyIfRejoined
=============================================================================
