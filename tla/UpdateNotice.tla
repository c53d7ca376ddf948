---------------------------- MODULE UpdateNotice ----------------------------
(***************************************************************************)
(* Tommy's update check (agents/tommy/tommy/update_check.py).  Every       *)
(* launch starts a thread that asks PyPI at most once a day, tells of a    *)
(* new version once, and may start `tommy --upgrade`.  Launches and the    *)
(* preference command share one JSON file, which each rewrites whole after *)
(* reading it: the replacement is atomic, the pair is not.                 *)
(***************************************************************************)
EXTENDS Naturals

CONSTANTS
  Launches,     \* launches of Tommy and preference commands
  MaxLaunches,  \* bound: of those started
  MaxVersions,  \* bound: versions published (0 is the one installed at first)
  MaxDays,      \* bound: passings of CHECK_INTERVAL_S
  MaxBadWrites  \* bound: writes that fail, threads cut off by Tommy's exit

ASSUME NoticeBounds == {MaxLaunches, MaxVersions, MaxDays, MaxBadWrites} \subseteq Nat

VARIABLES
  notes,      \* update_check.json; checked: less than a day ago
  launch,     \* launch[l]: its step, the version it is, the one last told of,
              \* the newest it knows of, the change it is to write, the notes it
              \* is about to write and how many writes it knew of then
  writes,     \* writes completed
  newest, installed,
  printed,    \* versions a notice was printed for
  reprinted,  \* some version twice
  wished,     \* the update preference last written, or thought to be
  slips,      \* "overlap", "stale", "unwritten", "cut off"
  launched, days, badWrites

noticeVars == <<notes, launch, writes, newest, installed, printed, reprinted,
                wished, slips, launched, days, badWrites>>

NoNotes == [checked |-> FALSE, known |-> 0, notified |-> 0, auto |-> FALSE]
Gone == [step |-> "none", has |-> 0, told |-> 0, latest |-> 0, change |-> <<>>, next |-> "none",
         draft |-> NoNotes, seen |-> 0]
World == <<newest, installed, days>>

-----------------------------------------------------------------------------
NoticeInit ==
  /\ notes = NoNotes /\ launch = [l \in Launches |-> Gone]
  /\ writes = 0 /\ newest = 0 /\ installed = 0
  /\ printed = {} /\ reprinted = FALSE /\ wished = FALSE /\ slips = {}
  /\ launched = 0 /\ days = 0 /\ badWrites = 0

Begin(l, doing) ==
  /\ launch[l] = Gone /\ launched < MaxLaunches /\ launched' = launched + 1
  /\ launch' = [launch EXCEPT ![l] = doing]
  /\ slips' = slips \cup (IF \E k \in Launches : launch[k] # Gone THEN {"overlap"} ELSE {})
  /\ UNCHANGED <<notes, writes, printed, reprinted, wished, badWrites>> /\ UNCHANGED World

LaunchTommy(l) == Begin(l, [Gone EXCEPT !.step = "look", !.has = installed])

(* `tommy --upgrade --auto-update` and --no-auto-update.                   *)
Prefer(l, on) ==
  Begin(l, [Gone EXCEPT !.step = "read", !.change = <<"auto", on>>, !.next = "end"])

To(l, step) == launch' = [launch EXCEPT ![l] = IF step = "end" THEN Gone
                                               ELSE [@ EXCEPT !.step = step]]

(* check_and_maybe_notify.                                                 *)
Look(l) ==
  /\ launch[l].step = "look"
  /\ launch' = [launch EXCEPT ![l].step = IF notes.checked THEN "compare" ELSE "ask",
                              ![l].told = notes.notified, ![l].latest = notes.known]
  /\ UNCHANGED <<notes, writes, printed, reprinted, wished, slips, launched, badWrites>>
  /\ UNCHANGED World

(* PyPI answers, or what was known before stands and the next launch asks. *)
AskPyPI(l) ==
  /\ launch[l].step = "ask"
  /\ \/ launch' = [launch EXCEPT ![l].step = "read", ![l].latest = newest,
                     ![l].change = <<"known", newest>>, ![l].next = "compare"]
     \/ To(l, "compare")
  /\ UNCHANGED <<notes, writes, printed, reprinted, wished, slips, launched, badWrites>>
  /\ UNCHANGED World

(* _write_state: read, change one field, replace.                          *)
ReadNotes(l) ==
  /\ launch[l].step = "read"
  /\ launch' = [launch EXCEPT
       ![l].step = "replace", ![l].seen = writes,
       ![l].draft = [notes EXCEPT !.checked = @ \/ launch[l].change[1] = "known",
                                  !.known = IF launch[l].change[1] = "known"
                                              THEN launch[l].change[2] ELSE @,
                                  !.notified = IF launch[l].change[1] = "notified"
                                              THEN launch[l].change[2] ELSE @,
                                  !.auto = IF launch[l].change[1] = "auto"
                                              THEN launch[l].change[2] ELSE @]]
  /\ UNCHANGED <<notes, writes, printed, reprinted, wished, slips, launched, badWrites>>
  /\ UNCHANGED World

ReplaceNotes(l) ==
  /\ launch[l].step = "replace"
  /\ To(l, launch[l].next)
  /\ wished' = IF launch[l].change[1] = "auto" THEN launch[l].change[2] ELSE wished
  /\ \/ /\ notes' = launch[l].draft /\ writes' = writes + 1
        /\ slips' = slips \cup (IF launch[l].seen # writes THEN {"stale"} ELSE {})
        /\ UNCHANGED badWrites
     \/ /\ badWrites < MaxBadWrites /\ badWrites' = badWrites + 1
        /\ slips' = slips \cup {"unwritten"}
        /\ UNCHANGED <<notes, writes>>
  /\ UNCHANGED <<newest, installed, printed, reprinted, launched, days>>

(* The notes this launch read first say whether the version was told of.   *)
Compare(l) ==
  LET v == launch[l].latest
  IN /\ launch[l].step = "compare"
     /\ IF v <= launch[l].has
          THEN To(l, "end") /\ UNCHANGED <<printed, reprinted>>
          ELSE IF v = launch[l].told
          THEN To(l, "wish") /\ UNCHANGED <<printed, reprinted>>
          ELSE /\ launch' = [launch EXCEPT ![l].step = "read", ![l].next = "wish",
                                           ![l].change = <<"notified", v>>]
               /\ printed' = printed \cup {v}
               /\ reprinted' = (reprinted \/ v \in printed)
     /\ UNCHANGED <<notes, writes, wished, slips, launched, badWrites>> /\ UNCHANGED World

(* `tommy --upgrade` runs apart; it may fail, or change nothing.           *)
UpgradeIfWished(l) ==
  /\ launch[l].step = "wish" /\ To(l, "end")
  /\ installed' \in IF notes.auto THEN installed..newest ELSE {installed}
  /\ UNCHANGED <<notes, writes, newest, printed, reprinted, wished, slips,
                 launched, days, badWrites>>

(* Tommy exits and its daemon thread with it.                              *)
CutOff(l) ==
  /\ launch[l] # Gone /\ badWrites < MaxBadWrites /\ badWrites' = badWrites + 1
  /\ To(l, "end") /\ slips' = slips \cup {"cut off"}
  /\ UNCHANGED <<notes, writes, printed, reprinted, wished, launched>> /\ UNCHANGED World

Release ==
  /\ newest < MaxVersions /\ newest' = newest + 1
  /\ UNCHANGED <<notes, launch, writes, installed, printed, reprinted, wished,
                 slips, launched, days, badWrites>>

DayPasses ==
  /\ notes.checked /\ days < MaxDays /\ days' = days + 1
  /\ notes' = [notes EXCEPT !.checked = FALSE]
  /\ launch' = [l \in Launches |-> [launch[l] EXCEPT !.draft.checked = FALSE]]
  /\ UNCHANGED <<writes, newest, installed, printed, reprinted, wished,
                 slips, launched, badWrites>>

NoticeNext ==
  \/ \E l \in Launches :
       \/ LaunchTommy(l) \/ (\E on \in BOOLEAN : Prefer(l, on)) \/ Look(l)
       \/ AskPyPI(l) \/ ReadNotes(l) \/ ReplaceNotes(l) \/ Compare(l) \/ UpgradeIfWished(l)
       \/ CutOff(l)
  \/ Release \/ DayPasses

NoticeSpec == NoticeInit /\ [][NoticeNext]_noticeVars

-----------------------------------------------------------------------------
(* Type invariant.                                                         *)
NoticeTypeOK ==
  /\ notes \in [checked : BOOLEAN, known : 0..MaxVersions, notified : 0..MaxVersions, auto : BOOLEAN]
  /\ \A l \in Launches : launch[l].step \in
       {"none", "look", "ask", "read", "replace", "compare", "wish"}
  /\ printed \subseteq 1..MaxVersions /\ {reprinted, wished} \subseteq BOOLEAN
  /\ {newest, installed} \subseteq 0..MaxVersions
  /\ slips \subseteq {"overlap", "stale", "unwritten", "cut off"}

(* A version is told of once, over all launches, unless launches overlapped *)
(* or a write of the notes was lost.                                       *)
ToldOnce == reprinted => slips # {}

(* A check's own writes keep the preference another process has set; it is *)
(* lost only to a write whose read is older than the other's write, or to  *)
(* a write that failed or never came.                                      *)
PreferenceKept ==
  (\A l \in Launches : launch[l] = Gone) /\ slips \subseteq {"overlap"} => notes.auto = wished
=============================================================================
