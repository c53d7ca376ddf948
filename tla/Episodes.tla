------------------------------- MODULE Episodes ------------------------------
(***************************************************************************)
(* The episodic tier: a pass over a namespace reads the turns that are in  *)
(* no episode, groups them, summarises the groups with no connection held, *)
(* and writes an episode and its links to facts for each group, every      *)
(* statement committed alone.  Turns arrive, and facts are extracted from  *)
(* them, at any time.                                                      *)
(***************************************************************************)
EXTENDS Naturals, FiniteSets

CONSTANTS
  Segmenters,          \* requests that may segment, server workers
  Sessions, Moments,   \* session_id and observed_at of a turn
  Gap, MaxEpisodes,    \* gap_minutes (30), episodes written a pass (200)
  MaxTurns, MaxExtracted, MaxSegmentings

ASSUME EpisodeBounds ==
  /\ Gap \in Nat /\ MaxEpisodes \in Nat \ {0} /\ Moments \subseteq Nat
  /\ MaxTurns \in Nat /\ MaxExtracted \in Nat /\ MaxSegmentings \in Nat

VARIABLES
  said,       \* raw turns: [id, session, moment]
  extracted,  \* facts: [id, from], from the ids of the turns it comes from
  episodes,   \* episodic: [id, turns, pass], turns a set of turns
  links,      \* provenance: <<fact id, episode id>>
  segmenter,  \* segmenter[p]: stage, pass, todo (groups), episode
  segmentings,\* passes begun
  beside,     \* passes that had another beside them
  unlinked,   \* episodes whose links were never written
  settled,    \* turns that were there when a pass that then wrote all it found began
  late        \* <<fact id, episode id>>: extracted once the links were written

episodeVars == <<said, extracted, episodes, links, segmenter, segmentings, beside,
                 unlinked, settled, late>>

NotSegmenting == [stage |-> "idle", pass |-> 0, todo |-> {}, episode |-> 0,
                  known |-> {}]
Segmenting == {p \in Segmenters : segmenter[p] # NotSegmenting}
IdsIn(T) == {t.id : t \in T}
Linking(e) == \E p \in Segmenters : segmenter[p].episode = e

EpisodesInit ==
  /\ said = {} /\ extracted = {} /\ episodes = {} /\ links = {} /\ segmentings = 0
  /\ segmenter = [p \in Segmenters |-> NotSegmenting]
  /\ beside = {} /\ unlinked = {} /\ settled = {} /\ late = {}

(* A turn is stored; its observed_at may lie before that of others.  One   *)
(* session nobody has spoken in yet is as good as another.                 *)
Opened   == {t.session : t \in said}
Speaking == Opened \cup (IF Sessions = Opened THEN {}
                        ELSE {CHOOSE s \in Sessions : s \notin Opened})
TurnSaid(s, m) ==
  /\ Cardinality(said) < MaxTurns
  /\ said' = said \cup {[id |-> Cardinality(said) + 1, session |-> s, moment |-> m]}
  /\ UNCHANGED <<extracted, episodes, links, segmenter, segmentings, beside, unlinked,
                 settled, late>>

FactExtracted(from) ==
  /\ Cardinality(extracted) < MaxExtracted /\ from # {} /\ from \subseteq IdsIn(said)
  /\ LET id == Cardinality(extracted) + 1
     IN /\ extracted' = extracted \cup {[id |-> id, from |-> from]}
        /\ late' = late \cup {<<id, e.id>> : e \in {x \in episodes : ~Linking(x.id)}}
  /\ UNCHANGED <<said, episodes, links, segmenter, segmentings, beside, unlinked, settled>>

-----------------------------------------------------------------------------
(* mutant: a query that goes on from the last turn covered.                *)
UncoveredSince ==
  {t \in said : \A e \in episodes : (\A u \in e.turns : u.id < t.id)}
(* uncovered_raw_turns, by observed_at and id.                             *)
Uncovered == {t \in said : \A e \in episodes : t.id \notin IdsIn(e.turns)}

Earlier(t, u) ==
  t.moment < u.moment \/ (t.moment = u.moment /\ t.id < u.id)
Adjacent(T, t, u) == Earlier(t, u) /\ ~\E v \in T : Earlier(t, v) /\ Earlier(v, u)

(* segment_episodes: a boundary between two turns that follow each other.  *)
Boundary(t, u) == u.session # t.session \/ u.moment - t.moment > Gap

Cuts(T) == {c \in T \X T : Adjacent(T, c[1], c[2]) /\ Boundary(c[1], c[2])}
CutsBefore(T, t) == {c \in Cuts(T) : c[1] # t /\ Earlier(c[1], t)}
Groups(T) == {{u \in T : CutsBefore(T, u) = CutsBefore(T, t)} : t \in T}
First(g) == CHOOSE t \in g : \A u \in g \ {t} : Earlier(t, u)
Soonest(G, n) == {g \in G : Cardinality({h \in G : Earlier(First(h), First(g))}) < n}

NextSegmenter == CHOOSE p \in Segmenters : segmenter[p] = NotSegmenting
BeginSegmenting(p) ==
  /\ segmenter[p] = NotSegmenting /\ p = NextSegmenter   \* requests are alike
  /\ segmentings < MaxSegmentings /\ Uncovered # {}
  /\ segmentings' = segmentings + 1
  /\ segmenter' = [segmenter EXCEPT ![p] =
       [stage |-> "insert", pass |-> segmentings + 1, episode |-> 0,
        todo |-> Soonest(Groups(Uncovered), MaxEpisodes),
        known |-> IF Cardinality(Groups(Uncovered)) <= MaxEpisodes THEN said ELSE {}]]
  /\ beside' = IF Segmenting = {} THEN beside
               ELSE beside \cup {segmentings + 1} \cup {segmenter[q].pass : q \in Segmenting}
  /\ UNCHANGED <<said, extracted, episodes, links, unlinked, settled, late>>

InsertEpisode(p) ==
  /\ segmenter[p].stage = "insert" /\ segmenter[p].todo # {}
  /\ LET g == CHOOSE h \in segmenter[p].todo : h \in Soonest(segmenter[p].todo, 1)
         id == Cardinality(episodes) + 1
     IN /\ episodes' = episodes \cup {[id |-> id, turns |-> g, pass |-> segmenter[p].pass]}
        /\ segmenter' = [segmenter EXCEPT ![p].stage = "link", ![p].episode = id,
                                          ![p].todo = @ \ {g}]
  /\ UNCHANGED <<said, extracted, links, segmentings, beside, unlinked, settled, late>>

(* link_episode_provenance: the facts that share a turn with the episode.  *)
Overlaps(f, g) == f.from \cap IdsIn(g) # {}
LinkEpisode(p) ==
  /\ segmenter[p].stage = "link"
  /\ LET e == CHOOSE x \in episodes : x.id = segmenter[p].episode
     IN links' = links \cup {<<f.id, e.id>> : f \in {x \in extracted : Overlaps(x, e.turns)}}
  /\ segmenter' = [segmenter EXCEPT ![p].stage = "insert", ![p].episode = 0]
  /\ UNCHANGED <<said, extracted, episodes, segmentings, beside, unlinked, settled, late>>

EndSegmenting(p) ==
  /\ segmenter[p].stage = "insert" /\ segmenter[p].todo = {}
  /\ segmenter' = [segmenter EXCEPT ![p] = NotSegmenting]
  /\ settled' = settled \cup segmenter[p].known
  /\ UNCHANGED <<said, extracted, episodes, links, segmentings, beside, unlinked, late>>

(* A summary or a statement fails, or the server dies.                     *)
SegmentingFails(p) ==
  /\ segmenter[p] # NotSegmenting
  /\ unlinked' = unlinked \cup ({segmenter[p].episode} \ {0})
  /\ segmenter' = [segmenter EXCEPT ![p] = NotSegmenting]
  /\ UNCHANGED <<said, extracted, episodes, links, segmentings, beside, settled, late>>

EpisodesNext ==
  \/ \E s \in Speaking, m \in Moments : TurnSaid(s, m)
  \/ \E from \in SUBSET IdsIn(said) : FactExtracted(from)
  \/ \E p \in Segmenters : \/ BeginSegmenting(p) \/ InsertEpisode(p) \/ LinkEpisode(p)
                           \/ EndSegmenting(p) \/ SegmentingFails(p)

EpisodesSpec == EpisodesInit /\ [][EpisodesNext]_episodeVars

-----------------------------------------------------------------------------
EpisodesTypeOK ==
  /\ IdsIn(said) = 1..Cardinality(said) /\ IdsIn(episodes) = 1..Cardinality(episodes)
  /\ \A e \in episodes : e.turns # {} /\ e.turns \subseteq said
  /\ links \cup late \subseteq IdsIn(extracted) \X IdsIn(episodes)
  /\ beside \subseteq 1..segmentings /\ unlinked \subseteq IdsIn(episodes)

(* A turn is in two episodes only when two passes ran side by side, and an *)
(* episode joins only what belongs together.                               *)
TurnsEpisodesOnce ==
  /\ \A e, f \in episodes :
       e.id # f.id /\ e.turns \cap f.turns # {} => {e.pass, f.pass} \subseteq beside
  /\ \A e \in episodes : \A t, u \in e.turns :
       Adjacent(e.turns, t, u) => t.session = u.session /\ u.moment - t.moment <= Gap

(* A pass that wrote all it found leaves no turn it could have seen out,   *)
(* however late or backdated, and whatever passes had failed before it.    *)
NoTurnLeftBehind == \A t \in settled : \E e \in episodes : t \in e.turns

(* A fact is linked to each episode it shares a turn with, and to no       *)
(* other, unless the links were written before it was extracted or not at  *)
(* all (asynchronous extraction may come after the pass).                  *)
FactsLinked ==
  \A f \in extracted, e \in episodes :
    LET shares == f.from \cap IdsIn(e.turns) # {}
    IN /\ <<f.id, e.id>> \in links => shares
       /\ shares /\ ~Linking(e.id) /\ <<f.id, e.id>> \notin late /\ e.id \notin unlinked
            => <<f.id, e.id>> \in links

EpisodesSound == TurnsEpisodesOnce /\ NoTurnLeftBehind /\ FactsLinked
=============================================================================
