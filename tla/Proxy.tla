-------------------------------- MODULE Proxy --------------------------------
(***************************************************************************)
(* The capture proxy (memnos_proxy.py): it relays a client's call to the   *)
(* language model, and once the client has the whole answer it leaves the  *)
(* turn to a worker, which stores the user's and the assistant's side.     *)
(* Clients resend turns, give up, and outrun the worker; the memory server *)
(* fails, or stores a turn and answers too late; the proxy dies.           *)
(***************************************************************************)
EXTENDS Naturals, Sequences, FiniteSets

CONSTANTS
  Exchanges, Texts,
  UserText, ReplyText,  \* UserText[c], ReplyText[c]: what is said in call c
  QueueCap, SeenCap,    \* turns waiting (256), texts remembered as stored (4096)
  MaxRestarts, NoCall

ASSUME ProxyBounds ==
  /\ QueueCap \in Nat \ {0} /\ SeenCap \in Nat \ {0} /\ MaxRestarts \in Nat
  /\ NoCall \notin Exchanges
  /\ UserText \in [Exchanges -> Texts] /\ ReplyText \in [Exchanges -> Texts]

VARIABLES
  exchange, \* exchange[c]: "new", "streaming", "relayed", "given up", "failed"
  handed,   \* calls handed over for capture
  queue,    \* handed over, waiting for the worker
  job,      \* the call the worker has, and the side it is at
  seen,     \* the LRU of texts, the oldest first
  stored,   \* stored[x]: how often the server has stored text x
  full, gated, \* calls dropped by the full queue; not worth capturing
  failed,   \* texts whose POST failed
  aged,     \* texts that have dropped out of the LRU
  restarts, died   \* restarts, and the calls that were handed over to a dead worker

proxyVars == <<exchange, handed, queue, job, seen, stored, full, gated, failed,
               aged, restarts, died>>
workerVars == <<job, seen, stored, gated, failed, aged>>

NoJob == [exchange |-> NoCall, side |-> "none"]
InSeq(s) == {s[i] : i \in DOMAIN s}
TextOf(c, side) == IF side = "user" THEN UserText[c] ELSE ReplyText[c]

ProxyInit ==
  /\ exchange = [c \in Exchanges |-> "new"] /\ handed = {}
  /\ queue = <<>> /\ job = NoJob /\ seen = <<>>
  /\ stored = [x \in Texts |-> 0]
  /\ full = {} /\ failed = {} /\ gated = {} /\ aged = {} /\ restarts = 0 /\ died = {}

-----------------------------------------------------------------------------
(* do_POST: the upstream answers, its head and then its chunks are passed  *)
(* on.                                                                     *)
RelayStarts(c) ==
  /\ exchange[c] = "new" /\ exchange' = [exchange EXCEPT ![c] = "streaming"]
  /\ UNCHANGED <<handed, queue, workerVars, full, restarts, died>>

(* The last chunk is with the client, or the client has gone.              *)
RelayEnds(c) ==
  /\ exchange[c] = "streaming"
  /\ \E how \in {"relayed", "given up"} : exchange' = [exchange EXCEPT ![c] = how]
  /\ UNCHANGED <<handed, queue, workerVars, full, restarts, died>>

(* The upstream cannot be reached, or breaks off: an error is sent.        *)
UpstreamFails(c) ==
  /\ exchange[c] \in {"new", "streaming"} /\ exchange' = [exchange EXCEPT ![c] = "failed"]
  /\ UNCHANGED <<handed, queue, workerVars, full, restarts, died>>

Captures(c) == exchange[c] = "relayed"

(* submit: put_nowait.                                                     *)
Submit(c) ==
  /\ Captures(c) /\ c \notin handed /\ handed' = handed \cup {c}
  /\ queue' = IF Len(queue) < QueueCap THEN Append(queue, c) ELSE queue
  /\ full' = IF Len(queue) < QueueCap THEN full ELSE full \cup {c}
  /\ UNCHANGED <<exchange, workerVars, restarts, died>>

(* The worker takes the next turn; should_capture may pass it over.        *)
TakeTurn ==
  /\ job = NoJob /\ queue # <<>> /\ queue' = Tail(queue)
  /\ \/ gated' = gated \cup {Head(queue)} /\ UNCHANGED job
     \/ job' = [exchange |-> Head(queue), side |-> "user"] /\ UNCHANGED gated
  /\ UNCHANGED <<exchange, handed, seen, stored, full, failed, aged, restarts, died>>

(* _LRU.seen puts a text it does not know in at once, so before it is      *)
(* stored; one it knows becomes the latest.                                *)
Trimmed(s) == IF Len(s) > SeenCap THEN Tail(s) ELSE s
Remember(x) == Trimmed(Append(seen, x))
MovedToEnd(s, x) ==
  LET i == CHOOSE i \in DOMAIN s : s[i] = x
  IN [j \in DOMAIN s |-> IF j = Len(s) THEN x ELSE IF j < i THEN s[j] ELSE s[j + 1]]

(* A mutated worker, one try around both sides.                            *)
AfterUserOk(ok) == IF ok THEN [job EXCEPT !.side = "assistant"] ELSE NoJob
AfterUser(ok) == [job EXCEPT !.side = "assistant"]
Onward(ok) == job' = IF job.side = "user" THEN AfterUser(ok) ELSE NoJob

(* A text the LRU knows is not sent again.                                 *)
SkipSide ==
  LET x == TextOf(job.exchange, job.side)
  IN /\ job # NoJob /\ x \in InSeq(seen)
     /\ seen' = MovedToEnd(seen, x) /\ Onward(TRUE)
     /\ UNCHANGED <<exchange, handed, queue, stored, full, gated, failed, aged,
                    restarts, died>>

(* POST /remember: it succeeds, fails, or stores the text and is too late. *)
StoreSide ==
  LET x == TextOf(job.exchange, job.side)
  IN /\ job # NoJob /\ x \notin InSeq(seen)
     /\ \E ok, lands \in BOOLEAN :
          /\ ok => lands
          /\ stored' = IF lands THEN [stored EXCEPT ![x] = @ + 1] ELSE stored
          /\ failed' = IF ok THEN failed ELSE failed \cup {x}
          /\ seen' = Remember(x)
          /\ Onward(ok)
     /\ aged' = aged \cup (InSeq(seen) \ InSeq(seen'))
     /\ UNCHANGED <<exchange, handed, queue, full, gated, restarts, died>>

ProxyRestarts ==
  /\ restarts < MaxRestarts /\ restarts' = restarts + 1
  /\ exchange' = [c \in Exchanges |-> IF exchange[c] = "streaming" THEN "failed" ELSE exchange[c]]
  /\ died' = died \cup InSeq(queue) \cup ({job.exchange} \cap Exchanges)
               \cup {c \in Exchanges : exchange[c] = "relayed" /\ c \notin handed}
  /\ handed' = handed \cup {c \in Exchanges : exchange[c] = "relayed"}
  /\ queue' = <<>> /\ job' = NoJob /\ seen' = <<>>
  /\ aged' = aged \cup InSeq(seen)
  /\ UNCHANGED <<stored, full, gated, failed>>

ProxyNext ==
  \/ \E c \in Exchanges : RelayStarts(c) \/ RelayEnds(c) \/ UpstreamFails(c) \/ Submit(c)
  \/ TakeTurn \/ SkipSide \/ StoreSide \/ ProxyRestarts

ProxySpec == ProxyInit /\ [][ProxyNext]_proxyVars

-----------------------------------------------------------------------------
ProxyTypeOK ==
  /\ exchange \in [Exchanges -> {"new", "streaming", "relayed", "given up", "failed"}]
  /\ Len(queue) <= QueueCap /\ Len(seen) <= SeenCap
  /\ InSeq(queue) \cup full \cup gated \cup died \subseteq handed
  /\ stored \in [Texts -> Nat] /\ failed \cup aged \subseteq Texts
  /\ restarts \in 0..MaxRestarts /\ job.side \in {"none", "user", "assistant"}

Treated == handed \ (InSeq(queue) \cup full \cup gated \cup died \cup {job.exchange})

(* Only a turn its client has in full is captured; of a turn the worker is *)
(* through with, each side is stored unless a POST of that text failed,    *)
(* whichever side that was; and no text is stored twice while the proxy    *)
(* remembers it, though answers come too late and clients resend.          *)
CapturedRightly ==
  /\ \A c \in handed : exchange[c] = "relayed"
  /\ \A c \in Treated : \A side \in {"user", "assistant"} :
       stored[TextOf(c, side)] = 0 => TextOf(c, side) \in failed
  /\ \A x \in Texts : stored[x] > 1 => x \in aged
=============================================================================
