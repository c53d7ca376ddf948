------------------------------ MODULE MCServer ------------------------------
(* The write and read paths through the server, one to a behaviour: two    *)
(* pending writes drained by two processes; three turns for two workers    *)
(* and a queue of one, full whenever it is used; two recalls that share a  *)
(* pool of two connections.  The paths share no variable; part says which  *)
(* one a behaviour takes, the others stay as they began.                   *)
EXTENDS OfflineQueue, AsyncIngest, Recall

CONSTANTS mcp, hook, t1, t2, t3, wa, wb, q1, q2

MCItems    == {1, 2}
MCDrainers == {mcp, hook}
MCTurns    == {t1, t2, t3}
MCWorkers  == {wa, wb}
MCRecalls  == {q1, q2}

VARIABLE part

serverVars == <<part, vars, ingestVars, recallVars>>

QueuePath(A)  == part = "queue"  /\ A /\ UNCHANGED <<part, ingestVars, recallVars>>
IngestPath(A) == part = "ingest" /\ A /\ UNCHANGED <<part, vars, recallVars>>
RecallPath(A) == part = "recall" /\ A /\ UNCHANGED <<part, vars, ingestVars>>

ServerInit == /\ part \in {"queue", "ingest", "recall"}
              /\ Init /\ IngestInit /\ RecallInit
              /\ part # "queue" => bad = {} /\ timely
ServerNext == QueuePath(Next) \/ IngestPath(IngestNext) \/ RecallPath(RecallNext)

(* The fairness of each path, where it is taken.                           *)
ServerFairness ==
  /\ \A d \in Drainers : WF_serverVars(QueuePath(Drain(d)))
  /\ \A i \in Items : WF_serverVars(QueuePath(Age(i)))
  /\ \A t \in Turns : WF_serverVars(IngestPath(Handler(t)))
  /\ \A w \in Workers : /\ WF_serverVars(IngestPath(Get(w)))
                        /\ WF_serverVars(IngestPath(Attempt(w)))
  /\ WF_serverVars(IngestPath(Fire))
  /\ \A r \in Recalls : WF_serverVars(RecallPath(Serve(r)))
ServerSpec == ServerInit /\ [][ServerNext]_serverVars /\ ServerFairness

-----------------------------------------------------------------------------
(* Types of the three paths, and a turn is in one place of the ingest.     *)
ServerTypeOK == TypeOK /\ IngestTypeOK /\ OnePlace /\ RecallTypeOK
=============================================================================
