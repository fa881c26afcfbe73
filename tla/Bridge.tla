------------------------------- MODULE Bridge -------------------------------
(***************************************************************************)
(* The server and the workers together: WebhookIngest's requests and       *)
(* MessageWorker's children over the same tables and the same broker.      *)
(* MessageWorker on its own has DurableInbox for its environment; here the *)
(* environment is the handler, statement by statement.                     *)
(***************************************************************************)
EXTENDS WebhookIngest

CONSTANTS
  Workers, MaxParts,
  WorkerFaults     \* Faults of MessageWorker

VARIABLES
  next, session, outbound,          \* as in MessageWorker
  child,                            \* its pc
  job, transcript, posted, notice

Worker == INSTANCE MessageWorker
            WITH Ids <- Requests, Faults <- WorkerFaults, pc <- child

ASSUME BridgeAssumption ==
  /\ None \notin Worker!Tasks \cup Requests
  /\ MaxParts \in Nat \ {0}
  /\ WorkerFaults \subseteq Worker!FaultKinds

handlerVars == <<pc, requestVars, txnVars, lost>>
workerVars ==
  <<next, session, outbound, child, job, transcript, posted, notice>>
bridgeVars  == <<vars, workerVars>>

BridgeInit == Init /\ Worker!Init

-----------------------------------------------------------------------------
(* Server and workers share nothing but the tables and the broker.         *)
Receives(r)  == Deliver(r) /\ UNCHANGED workerVars
Serves(r)    == Handle(r) /\ UNCHANGED workerVars
Fails(r)     == Fail(r) /\ UNCHANGED workerVars
Crashes      == Crash /\ UNCHANGED workerVars
Works(w)     == Worker!Work(w) /\ UNCHANGED handlerVars
WorkFails(w) == Worker!Fail(w) /\ UNCHANGED handlerVars

Rest ==
  /\ \A r \in Requests : pc[r] \in Over
  /\ \A w \in Workers : child[w] = "idle"
  /\ next > Len(broker)
  /\ UNCHANGED bridgeVars

BridgeNext ==
  \/ \E r \in Requests : Receives(r) \/ Serves(r) \/ Fails(r)
  \/ Crashes
  \/ \E w \in Workers : Works(w) \/ WorkFails(w)
  \/ Rest

BridgeSpec == BridgeInit /\ [][BridgeNext]_bridgeVars

(* As in MetaDelivery and MessageWorker: requests and children go on.      *)
BridgeFairSpec ==
  /\ BridgeSpec
  /\ \A r \in Requests : WF_bridgeVars(Serves(r))
  /\ \A w \in Workers : WF_bridgeVars(Works(w))

-----------------------------------------------------------------------------
(* Each half runs as its own module says.                                  *)
ImplementsIngest == Spec
ImplementsWorker == Worker!Spec

(* The user of every stored message, hence of every acknowledged one, is   *)
(* told something: an answer or the error notice, whichever requests and   *)
(* children race, however often Celery publishes the task, and whatever    *)
(* raises in a worker but the rollback.  The server may fail or die as it  *)
(* likes: a message goes without a word only if the request that stored it *)
(* was cut short.                                                          *)
EveryMessageAnswered ==
  \A m \in Messages : MsgTaken(m) ~> Worker!Told(m) \/ Abandoned(m)

(* What that rests on, at every moment: the message of a delivery that was *)
(* answered 200 is in somebody's hands until its user is told something.   *)
Queued(m) == \E i \in next .. Len(broker) : broker[i].msg = m
NobodyForgotten ==
  \A r \in Requests : response[r] = "200" /\ msg[r] # None =>
    \/ \E q \in Requests : msg[q] = msg[r] /\ pc[q] \in Active
    \/ Queued(msg[r])
    \/ Worker!InWork(msg[r])
    \/ Worker!Told(msg[r])
    \/ Abandoned(msg[r])

(* Claude hears only, and the bridge answers only, a number on the         *)
(* whitelist whose message is stored: the server checks it, and the        *)
(* workers, which do not, rely on that.                                    *)
OnlyAllowedHeard ==
  \A m \in Messages : Worker!Heard(m) =>
    /\ AllowedNumbers = {} \/ Sender[m] \in AllowedNumbers
    /\ MsgTaken(m)

=============================================================================
