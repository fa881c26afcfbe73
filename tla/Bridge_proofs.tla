---------------------------- MODULE Bridge_proofs ---------------------------
(***************************************************************************)
(* TLAPS proofs about Bridge: each half of the running system behaves as   *)
(* its own module says, so that what is proved of the halves holds of the  *)
(* whole; and what no half can promise alone.                              *)
(***************************************************************************)
EXTENDS Bridge, WebhookIngest_proofs

-----------------------------------------------------------------------------
(* What a child does is invisible to the handlers, but for the rows it     *)
(* reads.                                                                  *)
LEMMA WorkersApart ==
  ASSUME NEW w \in Workers, Works(w) \/ WorkFails(w)
  PROVE  UNCHANGED vars
<1>1. UNCHANGED <<conversations, messages, broker>>
  <2>1. CASE Worker!Work(w)
    BY <2>1 DEF Worker!Work, Worker!Take, Worker!Load, Worker!RunClaude,
       Worker!UpdateSession, Worker!SendPart, Worker!Finish, Worker!Notify,
       Worker!inboxVars
  <2>2. CASE Worker!Fail(w)
    BY <2>2 DEF Worker!Fail, Worker!SendFails, Worker!Raise,
       Worker!CommitAnswerLost, Worker!Kill, Worker!inboxVars
  <2> QED
    BY <2>1, <2>2 DEF Works, WorkFails
<1>2. UNCHANGED handlerVars
  BY DEF Works, WorkFails
<1> QED
  BY <1>1, <1>2 DEF vars, handlerVars, requestVars, txnVars, dbVars, queueVars

(* The server's half is WebhookIngest: its theorems hold of the bridge.    *)
THEOREM ServerAsSpecified == BridgeSpec => ImplementsIngest
<1>1. BridgeInit => Init
  BY DEF BridgeInit
<1>2. [BridgeNext]_bridgeVars => [Next]_vars
  <2> SUFFICES ASSUME [BridgeNext]_bridgeVars PROVE [Next]_vars
    OBVIOUS
  <2>1. CASE UNCHANGED bridgeVars
    BY <2>1 DEF bridgeVars
  <2>2. CASE \E r \in Requests : Receives(r) \/ Serves(r) \/ Fails(r)
    BY <2>2 DEF Receives, Serves, Fails, Next
  <2>3. CASE Crashes
    BY <2>3 DEF Crashes, Next
  <2>4. CASE \E w \in Workers : Works(w) \/ WorkFails(w)
    BY <2>4, WorkersApart
  <2>5. CASE Rest
    BY <2>5 DEF Rest, bridgeVars
  <2> QED
    BY <2>1, <2>2, <2>3, <2>4, <2>5 DEF BridgeNext
<1> QED
  BY <1>1, <1>2, PTL DEF BridgeSpec, ImplementsIngest, Spec

-----------------------------------------------------------------------------
(* A step of the bridge in which the tables and the broker change as        *)
(* DurableInbox allows is one of the worker's or of its environment.        *)
LEMMA WorkerStep ==
  [BridgeNext]_bridgeVars /\ [Inbox!Next]_(Inbox!vars)
    => [Worker!Next]_(Worker!vars)
<1> SUFFICES ASSUME [BridgeNext]_bridgeVars, [Inbox!Next]_(Inbox!vars)
             PROVE  [Worker!Next]_(Worker!vars)
  OBVIOUS
<1>1. CASE UNCHANGED workerVars
  <2>1. CASE UNCHANGED Inbox!vars
    BY <1>1, <2>1 DEF workerVars, Inbox!vars, Worker!vars, Worker!inboxVars,
       Worker!workerVars, Worker!dbVars, Worker!outerVars
  <2>2. CASE Inbox!Next
    <3>1. PICK m \in Messages :
            Inbox!Accept(m) \/ \E n \in 1 .. MaxTries : Inbox!HandOver(m, n)
      BY <2>2 DEF Inbox!Next
    <3>2. UNCHANGED Worker!workerVars
      BY <1>1 DEF workerVars, Worker!workerVars, Worker!dbVars, Worker!outerVars
    <3>3. \/ Worker!Inbox!Accept(m)
          \/ \E n \in 1 .. MaxTries : Worker!Inbox!HandOver(m, n)
      BY <3>1 DEF Inbox!Accept, Inbox!HandOver, Inbox!Tried,
         Worker!Inbox!Accept, Worker!Inbox!HandOver, Worker!Inbox!Tried
    <3> QED
      BY <3>2, <3>3 DEF Worker!Arrive, Worker!HandOver, Worker!Next
  <2> QED
    BY <2>1, <2>2
<1>2. CASE \E w \in Workers : Works(w) \/ WorkFails(w)
  BY <1>2 DEF Works, WorkFails, Worker!Next
<1> QED
  BY <1>1, <1>2 DEF BridgeNext, Receives, Serves, Fails, Crashes, Rest, bridgeVars

(* The workers' half is MessageWorker: the handler, statement by statement, *)
(* is the environment that module assumes.                                 *)
THEOREM WorkersAsSpecified == BridgeSpec => ImplementsWorker
<1>1. BridgeInit => Worker!Init
  BY DEF BridgeInit
<1>2. BridgeSpec => Inbox!Spec
  BY ServerAsSpecified, Refinement DEF ImplementsIngest, ImplementsInbox
<1> QED
  BY <1>1, <1>2, WorkerStep, PTL
     DEF BridgeSpec, ImplementsWorker, Inbox!Spec, Worker!Spec

-----------------------------------------------------------------------------
(* The module's theorems, for the children and the tables of the bridge.   *)
Children == INSTANCE MessageWorker_proofs
              WITH Ids <- Requests, Faults <- WorkerFaults, pc <- child

(* They speak of the same children as the bridge does.                     *)
LEMMA SameChild ==
  ASSUME NEW w \in Workers
  PROVE  /\ Worker!Work(w) <=> Children!Work(w)
         /\ Worker!Fail(w) <=> Children!Fail(w)
<1>1. Worker!Take(w) <=> Children!Take(w)
  BY DEF Worker!Take, Children!Take, Worker!Goto, Children!Goto, Worker!Job,
         Children!Job, Worker!TaskAt, Children!TaskAt, Worker!inboxVars,
         Children!inboxVars, Worker!dbVars, Children!dbVars,
         Worker!outerVars, Children!outerVars
<1>2. Worker!Load(w) <=> Children!Load(w)
  BY DEF Worker!Load, Children!Load, Worker!Goto, Children!Goto, Worker!Leave,
         Children!Leave, Worker!NoJob, Children!NoJob, Worker!Job,
         Children!Job, Worker!Resume, Children!Resume, Worker!Remembered,
         Children!Remembered, Worker!inboxVars, Children!inboxVars,
         Worker!dbVars, Children!dbVars, Worker!outerVars, Children!outerVars
<1>3. Worker!RunClaude(w) <=> Children!RunClaude(w)
  BY DEF Worker!RunClaude, Children!RunClaude, Worker!Goto, Children!Goto,
         Worker!Writes, Children!Writes, Worker!Remembers, Children!Remembers,
         Worker!inboxVars, Children!inboxVars, Worker!dbVars, Children!dbVars
<1>4. Worker!UpdateSession(w) <=> Children!UpdateSession(w)
  BY DEF Worker!UpdateSession, Children!UpdateSession, Worker!Goto,
         Children!Goto, Worker!RowLocked, Children!RowLocked,
         Worker!inboxVars, Children!inboxVars, Worker!dbVars, Children!dbVars,
         Worker!outerVars, Children!outerVars
<1>5. Worker!SendPart(w) <=> Children!SendPart(w)
  BY DEF Worker!SendPart, Children!SendPart, Worker!Goto, Children!Goto,
         Worker!Arrives, Children!Arrives, Worker!NextPart, Children!NextPart,
         Worker!inboxVars, Children!inboxVars, Worker!dbVars, Children!dbVars
<1>6. Worker!Finish(w) <=> Children!Finish(w)
  BY DEF Worker!Finish, Children!Finish, Worker!Goto, Children!Goto,
         Worker!Leave, Children!Leave, Worker!NoJob, Children!NoJob,
         Worker!Job, Children!Job, Worker!CommitRows, Children!CommitRows,
         Worker!inboxVars, Children!inboxVars, Worker!outerVars,
         Children!outerVars
<1>7. Worker!Notify(w) <=> Children!Notify(w)
  BY DEF Worker!Notify, Children!Notify, Worker!Goto, Children!Goto,
         Worker!Leave, Children!Leave, Worker!NoJob, Children!NoJob,
         Worker!Job, Children!Job, Worker!inboxVars, Children!inboxVars,
         Worker!dbVars, Children!dbVars
<1>8. Worker!SendFails(w) <=> Children!SendFails(w)
  BY DEF Worker!SendFails, Children!SendFails, Worker!Goto, Children!Goto,
         Worker!Arrives, Children!Arrives, Worker!BreakOff, Children!BreakOff,
         Worker!inboxVars, Children!inboxVars, Worker!dbVars, Children!dbVars
<1>9. Worker!Raise(w) <=> Children!Raise(w)
  BY DEF Worker!Raise, Children!Raise, Worker!Goto, Children!Goto,
         Worker!Rollback, Children!Rollback, Worker!Leave, Children!Leave,
         Worker!NoJob, Children!NoJob, Worker!Job, Children!Job,
         Worker!inboxVars,
         Children!inboxVars, Worker!dbVars, Children!dbVars, Worker!outerVars,
         Children!outerVars
<1>10. Worker!CommitAnswerLost(w) <=> Children!CommitAnswerLost(w)
  BY DEF Worker!CommitAnswerLost, Children!CommitAnswerLost, Worker!Goto,
         Children!Goto, Worker!CommitRows, Children!CommitRows,
         Worker!Rollback, Children!Rollback, Worker!Leave, Children!Leave,
         Worker!NoJob, Children!NoJob, Worker!Job, Children!Job,
         Worker!inboxVars, Children!inboxVars, Worker!outerVars,
         Children!outerVars
<1>11. Worker!Kill(w) <=> Children!Kill(w)
  BY DEF Worker!Kill, Children!Kill, Worker!Goto, Children!Goto, Worker!Leave,
         Children!Leave, Worker!NoJob, Children!NoJob, Worker!Job,
         Children!Job, Worker!Dies, Children!Dies, Worker!Running,
         Children!Running, Worker!Labels, Children!Labels, Worker!inboxVars,
         Children!inboxVars, Worker!dbVars, Children!dbVars, Worker!outerVars,
         Children!outerVars
<1> QED
  BY <1>1, <1>2, <1>3, <1>4, <1>5, <1>6, <1>7, <1>8, <1>9, <1>10, <1>11
     DEF Worker!Work, Children!Work, Worker!Fail, Children!Fail

LEMMA SameWorkers ==
  /\ Worker!Init <=> Children!Init
  /\ [Worker!Next]_(Worker!vars) <=> [Children!Next]_(Children!vars)
<1>1. Worker!Init <=> Children!Init
  BY DEF Worker!Init, Children!Init, Worker!NoJob, Children!NoJob, Worker!Job,
         Children!Job, Worker!Inbox!Init, Children!Inbox!Init, Worker!Tasks,
         Children!Tasks
<1>2. Worker!vars = Children!vars /\ (Worker!vars)' = (Children!vars)'
  BY DEF Worker!vars, Children!vars, Worker!inboxVars, Children!inboxVars,
         Worker!workerVars, Children!workerVars, Worker!dbVars,
         Children!dbVars, Worker!outerVars, Children!outerVars
<1>3. Worker!Next <=> Children!Next
  <2>1. ASSUME NEW m \in Messages
        PROVE  Worker!Arrive(m) <=> Children!Arrive(m)
    BY DEF Worker!Arrive, Children!Arrive, Worker!Inbox!Accept,
         Children!Inbox!Accept, Worker!workerVars, Children!workerVars,
         Worker!dbVars, Children!dbVars, Worker!outerVars, Children!outerVars
  <2>2. ASSUME NEW m \in Messages
        PROVE  Worker!HandOver(m) <=> Children!HandOver(m)
    BY DEF Worker!HandOver, Children!HandOver, Worker!Inbox!HandOver,
         Children!Inbox!HandOver, Worker!Inbox!Tried, Children!Inbox!Tried,
         Worker!workerVars, Children!workerVars,
         Worker!dbVars, Children!dbVars, Worker!outerVars, Children!outerVars
  <2>3. Worker!Quiescent <=> Children!Quiescent
    BY <1>2
     DEF Worker!Quiescent, Children!Quiescent, Worker!Inbox!Tried,
         Children!Inbox!Tried
  <2> QED
    BY <2>1, <2>2, <2>3, SameChild
     DEF Worker!Next, Children!Next
<1> QED
  BY <1>1, <1>2, <1>3

LEMMA ChildrenAsSpecified == BridgeSpec => Children!Spec
BY SameWorkers, WorkersAsSpecified, PTL
   DEF ImplementsWorker, Worker!Spec, Children!Spec

LEMMA ChildrenAssumption == Children!WorkerAssumption
BY SenderAssumption, TriesAssumption, BridgeAssumption
   DEF Children!WorkerAssumption, Children!FaultKinds, Worker!FaultKinds,
       Children!Tasks, Worker!Tasks

-----------------------------------------------------------------------------
(* A message whose request missed no answer of the broker is answered by   *)
(* one task only.                                                          *)
AnsweredOnce ==
  \A t, u \in Worker!Tasks :
    t[1] = u[1] /\ posted[t] # <<>> /\ posted[u] # <<>> =>
      t = u \/ \E r \in Requests : msg[r] = t[1] /\ lost[r] > 0

(* The user reads the answer of each task in order and no part of it       *)
(* twice, whatever dies; and the answers of two tasks of one message,      *)
(* however often Meta repeats it, only if Celery published it again        *)
(* because the broker's answer was lost.                                   *)
THEOREM AnswersReadOnce == BridgeSpec => [](Worker!PartsInOrder /\ AnsweredOnce)
<1>1. BridgeSpec => []Children!IInv
  <2>1. Children!Spec => []Children!IInv
    BY ChildrenAssumption, Children!Invariance
  <2> QED
    BY <2>1, ChildrenAsSpecified, PTL
<1>2. BridgeSpec => []HandedOverOnce
  BY ServerAsSpecified, NoSecondTask, PTL DEF ImplementsIngest
<1>3. Children!IInv => Worker!PartsInOrder
  BY DEF Children!IInv, Children!PartsInOrder, Worker!PartsInOrder,
     Children!Tasks, Worker!Tasks
<1>4. Children!IInv /\ HandedOverOnce => AnsweredOnce
  <2> SUFFICES ASSUME Children!IInv, HandedOverOnce,
                      NEW t \in Children!Tasks, NEW u \in Children!Tasks,
                      t[1] = u[1], posted[t] # <<>>, posted[u] # <<>>
               PROVE  t = u \/ \E r \in Requests : msg[r] = t[1] /\ lost[r] > 0
    BY DEF AnsweredOnce, Children!Tasks, Worker!Tasks
  <2>1. Children!Taken(t) /\ Children!Taken(u)
    BY DEF Children!IInv, Children!OneRunEach
  <2>2. next \in 1 .. Len(broker) + 1 /\ Len(broker) \in Nat
    BY DEF Children!IInv, Children!TypeOK, Children!Inbox!TypeOK
  <2>3. PICK i \in 1 .. Len(broker) : t = <<broker[i].msg, broker[i].try>>
    BY <2>1, <2>2 DEF Children!Taken, Children!TaskAt
  <2>4. PICK j \in 1 .. Len(broker) : u = <<broker[j].msg, broker[j].try>>
    BY <2>1, <2>2 DEF Children!Taken, Children!TaskAt
  <2>5. t[1] = broker[i].msg /\ broker[i].msg = broker[j].msg
    BY <2>3, <2>4
  <2> QED
    BY <2>3, <2>4, <2>5 DEF HandedOverOnce
<1> QED
  BY <1>1, <1>2, <1>3, <1>4, PTL

(* No conversation resumes a session that heard another user.              *)
THEOREM SessionsApart == BridgeSpec => []Worker!SessionBelongs
<1>1. Children!SessionBelongs => Worker!SessionBelongs
  BY DEF Children!SessionBelongs, Worker!SessionBelongs, Children!Remembered,
         Worker!Remembered, Children!Owner, Worker!Owner
<1>2. Children!Spec => []Children!SessionBelongs
  BY ChildrenAssumption, Children!SessionsSeparate
<1> QED
  BY <1>1, <1>2, ChildrenAsSpecified, PTL

(* The types of the workers' variables, for the proofs below.              *)
LEMMA WorkersTyped == BridgeSpec => []Worker!TypeOK
<1>1. Children!TypeOK => Worker!TypeOK
  BY DEF Children!TypeOK, Worker!TypeOK, Children!JobRow, Worker!JobRow,
         Children!OutboundRow, Worker!OutboundRow, Children!Labels,
         Worker!Labels, Children!Running, Worker!Running,
         Children!Inbox!TypeOK, Worker!Inbox!TypeOK,
         Children!Inbox!ConversationRow, Worker!Inbox!ConversationRow,
         Children!Inbox!MessageRow, Worker!Inbox!MessageRow,
         Children!Inbox!Task, Worker!Inbox!Task, Children!Tasks, Worker!Tasks
<1>2. Children!Spec => []Children!TypeOK
  BY ChildrenAssumption, Children!TypeCorrect
<1> QED
  BY <1>1, <1>2, ChildrenAsSpecified, PTL

-----------------------------------------------------------------------------
(* The server lets only numbers on the whitelist pass, and stores nothing  *)
(* else.                                                                   *)
AllowedInside ==
  /\ \A r \in Requests : pc[r] \in Active => Whitelisted(msg[r])
  /\ \A row \in messages : Whitelisted(row.msg)

LEMMA AllowedStored == Spec => []AllowedInside
<1>1. Init => AllowedInside
  BY DEF Init, Inbox!Init, AllowedInside, Active, Over
<1>2. TypeOK /\ IInv /\ AllowedInside /\ [Next]_vars => AllowedInside'
  <2> SUFFICES ASSUME TypeOK, IInv, AllowedInside, [Next]_vars
               PROVE  AllowedInside'
    OBVIOUS
  <2> USE DEF TypeOK, Goto, Answer, Skip, Rollback, requestVars, txnVars, dbVars
  <2>1. CASE UNCHANGED vars
    BY <2>1 DEF vars, AllowedInside
  <2>2. ASSUME NEW r \in Requests, Deliver(r) PROVE AllowedInside'
    <3>1. messages' = messages
      BY <2>2 DEF Deliver, Dismiss, Receive
    <3>2. ASSUME NEW q \in Requests, pc'[q] \in Active
          PROVE  Whitelisted(msg'[q])
      <4>1. CASE q = r
        BY <2>2, <3>2, <4>1 DEF Deliver, Dismiss, Receive, Active, Over
      <4>2. CASE q # r
        <5>1. pc'[q] = pc[q] /\ msg'[q] = msg[q]
          BY <2>2, <4>2 DEF Deliver, Dismiss, Receive
        <5> QED
          BY <3>2, <5>1 DEF AllowedInside
      <4> QED
        BY <4>1, <4>2
    <3> QED
      BY <3>1, <3>2 DEF AllowedInside, Whitelisted
  <2>3. ASSUME NEW r \in Requests, Handle(r) \/ Fail(r) PROVE AllowedInside'
    <3>1. /\ pc[r] \in Active /\ msg' = msg
          /\ \A q \in Requests \ {r} : pc'[q] = pc[q]
      <4>1. CASE Handle(r)
        BY <4>1 DEF Handle, MessageExists, FindActiveConversation,
           UseConversation, InsertConversation, LoseRace, RetrySelect,
           StoreInboundMessage, Commit, Enqueue, Unwind, Active, Over, Labels
      <4>2. CASE Fail(r)
        BY <4>2 DEF Fail, DatabaseFails, CommitAnswerLost, BrokerRefuses,
           BrokerAnswerLost, Active, Over, Labels
      <4> QED
        BY <2>3, <4>1, <4>2
    <3>2. \/ messages' = messages
          \/ pc[r] = "commit" /\ messages' = messages \cup newMsgs[r]
      <4>1. CASE Handle(r)
        BY <4>1 DEF Handle, MessageExists, FindActiveConversation,
           UseConversation, InsertConversation, LoseRace, RetrySelect,
           StoreInboundMessage, Commit, CommitRows, Enqueue, Unwind
      <4>2. CASE Fail(r)
        BY <4>2 DEF Fail, DatabaseFails, CommitAnswerLost, CommitRows,
           BrokerRefuses, BrokerAnswerLost
      <4> QED
        BY <2>3, <4>1, <4>2
    <3>3. Whitelisted(msg[r])
      BY <3>1 DEF AllowedInside
    <3>4. \A row \in newMsgs[r] : row.msg = msg[r]
      BY DEF IInv, TransactionsOK
    <3>5. \A row \in messages' : Whitelisted(row.msg)
      BY <3>2, <3>3, <3>4 DEF AllowedInside
    <3> QED
      BY <3>1, <3>3, <3>5 DEF AllowedInside, Whitelisted
  <2>4. CASE Crash
    BY <2>4 DEF Crash, AllowedInside, Active, Over, Whitelisted
  <2> QED
    BY <2>1, <2>2, <2>3, <2>4 DEF Next, Quiescent
<1> QED
  BY <1>1, <1>2, TypeCorrect, Invariance, PTL DEF Spec

(* The workers check no whitelist; still they, and Claude, hear only what  *)
(* it admits, and only messages that are stored: a task names a committed  *)
(* row.                                                                    *)
THEOREM OnlyAllowed == BridgeSpec => []OnlyAllowedHeard
<1>1. BridgeSpec => []Children!OnlyTakenHeard
  <2>1. Children!Spec => []Children!OnlyTakenHeard
    BY ChildrenAssumption, Children!HeardIsTaken
  <2> QED
    BY <2>1, ChildrenAsSpecified, PTL
<1>2. BridgeSpec => [](TaskRowsCommitted /\ AllowedInside)
  BY ServerAsSpecified, TaskFindsRows, AllowedStored, PTL DEF ImplementsIngest
<1>3. /\ Children!OnlyTakenHeard /\ TaskRowsCommitted /\ AllowedInside
      /\ Worker!TypeOK
      => OnlyAllowedHeard
  <2> SUFFICES ASSUME Children!OnlyTakenHeard, TaskRowsCommitted,
                      AllowedInside, Worker!TypeOK,
                      NEW m \in Messages, Worker!Heard(m)
               PROVE  Whitelisted(m) /\ MsgTaken(m)
    BY DEF OnlyAllowedHeard, Whitelisted
  <2>1. Children!Started(m)
    BY DEF Children!OnlyTakenHeard, Children!Heard, Children!Told,
           Children!Tasks, Worker!Heard, Worker!Told, Worker!Tasks
  <2>2. PICK i \in 1 .. Len(broker) : broker[i].msg = m
    BY <2>1 DEF Children!Started, Children!Taken, Children!TaskAt,
       Worker!TypeOK, Worker!Inbox!TypeOK
  <2>3. PICK row \in messages : row.msg = m
    BY <2>2 DEF TaskRowsCommitted
  <2> QED
    BY <2>3 DEF AllowedInside, MsgTaken
<1> QED
  BY <1>1, <1>2, <1>3, WorkersTyped, PTL

(* While Meta takes every post, no child is killed and no rollback raises, *)
(* an acknowledged message is in somebody's hands until its user was told  *)
(* something, or the request that stored it was cut short: the server      *)
(* drops no other task, whatever fails, and the workers none they took.    *)
THEOREM NobodyDropped ==
  ASSUME WorkerFaults \subseteq {"raise", "commit_ack"}
  PROVE  BridgeSpec => []NobodyForgotten
<1>1. BridgeSpec => []LossReported
  BY ServerAsSpecified, NoSilentLoss, PTL DEF ImplementsIngest
<1>2. BridgeSpec => []Children!TakenTold
  <2>1. Children!Spec => []Children!TakenTold
    BY ChildrenAssumption, Children!NoTaskDropped
  <2> QED
    BY <2>1, ChildrenAsSpecified, PTL
<1>3. BridgeSpec => []TypeOK
  BY ServerAsSpecified, TypeCorrect, PTL DEF ImplementsIngest
<1>4. /\ LossReported /\ Children!TakenTold
      /\ TypeOK /\ Worker!TypeOK
      => NobodyForgotten
  <2> SUFFICES ASSUME Children!TakenTold, TypeOK, Worker!TypeOK,
                      NEW r \in Requests, msg[r] # None, HandedOver(msg[r])
               PROVE  \/ Queued(msg[r])
                      \/ Worker!InWork(msg[r])
                      \/ Worker!Told(msg[r])
    BY DEF LossReported, NobodyForgotten
  <2>1. msg[r] \in Messages
    BY DEF TypeOK
  <2>2. PICK i \in 1 .. Len(broker) : broker[i].msg = msg[r]
    BY DEF HandedOver
  <2>3. next \in Nat /\ Len(broker) \in Nat
    BY DEF Worker!TypeOK, Worker!Inbox!TypeOK
  <2>4. CASE i < next
    <3> DEFINE t == Children!TaskAt(i)
    <3>1. t \in Children!Tasks /\ t[1] = msg[r]
      <4>1. broker[i] \in Worker!Inbox!Task
        BY <2>2 DEF Worker!TypeOK, Worker!Inbox!TypeOK
      <4> QED
        BY <2>2, <4>1
        DEF Worker!Inbox!Task, Children!TaskAt, Children!Tasks
    <3>2. Children!Taken(t)
      BY <2>2, <2>3, <2>4 DEF Children!Taken
    <3>3. Children!AtWork(t) \/ Children!Ended(t)
      BY <3>1, <3>2 DEF Children!TakenTold
    <3>4. CASE Children!AtWork(t)
      BY <3>1, <3>4 DEF Children!AtWork, Children!Running, Children!Labels,
         Worker!InWork, Worker!Running, Worker!Labels
    <3>5. CASE Children!Ended(t)
      BY <3>1, <3>5 DEF Children!Ended, Children!Tasks, Worker!Told,
         Worker!Tasks
    <3> QED
      BY <3>3, <3>4, <3>5
  <2>5. CASE next <= i
    BY <2>2, <2>3, <2>5 DEF Queued
  <2> QED
    BY <2>3, <2>4, <2>5
<1> QED
  BY <1>1, <1>2, <1>3, <1>4, WorkersTyped, PTL

=============================================================================
