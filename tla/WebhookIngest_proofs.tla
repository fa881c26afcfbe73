------------------------- MODULE WebhookIngest_proofs -----------------------
(***************************************************************************)
(* TLAPS proofs about WebhookIngest, for any number of requests, messages  *)
(* and users and any set of faults: its variables keep their types, its    *)
(* inductive invariant holds, and with it the safety properties that the   *)
(* runs check on small instances; and it implements DurableInbox.          *)
(***************************************************************************)
EXTENDS WebhookIngest, TLAPS

USE DEF Labels, Over, Active, Status

(* Steps of the handler that publish no task do not touch lost, and lead   *)
(* to publishing only from the commit.                                     *)
LEMMA LostStep == TypeOK /\ [Next]_vars => LostOK'
<1> SUFFICES ASSUME TypeOK, [Next]_vars PROVE LostOK'
  OBVIOUS
<1>0. /\ lost \in [Requests -> 0 .. MaxTries] /\ MaxTries \in Nat
      /\ pc \in [Requests -> Labels]
  BY TriesAssumption DEF TypeOK, LostOK
<1>1. ASSUME NEW r \in Requests, Deliver(r) \/ Handle(r) \/ Fail(r),
             ~BrokerAnswerLost(r)
      PROVE  LostOK'
  <2>1. /\ lost' = lost
        /\ \A q \in Requests \ {r} : pc'[q] = pc[q]
        /\ pc[r] \in {"enqueue", "unwind"} => pc'[r] \in {"unwind", "done"}
        /\ pc[r] \notin Over
        /\ pc'[r] = "enqueue" => pc[r] = "commit"
    <3> USE <1>0 DEF Goto, Answer, Skip, LoseRace, queueVars
    <3>1. CASE Deliver(r)
      BY <3>1 DEF Deliver, Dismiss, Receive
    <3>2. CASE Handle(r)
      BY <3>2 DEF Handle, MessageExists, FindActiveConversation,
         UseConversation, InsertConversation, RetrySelect,
         StoreInboundMessage, Commit, Enqueue, Unwind
    <3>3. CASE Fail(r)
      BY <1>1, <3>3 DEF Fail, DatabaseFails, CommitAnswerLost, BrokerRefuses
    <3> QED
      BY <1>1, <3>1, <3>2, <3>3
  <2>2. lost[r] > 0 => pc'[r] \in {"unwind", "done"}
    BY <2>1 DEF TypeOK, LostOK
  <2>3. pc'[r] = "enqueue" => lost[r] = 0 /\ 0 < MaxTries
    <3>1. lost[r] \in 0 .. MaxTries /\ 0 < MaxTries
      BY <1>0, TriesAssumption
    <3>2. pc[r] = "commit" => ~(lost[r] > 0)
      BY DEF TypeOK, LostOK
    <3> QED
      BY <2>1, <3>1, <3>2
  <2>4. ASSUME NEW q \in Requests
        PROVE  /\ lost[q] > 0 => pc'[q] \in {"enqueue", "unwind"} \cup Over
               /\ pc'[q] = "enqueue" => lost[q] < MaxTries
    BY <2>1, <2>2, <2>3 DEF TypeOK, LostOK
  <2> QED
    BY <1>0, <2>1, <2>4 DEF LostOK
<1>2. ASSUME NEW r \in Requests, BrokerAnswerLost(r) PROVE LostOK'
  <2>1. /\ pc[r] = "enqueue" /\ lost' = [lost EXCEPT ![r] = @ + 1]
        /\ \/ lost[r] + 1 = MaxTries /\ pc' = [pc EXCEPT ![r] = "unwind"]
           \/ lost[r] + 1 # MaxTries /\ pc' = pc
    BY <1>2 DEF BrokerAnswerLost, Answer, Goto
  <2>2. lost[r] \in 0 .. MaxTries /\ lost[r] < MaxTries
    BY <1>0, <2>1 DEF TypeOK, LostOK
  <2>3. /\ lost' \in [Requests -> 0 .. MaxTries] /\ lost'[r] = lost[r] + 1
        /\ \A q \in Requests \ {r} : lost'[q] = lost[q] /\ pc'[q] = pc[q]
    BY <1>0, <2>1, <2>2
  <2>4. /\ pc'[r] \in {"enqueue", "unwind"}
        /\ pc'[r] = "enqueue" => lost'[r] < MaxTries
    BY <1>0, <2>1, <2>2, <2>3
  <2>5. ASSUME NEW q \in Requests
        PROVE  /\ lost'[q] > 0 => pc'[q] \in {"enqueue", "unwind"} \cup Over
               /\ pc'[q] = "enqueue" => lost'[q] < MaxTries
    BY <2>3, <2>4 DEF TypeOK, LostOK
  <2> QED
    BY <2>3, <2>5 DEF LostOK
<1>3. CASE Crash
  <2>1. lost' = lost
        /\ \A r \in Requests : pc'[r] = IF pc[r] \in Active THEN "dead" ELSE pc[r]
    BY <1>3 DEF Crash, queueVars
  <2>2. ASSUME NEW q \in Requests
        PROVE  /\ lost[q] > 0 => pc'[q] \in {"enqueue", "unwind"} \cup Over
               /\ pc'[q] = "enqueue" => lost[q] < MaxTries
    BY <2>1 DEF TypeOK, LostOK
  <2> QED
    BY <1>0, <2>1, <2>2 DEF LostOK
<1>4. CASE UNCHANGED vars
  BY <1>4 DEF vars, TypeOK, LostOK
<1> QED
  BY <1>1, <1>2, <1>3, <1>4 DEF Next, Quiescent, Fail

(* Every variable keeps its type, through every step and fault of the      *)
(* handler.                                                                *)
THEOREM TypeCorrect == Spec => []TypeOK
<1> USE TriesAssumption
<1>1. Init => TypeOK
  BY DEF Init, TypeOK, LostOK, Inbox!Init
<1>2. TypeOK /\ [Next]_vars => TypeOK'
  <2> SUFFICES ASSUME TypeOK, [Next]_vars PROVE TypeOK'
    OBVIOUS
  <2> USE DEF TypeOK, Inbox!ConversationRow, Inbox!MessageRow, Inbox!Task,
              Goto, Answer, Skip, Exists, LoseRace, Rollback, requestVars,
              txnVars, dbVars, queueVars
  <2> LostOK'
    BY LostStep
  <2>1. ASSUME NEW r \in Requests, Dismiss(r) PROVE TypeOK'
    BY <2>1 DEF Dismiss
  <2>2. ASSUME NEW r \in Requests, NEW m \in Messages, Receive(r, m)
        PROVE TypeOK'
    BY <2>2 DEF Receive
  <2>3. ASSUME NEW r \in Requests, MessageExists(r) PROVE TypeOK'
    BY <2>3 DEF MessageExists
  <2>4. ASSUME NEW r \in Requests, FindActiveConversation(r) PROVE TypeOK'
    <3>1. \A row \in ActiveConversations(r) : row.id \in Requests
      BY <2>4 DEF ActiveConversations
    <3> QED
      BY <2>4, <3>1 DEF FindActiveConversation, UseConversation
  <2>5. ASSUME NEW r \in Requests, InsertConversation(r) PROVE TypeOK'
    <3>1. msg[r] \in Messages /\ Sender[msg[r]] \in Users
      BY <2>5, SenderAssumption DEF InsertConversation
    <3>2. CASE ConvTaken(Sender[msg[r]])
      BY <2>5, <3>2 DEF InsertConversation
    <3>3. CASE ~ConvTaken(Sender[msg[r]])
      <4>1. newConvs' \in [Requests -> SUBSET Inbox!ConversationRow]
        BY <2>5, <3>1, <3>3 DEF InsertConversation
      <4>2. /\ conv' = [conv EXCEPT ![r] = r]
            /\ pc' = [pc EXCEPT ![r] = "store"]
            /\ pc[r] = "insert"
            /\ UNCHANGED <<msg, response, newMsgs, dbVars, queueVars>>
        BY <2>5, <3>3 DEF InsertConversation
      <4> QED
        BY <4>1, <4>2
    <3> QED
      BY <3>2, <3>3
  <2>6. ASSUME NEW r \in Requests, RetrySelect(r) PROVE TypeOK'
    <3>1. \A row \in ActiveConversations(r) : row.id \in Requests
      BY <2>6 DEF ActiveConversations
    <3> QED
      BY <2>6, <3>1 DEF RetrySelect, UseConversation
  <2>7. ASSUME NEW r \in Requests, StoreInboundMessage(r) PROVE TypeOK'
    <3>1. msg[r] \in Messages /\ conv[r] \in Requests
      BY <2>7 DEF StoreInboundMessage
    <3>2. CASE MsgTaken(msg[r]) \/ ~ConversationVisible(r)
      <4>1. /\ newConvs' = [newConvs EXCEPT ![r] = {}]
            /\ newMsgs' = [newMsgs EXCEPT ![r] = {}]
            /\ response' = [response EXCEPT ![r] = "200"]
            /\ pc' = [pc EXCEPT ![r] = "done"]
            /\ UNCHANGED <<msg, conv, dbVars, queueVars>>
        BY <2>7, <3>2 DEF StoreInboundMessage
      <4> QED
        BY <4>1
    <3>3. CASE ~(MsgTaken(msg[r]) \/ ~ConversationVisible(r))
      <4> DEFINE row == [id |-> r, msg |-> msg[r], conv |-> conv[r]]
      <4>a. row \in Inbox!MessageRow
        BY <3>1
      <4>b. newMsgs' = [newMsgs EXCEPT ![r] = {row}]
        BY <2>7, <3>3 DEF StoreInboundMessage
      <4> HIDE DEF row
      <4>1. newMsgs' \in [Requests -> SUBSET Inbox!MessageRow]
        BY <4>a, <4>b
      <4>2. /\ pc' = [pc EXCEPT ![r] = "commit"]
            /\ UNCHANGED <<msg, conv, response, newConvs, dbVars, queueVars>>
        BY <2>7, <3>3 DEF StoreInboundMessage
      <4> QED
        BY <3>1, <4>1, <4>2
    <3> QED
      BY <3>2, <3>3
  <2>8. ASSUME NEW r \in Requests, Commit(r) PROVE TypeOK'
    BY <2>8 DEF Commit, CommitRows
  <2>17. ASSUME NEW r \in Requests, pc[r] = "enqueue", Publish(r)
        PROVE  broker' \in Seq(Inbox!Task)
    <3>1. msg[r] \in Messages /\ conv[r] \in Requests
      BY <2>17
    <3>3. lost[r] \in 0 .. MaxTries /\ lost[r] < MaxTries
      BY <2>17 DEF LostOK
    <3>2. TaskOf(r) \in Inbox!Task
      BY <3>1, <3>3 DEF TaskOf
    <3> QED
      BY <2>17, <3>2 DEF Publish
  <2>9. ASSUME NEW r \in Requests, Enqueue(r) PROVE TypeOK'
    BY <2>9, <2>17 DEF Enqueue
  <2>10. ASSUME NEW r \in Requests, Unwind(r) PROVE TypeOK'
    BY <2>10 DEF Unwind
  <2>11. ASSUME NEW r \in Requests, DatabaseFails(r) PROVE TypeOK'
    BY <2>11 DEF DatabaseFails
  <2>12. ASSUME NEW r \in Requests, CommitAnswerLost(r) PROVE TypeOK'
    BY <2>12 DEF CommitAnswerLost, CommitRows
  <2>13. ASSUME NEW r \in Requests, BrokerAnswerLost(r) PROVE TypeOK'
    BY <2>13, <2>17 DEF BrokerAnswerLost
  <2>16. ASSUME NEW r \in Requests, BrokerRefuses(r) PROVE TypeOK'
    BY <2>16 DEF BrokerRefuses
  <2>14. CASE Crash
    BY <2>14 DEF Crash
  <2>15. CASE UNCHANGED vars
    BY <2>15 DEF vars
  <2> QED
    BY <2>1, <2>2, <2>3, <2>4, <2>5, <2>6, <2>7, <2>8, <2>9, <2>10, <2>11,
       <2>12, <2>13, <2>14, <2>15, <2>16
    DEF Next, Deliver, Handle, Fail, Quiescent
<1> QED
  BY <1>1, <1>2, PTL DEF Spec

(* A request about to publish has published only the tries that nobody     *)
(* answered, and nobody else publishes tasks of its message: such a task   *)
(* would be of the same row.                                               *)
LEMMA NotYetPublished ==
  ASSUME TypeOK, IInv, NEW r \in Requests, pc[r] = "enqueue"
  PROVE  \A i \in 1 .. Len(broker) :
           broker[i].msg = msg[r] => broker[i].try <= lost[r]
<1> DEFINE own == [id |-> r, msg |-> msg[r], conv |-> conv[r]]
<1> SUFFICES ASSUME NEW i \in 1 .. Len(broker), broker[i].msg = msg[r]
             PROVE  broker[i].try <= lost[r]
  OBVIOUS
<1>1. own \in messages
  BY DEF IInv, HandlersOK, HandlerOK
<1>2. PICK row \in messages :
        Published(row.id, broker[i].try) /\ row.msg = msg[r]
  BY DEF IInv, TablesOK
<1>3. row = own
  BY <1>1, <1>2 DEF IInv, KeysUnique
<1> QED
  BY <1>2, <1>3 DEF Published

(* What publishing the next task of a committed row does to the broker.    *)
LEMMA PublishAppends ==
  ASSUME TypeOK, NEW r \in Requests, pc[r] = "enqueue", Publish(r)
  PROVE  /\ lost[r] \in Nat /\ lost[r] + 1 \in 1 .. MaxTries
         /\ Len(broker) \in Nat /\ Len(broker') = Len(broker) + 1
         /\ \A i \in 1 .. Len(broker) : broker'[i] = broker[i]
         /\ broker'[Len(broker) + 1].msg = msg[r]
         /\ broker'[Len(broker) + 1].conv = conv[r]
         /\ broker'[Len(broker) + 1].try = lost[r] + 1
<1>1. lost[r] \in Nat /\ lost[r] + 1 \in 1 .. MaxTries
  BY TriesAssumption DEF TypeOK, LostOK
<1>2. TaskOf(r) \in Inbox!Task /\ broker \in Seq(Inbox!Task)
  BY <1>1 DEF TypeOK, TaskOf, Inbox!Task
<1>3. /\ Len(broker) \in Nat /\ Len(broker') = Len(broker) + 1
      /\ \A i \in 1 .. Len(broker) : broker'[i] = broker[i]
      /\ broker'[Len(broker) + 1] = TaskOf(r)
  BY <1>2 DEF Publish
<1> QED
  BY <1>1, <1>3 DEF TaskOf

(* Publishing keeps TablesOK and TriesOK: the try is a new one, and    *)
(* the request stands where it has been published.                         *)
LEMMA PublishKeeps ==
  ASSUME TypeOK, IInv, NEW r \in Requests, pc[r] = "enqueue",
         Publish(r), UNCHANGED <<msg, conversations, messages>>,
         \A q \in Requests \ {r} : pc'[q] = pc[q] /\ lost'[q] = lost[q],
         \/ lost'[r] = lost[r] /\ pc'[r] = "done"
         \/ lost'[r] = lost[r] + 1 /\ pc'[r] \in {"enqueue", "unwind"}
  PROVE  TablesOK' /\ TriesOK'
<1> DEFINE own == [id |-> r, msg |-> msg[r], conv |-> conv[r]]
           last == Len(broker) + 1
<1>1. own \in messages
  BY DEF IInv, HandlersOK, HandlerOK
<1>2. /\ lost[r] \in Nat /\ Len(broker) \in Nat /\ Len(broker') = last
      /\ \A i \in 1 .. Len(broker) : broker'[i] = broker[i]
      /\ broker'[last].msg = own.msg /\ broker'[last].conv = own.conv
      /\ broker'[last].try = lost[r] + 1
  BY PublishAppends
<1>3. ASSUME NEW i \in 1 .. Len(broker)
      PROVE  broker[i].try \in Nat
  <2>1. broker[i] \in Inbox!Task
    BY DEF TypeOK
  <2> QED
    BY <2>1, TriesAssumption DEF Inbox!Task
<1>4. TriesOK'
  <2>1. \A i \in 1 .. Len(broker) :
          broker'[i].msg = own.msg => broker'[i].try # lost[r] + 1
    BY <1>2, <1>3, NotYetPublished
  <2>2. \A i, j \in 1 .. Len(broker') :
          broker'[i].msg = broker'[j].msg /\ broker'[i].try = broker'[j].try
            => i = j
    BY <1>2, <2>1 DEF IInv, TriesOK
  <2>3. ASSUME NEW q \in Requests, lost'[q] > 0
        PROVE  \E i \in 1 .. Len(broker') :
                 broker'[i].msg = msg'[q] /\ broker'[i].try = lost'[q]
    <3>1. CASE lost'[q] = lost[q]
      <4>1. PICK i \in 1 .. Len(broker) :
              broker[i].msg = msg[q] /\ broker[i].try = lost[q]
        BY <2>3, <3>1 DEF IInv, TriesOK, Inbox!Tried
      <4> QED
        BY <1>2, <3>1, <4>1
    <3>2. CASE q = r /\ lost'[r] = lost[r] + 1
      BY <1>2, <3>2
    <3> QED
      BY <3>1, <3>2
  <2> QED
    BY <2>2, <2>3 DEF TriesOK, Inbox!Tried
<1>5. ASSUME NEW q \in Requests, NEW n \in Nat,
             Published(q, n) \/ (q = r /\ n = lost[r] + 1)
      PROVE  Published(q, n)'
  <2>1. CASE q # r
    BY <1>5, <2>1 DEF Published
  <2>2. CASE q = r
    <3>1. n <= lost[r] + 1
      BY <1>2, <1>5, <2>2 DEF Published
    <3> QED
      BY <1>2, <2>2, <3>1 DEF Published
  <2> QED
    BY <2>1, <2>2
<1>6. TablesOK'
  <2>1. ASSUME NEW i \in 1 .. Len(broker')
        PROVE  \E row \in messages : /\ row.msg = broker'[i].msg
                                      /\ row.conv = broker'[i].conv
                                      /\ Published(row.id, broker[i].try)'
    <3>1. CASE i \in 1 .. Len(broker)
      <4>1. PICK row \in messages :
              /\ row.msg = broker[i].msg /\ row.conv = broker[i].conv
              /\ Published(row.id, broker[i].try)
        BY <3>1 DEF IInv, TablesOK
      <4>2. row.id \in Requests
        BY DEF TypeOK, Inbox!MessageRow
      <4>3. Published(row.id, broker'[i].try)
        BY <1>2, <3>1, <4>1
      <4>4. broker'[i].try \in Nat
        BY <1>2, <1>3, <3>1
      <4> HIDE DEF last
      <4>5. \A n \in Nat : Published(row.id, n) => Published(row.id, n)'
        BY <1>5, <4>2
      <4>6. Published(row.id, broker[i].try)'
        BY <4>3, <4>4, <4>5 DEF Published
      <4> QED
        BY <1>2, <3>1, <4>1, <4>6
    <3>2. CASE i = last
      <4>1. broker'[i].try = lost[r] + 1
        BY <1>2, <3>2
      <4>2. Published(r, broker[i].try)'
        BY <1>2, <4>1 DEF Published
      <4> QED
        BY <1>1, <1>2, <3>2, <4>2
    <3> QED
      BY <1>2, <3>1, <3>2
  <2> QED
    BY <2>1 DEF IInv, TablesOK
<1> QED
  BY <1>4, <1>6

(* What is published stays so, as long as no request turns back.           *)
LEMMA TablesStay ==
  ASSUME TypeOK, IInv, UNCHANGED <<lost, broker>>, messages \subseteq messages',
         \A row \in messages' :
           [id |-> row.conv, user |-> Sender[row.msg]] \in conversations',
         \A q \in Requests :
           /\ pc[q] \in Over \cup {"unwind", "enqueue"} =>
                pc'[q] \in Over \cup {"unwind"} \/ pc'[q] = pc[q]
           /\ lost[q] > 0 => msg'[q] = msg[q]
  PROVE  TablesOK' /\ TriesOK'
<1>1. ASSUME NEW i \in 1 .. Len(broker)
      PROVE  \E row \in messages' : /\ row.msg = broker[i].msg
                                     /\ row.conv = broker[i].conv
                                     /\ Published(row.id, broker[i].try)'
  <2>1. PICK row \in messages :
          /\ row.msg = broker[i].msg /\ row.conv = broker[i].conv
          /\ Published(row.id, broker[i].try)
    BY DEF IInv, TablesOK
  <2>2. row.id \in Requests /\ broker[i] \in Inbox!Task
    BY DEF TypeOK, Inbox!MessageRow
  <2>3. broker[i].try \in Nat /\ lost[row.id] \in Nat
    BY <2>2, TriesAssumption DEF TypeOK, LostOK, Inbox!Task
  <2>4. Published(row.id, broker[i].try)'
    BY <2>1, <2>2, <2>3 DEF Published
  <2> QED
    BY <2>1, <2>4
<1>2. TablesOK'
  BY <1>1 DEF TablesOK
<1>3. TriesOK'
  BY DEF IInv, TriesOK, Inbox!Tried
<1> QED
  BY <1>2, <1>3

(* The inductive invariant is preserved by every step. *)
LEMMA IInvInductive == TypeOK /\ IInv /\ [Next]_vars => IInv'
<1> SUFFICES ASSUME TypeOK, IInv, [Next]_vars PROVE IInv'
  OBVIOUS
<1> USE NoneAssumption
    DEF TypeOK, Inbox!ConversationRow, Inbox!MessageRow, Inbox!Task, IInv,
        Goto, Answer, Skip, Exists, LoseRace, Rollback, requestVars, txnVars,
        dbVars, queueVars
<1>1. ASSUME NEW r \in Requests, Dismiss(r) PROVE IInv'
  <2>1. TransactionsOK'
    BY <1>1 DEF Dismiss, TransactionsOK
  <2>2. KeysUnique'
    BY <1>1 DEF Dismiss, KeysUnique, OneConversationPerUser, ConvTaken,
       ConvPending, MsgTaken, MsgPending
  <2>3. HandlersOK'
    BY <1>1 DEF Dismiss, HandlersOK, HandlerOK, ConvTaken, TransactionsOK
  <2>4. TablesOK' /\ TriesOK'
    <3>1. /\ UNCHANGED <<lost, broker, messages, conversations>>
          /\ \A q \in Requests :
               /\ pc[q] \in Over \cup {"unwind", "enqueue"} =>
                    pc'[q] \in Over \cup {"unwind"} \/ pc'[q] = pc[q]
               /\ lost[q] > 0 => msg'[q] = msg[q]
      BY <1>1 DEF Dismiss
    <3> QED
      BY <3>1, TablesStay DEF TablesOK
  <2>6. AckedIsStored'
    BY <1>1 DEF Dismiss, AckedIsStored, MsgTaken, HandlersOK, HandlerOK
  <2>7. RowsWritten'
    BY <1>1 DEF Dismiss, RowsWritten, Written
  <2> QED
    BY <2>1, <2>2, <2>3, <2>4, <2>6, <2>7
<1>2. ASSUME NEW r \in Requests, NEW m \in Messages, Receive(r, m) PROVE IInv'
  <2>1. TransactionsOK'
    BY <1>2 DEF Receive, TransactionsOK
  <2>2. KeysUnique'
    BY <1>2 DEF Receive, KeysUnique, OneConversationPerUser, ConvTaken,
       ConvPending, MsgTaken, MsgPending
  <2>3. HandlersOK'
    BY <1>2 DEF Receive, HandlersOK, HandlerOK, ConvTaken, TransactionsOK
  <2>4. TablesOK' /\ TriesOK'
    <3>1. /\ UNCHANGED <<lost, broker, messages, conversations>>
          /\ \A q \in Requests :
               /\ pc[q] \in Over \cup {"unwind", "enqueue"} =>
                    pc'[q] \in Over \cup {"unwind"} \/ pc'[q] = pc[q]
               /\ lost[q] > 0 => msg'[q] = msg[q]
      BY <1>2 DEF Receive, LostOK
    <3> QED
      BY <3>1, TablesStay DEF TablesOK
  <2>6. AckedIsStored'
    <3>1. response'[r] # "200"
      BY <1>2 DEF Receive, HandlersOK, HandlerOK
    <3>2. \A q \in Requests \ {r} :
            response'[q] = response[q] /\ msg'[q] = msg[q]
      BY <1>2 DEF Receive
    <3>3. UNCHANGED messages
      BY <1>2 DEF Receive
    <3> QED
      BY <3>1, <3>2, <3>3 DEF AckedIsStored, MsgTaken
  <2>7. RowsWritten'
    BY <1>2 DEF Receive, RowsWritten, Written
  <2> QED
    BY <2>1, <2>2, <2>3, <2>4, <2>6, <2>7
<1>3. ASSUME NEW r \in Requests, MessageExists(r) PROVE IInv'
  <2>1. TransactionsOK'
    BY <1>3 DEF MessageExists, TransactionsOK
  <2>2. KeysUnique'
    BY <1>3 DEF MessageExists, KeysUnique, OneConversationPerUser, ConvTaken,
       ConvPending, MsgTaken, MsgPending
  <2>3. HandlersOK'
    <3> SUFFICES ASSUME NEW q \in Requests PROVE HandlerOK(q)'
      BY DEF HandlersOK
    <3>1. CASE q = r
      BY <1>3, <3>1, HandlerOK(r) DEF HandlersOK, HandlerOK, MessageExists
    <3>2. CASE q # r
      BY <1>3, <3>2, HandlerOK(q) DEF HandlersOK, HandlerOK, ConvTaken,
         MessageExists
    <3> QED
      BY <3>1, <3>2
  <2>4. TablesOK' /\ TriesOK'
    <3>1. /\ UNCHANGED <<lost, broker, messages, conversations>>
          /\ \A q \in Requests :
               /\ pc[q] \in Over \cup {"unwind", "enqueue"} =>
                    pc'[q] \in Over \cup {"unwind"} \/ pc'[q] = pc[q]
               /\ lost[q] > 0 => msg'[q] = msg[q]
      BY <1>3 DEF MessageExists
    <3> QED
      BY <3>1, TablesStay DEF TablesOK
  <2>6. AckedIsStored'
    BY <1>3 DEF MessageExists, AckedIsStored, MsgTaken
  <2>7. RowsWritten'
    BY <1>3 DEF MessageExists, RowsWritten, Written
  <2> QED
    BY <2>1, <2>2, <2>3, <2>4, <2>6, <2>7
<1>4. ASSUME NEW r \in Requests, FindActiveConversation(r) PROVE IInv'
  <2>1. TransactionsOK'
    BY <1>4 DEF FindActiveConversation, UseConversation, TransactionsOK
  <2>2. KeysUnique'
    BY <1>4 DEF FindActiveConversation, UseConversation, KeysUnique,
       OneConversationPerUser, ConvTaken, ConvPending, MsgTaken, MsgPending
  <2>3. HandlersOK'
    <3> SUFFICES ASSUME NEW q \in Requests PROVE HandlerOK(q)'
      BY DEF HandlersOK
    <3>1. CASE q = r
      BY <1>4, <3>1, HandlerOK(r)
      DEF HandlersOK, HandlerOK, FindActiveConversation, UseConversation,
          ActiveConversations, TransactionsOK
    <3>2. CASE q # r
      BY <1>4, <3>2, HandlerOK(q)
      DEF HandlersOK, HandlerOK, ConvTaken, FindActiveConversation,
          UseConversation
    <3> QED
      BY <3>1, <3>2
  <2>4. TablesOK' /\ TriesOK'
    <3>1. /\ UNCHANGED <<lost, broker, messages, conversations>>
          /\ \A q \in Requests :
               /\ pc[q] \in Over \cup {"unwind", "enqueue"} =>
                    pc'[q] \in Over \cup {"unwind"} \/ pc'[q] = pc[q]
               /\ lost[q] > 0 => msg'[q] = msg[q]
      BY <1>4 DEF FindActiveConversation, UseConversation
    <3> QED
      BY <3>1, TablesStay DEF TablesOK
  <2>6. AckedIsStored'
    BY <1>4 DEF FindActiveConversation, UseConversation, AckedIsStored,
       MsgTaken
  <2>7. RowsWritten'
    BY <1>4 DEF FindActiveConversation, UseConversation, RowsWritten, Written
  <2> QED
    BY <2>1, <2>2, <2>3, <2>4, <2>6, <2>7
<1>5. ASSUME NEW r \in Requests, InsertConversation(r) PROVE IInv'
  <2>1. TransactionsOK'
    <3>1. /\ pc[r] = "insert" /\ UNCHANGED msg
          /\ \A q \in Requests \ {r} :
               /\ pc'[q] = pc[q] /\ conv'[q] = conv[q]
               /\ newConvs'[q] = newConvs[q] /\ newMsgs'[q] = newMsgs[q]
      BY <1>5 DEF InsertConversation
    <3>2. newMsgs'[r] = {}
      BY <1>5, <3>1 DEF InsertConversation, TransactionsOK
    <3>3. \/ newConvs'[r] = {}
          \/ /\ newConvs'[r] = {[id |-> r, user |-> Sender[msg[r]]]}
             /\ pc'[r] = "store"
      BY <1>5 DEF InsertConversation
    <3> DEFINE Fits(q) ==
          /\ \A row \in newConvs[q] :
               /\ pc[q] \in {"store", "commit", "unwind"}
               /\ row = [id |-> q, user |-> Sender[msg[q]]]
          /\ \A row \in newMsgs[q] :
               /\ pc[q] \in {"commit", "unwind"}
               /\ row = [id |-> q, msg |-> msg[q], conv |-> conv[q]]
    <3>4. Fits(r)'
      BY <3>1, <3>2, <3>3
    <3>5. ASSUME NEW q \in Requests \ {r} PROVE Fits(q)'
      BY <3>1 DEF TransactionsOK
    <3> QED
      BY <3>4, <3>5 DEF TransactionsOK
  <2>2. KeysUnique'
    <3>1. CASE ConvTaken(Sender[msg[r]])
      <4>1. /\ \A q \in Requests : /\ newConvs'[q] \subseteq newConvs[q]
                                  /\ newMsgs'[q] \subseteq newMsgs[q]
            /\ UNCHANGED <<conversations, messages>>
        BY <1>5, <3>1 DEF InsertConversation
      <4> QED
        BY <4>1 DEF KeysUnique, OneConversationPerUser, ConvTaken, ConvPending,
           MsgTaken, MsgPending
    <3>2. CASE ~ConvTaken(Sender[msg[r]])
      <4> DEFINE u == Sender[msg[r]]
      <4>1. /\ newConvs' = [newConvs EXCEPT ![r] = {[id |-> r, user |-> u]}]
            /\ UNCHANGED <<newMsgs, conversations, messages>>
            /\ ~ConvPending(r, u)
        BY <1>5, <3>2 DEF InsertConversation
      <4>2. \A q \in Requests : \A row \in newConvs'[q] :
              ~ConvTaken(row.user)' /\ ~ConvPending(q, row.user)'
        BY <4>1, <3>2 DEF KeysUnique, ConvTaken, ConvPending
      <4>3. \A q \in Requests : \A row \in newMsgs'[q] :
              ~MsgTaken(row.msg)' /\ ~MsgPending(q, row.msg)'
        BY <4>1 DEF KeysUnique, MsgTaken, MsgPending
      <4> QED
        BY <4>1, <4>2, <4>3 DEF KeysUnique, OneConversationPerUser
    <3> QED
      BY <3>1, <3>2
  <2>3. HandlersOK'
    <3> SUFFICES ASSUME NEW q \in Requests PROVE HandlerOK(q)'
      BY DEF HandlersOK
    <3>1. CASE q = r
      BY <1>5, <3>1, HandlerOK(r) DEF HandlersOK, HandlerOK,
         InsertConversation, ConvTaken
    <3>2. CASE q # r
      BY <1>5, <3>2, HandlerOK(q) DEF HandlersOK, HandlerOK, ConvTaken,
         InsertConversation
    <3> QED
      BY <3>1, <3>2
  <2>4. TablesOK' /\ TriesOK'
    <3>1. /\ UNCHANGED <<lost, broker, messages, conversations>>
          /\ \A q \in Requests :
               /\ pc[q] \in Over \cup {"unwind", "enqueue"} =>
                    pc'[q] \in Over \cup {"unwind"} \/ pc'[q] = pc[q]
               /\ lost[q] > 0 => msg'[q] = msg[q]
      BY <1>5 DEF InsertConversation
    <3> QED
      BY <3>1, TablesStay DEF TablesOK
  <2>6. AckedIsStored'
    BY <1>5 DEF InsertConversation, AckedIsStored, MsgTaken
  <2>7. RowsWritten'
    BY <1>5 DEF InsertConversation, RowsWritten, Written
  <2> QED
    BY <2>1, <2>2, <2>3, <2>4, <2>6, <2>7
<1>6. ASSUME NEW r \in Requests, RetrySelect(r) PROVE IInv'
  <2>1. TransactionsOK'
    BY <1>6 DEF RetrySelect, UseConversation, TransactionsOK
  <2>2. KeysUnique'
    BY <1>6 DEF RetrySelect, UseConversation, KeysUnique,
       OneConversationPerUser, ConvTaken, ConvPending, MsgTaken, MsgPending
  <2>3. HandlersOK'
    <3> SUFFICES ASSUME NEW q \in Requests PROVE HandlerOK(q)'
      BY DEF HandlersOK
    <3>1. CASE q = r
      BY <1>6, <3>1, HandlerOK(r) DEF HandlersOK, HandlerOK, RetrySelect,
         UseConversation, ActiveConversations, TransactionsOK
    <3>2. CASE q # r
      BY <1>6, <3>2, HandlerOK(q) DEF HandlersOK, HandlerOK, ConvTaken,
         RetrySelect, UseConversation, ActiveConversations, TransactionsOK
    <3> QED
      BY <3>1, <3>2
  <2>4. TablesOK' /\ TriesOK'
    <3>1. /\ UNCHANGED <<lost, broker, messages, conversations>>
          /\ \A q \in Requests :
               /\ pc[q] \in Over \cup {"unwind", "enqueue"} =>
                    pc'[q] \in Over \cup {"unwind"} \/ pc'[q] = pc[q]
               /\ lost[q] > 0 => msg'[q] = msg[q]
      BY <1>6 DEF RetrySelect, UseConversation
    <3> QED
      BY <3>1, TablesStay DEF TablesOK
  <2>6. AckedIsStored'
    BY <1>6 DEF RetrySelect, UseConversation, AckedIsStored, MsgTaken
  <2>7. RowsWritten'
    BY <1>6 DEF RetrySelect, UseConversation, RowsWritten, Written
  <2> QED
    BY <2>1, <2>2, <2>3, <2>4, <2>6, <2>7
<1>7. ASSUME NEW r \in Requests, StoreInboundMessage(r) PROVE IInv'
  <2>1. TransactionsOK'
    <3>1. CASE MsgTaken(msg[r]) \/ ~ConversationVisible(r)
      BY <1>7, <3>1 DEF StoreInboundMessage, TransactionsOK
    <3>2. CASE ~(MsgTaken(msg[r]) \/ ~ConversationVisible(r))
      BY <1>7, <3>2 DEF StoreInboundMessage, TransactionsOK
    <3> QED
      BY <3>1, <3>2
  <2>2. KeysUnique'
    <3>1. CASE MsgTaken(msg[r]) \/ ~ConversationVisible(r)
      <4>1. UNCHANGED <<conversations, messages>>
        BY <1>7 DEF StoreInboundMessage
      <4>2. \A q \in Requests :
              /\ newConvs'[q] \subseteq newConvs[q]
              /\ newMsgs'[q] \subseteq newMsgs[q]
        BY <1>7, <3>1 DEF StoreInboundMessage
      <4> QED
        BY <4>1, <4>2 DEF KeysUnique, OneConversationPerUser,
           ConvTaken, ConvPending, MsgTaken, MsgPending
    <3>2. CASE ~(MsgTaken(msg[r]) \/ ~ConversationVisible(r))
      <4>1. /\ newMsgs' = [newMsgs EXCEPT ![r] =
                 {[id |-> r, msg |-> msg[r], conv |-> conv[r]]}]
            /\ UNCHANGED <<newConvs, conversations, messages>>
            /\ ~MsgPending(r, msg[r])
        BY <1>7, <3>2 DEF StoreInboundMessage
      <4>a. newMsgs'[r] = {[id |-> r, msg |-> msg[r], conv |-> conv[r]]}
        BY <4>1
      <4>b. \A q \in Requests \ {r} : newMsgs'[q] = newMsgs[q]
        BY <4>1
      <4>c. ~MsgTaken(msg[r])
        BY <3>2
      <4>2. \A q \in Requests : \A row \in newMsgs'[q] :
              ~MsgTaken(row.msg)' /\ ~MsgPending(q, row.msg)'
        BY <4>1, <4>a, <4>b, <4>c DEF KeysUnique, MsgTaken, MsgPending
      <4>3. \A q \in Requests : \A row \in newConvs'[q] :
              ~ConvTaken(row.user)' /\ ~ConvPending(q, row.user)'
        BY <4>1 DEF KeysUnique, ConvTaken, ConvPending
      <4> QED
        BY <4>1, <4>2, <4>3 DEF KeysUnique, OneConversationPerUser
    <3> QED
      BY <3>1, <3>2
  <2>3. HandlersOK'
    <3> SUFFICES ASSUME NEW q \in Requests PROVE HandlerOK(q)'
      BY DEF HandlersOK
    <3>1. CASE q = r
      BY <1>7, <3>1, HandlerOK(r) DEF HandlersOK, HandlerOK,
         StoreInboundMessage, TransactionsOK, ConversationVisible
    <3>2. CASE q # r
      BY <1>7, <3>2, HandlerOK(q) DEF HandlersOK, HandlerOK, ConvTaken,
         StoreInboundMessage, TransactionsOK, ConversationVisible
    <3> QED
      BY <3>1, <3>2
  <2>4. TablesOK' /\ TriesOK'
    <3>1. /\ UNCHANGED <<lost, broker, messages, conversations>>
          /\ \A q \in Requests :
               /\ pc[q] \in Over \cup {"unwind", "enqueue"} =>
                    pc'[q] \in Over \cup {"unwind"} \/ pc'[q] = pc[q]
               /\ lost[q] > 0 => msg'[q] = msg[q]
      BY <1>7 DEF StoreInboundMessage
    <3> QED
      BY <3>1, TablesStay DEF TablesOK
  <2>6. AckedIsStored'
    <3>1. ConversationVisible(r)
      BY <1>7 DEF StoreInboundMessage, HandlersOK, HandlerOK,
         ConversationVisible
    <3> QED
      BY <1>7, <3>1 DEF StoreInboundMessage, AckedIsStored, MsgTaken
  <2>7. RowsWritten'
    BY <1>7 DEF StoreInboundMessage, RowsWritten, Written
  <2> QED
    BY <2>1, <2>2, <2>3, <2>4, <2>6, <2>7
<1>8. ASSUME NEW r \in Requests, Commit(r) PROVE IInv'
  <2>1. TransactionsOK'
    BY <1>8 DEF Commit, CommitRows, TransactionsOK
  <2>2. KeysUnique'
    BY <1>8 DEF Commit, CommitRows, KeysUnique, OneConversationPerUser,
       ConvTaken, ConvPending, MsgTaken, MsgPending, TransactionsOK,
       HandlersOK, HandlerOK
  <2>3. HandlersOK'
    <3> SUFFICES ASSUME NEW q \in Requests PROVE HandlerOK(q)'
      BY DEF HandlersOK
    <3>1. HandlerOK(q)
      BY DEF HandlersOK
    <3>2. CASE q = r
      BY <1>8, <3>1, <3>2 DEF Commit, CommitRows, HandlerOK
    <3>3. CASE q # r
      BY <1>8, <3>1, <3>3 DEF Commit, CommitRows, HandlerOK, ConvTaken
    <3> QED
      BY <3>2, <3>3
  <2>4. TablesOK' /\ TriesOK'
    <3> DEFINE new == [id |-> r, msg |-> msg[r], conv |-> conv[r]]
    <3>1. /\ messages' = messages \cup {new}
          /\ conversations \subseteq conversations'
          /\ [id |-> conv[r], user |-> Sender[msg[r]]] \in conversations'
          /\ UNCHANGED <<lost, broker, msg>>
      BY <1>8 DEF Commit, CommitRows, HandlersOK, HandlerOK
    <3>2. \A row \in messages' :
            [id |-> row.conv, user |-> Sender[row.msg]] \in conversations'
      BY <3>1 DEF TablesOK
    <3>3. \A q \in Requests :
            pc[q] \in Over \cup {"unwind", "enqueue"} => pc'[q] = pc[q]
      BY <1>8 DEF Commit
    <3> QED
      BY <3>1, <3>2, <3>3, TablesStay
  <2>6. AckedIsStored'
    BY <1>8 DEF Commit, CommitRows, AckedIsStored, MsgTaken
  <2>7. RowsWritten'
    BY <1>8 DEF Commit, CommitRows, RowsWritten, Written, TransactionsOK
  <2> QED
    BY <2>1, <2>2, <2>3, <2>4, <2>6, <2>7
<1>9. ASSUME NEW r \in Requests, Enqueue(r) PROVE IInv'
  <2>1. TransactionsOK'
    BY <1>9 DEF Enqueue, TransactionsOK
  <2>2. KeysUnique'
    BY <1>9 DEF Enqueue, KeysUnique, OneConversationPerUser, ConvTaken,
       ConvPending, MsgTaken, MsgPending
  <2>3. HandlersOK'
    <3> SUFFICES ASSUME NEW q \in Requests PROVE HandlerOK(q)'
      BY DEF HandlersOK
    <3>1. CASE q = r
      BY <1>9, <3>1, HandlerOK(r) DEF HandlersOK, HandlerOK, Enqueue
    <3>2. CASE q # r
      BY <1>9, <3>2, HandlerOK(q) DEF HandlersOK, HandlerOK, ConvTaken, Enqueue
    <3> QED
      BY <3>1, <3>2
  <2>4. TablesOK' /\ TriesOK'
    BY <1>9, PublishKeeps DEF Enqueue
  <2>6. AckedIsStored'
    BY <1>9 DEF Enqueue, AckedIsStored, MsgTaken, HandlersOK, HandlerOK
  <2>7. RowsWritten'
    BY <1>9 DEF Enqueue, RowsWritten, Written
  <2> QED
    BY <2>1, <2>2, <2>3, <2>4, <2>6, <2>7
<1>10. ASSUME NEW r \in Requests, Unwind(r) PROVE IInv'
  <2>1. TransactionsOK'
    BY <1>10 DEF Unwind, TransactionsOK
  <2>2. KeysUnique'
    BY <1>10 DEF Unwind, KeysUnique, OneConversationPerUser, ConvTaken,
       ConvPending, MsgTaken, MsgPending
  <2>3. HandlersOK'
    BY <1>10 DEF Unwind, HandlersOK, HandlerOK, ConvTaken, TransactionsOK
  <2>4. TablesOK' /\ TriesOK'
    <3>1. /\ UNCHANGED <<lost, broker, messages, conversations>>
          /\ \A q \in Requests :
               /\ pc[q] \in Over \cup {"unwind", "enqueue"} =>
                    pc'[q] \in Over \cup {"unwind"} \/ pc'[q] = pc[q]
               /\ lost[q] > 0 => msg'[q] = msg[q]
      BY <1>10 DEF Unwind
    <3> QED
      BY <3>1, TablesStay DEF TablesOK
  <2>6. AckedIsStored'
    BY <1>10 DEF Unwind, AckedIsStored, MsgTaken
  <2>7. RowsWritten'
    BY <1>10 DEF Unwind, RowsWritten, Written
  <2> QED
    BY <2>1, <2>2, <2>3, <2>4, <2>6, <2>7
<1>11. ASSUME NEW r \in Requests, DatabaseFails(r) PROVE IInv'
  <2>1. TransactionsOK'
    BY <1>11 DEF DatabaseFails, TransactionsOK
  <2>2. KeysUnique'
    BY <1>11 DEF DatabaseFails, KeysUnique, OneConversationPerUser, ConvTaken,
       ConvPending, MsgTaken, MsgPending
  <2>3. HandlersOK'
    <3> SUFFICES ASSUME NEW q \in Requests PROVE HandlerOK(q)'
      BY DEF HandlersOK
    <3>1. HandlerOK(q)
      BY DEF HandlersOK
    <3>2. CASE q = r
      BY <1>11, <3>2 DEF DatabaseFails, HandlerOK
    <3>3. CASE q # r
      BY <1>11, <3>1, <3>3 DEF DatabaseFails, HandlerOK, ConvTaken
    <3> QED
      BY <3>2, <3>3
  <2>4. TablesOK' /\ TriesOK'
    <3>1. /\ UNCHANGED <<lost, broker, messages, conversations>>
          /\ \A q \in Requests :
               /\ pc[q] \in Over \cup {"unwind", "enqueue"} =>
                    pc'[q] \in Over \cup {"unwind"} \/ pc'[q] = pc[q]
               /\ lost[q] > 0 => msg'[q] = msg[q]
      BY <1>11 DEF DatabaseFails
    <3> QED
      BY <3>1, TablesStay DEF TablesOK
  <2>6. AckedIsStored'
    BY <1>11 DEF DatabaseFails, AckedIsStored, MsgTaken
  <2>7. RowsWritten'
    BY <1>11 DEF DatabaseFails, RowsWritten, Written
  <2> QED
    BY <2>1, <2>2, <2>3, <2>4, <2>6, <2>7
<1>12. ASSUME NEW r \in Requests, CommitAnswerLost(r) PROVE IInv'
  <2>1. TransactionsOK'
    BY <1>12 DEF CommitAnswerLost, CommitRows, TransactionsOK
  <2>2. KeysUnique'
    BY <1>12 DEF CommitAnswerLost, CommitRows, KeysUnique,
       OneConversationPerUser, ConvTaken, ConvPending, MsgTaken, MsgPending,
       TransactionsOK, HandlersOK, HandlerOK
  <2>3. HandlersOK'
    BY <1>12 DEF CommitAnswerLost, CommitRows, HandlersOK, HandlerOK,
       ConvTaken, TransactionsOK
  <2>4. TablesOK' /\ TriesOK'
    <3> DEFINE new == [id |-> r, msg |-> msg[r], conv |-> conv[r]]
    <3>1. /\ messages' = messages \cup {new}
          /\ conversations \subseteq conversations'
          /\ [id |-> conv[r], user |-> Sender[msg[r]]] \in conversations'
          /\ UNCHANGED <<lost, broker, msg>>
      BY <1>12 DEF CommitAnswerLost, CommitRows, HandlersOK, HandlerOK
    <3>2. \A row \in messages' :
            [id |-> row.conv, user |-> Sender[row.msg]] \in conversations'
      BY <3>1 DEF TablesOK
    <3>3. \A q \in Requests :
            pc[q] \in Over \cup {"unwind", "enqueue"} => pc'[q] = pc[q]
      BY <1>12 DEF CommitAnswerLost
    <3> QED
      BY <3>1, <3>2, <3>3, TablesStay
  <2>6. AckedIsStored'
    BY <1>12 DEF CommitAnswerLost, CommitRows, AckedIsStored, MsgTaken
  <2>7. RowsWritten'
    BY <1>12 DEF CommitAnswerLost, CommitRows, RowsWritten, Written,
       TransactionsOK
  <2> QED
    BY <2>1, <2>2, <2>3, <2>4, <2>6, <2>7
<1>13. ASSUME NEW r \in Requests, BrokerAnswerLost(r) PROVE IInv'
  <2>1. TransactionsOK'
    BY <1>13 DEF BrokerAnswerLost, TransactionsOK
  <2>2. KeysUnique'
    BY <1>13 DEF BrokerAnswerLost, KeysUnique, OneConversationPerUser,
       ConvTaken, ConvPending, MsgTaken, MsgPending
  <2>3. HandlersOK'
    <3> SUFFICES ASSUME NEW q \in Requests PROVE HandlerOK(q)'
      BY DEF HandlersOK
    <3>1. CASE q = r
      BY <1>13, <3>1, HandlerOK(r) DEF HandlersOK, HandlerOK, BrokerAnswerLost
    <3>2. CASE q # r
      BY <1>13, <3>2, HandlerOK(q) DEF HandlersOK, HandlerOK, ConvTaken, BrokerAnswerLost
    <3> QED
      BY <3>1, <3>2
  <2>4. TablesOK' /\ TriesOK'
    <3>1. /\ pc[r] = "enqueue" /\ Publish(r)
          /\ UNCHANGED <<msg, conversations, messages>>
          /\ \A q \in Requests \ {r} : pc'[q] = pc[q] /\ lost'[q] = lost[q]
      BY <1>13 DEF BrokerAnswerLost
    <3>2. lost'[r] = lost[r] + 1 /\ pc'[r] \in {"enqueue", "unwind"}
      BY <1>13 DEF BrokerAnswerLost, LostOK
    <3> QED
      BY <3>1, <3>2, PublishKeeps
  <2>6. AckedIsStored'
    BY <1>13 DEF BrokerAnswerLost, AckedIsStored, MsgTaken
  <2>7. RowsWritten'
    BY <1>13 DEF BrokerAnswerLost, RowsWritten, Written
  <2> QED
    BY <2>1, <2>2, <2>3, <2>4, <2>6, <2>7
<1>16. ASSUME NEW r \in Requests, BrokerRefuses(r) PROVE IInv'
  <2>1. TransactionsOK'
    BY <1>16 DEF BrokerRefuses, TransactionsOK
  <2>2. KeysUnique'
    BY <1>16 DEF BrokerRefuses, KeysUnique, OneConversationPerUser,
       ConvTaken, ConvPending, MsgTaken, MsgPending
  <2>3. HandlersOK'
    <3> SUFFICES ASSUME NEW q \in Requests PROVE HandlerOK(q)'
      BY DEF HandlersOK
    <3>1. CASE q = r
      BY <1>16, <3>1, HandlerOK(r) DEF HandlersOK, HandlerOK, BrokerRefuses
    <3>2. CASE q # r
      BY <1>16, <3>2, HandlerOK(q) DEF HandlersOK, HandlerOK, ConvTaken,
         BrokerRefuses
    <3> QED
      BY <3>1, <3>2
  <2>4. TablesOK' /\ TriesOK'
    <3>1. /\ UNCHANGED <<lost, broker, messages, conversations>>
          /\ \A q \in Requests :
               /\ pc[q] \in Over \cup {"unwind", "enqueue"} =>
                    pc'[q] \in Over \cup {"unwind"} \/ pc'[q] = pc[q]
               /\ lost[q] > 0 => msg'[q] = msg[q]
      BY <1>16 DEF BrokerRefuses
    <3> QED
      BY <3>1, TablesStay DEF TablesOK
  <2>6. AckedIsStored'
    BY <1>16 DEF BrokerRefuses, AckedIsStored, MsgTaken
  <2>7. RowsWritten'
    BY <1>16 DEF BrokerRefuses, RowsWritten, Written
  <2> QED
    BY <2>1, <2>2, <2>3, <2>4, <2>6, <2>7
<1>14. CASE Crash
  <2>1. TransactionsOK'
    BY <1>14 DEF Crash, TransactionsOK
  <2>2. KeysUnique'
    BY <1>14 DEF Crash, KeysUnique, OneConversationPerUser, ConvTaken,
       ConvPending, MsgTaken, MsgPending
  <2>3. HandlersOK'
    BY <1>14 DEF Crash, HandlersOK, HandlerOK, ConvTaken, TransactionsOK
  <2>4. TablesOK' /\ TriesOK'
    <3>1. /\ UNCHANGED <<lost, broker, messages, conversations>>
          /\ \A q \in Requests :
               /\ pc[q] \in Over \cup {"unwind", "enqueue"} =>
                    pc'[q] \in Over \cup {"unwind"} \/ pc'[q] = pc[q]
               /\ lost[q] > 0 => msg'[q] = msg[q]
      BY <1>14 DEF Crash
    <3> QED
      BY <3>1, TablesStay DEF TablesOK
  <2>6. AckedIsStored'
    BY <1>14 DEF Crash, AckedIsStored, MsgTaken
  <2>7. RowsWritten'
    BY <1>14 DEF Crash, RowsWritten, Written
  <2> QED
    BY <2>1, <2>2, <2>3, <2>4, <2>6, <2>7
<1>15. CASE UNCHANGED vars
  <2>1. TransactionsOK' /\ RowsWritten' /\ TablesOK'
    BY <1>15 DEF vars, TransactionsOK, RowsWritten, Written, TablesOK, Published
  <2>2. KeysUnique'
    BY <1>15 DEF vars, KeysUnique, OneConversationPerUser, ConvTaken,
       ConvPending, MsgTaken, MsgPending
  <2>3. HandlersOK' /\ TriesOK' /\ AckedIsStored'
    BY <1>15 DEF vars, HandlersOK, HandlerOK, ConvTaken, TriesOK, Inbox!Tried,
       AckedIsStored, MsgTaken
  <2> QED
    BY <2>1, <2>2, <2>3
<1> QED
  BY <1>1, <1>2, <1>3, <1>4, <1>5, <1>6, <1>7, <1>8, <1>9, <1>10, <1>11,
     <1>12, <1>13, <1>14, <1>15, <1>16
  DEF Next, Deliver, Handle, Fail, Quiescent

LEMMA IInvInitially == Init => IInv
  BY DEF Init, Inbox!Init, IInv, TransactionsOK, KeysUnique, HandlersOK,
     HandlerOK, TablesOK, TriesOK, AckedIsStored, OneConversationPerUser,
     RowsWritten

(* The tables, the transactions in flight, the handlers and the broker     *)
(* agree in every reachable state.                                         *)
THEOREM Invariance == Spec => []IInv
<1>1. TypeOK /\ TypeOK' /\ IInv /\ [Next]_vars => IInv'
  BY IInvInductive
<1> QED
  BY <1>1, IInvInitially, TypeCorrect, PTL DEF Spec

(* A user never has two conversations, however many of the user's first    *)
(* messages are handled at once and whatever fails.                        *)
THEOREM ConversationUnique == Spec => []OneConversationPerUser
<1>1. IInv => OneConversationPerUser
  BY DEF IInv, KeysUnique
<1> QED
  BY <1>1, Invariance, PTL

(* No two tasks are of one message, whatever Meta delivers again and       *)
(* whatever fails, but those Celery's client publishes for one request     *)
(* that missed the answers of the broker.                                  *)
THEOREM NoSecondTask == Spec => []HandedOverOnce
<1>1. TypeOK /\ IInv => HandedOverOnce
  <2> SUFFICES ASSUME TypeOK, IInv,
                      NEW i \in 1 .. Len(broker), NEW j \in 1 .. Len(broker),
                      broker[i].msg = broker[j].msg, i # j
               PROVE  \E r \in Requests : msg[r] = broker[i].msg /\ lost[r] > 0
    BY DEF HandedOverOnce
  <2>1. PICK a \in messages :
          a.msg = broker[i].msg /\ Published(a.id, broker[i].try)
    BY DEF IInv, TablesOK
  <2>2. PICK b \in messages :
          b.msg = broker[j].msg /\ Published(b.id, broker[j].try)
    BY DEF IInv, TablesOK
  <2>3. a = b
    BY <2>1, <2>2 DEF IInv, KeysUnique
  <2>4. broker[i] \in Inbox!Task /\ broker[j] \in Inbox!Task
    BY DEF TypeOK
  <2>5. /\ broker[i].try \in 1 .. MaxTries /\ broker[j].try \in 1 .. MaxTries
        /\ broker[i].try # broker[j].try
    BY <2>4 DEF Inbox!Task, IInv, TriesOK
  <2>6. a.id \in Requests /\ lost[a.id] \in 0 .. MaxTries
    BY DEF TypeOK, LostOK, Inbox!MessageRow
  <2>7. lost[a.id] > 0
    BY <2>1, <2>2, <2>3, <2>5, <2>6, TriesAssumption DEF Published
  <2>8. msg[a.id] = broker[i].msg
    BY <2>1 DEF IInv, RowsWritten
  <2> QED
    BY <2>6, <2>7, <2>8
<1> QED
  BY <1>1, TypeCorrect, Invariance, PTL

(* As long as the broker's answers arrive, a message has one task.         *)
OneTaskEach ==
  \A i, j \in 1 .. Len(broker) : broker[i].msg = broker[j].msg => i = j

THEOREM NoSecondTaskAtAll ==
  ASSUME "broker_ack" \notin Faults
  PROVE  Spec => []OneTaskEach
<1> DEFINE NoneLost == \A r \in Requests : lost[r] = 0
<1>1. Init => NoneLost
  BY DEF Init
<1>2. NoneLost /\ [Next]_vars => NoneLost'
  <2> SUFFICES ASSUME NoneLost, [Next]_vars PROVE UNCHANGED lost
    OBVIOUS
  <2> QED
    BY DEF Next, Deliver, Handle, Fail, Crash, Quiescent, vars, queueVars,
       Dismiss, Receive, MessageExists, FindActiveConversation,
       InsertConversation, RetrySelect, StoreInboundMessage, Commit, Enqueue,
       Unwind, DatabaseFails, CommitAnswerLost, BrokerRefuses, BrokerAnswerLost
<1>3. NoneLost /\ HandedOverOnce => OneTaskEach
  BY DEF HandedOverOnce, OneTaskEach
<1> QED
  BY <1>1, <1>2, <1>3, NoSecondTask, PTL DEF Spec

(* A worker finds the rows its task speaks of, and they are the sender's.  *)
THEOREM TaskFindsRows == Spec => []TaskRowsCommitted
<1>1. IInv => TaskRowsCommitted
  <2> SUFFICES ASSUME IInv, NEW i \in 1 .. Len(broker)
               PROVE  /\ \E row \in messages : /\ row.msg = broker[i].msg
                                                /\ row.conv = broker[i].conv
                      /\ [id |-> broker[i].conv, user |-> Sender[broker[i].msg]]
                           \in conversations
    BY DEF TaskRowsCommitted
  <2> QED
    BY DEF IInv, TablesOK
<1> QED
  BY <1>1, Invariance, PTL

(* A delivery that is answered 200 has its message stored: Meta may forget *)
(* it.                                                                     *)
THEOREM AckStored == Spec => []AckedIsStored
<1>1. IInv => AckedIsStored
  BY DEF IInv
<1> QED
  BY <1>1, Invariance, PTL

(* get_or_create_conversation never raises its RuntimeError.               *)
THEOREM RetryFinds == Spec => []RetryFindsConversation
<1>1. IInv => RetryFindsConversation
  BY DEF IInv, HandlersOK, HandlerOK, RetryFindsConversation,
     ActiveConversations, ConvTaken
<1> QED
  BY <1>1, Invariance, PTL

(* A commit stores the message and opens the sender's conversation, if     *)
(* there was none, as one Accept step of the inbox.                        *)
LEMMA CommitAccepts ==
  ASSUME TypeOK, IInv, NEW r \in Requests, pc[r] = "commit", CommitRows(r),
         UNCHANGED broker
  PROVE  Inbox!Next
<1> DEFINE m   == msg[r]
           own == [id |-> conv[r], user |-> Sender[msg[r]]]
<1>1. m \in Messages /\ conv[r] \in Requests
  BY DEF TypeOK
<1>2. /\ newMsgs[r] = {[id |-> r, msg |-> m, conv |-> conv[r]]}
      /\ own \in conversations \cup newConvs[r]
      /\ \A row \in newConvs[r] : row = [id |-> r, user |-> Sender[m]]
  BY DEF IInv, HandlersOK, HandlerOK, TransactionsOK
<1>3. \A row \in messages : row.msg # m
  <2> DEFINE new == [id |-> r, msg |-> m, conv |-> conv[r]]
  <2>1. new \in newMsgs[r] /\ new.msg = m
    BY <1>2
  <2>2. ~MsgTaken(new.msg)
    BY <2>1 DEF IInv, KeysUnique
  <2> QED
    BY <2>1, <2>2 DEF MsgTaken
<1>4. \A row \in newConvs[r] : row = own
  <2> SUFFICES ASSUME NEW row \in newConvs[r] PROVE row = own
    OBVIOUS
  <2>1. own \notin conversations
    BY <1>2 DEF IInv, KeysUnique, ConvTaken
  <2> QED
    BY <1>2, <2>1
<1>5. conversations' = conversations \cup {own}
  BY <1>2, <1>4 DEF CommitRows
<1>6. \A row \in conversations' : row.id = conv[r] <=> row.user = Sender[m]
  <2>1. CASE newConvs[r] = {}
    <3>1. conversations' = conversations /\ own \in conversations
      BY <1>2, <1>5, <2>1
    <3> QED
      BY <3>1 DEF IInv, KeysUnique, OneConversationPerUser, RowsWritten
  <2>2. CASE newConvs[r] # {}
    <3>1. own \in newConvs[r] /\ conv[r] = r
      BY <1>2, <1>4, <2>2
    <3>2. \A row \in conversations : row.user # Sender[m]
      BY <3>1 DEF IInv, KeysUnique, ConvTaken
    <3>3. \A row \in conversations : row.id # r
      BY DEF IInv, RowsWritten, Written
    <3> QED
      BY <1>5, <3>1, <3>2, <3>3
  <2> QED
    BY <2>1, <2>2
<1>7. messages' = messages \cup {[id |-> r, msg |-> m, conv |-> conv[r]]}
  BY <1>2 DEF CommitRows
<1>8. \A row \in messages : row.id # r
  BY DEF IInv, RowsWritten, Written
<1>9. Inbox!Accept(m)
  BY <1>1, <1>3, <1>5, <1>6, <1>7, <1>8 DEF Inbox!Accept
<1> QED
  BY <1>1, <1>9 DEF Inbox!Next

(* Publishing a try of the task is the HandOver step of the inbox.         *)
LEMMA PublishHandsOver ==
  ASSUME TypeOK, IInv, NEW r \in Requests, pc[r] = "enqueue", Publish(r),
         UNCHANGED dbVars
  PROVE  Inbox!Next
<1> DEFINE own == [id |-> r, msg |-> msg[r], conv |-> conv[r]]
           n   == lost[r] + 1
<1>1. msg[r] \in Messages /\ own \in messages
  BY DEF TypeOK, IInv, HandlersOK, HandlerOK
<1>2. lost[r] \in Nat /\ n \in 1 .. MaxTries
  BY PublishAppends
<1>3. ~Inbox!Tried(msg[r], n)
  BY <1>2, NotYetPublished DEF Inbox!Tried
<1>4. n = 1 \/ Inbox!Tried(msg[r], n - 1)
  <2>1. n - 1 = lost[r] /\ (lost[r] = 0 \/ lost[r] > 0)
    BY <1>2
  <2>2. lost[r] > 0 => Inbox!Tried(msg[r], lost[r])
    BY DEF IInv, TriesOK
  <2> QED
    BY <2>1, <2>2
<1>5. broker' = Append(broker, [msg |-> msg[r], conv |-> own.conv, try |-> n])
  BY DEF Publish, TaskOf
<1>6. Inbox!HandOver(msg[r], n)
  BY <1>1, <1>3, <1>4, <1>5 DEF Inbox!HandOver, dbVars
<1> QED
  BY <1>1, <1>2, <1>6 DEF Inbox!Next

(* The handler's many steps implement the two atomic steps of DurableInbox *)
(* under every interleaving, redelivery and fault.                         *)
THEOREM Refinement == Spec => ImplementsInbox
<1>1. Init => Inbox!Init
  BY DEF Init
<1>2. TypeOK /\ IInv /\ [Next]_vars => [Inbox!Next]_(Inbox!vars)
  <2> SUFFICES ASSUME TypeOK, IInv, [Next]_vars,
                      ~UNCHANGED Inbox!vars
               PROVE  Inbox!Next
    OBVIOUS
  <2>1. PICK r \in Requests :
          Commit(r) \/ Enqueue(r) \/ CommitAnswerLost(r) \/ BrokerAnswerLost(r)
    BY DEF Next, Deliver, Handle, Fail, Crash, Quiescent, vars, Inbox!vars,
       Dismiss, Receive, MessageExists, FindActiveConversation,
       InsertConversation, RetrySelect, StoreInboundMessage, Unwind,
       DatabaseFails, BrokerRefuses, dbVars, queueVars
  <2>2. CASE Commit(r)
    BY <2>2, CommitAccepts DEF Commit, queueVars
  <2>3. CASE Enqueue(r)
    BY <2>3, PublishHandsOver DEF Enqueue
  <2>4. CASE CommitAnswerLost(r)
    BY <2>4, CommitAccepts DEF CommitAnswerLost, queueVars
  <2>5. CASE BrokerAnswerLost(r)
    BY <2>5, PublishHandsOver DEF BrokerAnswerLost, dbVars
  <2> QED
    BY <2>1, <2>2, <2>3, <2>4, <2>5
<1> QED
  BY <1>1, <1>2, TypeCorrect, Invariance, PTL
  DEF Spec, ImplementsInbox, Inbox!Spec

-----------------------------------------------------------------------------
(* A stored message is handed over, or the request that stored it is about *)
(* to, or was cut short.                                                   *)
CutShort(q) ==
  \/ pc[q] = "dead"
  \/ pc[q] \in {"unwind", "done"} /\ response[q] = "500"

NoneDropped ==
  \A row \in messages :
    \/ pc[row.id] = "enqueue" /\ msg[row.id] = row.msg
    \/ HandedOver(row.msg)
    \/ CutShort(row.id)

LEMMA DroppedStep ==
  ASSUME TypeOK, IInv, NoneDropped, [Next]_vars
  PROVE  NoneDropped'
<1>1. \A row \in messages :
        row.id \in Requests /\ row.msg \in Messages /\ Written(row)
  BY DEF TypeOK, Inbox!MessageRow, IInv, RowsWritten
<1>2. \A m \in Messages : HandedOver(m) /\ broker' = broker => HandedOver(m)'
  BY DEF HandedOver
<1>3. ASSUME NEW r \in Requests, Deliver(r) PROVE NoneDropped'
  <2>1. /\ pc[r] = "idle" /\ UNCHANGED <<messages, broker>>
        /\ \A q \in Requests \ {r} :
             pc'[q] = pc[q] /\ msg'[q] = msg[q] /\ response'[q] = response[q]
    BY <1>3 DEF Deliver, Dismiss, Receive, Goto, Answer, dbVars, queueVars, TypeOK
  <2>2. \A row \in messages : row.id \in Requests \ {r}
    BY <1>1, <2>1 DEF Written, Over
  <2> QED
    BY <2>1, <2>2 DEF NoneDropped, HandedOver, CutShort
<1>4. ASSUME NEW r \in Requests,
             \/ MessageExists(r) \/ FindActiveConversation(r)
             \/ InsertConversation(r) \/ RetrySelect(r)
             \/ StoreInboundMessage(r) \/ DatabaseFails(r)
      PROVE  NoneDropped'
  <2>1. /\ pc[r] \in {"exists", "find", "insert", "refind", "store", "commit"}
        /\ UNCHANGED <<msg, messages, broker>>
        /\ \A q \in Requests \ {r} :
             pc'[q] = pc[q] /\ response'[q] = response[q]
    BY <1>4
       DEF MessageExists, FindActiveConversation, InsertConversation,
           RetrySelect, StoreInboundMessage, DatabaseFails, Skip, LoseRace,
           UseConversation, Goto, Answer, dbVars, queueVars, requestVars, TypeOK
  <2>2. \A row \in messages : row.id \in Requests \ {r}
    BY <1>1, <2>1 DEF Written, Over
  <2> QED
    BY <2>1, <2>2 DEF NoneDropped, HandedOver, CutShort
<1>5. ASSUME NEW r \in Requests, Unwind(r) PROVE NoneDropped'
  <2>1. /\ pc[r] = "unwind" /\ pc'[r] = "done"
        /\ UNCHANGED <<msg, response, messages, broker>>
        /\ \A q \in Requests \ {r} : pc'[q] = pc[q]
    BY <1>5 DEF Unwind, Goto, dbVars, queueVars, requestVars, TypeOK
  <2> QED
    BY <1>1, <2>1 DEF NoneDropped, HandedOver, CutShort
<1>6. ASSUME NEW r \in Requests, Commit(r) \/ CommitAnswerLost(r)
      PROVE  NoneDropped'
  <2>1. /\ pc[r] = "commit" /\ UNCHANGED <<msg, broker>>
        /\ messages' = messages
             \cup {[id |-> r, msg |-> msg[r], conv |-> conv[r]]}
        /\ \A q \in Requests \ {r} :
             pc'[q] = pc[q] /\ response'[q] = response[q]
        /\ \/ pc'[r] = "enqueue"
           \/ pc'[r] = "unwind" /\ response'[r] = "500"
    <3>1. /\ pc[r] = "commit" /\ CommitRows(r) /\ UNCHANGED <<msg, broker>>
          /\ \/ Goto(r, "enqueue") /\ response' = response
             \/ Answer(r, "500", "unwind")
      BY <1>6 DEF Commit, CommitAnswerLost, requestVars, queueVars
    <3>2. newMsgs[r] = {[id |-> r, msg |-> msg[r], conv |-> conv[r]]}
      BY <3>1 DEF IInv, HandlersOK, HandlerOK
    <3> QED
      BY <3>1, <3>2 DEF CommitRows, Goto, Answer, TypeOK
  <2>2. \A row \in messages : row.id \in Requests \ {r}
    BY <1>1, <2>1 DEF Written, Over
  <2> QED
    BY <2>1, <2>2 DEF NoneDropped, HandedOver, CutShort
<1>7. ASSUME NEW r \in Requests, Enqueue(r) \/ BrokerAnswerLost(r)
      PROVE  NoneDropped'
  <2>1. /\ pc[r] = "enqueue" /\ Publish(r)
        /\ UNCHANGED <<msg, messages>>
        /\ \A q \in Requests \ {r} :
             pc'[q] = pc[q] /\ response'[q] = response[q]
    BY <1>7
       DEF Enqueue, BrokerAnswerLost, Answer, Goto, dbVars, TypeOK
  <2>2. /\ Len(broker) \in Nat /\ Len(broker') = Len(broker) + 1
        /\ \A i \in 1 .. Len(broker) : broker'[i] = broker[i]
        /\ broker'[Len(broker) + 1].msg = msg[r]
    BY <2>1, PublishAppends
  <2>3. \A m \in Messages : HandedOver(m) => HandedOver(m)'
    BY <2>2 DEF HandedOver
  <2>4. HandedOver(msg[r])'
    BY <2>1, <2>2 DEF HandedOver
  <2> QED
    BY <1>1, <2>1, <2>3, <2>4 DEF NoneDropped, HandedOver, CutShort
<1>8. ASSUME NEW r \in Requests, BrokerRefuses(r) PROVE NoneDropped'
  <2>1. /\ UNCHANGED <<msg, messages, broker>>
        /\ \A q \in Requests \ {r} :
             pc'[q] = pc[q] /\ response'[q] = response[q]
        /\ pc'[r] = "unwind" /\ response'[r] = "500"
    BY <1>8 DEF BrokerRefuses, Answer, Goto, dbVars, queueVars, TypeOK
  <2> QED
    BY <1>1, <1>2, <2>1 DEF NoneDropped, CutShort
<1>9. CASE Crash
  <2>1. /\ UNCHANGED <<msg, response, messages, broker>>
        /\ \A q \in Requests : pc'[q] = IF pc[q] \in Active THEN "dead" ELSE pc[q]
    BY <1>9 DEF Crash, requestVars, dbVars, queueVars
  <2>2. ASSUME NEW row \in messages
        PROVE  HandedOver(row.msg)' \/ CutShort(row.id)'
    BY <1>1, <1>2, <2>1, <2>2
       DEF NoneDropped, CutShort, Active, Over, Labels
  <2> QED
    BY <2>1, <2>2 DEF NoneDropped
<1>10. CASE UNCHANGED vars
  BY <1>10 DEF vars, NoneDropped, HandedOver, CutShort
<1> QED
  BY <1>3, <1>4, <1>5, <1>6, <1>7, <1>8, <1>9, <1>10
     DEF Next, Handle, Fail, Quiescent

(* Whatever fails: an acknowledged message lacks its task only if the      *)
(* request that stored it died or was answered 500.                        *)
LossReported ==
  \A r \in Requests : response[r] = "200" /\ msg[r] # None =>
    \/ \E q \in Requests : msg[q] = msg[r] /\ pc[q] \in Active
    \/ HandedOver(msg[r])
    \/ Abandoned(msg[r])

THEOREM NoSilentLoss == Spec => []LossReported
<1>1. Init => NoneDropped
  BY DEF Init, Inbox!Init, NoneDropped
<1>2. TypeOK /\ IInv /\ NoneDropped => LossReported
  <2> SUFFICES ASSUME TypeOK, IInv, NoneDropped,
                      NEW r \in Requests, response[r] = "200", msg[r] # None
               PROVE  \/ \E q \in Requests : msg[q] = msg[r] /\ pc[q] \in Active
                      \/ HandedOver(msg[r])
                      \/ Abandoned(msg[r])
    BY DEF LossReported
  <2>1. PICK row \in messages : row.msg = msg[r]
    BY DEF IInv, AckedIsStored, MsgTaken
  <2>2. row.id \in Requests
    BY DEF TypeOK, Inbox!MessageRow
  <2> QED
    BY <2>1, <2>2 DEF NoneDropped, CutShort, Abandoned, Active, Over, Labels
<1> QED
  BY <1>1, <1>2, DroppedStep, TypeCorrect, Invariance, PTL DEF Spec

(* No request died, and none that stored its message was answered 500.     *)
NoneAbandoned ==
  /\ \A r \in Requests :
       pc[r] # "dead" /\ (pc[r] \in {"unwind", "done"} \/ response[r] = "none")
  /\ \A row \in messages : response[row.id] # "500"

(* As long as nothing but a statement of the database fails, no            *)
(* acknowledged message lacks its task.  (The run webhook_lost_task shows  *)
(* that the assumption is needed.)                                         *)
THEOREM NoTaskLost ==
  ASSUME Faults \subseteq {"database"}
  PROVE  Spec => []AckedMeansHandedOver
<1>1. Init => NoneAbandoned
  BY DEF Init, Inbox!Init, NoneAbandoned
<1>2. TypeOK /\ IInv /\ NoneAbandoned /\ [Next]_vars => NoneAbandoned'
  <2> SUFFICES ASSUME TypeOK, IInv, NoneAbandoned, [Next]_vars
               PROVE  NoneAbandoned'
    OBVIOUS
  <2>1. \A row \in messages : row.id \in Requests /\ Written(row)
    BY DEF TypeOK, Inbox!MessageRow, IInv, RowsWritten
  <2>2. ASSUME NEW r \in Requests, Deliver(r) \/ Handle(r) \/ DatabaseFails(r)
        PROVE  NoneAbandoned'
    <3>1. \A q \in Requests \ {r} :
            pc'[q] = pc[q] /\ response'[q] = response[q]
      BY <2>2 DEF Deliver, Dismiss, Receive, Handle, MessageExists,
         FindActiveConversation, UseConversation, InsertConversation, LoseRace,
         RetrySelect, StoreInboundMessage, Commit, Enqueue, Unwind, Skip,
         DatabaseFails, Goto, Answer, requestVars, TypeOK
    <3>2. /\ pc'[r] # "dead"
          /\ pc'[r] \in {"unwind", "done"} \/ response'[r] = "none"
      BY <2>2 DEF Deliver, Dismiss, Receive, Handle, MessageExists,
         FindActiveConversation, UseConversation, InsertConversation, LoseRace,
         RetrySelect, StoreInboundMessage, Commit, Enqueue, Unwind, Skip,
         DatabaseFails, Goto, Answer, requestVars, TypeOK, NoneAbandoned
    <3>3. CASE pc[r] \in {"enqueue", "unwind"}
      <4>1. messages' = messages
            /\ (response'[r] = response[r] \/ response'[r] = "200")
        BY <2>2, <3>3 DEF Deliver, Dismiss, Receive, Handle, MessageExists,
           FindActiveConversation, InsertConversation, RetrySelect,
           StoreInboundMessage, Commit, Enqueue, Unwind, DatabaseFails, Goto,
           Answer, requestVars, dbVars, TypeOK
      <4> QED
        BY <2>1, <3>1, <3>2, <4>1 DEF NoneAbandoned
    <3>4. CASE pc[r] \notin {"enqueue", "unwind"}
      <4>1. /\ pc[r] \notin Over
            /\ \/ messages' = messages
               \/ /\ messages' = messages
                       \cup {[id |-> r, msg |-> msg[r], conv |-> conv[r]]}
                  /\ response'[r] = "none"
        BY <2>2, <3>4 DEF Deliver, Dismiss, Receive, Handle, MessageExists,
           FindActiveConversation, InsertConversation, RetrySelect,
           StoreInboundMessage, Commit, CommitRows, Enqueue, Unwind,
           DatabaseFails, requestVars, dbVars, TypeOK, Over, NoneAbandoned,
           IInv, HandlersOK, HandlerOK
      <4>2. \A row \in messages : row.id \in Requests \ {r}
        BY <2>1, <3>4, <4>1 DEF Written
      <4> QED
        BY <3>1, <3>2, <4>1, <4>2 DEF NoneAbandoned
    <3> QED
      BY <3>3, <3>4
  <2>3. CASE UNCHANGED vars
    BY <2>3 DEF vars, NoneAbandoned
  <2> QED
    BY <2>2, <2>3
       DEF Next, Fail, CommitAnswerLost, BrokerRefuses, BrokerAnswerLost,
           Crash, Quiescent
<1>3. TypeOK /\ NoneAbandoned /\ LossReported => AckedMeansHandedOver
  BY DEF TypeOK, Inbox!MessageRow, NoneAbandoned, LossReported, Abandoned,
     AckedMeansHandedOver
<1> QED
  BY <1>1, <1>2, <1>3, TypeCorrect, Invariance, NoSilentLoss, PTL DEF Spec

(* No circle of waiting transactions: who waits for a conversation's row   *)
(* holds none, who waits for a message's holds no message's.               *)
THEOREM WaitsEnd == Spec => []NoCircularWait
<1>1. IInv => NoCircularWait
  <2> SUFFICES ASSUME IInv, NEW r \in Requests, NEW q \in Requests,
                      NEW s \in Requests, NEW t \in Requests,
                      WaitsFor(r, q), WaitsFor(q, s), WaitsFor(s, t)
               PROVE  FALSE
    BY DEF NoCircularWait
  <2>1. pc[q] # "insert"
    BY DEF WaitsFor, IInv, TransactionsOK
  <2>2. \E row \in newMsgs[s] : row.msg = msg[q]
    BY <2>1 DEF WaitsFor
  <2>3. pc[s] \in {"commit", "unwind"}
    BY <2>2 DEF IInv, TransactionsOK
  <2> QED
    BY <2>3 DEF WaitsFor
<1> QED
  BY <1>1, Invariance, PTL

=============================================================================
