---------------------------- MODULE WebhookIngest ---------------------------
(***************************************************************************)
(* POST /api/webhooks/whatsapp: concurrent deliveries of Meta's messages   *)
(* to the FastAPI server, down to the rows they commit in PostgreSQL and   *)
(* the tasks they publish to Redis.                                        *)
(*                                                                         *)
(* A request is one run of whatsapp_webhook.  An action is what the        *)
(* coroutine does from one await on shared state to the next.  Each        *)
(* request owns one session, hence one transaction: the rows it has        *)
(* flushed and not committed are newConvs[r] and newMsgs[r].  PostgreSQL   *)
(* runs at READ COMMITTED: a SELECT sees the committed rows and the        *)
(* transaction's own; an INSERT that meets an uncommitted row of another   *)
(* transaction with the same unique key waits for that transaction's end,  *)
(* one that meets a committed row raises IntegrityError.                   *)
(***************************************************************************)
EXTENDS Naturals, Sequences

CONSTANTS
  Requests,        \* HTTP deliveries; also the uuid4 of the rows each creates
  Messages, Users, Sender,
  AllowedNumbers,  \* settings.allowed_phone_numbers, {} allows every number
  MaxTries,        \* how often Celery's client publishes a task at most
  None,
  Faults           \* which of FaultKinds the environment may commit

FaultKinds ==
  { "database",    \* a statement fails: connection lost, server restarted
    "commit_ack",  \* the commit takes effect but its answer is lost
    "broker",      \* Redis refuses the task
    "broker_ack",  \* Redis takes the task but its answer is lost, and
                   \* Celery's client publishes it again
    "crash" }      \* the API process dies

ASSUME SenderAssumption == Sender \in [Messages -> Users]
ASSUME AllowedAssumption == AllowedNumbers \subseteq Users
ASSUME NoneAssumption == None \notin Messages /\ None \notin Requests
ASSUME FaultsAssumption == Faults \subseteq FaultKinds
ASSUME TriesAssumption == MaxTries \in Nat \ {0}

VARIABLES
  pc,             \* where each request stands in the handler
  msg,            \* inbound.platform_message_id, None before parsing
  conv,           \* id of the handler's local variable conversation
  response,       \* HTTP status sent, "none" before
  newConvs,       \* rows of conversations flushed but not committed
  newMsgs,        \* rows of messages flushed but not committed
  lost,           \* the copies of its task whose publication was not answered
  conversations, messages, broker     \* as in DurableInbox

requestVars == <<msg, conv, response>>
txnVars     == <<newConvs, newMsgs>>
dbVars      == <<conversations, messages>>
queueVars   == <<lost, broker>>
vars == <<pc, msg, conv, response, newConvs, newMsgs, lost,
          conversations, messages, broker>>

Inbox == INSTANCE DurableInbox WITH Ids <- Requests

Labels == {"idle", "exists", "find", "insert", "refind", "store", "commit",
           "enqueue", "unwind", "done", "dead"}
Over   == {"done", "dead"}
Active == Labels \ (Over \cup {"idle"})
Status == {"none", "200", "403", "429", "500"}

Init ==
  /\ pc = [r \in Requests |-> "idle"]
  /\ msg = [r \in Requests |-> None]
  /\ conv = [r \in Requests |-> None]
  /\ response = [r \in Requests |-> "none"]
  /\ newConvs = [r \in Requests |-> {}]
  /\ newMsgs = [r \in Requests |-> {}]
  /\ lost = [r \in Requests |-> 0]
  /\ Inbox!Init

-----------------------------------------------------------------------------
(* Steps of one request. *)

Goto(r, label) == pc' = [pc EXCEPT ![r] = label]

Answer(r, code, label) ==
  /\ response' = [response EXCEPT ![r] = code]
  /\ Goto(r, label)

(* Mutant: the session of a failed request is never closed. *)
Rollback_Leaks(r) == UNCHANGED txnVars

Rollback(r) ==
  /\ newConvs' = [newConvs EXCEPT ![r] = {}]
  /\ newMsgs' = [newMsgs EXCEPT ![r] = {}]

(* Mutant: a list that is not empty lets everybody in. *)
Whitelisted_AnyList(m) == AllowedNumbers # {} \/ Sender[m] \in AllowedNumbers

Whitelisted(m) == AllowedNumbers = {} \/ Sender[m] \in AllowedNumbers

(* Steps 1-4 of the handler, which touch neither database nor broker, for  *)
(* a request that carries no message to process: a bad signature (403), an *)
(* event that is no message (200), a body parse_inbound raises on (500).   *)
Dismiss(r) ==
  /\ pc[r] = "idle"
  /\ \E code \in {"200", "403", "500"} : Answer(r, code, "done")
  /\ UNCHANGED <<msg, conv, txnVars, dbVars, queueVars>>

(* The same steps for a message: turned away by the whitelist or by the    *)
(* rate limiter, whose verdict is an input here, or let in.                *)
Receive(r, m) ==
  /\ pc[r] = "idle"
  /\ msg' = [msg EXCEPT ![r] = m]
  /\ IF Whitelisted(m)
       THEN \/ Answer(r, "429", "done")
            \/ Goto(r, "exists") /\ UNCHANGED response
       ELSE Answer(r, "403", "done")
  /\ UNCHANGED <<conv, txnVars, dbVars, queueVars>>

(* message_exists: a committed row with this platform_message_id; the same *)
(* row, or one another transaction holds, stands in the way of an INSERT.  *)
MsgTaken(m) == \E row \in messages : row.msg = m
MsgPending(r, m) ==
  \E q \in Requests \ {r} : \E row \in newMsgs[q] : row.msg = m

(* Mutant: a delivery whose twin is in flight counts as a duplicate. *)
Exists_InFlight(r) == MsgTaken(msg[r]) \/ MsgPending(r, msg[r])

Exists(r) == MsgTaken(msg[r])

(* Mutant: a duplicate is recognised but still enqueued. *)
Skip_GoesOn(r) == Goto(r, "enqueue") /\ UNCHANGED response

(* A duplicate is acknowledged, nothing more. *)
Skip(r) == Answer(r, "200", "done")

(* Mutant: the row is added, and flushed, before the conversation is found. *)
MessageExists_AddsRow(r) ==
  /\ pc[r] = "exists"
  /\ IF Exists(r)
       THEN Skip(r) /\ UNCHANGED newMsgs
       ELSE /\ newMsgs' = [newMsgs EXCEPT ![r] =
                 {[id |-> r, msg |-> msg[r], conv |-> r]}]
            /\ Goto(r, "find")
            /\ UNCHANGED response
  /\ UNCHANGED <<msg, conv, newConvs, dbVars, queueVars>>

MessageExists(r) ==
  /\ pc[r] = "exists"
  /\ IF Exists(r) THEN Skip(r) ELSE Goto(r, "find") /\ UNCHANGED response
  /\ UNCHANGED <<msg, conv, txnVars, dbVars, queueVars>>

(* Mutant: the WHERE clause on platform_user_id is lost. *)
ActiveConversations_AnyUser(r) == conversations \cup newConvs[r]

(* Mutant: the transaction sees nothing that others committed. *)
ActiveConversations_Stale(r) == newConvs[r]

(* _find_active_conversation, as this transaction sees the table. *)
ActiveConversations(r) ==
  {row \in conversations \cup newConvs[r] : row.user = Sender[msg[r]]}

(* Mutant: the handler keeps the user's number, not the row's key. *)
UseConversation_ByUser(r) ==
  \E row \in ActiveConversations(r) :
    /\ conv' = [conv EXCEPT ![r] = row.user]
    /\ Goto(r, "store")

UseConversation(r) ==
  \E row \in ActiveConversations(r) :
    /\ conv' = [conv EXCEPT ![r] = row.id]
    /\ Goto(r, "store")

FindActiveConversation(r) ==
  /\ pc[r] = "find"
  /\ IF ActiveConversations(r) = {}
       THEN Goto(r, "insert") /\ UNCHANGED conv
       ELSE UseConversation(r)
  /\ UNCHANGED <<msg, response, txnVars, dbVars, queueVars>>

(* Mutant: the table has no unique constraint. *)
ConvTaken_NoConstraint(u) == FALSE

(* uq_active_conversation; every row the code writes is active. *)
ConvTaken(u) == \E row \in conversations : row.user = u
ConvPending(r, u) ==
  \E q \in Requests \ {r} : \E row \in newConvs[q] : row.user = u

(* Mutant: the loser of the race answers instead of selecting again. *)
LoseRace_GivesUp(r) == Rollback(r) /\ Answer(r, "200", "done")

(* IntegrityError, rollback, and the SELECT comes again. *)
LoseRace(r) == Rollback(r) /\ Goto(r, "refind") /\ UNCHANGED response

InsertConversation(r) ==
  LET u == Sender[msg[r]] IN
  /\ pc[r] = "insert"
  /\ ~ConvPending(r, u)
  /\ IF ConvTaken(u)
       THEN LoseRace(r) /\ UNCHANGED conv
       ELSE /\ newConvs' = [newConvs EXCEPT ![r] = {[id |-> r, user |-> u]}]
            /\ conv' = [conv EXCEPT ![r] = r]
            /\ Goto(r, "store")
            /\ UNCHANGED <<newMsgs, response>>
  /\ UNCHANGED <<msg, dbVars, queueVars>>

(* The SELECT after the IntegrityError; no row raises RuntimeError. *)
RetrySelect(r) ==
  /\ pc[r] = "refind"
  /\ IF ActiveConversations(r) = {}
       THEN Answer(r, "500", "unwind") /\ UNCHANGED conv
       ELSE UseConversation(r) /\ UNCHANGED response
  /\ UNCHANGED <<msg, txnVars, dbVars, queueVars>>

(* store_inbound_message: a duplicate platform_message_id and a missing    *)
(* conversation raise the same IntegrityError, which rolls the session     *)
(* back and is answered as a duplicate.                                    *)
ConversationVisible(r) ==
  \E row \in conversations \cup newConvs[r] : row.id = conv[r]

StoreInboundMessage(r) ==
  /\ pc[r] = "store"
  /\ ~MsgPending(r, msg[r])
  /\ IF MsgTaken(msg[r]) \/ ~ConversationVisible(r)
       THEN Rollback(r) /\ Skip(r)
       ELSE /\ newMsgs' = [newMsgs EXCEPT ![r] =
                 {[id |-> r, msg |-> msg[r], conv |-> conv[r]]}]
            /\ Goto(r, "commit")
            /\ UNCHANGED <<newConvs, response>>
  /\ UNCHANGED <<msg, conv, dbVars, queueVars>>

(* Mutant: db.commit() is forgotten, the session is only closed. *)
CommitRows_Forgotten(r) == UNCHANGED dbVars /\ Rollback(r)

CommitRows(r) ==
  /\ conversations' = conversations \cup newConvs[r]
  /\ messages' = messages \cup newMsgs[r]
  /\ Rollback(r)

Commit(r) ==
  /\ pc[r] = "commit"
  /\ CommitRows(r)
  /\ Goto(r, "enqueue")
  /\ UNCHANGED <<requestVars, queueVars>>

(* process_whatsapp_message.delay: one try of Celery's client to publish   *)
(* the task.                                                               *)
TaskOf(r) == [msg |-> msg[r], conv |-> conv[r], try |-> lost[r] + 1]

(* Mutant: only the request that opened the conversation enqueues. *)
Publish_OnlyNew(r) ==
  broker' = IF conv[r] # r THEN broker ELSE Append(broker, TaskOf(r))

Publish(r) == broker' = Append(broker, TaskOf(r))

(* The try that Redis answers is the last; the request is acknowledged. *)
Enqueue(r) ==
  /\ pc[r] = "enqueue"
  /\ Publish(r)
  /\ Answer(r, "200", "done")
  /\ UNCHANGED <<msg, conv, lost, txnVars, dbVars>>

-----------------------------------------------------------------------------
(* Failures.  An exception is answered with 500 at once.  It does not      *)
(* travel into DatabaseSessionManager.get_async_session, which the         *)
(* dependency iterates over: the transaction ends when that generator is   *)
(* finalised and its session closed, a step of its own (Unwind).           *)

DatabaseFails(r) ==
  /\ "database" \in Faults
  /\ pc[r] \in {"exists", "find", "insert", "refind", "store", "commit"}
  /\ Answer(r, "500", "unwind")
  /\ UNCHANGED <<msg, conv, txnVars, dbVars, queueVars>>

CommitAnswerLost(r) ==
  /\ "commit_ack" \in Faults
  /\ pc[r] = "commit"
  /\ CommitRows(r)
  /\ Answer(r, "500", "unwind")
  /\ UNCHANGED <<msg, conv, queueVars>>

(* Redis refuses every try that is left, and .delay raises. *)
BrokerRefuses(r) ==
  /\ "broker" \in Faults
  /\ pc[r] = "enqueue"
  /\ Answer(r, "500", "unwind")
  /\ UNCHANGED <<msg, conv, txnVars, dbVars, queueVars>>

(* Redis takes the task and its answer is lost: the client, whose          *)
(* task_publish_retry celery_app.py leaves at its default, tries again,    *)
(* until the last try raises.                                              *)
BrokerAnswerLost(r) ==
  /\ "broker_ack" \in Faults
  /\ pc[r] = "enqueue"
  /\ Publish(r)
  /\ lost' = [lost EXCEPT ![r] = @ + 1]
  /\ IF lost[r] + 1 = MaxTries THEN Answer(r, "500", "unwind")
                               ELSE UNCHANGED <<pc, response>>
  /\ UNCHANGED <<msg, conv, txnVars, dbVars>>

Unwind(r) ==
  /\ pc[r] = "unwind"
  /\ Rollback(r)
  /\ Goto(r, "done")
  /\ UNCHANGED <<requestVars, dbVars, queueVars>>

(* Every request in flight dies with the process; PostgreSQL drops their   *)
(* transactions.                                                           *)
Crash ==
  /\ "crash" \in Faults
  /\ \E r \in Requests : pc[r] \in Active
  /\ pc' = [r \in Requests |-> IF pc[r] \in Active THEN "dead" ELSE pc[r]]
  /\ newConvs' = [r \in Requests |-> {}]
  /\ newMsgs' = [r \in Requests |-> {}]
  /\ UNCHANGED <<requestVars, dbVars, queueVars>>

-----------------------------------------------------------------------------

Handle(r) ==
  \/ MessageExists(r)
  \/ FindActiveConversation(r)
  \/ InsertConversation(r)
  \/ RetrySelect(r)
  \/ StoreInboundMessage(r)
  \/ Commit(r)
  \/ Enqueue(r)
  \/ Unwind(r)

Deliver(r) == Dismiss(r) \/ \E m \in Messages : Receive(r, m)

Fail(r) ==
  \/ DatabaseFails(r) \/ CommitAnswerLost(r)
  \/ BrokerRefuses(r) \/ BrokerAnswerLost(r)

Quiescent ==
  /\ \A r \in Requests : pc[r] \in Over
  /\ UNCHANGED vars

Next ==
  \/ \E r \in Requests : Deliver(r) \/ Handle(r) \/ Fail(r)
  \/ Crash
  \/ Quiescent

Spec == Init /\ [][Next]_vars

-----------------------------------------------------------------------------
(* Only a request that came as far as publishing misses an answer, and it  *)
(* goes on only as long as a try is left.                                  *)
LostOK ==
  /\ lost \in [Requests -> 0 .. MaxTries]
  /\ \A r \in Requests :
       /\ lost[r] > 0 => pc[r] \in {"enqueue", "unwind"} \cup Over
       /\ pc[r] = "enqueue" => lost[r] < MaxTries

TypeOK ==
  /\ pc \in [Requests -> Labels]
  /\ msg \in [Requests -> Messages \cup {None}]
  /\ conv \in [Requests -> Requests \cup {None}]
  /\ response \in [Requests -> Status]
  /\ newConvs \in [Requests -> SUBSET Inbox!ConversationRow]
  /\ newMsgs \in [Requests -> SUBSET Inbox!MessageRow]
  /\ conversations \subseteq Inbox!ConversationRow
  /\ messages \subseteq Inbox!MessageRow
  /\ broker \in Seq(Inbox!Task)
  /\ \A r \in Requests :
       /\ pc[r] \in Active => msg[r] \in Messages
       /\ pc[r] \in {"store", "commit", "enqueue"} => conv[r] \in Requests
  /\ LostOK

-----------------------------------------------------------------------------
(* What must hold between the tables, the broker and the answers. *)

(* A user has one conversation, however many first messages arrive at      *)
(* once: get_or_create_conversation and uq_active_conversation.            *)
OneConversationPerUser ==
  \A a, b \in conversations : a.user = b.user => a = b

(* A message is handed to the workers at most once, whatever Meta repeats: *)
(* message_exists, store_inbound_message and the unique                    *)
(* platform_message_id.  Only Celery's own client makes a second task, for *)
(* a request that missed the broker's answer to the first.                 *)
HandedOverOnce ==
  \A i, j \in 1 .. Len(broker) : broker[i].msg = broker[j].msg =>
    i = j \/ \E r \in Requests : msg[r] = broker[i].msg /\ lost[r] > 0

(* A worker that takes a task finds the message and the sender's own       *)
(* conversation in the database: the commit before the enqueue.            *)
TaskRowsCommitted ==
  \A i \in 1 .. Len(broker) :
    /\ \E row \in messages :
         row.msg = broker[i].msg /\ row.conv = broker[i].conv
    /\ [id |-> broker[i].conv, user |-> Sender[broker[i].msg]] \in conversations

(* Meta never forgets a message the bridge has not stored: a delivery is   *)
(* answered 200 only when the row of its message is committed.             *)
AckedIsStored ==
  \A r \in Requests :
    response[r] = "200" /\ msg[r] # None => MsgTaken(msg[r])

(* The RuntimeError of get_or_create_conversation is unreachable: whoever  *)
(* lost the race to insert finds the winner's row.                         *)
RetryFindsConversation ==
  \A r \in Requests : pc[r] = "refind" => ActiveConversations(r) # {}

(* Requests that wait for one another's rows never do so in a circle, in   *)
(* which PostgreSQL would have to abort one: every handler writes the      *)
(* conversation before the message, so a wait ends after two steps.        *)
WaitsFor(r, q) ==
  /\ q # r
  /\ \/ /\ pc[r] = "insert"
        /\ \E row \in newConvs[q] : row.user = Sender[msg[r]]
     \/ /\ pc[r] = "store"
        /\ \E row \in newMsgs[q] : row.msg = msg[r]
NoCircularWait ==
  \A r, q, s, t \in Requests :
    ~(WaitsFor(r, q) /\ WaitsFor(q, s) /\ WaitsFor(s, t))

(* Concurrent requests, each of several statements, have the effect of     *)
(* atomic Accept and HandOver steps.                                       *)
ImplementsInbox == Inbox!Spec

(* A message is skipped as a duplicate only if it was or is being handed   *)
(* over: once a delivery is answered 200 and no request for the message is *)
(* in flight, its task has been published.                                 *)
HandedOver(m) == \E i \in 1 .. Len(broker) : broker[i].msg = m
AckedMeansHandedOver ==
  \A r \in Requests :
    response[r] = "200" /\ msg[r] # None =>
      \/ \E q \in Requests : msg[q] = msg[r] /\ pc[q] \in Active
      \/ HandedOver(msg[r])

(* The request that stored the message died, or was answered 500.          *)
Abandoned(m) ==
  \E row \in messages :
    row.msg = m /\ (pc[row.id] = "dead" \/ response[row.id] = "500")

(* Every delivery that enters the handler is answered or dies with the     *)
(* process: no request waits for ever for another's row lock.              *)
Responds ==
  \A r \in Requests : pc[r] \in Active ~> pc[r] \in Over

(* Without failures every accepted message reaches the broker.             *)
ImplementsFairInbox == Inbox!FairSpec

-----------------------------------------------------------------------------
(* The inductive invariant, by what it speaks of. *)

(* What a transaction holds, and how far its handler has come.             *)
TransactionsOK ==
  \A r \in Requests :
    /\ \A row \in newConvs[r] :
         /\ pc[r] \in {"store", "commit", "unwind"}
         /\ row = [id |-> r, user |-> Sender[msg[r]]]
    /\ \A row \in newMsgs[r] :
         /\ pc[r] \in {"commit", "unwind"}
         /\ row = [id |-> r, msg |-> msg[r], conv |-> conv[r]]

(* The unique indexes hold over committed and flushed rows alike.          *)
KeysUnique ==
  /\ OneConversationPerUser
  /\ \A a, b \in messages : a.msg = b.msg => a = b
  /\ \A r \in Requests :
       /\ \A row \in newConvs[r] :
            ~ConvTaken(row.user) /\ ~ConvPending(r, row.user)
       /\ \A row \in newMsgs[r] :
            ~MsgTaken(row.msg) /\ ~MsgPending(r, row.msg)

(* What a handler knows at each point.                                     *)
HandlerOK(r) ==
  /\ pc[r] = "idle" => msg[r] = None /\ response[r] = "none"
  /\ pc[r] = "refind" => ConvTaken(Sender[msg[r]])
  /\ pc[r] \in {"store", "commit"} =>
       [id |-> conv[r], user |-> Sender[msg[r]]]
         \in conversations \cup newConvs[r]
  /\ pc[r] = "commit" =>
       newMsgs[r] = {[id |-> r, msg |-> msg[r], conv |-> conv[r]]}
  /\ pc[r] = "enqueue" =>
       [id |-> r, msg |-> msg[r], conv |-> conv[r]] \in messages

HandlersOK == \A r \in Requests : HandlerOK(r)

(* A committed row is named by the request that wrote it, for its sender.  *)
Written(row) == pc[row.id] \in Over \cup {"unwind", "enqueue"}

RowsWritten ==
  /\ \A row \in conversations : Written(row) /\ row.user = Sender[msg[row.id]]
  /\ \A row \in messages : Written(row) /\ row.msg = msg[row.id]

(* The request q has come as far as publishing try n, and nobody answered  *)
(* the tries before.                                                       *)
Published(q, n) ==
  \/ pc[q] \in Over \cup {"unwind"} /\ n <= lost[q] + 1
  \/ pc[q] = "enqueue" /\ n <= lost[q]

(* A message belongs to its sender's conversation; a task is published by  *)
(* the request that stored its message.                                    *)
TablesOK ==
  /\ \A row \in messages :
       [id |-> row.conv, user |-> Sender[row.msg]] \in conversations
  /\ \A i \in 1 .. Len(broker) : \E row \in messages :
       /\ row.msg = broker[i].msg /\ row.conv = broker[i].conv
       /\ Published(row.id, broker[i].try)

(* No try is in the broker twice; one whose answer was lost is in it.      *)
TriesOK ==
  /\ \A i, j \in 1 .. Len(broker) :
       broker[i].msg = broker[j].msg /\ broker[i].try = broker[j].try => i = j
  /\ \A r \in Requests : lost[r] > 0 => Inbox!Tried(msg[r], lost[r])

IInv ==
  /\ TransactionsOK
  /\ KeysUnique
  /\ HandlersOK
  /\ RowsWritten
  /\ TablesOK
  /\ TriesOK
  /\ AckedIsStored

=============================================================================
