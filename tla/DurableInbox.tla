---------------------------- MODULE DurableInbox ----------------------------
(***************************************************************************)
(* What the webhook side of the bridge promises to the workers, as one     *)
(* atomic step per decision.  A message is accepted at most once; the      *)
(* first message of a user opens the user's conversation in the same step; *)
(* an accepted message is handed over to the broker, as a task that names  *)
(* the conversation its row belongs to.  The broker may hold a task more   *)
(* than once, since Celery's client tries again when it misses the         *)
(* broker's answer; the copies are told apart by their try.                *)
(*                                                                         *)
(* WebhookIngest, where concurrent requests reach the same tables through  *)
(* several statements each, implements this specification.  MessageWorker  *)
(* takes it as its environment.                                            *)
(***************************************************************************)
EXTENDS Naturals, Sequences

CONSTANTS
  Ids,        \* primary keys (uuid4) of conversation and message rows
  Messages,   \* platform_message_ids that Meta may deliver
  Users,      \* phone numbers
  Sender,     \* Sender[m] is the phone number message m comes from
  MaxTries    \* how often Celery's client publishes a task at most

VARIABLES
  conversations,  \* committed rows of table conversations (all active)
  messages,       \* committed inbound rows of table messages
  broker          \* every task ever published to Redis, oldest first

vars == <<conversations, messages, broker>>

ConversationRow == [id : Ids, user : Users]
MessageRow      == [id : Ids, msg : Messages, conv : Ids]
Task            == [msg : Messages, conv : Ids, try : 1 .. MaxTries]

Init ==
  /\ conversations = {}
  /\ messages = {}
  /\ broker = <<>>

(* Message m is stored, under the one conversation its sender has or now   *)
(* gets; primary keys are fresh.                                           *)
Accept(m) ==
  /\ \A row \in messages : row.msg # m
  /\ \E i, c \in Ids :
       /\ \A row \in messages : row.id # i
       /\ conversations' = conversations \cup {[id |-> c, user |-> Sender[m]]}
       /\ \A row \in conversations' : row.id = c <=> row.user = Sender[m]
       /\ messages' = messages \cup {[id |-> i, msg |-> m, conv |-> c]}
  /\ UNCHANGED broker

Tried(m, n) ==
  \E i \in 1 .. Len(broker) : broker[i].msg = m /\ broker[i].try = n

(* Try n to publish the task of message m: the row exists, and the tries   *)
(* follow one another.                                                     *)
HandOver(m, n) ==
  /\ ~Tried(m, n)
  /\ n = 1 \/ Tried(m, n - 1)
  /\ \E row \in messages :
       /\ row.msg = m
       /\ broker' = Append(broker, [msg |-> m, conv |-> row.conv, try |-> n])
  /\ UNCHANGED <<conversations, messages>>

Next ==
  \E m \in Messages : Accept(m) \/ \E n \in 1 .. MaxTries : HandOver(m, n)

Spec == Init /\ [][Next]_vars

(* What is accepted is handed over.  Only a server whose database and      *)
(* broker do not fail, and that does not crash, implements this one.       *)
FairSpec == Spec /\ \A m \in Messages : WF_vars(HandOver(m, 1))

-----------------------------------------------------------------------------
TypeOK ==
  /\ conversations \subseteq ConversationRow
  /\ messages \subseteq MessageRow
  /\ broker \in Seq(Task)

(* The tables and the broker agree: keys are unique, a message belongs to  *)
(* its sender's conversation, a task is of a stored row, and no try is     *)
(* published twice.                                                        *)
Consistent ==
  /\ \A a, b \in conversations : a.id = b.id \/ a.user = b.user => a = b
  /\ \A a, b \in messages : a.msg = b.msg => a = b
  /\ \A row \in messages :
       [id |-> row.conv, user |-> Sender[row.msg]] \in conversations
  /\ \A i \in 1 .. Len(broker) : \E row \in messages :
       row.msg = broker[i].msg /\ row.conv = broker[i].conv
  /\ \A i, j \in 1 .. Len(broker) :
       broker[i].msg = broker[j].msg /\ broker[i].try = broker[j].try => i = j

=============================================================================
