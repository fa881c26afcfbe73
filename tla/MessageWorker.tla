---------------------------- MODULE MessageWorker ---------------------------
(***************************************************************************)
(* The Celery workers: process_whatsapp_message and the MessageProcessor   *)
(* it runs, for tasks of the broker, over the database rows and the Claude *)
(* sessions that runs of different workers share.                          *)
(*                                                                         *)
(* The environment, which opens conversations and publishes tasks, is      *)
(* DurableInbox.  A worker is one prefork child with one session at a      *)
(* time; a task is acknowledged when it starts and never retried           *)
(* (max_retries=0), so a killed task is gone.  The uncommitted UPDATE of a *)
(* conversation row is job[w].update: it locks the row until the           *)
(* transaction ends.  A task is known by its message and its try, see      *)
(* DurableInbox; two tasks of one message know nothing of each other.  A   *)
(* Claude session is named after the task whose run first reported its id. *)
(***************************************************************************)
EXTENDS Naturals, Sequences

CONSTANTS
  Ids, Messages, Users, Sender, MaxTries,    \* as in DurableInbox
  Workers,                         \* the children of worker_concurrency
  MaxParts,                        \* longest answer, in WhatsApp messages
  None,
  Faults

FaultKinds ==
  { "raise",       \* a statement or the runner raises
    "rollback",    \* so does the rollback after it
    "commit_ack",  \* the commit takes effect but its answer is lost
    "send",        \* Meta rejects a post
    "send_ack",    \* Meta delivers a post but its answer is lost
    "kill" }       \* task_time_limit, or the death of the child

Tasks == Messages \X (1 .. MaxTries)
Owner(task) == Sender[task[1]]

ASSUME WorkerAssumption ==
  /\ Sender \in [Messages -> Users]
  /\ None \notin Tasks \cup Ids
  /\ {MaxParts, MaxTries} \subseteq Nat \ {0}
  /\ Faults \subseteq FaultKinds

VARIABLES
  conversations, messages, broker,   \* as in DurableInbox
  next,         \* position in broker of the task to start next
  session,      \* conversations.claude_session_id, by conversation
  outbound,     \* committed outbound rows of messages, with the session and
                \* the number of parts of the answer they record
  pc, job,      \* where each worker stands, and the locals of its task
  transcript,   \* the tasks each Claude session remembers
  posted,       \* the parts of the answer of each task that arrived
  notice        \* whether the error notice for a message arrived

inboxVars  == <<conversations, messages, broker>>
dbVars     == <<session, outbound>>
outerVars  == <<transcript, posted, notice>>
workerVars == <<next, dbVars, pc, job, outerVars>>
vars == <<inboxVars, workerVars>>

Inbox == INSTANCE DurableInbox

Labels  == {"idle", "load", "claude", "update", "send", "store", "notify"}
Running == Labels \ {"idle"}
OutboundRow == [task : Tasks, conv : Ids, status : {"sent", "failed"},
                session : Tasks \cup {None}, parts : 1 .. MaxParts]

Job(task, c) ==
  [ task    |-> task,
    conv    |-> c,
    seen    |-> None,   \* conversation.claude_session_id as loaded
    context |-> {},     \* the tasks the session to resume remembers then
    result  |-> None,   \* result.session_id, None if Claude reported none
    parts   |-> 0,      \* length of the answer, once there is one
    part    |-> 1,      \* the next part of it to post
    update  |-> None ]  \* the uncommitted UPDATE of claude_session_id
NoJob == Job(None, None)

Init ==
  /\ Inbox!Init
  /\ next = 1
  /\ session = [c \in Ids |-> None]
  /\ outbound = {}
  /\ pc = [w \in Workers |-> "idle"]
  /\ job = [w \in Workers |-> NoJob]
  /\ transcript = [s \in Tasks |-> {}]
  /\ posted = [t \in Tasks |-> <<>>]
  /\ notice = [m \in Messages |-> FALSE]

-----------------------------------------------------------------------------
(* Steps of one worker. *)

Goto(w, label) == pc' = [pc EXCEPT ![w] = label]

(* The end of a task: its session is closed, its locals are gone. *)
Leave(w) == Goto(w, "idle") /\ job' = [job EXCEPT ![w] = NoJob]

TaskAt(i) == <<broker[i].msg, broker[i].try>>

Take(w) ==
  /\ pc[w] = "idle"
  /\ next <= Len(broker)
  /\ job' = [job EXCEPT ![w] = Job(TaskAt(next), broker[next].conv)]
  /\ next' = next + 1
  /\ Goto(w, "load")
  /\ UNCHANGED <<inboxVars, dbVars, outerVars>>

Remembered(s) == IF s = None THEN {} ELSE transcript[s]

(* Mutant: the key of the row where its session belongs. *)
Resume_Key(w, c) ==
  job' = [job EXCEPT ![w].seen = c, ![w].context = Remembered(session[c])]

(* Mutant: the session of some conversation, not of this one. *)
Resume_Any(w, c) ==
  \E d \in Ids : job' = [job EXCEPT ![w].seen = session[d],
                                    ![w].context = Remembered(session[d])]

Resume(w, c) ==
  job' = [job EXCEPT ![w].seen = session[c],
                     ![w].context = Remembered(session[c])]

(* session.get(Conversation, id), and the session Claude will resume. *)
Load(w) ==
  LET c == job[w].conv IN
  /\ pc[w] = "load"
  /\ IF \E row \in conversations : row.id = c
       THEN Resume(w, c) /\ Goto(w, "claude")
       ELSE Leave(w)
  /\ UNCHANGED <<inboxVars, next, dbVars, outerVars>>

(* The run goes on writing session s, which remembers what the resumed     *)
(* session did and this task.                                              *)
Remembers(w, s) ==
  transcript' =
    [transcript EXCEPT ![s] = @ \cup job[w].context \cup {job[w].task}]

(* Mutant: the command line lacks --resume. *)
Writes_NoResume(w, s) == transcript' = [transcript EXCEPT ![s] = {job[w].task}]

(* A run that reports session s has written it. *)
Writes(w, s) == Remembers(w, s)

(* invoke_with_retry returns.  A run that printed JSON, is_error or not,   *)
(* may report a session id, and then wrote the session it resumed or a new *)
(* one; any other run (plain text, non-zero exit, timeout) reports none,   *)
(* and has written the resumed one or nothing.  The answer, or the apology *)
(* in its place, has some length.                                          *)
RunClaude(w) ==
  LET seen == job[w].seen IN
  /\ pc[w] = "claude"
  /\ \E s \in {seen, job[w].task, None}, n \in 1 .. MaxParts :
       /\ job' = [job EXCEPT ![w].result = s, ![w].parts = n]
       /\ \/ s # None /\ Writes(w, s)
          \/ s = None /\ seen # None /\ Remembers(w, seen)
          \/ s = None /\ UNCHANGED transcript
  /\ Goto(w, "update")
  /\ UNCHANGED <<inboxVars, next, dbVars, posted, notice>>

RowLocked(w) ==
  \E v \in Workers \ {w} : job[v].conv = job[w].conv /\ job[v].update # None

(* Mutant: the UPDATE commits on its own. *)
UpdateSession_Autocommit(w) ==
  /\ pc[w] = "update"
  /\ session' = IF job[w].result = None THEN session
                ELSE [session EXCEPT ![job[w].conv] = job[w].result]
  /\ Goto(w, "send")
  /\ UNCHANGED <<inboxVars, next, outbound, job, outerVars>>

(* The flush of claude_session_id: an UPDATE only if the value differs     *)
(* from the one loaded, and only when no other transaction holds the row.  *)
UpdateSession(w) ==
  /\ pc[w] = "update"
  /\ IF job[w].result \in {None, job[w].seen}
       THEN UNCHANGED job
       ELSE ~RowLocked(w) /\ job' = [job EXCEPT ![w].update = job[w].result]
  /\ Goto(w, "send")
  /\ UNCHANGED <<inboxVars, next, dbVars, outerVars>>

(* _send_whatsapp_response: one post per part, in order; the first that    *)
(* fails ends the loop and the answer counts as FAILED.                    *)
Arrives(w) ==
  posted' = [posted EXCEPT ![job[w].task] = Append(@, job[w].part)]

NextPart(w) ==
  /\ job' = [job EXCEPT ![w].part = @ + 1]
  /\ IF job[w].part = job[w].parts THEN Goto(w, "store") ELSE UNCHANGED pc

SendPart(w) ==
  /\ pc[w] = "send"
  /\ Arrives(w)
  /\ NextPart(w)
  /\ UNCHANGED <<inboxVars, next, dbVars, transcript, notice>>

(* Mutant: no raise_for_status, the loop goes on after a rejected post. *)
BreakOff_Unnoticed(w) == NextPart(w)

BreakOff(w) == Goto(w, "store") /\ UNCHANGED job

SendFails(w) ==
  /\ pc[w] = "send"
  /\ \/ "send" \in Faults /\ UNCHANGED posted
     \/ "send_ack" \in Faults /\ Arrives(w)
  /\ BreakOff(w)
  /\ UNCHANGED <<inboxVars, next, dbVars, transcript, notice>>

(* The outbound row and the session id are committed together. *)
CommitRows(w) ==
  LET j == job[w] IN
  /\ outbound' = outbound \cup
       {[task |-> j.task, conv |-> j.conv, session |-> j.result,
         parts |-> j.parts,
         status |-> IF j.part > j.parts THEN "sent" ELSE "failed"]}
  /\ session' = IF j.update = None THEN session
                ELSE [session EXCEPT ![j.conv] = j.update]

Finish(w) ==
  /\ pc[w] = "store"
  /\ CommitRows(w)
  /\ Leave(w)
  /\ UNCHANGED <<inboxVars, next, outerVars>>

-----------------------------------------------------------------------------
(* Failures. *)

(* Mutant: the exception ends the task before the notice. *)
Rollback_Silent(w) == Leave(w)

(* An exception anywhere but in the posts: rollback, then the notice.  If  *)
(* the rollback raises, the task ends there.                               *)
Rollback(w) ==
  \/ job' = [job EXCEPT ![w].update = None] /\ Goto(w, "notify")
  \/ "rollback" \in Faults /\ Leave(w)

Raise(w) ==
  /\ "raise" \in Faults
  /\ pc[w] \in {"load", "claude", "update", "store"}
  /\ Rollback(w)
  /\ UNCHANGED <<inboxVars, next, dbVars, outerVars>>

CommitAnswerLost(w) ==
  /\ "commit_ack" \in Faults
  /\ pc[w] = "store"
  /\ CommitRows(w)
  /\ Rollback(w)
  /\ UNCHANGED <<inboxVars, next, outerVars>>

(* _send_error_message swallows every failure of its own post; the task    *)
(* ends with the exception, which max_retries=0 does not retry.            *)
Notify(w) ==
  /\ pc[w] = "notify"
  /\ \/ notice' = [notice EXCEPT ![job[w].task[1]] = TRUE]
     \/ Faults \cap {"send", "send_ack"} # {} /\ UNCHANGED notice
  /\ Leave(w)
  /\ UNCHANGED <<inboxVars, next, dbVars, transcript, posted>>

(* Mutant: acks_late, a killed task starts again from the beginning. *)
Dies_AcksLate(w) ==
  Goto(w, "load") /\ job' = [job EXCEPT ![w] = Job(@.task, @.conv)]

(* A task is acknowledged when it starts, so it dies with the child. *)
Dies(w) == Leave(w)

(* The child is killed: PostgreSQL drops the transaction, nobody is told.  *)
Kill(w) ==
  /\ "kill" \in Faults
  /\ pc[w] \in Running
  /\ Dies(w)
  /\ UNCHANGED <<inboxVars, next, dbVars, outerVars>>

-----------------------------------------------------------------------------

Work(w) ==
  Take(w) \/ Load(w) \/ RunClaude(w) \/ UpdateSession(w) \/ SendPart(w)
  \/ Finish(w) \/ Notify(w)

Fail(w) == SendFails(w) \/ Raise(w) \/ CommitAnswerLost(w) \/ Kill(w)

(* The webhook side: a message is accepted, or a task of it is published. *)
HandOver(m) ==
  /\ \E n \in 1 .. MaxTries : Inbox!HandOver(m, n)
  /\ UNCHANGED workerVars
Arrive(m) == Inbox!Accept(m) /\ UNCHANGED workerVars

Quiescent ==
  /\ \A m \in Messages : Inbox!Tried(m, 1)
  /\ next > Len(broker)
  /\ \A w \in Workers : pc[w] = "idle"
  /\ UNCHANGED vars

Next ==
  \/ \E m \in Messages : Arrive(m) \/ HandOver(m)
  \/ \E w \in Workers : Work(w) \/ Fail(w)
  \/ Quiescent

Spec == Init /\ [][Next]_vars

-----------------------------------------------------------------------------
JobRow ==
  [ task : Tasks \cup {None}, conv : Ids \cup {None},
    seen : Tasks \cup {None}, context : SUBSET Tasks,
    result : Tasks \cup {None}, update : Tasks \cup {None},
    parts : 0 .. MaxParts, part : 1 .. MaxParts + 1 ]

TypeOK ==
  /\ Inbox!TypeOK
  /\ next \in 1 .. Len(broker) + 1
  /\ session \in [Ids -> Tasks \cup {None}]
  /\ outbound \subseteq OutboundRow
  /\ pc \in [Workers -> Labels]
  /\ job \in [Workers -> JobRow]
  /\ transcript \in [Tasks -> SUBSET Tasks]
  /\ posted \in [Tasks -> Seq(1 .. MaxParts)]
  /\ notice \in [Messages -> BOOLEAN]
  /\ \A w \in Workers : pc[w] \in Running =>
       job[w].task \in Tasks /\ job[w].conv \in Ids

(* The answer of a task reaches the user in order and no part of it twice, *)
(* even when the child dies: each task starts once, and the loop of        *)
(* _send_whatsapp_response.                                                *)
PartsInOrder ==
  \A t \in Tasks : \A i \in 1 .. Len(posted[t]) : posted[t][i] = i

(* An answer recorded as SENT has arrived as a whole.                      *)
SentMeansDelivered ==
  \A row \in outbound :
    row.status = "sent" => posted[row.task] = [i \in 1 .. row.parts |-> i]

(* The Claude session of a conversation remembers messages of the          *)
(* conversation's own user only, whatever runs at the same time.           *)
SessionBelongs ==
  \A row \in conversations :
    \A t \in Remembered(session[row.id]) : Owner(t) = row.user

(* A conversation changes its session only in the commit that records an   *)
(* answer given in the new one.                                            *)
SessionMovesWithAnswer ==
  [][\A c \in Ids : session'[c] # session[c] =>
       \E row \in outbound' \ outbound :
         row.conv = c /\ row.session = session'[c]]_vars

(* "Send follow-up message -> `--resume` picks up session -> Claude has    *)
(* conversation context": every answer recorded with a session is          *)
(* remembered by the session the conversation's next run resumes.          *)
SessionRemembersAnswers ==
  \A row \in outbound :
    row.session # None => row.task \in Remembered(session[row.conv])

(* No two children work for the same conversation.                         *)
OneAtATime ==
  \A v, w \in Workers :
    /\ pc[v] \in Running /\ pc[w] \in Running
    /\ job[v].conv = job[w].conv
    => v = w

(* A conversation keeps its context through every failure and beside any   *)
(* number of others, as long as its user awaits each answer before the     *)
(* next message: process_message from the load to the commit.              *)
ContextKept == []OneAtATime => []SessionRemembersAnswers

(* A worker has the message; its user was told something; Claude or its    *)
(* user heard of it.                                                       *)
InWork(m) == \E w \in Workers : pc[w] \in Running /\ job[w].task[1] = m
Told(m)   == notice[m] \/ \E t \in Tasks : t[1] = m /\ posted[t] # <<>>
Heard(m)  == Told(m) \/ \E s \in Tasks : \E t \in transcript[s] : t[1] = m

=============================================================================
