------------------------ MODULE MessageWorker_proofs ------------------------
(***************************************************************************)
(* TLAPS proofs about MessageWorker, for any number of workers, messages   *)
(* and users, any failures and however often the broker holds a message:   *)
(* what was posted agrees with the rows, no Claude session mixes the       *)
(* messages of two users, and a conversation whose user awaits each answer *)
(* keeps its context.                                                      *)
(***************************************************************************)
EXTENDS MessageWorker, TLAPS

USE DEF Labels, Running

-----------------------------------------------------------------------------
(* The inductive invariant, by what it speaks of. *)

Taken(t) == \E i \in 1 .. next - 1 : TaskAt(i) = t

Recorded(t) == \E row \in outbound : row.task = t

(* A task is worked on once: nothing is posted or recorded before, and no  *)
(* two workers have it.                                                    *)
OneRunEach ==
  /\ \A t \in Tasks : ~Taken(t) => posted[t] = <<>> /\ ~Recorded(t)
  /\ \A w \in Workers : pc[w] \in Running =>
       /\ Taken(job[w].task)
       /\ pc[w] # "notify" => ~Recorded(job[w].task)
       /\ \A v \in Workers \ {w} : pc[v] \in Running => job[v].task # job[w].task

(* What has been posted when a worker stands where it stands. *)
PostingOK ==
  \A w \in Workers :
    LET j == job[w]  arrived == Len(posted[j.task]) IN
    /\ pc[w] \in {"load", "claude", "update"} => arrived = 0 /\ j.part = 1
    /\ pc[w] \in {"update", "send", "store"} => j.parts >= 1
    /\ pc[w] = "send" => arrived = j.part - 1 /\ j.part <= j.parts
    /\ pc[w] = "store" /\ j.part > j.parts => arrived = j.parts

(* User u may own session s. *)
Owns(u, s) == s # None => Owner(s) = u

(* Sessions, also those a worker holds or is about to write, are their     *)
(* conversation's user's.                                                  *)
SessionsOwned ==
  /\ \A s \in Tasks : \A t \in transcript[s] : Owner(t) = Owner(s)
  /\ \A c \in Ids : session[c] # None =>
       [id |-> c, user |-> Owner(session[c])] \in conversations
  /\ \A w \in Workers : pc[w] \in Running =>
       LET j == job[w]  u == Owner(j.task) IN
       /\ [id |-> j.conv, user |-> u] \in conversations
       /\ Owns(u, j.seen) /\ Owns(u, j.result)
       /\ j.update \in {None, j.result}
       /\ pc[w] \in {"load", "claude", "update"} => j.update = None
       /\ \A t \in j.context : Owner(t) = u

IInv ==
  /\ TypeOK
  /\ Inbox!Consistent
  /\ OneRunEach
  /\ PostingOK
  /\ SessionsOwned
  /\ PartsInOrder
  /\ SentMeansDelivered

-----------------------------------------------------------------------------
(* What steps change. *)

(* The environment keeps the tables consistent; it only adds to them.      *)
LEMMA InboxKeeps ==
  ASSUME Inbox!TypeOK, Inbox!Consistent, NEW m \in Messages,
         Inbox!Accept(m) \/ \E n \in 1 .. MaxTries : Inbox!HandOver(m, n)
  PROVE  /\ Inbox!TypeOK' /\ Inbox!Consistent'
         /\ conversations \subseteq conversations'
         /\ Len(broker') \in Nat /\ Len(broker') >= Len(broker)
         /\ \A i \in 1 .. Len(broker) : broker'[i] = broker[i]
<1>1. CASE Inbox!Accept(m)
  <2>1. PICK i \in Ids, c \in Ids :
          /\ conversations' = conversations \cup {[id |-> c, user |-> Sender[m]]}
          /\ \A row \in conversations' : row.id = c <=> row.user = Sender[m]
          /\ messages' = messages \cup {[id |-> i, msg |-> m, conv |-> c]}
    BY <1>1 DEF Inbox!Accept
  <2>2. UNCHANGED broker /\ \A row \in messages : row.msg # m
    BY <1>1 DEF Inbox!Accept
  <2>3. Inbox!TypeOK'
    BY <2>1, <2>2, WorkerAssumption
    DEF Inbox!TypeOK, Inbox!ConversationRow, Inbox!MessageRow
  <2>4. \A a, b \in conversations' : a.id = b.id \/ a.user = b.user => a = b
    <3> SUFFICES ASSUME NEW a \in conversations', NEW b \in conversations',
                        a.id = b.id \/ a.user = b.user
                 PROVE  a = b
      OBVIOUS
    <3>1. /\ a = [id |-> a.id, user |-> a.user]
          /\ b = [id |-> b.id, user |-> b.user]
      BY <2>3 DEF Inbox!TypeOK, Inbox!ConversationRow
    <3>2. CASE a.id = c \/ b.id = c
      BY <2>1, <3>1, <3>2
    <3>3. CASE a.id # c /\ b.id # c
      BY <2>1, <3>3 DEF Inbox!Consistent
    <3> QED
      BY <3>2, <3>3
  <2> QED
    BY <2>1, <2>2, <2>3, <2>4 DEF Inbox!TypeOK, Inbox!Consistent
<1>2. ASSUME NEW n \in 1 .. MaxTries, Inbox!HandOver(m, n)
      PROVE  /\ Inbox!TypeOK' /\ Inbox!Consistent'
             /\ UNCHANGED conversations
             /\ Len(broker') = Len(broker) + 1
             /\ \A i \in 1 .. Len(broker) : broker'[i] = broker[i]
  <2>1. PICK row \in messages :
          /\ row.msg = m
          /\ broker' = Append(broker, [msg |-> m, conv |-> row.conv, try |-> n])
    BY <1>2 DEF Inbox!HandOver
  <2>2. /\ UNCHANGED <<conversations, messages>>
        /\ \A i \in 1 .. Len(broker) : ~(broker[i].msg = m /\ broker[i].try = n)
    BY <1>2 DEF Inbox!HandOver, Inbox!Tried
  <2>3. [msg |-> m, conv |-> row.conv, try |-> n] \in Inbox!Task
    BY <2>1 DEF Inbox!TypeOK, Inbox!MessageRow, Inbox!Task
  <2>4. /\ broker' \in Seq(Inbox!Task)
        /\ Len(broker') = Len(broker) + 1
        /\ \A i \in 1 .. Len(broker) : broker'[i] = broker[i]
        /\ broker'[Len(broker')] = [msg |-> m, conv |-> row.conv, try |-> n]
    BY <2>1, <2>3 DEF Inbox!TypeOK
  <2>5. Inbox!TypeOK'
    BY <2>2, <2>4 DEF Inbox!TypeOK
  <2>6. Inbox!Consistent'
    BY <2>1, <2>2, <2>4 DEF Inbox!TypeOK, Inbox!Consistent
  <2> QED
    BY <2>2, <2>4, <2>5, <2>6
<1>3. Len(broker) \in Nat
  BY DEF Inbox!TypeOK
<1> QED
  BY <1>1, <1>2, <1>3

(* A worker's step leaves the environment and the other workers alone.     *)
LEMMA Others ==
  ASSUME TypeOK, NEW w \in Workers, Work(w) \/ Fail(w)
  PROVE  /\ UNCHANGED inboxVars
         /\ \A v \in Workers \ {w} : pc'[v] = pc[v] /\ job'[v] = job[v]
BY DEF TypeOK, Work, Fail, Take, Load, RunClaude, UpdateSession, SendPart,
   Finish, Notify, SendFails, Raise, CommitAnswerLost, Kill, Leave, Resume,
   NextPart, BreakOff, Rollback, Dies, Goto

(* It posts only where it sends, and records only where it stores.         *)
LEMMA Posts ==
  ASSUME NEW w \in Workers, Work(w) \/ Fail(w)
  PROVE  \/ UNCHANGED posted
         \/ /\ SendPart(w) \/ SendFails(w)
            /\ pc[w] = "send"
            /\ Arrives(w)
BY DEF Work, Fail, Take, Load, RunClaude, UpdateSession, SendPart,
   Finish, Notify, SendFails, Raise, CommitAnswerLost, Kill, outerVars

LEMMA Records ==
  ASSUME NEW w \in Workers, Work(w) \/ Fail(w)
  PROVE  \/ UNCHANGED dbVars
         \/ /\ Finish(w) \/ CommitAnswerLost(w)
            /\ pc[w] = "store"
            /\ CommitRows(w)
            /\ UNCHANGED <<next, posted, transcript>>
BY DEF Work, Fail, Take, Load, RunClaude, UpdateSession, SendPart,
   Finish, Notify, SendFails, Raise, CommitAnswerLost, Kill, outerVars

(* Its own job: taken up, gone on with, or left.                           *)
LEMMA OwnJob ==
  ASSUME TypeOK, NEW w \in Workers, Work(w) \/ Fail(w)
  PROVE  \/ /\ Take(w) /\ pc[w] = "idle" /\ pc'[w] = "load"
            /\ next <= Len(broker) /\ next' = next + 1
            /\ job'[w] = Job(TaskAt(next), broker[next].conv)
         \/ /\ pc[w] \in Running /\ UNCHANGED next
            /\ pc'[w] = "idle" /\ job'[w] = NoJob
         \/ /\ pc[w] \in Running /\ UNCHANGED next
            /\ pc'[w] \in Running /\ pc'[w] # "load"
            /\ job'[w].task = job[w].task /\ job'[w].conv = job[w].conv
            /\ pc'[w] # "notify" => pc[w] # "notify" /\ UNCHANGED dbVars
<1> USE DEF TypeOK, JobRow
<1>1. CASE Take(w)
  BY <1>1 DEF Take, Goto
<1>2. CASE Load(w)
  BY <1>2 DEF Load, Leave, Resume, Goto
<1>3. CASE RunClaude(w)
  BY <1>3 DEF RunClaude, Goto
<1>4. CASE UpdateSession(w)
  BY <1>4 DEF UpdateSession, Goto
<1>5. CASE SendPart(w)
  BY <1>5 DEF SendPart, NextPart, Goto
<1>6. CASE Finish(w) \/ Notify(w) \/ Kill(w)
  BY <1>6 DEF Finish, Notify, Kill, Dies, Leave, Goto
<1>7. CASE SendFails(w)
  BY <1>7 DEF SendFails, BreakOff, Goto
<1>8. CASE Raise(w) \/ CommitAnswerLost(w)
  BY <1>8 DEF Raise, CommitAnswerLost, Rollback, Leave, Goto
<1> QED
  BY <1>1, <1>2, <1>3, <1>4, <1>5, <1>6, <1>7, <1>8 DEF Work, Fail

LEMMA TaskHasMessage == \A t \in Tasks : t[1] \in Messages
BY DEF Tasks

(* A task is taken for good; the next one is nobody's yet.                 *)
LEMMA TakenStays ==
  ASSUME TypeOK, NEW w \in Workers, Work(w) \/ Fail(w), NEW t, Taken(t)
  PROVE  Taken(t)'
<1>1. UNCHANGED broker /\ (next' = next \/ next' = next + 1)
  BY Others, OwnJob DEF inboxVars
<1> QED
  BY <1>1 DEF TypeOK, Inbox!TypeOK, Taken, TaskAt

LEMMA NextTask ==
  ASSUME TypeOK, next <= Len(broker)
  PROVE  /\ next \in 1 .. Len(broker)
         /\ TaskAt(next) \in Tasks /\ broker[next].conv \in Ids
<1>1. next \in 1 .. Len(broker) /\ broker \in Seq(Inbox!Task)
  BY DEF TypeOK, Inbox!TypeOK
<1>2. broker[next] \in Inbox!Task
  BY <1>1
<1> QED
  BY <1>1, <1>2 DEF Inbox!Task, TaskAt, Tasks

LEMMA NextUntaken ==
  ASSUME TypeOK, Inbox!Consistent, next <= Len(broker)
  PROVE  ~Taken(TaskAt(next))
BY DEF TypeOK, Inbox!TypeOK, Inbox!Consistent, Taken, TaskAt

-----------------------------------------------------------------------------
(* Each part of the invariant is preserved. *)

LEMMA EnvironmentKeeps ==
  ASSUME IInv, NEW m \in Messages, Arrive(m) \/ HandOver(m)
  PROVE  IInv'
<1>1. /\ UNCHANGED workerVars
      /\ Inbox!Accept(m) \/ \E n \in 1 .. MaxTries : Inbox!HandOver(m, n)
  BY DEF Arrive, HandOver
<1>2. /\ Inbox!TypeOK' /\ Inbox!Consistent'
      /\ conversations \subseteq conversations'
      /\ Len(broker') \in Nat /\ Len(broker') >= Len(broker)
      /\ \A i \in 1 .. Len(broker) : broker'[i] = broker[i]
  BY <1>1, InboxKeeps DEF IInv, TypeOK
<1>3. UNCHANGED <<next, session, outbound, pc, job, transcript, posted, notice>>
  BY <1>1 DEF workerVars, dbVars, outerVars
<1>4. TypeOK'
  BY <1>2, <1>3 DEF IInv, TypeOK, Inbox!TypeOK
<1>5. \A t : Taken(t)' <=> Taken(t)
  <2>1. next' = next /\ next \in Nat /\ next - 1 <= Len(broker) /\ Len(broker) \in Nat
    BY <1>3 DEF IInv, TypeOK, Inbox!TypeOK
  <2>2. \A i \in 1 .. next - 1 : broker'[i] = broker[i]
    BY <1>2, <2>1
  <2> QED
    BY <2>1, <2>2 DEF Taken, TaskAt
<1>6. OneRunEach'
  BY <1>3, <1>5 DEF IInv, OneRunEach, Recorded
<1>7. PostingOK' /\ PartsInOrder' /\ SentMeansDelivered'
  BY <1>3 DEF IInv, PostingOK, PartsInOrder, SentMeansDelivered
<1>8. SessionsOwned'
  BY <1>2, <1>3 DEF IInv, SessionsOwned, Owns
<1> QED
  BY <1>2, <1>4, <1>6, <1>7, <1>8 DEF IInv

LEMMA RunsStep ==
  ASSUME IInv, NEW w \in Workers, Work(w) \/ Fail(w)
  PROVE  OneRunEach'
<1> USE DEF IInv, OneRunEach
<1>1. UNCHANGED posted \/ (pc[w] = "send" /\ Arrives(w))
  BY Posts
<1>2. UNCHANGED dbVars \/ (pc[w] = "store" /\ CommitRows(w))
  BY Records
<1>3. \A t : Taken(t) => Taken(t)'
  BY TakenStays
<1>4. \A t : Recorded(t)' => Recorded(t) \/ (pc[w] = "store" /\ t = job[w].task)
  BY <1>2 DEF CommitRows, Recorded, dbVars
<1>5. \A t \in Tasks : ~Taken(t)' => posted'[t] = <<>> /\ ~Recorded(t)'
  <2> SUFFICES ASSUME NEW t \in Tasks, ~Taken(t)'
               PROVE  posted'[t] = <<>> /\ ~Recorded(t)'
    OBVIOUS
  <2>1. ~Taken(t)
    BY <1>3
  <2>2. pc[w] \in Running => t # job[w].task
    BY <2>1
  <2>3. posted'[t] = posted[t]
    BY <1>1, <2>2 DEF Arrives, TypeOK
  <2> QED
    BY <1>4, <2>1, <2>2, <2>3
<1>6. ASSUME NEW v \in Workers \ {w}, pc'[v] \in Running
      PROVE  /\ Taken(job[v].task)'
             /\ pc'[v] # "notify" => ~Recorded(job[v].task)'
             /\ \A x \in Workers \ {v, w} :
                  pc'[x] \in Running => job'[x].task # job'[v].task
             /\ pc'[w] \in Running => job'[w].task # job'[v].task
  <2>1. pc'[v] = pc[v] /\ job'[v] = job[v]
    BY Others
  <2>2. pc'[w] \in Running => job'[w].task # job'[v].task
    BY <1>6, <2>1, OwnJob, NextUntaken DEF Job
  <2>3. \A x \in Workers \ {v, w} :
          pc'[x] \in Running => job'[x].task # job'[v].task
    BY <1>6, <2>1, Others
  <2> QED
    BY <1>3, <1>4, <1>6, <2>1, <2>2, <2>3
<1>7. ASSUME pc'[w] \in Running
      PROVE  /\ Taken(job[w].task)'
             /\ pc'[w] # "notify" => ~Recorded(job[w].task)'
  <2>1. CASE /\ pc[w] = "idle" /\ next <= Len(broker) /\ next' = next + 1
             /\ job'[w] = Job(TaskAt(next), broker[next].conv)
    <3>1. job'[w].task = TaskAt(next) /\ TaskAt(next) \in Tasks
      BY <2>1, NextTask DEF Job
    <3>2. Taken(job[w].task)'
      <4>1. UNCHANGED broker
        BY Others DEF inboxVars
      <4>2. next \in 1 .. next' - 1
        BY <2>1, NextTask
      <4> QED
        BY <3>1, <4>1, <4>2 DEF Taken, TaskAt
    <3>3. ~Recorded(job[w].task)'
      BY <1>4, <2>1, <3>1, NextUntaken
    <3> QED
      BY <3>2, <3>3
  <2>2. CASE /\ pc[w] \in Running /\ job'[w].task = job[w].task
             /\ pc'[w] # "notify" => pc[w] # "notify" /\ UNCHANGED dbVars
    BY <1>3, <2>2 DEF Recorded, dbVars
  <2> QED
    BY <1>7, <2>1, <2>2, OwnJob
<1> QED
  BY <1>5, <1>6, <1>7

LEMMA PostingStep ==
  ASSUME IInv, NEW w \in Workers, Work(w) \/ Fail(w)
  PROVE  PostingOK' /\ PartsInOrder'
<1> DEFINE j == job[w]
<1>1. UNCHANGED posted \/ (pc[w] = "send" /\ Arrives(w))
  BY Posts
<1>2. ASSUME pc[w] = "send", Arrives(w)
      PROVE  /\ \A t \in Tasks \ {j.task} : posted'[t] = posted[t]
             /\ j.task \in Tasks
             /\ Len(posted'[j.task]) = j.part
             /\ \A i \in 1 .. j.part : posted'[j.task][i] = i
  <2>1. /\ j.task \in Tasks /\ posted[j.task] \in Seq(1 .. MaxParts)
        /\ j.part \in Nat /\ Len(posted[j.task]) = j.part - 1
        /\ \A i \in 1 .. Len(posted[j.task]) : posted[j.task][i] = i
    BY <1>2 DEF IInv, TypeOK, JobRow, PostingOK, PartsInOrder
  <2>2. posted' = [posted EXCEPT ![j.task] = Append(@, j.part)]
    BY <1>2 DEF Arrives
  <2>3. posted'[j.task] = Append(posted[j.task], j.part)
    BY <2>1, <2>2 DEF IInv, TypeOK
  <2> QED
    BY <2>1, <2>2, <2>3 DEF IInv, TypeOK
<1>3. PartsInOrder'
  BY <1>1, <1>2 DEF IInv, PartsInOrder
<1>4. ASSUME NEW v \in Workers \ {w}
      PROVE  LET k == job'[v]  arrived == Len(posted'[k.task]) IN
             /\ pc'[v] \in {"load", "claude", "update"} => arrived = 0 /\ k.part = 1
             /\ pc'[v] \in {"update", "send", "store"} => k.parts >= 1
             /\ pc'[v] = "send" => arrived = k.part - 1 /\ k.part <= k.parts
             /\ pc'[v] = "store" /\ k.part > k.parts => arrived = k.parts
  <2>1. pc'[v] = pc[v] /\ job'[v] = job[v]
    BY Others DEF IInv
  <2>2. pc[v] \in Running => posted'[job[v].task] = posted[job[v].task]
    BY <1>1, <1>2 DEF IInv, TypeOK, OneRunEach
  <2> QED
    BY <2>1, <2>2 DEF IInv, PostingOK
<1>5. LET k == job'[w]  arrived == Len(posted'[k.task]) IN
      /\ pc'[w] \in {"load", "claude", "update"} => arrived = 0 /\ k.part = 1
      /\ pc'[w] \in {"update", "send", "store"} => k.parts >= 1
      /\ pc'[w] = "send" => arrived = k.part - 1 /\ k.part <= k.parts
      /\ pc'[w] = "store" /\ k.part > k.parts => arrived = k.parts
  <2> USE DEF IInv, TypeOK, JobRow, PostingOK
  <2>1. CASE Take(w)
    <3>1. /\ pc'[w] = "load" /\ UNCHANGED posted
          /\ job'[w] = Job(TaskAt(next), broker[next].conv) /\ next <= Len(broker)
      BY <2>1 DEF Take, Goto, outerVars
    <3>2. posted[TaskAt(next)] = <<>>
      <4>1. ~Taken(TaskAt(next))
        BY <3>1, NextUntaken
      <4>2. TaskAt(next) \in Tasks
        BY <3>1, NextTask
      <4> QED
        BY <4>1, <4>2 DEF OneRunEach
    <3> QED
      BY <3>1, <3>2 DEF Job
  <2>2. CASE Load(w)
    <3>1. pc[w] = "load" /\ UNCHANGED posted /\ pc'[w] \in {"claude", "idle"}
      BY <2>2 DEF Load, Leave, Goto, outerVars
    <3>2. pc'[w] = "claude" => job'[w].task = j.task /\ job'[w].part = j.part
      BY <2>2 DEF Load, Leave, Resume, Goto
    <3> QED
      BY <3>1, <3>2
  <2>3. CASE RunClaude(w)
    BY <2>3, WorkerAssumption DEF RunClaude, Goto
  <2>4. CASE UpdateSession(w)
    <3>1. pc[w] = "update" /\ UNCHANGED posted /\ pc'[w] = "send"
      BY <2>4 DEF UpdateSession, Goto, outerVars
    <3>2. /\ job'[w].task = j.task
          /\ job'[w].part = j.part /\ job'[w].parts = j.parts
      BY <2>4 DEF UpdateSession
    <3> QED
      BY <3>1, <3>2
  <2>5. CASE SendPart(w)
    <3>1. /\ job'[w] = [j EXCEPT !.part = @ + 1]
          /\ pc[w] = "send" /\ Arrives(w)
          /\ pc'[w] = IF j.part = j.parts THEN "store" ELSE "send"
      BY <2>5 DEF SendPart, NextPart, Goto
    <3> QED
      BY <1>2, <3>1
  <2>6. CASE pc'[w] \in {"idle", "notify"}
    BY <2>6
  <2>7. CASE SendFails(w)
    BY <2>7 DEF SendFails, BreakOff, Goto
  <2>8. CASE Finish(w) \/ Notify(w) \/ Kill(w) \/ Raise(w) \/ CommitAnswerLost(w)
    BY <2>6, <2>8 DEF Finish, Notify, Kill, Raise, CommitAnswerLost, Rollback,
       Dies, Leave, Goto
  <2> QED
    BY <2>1, <2>2, <2>3, <2>4, <2>5, <2>7, <2>8 DEF Work, Fail
<1> QED
  BY <1>3, <1>4, <1>5 DEF PostingOK

LEMMA SentStep ==
  ASSUME IInv, NEW w \in Workers, Work(w) \/ Fail(w)
  PROVE  SentMeansDelivered'
<1> DEFINE j == job[w]
<1> SUFFICES ASSUME NEW row \in outbound', row.status = "sent"
             PROVE  posted'[row.task] = [i \in 1 .. row.parts |-> i]
  BY DEF SentMeansDelivered
<1> USE DEF IInv
<1>1. CASE row \in outbound
  <2>1. row.task \in Tasks
    BY <1>1 DEF TypeOK, OutboundRow
  <2>2. posted'[row.task] = posted[row.task]
    <3>1. CASE pc[w] = "send" /\ Arrives(w)
      <4>1. row.task # j.task
        BY <1>1, <3>1 DEF OneRunEach, Recorded
      <4> QED
        BY <2>1, <3>1, <4>1 DEF Arrives, TypeOK
    <3> QED
      BY <3>1, Posts
  <2> QED
    BY <1>1, <2>2 DEF SentMeansDelivered
<1>2. CASE row \notin outbound
  <2>1. pc[w] = "store" /\ CommitRows(w) /\ UNCHANGED posted
    BY <1>2, Records DEF dbVars
  <2>2. row.task = j.task /\ row.parts = j.parts /\ j.part > j.parts
    BY <1>2, <2>1 DEF CommitRows
  <2>3. Len(posted[j.task]) = j.parts
    BY <2>1, <2>2 DEF PostingOK
  <2>4. /\ j.task \in Tasks /\ posted[j.task] \in Seq(1 .. MaxParts)
        /\ \A i \in 1 .. Len(posted[j.task]) : posted[j.task][i] = i
    BY <2>1 DEF TypeOK, PartsInOrder
  <2> QED
    BY <2>1, <2>2, <2>3, <2>4
<1> QED
  BY <1>1, <1>2

LEMMA OwnedStep ==
  ASSUME IInv, NEW w \in Workers, Work(w) \/ Fail(w)
  PROVE  SessionsOwned'
<1> DEFINE j == job[w]
           u == Owner(j.task)
<1>1. UNCHANGED conversations
  BY Others DEF IInv, inboxVars
<1>2. pc[w] \in Running =>
        /\ j.task \in Tasks /\ j.conv \in Ids
        /\ [id |-> j.conv, user |-> u] \in conversations
        /\ Owns(u, j.seen) /\ Owns(u, j.result)
        /\ j.update \in {None, j.result}
        /\ pc[w] \in {"load", "claude", "update"} => j.update = None
        /\ \A t \in j.context : Owner(t) = u
  BY DEF IInv, TypeOK, SessionsOwned
<1>3. \A s \in Tasks : \A t \in transcript'[s] : Owner(t) = Owner(s)
  <2>1. \/ UNCHANGED transcript
        \/ /\ pc[w] = "claude"
           /\ \E s \in {j.seen, j.task} : s # None /\ Remembers(w, s)
    BY WorkerAssumption DEF Work, Fail, Take, Load, RunClaude, Writes,
       UpdateSession, SendPart, Finish, Notify, SendFails, Raise,
       CommitAnswerLost, Kill, outerVars
  <2>2. ASSUME pc[w] = "claude", NEW s \in {j.seen, j.task}, s # None,
               Remembers(w, s)
        PROVE  \A r \in Tasks : \A t \in transcript'[r] : Owner(t) = Owner(r)
    <3>1. s \in Tasks /\ Owner(s) = u
      BY <1>2, <2>2 DEF IInv, TypeOK, JobRow, Owns
    <3>2. transcript'[s] = transcript[s] \cup j.context \cup {j.task}
      BY <2>2, <3>1 DEF Remembers, IInv, TypeOK
    <3>3. \A r \in Tasks \ {s} : transcript'[r] = transcript[r]
      BY <2>2 DEF Remembers, IInv, TypeOK
    <3> QED
      BY <1>2, <2>2, <3>1, <3>2, <3>3 DEF IInv, SessionsOwned
  <2>3. CASE UNCHANGED transcript
    BY <2>3 DEF IInv, SessionsOwned
  <2> QED
    BY <2>1, <2>2, <2>3
<1>4. \A c \in Ids : session'[c] # None =>
        [id |-> c, user |-> Owner(session'[c])] \in conversations'
  <2>1. CASE UNCHANGED session
    BY <1>1, <2>1 DEF IInv, SessionsOwned
  <2>2. CASE pc[w] = "store" /\ CommitRows(w) /\ j.update # None
    <3>1. session' = [session EXCEPT ![j.conv] = j.update]
      BY <2>2 DEF CommitRows
    <3>2. Owner(j.update) = u
      BY <1>2, <2>2 DEF Owns
    <3> QED
      BY <1>1, <1>2, <2>2, <3>1, <3>2 DEF IInv, TypeOK, SessionsOwned
  <2> QED
    BY <2>1, <2>2, Records DEF CommitRows, dbVars
<1>5. ASSUME NEW v \in Workers, pc'[v] \in Running
      PROVE  LET k == job'[v]  o == Owner(k.task) IN
             /\ [id |-> k.conv, user |-> o] \in conversations'
             /\ Owns(o, k.seen) /\ Owns(o, k.result)
             /\ k.update \in {None, k.result}
             /\ pc'[v] \in {"load", "claude", "update"} => k.update = None
             /\ \A t \in k.context : Owner(t) = o
  <2>1. CASE v # w
    BY <1>1, <1>5, <2>1, Others DEF IInv, SessionsOwned
  <2>2. CASE v = w /\ Take(w)
    <3>1. job'[w] = Job(TaskAt(next), broker[next].conv) /\ next <= Len(broker)
      BY <2>2 DEF Take, IInv, TypeOK
    <3>2. /\ next \in 1 .. Len(broker)
          /\ TaskAt(next) \in Tasks
      BY <3>1, NextTask DEF IInv
    <3>3. [id |-> broker[next].conv, user |-> Owner(TaskAt(next))]
            \in conversations
      BY <3>2 DEF IInv, Inbox!Consistent, Owner, TaskAt
    <3> QED
      BY <1>1, <2>2, <3>1, <3>3 DEF Job, Owns
  <2>3. CASE v = w /\ Load(w)
    <3>1. /\ job'[w].task = j.task /\ job'[w].conv = j.conv
          /\ job'[w].result = j.result /\ job'[w].update = j.update
          /\ job'[w].seen = session[j.conv]
          /\ job'[w].context = Remembered(session[j.conv])
          /\ pc[w] = "load"
      BY <1>5, <2>3 DEF Load, Leave, Goto, Resume, IInv, TypeOK, JobRow
    <3>2. Owns(u, session[j.conv])
      BY <1>2, <3>1 DEF IInv, SessionsOwned, Inbox!Consistent, Owns
    <3>3. \A t \in Remembered(session[j.conv]) : Owner(t) = u
      BY <1>2, <3>1, <3>2 DEF IInv, TypeOK, SessionsOwned, Remembered, Owns
    <3> QED
      BY <1>1, <1>2, <2>3, <3>1, <3>2, <3>3
  <2>4. CASE v = w /\ RunClaude(w)
    <3>1. PICK s \in {j.seen, j.task, None} :
            /\ job'[w].task = j.task /\ job'[w].conv = j.conv
            /\ job'[w].seen = j.seen /\ job'[w].context = j.context
            /\ job'[w].result = s /\ job'[w].update = j.update
            /\ pc[w] = "claude"
      BY <2>4 DEF RunClaude, IInv, TypeOK, JobRow
    <3>2. j.update = None
      BY <1>2, <3>1
    <3> QED
      BY <1>1, <1>2, <2>4, <3>1, <3>2 DEF Owns
  <2>5. CASE v = w /\ pc[w] \in Running /\ ~Load(w) /\ ~RunClaude(w)
    <3>1. /\ job'[w].task = j.task /\ job'[w].conv = j.conv
          /\ job'[w].seen = j.seen /\ job'[w].context = j.context
          /\ job'[w].result = j.result
          /\ job'[w].update \in {j.update, None, j.result}
          /\ pc'[w] \notin {"load", "claude", "update"}
      BY <1>5, <2>5 DEF Work, Fail, Take, UpdateSession, SendPart, Finish,
         Notify, SendFails, Raise, CommitAnswerLost, Kill, NextPart, BreakOff,
         Rollback, Dies, Leave, Goto, IInv, TypeOK, JobRow
    <3> QED
      BY <1>1, <1>2, <2>5, <3>1
  <2>6. pc[w] \in Running \/ Take(w)
    BY OwnJob DEF IInv
  <2> QED
    BY <2>1, <2>2, <2>3, <2>4, <2>5, <2>6
<1> QED
  BY <1>3, <1>4, <1>5 DEF SessionsOwned

LEMMA TypeStep ==
  ASSUME IInv, NEW w \in Workers, Work(w) \/ Fail(w)
  PROVE  TypeOK'
<1> DEFINE j == job[w]
<1> USE DEF IInv
<1>1. UNCHANGED inboxVars /\ Inbox!TypeOK'
  BY Others DEF TypeOK, inboxVars, Inbox!TypeOK
<1>2. next' \in 1 .. Len(broker') + 1
  BY <1>1, OwnJob DEF TypeOK, Inbox!TypeOK, inboxVars
<1>3. /\ j \in JobRow
      /\ pc[w] \in Running => j.task \in Tasks /\ j.conv \in Ids
  BY DEF TypeOK
<1>4. outbound' \subseteq OutboundRow /\ session' \in [Ids -> Tasks \cup {None}]
  <2>1. CASE pc[w] = "store" /\ CommitRows(w)
    <3>1. j.parts \in 1 .. MaxParts
      BY <1>3, <2>1, WorkerAssumption DEF JobRow, PostingOK
    <3> QED
      BY <1>3, <2>1, <3>1 DEF CommitRows, TypeOK, OutboundRow, JobRow
  <2> QED
    BY <2>1, Records DEF TypeOK, dbVars
<1>5. posted' \in [Tasks -> Seq(1 .. MaxParts)]
  <2>1. CASE pc[w] = "send" /\ Arrives(w)
    <3>1. j.part \in 1 .. MaxParts
      BY <1>3, <2>1, WorkerAssumption DEF JobRow, PostingOK
    <3>2. Append(posted[j.task], j.part) \in Seq(1 .. MaxParts)
      BY <1>3, <2>1, <3>1 DEF TypeOK
    <3> QED
      BY <2>1, <3>2 DEF Arrives, TypeOK
  <2> QED
    BY <2>1, Posts DEF TypeOK
<1>6. transcript' \in [Tasks -> SUBSET Tasks]
  <2>1. ASSUME NEW s, pc[w] = "claude", Remembers(w, s)
        PROVE  transcript' \in [Tasks -> SUBSET Tasks]
    <3>1. j.context \cup {j.task} \subseteq Tasks
      BY <1>3, <2>1 DEF JobRow
    <3> QED
      BY <2>1, <3>1 DEF Remembers, TypeOK
  <2> QED
    BY <2>1 DEF TypeOK, Work, Fail, Take, Load, RunClaude, Writes,
       UpdateSession, SendPart, Finish, Notify, SendFails, Raise,
       CommitAnswerLost, Kill, outerVars
<1>7. notice' \in [Messages -> BOOLEAN]
  <2>1. notice' \in {notice, [notice EXCEPT ![j.task[1]] = TRUE]}
    BY DEF Work, Fail, Take, Load, RunClaude, UpdateSession, SendPart, Finish,
       Notify, SendFails, Raise, CommitAnswerLost, Kill, outerVars
  <2> QED
    BY <2>1 DEF TypeOK
<1>8. \E l \in Labels : pc' = [pc EXCEPT ![w] = l]
  <2>1. (\E l \in Labels : Goto(w, l)) \/ (UNCHANGED pc /\ pc[w] = "send")
    BY DEF Work, Fail, Take, Load, RunClaude, UpdateSession, SendPart, Finish,
       Notify, SendFails, Raise, CommitAnswerLost, Kill, Leave, NextPart,
       BreakOff, Rollback, Dies
  <2> QED
    BY <2>1 DEF Goto, TypeOK
<1>9. \E k \in JobRow : job' = [job EXCEPT ![w] = k]
  <2>a. NoJob \in JobRow
    BY WorkerAssumption DEF NoJob, Job, JobRow
  <2>b. UNCHANGED job => \E k \in JobRow : job' = [job EXCEPT ![w] = k]
    BY <1>3 DEF TypeOK
  <2>1. CASE Take(w)
    <3>1. Job(TaskAt(next), broker[next].conv) \in JobRow
      BY <2>1, NextTask, WorkerAssumption DEF Take, Job, JobRow
    <3> QED
      BY <2>1, <3>1 DEF Take
  <2>2. CASE Leave(w)
    BY <2>2, <2>a DEF Leave
  <2>3. CASE Load(w) /\ ~Leave(w)
    <3>1. /\ pc[w] = "load"
          /\ job' = [job EXCEPT ![w] = [j EXCEPT !.seen = session[j.conv],
                       !.context = Remembered(session[j.conv])]]
      BY <2>3 DEF Load, Resume
    <3>2. /\ session[j.conv] \in Tasks \cup {None}
          /\ Remembered(session[j.conv]) \subseteq Tasks
      BY <1>3, <3>1 DEF TypeOK, Remembered
    <3> QED
      BY <1>3, <3>1, <3>2 DEF JobRow
  <2>4. CASE RunClaude(w)
    <3>1. PICK s \in {j.seen, j.task, None}, n \in 1 .. MaxParts :
            job' = [job EXCEPT ![w].result = s, ![w].parts = n]
      BY <2>4, Zenon DEF RunClaude
    <3>2. s \in Tasks \cup {None} /\ n \in 0 .. MaxParts
      BY <1>3, <2>4, WorkerAssumption DEF RunClaude, JobRow
    <3>3. job' = [job EXCEPT ![w] = [j EXCEPT !.result = s, !.parts = n]]
      BY <3>1
    <3> QED
      BY <1>3, <3>2, <3>3 DEF JobRow
  <2>5. CASE UpdateSession(w)
    <3>1. \/ UNCHANGED job
          \/ job' = [job EXCEPT ![w] = [j EXCEPT !.update = j.result]]
      BY <2>5 DEF UpdateSession
    <3> QED
      BY <1>3, <2>b, <3>1 DEF JobRow
  <2>6. CASE SendPart(w)
    <3>1. job' = [job EXCEPT ![w] = [j EXCEPT !.part = @ + 1]]
      BY <2>6 DEF SendPart, NextPart
    <3>2. j.part + 1 \in 1 .. MaxParts + 1
      BY <1>3, <2>6, WorkerAssumption DEF SendPart, JobRow, PostingOK
    <3> QED
      BY <1>3, <3>1, <3>2 DEF JobRow
  <2>7. CASE Rollback(w) /\ ~Leave(w)
    <3>1. job' = [job EXCEPT ![w] = [j EXCEPT !.update = None]]
      BY <2>7 DEF Rollback
    <3> QED
      BY <1>3, <3>1 DEF JobRow
  <2> QED
    BY <2>b, <2>1, <2>2, <2>3, <2>4, <2>5, <2>6, <2>7 DEF Work, Fail, Load,
       Finish, Notify, SendFails, BreakOff, Raise, CommitAnswerLost, Kill, Dies
<1>10. \A v \in Workers : pc'[v] \in Running =>
         job'[v].task \in Tasks /\ job'[v].conv \in Ids
  <2>1. pc'[w] \in Running => job'[w].task \in Tasks /\ job'[w].conv \in Ids
    BY <1>3, OwnJob, NextTask DEF Job
  <2> QED
    BY <2>1, Others DEF TypeOK
<1> QED
  BY <1>1, <1>2, <1>4, <1>5, <1>6, <1>7, <1>8, <1>9, <1>10 DEF TypeOK

-----------------------------------------------------------------------------
(* The posts, the rows, the sessions and the workers always agree.         *)
THEOREM Invariance == Spec => []IInv
<1>1. Init => IInv
  <2> SUFFICES ASSUME Init PROVE IInv
    OBVIOUS
  <2> USE DEF Init, Inbox!Init
  <2>1. Inbox!TypeOK /\ Inbox!Consistent
    BY DEF Inbox!TypeOK, Inbox!Consistent
  <2>2. NoJob \in JobRow
    BY WorkerAssumption DEF NoJob, Job, JobRow
  <2>3. TypeOK
    BY <2>1, <2>2 DEF TypeOK
  <2>4. OneRunEach /\ PostingOK /\ SessionsOwned
    BY DEF OneRunEach, Recorded, PostingOK, SessionsOwned
  <2>5. PartsInOrder /\ SentMeansDelivered
    BY DEF PartsInOrder, SentMeansDelivered
  <2> QED
    BY <2>1, <2>3, <2>4, <2>5 DEF IInv
<1>2. IInv /\ [Next]_vars => IInv'
  <2> SUFFICES ASSUME IInv, [Next]_vars PROVE IInv'
    OBVIOUS
  <2>1. ASSUME NEW w \in Workers, Work(w) \/ Fail(w) PROVE IInv'
    <3>1. Inbox!Consistent'
      BY <2>1, Others DEF IInv, inboxVars, Inbox!Consistent
    <3> QED
      BY <2>1, <3>1, TypeStep, RunsStep, PostingStep, OwnedStep, SentStep
      DEF IInv
  <2>2. CASE UNCHANGED vars
    BY <2>2 DEF vars, inboxVars, workerVars, dbVars, outerVars, IInv, TypeOK,
       Inbox!TypeOK, Inbox!Consistent, OneRunEach, Taken, TaskAt, Recorded,
       PostingOK, SessionsOwned, PartsInOrder, SentMeansDelivered
  <2> QED
    BY <2>1, <2>2, EnvironmentKeeps DEF Next, Quiescent
<1> QED
  BY <1>1, <1>2, PTL DEF Spec

THEOREM TypeCorrect == Spec => []TypeOK
BY Invariance, PTL DEF IInv

(* No part of an answer reaches its user twice, or before an earlier one.  *)
THEOREM AnswersInOrder == Spec => []PartsInOrder
BY Invariance, PTL DEF IInv

(* A row says SENT only of an answer that arrived whole.                   *)
THEOREM SentIsTrue == Spec => []SentMeansDelivered
BY Invariance, PTL DEF IInv

(* No user's messages get into the session of another user's conversation. *)
THEOREM SessionsSeparate == Spec => []SessionBelongs
<1>1. IInv => SessionBelongs
  <2> SUFFICES ASSUME IInv, NEW row \in conversations,
                      NEW t \in Remembered(session[row.id])
               PROVE  Owner(t) = row.user
    BY DEF SessionBelongs
  <2> DEFINE s == session[row.id]
  <2>1. row.id \in Ids /\ s # None /\ t \in transcript[s]
    BY DEF IInv, TypeOK, Inbox!TypeOK, Inbox!ConversationRow, Remembered
  <2>2. s \in Tasks
    BY <2>1 DEF IInv, TypeOK
  <2>3. Owner(t) = Owner(s)
    BY <2>1, <2>2 DEF IInv, SessionsOwned
  <2>4. [id |-> row.id, user |-> Owner(s)] \in conversations
    BY <2>1 DEF IInv, SessionsOwned
  <2> QED
    BY <2>3, <2>4 DEF IInv, Inbox!Consistent
<1> QED
  BY <1>1, Invariance, PTL

(* The session of a conversation changes only together with the row of an  *)
(* answer given in the new one.                                            *)
THEOREM SessionsMove == Spec => SessionMovesWithAnswer
<1>1. IInv /\ [Next]_vars => [\A c \in Ids : session'[c] # session[c] =>
         \E row \in outbound' \ outbound :
           row.conv = c /\ row.session = session'[c]]_vars
  <2> SUFFICES ASSUME IInv, [Next]_vars, NEW c \in Ids,
                      session'[c] # session[c]
               PROVE  \E row \in outbound' \ outbound :
                        row.conv = c /\ row.session = session'[c]
    OBVIOUS
  <2>1. PICK w \in Workers : Work(w) \/ Fail(w)
    BY DEF Next, Quiescent, Arrive, HandOver, workerVars, vars, dbVars
  <2> DEFINE j == job[w]
             row == [task |-> j.task, conv |-> j.conv, session |-> j.result,
                     parts |-> j.parts,
                     status |-> IF j.part > j.parts THEN "sent" ELSE "failed"]
  <2>2. pc[w] = "store" /\ CommitRows(w)
    BY <2>1, Records DEF dbVars
  <2>3. row \in outbound' \ outbound
    BY <2>2 DEF CommitRows, IInv, OneRunEach, Recorded
  <2>4. j.update # None /\ c = j.conv /\ session'[c] = j.update
    BY <2>2 DEF CommitRows, IInv, TypeOK
  <2>5. j.update = j.result
    BY <2>2, <2>4 DEF IInv, SessionsOwned
  <2> QED
    BY <2>3, <2>4, <2>5
<1> QED
  BY <1>1, Invariance, PTL DEF Spec, SessionMovesWithAnswer

-----------------------------------------------------------------------------
(* What continuity needs: while a task runs, the row keeps the session the *)
(* task loaded, and that session had every answer recorded till then.      *)
Continues(w) ==
  LET j == job[w] IN
  /\ pc[w] \in {"claude", "update", "send", "store"} =>
       /\ j.seen = session[j.conv]
       /\ \A row \in outbound :
            row.conv = j.conv /\ row.session # None => row.task \in j.context
  /\ pc[w] \in {"update", "send", "store"} /\ j.result # None =>
       j.context \cup {j.task} \subseteq transcript[j.result]
  /\ pc[w] \in {"send", "store"} =>
       j.update = IF j.result \in {None, j.seen} THEN None ELSE j.result

Continuity == SessionRemembersAnswers /\ \A w \in Workers : Continues(w)

(* A Claude session forgets nothing.                                       *)
LEMMA TranscriptGrows ==
  ASSUME TypeOK, NEW w \in Workers, Work(w) \/ Fail(w), NEW s \in Tasks
  PROVE  transcript[s] \subseteq transcript'[s]
<1>1. UNCHANGED transcript \/ \E x : Remembers(w, x)
  BY DEF Work, Fail, Take, Load, RunClaude, Writes, UpdateSession, SendPart,
     Finish, Notify, SendFails, Raise, CommitAnswerLost, Kill, outerVars
<1>2. ASSUME NEW x, Remembers(w, x) PROVE transcript[s] \subseteq transcript'[s]
  BY <1>2 DEF Remembers, TypeOK
<1> QED
  BY <1>1, <1>2

(* A worker that has its conversation for itself is not disturbed by what  *)
(* another does for its own.                                               *)
LEMMA OthersContinue ==
  ASSUME IInv, Continuity, OneAtATime, NEW w \in Workers, Work(w) \/ Fail(w),
         NEW v \in Workers \ {w}
  PROVE  Continues(v)'
<1> DEFINE k == job[v]
<1>1. pc'[v] = pc[v] /\ job'[v] = k
  BY Others DEF IInv
<1>2. CASE pc[v] \notin {"claude", "update", "send", "store"}
  BY <1>1, <1>2 DEF Continues
<1>3. CASE pc[v] \in {"claude", "update", "send", "store"}
  <2>1. k.conv \in Ids /\ k.result \in Tasks \cup {None} /\ Continues(v)
    BY <1>3 DEF IInv, TypeOK, JobRow, Continuity
  <2>2. /\ session'[k.conv] = session[k.conv]
        /\ \A row \in outbound' : row.conv = k.conv => row \in outbound
    <3>1. CASE UNCHANGED dbVars
      BY <3>1 DEF dbVars
    <3>2. CASE pc[w] = "store" /\ CommitRows(w)
      <4>1. job[w].conv # k.conv
        BY <1>3, <3>2 DEF OneAtATime
      <4> QED
        BY <2>1, <3>2, <4>1 DEF CommitRows, IInv, TypeOK
    <3> QED
      BY <3>1, <3>2, Records
  <2>3. k.result # None => transcript[k.result] \subseteq transcript'[k.result]
    BY <2>1, TranscriptGrows DEF IInv
  <2> QED
    BY <1>1, <2>1, <2>2, <2>3 DEF Continues
<1> QED
  BY <1>2, <1>3

LEMMA ContinuityStep ==
  ASSUME IInv, Continuity, OneAtATime, NEW w \in Workers, Work(w) \/ Fail(w)
  PROVE  Continuity'
<1> DEFINE j == job[w]
<1> USE DEF IInv
<1>a. /\ j \in JobRow
      /\ pc[w] \in Running => j.task \in Tasks /\ j.conv \in Ids
      /\ \A row \in outbound : row.conv \in Ids
      /\ session \in [Ids -> Tasks \cup {None}]
  BY DEF TypeOK, OutboundRow
<1> SUFFICES SessionRemembersAnswers' /\ Continues(w)'
  BY OthersContinue DEF Continuity
<1>1. CASE Take(w) \/ Notify(w) \/ Kill(w) \/ Raise(w) \/ (Load(w) /\ Leave(w))
  <2>1. pc'[w] \in {"idle", "load", "notify"} /\ UNCHANGED <<dbVars, transcript>>
    BY <1>1 DEF Take, Notify, Kill, Raise, Load, Rollback, Dies, Leave, Goto,
       TypeOK, outerVars
  <2> QED
    BY <2>1 DEF Continuity, Continues, SessionRemembersAnswers, Remembered, dbVars
<1>2. CASE Load(w) /\ ~Leave(w)
  <2>1. /\ pc'[w] = "claude" /\ UNCHANGED <<dbVars, transcript>>
        /\ job'[w].seen = session[j.conv] /\ job'[w].conv = j.conv
        /\ job'[w].context = Remembered(session[j.conv])
    BY <1>2 DEF Load, Resume, Goto, TypeOK, JobRow, outerVars
  <2> QED
    BY <2>1 DEF Continuity, Continues, SessionRemembersAnswers, Remembered, dbVars
<1>3. CASE RunClaude(w)
  <2>1. PICK s \in {j.seen, j.task, None} :
          /\ job'[w].seen = j.seen /\ job'[w].conv = j.conv
          /\ job'[w].context = j.context /\ job'[w].task = j.task
          /\ job'[w].result = s
          /\ \/ s # None /\ Remembers(w, s)
             \/ s = None /\ j.seen # None /\ Remembers(w, j.seen)
             \/ s = None /\ UNCHANGED transcript
          /\ pc[w] = "claude" /\ pc'[w] = "update" /\ UNCHANGED dbVars
    BY <1>3 DEF RunClaude, Writes, Goto, TypeOK, JobRow
  <2>2. \A r \in Tasks : transcript[r] \subseteq transcript'[r]
    BY TranscriptGrows
  <2>3. s # None => j.context \cup {j.task} \subseteq transcript'[s]
    BY <1>a, <2>1 DEF Remembers, TypeOK, JobRow
  <2>4. SessionRemembersAnswers'
    BY <1>a, <2>1, <2>2
    DEF Continuity, Continues, SessionRemembersAnswers, Remembered, dbVars
  <2> QED
    BY <2>1, <2>3, <2>4 DEF Continuity, Continues, dbVars
<1>4. CASE UpdateSession(w)
  <2>1. /\ job'[w].seen = j.seen /\ job'[w].conv = j.conv
        /\ job'[w].context = j.context /\ job'[w].task = j.task
        /\ job'[w].result = j.result
        /\ job'[w].update = IF j.result \in {None, j.seen} THEN j.update
                            ELSE j.result
        /\ pc[w] = "update" /\ pc'[w] = "send"
        /\ UNCHANGED <<dbVars, transcript>>
    BY <1>4 DEF UpdateSession, Goto, TypeOK, JobRow, outerVars
  <2>2. j.update = None
    BY <2>1 DEF SessionsOwned
  <2> QED
    BY <2>1, <2>2
    DEF Continuity, Continues, SessionRemembersAnswers, Remembered, dbVars
<1>5. CASE SendPart(w) \/ SendFails(w)
  <2>1. /\ job'[w].seen = j.seen /\ job'[w].conv = j.conv
        /\ job'[w].context = j.context /\ job'[w].task = j.task
        /\ job'[w].result = j.result /\ job'[w].update = j.update
        /\ pc[w] = "send" /\ pc'[w] \in {"send", "store"}
        /\ UNCHANGED <<dbVars, transcript>>
    BY <1>5 DEF SendPart, SendFails, NextPart, BreakOff, Goto, TypeOK, JobRow
  <2> QED
    BY <2>1 DEF Continuity, Continues, SessionRemembersAnswers, Remembered, dbVars
<1>6. CASE Finish(w) \/ CommitAnswerLost(w)
  <2>1. /\ pc[w] = "store" /\ CommitRows(w) /\ UNCHANGED transcript
        /\ pc'[w] \in {"idle", "notify"}
    BY <1>6 DEF Finish, CommitAnswerLost, Rollback, Leave, Goto, TypeOK,
       outerVars
  <2>2. session'[j.conv] = IF j.result = None THEN session[j.conv] ELSE j.result
    BY <1>a, <2>1 DEF CommitRows, Continuity, Continues
  <2>3. \A c \in Ids \ {j.conv} : session'[c] = session[c]
    BY <1>a, <2>1 DEF CommitRows
  <2>4. ASSUME NEW row \in outbound', row.session # None
        PROVE  row.task \in Remembered(session[row.conv])'
    <3>1. CASE row \in outbound /\ row.conv # j.conv
      BY <1>a, <2>1, <2>3, <2>4, <3>1
      DEF Continuity, Continues, SessionRemembersAnswers, Remembered
    <3>2. CASE row \in outbound /\ row.conv = j.conv
      BY <2>1, <2>2, <2>4, <3>2
      DEF Continuity, Continues, SessionRemembersAnswers, Remembered
    <3>3. CASE row \notin outbound
      <4>1. row.task = j.task /\ row.conv = j.conv /\ row.session = j.result
        BY <2>1, <3>3 DEF CommitRows
      <4> QED
        BY <2>1, <2>2, <2>4, <4>1 DEF Continuity, Continues, Remembered
    <3> QED
      BY <3>1, <3>2, <3>3
  <2> QED
    BY <2>1, <2>4 DEF Continuity, Continues, SessionRemembersAnswers
<1> QED
  BY <1>1, <1>2, <1>3, <1>4, <1>5, <1>6 DEF Work, Fail

(* Through every failure a conversation keeps its context, beside any      *)
(* number of workers, while no two of them have the same conversation:     *)
(* what users who do not wait for their answers take away.                 *)
THEOREM ContextIsKept == Spec => ContextKept
<1>1. Init => Continuity
  BY DEF Init, Continuity, Continues, SessionRemembersAnswers
<1>2. IInv /\ OneAtATime /\ Continuity /\ [Next]_vars => Continuity'
  <2> SUFFICES ASSUME IInv, OneAtATime, Continuity, [Next]_vars
               PROVE  Continuity'
    OBVIOUS
  <2>1. ASSUME NEW w \in Workers, Work(w) \/ Fail(w) PROVE Continuity'
    BY <2>1, ContinuityStep
  <2>2. CASE UNCHANGED workerVars
    BY <2>2 DEF workerVars, dbVars, outerVars, Continuity, Continues,
       SessionRemembersAnswers, Remembered
  <2> QED
    BY <2>1, <2>2 DEF Next, Arrive, HandOver, Quiescent, vars
<1>3. Continuity => SessionRemembersAnswers
  BY DEF Continuity
<1> QED
  BY <1>1, <1>2, <1>3, Invariance, PTL DEF Spec, ContextKept

-----------------------------------------------------------------------------
(* What Claude and the users heard of, or may come to hear of by a session *)
(* a worker resumes, is the message of a task that was taken.              *)
Started(m) == \E t \in Tasks : t[1] = m /\ Taken(t)

HeardTaken ==
  /\ \A m \in Messages : notice[m] => Started(m)
  /\ \A s \in Tasks : \A t \in transcript[s] : Taken(t)
  /\ \A w \in Workers : \A t \in job[w].context : Taken(t)

LEMMA HeardStep ==
  ASSUME IInv, HeardTaken, NEW w \in Workers, Work(w) \/ Fail(w)
  PROVE  HeardTaken'
<1> DEFINE j == job[w]
<1>1. \A t : Taken(t) => Taken(t)'
  BY TakenStays DEF IInv
<1>2. /\ pc[w] \in Running => j.task \in Tasks /\ Taken(j.task)
      /\ j \in JobRow
  BY DEF IInv, TypeOK, OneRunEach
<1>3. \A m \in Messages : notice'[m] => Started(m)'
  <2>1. \/ UNCHANGED notice
        \/ pc[w] = "notify" /\ notice' = [notice EXCEPT ![j.task[1]] = TRUE]
    BY DEF Work, Fail, Take, Load, RunClaude, UpdateSession, SendPart, Finish,
       Notify, SendFails, Raise, CommitAnswerLost, Kill, outerVars
  <2> QED
    BY <1>1, <1>2, <2>1 DEF HeardTaken, Started, IInv, TypeOK
<1>4. \A s \in Tasks : \A t \in transcript'[s] : Taken(t)'
  <2>1. \/ UNCHANGED transcript
        \/ pc[w] = "claude" /\ \E s \in {j.seen, j.task} : Remembers(w, s)
    BY DEF Work, Fail, Take, Load, RunClaude, Writes, UpdateSession, SendPart,
       Finish, Notify, SendFails, Raise, CommitAnswerLost, Kill, outerVars
  <2>2. ASSUME pc[w] = "claude", NEW x, Remembers(w, x), NEW s \in Tasks,
               NEW t \in transcript'[s]
        PROVE  Taken(t)
    <3>1. t \in transcript[s] \cup j.context \cup {j.task}
      BY <2>2 DEF Remembers, IInv, TypeOK
    <3> QED
      BY <1>2, <2>2, <3>1 DEF HeardTaken
  <2> QED
    BY <1>1, <2>1, <2>2 DEF HeardTaken
<1>5. \A v \in Workers : \A t \in job'[v].context : Taken(t)'
  <2>1. \A v \in Workers \ {w} : job'[v] = job[v]
    BY Others DEF IInv
  <2>2. \/ job'[w].context \in {j.context, {}}
        \/ job'[w].context = Remembered(session[j.conv]) /\ pc[w] = "load"
    <3> USE DEF IInv, TypeOK, JobRow
    <3>1. CASE Work(w)
      BY <3>1 DEF Work, Take, Job, Load, Resume, Leave, NoJob, RunClaude,
         UpdateSession, SendPart, NextPart, Finish, Notify
    <3>2. CASE Fail(w)
      BY <3>2 DEF Fail, SendFails, BreakOff, Raise, Rollback, CommitAnswerLost,
         Kill, Dies, Leave, NoJob, Job
    <3> QED
      BY <3>1, <3>2
  <2>3. pc[w] = "load" => \A t \in Remembered(session[j.conv]) : Taken(t)
    <3>1. pc[w] = "load" => session[j.conv] \in Tasks \cup {None}
      BY DEF IInv, TypeOK
    <3> QED
      BY <3>1 DEF Remembered, HeardTaken
  <2>4. \A t \in job'[w].context : Taken(t)
    BY <2>2, <2>3 DEF HeardTaken
  <2> QED
    BY <1>1, <2>1, <2>4 DEF HeardTaken
<1> QED
  BY <1>3, <1>4, <1>5 DEF HeardTaken

(* The environment takes no task back.                                     *)
LEMMA TakenKept ==
  ASSUME IInv, NEW n \in Messages, Arrive(n) \/ HandOver(n)
  PROVE  \A t : Taken(t)' <=> Taken(t)
<1>1. UNCHANGED next /\ next - 1 <= Len(broker) /\ next \in Nat
      /\ Len(broker) \in Nat
  BY DEF Arrive, HandOver, workerVars, IInv, TypeOK, Inbox!TypeOK
<1>2. \A i \in 1 .. Len(broker) : broker'[i] = broker[i]
  BY InboxKeeps DEF Arrive, HandOver, IInv, TypeOK
<1>3. \A i \in 1 .. next - 1 : broker'[i] = broker[i]
  BY <1>1, <1>2
<1> QED
  BY <1>1, <1>3 DEF Taken, TaskAt

(* Nothing is heard of a message of which no worker took a task.           *)
OnlyTakenHeard == \A m \in Messages : Heard(m) => Started(m)

THEOREM HeardIsTaken == Spec => []OnlyTakenHeard
<1>1. Init => HeardTaken
  BY DEF Init, HeardTaken, NoJob, Job
<1>2. IInv /\ HeardTaken /\ [Next]_vars => HeardTaken'
  <2> SUFFICES ASSUME IInv, HeardTaken, [Next]_vars PROVE HeardTaken'
    OBVIOUS
  <2>1. ASSUME NEW n \in Messages, Arrive(n) \/ HandOver(n) PROVE HeardTaken'
    <3>1. UNCHANGED <<notice, transcript, job>>
      BY <2>1 DEF Arrive, HandOver, workerVars, outerVars
    <3>2. \A t : Taken(t)' <=> Taken(t)
      BY <2>1, TakenKept
    <3> QED
      BY <3>1, <3>2 DEF HeardTaken, Started
  <2>2. CASE UNCHANGED vars
    BY <2>2 DEF vars, inboxVars, workerVars, outerVars, HeardTaken,
       Started, Taken, TaskAt
  <2> QED
    BY <2>1, <2>2, HeardStep DEF Next, Quiescent
<1>3. IInv /\ HeardTaken => OnlyTakenHeard
  <2> SUFFICES ASSUME IInv, HeardTaken, NEW m \in Messages, Heard(m)
               PROVE  Started(m)
    BY DEF OnlyTakenHeard
  <2>1. CASE notice[m]
    BY <2>1 DEF HeardTaken
  <2>2. ASSUME NEW t \in Tasks, t[1] = m, posted[t] # <<>> PROVE Started(m)
    BY <2>2 DEF IInv, OneRunEach, Started
  <2>3. ASSUME NEW s \in Tasks, NEW t \in transcript[s], t[1] = m
        PROVE  Started(m)
    <3>1. t \in Tasks
      BY DEF IInv, TypeOK
    <3> QED
      BY <2>3, <3>1 DEF HeardTaken, Started
  <2> QED
    BY <2>1, <2>2, <2>3 DEF Heard, Told
<1> QED
  BY <1>1, <1>2, <1>3, Invariance, PTL DEF Spec

-----------------------------------------------------------------------------
(* A task that was taken is in work until its user was told something; who *)
(* is about to record an answer has posted some of it.                     *)
AtWork(t) == \E w \in Workers : pc[w] \in Running /\ job[w].task = t
Ended(t)  == posted[t] # <<>> \/ notice[t[1]]

TakenTold == \A t \in Tasks : Taken(t) => AtWork(t) \/ Ended(t)

InHand ==
  /\ TakenTold
  /\ \A w \in Workers : pc[w] = "store" => posted[job[w].task] # <<>>

LEMMA InHandStep ==
  ASSUME Faults \subseteq {"raise", "commit_ack"},
         IInv, InHand, NEW w \in Workers, Work(w) \/ Fail(w)
  PROVE  InHand'
<1> DEFINE j == job[w]
<1>1. ~SendFails(w) /\ ~Kill(w)
  BY DEF SendFails, Kill
<1>2. pc[w] \in Running =>
        /\ j.task \in Tasks /\ j.conv \in Ids /\ j \in JobRow
        /\ \E row \in conversations : row.id = j.conv
  BY DEF IInv, TypeOK, SessionsOwned
<1>3. UNCHANGED posted \/ (SendPart(w) /\ pc[w] = "send" /\ Arrives(w))
  BY <1>1, Posts
<1>4. ASSUME NEW t \in Tasks
      PROVE  /\ posted[t] # <<>> => posted'[t] # <<>>
             /\ notice[t[1]] => notice'[t[1]]
  <2>1. posted[t] # <<>> => posted'[t] # <<>>
    <3>1. CASE SendPart(w) /\ pc[w] = "send" /\ Arrives(w)
      <4>1. posted'[t] = IF t = j.task THEN Append(posted[t], j.part)
                                      ELSE posted[t]
        BY <1>2, <3>1 DEF Arrives, IInv, TypeOK
      <4>2. posted[t] \in Seq(1 .. MaxParts)
        BY DEF IInv, TypeOK
      <4>3. Len(Append(posted[t], j.part)) = Len(posted[t]) + 1
        BY <4>2
      <4> QED
        BY <4>1, <4>2, <4>3
    <3> QED
      BY <1>3, <3>1
  <2>2. notice[t[1]] => notice'[t[1]]
    BY TaskHasMessage DEF IInv, TypeOK, Work, Fail, Take, Load, RunClaude,
       UpdateSession, SendPart, Finish, Notify, SendFails, Raise,
       CommitAnswerLost, Kill, outerVars
  <2> QED
    BY <2>1, <2>2
<1>5. pc'[w] = "store" => posted'[j.task] # <<>> /\ job'[w].task = j.task
  <2>1. SUFFICES ASSUME pc'[w] = "store"
                 PROVE  posted'[j.task] # <<>> /\ job'[w].task = j.task
    OBVIOUS
  <2>2. SendPart(w) /\ pc[w] = "send"
    BY <1>1, <2>1 DEF IInv, TypeOK, Work, Fail, Take, Load, RunClaude,
       UpdateSession, SendPart, Finish, Notify, Raise, CommitAnswerLost,
       Leave, Rollback, Goto
  <2>3. posted' = [posted EXCEPT ![j.task] = Append(@, j.part)]
    BY <2>2 DEF SendPart, Arrives
  <2>4. posted[j.task] \in Seq(1 .. MaxParts)
    BY <1>2, <2>2 DEF IInv, TypeOK
  <2>5. posted'[j.task] # <<>>
    <3>1. posted'[j.task] = Append(posted[j.task], j.part)
      BY <1>2, <2>2, <2>3 DEF IInv, TypeOK
    <3> QED
      BY <2>4, <3>1
  <2> QED
    BY <2>1, <2>2, <2>5, OwnJob DEF IInv
<1>6. \A v \in Workers : pc'[v] = "store" => posted'[job'[v].task] # <<>>
  <2>1. ASSUME NEW v \in Workers \ {w}, pc'[v] = "store"
        PROVE  posted'[job'[v].task] # <<>>
    <3>1. pc[v] = "store" /\ job'[v] = job[v] /\ job[v].task \in Tasks
      BY <2>1, Others DEF IInv, TypeOK
    <3> QED
      BY <1>4, <3>1 DEF InHand
  <2> QED
    BY <1>5, <2>1
<1>7. ASSUME NEW t \in Tasks, Taken(t)' PROVE AtWork(t)' \/ Ended(t)'
  <2>1. CASE ~Taken(t)
    <3>1. UNCHANGED broker /\ next \in Nat
      BY Others DEF IInv, TypeOK, inboxVars
    <3>2. /\ job'[w] = Job(TaskAt(next), broker[next].conv) /\ pc'[w] = "load"
          /\ next' = next + 1
      BY <1>7, <2>1, <3>1, OwnJob DEF IInv, Taken, TaskAt
    <3>3. t = TaskAt(next)
      BY <1>7, <2>1, <3>1, <3>2 DEF Taken, TaskAt
    <3> QED
      BY <3>2, <3>3 DEF AtWork, Job
  <2>2. CASE Ended(t)
    BY <1>4, <2>2 DEF Ended
  <2>3. ASSUME NEW v \in Workers, pc[v] \in Running, job[v].task = t
        PROVE  AtWork(t)' \/ Ended(t)'
    <3>1. CASE v # w
      BY <2>3, <3>1, Others DEF IInv, AtWork
    <3>2. CASE v = w /\ pc'[w] \in Running
      BY <2>3, <3>2, OwnJob DEF IInv, AtWork
    <3>3. CASE v = w /\ pc'[w] \notin Running
      <4>1. Load(w) \/ Finish(w) \/ Notify(w)
        BY <1>1, <2>3, <3>3 DEF IInv, TypeOK, Work, Fail, Take, RunClaude,
           UpdateSession, SendPart, NextPart, Raise, CommitAnswerLost,
           Rollback, Goto
      <4>2. CASE Load(w)
        BY <1>2, <2>3, <3>3, <4>2 DEF IInv, TypeOK, Load, Goto
      <4>3. CASE Finish(w)
        <5>1. pc[w] = "store" /\ UNCHANGED posted
          BY <4>3 DEF Finish, outerVars
        <5> QED
          BY <2>3, <3>3, <5>1 DEF InHand, Ended
      <4>4. CASE Notify(w)
        BY <2>3, <3>3, <4>4, TaskHasMessage DEF IInv, TypeOK, Notify, Ended
      <4> QED
        BY <4>1, <4>2, <4>3, <4>4
    <3> QED
      BY <3>1, <3>2, <3>3 DEF IInv, TypeOK
  <2> QED
    BY <2>1, <2>2, <2>3 DEF InHand, TakenTold, AtWork
<1> QED
  BY <1>6, <1>7 DEF InHand, TakenTold

(* While Meta takes every post, no child is killed and no rollback raises, *)
(* no task that was taken is dropped without a word.                       *)
THEOREM NoTaskDropped ==
  ASSUME Faults \subseteq {"raise", "commit_ack"}
  PROVE  Spec => []TakenTold
<1>1. Init => InHand
  BY DEF Init, InHand, TakenTold, Taken
<1>2. IInv /\ InHand /\ [Next]_vars => InHand'
  <2> SUFFICES ASSUME IInv, InHand, [Next]_vars PROVE InHand'
    OBVIOUS
  <2>1. ASSUME NEW n \in Messages, Arrive(n) \/ HandOver(n) PROVE InHand'
    <3>1. UNCHANGED <<pc, job, posted, notice>>
      BY <2>1 DEF Arrive, HandOver, workerVars, outerVars
    <3>2. \A t : Taken(t)' <=> Taken(t)
      BY <2>1, TakenKept
    <3> QED
      BY <3>1, <3>2 DEF InHand, TakenTold, AtWork, Ended
  <2>2. CASE UNCHANGED vars
    BY <2>2 DEF vars, inboxVars, workerVars, outerVars, InHand, TakenTold,
       Taken, TaskAt, AtWork, Ended
  <2> QED
    BY <2>1, <2>2, InHandStep DEF Next, Quiescent
<1>3. InHand => TakenTold
  BY DEF InHand
<1> QED
  BY <1>1, <1>2, <1>3, Invariance, PTL DEF Spec

=============================================================================
