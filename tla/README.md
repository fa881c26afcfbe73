# Code Messaging Bridge: TLA+ verification

The bridge lets a WhatsApp user talk to the Claude Code CLI. Meta posts each
message to a FastAPI server, which stores it in PostgreSQL and publishes a
task to Redis; a Celery worker on the developer's machine takes the task, runs
`claude -p ... --resume <session>`, and posts the answer, cut into parts, back
through Meta's Graph API. This directory models that pipeline in TLA+, checks
it with TLC and proves its safety properties with TLAPS.

Paths below are relative to the repository's `src/code_messaging_bridge/`.

## 1. Inventory

| Part | State | Operations | Talks to |
|---|---|---|---|
| Webhook endpoint, `api/webhooks.py` | one coroutine, one session, one transaction per request | `whatsapp_webhook`, `whatsapp_webhook_verify` | provider, limiter, ConversationService, Redis |
| RateLimiter, `rate_limiter.py` | `_requests`: time stamps per number, per process | `is_allowed` | webhook |
| ConversationService, `services/conversation_service.py` | rows of `conversations`, `messages` | `message_exists`, `get_or_create_conversation`, `store_inbound_message`; three more without callers | PostgreSQL |
| Request sessions, `db/session.py`, `api/dependencies.py` | open transaction | `get_async_session` | webhook |
| Celery task, `workers/tasks.py`, `workers/celery_app.py` | one synchronous session per task, two children | `process_whatsapp_message`, `_send_error_message` | Redis, processor, Meta |
| MessageProcessor, `services/processor.py` | the loaded conversation, the result, the loop over the parts | `process_message`, `_send_whatsapp_response` | runner, splitter, PostgreSQL, Meta |
| ClaudeCodeRunner, `services/claude/runner.py` | loop variable, last result | `invoke_with_retry`, `invoke`, `_parse_output` | the CLI |
| MessageSplitter, `services/messaging/message_splitter.py` | none | `split` | processor |
| ResponseFormatter, `services/claude/response_formatter.py` | none | `format` | processor |
| MetaWhatsAppProvider, `services/messaging/meta_whatsapp.py` | none | `validate_webhook`, `parse_inbound`, `verify_challenge`; `send_message` has no caller | webhook |
| Health endpoint, `api/health.py` | none | `health_check` | PostgreSQL, Redis, Celery |
| Models and migrations, `models/`, `db/migrations/` | schema, two unique constraints | | PostgreSQL |
| Configuration, factory, logging | settings read once | | everything |

What is hard here, and untested by the repository's suite (its tests mock the
session, Celery, `subprocess` and httpx one at a time):

* **Concurrent deliveries.** Meta repeats a message whenever it did not like
  the answer. Deliveries run as coroutines of one process; each `await` lets
  another run. Correctness rests on two unique constraints and on what a
  handler does after it lost a race for one.
* **Partial failure.** The commit and the publication of the task are two
  steps; either may fail, or succeed without the server learning of it, and a
  publication whose answer was lost is repeated by Celery's client.
* **Two workers, one conversation.** The id of the Claude session is read
  before a run that takes minutes and written after it.
* **Killed workers.** Celery's hard limit kills a child with its transaction
  open and some parts of an answer posted.
* **What a payload holds.** Meta posts trees of entries, changes and messages;
  the bridge reads one message of one and acknowledges the whole.
* **Boundaries.** The sliding window, the last round of the retry loop, the
  cut points and the prefix of a split.

`PROJECT.json` lists each of these as a hazard at its line, with the
properties that would catch it going wrong.

## 2. Modules

| Module | Models | Checked by | Proved in |
|---|---|---|---|
| `DurableInbox` | what the webhook side promises: accept a message, hand it over | through `MetaDelivery` | |
| `WebhookIngest` | `whatsapp_webhook`, `ConversationService`, transactions | through `MetaDelivery` | `WebhookIngest_proofs` |
| `MetaDelivery` | payloads, signature, `parse_inbound`, the limiter in its place, restarts | `MCMetaDelivery` | `MetaDelivery_proofs` |
| `MessageWorker` | the task, the processor, Claude sessions, Meta's posts | `MCMessageWorker` | `MessageWorker_proofs` |
| `ClaudeRunner` | the retry loop under both time limits | `MCClaudeRunner` | `ClaudeRunner_proofs` |
| `RateLimiter` | `is_allowed` over a clock | `MCRateLimiter` | `RateLimiter_proofs` |
| `MessageSplitter` | `split` | through `AnswerText` | `MessageSplitter_proofs` |
| `AnswerText` | `format`, the apology, and what reaches `split` | `MCAnswerText` | `AnswerText_proofs` |
| `Bridge` | server and workers over the same tables and broker | `MCBridge` | `Bridge_proofs` |

How they are composed:

* `MetaDelivery` extends `WebhookIngest` and instantiates `RateLimiter`: its
  steps are those of the handler, with the two verdicts that `WebhookIngest`
  leaves open (what a payload holds, whether the number is over its limit)
  taken by the provider and by the limiter. `ImplementsIngest` proves that this
  is `WebhookIngest`, so every theorem about the one holds of the other.
* `WebhookIngest` implements `DurableInbox` by the identity on the three shared
  variables (`conversations`, `messages`, `broker`), with the requests for the
  primary keys.
* `MessageWorker` instantiates `DurableInbox` as its environment: a worker sees
  tasks and rows exactly as the abstract specification lets them appear, which
  the refinement entitles it to.
* `Bridge` puts the two together without that abstraction: the requests of
  `WebhookIngest` and the children of `MessageWorker` share tables and broker,
  and nothing else. `Bridge_proofs` shows that the whole implements each half
  (`ServerAsSpecified`, `WorkersAsSpecified`), so the theorems of both hold of
  it, and proves what neither half can promise: `OnlyAllowedHeard` and
  `NobodyForgotten`.
* `AnswerText` extends `MessageSplitter`, and implements its specification
  (`ImplementsSplitter`): what `format` returns is what `split` may be given.

### WebhookIngest

An action is what the coroutine does from one `await` on shared state to the
next. `pc[r]` is the place in the handler:

| `pc` | Code | Action |
|---|---|---|
| `idle` | `webhooks.py:57-86` | `Dismiss` (no message to process), `Receive`; see `MetaDelivery` |
| `exists` | `message_exists` | `MessageExists` |
| `find` | first `_find_active_conversation` | `FindActiveConversation` |
| `insert` | the `INSERT` of the conversation | `InsertConversation` |
| `refind` | `SELECT` after `IntegrityError` | `RetrySelect` |
| `store` | the `INSERT` of the message | `StoreInboundMessage` |
| `commit` | `db.commit()` | `Commit` |
| `enqueue` | `.delay(...)` and the answer | `Enqueue` |
| `unwind` | session closed after an exception | `Unwind` |

Rows flushed but not committed are `newConvs[r]` and `newMsgs[r]`. PostgreSQL
is external, at its default isolation (READ COMMITTED): a `SELECT` sees
committed rows and the transaction's own; an `INSERT` whose unique key another
open transaction holds waits for that transaction, one whose key is committed
raises `IntegrityError`. Two details of the code matter and are modelled: a
foreign key violation in `store_inbound_message` is the same exception as a
duplicate; and an exception in the handler does not reach the `except` of
`DatabaseSessionManager.get_async_session`, because the dependency iterates over
that generator, so the transaction ends when the generator is finalised, a
step after the answer.

`Faults` selects what the environment may do: fail a statement, lose the answer
of a commit, refuse a task, lose the broker's answer, kill the process. The
client of Celery publishes a task again when the broker refused it or its
answer did not come (`task_publish_retry`, which `celery_app.py` leaves on),
with the same task id, `MaxTries` times in all; only the last failure is an
exception of `.delay`. A try that was refused leaves no trace and is not a
step; `BrokerRefuses` is the exception. After `BrokerAnswerLost` the task is in
the broker, `lost[r]` counts it, and the handler goes on to the next try or, if
it was the last, to the 500. So a message may have several tasks, each a pair
of the message and its try, and a request may be answered 500 for a task that
runs.

### MetaDelivery

A payload is what `parse_inbound` navigates: the sequence of its entries, an
entry being the sequence of its changes (or `None`, the key being absent), a
change the sequence of its messages. A body the code raises on for any other
reason is `None`. `Refuse` is a request without the right signature, whose body is
not read; `Post` an authentic one, which either raises (500), holds no message
(200) or is received. `Limit` puts `RateLimiter!IsAllowed` behind the whitelist, and
ties the handler's 429 to the limiter's verdict. `Restart` is a death of the
process with the start of a new one: transactions, requests in flight and the
limiter's lists are gone, the tables stay. `Proceed` and `Break` are the rest of the
handler and its failures.

### MessageWorker

One child is one `pc[w]`, and one record `job[w]` for the locals of its task
(conversation, the session id as loaded, the result, the part to post next, the
uncommitted `UPDATE`): `load`, `claude`, `update` (the flush of
`claude_session_id`, which takes the row lock), `send` (one step per post),
`store` (insert and commit), `notify` (`_send_error_message`). A Claude session
is external; the model keeps which messages it remembers. A run that resumes a
session may go on writing that session or open one that remembers it, as
`--resume` allows. A run that printed a JSON object may report the session it
wrote, whether or not the object says `is_error`; no other run reports one.
Tasks start in the order of publication, each once: Celery acknowledges a task
when it starts, and `max_retries=0` rules out retries, so a killed task is
gone. Two tasks of one message (`MaxTries`, see `WebhookIngest`) know nothing
of each other: nothing in the worker looks whether a message was answered. An
exception ends in the rollback and the error notice, unless the rollback raises
too (the fault `rollback`): then the task is over without a notice.

### Bridge

Every action is one of a half, with the variables of the other unchanged
(`Receives`, `Serves`, `Fails`, `Crashes` of the server; `Works`, `WorkFails` of a
child). The whitelist is the server's alone: the worker trusts a task, as
`process_whatsapp_message` does. `OnlyAllowedHeard` says what that trust needs.
`NobodyForgotten` follows a message from the acknowledgement to its user: it is in
a handler, in the queue, in work, or its user was told something, or it was
abandoned, by a request that stored it and died or was answered 500 (the
message of `webhook_lost_task`). `WorkerFaults` leaves out what no worker could make
good: a killed child, a rollback that raises, and a Meta that takes no post, the
error notice included.

### ClaudeRunner, RateLimiter, MessageSplitter, AnswerText

`ClaudeRunner` reduces a run of the CLI to the ten outcomes the code tells
apart, with a duration, and counts seconds against the runner's timeout and the
task's hard limit. `RateLimiter` is the code over a clock that need not advance
between calls; `accepted` and `rejected` are history variables. In
`MessageSplitter` a part is an interval of positions of the text, one step is one
call of `_do_split`, and the prefix counts by its length. `AnswerText` makes that
text: an answer is a sequence of plain stretches, images and links, which `format`
renders, truncates and strips; any other result becomes an apology with the
error message behind it.

## 3. Runs

| Run | Question | Instance |
|---|---|---|
| `webhook_faults` | Do payloads, limiter, tables, broker and answers agree whatever fails? Do transactions ever wait in a circle? Does the handler implement `DurableInbox`? | 3 requests, 4 messages of 3 users, 6 payloads, a limit of 2, all faults, restarts, two tries to publish; 422 k states |
| `webhook_delivers` | Does every stored message reach the broker, and does every request end? | 3 requests, 3 messages of 2 users, one not whitelisted; failing database only; fair; 59 k states |
| `webhook_lost_task` | ... and if Redis refuses the task? **violated** | 2 messages, failing broker |
| `webhook_window` | Is a number only refused for messages it sent? **violated** | 2 messages, no faults |
| `worker_faults` | Do posts, rows and sessions agree whatever fails? Does a conversation keep its context while no two children work for it? | 2 workers, a message published up to twice, 3 parts, all faults; 98 k states |
| `worker_continuity` | Does a conversation keep to its own user's sessions? | 2 workers, 3 messages of 2 users, 1 part, all faults but those of a post; 1344 k states |
| `worker_lost_context` | Does a conversation keep its context with two children at work for it? **violated** | 2 workers, no faults |
| `bridge` | Does the user of every stored message hear something, and nobody else? Does the handler give the workers the environment they assume? | 2 requests, 2 messages of 2 users, one not whitelisted, 2 workers, two tries to publish, answers of one part; all faults of the server, exceptions in the workers; fair; 257 k states |
| `runner` | Which runs does the loop make, and when? | the code's constants; 1395 states |
| `runner_limit` | Does a hanging run end in a result? **violated** | the code's constants |
| `rate_limiter` | Is the window exact in both directions? | 2 keys, 2 calls per 3 ticks, 6 calls, 7 ticks; 74 k states |
| `splitter` | Does every answer reach the user whole, in parts that fit, without tearing words or crumbling? | 79 k answers and error messages; 249 k states |

**Bounds.** Three requests are the least with which one transaction waits for a
second while a third sees the outcome, with which a message's original, its
twin in flight and a later repetition meet, and with which a number fills a
limit of two and is refused. The payloads are one message alone, two in one
change, a status update before a message, and an empty list of changes. Two
workers are the code's `worker_concurrency`. In `bridge` two requests are
enough: two twins of a message race each other while the workers are at it, and
the number that is not whitelisted has a message of its own (two messages that
race for one conversation are in `webhook_faults`). Celery's client tries four
times (`MaxTries`); two tries are enough for a second task, for an answer that
is lost before the last try, and for one that is lost in it. With `MaxTries` 2
one message in `worker_faults` is two tasks of one conversation, at work at
once or one after the other; `worker_continuity` has one try, three messages
and two users. The retry loop runs with the real constants; the durations are
0, 1, 30, 290 and 599 seconds, around the points where a sum of runs and
backoffs meets the limit. `MaxTime` and `MaxCalls` of the limiter allow two
full windows in `rate_limiter`, and one tick in which the window moves in
`webhook_delivers`; in `webhook_faults` time stands still, so that every
delivery falls into one window, and a restart is what empties it. The answers
put each kind of delimiter at every place of a window of ten characters, the
prefix is the code's eight; answers that are truncated reach two-digit part
numbers, and error messages, which are not, three-digit ones. Where a theorem
exists the bounds matter no more.

Symmetry is used where no liveness is checked: requests in `webhook_faults`, row
keys in `worker_continuity`, numbers in `rate_limiter`.

**Fairness.** `MetaDelivery!DeliveryFairSpec` has `WF(Proceed(r))` per request:
asyncio resumes every coroutine whose `await` is over, PostgreSQL grants a lock
once it is free, and `Unwind` stands for the finalisation of the generator,
which the event loop schedules. Deliveries and failures are not fair.
`Bridge!BridgeFairSpec` has the same for the handlers (`WF(Serves(r))`), and
`WF(Works(w))` per child: Celery gives a free child the next task, and posts
and runs end because httpx and `subprocess.run` are given timeouts. A lock that
another child holds is released because that child is fair too; Meta and Claude
owe nothing.

**Mutants.** Every property has a mutant, an operator beside the original that
changes it the way a plausible mistake would (a lost `WHERE` clause,
`acks_late`, a commit too early, `find` for `rfind`), for which the run finds
the property violated.

## 4. What the violated runs show

* `webhook_lost_task`. The row is committed before the task is published. If
  Redis refuses it, the request is answered 500; Meta repeats the message;
  `message_exists` finds the row and answers 200. No task is ever published.
  The comment at `api/webhooks.py:88` reads "skip if this message was already
  processed". The same happens when the process dies between the two steps.
* `webhook_window`. `is_allowed` stands before `message_exists`, so every
  repetition of a delivery counts as a message of its number. A number that
  sent one message, repeated as often as the limit allows, has its second one
  refused. `api/webhooks.py:29` says "10 messages per 60 seconds", and
  `tests/test_webhooks.py:251` that a duplicate delivery "should be
  idempotent". What does hold is `RefusedForOwnDeliveries`: neither other
  numbers nor refused deliveries use up the window.
* `worker_lost_context`. Both children load the conversation before either
  commits. Each resumes the same session, or none, and reports its own; the
  second commit overwrites the first, and the next run resumes a session that
  does not know the other answer. `docs/plan.md:231` promises the context.
  `ContextKept` (run `worker_faults`, theorem `ContextIsKept`) says what does
  hold: a conversation keeps its context, beside any number of others, as long
  as no two children work for it at once, as when its user awaits each answer.
* `runner_limit`. The task's hard limit (`celery_app.py:18`) and one run's
  timeout (`runner.py:23`) are both 600 seconds, and the task starts first. A
  hanging run ends with the child killed: no apology, no row.
  `docs/plan.md:253` promises "friendly WhatsApp error messages (not crashes)".
  `OnlyFirstRunTimesOut` says how little is left: no run after a retry can end
  in its own timeout.

Seen while modelling, and not given a run: `invoke_with_retry` takes a non-zero
exit for final when its message happens to contain "timed out" or "not found"
(outcomes `refused` and `unfinished`), where the docstring (`runner.py:99`)
says "Retries on non-zero exit codes"; output that is JSON but no object makes
`_parse_output` raise (outcome `scalar`), and any exception of `subprocess.run`
but the two the code catches leaves the loop as well (outcome `raises`);
`"changes": []` makes `parse_inbound` raise, under a comment that says
"Navigate safely"; an answer that is all whitespace is posted as an empty
message (`EmptyOnlyIfBlank` says that nothing else is); from 100 parts on the
prefix outgrows its eight characters. The last cannot happen to an answer
(`AnswerFits`; `FourPartsReach` bounds the 10022 characters the formatter lets
through, cut at 1592, to 28 parts). It can happen to an error message, which is
neither formatted nor truncated.

## 5. Proofs

All theorems hold for every value of the constants that satisfies the named
assumptions of the modules.

**WebhookIngest_proofs.** `TypeCorrect`, then `Invariance` of `IInv`. None of
the safety properties is inductive: that a message has no second task but by
Celery's own retries depends on the unique index over committed *and* flushed
rows, on which transaction holds what at which point of its handler, and on
which request wrote a committed row. `IInv` names these parts: `TransactionsOK`
(what a transaction holds and how far its handler is), `KeysUnique` (the
indexes over both kinds of rows), `HandlersOK` (what a handler knows at each
`pc`), `RowsWritten` (a row is named by the request that wrote it), `TablesOK`
(messages, conversations and tasks refer to each other correctly), with
`TriesOK`, `HandedOverOnce` and `AckedIsStored`. `IInvInductive` has a case per
action. From it follow `ConversationUnique`, `TaskFindsRows`, `AckStored` and
`RetryFinds`, the last of which says that the `RuntimeError` of
`get_or_create_conversation` is dead code. `NoSecondTask` says that two tasks
of one message come from one request that missed an answer of the broker, and
`NoSecondTaskAtAll` that there are none where the broker's answers arrive.
`Refinement` proves `Spec => DurableInbox!Spec`: `CommitAccepts` maps a commit
to `Accept`, where the primary key is fresh by `RowsWritten`;
`PublishHandsOver` maps a publication to `HandOver`; every other step stutters.

`WaitsEnd` needs no more than `IInv`: who waits for a conversation's key has
written nothing yet, and who holds a message's key has no insert left to make.

`NoSilentLoss`, in the same module, holds under every fault: a message that was
acknowledged has its task, or a request that is about to publish it, or was
stored by a request that died or was answered 500. `NoneDropped` says so of every
stored row. `NoTaskLost` draws the conclusion for a server where nothing fails but
statements of the database, `AckedMeansHandedOver`; `webhook_lost_task` shows that
the condition is needed.

**Bridge_proofs.** `ServerAsSpecified` is direct, since a child changes nothing
a handler can see. `WorkersAsSpecified` composes three facts: a step of the
server leaves the workers alone, the server implements `DurableInbox`
(`Refinement`), and `DurableInbox` is the environment of `MessageWorker`. The
module instantiates `MessageWorker_proofs` to use its theorems; the instance
has copies of the worker's definitions, and `SameChild` and `SameWorkers` say
that they are the bridge's. `AnswersReadOnce` and `SessionsApart` carry two of
the workers' theorems over to the whole system; the first adds, from
`NoSecondTask`, that the answers of two tasks of one message are both read only
if its request missed an answer of the broker (`AnsweredOnce`). `OnlyAllowed`
joins `HeardIsTaken` of the workers (nothing is heard of a message whose task
no worker took), `TaskFindsRows` of the server, and `AllowedStored` (every
stored row is of an admitted number). `NobodyDropped` joins `NoSilentLoss` and
`NoTaskDropped`, with the condition of the latter.

**ClaudeRunner_proofs.** `LoopCorrect` (`LoopInv`: the loop variable counts the runs
made, and all runs behind it failed retryably), hence
`RetriesExhausted`, for any number of retries, timeout, backoff and limit.
`ClockBounded` needs the sums of the backoffs, hence powers of two for every
exponent: the library knows of `2 ^ n` only that it counts subsets, so `PowerOfTwo`
gets `2 ^ (n + 1) = 2 * 2 ^ n` from the powersets of `n` and `n + 1` elements.
`RetriesHangForGood` draws a conclusion for a task limit below a run's timeout and
the first backoff together, which the code's are (600 and 605 seconds): a run
after a retry that hangs is never ended by its own timeout, since the backoffs
of `ClockInBounds` have left it less.

**RateLimiter_proofs.** `Invariance` of `LimiterInv`, whose core is `MemoryOK`:
the list of a key contains everything accepted within a window of now, and only
accepted calls. `WindowLimited` then bounds *every* window, ended ones
included, since acceptance at `t` was decided on the window that ends at `t`;
`RejectsOnlyWhenFull` is the converse.

`MemoryLimited` restates the part of `LimiterInv` that bounds the lists.

**MetaDelivery_proofs.** `ImplementsIngest` (above), `DeliveryTypes`,
`FirstStored` (from `DeliveryTypes` and `AckStored`) and `StrangersStayOut`,
whose strengthening `NoStrangersInside` adds that no request of a stranger is
ever active, so that no commit can be his. `RefusedForOwn`, for finitely many
requests, compares two counts (`AcceptedCounted`): what the limiter accepted of
a number is at most what was let in of it, each acceptance by a delivery of its
own, and what it remembers, which a restart empties, is part of that; so a full
window means that many deliveries let in (`VerdictCounted`).

**MessageWorker_proofs.** `Invariance` of `IInv`, stated there. `PartsInOrder`
and `SentMeansDelivered` are not inductive: they need that a task is worked on
by at most one worker once (`OneRunEach`, which in turn needs the broker to
name every task once: `DurableInbox!Consistent`, and that a task is taken only
once) and that what has arrived is what the loop counted (`PostingOK`).
`SessionBelongs` needs that the sessions workers hold, and are about to write,
are their user's (`SessionsOwned`). One lemma per part (`RunsStep`,
`PostingStep`, `SentStep`, `OwnedStep`, `TypeStep`) has a case per action.
`SessionsMove` is an action property from the same invariant. `ContextIsKept`
is for any number of workers. Its invariant `Continuity` says of each worker
that what its task resumed is still the conversation's session when it commits
(`Continues`). A step of another worker keeps that because the two have
different conversations, which is the hypothesis `OneAtATime` of `ContextKept`
(`OthersContinue`, `ContinuityStep`) and what `worker_lost_context` breaks.
`HeardIsTaken` and `NoTaskDropped` are about where a task's message goes:
nothing is heard of it before a worker took the task (`HeardTaken`, which also
watches what a resumed session will bring along), and afterwards it is in work
until its user was told something (`InHand`, for the faults that leave the
worker a way to tell).

**MessageSplitter_proofs.** `IInv` adds to the properties what a call of
`_do_split` is given (`Given`: text that is left and does not start with
whitespace) and what is known of the last part (`LastCut`: if the text goes on
without whitespace, the part is full and holds no space). `OnePartMore` is the
step all cuts share; `HardCut` and `Found` turn the search for a delimiter into
what stands in the text. `NumbersFit` adds the digits of the numbers, for a
reserve of at least eight. `FourReach` is about four cuts in a row. `CutsKnown`
keeps, for every part but the last, that it ends a reach further on or at the
last of some delimiter within reach. There are three delimiters, so two of four
cuts use the same one, and the second of these was out of reach of the first
(`SameDelimiter`). `Spread` adds this up over the whole answer: part `4n + 1`
starts at least `n` reaches into the text, hence `PartsFew`.

**AnswerText_proofs.** `Implements` shows that whatever `format` and the
apology make of a result is a text that does not start with whitespace, or an
empty one, which is all the splitter assumes; so its theorems hold of every
answer. A rendered answer is the concatenation of any number of pieces, and
that it is a sequence of characters at all takes an induction, here by the
least counterexample (`LeastElement`, `UpTo`, `Flattened`). `AnswerPartsFit`
puts `PartsFew` and `NumbersFit` together: a truncated answer of up to 24
reaches needs no third digit; 10000 characters and the note are less than
seven. `EmptyBlank` says that the only empty message ever posted is an answer
of nothing but whitespace.

**Only model-checked.** Liveness: `Responds`, `ImplementsFairInbox` and
`EveryMessageAnswered`, since the prover handles neither fairness nor `ENABLED`.
`NobodyDropped` proves the safety part of the last.

## 6. Not modelled

* `GET /webhooks/whatsapp` with `verify_challenge`, the health endpoint,
  configuration, logging, the application factory and the running of
  migrations: comparisons, probes and start-up, no state that a later step of the
  system depends on.
* `send_message`, `store_outbound_message`, `update_message_status`,
  `update_claude_session_id`, `get_sync_session`: no caller in the program.
* How the two regular expressions of `format` find images and links; the model
  starts from what they found.
* A message that is no text is stored and handed over with an empty prompt; the
  models treat it like any other.

## 7. Plan

A worker with the code's retry loop in place of `RunClaude`, so that the hard
limit strikes where the clock says, and `EveryMessageAnswered` under it.

## 8. Running

    tlc -config MCWebhookFaults.cfg MCMetaDelivery
    tlapm WebhookIngest_proofs.tla

Each configuration ends within two minutes, and each proof module within three.
