---------------------------- MODULE ClaudeRunner ----------------------------
(***************************************************************************)
(* One task's use of the Claude CLI: ClaudeCodeRunner.invoke_with_retry,   *)
(* its timeout and its backoff, under the hard time limit of the Celery    *)
(* task that calls it.  Time is in seconds since the task started.         *)
(*                                                                         *)
(* A run of the CLI is external: its outcome and its duration are inputs.  *)
(***************************************************************************)
EXTENDS Naturals, Sequences

CONSTANTS
  Timeout,        \* _DEFAULT_TIMEOUT of one run
  MaxRetries,     \* _MAX_RETRIES
  BaseBackoff,    \* _BASE_BACKOFF
  TaskTimeLimit,  \* task_time_limit of the Celery application
  Leads,          \* how long the task may take to reach the runner
  Durations       \* how long a run may take that ends by itself

ASSUME RunnerAssumption ==
  /\ {Timeout, MaxRetries, BaseBackoff, TaskTimeLimit} \subseteq Nat
  /\ Leads \subseteq 0 .. TaskTimeLimit
  /\ \A d \in Durations : d \in Nat /\ d < Timeout

(* What invoke makes of a run.  "refused" is a failure whose message holds *)
(* one of the two phrases, whatever the message is about and although the  *)
(* exit code is not zero; "scalar" is JSON that is no object, on which     *)
(* _parse_output raises; "raises" is any other exception of subprocess.run *)
(* (PermissionError, output that is no UTF-8).                             *)
Outcomes ==
  { "answer",     \* exit 0, a JSON object without is_error
    "text",       \* exit 0, no JSON
    "scalar",     \* exit 0, JSON but no object
    "error",      \* exit 0, is_error
    "exit",       \* non-zero exit
    "refused",    \* non-zero exit, "timed out" or "not found" on stderr
    "unfinished", \* exit 0, is_error, one of the phrases in its result
    "missing",    \* FileNotFoundError
    "raises",     \* any exception but these two
    "timeout" }   \* TimeoutExpired

Success   == {"answer", "text"}
Retryable == {"error", "exit"}
Raising   == {"scalar", "raises"}

VARIABLES
  pc,        \* "running" a command, in "backoff", or how the task's use ended
  clock,
  attempt,   \* the loop variable of invoke_with_retry
  history    \* the outcome of each run so far

vars == <<pc, clock, attempt, history>>

Ends == {"returned", "raised", "killed"}

Init ==
  /\ pc = "running"
  /\ clock \in Leads
  /\ attempt = 0
  /\ history = <<>>

-----------------------------------------------------------------------------
(* Mutant: the limit is granted to every run anew. *)
Elapse_PerRun(d) == d <= TaskTimeLimit /\ clock' = clock + d

(* A run that is over before the task is. *)
Elapse(d) ==
  /\ clock + d <= TaskTimeLimit
  /\ clock' = clock + d

(* Mutant: every failure is tried again. *)
Again_AnyFailure(o) == o \notin Success /\ attempt < MaxRetries

(* Mutant: the loop makes one round too many. *)
Again_OneMore(o) == o \in Retryable /\ attempt <= MaxRetries

(* Mutant: the loop ends one round early. *)
Again_OneShort(o) == o \in Retryable /\ attempt + 1 < MaxRetries

(* A failure that is not final is slept upon, unless in the last round.    *)
(* The text of its message decides: a refused run is final, although its   *)
(* exit code is not zero.                                                  *)
Again(o) == o \in Retryable /\ attempt < MaxRetries

(* What the loop does with the outcome of a run. *)
Judge(o) ==
  /\ history' = Append(history, o)
  /\ pc' = CASE o \in Raising -> "raised"
             [] Again(o)      -> "backoff"
             [] OTHER         -> "returned"
  /\ UNCHANGED attempt

(* subprocess.run returns, or finds no program to run. *)
Exits ==
  /\ pc = "running"
  /\ \E o \in Outcomes \ {"timeout"}, d \in Durations : Elapse(d) /\ Judge(o)

(* subprocess.run kills a run that lasts and raises TimeoutExpired. *)
TimesOut ==
  /\ pc = "running"
  /\ Elapse(Timeout)
  /\ Judge("timeout")

(* Mutant: the backoff does not grow. *)
Backoff_Constant(n) == BaseBackoff

Backoff(n) == BaseBackoff * 2 ^ n

Sleep ==
  /\ pc = "backoff"
  /\ Elapse(Backoff(attempt))
  /\ attempt' = attempt + 1
  /\ pc' = "running"
  /\ UNCHANGED history

(* The worker's supervisor kills a child that still runs at the limit.     *)
Overruns ==
  \/ pc = "running" /\ clock + Timeout >= TaskTimeLimit
  \/ pc = "backoff" /\ clock + Backoff(attempt) >= TaskTimeLimit

HardLimit ==
  /\ Overruns
  /\ pc' = "killed"
  /\ clock' = TaskTimeLimit
  /\ UNCHANGED <<attempt, history>>

Over == pc \in Ends /\ UNCHANGED vars

Next == Exits \/ TimesOut \/ Sleep \/ HardLimit \/ Over

Spec == Init /\ [][Next]_vars

-----------------------------------------------------------------------------
LoopTypeOK ==
  /\ pc \in {"running", "backoff"} \cup Ends
  /\ attempt \in 0 .. MaxRetries
  /\ history \in Seq(Outcomes)

TypeOK == LoopTypeOK /\ clock \in 0 .. TaskTimeLimit

(* Only the first run of a task can end in TimeoutExpired, that is in a    *)
(* result: after a backoff the task's limit comes before the run's.        *)
OnlyFirstRunTimesOut ==
  \A i \in 1 .. Len(history) : history[i] = "timeout" => i = 1

(* The loop gives up a retryable failure only after MaxRetries retries,    *)
(* and never makes more.                                                   *)
AllRetriesMade ==
  /\ Len(history) <= MaxRetries + 1
  /\ pc = "returned" /\ history[Len(history)] \in Retryable =>
       Len(history) = MaxRetries + 1

(* The time the backoffs alone take has passed, and the runs took no more  *)
(* than their timeout each.                                                *)
BackoffSpent(n) == BaseBackoff * (2 ^ n - 1)
ClockInBounds ==
  pc # "killed" =>
    \E lead \in Leads :
      /\ clock >= lead + BackoffSpent(attempt)
      /\ clock <= lead + BackoffSpent(attempt) + Len(history) * Timeout

(* The loop variable counts the runs; only retryable failures are behind.  *)
LoopInv ==
  /\ pc = "running" => Len(history) = attempt
  /\ pc \in {"backoff", "returned", "raised"} => Len(history) = attempt + 1
  /\ pc = "killed" => Len(history) \in {attempt, attempt + 1}
  /\ pc \in {"running", "backoff"} =>
       \A i \in 1 .. Len(history) : history[i] \in Retryable
  /\ pc = "backoff" => attempt < MaxRetries

(* "Error scenarios produce friendly WhatsApp error messages": a run that  *)
(* hangs ends in a result, not in the death of the worker.                 *)
NeverKilled == pc # "killed"

=============================================================================
