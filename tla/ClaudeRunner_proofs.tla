------------------------- MODULE ClaudeRunner_proofs ------------------------
(***************************************************************************)
(* TLAPS proofs about ClaudeRunner: how often the retry loop runs the CLI, *)
(* how long it takes over it, and what the task's limit leaves of a run's  *)
(* timeout, for any timeouts, any backoff and any number of retries.       *)
(***************************************************************************)
EXTENDS ClaudeRunner, Integers, FiniteSetTheorems, FunctionTheorems, TLAPS

USE DEF Ends, Success, Retryable, Raising, Outcomes

(* The bookkeeping of the loop, and its types, hold at every step.         *)
THEOREM LoopCorrect == Spec => [](LoopTypeOK /\ LoopInv)
<1>1. Init => LoopTypeOK /\ LoopInv
  BY RunnerAssumption DEF Init, LoopTypeOK, LoopInv
<1>2. LoopTypeOK /\ LoopInv /\ [Next]_vars => (LoopTypeOK /\ LoopInv)'
  <2> SUFFICES ASSUME LoopTypeOK, LoopInv, [Next]_vars
               PROVE  LoopTypeOK' /\ LoopInv'
    OBVIOUS
  <2> USE RunnerAssumption DEF LoopTypeOK, LoopInv
  <2>1. ASSUME NEW o \in Outcomes, pc = "running", Judge(o)
        PROVE  LoopTypeOK' /\ LoopInv'
    <3>1. /\ history' \in Seq(Outcomes)
          /\ Len(history') = attempt + 1
          /\ attempt' = attempt
      BY <2>1 DEF Judge, Again
    <3>2. ASSUME pc' = "backoff"
          PROVE  /\ attempt < MaxRetries
                 /\ \A i \in 1 .. Len(history') : history'[i] \in Retryable
      <4>1. o \in Retryable /\ attempt < MaxRetries
        BY <2>1, <3>2 DEF Judge, Again
      <4> QED
        BY <2>1, <4>1 DEF Judge, Again
    <3>3. pc' \in {"raised", "backoff", "returned"}
      BY <2>1 DEF Judge, Again
    <3> QED
      BY <3>1, <3>2, <3>3
  <2>2. CASE Exits
    BY <2>1, <2>2 DEF Exits
  <2>3. CASE TimesOut
    BY <2>1, <2>3 DEF TimesOut
  <2>4. CASE Sleep
    BY <2>4 DEF Sleep
  <2>5. CASE HardLimit
    BY <2>5 DEF HardLimit, Overruns
  <2>6. CASE UNCHANGED vars
    BY <2>6 DEF vars
  <2> QED
    BY <2>2, <2>3, <2>4, <2>5, <2>6 DEF Next, Over
<1> QED
  BY <1>1, <1>2, PTL DEF Spec

(* A retryable failure is returned only after MaxRetries + 1 runs, and     *)
(* there are never more.                                                   *)
THEOREM RetriesExhausted == Spec => []AllRetriesMade
<1>1. Init => AllRetriesMade
  BY RunnerAssumption DEF Init, AllRetriesMade
<1>2. LoopTypeOK /\ LoopInv /\ AllRetriesMade /\ [Next]_vars => AllRetriesMade'
  <2> SUFFICES ASSUME LoopTypeOK, LoopInv, AllRetriesMade, [Next]_vars
               PROVE  AllRetriesMade'
    OBVIOUS
  <2> USE RunnerAssumption DEF LoopTypeOK, LoopInv, AllRetriesMade
  <2>1. ASSUME NEW o \in Outcomes, pc = "running", Judge(o)
        PROVE  AllRetriesMade'
    <3>1. Len(history') = attempt + 1 /\ history'[Len(history')] = o
      BY <2>1 DEF Judge, Again
    <3>2. pc' = "returned" /\ o \in Retryable => attempt = MaxRetries
      BY <2>1 DEF Judge, Again
    <3> QED
      BY <3>1, <3>2
  <2>2. CASE Exits
    BY <2>1, <2>2 DEF Exits
  <2>3. CASE TimesOut
    BY <2>1, <2>3 DEF TimesOut
  <2>4. CASE Sleep
    BY <2>4 DEF Sleep
  <2>5. CASE HardLimit
    BY <2>5 DEF HardLimit
  <2>6. CASE UNCHANGED vars
    BY <2>6 DEF vars
  <2> QED
    BY <2>2, <2>3, <2>4, <2>5, <2>6 DEF Next, Over
<1> QED
  BY <1>1, <1>2, LoopCorrect, PTL DEF Spec

-----------------------------------------------------------------------------
(* One element more doubles the number of subsets: those with it pair off *)
(* with those without it.                                                  *)
LEMMA DoubledPowerset ==
  ASSUME NEW S, IsFiniteSet(S), NEW x, x \notin S
  PROVE  Cardinality(SUBSET (S \cup {x})) = 2 * Cardinality(SUBSET S)
<1> DEFINE T == {s \cup {x} : s \in SUBSET S}
           f == [s \in SUBSET S |-> s \cup {x}]
<1>1. f \in Bijection(SUBSET S, T)
  <2>1. f \in [SUBSET S -> T]
    OBVIOUS
  <2>2. \A a, b \in SUBSET S : f[a] = f[b] => a = b
    OBVIOUS
  <2>3. \A t \in T : \E s \in SUBSET S : f[s] = t
    OBVIOUS
  <2> QED
    BY <2>1, <2>2, <2>3, Fun_IsBij
<1>2. /\ IsFiniteSet(SUBSET S) /\ Cardinality(SUBSET S) \in Nat
      /\ IsFiniteSet(T) /\ Cardinality(T) = Cardinality(SUBSET S)
  BY <1>1, FS_SUBSET, FS_CardinalityType, FS_Bijection DEF ExistsBijection
<1>3. SUBSET (S \cup {x}) = (SUBSET S) \cup T
  <2>1. ASSUME NEW u \in SUBSET (S \cup {x}) PROVE u \in (SUBSET S) \cup T
    <3>1. CASE x \in u
      <4>1. u \ {x} \in SUBSET S /\ u = (u \ {x}) \cup {x}
        BY <3>1
      <4> QED
        BY <4>1
    <3> QED
      BY <3>1
  <2> QED
    BY <2>1
<1>4. (SUBSET S) \cap T = {}
  OBVIOUS
<1> HIDE DEF T
<1>5. Cardinality((SUBSET S) \cup T)
        = Cardinality(SUBSET S) + Cardinality(T) - Cardinality({})
  BY <1>2, <1>4, FS_Union
<1>6. Cardinality({}) = 0
  BY FS_EmptySet
<1>7. Cardinality(SUBSET (S \cup {x})) = Cardinality((SUBSET S) \cup T)
  BY <1>3
<1> HIDE DEF f
<1> QED
  BY <1>2, <1>5, <1>6, <1>7

(* 2 ^ n counts the subsets of n elements, which gives the recursion of    *)
(* the backoff.                                                            *)
LEMMA PowerOfTwo ==
  ASSUME NEW n \in Nat
  PROVE  2 ^ n \in Nat /\ 2 ^ n >= 1 /\ 2 ^ (n + 1) = 2 * 2 ^ n
<1> DEFINE S == 1 .. n
<1>1. /\ IsFiniteSet(S) /\ Cardinality(S) = n
      /\ IsFiniteSet(1 .. n + 1) /\ Cardinality(1 .. n + 1) = n + 1
  BY FS_Interval
<1>2. 1 .. n + 1 = S \cup {n + 1} /\ n + 1 \notin S
  OBVIOUS
<1> HIDE DEF S
<1>3. /\ IsFiniteSet(SUBSET S) /\ Cardinality(SUBSET S) = 2 ^ n
      /\ Cardinality(SUBSET (S \cup {n + 1})) = 2 ^ (n + 1)
  BY <1>1, <1>2, FS_SUBSET
<1>4. Cardinality(SUBSET S) \in Nat /\ Cardinality(SUBSET S) # 0
  <2>1. Cardinality(SUBSET S) \in Nat
    BY <1>3, FS_CardinalityType
  <2>2. S \in SUBSET S
    OBVIOUS
  <2> QED
    BY <1>3, <2>1, <2>2, FS_EmptySet
<1> QED
  BY <1>1, <1>2, <1>3, <1>4, DoubledPowerset

LEMMA PowerOfZero == 2 ^ 0 = 1
<1>1. SUBSET {} = {{}}
  OBVIOUS
<1>2. Cardinality({{}}) = 1
  BY FS_Singleton
<1>3. Cardinality(SUBSET {}) = 2 ^ Cardinality({})
  BY FS_SUBSET, FS_EmptySet
<1> QED
  BY <1>1, <1>2, <1>3, FS_EmptySet

(* What the backoffs before run n + 1 take, and what the next one adds.    *)
LEMMA Backoffs ==
  ASSUME NEW n \in Nat
  PROVE  /\ Backoff(n) \in Nat /\ BackoffSpent(n) \in Nat
         /\ BackoffSpent(n + 1) = BackoffSpent(n) + Backoff(n)
<1> DEFINE p == 2 ^ n
<1>1. p \in Nat /\ p >= 1 /\ 2 ^ (n + 1) = 2 * p
  BY PowerOfTwo
<1>2. BaseBackoff \in Nat
  BY RunnerAssumption
<1> HIDE DEF p
<1>3. /\ BaseBackoff * p \in Nat /\ BaseBackoff * (p - 1) \in Nat
      /\ BaseBackoff * (2 * p - 1) = BaseBackoff * (p - 1) + BaseBackoff * p
  BY <1>1, <1>2
<1> QED
  BY <1>1, <1>3 DEF Backoff, BackoffSpent, p

(* The clock never leaves the task's limit.                                *)
THEOREM TypeCorrect == Spec => []TypeOK
<1> USE RunnerAssumption DEF LoopTypeOK, TypeOK
<1>1. Init => clock \in 0 .. TaskTimeLimit
  BY DEF Init
<1>2. LoopTypeOK /\ clock \in 0 .. TaskTimeLimit /\ [Next]_vars
        => (clock \in 0 .. TaskTimeLimit)'
  <2> SUFFICES ASSUME LoopTypeOK, clock \in 0 .. TaskTimeLimit, [Next]_vars
               PROVE  clock' \in 0 .. TaskTimeLimit
    OBVIOUS
  <2>1. ASSUME NEW d \in Nat, Elapse(d) PROVE clock' \in 0 .. TaskTimeLimit
    BY <2>1 DEF Elapse
  <2>2. CASE Exits \/ TimesOut
    BY <2>1, <2>2 DEF Exits, TimesOut
  <2>3. CASE Sleep
    <3>1. Backoff(attempt) \in Nat
      BY Backoffs
    <3> QED
      BY <2>1, <2>3, <3>1 DEF Sleep
  <2>4. CASE HardLimit \/ UNCHANGED vars
    BY <2>4 DEF HardLimit, vars
  <2> QED
    BY <2>2, <2>3, <2>4 DEF Next, Over
<1> QED
  BY <1>1, <1>2, LoopCorrect, PTL DEF Spec

(* The time that has passed is the backoffs', to the second, and no more   *)
(* than a timeout for every run.                                           *)
THEOREM ClockBounded == Spec => []ClockInBounds
<1>1. Init => ClockInBounds
  <2> SUFFICES ASSUME Init PROVE ClockInBounds
    OBVIOUS
  <2>1. BackoffSpent(0) = 0
    BY PowerOfZero, RunnerAssumption DEF BackoffSpent
  <2>2. clock \in Leads /\ clock \in Nat /\ Timeout \in Nat
    BY RunnerAssumption DEF Init
  <2> QED
    BY <2>1, <2>2 DEF Init, ClockInBounds
<1>2. TypeOK /\ LoopInv /\ ClockInBounds /\ [Next]_vars => ClockInBounds'
  <2> SUFFICES ASSUME TypeOK, LoopInv, ClockInBounds, [Next]_vars,
                      pc' # "killed"
               PROVE  \E lead \in Leads :
                        /\ clock' >= lead + BackoffSpent(attempt')
                        /\ clock' <= lead + BackoffSpent(attempt')
                                       + Len(history') * Timeout
    BY DEF ClockInBounds
  <2>1. /\ attempt \in Nat /\ clock \in Nat /\ Len(history) \in Nat
        /\ Timeout \in Nat /\ \A lead \in Leads : lead \in Nat
    BY RunnerAssumption DEF TypeOK, LoopTypeOK
  <2>b. /\ BackoffSpent(attempt) \in Nat /\ Backoff(attempt) \in Nat
        /\ BackoffSpent(attempt + 1) = BackoffSpent(attempt) + Backoff(attempt)
    BY <2>1, Backoffs
  <2>2. ASSUME NEW d \in 0 .. Timeout, NEW o \in Outcomes, pc = "running",
               Elapse(d), Judge(o)
        PROVE  \E lead \in Leads :
                 /\ clock' >= lead + BackoffSpent(attempt')
                 /\ clock' <= lead + BackoffSpent(attempt')
                                + Len(history') * Timeout
    <3>1. PICK lead \in Leads :
            /\ clock >= lead + BackoffSpent(attempt)
            /\ clock <= lead + BackoffSpent(attempt) + Len(history) * Timeout
      BY <2>2 DEF ClockInBounds
    <3>2. /\ clock' = clock + d /\ attempt' = attempt
          /\ Len(history') = Len(history) + 1
      BY <2>2 DEF Elapse, Judge, TypeOK, LoopTypeOK
    <3>3. (Len(history) + 1) * Timeout = Len(history) * Timeout + Timeout
      BY <2>1
    <3>4. d \in Nat /\ d <= Timeout /\ Len(history) * Timeout \in Nat
      BY <2>1
    <3>5. /\ clock' >= lead + BackoffSpent(attempt')
          /\ clock' <= lead + BackoffSpent(attempt') + Len(history') * Timeout
      BY <2>1, <2>b, <3>1, <3>2, <3>3, <3>4
    <3> QED
      BY <3>5
  <2>3. CASE Exits
    BY <2>1, <2>2, <2>3, RunnerAssumption DEF Exits
  <2>4. CASE TimesOut
    BY <2>1, <2>2, <2>4 DEF TimesOut, Outcomes
  <2>5. CASE Sleep
    <3>1. PICK lead \in Leads :
            /\ clock >= lead + BackoffSpent(attempt)
            /\ clock <= lead + BackoffSpent(attempt) + Len(history) * Timeout
      BY <2>5 DEF ClockInBounds, Sleep
    <3>2. Len(history) * Timeout \in Nat
      BY <2>1
    <3>3. /\ clock' = clock + Backoff(attempt) /\ attempt' = attempt + 1
          /\ history' = history
      BY <2>5 DEF Sleep, Elapse
    <3>4. /\ clock' >= lead + BackoffSpent(attempt')
          /\ clock' <= lead + BackoffSpent(attempt') + Len(history') * Timeout
      BY <2>1, <2>b, <3>1, <3>2, <3>3
    <3> QED
      BY <3>4
  <2>6. CASE HardLimit
    BY <2>6 DEF HardLimit
  <2>7. CASE UNCHANGED vars
    BY <2>7 DEF vars, ClockInBounds
  <2> QED
    BY <2>3, <2>4, <2>5, <2>6, <2>7 DEF Next, Over
<1> QED
  BY <1>1, <1>2, TypeCorrect, LoopCorrect, PTL DEF Spec

(* While the task's limit is less than a run's timeout and the first       *)
(* backoff together (in the code 600 and 605 seconds), a run that hangs    *)
(* ends in a result only if it is the first: after a retry it ends in the  *)
(* death of the child.                                                     *)
THEOREM RetriesHangForGood ==
  ASSUME TaskTimeLimit < Timeout + BaseBackoff
  PROVE  Spec => []OnlyFirstRunTimesOut
<1>1. Init => OnlyFirstRunTimesOut
  BY DEF Init, OnlyFirstRunTimesOut
<1>2. TypeOK /\ LoopInv /\ ClockInBounds /\ OnlyFirstRunTimesOut /\ [Next]_vars
        => OnlyFirstRunTimesOut'
  <2> SUFFICES ASSUME TypeOK, LoopInv, ClockInBounds, OnlyFirstRunTimesOut,
                      [Next]_vars
               PROVE  OnlyFirstRunTimesOut'
    OBVIOUS
  <2> USE DEF TypeOK, LoopTypeOK, OnlyFirstRunTimesOut
  <2>1. CASE Exits
    <3>1. PICK o \in Outcomes \ {"timeout"} : history' = Append(history, o)
      BY <2>1 DEF Exits, Judge
    <3> QED
      BY <3>1
  <2>2. CASE TimesOut
    <3>1. /\ pc = "running" /\ Len(history) = attempt
          /\ clock + Timeout <= TaskTimeLimit
          /\ history' = Append(history, "timeout")
      BY <2>2 DEF TimesOut, Elapse, Judge, LoopInv
    <3>2. attempt = 0
      <4> SUFFICES ASSUME attempt # 0 PROVE FALSE
        OBVIOUS
      <4>1. PICK lead \in Leads : clock >= lead + BackoffSpent(attempt)
        BY <3>1 DEF ClockInBounds
      <4>2. /\ attempt \in Nat /\ attempt - 1 \in Nat
            /\ attempt = (attempt - 1) + 1
        BY RunnerAssumption
      <4>3. /\ 2 ^ (attempt - 1) \in Nat /\ 2 ^ (attempt - 1) >= 1
            /\ 2 ^ attempt = 2 * 2 ^ (attempt - 1)
        BY <4>2, PowerOfTwo
      <4>4. 2 ^ attempt \in Nat /\ 2 ^ attempt - 1 >= 1
        BY <4>3
      <4>5. BackoffSpent(attempt) >= BaseBackoff
        <5>1. \A p \in Nat : p >= 1 => BaseBackoff * p >= BaseBackoff
          BY RunnerAssumption
        <5> QED
          BY <4>4, <5>1 DEF BackoffSpent
      <4>6. BackoffSpent(attempt) \in Nat
        BY <4>2, Backoffs
      <4> QED
        BY <3>1, <4>1, <4>5, <4>6, RunnerAssumption
    <3> QED
      BY <3>1, <3>2
  <2>3. CASE UNCHANGED history
    BY <2>3
  <2> QED
    BY <2>1, <2>2, <2>3 DEF Next, Sleep, HardLimit, Over, vars
<1> QED
  BY <1>1, <1>2, TypeCorrect, ClockBounded, LoopCorrect, PTL DEF Spec

=============================================================================
