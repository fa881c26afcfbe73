---------------------------- MODULE RateLimiter -----------------------------
(***************************************************************************)
(* The sliding-window limiter in front of the webhook, one per API         *)
(* process.  A call of is_allowed is atomic: the handler does not await in *)
(* it.  Time is time.monotonic() in ticks of the clock's resolution, so    *)
(* several calls may read the same time; an entry of a key's list is its   *)
(* timestamp and the call that left it.                                    *)
(***************************************************************************)
EXTENDS Naturals, FiniteSets

CONSTANTS
  Keys,           \* phone numbers
  MaxRequests, WindowSeconds,
  MaxTime,        \* bound on the clock
  MaxCalls        \* bound on the number of calls

ASSUME LimiterAssumption ==
  /\ MaxRequests \in Nat
  /\ WindowSeconds \in Nat
  /\ MaxTime \in Nat
  /\ MaxCalls \in Nat

VARIABLES
  now,
  calls,      \* number of calls of is_allowed
  requests,   \* self._requests, the entries kept for each key
  accepted,   \* every entry of a call that returned True
  rejected    \* the time and number of every call that returned False

vars == <<now, calls, requests, accepted, rejected>>

Entry == [at : 0 .. MaxTime, call : 1 .. MaxCalls]

(* The entries of a set that are less than a window old at time t.         *)
Within(entries, t) ==
  {e \in entries : e.at <= t /\ t < e.at + WindowSeconds}

Init ==
  /\ now = 0
  /\ calls = 0
  /\ requests = [k \in Keys |-> {}]
  /\ accepted = [k \in Keys |-> {}]
  /\ rejected = [k \in Keys |-> {}]

(* Mutant: the list is trimmed only after the verdict is known. *)
Kept_Untrimmed(k) == requests[k]

(* Mutant: an entry is dropped one tick early. *)
Kept_TooFew(k) == {e \in requests[k] : e.at + WindowSeconds > now + 1}

(* The entries that are not expired: t > now - window_seconds. *)
Kept(k) == {e \in requests[k] : e.at + WindowSeconds > now}

(* Mutant: rejected calls are remembered as well, as None. *)
Reject_Counts(k, e) ==
  /\ rejected' = [rejected EXCEPT ![k] = @ \cup {e}]
  /\ requests' = [requests EXCEPT ![k] = Kept(k) \cup {e}]
  /\ UNCHANGED accepted

Reject(k, e) ==
  /\ rejected' = [rejected EXCEPT ![k] = @ \cup {e}]
  /\ requests' = [requests EXCEPT ![k] = Kept(k)]
  /\ UNCHANGED accepted

Allow(k, e) ==
  /\ accepted' = [accepted EXCEPT ![k] = @ \cup {e}]
  /\ requests' = [requests EXCEPT ![k] = Kept(k) \cup {e}]
  /\ UNCHANGED rejected

Full(k) == Cardinality(Kept(k)) >= MaxRequests

IsAllowed(k) ==
  LET e == [at |-> now, call |-> calls + 1] IN
  /\ calls < MaxCalls
  /\ calls' = calls + 1
  /\ IF Full(k) THEN Reject(k, e) ELSE Allow(k, e)
  /\ UNCHANGED now

Tick ==
  /\ now < MaxTime
  /\ now' = now + 1
  /\ UNCHANGED <<calls, requests, accepted, rejected>>

Stop == now = MaxTime /\ calls = MaxCalls /\ UNCHANGED vars

Next == Tick \/ Stop \/ \E k \in Keys : IsAllowed(k)

Spec == Init /\ [][Next]_vars

-----------------------------------------------------------------------------
TypeOK ==
  /\ now \in 0 .. MaxTime
  /\ calls \in 0 .. MaxCalls
  /\ requests \in [Keys -> SUBSET Entry]
  /\ accepted \in [Keys -> SUBSET Entry]
  /\ rejected \in [Keys -> SUBSET Entry]

(* In no window of WindowSeconds, wherever it ends, does a number get more *)
(* than MaxRequests messages through: "10 messages per 60 seconds".        *)
WindowBound ==
  \A k \in Keys : \A t \in 0 .. MaxTime :
    Cardinality(Within(accepted[k], t)) <= MaxRequests

(* A message is turned away only when the number used up its window; what  *)
(* was turned away before does not count against it.                       *)
NeverTooStrict ==
  \A k \in Keys : \A e \in rejected[k] :
    Cardinality(Within(accepted[k], e.at)) >= MaxRequests

(* The memory of a key does not grow with the number of its calls.         *)
MemoryBound == \A k \in Keys : Cardinality(requests[k]) <= MaxRequests

(* What the limiter remembers and what it decided agree: nothing it will   *)
(* still need was dropped, and what it kept was accepted.                  *)
MemoryOK ==
  \A k \in Keys :
    /\ requests[k] \subseteq accepted[k]
    /\ Within(accepted[k], now) \subseteq requests[k]
    /\ IsFiniteSet(requests[k])
    /\ \A e \in accepted[k] : e.at <= now /\ e.call <= calls
    /\ \A e \in rejected[k] : e.at <= now

LimiterInv == TypeOK /\ MemoryOK /\ MemoryBound

=============================================================================
