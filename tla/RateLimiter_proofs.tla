------------------------- MODULE RateLimiter_proofs -------------------------
(***************************************************************************)
(* TLAPS proofs about RateLimiter, for any limit, any window and any       *)
(* pattern of calls.                                                       *)
(***************************************************************************)
EXTENDS RateLimiter, FiniteSetTheorems, TLAPS

(* Trimming never forgets an entry that a window ending now or later       *)
(* holds.                                                                  *)
LEMMA KeptIsEnough ==
  ASSUME LimiterInv, NEW k \in Keys, NEW t \in 0 .. MaxTime, t >= now
  PROVE  Within(accepted[k], t) \subseteq Kept(k)
<1> SUFFICES ASSUME NEW e \in accepted[k], t < e.at + WindowSeconds
             PROVE  e \in Kept(k)
  BY DEF Within
<1>1. e \in Entry /\ e.at <= now /\ now \in Nat /\ t \in Nat
  BY LimiterAssumption DEF LimiterInv, TypeOK, MemoryOK
<1>2. now < e.at + WindowSeconds
  BY <1>1, LimiterAssumption DEF Entry
<1>3. e \in requests[k]
  BY <1>1, <1>2 DEF LimiterInv, MemoryOK, Within
<1> QED
  BY <1>1, <1>2, <1>3, LimiterAssumption DEF Kept, Entry

(* Kept is a finite part of the list.                                      *)
LEMMA KeptFinite ==
  ASSUME LimiterInv, NEW k \in Keys
  PROVE  /\ Kept(k) \subseteq requests[k]
         /\ IsFiniteSet(Kept(k))
         /\ Cardinality(Kept(k)) \in Nat
         /\ Cardinality(Kept(k)) <= MaxRequests
<1>1. Kept(k) \subseteq requests[k]
  BY DEF Kept
<1>2. IsFiniteSet(requests[k]) /\ Cardinality(requests[k]) <= MaxRequests
  BY DEF LimiterInv, MemoryOK, MemoryBound
<1>3. /\ IsFiniteSet(Kept(k))
      /\ Cardinality(Kept(k)) <= Cardinality(requests[k])
  BY <1>1, <1>2, FS_Subset
<1>4. Cardinality(Kept(k)) \in Nat /\ Cardinality(requests[k]) \in Nat
  BY <1>2, <1>3, FS_CardinalityType
<1> QED
  BY <1>1, <1>2, <1>3, <1>4, LimiterAssumption

(* After trimming, a key's list is the window that ends now.               *)
LEMMA KeptIsWindow ==
  ASSUME LimiterInv, NEW k \in Keys
  PROVE  Kept(k) = Within(accepted[k], now)
<1>1. now \in 0 .. MaxTime /\ now \in Nat
  BY LimiterAssumption DEF LimiterInv, TypeOK
<1>2. Within(accepted[k], now) \subseteq Kept(k)
  BY <1>1, KeptIsEnough
<1>3. Kept(k) \subseteq Within(accepted[k], now)
  BY DEF LimiterInv, MemoryOK, Kept, Within
<1> QED
  BY <1>2, <1>3

(* The shape of a call that is let through. *)
LEMMA AllowStep ==
  ASSUME LimiterInv, NEW k \in Keys, calls < MaxCalls, calls' = calls + 1,
         UNCHANGED now, Cardinality(Kept(k)) < MaxRequests,
         NEW e, e = [at |-> now, call |-> calls + 1], Allow(k, e)
  PROVE  LimiterInv'
<1>1. now \in 0 .. MaxTime /\ calls \in 0 .. MaxCalls /\ e \in Entry
  BY LimiterAssumption DEF LimiterInv, TypeOK, Entry
<1>2. /\ accepted' = [accepted EXCEPT ![k] = @ \cup {e}]
      /\ requests' = [requests EXCEPT ![k] = Kept(k) \cup {e}]
      /\ rejected' = rejected
  BY DEF Allow
<1>3. /\ Kept(k) \subseteq requests[k]
      /\ IsFiniteSet(Kept(k) \cup {e})
      /\ Cardinality(Kept(k) \cup {e}) <= MaxRequests
  <2>1. /\ Kept(k) \subseteq requests[k]
        /\ IsFiniteSet(Kept(k))
        /\ Cardinality(Kept(k)) \in Nat
    BY KeptFinite
  <2>2. /\ IsFiniteSet(Kept(k) \cup {e})
        /\ Cardinality(Kept(k) \cup {e}) =
             IF e \in Kept(k) THEN Cardinality(Kept(k))
                              ELSE Cardinality(Kept(k)) + 1
    BY <2>1, FS_AddElement
  <2> QED
    BY <2>1, <2>2, LimiterAssumption
<1>4. TypeOK'
  BY <1>1, <1>2, <1>3, LimiterAssumption DEF LimiterInv, TypeOK
<1>5. Within(accepted[k], now) \subseteq Kept(k)
  BY KeptIsWindow
<1>6. MemoryOK'
  <2> SUFFICES ASSUME NEW q \in Keys
               PROVE  /\ requests'[q] \subseteq accepted'[q]
                      /\ Within(accepted'[q], now') \subseteq requests'[q]
                      /\ IsFiniteSet(requests'[q])
                      /\ \A x \in accepted'[q] :
                           x.at <= now' /\ x.call <= calls'
                      /\ \A x \in rejected'[q] : x.at <= now'
    BY DEF MemoryOK, Within
  <2>1. CASE q # k
    BY <1>1, <1>2, <2>1 DEF LimiterInv, TypeOK, MemoryOK, Within, Entry
  <2>2. CASE q = k
    <3>1. accepted'[k] = accepted[k] \cup {e} /\ requests'[k] = Kept(k) \cup {e}
      BY <1>2 DEF LimiterInv, TypeOK
    <3>2. Within(accepted'[k], now') \subseteq requests'[k]
      BY <1>5, <3>1 DEF Within
    <3>3. \A x \in accepted'[k] : x.at <= now' /\ x.call <= calls'
      BY <1>1, <3>1 DEF LimiterInv, TypeOK, MemoryOK, Entry
    <3> QED
      BY <1>2, <1>3, <2>2, <3>1, <3>2, <3>3 DEF LimiterInv, MemoryOK
  <2> QED
    BY <2>1, <2>2
<1>7. MemoryBound'
  BY <1>2, <1>3 DEF LimiterInv, TypeOK, MemoryBound
<1> QED
  BY <1>4, <1>6, <1>7 DEF LimiterInv

(* The shape of a call that is turned away. *)
LEMMA RejectStep ==
  ASSUME LimiterInv, NEW k \in Keys, calls < MaxCalls, calls' = calls + 1,
         UNCHANGED now,
         NEW e, e = [at |-> now, call |-> calls + 1], Reject(k, e)
  PROVE  LimiterInv'
<1>1. now \in 0 .. MaxTime /\ calls \in 0 .. MaxCalls /\ e \in Entry
  BY LimiterAssumption DEF LimiterInv, TypeOK, Entry
<1>2. /\ rejected' = [rejected EXCEPT ![k] = @ \cup {e}]
      /\ requests' = [requests EXCEPT ![k] = Kept(k)]
      /\ accepted' = accepted
  BY DEF Reject
<1>3. /\ Kept(k) \subseteq requests[k]
      /\ IsFiniteSet(Kept(k))
      /\ Cardinality(Kept(k)) <= MaxRequests
  BY KeptFinite
<1>4. Within(accepted[k], now) = Kept(k)
  BY KeptIsWindow
<1>5. TypeOK'
  BY <1>1, <1>2, <1>3, LimiterAssumption DEF LimiterInv, TypeOK
<1>6. MemoryOK'
  <2> SUFFICES ASSUME NEW q \in Keys
               PROVE  /\ requests'[q] \subseteq accepted'[q]
                      /\ Within(accepted'[q], now') \subseteq requests'[q]
                      /\ IsFiniteSet(requests'[q])
                      /\ \A x \in accepted'[q] :
                           x.at <= now' /\ x.call <= calls'
                      /\ \A x \in rejected'[q] : x.at <= now'
    BY DEF MemoryOK, Within
  <2>1. CASE q # k
    BY <1>1, <1>2, <2>1 DEF LimiterInv, TypeOK, MemoryOK, Within, Entry
  <2>2. CASE q = k
    BY <1>1, <1>2, <1>3, <1>4, <2>2 DEF LimiterInv, TypeOK, MemoryOK, Entry
  <2> QED
    BY <2>1, <2>2
<1>7. MemoryBound'
  BY <1>2, <1>3 DEF LimiterInv, TypeOK, MemoryBound
<1> QED
  BY <1>5, <1>6, <1>7 DEF LimiterInv

(* Time passing only takes entries out of the window.                      *)
LEMMA TickStep == ASSUME LimiterInv, Tick PROVE LimiterInv'
<1>1. TypeOK'
  BY LimiterAssumption DEF LimiterInv, TypeOK, Tick
<1>2. MemoryOK'
  BY LimiterAssumption DEF LimiterInv, TypeOK, MemoryOK, Within, Entry, Tick
<1>3. MemoryBound'
  BY DEF LimiterInv, MemoryBound, Tick
<1> QED
  BY <1>1, <1>2, <1>3 DEF LimiterInv

(* The limiter's memory is at every step what the decisions to come need.  *)
THEOREM Invariance == Spec => []LimiterInv
<1>1. Init => LimiterInv
  BY FS_EmptySet, LimiterAssumption
  DEF Init, LimiterInv, TypeOK, MemoryOK, MemoryBound, Within
<1>2. LimiterInv /\ [Next]_vars => LimiterInv'
  <2> SUFFICES ASSUME LimiterInv, [Next]_vars PROVE LimiterInv'
    OBVIOUS
  <2>1. ASSUME NEW k \in Keys, IsAllowed(k) PROVE LimiterInv'
    <3> DEFINE e == [at |-> now, call |-> calls + 1]
    <3>1. /\ calls < MaxCalls
          /\ calls' = calls + 1
          /\ UNCHANGED now
      BY <2>1 DEF IsAllowed
    <3>2. CASE Cardinality(Kept(k)) >= MaxRequests
      <4>1. Reject(k, e)
        BY <2>1, <3>2 DEF IsAllowed, Full
      <4> QED
        BY <3>1, <4>1, RejectStep
    <3>3. CASE ~(Cardinality(Kept(k)) >= MaxRequests)
      <4>1. Allow(k, e)
        BY <2>1, <3>3 DEF IsAllowed, Full
      <4>2. Cardinality(Kept(k)) < MaxRequests
        BY <3>3, KeptFinite, LimiterAssumption
      <4> QED
        BY <3>1, <4>1, <4>2, AllowStep
    <3> QED
      BY <3>2, <3>3
  <2>2. CASE UNCHANGED vars
    BY <2>2 DEF vars, LimiterInv, TypeOK, MemoryOK, MemoryBound, Within
  <2> QED
    BY <2>1, <2>2, TickStep DEF Next, Stop
<1> QED
  BY <1>1, <1>2, PTL DEF Spec

(* No window of WindowSeconds lets more than MaxRequests messages of a     *)
(* number through, wherever in time it lies.                               *)
THEOREM WindowLimited == Spec => []WindowBound
<1>1. Init => WindowBound
  BY FS_EmptySet, LimiterAssumption DEF Init, WindowBound, Within
<1>2. LimiterInv /\ LimiterInv' /\ WindowBound /\ [Next]_vars => WindowBound'
  <2> SUFFICES ASSUME LimiterInv, LimiterInv', WindowBound, [Next]_vars,
                      NEW k \in Keys, NEW t \in 0 .. MaxTime
               PROVE  Cardinality(Within(accepted'[k], t)) <= MaxRequests
    BY DEF WindowBound, Within
  <2>1. CASE accepted'[k] = accepted[k]
    BY <2>1 DEF WindowBound
  <2>2. CASE accepted'[k] # accepted[k]
    <3> DEFINE e == [at |-> now, call |-> calls + 1]
    <3>1. Allow(k, e) /\ UNCHANGED now
      BY <2>2 DEF Next, Tick, Stop, IsAllowed, Full, Allow, Reject, vars, LimiterInv,
       TypeOK
    <3>2. /\ accepted'[k] = accepted[k] \cup {e}
          /\ requests'[k] = Kept(k) \cup {e}
      BY <3>1 DEF Allow, LimiterInv, TypeOK
    <3>3. CASE t < now
      <4>1. Within(accepted'[k], t) = Within(accepted[k], t)
        BY <3>2, <3>3, LimiterAssumption DEF Within, LimiterInv, TypeOK
      <4> QED
        BY <4>1 DEF WindowBound
    <3>4. CASE t >= now
      <4>1. Within(accepted[k], t) \subseteq Kept(k)
        BY <3>4, KeptIsEnough
      <4>2. Within(accepted'[k], t) \subseteq requests'[k]
        BY <3>2, <4>1 DEF Within
      <4>3. /\ IsFiniteSet(requests'[k])
            /\ Cardinality(requests'[k]) <= MaxRequests
        BY DEF LimiterInv, MemoryOK, MemoryBound
      <4>4. /\ IsFiniteSet(Within(accepted'[k], t))
            /\ Cardinality(Within(accepted'[k], t)) <= Cardinality(requests'[k])
        BY <4>2, <4>3, FS_Subset
      <4> QED
        BY <4>3, <4>4, FS_CardinalityType, LimiterAssumption
    <3> QED
      BY <3>3, <3>4, LimiterAssumption DEF LimiterInv, TypeOK
  <2> QED
    BY <2>1, <2>2
<1> QED
  BY <1>1, <1>2, Invariance, PTL DEF Spec

(* Nobody is turned away who has not used up the window that ends now.     *)
THEOREM RejectsOnlyWhenFull == Spec => []NeverTooStrict
<1>1. Init => NeverTooStrict
  BY DEF Init, NeverTooStrict
<1>2. LimiterInv /\ LimiterInv' /\ NeverTooStrict /\ [Next]_vars => NeverTooStrict'
  <2> SUFFICES ASSUME LimiterInv, LimiterInv', NeverTooStrict, [Next]_vars,
                      NEW k \in Keys, NEW e \in rejected'[k]
               PROVE  Cardinality(Within(accepted'[k], e.at)) >= MaxRequests
    BY DEF NeverTooStrict, Within
  <2> DEFINE new == [at |-> now, call |-> calls + 1]
  <2>1. \/ rejected'[k] = rejected[k] /\ accepted'[k] = accepted[k]
        \/ /\ Reject(k, new)
           /\ Cardinality(Kept(k)) >= MaxRequests
        \/ /\ Allow(k, new)
           /\ ~(Cardinality(Kept(k)) >= MaxRequests)
    BY DEF Next, Tick, Stop, IsAllowed, Full, Allow, Reject, vars, LimiterInv,
       TypeOK
  <2>2. CASE rejected'[k] = rejected[k] /\ accepted'[k] = accepted[k]
    BY <2>2 DEF NeverTooStrict
  <2>3. CASE Reject(k, new) /\ Cardinality(Kept(k)) >= MaxRequests
    <3>1. rejected'[k] = rejected[k] \cup {new} /\ accepted'[k] = accepted[k]
      BY <2>3 DEF Reject, LimiterInv, TypeOK
    <3> QED
      BY <2>3, <3>1, KeptIsWindow DEF NeverTooStrict
  <2>4. CASE Allow(k, new) /\ ~(Cardinality(Kept(k)) >= MaxRequests)
    <3>1. /\ e \in rejected[k]
          /\ accepted'[k] = accepted[k] \cup {new}
      BY <2>4 DEF Allow, LimiterInv, TypeOK
    <3>2. e.at # now
      BY <2>4, <3>1, KeptIsWindow DEF NeverTooStrict
    <3>3. e.at < now
      BY <3>1, <3>2, LimiterAssumption DEF LimiterInv, TypeOK, MemoryOK, Entry
    <3>4. Within(accepted'[k], e.at) = Within(accepted[k], e.at)
      BY <3>1, <3>3, LimiterAssumption DEF Within, LimiterInv, TypeOK, Entry
    <3> QED
      BY <3>1, <3>4 DEF NeverTooStrict
  <2> QED
    BY <2>1, <2>2, <2>3, <2>4
<1> QED
  BY <1>1, <1>2, Invariance, PTL DEF Spec

(* A number's list stays short, however often it is turned away.           *)
THEOREM MemoryLimited == Spec => []MemoryBound
BY Invariance, PTL DEF LimiterInv

=============================================================================
