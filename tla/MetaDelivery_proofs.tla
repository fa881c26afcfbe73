-------------------------- MODULE MetaDelivery_proofs -----------------------
(***************************************************************************)
(* TLAPS proofs about MetaDelivery: behind the provider and the limiter    *)
(* the webhook is still WebhookIngest, so that all theorems about it hold  *)
(* of what Meta posts; and what the provider and the order of the checks   *)
(* add to them.                                                            *)
(***************************************************************************)
EXTENDS MetaDelivery, WebhookIngest_proofs, FiniteSetTheorems

USE DEF Labels, Over, Active, Status

(* Every step of the webhook behind provider and limiter is a step of      *)
(* WebhookIngest, or leaves its variables alone.                           *)
THEOREM ImplementsIngest == DeliverySpec => Spec
<1>1. DeliveryInit => Init
  BY DEF DeliveryInit
<1>2. [DeliveryNext]_deliveryVars => [Next]_vars
  <2> SUFFICES ASSUME [DeliveryNext]_deliveryVars PROVE [Next]_vars
    OBVIOUS
  <2>1. ASSUME NEW r \in Requests, Refuse(r) PROVE Next
    BY <2>1 DEF Refuse, Next, Deliver
  <2>2. ASSUME NEW r \in Requests, Proceed(r) \/ Break(r) PROVE Next
    BY <2>2 DEF Proceed, Break, Next
  <2>3. ASSUME NEW r \in Requests, NEW p \in Payloads, Post(r, p) PROVE Next
    <3>1. CASE Raises(p) \/ ~HasMessage(p)
      BY <2>3, <3>1 DEF Post, Ignore, Next, Deliver
    <3>2. CASE ~Raises(p) /\ HasMessage(p)
      <4>1. Parsed(p) \in Messages
        BY <3>2, PayloadsAssumption DEF Parsed
      <4>2. Receive(r, Parsed(p))
        BY <2>3, <3>2 DEF Post
      <4> QED
        BY <4>1, <4>2 DEF Next, Deliver
    <3> QED
      BY <3>1, <3>2
  <2>4. CASE Restart
    BY <2>4 DEF Restart, Next
  <2>5. CASE Wait \/ Rest \/ UNCHANGED deliveryVars
    BY <2>5 DEF Wait, Rest, Quiescent, deliveryVars
  <2> QED
    BY <2>1, <2>2, <2>3, <2>4, <2>5 DEF DeliveryNext
<1> QED
  BY <1>1, <1>2, PTL DEF Spec, DeliverySpec

(* Steps that are neither a delivery nor a refusal leave msg and payload   *)
(* alone.                                                                  *)
LEMMA MessageFixed ==
  ASSUME NEW r \in Requests, Handle(r) \/ Fail(r)
  PROVE  UNCHANGED msg
BY DEF Handle, Fail, MessageExists, FindActiveConversation,
   InsertConversation, RetrySelect, StoreInboundMessage, Commit, Enqueue,
   Unwind, DatabaseFails, CommitAnswerLost, BrokerRefuses,
   BrokerAnswerLost, requestVars

(* The handler works on the message read from the payload, and only on it. *)
THEOREM DeliveryTypes == DeliverySpec => []DeliveryTypeOK
<1>1. DeliveryInit => DeliveryTypeOK
  BY DEF DeliveryInit, Init, DeliveryTypeOK, Raises
<1>2. TypeOK /\ IInv /\ DeliveryTypeOK /\ [DeliveryNext]_deliveryVars
        => DeliveryTypeOK'
  <2> SUFFICES ASSUME TypeOK, IInv, DeliveryTypeOK,
                      [DeliveryNext]_deliveryVars
               PROVE  DeliveryTypeOK'
    OBVIOUS
  <2>a. ASSUME UNCHANGED <<msg, payload>> PROVE DeliveryTypeOK'
    BY <2>a DEF DeliveryTypeOK
  <2>1. ASSUME NEW r \in Requests, Refuse(r) PROVE DeliveryTypeOK'
    BY <2>1, <2>a DEF Refuse, Dismiss, outerVars
  <2>2. ASSUME NEW r \in Requests, Proceed(r) \/ Break(r) PROVE DeliveryTypeOK'
    BY <2>2, <2>a, MessageFixed DEF Proceed, Break, outerVars
  <2>3. ASSUME NEW r \in Requests, NEW p \in Payloads, Post(r, p)
        PROVE  DeliveryTypeOK'
    <3>1. payload' = [payload EXCEPT ![r] = p]
      BY <2>3 DEF Post
    <3>2. msg' = [msg EXCEPT ![r] = IF Raises(p) THEN None ELSE Parsed(p)]
      <4>1. CASE Raises(p) \/ ~HasMessage(p)
        <5>1. pc[r] = "idle" /\ UNCHANGED msg
          BY <2>3, <4>1 DEF Post, Ignore, Dismiss
        <5>2. msg[r] = None
          BY <5>1 DEF IInv, HandlersOK, HandlerOK
        <5>3. (IF Raises(p) THEN None ELSE Parsed(p)) = None
          BY <4>1 DEF Parsed
        <5> QED
          BY <5>1, <5>2, <5>3 DEF TypeOK
      <4>2. CASE ~Raises(p) /\ HasMessage(p)
        BY <2>3, <4>2 DEF Post, Receive
      <4> QED
        BY <4>1, <4>2
    <3> QED
      BY <3>1, <3>2 DEF DeliveryTypeOK, TypeOK
  <2>4. CASE Restart
    BY <2>4, <2>a DEF Restart, Crash, requestVars
  <2>5. CASE Wait \/ Rest \/ UNCHANGED deliveryVars
    BY <2>5, <2>a DEF Wait, Rest, Quiescent, deliveryVars, vars, outerVars
  <2> QED
    BY <2>1, <2>2, <2>3, <2>4, <2>5 DEF DeliveryNext
<1> QED
  BY <1>1, <1>2, ImplementsIngest, TypeCorrect, Invariance, PTL
  DEF DeliverySpec

(* Only what could be read is acknowledged.                                *)
AckedReadable == \A r \in Requests : response[r] = "200" => ~Raises(payload[r])

LEMMA ReadBeforeAck == DeliverySpec => []AckedReadable
<1>1. DeliveryInit => AckedReadable
  BY DEF DeliveryInit, Init, AckedReadable
<1>2. TypeOK /\ DeliveryTypeOK /\ AckedReadable
        /\ [DeliveryNext]_deliveryVars => AckedReadable'
  <2> SUFFICES ASSUME TypeOK, DeliveryTypeOK, AckedReadable,
                      [DeliveryNext]_deliveryVars
               PROVE  AckedReadable'
    OBVIOUS
  <2>1. ASSUME NEW r \in Requests, Refuse(r) PROVE AckedReadable'
    BY <2>1 DEF Refuse, Dismiss, Answer, outerVars, AckedReadable, TypeOK
  <2>2. ASSUME NEW r \in Requests, Proceed(r) \/ Break(r) PROVE AckedReadable'
    <3>1. /\ pc[r] \in Active /\ UNCHANGED payload
          /\ \A q \in Requests \ {r} : response'[q] = response[q]
      BY <2>2 DEF TypeOK, Proceed, Break, Handle, Fail, MessageExists,
         FindActiveConversation, UseConversation, InsertConversation,
         RetrySelect, StoreInboundMessage, Commit, Enqueue, Unwind,
         DatabaseFails, CommitAnswerLost, BrokerRefuses, BrokerAnswerLost,
         requestVars, outerVars, Goto, Answer, Skip, LoseRace
    <3>2. ~Raises(payload[r])
      BY <3>1, NoneAssumption DEF TypeOK, DeliveryTypeOK
    <3> QED
      BY <3>1, <3>2 DEF AckedReadable
  <2>3. ASSUME NEW r \in Requests, NEW p \in Payloads, Post(r, p)
        PROVE  AckedReadable'
    <3>1. /\ payload' = [payload EXCEPT ![r] = p]
          /\ \A q \in Requests \ {r} : response'[q] = response[q]
          /\ Raises(p) => response'[r] = "500"
      BY <2>3 DEF Post, Ignore, Dismiss, Receive, Answer, Goto, TypeOK
    <3> QED
      BY <3>1 DEF AckedReadable, DeliveryTypeOK
  <2>4. CASE Restart \/ Wait \/ Rest \/ UNCHANGED deliveryVars
    <3>1. UNCHANGED <<response, payload>>
      BY <2>4 DEF Restart, Crash, requestVars, Wait, Rest, Quiescent,
         deliveryVars, vars, outerVars
    <3> QED
      BY <3>1 DEF AckedReadable
  <2> QED
    BY <2>1, <2>2, <2>3, <2>4 DEF DeliveryNext
<1> QED
  BY <1>1, <1>2, DeliveryTypes, ImplementsIngest, TypeCorrect, PTL
  DEF DeliverySpec

(* A payload is acknowledged only if the code could read it, and then its  *)
(* first message, if it has any, is stored.                                *)
THEOREM FirstStored == DeliverySpec => []FirstMessageStored
<1>1. DeliveryTypeOK /\ AckedReadable /\ AckedIsStored => FirstMessageStored
  <2> SUFFICES ASSUME DeliveryTypeOK, AckedReadable, AckedIsStored,
                      NEW r \in Requests, response[r] = "200"
               PROVE  /\ ~Raises(payload[r])
                      /\ HasMessage(payload[r]) =>
                           MsgTaken(payload[r][1][1][1])
    BY DEF FirstMessageStored
  <2>1. ~Raises(payload[r])
    BY DEF AckedReadable
  <2>2. ASSUME HasMessage(payload[r]) PROVE MsgTaken(payload[r][1][1][1])
    <3>1. msg[r] = payload[r][1][1][1]
      BY <2>1, <2>2 DEF DeliveryTypeOK, Parsed
    <3>2. payload[r] \in Payloads
      BY <2>1 DEF DeliveryTypeOK, Raises
    <3>3. msg[r] # None
      BY <2>1, <2>2, <3>1, <3>2, PayloadsAssumption, NoneAssumption
    <3> QED
      BY <3>1, <3>3 DEF AckedIsStored
  <2> QED
    BY <2>1, <2>2
<1> QED
  BY <1>1, DeliveryTypes, ReadBeforeAck, ImplementsIngest, AckStored, PTL

-----------------------------------------------------------------------------
(* A stranger's request is over at once, so that no transaction and no     *)
(* committed row is ever his.                                              *)
NoStrangersInside ==
  /\ \A f \in {accepted, rejected, requests} : DOMAIN f = Users
  /\ \A r \in Requests : pc[r] \in Active => Whitelisted(msg[r])
  /\ StrangersLeaveNoTrace

(* What the handler does after the checks leaves them decided.             *)
LEMMA HandlingKeepsOut ==
  ASSUME TypeOK, IInv, NoStrangersInside, NEW r \in Requests,
         Handle(r) \/ Fail(r), UNCHANGED limiterVars
  PROVE  NoStrangersInside'
<1>1. UNCHANGED msg
  BY MessageFixed
<1>2. \A q \in Requests : pc'[q] \in Active => pc[q] \in Active
  BY DEF TypeOK, Handle, Fail, MessageExists, FindActiveConversation,
     UseConversation, InsertConversation, RetrySelect, StoreInboundMessage,
     Commit, Enqueue, Unwind, DatabaseFails, CommitAnswerLost, BrokerRefuses,
     BrokerAnswerLost, requestVars, Goto, Answer, Skip, LoseRace
<1>3. conversations' = conversations \/ conversations' = conversations \cup newConvs[r]
  BY DEF Handle, Fail, MessageExists, FindActiveConversation,
     InsertConversation, RetrySelect, StoreInboundMessage, Commit, Enqueue,
     Unwind, DatabaseFails, CommitAnswerLost, BrokerRefuses,
     BrokerAnswerLost, CommitRows, dbVars
<1>4. \A row \in newConvs[r] : row.user = Sender[msg[r]] /\ pc[r] \in Active
  BY DEF IInv, TransactionsOK
<1>5. \A row \in newConvs[r] : AllowedNumbers = {} \/ row.user \in AllowedNumbers
  BY <1>4 DEF NoStrangersInside, Whitelisted
<1> QED
  BY <1>1, <1>2, <1>3, <1>5
  DEF NoStrangersInside, StrangersLeaveNoTrace, Whitelisted, limiterVars

(* A number that is not on the whitelist leaves no trace.                  *)
THEOREM StrangersStayOut == DeliverySpec => []StrangersLeaveNoTrace
<1>1. DeliveryInit => NoStrangersInside
  BY DEF DeliveryInit, Init, Inbox!Init, Limiter!Init, NoStrangersInside,
     StrangersLeaveNoTrace
<1>2. TypeOK /\ IInv /\ NoStrangersInside /\ [DeliveryNext]_deliveryVars
        => NoStrangersInside'
  <2> SUFFICES ASSUME TypeOK, IInv, NoStrangersInside,
                      [DeliveryNext]_deliveryVars
               PROVE  NoStrangersInside'
    OBVIOUS
  <2>a. ASSUME UNCHANGED conversations, UNCHANGED limiterVars, UNCHANGED msg,
               \A q \in Requests : pc'[q] \in Active => pc[q] \in Active
        PROVE  NoStrangersInside'
    BY <2>a DEF NoStrangersInside, StrangersLeaveNoTrace, Whitelisted,
       limiterVars
  <2>b. ASSUME NEW r \in Requests, Dismiss(r), UNCHANGED limiterVars
        PROVE  NoStrangersInside'
    BY <2>a, <2>b DEF Dismiss, Answer, Goto, dbVars, TypeOK
  <2>1. ASSUME NEW r \in Requests, Refuse(r) PROVE NoStrangersInside'
    BY <2>1, <2>b DEF Refuse, outerVars
  <2>2. ASSUME NEW r \in Requests, Proceed(r) \/ Break(r) PROVE NoStrangersInside'
    BY <2>2, HandlingKeepsOut DEF Proceed, Break, outerVars
  <2>3. ASSUME NEW r \in Requests, NEW p \in Payloads, Post(r, p)
        PROVE  NoStrangersInside'
    <3>1. CASE Raises(p) \/ ~HasMessage(p)
      BY <2>3, <2>b, <3>1 DEF Post, Ignore
    <3>2. CASE ~Raises(p) /\ HasMessage(p)
      <4> DEFINE m == Parsed(p)
      <4>1. Receive(r, m) /\ Limit(r, m)
        BY <2>3, <3>2 DEF Post
      <4>2. msg' = [msg EXCEPT ![r] = m] /\ UNCHANGED conversations
        BY <4>1 DEF Receive, dbVars
      <4>3. CASE Whitelisted(m)
        <5>1. \A u \in Users \ {Sender[m]} :
                /\ accepted'[u] = accepted[u]
                /\ rejected'[u] = rejected[u]
                /\ requests'[u] = requests[u]
          BY <4>1, <4>3 DEF NoStrangersInside, Limit, LimiterKey,
             Limiter!IsAllowed, Limiter!Reject, Limiter!Allow
        <5>4. \A f \in {accepted', rejected', requests'} : DOMAIN f = Users
          BY <4>1, <4>3 DEF NoStrangersInside, Limit, LimiterKey,
             Limiter!IsAllowed, Limiter!Reject, Limiter!Allow
        <5>2. \A q \in Requests \ {r} : pc'[q] = pc[q] /\ msg'[q] = msg[q]
          BY <4>1, <4>2 DEF TypeOK, Receive, Answer, Goto
        <5>3. Whitelisted(msg'[r])
          BY <4>2, <4>3 DEF TypeOK
        <5> QED
          BY <4>2, <4>3, <5>1, <5>2, <5>3, <5>4
          DEF NoStrangersInside, StrangersLeaveNoTrace, Whitelisted
      <4>4. CASE ~Whitelisted(m)
        <5>1. UNCHANGED limiterVars /\ pc' = [pc EXCEPT ![r] = "done"]
          BY <4>1, <4>4 DEF Limit, Receive, Answer, Goto
        <5> QED
          BY <4>2, <5>1 DEF NoStrangersInside, StrangersLeaveNoTrace,
             Whitelisted, limiterVars, TypeOK
      <4> QED
        BY <4>3, <4>4
    <3> QED
      BY <3>1, <3>2
  <2>4. CASE Restart
    <3>1. \A q \in Requests : pc'[q] \notin Active
      BY <2>4 DEF Restart, Crash
    <3>2. /\ UNCHANGED <<msg, conversations, accepted, rejected>>
          /\ requests' = [u \in Users |-> {}]
      BY <2>4 DEF Restart, Crash, requestVars, dbVars
    <3> QED
      BY <3>1, <3>2 DEF NoStrangersInside, StrangersLeaveNoTrace
  <2>5. CASE Wait
    <3>1. UNCHANGED <<vars, accepted, rejected, requests>>
      BY <2>5 DEF Wait, Limiter!Tick
    <3> QED
      BY <3>1 DEF vars, NoStrangersInside, StrangersLeaveNoTrace, Whitelisted
  <2>6. CASE Rest \/ UNCHANGED deliveryVars
    BY <2>6, <2>a DEF Rest, Quiescent, deliveryVars, vars, outerVars
  <2> QED
    BY <2>1, <2>2, <2>3, <2>4, <2>5, <2>6 DEF DeliveryNext
<1>3. NoStrangersInside => StrangersLeaveNoTrace
  BY DEF NoStrangersInside
<1> QED
  BY <1>1, <1>2, <1>3, ImplementsIngest, TypeCorrect, Invariance, PTL
  DEF DeliverySpec

-----------------------------------------------------------------------------
(* What the limiter accepted of a number, it accepted for deliveries of    *)
(* this number that were let in, one for each; what it remembers is part   *)
(* of it.                                                                  *)
Counted(u) ==
  /\ IsFiniteSet(accepted[u])
  /\ requests[u] \subseteq accepted[u]
  /\ Cardinality(accepted[u]) <= Cardinality(LetIn(u))

AcceptedCounted ==
  /\ DOMAIN accepted = Users /\ DOMAIN requests = Users
  /\ \A u \in Users : Counted(u)
  /\ RefusedForOwnDeliveries

(* Deliveries let in are finitely many, and more of them count for more.   *)
LEMMA LetInGrows ==
  ASSUME IsFiniteSet(Requests), NEW u, LetIn(u) \subseteq LetIn(u)'
  PROVE  /\ Cardinality(LetIn(u)) \in Nat
         /\ Cardinality(LetIn(u)') \in Nat
         /\ Cardinality(LetIn(u)) <= Cardinality(LetIn(u)')
<1>1. IsFiniteSet(LetIn(u)) /\ IsFiniteSet(LetIn(u)')
  BY FS_Subset DEF LetIn
<1> QED
  BY <1>1, FS_Subset, FS_CardinalityType

(* A refusal stays justified.                                              *)
LEMMA OldRefusal ==
  ASSUME IsFiniteSet(Requests), MaxRequests \in Nat, AcceptedCounted,
         NEW q \in Requests, response[q] = "429",
         NEW u, u = Sender[msg[q]], LetIn(u) \subseteq LetIn(u)'
  PROVE  Cardinality(LetIn(u)') >= MaxRequests
<1>1. Cardinality(LetIn(u)) >= MaxRequests
  BY DEF AcceptedCounted, RefusedForOwnDeliveries
<1> QED
  BY <1>1, LetInGrows

(* A step that refuses nothing and lets nothing past the limiter keeps the *)
(* count.                                                                  *)
LEMMA CountKept ==
  ASSUME IsFiniteSet(Requests), MaxRequests \in Nat, AcceptedCounted,
         \A q \in Requests : response'[q] = "429" =>
           response[q] = "429" /\ msg'[q] = msg[q],
         \A u : LetIn(u) \subseteq LetIn(u)',
         UNCHANGED accepted,
         DOMAIN requests' = Users,
         \A u \in Users : requests'[u] \subseteq requests[u]
  PROVE  AcceptedCounted'
<1>1. ASSUME NEW u \in Users PROVE Counted(u)'
  <2>1. /\ Cardinality(LetIn(u)) \in Nat
        /\ Cardinality(LetIn(u)') \in Nat
        /\ Cardinality(LetIn(u)) <= Cardinality(LetIn(u)')
    BY LetInGrows
  <2>2. Cardinality(accepted[u]) \in Nat
    BY FS_CardinalityType DEF AcceptedCounted, Counted
  <2> QED
    BY <2>1, <2>2 DEF AcceptedCounted, Counted
<1>2. ASSUME NEW q \in Requests, response'[q] = "429",
             NEW u, u = Sender[msg'[q]]
      PROVE  Cardinality(LetIn(u)') >= MaxRequests
  BY <1>2, OldRefusal
<1>3. RefusedForOwnDeliveries'
  BY <1>2 DEF RefusedForOwnDeliveries, LetIn
<1> QED
  BY <1>1, <1>3 DEF AcceptedCounted

(* The limiter's verdict keeps the count: it accepts for one more delivery *)
(* let in, or refuses one when it holds MaxRequests entries.               *)
LEMMA VerdictCounted ==
  ASSUME IsFiniteSet(Requests), MaxRequests \in Nat, TypeOK, IInv,
         AcceptedCounted, NEW r \in Requests, NEW m \in Messages,
         Receive(r, m), Limit(r, m)
  PROVE  AcceptedCounted'
<1>1. /\ msg' = [msg EXCEPT ![r] = m]
      /\ msg[r] = None
      /\ \A q \in Requests \ {r} : response'[q] = response[q] /\ msg'[q] = msg[q]
      /\ msg'[r] = m
  BY DEF Receive, Answer, TypeOK, IInv, HandlersOK, HandlerOK
<1>2. \A u : LetIn(u) \subseteq LetIn(u)'
  BY <1>1 DEF LetIn
<1> DEFINE k == Sender[m]
<1>3. k \in Users
  BY SenderAssumption
<1>4. CASE ~Whitelisted(m)
  <2>1. response'[r] = "403" /\ UNCHANGED limiterVars
    BY <1>4 DEF Receive, Limit, Answer, TypeOK
  <2> QED
    BY <1>1, <1>2, <2>1, CountKept DEF limiterVars, AcceptedCounted
<1>5. CASE Whitelisted(m) /\ Limiter!Full(k)
  <2>1. /\ UNCHANGED accepted
        /\ requests' = [requests EXCEPT ![k] = Limiter!Kept(k)]
    BY <1>5 DEF Limit, LimiterKey, Limiter!IsAllowed, Limiter!Reject
  <2>2. Limiter!Kept(k) \subseteq requests[k]
    BY DEF Limiter!Kept
  <2>3. Cardinality(LetIn(k)') >= MaxRequests
    <3>1. IsFiniteSet(accepted[k]) /\ Limiter!Kept(k) \subseteq accepted[k]
      BY <1>3, <2>2 DEF AcceptedCounted, Counted
    <3>2. /\ Cardinality(Limiter!Kept(k)) <= Cardinality(accepted[k])
          /\ Cardinality(Limiter!Kept(k)) \in Nat
          /\ Cardinality(accepted[k]) \in Nat
      BY <3>1, FS_Subset, FS_CardinalityType
    <3>3. Cardinality(Limiter!Kept(k)) >= MaxRequests
      BY <1>5 DEF Limiter!Full, Limiter!Cardinality, Cardinality
    <3>4. Cardinality(accepted[k]) <= Cardinality(LetIn(k))
      BY <1>3 DEF AcceptedCounted, Counted
    <3>5. /\ Cardinality(LetIn(k)) \in Nat
          /\ Cardinality(LetIn(k)') \in Nat
          /\ Cardinality(LetIn(k)) <= Cardinality(LetIn(k)')
      BY <1>2, LetInGrows
    <3> HIDE DEF k
    <3> QED
      BY <3>2, <3>3, <3>4, <3>5
  <2>4. ASSUME NEW u \in Users PROVE Counted(u)'
    <3>1. requests'[u] \subseteq accepted[u]
      BY <2>1, <2>2 DEF AcceptedCounted, Counted
    <3>2. /\ Cardinality(LetIn(u)) \in Nat
          /\ Cardinality(LetIn(u)') \in Nat
          /\ Cardinality(LetIn(u)) <= Cardinality(LetIn(u)')
      BY <1>2, LetInGrows
    <3>3. Cardinality(accepted[u]) \in Nat
      BY FS_CardinalityType DEF AcceptedCounted, Counted
    <3> QED
      BY <2>1, <3>1, <3>2, <3>3 DEF AcceptedCounted, Counted
  <2>5. ASSUME NEW q \in Requests, response'[q] = "429",
               NEW u, u = Sender[msg'[q]]
        PROVE  Cardinality(LetIn(u)') >= MaxRequests
    <3>1. CASE q = r
      BY <1>1, <2>3, <2>5, <3>1
    <3>2. CASE q # r
      BY <1>1, <1>2, <2>5, <3>2, OldRefusal
    <3> QED
      BY <3>1, <3>2
  <2>6. DOMAIN accepted' = Users /\ DOMAIN requests' = Users
    BY <2>1 DEF AcceptedCounted
  <2>7. RefusedForOwnDeliveries'
    BY <2>5 DEF RefusedForOwnDeliveries, LetIn
  <2> QED
    BY <2>4, <2>6, <2>7 DEF AcceptedCounted
<1>6. CASE Whitelisted(m) /\ ~Limiter!Full(k)
  <2>1. PICK e : /\ accepted' = [accepted EXCEPT ![k] = @ \cup {e}]
                 /\ requests' = [requests EXCEPT ![k] = Limiter!Kept(k) \cup {e}]
    BY <1>6 DEF Limit, LimiterKey, Limiter!IsAllowed, Limiter!Allow
  <2>2. response'[r] # "429"
    BY <1>6 DEF Limit, LimiterKey
  <2>3. r \notin LetIn(k) /\ LetIn(k) \cup {r} \subseteq LetIn(k)'
    BY <1>1, <1>2, <2>2, NoneAssumption DEF LetIn
  <2>4. Cardinality(LetIn(k)) + 1 <= Cardinality(LetIn(k)')
    <3>1. IsFiniteSet(LetIn(k)) /\ IsFiniteSet(LetIn(k)')
      BY FS_Subset DEF LetIn
    <3>2. /\ Cardinality(LetIn(k) \cup {r}) = Cardinality(LetIn(k)) + 1
          /\ Cardinality(LetIn(k) \cup {r}) <= Cardinality(LetIn(k)')
      BY <2>3, <3>1, FS_AddElement, FS_Subset
    <3> QED
      BY <3>2
  <2>5. Counted(k)'
    <3>1. /\ accepted'[k] = accepted[k] \cup {e}
          /\ requests'[k] = Limiter!Kept(k) \cup {e}
      BY <1>3, <2>1 DEF AcceptedCounted
    <3>2. requests'[k] \subseteq accepted'[k]
      BY <1>3, <3>1 DEF AcceptedCounted, Counted, Limiter!Kept
    <3>3. IsFiniteSet(accepted[k])
      BY <1>3 DEF AcceptedCounted, Counted
    <3>4. /\ IsFiniteSet(accepted'[k])
          /\ Cardinality(accepted[k]) \in Nat
          /\ Cardinality(accepted'[k]) \in Nat
          /\ Cardinality(accepted'[k]) <= Cardinality(accepted[k]) + 1
      <4>1. /\ IsFiniteSet(accepted[k] \cup {e})
            /\ \/ Cardinality(accepted[k] \cup {e}) = Cardinality(accepted[k])
               \/ Cardinality(accepted[k] \cup {e}) = Cardinality(accepted[k]) + 1
        BY <3>3, FS_AddElement
      <4>2. Cardinality(accepted[k]) \in Nat
        BY <3>3, FS_CardinalityType
      <4> QED
        BY <3>1, <4>1, <4>2
    <3>5. Cardinality(accepted[k]) <= Cardinality(LetIn(k))
      BY <1>3 DEF AcceptedCounted, Counted
    <3>6. Cardinality(LetIn(k)) \in Nat /\ Cardinality(LetIn(k)') \in Nat
      BY <1>2, LetInGrows
    <3>7. Cardinality(accepted'[k]) <= Cardinality(LetIn(k)')
      <4> HIDE DEF k
      <4> QED
        BY <2>4, <3>4, <3>5, <3>6
    <3> QED
      BY <3>2, <3>4, <3>7 DEF Counted
  <2>6. ASSUME NEW u \in Users \ {k} PROVE Counted(u)'
    <3>1. accepted'[u] = accepted[u] /\ requests'[u] = requests[u]
      BY <2>1 DEF AcceptedCounted
    <3>2. /\ Cardinality(LetIn(u)) \in Nat
          /\ Cardinality(LetIn(u)') \in Nat
          /\ Cardinality(LetIn(u)) <= Cardinality(LetIn(u)')
      BY <1>2, LetInGrows
    <3>3. Cardinality(accepted[u]) \in Nat
      BY FS_CardinalityType DEF AcceptedCounted, Counted
    <3> QED
      BY <3>1, <3>2, <3>3 DEF AcceptedCounted, Counted
  <2>7. ASSUME NEW q \in Requests, response'[q] = "429",
               NEW u, u = Sender[msg'[q]]
        PROVE  Cardinality(LetIn(u)') >= MaxRequests
    <3>1. q # r
      BY <2>2, <2>7
    <3> QED
      BY <1>1, <1>2, <2>7, <3>1, OldRefusal
  <2>8. DOMAIN accepted' = Users /\ DOMAIN requests' = Users
    BY <2>1 DEF AcceptedCounted
  <2>9. RefusedForOwnDeliveries'
    BY <2>7 DEF RefusedForOwnDeliveries, LetIn
  <2> QED
    BY <2>5, <2>6, <2>8, <2>9 DEF AcceptedCounted
<1> QED
  BY <1>4, <1>5, <1>6

(* A number is refused only after MaxRequests of its own deliveries were   *)
(* let in: no other number and no refusal uses up its window, and a        *)
(* restart, which empties the windows, only makes room.                    *)
THEOREM RefusedForOwn ==
  ASSUME IsFiniteSet(Requests), MaxRequests \in Nat
  PROVE  DeliverySpec => []RefusedForOwnDeliveries
<1>1. DeliveryInit => AcceptedCounted
  <2> SUFFICES ASSUME DeliveryInit PROVE AcceptedCounted
    OBVIOUS
  <2>1. \A u \in Users : accepted[u] = {} /\ requests[u] = {}
    BY DEF DeliveryInit, Limiter!Init
  <2>2. \A u : Cardinality(LetIn(u)) \in Nat
    BY FS_Subset, FS_CardinalityType DEF LetIn
  <2>3. \A u \in Users : Counted(u)
    BY <2>1, <2>2, FS_EmptySet DEF Counted
  <2> QED
    BY <2>3 DEF DeliveryInit, Init, Limiter!Init, AcceptedCounted,
       RefusedForOwnDeliveries
<1>2. TypeOK /\ IInv /\ AcceptedCounted /\ [DeliveryNext]_deliveryVars
        => AcceptedCounted'
  <2> SUFFICES ASSUME TypeOK, IInv, AcceptedCounted,
                      [DeliveryNext]_deliveryVars
               PROVE  AcceptedCounted'
    OBVIOUS
  <2>a. ASSUME \A q \in Requests : response'[q] = "429" => response[q] = "429",
               UNCHANGED <<msg, accepted, requests>>
        PROVE  AcceptedCounted'
    <3>1. \A u : LetIn(u) \subseteq LetIn(u)'
      BY <2>a DEF LetIn
    <3> QED
      BY <2>a, <3>1, CountKept DEF AcceptedCounted
  <2>b. ASSUME NEW r \in Requests, Dismiss(r), response'[r] # "429",
               UNCHANGED limiterVars
        PROVE  AcceptedCounted'
    BY <2>a, <2>b DEF Dismiss, Answer, TypeOK, limiterVars
  <2>1. ASSUME NEW r \in Requests, Refuse(r) PROVE AcceptedCounted'
    BY <2>1, <2>b DEF Refuse, outerVars
  <2>2. ASSUME NEW r \in Requests, Proceed(r) \/ Break(r)
        PROVE  AcceptedCounted'
    <3>1. \A q \in Requests : response'[q] = "429" => response[q] = "429"
      BY <2>2 DEF TypeOK, Proceed, Break, Handle, Fail, MessageExists,
         FindActiveConversation, UseConversation, InsertConversation,
         RetrySelect, StoreInboundMessage, Commit, Enqueue, Unwind,
         DatabaseFails, CommitAnswerLost, BrokerRefuses, BrokerAnswerLost,
         requestVars, Goto,
         Answer, Skip, LoseRace
    <3> QED
      BY <2>2, <2>a, <3>1, MessageFixed
      DEF Proceed, Break, outerVars, limiterVars
  <2>3. ASSUME NEW r \in Requests, NEW p \in Payloads, Post(r, p)
        PROVE  AcceptedCounted'
    <3>1. CASE Raises(p) \/ ~HasMessage(p)
      <4>1. Dismiss(r) /\ UNCHANGED limiterVars /\ response'[r] # "429"
        BY <2>3, <3>1 DEF Post, Ignore
      <4> QED
        BY <4>1, <2>b
    <3>2. CASE ~Raises(p) /\ HasMessage(p)
      <4>1. Parsed(p) \in Messages
        BY <3>2, PayloadsAssumption DEF Parsed
      <4>2. Receive(r, Parsed(p)) /\ Limit(r, Parsed(p))
        BY <2>3, <3>2 DEF Post
      <4> QED
        BY <4>1, <4>2, VerdictCounted
    <3> QED
      BY <3>1, <3>2
  <2>4. CASE Restart
    <3>1. /\ UNCHANGED <<msg, response, accepted>>
          /\ requests' = [u \in Users |-> {}]
      BY <2>4 DEF Restart, Crash, requestVars
    <3>2. \A u : LetIn(u) \subseteq LetIn(u)'
      BY <3>1 DEF LetIn
    <3> QED
      BY <3>1, <3>2, CountKept
  <2>5. CASE Wait
    <3>1. UNCHANGED <<msg, response, accepted, requests>>
      BY <2>5 DEF Wait, Limiter!Tick, vars
    <3> QED
      BY <3>1, <2>a
  <2>6. CASE Rest \/ UNCHANGED deliveryVars
    BY <2>6, <2>a DEF Rest, Quiescent, deliveryVars, vars, outerVars,
       limiterVars
  <2> QED
    BY <2>1, <2>2, <2>3, <2>4, <2>5, <2>6 DEF DeliveryNext
<1>3. AcceptedCounted => RefusedForOwnDeliveries
  BY DEF AcceptedCounted
<1> QED
  BY <1>1, <1>2, <1>3, ImplementsIngest, TypeCorrect, Invariance, PTL
  DEF DeliverySpec

=============================================================================
