----------------------------- MODULE MetaDelivery ---------------------------
(***************************************************************************)
(* What Meta posts to the webhook: WebhookIngest behind the provider that  *)
(* checks and parses a payload and the rate limiter of the API process.    *)
(* WebhookIngest leaves the outcome of both open; here they are the        *)
(* provider's and RateLimiter's.                                           *)
(*                                                                         *)
(* A payload is the sequence of its entries; an entry is the sequence of   *)
(* its changes, or None if the key is absent; a change is the sequence of  *)
(* its messages, empty for a status update.  None is a body that is no     *)
(* such tree.  Meta may post a payload any number of times.                *)
(***************************************************************************)
EXTENDS WebhookIngest, FiniteSets

CONSTANTS
  Payloads,
  MaxRequests, WindowSeconds,     \* of _rate_limiter
  MaxTime, MaxCalls               \* bounds of RateLimiter

VARIABLES
  payload,     \* the authentic payload of each request, None before
  now, calls, requests, accepted, rejected     \* as in RateLimiter

limiterVars  == <<now, calls, requests, accepted, rejected>>
outerVars    == <<payload, limiterVars>>
deliveryVars == <<vars, outerVars>>

Limiter == INSTANCE RateLimiter WITH Keys <- Users

DeliveryInit ==
  /\ Init
  /\ payload = [r \in Requests |-> None]
  /\ Limiter!Init

-----------------------------------------------------------------------------
(* parse_inbound: the first message of the first change of the first       *)
(* entry.  An empty list of changes raises, as does what is no such tree.  *)
Raises(p) == p = None \/ (p # <<>> /\ p[1] = <<>>)

HasMessage(p) == p # <<>> /\ p[1] # None /\ p[1][1] # <<>>

(* Mutant: the last message of the change instead. *)
Parsed_Last(p) == IF HasMessage(p) THEN p[1][1][Len(p[1][1])] ELSE None

Parsed(p) == IF HasMessage(p) THEN p[1][1][1] ELSE None

ASSUME PayloadsAssumption ==
  \A p \in Payloads : ~Raises(p) /\ HasMessage(p) => p[1][1][1] \in Messages

(* Mutant: one window for everybody. *)
LimiterKey_Shared(m) == CHOOSE u \in Users : TRUE

(* is_allowed is asked about the sender. *)
LimiterKey(m) == Sender[m]

(* Mutant: the limiter is asked before the whitelist. *)
Limit_First(r, m) ==
  /\ Limiter!IsAllowed(LimiterKey(m))
  /\ Whitelisted(m) => (response'[r] = "429" <=> Limiter!Full(LimiterKey(m)))

(* Its verdict is the one the handler acts on; a number that is not on the *)
(* whitelist never gets to it.                                             *)
Limit(r, m) ==
  IF Whitelisted(m)
    THEN /\ Limiter!IsAllowed(LimiterKey(m))
         /\ response'[r] = "429" <=> Limiter!Full(LimiterKey(m))
    ELSE UNCHANGED limiterVars

(* Mutant: the verdict on the signature is not looked at. *)
Refuse_Reads(r) == (\E m \in Messages : Receive(r, m)) /\ UNCHANGED outerVars

(* validate_webhook finds no or a wrong signature: the body is not read.   *)
Refuse(r) ==
  /\ Dismiss(r)
  /\ response'[r] = "403"
  /\ UNCHANGED outerVars

Ignore(r, code) ==
  /\ Dismiss(r)
  /\ response'[r] = code
  /\ UNCHANGED limiterVars

Post(r, p) ==
  /\ payload' = [payload EXCEPT ![r] = p]
  /\ \/ Raises(p) /\ Ignore(r, "500")
     \/ ~Raises(p) /\ ~HasMessage(p) /\ Ignore(r, "200")
     \/ /\ ~Raises(p) /\ HasMessage(p)
        /\ Receive(r, Parsed(p))
        /\ Limit(r, Parsed(p))

(* The rest of the handler, and what may go wrong in it.                   *)
Proceed(r) == Handle(r) /\ UNCHANGED outerVars
Break(r)   == Fail(r) /\ UNCHANGED outerVars

(* The limiter's memory dies with the process, and a new process starts.   *)
Restart ==
  /\ Crash
  /\ requests' = [u \in Users |-> {}]
  /\ UNCHANGED <<payload, now, calls, accepted, rejected>>

Wait == Limiter!Tick /\ UNCHANGED <<vars, payload>>

Rest == Quiescent /\ UNCHANGED outerVars

DeliveryNext ==
  \/ \E r \in Requests :
       \/ Refuse(r) \/ (\E p \in Payloads : Post(r, p))
       \/ Proceed(r) \/ Break(r)
  \/ Restart
  \/ Wait
  \/ Rest

DeliverySpec == DeliveryInit /\ [][DeliveryNext]_deliveryVars

(* The event loop runs every handler that is not waiting for a lock; Meta  *)
(* need not post, and nothing need fail.                                   *)
DeliveryFairSpec ==
  DeliverySpec /\ \A r \in Requests : WF_deliveryVars(Proceed(r))

-----------------------------------------------------------------------------
(* The handler works on the message the provider read from an authentic    *)
(* payload, and only on it.                                                *)
DeliveryTypeOK ==
  /\ payload \in [Requests -> Payloads \cup {None}]
  /\ \A r \in Requests :
       msg[r] = IF Raises(payload[r]) THEN None ELSE Parsed(payload[r])

(* An acknowledged payload is one the code can read, and the first message *)
(* of its first change, if it has any, is stored, whatever failed or was   *)
(* delivered twice: parse_inbound and the handler's answers.               *)
FirstMessageStored ==
  \A r \in Requests : response[r] = "200" =>
    LET p == payload[r] IN
    /\ ~Raises(p)
    /\ HasMessage(p) => MsgTaken(p[1][1][1])

(* A number that is not on the whitelist leaves no trace, in the tables or *)
(* in the limiter, whose memory is thereby bounded: the order of checks.   *)
StrangersLeaveNoTrace ==
  \A u \in Users : AllowedNumbers # {} /\ u \notin AllowedNumbers =>
    /\ accepted[u] = {} /\ rejected[u] = {} /\ requests[u] = {}
    /\ \A row \in conversations : row.user # u

(* A number is refused only after MaxRequests deliveries of its own got    *)
(* past the limiter; those of other numbers, and refused ones, do not      *)
(* count: is_allowed, and its place in the handler.                        *)
LetIn(u) ==
  {q \in Requests :
     msg[q] # None /\ Sender[msg[q]] = u /\ response[q] # "429"}
RefusedForOwnDeliveries ==
  \A r \in Requests : response[r] = "429" =>
    Cardinality(LetIn(Sender[msg[r]])) >= MaxRequests

(* "Per-phone-number rate limiter (10 messages per 60 seconds)": a new     *)
(* message is refused only if its number sent MaxRequests others.          *)
MessagesLetIn(u) == {msg[q] : q \in LetIn(u)}
RefusedForOwnMessages ==
  \A r \in Requests :
    response[r] = "429" /\ msg[r] \notin MessagesLetIn(Sender[msg[r]]) =>
      Cardinality(MessagesLetIn(Sender[msg[r]])) >= MaxRequests

=============================================================================
