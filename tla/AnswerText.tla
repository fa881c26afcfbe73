----------------------------- MODULE AnswerText -----------------------------
(***************************************************************************)
(* From what a run of Claude returned to what is posted: process_message   *)
(* has ResponseFormatter make a text of a successful answer, makes an      *)
(* apology of any other, and has MessageSplitter cut either into parts.    *)
(*                                                                         *)
(* The answer is the sequence of what the formatter tells apart: a stretch *)
(* of characters, a markdown image, a markdown link.  What the code writes *)
(* into a text is written here with the splitter's characters, "x" for any *)
(* that is no delimiter.                                                   *)
(***************************************************************************)
EXTENDS MessageSplitter, SequencesExt

CONSTANTS
  Results,
  MaxResponse,   \* _MAX_RESPONSE_LENGTH
  Truncation,    \* "\n\n[Response truncated]"
  EmptyAnswer,   \* "Claude returned an empty response."
  Apology        \* "Sorry, I encountered an error: "

Markup ==
  [kind : {"plain", "image"}, text : Seq(Chars)]
    \cup [kind : {"link"}, text : Seq(Chars), url : Seq(Chars)]

(* An error message is never cut or stripped, nor is it ever empty.        *)
ASSUME AnswerAssumption ==
  /\ \A r \in Results : r.output \in Seq(Markup) /\ r.error \in Seq(Chars)
  /\ \A t \in {EmptyAnswer, Apology} : t # <<>> /\ Proper(t)
  /\ Truncation \in Seq(Chars)
  /\ \E i \in DOMAIN Truncation : Truncation[i] \notin Blank
  /\ MaxResponse \in Nat

VARIABLE result

-----------------------------------------------------------------------------
(* "Image: alt" and "text (url)". *)
Plain(t) ==
  CASE t.kind = "plain" -> t.text
    [] t.kind = "image" -> <<"x", "x", "x", "x", "x", "x", "sp">> \o t.text
    [] t.kind = "link"  -> t.text \o <<"sp", "x">> \o t.url \o <<"x">>

Rendered(output) == FlattenSeq([i \in DOMAIN output |-> Plain(output[i])])

(* Mutant: a long answer is left as it is. *)
Truncated_Never(t) == t

Truncated(t) ==
  IF Len(t) > MaxResponse THEN SubSeq(t, 1, MaxResponse) \o Truncation ELSE t

(* Mutant: rstrip only. *)
Stripped_Right(t) ==
  LET solid == {i \in DOMAIN t : t[i] \notin Blank} IN
  IF solid = {} THEN <<>> ELSE SubSeq(t, 1, Max(solid))

Stripped(t) ==
  LET solid == {i \in DOMAIN t : t[i] \notin Blank} IN
  IF solid = {} THEN <<>> ELSE SubSeq(t, Min(solid), Max(solid))

(* Mutant: nothing stands in for an answer that is empty. *)
Format_Empty(output) == Stripped(Truncated(Rendered(output)))

Format(output) ==
  IF output = <<>> THEN EmptyAnswer ELSE Stripped(Truncated(Rendered(output)))

ResponseText(r) == IF r.success THEN Format(r.output) ELSE Apology \o r.error

AnswerInit ==
  /\ Start
  /\ result \in Results
  /\ text = ResponseText(result)

AnswerSpec == AnswerInit /\ [][Next /\ UNCHANGED result]_<<vars, result>>

-----------------------------------------------------------------------------
(* Whatever Claude returns, the splitter is given a text it can work on:   *)
(* format strips at the right end of its work.                             *)
ImplementsSplitter == Spec

(* An answer of Claude, however long, goes out in parts that fit the       *)
(* platform, numbers included: truncation keeps their number below 100.    *)
(* (An error message is not truncated; PartsFit is all that holds of it.)  *)
AnswerFits ==
  pc = "done" /\ result.success =>
    \A i \in 1 .. Len(parts) : SentLength(i) <= MaxLength

(* Meta rejects an empty message: one is posted only for an answer that is *)
(* there and all whitespace, which format's check for "" lets through.     *)
AllBlank(t) == \A i \in DOMAIN t : t[i] \in Blank
EmptyOnlyIfBlank ==
  \A i \in 1 .. Len(parts) : Size(i) = 0 =>
    result.success /\ result.output # <<>> /\ AllBlank(Rendered(result.output))

=============================================================================
