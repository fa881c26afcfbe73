------------------------- MODULE AnswerText_proofs --------------------------
(***************************************************************************)
(* TLAPS proofs about AnswerText: whatever Claude returned, format and     *)
(* split together post parts that fit, and none that is empty unless the   *)
(* answer was all whitespace.                                              *)
(***************************************************************************)
EXTENDS AnswerText, MessageSplitter_proofs

-----------------------------------------------------------------------------
(* Induction over numbers: the library's, for the set of counterexamples.  *)
LEMMA LeastElement ==
  ASSUME NEW T \in SUBSET Nat, T # {}
  PROVE  \E m \in T : \A n \in T : m <= n
<1> DEFINE R == {ss \in Nat \X Nat : ss[1] < ss[2]}
<1>1. IsWellFoundedOn(R, Nat)
  BY NatLessThanWellFounded DEF OpToRel
<1> HIDE DEF R
<1>2. PICK m \in T : \A n \in T : ~(<<n, m>> \in R)
  BY <1>1, WFMin
<1>3. ASSUME NEW n \in T PROVE m <= n
  <2>1. n \in Nat /\ m \in Nat
    OBVIOUS
  <2>2. ~(n < m)
    BY <2>1, <1>2 DEF R
  <2> QED
    BY <2>1, <2>2
<1> QED
  BY <1>3

LEMMA UpTo ==
  ASSUME NEW n \in Nat, NEW T,
         n > 0 => 1 \in T,
         \A k \in 1 .. n - 1 : k \in T => k + 1 \in T
  PROVE  1 .. n \subseteq T
<1> DEFINE Missed == {k \in 1 .. n : k \notin T}
<1>1. SUFFICES ASSUME Missed # {} PROVE FALSE
  OBVIOUS
<1>2. Missed \in SUBSET Nat
  OBVIOUS
<1>3. PICK m \in Missed : \A k \in Missed : m <= k
  <2> HIDE DEF Missed
  <2> QED
    BY <1>1, <1>2, LeastElement
<1>4. m \in 1 .. n /\ m \notin T /\ m # 1
  OBVIOUS
<1>5. m - 1 \in 1 .. n - 1 /\ m - 1 \in T
  BY <1>3, <1>4
<1>6. (m - 1) + 1 \in T
  BY <1>5
<1> QED
  BY <1>4, <1>6

(* What FlattenSeq chooses is the function it means to define.             *)
Flat(seqs, f) ==
  [i \in 1 .. Len(seqs) |-> IF i = 1 THEN seqs[i] ELSE f[i - 1] \o seqs[i]]

LEMMA Flattened ==
  ASSUME NEW S, NEW seqs \in Seq(Seq(S)), Len(seqs) # 0
  PROVE  \E f \in [1 .. Len(seqs) -> Seq(S)] : f = Flat(seqs, f)
<1>0. PICK n \in Nat : n = Len(seqs) /\ n # 0
  OBVIOUS
<1> DEFINE Grows(f, k) == /\ f[1] = seqs[1]
                          /\ \A i \in 2 .. k : f[i] = f[i - 1] \o seqs[i]
           Reached == {k \in 1 .. n : \E f \in [1 .. k -> Seq(S)] : Grows(f, k)}
<1>1. n > 0 /\ \A i \in 1 .. n : seqs[i] \in Seq(S)
  BY <1>0
<1>2. 1 \in Reached
  <2> DEFINE f == [i \in 1 .. 1 |-> seqs[1]]
  <2>1. f \in [1 .. 1 -> Seq(S)]
    BY <1>1
  <2>2. f[1] = seqs[1]
    OBVIOUS
  <2> HIDE DEF f
  <2>3. Grows(f, 1)
    BY <2>2
  <2>4. 1 \in 1 .. n
    BY <1>1
  <2> QED
    BY <2>1, <2>3, <2>4
<1>3. ASSUME NEW k \in 1 .. n - 1, k \in Reached PROVE k + 1 \in Reached
  <2>1. PICK f \in [1 .. k -> Seq(S)] : Grows(f, k)
    BY <1>3
  <2>2. k \in Nat /\ k >= 1 /\ k + 1 \in 1 .. n
    BY <1>1
  <2> DEFINE last == f[k] \o seqs[k + 1]
             g == [i \in 1 .. k + 1 |-> IF i <= k THEN f[i] ELSE last]
  <2>3. last \in Seq(S)
    <3>1. f[k] \in Seq(S) /\ seqs[k + 1] \in Seq(S)
      BY <1>1, <2>2
    <3> QED
      BY <3>1
  <2> HIDE DEF last
  <2>4. g \in [1 .. k + 1 -> Seq(S)]
    BY <2>2, <2>3
  <2>5. /\ \A i \in 1 .. k : g[i] = f[i]
        /\ g[k + 1] = last
    BY <2>2
  <2> HIDE DEF g
  <2>6. g[1] = seqs[1]
    BY <2>1, <2>2, <2>5
  <2>7. ASSUME NEW i \in 2 .. k + 1 PROVE g[i] = g[i - 1] \o seqs[i]
    <3>1. i - 1 \in 1 .. k /\ (i - 1) + 1 = i
      BY <2>2
    <3>2. CASE i = k + 1
      <4>1. i - 1 = k /\ k \in 1 .. k
        BY <2>2, <3>2
      <4>2. g[i] = last /\ g[i - 1] = f[k] /\ seqs[i] = seqs[k + 1]
        BY <2>5, <3>2, <4>1
      <4>3. last = f[k] \o seqs[k + 1]
        BY DEF last
      <4> QED
        BY <4>2, <4>3
    <3>3. CASE i # k + 1
      <4>1. i \in 2 .. k /\ i \in 1 .. k
        BY <2>2, <3>3
      <4> QED
        BY <2>1, <2>5, <3>1, <4>1
    <3> QED
      BY <3>2, <3>3
  <2>8. Grows(g, k + 1)
    BY <2>6, <2>7
  <2> HIDE DEF Grows
  <2> QED
    BY <2>2, <2>4, <2>8
<1>4. n \in Reached
  <2> HIDE DEF Reached
  <2>1. 1 .. n \subseteq Reached
    BY <1>1, <1>2, <1>3, UpTo
  <2> QED
    BY <1>1, <2>1
<1>5. PICK f \in [1 .. n -> Seq(S)] : Grows(f, n)
  BY <1>4
<1>6. ASSUME NEW i \in 1 .. n
      PROVE  f[i] = IF i = 1 THEN seqs[i] ELSE f[i - 1] \o seqs[i]
  <2>1. i = 1 \/ i \in 2 .. n
    BY <1>1
  <2> QED
    BY <1>5, <2>1
<1>7. f \in [1 .. Len(seqs) -> Seq(S)] /\ f = Flat(seqs, f)
  BY <1>0, <1>6 DEF Flat
<1> QED
  BY <1>7

(* What format joins is text.                                              *)
LEMMA Joined ==
  ASSUME NEW S, NEW seqs \in Seq(Seq(S))
  PROVE  FlattenSeq(seqs) \in Seq(S)
<1>1. Len(seqs) \in Nat /\ \A i \in 1 .. Len(seqs) : seqs[i] \in Seq(S)
  OBVIOUS
<1>2. CASE Len(seqs) = 0
  BY <1>2 DEF FlattenSeq
<1>3. CASE Len(seqs) > 0
  <2> DEFINE flatten == CHOOSE h : h = Flat(seqs, h)
             Texts == {i \in 1 .. Len(seqs) : flatten[i] \in Seq(S)}
  <2>1. PICK f \in [1 .. Len(seqs) -> Seq(S)] : f = Flat(seqs, f)
    BY <1>3, Flattened
  <2>2. flatten = Flat(seqs, flatten)
    BY <2>1
  <2>3. FlattenSeq(seqs) = flatten[Len(seqs)]
    BY <1>3 DEF FlattenSeq, Flat
  <2> HIDE DEF flatten
  <2>4. \A i \in 1 .. Len(seqs) :
          flatten[i] = IF i = 1 THEN seqs[i] ELSE flatten[i - 1] \o seqs[i]
    <3>1. \A i \in 1 .. Len(seqs) : flatten[i] = Flat(seqs, flatten)[i]
      BY <2>2
    <3> QED
      BY <3>1 DEF Flat
  <2>5. 1 \in Texts
    <3>1. 1 \in 1 .. Len(seqs)
      BY <1>1, <1>3
    <3>2. flatten[1] = seqs[1]
      BY <2>4, <3>1
    <3> QED
      BY <1>1, <3>1, <3>2
  <2>6. ASSUME NEW k \in 1 .. Len(seqs) - 1, k \in Texts PROVE k + 1 \in Texts
    <3>1. k + 1 \in 1 .. Len(seqs) /\ k + 1 # 1 /\ (k + 1) - 1 = k
      BY <1>1
    <3>2. flatten[k + 1] = flatten[k] \o seqs[k + 1]
      BY <2>4, <3>1
    <3>3. flatten[k] \in Seq(S) /\ seqs[k + 1] \in Seq(S)
      BY <1>1, <2>6, <3>1
    <3>4. flatten[k] \o seqs[k + 1] \in Seq(S)
      BY <3>3
    <3> QED
      BY <3>1, <3>2, <3>4
  <2>7. Len(seqs) \in Texts
    <3> HIDE DEF Texts
    <3>1. 1 .. Len(seqs) \subseteq Texts
      BY <1>1, <2>5, <2>6, UpTo
    <3> QED
      BY <1>1, <1>3, <3>1
  <2> QED
    BY <2>3, <2>7
<1> QED
  BY <1>1, <1>2, <1>3

-----------------------------------------------------------------------------
(* The ends of a set of positions.                                         *)
LEMMA Ends ==
  ASSUME NEW n \in Nat, NEW T \in SUBSET (1 .. n), T # {}
  PROVE  /\ Min(T) \in T /\ \A i \in T : Min(T) <= i
         /\ Max(T) \in T /\ \A i \in T : i <= Max(T)
<1>1. \E m \in T : \A i \in T : m <= i
  <2>1. T \in SUBSET Nat
    OBVIOUS
  <2> QED
    BY <2>1, LeastElement
<1>2. \E m \in T : \A i \in T : m >= i
  <2> DEFINE Above == {n - i : i \in T}
  <2>1. Above \in SUBSET Nat /\ Above # {}
    <3>1. \A i \in T : n - i \in Nat
      OBVIOUS
    <3>2. PICK i \in T : TRUE
      OBVIOUS
    <3>3. n - i \in Above
      OBVIOUS
    <3> QED
      BY <3>1, <3>3
  <2> HIDE DEF Above
  <2>2. PICK d \in Above : \A e \in Above : d <= e
    BY <2>1, LeastElement
  <2> USE DEF Above
  <2>3. PICK m \in T : d = n - m
    BY <2>2
  <2>4. ASSUME NEW i \in T PROVE m >= i
    <3>1. n - i \in Above
      OBVIOUS
    <3>2. d <= n - i
      BY <2>2, <3>1
    <3> QED
      BY <2>3, <3>2
  <2> QED
    BY <2>4
<1>3. Min(T) \in T /\ \A i \in T : Min(T) <= i
  BY <1>1 DEF Min
<1>4. Max(T) \in T /\ \A i \in T : Max(T) >= i
  BY <1>2 DEF Max
<1> QED
  BY <1>3, <1>4

(* strip: nothing is left of a text that is all whitespace; any other is a *)
(* text the splitter can work on, no longer than it was.                   *)
LEMMA Strips ==
  ASSUME NEW t \in Seq(Chars)
  PROVE  /\ Stripped(t) \in Seq(Chars)
         /\ Proper(Stripped(t))
         /\ Len(Stripped(t)) <= Len(t)
         /\ Stripped(t) = <<>> => AllBlank(t)
<1> DEFINE solid == {i \in DOMAIN t : t[i] \notin Blank}
<1>1. Len(t) \in Nat /\ DOMAIN t = 1 .. Len(t) /\ solid \in SUBSET (1 .. Len(t))
  OBVIOUS
<1>2. CASE solid = {}
  <2>1. Stripped(t) = <<>>
    BY <1>2 DEF Stripped
  <2>2. AllBlank(t)
    BY <1>2 DEF AllBlank
  <2> QED
    BY <1>1, <2>1, <2>2 DEF Proper
<1>3. CASE solid # {}
  <2>1. PICK first, last : first = Min(solid) /\ last = Max(solid)
    OBVIOUS
  <2>2. /\ first \in solid /\ last \in solid /\ first <= last
    <3> HIDE DEF solid
    <3> QED
      BY <1>1, <1>3, <2>1, Ends
  <2>3. Stripped(t) = SubSeq(t, first, last)
    BY <1>3, <2>1 DEF Stripped
  <2>4. /\ first \in 1 .. Len(t) /\ last \in 1 .. Len(t) /\ t[first] \notin Blank
    BY <2>2
  <2> HIDE DEF solid
  <2>5. /\ SubSeq(t, first, last) \in Seq(Chars)
        /\ Len(SubSeq(t, first, last)) = last - first + 1
        /\ SubSeq(t, first, last)[1] = t[first]
    BY <1>1, <2>2, <2>4
  <2>6. SubSeq(t, first, last) # <<>>
    BY <1>1, <2>2, <2>4, <2>5
  <2> QED
    BY <1>1, <2>2, <2>3, <2>4, <2>5, <2>6 DEF Proper
<1> QED
  BY <1>2, <1>3

(* The truncated text has room for the note, and is not blank where there  *)
(* is one.                                                                 *)
LEMMA Truncates ==
  ASSUME NEW t \in Seq(Chars)
  PROVE  /\ Truncated(t) \in Seq(Chars)
         /\ Len(Truncated(t)) <= MaxResponse + Len(Truncation)
         /\ AllBlank(Truncated(t)) => Truncated(t) = t
<1>1. /\ MaxResponse \in Nat /\ Truncation \in Seq(Chars)
      /\ Len(Truncation) \in Nat /\ Len(t) \in Nat
  BY AnswerAssumption
<1>2. CASE ~(Len(t) > MaxResponse)
  BY <1>1, <1>2 DEF Truncated
<1>3. CASE Len(t) > MaxResponse
  <2> DEFINE kept == SubSeq(t, 1, MaxResponse)
  <2>1. kept \in Seq(Chars) /\ Len(kept) = MaxResponse
    BY <1>1, <1>3
  <2>2. Truncated(t) = kept \o Truncation
    BY <1>3 DEF Truncated
  <2> HIDE DEF kept
  <2>3. /\ kept \o Truncation \in Seq(Chars)
        /\ Len(kept \o Truncation) = MaxResponse + Len(Truncation)
    BY <1>1, <2>1
  <2>4. ~AllBlank(kept \o Truncation)
    <3>1. PICK i \in 1 .. Len(Truncation) : Truncation[i] \notin Blank
      BY <1>1, AnswerAssumption
    <3>2. /\ Len(kept) + i \in 1 .. Len(kept \o Truncation)
          /\ (kept \o Truncation)[Len(kept) + i] = Truncation[i]
      BY <1>1, <2>1, <2>3
    <3> QED
      BY <2>3, <3>1, <3>2 DEF AllBlank
  <2> QED
    BY <1>1, <2>2, <2>3, <2>4
<1> QED
  BY <1>2, <1>3

(* The substitutions write text, whatever markup they are given.           *)
LEMMA Renders ==
  ASSUME NEW output \in Seq(Markup)
  PROVE  Rendered(output) \in Seq(Chars)
<1>1. \A m \in Markup : Plain(m) \in Seq(Chars)
  <2> SUFFICES ASSUME NEW m \in Markup PROVE Plain(m) \in Seq(Chars)
    OBVIOUS
  <2>1. CASE m \in [kind : {"plain"}, text : Seq(Chars)]
    BY <2>1 DEF Plain
  <2>2. CASE m \in [kind : {"image"}, text : Seq(Chars)]
    <3> DEFINE label == <<"x", "x", "x", "x", "x", "x", "sp">>
    <3>1. label \in Seq(Chars)
      BY DEF Chars
    <3>2. m.text \in Seq(Chars) /\ Plain(m) = label \o m.text
      BY <2>2 DEF Plain
    <3> HIDE DEF label
    <3>3. label \o m.text \in Seq(Chars)
      BY <3>1, <3>2
    <3> QED
      BY <3>2, <3>3
  <2>3. CASE m \in [kind : {"link"}, text : Seq(Chars), url : Seq(Chars)]
    BY <2>3 DEF Plain, Chars
  <2> QED
    BY <2>1, <2>2, <2>3 DEF Markup
<1>2. [i \in DOMAIN output |-> Plain(output[i])] \in Seq(Seq(Chars))
  <2>1. /\ DOMAIN output = 1 .. Len(output) /\ Len(output) \in Nat
        /\ \A i \in 1 .. Len(output) : output[i] \in Markup
    OBVIOUS
  <2>2. \A i \in 1 .. Len(output) : Plain(output[i]) \in Seq(Chars)
    BY <1>1, <2>1
  <2>3. [i \in 1 .. Len(output) |-> Plain(output[i])]
          \in [1 .. Len(output) -> Seq(Chars)]
    BY <2>2
  <2>4. \A S : [1 .. Len(output) -> S] \subseteq Seq(S)
    BY <2>1
  <2> QED
    BY <2>1, <2>3, <2>4
<1> QED
  BY <1>2, Joined DEF Rendered

-----------------------------------------------------------------------------
(* What process_message splits is a text the splitter can work on.         *)
LEMMA TextProper ==
  ASSUME NEW r \in Results
  PROVE  Proper(ResponseText(r))
<1>1. /\ r.output \in Seq(Markup) /\ r.error \in Seq(Chars)
      /\ Proper(EmptyAnswer) /\ Apology # <<>> /\ Proper(Apology)
  BY AnswerAssumption
<1>2. CASE r.success /\ r.output = <<>>
  BY <1>1, <1>2 DEF ResponseText, Format
<1>3. CASE r.success /\ r.output # <<>>
  <2>1. Truncated(Rendered(r.output)) \in Seq(Chars)
    BY <1>1, Renders, Truncates
  <2>2. ResponseText(r) = Stripped(Truncated(Rendered(r.output)))
    BY <1>3 DEF ResponseText, Format
  <2> QED
    BY <2>1, <2>2, Strips
<1>4. CASE ~r.success
  <2>1. ResponseText(r) = Apology \o r.error
    BY <1>4 DEF ResponseText
  <2>2. /\ Apology \in Seq(Chars) /\ Apology[1] \notin Blank /\ Len(Apology) > 0
        /\ Len(Apology) \in Nat
    BY <1>1 DEF Proper
  <2>3. /\ Apology \o r.error \in Seq(Chars)
        /\ (Apology \o r.error)[1] = Apology[1]
    BY <1>1, <2>2
  <2> QED
    BY <2>1, <2>2, <2>3 DEF Proper
<1> QED
  BY <1>2, <1>3, <1>4

(* A successful answer is no longer than what format lets through.         *)
LEMMA AnswerShort ==
  ASSUME NEW r \in Results, r.success
  PROVE  \/ ResponseText(r) = EmptyAnswer
         \/ Len(ResponseText(r)) <= MaxResponse + Len(Truncation)
<1>1. r.output \in Seq(Markup) /\ MaxResponse \in Nat /\ Len(Truncation) \in Nat
  BY AnswerAssumption
<1>2. CASE r.output = <<>>
  BY <1>2 DEF ResponseText, Format
<1>3. CASE r.output # <<>>
  <2>1. PICK t : t = Truncated(Rendered(r.output))
    OBVIOUS
  <2>2. t \in Seq(Chars) /\ Len(t) <= MaxResponse + Len(Truncation)
    BY <1>1, <2>1, Renders, Truncates
  <2>3. Len(Stripped(t)) <= Len(t) /\ Stripped(t) \in Seq(Chars)
    BY <2>2, Strips
  <2>4. ResponseText(r) = Stripped(t)
    BY <1>3, <2>1 DEF ResponseText, Format
  <2> QED
    BY <1>1, <2>2, <2>3, <2>4
<1> QED
  BY <1>2, <1>3

(* Nothing is left to post only of an answer that is all whitespace.       *)
LEMMA EmptyText ==
  ASSUME NEW r \in Results, ResponseText(r) = <<>>
  PROVE  r.success /\ r.output # <<>> /\ AllBlank(Rendered(r.output))
<1>1. /\ r.output \in Seq(Markup) /\ r.error \in Seq(Chars)
      /\ EmptyAnswer # <<>> /\ Apology # <<>> /\ Apology \in Seq(Chars)
  BY AnswerAssumption DEF Proper
<1>2. r.success
  <2>1. SUFFICES ASSUME ~r.success PROVE FALSE
    OBVIOUS
  <2>2. Apology \o r.error = <<>>
    BY <2>1 DEF ResponseText
  <2>3. Len(Apology \o r.error) = Len(Apology) + Len(r.error)
    BY <1>1
  <2>4. Len(Apology) # 0 /\ Len(Apology) \in Nat /\ Len(r.error) \in Nat
    BY <1>1
  <2> QED
    BY <2>2, <2>3, <2>4
<1>3. r.output # <<>>
  BY <1>1, <1>2 DEF ResponseText, Format
<1>4. Stripped(Truncated(Rendered(r.output))) = <<>>
  BY <1>2, <1>3 DEF ResponseText, Format
<1>5. Rendered(r.output) \in Seq(Chars)
  BY <1>1, Renders
<1>6. AllBlank(Truncated(Rendered(r.output)))
  BY <1>4, <1>5, Truncates, Strips
<1>7. AllBlank(Rendered(r.output))
  BY <1>5, <1>6, Truncates
<1> QED
  BY <1>2, <1>3, <1>7

-----------------------------------------------------------------------------
(* Whatever Claude returns, process_message gives the splitter a text it   *)
(* can work on: every theorem about the splitter holds of an answer.       *)
THEOREM Implements == AnswerSpec => ImplementsSplitter
<1>1. AnswerInit => Init
  BY TextProper DEF AnswerInit, Init
<1>2. [Next /\ UNCHANGED result]_<<vars, result>> => [Next]_vars
  OBVIOUS
<1> QED
  BY <1>1, <1>2, PTL DEF AnswerSpec, ImplementsSplitter, Spec

(* The text that is split stays what was made of the one result.           *)
FromResult == result \in Results /\ text = ResponseText(result)

LEMMA StaysFromResult == AnswerSpec => []FromResult
<1>1. AnswerInit => FromResult
  BY DEF AnswerInit, FromResult
<1>2. FromResult /\ [Next /\ UNCHANGED result]_<<vars, result>> => FromResult'
  <2> SUFFICES ASSUME FromResult, [Next /\ UNCHANGED result]_<<vars, result>>
               PROVE  FromResult'
    OBVIOUS
  <2>1. UNCHANGED text /\ UNCHANGED result
    BY DEF Next, Whole, Begin, SplitOnce, LastPart, Done, vars
  <2> QED
    BY <2>1 DEF FromResult
<1> QED
  BY <1>1, <1>2, PTL DEF AnswerSpec

(* The splitter's own parts fit up to 99 of them; what format lets through *)
(* is cut into no more than 96, four to a reach.  The code truncates at    *)
(* 10000 characters, the note adds 22, and 24 reaches are 38208.           *)
THEOREM AnswerPartsFit ==
  ASSUME Reserve >= 8,
         MaxResponse + Len(Truncation) <= 24 * Reach,
         Len(EmptyAnswer) <= 24 * Reach
  PROVE  AnswerSpec => []AnswerFits
<1>1. FromResult /\ TypeOK /\ FewParts /\ PartsFit => AnswerFits
  <2> SUFFICES ASSUME FromResult, TypeOK, FewParts, PartsFit,
                      pc = "done", result.success
               PROVE  \A i \in 1 .. Len(parts) : SentLength(i) <= MaxLength
    BY DEF AnswerFits
  <2>1. /\ result \in Results /\ text = ResponseText(result)
        /\ MaxResponse \in Nat /\ Len(Truncation) \in Nat
    BY AnswerAssumption DEF FromResult
  <2>2. Len(text) <= 24 * Reach
    <3>1. CASE text = EmptyAnswer
      BY <3>1
    <3>2. CASE Len(text) <= MaxResponse + Len(Truncation)
      <4>1. Len(text) \in Nat /\ 24 * Reach \in Int
        BY SplitterAssumption DEF TypeOK, Reach
      <4> QED
        BY <2>1, <3>2, <4>1
    <3> QED
      BY <2>1, <3>1, <3>2, AnswerShort
  <2>3. Len(parts) <= 96 /\ Len(parts) \in Nat
    BY <2>2 DEF FewParts, TypeOK
  <2>4. Len(parts) <= 99
    BY <2>3
  <2> QED
    BY <2>4 DEF PartsFit
<1>2. AnswerSpec => Spec
  BY Implements DEF ImplementsSplitter
<1> QED
  BY <1>1, <1>2, StaysFromResult, TypeCorrect, PartsFew, NumbersFit, PTL

(* An empty message, which Meta rejects, is posted only for an answer that *)
(* is there and all whitespace.                                            *)
THEOREM EmptyBlank == AnswerSpec => []EmptyOnlyIfBlank
<1>1. FromResult /\ TypeOK /\ NoEmptyPart => EmptyOnlyIfBlank
  <2> SUFFICES ASSUME FromResult, TypeOK, NoEmptyPart,
                      NEW i \in 1 .. Len(parts), Size(i) = 0
               PROVE  /\ result.success /\ result.output # <<>>
                      /\ AllBlank(Rendered(result.output))
    BY DEF EmptyOnlyIfBlank
  <2>1. parts[i].lo \in Int /\ parts[i].hi \in Int
    <3>1. parts \in Seq(Interval) /\ Len(text) \in Nat
      BY DEF TypeOK, Interval
    <3>2. parts[i] \in Interval
      BY <3>1
    <3> QED
      BY <3>1, <3>2 DEF Interval
  <2>2. ~(parts[i].lo <= parts[i].hi)
    BY <2>1 DEF Size
  <2>3. text = <<>>
    BY <2>2 DEF NoEmptyPart
  <2> QED
    BY <2>3, EmptyText DEF FromResult
<1>2. AnswerSpec => Spec
  BY Implements DEF ImplementsSplitter
<1> QED
  BY <1>1, <1>2, StaysFromResult, TypeCorrect, PartsHoldText, PTL

=============================================================================
