----------------------- MODULE MessageSplitter_proofs -----------------------
(***************************************************************************)
(* TLAPS proofs about MessageSplitter, for any text that does not start    *)
(* with whitespace and any limits: the parts hold all of it, once, none is *)
(* empty or too long, and no word is cut that need not be.                 *)
(***************************************************************************)
EXTENDS MessageSplitter, SequenceTheorems, FiniteSetTheorems, TLAPS

USE SplitterAssumption DEF Blank, Chars, Reach

(* What the next call of _do_split is given: text that is left, without    *)
(* whitespace at its start, all that lies before it being in the parts.    *)
Given ==
  /\ pc = "start" => at = 1 /\ parts = <<>>
  /\ pc = "split" => /\ at <= Len(text)
                     /\ text[at] \notin Blank
                     /\ Len(text) > MaxLength
  /\ \A i \in 1 .. Len(parts) : parts[i].hi < at

(* A cut without whitespace at it fills its part.                          *)
CutFills(part) ==
  /\ part.hi - part.lo + 1 = Reach
  /\ \A j \in part.lo .. part.hi : text[j] # "sp"

LastCut ==
  pc = "split" /\ parts # <<>> /\ parts[Len(parts)].hi + 1 = at =>
    CutFills(parts[Len(parts)])

IInv ==
  /\ TypeOK
  /\ Proper(text)
  /\ Given
  /\ NothingLost
  /\ NoEmptyPart
  /\ RawPartsFit
  /\ WordsWhole
  /\ LastCut

-----------------------------------------------------------------------------
Interval == [lo : 1 .. Len(text) + 1, hi : 0 .. Len(text)]

(* A part that starts where the last one left off keeps the parts in order *)
(* and loses nothing up to where the next one starts.                      *)
LEMMA Appended ==
  ASSUME IInv, NEW last \in at .. Len(text), UNCHANGED text, AddPart(at, last),
         at' \in last + 1 .. Len(text) + 1,
         \A i \in last + 1 .. at' - 1 : text[i] \in Blank
  PROVE  /\ parts' \in Seq(Interval)
         /\ Len(parts') = Len(parts) + 1
         /\ parts'[Len(parts')] = [lo |-> at, hi |-> last]
         /\ \A i \in 1 .. Len(parts) : parts'[i] = parts[i]
         /\ \A i \in 1 .. Len(parts') : parts'[i].hi < at'
         /\ \A j \in 1 .. at' - 1 : text[j] \notin Blank =>
              \E i \in 1 .. Len(parts') : Holds(i, j)'
         /\ \A i \in 1 .. Len(parts') - 1 : parts'[i].hi < parts'[i + 1].lo
<1> DEFINE new == [lo |-> at, hi |-> last]
<1>1. at \in 1 .. Len(text) + 1 /\ parts \in Seq(Interval) /\ Len(text) \in Nat
  BY DEF IInv, TypeOK, Interval
<1>2. new \in Interval
  BY <1>1 DEF Interval
<1>3. /\ parts' \in Seq(Interval)
      /\ Len(parts') = Len(parts) + 1
      /\ parts'[Len(parts')] = new
      /\ \A i \in 1 .. Len(parts) : parts'[i] = parts[i]
  BY <1>1, <1>2 DEF AddPart
<1>4. \A i \in 1 .. Len(parts) : parts[i].hi < at /\ parts[i].hi \in Nat
  <2>1. \A i \in 1 .. Len(parts) : parts[i] \in Interval
    BY <1>1
  <2>2. \A i \in 1 .. Len(parts) : parts[i].hi \in Nat
    BY <1>1, <2>1 DEF Interval
  <2> QED
    BY <2>2 DEF IInv, Given
<1>5. \A i \in 1 .. Len(parts') : parts'[i].hi < at'
  <2> SUFFICES ASSUME NEW i \in 1 .. Len(parts') PROVE parts'[i].hi < at'
    OBVIOUS
  <2>1. Len(parts) \in Nat
    BY <1>1
  <2>2. CASE i = Len(parts')
    BY <1>1, <1>3, <2>2
  <2>3. CASE i \in 1 .. Len(parts)
    <3>1. parts'[i].hi < at /\ parts'[i].hi \in Nat
      BY <1>3, <1>4, <2>3
    <3> QED
      BY <1>1, <3>1
  <2> QED
    BY <1>3, <2>1, <2>2, <2>3
<1>6. ASSUME NEW j \in 1 .. at' - 1, text[j] \notin Blank
      PROVE  \E i \in 1 .. Len(parts') : Holds(i, j)'
  <2>1. CASE j < at
    <3>1. PICK i \in 1 .. Len(parts) : Holds(i, j)
      BY <1>1, <1>6, <2>1 DEF IInv, NothingLost
    <3> QED
      BY <1>1, <1>3, <3>1 DEF Holds
  <2>2. CASE at <= j
    <3>1. j <= last
      <4>1. j \in Nat /\ last \in Nat /\ at' \in Nat
        BY <1>1
      <4>2. j > last => j \in last + 1 .. at' - 1
        <5> DEFINE next == at'
        <5>1. j \in 1 .. next - 1 /\ next \in Nat
          BY <4>1
        <5> HIDE DEF next
        <5>2. j > last => j \in last + 1 .. next - 1
          BY <4>1, <5>1
        <5> QED
          BY <5>2 DEF next
      <4>3. text[j] \notin Blank
        BY <1>6, Zenon
      <4>4. ~(j > last)
        BY <4>2, <4>3, Zenon
      <4> QED
        BY <4>1, <4>4
    <3>2. Len(parts') \in 1 .. Len(parts')
      BY <1>1, <1>3
    <3> QED
      BY <1>3, <2>2, <3>1, <3>2 DEF Holds
  <2> QED
    BY <1>1, <2>1, <2>2
<1>7. \A i \in 1 .. Len(parts') - 1 : parts'[i].hi < parts'[i + 1].lo
  <2> SUFFICES ASSUME NEW i \in 1 .. Len(parts') - 1
               PROVE  parts'[i].hi < parts'[i + 1].lo
    OBVIOUS
  <2>1. CASE i = Len(parts)
    BY <1>1, <1>3, <1>4, <2>1
  <2>2. CASE i < Len(parts)
    <3>1. i \in 1 .. Len(parts) - 1 /\ i + 1 \in 1 .. Len(parts)
      BY <1>1, <2>2
    <3>2. parts[i].hi < parts[i + 1].lo
      BY <3>1 DEF IInv, NothingLost
    <3> QED
      BY <1>3, <3>1, <3>2
  <2> QED
    BY <1>1, <1>3, <2>1, <2>2
<1> QED
  BY <1>3, <1>5, <1>6, <1>7

(* Where a delimiter was found, its characters stand in the text.          *)
LEMMA Found ==
  ASSUME TypeOK, pc = "split", Left > Reach
  PROVE  /\ \A p \in Occurrences(Paragraph) :
              text[at + p] = "nl" /\ text[at + p + 1] = "nl"
         /\ \A p \in Occurrences(Sentence) : text[at + p + 1] = "sp"
         /\ \A p \in Occurrences(Word) : text[at + p] = "sp"
         /\ \A p \in 1 .. Reach - 1 :
              text[at + p] = "sp" => p \in Occurrences(Word)
<1> USE DEF Paragraph, Sentence, Word
<1>1. /\ text \in Seq(Chars) /\ Len(text) \in Nat /\ at \in Nat /\ at >= 1
      /\ Len(text) - at + 1 > Reach /\ Reach \in Nat
  BY DEF TypeOK, Left
<1>2. \A p \in Occurrences(Paragraph) :
        text[at + p] = "nl" /\ text[at + p + 1] = "nl"
  <2> SUFFICES ASSUME NEW p \in Occurrences(Paragraph)
               PROVE  text[at + p] = "nl" /\ text[at + p + 1] = "nl"
    OBVIOUS
  <2>1. SubSeq(text, at + p, at + p + 1) = <<"nl", "nl">> /\ p \in Nat
    BY <1>1 DEF Occurrences
  <2>2. /\ SubSeq(text, at + p, at + p + 1)[1] = text[at + p]
        /\ SubSeq(text, at + p, at + p + 1)[2] = text[at + p + 1]
    BY <1>1, <2>1
  <2>3. <<"nl", "nl">>[1] = "nl" /\ <<"nl", "nl">>[2] = "nl"
    OBVIOUS
  <2> QED
    BY <2>1, <2>2, <2>3, Zenon
<1>3. \A p \in Occurrences(Sentence) : text[at + p + 1] = "sp"
  <2> SUFFICES ASSUME NEW p \in Occurrences(Sentence)
               PROVE  text[at + p + 1] = "sp"
    OBVIOUS
  <2>1. SubSeq(text, at + p, at + p + 1) = <<".", "sp">> /\ p \in Nat
    BY <1>1 DEF Occurrences
  <2>2. SubSeq(text, at + p, at + p + 1)[2] = text[at + p + 1]
    BY <1>1, <2>1
  <2>3. <<".", "sp">>[2] = "sp"
    OBVIOUS
  <2> QED
    BY <2>1, <2>2, <2>3, Zenon
<1>4. \A p \in 1 .. Reach - 1 :
        text[at + p] = "sp" <=> p \in Occurrences(Word)
  <2> SUFFICES ASSUME NEW p \in 1 .. Reach - 1
               PROVE  text[at + p] = "sp" <=> p \in Occurrences(Word)
    OBVIOUS
  <2>1. SubSeq(text, at + p, at + p) = <<text[at + p]>>
    <3>1. at + p \in 1 .. Len(text)
      BY <1>1
    <3>2. SubSeq(text, at + p, at + p) =
            <<text[at + p]>> \o SubSeq(text, at + p + 1, at + p)
      BY <3>1, SubSeqRecursiveFirst, at + p \in at + p .. at + p
    <3>3. SubSeq(text, at + p + 1, at + p) = <<>>
      BY <1>1, SubSeqEmpty
    <3>4. text[at + p] \in Chars
      BY <1>1, <3>1
    <3>5. <<text[at + p]>> \o <<>> = <<text[at + p]>>
      BY <3>4
    <3> QED
      BY <3>2, <3>3, <3>5
  <2>2. Len(Word) = 1 /\ at + p + Len(Word) - 1 = at + p
    BY <1>1
  <2> QED
    BY <1>1, <2>1, <2>2 DEF Occurrences
<1>5. Occurrences(Word) \subseteq 1 .. Reach - 1
  BY <1>1 DEF Occurrences
<1> QED
  BY <1>2, <1>3, <1>4, <1>5

(* A cut where the text goes on at once is a hard one.                     *)
LEMMA HardCut ==
  ASSUME TypeOK, pc = "split", Left > Reach, NEW c \in Cuts,
         text[at + c] \notin Blank, text[at] \notin Blank
  PROVE  /\ c = Reach
         /\ \A j \in at .. at + c - 1 : text[j] # "sp"
<1>1. at \in Nat /\ Reach \in Nat /\ c \in 1 .. Reach
  BY DEF TypeOK, Cuts
<1>2. c \notin Occurrences(Paragraph) /\ c \notin Occurrences(Word)
  BY Found
<1>3. c - 1 \notin Occurrences(Sentence)
  BY <1>1, Found
<1>4. Occurrences(Word) = {} /\ c = Reach
  BY <1>2, <1>3 DEF Cuts, IsLast
<1>5. \A p \in 0 .. Reach - 1 : text[at + p] # "sp"
  BY <1>1, <1>4, Found
<1>6. ASSUME NEW j \in at .. at + c - 1 PROVE text[j] # "sp"
  <2>1. j - at \in 0 .. Reach - 1 /\ at + (j - at) = j
    BY <1>1, <1>4
  <2> QED
    BY <1>5, <2>1
<1> QED
  BY <1>4, <1>6

-----------------------------------------------------------------------------
(* A part that is not too long, and fills its length if the text goes on   *)
(* without whitespace, leaves the splitting as it was.                     *)
LEMMA OnePartMore ==
  ASSUME IInv, pc = "split",
         NEW last \in at .. Len(text), UNCHANGED text, AddPart(at, last),
         last - at + 1 <= Reach,
         at' \in last + 1 .. Len(text) + 1,
         \A i \in last + 1 .. at' - 1 : text[i] \in Blank,
         pc' = IF at' > Len(text) THEN "done" ELSE "split",
         pc' = "split" =>
           /\ text[at'] \notin Blank
           /\ last + 1 = at' => CutFills([lo |-> at, hi |-> last])
  PROVE  IInv'
<1> DEFINE new == [lo |-> at, hi |-> last]
<1>1. /\ at \in Nat /\ at' \in 1 .. Len(text) + 1 /\ Len(text) \in Nat
      /\ parts \in Seq(Interval) /\ Len(parts) \in Nat
      /\ text # <<>> /\ Len(text) > MaxLength
  BY DEF IInv, TypeOK, Given, Interval
<1>2. /\ parts' \in Seq(Interval)
      /\ Len(parts') = Len(parts) + 1
      /\ parts'[Len(parts')] = new
      /\ \A i \in 1 .. Len(parts) : parts'[i] = parts[i]
  BY Appended
<1>3. \A i \in 1 .. Len(parts') :
        \/ i \in 1 .. Len(parts)
        \/ i = Len(parts')
  BY <1>1, <1>2
<1>4. TypeOK'
  BY <1>1, <1>2 DEF IInv, TypeOK, Interval
<1>5. Proper(text)'
  BY DEF IInv, Proper
<1>6. Given'
  <2>1. pc' # "start"
    OBVIOUS
  <2>2. pc' = "split" => at' <= Len(text)
    BY <1>1
  <2>3. \A i \in 1 .. Len(parts') : parts'[i].hi < at'
    BY Appended
  <2> QED
    BY <1>1, <2>1, <2>2, <2>3 DEF Given
<1>7. NothingLost'
  <2>1. pc' = "done" => at' = Len(text) + 1
    BY <1>1
  <2>2. \A j \in 1 .. at' - 1 : text[j] \notin Blank =>
          \E i \in 1 .. Len(parts') : Holds(i, j)'
    BY Appended
  <2>3. \A i \in 1 .. Len(parts') - 1 : parts'[i].hi < parts'[i + 1].lo
    BY Appended
  <2> QED
    BY <2>1, <2>2, <2>3 DEF NothingLost
<1>8. NoEmptyPart'
  <2> SUFFICES ASSUME NEW i \in 1 .. Len(parts')
               PROVE  parts'[i].lo <= parts'[i].hi
    BY DEF NoEmptyPart
  <2>1. CASE i = Len(parts')
    BY <1>1, <1>2, <2>1
  <2>2. CASE i \in 1 .. Len(parts)
    <3>1. parts'[i] = parts[i]
      BY <1>2, <2>2
    <3> QED
      BY <1>1, <2>2, <3>1 DEF IInv, NoEmptyPart
  <2> QED
    BY <1>3, <2>1, <2>2
<1>9. RawPartsFit'
  <2> SUFFICES ASSUME NEW i \in 1 .. Len(parts')
               PROVE  parts'[i].hi - parts'[i].lo + 1 <= Reach
    BY DEF RawPartsFit, Size
  <2>1. CASE i = Len(parts')
    BY <1>1, <1>2, <2>1
  <2>2. CASE i \in 1 .. Len(parts)
    <3>1. parts'[i] = parts[i]
      BY <1>2, <2>2
    <3> QED
      BY <1>1, <2>2, <3>1 DEF IInv, RawPartsFit, Size
  <2> QED
    BY <1>3, <2>1, <2>2
<1>10. WordsWhole'
  <2> SUFFICES ASSUME NEW i \in 1 .. Len(parts') - 1,
                      parts'[i + 1].lo = parts'[i].hi + 1
               PROVE  CutFills(parts'[i])
    BY DEF WordsWhole, CutFills, Size
  <2>1. CASE i = Len(parts)
    <3>1. /\ i \in 1 .. Len(parts) /\ parts # <<>>
          /\ parts'[i] = parts[i] /\ parts'[i + 1] = new
      BY <1>1, <1>2, <2>1
    <3>2. parts[Len(parts)].hi + 1 = at
      BY <2>1, <3>1
    <3>3. CutFills(parts[Len(parts)])
      BY <3>1, <3>2 DEF IInv, LastCut
    <3> QED
      BY <2>1, <3>1, <3>3
  <2>2. CASE i \in 1 .. Len(parts) - 1
    <3>1. i + 1 \in 1 .. Len(parts) /\ i \in 1 .. Len(parts)
      BY <1>1, <2>2
    <3>2. parts'[i] = parts[i] /\ parts'[i + 1] = parts[i + 1]
      BY <1>2, <3>1
    <3> QED
      BY <2>2, <3>2 DEF IInv, WordsWhole, CutFills, Size
  <2> QED
    BY <1>1, <1>2, <2>1, <2>2
<1>11. LastCut'
  <2> SUFFICES ASSUME pc' = "split", new.hi + 1 = at'
               PROVE  CutFills(new)
    BY <1>2 DEF LastCut, CutFills
  <2> QED
    OBVIOUS
<1> QED
  BY <1>4, <1>5, <1>6, <1>7, <1>8, <1>9, <1>10, <1>11 DEF IInv

LEMMA Initial == Init => IInv
<1> SUFFICES ASSUME Init PROVE IInv
  OBVIOUS
<1>1. /\ pc = "start" /\ at = 1 /\ parts = <<>> /\ Len(parts) = 0
      /\ text \in Seq(Chars) /\ Len(text) \in Nat /\ Proper(text)
  BY DEF Init, Start, Proper
<1>2. parts \in Seq(Interval)
  BY <1>1
<1>3. TypeOK /\ NothingLost
  BY <1>1, <1>2 DEF TypeOK, NothingLost, Interval
<1> QED
  BY <1>1, <1>3
     DEF IInv, Given, NoEmptyPart, RawPartsFit, WordsWhole, LastCut

LEMMA WholeKeeps == IInv /\ Whole => IInv'
<1> SUFFICES ASSUME IInv, Whole PROVE IInv'
  OBVIOUS
<1> DEFINE all == [lo |-> 1, hi |-> Len(text)]
<1>1. /\ text \in Seq(Chars) /\ Len(text) \in Nat /\ text' = text
      /\ pc' = "done" /\ at' = Len(text) + 1 /\ Len(text) <= MaxLength
      /\ Proper(text)
  BY DEF IInv, TypeOK, Whole
<1>2. parts = <<>>
  BY DEF IInv, Given, Whole
<1>3. parts' = <<all>> /\ all \in Interval
  BY <1>1, <1>2 DEF Whole, AddPart, Interval
<1>4. parts' \in Seq(Interval) /\ Len(parts') = 1 /\ parts'[1] = all
  BY <1>3
<1>5. TypeOK'
  BY <1>1, <1>4 DEF TypeOK, Interval
<1>6. NothingLost'
  BY <1>1, <1>4 DEF NothingLost, Holds
<1>7. NoEmptyPart'
  <2>1. text # <<>> => Len(text) >= 1
    BY <1>1
  <2> QED
    BY <1>1, <1>4, <2>1 DEF NoEmptyPart
<1>8. Given' /\ RawPartsFit' /\ WordsWhole' /\ LastCut'
  BY <1>1, <1>4 DEF Given, RawPartsFit, WordsWhole, LastCut
<1> QED
  BY <1>1, <1>5, <1>6, <1>7, <1>8 DEF IInv, Proper

LEMMA BeginKeeps == IInv /\ Begin => IInv'
<1> SUFFICES ASSUME IInv, Begin PROVE IInv'
  OBVIOUS
<1>1. /\ text \in Seq(Chars) /\ Len(text) \in Nat /\ Len(text) > MaxLength
      /\ at = 1 /\ parts = <<>> /\ Len(parts) = 0 /\ pc' = "split"
      /\ UNCHANGED <<text, at, parts>>
  BY DEF IInv, TypeOK, Given, Begin
<1>2. at <= Len(text) /\ text[at] \notin Blank
  BY <1>1 DEF IInv, Proper
<1>3. TypeOK' /\ NothingLost'
  BY <1>1, <1>2 DEF IInv, TypeOK, NothingLost, Holds
<1> QED
  BY <1>1, <1>2, <1>3
     DEF IInv, Proper, Given, NoEmptyPart, RawPartsFit, WordsWhole, LastCut

(* rstrip stops at the latest at the first character, which is none; and   *)
(* between it and lstrip's end there is only whitespace.                   *)
LEMMA SplitOnceKeeps == IInv /\ SplitOnce => IInv' /\ at' > at
<1> SUFFICES ASSUME IInv, SplitOnce PROVE IInv' /\ at' > at
  OBVIOUS
<1>1. /\ pc = "split" /\ Left > Reach /\ text' = text /\ TypeOK
      /\ at \in Nat /\ at >= 1 /\ Len(text) \in Nat /\ text[at] \notin Blank
      /\ Len(text) - at + 1 > Reach /\ Reach \in Nat
      /\ pc' = IF at' > Len(text) THEN "done" ELSE "split"
  BY DEF IInv, TypeOK, Given, SplitOnce, Left
<1>2. PICK c \in Cuts, last \in 0 .. Len(text) :
        /\ StripsRight(at + c - 1, last)
        /\ AddPart(at, last)
        /\ StripsLeft(at + c - 1, at')
  BY DEF SplitOnce
<1>3. c \in 1 .. Reach
  BY DEF Cuts
<1>4. /\ at' \in Nat /\ at' >= at + c /\ at' <= Len(text) + 1
      /\ last <= at + c - 1 /\ last \in Nat
  BY <1>1, <1>2, <1>3 DEF StripsRight, StripsLeft
<1>5. last >= at
  <2>1. CASE last = at - 1
    <3>1. at \in last + 1 .. at + c - 1
      BY <1>1, <1>3, <2>1
    <3>2. text[at] \in Blank
      BY <1>2, <3>1 DEF StripsRight
    <3> QED
      BY <1>1, <3>2, Zenon
  <2>2. last >= at - 1
    BY <1>1, <1>2, <1>3 DEF StripsRight
  <2> QED
    BY <1>1, <1>4, <2>1, <2>2
<1>6. ASSUME NEW i \in last + 1 .. at' - 1
      PROVE  text[i] \in Blank
  <2>1. CASE i <= at + c - 1
    BY <1>1, <1>2, <1>3, <1>4, <2>1 DEF StripsRight
  <2>2. CASE i > at + c - 1
    <3> DEFINE next == at'
    <3>1. next \in Nat /\ i \in last + 1 .. next - 1
      BY <1>4
    <3>2. \A j \in at + c - 1 + 1 .. next - 1 : text[j] \in Blank
      BY <1>2 DEF StripsLeft
    <3> HIDE DEF next
    <3>3. i \in at + c - 1 + 1 .. next - 1
      BY <1>1, <1>3, <1>4, <2>2, <3>1
    <3> QED
      BY <3>2, <3>3, Zenon
  <2> QED
    BY <1>1, <1>3, <1>4, <2>1, <2>2
<1>7. pc' = "split" => text[at'] \notin Blank
  BY <1>1, <1>2, <1>4 DEF StripsLeft
<1>8. ASSUME pc' = "split", last + 1 = at'
      PROVE  CutFills([lo |-> at, hi |-> last])
  <2>1. last = at + c - 1 /\ at' = at + c
    BY <1>1, <1>3, <1>4, <1>8
  <2>2. text[at + c] \notin Blank
    BY <1>7, <1>8, <2>1
  <2>3. c = Reach /\ \A j \in at .. at + c - 1 : text[j] # "sp"
    BY <1>1, <2>2, HardCut
  <2> QED
    BY <1>1, <2>1, <2>3 DEF CutFills
<1>9. last \in at .. Len(text) /\ at' \in last + 1 .. Len(text) + 1
  BY <1>1, <1>3, <1>4, <1>5
<1>10. last - at + 1 <= Reach
  BY <1>1, <1>3, <1>4
<1>11. IInv'
  BY <1>1, <1>2, <1>6, <1>7, <1>8, <1>9, <1>10, OnePartMore
<1> QED
  BY <1>1, <1>3, <1>4, <1>11

LEMMA LastPartKeeps == IInv /\ LastPart => IInv' /\ at' > at
<1> SUFFICES ASSUME IInv, LastPart PROVE IInv' /\ at' > at
  OBVIOUS
<1>1. /\ pc = "split" /\ pc' = "done" /\ text' = text
      /\ at \in Nat /\ at >= 1 /\ Len(text) \in Nat /\ at <= Len(text)
      /\ at' = Len(text) + 1 /\ Len(text) - at + 1 <= Reach /\ Reach \in Nat
      /\ AddPart(at, Len(text))
  BY DEF IInv, TypeOK, Given, LastPart, AddRest, Left
<1>2. /\ Len(text) \in at .. Len(text)
      /\ at' \in Len(text) + 1 .. Len(text) + 1
      /\ \A i \in Len(text) + 1 .. at' - 1 : text[i] \in Blank
      /\ pc' = IF at' > Len(text) THEN "done" ELSE "split"
  BY <1>1
<1>3. IInv'
  BY <1>1, <1>2, OnePartMore
<1> QED
  BY <1>1, <1>3

LEMMA StutterKeeps == IInv /\ UNCHANGED vars => IInv'
BY DEF IInv, vars, TypeOK, Proper, Given, NothingLost, Holds, NoEmptyPart,
       RawPartsFit, Size, WordsWhole, LastCut, CutFills

-----------------------------------------------------------------------------
(* The inductive invariant of the splitting.                               *)
THEOREM Invariance == Spec => []IInv
<1>1. IInv /\ [Next]_vars => IInv'
  BY WholeKeeps, BeginKeeps, SplitOnceKeeps, LastPartKeeps, StutterKeeps
     DEF Next, Done
<1> QED
  BY Initial, <1>1, PTL DEF Spec

(* Types, for every text and every limit.                                  *)
THEOREM TypeCorrect == Spec => []TypeOK
<1>1. IInv => TypeOK
  BY DEF IInv
<1> QED
  BY <1>1, Invariance, PTL

(* split loses no character but whitespace, and repeats none.              *)
THEOREM AllIsSent == Spec => []NothingLost
<1>1. IInv => NothingLost
  BY DEF IInv
<1> QED
  BY <1>1, Invariance, PTL

(* split yields no empty part, which Meta would reject.                    *)
THEOREM PartsHoldText == Spec => []NoEmptyPart
<1>1. IInv => NoEmptyPart
  BY DEF IInv
<1> QED
  BY <1>1, Invariance, PTL

(* Every part leaves room for the prefix it is given.                      *)
THEOREM RoomForPrefix == Spec => []RawPartsFit
<1>1. IInv => RawPartsFit
  BY DEF IInv
<1> QED
  BY <1>1, Invariance, PTL

(* Only a stretch that fills a part without a space is torn apart.         *)
THEOREM WordsKept == Spec => []WordsWhole
<1>1. IInv => WordsWhole
  BY DEF IInv
<1> QED
  BY <1>1, Invariance, PTL

(* Every call of _do_split passes less text on, so it returns.             *)
THEOREM LessIsLeft == Spec => Shrinks
<1>1. IInv /\ [Next]_vars => [pc = "split" => at' > at]_vars
  <2> SUFFICES ASSUME IInv, Next, pc = "split", ~UNCHANGED vars
               PROVE  at' > at
    OBVIOUS
  <2>1. SplitOnce \/ LastPart
    BY DEF Next, Whole, Begin, Done
  <2> QED
    BY <2>1, SplitOnceKeeps, LastPartKeeps
<1> QED
  BY <1>1, Invariance, PTL DEF Spec, Shrinks

-----------------------------------------------------------------------------
(* What _find_split_point leaves behind: a part cut at a delimiter ends at *)
(* the last one in reach, so that no other of its kind starts in what was  *)
(* left of the reach; any other cut uses up the reach.                     *)
Delimiters == {Paragraph, Sentence, Word}

Stands(d, i) == SubSeq(text, i, i + Len(d) - 1) = d

DelimitedBy(d, first, next) ==
  \E p \in 1 .. Reach - Len(d) :
    /\ Stands(d, first + p)
    /\ \A q \in 1 .. Reach - Len(d) : Stands(d, first + q) => q <= p
    /\ next >= first + p + Len(d)

CutBetween(first, next) ==
  \/ next >= first + Reach
  \/ \E d \in Delimiters : DelimitedBy(d, first, next)

CutsKnown ==
  /\ \A i \in 1 .. Len(parts) - 1 : CutBetween(parts[i].lo, parts[i + 1].lo)
  /\ pc = "split" /\ parts # <<>> => CutBetween(parts[Len(parts)].lo, at)

(* Four parts use up a reach, so 4 * k parts use up k.                     *)
Spread ==
  \A i \in 1 .. Len(parts), k \in 0 .. Len(parts) :
    i > 4 * k => parts[i].lo > k * Reach

(* Two cuts at the same delimiter lie a reach apart: the second one was    *)
(* out of reach of the first.                                              *)
LEMMA SameDelimiter ==
  ASSUME NEW d \in Delimiters, NEW first \in Nat, NEW next \in Nat,
         NEW second \in Nat, NEW end \in Nat, next <= second,
         DelimitedBy(d, first, next), DelimitedBy(d, second, end)
  PROVE  end >= first + Reach
<1>1. Len(d) \in Nat /\ Reach \in Nat
  BY DEF Delimiters, Paragraph, Sentence, Word
<1> HIDE DEF Reach
<1>2. PICK p \in 1 .. Reach - Len(d) :
        /\ \A q \in 1 .. Reach - Len(d) : Stands(d, first + q) => q <= p
        /\ next >= first + p + Len(d)
  BY DEF DelimitedBy
<1>3. PICK r \in 1 .. Reach - Len(d) :
        /\ Stands(d, second + r)
        /\ end >= second + r + Len(d)
  BY DEF DelimitedBy
<1> DEFINE q == second + r - first
<1>4. q \in Nat /\ q > p /\ first + q = second + r
  BY <1>1, <1>2, <1>3
<1>5. q > Reach - Len(d)
  <2> SUFFICES ASSUME q <= Reach - Len(d) PROVE FALSE
    BY <1>1, <1>4
  <2>1. q \in 1 .. Reach - Len(d)
    BY <1>1, <1>2, <1>4
  <2>2. Stands(d, first + q)
    BY <1>3, <1>4
  <2>3. q <= p
    BY <1>2, <2>1, <2>2
  <2> QED
    BY <1>2, <1>4, <2>3
<1> QED
  BY <1>1, <1>2, <1>3, <1>4, <1>5

LEMMA CutsAdvance ==
  ASSUME NEW first \in Nat, NEW next \in Nat, CutBetween(first, next)
  PROVE  first < next
<1>1. Reach \in Nat /\ Reach > 0
  OBVIOUS
<1> HIDE DEF Reach
<1>2. ASSUME NEW d \in Delimiters, DelimitedBy(d, first, next)
      PROVE  first < next
  <2>1. Len(d) \in Nat
    BY DEF Delimiters, Paragraph, Sentence, Word
  <2>2. PICK p \in 1 .. Reach - Len(d) : next >= first + p + Len(d)
    BY <1>2 DEF DelimitedBy
  <2> QED
    BY <1>1, <2>1, <2>2
<1> QED
  BY <1>1, <1>2 DEF CutBetween

(* Among four cuts one is hard or two are at the same delimiter.           *)
LEMMA FourCuts ==
  ASSUME NEW a \in Nat, NEW b \in Nat, NEW c \in Nat, NEW d \in Nat,
         NEW e \in Nat,
         CutBetween(a, b), CutBetween(b, c), CutBetween(c, d), CutBetween(d, e)
  PROVE  e - a >= Reach
<1>1. Reach \in Nat /\ a < b /\ b < c /\ c < d /\ d < e
  BY CutsAdvance
<1> HIDE DEF Reach
<1>2. CASE \/ b >= a + Reach \/ c >= b + Reach
           \/ d >= c + Reach \/ e >= d + Reach
  BY <1>1, <1>2
<1>3. CASE \E k, l, m, n \in Delimiters :
             /\ DelimitedBy(k, a, b) /\ DelimitedBy(l, b, c)
             /\ DelimitedBy(m, c, d) /\ DelimitedBy(n, d, e)
  <2>1. PICK k, l, m, n \in Delimiters :
          /\ DelimitedBy(k, a, b) /\ DelimitedBy(l, b, c)
          /\ DelimitedBy(m, c, d) /\ DelimitedBy(n, d, e)
    BY <1>3
  <2>2. k = l \/ k = m \/ k = n \/ l = m \/ l = n \/ m = n
    BY DEF Delimiters
  <2>3. CASE k = l
    <3>1. c >= a + Reach
      BY <1>1, <2>1, <2>3, SameDelimiter
    <3> QED
      BY <1>1, <3>1
  <2>4. CASE k = m
    <3>1. d >= a + Reach
      BY <1>1, <2>1, <2>4, SameDelimiter
    <3> QED
      BY <1>1, <3>1
  <2>5. CASE k = n
    <3>1. e >= a + Reach
      BY <1>1, <2>1, <2>5, SameDelimiter
    <3> QED
      BY <1>1, <3>1
  <2>6. CASE l = m
    <3>1. d >= b + Reach
      BY <1>1, <2>1, <2>6, SameDelimiter
    <3> QED
      BY <1>1, <3>1
  <2>7. CASE l = n
    <3>1. e >= b + Reach
      BY <1>1, <2>1, <2>7, SameDelimiter
    <3> QED
      BY <1>1, <3>1
  <2>8. CASE m = n
    <3>1. e >= c + Reach
      BY <1>1, <2>1, <2>8, SameDelimiter
    <3> QED
      BY <1>1, <3>1
  <2> QED
    BY <2>2, <2>3, <2>4, <2>5, <2>6, <2>7, <2>8
<1> QED
  BY <1>2, <1>3 DEF CutBetween

(* In every reachable state four parts in a row reach far.                 *)
LEMMA KnownCutsReach == IInv /\ CutsKnown => FourPartsReach
<1> SUFFICES ASSUME IInv, CutsKnown, NEW i \in 1 .. Len(parts) - 4
             PROVE  parts[i + 4].lo - parts[i].lo >= Reach
  BY DEF FourPartsReach
<1>1. Len(parts) \in Nat /\ parts \in Seq(Interval)
  BY DEF IInv, TypeOK, Interval
<1>2. \A j \in 1 .. Len(parts) : parts[j].lo \in Nat
  <2>1. \A j \in 1 .. Len(parts) : parts[j] \in Interval
    BY <1>1
  <2> QED
    BY <2>1 DEF Interval
<1>3. /\ {i, i + 1, i + 2, i + 3} \subseteq 1 .. Len(parts) - 1
      /\ {i, i + 1, i + 2, i + 3, i + 4} \subseteq 1 .. Len(parts)
      /\ i + 1 + 1 = i + 2 /\ i + 2 + 1 = i + 3 /\ i + 3 + 1 = i + 4
  BY <1>1
<1>4. /\ CutBetween(parts[i].lo, parts[i + 1].lo)
      /\ CutBetween(parts[i + 1].lo, parts[i + 2].lo)
      /\ CutBetween(parts[i + 2].lo, parts[i + 3].lo)
      /\ CutBetween(parts[i + 3].lo, parts[i + 4].lo)
  BY <1>3 DEF CutsKnown
<1> QED
  BY <1>2, <1>3, <1>4, FourCuts

(* A cut that _find_split_point chose is one of those; the delimiter's     *)
(* characters are stripped.                                                *)
LEMMA CutMade ==
  ASSUME IInv, SplitOnce
  PROVE  CutBetween(at, at')
<1> USE DEF Paragraph, Sentence, Word
<1>1. /\ pc = "split" /\ Left > Reach /\ text' = text /\ TypeOK
      /\ at \in Nat /\ at >= 1 /\ Len(text) \in Nat
      /\ Len(text) - at + 1 > Reach /\ Reach \in Nat
  BY DEF IInv, TypeOK, SplitOnce, Left
<1>2. PICK c \in Cuts : StripsLeft(at + c - 1, at')
  BY DEF SplitOnce
<1>3. c \in 1 .. Reach
  BY DEF Cuts
<1> DEFINE next == at'
<1>4. /\ next \in Nat /\ next >= at + c
      /\ next <= Len(text) => text[next] \notin Blank
  BY <1>1, <1>2, <1>3 DEF StripsLeft
<1> HIDE DEF next
<1>5. ASSUME NEW d \in Delimiters, NEW p, IsLast(p, Occurrences(d)),
             next >= at + p + Len(d)
      PROVE  CutBetween(at, next)
  <2>1. \A q \in 1 .. Reach - Len(d) : q \in Occurrences(d) <=> Stands(d, at + q)
    BY DEF Occurrences, Stands
  <2>2. p \in 1 .. Reach - Len(d)
    BY <1>5 DEF IsLast, Occurrences
  <2>3. DelimitedBy(d, at, next)
    BY <1>5, <2>1, <2>2 DEF IsLast, DelimitedBy
  <2> QED
    BY <2>3 DEF CutBetween
<1>6. CASE IsLast(c, Occurrences(Paragraph))
  <2>1. text[at + c] = "nl" /\ text[at + c + 1] = "nl" /\ c <= Reach - 2
    <3>1. c \in Occurrences(Paragraph)
      BY <1>6 DEF IsLast
    <3>2. c <= Reach - 2
      BY <1>1, <1>3, <3>1 DEF Occurrences
    <3> QED
      BY <1>1, <3>1, <3>2, Found
  <2>2. next # at + c /\ next # at + c + 1
    BY <1>1, <1>3, <1>4, <2>1
  <2>3. next >= at + c + Len(Paragraph)
    BY <1>1, <1>3, <1>4, <2>2
  <2> QED
    BY <1>5, <1>6, <2>3 DEF Delimiters, next
<1>7. CASE IsLast(c - 1, Occurrences(Sentence))
  <2>1. text[at + (c - 1) + 1] = "sp" /\ c <= Reach - 1
    <3>1. c - 1 \in Occurrences(Sentence)
      BY <1>7 DEF IsLast
    <3>2. c - 1 <= Reach - 2
      BY <1>1, <1>3, <3>1 DEF Occurrences
    <3> QED
      BY <1>1, <1>3, <3>1, <3>2, Found
  <2>2. at + (c - 1) + 1 = at + c
    BY <1>1, <1>3
  <2>3. next # at + c
    BY <1>1, <1>3, <1>4, <2>1, <2>2
  <2>4. next >= at + (c - 1) + Len(Sentence)
    BY <1>1, <1>3, <1>4, <2>3
  <2> QED
    BY <1>5, <1>7, <2>4 DEF Delimiters, next
<1>8. CASE IsLast(c, Occurrences(Word))
  <2>1. text[at + c] = "sp" /\ c <= Reach - 1
    BY <1>1, <1>8, Found DEF IsLast, Occurrences
  <2>2. next # at + c
    BY <1>1, <1>3, <1>4, <2>1
  <2>3. next >= at + c + Len(Word)
    BY <1>1, <1>3, <1>4, <2>2
  <2> QED
    BY <1>5, <1>8, <2>3 DEF Delimiters, next
<1>9. CASE c = Reach
  BY <1>4, <1>9 DEF CutBetween, next
<1> QED
  BY <1>6, <1>7, <1>8, <1>9 DEF Cuts

(* The next call keeps what is known of the cuts.                          *)
LEMMA CutsStep == IInv /\ CutsKnown /\ [Next]_vars => CutsKnown'
<1> SUFFICES ASSUME IInv, CutsKnown, [Next]_vars PROVE CutsKnown'
  OBVIOUS
<1>1. /\ parts \in Seq(Interval) /\ Len(parts) \in Nat /\ Len(text) \in Nat
      /\ text' = text
  BY DEF IInv, TypeOK, Interval, Next, Whole, Begin, SplitOnce, LastPart, Done,
     vars
<1>2. ASSUME NEW last \in 0 .. Len(text), AddPart(at, last), pc = "split",
             pc' = "split" => CutBetween(at, at')
      PROVE  CutsKnown'
  <2> DEFINE new == [lo |-> at, hi |-> last]
  <2>1. new \in Interval
    BY DEF IInv, TypeOK, Interval
  <2>2. /\ Len(parts') = Len(parts) + 1
        /\ parts' # <<>>
        /\ parts'[Len(parts')] = new
        /\ \A i \in 1 .. Len(parts) : parts'[i] = parts[i]
    BY <1>1, <1>2, <2>1 DEF AddPart
  <2>3. ASSUME NEW i \in 1 .. Len(parts') - 1
        PROVE  CutBetween(parts'[i].lo, parts'[i + 1].lo)
    <3>1. CASE i = Len(parts)
      <4>1. parts # <<>> /\ CutBetween(parts[Len(parts)].lo, at)
        BY <1>1, <1>2, <3>1 DEF CutsKnown
      <4> QED
        BY <1>1, <2>2, <3>1, <4>1
    <3>2. CASE i \in 1 .. Len(parts) - 1
      <4>1. parts'[i] = parts[i] /\ parts'[i + 1] = parts[i + 1]
        BY <1>1, <2>2, <3>2
      <4> QED
        BY <3>2, <4>1 DEF CutsKnown
    <3> QED
      BY <1>1, <2>2, <3>1, <3>2
  <2>4. pc' = "split" => CutBetween(parts'[Len(parts')].lo, at')
    BY <1>2, <2>2
  <2>5. \A i, j : CutBetween(i, j)' <=> CutBetween(i, j)
    BY <1>1 DEF CutBetween, DelimitedBy, Stands
  <2> QED
    BY <1>1, <2>3, <2>4 DEF CutsKnown, CutBetween, DelimitedBy, Stands
<1>3. CASE SplitOnce
  BY <1>2, <1>3, CutMade DEF SplitOnce
<1>4. CASE LastPart
  <2>1. Len(text) \in 0 .. Len(text)
    BY <1>1
  <2> QED
    BY <1>2, <1>4, <2>1 DEF LastPart, AddRest
<1>5. CASE Whole
  <2>1. parts = <<>>
    BY <1>5 DEF IInv, Given, Whole
  <2>2. Len(parts') = 1 /\ pc' = "done"
    BY <1>5, <2>1 DEF Whole, AddPart
  <2> QED
    BY <2>2 DEF CutsKnown
<1>6. CASE Begin
  <2>1. parts' = <<>>
    BY <1>6 DEF IInv, Given, Begin
  <2> QED
    BY <2>1 DEF CutsKnown
<1>7. CASE UNCHANGED vars
  BY <1>7 DEF vars, CutsKnown, CutBetween, DelimitedBy, Stands
<1> QED
  BY <1>3, <1>4, <1>5, <1>6, <1>7 DEF Next, Done

LEMMA CutsAlways == Spec => []CutsKnown
<1>1. Init => CutsKnown
  BY DEF Init, Start, CutsKnown
<1> QED
  BY <1>1, CutsStep, Invariance, PTL DEF Spec

(* However the delimiters lie, any four parts in a row hold as much of the *)
(* text as one hard cut.                                                   *)
THEOREM FourReach == Spec => []FourPartsReach
BY KnownCutsReach, Invariance, CutsAlways, PTL

(* A part that is added starts a reach behind the one four before it.      *)
LEMMA SpreadStep == IInv /\ Spread /\ FourPartsReach' /\ [Next]_vars => Spread'
<1> SUFFICES ASSUME IInv, Spread, FourPartsReach', [Next]_vars PROVE Spread'
  OBVIOUS
<1>1. /\ parts \in Seq(Interval) /\ Len(parts) \in Nat /\ Reach \in Nat
      /\ at \in Nat /\ at >= 1
  BY DEF IInv, TypeOK, Interval
<1>2. CASE UNCHANGED parts
  BY <1>2 DEF Spread
<1>3. ASSUME NEW last \in 0 .. Len(text), NEW first \in 1 .. Len(text) + 1,
             AddPart(first, last)
      PROVE  Spread'
  <2> DEFINE n == Len(parts) + 1
             new == [lo |-> first, hi |-> last]
  <2>1. new \in Interval
    BY <1>3 DEF Interval
  <2>2. /\ Len(parts') = n
        /\ parts'[n] = new
        /\ \A i \in 1 .. Len(parts) : parts'[i] = parts[i]
    BY <1>1, <1>3, <2>1 DEF AddPart
  <2>3. SUFFICES ASSUME NEW i \in 1 .. n, NEW k \in 0 .. n, i > 4 * k
                 PROVE  parts'[i].lo > k * Reach
    BY <2>2 DEF Spread
  <2>4. CASE i # n
    <3>1. i \in 1 .. Len(parts) /\ k \in 0 .. Len(parts)
      BY <1>1, <2>3, <2>4
    <3>2. parts[i].lo > k * Reach
      BY <2>3, <3>1 DEF Spread
    <3> QED
      BY <2>2, <3>1, <3>2
  <2>5. CASE i = n /\ k = 0
    BY <1>1, <1>3, <2>2, <2>5
  <2>6. CASE i = n /\ k > 0
    <3>1. /\ n - 4 \in 1 .. Len(parts) /\ k - 1 \in 0 .. Len(parts)
          /\ n - 4 > 4 * (k - 1) /\ n - 4 \in 1 .. n - 4
          /\ n - 4 + 4 = n
      BY <1>1, <2>3, <2>6
    <3>2. parts[n - 4].lo > (k - 1) * Reach
      BY <3>1 DEF Spread
    <3>3. parts'[n - 4] = parts[n - 4]
      BY <2>2, <3>1
    <3>4. parts'[n - 4 + 4].lo - parts'[n - 4].lo >= Reach
      <4> HIDE DEF n
      <4> QED
        BY <2>2, <3>1 DEF FourPartsReach
    <3>5. parts[n - 4].lo \in Nat /\ new.lo \in Nat
      <4>1. parts[n - 4] \in Interval
        BY <1>1, <3>1
      <4> QED
        BY <4>1, <1>3 DEF Interval
    <3>6. (k - 1) * Reach + Reach = k * Reach /\ (k - 1) * Reach \in Int
      BY <1>1, <2>6
    <3>7. parts'[i].lo = new.lo /\ new.lo - parts[n - 4].lo >= Reach
      BY <2>2, <2>6, <3>1, <3>3, <3>4
    <3> HIDE DEF n, new
    <3> QED
      BY <1>1, <3>2, <3>5, <3>6, <3>7
  <2> QED
    BY <1>1, <2>3, <2>4, <2>5, <2>6
<1>4. CASE Whole
  <2>1. 1 \in 1 .. Len(text) + 1 /\ Len(text) \in 0 .. Len(text)
    BY DEF IInv, TypeOK
  <2> QED
    BY <1>3, <1>4, <2>1 DEF Whole
<1>5. CASE SplitOnce \/ LastPart
  <2>1. at \in 1 .. Len(text) + 1 /\ Len(text) \in 0 .. Len(text)
    BY DEF IInv, TypeOK
  <2> QED
    BY <1>3, <1>5, <2>1 DEF SplitOnce, LastPart, AddRest
<1> QED
  BY <1>2, <1>4, <1>5 DEF Next, Begin, Done, vars

LEMMA SpreadAlways == Spec => []Spread
<1>1. Init => Spread
  BY DEF Init, Start, Spread
<1> QED
  BY <1>1, SpreadStep, FourReach, Invariance, PTL DEF Spec

(* A text of no more than 24 reaches is cut into at most 96 parts, so that *)
(* two digits number them.                                                 *)
FewParts == Len(text) <= 24 * Reach => Len(parts) <= 96

THEOREM PartsFew == Spec => []FewParts
<1>1. IInv /\ Spread => FewParts
  <2> SUFFICES ASSUME IInv, Spread, Len(text) <= 24 * Reach, Len(parts) > 96
               PROVE  FALSE
    BY DEF FewParts, IInv, TypeOK
  <2>1. /\ parts \in Seq(Interval) /\ Len(parts) \in Nat /\ Len(text) \in Nat
        /\ Reach \in Nat /\ Reach > 0
    BY DEF IInv, TypeOK, Interval
  <2> HIDE DEF Reach
  <2>2. 97 \in 1 .. Len(parts) /\ 24 \in 0 .. Len(parts) /\ 97 > 4 * 24
    BY <2>1
  <2>3. parts[97].lo > 24 * Reach
    BY <2>2 DEF Spread
  <2>4. parts[97] \in Interval /\ text # <<>>
    <3>1. parts[97] \in Interval
      BY <2>1, <2>2
    <3>2. text # <<>>
      BY <2>1, <2>3, <3>1 DEF Interval
    <3> QED
      BY <3>1, <3>2
  <2>5. parts[97].lo <= parts[97].hi
    BY <2>2, <2>4 DEF IInv, NoEmptyPart
  <2> QED
    BY <2>1, <2>3, <2>4, <2>5 DEF Interval
<1> QED
  BY <1>1, Invariance, SpreadAlways, PTL

(* A number below 100 is written with at most two digits.                  *)
LEMMA TwoDigits ==
  ASSUME NEW n \in 1 .. 99
  PROVE  Digits(n) \in 0 .. 2
<1> DEFINE powers == {p \in {1, 10, 100, 1000, 10000, 100000} : p <= n}
<1>1. IsFiniteSet({1}) /\ Cardinality({1}) = 1
  BY FS_Singleton
<1>2. IsFiniteSet({1} \cup {10}) /\ Cardinality({1} \cup {10}) = 2
  BY <1>1, FS_AddElement
<1>3. powers \in SUBSET ({1} \cup {10})
  OBVIOUS
<1>4. IsFiniteSet(powers) /\ Cardinality(powers) <= 2
  <2>1. Cardinality(powers) <= Cardinality({1} \cup {10}) /\ IsFiniteSet(powers)
    <3> HIDE DEF powers
    <3> QED
      BY <1>2, <1>3, FS_Subset
  <2> QED
    BY <1>2, <2>1
<1>5. Cardinality(powers) \in Nat
  BY <1>4, FS_CardinalityType
<1> QED
  BY <1>4, <1>5 DEF Digits

(* The reserve of eight characters is enough for the numbers of up to 99   *)
(* parts: with them, every part fits the platform.                         *)
THEOREM NumbersFit ==
  ASSUME Reserve >= 8
  PROVE  Spec => []PartsFit
<1>1. IInv => PartsFit
  <2> SUFFICES ASSUME IInv, Len(parts) <= 99, NEW i \in 1 .. Len(parts)
               PROVE  SentLength(i) <= MaxLength
    BY DEF PartsFit
  <2>1. Len(parts) \in Nat /\ Len(text) \in Nat
    BY DEF IInv, TypeOK
  <2>2. Size(i) \in Int /\ Size(i) <= Len(text)
    <3>1. parts \in Seq(Interval)
      BY DEF IInv, TypeOK, Interval
    <3>2. parts[i] \in Interval
      BY <3>1
    <3> QED
      BY <2>1, <3>2 DEF Interval, Size
  <2>3. CASE Len(text) <= MaxLength
    BY <2>1, <2>2, <2>3 DEF SentLength
  <2>4. CASE Len(text) > MaxLength
    <3>1. Size(i) <= MaxLength - Reserve
      BY <2>4 DEF IInv, RawPartsFit
    <3>2. Digits(i) \in 0 .. 2 /\ Digits(Len(parts)) \in 0 .. 2
      <4> DEFINE n == Len(parts)
      <4>1. n \in Nat /\ n <= 99 /\ i \in 1 .. n
        BY <2>1
      <4> HIDE DEF n
      <4>2. i \in 1 .. 99 /\ n \in 1 .. 99
        BY <4>1
      <4> QED
        BY <4>2, TwoDigits DEF n
    <3>3. SentLength(i) = 4 + Digits(i) + Digits(Len(parts)) + Size(i)
      BY <2>1, <2>4 DEF SentLength, PrefixLength
    <3> QED
      BY <2>2, <3>1, <3>2, <3>3
  <2> QED
    BY <2>1, <2>3, <2>4
<1> QED
  BY <1>1, Invariance, PTL

=============================================================================
