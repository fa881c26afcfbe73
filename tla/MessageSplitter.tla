--------------------------- MODULE MessageSplitter --------------------------
(***************************************************************************)
(* MessageSplitter.split: a text is cut into parts that fit a WhatsApp     *)
(* message, at the last paragraph, sentence or word boundary that lies     *)
(* within reach, and each part is numbered.                                *)
(*                                                                         *)
(* A part is the interval of positions of the text it holds.  The recursion *)
(* of _do_split is on the text that is left: one step per call.            *)
(***************************************************************************)
EXTENDS Integers, Sequences, FiniteSets

CONSTANTS
  MaxLength,   \* the platform's limit for a message
  Reserve      \* _MAX_PART_PREFIX_LEN

Chars == {"x", ".", "sp", "nl"}
Blank == {"sp", "nl"}

ASSUME SplitterAssumption ==
  /\ Reserve \in Nat
  /\ MaxLength \in Nat
  /\ MaxLength > Reserve

(* Mutant: the prefix gets no room. *)
Reach_Unreserved == MaxLength

(* effective_max *)
Reach == MaxLength - Reserve

VARIABLES
  pc,
  text,
  at,      \* where the text that is left starts
  parts    \* the parts so far

vars == <<pc, text, at, parts>>

Start ==
  /\ pc = "start"
  /\ at = 1
  /\ parts = <<>>

(* What its caller splits does not start with whitespace. *)
Proper(t) == t \in Seq(Chars) /\ (t # <<>> => t[1] \notin Blank)

Init == Start /\ Proper(text)

Left == Len(text) - at + 1
AddPart(first, last) == parts' = Append(parts, [lo |-> first, hi |-> last])

(* split of a text that fits: one part, no number. *)
Whole ==
  /\ pc = "start"
  /\ Len(text) <= MaxLength
  /\ AddPart(1, Len(text))
  /\ at' = Len(text) + 1
  /\ pc' = "done"
  /\ UNCHANGED text

Begin ==
  /\ pc = "start"
  /\ Len(text) > MaxLength
  /\ pc' = "split"
  /\ UNCHANGED <<text, at, parts>>

-----------------------------------------------------------------------------
Paragraph == <<"nl", "nl">>
Sentence  == <<".", "sp">>
Word      == <<"sp">>

(* Where the delimiter occurs in reach, after so many characters of what   *)
(* is left.                                                                *)
Occurrences(delimiter) ==
  {p \in 1 .. Reach - Len(delimiter) :
     SubSeq(text, at + p, at + p + Len(delimiter) - 1) = delimiter}

(* Mutant: find instead of rfind. *)
IsLast_First(p, found) == p \in found /\ \A q \in found : p <= q

(* _find_split_point: the last occurrence, unless it is at the start.      *)
IsLast(p, found) == p \in found /\ \A q \in found : q <= p

(* Mutant: without a paragraph boundary the text is cut hard. *)
Cuts_Hard ==
  LET paragraphs == Occurrences(Paragraph) IN
  {c \in 1 .. Reach :
     \/ IsLast(c, paragraphs)
     \/ paragraphs = {} /\ c = Reach}

(* The one number of characters after which what is left is cut; a         *)
(* sentence keeps its period.                                              *)
Cuts ==
  LET paragraphs == Occurrences(Paragraph)
      sentences  == Occurrences(Sentence)
      words      == Occurrences(Word)
  IN {c \in 1 .. Reach :
        \/ IsLast(c, paragraphs)
        \/ paragraphs = {} /\ IsLast(c - 1, sentences)
        \/ paragraphs = {} /\ sentences = {} /\ IsLast(c, words)
        \/ paragraphs = {} /\ sentences = {} /\ words = {} /\ c = Reach}

(* rstrip: the last position up to cut that is no whitespace.              *)
StripsRight(cut, last) ==
  /\ last \in at - 1 .. cut
  /\ last >= at => text[last] \notin Blank
  /\ \A i \in last + 1 .. cut : text[i] \in Blank

(* Mutant: the rest starts behind two characters, whatever was found.      *)
StripsLeft_Two(cut, start) == start = cut + 3

(* Mutant: the recursion is on the text it was given. *)
StripsLeft_Stays(cut, start) == start = at

(* lstrip: the first position after cut that is no whitespace.             *)
StripsLeft(cut, start) ==
  /\ start \in cut + 1 .. Len(text) + 1
  /\ start <= Len(text) => text[start] \notin Blank
  /\ \A i \in cut + 1 .. start - 1 : text[i] \in Blank

SplitOnce ==
  /\ pc = "split"
  /\ Left > Reach
  /\ \E c \in Cuts, last \in 0 .. Len(text) :
       /\ StripsRight(at + c - 1, last)
       /\ AddPart(at, last)
       /\ StripsLeft(at + c - 1, at')
  /\ pc' = IF at' > Len(text) THEN "done" ELSE "split"
  /\ UNCHANGED text

(* Mutant: the text that is left is forgotten. *)
AddRest_Drops == UNCHANGED parts

AddRest == AddPart(at, Len(text))

LastPart ==
  /\ pc = "split"
  /\ Left <= Reach
  /\ AddRest
  /\ at' = Len(text) + 1
  /\ pc' = "done"
  /\ UNCHANGED text

Done == pc = "done" /\ UNCHANGED vars

Next == Whole \/ Begin \/ SplitOnce \/ LastPart \/ Done

Spec == Init /\ [][Next]_vars

-----------------------------------------------------------------------------
(* "[i/n] ", put before every part when there are several.                 *)
Digits(n) == Cardinality({p \in {1, 10, 100, 1000, 10000, 100000} : p <= n})
PrefixLength(i, n) == 4 + Digits(i) + Digits(n)

Size(i) == parts[i].hi - parts[i].lo + 1
SentLength(i) ==
  IF Len(text) <= MaxLength THEN Size(i)
                            ELSE PrefixLength(i, Len(parts)) + Size(i)

TypeOK ==
  /\ pc \in {"start", "split", "done"}
  /\ text \in Seq(Chars)
  /\ at \in 1 .. Len(text) + 1
  /\ parts \in Seq([lo : 1 .. Len(text) + 1, hi : 0 .. Len(text)])

(* Every character of the text that is not whitespace is in one part, and  *)
(* the parts follow each other: the user reads all of the answer, once.    *)
Holds(i, j) == parts[i].lo <= j /\ j <= parts[i].hi
NothingLost ==
  /\ \A j \in 1 .. at - 1 :
       text[j] \notin Blank => \E i \in 1 .. Len(parts) : Holds(i, j)
  /\ \A i \in 1 .. Len(parts) - 1 : parts[i].hi < parts[i + 1].lo
  /\ pc = "done" => at = Len(text) + 1

(* No part is empty, which Meta would reject.                              *)
NoEmptyPart ==
  \A i \in 1 .. Len(parts) : text # <<>> => parts[i].lo <= parts[i].hi

(* Before the numbering every part of a split leaves room for the prefix.  *)
RawPartsFit ==
  Len(text) > MaxLength =>
    \A i \in 1 .. Len(parts) : Size(i) <= MaxLength - Reserve

(* With the prefix, up to 99 parts fit the platform.                       *)
PartsFit ==
  pc = "done" /\ Len(parts) <= 99 =>
    \A i \in 1 .. Len(parts) : SentLength(i) <= MaxLength

(* A word is torn apart only in a stretch that fills a part without a      *)
(* space.                                                                  *)
WordsWhole ==
  \A i \in 1 .. Len(parts) - 1 :
    parts[i + 1].lo = parts[i].hi + 1 =>
      /\ Size(i) = Reach
      /\ \A j \in parts[i].lo .. parts[i].hi : text[j] # "sp"

(* Every call of _do_split leaves less text to the next: it returns.       *)
Shrinks == [][pc = "split" => at' > at]_vars

(* However the delimiters lie, four parts in a row reach as far as one hard *)
(* cut would: an answer of 10000 characters stays below 99 parts.          *)
FourPartsReach ==
  \A i \in 1 .. Len(parts) - 4 : parts[i + 4].lo - parts[i].lo >= Reach

=============================================================================
