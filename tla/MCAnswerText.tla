---------------------------- MODULE MCAnswerText ----------------------------
(* A small instance of AnswerText for TLC: the prefix of the code, ten     *)
(* characters of text in a part, and answers of at most 130.               *)
EXTENDS AnswerText

(* Seven pieces in every order: stretches that end in a word, a sentence or *)
(* a paragraph, one without a delimiter, and more blanks.                  *)
Pieces ==
  {<<"x", "sp">>, <<"x", ".", "sp">>, <<"x", "nl", "nl">>,
   <<"x", "x", "x", "x">>, <<"sp", "nl">>}
PieceTexts == {FlattenSeq(s) : s \in [1 .. 7 -> Pieces]}

(* Long words, short words and one word; after truncation, parts of        *)
(* two-digit numbers, and without it of three-digit ones.                  *)
LongTexts ==
  {[i \in 1 .. 1010 |-> IF i % n = 0 THEN "sp" ELSE "x"] : n \in {2, 9, 1011}}
ErrorTexts ==
  {SubSeq(t, 1, n) : t \in LongTexts, n \in {1, 19, 120, 1010}}

Answer(output) == [success |-> TRUE, output |-> output, error |-> <<>>]
Failure(t)     == [success |-> FALSE, output |-> <<>>, error |-> t]
Chunk(t)       == [kind |-> "plain", text |-> t]
Image(t)       == [kind |-> "image", text |-> t]
Link(t)        == [kind |-> "link", text |-> t, url |-> <<"x", ".", "x">>]

Marked ==
  {Chunk(p) : p \in Pieces}
    \cup {Image(<<>>), Image(<<"x">>), Link(<<"sp">>), Link(<<"x">>)}

SomeResults ==
  {Answer(<<Chunk(t)>>) : t \in PieceTexts \cup LongTexts}
    \cup {Answer(<<>>)} \cup {Answer(s) : s \in [1 .. 3 -> Marked]}
    \cup {Failure(t) : t \in ErrorTexts}

Note    == <<"nl", "nl", "x", "x", "sp", "x", "x">>
NoText  == <<"x", "x", "sp", "x", ".">>
Sorry   == <<"x", "sp", "x", "sp">>
=============================================================================
