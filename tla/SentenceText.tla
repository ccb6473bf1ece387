---------------------------- MODULE SentenceText ----------------------------
(***************************************************************************)
(* The two forms a document has on a storage server and the conversions    *)
(* between them.                                                           *)
(*                                                                         *)
(* On disk a document is a text: a sequence of tokens separated by blanks. *)
(* A token is a body (what the client typed, opaque here) followed by any  *)
(* number of sentence marks; a token of marks only has the body NoBody.    *)
(* Blanks themselves carry no information: the parser skips runs of them.  *)
(*                                                                         *)
(* In memory a document is the linked list of SentenceNodes: each has the  *)
(* list of its words and the delimiter that ended it ('\0' is NoMark).     *)
(***************************************************************************)
EXTENDS Naturals, Sequences, SequencesExt

CONSTANTS Bodies,   \* the words clients can send, stripped of their marks
          NoBody    \* the body of a token made of marks only

ASSUME BodiesAssumption == NoBody \notin Bodies

Marks == {".", "!", "?"}          \* is_delimiter
NoMark == "none"                  \* the delimiter '\0'

Token == [body: Bodies \cup {NoBody}, marks: Seq(Marks)]
Text == Seq(Token)
Sentence == [words: Seq(Token), delimiter: Marks \cup {NoMark}]
Document == Seq(Sentence)

\* A word whose last character is a delimiter.
EndsSentence(tok) == tok.marks # <<>>
-----------------------------------------------------------------------------
\* The words the parser makes of one blank-separated token: it cuts after
\* every delimiter, and each part keeps the delimiter that ended it.
Parts(tok) ==
  IF tok.marks = <<>>
    THEN <<tok>>
    ELSE [i \in DOMAIN tok.marks |->
            [body  |-> IF i = 1 THEN tok.body ELSE NoBody,
             marks |-> <<tok.marks[i]>>]]

\* One part joins the current sentence and, if delimited, ends it.
AddPart(acc, part) ==
  IF EndsSentence(part)
    THEN [ended   |-> Append(acc.ended, [words     |-> Append(acc.current, part),
                                         delimiter |-> part.marks[1]]),
          current |-> <<>>]
    ELSE [acc EXCEPT !.current = Append(@, part)]

\* A last sentence without words is dropped, so the list of a text that ends
\* in a delimiter has no empty sentence after it.
parse_file_to_linked_list(text) ==
  LET parts == FlattenSeq([i \in DOMAIN text |-> Parts(text[i])])
      acc   == FoldLeft(AddPart, [ended |-> <<>>, current |-> <<>>], parts)
  IN  IF acc.current = <<>>
        THEN acc.ended
        ELSE Append(acc.ended, [words |-> acc.current, delimiter |-> NoMark])

\* What a sentence looks like in the file: its words, and its delimiter (if it
\* has one) written against the last of them.
WrittenSentence(sent) ==
  CASE sent.delimiter = NoMark -> sent.words
    [] sent.delimiter # NoMark /\ sent.words = <<>> ->
         << [body |-> NoBody, marks |-> <<sent.delimiter>>] >>
    [] OTHER ->
         [sent.words EXCEPT ![Len(sent.words)].marks = Append(@, sent.delimiter)]

write_linked_list_to_file(doc) ==
  FlattenSeq([i \in DOMAIN doc |-> WrittenSentence(doc[i])])

\* The undo file holds the words only; the delimiter field is not written.
UndoText(doc) == FlattenSeq([i \in DOMAIN doc |-> doc[i].words])

\* The bodies in a text that belong to S, in the order of the text.
WordsIn(text, S) ==
  FlattenSeq([i \in DOMAIN text |->
                IF text[i].body \in S THEN <<text[i].body>> ELSE <<>>])

\* The slots WRITE accepts: split on '.' alone, empty segments kept.
SentenceSlots(text) ==
  1 + FoldLeft(LAMBDA n, tok :
                 n + Len(SelectSeq(tok.marks, LAMBDA m : m = ".")), 0, text)

\* The number of words of the sentence at a 0-based index; 0 past the end.
WordCount(doc, index) ==
  IF index < Len(doc) THEN Len(doc[index + 1].words) ELSE 0
=============================================================================
