--------------------------- MODULE MCWriteSession ---------------------------
(***************************************************************************)
(* Instances of WriteSession for TLC.  A configuration picks the           *)
(* connections; their requests, users and words follow from their names.   *)
(***************************************************************************)
EXTENDS WriteRefinement

CONSTANTS w1, w2, w3, u1, u2, k1, r1,  \* WRITE, UNDO, CHECKPOINT, REVERT
          alice, bob, carol,           \* users
          old1, old2                   \* words already in the file

MCRequest ==
  [c \in Conns |-> CASE c \in {w1, w2, w3} -> "WRITE"
                     [] c \in {u1, u2} -> "UNDO"
                     [] c = k1 -> "CHECKPOINT"
                     [] c = r1 -> "REVERT"]

\* Every WRITE from a user of its own; the rest belong to alice.
DistinctUsers ==
  [c \in Conns |-> IF c = w2 THEN bob ELSE IF c = w3 THEN carol ELSE alice]

MCBodies == (Conns \X (1 .. MaxOps)) \cup {old1, old2}
Plain(b) == [body |-> b, marks |-> <<>>]
Dotted(b) == [body |-> b, marks |-> <<".">>]

\* One word per message.
PlainWords == [c \in Conns |-> {<<Plain(<<c, 1>>)>>}]
\* Two different words, in messages of their own.
TwoWords == [c \in Conns |-> {<<Plain(<<c, 1>>)>>, <<Plain(<<c, 2>>)>>}]
\* A sentence sent in one message, its last word delimited.
WordPairs == [c \in Conns |-> {<<Plain(<<c, 1>>), Dotted(<<c, 2>>)>>}]

\* The file a CREATE leaves, and one finished sentence.
EmptyText == <<>>
OneSentence == <<Dotted(old1)>>
=============================================================================
