-------------------------- MODULE WriteRefinement --------------------------
(***************************************************************************)
(* The write sessions of a storage server implement AtomicDocument: the    *)
(* words of the file on disk are the document, the queued edit operations  *)
(* are the words collected, and the rename in sync_file_to_disk is the     *)
(* commit.  Delimiters are left aside: loading and saving double them.     *)
(***************************************************************************)
EXTENDS WriteSession

Status(c) ==
  CASE Committed(c) -> "committed"
    [] ~Committed(c) /\ pc[c] # "done" -> "open"
    [] OTHER -> "aborted"

\* The words of a text, in order.
Words(text) == WordsIn(text, Bodies)

Atomic ==
  INSTANCE AtomicDocument WITH
    Sessions <- Writers,
    Start    <- Words(InitialText),
    text     <- Words(disk),
    pending  <- [c \in Writers |-> [k \in DOMAIN edit[c].ops |-> edit[c].ops[k].word.body]],
    status   <- [c \in Writers |-> Status(c)]

\* As long as no client vanishes and nobody undoes or reverts, every behaviour
\* of handle_write_request in all its threads, and of the server process that
\* may die in any of them, is one of the abstract document: sessions take effect
\* as a whole, at the moment the swap file is renamed.
AtomicDocumentSpec == Atomic!Spec
=============================================================================
