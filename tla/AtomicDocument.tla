--------------------------- MODULE AtomicDocument ---------------------------
(***************************************************************************)
(* What concurrent writers are promised: a document that changes by whole  *)
(* write sessions.  A session collects words privately; when it commits,   *)
(* all of them appear in the document in one step, every word already      *)
(* there stays and keeps its place among the others, and nothing else      *)
(* appears.  A session that does not commit leaves no trace.               *)
(***************************************************************************)
EXTENDS Naturals, Sequences, SequencesExt, Bags

CONSTANTS Sessions,  \* the write sessions
          Start      \* the document before the first of them

VARIABLES text,     \* the document, a sequence of words
          pending,  \* pending[s]: the words session s has collected
          status    \* status[s]: "open", "committed" or "aborted"

vars == <<text, pending, status>>

Init ==
  /\ text = Start
  /\ pending = [s \in Sessions |-> <<>>]
  /\ status = [s \in Sessions |-> "open"]

\* new is old with the words put in at arbitrary places.
Inserted(old, words, new) ==
  /\ \E place \in [DOMAIN old -> DOMAIN new] :
       /\ \A i, j \in DOMAIN old : i < j => place[i] < place[j]
       /\ \A i \in DOMAIN old : new[place[i]] = old[i]
  /\ ToBag(new) = ToBag(old) (+) ToBag(words)

Collect(s) ==
  /\ status[s] = "open"
  /\ IsPrefix(pending[s], pending'[s])
  /\ pending' = [pending EXCEPT ![s] = pending'[s]]
  /\ UNCHANGED <<text, status>>

Commit(s) ==
  /\ status[s] = "open"
  /\ Inserted(text, pending[s], text')
  /\ status' = [status EXCEPT ![s] = "committed"]
  /\ UNCHANGED pending

\* Sessions are given up: one by its client or by a refusal, all of them by a
\* failure of the server.
Abort(lost) ==
  /\ \A s \in lost : status[s] = "open"
  /\ status' = [s \in Sessions |-> IF s \in lost THEN "aborted" ELSE status[s]]
  /\ UNCHANGED <<text, pending>>

Next ==
  \/ \E s \in Sessions : Collect(s) \/ Commit(s)
  \/ \E lost \in SUBSET Sessions : Abort(lost)

Spec == Init /\ [][Next]_vars
=============================================================================
