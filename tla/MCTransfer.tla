----------------------------- MODULE MCTransfer -----------------------------
(***************************************************************************)
(* The instances of Transfer: requests on one file, in the groups that the *)
(* configuration names in Served.  UNDO and the rollback of a vanished     *)
(* writer write the file in place; they are not in a group with a reader   *)
(* (README, section 4).                                                    *)
(***************************************************************************)
EXTENDS Transfer, TLC

CONSTANTS w1, w2, v1, u1, d1, d2, k1, r1, s1, e1, e2

OpOf == (w1 :> "WRITE") @@ (w2 :> "WRITE") @@ (v1 :> "WRITE") @@ (u1 :> "UNDO")
        @@ (d1 :> "DELETE") @@ (d2 :> "DELETE") @@ (k1 :> "CREATE")
        @@ (r1 :> "READ") @@ (s1 :> "STREAM") @@ (e1 :> "EXEC") @@ (e2 :> "EXEC")

\* A file of two buffers for READ and EXEC, and of three words for STREAM.
ThreeWords == <<"one", "two", "three">>

\* Two users, or one user in different seconds.
OwnScript == [c \in {r1, s1, e1, e2} |-> c]

\* One user, in one second.
SameScript == [c \in {r1, s1, e1, e2} |-> e1]
=============================================================================
