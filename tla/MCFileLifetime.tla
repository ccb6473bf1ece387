--------------------------- MODULE MCFileLifetime ---------------------------
(***************************************************************************)
(* The smallest instance of FileLifetime in which threads share an object  *)
(* that is being deleted: two WRITEs and a DELETE, no disconnection.       *)
(***************************************************************************)
EXTENDS FileLifetime, TLC

CONSTANTS w1, w2, d1

OpOf == (w1 :> "WRITE") @@ (w2 :> "WRITE") @@ (d1 :> "DELETE")

OneWord == <<"one">>
=============================================================================
