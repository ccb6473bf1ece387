-------------------------- MODULE MCAccessControl --------------------------
(***************************************************************************)
(* Instances of AccessControl for TLC.                                     *)
(***************************************************************************)
EXTENDS AccessControl

CONSTANTS f, g, h,          \* files
          al, bo, ca        \* parts of user names

alice == <<al>>
bob == <<bo>>
carol == <<ca>>

EveryUser == {alice, bob, carol}
Entry(n, o, acl) == [filename |-> n, owner |-> o, acl |-> acl]
May(u, t) == [name |-> u, type |-> t]

TwoFiles == << Entry(f, alice, <<May(alice, "RW"), May(bob, "R")>>),
               Entry(g, bob, <<May(bob, "RW")>>) >>
Owners == (f :> alice) @@ (g :> bob)

\* Two keys share a slot, and the next slot is the third one's.
Colliding == [k \in Files \X Users |-> IF k[2] = carol THEN 1 ELSE 0]

\* A request of each kind: kind, file, who, about whom, access.
R(op, n, u, t, a) == [op |-> op, file |-> n, user |-> u, target |-> t, access |-> a]
Requests ==
  << R("READ", f, bob, bob, "R"),
     R("WRITE", f, bob, bob, "R"),
     R("REMACCESS", f, alice, bob, "R"),
     R("REQUESTACCESS", f, carol, carol, "RW"),
     R("APPROVE", f, alice, carol, "RW"),
     R("REJECT", f, alice, carol, "R"),
     R("DELETE", g, bob, bob, "R"),
     R("CREATE", h, carol, carol, "RW"),
     R("REQUESTACCESS", f, carol, carol, "R"),
     R("ADDACCESS", f, bob, bob, "RW"),
     R("CREATE", h, bob, bob, "RW"),
     R("ADDACCESS", h, carol, bob, "R"),
     R("DELETE", g, bob, bob, "R"),
     R("READ", f, alice, alice, "R"),
     R("ADDACCESS", f, alice, bob, "RW") >>
OpOf == [c \in Conns |-> Requests[c].op]
FilesOf == [c \in Conns |-> Requests[c].file]
UsersOf == [c \in Conns |-> Requests[c].user]
TargetsOf == [c \in Conns |-> Requests[c].target]
AccessesOf == [c \in Conns |-> Requests[c].access]
=============================================================================
