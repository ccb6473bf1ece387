---------------------------- MODULE MCNameServer ----------------------------
(***************************************************************************)
(* Instances of NameServer for TLC.  A configuration picks the connections *)
(* and what they ask for; connections are numbered.                        *)
(***************************************************************************)
EXTENDS NameServer

CONSTANTS s1, s2,            \* storage servers
          alice, bob,        \* users
          f, g, h, d         \* names; d is the folder moved into

Odd(c) == c % 2 = 1
\* alice and bob take turns.
TwoUsers == [c \in Conns |-> IF Odd(c) THEN alice ELSE bob]
OneUser == [c \in Conns |-> alice]
BobIsLate == [c \in Conns |-> IF c = 7 THEN bob ELSE alice]
IntoD == [c \in Conns |-> d]

\* Two names in different cache entries, and all names in one entry.
SharedSlot == [n \in Paths |-> 1]
OwnSlots == [n \in Paths |-> IF n = f THEN 1 ELSE 2]

\* Requests, as many of them as there are connections.
Prefix(requests) == [c \in Conns |-> requests[c]]

Creates == [c \in Conns |-> IF c = 4 THEN "CREATEFOLDER" ELSE "CREATE"]
CreateNames == Prefix(<<f, f, f, d, h>>)

Churn == Prefix(<<"DELETE", "CREATE", "CREATE", "CREATE", "GET_SS_INFO", "GET_SS_INFO">>)
ChurnNames == Prefix(<<f, f, h, f, f, h>>)

Deletes == [c \in Conns |-> "DELETE"]
DeleteNames == Prefix(<<f, g>>)

Mixed == Prefix(<<"GET_SS_INFO", "DELETE", "CREATE", "GET_SS_INFO", "CREATEFOLDER", "MOVE",
                  "DELETE", "DELETE">>)
MixedNames == Prefix(<<f, f, f, f, d, f, f, g>>)

\* What the storage servers have at first.
File(n, u) == [filename |-> n, owner |-> u]
NoFiles == [s \in Servers |-> <<>>]
BothAlices == [s \in Servers |-> IF s = s1 THEN <<File(f, alice)>> ELSE <<File(g, alice)>>]
ThreeOnS1 ==
  [s \in Servers |-> IF s = s1 THEN <<File(f, alice), File(g, bob), File(h, alice)>>
                               ELSE <<>>]
\* One file more than the table has room for on s2.
TooManyOnS2 ==
  [s \in Servers |-> IF s = s2 THEN <<File(h, bob), File(g, alice), File(d, alice)>>
                               ELSE <<File(f, alice)>>]
NoFolders == [s \in Servers |-> {}]

BothServers == <<s1, s2>>
NoServers == <<>>
=============================================================================
