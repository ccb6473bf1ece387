----------------------------- MODULE MCQueries ------------------------------
(***************************************************************************)
(* The instances of Queries: three files on two registered storage         *)
(* servers, and two servers that are new and have a file each.             *)
(* Connections are numbered; the configuration groups them in Served, with *)
(* the servers that may crash.                                             *)
(***************************************************************************)
EXTENDS Queries

CONSTANTS f, g, h, n, m, al, bo, ca, s1, s2, s3, s4

OpOf == <<"VIEW", "VIEW", "VIEW",                                   \* plain, -l, -a
          "CREATE", "CREATE", "CREATE", "CREATE",
          "INFO", "INFO",
          "VIEWFOLDER", "CHECKPOINT", "VIEWCHECKPOINT", "REVERT", "REVERT", "LISTCHECKPOINTS",
          "REGISTER", "REGISTER", "REGISTER", "REGISTER", "LIST">>

UsersOf == <<bo, al, ca,  ca, ca, ca, ca,  bo, al,
             bo, bo, bo, bo, al, bo,  al, al, bo, ca, al>>

FilesOf == <<f, f, f,  n, n, n, m,  h, n,  h, h, h, h, h, h,  f, f, f, f, f>>

TwoServers == <<s1, s2>>

Entry(file, user) == [filename |-> file, owner |-> user]

Listings == [s \in {s1, s2, s3, s4} |->
               CASE s = s1 -> <<Entry(f, al), Entry(g, bo)>>
                 [] s = s2 -> <<Entry(h, al)>>
                 [] OTHER  -> <<Entry(m, al)>>]

\* Bob may see f, and not h.
BobSeesF == {<<bo, f>>}

\* No user's name begins or ends like another's, or "bo" is found in "al"'s entry.
NoneResembles == {}
BobResembles == {<<bo, al>>}
=============================================================================
