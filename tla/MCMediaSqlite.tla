--------------------------- MODULE MCMediaSqlite ---------------------------
(* The media database on small libraries.                                  *)
EXTENDS MediaSqlite

CONSTANTS u1, u2, u3

OwnTitle == [u \in Urls |-> u]
Likes == [u \in Urls |-> IF u = u1 THEN 2 ELSE 1]

\* Three opuses of which one has likes, played in order, with filters and jumps.
OrderedLibrary ==
  [order |-> <<u1, u2, u3>>, title |-> OwnTitle, album |-> Urls, likes |-> Likes,
   options |-> {<<TRUE, FALSE>>},
   may |-> {"filter", "unfilter", "setnext"}, calls |-> 2]

\* Two opuses played at random or not, with options that change and restarts,
\* where the data base may be found read-only.
RandomLibrary ==
  [order |-> <<u2, u1>>, title |-> OwnTitle, album |-> Urls, likes |-> Likes,
   options |-> BOOLEAN \X BOOLEAN, may |-> {"filter", "setnext", "options", "open"},
   calls |-> 2]

\* Two urls of the same opus, one of no album and an unknown number of likes.
MixedLibrary ==
  [order |-> <<u1, u2, u3>>, title |-> [u \in Urls |-> IF u = u3 THEN u3 ELSE u1],
   album |-> {u1, u2}, likes |-> [u \in Urls |-> IF u = u1 THEN 2 ELSE 0],
   options |-> {<<TRUE, FALSE>>}, may |-> {"insert", "remove", "unlink", "filters"},
   calls |-> 1]

\* One opus, and a filter that is left before and after a restart.
RestartedLibrary ==
  [order |-> <<u2>>, title |-> OwnTitle, album |-> Urls, likes |-> Likes,
   options |-> {<<TRUE, FALSE>>}, may |-> {"unfilter", "open"}, calls |-> 3]

MCGarbage == {-1, 1}

MCSetups == {OrderedLibrary, RandomLibrary, MixedLibrary, RestartedLibrary}
=============================================================================
