---------------------------- MODULE MCMediaLists ----------------------------
(* Lists of three urls, and directories with one subdirectory.             *)
EXTENDS MediaLists

CONSTANTS f1, f2, f3, text, sub

\* Trees where the subdirectory is in the middle, empty, or linked to its parent,
\* that end with a media or not, or hold none.
Tree(root, below) == (Root :> root) @@ (sub :> below)
Middle == Tree(<<f1, sub, f3>>, <<text, f2>>)
Ending == Tree(<<f1, f2, sub>>, <<f3, text>>)
EndingEmpty == Tree(<<text, f1, sub>>, <<>>)
Linked == Tree(<<f1, sub>>, <<f2, Root>>)
Flat == Tree(<<f1, f2, f3>>, <<>>)
Texts == Tree(<<text, sub>>, <<text>>)

ListOnly ==
  [kinds |-> {"list"}, trees |-> {Flat}, random |-> {FALSE},
   may |-> {"insert", "loop"}, calls |-> 3]

\* Every tree, undisturbed
Quietly(names, ways) ==
  {[kinds |-> {"dir"}, trees |-> {t}, random |-> {FALSE}, may |-> names, calls |-> 3] : t \in ways}

\* At random, with directories that change
Restless ==
  [kinds |-> {"list", "dir"}, trees |-> {Middle, Flat, Texts}, random |-> BOOLEAN,
   may |-> {"insert", "options", "change", "touch"}, calls |-> 3]

MCSetups ==
  {ListOnly, Restless}
    \cup Quietly({"options", "change"}, {Middle, Ending, EndingEmpty, Linked, Flat, Texts})
    \cup Quietly({"loop"}, {Ending, EndingEmpty, Texts})
=============================================================================
