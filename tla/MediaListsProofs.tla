-------------------------- MODULE MediaListsProofs --------------------------
(***************************************************************************)
(* Proofs about the lists and the directories, for any tree of any depth,  *)
(* any urls and any calls of a client.                                     *)
(*                                                                         *)
(* The walk.  _find is a recursive function of a walk; each of its calls   *)
(* moves on by one item (Onward).  A walk comes to an end from everywhere, *)
(* by induction on the levels that may still be opened and, in a level, on *)
(* the items that are left (WalkInduction).  From this follow that the     *)
(* function is defined (FindIs), that what holds at the end and is passed  *)
(* back by one move holds of a whole call (FindInduction), and that what   *)
(* holds at the root and is passed on by one move holds of every path      *)
(* (HereInduction).                                                        *)
(*                                                                         *)
(* The order.  It flattens the tree level by level; a path of the walk has *)
(* before it a beginning of the order (BeforeIn), which one move makes     *)
(* longer by the item that is left, if it is a media (OnwardBefore).       *)
(* Hence the media of a path stands in the order at the number of those    *)
(* before it (HereInOrder), _find stops at the number it was asked for or  *)
(* has counted all (FindFresh), and it does not matter at which path the   *)
(* walk was taken up (FindThrough).                                        *)
(*                                                                         *)
(* The player.  TypeInv adds to the types that a list is never empty and   *)
(* that a path is one that _find may leave (Placed).  That media_next      *)
(* returns is a fact about one call (NoOutcome).  That entries are played  *)
(* in order needs to know where the walk was left beside what is played    *)
(* and what is prepared: QuietInv.                                         *)
(***************************************************************************)
EXTENDS MediaLists, SequenceTheorems, NaturalsInduction, WellFoundedInduction, TLAPS

-----------------------------------------------------------------------------
(* Numbers                                                                 *)

\* A set of numbers that is not empty has a least one.
LEMMA Least ==
  ASSUME NEW S \in SUBSET Nat, S # {}
  PROVE  \E n \in S : \A m \in S : n <= m
<1>1. IsWellFoundedOn(OpToRel(<, Nat), Nat)
  BY NatLessThanWellFounded, Zenon
<1>2. PICK n \in S : \A m \in S : <<m, n>> \notin OpToRel(<, Nat)
  BY <1>1, WFMin, Zenon
<1>3. ASSUME NEW m \in S PROVE n <= m
  <2>1. <<m, n>> \notin {ss \in Nat \X Nat : ss[1] < ss[2]}
    BY <1>2, Zenon DEF OpToRel
  <2>2. QED
    BY <2>1
<1>4. QED
  BY <1>3

\* A set that holds 0, and the number after each one that it holds, holds all.
LEMMA Induct ==
  ASSUME NEW S, 0 \in S, \A n \in Nat : n \in S => n + 1 \in S
  PROVE  Nat \subseteq S
<1> SUFFICES ASSUME Nat \ S # {} PROVE FALSE
  OBVIOUS
<1>1. PICK n \in Nat \ S : \A m \in Nat \ S : n <= m
  BY Least, Nat \ S \in SUBSET Nat
<1>2. n - 1 \in Nat /\ n - 1 \in S
  BY <1>1
<1>3. QED
  BY <1>2

-----------------------------------------------------------------------------
(* FlattenSeq                                                              *)

FlatEquation(s, f) == f = [i \in 1 .. Len(s) |-> IF i = 1 THEN s[i] ELSE f[i - 1] \o s[i]]

\* The function that FlattenSeq chooses exists: it has a value at each length.
LEMMA FlattenExists ==
  ASSUME NEW T, NEW s \in Seq(Seq(T))
  PROVE  \E f : FlatEquation(s, f) /\ \A i \in 1 .. Len(s) : f[i] \in Seq(T)
<1> DEFINE
  Part(n, f) ==
    /\ f = [i \in 1 .. n |-> IF i = 1 THEN s[i] ELSE f[i - 1] \o s[i]]
    /\ \A i \in 1 .. n : f[i] \in Seq(T)
  S == {n \in Nat : n <= Len(s) => \E f : Part(n, f)}
<1>1. 0 \in S
  <2> DEFINE none == [i \in 1 .. 0 |-> <<>>]
  <2>1. none = [i \in 1 .. 0 |-> IF i = 1 THEN s[i] ELSE none[i - 1] \o s[i]]
    OBVIOUS
  <2>2. \A i \in 1 .. 0 : none[i] \in Seq(T)
    OBVIOUS
  <2>3. \E f : Part(0, f)
    <3> HIDE DEF none
    <3>1. Part(0, none)
      BY <2>1, <2>2, Zenon
    <3> HIDE DEF Part
    <3>2. QED
      BY <3>1, Zenon
  <2>4. QED
    <3> HIDE DEF Part
    <3>1. QED
      BY <2>3
<1>2. ASSUME NEW n \in Nat, n \in S PROVE n + 1 \in S
  <2> SUFFICES ASSUME n + 1 <= Len(s) PROVE \E f : Part(n + 1, f)
    <3>1. n + 1 \in Nat
      OBVIOUS
    <3> HIDE DEF Part
    <3>2. QED
      BY <3>1, Zenon
  <2>0. n <= Len(s)
    OBVIOUS
  <2>1. PICK f : Part(n, f)
    <3> HIDE DEF Part
    <3>1. QED
      BY <1>2, <2>0, Zenon
  <2> DEFINE more == IF n + 1 = 1 THEN s[n + 1] ELSE f[n] \o s[n + 1]
             g == [i \in 1 .. n + 1 |-> IF i = n + 1 THEN more ELSE f[i]]
  <2>2. s[n + 1] \in Seq(T)
    OBVIOUS
  <2>3. more \in Seq(T)
    <3>1. CASE n = 0
      BY <2>2, <3>1
    <3>2. CASE n # 0
      <4>1. f[n] \in Seq(T)
        BY <2>1, <3>2
      <4>2. f[n] \o s[n + 1] \in Seq(T)
        BY <4>1, <2>2, ConcatProperties
      <4>3. QED
        BY <3>2, <4>2
    <3>3. QED
      BY <3>1, <3>2
  <2>4. \A i \in 1 .. n + 1 : g[i] \in Seq(T)
    <3> HIDE DEF more
    <3>1. QED
      BY <2>1, <2>3
  <2>5. ASSUME NEW i \in 1 .. n + 1 PROVE g[i] = IF i = 1 THEN s[i] ELSE g[i - 1] \o s[i]
    <3>1. CASE i = n + 1
      <4>1. i # 1 => g[i - 1] = f[n]
        BY <3>1
      <4>2. QED
        BY <3>1, <4>1
    <3>2. CASE i # n + 1
      <4>1. i \in 1 .. n /\ g[i] = f[i]
        BY <3>2
      <4>2. i # 1 => i - 1 \in 1 .. n /\ g[i - 1] = f[i - 1]
        BY <4>1
      <4>3. QED
        BY <2>1, <4>1, <4>2
    <3>3. QED
      BY <3>1, <3>2
  <2>6. g = [i \in 1 .. n + 1 |-> IF i = 1 THEN s[i] ELSE g[i - 1] \o s[i]]
    <3> HIDE DEF more
    <3>1. QED
      BY <2>5
  <2>7. \E h : Part(n + 1, h)
    <3> HIDE DEF g
    <3>1. Part(n + 1, g)
      BY <2>4, <2>6, Zenon
    <3> HIDE DEF Part
    <3>2. QED
      BY <3>1, Zenon
  <2>8. QED
    BY <2>7, Zenon
<1>3. Len(s) \in S
  <2> HIDE DEF S
  <2>1. Nat \subseteq S
    BY <1>1, <1>2, Induct
  <2>2. QED
    BY <2>1
<1>4. PICK f : Part(Len(s), f)
  <2>1. Len(s) <= Len(s)
    OBVIOUS
  <2> HIDE DEF Part
  <2>2. QED
    BY <1>3, <2>1, Zenon
<1>5. FlatEquation(s, f) /\ \A i \in 1 .. Len(s) : f[i] \in Seq(T)
  BY <1>4 DEF FlatEquation
<1>6. QED
  BY <1>5, Zenon

\* What the parts of it are
LEMMA FlattenParts ==
  ASSUME NEW T, NEW s \in Seq(Seq(T)), s # <<>>
  PROVE  \E f : /\ FlatEquation(s, f)
                /\ FlattenSeq(s) = f[Len(s)]
                /\ \A i \in 1 .. Len(s) : f[i] \in Seq(T)
<1> DEFINE f == CHOOSE x : FlatEquation(s, x)
<1>1. FlattenSeq(s) = f[Len(s)]
  BY DEF FlattenSeq, FlatEquation
<1>2. PICK g : FlatEquation(s, g) /\ \A i \in 1 .. Len(s) : g[i] \in Seq(T)
  BY FlattenExists
<1>3. FlatEquation(s, f)
  BY <1>2
<1> HIDE DEF f
<1>4. \A i \in 1 .. Len(s) : f[i] = g[i]
  <2> DEFINE S == {n \in Nat : n + 1 \in 1 .. Len(s) => f[n + 1] = g[n + 1]}
  <2>1. 0 \in S
    BY <1>2, <1>3 DEF FlatEquation
  <2>2. ASSUME NEW n \in Nat, n \in S PROVE n + 1 \in S
    <3> SUFFICES ASSUME n + 1 + 1 \in 1 .. Len(s) PROVE f[n + 1 + 1] = g[n + 1 + 1]
      OBVIOUS
    <3>1. n + 1 \in 1 .. Len(s) /\ n + 1 + 1 # 1 /\ n + 1 + 1 - 1 = n + 1
      OBVIOUS
    <3>2. PICK k \in 1 .. Len(s) : k = n + 1 + 1 /\ k # 1 /\ k - 1 = n + 1
      BY <3>1
    <3>3. f[k] = f[k - 1] \o s[k]
      BY <1>3, <3>2 DEF FlatEquation
    <3>4. g[k] = g[k - 1] \o s[k]
      BY <1>2, <3>2 DEF FlatEquation
    <3>5. f[n + 1] = g[n + 1]
      BY <2>2, <3>1
    <3>6. QED
      BY <3>2, <3>3, <3>4, <3>5, Zenon
  <2>3. ASSUME NEW i \in 1 .. Len(s) PROVE f[i] = g[i]
    <3>1. i - 1 \in S
      <4> HIDE DEF S
      <4>1. Nat \subseteq S
        BY <2>1, <2>2, Induct
      <4>2. QED
        BY <4>1, i - 1 \in Nat
    <3>2. QED
      BY <3>1
  <2>4. QED
    BY <2>3
<1>5. \A i \in 1 .. Len(s) : f[i] \in Seq(T)
  BY <1>2, <1>4
<1>6. QED
  BY <1>1, <1>3, <1>5

LEMMA FlattenType ==
  ASSUME NEW T, NEW s \in Seq(Seq(T))
  PROVE  FlattenSeq(s) \in Seq(T)
<1>1. CASE s = <<>>
  BY <1>1 DEF FlattenSeq
<1>2. CASE s # <<>>
  <2>1. Len(s) \in 1 .. Len(s)
    BY <1>2
  <2>2. QED
    BY <1>2, <2>1, FlattenParts
<1>3. QED
  BY <1>1, <1>2

\* One sequence more
LEMMA FlattenAppend ==
  ASSUME NEW T, NEW s \in Seq(Seq(T)), NEW x \in Seq(T)
  PROVE  FlattenSeq(Append(s, x)) = FlattenSeq(s) \o x
<1> DEFINE t == Append(s, x)
<1>1. t \in Seq(Seq(T)) /\ t # <<>> /\ Len(t) = Len(s) + 1 /\ t[Len(t)] = x
      /\ \A i \in 1 .. Len(s) : t[i] = s[i]
  BY AppendProperties
<1> HIDE DEF t
<1>2. PICK f : FlatEquation(t, f) /\ FlattenSeq(t) = f[Len(t)]
               /\ \A i \in 1 .. Len(t) : f[i] \in Seq(T)
  BY <1>1, FlattenParts, Zenon
<1>3. CASE s = <<>>
  <2>1. FlattenSeq(s) = <<>>
    BY <1>3 DEF FlattenSeq
  <2>2. Len(t) = 1
    BY <1>1, <1>3
  <2>3. f[1] = t[1]
    BY <1>2, <2>2 DEF FlatEquation
  <2>4. <<>> \o x = x
    OBVIOUS
  <2>5. QED
    BY <1>1, <1>2, <2>1, <2>2, <2>3, <2>4 DEF t
<1>4. CASE s # <<>>
  <2>1. PICK g : FlatEquation(s, g) /\ FlattenSeq(s) = g[Len(s)]
    BY <1>4, FlattenParts, Zenon
  <2> DEFINE S == {n \in Nat : n + 1 \in 1 .. Len(s) => f[n + 1] = g[n + 1]}
  <2>2. 0 \in S
    BY <1>1, <1>2, <2>1 DEF FlatEquation
  <2>3. ASSUME NEW n \in Nat, n \in S PROVE n + 1 \in S
    <3> SUFFICES ASSUME n + 1 + 1 \in 1 .. Len(s) PROVE f[n + 1 + 1] = g[n + 1 + 1]
      OBVIOUS
    <3>1. n + 1 \in 1 .. Len(s) /\ n + 1 + 1 # 1 /\ n + 1 + 1 - 1 = n + 1
          /\ n + 1 + 1 \in 1 .. Len(t)
      BY <1>1
    <3>2. PICK k \in 1 .. Len(s) : k = n + 1 + 1 /\ k # 1 /\ k - 1 = n + 1 /\ k \in 1 .. Len(t)
      BY <3>1
    <3>3. f[k] = f[k - 1] \o t[k]
      BY <1>2, <3>2 DEF FlatEquation
    <3>4. g[k] = g[k - 1] \o s[k]
      BY <2>1, <3>2 DEF FlatEquation
    <3>5. f[n + 1] = g[n + 1] /\ t[k] = s[k]
      BY <1>1, <2>3, <3>1, <3>2
    <3>6. QED
      BY <3>2, <3>3, <3>4, <3>5, Zenon
  <2>4. Len(s) - 1 \in S
    <3> HIDE DEF S
    <3>1. Nat \subseteq S
      BY <2>2, <2>3, Induct
    <3>2. QED
      BY <1>4, <3>1, Len(s) - 1 \in Nat
  <2>5. f[Len(s)] = g[Len(s)]
    BY <1>4, <2>4, Len(s) \in 1 .. Len(s), Len(s) - 1 + 1 = Len(s)
  <2>6. f[Len(t)] = f[Len(s)] \o t[Len(t)]
    <3>1. Len(t) \in 1 .. Len(t) /\ Len(t) # 1 /\ Len(t) - 1 = Len(s)
      BY <1>1, <1>4
    <3>2. QED
      BY <1>2, <3>1 DEF FlatEquation
  <2>7. QED
    BY <1>1, <1>2, <2>1, <2>5, <2>6 DEF t
<1>5. QED
  BY <1>3, <1>4

-----------------------------------------------------------------------------
(* The media below the directories                                         *)

Steps(S, a, g, k) == {h \in [0 .. k -> S] : h[0] = a /\ \A i \in 1 .. k : h[i] = g[h[i - 1]]}

\* The first steps of a function that is applied again and again are as those of
\* any longer sequence of them.
LEMMA StepsAgree ==
  ASSUME NEW S, NEW a \in S, NEW g \in [S -> S], NEW k \in Nat, NEW l \in Nat,
         NEW h \in Steps(S, a, g, k), NEW m \in Steps(S, a, g, l)
  PROVE  \A i \in Nat : i <= k /\ i <= l => h[i] = m[i]
<1> DEFINE A == {i \in Nat : i <= k /\ i <= l => h[i] = m[i]}
<1>1. 0 \in A
  BY DEF Steps
<1>2. ASSUME NEW i \in Nat, i \in A PROVE i + 1 \in A
  <2> SUFFICES ASSUME i + 1 <= k, i + 1 <= l PROVE h[i + 1] = m[i + 1]
    OBVIOUS
  <2>1. PICK j \in 1 .. k : j = i + 1 /\ j \in 1 .. l /\ j - 1 = i
    BY i + 1 \in 1 .. k, i + 1 \in 1 .. l
  <2>2. h[j] = g[h[j - 1]] /\ m[j] = g[m[j - 1]]
    BY <2>1 DEF Steps
  <2>3. h[i] = m[i]
    BY <1>2
  <2>4. QED
    BY <2>1, <2>2, <2>3, Zenon
<1> HIDE DEF A
<1>3. Nat \subseteq A
  BY <1>1, <1>2, Induct
<1>4. QED
  BY <1>3 DEF A

LEMMA StepsExist ==
  ASSUME NEW S, NEW a \in S, NEW g \in [S -> S], NEW k \in Nat
  PROVE  Steps(S, a, g, k) # {}
<1> DEFINE A == {i \in Nat : Steps(S, a, g, i) # {}}
<1>1. 0 \in A
  <2> DEFINE h == [i \in 0 .. 0 |-> a]
  <2>1. h \in Steps(S, a, g, 0)
    BY DEF Steps
  <2>2. QED
    BY <2>1
<1>2. ASSUME NEW i \in Nat, i \in A PROVE i + 1 \in A
  <2>1. PICK h \in Steps(S, a, g, i) : TRUE
    BY <1>2
  <2> DEFINE m == [j \in 0 .. i + 1 |-> IF j = i + 1 THEN g[h[i]] ELSE h[j]]
  <2>2. h \in [0 .. i -> S] /\ h[0] = a /\ \A j \in 1 .. i : h[j] = g[h[j - 1]]
    BY <2>1 DEF Steps
  <2>3. m \in [0 .. i + 1 -> S]
    BY <2>2
  <2>4. m[0] = a
    BY <2>2
  <2>5. ASSUME NEW j \in 1 .. i + 1 PROVE m[j] = g[m[j - 1]]
    <3>1. m[j - 1] = h[j - 1]
      OBVIOUS
    <3>2. CASE j = i + 1
      <4>1. m[j] = g[h[i]] /\ j - 1 = i
        BY <3>2
      <4>2. QED
        BY <3>1, <4>1
    <3>3. CASE j # i + 1
      <4>1. m[j] = h[j] /\ j \in 1 .. i
        BY <3>3
      <4>2. QED
        BY <2>2, <3>1, <4>1
    <3>4. QED
      BY <3>2, <3>3
  <2>6. m \in Steps(S, a, g, i + 1)
    <3> HIDE DEF m
    <3>1. QED
      BY <2>3, <2>4, <2>5 DEF Steps
  <2>7. QED
    BY <2>6
<1> HIDE DEF A
<1>3. Nat \subseteq A
  BY <1>1, <1>2, Induct
<1>4. QED
  BY <1>3 DEF A

\* Hence there is the function of all its steps.
LEMMA PrimitiveRecursion ==
  ASSUME NEW S, NEW a \in S, NEW g \in [S -> S]
  PROVE  \E f \in [Nat -> S] : f[0] = a /\ \A k \in Nat : f[k + 1] = g[f[k]]
<1> DEFINE some == [k \in Nat |-> CHOOSE h : h \in Steps(S, a, g, k)]
           f == [k \in Nat |-> some[k][k]]
<1>1. \A k \in Nat : some[k] \in Steps(S, a, g, k)
  BY StepsExist
<1> HIDE DEF some
<1>2. \A k \in Nat : f[k] = some[k][k] /\ f[k] \in S
  BY <1>1 DEF Steps
<1>3. ASSUME NEW k \in Nat PROVE f[k] = IF k = 0 THEN a ELSE g[f[k - 1]]
  <2>1. CASE k = 0
    BY <1>1, <1>2, <2>1 DEF Steps
  <2>2. CASE k # 0
    <3>1. some[k] \in Steps(S, a, g, k) /\ some[k - 1] \in Steps(S, a, g, k - 1)
          /\ k - 1 \in Nat /\ k \in 1 .. k /\ k - 1 <= k /\ k - 1 <= k - 1
      BY <1>1, <2>2
    <3>2. some[k][k] = g[some[k][k - 1]]
      BY <3>1 DEF Steps
    <3>3. some[k][k - 1] = some[k - 1][k - 1]
      <4>1. PICK j \in Nat : j = k - 1 /\ j <= k
        BY <3>1
      <4>2. some[j] \in Steps(S, a, g, j) /\ some[k] \in Steps(S, a, g, k)
        BY <1>1
      <4>3. \A i \in Nat : i <= k /\ i <= j => some[k][i] = some[j][i]
        BY <4>2, StepsAgree
      <4>4. QED
        BY <4>1, <4>3
    <3>4. f[k - 1] = some[k - 1][k - 1] /\ f[k] = some[k][k]
      BY <1>2, <3>1
    <3>5. QED
      BY <2>2, <3>2, <3>3, <3>4
  <2>3. QED
    BY <2>1, <2>2
<1>4. f \in [Nat -> S]
  <2>1. f = [k \in Nat |-> f[k]]
    OBVIOUS
  <2> HIDE DEF f
  <2>2. QED
    BY <1>2, <2>1
<1> HIDE DEF f
<1>5. f[0] = a
  BY <1>3
<1>6. ASSUME NEW k \in Nat PROVE f[k + 1] = g[f[k]]
  <2>1. PICK j \in Nat : j = k + 1 /\ j # 0 /\ j - 1 = k
    BY k + 1 \in Nat
  <2>2. f[j] = g[f[j - 1]]
    BY <1>3, <2>1
  <2>3. QED
    BY <2>1, <2>2, Zenon
<1>7. QED
  BY <1>4, <1>5, <1>6, Zenon

TreeOK == tree \in [Dirs -> Seq(Items)]

\* One level of FilesBelow, given the one under it
Level(set, below) ==
  [d \in Dirs |-> FlattenSeq([n \in DOMAIN tree[d] |-> ItemFiles(tree[d][n], set, below)])]

LEMMA Associative ==
  ASSUME NEW set
  PROVE  \A x, y, z \in Seq(set) : x \o (y \o z) = (x \o y) \o z
<1> TAKE x, y, z \in Seq(set)
<1>1. QED
  BY SMT

LEMMA ItemFilesType ==
  ASSUME NEW set, NEW below \in [Dirs -> Seq(set)], NEW item
  PROVE  ItemFiles(item, set, below) \in Seq(set)
BY DEF ItemFiles

LEMMA AmongType ==
  ASSUME NEW set, NEW below \in [Dirs -> Seq(set)], NEW items \in Seq(Items)
  PROVE  /\ [n \in DOMAIN items |-> ItemFiles(items[n], set, below)] \in Seq(Seq(set))
         /\ FlattenSeq([n \in DOMAIN items |-> ItemFiles(items[n], set, below)]) \in Seq(set)
<1> DEFINE s == [n \in DOMAIN items |-> ItemFiles(items[n], set, below)]
<1>1. \A n \in DOMAIN items : ItemFiles(items[n], set, below) \in Seq(set)
  BY ItemFilesType
<1>2. s \in Seq(Seq(set))
  <2> DEFINE T == Seq(set)
  <2>1. Len(items) \in Nat /\ DOMAIN items = 1 .. Len(items)
        /\ \A n \in DOMAIN items : ItemFiles(items[n], set, below) \in T
    BY <1>1
  <2> HIDE DEF T
  <2>2. s \in [1 .. Len(items) -> T]
    BY <2>1, Zenon
  <2>3. s \in Seq(T)
    BY <2>1, <2>2, SeqDef, Zenon
  <2>4. QED
    BY <2>3 DEF T
<1>3. FlattenSeq(s) \in Seq(set)
  <2> HIDE DEF s
  <2>1. QED
    BY <1>2, FlattenType
<1>4. QED
  BY <1>2, <1>3

LEMMA LevelType ==
  ASSUME TreeOK, NEW set, NEW below \in [Dirs -> Seq(set)]
  PROVE  Level(set, below) \in [Dirs -> Seq(set)]
<1>1. \A d \in Dirs :
        FlattenSeq([n \in DOMAIN tree[d] |-> ItemFiles(tree[d][n], set, below)]) \in Seq(set)
  BY AmongType DEF TreeOK
<1>2. QED
  BY <1>1 DEF Level

\* FilesBelow has a value at each number of levels.
LEMMA FilesBelowIs ==
  ASSUME TreeOK, NEW set
  PROVE  /\ FilesBelow(set) \in [Nat -> [Dirs -> Seq(set)]]
         /\ FilesBelow(set)[0] = [d \in Dirs |-> <<>>]
         /\ \A k \in Nat : FilesBelow(set)[k + 1] = Level(set, FilesBelow(set)[k])
<1> DEFINE S == [Dirs -> Seq(set)]
           a == [d \in Dirs |-> <<>>]
           g == [below \in S |-> Level(set, below)]
           Equation(f) ==
             f = [levels \in Nat |->
                    IF levels = 0 THEN [d \in Dirs |-> <<>>]
                    ELSE [d \in Dirs |-> FlattenSeq([n \in DOMAIN tree[d] |->
                            ItemFiles(tree[d][n], set, f[levels - 1])])]]
           below == CHOOSE f : Equation(f)
<1>1. FilesBelow(set) = below
  BY DEF FilesBelow
<1>2. a \in S
  OBVIOUS
<1>3. g \in [S -> S]
  BY LevelType
<1>4. PICK f \in [Nat -> S] : f[0] = a /\ \A k \in Nat : f[k + 1] = g[f[k]]
  <2> HIDE DEF S, a, g
  <2>1. QED
    BY <1>2, <1>3, PrimitiveRecursion
<1>5. Equation(f)
  <2>1. ASSUME NEW k \in Nat, k # 0
        PROVE  f[k] = [d \in Dirs |-> FlattenSeq([n \in DOMAIN tree[d] |->
                                  ItemFiles(tree[d][n], set, f[k - 1])])]
    <3>1. k - 1 \in Nat /\ k - 1 + 1 = k
      BY <2>1
    <3>2. f[k - 1] \in S
      <4> HIDE DEF S
      <4>1. QED
        BY <3>1
    <3>3. f[k] = g[f[k - 1]]
      <4> HIDE DEF S, g, a
      <4>1. QED
        BY <1>4, <3>1
    <3>4. g[f[k - 1]] = Level(set, f[k - 1])
      <4> HIDE DEF S
      <4>1. QED
        BY <3>2
    <3>5. QED
      BY <3>3, <3>4, Zenon DEF Level
  <2>2. f = [k \in Nat |-> f[k]]
    <3> HIDE DEF S
    <3>1. QED
      OBVIOUS
  <2>3. f[0] = [d \in Dirs |-> <<>>]
    BY <1>4
  <2>4. QED
    BY <2>1, <2>2, <2>3
<1>6. Equation(below)
  <2> HIDE DEF Equation
  <2>1. QED
    BY <1>5, Zenon
<1> HIDE DEF below
<1>7. ASSUME NEW k \in Nat PROVE below[k + 1] = Level(set, below[k])
  <2>1. k + 1 \in Nat /\ k + 1 # 0 /\ k + 1 - 1 = k
    OBVIOUS
  <2>2. PICK l \in Nat : l = k + 1 /\ l # 0 /\ l - 1 = k
    BY <2>1
  <2>3. below[l] = [d \in Dirs |-> FlattenSeq([n \in DOMAIN tree[d] |->
                                 ItemFiles(tree[d][n], set, below[l - 1])])]
    BY <1>6, <2>2
  <2>4. QED
    BY <2>2, <2>3, Zenon DEF Level
<1>8. below[0] = [d \in Dirs |-> <<>>]
  BY <1>6
<1>9. \A k \in Nat : below[k] \in S
  <2> DEFINE A == {k \in Nat : below[k] \in S}
  <2>1. 0 \in A
    BY <1>2, <1>8
  <2>2. ASSUME NEW k \in Nat, k \in A PROVE k + 1 \in A
    <3>1. below[k] \in S
      BY <2>2
    <3>2. Level(set, below[k]) \in S
      BY <3>1, LevelType, Zenon
    <3>3. below[k + 1] \in S /\ k + 1 \in Nat
      <4>1. below[k + 1] = Level(set, below[k])
        BY <1>7
      <4> HIDE DEF S
      <4>2. QED
        BY <3>2, <4>1
    <3> HIDE DEF S
    <3>4. QED
      BY <3>3
  <2> HIDE DEF A
  <2>3. Nat \subseteq A
    BY <2>1, <2>2, Induct
  <2>4. QED
    BY <2>3 DEF A
<1>10. below \in [Nat -> S]
  <2>1. below = [k \in Nat |-> below[k]]
    BY <1>6
  <2> HIDE DEF S
  <2>2. QED
    BY <1>9, <2>1
<1>11. QED
  BY <1>1, <1>7, <1>8, <1>10

\* The media of an item of a directory of this level
Of(item, level, set) == ItemFiles(item, set, FilesBelow(set)[MaxLevel + 1 - level])

LEMMA AmongIs ==
  ASSUME TreeOK, NEW set, NEW level \in 0 .. MaxLevel + 1, NEW items \in Seq(Items)
  PROVE  /\ FilesAmong(items, level, set) \in Seq(set)
         /\ FilesAmong(<<>>, level, set) = <<>>
         /\ \A x \in Items :
              /\ Of(x, level, set) \in Seq(set)
              /\ FilesAmong(Append(items, x), level, set)
                   = FilesAmong(items, level, set) \o Of(x, level, set)
<1> DEFINE below == FilesBelow(set)[MaxLevel + 1 - level]
           s == [n \in DOMAIN items |-> ItemFiles(items[n], set, below)]
<1>1. below \in [Dirs -> Seq(set)]
  <2>1. MaxLevel + 1 - level \in Nat
    BY MediaDirAssumption
  <2>2. QED
    BY <2>1, FilesBelowIs
<1>2. FilesAmong(items, level, set) = FlattenSeq(s) /\ s \in Seq(Seq(set))
      /\ FlattenSeq(s) \in Seq(set)
  BY <1>1, AmongType DEF FilesAmong
<1>3. FilesAmong(<<>>, level, set) = <<>>
  <2>1. [n \in DOMAIN <<>> |-> ItemFiles(<<>>[n], set, below)] = <<>>
    OBVIOUS
  <2>2. FilesAmong(<<>>, level, set) = FlattenSeq(<<>>)
    BY <2>1, Zenon DEF FilesAmong
  <2>3. QED
    BY <2>2 DEF FlattenSeq
<1>4. ASSUME NEW x \in Items
      PROVE  /\ Of(x, level, set) \in Seq(set)
             /\ FilesAmong(Append(items, x), level, set)
                  = FilesAmong(items, level, set) \o Of(x, level, set)
  <2> DEFINE more == Append(items, x)
             t == [n \in DOMAIN more |-> ItemFiles(more[n], set, below)]
  <2>1. Of(x, level, set) \in Seq(set)
    BY <1>1, ItemFilesType DEF Of
  <2>2. t = Append(s, Of(x, level, set))
    <3>1. Len(s) = Len(items) /\ DOMAIN s = 1 .. Len(items)
      OBVIOUS
    <3>2. more \in Seq(Items) /\ Len(more) = Len(items) + 1 /\ more[Len(items) + 1] = x
          /\ \A n \in 1 .. Len(items) : more[n] = items[n]
      OBVIOUS
    <3> HIDE DEF more, below
    <3>3. ASSUME NEW n \in 1 .. Len(items) PROVE t[n] = s[n]
      <4>1. t[n] = ItemFiles(more[n], set, below)
        BY <3>2, n \in DOMAIN more
      <4>2. s[n] = ItemFiles(items[n], set, below)
        BY n \in DOMAIN items
      <4>3. QED
        BY <3>2, <4>1, <4>2
    <3>4. t[Len(items) + 1] = Of(x, level, set)
      BY <3>2 DEF Of, below
    <3>5. t = [n \in 1 .. Len(items) + 1 |-> t[n]]
      BY <3>2
    <3> DEFINE u == Append(s, Of(x, level, set))
    <3>6. u \in Seq(Seq(set)) /\ Len(u) = Len(items) + 1 /\ u[Len(items) + 1] = Of(x, level, set)
          /\ \A n \in 1 .. Len(items) : u[n] = s[n]
      <4> HIDE DEF s
      <4>1. QED
        BY <1>2, <2>1, <3>1, AppendProperties
    <3>7. u = [n \in 1 .. Len(items) + 1 |-> u[n]]
      <4> HIDE DEF u
      <4>1. QED
        BY <3>6
    <3> HIDE DEF s, t, u
    <3>8. ASSUME NEW n \in 1 .. Len(items) + 1 PROVE t[n] = u[n]
      <4>1. CASE n = Len(items) + 1
        BY <3>4, <3>6, <4>1, Zenon
      <4>2. CASE n # Len(items) + 1
        <5>1. n \in 1 .. Len(items)
          BY <4>2
        <5>2. QED
          BY <3>3, <3>6, <5>1, Zenon
      <4>3. QED
        BY <4>1, <4>2
    <3>9. t = u
      <4>1. [n \in 1 .. Len(items) + 1 |-> t[n]] = [n \in 1 .. Len(items) + 1 |-> u[n]]
        BY <3>8
      <4>2. QED
        BY <3>5, <3>7, <4>1, Zenon
    <3>10. QED
      BY <3>9, Zenon DEF u
  <2>3. FilesAmong(more, level, set) = FlattenSeq(t)
    BY Zenon DEF FilesAmong
  <2>4. FlattenSeq(Append(s, Of(x, level, set))) = FlattenSeq(s) \o Of(x, level, set)
    <3> HIDE DEF s
    <3>1. QED
      BY <1>2, <2>1, FlattenAppend
  <2>5. QED
    <3> HIDE DEF s, t
    <3>1. QED
      BY <1>2, <2>1, <2>2, <2>3, <2>4
<1>5. QED
  BY <1>2, <1>3, <1>4

\* What an item has: itself, what is below it, or nothing.
LEMMA OfIs ==
  ASSUME TreeOK, NEW set, NEW level \in 0 .. MaxLevel + 1, NEW item, Dirs \cap set = {}
  PROVE  /\ item \in set => Of(item, level, set) = <<item>>
         /\ item \notin set \cup Dirs => Of(item, level, set) = <<>>
         /\ item \in Dirs /\ level = MaxLevel + 1 => Of(item, level, set) = <<>>
         /\ item \in Dirs /\ level <= MaxLevel =>
              Of(item, level, set) = FilesAmong(tree[item], level + 1, set)
<1>1. item \in set => Of(item, level, set) = <<item>>
  BY DEF Of, ItemFiles
<1>2. item \notin set \cup Dirs => Of(item, level, set) = <<>>
  BY DEF Of, ItemFiles
<1>3. ASSUME item \in Dirs
      PROVE  Of(item, level, set) = FilesBelow(set)[MaxLevel + 1 - level][item]
  BY <1>3 DEF Of, ItemFiles
<1>4. ASSUME item \in Dirs, level = MaxLevel + 1 PROVE Of(item, level, set) = <<>>
  <2>1. MaxLevel + 1 - level = 0
    BY <1>4, MediaDirAssumption
  <2>2. FilesBelow(set)[0][item] = <<>>
    BY <1>4, FilesBelowIs
  <2>3. QED
    BY <1>3, <1>4, <2>1, <2>2
<1>5. ASSUME item \in Dirs, level <= MaxLevel
      PROVE  Of(item, level, set) = FilesAmong(tree[item], level + 1, set)
  <2>1. PICK k \in Nat : k + 1 = MaxLevel + 1 - level /\ k = MaxLevel + 1 - (level + 1)
    BY <1>5, MediaDirAssumption, MaxLevel - level \in Nat
  <2>2. FilesBelow(set)[k + 1] = Level(set, FilesBelow(set)[k])
    BY FilesBelowIs
  <2>3. Level(set, FilesBelow(set)[k])[item]
          = FlattenSeq([n \in DOMAIN tree[item] |->
                          ItemFiles(tree[item][n], set, FilesBelow(set)[k])])
    BY <1>5 DEF Level
  <2>4. FilesAmong(tree[item], level + 1, set) = Level(set, FilesBelow(set)[k])[item]
    BY <2>1, <2>3, Zenon DEF FilesAmong
  <2>5. QED
    BY <1>3, <1>5, <2>1, <2>2, <2>4
<1>6. QED
  BY <1>1, <1>2, <1>4, <1>5

-----------------------------------------------------------------------------
(* Paths                                                                   *)

Fr(v, i) == [items |-> v, index |-> i]
Frames == [items : Seq(Items), index : Nat \ {0}]

\* What comes after a directory that is exhausted
Out(q) == IF q = <<>> THEN <<>> ELSE Skip(q)

\* A path that is not empty, by its last frame
LEMMA PathSplit ==
  ASSUME NEW p \in Paths, p # <<>>
  PROVE  \E q \in Paths, v \in Seq(Items), i \in Nat \ {0} : p = Append(q, Fr(v, i))
<1>1. PICK q \in Seq(Frames), e \in Frames : p = Append(q, e)
  BY SequenceEmptyOrAppend, Zenon DEF Paths, Frames
<1>2. e = Fr(e.items, e.index) /\ e.items \in Seq(Items) /\ e.index \in Nat \ {0}
  BY DEF Frames, Fr
<1>3. q \in Paths
  BY DEF Paths, Frames
<1>4. QED
  BY <1>1, <1>2, <1>3, Zenon

\* What there is to say of a path whose last frame is at i in v
Ends(p, q, v, i) ==
  /\ p \in Paths /\ p # <<>> /\ Len(p) = Len(q) + 1 /\ Len(q) \in Nat
  /\ Last(p) = Fr(v, i) /\ Last(p).items = v /\ Last(p).index = i
  /\ p[Len(q) + 1] = Fr(v, i) /\ \A n \in 1 .. Len(q) : p[n] = q[n]
  /\ Front(p) = q /\ At(p) = v[i]
  /\ Skip(p) = Append(q, Fr(v, i + 1))
  /\ Leave(p) = Out(q)

LEMMA PathAppend ==
  ASSUME NEW q \in Paths, NEW v \in Seq(Items), NEW i \in Nat \ {0}
  PROVE  Ends(Append(q, Fr(v, i)), q, v, i)
<1>0. PICK p : p = Append(q, Fr(v, i))
  OBVIOUS
<1>1. Fr(v, i) \in Frames /\ Fr(v, i + 1) \in Frames /\ Fr(v, i).items = v /\ Fr(v, i).index = i
  BY DEF Frames, Fr
<1>2. q \in Seq(Frames)
  BY DEF Paths, Frames
<1>3. /\ p \in Seq(Frames) /\ p # <<>> /\ Len(p) = Len(q) + 1
      /\ \A n \in 1 .. Len(q) : p[n] = q[n]
      /\ p[Len(q) + 1] = Fr(v, i)
  BY <1>0, <1>1, <1>2, AppendProperties
<1>4. Len(q) \in Nat /\ q = [n \in 1 .. Len(q) |-> q[n]]
  BY <1>2
<1>5. Last(p) = Fr(v, i)
  BY <1>3 DEF Last
<1>6. Front(p) = q
  <2>1. Len(p) - 1 = Len(q)
    BY <1>3, <1>4
  <2>2. SubSeq(p, 1, Len(q)) = [n \in 1 .. Len(q) |-> p[n]]
    BY <1>3, <1>4
  <2>3. QED
    BY <1>3, <1>4, <2>1, <2>2 DEF Front
<1>7. Skip(p) = Append(q, Fr(v, i + 1))
  <2> DEFINE t == Append(q, Fr(v, i + 1))
             s == [p EXCEPT ![Len(q) + 1] = Fr(v, i + 1)]
  <2>1. /\ t \in Seq(Frames) /\ Len(t) = Len(q) + 1
        /\ \A n \in 1 .. Len(q) : t[n] = q[n]
        /\ t[Len(q) + 1] = Fr(v, i + 1)
    BY <1>1, <1>2, AppendProperties
  <2>2. Skip(p) = s
    <3>1. [Fr(v, i) EXCEPT !.index = @ + 1] = Fr(v, i + 1)
      BY DEF Fr
    <3>2. Skip(p) = [p EXCEPT ![Len(q) + 1] = [p[Len(q) + 1] EXCEPT !.index = @ + 1]]
      BY <1>3, Zenon DEF Skip
    <3>3. QED
      BY <1>3, <3>1, <3>2, Zenon
  <2>3. /\ s \in Seq(Frames) /\ Len(s) = Len(q) + 1
        /\ \A n \in 1 .. Len(q) + 1 : s[n] = IF n = Len(q) + 1 THEN Fr(v, i + 1) ELSE p[n]
    <3>1. Len(q) + 1 \in 1 .. Len(p)
      BY <1>3, <1>4
    <3>2. /\ s \in Seq(Frames) /\ Len(s) = Len(p)
          /\ \A n \in 1 .. Len(p) : s[n] = IF n = Len(q) + 1 THEN Fr(v, i + 1) ELSE p[n]
      <4>1. PICK k \in 1 .. Len(p), f \in Frames : k = Len(q) + 1 /\ f = Fr(v, i + 1)
        BY <1>1, <3>1, Zenon
      <4>2. /\ [p EXCEPT ![k] = f] \in Seq(Frames)
            /\ Len([p EXCEPT ![k] = f]) = Len(p)
            /\ \A n \in 1 .. Len(p) : [p EXCEPT ![k] = f][n] = IF n = k THEN f ELSE p[n]
        BY <1>3, ExceptSeq
      <4>3. s = [p EXCEPT ![k] = f]
        BY <4>1
      <4> HIDE DEF s
      <4>4. s \in Seq(Frames) /\ Len(s) = Len(p)
            /\ \A n \in 1 .. Len(p) : s[n] = IF n = k THEN f ELSE p[n]
        BY <4>2, <4>3
      <4>5. QED
        BY <4>1, <4>4
    <3>3. QED
      BY <1>3, <3>2, Zenon
  <2> HIDE DEF s, t
  <2>4. ASSUME NEW n \in 1 .. Len(s) PROVE s[n] = t[n]
    <3>1. CASE n = Len(q) + 1
      BY <2>1, <2>3, <3>1, Zenon
    <3>2. CASE n # Len(q) + 1
      <4>1. n \in 1 .. Len(q)
        BY <2>3, <3>2, <1>4
      <4>2. QED
        BY <1>3, <2>1, <2>3, <3>2, <4>1, Zenon
    <3>3. QED
      BY <3>1, <3>2
  <2>5. s = t
    BY <2>1, <2>3, <2>4, SeqEqual
  <2>6. QED
    BY <2>2, <2>5 DEF t
<1>8. Leave(p) = Out(q)
  <2>1. Len(p) = 1 <=> q = <<>>
    BY <1>2, <1>3, <1>4, EmptySeq
  <2>2. QED
    BY <1>6, <2>1, Zenon DEF Leave, Out
<1>9. p \in Paths
  BY <1>3 DEF Paths, Frames
<1>10. At(p) = v[i]
  BY <1>1, <1>5 DEF At
<1>11. QED
  BY <1>0, <1>1, <1>3, <1>4, <1>5, <1>6, <1>7, <1>8, <1>9, <1>10, Zenon DEF Ends

LEMMA PathEnd ==
  ASSUME NEW p \in Paths, p # <<>>
  PROVE  \E q \in Paths, v \in Seq(Items), i \in Nat \ {0} :
           p = Append(q, Fr(v, i)) /\ Ends(p, q, v, i)
<1>1. PICK q \in Paths, v \in Seq(Items), i \in Nat \ {0} : p = Append(q, Fr(v, i))
  BY PathSplit, Zenon
<1>2. Ends(p, q, v, i)
  BY <1>1, PathAppend, Zenon
<1>3. QED
  BY <1>1, <1>2, Zenon

LEMMA SkipPath ==
  ASSUME NEW q \in Paths, q # <<>>
  PROVE  Skip(q) \in Paths /\ Len(Skip(q)) = Len(q) /\ Skip(q) # <<>>
<1>1. PICK u \in Paths, w \in Seq(Items), j \in Nat \ {0} : q = Append(u, Fr(w, j))
  BY PathSplit, Zenon
<1>2. Ends(q, u, w, j)
  BY <1>1, PathAppend, Zenon
<1>3. PICK i \in Nat \ {0} : i = j + 1
  OBVIOUS
<1>4. PICK p : p = Append(u, Fr(w, i)) /\ Ends(p, u, w, i)
  BY PathAppend, Zenon
<1>5. Skip(q) = p
  BY <1>2, <1>3, <1>4, Zenon DEF Ends
<1>6. QED
  BY <1>2, <1>4, <1>5 DEF Ends

\* Where _find goes from an item, when it does not stop there
Opens(p) == Last(p).items[Last(p).index] \in Dirs /\ ~(Len(p) - 1 > MaxLevel)
Onward(p) ==
  IF Last(p).index > Len(Last(p).items) THEN Leave(p)
  ELSE IF Opens(p) THEN Append(p, Frame(Last(p).items[Last(p).index]))
  ELSE Skip(p)

\* A set of paths which has every path from which it goes on to one of them, and
\* the empty one, has all of them: the walk comes to an end from everywhere.  By
\* induction on the levels that may be opened and, among those of a level, on the
\* items that are left.
LEMMA WalkInduction ==
  ASSUME TreeOK, NEW S, <<>> \in S,
         \A p \in Paths : p # <<>> /\ Onward(p) \in S => p \in S
  PROVE  Paths \subseteq S
<1> DEFINE Row(q) == \A v \in Seq(Items), i \in Nat \ {0} : Append(q, Fr(v, i)) \in S
           K == {k \in Nat : \A q \in Paths : Len(q) + k >= MaxLevel + 2 /\ Out(q) \in S => Row(q)}
<1>1. MaxLevel \in Nat
  BY MediaDirAssumption
<1>2. ASSUME NEW q \in Paths, Out(q) \in S, NEW v \in Seq(Items),
             \A i \in 1 .. Len(v) : v[i] \in Dirs /\ Len(q) <= MaxLevel
                /\ Append(q, Fr(v, i + 1)) \in S
                  => Append(Append(q, Fr(v, i)), Fr(tree[v[i]], 1)) \in S
      PROVE  \A i \in Nat \ {0} : Append(q, Fr(v, i)) \in S
  <2> DEFINE J == {j \in Nat : \A i \in Nat \ {0} : i + j >= Len(v) + 1
                                  => Append(q, Fr(v, i)) \in S}
  <2>0. Len(v) \in Nat /\ Len(q) \in Nat
    BY DEF Paths
  <2>1. ASSUME NEW i \in Nat \ {0}, i > Len(v) PROVE Append(q, Fr(v, i)) \in S
    <3>0. PICK p : p = Append(q, Fr(v, i)) /\ Ends(p, q, v, i)
      BY PathAppend, Zenon
    <3>1. p \in Paths /\ p # <<>> /\ Last(p).items = v /\ Last(p).index = i /\ Leave(p) = Out(q)
      BY <3>0, Zenon DEF Ends
    <3>2. Onward(p) = Out(q)
      BY <2>1, <3>1 DEF Onward
    <3>3. QED
      BY <1>2, <3>0, <3>1, <3>2, Zenon
  <2>2. 0 \in J
    BY <2>0, <2>1
  <2>3. ASSUME NEW j \in Nat, j \in J PROVE j + 1 \in J
    <3> SUFFICES ASSUME NEW i \in Nat \ {0}, i + (j + 1) >= Len(v) + 1
                 PROVE  Append(q, Fr(v, i)) \in S
      OBVIOUS
    <3>1. CASE i > Len(v)
      BY <2>1, <3>1
    <3>2. CASE ~(i > Len(v))
      <4>0. PICK p : p = Append(q, Fr(v, i)) /\ Ends(p, q, v, i)
        BY PathAppend, Zenon
      <4>1. i \in 1 .. Len(v) /\ i + 1 \in Nat \ {0} /\ (i + 1) + j >= Len(v) + 1
        BY <2>0, <3>2
      <4>2. Append(q, Fr(v, i + 1)) \in S
        BY <2>3, <4>1
      <4>3. p \in Paths /\ p # <<>> /\ Last(p).items = v /\ Last(p).index = i
            /\ Skip(p) = Append(q, Fr(v, i + 1)) /\ Len(p) = Len(q) + 1
        BY <4>0, Zenon DEF Ends
      <4>4. Opens(p) <=> v[i] \in Dirs /\ Len(q) <= MaxLevel
        <5>1. Len(p) - 1 > MaxLevel <=> ~(Len(q) <= MaxLevel)
          BY <1>1, <2>0, <4>3
        <5>2. QED
          BY <4>3, <5>1, Zenon DEF Opens
      <4>5. Onward(p) = IF Opens(p) THEN Append(p, Fr(tree[v[i]], 1)) ELSE Skip(p)
        <5>1. QED
          BY <3>2, <4>3, Zenon DEF Onward, Frame, Fr
      <4>6. Onward(p) \in S
        BY <1>2, <4>0, <4>1, <4>2, <4>3, <4>4, <4>5, Zenon
      <4>7. QED
        BY <4>0, <4>3, <4>6, Zenon
    <3>3. QED
      BY <3>1, <3>2
  <2> HIDE DEF J
  <2>4. Nat \subseteq J
    BY <2>2, <2>3, Induct
  <2>5. QED
    <3> SUFFICES ASSUME NEW i \in Nat \ {0} PROVE Append(q, Fr(v, i)) \in S
      OBVIOUS
    <3>1. Len(v) + 1 \in J /\ i + (Len(v) + 1) >= Len(v) + 1
      BY <2>0, <2>4
    <3>2. QED
      BY <3>1 DEF J
<1>3. 0 \in K
  <2> SUFFICES ASSUME NEW q \in Paths, Len(q) + 0 >= MaxLevel + 2, Out(q) \in S,
                      NEW v \in Seq(Items)
               PROVE  \A i \in Nat \ {0} : Append(q, Fr(v, i)) \in S
    OBVIOUS
  <2>1. ~(Len(q) <= MaxLevel)
    BY <1>1 DEF Paths
  <2>2. QED
    BY <1>2, <2>1, Zenon
<1>4. ASSUME NEW k \in Nat, k \in K PROVE k + 1 \in K
  <2> SUFFICES ASSUME NEW q \in Paths, Len(q) + (k + 1) >= MaxLevel + 2, Out(q) \in S,
                      NEW v \in Seq(Items)
               PROVE  \A i \in Nat \ {0} : Append(q, Fr(v, i)) \in S
    OBVIOUS
  <2>1. ASSUME NEW i \in 1 .. Len(v), v[i] \in Dirs, Append(q, Fr(v, i + 1)) \in S
        PROVE  Append(Append(q, Fr(v, i)), Fr(tree[v[i]], 1)) \in S
    <3>1. i \in Nat \ {0} /\ Len(q) \in Nat
      BY DEF Paths
    <3>0. PICK p : p = Append(q, Fr(v, i)) /\ Ends(p, q, v, i)
      BY <3>1, PathAppend, Zenon
    <3>2. p \in Paths /\ p # <<>> /\ Len(p) = Len(q) + 1
          /\ Skip(p) = Append(q, Fr(v, i + 1))
      BY <3>0, Zenon DEF Ends
    <3>3. Out(p) \in S /\ Len(p) + k >= MaxLevel + 2
      BY <1>1, <2>1, <3>1, <3>2 DEF Out
    <3>4. Row(p)
      BY <1>4, <3>2, <3>3
    <3>5. tree[v[i]] \in Seq(Items) /\ 1 \in Nat \ {0}
      BY <2>1 DEF TreeOK
    <3>6. QED
      BY <3>0, <3>4, <3>5, Zenon
  <2>2. QED
    BY <1>2, <2>1, Zenon
<1>5. ASSUME NEW q \in Paths, Out(q) \in S PROVE Row(q)
  <2>1. Nat \subseteq K
    <3> HIDE DEF K
    <3>1. QED
      BY <1>3, <1>4, Induct
  <2>2. MaxLevel + 2 \in K /\ Len(q) + (MaxLevel + 2) >= MaxLevel + 2
    <3>1. MaxLevel + 2 \in Nat /\ Len(q) \in Nat
      BY <1>1 DEF Paths
    <3> HIDE DEF K
    <3>2. QED
      BY <1>1, <2>1, <3>1
  <2> HIDE DEF Row
  <2>3. QED
    BY <1>5, <2>2
<1> DEFINE L == {n \in Nat : \A p \in Paths : Len(p) = n => p \in S}
<1>6. 0 \in L
  BY EmptySeq DEF Paths
<1>7. ASSUME NEW n \in Nat, n \in L PROVE n + 1 \in L
  <2> SUFFICES ASSUME NEW p \in Paths, Len(p) = n + 1 PROVE p \in S
    OBVIOUS
  <2>1. p # <<>>
    BY Len(p) # 0
  <2>2. PICK q \in Paths, v \in Seq(Items), i \in Nat \ {0} : p = Append(q, Fr(v, i))
    BY <2>1, PathSplit
  <2>3. Len(p) = Len(q) + 1 /\ Len(q) \in Nat
    BY <2>2, PathAppend, Zenon DEF Ends
  <2>4. Out(q) \in S
    <3>1. CASE q = <<>>
      BY <3>1 DEF Out
    <3>2. CASE q # <<>>
      <4>1. Skip(q) \in Paths /\ Len(Skip(q)) = n
        BY <2>3, <3>2, SkipPath
      <4>2. Skip(q) \in S
        BY <1>7, <4>1
      <4>3. QED
        BY <3>2, <4>2 DEF Out
    <3>3. QED
      BY <3>1, <3>2
  <2>5. QED
    BY <1>5, <2>2, <2>4
<1>8. QED
  <2>1. Nat \subseteq L
    <3> HIDE DEF L
    <3>1. QED
      BY <1>6, <1>7, Induct
  <2>2. ASSUME NEW p \in Paths PROVE p \in S
    BY <2>1, Len(p) \in Nat DEF Paths
  <2>3. QED
    BY <2>2

-----------------------------------------------------------------------------
(* _find, one item after the other                                         *)

TailCalls(D, E, out, nxt, f) ==
  /\ f = [x \in D |-> f[x]]
  /\ \A x \in D : f[x] = IF x \in E THEN out[x] ELSE f[nxt[x]]

\* A function that answers or asks itself again about something else exists, even
\* if it might ask for ever.
LEMMA TailRecursion ==
  ASSUME NEW D, NEW E \in SUBSET D, NEW out, NEW nxt \in [D -> D]
  PROVE  \E f : TailCalls(D, E, out, nxt, f)
<1> DEFINE Closed(S) == \A x \in S \ E : nxt[x] \in S
           R == [x \in D |-> {y \in E : \A S \in SUBSET D : x \in S /\ Closed(S) => y \in S}]
           f == [x \in D |-> out[CHOOSE y : y \in R[x]]]
<1>1. ASSUME NEW x \in E PROVE f[x] = out[x]
  <2>1. \A y \in R[x] : y = x
    <3>1. {x} \in SUBSET D /\ Closed({x})
      OBVIOUS
    <3> HIDE DEF Closed
    <3>2. QED
      BY <3>1
  <2>2. x \in R[x]
    OBVIOUS
  <2>3. (CHOOSE y : y \in R[x]) = x
    <3> HIDE DEF R
    <3>1. QED
      BY <2>1, <2>2
  <2>4. QED
    <3> HIDE DEF R
    <3>1. QED
      BY <2>3
<1>2. ASSUME NEW x \in D \ E PROVE f[x] = f[nxt[x]]
  <2>1. nxt[x] \in D
    OBVIOUS
  <2>2. ASSUME NEW y \in R[x] PROVE y \in R[nxt[x]]
    <3> SUFFICES ASSUME NEW S \in SUBSET D, nxt[x] \in S, Closed(S) PROVE y \in S
      BY <2>1
    <3>1. S \cup {x} \in SUBSET D /\ Closed(S \cup {x})
      OBVIOUS
    <3>2. y \in S \cup {x} /\ y \in E
      <4> HIDE DEF Closed
      <4>1. QED
        BY <3>1
    <3>3. QED
      BY <3>2
  <2>3. ASSUME NEW y \in R[nxt[x]] PROVE y \in R[x]
    <3> SUFFICES ASSUME NEW S \in SUBSET D, x \in S, Closed(S) PROVE y \in S
      BY <2>1
    <3>1. nxt[x] \in S
      OBVIOUS
    <3>2. QED
      <4> HIDE DEF Closed
      <4>1. QED
        BY <2>1, <3>1
  <2>4. R[x] = R[nxt[x]]
    <3> HIDE DEF R
    <3>1. QED
      BY <2>2, <2>3
  <2>5. QED
    <3> HIDE DEF R
    <3>1. f[x] = out[CHOOSE y : y \in R[x]]
      OBVIOUS
    <3>2. f[nxt[x]] = out[CHOOSE y : y \in R[nxt[x]]]
      BY <2>1
    <3>3. QED
      BY <2>4, <3>1, <3>2, Zenon
<1>3. f = [x \in D |-> f[x]]
  <2> HIDE DEF R
  <2>1. QED
    OBVIOUS
<1> HIDE DEF f
<1>4. \A x \in D : f[x] = IF x \in E THEN out[x] ELSE f[nxt[x]]
  BY <1>1, <1>2
<1>5. TailCalls(D, E, out, nxt, f)
  BY <1>3, <1>4, Zenon DEF TailCalls
<1>6. QED
  BY <1>5, Zenon

\* There is an item, and it is a media.
AtItem(p) == Last(p).index <= Len(Last(p).items)
AtMedia(p) == AtItem(p) /\ At(p) \in Files

Stops(w, id) == AtMedia(w.path) /\ w.n = id
Advanced(w) ==
  IF ~AtItem(w.path) THEN [w EXCEPT !.path = Leave(w.path)]
  ELSE IF At(w.path) \in Files THEN Passed(w)
  ELSE IF At(w.path) \in Others THEN Refused(w)
  ELSE IF TooDeep(w) THEN [w EXCEPT !.path = Skip(w.path)]
  ELSE Inside(w, At(w.path))

Walk(p, n, r, c) == [path |-> p, n |-> n, ret |-> r, count |-> c]

LEMMA WalkParts ==
  ASSUME NEW s \in Walks
  PROVE  /\ s.path \in Paths /\ s.n \in Int /\ s.ret \in -2 .. 1 /\ s.count \in Nat
         /\ s = Walk(s.path, s.n, s.ret, s.count)
BY DEF Walk, Walks

\* What there is to say of the walk after an item
Advances(s, t) ==
  /\ t \in Walks /\ t.path = Onward(s.path) /\ t.count >= s.count
  /\ t.n = s.n + (IF AtMedia(s.path) THEN 1 ELSE 0)
  /\ ~AtItem(s.path) => t.ret = s.ret
  /\ AtMedia(s.path) => t.ret = 1
  /\ AtItem(s.path) /\ At(s.path) \in Others => t.ret = -1
  /\ AtItem(s.path) /\ At(s.path) \in Dirs => t.ret = IF Opens(s.path) THEN -2 ELSE s.ret

LEMMA AdvancedIs ==
  ASSUME TreeOK, NEW s \in Walks, s.path # <<>>
  PROVE  Advances(s, Advanced(s))
<1>0. PICK t : t = Advanced(s)
  OBVIOUS
<1> SUFFICES Advances(s, t)
  BY <1>0
<1>1. PICK q \in Paths, v \in Seq(Items), i \in Nat \ {0} :
        s.path = Append(q, Fr(v, i)) /\ Ends(s.path, q, v, i)
  BY PathEnd, WalkParts, Zenon
<1>2. s.n \in Int /\ s.ret \in -2 .. 1 /\ s.count \in Nat /\ s.path \in Paths
      /\ Len(s.path) \in Nat /\ MaxLevel \in Nat
  <2>1. s.n \in Int /\ s.ret \in -2 .. 1 /\ s.count \in Nat /\ s.path \in Paths
    BY WalkParts, Zenon
  <2>2. Len(s.path) \in Nat
    BY <2>1 DEF Paths
  <2>3. QED
    BY <2>1, <2>2, MediaDirAssumption
<1>3. AtItem(s.path) => At(s.path) \in Items
  <2>1. At(s.path) = v[i] /\ Last(s.path).items = v /\ Last(s.path).index = i
    BY <1>1 DEF Ends
  <2>2. i <= Len(v) => v[i] \in Items
    OBVIOUS
  <2>3. QED
    BY <2>1, <2>2 DEF AtItem
<1>4. Leave(s.path) \in Paths /\ Skip(s.path) \in Paths
  <2>1. Leave(s.path) = Out(q)
    BY <1>1 DEF Ends
  <2>2. <<>> \in Paths
    BY EmptySeq DEF Paths
  <2>3. QED
    BY <1>2, <2>1, <2>2, SkipPath DEF Out
<1>5. TooDeep(s) <=> Len(s.path) - 1 > MaxLevel
  BY DEF TooDeep
<1>6. s = Walk(s.path, s.n, s.ret, s.count)
  BY WalkParts, Zenon
<1>7. At(s.path) = Last(s.path).items[Last(s.path).index]
  BY DEF At
<1>8. CASE ~AtItem(s.path)
  <2>1. t = [s EXCEPT !.path = Leave(s.path)]
    BY <1>0, <1>8 DEF Advanced
  <2>2. t \in Walks /\ t.path = Leave(s.path) /\ t.count = s.count /\ t.n = s.n /\ t.ret = s.ret
    <3>1. t = Walk(Leave(s.path), s.n, s.ret, s.count)
      BY <1>6, <2>1 DEF Walk
    <3>2. QED
      BY <1>2, <1>4, <3>1 DEF Walk, Walks
  <2>3. Onward(s.path) = Leave(s.path)
    <3>1. Last(s.path).index > Len(Last(s.path).items)
      BY <1>1, <1>8 DEF AtItem, Ends
    <3>2. QED
      BY <3>1 DEF Onward
  <2>4. QED
    BY <1>2, <1>8, <2>2, <2>3 DEF AtMedia, Advances
<1>9. ASSUME AtItem(s.path)
      PROVE  Onward(s.path) = IF Opens(s.path) THEN Append(s.path, Frame(At(s.path)))
                              ELSE Skip(s.path)
  <2>1. ~(Last(s.path).index > Len(Last(s.path).items))
    BY <1>1, <1>9 DEF AtItem, Ends
  <2>2. QED
    BY <1>7, <2>1 DEF Onward
<1>10. Counted(s, s.n + 1) \in Nat /\ Counted(s, s.n + 1) >= s.count
       /\ Counted(s, s.n) \in Nat /\ Counted(s, s.n) >= s.count
  BY <1>2 DEF Counted
<1>11. CASE AtItem(s.path) /\ At(s.path) \in Files
  <2>1. t = Passed(s)
    BY <1>0, <1>11 DEF Advanced
  <2>2. t \in Walks /\ t.path = Skip(s.path) /\ t.count >= s.count /\ t.n = s.n + 1 /\ t.ret = 1
    <3>1. t = Walk(Skip(s.path), s.n + 1, 1, Counted(s, s.n + 1))
      BY <1>6, <2>1 DEF Walk, Passed
    <3>2. s.n + 1 \in Int /\ 1 \in -2 .. 1
      BY <1>2
    <3>3. QED
      BY <1>4, <1>10, <3>1, <3>2 DEF Walk, Walks
  <2>3. At(s.path) \notin Dirs /\ At(s.path) \notin Others
    BY <1>11, MediaDirAssumption
  <2>4. Onward(s.path) = Skip(s.path)
    BY <1>7, <1>9, <1>11, <2>3 DEF Opens
  <2>5. QED
    BY <1>11, <2>2, <2>3, <2>4 DEF AtMedia, Advances
<1>12. CASE AtItem(s.path) /\ At(s.path) \in Others
  <2>1. At(s.path) \notin Dirs /\ At(s.path) \notin Files
    BY <1>12, MediaDirAssumption
  <2>2. t = Refused(s)
    BY <1>0, <1>12, <2>1 DEF Advanced
  <2>3. t \in Walks /\ t.path = Skip(s.path) /\ t.count >= s.count /\ t.n = s.n /\ t.ret = -1
    <3>1. t = Walk(Skip(s.path), s.n, -1, Counted(s, s.n))
      BY <1>6, <2>2 DEF Walk, Refused
    <3>2. -1 \in -2 .. 1
      OBVIOUS
    <3>3. QED
      BY <1>2, <1>4, <1>10, <3>1, <3>2 DEF Walk, Walks
  <2>4. Onward(s.path) = Skip(s.path)
    BY <1>7, <1>9, <1>12, <2>1 DEF Opens
  <2>5. QED
    BY <1>2, <1>12, <2>1, <2>3, <2>4 DEF AtMedia, Advances
<1>13. CASE AtItem(s.path) /\ At(s.path) \in Dirs
  <2>1. At(s.path) \notin Others /\ At(s.path) \notin Files
    BY <1>13, MediaDirAssumption
  <2>2. Opens(s.path) <=> ~TooDeep(s)
    BY <1>5, <1>7, <1>13 DEF Opens
  <2>3. CASE TooDeep(s)
    <3>1. t = [s EXCEPT !.path = Skip(s.path)]
      BY <1>0, <1>13, <2>1, <2>3 DEF Advanced
    <3>2. t \in Walks /\ t.path = Skip(s.path) /\ t.count = s.count /\ t.n = s.n /\ t.ret = s.ret
      <4>1. t = Walk(Skip(s.path), s.n, s.ret, s.count)
        BY <1>6, <3>1 DEF Walk
      <4>2. QED
        BY <1>2, <1>4, <4>1 DEF Walk, Walks
    <3>3. QED
      BY <1>2, <1>9, <1>13, <2>1, <2>2, <2>3, <3>2 DEF AtMedia, Advances
  <2>4. CASE ~TooDeep(s)
    <3>1. t = Inside(s, At(s.path))
      BY <1>0, <1>13, <2>1, <2>4 DEF Advanced
    <3>2. Append(s.path, Frame(At(s.path))) \in Paths
      <4>1. tree[At(s.path)] \in Seq(Items) /\ Frame(At(s.path)) = Fr(tree[At(s.path)], 1)
            /\ 1 \in Nat \ {0}
        BY <1>13 DEF TreeOK, Frame, Fr
      <4>2. Ends(Append(s.path, Fr(tree[At(s.path)], 1)), s.path, tree[At(s.path)], 1)
        BY <1>2, <4>1, PathAppend, Zenon
      <4>3. QED
        BY <4>1, <4>2, Zenon DEF Ends
    <3>3. t \in Walks /\ t.path = Append(s.path, Frame(At(s.path))) /\ t.count = s.count
          /\ t.n = s.n /\ t.ret = -2
      <4>1. t = Walk(Append(s.path, Frame(At(s.path))), s.n, -2, s.count)
        BY <1>6, <3>1 DEF Walk, Inside
      <4>2. -2 \in -2 .. 1
        OBVIOUS
      <4>3. QED
        BY <1>2, <3>2, <4>1, <4>2 DEF Walk, Walks
    <3>4. t.path = Onward(s.path)
      BY <1>9, <1>13, <2>2, <2>4, <3>3, Zenon
    <3>5. t \in Walks /\ t.count = s.count /\ t.n = s.n /\ t.ret = -2
      BY <3>3, Zenon
    <3>6. QED
      BY <1>2, <1>13, <2>1, <2>2, <2>4, <3>4, <3>5 DEF AtMedia, Advances
  <2>5. QED
    BY <2>3, <2>4
<1>14. QED
  BY <1>3, <1>8, <1>11, <1>12, <1>13 DEF Items

\* _find: it stops, or it goes on.
LEMMA FindIs ==
  ASSUME TreeOK, NEW s \in Walks, NEW id
  PROVE  Find(s, id) = IF s.path = <<>> THEN s
                       ELSE IF Stops(s, id) THEN Met(s) ELSE Find(Advanced(s), id)
<1> DEFINE Body(f, w) ==
             IF w.path = <<>> THEN w
             ELSE LET top == Last(w.path) IN
               IF top.index > Len(top.items) THEN f[[w EXCEPT !.path = Leave(w.path)]]
               ELSE LET item == top.items[top.index] IN
                 IF item \in Files THEN IF w.n = id THEN Met(w) ELSE f[Passed(w)]
                 ELSE IF item \in Others THEN f[Refused(w)]
                 ELSE IF TooDeep(w) THEN f[[w EXCEPT !.path = Skip(w.path)]]
                 ELSE f[Inside(w, item)]
           Equation(f) == f = [w \in Walks |-> Body(f, w)]
           find == CHOOSE f : Equation(f)
           E == {w \in Walks : w.path = <<>> \/ Stops(w, id)}
           out == [w \in Walks |-> IF w.path = <<>> THEN w ELSE Met(w)]
           nxt == [w \in Walks |-> IF w.path = <<>> THEN w ELSE Advanced(w)]
<1>1. \A w \in Walks : Find(w, id) = find[w]
  BY Zenon DEF Find
<1>2. nxt \in [Walks -> Walks]
  BY AdvancedIs DEF Advances
<1>3. ASSUME NEW f, NEW w \in Walks
      PROVE  Body(f, w) = IF w \in E THEN out[w] ELSE f[nxt[w]]
  <2>1. CASE w.path = <<>>
    BY <2>1
  <2>2. CASE w.path # <<>>
    <3>1. PICK q \in Paths, v \in Seq(Items), i \in Nat \ {0} : Ends(w.path, q, v, i)
      BY <2>2, PathEnd, WalkParts, Zenon
    <3>2. Last(w.path).index > Len(Last(w.path).items) <=> ~AtItem(w.path)
      BY <3>1 DEF Ends, AtItem
    <3>3. At(w.path) = Last(w.path).items[Last(w.path).index]
      BY DEF At
    <3>4. out[w] = Met(w) /\ nxt[w] = Advanced(w) /\ (w \in E <=> Stops(w, id))
      BY <2>2
    <3>5. Body(f, w) = IF ~AtItem(w.path) THEN f[[w EXCEPT !.path = Leave(w.path)]]
                       ELSE IF At(w.path) \in Files
                            THEN IF w.n = id THEN Met(w) ELSE f[Passed(w)]
                       ELSE IF At(w.path) \in Others THEN f[Refused(w)]
                       ELSE IF TooDeep(w) THEN f[[w EXCEPT !.path = Skip(w.path)]]
                       ELSE f[Inside(w, At(w.path))]
      BY <2>2, <3>2, <3>3, Zenon
    <3> HIDE DEF Body, out, nxt, E
    <3>6. Body(f, w) = IF Stops(w, id) THEN Met(w) ELSE f[Advanced(w)]
      <4>1. CASE ~AtItem(w.path)
        BY <3>5, <4>1, Zenon DEF Stops, AtMedia, Advanced
      <4>2. CASE AtItem(w.path) /\ At(w.path) \in Files
        BY <3>5, <4>2, Zenon DEF Stops, AtMedia, Advanced
      <4>3. CASE AtItem(w.path) /\ At(w.path) \notin Files
        BY <3>5, <4>3, Zenon DEF Stops, AtMedia, Advanced
      <4>4. QED
        BY <4>1, <4>2, <4>3, Zenon
    <3>7. QED
      BY <3>4, <3>6, Zenon
  <2>3. QED
    BY <2>1, <2>2
<1>4. PICK f : TailCalls(Walks, E, out, nxt, f)
  <2> HIDE DEF out, nxt
  <2>1. E \in SUBSET Walks
    OBVIOUS
  <2> HIDE DEF E
  <2>2. QED
    BY <1>2, <2>1, TailRecursion, Zenon
<1>5. Equation(f)
  <2> HIDE DEF Body, E, out, nxt
  <2>1. [w \in Walks |-> Body(f, w)] = [w \in Walks |-> f[w]]
    BY <1>3, <1>4 DEF TailCalls
  <2>2. QED
    BY <1>4, <2>1, Zenon DEF TailCalls
<1>6. Equation(find)
  <2> HIDE DEF Equation
  <2>1. QED
    BY <1>5, Zenon
<1>7. Find(s, id) = IF s \in E THEN out[s] ELSE find[nxt[s]]
  <2> HIDE DEF find, Body, out, nxt, E
  <2>1. find[s] = Body(find, s)
    BY <1>6
  <2>2. QED
    BY <1>1, <1>3, <2>1, Zenon
<1>8. CASE s.path = <<>>
  <2>1. s \in E /\ out[s] = s
    BY <1>8
  <2>2. QED
    BY <1>7, <1>8, <2>1, Zenon
<1>9. CASE s.path # <<>> /\ Stops(s, id)
  <2>1. s \in E /\ out[s] = Met(s)
    BY <1>9
  <2>2. QED
    BY <1>7, <1>9, <2>1, Zenon
<1>10. CASE s.path # <<>> /\ ~Stops(s, id)
  <2>1. s \notin E /\ nxt[s] = Advanced(s)
    BY <1>10
  <2>2. Advanced(s) \in Walks
    BY <1>10, AdvancedIs DEF Advances
  <2>3. Find(Advanced(s), id) = find[Advanced(s)]
    BY <1>1, <2>2, Zenon
  <2>4. QED
    BY <1>7, <1>10, <2>1, <2>3, Zenon
<1>11. QED
  BY <1>8, <1>9, <1>10, Zenon

-----------------------------------------------------------------------------
(* Where a path is in the order                                            *)

\* Each directory of the path is an item of the one before it.
Placed(p) ==
  /\ p \in Paths /\ Len(p) <= MaxLevel + 2
  /\ \A n \in 1 .. Len(p) :
       /\ p[n].index <= Len(p[n].items) + 1
       /\ n < Len(p) => p[n].index <= Len(p[n].items) /\ p[n].items[p[n].index] \in Dirs

\* The files of a set before the item of a path
BeforeIn(p, set) ==
  FlattenSeq([n \in DOMAIN p |->
    FilesAmong(SubSeq(p[n].items, 1, p[n].index - 1), n - 1, set)])

Deeper(q) == q # <<>> => AtItem(q) /\ At(q) \in Dirs
Base(q) == IF q = <<>> THEN tree[Root] ELSE tree[At(q)]

LEMMA NoPath ==
  /\ <<>> \in Paths /\ Placed(<<>>) /\ IsFresh(<<>>)
  /\ \A set : BeforeIn(<<>>, set) = <<>>
<1>1. <<>> \in Paths /\ Len(<<>>) = 0
  BY EmptySeq DEF Paths
<1>2. Placed(<<>>) /\ IsFresh(<<>>)
  BY <1>1, MediaDirAssumption DEF Placed, IsFresh
<1>3. ASSUME NEW set PROVE BeforeIn(<<>>, set) = <<>>
  <2>1. [n \in DOMAIN <<>> |-> FilesAmong(SubSeq(<<>>[n].items, 1, <<>>[n].index - 1), n - 1, set)]
          = <<>>
    OBVIOUS
  <2>2. QED
    BY <2>1 DEF BeforeIn, FlattenSeq
<1>4. QED
  BY <1>1, <1>2, <1>3

LEMMA PlacedAppend ==
  ASSUME NEW q \in Paths, NEW v \in Seq(Items), NEW i \in Nat \ {0},
         NEW p, Ends(p, q, v, i)
  PROVE  Placed(p) <=> /\ Placed(q) /\ Deeper(q)
                       /\ Len(q) <= MaxLevel + 1 /\ i <= Len(v) + 1
<1>1. /\ p \in Paths /\ Len(p) = Len(q) + 1 /\ Len(q) \in Nat
      /\ p[Len(q) + 1] = Fr(v, i) /\ \A n \in 1 .. Len(q) : p[n] = q[n]
  BY DEF Ends
<1>2. Fr(v, i).items = v /\ Fr(v, i).index = i /\ MaxLevel \in Nat
  BY MediaDirAssumption DEF Fr
<1>3. ASSUME Placed(p)
      PROVE  Placed(q) /\ Deeper(q) /\ Len(q) <= MaxLevel + 1 /\ i <= Len(v) + 1
  <2>1. Len(q) <= MaxLevel + 1 /\ i <= Len(v) + 1
    BY <1>1, <1>2, <1>3, Len(p) \in 1 .. Len(p) DEF Placed
  <2>2. Placed(q)
    BY <1>1, <1>2, <1>3 DEF Placed
  <2>3. q # <<>> => Len(q) \in 1 .. Len(q) /\ Len(q) \in 1 .. Len(p) /\ Len(q) < Len(p)
    BY <1>1 DEF Paths
  <2>4. Deeper(q)
    <3>1. CASE q = <<>>
      BY <3>1, Zenon DEF Deeper
    <3>2. CASE q # <<>>
      <4>1. PICK m \in 1 .. Len(p) : m = Len(q) /\ m < Len(p) /\ p[m] = q[m]
        BY <1>1, <2>3, <3>2
      <4>2. p[m].index <= Len(p[m].items) /\ p[m].items[p[m].index] \in Dirs
        BY <1>3, <4>1 DEF Placed
      <4>3. QED
        BY <4>1, <4>2, Zenon DEF Deeper, AtItem, At, Last
    <3>3. QED
      BY <3>1, <3>2
  <2>5. QED
    BY <2>1, <2>2, <2>4
<1>4. ASSUME Placed(q), Deeper(q), Len(q) <= MaxLevel + 1, i <= Len(v) + 1
      PROVE  Placed(p)
  <2> SUFFICES ASSUME NEW n \in 1 .. Len(p)
               PROVE  /\ p[n].index <= Len(p[n].items) + 1
                      /\ n < Len(p) => /\ p[n].index <= Len(p[n].items)
                                       /\ p[n].items[p[n].index] \in Dirs
    BY <1>1, <1>2, <1>4 DEF Placed
  <2>1. CASE n = Len(p)
    BY <1>1, <1>2, <1>4, <2>1
  <2>2. CASE n # Len(p)
    <3>1. n \in 1 .. Len(q) /\ p[n] = q[n]
      BY <1>1, <2>2
    <3>2. q[n].index <= Len(q[n].items) + 1
          /\ (n < Len(q) => q[n].index <= Len(q[n].items) /\ q[n].items[q[n].index] \in Dirs)
      BY <1>4, <3>1 DEF Placed
    <3>3. n = Len(q) => q[n].index <= Len(q[n].items) /\ q[n].items[q[n].index] \in Dirs
      BY <1>4, <3>1 DEF Deeper, AtItem, At, Last
    <3>4. n < Len(q) \/ n = Len(q)
      BY <1>1, <3>1
    <3>5. QED
      BY <3>1, <3>2, <3>3, <3>4, Zenon
  <2>3. QED
    BY <2>1, <2>2
<1>5. QED
  BY <1>3, <1>4

LEMMA FreshAppend ==
  ASSUME NEW q \in Paths, NEW v \in Seq(Items), NEW i \in Nat \ {0},
         NEW p, Ends(p, q, v, i)
  PROVE  IsFresh(p) <=> IsFresh(q) /\ v = Base(q)
<1>1. /\ p \in Paths /\ Len(p) = Len(q) + 1 /\ Len(q) \in Nat
      /\ p[Len(q) + 1] = Fr(v, i) /\ \A n \in 1 .. Len(q) : p[n] = q[n]
  BY DEF Ends
<1>2. Fr(v, i).items = v
  BY DEF Fr
<1>3. DOMAIN p = 1 .. Len(q) + 1 /\ DOMAIN q = 1 .. Len(q)
  BY <1>1 DEF Paths
<1>4. ASSUME NEW n \in 1 .. Len(q) PROVE SubSeq(p, 1, n) = SubSeq(q, 1, n)
  BY <1>1 DEF Paths
<1>5. ASSUME NEW n \in 1 .. Len(q) PROVE SubSeq(p, 1, n - 1) = SubSeq(q, 1, n - 1)
  BY <1>1 DEF Paths
<1>6. SubSeq(q, 1, Len(q)) = q
  BY DEF Paths
<1>7. SubSeq(p, 1, Len(q) + 1 - 1) = q
  <2>1. Len(q) + 1 - 1 = Len(q)
    BY <1>1
  <2>2. CASE Len(q) = 0
    <3>1. q = <<>>
      BY <2>2, EmptySeq DEF Paths
    <3>2. SubSeq(p, 1, 0) = <<>>
      BY <1>1 DEF Paths
    <3>3. QED
      BY <2>1, <2>2, <3>1, <3>2
  <2>3. CASE Len(q) # 0
    BY <1>1, <1>4, <1>6, <2>1, <2>3
  <2>4. QED
    BY <2>2, <2>3
<1>8. Len(q) + 1 = 1 <=> q = <<>>
  BY EmptySeq DEF Paths
<1>9. IsFresh(p) <=> /\ \A n \in 1 .. Len(q) :
                          p[n].items = IF n = 1 THEN tree[Root] ELSE tree[At(SubSeq(p, 1, n - 1))]
                     /\ v = IF Len(q) + 1 = 1 THEN tree[Root]
                            ELSE tree[At(SubSeq(p, 1, Len(q) + 1 - 1))]
  <2> DEFINE Same(n) == p[n].items = IF n = 1 THEN tree[Root] ELSE tree[At(SubSeq(p, 1, n - 1))]
  <2>1. IsFresh(p) <=> \A n \in 1 .. Len(q) + 1 : Same(n)
    BY <1>3, Zenon DEF IsFresh
  <2>2. Same(Len(q) + 1) <=> v = IF Len(q) + 1 = 1 THEN tree[Root]
                                 ELSE tree[At(SubSeq(p, 1, Len(q) + 1 - 1))]
    <3>1. p[Len(q) + 1].items = v
      BY <1>1, <1>2, Zenon
    <3>2. QED
      BY <3>1
  <2> HIDE DEF Same
  <2>3. (\A n \in 1 .. Len(q) + 1 : Same(n))
          <=> (\A n \in 1 .. Len(q) : Same(n)) /\ Same(Len(q) + 1)
    <3>1. \A n \in 1 .. Len(q) + 1 : n \in 1 .. Len(q) \/ n = Len(q) + 1
      BY <1>1
    <3>2. 1 .. Len(q) \subseteq 1 .. Len(q) + 1 /\ Len(q) + 1 \in 1 .. Len(q) + 1
      BY <1>1
    <3>3. QED
      BY <3>1, <3>2, Zenon
  <2>4. QED
    BY <2>1, <2>2, <2>3, Zenon DEF Same
<1>10. IsFresh(q) <=> \A n \in 1 .. Len(q) :
                        p[n].items = IF n = 1 THEN tree[Root] ELSE tree[At(SubSeq(p, 1, n - 1))]
  BY <1>1, <1>3, <1>5, Zenon DEF IsFresh
<1>11. QED
  BY <1>7, <1>8, <1>9, <1>10, Zenon DEF Base

LEMMA BeforeAppend ==
  ASSUME TreeOK, NEW q \in Paths, NEW v \in Seq(Items), NEW i \in Nat \ {0},
         NEW p, Ends(p, q, v, i), Placed(p), NEW set
  PROVE  /\ BeforeIn(q, set) \in Seq(set)
         /\ BeforeIn(p, set) = BeforeIn(q, set) \o FilesAmong(SubSeq(v, 1, i - 1), Len(q), set)
<1>1. /\ p \in Paths /\ Len(p) = Len(q) + 1 /\ Len(q) \in Nat
      /\ p[Len(q) + 1] = Fr(v, i) /\ \A n \in 1 .. Len(q) : p[n] = q[n]
  BY DEF Ends
<1>2. Fr(v, i).items = v /\ Fr(v, i).index = i /\ MaxLevel \in Nat
  BY MediaDirAssumption DEF Fr
<1> DEFINE Piece(x, n) == FilesAmong(SubSeq(x[n].items, 1, x[n].index - 1), n - 1, set)
           s == [n \in 1 .. Len(p) |-> Piece(p, n)]
           t == [n \in 1 .. Len(q) |-> Piece(q, n)]
<1>3. BeforeIn(p, set) = FlattenSeq(s) /\ BeforeIn(q, set) = FlattenSeq(t)
  <2>1. DOMAIN p = 1 .. Len(p) /\ DOMAIN q = 1 .. Len(q)
    BY <1>1 DEF Paths
  <2>2. QED
    BY <2>1, Zenon DEF BeforeIn
<1>4. ASSUME NEW n \in 1 .. Len(p) PROVE Piece(p, n) \in Seq(set)
  <2>1. p[n].items \in Seq(Items) /\ p[n].index \in Nat \ {0} /\ p[n].index <= Len(p[n].items) + 1
    <3>1. p[n] \in [items : Seq(Items), index : Nat \ {0}]
      BY <1>1, ElementOfSeq DEF Paths
    <3>2. p[n].index <= Len(p[n].items) + 1
      BY DEF Placed
    <3>3. QED
      BY <3>1, <3>2
  <2>2. SubSeq(p[n].items, 1, p[n].index - 1) \in Seq(Items)
    BY <2>1
  <2>3. n - 1 \in 0 .. MaxLevel + 1
    BY <1>1, <1>2 DEF Placed
  <2>4. QED
    BY <2>2, <2>3, AmongIs
<1>5. \A n \in 1 .. Len(q) : n \in 1 .. Len(p) /\ Piece(q, n) = Piece(p, n)
  BY <1>1
<1>6. Piece(p, Len(q) + 1) = FilesAmong(SubSeq(v, 1, i - 1), Len(q), set)
  <2>1. Len(q) + 1 - 1 = Len(q)
    BY <1>1
  <2>2. p[Len(q) + 1].items = v /\ p[Len(q) + 1].index = i
    BY <1>1, <1>2, Zenon
  <2>3. QED
    BY <2>1, <2>2
<1> HIDE DEF Piece
<1>7. t \in Seq(Seq(set))
  BY <1>1, <1>4, <1>5
<1>8. s = Append(t, Piece(p, Len(q) + 1))
  <2>1. Len(t) = Len(q) /\ Len(q) + 1 \in 1 .. Len(p)
    BY <1>1
  <2> DEFINE u == Append(t, Piece(p, Len(q) + 1))
  <2>2. u \in Seq(Seq(set)) /\ Len(u) = Len(p) /\ u[Len(q) + 1] = Piece(p, Len(q) + 1)
        /\ \A n \in 1 .. Len(q) : u[n] = t[n]
    <3> HIDE DEF t
    <3>1. Piece(p, Len(q) + 1) \in Seq(set)
      BY <1>4, <2>1
    <3>2. QED
      BY <1>1, <1>7, <2>1, <3>1, AppendProperties
  <2> HIDE DEF u
  <2>3. s \in Seq(Seq(set)) /\ Len(s) = Len(p)
    BY <1>1, <1>4
  <2>4. ASSUME NEW n \in 1 .. Len(s) PROVE s[n] = u[n]
    <3>1. CASE n = Len(q) + 1
      BY <2>1, <2>2, <3>1
    <3>2. CASE n # Len(q) + 1
      <4>1. n \in 1 .. Len(q) /\ n \in 1 .. Len(p)
        BY <1>1, <2>3, <3>2
      <4>2. s[n] = Piece(p, n) /\ t[n] = Piece(q, n)
        BY <4>1
      <4>3. QED
        BY <1>5, <2>2, <4>1, <4>2
    <3>3. QED
      BY <3>1, <3>2
  <2>5. s = u
    <3> HIDE DEF s
    <3>1. QED
      BY <2>2, <2>3, <2>4, SeqEqual
  <2>6. QED
    BY <2>5 DEF u
<1>9. FlattenSeq(t) \in Seq(set)
  <2> HIDE DEF t
  <2>1. QED
    BY <1>7, FlattenType
<1>10. FlattenSeq(s) = FlattenSeq(t) \o Piece(p, Len(q) + 1)
  <2>1. Piece(p, Len(q) + 1) \in Seq(set)
    BY <1>1, <1>4, Len(q) + 1 \in 1 .. Len(p)
  <2> HIDE DEF s, t
  <2>2. QED
    BY <1>7, <1>8, <2>1, FlattenAppend
<1>11. QED
  BY <1>3, <1>6, <1>9, <1>10, Zenon

LEMMA BeforeType ==
  ASSUME TreeOK, NEW p, Placed(p), p # <<>>, NEW set
  PROVE  BeforeIn(p, set) \in Seq(set)
<1>1. PICK q \in Paths, v \in Seq(Items), i \in Nat \ {0} : Ends(p, q, v, i)
  BY PathEnd, Zenon DEF Placed
<1>2. BeforeIn(q, set) \in Seq(set)
      /\ BeforeIn(p, set) = BeforeIn(q, set) \o FilesAmong(SubSeq(v, 1, i - 1), Len(q), set)
  BY <1>1, BeforeAppend
<1>3. FilesAmong(SubSeq(v, 1, i - 1), Len(q), set) \in Seq(set)
  <2>1. i <= Len(v) + 1 /\ Len(q) <= MaxLevel + 1 /\ Len(q) \in Nat
    BY <1>1, PlacedAppend DEF Ends
  <2>2. SubSeq(v, 1, i - 1) \in Seq(Items) /\ Len(q) \in 0 .. MaxLevel + 1
    BY <2>1, MediaDirAssumption
  <2>3. QED
    BY <2>2, AmongIs
<1>4. QED
  BY <1>2, <1>3, ConcatProperties

\* The items before the next one
LEMMA BeforeSkip ==
  ASSUME TreeOK, NEW p, Placed(p), p # <<>>, AtItem(p), NEW set
  PROVE  /\ Placed(Skip(p)) /\ (IsFresh(p) => IsFresh(Skip(p)))
         /\ At(p) \in Items
         /\ Of(At(p), Len(p) - 1, set) \in Seq(set)
         /\ BeforeIn(Skip(p), set) = BeforeIn(p, set) \o Of(At(p), Len(p) - 1, set)
<1>1. PICK q \in Paths, v \in Seq(Items), i \in Nat \ {0} :
        p = Append(q, Fr(v, i)) /\ Ends(p, q, v, i)
  BY PathEnd, Zenon DEF Placed
<1>2. At(p) = v[i] /\ Len(p) - 1 = Len(q) /\ Len(q) \in Nat /\ i <= Len(v)
      /\ Skip(p) = Append(q, Fr(v, i + 1))
  BY <1>1 DEF Ends, AtItem
<1>3. PICK j \in Nat \ {0} : j = i + 1 /\ j - 1 = i
  OBVIOUS
<1>4. Skip(p) = Append(q, Fr(v, j)) /\ Ends(Skip(p), q, v, j)
  BY <1>2, <1>3, PathAppend, Zenon
<1>5. Placed(q) /\ Deeper(q) /\ Len(q) <= MaxLevel + 1
  BY <1>1, PlacedAppend, Zenon
<1>6. j <= Len(v) + 1
  BY <1>2, <1>3
<1>7. Placed(Skip(p))
  BY <1>4, <1>5, <1>6, PlacedAppend, Zenon
<1>8. IsFresh(p) => IsFresh(Skip(p))
  BY <1>1, <1>4, FreshAppend, Zenon
<1> DEFINE a == FilesAmong(SubSeq(v, 1, i - 1), Len(q), set)
           b == FilesAmong(SubSeq(v, 1, i), Len(q), set)
           c == Of(v[i], Len(q), set)
<1>9. BeforeIn(q, set) \in Seq(set) /\ BeforeIn(p, set) = BeforeIn(q, set) \o a
  BY <1>1, BeforeAppend
<1>10. BeforeIn(Skip(p), set) = BeforeIn(q, set) \o b
  BY <1>3, <1>4, <1>7, BeforeAppend
<1>11. v[i] \in Items /\ SubSeq(v, 1, i - 1) \in Seq(Items) /\ Len(q) \in 0 .. MaxLevel + 1
  BY <1>2, <1>5, MediaDirAssumption
<1>12. SubSeq(v, 1, i) = Append(SubSeq(v, 1, i - 1), v[i])
  BY <1>2
<1>13. b = a \o c /\ a \in Seq(set) /\ c \in Seq(set)
  BY <1>11, <1>12, AmongIs
<1> HIDE DEF a, b, c
<1>14. BeforeIn(q, set) \o (a \o c) = (BeforeIn(q, set) \o a) \o c
  <2>1. PICK x \in Seq(set) : x = BeforeIn(q, set)
    BY <1>9
  <2>2. x \o (a \o c) = (x \o a) \o c
    <3>1. PICK y \in Seq(set), z \in Seq(set) : y = a /\ z = c
      BY <1>13, Zenon
    <3>2. x \o (y \o z) = (x \o y) \o z
      BY Associative
    <3>3. QED
      BY <3>1, <3>2
  <2>3. QED
    BY <2>1, <2>2, Zenon
<1>15. c = Of(At(p), Len(p) - 1, set)
  BY <1>2 DEF c
<1>16. QED
  BY <1>2, <1>7, <1>8, <1>9, <1>10, <1>11, <1>13, <1>14, <1>15, Zenon

\* The walk goes on to a path of the same kind.
LEMMA OnwardPlaced ==
  ASSUME TreeOK, NEW p, Placed(p), p # <<>>
  PROVE  Placed(Onward(p)) /\ (IsFresh(p) => IsFresh(Onward(p)))
<1>1. PICK q \in Paths, v \in Seq(Items), i \in Nat \ {0} :
        p = Append(q, Fr(v, i)) /\ Ends(p, q, v, i)
  BY PathEnd, Zenon DEF Placed
<1>2. Placed(q) /\ Deeper(q) /\ (IsFresh(p) => IsFresh(q)) /\ p \in Paths
  BY <1>1, PlacedAppend, FreshAppend, Zenon DEF Placed
<1>3. CASE ~AtItem(p)
  <2>1. Onward(p) = Out(q)
    BY <1>1, <1>3 DEF Onward, AtItem, Ends
  <2>2. CASE q = <<>>
    BY <2>1, <2>2, NoPath, Zenon DEF Out
  <2>3. CASE q # <<>>
    BY <1>2, <2>1, <2>3, BeforeSkip, Zenon DEF Out, Deeper
  <2>4. QED
    BY <2>2, <2>3
<1>4. CASE AtItem(p)
  <2>1. ~(Last(p).index > Len(Last(p).items)) /\ At(p) = Last(p).items[Last(p).index]
    BY <1>1, <1>4 DEF AtItem, Ends, At
  <2>2. CASE Opens(p)
    <3>1. Onward(p) = Append(p, Fr(tree[At(p)], 1)) /\ At(p) \in Dirs
      BY <2>1, <2>2, Zenon DEF Onward, Frame, Fr, Opens
    <3>2. tree[At(p)] \in Seq(Items) /\ 1 \in Nat \ {0} /\ 1 <= Len(tree[At(p)]) + 1
      BY <3>1 DEF TreeOK
    <3>3. Ends(Onward(p), p, tree[At(p)], 1)
      BY <1>2, <3>1, <3>2, PathAppend, Zenon
    <3>4. Deeper(p)
      BY <1>4, <3>1 DEF Deeper
    <3>5. Len(p) <= MaxLevel + 1
      BY <1>2, <2>2, MediaDirAssumption DEF Opens, Paths
    <3>6. tree[At(p)] = Base(p)
      BY DEF Base
    <3>7. QED
      BY <1>2, <3>2, <3>3, <3>4, <3>5, <3>6, PlacedAppend, FreshAppend, Zenon
  <2>3. CASE ~Opens(p)
    <3>1. Onward(p) = Skip(p)
      BY <2>1, <2>3, Zenon DEF Onward
    <3>2. QED
      BY <1>4, <3>1, BeforeSkip, Zenon
  <2>4. QED
    BY <2>2, <2>3
<1>5. QED
  BY <1>3, <1>4

Whole(set) == FilesAmong(tree[Root], 0, set)
Own(p, set) == IF AtItem(p) /\ At(p) \in set THEN <<At(p)>> ELSE <<>>

\* Each item counts once: where it is met itself, if it is a file of the set.
LEMMA OnwardBefore ==
  ASSUME TreeOK, NEW p, Placed(p), IsFresh(p), p # <<>>, NEW set, Dirs \cap set = {}
  PROVE  /\ Own(p, set) \in Seq(set)
         /\ Onward(p) # <<>> => BeforeIn(Onward(p), set) = BeforeIn(p, set) \o Own(p, set)
         /\ Onward(p) = <<>> => BeforeIn(p, set) = Whole(set) /\ ~AtItem(p)
<1>1. PICK q \in Paths, v \in Seq(Items), i \in Nat \ {0} :
        p = Append(q, Fr(v, i)) /\ Ends(p, q, v, i)
  BY PathEnd, Zenon DEF Placed
<1>2. Placed(q) /\ Deeper(q) /\ v = Base(q) /\ p \in Paths
      /\ i <= Len(v) + 1 /\ Len(q) <= MaxLevel + 1
  BY <1>1, PlacedAppend, FreshAppend, Zenon DEF Placed
<1>3. Len(q) \in Nat /\ MaxLevel \in Nat /\ Len(p) = Len(q) + 1 /\ Len(p) - 1 = Len(q)
  BY <1>1, MediaDirAssumption DEF Ends
<1>4. Own(p, set) \in Seq(set)
  BY DEF Own
<1>5. BeforeIn(p, set) \in Seq(set)
  BY BeforeType
<1>6. BeforeIn(p, set) \o <<>> = BeforeIn(p, set)
  BY <1>5
<1>7. CASE ~AtItem(p)
  <2>1. Onward(p) = Out(q) /\ i > Len(v)
    BY <1>1, <1>7 DEF Onward, AtItem, Ends
  <2>2. SubSeq(v, 1, i - 1) = v
    <3>1. i - 1 = Len(v)
      BY <1>2, <2>1
    <3>2. QED
      BY <3>1
  <2>3. BeforeIn(p, set) = BeforeIn(q, set) \o FilesAmong(v, Len(q), set)
    <3>1. BeforeIn(p, set) = BeforeIn(q, set) \o FilesAmong(SubSeq(v, 1, i - 1), Len(q), set)
      BY <1>1, BeforeAppend
    <3>2. QED
      BY <2>2, <3>1, Zenon
  <2>4. Own(p, set) = <<>>
    BY <1>7 DEF Own
  <2>5. CASE q = <<>>
    <3>1. Onward(p) = <<>>
      BY <2>1, <2>5 DEF Out
    <3>2. BeforeIn(p, set) = <<>> \o Whole(set)
      BY <1>2, <2>3, <2>5, NoPath, EmptySeq DEF Whole, Base
    <3>3. Whole(set) \in Seq(set)
      <4>1. tree[Root] \in Seq(Items) /\ 0 \in 0 .. MaxLevel + 1
        BY <1>3, MediaDirAssumption DEF TreeOK
      <4>2. QED
        BY <4>1, AmongIs DEF Whole
    <3>4. QED
      BY <1>4, <1>7, <3>1, <3>2, <3>3
  <2>6. CASE q # <<>>
    <3>1. Onward(p) = Skip(q) /\ Skip(q) # <<>>
      BY <2>1, <2>6, SkipPath DEF Out
    <3>2. AtItem(q) /\ At(q) \in Dirs /\ v = tree[At(q)]
      BY <1>2, <2>6, Zenon DEF Deeper, Base
    <3>3. BeforeIn(Skip(q), set) = BeforeIn(q, set) \o Of(At(q), Len(q) - 1, set)
      BY <1>2, <2>6, <3>2, BeforeSkip
    <3>4. PICK l \in 0 .. MaxLevel + 1 : l = Len(q) - 1 /\ l <= MaxLevel /\ l + 1 = Len(q)
      <4>1. Len(q) # 0
        BY <2>6, EmptySeq DEF Paths
      <4>2. /\ Len(q) - 1 \in 0 .. MaxLevel + 1
            /\ Len(q) - 1 <= MaxLevel /\ Len(q) - 1 + 1 = Len(q)
        BY <1>2, <1>3, <4>1
      <4>3. QED
        BY <4>2, Zenon
    <3>5. Of(At(q), l, set) = FilesAmong(tree[At(q)], l + 1, set)
      BY <3>2, <3>4, OfIs
    <3>6. QED
      BY <1>4, <1>6, <2>3, <2>4, <3>1, <3>2, <3>3, <3>4, <3>5
  <2>7. QED
    BY <2>5, <2>6
<1>8. CASE AtItem(p)
  <2>1. ~(Last(p).index > Len(Last(p).items)) /\ At(p) = Last(p).items[Last(p).index]
    BY <1>1, <1>8 DEF AtItem, Ends, At
  <2>2. CASE Opens(p)
    <3>1. Onward(p) = Append(p, Fr(tree[At(p)], 1)) /\ At(p) \in Dirs
      BY <2>1, <2>2, Zenon DEF Onward, Frame, Fr, Opens
    <3>2. tree[At(p)] \in Seq(Items) /\ 1 \in Nat \ {0}
      BY <3>1 DEF TreeOK
    <3>3. Ends(Onward(p), p, tree[At(p)], 1) /\ Placed(Onward(p))
      BY <1>2, <3>1, <3>2, PathAppend, OnwardPlaced, Zenon
    <3>4. BeforeIn(Onward(p), set)
            = BeforeIn(p, set) \o FilesAmong(SubSeq(tree[At(p)], 1, 1 - 1), Len(p), set)
      BY <1>2, <3>2, <3>3, BeforeAppend
    <3>5. SubSeq(tree[At(p)], 1, 1 - 1) = <<>>
      BY <3>2
    <3>6. FilesAmong(<<>>, Len(p), set) = <<>>
      <4>1. Len(p) \in 0 .. MaxLevel + 1 /\ tree[At(p)] \in Seq(Items)
        BY <1>3, <2>2, <3>2 DEF Opens
      <4>2. QED
        BY <4>1, AmongIs
    <3>7. Own(p, set) = <<>>
      BY <3>1 DEF Own
    <3>8. Onward(p) # <<>>
      BY <3>3 DEF Ends
    <3>9. QED
      BY <1>4, <3>4, <3>5, <3>6, <3>7, <3>8
  <2>3. CASE ~Opens(p)
    <3>1. Onward(p) = Skip(p) /\ Skip(p) # <<>>
      BY <1>2, <2>1, <2>3, SkipPath, Zenon DEF Onward
    <3>2. BeforeIn(Skip(p), set) = BeforeIn(p, set) \o Of(At(p), Len(p) - 1, set)
          /\ At(p) \in Items
      BY <1>8, BeforeSkip
    <3>3. Of(At(p), Len(p) - 1, set) = Own(p, set)
      <4>1. Len(p) - 1 \in 0 .. MaxLevel + 1
        BY <1>2, <1>3
      <4>2. CASE At(p) \in Dirs
        <5>1. Len(p) - 1 = MaxLevel + 1
          <6>1. Len(p) - 1 > MaxLevel
            <7>1. Last(p).items[Last(p).index] \in Dirs
              BY <2>1, <4>2, Zenon
            <7>2. QED
              BY <2>3, <7>1 DEF Opens
          <6>2. PICK a \in Nat, m \in Nat : a = Len(q) /\ m = MaxLevel
            BY <1>3
          <6>3. a > m /\ a <= m + 1 /\ Len(p) - 1 = a
            BY <1>2, <1>3, <6>1, <6>2, Zenon
          <6>4. a = m + 1
            BY <6>3
          <6>5. QED
            BY <6>2, <6>3, <6>4
        <5>2. Of(At(p), Len(p) - 1, set) = <<>>
          BY <4>1, <4>2, <5>1, OfIs
        <5>3. QED
          BY <4>2, <5>2 DEF Own
      <4>3. CASE At(p) \in set
        <5>1. Of(At(p), Len(p) - 1, set) = <<At(p)>>
          BY <4>1, <4>3, OfIs
        <5>2. QED
          BY <1>8, <4>3, <5>1 DEF Own
      <4>4. CASE At(p) \notin set \cup Dirs
        <5>1. Of(At(p), Len(p) - 1, set) = <<>>
          BY <4>1, <4>4, OfIs
        <5>2. QED
          BY <4>4, <5>1 DEF Own
      <4>5. QED
        BY <4>2, <4>3, <4>4
    <3>4. QED
      BY <1>4, <3>1, <3>2, <3>3
  <2>4. QED
    BY <2>2, <2>3
<1>9. QED
  BY <1>7, <1>8

-----------------------------------------------------------------------------
(* What _find finds                                                        *)

LEMMA MetIs ==
  ASSUME NEW s \in Walks
  PROVE  /\ Met(s) \in Walks /\ Met(s).path = s.path /\ Met(s).n = s.n /\ Met(s).ret = 0
         /\ Met(s).count >= s.count
<1>1. s.path \in Paths /\ s.n \in Int /\ s.count \in Nat
      /\ s = Walk(s.path, s.n, s.ret, s.count)
  BY WalkParts, Zenon
<1>2. Counted(s, s.n) \in Nat /\ Counted(s, s.n) >= s.count
  BY <1>1 DEF Counted
<1>3. Met(s) = Walk(s.path, s.n, 0, Counted(s, s.n))
  <2>1. PICK c : c = Counted(s, s.n)
    OBVIOUS
  <2>2. Met(s) = [s EXCEPT !.ret = 0, !.count = c]
    BY <2>1, Zenon DEF Met
  <2>3. Met(s) = Walk(s.path, s.n, 0, c)
    BY <1>1, <2>2 DEF Walk
  <2>4. QED
    BY <2>1, <2>3
<1>4. 0 \in -2 .. 1
  OBVIOUS
<1>5. QED
  BY <1>1, <1>2, <1>3, <1>4 DEF Walk, Walks

\* What holds of a walk at its end and where it stops, and of a walk if it does of
\* the one after an item, holds of each walk and of what _find makes of it.
LEMMA FindInduction ==
  ASSUME TreeOK, NEW id, NEW G,
         \A s \in Walks : s.path = <<>> => <<s, s>> \in G,
         \A s \in Walks : s.path # <<>> /\ Stops(s, id) => <<s, Met(s)>> \in G,
         \A s \in Walks, t \in Walks, u \in Walks :
           s.path # <<>> /\ ~Stops(s, id) /\ Advances(s, t) /\ <<t, u>> \in G => <<s, u>> \in G
  PROVE  \A s \in Walks : Find(s, id) \in Walks /\ <<s, Find(s, id)>> \in G
<1> DEFINE Holds(s) == Find(s, id) \in Walks /\ <<s, Find(s, id)>> \in G
           S == {p \in Paths : \A s \in Walks : s.path = p => Holds(s)}
<1>1. <<>> \in S
  <2>1. <<>> \in Paths
    BY NoPath, Zenon
  <2>2. ASSUME NEW s \in Walks, s.path = <<>> PROVE Holds(s)
    <3>1. Find(s, id) = s
      BY <2>2, FindIs, Zenon
    <3>2. QED
      BY <2>2, <3>1
  <2>3. QED
    BY <2>1, <2>2
<1>2. ASSUME NEW p \in Paths, p # <<>>, Onward(p) \in S PROVE p \in S
  <2> SUFFICES ASSUME NEW s \in Walks, s.path = p PROVE Holds(s)
    OBVIOUS
  <2>1. s.path # <<>>
    BY <1>2
  <2>2. CASE Stops(s, id)
    <3>1. Find(s, id) = Met(s)
      BY <2>1, <2>2, FindIs, Zenon
    <3>2. QED
      BY <2>1, <2>2, <3>1, MetIs
  <2>3. CASE ~Stops(s, id)
    <3>1. PICK t : t = Advanced(s)
      OBVIOUS
    <3>2. Find(s, id) = Find(t, id)
      BY <2>1, <2>3, <3>1, FindIs, Zenon
    <3>3. Advances(s, t)
      BY <2>1, <3>1, AdvancedIs, Zenon
    <3>4. t \in Walks /\ t.path = Onward(p)
      BY <3>3 DEF Advances
    <3>5. Holds(t)
      BY <1>2, <3>4
    <3>6. QED
      BY <2>1, <2>3, <3>2, <3>3, <3>4, <3>5, Zenon
  <2>4. QED
    BY <2>2, <2>3
<1>3. Paths \subseteq S
  <2> HIDE DEF S
  <2>1. QED
    BY <1>1, <1>2, WalkInduction
<1>4. QED
  <2> SUFFICES ASSUME NEW s \in Walks PROVE Holds(s)
    OBVIOUS
  <2>1. s.path \in S
    BY <1>3, WalkParts
  <2>2. QED
    BY <2>1

\* It stops at the media of the number or at the end, and it never counts less.
Ended(s, u, id) ==
  /\ u.count >= s.count /\ u.n >= s.n
  /\ u.path # <<>> => u.ret = 0 /\ u.n = id /\ AtMedia(u.path)
  /\ s.ret # 0 => (u.path = <<>> <=> u.ret # 0)
  /\ Placed(s.path) => Placed(u.path)

LEMMA FindEnds ==
  ASSUME TreeOK, NEW id, NEW s \in Walks
  PROVE  Find(s, id) \in Walks /\ Ended(s, Find(s, id), id)
<1> DEFINE G == {x \in Walks \X Walks : Ended(x[1], x[2], id)}
<1>0. \A a \in Walks, b \in Walks : <<a, b>> \in G <=> Ended(a, b, id)
  OBVIOUS
<1>1. ASSUME NEW a \in Walks, a.path = <<>> PROVE <<a, a>> \in G
  <2>1. Ended(a, a, id)
    BY <1>1, WalkParts DEF Ended
  <2>2. QED
    BY <1>0, <2>1
<1>2. ASSUME NEW a \in Walks, a.path # <<>>, Stops(a, id) PROVE <<a, Met(a)>> \in G
  <2>1. Ended(a, Met(a), id)
    BY <1>2, MetIs, WalkParts DEF Ended, Stops
  <2>2. QED
    BY <1>0, <2>1, MetIs
<1>3. ASSUME NEW a \in Walks, NEW b \in Walks, NEW u \in Walks,
             a.path # <<>>, ~Stops(a, id), Advances(a, b), <<b, u>> \in G
      PROVE  <<a, u>> \in G
  <2>1. Ended(b, u, id)
    BY <1>0, <1>3
  <2>2. b.path = Onward(a.path) /\ b.count >= a.count /\ b.n >= a.n /\ (a.ret # 0 => b.ret # 0)
    <3>1. a.n \in Int /\ b.n \in Int /\ a.path \in Paths
      BY WalkParts
    <3>2. b.path = Onward(a.path) /\ b.count >= a.count /\ b.n >= a.n
      BY <1>3, <3>1 DEF Advances
    <3>3. AtItem(a.path) => At(a.path) \in Items
      <4>1. PICK q \in Paths, v \in Seq(Items), i \in Nat \ {0} : Ends(a.path, q, v, i)
        BY <1>3, <3>1, PathEnd, Zenon
      <4>2. At(a.path) = v[i] /\ Last(a.path).items = v /\ Last(a.path).index = i
        BY <4>1 DEF Ends
      <4>3. i <= Len(v) => v[i] \in Items
        OBVIOUS
      <4>4. QED
        BY <4>2, <4>3 DEF AtItem
    <3>4. a.ret # 0 => b.ret # 0
      BY <1>3, <3>3 DEF Advances, AtMedia, Items
    <3>5. QED
      BY <3>2, <3>4
  <2>3. Placed(a.path) => Placed(b.path)
    BY <1>3, <2>2, OnwardPlaced, Zenon
  <2>4. Ended(a, u, id)
    <3>1. a.n \in Int /\ b.n \in Int /\ u.n \in Int
          /\ a.count \in Nat /\ b.count \in Nat /\ u.count \in Nat
      BY WalkParts
    <3>2. QED
      BY <2>1, <2>2, <2>3, <3>1 DEF Ended
  <2>5. QED
    BY <1>0, <2>4
<1>4. \A a \in Walks : Find(a, id) \in Walks /\ <<a, Find(a, id)>> \in G
  <2> HIDE DEF G
  <2>1. QED
    BY <1>1, <1>2, <1>3, FindInduction
<1>5. QED
  BY <1>0, <1>4

\* The paths that a walk can be left with in a directory that does not change
Here(p) == p # <<>> /\ Placed(p) /\ IsFresh(p)

LEMMA HereOnward ==
  ASSUME TreeOK, NEW p, Here(p), Onward(p) # <<>>
  PROVE  Here(Onward(p))
BY OnwardPlaced, Zenon DEF Here

LEMMA HereBefore ==
  ASSUME TreeOK, NEW p, Here(p), NEW set, Dirs \cap set = {}
  PROVE  /\ BeforeIn(p, set) \in Seq(set) /\ Own(p, set) \in Seq(set)
         /\ Onward(p) # <<>> => BeforeIn(Onward(p), set) = BeforeIn(p, set) \o Own(p, set)
         /\ Onward(p) = <<>> => BeforeIn(p, set) = Whole(set) /\ ~AtItem(p)
BY OnwardBefore, BeforeType, Zenon DEF Here

\* What comes before an item is the beginning of the whole, and what it has itself
\* comes next.
LEMMA Remains ==
  ASSUME TreeOK, NEW p, Here(p), NEW set, Dirs \cap set = {}
  PROVE  \E rest \in Seq(set) : Whole(set) = BeforeIn(p, set) \o (Own(p, set) \o rest)
<1> DEFINE Rests(q) == \E rest \in Seq(set) :
                         Whole(set) = BeforeIn(q, set) \o (Own(q, set) \o rest)
           S == {q \in Paths : Here(q) => Rests(q)}
<1>1. <<>> \in S
  BY NoPath DEF Here
<1>2. ASSUME NEW q \in Paths, q # <<>>, Onward(q) \in S PROVE q \in S
  <2> SUFFICES ASSUME Here(q) PROVE Rests(q)
    OBVIOUS
  <2>1. BeforeIn(q, set) \in Seq(set) /\ Own(q, set) \in Seq(set)
    BY HereBefore, Zenon
  <2>2. CASE Onward(q) = <<>>
    <3>1. BeforeIn(q, set) = Whole(set) /\ Own(q, set) = <<>>
      BY <2>2, HereBefore, Zenon DEF Own
    <3>2. Whole(set) = BeforeIn(q, set) \o (Own(q, set) \o <<>>) /\ <<>> \in Seq(set)
      BY <2>1, <3>1
    <3>3. QED
      BY <3>2
  <2>3. CASE Onward(q) # <<>>
    <3>1. Here(Onward(q))
      BY <2>3, HereOnward
    <3>2. PICK rest \in Seq(set) :
            Whole(set) = BeforeIn(Onward(q), set) \o (Own(Onward(q), set) \o rest)
      BY <1>2, <3>1
    <3>3. BeforeIn(Onward(q), set) = BeforeIn(q, set) \o Own(q, set)
          /\ Own(Onward(q), set) \in Seq(set)
      BY <2>3, <3>1, HereBefore, Zenon
    <3>4. PICK x \in Seq(set), y \in Seq(set), z \in Seq(set) :
            x = BeforeIn(q, set) /\ y = Own(q, set) /\ z = Own(Onward(q), set)
      BY <2>1, <3>3
    <3>5. PICK more \in Seq(set) : more = z \o rest
      BY ConcatProperties
    <3>6. x \o (y \o more) = (x \o y) \o more
      BY Associative
    <3>7. QED
      BY <3>2, <3>3, <3>4, <3>5, <3>6, Zenon
  <2>4. QED
    BY <2>2, <2>3
<1>3. Paths \subseteq S
  <2> HIDE DEF S
  <2>1. QED
    BY <1>1, <1>2, WalkInduction
<1>4. QED
  BY <1>3 DEF Here, Placed

\* The media of a path has its place in the order, and the next one comes after it.
InOrder(p) ==
  /\ Before(p) \in Nat /\ Len(Order) \in Nat /\ Before(p) <= Len(Order)
  /\ AtMedia(p) => Before(p) < Len(Order) /\ At(p) = Order[Before(p) + 1]
  /\ Onward(p) # <<>> => Before(Onward(p)) = Before(p) + (IF AtMedia(p) THEN 1 ELSE 0)
  /\ Onward(p) = <<>> => Before(p) = Len(Order) /\ ~AtMedia(p)

LEMMA OrderIs == Order = Whole(Files) /\ \A p : Before(p) = Len(BeforeIn(p, Files))
BY Zenon DEF Order, Whole, Before, BeforeIn

LEMMA HereInOrder ==
  ASSUME TreeOK, NEW p, Here(p)
  PROVE  InOrder(p)
<1>1. Dirs \cap Files = {}
  BY MediaDirAssumption
<1>2. PICK rest \in Seq(Files) :
        Order = BeforeIn(p, Files) \o (Own(p, Files) \o rest)
  BY <1>1, Remains, OrderIs
<1>3. PICK b \in Seq(Files), o \in Seq(Files) :
        b = BeforeIn(p, Files) /\ o = Own(p, Files)
        /\ (Onward(p) # <<>> => BeforeIn(Onward(p), Files) = b \o o)
        /\ (Onward(p) = <<>> => b = Order /\ ~AtItem(p))
  BY <1>1, HereBefore, OrderIs, Zenon
<1>4. o = IF AtMedia(p) THEN <<At(p)>> ELSE <<>>
  BY <1>3, Zenon DEF Own, AtMedia
<1>5. Before(p) = Len(b) /\ Order = b \o (o \o rest)
  BY <1>2, <1>3, OrderIs, Zenon
<1>6. o \o rest \in Seq(Files) /\ Len(o \o rest) = Len(o) + Len(rest)
      /\ Order \in Seq(Files) /\ Len(Order) = Len(b) + (Len(o) + Len(rest))
      /\ Len(b) \in Nat /\ Len(o) \in Nat /\ Len(rest) \in Nat
  BY <1>5
<1>7. Before(p) <= Len(Order) /\ Before(p) \in Nat /\ Len(Order) \in Nat
  BY <1>5, <1>6
<1>8. ASSUME AtMedia(p) PROVE Before(p) < Len(Order) /\ At(p) = Order[Before(p) + 1]
  <2>1. o = <<At(p)>> /\ Len(o) = 1
    BY <1>4, <1>8
  <2>2. Order[Len(b) + 1] = (o \o rest)[1]
    BY <1>5, <1>6, <2>1
  <2>3. (o \o rest)[1] = At(p)
    BY <2>1
  <2>4. QED
    BY <1>5, <1>6, <2>1, <2>2, <2>3
<1>9. ASSUME Onward(p) # <<>>
      PROVE  Before(Onward(p)) = Before(p) + (IF AtMedia(p) THEN 1 ELSE 0)
  <2>1. Before(Onward(p)) = Len(b \o o)
    BY <1>3, <1>9, OrderIs, Zenon
  <2>2. Len(b \o o) = Len(b) + Len(o)
    OBVIOUS
  <2>3. Len(o) = IF AtMedia(p) THEN 1 ELSE 0
    BY <1>4
  <2>4. QED
    BY <1>5, <2>1, <2>2, <2>3
<1>10. Onward(p) = <<>> => Before(p) = Len(Order) /\ ~AtMedia(p)
  BY <1>3, <1>5, Zenon DEF AtMedia
<1>11. QED
  BY <1>7, <1>8, <1>9, <1>10 DEF InOrder

\* From a path of this directory, _find stops at the media of the number, counted
\* from the path, or comes to the end having counted them all.
Finds(s, u, id) ==
  /\ s.path = <<>> => u = s
  /\ Here(s.path) =>
       IF s.n <= id /\ id - s.n < Len(Order) - Before(s.path)
       THEN Here(u.path) /\ AtMedia(u.path) /\ Before(u.path) = Before(s.path) + (id - s.n)
       ELSE u.path = <<>> /\ u.n = s.n + (Len(Order) - Before(s.path))

LEMMA FindFresh ==
  ASSUME TreeOK, NEW id \in Int, NEW s \in Walks
  PROVE  Finds(s, Find(s, id), id)
<1> DEFINE G == {x \in Walks \X Walks : Finds(x[1], x[2], id)}
<1>0. \A a \in Walks, b \in Walks : <<a, b>> \in G <=> Finds(a, b, id)
  OBVIOUS
<1>1. ASSUME NEW a \in Walks, a.path = <<>> PROVE <<a, a>> \in G
  <2>1. Finds(a, a, id)
    BY <1>1 DEF Finds, Here
  <2>2. QED
    BY <1>0, <2>1
<1>2. ASSUME NEW a \in Walks, a.path # <<>>, Stops(a, id) PROVE <<a, Met(a)>> \in G
  <2>1. Met(a) \in Walks /\ Met(a).path = a.path
    BY MetIs
  <2>2. ASSUME Here(a.path)
        PROVE  /\ a.n <= id /\ id - a.n < Len(Order) - Before(a.path) /\ AtMedia(a.path)
               /\ Before(a.path) = Before(a.path) + (id - a.n)
    <3>1. InOrder(a.path) /\ AtMedia(a.path) /\ a.n = id
      BY <1>2, <2>2, HereInOrder DEF Stops
    <3>2. Before(a.path) \in Nat /\ Len(Order) \in Nat /\ Before(a.path) < Len(Order)
      BY <3>1 DEF InOrder
    <3>3. QED
      BY <3>1, <3>2
  <2>3. Finds(a, Met(a), id)
    BY <1>2, <2>1, <2>2 DEF Finds
  <2>4. QED
    BY <1>0, <2>1, <2>3
<1>3. ASSUME NEW a \in Walks, NEW b \in Walks, NEW u \in Walks,
             a.path # <<>>, ~Stops(a, id), Advances(a, b), <<b, u>> \in G
      PROVE  <<a, u>> \in G
  <2>1. Finds(b, u, id)
    BY <1>0, <1>3
  <2>2. b.path = Onward(a.path) /\ b.n = a.n + (IF AtMedia(a.path) THEN 1 ELSE 0)
        /\ a.n \in Int /\ (AtMedia(a.path) => a.n # id)
    BY <1>3, WalkParts DEF Advances, Stops
  <2>3. ASSUME Here(a.path)
        PROVE  IF a.n <= id /\ id - a.n < Len(Order) - Before(a.path)
               THEN /\ Here(u.path) /\ AtMedia(u.path)
                    /\ Before(u.path) = Before(a.path) + (id - a.n)
               ELSE u.path = <<>> /\ u.n = a.n + (Len(Order) - Before(a.path))
    <3>1. InOrder(a.path)
      BY <2>3, HereInOrder
    <3>2. PICK l \in Nat, m \in Nat : l = Len(Order) /\ m = Before(a.path)
      BY <3>1 DEF InOrder
    <3>3. CASE b.path = <<>>
      <4>1. u = b /\ m = l /\ b.n = a.n
        BY <2>1, <2>2, <3>1, <3>2, <3>3 DEF Finds, InOrder
      <4>2. QED
        BY <2>2, <3>2, <3>3, <4>1
    <3>4. CASE b.path # <<>>
      <4>1. Here(b.path) /\ Before(b.path) = m + (IF AtMedia(a.path) THEN 1 ELSE 0)
        BY <2>2, <2>3, <3>1, <3>2, <3>4, HereOnward DEF InOrder
      <4>2. IF b.n <= id /\ id - b.n < l - Before(b.path)
            THEN Here(u.path) /\ AtMedia(u.path) /\ Before(u.path) = Before(b.path) + (id - b.n)
            ELSE u.path = <<>> /\ u.n = b.n + (l - Before(b.path))
        BY <2>1, <3>2, <4>1 DEF Finds
      <4>3. AtMedia(a.path) => a.n # id /\ m < l
        BY <2>2, <3>1, <3>2 DEF InOrder
      <4>4. QED
        <5>1. CASE AtMedia(a.path)
          <6>1. b.n = a.n + 1 /\ Before(b.path) = m + 1 /\ a.n # id /\ m < l
            BY <2>2, <4>1, <4>3, <5>1
          <6>2. /\ b.n <= id /\ id - b.n < l - Before(b.path)
                     <=> a.n <= id /\ id - a.n < l - m
                /\ Before(b.path) + (id - b.n) = m + (id - a.n)
                /\ b.n + (l - Before(b.path)) = a.n + (l - m)
            <7>1. PICK n \in Int : n = a.n
              BY <2>2
            <7>2. /\ n + 1 <= id /\ id - (n + 1) < l - (m + 1) <=> n <= id /\ id - n < l - m
                  /\ (m + 1) + (id - (n + 1)) = m + (id - n)
                  /\ (n + 1) + (l - (m + 1)) = n + (l - m)
              <8>1. n # id /\ m < l
                BY <6>1, <7>1, Zenon
              <8>2. QED
                BY <8>1
            <7>3. b.n = n + 1 /\ Before(b.path) = m + 1
              BY <6>1, <7>1, Zenon
            <7>4. QED
              BY <7>1, <7>2, <7>3, Zenon
          <6>3. QED
            BY <3>2, <4>2, <6>2, Zenon
        <5>2. CASE ~AtMedia(a.path)
          <6>1. b.n = a.n /\ Before(b.path) = m
            BY <2>2, <4>1, <5>2
          <6>2. QED
            BY <3>2, <4>2, <6>1
        <5>3. QED
          BY <5>1, <5>2
    <3>5. QED
      BY <3>3, <3>4
  <2>4. Finds(a, u, id)
    BY <1>3, <2>3, Zenon DEF Finds
  <2>5. QED
    BY <1>0, <2>4
<1>4. \A a \in Walks : Find(a, id) \in Walks /\ <<a, Find(a, id)>> \in G
  <2> HIDE DEF G
  <2>1. QED
    BY <1>1, <1>2, <1>3, FindInduction
<1>5. QED
  BY <1>0, <1>4

\* The files that are no media count for what _find tells at the end of a walk.
All == Files \cup Others
Refuses(s, u) ==
  /\ s.path = <<>> => u = s
  /\ Here(s.path) /\ u.path = <<>> /\ u.ret = -1 =>
       \/ s.ret = -1 /\ BeforeIn(s.path, All) = Whole(All)
       \/ Whole(All) # <<>> /\ Last(Whole(All)) \in Others

LEMMA FindRefuses ==
  ASSUME TreeOK, NEW id, NEW s \in Walks
  PROVE  Refuses(s, Find(s, id))
<1> DEFINE G == {x \in Walks \X Walks : Refuses(x[1], x[2])}
<1>0. \A a \in Walks, b \in Walks : <<a, b>> \in G <=> Refuses(a, b)
  OBVIOUS
<1>1. ASSUME NEW a \in Walks, a.path = <<>> PROVE <<a, a>> \in G
  <2>1. Refuses(a, a)
    BY <1>1 DEF Refuses, Here
  <2>2. QED
    BY <1>0, <2>1
<1>2. ASSUME NEW a \in Walks, a.path # <<>>, Stops(a, id) PROVE <<a, Met(a)>> \in G
  <2>1. Met(a) \in Walks /\ Met(a).path # <<>>
    BY <1>2, MetIs
  <2>2. Refuses(a, Met(a))
    BY <1>2, <2>1 DEF Refuses
  <2>3. QED
    BY <1>0, <2>1, <2>2
<1>3. ASSUME NEW a \in Walks, NEW b \in Walks, NEW u \in Walks,
             a.path # <<>>, ~Stops(a, id), Advances(a, b), <<b, u>> \in G
      PROVE  <<a, u>> \in G
  <2>1. Refuses(b, u) /\ b.path = Onward(a.path)
    BY <1>0, <1>3 DEF Advances
  <2>2. ASSUME Here(a.path), u.path = <<>>, u.ret = -1
        PROVE  \/ a.ret = -1 /\ BeforeIn(a.path, All) = Whole(All)
               \/ Whole(All) # <<>> /\ Last(Whole(All)) \in Others
    <3>1. Dirs \cap All = {}
      BY MediaDirAssumption DEF All
    <3>2. /\ BeforeIn(a.path, All) \in Seq(All) /\ Own(a.path, All) \in Seq(All)
          /\ b.path # <<>> =>
               BeforeIn(b.path, All) = BeforeIn(a.path, All) \o Own(a.path, All)
          /\ b.path = <<>> => BeforeIn(a.path, All) = Whole(All) /\ ~AtItem(a.path)
      BY <2>1, <2>2, <3>1, HereBefore, Zenon
    <3>3. CASE b.path = <<>>
      <4>1. u = b
        BY <2>1, <3>3, Zenon DEF Refuses
      <4>2. b.ret = a.ret
        BY <1>3, <3>2, <3>3, Zenon DEF Advances
      <4>3. QED
        BY <2>2, <3>2, <3>3, <4>1, <4>2, Zenon
    <3>4. CASE b.path # <<>>
      <4>1. Here(b.path)
        BY <2>1, <2>2, <3>4, HereOnward, Zenon
      <4>2. \/ b.ret = -1 /\ BeforeIn(b.path, All) = Whole(All)
            \/ Whole(All) # <<>> /\ Last(Whole(All)) \in Others
        BY <2>1, <2>2, <4>1, Zenon DEF Refuses
      <4>3. SUFFICES ASSUME b.ret = -1, BeforeIn(b.path, All) = Whole(All)
                     PROVE  \/ a.ret = -1 /\ BeforeIn(a.path, All) = Whole(All)
                            \/ Whole(All) # <<>> /\ Last(Whole(All)) \in Others
        BY <4>2
      <4>4. CASE AtItem(a.path) /\ At(a.path) \in Others
        <5>1. Own(a.path, All) = <<At(a.path)>>
          BY <4>4 DEF Own, All
        <5>2. Whole(All) = BeforeIn(a.path, All) \o <<At(a.path)>>
          BY <3>2, <3>4, <4>3, <5>1, Zenon
        <5>3. At(a.path) \in All
          BY <4>4 DEF All
        <5>4. PICK x \in Seq(All) : x = BeforeIn(a.path, All)
          BY <3>2
        <5>5. Whole(All) = Append(x, At(a.path))
          BY <5>2, <5>3, <5>4
        <5>6. Append(x, At(a.path)) # <<>> /\ Last(Append(x, At(a.path))) = At(a.path)
          BY <5>3 DEF Last
        <5>7. QED
          BY <4>4, <5>5, <5>6, Zenon
      <4>5. CASE ~(AtItem(a.path) /\ At(a.path) \in Others)
        <5>1. ~AtMedia(a.path)
          BY <1>3, <4>3 DEF Advances
        <5>2. Own(a.path, All) = <<>>
          BY <4>5, <5>1 DEF Own, All, AtMedia
        <5>3. BeforeIn(b.path, All) = BeforeIn(a.path, All)
          BY <3>2, <3>4, <5>2
        <5>4. a.ret = b.ret
          <6>1. AtItem(a.path) => At(a.path) \in Items
            BY <2>2, BeforeSkip, Zenon DEF Here
          <6>2. ~AtItem(a.path) \/ At(a.path) \in Dirs
            BY <4>5, <5>1, <6>1 DEF AtMedia, Items
          <6>3. QED
            BY <1>3, <4>3, <6>2 DEF Advances
        <5>5. QED
          BY <4>3, <5>3, <5>4, Zenon
      <4>6. QED
        BY <4>4, <4>5
    <3>5. QED
      BY <3>3, <3>4
  <2>3. Refuses(a, u)
    BY <1>3, <2>2, Zenon DEF Refuses
  <2>4. QED
    BY <1>0, <2>3
<1>4. \A a \in Walks : Find(a, id) \in Walks /\ <<a, Find(a, id)>> \in G
  <2> HIDE DEF G
  <2>1. QED
    BY <1>1, <1>2, <1>3, FindInduction
<1>5. QED
  BY <1>0, <1>4

\* What it finds does not depend on the count and on what was told before.
LEMMA FindSame ==
  ASSUME TreeOK, NEW id, NEW s \in Walks, NEW w \in Walks, w.path = s.path, w.n = s.n
  PROVE  Find(s, id).path = Find(w, id).path /\ Find(s, id).n = Find(w, id).n
<1> DEFINE Same(a, u) == \A b \in Walks : b.path = a.path /\ b.n = a.n =>
                           u.path = Find(b, id).path /\ u.n = Find(b, id).n
           G == {x \in Walks \X Walks : Same(x[1], x[2])}
<1>0. \A a \in Walks, u \in Walks : <<a, u>> \in G <=> Same(a, u)
  OBVIOUS
<1> HIDE DEF G
<1>1. ASSUME NEW a \in Walks, a.path = <<>> PROVE <<a, a>> \in G
  <2>1. Same(a, a)
    BY <1>1, FindIs, Zenon
  <2>2. QED
    BY <1>0, <2>1
<1>2. ASSUME NEW a \in Walks, a.path # <<>>, Stops(a, id) PROVE <<a, Met(a)>> \in G
  <2> SUFFICES ASSUME NEW b \in Walks, b.path = a.path, b.n = a.n
               PROVE  Met(a).path = Find(b, id).path /\ Met(a).n = Find(b, id).n
    BY <1>0, MetIs
  <2>1. Stops(b, id) /\ b.path # <<>>
    BY <1>2, Zenon DEF Stops
  <2>2. Find(b, id) = Met(b)
    BY <2>1, FindIs, Zenon
  <2>3. QED
    BY <2>2, MetIs, Zenon
<1>3. ASSUME NEW a \in Walks, NEW b \in Walks, NEW u \in Walks,
             a.path # <<>>, ~Stops(a, id), Advances(a, b), <<b, u>> \in G
      PROVE  <<a, u>> \in G
  <2> SUFFICES ASSUME NEW c \in Walks, c.path = a.path, c.n = a.n
               PROVE  u.path = Find(c, id).path /\ u.n = Find(c, id).n
    BY <1>0, Zenon
  <2>1. ~Stops(c, id) /\ c.path # <<>>
    BY <1>3, Zenon DEF Stops
  <2>2. PICK d : d = Advanced(c) /\ Advances(c, d) /\ Find(c, id) = Find(d, id)
    <3>1. Advances(c, Advanced(c))
      BY <2>1, AdvancedIs, Zenon
    <3>2. Find(c, id) = Find(Advanced(c), id)
      BY <2>1, FindIs, Zenon
    <3>3. QED
      BY <3>1, <3>2, Zenon
  <2>3. d \in Walks /\ d.path = b.path /\ d.n = b.n
    BY <1>3, <2>2, Zenon DEF Advances
  <2>4. Same(b, u)
    BY <1>0, <1>3, Zenon
  <2>5. QED
    BY <2>2, <2>3, <2>4, Zenon
<1>4. \A a \in Walks : Find(a, id) \in Walks /\ <<a, Find(a, id)>> \in G
  BY <1>1, <1>2, <1>3, FindInduction
<1>5. Same(s, Find(s, id))
  BY <1>0, <1>4, Zenon
<1>6. QED
  BY <1>5, Zenon

\* The path at which a walk begins
LEMMA RootPath ==
  ASSUME TreeOK
  PROVE  /\ Here(<<Frame(Root)>>) /\ <<Frame(Root)>> \in Paths
         /\ \A set : BeforeIn(<<Frame(Root)>>, set) = <<>>
         /\ Before(<<Frame(Root)>>) = 0
<1>1. tree[Root] \in Seq(Items) /\ 1 \in Nat \ {0} /\ 1 <= Len(tree[Root]) + 1
      /\ SubSeq(tree[Root], 1, 1 - 1) = <<>>
  BY MediaDirAssumption DEF TreeOK
<1>2. <<>> \in Paths /\ Placed(<<>>) /\ IsFresh(<<>>) /\ \A set : BeforeIn(<<>>, set) = <<>>
  BY NoPath, Zenon
<1>3. PICK p : p = <<Frame(Root)>> /\ p = Append(<<>>, Fr(tree[Root], 1))
  <2>1. Frame(Root) = Fr(tree[Root], 1)
    BY DEF Frame, Fr
  <2>2. \A f : <<f>> = Append(<<>>, f)
    OBVIOUS
  <2>3. QED
    BY <2>1, <2>2, Zenon
<1>4. Ends(p, <<>>, tree[Root], 1)
  BY <1>1, <1>2, <1>3, PathAppend, Zenon
<1>5. Len(<<>>) = 0 /\ 0 <= MaxLevel + 1 /\ 0 \in 0 .. MaxLevel + 1
  BY MediaDirAssumption
<1>6. Placed(p) /\ IsFresh(p)
  <2>1. Deeper(<<>>) /\ tree[Root] = Base(<<>>) /\ Len(<<>>) <= MaxLevel + 1
    BY <1>5 DEF Deeper, Base
  <2>2. QED
    BY <1>1, <1>2, <1>4, <2>1, PlacedAppend, FreshAppend, Zenon
<1>7. ASSUME NEW set PROVE BeforeIn(p, set) = <<>>
  <2>1. BeforeIn(p, set)
          = BeforeIn(<<>>, set) \o FilesAmong(SubSeq(tree[Root], 1, 1 - 1), Len(<<>>), set)
    <3>1. 1 \in Nat \ {0}
      OBVIOUS
    <3>2. PICK q \in Paths, v \in Seq(Items), i \in Nat \ {0} :
            q = <<>> /\ v = tree[Root] /\ i = 1 /\ Ends(p, q, v, i) /\ Placed(p)
      BY <1>1, <1>2, <1>4, <1>6, <3>1, Zenon
    <3>3. BeforeIn(p, set)
            = BeforeIn(q, set) \o FilesAmong(SubSeq(v, 1, i - 1), Len(q), set)
      <4>1. Ends(p, q, v, i) /\ Placed(p)
        BY <3>2
      <4>2. QED
        BY <4>1, BeforeAppend
    <3>4. QED
      BY <3>2, <3>3
  <2>2. FilesAmong(<<>>, 0, set) = <<>>
    BY <1>1, <1>5, AmongIs
  <2>3. BeforeIn(<<>>, set) = <<>>
    BY <1>2, Zenon
  <2>4. BeforeIn(p, set) = <<>> \o <<>>
    BY <1>1, <1>5, <2>1, <2>2, <2>3, Zenon
  <2>5. QED
    BY <2>4
<1>8. Before(p) = 0
  BY <1>7, OrderIs
<1>9. p # <<>> /\ p \in Paths
  BY <1>4 DEF Ends
<1>10. QED
  BY <1>3, <1>6, <1>7, <1>8, <1>9, Zenon DEF Here

\* A set of paths which has the one at which the walk begins, and where it goes on
\* from each one, has all the paths of this directory.
LEMMA HereInduction ==
  ASSUME TreeOK, NEW S, <<Frame(Root)>> \in S,
         \A p \in Paths : Here(p) /\ p \in S /\ Onward(p) # <<>> => Onward(p) \in S
  PROVE  \A p \in Paths : Here(p) => p \in S
<1> DEFINE Good(q) == Placed(q) /\ IsFresh(q) /\ Deeper(q) /\ Len(q) <= MaxLevel + 1
           Row(q) == Append(q, Fr(Base(q), 1)) \in S =>
             \A i \in Nat \ {0} : i <= Len(Base(q)) + 1 => Append(q, Fr(Base(q), i)) \in S
           K == {k \in Nat : \A q \in Paths : Good(q) /\ Len(q) + k >= MaxLevel + 2 => Row(q)}
<1>1. MaxLevel \in Nat
  BY MediaDirAssumption
<1>2. ASSUME NEW q \in Paths, Good(q) PROVE Base(q) \in Seq(Items) /\ Len(Base(q)) \in Nat
  <2>1. Base(q) \in Seq(Items)
    BY <1>2, MediaDirAssumption DEF TreeOK, Base, Deeper
  <2>2. QED
    BY <2>1
<1>3. ASSUME NEW q \in Paths, Good(q), NEW i \in Nat \ {0}, i <= Len(Base(q)) + 1,
             NEW p, p = Append(q, Fr(Base(q), i))
      PROVE  Here(p) /\ p \in Paths /\ Ends(p, q, Base(q), i)
  <2>1. Ends(p, q, Base(q), i)
    BY <1>2, <1>3, PathAppend, Zenon
  <2>2. Placed(p) /\ IsFresh(p)
    BY <1>2, <1>3, <2>1, PlacedAppend, FreshAppend, Zenon
  <2>3. QED
    BY <2>1, <2>2, Zenon DEF Here, Ends
<1>4. 0 \in K
  <2> SUFFICES ASSUME NEW q \in Paths, Good(q), Len(q) + 0 >= MaxLevel + 2 PROVE Row(q)
    OBVIOUS
  <2>1. FALSE
    BY <1>1, Len(q) \in Nat DEF Paths
  <2>2. QED
    BY <2>1
<1>5. ASSUME NEW k \in Nat, k \in K PROVE k + 1 \in K
  <2> SUFFICES ASSUME NEW q \in Paths, Good(q), Len(q) + (k + 1) >= MaxLevel + 2,
                      Append(q, Fr(Base(q), 1)) \in S
               PROVE  \A i \in Nat \ {0} :
                        i <= Len(Base(q)) + 1 => Append(q, Fr(Base(q), i)) \in S
    OBVIOUS
  <2> DEFINE J == {j \in Nat : j + 1 <= Len(Base(q)) + 1 => Append(q, Fr(Base(q), j + 1)) \in S}
  <2>0. Base(q) \in Seq(Items) /\ Len(Base(q)) \in Nat
    BY <1>2
  <2>1. 0 \in J
    OBVIOUS
  <2>2. ASSUME NEW j \in Nat, j \in J PROVE j + 1 \in J
    <3>1. PICK i \in Nat \ {0} : i = j + 1
      OBVIOUS
    <3> SUFFICES ASSUME i + 1 <= Len(Base(q)) + 1
                 PROVE  Append(q, Fr(Base(q), i + 1)) \in S
      BY <3>1
    <3>2. i <= Len(Base(q)) + 1 /\ i <= Len(Base(q))
      BY <2>0, <3>1
    <3>3. PICK p : p = Append(q, Fr(Base(q), i))
      OBVIOUS
    <3>4. p \in S
      BY <2>2, <3>1, <3>2, <3>3
    <3>5. Here(p) /\ p \in Paths /\ Ends(p, q, Base(q), i)
      BY <1>3, <3>2, <3>3
    <3>6. Len(p) = Len(q) + 1 /\ Len(q) \in Nat /\ Skip(p) = Append(q, Fr(Base(q), i + 1))
      BY <3>5 DEF Ends
    <3>7. AtItem(p) /\ ~(Last(p).index > Len(Last(p).items))
          /\ At(p) = Last(p).items[Last(p).index]
      BY <3>2, <3>5, <2>0 DEF Ends, AtItem, At
    <3>8. Skip(p) # <<>> /\ Skip(p) \in Paths
      BY <3>5, SkipPath DEF Here
    <3>9. CASE ~Opens(p)
      <4>1. Onward(p) = Skip(p)
        BY <3>7, <3>9, Zenon DEF Onward
      <4>2. QED
        BY <3>4, <3>5, <3>6, <3>8, <4>1, Zenon
    <3>10. CASE Opens(p)
      <4>1. At(p) \in Dirs /\ Len(p) <= MaxLevel + 1
        BY <1>1, <3>6, <3>7, <3>10 DEF Opens
      <4>2. Base(p) = tree[At(p)] /\ Frame(At(p)) = Fr(Base(p), 1)
        BY <3>5 DEF Base, Frame, Fr, Here
      <4>3. Good(p)
        BY <3>5, <3>7, <4>1, Zenon DEF Deeper, Here
      <4> HIDE DEF Good
      <4>4. Onward(p) = Append(p, Fr(Base(p), 1))
        BY <3>7, <3>10, <4>2, Zenon DEF Onward
      <4>5. Append(p, Fr(Base(p), 1)) # <<>>
            /\ Base(p) \in Seq(Items) /\ Len(Base(p)) \in Nat
        <5>1. Base(p) \in Seq(Items) /\ Len(Base(p)) \in Nat
          BY <1>2, <3>5, <4>3, Zenon
        <5>2. 1 \in Nat \ {0}
          OBVIOUS
        <5>3. Ends(Append(p, Fr(Base(p), 1)), p, Base(p), 1)
          BY <3>5, <5>1, <5>2, PathAppend, Zenon
        <5>4. QED
          BY <5>1, <5>3, Zenon DEF Ends
      <4>6. Append(p, Fr(Base(p), 1)) \in S
        BY <3>4, <3>5, <4>4, <4>5, Zenon
      <4>7. Row(p)
        <5>1. Len(p) + k >= MaxLevel + 2
          BY <3>6, <1>1
        <5>2. QED
          BY <1>5, <3>5, <4>3, <5>1
      <4>8. PICK l \in Nat \ {0} : l = Len(Base(p)) + 1 /\ l <= Len(Base(p)) + 1
        BY <4>5
      <4>9. PICK r : r = Append(p, Fr(Base(p), l)) /\ r \in S
        <5>1. Append(p, Fr(Base(p), l)) \in S
          BY <4>6, <4>7, <4>8, Zenon
        <5>2. QED
          BY <5>1
      <4>10. Here(r) /\ r \in Paths /\ Ends(r, p, Base(p), l)
        BY <1>3, <3>5, <4>3, <4>8, <4>9
      <4>11. Onward(r) = Leave(r) /\ Leave(r) = Out(p)
        BY <4>8, <4>10, <1>2, <3>5, <4>3 DEF Onward, Ends
      <4>12. Out(p) = Skip(p)
        BY <3>5 DEF Here, Out
      <4>13. QED
        BY <3>6, <3>8, <4>9, <4>10, <4>11, <4>12, Zenon
    <3>11. QED
      BY <3>9, <3>10
  <2>3. Nat \subseteq J
    <3> HIDE DEF J
    <3>1. QED
      BY <2>1, <2>2, Induct
  <2>4. QED
    <3> SUFFICES ASSUME NEW i \in Nat \ {0}, i <= Len(Base(q)) + 1
                 PROVE  Append(q, Fr(Base(q), i)) \in S
      OBVIOUS
    <3>1. PICK j \in Nat : j + 1 = i
      BY i - 1 \in Nat
    <3>2. j \in J
      BY <2>3
    <3>3. QED
      BY <3>1, <3>2
<1>6. ASSUME NEW q \in Paths, Good(q) PROVE Row(q)
  <2>1. Nat \subseteq K
    <3> HIDE DEF K
    <3>1. QED
      BY <1>4, <1>5, Induct
  <2>2. MaxLevel + 2 \in Nat /\ Len(q) + (MaxLevel + 2) >= MaxLevel + 2
    BY <1>1, Len(q) \in Nat DEF Paths
  <2> HIDE DEF Row, Good
  <2>3. QED
    BY <1>6, <2>1, <2>2
<1> HIDE DEF Row
<1> DEFINE L == {n \in Nat : \A p \in Paths : Here(p) /\ Len(p) = n => p \in S}
<1>7. 0 \in L
  BY EmptySeq DEF Paths, Here
<1>8. ASSUME NEW n \in Nat, n \in L PROVE n + 1 \in L
  <2> SUFFICES ASSUME NEW p \in Paths, Here(p), Len(p) = n + 1 PROVE p \in S
    OBVIOUS
  <2>1. PICK q \in Paths, v \in Seq(Items), i \in Nat \ {0} :
          p = Append(q, Fr(v, i)) /\ Ends(p, q, v, i)
    BY PathEnd, Zenon DEF Here
  <2>2. Placed(q) /\ Deeper(q) /\ Len(q) <= MaxLevel + 1 /\ i <= Len(v) + 1
        /\ IsFresh(q) /\ v = Base(q)
    BY <2>1, PlacedAppend, FreshAppend, Zenon DEF Here
  <2>3. Append(q, Fr(Base(q), 1)) \in S
    <3>1. CASE q = <<>>
      BY <3>1 DEF Base, Frame, Fr
    <3>2. CASE q # <<>>
      <4>1. q \in S
        <5>1. Here(q) /\ Len(q) = n
          BY <2>1, <2>2, <3>2 DEF Here, Ends
        <5>2. QED
          BY <1>8, <5>1
      <4>2. AtItem(q) /\ At(q) \in Dirs
        BY <2>2, <3>2, Zenon DEF Deeper
      <4>3. Opens(q)
        <5>1. Len(q) - 1 <= MaxLevel
          BY <1>1, <2>2, Len(q) \in Nat DEF Paths
        <5>2. QED
          BY <1>1, <4>2, <5>1, Len(q) \in Nat DEF Opens, At, Paths
      <4>4. Onward(q) = Append(q, Fr(Base(q), 1))
        <5>1. ~(Last(q).index > Len(Last(q).items))
          <6>1. PICK x \in Paths, w \in Seq(Items), m \in Nat \ {0} : Ends(q, x, w, m)
            BY <3>2, PathEnd, Zenon
          <6>2. QED
            BY <4>2, <6>1 DEF Ends, AtItem
        <5>2. Frame(Last(q).items[Last(q).index]) = Fr(Base(q), 1)
          BY <3>2 DEF Frame, Fr, Base, At
        <5>3. QED
          BY <4>3, <5>1, <5>2, Zenon DEF Onward
      <4>5. Append(q, Fr(Base(q), 1)) # <<>>
        <5>1. PICK b \in Seq(Items) : b = Base(q)
          BY <2>2
        <5>2. 1 \in Nat \ {0}
          OBVIOUS
        <5>3. Ends(Append(q, Fr(b, 1)), q, b, 1)
          BY <2>1, <2>2, <5>2, PathAppend, Zenon
        <5>4. QED
          BY <5>1, <5>3, Zenon DEF Ends
      <4>6. QED
        BY <2>2, <3>2, <4>1, <4>4, <4>5, Zenon DEF Here
    <3>3. QED
      BY <3>1, <3>2
  <2>4. Row(q)
    BY <1>6, <2>2
  <2>5. QED
    BY <2>1, <2>2, <2>3, <2>4, Zenon DEF Row
<1>9. Nat \subseteq L
  <2> HIDE DEF L
  <2>1. QED
    BY <1>7, <1>8, Induct
<1>10. QED
  BY <1>9, \A p \in Paths : Len(p) \in Nat DEF Paths

\* A walk that is taken up again from a path, with the number of the media before
\* it, finds what the walk from the root finds.
LEMMA FindThrough ==
  ASSUME TreeOK, NEW id \in Int, NEW c \in Nat, NEW p, Here(p), Before(p) <= id
  PROVE  LET s == Find(Walk(<<Frame(Root)>>, 0, -2, c), id)
             u == Find(Walk(p, Before(p), -2, c), id)
         IN  u.path = s.path /\ u.n = s.n
<1> DEFINE As(u) == LET s == Find(Walk(<<Frame(Root)>>, 0, -2, c), id)
                    IN  u.path = s.path /\ u.n = s.n
           S == {q \in Paths : Here(q) /\ Before(q) <= id =>
                                 As(Find(Walk(q, Before(q), -2, c), id))}
<1>0. ASSUME NEW q \in Paths, Here(q), NEW r \in -2 .. 1, NEW d \in Nat
      PROVE  Walk(q, Before(q), r, d) \in Walks /\ Before(q) \in Nat
  <2>1. Before(q) \in Nat
    BY <1>0, HereInOrder DEF InOrder
  <2>2. QED
    BY <2>1 DEF Walk, Walks
<1>1. <<Frame(Root)>> \in S
  BY RootPath
<1>2. ASSUME NEW q \in Paths, Here(q), q \in S, Onward(q) # <<>> PROVE Onward(q) \in S
  <2>1. Here(Onward(q)) /\ Onward(q) \in Paths
    BY <1>2, HereOnward DEF Here, Placed
  <2>2. PICK o \in Paths : o = Onward(q) /\ Here(o)
    BY <2>1
  <2> SUFFICES ASSUME Before(o) <= id PROVE As(Find(Walk(o, Before(o), -2, c), id))
    BY <2>2
  <2>3. /\ Before(q) \in Nat
        /\ Before(o) = Before(q) + (IF AtMedia(q) THEN 1 ELSE 0)
    BY <1>2, <2>2, HereInOrder DEF InOrder
  <2>4. Before(q) <= id /\ (AtMedia(q) => Before(q) # id)
    BY <2>3
  <2>5. As(Find(Walk(q, Before(q), -2, c), id))
    BY <1>2, <2>4
  <2>6. PICK a \in Walks : a = Walk(q, Before(q), -2, c) /\ a.path = q /\ a.n = Before(q)
    <3>1. -2 \in -2 .. 1
      OBVIOUS
    <3>2. Walk(q, Before(q), -2, c) \in Walks
      BY <1>0, <1>2, <3>1
    <3>3. QED
      BY <3>2 DEF Walk
  <2>7. a.path # <<>> /\ ~Stops(a, id)
    BY <1>2, <2>4, <2>6, Zenon DEF Here, Stops
  <2>8. PICK b : b = Advanced(a) /\ Advances(a, b)
    BY <2>7, AdvancedIs, Zenon
  <2>9. Find(a, id) = Find(b, id)
    BY <2>7, <2>8, FindIs, Zenon
  <2>10. b \in Walks /\ b.path = o /\ b.n = Before(o)
    <3>1. b \in Walks /\ b.path = Onward(a.path)
          /\ b.n = a.n + (IF AtMedia(a.path) THEN 1 ELSE 0)
      BY <2>8, Zenon DEF Advances
    <3>2. QED
      BY <2>2, <2>3, <2>6, <3>1, Zenon
  <2>11. PICK d \in Walks : d = Walk(o, Before(o), -2, c) /\ d.path = o /\ d.n = Before(o)
    <3>1. -2 \in -2 .. 1
      OBVIOUS
    <3>2. Walk(o, Before(o), -2, c) \in Walks
      BY <1>0, <2>2, <3>1
    <3>3. QED
      BY <3>2 DEF Walk
  <2>12. Find(d, id).path = Find(b, id).path /\ Find(d, id).n = Find(b, id).n
    <3>1. b \in Walks /\ d \in Walks /\ b.path = d.path /\ b.n = d.n
      BY <2>10, <2>11, Zenon
    <3>2. QED
      BY <3>1, FindSame, Zenon
  <2>13. QED
    BY <2>5, <2>6, <2>9, <2>11, <2>12, Zenon
<1>3. \A q \in Paths : Here(q) => q \in S
  <2> HIDE DEF S
  <2>1. QED
    BY <1>1, <1>2, HereInduction
<1>4. p \in Paths
  BY DEF Here, Placed
<1>5. QED
  BY <1>3, <1>4

-----------------------------------------------------------------------------
(* The calls of a directory                                                *)

\* The walk that _find begins or takes up
Begins(s, p, n, c) ==
  /\ s \in Walks /\ s.ret = -2 /\ s.count = c
  /\ p = <<>> => s.path = <<Frame(Root)>> /\ s.n = 0 /\ s = Walk(<<Frame(Root)>>, 0, -2, c)
  /\ p # <<>> => s.path = p /\ s.n = n /\ s = Walk(p, n, -2, c)

LEMMA FromIs ==
  ASSUME TreeOK, NEW p \in Paths, NEW n \in Int, NEW c \in Nat
  PROVE  Begins(From(p, n, c), p, n, c)
<1>1. <<Frame(Root)>> \in Paths /\ -2 \in -2 .. 1
  BY RootPath
<1>2. CASE p = <<>>
  <2>1. From(p, n, c) = Walk(<<Frame(Root)>>, 0, -2, c)
    BY <1>2, Zenon DEF From, Walk
  <2>2. QED
    BY <1>1, <1>2, <2>1 DEF Begins, Walk, Walks
<1>3. CASE p # <<>>
  <2>1. From(p, n, c) = Walk(p, n, -2, c)
    BY <1>3, Zenon DEF From, Walk
  <2>2. QED
    BY <1>1, <1>3, <2>1 DEF Begins, Walk, Walks
<1>4. QED
  BY <1>2, <1>3

LEMMA OrderType ==
  ASSUME TreeOK
  PROVE  Order \in Seq(Files) /\ Len(Order) \in Nat
<1>1. tree[Root] \in Seq(Items) /\ 0 \in 0 .. MaxLevel + 1
  BY MediaDirAssumption DEF TreeOK
<1>2. Order \in Seq(Files)
  BY <1>1, AmongIs DEF Order
<1>3. QED
  BY <1>2

\* From the root _find finds the media of each number, or counts all of them.
FromRoot(s, id) ==
  IF id \in 0 .. Len(Order) - 1
  THEN /\ s.ret = 0 /\ s.n = id /\ Here(s.path) /\ AtMedia(s.path)
       /\ Before(s.path) = id /\ At(s.path) = Order[id + 1]
  ELSE s.ret # 0 /\ s.n = Len(Order) /\ s.path = <<>>

LEMMA RootFinds ==
  ASSUME TreeOK, NEW s \in Walks, s.path = <<Frame(Root)>>, s.n = 0, s.ret = -2, NEW id \in Int
  PROVE  FromRoot(Find(s, id), id)
<1>1. PICK u : u = Find(s, id)
  OBVIOUS
<1>2. u \in Walks /\ Ended(s, u, id) /\ Finds(s, u, id)
  BY <1>1, FindEnds, FindFresh, Zenon
<1>3. Here(s.path) /\ Before(s.path) = 0 /\ Len(Order) \in Nat
  BY RootPath, OrderType, Zenon
<1>4. CASE id \in 0 .. Len(Order) - 1
  <2>1. s.n <= id /\ id - s.n < Len(Order) - Before(s.path)
    BY <1>3, <1>4
  <2>2. Here(u.path) /\ AtMedia(u.path) /\ Before(u.path) = id
    BY <1>2, <1>3, <2>1 DEF Finds
  <2>3. u.ret = 0 /\ u.n = id
    BY <1>2, <2>2 DEF Ended, Here
  <2>4. At(u.path) = Order[id + 1]
    BY <2>2, HereInOrder DEF InOrder
  <2>5. QED
    BY <1>1, <1>4, <2>2, <2>3, <2>4, Zenon DEF FromRoot
<1>5. CASE id \notin 0 .. Len(Order) - 1
  <2>1. ~(s.n <= id /\ id - s.n < Len(Order) - Before(s.path))
    BY <1>3, <1>5
  <2>2. u.path = <<>> /\ u.n = Len(Order)
    BY <1>2, <1>3, <2>1 DEF Finds
  <2>3. u.ret # 0
    BY <1>2, <2>2 DEF Ended
  <2>4. QED
    BY <1>1, <1>5, <2>2, <2>3, Zenon DEF FromRoot
<1>6. QED
  BY <1>4, <1>5

\* media_find and _count_media
LEMMA DirFoundIs ==
  ASSUME TreeOK, NEW w, w.count \in Nat, NEW id \in Int
  PROVE  DirFound(w, id) = IF id \in 0 .. Len(Order) - 1
                           THEN {[id |-> id, url |-> Order[id + 1]]} ELSE {}
<1>1. PICK s : s = From(<<>>, 0, w.count) /\ Begins(s, <<>>, 0, w.count)
  BY FromIs, NoPath
<1>2. FromRoot(Find(s, id), id)
  BY <1>1, RootFinds DEF Begins
<1>3. DirFound(w, id) = IF id >= 0 /\ Find(s, id).ret = 0
                        THEN {[id |-> id, url |-> At(Find(s, id).path)]} ELSE {}
  BY <1>1, Zenon DEF DirFound
<1>4. CASE id \in 0 .. Len(Order) - 1
  <2>1. Find(s, id).ret = 0 /\ At(Find(s, id).path) = Order[id + 1] /\ id >= 0
    BY <1>2, <1>4 DEF FromRoot
  <2>2. QED
    BY <1>3, <1>4, <2>1, Zenon
<1>5. CASE id \notin 0 .. Len(Order) - 1
  <2>1. Find(s, id).ret # 0
    BY <1>2, <1>5 DEF FromRoot
  <2>2. QED
    BY <1>3, <1>5, <2>1, Zenon
<1>6. QED
  BY <1>4, <1>5

LEMMA NumberIs ==
  ASSUME TreeOK
  PROVE  Number = Len(Order) /\ Number \in Nat
<1>1. PICK s : s = From(<<>>, 0, 0) /\ Begins(s, <<>>, 0, 0)
  BY FromIs, NoPath
<1>2. FromRoot(Find(s, -1), -1)
  BY <1>1, RootFinds DEF Begins
<1>3. Len(Order) \in Nat
  BY OrderType
<1>4. Find(s, -1).n = Len(Order)
  BY <1>2, <1>3 DEF FromRoot
<1>5. QED
  BY <1>1, <1>3, <1>4, Zenon DEF Number

DirOK(w) ==
  /\ w = [path |-> w.path, count |-> w.count, first |-> w.first]
  /\ Placed(w.path) /\ w.count \in Nat /\ w.first \in Nat \cup {-1}

\* What comes of one call of _find by media_next
Tried(w, playing, id, a) ==
  \E s \in Walks, u \in Walks, p \in Paths :
    /\ p = (IF id < playing THEN <<>> ELSE w.path) /\ Begins(s, p, playing, w.count)
    /\ u = Find(s, id) /\ Ended(s, u, id)
    /\ a.w.path = u.path /\ a.w.count = u.count /\ a.id = u.n
    /\ a.ret = (IF w.first = u.n THEN -1 ELSE u.ret)
    /\ a.w.first = (IF a.ret = 0 /\ w.first = -1 THEN u.n ELSE w.first)
    /\ DirOK(a.w) /\ a.w.count >= w.count

LEMMA AttemptIs ==
  ASSUME TreeOK, NEW w, DirOK(w), NEW playing \in Int, NEW id \in Nat
  PROVE  Tried(w, playing, id, Attempt(w, playing, id))
<1>1. PICK p \in Paths : p = (IF id < playing THEN <<>> ELSE w.path) /\ Placed(p)
  BY NoPath DEF DirOK, Placed
<1>2. w.count \in Nat /\ w.first \in Nat \cup {-1}
  BY DEF DirOK
<1>3. PICK s : s = From(p, playing, w.count) /\ Begins(s, p, playing, w.count)
  BY <1>2, FromIs, Zenon
<1>4. s \in Walks /\ Placed(s.path) /\ s.count = w.count /\ s.ret # 0
  BY <1>1, <1>3, RootPath DEF Begins, Here
<1>5. PICK u : u = Find(s, id)
  OBVIOUS
<1>6. u \in Walks /\ Ended(s, u, id)
  BY <1>4, <1>5, FindEnds, Zenon
<1>7. u.n \in Int /\ u.count \in Nat /\ u.count >= w.count /\ Placed(u.path)
      /\ (u.ret = 0 => u.n = id)
  BY <1>4, <1>6, WalkParts DEF Ended
<1>8. PICK r, f : r = (IF w.first = u.n THEN -1 ELSE u.ret)
                  /\ f = (IF r = 0 /\ w.first = -1 THEN u.n ELSE w.first)
  OBVIOUS
<1>9. PICK v : v = [path |-> u.path, count |-> u.count, first |-> f]
  OBVIOUS
<1>10. PICK a : a = Attempt(w, playing, id) /\ a = [w |-> v, id |-> u.n, ret |-> r]
  BY <1>1, <1>3, <1>5, <1>8, <1>9, Zenon DEF Attempt
<1>11. f \in Nat \cup {-1}
  <2>1. r = 0 => u.n = id
    BY <1>7, <1>8
  <2>2. QED
    BY <1>2, <1>8, <2>1
<1>12. v.path = u.path /\ v.count = u.count /\ v.first = f /\ DirOK(v)
  <2>1. v.path = u.path /\ v.count = u.count /\ v.first = f
    BY <1>9
  <2>2. v = [path |-> v.path, count |-> v.count, first |-> v.first]
    BY <1>9
  <2>3. QED
    BY <1>7, <1>11, <2>1, <2>2, Zenon DEF DirOK
<1>13. a.w = v /\ a.id = u.n /\ a.ret = r
  BY <1>10
<1>14. Tried(w, playing, id, a)
  BY <1>1, <1>3, <1>4, <1>5, <1>6, <1>7, <1>8, <1>12, <1>13, Zenon DEF Tried
<1>15. QED
  BY <1>10, <1>14, Zenon

LEMMA TriedType ==
  ASSUME NEW w, NEW playing, NEW id, NEW a, Tried(w, playing, id, a)
  PROVE  DirOK(a.w) /\ a.id \in Int /\ a.ret \in -2 .. 1
BY WalkParts DEF Tried

LEMMA TargetsIs ==
  ASSUME NEW w, w.count \in Nat, NEW rand, NEW playing \in Nat \cup {-1}
  PROVE  /\ Targets(w, rand, playing) \subseteq Nat /\ Targets(w, rand, playing) # {}
         /\ ~rand /\ playing + 1 <= w.count => Targets(w, rand, playing) = {playing + 1}
<1>1. ASSUME NEW i \in Nat PROVE Wrapped(w, i) \in Nat /\ (i <= w.count => Wrapped(w, i) = i)
  BY DEF Wrapped
<1>2. playing + 1 \in Nat
  OBVIOUS
<1>3. CASE rand
  <2>1. Targets(w, rand, playing)
          = {Wrapped(w, IF i = playing THEN i + 1 ELSE i) : i \in 0 .. w.count}
    BY <1>3, Zenon DEF Targets
  <2>2. ASSUME NEW i \in 0 .. w.count
        PROVE  Wrapped(w, IF i = playing THEN i + 1 ELSE i) \in Nat
    <3>1. PICK j \in Nat : j = IF i = playing THEN i + 1 ELSE i
      OBVIOUS
    <3>2. QED
      BY <1>1, <3>1
  <2>3. 0 \in 0 .. w.count
    OBVIOUS
  <2>4. Targets(w, rand, playing) # {}
    BY <2>1, <2>3
  <2>5. QED
    BY <1>3, <2>1, <2>2, <2>4
<1>4. CASE ~rand
  <2>1. Targets(w, rand, playing) = {Wrapped(w, playing + 1)}
    BY <1>4, Zenon DEF Targets
  <2>2. PICK j \in Nat : j = playing + 1
    BY <1>2
  <2>3. QED
    BY <1>1, <2>1, <2>2
<1>5. QED
  BY <1>3, <1>4

LEMMA AttemptsIs ==
  ASSUME TreeOK, NEW w, DirOK(w), NEW rand, NEW playing \in Nat \cup {-1}
  PROVE  /\ Attempts(w, rand, playing) # {}
         /\ \A a \in Attempts(w, rand, playing) :
              \E id \in Nat : /\ id \in Targets(w, rand, playing)
                              /\ a = Attempt(w, playing, id) /\ Tried(w, playing, id, a)
<1>1. w.count \in Nat /\ playing \in Int
  BY DEF DirOK
<1>2. Targets(w, rand, playing) \subseteq Nat /\ Targets(w, rand, playing) # {}
  BY <1>1, TargetsIs
<1>3. ASSUME NEW id \in Targets(w, rand, playing)
      PROVE  Tried(w, playing, id, Attempt(w, playing, id))
  BY <1>1, <1>2, AttemptIs
<1>4. QED
  BY <1>2, <1>3 DEF Attempts

\* media_play leaves all but the count, which never gets less.
Counting(b, a) ==
  /\ DirOK(a.w) /\ a.w.path = b.w.path /\ a.w.first = b.w.first /\ a.w.count >= b.w.count
  /\ a.id = b.id /\ a.ret = b.ret

LEMMA CountingIs ==
  ASSUME TreeOK, NEW v, NEW lp, NEW rand, NEW playing \in Nat \cup {-1}, DirOK(v),
         NEW b \in Attempts(v, rand, playing), NEW a,
         a = [b EXCEPT !.w = Sought(b.w, Returned(b, lp))]
  PROVE  Counting(b, a)
<1>1. PICK id \in Nat : b = Attempt(v, playing, id) /\ Tried(v, playing, id, b)
  BY AttemptsIs, Zenon
<1>2. DirOK(b.w) /\ b.id \in Int /\ b.w.count \in Nat
  BY <1>1, TriedType, Zenon DEF DirOK
<1>3. PICK i \in Int : i = Returned(b, lp)
  BY <1>2 DEF Returned
<1>4. PICK s : s = From(<<>>, 0, b.w.count) /\ Begins(s, <<>>, 0, b.w.count)
  <2>1. <<>> \in Paths
    BY NoPath DEF Placed
  <2>2. PICK n \in Int : n = 0
    OBVIOUS
  <2>3. Begins(From(<<>>, n, b.w.count), <<>>, n, b.w.count)
    BY <1>2, <2>1, FromIs, Zenon
  <2>4. QED
    BY <2>2, <2>3, Zenon
<1>5. PICK u : u = Find(s, i)
  OBVIOUS
<1>6. s \in Walks /\ Placed(s.path) /\ s.count = b.w.count /\ s.ret # 0
  <2>1. s \in Walks /\ s.path = <<Frame(Root)>> /\ s.count = b.w.count /\ s.ret = -2
    BY <1>4, Zenon DEF Begins
  <2>2. Placed(s.path)
    BY <2>1, RootPath, Zenon DEF Here
  <2>3. QED
    BY <2>1, <2>2
<1>7. u \in Walks /\ Ended(s, u, i)
  BY <1>5, <1>6, FindEnds, Zenon
<1>8. u.count \in Nat /\ u.count >= b.w.count
  BY <1>6, <1>7, WalkParts DEF Ended
<1>9. PICK w : w = Sought(b.w, i)
  OBVIOUS
<1>10. w = b.w \/ w = [b.w EXCEPT !.count = u.count]
  BY <1>4, <1>5, <1>9, Zenon DEF Sought
<1>11. w.path = b.w.path /\ w.first = b.w.first /\ w.count \in {b.w.count, u.count}
       /\ w = [path |-> w.path, count |-> w.count, first |-> w.first]
  BY <1>2, <1>10 DEF DirOK
<1>12. DirOK(w) /\ w.count >= b.w.count
  BY <1>2, <1>8, <1>11 DEF DirOK
<1>13. PICK p, n, m : b = [w |-> p, id |-> n, ret |-> m]
  BY <1>1, Zenon DEF Attempt
<1>14. a.w = w /\ a.id = b.id /\ a.ret = b.ret
  BY <1>3, <1>9, <1>13
<1>15. QED
  BY <1>11, <1>12, <1>14 DEF Counting

\* Where media_next returns from: a first attempt, a second one from where the
\* first one was left, or a third one from where that was left
Retry(w, rand, playing, lp, v) ==
  \E b \in Attempts(w, rand, playing) : v = b.w /\ Again(b, lp)

LEMMA RetryIs ==
  ASSUME TreeOK, NEW w, DirOK(w), NEW lp, NEW rand, NEW playing \in Nat \cup {-1}, NEW v,
         Retry(w, rand, playing, lp, v)
  PROVE  DirOK(v)
<1>1. PICK b \in Attempts(w, rand, playing) : v = b.w
  BY Zenon DEF Retry
<1>2. PICK id \in Nat : Tried(w, playing, id, b)
  BY AttemptsIs, Zenon
<1>3. QED
  BY <1>1, <1>2, TriedType, Zenon

LEMMA OutcomesIs ==
  ASSUME TreeOK, NEW w, DirOK(w), NEW lp, NEW rand, NEW playing \in Nat \cup {-1},
         NEW a \in Outcomes(w, lp, rand, playing)
  PROVE  \E v : /\ DirOK(v)
                /\ \E b \in Attempts(v, rand, playing) : ~Again(b, lp) /\ Counting(b, a)
                /\ \/ v = w
                   \/ Retry(w, rand, playing, lp, v)
                   \/ \E u : DirOK(u) /\ Retry(w, rand, playing, lp, u)
                             /\ Retry(u, rand, playing, lp, v)
<1> DEFINE Retried(tries) ==
             UNION {Attempts(x.w, rand, playing) : x \in {y \in tries : Again(y, lp)}}
           one == Attempts(w, rand, playing)
<1>1. PICK b \in one \cup Retried(one) \cup Retried(Retried(one)) :
        ~Again(b, lp) /\ a = [b EXCEPT !.w = Sought(b.w, Returned(b, lp))]
  BY DEF Outcomes
<1>2. SUFFICES ASSUME NEW v, DirOK(v), b \in Attempts(v, rand, playing),
                      \/ v = w
                      \/ Retry(w, rand, playing, lp, v)
                      \/ \E u : DirOK(u) /\ Retry(w, rand, playing, lp, u)
                                /\ Retry(u, rand, playing, lp, v)
               PROVE  Counting(b, a)
  <2>1. CASE b \in one
    BY <1>1, <1>2, <2>1, Zenon
  <2>2. CASE b \in Retried(one)
    <3>1. PICK x \in one : Again(x, lp) /\ b \in Attempts(x.w, rand, playing)
      BY <2>2
    <3>2. Retry(w, rand, playing, lp, x.w) /\ DirOK(x.w)
      BY <3>1, RetryIs, Zenon DEF Retry
    <3>3. QED
      BY <1>1, <1>2, <3>1, <3>2, Zenon
  <2>3. CASE b \in Retried(Retried(one))
    <3>1. PICK y \in Retried(one) : Again(y, lp) /\ b \in Attempts(y.w, rand, playing)
      BY <2>3
    <3>2. PICK x \in one : Again(x, lp) /\ y \in Attempts(x.w, rand, playing)
      BY <3>1
    <3>3. Retry(w, rand, playing, lp, x.w) /\ DirOK(x.w)
      BY <3>2, RetryIs, Zenon DEF Retry
    <3>4. Retry(x.w, rand, playing, lp, y.w) /\ DirOK(y.w)
      BY <3>1, <3>2, <3>3, RetryIs, Zenon DEF Retry
    <3>5. QED
      BY <1>1, <1>2, <3>1, <3>3, <3>4, Zenon
  <2>4. QED
    BY <1>1, <2>1, <2>2, <2>3
<1>3. QED
  BY <1>1, <1>2, CountingIs, Zenon

\* There is none only when it met, in a walk from the root, a last file that is no
\* media.
LEMMA NoOutcome ==
  ASSUME TreeOK, NEW w, DirOK(w), NEW lp, NEW rand, NEW playing \in Nat \cup {-1},
         Outcomes(w, lp, rand, playing) = {}
  PROVE  lp /\ ~EndsWithMedia
<1>1. ASSUME NEW v, DirOK(v), NEW a \in Attempts(v, rand, playing), Again(a, lp)
      PROVE  /\ lp /\ a.w.path = <<>> /\ DirOK(a.w)
             /\ v.path = <<>> => ~EndsWithMedia
  <2>1. PICK id \in Nat : Tried(v, playing, id, a)
    BY <1>1, AttemptsIs, Zenon
  <2>2. PICK s \in Walks, u \in Walks, p \in Paths :
          /\ p = (IF id < playing THEN <<>> ELSE v.path) /\ Begins(s, p, playing, v.count)
          /\ u = Find(s, id) /\ Ended(s, u, id)
          /\ a.w.path = u.path /\ a.id = u.n
          /\ a.ret = (IF v.first = u.n THEN -1 ELSE u.ret)
          /\ a.w.first = (IF a.ret = 0 /\ v.first = -1 THEN u.n ELSE v.first)
          /\ DirOK(a.w)
    BY <2>1, Zenon DEF Tried
  <2>3. lp /\ a.ret = -1 /\ a.w.first # a.id
    BY <1>1, Zenon DEF Again
  <2>4. v.first # u.n /\ u.ret = -1
    BY <2>2, <2>3
  <2>5. u.path = <<>>
    BY <2>2, <2>4 DEF Ended
  <2>6. ASSUME v.path = <<>> PROVE ~EndsWithMedia
    <3>1. s.path = <<Frame(Root)>> /\ s.ret = -2
      BY <2>2, <2>6 DEF Begins
    <3>2. Refuses(s, u) /\ Here(s.path)
      BY <2>2, <3>1, FindRefuses, RootPath, Zenon
    <3>3. Last(Whole(All)) \in Others
      BY <2>4, <2>5, <3>1, <3>2 DEF Refuses
    <3>4. QED
      BY <3>3, MediaDirAssumption DEF EndsWithMedia, Whole, All
  <2>7. QED
    BY <2>2, <2>3, <2>5, <2>6
<1>2. PICK a \in Attempts(w, rand, playing) : TRUE
  BY AttemptsIs
<1> DEFINE Retried(tries) ==
             UNION {Attempts(x.w, rand, playing) : x \in {y \in tries : Again(y, lp)}}
           one == Attempts(w, rand, playing)
<1>0. ASSUME NEW b \in one \cup Retried(one) \cup Retried(Retried(one)) PROVE Again(b, lp)
  <2>1. SUFFICES ASSUME ~Again(b, lp) PROVE FALSE
    OBVIOUS
  <2>2. [b EXCEPT !.w = Sought(b.w, Returned(b, lp))] \in Outcomes(w, lp, rand, playing)
    BY <1>0, <2>1 DEF Outcomes
  <2>3. QED
    BY <2>2
<1>3. Again(a, lp)
  BY <1>0, <1>2
<1>4. DirOK(a.w) /\ a.w.path = <<>> /\ lp
  BY <1>1, <1>2, <1>3
<1>5. PICK b \in Attempts(a.w, rand, playing) : TRUE
  BY <1>4, AttemptsIs
<1>6. Again(b, lp)
  <2>1. b \in Retried(one)
    BY <1>2, <1>3, <1>5
  <2>2. QED
    BY <1>0, <2>1
<1>7. QED
  BY <1>1, <1>4, <1>5, <1>6

-----------------------------------------------------------------------------
(* The calls of a list                                                     *)

FileOK(f) ==
  /\ f = [list |-> f.list, current |-> f.current, lastid |-> f.lastid] /\ f.lastid \in Nat
  /\ f.list \in Seq([id : 0 .. f.lastid, url : Urls])
  /\ IsInjective([n \in DOMAIN f.list |-> f.list[n].id])
  /\ f.current \in {-1} \cup {f.list[n].id : n \in DOMAIN f.list}

LEMMA FileOfIs ==
  ASSUME NEW u \in Urls
  PROVE  FileOK(FileOf(u)) /\ FileOf(u).list # <<>>
<1>1. FileOf(u) = [list |-> <<[id |-> 0, url |-> u]>>, current |-> -1, lastid |-> 0]
  BY DEF FileOf, NoFile
<1>2. QED
  BY <1>1 DEF FileOK, IsInjective

LEMMA NoFileIs == FileOK(NoFile)
BY DEF FileOK, NoFile, IsInjective

LEMMA FileNextIs ==
  ASSUME NEW f, FileOK(f), f.list # <<>>, NEW lp
  PROVE  FileOK(FileNext(f, lp)) /\ FileNext(f, lp).list # <<>>
<1>1. PICK l, c, i : f = [list |-> l, current |-> c, lastid |-> i]
      /\ l = f.list /\ c = f.current /\ i = f.lastid
  BY DEF FileOK
<1>2. l \in Seq([id : 0 .. i, url : Urls]) /\ l # <<>> /\ Len(l) \in Nat /\ 1 \in DOMAIN l
      /\ DOMAIN l = 1 .. Len(l)
  BY <1>1 DEF FileOK
<1>3. PositionOf(f) \in Nat
  <2> DEFINE I == {n \in 1 .. Len(f.list) : f.list[n].id = f.current}
  <2>1. PositionOf(f) = IF I # {} THEN Min(I) ELSE 0
    BY DEF PositionOf, SelectInSeq
  <2>2. I # {} => Min(I) \in Nat
    <3>1. I \in SUBSET Nat
      OBVIOUS
    <3> HIDE DEF I
    <3>2. I # {} => \E n \in I : \A m \in I : n <= m
      BY <3>1, Least
    <3>3. I # {} => Min(I) \in I
      BY <3>2 DEF Min
    <3>4. QED
      BY <3>1, <3>3
  <2>3. QED
    BY <2>1, <2>2
<1>4. PICK n \in Nat : n = PositionOf(f) + 1 /\ n >= 1
  BY <1>3
<1>5. Following(f, lp) = IF n <= Len(l) THEN l[n].id ELSE IF lp THEN l[1].id ELSE -1
  BY <1>1, <1>4, Zenon DEF Following
<1>6. Following(f, lp) \in {-1} \cup {l[m].id : m \in DOMAIN l}
  BY <1>2, <1>4, <1>5
<1>7. PICK d : d = Following(f, lp)
  OBVIOUS
<1>8. FileNext(f, lp) = [list |-> l, current |-> d, lastid |-> i]
  <2>1. FileNext(f, lp) = [f EXCEPT !.current = d]
    BY <1>7, Zenon DEF FileNext
  <2>2. QED
    BY <1>1, <2>1
<1>9. PICK g : g = FileNext(f, lp) /\ g.list = l /\ g.current = d /\ g.lastid = i
  BY <1>8
<1>10. IsInjective([m \in DOMAIN l |-> l[m].id]) /\ i \in Nat
  BY <1>1 DEF FileOK
<1>11. FileOK(g)
  <2>1. g = [list |-> g.list, current |-> g.current, lastid |-> g.lastid]
    BY <1>8, <1>9, Zenon
  <2>2. g.current \in {-1} \cup {g.list[m].id : m \in DOMAIN g.list}
    BY <1>6, <1>7, <1>9, Zenon
  <2>3. QED
    BY <1>2, <1>9, <1>10, <2>1, <2>2, Zenon DEF FileOK
<1>12. QED
  BY <1>2, <1>9, <1>11, Zenon

LEMMA FileFoundIs ==
  ASSUME NEW f, FileOK(f), NEW i
  PROVE  \A x \in FileFound(f, i) : x \in [id : Nat, url : Urls]
<1>1. f.list \in Seq([id : 0 .. f.lastid, url : Urls]) /\ f.lastid \in Nat
  BY DEF FileOK
<1>2. ASSUME NEW n \in DOMAIN f.list PROVE f.list[n] \in [id : Nat, url : Urls]
  <2>1. f.list[n] \in [id : 0 .. f.lastid, url : Urls]
    BY <1>1, n \in 1 .. Len(f.list), ElementOfSeq
  <2>2. 0 .. f.lastid \subseteq Nat
    BY <1>1
  <2>3. QED
    BY <2>1, <2>2
<1>3. QED
  BY <1>2 DEF FileFound

\* The number of an entry that is inserted is none of those of the list.
LEMMA EnteredIs ==
  ASSUME NEW f, FileOK(f), NEW u \in Urls, NEW g \in Entered(f, u)
  PROVE  FileOK(g) /\ g.list # <<>>
<1>1. PICK l, c, i : f = [list |-> l, current |-> c, lastid |-> i]
      /\ l = f.list /\ c = f.current /\ i = f.lastid
  BY DEF FileOK
<1>2. PICK j \in Nat : i \in Nat /\ j = i + 1 /\ j = NextId(f)
  <2>1. i \in Nat
    BY <1>1, Zenon DEF FileOK
  <2>2. NextId(f) = i + 1
    BY <1>1, Zenon DEF NextId
  <2>3. i + 1 \in Nat
    BY <2>1
  <2>4. QED
    BY <2>1, <2>2, <2>3, Zenon
<1>3. PICK e : e = [id |-> j, url |-> u] /\ e.id = j
  <2>1. [id |-> j, url |-> u].id = j
    OBVIOUS
  <2>2. QED
    BY <2>1, Zenon
<1>4. PICK m : (m = <<e>> \o l \/ m = l \o <<e>>) /\ g = [f EXCEPT !.list = m, !.lastid = j]
  <2> DEFINE one == <<[id |-> NextId(f), url |-> u]>>
             both == {[f EXCEPT !.list = k, !.lastid = NextId(f)] :
                        k \in {one \o f.list, f.list \o one}}
  <2>1. Entered(f, u) = IF \E n \in DOMAIN f.list : f.list[n].url = u THEN {} ELSE both
    BY Zenon DEF Entered
  <2>2. g \in both
    <3> HIDE DEF both
    <3>1. QED
      BY <2>1
  <2>3. one = <<e>>
    BY <1>2, <1>3
  <2> HIDE DEF one
  <2>4. QED
    BY <1>1, <1>2, <2>2, <2>3, Zenon
<1>5. g = [list |-> m, current |-> c, lastid |-> j]
  BY <1>1, <1>4
<1>6. g.list = m /\ g.current = c /\ g.lastid = j
  BY <1>5
<1> DEFINE T == [id : 0 .. j, url : Urls]
<1>7. /\ l \in Seq([id : 0 .. i, url : Urls])
      /\ IsInjective([n \in DOMAIN l |-> l[n].id])
      /\ c \in {-1} \cup {l[n].id : n \in DOMAIN l}
  BY <1>1 DEF FileOK
<1>8. DOMAIN l = 1 .. Len(l) /\ Len(l) \in Nat /\ l \in Seq(T) /\ e \in T
      /\ \A n \in 1 .. Len(l) : l[n].id \in 0 .. i
  <2>1. DOMAIN l = 1 .. Len(l) /\ Len(l) \in Nat
        /\ \A n \in 1 .. Len(l) : l[n] \in [id : 0 .. i, url : Urls]
    <3> DEFINE R == [id : 0 .. i, url : Urls]
    <3>1. l \in Seq(R)
      BY <1>7
    <3> HIDE DEF R
    <3>2. DOMAIN l = 1 .. Len(l) /\ Len(l) \in Nat /\ \A n \in 1 .. Len(l) : l[n] \in R
      BY <3>1
    <3>3. QED
      BY <3>2 DEF R
  <2>2. \A n \in 1 .. Len(l) : l[n] \in T
    BY <1>2, <2>1
  <2>3. l \in Seq(T)
    <3> HIDE DEF T
    <3>1. QED
      BY <1>7, <2>1, <2>2
  <2>4. e \in T
    BY <1>2, <1>3
  <2>5. QED
    BY <2>1, <2>3, <2>4
<1>9. \A a \in 1 .. Len(l), b \in 1 .. Len(l) : l[a].id = l[b].id => a = b
  BY <1>7, <1>8 DEF IsInjective
<1>10. \A a \in 1 .. Len(l) : l[a].id # j
  BY <1>2, <1>8
<1> HIDE DEF T
<1>11. m \in Seq(T) /\ Len(m) = Len(l) + 1 /\ DOMAIN m = 1 .. Len(l) + 1
       /\ \/ m[1] = e /\ \A n \in 2 .. Len(l) + 1 : m[n] = l[n - 1]
          \/ m[Len(l) + 1] = e /\ \A n \in 1 .. Len(l) : m[n] = l[n]
  <2>1. CASE m = <<e>> \o l
    BY <1>8, <2>1
  <2>2. CASE m = l \o <<e>>
    BY <1>8, <2>2
  <2>3. QED
    BY <1>4, <2>1, <2>2
<1>12. IsInjective([n \in DOMAIN m |-> m[n].id])
  <2>1. \A a \in 1 .. Len(l) + 1, b \in 1 .. Len(l) + 1 : m[a].id = m[b].id => a = b
    <3> SUFFICES ASSUME NEW a \in 1 .. Len(l) + 1, NEW b \in 1 .. Len(l) + 1, m[a].id = m[b].id
                 PROVE  a = b
      OBVIOUS
    <3>1. CASE m[1] = e /\ \A n \in 2 .. Len(l) + 1 : m[n] = l[n - 1]
      <4>1. m[1].id = j
        BY <1>3, <3>1
      <4>2. ASSUME NEW x \in 2 .. Len(l) + 1
            PROVE  \E y \in 1 .. Len(l) : x = y + 1 /\ m[x] = l[y]
        <5>1. x - 1 \in 1 .. Len(l) /\ x = x - 1 + 1 /\ m[x] = l[x - 1]
          BY <1>8, <3>1
        <5>2. QED
          BY <5>1, Zenon
      <4>3. a \in 2 .. Len(l) + 1 <=> b \in 2 .. Len(l) + 1
        <5>1. \A x \in 2 .. Len(l) + 1 : m[x].id # j
          BY <1>10, <4>2, Zenon
        <5>2. \A x \in 1 .. Len(l) + 1 : x = 1 \/ x \in 2 .. Len(l) + 1
          BY <1>8
        <5>3. QED
          BY <4>1, <5>1, <5>2, Zenon
      <4>4. CASE a \in 2 .. Len(l) + 1
        <5>1. PICK y \in 1 .. Len(l), z \in 1 .. Len(l) :
                a = y + 1 /\ m[a] = l[y] /\ b = z + 1 /\ m[b] = l[z]
          BY <4>2, <4>3, <4>4, Zenon
        <5>2. y = z
          BY <1>9, <5>1, Zenon
        <5>3. QED
          BY <5>1, <5>2, Zenon
      <4>5. CASE a \notin 2 .. Len(l) + 1
        BY <1>8, <4>3, <4>5
      <4>6. QED
        BY <4>4, <4>5
    <3>2. CASE m[Len(l) + 1] = e /\ \A n \in 1 .. Len(l) : m[n] = l[n]
      BY <1>3, <1>8, <1>9, <1>10, <3>2
    <3>3. QED
      BY <1>11, <3>1, <3>2
  <2>2. QED
    BY <1>11, <2>1 DEF IsInjective
<1>13. c \in {-1} \cup {m[n].id : n \in DOMAIN m}
  <2>1. ASSUME NEW n \in DOMAIN l PROVE l[n].id \in {m[k].id : k \in DOMAIN m}
    <3>1. CASE m[1] = e /\ \A k \in 2 .. Len(l) + 1 : m[k] = l[k - 1]
      <4>1. n + 1 \in DOMAIN m /\ m[n + 1] = l[n]
        BY <1>8, <1>11, <3>1
      <4>2. QED
        BY <4>1
    <3>2. CASE m[Len(l) + 1] = e /\ \A k \in 1 .. Len(l) : m[k] = l[k]
      BY <1>8, <1>11, <3>2
    <3>3. QED
      BY <1>11, <3>1, <3>2
  <2>2. QED
    BY <1>7, <2>1
<1>14. g = [list |-> g.list, current |-> g.current, lastid |-> g.lastid]
  BY <1>5, <1>6, Zenon
<1>15. m # <<>>
  BY <1>8, <1>11
<1>16. QED
  BY <1>2, <1>6, <1>11, <1>12, <1>13, <1>14, <1>15, Zenon DEF FileOK, T

LEMMA FileEndIs ==
  ASSUME NEW f, FileOK(f)
  PROVE  FileOK(FileEnd(f)) /\ FileEnd(f).list = f.list
<1>1. PICK l, c, i : f = [list |-> l, current |-> c, lastid |-> i]
      /\ l = f.list /\ c = f.current /\ i = f.lastid
  BY DEF FileOK
<1>2. FileEnd(f) = [list |-> l, current |-> -1, lastid |-> i]
  BY <1>1 DEF FileEnd
<1>3. PICK g : g = FileEnd(f) /\ g.list = l /\ g.current = -1 /\ g.lastid = i
               /\ g = [list |-> g.list, current |-> g.current, lastid |-> g.lastid]
  BY <1>2
<1>4. FileOK(g)
  BY <1>1, <1>3 DEF FileOK
<1>5. QED
  BY <1>1, <1>3, <1>4, Zenon

-----------------------------------------------------------------------------
(* Type correctness                                                        *)

MediaOK(k, f, w) ==
  /\ k \in {"list", "dir"} /\ FileOK(f) /\ DirOK(w)
  /\ k = "list" => f.list # <<>>

TypeInv ==
  /\ UserTypeOK(Entries)
  /\ setup \in Setups /\ calls \in 0 .. setup.calls /\ tree \in setup.trees
  /\ kind \in setup.kinds /\ MediaOK(kind, file, dir)
  /\ loop \in BOOLEAN /\ random \in BOOLEAN
  /\ news \subseteq {"create", "delete"} /\ down \in BOOLEAN

LEMMA TypeFacts ==
  ASSUME TypeInv
  PROVE  /\ TreeOK /\ src.id \in Nat \cup {-1} /\ setup \in Setups
         /\ setup.kinds \subseteq {"list", "dir"} /\ setup.random \subseteq BOOLEAN
         /\ setup.trees \subseteq [Dirs -> Seq(Items)] /\ setup.calls \in Nat
<1>1. src \in Entries \cup {NoSource}
  BY DEF TypeInv, UserTypeOK
<1>2. src.id \in Nat \cup {-1}
  BY <1>1 DEF Entries, NoSource
<1>3. setup \in Setups /\ tree \in setup.trees
  BY DEF TypeInv
<1>4. setup.kinds \subseteq {"list", "dir"} /\ setup.trees \subseteq [Dirs -> Seq(Items)]
      /\ setup.random \subseteq BOOLEAN /\ setup.calls \in Nat
  BY <1>3, MediaListsAssumption
<1>5. QED
  BY <1>2, <1>3, <1>4 DEF TreeOK

LEMMA TypeInvImplies == TypeInv => TypeOK
<1> SUFFICES ASSUME TypeInv PROVE TypeOK
  OBVIOUS
<1>1. FileOK(file) /\ DirOK(dir)
  BY DEF TypeInv, MediaOK
<1>2. /\ file.list \in Seq([id : 0 .. file.lastid, url : Urls])
      /\ IsInjective([n \in DOMAIN file.list |-> file.list[n].id])
      /\ file.current \in {-1} \cup {file.list[n].id : n \in DOMAIN file.list}
  BY <1>1, Zenon DEF FileOK
<1>3. dir.path \in Paths /\ dir.count \in Nat /\ dir.first \in Nat \cup {-1}
  BY <1>1, Zenon DEF DirOK, Placed
<1>4. QED
  BY <1>2, <1>3, Zenon DEF TypeInv, TypeOK

\* What media_next and media_play leave
Gives(k, f, w, lp, rand) ==
  /\ \A m \in AfterNext(Media(k, f, w), lp, rand) :
       /\ m.kind = k /\ MediaOK(k, m.file, m.dir) /\ m.found \in Entries \cup {NoSource}
       /\ k = "dir" => \E a \in Outcomes(w, lp, rand, src.id) :
                         m.dir = a.w /\ m.found \in OrNone(DirFound(a.w, Returned(a, lp)))
  /\ AfterNext(Media(k, f, w), lp, rand) = {} => k = "dir" /\ lp /\ ~EndsWithMedia

LEMMA AfterNextIs ==
  ASSUME TreeOK, NEW k, NEW f, NEW w, MediaOK(k, f, w), src.id \in Nat \cup {-1},
         NEW lp, NEW rand
  PROVE  Gives(k, f, w, lp, rand)
<1>1. k \in {"list", "dir"} /\ FileOK(f) /\ DirOK(w) /\ (k = "list" => f.list # <<>>)
  BY DEF MediaOK
<1>2. PICK m : m = Media(k, f, w)
  OBVIOUS
<1>3. m = [kind |-> k, file |-> f, dir |-> w, found |-> NoSource]
      /\ m.kind = k /\ m.file = f /\ m.dir = w
  BY <1>2 DEF Media
<1>4. CASE k = "list"
  <2>1. PICK g : g = FileNext(f, lp)
    OBVIOUS
  <2>2. FileOK(g) /\ g.list # <<>>
    BY <1>1, <1>4, <2>1, FileNextIs
  <2>3. PICK F : F = FileFound(g, g.current)
    OBVIOUS
  <2>4. AfterNext(m, lp, rand) = {[m EXCEPT !.file = g, !.found = x] : x \in OrNone(F)}
    BY <1>3, <1>4, <2>1, <2>3, Zenon DEF AfterNext
  <2>5. OrNone(F) # {} /\ OrNone(F) \subseteq Entries \cup {NoSource}
    <3>1. F \subseteq Entries
      <4>1. \A x \in F : x \in [id : Nat, url : Urls]
        BY <2>2, <2>3, FileFoundIs
      <4>2. [id : Nat, url : Urls] \subseteq Entries
        BY DEF Entries
      <4>3. QED
        BY <4>1, <4>2
    <3>2. QED
      BY <3>1 DEF OrNone
  <2>6. ASSUME NEW x \in OrNone(F), NEW n, n = [m EXCEPT !.file = g, !.found = x]
        PROVE  n.kind = k /\ n.file = g /\ n.dir = w /\ n.found = x
    BY <1>3, <2>6
  <2>7. MediaOK(k, g, w)
    BY <1>1, <2>2, Zenon DEF MediaOK
  <2>8. AfterNext(m, lp, rand) # {}
    <3>1. PICK x \in OrNone(F) : TRUE
      BY <2>5
    <3>2. [m EXCEPT !.file = g, !.found = x] \in AfterNext(m, lp, rand)
      BY <2>4, <3>1, Zenon
    <3>3. QED
      BY <3>2, Zenon
  <2>9. ASSUME NEW n \in AfterNext(m, lp, rand)
        PROVE  n.kind = k /\ MediaOK(k, n.file, n.dir) /\ n.found \in Entries \cup {NoSource}
    <3>1. PICK x \in OrNone(F) : n = [m EXCEPT !.file = g, !.found = x]
      BY <2>4, Zenon
    <3>2. n.kind = k /\ n.file = g /\ n.dir = w /\ n.found = x
      BY <2>6, <3>1, Zenon
    <3>3. x \in Entries \cup {NoSource}
      BY <2>5, <3>1
    <3>4. QED
      BY <2>7, <3>2, <3>3, Zenon
  <2>10. k # "dir"
    BY <1>4
  <2>11. QED
    BY <1>2, <2>8, <2>9, <2>10, Zenon DEF Gives
<1>5. CASE k = "dir"
  <2> DEFINE Some(a) == OrNone(DirFound(a.w, Returned(a, lp)))
  <2>1. AfterNext(m, lp, rand)
          = UNION {{[m EXCEPT !.dir = a.w, !.found = x] : x \in Some(a)} :
                     a \in Outcomes(w, lp, rand, src.id)}
    BY <1>3, <1>5, Zenon DEF AfterNext
  <2>2. ASSUME NEW a \in Outcomes(w, lp, rand, src.id)
        PROVE  DirOK(a.w) /\ Some(a) # {} /\ Some(a) \subseteq Entries \cup {NoSource}
    <3>1. PICK v, b : DirOK(v) /\ b \in Attempts(v, rand, src.id) /\ Counting(b, a)
      BY <1>1, OutcomesIs, Zenon
    <3>2. DirOK(a.w) /\ a.id \in Int
      <4>1. b.id \in Int
        BY <1>1, <3>1, AttemptsIs, TriedType, Zenon
      <4>2. QED
        BY <3>1, <4>1 DEF Counting
    <3>3. Returned(a, lp) \in Int /\ a.w.count \in Nat
      BY <3>2 DEF Returned, DirOK
    <3>4. DirFound(a.w, Returned(a, lp)) \subseteq Entries
      <4>1. PICK i \in Int : i = Returned(a, lp)
        BY <3>3
      <4>2. DirFound(a.w, i) = IF i \in 0 .. Len(Order) - 1
                               THEN {[id |-> i, url |-> Order[i + 1]]} ELSE {}
        BY <3>3, DirFoundIs
      <4>3. i \in 0 .. Len(Order) - 1 => i \in Nat /\ Order[i + 1] \in Files
        BY OrderType
      <4>4. QED
        BY <4>1, <4>2, <4>3 DEF Entries
    <3>5. QED
      BY <3>2, <3>4 DEF OrNone
  <2> HIDE DEF Some
  <2>3. ASSUME NEW n \in AfterNext(m, lp, rand)
        PROVE  /\ n.kind = k /\ MediaOK(k, n.file, n.dir) /\ n.found \in Entries \cup {NoSource}
               /\ \E a \in Outcomes(w, lp, rand, src.id) : n.dir = a.w /\ n.found \in Some(a)
    <3>0. PICK a \in Outcomes(w, lp, rand, src.id) :
            \E x \in Some(a) : n = [m EXCEPT !.dir = a.w, !.found = x]
      <4>1. n \in UNION {{[m EXCEPT !.dir = b.w, !.found = x] : x \in Some(b)} :
                           b \in Outcomes(w, lp, rand, src.id)}
        BY <2>1, <2>3, Zenon
      <4>2. QED
        BY <4>1, Zenon
    <3>1. PICK x \in Some(a) : n = [m EXCEPT !.dir = a.w, !.found = x]
      BY <3>0
    <3>2. n.kind = k /\ n.file = f /\ n.dir = a.w /\ n.found = x
      BY <1>3, <3>1
    <3>3. DirOK(a.w) /\ x \in Entries \cup {NoSource}
      BY <2>2, <3>1
    <3>4. MediaOK(k, f, a.w)
      BY <1>1, <3>3, Zenon DEF MediaOK
    <3>5. QED
      BY <3>1, <3>2, <3>3, <3>4, Zenon
  <2>4. ASSUME AfterNext(m, lp, rand) = {} PROVE lp /\ ~EndsWithMedia
    <3>1. Outcomes(w, lp, rand, src.id) = {}
      <4> SUFFICES ASSUME NEW a \in Outcomes(w, lp, rand, src.id) PROVE FALSE
        OBVIOUS
      <4>1. PICK x \in Some(a) : TRUE
        BY <2>2
      <4>2. PICK n : n = [m EXCEPT !.dir = a.w, !.found = x]
        OBVIOUS
      <4>3. n \in AfterNext(m, lp, rand)
        <5> DEFINE Those(b) == {[m EXCEPT !.dir = b.w, !.found = y] : y \in Some(b)}
        <5>1. AfterNext(m, lp, rand) = UNION {Those(b) : b \in Outcomes(w, lp, rand, src.id)}
          BY <2>1, Zenon
        <5>2. n \in Those(a)
          BY <4>1, <4>2
        <5> HIDE DEF Those
        <5>3. QED
          BY <5>1, <5>2
      <4>4. QED
        BY <2>4, <4>3, Zenon
    <3>2. QED
      BY <1>1, <3>1, NoOutcome
  <2>5. QED
    BY <1>2, <1>5, <2>3, <2>4, Zenon DEF Some, Gives
<1>6. QED
  BY <1>1, <1>4, <1>5

LEMMA NewMediaIs ==
  ASSUME TreeOK
  PROVE  \A m \in NewMedia :
           /\ m = Media(m.kind, m.file, m.dir) /\ MediaOK(m.kind, m.file, m.dir)
           /\ m.kind = "dir" => m.dir.path = <<>> /\ m.dir.count = Len(Order) /\ m.dir.first = -1
<1>1. FileOK(NoFile) /\ (\A u \in Urls : FileOK(FileOf(u)) /\ FileOf(u).list # <<>>)
  BY NoFileIs, FileOfIs
<1>2. Placed(<<>>) /\ Len(Order) \in Nat /\ Number = Len(Order)
  BY NoPath, OrderType, NumberIs, Zenon
<1>3. NoDir = [path |-> <<>>, count |-> 0, first |-> -1]
      /\ DirOf = [path |-> <<>>, count |-> Len(Order), first |-> -1]
  BY <1>2 DEF NoDir, DirOf
<1>4. DirOK(NoDir)
  BY <1>2, <1>3 DEF DirOK
<1>5. DirOK(DirOf) /\ DirOf.path = <<>> /\ DirOf.count = Len(Order) /\ DirOf.first = -1
  BY <1>2, <1>3 DEF DirOK
<1>6. ASSUME NEW k, NEW f, NEW w, NEW m, m = Media(k, f, w)
      PROVE  m.kind = k /\ m.file = f /\ m.dir = w /\ m = Media(m.kind, m.file, m.dir)
  BY <1>6 DEF Media
<1>7. ASSUME NEW u \in Urls, NEW m, m = Media("list", FileOf(u), NoDir)
      PROVE  /\ m = Media(m.kind, m.file, m.dir) /\ MediaOK(m.kind, m.file, m.dir)
             /\ m.kind # "dir"
  <2>1. MediaOK("list", FileOf(u), NoDir)
    BY <1>1, <1>4 DEF MediaOK
  <2>2. QED
    BY <1>6, <1>7, <2>1
<1>8. ASSUME NEW m, m = Media("dir", NoFile, DirOf)
      PROVE  /\ m = Media(m.kind, m.file, m.dir) /\ MediaOK(m.kind, m.file, m.dir)
             /\ m.dir.path = <<>> /\ m.dir.count = Len(Order) /\ m.dir.first = -1
  <2>1. MediaOK("dir", NoFile, DirOf)
    BY <1>1, <1>5 DEF MediaOK
  <2>2. m.kind = "dir" /\ m.file = NoFile /\ m.dir = DirOf /\ m = Media(m.kind, m.file, m.dir)
    BY <1>8 DEF Media
  <2>3. QED
    BY <1>5, <2>1, <2>2, Zenon
<1>9. QED
  BY <1>7, <1>8 DEF NewMedia

\* What the media given or its options leave, with what is prepared
Changed(k, f, w) ==
  /\ kind' = k /\ MediaOK(k, file', dir') /\ phase' = phase /\ src' = src
  /\ nextsrc' = nextsrc \/ nextsrc' \in Entries
  /\ down' = down \/ (down' = TRUE /\ k = "dir" /\ loop' /\ ~EndsWithMedia)
  /\ \/ phase \in {"stop", "stopping"} /\ dir' = w /\ nextsrc' = nextsrc
     \/ k = "dir" /\ phase \notin {"stop", "stopping"} /\ nextsrc' = nextsrc /\ dir' = w /\ down'
     \/ k = "dir" /\ phase \notin {"stop", "stopping"}
        /\ \E a \in Outcomes(w, loop', random', src.id) :
             \E x \in OrNone(DirFound(a.w, Returned(a, loop'))) : dir' = a.w /\ Prepare(x)
     \/ k = "list"

Ready(k, w, rand) == IF k = "dir" THEN DirRandom(w, rand) ELSE w

LEMMA DirRandomIs ==
  ASSUME NEW w, DirOK(w), NEW rand
  PROVE  /\ DirOK(DirRandom(w, rand)) /\ DirRandom(w, rand).path = w.path
         /\ DirRandom(w, rand).count = w.count
         /\ DirRandom(w, rand).first = IF rand THEN w.first ELSE -1
<1>1. PICK p, c, i : w = [path |-> p, count |-> c, first |-> i]
      /\ p = w.path /\ c = w.count /\ i = w.first
  BY DEF DirOK
<1>2. CASE rand
  BY <1>2 DEF DirRandom
<1>3. CASE ~rand
  <2>1. DirRandom(w, rand) = [path |-> p, count |-> c, first |-> -1]
    BY <1>1, <1>3 DEF DirRandom
  <2>2. PICK v : v = DirRandom(w, rand) /\ v.path = p /\ v.count = c /\ v.first = -1
                 /\ v = [path |-> v.path, count |-> v.count, first |-> v.first]
    BY <2>1
  <2>3. DirOK(v)
    BY <1>1, <2>2 DEF DirOK
  <2>4. QED
    BY <1>1, <1>3, <2>2, <2>3, Zenon
<1>4. QED
  BY <1>2, <1>3

LEMMA PlayerChangeIs ==
  ASSUME TreeOK, NEW k, NEW f, NEW w, MediaOK(k, f, w), src.id \in Nat \cup {-1},
         PlayerChange(Media(k, f, w))
  PROVE  Changed(k, f, Ready(k, w, random'))
<1>1. k \in {"list", "dir"} /\ FileOK(f) /\ DirOK(w) /\ (k = "list" => f.list # <<>>)
  BY DEF MediaOK
<1>2. PICK v : v = Ready(k, w, random')
  OBVIOUS
<1>3. MediaOK(k, f, v)
  <2>1. DirOK(v)
    BY <1>1, <1>2, DirRandomIs, Zenon DEF Ready
  <2>2. QED
    BY <1>1, <2>1, Zenon DEF MediaOK
<1>4. PICK m, r : m = Media(k, f, w) /\ m.kind = k /\ r = Media(k, f, v)
      /\ r = (IF m.kind = "dir" THEN [m EXCEPT !.dir = DirRandom(@, random')] ELSE m)
      /\ r.kind = k /\ r.file = f /\ r.dir = v
  <2>1. PICK m : m = Media(k, f, w) /\ m = [kind |-> k, file |-> f, dir |-> w, found |-> NoSource]
    BY DEF Media
  <2>2. PICK r : r = Media(k, f, v) /\ r = [kind |-> k, file |-> f, dir |-> v, found |-> NoSource]
    BY DEF Media
  <2>3. m.kind = k /\ m.dir = w /\ r.kind = k /\ r.file = f /\ r.dir = v
    BY <2>1, <2>2
  <2>4. r = (IF m.kind = "dir" THEN [m EXCEPT !.dir = DirRandom(@, random')] ELSE m)
    <3>1. CASE k = "dir"
      <4>1. PICK d : d = DirRandom(w, random')
        OBVIOUS
      <4>2. v = d
        BY <1>2, <3>1, <4>1, Zenon DEF Ready
      <4>3. [m EXCEPT !.dir = DirRandom(@, random')] = [m EXCEPT !.dir = d]
        BY <2>3, <4>1
      <4>4. r = [m EXCEPT !.dir = d]
        BY <2>1, <2>2, <4>2
      <4>5. QED
        BY <2>3, <3>1, <4>3, <4>4, Zenon
    <3>2. CASE k # "dir"
      <4>1. v = w
        BY <1>2, <3>2, Zenon DEF Ready
      <4>2. QED
        BY <2>1, <2>2, <2>3, <3>2, <4>1, Zenon
    <3>3. QED
      BY <3>1, <3>2
  <2>5. QED
    BY <2>1, <2>2, <2>3, <2>4, Zenon
<1>5. \/ phase \in {"stop", "stopping"} /\ Becomes(r) /\ UNCHANGED <<user, down>>
      \/ phase \notin {"stop", "stopping"}
         /\ \E n \in AfterNext(r, loop', random') :
               Becomes(n) /\ Another(n.found) /\ UNCHANGED down
      \/ phase \notin {"stop", "stopping"} /\ AfterNext(r, loop', random') = {}
         /\ down' = TRUE /\ Becomes(r) /\ UNCHANGED user
  BY <1>4, Zenon DEF PlayerChange
<1>6. CASE phase \in {"stop", "stopping"} /\ Becomes(r) /\ UNCHANGED <<user, down>>
  <2>1. kind' = k /\ file' = f /\ dir' = v /\ phase' = phase /\ src' = src /\ nextsrc' = nextsrc
        /\ down' = down
    BY <1>4, <1>6 DEF Becomes, user
  <2>2. QED
    BY <1>2, <1>3, <1>6, <2>1, Zenon DEF Changed
<1>7. CASE phase \notin {"stop", "stopping"}
           /\ \E n \in AfterNext(r, loop', random') :
                Becomes(n) /\ Another(n.found) /\ UNCHANGED down
  <2>1. PICK n \in AfterNext(r, loop', random') :
             Becomes(n) /\ Another(n.found) /\ UNCHANGED down
    BY <1>7
  <2>2. /\ n.kind = k /\ MediaOK(k, n.file, n.dir) /\ n.found \in Entries \cup {NoSource}
        /\ k = "dir" => \E a \in Outcomes(v, loop', random', src.id) :
             n.dir = a.w /\ n.found \in OrNone(DirFound(a.w, Returned(a, loop')))
    <3>1. Gives(k, f, v, loop', random')
      BY <1>3, AfterNextIs, Zenon
    <3>2. QED
      BY <1>4, <3>1, Zenon DEF Gives
  <2>3. kind' = k /\ file' = n.file /\ dir' = n.dir /\ phase' = phase /\ src' = src
        /\ Prepare(n.found) /\ down' = down
    BY <2>1, <2>2 DEF Becomes, Another
  <2>4. nextsrc' = nextsrc \/ nextsrc' \in Entries
    BY <2>2, <2>3 DEF Prepare
  <2>5. QED
    BY <1>1, <1>2, <1>7, <2>2, <2>3, <2>4, Zenon DEF Changed
<1>8. CASE phase \notin {"stop", "stopping"} /\ AfterNext(r, loop', random') = {}
           /\ down' = TRUE /\ Becomes(r) /\ UNCHANGED user
  <2>1. kind' = k /\ file' = f /\ dir' = v /\ phase' = phase /\ src' = src /\ nextsrc' = nextsrc
        /\ down' = TRUE
    BY <1>4, <1>8 DEF Becomes, user
  <2>2. k = "dir" /\ loop' /\ ~EndsWithMedia
    <3>1. Gives(k, f, v, loop', random')
      BY <1>3, AfterNextIs, Zenon
    <3>2. QED
      BY <1>4, <1>8, <3>1, Zenon DEF Gives
  <2>3. QED
    BY <1>2, <1>3, <1>8, <2>1, <2>2, Zenon DEF Changed
<1>9. QED
  BY <1>5, <1>6, <1>7, <1>8, Zenon

\* What the media is asked for in the state PLAY
LEMMA PlayIs ==
  ASSUME TypeInv, Play
  PROVE  /\ kind' = kind /\ MediaOK(kind, file', dir') /\ src' = src /\ phase = "play"
         /\ \/ /\ down' = TRUE /\ kind = "dir" /\ loop /\ ~EndsWithMedia
               /\ phase' = phase /\ nextsrc' = nextsrc /\ dir' = dir
            \/ /\ down' = down /\ phase' = (IF src = NoSource THEN "change" ELSE "playing")
               /\ nextsrc' = nextsrc \/ nextsrc' \in Entries
               /\ kind = "dir" => \E a \in Outcomes(dir, loop, random, src.id) :
                    \E x \in OrNone(DirFound(a.w, Returned(a, loop))) : dir' = a.w /\ Prepare(x)
         /\ UNCHANGED <<tree, setup, calls, loop, random, news>>
<1>1. TreeOK /\ src.id \in Nat \cup {-1} /\ MediaOK(kind, file, dir)
  BY TypeFacts DEF TypeInv
<1>2. UNCHANGED <<tree, setup, calls, loop, random, news>>
  BY DEF Play
<1>0. Gives(kind, file, dir, loop, random)
  BY <1>1, AfterNextIs, Zenon
<1>3. CASE /\ AfterNext(Media(kind, file, dir), loop, random) = {}
           /\ down' = TRUE /\ UNCHANGED <<user, kind, file, dir>>
  <2>1. kind = "dir" /\ loop /\ ~EndsWithMedia
    BY <1>0, <1>3, Zenon DEF Gives
  <2>2. QED
    BY <1>1, <1>2, <1>3, <2>1 DEF user, Play
<1>4. CASE \E m \in AfterNext(Media(kind, file, dir), loop, random) :
             Becomes(m) /\ EnginePlay(m.found) /\ UNCHANGED down
  <2>1. PICK m \in AfterNext(Media(kind, file, dir), loop, random) :
             Becomes(m) /\ EnginePlay(m.found) /\ UNCHANGED down
    BY <1>4
  <2>2. /\ m.kind = kind /\ MediaOK(kind, m.file, m.dir) /\ m.found \in Entries \cup {NoSource}
        /\ kind = "dir" => \E a \in Outcomes(dir, loop, random, src.id) :
             m.dir = a.w /\ m.found \in OrNone(DirFound(a.w, Returned(a, loop)))
    BY <1>0, Zenon DEF Gives
  <2>3. kind' = kind /\ file' = m.file /\ dir' = m.dir /\ src' = src /\ phase = "play"
        /\ phase' = (IF src = NoSource THEN "change" ELSE "playing")
        /\ Prepare(m.found) /\ down' = down
    BY <2>1, <2>2 DEF Becomes, EnginePlay
  <2>4. nextsrc' = nextsrc \/ nextsrc' \in Entries
    BY <2>2, <2>3 DEF Prepare
  <2>5. QED
    BY <1>2, <2>2, <2>3, <2>4, Zenon
<1>5. QED
  BY <1>3, <1>4 DEF Play

LEMMA TypeInit == Init => TypeInv
<1> SUFFICES ASSUME Init PROVE TypeInv
  OBVIOUS
<1>1. setup \in Setups /\ calls = setup.calls /\ tree \in setup.trees
      /\ loop \in BOOLEAN /\ random \in setup.random /\ news = {} /\ down = FALSE
      /\ UserInit
  BY DEF Init
<1>2. setup.kinds \subseteq {"list", "dir"} /\ setup.trees \subseteq [Dirs -> Seq(Items)]
      /\ setup.random \subseteq BOOLEAN /\ setup.calls \in Nat
  BY <1>1, MediaListsAssumption
<1>3. TreeOK
  BY <1>1, <1>2 DEF TreeOK
<1>4. PICK m \in NewMedia :
        m.kind \in setup.kinds /\ kind = m.kind /\ file = m.file /\ dir = m.dir
  BY DEF Init
<1>5. MediaOK(kind, file, dir)
  BY <1>3, <1>4, NewMediaIs
<1>6. UserTypeOK(Entries)
  BY <1>1 DEF UserInit, UserTypeOK
<1>7. kind \in setup.kinds
  BY <1>4, Zenon
<1>8. calls \in 0 .. setup.calls /\ random \in BOOLEAN
  BY <1>1, <1>2
<1>9. QED
  BY <1>1, <1>5, <1>6, <1>7, <1>8 DEF TypeInv

\* media_end, and _count_media
LEMMA DirEndIs ==
  ASSUME NEW w, DirOK(w)
  PROVE  /\ DirOK(DirEnd(w)) /\ DirEnd(w).path = <<>> /\ DirEnd(w).count = w.count
         /\ DirEnd(w).first = -1
<1>1. PICK p, c, i : w = [path |-> p, count |-> c, first |-> i] /\ c \in Nat
  BY DEF DirOK
<1>2. DirEnd(w) = [path |-> <<>>, count |-> c, first |-> -1] /\ w.count = c
  <2>1. PICK j : j = -1
    OBVIOUS
  <2>2. DirEnd(w) = [w EXCEPT !.path = <<>>, !.first = j]
    BY <2>1, Zenon DEF DirEnd
  <2>3. DirEnd(w) = [path |-> <<>>, count |-> c, first |-> j]
    BY <1>1, <2>2
  <2>4. QED
    BY <1>1, <2>1, <2>3
<1>3. PICK v : v = DirEnd(w) /\ v.path = <<>> /\ v.count = c /\ v.first = -1
               /\ v = [path |-> v.path, count |-> v.count, first |-> v.first]
  BY <1>2
<1>4. DirOK(v)
  BY <1>1, <1>3, NoPath DEF DirOK
<1>5. QED
  BY <1>2, <1>3, <1>4, Zenon

LEMMA RecountedIs ==
  ASSUME TreeOK, NEW w, DirOK(w)
  PROVE  DirOK(Recounted(w))
<1>1. PICK p, c, i : w = [path |-> p, count |-> c, first |-> i] /\ i \in Nat \cup {-1}
  BY DEF DirOK
<1>2. PICK n : n = Number /\ n \in Nat
  BY NumberIs
<1>3. Recounted(w) = [path |-> <<>>, count |-> n, first |-> i]
  <2>1. Recounted(w) = [w EXCEPT !.path = <<>>, !.count = n]
    BY <1>2, Zenon DEF Recounted
  <2>2. QED
    BY <1>1, <2>1
<1>4. PICK v : v = Recounted(w) /\ v.path = <<>> /\ v.count = n /\ v.first = i
               /\ v = [path |-> v.path, count |-> v.count, first |-> v.first]
  BY <1>3
<1>5. DirOK(v)
  BY <1>1, <1>2, <1>4, NoPath DEF DirOK
<1>6. QED
  BY <1>4, <1>5, Zenon

LEMMA TypeStep == TypeInv /\ [Next]_vars => TypeInv'
<1> SUFFICES ASSUME TypeInv, [Next]_vars PROVE TypeInv'
  OBVIOUS
<1>1. /\ TreeOK /\ src.id \in Nat \cup {-1} /\ setup \in Setups
      /\ setup.kinds \subseteq {"list", "dir"} /\ setup.random \subseteq BOOLEAN
      /\ setup.trees \subseteq [Dirs -> Seq(Items)] /\ setup.calls \in Nat
  BY TypeFacts
<1>2. /\ phase \in {"stop", "play", "playing", "change", "stopping"}
      /\ src \in Entries \cup {NoSource} /\ nextsrc \in Entries \cup {NoSource}
  BY DEF TypeInv, UserTypeOK
<1>3. /\ calls \in 0 .. setup.calls /\ tree \in setup.trees /\ kind \in setup.kinds
      /\ MediaOK(kind, file, dir) /\ loop \in BOOLEAN /\ random \in BOOLEAN
      /\ news \subseteq {"create", "delete"} /\ down \in BOOLEAN
  BY DEF TypeInv
<1> DEFINE
      SameMedia == UNCHANGED <<kind, file, dir>>
      SameRest == UNCHANGED <<tree, setup, calls, loop, random, news, down>>
      User2 == /\ phase' \in {"stop", "play", "playing", "change", "stopping"}
               /\ src' \in Entries \cup {NoSource} /\ nextsrc' \in Entries \cup {NoSource}
      Media2 == kind' \in setup.kinds /\ MediaOK(kind', file', dir')
      Rest2 == /\ setup' = setup /\ calls' \in 0 .. setup.calls /\ tree' \in setup.trees
               /\ loop' \in BOOLEAN /\ random' \in BOOLEAN
               /\ news' \subseteq {"create", "delete"} /\ down' \in BOOLEAN
<1>4. SUFFICES User2 /\ Media2 /\ Rest2
  BY <1>1 DEF TypeInv, UserTypeOK
<1>5. ASSUME UNCHANGED user PROVE User2
  BY <1>2, <1>5 DEF user
<1>6. ASSUME SameMedia PROVE Media2
  BY <1>3, <1>6
<1>7. ASSUME SameRest PROVE Rest2
  BY <1>3, <1>7
<1>8. ASSUME NEW name, Call(name) PROVE calls' \in 0 .. setup.calls /\ setup' = setup
  BY <1>1, <1>3, <1>8 DEF Call
<1>9. CASE Play
  <2>1. /\ kind' = kind /\ MediaOK(kind, file', dir') /\ src' = src
        /\ phase' \in {phase, "change", "playing"}
        /\ nextsrc' = nextsrc \/ nextsrc' \in Entries
        /\ down' \in {down, TRUE}
        /\ UNCHANGED <<tree, setup, calls, loop, random, news>>
    BY <1>9, PlayIs
  <2>2. QED
    BY <1>2, <1>3, <2>1
<1>10. CASE Stop
  <2>1. SameRest /\ kind' = kind /\ User2
    BY <1>2, <1>10 DEF Stop, EngineStop
  <2>2. MediaOK(kind, file', dir')
    <3>1. CASE kind = "list"
      <4>1. file' = FileEnd(file) /\ dir' = dir
        BY <1>10, <3>1 DEF Stop
      <4>2. QED
        BY <1>3, <4>1, FileEndIs DEF MediaOK
    <3>2. CASE kind # "list"
      <4>1. dir' = DirEnd(dir) /\ file' = file
        BY <1>10, <3>2 DEF Stop
      <4>2. DirOK(DirEnd(dir))
        BY <1>3, DirEndIs, Zenon DEF MediaOK
      <4>3. QED
        BY <1>3, <3>2, <4>1, <4>2, Zenon DEF MediaOK
    <3>3. QED
      BY <3>1, <3>2
  <2>3. QED
    BY <1>3, <1>7, <2>1, <2>2
<1>11. CASE Ask
  <2>1. SameMedia /\ SameRest
    BY <1>11 DEF Ask, media
  <2>2. User2
    BY <1>2, <1>11 DEF Ask, AskPlay, AskStop
  <2>3. QED
    BY <1>6, <1>7, <2>1, <2>2
<1>12. CASE Change
  <2>1. SameMedia /\ SameRest
    BY <1>12 DEF Change, media
  <2>2. User2
    BY <1>2, <1>12 DEF Change, Over, EngineChange
  <2>3. QED
    BY <1>6, <1>7, <2>1, <2>2
<1>13. CASE Insert
  <2>1. UNCHANGED <<user, tree, kind, dir, loop, random, news, down>> /\ kind = "list"
        /\ calls' \in 0 .. setup.calls /\ setup' = setup
    BY <1>8, <1>13 DEF Insert
  <2>2. PICK u \in Urls : file' \in Entered(file, u)
    BY <1>13 DEF Insert
  <2>3. FileOK(file') /\ file'.list # <<>>
    BY <1>3, <2>2, EnteredIs DEF MediaOK
  <2>4. MediaOK(kind', file', dir')
    BY <1>3, <2>1, <2>3 DEF MediaOK
  <2>5. QED
    BY <1>3, <1>5, <2>1, <2>4
<1>14. CASE Loop
  <2>1. UNCHANGED <<user, tree, kind, file, dir, random, news, down>> /\ loop' \in BOOLEAN
        /\ calls' \in 0 .. setup.calls /\ setup' = setup
    BY <1>8, <1>14 DEF Loop
  <2>2. QED
    BY <1>3, <1>5, <2>1
<1>15. ASSUME NEW k, NEW f, NEW w, Changed(k, f, w) PROVE User2 /\ down' \in BOOLEAN
  BY <1>2, <1>3, <1>15 DEF Changed
<1>16. CASE Options
  <2>1. UNCHANGED <<tree, news>> /\ loop' \in BOOLEAN /\ random' \in BOOLEAN
        /\ PlayerChange(Media(kind, file, dir))
        /\ calls' \in 0 .. setup.calls /\ setup' = setup
    BY <1>1, <1>8, <1>16 DEF Options
  <2>2. Changed(kind, file, Ready(kind, dir, random'))
    BY <1>1, <1>3, <2>1, PlayerChangeIs, Zenon
  <2>3. kind' = kind /\ MediaOK(kind, file', dir')
    BY <2>2, Zenon DEF Changed
  <2>4. QED
    BY <1>3, <1>15, <2>1, <2>2, <2>3
<1>17. CASE ChangeMedia
  <2>1. tree' = tree /\ news' = {} /\ loop' \in BOOLEAN /\ random' \in BOOLEAN
        /\ calls' \in 0 .. setup.calls /\ setup' = setup
    BY <1>1, <1>8, <1>17 DEF ChangeMedia
  <2>2. PICK m \in NewMedia : m.kind \in setup.kinds /\ PlayerChange(m)
    BY <1>17 DEF ChangeMedia
  <2>3. PICK k, f, w : k = m.kind /\ m = Media(k, f, w) /\ MediaOK(k, f, w)
    BY <1>1, NewMediaIs, Zenon
  <2>4. Changed(k, f, Ready(k, w, random'))
    <3>1. PlayerChange(Media(k, f, w))
      BY <2>2, <2>3
    <3>2. QED
      BY <1>1, <2>3, <3>1, PlayerChangeIs, Zenon
  <2>5. kind' = k /\ MediaOK(k, file', dir')
    BY <2>4, Zenon DEF Changed
  <2>6. QED
    BY <1>3, <1>15, <2>1, <2>2, <2>3, <2>4, <2>5
<1>18. CASE Touch
  <2>1. UNCHANGED <<user, media, down>> /\ tree' \in setup.trees
        /\ news' \subseteq {"create", "delete"}
        /\ calls' \in 0 .. setup.calls /\ setup' = setup
    BY <1>3, <1>8, <1>18 DEF Touch
  <2>2. QED
    BY <1>3, <1>5, <2>1 DEF media
<1>19. CASE Survey
  <2>1. UNCHANGED <<tree, setup, calls, kind, file, loop, random, down>>
        /\ news' \subseteq {"create", "delete"} /\ kind = "dir"
    BY <1>3, <1>19 DEF Survey
  <2>2. User2
    <3>1. UNCHANGED user \/ AskPlay \/ AskStop
      BY <1>19 DEF Survey
    <3>2. QED
      BY <1>2, <1>5, <3>1 DEF AskPlay, AskStop
  <2>3. DirOK(dir')
    <3>1. dir' = dir \/ dir' = Recounted(dir) \/ dir' = DirEnd(Recounted(dir))
      BY <1>19 DEF Survey
    <3>2. DirOK(dir) /\ DirOK(Recounted(dir)) /\ DirOK(DirEnd(Recounted(dir)))
      BY <1>1, <1>3, RecountedIs, DirEndIs, Zenon DEF MediaOK
    <3>3. QED
      BY <3>1, <3>2
  <2>4. MediaOK(kind', file', dir')
    BY <1>3, <2>1, <2>3 DEF MediaOK
  <2>5. QED
    BY <1>3, <2>1, <2>2, <2>4
<1>20. CASE UNCHANGED vars
  BY <1>3, <1>5, <1>20 DEF vars, media
<1>21. QED
  BY <1>9, <1>10, <1>11, <1>12, <1>13, <1>14, <1>16, <1>17, <1>18, <1>19, <1>20 DEF Next

LEMMA TypeAlways == Spec => []TypeInv
BY TypeInit, TypeStep, PTL DEF Spec

\* The variables have their types, whatever the media, the trees and the calls: an
\* entry of a list always has a number of its own (media_insert and media_append),
\* the current one is an entry of the list, and the path of a walk that media_next
\* left is one.
THEOREM TypeCorrect == Spec => []TypeOK
BY TypeAlways, TypeInvImplies, PTL

-----------------------------------------------------------------------------
(* Walks from the root and walks taken up again                            *)

LEMMA WalksAgreeInv == TypeInv => WalksAgree
<1> SUFFICES ASSUME TypeInv, NEW id \in 0 .. Len(Order)
             PROVE  LET s == Find(From(<<>>, 0, dir.count), id) IN
                    /\ s.ret = 0 <=> id < Len(Order)
                    /\ s.ret = 0 => s.n = id /\ At(s.path) = Order[id + 1]
                    /\ dir.path # <<>> /\ IsFresh(dir.path) /\ Before(dir.path) <= id =>
                         LET again == Find(From(dir.path, Before(dir.path), dir.count), id) IN
                         again.n = s.n /\ again.path = s.path
  BY DEF WalksAgree
<1>1. TreeOK /\ dir.count \in Nat /\ Placed(dir.path) /\ Len(Order) \in Nat
  BY TypeFacts, OrderType, Zenon DEF TypeInv, MediaOK, DirOK
<1>2. PICK i \in Int : i = id
  BY <1>1
<1>3. PICK s : s = From(<<>>, 0, dir.count) /\ Begins(s, <<>>, 0, dir.count)
  BY <1>1, FromIs, NoPath
<1>4. FromRoot(Find(s, i), i)
  BY <1>1, <1>3, RootFinds DEF Begins
<1>5. i \in 0 .. Len(Order) - 1 <=> i < Len(Order)
  BY <1>1, <1>2
<1>6. /\ Find(s, i).ret = 0 <=> i < Len(Order)
      /\ Find(s, i).ret = 0 => Find(s, i).n = i /\ At(Find(s, i).path) = Order[i + 1]
  BY <1>4, <1>5 DEF FromRoot
<1>7. ASSUME dir.path # <<>>, IsFresh(dir.path), Before(dir.path) <= i
      PROVE  /\ Find(From(dir.path, Before(dir.path), dir.count), i).n = Find(s, i).n
             /\ Find(From(dir.path, Before(dir.path), dir.count), i).path = Find(s, i).path
  <2>1. Here(dir.path) /\ dir.path \in Paths
    BY <1>1, <1>7 DEF Here, Placed
  <2>2. Before(dir.path) \in Int
    BY <1>1, <2>1, HereInOrder DEF InOrder
  <2>3. From(dir.path, Before(dir.path), dir.count)
          = Walk(dir.path, Before(dir.path), -2, dir.count)
    BY <1>1, <1>7, <2>1, <2>2, FromIs DEF Begins
  <2>4. s = Walk(<<Frame(Root)>>, 0, -2, dir.count)
    BY <1>3 DEF Begins
  <2>5. QED
    BY <1>1, <1>7, <2>1, <2>3, <2>4, FindThrough
<1>8. QED
  BY <1>2, <1>3, <1>6, <1>7, Zenon

\* For every tree, _find finds the media by their numbers in the order of the tree,
\* and a walk that media_next left and that is taken up again finds the same ones as
\* the walk from the root that media_find makes.
THEOREM WalksAgreeAlways == Spec => []WalksAgree
BY TypeAlways, WalksAgreeInv, PTL

-----------------------------------------------------------------------------
(* media_next returns                                                      *)

LEMMA TreeStays ==
  ASSUME tree' = tree
  PROVE  /\ EndsWithMedia' <=> EndsWithMedia
         /\ Order' = Order
BY DEF EndsWithMedia, Order, FilesAmong, FilesBelow, ItemFiles

LEMMA ReturnsInit == Init => NextReturns
BY DEF Init, NextReturns

LEMMA ReturnsStep == TypeInv /\ NextReturns /\ [Next]_vars => NextReturns'
<1> SUFFICES ASSUME TypeInv, NextReturns, [Next]_vars, down'
             PROVE  kind' = "dir" /\ loop' /\ ~EndsWithMedia'
  BY DEF NextReturns
<1>1. TreeOK /\ src.id \in Nat \cup {-1} /\ MediaOK(kind, file, dir) /\ down \in BOOLEAN
  BY TypeFacts DEF TypeInv
<1>2. CASE Play
  <2>1. down' = TRUE /\ ~down => kind = "dir" /\ loop /\ ~EndsWithMedia
    BY <1>2, PlayIs
  <2>2. ~down /\ kind' = kind /\ loop' = loop /\ tree' = tree
    BY <1>2, PlayIs DEF Play
  <2>3. QED
    BY <2>1, <2>2, TreeStays
<1>3. ASSUME NEW k, NEW f, NEW w, MediaOK(k, f, w), PlayerChange(Media(k, f, w)), ~down,
             tree' = tree
      PROVE  kind' = "dir" /\ loop' /\ ~EndsWithMedia'
  <2>1. Changed(k, f, Ready(k, w, random'))
    BY <1>1, <1>3, PlayerChangeIs, Zenon
  <2>2. kind' = k /\ k = "dir" /\ loop' /\ ~EndsWithMedia
    BY <1>3, <2>1 DEF Changed
  <2>3. QED
    BY <1>3, <2>2, TreeStays
<1>4. CASE Options
  <2>1. PlayerChange(Media(kind, file, dir)) /\ ~down /\ tree' = tree
    BY <1>4 DEF Options, Call
  <2>2. QED
    BY <1>1, <1>3, <2>1
<1>5. CASE ChangeMedia
  <2>1. ~down /\ tree' = tree
    BY <1>5 DEF ChangeMedia, Call
  <2>2. PICK m \in NewMedia : PlayerChange(m)
    BY <1>5 DEF ChangeMedia
  <2>3. PICK k, f, w : m = Media(k, f, w) /\ MediaOK(k, f, w)
    BY <1>1, NewMediaIs, Zenon
  <2>4. PlayerChange(Media(k, f, w))
    BY <2>2, <2>3
  <2>5. QED
    BY <1>3, <2>1, <2>3, <2>4
<1>6. CASE Stop \/ Ask \/ Change \/ Insert \/ Loop \/ Touch \/ Survey
  <2>1. ~down /\ down' = down
    BY <1>6 DEF Stop, Ask, Change, Insert, Loop, Touch, Survey, Call
  <2>2. QED
    BY <2>1
<1>7. CASE UNCHANGED vars
  <2>1. down' = down /\ kind' = kind /\ loop' = loop /\ tree' = tree
    BY <1>7 DEF vars, media
  <2>2. QED
    BY <2>1, TreeStays DEF NextReturns
<1>8. QED
  BY <1>2, <1>4, <1>5, <1>6, <1>7 DEF Next

\* media_next of a directory calls itself for ever only with the option loop, and when
\* the last file of the directory is no media: in every other case it returns, at
\* random too, and after the directory has changed.
THEOREM NextReturnsAlways == Spec => []NextReturns
<1>1. TypeInv /\ NextReturns /\ [Next]_vars => (TypeInv /\ NextReturns)'
  BY TypeStep, ReturnsStep, Zenon
<1>2. QED
  BY <1>1, TypeInit, ReturnsInit, PTL DEF Spec

-----------------------------------------------------------------------------
(* The order                                                               *)

Undisturbed == setup.may \cap {"options", "change"} = {}

\* What media_next left, when the last entry that it gave has this number: a walk at
\* one of the media, which is beyond that entry only when the media was asked for it
\* more than once.
Left(w, latest) ==
  w.path # <<>> => /\ Here(w.path) /\ AtMedia(w.path) /\ Before(w.path) >= latest
                   /\ Undisturbed => Before(w.path) = latest

\* The media before the item of a walk, and after the source when there is none
Behind(w, playing) == IF w.path = <<>> THEN playing ELSE Before(w.path)

\* One call of _find for the number after that of the source
Follows(w, playing, a) ==
  /\ a.id = playing + 1 /\ a.w.count >= w.count
  /\ a.w.path # <<>> => /\ Here(a.w.path) /\ AtMedia(a.w.path) /\ a.id < Len(Order)
                        /\ Before(a.w.path) = Behind(w, playing) + 1
  /\ a.w.path = <<>> => Len(Order) = Behind(w, playing) + 1
  /\ a.w.first = w.first \/ (a.w.first = a.id /\ a.id < Len(Order) /\ a.ret = 0)
  /\ a.ret = -1 => \/ w.first = a.id
                   \/ a.w.path = <<>> /\ a.w.first = w.first /\ (w.path # <<>> => ~EndsWithMedia)

LEMMA FollowsIs ==
  ASSUME TreeOK, NEW w, DirOK(w), NEW playing \in -1 .. Len(Order) - 1,
         w.path # <<>> => Here(w.path) /\ AtMedia(w.path) /\ Before(w.path) >= playing,
         NEW a, Tried(w, playing, playing + 1, a)
  PROVE  Follows(w, playing, a)
<1> DEFINE id == playing + 1
<1>1. /\ Len(Order) \in Nat /\ playing \in Int /\ id \in Int
      /\ ~(id < playing) /\ id \in 0 .. Len(Order)
  BY OrderType
<1>2. PICK s \in Walks, u \in Walks, p \in Paths :
        /\ p = w.path /\ Begins(s, p, playing, w.count)
        /\ u = Find(s, id) /\ Ended(s, u, id)
        /\ a.w.path = u.path /\ a.w.count = u.count /\ a.id = u.n
        /\ a.ret = (IF w.first = u.n THEN -1 ELSE u.ret)
        /\ a.w.first = (IF a.ret = 0 /\ w.first = -1 THEN u.n ELSE w.first)
        /\ a.w.count >= w.count
  BY <1>1 DEF Tried
<1>3. s.ret = -2 /\ (u.path = <<>> <=> u.ret # 0)
  BY <1>2 DEF Begins, Ended
<1>4. CASE w.path = <<>>
  <2>1. s.path = <<Frame(Root)>> /\ s.n = 0
    BY <1>2, <1>4 DEF Begins
  <2>2. FromRoot(u, id)
    BY <1>1, <1>2, <1>3, <2>1, RootFinds
  <2>3. Behind(w, playing) = playing
    BY <1>4 DEF Behind
  <2>4. CASE id < Len(Order)
    <3>1. u.ret = 0 /\ u.n = id /\ Here(u.path) /\ AtMedia(u.path) /\ Before(u.path) = id
      BY <1>1, <2>2, <2>4 DEF FromRoot
    <3>2. u.path # <<>>
      BY <1>3, <3>1
    <3>3. QED
      BY <1>1, <1>2, <2>3, <2>4, <3>1, <3>2 DEF Follows
  <2>5. CASE ~(id < Len(Order))
    <3>1. u.ret # 0 /\ u.n = id /\ u.path = <<>> /\ Len(Order) = id
      BY <1>1, <2>2, <2>5 DEF FromRoot
    <3>2. QED
      BY <1>1, <1>2, <1>4, <2>3, <3>1 DEF Follows
  <2>6. QED
    BY <2>4, <2>5
<1>5. CASE w.path # <<>>
  <2>1. s.path = w.path /\ s.n = playing /\ Here(s.path)
    BY <1>2, <1>5 DEF Begins
  <2>2. Finds(s, u, id) /\ Refuses(s, u) /\ InOrder(s.path)
    BY <1>1, <1>2, <2>1, FindFresh, FindRefuses, HereInOrder, Zenon
  <2>3. /\ Before(w.path) \in Nat /\ Before(w.path) < Len(Order)
        /\ Behind(w, playing) = Before(w.path) /\ Before(w.path) >= playing
    BY <1>5, <2>1, <2>2 DEF InOrder, Behind
  <2>4. CASE 1 < Len(Order) - Before(w.path)
    <3>1. Here(u.path) /\ AtMedia(u.path) /\ Before(u.path) = Before(w.path) + 1
      BY <1>1, <2>1, <2>2, <2>3, <2>4 DEF Finds
    <3>2. u.path # <<>> /\ u.ret = 0 /\ u.n = id
      BY <1>2, <3>1 DEF Here, Ended
    <3>3. id < Len(Order)
      BY <1>1, <2>3, <2>4
    <3>4. QED
      BY <1>1, <1>2, <2>3, <3>1, <3>2, <3>3 DEF Follows
  <2>5. CASE ~(1 < Len(Order) - Before(w.path))
    <3>1. u.path = <<>> /\ u.n = id /\ Len(Order) = Before(w.path) + 1 /\ u.ret # 0
      BY <1>1, <1>3, <2>1, <2>2, <2>3, <2>5 DEF Finds
    <3>2. ASSUME u.ret = -1 PROVE ~EndsWithMedia
      <4>1. Last(Whole(All)) \in Others
        BY <1>3, <2>1, <2>2, <3>1, <3>2 DEF Refuses
      <4>2. QED
        BY <4>1, MediaDirAssumption DEF EndsWithMedia, Whole, All
    <3>3. QED
      BY <1>1, <1>2, <2>3, <3>1, <3>2 DEF Follows
  <2>6. QED
    BY <2>4, <2>5
<1>6. QED
  BY <1>4, <1>5

\* What media_next returns from follows the walk it began with, or none.
LEMMA OutcomeFollows ==
  ASSUME TreeOK, NEW w, DirOK(w), NEW playing \in -1 .. Len(Order) - 1, w.count >= Len(Order),
         w.path # <<>> => Here(w.path) /\ AtMedia(w.path) /\ Before(w.path) >= playing,
         NEW lp, NEW rand, ~rand, NEW a \in Outcomes(w, lp, rand, playing)
  PROVE  /\ a.w.count >= Len(Order)
         /\ \E v : Follows(v, playing, a) /\ (v = w \/ (v.path = <<>> /\ v.first = w.first))
<1>1. Len(Order) \in Nat /\ playing \in Int /\ playing \in Nat \cup {-1} /\ w.count \in Nat
  BY OrderType DEF DirOK
<1>2. ASSUME NEW v, DirOK(v), v.count >= Len(Order),
             v.path # <<>> => Here(v.path) /\ AtMedia(v.path) /\ Before(v.path) >= playing,
             NEW b \in Attempts(v, rand, playing)
      PROVE  Follows(v, playing, b) /\ b.w.count >= Len(Order)
  <2>1. PICK id \in Nat : id \in Targets(v, rand, playing) /\ Tried(v, playing, id, b)
    BY <1>1, <1>2, AttemptsIs, Zenon
  <2>2. v.count \in Nat /\ playing + 1 <= v.count
    BY <1>1, <1>2 DEF DirOK
  <2>3. id = playing + 1
    BY <1>1, <2>1, <2>2, TargetsIs
  <2>4. Follows(v, playing, b)
    BY <1>2, <2>1, <2>3, FollowsIs
  <2>5. DirOK(b.w)
    BY <2>1, TriedType, Zenon
  <2>6. QED
    BY <1>1, <1>2, <2>2, <2>4, <2>5 DEF Follows, DirOK
<1>3. ASSUME NEW u, DirOK(u), u.count >= Len(Order),
             u.path # <<>> => Here(u.path) /\ AtMedia(u.path) /\ Before(u.path) >= playing,
             NEW v, Retry(u, rand, playing, lp, v)
      PROVE  DirOK(v) /\ v.count >= Len(Order) /\ v.path = <<>> /\ v.first = u.first
  <2>1. PICK b \in Attempts(u, rand, playing) : v = b.w /\ Again(b, lp)
    BY <1>3, Zenon DEF Retry
  <2>2. Follows(u, playing, b) /\ v.count >= Len(Order)
    BY <1>2, <1>3, <2>1
  <2>3. b.ret = -1 /\ b.w.first # b.id
    BY <2>1, Zenon DEF Again
  <2>4. v.path = <<>> /\ v.first = u.first
    BY <2>1, <2>2, <2>3 DEF Follows
  <2>5. DirOK(v)
    BY <1>1, <1>3, RetryIs, Zenon
  <2>6. QED
    BY <2>2, <2>4, <2>5
<1>4. PICK v, b : /\ DirOK(v) /\ b \in Attempts(v, rand, playing) /\ Counting(b, a)
                  /\ \/ v = w
                     \/ Retry(w, rand, playing, lp, v)
                     \/ \E u : DirOK(u) /\ Retry(w, rand, playing, lp, u)
                               /\ Retry(u, rand, playing, lp, v)
  BY <1>1, OutcomesIs, Zenon
<1>5. /\ v.count >= Len(Order)
      /\ v = w \/ (v.path = <<>> /\ v.first = w.first)
  <2>1. CASE v = w
    BY <2>1
  <2>2. CASE Retry(w, rand, playing, lp, v)
    BY <1>3, <2>2
  <2>3. ASSUME NEW u, Retry(w, rand, playing, lp, u), Retry(u, rand, playing, lp, v)
        PROVE  v.count >= Len(Order) /\ v.path = <<>> /\ v.first = w.first
    <3>1. DirOK(u) /\ u.count >= Len(Order) /\ u.path = <<>> /\ u.first = w.first
      BY <1>3, <2>3
    <3>2. QED
      BY <1>3, <2>3, <3>1
  <2>4. QED
    BY <1>4, <2>1, <2>2, <2>3
<1>6. Follows(v, playing, b) /\ b.w.count >= Len(Order)
  BY <1>2, <1>4, <1>5
<1>7. DirOK(b.w) /\ DirOK(v)
  BY <1>1, <1>4, AttemptsIs, TriedType, Zenon
<1>8. a.w.count >= b.w.count /\ a.w.count \in Nat /\ b.w.count \in Nat /\ v.count \in Nat
  BY <1>4, <1>7 DEF Counting, DirOK
<1>9. a.w.count >= Len(Order) /\ a.w.count >= v.count
  BY <1>1, <1>6, <1>8 DEF Follows
<1>10. Follows(v, playing, a)
  <2>1. a.id = b.id /\ a.ret = b.ret /\ a.w.path = b.w.path /\ a.w.first = b.w.first
    BY <1>4 DEF Counting
  <2>2. QED
    BY <1>6, <1>9, <2>1 DEF Follows
<1>11. QED
  BY <1>5, <1>9, <1>10, Zenon

\* The entries of the player, and what the walk that media_next left has to do with
\* them.
Entry(i) == [id |-> i, url |-> Order[i + 1]]
Prepared(s, n) == n = NoSource \/ (s.id + 1 < Len(Order) /\ n = Entry(s.id + 1))
Latest(s, n) == IF n = NoSource THEN s.id ELSE s.id + 1

Keeps(ph, s, n, w) ==
  /\ s.id \in -1 .. Len(Order) - 1 /\ Prepared(s, n)
  /\ w.count >= Len(Order)
  /\ ph # "stopping" => Left(w, Latest(s, n)) /\ w.first <= Latest(s, n)
  /\ ph = "stop" => w.path = <<>> /\ w.first = -1 /\ s = NoSource /\ n = NoSource
  /\ ph = "play" /\ Undisturbed => n = NoSource
  /\ ph \in {"playing", "change"} /\ n = NoSource /\ s # NoSource => s.id + 1 = Len(Order)

\* What is prepared when media_next and media_play were called, and how they leave
\* the walk
Asked(s, m, v) ==
  /\ Prepared(s, m) /\ v.count >= Len(Order)
  /\ Left(v, Latest(s, m)) /\ v.first <= Latest(s, m)
  /\ m = NoSource => s.id + 1 = Len(Order)

LEMMA AskedIs ==
  ASSUME TreeOK, EndsWithMedia \/ Undisturbed,
         NEW s, s.id \in -1 .. Len(Order) - 1, NEW n, Prepared(s, n), Undisturbed => n = NoSource,
         NEW w, DirOK(w), w.count >= Len(Order), Left(w, Latest(s, n)), w.first <= Latest(s, n),
         NEW lp, NEW rand, ~rand, NEW a \in Outcomes(w, lp, rand, s.id), DirOK(a.w),
         NEW x \in OrNone(DirFound(a.w, Returned(a, lp)))
  PROVE  Asked(s, IF x = NoSource THEN n ELSE x, a.w)
<1> DEFINE m == IF x = NoSource THEN n ELSE x
<1>1. PICK i \in -1 .. Len(Order) - 1 : i = s.id
  OBVIOUS
<1>2. /\ Len(Order) \in Nat /\ i \in Int /\ w.first \in Int /\ NoSource.id = -1
      /\ Latest(s, n) \in {i, i + 1} /\ (n = NoSource => Latest(s, n) = i)
      /\ Undisturbed => Latest(s, n) = i
  BY <1>1, OrderType DEF DirOK, Latest, NoSource
<1>3. w.path # <<>> => /\ Here(w.path) /\ AtMedia(w.path) /\ Before(w.path) >= i
                       /\ Before(w.path) \in Nat
                       /\ Undisturbed => Before(w.path) = i
  <2>1. w.path # <<>> => Here(w.path) /\ InOrder(w.path)
    BY HereInOrder, Zenon DEF Left
  <2>2. QED
    BY <1>2, <2>1 DEF Left, InOrder
<1>4. a.w.count >= Len(Order)
      /\ \E v : Follows(v, i, a) /\ (v = w \/ (v.path = <<>> /\ v.first = w.first))
  BY <1>1, <1>3, OutcomeFollows
<1>5. PICK v : Follows(v, i, a) /\ (v = w \/ (v.path = <<>> /\ v.first = w.first))
  BY <1>4
<1>6. PICK b : b = Behind(v, i)
  OBVIOUS
<1>7. /\ b \in Int /\ b >= i /\ (Undisturbed => b = i) /\ (v.path = <<>> => b = i)
      /\ v.first = w.first
  BY <1>2, <1>3, <1>5, <1>6 DEF Behind
<1>8. /\ a.id = i + 1 /\ i + 1 <= Len(Order)
      /\ a.w.path # <<>> => Here(a.w.path) /\ AtMedia(a.w.path) /\ i + 1 < Len(Order)
                            /\ Before(a.w.path) = b + 1
      /\ a.w.path = <<>> => Len(Order) = b + 1
      /\ a.w.first = w.first \/ (a.w.first = i + 1 /\ i + 1 < Len(Order) /\ a.ret = 0)
      /\ a.ret = -1 => w.first = i + 1 \/ (a.w.path = <<>> /\ (v.path # <<>> => ~EndsWithMedia))
  BY <1>1, <1>2, <1>5, <1>6, <1>7 DEF Follows
<1>9. Entry(i + 1).id = i + 1 /\ Entry(i + 1) # NoSource
  BY <1>2 DEF Entry, NoSource
<1>10. /\ x = NoSource \/ (i + 1 < Len(Order) /\ x = Entry(i + 1))
       /\ x = NoSource => i + 1 = Len(Order) \/ (a.ret = -1 /\ ~lp)
  <2>1. Returned(a, lp) = IF a.ret = -1 /\ ~lp THEN -1 ELSE i + 1
    BY <1>8 DEF Returned
  <2>2. CASE a.ret = -1 /\ ~lp
    <3>1. Returned(a, lp) \in Int /\ Returned(a, lp) \notin 0 .. Len(Order) - 1 /\ a.w.count \in Nat
      BY <2>1, <2>2 DEF DirOK
    <3>2. DirFound(a.w, Returned(a, lp)) = {}
      BY <3>1, DirFoundIs
    <3>3. QED
      BY <2>2, <3>2 DEF OrNone
  <2>3. CASE ~(a.ret = -1 /\ ~lp)
    <3>1. Returned(a, lp) = i + 1 /\ a.w.count \in Nat /\ i + 1 \in Int
      BY <1>2, <2>1, <2>3 DEF DirOK
    <3>2. DirFound(a.w, i + 1) = IF i + 1 \in 0 .. Len(Order) - 1 THEN {Entry(i + 1)} ELSE {}
      BY <3>1, DirFoundIs, Zenon DEF Entry
    <3>3. CASE i + 1 < Len(Order)
      <4>1. DirFound(a.w, i + 1) = {Entry(i + 1)}
        BY <1>2, <3>2, <3>3
      <4>2. x = Entry(i + 1)
        BY <3>1, <4>1 DEF OrNone
      <4>3. QED
        BY <1>9, <3>3, <4>2
    <3>4. CASE ~(i + 1 < Len(Order))
      <4>1. DirFound(a.w, i + 1) = {}
        BY <1>2, <3>2, <3>4
      <4>2. x = NoSource
        BY <3>1, <4>1 DEF OrNone
      <4>3. QED
        BY <1>2, <1>8, <3>4, <4>2
    <3>5. QED
      BY <3>3, <3>4
  <2>4. QED
    BY <2>2, <2>3
<1>11. ASSUME m = NoSource PROVE i + 1 = Len(Order)
  <2>1. x = NoSource /\ n = NoSource
    BY <1>11
  <2>2. w.first <= i
    BY <1>2, <2>1
  <2>3. CASE a.ret = -1
    <3>1. a.w.path = <<>> /\ (v.path # <<>> => ~EndsWithMedia)
      BY <1>2, <1>8, <2>2, <2>3
    <3>2. b = i
      BY <1>7, <3>1
    <3>3. QED
      BY <1>8, <3>1, <3>2
  <2>4. QED
    BY <1>10, <2>1, <2>3
<1>12. Prepared(s, m) /\ Latest(s, m) = (IF m = NoSource THEN i ELSE i + 1)
  BY <1>1, <1>10 DEF Prepared, Latest
<1>13. a.w.first <= Latest(s, m)
  <2>1. CASE i + 1 < Len(Order)
    BY <1>2, <1>8, <1>11, <1>12, <2>1
  <2>2. CASE ~(i + 1 < Len(Order))
    <3>1. a.w.first = w.first
      BY <1>8, <2>2
    <3>2. m = NoSource => n = NoSource
      OBVIOUS
    <3>3. QED
      BY <1>2, <1>12, <3>1, <3>2
  <2>3. QED
    BY <2>1, <2>2
<1>14. Left(a.w, Latest(s, m))
  <2>1. ASSUME a.w.path # <<>>
        PROVE  /\ Here(a.w.path) /\ AtMedia(a.w.path) /\ Before(a.w.path) >= Latest(s, m)
               /\ Undisturbed => Before(a.w.path) = Latest(s, m)
    <3>1. Latest(s, m) = i + 1
      BY <1>2, <1>8, <1>11, <1>12, <2>1
    <3>2. QED
      BY <1>2, <1>7, <1>8, <2>1, <3>1
  <2>2. QED
    BY <2>1 DEF Left
<1>15. QED
  BY <1>1, <1>4, <1>11, <1>12, <1>13, <1>14 DEF Asked

QuietInv ==
  Quiet => kind = "dir" /\ ~random /\ news = {} /\ Keeps(phase, src, nextsrc, dir)

LEMMA KeepsStays ==
  ASSUME tree' = tree, setup' = setup
  PROVE  Keeps(phase, src, nextsrc, dir)' <=> Keeps(phase', src', nextsrc', dir')
<1>1. Order' = Order
  BY TreeStays
<1>2. Here(dir.path)' <=> Here(dir'.path)
  BY DEF Here, Placed, IsFresh
<1>3. Before(dir.path)' = Before(dir'.path)
  BY DEF Before, FilesAmong, FilesBelow, ItemFiles
<1>4. AtMedia(dir.path)' <=> AtMedia(dir'.path)
  BY DEF AtMedia, AtItem, At
<1>5. Latest(src, nextsrc)' = Latest(src', nextsrc')
  BY DEF Latest
<1>6. Left(dir, Latest(src, nextsrc))' <=> Left(dir', Latest(src', nextsrc'))
  BY <1>2, <1>3, <1>4, <1>5 DEF Left, Undisturbed
<1>7. Prepared(src, nextsrc)' <=> Prepared(src', nextsrc')
  BY <1>1 DEF Prepared, Entry
<1>8. QED
  BY <1>1, <1>5, <1>6, <1>7 DEF Keeps, Undisturbed

LEMMA QuietInit == Init => QuietInv
<1> SUFFICES ASSUME Init, Quiet
             PROVE  kind = "dir" /\ ~random /\ news = {} /\ Keeps(phase, src, nextsrc, dir)
  BY DEF QuietInv
<1>1. TypeInv
  BY TypeInit
<1>2. TreeOK /\ Len(Order) \in Nat
  BY <1>1, TypeFacts, OrderType, Zenon
<1>3. setup.kinds = {"dir"} /\ setup.random = {FALSE}
  BY DEF Quiet
<1>4. ~random /\ news = {} /\ phase = "stop" /\ src = NoSource /\ nextsrc = NoSource
  BY <1>3 DEF Init, UserInit
<1>5. PICK m \in NewMedia : m.kind \in setup.kinds /\ kind = m.kind /\ file = m.file /\ dir = m.dir
  BY DEF Init
<1>6. kind = "dir" /\ dir.path = <<>> /\ dir.count = Len(Order) /\ dir.first = -1
  BY <1>2, <1>3, <1>5, NewMediaIs
<1>7. NoSource.id = -1
  BY DEF NoSource
<1>8. Left(dir, Latest(src, nextsrc)) /\ Latest(src, nextsrc) = -1
  BY <1>4, <1>6, <1>7 DEF Left, Latest
<1>9. Keeps(phase, src, nextsrc, dir)
  BY <1>2, <1>4, <1>6, <1>7, <1>8 DEF Keeps, Prepared
<1>10. QED
  BY <1>4, <1>6, <1>9

\* The media given or its options: the walk is none, or the one that was left.
LEMMA QuietChanged ==
  ASSUME TypeInv, Quiet, ~Undisturbed, Keeps(phase, src, nextsrc, dir), random' = FALSE,
         NEW f, NEW w, DirOK(w), w.count >= Len(Order), w.first = -1,
         w.path = <<>> \/ w.path = dir.path, Changed("dir", f, w)
  PROVE  Keeps(phase', src', nextsrc', dir')
<1>1. /\ TreeOK /\ Len(Order) \in Nat /\ src.id \in -1 .. Len(Order) - 1 /\ Prepared(src, nextsrc)
      /\ phase' = phase /\ src' = src
  BY TypeFacts, OrderType DEF Keeps, Changed
<1>2. PICK l \in Int : l = Latest(src, nextsrc) /\ l >= -1
  BY <1>1 DEF Latest
<1>3. ASSUME phase # "stopping" PROVE Left(w, l)
  <2>1. Left(dir, l)
    BY <1>2, <1>3 DEF Keeps
  <2>2. QED
    BY <2>1 DEF Left
<1>4. CASE dir' = w /\ nextsrc' = nextsrc
  <2>1. phase = "stop" => w.path = <<>> /\ src = NoSource /\ nextsrc = NoSource
    BY DEF Keeps
  <2>2. phase \in {"playing", "change"} /\ nextsrc = NoSource /\ src # NoSource =>
          src.id + 1 = Len(Order)
    BY DEF Keeps
  <2>3. QED
    BY <1>1, <1>2, <1>3, <1>4, <2>1, <2>2 DEF Keeps
<1>5. ASSUME phase \notin {"stop", "stopping"},
             NEW a \in Outcomes(w, loop', random', src.id), NEW x,
             dir' = a.w, x \in OrNone(DirFound(a.w, Returned(a, loop'))), Prepare(x)
      PROVE  Keeps(phase', src', nextsrc', dir')
  <2>1. DirOK(a.w)
    BY <1>5 DEF Changed, MediaOK
  <2>2. EndsWithMedia
    BY DEF Quiet, Undisturbed
  <2>3. Left(w, Latest(src, nextsrc)) /\ w.first <= Latest(src, nextsrc)
    BY <1>2, <1>3, <1>5
  <2>4. Asked(src, IF x = NoSource THEN nextsrc ELSE x, a.w)
    BY <1>1, <1>5, <2>1, <2>2, <2>3, AskedIs
  <2>5. Asked(src, nextsrc', dir')
    BY <1>5, <2>4, Zenon DEF Prepare
  <2>6. QED
    BY <1>1, <1>5, <2>5 DEF Keeps, Asked
<1>6. QED
  BY <1>4, <1>5 DEF Changed

\* media_next in the state PLAY
LEMMA QuietPlay ==
  ASSUME TypeInv, Quiet, kind = "dir", ~random, Keeps(phase, src, nextsrc, dir), Play
  PROVE  Keeps(phase', src', nextsrc', dir')
<1>1. /\ TreeOK /\ Len(Order) \in Nat /\ src.id \in -1 .. Len(Order) - 1 /\ Prepared(src, nextsrc)
      /\ DirOK(dir)
  BY TypeFacts, OrderType DEF Keeps, TypeInv, MediaOK
<1>2. /\ MediaOK(kind, file', dir') /\ src' = src /\ phase = "play"
      /\ \/ phase' = phase /\ nextsrc' = nextsrc /\ dir' = dir
         \/ /\ phase' = (IF src = NoSource THEN "change" ELSE "playing")
            /\ \E a \in Outcomes(dir, loop, random, src.id) :
                 \E x \in OrNone(DirFound(a.w, Returned(a, loop))) : dir' = a.w /\ Prepare(x)
  BY PlayIs
<1>3. CASE phase' = phase /\ nextsrc' = nextsrc /\ dir' = dir
  <2>1. src' = src
    BY <1>2
  <2>2. QED
    BY <1>3, <2>1
<1>4. ASSUME phase' = (IF src = NoSource THEN "change" ELSE "playing"),
             NEW a \in Outcomes(dir, loop, random, src.id), NEW x,
             dir' = a.w, x \in OrNone(DirFound(a.w, Returned(a, loop))), Prepare(x)
      PROVE  Keeps(phase', src', nextsrc', dir')
  <2>1. DirOK(a.w) /\ (EndsWithMedia \/ Undisturbed)
    BY <1>2, <1>4 DEF MediaOK, Quiet, Undisturbed
  <2>2. /\ Left(dir, Latest(src, nextsrc)) /\ dir.first <= Latest(src, nextsrc)
        /\ Undisturbed => nextsrc = NoSource
        /\ dir.count >= Len(Order)
    BY <1>2 DEF Keeps
  <2>3. Asked(src, IF x = NoSource THEN nextsrc ELSE x, a.w)
    BY <1>1, <1>4, <2>1, <2>2, AskedIs
  <2>4. Asked(src, nextsrc', dir')
    BY <1>4, <2>3, Zenon DEF Prepare
  <2>5. QED
    BY <1>1, <1>2, <1>4, <2>4 DEF Keeps, Asked
<1>5. QED
  BY <1>2, <1>3, <1>4, Zenon

LEMMA QuietStep == TypeInv /\ QuietInv /\ [Next]_vars => QuietInv'
<1> SUFFICES ASSUME TypeInv, QuietInv, [Next]_vars, Quiet'
             PROVE  kind' = "dir" /\ ~random' /\ news' = {} /\ Keeps(phase, src, nextsrc, dir)'
  BY DEF QuietInv
<1>1. setup' = setup
  BY DEF Next, Play, Stop, Ask, Change, Insert, Loop, Options, ChangeMedia, Touch, Survey,
         Call, vars
<1>2. ~Touch
  BY <1>1 DEF Quiet, Touch, Call
<1>3. tree' = tree
  BY <1>2 DEF Next, Play, Stop, Ask, Change, Insert, Loop, Options, ChangeMedia, Survey, vars
<1>4. Quiet
  BY <1>1, <1>3, TreeStays DEF Quiet
<1>5. kind = "dir" /\ ~random /\ news = {} /\ Keeps(phase, src, nextsrc, dir)
  BY <1>4 DEF QuietInv
<1>6. /\ TreeOK /\ Len(Order) \in Nat /\ DirOK(dir) /\ MediaOK(kind, file, dir)
      /\ src.id \in -1 .. Len(Order) - 1 /\ src.id \in Nat \cup {-1} /\ NoSource.id = -1
  BY <1>5, TypeFacts, OrderType DEF Keeps, TypeInv, MediaOK, NoSource
<1>7. SUFFICES kind' = "dir" /\ ~random' /\ news' = {} /\ Keeps(phase', src', nextsrc', dir')
  BY <1>1, <1>3, KeepsStays
<1>8. setup.kinds = {"dir"} /\ setup.random = {FALSE}
  BY <1>4 DEF Quiet
<1>9. CASE Play
  <2>1. UNCHANGED <<random, news>> /\ kind' = kind
    BY <1>9, PlayIs
  <2>2. QED
    BY <1>4, <1>5, <1>9, <2>1, QuietPlay
<1>10. CASE Stop
  <2>1. /\ UNCHANGED <<kind, random, news>> /\ dir' = DirEnd(dir)
        /\ phase' = "stop" /\ src' = NoSource /\ nextsrc' = NoSource
    BY <1>5, <1>10 DEF Stop, EngineStop
  <2>2. dir'.path = <<>> /\ dir'.first = -1 /\ dir'.count = dir.count
    BY <1>6, <2>1, DirEndIs
  <2>3. Left(dir', Latest(src', nextsrc')) /\ Latest(src', nextsrc') = -1
    BY <1>6, <2>1, <2>2 DEF Left, Latest
  <2>4. QED
    BY <1>5, <1>6, <2>1, <2>2, <2>3 DEF Keeps, Prepared
<1>11. CASE Ask
  <2>1. UNCHANGED <<kind, random, news, dir, src, nextsrc>>
        /\ (phase' = "stopping" \/ (phase = "stop" /\ phase' = "play"))
    BY <1>11 DEF Ask, AskPlay, AskStop, media
  <2>2. QED
    BY <1>5, <2>1 DEF Keeps
<1>12. CASE Change
  <2>1. UNCHANGED <<kind, random, news, dir>>
    BY <1>12 DEF Change, media
  <2>2. CASE Over
    BY <1>5, <2>1, <2>2 DEF Over, Keeps
  <2>3. CASE EngineChange
    <3>1. /\ phase = "change" /\ src' = nextsrc /\ nextsrc' = NoSource
          /\ phase' = (IF nextsrc = NoSource THEN "stopping" ELSE "play")
      BY <2>3 DEF EngineChange
    <3>2. nextsrc.id \in -1 .. Len(Order) - 1
          /\ (nextsrc # NoSource => nextsrc.id = src.id + 1)
      BY <1>5, <1>6 DEF Keeps, Prepared, Entry
    <3>3. nextsrc # NoSource => Latest(src', nextsrc') = Latest(src, nextsrc)
      BY <3>1, <3>2 DEF Latest
    <3>4. QED
      BY <1>5, <2>1, <3>1, <3>2, <3>3 DEF Keeps, Prepared
  <2>4. QED
    BY <1>12, <2>2, <2>3 DEF Change
<1>13. CASE Insert
  BY <1>5, <1>13 DEF Insert
<1>14. CASE Loop
  BY <1>5, <1>14 DEF Loop, user
<1>15. CASE Options
  <2>1. UNCHANGED <<tree, news>> /\ PlayerChange(Media(kind, file, dir)) /\ random' = FALSE
        /\ ~Undisturbed
    BY <1>8, <1>15 DEF Options, Call, Undisturbed
  <2>2. Changed(kind, file, Ready(kind, dir, random'))
    BY <1>6, <2>1, PlayerChangeIs, Zenon
  <2>3. PICK w : w = DirRandom(dir, random')
    OBVIOUS
  <2>4. Changed("dir", file, w)
    BY <1>5, <2>2, <2>3, Zenon DEF Ready
  <2>5. DirOK(w) /\ w.path = dir.path /\ w.count >= Len(Order) /\ w.first = -1
    <3>1. /\ DirOK(w) /\ w.path = dir.path /\ w.count = dir.count
          /\ w.first = IF random' THEN dir.first ELSE -1
      BY <1>6, <2>3, DirRandomIs, Zenon
    <3>2. QED
      BY <1>5, <2>1, <3>1 DEF Keeps
  <2>6. Keeps(phase', src', nextsrc', dir')
    BY <1>4, <1>5, <2>1, <2>4, <2>5, QuietChanged
  <2>7. QED
    BY <1>5, <2>1, <2>4, <2>6 DEF Changed
<1>16. CASE ChangeMedia
  <2>1. news' = {} /\ random' = FALSE /\ ~Undisturbed
    BY <1>8, <1>16 DEF ChangeMedia, Call, Undisturbed
  <2>2. PICK m \in NewMedia : m.kind \in setup.kinds /\ PlayerChange(m)
    BY <1>16 DEF ChangeMedia
  <2>3. PICK f, v : m = Media("dir", f, v) /\ MediaOK("dir", f, v) /\ v.path = <<>>
                    /\ v.count = Len(Order) /\ v.first = -1
    BY <1>6, <1>8, <2>2, NewMediaIs
  <2>4. PlayerChange(Media("dir", f, v))
    BY <2>2, <2>3
  <2>5. Changed("dir", f, Ready("dir", v, random'))
    BY <1>6, <2>3, <2>4, PlayerChangeIs, Zenon
  <2>6. PICK w : w = DirRandom(v, random')
    OBVIOUS
  <2>7. Changed("dir", f, w)
    BY <2>5, <2>6, Zenon DEF Ready
  <2>8. DirOK(w) /\ w.path = <<>> /\ w.count >= Len(Order) /\ w.first = -1
    <3>1. DirOK(v)
      BY <2>3, Zenon DEF MediaOK
    <3>2. /\ DirOK(w) /\ w.path = v.path /\ w.count = v.count
          /\ w.first = IF random' THEN v.first ELSE -1
      BY <2>6, <3>1, DirRandomIs, Zenon
    <3>3. QED
      BY <1>6, <2>1, <2>3, <3>2
  <2>9. Keeps(phase', src', nextsrc', dir')
    BY <1>4, <1>5, <2>1, <2>7, <2>8, QuietChanged
  <2>10. QED
    BY <2>1, <2>7, <2>9 DEF Changed
<1>17. CASE Survey
  BY <1>5, <1>17 DEF Survey
<1>18. CASE UNCHANGED vars
  BY <1>5, <1>18 DEF vars, user, media
<1>19. QED
  BY <1>2, <1>9, <1>10, <1>11, <1>12, <1>13, <1>14, <1>15, <1>16, <1>17, <1>18 DEF Next

\* The source changes only in the state CHANGE, and when it was stopped.
LEMMA OrderStep ==
  TypeInv /\ QuietInv /\ [Next]_vars =>
    (Quiet /\ src' # src /\ src # NoSource /\ phase = "change" =>
       IF src' = NoSource THEN src.id + 1 = Len(Order)
       ELSE src'.id = src.id + 1 /\ src'.url = Order[src'.id + 1])
<1> SUFFICES ASSUME TypeInv, QuietInv, [Next]_vars, Quiet,
                    src' # src, src # NoSource, phase = "change"
             PROVE  IF src' = NoSource THEN src.id + 1 = Len(Order)
                    ELSE src'.id = src.id + 1 /\ src'.url = Order[src'.id + 1]
  OBVIOUS
<1>1. Keeps(phase, src, nextsrc, dir)
  BY DEF QuietInv
<1>2. src' = nextsrc
  <2>1. CASE Play
    BY <2>1, PlayIs
  <2>2. CASE Options
    BY <2>2 DEF Options, PlayerChange, Another, user
  <2>3. CASE ChangeMedia
    BY <2>3 DEF ChangeMedia, PlayerChange, Another, user
  <2>4. CASE Change
    BY <2>4 DEF Change, Over, EngineChange
  <2>5. CASE Stop \/ Ask \/ Survey
    BY <2>5 DEF Stop, Ask, Survey, EngineStop, AskPlay, AskStop, user
  <2>6. CASE Insert \/ Loop \/ Touch \/ UNCHANGED vars
    BY <2>6 DEF Insert, Loop, Touch, user, vars
  <2>7. QED
    BY <2>1, <2>2, <2>3, <2>4, <2>5, <2>6 DEF Next
<1>3. CASE nextsrc = NoSource
  BY <1>1, <1>2, <1>3 DEF Keeps
<1>4. CASE nextsrc # NoSource
  <2>1. nextsrc = Entry(src.id + 1)
    BY <1>1, <1>4 DEF Keeps, Prepared
  <2>2. nextsrc.id = src.id + 1 /\ nextsrc.url = Order[src.id + 1 + 1]
    BY <2>1, Zenon DEF Entry
  <2>3. QED
    BY <1>2, <1>4, <2>2
<1>5. QED
  BY <1>3, <1>4

\* In a directory that does not change, whatever its tree, the entries are played in
\* the order of the tree, none twice and none left out, and the player stops after
\* the last one: also when the media is given again or its options are set at any
\* moment, if the last file of the directory is a media; if it is none, as long as
\* nothing but the option loop is touched.
THEOREM PlaysInOrderAlways == Spec => PlaysInOrder
<1>1. TypeInv /\ QuietInv /\ [Next]_vars => (TypeInv /\ QuietInv)'
  BY TypeStep, QuietStep, Zenon
<1>2. QED
  BY <1>1, TypeInit, QuietInit, OrderStep, PTL DEF Spec, PlaysInOrder
=============================================================================
