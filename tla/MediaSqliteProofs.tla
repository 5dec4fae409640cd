------------------------- MODULE MediaSqliteProofs -------------------------
(***************************************************************************)
(* Theorems of MediaSqlite, for any library and any calls on it.           *)
(*                                                                         *)
(* GivenAsLiked says what was given of an entry, which is counted beside   *)
(* the data base.  It is inductive with what is left in each row of the    *)
(* list (OwedIn): the likes of a row and what was given of its number are  *)
(* not more than what was due.  There may be several rows of one number,   *)
(* with likes of their own, and a row that is given sets them all to what  *)
(* it has left: this holds of each of them.                                *)
(*                                                                         *)
(* NextReturns follows from what a fill of the list leaves: a row with     *)
(* likes for each media (FillFacts), hence a row that the statements of    *)
(* media_next select (EligibleFacts).                                      *)
(*                                                                         *)
(* That the numbers are bounded needs Library: a new media takes the       *)
(* number after the greatest, so that the free numbers under it only come  *)
(* from removals; the opuses are no more than the urls, whose titles they  *)
(* have.                                                                   *)
(***************************************************************************)
EXTENDS MediaSqlite, FiniteSetTheorems, NaturalsInduction, WellFoundedInduction, TLAPS

\* A set of numbers that is not empty has a least one.
LEMMA Least ==
  ASSUME NEW S \in SUBSET Nat, S # {}
  PROVE  \E n \in S : \A m \in S : n <= m
<1>1. IsWellFoundedOn(OpToRel(<, Nat), Nat)
  BY NatLessThanWellFounded, Zenon
<1>2. PICK n \in S : \A m \in S : <<m, n>> \notin OpToRel(<, Nat)
  BY <1>1, WFMin, Zenon
<1>3. ASSUME NEW m \in S PROVE n <= m
  <2>1. <<m, n>> \notin {ss \in Nat \X Nat : ss[1] < ss[2]}
    BY <1>2, Zenon DEF OpToRel
  <2>2. QED
    BY <2>1
<1>4. QED
  BY <1>3

\* A set that holds 0, and the number after each one that it holds, holds all.
LEMMA Induct ==
  ASSUME NEW S, 0 \in S, \A n \in Nat : n \in S => n + 1 \in S
  PROVE  Nat \subseteq S
<1> SUFFICES ASSUME Nat \ S # {} PROVE FALSE
  OBVIOUS
<1>1. PICK n \in Nat \ S : \A m \in Nat \ S : n <= m
  BY Least, Nat \ S \in SUBSET Nat
<1>2. n - 1 \in Nat /\ n - 1 \in S
  BY <1>1
<1>3. QED
  BY <1>2

\* Min and Max of FiniteSetsExt
LEMMA MinIsIn ==
  ASSUME NEW S \in SUBSET Nat, S # {}
  PROVE  Min(S) \in S /\ \A m \in S : Min(S) <= m
BY Least DEF Min

\* A finite set of n numbers has a greatest one, by induction on n.
LEMMA MaxExists ==
  ASSUME NEW n \in Nat
  PROVE  \A S \in SUBSET Int : IsFiniteSet(S) /\ S # {} /\ Cardinality(S) = n
           => \E x \in S : \A y \in S : y <= x
<1> DEFINE P(k) == \A S \in SUBSET Int : IsFiniteSet(S) /\ S # {} /\ Cardinality(S) = k
                     => \E x \in S : \A y \in S : y <= x
           T == {k \in Nat : P(k)}
<1>1. 0 \in T
  <2>1. P(0)
    BY FS_EmptySet
  <2>2. QED
    BY <2>1
<1>2. ASSUME NEW k \in Nat, k \in T PROVE k + 1 \in T
  <2>1. P(k)
    BY <1>2
  <2>2. ASSUME NEW S \in SUBSET Int, IsFiniteSet(S), S # {}, Cardinality(S) = k + 1
        PROVE  \E x \in S : \A y \in S : y <= x
    <3>1. PICK a \in S : TRUE
      BY <2>2
    <3>2. IsFiniteSet(S \ {a}) /\ Cardinality(S \ {a}) = k
      <4>1. IsFiniteSet(S \ {a}) /\ Cardinality(S \ {a}) = Cardinality(S) - 1
        BY <2>2, FS_RemoveElement
      <4>2. QED
        BY <2>2, <4>1
    <3>3. CASE S \ {a} = {}
      BY <3>3
    <3>4. CASE S \ {a} # {}
      <4>1. PICK b \in S \ {a} : \A y \in S \ {a} : y <= b
        BY <2>1, <3>2, <3>4
      <4>2. CASE a <= b
        BY <4>1, <4>2
      <4>3. CASE ~(a <= b)
        <5>1. \A y \in S : y <= a
          BY <4>1, <4>3
        <5>2. QED
          BY <5>1
      <4>4. QED
        BY <4>2, <4>3
    <3>5. QED
      BY <3>3, <3>4
  <2>3. P(k + 1)
    BY <2>2
  <2>4. QED
    BY <2>3
<1> HIDE DEF P
<1>3. \A k \in Nat : k \in T => k + 1 \in T
  BY <1>2
<1> HIDE DEF T
<1>4. n \in T
  BY <1>1, <1>3, Induct
<1>5. QED
  BY <1>4 DEF T, P

\* Max of FiniteSetsExt is in the set.
LEMMA MaxIsIn ==
  ASSUME NEW S \in SUBSET Int, IsFiniteSet(S), S # {}
  PROVE  Max(S) \in S /\ \A m \in S : m <= Max(S)
<1>1. PICK x \in S : \A y \in S : y <= x
  BY MaxExists, FS_CardinalityType
<1>2. \A y \in S : x >= y
  BY <1>1
<1>3. QED
  BY <1>2 DEF Max

\* The rows of a set of numbers are read each once.
LEMMA AscendingFacts ==
  ASSUME NEW S \in SUBSET Nat, IsFiniteSet(S)
  PROVE  /\ Ascending(S) \in Seq(S)
         /\ Len(Ascending(S)) = Cardinality(S)
         /\ \A n \in S : \E k \in DOMAIN Ascending(S) : Ascending(S)[k] = n
<1> DEFINE N == Cardinality(S)
           upto(n) == {x \in S : x <= n}
           f == [n \in S |-> Cardinality(upto(n))]
<1>1. N \in Nat
  BY FS_CardinalityType
<1>2. ASSUME NEW n \in S PROVE IsFiniteSet(upto(n)) /\ f[n] \in 1 .. N
  <2>1. upto(n) \in SUBSET S /\ upto(n) # {}
    OBVIOUS
  <2>2. IsFiniteSet(upto(n)) /\ Cardinality(upto(n)) <= N
    BY <2>1, FS_Subset
  <2>3. Cardinality(upto(n)) \in Nat /\ Cardinality(upto(n)) # 0
    BY <2>1, <2>2, FS_CardinalityType, FS_EmptySet
  <2>4. QED
    BY <1>1, <2>2, <2>3
<1>3. ASSUME NEW n \in S, NEW m \in S, f[n] = f[m] PROVE n = m
  <2>1. upto(n) \in SUBSET upto(m) \/ upto(m) \in SUBSET upto(n)
    <3>1. CASE n <= m
      <4>1. \A x \in upto(n) : x \in upto(m)
        BY <3>1
      <4>2. QED
        BY <4>1, Zenon
    <3>2. CASE m <= n
      <4>1. \A x \in upto(m) : x \in upto(n)
        BY <3>2
      <4>2. QED
        BY <4>1, Zenon
    <3>3. QED
      BY <3>1, <3>2
  <2>2. Cardinality(upto(n)) = Cardinality(upto(m))
    BY <1>3
  <2> HIDE DEF f
  <2>3. upto(n) = upto(m)
    <3>1. CASE upto(n) \in SUBSET upto(m)
      BY <1>2, <2>2, <3>1, FS_Subset
    <3>2. CASE upto(m) \in SUBSET upto(n)
      BY <1>2, <2>2, <3>2, FS_Subset
    <3>3. QED
      BY <2>1, <3>1, <3>2
  <2>4. n \in upto(m) /\ m \in upto(n)
    BY <2>3
  <2>5. QED
    BY <2>4
<1>4. f \in Injection(S, 1 .. N)
  BY <1>2, <1>3 DEF Injection, IsInjective
<1>5. f \in Surjection(S, 1 .. N)
  <2>1. IsFiniteSet(1 .. N) /\ Cardinality(1 .. N) = N
    BY <1>1, FS_Interval
  <2>2. QED
    BY <1>4, <2>1, FS_Injection
<1>6. ASSUME NEW k \in 1 .. N PROVE Ascending(S)[k] \in S /\ f[Ascending(S)[k]] = k
  <2>1. \E n \in S : f[n] = k
    BY <1>5 DEF Surjection
  <2>2. \E n \in S : Cardinality(upto(n)) = k
    BY <2>1
  <2>3. Ascending(S)[k] = CHOOSE n \in S : Cardinality(upto(n)) = k
    BY DEF Ascending
  <2>4. QED
    BY <2>2, <2>3
<1>7. DOMAIN Ascending(S) = 1 .. N
  BY DEF Ascending
<1>8. Ascending(S) \in Seq(S) /\ Len(Ascending(S)) = N
  <2>1. Ascending(S) \in [1 .. N -> S]
    BY <1>6, <1>7 DEF Ascending
  <2>2. QED
    BY <1>1, <2>1
<1>9. ASSUME NEW n \in S PROVE Ascending(S)[f[n]] = n /\ f[n] \in DOMAIN Ascending(S)
  BY <1>2, <1>3, <1>6, <1>7
<1>10. QED
  BY <1>8, <1>9

-----------------------------------------------------------------------------
(* The playlist *)

RowOf(I) == [id : I, listid : Lists, likes : Int]

\* The rows of media, with the opuses of I
MediaOf(I) ==
  /\ IsFiniteSet(DOMAIN media) /\ DOMAIN media \in SUBSET Nat
  /\ \A m \in DOMAIN media : media[m].opus \in I /\ media[m].likes \in Nat \ {0}

\* A function on the first numbers is a sequence.
LEMMA IsSeq ==
  ASSUME NEW S, NEW n \in Nat, NEW f, f = [k \in 1 .. n |-> f[k]], \A k \in 1 .. n : f[k] \in S
  PROVE  f \in Seq(S) /\ Len(f) = n /\ DOMAIN f = 1 .. n
OBVIOUS

\* A sequence c of N elements of a and K of b
Joined(c, a, b, N, K) ==
  /\ DOMAIN c = 1 .. N + K
  /\ \A x \in 1 .. N : c[x] = a[x]
  /\ \A x \in 1 .. K : c[N + x] = b[x]

\* The two parts of a concatenation
LEMMA Concat ==
  ASSUME NEW R, NEW N \in Nat, NEW K \in Nat, NEW a, NEW b,
         a \in Seq(R), b \in Seq(R), Len(a) = N, Len(b) = K
  PROVE  \E c \in Seq(R) : c = a \o b /\ Joined(c, a, b, N, K)
<1>1. PICK s, t \in Seq(R) : s = a /\ t = b
  OBVIOUS
<1>2. s \o t \in Seq(R)
  OBVIOUS
<1>3. DOMAIN (s \o t) = 1 .. Len(s) + Len(t)
  OBVIOUS
<1>4. \A x \in 1 .. Len(s) : (s \o t)[x] = s[x]
  OBVIOUS
<1>5. \A x \in 1 .. Len(t) : (s \o t)[Len(s) + x] = t[x]
  OBVIOUS
<1>6. PICK c : c = s \o t
  OBVIOUS
<1>7. c \in Seq(R) /\ DOMAIN c = 1 .. Len(s) + Len(t)
  BY <1>2, <1>3, <1>6, Zenon
<1>8. \A x \in 1 .. Len(s) : c[x] = s[x]
  BY <1>4, <1>6, Zenon
<1>9. \A x \in 1 .. Len(t) : c[Len(s) + x] = t[x]
  BY <1>5, <1>6, Zenon
<1>10. c = a \o b
  BY <1>1, <1>6, Zenon
<1>11. Len(s) = N /\ Len(t) = K
  BY <1>1
<1>12. /\ c \in Seq(R) /\ DOMAIN c = 1 .. N + K
       /\ \A x \in 1 .. N : c[x] = a[x]
       /\ \A x \in 1 .. K : c[N + x] = b[x]
  BY <1>1, <1>7, <1>8, <1>9, <1>11, Zenon
<1>13. Joined(c, a, b, N, K)
  BY <1>12 DEF Joined
<1>14. QED
  BY <1>7, <1>10, <1>13, Zenon

\* The likes of the rows of a number are set, the rest stays.
LEMMA SetLikesFacts ==
  ASSUME NEW I, NEW rows \in Seq(RowOf(I)), NEW list, NEW i, NEW l \in Int
  PROVE  /\ SetLikes(rows, list, i, l) \in Seq(RowOf(I))
         /\ DOMAIN SetLikes(rows, list, i, l) = DOMAIN rows
         /\ \A n \in DOMAIN rows :
              /\ SetLikes(rows, list, i, l)[n].id = rows[n].id
              /\ SetLikes(rows, list, i, l)[n].listid = rows[n].listid
              /\ SetLikes(rows, list, i, l)[n].likes
                   = IF In(rows[n], list, i) THEN l ELSE rows[n].likes
<1> DEFINE new == SetLikes(rows, list, i, l)
<1>1. Len(rows) \in Nat /\ DOMAIN rows = 1 .. Len(rows)
  OBVIOUS
<1>2. new = [n \in 1 .. Len(rows) |->
               IF In(rows[n], list, i) THEN [rows[n] EXCEPT !.likes = l] ELSE rows[n]]
  BY <1>1 DEF SetLikes
<1>3. ASSUME NEW n \in 1 .. Len(rows)
      PROVE  /\ new[n] \in RowOf(I) /\ new[n].id = rows[n].id
             /\ new[n].listid = rows[n].listid
             /\ new[n].likes = IF In(rows[n], list, i) THEN l ELSE rows[n].likes
  <2>1. rows[n] \in RowOf(I)
    BY <1>1
  <2>2. new[n] = IF In(rows[n], list, i) THEN [rows[n] EXCEPT !.likes = l] ELSE rows[n]
    BY <1>2
  <2> HIDE DEF new
  <2>3. QED
    BY <2>1, <2>2 DEF RowOf
<1> HIDE DEF new
<1>4. new = [n \in 1 .. Len(rows) |-> new[n]]
  BY <1>2
<1>5. new \in Seq(RowOf(I)) /\ DOMAIN new = 1 .. Len(rows)
  BY <1>1, <1>3, <1>4, IsSeq, Zenon
<1>6. QED
  BY <1>1, <1>3, <1>5 DEF new

\* What is kept of the rows are rows.
LEMMA OnlyFacts ==
  ASSUME NEW S, NEW rows \in Seq(S), NEW keep \in SUBSET DOMAIN rows
  PROVE  Only(rows, keep) \in Seq(S)
<1>1. Len(rows) \in Nat /\ DOMAIN rows = 1 .. Len(rows)
  OBVIOUS
<1>2. keep \in SUBSET Nat /\ IsFiniteSet(keep)
  <2>1. IsFiniteSet(1 .. Len(rows))
    BY <1>1, FS_Interval
  <2>2. keep \in SUBSET (1 .. Len(rows))
    BY <1>1
  <2>3. IsFiniteSet(keep)
    BY <2>1, <2>2, FS_Subset, Zenon
  <2>4. QED
    BY <2>2, <2>3
<1>3. PICK n : n = Ascending(keep)
  OBVIOUS
<1>4. n \in Seq(keep)
  BY <1>2, <1>3, AscendingFacts
<1>5. Only(rows, keep) = [k \in 1 .. Len(n) |-> rows[n[k]]]
  BY <1>3, <1>4 DEF Only
<1>6. \A k \in 1 .. Len(n) : rows[n[k]] \in S
  BY <1>1, <1>4
<1>7. Len(n) \in Nat
  BY <1>4
<1>8. PICK m \in Nat : m = Len(n)
  BY <1>7
<1>9. Only(rows, keep) = [k \in 1 .. m |-> Only(rows, keep)[k]]
      /\ \A k \in 1 .. m : Only(rows, keep)[k] \in S
  BY <1>5, <1>6, <1>8
<1>10. QED
  BY <1>9, IsSeq, Zenon

\* What is due of a number is as much as each of its rows has.
LEMMA DueFacts ==
  ASSUME NEW I, NEW rows \in Seq(RowOf(I)), NEW list
  PROVE  /\ \A n \in DOMAIN rows : rows[n].listid = list =>
              rows[n].id \in DOMAIN Due(rows, list) /\ rows[n].likes <= Due(rows, list)[rows[n].id]
         /\ \A i \in DOMAIN Due(rows, list) : i \in I /\ Due(rows, list)[i] \in Int
<1> DEFINE ids == {row.id : row \in {r \in ToSet(rows) : r.listid = list}}
           of(i) == {r.likes : r \in {x \in ToSet(rows) : In(x, list, i)}}
<1>1. Len(rows) \in Nat /\ DOMAIN rows = 1 .. Len(rows)
      /\ \A n \in DOMAIN rows : rows[n] \in RowOf(I)
  OBVIOUS
<1>2. ToSet(rows) = {rows[n] : n \in 1 .. Len(rows)}
  BY <1>1 DEF ToSet
<1>3. DOMAIN Due(rows, list) = ids /\ \A i \in ids : Due(rows, list)[i] = Max(of(i))
  BY DEF Due
<1>4. ASSUME NEW i \in ids PROVE of(i) \in SUBSET Int /\ IsFiniteSet(of(i)) /\ of(i) # {}
  <2>1. of(i) \in SUBSET Int
    BY <1>1, <1>2 DEF RowOf
  <2>2. of(i) # {}
    BY DEF In
  <2>3. IsFiniteSet(ToSet(rows))
    <3>1. IsFiniteSet(1 .. Len(rows))
      BY <1>1, FS_Interval
    <3>2. [n \in 1 .. Len(rows) |-> rows[n]] \in Surjection(1 .. Len(rows), ToSet(rows))
      BY <1>2 DEF Surjection
    <3>3. QED
      BY <3>1, <3>2, FS_Surjection
  <2>4. IsFiniteSet({x \in ToSet(rows) : In(x, list, i)})
    BY <2>3, FS_Subset
  <2>5. IsFiniteSet(of(i))
    <3> DEFINE X == {x \in ToSet(rows) : In(x, list, i)}
    <3>1. [x \in X |-> x.likes] \in Surjection(X, of(i))
      BY DEF Surjection
    <3>2. QED
      BY <2>4, <3>1, FS_Surjection
  <2>6. QED
    BY <2>1, <2>2, <2>5
<1>5. ASSUME NEW n \in DOMAIN rows, rows[n].listid = list
      PROVE  rows[n].id \in ids /\ rows[n].likes \in of(rows[n].id)
  <2>1. rows[n] \in ToSet(rows)
    BY <1>1, <1>2
  <2>2. QED
    BY <1>5, <2>1 DEF In
<1>6. \A i \in ids : i \in I
  BY <1>1, <1>2 DEF RowOf
<1> HIDE DEF ids, of
<1>7. \A i \in ids : Max(of(i)) \in Int /\ \A l \in of(i) : l <= Max(of(i))
  BY <1>4, MaxIsIn
<1>8. QED
  BY <1>3, <1>5, <1>6, <1>7

\* What media_next selects is a row of the list with likes, if there is one.
LEMMA EligibleFacts ==
  ASSUME NEW S, NEW rows \in Seq(S), NEW m, NEW rand
  PROVE  /\ \A n \in Eligible(rows, m, rand) :
              n \in DOMAIN rows /\ rows[n].listid = listid /\ rows[n].likes > 0
         /\ Eligible(rows, -1, rand) = {}
              => \A n \in DOMAIN rows : ~(rows[n].listid = listid /\ rows[n].likes > 0)
<1> DEFINE fit(k) == {n \in DOMAIN rows : /\ rows[n].listid = listid /\ rows[n].likes > 0
                                          /\ k = -1 \/ rand \/ rows[n].id > k}
<1>1. \A k : fit(k) \in SUBSET Nat
  OBVIOUS
<1>2. \A k : Eligible(rows, k, rand) = IF rand \/ fit(k) = {} THEN fit(k) ELSE {Min(fit(k))}
  BY DEF Eligible
<1>3. \A k : fit(k) # {} => Min(fit(k)) \in fit(k)
  BY <1>1, MinIsIn
<1>4. Eligible(rows, m, rand) \subseteq fit(m)
  <2> HIDE DEF fit
  <2>1. QED
    BY <1>2, <1>3
<1>5. Eligible(rows, -1, rand) = {} => fit(-1) = {}
  BY <1>2
<1>6. QED
  BY <1>4, <1>5

\* What enters a list is a row of it with the likes of its media.
LEMMA FillFacts ==
  ASSUME NEW I, NEW rows \in Seq(RowOf(I)), NEW list \in Lists, NEW titles, MediaOf(I)
  PROVE  /\ Fill(rows, list, titles) \in Seq(RowOf(I))
         /\ \A m \in Entering(titles) : \E n \in DOMAIN Fill(rows, list, titles) :
              Fill(rows, list, titles)[n].listid = list /\ Fill(rows, list, titles)[n].likes > 0
<1> DEFINE entering == Entering(titles)
           liked(i) == Row(i, list, LikesFrom(entering, i))
           newcomers == Newcomers(rows, list, entering)
           there(n) == \E m \in entering : In(rows[n], list, media[m].opus)
<1>1. PICK N \in Nat :
        N = Len(rows) /\ DOMAIN rows = 1 .. N /\ \A n \in 1 .. N : rows[n] \in RowOf(I)
  OBVIOUS
<1>2. entering \in SUBSET DOMAIN media /\ newcomers \in SUBSET entering
  BY DEF Entering, Newcomers
<1>3. newcomers \in SUBSET Nat /\ IsFiniteSet(newcomers)
  BY <1>2, FS_Subset, Zenon DEF MediaOf
<1>4. ASSUME NEW m \in entering
      PROVE  liked(media[m].opus) \in RowOf(I) /\ liked(media[m].opus).likes > 0
             /\ liked(media[m].opus).listid = list
  <2> DEFINE same == {x \in entering : media[x].opus = media[m].opus}
  <2>1. same \in SUBSET DOMAIN media /\ same # {}
    BY <1>2
  <2>2. same \in SUBSET Int /\ IsFiniteSet(same)
    <3>1. IsFiniteSet(same)
      BY <2>1, FS_Subset, Zenon DEF MediaOf
    <3>2. QED
      BY <2>1, <3>1 DEF MediaOf
  <2>3. Max(same) \in DOMAIN media
    BY <2>1, <2>2, MaxIsIn
  <2>4. LikesFrom(entering, media[m].opus) = media[Max(same)].likes
    BY DEF LikesFrom
  <2>5. LikesFrom(entering, media[m].opus) \in Nat \ {0}
    BY <2>3, <2>4 DEF MediaOf
  <2>6. media[m].opus \in I
    BY <1>2 DEF MediaOf
  <2> HIDE DEF same, entering
  <2>7. QED
    BY <2>5, <2>6 DEF Row, RowOf
<1>5. PICK new : new = Ascending(newcomers)
  OBVIOUS
<1>6. new \in Seq(newcomers) /\ \A m \in newcomers : \E k \in DOMAIN new : new[k] = m
  BY <1>3, <1>5, AscendingFacts
<1>7. PICK K \in Nat : K = Len(new) /\ DOMAIN new = 1 .. K
  BY <1>6
<1>8. \A k \in 1 .. K : new[k] \in newcomers
  BY <1>6, <1>7
<1>9. PICK a : a = [n \in DOMAIN rows |-> IF there(n) THEN liked(rows[n].id) ELSE rows[n]]
  OBVIOUS
<1>10. PICK b : b = [k \in DOMAIN new |-> liked(media[new[k]].opus)]
  OBVIOUS
<1>11. Fill(rows, list, titles) = a \o b
  BY <1>5, <1>9, <1>10 DEF Fill
<1> HIDE DEF liked, entering, newcomers
<1>12. \A n \in 1 .. N : /\ a[n] = IF there(n) THEN liked(rows[n].id) ELSE rows[n]
                         /\ there(n) => \E m \in entering : rows[n].id = media[m].opus
  BY <1>1, <1>9 DEF In
<1>13. \A n \in 1 .. N : a[n] \in RowOf(I)
  BY <1>1, <1>4, <1>12
<1>14. \A k \in 1 .. K : b[k] = liked(media[new[k]].opus) /\ b[k] \in RowOf(I)
  BY <1>2, <1>4, <1>7, <1>8, <1>10
<1>15. a \in Seq(RowOf(I)) /\ Len(a) = N
  <2>1. a = [n \in 1 .. N |-> a[n]]
    BY <1>1, <1>9
  <2>2. QED
    BY <1>13, <2>1, IsSeq, Zenon
<1>16. b \in Seq(RowOf(I)) /\ Len(b) = K
  <2>1. b = [k \in 1 .. K |-> b[k]]
    BY <1>7, <1>10
  <2>2. QED
    BY <1>14, <2>1, IsSeq, Zenon
<1>17. PICK c \in Seq(RowOf(I)) : c = a \o b /\ Joined(c, a, b, N, K)
  BY <1>15, <1>16, Concat, Zenon
<1>18. Fill(rows, list, titles) = c
  BY <1>11, <1>17, Zenon
<1>19. ASSUME NEW m \in entering
       PROVE  \E n \in DOMAIN c : c[n].listid = list /\ c[n].likes > 0
  <2>1. CASE \E n \in 1 .. N : In(rows[n], list, media[m].opus)
    <3>1. PICK n \in 1 .. N : In(rows[n], list, media[m].opus)
      BY <2>1
    <3>2. a[n] = liked(media[m].opus)
      BY <1>12, <3>1 DEF In
    <3>3. n \in DOMAIN c /\ c[n] = liked(media[m].opus)
      BY <1>17, <3>1, <3>2 DEF Joined
    <3>4. QED
      BY <1>4, <3>3
  <2>2. CASE ~\E n \in 1 .. N : In(rows[n], list, media[m].opus)
    <3> DEFINE same == {x \in entering : media[x].opus = media[m].opus}
    <3>1. same \in SUBSET Nat /\ same # {}
      BY <1>2 DEF MediaOf
    <3>2. PICK x \in same : \A y \in same : x <= y
      BY <3>1, Least
    <3>3. x \in newcomers
      BY <1>1, <2>2, <3>2 DEF newcomers, Newcomers
    <3>4. PICK k \in 1 .. K : new[k] = x
      BY <1>6, <1>7, <3>3
    <3>5. b[k] = liked(media[m].opus)
      BY <1>14, <3>2, <3>4
    <3>6. N + k \in DOMAIN c /\ c[N + k] = liked(media[m].opus)
      BY <1>17, <3>5 DEF Joined
    <3>7. QED
      BY <1>4, <3>6
  <2>3. QED
    BY <2>1, <2>2
<1>20. QED
  BY <1>17, <1>18, <1>19 DEF entering

-----------------------------------------------------------------------------
(* The invariant *)

\* The opuses have titles of the urls, each its own, and the media urls of their
\* own.  A number is at most as far from the number of rows as removals took it.
Library ==
  /\ opuses \in Seq(Titles)
  /\ \A o, p \in DOMAIN opuses : opuses[o] = opuses[p] => o = p
  /\ \A o \in DOMAIN opuses : \E u \in Urls : opuses[o] = setup.title[u]
  /\ DOMAIN media \in SUBSET (Nat \ {0})
  /\ \A m \in DOMAIN media :
       media[m] \in [url : Urls, opus : DOMAIN opuses, album : BOOLEAN, likes : Nat \ {0}]
  /\ \A m, x \in DOMAIN media : media[m].url = media[x].url => m = x
  /\ Top(DOMAIN media) + Cardinality(Urls) - Cardinality(DOMAIN media)
       <= Cardinality(Urls) * (1 + setup.calls - calls)

Counts(d, g) == DOMAIN g = DOMAIN d /\ \A i \in DOMAIN d : d[i] \in Int /\ g[i] \in Nat
LikedIn(d, g) == \A i \in DOMAIN d : d[i] > 0 => g[i] <= d[i]

\* What was given of an entry, and what is left of its likes, are those it had.
OwedIn(rows, list, d, g) ==
  \A n \in DOMAIN rows : rows[n].listid = list =>
    rows[n].id \in DOMAIN d /\ g[rows[n].id] + rows[n].likes <= d[rows[n].id]

List ==
  /\ playlist \in Seq(RowOf(Ids))
  /\ Counts(due, given)
  /\ ~readonly => LikedIn(due, given)
  /\ ~readonly /\ ~down => OwedIn(playlist, listid, due, given)

Scalars ==
  /\ setup \in Setups /\ calls \in 0 .. setup.calls
  /\ words \in BOOLEAN /\ loop \in BOOLEAN /\ random \in BOOLEAN
  /\ listid \in Lists /\ oldlistid \in Lists
  /\ mediaid \in {-1, 0} \cup Ids
  /\ readonly \in BOOLEAN /\ down \in BOOLEAN

IInv == Scalars /\ Library /\ UserTypeOK(Entries) /\ List /\ NextReturns

-----------------------------------------------------------------------------
(* The library *)

\* No row of a table is past its top.
LEMMA TopFacts ==
  ASSUME NEW S \in SUBSET Nat, IsFiniteSet(S)
  PROVE  Top(S) \in Nat /\ \A x \in S : x <= Top(S)
<1>1. CASE S = {}
  BY <1>1 DEF Top
<1>2. CASE S # {}
  <2>1. S \in SUBSET Int
    OBVIOUS
  <2>2. Max(S) \in S /\ \A x \in S : x <= Max(S)
    BY <1>2, <2>1, MaxIsIn
  <2>3. Top(S) = Max(S)
    BY <1>2 DEF Top
  <2>4. QED
    BY <2>2, <2>3
<1>3. QED
  BY <1>1, <1>2

\* A row after the last one
LEMMA TopGrows ==
  ASSUME NEW S \in SUBSET Nat, IsFiniteSet(S)
  PROVE  /\ Top(S) + 1 \notin S
         /\ IsFiniteSet(S \cup {Top(S) + 1})
         /\ Cardinality(S \cup {Top(S) + 1}) = Cardinality(S) + 1
         /\ Top(S \cup {Top(S) + 1}) = Top(S) + 1
<1>1. PICK t \in Nat : t = Top(S) + 1 /\ \A x \in S : x < t
  BY TopFacts
<1>2. t \notin S
  BY <1>1
<1>3. IsFiniteSet(S \cup {t}) /\ Cardinality(S \cup {t}) = Cardinality(S) + 1
  BY <1>2, FS_AddElement
<1>4. Top(S \cup {t}) = t
  <2>1. S \cup {t} \in SUBSET Int /\ S \cup {t} # {}
    OBVIOUS
  <2>2. Max(S \cup {t}) \in S \cup {t} /\ \A x \in S \cup {t} : x <= Max(S \cup {t})
    BY <1>3, <2>1, MaxIsIn, Zenon
  <2>3. Max(S \cup {t}) = t
    <3>1. PICK x : x = Max(S \cup {t})
      OBVIOUS
    <3>2. x \in S \cup {t} /\ t <= x
      BY <2>2, <3>1
    <3>3. QED
      BY <1>1, <3>1, <3>2
  <2>4. QED
    BY <2>1, <2>3 DEF Top
<1>5. QED
  BY <1>1, <1>2, <1>3, <1>4

\* Rows that leave a table do not raise its top.
LEMMA TopShrinks ==
  ASSUME NEW S \in SUBSET Nat, IsFiniteSet(S), NEW T \in SUBSET S
  PROVE  Top(T) \in Nat /\ Top(T) <= Top(S)
<1>1. IsFiniteSet(T) /\ T \in SUBSET Nat
  BY FS_Subset, Zenon
<1>2. Top(S) \in Nat /\ \A x \in S : x <= Top(S)
  BY TopFacts
<1>3. CASE T = {}
  BY <1>2, <1>3 DEF Top
<1>4. CASE T # {}
  <2>1. Max(T) \in T
    BY <1>1, <1>4, MaxIsIn
  <2>2. Top(T) = Max(T)
    BY <1>4 DEF Top
  <2>3. QED
    BY <1>2, <2>1, <2>2
<1>5. QED
  BY <1>3, <1>4

\* The products of the bound of Ids
LEMMA Products ==
  ASSUME NEW a \in Nat, NEW b \in Nat
  PROVE  a * b \in Nat /\ a * (b + 1) = a * b + a /\ (b > 0 => a <= a * b)
<1>1. a * b \in Nat /\ a * (b + 1) = a * b + a
  OBVIOUS
<1>2. CASE b > 0
  <2>1. b - 1 \in Nat /\ a * (b - 1) \in Nat /\ a * ((b - 1) + 1) = a * (b - 1) + a
    BY <1>2
  <2>2. QED
    BY <1>1, <1>2, <2>1
<1>3. QED
  BY <1>1, <1>2

\* A product grows with its factor.
LEMMA ProductsGrow ==
  ASSUME NEW a \in Nat, NEW b \in Nat, NEW c \in Nat, b <= c
  PROVE  a * b <= a * c
<1>1. PICK d \in Nat : c = b + d
  <2>1. c - b \in Nat /\ c = b + (c - b)
    OBVIOUS
  <2>2. QED
    BY <2>1
<1>2. a * c = a * b + a * d /\ a * d \in Nat /\ a * b \in Nat
  BY <1>1
<1>3. QED
  BY <1>2

\* There is a number for each opus and for one more media.
LEMMA LibraryFacts ==
  ASSUME Scalars, Library
  PROVE  /\ Cardinality(Urls) \in Nat /\ setup.calls \in Nat
         /\ Ids \in SUBSET (Nat \ {0})
         /\ IsFiniteSet(DOMAIN media) /\ Cardinality(DOMAIN media) \in Nat
         /\ Cardinality(DOMAIN media) <= Cardinality(Urls)
         /\ DOMAIN opuses \in SUBSET Ids
         /\ DOMAIN media \in SUBSET Ids
         /\ MediaOf(Ids)
<1> USE MediaSqliteAssumption
<1>1. IsFiniteSet(Urls) /\ Cardinality(Urls) \in Nat
  BY FS_CardinalityType
<1>2. setup.calls \in Nat /\ setup \in Setups /\ calls \in 0 .. setup.calls
  BY DEF Scalars
<1>3. Ids \in SUBSET (Nat \ {0})
  <2>1. Cardinality(Urls) * (1 + setup.calls) \in Nat
    BY <1>1, <1>2
  <2>2. QED
    BY <2>1 DEF Ids
<1>4. IsFiniteSet(DOMAIN media) /\ Cardinality(DOMAIN media) <= Cardinality(Urls)
  <2> DEFINE f == [m \in DOMAIN media |-> media[m].url]
  <2>1. f \in Injection(DOMAIN media, Urls)
    BY DEF Injection, IsInjective, Library
  <2>2. QED
    BY <1>1, <2>1, FS_Injection
<1>5. Cardinality(DOMAIN media) \in Nat
  BY <1>4, FS_CardinalityType
<1>6. PICK c \in Nat : c = Cardinality(Urls) /\ c <= c * (1 + setup.calls)
                       /\ c * (1 + setup.calls - calls) <= c * (1 + setup.calls)
                       /\ c * (1 + setup.calls) \in Nat /\ c * (1 + setup.calls - calls) \in Nat
  <2>1. PICK c \in Nat : c = Cardinality(Urls)
    BY <1>1
  <2>2. 1 + setup.calls \in Nat /\ 1 + setup.calls > 0 /\ 1 + setup.calls - calls \in Nat
        /\ 1 + setup.calls - calls <= 1 + setup.calls
    BY <1>2
  <2>3. c * (1 + setup.calls) \in Nat /\ c <= c * (1 + setup.calls)
    BY <2>2, Products
  <2>4. c * (1 + setup.calls - calls) \in Nat
        /\ c * (1 + setup.calls - calls) <= c * (1 + setup.calls)
    BY <2>2, Products, ProductsGrow
  <2>5. QED
    BY <2>1, <2>3, <2>4
<1>7. Len(opuses) \in Nat /\ DOMAIN opuses = 1 .. Len(opuses)
  BY DEF Library
<1>8. Len(opuses) <= c
  <2> DEFINE g == [o \in 1 .. Len(opuses) |-> CHOOSE u \in Urls : opuses[o] = setup.title[u]]
  <2>1. \A o \in 1 .. Len(opuses) : g[o] \in Urls /\ opuses[o] = setup.title[g[o]]
    BY <1>7 DEF Library
  <2>2. g \in [1 .. Len(opuses) -> Urls]
    BY <2>1
  <2>3. \A o, p \in 1 .. Len(opuses) : g[o] = g[p] => o = p
    <3> HIDE DEF g
    <3>1. QED
      BY <1>7, <2>1 DEF Library
  <2>4. g \in Injection(1 .. Len(opuses), Urls)
    BY <2>2, <2>3 DEF Injection, IsInjective
  <2> HIDE DEF g
  <2>5. Cardinality(1 .. Len(opuses)) <= Cardinality(Urls)
    BY <1>1, <2>4, FS_Injection, Zenon
  <2>6. Cardinality(1 .. Len(opuses)) = Len(opuses)
    <3>1. PICK l \in Nat : l = Len(opuses)
      BY <1>7
    <3>2. Cardinality(1 .. l) = IF 1 > l THEN 0 ELSE l - 1 + 1
      BY FS_Interval
    <3>3. QED
      BY <3>1, <3>2
  <2>7. QED
    BY <1>6, <2>5, <2>6
<1>9. DOMAIN opuses \in SUBSET Ids
  BY <1>6, <1>7, <1>8 DEF Ids
<1>10. DOMAIN media \in SUBSET Ids
  <2>1. Top(DOMAIN media) \in Nat /\ \A m \in DOMAIN media : m <= Top(DOMAIN media)
    BY <1>4, TopFacts DEF Library
  <2>2. Top(DOMAIN media) <= c * (1 + setup.calls - calls)
    BY <1>4, <1>5, <1>6, <2>1 DEF Library
  <2>3. QED
    BY <1>6, <2>1, <2>2 DEF Ids, Library
<1>11. MediaOf(Ids)
  BY <1>4, <1>9 DEF MediaOf, Library
<1>12. QED
  BY <1>1, <1>2, <1>3, <1>4, <1>5, <1>9, <1>10, <1>11

-----------------------------------------------------------------------------
(* What is given of the list *)

\* A list that was set owes the likes of its rows.
LEMMA Setting ==
  ASSUME NEW I, NEW rows \in Seq(RowOf(I)), NEW list,
         NEW d, d = Due(rows, list), NEW g, g = NoneOf(d)
  PROVE  Counts(d, g) /\ LikedIn(d, g) /\ OwedIn(rows, list, d, g)
<1>1. /\ \A n \in DOMAIN rows : rows[n].listid = list =>
           rows[n].id \in DOMAIN d /\ rows[n].likes <= d[rows[n].id]
      /\ \A i \in DOMAIN d : d[i] \in Int
  BY DueFacts, Zenon
<1>2. DOMAIN g = DOMAIN d /\ \A i \in DOMAIN d : g[i] = 0
  BY DEF NoneOf
<1>3. \A n \in DOMAIN rows : rows[n].likes \in Int
  <2>1. \A n \in DOMAIN rows : rows[n] \in RowOf(I)
    OBVIOUS
  <2>2. QED
    BY <2>1 DEF RowOf
<1>4. Counts(d, g) /\ LikedIn(d, g)
  BY <1>1, <1>2 DEF Counts, LikedIn
<1>5. OwedIn(rows, list, d, g)
  BY <1>1, <1>2, <1>3 DEF OwedIn
<1>6. QED
  BY <1>4, <1>5

\* A row that is given is owed one time less.
LEMMA Giving ==
  ASSUME NEW I, NEW rows \in Seq(RowOf(I)), NEW d, NEW g, Counts(d, g),
         ~readonly => LikedIn(d, g) /\ OwedIn(rows, listid, d, g),
         NEW n \in DOMAIN rows, rows[n].listid = listid, rows[n].likes > 0,
         NEW p, p = Liked(rows, rows[n]), NEW h, h = Count(g, rows[n].id)
  PROVE  /\ p \in Seq(RowOf(I)) /\ Counts(d, h)
         /\ ~readonly => LikedIn(d, h) /\ OwedIn(p, listid, d, h)
<1>1. rows[n] \in RowOf(I) /\ \A k \in DOMAIN rows : rows[k] \in RowOf(I)
  OBVIOUS
<1>2. rows[n].id \in I /\ rows[n].likes \in Int /\ \A k \in DOMAIN rows : rows[k].likes \in Int
  BY <1>1 DEF RowOf
<1>3. DOMAIN h = DOMAIN g
      /\ \A j \in DOMAIN g : h[j] = IF j = rows[n].id /\ ~readonly THEN g[j] + 1 ELSE g[j]
  BY DEF Count
<1>4. CASE readonly
  BY <1>3, <1>4 DEF Liked, Counts
<1>5. CASE ~readonly
  <2>1. PICK i, l : i = rows[n].id /\ l = rows[n].likes - 1 /\ l \in Int
    BY <1>2
  <2>2. p = SetLikes(rows, listid, i, l)
    BY <1>5, <2>1, Zenon DEF Liked
  <2>3. /\ p \in Seq(RowOf(I)) /\ DOMAIN p = DOMAIN rows
        /\ \A k \in DOMAIN rows :
             /\ p[k].id = rows[k].id /\ p[k].listid = rows[k].listid
             /\ p[k].likes = IF In(rows[k], listid, i) THEN l ELSE rows[k].likes
    <3> DEFINE new == SetLikes(rows, listid, i, l)
    <3>1. /\ new \in Seq(RowOf(I)) /\ DOMAIN new = DOMAIN rows
          /\ \A k \in DOMAIN rows :
               /\ new[k].id = rows[k].id /\ new[k].listid = rows[k].listid
               /\ new[k].likes = IF In(rows[k], listid, i) THEN l ELSE rows[k].likes
      BY <2>1, SetLikesFacts
    <3> HIDE DEF new
    <3>2. p = new
      BY <2>2 DEF new
    <3>3. QED
      BY <3>1, <3>2, Zenon
  <2>4. LikedIn(d, g) /\ OwedIn(rows, listid, d, g)
    BY <1>5
  <2>5. i \in DOMAIN d /\ g[i] + l + 1 <= d[i]
    BY <1>2, <2>1, <2>4 DEF OwedIn, Counts
  <2>6. Counts(d, h)
    BY <1>3 DEF Counts
  <2>7. LikedIn(d, h)
    <3> SUFFICES ASSUME NEW j \in DOMAIN d, d[j] > 0 PROVE h[j] <= d[j]
      BY DEF LikedIn
    <3>1. CASE j = i
      BY <1>2, <1>3, <1>5, <2>1, <2>5, <3>1 DEF Counts
    <3>2. CASE j # i
      BY <1>3, <2>1, <2>4, <3>2 DEF Counts, LikedIn
    <3>3. QED
      BY <3>1, <3>2
  <2>8. OwedIn(p, listid, d, h)
    <3> SUFFICES ASSUME NEW k \in DOMAIN rows, rows[k].listid = listid
                 PROVE  p[k].id \in DOMAIN d /\ h[p[k].id] + p[k].likes <= d[p[k].id]
      BY <2>3 DEF OwedIn
    <3>1. rows[k].id \in DOMAIN d /\ g[rows[k].id] + rows[k].likes <= d[rows[k].id]
      BY <2>4 DEF OwedIn
    <3>2. CASE rows[k].id = i
      <4>1. p[k].id = i /\ p[k].likes = l
        BY <2>3, <3>2 DEF In
      <4>2. h[i] = g[i] + 1 /\ g[i] \in Nat /\ d[i] \in Int
        BY <1>3, <1>5, <2>1, <2>5 DEF Counts
      <4>3. QED
        BY <2>1, <2>5, <4>1, <4>2
    <3>3. CASE rows[k].id # i
      <4>1. p[k].id = rows[k].id /\ p[k].likes = rows[k].likes
        BY <2>3, <3>3 DEF In
      <4>2. h[rows[k].id] = g[rows[k].id]
        BY <1>3, <2>1, <3>1, <3>3 DEF Counts
      <4>3. QED
        BY <3>1, <4>1, <4>2
    <3>4. QED
      BY <3>2, <3>3
  <2>9. QED
    BY <2>3, <2>6, <2>7, <2>8
<1>6. QED
  BY <1>4, <1>5

\* What media_next leaves: a list of the numbers of I, and what it owes
Leaves(rows, d, g, dn, I) ==
  /\ rows \in Seq(RowOf(I)) /\ Counts(d, g) /\ dn \in BOOLEAN
  /\ ~readonly => LikedIn(d, g)
  /\ ~readonly /\ ~dn => OwedIn(rows, listid, d, g)
  /\ dn => DOMAIN media = {} \/ readonly

\* media_next gives what is owed, and calls itself for ever only if there is nothing.
LEMMA NextFacts ==
  ASSUME Scalars, Library, List, ~down, NEW lp, NEW rand, MediaNext(lp, rand)
  PROVE  /\ UNCHANGED <<media, opuses, words, listid, oldlistid, readonly>>
         /\ mediaid' \in {-1} \cup Ids
         /\ \E p, d, g, dn :
              /\ p = playlist' /\ d = due' /\ g = given' /\ dn = down'
              /\ Leaves(p, d, g, dn, Ids)
<1>1. UNCHANGED <<media, opuses, words, listid, oldlistid, readonly>>
  BY DEF MediaNext
<1>2. PICK I, rows : I = Ids /\ rows = playlist /\ rows \in Seq(RowOf(I))
  BY DEF List
<1>3. PICK d, g : d = due /\ g = given /\ Counts(d, g)
                  /\ (~readonly => LikedIn(d, g) /\ OwedIn(rows, listid, d, g))
  BY <1>2 DEF List
<1>4. MediaOf(I) /\ listid \in Lists
  BY <1>2, LibraryFacts DEF Scalars
<1>5. PICK full : full = Refilled
  OBVIOUS
<1>6. full \in Seq(RowOf(I))
  <2>1. CASE readonly
    BY <1>2, <1>5, <2>1 DEF Refilled
  <2>2. CASE ~readonly
    <3>1. full = Fill(rows, listid, Titles)
      BY <1>2, <1>5, <2>2 DEF Refilled
    <3>2. QED
      BY <1>2, <1>4, <3>1, FillFacts, Zenon
  <2>3. QED
    BY <2>1, <2>2
<1>7. CASE NextInList(rand)
  <2>1. PICK n \in Eligible(playlist, mediaid, rand) :
          Give(playlist, playlist[n]) /\ given' = Count(given, playlist[n].id)
    BY <1>7 DEF NextInList
  <2>2. UNCHANGED <<due, down>>
    BY <1>7 DEF NextInList
  <2>3. n \in DOMAIN rows /\ rows[n].listid = listid /\ rows[n].likes > 0
    BY <1>2, <2>1, EligibleFacts
  <2>4. PICK p, h : p = Liked(rows, rows[n]) /\ h = Count(g, rows[n].id)
    OBVIOUS
  <2>5. /\ p \in Seq(RowOf(I)) /\ Counts(d, h)
        /\ ~readonly => LikedIn(d, h) /\ OwedIn(p, listid, d, h)
    BY <1>2, <1>3, <2>3, <2>4, Giving, Zenon
  <2>6. playlist' = p /\ given' = h /\ mediaid' = rows[n].id
    BY <1>2, <1>3, <2>1, <2>4 DEF Give
  <2>7. rows[n].id \in I
    <3>1. rows[n] \in RowOf(I)
      BY <1>2, <2>3
    <3>2. QED
      BY <3>1 DEF RowOf
  <2>8. Leaves(p, d, h, FALSE, I)
    BY <2>5 DEF Leaves
  <2>9. due' = d /\ down' = FALSE
    BY <1>3, <2>2
  <2>10. mediaid' \in {-1} \cup I
    BY <2>6, <2>7
  <2>11. QED
    BY <1>1, <1>2, <2>6, <2>8, <2>9, <2>10, Zenon
<1>8. CASE NextTurn(rand)
  <2>1. CASE \E n \in Eligible(full, -1, rand) :
               /\ Give(full, full[n])
               /\ due' = Due(full, listid)
               /\ given' = Count(NoneOf(due'), full[n].id)
               /\ UNCHANGED down
    <3>1. PICK n \in Eligible(full, -1, rand) :
               /\ Give(full, full[n])
               /\ due' = Due(full, listid)
               /\ given' = Count(NoneOf(due'), full[n].id)
               /\ UNCHANGED down
      BY <2>1
    <3>2. n \in DOMAIN full /\ full[n].listid = listid /\ full[n].likes > 0
      BY <1>6, EligibleFacts
    <3>3. PICK e, f, p, h : e = Due(full, listid) /\ f = NoneOf(e) /\ p = Liked(full, full[n])
                            /\ h = Count(f, full[n].id)
      OBVIOUS
    <3>4. Counts(e, f) /\ LikedIn(e, f) /\ OwedIn(full, listid, e, f)
      BY <1>6, <3>3, Setting, Zenon
    <3>5. /\ p \in Seq(RowOf(I)) /\ Counts(e, h)
          /\ ~readonly => LikedIn(e, h) /\ OwedIn(p, listid, e, h)
      <4>1. ~readonly => LikedIn(e, f) /\ OwedIn(full, listid, e, f)
        BY <3>4
      <4>2. QED
        BY <1>6, <3>2, <3>3, <3>4, <4>1, Giving
    <3>6. playlist' = p /\ due' = e /\ given' = h /\ mediaid' = full[n].id
      BY <3>1, <3>3 DEF Give
    <3>7. full[n].id \in I
      <4>1. full[n] \in RowOf(I)
        BY <1>6, <3>2
      <4>2. QED
        BY <4>1 DEF RowOf
    <3>8. Leaves(p, e, h, FALSE, I)
      BY <3>5 DEF Leaves
    <3>9. down' = FALSE /\ mediaid' \in {-1} \cup I
      BY <3>1, <3>6, <3>7
    <3>10. QED
      BY <1>1, <1>2, <3>6, <3>8, <3>9, Zenon
  <2>2. CASE /\ Eligible(full, -1, rand) = {}
             /\ playlist' = full /\ mediaid' = -1
             /\ down' = TRUE
             /\ UNCHANGED history
    <3>1. DOMAIN media = {} \/ readonly
      <4> SUFFICES ASSUME ~readonly, NEW m \in DOMAIN media PROVE FALSE
        OBVIOUS
      <4>1. full = Fill(rows, listid, Titles)
        BY <1>2, <1>5 DEF Refilled
      <4>2. m \in Entering(Titles)
        BY DEF Entering, Library
      <4>3. \E n \in DOMAIN full : full[n].listid = listid /\ full[n].likes > 0
        <5>1. \E n \in DOMAIN Fill(rows, listid, Titles) :
                /\ Fill(rows, listid, Titles)[n].listid = listid
                /\ Fill(rows, listid, Titles)[n].likes > 0
          BY <1>2, <1>4, <4>2, FillFacts
        <5>2. QED
          BY <4>1, <5>1, Zenon
      <4>4. QED
        BY <1>6, <2>2, <4>3, EligibleFacts
    <3>2. Leaves(full, d, g, TRUE, I)
      BY <1>3, <1>6, <3>1 DEF Leaves
    <3>3. playlist' = full /\ due' = d /\ given' = g /\ down' = TRUE /\ mediaid' \in {-1} \cup I
      BY <1>3, <2>2 DEF history
    <3>4. QED
      BY <1>1, <1>2, <3>2, <3>3, Zenon
  <2>3. QED
    BY <1>5, <1>8, <2>1, <2>2 DEF NextTurn
<1>9. CASE NextEnd(rand)
  <2>1. PICK e, f : e = Due(full, listid) /\ f = NoneOf(e)
    OBVIOUS
  <2>2. Counts(e, f) /\ LikedIn(e, f) /\ OwedIn(full, listid, e, f)
    BY <1>6, <2>1, Setting, Zenon
  <2>3. playlist' = full /\ mediaid' = -1 /\ due' = e /\ given' = f /\ down' = down
    BY <1>5, <1>9, <2>1 DEF NextEnd
  <2>4. Leaves(full, e, f, FALSE, I)
    BY <1>6, <2>2 DEF Leaves
  <2>5. down' = FALSE /\ mediaid' \in {-1} \cup I
    BY <2>3
  <2>6. QED
    BY <1>1, <1>2, <2>3, <2>4, <2>5, Zenon
<1>10. QED
  BY <1>7, <1>8, <1>9 DEF MediaNext

\* The same for the two callers: the main loop and a change of the options
LEMMA AnyNext ==
  ASSUME Scalars, Library, List, ~down, MediaNext(loop, random) \/ MediaNext(loop', random')
  PROVE  /\ UNCHANGED <<media, opuses, words, listid, oldlistid, readonly>>
         /\ mediaid' \in {-1} \cup Ids
         /\ \E p, d, g, dn :
              /\ p = playlist' /\ d = due' /\ g = given' /\ dn = down'
              /\ Leaves(p, d, g, dn, Ids)
<1>1. CASE MediaNext(loop, random)
  BY <1>1, NextFacts, Zenon
<1>2. CASE MediaNext(loop', random')
  BY <1>2, NextFacts, Zenon
<1>3. QED
  BY <1>1, <1>2

-----------------------------------------------------------------------------
(* The steps *)

\* The setup stays, the calls that are left become fewer, and the rest has its types.
LEMMA StepScalars ==
  ASSUME Scalars, Library, List, [Next]_vars
  PROVE  Scalars' /\ setup' = setup /\ calls' <= calls /\ Ids' = Ids
<1> USE MediaSqliteAssumption
<1>0. /\ setup \in Setups /\ setup.calls \in Nat /\ calls \in 0 .. setup.calls
      /\ \A o \in setup.options : o[1] \in BOOLEAN /\ o[2] \in BOOLEAN
      /\ Default \in Lists /\ Filtered \in Lists /\ 0 \in Lists
  BY DEF Scalars, Lists
<1>1. setup' = setup /\ calls' <= calls /\ calls' \in 0 .. setup.calls
  BY <1>0 DEF Next, Play, Stop, Ask, Change, Options, SetNext, InsertNew, InsertAgain,
     RemoveEntry, Unlink, Filter, Unfilter, Open, Call, vars
<1>2. Ids' = Ids
  BY <1>1 DEF Ids
<1>3. DOMAIN opuses \in SUBSET Ids
  BY LibraryFacts
<1>4. /\ words' \in BOOLEAN /\ loop' \in BOOLEAN /\ random' \in BOOLEAN
      /\ listid' \in Lists /\ oldlistid' \in Lists
      /\ mediaid' \in {-1, 0} \cup Ids
      /\ readonly' \in BOOLEAN /\ down' \in BOOLEAN
  <2> USE DEF Scalars
  <2>1. CASE Play
    <3>1. /\ UNCHANGED <<words, listid, oldlistid, readonly>> /\ mediaid' \in {-1} \cup Ids
          /\ down' \in BOOLEAN
      BY <2>1, AnyNext DEF Play, Leaves
    <3>2. QED
      BY <2>1, <3>1 DEF Play
  <2>2. CASE Options
    <3>1. PICK o \in setup.options : loop' = o[1] /\ random' = o[2]
      BY <2>2 DEF Options
    <3>2. loop' \in BOOLEAN /\ random' \in BOOLEAN
      BY <1>0, <3>1
    <3>3. CASE phase \in {"stop", "stopping"}
      BY <2>2, <3>2, <3>3 DEF Options, base
    <3>4. CASE phase \notin {"stop", "stopping"}
      <4>1. ~down /\ MediaNext(loop', random')
        BY <2>2, <3>4 DEF Options, Call
      <4>2. /\ UNCHANGED <<words, listid, oldlistid, readonly>> /\ mediaid' \in {-1} \cup Ids
            /\ down' \in BOOLEAN
        BY <4>1, AnyNext DEF Leaves
      <4>3. QED
        BY <3>2, <4>2
    <3>5. QED
      BY <3>3, <3>4
  <2>3. CASE Stop
    BY <2>3 DEF Stop, base
  <2>4. CASE Ask \/ Change
    BY <2>4 DEF Ask, Change, base, ctx
  <2>5. CASE SetNext
    <3>1. mediaid' \in DOMAIN opuses
      BY <2>5 DEF SetNext, Library
    <3>2. QED
      BY <1>3, <2>5, <3>1 DEF SetNext, base
  <2>6. CASE \E u \in Urls : InsertNew(u) \/ InsertAgain(u)
    BY <2>6 DEF InsertNew, InsertAgain, ctx
  <2>7. CASE RemoveEntry \/ Unlink
    BY <2>7 DEF RemoveEntry, Unlink, ctx
  <2>8. CASE Filter
    BY <1>0, <2>8 DEF Filter, Created
  <2>9. CASE Unfilter
    BY <1>0, <2>9 DEF Unfilter, Created
  <2>10. CASE Open
    BY <1>0, <2>10 DEF Open
  <2>11. CASE UNCHANGED vars
    BY <2>11 DEF vars, base, ctx
  <2>12. QED
    BY <2>1, <2>2, <2>3, <2>4, <2>5, <2>6, <2>7, <2>8, <2>9, <2>10, <2>11 DEF Next
<1>5. QED
  BY <1>1, <1>2, <1>4 DEF Scalars

\* The opus of a title has it, or is a new one for a title that none has.
LEMMA OpusFacts ==
  ASSUME NEW t, opuses \in Seq(Titles)
  PROVE  /\ OpusOf(t) \in 1 .. Len(opuses) + 1
         /\ OpusOf(t) <= Len(opuses) => opuses[OpusOf(t)] = t
         /\ OpusOf(t) > Len(opuses) => \A o \in DOMAIN opuses : opuses[o] # t
<1> DEFINE same == {o \in DOMAIN opuses : opuses[o] = t}
<1>1. Len(opuses) \in Nat /\ DOMAIN opuses = 1 .. Len(opuses)
  OBVIOUS
<1>2. same \in SUBSET Nat
  BY <1>1
<1>3. OpusOf(t) = IF same = {} THEN Len(opuses) + 1 ELSE Min(same)
  BY DEF OpusOf
<1>4. CASE same = {}
  BY <1>1, <1>3, <1>4
<1>5. CASE same # {}
  <2>1. Min(same) \in same
    BY <1>2, <1>5, MinIsIn
  <2>2. QED
    BY <1>1, <1>3, <1>5, <2>1
<1>6. QED
  BY <1>4, <1>5

\* The calls that are made leave more numbers.
LEMMA RoomGrows ==
  ASSUME Scalars, calls' \in 0 .. setup.calls, calls' <= calls
  PROVE  /\ Cardinality(Urls) * (1 + setup.calls - calls) \in Nat
         /\ Cardinality(Urls) * (1 + setup.calls - calls') \in Nat
         /\ Cardinality(Urls) * (1 + setup.calls - calls)
              <= Cardinality(Urls) * (1 + setup.calls - calls')
         /\ calls' = calls - 1 =>
              Cardinality(Urls) * (1 + setup.calls - calls')
                = Cardinality(Urls) * (1 + setup.calls - calls) + Cardinality(Urls)
<1>1. PICK c \in Nat : c = Cardinality(Urls)
  BY MediaSqliteAssumption, FS_CardinalityType
<1>2. PICK k, n \in Nat : k = 1 + setup.calls - calls /\ n = 1 + setup.calls - calls'
  <2>1. setup.calls \in Nat /\ calls \in 0 .. setup.calls
    BY MediaSqliteAssumption DEF Scalars
  <2>2. 1 + setup.calls - calls \in Nat /\ 1 + setup.calls - calls' \in Nat
    BY <2>1
  <2>3. QED
    BY <2>2
<1>3. k <= n /\ (calls' = calls - 1 => n = k + 1)
  <2>1. setup.calls \in Nat /\ calls \in 0 .. setup.calls
    BY MediaSqliteAssumption DEF Scalars
  <2>2. QED
    BY <1>2, <2>1
<1>4. c * k \in Nat /\ c * n \in Nat /\ c * k <= c * n /\ c * (k + 1) = c * k + c
  BY <1>3, Products, ProductsGrow
<1>5. QED
  BY <1>1, <1>2, <1>3, <1>4

\* The likes of a url, those of an uninitialized variable included
LEMMA LikesAreNumbers ==
  ASSUME Scalars, NEW u \in Urls
  PROVE  LikesOf(u) \subseteq Int
<1>1. setup.likes \in [Urls -> Nat] /\ Garbage \subseteq Int
  BY MediaSqliteAssumption DEF Scalars
<1>2. PICK n \in Nat : n = setup.likes[u]
  BY <1>1
<1>3. LikesOf(u) = IF n > 0 THEN {n} ELSE Garbage
  BY <1>2 DEF LikesOf
<1>4. CASE n > 0
  BY <1>3, <1>4
<1>5. CASE ~(n > 0)
  BY <1>1, <1>3, <1>5
<1>6. QED
  BY <1>4, <1>5

\* A new url, with a number of its own and perhaps a new opus
LEMMA InsertKeeps ==
  ASSUME Scalars, Library, setup' = setup, calls' = calls, NEW u \in Urls, InsertNew(u)
  PROVE  Library'
<1> USE MediaSqliteAssumption
<1>1. PICK N, t, o, m : /\ N = Len(opuses) /\ N \in Nat /\ t = setup.title[u]
                        /\ o = OpusOf(t) /\ m = Top(DOMAIN media) + 1
  BY DEF Library
<1>2. t \in Titles /\ setup.album \subseteq Urls /\ setup.likes \in [Urls -> Nat]
  BY <1>1 DEF Scalars
<1>3. /\ opuses \in Seq(Titles) /\ DOMAIN opuses = 1 .. N
      /\ o \in 1 .. N + 1
      /\ o <= N => opuses[o] = t
      /\ o > N => \A n \in 1 .. N : opuses[n] # t
  <2>1. opuses \in Seq(Titles)
    BY DEF Library
  <2>2. QED
    BY <1>1, <2>1, OpusFacts
<1>4. PICK l \in LikesOf(u) :
        media' = [x \in DOMAIN media \cup {m} |->
                    IF x = m THEN MediaRow(u, o, Written(l)) ELSE media[x]]
  BY <1>1 DEF InsertNew
<1>5. opuses' = IF o > N THEN Append(opuses, t) ELSE opuses
  BY <1>1 DEF InsertNew
<1>6. /\ opuses' \in Seq(Titles) /\ DOMAIN opuses \subseteq DOMAIN opuses' /\ o \in DOMAIN opuses'
      /\ \A n \in DOMAIN opuses : opuses'[n] = opuses[n]
      /\ \A n \in DOMAIN opuses' : n \notin DOMAIN opuses => opuses'[n] = t /\ n = N + 1 /\ o > N
  <2>1. PICK s \in Seq(Titles) : s = opuses
    BY <1>3
  <2>2. CASE o > N
    <3>1. /\ Append(s, t) \in Seq(Titles) /\ DOMAIN Append(s, t) = 1 .. N + 1
          /\ \A n \in 1 .. N : Append(s, t)[n] = s[n]
          /\ Append(s, t)[N + 1] = t
      BY <1>1, <1>2, <2>1
    <3>2. opuses' = Append(s, t)
      BY <1>5, <2>1, <2>2
    <3>3. o = N + 1
      BY <1>1, <1>3, <2>2
    <3>4. QED
      BY <1>1, <1>3, <2>1, <2>2, <3>1, <3>2, <3>3
  <2>3. CASE ~(o > N)
    BY <1>1, <1>3, <1>5, <2>3
  <2>4. QED
    BY <2>2, <2>3
<1>7. \A n, p \in DOMAIN opuses' : opuses'[n] = opuses'[p] => n = p
  <2> SUFFICES ASSUME NEW n \in DOMAIN opuses', NEW p \in DOMAIN opuses', opuses'[n] = opuses'[p]
               PROVE  n = p
    OBVIOUS
  <2>1. CASE n \in DOMAIN opuses /\ p \in DOMAIN opuses
    BY <1>6, <2>1 DEF Library
  <2>2. CASE n \notin DOMAIN opuses \/ p \notin DOMAIN opuses
    BY <1>3, <1>6, <2>2
  <2>3. QED
    BY <2>1, <2>2
<1>8. \A n \in DOMAIN opuses' : \E v \in Urls : opuses'[n] = setup'.title[v]
  <2> SUFFICES ASSUME NEW n \in DOMAIN opuses' PROVE \E v \in Urls : opuses'[n] = setup.title[v]
    OBVIOUS
  <2>1. CASE n \in DOMAIN opuses
    BY <1>6, <2>1 DEF Library
  <2>2. CASE n \notin DOMAIN opuses
    BY <1>1, <1>6, <2>2
  <2>3. QED
    BY <2>1, <2>2
<1>9. /\ DOMAIN media \in SUBSET (Nat \ {0}) /\ DOMAIN media \in SUBSET Nat
      /\ IsFiniteSet(DOMAIN media)
  BY LibraryFacts DEF Library
<1>10. /\ m \in Nat \ {0} /\ m \notin DOMAIN media
       /\ Cardinality(DOMAIN media \cup {m}) = Cardinality(DOMAIN media) + 1
       /\ Top(DOMAIN media \cup {m}) = m
  BY <1>1, <1>9, TopFacts, TopGrows
<1>11. DOMAIN media' = DOMAIN media \cup {m}
  BY <1>4
<1>12. Written(l) \in Nat \ {0}
  <2>1. l \in Int
    BY LikesAreNumbers
  <2>2. QED
    BY <2>1 DEF Written
<1>13. /\ media'[m] \in [url : Urls, opus : DOMAIN opuses', album : BOOLEAN, likes : Nat \ {0}]
       /\ media'[m].url = u
  <2>1. media'[m] = [url |-> u, opus |-> o, album |-> u \in setup.album, likes |-> Written(l)]
    BY <1>4 DEF MediaRow
  <2>2. QED
    BY <1>6, <1>12, <2>1
<1>14. \A x \in DOMAIN media : media'[x] = media[x]
  BY <1>4, <1>10
<1>15. \A x \in DOMAIN media' :
         media'[x] \in [url : Urls, opus : DOMAIN opuses', album : BOOLEAN, likes : Nat \ {0}]
  BY <1>6, <1>11, <1>13, <1>14 DEF Library
<1>16. \A x, y \in DOMAIN media' : media'[x].url = media'[y].url => x = y
  <2>1. \A x \in DOMAIN media : media[x].url # u
    BY DEF InsertNew, IsThere
  <2>2. QED
    BY <1>11, <1>13, <1>14, <2>1 DEF Library
<1>17. Top(DOMAIN media') + Cardinality(Urls) - Cardinality(DOMAIN media')
         <= Cardinality(Urls) * (1 + setup'.calls - calls')
  <2>1. Top(DOMAIN media') = Top(DOMAIN media) + 1
        /\ Cardinality(DOMAIN media') = Cardinality(DOMAIN media) + 1
    BY <1>1, <1>10, <1>11
  <2>2. /\ Top(DOMAIN media) \in Nat /\ Cardinality(DOMAIN media) \in Nat
        /\ Cardinality(Urls) \in Nat
    BY <1>9, TopFacts, LibraryFacts
  <2>3. Top(DOMAIN media) + Cardinality(Urls) - Cardinality(DOMAIN media)
          <= Cardinality(Urls) * (1 + setup'.calls - calls')
    BY DEF Library
  <2>4. QED
    BY <2>1, <2>2, <2>3
<1>18. DOMAIN media' \in SUBSET (Nat \ {0})
  BY <1>9, <1>10, <1>11
<1>19. QED
  BY <1>6, <1>7, <1>8, <1>15, <1>16, <1>17, <1>18 DEF Library

\* Every step keeps the tables of the media and of the opuses.
LEMMA StepLibrary ==
  ASSUME Scalars, Library, List, [Next]_vars
  PROVE  Library'
<1> USE MediaSqliteAssumption
<1>1. setup' = setup /\ calls' <= calls /\ calls' \in 0 .. setup.calls
  BY StepScalars DEF Scalars
<1>2. PICK old, new \in Nat :
        /\ old = Cardinality(Urls) * (1 + setup.calls - calls)
        /\ new = Cardinality(Urls) * (1 + setup.calls - calls')
        /\ old <= new
        /\ calls' = calls - 1 => new = old + Cardinality(Urls)
  BY <1>1, RoomGrows
<1>3. /\ Cardinality(Urls) \in Nat /\ IsFiniteSet(DOMAIN media)
      /\ Cardinality(DOMAIN media) \in Nat /\ DOMAIN media \in SUBSET Nat
      /\ Cardinality(DOMAIN media) <= Cardinality(Urls)
      /\ Top(DOMAIN media) \in Nat
      /\ Top(DOMAIN media) + Cardinality(Urls) - Cardinality(DOMAIN media) <= old
  <2>1. IsFiniteSet(DOMAIN media) /\ DOMAIN media \in SUBSET Nat
    BY LibraryFacts DEF Library
  <2>2. QED
    BY <1>2, <2>1, LibraryFacts, TopFacts DEF Library
<1>4. ASSUME DOMAIN media' = DOMAIN media
      PROVE  Top(DOMAIN media') + Cardinality(Urls) - Cardinality(DOMAIN media')
               <= Cardinality(Urls) * (1 + setup'.calls - calls')
  BY <1>1, <1>2, <1>3, <1>4
<1>5. CASE UNCHANGED <<media, opuses>>
  BY <1>1, <1>4, <1>5 DEF Library
<1>6. CASE \E u \in Urls : InsertNew(u)
  <2>1. calls' = calls
    BY <1>6 DEF InsertNew
  <2>2. QED
    BY <1>1, <1>6, <2>1, InsertKeeps
<1>7. CASE \E u \in Urls : InsertAgain(u)
  <2>1. PICK m \in DOMAIN media, l \in Int :
          media' = [media EXCEPT ![m].likes = IF l > 0 THEN l ELSE @]
    <3>1. PICK u \in Urls : InsertAgain(u)
      BY <1>7
    <3>2. PICK m \in DOMAIN media : \E l \in LikesOf(u) :
            media' = [media EXCEPT ![m].likes = IF l > 0 THEN l ELSE @]
      BY <3>1 DEF InsertAgain
    <3>3. LikesOf(u) \subseteq Int
      BY LikesAreNumbers
    <3>4. QED
      BY <3>2, <3>3
  <2>2. opuses' = opuses
    BY <1>7 DEF InsertAgain
  <2>3. DOMAIN media' = DOMAIN media
    BY <2>1
  <2>4. \A x \in DOMAIN media :
          /\ media'[x] \in [url : Urls, opus : DOMAIN opuses, album : BOOLEAN, likes : Nat \ {0}]
          /\ media'[x].url = media[x].url
    <3> SUFFICES ASSUME NEW x \in DOMAIN media
        PROVE  /\ media'[x] \in [url : Urls, opus : DOMAIN opuses, album : BOOLEAN, likes : Nat \ {0}]
               /\ media'[x].url = media[x].url
      OBVIOUS
    <3>1. media[x] \in [url : Urls, opus : DOMAIN opuses, album : BOOLEAN, likes : Nat \ {0}]
      BY DEF Library
    <3>2. media'[x] = IF x = m THEN [media[x] EXCEPT !.likes = IF l > 0 THEN l ELSE @] ELSE media[x]
      BY <2>1
    <3>3. QED
      BY <2>1, <3>1, <3>2
  <2>5. QED
    BY <1>1, <1>4, <2>2, <2>3, <2>4 DEF Library
<1>8. CASE Unlink
  <2>1. PICK m \in DOMAIN media :
          media' = [x \in {y \in DOMAIN media : media[y].opus # m} |-> media[x]]
    BY <1>8 DEF Unlink
  <2>2. opuses' = opuses /\ calls' = calls - 1
    BY <1>8 DEF Unlink, Call
  <2>3. DOMAIN media' \in SUBSET DOMAIN media /\ \A x \in DOMAIN media' : media'[x] = media[x]
    BY <2>1
  <2>4. PICK T : T = DOMAIN media'
    OBVIOUS
  <2>5. Top(T) \in Nat /\ Top(T) <= Top(DOMAIN media) /\ Cardinality(T) \in Nat
    <3>1. IsFiniteSet(T)
      BY <1>3, <2>3, <2>4, FS_Subset, Zenon
    <3>2. QED
      BY <1>3, <2>3, <2>4, <3>1, TopShrinks, FS_CardinalityType
  <2>6. Top(T) + Cardinality(Urls) - Cardinality(T) <= new
    BY <1>2, <1>3, <2>2, <2>5
  <2>7. QED
    BY <1>1, <1>2, <2>2, <2>3, <2>4, <2>6 DEF Library
<1>9. QED
  <2>1. \/ UNCHANGED <<media, opuses>>
        \/ \E u \in Urls : InsertNew(u)
        \/ \E u \in Urls : InsertAgain(u)
        \/ Unlink
    BY DEF Next, Play, Stop, Ask, Change, Options, SetNext, MediaNext,
       RemoveEntry, Filter, Unfilter, Open, vars, base
  <2>2. QED
    BY <1>5, <1>6, <1>7, <1>8, <2>1

\* What is found has a number and a url.
LEMMA FoundFacts ==
  ASSUME Scalars, Library, NEW i, NEW f \in Found(i)
  PROVE  f \in Entries \cup {NoSource}
<1>1. DOMAIN opuses \in SUBSET Ids
  BY LibraryFacts
<1> DEFINE with == {m \in DOMAIN media : media[m].opus = i /\ media[m].album}
<1>2. CASE with = {}
  BY <1>2 DEF Found
<1>3. CASE with # {}
  <2>1. PICK m \in with : f = [id |-> i, url |-> media[m].url]
    BY <1>3 DEF Found
  <2>2. media[m].url \in Urls /\ i \in Ids
    BY <1>1, <2>1 DEF Library
  <2>3. QED
    BY <2>1, <2>2 DEF Entries
<1>4. QED
  BY <1>2, <1>3

\* Every step leaves the player with entries that were found.
LEMMA StepUser ==
  ASSUME Scalars, Library, List, UserTypeOK(Entries), [Next]_vars
  PROVE  UserTypeOK(Entries)'
<1>1. PICK E : E = Entries /\ UserTypeOK(E)
  OBVIOUS
<1>2. Entries' = E
  <2>1. Ids' = Ids
    BY StepScalars
  <2>2. QED
    BY <1>1, <2>1 DEF Entries
<1>3. ASSUME NEW i, NEW f \in Found(i) PROVE f \in E \cup {NoSource}
  BY <1>1, FoundFacts
<1>4. /\ phase' \in {"stop", "play", "playing", "change", "stopping"}
      /\ src' \in E \cup {NoSource} /\ nextsrc' \in E \cup {NoSource}
  <2> USE <1>1 DEF UserTypeOK
  <2>1. CASE Play
    <3>1. CASE UNCHANGED user
      BY <3>1 DEF user
    <3>2. CASE \E f \in Found(mediaid') : EnginePlay(f)
      BY <1>3, <3>2 DEF EnginePlay, Prepare
    <3>3. QED
      BY <2>1, <3>1, <3>2 DEF Play
  <2>2. CASE Options \/ SetNext
    <3>1. CASE UNCHANGED user
      BY <3>1 DEF user
    <3>2. CASE \E f \in Found(mediaid') : Another(f)
      BY <1>3, <3>2 DEF Another, Prepare
    <3>3. QED
      BY <2>2, <3>1, <3>2 DEF Options, SetNext
  <2>3. CASE Stop
    BY <2>3 DEF Stop, EngineStop
  <2>4. CASE Ask
    BY <2>4 DEF Ask, AskPlay, AskStop
  <2>5. CASE Change
    BY <2>5 DEF Change, Over, EngineChange
  <2>6. CASE Open
    BY <2>6 DEF Open
  <2>7. CASE (\E u \in Urls : InsertNew(u) \/ InsertAgain(u))
             \/ RemoveEntry \/ Unlink \/ Filter \/ Unfilter
    BY <2>7 DEF InsertNew, InsertAgain, RemoveEntry, Unlink, Filter, Unfilter, user
  <2>8. CASE UNCHANGED vars
    BY <2>8 DEF vars, user
  <2>9. QED
    BY <2>1, <2>2, <2>3, <2>4, <2>5, <2>6, <2>7, <2>8 DEF Next
<1>5. QED
  BY <1>2, <1>4 DEF UserTypeOK

\* A call that changes the list sets it again.
LEMMA Reset ==
  ASSUME playlist' \in Seq(RowOf(Ids')), due' = Due(playlist', listid'), given' = NoneOf(due')
  PROVE  List'
<1>1. PICK I, p, l, d, g : I = Ids' /\ p = playlist' /\ l = listid' /\ d = due' /\ g = given'
  OBVIOUS
<1>2. p \in Seq(RowOf(I)) /\ d = Due(p, l) /\ g = NoneOf(d)
  BY <1>1
<1>3. Counts(d, g) /\ LikedIn(d, g) /\ OwedIn(p, l, d, g)
  BY <1>2, Setting
<1>4. QED
  BY <1>1, <1>2, <1>3 DEF List

\* Every step keeps what is owed of the list.
LEMMA StepList ==
  ASSUME Scalars, Library, List, NextReturns, [Next]_vars
  PROVE  List' /\ NextReturns'
<1>1. Ids' = Ids /\ Scalars' /\ Library'
  BY StepScalars, StepLibrary
<1>2. PICK I, rows : I = Ids /\ rows = playlist /\ rows \in Seq(RowOf(I))
  BY DEF List
<1>3. /\ MediaOf(I) /\ Default \in Lists /\ Filtered \in Lists
      /\ \A list : Emptied(rows, list) \in Seq(RowOf(I))
      /\ \A list, i : Without(rows, list, i) \in Seq(RowOf(I))
  BY <1>2, LibraryFacts, OnlyFacts DEF Lists, Emptied, Without
<1>4. CASE Play \/ (Options /\ phase \notin {"stop", "stopping"})
  <2>1. ~down /\ (MediaNext(loop, random) \/ MediaNext(loop', random'))
    BY <1>4 DEF Play, Options, Call
  <2>2. UNCHANGED <<media, listid, readonly>>
    BY <2>1, AnyNext
  <2>3. PICK p, d, g, dn : /\ p = playlist' /\ d = due' /\ g = given' /\ dn = down'
                           /\ Leaves(p, d, g, dn, I)
    BY <1>2, <2>1, AnyNext
  <2>4. QED
    BY <1>1, <1>2, <2>2, <2>3 DEF Leaves, List, NextReturns
<1>5. CASE \/ Stop \/ Ask \/ Change \/ SetNext \/ (\E u \in Urls : InsertAgain(u))
           \/ (Options /\ phase \in {"stop", "stopping"}) \/ UNCHANGED vars
  <2>1. UNCHANGED <<playlist, listid, readonly, down, due, given>>
    BY <1>5 DEF Stop, Ask, Change, SetNext, InsertAgain, Options, base, ctx, history, vars
  <2>2. ~down \/ UNCHANGED media
    BY <1>5 DEF Stop, Ask, Change, SetNext, InsertAgain, Options, Call, base, vars
  <2>3. QED
    BY <1>1, <2>1, <2>2 DEF List, NextReturns
<1>6. CASE \/ (\E u \in Urls : InsertNew(u)) \/ RemoveEntry \/ Unlink \/ Filter \/ Unfilter \/ Open
  <2>1. due' = Due(playlist', listid') /\ given' = NoneOf(due') /\ ~down /\ down' = down
    BY <1>6 DEF InsertNew, RemoveEntry, Unlink, Filter, Unfilter, Open, Call, ctx
  <2>2. playlist' \in Seq(RowOf(I))
    <3>1. CASE \E u \in Urls : InsertNew(u)
      <4>1. PICK u \in Urls : InsertNew(u)
        BY <3>1
      <4>2. PICK m, l : /\ m = Top(DOMAIN media) + 1 /\ l \in LikesOf(u)
                        /\ m \in DOMAIN media' /\ playlist' = Append(playlist, Row(m, listid, l))
        BY <4>1 DEF InsertNew
      <4>3. m \in I
        <5>1. (DOMAIN media \in SUBSET Ids)'
          BY <1>1, LibraryFacts, PTL
        <5>2. QED
          BY <1>1, <1>2, <4>2, <5>1
      <4>4. Row(m, listid, l) \in RowOf(I)
        BY <4>2, <4>3, LikesAreNumbers DEF Row, RowOf, Scalars
      <4>5. PICK r \in RowOf(I) : r = Row(m, listid, l)
        BY <4>4
      <4>6. Append(rows, r) \in Seq(RowOf(I))
        BY <1>2
      <4>7. QED
        BY <1>2, <4>2, <4>5, <4>6
    <3>2. CASE RemoveEntry \/ Unlink
      <4>1. \E i : playlist' = Without(playlist, listid, i)
        BY <3>2 DEF RemoveEntry, Unlink
      <4>2. PICK i, l : l = listid /\ playlist' = Without(rows, l, i)
        BY <1>2, <4>1
      <4>3. QED
        BY <1>3, <4>2
    <3>3. CASE Filter
      <4>1. PICK list \in Lists : list = Created
        BY <1>3 DEF Created
      <4>2. PICK empty : empty = Emptied(rows, list) /\ empty \in Seq(RowOf(I))
        BY <1>3
      <4>3. \A titles : Fill(empty, list, titles) \in Seq(RowOf(I))
        BY <1>3, <4>2, FillFacts
      <4>4. \A titles, more : Fill(Fill(empty, list, titles), list, more) \in Seq(RowOf(I))
        BY <1>3, <4>3, FillFacts
      <4>5. \/ playlist' = playlist
            \/ \E titles : playlist' = Fill(empty, list, titles)
            \/ \E titles, more : playlist' = Fill(Fill(empty, list, titles), list, more)
        BY <1>2, <3>3, <4>1, <4>2 DEF Filter
      <4>6. QED
        BY <1>2, <4>3, <4>4, <4>5
    <3>4. CASE Unfilter
      BY <1>2, <1>3, <3>4 DEF Unfilter
    <3>5. CASE Open
      <4>1. Fill(rows, Default, Titles) \in Seq(RowOf(I))
        BY <1>2, <1>3, FillFacts
      <4>2. QED
        BY <1>2, <3>5, <4>1 DEF Open
    <3>6. QED
      BY <1>6, <3>1, <3>2, <3>3, <3>4, <3>5
  <2>3. List'
    BY <1>1, <1>2, <2>1, <2>2, Reset
  <2>4. QED
    BY <2>1, <2>3 DEF NextReturns, Scalars
<1>7. QED
  BY <1>4, <1>5, <1>6 DEF Next

-----------------------------------------------------------------------------
(* The theorems *)

\* A new data base
LEMMA Start ==
  ASSUME Init
  PROVE  IInv
<1> USE MediaSqliteAssumption
<1>1. setup \in Setups /\ setup.calls \in Nat /\ calls = setup.calls
  BY DEF Init
<1>2. PICK c \in Nat : c = Cardinality(Urls)
  BY FS_CardinalityType
<1>3. Scalars
  <2>1. loop \in BOOLEAN /\ random \in BOOLEAN
    <3>1. PICK o \in setup.options : loop = o[1] /\ random = o[2]
      BY DEF Init
    <3>2. o \in BOOLEAN \X BOOLEAN
      BY <1>1, <3>1
    <3>3. QED
      BY <3>1, <3>2
  <2>2. QED
    <3>1. /\ words = FALSE /\ listid = Default /\ oldlistid = 0 /\ mediaid = 0
          /\ readonly = FALSE /\ down = FALSE
      BY DEF Init
    <3>2. calls \in 0 .. setup.calls
      BY <1>1
    <3>3. QED
      BY <1>1, <2>1, <3>1, <3>2 DEF Scalars, Lists
<1>4. /\ DOMAIN media = {} /\ DOMAIN opuses = {} /\ DOMAIN playlist = {}
      /\ DOMAIN due = {} /\ DOMAIN given = {}
  BY DEF Init
<1>5. Library
  <2>1. Top(DOMAIN media) = 0 /\ Cardinality(DOMAIN media) = 0
    BY <1>4, FS_EmptySet DEF Top
  <2>2. c * (1 + setup.calls - calls) = c
    <3>1. 1 + setup.calls - calls = 1
      BY <1>1
    <3>2. QED
      BY <3>1
  <2>3. opuses \in Seq(Titles)
    BY DEF Init
  <2>4. QED
    <3>1. Top(DOMAIN media) + Cardinality(Urls) - Cardinality(DOMAIN media)
            <= Cardinality(Urls) * (1 + setup.calls - calls)
      BY <1>2, <2>1, <2>2
    <3>2. QED
      BY <1>4, <2>3, <3>1 DEF Library
<1>6. UserTypeOK(Entries)
  BY DEF Init, UserInit, UserTypeOK
<1>7. List
  <2>1. playlist \in Seq(RowOf(Ids))
    BY DEF Init
  <2>2. QED
    BY <1>4, <2>1 DEF List, Counts, LikedIn, OwedIn
<1>8. NextReturns
  BY DEF Init, NextReturns
<1>9. QED
  BY <1>3, <1>5, <1>6, <1>7, <1>8 DEF IInv

\* The parts of the invariant hold together, from a new data base through every call.
THEOREM Invariance == Spec => []IInv
<1>1. Init => IInv
  BY Start
<1>2. IInv /\ [Next]_vars => IInv'
  BY StepScalars, StepLibrary, StepUser, StepList DEF IInv
<1>3. QED
  BY <1>1, <1>2, PTL DEF Spec

\* The rows, the numbers and what the player holds have their types: a media never
\* has a number past those that the calls may reach (media_sqlite.c:903-977).
THEOREM TypeCorrectness == Spec => []TypeOK
<1>1. IInv => TypeOK
  <2> SUFFICES ASSUME IInv PROVE TypeOK
    OBVIOUS
  <2>1. DOMAIN media \subseteq Ids /\ opuses \in Seq(Titles)
        /\ \A m \in DOMAIN media :
             /\ media[m].url \in Urls /\ media[m].opus \in DOMAIN opuses /\ media[m].likes > 0
    <3>1. Scalars /\ Library
      BY DEF IInv
    <3>2. QED
      BY <3>1, LibraryFacts DEF Library
  <2>2. \A n \in DOMAIN playlist :
          playlist[n].listid \in Lists /\ playlist[n].likes \in Int /\ playlist[n].id \in Ids
    <3>1. \A n \in DOMAIN playlist : playlist[n] \in RowOf(Ids)
      BY DEF IInv, List
    <3>2. QED
      BY <3>1 DEF RowOf
  <2>3. DOMAIN given = DOMAIN due
    BY DEF IInv, List, Counts
  <2>4. UserTypeOK(Entries) /\ Scalars
    BY DEF IInv
  <2>5. QED
    BY <2>1, <2>2, <2>3, <2>4 DEF TypeOK, Scalars
<1>2. QED
  BY <1>1, Invariance, PTL

\* media_next never gives an entry more often than its likes say before the list is
\* set again, in order or at random (media_sqlite.c:1241-1311).
THEOREM GivenWithinLikes == Spec => []GivenAsLiked
<1>1. IInv => GivenAsLiked
  BY DEF IInv, List, LikedIn, GivenAsLiked
<1>2. QED
  BY <1>1, Invariance, PTL

\* media_next, which calls itself again after it has filled the list, does so once,
\* unless there is no media or the data base is read-only (media_sqlite.c:1298).
THEOREM NextComesBack == Spec => []NextReturns
<1>1. IInv => NextReturns
  BY DEF IInv
<1>2. QED
  BY <1>1, Invariance, PTL
=============================================================================
