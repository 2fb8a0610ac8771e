------------------------- MODULE StatementReadsProofs -------------------------
(***************************************************************************)
(* Proofs about what the server answers, for any table: following the      *)
(* tokens lists the rows asked for once, newest first, up to the page that *)
(* holds an amount that is no number.                                      *)
(***************************************************************************)
EXTENDS StatementReads, StatementRowsProofs

----------------------------------------------------------------------------
(* The order of the list.                                                  *)

\* Row j comes before row i.
Newer(j, i) ==
    \/ table[j].date > table[i].date
    \/ table[j].date = table[i].date /\ j > i

NewerThan(ids, i) == {j \in ids : Newer(j, i)}

\* How many of the rows come before row i.
Place(ids, i) == Cardinality(NewerThan(ids, i))

\* All of them.
Listed(ids) == NewestFirst(ids, Cardinality(ids))

TableTyped == table \in Seq(Transactions)

LEMMA RowsOfTable ==
    ASSUME TableTyped
    PROVE  /\ Len(table) \in Nat /\ DOMAIN table = 1 .. Len(table)
           /\ \A i \in DOMAIN table : i \in Nat \ {0} /\ table[i] \in Transactions
           /\ \A i \in DOMAIN table : table[i].date \in Nat
<1>1. Len(table) \in Nat /\ DOMAIN table = 1 .. Len(table)
      /\ \A i \in DOMAIN table : table[i] \in Transactions
  BY DEF TableTyped
<1>2. \A t \in Transactions : t.date \in Nat
  BY DEF Transactions
<1> QED
  BY <1>1, <1>2

LEMMA NewerOrder ==
    ASSUME TableTyped
    PROVE  /\ \A i \in DOMAIN table : ~Newer(i, i)
           /\ \A i, j \in DOMAIN table : i = j \/ Newer(i, j) \/ Newer(j, i)
           /\ \A i, j \in DOMAIN table : Newer(i, j) => ~Newer(j, i)
           /\ \A i, j, k \in DOMAIN table : Newer(i, j) /\ Newer(j, k) => Newer(i, k)
  BY RowsOfTable DEF Newer

LEMMA FiniteRows ==
    ASSUME TableTyped, NEW ids \in SUBSET DOMAIN table
    PROVE  IsFiniteSet(ids) /\ Cardinality(ids) \in Nat
<1>1. IsFiniteSet(1 .. Len(table))
  BY RowsOfTable, FS_Interval
<1> QED
  BY <1>1, RowsOfTable, FS_Subset, FS_CardinalityType

LEMMA PlaceRange ==
    ASSUME TableTyped, NEW ids \in SUBSET DOMAIN table, NEW i \in ids
    PROVE  Place(ids, i) \in 0 .. Cardinality(ids) - 1
<1>1. NewerThan(ids, i) \in SUBSET (ids \ {i})
  BY NewerOrder DEF NewerThan
<1>2. IsFiniteSet(ids \ {i}) /\ Cardinality(ids \ {i}) = Cardinality(ids) - 1
  BY FiniteRows, FS_RemoveElement
<1>3. Cardinality(NewerThan(ids, i)) \in Nat
      /\ Cardinality(NewerThan(ids, i)) <= Cardinality(ids) - 1
  BY <1>1, <1>2, FS_Subset, FS_CardinalityType
<1> QED
  BY <1>3, FiniteRows DEF Place

LEMMA PlaceGrows ==
    ASSUME TableTyped, NEW ids \in SUBSET DOMAIN table, NEW i \in ids, NEW j \in ids, Newer(j, i)
    PROVE  Place(ids, j) < Place(ids, i)
<1> DEFINE A == NewerThan(ids, i)
           B == NewerThan(ids, j)
<1>1. A \in SUBSET DOMAIN table /\ j \in A
  BY DEF NewerThan
<1>2. B \in SUBSET (A \ {j})
  BY NewerOrder DEF NewerThan
<1>3. IsFiniteSet(A) /\ Cardinality(A) \in Nat
  BY <1>1, FiniteRows
<1>4. IsFiniteSet(A \ {j}) /\ Cardinality(A \ {j}) = Cardinality(A) - 1
  BY <1>1, <1>3, FS_RemoveElement
<1>5. Cardinality(B) <= Cardinality(A) - 1 /\ Cardinality(B) \in Nat
  BY <1>2, <1>4, FS_Subset, FS_CardinalityType
<1> QED
  BY <1>3, <1>5 DEF Place

LEMMA PlaceOrder ==
    ASSUME TableTyped, NEW ids \in SUBSET DOMAIN table, NEW i \in ids, NEW j \in ids
    PROVE  /\ Newer(j, i) <=> Place(ids, j) < Place(ids, i)
           /\ i = j <=> Place(ids, j) = Place(ids, i)
<1>1. Place(ids, i) \in Nat /\ Place(ids, j) \in Nat
  BY PlaceRange, FiniteRows
<1>2. /\ Newer(j, i) => Place(ids, j) < Place(ids, i)
      /\ Newer(i, j) => Place(ids, i) < Place(ids, j)
  BY PlaceGrows
<1>3. i = j \/ Newer(i, j) \/ Newer(j, i)
  BY NewerOrder
<1> QED
  BY <1>1, <1>2, <1>3

\* Every place is taken.
LEMMA PlaceTaken ==
    ASSUME TableTyped, NEW ids \in SUBSET DOMAIN table, NEW k \in 0 .. Cardinality(ids) - 1
    PROVE  \E i \in ids : Place(ids, i) = k
<1> DEFINE P == 0 .. Cardinality(ids) - 1
           f == [i \in ids |-> Place(ids, i)]
<1>1. IsFiniteSet(ids) /\ Cardinality(ids) \in Nat
  BY FiniteRows
<1>2. IsFiniteSet(P) /\ Cardinality(P) = Cardinality(ids)
  <2>1. PICK c \in Nat : c = Cardinality(ids)
    BY <1>1
  <2>2. IsFiniteSet(0 .. c - 1) /\ Cardinality(0 .. c - 1) = IF 0 > c - 1 THEN 0 ELSE c - 1 - 0 + 1
    <3>1. 0 \in Int /\ c - 1 \in Int
      OBVIOUS
    <3> QED
      BY ONLY <3>1, FS_Interval
  <2>3. Cardinality(0 .. c - 1) = c
    BY <2>2
  <2> QED
    BY <2>1, <2>2, <2>3
<1>3. f \in Injection(ids, P)
  <2>1. f \in [ids -> P]
    BY PlaceRange
  <2>2. \A i, j \in ids : f[i] = f[j] => i = j
    BY PlaceOrder
  <2> QED
    BY <2>1, <2>2 DEF Injection, IsInjective
<1>4. f \in Surjection(ids, P)
  <2> HIDE DEF f, P
  <2> QED
    BY <1>2, <1>3, FS_Injection
<1>5. \E i \in ids : f[i] = k
  <2>1. k \in P
    OBVIOUS
  <2> HIDE DEF f, P
  <2> QED
    BY <1>4, <2>1 DEF Surjection
<1> QED
  BY <1>5

----------------------------------------------------------------------------
(* A page.                                                                 *)

LEMMA MinOfTwo ==
    ASSUME NEW a \in Nat, NEW b \in Nat
    PROVE  Min({a, b}) = IF a < b THEN a ELSE b
<1>1. {a, b} \in SUBSET Nat /\ {a, b} # {}
  OBVIOUS
<1>2. Min({a, b}) \in {a, b} /\ Min({a, b}) <= a /\ Min({a, b}) <= b
  BY <1>1, MinOfNumbers
<1> QED
  BY <1>2

\* The newest rows are those of the first places, each in its place.
LEMMA Page ==
    ASSUME TableTyped, NEW ids \in SUBSET DOMAIN table, NEW limit \in Nat
    PROVE  LET page == NewestFirst(ids, limit)
           IN /\ page \in Seq(ids) /\ Len(page) = Min({limit, Cardinality(ids)})
              /\ Len(page) \in Nat /\ DOMAIN page = 1 .. Len(page)
              /\ \A n \in 1 .. Len(page) : page[n] \in ids /\ Place(ids, page[n]) = n - 1
<1> DEFINE page == NewestFirst(ids, limit)
           len  == Min({limit, Cardinality(ids)})
<1>1. len \in Nat /\ len <= Cardinality(ids) /\ Cardinality(ids) \in Nat
  BY FiniteRows, MinOfTwo
<1>2. page = [n \in 1 .. len |-> CHOOSE i \in ids : Place(ids, i) = n - 1]
  BY DEF NewestFirst, Place, NewerThan, Newer
<1>3. ASSUME NEW n \in 1 .. len PROVE page[n] \in ids /\ Place(ids, page[n]) = n - 1
  <2>1. n - 1 \in 0 .. Cardinality(ids) - 1
    BY <1>1
  <2>2. \E i \in ids : Place(ids, i) = n - 1
    BY <2>1, PlaceTaken
  <2>3. page[n] = CHOOSE i \in ids : Place(ids, i) = n - 1
    BY <1>2
  <2> HIDE DEF page
  <2> QED
    BY <2>2, <2>3
<1> HIDE DEF page, len
<1>4. page \in [1 .. len -> ids] /\ DOMAIN page = 1 .. len
  BY <1>2, <1>3
<1>5. page \in Seq(ids) /\ Len(page) = len
  <2>1. page \in Seq(ids)
    BY <1>1, <1>4
  <2> QED
    BY <1>1, <1>4, <2>1, LenProperties
<1> QED
  BY <1>1, <1>3, <1>4, <1>5 DEF page, len

LEMMA WholeList ==
    ASSUME TableTyped, NEW ids \in SUBSET DOMAIN table
    PROVE  /\ Listed(ids) \in Seq(ids) /\ Len(Listed(ids)) = Cardinality(ids)
           /\ \A n \in 1 .. Cardinality(ids) :
                Listed(ids)[n] \in ids /\ Place(ids, Listed(ids)[n]) = n - 1
<1>1. Cardinality(ids) \in Nat
  BY FiniteRows
<1>2. Min({Cardinality(ids), Cardinality(ids)}) = Cardinality(ids)
  BY <1>1, MinOfTwo
<1> QED
  BY <1>1, <1>2, Page DEF Listed

\* A list that has each row in its place is a page.
LEMMA InPlaces ==
    ASSUME TableTyped, NEW ids \in SUBSET DOMAIN table, NEW s \in Seq(ids),
           Len(s) <= Cardinality(ids),
           \A n \in 1 .. Len(s) : Place(ids, s[n]) = n - 1
    PROVE  s = NewestFirst(ids, Len(s))
<1> DEFINE t == NewestFirst(ids, Len(s))
<1>1. Cardinality(ids) \in Nat /\ Len(s) \in Nat
  BY FiniteRows
<1>2. Min({Len(s), Cardinality(ids)}) = Len(s)
  BY <1>1, MinOfTwo
<1>3. /\ t \in Seq(ids) /\ Len(t) = Len(s)
      /\ \A n \in 1 .. Len(t) : t[n] \in ids /\ Place(ids, t[n]) = n - 1
  BY <1>1, <1>2, Page
<1> HIDE DEF t
<1>4. ASSUME NEW n \in 1 .. Len(s) PROVE s[n] = t[n]
  <2>1. s[n] \in ids /\ t[n] \in ids /\ Place(ids, s[n]) = Place(ids, t[n])
    BY <1>3
  <2> QED
    BY <2>1, PlaceOrder
<1>5. s = t
  BY <1>3, <1>4, SeqEqual
<1> QED
  BY <1>5 DEF t

\* What a page leaves out is what comes after its last row: the page and a page of the rest
\* are a longer page.
LEMMA PageAndRest ==
    ASSUME TableTyped, NEW ids \in SUBSET DOMAIN table, NEW k \in 1 .. Cardinality(ids),
           NEW x \in ids, Place(ids, x) = k - 1
    PROVE  LET rest == {j \in ids : Newer(x, j)}
           IN /\ Cardinality(rest) = Cardinality(ids) - k
              /\ \A j \in rest : Place(ids, j) = Place(rest, j) + k
              /\ \A c \in 0 .. Cardinality(rest) :
                   NewestFirst(ids, k + c) = NewestFirst(ids, k) \o NewestFirst(rest, c)
<1> DEFINE rest == {j \in ids : Newer(x, j)}
           head == ids \ rest
           page == NewestFirst(ids, k)
<1>1. /\ IsFiniteSet(ids) /\ Cardinality(ids) \in Nat /\ k \in Nat
      /\ rest \in SUBSET DOMAIN table /\ head \in SUBSET DOMAIN table
      /\ IsFiniteSet(rest) /\ IsFiniteSet(head) /\ Cardinality(rest) \in Nat
  BY FiniteRows
<1>2. Cardinality(head) = k
  <2>1. head = NewerThan(ids, x) \cup {x}
    BY NewerOrder DEF NewerThan
  <2>2. x \notin NewerThan(ids, x) /\ NewerThan(ids, x) \in SUBSET DOMAIN table
    BY NewerOrder DEF NewerThan
  <2>3. Cardinality(NewerThan(ids, x) \cup {x}) = Cardinality(NewerThan(ids, x)) + 1
    BY <2>2, FiniteRows, FS_AddElement
  <2> QED
    BY <1>1, <2>1, <2>3 DEF Place
<1>3. Cardinality(rest) = Cardinality(ids) - k
  <2>1. Cardinality(ids \ rest) = Cardinality(ids) - Cardinality(ids \cap rest)
    BY <1>1, FS_Difference
  <2>2. ids \cap rest = rest
    OBVIOUS
  <2> QED
    BY <1>1, <1>2, <2>1, <2>2
<1>4. ASSUME NEW j \in rest PROVE Place(ids, j) = Place(rest, j) + k
  <2>1. NewerThan(ids, j) = head \cup NewerThan(rest, j) /\ head \cap NewerThan(rest, j) = {}
    BY NewerOrder DEF NewerThan
  <2>2. NewerThan(rest, j) \in SUBSET DOMAIN table
    BY DEF NewerThan
  <2>3. PICK N : N = NewerThan(rest, j)
    OBVIOUS
  <2>4. IsFiniteSet(N) /\ Cardinality(N) \in Nat
    BY <2>2, <2>3, FiniteRows
  <2>5. Cardinality(head \cup N) = Cardinality(head) + Cardinality(N) - Cardinality(head \cap N)
    BY <1>1, <2>4, FS_Union
  <2>6. Cardinality(head \cap N) = 0
    BY <2>1, <2>3, FS_EmptySet
  <2> QED
    BY <1>1, <1>2, <2>1, <2>3, <2>4, <2>5, <2>6 DEF Place
<1>5. /\ page \in Seq(ids) /\ Len(page) = k
      /\ \A n \in 1 .. k : page[n] \in ids /\ Place(ids, page[n]) = n - 1
  <2>1. Min({k, Cardinality(ids)}) = k
    BY <1>1, MinOfTwo
  <2>2. page \in Seq(ids) /\ Len(page) = Min({k, Cardinality(ids)})
        /\ \A n \in 1 .. Len(page) : page[n] \in ids /\ Place(ids, page[n]) = n - 1
    BY <1>1, Page
  <2> HIDE DEF page
  <2> QED
    BY <2>1, <2>2
<1>6. ASSUME NEW c \in 0 .. Cardinality(rest)
      PROVE  NewestFirst(ids, k + c) = NewestFirst(ids, k) \o NewestFirst(rest, c)
  <2>1. c \in Nat /\ c <= Cardinality(rest)
    BY <1>1
  <2>2. PICK l : l = NewestFirst(rest, c)
    OBVIOUS
  <2>3. PICK p : p = page
    OBVIOUS
  <2>4. /\ l \in Seq(rest) /\ Len(l) = c
        /\ \A n \in 1 .. c : l[n] \in rest /\ Place(rest, l[n]) = n - 1
    <3>1. Min({c, Cardinality(rest)}) = c
      BY <1>1, <2>1, MinOfTwo
    <3> HIDE DEF rest
    <3> QED
      BY <1>1, <2>1, <2>2, <3>1, Page
  <2>5. /\ l \in Seq(ids) /\ p \in Seq(ids) /\ p \o l \in Seq(ids) /\ Len(p) = k
        /\ Len(p \o l) = k + c
        /\ \A n \in 1 .. k + c : (p \o l)[n] = IF n <= k THEN p[n] ELSE l[n - k]
    <3>1. l \in Seq(ids) /\ p \in Seq(ids) /\ Len(p) = k
      BY <1>5, <2>3, <2>4
    <3> QED
      BY <2>4, <3>1, ConcatProperties
  <2>6. ASSUME NEW n \in 1 .. k + c PROVE Place(ids, (p \o l)[n]) = n - 1
    <3>1. CASE n <= k
      BY <1>1, <1>5, <2>1, <2>3, <2>5, <3>1
    <3>2. CASE ~(n <= k)
      <4>1. n - k \in 1 .. c
        BY <1>1, <2>1, <3>2
      <4>2. l[n - k] \in rest /\ Place(rest, l[n - k]) = n - k - 1
        BY <2>4, <4>1
      <4>3. Place(ids, l[n - k]) = n - k - 1 + k
        BY <1>4, <4>2
      <4>4. (p \o l)[n] = l[n - k]
        BY <2>5, <3>2
      <4> QED
        BY <1>1, <4>3, <4>4
    <3> QED
      BY <3>1, <3>2
  <2>7. k + c <= Cardinality(ids)
    BY <1>1, <1>3, <2>1
  <2>8. p \o l = NewestFirst(ids, k + c)
    BY <2>5, <2>6, <2>7, InPlaces
  <2> QED
    BY <2>2, <2>3, <2>8
<1> QED
  BY <1>3, <1>4, <1>6

----------------------------------------------------------------------------
(* Following the tokens.                                                   *)

Tokens == {None} \cup {Position(i) : i \in DOMAIN table}

\* What is left to list behind a token.
Left(token, month, category) == {i \in Filtered(month, category) : AfterCursor(i, token)}

\* One page and what from lists behind it.
PageThen(from, size, token, month, category) ==
    LET answer == ListTransactions(size, token, month, category)
    IN IF answer = InternalError THEN <<>>
       ELSE answer.items \o (IF answer.next = None THEN <<>> ELSE from[answer.next])

\* The rows whose amount is no number, and the first of them in the list.
Unlistable(ids) == {i \in ids : table[i].amount = NotANumber}

FirstUnlistable(ids) ==
    CHOOSE i \in Unlistable(ids) : \A j \in Unlistable(ids) : Place(ids, i) <= Place(ids, j)

\* How many rows come in pages without such a row, and these rows.
Reach(ids, size) ==
    IF Unlistable(ids) = {} THEN Cardinality(ids)
    ELSE (Place(ids, FirstUnlistable(ids)) \div size) * size

Reached(ids, size) == NewestFirst(ids, Reach(ids, size))

LEMMA Quotient ==
    ASSUME NEW a \in Int, NEW d \in Nat \ {0}, NEW q \in Int
    PROVE  a \div d = q <=> q * d <= a /\ a < (q + 1) * d
  BY SMTT(30)

LEMMA WholePages ==
    ASSUME NEW a \in Nat, NEW d \in Nat \ {0}
    PROVE  /\ (a \div d) * d \in Nat /\ (a \div d) * d <= a /\ a < (a \div d) * d + d
           /\ a < d => (a \div d) * d = 0
           /\ a >= d => (a \div d) * d = d + ((a - d) \div d) * d
<1>1. PICK q \in Int : q = a \div d
  OBVIOUS
<1>2. q * d <= a /\ a < (q + 1) * d
  BY <1>1, Quotient
<1>3. (q + 1) * d = q * d + d /\ (q - 1) * d = q * d - d /\ q * d \in Int
  BY SMTT(30)
<1>4. q >= 0
  <2>1. CASE q <= -1
    <3>1. (q + 1) * d <= 0
      BY <2>1, SMTT(30)
    <3> QED
      BY <1>2, <3>1
  <2> QED
    BY <2>1
<1>5. q * d >= 0
  BY <1>4, SMTT(30)
<1>6. ASSUME a < d PROVE q * d = 0
  <2>1. 0 * d <= a /\ a < (0 + 1) * d
    BY <1>6
  <2>2. q = 0
    BY <1>1, <2>1, Quotient
  <2> QED
    BY <2>2
<1>7. (a - d) \div d = q - 1
  <2>1. (q - 1) * d <= a - d /\ a - d < (q - 1 + 1) * d
    BY <1>2, <1>3
  <2>2. a - d \in Int /\ q - 1 \in Int
    OBVIOUS
  <2> QED
    BY <2>1, <2>2, Quotient
<1> QED
  BY <1>1, <1>2, <1>3, <1>5, <1>6, <1>7

LEMMA FirstOfUnlistable ==
    ASSUME TableTyped, NEW ids \in SUBSET DOMAIN table, Unlistable(ids) # {}
    PROVE  /\ FirstUnlistable(ids) \in Unlistable(ids)
           /\ \A j \in Unlistable(ids) : Place(ids, FirstUnlistable(ids)) <= Place(ids, j)
<1>1. PICK P : P = {Place(ids, i) : i \in Unlistable(ids)}
  OBVIOUS
<1>2. P \in SUBSET Nat /\ P # {}
  BY <1>1, PlaceRange, FiniteRows DEF Unlistable
<1>3. PICK n \in P : \A m \in P : n <= m
  BY <1>2, SmallestExists
<1>4. PICK i \in Unlistable(ids) : n = Place(ids, i)
  BY <1>1
<1>5. \A j \in Unlistable(ids) : Place(ids, i) <= Place(ids, j)
  BY <1>1, <1>3, <1>4
<1> QED
  BY <1>5 DEF FirstUnlistable

LEMMA ReachRange ==
    ASSUME TableTyped, NEW ids \in SUBSET DOMAIN table, NEW size \in Nat \ {0}
    PROVE  /\ Reach(ids, size) \in 0 .. Cardinality(ids)
           /\ Unlistable(ids) # {} =>
                /\ Reach(ids, size) <= Place(ids, FirstUnlistable(ids))
                /\ Place(ids, FirstUnlistable(ids)) < Reach(ids, size) + size
           /\ Unlistable(ids) = {} <=> Reach(ids, size) = Cardinality(ids)
<1>1. Cardinality(ids) \in Nat
  BY FiniteRows
<1>2. CASE Unlistable(ids) = {}
  BY <1>1, <1>2 DEF Reach
<1>3. CASE Unlistable(ids) # {}
  <2>1. PICK p : p = Place(ids, FirstUnlistable(ids))
    OBVIOUS
  <2>2. p \in 0 .. Cardinality(ids) - 1
    BY <1>3, <2>1, FirstOfUnlistable, PlaceRange DEF Unlistable
  <2>3. Reach(ids, size) = (p \div size) * size
    BY <1>3, <2>1 DEF Reach
  <2>4. p \in Nat
    BY <1>1, <2>2
  <2>5. /\ (p \div size) * size \in Nat /\ (p \div size) * size <= p
        /\ p < (p \div size) * size + size
    BY <2>4, WholePages
  <2> QED
    BY <1>1, <1>3, <2>1, <2>2, <2>3, <2>5
<1> QED
  BY <1>2, <1>3

LEMMA TokenOfRow ==
    ASSUME TableTyped, NEW x \in DOMAIN table
    PROVE  /\ Position(x) \in Tokens /\ Position(x) # None
           /\ \A i \in DOMAIN table : AfterCursor(i, Position(x)) <=> Newer(x, i)
<1>1. Position(x) \in [date : Nat, id : Nat \ {0}]
  BY RowsOfTable DEF Position
<1>2. Position(x) # None
  BY <1>1, NoneAssumption
<1>3. Position(x).date = table[x].date /\ Position(x).id = x
  BY DEF Position
<1>4. \A i \in DOMAIN table : AfterCursor(i, Position(x)) <=> Newer(x, i)
  BY <1>2, <1>3, RowsOfTable DEF AfterCursor, Newer
<1> QED
  BY <1>2, <1>4 DEF Tokens

LEMMA LeftRows ==
    ASSUME TableTyped, NEW token \in Tokens, NEW month, NEW category
    PROVE  /\ Left(token, month, category) \in SUBSET DOMAIN table
           /\ \A x \in Left(token, month, category) :
                Left(Position(x), month, category) =
                    {j \in Left(token, month, category) : Newer(x, j)}
<1> DEFINE F == Filtered(month, category)
<1>1. F \in SUBSET DOMAIN table
  BY DEF Filtered
<1>2. Left(token, month, category) = {i \in F : AfterCursor(i, token)}
  BY DEF Left
<1> HIDE DEF F
<1>3. ASSUME NEW x \in Left(token, month, category)
      PROVE  Left(Position(x), month, category) =
                 {j \in Left(token, month, category) : Newer(x, j)}
  <2>1. x \in DOMAIN table /\ AfterCursor(x, token)
    BY <1>1, <1>2
  <2>2. Left(Position(x), month, category) = {j \in F : Newer(x, j)}
    <3>1. Left(Position(x), month, category) = {j \in F : AfterCursor(j, Position(x))}
      BY DEF Left, F
    <3> QED
      BY <1>1, <2>1, <3>1, TokenOfRow
  <2>3. ASSUME NEW j \in F, Newer(x, j) PROVE AfterCursor(j, token)
    <3>1. CASE token = None
      BY <3>1 DEF AfterCursor
    <3>2. CASE token # None
      <4>1. PICK y \in DOMAIN table : token = Position(y)
        BY <3>2 DEF Tokens
      <4>2. Newer(y, x)
        BY <2>1, <4>1, TokenOfRow
      <4>3. Newer(y, j)
        BY <1>1, <2>1, <2>3, <4>2, NewerOrder
      <4> QED
        BY <1>1, <4>1, <4>3, TokenOfRow
    <3> QED
      BY <3>1, <3>2
  <2> QED
    BY <1>2, <2>2, <2>3
<1> QED
  BY <1>1, <1>2, <1>3

\* A page with a row whose amount is no number ends the list.  A page that is not full is all
\* that is left; behind a full one the rest is left, and less.
LEMMA PageOfList ==
    ASSUME TableTyped, NEW asked_size \in Nat \ {0}, NEW token \in Tokens, NEW month, NEW category
    PROVE  LET left == Left(token, month, category)
               size == Min({asked_size, MaxPageSize})
               answer == ListTransactions(asked_size, token, month, category)
           IN IF answer = InternalError THEN Reached(left, size) = <<>>
              ELSE IF answer.next = None THEN Reached(left, size) = answer.items \o <<>>
              ELSE LET later == Left(answer.next, month, category)
                   IN /\ answer.next \in Tokens
                      /\ Cardinality(later) < Cardinality(left)
                      /\ Reached(left, size) = answer.items \o Reached(later, size)
<1>1. PICK left : left = Left(token, month, category)
  OBVIOUS
<1>2. PICK size \in Nat \ {0} : size = Min({asked_size, MaxPageSize})
  BY LimitsAssumption, MinOfTwo
<1>3. PICK page : page = ListPage(size, token, month, category)
  OBVIOUS
<1>4. PICK answer : answer = ListTransactions(asked_size, token, month, category)
  OBVIOUS
<1>5. left \in SUBSET DOMAIN table /\ IsFiniteSet(left) /\ Cardinality(left) \in Nat
  BY <1>1, LeftRows, FiniteRows
<1>6. page = NewestFirst(left, size)
  BY <1>1, <1>3 DEF ListPage, Left
<1>7. /\ page \in Seq(left) /\ Len(page) = Min({size, Cardinality(left)})
      /\ DOMAIN page = 1 .. Len(page)
      /\ \A n \in 1 .. Len(page) : page[n] \in left /\ Place(left, page[n]) = n - 1
  BY <1>5, <1>6, Page
<1>8. Len(page) = IF size < Cardinality(left) THEN size ELSE Cardinality(left)
  BY <1>5, <1>7, MinOfTwo
<1>9. ASSUME NEW i \in left
      PROVE  i \in Range(page) <=> Place(left, i) < size
  <2>1. PICK p \in 0 .. Cardinality(left) - 1 : p = Place(left, i)
    BY <1>5, PlaceRange
  <2>2. ASSUME p < size PROVE i \in Range(page)
    <3>1. p + 1 \in 1 .. Len(page) /\ p + 1 - 1 = p
      BY <1>5, <1>8, <2>2
    <3>2. page[p + 1] = i
      BY <1>5, <1>7, <2>1, <3>1, PlaceOrder
    <3> QED
      BY <1>7, <3>1, <3>2 DEF Range
  <2>3. ASSUME i \in Range(page) PROVE p < size
    <3>1. PICK n \in 1 .. Len(page) : page[n] = i
      BY <1>7, <2>3 DEF Range
    <3>2. p = n - 1
      BY <1>7, <2>1, <3>1
    <3>3. n <= size
      BY <1>5, <1>8, <3>1
    <3> QED
      BY <3>2, <3>3
  <2> QED
    BY <2>1, <2>2, <2>3
<1>10. Range(page) \in SUBSET left
  BY <1>7 DEF Range
<1>11. CASE \E i \in Range(page) : table[i].amount = NotANumber
  <2>1. answer = InternalError
    BY <1>2, <1>3, <1>4, <1>11 DEF ListTransactions
  <2>2. PICK i \in Unlistable(left) : Place(left, i) < size
    BY <1>9, <1>10, <1>11 DEF Unlistable
  <2>3. PICK p : p = Place(left, FirstUnlistable(left))
    OBVIOUS
  <2>4. p <= Place(left, i) /\ p \in 0 .. Cardinality(left) - 1
        /\ Place(left, i) \in 0 .. Cardinality(left) - 1
    <3>1. FirstUnlistable(left) \in left /\ i \in left
      BY <1>5, <2>2, FirstOfUnlistable DEF Unlistable
    <3> QED
      BY <1>5, <2>2, <2>3, <3>1, FirstOfUnlistable, PlaceRange
  <2>5. p \in Nat /\ p < size
    BY <1>5, <2>2, <2>4
  <2>6. Reach(left, size) = 0
    <3>1. (p \div size) * size = 0
      BY <2>5, WholePages
    <3> QED
      BY <2>2, <2>3, <3>1 DEF Reach
  <2>7. Reached(left, size) = NewestFirst(left, 0)
    BY <2>6 DEF Reached
  <2>8. NewestFirst(left, 0) = <<>>
    <3>1. Len(NewestFirst(left, 0)) = 0 /\ NewestFirst(left, 0) \in Seq(left)
      <4>1. Min({0, Cardinality(left)}) = 0
        BY <1>5, MinOfTwo
      <4> QED
        BY <1>5, <4>1, Page
    <3> QED
      BY <3>1, EmptySeq
  <2> QED
    BY <1>1, <1>2, <1>4, <2>1, <2>7, <2>8
<1>12. CASE ~ \E i \in Range(page) : table[i].amount = NotANumber
  <2>1. answer = [status |-> 200, items |-> page, next |-> NextToken(page, size)]
    BY <1>2, <1>3, <1>4, <1>12 DEF ListTransactions
  <2>2. answer # InternalError /\ answer.items = page /\ answer.next = NextToken(page, size)
    <3>1. answer.status = 200 /\ InternalError.status = 500
      BY <2>1 DEF InternalError
    <3> QED
      BY <2>1, <3>1
  <2>3. CASE Len(page) # size
    <3>1. NextToken(page, size) = None
      BY <2>3 DEF NextToken
    <3>2. Len(page) = Cardinality(left) /\ Cardinality(left) < size
      BY <1>5, <1>8, <2>3
    <3>3. page = NewestFirst(left, Cardinality(left))
      BY <1>5, <1>7, <3>2, InPlaces
    <3>4. Unlistable(left) = {}
      <4>1. \A i \in left : Place(left, i) < size
        BY <1>5, <3>2, PlaceRange
      <4> QED
        BY <1>9, <1>12, <4>1 DEF Unlistable
    <3>5. Reached(left, size) = page
      BY <3>3, <3>4 DEF Reached, Reach
    <3>6. page \o <<>> = page
      BY <1>7, ConcatEmptySeq
    <3> QED
      BY <1>1, <1>2, <1>4, <2>2, <3>1, <3>5, <3>6
  <2>4. CASE Len(page) = size
    <3>1. PICK x : x = page[size]
      OBVIOUS
    <3>2. x \in left /\ Place(left, x) = size - 1 /\ Last(page) = x
      <4>1. size \in 1 .. Len(page)
        BY <2>4
      <4>2. Last(page) = page[size]
        BY <2>4 DEF Last
      <4> QED
        BY <1>7, <3>1, <4>1, <4>2
    <3>3. NextToken(page, size) = Position(x)
      BY <2>4, <3>2 DEF NextToken
    <3>4. Position(x) \in Tokens /\ Position(x) # None
      BY <1>5, <3>2, TokenOfRow
    <3>5. PICK rest : rest = {j \in left : Newer(x, j)}
      OBVIOUS
    <3>6. Left(Position(x), month, category) = rest /\ rest \in SUBSET DOMAIN table
      BY <1>1, <1>5, <3>2, <3>5, LeftRows
    <3>7. size \in 1 .. Cardinality(left)
      BY <1>5, <1>8, <2>4
    <3>8. /\ Cardinality(rest) = Cardinality(left) - size
          /\ \A j \in rest : Place(left, j) = Place(rest, j) + size
          /\ \A c \in 0 .. Cardinality(rest) :
               NewestFirst(left, size + c) = NewestFirst(left, size) \o NewestFirst(rest, c)
      BY <1>5, <3>2, <3>5, <3>7, PageAndRest
    <3>9. Cardinality(rest) \in Nat /\ Cardinality(rest) < Cardinality(left)
      BY <1>5, <3>7, <3>8
    <3>10. Unlistable(left) = Unlistable(rest)
      <4>1. ASSUME NEW i \in Unlistable(left) PROVE i \in rest
        <5>1. i \in left /\ ~(Place(left, i) < size)
          BY <1>9, <1>12 DEF Unlistable
        <5>2. Place(left, i) \in 0 .. Cardinality(left) - 1
          BY <1>5, <5>1, PlaceRange
        <5>3. Place(left, x) < Place(left, i)
          BY <1>5, <3>2, <5>1, <5>2
        <5> QED
          BY <1>5, <3>2, <3>5, <5>1, <5>3, PlaceOrder
      <4> QED
        BY <3>5, <4>1 DEF Unlistable
    <3>11. Reach(left, size) = size + Reach(rest, size)
      <4>1. CASE Unlistable(left) = {}
        BY <1>5, <3>8, <3>9, <3>10, <4>1 DEF Reach
      <4>2. CASE Unlistable(left) # {}
        <5>1. PICK a, b : a = FirstUnlistable(left) /\ b = FirstUnlistable(rest)
          OBVIOUS
        <5>2. /\ a \in Unlistable(left) /\ b \in Unlistable(left)
              /\ \A j \in Unlistable(left) : Place(left, a) <= Place(left, j)
              /\ \A j \in Unlistable(left) : Place(rest, b) <= Place(rest, j)
          BY <1>5, <3>6, <3>10, <4>2, <5>1, FirstOfUnlistable
        <5>3. a \in rest /\ b \in rest
          BY <3>10, <5>2 DEF Unlistable
        <5>4. PICK m, n \in Nat : m = Place(rest, a) /\ n = Place(rest, b)
          <6>1. Place(rest, a) \in 0 .. Cardinality(rest) - 1
                /\ Place(rest, b) \in 0 .. Cardinality(rest) - 1
            BY <3>6, <5>3, PlaceRange
          <6> QED
            BY <6>1
        <5>5. Place(left, a) = m + size /\ Place(left, b) = n + size
          BY <3>8, <5>3, <5>4
        <5>6. m = n
          BY <5>2, <5>4, <5>5
        <5>7. Reach(left, size) = ((n + size) \div size) * size
              /\ Reach(rest, size) = (n \div size) * size
          BY <3>10, <4>2, <5>1, <5>4, <5>5, <5>6 DEF Reach
        <5>8. PICK p \in Nat : p = n + size
          OBVIOUS
        <5>9. p >= size /\ p - size = n
          BY <5>8
        <5>10. (p \div size) * size = size + ((p - size) \div size) * size
          BY <5>9, WholePages
        <5> QED
          BY <5>7, <5>8, <5>9, <5>10
      <4> QED
        BY <4>1, <4>2
    <3>12. Reach(rest, size) \in 0 .. Cardinality(rest)
      BY <3>6, ReachRange
    <3>13. Reached(left, size) = page \o Reached(rest, size)
      BY <1>6, <3>8, <3>11, <3>12 DEF Reached
    <3> QED
      BY <1>1, <1>2, <1>4, <2>2, <3>3, <3>4, <3>6, <3>9, <3>13
  <2> QED
    BY <2>3, <2>4
<1> QED
  BY <1>11, <1>12

\* Whatever the page size, the pages together are the rows asked for, up to the page with a row
\* whose amount is no number.
LEMMA PagesAreTheList ==
    ASSUME TableTyped, NEW asked_size \in Nat \ {0}, NEW month, NEW category
    PROVE  PagesTo(asked_size, month, category) =
               Reached(Filtered(month, category), Min({asked_size, MaxPageSize}))
<1> DEFINE size == Min({asked_size, MaxPageSize})
           Of(f, token) == PageThen(f, asked_size, token, month, category)
           Rest(token) == Left(token, month, category)
           Got(token) == Reached(Rest(token), size)
           Follows(f) == f = [token \in Tokens |-> Of(f, token)]
           all == [token \in Tokens |-> Got(token)]
           from == CHOOSE f : Follows(f)
<1>1. PagesTo(asked_size, month, category) = from[None]
  BY DEF PagesTo, PageThen, Tokens
<1>2. ASSUME NEW token \in Tokens
      PROVE  LET answer == ListTransactions(asked_size, token, month, category)
             IN IF answer = InternalError THEN Got(token) = <<>>
                ELSE IF answer.next = None THEN Got(token) = answer.items \o <<>>
                ELSE /\ answer.next \in Tokens
                     /\ Cardinality(Rest(answer.next)) < Cardinality(Rest(token))
                     /\ Got(token) = answer.items \o Got(answer.next)
  BY PageOfList
<1> HIDE DEF size
<1>3. ASSUME NEW token \in Tokens PROVE Of(all, token) = Got(token)
  <2>1. \A next \in Tokens : all[next] = Got(next)
    OBVIOUS
  <2> HIDE DEF all, Rest, Got
  <2> QED
    BY <1>2, <2>1 DEF PageThen
<1>4. Follows(all)
  BY <1>3
<1>5. Follows(from)
  <2> HIDE DEF Follows, all
  <2> QED
    BY <1>4
<1>6. \A token \in Tokens : from[token] = Of(from, token)
  <2>1. PICK f : f = from
    OBVIOUS
  <2>2. f = [token \in Tokens |-> Of(f, token)]
    BY <1>5, <2>1
  <2>3. \A token \in Tokens : f[token] = Of(f, token)
    BY <2>2
  <2> QED
    BY <2>1, <2>3
<1> HIDE DEF from, Follows, all, Got
<1> DEFINE Fails == {n \in Nat : \E token \in Tokens :
                       n = Cardinality(Rest(token)) /\ from[token] # Got(token)}
<1>7. \A token \in Tokens : Cardinality(Rest(token)) \in Nat
  BY LeftRows, FiniteRows
<1> HIDE DEF Rest
<1>8. Fails = {}
  <2> SUFFICES ASSUME Fails # {} PROVE FALSE
    OBVIOUS
  <2>1. Fails \in SUBSET Nat
    OBVIOUS
  <2>2. PICK n \in Fails : \A m \in Fails : n <= m
    <3> HIDE DEF Fails
    <3> QED
      BY <2>1, SmallestExists
  <2>3. PICK token \in Tokens : n = Cardinality(Rest(token)) /\ from[token] # Got(token)
    OBVIOUS
  <2>4. \A t \in Tokens : from[t] # Got(t) => n <= Cardinality(Rest(t))
    <3>1. \A t \in Tokens : from[t] # Got(t) => Cardinality(Rest(t)) \in Fails
      BY <1>7
    <3> HIDE DEF Fails
    <3> QED
      BY <2>2, <3>1
  <2>5. PICK answer : answer = ListTransactions(asked_size, token, month, category)
    OBVIOUS
  <2>6. from[token] = IF answer = InternalError THEN <<>>
                      ELSE answer.items \o (IF answer.next = None THEN <<>> ELSE from[answer.next])
    BY <1>6, <2>5 DEF PageThen
  <2>7. IF answer = InternalError THEN Got(token) = <<>>
        ELSE IF answer.next = None THEN Got(token) = answer.items \o <<>>
        ELSE /\ answer.next \in Tokens
             /\ Cardinality(Rest(answer.next)) < Cardinality(Rest(token))
             /\ Got(token) = answer.items \o Got(answer.next)
    BY <1>2, <2>5
  <2>8. CASE answer = InternalError \/ answer.next = None
    BY <2>3, <2>6, <2>7, <2>8
  <2>9. CASE answer # InternalError /\ answer.next # None
    <3>1. from[answer.next] = Got(answer.next)
      BY <1>7, <2>3, <2>4, <2>7, <2>9
    <3> QED
      BY <2>3, <2>6, <2>7, <2>9, <3>1
  <2> QED
    BY <2>8, <2>9
<1>9. from[None] = Got(None)
  <2>1. None \in Tokens
    BY DEF Tokens
  <2>2. from[None] # Got(None) => Cardinality(Rest(None)) \in Fails
    BY <1>7, <2>1
  <2> HIDE DEF Fails
  <2> QED
    BY <1>8, <2>2
<1>10. Rest(None) = Filtered(month, category)
  BY DEF Rest, Left, AfterCursor, Filtered
<1> QED
  BY <1>1, <1>9, <1>10 DEF Got, size

----------------------------------------------------------------------------
(* Months.                                                                 *)

LEMMA YearAndMonth ==
    ASSUME NEW q \in Int
    PROVE  q = 12 * (q \div 12) + (q % 12) /\ q % 12 \in 0 .. 11 /\ q \div 12 \in Int
  BY SMTT(30)

LEMMA SameMonth ==
    ASSUME NEW a \in Int, NEW b \in Int
    PROVE  MonthOf(a) = MonthOf(b) <=> a \div DaysPerMonth = b \div DaysPerMonth
<1>1. PICK p, q \in Int : p = a \div DaysPerMonth /\ q = b \div DaysPerMonth
  BY CalendarAssumption
<1>2. MonthOf(a) = [year |-> p \div 12, month |-> (p % 12) + 1]
      /\ MonthOf(b) = [year |-> q \div 12, month |-> (q % 12) + 1]
  BY <1>1 DEF MonthOf
<1>3. PICK y \in Int, r \in 0 .. 11 : y = p \div 12 /\ r = p % 12 /\ p = 12 * y + r
  BY YearAndMonth
<1>4. PICK z \in Int, s \in 0 .. 11 : z = q \div 12 /\ s = q % 12 /\ q = 12 * z + s
  BY YearAndMonth
<1>5. MonthOf(a) = MonthOf(b) <=> y = z /\ r + 1 = s + 1
  BY <1>2, <1>3, <1>4
<1>6. y = z /\ r + 1 = s + 1 <=> p = q
  BY <1>3, <1>4
<1> QED
  BY <1>1, <1>5, <1>6

\* The days between a month's first and the next one's are those with its year and its number,
\* in December as well.
LEMMA DaysOfMonth ==
    ASSUME NEW start \in Int, NEW date \in Nat
    PROVE  LET m == MonthOf(start)
           IN DayIn(date, StartDate(m), EndDateExclusive(m)) <=> m = MonthOf(date)
<1> DEFINE m == MonthOf(start)
<1>1. PICK d \in Nat \ {0} : d = DaysPerMonth
  BY CalendarAssumption
<1>2. PICK q \in Int : q = start \div DaysPerMonth
  BY <1>1
<1>3. PICK p \in Int : p = date \div DaysPerMonth
  BY <1>1
<1>4. m = [year |-> q \div 12, month |-> (q % 12) + 1]
  BY <1>2 DEF MonthOf
<1>5. PICK y \in Int, r \in 0 .. 11 : y = q \div 12 /\ r = q % 12 /\ q = 12 * y + r
  BY YearAndMonth
<1>7. m = MonthOf(date) <=> p = q
  BY <1>2, <1>3, SameMonth
<1>8. m.year = y /\ m.month = r + 1
  BY <1>4, <1>5
<1> HIDE DEF m
<1>9. StartDate(m) = q * d
  <2>1. 12 * y + (r + 1) - 1 = q
    BY <1>5
  <2> QED
    BY <1>1, <1>8, <2>1 DEF StartDate, FirstDay
<1>10. EndDateExclusive(m) = (q + 1) * d
  <2>1. CASE r = 11
    <3>1. 12 * (y + 1) + 1 - 1 = q + 1
      BY <1>5, <2>1
    <3>2. EndDateExclusive(m) = (12 * (y + 1) + 1 - 1) * d
      BY <1>1, <1>8, <2>1 DEF EndDateExclusive, FirstDay
    <3> QED
      BY <3>1, <3>2
  <2>2. CASE r # 11
    <3>1. 12 * y + (r + 1 + 1) - 1 = q + 1
      BY <1>5
    <3>2. EndDateExclusive(m) = (12 * y + (r + 1 + 1) - 1) * d
      BY <1>1, <1>8, <2>2 DEF EndDateExclusive, FirstDay
    <3> QED
      BY <3>1, <3>2
  <2> QED
    BY <2>1, <2>2
<1>11. p = q <=> q * d <= date /\ date < (q + 1) * d
  BY <1>1, <1>3, Quotient
<1> QED
  BY <1>7, <1>9, <1>10, <1>11 DEF DayIn, m

\* What is asked for.
AskedFor(month, category) ==
    {i \in DOMAIN table : /\ month \in {None, MonthOf(table[i].date)}
                          /\ category \in {None, table[i].category}}

LEMMA MonthAsked ==
    ASSUME TableTyped, NEW month \in MonthFilters
    PROVE  month = None \/ \E start \in Int : month = MonthOf(start)
<1>1. SUFFICES ASSUME month # None PROVE \E start \in Int : month = MonthOf(start)
  OBVIOUS
<1>2. PICK t \in Range(table) : month \in {MonthOf(t.date - DaysPerMonth), MonthOf(t.date)}
  BY <1>1 DEF MonthFilters
<1>3. t.date \in Nat
  BY <1>2, RowsOfTable DEF Range
<1>4. t.date \in Int /\ t.date - DaysPerMonth \in Int
  BY <1>3, CalendarAssumption
<1> QED
  BY <1>2, <1>4

LEMMA FilteredIsAskedFor ==
    ASSUME TableTyped, NEW month \in MonthFilters, NEW category
    PROVE  Filtered(month, category) = AskedFor(month, category)
<1>1. ASSUME NEW i \in DOMAIN table
      PROVE  (month # None => DayIn(table[i].date, StartDate(month), EndDateExclusive(month)))
             <=> month \in {None, MonthOf(table[i].date)}
  <2>1. table[i].date \in Nat
    BY RowsOfTable
  <2> QED
    BY <2>1, MonthAsked, DaysOfMonth
<1>2. ASSUME NEW i \in DOMAIN table
      PROVE  (category # None => table[i].category = category)
             <=> category \in {None, table[i].category}
  OBVIOUS
<1> QED
  BY <1>1, <1>2 DEF Filtered, AskedFor

----------------------------------------------------------------------------
(* The list and the search.                                                *)

\* What is listed is the first of the rows, each once, newest first; a row whose amount is no
\* number is one of the next size when any is missing.
LEMMA ListGoesFar ==
    ASSUME TableTyped, NEW ids \in SUBSET DOMAIN table, NEW size \in Nat \ {0}
    PROVE  LET s == Reached(ids, size)
               k == Reach(ids, size)
               missing == ids \ Range(s)
           IN /\ s \in Seq(ids) /\ Len(s) = k /\ DOMAIN s = 1 .. k
              /\ \A n \in 1 .. k : s[n] \in ids /\ Place(ids, s[n]) = n - 1
              /\ \A i \in ids : i \in Range(s) <=> Place(ids, i) < k
              /\ Cardinality(missing) = Cardinality(ids) - k
<1>1. PICK s : s = Reached(ids, size)
  OBVIOUS
<1>2. PICK c \in Nat : c = Cardinality(ids)
  BY FiniteRows
<1>3. PICK k \in 0 .. c : k = Reach(ids, size)
  BY <1>2, ReachRange
<1>4. /\ s \in Seq(ids) /\ Len(s) = k /\ DOMAIN s = 1 .. k
      /\ \A n \in 1 .. k : s[n] \in ids /\ Place(ids, s[n]) = n - 1
  <2>1. Min({k, Cardinality(ids)}) = k
    BY <1>2, <1>3, MinOfTwo
  <2> QED
    BY <1>1, <1>3, <2>1, Page DEF Reached
<1>5. ASSUME NEW i \in ids PROVE i \in Range(s) <=> Place(ids, i) < k
  <2>1. PICK p \in 0 .. c - 1 : p = Place(ids, i)
    BY <1>2, PlaceRange
  <2>2. ASSUME p < k PROVE i \in Range(s)
    <3>1. p + 1 \in 1 .. k /\ p + 1 - 1 = p
      BY <1>3, <2>2
    <3>2. s[p + 1] = i
      BY <1>4, <2>1, <3>1, PlaceOrder
    <3> QED
      BY <1>4, <3>1, <3>2 DEF Range
  <2>3. ASSUME i \in Range(s) PROVE p < k
    <3>1. PICK n \in 1 .. k : s[n] = i
      BY <1>4, <2>3 DEF Range
    <3> QED
      BY <1>4, <2>1, <3>1
  <2> QED
    BY <2>1, <2>2, <2>3
<1>6. PICK missing : missing = ids \ Range(s)
  OBVIOUS
<1>7. Cardinality(missing) = c - k
  <2>1. CASE k = 0
    <3>1. ASSUME NEW i \in ids PROVE i \notin Range(s)
      BY <1>2, <1>5, <2>1, PlaceRange
    <3> QED
      BY <1>2, <1>6, <2>1, <3>1
  <2>2. CASE k # 0
    <3>1. k \in 1 .. Cardinality(ids) /\ k \in 1 .. k
      BY <1>2, <2>2
    <3>2. PICK x \in ids : x = s[k] /\ Place(ids, x) = k - 1
      BY <1>4, <3>1
    <3>3. PICK rest : rest = {j \in ids : Newer(x, j)}
      OBVIOUS
    <3>4. Cardinality(rest) = c - k
      BY <1>2, <3>1, <3>2, <3>3, PageAndRest
    <3>5. ASSUME NEW j \in ids PROVE Newer(x, j) <=> j \notin Range(s)
      <4>1. PICK p \in 0 .. c - 1 : p = Place(ids, j)
        BY <1>2, PlaceRange
      <4>2. Newer(x, j) <=> k - 1 < p
        BY <3>2, <4>1, PlaceOrder
      <4> QED
        BY <1>5, <4>1, <4>2
    <3>6. rest = missing
      BY <1>6, <3>3, <3>5
    <3> QED
      BY <3>4, <3>6
  <2> QED
    BY <2>1, <2>2
<1> QED
  BY <1>1, <1>2, <1>3, <1>4, <1>5, <1>6, <1>7

\* Nothing is skipped or repeated, and an amount that is no number is near where it stops.
GoesFar(listed, ids, size) ==
    LET missing == ids \ Range(listed)
        newer(i) == {j \in missing : table[j].date > table[i].date}
    IN
    /\ Range(listed) \subseteq ids
    /\ Len(listed) + Cardinality(missing) = Cardinality(ids)
    /\ \A n \in 1 .. Len(listed) - 1 : table[listed[n]].date >= table[listed[n + 1]].date
    /\ \A i \in missing, j \in Range(listed) : table[j].date >= table[i].date
    /\ missing # {} => \E i \in missing : /\ table[i].amount = NotANumber
                                          /\ Cardinality(newer(i)) < size

LEMMA ListIsFar ==
    ASSUME TableTyped, NEW ids \in SUBSET DOMAIN table, NEW size \in Nat \ {0}
    PROVE  GoesFar(Reached(ids, size), ids, size)
<1>1. PICK s : s = Reached(ids, size)
  OBVIOUS
<1>2. PICK c \in Nat : c = Cardinality(ids)
  BY FiniteRows
<1>3. PICK k \in 0 .. c : k = Reach(ids, size)
  BY <1>2, ReachRange
<1>4. PICK missing : missing = ids \ Range(s)
  OBVIOUS
<1>5. /\ s \in Seq(ids) /\ Len(s) = k /\ DOMAIN s = 1 .. k
      /\ \A n \in 1 .. k : s[n] \in ids /\ Place(ids, s[n]) = n - 1
      /\ \A i \in ids : i \in Range(s) <=> Place(ids, i) < k
      /\ Cardinality(missing) = c - k
  BY <1>1, <1>2, <1>3, <1>4, ListGoesFar
<1>6. Range(s) \in SUBSET ids
  BY <1>5 DEF Range
<1>7. ASSUME NEW i \in ids, NEW j \in ids, Newer(j, i) PROVE table[j].date >= table[i].date
  BY <1>7, RowsOfTable DEF Newer
<1>8. ASSUME NEW n \in 1 .. k - 1 PROVE table[s[n]].date >= table[s[n + 1]].date
  <2>1. n \in 1 .. k /\ n + 1 \in 1 .. k /\ n - 1 < n + 1 - 1
    BY <1>3
  <2>2. s[n] \in ids /\ s[n + 1] \in ids /\ Place(ids, s[n]) < Place(ids, s[n + 1])
    BY <1>5, <2>1
  <2>3. Newer(s[n], s[n + 1])
    BY <2>2, PlaceOrder
  <2> QED
    BY <1>7, <2>2, <2>3
<1>9. ASSUME NEW i \in missing, NEW j \in Range(s) PROVE table[j].date >= table[i].date
  <2>1. i \in ids /\ j \in ids /\ ~(Place(ids, i) < k) /\ Place(ids, j) < k
    BY <1>4, <1>5, <1>6
  <2>2. PICK p, q \in 0 .. c - 1 : p = Place(ids, i) /\ q = Place(ids, j)
    BY <1>2, <2>1, PlaceRange
  <2>3. q < p
    BY <1>3, <2>1, <2>2
  <2>4. Newer(j, i)
    BY <2>1, <2>2, <2>3, PlaceOrder
  <2> QED
    BY <1>7, <2>1, <2>4
<1>10. ASSUME missing # {}
       PROVE  \E i \in missing :
                /\ table[i].amount = NotANumber
                /\ Cardinality({j \in missing : table[j].date > table[i].date}) < size
  <2>1. k # c
    <3>1. PICK i \in ids : ~(Place(ids, i) < k)
      BY <1>4, <1>5, <1>10
    <3> QED
      BY <1>2, <1>3, <3>1, PlaceRange
  <2>2. Unlistable(ids) # {}
    BY <1>2, <1>3, <2>1, ReachRange
  <2>3. PICK i : i = FirstUnlistable(ids)
    OBVIOUS
  <2>4. i \in ids /\ table[i].amount = NotANumber
    BY <2>2, <2>3, FirstOfUnlistable DEF Unlistable
  <2>5. PICK p \in 0 .. c - 1 : p = Place(ids, i)
    BY <1>2, <2>4, PlaceRange
  <2>6. k <= p /\ p < k + size
    BY <1>3, <2>2, <2>3, <2>5, ReachRange
  <2>7. i \in missing
    BY <1>3, <1>4, <1>5, <2>4, <2>5, <2>6
  <2>8. PICK A : A = {j \in missing : table[j].date > table[i].date}
    OBVIOUS
  <2>9. PICK B : B = Range(s)
    OBVIOUS
  <2>10. /\ A \in SUBSET NewerThan(ids, i) /\ B \in SUBSET NewerThan(ids, i)
         /\ A \cap B = {} /\ ids \ missing = B
    <3>1. A \in SUBSET NewerThan(ids, i)
      BY <1>4, <2>8 DEF NewerThan, Newer
    <3>2. ASSUME NEW j \in B PROVE Newer(j, i)
      <4>1. j \in ids /\ Place(ids, j) < k
        BY <1>5, <1>6, <2>9
      <4>2. PICK q \in 0 .. c - 1 : q = Place(ids, j)
        BY <1>2, <4>1, PlaceRange
      <4>3. q < p
        BY <1>3, <2>6, <4>1, <4>2
      <4> QED
        BY <2>4, <2>5, <4>1, <4>2, <4>3, PlaceOrder
    <3> QED
      BY <1>4, <1>6, <2>8, <2>9, <3>1, <3>2 DEF NewerThan
  <2>11. /\ IsFiniteSet(A) /\ IsFiniteSet(B) /\ IsFiniteSet(ids) /\ IsFiniteSet(missing)
         /\ Cardinality(A) \in Nat /\ Cardinality(B) \in Nat /\ IsFiniteSet(NewerThan(ids, i))
    <3>1. /\ A \in SUBSET DOMAIN table /\ B \in SUBSET DOMAIN table
          /\ missing \in SUBSET DOMAIN table /\ NewerThan(ids, i) \in SUBSET DOMAIN table
      BY <1>4, <1>6, <2>8, <2>9 DEF NewerThan
    <3> QED
      BY <3>1, FiniteRows
  <2>12. Cardinality(B) = k
    <3>1. Cardinality(ids \ missing) = Cardinality(ids) - Cardinality(ids \cap missing)
      BY <2>11, FS_Difference
    <3>2. ids \cap missing = missing
      BY <1>4
    <3>3. Cardinality(ids \cap missing) = c - k
      BY <1>5, <3>2
    <3>4. Cardinality(ids \ missing) = c - (c - k)
      BY <1>2, <3>1, <3>3
    <3> QED
      BY <2>10, <3>4
  <2>13. Cardinality(A \cup B) = Cardinality(A) + Cardinality(B)
    <3>1. Cardinality(A \cup B) = Cardinality(A) + Cardinality(B) - Cardinality(A \cap B)
      BY <2>11, FS_Union
    <3>2. Cardinality(A \cap B) = 0
      BY <2>10, FS_EmptySet
    <3> QED
      BY <2>11, <3>1, <3>2
  <2>14. Cardinality(A \cup B) <= Place(ids, i)
    <3>1. A \cup B \in SUBSET NewerThan(ids, i)
      BY <2>10
    <3> QED
      BY <2>11, <3>1, FS_Subset DEF Place
  <2>15. Cardinality(A) < size
    BY <1>3, <2>5, <2>6, <2>11, <2>12, <2>13, <2>14
  <2> QED
    BY <2>4, <2>7, <2>8, <2>15
<1>11. k + (c - k) = c
  OBVIOUS
<1> QED
  BY <1>1, <1>2, <1>4, <1>5, <1>6, <1>8, <1>9, <1>10, <1>11 DEF GoesFar

\* Positions in a list count as rows do.
LEMMA PositionsCount ==
    ASSUME NEW ids, NEW k \in Nat, NEW s, NEW A \in SUBSET (1 .. k),
           \A n \in 1 .. k : Place(ids, s[n]) = n - 1
    PROVE  /\ Cardinality(A) = Cardinality({s[n] : n \in A})
           /\ Cardinality(A) \in Nat /\ IsFiniteSet(A)
<1> DEFINE B == {s[n] : n \in A}
           f == [n \in A |-> s[n]]
<1>1. IsFiniteSet(A) /\ Cardinality(A) \in Nat
  <2>1. IsFiniteSet(1 .. k)
    BY FS_Interval
  <2> QED
    BY <2>1, FS_Subset, FS_CardinalityType
<1>2. f \in Bijection(A, B)
  <2>1. f \in [A -> B] /\ \A y \in B : \E n \in A : f[n] = y
    OBVIOUS
  <2>2. \A n, m \in A : f[n] = f[m] => n = m
    <3> SUFFICES ASSUME NEW n \in A, NEW m \in A, s[n] = s[m] PROVE n = m
      OBVIOUS
    <3>1. n \in 1 .. k /\ m \in 1 .. k
      OBVIOUS
    <3>2. n - 1 = m - 1
      BY <3>1
    <3> QED
      BY <3>1, <3>2
  <2> QED
    BY <2>1, <2>2 DEF Bijection, Injection, Surjection, IsInjective
<1> HIDE DEF f, B
<1>3. ExistsBijection(A, B)
  BY <1>2 DEF ExistsBijection
<1>4. Cardinality(B) = Cardinality(A)
  BY <1>1, <1>3, FS_Bijection
<1> QED
  BY <1>1, <1>4 DEF B

\* Whether the text is in the row's description.
HoldsText(text, i) == text \in {None} \cup file.lines[table[i].line].words

FirstOf(limit, text, ids, rows, found) ==
    LET matching == {p \in DOMAIN rows : HoldsText(text, rows[p])}
    IN /\ Len(found) = Min({limit, Cardinality({i \in ids : HoldsText(text, i)})})
       /\ \A p \in matching : LET n == Cardinality({q \in matching : q <= p})
                              IN n <= limit => found[n] = rows[p]

\* A search finds the first of the rows that contain its text, in the order of the list.
LEMMA SearchFindsFirst ==
    ASSUME TableTyped, NEW text, NEW month, NEW category, NEW limit \in Nat,
           NEW size \in Nat \ {0}
    PROVE  LET ids == Filtered(month, category)
           IN FirstOf(limit, text, ids, Reached(ids, size), Search(text, month, category, limit))
<1>1. PICK ids : ids = Filtered(month, category) /\ ids \in SUBSET DOMAIN table
  BY DEF Filtered
<1>2. PICK rows : rows = Reached(ids, size)
  OBVIOUS
<1>3. PICK M : M = {i \in ids : HoldsText(text, i)} /\ M \in SUBSET DOMAIN table
  BY <1>1
<1>4. PICK found : found = Search(text, month, category, limit)
  OBVIOUS
<1>5. PICK matching : matching = {p \in DOMAIN rows : HoldsText(text, rows[p])}
  OBVIOUS
<1>6. found = NewestFirst(M, limit)
  BY <1>1, <1>3, <1>4 DEF Search, HoldsText
<1>7. PICK k \in Nat : k = Reach(ids, size)
  BY <1>1, ReachRange, FiniteRows
<1>8. /\ DOMAIN rows = 1 .. k
      /\ \A n \in 1 .. k : rows[n] \in ids /\ Place(ids, rows[n]) = n - 1
      /\ \A i \in ids : i \in Range(rows) <=> Place(ids, i) < k
  BY <1>1, <1>2, <1>7, ListGoesFar
<1>9. PICK c \in Nat : c = Cardinality(M)
  BY <1>3, FiniteRows
<1>10. /\ Len(found) = Min({limit, c}) /\ DOMAIN found = 1 .. Len(found)
       /\ \A n \in 1 .. Len(found) : found[n] \in M /\ Place(M, found[n]) = n - 1
  BY <1>3, <1>6, <1>9, Page
<1>11. ASSUME NEW p \in matching, Cardinality({q \in matching : q <= p}) <= limit
       PROVE  found[Cardinality({q \in matching : q <= p})] = rows[p]
  <2>1. PICK i : i = rows[p]
    OBVIOUS
  <2>2. p \in 1 .. k /\ i \in ids /\ i \in M /\ Place(ids, i) = p - 1
    BY <1>3, <1>5, <1>8, <2>1
  <2>3. PICK A : A = {q \in matching : q < p}
    OBVIOUS
  <2>4. A \in SUBSET (1 .. k)
    BY <1>5, <1>8, <2>3
  <2>5. ASSUME NEW j \in M, Newer(j, i) PROVE \E q \in A : rows[q] = j
    <3>1. j \in ids
      BY <1>3
    <3>2. Place(ids, j) < Place(ids, i)
      BY <1>1, <2>2, <2>5, <3>1, PlaceOrder
    <3>3. PICK m \in Nat : m = Place(ids, j)
      BY <1>1, <3>1, PlaceRange, FiniteRows
    <3>4. j \in Range(rows)
      BY <1>8, <2>2, <3>1, <3>2, <3>3
    <3>5. PICK q \in 1 .. k : rows[q] = j
      BY <1>8, <3>4 DEF Range
    <3>6. q < p
      BY <1>8, <2>2, <3>2, <3>5
    <3>7. q \in matching
      BY <1>3, <1>5, <1>8, <3>5
    <3> QED
      BY <2>3, <3>5, <3>6, <3>7
  <2>6. ASSUME NEW q \in A PROVE rows[q] \in M /\ Newer(rows[q], i)
    <3>1. q \in 1 .. k /\ q < p /\ rows[q] \in ids /\ Place(ids, rows[q]) = q - 1
      BY <1>8, <2>3, <2>4
    <3>2. rows[q] \in M
      BY <1>3, <1>5, <2>3, <3>1
    <3>3. Place(ids, rows[q]) < Place(ids, i)
      BY <2>2, <3>1
    <3> QED
      BY <1>1, <2>2, <3>1, <3>2, <3>3, PlaceOrder
  <2>7. {rows[q] : q \in A} = NewerThan(M, i)
    BY <2>5, <2>6 DEF NewerThan
  <2>8. Cardinality(A) = Place(M, i) /\ Cardinality(A) \in Nat /\ IsFiniteSet(A)
    <3>1. \A q \in 1 .. k : Place(ids, rows[q]) = q - 1
      BY <1>8
    <3>2. /\ Cardinality(A) = Cardinality({rows[q] : q \in A})
          /\ Cardinality(A) \in Nat /\ IsFiniteSet(A)
      BY <2>4, <3>1, PositionsCount
    <3> QED
      BY <2>7, <3>2 DEF Place
  <2>9. {q \in matching : q <= p} = A \cup {p} /\ p \notin A
    BY <1>5, <1>8, <2>2, <2>3
  <2>10. PICK n : n = Cardinality({q \in matching : q <= p})
    OBVIOUS
  <2>11. n = Place(M, i) + 1
    BY <2>8, <2>9, <2>10, FS_AddElement
  <2>12. Place(M, i) \in 0 .. c - 1
    BY <1>3, <1>9, <2>2, PlaceRange
  <2>13. n \in 1 .. Len(found)
    <3>1. Len(found) = IF limit < c THEN limit ELSE c
      BY <1>9, <1>10, MinOfTwo
    <3> QED
      BY <1>9, <1>11, <2>10, <2>11, <2>12, <3>1
  <2>14. found[n] \in M /\ Place(M, found[n]) = Place(M, i)
    BY <1>10, <2>11, <2>12, <2>13
  <2> QED
    BY <1>3, <2>1, <2>2, <2>10, <2>14, PlaceOrder
<1> HIDE DEF HoldsText
<1>12. FirstOf(limit, text, ids, rows, found)
  BY <1>3, <1>5, <1>9, <1>10, <1>11 DEF FirstOf
<1> QED
  BY <1>1, <1>2, <1>4, <1>12

\* Following the tokens lists the rows asked for, each once and newest first, for any table,
\* any page size, any calendar and any filters; it stops short only before a page with an amount
\* that is no number, and the search finds the first of these rows that contain its text.
THEOREM PagesAreComplete == Spec => []PagesListTheTable
<1>1. TypeOK => PagesListTheTable
  <2> SUFFICES ASSUME TypeOK, NEW month \in MonthFilters, NEW category \in CategoryFilters
               PROVE  LET ids == AskedFor(month, category)
                      IN /\ \A size \in 1 .. MaxPageSize + 1 :
                              GoesFar(PagesTo(size, month, category), ids, Min({size, MaxPageSize}))
                         /\ \A text \in Texts(category) :
                              FirstOf(MaxLimit, text, ids, PagesTo(1, month, category),
                                      SearchTransactions(text, month, category, MaxLimit + 1))
    BY DEF PagesListTheTable, AskedFor, GoesFar, HoldsText, FirstOf
  <2>1. TableTyped
    BY DEF TypeOK, TableTyped
  <2>2. PICK ids : ids = AskedFor(month, category)
    OBVIOUS
  <2>3. Filtered(month, category) = ids /\ ids \in SUBSET DOMAIN table
    BY <2>1, <2>2, FilteredIsAskedFor DEF AskedFor
  <2>4. ASSUME NEW size \in 1 .. MaxPageSize + 1
        PROVE  GoesFar(PagesTo(size, month, category), ids, Min({size, MaxPageSize}))
    <3>1. size \in Nat \ {0} /\ Min({size, MaxPageSize}) \in Nat \ {0}
      BY LimitsAssumption, MinOfTwo
    <3> QED
      BY <2>1, <2>3, <3>1, PagesAreTheList, ListIsFar
  <2>5. ASSUME NEW text \in Texts(category)
        PROVE  FirstOf(MaxLimit, text, ids, PagesTo(1, month, category),
                       SearchTransactions(text, month, category, MaxLimit + 1))
    <3>1. Max({1, Min({MaxLimit + 1, MaxLimit})}) = MaxLimit
      <4>1. Min({MaxLimit + 1, MaxLimit}) = MaxLimit
        BY LimitsAssumption, MinOfTwo
      <4>2. {1, MaxLimit} \in SUBSET (0 .. MaxLimit) /\ {1, MaxLimit} # {} /\ MaxLimit \in Nat
        BY LimitsAssumption
      <4>3. Max({1, MaxLimit}) \in {1, MaxLimit} /\ MaxLimit <= Max({1, MaxLimit})
        BY <4>2, MaxOfNumbers
      <4> QED
        BY <4>1, <4>3, LimitsAssumption
    <3>2. SearchTransactions(text, month, category, MaxLimit + 1)
            = Search(text, month, category, MaxLimit)
      BY <3>1 DEF SearchTransactions
    <3>3. MaxLimit \in Nat /\ Min({1, MaxPageSize}) \in Nat \ {0} /\ 1 \in Nat \ {0}
      BY LimitsAssumption, MinOfTwo
    <3>4. PagesTo(1, month, category) = Reached(ids, Min({1, MaxPageSize}))
      BY <2>1, <2>3, <3>3, PagesAreTheList
    <3> QED
      BY <2>1, <2>3, <3>2, <3>3, <3>4, SearchFindsFirst
  <2> QED
    BY <2>2, <2>4, <2>5
<1> QED
  BY <1>1, RowsTyped, PTL

----------------------------------------------------------------------------
(* Sums.  A sum counts a heap that holds as many pieces under each index as *)
(* the value there says, so that sums add up as heaps are put together.     *)

Heap(v, s) == {p \in s \X Nat : p[2] < v[p[1]]}

Sum(v, s) == Cardinality(Heap(v, s))

LEMMA HeapOfOne ==
    ASSUME NEW v, NEW x, v[x] \in Nat
    PROVE  IsFiniteSet(Heap(v, {x})) /\ Sum(v, {x}) = v[x]
<1>1. PICK n \in Nat : n = v[x]
  OBVIOUS
<1> DEFINE D == 0 .. n - 1
           H == Heap(v, {x})
           f == [k \in D |-> <<x, k>>]
<1>2. IsFiniteSet(D) /\ Cardinality(D) = n
  <2>1. 0 \in Int /\ n - 1 \in Int
    OBVIOUS
  <2>2. IsFiniteSet(0 .. n - 1) /\ Cardinality(0 .. n - 1) = IF 0 > n - 1 THEN 0
                                                             ELSE n - 1 - 0 + 1
    BY ONLY <2>1, FS_Interval
  <2>3. Cardinality(0 .. n - 1) = n
    BY <2>2
  <2> QED
    BY <2>2, <2>3
<1>3. f \in Bijection(D, H)
  <2>1. f \in [D -> H]
    BY <1>1 DEF Heap
  <2>2. \A j, k \in D : f[j] = f[k] => j = k
    OBVIOUS
  <2>3. ASSUME NEW p \in H PROVE \E k \in D : f[k] = p
    <3>1. p \in {x} \X Nat /\ p[2] < n
      BY <1>1 DEF Heap
    <3>2. p = <<x, p[2]>> /\ p[2] \in D
      BY <3>1
    <3> QED
      BY <3>2
  <2> HIDE DEF f, D, H
  <2> QED
    BY <2>1, <2>2, <2>3 DEF Bijection, Injection, Surjection, IsInjective
<1>4. IsFiniteSet(H) /\ Cardinality(H) = n
  <2> HIDE DEF f, D, H
  <2>1. ExistsBijection(D, H)
    BY <1>3 DEF ExistsBijection
  <2> QED
    BY <1>2, <2>1, FS_Bijection
<1> QED
  BY <1>1, <1>4 DEF Sum

LEMMA HeapIsFinite ==
    ASSUME NEW v, NEW s, IsFiniteSet(s), \A x \in s : v[x] \in Nat
    PROVE  IsFiniteSet(Heap(v, s)) /\ Sum(v, s) \in Nat
<1> DEFINE T == {Heap(v, {x}) : x \in s}
           f == [x \in s |-> Heap(v, {x})]
<1>1. IsFiniteSet(T)
  <2>1. f \in Surjection(s, T)
    BY DEF Surjection
  <2> HIDE DEF f, T
  <2> QED
    BY <2>1, FS_Surjection
<1>2. \A H \in T : IsFiniteSet(H)
  BY HeapOfOne
<1>3. UNION T = Heap(v, s)
  BY DEF Heap
<1>4. IsFiniteSet(UNION T)
  <2> HIDE DEF T
  <2> QED
    BY <1>1, <1>2, FS_UNION
<1> QED
  BY <1>3, <1>4, FS_CardinalityType DEF Sum

LEMMA SumOfNone ==
    ASSUME NEW v
    PROVE  Sum(v, {}) = 0
<1>1. Heap(v, {}) = {}
  BY DEF Heap
<1> QED
  BY <1>1, FS_EmptySet DEF Sum

LEMMA SumAdds ==
    ASSUME NEW v, NEW s, NEW t, IsFiniteSet(s), IsFiniteSet(t), s \cap t = {},
           \A x \in s \cup t : v[x] \in Nat
    PROVE  Sum(v, s \cup t) = Sum(v, s) + Sum(v, t)
<1>1. PICK H, K : H = Heap(v, s) /\ K = Heap(v, t)
  OBVIOUS
<1>2. Heap(v, s \cup t) = H \cup K /\ H \cap K = {}
  BY <1>1 DEF Heap
<1>3. IsFiniteSet(H) /\ IsFiniteSet(K) /\ Cardinality(H) \in Nat /\ Cardinality(K) \in Nat
  BY <1>1, HeapIsFinite DEF Sum
<1>4. Cardinality(H \cup K) = Cardinality(H) + Cardinality(K) - Cardinality(H \cap K)
  BY <1>3, FS_Union
<1>5. Cardinality(H \cap K) = 0
  BY <1>2, FS_EmptySet
<1>6. Cardinality(H \cup K) = Cardinality(H) + Cardinality(K)
  BY <1>3, <1>4, <1>5
<1> QED
  BY <1>1, <1>2, <1>6 DEF Sum

LEMMA SumTakesOne ==
    ASSUME NEW v, NEW s, IsFiniteSet(s), NEW x \in s, \A y \in s : v[y] \in Nat
    PROVE  Sum(v, s) = v[x] + Sum(v, s \ {x})
<1>1. PICK t : t = s \ {x}
  OBVIOUS
<1>2. IsFiniteSet({x}) /\ IsFiniteSet(t)
  BY <1>1, FS_Singleton, FS_RemoveElement
<1>3. {x} \cap t = {} /\ s = {x} \cup t
  BY <1>1
<1>4. Sum(v, {x}) = v[x]
  BY HeapOfOne
<1>5. Sum(v, {x} \cup t) = Sum(v, {x}) + Sum(v, t)
  BY <1>2, <1>3, SumAdds
<1> QED
  BY <1>1, <1>3, <1>4, <1>5

LEMMA SumOfEqual ==
    ASSUME NEW v, NEW w, NEW s, \A x \in s : v[x] = w[x]
    PROVE  Sum(v, s) = Sum(w, s)
<1>1. Heap(v, s) = Heap(w, s)
  BY DEF Heap
<1> QED
  BY <1>1 DEF Sum

\* The sum in groups is the sum.
LEMMA SumInGroups ==
    ASSUME NEW ids, NEW G, IsFiniteSet(ids), IsFiniteSet(G), NEW f \in [ids -> G],
           NEW v, \A i \in ids : v[i] \in Nat,
           NEW w, \A g \in G : w[g] = Sum(v, {i \in ids : f[i] = g})
    PROVE  Sum(w, G) = Sum(v, ids)
<1> DEFINE Of(K) == {i \in ids : f[i] \in K}
           Group(g) == {i \in ids : f[i] = g}
           Fails == {n \in Nat : \E K \in SUBSET G :
                                   n = Cardinality(K) /\ Sum(w, K) # Sum(v, Of(K))}
<1>1. \A g \in G : IsFiniteSet(Group(g)) /\ w[g] = Sum(v, Group(g)) /\ w[g] \in Nat
  <2>1. \A g \in G : IsFiniteSet(Group(g)) /\ \A i \in Group(g) : v[i] \in Nat
    BY FS_Subset
  <2> HIDE DEF Group
  <2>2. \A g \in G : Sum(v, Group(g)) \in Nat
    BY <2>1, HeapIsFinite
  <2>3. \A g \in G : w[g] = Sum(v, Group(g))
    BY DEF Group
  <2> QED
    BY <2>1, <2>2, <2>3
<1>2. \A K \in SUBSET G : IsFiniteSet(K) /\ Cardinality(K) \in Nat
  BY FS_Subset, FS_CardinalityType
<1>3. Fails = {}
  <2> SUFFICES ASSUME Fails # {} PROVE FALSE
    OBVIOUS
  <2>1. Fails \in SUBSET Nat
    OBVIOUS
  <2>2. PICK n \in Fails : \A m \in Fails : n <= m
    <3> HIDE DEF Fails
    <3> QED
      BY <2>1, SmallestExists
  <2>3. PICK K \in SUBSET G : n = Cardinality(K) /\ Sum(w, K) # Sum(v, Of(K))
    OBVIOUS
  <2>4. ASSUME NEW L \in SUBSET G, Cardinality(L) < n PROVE Sum(w, L) = Sum(v, Of(L))
    <3>1. Sum(w, L) # Sum(v, Of(L)) => Cardinality(L) \in Fails
      BY <1>2
    <3> HIDE DEF Fails, Of
    <3> QED
      BY <1>2, <2>2, <2>3, <2>4, <3>1
  <2>5. CASE K = {}
    <3>1. Of(K) = {}
      BY <2>5
    <3> HIDE DEF Of
    <3> QED
      BY <2>3, <2>5, <3>1, SumOfNone
  <2>6. CASE K # {}
    <3>1. PICK g : g \in K
      BY <2>6
    <3>2. PICK L : L = K \ {g}
      OBVIOUS
    <3>3. L \in SUBSET G /\ Cardinality(L) < n
      BY <1>2, <2>3, <3>1, <3>2, FS_RemoveElement
    <3>4. Sum(w, K) = w[g] + Sum(w, L)
      <4>1. IsFiniteSet(K) /\ \A y \in K : w[y] \in Nat
        BY <1>1, <1>2
      <4> QED
        BY <3>1, <3>2, <4>1, SumTakesOne
    <3>5. Of(K) = Group(g) \cup Of(L) /\ Group(g) \cap Of(L) = {}
      BY <3>1, <3>2
    <3>6. IsFiniteSet(Of(L)) /\ \A i \in Group(g) \cup Of(L) : v[i] \in Nat
      BY FS_Subset
    <3>7. w[g] = Sum(v, Group(g)) /\ IsFiniteSet(Group(g)) /\ Sum(w, L) = Sum(v, Of(L))
      BY <1>1, <2>4, <3>1, <3>3
    <3> HIDE DEF Of, Group
    <3>8. Sum(v, Group(g) \cup Of(L)) = Sum(v, Group(g)) + Sum(v, Of(L))
      BY <3>5, <3>6, <3>7, SumAdds
    <3> QED
      BY <2>3, <3>4, <3>5, <3>7, <3>8
  <2> QED
    BY <2>5, <2>6
<1>4. Sum(w, G) # Sum(v, Of(G)) => Cardinality(G) \in Fails
  BY <1>2
<1>5. Of(G) = ids
  OBVIOUS
<1> HIDE DEF Fails, Of
<1> QED
  BY <1>3, <1>4, <1>5

\* What the library's fold computes, in whatever order it takes the indices.
LEMMA FoldIsSum ==
    ASSUME NEW v, IsFiniteSet(DOMAIN v), \A x \in DOMAIN v : v[x] \in Nat
    PROVE  FoldFunction(+, 0, v) = Sum(v, DOMAIN v)
<1> DEFINE S == DOMAIN v
           Taken(s) == CHOOSE x \in s : TRUE
           Step(h, s) == IF s = {} THEN 0 ELSE v[Taken(s)] + h[s \ {Taken(s)}]
           Folds(h) == h = [s \in SUBSET S |-> Step(h, s)]
           sums == [s \in SUBSET S |-> Sum(v, s)]
           iter == CHOOSE f : Folds(f)
<1>1. FoldFunction(+, 0, v) = iter[S]
  BY DEF FoldFunction, FoldFunctionOnSet, MapThenFoldSet
<1>2. ASSUME NEW s \in SUBSET S
      PROVE  /\ IsFiniteSet(s) /\ Cardinality(s) \in Nat
             /\ s = {} => Sum(v, s) = 0
             /\ s # {} => /\ Taken(s) \in s /\ s \ {Taken(s)} \in SUBSET S
                          /\ Cardinality(s \ {Taken(s)}) = Cardinality(s) - 1
                          /\ Sum(v, s) = v[Taken(s)] + Sum(v, s \ {Taken(s)})
  <2>1. IsFiniteSet(s) /\ Cardinality(s) \in Nat
    BY FS_Subset, FS_CardinalityType
  <2>2. s # {} => Taken(s) \in s
    OBVIOUS
  <2>3. \A y \in s : v[y] \in Nat
    OBVIOUS
  <2> HIDE DEF Taken
  <2>4. s = {} => Sum(v, s) = 0
    BY SumOfNone
  <2>5. ASSUME s # {}
        PROVE  /\ Cardinality(s \ {Taken(s)}) = Cardinality(s) - 1
               /\ Sum(v, s) = v[Taken(s)] + Sum(v, s \ {Taken(s)})
    <3>1. PICK x \in s : x = Taken(s)
      BY <2>2, <2>5
    <3>2. Cardinality(s \ {x}) = Cardinality(s) - 1
      BY <2>1, FS_RemoveElement
    <3>3. Sum(v, s) = v[x] + Sum(v, s \ {x})
      BY <2>1, <2>3, SumTakesOne
    <3> QED
      BY <3>1, <3>2, <3>3
  <2> QED
    BY <2>1, <2>2, <2>4, <2>5
<1> HIDE DEF Taken
<1>3. ASSUME NEW s \in SUBSET S PROVE Step(sums, s) = Sum(v, s)
  <2>1. \A t \in SUBSET S : sums[t] = Sum(v, t)
    OBVIOUS
  <2> HIDE DEF sums
  <2> QED
    BY <1>2, <2>1
<1>4. Folds(sums)
  BY <1>3
<1>5. Folds(iter)
  <2> HIDE DEF Folds, sums
  <2> QED
    BY <1>4
<1>6. \A s \in SUBSET S : iter[s] = Step(iter, s)
  <2>1. PICK f : f = iter
    OBVIOUS
  <2>2. f = [s \in SUBSET S |-> Step(f, s)]
    BY <1>5, <2>1
  <2>3. \A s \in SUBSET S : f[s] = Step(f, s)
    BY <2>2
  <2> HIDE DEF iter
  <2> QED
    BY <2>1, <2>3
<1> HIDE DEF iter, Folds, sums
<1> DEFINE Fails == {n \in Nat : \E s \in SUBSET S : n = Cardinality(s) /\ iter[s] # Sum(v, s)}
<1>7. Fails = {}
  <2> SUFFICES ASSUME Fails # {} PROVE FALSE
    OBVIOUS
  <2>1. Fails \in SUBSET Nat
    OBVIOUS
  <2>2. PICK n \in Fails : \A m \in Fails : n <= m
    <3> HIDE DEF Fails
    <3> QED
      BY <2>1, SmallestExists
  <2>3. PICK s \in SUBSET S : n = Cardinality(s) /\ iter[s] # Sum(v, s)
    OBVIOUS
  <2>4. \A t \in SUBSET S : iter[t] # Sum(v, t) => n <= Cardinality(t)
    <3>1. \A t \in SUBSET S : iter[t] # Sum(v, t) => Cardinality(t) \in Fails
      BY <1>2
    <3> HIDE DEF Fails
    <3> QED
      BY <2>2, <3>1
  <2>5. CASE s = {}
    BY <1>2, <1>6, <2>3, <2>5
  <2>6. CASE s # {}
    <3>1. PICK t : t = s \ {Taken(s)}
      OBVIOUS
    <3>2. t \in SUBSET S /\ Cardinality(t) = n - 1 /\ n \in Nat
      BY <1>2, <2>3, <2>6, <3>1
    <3>3. iter[t] = Sum(v, t)
      <4>1. ~(n <= Cardinality(t))
        BY <3>2
      <4> QED
        BY <2>4, <3>2, <4>1
    <3>4. iter[s] = v[Taken(s)] + iter[t] /\ Sum(v, s) = v[Taken(s)] + Sum(v, t)
      BY <1>2, <1>6, <2>6, <3>1
    <3> QED
      BY <2>3, <3>3, <3>4
  <2> QED
    BY <2>5, <2>6
<1>8. iter[S] = Sum(v, S)
  <2>1. S \in SUBSET S /\ (iter[S] # Sum(v, S) => Cardinality(S) \in Fails)
    BY <1>2
  <2> HIDE DEF Fails
  <2> QED
    BY <1>7, <2>1
<1> QED
  BY <1>1, <1>8

----------------------------------------------------------------------------
(* What is in the table is what the run had found in the file.             *)

\* A stored row is the run's, with two digits of its amount and any category.
StoredAs(row, t) ==
    /\ row.line = t.line /\ row.date = t.date /\ row.direction = t.direction
    /\ row.amount = Rounded(t.amount)

\* The statement's row says how many rows there are and between which dates.
SaysOf(count, first, last, rows) ==
    /\ count = Len(rows)
    /\ \A i \in DOMAIN rows : first <= rows[i].date /\ rows[i].date <= last
    /\ \E i \in DOMAIN rows : rows[i].date = first
    /\ \E i \in DOMAIN rows : rows[i].date = last

StoredInv ==
    /\ node # "COMPLETED" => table = <<>>
    /\ table = <<>> => statement.transaction_count = 0
    /\ table # <<>> =>
         /\ Len(table) = Len(transactions)
         /\ \A i \in DOMAIN table : StoredAs(table[i], transactions[i])
         /\ SaysOf(statement.transaction_count, statement.period_start, statement.period_end,
                   table)

LEMMA StoreKeeps ==
    ASSUME AllInv, StoredInv, StoreTransactions
    PROVE  StoredInv'
<1>1. node = "store_transactions" /\ transactions' = transactions
  BY DEF StoreTransactions
<1>2. table = <<>> /\ statement.transaction_count = 0
  BY <1>1 DEF StoredInv
<1>3. CASE UNCHANGED <<table, statement>>
  BY <1>2, <1>3 DEF StoredInv
<1>4. CASE ~UNCHANGED <<table, statement>>
  <2>1. /\ node' = "COMPLETED"
        /\ table' = [i \in DOMAIN transactions |-> [transactions[i] EXCEPT !.amount = Rounded(@)]]
        /\ statement' = [transaction_count |-> Len(transactions),
                         period_start |-> Min(DatesOf(transactions)),
                         period_end |-> Max(DatesOf(transactions))]
    BY <1>4 DEF StoreTransactions
  <2>2. PICK len \in Nat : len = Len(transactions) /\ DOMAIN transactions = 1 .. len
    BY RowTypes DEF AllInv, FileInv
  <2>3. len # 0
    <3>1. transactions # <<>>
      BY <1>1 DEF AllInv, FileInv, LinesInv, Unread
    <3> QED
      BY <2>2, <3>1, EmptySeq DEF AllInv, FileInv, TypeOK
  <2>4. \A i \in 1 .. len : transactions[i] \in Transactions /\ transactions[i].date \in Nat
    BY <2>2, RowTypes DEF AllInv, FileInv, Transactions
  <2>5. \A t \in Transactions : \A a :
          /\ [t EXCEPT !.amount = a].line = t.line /\ [t EXCEPT !.amount = a].date = t.date
          /\ [t EXCEPT !.amount = a].direction = t.direction
          /\ [t EXCEPT !.amount = a].amount = a
    BY DEF Transactions
  <2>6. ASSUME NEW i \in 1 .. len PROVE StoredAs(table'[i], transactions[i])
    <3>1. PICK t, a : t = transactions[i] /\ a = Rounded(t.amount)
      OBVIOUS
    <3>2. table'[i] = [t EXCEPT !.amount = a] /\ t \in Transactions
      BY <2>1, <2>2, <2>4, <3>1
    <3> QED
      BY <2>5, <3>1, <3>2 DEF StoredAs
  <2>7. DOMAIN table' = 1 .. len /\ Len(table') = len
    <3>1. DOMAIN table' = 1 .. len
      BY <2>1, <2>2
    <3>2. table' \in Seq(Transactions)
      BY FileStore DEF FileInv, TypeOK
    <3> QED
      BY <2>2, <3>1, <3>2, LenProperties
  <2>8. PICK D : D = DatesOf(transactions)
    OBVIOUS
  <2>9. PICK b \in Nat : \A i \in 1 .. len : transactions[i].date <= b
    BY <2>4, DatesEnd
  <2>10. /\ \A d \in D : \E i \in 1 .. len : transactions[i].date = d
         /\ \A i \in 1 .. len : transactions[i].date \in D
    BY <2>2, <2>8 DEF DatesOf, Range
  <2>11. D \in SUBSET Nat /\ D \in SUBSET (0 .. b) /\ D # {}
    <3>1. D \in SUBSET Nat /\ D \in SUBSET (0 .. b)
      BY <2>4, <2>9, <2>10
    <3>2. 1 \in 1 .. len
      BY <2>3
    <3> QED
      BY <2>10, <3>1, <3>2
  <2>12. PICK first, last : first = Min(D) /\ last = Max(D)
    OBVIOUS
  <2>13. first \in D /\ last \in D /\ \A d \in D : first <= d /\ d <= last
    BY <2>11, <2>12, MinOfNumbers, MaxOfNumbers
  <2>14. \A i \in 1 .. len : table'[i].date = transactions[i].date
    BY <2>6 DEF StoredAs
  <2>15. SaysOf(len, first, last, table')
    BY <2>7, <2>10, <2>13, <2>14 DEF SaysOf
  <2>16. statement'.transaction_count = len /\ statement'.period_start = first
         /\ statement'.period_end = last
    BY <2>1, <2>2, <2>8, <2>12
  <2>17. table' # <<>>
    BY <2>3, <2>7
  <2> QED
    BY <1>1, <2>1, <2>2, <2>6, <2>7, <2>15, <2>16, <2>17 DEF StoredInv
<1> QED
  BY <1>3, <1>4

LEMMA CategoryKeeps ==
    ASSUME AllInv, StoredInv, NEW i \in DOMAIN table,
           NEW category \in Categories \cup {"UNCATEGORIZED"}, SetCategory(i, category)
    PROVE  StoredInv'
<1>1. UNCHANGED <<node, transactions, statement>>
  BY DEF SetCategory
<1>2. PICK len \in Nat : len = Len(table) /\ DOMAIN table = 1 .. len
  BY RowTypes DEF AllInv, FileInv
<1>3. table # <<>>
  BY <1>2
<1>4. DOMAIN table' = 1 .. len /\ Len(table') = len
  <2>1. DOMAIN table' = 1 .. len
    BY <1>2 DEF SetCategory
  <2>2. table' \in Seq(Transactions)
    BY FileCategory DEF FileInv, TypeOK
  <2> QED
    BY <1>2, <2>1, <2>2, LenProperties
<1>5. ASSUME NEW j \in 1 .. len
      PROVE  /\ table'[j].line = table[j].line /\ table'[j].date = table[j].date
             /\ table'[j].direction = table[j].direction /\ table'[j].amount = table[j].amount
  <2>1. PICK t \in Transactions : t = table[j]
    BY <1>2, RowTypes DEF AllInv, FileInv
  <2>2. PICK s : s = SourceOf(category)
    OBVIOUS
  <2>3. PICK row : row = [t EXCEPT !.category = category, !.categorized_by = s,
                                   !.confidence = None]
    OBVIOUS
  <2>4. row.line = t.line /\ row.date = t.date /\ row.direction = t.direction
        /\ row.amount = t.amount
    BY ONLY <2>1, <2>3 DEF Transactions
  <2>5. table'[j] = IF j = i THEN row ELSE t
    BY <1>2, <2>1, <2>2, <2>3 DEF SetCategory
  <2> QED
    BY <2>1, <2>4, <2>5
<1>6. /\ node = "COMPLETED" /\ len = Len(transactions)
      /\ \A j \in 1 .. len : StoredAs(table[j], transactions[j])
      /\ SaysOf(statement.transaction_count, statement.period_start, statement.period_end, table)
  BY <1>2, <1>3 DEF StoredInv
<1>7. \A j \in 1 .. len : StoredAs(table'[j], transactions[j])
  BY <1>5, <1>6 DEF StoredAs
<1>8. SaysOf(statement.transaction_count, statement.period_start, statement.period_end, table')
  BY <1>2, <1>4, <1>5, <1>6 DEF SaysOf
<1>9. table' # <<>>
  <2>1. i \in DOMAIN table'
    BY <1>2, <1>4
  <2> QED
    BY <2>1
<1> QED
  BY <1>1, <1>4, <1>6, <1>7, <1>8, <1>9 DEF StoredInv

\* Until the run ends the table is empty; from then on it holds the run's rows, line by line with
\* the amounts as its column rounds them, and the statement counts them and spans their dates
\* (only store_transactions inserts rows; a recategorization changes nothing but the category).
THEOREM StoredInvariant == Spec => []StoredInv
<1>1. Init => StoredInv
  BY DEF Init, StoredInv
<1>2. AllInv /\ StoredInv /\ [Next]_vars => StoredInv'
  <2> SUFFICES ASSUME AllInv, StoredInv, [Next]_vars PROVE StoredInv'
    OBVIOUS
  <2>1. CASE UNCHANGED vars
    BY <2>1 DEF vars, StoredInv, StoredAs, SaysOf
  <2>2. ASSUME node # "COMPLETED", UNCHANGED <<table, statement>> PROVE StoredInv'
    BY <2>2 DEF StoredInv
  <2>3. CASE \/ ParseCsv \/ NormalizeRows \/ ApplyCategoryRules \/ AskModel \/ ApplyPredictions
             \/ NoSuggestions \/ SubmitReview
    BY <2>2, <2>3 DEF ParseCsv, NormalizeRows, ApplyCategoryRules, AskModel, ApplyPredictions,
                      NoSuggestions, SubmitReview
  <2> QED
    BY <2>1, <2>3, StoreKeeps, CategoryKeeps DEF Next
<1> QED
  BY <1>1, <1>2, FileInvariant, PTL DEF Spec

----------------------------------------------------------------------------
(* The totals.                                                             *)

LEMMA TotalOf ==
    ASSUME NEW v, IsFiniteSet(DOMAIN v), \A x \in DOMAIN v : v[x] \in Nat \cup {NotANumber}
    PROVE  Total(v) = IF \E x \in DOMAIN v : v[x] = NotANumber THEN NotANumber
                      ELSE Sum(v, DOMAIN v)
<1>1. NotANumber \in Range(v) <=> \E x \in DOMAIN v : v[x] = NotANumber
  BY DEF Range
<1>2. Total(v) = IF NotANumber \in Range(v) THEN NotANumber ELSE FoldFunction(+, 0, v)
  BY DEF Total
<1>3. CASE \E x \in DOMAIN v : v[x] = NotANumber
  BY <1>1, <1>2, <1>3
<1>4. CASE ~ \E x \in DOMAIN v : v[x] = NotANumber
  <2>1. \A x \in DOMAIN v : v[x] \in Nat
    BY <1>4
  <2> QED
    BY <1>1, <1>2, <1>4, <2>1, FoldIsSum
<1> QED
  BY <1>3, <1>4

Amounts == [i \in DOMAIN table |-> table[i].amount]

LEMMA RowsTotalIs ==
    ASSUME TableTyped, NEW ids \in SUBSET DOMAIN table
    PROVE  /\ RowsTotal(ids) = IF \E i \in ids : table[i].amount = NotANumber THEN NotANumber
                               ELSE Sum(Amounts, ids)
           /\ RowsTotal(ids) \in Nat \cup {NotANumber}
           /\ RowsTotal(ids) = NotANumber <=> Unlistable(ids) # {}
<1>1. PICK v : v = [i \in ids |-> table[i].amount]
  OBVIOUS
<1>2. DOMAIN v = ids /\ \A i \in ids : v[i] = table[i].amount /\ v[i] = Amounts[i]
  BY <1>1 DEF Amounts
<1>3. \A i \in ids : v[i] \in Nat \cup {NotANumber}
  BY <1>2, RowsOfTable DEF Transactions
<1>4. IsFiniteSet(ids)
  BY FiniteRows
<1>5. Total(v) = IF \E i \in ids : v[i] = NotANumber THEN NotANumber ELSE Sum(v, ids)
  BY <1>2, <1>3, <1>4, TotalOf
<1>6. Sum(v, ids) = Sum(Amounts, ids)
  BY <1>2, SumOfEqual
<1>7. (~ \E i \in ids : v[i] = NotANumber) => Sum(v, ids) \in Nat
  BY <1>3, <1>4, HeapIsFinite
<1>8. RowsTotal(ids) = Total(v)
  BY <1>1 DEF RowsTotal
<1>9. \A n \in Nat : n # NotANumber
  BY AbsenceAssumption
<1> QED
  BY <1>2, <1>5, <1>6, <1>7, <1>8, <1>9 DEF Unlistable

\* The total of the groups' totals is the total of the rows, with amounts that are no number
\* as without them.
LEMMA TotalInGroups ==
    ASSUME TableTyped, NEW ids \in SUBSET DOMAIN table, NEW G, IsFiniteSet(G),
           NEW f \in [ids -> G], NEW w, DOMAIN w = G,
           \A g \in G : w[g] = RowsTotal({i \in ids : f[i] = g})
    PROVE  Total(w) = RowsTotal(ids)
<1> DEFINE Group(g) == {i \in ids : f[i] = g}
<1>1. \A g \in G : Group(g) \in SUBSET DOMAIN table /\ w[g] = RowsTotal(Group(g))
  OBVIOUS
<1>2. \A g \in G : \A i \in Group(g) : i \in ids
  OBVIOUS
<1>3. \A i \in ids : f[i] \in G /\ i \in Group(f[i])
  OBVIOUS
<1>4. \A g \in G :
        /\ w[g] \in Nat \cup {NotANumber}
        /\ w[g] = IF \E i \in Group(g) : table[i].amount = NotANumber THEN NotANumber
                  ELSE Sum(Amounts, Group(g))
  <2> HIDE DEF Group
  <2> QED
    BY <1>1, RowsTotalIs
<1>5. Total(w) = IF \E g \in G : w[g] = NotANumber THEN NotANumber ELSE Sum(w, G)
  BY <1>4, TotalOf
<1>6. CASE \E i \in ids : table[i].amount = NotANumber
  <2>1. PICK i \in ids : table[i].amount = NotANumber
    BY <1>6
  <2>2. w[f[i]] = NotANumber /\ f[i] \in G
    <3> HIDE DEF Group
    <3> QED
      BY <1>3, <1>4, <2>1
  <2>3. RowsTotal(ids) = NotANumber
    BY <2>1, RowsTotalIs
  <2> QED
    BY <1>5, <2>2, <2>3
<1>7. CASE ~ \E i \in ids : table[i].amount = NotANumber
  <2>1. \A g \in G : w[g] = Sum(Amounts, Group(g))
    <3> HIDE DEF Group
    <3> QED
      BY <1>2, <1>4, <1>7
  <2>2. \A i \in ids : Amounts[i] \in Nat
    <3>1. \A i \in ids : table[i].amount \in Nat
      BY <1>7, RowsOfTable DEF Transactions
    <3> QED
      BY <3>1 DEF Amounts
  <2>3. Sum(w, G) = Sum(Amounts, ids)
    <3>1. IsFiniteSet(ids)
      BY FiniteRows
    <3>2. \A g \in G : w[g] = Sum(Amounts, {i \in ids : f[i] = g})
      BY <2>1
    <3> QED
      BY <2>2, <3>1, <3>2, SumInGroups
  <2>4. \A g \in G : w[g] # NotANumber
    <3>1. \A g \in G : IsFiniteSet(Group(g)) /\ \A i \in Group(g) : Amounts[i] \in Nat
      BY <1>1, <1>2, <2>2, FiniteRows
    <3> HIDE DEF Group
    <3>2. \A g \in G : Sum(Amounts, Group(g)) \in Nat
      BY <3>1, HeapIsFinite
    <3> QED
      BY <2>1, <3>2, AbsenceAssumption
  <2>5. RowsTotal(ids) = Sum(Amounts, ids)
    BY <1>7, RowsTotalIs
  <2> QED
    BY <1>5, <2>3, <2>4, <2>5
<1> QED
  BY <1>6, <1>7

\* The months group the rows as their first days do.
LEMMA MonthsGroup ==
    ASSUME NEW a \in Nat, NEW b \in Nat
    PROVE  /\ MonthOf(MonthStart(a)) = MonthOf(a)
           /\ MonthStart(a) = MonthStart(b) <=> MonthOf(a) = MonthOf(b)
           /\ MonthOf(a) # None /\ MonthStart(a) \in Int
<1>1. PICK d \in Nat \ {0} : d = DaysPerMonth
  BY CalendarAssumption
<1>2. PICK p, q \in Int : p = a \div DaysPerMonth /\ q = b \div DaysPerMonth
  BY <1>1
<1>3. MonthStart(a) = p * d /\ MonthStart(b) = q * d
  BY <1>1, <1>2 DEF MonthStart
<1>4. (p * d) \div d = p /\ (q * d) \div d = q
  <2>1. \A n \in Int : n * d \in Int /\ n * d <= n * d /\ n * d < (n + 1) * d
    <3>1. \A n \in Int : n * d \in Int /\ (n + 1) * d = n * d + d
      OBVIOUS
    <3> QED
      BY <3>1
  <2> QED
    BY <2>1, Quotient
<1>5. MonthStart(a) = MonthStart(b) <=> p = q
  BY <1>3, <1>4
<1>6. MonthOf(MonthStart(a)) = MonthOf(a)
  BY <1>1, <1>2, <1>3, <1>4 DEF MonthOf
<1>7. MonthOf(a) = MonthOf(b) <=> p = q
  BY <1>1, <1>2, SameMonth
<1>8. MonthOf(a) # None
  <2>1. MonthOf(a) = [year |-> p \div 12, month |-> (p % 12) + 1]
    BY <1>2 DEF MonthOf
  <2>2. p \div 12 \in Int /\ (p % 12) + 1 \in 1 .. 12
    BY YearAndMonth
  <2> QED
    BY <2>1, <2>2, NoneAssumption
<1> QED
  BY <1>3, <1>5, <1>6, <1>7, <1>8

\* The rows of a month, and what is said of them.
RowsFrom(start) == {i \in DOMAIN table : MonthStart(table[i].date) = start}

Starts == {MonthStart(table[i].date) : i \in DOMAIN table}

MonthRow(start) ==
    [month |-> MonthOf(start),
     income |-> RowsTotal(RowsFrom(start) \cap Credits),
     expense |-> RowsTotal(RowsFrom(start) \cap Debits),
     transaction_count |-> Cardinality(RowsFrom(start))]

LEMMA MonthRows ==
    ASSUME TableTyped
    PROVE  /\ MonthlyTotals = {MonthRow(start) : start \in Starts}
           /\ IsFiniteSet(MonthlyTotals)
           /\ \A i \in DOMAIN table :
                /\ MonthStart(table[i].date) \in Starts
                /\ MonthRow(MonthStart(table[i].date)).month = MonthOf(table[i].date)
           /\ \A s, t \in Starts : MonthRow(s) = MonthRow(t) => s = t
<1>1. MonthlyTotals = {MonthRow(start) : start \in Starts}
  BY DEF MonthlyTotals, MonthRow, RowsFrom, Starts
<1>2. \A s : MonthRow(s).month = MonthOf(s)
  BY DEF MonthRow
<1>3. \A i \in DOMAIN table : table[i].date \in Nat
  BY RowsOfTable
<1>4. ASSUME NEW i \in DOMAIN table
      PROVE  /\ MonthStart(table[i].date) \in Starts
             /\ MonthRow(MonthStart(table[i].date)).month = MonthOf(table[i].date)
  <2>1. MonthOf(MonthStart(table[i].date)) = MonthOf(table[i].date)
    BY <1>3, MonthsGroup
  <2> QED
    BY <1>2, <2>1 DEF Starts
<1>5. ASSUME NEW s \in Starts, NEW t \in Starts, MonthRow(s) = MonthRow(t) PROVE s = t
  <2>1. PICK i, j \in DOMAIN table : s = MonthStart(table[i].date) /\ t = MonthStart(table[j].date)
    BY DEF Starts
  <2>2. MonthOf(table[i].date) = MonthOf(table[j].date)
    BY <1>4, <1>5, <2>1
  <2> QED
    BY <1>3, <2>1, <2>2, MonthsGroup
<1>6. IsFiniteSet(MonthlyTotals)
  <2>1. PICK T : T = MonthlyTotals
    OBVIOUS
  <2>2. PICK f : f = [i \in DOMAIN table |-> MonthRow(MonthStart(table[i].date))]
    OBVIOUS
  <2>3. f \in Surjection(DOMAIN table, T)
    <3>1. \A i \in DOMAIN table : f[i] \in T
      BY <1>1, <1>4, <2>1, <2>2
    <3>2. \A y \in T : \E i \in DOMAIN table : f[i] = y
      BY <1>1, <2>1, <2>2 DEF Starts
    <3>3. f \in [DOMAIN table -> T]
      BY <2>2, <3>1
    <3> QED
      BY <3>2, <3>3 DEF Surjection
  <2>4. IsFiniteSet(DOMAIN table)
    BY FiniteRows
  <2> QED
    BY <2>1, <2>3, <2>4, FS_Surjection
<1> QED
  BY <1>1, <1>4, <1>5, <1>6

\* Every row is in one month: the months' totals of one side add up to that side's total.
LEMMA MonthsAddUp ==
    ASSUME TableTyped, NEW side \in SUBSET DOMAIN table, NEW w, DOMAIN w = MonthlyTotals,
           \A start \in Starts : w[MonthRow(start)] = RowsTotal(RowsFrom(start) \cap side)
    PROVE  Total(w) = RowsTotal(side)
<1>1. PICK G : G = MonthlyTotals
  OBVIOUS
<1>2. PICK f : f = [i \in side |-> MonthRow(MonthStart(table[i].date))]
  OBVIOUS
<1>3. f \in [side -> G] /\ IsFiniteSet(G)
  BY <1>1, <1>2, MonthRows
<1>4. ASSUME NEW g \in G PROVE w[g] = RowsTotal({i \in side : f[i] = g})
  <2>1. PICK start \in Starts : g = MonthRow(start)
    BY <1>1, MonthRows
  <2>2. \A i \in side : f[i] = g <=> MonthStart(table[i].date) = start
    BY <1>2, <2>1, MonthRows
  <2>3. {i \in side : f[i] = g} = RowsFrom(start) \cap side
    BY <2>2 DEF RowsFrom
  <2> QED
    BY <2>1, <2>3
<1> QED
  BY <1>1, <1>3, <1>4, TotalInGroups

\* The months' counts add up to the number of rows.
LEMMA MonthsCount ==
    ASSUME TableTyped
    PROVE  Total([m \in MonthlyTotals |-> m.transaction_count]) = Len(table)
<1>1. PICK G : G = MonthlyTotals
  OBVIOUS
<1>2. PICK w : w = [m \in G |-> m.transaction_count]
  OBVIOUS
<1>3. PICK ids : ids = DOMAIN table
  OBVIOUS
<1>4. PICK v : v = [i \in ids |-> 1]
  OBVIOUS
<1>5. PICK f : f = [i \in ids |-> MonthRow(MonthStart(table[i].date))]
  OBVIOUS
<1>6. f \in [ids -> G] /\ IsFiniteSet(G) /\ IsFiniteSet(ids)
  BY <1>1, <1>3, <1>5, MonthRows, FiniteRows
<1>7. ASSUME NEW s \in SUBSET ids PROVE Sum(v, s) = Cardinality(s)
  <2>1. PICK h : h = [i \in s |-> <<i, 0>>]
    OBVIOUS
  <2>2. PICK H : H = Heap(v, s)
    OBVIOUS
  <2>3. \A p \in H : p[1] \in s /\ p = <<p[1], 0>>
    BY <1>4, <2>2 DEF Heap
  <2>4. \A i \in s : <<i, 0>> \in H
    BY <1>4, <2>2 DEF Heap
  <2>5. h \in Bijection(s, H)
    <3>1. h \in [s -> H] /\ \A i, j \in s : h[i] = h[j] => i = j
      BY <2>1, <2>4
    <3>2. \A p \in H : h[p[1]] = p
      BY <2>1, <2>3
    <3> QED
      BY <2>3, <3>1, <3>2 DEF Bijection, Injection, Surjection, IsInjective
  <2>6. IsFiniteSet(s)
    BY <1>6, FS_Subset
  <2> QED
    BY <2>2, <2>5, <2>6, FS_Bijection DEF Sum, ExistsBijection
<1>8. ASSUME NEW g \in G PROVE w[g] = Sum(v, {i \in ids : f[i] = g}) /\ w[g] \in Nat
  <2>1. PICK start \in Starts : g = MonthRow(start)
    BY <1>1, MonthRows
  <2>2. \A i \in ids : f[i] = g <=> MonthStart(table[i].date) = start
    BY <1>3, <1>5, <2>1, MonthRows
  <2>3. {i \in ids : f[i] = g} = RowsFrom(start) /\ RowsFrom(start) \in SUBSET ids
    BY <1>3, <2>2 DEF RowsFrom
  <2>4. w[g] = Cardinality(RowsFrom(start))
    BY <1>2, <2>1 DEF MonthRow
  <2>5. Cardinality(RowsFrom(start)) \in Nat
    BY <1>3, <2>3, FiniteRows
  <2> QED
    BY <1>7, <2>3, <2>4, <2>5
<1>9. Sum(w, G) = Sum(v, ids)
  <2>1. \A i \in ids : v[i] \in Nat
    BY <1>4
  <2> QED
    BY <1>6, <1>8, <2>1, SumInGroups
<1>10. Total(w) = Sum(w, G)
  <2>1. DOMAIN w = G /\ (\A g \in G : w[g] \in Nat \cup {NotANumber} /\ w[g] # NotANumber)
    <3>1. \A n \in Nat : n # NotANumber
      BY AbsenceAssumption
    <3> QED
      BY <1>2, <1>8, <3>1
  <2> QED
    BY <1>6, <2>1, TotalOf
<1>11. Cardinality(ids) = Len(table)
  <2>1. Cardinality(1 .. Len(table)) = Len(table)
    BY RowsOfTable, FS_Interval
  <2> QED
    BY <1>3, <2>1, RowsOfTable
<1> QED
  BY <1>1, <1>2, <1>7, <1>9, <1>10, <1>11

\* What was spent, in a month or ever.
Spent(month) ==
    {i \in Debits :
        month # None => DayIn(table[i].date, StartDate(month), EndDateExclusive(month))}

\* The bars of the categories add up to what was spent.
LEMMA CategoriesAddUp ==
    ASSUME TableTyped, NEW month
    PROVE  /\ Total([c \in CategoryTotals(month) |-> c.amount]) = RowsTotal(Spent(month))
           /\ RowsTotal(Spent(month)) = NotANumber
                <=> \E c \in CategoryTotals(month) : c.amount = NotANumber
<1> DEFINE Of(c) == {i \in Spent(month) : table[i].category = c}
           Bar(c) == [category |-> c, amount |-> RowsTotal(Of(c)),
                      transaction_count |-> Cardinality(Of(c))]
<1>1. PICK G : G = CategoryTotals(month)
  OBVIOUS
<1>2. G = {Bar(c) : c \in {table[i].category : i \in Spent(month)}}
  BY <1>1 DEF CategoryTotals, Spent
<1>3. PICK ids : ids = Spent(month) /\ ids \in SUBSET DOMAIN table
  BY DEF Spent, Debits
<1>4. \A c : Bar(c).category = c /\ Bar(c).amount = RowsTotal(Of(c))
  OBVIOUS
<1> HIDE DEF Bar
<1>5. PICK f : f = [i \in ids |-> Bar(table[i].category)]
  OBVIOUS
<1>6. f \in Surjection(ids, G)
  <2>1. f \in [ids -> G]
    BY <1>2, <1>3, <1>5
  <2>2. \A g \in G : \E i \in ids : f[i] = g
    BY <1>2, <1>3, <1>5
  <2> QED
    BY <2>1, <2>2 DEF Surjection
<1>7. IsFiniteSet(G) /\ f \in [ids -> G]
  BY <1>3, <1>6, FiniteRows, FS_Surjection DEF Surjection
<1>8. PICK w : w = [c \in G |-> c.amount]
  OBVIOUS
<1>9. ASSUME NEW g \in G PROVE w[g] = RowsTotal({i \in ids : f[i] = g})
  <2>1. PICK c : g = Bar(c)
    BY <1>2
  <2>2. \A i \in ids : f[i] = g <=> table[i].category = c
    BY <1>4, <1>5, <2>1
  <2>3. {i \in ids : f[i] = g} = Of(c)
    BY <1>3, <2>2
  <2> QED
    BY <1>4, <1>8, <2>1, <2>3
<1>10. Total(w) = RowsTotal(ids)
  <2>1. DOMAIN w = G
    BY <1>8
  <2> QED
    BY <1>3, <1>7, <1>9, <2>1, TotalInGroups
<1>11. ASSUME NEW g \in G, g.amount = NotANumber PROVE RowsTotal(ids) = NotANumber
  BY <1>8, <1>10, <1>11 DEF Total, Range
<1>12. ASSUME RowsTotal(ids) = NotANumber PROVE \E g \in G : g.amount = NotANumber
  <2>1. PICK i \in ids : table[i].amount = NotANumber
    BY <1>3, <1>12, RowsTotalIs DEF Unlistable
  <2>2. f[i] \in G
    BY <1>7
  <2>3. PICK group : group = {j \in ids : f[j] = f[i]}
    OBVIOUS
  <2>4. RowsTotal(group) = NotANumber
    BY <1>3, <2>1, <2>3, RowsTotalIs
  <2>5. w[f[i]] = f[i].amount /\ w[f[i]] = RowsTotal(group)
    BY <1>8, <1>9, <2>2, <2>3
  <2> QED
    BY <2>2, <2>4, <2>5
<1> QED
  BY <1>1, <1>3, <1>8, <1>10, <1>11, <1>12

LEMMA RowsTotalOfOne ==
    ASSUME TableTyped, NEW i \in DOMAIN table
    PROVE  RowsTotal({i}) = table[i].amount
<1>1. RowsTotal({i}) = IF \E j \in {i} : table[j].amount = NotANumber THEN NotANumber
                       ELSE Sum(Amounts, {i})
  BY RowsTotalIs
<1>2. Amounts[i] = table[i].amount
  BY DEF Amounts
<1>3. CASE table[i].amount = NotANumber
  BY <1>1, <1>3
<1>4. CASE table[i].amount # NotANumber
  <2>1. Amounts[i] \in Nat
    BY <1>2, <1>4, RowsOfTable DEF Transactions
  <2>2. Sum(Amounts, {i}) = Amounts[i]
    BY <2>1, HeapOfOne
  <2> QED
    BY <1>1, <1>2, <1>4, <2>2
<1> QED
  BY <1>3, <1>4

LEMMA OrdinaryAmount ==
    ASSUME NEW line \in Lines, NEW headers, IsOrdinary(line, headers), ~IsSkipped(line, headers)
    PROVE  Magnitude(AmountIn(line, FilledColumn(line, headers))) \in Nat
<1>1. PICK c : c = FilledColumn(line, headers)
  OBVIOUS
<1>2. c \in headers \cap AmountColumns /\ AmountIn(line, c) \notin {None, 0}
  BY <1>1, ColumnType DEF IsSkipped
<1>3. line[c].reads # NotANumber /\ line[c].suffix = "none"
  BY <1>2 DEF IsOrdinary
<1>4. AmountIn(line, c) \in Int
  BY <1>2, <1>3, OrdinaryCell
<1> QED
  BY <1>1, <1>4, AbsenceAssumption DEF Magnitude

\* A statement's rows are the file's lines: what they moved in one direction is what the file
\* says.
LEMMA FileAddsUp ==
    ASSUME AllInv, StoredInv, table # <<>>,
           \A l \in DOMAIN file.lines : IsOrdinary(file.lines[l], file.headers),
           NEW sign \in {1, -1}
    PROVE  FileMoves(sign) = RowsTotal(IF sign = 1 THEN Credits ELSE Debits)
<1> DEFINE Net(l) == NetOf(file.lines[l], file.headers)
           Moves(l) == sign * Net(l)
<1>1. PICK side : side = IF sign = 1 THEN Credits ELSE Debits
  OBVIOUS
<1>2. PICK G : G = {l \in DOMAIN file.lines : Moves(l) > 0}
  OBVIOUS
<1>3. PICK w : w = [l \in G |-> Rounded(Moves(l))]
  OBVIOUS
<1>4. FileMoves(sign) = Total(w)
  BY <1>2, <1>3 DEF FileMoves
<1>5. TableTyped /\ side \in SUBSET DOMAIN table
  BY <1>1 DEF AllInv, FileInv, TypeOK, TableTyped, Credits, Debits
<1>6. PICK len \in Nat : /\ len = Len(table) /\ len = Len(transactions)
                         /\ DOMAIN table = 1 .. len /\ DOMAIN transactions = 1 .. len
  BY RowTypes DEF AllInv, FileInv, StoredInv
<1>7. /\ node = "COMPLETED" /\ \A i \in 1 .. len : StoredAs(table[i], transactions[i])
      /\ Detected(file.headers)
      /\ \A i \in 1 .. len : IsOfLine(transactions[i])
      /\ \A l \in DOMAIN file.lines :
           ~IsSkipped(file.lines[l], file.headers) => \E i \in 1 .. len : transactions[i].line = l
  BY <1>6 DEF StoredInv, AllInv, FileInv, LinesInv, Unread
<1>8. ASSUME NEW i \in 1 .. len
      PROVE  /\ table[i].line \in DOMAIN file.lines
             /\ Net(table[i].line) # 0
             /\ transactions[i].amount \in Int
             /\ Net(table[i].line) = IF table[i].direction = "CREDIT" THEN transactions[i].amount
                                     ELSE -transactions[i].amount
             /\ transactions[i].amount >= 0
             /\ table[i].amount = Rounded(transactions[i].amount)
             /\ table[i].direction \in {"DEBIT", "CREDIT"}
  <2>1. PICK l : l = table[i].line
    OBVIOUS
  <2>2. PICK t \in Transactions : t = transactions[i]
    BY <1>6, RowTypes DEF AllInv, FileInv
  <2>3. /\ table[i].line = t.line /\ table[i].direction = t.direction
        /\ table[i].amount = Rounded(t.amount)
    BY <1>7, <2>2 DEF StoredAs
  <2>4. PICK line, headers : line = file.lines[l] /\ headers = file.headers
    OBVIOUS
  <2>5. PICK amount : amount = Magnitude(AmountIn(line, FilledColumn(line, headers)))
    OBVIOUS
  <2>6. /\ l \in DOMAIN file.lines /\ ~IsSkipped(line, headers) /\ t.amount = amount
        /\ t.direction = Direction(line, headers)
    BY <1>7, <2>1, <2>2, <2>3, <2>4, <2>5 DEF IsOfLine, ToTransaction
  <2>7. line \in Lines /\ headers \in SUBSET Columns /\ Detected(headers)
        /\ IsOrdinary(line, headers)
    BY <1>7, <2>4, <2>6, FileTypes DEF AllInv, FileInv, TypeOK
  <2>8. PICK net : net = NetOf(line, headers)
    OBVIOUS
  <2>9. net # 0 /\ net = IF t.direction = "CREDIT" THEN amount ELSE -amount
    BY <2>5, <2>6, <2>7, <2>8, OrdinaryLine
  <2>10. amount \in Nat
    BY <2>5, <2>6, <2>7, OrdinaryAmount
  <2>11. t.direction \in {"DEBIT", "CREDIT"}
    BY <2>2 DEF Transactions
  <2>12. Net(table[i].line) = net /\ table[i].line \in DOMAIN file.lines
    BY <2>1, <2>4, <2>6, <2>8
  <2> HIDE DEF Net
  <2> QED
    BY <2>2, <2>3, <2>6, <2>9, <2>10, <2>11, <2>12
<1>9. ASSUME NEW l \in DOMAIN file.lines, Net(l) # 0
      PROVE  \E i \in 1 .. len : table[i].line = l
  <2>1. PICK line, headers : line = file.lines[l] /\ headers = file.headers
    OBVIOUS
  <2>2. line \in Lines /\ headers \in SUBSET Columns /\ Detected(headers)
        /\ IsOrdinary(line, headers)
    BY <1>7, <2>1, FileTypes DEF AllInv, FileInv, TypeOK
  <2>3. ~IsSkipped(file.lines[l], file.headers)
    BY <1>9, <2>1, <2>2, OrdinaryLine
  <2> QED
    BY <1>7, <2>3 DEF StoredAs
<1>10. ASSUME NEW i \in 1 .. len, NEW j \in 1 .. len, table[i].line = table[j].line PROVE i = j
  <2>1. transactions[i].line = transactions[j].line
    BY <1>7, <1>10 DEF StoredAs
  <2> QED
    BY <1>6, <2>1, OneRowPerLine DEF AllInv, FileInv
<1>11. ASSUME NEW i \in 1 .. len
       PROVE  /\ i \in side <=> Moves(table[i].line) > 0
              /\ i \in side => Moves(table[i].line) = transactions[i].amount
  <2>1. PICK n \in Nat : n = transactions[i].amount
    BY <1>8
  <2>2. PICK net : net = Net(table[i].line)
    OBVIOUS
  <2>3. net # 0 /\ net = IF table[i].direction = "CREDIT" THEN n ELSE -n
    BY <1>8, <2>1, <2>2
  <2>4. i \in side <=> table[i].direction = IF sign = 1 THEN "CREDIT" ELSE "DEBIT"
    BY <1>1, <1>6 DEF Credits, Debits
  <2>5. Moves(table[i].line) = sign * net
    BY <2>2
  <2>6. CASE table[i].direction = "CREDIT"
    <3>1. net = n /\ (i \in side <=> sign = 1)
      BY <2>3, <2>4, <2>6
    <3>2. (sign * n > 0 <=> sign = 1) /\ (sign = 1 => sign * n = n)
      BY <2>3, <3>1
    <3> HIDE DEF Moves
    <3> QED
      BY <2>1, <2>5, <3>1, <3>2
  <2>7. CASE table[i].direction = "DEBIT"
    <3>1. net = -n /\ (i \in side <=> sign = -1)
      BY <2>3, <2>4, <2>7
    <3>2. (sign * (-n) > 0 <=> sign = -1) /\ (sign = -1 => sign * (-n) = n)
      BY <2>3, <3>1
    <3> HIDE DEF Moves
    <3> QED
      BY <2>1, <2>5, <3>1, <3>2
  <2> QED
    BY <1>8, <2>6, <2>7
<1> HIDE DEF Moves
<1>12. PICK f : f = [i \in side |-> table[i].line]
  OBVIOUS
<1>13. f \in [side -> G]
  BY <1>2, <1>5, <1>6, <1>8, <1>11, <1>12
<1>14. IsFiniteSet(G)
  <2>1. IsFiniteSet(DOMAIN file.lines)
    <3>1. Len(file.lines) \in Nat /\ DOMAIN file.lines = 1 .. Len(file.lines)
      BY FileTypes DEF AllInv, FileInv, TypeOK
    <3> QED
      BY <3>1, FS_Interval
  <2> QED
    BY <1>2, <2>1, FS_Subset
<1>15. ASSUME NEW l \in G PROVE w[l] = RowsTotal({i \in side : f[i] = l})
  <2>1. l \in DOMAIN file.lines /\ Moves(l) > 0
    BY <1>2
  <2>2. Net(l) # 0
    BY <2>1 DEF Moves
  <2>3. PICK i \in 1 .. len : table[i].line = l
    BY <1>9, <2>1, <2>2
  <2>4. i \in side /\ Moves(l) = transactions[i].amount
    BY <1>11, <2>1, <2>3
  <2>5. {j \in side : f[j] = l} = {i}
    BY <1>5, <1>6, <1>10, <1>12, <2>3, <2>4
  <2>6. w[l] = Rounded(transactions[i].amount)
    BY <1>3, <2>4
  <2> QED
    BY <1>5, <1>6, <1>8, <2>5, <2>6, RowsTotalOfOne
<1>16. Total(w) = RowsTotal(side)
  <2>1. DOMAIN w = G
    BY <1>3
  <2> QED
    BY <1>5, <1>13, <1>14, <1>15, <2>1, TotalInGroups
<1> QED
  BY <1>1, <1>4, <1>16

\* A month's expense is what its categories add up to, and its count is the length of its list,
\* as far as they are numbers.
MonthIsTold(m) ==
    /\ LET bars == ListCategorySummary(m.month)
       IN IF m.expense = NotANumber THEN bars = InternalError
          ELSE bars.status = 200 /\ bars.total = m.expense
    /\ LET count == Len(PagesTo(1, m.month, None))
       IN IF NotANumber \in {m.income, m.expense} THEN count < m.transaction_count
          ELSE count = m.transaction_count

LEMMA MonthAgrees ==
    ASSUME TableTyped, NEW m \in MonthlyTotals
    PROVE  MonthIsTold(m)
<1>1. PICK start \in Starts : m = MonthRow(start)
  BY MonthRows
<1>2. PICK i \in DOMAIN table : start = MonthStart(table[i].date)
  BY <1>1 DEF Starts
<1>3. PICK d \in Nat : d = table[i].date
  BY RowsOfTable
<1>4. PICK month : month = m.month
  OBVIOUS
<1>5. month = MonthOf(d) /\ month # None
  BY <1>1, <1>2, <1>3, <1>4, MonthRows, MonthsGroup
<1>6. ASSUME NEW j \in DOMAIN table
      PROVE  /\ month = MonthOf(table[j].date) <=> MonthStart(table[j].date) = start
             /\ DayIn(table[j].date, StartDate(month), EndDateExclusive(month))
                  <=> MonthStart(table[j].date) = start
  <2>1. table[j].date \in Nat /\ d \in Int
    BY RowsOfTable
  <2>2. month = MonthOf(table[j].date) <=> MonthStart(table[j].date) = start
    BY <1>2, <1>3, <1>5, <2>1, MonthsGroup
  <2>3. DayIn(table[j].date, StartDate(month), EndDateExclusive(month))
          <=> month = MonthOf(table[j].date)
    BY <1>5, <2>1, DaysOfMonth
  <2> QED
    BY <2>2, <2>3
<1>7. PICK bars : bars = ListCategorySummary(month)
  OBVIOUS
<1>8. IF m.expense = NotANumber THEN bars = InternalError
      ELSE bars.status = 200 /\ bars.total = m.expense
  <2>1. Spent(month) = RowsFrom(start) \cap Debits
    BY <1>5, <1>6 DEF Spent, RowsFrom, Debits
  <2>2. m.expense = RowsTotal(RowsFrom(start) \cap Debits)
    BY <1>1 DEF MonthRow
  <2>3. /\ m.expense = Total([c \in CategoryTotals(month) |-> c.amount])
        /\ m.expense = NotANumber <=> \E c \in CategoryTotals(month) : c.amount = NotANumber
    BY <2>1, <2>2, CategoriesAddUp
  <2>4. CASE m.expense = NotANumber
    BY <1>7, <2>3, <2>4 DEF ListCategorySummary
  <2>5. CASE m.expense # NotANumber
    <3>1. bars = [status |-> 200, total |-> Total([c \in CategoryTotals(month) |-> c.amount]),
                  items |-> CategoryTotals(month)]
      BY <1>7, <2>3, <2>5 DEF ListCategorySummary
    <3>2. bars.status = 200 /\ bars.total = Total([c \in CategoryTotals(month) |-> c.amount])
      BY <3>1
    <3> QED
      BY <2>3, <2>5, <3>2
  <2> QED
    BY <2>4, <2>5
<1>9. PICK rows : rows = RowsFrom(start) /\ rows \in SUBSET DOMAIN table
  BY DEF RowsFrom
<1>10. PICK c \in Nat : c = Cardinality(rows) /\ c = m.transaction_count
  <2>1. m.transaction_count = Cardinality(rows)
    BY <1>1, <1>9 DEF MonthRow
  <2> QED
    BY <1>9, <2>1, FiniteRows
<1>11. PICK size \in Nat \ {0} : size = Min({1, MaxPageSize})
  BY LimitsAssumption, MinOfTwo
<1>12. Len(PagesTo(1, month, None)) = Reach(rows, size)
  <2>1. Filtered(month, None) = rows
    BY <1>5, <1>6, <1>9 DEF Filtered, RowsFrom
  <2>2. PagesTo(1, month, None) = Reached(rows, size)
    BY <1>11, <2>1, PagesAreTheList
  <2> QED
    BY <1>9, <2>2, ListGoesFar
<1>13. NotANumber \in {m.income, m.expense} <=> Unlistable(rows) # {}
  <2>1. m.income = RowsTotal(rows \cap Credits) /\ m.expense = RowsTotal(rows \cap Debits)
    BY <1>1, <1>9 DEF MonthRow
  <2>2. /\ RowsTotal(rows \cap Credits) = NotANumber <=> Unlistable(rows \cap Credits) # {}
        /\ RowsTotal(rows \cap Debits) = NotANumber <=> Unlistable(rows \cap Debits) # {}
    <3>1. rows \cap Credits \in SUBSET DOMAIN table /\ rows \cap Debits \in SUBSET DOMAIN table
      BY <1>9
    <3> QED
      BY <3>1, RowsTotalIs
  <2>3. rows \in SUBSET (Credits \cup Debits)
    BY <1>9, RowsOfTable DEF Credits, Debits, Transactions
  <2> QED
    BY <2>1, <2>2, <2>3 DEF Unlistable
<1>14. Reach(rows, size) \in 0 .. c /\ (Unlistable(rows) = {} <=> Reach(rows, size) = c)
  BY <1>9, <1>10, ReachRange
<1>15. IF NotANumber \in {m.income, m.expense}
       THEN Len(PagesTo(1, month, None)) < m.transaction_count
       ELSE Len(PagesTo(1, month, None)) = m.transaction_count
  BY <1>10, <1>12, <1>13, <1>14
<1> QED
  BY <1>4, <1>7, <1>8, <1>15 DEF MonthIsTold

\* The trend fails exactly when what the tools add up is no number.
LEMMA TrendAgrees ==
    ASSUME NEW income, NEW expense,
           income = Total([m \in MonthlyTotals |-> m.income]),
           expense = Total([m \in MonthlyTotals |-> m.expense]),
           income = NotANumber => \E m \in MonthlyTotals : m.income = NotANumber,
           expense = NotANumber => \E m \in MonthlyTotals : m.expense = NotANumber
    PROVE  ListMonthlySummary = IF NotANumber \in {income, expense} THEN InternalError
                                ELSE [status |-> 200, items |-> MonthlyTotals]
<1>1. ASSUME NEW m \in MonthlyTotals, NotANumber \in {m.income, m.expense}
      PROVE  NotANumber \in {income, expense}
  <2>1. CASE m.income = NotANumber
    BY <2>1 DEF Total, Range
  <2>2. CASE m.expense = NotANumber
    BY <2>2 DEF Total, Range
  <2> QED
    BY <1>1, <2>1, <2>2
<1>2. NotANumber \in {income, expense}
        <=> \E m \in MonthlyTotals : NotANumber \in {m.income, m.expense}
  BY <1>1
<1> QED
  BY <1>2 DEF ListMonthlySummary

\* A side's total over the months is that of its rows, and no number when a month's is none.
LEMMA SideOfMonths ==
    ASSUME TableTyped, NEW side \in SUBSET DOMAIN table, NEW w, DOMAIN w = MonthlyTotals,
           \A start \in Starts : w[MonthRow(start)] = RowsTotal(RowsFrom(start) \cap side)
    PROVE  /\ Total(w) = RowsTotal(side)
           /\ Total(w) = NotANumber => \E m \in MonthlyTotals : w[m] = NotANumber
<1>1. Total(w) = RowsTotal(side)
  BY MonthsAddUp
<1>2. ASSUME Total(w) = NotANumber PROVE \E m \in MonthlyTotals : w[m] = NotANumber
  <2>1. PICK i \in side : table[i].amount = NotANumber
    <3>1. RowsTotal(side) = NotANumber <=> Unlistable(side) # {}
      BY RowsTotalIs
    <3> QED
      BY <1>1, <1>2, <3>1 DEF Unlistable
  <2>2. PICK start \in Starts : start = MonthStart(table[i].date)
    BY <2>1 DEF Starts
  <2>3. PICK rows : rows = RowsFrom(start) \cap side
    OBVIOUS
  <2>4. rows \in SUBSET DOMAIN table /\ i \in rows
    BY <2>2, <2>3 DEF RowsFrom
  <2>5. RowsTotal(rows) = NotANumber
    BY <2>1, <2>4, RowsTotalIs
  <2>6. MonthRow(start) \in MonthlyTotals
    BY MonthRows
  <2> QED
    BY <2>3, <2>5, <2>6
<1> QED
  BY <1>1, <1>2

\* A month without rows has no bars.
LEMMA EmptyMonth ==
    ASSUME TableTyped, NEW month \in MonthFilters \ {None},
           \A m \in MonthlyTotals : m.month # month
    PROVE  CategoryTotals(month) = {}
<1>1. SUFFICES ASSUME NEW i \in Spent(month) PROVE FALSE
  BY DEF CategoryTotals, Spent
<1>2. i \in DOMAIN table /\ DayIn(table[i].date, StartDate(month), EndDateExclusive(month))
  BY <1>1 DEF Spent, Debits
<1>3. PICK start \in Int : month = MonthOf(start)
  BY MonthAsked
<1>4. month = MonthOf(table[i].date)
  BY <1>2, <1>3, RowsOfTable, DaysOfMonth
<1>5. MonthRow(MonthStart(table[i].date)) \in MonthlyTotals
  BY <1>2, MonthRows
<1>6. MonthRow(MonthStart(table[i].date)).month = MonthOf(table[i].date)
  BY <1>2, MonthRows
<1> QED
  BY <1>4, <1>5, <1>6

\* The first and the last of the list are the ends of the statement's period.
LEMMA PeriodAgrees ==
    ASSUME TableTyped, NEW count, NEW first, NEW last, SaysOf(count, first, last, table),
           NEW size \in Nat \ {0}
    PROVE  LET listed == Reached(DOMAIN table, size)
           IN /\ listed # <<>> => last = table[listed[1]].date
              /\ Len(listed) = Len(table) /\ table # <<>> => first = table[Last(listed)].date
<1>1. PICK ids : ids = DOMAIN table
  OBVIOUS
<1>2. PICK listed : listed = Reached(ids, size)
  OBVIOUS
<1>3. PICK c \in Nat : c = Cardinality(ids)
  BY <1>1, FiniteRows
<1>4. PICK k \in 0 .. c : k = Reach(ids, size)
  BY <1>1, <1>3, ReachRange
<1>5. /\ listed \in Seq(ids) /\ Len(listed) = k
      /\ \A n \in 1 .. k : listed[n] \in ids /\ Place(ids, listed[n]) = n - 1
  BY <1>1, <1>2, <1>4, ListGoesFar
<1>6. PICK i, j \in ids : table[i].date = first /\ table[j].date = last
  BY <1>1 DEF SaysOf
<1>7. \A x \in ids : /\ first <= table[x].date /\ table[x].date <= last
                     /\ table[x].date \in Nat
                     /\ Place(ids, x) \in 0 .. c - 1
  BY <1>1, <1>3, RowsOfTable, PlaceRange DEF SaysOf
<1>8. ASSUME listed # <<>> PROVE last = table[listed[1]].date
  <2>1. k # 0
    BY <1>5, <1>8, EmptySeq
  <2>2. PICK x \in ids : x = listed[1] /\ Place(ids, x) = 0
    <3>1. 1 \in 1 .. k
      BY <2>1
    <3> QED
      BY <1>5, <3>1
  <2>3. ~Newer(j, x)
    BY <1>1, <1>7, <2>2, PlaceOrder
  <2>4. j = x \/ Newer(x, j)
    BY <1>1, <2>2, <2>3, NewerOrder
  <2>5. table[j].date <= table[x].date
    BY <1>7, <2>4 DEF Newer
  <2> QED
    BY <1>6, <1>7, <2>2, <2>5
<1>9. ASSUME Len(listed) = Len(table), table # <<>> PROVE first = table[Last(listed)].date
  <2>1. k = c /\ k # 0
    <3>1. Cardinality(1 .. Len(table)) = Len(table)
      BY RowsOfTable, FS_Interval
    <3>2. Len(table) = c
      BY <1>1, <1>3, <3>1, RowsOfTable
    <3>3. Len(table) # 0
      BY <1>9, EmptySeq DEF TableTyped
    <3> QED
      BY <1>5, <1>9, <3>2, <3>3
  <2>2. PICK x \in ids : x = Last(listed) /\ Place(ids, x) = c - 1
    <3>1. c \in 1 .. k /\ Last(listed) = listed[c]
      BY <1>5, <2>1 DEF Last
    <3> QED
      BY <1>5, <3>1
  <2>3. ~Newer(x, i)
    BY <1>1, <1>7, <2>2, PlaceOrder
  <2>4. i = x \/ Newer(i, x)
    BY <1>1, <2>2, <2>3, NewerOrder
  <2>5. table[x].date <= table[i].date
    BY <1>7, <2>4 DEF Newer
  <2> QED
    BY <1>6, <1>7, <2>2, <2>5
<1> QED
  BY <1>1, <1>2, <1>8, <1>9

\* The dashboard, the agent's tools, the list and the statement quote the same numbers, and
\* they are the file's, for any file, any number of rows and months, whatever the person
\* recategorizes; the charts and the list fail exactly where the tools quote no number.
THEOREM NumbersAgree == Spec => []TotalsAgree
<1>1. AllInv /\ StoredInv => TotalsAgree
  <2> SUFFICES ASSUME AllInv, StoredInv PROVE TotalsAgree
    OBVIOUS
  <2>1. TableTyped
    BY DEF AllInv, FileInv, TypeOK, TableTyped
  <2>2. PICK overall : overall = GetMonthlySummary.overall
    OBVIOUS
  <2>3. /\ overall.income = Total([m \in MonthlyTotals |-> m.income])
        /\ overall.expense = Total([m \in MonthlyTotals |-> m.expense])
        /\ overall.transaction_count = Total([m \in MonthlyTotals |-> m.transaction_count])
    BY <2>2 DEF GetMonthlySummary, OverallTotal
  <2>4. Debits \in SUBSET DOMAIN table /\ Credits \in SUBSET DOMAIN table
    BY DEF Debits, Credits
  <2>5. /\ overall.income = RowsTotal(Credits)
        /\ overall.income = NotANumber => \E m \in MonthlyTotals : m.income = NotANumber
    <3>1. PICK w : w = [m \in MonthlyTotals |-> m.income]
      OBVIOUS
    <3>2. \A start \in Starts : w[MonthRow(start)] = RowsTotal(RowsFrom(start) \cap Credits)
      BY <2>1, <3>1, MonthRows DEF MonthRow
    <3>3. DOMAIN w = MonthlyTotals
      BY <3>1
    <3>4. /\ Total(w) = RowsTotal(Credits)
          /\ Total(w) = NotANumber => \E m \in MonthlyTotals : w[m] = NotANumber
      BY <2>1, <2>4, <3>2, <3>3, SideOfMonths
    <3> QED
      BY <2>3, <3>1, <3>4
  <2>6. /\ overall.expense = RowsTotal(Debits)
        /\ overall.expense = NotANumber => \E m \in MonthlyTotals : m.expense = NotANumber
    <3>1. PICK w : w = [m \in MonthlyTotals |-> m.expense]
      OBVIOUS
    <3>2. \A start \in Starts : w[MonthRow(start)] = RowsTotal(RowsFrom(start) \cap Debits)
      BY <2>1, <3>1, MonthRows DEF MonthRow
    <3>3. DOMAIN w = MonthlyTotals
      BY <3>1
    <3>4. /\ Total(w) = RowsTotal(Debits)
          /\ Total(w) = NotANumber => \E m \in MonthlyTotals : w[m] = NotANumber
      BY <2>1, <2>4, <3>2, <3>3, SideOfMonths
    <3> QED
      BY <2>3, <3>1, <3>4
  <2>7. overall.expense = GetSpendingByCategory(None).total
    <3>1. Spent(None) = Debits
      BY DEF Spent
    <3>2. GetSpendingByCategory(None).total = Total([c \in CategoryTotals(None) |-> c.amount])
      BY DEF GetSpendingByCategory
    <3> QED
      BY <2>1, <2>6, <3>1, <3>2, CategoriesAddUp
  <2>8. overall.transaction_count = Len(table) /\ statement.transaction_count = Len(table)
    <3>1. table = <<>> => statement.transaction_count = 0 /\ Len(table) = 0
      BY DEF StoredInv
    <3> QED
      BY <2>1, <2>3, <3>1, MonthsCount DEF StoredInv, SaysOf
  <2>9. PICK listed : listed = PagesTo(1, None, None)
    OBVIOUS
  <2>10. /\ listed # <<>> => statement.period_end = table[listed[1]].date
         /\ Len(listed) = Len(table) /\ table # <<>> =>
              statement.period_start = table[Last(listed)].date
    <3>1. PICK size \in Nat \ {0} : size = Min({1, MaxPageSize})
      BY LimitsAssumption, MinOfTwo
    <3>2. listed = Reached(DOMAIN table, size)
      <4>1. Filtered(None, None) = DOMAIN table
        BY DEF Filtered
      <4> QED
        BY <2>1, <2>9, <3>1, <4>1, PagesAreTheList
    <3>3. CASE table = <<>>
      <4>1. DOMAIN table = {}
        BY <3>3
      <4>2. Reach(DOMAIN table, size) = 0
        <5>1. Unlistable(DOMAIN table) = {}
          BY <4>1 DEF Unlistable
        <5> QED
          BY <4>1, <5>1, FS_EmptySet DEF Reach
      <4>3. listed \in Seq(DOMAIN table) /\ Len(listed) = 0
        BY <2>1, <3>2, <4>2, ListGoesFar
      <4>4. listed = <<>>
        BY <4>3, EmptySeq
      <4> QED
        BY <3>3, <4>4
    <3>4. CASE table # <<>>
      <4>1. SaysOf(statement.transaction_count, statement.period_start, statement.period_end,
                   table)
        BY <3>4 DEF StoredInv
      <4> QED
        BY <2>1, <3>2, <4>1, PeriodAgrees
    <3> QED
      BY <3>3, <3>4
  <2>11. ASSUME table # <<>>,
                \A l \in DOMAIN file.lines : IsOrdinary(file.lines[l], file.headers)
         PROVE  overall.income = FileMoves(1) /\ overall.expense = FileMoves(-1)
    <3>1. FileMoves(1) = RowsTotal(Credits)
      BY <2>11, FileAddsUp
    <3>2. FileMoves(-1) = RowsTotal(Debits)
      BY <2>11, FileAddsUp
    <3> QED
      BY <2>5, <2>6, <3>1, <3>2
  <2>12. \A m \in MonthlyTotals : MonthIsTold(m)
    BY <2>1, MonthAgrees
  <2>13. \A month \in MonthFilters \ {None} :
           (\A m \in MonthlyTotals : m.month # month) => CategoryTotals(month) = {}
    BY <2>1, EmptyMonth
  <2>14. ListMonthlySummary =
             IF NotANumber \in {overall.income, overall.expense} THEN InternalError
             ELSE [status |-> 200, items |-> MonthlyTotals]
    BY <2>3, <2>5, <2>6, TrendAgrees
  <2> QED
    BY <2>2, <2>7, <2>8, <2>9, <2>11, <2>12, <2>13, <2>10, <2>14 DEF TotalsAgree, MonthIsTold
<1> QED
  BY <1>1, FileInvariant, StoredInvariant, PTL

=============================================================================
