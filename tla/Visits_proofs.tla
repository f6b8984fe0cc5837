---------------------------- MODULE Visits_proofs ----------------------------
(***************************************************************************)
(* Proofs about Visits, for every number of requests, items, users and     *)
(* amounts.                                                                *)
(***************************************************************************)
EXTENDS Visits, FiniteSetTheorems, TLAPS

-----------------------------------------------------------------------------
(* Sums.  Totals folds the lines of a visit; what a fold computes is shown  *)
(* by induction, from the fact that every set of numbers has a least one.  *)

LEMMA Induction ==
  ASSUME NEW N \in SUBSET Nat, 0 \in N, \A n \in N : n + 1 \in N
  PROVE  N = Nat
  <1> DEFINE R == OpToRel(<, Nat)
             M == Nat \ N
  <1> SUFFICES ASSUME M # {} PROVE FALSE
    OBVIOUS
  <1>1. IsWellFoundedOn(R, Nat)
    BY NatLessThanWellFounded, Zenon
  <1>2. \A m, n \in Nat : m < n => <<m, n>> \in R
    BY DEF OpToRel
  <1>3. M \subseteq Nat
    OBVIOUS
  <1> HIDE DEF R, M
  <1>4. PICK n \in M : \A m \in M : <<m, n>> \notin R
    BY <1>1, <1>3, WFMin
  <1>5. n \in Nat /\ n # 0 /\ n \notin N
    BY <1>3 DEF M
  <1>6. n - 1 \in Nat /\ n - 1 < n
    BY <1>5
  <1>7. n - 1 \in N
    BY <1>2, <1>4, <1>5, <1>6 DEF M
  <1> QED
    BY <1>5, <1>7

First(s) == CHOOSE x \in s : TRUE

\* The sums that a fold over the parts of D makes.
AreSums(sum, val, D) ==
    sum = [s \in D |-> IF s = {} THEN 0 ELSE val[First(s)] + sum[s \ {First(s)}]]

SumsOver(sum, val, D) == AreSums(sum, val, SUBSET D)

\* Taking any element apart leaves the sum of the others.
Adding(sum, val, D) ==
    /\ sum[{}] = 0
    /\ \A s \in SUBSET D : \A x \in s : sum[s] = val[x] + sum[s \ {x}]

LEMMA FirstIn == \A s : s # {} => First(s) \in s
  BY DEF First

UpTo(D, n) == {s \in SUBSET D : Cardinality(s) <= n}

LEMMA SumsExist ==
  ASSUME NEW D, IsFiniteSet(D), NEW val
  PROVE  \E sum : SumsOver(sum, val, D)
  <1> DEFINE N == {n \in Nat : \E sum : AreSums(sum, val, UpTo(D, n))}
  <1>0. \A s \in SUBSET D : IsFiniteSet(s) /\ Cardinality(s) \in Nat
    BY FS_Subset, FS_CardinalityType
  <1>1. 0 \in N
    <2>1. AreSums([s \in UpTo(D, 0) |-> 0], val, UpTo(D, 0))
      BY <1>0, FS_EmptySet DEF AreSums, UpTo
    <2> QED
      BY <2>1
  <1>2. ASSUME NEW n \in N PROVE n + 1 \in N
    <2>1. PICK sum : AreSums(sum, val, UpTo(D, n))
      BY <1>2
    <2> DEFINE more == [s \in UpTo(D, n + 1) |->
                          IF s = {} THEN 0 ELSE val[First(s)] + sum[s \ {First(s)}]]
    <2>2. ASSUME NEW s \in UpTo(D, n) PROVE more[s] = sum[s] /\ s \in UpTo(D, n + 1)
      <3>1. s \in UpTo(D, n + 1)
        BY <1>0 DEF UpTo
      <3> QED
        BY <2>1, <3>1 DEF SumsOver, AreSums
    <2>3. ASSUME NEW s \in UpTo(D, n + 1), s # {} PROVE s \ {First(s)} \in UpTo(D, n)
      BY <2>3, <1>0, FirstIn, FS_RemoveElement DEF UpTo
    <2>4. AreSums(more, val, UpTo(D, n + 1))
      BY <2>2, <2>3 DEF AreSums
    <2> HIDE DEF more
    <2> QED
      BY <2>4
  <1>3. Cardinality(D) \in N
    BY <1>1, <1>2, Induction, FS_CardinalityType
  <1>4. UpTo(D, Cardinality(D)) = SUBSET D
    BY <1>0, FS_Subset DEF UpTo
  <1> QED
    BY <1>3, <1>4 DEF SumsOver


\* Induction over the parts of a finite set.
LEMMA PartsInduction ==
  ASSUME NEW D, IsFiniteSet(D), NEW Good,
         \A s \in SUBSET D : (\A x \in s : s \ {x} \in Good) => s \in Good
  PROVE  SUBSET D \subseteq Good
  <1> DEFINE N == {n \in Nat : \A s \in SUBSET D : Cardinality(s) = n => s \in Good}
  <1>0. \A s \in SUBSET D : IsFiniteSet(s) /\ Cardinality(s) \in Nat
    BY FS_Subset, FS_CardinalityType
  <1>1. 0 \in N
    BY <1>0, FS_EmptySet
  <1>2. ASSUME NEW n \in N PROVE n + 1 \in N
    <2> SUFFICES ASSUME NEW s \in SUBSET D, Cardinality(s) = n + 1 PROVE s \in Good
      OBVIOUS
    <2>1. ASSUME NEW x \in s PROVE s \ {x} \in Good
      BY <1>0, <2>1, FS_RemoveElement
    <2> QED
      BY <2>1
  <1>3. N \in SUBSET Nat
    OBVIOUS
  <1> HIDE DEF N
  <1>4. N = Nat
    BY <1>1, <1>2, <1>3, Induction
  <1> QED
    BY <1>0, <1>4 DEF N

\* The element that a fold takes first makes no difference to a sum.
LEMMA SumAdds ==
  ASSUME NEW D, IsFiniteSet(D), NEW val \in [D -> Int], NEW sum, SumsOver(sum, val, D)
  PROVE  Adding(sum, val, D)
  <1>0. sum[{}] = 0
    BY DEF SumsOver, AreSums
  <1>1. \A s \in SUBSET D : s # {} => sum[s] = val[First(s)] + sum[s \ {First(s)}]
    BY DEF SumsOver, AreSums
  <1>2. \A s \in SUBSET D : sum[s] \in Int
    <2> DEFINE Good == {s \in SUBSET D : sum[s] \in Int}
    <2>1. ASSUME NEW s \in SUBSET D, \A x \in s : s \ {x} \in Good PROVE s \in Good
      <3>1. CASE s = {}
        BY <1>0, <3>1
      <3>2. CASE s # {}
        <4>1. PICK f \in s : sum[s] = val[f] + sum[s \ {f}]
          BY <1>1, <3>2, FirstIn
        <4>2. sum[s \ {f}] \in Int /\ val[f] \in Int
          BY <2>1
        <4>3. sum[s] \in Int
          BY <4>1, <4>2
        <4> QED
          BY <4>3
      <3> QED
        BY <3>1, <3>2
    <2> HIDE DEF Good
    <2>2. SUBSET D \subseteq Good
      BY <2>1, PartsInduction
    <2> QED
      BY <2>2 DEF Good
  <1>3. \A s \in SUBSET D : \A x \in s : sum[s] = val[x] + sum[s \ {x}]
    <2> DEFINE Good == {s \in SUBSET D : \A x \in s : sum[s] = val[x] + sum[s \ {x}]}
    <2>1. ASSUME NEW s \in SUBSET D, \A x \in s : s \ {x} \in Good PROVE s \in Good
      <3> SUFFICES ASSUME NEW x \in s PROVE sum[s] = val[x] + sum[s \ {x}]
        OBVIOUS
      <3>1. PICK f \in s : sum[s] = val[f] + sum[s \ {f}]
        BY <1>1, FirstIn
      <3>2. CASE x = f
        BY <3>1, <3>2
      <3>3. CASE x # f
        <4>1. sum[s \ {f}] = val[x] + sum[(s \ {f}) \ {x}]
          BY <2>1, <3>3
        <4>2. sum[s \ {x}] = val[f] + sum[(s \ {x}) \ {f}]
          BY <2>1, <3>3
        <4>3. (s \ {f}) \ {x} = (s \ {x}) \ {f} /\ (s \ {x}) \ {f} \in SUBSET D
          OBVIOUS
        <4>4. val[x] \in Int /\ val[f] \in Int /\ sum[(s \ {x}) \ {f}] \in Int
          BY <1>2, <4>3
        <4>5. sum[s \ {f}] = val[x] + sum[(s \ {x}) \ {f}]
          BY <4>1, <4>3
        <4> DEFINE rest == sum[(s \ {x}) \ {f}]
        <4> HIDE DEF rest
        <4>6. sum[s] = val[f] + (val[x] + rest) /\ sum[s \ {x}] = val[f] + rest
          BY <3>1, <4>2, <4>5 DEF rest
        <4>7. rest \in Int
          BY <4>4 DEF rest
        <4> QED
          BY <4>4, <4>6, <4>7
      <3> QED
        BY <3>2, <3>3
    <2> HIDE DEF Good
    <2>2. SUBSET D \subseteq Good
      BY <2>1, PartsInduction
    <2> QED
      BY <2>2 DEF Good
  <1> QED
    BY <1>0, <1>3 DEF Adding

\* Sums of the same amounts are the same.
LEMMA SumsAgree ==
  ASSUME NEW D, IsFiniteSet(D), NEW val \in [D -> Int], NEW sum, SumsOver(sum, val, D),
         NEW part \in SUBSET D, 
         NEW same, same = [i \in part |-> val[i]], NEW other, SumsOver(other, same, part)
  PROVE  other[part] = sum[part]
  <1> DEFINE Good == {s \in SUBSET part : other[s] = sum[s]}
  <1>1. \A s \in SUBSET D : sum[s] = IF s = {} THEN 0 ELSE val[First(s)] + sum[s \ {First(s)}]
    BY DEF SumsOver, AreSums
  <1>2. \A s \in SUBSET part : other[s] = IF s = {} THEN 0
                              ELSE same[First(s)] + other[s \ {First(s)}]
    BY DEF SumsOver, AreSums
  <1>3. ASSUME NEW s \in SUBSET part, \A x \in s : s \ {x} \in Good PROVE s \in Good
    <2>1. CASE s = {}
      BY <1>1, <1>2, <2>1
    <2>2. CASE s # {}
      <3>1. First(s) \in s /\ other[s \ {First(s)}] = sum[s \ {First(s)}]
        BY <1>3, <2>2, FirstIn
      <3> QED
        BY <1>1, <1>2, <2>2, <3>1
    <2> QED
      BY <2>1, <2>2
  <1>4. IsFiniteSet(part)
    BY FS_Subset
  <1> HIDE DEF Good
  <1>5. SUBSET part \subseteq Good
    BY <1>3, <1>4, PartsInduction
  <1> QED
    BY <1>5 DEF Good

\* Discounts below their prices add up to less than the prices.
LEMMA SumsOrdered ==
  ASSUME NEW D, IsFiniteSet(D), NEW val \in [D -> Nat], NEW less \in [D -> Nat],
         \A i \in D : less[i] <= val[i],
         NEW sum, SumsOver(sum, val, D), NEW cut, SumsOver(cut, less, D)
  PROVE  sum[D] \in Nat /\ cut[D] \in Nat /\ cut[D] <= sum[D]
  <1> DEFINE Right(s) == sum[s] \in Nat /\ cut[s] \in Nat /\ cut[s] <= sum[s]
             Good == {s \in SUBSET D : Right(s)}
  <1>1. /\ sum[{}] = 0 /\ \A s \in SUBSET D : \A x \in s : sum[s] = val[x] + sum[s \ {x}]
        /\ cut[{}] = 0 /\ \A s \in SUBSET D : \A x \in s : cut[s] = less[x] + cut[s \ {x}]
    <2>1. val \in [D -> Int] /\ less \in [D -> Int]
      OBVIOUS
    <2>2. Adding(sum, val, D) /\ Adding(cut, less, D)
      BY <2>1, SumAdds
    <2> QED
      BY <2>2 DEF Adding
  <1>2. ASSUME NEW s \in SUBSET D, \A x \in s : s \ {x} \in Good PROVE s \in Good
    <2>1. CASE s = {}
      BY <1>1, <2>1
    <2>2. CASE s # {}
      <3>1. PICK x \in s : TRUE
        BY <2>2
      <3>2. sum[s] = val[x] + sum[s \ {x}] /\ cut[s] = less[x] + cut[s \ {x}]
        BY <1>1
      <3>3. Right(s \ {x}) /\ val[x] \in Nat /\ less[x] \in Nat /\ less[x] <= val[x]
        BY <1>2
      <3>4. Right(s)
        BY <3>2, <3>3
      <3> QED
        BY <3>4
    <2> QED
      BY <2>1, <2>2
  <1> HIDE DEF Good
  <1>3. SUBSET D \subseteq Good
    BY <1>2, PartsInduction
  <1> QED
    BY <1>3 DEF Good

PricesOf(lines)    == [i \in DOMAIN lines |-> lines[i].price]
DiscountsOf(lines) == [i \in DOMAIN lines |-> lines[i].discount]

\* What Totals folds are sums in the sense of AreSums.
LEMMA SubtotalIsSum ==
  ASSUME NEW lines, IsFiniteSet(DOMAIN lines)
  PROVE  \E sum : /\ SumsOver(sum, PricesOf(lines), DOMAIN lines)
                  /\ Totals(lines).subtotal = sum[DOMAIN lines]
  <1> DEFINE Fold(sum) == sum = [s \in SUBSET DOMAIN lines |->
                 IF s = {} THEN 0 ELSE lines[First(s)].price + sum[s \ {First(s)}]]
             fold == CHOOSE sum : Fold(sum)
  <1>1. Totals(lines).subtotal = fold[DOMAIN lines]
    BY DEF Totals, MapThenSumSet, MapThenFoldSet, First
  <1>2. \A sum : SumsOver(sum, PricesOf(lines), DOMAIN lines) <=> Fold(sum)
    <2>1. \A s \in SUBSET DOMAIN lines : s # {} => PricesOf(lines)[First(s)] = lines[First(s)].price
      BY FirstIn DEF PricesOf
    <2> QED
      BY <2>1 DEF SumsOver, AreSums
  <1>3. \E sum : Fold(sum)
    BY <1>2, SumsExist
  <1> HIDE DEF Fold
  <1>4. Fold(fold)
    BY <1>3
  <1> QED
    BY <1>1, <1>2, <1>4

LEMMA DiscountIsSum ==
  ASSUME NEW lines, IsFiniteSet(DOMAIN lines)
  PROVE  \E sum : /\ SumsOver(sum, DiscountsOf(lines), DOMAIN lines)
                  /\ Totals(lines).discountAmount = sum[DOMAIN lines]
  <1> DEFINE Fold(sum) == sum = [s \in SUBSET DOMAIN lines |->
                 IF s = {} THEN 0 ELSE lines[First(s)].discount + sum[s \ {First(s)}]]
             fold == CHOOSE sum : Fold(sum)
  <1>1. Totals(lines).discountAmount = fold[DOMAIN lines]
    BY DEF Totals, MapThenSumSet, MapThenFoldSet, First
  <1>2. \A sum : SumsOver(sum, DiscountsOf(lines), DOMAIN lines) <=> Fold(sum)
    <2>1. \A s \in SUBSET DOMAIN lines :
             s # {} => DiscountsOf(lines)[First(s)] = lines[First(s)].discount
      BY FirstIn DEF DiscountsOf
    <2> QED
      BY <2>1 DEF SumsOver, AreSums
  <1>3. \E sum : Fold(sum)
    BY <1>2, SumsExist
  <1> HIDE DEF Fold
  <1>4. Fold(fold)
    BY <1>3
  <1> QED
    BY <1>1, <1>2, <1>4

\* A table of lines with integer amounts, and the table without one of them.
AreLines(lines, D) ==
    /\ IsFiniteSet(D) /\ DOMAIN lines = D
    /\ \A i \in D : lines[i].price \in Int /\ lines[i].discount \in Int

Without(lines, i) == [j \in DOMAIN lines \ {i} |-> lines[j]]

\* calculateVisitTotals (visits/visit-rules.ts:4) on any lines: nothing comes
\* to nothing, and each line adds its price and its discount, in whatever
\* order they are taken; the total is what the discounts leave.
THEOREM TotalsAdd ==
  ASSUME NEW D, NEW lines, AreLines(lines, D)
  PROVE  /\ D = {} => Totals(lines) = ZeroTotals
         /\ \A i \in D :
               /\ Totals(lines).subtotal = lines[i].price + Totals(Without(lines, i)).subtotal
               /\ Totals(lines).discountAmount =
                     lines[i].discount + Totals(Without(lines, i)).discountAmount
         /\ Totals(lines).total = Totals(lines).subtotal - Totals(lines).discountAmount
  <1>0. IsFiniteSet(D) /\ DOMAIN lines = D
    BY DEF AreLines
  <1>1. PICK sum : /\ SumsOver(sum, PricesOf(lines), D)
                   /\ Totals(lines).subtotal = sum[D]
    BY <1>0, SubtotalIsSum
  <1>2. PICK cut : /\ SumsOver(cut, DiscountsOf(lines), D)
                   /\ Totals(lines).discountAmount = cut[D]
    BY <1>0, DiscountIsSum
  <1>3. PricesOf(lines) \in [D -> Int] /\ DiscountsOf(lines) \in [D -> Int]
    BY DEF AreLines, PricesOf, DiscountsOf
  <1>4. /\ sum[{}] = 0 /\ \A i \in D : sum[D] = PricesOf(lines)[i] + sum[D \ {i}]
        /\ cut[{}] = 0 /\ \A i \in D : cut[D] = DiscountsOf(lines)[i] + cut[D \ {i}]
    <2>1. Adding(sum, PricesOf(lines), D) /\ Adding(cut, DiscountsOf(lines), D)
      BY <1>0, <1>1, <1>2, <1>3, SumAdds
    <2> QED
      BY <2>1 DEF Adding
  <1>5. Totals(lines).total = Totals(lines).subtotal - Totals(lines).discountAmount
    BY DEF Totals
  <1>6. ASSUME D = {} PROVE Totals(lines) = ZeroTotals
    <2>1. Totals(lines) = [subtotal |-> Totals(lines).subtotal,
                           discountAmount |-> Totals(lines).discountAmount,
                           total |-> Totals(lines).subtotal - Totals(lines).discountAmount]
      BY DEF Totals
    <2>2. Totals(lines).subtotal = 0 /\ Totals(lines).discountAmount = 0
      BY <1>1, <1>2, <1>4, <1>6
    <2> QED
      BY <2>1, <2>2 DEF ZeroTotals
  <1>7. ASSUME NEW i \in D
        PROVE  /\ Totals(Without(lines, i)).subtotal = sum[D \ {i}]
               /\ Totals(Without(lines, i)).discountAmount = cut[D \ {i}]
    <2> DEFINE rest == Without(lines, i)
               part == D \ {i}
    <2>1. DOMAIN rest = part /\ part \in SUBSET D /\ IsFiniteSet(part)
      BY <1>0, FS_RemoveElement DEF Without
    <2>2. /\ PricesOf(rest) = [j \in part |-> PricesOf(lines)[j]]
          /\ DiscountsOf(rest) = [j \in part |-> DiscountsOf(lines)[j]]
      BY <1>0 DEF Without, PricesOf, DiscountsOf
    <2> HIDE DEF rest, part
    <2>3. PICK s : SumsOver(s, PricesOf(rest), part) /\ Totals(rest).subtotal = s[part]
      BY <2>1, SubtotalIsSum
    <2>4. PICK c : SumsOver(c, DiscountsOf(rest), part) /\ Totals(rest).discountAmount = c[part]
      BY <2>1, DiscountIsSum
    <2>5. s[part] = sum[part]
      BY <1>0, <1>1, <1>3, <2>1, <2>2, <2>3, SumsAgree
    <2>6. c[part] = cut[part]
      BY <1>0, <1>2, <1>3, <2>1, <2>2, <2>4, SumsAgree
    <2> QED
      BY <2>3, <2>4, <2>5, <2>6 DEF rest, part
  <1>8. \A i \in D : PricesOf(lines)[i] = lines[i].price /\ DiscountsOf(lines)[i] = lines[i].discount
    BY <1>0 DEF PricesOf, DiscountsOf
  <1> QED
    BY <1>1, <1>2, <1>4, <1>5, <1>6, <1>7, <1>8

\* Valid lines have totals that agree with each other and are not negative.
LEMMA TotalsSound ==
  ASSUME NEW D, NEW lines, IsFiniteSet(D), DOMAIN lines = D,
         \A i \in D : lines[i].price \in Nat /\ lines[i].discount \in Nat
                      /\ lines[i].discount <= lines[i].price
  PROVE  Totals(lines) \in {t \in [subtotal : Nat, discountAmount : Nat, total : Nat] :
                              t.total = t.subtotal - t.discountAmount}
  <1>1. PICK sum : /\ SumsOver(sum, PricesOf(lines), D)
                   /\ Totals(lines).subtotal = sum[D]
    BY SubtotalIsSum
  <1>2. PICK cut : /\ SumsOver(cut, DiscountsOf(lines), D)
                   /\ Totals(lines).discountAmount = cut[D]
    BY DiscountIsSum
  <1>3. /\ PricesOf(lines) \in [D -> Nat] /\ DiscountsOf(lines) \in [D -> Nat]
        /\ \A i \in D : DiscountsOf(lines)[i] <= PricesOf(lines)[i]
    BY DEF PricesOf, DiscountsOf
  <1>4. sum[D] \in Nat /\ cut[D] \in Nat /\ cut[D] <= sum[D]
    BY <1>1, <1>2, <1>3, SumsOrdered
  <1>5. Totals(lines) = [subtotal |-> Totals(lines).subtotal,
                         discountAmount |-> Totals(lines).discountAmount,
                         total |-> Totals(lines).subtotal - Totals(lines).discountAmount]
    BY DEF Totals
  <1>6. sum[D] - cut[D] \in Nat
    BY <1>4
  <1> QED
    BY <1>1, <1>2, <1>4, <1>5, <1>6

-----------------------------------------------------------------------------
(* Types.                                                                  *)

\* A transaction is staged only for an operation that recalculates, and an
\* operation on an item names one.  Whoever has yet to read the items has seen a
\* visit that is not closed.
Shape ==
    \A r \in Requests :
        /\ req[r].staged => req[r].op \in Recalculating
        /\ req[r].op \in ItemOps => req[r].item \in ItemIds
        /\ req[r].op = "read" => req[r].seen \in Editable

TypeInv == TypeOK /\ Shape

LEMMA BlankType == Blank \in LineRows
  BY ConstantsAssumption DEF Blank, LineRows, NullableProviders

LEMMA IdleType == Idle \in RequestRows
  BY BlankType DEF Idle, RequestRows

\* resolveItem yields a line of valid money and a provider.
LEMMA ResolveType ==
  ASSUME NEW line \in Lines, NEW default \in NullableProviders,
         NEW eligible \in SUBSET Providers
  PROVE  /\ Resolve(line, default, eligible) \in LineRows
         /\ ValidMoney(Resolve(line, default, eligible))
  BY SMT DEF Resolve, Lines, LineRows, NullableProviders, ValidMoney

LEMMA NewItemType ==
  ASSUME NEW line \in LineRows
  PROVE  NewItem(line) \in ItemRows
  BY DEF NewItem, LineRows, ItemRows, ItemStatus

\* What a transaction writes is an item row.
LEMMA WrittenType ==
  ASSUME NEW q \in RequestRows, q.op \in ItemOps, NEW row \in ItemRows
  PROVE  Written(q, row) \in ItemRows
  <1>1. CASE q.op = "addItem"
    BY <1>1, NewItemType DEF Written, RequestRows
  <1>2. CASE q.op = "updateItem"
    BY <1>2 DEF Written, Edited, RequestRows, ItemRows, LineRows
  <1>3. CASE Deletes(q)
    BY <1>3, ConstantsAssumption
    DEF Written, Deletes, NoItem, ItemRows, NullableProviders
  <1>4. CASE q.op \notin {"addItem", "updateItem"} /\ ~ Deletes(q)
    BY <1>4 DEF Written, ItemTarget, ItemRows, ItemStatus
  <1> QED
    BY <1>1, <1>2, <1>3, <1>4

LEMMA InitTypeInv == Init => TypeInv
  <1> SUFFICES ASSUME Init PROVE TypeInv
    OBVIOUS
  <1>1. visit \in VisitRows
    BY DEF Init, NoVisit, VisitRows, NullableProviders
  <1>2. items \in [ItemIds -> ItemRows]
    BY ConstantsAssumption DEF Init, NoItem, ItemRows, NullableProviders
  <1>3. req \in [Requests -> RequestRows]
    BY IdleType DEF Init
  <1>4. Shape
    BY DEF Init, Shape, Idle, ItemOps, Recalculating, ItemMoves
  <1> QED
    BY <1>1, <1>2, <1>3, <1>4 DEF TypeInv, TypeOK

\* The status that a handler has read: now, or before it reads the items.
Seen(r) == IF req[r].op = "read" THEN req[r].seen ELSE visit.status

\* What a handler remembers after a read, and what its reads told it.
Remembered(r, q) ==
    /\ q \in RequestRows /\ ~ q.staged
    /\ q.op = "read" => q.seen = Seen(r) /\ q.seen \in Editable
    /\ q.op \in ItemOps => q.item \in ItemIds /\ Seen(r) \in Editable
    /\ q.op \in ItemMoves \cup {"complete"} => Seen(r) = "IN_PROGRESS"
    /\ q.op = "removeItem" /\ ~ q.draft => Seen(r) = "IN_PROGRESS"
    /\ q.op \in VisitMoves => Seen(r) \in VisitFrom(q.op)
    /\ q.op = "complete" => CanComplete(items)
    /\ q.op \in {"addItem", "updateItem"} => ValidMoney(q.line)
    /\ q.op \in ItemMoves => q.item \in Active(items)
    /\ q.op = "markPaid" => /\ visit.status = "COMPLETED" /\ visit.payment = "UNPAID"
                            /\ sums' = [sums EXCEPT ![r] = bill]
    /\ q.op # "markPaid" => sums' = sums
    /\ req[r] = Idle => visit.status # "NONE"
    /\ Keep(r, q)

\* Remembering a well-formed request keeps the requests well-formed.
LEMMA RememberTypeInv ==
  ASSUME TypeInv, NEW r \in Requests, NEW q \in RequestRows, Remember(r, q),
         q.staged => q.op \in Recalculating, q.op \in ItemOps => q.item \in ItemIds,
         q.op = "read" => q.seen \in Editable
  PROVE  req' \in [Requests -> RequestRows] /\ Shape'
  BY DEF TypeInv, TypeOK, Shape, Remember

\* Every handler's read ends in a request that its guards vouch for.
LEMMA CheckRemembers ==
  ASSUME TypeInv, NEW r \in Requests, Check(r)
  PROVE  \E q : Remembered(r, q)
  <1> DEFINE Goal == \E q : Remembered(r, q)
  <1>1. ASSUME NEW a \in Managers, NEW i \in ItemIds, NEW line \in Lines,
               NEW eligible \in SUBSET Providers, CheckAddItem(r, a, i, line, eligible)
        PROVE  Goal
    <2> DEFINE q == [Idle EXCEPT !.op = "addItem", !.actor = a, !.item = i,
                             !.line = Resolve(line, visit.defaultProvider, eligible)]
    <2>1. /\ Resolve(line, visit.defaultProvider, eligible) \in LineRows
          /\ ValidMoney(Resolve(line, visit.defaultProvider, eligible))
      BY ResolveType DEF TypeInv, TypeOK, VisitRows
    <2>2. q \in RequestRows /\ ~ q.staged
      BY <2>1, IdleType, BlankType DEF Idle, Blank, RequestRows, LineRows, Lines, Managers,
                Ops, ItemOps, Recalculating, ItemMoves, VisitMoves
    <2>3. Remembered(r, q)
      BY <2>1, <1>1, <2>2 DEF CheckAddItem, Remembered, Seen, Begin, Idle, Editable, ItemOps, Recalculating,
                ItemMoves, VisitMoves
    <2> HIDE DEF q
    <2> QED
      BY <2>3
  <1>2. ASSUME NEW a \in Managers, NEW i \in ItemIds, NEW line \in Lines,
               NEW reassign \in BOOLEAN, CheckUpdateItem(r, a, i, line, reassign)
        PROVE  Goal
    <2> DEFINE q == [Idle EXCEPT !.op = "updateItem", !.actor = a, !.item = i,
                             !.line = line, !.reassign = reassign]
    <2>1. q \in RequestRows /\ ~ q.staged
      BY IdleType, BlankType DEF Idle, Blank, RequestRows, LineRows, Lines, Managers,
                Ops, ItemOps, Recalculating, ItemMoves, VisitMoves
    <2>2. req[r].op = "read" /\ req[r].seen \in Editable
      BY <1>2 DEF CheckUpdateItem, GoOn, TypeInv, Shape
    <2>3. Remembered(r, q)
      BY <1>2, <2>1, <2>2 DEF CheckUpdateItem, Remembered, Seen, GoOn, Lines, Idle, ItemOps,
                Recalculating, ItemMoves, VisitMoves
    <2> HIDE DEF q
    <2> QED
      BY <2>3
  <1>3. ASSUME NEW a \in Managers, NEW i \in ItemIds, CheckRemoveItem(r, a, i)
        PROVE  Goal
    <2> DEFINE q == [Idle EXCEPT !.op = "removeItem", !.actor = a, !.item = i,
                             !.draft = (req[r].seen = "DRAFT")]
    <2>1. q \in RequestRows /\ ~ q.staged
      BY IdleType, BlankType DEF Idle, Blank, RequestRows, LineRows, Lines, Managers,
                Ops, ItemOps, Recalculating, ItemMoves, VisitMoves
    <2>2. req[r].op = "read" /\ req[r].seen \in Editable
      BY <1>3 DEF CheckRemoveItem, GoOn, TypeInv, Shape
    <2>3. q.op = "removeItem" /\ q.item = i /\ q.draft = (req[r].seen = "DRAFT")
      BY DEF Idle
    <2>4. Keep(r, q) /\ sums' = sums
      BY <1>3 DEF CheckRemoveItem, GoOn
    <2> HIDE DEF q
    <2>5. ~ q.draft => Seen(r) = "IN_PROGRESS"
      BY <2>2, <2>3 DEF Seen, Editable
    <2>6. Seen(r) \in Editable /\ req[r] # Idle
      BY <2>2 DEF Seen, Idle
    <2>7. Remembered(r, q)
      BY <2>1, <2>3, <2>4, <2>5, <2>6 DEF Remembered, ItemMoves, VisitMoves
    <2> QED
      BY <2>7
  <1>4. ASSUME NEW a \in Managers, NEW op \in VisitMoves, CheckVisitMove(r, a, op)
        PROVE  Goal
    <2> DEFINE q == [Idle EXCEPT !.op = op, !.actor = a]
    <2>1. q \in RequestRows /\ ~ q.staged
      BY IdleType, BlankType DEF Idle, Blank, RequestRows, LineRows, Lines, Managers,
                Ops, ItemOps, Recalculating, ItemMoves, VisitMoves
    <2>2. Remembered(r, q)
      BY <1>4, <2>1 DEF CheckVisitMove, Remembered, Seen, GoOn, Idle, Editable, ItemOps, Recalculating,
                ItemMoves, VisitMoves, VisitFrom
    <2> HIDE DEF q
    <2> QED
      BY <2>2
  <1>5. ASSUME NEW a \in Actors, NEW op \in ItemMoves, NEW i \in ItemIds,
               CheckItemMove(r, a, op, i)
        PROVE  Goal
    <2> DEFINE q == [Idle EXCEPT !.op = op, !.actor = a, !.item = i]
    <2>1. i \in Active(items)
      BY <1>5 DEF CheckItemMove, Active, ItemFrom
    <2>2. q \in RequestRows /\ ~ q.staged
      BY IdleType, BlankType DEF Idle, Blank, RequestRows, LineRows, Lines, Managers,
                Ops, ItemOps, Recalculating, ItemMoves, VisitMoves
    <2>3. Remembered(r, q)
      BY <2>1, <1>5, <2>2 DEF CheckItemMove, Remembered, Seen, GoOn, Idle, Editable, ItemOps, Recalculating,
                ItemMoves, VisitMoves
    <2> HIDE DEF q
    <2> QED
      BY <2>3
  <1>6. ASSUME NEW a \in Managers, NEW default \in NullableProviders,
               CheckUpdate(r, a, default)
        PROVE  Goal
    <2> DEFINE q == [Idle EXCEPT !.op = "update", !.actor = a, !.line.provider = default]
    <2>1. q \in RequestRows /\ ~ q.staged
      BY IdleType, BlankType DEF Idle, Blank, RequestRows, LineRows, Lines, Managers,
                Ops, ItemOps, Recalculating, ItemMoves, VisitMoves
    <2>2. Remembered(r, q)
      BY <1>6, <2>1 DEF CheckUpdate, Remembered, Seen, Begin, Idle, Editable, ItemOps, Recalculating,
                ItemMoves, VisitMoves
    <2> HIDE DEF q
    <2> QED
      BY <2>2
  <1>7. ASSUME NEW a \in Managers, CheckMarkPaid(r, a)
        PROVE  Goal
    <2> DEFINE q == [Idle EXCEPT !.op = "markPaid", !.actor = a]
    <2>1. q \in RequestRows /\ ~ q.staged
      BY IdleType, BlankType DEF Idle, Blank, RequestRows, LineRows, Lines, Managers,
                Ops, ItemOps, Recalculating, ItemMoves, VisitMoves
    <2>2. Remembered(r, q)
      BY <1>7, <2>1 DEF CheckMarkPaid, Remembered, Seen, Begin, Idle, Editable, ItemOps, Recalculating,
                ItemMoves, VisitMoves
    <2> HIDE DEF q
    <2> QED
      BY <2>2
  <1>8. ASSUME Read(r) PROVE Goal
    <2> DEFINE q == [Idle EXCEPT !.op = "read", !.seen = visit.status]
    <2>1. q \in RequestRows /\ ~ q.staged
      BY <1>8, IdleType DEF Read, Idle, RequestRows
    <2>2. Remembered(r, q)
      BY <1>8, <2>1 DEF Read, Begin, Remembered, Seen, Idle, Editable, ItemOps, Recalculating,
                ItemMoves, VisitMoves
    <2> HIDE DEF q
    <2> QED
      BY <2>2
  <1> QED
    BY <1>1, <1>2, <1>3, <1>4, <1>5, <1>6, <1>7, <1>8 DEF Check

LEMMA CheckTypeInv ==
  ASSUME TypeInv, NEW r \in Requests, Check(r)
  PROVE  TypeInv'
  <1>1. PICK q : Remembered(r, q)
    BY CheckRemembers
  <1> QED
    BY <1>1, RememberTypeInv DEF Remembered, Keep, TypeInv, TypeOK

\* A transaction writes well-formed rows.
LEMMA WriteTypeInv ==
  ASSUME TypeInv, NEW r \in Requests, Stage(r) \/ Commit(r) \/ Fail(r) \/ Abort(r)
  PROVE  TypeInv'
  <1>1. ASSUME Finish(r) PROVE req' \in [Requests -> RequestRows] /\ Shape'
    BY <1>1, IdleType
    DEF Finish, TypeInv, TypeOK, Shape, Idle, ItemOps, Recalculating, ItemMoves
  <1>2. ASSUME req[r].op \in ItemOps PROVE ItemsWith(req[r]) \in [ItemIds -> ItemRows]
    BY <1>2, WrittenType DEF TypeInv, TypeOK, Shape, ItemsWith
  <1>3. CASE Stage(r)
    <2>1. [req[r] EXCEPT !.staged = TRUE] \in RequestRows
      BY DEF TypeInv, TypeOK, RequestRows
    <2> QED
      BY <1>3, <2>1, RememberTypeInv DEF Stage, TypeInv, TypeOK, Shape, RequestRows
  <1>4. CASE CommitItem(r)
    BY <1>4, <1>1, <1>2 DEF CommitItem, TypeInv, TypeOK, Shape, ItemOps
  <1>5. CASE CommitItemMove(r)
    BY <1>5, <1>1, <1>2 DEF CommitItemMove, TypeInv, TypeOK, ItemOps
  <1>6. CASE CommitVisitMove(r)
    <2>1. visit' \in VisitRows
      BY <1>6 DEF CommitVisitMove, TypeInv, TypeOK, VisitRows, VisitTarget, VisitStatus, Editable
    <2> QED
      BY <1>6, <1>1, <2>1 DEF CommitVisitMove, TypeInv, TypeOK
  <1>7. CASE CommitUpdate(r)
    <2>1. visit' \in VisitRows
      BY <1>7 DEF CommitUpdate, TypeInv, TypeOK, VisitRows, RequestRows, LineRows
    <2> QED
      BY <1>7, <1>1, <2>1 DEF CommitUpdate, TypeInv, TypeOK
  <1>8. CASE CommitMarkPaid(r)
    <2>1. visit' \in VisitRows
      BY <1>8 DEF CommitMarkPaid, TypeInv, TypeOK, VisitRows, RequestRows
    <2> QED
      BY <1>8, <1>1, <2>1 DEF CommitMarkPaid, TypeInv, TypeOK
  <1>9. CASE Fail(r)
    BY <1>9, <1>1 DEF Fail, TypeInv, TypeOK
  <1>10. CASE Abort(r)
    BY <1>10, <1>1 DEF Abort, TypeInv, TypeOK
  <1> QED
    BY <1>3, <1>4, <1>5, <1>6, <1>7, <1>8, <1>9, <1>10 DEF Commit

LEMMA CreateTypeInv ==
  ASSUME TypeInv, CreateVisit
  PROVE  TypeInv'
  <1>1. PICK actor \in Managers, status \in Editable, default \in NullableProviders,
             chosen \in SUBSET ItemIds :
               \E lines \in [chosen -> Lines], eligible \in [chosen -> SUBSET Providers] :
                  Create(actor, status, default, lines, eligible)
    BY DEF CreateVisit
  <1>2. PICK lines \in [chosen -> Lines], eligible \in [chosen -> SUBSET Providers] :
               Create(actor, status, default, lines, eligible)
    BY <1>1
  <1>3. visit' \in VisitRows
    <2>1. visit' = [NoVisit EXCEPT !.status = status, !.started = (status = "IN_PROGRESS"),
                                   !.defaultProvider = default]
      BY <1>2 DEF Create
    <2> QED
      BY <2>1 DEF NoVisit, VisitRows, VisitStatus, NullableProviders
  <1>4. items' \in [ItemIds -> ItemRows]
    <2>1. \A i \in chosen : NewItem(Resolve(lines[i], default, eligible[i])) \in ItemRows
      BY ResolveType, NewItemType
    <2>2. NoItem \in ItemRows
      BY ConstantsAssumption DEF NoItem, ItemRows, NullableProviders
    <2>3. items' = [i \in ItemIds |-> IF i \in chosen
                                      THEN NewItem(Resolve(lines[i], default, eligible[i]))
                                      ELSE NoItem]
      BY <1>2 DEF Create
    <2> QED
      BY <2>1, <2>2, <2>3
  <1>5. req' = req
    BY <1>2 DEF Create
  <1> QED
    BY <1>3, <1>4, <1>5 DEF TypeInv, TypeOK, Shape

LEMMA StepTypeInv == TypeInv /\ [Next]_vars => TypeInv'
  <1> SUFFICES ASSUME TypeInv, [Next]_vars PROVE TypeInv'
    OBVIOUS
  <1>1. CASE CreateVisit
    BY <1>1, CreateTypeInv
  <1>2. ASSUME NEW r \in Requests, Check(r) PROVE TypeInv'
    BY <1>2, CheckTypeInv
  <1>3. ASSUME NEW r \in Requests, Stage(r) \/ Commit(r) \/ Fail(r) \/ Abort(r)
        PROVE TypeInv'
    BY <1>3, WriteTypeInv
  <1>4. CASE UNCHANGED vars
    BY <1>4 DEF vars, TypeInv, TypeOK, Shape
  <1> QED
    BY <1>1, <1>2, <1>3, <1>4 DEF Next

\* Every row stays a row, and a request never loses the item it is about.
THEOREM TypeCorrect == Spec => []TypeOK
  <1>1. TypeInv => TypeOK
    BY DEF TypeInv
  <1> QED
    BY InitTypeInv, StepTypeInv, <1>1, PTL DEF Spec

-----------------------------------------------------------------------------
(* History: the statuses, the timestamps and the work.                     *)

\* Until the visit is created nothing else happens.
Fresh ==
    visit.status = "NONE" =>
        /\ visit = NoVisit
        /\ \A i \in ItemIds : items[i].status = "ABSENT"
        /\ \A r \in Requests : req[r] = Idle

\* What a handler read of the visit may be stale, but a timestamp it saw is
\* still there: timestamps are never taken back.
Promises ==
    \A r \in Requests :
        /\ req[r].op \in ItemMoves \cup {"complete"} => visit.started
        /\ req[r].op = "removeItem" /\ ~ req[r].draft => visit.started
        /\ req[r].op = "read" /\ req[r].seen = "IN_PROGRESS" => visit.started
        /\ req[r].op = "markPaid" => visit.completed

HistoryInv == TypeInv /\ Fresh /\ Promises /\ Timeline /\ WorkNeedsStart

LEMMA InitHistoryInv == Init => HistoryInv
  <1> SUFFICES ASSUME Init PROVE HistoryInv
    OBVIOUS
  <1>1. Fresh
    BY DEF Init, Fresh, NoItem
  <1>2. Promises
    BY DEF Init, Promises, Idle, ItemMoves
  <1>3. Timeline /\ WorkNeedsStart
    BY DEF Init, Timeline, WorkNeedsStart, NoVisit, NoItem
  <1> QED
    BY <1>1, <1>2, <1>3, InitTypeInv DEF HistoryInv

LEMMA CreateHistoryInv ==
  ASSUME HistoryInv, CreateVisit
  PROVE  HistoryInv'
  <1>1. PICK actor \in Managers, status \in Editable, default \in NullableProviders,
             chosen \in SUBSET ItemIds :
               \E lines \in [chosen -> Lines], eligible \in [chosen -> SUBSET Providers] :
                  Create(actor, status, default, lines, eligible)
    BY DEF CreateVisit
  <1>2. PICK lines \in [chosen -> Lines], eligible \in [chosen -> SUBSET Providers] :
               Create(actor, status, default, lines, eligible)
    BY <1>1
  <1>3. /\ visit' = [NoVisit EXCEPT !.status = status, !.started = (status = "IN_PROGRESS"),
                                    !.defaultProvider = default]
        /\ visit.status = "NONE" /\ req' = req
    BY <1>2 DEF Create
  <1>4. /\ visit'.status \in Editable /\ visit'.payment = "UNPAID"
        /\ visit'.started = (visit'.status = "IN_PROGRESS")
        /\ visit'.completed = FALSE /\ visit'.cancelled = FALSE
    BY <1>3 DEF NoVisit
  <1>5. Fresh' /\ Timeline'
    BY <1>4 DEF Fresh, Timeline, Editable
  <1>6. Promises'
    BY <1>3 DEF HistoryInv, Fresh, Promises, Idle, ItemMoves
  <1>7. WorkNeedsStart'
    <2>1. \A i \in ItemIds : items'[i].status \in {"PENDING", "ABSENT"}
      BY <1>2 DEF Create, NewItem, NoItem
    <2> QED
      BY <2>1 DEF WorkNeedsStart
  <1> QED
    BY <1>5, <1>6, <1>7, CreateTypeInv DEF HistoryInv

\* A read remembers only what the visit's timestamps vouch for.
LEMMA CheckHistoryInv ==
  ASSUME HistoryInv, NEW r \in Requests, Check(r)
  PROVE  HistoryInv'
  <1>1. PICK q : Remembered(r, q)
    BY CheckRemembers DEF HistoryInv, TypeInv
  <1>2. visit' = visit /\ items' = items /\ req' = [req EXCEPT ![r] = q]
    BY <1>1 DEF Remembered, Keep, Remember
  <1>3. Fresh'
    BY <1>1, <1>2 DEF Remembered, HistoryInv, Fresh
  <1>4. Promises'
    <2>1. Seen(r) = "IN_PROGRESS" => visit.started
      BY DEF Seen, HistoryInv, Promises, Timeline
    <2>2. visit.status = "COMPLETED" => visit.completed
      BY DEF HistoryInv, Timeline
    <2>3. req'[r] = q /\ \A s \in Requests \ {r} : req'[s] = req[s]
      BY <1>2 DEF HistoryInv, TypeInv, TypeOK
    <2> QED
      BY <1>1, <1>2, <2>1, <2>2, <2>3 DEF Remembered, HistoryInv, Promises
  <1>5. Timeline' /\ WorkNeedsStart'
    BY <1>2 DEF HistoryInv, Timeline, WorkNeedsStart
  <1> QED
    BY <1>3, <1>4, <1>5, CheckTypeInv DEF HistoryInv

\* Answering a request leaves the others as they were.
LEMMA FinishHistoryInv ==
  ASSUME HistoryInv, NEW r \in Requests, Finish(r), req[r].op # "none",
         visit'.status # "NONE",
         visit.started => visit'.started, visit.completed => visit'.completed
  PROVE  Fresh' /\ Promises'
  BY DEF Finish, HistoryInv, Fresh, Promises, Idle, ItemMoves, TypeInv, TypeOK

LEMMA WriteHistoryInv ==
  ASSUME HistoryInv, NEW r \in Requests, Stage(r) \/ Commit(r) \/ Fail(r) \/ Abort(r)
  PROVE  HistoryInv'
  <1> DEFINE Kept == Fresh' /\ Promises' /\ Timeline' /\ WorkNeedsStart'
  <1>0. req[r].op # "none" => visit.status # "NONE"
    BY DEF HistoryInv, Fresh, Idle
  <1>a. req[r].op \in Ops => req[r].op # "none"
    BY DEF Ops, ItemOps, Recalculating, ItemMoves, VisitMoves
  <1>b. ASSUME UNCHANGED visit, UNCHANGED items, Finish(r), req[r].op # "none"
        PROVE  Kept
    BY <1>b, <1>0, FinishHistoryInv DEF HistoryInv, Timeline, WorkNeedsStart
  \* The item's new status needs a start only if the request saw one.
  <1>c. ASSUME items' = ItemsWith(req[r]), UNCHANGED visit, Finish(r), req[r].op \in ItemOps
        PROVE  Kept
    <2>1. Fresh' /\ Promises'
      BY <1>c, <1>0, <1>a, FinishHistoryInv DEF Ops
    <2>2. Timeline'
      BY <1>c DEF HistoryInv, Timeline
    <2>3. req[r].item \in ItemIds
      BY <1>c DEF HistoryInv, TypeInv, Shape
    <2>4. Written(req[r], items[req[r].item]).status \in {"IN_PROGRESS", "COMPLETED", "CANCELLED"}
             => visit.started
      <3> DEFINE row == items[req[r].item]
      <3>1. row \in ItemRows /\ req[r] \in RequestRows
        BY <2>3 DEF HistoryInv, TypeInv, TypeOK
      <3>2. CASE req[r].op = "addItem"
        BY <3>2 DEF Written, NewItem
      <3>3. CASE req[r].op = "updateItem"
        <4>1. Written(req[r], row).status = row.status
          BY <3>1, <3>3 DEF Written, Edited, ItemRows
        <4> QED
          BY <4>1, <2>3 DEF HistoryInv, WorkNeedsStart
      <3>4. CASE Deletes(req[r])
        BY <3>4 DEF Written, Deletes, NoItem
      <3>5. CASE req[r].op \in ItemMoves \cup {"removeItem"} /\ ~ Deletes(req[r])
        BY <3>5 DEF Deletes, HistoryInv, Promises
      <3> QED
        BY <1>c, <3>2, <3>3, <3>4, <3>5 DEF ItemOps, Recalculating, ItemMoves
    <2>5. WorkNeedsStart'
      BY <1>c, <2>3, <2>4 DEF ItemsWith, HistoryInv, TypeInv, TypeOK, WorkNeedsStart
    <2> QED
      BY <2>1, <2>2, <2>5
  <1>1. ASSUME Stage(r) PROVE Kept
    <2>1. /\ visit' = visit /\ items' = items
          /\ req' = [req EXCEPT ![r] = [req[r] EXCEPT !.staged = TRUE]]
      BY <1>1 DEF Stage, Remember
    <2>2. Fresh'
      BY <1>1, <1>0, <1>a, <2>1 DEF Stage, Ops, ItemOps, Fresh
    <2>3. Promises'
      BY <2>1 DEF HistoryInv, Promises, TypeInv, TypeOK, RequestRows
    <2>4. Timeline' /\ WorkNeedsStart'
      BY <2>1 DEF HistoryInv, Timeline, WorkNeedsStart
    <2> QED
      BY <2>2, <2>3, <2>4
  <1>2. ASSUME CommitItem(r) PROVE Kept
    BY <1>2, <1>c DEF CommitItem, HistoryInv, TypeInv, Shape, ItemOps
  <1>3. ASSUME CommitItemMove(r) PROVE Kept
    BY <1>3, <1>c DEF CommitItemMove, ItemOps
  <1>4. ASSUME CommitVisitMove(r) PROVE Kept
    <2> DEFINE op == req[r].op
    <2>1. /\ op \in VisitMoves /\ Finish(r) /\ items' = items
          /\ visit'.status = VisitTarget(op)
          /\ visit'.started = (visit.started \/ op = "start")
          /\ visit'.completed = (visit.completed \/ op = "complete")
          /\ visit'.cancelled = (visit.cancelled \/ op = "cancel")
          /\ visit'.payment = visit.payment
      BY <1>4 DEF CommitVisitMove, HistoryInv, TypeInv, TypeOK, VisitRows
    <2>2. Fresh' /\ Promises'
      BY <2>1, <1>0, <1>a, FinishHistoryInv DEF Ops, VisitTarget
    <2>3. op = "complete" => visit.started
      BY DEF HistoryInv, Promises
    <2>4. Timeline'
      BY <2>1, <2>3 DEF HistoryInv, Timeline, VisitTarget, VisitMoves
    <2>5. WorkNeedsStart'
      BY <2>1 DEF HistoryInv, WorkNeedsStart
    <2> QED
      BY <2>2, <2>4, <2>5
  <1>5. ASSUME CommitUpdate(r) PROVE Kept
    <2>1. /\ visit'.status = visit.status /\ visit'.payment = visit.payment
          /\ visit'.started = visit.started /\ visit'.completed = visit.completed
          /\ visit'.cancelled = visit.cancelled
          /\ Finish(r) /\ items' = items /\ req[r].op # "none"
      BY <1>5 DEF CommitUpdate, HistoryInv, TypeInv, TypeOK, VisitRows
    <2> QED
      BY <2>1, <1>0, FinishHistoryInv DEF HistoryInv, Timeline, WorkNeedsStart
  <1>6. ASSUME CommitMarkPaid(r) PROVE Kept
    <2>1. /\ visit'.status = visit.status
          /\ visit'.started = visit.started /\ visit'.completed = visit.completed
          /\ visit'.cancelled = visit.cancelled
          /\ Finish(r) /\ items' = items /\ req[r].op = "markPaid"
      BY <1>6 DEF CommitMarkPaid, HistoryInv, TypeInv, TypeOK, VisitRows
    <2>2. visit.completed
      BY <2>1 DEF HistoryInv, Promises
    <2> QED
      BY <2>1, <2>2, <1>0, FinishHistoryInv DEF HistoryInv, Timeline, WorkNeedsStart
  <1>7. ASSUME Fail(r) PROVE Kept
    BY <1>7, <1>a, <1>b DEF Fail, Ops, ItemOps
  <1>8. ASSUME Abort(r) PROVE Kept
    <2>1. CASE req[r].op = "none"
      <3>1. visit' = visit /\ items' = items /\ req' = [req EXCEPT ![r] = Idle]
        BY <1>8 DEF Abort, Finish
      <3> QED
        BY <3>1 DEF HistoryInv, Fresh, Promises, Timeline, WorkNeedsStart, Idle, ItemMoves,
                    TypeInv, TypeOK
    <2> QED
      BY <1>8, <1>b, <2>1 DEF Abort
  <1> QED
    BY <1>1, <1>2, <1>3, <1>4, <1>5, <1>6, <1>7, <1>8, WriteTypeInv DEF Commit, HistoryInv

LEMMA StepHistoryInv == HistoryInv /\ [Next]_vars => HistoryInv'
  <1> SUFFICES ASSUME HistoryInv, [Next]_vars PROVE HistoryInv'
    OBVIOUS
  <1>1. CASE CreateVisit
    BY <1>1, CreateHistoryInv
  <1>2. ASSUME NEW r \in Requests, Check(r) PROVE HistoryInv'
    BY <1>2, CheckHistoryInv
  <1>3. ASSUME NEW r \in Requests, Stage(r) \/ Commit(r) \/ Fail(r) \/ Abort(r)
        PROVE HistoryInv'
    BY <1>3, WriteHistoryInv
  <1>4. CASE UNCHANGED vars
    <2>1. TypeInv'
      BY <1>4, StepTypeInv DEF HistoryInv
    <2> QED
      BY <1>4, <2>1 DEF vars, HistoryInv, Fresh, Promises, Timeline, WorkNeedsStart
  <1> QED
    BY <1>1, <1>2, <1>3, <1>4 DEF Next

\* Whatever stale transitions requests commit, the timestamps of a visit tell a
\* possible history: started before completed before paid.
THEOREM TimelineHolds == Spec => []Timeline
  <1>1. HistoryInv => Timeline
    BY DEF HistoryInv
  <1> QED
    BY InitHistoryInv, StepHistoryInv, <1>1, PTL DEF Spec

\* No treatment is begun, completed or cancelled in a visit that never started.
THEOREM WorkNeedsStartHolds == Spec => []WorkNeedsStart
  <1>1. HistoryInv => WorkNeedsStart
    BY DEF HistoryInv
  <1> QED
    BY InitHistoryInv, StepHistoryInv, <1>1, PTL DEF Spec

-----------------------------------------------------------------------------
(* The money of an item.                                                   *)

\* A request that writes money writes money that was validated.
MoneyInv ==
    /\ TypeInv
    /\ \A i \in ItemIds : ValidMoney(items[i])
    /\ \A r \in Requests : req[r].op \in {"addItem", "updateItem"} => ValidMoney(req[r].line)

LEMMA InitMoneyInv == Init => MoneyInv
  BY InitTypeInv DEF Init, NoItem, Idle, ValidMoney, MoneyInv

\* Every row a transaction writes is valid if the row and the request were.
LEMMA WrittenMoney ==
  ASSUME MoneyInv, NEW r \in Requests, req[r].op \in ItemOps
  PROVE  \A i \in ItemIds : ValidMoney(ItemsWith(req[r])[i])
  <1> DEFINE i == req[r].item
             new == Written(req[r], items[i])
  <1>1. i \in ItemIds /\ items[i] \in ItemRows /\ req[r] \in RequestRows
    BY DEF MoneyInv, TypeInv, TypeOK, Shape
  <1>2. ValidMoney(new)
    <2>1. CASE req[r].op = "addItem"
      BY <2>1 DEF Written, NewItem, ValidMoney, MoneyInv
    <2>2. CASE req[r].op = "updateItem"
      BY <1>1, <2>2 DEF Written, Edited, ItemRows, ValidMoney, MoneyInv
    <2>3. CASE Deletes(req[r])
      BY <2>3 DEF Written, Deletes, NoItem, ValidMoney
    <2>4. CASE req[r].op \notin {"addItem", "updateItem"} /\ ~ Deletes(req[r])
      BY <1>1, <2>4 DEF Written, ItemRows, ValidMoney, MoneyInv
    <2> QED
      BY <2>1, <2>2, <2>3, <2>4
  <1>3. ItemsWith(req[r]) = [items EXCEPT ![i] = new]
    BY DEF ItemsWith
  <1> HIDE DEF new
  <1> QED
    BY <1>1, <1>2, <1>3 DEF MoneyInv, TypeInv, TypeOK

LEMMA StepMoneyInv == MoneyInv /\ [Next]_vars => MoneyInv'
  <1> SUFFICES ASSUME MoneyInv, [Next]_vars PROVE MoneyInv'
    OBVIOUS
  <1> DEFINE Rows == \A i \in ItemIds : ValidMoney(items[i])
             Valid == \A r \in Requests :
                        req[r].op \in {"addItem", "updateItem"} => ValidMoney(req[r].line)
  <1>0. TypeInv /\ TypeInv' /\ Rows /\ Valid
    BY StepTypeInv DEF MoneyInv
  <1>a. ASSUME items' = items PROVE Rows'
    BY <1>0, <1>a
  <1>b. ASSUME NEW r \in Requests, Finish(r) PROVE Valid'
    BY <1>0, <1>b DEF Finish, Idle, TypeInv, TypeOK
  <1>1. ASSUME CreateVisit PROVE Rows' /\ Valid'
    <2>1. PICK actor \in Managers, status \in Editable, default \in NullableProviders,
               chosen \in SUBSET ItemIds :
                 \E lines \in [chosen -> Lines], eligible \in [chosen -> SUBSET Providers] :
                    Create(actor, status, default, lines, eligible)
      BY <1>1 DEF CreateVisit
    <2>2. PICK lines \in [chosen -> Lines], eligible \in [chosen -> SUBSET Providers] :
                 Create(actor, status, default, lines, eligible)
      BY <2>1
    <2>3. \A i \in chosen : ValidMoney(NewItem(Resolve(lines[i], default, eligible[i])))
      BY ResolveType DEF NewItem, ValidMoney
    <2>4. ValidMoney(NoItem)
      BY DEF NoItem, ValidMoney
    <2>5. items' = [i \in ItemIds |-> IF i \in chosen
                                      THEN NewItem(Resolve(lines[i], default, eligible[i]))
                                      ELSE NoItem] /\ req' = req
      BY <2>2 DEF Create
    <2> QED
      BY <1>0, <2>3, <2>4, <2>5
  <1>2. ASSUME NEW r \in Requests, Check(r) PROVE Rows' /\ Valid'
    <2>1. PICK q : Remembered(r, q)
      BY <1>2, CheckRemembers, <1>0 DEF TypeInv
    <2> QED
      BY <1>0, <1>a, <2>1 DEF Remembered, Keep, Remember, TypeInv, TypeOK
  <1>3. ASSUME NEW r \in Requests, Stage(r) PROVE Rows' /\ Valid'
    <2>1. items' = items /\ req' = [req EXCEPT ![r] = [req[r] EXCEPT !.staged = TRUE]]
      BY <1>3 DEF Stage, Remember
    <2> QED
      BY <1>0, <1>a, <2>1 DEF TypeInv, TypeOK, RequestRows
  <1>4. ASSUME NEW r \in Requests, CommitItem(r) \/ CommitItemMove(r) PROVE Rows' /\ Valid'
    <2>1. items' = ItemsWith(req[r]) /\ Finish(r) /\ req[r].op \in ItemOps
      BY <1>0, <1>4 DEF CommitItem, CommitItemMove, TypeInv, Shape, ItemOps
    <2> QED
      BY <1>b, <2>1, WrittenMoney
  <1>5. ASSUME NEW r \in Requests, CommitVisitMove(r) \/ CommitUpdate(r) \/ CommitMarkPaid(r)
                                   \/ Fail(r) \/ Abort(r)
        PROVE Rows' /\ Valid'
    <2>1. items' = items /\ Finish(r)
      BY <1>5 DEF CommitVisitMove, CommitUpdate, CommitMarkPaid, Fail, Abort
    <2> QED
      BY <1>a, <1>b, <2>1
  <1>6. ASSUME UNCHANGED vars PROVE Rows' /\ Valid'
    BY <1>0, <1>6 DEF vars
  <1>7. Rows' /\ Valid'
    BY <1>1, <1>2, <1>3, <1>4, <1>5, <1>6 DEF Next, Commit
  <1> QED
    BY <1>0, <1>7 DEF MoneyInv

\* No interleaving of item writes leaves an item discounted below zero.
THEOREM ItemMoneyHolds == Spec => []ItemMoney
  <1>1. MoneyInv => ItemMoney
    BY DEF MoneyInv, ItemMoney, TypeInv, TypeOK, Present
  <1> QED
    BY InitMoneyInv, StepMoneyInv, <1>1, PTL DEF Spec

-----------------------------------------------------------------------------
(* The stored totals.                                                      *)
SoundTotals ==
    {t \in [subtotal : Nat, discountAmount : Nat, total : Nat] :
        t.total = t.subtotal - t.discountAmount /\ Fits(t)}

\* A total may be out of date when it is stored, but it was summed from rows
\* that were valid together, and it was found to fit.
TotalsInv ==
    /\ MoneyInv
    /\ bill \in SoundTotals
    /\ sums \in [Requests -> SoundTotals]

LEMMA ZeroSound == ZeroTotals \in SoundTotals
  BY ConstantsAssumption DEF ZeroTotals, SoundTotals, Fits

LEMMA BillSound ==
  ASSUME NEW rows \in [ItemIds -> ItemRows], \A i \in ItemIds : ValidMoney(rows[i]),
         Fits(Totals(BillLines(rows)))
  PROVE  Totals(BillLines(rows)) \in SoundTotals
  <1> DEFINE D == Active(rows)
             lines == BillLines(rows)
  <1>1. D \subseteq ItemIds /\ IsFiniteSet(D)
    BY ConstantsAssumption, FS_Subset DEF Active, Present
  <1>2. DOMAIN lines = D
    BY DEF BillLines
  <1>3. ASSUME NEW i \in D
        PROVE  lines[i].price \in Nat /\ lines[i].discount \in Nat
               /\ lines[i].discount <= lines[i].price
    <2>1. lines[i].price = rows[i].price /\ lines[i].discount = rows[i].discount
      BY DEF BillLines
    <2>2. rows[i].price \in Nat /\ rows[i].discount \in Nat /\ ValidMoney(rows[i])
      BY <1>1, ConstantsAssumption DEF ItemRows
    <2> QED
      BY <2>1, <2>2 DEF ValidMoney
  <1> HIDE DEF D, lines
  <1>4. Totals(lines) \in {t \in [subtotal : Nat, discountAmount : Nat, total : Nat] :
                             t.total = t.subtotal - t.discountAmount}
    BY <1>1, <1>2, <1>3, TotalsSound
  <1> QED
    BY <1>4 DEF SoundTotals, lines

LEMMA InitTotalsInv == Init => TotalsInv
  BY InitMoneyInv, ZeroSound DEF Init, TotalsInv

LEMMA StepTotalsInv == TotalsInv /\ [Next]_vars => TotalsInv'
  <1> SUFFICES ASSUME TotalsInv, [Next]_vars PROVE TotalsInv'
    OBVIOUS
  <1> DEFINE Sound == bill \in SoundTotals /\ sums \in [Requests -> SoundTotals]
  <1>0. MoneyInv /\ MoneyInv' /\ Sound
    BY StepMoneyInv DEF TotalsInv
  <1>a. ASSUME NEW r \in Requests, Finish(r) PROVE sums' \in [Requests -> SoundTotals]
    BY <1>0, <1>a, ZeroSound DEF Finish
  <1>1. ASSUME CreateVisit PROVE Sound'
    <2>1. bill' = Totals(BillLines(items')) /\ Fits(Totals(BillLines(items'))) /\ sums' = sums
      BY <1>1 DEF CreateVisit, Create
    <2>2. items' \in [ItemIds -> ItemRows] /\ \A i \in ItemIds : ValidMoney(items'[i])
      BY <1>0 DEF MoneyInv, TypeInv, TypeOK
    <2>3. bill' \in SoundTotals
      BY <2>1, <2>2, BillSound
    <2> QED
      BY <1>0, <2>1, <2>3
  <1>2. ASSUME NEW r \in Requests, Check(r) PROVE Sound'
    <2>1. PICK q : Remembered(r, q)
      BY <1>2, CheckRemembers, <1>0 DEF MoneyInv, TypeInv
    <2>2. bill' = bill /\ (sums' = sums \/ sums' = [sums EXCEPT ![r] = bill])
      BY <2>1 DEF Remembered, Keep
    <2> QED
      BY <1>0, <2>2
  \* What a transaction sums are the committed rows with its own on top.
  <1>3. ASSUME NEW r \in Requests, Stage(r) PROVE Sound'
    <2> DEFINE rows == ItemsWith(req[r])
    <2>1. req[r].op \in ItemOps
      BY <1>3 DEF Stage, ItemOps
    <2>2. rows \in [ItemIds -> ItemRows]
      BY <1>0, <2>1, WrittenType DEF MoneyInv, TypeInv, TypeOK, Shape, ItemsWith
    <2>3. \A i \in ItemIds : ValidMoney(rows[i])
      BY <1>0, <2>1, WrittenMoney
    <2>4. /\ Fits(Totals(BillLines(rows))) /\ bill' = bill
          /\ sums' = [sums EXCEPT ![r] = Totals(BillLines(rows))]
      BY <1>3 DEF Stage
    <2> HIDE DEF rows
    <2>5. Totals(BillLines(rows)) \in SoundTotals
      BY <2>2, <2>3, <2>4, BillSound
    <2> QED
      BY <1>0, <2>4, <2>5
  <1>4. ASSUME NEW r \in Requests, Commit(r) \/ Fail(r) \/ Abort(r) PROVE Sound'
    <2>1. Finish(r) /\ (bill' = bill \/ bill' = sums[r])
      BY <1>4 DEF Commit, CommitItem, CommitItemMove, CommitVisitMove, CommitUpdate,
                  CommitMarkPaid, Fail, Abort
    <2> QED
      BY <1>0, <1>a, <2>1
  <1>5. ASSUME UNCHANGED vars PROVE Sound'
    BY <1>0, <1>5 DEF vars
  <1>6. Sound'
    BY <1>1, <1>2, <1>3, <1>4, <1>5 DEF Next
  <1> QED
    BY <1>0, <1>6 DEF TotalsInv

\* No interleaving of item writes leaves a negative total, totals that
\* contradict each other or that overflow their columns, even where the sum
\* that recalculate stores is out of date (visits.service.ts:581).
THEOREM MoneySoundHolds == Spec => []MoneySound
  <1>1. TotalsInv => MoneySound
    BY DEF TotalsInv, MoneyInv, SoundTotals, MoneySound, ItemMoney, TypeInv, TypeOK, Present
  <1> QED
    BY InitTotalsInv, StepTotalsInv, <1>1, PTL DEF Spec

-----------------------------------------------------------------------------
(* Payments.                                                               *)

PaymentInv == HistoryInv /\ PaymentAudited

\* Only markPaid's transaction writes a payment.
LEMMA OtherPaymentSteps ==
  ASSUME NEW r \in Requests,
         Check(r) \/ Stage(r) \/ Commit(r) \/ Fail(r) \/ Abort(r), ~ CommitMarkPaid(r), TypeInv
  PROVE  /\ visit'.payment = visit.payment /\ visit'.paidBy = visit.paidBy
         /\ payments' = payments
  <1>1. CASE Check(r)
    BY <1>1, CheckRemembers DEF TypeInv, Remembered, Keep
  <1>2. CASE CommitVisitMove(r)
    BY <1>2 DEF CommitVisitMove, TypeInv, TypeOK, VisitRows
  <1>3. CASE CommitUpdate(r)
    BY <1>3 DEF CommitUpdate, TypeInv, TypeOK, VisitRows
  <1>4. CASE Stage(r) \/ CommitItem(r) \/ CommitItemMove(r) \/ Fail(r) \/ Abort(r)
    BY <1>4 DEF Stage, CommitItem, CommitItemMove, Fail, Abort
  <1> QED
    BY <1>1, <1>2, <1>3, <1>4 DEF Commit

LEMMA CreatePayment ==
  ASSUME PaymentInv, CreateVisit
  PROVE  /\ visit.payment = "UNPAID" /\ visit'.payment = "UNPAID" /\ visit'.paidBy = None
         /\ payments' = payments
  BY DEF CreateVisit, Create, PaymentInv, HistoryInv, Fresh, NoVisit

LEMMA MarkPaidPayment ==
  ASSUME TypeInv, NEW r \in Requests, CommitMarkPaid(r)
  PROVE  /\ visit.payment = "UNPAID" /\ visit'.payment = "PAID"
         /\ visit'.paidBy = req[r].actor
         /\ payments' = Append(payments, [by |-> req[r].actor, total |-> sums[r].total])
  BY DEF CommitMarkPaid, TypeInv, TypeOK, VisitRows

LEMMA StepPaymentInv == PaymentInv /\ [Next]_vars => PaymentInv'
  <1> SUFFICES ASSUME PaymentInv, [Next]_vars PROVE PaymentInv'
    OBVIOUS
  <1>1. HistoryInv'
    BY StepHistoryInv DEF PaymentInv
  <1>2. CASE CreateVisit
    BY <1>1, <1>2, CreatePayment DEF PaymentInv, PaymentAudited
  <1>3. ASSUME NEW r \in Requests, CommitMarkPaid(r) PROVE PaymentInv'
    <2> DEFINE receipt == [by |-> req[r].actor, total |-> sums[r].total]
    <2>1. payments' = Append(payments, receipt) /\ payments = <<>>
          /\ visit'.payment = "PAID" /\ visit'.paidBy = req[r].actor
      BY <1>3, MarkPaidPayment DEF PaymentInv, HistoryInv, PaymentAudited
    <2>2. payments' = <<receipt>>
      BY <2>1
    <2> HIDE DEF receipt
    <2>3. Len(payments') = 1 /\ payments'[1] = receipt
      BY <2>2
    <2>4. receipt.by = visit'.paidBy
      BY <2>1 DEF receipt
    <2> QED
      BY <1>1, <2>1, <2>3, <2>4 DEF PaymentInv, PaymentAudited
  <1>4. ASSUME NEW r \in Requests, ~ CommitMarkPaid(r),
               Check(r) \/ Stage(r) \/ Commit(r) \/ Fail(r) \/ Abort(r)
        PROVE PaymentInv'
    BY <1>1, <1>4, OtherPaymentSteps DEF PaymentInv, HistoryInv, PaymentAudited
  <1>5. CASE UNCHANGED vars
    BY <1>1, <1>5 DEF vars, PaymentInv, PaymentAudited
  <1> QED
    BY <1>2, <1>3, <1>4, <1>5 DEF Next

LEMMA InitPaymentInv == Init => PaymentInv
  BY InitHistoryInv DEF Init, NoVisit, PaymentInv, PaymentAudited

\* A visit is paid exactly when the audit log holds one payment of it, by the
\* user the visit names.
THEOREM PaymentAuditedHolds == Spec => []PaymentAudited
  <1>1. PaymentInv => PaymentAudited
    BY DEF PaymentInv
  <1> QED
    BY InitPaymentInv, StepPaymentInv, <1>1, PTL DEF Spec

\* A recorded payment is final: concurrent markPaid requests, late transitions
\* and crashes never undo, repeat or reassign it.
THEOREM PaymentFinalHolds == Spec => PaymentFinal
  <1> DEFINE Final == visit.payment = "PAID" =>
                        visit'.payment = "PAID" /\ visit'.paidBy = visit.paidBy
                        /\ payments' = payments
  <1>1. ASSUME PaymentInv, [Next]_vars PROVE [Final]_vars
    <2>1. CASE CreateVisit
      BY <1>1, <2>1, CreatePayment
    <2>2. ASSUME NEW r \in Requests, CommitMarkPaid(r) PROVE Final
      BY <1>1, <2>2, MarkPaidPayment DEF PaymentInv, HistoryInv
    <2>3. ASSUME NEW r \in Requests, ~ CommitMarkPaid(r),
                 Check(r) \/ Stage(r) \/ Commit(r) \/ Fail(r) \/ Abort(r)
          PROVE Final
      BY <1>1, <2>3, OtherPaymentSteps DEF PaymentInv, HistoryInv
    <2> QED
      BY <1>1, <2>1, <2>2, <2>3 DEF Next
  <1> QED
    BY InitPaymentInv, StepPaymentInv, <1>1, PTL DEF Spec, PaymentFinal

-----------------------------------------------------------------------------
(* Row locks.                                                              *)

RowInv == TypeInv /\ RowLocked

LEMMA StepRowInv == RowInv /\ [Next]_vars => RowInv'
  <1> SUFFICES ASSUME RowInv, [Next]_vars PROVE RowInv'
    OBVIOUS
  <1>1. TypeInv'
    BY StepTypeInv DEF RowInv
  <1>2. ASSUME req' = req PROVE RowLocked'
    BY <1>2 DEF RowInv, RowLocked
  <1>3. ASSUME NEW r \in Requests, ~ req'[r].staged,
               \A s \in Requests \ {r} : req'[s] = req[s]
        PROVE  RowLocked'
    BY <1>3 DEF RowInv, RowLocked
  <1>4. ASSUME CreateVisit PROVE RowLocked'
    BY <1>2, <1>4 DEF CreateVisit, Create
  <1>5. ASSUME NEW r \in Requests, Check(r) PROVE RowLocked'
    <2>1. PICK q : Remembered(r, q)
      BY <1>5, CheckRemembers DEF RowInv, TypeInv
    <2> QED
      BY <2>1, <1>3 DEF Remembered, Keep, Remember, RowInv, TypeInv, TypeOK
  <1>6. ASSUME NEW r \in Requests, Stage(r) PROVE RowLocked'
    <2>1. req' = [req EXCEPT ![r] = [req[r] EXCEPT !.staged = TRUE]] /\ LockFree(r)
      BY <1>6 DEF Stage, Remember
    <2>2. /\ req'[r].item = req[r].item
          /\ \A s \in Requests \ {r} : req'[s] = req[s]
      BY <2>1 DEF RowInv, TypeInv, TypeOK, RequestRows
    <2> QED
      BY <2>1, <2>2 DEF LockFree, RowInv, RowLocked
  <1>7. ASSUME NEW r \in Requests, Commit(r) \/ Fail(r) \/ Abort(r) PROVE RowLocked'
    <2>1. Finish(r)
      BY <1>7 DEF Commit, CommitItem, CommitItemMove, CommitVisitMove, CommitUpdate,
                  CommitMarkPaid, Fail, Abort
    <2> QED
      BY <2>1, <1>3 DEF Finish, Idle, RowInv, TypeInv, TypeOK
  <1>8. ASSUME UNCHANGED vars PROVE RowLocked'
    BY <1>2, <1>8 DEF vars
  <1> QED
    BY <1>1, <1>4, <1>5, <1>6, <1>7, <1>8 DEF Next, RowInv

\* No two transactions ever hold the row of the same item.
THEOREM RowLockedHolds == Spec => []RowLocked
  <1>1. Init => RowInv
    BY InitTypeInv DEF Init, Idle, RowInv, RowLocked
  <1>2. RowInv => RowLocked
    BY DEF RowInv
  <1> QED
    BY <1>1, StepRowInv, <1>2, PTL DEF Spec

-----------------------------------------------------------------------------
(* One request at a time, of any number of them.                           *)

\* At most one request is being served.
OneAtATime == \A r, s \in Requests : r # s => req[r] = Idle \/ req[s] = Idle

\* What the request being served read is still so, and the totals it has
\* computed are those of the items as it will leave them.
CurrentAt(r) ==
    /\ req[r].op = "read" => req[r].seen = visit.status
    /\ req[r].op \in ItemOps => visit.status \in Editable
    /\ req[r].op \in VisitMoves => visit.status \in VisitFrom(req[r].op)
    /\ req[r].op = "complete" => CanComplete(items)
    /\ req[r].op \in ItemMoves => req[r].item \in Active(items)
    /\ req[r].op = "markPaid" => visit.status = "COMPLETED" /\ visit.payment = "UNPAID"
                                  /\ sums[r] = bill
    /\ req[r].staged => sums[r] = Totals(BillLines(ItemsWith(req[r])))

Current == \A r \in Requests : CurrentAt(r)

SerialInv ==
    /\ PaymentInv
    /\ DOMAIN sums = Requests
    /\ TotalsMatch
    /\ CompletedWork
    /\ Current

\* Starting or completing an item leaves the bill as it is.
LEMMA SameBill ==
  ASSUME TypeInv, NEW i \in Active(items), NEW new \in ItemRows,
         new.status \in ItemStatus \ {"CANCELLED"},
         new.price = items[i].price, new.discount = items[i].discount
  PROVE  BillLines([items EXCEPT ![i] = new]) = BillLines(items)
  <1> DEFINE after == [items EXCEPT ![i] = new]
  <1>1. DOMAIN after = ItemIds /\ DOMAIN items = ItemIds /\ i \in ItemIds
        /\ items[i].status \in ItemStatus \ {"CANCELLED"}
    BY DEF TypeInv, TypeOK, Active, Present
  <1>2. after[i] = new /\ \A j \in ItemIds \ {i} : after[j] = items[j]
    BY <1>1
  <1> HIDE DEF after
  <1>3. Active(after) = Active(items)
    BY <1>1, <1>2 DEF Active, Present
  <1>4. \A j \in Active(items) : j \in ItemIds
    BY <1>1 DEF Active, Present
  <1>5. \A j \in Active(items) : /\ after[j].price = items[j].price
                                 /\ after[j].discount = items[j].discount
    BY <1>2, <1>4
  <1>6. BillLines(after) = BillLines(items)
    BY <1>3, <1>5 DEF BillLines
  <1> QED
    BY <1>6 DEF after

\* Reading and staging change nothing for others.
LEMMA OthersCurrent ==
  ASSUME UNCHANGED <<visit, items, bill>>, NEW s \in Requests, CurrentAt(s),
         req'[s] = req[s], sums'[s] = sums[s]
  PROVE  CurrentAt(s)'
  <1>1. (ItemsWith(req[s]))' = ItemsWith(req[s])
    BY DEF ItemsWith, Written, Edited, Deletes
  <1>2. (Totals(BillLines(ItemsWith(req[s]))))' = Totals(BillLines(ItemsWith(req[s])))
    BY <1>1
  <1>3. (Active(items))' = Active(items) /\ CanComplete(items)' = CanComplete(items)
    BY DEF Active, Present, CanComplete
  <1> QED
    BY <1>2, <1>3 DEF CurrentAt

LEMMA InitSerialInv == Init => SerialInv
  <1> SUFFICES ASSUME Init PROVE SerialInv
    OBVIOUS
  <1>1. DOMAIN sums = Requests
    BY DEF Init
  <1>2. TotalsMatch /\ CompletedWork
    BY DEF Init, NoVisit, TotalsMatch, CompletedWork
  <1>3. Current
    BY DEF Init, Current, CurrentAt, Idle, ItemOps, Recalculating, ItemMoves, VisitMoves
  <1> QED
    BY <1>1, <1>2, <1>3, InitPaymentInv DEF SerialInv

\* Whoever commits or fails was being served.
LEMMA EndsBusy ==
  ASSUME NEW r \in Requests, Commit(r) \/ Fail(r) \/ Abort(r)
  PROVE  req[r] # Idle
  BY DEF Commit, CommitItem, CommitItemMove, CommitVisitMove, CommitUpdate, CommitMarkPaid,
         Fail, Abort, Idle, ItemOps, Recalculating, ItemMoves, VisitMoves

\* Once the only request being served is answered nothing is remembered.
LEMMA FinishCurrent ==
  ASSUME OneAtATime, TypeInv, NEW r \in Requests, req[r] # Idle, Finish(r),
         DOMAIN sums = Requests
  PROVE  Current' /\ DOMAIN sums' = Requests
  <1>1. \A s \in Requests : req'[s] = Idle
    BY DEF Finish, OneAtATime, TypeInv, TypeOK
  <1>2. Current'
    BY <1>1 DEF Current, CurrentAt, Idle, ItemOps, Recalculating, ItemMoves, VisitMoves
  <1> QED
    BY <1>2 DEF Finish

LEMMA StepSerialInv ==
  ASSUME OneAtATime, SerialInv, [Next]_vars
  PROVE  SerialInv'
  <1> DEFINE Kept == /\ DOMAIN sums' = Requests
                     /\ TotalsMatch' /\ CompletedWork' /\ Current'
  <1>0. TypeInv /\ TypeInv'
    BY StepTypeInv DEF SerialInv, PaymentInv, HistoryInv
  <1>1. ASSUME CreateVisit PROVE Kept
    <2>1. /\ visit'.status \in Editable /\ bill' = Totals(BillLines(items'))
          /\ req' = req /\ sums' = sums /\ visit.status = "NONE"
      BY <1>1 DEF CreateVisit, Create, NoVisit
    <2>2. \A r \in Requests : req'[r] = Idle
      BY <2>1 DEF SerialInv, PaymentInv, HistoryInv, Fresh
    <2>3. Current'
      BY <2>2 DEF Current, CurrentAt, Idle, ItemOps, Recalculating, ItemMoves, VisitMoves
    <2> QED
      BY <2>1, <2>3 DEF SerialInv, TotalsMatch, CompletedWork, Editable
  <1>2. ASSUME NEW r \in Requests, Check(r) PROVE Kept
    <2>1. PICK q : Remembered(r, q)
      BY <1>2, CheckRemembers, <1>0 DEF TypeInv
    <2>2. /\ visit' = visit /\ items' = items /\ bill' = bill
          /\ req' = [req EXCEPT ![r] = q]
      BY <2>1 DEF Remembered, Keep, Remember
    <2>3. req'[r] = q /\ \A s \in Requests \ {r} : req'[s] = req[s] /\ sums'[s] = sums[s]
      BY <2>1, <2>2, <1>0 DEF Remembered, SerialInv, TypeInv, TypeOK
    <2>4. DOMAIN sums' = Requests /\ (q.op = "markPaid" => sums'[r] = bill)
      BY <2>1 DEF Remembered, SerialInv
    <2>0. Seen(r) = visit.status
      BY DEF Seen, SerialInv, Current, CurrentAt
    <2>5. CurrentAt(r)'
      BY <2>0, <2>1, <2>2, <2>3, <2>4 DEF Remembered, CurrentAt
    <2>6. Current'
      BY <2>2, <2>3, <2>5, OthersCurrent DEF SerialInv, Current, CurrentAt
    <2> QED
      BY <2>2, <2>4, <2>6 DEF SerialInv, TotalsMatch, CompletedWork
  <1>3. ASSUME NEW r \in Requests, Stage(r) PROVE Kept
    <2> DEFINE q == [req[r] EXCEPT !.staged = TRUE]
    <2>1. /\ visit' = visit /\ items' = items /\ bill' = bill
          /\ req' = [req EXCEPT ![r] = q]
          /\ sums' = [sums EXCEPT ![r] = Totals(BillLines(ItemsWith(req[r])))]
          /\ req[r].op \in Recalculating
      BY <1>3 DEF Stage, Remember
    <2>2. /\ q.op = req[r].op /\ q.item = req[r].item /\ q.line = req[r].line
          /\ q.reassign = req[r].reassign /\ q.draft = req[r].draft
      BY <1>0 DEF TypeInv, TypeOK, RequestRows
    <2> HIDE DEF q
    <2>3. /\ req'[r] = q
          /\ \A s \in Requests \ {r} : req'[s] = req[s] /\ sums'[s] = sums[s]
      BY <2>1, <1>0 DEF SerialInv, TypeInv, TypeOK
    <2>4. ItemsWith(q) = ItemsWith(req[r])
      BY <2>2 DEF ItemsWith, Written, Edited, Deletes
    <2>5. (ItemsWith(req[r]))' = ItemsWith(q)
      <3>1. req'[r] = q /\ items' = items
        BY <2>1, <2>3
      <3> QED
        BY <3>1 DEF ItemsWith, Written, Edited, Deletes
    <2>6. CurrentAt(r)'
      <3>1. /\ req'[r].op \in ItemOps => visit'.status \in Editable
            /\ req'[r].op \notin VisitMoves \cup {"markPaid"}
            /\ req'[r].op \in ItemMoves => req'[r].item \in Active(items)
        BY <2>1, <2>2, <2>3 DEF SerialInv, Current, CurrentAt, Recalculating, VisitMoves
      <3>2. (Active(items))' = Active(items)
        BY <2>1 DEF Active, Present
      <3>3. sums'[r] = Totals(BillLines(ItemsWith(q)))
        BY <2>1, <2>4 DEF SerialInv
      <3>4. (Totals(BillLines(ItemsWith(req[r]))))' = Totals(BillLines(ItemsWith(q)))
        BY <2>5
      <3>5. req'[r].op # "read"
        BY <2>1, <2>2, <2>3 DEF Recalculating
      <3> QED
        BY <3>1, <3>2, <3>3, <3>4, <3>5 DEF CurrentAt, VisitMoves
    <2>7. Current'
      BY <2>1, <2>3, <2>6, OthersCurrent DEF SerialInv, Current, CurrentAt
    <2> QED
      BY <2>1, <2>7 DEF SerialInv, TotalsMatch, CompletedWork
  \* A transaction that leaves the items alone, or their bill.
  <1>4. ASSUME NEW r \in Requests, Commit(r) \/ Fail(r) \/ Abort(r), Finish(r),
               TotalsMatch', CompletedWork'
        PROVE Kept
    BY <1>0, <1>4, EndsBusy, FinishCurrent DEF SerialInv
  <1>5. ASSUME NEW r \in Requests, CommitItem(r) PROVE Kept
    <2>1. items' = ItemsWith(req[r]) /\ bill' = sums[r] /\ Finish(r) /\ visit' = visit
      BY <1>5 DEF CommitItem
    <2>2. bill' = Totals(BillLines(items'))
      BY <1>5, <2>1 DEF CommitItem, SerialInv, Current, CurrentAt
    <2>3. visit.status \in Editable
      BY <1>5, <1>0 DEF CommitItem, SerialInv, Current, CurrentAt, TypeInv, Shape, ItemOps
    <2> QED
      BY <1>4, <1>5, <2>1, <2>2, <2>3 DEF Commit, TotalsMatch, CompletedWork, Editable
  <1>6. ASSUME NEW r \in Requests, CommitItemMove(r) PROVE Kept
    <2> DEFINE i == req[r].item
               new == Written(req[r], items[i])
    <2>1. /\ items' = [items EXCEPT ![i] = new] /\ bill' = bill /\ Finish(r)
          /\ visit' = visit /\ req[r].op \in {"startItem", "completeItem"}
      BY <1>6 DEF CommitItemMove, ItemsWith, ItemMoves, Recalculating
    <2>2. i \in Active(items) /\ visit.status \in Editable
      BY <2>1 DEF SerialInv, Current, CurrentAt, ItemMoves, ItemOps
    <2>3. items[i] \in ItemRows
      BY <2>2, <1>0 DEF TypeInv, TypeOK, Active, Present
    <2>4. /\ new \in ItemRows /\ new.status \in {"IN_PROGRESS", "COMPLETED"}
          /\ new.price = items[i].price /\ new.discount = items[i].discount
      BY <2>1, <2>3 DEF Written, Deletes, ItemTarget, ItemRows, ItemStatus
    <2>5. BillLines(items') = BillLines(items)
      BY <2>1, <2>2, <2>4, <1>0, SameBill DEF ItemStatus
    <2> QED
      BY <1>4, <1>6, <2>1, <2>2, <2>5 DEF Commit, SerialInv, TotalsMatch, CompletedWork, Editable
  <1>7. ASSUME NEW r \in Requests, CommitVisitMove(r) PROVE Kept
    <2>1. /\ items' = items /\ bill' = bill /\ Finish(r) /\ req[r].op \in VisitMoves
          /\ visit'.status = VisitTarget(req[r].op)
      BY <1>7, <1>0 DEF CommitVisitMove, TypeInv, TypeOK, VisitRows
    <2>2. visit.status # "NONE" /\ (req[r].op = "complete" => CanComplete(items))
      BY <2>1 DEF SerialInv, Current, CurrentAt, VisitFrom, Editable
    <2> QED
      BY <1>4, <1>7, <2>1, <2>2 DEF Commit, SerialInv, TotalsMatch, CompletedWork, VisitTarget, VisitMoves
  <1>8. ASSUME NEW r \in Requests, CommitUpdate(r) \/ CommitMarkPaid(r) \/ Fail(r) \/ Abort(r)
        PROVE Kept
    <2>1. items' = items /\ bill' = bill /\ Finish(r) /\ visit'.status = visit.status
      BY <1>8, <1>0
      DEF CommitUpdate, CommitMarkPaid, Fail, Abort, TypeInv, TypeOK, VisitRows
    <2> QED
      BY <1>4, <1>8, <2>1 DEF Commit, SerialInv, TotalsMatch, CompletedWork
  <1>9. ASSUME UNCHANGED vars PROVE Kept
    BY <1>9 DEF vars, SerialInv, TotalsMatch, CompletedWork, Current, CurrentAt, ItemsWith, Written,
                Edited, Deletes
  <1>10. Kept
    BY <1>1, <1>2, <1>3, <1>5, <1>6, <1>7, <1>8, <1>9 DEF Next, Commit
  <1> QED
    BY <1>10, StepPaymentInv DEF SerialInv

\* As long as no two requests are served at once, the stored totals are those of
\* the items that are not cancelled: every handler that changes a price, a
\* discount or the set of active items recalculates, and no other has to
\* (visits.service.ts:581).
THEOREM SerialTotals ==
    Spec /\ []OneAtATime => []TotalsMatch
  <1>1. SerialInv /\ OneAtATime /\ [Next]_vars => SerialInv'
    BY StepSerialInv
  <1>2. SerialInv => TotalsMatch
    BY DEF SerialInv
  <1> QED
    BY InitSerialInv, <1>1, <1>2, PTL DEF Spec

\* As long as no two requests are served at once, a completed visit has a
\* treatment and all that were not cancelled are completed, for ever after
\* (visits.service.ts:371).
THEOREM SerialCompletion ==
    Spec /\ []OneAtATime => []CompletedWork
  <1>1. SerialInv /\ OneAtATime /\ [Next]_vars => SerialInv'
    BY StepSerialInv
  <1>2. SerialInv => CompletedWork
    BY DEF SerialInv
  <1> QED
    BY InitSerialInv, <1>1, <1>2, PTL DEF Spec

-----------------------------------------------------------------------------
(* The life cycle.                                                         *)

\* Only markPaid writes a receipt, and only once.
LEMMA ReceiptSteps ==
  ASSUME SerialInv, payments' = payments
  PROVE  Receipt' = Receipt
  BY DEF Receipt

LEMMA LifecycleStep ==
  ASSUME OneAtATime, SerialInv, [Next]_vars
  PROVE  [Lifecycle!Next]_(Lifecycle!lifecycleVars)
  <1> DEFINE Step == [Lifecycle!Next]_(Lifecycle!lifecycleVars)
  <1> USE DEF Lifecycle!Next, Lifecycle!lifecycleVars
  <1>0. TypeInv /\ TypeInv' /\ SerialInv'
    BY StepSerialInv, StepTypeInv DEF SerialInv, PaymentInv, HistoryInv
  \* Whatever the items are, the total of their bill is one a visit can have.
  <1>a. ASSUME bill' = Totals(BillLines(items')) PROVE bill'.total \in BillTotals
    <2>1. items' \in [ItemIds -> ItemRows]
      BY <1>0 DEF TypeInv, TypeOK
    <2> DEFINE lines == BillLines(items')
               billed == Active(items')
    <2>2. billed \in SUBSET ItemIds
      BY <2>1 DEF Active, Present
    <2>3. lines \in [billed -> MoneyRows]
      BY <2>1, <2>2 DEF BillLines, MoneyRows, ItemRows
    <2> QED
      BY <2>2, <2>3, <1>a DEF BillTotals
  <1>1. ASSUME CreateVisit PROVE Step
    <2>1. /\ visit.status = "NONE" /\ visit'.status \in Editable
          /\ bill' = Totals(BillLines(items')) /\ payments' = payments
      BY <1>1 DEF CreateVisit, Create, NoVisit
    <2> QED
      BY <2>1, <1>a, ReceiptSteps DEF Lifecycle!Open, Editable
  <1>2. ASSUME NEW r \in Requests, Check(r) \/ Stage(r) \/ CommitItemMove(r) \/ CommitUpdate(r)
                                   \/ Fail(r) \/ Abort(r)
        PROVE Step
    <2>1. visit'.status = visit.status /\ bill' = bill /\ payments' = payments
      <3>1. CASE Check(r)
        BY <3>1, <1>0, CheckRemembers DEF TypeInv, Remembered, Keep
      <3> QED
        BY <1>2, <3>1, <1>0
        DEF Stage, CommitItemMove, CommitUpdate, Fail, Abort, TypeInv, TypeOK, VisitRows
    <2> QED
      BY <2>1, ReceiptSteps
  <1>3. ASSUME NEW r \in Requests, CommitItem(r) PROVE Step
    <2>1. visit.status \in Editable /\ visit' = visit /\ payments' = payments
      BY <1>3, <1>0 DEF CommitItem, SerialInv, Current, CurrentAt, TypeInv, Shape, ItemOps
    <2>2. bill' = Totals(BillLines(items'))
      BY <2>1, <1>0 DEF SerialInv, TotalsMatch, Editable
    <2> QED
      BY <2>1, <2>2, <1>a, ReceiptSteps DEF Lifecycle!Edit, Editable
  <1>4. ASSUME NEW r \in Requests, CommitVisitMove(r) PROVE Step
    <2>1. /\ bill' = bill /\ payments' = payments /\ req[r].op \in VisitMoves
          /\ visit'.status = VisitTarget(req[r].op)
      BY <1>4, <1>0 DEF CommitVisitMove, TypeInv, TypeOK, VisitRows
    <2>2. visit.status \in VisitFrom(req[r].op)
      BY <2>1 DEF SerialInv, Current, CurrentAt
    <2> QED
      BY <2>1, <2>2, ReceiptSteps
      DEF VisitMoves, VisitFrom, VisitTarget, Editable,
          Lifecycle!Start, Lifecycle!Complete, Lifecycle!Cancel
  <1>5. ASSUME NEW r \in Requests, CommitMarkPaid(r) PROVE Step
    <2>1. /\ visit.payment = "UNPAID" /\ visit'.status = visit.status /\ bill' = bill
          /\ payments' = Append(payments, [by |-> req[r].actor, total |-> sums[r].total])
      BY <1>5, <1>0 DEF CommitMarkPaid, TypeInv, TypeOK, VisitRows
    <2>2. visit.status = "COMPLETED" /\ sums[r] = bill
      BY <1>5 DEF CommitMarkPaid, SerialInv, Current, CurrentAt
    <2>3. payments = <<>>
      BY <2>1 DEF SerialInv, PaymentInv, PaymentAudited
    <2> DEFINE receipt == [by |-> req[r].actor, total |-> sums[r].total]
    <2>4. receipt.total = bill.total
      BY <2>2
    <2>5. payments' = Append(<<>>, receipt)
      BY <2>1, <2>3
    <2> HIDE DEF receipt
    <2>6. Receipt = None /\ Receipt' = bill.total
      BY <2>3, <2>4, <2>5 DEF Receipt
    <2> QED
      BY <2>1, <2>2, <2>6 DEF Lifecycle!Pay
  <1>6. ASSUME UNCHANGED vars PROVE Step
    BY <1>6, ReceiptSteps DEF vars
  <1> QED
    BY <1>1, <1>2, <1>3, <1>4, <1>5, <1>6 DEF Next, Commit

\* As long as no two requests are served at once, VisitsService implements the
\* life cycle of a visit: its total stands once it is completed or cancelled, and
\* the single receipt is for that total (visits.service.ts:371-398, 493-505).
THEOREM SerialRefinement ==
    Spec /\ []OneAtATime => LifecycleSpec
  <1>1. Init => Lifecycle!Init
    BY DEF Init, Lifecycle!Init, NoVisit, ZeroTotals, Receipt
  <1>2. SerialInv /\ OneAtATime /\ [Next]_vars => SerialInv'
    BY StepSerialInv
  <1>3. SerialInv /\ OneAtATime /\ [Next]_vars => [Lifecycle!Next]_(Lifecycle!lifecycleVars)
    BY LifecycleStep
  <1> QED
    BY InitSerialInv, <1>1, <1>2, <1>3, PTL DEF Spec, LifecycleSpec, Lifecycle!Spec
==============================================================================
