--------------------------- MODULE OrderBookProofs ---------------------------
(***************************************************************************)
(* Theorems about one book, for every number of levels, orders and prices  *)
(* and for both values of the template parameter.                          *)
(*                                                                         *)
(* Each operation of the book has a lemma of its own that does not mention *)
(* BookNext, so that it also serves whoever calls the operation.           *)
(***************************************************************************)
EXTENDS OrderBook, FiniteSetTheorems, FunctionTheorems, TLAPS

(* A level whose entry c is replaced keeps its length and other entries.   *)
LEMMA ReplaceEntry ==
  ASSUME NEW s \in Seq(Entry), NEW c \in DOMAIN s, NEW e \in Entry
  PROVE  LET t == [s EXCEPT ![c] = e] IN
         /\ t \in Seq(Entry)
         /\ Len(t) = Len(s) /\ DOMAIN t = DOMAIN s
         /\ \A d \in DOMAIN s : d # c => t[d] = s[d]
         /\ t[c] = e
OBVIOUS

(* A level with one more entry at its end.                                 *)
LEMMA PushBack ==
  ASSUME NEW s \in Seq(Entry), NEW o \in Entry, NEW t, t = Append(s, o)
  PROVE  /\ t \in Seq(Entry)
         /\ Len(s) \in Nat
         /\ DOMAIN s = 1 .. Len(s)
         /\ Len(t) = Len(s) + 1 /\ DOMAIN t = 1 .. Len(s) + 1
         /\ \A d \in 1 .. Len(s) : t[d] = s[d]
         /\ t[Len(s) + 1] = o
OBVIOUS

(* The entries of a level have the types of their fields.                  *)
LEMMA EntryFields ==
  ASSUME NEW s \in Seq(Entry), NEW c \in DOMAIN s
  PROVE  s[c] \in Entry /\ s[c].system_id \in Ids /\ s[c].price \in Prices
         /\ s[c].quantity \in Nat
<1>1. s[c] \in Entry
  OBVIOUS
<1> QED BY <1>1 DEF Entry

(* The types as each operation on its own keeps them.  That a count never  *)
(* goes below zero needs CountsMatchLUT: a level is deleted from only when *)
(* an order is placed in it.                                               *)
BookShape ==
  /\ best_price \in 0 .. MaxPrice
  /\ book \in [Levels -> Seq(Entry)]
  /\ LUT \in [Ids -> (Levels \X (Nat \ {0})) \cup {NoSlot}]
  /\ active_counts \in [Levels -> Int]

(* createOrder of an id that does not rest: types and index are kept.      *)
LEMMA CreateOrderKeepsIndex ==
  ASSUME BookShape, IndexConsistent, NEW o \in Entry,
         ~ Resting(o.system_id), CreateOrder(o)
  PROVE  BookShape' /\ IndexConsistent'
<1> DEFINE p == PriceIndex[o.price]
           id == o.system_id
           col == Len(book[p]) + 1
<1> USE OrderBookAssumption DEF BookShape
<1>0. o.price \in Prices /\ id \in Ids /\ p \in Levels
  BY DEF Entry, CreateOrder
<1>1. book[p] \in Seq(Entry) /\ book'[p] = Append(book[p], o)
      /\ (\A q \in Levels \ {p} : book'[q] = book[q])
      /\ book' = [book EXCEPT ![p] = Append(book[p], o)]
  BY <1>0 DEF CreateOrder
<1>2. /\ book'[p] \in Seq(Entry) /\ Len(book[p]) \in Nat
      /\ DOMAIN book[p] = 1 .. Len(book[p]) /\ DOMAIN book'[p] = 1 .. col
      /\ \A d \in 1 .. Len(book[p]) : book'[p][d] = book[p][d]
      /\ book'[p][col] = o
  BY <1>1, PushBack
<1>3. LUT' = [LUT EXCEPT ![id] = <<p, col>>]
  BY DEF CreateOrder
<1>4. LUT'[id] = <<p, col>> /\ \A i \in Ids \ {id} : LUT'[i] = LUT[i]
  BY <1>0, <1>3
<1>5. BookShape'
  <2>1. best_price' \in 0 .. MaxPrice
    BY <1>0 DEF CreateOrder, Levels
  <2>2. book' \in [Levels -> Seq(Entry)]
    BY <1>0, <1>1, <1>2
  <2>3. LUT' \in [Ids -> (Levels \X (Nat \ {0})) \cup {NoSlot}]
    BY <1>0, <1>2, <1>3
  <2>4. active_counts' \in [Levels -> Int]
    BY <1>0 DEF CreateOrder
  <2> QED BY <2>1, <2>2, <2>3, <2>4
<1>6. SlotsLeadHome'
  <2> SUFFICES ASSUME NEW i \in Ids, Resting(i)'
               PROVE  /\ LUT'[i][2] \in DOMAIN book'[LUT'[i][1]]
                      /\ PeekOrder(i)'.system_id = i
    BY DEF SlotsLeadHome
  <2>1. CASE i = id
    <3>1. LUT'[i][1] = p /\ LUT'[i][2] = col
      BY <1>4, <2>1
    <3>2. col \in DOMAIN book'[p]
      BY <1>2
    <3>3. PeekOrder(i)' = o
      BY ONLY Zenon, <1>2, <3>1 DEF PeekOrder, EntryAt
    <3> QED BY ONLY Zenon, <2>1, <3>1, <3>2, <3>3
  <2>2. CASE i # id
    <3>1. Resting(i) /\ LUT'[i] = LUT[i]
      BY <1>4, <2>2 DEF Resting
    <3>2. PICK l, c : /\ l = LUT[i][1] /\ c = LUT[i][2]
                      /\ l \in Levels /\ c \in DOMAIN book[l] /\ book[l][c].system_id = i
      BY <3>1 DEF IndexConsistent, SlotsLeadHome, Resting, PeekOrder, EntryAt
    <3>3. c \in DOMAIN book'[l] /\ book'[l][c] = book[l][c]
      <4>1. CASE l = p
        <5>1. c \in 1 .. Len(book[p])
          BY ONLY Zenon, <1>2, <3>2, <4>1
        <5>2. c \in 1 .. col
          BY ONLY <1>2, <5>1
        <5> QED BY ONLY Zenon, <1>2, <4>1, <5>1, <5>2
      <4>2. CASE l # p
        BY <1>1, <3>2, <4>2
      <4> QED BY <4>1, <4>2
    <3>4. LUT'[i][1] = l /\ LUT'[i][2] = c /\ PeekOrder(i)' = book'[l][c]
      BY ONLY Zenon, <3>1, <3>2 DEF PeekOrder, EntryAt
    <3> QED BY ONLY Zenon, <3>2, <3>3, <3>4
  <2> QED BY <2>1, <2>2
<1>7. EntriesInTheirLevel'
  <2> SUFFICES ASSUME NEW q \in Levels, NEW c \in DOMAIN book'[q]
               PROVE  PriceIndex[book'[q][c].price] = q
    BY DEF EntriesInTheirLevel
  <2>1. CASE q = p /\ c = col
    BY <1>2, <2>1
  <2>2. CASE ~ (q = p /\ c = col)
    <3>1. c \in DOMAIN book[q] /\ book'[q][c] = book[q][c]
      BY <1>1, <1>2, <2>2
    <3> QED BY <3>1 DEF IndexConsistent, EntriesInTheirLevel
  <2> QED BY <2>1, <2>2
<1>8. LiveEntriesIndexed'
  <2> SUFFICES ASSUME NEW q \in Levels, NEW c \in DOMAIN book'[q],
                      book'[q][c].quantity # 0
               PROVE  LUT'[book'[q][c].system_id] = <<q, c>>
    BY Zenon DEF LiveEntriesIndexed, LiveColumns
  <2>1. CASE q = p /\ c = col
    BY ONLY Zenon, <1>2, <1>4, <2>1
  <2>2. CASE ~ (q = p /\ c = col)
    <3>1. c \in DOMAIN book[q] /\ book'[q][c] = book[q][c] /\ book[q] \in Seq(Entry)
      BY <1>1, <1>2, <2>2
    <3>2. LUT[book[q][c].system_id] = <<q, c>>
      BY <3>1 DEF IndexConsistent, LiveEntriesIndexed, LiveColumns
    <3>5. book[q][c].system_id \in Ids
      BY <3>1, EntryFields
    <3>3. <<q, c>> # NoSlot
      BY DEF NoSlot, Levels
    <3>4. book[q][c].system_id # id
      BY <3>2, <3>3 DEF Resting
    <3> QED BY <1>4, <3>1, <3>2, <3>4, <3>5
  <2> QED BY <2>1, <2>2
<1> QED BY <1>5, <1>6, <1>7, <1>8 DEF IndexConsistent

(* An entry of a level is given another quantity, in place: types and the  *)
(* index are kept, if a live entry stays the one its slot leads to.        *)
LEMMA InPlaceKeepsIndex ==
  ASSUME BookShape, IndexConsistent,
         NEW id \in Ids, Resting(id), NEW n \in Nat,
         book' = [book EXCEPT ![LUT[id][1]][LUT[id][2]].quantity = n],
         LUT' = LUT \/ (n = 0 /\ LUT' = [LUT EXCEPT ![id] = NoSlot])
  PROVE  /\ book' \in [Levels -> Seq(Entry)]
         /\ LUT' \in [Ids -> (Levels \X (Nat \ {0})) \cup {NoSlot}]
         /\ IndexConsistent'
<1> DEFINE p == LUT[id][1]
           col == LUT[id][2]
<1> USE OrderBookAssumption DEF BookShape
<1>0. p \in Levels /\ col \in DOMAIN book[p] /\ LUT[id] = <<p, col>>
      /\ book[p][col].system_id = id /\ book[p] \in Seq(Entry)
  BY DEF IndexConsistent, SlotsLeadHome, Resting, PeekOrder, EntryAt
<1>1. /\ book'[p] = [book[p] EXCEPT ![col].quantity = n]
      /\ \A q \in Levels \ {p} : book'[q] = book[q]
      /\ book' = [book EXCEPT ![p] = [book[p] EXCEPT ![col].quantity = n]]
  BY <1>0
<1>2. /\ book'[p] \in Seq(Entry)
      /\ DOMAIN book'[p] = DOMAIN book[p]
      /\ \A d \in DOMAIN book[p] : d # col => book'[p][d] = book[p][d]
      /\ book'[p][col].system_id = book[p][col].system_id
      /\ book'[p][col].price = book[p][col].price
      /\ book'[p][col].quantity = n
  <2> DEFINE e == [book[p][col] EXCEPT !.quantity = n]
  <2>1. book[p][col] \in Entry
    BY <1>0, EntryFields
  <2>2. /\ e \in Entry /\ e.system_id = book[p][col].system_id
        /\ e.price = book[p][col].price /\ e.quantity = n
    BY <2>1 DEF Entry
  <2>3. book'[p] = [book[p] EXCEPT ![col] = e]
    BY <1>1
  <2>4. /\ book'[p] \in Seq(Entry)
        /\ DOMAIN book'[p] = DOMAIN book[p]
        /\ \A d \in DOMAIN book[p] : d # col => book'[p][d] = book[p][d]
        /\ book'[p][col] = e
    <3>1. book[p] \in Seq(Entry) /\ col \in DOMAIN book[p] /\ e \in Entry
      BY Zenon, <1>0, <2>2
    <3> HIDE DEF e, p, col
    <3> QED BY ONLY <2>3, <3>1, ReplaceEntry
  <2> QED BY <2>2, <2>4
<1>3. book' \in [Levels -> Seq(Entry)]
  BY Zenon, <1>0, <1>1, <1>2
<1>4. LUT' \in [Ids -> (Levels \X (Nat \ {0})) \cup {NoSlot}]
  OBVIOUS
<1>5. \A q \in Levels : DOMAIN book'[q] = DOMAIN book[q]
  BY ONLY Zenon, <1>1, <1>2
<1>6. \A q \in Levels : \A c \in DOMAIN book[q] :
        /\ book'[q][c].system_id = book[q][c].system_id
        /\ book'[q][c].price = book[q][c].price
  BY Zenon, <1>1, <1>2
<1>7. \A q \in Levels : \A c \in DOMAIN book[q] :
        ~ (q = p /\ c = col) => book'[q][c].quantity = book[q][c].quantity
  BY Zenon, <1>1, <1>2
<1>8. \A i \in Ids : i # id => LUT'[i] = LUT[i]
  OBVIOUS
<1>9. SlotsLeadHome'
  <2> SUFFICES ASSUME NEW i \in Ids, Resting(i)'
               PROVE  /\ LUT'[i][2] \in DOMAIN book'[LUT'[i][1]]
                      /\ PeekOrder(i)'.system_id = i
    BY DEF SlotsLeadHome
  <2>1. Resting(i) /\ LUT'[i] = LUT[i]
    BY <1>8 DEF Resting
  <2>2. LUT[i][1] \in Levels /\ LUT[i][2] \in DOMAIN book[LUT[i][1]]
        /\ book[LUT[i][1]][LUT[i][2]].system_id = i
    BY <2>1 DEF IndexConsistent, SlotsLeadHome, Resting, PeekOrder, EntryAt
  <2> QED BY <1>5, <1>6, <2>1, <2>2 DEF PeekOrder, EntryAt
<1>10. EntriesInTheirLevel'
  <2>1. ASSUME NEW q \in Levels, NEW c \in DOMAIN book'[q]
        PROVE  PriceIndex[book'[q][c].price] = q
    <3>1. c \in DOMAIN book[q] /\ book'[q][c].price = book[q][c].price
      BY ONLY Zenon, <1>5, <1>6
    <3>2. PriceIndex[book[q][c].price] = q
      BY Zenon, <3>1 DEF IndexConsistent, EntriesInTheirLevel
    <3> QED BY ONLY Zenon, <3>1, <3>2
  <2> QED BY Zenon, <2>1 DEF EntriesInTheirLevel
<1>11. LiveEntriesIndexed'
  <2> SUFFICES ASSUME NEW q \in Levels, NEW c \in DOMAIN book'[q],
                      book'[q][c].quantity # 0
               PROVE  LUT'[book'[q][c].system_id] = <<q, c>>
    BY Zenon DEF LiveEntriesIndexed, LiveColumns
  <2>1. c \in DOMAIN book[q] /\ book'[q][c].system_id = book[q][c].system_id
    BY ONLY Zenon, <1>5, <1>6
  <2>2. CASE q = p /\ c = col
    <3>1. n # 0
      BY Zenon, <1>2, <2>2
    <3>2. LUT' = LUT
      BY Zenon, <3>1
    <3> QED BY ONLY Zenon, <1>0, <2>1, <2>2, <3>2
  <2>3. CASE ~ (q = p /\ c = col)
    <3>1. LUT[book[q][c].system_id] = <<q, c>>
      BY <1>7, <2>1, <2>3 DEF IndexConsistent, LiveEntriesIndexed, LiveColumns
    <3>2. book[q] \in Seq(Entry)
      OBVIOUS
    <3>3. book[q][c].system_id \in Ids
      BY <2>1, <3>2, EntryFields
    <3>4. book[q][c].system_id # id
      BY <1>0, <2>3, <3>1
    <3> QED BY ONLY Zenon, <1>8, <2>1, <3>1, <3>3, <3>4
  <2> QED BY Zenon, <2>2, <2>3
<1> QED BY <1>3, <1>4, <1>9, <1>10, <1>11 DEF IndexConsistent

(* A larger quantity queues the order again at the back of its level:      *)
(* types and index are kept.                                               *)
LEMMA EnlargeKeepsIndex ==
  ASSUME BookShape, IndexConsistent, NEW o \in Entry,
         Resting(o.system_id), o.price = PeekOrder(o.system_id).price,
         Enlarge(LUT[o.system_id], o)
  PROVE  /\ book' \in [Levels -> Seq(Entry)]
         /\ LUT' \in [Ids -> (Levels \X (Nat \ {0})) \cup {NoSlot}]
         /\ IndexConsistent'
<1> DEFINE id == o.system_id
           p == LUT[id][1]
           col == LUT[id][2]
           back == Len(book[p]) + 1
           e == [book[p][col] EXCEPT !.quantity = 0]
           emptied == [book[p] EXCEPT ![col] = e]
<1> USE OrderBookAssumption DEF BookShape
<1>0. /\ id \in Ids /\ p \in Levels /\ col \in DOMAIN book[p] /\ LUT[id] = <<p, col>>
      /\ book[p][col].system_id = id /\ book[p] \in Seq(Entry)
      /\ PriceIndex[o.price] = p
  <2>1. id \in Ids
    BY DEF Entry
  <2>2. /\ p \in Levels /\ col \in DOMAIN book[p] /\ LUT[id] = <<p, col>>
        /\ book[p][col].system_id = id /\ book[p] \in Seq(Entry)
    <3>1. LUT[id] \in Levels \X (Nat \ {0})
      BY <2>1 DEF Resting
    <3>2. p \in Levels /\ LUT[id] = <<p, col>> /\ book[p] \in Seq(Entry)
      <4>1. p \in Levels /\ LUT[id] = <<p, col>>
        BY ONLY <3>1
      <4> HIDE DEF p
      <4> QED BY Zenon, <4>1
    <3>3. col \in DOMAIN book[p] /\ PeekOrder(id).system_id = id
      BY Zenon, <2>1 DEF IndexConsistent, SlotsLeadHome
    <3> QED BY ONLY Zenon, <3>2, <3>3 DEF PeekOrder, EntryAt
  <2>3. PriceIndex[o.price] = p
    <3>1. o.price = book[p][col].price
      BY Zenon DEF PeekOrder, EntryAt
    <3>2. PriceIndex[book[p][col].price] = p
      BY Zenon, <2>2 DEF IndexConsistent, EntriesInTheirLevel
    <3> QED BY ONLY Zenon, <3>1, <3>2
  <2> QED BY <2>1, <2>2, <2>3
<1>1. /\ e \in Entry /\ e.system_id = id
      /\ e.price = book[p][col].price /\ e.quantity = 0
  <2>1. book[p][col] \in Entry
    BY <1>0, EntryFields
  <2> QED BY Zenon, <1>0, <2>1 DEF Entry
<1>2. /\ emptied \in Seq(Entry)
      /\ Len(emptied) = Len(book[p]) /\ DOMAIN emptied = DOMAIN book[p]
      /\ \A d \in DOMAIN book[p] : d # col => emptied[d] = book[p][d]
      /\ emptied[col] = e
  <2>1. book[p] \in Seq(Entry) /\ col \in DOMAIN book[p] /\ e \in Entry
    BY Zenon, <1>0, <1>1
  <2> HIDE DEF e, p, col
  <2> QED BY ONLY Zenon, <2>1, ReplaceEntry
<1>3. /\ book'[p] = Append(emptied, o)
      /\ \A q \in Levels \ {p} : book'[q] = book[q]
      /\ book' = [book EXCEPT ![p] = Append(emptied, o)]
      /\ LUT' = [LUT EXCEPT ![id] = <<p, back>>]
  BY Zenon, <1>0 DEF Enlarge
<1>4. /\ book'[p] \in Seq(Entry) /\ Len(book[p]) \in Nat
      /\ DOMAIN book[p] = 1 .. Len(book[p]) /\ DOMAIN book'[p] = 1 .. back
      /\ \A d \in DOMAIN book[p] : book'[p][d] = emptied[d]
      /\ book'[p][back] = o
  <2>1. emptied \in Seq(Entry) /\ Len(emptied) = Len(book[p])
        /\ DOMAIN emptied = DOMAIN book[p] /\ book'[p] = Append(emptied, o)
    BY Zenon, <1>2, <1>3
  <2>2. PICK s, t, n : s = emptied /\ t = book'[p] /\ n = Len(book[p])
    BY Zenon
  <2> HIDE DEF emptied, p, col, e
  <2>3. s \in Seq(Entry) /\ o \in Entry /\ t = Append(s, o) /\ Len(s) = n
    BY ONLY Zenon, <2>1, <2>2
  <2>4. /\ t \in Seq(Entry) /\ n \in Nat /\ DOMAIN s = 1 .. n /\ DOMAIN t = 1 .. n + 1
        /\ \A d \in DOMAIN s : t[d] = s[d]
        /\ t[n + 1] = o
    BY ONLY <2>3, PushBack
  <2> QED BY ONLY Zenon, <2>1, <2>2, <2>4
<1>13. /\ back \in Nat \ {0} /\ DOMAIN book[p] \subseteq 1 .. back
       /\ \A d \in 1 .. back : d # back => d \in DOMAIN book[p]
       /\ back \notin DOMAIN book[p]
  <2>1. back = Len(book[p]) + 1 /\ Len(book[p]) \in Nat
        /\ DOMAIN book[p] = 1 .. Len(book[p])
    BY ONLY Zenon, <1>4
  <2>2. PICK n, b, D : n = Len(book[p]) /\ b = back /\ D = DOMAIN book[p]
    BY Zenon
  <2> HIDE DEF back
  <2>3. b = n + 1 /\ n \in Nat /\ D = 1 .. n
    BY ONLY Zenon, <2>1, <2>2
  <2>4. /\ b \in Nat \ {0} /\ D \subseteq 1 .. b
        /\ \A d \in 1 .. b : d # b => d \in D
        /\ b \notin D
    BY ONLY <2>3
  <2> QED BY ONLY Zenon, <2>2, <2>4
<1> HIDE DEF emptied, e, p, col, back
<1>5. LUT'[id] = <<p, back>> /\ \A i \in Ids \ {id} : LUT'[i] = LUT[i]
  BY <1>0, <1>3
<1>6. book' \in [Levels -> Seq(Entry)]
  BY <1>0, <1>3, <1>4
<1>7. LUT' \in [Ids -> (Levels \X (Nat \ {0})) \cup {NoSlot}]
  BY <1>0, <1>3, <1>13
<1>8. \A q \in Levels : \A c \in DOMAIN book[q] :
        /\ c \in DOMAIN book'[q]
        /\ book'[q][c].system_id = book[q][c].system_id
        /\ book'[q][c].price = book[q][c].price
  <2> SUFFICES ASSUME NEW q \in Levels, NEW c \in DOMAIN book[q]
               PROVE  /\ c \in DOMAIN book'[q]
                      /\ book'[q][c].system_id = book[q][c].system_id
                      /\ book'[q][c].price = book[q][c].price
    OBVIOUS
  <2>1. CASE q # p
    BY <1>3, <2>1
  <2>2. CASE q = p /\ c # col
    BY <1>2, <1>4, <1>13, <2>2
  <2>3. CASE q = p /\ c = col
    <3>1. c \in DOMAIN book'[p] /\ book'[p][col] = e
      BY <1>2, <1>4, <1>13, <2>3
    <3> QED BY <1>0, <1>1, <2>3, <3>1
  <2> QED BY <2>1, <2>2, <2>3
<1>9. SlotsLeadHome'
  <2> SUFFICES ASSUME NEW i \in Ids, Resting(i)'
               PROVE  /\ LUT'[i][2] \in DOMAIN book'[LUT'[i][1]]
                      /\ PeekOrder(i)'.system_id = i
    BY DEF SlotsLeadHome
  <2>1. CASE i = id
    <3>1. LUT'[i][1] = p /\ LUT'[i][2] = back /\ back \in DOMAIN book'[p]
      BY <1>4, <1>5, <1>13, <2>1
    <3>2. o.system_id = i
      BY <2>1
    <3> QED BY <1>4, <3>1, <3>2 DEF PeekOrder, EntryAt
  <2>2. CASE i # id
    <3>1. Resting(i) /\ LUT'[i] = LUT[i]
      BY <1>5, <2>2 DEF Resting
    <3>2. LUT[i][1] \in Levels /\ LUT[i][2] \in DOMAIN book[LUT[i][1]]
          /\ book[LUT[i][1]][LUT[i][2]].system_id = i
      BY <3>1 DEF IndexConsistent, SlotsLeadHome, Resting, PeekOrder, EntryAt
    <3> QED BY <1>8, <3>1, <3>2 DEF PeekOrder, EntryAt
  <2> QED BY <2>1, <2>2
<1>10. \A q \in Levels : \A c \in DOMAIN book'[q] :
         ~ (q = p /\ c = back) => c \in DOMAIN book[q]
  BY <1>3, <1>4, <1>13
<1>11. EntriesInTheirLevel'
  <2> SUFFICES ASSUME NEW q \in Levels, NEW c \in DOMAIN book'[q]
               PROVE  PriceIndex[book'[q][c].price] = q
    BY DEF EntriesInTheirLevel
  <2>1. CASE q = p /\ c = back
    BY <1>0, <1>4, <2>1
  <2>2. CASE ~ (q = p /\ c = back)
    <3>1. c \in DOMAIN book[q]
      BY <1>10, <2>2
    <3>2. book'[q][c].price = book[q][c].price
      BY <1>8, <3>1
    <3> QED BY <3>1, <3>2 DEF IndexConsistent, EntriesInTheirLevel
  <2> QED BY <2>1, <2>2
<1>12. LiveEntriesIndexed'
  <2> SUFFICES ASSUME NEW q \in Levels, NEW c \in DOMAIN book'[q],
                      book'[q][c].quantity # 0
               PROVE  LUT'[book'[q][c].system_id] = <<q, c>>
    BY DEF LiveEntriesIndexed, LiveColumns
  <2>1. CASE q = p /\ c = back
    BY <1>4, <1>5, <2>1
  <2>2. CASE ~ (q = p /\ c = back)
    <3>1. c \in DOMAIN book[q] /\ book[q] \in Seq(Entry)
      BY <1>10, <2>2
    <3>2. ~ (q = p /\ c = col)
      BY <1>0, <1>1, <1>2, <1>4
    <3>3. book'[q][c] = book[q][c]
      BY <1>2, <1>3, <1>4, <3>1, <3>2
    <3>4. LUT[book[q][c].system_id] = <<q, c>>
      BY <3>1, <3>3 DEF IndexConsistent, LiveEntriesIndexed, LiveColumns
    <3>5. book[q][c].system_id \in Ids
      BY <3>1, EntryFields
    <3>6. book[q][c].system_id # id
      BY <1>0, <3>2, <3>4
    <3> QED BY <1>5, <3>3, <3>4, <3>5, <3>6
  <2> QED BY <2>1, <2>2
<1> QED BY <1>6, <1>7, <1>9, <1>11, <1>12 DEF IndexConsistent

(* UpdateOrderQuantity: types and index are kept.                          *)
LEMMA UpdateKeepsIndex ==
  ASSUME BookShape, IndexConsistent, NEW o \in Entry,
         Resting(o.system_id) => o.price = PeekOrder(o.system_id).price,
         UpdateOrderQuantity(o)
  PROVE  BookShape' /\ IndexConsistent'
<1> DEFINE slot == LUT[o.system_id]
<1>1. o.system_id \in Ids /\ o.quantity \in Nat
  BY DEF Entry
<1>2. best_price' = best_price /\ active_counts' = active_counts
  BY DEF UpdateOrderQuantity
<1>3. CASE UNCHANGED <<book, LUT>>
  BY <1>2, <1>3 DEF BookShape, IndexConsistent, SlotsLeadHome, EntriesInTheirLevel,
    LiveEntriesIndexed, LiveColumns, Resting, PeekOrder, EntryAt
<1>4. CASE slot # NoSlot /\ Reduce(slot, o)
  <2>1. Resting(o.system_id)
    BY Zenon, <1>4 DEF Resting
  <2>2. /\ book' = [book EXCEPT ![LUT[o.system_id][1]][LUT[o.system_id][2]].quantity
                          = o.quantity]
        /\ LUT' = LUT
    BY Zenon, <1>4 DEF Reduce
  <2>3. /\ book' \in [Levels -> Seq(Entry)]
        /\ LUT' \in [Ids -> (Levels \X (Nat \ {0})) \cup {NoSlot}]
        /\ IndexConsistent'
    BY Zenon, <1>1, <2>1, <2>2, InPlaceKeepsIndex
  <2> QED BY <1>2, <2>3 DEF BookShape
<1>5. CASE slot # NoSlot /\ Enlarge(slot, o)
  <2>1. Resting(o.system_id)
    BY <1>5 DEF Resting
  <2>2. /\ book' \in [Levels -> Seq(Entry)]
        /\ LUT' \in [Ids -> (Levels \X (Nat \ {0})) \cup {NoSlot}]
        /\ IndexConsistent'
    BY <1>5, <2>1, EnlargeKeepsIndex
  <2> QED BY <1>2, <2>2 DEF BookShape
<1> QED BY <1>3, <1>4, <1>5 DEF UpdateOrderQuantity

(* deleteOrder of an id that rests: types and index are kept.              *)
LEMMA DeleteOrderKeepsIndex ==
  ASSUME BookShape, IndexConsistent, NEW id \in Ids, DeleteOrder(id)
  PROVE  BookShape' /\ IndexConsistent'
<1>1. /\ Resting(id)
      /\ book' = [book EXCEPT ![LUT[id][1]][LUT[id][2]].quantity = 0]
      /\ LUT' = [LUT EXCEPT ![id] = NoSlot]
  BY Zenon DEF DeleteOrder
<1>2. /\ book' \in [Levels -> Seq(Entry)]
      /\ LUT' \in [Ids -> (Levels \X (Nat \ {0})) \cup {NoSlot}]
      /\ IndexConsistent'
  BY Zenon, <1>1, InPlaceKeepsIndex
<1>3. LUT[id][1] \in Levels
  BY <1>1 DEF BookShape, Resting
<1>4. active_counts' \in [Levels -> Int]
  BY <1>3 DEF BookShape, DeleteOrder
<1>5. best_price' \in 0 .. MaxPrice
  BY DEF BookShape, DeleteOrder
<1> QED BY <1>2, <1>4, <1>5 DEF BookShape

(* A trade takes no more than an entry has: types and index are kept.      *)
LEMMA TakeQuantityKeepsIndex ==
  ASSUME BookShape, IndexConsistent, NEW id \in Ids, Resting(id),
         NEW trade \in Nat, trade <= PeekOrder(id).quantity,
         TakeQuantity(LUT[id], trade)
  PROVE  BookShape' /\ IndexConsistent'
<1> DEFINE n == PeekOrder(id).quantity - trade
<1>1. LUT[id][1] \in Levels /\ LUT[id][2] \in DOMAIN book[LUT[id][1]]
  BY DEF BookShape, IndexConsistent, SlotsLeadHome, Resting
<1>2. PeekOrder(id).quantity \in Nat
  BY <1>1, EntryFields DEF BookShape, PeekOrder, EntryAt
<1>3. n \in Nat
  BY <1>2
<1>4. book' = [book EXCEPT ![LUT[id][1]][LUT[id][2]].quantity = n]
  BY DEF TakeQuantity, PeekOrder, EntryAt
<1> HIDE DEF n
<1>5. LUT' = LUT /\ best_price' = best_price /\ active_counts' = active_counts
  BY Zenon DEF TakeQuantity
<1>6. /\ book' \in [Levels -> Seq(Entry)]
      /\ LUT' \in [Ids -> (Levels \X (Nat \ {0})) \cup {NoSlot}]
      /\ IndexConsistent'
  BY Zenon, <1>3, <1>4, <1>5, InPlaceKeepsIndex
<1> QED BY <1>5, <1>6 DEF BookShape

(* A step of the book on its own keeps types and index. *)
LEMMA BookStepKeepsIndex ==
  ASSUME BookShape, IndexConsistent, [BookNext]_bookVars
  PROVE  BookShape' /\ IndexConsistent'
<1>1. ASSUME NEW o \in Entry, NewOrder(o)
      PROVE  BookShape' /\ IndexConsistent'
  BY <1>1, CreateOrderKeepsIndex DEF NewOrder
<1>2. ASSUME NEW o \in Entry, Amend(o)
      PROVE  BookShape' /\ IndexConsistent'
  BY <1>2, UpdateKeepsIndex DEF Amend
<1>3. ASSUME NEW id \in Ids, NEW n \in Quantities \ {0}, PartialFill(id, n)
      PROVE  BookShape' /\ IndexConsistent'
  <2>1. LUT[id][1] \in Levels /\ LUT[id][2] \in DOMAIN book[LUT[id][1]]
    BY <1>3 DEF PartialFill, BookShape, IndexConsistent, SlotsLeadHome, Resting
  <2>2. PeekOrder(id).quantity \in Nat
    BY <2>1, EntryFields DEF BookShape, PeekOrder, EntryAt
  <2>3. n \in Nat /\ n <= PeekOrder(id).quantity
    BY <1>3, <2>2, OrderBookAssumption DEF PartialFill
  <2> QED BY <1>3, <2>3, TakeQuantityKeepsIndex DEF PartialFill
<1>4. ASSUME NEW id \in Ids, DeleteOrder(id)
      PROVE  BookShape' /\ IndexConsistent'
  BY <1>4, DeleteOrderKeepsIndex
<1>5. CASE UNCHANGED bookVars
  BY <1>5 DEF bookVars, BookShape, IndexConsistent, SlotsLeadHome, EntriesInTheirLevel,
    LiveEntriesIndexed, LiveColumns, Resting, PeekOrder, EntryAt
<1>6. ASSUME NEW id \in Ids, NEW p \in Prices, NEW n \in Quantities, NEW t \in Traders
      PROVE  [system_id |-> id, price |-> p, quantity |-> n, trade_id |-> t] \in Entry
  BY OrderBookAssumption DEF Entry
<1> QED BY <1>1, <1>2, <1>3, <1>4, <1>5, <1>6 DEF BookNext

(* An empty book is well typed and consistent. *)
LEMMA BookInitKeepsIndex ==
  ASSUME BookInit
  PROVE  BookShape /\ IndexConsistent
<1>1. BookShape
  BY OrderBookAssumption DEF BookInit, BookShape, Sentinel, Levels
<1>2. IndexConsistent
  BY DEF BookInit, IndexConsistent, SlotsLeadHome, EntriesInTheirLevel,
    LiveEntriesIndexed, LiveColumns, Resting
<1> QED BY <1>1, <1>2

(* The look-up table and the levels describe the same orders, in every     *)
(* state: a slot leads to its own order, a live entry is the one its slot  *)
(* leads to, and every entry lies in the level of its price.               *)
THEOREM BookIndexConsistent == BookSpec => []IndexConsistent
<1>1. BookInit => BookShape /\ IndexConsistent
  BY BookInitKeepsIndex
<1>2. BookShape /\ IndexConsistent /\ [BookNext]_bookVars
        => BookShape' /\ IndexConsistent'
  BY BookStepKeepsIndex
<1> QED BY <1>1, <1>2, PTL DEF BookSpec

-----------------------------------------------------------------------------
(* The counts.  Placed(p) is the set of ids whose slot is in level p.      *)

Placed(p) == {id \in Ids : LUT[id][1] = p}

(* The sets of placed ids are finite and their sizes natural numbers.      *)
LEMMA PlacedFinite ==
  ASSUME CountsMatchLUT, NEW p \in Levels
  PROVE  /\ IsFiniteSet(Placed(p))
         /\ active_counts[p] = Cardinality(Placed(p))
         /\ active_counts[p] \in Nat
<1>1. IsFiniteSet(Placed(p))
  <2>1. Placed(p) \in SUBSET Ids
    BY DEF Placed
  <2> QED BY <2>1, OrderBookAssumption, FS_Subset
<1> QED BY <1>1, FS_CardinalityType DEF CountsMatchLUT, Placed

(* Counts that match the look-up table are natural numbers.                *)
LEMMA TypedByCounts ==
  ASSUME BookShape, CountsMatchLUT
  PROVE  BookTypeOK
<1>1. ASSUME NEW p \in Levels
      PROVE  active_counts[p] \in Nat
  BY PlacedFinite
<1> QED BY <1>1 DEF BookShape, BookTypeOK

(* A level in which an id has its slot has a positive count.               *)
LEMMA PlacedPositive ==
  ASSUME CountsMatchLUT, NEW p \in Levels, NEW id \in Placed(p)
  PROVE  active_counts[p] > 0
<1>1. IsFiniteSet(Placed(p)) /\ active_counts[p] = Cardinality(Placed(p))
      /\ active_counts[p] \in Nat
  BY PlacedFinite
<1>2. active_counts[p] # 0
  BY <1>1, FS_EmptySet
<1> QED BY <1>1, <1>2

(* createOrder of an id that does not rest keeps the counts.               *)
LEMMA CreateOrderKeepsCounts ==
  ASSUME BookShape, CountsMatchLUT, NEW o \in Entry,
         ~ Resting(o.system_id), CreateOrder(o)
  PROVE  CountsMatchLUT'
<1> DEFINE p == PriceIndex[o.price]
           id == o.system_id
<1>1. id \in Ids /\ p \in Levels /\ LUT[id] = NoSlot
  BY DEF Entry, CreateOrder, Resting
<1>2. LUT' = [LUT EXCEPT ![id] = <<p, Len(book[p]) + 1>>]
      /\ active_counts' = [active_counts EXCEPT ![p] = @ + 1]
  BY DEF CreateOrder
<1>3. LUT[id][1] \notin Levels
  BY <1>1 DEF NoSlot, Levels
<1>4. LUT'[id][1] = p /\ \A i \in Ids \ {id} : LUT'[i] = LUT[i]
  BY <1>1, <1>2 DEF BookShape
<1> SUFFICES ASSUME NEW q \in Levels
             PROVE  active_counts'[q] = Cardinality(Placed(q)')
  BY DEF CountsMatchLUT, Placed
<1>5. /\ IsFiniteSet(Placed(q)) /\ active_counts[q] = Cardinality(Placed(q))
      /\ active_counts[q] \in Nat
  BY PlacedFinite
<1>6. CASE q = p
  <2>1. Placed(q)' = Placed(q) \cup {id} /\ id \notin Placed(q)
    BY <1>1, <1>3, <1>4, <1>6 DEF Placed
  <2>2. active_counts'[q] = active_counts[q] + 1
    BY <1>1, <1>2, <1>6 DEF BookShape
  <2> HIDE DEF p, id
  <2> QED BY <1>5, <2>1, <2>2, FS_AddElement
<1>7. CASE q # p
  <2>1. Placed(q)' = Placed(q)
    BY <1>1, <1>3, <1>4, <1>7 DEF Placed
  <2>2. active_counts'[q] = active_counts[q]
    BY <1>1, <1>2, <1>7 DEF BookShape
  <2> QED BY <1>5, <2>1, <2>2
<1> QED BY <1>6, <1>7

(* UpdateOrderQuantity moves an id at most within its level: the counts    *)
(* are kept.                                                               *)
LEMMA UpdateKeepsCounts ==
  ASSUME BookShape, CountsMatchLUT, NEW o \in Entry, UpdateOrderQuantity(o)
  PROVE  CountsMatchLUT'
<1>1. o.system_id \in Ids
  BY Zenon DEF Entry
<1>2. \A i \in Ids : LUT'[i][1] = LUT[i][1]
  <2>1. CASE LUT' = LUT
    BY <2>1
  <2>2. CASE Enlarge(LUT[o.system_id], o)
    <3>1. LUT' = [LUT EXCEPT ![o.system_id] =
                    <<LUT[o.system_id][1], Len(book[LUT[o.system_id][1]]) + 1>>]
      BY <2>2 DEF Enlarge
    <3> QED BY Zenon, <1>1, <3>1 DEF BookShape
  <2> QED BY <2>1, <2>2 DEF UpdateOrderQuantity, Reduce
<1>3. active_counts' = active_counts
  BY DEF UpdateOrderQuantity
<1>4. ASSUME NEW q \in Levels PROVE Placed(q)' = Placed(q)
  BY <1>2 DEF Placed
<1> QED BY <1>3, <1>4 DEF CountsMatchLUT, Placed

(* deleteOrder keeps the counts.                                           *)
LEMMA DeleteOrderKeepsCounts ==
  ASSUME BookShape, CountsMatchLUT, NEW id \in Ids, DeleteOrder(id)
  PROVE  CountsMatchLUT'
<1> DEFINE p == LUT[id][1]
<1>1. p \in Levels
  BY DEF BookShape, DeleteOrder, Resting
<1>2. LUT' = [LUT EXCEPT ![id] = NoSlot]
      /\ active_counts' = [active_counts EXCEPT ![p] = @ - 1]
  BY DEF DeleteOrder
<1>3. LUT'[id] = NoSlot /\ \A i \in Ids \ {id} : LUT'[i] = LUT[i]
  BY <1>2 DEF BookShape
<1>4. LUT'[id][1] \notin Levels
  BY <1>3 DEF NoSlot, Levels
<1> SUFFICES ASSUME NEW q \in Levels
             PROVE  active_counts'[q] = Cardinality(Placed(q)')
  BY DEF CountsMatchLUT, Placed
<1>5. /\ IsFiniteSet(Placed(q)) /\ active_counts[q] = Cardinality(Placed(q))
      /\ active_counts[q] \in Nat
  BY PlacedFinite
<1>6. CASE q = p
  <2>1. Placed(q)' = Placed(q) \ {id} /\ id \in Placed(q)
    BY <1>1, <1>3, <1>4, <1>6 DEF Placed
  <2>2. active_counts'[q] = active_counts[q] - 1
    BY <1>1, <1>2, <1>6 DEF BookShape
  <2>3. Cardinality(Placed(q) \ {id}) = Cardinality(Placed(q)) - 1
    BY ONLY Zenon, <1>5, <2>1, FS_RemoveElement
  <2> QED BY ONLY Zenon, <1>5, <2>1, <2>2, <2>3
<1>7. CASE q # p
  <2>1. Placed(q)' = Placed(q)
    BY <1>1, <1>3, <1>4, <1>7 DEF Placed
  <2>2. active_counts'[q] = active_counts[q]
    BY <1>1, <1>2, <1>7 DEF BookShape
  <2> QED BY <1>5, <2>1, <2>2
<1> QED BY <1>6, <1>7

-----------------------------------------------------------------------------
(* The best price. *)

BestInv == NoneBetter /\ BestIsActive

(* createOrder moves the best price to a better level only, and that level *)
(* is active afterwards.                                                   *)
LEMMA CreateOrderKeepsBest ==
  ASSUME BookShape, CountsMatchLUT, BestInv, NEW o \in Entry, CreateOrder(o)
  PROVE  BestInv'
<1> DEFINE p == PriceIndex[o.price]
<1>1. /\ p \in Levels
      /\ best_price' = IF Better(p, best_price) THEN p ELSE best_price
      /\ active_counts' = [active_counts EXCEPT ![p] = @ + 1]
  BY DEF CreateOrder
<1>2. \A q \in Levels : active_counts[q] \in Nat
  BY PlacedFinite
<1>3. active_counts'[p] > 0
      /\ \A q \in Levels \ {p} : active_counts'[q] = active_counts[q]
  BY <1>1, <1>2 DEF BookShape
<1>4. best_price \in 0 .. MaxPrice /\ isBuy \in BOOLEAN
  BY OrderBookAssumption DEF BookShape
<1> HIDE DEF p
<1>5. NoneBetter'
  BY <1>1, <1>3, <1>4, OrderBookAssumption DEF BestInv, NoneBetter, Better, Levels
<1>6. BestIsActive'
  <2>1. CASE Better(p, best_price)
    BY <1>1, <1>3, <2>1 DEF BestIsActive
  <2>2. CASE ~ Better(p, best_price) /\ best_price = Sentinel
    BY <1>1, <2>2 DEF BestIsActive, Sentinel
  <2>3. CASE ~ Better(p, best_price) /\ best_price # Sentinel
    <3>1. best_price \in Levels /\ active_counts[best_price] > 0
      BY <1>4, <2>3, OrderBookAssumption
         DEF BestInv, BestIsActive, Sentinel, Levels, Better
    <3> QED BY <1>1, <1>3, <2>3, <3>1 DEF BestIsActive
  <2> QED BY <2>1, <2>2, <2>3
<1> QED BY <1>5, <1>6 DEF BestInv

(* deleteOrder moves the best price only when its level has emptied, and   *)
(* then past empty levels only.                                            *)
LEMMA DeleteOrderKeepsBest ==
  ASSUME BookShape, CountsMatchLUT, BestInv, NEW id \in Ids, DeleteOrder(id)
  PROVE  BestInv'
<1> DEFINE p == LUT[id][1]
<1>1. p \in Levels /\ id \in Placed(p)
  BY DEF BookShape, DeleteOrder, Resting, Placed
<1>2. /\ active_counts' = [active_counts EXCEPT ![p] = @ - 1]
      /\ IF active_counts'[p] = 0 /\ p = best_price
         THEN \E q \in 0 .. MaxPrice : Glides(active_counts', q) /\ best_price' = q
         ELSE best_price' = best_price
  BY DEF DeleteOrder
<1>3. /\ active_counts[p] > 0
      /\ \A q \in Levels : active_counts[q] \in Nat
  BY <1>1, PlacedPositive, PlacedFinite
<1>4. /\ active_counts'[p] = active_counts[p] - 1
      /\ \A q \in Levels \ {p} : active_counts'[q] = active_counts[q]
      /\ \A q \in Levels : active_counts'[q] \in Nat
  BY <1>1, <1>2, <1>3 DEF BookShape
<1>5. best_price \in 0 .. MaxPrice /\ isBuy \in BOOLEAN /\ MaxPrice \in Nat \ {0}
  BY OrderBookAssumption DEF BookShape
<1> HIDE DEF p
<1>6. CASE active_counts'[p] = 0 /\ p = best_price
  <2>1. PICK q \in 0 .. MaxPrice : Glides(active_counts', q) /\ best_price' = q
    BY <1>2, <1>6
  <2>2. CASE isBuy
    <3>1. /\ q <= best_price /\ (q > 0 => active_counts'[q] # 0)
          /\ \A x \in q + 1 .. best_price : active_counts'[x] = 0
      BY <2>1, <2>2 DEF Glides
    <3>2. NoneBetter'
      BY <1>1, <1>4, <1>5, <1>6, <2>1, <2>2, <3>1
         DEF BestInv, NoneBetter, Better, Levels
    <3>3. BestIsActive'
      BY <1>1, <1>4, <1>5, <1>6, <2>1, <2>2, <3>1 DEF BestIsActive, Sentinel, Levels
    <3> QED BY <3>2, <3>3 DEF BestInv
  <2>3. CASE ~ isBuy
    <3>1. /\ q >= best_price /\ (q < MaxPrice => active_counts'[q] # 0)
          /\ \A x \in best_price .. q - 1 : active_counts'[x] = 0
      BY <2>1, <2>3 DEF Glides
    <3>2. NoneBetter'
      BY <1>1, <1>4, <1>5, <1>6, <2>1, <2>3, <3>1
         DEF BestInv, NoneBetter, Better, Levels
    <3>3. BestIsActive'
      BY <1>1, <1>4, <1>5, <1>6, <2>1, <2>3, <3>1 DEF BestIsActive, Sentinel, Levels
    <3> QED BY <3>2, <3>3 DEF BestInv
  <2> QED BY <2>2, <2>3, <1>5
<1>7. CASE ~ (active_counts'[p] = 0 /\ p = best_price)
  <2>1. best_price' = best_price
    BY <1>2, <1>7
  <2>2. NoneBetter'
    BY <1>1, <1>3, <1>4, <2>1 DEF BestInv, NoneBetter, Better
  <2>3. ASSUME best_price # Sentinel
        PROVE  best_price \in Levels /\ active_counts'[best_price] > 0
    <3>1. best_price \in Levels /\ active_counts[best_price] > 0
      BY <2>3 DEF BestInv, BestIsActive
    <3>2. CASE best_price = p
      <4>1. active_counts'[p] \in Nat
        BY <1>1, <1>4
      <4>2. active_counts'[p] # 0
        BY <1>7, <3>2
      <4> QED BY <3>1, <3>2, <4>1, <4>2
    <3>3. CASE best_price # p
      BY <1>4, <3>1, <3>3
    <3> QED BY <3>2, <3>3
  <2>4. BestIsActive'
    BY <2>1, <2>3 DEF BestIsActive, Sentinel
  <2> QED BY <2>2, <2>4 DEF BestInv
<1> QED BY <1>6, <1>7

(* Operations that leave counts and best price alone.                      *)
LEMMA SameCountsKeepBest ==
  ASSUME BestInv, best_price' = best_price, active_counts' = active_counts
  PROVE  BestInv'
BY DEF BestInv, NoneBetter, BestIsActive, Better, Sentinel

(* Everything that is kept by a step of the book on its own. *)
BookInv == BookShape /\ IndexConsistent /\ CountsMatchLUT /\ BestInv

LEMMA CreateOrderKeepsInv ==
  ASSUME BookInv, NEW o \in Entry, ~ Resting(o.system_id), CreateOrder(o)
  PROVE  BookInv'
BY CreateOrderKeepsIndex, CreateOrderKeepsCounts, CreateOrderKeepsBest DEF BookInv

LEMMA UpdateKeepsInv ==
  ASSUME BookInv, NEW o \in Entry,
         Resting(o.system_id) => o.price = PeekOrder(o.system_id).price,
         UpdateOrderQuantity(o)
  PROVE  BookInv'
<1>1. best_price' = best_price /\ active_counts' = active_counts
  BY DEF UpdateOrderQuantity
<1> QED BY <1>1, UpdateKeepsIndex, UpdateKeepsCounts, SameCountsKeepBest DEF BookInv

LEMMA DeleteOrderKeepsInv ==
  ASSUME BookInv, NEW id \in Ids, DeleteOrder(id)
  PROVE  BookInv'
BY DeleteOrderKeepsIndex, DeleteOrderKeepsCounts, DeleteOrderKeepsBest DEF BookInv

LEMMA TakeQuantityKeepsInv ==
  ASSUME BookInv, NEW id \in Ids, Resting(id),
         NEW trade \in Nat, trade <= PeekOrder(id).quantity,
         TakeQuantity(LUT[id], trade)
  PROVE  BookInv'
<1>1. best_price' = best_price /\ active_counts' = active_counts /\ LUT' = LUT
  BY DEF TakeQuantity
<1>2. BookShape' /\ IndexConsistent'
  BY TakeQuantityKeepsIndex DEF BookInv
<1> QED BY <1>1, <1>2, SameCountsKeepBest DEF BookInv, CountsMatchLUT

LEMMA UnchangedKeepsInv ==
  ASSUME BookInv, UNCHANGED bookVars
  PROVE  BookInv'
BY SameCountsKeepBest DEF bookVars, BookInv, CountsMatchLUT, BookShape, IndexConsistent,
  SlotsLeadHome, EntriesInTheirLevel, LiveEntriesIndexed, LiveColumns, Resting, PeekOrder,
  EntryAt

LEMMA BookStepKeepsInv ==
  ASSUME BookInv, [BookNext]_bookVars
  PROVE  BookInv'
<1>1. ASSUME NEW o \in Entry, NewOrder(o) \/ Amend(o)
      PROVE  BookInv'
  BY <1>1, CreateOrderKeepsInv, UpdateKeepsInv DEF NewOrder, Amend
<1>2. ASSUME NEW id \in Ids, NEW n \in Quantities \ {0}, PartialFill(id, n)
      PROVE  BookInv'
  <2>1. Resting(id) /\ n \in Nat /\ n < PeekOrder(id).quantity /\ TakeQuantity(LUT[id], n)
    BY <1>2, OrderBookAssumption DEF PartialFill
  <2>2. PeekOrder(id).quantity \in Nat
    <3>1. PeekOrder(id) = book[LUT[id][1]][LUT[id][2]]
          /\ LUT[id][1] \in Levels /\ LUT[id][2] \in DOMAIN book[LUT[id][1]]
      BY <2>1 DEF BookInv, BookShape, IndexConsistent, SlotsLeadHome, Resting,
        PeekOrder, EntryAt
    <3> QED BY <3>1, EntryFields DEF BookInv, BookShape
  <2>3. n <= PeekOrder(id).quantity
    BY <2>1, <2>2
  <2> QED BY <2>1, <2>3, TakeQuantityKeepsInv
<1>3. ASSUME NEW id \in Ids, DeleteOrder(id)
      PROVE  BookInv'
  BY <1>3, DeleteOrderKeepsInv
<1>4. CASE UNCHANGED bookVars
  BY <1>4, UnchangedKeepsInv
<1>5. ASSUME NEW id \in Ids, NEW p \in Prices, NEW n \in Quantities, NEW t \in Traders
      PROVE  [system_id |-> id, price |-> p, quantity |-> n, trade_id |-> t] \in Entry
  BY OrderBookAssumption DEF Entry
<1> QED BY <1>1, <1>2, <1>3, <1>4, <1>5 DEF BookNext

(* An empty book. *)
LEMMA BookInitInv ==
  ASSUME BookInit
  PROVE  BookInv
<1>1. BookShape /\ IndexConsistent
  BY BookInitKeepsIndex
<1>2. CountsMatchLUT
  <2> SUFFICES ASSUME NEW p \in Levels
               PROVE  active_counts[p] = Cardinality(Placed(p))
    BY DEF CountsMatchLUT, Placed
  <2>1. Placed(p) = {}
    BY DEF BookInit, Placed, NoSlot, Levels
  <2> QED BY <2>1, FS_EmptySet DEF BookInit
<1>3. BestInv
  BY DEF BookInit, BestInv, NoneBetter, BestIsActive
<1> QED BY <1>1, <1>2, <1>3 DEF BookInv

(* Type correctness of a book, in every state of every behaviour; with the *)
(* other types, no count is ever decremented below zero.                   *)
THEOREM BookTypeCorrect == BookSpec => []BookTypeOK
<1>1. BookInit => BookInv
  BY BookInitInv
<1>2. BookInv /\ [BookNext]_bookVars => BookInv'
  BY BookStepKeepsInv
<1>3. BookInv => BookTypeOK
  BY TypedByCounts DEF BookInv
<1> QED BY <1>1, <1>2, <1>3, PTL DEF BookSpec

(* The count of a level is the number of orders the look-up table places   *)
(* in it, in every state.                                                  *)
THEOREM BookCountsMatch == BookSpec => []CountsMatchLUT
<1>1. BookInit => BookInv
  BY BookInitInv
<1>2. BookInv /\ [BookNext]_bookVars => BookInv'
  BY BookStepKeepsInv
<1>3. BookInv => CountsMatchLUT
  BY DEF BookInv
<1> QED BY <1>1, <1>2, <1>3, PTL DEF BookSpec

-----------------------------------------------------------------------------
(* What each operation does to the orders: to the one it names, and that   *)
(* every other order keeps its slot and, if it rests, its entry.           *)

SameOrder(i) == LUT'[i] = LUT[i] /\ (Resting(i) => PeekOrder(i)' = PeekOrder(i))

(* Where the slot of a resting order leads.                                *)
LEMMA SlotOfResting ==
  ASSUME BookShape, IndexConsistent, NEW i \in Ids, Resting(i)
  PROVE  /\ LUT[i] = <<LUT[i][1], LUT[i][2]>>
         /\ LUT[i][1] \in Levels /\ LUT[i][2] \in Nat \ {0}
         /\ book[LUT[i][1]] \in Seq(Entry)
         /\ LUT[i][2] \in DOMAIN book[LUT[i][1]]
         /\ LUT[i][2] <= Len(book[LUT[i][1]])
         /\ PeekOrder(i) = book[LUT[i][1]][LUT[i][2]]
         /\ PeekOrder(i) \in Entry
         /\ PeekOrder(i).system_id = i
         /\ PriceIndex[PeekOrder(i).price] = LUT[i][1]
<1>1. /\ LUT[i] = <<LUT[i][1], LUT[i][2]>>
      /\ LUT[i][1] \in Levels /\ LUT[i][2] \in Nat \ {0}
      /\ book[LUT[i][1]] \in Seq(Entry)
  BY DEF BookShape, Resting
<1>2. LUT[i][2] \in DOMAIN book[LUT[i][1]] /\ PeekOrder(i).system_id = i
  BY DEF IndexConsistent, SlotsLeadHome
<1>3. PeekOrder(i) = book[LUT[i][1]][LUT[i][2]]
  BY DEF PeekOrder, EntryAt
<1>4. PeekOrder(i) \in Entry
  BY <1>1, <1>2, <1>3, EntryFields
<1>5. PriceIndex[PeekOrder(i).price] = LUT[i][1]
  BY <1>1, <1>2, <1>3 DEF IndexConsistent, EntriesInTheirLevel
<1>6. LUT[i][2] <= Len(book[LUT[i][1]])
  BY <1>1, <1>2
<1> QED BY <1>1, <1>2, <1>3, <1>4, <1>5, <1>6

(* No order of the table is in a better level than the best price.         *)
LEMMA NoOrderBetter ==
  ASSUME BookInv, NEW i \in Ids, Resting(i)
  PROVE  ~ Better(LUT[i][1], best_price)
<1>1. LUT[i][1] \in Levels
  BY SlotOfResting DEF BookInv
<1>2. i \in Placed(LUT[i][1])
  BY DEF Placed
<1>3. active_counts[LUT[i][1]] > 0
  BY <1>1, <1>2, PlacedPositive DEF BookInv
<1> QED BY <1>1, <1>3 DEF BookInv, BestInv, NoneBetter

(* When the best price is no level, or its level never had an entry, no    *)
(* order rests: this is what ends the matching with an empty side.         *)
LEMMA EmptySide ==
  ASSUME BookInv, best_price >= MaxPrice \/ book[best_price] = <<>>, NEW i \in Ids
  PROVE  ~ Resting(i)
<1> SUFFICES ASSUME Resting(i)
             PROVE  FALSE
  OBVIOUS
<1>1. /\ LUT[i][1] \in Levels /\ LUT[i][2] \in DOMAIN book[LUT[i][1]]
      /\ ~ Better(LUT[i][1], best_price)
  BY SlotOfResting, NoOrderBetter DEF BookInv
<1>2. best_price \in 0 .. MaxPrice /\ MaxPrice \in Nat \ {0}
  BY OrderBookAssumption DEF BookInv, BookShape
<1>3. CASE best_price # Sentinel
  <2>1. best_price \in Levels /\ active_counts[best_price] > 0
    BY <1>3 DEF BookInv, BestInv, BestIsActive
  <2>2. PICK j \in Placed(best_price) : TRUE
    BY <2>1, PlacedFinite, FS_EmptySet DEF BookInv
  <2>3. j \in Ids /\ LUT[j][1] = best_price /\ Resting(j)
    BY <2>1, <2>2 DEF Placed, Resting, NoSlot, Levels
  <2>4. LUT[j][2] \in DOMAIN book[best_price]
    BY <2>3, SlotOfResting DEF BookInv
  <2> QED BY <1>2, <2>1, <2>4 DEF Levels
<1>4. CASE best_price = Sentinel
  <2>1. CASE isBuy
    <3>1. LUT[i][1] = 0 /\ best_price = 0
      BY <1>1, <1>2, <1>4, <2>1 DEF Better, Sentinel, Levels
    <3> QED BY <1>1, <1>2, <3>1
  <2>2. CASE ~ isBuy
    BY <1>1, <1>2, <1>4, <2>2 DEF Better, Sentinel, Levels
  <2> QED BY <2>1, <2>2
<1> QED BY <1>3, <1>4

(* createOrder puts the order at the end of its level.                     *)
LEMMA CreateOrderEffect ==
  ASSUME BookShape, IndexConsistent, NEW o \in Entry, CreateOrder(o)
  PROVE  /\ LUT'[o.system_id] = <<PriceIndex[o.price], Len(book[PriceIndex[o.price]]) + 1>>
         /\ PeekOrder(o.system_id)' = o
         /\ \A i \in Ids \ {o.system_id} : SameOrder(i)
         /\ \A q \in Levels : Len(book'[q]) <= Len(book[q]) + 1
<1> DEFINE p == PriceIndex[o.price]
           id == o.system_id
           col == Len(book[p]) + 1
<1> USE DEF BookShape
<1>0. id \in Ids /\ p \in Levels /\ book[p] \in Seq(Entry)
  BY DEF Entry, CreateOrder
<1>1. /\ book'[p] = Append(book[p], o)
      /\ \A q \in Levels \ {p} : book'[q] = book[q]
      /\ LUT'[id] = <<p, col>> /\ \A i \in Ids \ {id} : LUT'[i] = LUT[i]
  BY <1>0 DEF CreateOrder
<1>2. /\ DOMAIN book[p] = 1 .. Len(book[p])
      /\ Len(book[p]) \in Nat /\ Len(book'[p]) = col
      /\ \A d \in 1 .. Len(book[p]) : book'[p][d] = book[p][d]
      /\ book'[p][col] = o
  BY <1>0, <1>1, PushBack
<1>3. \A q \in Levels : Len(book'[q]) <= Len(book[q]) + 1
  <2>1. \A q \in Levels : Len(book[q]) \in Nat
    OBVIOUS
  <2> HIDE DEF p, col, BookShape
  <2>2. Len(book'[p]) = Len(book[p]) + 1
    BY <1>2 DEF col
  <2> QED BY <1>0, <1>1, <2>1, <2>2
<1>4. PeekOrder(id)' = o
  BY <1>1, <1>2 DEF PeekOrder, EntryAt
<1> HIDE DEF p, col
<1>5. ASSUME NEW i \in Ids \ {id}, Resting(i)
      PROVE  PeekOrder(i)' = PeekOrder(i)
  <2>1. LUT'[i] = LUT[i] /\ LUT[i][1] \in Levels /\ LUT[i][2] \in DOMAIN book[LUT[i][1]]
    BY <1>1, <1>5, SlotOfResting
  <2>2. book'[LUT[i][1]][LUT[i][2]] = book[LUT[i][1]][LUT[i][2]]
    BY <1>1, <1>2, <2>1
  <2> QED BY <2>1, <2>2 DEF PeekOrder, EntryAt
<1> QED BY <1>1, <1>3, <1>4, <1>5 DEF SameOrder, p, col

(* An entry that is given another quantity in place.                       *)
LEMMA InPlaceEffect ==
  ASSUME BookShape, IndexConsistent, NEW id \in Ids, Resting(id), NEW n \in Nat,
         book' = [book EXCEPT ![LUT[id][1]][LUT[id][2]].quantity = n],
         \A i \in Ids \ {id} : LUT'[i] = LUT[i]
  PROVE  /\ book'[LUT[id][1]][LUT[id][2]] = [PeekOrder(id) EXCEPT !.quantity = n]
         /\ \A i \in Ids \ {id} : SameOrder(i)
         /\ \A q \in Levels : Len(book'[q]) = Len(book[q])
<1> DEFINE p == LUT[id][1]
           col == LUT[id][2]
           e == [book[p][col] EXCEPT !.quantity = n]
<1> USE DEF BookShape
<1>0. /\ p \in Levels /\ col \in DOMAIN book[p] /\ book[p] \in Seq(Entry)
      /\ LUT[id] = <<p, col>> /\ PeekOrder(id) = book[p][col] /\ book[p][col] \in Entry
      /\ PeekOrder(id).system_id = id
  BY SlotOfResting
<1>1. /\ book'[p] = [book[p] EXCEPT ![col] = e]
      /\ \A q \in Levels \ {p} : book'[q] = book[q]
  BY <1>0
<1>2. e \in Entry
  BY <1>0 DEF Entry
<1>3. /\ Len(book'[p]) = Len(book[p])
      /\ \A d \in DOMAIN book[p] : d # col => book'[p][d] = book[p][d]
      /\ book'[p][col] = e
  <2> HIDE DEF e, p, col
  <2> QED BY <1>0, <1>1, <1>2, ReplaceEntry
<1>4. ASSUME NEW i \in Ids \ {id}, Resting(i)
      PROVE  PeekOrder(i)' = PeekOrder(i)
  <2>1. /\ LUT[i][1] \in Levels /\ LUT[i][2] \in DOMAIN book[LUT[i][1]]
        /\ book[LUT[i][1]][LUT[i][2]].system_id = i
    BY Zenon, <1>4, SlotOfResting
  <2>2. ~ (LUT[i][1] = p /\ LUT[i][2] = col)
    BY <1>0, <2>1
  <2>3. book'[LUT[i][1]][LUT[i][2]] = book[LUT[i][1]][LUT[i][2]]
    <3> HIDE DEF e, p, col
    <3>1. CASE LUT[i][1] # p
      BY <1>1, <2>1, <3>1
    <3>2. CASE LUT[i][1] = p
      BY <1>3, <2>1, <2>2, <3>2
    <3> QED BY <3>1, <3>2
  <2> QED BY <2>3 DEF PeekOrder, EntryAt
<1> QED BY <1>0, <1>1, <1>3, <1>4 DEF SameOrder

(* An order that is queued again at the back of its level.                 *)
LEMMA EnlargeEffect ==
  ASSUME BookShape, IndexConsistent, NEW o \in Entry,
         Resting(o.system_id), Enlarge(LUT[o.system_id], o)
  PROVE  /\ LUT'[o.system_id] = <<LUT[o.system_id][1],
                                  Len(book[LUT[o.system_id][1]]) + 1>>
         /\ PeekOrder(o.system_id)' = o
         /\ \A i \in Ids \ {o.system_id} : SameOrder(i)
         /\ \A q \in Levels : Len(book'[q]) <= Len(book[q]) + 1
<1> DEFINE id == o.system_id
           p == LUT[id][1]
           col == LUT[id][2]
           back == Len(book[p]) + 1
           e == [book[p][col] EXCEPT !.quantity = 0]
           emptied == [book[p] EXCEPT ![col] = e]
<1> USE DEF BookShape
<1>0. id \in Ids
  BY DEF Entry
<1>1. /\ p \in Levels /\ col \in DOMAIN book[p] /\ book[p] \in Seq(Entry)
      /\ book[p][col].system_id = id /\ book[p][col] \in Entry
  BY <1>0, SlotOfResting
<1>2. e \in Entry
  BY Zenon, <1>1 DEF Entry
<1>3. /\ emptied \in Seq(Entry) /\ Len(emptied) = Len(book[p])
      /\ DOMAIN emptied = DOMAIN book[p]
      /\ \A d \in DOMAIN book[p] : d # col => emptied[d] = book[p][d]
  <2> HIDE DEF e, p, col
  <2> QED BY <1>1, <1>2, ReplaceEntry
<1>4. /\ book'[p] = Append(emptied, o)
      /\ \A q \in Levels \ {p} : book'[q] = book[q]
      /\ LUT'[id] = <<p, back>> /\ \A i \in Ids \ {id} : LUT'[i] = LUT[i]
  BY Zenon, <1>0, <1>1 DEF Enlarge
<1>5. /\ \A d \in DOMAIN book[p] : book'[p][d] = emptied[d]
      /\ book'[p][back] = o /\ Len(book'[p]) = back /\ Len(book[p]) \in Nat
  <2> HIDE DEF emptied, p, col, e
  <2> QED BY <1>3, <1>4, PushBack
<1>6. \A q \in Levels : Len(book'[q]) <= Len(book[q]) + 1
  <2>1. \A q \in Levels : Len(book[q]) \in Nat
    OBVIOUS
  <2> HIDE DEF p, col, back, e, emptied, BookShape
  <2>2. Len(book'[p]) = Len(book[p]) + 1
    BY <1>5 DEF back
  <2> QED BY <1>1, <1>4, <2>1, <2>2
<1> HIDE DEF emptied, e, p, col, back
<1>7. PeekOrder(id)' = o
  BY <1>4, <1>5 DEF PeekOrder, EntryAt
<1>8. ASSUME NEW i \in Ids \ {id}, Resting(i)
      PROVE  PeekOrder(i)' = PeekOrder(i)
  <2>1. /\ LUT[i][1] \in Levels /\ LUT[i][2] \in DOMAIN book[LUT[i][1]]
        /\ book[LUT[i][1]][LUT[i][2]].system_id = i
    BY <1>8, SlotOfResting
  <2>2. ~ (LUT[i][1] = p /\ LUT[i][2] = col)
    BY <1>1, <2>1
  <2>3. book'[LUT[i][1]][LUT[i][2]] = book[LUT[i][1]][LUT[i][2]]
    <3>1. CASE LUT[i][1] # p
      BY <1>4, <2>1, <3>1
    <3>2. CASE LUT[i][1] = p
      BY <1>3, <1>5, <2>1, <2>2, <3>2
    <3> QED BY <3>1, <3>2
  <2> QED BY <1>4, <1>8, <2>3 DEF PeekOrder, EntryAt
<1> QED BY <1>4, <1>6, <1>7, <1>8 DEF SameOrder, p, back

(* The matching loop takes a quantity from one entry; nothing moves.       *)
LEMMA TakeQuantityEffect ==
  ASSUME BookShape, IndexConsistent, NEW id \in Ids, Resting(id),
         NEW trade \in Nat, trade <= PeekOrder(id).quantity,
         TakeQuantity(LUT[id], trade)
  PROVE  /\ LUT' = LUT
         /\ PeekOrder(id)' = [PeekOrder(id) EXCEPT !.quantity = @ - trade]
         /\ \A i \in Ids \ {id} : SameOrder(i)
         /\ \A q \in Levels : Len(book'[q]) = Len(book[q])
<1> DEFINE n == PeekOrder(id).quantity - trade
<1>1. PeekOrder(id) \in Entry /\ PeekOrder(id) = book[LUT[id][1]][LUT[id][2]]
  BY SlotOfResting
<1>2. n \in Nat
  <2>1. PeekOrder(id).quantity \in Nat
    BY ONLY <1>1 DEF Entry
  <2> QED BY <2>1
<1>3. book' = [book EXCEPT ![LUT[id][1]][LUT[id][2]].quantity = n] /\ LUT' = LUT
  BY Zenon, <1>1 DEF TakeQuantity
<1> HIDE DEF n
<1>4. /\ book'[LUT[id][1]][LUT[id][2]] = [PeekOrder(id) EXCEPT !.quantity = n]
      /\ \A i \in Ids \ {id} : SameOrder(i)
      /\ \A q \in Levels : Len(book'[q]) = Len(book[q])
  BY Zenon, <1>2, <1>3, InPlaceEffect
<1>5. PeekOrder(id)' = [PeekOrder(id) EXCEPT !.quantity = n]
  BY <1>3, <1>4 DEF PeekOrder, EntryAt
<1> QED BY <1>3, <1>4, <1>5 DEF n

(* deleteOrder makes the table forget the order; nothing else moves.       *)
LEMMA DeleteOrderEffect ==
  ASSUME BookShape, IndexConsistent, NEW id \in Ids, DeleteOrder(id)
  PROVE  /\ LUT'[id] = NoSlot
         /\ \A i \in Ids \ {id} : SameOrder(i)
         /\ \A q \in Levels : Len(book'[q]) = Len(book[q])
<1>1. /\ Resting(id)
      /\ book' = [book EXCEPT ![LUT[id][1]][LUT[id][2]].quantity = 0]
      /\ LUT' = [LUT EXCEPT ![id] = NoSlot]
  BY DEF DeleteOrder
<1>2. LUT'[id] = NoSlot /\ \A i \in Ids \ {id} : LUT'[i] = LUT[i]
  BY <1>1 DEF BookShape
<1> QED BY Zenon, <1>1, <1>2, InPlaceEffect

(* updateOrderQuantity gives an order its new quantity: where it is, when  *)
(* the quantity does not grow, and at the back of its level when it does.  *)
LEMMA UpdateEffect ==
  ASSUME BookShape, IndexConsistent, NEW o \in Entry,
         Resting(o.system_id), o.price = PeekOrder(o.system_id).price,
         UpdateOrderQuantity(o)
  PROVE  LET id == o.system_id IN
         /\ LUT'[id][1] = LUT[id][1] /\ Resting(id)'
         /\ PeekOrder(id)' \in Entry /\ PeekOrder(id)'.quantity = o.quantity
         /\ PeekOrder(id)'.trade_id \in {PeekOrder(id).trade_id, o.trade_id}
         /\ o.quantity <= PeekOrder(id).quantity => LUT'[id] = LUT[id]
         /\ o.quantity > PeekOrder(id).quantity
              => LUT'[id][2] = Len(book[LUT[id][1]]) + 1
         /\ \A i \in Ids \ {id} : SameOrder(i)
         /\ \A q \in Levels : Len(book'[q]) <= Len(book[q]) + 1
<1> DEFINE id == o.system_id
<1>0. id \in Ids /\ o.quantity \in Nat
  BY DEF Entry
<1>1. /\ PeekOrder(id) \in Entry /\ PeekOrder(id).quantity \in Nat
      /\ LUT[id][1] \in Levels /\ PeekOrder(id) = EntryAt(LUT[id])
      /\ \A q \in Levels : Len(book[q]) \in Nat
  <2>1. PeekOrder(id) \in Entry /\ LUT[id][1] \in Levels
    BY <1>0, SlotOfResting
  <2>2. PeekOrder(id).quantity \in Nat
    BY <2>1 DEF Entry
  <2>3. \A q \in Levels : Len(book[q]) \in Nat
    BY DEF BookShape
  <2> QED BY <2>1, <2>2, <2>3 DEF PeekOrder
<1>2. CASE UNCHANGED <<book, LUT>> /\ o.quantity = PeekOrder(id).quantity
  <2>1. /\ PeekOrder(id)' = PeekOrder(id) /\ LUT' = LUT /\ Resting(id)'
        /\ \A i \in Ids \ {id} : SameOrder(i)
    BY <1>2 DEF SameOrder, PeekOrder, EntryAt, Resting
  <2>2. \A q \in Levels : Len(book'[q]) <= Len(book[q]) + 1
    BY ONLY <1>1, <1>2
  <2> HIDE DEF id
  <2>3. ~ (o.quantity > PeekOrder(id).quantity)
    BY ONLY <1>1, <1>2
  <2> QED BY ONLY Zenon, <1>1, <1>2, <2>1, <2>2, <2>3 DEF id
<1>3. CASE Reduce(LUT[id], o) /\ o.quantity < PeekOrder(id).quantity
  <2>1. book' = [book EXCEPT ![LUT[id][1]][LUT[id][2]].quantity = o.quantity] /\ LUT' = LUT
    BY Zenon, <1>3 DEF Reduce
  <2>2. /\ book'[LUT[id][1]][LUT[id][2]] = [PeekOrder(id) EXCEPT !.quantity = o.quantity]
        /\ \A i \in Ids \ {id} : SameOrder(i)
        /\ \A q \in Levels : Len(book'[q]) = Len(book[q])
    BY Zenon, <1>0, <2>1, InPlaceEffect
  <2>3. PeekOrder(id)' = [PeekOrder(id) EXCEPT !.quantity = o.quantity]
    BY Zenon, <2>1, <2>2 DEF PeekOrder, EntryAt
  <2>4. /\ PeekOrder(id)' \in Entry /\ PeekOrder(id)'.quantity = o.quantity
        /\ PeekOrder(id)'.trade_id = PeekOrder(id).trade_id
    BY <1>0, <1>1, <2>3 DEF Entry
  <2>5. \A q \in Levels : Len(book'[q]) <= Len(book[q]) + 1
    BY <1>1, <2>2
  <2>6. ~ (o.quantity > PeekOrder(id).quantity)
    BY ONLY <1>0, <1>1, <1>3
  <2>7. Resting(id)'
    BY Zenon, <2>1 DEF Resting
  <2> QED BY ONLY Zenon, <2>1, <2>2, <2>4, <2>5, <2>6, <2>7
<1>4. CASE Enlarge(LUT[id], o) /\ o.quantity > PeekOrder(id).quantity
  <2>1. /\ LUT'[id] = <<LUT[id][1], Len(book[LUT[id][1]]) + 1>>
        /\ PeekOrder(id)' = o
        /\ \A i \in Ids \ {id} : SameOrder(i)
        /\ \A q \in Levels : Len(book'[q]) <= Len(book[q]) + 1
    BY <1>4, EnlargeEffect
  <2>2. Resting(id)'
    BY <1>1, <2>1 DEF Resting, NoSlot, Levels
  <2> QED BY <1>0, <1>1, <1>4, <2>1, <2>2
<1> QED BY <1>1, <1>2, <1>3, <1>4 DEF UpdateOrderQuantity, Resting

(* Of two orders of a level the one behind stays behind, unless the one    *)
(* ahead grew.                                                             *)
KeepsAhead(a, b) ==
  /\ Resting(a) /\ Resting(b) /\ Ahead(a, b)
  /\ Resting(a)' /\ Resting(b)'
  /\ PeekOrder(a)'.quantity <= PeekOrder(a).quantity
  => Ahead(a, b)'

LEMMA BookStepKeepsAhead ==
  ASSUME BookShape, IndexConsistent, [BookNext]_bookVars, NEW a \in Ids, NEW b \in Ids
  PROVE  KeepsAhead(a, b)
<1> USE DEF KeepsAhead
<1>1. SameOrder(a) /\ SameOrder(b) => KeepsAhead(a, b)
  BY DEF SameOrder, Ahead
<1>2. ASSUME NEW o \in Entry, NewOrder(o)
      PROVE  KeepsAhead(a, b)
  <2>1. ~ Resting(o.system_id) /\ \A i \in Ids \ {o.system_id} : SameOrder(i)
    BY <1>2, CreateOrderEffect DEF NewOrder
  <2> QED BY <1>1, <2>1
<1>3. ASSUME NEW o \in Entry, Amend(o)
      PROVE  KeepsAhead(a, b)
  <2> DEFINE id == o.system_id
  <2>1. /\ LUT'[id][1] = LUT[id][1]
        /\ PeekOrder(id)'.quantity = o.quantity
        /\ o.quantity <= PeekOrder(id).quantity => LUT'[id] = LUT[id]
        /\ o.quantity > PeekOrder(id).quantity
             => LUT'[id][2] = Len(book[LUT[id][1]]) + 1
        /\ \A i \in Ids \ {id} : SameOrder(i)
    BY <1>3, UpdateEffect DEF Amend
  <2>2. id \in Ids /\ o.quantity \in Nat /\ PeekOrder(id).quantity \in Nat
    <3>1. id \in Ids /\ Resting(id)
      BY <1>3 DEF Entry, Amend
    <3> QED BY <3>1, SlotOfResting DEF Entry
  <2>3. CASE a # id /\ b # id
    BY <1>1, <2>1, <2>3
  <2>4. CASE a = id /\ b # id
    <3>1. PeekOrder(a)'.quantity <= PeekOrder(a).quantity => LUT'[a] = LUT[a]
      BY <2>1, <2>4
    <3>2. LUT'[b] = LUT[b]
      BY <2>1, <2>4 DEF SameOrder
    <3> QED BY <3>1, <3>2 DEF Ahead
  <2>5. CASE b = id /\ a # id
    <3>1. LUT'[a] = LUT[a] /\ LUT'[b][1] = LUT[b][1]
      BY <2>1, <2>5 DEF SameOrder
    <3>2. ASSUME Resting(a), Resting(b), Ahead(a, b)
          PROVE  LUT[a][2] < LUT'[b][2]
      <4>1. CASE LUT'[b] = LUT[b]
        BY <3>2, <4>1 DEF Ahead
      <4>2. CASE LUT'[b][2] = Len(book[LUT[b][1]]) + 1
        <5>1. /\ LUT[a][2] <= Len(book[LUT[a][1]]) /\ LUT[a][1] = LUT[b][1]
              /\ LUT[a][2] \in Nat /\ book[LUT[a][1]] \in Seq(Entry)
          BY <3>2, SlotOfResting DEF Ahead
        <5>2. Len(book[LUT[a][1]]) \in Nat
          BY <5>1
        <5> QED BY <4>2, <5>1, <5>2
      <4>3. o.quantity <= PeekOrder(id).quantity \/ o.quantity > PeekOrder(id).quantity
        BY <2>2
      <4> QED BY <2>1, <2>5, <4>1, <4>2, <4>3
    <3> QED BY <3>1, <3>2 DEF Ahead
  <2>6. CASE a = id /\ b = id
    <3>1. ~ (Resting(a) /\ Ahead(a, b))
      BY <2>6, SlotOfResting DEF Ahead
    <3> QED BY <3>1
  <2> QED BY <2>3, <2>4, <2>5, <2>6
<1>4. ASSUME NEW id \in Ids, NEW n \in Quantities \ {0}, PartialFill(id, n)
      PROVE  KeepsAhead(a, b)
  BY <1>4 DEF PartialFill, TakeQuantity, Ahead
<1>5. ASSUME NEW id \in Ids, DeleteOrder(id)
      PROVE  KeepsAhead(a, b)
  <2>1. LUT'[id] = NoSlot /\ \A i \in Ids \ {id} : SameOrder(i)
    BY <1>5, DeleteOrderEffect
  <2> QED BY <1>1, <2>1 DEF Resting
<1>6. CASE UNCHANGED bookVars
  BY <1>6 DEF bookVars, Ahead
<1>7. ASSUME NEW id \in Ids, NEW p \in Prices, NEW n \in Quantities, NEW t \in Traders
      PROVE  [system_id |-> id, price |-> p, quantity |-> n, trade_id |-> t] \in Entry
  BY OrderBookAssumption DEF Entry
<1> QED BY <1>2, <1>3, <1>4, <1>5, <1>6, <1>7 DEF BookNext

(* No operation lets an order overtake another of its level, except that   *)
(* an order whose quantity grew goes behind the others.                    *)
THEOREM BookTimePriority == BookSpec => TimePriorityKept
<1>1. BookInit => BookShape /\ IndexConsistent
  BY BookInitKeepsIndex
<1>2. BookShape /\ IndexConsistent /\ [BookNext]_bookVars
        => BookShape' /\ IndexConsistent'
  BY BookStepKeepsIndex
<1>3. BookShape /\ IndexConsistent /\ [BookNext]_bookVars
        => [\A a, b \in Ids :
             /\ Resting(a) /\ Resting(b) /\ Ahead(a, b)
             /\ Resting(a)' /\ Resting(b)'
             /\ PeekOrder(a)'.quantity <= PeekOrder(a).quantity
             => Ahead(a, b)']_bookVars
  BY BookStepKeepsAhead DEF KeepsAhead
<1> QED BY <1>1, <1>2, <1>3, PTL DEF BookSpec, TimePriorityKept

-----------------------------------------------------------------------------
(* Every order of the look-up table has quantity left.  It holds while     *)
(* nobody amends an order to quantity zero, and it is what relates the     *)
(* counts to the entries a matching loop can trade with.                   *)

EveryOrderLive == \A id \in Ids : Resting(id) => PeekOrder(id).quantity > 0

(* An operation keeps every order live that leaves all orders but one as   *)
(* they were, and that one with quantity or forgotten.                     *)
LEMMA OthersSameKeepLive ==
  ASSUME EveryOrderLive, NEW id \in Ids, \A i \in Ids \ {id} : SameOrder(i),
         LUT'[id] = NoSlot \/ PeekOrder(id)'.quantity > 0
  PROVE  EveryOrderLive'
BY DEF EveryOrderLive, SameOrder, Resting

(* A step of the book on its own keeps every order live when no quantity   *)
(* is zero.                                                                *)
LEMMA BookStepKeepsLive ==
  ASSUME 0 \notin Quantities, BookInv, EveryOrderLive, [BookNext]_bookVars
  PROVE  EveryOrderLive'
<1> USE DEF BookInv
<1>1. ASSUME NEW o \in Entry, NewOrder(o)
      PROVE  EveryOrderLive'
  BY <1>1, CreateOrderEffect, OthersSameKeepLive DEF NewOrder, Entry
<1>2. ASSUME NEW o \in Entry, o.quantity \in Quantities, Amend(o)
      PROVE  EveryOrderLive'
  <2>1. o.system_id \in Ids /\ o.quantity > 0
    BY <1>2, OrderBookAssumption DEF Entry
  <2> QED BY <1>2, <2>1, UpdateEffect, OthersSameKeepLive DEF Amend
<1>3. ASSUME NEW id \in Ids, NEW n \in Quantities \ {0}, PartialFill(id, n)
      PROVE  EveryOrderLive'
  <2>1. Resting(id) /\ n < PeekOrder(id).quantity /\ n \in Nat /\ TakeQuantity(LUT[id], n)
    BY <1>3, OrderBookAssumption DEF PartialFill
  <2>2. PeekOrder(id) \in Entry /\ PeekOrder(id).quantity \in Nat
    BY <2>1, SlotOfResting DEF Entry
  <2>3. /\ PeekOrder(id)' = [PeekOrder(id) EXCEPT !.quantity = @ - n]
        /\ \A i \in Ids \ {id} : SameOrder(i)
    BY <2>1, <2>2, TakeQuantityEffect
  <2>4. PeekOrder(id)'.quantity > 0
    BY <2>1, <2>2, <2>3 DEF Entry
  <2> QED BY <2>3, <2>4, OthersSameKeepLive
<1>4. ASSUME NEW id \in Ids, DeleteOrder(id)
      PROVE  EveryOrderLive'
  BY <1>4, DeleteOrderEffect, OthersSameKeepLive
<1>5. ASSUME UNCHANGED bookVars
      PROVE  EveryOrderLive'
  BY <1>5 DEF bookVars, EveryOrderLive, Resting, PeekOrder, EntryAt
<1>6. ASSUME NEW id \in Ids, NEW p \in Prices, NEW n \in Quantities, NEW t \in Traders
      PROVE  [system_id |-> id, price |-> p, quantity |-> n, trade_id |-> t] \in Entry
  BY OrderBookAssumption DEF Entry
<1> QED BY <1>1, <1>2, <1>3, <1>4, <1>5, <1>6 DEF BookNext


(* A slot that leads to a live entry, and a live entry of a placed id: the *)
(* two descriptions of a level's live orders.                              *)
LEMMA LiveColumnsPlaced ==
  ASSUME BookShape, IndexConsistent, NEW p \in Levels, NEW c \in LiveColumns(p)
  PROVE  /\ book[p][c].system_id \in Placed(p)
         /\ LUT[book[p][c].system_id] = <<p, c>>
<1>1. c \in DOMAIN book[p] /\ book[p] \in Seq(Entry)
  BY DEF LiveColumns, BookShape
<1>2. book[p][c].system_id \in Ids
  BY <1>1, EntryFields
<1>3. LUT[book[p][c].system_id] = <<p, c>>
  BY DEF IndexConsistent, LiveEntriesIndexed
<1> QED BY <1>2, <1>3 DEF Placed

LEMMA PlacedLiveColumns ==
  ASSUME BookShape, IndexConsistent, EveryOrderLive,
         NEW p \in Levels, NEW id \in Placed(p)
  PROVE  LUT[id][2] \in LiveColumns(p) /\ book[p][LUT[id][2]].system_id = id
<1>1. id \in Ids /\ LUT[id][1] = p
  BY DEF Placed
<1>2. Resting(id)
  BY <1>1 DEF Resting, NoSlot, Levels
<1>3. LUT[id][2] \in DOMAIN book[p] /\ book[p][LUT[id][2]].system_id = id
  BY <1>1, <1>2 DEF IndexConsistent, SlotsLeadHome, PeekOrder, EntryAt
<1>4. book[p][LUT[id][2]].quantity > 0
  BY <1>1, <1>2 DEF EveryOrderLive, PeekOrder, EntryAt
<1> QED BY <1>3, <1>4 DEF LiveColumns

(* The best price in terms of the entries.                                 *)
LEMMA BestPriceFollows ==
  ASSUME BookInv, EveryOrderLive
  PROVE  BestPriceExact
<1> USE DEF BookInv
<1>1. ASSUME NEW p \in Levels, Better(p, best_price)
      PROVE  LiveColumns(p) = {}
  <2> SUFFICES ASSUME NEW c \in LiveColumns(p)
               PROVE  FALSE
    OBVIOUS
  <2>1. active_counts[p] > 0
    BY LiveColumnsPlaced, PlacedPositive
  <2>2. active_counts[p] = 0
    BY <1>1 DEF BestInv, NoneBetter
  <2> QED BY <2>1, <2>2
<1>2. ASSUME best_price # Sentinel
      PROVE  LiveColumns(best_price) # {}
  <2>1. best_price \in Levels /\ active_counts[best_price] > 0
    BY <1>2 DEF BestInv, BestIsActive
  <2>2. Placed(best_price) # {}
    BY <2>1, PlacedFinite, FS_EmptySet
  <2> QED BY <2>1, <2>2, PlacedLiveColumns
<1> QED BY <1>1, <1>2 DEF BestPriceExact

(* The counts in terms of the entries: the slots of the ids of a level are *)
(* a bijection onto its live entries.                                      *)
LEMMA ActiveCountsFollow ==
  ASSUME BookInv, EveryOrderLive
  PROVE  ActiveCountsLive
<1> USE DEF BookInv
<1> SUFFICES ASSUME NEW p \in Levels
             PROVE  active_counts[p] = Cardinality(LiveColumns(p))
  BY DEF ActiveCountsLive
<1> DEFINE f == [id \in Placed(p) |-> LUT[id][2]]
<1>1. f \in [Placed(p) -> LiveColumns(p)]
  BY PlacedLiveColumns
<1>2. \A a, b \in Placed(p) : f[a] = f[b] => a = b
  BY PlacedLiveColumns
<1>3. \A c \in LiveColumns(p) : \E a \in Placed(p) : f[a] = c
  BY LiveColumnsPlaced
<1>4. f \in Bijection(Placed(p), LiveColumns(p))
  BY <1>1, <1>2, <1>3, Fun_IsBij
<1>5. ExistsBijection(Placed(p), LiveColumns(p))
  BY <1>4 DEF ExistsBijection
<1> QED BY <1>5, PlacedFinite, FS_Bijection

(* With positive quantities the best price is exact in every state: it is  *)
(* the most aggressive level with an entry to trade with.                  *)
THEOREM BookBestPrice ==
  ASSUME 0 \notin Quantities
  PROVE  BookSpec => []BestPriceExact
<1>1. BookInit => BookInv /\ EveryOrderLive
  BY BookInitInv DEF BookInit, EveryOrderLive, Resting
<1>2. BookInv /\ EveryOrderLive /\ [BookNext]_bookVars => BookInv' /\ EveryOrderLive'
  BY BookStepKeepsInv, BookStepKeepsLive
<1>3. BookInv /\ EveryOrderLive => BestPriceExact
  BY BestPriceFollows
<1> QED BY <1>1, <1>2, <1>3, PTL DEF BookSpec

(* With positive quantities active_counts is the number of live entries of *)
(* each level, in every state.                                             *)
THEOREM BookActiveCounts ==
  ASSUME 0 \notin Quantities
  PROVE  BookSpec => []ActiveCountsLive
<1>1. BookInit => BookInv /\ EveryOrderLive
  BY BookInitInv DEF BookInit, EveryOrderLive, Resting
<1>2. BookInv /\ EveryOrderLive /\ [BookNext]_bookVars => BookInv' /\ EveryOrderLive'
  BY BookStepKeepsInv, BookStepKeepsLive
<1>3. BookInv /\ EveryOrderLive => ActiveCountsLive
  BY ActiveCountsFollow
<1> QED BY <1>1, <1>2, <1>3, PTL DEF BookSpec

=============================================================================
