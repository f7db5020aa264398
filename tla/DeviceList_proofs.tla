-------------------------- MODULE DeviceList_proofs --------------------------
(***************************************************************************)
(* For any number of devices, names, keys and calls: the type invariant,    *)
(* the row that `u` hits, and the one device that `unpair <prefix>` picks.  *)
(***************************************************************************)
EXTENDS DeviceList, FiniteSetTheorems, TLAPS

\* What an object says of itself is its own id, or nothing.
GotInv == \A d \in DOMAIN got : got[d] # None => got[d] \in Row /\ got[d].id \in {d, None}

\* The rows are in the order of their names, there are no more of them than devices,
\* and two of one id have none.
RowsInv ==
    /\ Len(rows) <= Cardinality(Devices)
    /\ \A i, j \in DOMAIN rows : i < j => NameOf(rows[i]) <= NameOf(rows[j])
    /\ \A i, j \in DOMAIN rows : i # j /\ rows[i].id = rows[j].id => rows[i].id = None

\* Devices in the order of their names, each once.
InOrder(s) ==
    /\ \A i, j \in DOMAIN s : i < j => name[s[i]] <= name[s[j]]
    /\ \A i, j \in DOMAIN s : i # j => s[i] # s[j]
Listings(S) == {s \in Seq(S) : InOrder(s) /\ \A d \in S : \E i \in DOMAIN s : s[i] = d}

\* A key that no arrow is ahead of was typed with the cursor at `selected`: where the rows
\* were drawn and have but one order, its human saw the cursor on that one of them.
NoArrow(k) == k.key \notin {"up", "down"}
SeesCursor(k) ==
    k.drawn /\ Distinct(k.of) => \A s \in Listings(k.of) :
        k.on = IF selected < Len(s) THEN s[selected + 1] ELSE None
KeyInv ==
    \A n \in DOMAIN typed :
        typed[n].still =>
            (\A m \in 1..(n - 1) : NoArrow(typed[m])) /\ SeesCursor(typed[n])

\* A device that was listed all the while has answered with its id, or has yet to.
StayedInv ==
    client = "cli" /\ stage \in {"reading", "picked"} =>
        /\ stayed \subseteq objs /\ (stayed # {} => up)
        /\ \A d \in stayed : d \in todo \/ (d \in DOMAIN got /\ got[d] # None /\ got[d].id = d)

\* What was picked is picked once, from all the answers.
PickedInv == stage = "picked" => client = "cli" /\ todo = {} /\ Cardinality(Matches) = 1

IInv == TypeOK /\ GotInv /\ RowsInv /\ KeyInv /\ StayedInv /\ PickedInv
-----------------------------------------------------------------------------
(* Induction over the natural numbers, for sets.                            *)

\* Every set of natural numbers that is not empty has a least element.
LEMMA Least == ASSUME NEW T \in SUBSET Nat, T # {} PROVE \E x \in T : \A y \in T : x <= y
  <1> DEFINE R == {ss \in Nat \X Nat : ss[1] < ss[2]}
  <1>1. IsWellFoundedOn(R, Nat)
    BY NatLessThanWellFounded DEF OpToRel
  <1> HIDE DEF R
  <1>2. PICK x \in T : \A y \in T : <<y, x>> \notin R
    BY <1>1, WFMin
  <1>3. \A y \in T : ~(y < x)
    BY <1>2 DEF R
  <1> QED
    BY <1>2, <1>3

\* A set that has 0 and every successor has them all.
LEMMA Induction ==
    ASSUME NEW T, 0 \in T, \A n \in Nat : n \in T => n + 1 \in T
    PROVE  Nat \subseteq T
  <1> SUFFICES ASSUME Nat \ T # {} PROVE FALSE
    OBVIOUS
  <1>1. PICK x \in Nat \ T : \A y \in Nat \ T : x <= y
    BY Least
  <1>2. x # 0 /\ x - 1 \in Nat
    BY <1>1
  <1>3. x - 1 \in T
    BY <1>1, <1>2
  <1> QED
    BY <1>1, <1>2, <1>3

-----------------------------------------------------------------------------
(* Lists in order.                                                          *)

\* Where neighbours are in order, all are.
LEMMA NeighboursSuffice ==
    ASSUME NEW n \in Nat, NEW v \in [1..n -> Nat], \A i \in 2..n : v[i - 1] <= v[i]
    PROVE  \A i, j \in 1..n : i < j => v[i] <= v[j]
  <1> SUFFICES ASSUME NEW i \in 1..n PROVE \A j \in 1..n : i < j => v[i] <= v[j]
    OBVIOUS
  <1> DEFINE T == {k \in Nat : i + k <= n => v[i] <= v[i + k]}
  <1>1. 0 \in T
    OBVIOUS
  <1>2. ASSUME NEW k \in Nat, k \in T PROVE k + 1 \in T
    <2> SUFFICES ASSUME i + (k + 1) <= n PROVE v[i] <= v[i + (k + 1)]
      OBVIOUS
    <2>1. i + k \in 1..n /\ i + (k + 1) \in 2..n
      OBVIOUS
    <2>2. v[i] <= v[i + k]
      BY <1>2, <2>1
    <2>3. v[(i + (k + 1)) - 1] <= v[i + (k + 1)]
      BY <2>1
    <2>4. (i + (k + 1)) - 1 = i + k
      OBVIOUS
    <2> QED
      BY <2>1, <2>2, <2>3, <2>4
  <1>3. Nat \subseteq T
    <2> HIDE DEF T
    <2> QED
      BY <1>1, <1>2, Induction
  <1>4. ASSUME NEW j \in 1..n, i < j PROVE v[i] <= v[j]
    <2>1. j - i \in Nat /\ i + (j - i) = j
      BY <1>4
    <2>2. j - i \in T
      BY <1>3, <2>1
    <2> QED
      BY <2>1, <2>2
  <1> QED
    BY <1>4

\* A listing is a sequence of the devices, in order, with each of them in it.
LEMMA ListingFacts ==
    ASSUME NEW S, NEW s \in Listings(S)
    PROVE  /\ s \in Seq(S) /\ Len(s) \in Nat /\ DOMAIN s = 1..Len(s)
           /\ \A i \in DOMAIN s : i \in Nat /\ s[i] \in S
           /\ \A i, j \in DOMAIN s : i < j => name[s[i]] <= name[s[j]]
           /\ \A i, j \in DOMAIN s : i # j => s[i] # s[j]
           /\ \A d \in S : \E i \in DOMAIN s : s[i] = d
  BY DEF Listings, InOrder

\* What stands later in t stands no earlier in s than where the two first differ.
LEMMA NoEarlier ==
    ASSUME NEW S, NEW s \in Listings(S), NEW t \in Listings(S),
           NEW k \in DOMAIN s \cap DOMAIN t, s[k] # t[k],
           \A i \in DOMAIN s \cap DOMAIN t : i < k => s[i] = t[i]
    PROVE  name[t[k]] <= name[s[k]]
  <1>1. s[k] \in S /\ k \in Nat
    BY ListingFacts
  <1>2. PICK j \in DOMAIN t : t[j] = s[k]
    BY <1>1, ListingFacts
  <1>3. j \in Nat /\ j # k
    BY <1>2, ListingFacts
  <1>4. ~(j < k)
    <2> SUFFICES ASSUME j < k PROVE FALSE
      OBVIOUS
    <2>1. j \in DOMAIN s
      BY <1>1, <1>3, ListingFacts
    <2> QED
      BY <1>2, <1>3, <2>1, ListingFacts
  <1>5. k < j
    BY <1>1, <1>3, <1>4
  <1> QED
    BY <1>2, <1>5, ListingFacts

\* Devices whose names differ have but one order.
LEMMA OneOrder ==
    ASSUME NEW S \in SUBSET Devices, name \in Namings, Distinct(S),
           NEW s \in Listings(S), NEW t \in Listings(S)
    PROVE  \A i \in DOMAIN s \cap DOMAIN t : s[i] = t[i]
  <1> DEFINE Differ == {i \in DOMAIN s \cap DOMAIN t : s[i] # t[i]}
  <1> SUFFICES ASSUME Differ # {} PROVE FALSE
    OBVIOUS
  <1>1. Differ \in SUBSET Nat
    BY ListingFacts
  <1>2. PICK k \in Differ : \A i \in Differ : k <= i
    BY <1>1, Least
  <1>3. k \in DOMAIN s \cap DOMAIN t /\ s[k] # t[k]
    BY <1>2
  <1>4. \A i \in DOMAIN s \cap DOMAIN t : i < k => s[i] = t[i]
    <2>1. \A i \in DOMAIN s \cap DOMAIN t : i \in Nat /\ (i \notin Differ => s[i] = t[i])
      BY ListingFacts
    <2> HIDE DEF Differ
    <2> QED
      BY <1>1, <1>2, <2>1
  <1> HIDE DEF Differ
  <1>5. name[t[k]] <= name[s[k]] /\ name[s[k]] <= name[t[k]]
    BY <1>3, <1>4, NoEarlier
  <1>6. s[k] \in S /\ t[k] \in S
    BY <1>3, ListingFacts
  <1>7. name[s[k]] \in Nat /\ name[t[k]] \in Nat
    BY <1>6, NamingsAssumption
  <1>8. name[s[k]] = name[t[k]]
    BY <1>5, <1>7
  <1> QED
    BY <1>3, <1>6, <1>8 DEF Distinct

\* Two lists of the same devices, each once, are equally long.
LEMMA OneLength ==
    ASSUME NEW S, NEW s \in Listings(S), NEW t \in Listings(S)
    PROVE  Len(s) = Len(t)
  <1>1. ASSUME NEW q \in Listings(S) PROVE Cardinality(S) = Len(q)
    <2>1. q \in [1..Len(q) -> S] /\ Len(q) \in Nat /\ DOMAIN q = 1..Len(q)
      BY ListingFacts
    <2>2. q \in Bijection(1..Len(q), S)
      <3>1. \A i, j \in DOMAIN q : q[i] = q[j] => i = j
        BY ListingFacts
      <3>2. \A d \in S : \E i \in DOMAIN q : q[i] = d
        BY ListingFacts
      <3> QED
        BY <2>1, <3>1, <3>2 DEF Bijection, Injection, Surjection, IsInjective
    <2> QED
      BY <2>1, <2>2, FS_CountingElements DEF ExistsBijection
  <1> QED
    BY <1>1
-----------------------------------------------------------------------------
(* The rows.                                                                *)

\* The devices on the screen, from the top.
RowIds == [i \in DOMAIN rows |-> rows[i].id]

\* Where they all have ids and names of their own, they are in the one order.
LEMMA ScreenIsListing ==
    ASSUME TypeOK, RowsInv, Distinct(Ids)
    PROVE  /\ RowIds \in Listings(Ids) /\ Ids \in SUBSET Devices
           /\ Cursor = IF selected < Len(RowIds) THEN RowIds[selected + 1] ELSE None
  <1>1. rows \in Seq(Row) /\ Len(rows) \in Nat /\ DOMAIN rows = 1..Len(rows)
    BY DEF TypeOK
  <1>2. \A i \in DOMAIN rows : rows[i].id \in Ids
    BY DEF Ids
  <1>3. RowIds \in Seq(Ids) /\ Len(RowIds) = Len(rows) /\ DOMAIN RowIds = DOMAIN rows
    BY <1>1, <1>2 DEF RowIds
  <1>4. \A i \in DOMAIN rows : rows[i].id # None /\ rows[i] \in Row
    BY <1>1, <1>2 DEF Distinct
  <1>5. Ids \in SUBSET Devices
    BY <1>4 DEF Ids, Row
  <1>6. InOrder(RowIds)
    <2>1. \A i \in DOMAIN rows : NameOf(rows[i]) = name[RowIds[i]]
      BY <1>4 DEF NameOf, RowIds
    <2>2. \A i, j \in DOMAIN rows : i < j => name[RowIds[i]] <= name[RowIds[j]]
      BY <2>1 DEF RowsInv
    <2>3. \A i, j \in DOMAIN rows : i # j => RowIds[i] # RowIds[j]
      BY <1>4 DEF RowsInv, RowIds
    <2> QED
      BY <1>3, <2>2, <2>3 DEF InOrder
  <1>7. \A d \in Ids : \E i \in DOMAIN RowIds : RowIds[i] = d
    BY <1>3 DEF Ids, RowIds
  <1>8. Cursor = IF selected < Len(RowIds) THEN RowIds[selected + 1] ELSE None
    <2>1. selected \in Nat
      BY DevicesAssumption, FS_CardinalityType DEF TypeOK
    <2> QED
      BY <1>1, <1>3, <2>1 DEF Cursor, RowIds
  <1> QED
    BY <1>3, <1>5, <1>6, <1>7, <1>8 DEF Listings

\* Where the screen has but one order, every listing of it has the cursor's row there.
LEMMA CursorInListings ==
    ASSUME TypeOK, RowsInv, Distinct(Ids), NEW s \in Listings(Ids)
    PROVE  Cursor = IF selected < Len(s) THEN s[selected + 1] ELSE None
  <1>1. /\ RowIds \in Listings(Ids) /\ Ids \in SUBSET Devices
        /\ Cursor = IF selected < Len(RowIds) THEN RowIds[selected + 1] ELSE None
    BY ScreenIsListing
  <1>2. Len(s) = Len(RowIds)
    BY <1>1, OneLength
  <1>3. CASE selected < Len(s)
    <2>1. selected \in Nat
      BY DevicesAssumption, FS_CardinalityType DEF TypeOK
    <2>2. DOMAIN s = 1..Len(s) /\ DOMAIN RowIds = 1..Len(RowIds) /\ Len(s) \in Nat
      BY <1>1, ListingFacts
    <2>3. selected + 1 \in DOMAIN s \cap DOMAIN RowIds
      BY <1>2, <1>3, <2>1, <2>2
    <2>4. s[selected + 1] = RowIds[selected + 1]
      BY <1>1, <2>3, OneOrder DEF TypeOK
    <2> QED
      BY <1>1, <1>2, <1>3, <2>4
  <1>4. CASE ~(selected < Len(s))
    BY <1>1, <1>2, <1>4
  <1> QED
    BY <1>3, <1>4

\* What Refreshed puts on the screen is in order, and no device twice.
LEMMA ListedRows ==
    ASSUME TypeOK, GotInv, NEW r \in Listed
    PROVE  /\ r \in Seq(Row) /\ Len(r) <= Cardinality(Devices)
           /\ \A i, j \in DOMAIN r : i < j => NameOf(r[i]) <= NameOf(r[j])
           /\ \A i, j \in DOMAIN r : i # j /\ r[i].id = r[j].id => r[i].id = None
  <1>1. PICK o \in SetToSeqs(Answered) : r = RowsOf(o)
    BY DEF Listed, SortedRows, UnsortedRows, Orders
  <1> DEFINE n == Cardinality(Answered)
  <1>2. Answered \in SUBSET Devices /\ Answered \subseteq DOMAIN got
    BY DEF Answered, TypeOK
  <1>3. n \in Nat /\ n <= Cardinality(Devices)
    BY <1>2, DevicesAssumption, FS_Subset, FS_CardinalityType
  <1>4. o \in [1..n -> Answered] /\ \A i, j \in 1..n : i # j => o[i] # o[j]
    BY <1>1 DEF SetToSeqs
  <1>5. \A d \in Answered : got[d] \in Row /\ got[d].id \in {d, None}
    BY <1>2 DEF Answered, GotInv
  <1> HIDE DEF n
  <1>6. DOMAIN r = 1..n /\ \A i \in 1..n : r[i] = got[o[i]]
    BY <1>1, <1>4 DEF RowsOf
  <1>7. r \in [1..n -> Row]
    BY <1>1, <1>4, <1>5 DEF RowsOf
  <1>8. r \in Seq(Row) /\ Len(r) = n
    BY <1>3, <1>7
  <1>9. \A i, j \in DOMAIN r : i < j => NameOf(r[i]) <= NameOf(r[j])
    <2> DEFINE v == [i \in 1..n |-> NameOf(r[i])]
    <2>1. \A x \in Row : NameOf(x) \in Nat
      BY NamingsAssumption DEF NameOf, Row, TypeOK
    <2>2. v \in [1..n -> Nat]
      BY <1>7, <2>1
    <2>3. \A i \in 2..n : NameOf(r[i - 1]) <= NameOf(r[i])
      BY <1>8 DEF Listed, SortedRows
    <2>4. \A i \in 2..n : v[i - 1] <= v[i]
      BY <1>3, <2>3
    <2> HIDE DEF v
    <2>5. \A i, j \in 1..n : i < j => v[i] <= v[j]
      BY <1>3, <2>2, <2>4, NeighboursSuffice
    <2> QED
      BY <1>6, <2>5 DEF v
  <1>10. \A i, j \in DOMAIN r : i # j /\ r[i].id = r[j].id => r[i].id = None
    BY <1>4, <1>5, <1>6
  <1> QED
    BY <1>3, <1>8, <1>9, <1>10
-----------------------------------------------------------------------------
(* The types.                                                               *)

\* An object's properties, or none of them.
LEMMA RowTypes == ASSUME TypeOK, NEW d \in Devices PROVE RowOf(d) \in Row
  BY DEF RowOf, FreshRow, Blank, Row

\* What a call forgets is of no device.
LEMMA ForgottenTypes ==
    ASSUME Forgotten
    PROVE  /\ todo' = {} /\ got' \in [Devices \ {} -> Row \cup {None}]
           /\ DOMAIN got' = Devices /\ \A d \in Devices : got'[d] = None
  BY DEF Forgotten

\* The cursor is on a device, or on none.
LEMMA CursorTypes ==
    ASSUME TypeOK
    PROVE  /\ Cursor \in Devices \cup {None} /\ Ids \subseteq Devices \cup {None}
           /\ \A k \in Keys : [key |-> k, drawn |-> Drawn(k), on |-> AtCursor(k),
                               of |-> OnScreen(k), still |-> Still] \in Key
  <1>1. rows \in [1..Len(rows) -> Row] /\ Len(rows) \in Nat
    BY DEF TypeOK
  <1>2. \A i \in DOMAIN rows : rows[i].id \in Devices \cup {None}
    BY <1>1 DEF Row
  <1>3. selected \in Nat
    BY DevicesAssumption, FS_CardinalityType DEF TypeOK
  <1>4. Cursor \in Devices \cup {None} /\ Ids \subseteq Devices \cup {None}
    BY <1>1, <1>2, <1>3 DEF Cursor, Ids
  <1>5. ASSUME NEW k \in Keys
        PROVE  [key |-> k, drawn |-> Drawn(k), on |-> AtCursor(k), of |-> OnScreen(k),
                still |-> Still] \in Key
    <2>1. Drawn(k) \in BOOLEAN /\ Still \in BOOLEAN
      BY Zenon DEF Drawn, Still
    <2>2. AtCursor(k) \in Devices \cup {None} /\ OnScreen(k) \in SUBSET (Devices \cup {None})
      BY <1>4 DEF AtCursor, OnScreen
    <2> QED
      BY <2>1, <2>2 DEF Key
  <1> QED
    BY <1>4, <1>5

\* No step of the daemon's breaks the types, ...
LEMMA EnvTypes ==
    ASSUME TypeOK, NEW d \in Devices,
           Paired(d) \/ UnpairedElsewhere(d) \/ ComesOrGoes(d) \/ StopOrStart
    PROVE  TypeOK'
  <1> USE DEF TypeOK, given, listing, screen, cli
  <1>1. CASE Paired(d)
    BY <1>1 DEF Paired
  <1>2. CASE UnpairedElsewhere(d)
    BY <1>2 DEF UnpairedElsewhere, Unlisted
  <1>3. CASE ComesOrGoes(d)
    BY <1>3 DEF ComesOrGoes
  <1>4. CASE StopOrStart
    BY <1>4 DEF StopOrStart
  <1> QED
    BY <1>1, <1>2, <1>3, <1>4

\* ... none of list_devices ...
LEMMA ListingTypes ==
    ASSUME TypeOK, GotInv,
           Refresh \/ Refreshed \/ CliLists \/ \E d \in Devices : Reads(d)
    PROVE  TypeOK'
  <1> USE DEF env, given, screen, cli
  <1>1. CASE Refresh
    BY <1>1 DEF Refresh, Lists, TypeOK
  <1>2. CASE CliLists
    BY <1>2 DEF CliLists, Lists, TypeOK
  <1>3. CASE Refreshed
    <2>1. rows' \in Seq(Row)
      BY <1>3, ListedRows DEF Refreshed
    <2>2. todo' \subseteq Devices /\ got' \in [Devices \ todo' -> Row \cup {None}]
      BY <1>3, ForgottenTypes DEF Refreshed
    <2> QED
      BY <1>3, <2>1, <2>2 DEF Refreshed, CodeRefreshed, TypeOK
  <1>4. ASSUME NEW d \in Devices, Reads(d) PROVE TypeOK'
    <2>1. RowOf(d) \in Row
      BY RowTypes
    <2>2. got' \in [Devices \ todo' -> Row \cup {None}]
      BY <1>4, <2>1 DEF Reads, TypeOK
    <2> QED
      BY <1>4, <2>2 DEF Reads, TypeOK
  <1> QED
    BY <1>1, <1>2, <1>3, <1>4

\* ... none of the TUI ...
LEMMA ScreenTypes ==
    ASSUME TypeOK, RowsInv,
           (\E k \in Keys : Type(k)) \/ RefreshFails \/ Prompted \/ Swallowed
               \/ Up \/ Down \/ Pair \/ Yes \/ Esc \/ Quit \/ UnpairKey
    PROVE  TypeOK'
  <1> USE DEF env, given, listing, cli
  <1>1. selected \in Nat /\ Cardinality(Devices) \in Nat /\ Len(rows) \in Nat
    BY DevicesAssumption, FS_CardinalityType DEF TypeOK
  <1>2. ASSUME NEW k \in Keys, Type(k) PROVE TypeOK'
    <2>1. typed' \in Seq(Key)
      <3>1. PICK new \in Key : typed' = Append(typed, new)
        BY <1>2, CursorTypes DEF Type
      <3> QED
        BY <3>1 DEF TypeOK
    <2> QED
      BY <1>2, <2>1 DEF Type, TypeOK
  <1>3. ASSUME NEW k \in Keys, Takes(k) PROVE typed' \in Seq(Key)
    <2>1. typed \in Seq(Key) /\ typed # <<>> /\ typed' = Tail(typed)
      BY <1>3 DEF Takes, TypeOK
    <2> QED
      BY <2>1
  <1>4. CASE Up
    <2>1. selected' \in 0..Cardinality(Devices)
      BY <1>1, <1>4 DEF Up, TypeOK
    <2> QED
      BY <1>3, <1>4, <2>1 DEF Up, Acts, Keys, TypeOK
  <1>5. CASE Down
    <2>1. selected' \in 0..Cardinality(Devices)
      BY <1>1, <1>5 DEF Down, HasNext, RowsInv, TypeOK
    <2> QED
      BY <1>3, <1>5, <2>1 DEF Down, Acts, Keys, TypeOK
  <1>6. CASE UnpairKey
    <2>1. objs' \subseteq Devices /\ live' \subseteq objs' /\ stayed' \subseteq Devices
      BY <1>6 DEF UnpairKey, Call, Unlisted, TypeOK
    <2> QED
      BY <1>3, <1>6, <2>1 DEF UnpairKey, Acts, Keys, TypeOK
  <1>7. CASE Pair \/ Yes
    BY <1>3, <1>7 DEF Pair, Yes, Acts, Keys, TypeOK
  <1>8. CASE Esc
    BY <1>3, <1>8 DEF Esc, Keys, TypeOK
  <1>9. CASE Quit
    BY <1>3, <1>9 DEF Quit, Acts, Keys, TypeOK
  <1>10. CASE Swallowed
    BY <1>3, <1>10 DEF Swallowed, Keys, TypeOK
  <1>11. CASE RefreshFails \/ Prompted
    BY <1>11 DEF RefreshFails, Prompted, CodeRefreshed, TypeOK
  <1> QED
    BY <1>2, <1>4, <1>5, <1>6, <1>7, <1>8, <1>9, <1>10, <1>11

\* ... and none of the CLI.
LEMMA CliTypes ==
    ASSUME TypeOK, CliPicks \/ CliUnpairs \/ CliAgain PROVE TypeOK'
  <1> USE DEF env, given, screen, cli
  <1>1. CASE CliPicks
    BY <1>1 DEF CliPicks, TypeOK
  <1>2. CASE CliUnpairs
    <2>1. objs' \subseteq Devices /\ live' \subseteq objs' /\ stayed' \subseteq Devices
      BY <1>2 DEF CliUnpairs, Call, Unlisted, TypeOK
    <2> QED
      BY <1>2, <2>1, ForgottenTypes DEF CliUnpairs, TypeOK
  <1>3. CASE CliAgain
    BY <1>3, ForgottenTypes DEF CliAgain, TypeOK
  <1> QED
    BY <1>1, <1>2, <1>3
-----------------------------------------------------------------------------
(* What was read, and what is shown.                                        *)

\* Every step keeps the types.
LEMMA Types == ASSUME IInv, [Next]_vars PROVE TypeOK'
  <1> USE DEF IInv
  <1>1. CASE UNCHANGED vars
    BY <1>1 DEF vars, env, given, listing, screen, cli, TypeOK
  <1>2. ASSUME NEW d \in Devices, Paired(d) \/ UnpairedElsewhere(d) \/ ComesOrGoes(d)
        PROVE  TypeOK'
    BY <1>2, EnvTypes
  <1>3. CASE StopOrStart
    BY <1>3 DEF StopOrStart, given, listing, screen, TypeOK
  <1> QED
    BY <1>1, <1>2, <1>3, ListingTypes, ScreenTypes, CliTypes DEF Next

\* An object that is there when it is asked says its own id, and one that is not none.
LEMMA GotKept == ASSUME IInv, [Next]_vars PROVE GotInv'
  <1> USE DEF IInv, GotInv
  <1>1. ASSUME NEW d \in Devices, Reads(d) PROVE GotInv'
    <2>1. RowOf(d) \in Row /\ RowOf(d).id \in {d, None}
      BY RowTypes DEF RowOf, FreshRow, Blank
    <2> QED
      BY <1>1, <2>1 DEF Reads
  <1>2. CASE Refreshed \/ CliUnpairs \/ CliAgain
    BY <1>2, ForgottenTypes DEF Refreshed, CliUnpairs, CliAgain
  <1>3. CASE Refresh \/ CliLists
    BY <1>3 DEF Refresh, CliLists, Lists
  <1>4. CASE UNCHANGED got
    BY <1>4
  <1>5. ASSUME NEW d \in Devices, Paired(d) \/ UnpairedElsewhere(d) \/ ComesOrGoes(d)
        PROVE  UNCHANGED got
    BY <1>5 DEF Paired, UnpairedElsewhere, ComesOrGoes, listing
  <1>6. ASSUME \/ StopOrStart \/ Up \/ Down \/ UnpairKey \/ CliPicks \/ UNCHANGED vars
               \/ RefreshFails \/ Prompted \/ Swallowed \/ Pair \/ Yes \/ Esc \/ Quit
               \/ \E k \in Keys : Type(k)
        PROVE  UNCHANGED got
    BY <1>6 DEF StopOrStart, Up, Down, UnpairKey, CliPicks, Type, RefreshFails, Prompted,
                Swallowed, Pair, Yes, Esc, Quit, vars, listing
  <1> QED
    BY <1>1, <1>2, <1>3, <1>4, <1>5, <1>6 DEF Next

\* Only Refreshed changes the rows.
LEMMA RowsKept == ASSUME IInv, [Next]_vars PROVE RowsInv'
  <1> USE DEF IInv
  <1>1. CASE Refreshed
    <2>1. rows' \in Listed /\ UNCHANGED name
      BY <1>1 DEF Refreshed, given
    <2> QED
      BY <2>1, ListedRows DEF RowsInv, NameOf
  <1>2. CASE UNCHANGED <<rows, name>>
    BY <1>2 DEF RowsInv, NameOf
  <1>3. ASSUME NEW d \in Devices,
               Paired(d) \/ UnpairedElsewhere(d) \/ ComesOrGoes(d) \/ Reads(d)
        PROVE  UNCHANGED <<rows, name>>
    BY <1>3 DEF Paired, UnpairedElsewhere, ComesOrGoes, Reads, screen, given
  <1>4. ASSUME \/ StopOrStart \/ Refresh \/ Up \/ Down \/ UnpairKey \/ UNCHANGED vars
               \/ RefreshFails \/ Prompted \/ Swallowed \/ Pair \/ Yes \/ Esc \/ Quit
               \/ \E k \in Keys : Type(k)
               \/ CliLists \/ CliPicks \/ CliUnpairs \/ CliAgain
        PROVE  UNCHANGED <<rows, name>>
    BY <1>4 DEF StopOrStart, Refresh, Up, Down, UnpairKey, Type, RefreshFails, Prompted,
                Swallowed, Pair, Yes, Esc, Quit, CliLists, CliPicks, CliUnpairs, CliAgain, vars,
                screen, given
  <1> QED
    BY <1>1, <1>2, <1>3, <1>4 DEF Next

-----------------------------------------------------------------------------
(* The keys.                                                                *)

\* What a human saw with a key does not change, nor does the cursor before an arrow is
\* taken, wherever the key now is in the queue.
LEMMA SightStays ==
    ASSUME UNCHANGED <<selected, name>>, NEW m, NEW n, SeesCursor(typed[m]),
           typed'[n] = typed[m]
    PROVE  SeesCursor(typed[n])'
  BY DEF SeesCursor, Distinct, Listings, InOrder

\* A key is typed with the screen as it is.
LEMMA TypedKey ==
    ASSUME IInv, NEW k \in Keys, Type(k)
    PROVE  KeyInv'
  <1>1. PICK l \in Nat : l = Len(typed) /\ DOMAIN typed = 1..l /\ typed \in Seq(Key)
    BY DEF IInv, TypeOK
  <1>2. [key |-> k, drawn |-> Drawn(k), on |-> AtCursor(k), of |-> OnScreen(k),
         still |-> Still] \in Key
    BY CursorTypes DEF IInv
  <1>3. PICK new \in Key : new = [key |-> k, drawn |-> Drawn(k), on |-> AtCursor(k),
                                  of |-> OnScreen(k), still |-> Still]
    BY <1>2
  <1>4. typed' = Append(typed, new) /\ UNCHANGED <<selected, name>>
    BY <1>3 DEF Type, given
  <1>5. /\ DOMAIN typed' = 1..(l + 1) /\ typed'[l + 1] = new
        /\ \A n \in 1..l : typed'[n] = typed[n]
    BY <1>1, <1>4
  <1>6. new.still => \A m \in 1..l : NoArrow(typed[m])
    BY <1>1, <1>3 DEF Still, NoArrow
  <1>7. SeesCursor(typed[l + 1])'
    <2>1. SeesCursor(new)
      <3>1. new.drawn => new.of = Ids /\ new.on = Cursor
        BY <1>3 DEF OnScreen, AtCursor
      <3> QED
        BY <3>1, CursorInListings DEF SeesCursor, IInv
    <2>2. SeesCursor(new)'
      BY <1>4, <2>1 DEF SeesCursor, Distinct, Listings, InOrder
    <2> QED
      BY <1>5, <2>2 DEF SeesCursor
  <1>8. ASSUME NEW n \in 1..l, typed[n].still
        PROVE  (\A m \in 1..(n - 1) : NoArrow(typed'[m])) /\ SeesCursor(typed[n])'
    <2>1. (\A m \in 1..(n - 1) : NoArrow(typed[m])) /\ SeesCursor(typed[n])
      BY <1>1, <1>8 DEF IInv, KeyInv
    <2>2. SeesCursor(typed[n])'
      BY <1>4, <1>5, <2>1, SightStays
    <2> QED
      BY <1>1, <1>5, <2>1, <2>2
  <1> SUFFICES ASSUME NEW n \in DOMAIN typed', typed'[n].still
               PROVE  /\ \A m \in 1..(n - 1) : NoArrow(typed'[m])
                      /\ SeesCursor(typed[n])'
    BY DEF KeyInv
  <1>9. CASE n = l + 1
    <2>1. \A m \in 1..l : NoArrow(typed'[m])
      BY <1>5, <1>6, <1>9
    <2>2. n - 1 = l
      BY <1>1, <1>9
    <2>3. SeesCursor(typed[n])'
      BY <1>7, <1>9
    <2> QED
      BY <2>1, <2>2, <2>3
  <1>10. CASE n \in 1..l
    BY <1>5, <1>8, <1>10
  <1> QED
    BY <1>1, <1>5, <1>9, <1>10

\* A key is taken from the front; one that was behind an arrow did not claim to know
\* where the cursor would be.
LEMMA TakenKey ==
    ASSUME IInv, NEW k \in Keys, Takes(k), UNCHANGED name,
           k \notin {"up", "down"} => UNCHANGED selected
    PROVE  KeyInv'
  <1>1. /\ Len(typed) \in Nat \ {0} /\ typed[1].key = k
        /\ DOMAIN typed' = 1..(Len(typed) - 1) /\ DOMAIN typed = 1..Len(typed)
        /\ \A n \in 1..(Len(typed) - 1) : typed'[n] = typed[n + 1]
    BY DEF IInv, TypeOK, Takes
  <1> SUFFICES ASSUME NEW n \in DOMAIN typed', typed'[n].still
               PROVE  /\ \A m \in 1..(n - 1) : NoArrow(typed'[m])
                      /\ SeesCursor(typed[n])'
    BY DEF KeyInv
  <1>2. n \in Nat /\ n + 1 \in DOMAIN typed /\ typed'[n] = typed[n + 1]
    BY <1>1
  <1>3. (\A m \in 1..((n + 1) - 1) : NoArrow(typed[m])) /\ SeesCursor(typed[n + 1])
    BY <1>2 DEF IInv, KeyInv
  <1>4. 1 \in 1..((n + 1) - 1)
    BY <1>1
  <1>5. k \notin {"up", "down"}
    BY <1>1, <1>3, <1>4 DEF NoArrow
  <1>6. SeesCursor(typed[n])'
    BY <1>2, <1>3, <1>5, SightStays
  <1>7. ASSUME NEW m \in 1..(n - 1) PROVE NoArrow(typed'[m])
    <2>1. m + 1 \in 1..((n + 1) - 1) /\ m \in 1..(Len(typed) - 1)
      BY <1>1, <1>2
    <2> QED
      BY <1>1, <1>3, <2>1
  <1> QED
    BY <1>6, <1>7

\* All other steps leave the keys and the cursor alone.
LEMMA KeysKept == ASSUME IInv, [Next]_vars PROVE KeyInv'
  <1>1. CASE UNCHANGED <<typed, selected, name>>
    BY <1>1 DEF IInv, KeyInv, SeesCursor, Distinct, Listings, InOrder
  <1>2. ASSUME NEW d \in Devices,
               Paired(d) \/ UnpairedElsewhere(d) \/ ComesOrGoes(d) \/ Reads(d)
        PROVE  UNCHANGED <<typed, selected, name>>
    BY <1>2 DEF Paired, UnpairedElsewhere, ComesOrGoes, Reads, screen, given
  <1>3. ASSUME \/ StopOrStart \/ Refresh \/ Refreshed \/ RefreshFails \/ Prompted \/ UNCHANGED vars
               \/ CliLists \/ CliPicks \/ CliUnpairs \/ CliAgain
        PROVE  UNCHANGED <<typed, selected, name>>
    BY <1>3 DEF StopOrStart, Refresh, Refreshed, RefreshFails, Prompted, CliLists, CliPicks,
                CliUnpairs, CliAgain, vars, screen, given
  <1>4. CASE Up \/ Down \/ Pair \/ Yes \/ Esc \/ Quit \/ UnpairKey
    BY <1>4, TakenKey DEF Up, Down, Pair, Yes, Esc, Quit, UnpairKey, Acts, Keys, given
  <1>5. CASE Swallowed
    <2>1. UNCHANGED <<selected, name>> /\ \E k \in Keys : Takes(k)
      BY <1>5 DEF Swallowed, Keys, given
    <2> QED
      BY <2>1, TakenKey
  <1> QED
    BY <1>1, <1>2, <1>3, <1>4, <1>5, TypedKey DEF Next
-----------------------------------------------------------------------------
(* The CLI's call.                                                          *)

\* What a device that was listed all the while has said, or will say.
Says(d) == d \in todo \/ (d \in DOMAIN got /\ got[d] # None /\ got[d].id = d)

\* The daemon's objects change as it goes, and the history with them.
LEMMA StayedEnv ==
    ASSUME IInv, NEW d \in Devices,
           Paired(d) \/ UnpairedElsewhere(d) \/ ComesOrGoes(d) \/ StopOrStart
    PROVE  StayedInv' /\ PickedInv'
  <1> USE DEF IInv, given, listing, cli, StayedInv, PickedInv, Matches, Answered
  <1>1. CASE Paired(d)
    BY <1>1 DEF Paired
  <1>2. CASE UnpairedElsewhere(d)
    BY <1>2 DEF UnpairedElsewhere, Unlisted
  <1>3. CASE ComesOrGoes(d)
    BY <1>3 DEF ComesOrGoes
  <1>4. CASE StopOrStart
    BY <1>4 DEF StopOrStart
  <1> QED
    BY <1>1, <1>2, <1>3, <1>4

\* A device that is still paired, asked by a daemon that still runs, says who it is.
LEMMA StayedReads ==
    ASSUME IInv, NEW d \in Devices, Reads(d)
    PROVE  StayedInv' /\ PickedInv'
  <1>1. UNCHANGED <<up, objs, client, stage, stayed>> /\ stage = "reading"
    BY DEF Reads, env, given, cli
  <1>2. PickedInv'
    BY <1>1 DEF PickedInv
  <1>3. ASSUME client = "cli", NEW e \in stayed PROVE Says(e)'
    <2>1. stayed \subseteq objs /\ up /\ Says(e)
      BY <1>1, <1>3 DEF IInv, StayedInv, Says
    <2>2. CASE e = d
      <3>1. RowOf(d) \in Row /\ RowOf(d).id = d
        BY <1>3, <2>1, <2>2, RowTypes DEF IInv, RowOf, FreshRow
      <3>2. d \in DOMAIN got' /\ got'[d] = RowOf(d)
        BY DEF Reads
      <3> QED
        BY <2>2, <3>1, <3>2, NoneAssumption DEF Says
    <2>3. CASE e # d
      BY <2>1, <2>3 DEF Reads, Says
    <2> QED
      BY <2>2, <2>3
  <1>4. StayedInv'
    BY <1>1, <1>3 DEF IInv, StayedInv, Says
  <1> QED
    BY <1>2, <1>4

\* A call begins with the devices there are, and one that ends has nothing to keep.
LEMMA StayedKept == ASSUME IInv, [Next]_vars PROVE StayedInv' /\ PickedInv'
  <1>1. CASE CliLists
    BY <1>1 DEF CliLists, Lists, env, given, StayedInv, PickedInv
  <1>2. CASE CliPicks
    BY <1>2 DEF CliPicks, env, given, cli, IInv, StayedInv, PickedInv, Matches, Answered,
                OneMatch
  <1>3. CASE CliUnpairs \/ CliAgain
    BY <1>3 DEF CliUnpairs, CliAgain, StayedInv, PickedInv
  <1>4. ASSUME client = "tui", UNCHANGED client, stage' # "picked"
        PROVE  StayedInv' /\ PickedInv'
    BY <1>4 DEF StayedInv, PickedInv
  <1>5. CASE Refresh \/ Refreshed
    BY <1>4, <1>5 DEF Refresh, Refreshed, Lists, given
  <1>6. CASE \/ Up \/ Down \/ Pair \/ Yes \/ Esc \/ Quit \/ UnpairKey \/ Swallowed
             \/ RefreshFails \/ Prompted
    BY <1>4, <1>6 DEF Up, Down, Pair, Yes, Esc, Quit, UnpairKey, Swallowed, RefreshFails, Prompted,
                      Acts, Takes, given, listing, IInv, PickedInv
  <1>9. CASE \E k \in Keys : Type(k)
    BY <1>4, <1>9 DEF Type, given, listing, IInv, PickedInv
  <1>7. CASE UNCHANGED vars
    BY <1>7 DEF vars, env, given, listing, cli, IInv, StayedInv, PickedInv, Matches, Answered
  <1>8. CASE StopOrStart
    BY <1>8 DEF StopOrStart, given, listing, IInv, StayedInv, PickedInv, Matches, Answered
  <1> QED
    BY <1>1, <1>2, <1>3, <1>5, <1>6, <1>7, <1>8, <1>9, StayedEnv, StayedReads DEF Next

-----------------------------------------------------------------------------
(* The theorems.                                                           *)

\* A client starts with nothing read, shown or typed.
LEMMA InitInv == Init => IInv
  <1> SUFFICES ASSUME Init PROVE IInv
    OBVIOUS
  <1>1. Cardinality(Devices) \in Nat
    BY DevicesAssumption, FS_CardinalityType
  <1>2. TypeOK
    BY <1>1 DEF Init, TypeOK
  <1>3. GotInv /\ StayedInv /\ PickedInv
    BY DEF Init, GotInv, StayedInv, PickedInv
  <1>4. RowsInv /\ KeyInv
    BY <1>1 DEF Init, RowsInv, KeyInv
  <1> QED
    BY <1>2, <1>3, <1>4 DEF IInv

\* The inductive invariant.
THEOREM Invariance == Spec => []IInv
  <1>1. IInv /\ [Next]_vars => IInv'
    <2> SUFFICES ASSUME IInv, [Next]_vars PROVE IInv'
      OBVIOUS
    <2> QED
      BY Types, GotKept, RowsKept, KeysKept, StayedKept DEF IInv
  <1> QED
    BY <1>1, InitInv, PTL DEF Spec

\* The cursor of App never passes the devices there can be, and all else keeps its type.
THEOREM TypesHold == Spec => []TypeOK
  <1>1. IInv => TypeOK
    BY DEF IInv
  <1> QED
    BY <1>1, Invariance, PTL

\* The rows are in the order of their names, and `selected` is only moved by arrows: if
\* the human saw rows, not a code or a prompt over them, and they are still those of the
\* same devices, so is the one that the cursor is on.
THEOREM UnpairHitsTheRow == Spec => UnpairsTheRow
  <1>1. IInv => (UnpairKey /\ objs' # objs =>
                     LET k == Head(typed) IN
                     k.drawn /\ k.still /\ Distinct(k.of) /\ Ids = k.of
                         => objs \ objs' \subseteq {k.on})
    <2> SUFFICES ASSUME IInv, UnpairKey, objs' # objs, Head(typed).drawn, Head(typed).still,
                        Distinct(Head(typed).of), Ids = Head(typed).of
                 PROVE  objs \ objs' \subseteq {Head(typed).on}
      OBVIOUS
    <2>1. typed \in Seq(Key) /\ typed # <<>>
      BY DEF IInv, TypeOK, UnpairKey, Acts, Takes
    <2>2. 1 \in DOMAIN typed /\ Head(typed) = typed[1]
      BY <2>1
    <2>3. SeesCursor(typed[1])
      BY <2>2 DEF IInv, KeyInv
    <2>4. RowIds \in Listings(Ids)
              /\ Cursor = IF selected < Len(RowIds) THEN RowIds[selected + 1] ELSE None
      BY ScreenIsListing DEF IInv
    <2>5. Cursor = Head(typed).on
      BY <2>2, <2>3, <2>4 DEF SeesCursor
    <2>6. objs \ objs' \subseteq {Cursor}
      BY DEF UnpairKey, Call, Unlisted
    <2> QED
      BY <2>5, <2>6
  <1> QED
    BY <1>1, Invariance, PTL DEF UnpairsTheRow

\* A row without an id matches no prefix, and a device that was listed all the while has
\* its id in the row: if two of them matched, there was not one match.
THEOREM UnpairNeverGuesses == Spec => NoGuess
  <1>1. IInv => (CliUnpairs /\ objs' # objs =>
                     LET gone == objs \ objs' IN
                     gone \subseteq prefix /\ prefix \cap stayed \subseteq gone)
    <2> SUFFICES ASSUME IInv, CliUnpairs, objs' # objs
                 PROVE  /\ objs \ objs' \subseteq prefix
                        /\ prefix \cap stayed \subseteq objs \ objs'
      OBVIOUS
    <2>1. PICK d \in Matches : Call(d)
      BY DEF CliUnpairs
    <2>2. d \in Devices /\ got[d].id = d /\ d \in prefix
      BY <2>1, NoneAssumption DEF IInv, TypeOK, GotInv, Matches, Answered
    <2>3. objs \ objs' = {d}
      BY <2>1 DEF Call, Unlisted
    <2>4. client = "cli" /\ todo = {} /\ Cardinality(Matches) = 1 /\ stage = "picked"
      BY DEF IInv, PickedInv, CliUnpairs
    <2>5. Matches = {d}
      <3>1. Matches \in SUBSET Devices
        BY DEF Matches, Answered, IInv, TypeOK
      <3>2. IsFiniteSet(Matches)
        BY <3>1, DevicesAssumption, FS_Subset
      <3> QED
        BY <2>1, <2>4, <3>2, FS_Singleton
    <2>6. ASSUME NEW e \in prefix \cap stayed PROVE e \in Matches
      BY <2>4, <2>6 DEF IInv, StayedInv, Matches, Answered
    <2> QED
      BY <2>2, <2>3, <2>5, <2>6
  <1> QED
    BY <1>1, Invariance, PTL DEF NoGuess
=============================================================================
