--------------------------- MODULE HistoryProofs ---------------------------
(***************************************************************************)
(* Proofs about the history store, for any chats, ids, texts and limits:   *)
(* the index follows the table, and paging backwards misses nothing.       *)
(***************************************************************************)
EXTENDS History, FiniteSetTheorems, WellFoundedInduction, TLAPS

-----------------------------------------------------------------------------
(* Least and greatest elements.  The induction theorems of the library take   *)
(* an operator as a parameter, so both come from the well-founded ordering of *)
(* the finite sets: a smallest initial segment of S has its greatest element  *)
(* as its only one.                                                           *)

LEMMA MinExists ==
  ASSUME NEW S \in SUBSET Nat, S # {}, IsFiniteSet(S)
  PROVE  Min(S) \in S /\ \A i \in S : Min(S) <= i
<1>1. PICK T : T = {{y \in S : y <= x} : x \in S}
  OBVIOUS
<1>2. T \subseteq FiniteSubsetsOf(S) /\ T # {}
  <2>1. \A x \in S : IsFiniteSet({y \in S : y <= x})
    BY FS_Subset
  <2>. QED  BY <1>1, <2>1 DEF FiniteSubsetsOf
<1>3. PICK A \in T : \A B \in T : ~ (<<B, A>> \in StrictSubsetOrdering(S))
  BY <1>2, FS_StrictSubsetOrderingWellFounded, WFMin
<1>4. PICK x \in S : A = {y \in S : y <= x}
  BY <1>1, <1>3
<1>5. \A z \in S : x <= z
  <2>. SUFFICES ASSUME NEW z \in S, ~ (x <= z)
                PROVE  FALSE
    OBVIOUS
  <2>1. PICK B : B = {y \in S : y <= z}
    OBVIOUS
  <2>2. B \in T
    BY <1>1, <2>1
  <2>3. x \in A /\ x \notin B
    BY <1>4, <2>1
  <2>4. ASSUME NEW y \in B PROVE y \in A
    <3>1. y \in S /\ y <= z
      BY <2>1
    <3>2. y \in Nat /\ x \in Nat /\ z \in Nat
      BY <3>1
    <3>3. y <= x
      BY <3>1, <3>2
    <3>. QED  BY <3>1, <3>3, <1>4
  <2>5. A \in SUBSET S /\ B \in SUBSET S
    BY <1>4, <2>1
  <2>6. <<B, A>> \in StrictSubsetOrdering(S)
    BY <2>3, <2>4, <2>5 DEF StrictSubsetOrdering
  <2>. QED  BY <2>2, <2>6, <1>3
<1>. QED  BY <1>5 DEF Min

LEMMA MaxExists ==
  ASSUME NEW S \in SUBSET Nat, S # {}, IsFiniteSet(S)
  PROVE  Max(S) \in S /\ \A i \in S : Max(S) >= i
<1>1. PICK T : T = {{y \in S : y >= x} : x \in S}
  OBVIOUS
<1>2. T \subseteq FiniteSubsetsOf(S) /\ T # {}
  <2>1. \A x \in S : IsFiniteSet({y \in S : y >= x})
    BY FS_Subset
  <2>. QED  BY <1>1, <2>1 DEF FiniteSubsetsOf
<1>3. PICK A \in T : \A B \in T : ~ (<<B, A>> \in StrictSubsetOrdering(S))
  BY <1>2, FS_StrictSubsetOrderingWellFounded, WFMin
<1>4. PICK x \in S : A = {y \in S : y >= x}
  BY <1>1, <1>3
<1>5. \A z \in S : x >= z
  <2>. SUFFICES ASSUME NEW z \in S, ~ (x >= z)
                PROVE  FALSE
    OBVIOUS
  <2>1. PICK B : B = {y \in S : y >= z}
    OBVIOUS
  <2>2. B \in T
    BY <1>1, <2>1
  <2>3. x \in A /\ x \notin B
    BY <1>4, <2>1
  <2>4. ASSUME NEW y \in B PROVE y \in A
    <3>1. y \in S /\ y >= z
      BY <2>1
    <3>2. y \in Nat /\ x \in Nat /\ z \in Nat
      BY <3>1
    <3>3. y >= x
      BY <3>1, <3>2
    <3>. QED  BY <3>1, <3>3, <1>4
  <2>5. A \in SUBSET S /\ B \in SUBSET S
    BY <1>4, <2>1
  <2>6. <<B, A>> \in StrictSubsetOrdering(S)
    BY <2>3, <2>4, <2>5 DEF StrictSubsetOrdering
  <2>. QED  BY <2>2, <2>6, <1>3
<1>. QED  BY <1>5 DEF Max

LEMMA FiniteIds ==
  ASSUME NEW S, S \subseteq Ids
  PROVE  S \in SUBSET Nat /\ IsFiniteSet(S)
BY IdsAssumption, FS_Subset

\* A page holds the newest of what it is taken from, and something if there is
\* anything.
LEMMA NewestIsAnUpperPart ==
  ASSUME NEW S, S \subseteq Ids, NEW n \in Nat \ {0}
  PROVE  /\ Newest(S, n) \subseteq S
         /\ \A i \in Newest(S, n), x \in S : x >= i => x \in Newest(S, n)
         /\ S # {} => Newest(S, n) # {}
<1>1. Newest(S, n) \subseteq S
  BY DEF Newest
<1>2. ASSUME NEW i \in Newest(S, n), NEW x \in S, x >= i
      PROVE  x \in Newest(S, n)
  <2>1. PICK A, B : A = {y \in S : y >= i} /\ B = {y \in S : y >= x}
    OBVIOUS
  <2>2. Cardinality(A) <= n
    BY <2>1 DEF Newest
  <2>3. IsFiniteSet(A)
    BY <2>1, FiniteIds
  <2>4. \A y \in B : y \in A
    <3>. SUFFICES ASSUME NEW y \in B PROVE y \in A
      OBVIOUS
    <3>1. y \in S /\ y >= x
      BY <2>1
    <3>2. y \in Nat /\ x \in Nat /\ i \in Nat
      BY <1>1, <3>1, FiniteIds
    <3>3. y >= i
      BY <3>1, <3>2, <1>2
    <3>. QED  BY <3>1, <3>3, <2>1
  <2>5. B \in SUBSET A
    BY <2>4
  <2>6. IsFiniteSet(B) /\ Cardinality(B) <= Cardinality(A)
    BY <2>3, <2>5, FS_Subset
  <2>7. Cardinality(A) \in Nat /\ Cardinality(B) \in Nat
    BY <2>3, <2>6, FS_CardinalityType
  <2>8. Cardinality(B) <= n
    BY <2>2, <2>6, <2>7
  <2>. QED  BY <2>1, <2>8 DEF Newest
<1>3. ASSUME S # {}
      PROVE  Newest(S, n) # {}
  <2>1. S \in SUBSET Nat /\ IsFiniteSet(S)
    BY FiniteIds
  <2>2. PICK m \in S : \A i \in S : m >= i
    BY <1>3, <2>1, MaxExists
  <2>3. {y \in S : y >= m} = {m}
    <3>1. \A y \in S : y >= m <=> y = m
      BY <2>1, <2>2
    <3>. QED  BY <3>1
  <2>4. Cardinality({y \in S : y >= m}) = 1
    BY <2>3, FS_Singleton
  <2>. QED  BY <2>2, <2>4 DEF Newest
<1>. QED  BY <1>1, <1>2, <1>3

-----------------------------------------------------------------------------
(* The table and its index *)

Row == [rowid : 1..MaxRowid, text : Texts \cup {NoText}, dir : {"in", "out"}]

\* Membership in the index of a table, spelled out.
LEMMA IndexOfMember ==
  ASSUME NEW table, NEW e
  PROVE  e \in IndexOf(table) <=>
           \E k \in Keys : /\ table[k] # None
                           /\ table[k].text # NoText
                           /\ e = <<table[k].rowid, table[k].text>>
BY DEF IndexOf, Entry

\* The rowid a key is written with is its own or one that no other row has.
LEMMA RowidIsFree ==
  ASSUME TypeOK, RowidsDistinct, NEW k \in Keys
  PROVE  /\ RowidFor(k) \in Nat \ {0}
         /\ \A x \in Present : x # k => rows[x].rowid # RowidFor(k)
<1>1. \A x \in Present : x \in Keys /\ rows[x] \in Row
  BY DEF TypeOK, Present, Row
<1>2. CASE rows[k] # None
  <2>1. k \in Present
    BY <1>2 DEF Present
  <2>2. RowidFor(k) = rows[k].rowid
    BY <1>2 DEF RowidFor
  <2>3. RowidFor(k) \in Nat \ {0}
    BY <1>1, <2>1, <2>2, LimitAssumption DEF Row
  <2>. QED  BY <2>1, <2>2, <2>3 DEF RowidsDistinct
<1>3. CASE rows[k] = None /\ Present = {}
  BY <1>3 DEF RowidFor
<1>4. CASE rows[k] = None /\ Present # {}
  <2>1. PICK S : S = {rows[x].rowid : x \in Present}
    OBVIOUS
  <2>2. RowidFor(k) = Max(S) + 1
    BY <1>4, <2>1 DEF RowidFor
  <2>3. S \subseteq 1..MaxRowid /\ S # {}
    BY <1>1, <1>4, <2>1 DEF Row
  <2>4. IsFiniteSet(1..MaxRowid) /\ S \in SUBSET (1..MaxRowid) /\ S \in SUBSET Nat
    BY <2>3, LimitAssumption, FS_Interval
  <2>5. IsFiniteSet(S)
    BY <2>4, FS_Subset
  <2>6. Max(S) \in S /\ \A i \in S : Max(S) >= i
    BY <2>3, <2>4, <2>5, MaxExists
  <2>7. Max(S) \in Nat /\ \A i \in S : i \in Nat /\ i # Max(S) + 1
    <3>. \A m \in Nat : (\A i \in S : m >= i) => \A i \in S : i \in Nat /\ i # m + 1
      BY <2>4
    <3>. QED  BY <2>4, <2>6
  <2>8. \A x \in Present : rows[x].rowid \in S
    BY <2>1
  <2>. QED  BY <2>2, <2>7, <2>8
<1>. QED  BY <1>2, <1>3, <1>4

\* Every stored text is in the index, whatever else is there.
AllIndexed == IndexOf(rows) \subseteq fts

\* What the client is owed is still stored.
OwedIsThere == pager.chat # None => pager.owed \subseteq IdsIn(pager.chat)

\* The client has what it is owed at or above its cursor, and nothing below it.
PagedSoFar ==
  pager.chat # None =>
    /\ \A i \in pager.owed : i >= pager.cursor => i \in pager.got
    /\ \A i \in pager.got : i >= pager.cursor

IInv ==
  /\ TypeOK
  /\ RowidsDistinct
  /\ AllIndexed
  /\ IndexInStep
  /\ InboundHasChat
  /\ OwedIsThere
  /\ PagedSoFar

\* A row in the sense of TypeOK is not the absent one.
LEMMA RowIsThere == \A r \in Row : r # None
BY NoneAssumption DEF Row

\* Overwriting or adding one row, with its rowid and the index.
LEMMA WriteKeeps ==
  ASSUME TypeOK, RowidsDistinct, AllIndexed, IndexInStep,
         NEW k \in Keys, NEW text \in Texts \cup {NoText},
         NEW dir \in {"in", "out"}, WriteMessage(k, text, dir), stale' = stale
  PROVE  /\ rows' \in [Keys -> Row \cup {None}]
         /\ fts' \subseteq (1..MaxRowid) \X Texts
         /\ rows'[k] # None /\ rows'[k].dir = dir
         /\ \A x \in Keys \ {k} : rows'[x] = rows[x]
         /\ RowidsDistinct' /\ AllIndexed' /\ IndexInStep'
<1>1. PICK row : row = [rowid |-> RowidFor(k), text |-> text, dir |-> dir]
  OBVIOUS
<1>2. PICK old : old = IF rows[k] = None THEN {} ELSE Entry(rows[k])
  OBVIOUS
<1>3. /\ row.rowid <= MaxRowid
      /\ rows' = [rows EXCEPT ![k] = row]
      /\ fts' = (fts \ old) \cup Entry(row)
  BY <1>1, <1>2 DEF WriteMessage
<1>4. row \in Row
  <2>1. RowidFor(k) \in Nat \ {0} /\ RowidFor(k) <= MaxRowid
    BY <1>1, <1>3, RowidIsFree
  <2>. QED  BY <1>1, <2>1, LimitAssumption DEF Row
<1>5. rows \in [Keys -> Row \cup {None}] /\ fts \subseteq (1..MaxRowid) \X Texts
  BY DEF TypeOK, Row
<1>6. /\ rows' \in [Keys -> Row \cup {None}]
      /\ rows'[k] = row /\ \A x \in Keys \ {k} : rows'[x] = rows[x]
  BY <1>3, <1>4, <1>5
<1>7. row # None /\ \A x \in Keys : rows[x] # None => rows[x] \in Row
  BY <1>4, <1>5, RowIsThere
<1>8. \A x \in Keys \ {k} : rows[x] # None => rows[x].rowid # row.rowid
  BY <1>1, RowidIsFree DEF Present
<1>9. RowidsDistinct'
  <2>. SUFFICES ASSUME NEW x \in Keys, NEW y \in Keys, rows'[x] # None, rows'[y] # None,
                       rows'[x].rowid = rows'[y].rowid
                PROVE  x = y
    BY DEF RowidsDistinct, Present
  <2>1. CASE x # k /\ y # k
    BY <2>1, <1>6 DEF RowidsDistinct, Present
  <2>2. CASE x = k \/ y = k
    BY <2>2, <1>6, <1>8
  <2>. QED  BY <2>1, <2>2
<1>10. \A e : e \in Entry(row) <=> row.text # NoText /\ e = <<row.rowid, row.text>>
  BY DEF Entry
<1>11. \A e : e \in old <=> /\ rows[k] # None /\ rows[k].text # NoText
                            /\ e = <<rows[k].rowid, rows[k].text>>
  BY <1>2 DEF Entry
<1>12. fts' \subseteq (1..MaxRowid) \X Texts
  BY <1>3, <1>4, <1>5, <1>10 DEF Row
\* No other row's entry is taken away with the old one.
<1>13. IndexOf(rows') = (IndexOf(rows) \ old) \cup Entry(row)
  <2>1. ASSUME NEW e \in IndexOf(rows')
        PROVE  e \in (IndexOf(rows) \ old) \cup Entry(row)
    <3>1. PICK x \in Keys : /\ rows'[x] # None /\ rows'[x].text # NoText
                            /\ e = <<rows'[x].rowid, rows'[x].text>>
      BY <2>1, IndexOfMember
    <3>2. CASE x = k
      BY <3>1, <3>2, <1>6, <1>10
    <3>3. CASE x # k
      <4>1. rows'[x] = rows[x] /\ rows[x] # None
        BY <3>1, <3>3, <1>6
      <4>2. e \in IndexOf(rows)
        BY <3>1, <4>1, IndexOfMember
      <4>3. rows[k] # None => rows[x].rowid # rows[k].rowid
        BY <4>1, <3>3 DEF RowidsDistinct, Present
      <4>4. e \notin old
        BY <3>1, <4>1, <4>3, <1>11
      <4>. QED  BY <4>2, <4>4
    <3>. QED  BY <3>2, <3>3
  <2>2. ASSUME NEW e \in (IndexOf(rows) \ old) \cup Entry(row)
        PROVE  e \in IndexOf(rows')
    <3>1. CASE e \in Entry(row)
      BY <3>1, <1>6, <1>7, <1>10, IndexOfMember
    <3>2. CASE e \in IndexOf(rows) \ old
      <4>1. PICK x \in Keys : /\ rows[x] # None /\ rows[x].text # NoText
                              /\ e = <<rows[x].rowid, rows[x].text>>
        BY <3>2, IndexOfMember
      <4>2. x # k
        BY <3>2, <4>1, <1>11
      <4>3. rows'[x] = rows[x]
        BY <4>2, <1>6
      <4>. QED  BY <4>1, <4>3, IndexOfMember
    <3>. QED  BY <2>2, <3>1, <3>2
  <2>. QED  BY <2>1, <2>2
<1>14. AllIndexed'
  BY <1>3, <1>13 DEF AllIndexed
<1>15. IndexInStep'
  BY <1>3, <1>13 DEF IndexInStep
<1>. QED  BY <1>1, <1>6, <1>7, <1>9, <1>12, <1>14, <1>15

-----------------------------------------------------------------------------
(* The invariant *)

LEMMA HistoryInit == Init => IInv
<1>. SUFFICES ASSUME Init PROVE IInv
  OBVIOUS
<1>1. Present = {} /\ IndexOf(rows) = {}
  BY IndexOfMember DEF Init, Present
<1>2. TypeOK
  BY DEF Init, TypeOK, IdlePager
<1>. QED  BY <1>1, <1>2 DEF Init, IInv, RowidsDistinct, AllIndexed, IndexInStep,
                        InboundHasChat, OwedIsThere, PagedSoFar, IdlePager

\* record_inbound: the message and its chat at once.
LEMMA RecordInboundStep ==
  ASSUME IInv, NEW c \in Chats, NEW i \in Ids, NEW text \in Texts \cup {NoText},
         RecordInbound(c, i, text)
  PROVE  IInv'
<1>1. /\ <<c, i>> \in Keys /\ WriteMessage(<<c, i>>, text, "in")
      /\ chats' = [chats EXCEPT ![c] = Upserted(c, Date(i))]
      /\ UNCHANGED <<baseline, trimming, stale, pager>>
  BY DEF RecordInbound, Keys
<1>2. /\ rows' \in [Keys -> Row \cup {None}]
      /\ fts' \subseteq (1..MaxRowid) \X Texts
      /\ rows'[<<c, i>>] # None
      /\ \A x \in Keys \ {<<c, i>>} : rows'[x] = rows[x]
      /\ RowidsDistinct' /\ AllIndexed' /\ IndexInStep'
  BY <1>1, WriteKeeps DEF IInv
<1>3. Upserted(c, Date(i)) \in [first : Ids, last : Ids]
  BY DEF Upserted, Date, IInv, TypeOK
<1>4. chats' \in [Chats -> [first : Ids, last : Ids] \cup {None}]
  BY <1>1, <1>3 DEF IInv, TypeOK
<1>5. TypeOK'
  BY <1>1, <1>2, <1>4 DEF IInv, TypeOK, Row
<1>6. chats'[c] # None /\ \A d \in Chats \ {c} : chats'[d] = chats[d]
  BY <1>1, <1>3, NoneAssumption DEF IInv, TypeOK
<1>7. InboundHasChat'
  <2>. SUFFICES ASSUME NEW k \in Keys, rows'[k] # None, rows'[k].dir = "in"
                PROVE  chats'[k[1]] # None
    BY DEF InboundHasChat, Present
  <2>1. CASE k[1] = c
    BY <2>1, <1>6
  <2>2. CASE k[1] # c
    <3>1. k # <<c, i>> /\ k[1] \in Chats \ {c}
      BY <2>2 DEF Keys
    <3>2. k \in Present /\ rows[k].dir = "in"
      BY <3>1, <1>2 DEF Present
    <3>. QED  BY <3>1, <3>2, <1>6 DEF IInv, InboundHasChat
  <2>. QED  BY <2>1, <2>2
<1>8. OwedIsThere' /\ PagedSoFar'
  <2>1. \A d \in Chats : IdsIn(d) \subseteq IdsIn(d)'
    BY <1>2 DEF IdsIn, Keys
  <2>2. pager' = pager /\ pager.chat \in Chats \cup {None}
    BY <1>1 DEF IInv, TypeOK
  <2>. QED  BY <2>1, <2>2 DEF IInv, OwedIsThere, PagedSoFar, IdsIn
<1>. QED  BY <1>2, <1>5, <1>7, <1>8 DEF IInv

\* The bot's own messages need no chat.
LEMMA InsertMessageStep ==
  ASSUME IInv, NEW c \in Chats, NEW i \in Ids, NEW text \in Texts \cup {NoText},
         InsertMessage(c, i, text)
  PROVE  IInv'
<1>1. /\ <<c, i>> \in Keys /\ WriteMessage(<<c, i>>, text, "out")
      /\ UNCHANGED <<chats, baseline, trimming, stale, pager>>
  BY DEF InsertMessage, Keys
<1>2. /\ rows' \in [Keys -> Row \cup {None}]
      /\ fts' \subseteq (1..MaxRowid) \X Texts
      /\ rows'[<<c, i>>] # None /\ rows'[<<c, i>>].dir = "out"
      /\ \A x \in Keys \ {<<c, i>>} : rows'[x] = rows[x]
      /\ RowidsDistinct' /\ AllIndexed' /\ IndexInStep'
  BY <1>1, WriteKeeps DEF IInv
<1>3. TypeOK'
  BY <1>1, <1>2 DEF IInv, TypeOK, Row
<1>4. InboundHasChat'
  <2>. SUFFICES ASSUME NEW k \in Keys, rows'[k] # None, rows'[k].dir = "in"
                PROVE  chats'[k[1]] # None
    BY DEF InboundHasChat, Present
  <2>1. k # <<c, i>>
    BY <1>2
  <2>2. k \in Present /\ rows[k].dir = "in"
    BY <2>1, <1>2 DEF Present
  <2>. QED  BY <2>2, <1>1 DEF IInv, InboundHasChat
<1>5. OwedIsThere' /\ PagedSoFar'
  <2>1. \A d \in Chats : IdsIn(d) \subseteq IdsIn(d)'
    BY <1>2 DEF IdsIn, Keys
  <2>2. pager' = pager /\ pager.chat \in Chats \cup {None}
    BY <1>1 DEF IInv, TypeOK
  <2>. QED  BY <2>1, <2>2 DEF IInv, OwedIsThere, PagedSoFar, IdsIn
<1>. QED  BY <1>2, <1>3, <1>4, <1>5 DEF IInv

\* What a deletion leaves, with the client owed no more than that.
LEMMA DeleteKeeps ==
  ASSUME IInv, NEW gone, rows' = Without(gone), UNCHANGED <<chats, baseline>>,
         pager' = [pager EXCEPT !.owed = Owed(gone)]
  PROVE  /\ rows' \in [Keys -> Row \cup {None}]
         /\ pager' \in [chat : Chats \cup {None}, cursor : Ids \cup {0},
                        owed : SUBSET Ids, got : SUBSET Ids]
         /\ \A k \in Keys : rows'[k] # None => rows[k] # None /\ rows'[k] = rows[k]
         /\ IndexOf(rows') \subseteq (1..MaxRowid) \X Texts
         /\ IndexOf(rows') \subseteq IndexOf(rows)
         /\ gone = {} => rows' = rows
         /\ RowidsDistinct' /\ InboundHasChat'
         /\ OwedIsThere' /\ PagedSoFar'
<1>1. rows \in [Keys -> Row \cup {None}]
  BY DEF IInv, TypeOK, Row
<1>2. rows' \in [Keys -> Row \cup {None}]
  BY <1>1 DEF Without
<1>3. \A k \in Keys : rows'[k] = IF k \in gone THEN None ELSE rows[k]
  BY DEF Without
<1>4. \A k \in Keys : rows'[k] # None => rows[k] # None /\ rows'[k] = rows[k]
  BY <1>3
<1>5. IndexOf(rows') \subseteq IndexOf(rows)
  <2>. SUFFICES ASSUME NEW e \in IndexOf(rows') PROVE e \in IndexOf(rows)
    OBVIOUS
  <2>1. PICK k \in Keys : /\ rows'[k] # None /\ rows'[k].text # NoText
                          /\ e = <<rows'[k].rowid, rows'[k].text>>
    BY IndexOfMember
  <2>. QED  BY <2>1, <1>4, IndexOfMember
<1>6. IndexOf(rows') \subseteq (1..MaxRowid) \X Texts
  BY <1>5 DEF IInv, AllIndexed, TypeOK
<1>7. gone = {} => rows' = rows
  BY <1>1, <1>2, <1>3
<1>8. RowidsDistinct'
  BY <1>4 DEF IInv, RowidsDistinct, Present
<1>9. InboundHasChat'
  BY <1>4 DEF IInv, InboundHasChat, Present
<1>10. /\ pager' \in [chat : Chats \cup {None}, cursor : Ids \cup {0},
                      owed : SUBSET Ids, got : SUBSET Ids]
       /\ pager'.chat = pager.chat /\ pager'.cursor = pager.cursor
       /\ pager'.got = pager.got /\ pager'.owed = Owed(gone)
  <2>1. pager \in [chat : Chats \cup {None}, cursor : Ids \cup {0},
                   owed : SUBSET Ids, got : SUBSET Ids]
    BY DEF IInv, TypeOK
  <2>2. Owed(gone) \in SUBSET Ids
    BY <2>1 DEF Owed
  <2>. QED  BY <2>1, <2>2
<1>11. Owed(gone) \subseteq pager.owed
  BY DEF Owed
<1>12. PagedSoFar'
  BY <1>10, <1>11 DEF IInv, PagedSoFar
<1>13. OwedIsThere'
  <2>. SUFFICES ASSUME pager.chat # None, NEW i \in Owed(gone)
                PROVE  i \in Ids /\ rows'[<<pager.chat, i>>] # None
    BY <1>10 DEF OwedIsThere, IdsIn
  <2>1. i \in pager.owed /\ <<pager.chat, i>> \notin gone
    BY DEF Owed
  <2>2. i \in Ids /\ rows[<<pager.chat, i>>] # None /\ pager.chat \in Chats
    BY <2>1 DEF IInv, TypeOK, OwedIsThere, IdsIn
  <2>3. rows'[<<pager.chat, i>>] # None
    BY <2>1, <2>2, <1>3 DEF Keys
  <2>. QED  BY <2>2, <2>3
<1>. QED  BY <1>2, <1>4, <1>5, <1>6, <1>7, <1>8, <1>9, <1>10, <1>12, <1>13

LEMMA EnforceRetentionStep ==
  ASSUME IInv, NEW cutoff, NEW keep, EnforceRetention(cutoff, keep)
  PROVE  IInv'
<1>1. PICK gone : /\ rows' = Without(gone)
                  /\ fts' = IF gone = {} THEN fts ELSE IndexOf(rows')
                  /\ stale' = (stale /\ gone = {})
                  /\ pager' = [pager EXCEPT !.owed = Owed(gone)]
                  /\ UNCHANGED <<chats, baseline, trimming>>
  BY DEF EnforceRetention
<1>2. /\ rows' \in [Keys -> Row \cup {None}]
      /\ pager' \in [chat : Chats \cup {None}, cursor : Ids \cup {0},
                     owed : SUBSET Ids, got : SUBSET Ids]
      /\ IndexOf(rows') \subseteq (1..MaxRowid) \X Texts
      /\ gone = {} => rows' = rows
      /\ RowidsDistinct' /\ InboundHasChat'
      /\ OwedIsThere' /\ PagedSoFar'
  BY <1>1, DeleteKeeps
<1>3. TypeOK'
  BY <1>1, <1>2 DEF IInv, TypeOK, Row
<1>4. AllIndexed' /\ IndexInStep'
  <2>1. CASE gone = {}
    BY <2>1, <1>1, <1>2 DEF IInv, AllIndexed, IndexInStep
  <2>2. CASE gone # {}
    BY <2>2, <1>1 DEF AllIndexed, IndexInStep
  <2>. QED  BY <2>1, <2>2
<1>. QED  BY <1>2, <1>3, <1>4 DEF IInv

LEMMA TrimDeleteStep ==
  ASSUME IInv, NEW gone, TrimDelete(gone)
  PROVE  IInv'
<1>1. /\ rows' = Without(gone) /\ trimming' = TRUE
      /\ stale' = (stale \/ gone # {})
      /\ pager' = [pager EXCEPT !.owed = Owed(gone)]
      /\ UNCHANGED <<fts, chats, baseline>>
  BY DEF TrimDelete
<1>2. /\ rows' \in [Keys -> Row \cup {None}]
      /\ pager' \in [chat : Chats \cup {None}, cursor : Ids \cup {0},
                     owed : SUBSET Ids, got : SUBSET Ids]
      /\ IndexOf(rows') \subseteq IndexOf(rows)
      /\ gone = {} => rows' = rows
      /\ RowidsDistinct' /\ InboundHasChat'
      /\ OwedIsThere' /\ PagedSoFar'
  BY <1>1, DeleteKeeps
<1>3. TypeOK'
  BY <1>1, <1>2 DEF IInv, TypeOK, Row
<1>4. AllIndexed' /\ IndexInStep'
  BY <1>1, <1>2 DEF IInv, AllIndexed, IndexInStep
<1>. QED  BY <1>2, <1>3, <1>4 DEF IInv

LEMMA RebuildFtsStep ==
  ASSUME IInv, RebuildFts
  PROVE  IInv'
<1>1. /\ stale' = FALSE /\ trimming' = FALSE
      /\ fts' = IndexOf(rows)
      /\ UNCHANGED <<rows, chats, baseline, pager>>
  BY DEF RebuildFts
<1>2. fts' \subseteq (1..MaxRowid) \X Texts
  BY <1>1 DEF IInv, AllIndexed, TypeOK
<1>3. TypeOK'
  BY <1>1, <1>2 DEF IInv, TypeOK
<1>4. AllIndexed' /\ IndexInStep'
  BY <1>1 DEF AllIndexed, IndexInStep, IndexOf
<1>5. RowidsDistinct' /\ InboundHasChat' /\ OwedIsThere' /\ PagedSoFar'
  BY <1>1 DEF IInv, RowidsDistinct, InboundHasChat, OwedIsThere, PagedSoFar,
              Present, IdsIn
<1>. QED  BY <1>3, <1>4, <1>5 DEF IInv

\* The steps that touch neither the table, the index nor the client.
LEMMA OtherStep ==
  ASSUME IInv, UNCHANGED <<rows, fts, stale, pager>>,
         chats' \in [Chats -> [first : Ids, last : Ids] \cup {None}],
         baseline' \in [Chats -> Ids \cup {0}], trimming' \in BOOLEAN,
         \A c \in Chats : chats[c] # None => chats'[c] # None
  PROVE  IInv'
<1>1. TypeOK'
  BY DEF IInv, TypeOK
<1>2. InboundHasChat'
  BY DEF IInv, InboundHasChat, Present, Keys
<1>3. RowidsDistinct' /\ AllIndexed' /\ IndexInStep' /\ OwedIsThere' /\ PagedSoFar'
  BY DEF IInv, RowidsDistinct, AllIndexed, IndexInStep, OwedIsThere, PagedSoFar,
         Present, IdsIn, IndexOf
<1>. QED  BY <1>1, <1>2, <1>3 DEF IInv

-----------------------------------------------------------------------------
(* Paging *)

\* A page's least id, which the client takes as its next cursor.
LEMMA CursorOfPage ==
  ASSUME NEW S, S \subseteq Ids, S # {}
  PROVE  LET page == Newest(S, PageLimit)
         IN /\ page # {} /\ page \subseteq Ids
            /\ Min(page) \in Ids
            /\ \A i \in S : i >= Min(page) => i \in page
            /\ \A i \in page : i >= Min(page)
<1>1. PICK page : page = Newest(S, PageLimit)
  OBVIOUS
<1>2. /\ page \subseteq S /\ page # {}
      /\ \A i \in page, x \in S : x >= i => x \in page
  BY <1>1, NewestIsAnUpperPart, LimitAssumption
<1>3. page \in SUBSET Nat /\ IsFiniteSet(page) /\ page \subseteq Ids
  BY <1>2, FiniteIds
<1>4. Min(page) \in page /\ \A i \in page : i \in Nat /\ Min(page) \in Nat /\ Min(page) <= i
  BY <1>2, <1>3, MinExists
<1>. QED  BY <1>1, <1>2, <1>3, <1>4

LEMMA StartPagingStep ==
  ASSUME IInv, NEW c \in Chats, StartPaging(c)
  PROVE  IInv'
<1>1. PICK page : page = Page(c, None, 0, PageLimit)
  OBVIOUS
<1>2. /\ page # {} /\ UNCHANGED <<rows, fts, chats, baseline, trimming, stale>>
      /\ pager' = [chat |-> c, cursor |-> Min(page), owed |-> IdsIn(c), got |-> page]
  BY <1>1 DEF StartPaging
<1>3. IdsIn(c) \subseteq Ids
  BY DEF IdsIn
<1>4. page = Newest(IdsIn(c), PageLimit)
  <2>1. {i \in IdsIn(c) : (None = None \/ i < None) /\ i > 0} = IdsIn(c)
    <3>1. \A i \in Ids : i > 0
      BY IdsAssumption
    <3>2. \A i \in IdsIn(c) : i > 0
      BY <1>3, <3>1
    <3>. QED  BY <3>2
  <2>. QED  BY <2>1, <1>1 DEF Page
<1>5. IdsIn(c) # {}
  BY <1>2, <1>4 DEF Newest
<1>6. /\ page \subseteq Ids /\ Min(page) \in Ids
      /\ \A i \in IdsIn(c) : i >= Min(page) => i \in page
      /\ \A i \in page : i >= Min(page)
  BY <1>3, <1>4, <1>5, CursorOfPage
<1>7. TypeOK'
  BY <1>2, <1>3, <1>6 DEF IInv, TypeOK
<1>8. OwedIsThere' /\ PagedSoFar'
  BY <1>2, <1>6 DEF OwedIsThere, PagedSoFar, IdsIn
<1>9. RowidsDistinct' /\ AllIndexed' /\ IndexInStep' /\ InboundHasChat'
  BY <1>2 DEF IInv, RowidsDistinct, AllIndexed, IndexInStep, InboundHasChat, Present, IndexOf
<1>. QED  BY <1>7, <1>8, <1>9 DEF IInv

\* What lies at or above the new cursor was got before, or is on this page.
LEMMA NextPageStep ==
  ASSUME IInv, NextPage
  PROVE  IInv'
<1>1. PICK page : page = Page(pager.chat, pager.cursor, 0, PageLimit)
  OBVIOUS
<1>2. /\ pager.chat # None /\ UNCHANGED <<rows, fts, chats, baseline, trimming, stale>>
      /\ pager' = IF page = {}
                  THEN IdlePager
                  ELSE [pager EXCEPT !.cursor = Min(page), !.got = @ \cup page]
  BY <1>1 DEF NextPage
<1>3. RowidsDistinct' /\ AllIndexed' /\ IndexInStep' /\ InboundHasChat'
  BY <1>2 DEF IInv, RowidsDistinct, AllIndexed, IndexInStep, InboundHasChat, Present, IndexOf
<1>4. CASE page = {}
  <2>1. pager' = IdlePager
    BY <1>2, <1>4
  <2>2. TypeOK'
    BY <1>2, <2>1 DEF IInv, TypeOK, IdlePager
  <2>3. OwedIsThere' /\ PagedSoFar'
    BY <2>1 DEF OwedIsThere, PagedSoFar, IdlePager
  <2>. QED  BY <1>3, <2>2, <2>3 DEF IInv
<1>5. CASE page # {}
  <2>1. pager \in [chat : Chats \cup {None}, cursor : Ids \cup {0},
                   owed : SUBSET Ids, got : SUBSET Ids]
    BY DEF IInv, TypeOK
  <2>2. PICK S : S = {i \in IdsIn(pager.chat) : i < pager.cursor /\ i > 0}
    OBVIOUS
  <2>3. S \subseteq Ids
    BY <2>2 DEF IdsIn
  <2>4. pager.cursor # None
    BY <2>1, NoneAssumption
  <2>5. page = Newest(S, PageLimit)
    BY <1>1, <2>2, <2>4 DEF Page
  <2>6. S # {}
    BY <1>5, <2>5 DEF Newest
  <2>7. /\ page \subseteq Ids /\ Min(page) \in Ids
        /\ \A i \in S : i >= Min(page) => i \in page
        /\ \A i \in page : i >= Min(page)
    BY <2>3, <2>5, <2>6, CursorOfPage
  <2>8. /\ pager' \in [chat : Chats \cup {None}, cursor : Ids \cup {0},
                       owed : SUBSET Ids, got : SUBSET Ids]
        /\ pager'.chat = pager.chat /\ pager'.owed = pager.owed
        /\ pager'.cursor = Min(page) /\ pager'.got = pager.got \cup page
    BY <1>2, <1>5, <2>1, <2>7
  <2>9. TypeOK'
    BY <1>2, <2>8 DEF IInv, TypeOK
  <2>10. OwedIsThere'
    BY <1>2, <2>8 DEF IInv, OwedIsThere, IdsIn
  <2>11. ASSUME NEW i \in pager.owed, i >= Min(page)
         PROVE  i \in pager.got \cup page
    <3>1. i \in IdsIn(pager.chat) /\ i \in Nat /\ i > 0 /\ pager.cursor \in Nat
      BY <1>2, <2>1, IdsAssumption DEF IInv, OwedIsThere
    <3>2. CASE i >= pager.cursor
      BY <3>2, <1>2 DEF IInv, PagedSoFar
    <3>3. CASE i < pager.cursor
      BY <2>11, <3>1, <3>3, <2>2, <2>7
    <3>. QED  BY <3>1, <3>2, <3>3
  \* The least of the page is below the old cursor, hence below what was got before.
  <2>12. ASSUME NEW i \in pager.got
         PROVE  i >= Min(page)
    <3>1. i \in Nat /\ pager.cursor \in Nat /\ Min(page) \in Nat
      <4>1. pager.got \in SUBSET Ids /\ pager.cursor \in Ids \cup {0}
        BY <2>1
      <4>2. Ids \cup {0} \subseteq Nat
        BY IdsAssumption
      <4>. QED  BY <2>7, <4>1, <4>2
    <3>2. i >= pager.cursor
      BY <1>2 DEF IInv, PagedSoFar
    <3>3. PICK j \in page : j < pager.cursor /\ j >= Min(page) /\ j \in Nat
      BY <1>5, <2>2, <2>3, <2>5, <2>7, IdsAssumption DEF Newest
    <3>. QED  BY <3>1, <3>2, <3>3
  <2>13. PagedSoFar'
    BY <2>7, <2>8, <2>11, <2>12 DEF PagedSoFar
  <2>. QED  BY <1>3, <2>9, <2>10, <2>13 DEF IInv
<1>. QED  BY <1>4, <1>5

-----------------------------------------------------------------------------
(* The theorems *)

LEMMA HistoryStep ==
  ASSUME IInv, [Next]_vars
  PROVE  IInv'
<1>1. ASSUME NEW c \in Chats, NEW i \in Ids, NEW text \in Texts \cup {NoText},
             RecordInbound(c, i, text) \/ InsertMessage(c, i, text)
      PROVE  IInv'
  BY <1>1, RecordInboundStep, InsertMessageStep
<1>2. ASSUME NEW c \in Chats, NEW i \in Ids, TouchChatLastSeen(c, Date(i))
      PROVE  IInv'
  <2>1. /\ chats[c] # None /\ chats' = [chats EXCEPT ![c].last = i]
        /\ UNCHANGED <<rows, fts, baseline, trimming, stale, pager>>
    BY <1>2 DEF TouchChatLastSeen, Date
  <2>2. chats[c] \in [first : Ids, last : Ids]
    BY <2>1 DEF IInv, TypeOK
  <2>3. [chats[c] EXCEPT !.last = i] \in [first : Ids, last : Ids]
    BY <2>1, <2>2
  <2>4. /\ chats' \in [Chats -> [first : Ids, last : Ids] \cup {None}]
        /\ \A d \in Chats : chats[d] # None => chats'[d] # None
    BY <2>1, <2>3, NoneAssumption DEF IInv, TypeOK
  <2>. QED  BY <2>1, <2>4, OtherStep DEF IInv, TypeOK
<1>3. ASSUME NEW c \in Chats, NEW i \in ReadMarks, MarkRead(c, i)
      PROVE  IInv'
  BY <1>3, InputsAssumption, OtherStep DEF MarkRead, IInv, TypeOK
<1>4. ASSUME NEW cutoff \in Cutoffs \cup {None}, NEW keep \in Keeps \cup {None},
             EnforceRetention(cutoff, keep)
      PROVE  IInv'
  BY <1>4, EnforceRetentionStep
<1>5. CASE (\E cutoff \in Cutoffs : TrimOlderThan(cutoff)) \/ (\E keep \in Keeps : TrimPerChatTo(keep))
  BY <1>5, TrimDeleteStep DEF TrimOlderThan, TrimPerChatTo
<1>6. CASE RebuildFts
  BY <1>6, RebuildFtsStep
<1>7. CASE TrimInterrupted
  BY <1>7, OtherStep DEF TrimInterrupted, IInv, TypeOK
<1>8. CASE Read
  BY <1>8, StartPagingStep, NextPageStep, InputsAssumption DEF Read
<1>9. CASE UNCHANGED vars
  BY <1>9, OtherStep DEF vars, IInv, TypeOK
<1>10. CASE Next
  <2>1. CASE Write
    BY <2>1, <1>1, <1>2, <1>3 DEF Write
  <2>2. CASE Retention
    BY <2>2, <1>4, <1>5, <1>6, <1>7 DEF Retention
  <2>. QED  BY <1>10, <2>1, <2>2, <1>8 DEF Next
<1>. QED  BY <1>9, <1>10

\* Types; rowids are positive, so that the first row is a row.
THEOREM HistoryTypes == Spec => []TypeOK
<1>1. IInv => TypeOK
  BY DEF IInv
<1>. QED  BY HistoryInit, HistoryStep, <1>1, PTL DEF Spec

\* No two rows ever share a rowid, however rowids are handed out again.
THEOREM RowidsStayDistinct == Spec => []RowidsDistinct
<1>1. IInv => RowidsDistinct
  BY DEF IInv
<1>. QED  BY HistoryInit, HistoryStep, <1>1, PTL DEF Spec

\* The rowids tell the rows apart and, save for an interrupted trim, the index is that
\* of the table.
THEOREM IndexStaysInStep == Spec => []SearchJoinsItsRow
<1>1. IInv => SearchJoinsItsRow
  BY DEF IInv, SearchJoinsItsRow
<1>. QED  BY HistoryInit, HistoryStep, <1>1, PTL DEF Spec

\* Search misses no stored text, not even after an interrupted trim, but for newer ones
\* that fill its answer.
THEOREM NewestAlwaysFound == Spec => []SearchFindsTheNewest
<1>1. IInv => SearchFindsTheNewest
  <2>. SUFFICES ASSUME IInv, NEW k \in Present, rows[k].text # NoText,
                       NEW hits \in Answers(rows[k].text)
                PROVE  \/ k \in hits
                       \/ /\ Cardinality(hits) = SearchLimit
                          /\ \A h \in hits : Date(h[2]) >= Date(k[2])
    BY DEF SearchFindsTheNewest
  <2>1. k \in Keys /\ rows[k] # None
    BY DEF Present
  <2>2. <<rows[k].rowid, rows[k].text>> \in fts
    BY <2>1, IndexOfMember DEF IInv, AllIndexed
  <2>. QED  BY <2>2 DEF Answers, Matching
<1>. QED  BY HistoryInit, HistoryStep, <1>1, PTL DEF Spec

\* Every inbound message has a row for its chat.
THEOREM InboundAlwaysHasChat == Spec => []InboundHasChat
<1>1. IInv => InboundHasChat
  BY DEF IInv
<1>. QED  BY HistoryInit, HistoryStep, <1>1, PTL DEF Spec

\* Backward paging loses no message to what is written or deleted meanwhile, and
\* repeats none.
THEOREM PagingLosesNothing == Spec => []PagingMissesNothing
<1>1. IInv => PagingMissesNothing
  <2>. SUFFICES ASSUME IInv, pager.chat # None,
                       NEW i \in Page(pager.chat, pager.cursor, 0, PageLimit), i \in pager.got
                PROVE  FALSE
    BY DEF IInv, PagedSoFar, PagingMissesNothing
  <2>1. pager.cursor \in Ids \cup {0} /\ pager.got \subseteq Ids /\ pager.cursor # None
    BY NoneAssumption DEF IInv, TypeOK
  <2>2. i < pager.cursor
    BY <2>1 DEF Page, Newest
  <2>3. i >= pager.cursor
    BY DEF IInv, PagedSoFar
  <2>4. i \in Nat /\ pager.cursor \in Nat
    <3>1. pager.got \in SUBSET Ids /\ pager.cursor \in Ids \cup {0}
      BY <2>1
    <3>2. Ids \cup {0} \subseteq Nat
      BY IdsAssumption
    <3>. QED  BY <3>1, <3>2
  <2>. QED  BY <2>2, <2>3, <2>4
<1>. QED  BY HistoryInit, HistoryStep, <1>1, PTL DEF Spec

-----------------------------------------------------------------------------
(* Unread messages *)

\* What one step may change of the unread messages of a chat.
UnreadStep(c) ==
  LET new == UnreadIds(c)' \ UnreadIds(c)
  IN new = {} \/ UnreadAgain(c, new) \/ UnreadByInbound(c, new)

\* The baselines and a table that only loses rows make nothing unread.
LEMMA FewerRowsFewerUnread ==
  ASSUME UNCHANGED baseline, NEW c \in Chats,
         \A i \in Ids : rows'[<<c, i>>] # None =>
                          rows[<<c, i>>] # None /\ rows'[<<c, i>>] = rows[<<c, i>>]
  PROVE  UnreadStep(c)
<1>1. UnreadIds(c)' \subseteq UnreadIds(c)
  BY DEF UnreadIds, IdsIn
<1>. QED  BY <1>1 DEF UnreadStep

LEMMA UnreadAfterStep ==
  ASSUME IInv, [Next]_vars, NEW c \in Chats
  PROVE  UnreadStep(c)
<1>1. ASSUME NEW d \in Chats, NEW i \in Ids, NEW text \in Texts \cup {NoText},
             RecordInbound(d, i, text)
      PROVE  UnreadStep(c)
  <2>1. /\ <<d, i>> \in Keys /\ WriteMessage(<<d, i>>, text, "in")
        /\ chats' = [chats EXCEPT ![d] = Upserted(d, Date(i))]
        /\ baseline' = baseline /\ stale' = stale
    BY <1>1 DEF RecordInbound, Keys
  <2>2. /\ rows'[<<d, i>>] # None
        /\ \A x \in Keys \ {<<d, i>>} : rows'[x] = rows[x]
    BY <2>1, WriteKeeps DEF IInv
  <2>3. CASE d # c
    <3>1. \A j \in Ids : rows'[<<c, j>>] = rows[<<c, j>>]
      BY <2>2, <2>3 DEF Keys
    <3>. QED  BY <2>1, <3>1, FewerRowsFewerUnread
  <2>4. CASE d = c
    <3>1. UnreadIds(c)' \ UnreadIds(c) \subseteq {i}
      <4>1. \A j \in Ids \ {i} : rows'[<<c, j>>] = rows[<<c, j>>]
        BY <2>2, <2>4 DEF Keys
      <4>. QED  BY <2>1, <4>1 DEF UnreadIds, IdsIn
    <3>2. chats'[c] # None /\ chats'[c].last = Date(i)
      <4>1. Upserted(c, Date(i)) \in [first : Ids, last : Ids]
        BY DEF Upserted, Date, IInv, TypeOK
      <4>. QED  BY <2>1, <2>4, <4>1, NoneAssumption DEF Upserted, IInv, TypeOK
    \* An inbound message that is stored again was unread before, if it is now.
    <3>3. rows[<<c, i>>] # None /\ rows[<<c, i>>].dir # "out" =>
            UnreadIds(c)' \ UnreadIds(c) = {}
      <4>1. rows[<<c, i>>] # None => rows[<<c, i>>] \in Row
        BY <2>1, <2>4 DEF IInv, TypeOK, Row
      <4>2. rows[<<c, i>>] # None /\ rows[<<c, i>>].dir # "out" => rows[<<c, i>>].dir = "in"
        BY <4>1 DEF Row
      <4>. QED  BY <2>1, <3>1, <4>2 DEF UnreadIds, IdsIn
    <3>. QED  BY <2>1, <3>1, <3>2, <3>3 DEF UnreadStep, UnreadByInbound
  <2>. QED  BY <2>3, <2>4
<1>2. ASSUME NEW d \in Chats, NEW i \in Ids, NEW text \in Texts \cup {NoText},
             InsertMessage(d, i, text)
      PROVE  UnreadStep(c)
  <2>1. /\ <<d, i>> \in Keys /\ WriteMessage(<<d, i>>, text, "out")
        /\ baseline' = baseline /\ stale' = stale
    BY <1>2 DEF InsertMessage, Keys
  <2>2. /\ rows'[<<d, i>>].dir = "out"
        /\ \A x \in Keys \ {<<d, i>>} : rows'[x] = rows[x]
    BY <2>1, WriteKeeps DEF IInv
  <2>3. \A j \in Ids : \/ rows'[<<c, j>>] = rows[<<c, j>>]
                       \/ rows'[<<c, j>>].dir = "out"
    BY <2>2 DEF Keys
  <2>4. UnreadIds(c)' \subseteq UnreadIds(c)
    BY <2>1, <2>3 DEF UnreadIds, IdsIn
  <2>. QED  BY <2>4 DEF UnreadStep
<1>3. ASSUME NEW d \in Chats, NEW i \in ReadMarks, MarkRead(d, i)
      PROVE  UnreadStep(c)
  <2>1. baseline'[c] \in Nat /\ baseline[c] \in Nat /\ rows' = rows
    <3>1. /\ baseline \in [Chats -> Ids \cup {0}] /\ rows' = rows
          /\ baseline' = [baseline EXCEPT ![d] = i] /\ i \in Ids \cup {0}
      BY <1>3, InputsAssumption DEF MarkRead, IInv, TypeOK
    <3>2. baseline'[c] \in Ids \cup {0} /\ baseline[c] \in Ids \cup {0}
      BY <3>1
    <3>3. Ids \cup {0} \subseteq Nat
      BY IdsAssumption
    <3>. QED  BY <3>1, <3>2, <3>3
  <2>2. \A j \in Ids : j \in Nat
    BY IdsAssumption
  <2>3. CASE baseline'[c] >= baseline[c]
    <3>1. \A j \in Ids : j > baseline'[c] => j > baseline[c]
      BY <2>1, <2>2, <2>3
    <3>2. UnreadIds(c)' \subseteq UnreadIds(c)
      BY <2>1, <3>1 DEF UnreadIds, IdsIn
    <3>. QED  BY <3>2 DEF UnreadStep
  <2>4. CASE baseline'[c] < baseline[c]
    <3>1. \A j \in UnreadIds(c)' \ UnreadIds(c) : j \in Ids /\ ~ (j > baseline[c])
      BY <2>1 DEF UnreadIds, IdsIn
    <3>2. \A j \in UnreadIds(c)' \ UnreadIds(c) : j <= baseline[c]
      BY <2>1, <2>2, <3>1
    <3>. QED  BY <2>1, <2>4, <3>2 DEF UnreadStep, UnreadAgain
  <2>. QED  BY <2>1, <2>3, <2>4
<1>4. ASSUME NEW gone, rows' = Without(gone), baseline' = baseline
      PROVE  UnreadStep(c)
  <2>1. \A i \in Ids : rows'[<<c, i>>] # None =>
                         rows[<<c, i>>] # None /\ rows'[<<c, i>>] = rows[<<c, i>>]
    BY <1>4 DEF Without, Keys
  <2>. QED  BY <1>4, <2>1, FewerRowsFewerUnread
<1>5. CASE UNCHANGED <<rows, baseline>>
  BY <1>5, FewerRowsFewerUnread
<1>6. CASE UNCHANGED vars
  BY <1>6, <1>5 DEF vars
<1>7. CASE Write
  BY <1>7, <1>1, <1>2, <1>3, <1>5 DEF Write, TouchChatLastSeen
<1>8. CASE Retention
  BY <1>8, <1>4, <1>5 DEF Retention, EnforceRetention, TrimOlderThan, TrimPerChatTo,
                          TrimDelete, RebuildFts, TrimInterrupted
<1>9. CASE Read
  BY <1>9, <1>5 DEF Read, StartPaging, NextPage
<1>. QED  BY <1>6, <1>7, <1>8, <1>9 DEF Next

\* A message becomes unread only when an updater records it, new or over one the bot
\* stored as its own, or when the caller moves the baseline back over it.
THEOREM UnreadGrowsByInboundAlone == Spec => UnreadGrowsOnlyByInbound
<1>1. IInv /\ [Next]_vars =>
        [ \A c \in Chats :
            LET new == UnreadIds(c)' \ UnreadIds(c)
            IN new = {} \/ UnreadAgain(c, new) \/ UnreadByInbound(c, new) ]_vars
  BY UnreadAfterStep DEF UnreadStep
<1>. QED  BY HistoryInit, HistoryStep, <1>1, PTL DEF Spec, UnreadGrowsOnlyByInbound
=============================================================================
