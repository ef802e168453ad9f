------------------------- MODULE PageTableProofs -------------------------
(***************************************************************************)
(* What the searches and walks of PageTable do, for every table: the       *)
(* lemmas that the proofs about its users rest on.                         *)
(***************************************************************************)
EXTENDS PageTable, WellFoundedInduction, TLAPS

USE DEF Pages, Bit

----------------------------------------------------------------------------
\* The stored tag fits the field, and is the pid itself when the pid fits.
LEMMA TagType == \A pid \in Nat : Tag(pid) \in 0..(TagMod - 1)
  BY PageTableAssumption DEF Tag

LEMMA TagOfSmall == \A pid \in 0..(TagMod - 1) : Tag(pid) = pid
  BY PageTableAssumption DEF Tag

LEMMA BlockEntryType ==
    ASSUME NEW offset \in Int, NEW size \in Int, NEW tag \in 0..(TagMod - 1)
    PROVE  BlockEntry(offset, size, tag) \in Entry
  BY DEF BlockEntry, Entry

\* kmalloc's and kfree's writes keep the table well typed.
LEMMA AllocatedType ==
    ASSUME NEW table \in [Pages -> Entry], NEW i \in Pages, NEW size \in Nat,
           NEW tag \in 0..(TagMod - 1)
    PROVE  Allocated(table, i, size, tag) \in [Pages -> Entry]
  <1>1. ASSUME NEW p \in Pages PROVE BlockEntry(p - i, size, tag) \in Entry
    BY <1>1, BlockEntryType, PageTableAssumption
  <1> QED BY <1>1 DEF Allocated

LEMMA FreedType ==
    ASSUME NEW table \in [Pages -> Entry], NEW page \in Pages
    PROVE  Freed(table, page) \in [Pages -> Entry]
  <1>1. ZeroEntry \in Entry
    BY PageTableAssumption DEF ZeroEntry, Entry
  <1> QED BY <1>1 DEF Freed

\* kfree of a page without links clears that page only.
LEMMA ChainSingle ==
    ASSUME NEW table \in [Pages -> Entry], NEW page \in Pages,
           table[page].linked_to_last = 0, table[page].linked_to_next = 0
    PROVE  Chain(table, page) = {page}
  <1>1. BlockHead(table, page) = page
    <2> DEFINE P(h) == /\ table[h].linked_to_last = 0
                       /\ \A j \in (h + 1)..page : table[j].linked_to_last = 1
    <2>1. page \in 0..page /\ P(page)
      BY PageTableAssumption
    <2>2. \A h \in 0..page : P(h) => h = page
      BY PageTableAssumption
    <2> QED BY <2>1, <2>2 DEF BlockHead
  <1> QED BY <1>1, PageTableAssumption DEF Chain

LEMMA FreedSingle ==
    ASSUME NEW table \in [Pages -> Entry], NEW page \in Pages,
           table[page].linked_to_last = 0, table[page].linked_to_next = 0
    PROVE  Freed(table, page) = [table EXCEPT ![page] = ZeroEntry]
  <1>1. Chain(table, page) = {page}
    BY ChainSingle
  <1> DEFINE f == [table EXCEPT ![page] = ZeroEntry]
  <1>2. f = [p \in Pages |-> IF p = page THEN ZeroEntry ELSE table[p]]
    OBVIOUS
  <1> QED BY <1>1, <1>2 DEF Freed

\* kfree of the first page of a block clears the block, for any size: the links
\* kmalloc wrote lead through all of it and end with it.
LEMMA ChainBlock ==
    ASSUME NEW table \in [Pages -> Entry], NEW page \in Pages, NEW size \in Nat \ {0},
           NEW tag, page + size - 1 \in Pages,
           \A p \in page..(page + size - 1) : table[p] = BlockEntry(p - page, size, tag)
    PROVE  Chain(table, page) = page..(page + size - 1)
  <1>1. \A p \in page..(page + size - 1) :
            /\ table[p].linked_to_next = IF p - page < size - 1 THEN 1 ELSE 0
            /\ table[p].linked_to_last = IF p - page > 0 THEN 1 ELSE 0
    <2> TAKE p \in page..(page + size - 1)
    <2>1. table[p] = BlockEntry(p - page, size, tag)
      OBVIOUS
    <2> QED BY <2>1 DEF BlockEntry
  <1>2. page \in Int /\ page \in page..(page + size - 1)
        /\ page + size - 1 \in page..(page + size - 1)
    BY PageTableAssumption
  <1>3. BlockHead(table, page) = page
    <2> DEFINE P(h) == /\ table[h].linked_to_last = 0
                       /\ \A j \in (h + 1)..page : table[j].linked_to_last = 1
    <2>0. table[page].linked_to_last = 0
      BY <1>1, <1>2
    <2>1. page \in 0..page /\ P(page)
      BY <2>0, PageTableAssumption
    <2>2. \A h \in 0..page : P(h) => h = page
      BY <2>0, PageTableAssumption
    <2> QED BY <2>1, <2>2 DEF BlockHead
  <1>4. \A k \in page..(page + size - 2) : table[k].linked_to_next = 1
    BY <1>1, <1>2
  <1>5. table[page + size - 1].linked_to_next = 0
    BY <1>1, <1>2
  <1> QED BY <1>3, <1>4, <1>5, PageTableAssumption DEF Chain

\* A one-page request writes one unlinked entry.
LEMMA AllocatedSingle ==
    ASSUME NEW table \in [Pages -> Entry], NEW i \in Pages, NEW tag
    PROVE  Allocated(table, i, 1, tag) =
             [table EXCEPT ![i] = [pid |-> tag, used |-> 1, unusable |-> 0,
                                   linked_to_next |-> 0, linked_to_last |-> 0,
                                   reserved |-> 0]]
  <1> DEFINE e == [pid |-> tag, used |-> 1, unusable |-> 0, linked_to_next |-> 0,
                   linked_to_last |-> 0, reserved |-> 0]
  <1>1. i..(i + 1 - 1) = {i}
    BY PageTableAssumption
  <1>2. BlockEntry(i - i, 1, tag) = e
    BY PageTableAssumption DEF BlockEntry
  <1>3. [table EXCEPT ![i] = e] = [p \in Pages |-> IF p = i THEN e ELSE table[p]]
    OBVIOUS
  <1> HIDE DEF e
  <1>4. Allocated(table, i, 1, tag) = [p \in Pages |-> IF p = i THEN e ELSE table[p]]
    BY <1>1, <1>2 DEF Allocated
  <1> QED BY <1>3, <1>4 DEF e

----------------------------------------------------------------------------
\* Numbers are well ordered.
LEMMA Least ==
    ASSUME NEW T \in SUBSET Nat, T # {}
    PROVE  \E n \in T : \A m \in T : n <= m
  <1> DEFINE R == OpToRel(<, Nat)
  <1>1. \A x, y \in Nat : x < y => <<x, y>> \in R
    BY DEF OpToRel
  <1>2. IsWellFoundedOn(R, Nat)
    BY NatLessThanWellFounded
  <1> HIDE DEF R
  <1>3. PICK x \in T : \A y \in T : ~(<<y, x>> \in R)
    BY <1>2, WFMin
  <1>4. \A y \in T : ~(y < x)
    BY <1>1, <1>3
  <1> QED BY <1>4

\* For one page check_free looks at nothing: a page suits when it is free.
LEMMA SuitsSingle ==
    ASSUME NEW table, NEW i \in FirstPage..(page_table_size - 1),
           table[i].used = 0, table[i].unusable = 0
    PROVE  Suits(table, i, 1)
  <1>1. i..(1 - 1) = {}
    BY PageTableAssumption
  <1> QED BY <1>1 DEF Suits, check_free

\* The search finds a page if there is one.
LEMMA SearchFinds ==
    ASSUME NEW table, NEW size, NEW i \in Pages, Suits(table, i, size)
    PROVE  \E j \in Pages : FirstFit(table, j, size)
  <1> DEFINE T == {j \in Nat : j \in Pages /\ Suits(table, j, size)}
  <1>1. i \in T
    BY PageTableAssumption
  <1>2. PICK j \in T : \A m \in T : j <= m
    BY <1>1, Least
  <1>3. \A m \in FirstPage..(j - 1) : ~Suits(table, m, size)
    BY <1>2, PageTableAssumption
  <1> QED BY <1>2, <1>3 DEF FirstFit
=============================================================================
