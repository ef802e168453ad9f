------------------------- MODULE MemoryMapProofs -------------------------
(***************************************************************************)
(* Theorems about MemoryMap, for every size of a page, of the memory and   *)
(* of the map, and every map of MemoryMap's Answers that is Complete.      *)
(***************************************************************************)
EXTENDS MemoryMap, NaturalsInduction, WellFoundedInduction, TLAPS

\* The address of a page.
Addr(p) == p * PageUnits

\* What the assumption says of the constants.
LEMMA Units == PageUnits \in Nat /\ PageUnits > 0 /\ RamPages \in Nat
               /\ FirstPage \in Nat /\ FirstPage >= 1 /\ FirstPage <= RamPages
               /\ EntriesPerUnit \in Nat /\ EntriesPerUnit > 0
               /\ LowLimit = Addr(FirstPage)
  BY MemoryMapAssumption DEF LowLimit, Addr

LEMMA AddrInt == \A p \in Int : Addr(p) \in Int
  BY Units DEF Addr

LEMMA AddrNext == \A p \in Int : Addr(p + 1) = Addr(p) + PageUnits
  BY Units DEF Addr

LEMMA AddrOrder == \A p, q \in Int : p <= q => Addr(p) <= Addr(q)
<1> SUFFICES ASSUME NEW p \in Int, NEW q \in Int, p <= q
             PROVE  Addr(p) <= Addr(q)
  OBVIOUS
<1>1. PICK d \in Nat : q = p + d
  <2>1. q - p \in Nat /\ q = p + (q - p)
    OBVIOUS
  <2> QED
    BY <2>1
<1>2. d * PageUnits \in Nat
  BY Units
<1>3. (p + d) * PageUnits = p * PageUnits + d * PageUnits /\ p * PageUnits \in Int
  BY Units
<1> QED
  BY <1>1, <1>2, <1>3 DEF Addr

LEMMA AddrApart == \A p, q \in Int : Addr(p) < Addr(q) => p + 1 <= q
<1> SUFFICES ASSUME NEW p \in Int, NEW q \in Int, ~(p + 1 <= q), Addr(p) < Addr(q)
             PROVE  FALSE
  OBVIOUS
<1>1. q <= p
  OBVIOUS
<1> QED
  BY <1>1, AddrOrder, AddrInt

\* The table's own pages come first.
LEMMA UnderOrder ==
    ASSUME NEW list, TableSize(list) \in Nat, NEW p \in Int, NEW q \in Int, p <= q,
           UnderTable(list, q)
    PROVE  UnderTable(list, p)
<1> DEFINE a == p * PageUnits - LowLimit
           b == q * PageUnits - LowLimit
<1>1. a \in Int /\ b \in Int /\ a <= b
  <2>1. Addr(p) <= Addr(q) /\ Addr(p) \in Int /\ Addr(q) \in Int /\ LowLimit \in Int
    BY AddrOrder, AddrInt, Units
  <2> QED
    BY <2>1 DEF Addr
<1>2. b * EntriesPerUnit < TableSize(list)
  BY DEF UnderTable
<1> HIDE DEF a, b
<1>3. a * EntriesPerUnit <= b * EntriesPerUnit /\ a * EntriesPerUnit \in Int /\ b * EntriesPerUnit \in Int
  <2>1. PICK d \in Nat : b = a + d
    <3>1. b - a \in Nat /\ b = a + (b - a)
      BY <1>1
    <3> QED
      BY <3>1
  <2>2. d * EntriesPerUnit \in Nat /\ (a + d) * EntriesPerUnit = a * EntriesPerUnit + d * EntriesPerUnit
    BY <1>1, Units
  <2>3. a * EntriesPerUnit \in Int
    BY <1>1, Units
  <2> QED
    BY <2>1, <2>2, <2>3
<1>4. a * EntriesPerUnit < TableSize(list)
  BY <1>2, <1>3
<1> QED
  BY <1>4 DEF UnderTable, a

\* The table's first page is its own.
LEMMA UnderFirst ==
    ASSUME NEW list, TableSize(list) \in Nat, TableSize(list) > 0
    PROVE  UnderTable(list, FirstPage)
<1>1. FirstPage * PageUnits - LowLimit = 0
  BY Units DEF LowLimit
<1>2. 0 * EntriesPerUnit = 0
  BY Units
<1> QED
  BY <1>1, <1>2 DEF UnderTable

\* Every set of numbers has a least one.
LEMMA Least ==
    ASSUME NEW T \in SUBSET Nat, T # {}
    PROVE  \E n \in T : \A k \in T : n <= k
<1> DEFINE R == OpToRel(<, Nat)
<1>1. \A x, y \in Nat : x < y => <<x, y>> \in R
  BY DEF OpToRel
<1>2. IsWellFoundedOn(R, Nat)
  BY NatLessThanWellFounded
<1> HIDE DEF R
<1>3. PICK x \in T : \A y \in T : ~(<<y, x>> \in R)
  BY <1>2, WFMin
<1>4. \A y \in T : ~(y < x)
  BY <1>1, <1>3
<1> QED
  BY <1>4

----------------------------------------------------------------------------
(***************************************************************************)
(* The map.  Memory first, then the ROM and what lies above 4GB, whose     *)
(* limits are 0.                                                           *)
(***************************************************************************)
\* A region of memory: it is a page long at least if it ends above 1MB.
Ram(e) ==
    /\ e.base \in Nat /\ e.length \in Nat /\ e.length > 0
    /\ e.base + e.length <= Addr(RamPages)
    /\ e.base + e.length > LowLimit => e.length >= PageUnits

Beyond(e) == e.type # Usable /\ Limit(e) = 0

MapInv(list) ==
    /\ list \in Seq([base : Nat, length : Nat, type : {Usable, 2}])
    /\ \A k \in 1..Len(list) : Ram(list[k]) \/ Beyond(list[k])
    /\ \A j, k \in 1..Len(list) : j < k /\ Beyond(list[j]) => Beyond(list[k])
    /\ list # <<>> => Ram(list[1])
    /\ \A k \in 1..Len(list) :
         Beyond(list[k]) => list[k].length = 0 \/ list[k].base >= Addr(RamPages)

\* What is left of a map that init_memory accepts.
Sorted(list) ==
    \A j, k \in 1..Len(list) : j < k /\ Ram(list[k]) => Limit(list[j]) <= list[k].base

\* The region Complete speaks of, which 1MB is in.
Anchor(j) ==
    /\ j \in 1..Len(mmap)
    /\ mmap[j].type = Usable
    /\ LowLimit \in mmap[j].base..Limit(mmap[j])
    /\ \E p \in FirstPage..RamPages :
        ~UnderTable(mmap, p) /\ p * PageUnits < Limit(mmap[j])
    /\ \A p \in FirstPage..RamPages :
        ~UnderTable(mmap, p) => j - 2 <= p - FirstPage

(***************************************************************************)
(* The walk, at entry number c after page q.  While it is under the table  *)
(* it is at or before the anchor and has left an entry for each page from  *)
(* FirstPage on; then it is at the first region that ends behind the page. *)
(***************************************************************************)
Behind(c, q) ==
    \A j \in 1..Len(mmap) :
        Anchor(j) => /\ c + 1 <= j
                     /\ c + 1 = j \/ c >= q - FirstPage + 1

InStep(c, q) ==
    /\ c + 1 <= Len(mmap)
    /\ Ram(mmap[c + 1])
    /\ Addr(q) < Limit(mmap[c + 1])
    /\ \A r \in 1..c : Limit(mmap[r]) <= Addr(q)

WalkInv ==
    /\ i = 0 => current_ent = 0
    /\ i > 0 => /\ Sorted(mmap)
                /\ UnderTable(mmap, i - 1) => Behind(current_ent, i - 1)
                /\ ~UnderTable(mmap, i - 1) => InStep(current_ent, i - 1)

\* The page may be left free.
Clear(p) == ~UnderTable(mmap, p) /\ ~BeginsReserved(p)

\* The entries that are written.
TableInv ==
    \A p \in 0..(i - 1) :
        \/ page_table[p] = PT!ReservedEntry /\ p \in BootReserved
        \/ page_table[p] = PT!FreeEntry /\ Clear(p)

\* After the walk: entries kmalloc has taken are one of boot's blocks.
HeapInv ==
    /\ i = page_table_size
    /\ \A p \in 0..(i - 1) :
         /\ page_table[p].used \in {0, 1}
         /\ page_table[p].used = 0 => Clear(p) /\ page_table[p].unusable = 0
         /\ page_table[p].used = 1 =>
              \/ p \in BootReserved
              \/ \E h \in Handles : p \in held[h].start..(held[h].start + held[h].size - 1)
    /\ \A p, q \in (0..(i - 1)) \ BootReserved :
         p < q /\ page_table[p].used = 0 => page_table[q].used = 0

MemoryInv ==
    /\ MapInv(mmap)
    /\ i \in Nat /\ current_ent \in Nat
    /\ stage \in {"e820", "halted", "init_memory", "ready"}
    /\ stage \in {"e820", "halted"} => i = 0 /\ current_ent = 0
    /\ stage \in {"init_memory", "ready"} => Complete(mmap) /\ i <= page_table_size
    /\ stage = "init_memory" => WalkInv /\ TableInv
    /\ stage = "ready" => HeapInv
    /\ DOMAIN held = Handles

\* The addresses are wide enough: all of memory lies below 2GB.
LEMMA Widths == /\ AddressMod \in Nat /\ AddressMod > 2 * Addr(RamPages)
                /\ Addr(RamPages) < AddressMod \div 2 /\ Addr(RamPages) >= PageUnits
                /\ Addr(RamPages) \in Nat
<1>1. Addr(RamPages) \in Int /\ Addr(1) <= Addr(RamPages) /\ Addr(1) = PageUnits
  <2>1. 1 \in Int /\ RamPages \in Int /\ 1 <= RamPages
    BY Units
  <2>2. Addr(1) = PageUnits
    BY Units DEF Addr
  <2> QED
    BY <2>1, <2>2, AddrOrder, AddrInt
<1>2. 2 * PageUnits * RamPages = 2 * Addr(RamPages)
  BY Units DEF Addr
<1>3. AddressMod \in Nat /\ AddressMod % 2 = 0 /\ AddressMod > 2 * Addr(RamPages)
  BY <1>2, MemoryMapAssumption
<1> QED
  BY <1>1, <1>3, Units

\* The limit of a region of memory does not wrap, nor does it look negative.
LEMMA RamLimit ==
    ASSUME NEW e, Ram(e)
    PROVE  /\ Limit(e) = e.base + e.length /\ Signed(Limit(e)) = Limit(e)
           /\ Limit(e) \in Nat /\ Limit(e) > 0 /\ Limit(e) <= Addr(RamPages)
           /\ e.base < Limit(e)
           /\ ~Beyond(e)
<1> DEFINE x == e.base + e.length
<1>1. x \in Nat /\ x > 0 /\ x <= Addr(RamPages) /\ e.base < x
  BY DEF Ram
<1> HIDE DEF x
<1>2. x < AddressMod /\ x < AddressMod \div 2
  BY <1>1, Widths
<1>3. x % AddressMod = x
  BY <1>1, <1>2, Widths
<1>4. Limit(e) = x
  BY <1>3 DEF Limit, x
<1>5. Signed(x) = x
  BY <1>2 DEF Signed
<1> QED
  BY <1>1, <1>4, <1>5 DEF Beyond, x

\* A boundary is an address of memory.
LEMMA Boundaries == \A a \in Boundary : a \in Nat /\ a <= Addr(RamPages)
  BY Widths DEF Boundary, Addr

\* A region of the answers is one of memory.
LEMMA RegionRam ==
    ASSUME NEW a \in Nat, NEW b \in Boundary, a < b,
           b > LowLimit => b - a >= PageUnits,
           NEW e, e.base = a, e.length = b - a
    PROVE  Ram(e)
<1>1. b \in Nat /\ b <= Addr(RamPages) /\ a + (b - a) = b
  BY Boundaries
<1> QED
  BY <1>1 DEF Ram

\* The loader keeps the map in shape, whatever the BIOS answers.
LEMMA StoredMap ==
    ASSUME MapInv(mmap), NEW e \in Answers
    PROVE  MapInv(Stored(e))
<1> DEFINE n == Len(mmap)
           new == [base |-> e.base, length |-> e.length, type |-> e.type]
           longer == Append(mmap, new)
           Entries == [base : Nat, length : Nat, type : {Usable, 2}]
<1>1. mmap \in Seq(Entries) /\ n \in Nat
  BY DEF MapInv
<1>2. ASSUME e.present, e.length # 0 \/ e.high
      PROVE  /\ new \in Entries
             /\ \/ /\ Beyond(new) /\ mmap # <<>>
                   /\ new.length = 0 \/ new.base >= Addr(RamPages)
                \/ Ram(new) /\ (mmap # <<>> => Limit(mmap[n]) # 0)
  <2>1. CASE mmap # <<>> /\ End(mmap) = 0
    <3>1. e = Above4G
      BY <2>1 DEF Answers
    <3>2. new = [base |-> 0, length |-> 0, type |-> 2]
      BY <3>1 DEF Above4G
    <3>3. 0 % AddressMod = 0
      BY Widths
    <3> QED
      BY <2>1, <3>2, <3>3 DEF Beyond, Limit, Usable
  <2>2. CASE ~(mmap # <<>> /\ End(mmap) = 0) /\ e \in InOrder
    <3>1. PICK a \in Boundary, b \in Boundary, type \in {Usable, 2} : e = Region(a, b, type)
      BY <2>2 DEF InOrder
    <3>2. /\ e.base = a /\ e.length = b - a /\ e.type = type /\ e.length > 0
          /\ e.base + e.length > LowLimit => e.length >= PageUnits
      BY <2>2, <3>1 DEF InOrder, Region
    <3>3. a \in Nat /\ b \in Nat
      BY Boundaries
    <3>4. b - a > 0 /\ a + (b - a) = b
      BY <3>2, <3>3
    <3>5. Ram(new) /\ new \in Entries
      BY <3>2, <3>3, <3>4, RegionRam
    <3> QED
      BY <2>2, <3>5 DEF End
  <2>3. CASE ~(mmap # <<>> /\ End(mmap) = 0) /\ e \in Odd
    <3>1. PICK b \in {PageUnits, RamPages * PageUnits} : e = Region(0, b, Usable) /\ End(mmap) > 0
      <4>1. ~[Region(0, RamPages * PageUnits, Usable) EXCEPT !.present = FALSE].present
        BY DEF Region
      <4>2. ~(Region(0, 0, Usable).length # 0 \/ Region(0, 0, Usable).high)
        BY DEF Region
      <4> QED
        BY <1>2, <2>3, <4>1, <4>2 DEF Odd
    <3>2. b \in Boundary /\ b \in Nat /\ PageUnits <= b
      <4>1. Addr(RamPages) = RamPages * PageUnits
        BY Units DEF Addr
      <4>2. PageUnits \in Boundary /\ RamPages * PageUnits \in Boundary
        BY <4>1, Units, Widths DEF Boundary
      <4> QED
        BY <4>1, <4>2, Units, Widths
    <3>3. e.base = 0 /\ e.length = b - 0 /\ e.type = Usable
      BY <3>1 DEF Region
    <3>4. 0 \in Nat /\ 0 < b /\ b - 0 >= PageUnits /\ b - 0 = b
      BY <3>2, Units
    <3>5. Ram(new) /\ new \in Entries
      BY <3>2, <3>3, <3>4, RegionRam
    <3>6. mmap # <<>> => Limit(mmap[n]) # 0
      BY <2>3 DEF End
    <3> QED
      BY <3>5, <3>6
  <2>4. CASE ~(mmap # <<>> /\ End(mmap) = 0) /\ e = Rom /\ mmap # <<>>
    <3>1. new = [base |-> AddressMod - PageUnits, length |-> PageUnits, type |-> 2]
      BY <2>4 DEF Rom
    <3>2. AddressMod - PageUnits \in Nat /\ AddressMod - PageUnits + PageUnits = AddressMod
      BY Widths, Units
    <3>3. AddressMod % AddressMod = 0
      BY Widths
    <3>4. Limit(new) = 0
      BY <3>1, <3>2, <3>3 DEF Limit
    <3>5. new \in Entries
      BY <3>1, <3>2, Units
    <3>6. new.base >= Addr(RamPages)
      BY <3>1, <3>2, Widths, Units
    <3> QED
      BY <2>4, <3>1, <3>4, <3>5, <3>6 DEF Beyond, Usable
  <2> QED
    BY <2>1, <2>2, <2>3, <2>4 DEF Answers
<1> HIDE DEF new, Entries
<1>3. CASE e.present /\ (e.length # 0 \/ e.high)
  <2>1. Stored(e) = longer
    BY <1>3 DEF Stored, new
  <2>2. new \in Entries
    BY <1>2, <1>3
  <2>3. /\ longer \in Seq(Entries) /\ Len(longer) = n + 1 /\ longer[n + 1] = new
        /\ \A k \in 1..n : longer[k] = mmap[k]
    BY <1>1, <2>2
  <2> HIDE DEF longer
  <2>4. \A k \in 1..(n + 1) : k \in 1..n \/ k = n + 1
    BY <1>1
  <2>5. n > 0 <=> mmap # <<>>
    BY <1>1
  <2>6. \A k \in 1..n : Ram(mmap[k]) \/ Beyond(mmap[k])
    BY DEF MapInv
  <2>7. \A k \in 1..(n + 1) : Ram(longer[k]) \/ Beyond(longer[k])
    BY <1>2, <1>3, <2>3, <2>4, <2>6
  <2>8. ASSUME NEW j \in 1..(n + 1), NEW k \in 1..(n + 1), j < k, Beyond(longer[j])
        PROVE  Beyond(longer[k])
    <3>1. j \in 1..n
      BY <1>1, <2>8
    <3>2. Beyond(mmap[j])
      BY <2>3, <2>8, <3>1
    <3>3. CASE k \in 1..n
      BY <2>3, <2>8, <3>1, <3>2, <3>3 DEF MapInv
    <3>4. CASE k = n + 1
      <4>1. n \in 1..n /\ mmap # <<>> /\ (j = n \/ j < n)
        BY <1>1, <2>5, <3>1
      <4>2. Beyond(mmap[n])
        BY <3>1, <3>2, <4>1 DEF MapInv
      <4>3. Limit(mmap[n]) = 0
        BY <4>2 DEF Beyond
      <4> QED
        BY <1>2, <1>3, <2>3, <3>4, <4>1, <4>3
    <3> QED
      BY <2>4, <3>3, <3>4
  <2>9. Ram(longer[1])
    <3>1. CASE n = 0
      BY <1>2, <1>3, <2>3, <2>5, <3>1
    <3>2. CASE n > 0
      <4>1. 1 \in 1..n
        BY <1>1, <3>2
      <4> QED
        BY <2>3, <2>5, <3>2, <4>1 DEF MapInv
    <3> QED
      BY <1>1, <3>1, <3>2
  <2>10. ASSUME NEW k \in 1..(n + 1), Beyond(longer[k])
         PROVE  longer[k].length = 0 \/ longer[k].base >= Addr(RamPages)
    <3>1. CASE k \in 1..n
      BY <2>3, <2>10, <3>1 DEF MapInv
    <3>2. CASE k = n + 1
      BY <1>2, <1>3, <2>3, <2>10, <3>2, RamLimit
    <3> QED
      BY <2>4, <3>1, <3>2
  <2>11. MapInv(longer)
    BY <2>3, <2>7, <2>8, <2>9, <2>10 DEF MapInv, Entries
  <2> QED
    BY <2>1, <2>11
<1>4. CASE ~(e.present /\ (e.length # 0 \/ e.high))
  BY <1>4 DEF Stored
<1> QED
  BY <1>3, <1>4

\* A set of numbers with a bound has a greatest one.
LEMMA Greatest ==
    ASSUME NEW n \in Nat, NEW T \in SUBSET (0..n), T # {}
    PROVE  \E m \in T : \A k \in T : k <= m
<1> DEFINE B == {k \in Nat : \A m \in T : m <= k}
<1>1. n \in B
  OBVIOUS
<1>2. PICK b \in B : \A k \in B : b <= k
  <2>1. B \in SUBSET Nat /\ B # {}
    BY <1>1
  <2> HIDE DEF B
  <2> QED
    BY <2>1, Least
<1>3. b \in T
  <2> SUFFICES ASSUME b \notin T
               PROVE  FALSE
    OBVIOUS
  <2>1. PICK e \in T : e \in 0..n
    OBVIOUS
  <2>2. \A m \in T : m <= b - 1
    BY <1>2
  <2>3. b >= 1
    BY <1>2, <2>1, <2>2
  <2>4. b - 1 \in B
    BY <2>2, <2>3
  <2> QED
    BY <1>2, <2>4
<1> QED
  BY <1>2, <1>3

\* No limit of the map is negative as an int.
LEMMA Limits ==
    ASSUME MapInv(mmap), NEW k \in 1..Len(mmap)
    PROVE  Limit(mmap[k]) \in 0..Addr(RamPages) /\ Signed(Limit(mmap[k])) = Limit(mmap[k])
<1>1. CASE Ram(mmap[k])
  BY <1>1, RamLimit, Widths
<1>2. CASE Beyond(mmap[k])
  <2>1. Limit(mmap[k]) = 0
    BY <1>2 DEF Beyond
  <2>2. 0 < AddressMod \div 2
    BY Widths
  <2> QED
    BY <2>1, <2>2, Widths DEF Signed
<1> QED
  BY <1>1, <1>2 DEF MapInv

LEMMA UsableRam ==
    ASSUME MapInv(mmap), NEW k \in 1..Len(mmap), mmap[k].type = Usable
    PROVE  Ram(mmap[k])
  BY DEF MapInv, Beyond

LEMMA ElementIn ==
    ASSUME NEW X, NEW s \in Seq(X), NEW k \in 1..Len(s)
    PROVE  s[k] \in X
  OBVIOUS

\* A complete map has an anchor.
LEMMA AnchorExists ==
    ASSUME Complete(mmap)
    PROVE  \E j \in 1..Len(mmap) : Anchor(j)
  BY DEF Complete, Anchor

\* The anchor reaches past 1MB.
LEMMA AnchorEnds ==
    ASSUME MapInv(mmap), NEW j, Anchor(j)
    PROVE  /\ j \in 1..Len(mmap) /\ Ram(mmap[j])
           /\ mmap[j].base <= LowLimit /\ LowLimit < Limit(mmap[j])
<1>1. j \in 1..Len(mmap) /\ Ram(mmap[j])
  BY UsableRam DEF Anchor
<1>2. PICK p \in FirstPage..RamPages : p * PageUnits < Limit(mmap[j])
  BY DEF Anchor
<1>3. Addr(FirstPage) <= Addr(p) /\ Addr(p) < Limit(mmap[j])
  <2>1. p \in Int /\ FirstPage \in Int /\ FirstPage <= p
    BY Units
  <2> QED
    BY <1>2, <2>1, AddrOrder DEF Addr
<1>4. Addr(FirstPage) \in Int /\ Addr(p) \in Int
  BY Units, AddrInt
<1>5. LowLimit < Limit(mmap[j])
  BY <1>1, <1>3, <1>4, Units, RamLimit
<1>6. mmap[j].base <= LowLimit
  BY DEF Anchor
<1> QED
  BY <1>1, <1>5, <1>6

\* The table ends in the page where the last region of memory does.
LEMMA TableEnds ==
    ASSUME MapInv(mmap), Complete(mmap)
    PROVE  /\ page_table_size \in Nat /\ page_table_size <= RamPages
           /\ \E x \in 1..Len(mmap) : Ram(mmap[x]) /\ Limit(mmap[x]) >= Addr(page_table_size)
           /\ page_table_size >= FirstPage
<1> DEFINE n == Len(mmap)
           S == {0} \cup {Limit(mmap[k]) : k \in 1..n}
           m == max_address(mmap)
<1>1. S \in SUBSET (0..Addr(RamPages)) /\ S # {}
  BY Limits, Widths
<1>2. m \in S /\ \A b \in S : b <= m
  <2>1. \E a \in S : \A b \in S : b <= a
    <3> HIDE DEF S
    <3> QED
      BY <1>1, Widths, Greatest
  <2>2. m = CHOOSE a \in S : \A b \in S : b <= a
    BY DEF max_address
  <2> HIDE DEF S, m
  <2> QED
    BY <2>1, <2>2
<1>3. PICK j \in 1..n : Anchor(j)
  BY AnchorExists
<1>4. m > LowLimit /\ m \in Nat /\ LowLimit \in Nat
  <2>1. LowLimit < Limit(mmap[j]) /\ Limit(mmap[j]) \in S
    BY <1>3, AnchorEnds
  <2>2. LowLimit \in Nat
    BY Units, MemoryMapAssumption DEF LowLimit
  <2> HIDE DEF S, m
  <2> QED
    <3>1. m \in 0..Addr(RamPages) /\ Limit(mmap[j]) \in 0..Addr(RamPages) /\ Limit(mmap[j]) <= m
      BY <1>1, <1>2, <2>1
    <3> QED
      BY <2>1, <2>2, <3>1, Widths
<1>5. PICK x \in 1..n : m = Limit(mmap[x])
  <2>1. m # 0
    BY <1>4
  <2> HIDE DEF m
  <2> QED
    BY <1>2, <2>1
<1>6. Ram(mmap[x])
  <2>1. Limit(mmap[x]) # 0
    BY <1>4, <1>5
  <2> QED
    BY <2>1 DEF MapInv, Beyond
<1>7. m <= Addr(RamPages)
  <2> HIDE DEF S, m
  <2>1. m \in 0..Addr(RamPages)
    BY <1>1, <1>2
  <2> QED
    BY <2>1, Widths
<1> DEFINE t == m \div PageUnits
<1>8. page_table_size = t
  BY DEF page_table_size, TableSize
<1> HIDE DEF m
<1>9. t \in Nat /\ Addr(t) <= m /\ m < Addr(t + 1) /\ Addr(t) \in Int /\ Addr(t + 1) \in Int
  <2>1. t \in Nat /\ t * PageUnits <= m /\ m < t * PageUnits + PageUnits
    BY <1>4, Units
  <2> HIDE DEF t
  <2>2. Addr(t + 1) = Addr(t) + PageUnits /\ Addr(t) \in Int
    BY <2>1, AddrNext, AddrInt
  <2> QED
    BY <2>1, <2>2, Units DEF Addr
<1> HIDE DEF t
<1>10. t <= RamPages
  <2> SUFFICES ASSUME RamPages + 1 <= t
               PROVE  FALSE
    BY <1>9, Units
  <2>1. RamPages \in Int /\ RamPages + 1 \in Int /\ t \in Int
    BY <1>9, Units
  <2>2. Addr(RamPages + 1) <= Addr(t) /\ Addr(RamPages + 1) = Addr(RamPages) + PageUnits
    BY <2>1, AddrOrder, AddrNext
  <2>3. m \in Int /\ Addr(RamPages) \in Int /\ PageUnits \in Int /\ PageUnits > 0
    BY <1>4, Units, Widths
  <2>4. Addr(t) \in Int /\ Addr(t) <= m
    BY <1>9
  <2>5. Addr(RamPages) + PageUnits <= Addr(t)
    BY <2>2
  <2>6. Addr(RamPages) + PageUnits <= m
    BY <2>3, <2>4, <2>5
  <2> QED
    BY <1>7, <2>3, <2>6
<1>11. FirstPage <= t
  <2>1. Addr(FirstPage) < Addr(t + 1) /\ FirstPage \in Int /\ t + 1 \in Int
    BY <1>4, <1>9, Units, AddrInt
  <2>2. FirstPage + 1 <= t + 1
    BY <2>1, AddrApart
  <2> QED
    BY <1>9, <2>1, <2>2
<1>12. x \in 1..n /\ Ram(mmap[x]) /\ Limit(mmap[x]) >= Addr(page_table_size)
  BY <1>4, <1>5, <1>6, <1>8, <1>9
<1> QED
  BY <1>8, <1>9, <1>10, <1>11, <1>12

\* A map whose neighbours are in order is in order.
LEMMA SortedMap ==
    ASSUME MapInv(mmap), Complete(mmap), check_sorted = 0
    PROVE  Sorted(mmap)
<1> DEFINE n == Len(mmap)
           L(k) == Limit(mmap[k])
<1>0. n \in Nat
  BY DEF MapInv
<1>1. ASSUME NEW k \in 1..n PROVE L(k) \in Int
  BY Limits, Widths
<1>2. ASSUME NEW k \in 2..n, Ram(mmap[k])
      PROVE  L(k - 1) <= mmap[k].base
  <2>0. k - 1 \in 1..n /\ k \in 1..n
    BY <1>0
  <2>1. mmap[k].base \in Int /\ L(k - 1) \in Int
    BY <1>1, <1>2, <2>0 DEF Ram
  <2>2. CASE k = n
    BY <1>0, <1>2, <2>2 DEF Complete, Ram
  <2>3. CASE k < n
    <3> DEFINE bad == {j \in 1..(n - 2) : mmap[j + 1].base < Limit(mmap[j])}
    <3>1. bad = {}
      <4> SUFFICES ASSUME bad # {}
                   PROVE  FALSE
        OBVIOUS
      <4>1. check_sorted = CHOOSE j \in bad : \A l \in bad : j <= l
        BY DEF check_sorted
      <4>2. bad \in SUBSET Nat /\ 0 \notin bad
        BY <1>0
      <4> HIDE DEF bad
      <4>3. \E j \in bad : \A l \in bad : j <= l
        BY <4>2, Least
      <4>4. check_sorted \in bad
        BY <4>1, <4>3
      <4> QED
        BY <4>2, <4>4
    <3>2. k - 1 \in 1..(n - 2) /\ (k - 1) + 1 = k
      BY <1>0, <2>3
    <3>3. ~(mmap[k].base < L(k - 1))
      BY <3>1, <3>2
    <3> QED
      BY <2>1, <3>3
  <2> QED
    BY <1>0, <2>2, <2>3
<1>3. ASSUME NEW j \in 1..n
      PROVE  \A k \in 1..n : j < k /\ Ram(mmap[k]) => L(j) <= mmap[k].base
  <2> DEFINE T == {k \in 1..n : j < k /\ Ram(mmap[k]) /\ ~(L(j) <= mmap[k].base)}
  <2>1. T = {}
    <3> SUFFICES ASSUME T # {}
                 PROVE  FALSE
      OBVIOUS
    <3>1. PICK k \in T : \A l \in T : k <= l
      <4>1. T \in SUBSET Nat
        BY <1>0
      <4> HIDE DEF T
      <4> QED
        BY <4>1, Least
    <3>2. k \in 2..n /\ j < k /\ Ram(mmap[k]) /\ ~(L(j) <= mmap[k].base)
      BY <1>0
    <3>3. L(k - 1) <= mmap[k].base
      BY <1>2, <3>2
    <3>4. k - 1 # j
      BY <3>2, <3>3
    <3>5. k - 1 \in 1..n /\ j < k - 1 /\ k \in 1..n /\ k - 1 < k
      BY <1>0, <3>2, <3>4
    <3>6. Ram(mmap[k - 1])
      <4>1. ~Beyond(mmap[k])
        BY <3>2, RamLimit
      <4>2. ~Beyond(mmap[k - 1])
        BY <3>5, <4>1 DEF MapInv
      <4> QED
        BY <3>5, <4>2 DEF MapInv
    <3>7. L(j) <= mmap[k - 1].base
      <4>1. k - 1 \notin T
        BY <1>0, <3>1, <3>5
      <4> QED
        BY <3>5, <3>6, <4>1
    <3>8. mmap[k - 1].base < L(k - 1) /\ mmap[k - 1].base \in Int /\ mmap[k].base \in Int
      <4>1. mmap[k - 1].base \in Int /\ mmap[k].base \in Int
        BY <3>2, <3>6 DEF Ram
      <4> QED
        BY <3>6, <4>1, RamLimit
    <3>9. L(j) \in Int /\ L(k - 1) \in Int
      BY <1>1, <3>5
    <3> QED
      BY <3>2, <3>3, <3>7, <3>8, <3>9
  <2> QED
    BY <2>1
<1> QED
  BY <1>3 DEF Sorted

----------------------------------------------------------------------------
(***************************************************************************)
(* One turn of the walk, for page i.                                       *)
(***************************************************************************)
\* What the turns rely on.
Walking ==
    /\ MapInv(mmap) /\ Complete(mmap) /\ Sorted(mmap)
    /\ i \in Nat /\ current_ent \in Nat /\ i < page_table_size

\* When the walk leaves an entry, and when it does not.
LEMMA Advances ==
    ASSUME Walking, current_ent + 1 <= Len(mmap)
    PROVE  /\ EntryAt(current_ent) = mmap[current_ent + 1]
           /\ current_ent + 1 \in 1..Len(mmap)
           /\ Addr(i) >= Limit(mmap[current_ent + 1]) => NextEnt = current_ent + 1
           /\ ~(Addr(i) >= Limit(mmap[current_ent + 1])) => NextEnt = current_ent
<1>1. Len(mmap) \in Nat /\ current_ent \in Nat
  BY DEF Walking, MapInv
<1>2. current_ent + 1 \in 1..Len(mmap) /\ current_ent < Len(mmap)
  BY <1>1
<1>3. EntryAt(current_ent) = mmap[current_ent + 1]
  BY <1>2 DEF EntryAt
<1>4. Signed(Limit(mmap[current_ent + 1])) = Limit(mmap[current_ent + 1])
  BY <1>2, Limits DEF Walking
<1>5. NextEnt = current_ent + (IF Addr(i) >= Limit(mmap[current_ent + 1]) THEN 1 ELSE 0)
  BY <1>3, <1>4 DEF NextEnt, Addr
<1>6. current_ent + 0 = current_ent
  BY <1>1
<1> QED
  BY <1>2, <1>3, <1>5, <1>6

\* The anchor ends behind the first page past the table, and so behind all before it.
LEMMA AnchorBehind ==
    ASSUME Walking, NEW j, Anchor(j), UnderTable(mmap, i) \/ UnderTable(mmap, i - 1)
    PROVE  Addr(i) < Limit(mmap[j])
<1>1. PICK p \in FirstPage..RamPages : ~UnderTable(mmap, p) /\ p * PageUnits < Limit(mmap[j])
  BY DEF Anchor
<1>2. TableSize(mmap) \in Nat /\ i \in Int /\ p \in Int
  BY TableEnds, Units DEF Walking, page_table_size
<1>3. ~(p <= i - 1)
  <2> SUFFICES ASSUME p <= i - 1
               PROVE  FALSE
    OBVIOUS
  <2>1. p <= i /\ i - 1 \in Int
    BY <1>2
  <2> QED
    BY <1>1, <1>2, <2>1, UnderOrder
<1>4. i <= p
  BY <1>2, <1>3
<1>5. Addr(i) <= Addr(p) /\ Addr(p) < Limit(mmap[j])
  BY <1>1, <1>2, <1>4, AddrOrder DEF Addr
<1>6. Addr(i) \in Int /\ Addr(p) \in Int /\ Limit(mmap[j]) \in Int
  BY <1>2, AddrInt, AnchorEnds, RamLimit DEF Walking
<1> QED
  BY <1>5, <1>6

LEMMA PastFirst ==
    ASSUME Walking, ~UnderTable(mmap, i)
    PROVE  FirstPage < i /\ LowLimit <= Addr(i) /\ LowLimit \in Int /\ Addr(i) \in Int
<1>1. TableSize(mmap) \in Nat /\ TableSize(mmap) > 0
  BY TableEnds, Units DEF Walking, page_table_size
<1>2. UnderTable(mmap, FirstPage) /\ i \in Int /\ FirstPage \in Int
  BY <1>1, UnderFirst, Units DEF Walking
<1>3. ~(i <= FirstPage)
  BY <1>1, <1>2, UnderOrder
<1>4. FirstPage < i
  BY <1>2, <1>3
<1> QED
  BY <1>2, <1>4, AddrOrder, AddrInt, Units

\* The regions in front of the anchor end below 1MB.
LEMMA BeforeAnchor ==
    ASSUME Walking, NEW j, Anchor(j), NEW r \in 1..Len(mmap), r < j
    PROVE  Limit(mmap[r]) <= LowLimit /\ Limit(mmap[r]) \in Int
<1>1. j \in 1..Len(mmap) /\ Ram(mmap[j]) /\ mmap[j].base <= LowLimit
  BY AnchorEnds DEF Walking
<1>2. Limit(mmap[r]) <= mmap[j].base
  BY <1>1 DEF Walking, Sorted
<1>3. Limit(mmap[r]) \in Int /\ mmap[j].base \in Int /\ LowLimit \in Int
  <2>1. Limit(mmap[r]) \in Int
    BY Limits, Widths DEF Walking
  <2>2. mmap[j].base \in Int
    BY <1>1 DEF Ram
  <2> QED
    BY <2>1, <2>2, Units, AddrInt
<1> QED
  BY <1>1, <1>2, <1>3

\* Under the table the walk falls no further behind than one page for each entry.
LEMMA WalkBehind ==
    ASSUME Walking, Behind(current_ent, i - 1), UnderTable(mmap, i)
    PROVE  Behind(NextEnt, i)
<1> SUFFICES ASSUME NEW j \in 1..Len(mmap), Anchor(j)
             PROVE  NextEnt + 1 <= j /\ (NextEnt + 1 = j \/ NextEnt >= i - FirstPage + 1)
  BY DEF Behind
<1>1. Len(mmap) \in Nat /\ current_ent \in Nat /\ i \in Nat /\ FirstPage \in Nat
  BY Units DEF Walking, MapInv
<1>2. current_ent + 1 <= j /\ (current_ent + 1 = j \/ current_ent >= i - 1 - FirstPage + 1)
  BY DEF Behind
<1>3. current_ent + 1 <= Len(mmap)
  BY <1>1, <1>2
<1>4. CASE current_ent + 1 = j
  <2>1. ~(Addr(i) >= Limit(mmap[current_ent + 1]))
    <3>1. Addr(i) < Limit(mmap[j])
      BY AnchorBehind
    <3>2. Addr(i) \in Int /\ Limit(mmap[j]) \in Int
      BY <1>1, AddrInt, AnchorEnds, RamLimit DEF Walking
    <3> QED
      BY <1>4, <3>1, <3>2
  <2>2. NextEnt = current_ent
    BY <1>3, <2>1, Advances
  <2> QED
    BY <1>1, <1>4, <2>2
<1>5. CASE current_ent + 1 < j
  <2>1. current_ent + 1 \in 1..Len(mmap)
    BY <1>1, <1>3
  <2>2. Limit(mmap[current_ent + 1]) <= LowLimit /\ Limit(mmap[current_ent + 1]) \in Int
    BY <1>5, <2>1, BeforeAnchor
  <2>3. CASE Addr(i) >= Limit(mmap[current_ent + 1])
    <3>1. NextEnt = current_ent + 1
      BY <1>3, <2>3, Advances
    <3> QED
      BY <1>1, <1>2, <1>5, <3>1
  <2>4. CASE ~(Addr(i) >= Limit(mmap[current_ent + 1]))
    <3>1. NextEnt = current_ent
      BY <1>3, <2>4, Advances
    <3>2. Addr(i) < Addr(FirstPage)
      <4>1. Addr(i) \in Int /\ Addr(FirstPage) \in Int /\ LowLimit = Addr(FirstPage)
        BY <1>1, AddrInt, Units
      <4> QED
        BY <2>2, <2>4, <4>1
    <3>3. i + 1 <= FirstPage
      BY <1>1, <3>2, AddrApart
    <3> QED
      BY <1>1, <1>5, <3>1, <3>3
  <2> QED
    BY <2>3, <2>4
<1> QED
  BY <1>1, <1>2, <1>4, <1>5

\* At the first page past the table the walk has reached the anchor.
LEMMA WalkCaughtUp ==
    ASSUME Walking, Behind(current_ent, i - 1), UnderTable(mmap, i - 1), ~UnderTable(mmap, i)
    PROVE  InStep(NextEnt, i)
<1>1. Len(mmap) \in Nat /\ current_ent \in Nat /\ i \in Nat /\ FirstPage \in Nat
  BY Units DEF Walking, MapInv
<1>2. PICK j \in 1..Len(mmap) : Anchor(j)
  BY AnchorExists DEF Walking
<1>3. Ram(mmap[j]) /\ Addr(i) < Limit(mmap[j])
  BY <1>2, AnchorEnds, AnchorBehind DEF Walking
<1>4. FirstPage < i /\ LowLimit <= Addr(i) /\ LowLimit \in Int /\ Addr(i) \in Int
  BY PastFirst
<1>5. current_ent + 1 <= j /\ (current_ent + 1 = j \/ current_ent >= i - 1 - FirstPage + 1)
  BY <1>2 DEF Behind
<1>6. j - 2 <= i - FirstPage
  <2>1. i \in FirstPage..RamPages
    BY <1>1, <1>4, TableEnds, Units DEF Walking
  <2> QED
    BY <1>2, <2>1 DEF Anchor
<1>7. current_ent + 1 <= Len(mmap)
  BY <1>1, <1>5
<1>8. NextEnt + 1 = j /\ NextEnt \in Nat
  <2>1. CASE current_ent + 1 = j
    <3>1. ~(Addr(i) >= Limit(mmap[current_ent + 1]))
      BY <1>3, <1>4, <2>1, RamLimit
    <3>2. NextEnt = current_ent
      BY <1>7, <3>1, Advances
    <3> QED
      BY <1>1, <2>1, <3>2
  <2>2. CASE current_ent + 1 < j
    <3>1. current_ent + 1 = j - 1
      BY <1>1, <1>5, <1>6, <2>2
    <3>2. current_ent + 1 \in 1..Len(mmap)
      BY <1>1, <1>7
    <3>3. Limit(mmap[current_ent + 1]) <= LowLimit /\ Limit(mmap[current_ent + 1]) \in Int
      BY <1>2, <2>2, <3>2, BeforeAnchor
    <3>4. Addr(i) >= Limit(mmap[current_ent + 1])
      BY <1>4, <3>3
    <3>5. NextEnt = current_ent + 1
      BY <1>7, <3>4, Advances
    <3> QED
      BY <1>1, <3>1, <3>5
  <2> QED
    BY <1>1, <1>5, <2>1, <2>2
<1>9. ASSUME NEW r \in 1..NextEnt PROVE Limit(mmap[r]) <= Addr(i)
  <2>1. r \in 1..Len(mmap) /\ r < j
    BY <1>1, <1>8
  <2>2. Limit(mmap[r]) <= LowLimit /\ Limit(mmap[r]) \in Int
    BY <1>2, <2>1, BeforeAnchor
  <2> QED
    BY <1>4, <2>2
<1> QED
  BY <1>1, <1>3, <1>8, <1>9 DEF InStep

\* Past the table it stays at the first region that ends behind the page.
LEMMA WalkInStep ==
    ASSUME Walking, InStep(current_ent, i - 1), ~UnderTable(mmap, i - 1), ~UnderTable(mmap, i)
    PROVE  InStep(NextEnt, i)
<1> DEFINE k == current_ent + 1
<1>1. Len(mmap) \in Nat /\ current_ent \in Nat /\ i \in Nat /\ k \in 1..Len(mmap)
  BY DEF Walking, MapInv, InStep
<1>2. Ram(mmap[k]) /\ Addr(i - 1) < Limit(mmap[k])
      /\ \A r \in 1..current_ent : Limit(mmap[r]) <= Addr(i - 1)
  BY DEF InStep
<1>3. /\ Addr(i - 1) \in Int /\ Addr(i) \in Int /\ Addr(i) = Addr(i - 1) + PageUnits
      /\ Addr(i - 1) < Addr(i)
  <2>1. i - 1 \in Int /\ i \in Int /\ (i - 1) + 1 = i
    BY <1>1
  <2>2. Addr(i) = Addr(i - 1) + PageUnits
    BY <2>1, AddrNext
  <2> QED
    BY <2>1, <2>2, AddrInt, Units
<1>4. Limit(mmap[k]) \in Int /\ Limit(mmap[k]) = mmap[k].base + mmap[k].length
  BY <1>2, RamLimit
<1>5. \A r \in 1..current_ent : Limit(mmap[r]) <= Addr(i)
  <2> SUFFICES ASSUME NEW r \in 1..current_ent
               PROVE  Limit(mmap[r]) <= Addr(i)
    OBVIOUS
  <2>1. Limit(mmap[r]) <= Addr(i - 1) /\ r \in 1..Len(mmap)
    BY <1>1, <1>2
  <2>2. Limit(mmap[r]) \in Int
    BY <2>1, Limits, Widths DEF Walking
  <2> QED
    BY <1>3, <2>1, <2>2
<1>6. LowLimit <= Addr(i - 1) /\ LowLimit \in Int
  <2>1. TableSize(mmap) \in Nat /\ TableSize(mmap) > 0
    BY TableEnds, Units DEF Walking, page_table_size
  <2>2. UnderTable(mmap, FirstPage) /\ i - 1 \in Int /\ FirstPage \in Int
    BY <1>1, <2>1, UnderFirst, Units
  <2>3. ~(i - 1 <= FirstPage)
    BY <2>1, <2>2, UnderOrder
  <2>4. FirstPage <= i - 1
    BY <2>2, <2>3
  <2> QED
    BY <2>2, <2>4, AddrOrder, AddrInt, Units
<1>7. CASE Addr(i) >= Limit(mmap[k])
  <2>1. NextEnt = k
    BY <1>1, <1>7, Advances
  <2>2. PICK x \in 1..Len(mmap) : Ram(mmap[x]) /\ Limit(mmap[x]) >= Addr(page_table_size)
    BY TableEnds DEF Walking
  <2>3. Addr(i) < Limit(mmap[x])
    <3>1. i \in Int /\ page_table_size \in Int /\ i + 1 <= page_table_size
      BY TableEnds DEF Walking
    <3>2. Addr(i + 1) <= Addr(page_table_size) /\ Addr(i + 1) = Addr(i) + PageUnits
      BY <3>1, AddrOrder, AddrNext
    <3>3. Addr(page_table_size) \in Int
      BY <3>1, AddrInt
    <3>4. Limit(mmap[x]) \in Int
      BY <2>2, RamLimit
    <3> QED
      BY <1>3, <2>2, <3>2, <3>3, <3>4, Units
  <2>4. Limit(mmap[x]) \in Int /\ Limit(mmap[k]) \in Int
    BY <1>4, <2>2, RamLimit
  <2>5. k < x
    <3> SUFFICES ASSUME ~(k < x)
                 PROVE  FALSE
      OBVIOUS
    <3>1. x = k \/ x \in 1..current_ent
      BY <1>1
    <3>2. Limit(mmap[x]) <= Addr(i)
      BY <1>3, <1>4, <1>5, <1>7, <3>1
    <3> QED
      BY <1>3, <2>3, <2>4, <3>2
  <2>6. k + 1 \in 1..Len(mmap) /\ k < k + 1 /\ (k + 1 = x \/ k + 1 < x)
    BY <1>1, <2>5
  <2>7. Ram(mmap[k + 1])
    <3>1. ~Beyond(mmap[x])
      BY <2>2, RamLimit
    <3>2. ~Beyond(mmap[k + 1])
      BY <2>6, <3>1 DEF Walking, MapInv
    <3> QED
      BY <2>6, <3>2 DEF Walking, MapInv
  <2>8. Limit(mmap[k]) <= mmap[k + 1].base
    BY <1>1, <2>6, <2>7 DEF Walking, Sorted
  <2>9. /\ Limit(mmap[k + 1]) = mmap[k + 1].base + mmap[k + 1].length
        /\ Limit(mmap[k + 1]) \in Int /\ mmap[k + 1].base < Limit(mmap[k + 1])
    BY <2>7, RamLimit
  <2>10. /\ mmap[k + 1].base \in Int /\ mmap[k + 1].length \in Int
         /\ mmap[k + 1].base + mmap[k + 1].length > LowLimit => mmap[k + 1].length >= PageUnits
    BY <2>7 DEF Ram
  <2>11. Addr(i) < Limit(mmap[k + 1])
    <3> DEFINE a == mmap[k + 1].base
               l == mmap[k + 1].length
    <3>1. /\ a \in Int /\ l \in Int /\ Limit(mmap[k + 1]) = a + l /\ a < a + l
          /\ Limit(mmap[k]) <= a /\ (a + l > LowLimit => l >= PageUnits)
      BY <2>8, <2>9, <2>10
    <3> HIDE DEF a, l, k
    <3>2. a + l > LowLimit
      BY <1>2, <1>3, <1>4, <1>6, <3>1
    <3> QED
      BY <1>2, <1>3, <1>4, <3>1, <3>2, Units
  <2>12. \A r \in 1..k : Limit(mmap[r]) <= Addr(i)
    <3>1. \A r \in 1..k : r = k \/ r \in 1..current_ent
      BY <1>1
    <3>2. Limit(mmap[k]) <= Addr(i)
      BY <1>3, <1>4, <1>7
    <3> HIDE DEF k
    <3> QED
      BY <1>5, <3>1, <3>2
  <2>13. k + 1 <= Len(mmap)
    BY <1>1, <2>6
  <2> HIDE DEF k
  <2> QED
    BY <2>1, <2>7, <2>11, <2>12, <2>13 DEF InStep
<1>8. CASE ~(Addr(i) >= Limit(mmap[k]))
  <2>1. NextEnt = current_ent
    BY <1>1, <1>8, Advances
  <2>2. Addr(i) < Limit(mmap[k])
    BY <1>3, <1>4, <1>8
  <2> QED
    BY <1>1, <1>2, <1>5, <2>1, <2>2 DEF InStep
<1> QED
  BY <1>7, <1>8

\* One turn, wherever the walk is.
LEMMA WalkStep ==
    ASSUME Walking, WalkInv
    PROVE  /\ NextEnt \in Nat /\ NextEnt < Len(mmap)
           /\ UnderTable(mmap, i) => Behind(NextEnt, i)
           /\ ~UnderTable(mmap, i) => InStep(NextEnt, i)
<1>1. TableSize(mmap) \in Nat /\ TableSize(mmap) > 0 /\ i \in Nat /\ current_ent \in Nat
      /\ FirstPage \in Nat /\ FirstPage >= 1 /\ Len(mmap) \in Nat
  <2>1. TableSize(mmap) \in Nat /\ TableSize(mmap) >= FirstPage
    BY TableEnds DEF Walking, page_table_size
  <2>2. i \in Nat /\ current_ent \in Nat /\ Len(mmap) \in Nat
    BY DEF Walking, MapInv
  <2> QED
    BY <2>1, <2>2, Units
<1>2. UnderTable(mmap, i - 1) => Behind(current_ent, i - 1)
  <2>1. CASE i > 0
    BY <2>1 DEF WalkInv
  <2>2. CASE i = 0
    <3>1. current_ent = 0
      BY <2>2 DEF WalkInv
    <3> QED
      BY <1>1, <2>2, <3>1 DEF Behind
  <2> QED
    BY <1>1, <2>1, <2>2
<1>3. ~UnderTable(mmap, i - 1) => i > 0 /\ InStep(current_ent, i - 1)
  <2>1. ASSUME ~UnderTable(mmap, i - 1) PROVE i > 0
    <3> SUFFICES ASSUME i = 0
                 PROVE  FALSE
      BY <1>1
    <3>1. i - 1 <= FirstPage /\ i - 1 \in Int /\ FirstPage \in Int
      BY <1>1
    <3> QED
      BY <1>1, <2>1, <3>1, UnderFirst, UnderOrder
  <2> QED
    BY <2>1 DEF WalkInv
<1>4. UnderTable(mmap, i) => UnderTable(mmap, i - 1)
  <2>1. i - 1 <= i /\ i - 1 \in Int /\ i \in Int
    BY <1>1
  <2> QED
    BY <1>1, <2>1, UnderOrder
<1>5. UnderTable(mmap, i) => Behind(NextEnt, i)
  BY <1>2, <1>4, WalkBehind
<1>6. ~UnderTable(mmap, i) => InStep(NextEnt, i)
  BY <1>2, <1>3, <1>4, WalkCaughtUp, WalkInStep
<1>7. NextEnt \in Nat
  BY <1>1 DEF NextEnt
<1>8. NextEnt < Len(mmap)
  <2>1. CASE UnderTable(mmap, i)
    <3>1. PICK j \in 1..Len(mmap) : Anchor(j)
      BY AnchorExists DEF Walking
    <3>2. NextEnt + 1 <= j
      BY <1>5, <2>1, <3>1 DEF Behind
    <3> QED
      BY <1>1, <1>7, <3>2
  <2>2. CASE ~UnderTable(mmap, i)
    BY <1>1, <1>6, <1>7, <2>2 DEF InStep
  <2> QED
    BY <2>1, <2>2
<1> QED
  BY <1>5, <1>6, <1>7, <1>8

\* A region the walk is in step with is the only one the page can lie in.
LEMMA OnlyRegion ==
    ASSUME Walking, NEW c \in Nat, InStep(c, i), NEW r \in 1..Len(mmap), Ram(mmap[r]),
           mmap[r].base <= Addr(i), Addr(i) < Limit(mmap[r])
    PROVE  r = c + 1
<1>1. Len(mmap) \in Nat /\ i \in Nat /\ c + 1 \in 1..Len(mmap)
  BY DEF Walking, MapInv, InStep
<1>2. Addr(i) \in Int /\ Limit(mmap[r]) \in Int
  BY <1>1, AddrInt, RamLimit
<1>3. ~(r <= c)
  BY <1>1, <1>2 DEF InStep
<1>4. ~(c + 1 < r)
  <2> SUFFICES ASSUME c + 1 < r
               PROVE  FALSE
    OBVIOUS
  <2>1. Limit(mmap[c + 1]) <= mmap[r].base
    BY <1>1 DEF Walking, Sorted
  <2>2. Addr(i) < Limit(mmap[c + 1]) /\ Limit(mmap[c + 1]) \in Int
    BY RamLimit DEF InStep
  <2>3. mmap[r].base \in Int
    BY DEF Ram
  <2> QED
    BY <1>2, <2>1, <2>2, <2>3
<1> QED
  BY <1>1, <1>3, <1>4

\* What is left free may be free, and whole pages of usable regions are left free.
LEMMA ReserveRight ==
    ASSUME Walking, WalkInv
    PROVE  (Reserve => i \in BootReserved) /\ (~Reserve => Clear(i))
<1> DEFINE d == NextEnt
           k == d + 1
<1>1. d \in Nat /\ d < Len(mmap) /\ (~UnderTable(mmap, i) => InStep(d, i))
  BY WalkStep
<1>2. Len(mmap) \in Nat /\ i \in Nat /\ page_table_size \in Nat /\ page_table_size <= RamPages
  BY TableEnds DEF Walking, MapInv
<1>3. i \in BootReserved <=> UnderTable(mmap, i) \/ ~InUsableRegion(i)
  <2>1. i \in 0..(page_table_size - 1)
    BY <1>2 DEF Walking
  <2> QED
    BY <2>1 DEF BootReserved
<1>4. EntryAt(d) = mmap[k]
  BY <1>1 DEF EntryAt
<1>5. CASE UnderTable(mmap, i)
  BY <1>3, <1>5 DEF Reserve
<1>6. CASE ~UnderTable(mmap, i)
  <2> HIDE DEF d
  <2>1. InStep(d, i) /\ k \in 1..Len(mmap)
    BY <1>1, <1>2, <1>6
  <2>2. Ram(mmap[k]) /\ Addr(i) < Limit(mmap[k])
    BY <2>1 DEF InStep
  <2>3. Addr(i) \in Int /\ Addr(i + 1) = Addr(i) + PageUnits
    BY <1>2, <1>6, PastFirst, AddrNext
  <2>4. ASSUME ~Reserve, BeginsReserved(i) PROVE FALSE
    <3>1. mmap[k].type = Usable
      BY <1>4, <2>4 DEF Reserve, d
    <3>2. PICK r \in 1..Len(mmap) :
            /\ mmap[r].type # Usable
            /\ mmap[r].base <= Addr(i)
            /\ Addr(i) < mmap[r].base + mmap[r].length
      BY <2>4 DEF BeginsReserved, Addr
    <3>3. ~Beyond(mmap[r])
      <4> SUFFICES ASSUME Beyond(mmap[r])
                   PROVE  FALSE
        OBVIOUS
      <4>1. mmap[r].base \in Nat /\ mmap[r].length \in Nat
        <5>1. mmap \in Seq([base : Nat, length : Nat, type : {Usable, 2}])
          BY DEF Walking, MapInv
        <5>2. mmap[r] \in [base : Nat, length : Nat, type : {Usable, 2}]
          BY <5>1, ElementIn
        <5> QED
          BY <5>2
      <4>2. mmap[r].length = 0 \/ mmap[r].base >= Addr(RamPages)
        BY DEF Walking, MapInv
      <4>3. Addr(i) < Addr(RamPages)
        <5>1. i + 1 <= RamPages /\ i + 1 \in Int /\ RamPages \in Int
          BY <1>2, Units DEF Walking
        <5>2. Addr(i + 1) <= Addr(RamPages) /\ Addr(RamPages) \in Int
          BY <5>1, AddrOrder, AddrInt
        <5> QED
          BY <2>3, <5>2, Units
      <4> QED
        BY <2>3, <3>2, <4>1, <4>2, <4>3, Widths
    <3>4. Ram(mmap[r])
      BY <3>3 DEF Walking, MapInv
    <3>5. Addr(i) < Limit(mmap[r])
      BY <3>2, <3>4, RamLimit
    <3>6. r = k
      BY <1>1, <2>1, <3>2, <3>4, <3>5, OnlyRegion
    <3> QED
      BY <3>1, <3>2, <3>6
  <2>5. ASSUME InUsableRegion(i) PROVE ~Reserve
    <3>1. PICK r \in 1..Len(mmap) :
            /\ mmap[r].type = Usable
            /\ mmap[r].base <= Addr(i)
            /\ Addr(i + 1) <= mmap[r].base + mmap[r].length
      BY <2>5 DEF InUsableRegion, Addr
    <3>2. Ram(mmap[r])
      BY <3>1, UsableRam DEF Walking
    <3>3. Addr(i) < Limit(mmap[r])
      <4>1. Limit(mmap[r]) \in Int /\ Limit(mmap[r]) = mmap[r].base + mmap[r].length
        BY <3>2, RamLimit
      <4> QED
        BY <2>3, <3>1, <4>1, Units
    <3>4. r = k
      BY <1>1, <2>1, <3>1, <3>2, <3>3, OnlyRegion
    <3>5. ~(i * PageUnits < mmap[k].base)
      <4>1. mmap[k].base \in Int
        BY <2>2 DEF Ram
      <4> QED
        BY <2>3, <3>1, <3>4, <4>1 DEF Addr
    <3> QED
      BY <1>4, <1>6, <3>1, <3>4, <3>5 DEF Reserve, d
  <2> QED
    BY <1>3, <1>6, <2>4, <2>5 DEF Clear
<1> QED
  BY <1>5, <1>6

----------------------------------------------------------------------------
(***************************************************************************)
(* The invariant.                                                          *)
(***************************************************************************)
\* What is derived from the map stays while the map does.
LEMMA MapStays ==
    ASSUME mmap' = mmap
    PROVE  /\ page_table_size' = page_table_size /\ BootReserved' = BootReserved
           /\ PT!Pages' = PT!Pages
           /\ \A j : Anchor(j)' = Anchor(j)
           /\ \A p : Clear(p)' = Clear(p)
<1>1. page_table_size' = page_table_size
  BY DEF page_table_size
<1>2. \A p : InUsableRegion(p)' = InUsableRegion(p)
  BY DEF InUsableRegion
<1>3. \A p : UnderTable(mmap, p)' = UnderTable(mmap, p)
  BY DEF UnderTable
<1>4. BootReserved' = BootReserved
  BY <1>1, <1>2, <1>3 DEF BootReserved
<1>5. PT!Pages' = PT!Pages
  BY <1>1 DEF PT!Pages
<1>6. \A j : Anchor(j)' = Anchor(j)
  BY DEF Anchor
<1>7. \A p : Clear(p)' = Clear(p)
  BY <1>3 DEF Clear, BeginsReserved
<1> QED
  BY <1>1, <1>4, <1>5, <1>6, <1>7

\* One turn of init_memory's loop.
LEMMA TurnInv ==
    ASSUME MemoryInv, init_memory, i < page_table_size, current_ent' = NextEnt, i' = i + 1,
           page_table' = [p \in 0..i |->
                            IF p < i THEN page_table[p]
                            ELSE IF Reserve THEN PT!ReservedEntry ELSE PT!FreeEntry],
           UNCHANGED <<stage, mmap, asked, held>>
    PROVE  MemoryInv'
<1>1. /\ stage = "init_memory" /\ MapInv(mmap) /\ Complete(mmap) /\ WalkInv /\ TableInv
      /\ i \in Nat /\ current_ent \in Nat
  BY DEF MemoryInv, init_memory
<1>2. Sorted(mmap)
  <2>1. CASE i = 0
    <3>1. check_sorted = 0
      BY <2>1 DEF init_memory
    <3> QED
      BY <1>1, <3>1, SortedMap
  <2>2. CASE i > 0
    BY <1>1, <2>2 DEF WalkInv
  <2> QED
    BY <1>1, <2>1, <2>2
<1>3. Walking
  BY <1>1, <1>2 DEF Walking
<1>4. /\ NextEnt \in Nat
      /\ UnderTable(mmap, i) => Behind(NextEnt, i)
      /\ ~UnderTable(mmap, i) => InStep(NextEnt, i)
  BY <1>1, <1>3, WalkStep
<1>5. (Reserve => i \in BootReserved) /\ (~Reserve => Clear(i))
  BY <1>1, <1>3, ReserveRight
<1>6. mmap' = mmap /\ stage' = stage /\ held' = held
  OBVIOUS
<1>7. page_table_size \in Nat /\ page_table_size' = page_table_size
      /\ BootReserved' = BootReserved /\ \A j : Anchor(j)' = Anchor(j)
      /\ \A p : Clear(p)' = Clear(p)
  BY <1>1, <1>6, TableEnds, MapStays
<1>8. WalkInv'
  <2>1. i' - 1 = i /\ i' > 0 /\ i' # 0
    BY <1>1
  <2>2. ASSUME UnderTable(mmap, i) PROVE Behind(current_ent, i - 1)'
    <3> SUFFICES ASSUME NEW j \in 1..Len(mmap), Anchor(j)
                 PROVE  /\ NextEnt + 1 <= j
                        /\ NextEnt + 1 = j \/ NextEnt >= i - FirstPage + 1
      BY <1>6, <1>7, <2>1 DEF Behind
    <3> QED
      BY <1>4, <2>2 DEF Behind
  <2>3. ASSUME ~UnderTable(mmap, i) PROVE InStep(current_ent, i - 1)'
    <3>1. InStep(NextEnt, i)
      BY <1>4, <2>3
    <3> QED
      BY <1>6, <2>1, <3>1 DEF InStep
  <2>4. UnderTable(mmap, i - 1)' <=> UnderTable(mmap, i)
    BY <1>6, <2>1 DEF UnderTable
  <2>5. Sorted(mmap)'
    BY <1>2, <1>6
  <2> QED
    BY <2>1, <2>2, <2>3, <2>4, <2>5 DEF WalkInv
<1>9. TableInv'
  <2> SUFFICES ASSUME NEW p \in 0..i
               PROVE  \/ page_table'[p] = PT!ReservedEntry /\ p \in BootReserved
                      \/ page_table'[p] = PT!FreeEntry /\ Clear(p)
    <3>1. i' - 1 = i
      BY <1>1
    <3> QED
      BY <1>7, <3>1 DEF TableInv
  <2>1. page_table'[p] = IF p < i THEN page_table[p]
                         ELSE IF Reserve THEN PT!ReservedEntry ELSE PT!FreeEntry
    OBVIOUS
  <2>2. CASE p < i
    <3>1. p \in 0..(i - 1)
      BY <1>1, <2>2
    <3> QED
      BY <1>1, <2>1, <2>2, <3>1 DEF TableInv
  <2>3. CASE p = i
    BY <1>1, <1>5, <2>1, <2>3
  <2> QED
    BY <1>1, <2>2, <2>3
<1>10. i' \in Nat /\ i' <= page_table_size' /\ current_ent' \in Nat
  BY <1>1, <1>4, <1>7
<1>11. MapInv(mmap)' /\ Complete(mmap)'
  BY <1>1, <1>6
<1> QED
  BY <1>1, <1>6, <1>8, <1>9, <1>10, <1>11 DEF MemoryInv

\* The end of the loop.
LEMMA ReadyInv ==
    ASSUME MemoryInv, stage = "init_memory", i = page_table_size, stage' = "ready",
           UNCHANGED <<mmap, asked, i, current_ent, page_table, held>>
    PROVE  MemoryInv'
<1>1. /\ MapInv(mmap) /\ Complete(mmap) /\ TableInv /\ i \in Nat /\ current_ent \in Nat
      /\ DOMAIN held = Handles
  BY DEF MemoryInv
<1>2. /\ mmap' = mmap /\ i' = i /\ page_table' = page_table /\ held' = held
      /\ current_ent' = current_ent
  OBVIOUS
<1>3. /\ page_table_size' = page_table_size /\ BootReserved' = BootReserved
      /\ \A p : Clear(p)' = Clear(p)
  BY <1>2, MapStays
<1>4. /\ PT!ReservedEntry.used = 1
      /\ PT!FreeEntry.used = 0 /\ PT!FreeEntry.unusable = 0
  BY DEF PT!ReservedEntry, PT!FreeEntry
<1>5. \A p \in 0..(i - 1) :
        \/ page_table[p].used = 1 /\ p \in BootReserved
        \/ page_table[p].used = 0 /\ page_table[p].unusable = 0 /\ Clear(p)
  BY <1>1, <1>4 DEF TableInv
<1>6. HeapInv'
  BY <1>2, <1>3, <1>5 DEF HeapInv
<1>7. MapInv(mmap)' /\ Complete(mmap)' /\ i' <= page_table_size'
  BY <1>1, <1>2, <1>3
<1> QED
  BY <1>1, <1>2, <1>6, <1>7 DEF MemoryInv

\* kmalloc takes the lowest free page, and the pages behind it, whatever the size.
LEMMA LowestFree ==
    ASSUME MemoryInv, stage = "ready", NEW size \in Sizes, NEW p \in PT!Pages,
           PT!FirstFit(page_table, p, size), NEW q \in PT!Pages, page_table[q].used = 0
    PROVE  p <= q
<1>1. MapInv(mmap) /\ Complete(mmap) /\ HeapInv /\ i = page_table_size
  BY DEF MemoryInv, HeapInv
<1>2. /\ page_table_size \in Nat /\ FirstPage \in Nat /\ size \in Nat /\ size <= FirstPage + 1
      /\ page_table_size > 0 /\ q \in Nat /\ p \in Nat
  <2>1. page_table_size \in Nat /\ FirstPage \in Nat /\ page_table_size > 0
    BY <1>1, TableEnds, Units
  <2>2. size \in 1..(FirstPage + 1)
    BY MemoryMapAssumption
  <2> QED
    BY <2>1, <2>2 DEF PT!Pages
<1>3. ~UnderTable(mmap, q) /\ page_table[q].unusable = 0
  BY <1>1 DEF HeapInv, PT!Pages, Clear
<1>4. q >= FirstPage + 1
  <2> SUFFICES ASSUME q <= FirstPage
               PROVE  FALSE
    BY <1>2
  <2>1. UnderTable(mmap, q)
    <3>1. TableSize(mmap) \in Nat /\ TableSize(mmap) > 0
      BY <1>2 DEF page_table_size
    <3>2. UnderTable(mmap, FirstPage) /\ q \in Int /\ FirstPage \in Int
      BY <1>2, <3>1, UnderFirst
    <3> QED
      BY <3>1, <3>2, UnderOrder
  <2> QED
    BY <1>3, <2>1
<1>5. PT!Suits(page_table, q, size)
  <2>1. q \in FirstPage..(page_table_size - 1)
    BY <1>2, <1>4 DEF PT!Pages
  <2>2. q..(size - 1) = {}
    BY <1>2, <1>4
  <2> QED
    BY <1>3, <2>1, <2>2 DEF PT!Suits, PT!check_free
<1>6. ~(q \in FirstPage..(p - 1))
  BY <1>5 DEF PT!FirstFit
<1> QED
  BY <1>2, <1>4, <1>6

\* An allocation of boot leaves no free page under a taken one.
LEMMA KmallocInv ==
    ASSUME MemoryInv, NEW h \in Handles, NEW size \in Sizes, kmalloc(h, size)
    PROVE  MemoryInv'
<1>1. PICK p \in PT!Pages :
        /\ PT!FirstFit(page_table, p, size)
        /\ page_table' = PT!Allocated(page_table, p, size, 0)
        /\ held' = [held EXCEPT ![h] = [start |-> p, size |-> size]]
  BY DEF kmalloc
<1>2. stage = "ready" /\ held[h] = Null /\ UNCHANGED <<stage, mmap, asked, i, current_ent>>
  BY DEF kmalloc
<1>3. MapInv(mmap) /\ Complete(mmap) /\ HeapInv /\ i = page_table_size /\ i \in Nat
      /\ DOMAIN held = Handles /\ current_ent \in Nat
  BY <1>2 DEF MemoryInv, HeapInv
<1>4. /\ page_table_size' = page_table_size /\ BootReserved' = BootReserved
      /\ PT!Pages = 0..(i - 1) /\ \A q : Clear(q)' = Clear(q)
  BY <1>2, <1>3, MapStays DEF PT!Pages
<1> DEFINE block == p..(p + size - 1)
<1>5. ASSUME NEW q \in 0..(i - 1)
      PROVE  /\ q \in block => page_table'[q].used = 1
             /\ q \notin block => page_table'[q] = page_table[q]
  BY <1>1, <1>4 DEF PT!Allocated, PT!BlockEntry
<1>6. size \in Nat /\ p \in Nat
  <2>1. Sizes \subseteq Nat
    BY MemoryMapAssumption
  <2> QED
    BY <1>3, <1>4, <2>1
<1>7. held'[h].start = p /\ held'[h].size = size /\ \A g \in Handles : g # h => held'[g] = held[g]
  BY <1>1, <1>3
<1>8. held[h].start..(held[h].start + held[h].size - 1) = {}
  BY <1>2 DEF Null
<1> HIDE DEF block
<1>9. ASSUME NEW q \in 0..(i - 1)
      PROVE  /\ page_table'[q].used \in {0, 1}
             /\ page_table'[q].used = 0 => Clear(q) /\ page_table'[q].unusable = 0
             /\ page_table'[q].used = 1 =>
                  \/ q \in BootReserved
                  \/ \E g \in Handles : q \in held'[g].start..(held'[g].start + held'[g].size - 1)
  <2>1. CASE q \in block
    <3>1. q \in held'[h].start..(held'[h].start + held'[h].size - 1)
      BY <1>7, <2>1 DEF block
    <3> QED
      BY <1>5, <2>1, <3>1
  <2>2. CASE q \notin block
    <3>1. page_table'[q] = page_table[q]
      BY <1>5, <2>2
    <3>2. /\ page_table[q].used \in {0, 1}
          /\ page_table[q].used = 0 => Clear(q) /\ page_table[q].unusable = 0
      BY <1>3 DEF HeapInv
    <3>3. ASSUME page_table[q].used = 1, q \notin BootReserved
          PROVE  \E g \in Handles : q \in held'[g].start..(held'[g].start + held'[g].size - 1)
      <4>1. PICK g \in Handles : q \in held[g].start..(held[g].start + held[g].size - 1)
        BY <1>3, <3>3 DEF HeapInv
      <4>2. g # h
        BY <1>8, <4>1
      <4>3. held'[g] = held[g]
        BY <1>7, <4>2
      <4> QED
        BY <4>1, <4>3
    <3> QED
      BY <3>1, <3>2, <3>3
  <2> QED
    BY <2>1, <2>2
<1>10. ASSUME NEW a \in (0..(i - 1)) \ BootReserved, NEW b \in (0..(i - 1)) \ BootReserved,
              a < b, page_table'[a].used = 0
       PROVE  page_table'[b].used = 0
  <2>1. a \notin block /\ page_table[a].used = 0
    BY <1>5, <1>10
  <2>2. page_table[b].used = 0
    BY <1>3, <1>10, <2>1 DEF HeapInv
  <2>3. p <= a
    BY <1>1, <1>2, <1>4, <2>1, LowestFree
  <2>4. b \notin block
    BY <1>6, <1>10, <2>1, <2>3 DEF block
  <2> QED
    BY <1>5, <2>2, <2>4
<1>11. HeapInv'
  BY <1>2, <1>3, <1>4, <1>9, <1>10 DEF HeapInv
<1>12. MapInv(mmap)' /\ Complete(mmap)' /\ i' <= page_table_size'
  BY <1>2, <1>3, <1>4
<1>13. DOMAIN held' = Handles
  BY <1>1, <1>3
<1> QED
  BY <1>2, <1>3, <1>11, <1>12, <1>13 DEF MemoryInv

LEMMA MemoryInit == Init => MemoryInv
<1> SUFFICES ASSUME Init
             PROVE  MemoryInv
  OBVIOUS
<1>1. MapInv(mmap)
  BY DEF Init, MapInv
<1> QED
  BY <1>1 DEF Init, MemoryInv

\* The size the loop counts to is a number whatever the map is.
LEMMA SizeNat ==
    ASSUME NEW list, MapInv(list)
    PROVE  TableSize(list) \in Nat
<1> DEFINE S == {0} \cup {Limit(list[j]) : j \in 1..Len(list)}
           m == max_address(list)
<1>1. AddressMod \in Nat /\ AddressMod > 0
  BY Widths
<1>2. ASSUME NEW j \in 1..Len(list)
      PROVE  Limit(list[j]) \in 0..AddressMod
  <2>1. list[j] \in [base : Nat, length : Nat, type : {Usable, 2}]
    <3>1. list \in Seq([base : Nat, length : Nat, type : {Usable, 2}])
      BY DEF MapInv
    <3> QED
      BY <3>1, ElementIn
  <2> QED
    BY <1>1, <2>1 DEF Limit
<1>3. S \in SUBSET (0..AddressMod) /\ S # {}
  BY <1>1, <1>2
<1>4. m \in S
  <2>1. \E a \in S : \A b \in S : b <= a
    <3> HIDE DEF S
    <3> QED
      BY <1>1, <1>3, Greatest
  <2>2. m = CHOOSE a \in S : \A b \in S : b <= a
    BY DEF max_address
  <2> HIDE DEF S, m
  <2> QED
    BY <2>1, <2>2
<1>5. m \in Nat
  BY <1>3, <1>4
<1> HIDE DEF m
<1>6. TableSize(list) = m \div PageUnits
  BY DEF TableSize, m
<1> QED
  BY <1>5, <1>6, Units

\* Every step keeps the invariant.
LEMMA MemoryStep ==
    ASSUME MemoryInv, [Next]_vars
    PROVE  MemoryInv'
<1>0. MapInv(mmap) /\ i \in Nat /\ current_ent \in Nat /\ DOMAIN held = Handles
  BY DEF MemoryInv
<1>1. ASSUME NEW e \in Answers, get_mmap(e) PROVE MemoryInv'
  <2>1. stage = "e820" /\ i = 0 /\ current_ent = 0
    BY <1>1 DEF get_mmap, MemoryInv
  <2>2. UNCHANGED <<i, current_ent, page_table, held>>
    BY <1>1 DEF get_mmap
  <2>3. /\ mmap' = mmap \/ mmap' = Stored(e)
        /\ \/ stage' \in {"e820", "halted"}
           \/ stage' = "init_memory" /\ Complete(mmap)'
    BY <1>1, <2>1 DEF get_mmap
  <2>4. MapInv(mmap)'
    BY <1>0, <1>1, <2>3, StoredMap
  <2>5. CASE stage' \in {"e820", "halted"}
    BY <1>0, <2>1, <2>2, <2>4, <2>5 DEF MemoryInv
  <2>6. CASE stage' = "init_memory" /\ Complete(mmap)'
    <3>1. page_table_size' \in Nat
      BY <2>4, SizeNat DEF page_table_size
    <3> QED
      BY <1>0, <2>1, <2>2, <2>4, <2>6, <3>1 DEF MemoryInv, WalkInv, TableInv
  <2> QED
    BY <2>3, <2>5, <2>6
<1>2. CASE get_mmap_carry
  <2>1. /\ stage = "e820" /\ i = 0 /\ current_ent = 0
        /\ stage' = "halted" \/ (stage' = "init_memory" /\ Complete(mmap))
        /\ UNCHANGED <<mmap, i, current_ent, page_table, held>>
    BY <1>2 DEF get_mmap_carry, MemoryInv
  <2>2. MapInv(mmap)' /\ (Complete(mmap)' <=> Complete(mmap))
    BY <1>0, <2>1
  <2>3. page_table_size' \in Nat
    BY <2>2, SizeNat DEF page_table_size
  <2>4. WalkInv' /\ TableInv'
    BY <2>1 DEF WalkInv, TableInv
  <2> QED
    BY <1>0, <2>1, <2>2, <2>3, <2>4 DEF MemoryInv
<1>3. CASE sort_mmap
  <2>1. /\ stage = "init_memory" /\ i = 0 /\ stage' = "halted"
        /\ UNCHANGED <<mmap, i, current_ent, page_table, held>>
    BY <1>3 DEF sort_mmap
  <2>2. current_ent = 0
    BY <2>1 DEF MemoryInv, WalkInv
  <2>3. MapInv(mmap)'
    BY <1>0, <2>1
  <2> QED
    BY <1>0, <2>1, <2>2, <2>3 DEF MemoryInv
<1>4. CASE init_memory
  <2>1. CASE /\ i < page_table_size
             /\ current_ent' = NextEnt
             /\ page_table' = [p \in 0..i |->
                                IF p < i THEN page_table[p]
                                ELSE IF Reserve THEN PT!ReservedEntry ELSE PT!FreeEntry]
             /\ i' = i + 1
             /\ UNCHANGED stage
    BY <1>4, <2>1, TurnInv DEF init_memory
  <2>2. CASE /\ i = page_table_size
             /\ stage' = "ready"
             /\ UNCHANGED <<current_ent, page_table, i>>
    BY <1>4, <2>2, ReadyInv DEF init_memory
  <2> QED
    BY <1>4, <2>1, <2>2 DEF init_memory
<1>5. ASSUME NEW h \in Handles, NEW size \in Sizes, kmalloc(h, size) PROVE MemoryInv'
  BY <1>5, KmallocInv
<1>6. CASE UNCHANGED vars
  <2>1. UNCHANGED <<stage, mmap, i, current_ent, page_table, held>>
    BY <1>6 DEF vars
  <2>2. /\ page_table_size' = page_table_size /\ BootReserved' = BootReserved
        /\ (\A j : Anchor(j)' = Anchor(j)) /\ \A p : Clear(p)' = Clear(p)
    BY <2>1, MapStays
  <2>3. /\ MapInv(mmap)' <=> MapInv(mmap)
        /\ Complete(mmap)' <=> Complete(mmap)
        /\ Sorted(mmap)' <=> Sorted(mmap)
    BY <2>1
  <2>4. WalkInv => WalkInv'
    <3>1. UnderTable(mmap, i - 1)' <=> UnderTable(mmap, i - 1)
      BY <2>1 DEF UnderTable
    <3>2. Behind(current_ent, i - 1)' <=> Behind(current_ent, i - 1)
      BY <2>1, <2>2 DEF Behind
    <3>3. InStep(current_ent, i - 1)' <=> InStep(current_ent, i - 1)
      BY <2>1 DEF InStep
    <3> QED
      BY <2>1, <2>3, <3>1, <3>2, <3>3 DEF WalkInv
  <2>5. TableInv => TableInv'
    BY <2>1, <2>2 DEF TableInv
  <2>6. HeapInv => HeapInv'
    BY <2>1, <2>2 DEF HeapInv
  <2> QED
    BY <2>1, <2>2, <2>3, <2>4, <2>5, <2>6 DEF MemoryInv
<1> QED
  BY <1>1, <1>2, <1>3, <1>4, <1>5, <1>6 DEF Next

LEMMA MemoryAlways == Spec => []MemoryInv
  BY MemoryInit, MemoryStep, PTL DEF Spec

----------------------------------------------------------------------------
(***************************************************************************)
(* What the invariant says of the table and of the walk.                   *)
(***************************************************************************)
LEMMA EntriesRight ==
    ASSUME MemoryInv
    PROVE  FreeIsNotReserved /\ UsableIsFree
<1>1. CASE stage \in {"e820", "halted"}
  <2>1. i = 0
    BY <1>1 DEF MemoryInv
  <2>2. 0..(i - 1) = {}
    BY <2>1
  <2> QED
    BY <2>2 DEF FreeIsNotReserved, UsableIsFree
<1>2. CASE stage = "init_memory"
  <2>1. PT!ReservedEntry.used = 1 /\ PT!FreeEntry.used = 0
    BY DEF PT!ReservedEntry, PT!FreeEntry
  <2>2. TableInv
    BY <1>2 DEF MemoryInv
  <2>3. \A p \in 0..(i - 1) :
          \/ page_table[p].used = 1 /\ p \in BootReserved
          \/ page_table[p].used = 0 /\ Clear(p)
    BY <2>1, <2>2 DEF TableInv
  <2> QED
    BY <2>3 DEF FreeIsNotReserved, UsableIsFree, Clear
<1>3. CASE stage = "ready"
  <2>1. HeapInv
    BY <1>3 DEF MemoryInv
  <2> QED
    BY <2>1 DEF HeapInv, FreeIsNotReserved, UsableIsFree, Clear
<1> QED
  BY <1>1, <1>2, <1>3 DEF MemoryInv

\* The anchor, or the region the page is in, bounds the entry number.
LEMMA EntryInMap ==
    ASSUME MemoryInv, stage = "init_memory", i > 0
    PROVE  current_ent < Len(mmap)
<1>1. MapInv(mmap) /\ Complete(mmap) /\ WalkInv /\ current_ent \in Nat
  BY DEF MemoryInv
<1>2. Len(mmap) \in Nat
  BY <1>1 DEF MapInv
<1>3. CASE UnderTable(mmap, i - 1)
  <2>1. Behind(current_ent, i - 1)
    BY <1>1, <1>3 DEF WalkInv
  <2>2. PICK j \in 1..Len(mmap) : Anchor(j)
    BY <1>1, AnchorExists
  <2>3. current_ent + 1 <= j
    BY <2>1, <2>2 DEF Behind
  <2> QED
    BY <1>1, <1>2, <2>3
<1>4. CASE ~UnderTable(mmap, i - 1)
  <2>1. InStep(current_ent, i - 1)
    BY <1>1, <1>4 DEF WalkInv
  <2>2. current_ent + 1 <= Len(mmap)
    BY <2>1 DEF InStep
  <2> QED
    BY <1>1, <1>2, <2>2
<1> QED
  BY <1>3, <1>4

\* The order of the free pages is part of the invariant.
LEMMA TopFree ==
    ASSUME MemoryInv
    PROVE  FreeIsTop
<1> SUFFICES ASSUME stage = "ready"
             PROVE  \A p, q \in PT!Pages \ BootReserved :
                        p < q /\ page_table[p].used = 0 => page_table[q].used = 0
  BY DEF FreeIsTop
<1>1. HeapInv
  BY DEF MemoryInv
<1>2. PT!Pages = 0..(i - 1)
  BY <1>1 DEF HeapInv, PT!Pages
<1> QED
  BY <1>1, <1>2 DEF HeapInv

\* A page that init_memory leaves free is clear of the table and does not begin inside a
\* region the BIOS reported as not usable, for every page size and every width of the
\* addresses, with holes in the map and regions that end inside a page: where the walk
\* is behind the map, the pages are the table's.
THEOREM FreeIsNotReservedAlways == Spec => []FreeIsNotReserved
<1>1. MemoryInv => FreeIsNotReserved
  BY EntriesRight
<1> QED
  BY MemoryAlways, <1>1, PTL

\* No whole page of a usable region above the table is lost by init_memory: it is free
\* until kmalloc gives it to one of boot's pointers.
THEOREM UsableIsFreeAlways == Spec => []UsableIsFree
<1>1. MemoryInv => UsableIsFree
  BY EntriesRight
<1> QED
  BY MemoryAlways, <1>1, PTL

\* init_memory's current_ent stays inside the list the loader has stored.
THEOREM WalkStaysInMapAlways == Spec => []WalkStaysInMap
<1>1. MemoryInv => WalkStaysInMap
  BY EntryInMap DEF WalkStaysInMap
<1> QED
  BY MemoryAlways, <1>1, PTL

\* Until the first kfree kmalloc hands memory out from the bottom up: no free page is
\* left under a taken one, however many blocks of whatever sizes boot asks for.
THEOREM FreeIsTopAlways == Spec => []FreeIsTop
<1>1. MemoryInv => FreeIsTop
  BY TopFree
<1> QED
  BY MemoryAlways, <1>1, PTL
====
