------------------------------ MODULE VtocProofs ------------------------------
(* Theorems about Vtoc, for every set of disks that DisksAssumption allows *)
(* and not only for regular ones.                                          *)
EXTENDS Vtoc, SharedFacts, TLAPS

(* Sector 720, which is marked free when a disk is too small for it.       *)
StraySector == IF ReservesSector720(disk) THEN {720} ELSE {}

(* The sectors formatting marks free, up to sector n.                      *)
Upto(n) == 4 .. n

(* The loop of vtoc_format: after a pass the bits of all pages written are *)
(* set, and size counts the sectors from start on.  The count was written  *)
(* with the first page.                                                    *)
InLoop ==
    phase = "format" =>
        /\ result = None /\ capacity = 0
        /\ \/ /\ vtoc_size = 0 /\ start = 0 /\ size = DiskSize(disk) - 3
              /\ bitmap = {} /\ free_sec = 0
           \/ /\ Expanded(disk)
              /\ vtoc_size > 0 /\ start = PageStart(disk, vtoc_size)
              /\ start <= DiskSize(disk) /\ size = DiskSize(disk) + 1 - start
              /\ bitmap = Upto(start - 1) /\ free_sec = DiskSize(disk) - 3

AfterLoop ==
    phase = "system" =>
        /\ result = None /\ capacity = 0
        /\ vtoc_size = PagesNeeded(disk)
        /\ bitmap = Upto(DiskSize(disk)) /\ free_sec = DiskSize(disk) - 3

(* A formatted disk: which bits can be set at all, and the one that no     *)
(* search finds.                                                           *)
Formatted ==
    phase = "ready" =>
        /\ vtoc_size = PagesNeeded(disk)
        /\ ~disk.subdirs => bitmap \subseteq Upto(DiskSize(disk)) \cup StraySector
        /\ ~disk.subdirs /\ ~LastPageSearched(disk) => DiskSize(disk) \in bitmap

VtocIInv == TypeOK /\ InLoop /\ AfterLoop /\ Formatted /\ VtocInv

-----------------------------------------------------------------------------
(* What the assumption says of one disk.                                   *)
LEMMA DiskTypes ==
    ASSUME NEW d \in Disks
    PROVE  /\ d.dos \in {"2", "II+", "MyDOS"}
           /\ d.sector_size = 128 \/ d.sector_size = 256
           /\ d.sector_count \in Int /\ 369 <= d.sector_count /\ d.sector_count <= 65535
           /\ d.subdirs \in BOOLEAN
           /\ d.subdirs => d.dos = "MyDOS"
<1>1. /\ d.dos \in {"2", "II+", "MyDOS"} /\ d.sector_size \in {128, 256}
      /\ d.subdirs \in (IF d.dos = "MyDOS" THEN BOOLEAN ELSE {FALSE})
  BY DisksAssumption
<1>2. d.sector_count \in DIR_FIRST_SECTOR + DIR_SIZE .. WORD - 1
  BY DisksAssumption
<1>3. d.sector_count \in Int /\ 369 <= d.sector_count /\ d.sector_count <= 65535
  <2>1. \A low, high, n : low \in Int /\ high \in Int /\ n \in low .. high
                            => n \in Int /\ low <= n /\ n <= high
    OBVIOUS
  <2>2. DIR_FIRST_SECTOR + DIR_SIZE \in Int /\ WORD - 1 \in Int
    BY DEF DIR_FIRST_SECTOR, DIR_SIZE, WORD
  <2>3. /\ d.sector_count \in Int /\ DIR_FIRST_SECTOR + DIR_SIZE <= d.sector_count
        /\ d.sector_count <= WORD - 1
    BY <1>2, <2>1, <2>2, Zenon
  <2>4. QED
    BY <2>3 DEF DIR_FIRST_SECTOR, DIR_SIZE, WORD
<1>4. d.subdirs \in BOOLEAN /\ (d.subdirs => d.dos = "MyDOS")
  BY <1>1
<1>5. QED
  BY <1>1, <1>3, <1>4

LEMMA PageSizes ==
    ASSUME NEW d \in Disks
    PROVE  /\ FirstPageBits(d) = 720 \/ FirstPageBits(d) = 944 \/ FirstPageBits(d) = 1968
           /\ PageBits(d) = 1024 \/ PageBits(d) = 2048
<1>1. d.sector_size = 128 \/ d.sector_size = 256
  BY DiskTypes
<1>2. QED
  BY <1>1 DEF FirstPageBits, PageBits

LEMMA ExpandedSizes ==
    ASSUME NEW d \in Disks, Expanded(d)
    PROVE  /\ FirstPageBits(d) = 944 \/ FirstPageBits(d) = 1968
           /\ d.sector_size = 256 => FirstPageBits(d) = 1968
<1>1. d.sector_size = 128 \/ d.sector_size = 256
  BY DiskTypes
<1>2. QED
  BY <1>1 DEF FirstPageBits, Expanded

LEMMA PlainSizes ==
    ASSUME NEW d \in Disks, ~Expanded(d)
    PROVE  FirstPageBits(d) = 720 /\ DiskSize(d) = 719 /\ ~ReservesSector720(d) /\ ~d.subdirs
<1>1. d.dos = "2"
  BY DEF Expanded
<1>2. ~d.subdirs
  BY <1>1, DiskTypes
<1>3. QED
  BY <1>1, <1>2 DEF FirstPageBits, DiskSize, ReservesSector720

LEMMA DiskSizeFacts ==
    ASSUME NEW d \in Disks
    PROVE  /\ DiskSize(d) \in Int /\ 369 <= DiskSize(d) /\ DiskSize(d) <= 65535
           /\ Expanded(d) => DiskSize(d) <= d.sector_count
<1>1. d.sector_count \in Int /\ 369 <= d.sector_count /\ d.sector_count <= 65535
  BY DiskTypes
<1>2. CASE d.dos = "2"
  BY <1>2 DEF DiskSize, Expanded
<1>3. CASE d.dos # "2"
  BY <1>1, <1>3 DEF DiskSize, MinOf, WORD
<1>4. QED
  BY <1>2, <1>3

(* Division by the bits of a page.                                         *)
LEMMA DivFacts ==
    ASSUME NEW n \in Nat, NEW b, b = 1024 \/ b = 2048
    PROVE  /\ n \div b \in Nat
           /\ (n \div b) * b <= n /\ n < (n \div b) * b + b
<1>1. CASE b = 1024
  BY <1>1
<1>2. CASE b = 2048
  BY <1>2
<1>3. QED
  BY <1>1, <1>2

(* A page starts where the one before it ends.                             *)
LEMMA PageStartFacts ==
    ASSUME NEW d \in Disks, NEW p \in Nat
    PROVE  /\ PageStart(d, p) \in Nat
           /\ PageStart(d, 0) = 0 /\ PageStart(d, 1) = FirstPageBits(d)
           /\ PageStart(d, p + 1) = PageStart(d, p) + (IF p = 0 THEN FirstPageBits(d) ELSE PageBits(d))
           /\ p > 0 => PageStart(d, p) = FirstPageBits(d) + (p - 1) * PageBits(d)
<1>1. /\ FirstPageBits(d) = 720 \/ FirstPageBits(d) = 944 \/ FirstPageBits(d) = 1968
      /\ PageBits(d) = 1024 \/ PageBits(d) = 2048
  BY PageSizes
<1>2. CASE p = 0
  BY <1>1, <1>2 DEF PageStart
<1>3. CASE p > 0
  <2>1. PageStart(d, p) = FirstPageBits(d) + (p - 1) * PageBits(d)
    BY <1>3 DEF PageStart
  <2>2. PageStart(d, p + 1) = FirstPageBits(d) + p * PageBits(d)
    BY <1>3 DEF PageStart
  <2>3. CASE PageBits(d) = 1024
    BY <1>1, <1>3, <2>1, <2>2, <2>3 DEF PageStart
  <2>4. CASE PageBits(d) = 2048
    BY <1>1, <1>3, <2>1, <2>2, <2>4 DEF PageStart
  <2>5. QED
    BY <1>1, <2>3, <2>4
<1>4. QED
  BY <1>2, <1>3

(* Later pages start later.                                                *)
LEMMA PageStartGrows ==
    ASSUME NEW d \in Disks, NEW p \in Nat, NEW q \in Nat
    PROVE  /\ p < q => PageStart(d, p) < PageStart(d, q)
           /\ p <= q => PageStart(d, p) <= PageStart(d, q)
<1>1. /\ FirstPageBits(d) = 720 \/ FirstPageBits(d) = 944 \/ FirstPageBits(d) = 1968
      /\ PageBits(d) = 1024 \/ PageBits(d) = 2048
  BY PageSizes
<1>2. ASSUME p < q PROVE PageStart(d, p) < PageStart(d, q)
  <2>1. PageStart(d, q) = FirstPageBits(d) + (q - 1) * PageBits(d)
    BY <1>2, PageStartFacts
  <2>2. CASE p = 0
    <3>1. PageStart(d, p) = 0
      BY <2>2 DEF PageStart
    <3>2. CASE PageBits(d) = 1024
      BY <1>1, <1>2, <2>1, <2>2, <3>1, <3>2
    <3>3. CASE PageBits(d) = 2048
      BY <1>1, <1>2, <2>1, <2>2, <3>1, <3>3
    <3>4. QED
      BY <1>1, <3>2, <3>3
  <2>3. CASE p > 0
    <3>1. PageStart(d, p) = FirstPageBits(d) + (p - 1) * PageBits(d)
      BY <2>3, PageStartFacts
    <3>2. CASE PageBits(d) = 1024
      BY <1>1, <1>2, <2>1, <2>3, <3>1, <3>2
    <3>3. CASE PageBits(d) = 2048
      BY <1>1, <1>2, <2>1, <2>3, <3>1, <3>3
    <3>4. QED
      BY <1>1, <3>2, <3>3
  <2>4. QED
    BY <2>2, <2>3
<1>3. ASSUME p <= q PROVE PageStart(d, p) <= PageStart(d, q)
  <2>1. PageStart(d, p) \in Nat /\ PageStart(d, q) \in Nat
    BY PageStartFacts
  <2>2. QED
    BY <1>2, <1>3, <2>1
<1>4. QED
  BY <1>2, <1>3

(* A sector is in the page that starts at it or before, and is the last    *)
(* that does.                                                              *)
LEMMA PageOfFacts ==
    ASSUME NEW d \in Disks, NEW s \in Nat
    PROVE  /\ PageOf(d, s) \in Nat
           /\ PageStart(d, PageOf(d, s)) <= s
           /\ s < PageStart(d, PageOf(d, s) + 1)
<1>1. /\ FirstPageBits(d) = 720 \/ FirstPageBits(d) = 944 \/ FirstPageBits(d) = 1968
      /\ PageBits(d) = 1024 \/ PageBits(d) = 2048
  BY PageSizes
<1>2. CASE s < FirstPageBits(d)
  <2>1. PageOf(d, s) = 0
    BY <1>2 DEF PageOf
  <2>2. PageStart(d, 0) = 0 /\ PageStart(d, 0 + 1) = FirstPageBits(d)
    BY <1>1 DEF PageStart
  <2>3. QED
    BY <1>2, <2>1, <2>2
<1>3. CASE ~(s < FirstPageBits(d))
  <2> DEFINE n == s - FirstPageBits(d)
             k == n \div PageBits(d)
  <2>1. n \in Nat /\ s = FirstPageBits(d) + n
    BY <1>1, <1>3
  <2>2. k \in Nat /\ k * PageBits(d) <= n /\ n < k * PageBits(d) + PageBits(d)
    BY <1>1, <2>1, DivFacts
  <2>3. PageOf(d, s) = 1 + k
    BY <1>3 DEF PageOf
  <2> HIDE DEF n, k
  <2>4. PageStart(d, 1 + k) = FirstPageBits(d) + k * PageBits(d)
    BY <1>1, <2>2 DEF PageStart
  <2>5. PageStart(d, (1 + k) + 1) = PageStart(d, 1 + k) + PageBits(d)
    BY <2>2, PageStartFacts
  <2>6. PageStart(d, 1 + k) \in Nat
    BY <2>2, PageStartFacts
  <2>7. k * PageBits(d) \in Nat
    BY <1>1, <2>2
  <2>8. QED
    BY <1>1, <2>1, <2>2, <2>3, <2>4, <2>5, <2>6, <2>7
<1>4. QED
  BY <1>2, <1>3

LEMMA PageOfUnique ==
    ASSUME NEW d \in Disks, NEW s \in Nat, NEW p \in Nat,
           PageStart(d, p) <= s, s < PageStart(d, p + 1)
    PROVE  PageOf(d, s) = p
<1> DEFINE q == PageOf(d, s)
<1>1. q \in Nat /\ PageStart(d, q) <= s /\ s < PageStart(d, q + 1)
  BY PageOfFacts
<1> HIDE DEF q
<1>2. PageStart(d, p) \in Nat /\ PageStart(d, q) \in Nat
      /\ PageStart(d, p + 1) \in Nat /\ PageStart(d, q + 1) \in Nat
  BY <1>1, PageStartFacts
<1>3. ~(q < p)
  <2>1. ASSUME q < p PROVE PageStart(d, q + 1) <= PageStart(d, p)
    BY <1>1, <2>1, PageStartGrows
  <2>2. QED
    BY <1>1, <1>2, <2>1
<1>4. ~(p < q)
  <2>1. ASSUME p < q PROVE PageStart(d, p + 1) <= PageStart(d, q)
    BY <1>1, <2>1, PageStartGrows
  <2>2. QED
    BY <1>1, <1>2, <2>1
<1>5. q = p
  BY <1>1, <1>3, <1>4
<1>6. QED
  BY <1>5 DEF q

(* Later sectors are in later pages.                                       *)
LEMMA PageOfGrows ==
    ASSUME NEW d \in Disks, NEW s \in Nat, NEW t \in Nat, s <= t
    PROVE  PageOf(d, s) <= PageOf(d, t)
<1> DEFINE p == PageOf(d, s)
           q == PageOf(d, t)
<1>1. p \in Nat /\ PageStart(d, p) <= s
  BY PageOfFacts
<1>2. q \in Nat /\ t < PageStart(d, q + 1)
  BY PageOfFacts
<1> HIDE DEF p, q
<1>3. PageStart(d, p) \in Nat /\ PageStart(d, q + 1) \in Nat
  BY <1>1, <1>2, PageStartFacts
<1>4. ~(q < p)
  <2>1. ASSUME q < p PROVE PageStart(d, q + 1) <= PageStart(d, p)
    BY <1>1, <1>2, <2>1, PageStartGrows
  <2>2. QED
    BY <1>1, <1>2, <1>3, <2>1
<1>5. p <= q
  BY <1>1, <1>2, <1>4
<1>6. QED
  BY <1>5 DEF p, q

-----------------------------------------------------------------------------
(* What sectors have numbers a word can hold; all counts of them fit one.  *)
Numbers == 1 .. WORD - 1

LEMMA CountFitsWord ==
    ASSUME NEW S, S \subseteq Numbers
    PROVE  IsFiniteSet(S) /\ Cardinality(S) \in 0 .. WORD - 1
<1>1. IsFiniteSet(Numbers) /\ Cardinality(Numbers) = WORD - 1
  <2> DEFINE a == 1  b == WORD - 1
  <2>1. a \in Int /\ b \in Int /\ a <= b /\ Numbers = a .. b /\ b - a + 1 = WORD - 1
    <3>1. WORD \in Int /\ WORD - 1 >= 1
      BY DEF WORD
    <3>2. Numbers = a .. b
      BY DEF Numbers
    <3>3. QED
      BY <3>1, <3>2
  <2> HIDE DEF a, b
  <2>2. IsFiniteSet(a .. b) /\ Cardinality(a .. b) = WORD - 1
    BY <2>1, CardInterval
  <2>3. QED
    BY <2>1, <2>2, Zenon
<1>2. IsFiniteSet(S) /\ Cardinality(S) <= Cardinality(Numbers)
  BY <1>1, FS_Subset
<1>3. Cardinality(S) \in Nat
  BY <1>2, FS_CardinalityType
<1>4. WORD - 1 \in Int
  BY DEF WORD
<1>5. QED
  BY <1>1, <1>2, <1>3, <1>4

(* Words.                                                                  *)
LEMMA WordRange ==
    ASSUME NEW k
    PROVE  /\ k \in 0 .. WORD - 1 <=> k \in Int /\ 0 <= k /\ k <= 65535
           /\ k \in Numbers <=> k \in Int /\ 1 <= k /\ k <= 65535
<1> DEFINE last == WORD - 1
<1>1. last \in Int /\ last <= 65535 /\ 65535 <= last
  BY DEF WORD
<1> HIDE DEF last
<1>2. k \in 0 .. last <=> k \in Int /\ 0 <= k /\ k <= 65535
  BY <1>1
<1>3. k \in 1 .. last <=> k \in Int /\ 1 <= k /\ k <= 65535
  BY <1>1
<1>4. QED
  BY <1>2, <1>3 DEF last, Numbers

LEMMA WordFacts ==
    /\ \A k \in Int : k % WORD \in 0 .. WORD - 1
    /\ \A k \in 0 .. WORD - 1 : k % WORD = k
<1>1. WORD \in Nat \ {0}
  BY DEF WORD
<1>2. \A k \in 0 .. WORD - 1 : k \in Int /\ 0 <= k /\ k <= WORD - 1
  BY <1>1
<1>3. QED
  BY <1>1, <1>2, ModOfInt, Zenon

(* switch_sector_use keeps a count that is right.                          *)
LEMMA SwitchKeepsCount ==
    ASSUME NEW S, S \subseteq Numbers, bitmap \subseteq Numbers,
           free_sec \in 0 .. WORD - 1, SwitchSectorUse(S)
    PROVE  /\ bitmap' = (bitmap \ S) \cup (S \ bitmap)
           /\ bitmap' \subseteq Numbers
           /\ free_sec' \in 0 .. WORD - 1
           /\ free_sec = Cardinality(bitmap) => free_sec' = Cardinality(bitmap')
<1> DEFINE new == Cardinality(S \ bitmap)
           gone == Cardinality(S \cap bitmap)
           had == Cardinality(bitmap)
           has == Cardinality((bitmap \ S) \cup (S \ bitmap))
<1>1. bitmap' = (bitmap \ S) \cup (S \ bitmap) /\ free_sec' = (free_sec + new - gone) % WORD
  BY DEF SwitchSectorUse
<1>2. bitmap' \subseteq Numbers
  BY <1>1
<1>3. had \in Nat /\ new \in Nat /\ gone \in Nat /\ has = had + new - gone
  BY CountFitsWord, CardTurned, Zenon
<1>4. has \in 0 .. WORD - 1 /\ Cardinality(bitmap') = has
  <2>1. Cardinality(bitmap') \in 0 .. WORD - 1
    BY <1>2, CountFitsWord, Zenon
  <2>2. Cardinality(bitmap') = has
    BY <1>1, Zenon
  <2>3. QED
    BY <2>1, <2>2, Zenon
<1> HIDE DEF new, gone, had, has
<1>5. free_sec \in Int
  OBVIOUS
<1>6. free_sec' \in 0 .. WORD - 1
  BY <1>1, <1>3, <1>5, WordFacts
<1>7. ASSUME free_sec = Cardinality(bitmap) PROVE free_sec' = Cardinality(bitmap')
  <2>1. free_sec = had
    BY <1>7 DEF had
  <2>2. free_sec' = has % WORD
    BY <2>1, <1>1, <1>3
  <2>3. QED
    BY <2>2, <1>4, WordFacts
<1>8. QED
  BY <1>1, <1>2, <1>6, <1>7

-----------------------------------------------------------------------------
(* The sectors the file system takes for itself are below the last or 720, *)
(* however many pages the table has.                                       *)
LEMMA SystemFacts ==
    ASSUME NEW d \in Disks
    PROVE  /\ PagesNeeded(d) \in Nat /\ PagesNeeded(d) > 0
           /\ \A s \in SystemSectors(d, PagesNeeded(d)) :
                /\ s \in Int /\ 4 <= s /\ s <= 720
                /\ s > 368 => s = 720 /\ ReservesSector720(d)
           /\ ReservesSector720(d) => 720 \in SystemSectors(d, PagesNeeded(d))
<1> DEFINE last == PageOf(d, DiskSize(d))
<1>1. DiskSize(d) \in Nat /\ DiskSize(d) <= 65535
  BY DiskSizeFacts
<1>2. last \in Nat /\ PageStart(d, last) <= DiskSize(d)
  BY <1>1, PageOfFacts
<1> HIDE DEF last
<1>3. last <= 64
  <2>1. PageStart(d, 65) = FirstPageBits(d) + 64 * PageBits(d)
    BY DEF PageStart
  <2>2. PageStart(d, 65) > 65535 /\ PageStart(d, 65) \in Int
    <3>1. /\ FirstPageBits(d) = 720 \/ FirstPageBits(d) = 944 \/ FirstPageBits(d) = 1968
          /\ PageBits(d) = 1024 \/ PageBits(d) = 2048
      BY PageSizes
    <3>2. QED
      BY <2>1, <3>1
  <2>3. PageStart(d, last) \in Nat
    BY <1>2, PageStartFacts
  <2>4. ASSUME last >= 65 PROVE PageStart(d, 65) <= PageStart(d, last)
    BY <1>2, <2>4, PageStartGrows
  <2>5. QED
    BY <1>1, <1>2, <2>2, <2>3, <2>4
<1>4. PagesNeeded(d) = last + 1
  BY DEF PagesNeeded, last
<1>5. ASSUME NEW s \in SystemSectors(d, PagesNeeded(d))
      PROVE  /\ s \in Int /\ 4 <= s /\ s <= 720
             /\ s > 368 => s = 720 /\ ReservesSector720(d)
  BY <1>2, <1>3, <1>4, <1>5 DEF SystemSectors, VTOC_SECTOR, DIR_FIRST_SECTOR, DIR_SIZE
<1>6. ReservesSector720(d) => 720 \in SystemSectors(d, PagesNeeded(d))
  BY DEF SystemSectors
<1>7. QED
  BY <1>2, <1>4, <1>5, <1>6

(* DOS 2 has the capacity of its disks as a constant.                      *)
LEMMA PlainCapacity ==
    ASSUME NEW d \in Disks, ~Expanded(d)
    PROVE  PagesNeeded(d) = 1 /\ Cardinality(Usable(d)) = 707
<1>1. FirstPageBits(d) = 720 /\ DiskSize(d) = 719 /\ ~ReservesSector720(d)
  BY PlainSizes
<1>2. PagesNeeded(d) = 1
  BY <1>1 DEF PagesNeeded, PageOf
<1>3. Usable(d) = LowBits \ SystemBits
  BY <1>1, <1>2 DEF Usable, SystemSectors, VTOC_SECTOR, DIR_FIRST_SECTOR, DIR_SIZE, LowBits, SystemBits
<1>4. QED
  BY <1>2, <1>3, FreshLowCount

-----------------------------------------------------------------------------
LEMMA InitHolds == Init => VtocIInv
<1> SUFFICES ASSUME Init PROVE VtocIInv
  OBVIOUS
<1>1. DiskSize(disk) \in Int /\ 369 <= DiskSize(disk)
  BY DiskSizeFacts DEF Init
<1>2. 0 \in 0 .. WORD - 1
  BY DEF WORD
<1>3. TypeOK
  BY <1>1, <1>2 DEF Init, TypeOK
<1>4. InLoop /\ AfterLoop /\ Formatted
  BY DEF Init, InLoop, AfterLoop, Formatted
<1>5. VtocInv
  BY ResultAssumption
     DEF Init, VtocInv, FreeCountExact, OnlyUsableFree, CapacityExact, FullLeavesNothing
<1>6. QED
  BY <1>3, <1>4, <1>5 DEF VtocIInv

(* While a disk is being formatted, nothing is said of its table yet.      *)
LEMMA NotReadyInv ==
    ASSUME phase' # "ready", result' = None
    PROVE  VtocInv' /\ Formatted'
BY ResultAssumption
   DEF VtocInv, FreeCountExact, OnlyUsableFree, CapacityExact, FullLeavesNothing, Formatted

(* Bits and counts of the first sectors of a disk.                         *)
LEMMA FirstBits ==
    ASSUME NEW n \in Int, n <= 65535
    PROVE  /\ Upto(n) \subseteq Numbers
           /\ n >= 369 => /\ Cardinality(Upto(n)) = n - 3
                          /\ n - 3 \in 0 .. WORD - 1
<1>1. Upto(n) \subseteq Numbers
  BY WordRange DEF Upto
<1>2. ASSUME n >= 369
      PROVE  Cardinality(Upto(n)) = n - 3 /\ n - 3 \in 0 .. WORD - 1
  <2> DEFINE a == 4
  <2>1. a \in Int /\ a <= n /\ n - a + 1 = n - 3
    BY <1>2
  <2> HIDE DEF a
  <2>2. Cardinality(a .. n) = n - 3
    BY <2>1, CardInterval
  <2>3. n - 3 \in 0 .. WORD - 1
    BY <1>2, WordRange
  <2>4. Cardinality(Upto(n)) = n - 3
    BY <2>2 DEF a, Upto
  <2>5. QED
    BY <2>3, <2>4
<1>3. QED
  BY <1>1, <1>2

LEMMA FormatDos2Keeps ==
    ASSUME VtocIInv, FormatDos2
    PROVE  VtocIInv'
<1>1. /\ phase = "format" /\ ~Expanded(disk)
      /\ free_sec' = 716 /\ vtoc_size' = 1
      /\ start' = FirstPageBits(disk) /\ size' = 0 /\ phase' = "system"
      /\ disk' = disk /\ capacity' = capacity /\ result' = result
  BY DEF FormatDos2
<1>2. TypeOK /\ InLoop
  BY DEF VtocIInv
<1>3. disk \in Disks /\ result = None /\ capacity = 0
  BY <1>1, <1>2 DEF TypeOK, InLoop
<1>4. FirstPageBits(disk) = 720 /\ DiskSize(disk) = 719 /\ PagesNeeded(disk) = 1
  BY <1>1, <1>3, PlainSizes, PlainCapacity
<1>5. bitmap' = Upto(DiskSize(disk))
  BY <1>4 DEF FormatDos2, Upto
<1>6. TypeOK'
  <2>1. bitmap' \subseteq 1 .. WORD - 1 /\ free_sec' \in 0 .. WORD - 1 /\ 0 \in 0 .. WORD - 1
    <3>1. bitmap' \subseteq Numbers
      BY <1>3, <1>5, DiskSizeFacts, FirstBits
    <3>2. free_sec' \in 0 .. WORD - 1 /\ 0 \in 0 .. WORD - 1
      BY <1>1, WordRange
    <3>3. QED
      BY <3>1, <3>2 DEF Numbers
  <2>2. QED
    BY <1>1, <1>3, <1>4, <2>1 DEF TypeOK
<1>7. AfterLoop' /\ InLoop'
  BY <1>1, <1>3, <1>4, <1>5 DEF AfterLoop, InLoop
<1>8. VtocInv' /\ Formatted'
  BY <1>1, <1>3, NotReadyInv
<1>9. QED
  BY <1>6, <1>7, <1>8 DEF VtocIInv

(* A pass of the loop that fills a page, and leaves sectors for the next.  *)
LEMMA PageFilled ==
    ASSUME VtocIInv, Expanded(disk), NEW p \in Nat,
           vtoc_size' = p + 1, start' = PageStart(disk, p + 1),
           start' <= DiskSize(disk),
           bitmap' = Upto(start' - 1), free_sec' = DiskSize(disk) - 3,
           size' = DiskSize(disk) + 1 - start', phase' = "format",
           disk' = disk, capacity' = 0, result' = None
    PROVE  VtocIInv'
<1> DEFINE last == DiskSize(disk)
           prev == start' - 1
<1>1. disk \in Disks
  BY DEF VtocIInv, TypeOK
<1>2. /\ last \in Int /\ 369 <= last /\ last <= 65535
      /\ last - 3 \in 0 .. WORD - 1
  BY <1>1, DiskSizeFacts, FirstBits
<1>3. start' \in Nat
  BY <1>1, PageStartFacts
<1>4. prev \in Int /\ prev <= 65535
  BY <1>2, <1>3
<1>5. InLoop' /\ AfterLoop'
  BY DEF InLoop, AfterLoop
<1>6. size' \in Nat
  BY <1>2, <1>3
<1>7. bitmap' \subseteq Numbers
  <2>1. bitmap' = Upto(prev)
    OBVIOUS
  <2> HIDE DEF prev
  <2>2. Upto(prev) \subseteq Numbers
    BY <1>4, FirstBits
  <2>3. QED
    BY <2>1, <2>2
<1>8. 0 \in 0 .. WORD - 1
  BY WordRange
<1>9. TypeOK'
  BY <1>1, <1>2, <1>3, <1>6, <1>7, <1>8 DEF TypeOK, Numbers
<1>10. VtocInv' /\ Formatted'
  BY NotReadyInv
<1>11. QED
  BY <1>5, <1>9, <1>10 DEF VtocIInv

(* The pass in whose page the disk ends.                                   *)
LEMMA LastPageWritten ==
    ASSUME VtocIInv, Expanded(disk), NEW p \in Nat,
           vtoc_size' = p + 1, start' = PageStart(disk, p + 1),
           PageStart(disk, p) <= DiskSize(disk), DiskSize(disk) < start',
           bitmap' = Upto(DiskSize(disk)), free_sec' = DiskSize(disk) - 3,
           size' = 0, phase' = "system",
           disk' = disk, capacity' = 0, result' = None
    PROVE  VtocIInv'
<1> DEFINE last == DiskSize(disk)
<1>1. disk \in Disks
  BY DEF VtocIInv, TypeOK
<1>2. /\ last \in Int /\ 369 <= last /\ last <= 65535
      /\ last - 3 \in 0 .. WORD - 1 /\ Upto(last) \subseteq Numbers
  BY <1>1, DiskSizeFacts, FirstBits
<1>3. start' \in Nat
  BY <1>1, PageStartFacts
<1>4. PagesNeeded(disk) = p + 1
  BY <1>1, <1>2, PageOfUnique DEF PagesNeeded
<1>5. InLoop' /\ AfterLoop'
  BY <1>4 DEF InLoop, AfterLoop
<1>6. 0 \in 0 .. WORD - 1
  BY WordRange
<1>7. TypeOK'
  BY <1>1, <1>2, <1>3, <1>6 DEF TypeOK, Numbers
<1>8. VtocInv' /\ Formatted'
  BY NotReadyInv
<1>9. QED
  BY <1>5, <1>7, <1>8 DEF VtocIInv

(* The sectors up to a - 1 and x more from a on.                           *)
LEMMA MoreBits ==
    ASSUME NEW a \in Int, a >= 4, NEW x \in Int, x > 0
    PROVE  Upto(a - 1) \cup (a .. a + x - 1) = Upto(a + x - 1)
BY DEF Upto

(* What a pass does from sector from on, with room for so many bits.       *)
LEMMA PassKeeps ==
    ASSUME VtocIInv, Expanded(disk), NEW p \in Nat, NEW from \in Int, NEW room \in Int,
           NEW x, x = MinOf(room, DiskSize(disk) + 1 - from),
           from >= 4, from >= PageStart(disk, p), from <= DiskSize(disk), room > 0,
           from + room = PageStart(disk, p + 1),
           vtoc_size' = p + 1,
           bitmap' = Upto(from - 1) \cup (from .. from + x - 1),
           free_sec' = DiskSize(disk) - 3,
           start' = from + room,
           size' = DiskSize(disk) + 1 - from - x,
           phase' = IF DiskSize(disk) + 1 - from - x > 0 THEN "format" ELSE "system",
           disk' = disk, capacity' = 0, result' = None
    PROVE  VtocIInv'
<1> DEFINE last == DiskSize(disk)
<1>1. disk \in Disks
  BY DEF VtocIInv, TypeOK
<1>2. last \in Int
  BY <1>1, DiskSizeFacts
<1>3. PageStart(disk, p) \in Nat
  BY <1>1, PageStartFacts
<1> HIDE DEF last
<1>4. x \in Int /\ x > 0 /\ start' = PageStart(disk, p + 1)
  BY <1>2 DEF MinOf, last
<1>5. bitmap' = Upto(from + x - 1)
  BY <1>4, MoreBits, Zenon
<1>6. CASE room < last + 1 - from
  <2>1. /\ x = room /\ start' <= last /\ size' = last + 1 - start' /\ phase' = "format"
        /\ from + x - 1 = start' - 1
    BY <1>2, <1>6 DEF MinOf, last
  <2>2. bitmap' = Upto(start' - 1)
    BY <1>5, <2>1, Zenon
  <2>3. QED
    BY <1>4, <2>1, <2>2, PageFilled DEF last
<1>7. CASE ~(room < last + 1 - from)
  <2>1. /\ last < start' /\ size' = 0 /\ phase' = "system" /\ from + x - 1 = last
        /\ PageStart(disk, p) <= last
    BY <1>2, <1>3, <1>7 DEF MinOf, last
  <2>2. bitmap' = Upto(last)
    BY <1>5, <2>1, Zenon
  <2>3. QED
    BY <1>4, <2>1, <2>2, LastPageWritten DEF last
<1>8. QED
  BY <1>6, <1>7

LEMMA FormatPageKeeps ==
    ASSUME VtocIInv, FormatPage
    PROVE  VtocIInv'
<1>1. TypeOK /\ InLoop /\ phase = "format" /\ Expanded(disk)
  BY DEF VtocIInv, FormatPage
<1>2. disk \in Disks /\ result = None /\ capacity = 0 /\ vtoc_size \in Nat
  BY <1>1 DEF TypeOK, InLoop
<1>3. DiskSize(disk) \in Int /\ 369 <= DiskSize(disk)
  BY <1>2, DiskSizeFacts
<1>4. disk' = disk /\ capacity' = 0 /\ result' = None /\ vtoc_size' = vtoc_size + 1
  BY <1>2 DEF FormatPage
<1>5. CASE vtoc_size = 0
  <2> DEFINE room == FirstPageBits(disk) - 8
             left == size - 4
             x == MinOf(room, left)
  <2>1. start = 0 /\ size = DiskSize(disk) - 3 /\ bitmap = {}
    BY <1>1, <1>5 DEF InLoop
  <2>2. FirstPageBits(disk) = 944 \/ FirstPageBits(disk) = 1968
    BY <1>1, <1>2, ExpandedSizes
  <2>3. left = DiskSize(disk) + 1 - 8
    BY <1>3, <2>1
  <2>4. /\ bitmap' = bitmap \cup (4 .. 7) \cup (8 .. 8 + x - 1)
        /\ free_sec' = size
        /\ start' = 8 + room
        /\ size' = left - x
        /\ phase' = IF left - x > 0 THEN "format" ELSE "system"
    BY <1>5, Zenon DEF FormatPage
  <2> HIDE DEF x
  <2>5. bitmap' = Upto(8 - 1) \cup (8 .. 8 + x - 1)
    BY <2>1, <2>4 DEF Upto
  <2>6. /\ PageStart(disk, 0) = 0 /\ PageStart(disk, 0 + 1) = 8 + room
        /\ room \in Int /\ room > 0
    <3>1. PageBits(disk) = 1024 \/ PageBits(disk) = 2048
      BY <1>2, PageSizes
    <3>2. QED
      BY <2>2, <3>1 DEF PageStart
  <2>7. x = MinOf(room, DiskSize(disk) + 1 - 8)
    BY <2>3, Zenon DEF x
  <2> HIDE DEF room, left
  <2>8. /\ size' = DiskSize(disk) + 1 - 8 - x
        /\ phase' = IF DiskSize(disk) + 1 - 8 - x > 0 THEN "format" ELSE "system"
    <3>1. x \in Int
      BY <1>3, <2>6, <2>7 DEF MinOf
    <3>2. QED
      BY <1>3, <2>3, <2>4, <3>1
  <2>9. QED
    BY <1>1, <1>3, <1>4, <1>5, <2>1, <2>4, <2>5, <2>6, <2>7, <2>8, PassKeeps
<1>6. CASE vtoc_size > 0
  <2> DEFINE room == PageBits(disk)
             x == MinOf(room, size)
  <2>1. /\ start = PageStart(disk, vtoc_size) /\ start <= DiskSize(disk)
        /\ size = DiskSize(disk) + 1 - start
        /\ bitmap = Upto(start - 1) /\ free_sec = DiskSize(disk) - 3
    BY <1>1, <1>2, <1>6 DEF InLoop
  <2>2. PageBits(disk) = 1024 \/ PageBits(disk) = 2048
    BY <1>2, PageSizes
  <2>3. start \in Nat /\ start >= 720
    <3>1. PageStart(disk, 1) <= PageStart(disk, vtoc_size)
      BY <1>2, <1>6, PageStartGrows
    <3>2. FirstPageBits(disk) = 944 \/ FirstPageBits(disk) = 1968
      BY <1>1, <1>2, ExpandedSizes
    <3>3. start \in Nat
      BY <1>1 DEF TypeOK
    <3>4. PageStart(disk, 1) = FirstPageBits(disk)
      BY <2>2, <3>2 DEF PageStart
    <3>5. QED
      BY <2>1, <3>1, <3>2, <3>3, <3>4
  <2>4. /\ bitmap' = bitmap \cup {} \cup (start .. start + x - 1)
        /\ free_sec' = free_sec
        /\ start' = start + room
        /\ size' = size - x
        /\ phase' = IF size - x > 0 THEN "format" ELSE "system"
    <3>1. vtoc_size # 0
      BY <1>6
    <3>2. QED
      BY <3>1, Zenon DEF FormatPage
  <2> HIDE DEF x
  <2>5. bitmap' = Upto(start - 1) \cup (start .. start + x - 1)
    <3>1. bitmap' = bitmap \cup (start .. start + x - 1)
      BY <2>4, Zenon
    <3>2. QED
      BY <2>1, <3>1, Zenon
  <2>6. x = MinOf(room, DiskSize(disk) + 1 - start)
    BY <2>1, Zenon DEF x
  <2>7. PageStart(disk, vtoc_size + 1) = PageStart(disk, vtoc_size) + PageBits(disk)
    BY <1>2, <1>6, PageStartFacts
  <2>8. room \in Int /\ room > 0 /\ start + room = PageStart(disk, vtoc_size + 1)
    BY <2>1, <2>2, <2>7
  <2> HIDE DEF room
  <2>9. QED
    <3>1. start >= 4 /\ start >= PageStart(disk, vtoc_size) /\ start \in Int
      BY <2>1, <2>3
    <3>2. free_sec' = DiskSize(disk) - 3
      BY <2>1, <2>4
    <3>3. /\ size' = DiskSize(disk) + 1 - start - x
          /\ phase' = IF DiskSize(disk) + 1 - start - x > 0 THEN "format" ELSE "system"
      <4>1. x \in Int
        BY <1>3, <2>3, <2>6, <2>8 DEF MinOf
      <4>2. size = DiskSize(disk) + 1 - start
        BY <2>1
      <4>3. QED
        BY <1>3, <2>3, <2>4, <4>1, <4>2
    <3>4. QED
      BY <1>1, <1>2, <1>4, <2>1, <2>4, <2>5, <2>6, <2>8, <3>1, <3>2, <3>3, PassKeeps
<1>7. QED
  BY <1>2, <1>5, <1>6

-----------------------------------------------------------------------------
(* The sectors of the system are all on the disk, if 720 is.               *)
LEMMA SystemOnDisk ==
    ASSUME NEW d \in Disks
    PROVE  /\ SystemSectors(d, PagesNeeded(d)) \subseteq Numbers
           /\ AllBitsOnDisk(d) => SystemSectors(d, PagesNeeded(d)) \subseteq Upto(DiskSize(d))
           /\ \A s \in SystemSectors(d, PagesNeeded(d)) \ Upto(DiskSize(d)) :
                s = 720 /\ ReservesSector720(d)
<1> DEFINE S == SystemSectors(d, PagesNeeded(d))
<1>1. DiskSize(d) \in Int /\ 369 <= DiskSize(d)
  BY DiskSizeFacts
<1>2. \A s \in S : /\ s \in Int /\ 4 <= s /\ s <= 720
                   /\ s > 368 => s = 720 /\ ReservesSector720(d)
  BY SystemFacts
<1> HIDE DEF S
<1>3. S \subseteq Numbers
  BY <1>2, WordRange
<1>4. AllBitsOnDisk(d) => S \subseteq Upto(DiskSize(d))
  BY <1>1, <1>2 DEF AllBitsOnDisk, Upto
<1>5. \A s \in S \ Upto(DiskSize(d)) : s = 720 /\ ReservesSector720(d)
  BY <1>1, <1>2 DEF Upto
<1>6. QED
  BY <1>3, <1>4, <1>5 DEF S

(* A sector the search misses is the last of the disk, the first of its    *)
(* page.                                                                   *)
LEMMA MissedSector ==
    ASSUME NEW d \in Disks, NEW s \in Nat, ~Searched(d, s),
           s <= DiskSize(d) \/ (s = 720 /\ ReservesSector720(d))
    PROVE  s = DiskSize(d) /\ ~LastPageSearched(d) /\ Expanded(d) /\ 944 <= s
<1> DEFINE p == PageOf(d, s)
<1>1. p \in Nat /\ PageStart(d, p) <= s /\ PageStart(d, p) \in Nat
  BY PageOfFacts, PageStartFacts
<1>2. p # 0 /\ (Expanded(d) => PageStart(d, p) >= d.sector_count)
  BY <1>1, DiskTypes DEF Searched
<1>3. ~(s < FirstPageBits(d))
  BY <1>2 DEF PageOf
<1> HIDE DEF p
<1>4. DiskSize(d) \in Int /\ (Expanded(d) => DiskSize(d) <= d.sector_count)
  BY DiskSizeFacts
<1>5. Expanded(d)
  <2>1. ASSUME ~Expanded(d) PROVE FALSE
    BY <1>3, <2>1, PlainSizes
  <2>2. QED
    BY <2>1
<1>6. FirstPageBits(d) = 944 \/ FirstPageBits(d) = 1968
  BY <1>5, ExpandedSizes
<1>7. 944 <= s /\ s <= DiskSize(d)
  BY <1>3, <1>6
<1>8. s = DiskSize(d)
  BY <1>1, <1>2, <1>4, <1>5, <1>7, DiskTypes
<1>9. ~LastPageSearched(d)
  BY <1>8 DEF LastPageSearched
<1>10. QED
  BY <1>5, <1>7, <1>8, <1>9

(* The table as it leaves vtoc_format: the bits of the pages without those *)
(* of the system, the count and, on DOS 2 the constant, the capacity.      *)
LEMMA ReserveSystemKeeps ==
    ASSUME VtocIInv, ReserveSystem
    PROVE  VtocIInv'
<1> DEFINE S == SystemSectors(disk, PagesNeeded(disk))
           last == DiskSize(disk)
<1>1. TypeOK /\ AfterLoop /\ phase = "system"
  BY DEF VtocIInv, ReserveSystem
<1>2. /\ disk \in Disks /\ result = None /\ vtoc_size = PagesNeeded(disk)
      /\ bitmap = Upto(last) /\ free_sec = last - 3
  BY <1>1 DEF TypeOK, AfterLoop
<1>3. /\ phase' = "ready" /\ disk' = disk /\ result' = None
      /\ vtoc_size' = vtoc_size /\ start' = start /\ size' = size
      /\ capacity' = (IF Expanded(disk) THEN free_sec' ELSE 707)
      /\ SwitchSectorUse(S)
  BY <1>2 DEF ReserveSystem, formatVars
<1>4. last \in Int /\ 369 <= last /\ last <= 65535
  BY <1>2, DiskSizeFacts
<1>5. /\ S \subseteq Numbers
      /\ AllBitsOnDisk(disk) => S \subseteq bitmap
      /\ \A s \in S \ bitmap : s = 720 /\ ReservesSector720(disk)
  BY <1>2, SystemOnDisk
<1> HIDE DEF last
<1>6. bitmap \subseteq Numbers /\ free_sec = Cardinality(bitmap)
  BY <1>2, <1>4, FirstBits
<1> HIDE DEF S
<1>7. /\ bitmap' = (bitmap \ S) \cup (S \ bitmap) /\ bitmap' \subseteq Numbers
      /\ free_sec' \in 0 .. WORD - 1 /\ free_sec' = Cardinality(bitmap')
  <2>1. free_sec \in 0 .. WORD - 1
    BY <1>1 DEF TypeOK
  <2>2. S \subseteq Numbers /\ SwitchSectorUse(S)
    BY <1>3, <1>5
  <2>3. QED
    BY <1>6, <2>1, <2>2, SwitchKeepsCount, Zenon
<1>8. 707 \in 0 .. WORD - 1
  BY WordRange
<1>9. TypeOK'
  BY <1>1, <1>3, <1>7, <1>8 DEF TypeOK, Numbers
<1>10. InLoop' /\ AfterLoop'
  BY <1>3 DEF InLoop, AfterLoop
<1>11. AllBitsOnDisk(disk) => bitmap' = Usable(disk)
  <2>1. Usable(disk) = bitmap \ S
    BY <1>2 DEF Usable, S, last, Upto
  <2>2. QED
    BY <2>1, <1>5, <1>7
<1>12. Formatted'
  <2>1. bitmap' \subseteq bitmap \cup StraySector
    BY <1>5, <1>7 DEF StraySector
  <2>2. StraySector' = StraySector
    BY <1>3 DEF StraySector
  <2>3. ASSUME ~LastPageSearched(disk) PROVE last \in bitmap'
    <3>1. 944 <= last
      BY <1>2, <1>4, <2>3, MissedSector DEF LastPageSearched, last
    <3>2. last \in bitmap
      BY <1>2, <1>4 DEF Upto
    <3>3. last \notin S
      BY <1>2, <1>4, <3>1, SystemFacts DEF S
    <3>4. QED
      BY <3>2, <3>3, <1>7
  <2>4. QED
    BY <1>2, <1>3, <2>1, <2>2, <2>3 DEF Formatted, last
<1>13. CapacityExact'
  <2>1. CASE Expanded(disk)
    BY <1>3, <1>7, <1>11, <2>1 DEF CapacityExact
  <2>2. CASE ~Expanded(disk)
    <3>1. Cardinality(Usable(disk)) = 707
      BY <1>2, <2>2, PlainCapacity
    <3>2. QED
      BY <1>3, <2>2, <3>1 DEF CapacityExact
  <2>3. QED
    BY <2>1, <2>2
<1>14. FreeCountExact' /\ OnlyUsableFree' /\ FullLeavesNothing'
  BY <1>3, <1>7, <1>11, ResultAssumption
     DEF FreeCountExact, OnlyUsableFree, FullLeavesNothing
<1>15. QED
  BY <1>9, <1>10, <1>12, <1>13, <1>14 DEF VtocIInv, VtocInv

(* What an operation on a formatted disk has to keep.                      *)
LEMMA ReadyKept ==
    ASSUME VtocIInv, phase = "ready",
           UNCHANGED <<disk, phase, formatVars, capacity>>,
           bitmap' \subseteq Numbers, free_sec' \in 0 .. WORD - 1,
           result' \in Nat \cup {None, Full},
           SearchStaysInTable(disk) /\ DirSearchInTable(disk)
               => free_sec' = Cardinality(bitmap'),
           AllBitsOnDisk(disk) /\ DirSearchExact(disk) => bitmap' \subseteq bitmap,
           ~disk.subdirs => bitmap' \subseteq bitmap,
           ~disk.subdirs /\ ~LastPageSearched(disk) => DiskSize(disk) \in bitmap',
           FullLeavesNothing'
    PROVE  VtocIInv'
<1>1. TypeOK /\ Formatted /\ OnlyUsableFree /\ CapacityExact
  BY DEF VtocIInv, VtocInv
<1>2. /\ disk' = disk /\ phase' = "ready" /\ capacity' = capacity
      /\ vtoc_size' = vtoc_size /\ start' = start /\ size' = size
  BY DEF formatVars
<1>3. TypeOK'
  BY <1>1, <1>2 DEF TypeOK, Numbers
<1>4. InLoop' /\ AfterLoop'
  BY <1>2 DEF InLoop, AfterLoop
<1>5. StraySector' = StraySector
  BY <1>2 DEF StraySector
<1>6. Formatted'
  BY <1>1, <1>2, <1>5 DEF Formatted
<1>7. FreeCountExact' /\ OnlyUsableFree' /\ CapacityExact'
  BY <1>1, <1>2 DEF FreeCountExact, OnlyUsableFree, CapacityExact
<1>8. QED
  BY <1>3, <1>4, <1>6, <1>7 DEF VtocIInv, VtocInv

LEMMA AllocSectorKeeps ==
    ASSUME VtocIInv, AllocSector
    PROVE  VtocIInv'
<1>1. TypeOK /\ Formatted /\ FreeCountExact /\ phase = "ready"
      /\ UNCHANGED <<disk, phase, formatVars, capacity>>
  BY DEF VtocIInv, VtocInv, AllocSector
<1>2. PICK s \in bitmap : Searched(disk, s) /\ SwitchSectorUse({s}) /\ result' = s
  BY DEF AllocSector
<1>3. bitmap \subseteq Numbers /\ {s} \subseteq Numbers /\ free_sec \in 0 .. WORD - 1
  BY <1>1 DEF TypeOK, Numbers
<1>4. s \in Nat
  BY <1>3, WordRange
<1>5. /\ bitmap' = bitmap \ {s} /\ bitmap' \subseteq Numbers
      /\ free_sec' \in 0 .. WORD - 1
      /\ free_sec = Cardinality(bitmap) => free_sec' = Cardinality(bitmap')
  BY <1>2, <1>3, SwitchKeepsCount
<1>6. ~disk.subdirs /\ ~LastPageSearched(disk) => DiskSize(disk) \in bitmap'
  BY <1>1, <1>2, <1>5 DEF Formatted, LastPageSearched
<1>7. result' # Full
  BY <1>2, <1>4, ResultAssumption
<1>8. FullLeavesNothing'
  BY <1>7 DEF FullLeavesNothing
<1>9. QED
  BY <1>1, <1>2, <1>4, <1>5, <1>6, <1>8, ReadyKept DEF FreeCountExact

(* Where the search stays in the table, no sector comes from behind it.    *)
LEMMA NothingBehindTable ==
    ASSUME NEW d \in Disks, SearchStaysInTable(d), NEW s \in Nat,
           PageOf(d, s) >= PagesNeeded(d), Searched(d, s)
    PROVE  FALSE
<1> DEFINE p == PageOf(d, s)
           needed == PagesNeeded(d)
<1>1. p \in Nat /\ needed \in Nat /\ needed > 0 /\ p >= needed
  BY PageOfFacts, SystemFacts
<1>2. PageStart(d, p) < d.sector_count /\ Expanded(d)
  BY <1>1 DEF Searched
<1>3. PageStart(d, needed) >= d.sector_count
  BY <1>2 DEF SearchStaysInTable
<1> HIDE DEF p, needed
<1>4. PageStart(d, needed) <= PageStart(d, p)
  BY <1>1, PageStartGrows
<1>5. PageStart(d, p) \in Nat /\ PageStart(d, needed) \in Nat /\ d.sector_count \in Int
  BY <1>1, PageStartFacts, DiskTypes
<1>6. QED
  BY <1>2, <1>3, <1>4, <1>5

LEMMA AllocFromDataKeeps ==
    ASSUME VtocIInv, AllocFromData
    PROVE  VtocIInv' /\ ~SearchStaysInTable(disk)
<1>1. /\ TypeOK /\ Formatted /\ FreeCountExact /\ phase = "ready"
      /\ UNCHANGED <<disk, phase, formatVars, capacity>> /\ bitmap' = bitmap
      /\ free_sec' = (free_sec - 1) % WORD
  BY DEF VtocIInv, VtocInv, AllocFromData
<1>2. PICK s \in PageStart(disk, vtoc_size) .. disk.sector_count + PageBits(disk) :
        PageOf(disk, s) >= vtoc_size /\ Searched(disk, s) /\ result' = s
  BY DEF AllocFromData
<1>3. disk \in Disks /\ vtoc_size = PagesNeeded(disk) /\ vtoc_size \in Nat
  BY <1>1 DEF TypeOK, Formatted
<1>4. s \in Nat
  <2>1. PageStart(disk, vtoc_size) \in Nat
    BY <1>3, PageStartFacts
  <2>2. QED
    BY <1>2, <2>1
<1>5. ~SearchStaysInTable(disk)
  BY <1>2, <1>3, <1>4, NothingBehindTable
<1>6. free_sec' \in 0 .. WORD - 1
  <2>1. free_sec - 1 \in Int
    BY <1>1, WordRange DEF TypeOK
  <2>2. QED
    BY <1>1, <2>1, WordFacts
<1>7. result' # Full
  BY <1>2, <1>4, ResultAssumption
<1>8. FullLeavesNothing'
  BY <1>7 DEF FullLeavesNothing
<1>9. bitmap' \subseteq Numbers
  BY <1>1 DEF TypeOK, Numbers
<1>10. ~disk.subdirs /\ ~LastPageSearched(disk) => DiskSize(disk) \in bitmap'
  BY <1>1 DEF Formatted
<1>11. VtocIInv'
  BY <1>1, <1>2, <1>4, <1>5, <1>6, <1>8, <1>9, <1>10, ReadyKept
<1>12. QED
  BY <1>5, <1>11

(* What is left when the search finds nothing.                             *)
LEMMA NothingFoundLeaves ==
    ASSUME VtocIInv, phase = "ready", NothingFound, ~disk.subdirs
    PROVE  bitmap = IF LastPageSearched(disk) THEN {} ELSE {DiskSize(disk)}
<1>1. /\ TypeOK /\ disk \in Disks
      /\ bitmap \subseteq Upto(DiskSize(disk)) \cup StraySector
      /\ ~LastPageSearched(disk) => DiskSize(disk) \in bitmap
  BY DEF VtocIInv, TypeOK, Formatted
<1>2. DiskSize(disk) \in Int
  BY <1>1, DiskSizeFacts
<1>3. ASSUME NEW s \in bitmap
      PROVE  s = DiskSize(disk) /\ ~LastPageSearched(disk)
  <2>1. s \in Nat
    BY <1>1, WordRange DEF TypeOK, Numbers
  <2>2. s <= DiskSize(disk) \/ (s = 720 /\ ReservesSector720(disk))
    BY <1>1, <1>2 DEF Upto, StraySector
  <2>3. ~Searched(disk, s)
    BY DEF NothingFound
  <2>4. QED
    BY <1>1, <2>1, <2>2, <2>3, MissedSector
<1>4. CASE LastPageSearched(disk)
  BY <1>3, <1>4
<1>5. CASE ~LastPageSearched(disk)
  BY <1>1, <1>3, <1>5
<1>6. QED
  BY <1>4, <1>5

LEMMA DiskFullKeeps ==
    ASSUME VtocIInv, DiskFull
    PROVE  VtocIInv'
<1>1. /\ TypeOK /\ Formatted /\ FreeCountExact /\ phase = "ready" /\ NothingFound
      /\ UNCHANGED <<disk, phase, formatVars, capacity>>
      /\ bitmap' = bitmap /\ free_sec' = free_sec /\ result' = Full
  BY DEF VtocIInv, VtocInv, DiskFull
<1>2. bitmap' \subseteq Numbers /\ free_sec' \in 0 .. WORD - 1
  BY <1>1 DEF TypeOK, Numbers
<1>3. FullLeavesNothing'
  <2>1. ~disk.subdirs => bitmap = IF LastPageSearched(disk) THEN {} ELSE {DiskSize(disk)}
    BY <1>1, NothingFoundLeaves
  <2>2. QED
    BY <1>1, <2>1 DEF FullLeavesNothing
<1>4. ~disk.subdirs /\ ~LastPageSearched(disk) => DiskSize(disk) \in bitmap'
  BY <1>1 DEF Formatted
<1>5. QED
  BY <1>1, <1>2, <1>3, <1>4, ReadyKept DEF FreeCountExact

(* The bits behind the buffer have numbers of sectors, and there are none  *)
(* if alloc_dir sees exactly the table.                                    *)
LEMMA UnknownFacts ==
    ASSUME TypeOK, disk.subdirs
    PROVE  /\ UnknownBits \subseteq Numbers
           /\ DirSearchExact(disk) => UnknownBits = {}
<1>1. disk \in Disks
  BY DEF TypeOK
<1>2. Expanded(disk)
  BY <1>1, DiskTypes DEF Expanded
<1>3. UnknownBits \subseteq Numbers
  <2>1. FirstPageBits(disk) \in Int /\ FirstPageBits(disk) >= 1
    BY <1>1, <1>2, ExpandedSizes
  <2>2. \A s \in UnknownBits : s \in Int /\ 1 <= s /\ s <= 65535
    BY <2>1 DEF UnknownBits, DirBits
  <2>3. QED
    BY <2>2, WordRange
<1>4. ASSUME DirSearchExact(disk) PROVE UnknownBits = {}
  <2>1. disk.sector_size = 256
    BY <1>4 DEF DirSearchExact
  <2>2. FirstPageBits(disk) = 1968
    BY <1>1, <1>2, <2>1, ExpandedSizes
  <2>3. QED
    BY <2>2 DEF UnknownBits, DirBits
<1>5. QED
  BY <1>3, <1>4

(* Any value of the unknown bits that makes s the start of the first run   *)
(* may be replaced by the one with no other bits set: what CreateStrayDir  *)
(* tries are all the runs alloc_dir can find.                              *)
LEMMA FewestUnknownBits ==
    ASSUME NEW known, NEW unknown, known \cap UnknownBits = {},
           unknown \subseteq UnknownBits, NEW s, FirstDirRun(known \cup unknown, s)
    PROVE  FirstDirRun(known \cup (DirRun(s) \cap UnknownBits), s)
<1> DEFINE fewest == known \cup (DirRun(s) \cap UnknownBits)
<1>1. DirRun(s) \subseteq known \cup unknown
  BY DEF FirstDirRun
<1>2. fewest \subseteq known \cup unknown /\ DirRun(s) \subseteq fewest
  BY <1>1
<1>3. ASSUME NEW t \in fewest, t < s, DirRun(t) \subseteq fewest
      PROVE  FALSE
  BY <1>2, <1>3 DEF FirstDirRun
<1>4. QED
  BY <1>2, <1>3 DEF FirstDirRun

LEMMA CreateDirKeeps ==
    ASSUME VtocIInv, CreateDir
    PROVE  VtocIInv'
<1>1. /\ TypeOK /\ Formatted /\ FreeCountExact /\ phase = "ready" /\ disk.subdirs
      /\ UNCHANGED <<disk, phase, formatVars, capacity>>
  BY DEF VtocIInv, VtocInv, CreateDir
<1>2. PICK s \in TableBits :
        FirstDirRun(TableBits, s) /\ SwitchSectorUse(DirRun(s)) /\ result' = s
  BY DEF CreateDir
<1>3. bitmap \subseteq Numbers /\ free_sec \in 0 .. WORD - 1
  BY <1>1 DEF TypeOK, Numbers
<1>4. DirRun(s) \subseteq bitmap /\ s \in Nat
  BY <1>2, <1>3, WordRange DEF FirstDirRun, TableBits
<1>5. /\ bitmap' \subseteq bitmap
      /\ bitmap' \subseteq Numbers /\ free_sec' \in 0 .. WORD - 1
      /\ free_sec = Cardinality(bitmap) => free_sec' = Cardinality(bitmap')
  <2> DEFINE S == DirRun(s)
  <2>1. S \subseteq bitmap /\ SwitchSectorUse(S)
    BY <1>2, <1>4
  <2> HIDE DEF S
  <2>2. /\ bitmap' = (bitmap \ S) \cup (S \ bitmap)
        /\ bitmap' \subseteq Numbers /\ free_sec' \in 0 .. WORD - 1
        /\ free_sec = Cardinality(bitmap) => free_sec' = Cardinality(bitmap')
    BY <1>3, <2>1, SwitchKeepsCount
  <2>3. QED
    BY <2>1, <2>2
<1>6. FullLeavesNothing'
  BY <1>2, <1>4, ResultAssumption DEF FullLeavesNothing
<1>7. QED
  BY <1>1, <1>2, <1>4, <1>5, <1>6, ReadyKept DEF FreeCountExact

(* A run with all its bits in the table is switched like any sector; of    *)
(* another the count is not said to be right.                              *)
LEMMA TakeRunKeeps ==
    ASSUME NEW R, R \subseteq Numbers, bitmap \subseteq Numbers,
           free_sec \in 0 .. WORD - 1, TakeRun(R)
    PROVE  /\ bitmap' \subseteq Numbers /\ free_sec' \in 0 .. WORD - 1
           /\ (\A t \in R : PageOf(disk, t) < vtoc_size) =>
                 (free_sec = Cardinality(bitmap) => free_sec' = Cardinality(bitmap'))
<1> DEFINE inTable == {t \in R : PageOf(disk, t) < vtoc_size}
           behind == Cardinality(R \ inTable)
           new == Cardinality(inTable \ bitmap)
           gone == Cardinality(inTable \cap bitmap)
<1>1. PICK ones \in 0 .. behind :
        free_sec' = (free_sec + new - gone + ones - (behind - ones)) % WORD
  BY DEF TakeRun
<1>2. bitmap' = (bitmap \ inTable) \cup (inTable \ bitmap)
  BY DEF TakeRun
<1>3. bitmap' \subseteq Numbers /\ inTable \subseteq Numbers
  BY <1>2
<1>4. behind \in Nat
  <2>1. R \ inTable \subseteq Numbers
    OBVIOUS
  <2>2. QED
    BY <2>1, CountFitsWord, FS_CardinalityType, Zenon
<1>5. new \in Nat /\ gone \in Nat
  <2>1. inTable \ bitmap \subseteq Numbers /\ inTable \cap bitmap \subseteq Numbers
    OBVIOUS
  <2>2. new \in Nat
    BY <2>1, CountFitsWord, FS_CardinalityType, Zenon
  <2>3. gone \in Nat
    BY <2>1, CountFitsWord, FS_CardinalityType, Zenon
  <2>4. QED
    BY <2>2, <2>3
<1>6. ASSUME \A t \in R : PageOf(disk, t) < vtoc_size, free_sec = Cardinality(bitmap)
      PROVE  free_sec' = Cardinality(bitmap')
  <2>1. inTable = R /\ R \ inTable = {}
    BY <1>6
  <2>2. behind = 0
    BY <2>1, FS_EmptySet, Zenon
  <2> HIDE DEF behind, new, gone, inTable
  <2>3. free_sec' = (free_sec + new - gone) % WORD
    BY <1>1, <1>5, <2>2
  <2>4. SwitchSectorUse(R)
    BY <1>2, <2>1, <2>3 DEF SwitchSectorUse, new, gone
  <2>5. QED
    BY <2>4, <1>6, SwitchKeepsCount
<1> HIDE DEF behind, new, gone, inTable
<1>7. free_sec' \in 0 .. WORD - 1
  <2>1. free_sec + new - gone + ones - (behind - ones) \in Int
    BY <1>1, <1>4, <1>5
  <2>2. QED
    BY <1>1, <2>1, WordFacts
<1>8. QED
  BY <1>3, <1>6, <1>7

LEMMA CreateStrayDirKeeps ==
    ASSUME VtocIInv, CreateStrayDir
    PROVE  VtocIInv' /\ ~DirSearchExact(disk)
<1>1. /\ TypeOK /\ Formatted /\ FreeCountExact /\ phase = "ready" /\ disk.subdirs
      /\ UNCHANGED <<disk, phase, formatVars, capacity>> /\ NoDirRun(TableBits)
  BY DEF VtocIInv, VtocInv, CreateStrayDir
<1>2. PICK s \in FirstPageBits(disk) + 1 - DIR_SIZE .. DirBits - DIR_SIZE :
        /\ FirstDirRun(TableBits \cup (DirRun(s) \cap UnknownBits), s)
        /\ TakeRun(DirRun(s)) /\ result' = s
  BY DEF CreateStrayDir
<1>3. disk \in Disks /\ vtoc_size = PagesNeeded(disk)
      /\ bitmap \subseteq Numbers /\ free_sec \in 0 .. WORD - 1
  BY <1>1 DEF TypeOK, Formatted, Numbers
<1>4. DirRun(s) \subseteq TableBits \cup UnknownBits /\ TableBits \subseteq bitmap
  BY <1>2 DEF FirstDirRun, TableBits
<1>5. DirRun(s) \subseteq Numbers
  BY <1>1, <1>3, <1>4, UnknownFacts
<1>6. /\ s \in Nat /\ s \in DirRun(s)
      /\ \A t \in DirRun(s) : t \in Nat /\ t <= DirBits - 1
  <2>1. FirstPageBits(disk) = 720 \/ FirstPageBits(disk) = 944 \/ FirstPageBits(disk) = 1968
    BY <1>3, PageSizes
  <2>2. s \in Nat /\ s <= 1016
    BY <1>2, <2>1 DEF DIR_SIZE, DirBits
  <2>3. QED
    BY <2>2 DEF DirRun, DIR_SIZE, DirBits
<1>7. ASSUME DirSearchExact(disk) PROVE FALSE
  <2>1. UnknownBits = {}
    BY <1>1, <1>7, UnknownFacts
  <2>2. s \in TableBits /\ DirRun(s) \subseteq TableBits
    BY <1>4, <1>6, <2>1
  <2>3. QED
    BY <1>1, <2>2 DEF NoDirRun
<1>8. /\ bitmap' \subseteq Numbers /\ free_sec' \in 0 .. WORD - 1
      /\ (\A t \in DirRun(s) : PageOf(disk, t) < vtoc_size) =>
            (free_sec = Cardinality(bitmap) => free_sec' = Cardinality(bitmap'))
  BY <1>2, <1>3, <1>5, TakeRunKeeps
<1>9. ASSUME DirSearchInTable(disk)
      PROVE  \A t \in DirRun(s) : PageOf(disk, t) < vtoc_size
  <2>1. PageOf(disk, DirBits - 1) < PagesNeeded(disk)
    BY <1>1, <1>9 DEF DirSearchInTable
  <2>2. SUFFICES ASSUME NEW t \in DirRun(s) PROVE PageOf(disk, t) < vtoc_size
    OBVIOUS
  <2>3. t \in Nat /\ t <= DirBits - 1 /\ DirBits - 1 \in Nat
    BY <1>6 DEF DirBits
  <2>4. PageOf(disk, t) <= PageOf(disk, DirBits - 1)
    BY <1>3, <2>3, PageOfGrows
  <2>5. PageOf(disk, t) \in Nat /\ PageOf(disk, DirBits - 1) \in Nat /\ PagesNeeded(disk) \in Nat
    BY <1>3, <2>3, PageOfFacts, SystemFacts
  <2>6. QED
    BY <1>3, <2>1, <2>4, <2>5
<1>10. FullLeavesNothing'
  BY <1>2, <1>6, ResultAssumption DEF FullLeavesNothing
<1>11. VtocIInv'
  BY <1>1, <1>2, <1>6, <1>7, <1>8, <1>9, <1>10, ReadyKept DEF FreeCountExact
<1>12. QED
  BY <1>7, <1>11

LEMMA NoRoomForDirKeeps ==
    ASSUME VtocIInv, NoRoomForDir
    PROVE  VtocIInv'
<1>1. /\ TypeOK /\ FreeCountExact /\ phase = "ready" /\ disk.subdirs
      /\ UNCHANGED <<disk, phase, formatVars, capacity>>
      /\ bitmap' = bitmap /\ free_sec' = free_sec /\ result' = Full
  BY DEF VtocIInv, VtocInv, NoRoomForDir
<1>2. bitmap' \subseteq Numbers /\ free_sec' \in 0 .. WORD - 1
  BY <1>1 DEF TypeOK, Numbers
<1>3. FullLeavesNothing'
  BY <1>1 DEF FullLeavesNothing
<1>4. QED
  BY <1>1, <1>2, <1>3, ReadyKept DEF FreeCountExact

LEMMA StepKeeps == VtocIInv /\ [Next]_vars => VtocIInv'
<1> SUFFICES ASSUME VtocIInv, [Next]_vars PROVE VtocIInv'
  OBVIOUS
<1>1. CASE UNCHANGED vars
  BY <1>1
     DEF vars, formatVars, VtocIInv, TypeOK, InLoop, AfterLoop, Formatted, StraySector,
         VtocInv, FreeCountExact, OnlyUsableFree, CapacityExact, FullLeavesNothing
<1>2. CASE Next
  BY <1>2, FormatDos2Keeps, FormatPageKeeps, ReserveSystemKeeps, AllocSectorKeeps,
     AllocFromDataKeeps, DiskFullKeeps, CreateDirKeeps, CreateStrayDirKeeps,
     NoRoomForDirKeeps DEF Next
<1>3. QED
  BY <1>1, <1>2

(* Every variable keeps its type: the two words of the table never leave   *)
(* their width, also where the search leaves the table and the count of    *)
(* free sectors wraps.                                                     *)
THEOREM VtocTypeOK == Spec => []TypeOK
<1>1. Init => VtocIInv
  BY InitHolds
<1>2. VtocIInv /\ [Next]_vars => VtocIInv'
  BY StepKeeps
<1>3. VtocIInv => TypeOK
  BY DEF VtocIInv
<1>4. QED
  BY <1>1, <1>2, <1>3, PTL DEF Spec

(* The count is the number of the bits, nothing of the system and nothing  *)
(* off the disk is free, the capacity is what formatting leaves, and "disk *)
(* full" forgets no sector but a last one that starts a page: on every     *)
(* disk of any size, under the conditions the invariants name.             *)
THEOREM VtocCorrect == Spec => []VtocInv
<1>1. Init => VtocIInv
  BY InitHolds
<1>2. VtocIInv /\ [Next]_vars => VtocIInv'
  BY StepKeeps
<1>3. VtocIInv => VtocInv
  BY DEF VtocIInv
<1>4. QED
  BY <1>1, <1>2, <1>3, PTL DEF Spec

-----------------------------------------------------------------------------
(* On a regular disk formatting leaves what is usable ...                  *)
LEMMA FormattedExactly ==
    ASSUME VtocIInv, VtocIInv', ReserveSystem, AllBitsOnDisk(disk), DirSearchExact(disk)
    PROVE  bitmap' = Usable(disk)
<1> DEFINE S == SystemSectors(disk, PagesNeeded(disk))
<1>1. TypeOK /\ AfterLoop /\ phase = "system" /\ SwitchSectorUse(SystemSectors(disk, vtoc_size))
  BY DEF VtocIInv, ReserveSystem
<1>2. disk \in Disks /\ bitmap = Upto(DiskSize(disk)) /\ vtoc_size = PagesNeeded(disk)
  BY <1>1 DEF TypeOK, AfterLoop
<1>3. S \subseteq bitmap
  BY <1>2, SystemOnDisk
<1>4. bitmap' = (bitmap \ S) \cup (S \ bitmap)
  BY <1>1, <1>2 DEF SwitchSectorUse
<1>5. Usable(disk) = bitmap \ S
  BY <1>2 DEF Usable, Upto
<1>6. QED
  BY <1>3, <1>4, <1>5

(* ... the search that finds nothing leaves nothing, in directories too    *)
LEMMA NothingFoundInAll ==
    ASSUME VtocIInv, phase = "ready", NothingFound, Regular(disk)
    PROVE  bitmap = {}
<1>1. TypeOK /\ OnlyUsableFree /\ disk \in Disks
  BY DEF VtocIInv, VtocInv, TypeOK
<1>2. bitmap \subseteq Usable(disk) /\ LastPageSearched(disk)
  BY <1>1 DEF OnlyUsableFree, Regular
<1>3. ASSUME NEW s \in bitmap PROVE FALSE
  <2>1. s \in Nat
    BY <1>1, WordRange DEF TypeOK, Numbers
  <2>2. s <= DiskSize(disk)
    BY <1>1, <1>2, DiskSizeFacts DEF Usable
  <2>3. ~Searched(disk, s)
    BY DEF NothingFound
  <2>4. QED
    BY <1>1, <1>2, <2>1, <2>2, <2>3, MissedSector
<1>4. QED
  BY <1>3

(* ... and alloc_dir sees every free sector.                               *)
LEMMA AllSeen ==
    ASSUME VtocIInv, phase = "ready", disk.subdirs, Regular(disk)
    PROVE  TableBits = bitmap
<1>1. TypeOK /\ OnlyUsableFree /\ disk \in Disks
  BY DEF VtocIInv, VtocInv, TypeOK
<1>2. /\ bitmap \subseteq Usable(disk) /\ disk.sector_size = 256 /\ DiskSize(disk) < DirBits
      /\ DirSearchExact(disk)
  BY <1>1 DEF OnlyUsableFree, Regular, DirSearchExact
<1>3. Expanded(disk)
  BY <1>1, DiskTypes DEF Expanded
<1>4. FirstPageBits(disk) = 1968
  BY <1>1, <1>2, <1>3, ExpandedSizes
<1>5. ASSUME NEW s \in bitmap PROVE s \in 0 .. MinOf(FirstPageBits(disk), DirBits) - 1
  <2>1. s \in Int /\ 0 <= s /\ s <= DiskSize(disk) /\ DiskSize(disk) \in Int
    BY <1>1, <1>2, DiskSizeFacts DEF Usable
  <2>2. MinOf(FirstPageBits(disk), DirBits) = DirBits
    BY <1>4 DEF MinOf, DirBits
  <2>3. QED
    BY <1>2, <2>1, <2>2 DEF DirBits
<1>6. QED
  BY <1>5 DEF TableBits

(* A step on a regular disk is one of the allocator, or changes nothing it *)
(* sees.                                                                   *)
LEMMA StepRefines ==
    VtocIInv /\ VtocIInv' /\ [Next]_vars
        => [Regular(disk) => Allocator!AllocatorNext]_(Allocator!allocatorVars)
<1> DEFINE free == IF phase = "ready" THEN bitmap ELSE {}
<1> SUFFICES ASSUME VtocIInv, VtocIInv', [Next]_vars, Regular(disk)
             PROVE  \/ Allocator!AllocatorNext
                    \/ UNCHANGED <<Usable(disk), phase = "ready", free, result>>
  BY DEF Allocator!allocatorVars
<1>1. disk' = disk /\ Usable(disk)' = Usable(disk)
  BY DEF Next, FormatDos2, FormatPage, ReserveSystem, AllocSector, AllocFromData, DiskFull,
         CreateDir, CreateStrayDir, NoRoomForDir, vars
<1>2. /\ disk \in Disks
      /\ AllBitsOnDisk(disk) /\ LastPageSearched(disk)
      /\ SearchStaysInTable(disk) /\ DirSearchExact(disk)
  BY DEF Regular, VtocIInv, TypeOK
<1>3. CASE FormatDos2
  <2>1. phase = "format" /\ phase' = "system" /\ result' = result
    BY <1>3 DEF FormatDos2
  <2>2. QED
    BY <1>1, <2>1
<1>4. CASE FormatPage
  <2>1. phase = "format" /\ phase' # "ready" /\ result' = result
    BY <1>4 DEF FormatPage
  <2>2. QED
    BY <1>1, <2>1
<1>5. CASE ReserveSystem
  <2>1. phase = "system" /\ phase' = "ready" /\ result' = result
    BY <1>5 DEF ReserveSystem
  <2>2. bitmap' = Usable(disk)
    BY <1>5, <1>2, FormattedExactly
  <2>3. Allocator!AllocatorFormat
    BY <1>1, <2>1, <2>2 DEF Allocator!AllocatorFormat
  <2>4. QED
    BY <2>3 DEF Allocator!AllocatorNext
<1>6. CASE AllocSector
  <2>1. PICK s \in bitmap : SwitchSectorUse({s}) /\ result' = s
    BY <1>6 DEF AllocSector
  <2>2. phase = "ready" /\ phase' = "ready" /\ bitmap' = bitmap \ {s}
    BY <1>6, <2>1 DEF AllocSector, SwitchSectorUse
  <2>3. Allocator!GrantSector
    BY <1>1, <2>1, <2>2 DEF Allocator!GrantSector
  <2>4. QED
    BY <2>3 DEF Allocator!AllocatorNext
<1>7. CASE AllocFromData
  BY <1>2, <1>7, AllocFromDataKeeps
<1>8. CASE DiskFull
  <2>1. /\ phase = "ready" /\ phase' = "ready" /\ bitmap' = bitmap /\ result' = Full
        /\ NothingFound
    BY <1>8 DEF DiskFull
  <2>2. bitmap = {}
    BY <1>2, <2>1, NothingFoundInAll
  <2>3. Allocator!RefuseSector
    BY <1>1, <2>1, <2>2 DEF Allocator!RefuseSector
  <2>4. QED
    BY <2>3 DEF Allocator!AllocatorNext
<1>9. CASE CreateDir
  <2>1. PICK s \in TableBits :
          FirstDirRun(TableBits, s) /\ SwitchSectorUse(DirRun(s)) /\ result' = s
    BY <1>9 DEF CreateDir
  <2>2. phase = "ready" /\ phase' = "ready"
        /\ s \in bitmap /\ DirRun(s) \subseteq bitmap
    BY <1>9, <2>1 DEF CreateDir, FirstDirRun, TableBits
  <2>3. bitmap' = bitmap \ DirRun(s)
    BY <2>1, <2>2 DEF SwitchSectorUse
  <2>4. Allocator!RunAt(s) = DirRun(s)
    BY DEF Allocator!RunAt, DirRun
  <2>5. Allocator!GrantRun
    BY <1>1, <2>1, <2>2, <2>3, <2>4 DEF Allocator!GrantRun
  <2>6. QED
    BY <2>5 DEF Allocator!AllocatorNext
<1>10. CASE CreateStrayDir
  BY <1>2, <1>10, CreateStrayDirKeeps
<1>11. CASE NoRoomForDir
  <2>1. /\ phase = "ready" /\ phase' = "ready" /\ bitmap' = bitmap /\ result' = Full
        /\ NoDirRun(TableBits)
    BY <1>11 DEF NoRoomForDir
  <2>2. TableBits = bitmap
    BY <1>2, <1>11, <2>1, AllSeen DEF NoRoomForDir
  <2>3. \A s \in bitmap : ~(Allocator!RunAt(s) \subseteq bitmap)
    BY <2>1, <2>2 DEF NoDirRun, Allocator!RunAt, DirRun
  <2>4. Allocator!RefuseRun
    BY <1>1, <2>1, <2>3 DEF Allocator!RefuseRun
  <2>5. QED
    BY <2>4 DEF Allocator!AllocatorNext
<1>12. CASE UNCHANGED vars
  BY <1>1, <1>12 DEF vars
<1>13. QED
  BY <1>3, <1>4, <1>5, <1>6, <1>7, <1>8, <1>9, <1>10, <1>11, <1>12 DEF Next

(* On a disk whose table is exact the bitmap is a sector allocator, in     *)
(* single sectors and in runs of eight for a directory.                    *)
THEOREM VtocRefinesAllocator == Spec => RefinesAllocator
<1>1. Init => VtocIInv
  BY InitHolds
<1>2. VtocIInv /\ [Next]_vars => VtocIInv'
  BY StepKeeps
<1>3. Init => Allocator!AllocatorInit
  BY DEF Init, Allocator!AllocatorInit
<1>4. VtocIInv /\ VtocIInv' /\ [Next]_vars
        => [Regular(disk) => Allocator!AllocatorNext]_(Allocator!allocatorVars)
  BY StepRefines
<1>5. QED
  BY <1>1, <1>2, <1>3, <1>4, PTL DEF Spec, RefinesAllocator

=============================================================================
