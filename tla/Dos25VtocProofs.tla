--------------------------- MODULE Dos25VtocProofs ---------------------------
(* Theorems about Dos25Vtoc, for every set of sizes of disks.              *)
EXTENDS Dos25Vtoc, SharedFacts, TLAPS

AllBits == 4 .. 1023
Records == [bits : SUBSET AllBits, free : 0 .. WORD - 1]
Usable  == (4 .. LastBit) \ (360 .. DIR_FIRST_SECTOR + DIR_SIZE - 1)

(***************************************************************************)
(* The inductive invariant.  Types, with vtoc_dirty: every change is       *)
(* written at once, so ~dos25 has never anything left to write.            *)
(***************************************************************************)
Typed ==
    /\ sector_count \in Sizes
    /\ formatted \in BOOLEAN /\ mounted \in BOOLEAN /\ vtoc_dirty = FALSE
    /\ sector360 \in Records /\ sector1024 \in Records
    /\ result \in 1 .. WORD - 1 \cup {None, Full}

(* Before format nothing happens but the constructor.                      *)
Blank ==
    ~formatted => /\ mounted
                  /\ bitmap = {} /\ free_sec = 0 /\ free_sec2 = 0
                  /\ sector360 = Written({}, 0) /\ sector1024 = Written({}, 0)
                  /\ result = None

(* What a sector of the table can hold: only bits of its own, and none of  *)
(* a sector of the system.                                                 *)
BitsInPlace ==
    /\ sector360.bits \subseteq Usable \cap BITS1
    /\ sector1024.bits \subseteq Usable \cap BITS2

(* The buffer of an object is what vtoc_read would make of the image.      *)
BufferInImage ==
    /\ mounted => /\ bitmap = BufferRead
                  /\ free_sec = sector360.free
                  /\ free_sec2 = IF HasVtoc2 THEN sector1024.free ELSE 0
    /\ ~mounted => bitmap = {} /\ free_sec = 0 /\ free_sec2 = 0

Dos25IInv == Typed /\ Blank /\ BitsInPlace /\ BufferInImage /\ Dos25Inv

-----------------------------------------------------------------------------
(* All sectors that a table can have bits for.                             *)
LEMMA AllBitsFinite == IsFiniteSet(AllBits)
<1> DEFINE a == 4  b == 1023
<1>1. a \in Int /\ b \in Int /\ a <= b /\ AllBits = a .. b
  BY DEF AllBits
<1> HIDE DEF a, b
<1>2. QED
  BY <1>1, CardInterval

(* Taking a sector out of a set that holds it lowers its count by one.     *)
LEMMA OneTaken ==
    ASSUME NEW S, S \subseteq AllBits, NEW s \in S
    PROVE  Cardinality(S) \in Nat /\ Cardinality(S) > 0
           /\ Cardinality(S \ {s}) = Cardinality(S) - 1
<1>1. IsFiniteSet(S)
  BY AllBitsFinite, FS_Subset
<1>2. QED
  BY <1>1, CardTaken, Zenon

(* No set of them has more than there are.                                 *)
LEMMA CountInWord ==
    ASSUME NEW S, S \subseteq AllBits
    PROVE  Cardinality(S) \in Nat
<1>1. IsFiniteSet(S)
  BY AllBitsFinite, FS_Subset
<1>2. QED
  BY <1>1, FS_CardinalityType

-----------------------------------------------------------------------------
LEMMA SectorCountFacts ==
    ASSUME Typed
    PROVE  sector_count \in Int /\ LastBit \in {719, 1023} /\ Usable \subseteq AllBits
<1>1. sector_count \in Int
  <2>1. sector_count \in Sizes
    BY DEF Typed
  <2>2. QED
    BY <2>1, SizesAssumption
<1>2. LastBit \in {719, 1023}
  BY DEF LastBit
<1>3. Usable \subseteq AllBits
  BY <1>2 DEF Usable, AllBits
<1>4. QED
  BY <1>1, <1>2, <1>3

(* While an object exists, the sectors of the image hold its buffer.       *)
LEMMA ImageHoldsBuffer ==
    ASSUME Dos25IInv, mounted, formatted
    PROVE  /\ sector360 = Written(bitmap \cap BITS1, free_sec)
           /\ HasVtoc2 => sector1024 = Written(bitmap \cap BITS2, free_sec2)
           /\ bitmap \subseteq Usable
<1>1. sector360.bits = bitmap \cap BITS1 /\ bitmap \subseteq Usable
  BY DEF Dos25IInv, BitsInPlace, BufferInImage, BufferRead, Dos25Inv, CopiesAgree, BITS1, BITS2,
         HasVtoc2, Usable, LastBit
<1>2. HasVtoc2 => sector1024.bits = bitmap \cap BITS2
  BY DEF Dos25IInv, BitsInPlace, BufferInImage, BufferRead, Dos25Inv, CopiesAgree, BITS1, BITS2
<1>3. QED
  BY <1>1, <1>2 DEF Dos25IInv, BufferInImage, Typed, Records, Written

(***************************************************************************)
(* vtoc_write of a buffer with these contents leaves an image of which     *)
(* vtoc_read makes the same buffer.                                        *)
(***************************************************************************)
LEMMA WriteThenRead ==
    ASSUME Typed, NEW bits, NEW low, NEW high,
           bits \subseteq Usable, low \in 0 .. WORD - 1, high \in 0 .. WORD - 1,
           BitsInPlace, UNCHANGED sector_count,
           VtocWrite(bits, low, high)
    PROVE  /\ sector360' \in Records /\ sector1024' \in Records /\ vtoc_dirty' = FALSE
           /\ BitsInPlace' /\ BufferRead' = bits
           /\ sector360'.free = low /\ (HasVtoc2 => sector1024'.free = high)
           /\ sector360'.bits = bits \cap BITS1
           /\ HasVtoc2 => sector1024'.bits = bits \cap BITS2
           /\ HasVtoc2 => sector360'.bits \cap BITS2 = sector1024'.bits \cap BITS1
<1>1. Usable \subseteq 4 .. LastBit /\ Usable \subseteq AllBits /\ LastBit \in {719, 1023}
  BY SectorCountFacts DEF Usable
<1>2. Usable' = Usable /\ HasVtoc2' = HasVtoc2
  BY DEF Usable, LastBit, HasVtoc2
<1>3. /\ sector360' = [bits |-> bits \cap BITS1, free |-> low] /\ vtoc_dirty' = FALSE
      /\ sector1024' = IF HasVtoc2 THEN [bits |-> bits \cap BITS2, free |-> high] ELSE sector1024
  BY DEF VtocWrite, Written
<1>4. sector360' \in Records /\ sector1024' \in Records
  <2> DEFINE S == AllBits  T == BITS1  U == BITS2
  <2>0. bits \subseteq S
    <3>1. Usable \subseteq AllBits
      BY SectorCountFacts, SMTT(30)
    <3>2. QED
      BY <3>1, Zenon
  <2> HIDE DEF S, T, U
  <2>1. bits \cap T \in SUBSET S /\ bits \cap U \in SUBSET S
    BY <2>0
  <2>2. QED
    BY <2>1, <1>3 DEF Records, Typed, S, T, U
<1>5. BitsInPlace'
  BY <1>2, <1>3 DEF BitsInPlace
<1>6. BufferRead' = bits
  <2>1. CASE HasVtoc2
    <3>1. bits \subseteq BITS1 \cup BITS2
      BY <1>1 DEF BITS1, BITS2
    <3>2. QED
      BY <3>1, <2>1, <1>2, <1>3 DEF BufferRead
  <2>2. CASE ~HasVtoc2
    <3>1. bits \subseteq BITS1
      BY <2>2, <1>1 DEF BITS1, LastBit
    <3>2. QED
      BY <3>1, <2>2, <1>2, <1>3 DEF BufferRead
  <2>3. QED
    BY <2>1, <2>2
<1>7. QED
  BY <1>3, <1>4, <1>5, <1>6

-----------------------------------------------------------------------------
LEMMA InitHolds == Init => Dos25IInv
<1> SUFFICES ASSUME Init PROVE Dos25IInv
  OBVIOUS
<1>1. Typed
  <2>1. Written({}, 0) \in Records
    BY DEF Written, Records, WORD
  <2>2. QED
    BY <2>1 DEF Init, Typed
<1>2. Blank
  BY DEF Init, Blank
<1>3. BitsInPlace /\ BufferInImage
  BY DEF Init, BitsInPlace, BufferInImage, BufferRead, Written
<1>4. Dos25Inv
  BY DEF Init, Dos25Inv, CopiesAgree, Dos2ViewExact, HighCountOneLess
<1>5. QED
  BY <1>1, <1>2, <1>3, <1>4 DEF Dos25IInv

(* The parts of the invariant that follow from how a step writes.          *)
LEMMA FormatKeeps ==
    ASSUME Dos25IInv, Format
    PROVE  Dos25IInv'
<1> DEFINE bits == Usable
<1>1. /\ mounted /\ ~formatted /\ formatted' = TRUE
      /\ bitmap' = Usable /\ free_sec' = 707 /\ free_sec2' = IF HasVtoc2 THEN 303 ELSE 0
      /\ VtocWrite(bitmap', free_sec', free_sec2')
      /\ UNCHANGED <<sector_count, mounted, result>>
  BY DEF Format, Usable
<1>2. free_sec' \in 0 .. WORD - 1 /\ free_sec2' \in 0 .. WORD - 1
  BY <1>1 DEF WORD
<1>3. Typed /\ BitsInPlace
  BY DEF Dos25IInv
<1>4. /\ sector360' \in Records /\ sector1024' \in Records /\ vtoc_dirty' = FALSE
      /\ BitsInPlace' /\ BufferRead' = Usable
      /\ sector360'.free = 707 /\ (HasVtoc2 => sector1024'.free = 303)
      /\ sector360'.bits = Usable \cap BITS1
      /\ HasVtoc2 => sector1024'.bits = Usable \cap BITS2
      /\ HasVtoc2 => sector360'.bits \cap BITS2 = sector1024'.bits \cap BITS1
  <2>1. /\ bitmap' \subseteq Usable /\ UNCHANGED sector_count
        /\ VtocWrite(bitmap', free_sec', free_sec2')
    BY <1>1
  <2>2. /\ sector360' \in Records /\ sector1024' \in Records /\ vtoc_dirty' = FALSE
        /\ BitsInPlace' /\ BufferRead' = bitmap'
        /\ sector360'.free = free_sec' /\ (HasVtoc2 => sector1024'.free = free_sec2')
        /\ sector360'.bits = bitmap' \cap BITS1
        /\ HasVtoc2 => sector1024'.bits = bitmap' \cap BITS2
        /\ HasVtoc2 => sector360'.bits \cap BITS2 = sector1024'.bits \cap BITS1
    BY <2>1, <1>2, <1>3, WriteThenRead, Zenon
  <2>3. QED
    BY <2>2, <1>1
<1>5. HasVtoc2' = HasVtoc2
  BY <1>1 DEF HasVtoc2
<1>6. Typed'
  BY <1>1, <1>3, <1>4 DEF Typed
<1>7. Blank' /\ BufferInImage'
  BY <1>1, <1>4, <1>5 DEF Blank, BufferInImage
<1>8. Low(sector360.bits)' = LowBits \ SystemBits
  <2>1. Low(sector360.bits)' = Low(Usable \cap BITS1)
    BY <1>4 DEF Low
  <2>2. \A s : s \in Usable <=> /\ s \in Int /\ 4 <= s /\ s <= LastBit
                               /\ ~(360 <= s /\ s <= 368)
    BY <1>3, SectorCountFacts DEF Usable, DIR_FIRST_SECTOR, DIR_SIZE
  <2>3. \A s : s \in BITS1 <=> s \in Int /\ 0 <= s /\ s <= 943
    <3> DEFINE b == 943
    <3>1. b \in Int /\ b <= 943 /\ 943 <= b
      OBVIOUS
    <3>2. BITS1 = 0 .. b
      BY Zenon DEF BITS1
    <3> HIDE DEF b
    <3>3. QED
      BY <3>1, <3>2
  <2>4. \A s : s \in LowBits \ SystemBits <=> /\ s \in Int /\ 4 <= s /\ s <= 719
                                            /\ ~(360 <= s /\ s <= 368)
    BY DEF LowBits, SystemBits
  <2>5. \A S : \A s : s \in Low(S) <=> s \in S /\ s < 720
    BY DEF Low, LOW_END
  <2>6. LastBit = 719 \/ LastBit = 1023
    BY DEF LastBit
  <2> DEFINE U == Usable \cap BITS1
             L == LowBits \ SystemBits
  <2>7. \A s : s \in Low(U) <=> s \in L
    <3>1. ASSUME NEW s PROVE s \in Low(U) <=> s \in Usable /\ s \in BITS1 /\ s < 720
      BY <2>5
    <3>2. ASSUME NEW s PROVE s \in Low(U) <=> s \in L
      <4> HIDE DEF U, L
      <4>1. QED
        BY <2>2, <2>3, <2>4, <2>6, <3>1 DEF L
    <3>3. QED
      BY <3>2
  <2>8. Low(U) = L
    <3> HIDE DEF U, L
    <3>1. QED
      BY <2>7
  <2>9. QED
    BY <2>1, <2>8
<1>9. ASSUME HasVtoc2
      PROVE  (sector1024.bits \ Low(sector1024.bits))' = HighBits
  <2> DEFINE S == Usable \cap BITS2
  <2>1. sector1024'.bits = S
    BY <1>4, <1>9
  <2>2. \A s : s \in Usable <=> /\ s \in Int /\ 4 <= s /\ s <= 1023
                               /\ ~(360 <= s /\ s <= 368)
    <3>1. LastBit = 1023
      BY <1>9 DEF LastBit
    <3> DEFINE b == LastBit
    <3>2. b \in Int /\ b <= 1023 /\ 1023 <= b
      BY <3>1
    <3> HIDE DEF b
    <3>3. QED
      BY <3>2 DEF Usable, DIR_FIRST_SECTOR, DIR_SIZE, b
  <2>3. \A s : s \in BITS2 <=> s \in Int /\ 48 <= s /\ s <= 1023
    <3> DEFINE b == 1023
    <3>1. b \in Int /\ b <= 1023 /\ 1023 <= b
      OBVIOUS
    <3>2. BITS2 = 48 .. b
      BY Zenon DEF BITS2
    <3> HIDE DEF b
    <3>3. QED
      BY <3>1, <3>2
  <2>4. \A s : s \in HighBits <=> s \in Int /\ 720 <= s /\ s <= 1023
    BY DEF HighBits
  <2>5. \A s : s \in S \ Low(S) <=> s \in Usable /\ s \in BITS2 /\ ~(s < 720)
    BY DEF Low, LOW_END
  <2> HIDE DEF S
  <2>6. ASSUME NEW s PROVE s \in S \ Low(S) <=> s \in HighBits
    BY <2>2, <2>3, <2>4, <2>5
  <2>7. S \ Low(S) = HighBits
    <3> DEFINE T == S \ Low(S)
    <3>1. \A s : s \in T <=> s \in HighBits
      BY <2>6
    <3> HIDE DEF T
    <3>2. T = HighBits
      BY <3>1
    <3>3. QED
      BY <3>2 DEF T
  <2>8. (sector1024.bits \ Low(sector1024.bits))' = S \ Low(S)
    BY <2>1 DEF Low
  <2>9. QED
    BY <2>7, <2>8
<1>10. Dos25Inv'
  <2>1. CopiesAgree'
    BY <1>4, <1>5 DEF CopiesAgree
  <2>2. Dos2ViewExact'
    BY <1>4, <1>8, FreshLowCount DEF Dos2ViewExact
  <2>3. HighCountOneLess'
    <3>1. ASSUME HasVtoc2
          PROVE  Cardinality((sector1024.bits \ Low(sector1024.bits))') = 304
      BY <3>1, <1>9, IntervalCounts
    <3>2. (304 - 1) % WORD = 303
      BY DEF WORD
    <3>3. QED
      BY <3>1, <3>2, <1>4, <1>5 DEF HighCountOneLess
  <2>4. QED
    BY <2>1, <2>2, <2>3 DEF Dos25Inv
<1>11. QED
  BY <1>4, <1>6, <1>7, <1>10 DEF Dos25IInv

(* Words.                                                                  *)
LEMMA WordNat == WORD \in Nat \ {0}
BY DEF WORD

LEMMA WordFacts ==
    /\ \A k \in Int : k % WORD \in 0 .. WORD - 1
    /\ \A k \in Int : 0 <= k /\ k <= WORD - 1 => k % WORD = k
<1>1. WORD \in Nat \ {0}
  BY DEF WORD
<1>2. QED
  BY <1>1, ModOfInt, Zenon

(* A count of a word, one lower.                                           *)
LEMMA OneLessFacts ==
    ASSUME NEW n \in 0 .. WORD - 1
    PROVE  /\ OneLess(n) \in 0 .. WORD - 1
           /\ n > 0 => OneLess(n) = n - 1
<1>0. WORD \in Nat
  BY WordNat
<1>1. n - 1 \in Int /\ (n > 0 => 0 <= n - 1 /\ n - 1 <= WORD - 1)
  BY <1>0
<1>2. OneLess(n) \in 0 .. WORD - 1
  BY <1>1, WordFacts DEF OneLess
<1>3. ASSUME n > 0 PROVE OneLess(n) = n - 1
  BY <1>1, <1>3, WordFacts DEF OneLess
<1>4. QED
  BY <1>2, <1>3

(* The count of sector 1024 stays one too low, also when it wraps.         *)
LEMMA OneLessWraps ==
    ASSUME NEW c \in Nat, c > 0
    PROVE  OneLess((c - 1) % WORD) = ((c - 1) - 1) % WORD
BY DEF OneLess, WORD

LEMMA AllocKeeps ==
    ASSUME Dos25IInv, AllocSector
    PROVE  Dos25IInv'
<1>1. PICK s \in bitmap :
        /\ bitmap' = bitmap \ {s}
        /\ free_sec' = IF s < LOW_END \/ ~HasVtoc2 THEN OneLess(free_sec) ELSE free_sec
        /\ free_sec2' = IF s < LOW_END \/ ~HasVtoc2 THEN free_sec2 ELSE OneLess(free_sec2)
        /\ VtocWrite(bitmap', free_sec', free_sec2')
        /\ result' = s
  BY DEF AllocSector
<1>2. mounted /\ formatted /\ UNCHANGED <<sector_count, formatted, mounted>>
  BY DEF AllocSector
<1>3. HasVtoc2' = HasVtoc2
  BY <1>2 DEF HasVtoc2
<1>4. /\ sector360 = Written(bitmap \cap BITS1, free_sec)
      /\ HasVtoc2 => sector1024 = Written(bitmap \cap BITS2, free_sec2)
      /\ bitmap \subseteq Usable
  BY <1>2, ImageHoldsBuffer
<1>5. Typed /\ BitsInPlace
  BY DEF Dos25IInv
<1>6. s \in Int /\ s \in AllBits /\ bitmap \subseteq AllBits /\ (~HasVtoc2 => s < LOW_END)
  BY <1>1, <1>4, <1>5, SectorCountFacts DEF AllBits, Usable, LastBit, LOW_END
<1>7. free_sec \in 0 .. WORD - 1 /\ free_sec2 \in 0 .. WORD - 1
  <2>1. free_sec = sector360.free /\ (free_sec2 = sector1024.free \/ free_sec2 = 0)
    BY <1>2 DEF Dos25IInv, BufferInImage
  <2>2. sector360.free \in 0 .. WORD - 1 /\ sector1024.free \in 0 .. WORD - 1
    BY <1>5 DEF Typed, Records
  <2>3. 0 \in 0 .. WORD - 1
    BY DEF WORD
  <2>4. QED
    BY <2>1, <2>2, <2>3
<1>8. free_sec' \in 0 .. WORD - 1 /\ free_sec2' \in 0 .. WORD - 1
  BY <1>1, <1>7, OneLessFacts
<1>9. /\ sector360' \in Records /\ sector1024' \in Records /\ vtoc_dirty' = FALSE
      /\ BitsInPlace' /\ BufferRead' = bitmap'
      /\ sector360'.free = free_sec' /\ (HasVtoc2 => sector1024'.free = free_sec2')
      /\ sector360'.bits = bitmap' \cap BITS1
      /\ HasVtoc2 => sector1024'.bits = bitmap' \cap BITS2
      /\ HasVtoc2 => sector360'.bits \cap BITS2 = sector1024'.bits \cap BITS1
  <2>1. bitmap' \subseteq Usable /\ UNCHANGED sector_count
    BY <1>1, <1>2, <1>4
  <2>2. QED
    BY <2>1, <1>1, <1>5, <1>8, WriteThenRead, Zenon
<1>10. Typed'
  <2>1. result' \in 1 .. WORD - 1
    <3>1. s >= 4 /\ s <= 1023
      BY <1>6 DEF AllBits
    <3>2. WORD \in Int /\ WORD - 1 >= 1023
      BY DEF WORD
    <3>3. QED
      BY <1>1, <1>6, <3>1, <3>2
  <2>2. QED
    BY <2>1, <1>2, <1>5, <1>9 DEF Typed
<1>11. Blank' /\ BufferInImage'
  <2>1. ~HasVtoc2 => free_sec2' = 0
    <3>1. ~HasVtoc2 => free_sec2 = 0
      BY <1>2 DEF Dos25IInv, BufferInImage
    <3>2. QED
      BY <3>1, <1>1
  <2>2. QED
    BY <2>1, <1>2, <1>3, <1>9 DEF Blank, BufferInImage
<1>12. Dos2ViewExact'
  <2> DEFINE low == Low(sector360.bits)
  <2>1. /\ low \subseteq AllBits
        /\ Low(sector360.bits)' = IF s < LOW_END THEN low \ {s} ELSE low
        /\ s < LOW_END => s \in low
    <3>1. sector360.bits = bitmap \cap BITS1 /\ sector360'.bits = (bitmap \ {s}) \cap BITS1
      BY <1>1, <1>4, <1>9 DEF Written
    <3>2. s < LOW_END => s \in BITS1
      <4>1. s >= 4
        BY <1>6 DEF AllBits
      <4>2. QED
        BY <1>6, <4>1 DEF BITS1, LOW_END
    <3> DEFINE S == AllBits
               T == BITS1
               L(x) == {t \in x : t < LOW_END}
    <3>3. low = L(bitmap \cap T) /\ Low(sector360.bits)' = L((bitmap \ {s}) \cap T)
      BY <3>1 DEF Low
    <3>4. bitmap \subseteq S /\ s \in bitmap /\ (s < LOW_END => s \in T)
      BY <1>1, <1>6, <3>2
    <3> HIDE DEF S, T, low
    <3>5. low \subseteq S
      BY <3>3, <3>4
    <3>6. L((bitmap \ {s}) \cap T) = IF s < LOW_END THEN low \ {s} ELSE low
      BY <3>3
    <3>7. s < LOW_END => s \in low
      BY <3>3, <3>4
    <3>8. QED
      BY <3>3, <3>5, <3>6, <3>7 DEF S
  <2>2. free_sec = Cardinality(low)
    BY <1>2, <1>4 DEF Dos25IInv, Dos25Inv, Dos2ViewExact, Written
  <2> HIDE DEF low
  <2>3. CASE s < LOW_END
    <3>1. Cardinality(low) > 0 /\ Cardinality(low \ {s}) = Cardinality(low) - 1
      BY <2>1, <2>3, OneTaken, Zenon
    <3>2. free_sec' = free_sec - 1
      BY <3>1, <2>2, <2>3, <1>1, <1>7, OneLessFacts
    <3>3. Low(sector360.bits)' = low \ {s}
      BY <2>1, <2>3
    <3>4. free_sec' = Cardinality(low \ {s})
      BY <3>1, <3>2, <2>2
    <3>5. QED
      BY <3>3, <3>4, <1>9, Zenon DEF Dos2ViewExact
  <2>4. CASE ~(s < LOW_END)
    <3>1. free_sec' = free_sec
      BY <2>4, <1>1, <1>6
    <3>2. Low(sector360.bits)' = low
      BY <2>1, <2>4
    <3>3. QED
      BY <3>1, <3>2, <2>2, <1>9 DEF Dos2ViewExact
  <2>5. QED
    BY <2>3, <2>4
<1>13. HighCountOneLess'
  <2> SUFFICES ASSUME HasVtoc2
               PROVE  sector1024'.free =
                        (Cardinality(sector1024'.bits \ Low(sector1024'.bits)) - 1) % WORD
    BY <1>3 DEF HighCountOneLess, Low
  <2> DEFINE high == sector1024.bits \ Low(sector1024.bits)
  <2>1. /\ high \subseteq AllBits
        /\ sector1024'.bits \ Low(sector1024'.bits) = IF s < LOW_END THEN high ELSE high \ {s}
        /\ ~(s < LOW_END) => s \in high
    BY <1>1, <1>4, <1>6, <1>9 DEF Low, Written, BITS2, LOW_END, AllBits
  <2>2. free_sec2 = (Cardinality(high) - 1) % WORD
    BY <1>2, <1>4 DEF Dos25IInv, Dos25Inv, HighCountOneLess, Written
  <2>3. sector1024'.free = free_sec2'
    BY <1>9
  <2> HIDE DEF high
  <2>4. CASE s < LOW_END
    <3>1. free_sec2' = free_sec2
      BY <2>4, <1>1
    <3>2. sector1024'.bits \ Low(sector1024'.bits) = high
      BY <2>1, <2>4
    <3>3. QED
      BY <3>1, <3>2, <2>2, <2>3
  <2>5. CASE ~(s < LOW_END)
    <3>1. /\ Cardinality(high) \in Nat /\ Cardinality(high) > 0
          /\ Cardinality(high \ {s}) = Cardinality(high) - 1
      BY <2>1, <2>5, OneTaken, Zenon
    <3>2. free_sec2' = OneLess(free_sec2)
      BY <2>5, <1>1
    <3>3. free_sec2' = ((Cardinality(high) - 1) - 1) % WORD
      BY <3>1, <3>2, <2>2, OneLessWraps
    <3>4. sector1024'.bits \ Low(sector1024'.bits) = high \ {s}
      BY <2>1, <2>5
    <3>5. free_sec2' = (Cardinality(high \ {s}) - 1) % WORD
      BY <3>1, <3>3
    <3>6. QED
      BY <3>4, <3>5, <2>3, Zenon
  <2>6. QED
    BY <2>4, <2>5
<1>14. CopiesAgree'
  BY <1>3, <1>9 DEF CopiesAgree
<1>15. QED
  BY <1>9, <1>10, <1>11, <1>12, <1>13, <1>14 DEF Dos25IInv, Dos25Inv

LEMMA FullKeeps ==
    ASSUME Dos25IInv, DiskFull
    PROVE  Dos25IInv'
<1>1. /\ UNCHANGED <<sector_count, formatted, mounted, bitmap, free_sec, free_sec2,
                     vtoc_dirty, sector360, sector1024>>
      /\ result' = Full /\ formatted
  BY DEF DiskFull, buffer, image
<1>2. HasVtoc2' = HasVtoc2 /\ Usable' = Usable
  BY <1>1 DEF HasVtoc2, Usable, LastBit
<1>3. Typed' /\ Blank' /\ BitsInPlace' /\ BufferInImage'
  BY <1>1, <1>2 DEF Dos25IInv, Typed, Blank, BitsInPlace, BufferInImage, BufferRead
<1>4. Dos25Inv'
  BY <1>1, <1>2 DEF Dos25IInv, Dos25Inv, CopiesAgree, Dos2ViewExact, HighCountOneLess, Low
<1>5. QED
  BY <1>3, <1>4 DEF Dos25IInv

(* An object made or gone: the image, and all said of it, stays.           *)
LEMMA ImageKept ==
    ASSUME Dos25IInv, formatted, UNCHANGED <<sector_count, formatted, image, result>>,
           vtoc_dirty' = FALSE, mounted' \in BOOLEAN
    PROVE  /\ Typed' /\ Blank' /\ BitsInPlace' /\ Dos25Inv'
           /\ HasVtoc2' = HasVtoc2 /\ BufferRead' = BufferRead
<1>1. UNCHANGED <<sector360, sector1024>>
  BY DEF image
<1>2. HasVtoc2' = HasVtoc2 /\ Usable' = Usable
  BY DEF HasVtoc2, Usable, LastBit
<1>3. Typed' /\ Blank' /\ BitsInPlace' /\ BufferRead' = BufferRead
  BY <1>1, <1>2 DEF Dos25IInv, Typed, Blank, BitsInPlace, BufferRead
<1>4. Dos25Inv'
  BY <1>1, <1>2 DEF Dos25IInv, Dos25Inv, CopiesAgree, Dos2ViewExact, HighCountOneLess, Low
<1>5. QED
  BY <1>2, <1>3, <1>4

LEMMA UnmountKeeps ==
    ASSUME Dos25IInv, Unmount
    PROVE  Dos25IInv' /\ UNCHANGED image
<1>1. vtoc_dirty = FALSE
  BY DEF Dos25IInv, Typed
<1>2. /\ formatted /\ UNCHANGED <<sector_count, formatted, image, result>>
      /\ vtoc_dirty' = FALSE /\ mounted' = FALSE
      /\ bitmap' = {} /\ free_sec' = 0 /\ free_sec2' = 0
  BY <1>1 DEF Unmount
<1>3. Typed' /\ Blank' /\ BitsInPlace' /\ Dos25Inv'
  BY <1>2, ImageKept
<1>4. BufferInImage'
  BY <1>2 DEF BufferInImage
<1>5. QED
  BY <1>2, <1>3, <1>4 DEF Dos25IInv

LEMMA MountKeeps ==
    ASSUME Dos25IInv, Mount
    PROVE  Dos25IInv'
<1>1. formatted
  BY DEF Dos25IInv, Blank, Mount
<1>2. /\ UNCHANGED <<sector_count, formatted, image, result>>
      /\ vtoc_dirty' = FALSE /\ mounted' = TRUE
      /\ bitmap' = BufferRead /\ free_sec' = sector360.free
      /\ free_sec2' = IF HasVtoc2 THEN sector1024.free ELSE 0
  BY DEF Mount
<1>3. /\ Typed' /\ Blank' /\ BitsInPlace' /\ Dos25Inv'
      /\ HasVtoc2' = HasVtoc2 /\ BufferRead' = BufferRead
  BY <1>1, <1>2, ImageKept
<1>4. BufferInImage'
  BY <1>2, <1>3 DEF BufferInImage, image
<1>5. QED
  BY <1>3, <1>4 DEF Dos25IInv

LEMMA StepKeeps == Dos25IInv /\ [Next]_vars => Dos25IInv'
<1> SUFFICES ASSUME Dos25IInv, [Next]_vars PROVE Dos25IInv'
  OBVIOUS
<1>1. CASE Format
  BY <1>1, FormatKeeps
<1>2. CASE AllocSector
  BY <1>2, AllocKeeps
<1>3. CASE DiskFull
  BY <1>3, FullKeeps
<1>4. CASE Unmount
  BY <1>4, UnmountKeeps
<1>5. CASE Mount
  BY <1>5, MountKeeps
<1>6. CASE UNCHANGED vars
  BY <1>6 DEF vars, buffer, image, Dos25IInv, Typed, Blank, BitsInPlace, BufferInImage,
              BufferRead, HasVtoc2, Usable, LastBit, Dos25Inv, CopiesAgree, Dos2ViewExact,
              HighCountOneLess, Low
<1>7. QED
  BY <1>1, <1>2, <1>3, <1>4, <1>5, <1>6 DEF Next

LEMMA IInvTypeOK == Dos25IInv => TypeOK
<1> SUFFICES ASSUME Dos25IInv PROVE TypeOK
  OBVIOUS
<1>1. Typed
  BY DEF Dos25IInv
<1>2. bitmap \subseteq 4 .. LastBit
  <2>1. CASE mounted /\ formatted
    BY <2>1, ImageHoldsBuffer DEF Usable
  <2>2. CASE ~(mounted /\ formatted)
    BY <2>2 DEF Dos25IInv, Blank, BufferInImage
  <2>3. QED
    BY <2>1, <2>2
<1>3. free_sec \in 0 .. WORD - 1 /\ free_sec2 \in 0 .. WORD - 1
  <2>1. free_sec \in {0, sector360.free} /\ free_sec2 \in {0, sector1024.free}
    BY DEF Dos25IInv, BufferInImage
  <2>2. sector360.free \in 0 .. WORD - 1 /\ sector1024.free \in 0 .. WORD - 1
    BY <1>1 DEF Typed, Records
  <2>3. 0 \in 0 .. WORD - 1
    BY DEF WORD
  <2>4. QED
    BY <2>1, <2>2, <2>3
<1>4. \A v \in Records :
        DOMAIN v = {"bits", "free"} /\ v.bits \subseteq 4 .. 1023 /\ v.free \in 0 .. WORD - 1
  BY DEF Records, AllBits
<1>5. \A v \in {sector360, sector1024} : v \in Records
  BY <1>1 DEF Typed
<1>6. \A v \in {sector360, sector1024} :
        DOMAIN v = {"bits", "free"} /\ v.bits \subseteq 4 .. 1023 /\ v.free \in 0 .. WORD - 1
  BY <1>4, <1>5
<1>7. QED
  BY <1>1, <1>2, <1>3, <1>6 DEF Typed, TypeOK

(***************************************************************************)
(* The variables of a dos25 object and the two sectors of the image have   *)
(* their types: no count leaves its word, no bit leaves the table.         *)
(***************************************************************************)
THEOREM Dos25TypeOK == Spec => []TypeOK
<1>1. Init => Dos25IInv
  BY InitHolds
<1>2. Dos25IInv /\ [Next]_vars => Dos25IInv'
  BY StepKeeps
<1>3. Dos25IInv => TypeOK
  BY IInvTypeOK
<1>4. QED
  BY <1>1, <1>2, <1>3, PTL DEF Spec

(***************************************************************************)
(* Whatever is allocated and however often the disk is mounted again: the  *)
(* two sectors agree where they overlap, DOS 2 finds a correct count, and  *)
(* the count of the second sector is one too low.                          *)
(***************************************************************************)
THEOREM Dos25VtocCorrect == Spec => []Dos25Inv
<1>1. Init => Dos25IInv
  BY InitHolds
<1>2. Dos25IInv /\ [Next]_vars => Dos25IInv'
  BY StepKeeps
<1>3. Dos25IInv => Dos25Inv
  BY DEF Dos25IInv
<1>4. QED
  BY <1>1, <1>2, <1>3, PTL DEF Spec

-----------------------------------------------------------------------------
(* The map a program finds, in states of the program.                      *)
LEMMA MapFacts ==
    ASSUME Dos25IInv
    PROVE  formatted => Map = BufferRead
BY DEF Dos25IInv, BufferInImage, Map

LEMMA StepRefines ==
    Dos25IInv /\ Dos25IInv' /\ [Next]_vars
        => [Allocator!AllocatorNext]_(Allocator!allocatorVars)
<1> SUFFICES ASSUME Dos25IInv, Dos25IInv', [Next]_vars
             PROVE  \/ Allocator!AllocatorNext
                    \/ UNCHANGED <<Usable, formatted, IF formatted THEN Map ELSE {}, result>>
  BY DEF Allocator!allocatorVars, Usable
<1>0. sector_count' = sector_count /\ Usable' = Usable
  BY DEF Next, Format, AllocSector, DiskFull, Unmount, Mount, vars, Usable, LastBit, HasVtoc2
<1>1. CASE Format
  <2>1. Map' = Usable /\ formatted' /\ ~formatted
    BY <1>1 DEF Format, Map, Usable
  <2>2. Allocator!AllocatorFormat
    BY <1>0, <1>1, <2>1 DEF Format, Allocator!AllocatorFormat, Usable
  <2>3. QED
    BY <2>2 DEF Allocator!AllocatorNext
<1>2. CASE AllocSector
  <2>1. PICK s \in bitmap : bitmap' = bitmap \ {s} /\ result' = s
    BY <1>2 DEF AllocSector
  <2>2. formatted /\ formatted' /\ Map = bitmap /\ Map' = bitmap'
    BY <1>2 DEF AllocSector, Map
  <2>3. Allocator!GrantSector
    BY <1>0, <2>1, <2>2 DEF Allocator!GrantSector, Usable
  <2>4. QED
    BY <2>3 DEF Allocator!AllocatorNext
<1>3. CASE DiskFull
  <2>1. /\ formatted /\ formatted' /\ Map = {} /\ Map' = {} /\ result' = Full
    BY <1>3 DEF DiskFull, Map, buffer
  <2>2. Allocator!RefuseSector
    BY <1>0, <2>1 DEF Allocator!RefuseSector, Usable
  <2>3. QED
    BY <2>2 DEF Allocator!AllocatorNext
<1>4. CASE Unmount
  <2>1. UNCHANGED image
    BY <1>4, UnmountKeeps
  <2>2. formatted /\ formatted' /\ result' = result
    BY <1>4 DEF Unmount
  <2>3. Map = BufferRead /\ Map' = BufferRead' /\ BufferRead' = BufferRead
    BY <1>0, <2>1, <2>2 DEF Dos25IInv, BufferInImage, Map, BufferRead, HasVtoc2, image
  <2>4. QED
    BY <1>0, <2>2, <2>3
<1>5. CASE Mount
  <2>1. UNCHANGED image /\ formatted' = formatted /\ result' = result
    BY <1>5 DEF Mount
  <2>2. formatted
    BY <1>5 DEF Mount, Dos25IInv, Blank
  <2>3. Map = BufferRead /\ Map' = BufferRead' /\ BufferRead' = BufferRead
    BY <1>0, <2>1, <2>2 DEF Dos25IInv, BufferInImage, Map, BufferRead, HasVtoc2, image
  <2>4. QED
    BY <1>0, <2>1, <2>2, <2>3
<1>6. CASE UNCHANGED vars
  BY <1>6, <1>0 DEF vars, buffer, image, Map, BufferRead, HasVtoc2
<1>7. QED
  BY <1>1, <1>2, <1>3, <1>4, <1>5, <1>6 DEF Next

(***************************************************************************)
(* The table of contents of DOS 2.5 is a sector allocator, across any      *)
(* number of objects made and destroyed: a sector is handed out once,      *)
(* "disk full" is said when none is left, and nothing is forgotten.        *)
(***************************************************************************)
THEOREM Dos25RefinesAllocator == Spec => RefinesAllocator
<1>1. Init => Dos25IInv
  BY InitHolds
<1>2. Dos25IInv /\ [Next]_vars => Dos25IInv'
  BY StepKeeps
<1>3. Init => Allocator!AllocatorInit
  BY DEF Init, Allocator!AllocatorInit
<1>4. Dos25IInv /\ Dos25IInv' /\ [Next]_vars
        => [Allocator!AllocatorNext]_(Allocator!allocatorVars)
  BY StepRefines
<1>5. QED
  BY <1>1, <1>2, <1>3, <1>4, PTL DEF Spec, RefinesAllocator, Allocator!AllocatorSpec

=============================================================================
