\* Three slots and four cached sectors, one of them a short boot sector, and a
\* sector that is only reached raw.
SPECIFICATION Spec
CONSTANTS
    NoSector = NoSector
    Sector = {s1, s4, s5, s6, s8}
    Boot = {s1}
    Offset = {0}
    BootOffset = {0}
    Byte = {0, 1}
    Zero = 0
    cache_size = 3
    CacheRead = {s1, s4, s5, s6}
    CacheWritten = {s1, s4, s5, s6}
    RawRead = {s8}
    RawWritten = {s8}
SYMMETRY Symmetry
INVARIANTS TypeOK CacheInv RingIsOneCycle
PROPERTIES SaveWritesContent RefinesStore
