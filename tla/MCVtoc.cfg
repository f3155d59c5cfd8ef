\* Real sizes: a run fills the whole disk.  Regular disks, and one of every
\* kind that is not.
SPECIFICATION Spec
CONSTANTS
    Disks <- AllDisks
    None = None
    Full = Full
    MaxDataAllocs = 2
INVARIANTS TypeOK VtocInv
PROPERTIES RefinesAllocator
