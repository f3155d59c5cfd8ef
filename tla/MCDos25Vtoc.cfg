\* Single and enhanced density in real sizes: a run fills the disk.
SPECIFICATION Spec
CONSTANTS
    Sizes = {720, 1040}
    None = None
    Full = Full
INVARIANTS TypeOK Dos25Inv
PROPERTIES RefinesAllocator
