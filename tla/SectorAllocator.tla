--------------------------- MODULE SectorAllocator ---------------------------
(***************************************************************************)
(* What the free-sector maps of the file systems promise: formatting makes *)
(* all usable sectors free, every sector handed out was free, and "disk    *)
(* full" is said only when nothing fits.  Vtoc and Dos25Vtoc show that the *)
(* bitmaps of the code keep it.                                            *)
(***************************************************************************)
EXTENDS Integers

CONSTANTS
    None,       \* nothing was asked for yet
    Full,       \* "disk full"
    RunLength   \* length of a run of sectors: that of a directory

VARIABLES
    usable,     \* the sectors files and directories may get
    formatted,
    free,       \* those they have not got yet
    result      \* what the last request returned: a sector or Full

allocatorVars == <<usable, formatted, free, result>>

RunAt(s) == s .. s + RunLength - 1

AllocatorInit ==
    /\ formatted = FALSE
    /\ free = {}
    /\ result = None

AllocatorFormat ==
    /\ ~formatted
    /\ formatted' = TRUE
    /\ free' = usable
    /\ UNCHANGED <<usable, result>>

GrantSector ==
    /\ formatted
    /\ result' \in free
    /\ free' = free \ {result'}
    /\ UNCHANGED <<usable, formatted>>

GrantRun ==
    /\ formatted
    /\ result' \in free
    /\ RunAt(result') \subseteq free
    /\ free' = free \ RunAt(result')
    /\ UNCHANGED <<usable, formatted>>

RefuseSector ==
    /\ formatted
    /\ free = {}
    /\ result' = Full
    /\ UNCHANGED <<usable, formatted, free>>

RefuseRun ==
    /\ formatted
    /\ \A s \in free : ~(RunAt(s) \subseteq free)
    /\ result' = Full
    /\ UNCHANGED <<usable, formatted, free>>

AllocatorNext ==
    AllocatorFormat \/ GrantSector \/ GrantRun \/ RefuseSector \/ RefuseRun

AllocatorSpec == AllocatorInit /\ [][AllocatorNext]_allocatorVars

=============================================================================
