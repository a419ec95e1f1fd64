------------------------------- MODULE FastCDC -------------------------------
(***************************************************************************)
(* Where the chunkers of src/src/fastcdc.cpp cut.  A chunker gets the data *)
(* from the beginning of a chunk on and n, the number of bytes there are,  *)
(* and returns the length of the chunk.  The gear table and the masks are  *)
(* parameters: a mask is the set of fingerprints it lets through.          *)
(***************************************************************************)
EXTENDS Integers, Sequences

CONSTANTS
    Gear,      \* GEARv2: a number for each byte
    FpMod,     \* the number of fingerprints, 2^64 (a power of two for TLC)
    Factor,    \* 4: the shortest chunk is 1/4, the longest 4 times the average
    FrontPass, BackPass,   \* Mask_front and Mask_back of the levels 1 to 3
    Pass8KB    \* FING_GEAR_08KB_64

ASSUME GearAssumption ==
    /\ FpMod \in Nat \ {0} /\ Factor \in Nat \ {0}
    /\ \A b \in DOMAIN Gear : Gear[b] \in 0..(FpMod - 1)
    /\ FrontPass \in [1..3 -> SUBSET (0..(FpMod - 1))]
    /\ BackPass \in [1..3 -> SUBSET (0..(FpMod - 1))]
    /\ Pass8KB \subseteq 0..(FpMod - 1)

\* fastCDC_init; the masks are left alone when the level is not 1, 2 or 3, and
\* a mask that was never set is zero and lets every fingerprint through.
fastCDC_init(fas, NC_level) ==
    [MinSize |-> fas \div Factor, MaxSize |-> fas * Factor,
     Mask_front |-> IF NC_level \in 1..3 THEN FrontPass[NC_level] ELSE 0..(FpMod - 1),
     Mask_back |-> IF NC_level \in 1..3 THEN BackPass[NC_level] ELSE 0..(FpMod - 1)]

\* GEARv2[p[i]]
GEARv2(p, i) == Gear[p[i + 1]]

\* The rolling fingerprint at each position from the first one judged on.
Fingerprint(p, first, n) ==
    LET fp[i \in first..(n - 1)] ==
          (2 * (IF i = first THEN 0 ELSE fp[i - 1]) + GEARv2(p, i)) % FpMod
    IN  fp

\* The first of the positions, or n when there is none.
FirstOf(positions, n) ==
    IF positions = {} THEN n
    ELSE CHOOSE i \in positions : \A j \in positions : i <= j

Capped(n, max) == IF n > max THEN max ELSE n

\* fastcdc_avg_size after a call: data that is shorter than the average, but
\* not than the shortest chunk, becomes the average of this and later calls.
LoweredAvg(n, gear, avg) ==
    IF gear.MinSize < n /\ n <= gear.MaxSize /\ n <= avg THEN n ELSE avg

\* Mutant: the data is not cut off at MaxSize.
FastCDC_with_NC_Uncapped(p, n, gear, avg) ==
    LET middle == LoweredAvg(n, gear, avg)
        fp == Fingerprint(p, gear.MinSize, n)
    IN  IF n <= gear.MinSize THEN n
        ELSE FirstOf({i \in gear.MinSize..(middle - 1) : fp[i] \in gear.Mask_front}
                     \cup {i \in gear.MinSize..(n - 1) :
                             i >= middle /\ fp[i] \in gear.Mask_back}, n)

\* Normalised chunking: a mask that passes less before the average, one that
\* passes more behind it.
FastCDC_with_NC(p, n, gear, avg) ==
    LET m == Capped(n, gear.MaxSize)
        middle == LoweredAvg(n, gear, avg)
        fp == Fingerprint(p, gear.MinSize, m)
    IN  IF n <= gear.MinSize THEN n
        ELSE FirstOf({i \in gear.MinSize..(middle - 1) : fp[i] \in gear.Mask_front}
                     \cup {i \in gear.MinSize..(m - 1) :
                             i >= middle /\ fp[i] \in gear.Mask_back}, m)

\* Mutant: the judgement begins with the first byte.
FastCDC_without_NC_NoSkip(p, n, gear) ==
    LET m == Capped(n, gear.MaxSize)
        fp == Fingerprint(p, 0, m)
    IN  FirstOf({i \in 0..(m - 1) : fp[i] \in Pass8KB}, m)

\* One mask from MinSize to the end.
FastCDC_without_NC(p, n, gear) ==
    LET m == Capped(n, gear.MaxSize)
        fp == Fingerprint(p, gear.MinSize, m)
    IN  IF n <= gear.MinSize THEN n
        ELSE FirstOf({i \in gear.MinSize..(m - 1) : fp[i] \in Pass8KB}, m)

\* FSC_512, FSC_4, FSC_8 and FSC_16
FSC(n, size) == Capped(n, size)
=============================================================================
