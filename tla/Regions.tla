------------------------------ MODULE Regions ------------------------------
(***************************************************************************)
(* The arithmetic of memory regions of the init server,                    *)
(* servers/init_server/src/region.rs.  A MemoryRegion is a pair of         *)
(* addresses of which the second is exclusive; as an end, 0 stands for     *)
(* the end of memory, so that (0, 0) is all of memory.  A RegionSet is a   *)
(* sequence of regions: its methods keep the order and so do these         *)
(* operators.  Methods of RegionSet have the prefix set_.                  *)
(***************************************************************************)
EXTENDS Integers, SequencesExt

CONSTANT Top       \* the number of addresses: 2^32 for the type usize

ASSUME TopAssumption == Top \in Nat \ {0}

Addresses == 0..Top-1

MemoryRegions == [start: Addresses, end: Addresses]

memory_start == 0

memory_end == 0

new(start, end) ==
    [start |-> start, end |-> IF end < start /\ end # memory_end THEN start ELSE end]

full_region == new(memory_start, memory_end)

is_full_region(r) == r = full_region

\* Result::Ok(length); only full_region has none.
length(r) == IF r.end = memory_end THEN Top - r.start ELSE r.end - r.start

is_adjacent(r, other) ==
    /\ r.end = other.start \/ other.end = r.start
    /\ ~is_full_region(r) /\ ~is_full_region(other)

StartsWithin(r, other) ==
    r.start >= other.start /\ (r.start < other.end \/ other.end = memory_end)

\* Mutant: a region that starts before the other one is taken to end before it.
overlaps_OneSided(r, other) ==
    \/ is_full_region(r) \/ is_full_region(other)
    \/ StartsWithin(other, r)

overlaps(r, other) ==
    \/ is_full_region(r) \/ is_full_region(other)
    \/ StartsWithin(other, r) \/ StartsWithin(r, other)

contains(r, address) ==
    address >= r.start /\ (address < r.end \/ r.end = memory_end)

\* What region.rs allows to be joined into one region.
Touches(r, other) == overlaps(r, other) \/ is_adjacent(r, other)

union(r, other) ==
    IF Touches(r, other)
    THEN << new(IF r.start < other.start THEN r.start ELSE other.start,
                IF memory_end \in {r.end, other.end} THEN memory_end
                ELSE IF r.end > other.end THEN r.end ELSE other.end) >>
    ELSE <<r, other>>

\* join().unwrap(): its callers have checked Touches, or the value is None.
join(r, other) ==
    LET regions == union(r, other)
    IN IF Len(regions) = 1 THEN regions[1] ELSE "None"

complement(r) ==
    (IF r.start # memory_start THEN <<new(memory_start, r.start)>> ELSE <<>>)
    \o (IF r.end # memory_end THEN <<new(r.end, memory_end)>> ELSE <<>>)

intersection(r, other) ==
    IF overlaps(r, other)
    THEN << new(IF r.start > other.start THEN r.start ELSE other.start,
                IF r.end = memory_end THEN other.end
                ELSE IF other.end = memory_end THEN r.end
                ELSE IF r.end < other.end THEN r.end ELSE other.end) >>
    ELSE <<>>

difference(r, other) ==
    FlattenSeq([i \in DOMAIN complement(other) |-> intersection(r, complement(other)[i])])

set_intersection(set, other) ==
    FlattenSeq([i \in DOMAIN set |->
        FlattenSeq([j \in DOMAIN other |-> intersection(set[i], other[j])])])

\* Every region of the set takes in the regions of the other one that touch it
\* and that no earlier region has taken.
set_union(set, other) ==
    LET Absorb(acc, region) ==
            [done |-> Append(acc.done,
                             FoldLeft(join, region,
                                      SelectSeq(acc.rest, LAMBDA o : Touches(region, o)))),
             rest |-> SelectSeq(acc.rest, LAMBDA o : ~Touches(region, o))]
        result == FoldLeft(Absorb, [done |-> <<>>, rest |-> other], set)
    IN result.done \o result.rest

set_complement(set) ==
    FoldLeft(set_intersection, <<full_region>>,
             [i \in DOMAIN set |-> complement(set[i])])

\* RegionSet::insert(): the regions that touch the new one are joined with it.
set_insert(set, region) ==
    Append(SelectSeq(set, LAMBDA o : ~Touches(region, o)),
           FoldLeft(join, region, SelectSeq(set, LAMBDA o : Touches(region, o))))

\* The order of regions (and of the mappings of an address space).
Before(r, other) ==
    \/ r.start < other.start
    \/ r.start = other.start /\ length(r) < length(other)

\* The regions' meaning: the addresses they hold.
AddressesOf(r) == {a \in Addresses : contains(r, a)}

=============================================================================
