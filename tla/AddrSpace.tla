----------------------------- MODULE AddrSpace -----------------------------
(***************************************************************************)
(* One address space of the init server: struct AddrSpace of               *)
(* servers/init_server/src/mapping.rs with the requests MAP and UNMAP that *)
(* main.rs passes to it.  A mapping is a region of addresses and a place   *)
(* on a device.  vaddr_map is a BTreeSet ordered by the regions alone.     *)
(*                                                                         *)
(* The Makefile builds the server with overflow checks: an addition that   *)
(* exceeds usize ends the program, which is the reply "panic".             *)
(***************************************************************************)
EXTENDS Regions

CONSTANTS
    PAGE,           \* VirtualPage::SMALL_PAGE_SIZE
    Devices,
    Offsets,        \* the places on a device that are asked for
    MapLengths,     \* the lengths that are asked for
    NoTranslation

ASSUME RequestAssumption ==
    /\ PAGE \in Nat \ {0} /\ Top % PAGE = 0
    /\ Offsets \subseteq Nat
    /\ MapLengths \subseteq 1..Top-1

VARIABLES
    vaddr_map,
    request,    \* the message that main.rs has received and not yet answered
    reply       \* the answer to the one before

vars == <<vaddr_map, request, reply>>

NoRequest == [op |-> "none"]

Requests ==
    [op: {"map_at"}, address: Addresses, length: MapLengths, device: Devices, offset: Offsets]
    \cup [op: {"map_any"}, length: MapLengths, device: Devices, offset: Offsets]
    \cup [op: {"unmap"}, address: Addresses, length: 0..Top-1]

Mappings == [region: MemoryRegions, device: Devices, offset: Nat]

Init == vaddr_map = {} /\ request = NoRequest /\ reply = "ready"

\* BTreeSet::insert leaves an equal element in place.
Insert(map, mapping) ==
    IF \E m \in map : m.region = mapping.region THEN map ELSE map \cup {mapping}

align_trunc(n) == n - (n % PAGE)

\* Align::align(), which may exceed usize.
align(n) == IF n % PAGE = 0 THEN n ELSE n + (PAGE - (n % PAGE))

contains_region(region) == \E m \in vaddr_map : overlaps(m.region, region)

\* The mappings that hold the address; get_mapping() returns the first one.
MappingsOf(address) == {m \in vaddr_map : contains(m.region, address)}

get_mapping(address) ==
    CHOOSE m \in MappingsOf(address) :
        \A n \in MappingsOf(address) \ {m} : Before(m.region, n.region)

Reply(map, value) == vaddr_map' = map /\ request' = NoRequest /\ reply' = value

Panic == Reply(vaddr_map, "panic")

\* AddrSpace::map() at a given address.
MapAt(address, len, device, offset) ==
    LET start == align_trunc(address)
        end == align(address + len)
        region == new(start, end)
    IN IF end >= Top THEN Panic
       ELSE IF (end <= start /\ end # memory_end) \/ contains_region(region)
            THEN Reply(vaddr_map, "refused")
            ELSE Reply(Insert(vaddr_map, [region |-> region, device |-> device,
                                          offset |-> offset]), "granted")

\* The regions of the mappings in the order of the BTreeSet.
MappedRegions == SetToSortSeq({m.region : m \in vaddr_map}, Before)

available_regions ==
    set_complement(FoldLeft(LAMBDA acc, r : set_union(acc, <<r>>), <<>>, MappedRegions))

\* Mutant: a gap of just the right length is passed over.
IsTooShort_OffByOne(region, len) == ~is_full_region(region) /\ length(region) <= len

IsTooShort(region, len) == ~is_full_region(region) /\ length(region) < len

\* The first available region that is long enough, or none of them.
Fitting(len) == SelectSeq(available_regions, LAMBDA r : ~IsTooShort(r, len))

\* AddrSpace::map() at any address.
MapAnywhere(len, device, offset) ==
    LET fitting == Fitting(len)
        start == fitting[1].start
    IN IF fitting = <<>> THEN Reply(vaddr_map, "refused")
       ELSE IF start + len >= Top THEN Panic
            ELSE Reply(Insert(vaddr_map, [region |-> new(start, start + len),
                                          device |-> device, offset |-> offset]), "granted")

\* Mutant: the difference of the starts is taken the wrong way round.
Remains_Backwards(mapping, unmapped) ==
    LET parts == difference(mapping.region, unmapped)
    IN {[mapping EXCEPT !.region = parts[i],
                        !.offset = @ + (mapping.region.start - parts[i].start)] :
            i \in DOMAIN parts}

\* What unmap() keeps of a mapping, each part with its own place on the device.
Remains(mapping, unmapped) ==
    LET parts == difference(mapping.region, unmapped)
    IN {[mapping EXCEPT !.region = parts[i],
                        !.offset = @ + (parts[i].start - mapping.region.start)] :
            i \in DOMAIN parts}

\* Mutant: the length is added to the start of the page.
Unmap_FromPageStart(address, len) ==
    LET start == align_trunc(address)
        end == align(start + len)
        mapping == get_mapping(start)
    IN IF end >= Top THEN Panic
       ELSE IF end <= start \/ MappingsOf(start) = {} THEN Reply(vaddr_map, "refused")
            ELSE Reply((vaddr_map \ {mapping}) \cup Remains(mapping, new(start, end)), "granted")

\* AddrSpace::unmap(): the mapping of the first address loses the range.
Unmap(address, len) ==
    LET start == align_trunc(address)
        end == align(address + len)
        mapping == get_mapping(start)
    IN IF end >= Top THEN Panic
       ELSE IF end <= start \/ MappingsOf(start) = {} THEN Reply(vaddr_map, "refused")
            ELSE Reply((vaddr_map \ {mapping}) \cup Remains(mapping, new(start, end)), "granted")

\* The message loop: a request is received, ...
Receive ==
    /\ request = NoRequest /\ reply # "panic"
    /\ request' \in Requests /\ reply' = "ready"
    /\ UNCHANGED vaddr_map

\* ... and handle_message() passes it to the address space and replies.
Serve ==
    \/ /\ request.op = "map_at"
       /\ MapAt(request.address, request.length, request.device, request.offset)
    \/ request.op = "map_any" /\ MapAnywhere(request.length, request.device, request.offset)
    \/ request.op = "unmap" /\ Unmap(request.address, request.length)

Next == Receive \/ Serve

Spec == Init /\ [][Next]_vars

-----------------------------------------------------------------------------
\* Every mapping is a region of addresses with a place on a device; offsets
\* are unsigned in mapping.rs.
TypeOK ==
    /\ vaddr_map \subseteq Mappings
    /\ request \in Requests \cup {NoRequest}
    /\ reply \in {"ready", "granted", "refused", "panic"}

\* No address belongs to two mappings, whatever was mapped at a given or at any
\* address and split by unmap(): get_mapping() has one answer.
Disjoint ==
    \A m, n \in vaddr_map :
        m # n => AddressesOf(m.region) \cap AddressesOf(n.region) = {}

\* map() without an address gives up only when no gap is long enough: the union
\* and complement of region sets find every gap in full length.
GivesUpOnlyWhenFull ==
    request.op = "map_any" /\ Fitting(request.length) = <<>> =>
        ~\E start \in 0..Top-request.length :
            \A a \in start..start+request.length-1 : MappingsOf(a) = {}

\* What the mappings mean for an address.
translations ==
    [a \in Addresses |->
        IF MappingsOf(a) = {} THEN NoTranslation
        ELSE LET m == get_mapping(a)
             IN <<m.device, m.offset + (a - m.region.start)>>]

Abstract ==
    INSTANCE Translations WITH
        trans <- translations,
        starts <- {m.region.start : m \in vaddr_map}

\* The mappings implement the translations: map() and unmap() change the
\* translations of the pages of the request and no others, refuse only what
\* cannot be met, and what unmap() leaves of a mapping leads to the same places.
ImplementsTranslations == Abstract!Spec

=============================================================================
