---------------------------- MODULE Translations ----------------------------
(***************************************************************************)
(* What an address space promises: every address is translated to a place  *)
(* on a device or to nothing, and a request changes the translations of    *)
(* the pages it names and no others.  A MAP with an address maps all of    *)
(* these pages if they are free, a MAP without one as many free addresses  *)
(* as it asks for.  UNMAP takes away the pages it names as far as the      *)
(* mapping of the first one goes; what is left of that mapping still leads *)
(* to the same places.  A request that names its pages is refused only if  *)
(* it cannot be met.                                                       *)
(***************************************************************************)
EXTENDS Integers

CONSTANTS Top, PAGE, NoTranslation

VARIABLES
    trans,      \* where an address leads to
    starts,     \* the addresses at which a mapping starts
    request,    \* the request that is to be served
    reply       \* the answer to the last one

vars == <<trans, starts, request, reply>>

Span(start, end) == start..end-1

Mapped(a) == a < Top /\ trans[a] # NoTranslation

\* The pages that hold the addresses of the request.
PageStart == PAGE * (request.address \div PAGE)
PageEnd == PAGE * ((request.address + request.length + PAGE - 1) \div PAGE)
Pages == Span(PageStart, PageEnd)

Init ==
    /\ trans = [a \in 0..Top-1 |-> NoTranslation] /\ starts = {}
    /\ request.op = "none" /\ reply = "ready"

Ask == request.op = "none" /\ request'.op # "none" /\ UNCHANGED <<trans, starts>>

Answer(op, value) == request.op = op /\ request'.op = "none" /\ reply' = value

MapSpan(start, end) ==
    /\ end < Top /\ \A a \in Span(start, end) : ~Mapped(a)
    /\ trans' = [a \in 0..Top-1 |->
                    IF a \in Span(start, end)
                    THEN <<request.device, request.offset + a - start>>
                    ELSE trans[a]]
    /\ starts' = starts \cup {start}

MapAt == Answer("map_at", "granted") /\ MapSpan(PageStart, PageEnd)

MapAnywhere ==
    /\ Answer("map_any", "granted")
    /\ \E start \in 0..Top-1 : MapSpan(start, start + request.length)

\* The end of the mapping that holds the address.
EndOf(a) ==
    CHOOSE e \in a+1..Top :
        /\ e \in starts \/ ~Mapped(e)
        /\ \A b \in a+1..e-1 : b \notin starts /\ Mapped(b)

Unmap ==
    /\ Answer("unmap", "granted") /\ Pages # {} /\ Mapped(PageStart)
    /\ LET end == IF EndOf(PageStart) < PageEnd THEN EndOf(PageStart) ELSE PageEnd
       IN /\ trans' = [a \in 0..Top-1 |->
                          IF a \in Span(PageStart, end) THEN NoTranslation ELSE trans[a]]
          /\ starts' = (starts \ {PageStart}) \cup {e \in {end} : Mapped(e)}

Refuse ==
    /\ \/ Answer("map_at", "refused") /\ \E a \in Pages : Mapped(a)
       \/ Answer("map_any", "refused")
       \/ Answer("unmap", "refused") /\ (Pages = {} \/ ~Mapped(PageStart))
    /\ UNCHANGED <<trans, starts>>

\* The server ends when the range asked for, or the one found, reaches the last
\* address of memory: the end is not a number of 32 bits.
Overflow ==
    /\ \/ (Answer("map_at", "panic") \/ Answer("unmap", "panic")) /\ PageEnd >= Top
       \/ /\ Answer("map_any", "panic")
          /\ \A a \in Span(Top - request.length, Top) : ~Mapped(a)
    /\ UNCHANGED <<trans, starts>>

Next == Ask \/ MapAt \/ MapAnywhere \/ Unmap \/ Refuse \/ Overflow

Spec == Init /\ [][Next]_vars

=============================================================================
