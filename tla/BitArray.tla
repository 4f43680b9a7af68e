------------------------------ MODULE BitArray ------------------------------
(***************************************************************************)
(* The bit arrays of lib/librust/src/types.rs.  A BitArray is a vector of  *)
(* words and a number of bits; here the vector is the set of the bits that *)
(* are 1.  The last word may reach beyond num_bits: single bits are only   *)
(* changed below num_bits, but whole words are written at once, and so the *)
(* bits beyond may be 1 as well.                                           *)
(***************************************************************************)
EXTENDS Integers, FiniteSets

CONSTANT BITS      \* bits per word: 32 for the type Word

ASSUME BitsAssumption == BITS \in Nat \ {0}

word_count(bit_count) ==
    bit_count \div BITS + (IF bit_count % BITS # 0 THEN 1 ELSE 0)

\* BitArray::new(num_bits, false)
NewBits(num_bits) == [num_bits |-> num_bits, ones |-> {}]

Word(w) == w*BITS .. (w+1)*BITS - 1

Ones(array, bits, set_true) ==
    [array EXCEPT !.ones = IF set_true THEN @ \cup bits ELSE @ \ bits]

set_to(array, n, set_true) ==
    IF n < array.num_bits THEN Ones(array, {n}, set_true) ELSE array

is_set(array, n) == n < array.num_bits /\ n \in array.ones

\* The words that set_bits_to() writes as a whole: those within start..end-1.
WholeWords(start, end) == {w \in 0 .. end \div BITS : Word(w) \subseteq start..end-1}

\* Writing a word the vector does not have ends the program.
WordsMissing(array, start, end) ==
    \E w \in WholeWords(start, end) : w >= word_count(array.num_bits)

set_bits_to(array, start, end, set_true) ==
    Ones(array,
         {b \in start..end-1 : b < array.num_bits \/ b \div BITS \in WholeWords(start, end)},
         set_true)

\* Whether all bits of the word that holds bit n are 1.  In a last word that is
\* not full the code counts its bits, also those beyond num_bits.
is_word_set(array, n) ==
    /\ n < array.num_bits
    /\ LET ones == array.ones \cap Word(n \div BITS)
       IN IF n \div BITS = array.num_bits \div BITS
          THEN Cardinality(ones) = array.num_bits % BITS
          ELSE ones = Word(n \div BITS)

\* What a BitIterator with the filter Zero has still to return; it returns them
\* in increasing order.
ZerosFrom(array, index) == {b \in index .. array.num_bits-1 : b \notin array.ones}

=============================================================================
