------------------------------ MODULE Library -------------------------------
(***************************************************************************)
(* The memory and number routines of lib.c, and ece391_itoa and            *)
(* ece391_strrev of ece391support.c, which are the same code.  Memory is a *)
(* function from addresses to bytes.  A call is one step; m holds its      *)
(* arguments, the memory before it and, when it is done, the result.       *)
(***************************************************************************)
EXTENDS UserProgram, FiniteSetsExt

CONSTANTS
    TOP,    \* the highest address
    BITS    \* 32, the width of an integer: a multiple of 4

ASSUME LibraryAssumption == TOP \in Nat /\ BITS \in Nat \ {0} /\ BITS % 4 = 0

Memory == [a \in 0 .. TOP |-> a + 10]   \* all bytes different

\* a string instruction that moves w bytes; they are read before any is written
Move(mem, d, s, w) ==
    [a \in DOMAIN mem |-> IF a \in d .. d + w - 1 THEN mem[s + a - d] ELSE mem[a]]

\* n moves of w bytes each, in the direction of the sign of w
RECURSIVE Moves(_, _, _, _, _)
Moves(mem, d, s, w, n) ==
    IF n = 0 THEN mem
    ELSE Moves(Move(mem, d, s, IF w < 0 THEN -w ELSE w), d + w, s + w, w, n - 1)

\* the bytes before dest is aligned
Lead(d, n) == Min({n, (4 - (d % 4)) % 4})

\* bytes up to the boundary, then double words, then the remaining bytes
memcpy(mem, d, s, n) ==
    LET k == Lead(d, n)
        words == (n - k) \div 4
        top == Moves(mem, d, s, 1, k)
        aligned == Moves(top, d + k, s + k, 4, words)
    IN  Moves(aligned, d + k + 4 * words, s + k + 4 * words, 1, (n - k) % 4)

\* from the first byte up, or, when src is below dest, from the last byte down
memmove(mem, d, s, n) ==
    IF s >= d THEN Moves(mem, d, s, 1, n) ELSE Moves(mem, d + n - 1, s + n - 1, -1, n)

\* memset stores the low byte of c, four times in a double word
Stores(mem, d, c, n) == [a \in DOMAIN mem |-> IF a \in d .. d + n - 1 THEN c % 256 ELSE mem[a]]

memset(mem, d, c, n) ==
    LET k == Lead(d, n)
        words == (n - k) \div 4
    IN  Stores(Stores(Stores(mem, d, c, k), d + k, c, 4 * words),
               d + k + 4 * words, c, (n - k) % 4)

\* swaps from both ends inwards
RECURSIVE SwapFrom(_, _, _)
SwapFrom(s, beg, end) ==
    IF beg >= end THEN s
    ELSE SwapFrom([s EXCEPT ![beg] = s[end], ![end] = s[beg]], beg + 1, end - 1)

strrev(s) == SwapFrom(s, 1, Len(s))

RECURSIVE Digits(_, _)
Digits(newval, radix) ==
    IF newval = 0 THEN <<>> ELSE <<newval % radix>> \o Digits(newval \div radix, radix)

\* digits, the lowest first, and then reversed; zero is a case of its own
itoa(value, radix) == IF value = 0 THEN <<0>> ELSE strrev(Digits(value, radix))

Minus == -1     \* the character '-' among digits

\* Faulty: a negative number is converted without its sign being taken off.
Converted_Raw(spec, v) ==
    CASE spec = "x" -> itoa(v, 16)
      [] spec = "#x" -> [i \in 1 .. BITS \div 4 - Len(itoa(v, 16)) |-> 0] \o itoa(v, 16)
      [] spec = "u" -> itoa(v, 10)
      [] spec = "d" -> IF v < 2^(BITS - 1) THEN itoa(v, 10) ELSE <<Minus>> \o itoa(v, 10)

\* what printf prints of a word v for %x, %#x (padded from the left to the width
\* of a word), %u and %d
Converted(spec, v) ==
    CASE spec = "x" -> itoa(v, 16)
      [] spec = "#x" -> [i \in 1 .. BITS \div 4 - Len(itoa(v, 16)) |-> 0] \o itoa(v, 16)
      [] spec = "u" -> itoa(v, 10)
      [] spec = "d" -> IF v < 2^(BITS - 1) THEN itoa(v, 10)
                       ELSE <<Minus>> \o itoa(2^BITS - v, 10)

LibraryInit ==
    /\ pc = "call"
    /\ \/ \E f \in {"memcpy", "memmove", "memset"}, d, s, n \in 0 .. TOP :
             /\ d + n <= TOP + 1
             /\ f # "memset" => s + n <= TOP + 1
             /\ m = [prog |-> "memory", f |-> f, d |-> d, s |-> s, n |-> n, mem |-> Memory]
       \/ \E spec \in {"x", "#x", "u", "d"}, v \in 0 .. 2^BITS - 1 :
             m = [prog |-> "number", spec |-> spec, v |-> v, text |-> <<>>]

CallMemory ==
    /\ pc = "call"
    /\ m.prog = "memory"
    /\ m' = [m EXCEPT !.mem = CASE m.f = "memcpy" -> memcpy(@, m.d, m.s, m.n)
                                [] m.f = "memmove" -> memmove(@, m.d, m.s, m.n)
                                [] m.f = "memset" -> memset(@, m.d, m.s, m.n)]
    /\ pc' = "done"

CallNumber ==
    /\ pc = "call"
    /\ m.prog = "number"
    /\ m' = [m EXCEPT !.text = Converted(m.spec, m.v)]
    /\ pc' = "done"

LibraryNext == CallMemory \/ CallNumber

-----------------------------------------------------------------------------
(* Properties *)

\* memset and memmove change the bytes they are asked to and no others, at every
\* alignment and length, and so does memcpy for areas that do not overlap and,
\* as scroll() relies on, for those that overlap with dest below src.
MemoryExact ==
    pc = "done" /\ m.prog = "memory"
      => \A a \in 0 .. TOP :
            IF a \in m.d .. m.d + m.n - 1
            THEN CASE m.f = "memset" -> m.mem[a] = m.s % 256
                   [] m.f = "memmove" \/ m.d <= m.s \/ m.d >= m.s + m.n
                        -> m.mem[a] = Memory[m.s + a - m.d]
                   [] OTHER -> TRUE
            ELSE m.mem[a] = Memory[a]

\* the number a row of digits stands for
Value(s, radix) == FoldLeft(LAMBDA v, digit : v * radix + digit, 0, s)

\* What printf prints of a word can be read back as that word: in hexadecimal,
\* unsigned and signed, without leading zeros; and %#x always takes "8
\* hexadecimal digits, zero-padded on the left" (lib.c 101) of a 32-bit word.
NumbersReadBack ==
    pc = "done" /\ m.prog = "number"
      => LET neg == Head(m.text) = Minus
             digits == IF neg THEN Tail(m.text) ELSE m.text
             value == Value(digits, IF m.spec \in {"x", "#x"} THEN 16 ELSE 10)
         IN  /\ neg => m.spec = "d" /\ value > 0
             /\ m.v = (IF neg THEN -value ELSE value) % 2^BITS
             /\ m.spec = "d" => value <= 2^(BITS - 1)
             /\ m.spec = "#x" => Len(digits) = BITS \div 4
             /\ m.spec # "#x" /\ Head(digits) = 0 => Len(digits) = 1

\* The routines of lib.c the rest of the kernel is built on do what their
\* headers say, at every alignment, length, radix and sign.
LibraryExact == MemoryExact /\ NumbersReadBack
=============================================================================
