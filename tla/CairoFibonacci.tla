--------------------------- MODULE CairoFibonacci ----------------------------
(***************************************************************************)
(* compute_fibonacci of soul-cairo at full width: the felts are numbers    *)
(* below the Cairo modulus 2^251 + 17 * 2^192 + 1, as limbs of 24 bits,    *)
(* least significant first, and a felt addition is reduced by it.  The     *)
(* other modules keep the modulus a parameter; this one shows that the     *)
(* bound on n fits the modulus the program really runs with.               *)
(***************************************************************************)
EXTENDS Integers, Sequences

Base == 16777216
Limbs == 11
Number == [1..Limbs -> 0..(Base - 1)]

\* CAIRO_PRIME_HEX.
CairoPrime == [k \in 1..Limbs |-> CASE k = 1 -> 1 [] k = 9 -> 17 [] k = 11 -> 2048 [] OTHER -> 0]

\* MAX_FIBONACCI_N, the value the other modules have as a parameter.
FibonacciBound == 363

FromInteger(v) == [k \in 1..Limbs |-> IF k = 1 THEN v ELSE 0]

Less(x, y) ==
    \E k \in 1..Limbs : x[k] < y[k] /\ \A j \in (k + 1)..Limbs : x[j] = y[j]

\* x + y as a number.
Carry(x, y) ==
    LET carry[k \in 0..Limbs] ==
            IF k = 0 THEN 0 ELSE IF x[k] + y[k] + carry[k - 1] >= Base THEN 1 ELSE 0
    IN  carry

Plus(x, y) ==
    LET carry == Carry(x, y)
    IN  [k \in 1..Limbs |-> x[k] + y[k] + carry[k - 1] - Base * carry[k]]

\* x - y as a number, for y <= x.
Minus(x, y) ==
    LET borrow[k \in 0..Limbs] ==
            IF k = 0 THEN 0 ELSE IF x[k] - y[k] - borrow[k - 1] < 0 THEN 1 ELSE 0
    IN  [k \in 1..Limbs |-> x[k] - y[k] - borrow[k - 1] + Base * borrow[k]]

\* a + b of felt252.
FeltPlus(x, y) ==
    IF Less(Plus(x, y), CairoPrime) THEN Plus(x, y) ELSE Minus(Plus(x, y), CairoPrime)

VARIABLES
    locals,     \* the argument n of compute_fibonacci, its a, b and i, and whether it has returned
    exact       \* history: F(i - 2) and F(i - 1) as numbers

fibonacciVars == <<locals, exact>>

\* main has asserted n <= MAX_FIBONACCI_N.
FibonacciInit ==
    /\ locals \in [n: 0..FibonacciBound, i: {2}, a: {FromInteger(0)}, b: {FromInteger(1)}, done: {FALSE}]
    /\ exact = <<FromInteger(0), FromInteger(1)>>

\* Mutant: one iteration too many.
RunsOn == locals.i <= locals.n + 1

\* The loop goes on unless i > n.
Runs == locals.i <= locals.n

Iterate ==
    /\ ~locals.done /\ Runs
    /\ locals' = [locals EXCEPT !.a = locals.b, !.b = FeltPlus(locals.a, locals.b), !.i = locals.i + 1]
    /\ exact' = <<exact[2], Plus(exact[1], exact[2])>>

Return ==
    /\ ~locals.done /\ ~Runs
    /\ locals' = [locals EXCEPT !.done = TRUE]
    /\ UNCHANGED exact

FibonacciNext == Iterate \/ Return

FibonacciSpec == FibonacciInit /\ [][FibonacciNext]_fibonacciVars

\* The value compute_fibonacci returns: the early returns for 0 and 1, then b.
Result ==
    IF locals.n = 0 THEN FromInteger(0) ELSE IF locals.n = 1 THEN FromInteger(1) ELSE locals.b

-----------------------------------------------------------------------------
(* Properties.                                                             *)

\* No sum on the way to F(n) wraps around the field, for any n main admits:
\* what is returned is the Fibonacci number and not a residue of it.
NeverWraps ==
    /\ Less(exact[2], CairoPrime)
    /\ locals.a = exact[1] /\ locals.b = exact[2]
    /\ locals.done /\ locals.n > 1 => Result = exact[2]

\* constants.rs: "Fibonacci(364) exceeds the Cairo field modulus": the bound
\* is the largest one, the next sum is out of the field.
BoundIsTight ==
    locals.done /\ locals.n = FibonacciBound => Less(CairoPrime, Plus(exact[1], exact[2]))

\* MAX_FIBONACCI_N is exactly the last index whose number the field can hold.
BoundIsExact == NeverWraps /\ BoundIsTight
=============================================================================
