--------------------------- MODULE SoulCairoProofs ---------------------------
(***************************************************************************)
(* What the Cairo program computes, that the engine of the provider runs   *)
(* it on the job it was given, what a client knows that has verified a     *)
(* proof of it, and that the bound on n fits the modulus of the field.     *)
(*                                                                         *)
(* The loops of the program are recursive functions.  The provers have no  *)
(* induction of their own, and the library's induction rules are about     *)
(* operators, which they cannot instantiate; but the library also says     *)
(* that < is well founded on Nat, and from that follows an induction about *)
(* sets, and with it everything below.                                     *)
(***************************************************************************)
EXTENDS ProofEngine, ProofCheck, CairoFibonacci, SequenceTheorems, WellFoundedInduction, TLAPS

-----------------------------------------------------------------------------
(* Induction and recursion over Nat, about sets and functions.             *)

\* A set of naturals that is not empty has a least element.
LEMMA LeastNatural ==
    ASSUME NEW T, T \subseteq Nat, T # {}
    PROVE  \E x \in T : \A y \in T : x <= y
<1> DEFINE R == {ss \in Nat \X Nat : ss[1] < ss[2]}
<1>1. IsWellFoundedOn(R, Nat)
  BY NatLessThanWellFounded DEF OpToRel
<1>2. ASSUME NEW x \in Nat, NEW y \in Nat, <<y, x>> \notin R PROVE x <= y
  BY <1>2
<1> HIDE DEF R
<1>3. PICK x \in T : \A y \in T : <<y, x>> \notin R
  BY <1>1, WFMin
<1> QED BY <1>2, <1>3

\* Induction on the naturals, with a set in place of a predicate.
LEMMA Induction ==
    ASSUME NEW P, 0 \in P, \A n \in Nat : n \in P => n + 1 \in P
    PROVE  Nat \subseteq P
<1> SUFFICES ASSUME Nat \ P # {} PROVE FALSE
  OBVIOUS
<1>1. PICK m \in Nat \ P : \A y \in Nat \ P : m <= y
  BY LeastNatural
<1>2. m # 0 /\ m - 1 \in Nat
  OBVIOUS
<1>3. m - 1 \in P
  BY <1>1, <1>2
<1>4. (m - 1) + 1 \in P
  BY <1>2, <1>3
<1> QED BY <1>2, <1>4

\* The first n values of the function with f[0] = b and f[i + 1] = step[<<i, f[i]>>].
Prefix(n, b, step, X) ==
    {f \in [0..n -> X] : f[0] = b /\ \A i \in 0..(n - 1) : f[i + 1] = step[<<i, f[i]>>]}

\* A recursion can be run for any number of steps ...
LEMMA PrefixExists ==
    ASSUME NEW X, NEW b \in X, NEW step \in [Nat \X X -> X], NEW n \in Nat
    PROVE  Prefix(n, b, step, X) # {}
<1> DEFINE P == {k \in Nat : Prefix(k, b, step, X) # {}}
<1>1. 0 \in P
  <2>1. [i \in 0..0 |-> b] \in Prefix(0, b, step, X)
    BY DEF Prefix
  <2> QED BY <2>1
<1>2. ASSUME NEW k \in Nat, k \in P PROVE k + 1 \in P
  <2>1. PICK f : f \in Prefix(k, b, step, X)
    BY <1>2
  <2>2. f \in [0..k -> X] /\ f[0] = b /\ \A i \in 0..(k - 1) : f[i + 1] = step[<<i, f[i]>>]
    BY <2>1 DEF Prefix
  <2> DEFINE g == [i \in 0..(k + 1) |-> IF i <= k THEN f[i] ELSE step[<<k, f[k]>>]]
  <2>3. step[<<k, f[k]>>] \in X
    BY <2>2
  <2>4. g \in [0..(k + 1) -> X] /\ g[0] = b
    BY <2>2, <2>3
  <2>5. ASSUME NEW i \in 0..((k + 1) - 1) PROVE g[i + 1] = step[<<i, g[i]>>]
    <3>1. CASE i = k
      BY <3>1
    <3>2. CASE i # k
      BY <2>2, <3>2
    <3> QED BY <3>1, <3>2
  <2> HIDE DEF g
  <2>6. g \in Prefix(k + 1, b, step, X)
    BY <2>4, <2>5 DEF Prefix
  <2> QED BY <2>6
<1>3. Nat \subseteq P
  <2> HIDE DEF P
  <2> QED BY <1>1, <1>2, Induction
<1> QED BY <1>3

\* ... and two runs of it agree as far as both go.
LEMMA PrefixesAgree ==
    ASSUME NEW X, NEW b \in X, NEW step \in [Nat \X X -> X], NEW m \in Nat, NEW n \in Nat,
           NEW f \in Prefix(m, b, step, X), NEW g \in Prefix(n, b, step, X),
           NEW k \in 0..m, k <= n
    PROVE  f[k] = g[k]
<1> DEFINE P == {i \in Nat : i <= m /\ i <= n => f[i] = g[i]}
<1>1. 0 \in P
  BY DEF Prefix
<1>2. ASSUME NEW i \in Nat, i \in P PROVE i + 1 \in P
  <2> SUFFICES ASSUME i + 1 <= m, i + 1 <= n PROVE f[i + 1] = g[i + 1]
    OBVIOUS
  <2>1. f[i] = g[i] /\ i \in 0..(m - 1) /\ i \in 0..(n - 1)
    BY <1>2
  <2> QED BY <2>1 DEF Prefix
<1>3. Nat \subseteq P
  <2> HIDE DEF P
  <2> QED BY <1>1, <1>2, Induction
<1> QED BY <1>3

\* The functions with all these values.
Steps(X) == [Nat \X X -> X]
Recursion(b, step, X) ==
    {f \in [Nat -> X] : f[0] = b /\ \A n \in Nat : f[n + 1] = step[<<n, f[n]>>]}

\* There is one.
LEMMA RecursiveFunction ==
    ASSUME NEW X, NEW b \in X, NEW step \in Steps(X)
    PROVE  Recursion(b, step, X) # {}
<1> DEFINE prefix(n) == CHOOSE f : f \in Prefix(n, b, step, X)
           F == [n \in Nat |-> prefix(n)[n]]
<1>0. step \in [Nat \X X -> X]
  BY DEF Steps
<1>1. ASSUME NEW n \in Nat PROVE prefix(n) \in Prefix(n, b, step, X)
  BY <1>0, PrefixExists
<1>2. ASSUME NEW n \in Nat PROVE prefix(n) \in [0..n -> X] /\ prefix(n)[n] \in X
  <2>1. prefix(n) \in [0..n -> X]
    BY <1>1 DEF Prefix
  <2> HIDE DEF prefix
  <2> QED BY <2>1
<1> HIDE DEF prefix
<1>3. F \in [Nat -> X] /\ \A n \in Nat : F[n] = prefix(n)[n]
  BY <1>2
<1> HIDE DEF F
<1>4. F[0] = b
  BY <1>1, <1>3 DEF Prefix
<1>5. ASSUME NEW n \in Nat PROVE F[n + 1] = step[<<n, F[n]>>]
  <2>1. prefix(n)[n] = prefix(n + 1)[n]
    BY <1>0, <1>1, PrefixesAgree
  <2>2. prefix(n + 1)[n + 1] = step[<<n, prefix(n + 1)[n]>>]
    BY <1>1 DEF Prefix
  <2> QED BY <1>3, <2>1, <2>2
<1> QED BY <1>3, <1>4, <1>5 DEF Recursion

-----------------------------------------------------------------------------
(* Powers of two.                                                          *)

\* Pow2 is the function its recursive definition describes.
LEMMA Pow2Def ==
    /\ Pow2 \in [Nat -> Nat]
    /\ Pow2[0] = 1
    /\ \A n \in Nat : Pow2[n + 1] = 2 * Pow2[n]
<1> DEFINE step == [z \in Nat \X Nat |-> 2 * z[2]]
<1>1. \A n, v \in Nat : step[<<n, v>>] = 2 * v
  OBVIOUS
<1>2. step \in Steps(Nat)
  BY DEF Steps
<1> HIDE DEF step
<1>3. PICK f \in Recursion(1, step, Nat) : TRUE
  BY <1>2, RecursiveFunction
<1>4. f \in [Nat -> Nat] /\ f[0] = 1 /\ \A n \in Nat : f[n + 1] = step[<<n, f[n]>>]
  BY <1>3 DEF Recursion
<1>5. f = [n \in Nat |-> IF n = 0 THEN 1 ELSE 2 * f[n - 1]]
  <2>1. ASSUME NEW n \in Nat, n # 0 PROVE f[n] = 2 * f[n - 1]
    <3>1. n - 1 \in Nat /\ (n - 1) + 1 = n
      BY <2>1
    <3> QED BY <1>1, <1>4, <3>1
  <2> QED BY <1>4, <2>1
<1>6. Pow2 = [n \in Nat |-> IF n = 0 THEN 1 ELSE 2 * Pow2[n - 1]]
  BY <1>5 DEF Pow2
<1> HIDE DEF Pow2
<1>7. Pow2[0] = 1
  BY <1>6
<1>8. ASSUME NEW n \in Nat PROVE Pow2[n + 1] = 2 * Pow2[n]
  BY <1>6
<1> DEFINE P == {n \in Nat : Pow2[n] \in Nat}
<1>9. 0 \in P
  BY <1>7
<1>10. ASSUME NEW n \in Nat, n \in P PROVE n + 1 \in P
  BY <1>8, <1>10
<1>11. Nat \subseteq P
  <2> HIDE DEF P
  <2> QED BY <1>9, <1>10, Induction
<1> QED BY <1>6, <1>7, <1>8, <1>11

\* A power of two is larger than its exponent, which bounds the shifts of an
\* index.
LEMMA Pow2Grows == \A n \in Nat : n < Pow2[n] /\ Pow2[n] \in Nat
<1> DEFINE P == {n \in Nat : n < Pow2[n]}
<1>1. 0 \in P
  BY Pow2Def
<1>2. ASSUME NEW n \in Nat, n \in P PROVE n + 1 \in P
  <2>1. Pow2[n] \in Nat /\ n < Pow2[n] /\ Pow2[n + 1] = 2 * Pow2[n]
    BY <1>2, Pow2Def
  <2> QED BY <2>1
<1>3. Nat \subseteq P
  <2> HIDE DEF P
  <2> QED BY <1>1, <1>2, Induction
<1> QED BY <1>3, Pow2Def

\* A path as long as the limit fits u64, and so does its length.
LEMMA DepthIsU64 == MAX_MERKLE_DEPTH < U64
BY Pow2Grows, CairoAssumption

-----------------------------------------------------------------------------
(* Fibonacci.                                                              *)

\* Fibonacci is the function its recursive definition describes.
LEMMA FibonacciDef ==
    /\ Fibonacci \in [Nat -> Nat]
    /\ Fibonacci[0] = 0 /\ Fibonacci[1] = 1
    /\ \A n \in Nat : Fibonacci[n + 2] = Fibonacci[n + 1] + Fibonacci[n]
<1> DEFINE X == Nat \X Nat
           step == [z \in Nat \X X |-> <<z[2][2], z[2][1] + z[2][2]>>]
<1>1. \A n \in Nat, p \in X : step[<<n, p>>] = <<p[2], p[1] + p[2]>>
  OBVIOUS
<1>2. step \in Steps(X) /\ <<0, 1>> \in X
  BY DEF Steps
<1> HIDE DEF step, X
<1>0. PICK f \in Recursion(<<0, 1>>, step, X) : TRUE
  BY <1>2, RecursiveFunction
<1>3. f \in [Nat -> X] /\ f[0] = <<0, 1>> /\ \A n \in Nat : f[n + 1] = step[<<n, f[n]>>]
  BY <1>0 DEF Recursion
<1> DEFINE g == [n \in Nat |-> f[n][1]]
<1>4. ASSUME NEW n \in Nat
      PROVE  f[n][1] \in Nat /\ f[n][2] \in Nat /\ f[n + 1] = <<f[n][2], f[n][1] + f[n][2]>>
  <2>1. f[n] \in X
    BY <1>3
  <2>2. f[n][1] \in Nat /\ f[n][2] \in Nat
    BY <2>1 DEF X
  <2> QED BY <1>1, <1>3, <2>1, <2>2
<1>5. g \in [Nat -> Nat] /\ g[0] = 0 /\ g[1] = 1
  <2>1. f[0 + 1] = <<f[0][2], f[0][1] + f[0][2]>>
    BY <1>4
  <2> QED BY <1>3, <1>4, <2>1
<1>6. ASSUME NEW n \in Nat PROVE g[n + 2] = g[n + 1] + g[n]
  <2>1. f[n + 1][1] = f[n][2] /\ f[n + 1][2] = f[n][1] + f[n][2]
    BY <1>4
  <2>2. n + 1 \in Nat /\ (n + 1) + 1 = n + 2
    OBVIOUS
  <2>3. f[n + 2][1] = f[n + 1][2]
    BY <1>4, <2>2
  <2>4. f[n][1] \in Nat /\ f[n][2] \in Nat
    BY <1>4
  <2> QED BY <2>1, <2>3, <2>4
<1> HIDE DEF g
<1>7. g = [n \in Nat |-> IF n < 2 THEN n ELSE g[n - 1] + g[n - 2]]
  <2>1. ASSUME NEW n \in Nat, ~(n < 2) PROVE g[n] = g[n - 1] + g[n - 2]
    <3>1. n - 2 \in Nat /\ (n - 2) + 2 = n /\ (n - 2) + 1 = n - 1
      BY <2>1
    <3> QED BY <1>6, <3>1
  <2>2. ASSUME NEW n \in Nat, n < 2 PROVE g[n] = n
    <3>1. n = 0 \/ n = 1
      BY <2>2
    <3> QED BY <1>5, <3>1
  <2> QED BY <1>5, <2>1, <2>2
<1>8. Fibonacci = [n \in Nat |-> IF n < 2 THEN n ELSE Fibonacci[n - 1] + Fibonacci[n - 2]]
  BY <1>7 DEF Fibonacci
<1> HIDE DEF Fibonacci
<1>9. Fibonacci[0] = 0 /\ Fibonacci[1] = 1
  BY <1>8
<1>10. ASSUME NEW n \in Nat PROVE Fibonacci[n + 2] = Fibonacci[n + 1] + Fibonacci[n]
  <2>1. n + 2 \in Nat /\ ~(n + 2 < 2) /\ (n + 2) - 1 = n + 1 /\ (n + 2) - 2 = n
    OBVIOUS
  <2> QED BY <1>8, <2>1
<1> DEFINE P == {n \in Nat : Fibonacci[n] \in Nat /\ Fibonacci[n + 1] \in Nat}
<1>11. 0 \in P
  BY <1>9
<1>12. ASSUME NEW n \in Nat, n \in P PROVE n + 1 \in P
  <2>1. (n + 1) + 1 = n + 2 /\ Fibonacci[n + 2] = Fibonacci[n + 1] + Fibonacci[n]
    BY <1>10
  <2> QED BY <1>12, <2>1
<1>13. Nat \subseteq P
  <2> HIDE DEF P
  <2> QED BY <1>11, <1>12, Induction
<1> QED BY <1>8, <1>9, <1>10, <1>13

\* The numbers do not decrease.
LEMMA FibonacciGrows == \A n \in Nat : \A m \in Nat : m <= n => Fibonacci[m] <= Fibonacci[n]
<1> DEFINE P == {n \in Nat : \A m \in Nat : m <= n => Fibonacci[m] <= Fibonacci[n]}
<1>1. 0 \in P
  BY FibonacciDef
<1>2. ASSUME NEW n \in Nat PROVE Fibonacci[n] <= Fibonacci[n + 1]
  <2>1. CASE n = 0
    BY <2>1, FibonacciDef
  <2>2. CASE n # 0
    <3>1. n - 1 \in Nat /\ (n - 1) + 1 = n /\ (n - 1) + 2 = n + 1
      BY <2>2
    <3>2. Fibonacci[n + 1] = Fibonacci[n] + Fibonacci[n - 1]
      BY <3>1, FibonacciDef
    <3>3. Fibonacci[n] \in Nat /\ Fibonacci[n - 1] \in Nat
      BY <3>1, FibonacciDef
    <3> QED BY <3>2, <3>3
  <2> QED BY <2>1, <2>2
<1>3. ASSUME NEW n \in Nat, n \in P PROVE n + 1 \in P
  <2> SUFFICES ASSUME NEW m \in Nat, m <= n + 1 PROVE Fibonacci[m] <= Fibonacci[n + 1]
    OBVIOUS
  <2>1. Fibonacci[m] \in Nat /\ Fibonacci[n] \in Nat /\ Fibonacci[n + 1] \in Nat
    <3>1. n + 1 \in Nat
      OBVIOUS
    <3> QED BY <3>1, FibonacciDef
  <2>2. CASE m = n + 1
    BY <2>1, <2>2
  <2>3. CASE m <= n
    <3>1. Fibonacci[m] <= Fibonacci[n]
      BY <1>3, <2>3
    <3> QED BY <1>2, <2>1, <3>1
  <2> QED BY <2>2, <2>3
<1>4. Nat \subseteq P
  <2> HIDE DEF P
  <2> QED BY <1>1, <1>3, Induction
<1> QED BY <1>4

\* All up to the bound are felts.
LEMMA FibonacciIsFelt == \A n \in Nat : n <= MAX_FIBONACCI_N => Fibonacci[n] < Prime
<1>1. \A m \in Nat : m <= MAX_FIBONACCI_N => Fibonacci[m] <= Fibonacci[MAX_FIBONACCI_N]
  BY FibonacciGrows, CairoAssumption
<1>2. Prime \in Nat /\ MAX_FIBONACCI_N \in Nat /\ \A m \in Nat : Fibonacci[m] \in Nat
  BY FibonacciDef, CairoAssumption
<1> QED BY <1>1, <1>2, FieldAssumption

\* So is the loop of compute_fibonacci, whose sums are reduced by the modulus.
LEMMA FibonacciLoopDef ==
    /\ FibonacciLoop \in [Nat -> Nat \X Nat]
    /\ FibonacciLoop[0] = <<0, 1>> /\ FibonacciLoop[1] = <<0, 1>>
    /\ \A n \in Nat \ {0} :
          FibonacciLoop[n + 1] = <<FibonacciLoop[n][2],
                                   (FibonacciLoop[n][1] + FibonacciLoop[n][2]) % Prime>>
<1> DEFINE X == Nat \X Nat
           step == [z \in Nat \X X |-> IF z[1] = 0 THEN <<0, 1>>
                                       ELSE <<z[2][2], (z[2][1] + z[2][2]) % Prime>>]
           Body(f, i) == IF i < 2 THEN <<0, 1>>
                                  ELSE LET p == f[i - 1] IN <<p[2], (p[1] + p[2]) % Prime>>
<1>1. Prime \in Nat /\ Prime > 0
  BY CairoAssumption
<1>2. step \in Steps(X)
  <2>1. ASSUME NEW z \in Nat \X X
        PROVE  (IF z[1] = 0 THEN <<0, 1>> ELSE <<z[2][2], (z[2][1] + z[2][2]) % Prime>>) \in X
    BY <1>1
  <2> QED BY <2>1 DEF Steps
<1>3. \A p \in X : step[<<0, p>>] = <<0, 1>>
  OBVIOUS
<1>4. \A n \in Nat \ {0}, p \in X : step[<<n, p>>] = <<p[2], (p[1] + p[2]) % Prime>>
  OBVIOUS
<1>5. <<0, 1>> \in X
  OBVIOUS
<1> HIDE DEF step, X
<1>0. PICK f \in Recursion(<<0, 1>>, step, X) : TRUE
  BY <1>2, <1>5, RecursiveFunction
<1>6. f \in [Nat -> X] /\ f[0] = <<0, 1>> /\ \A n \in Nat : f[n + 1] = step[<<n, f[n]>>]
  BY <1>0 DEF Recursion
<1>7. f = [i \in Nat |-> Body(f, i)]
  <2>1. ASSUME NEW i \in Nat PROVE f[i] = Body(f, i)
    <3>1. CASE i = 0
      BY <1>6, <3>1
    <3>2. CASE i = 1
      <4>1. f[0 + 1] = step[<<0, f[0]>>] /\ f[0] \in X
        BY <1>6
      <4> QED BY <1>3, <3>2, <4>1
    <3>3. CASE ~(i < 2)
      <4>1. i - 1 \in Nat \ {0} /\ (i - 1) + 1 = i
        BY <3>3
      <4>2. f[i] = step[<<i - 1, f[i - 1]>>] /\ f[i - 1] \in X
        BY <1>6, <4>1
      <4>3. step[<<i - 1, f[i - 1]>>] = <<f[i - 1][2], (f[i - 1][1] + f[i - 1][2]) % Prime>>
        BY <1>4, <4>1, <4>2
      <4> QED BY <3>3, <4>2, <4>3
    <3> QED BY <3>1, <3>2, <3>3
  <2> QED BY <1>6, <2>1
<1>8. FibonacciLoop = [i \in Nat |-> Body(FibonacciLoop, i)]
  BY <1>7 DEF FibonacciLoop
<1> HIDE DEF FibonacciLoop
<1>9. FibonacciLoop[0] = <<0, 1>> /\ FibonacciLoop[1] = <<0, 1>>
  BY <1>8
<1>10. ASSUME NEW n \in Nat \ {0}
       PROVE  FibonacciLoop[n + 1] = <<FibonacciLoop[n][2],
                                       (FibonacciLoop[n][1] + FibonacciLoop[n][2]) % Prime>>
  <2>1. n + 1 \in Nat /\ ~(n + 1 < 2) /\ (n + 1) - 1 = n
    OBVIOUS
  <2> QED BY <1>8, <2>1
<1> DEFINE P == {n \in Nat : FibonacciLoop[n] \in Nat \X Nat}
<1>11. 0 \in P
  BY <1>9
<1>12. ASSUME NEW n \in Nat, n \in P PROVE n + 1 \in P
  <2>1. CASE n = 0
    BY <1>9, <2>1
  <2>2. CASE n # 0
    <3>1. FibonacciLoop[n][1] \in Nat /\ FibonacciLoop[n][2] \in Nat
      BY <1>12
    <3>2. (FibonacciLoop[n][1] + FibonacciLoop[n][2]) % Prime \in Nat
      BY <1>1, <3>1
    <3>3. FibonacciLoop[n + 1] = <<FibonacciLoop[n][2],
                                   (FibonacciLoop[n][1] + FibonacciLoop[n][2]) % Prime>>
      BY <1>10, <2>2
    <3>4. FibonacciLoop[n + 1] \in Nat \X Nat
      BY <3>1, <3>2, <3>3
    <3> QED BY <3>4
  <2> QED BY <2>1, <2>2
<1>13. Nat \subseteq P
  <2> HIDE DEF P
  <2> QED BY <1>11, <1>12, Induction
<1> QED BY <1>8, <1>9, <1>10, <1>13

\* compute_fibonacci returns the Fibonacci number, for every n main lets pass.
LEMMA ComputeFibonacciIsExact ==
    ASSUME NEW n \in Nat, n <= MAX_FIBONACCI_N
    PROVE  ComputeFibonacci(n) = Fibonacci[n]
<1> DEFINE P == {k \in Nat : k + 1 <= MAX_FIBONACCI_N =>
                               FibonacciLoop[k + 1] = <<Fibonacci[k], Fibonacci[k + 1]>>}
<1>1. 0 \in P
  BY FibonacciLoopDef, FibonacciDef
<1>2. ASSUME NEW k \in Nat, k \in P PROVE k + 1 \in P
  <2> SUFFICES ASSUME (k + 1) + 1 <= MAX_FIBONACCI_N
               PROVE  FibonacciLoop[(k + 1) + 1] = <<Fibonacci[k + 1], Fibonacci[(k + 1) + 1]>>
    OBVIOUS
  <2>1. k + 1 <= MAX_FIBONACCI_N /\ MAX_FIBONACCI_N \in Nat /\ (k + 1) + 1 = k + 2
    BY CairoAssumption
  <2>2. FibonacciLoop[k + 1] = <<Fibonacci[k], Fibonacci[k + 1]>>
    BY <1>2, <2>1
  <2>3. FibonacciLoop[(k + 1) + 1] = <<Fibonacci[k + 1], (Fibonacci[k] + Fibonacci[k + 1]) % Prime>>
    <3>1. k + 1 \in Nat \ {0}
      OBVIOUS
    <3> QED BY <2>2, <3>1, FibonacciLoopDef
  <2>4. /\ Fibonacci[k] \in Nat /\ Fibonacci[k + 1] \in Nat
        /\ Fibonacci[k + 2] = Fibonacci[k + 1] + Fibonacci[k]
        /\ Fibonacci[k + 2] < Prime /\ Prime \in Nat
    <3>1. k \in Nat /\ k + 1 \in Nat /\ k + 2 \in Nat /\ k + 2 <= MAX_FIBONACCI_N
      BY <2>1
    <3> QED BY <3>1, FibonacciDef, FibonacciIsFelt, CairoAssumption
  <2>5. (Fibonacci[k] + Fibonacci[k + 1]) % Prime = Fibonacci[k + 2]
    BY <2>4
  <2> QED BY <2>1, <2>3, <2>5
<1>3. Nat \subseteq P
  <2> HIDE DEF P
  <2> QED BY <1>1, <1>2, Induction
<1>4. CASE n = 0
  BY <1>4, FibonacciDef DEF ComputeFibonacci
<1>5. CASE n # 0
  <2>1. n - 1 \in P /\ (n - 1) + 1 = n
    BY <1>3, <1>5
  <2>2. FibonacciLoop[n] = <<Fibonacci[n - 1], Fibonacci[n]>>
    BY <2>1
  <2> QED BY <1>5, <2>2 DEF ComputeFibonacci
<1> QED BY <1>4, <1>5

-----------------------------------------------------------------------------
(* Merkle paths.                                                           *)

\* The parent of a node and its sibling, on the side the bit says.
Parent(node, sibling, bit) == Poseidon(IF bit = 0 THEN <<node, sibling>> ELSE <<sibling, node>>)

\* One level of compute_root hashes two felts to a felt, in either order.
LEMMA ParentIsFelt ==
    ASSUME NEW node \in Felt, NEW sibling \in Felt, NEW bit PROVE Parent(node, sibling, bit) \in Felt
BY CairoAssumption DEF Parent

\* level is the loop of compute_root, over the recursion of RootAbove.
IsLevel(level, leaf, proof, index) ==
    level = [i \in 0..Len(proof) |->
                IF i = 0
                THEN <<leaf, index>>
                ELSE LET p == level[i - 1]
                     IN  <<Poseidon(IF p[2] % 2 = 0 THEN <<p[1], proof[i]>> ELSE <<proof[i], p[1]>>),
                           p[2] \div 2>>]

IsOver(over, leaf, proof, index) ==
    over = [d \in 0..Len(proof) |->
                IF d = 0
                THEN leaf
                ELSE IF (index \div Pow2[d - 1]) % 2 = 0
                     THEN Poseidon(<<over[d - 1], proof[d]>>)
                     ELSE Poseidon(<<proof[d], over[d - 1]>>)]

\* The nodes on the path from a leaf to the root, as one function, exist.
LEMMA LevelExists ==
    ASSUME NEW leaf \in Felt, NEW proof \in Seq(Felt), NEW index \in Nat
    PROVE  \E level : IsLevel(level, leaf, proof, index)
<1> DEFINE X == Felt \X Nat
           D == 0..Len(proof)
           Up(p, i) == <<Parent(p[1], proof[i], p[2] % 2), p[2] \div 2>>
           step == [z \in Nat \X X |-> IF z[1] + 1 \in D THEN Up(z[2], z[1] + 1) ELSE z[2]]
<1>1. ASSUME NEW p \in X, NEW i \in Nat, i + 1 \in D PROVE Up(p, i + 1) \in X
  <2>1. p[1] \in Felt /\ p[2] \in Nat /\ proof[i + 1] \in Felt
    BY <1>1
  <2>2. p[2] \div 2 \in Nat /\ Parent(p[1], proof[i + 1], p[2] % 2) \in Felt
    BY <2>1, ParentIsFelt
  <2> QED BY <2>2
<1>2. step \in Steps(X) /\ <<leaf, index>> \in X
  <2>1. ASSUME NEW z \in Nat \X X
        PROVE  (IF z[1] + 1 \in D THEN Up(z[2], z[1] + 1) ELSE z[2]) \in X
    <3>1. z[1] \in Nat /\ z[2] \in X
      OBVIOUS
    <3> HIDE DEF X, Up, D
    <3> QED BY <1>1, <3>1
  <2> HIDE DEF Up, D
  <2> QED BY <2>1 DEF Steps
<1>3. ASSUME NEW i \in Nat, i + 1 \in D, NEW p \in X PROVE step[<<i, p>>] = Up(p, i + 1)
  <2> HIDE DEF Up, D
  <2> QED BY <1>3
<1> HIDE DEF step, X
<1>4. PICK f \in Recursion(<<leaf, index>>, step, X) : TRUE
  BY <1>2, RecursiveFunction
<1>5. f \in [Nat -> X] /\ f[0] = <<leaf, index>> /\ \A n \in Nat : f[n + 1] = step[<<n, f[n]>>]
  BY <1>4 DEF Recursion
<1> DEFINE level == [i \in D |-> f[i]]
<1>6. ASSUME NEW i \in D, i # 0 PROVE level[i] = Up(level[i - 1], i)
  <2>1. i - 1 \in Nat /\ (i - 1) + 1 = i /\ i - 1 \in D
    BY <1>6
  <2>2. PICK k \in Nat : k = i - 1
    BY <2>1
  <2>3. k + 1 = i /\ k + 1 \in D /\ k \in D
    BY <1>6, <2>1, <2>2
  <2>4. f[k + 1] = step[<<k, f[k]>>] /\ f[k] \in X
    BY <1>5
  <2> HIDE DEF Up, D
  <2>5. step[<<k, f[k]>>] = Up(f[k], k + 1)
    BY <1>3, <2>3, <2>4
  <2> QED BY <2>2, <2>3, <2>4, <2>5
<1>7. level[0] = <<leaf, index>> /\ level = [i \in D |-> level[i]]
  BY <1>5
<1> HIDE DEF level
<1>8. IsLevel(level, leaf, proof, index)
  BY <1>6, <1>7 DEF IsLevel, Parent
<1> QED BY <1>8

\* Shifting an index once more is dividing it by the next power of two.
LEMMA HalfOfQuotient ==
    ASSUME NEW x \in Nat, NEW y \in Nat, y > 0 PROVE (x \div y) \div 2 = x \div (2 * y)
OBVIOUS

\* The second value of the loop is the index, shifted once for each sibling.
LEMMA LevelValues ==
    ASSUME NEW leaf \in Felt, NEW proof \in Seq(Felt), NEW index \in Nat,
           NEW level, IsLevel(level, leaf, proof, index), NEW i \in 0..Len(proof)
    PROVE  level[i][1] \in Felt /\ level[i][2] = index \div Pow2[i]
<1> DEFINE P == {n \in Nat : n <= Len(proof) =>
                    level[n][1] \in Felt /\ level[n][2] = index \div Pow2[n]}
<1>1. 0 \in P
  BY Pow2Def DEF IsLevel
<1>2. ASSUME NEW n \in Nat, n \in P PROVE n + 1 \in P
  <2> SUFFICES ASSUME n + 1 <= Len(proof)
               PROVE  /\ level[n + 1][1] \in Felt
                      /\ level[n + 1][2] = index \div Pow2[n + 1]
    OBVIOUS
  <2>1. level[n][1] \in Felt /\ level[n][2] = index \div Pow2[n]
    BY <1>2
  <2>2. n + 1 \in 0..Len(proof) /\ n + 1 # 0 /\ (n + 1) - 1 = n /\ proof[n + 1] \in Felt
    OBVIOUS
  <2>3. level[n + 1] = <<Parent(level[n][1], proof[n + 1], level[n][2] % 2), level[n][2] \div 2>>
    BY <2>2 DEF IsLevel, Parent
  <2>4. Pow2[n] \in Nat /\ Pow2[n] > 0 /\ Pow2[n + 1] = 2 * Pow2[n]
    <3>1. Pow2[n] \in Nat /\ n < Pow2[n]
      BY Pow2Grows
    <3>2. Pow2[n + 1] = 2 * Pow2[n]
      BY Pow2Def
    <3> QED BY <3>1, <3>2
  <2>5. (index \div Pow2[n]) \div 2 = index \div (2 * Pow2[n])
    BY <2>4, HalfOfQuotient
  <2> QED BY <2>1, <2>2, <2>3, <2>4, <2>5, ParentIsFelt
<1>3. Nat \subseteq P
  <2> HIDE DEF P
  <2> QED BY <1>1, <1>2, Induction
<1> QED BY <1>3

\* A loop of compute_root is a root over the leaf.
LEMMA LevelIsOver ==
    ASSUME NEW leaf \in Felt, NEW proof \in Seq(Felt), NEW index \in Nat,
           NEW level, IsLevel(level, leaf, proof, index)
    PROVE  IsOver([d \in 0..Len(proof) |-> level[d][1]], leaf, proof, index)
<1> DEFINE over == [d \in 0..Len(proof) |-> level[d][1]]
<1>1. over[0] = leaf
  BY DEF IsLevel
<1>2. ASSUME NEW d \in 0..Len(proof), d # 0
      PROVE  over[d] = Parent(over[d - 1], proof[d], (index \div Pow2[d - 1]) % 2)
  <2>1. d - 1 \in 0..Len(proof)
    BY <1>2
  <2>2. level[d][1] = Parent(level[d - 1][1], proof[d], level[d - 1][2] % 2)
    BY <1>2 DEF IsLevel, Parent
  <2>3. level[d - 1][2] = index \div Pow2[d - 1]
    BY <2>1, LevelValues
  <2> QED BY <2>1, <2>2, <2>3
<1>3. over = [d \in 0..Len(proof) |-> over[d]]
  OBVIOUS
<1> SUFFICES IsOver(over, leaf, proof, index)
  OBVIOUS
<1> HIDE DEF over
<1> QED BY <1>1, <1>2, <1>3 DEF IsOver, Parent

\* There is only one.
LEMMA OverIsUnique ==
    ASSUME NEW leaf \in Felt, NEW proof \in Seq(Felt), NEW index \in Nat,
           NEW f, IsOver(f, leaf, proof, index), NEW g, IsOver(g, leaf, proof, index)
    PROVE  f[Len(proof)] = g[Len(proof)]
<1> DEFINE P == {n \in Nat : n <= Len(proof) => f[n] = g[n]}
<1>1. 0 \in P
  BY DEF IsOver
<1>2. ASSUME NEW n \in Nat, n \in P PROVE n + 1 \in P
  <2> SUFFICES ASSUME n + 1 <= Len(proof) PROVE f[n + 1] = g[n + 1]
    OBVIOUS
  <2>1. n + 1 \in 0..Len(proof) /\ n + 1 # 0 /\ (n + 1) - 1 = n /\ f[n] = g[n]
    BY <1>2
  <2>2. f[n + 1] = Parent(f[n], proof[n + 1], (index \div Pow2[n]) % 2)
    BY <2>1 DEF IsOver, Parent
  <2>3. g[n + 1] = Parent(g[n], proof[n + 1], (index \div Pow2[n]) % 2)
    BY <2>1 DEF IsOver, Parent
  <2> QED BY <2>1, <2>2, <2>3
<1>3. Nat \subseteq P
  <2> HIDE DEF P
  <2> QED BY <1>1, <1>2, Induction
<1> QED BY <1>3

\* compute_root returns the root over the leaf at the position of the index.
LEMMA ComputeRootIsRoot ==
    ASSUME NEW leaf \in Felt, NEW proof \in Seq(Felt), NEW index \in Nat
    PROVE  ComputeRoot(leaf, proof, index) = RootAbove(leaf, proof, index)
<1> DEFINE level == CHOOSE l : IsLevel(l, leaf, proof, index)
           over == CHOOSE o : IsOver(o, leaf, proof, index)
<1>1. ComputeRoot(leaf, proof, index) = level[Len(proof)][1]
  BY DEF ComputeRoot, IsLevel
<1>2. RootAbove(leaf, proof, index) = over[Len(proof)]
  BY DEF RootAbove, IsOver
<1>3. IsLevel(level, leaf, proof, index)
  BY LevelExists
<1> HIDE DEF level
<1>4. IsOver([d \in 0..Len(proof) |-> level[d][1]], leaf, proof, index)
  BY <1>3, LevelIsOver
<1>5. IsOver(over, leaf, proof, index)
  BY <1>4
<1> HIDE DEF over
<1> QED BY <1>1, <1>2, <1>4, <1>5, OverIsUnique

-----------------------------------------------------------------------------
(* Words.                                                                  *)

\* Concatenation, value by value.
LEMMA Concat ==
    ASSUME NEW S, NEW x \in Seq(S), NEW y \in Seq(S), NEW z \in Seq(S),
           Len(z) = Len(x) + Len(y),
           \A i \in 1..Len(x) : z[i] = x[i],
           \A i \in 1..Len(y) : z[Len(x) + i] = y[i]
    PROVE  x \o y = z
<1>1. x \o y \in Seq(S) /\ Len(x \o y) = Len(x) + Len(y)
  BY ConcatProperties, Zenon
<1>2. \A i \in 1..(Len(x) + Len(y)) : (x \o y)[i] = IF i <= Len(x) THEN x[i] ELSE y[i - Len(x)]
  BY ConcatProperties, Zenon
<1>3. PICK w : w = x \o y
  OBVIOUS
<1>4. w \in Seq(S) /\ Len(w) = Len(z)
  BY <1>1, <1>3, Zenon
<1>5. ASSUME NEW i \in 1..Len(w) PROVE w[i] = z[i]
  <2>1. i \in 1..(Len(x) + Len(y)) /\ w[i] = IF i <= Len(x) THEN x[i] ELSE y[i - Len(x)]
    BY <1>2, <1>3, <1>4, Zenon
  <2>2. CASE i <= Len(x)
    BY <2>1, <2>2
  <2>3. CASE ~(i <= Len(x))
    <3>1. i - Len(x) \in 1..Len(y) /\ Len(x) + (i - Len(x)) = i
      BY <2>1, <2>3
    <3> QED BY <2>1, <2>3, <3>1
  <2> QED BY <2>2, <2>3
<1>6. w = z
  BY <1>4, <1>5, SeqEqual
<1> QED BY <1>3, <1>6

\* A part of a sequence.
LEMMA Piece ==
    ASSUME NEW S, NEW w, NEW t \in Seq(S), NEW k \in Nat,
           \A i \in 1..Len(t) : w[k + i] = t[i]
    PROVE  SubSeq(w, k + 1, k + Len(t)) = t
<1> DEFINE m == k + 1
           n == k + Len(t)
<1>1. m \in Int /\ n \in Int /\ n - m + 1 = Len(t) /\ Len(t) \in Nat
  OBVIOUS
<1>2. ASSUME NEW i \in m..n PROVE w[i] \in S
  <2>1. i - k \in 1..Len(t) /\ k + (i - k) = i
    OBVIOUS
  <2>2. w[k + (i - k)] = t[i - k]
    BY <2>1
  <2> QED BY <2>1, <2>2
<1>3. \A i \in 1..Len(t) : m + i - 1 = k + i
  OBVIOUS
<1> SUFFICES SubSeq(w, m, n) = t
  OBVIOUS
<1>4. IF m <= n THEN n - m + 1 = Len(t) ELSE Len(t) = 0
  OBVIOUS
<1> HIDE DEF m, n
<1>5. /\ SubSeq(w, m, n) \in Seq(S)
      /\ Len(SubSeq(w, m, n)) = IF m <= n THEN n - m + 1 ELSE 0
      /\ \A i \in 1..(n - m + 1) : SubSeq(w, m, n)[i] = w[m + i - 1]
  BY <1>1, <1>2, SubSeqProperties
<1>6. Len(SubSeq(w, m, n)) = Len(t) /\ \A i \in 1..Len(t) : SubSeq(w, m, n)[i] = t[i]
  BY <1>1, <1>3, <1>4, <1>5
<1> QED BY <1>5, <1>6, SeqEqual

\* A service id and two arrays, each after its length.
WordOf(id, f, s) == <<id, Len(f)>> \o f \o <<Len(s)>> \o s

\* First and Second read the two arrays back.
LEMMA WordLayout ==
    ASSUME NEW S, Nat \subseteq S, NEW f \in Seq(S), NEW s \in Seq(S), NEW id \in S,
           NEW w, w = WordOf(id, f, s)
    PROVE  /\ Len(w) = 3 + Len(f) + Len(s)
           /\ w[1] = id /\ w[2] = Len(f) /\ w[3 + Len(f)] = Len(s)
           /\ First(w) = f /\ Second(w) = s
           /\ w \in Seq(S)
<1>1. <<id, Len(f)>> \in Seq(S) /\ <<Len(s)>> \in Seq(S) /\ Len(f) \in Nat /\ Len(s) \in Nat
  OBVIOUS
<1> DEFINE a == <<id, Len(f)>>
           b == a \o f
           c == b \o <<Len(s)>>
<1>2. b \in Seq(S) /\ Len(b) = 2 + Len(f) /\ b[1] = id /\ b[2] = Len(f)
      /\ \A i \in 1..Len(f) : b[2 + i] = f[i]
  BY <1>1
<1> HIDE DEF b
<1>3. c \in Seq(S) /\ Len(c) = 3 + Len(f) /\ c[3 + Len(f)] = Len(s)
      /\ \A i \in 1..(2 + Len(f)) : c[i] = b[i]
  BY <1>1, <1>2
<1>4. w = c \o s
  BY DEF b, WordOf
<1> HIDE DEF c
<1>5. w \in Seq(S) /\ Len(w) = Len(c) + Len(s)
  BY <1>3, <1>4, ConcatProperties
<1>6. \A i \in 1..(Len(c) + Len(s)) : w[i] = IF i <= Len(c) THEN c[i] ELSE s[i - Len(c)]
  BY <1>3, <1>4, ConcatProperties
<1>7. ASSUME NEW i \in 1..(3 + Len(f)) PROVE w[i] = c[i]
  <2>1. i \in 1..(Len(c) + Len(s)) /\ i <= Len(c)
    BY <1>1, <1>3
  <2> QED BY <1>6, <2>1
<1>8. w \in Seq(S) /\ Len(w) = 3 + Len(f) + Len(s)
      /\ \A i \in 1..(3 + Len(f)) : w[i] = c[i]
  BY <1>1, <1>3, <1>5, <1>7
<1>9. ASSUME NEW i \in 1..Len(s) PROVE w[3 + Len(f) + i] = s[i]
  BY <1>1, <1>3, <1>6
<1>10. w[1] = id /\ w[2] = Len(f) /\ w[3 + Len(f)] = Len(s)
  BY <1>1, <1>2, <1>3, <1>8
<1>11. First(w) = f
  <2>1. \A i \in 1..Len(f) : w[2 + i] = f[i]
    BY <1>1, <1>2, <1>3, <1>8
  <2>2. SubSeq(w, 2 + 1, 2 + Len(f)) = f
    BY <2>1, Piece
  <2> QED BY <1>10, <2>2 DEF First
<1>12. Second(w) = s
  <2> DEFINE k == 3 + Len(f)
  <2>1. k \in Nat /\ k + 1 = 4 + Len(f) /\ \A i \in 1..Len(s) : w[k + i] = s[i]
    BY <1>1, <1>9
  <2>2. Second(w) = SubSeq(w, 4 + Len(f), k + Len(s))
    BY <1>10 DEF Second
  <2> HIDE DEF k
  <2>3. SubSeq(w, k + 1, k + Len(s)) = s
    BY <2>1, Piece
  <2> QED BY <2>1, <2>2, <2>3
<1> QED BY <1>8, <1>10, <1>11, <1>12

\* The first value of an encoded word is the id of its service.
LEMMA WordId ==
    ASSUME NEW S, Nat \subseteq S, NEW f \in Seq(S), NEW s \in Seq(S), NEW id \in S
    PROVE  WordOf(id, f, s)[1] = id
BY WordLayout

\* A word of naturals can be taken apart again.
LEMMA NatWord ==
    ASSUME NEW f \in Seq(Nat), NEW s \in Seq(Nat), NEW id \in Nat
    PROVE  /\ WordOf(id, f, s)[1] = id
           /\ First(WordOf(id, f, s)) = f /\ Second(WordOf(id, f, s)) = s
           /\ WordOf(id, f, s) \in Seq(Nat)
<1> DEFINE S == Nat
<1>1. f \in Seq(S) /\ s \in Seq(S) /\ id \in S /\ Nat \subseteq S
  OBVIOUS
<1> SUFFICES WordOf(id, f, s)[1] = id /\ First(WordOf(id, f, s)) = f /\ Second(WordOf(id, f, s)) = s
             /\ WordOf(id, f, s) \in Seq(S)
  OBVIOUS
<1> HIDE DEF S
<1>2. WordOf(id, f, s)[1] = id
  BY <1>1, WordId, Zenon
<1>3. First(WordOf(id, f, s)) = f
  BY <1>1, WordLayout
<1>4. Second(WordOf(id, f, s)) = s
  BY <1>1, WordLayout
<1>5. WordOf(id, f, s) \in Seq(S)
  BY <1>1, WordLayout
<1> QED BY <1>2, <1>3, <1>4, <1>5

\* Two arrays that are short enough make a word the cursor accepts.
LEMMA WordIsWellFormed ==
    ASSUME NEW S, Nat \subseteq S, NEW f \in Seq(S), NEW s \in Seq(S), NEW id \in Nat,
           IsU64(id), IsU64(Len(f)), IsU64(Len(s))
    PROVE  WellFormed(WordOf(id, f, s))
<1> DEFINE w == WordOf(id, f, s)
<1>1. id \in S
  OBVIOUS
<1>2. /\ Len(w) = 3 + Len(f) + Len(s)
      /\ w[1] = id /\ w[2] = Len(f) /\ w[3 + Len(f)] = Len(s)
  BY <1>1, WordLayout
<1> HIDE DEF w
<1>3. Len(f) \in Nat /\ Len(s) \in Nat
  OBVIOUS
<1>4. WellFormed(w)
  BY <1>2, <1>3 DEF WellFormed
<1> QED BY <1>4 DEF w

\* Ids and services determine each other.
LEMMA ServiceOfId ==
    ASSUME NEW t \in DOMAIN ServiceId
    PROVE  ServiceOf(ServiceId[t]) = t /\ ServiceId[t] \in {1, 2, 3} /\ IsU64(ServiceId[t])
<1>1. \A u \in DOMAIN ServiceId : ServiceId[u] = ServiceId[t] => u = t
  BY DEF ServiceId
<1>2. ServiceId[t] \in {1, 2, 3}
  BY DEF ServiceId
<1>3. IsU64(ServiceId[t])
  BY <1>2, CairoAssumption DEF IsU64
<1>4. ServiceOf(ServiceId[t]) = t
  BY <1>1 DEF ServiceOf
<1> QED BY <1>2, <1>3, <1>4

-----------------------------------------------------------------------------
(* A job, encoded, run and decoded.                                        *)

PrivateOf(j) ==
    CASE j.type = "fibonacci" -> <<>>
      [] j.type = "hash_verify" -> <<j.preimage>>
      [] j.type = "merkle_proof" -> j.proof

\* The fields of a JobInput have the types encode_job expects.
LEMMA JobTypes ==
    ASSUME NEW j \in JobInput
    PROVE  /\ j.type \in DOMAIN ServiceId
           /\ j.type = "fibonacci" => j.n \in Nat /\ j.n < U64
           /\ j.type = "hash_verify" => j.hash \in Felt /\ j.preimage \in Felt
           /\ j.type = "merkle_proof" =>
                 /\ j.root \in Felt /\ j.leaf \in Felt /\ j.proof \in Seq(Felt)
                 /\ j.index \in Nat /\ j.index < U64
BY CairoAssumption DEF JobInput, ServiceId

\* What the pieces of an encoded Merkle job look like when put together.
LEMMA SixValues ==
    ASSUME NEW S, NEW a \in S, NEW b \in S, NEW c \in S, NEW d \in S, NEW e \in S, NEW f \in S
    PROVE  <<a, b>> \o <<c, d, e>> \o <<f>> = <<a, b, c, d, e, f>>
<1>1. <<a, b>> \o <<c, d, e>> = <<a, b, c, d, e>>
  <2> DEFINE x == <<a, b>>
             y == <<c, d, e>>
             z == <<a, b, c, d, e>>
  <2>1. x \in Seq(S) /\ Len(x) = 2 /\ x[1] = a /\ x[2] = b
    OBVIOUS
  <2>2. y \in Seq(S) /\ Len(y) = 3 /\ y[1] = c /\ y[2] = d /\ y[3] = e
    OBVIOUS
  <2>3. z \in Seq(S) /\ Len(z) = 5 /\ z[1] = a /\ z[2] = b /\ z[3] = c /\ z[4] = d /\ z[5] = e
    OBVIOUS
  <2> HIDE DEF x, y, z
  <2>4. \A i \in 1..Len(x) : z[i] = x[i]
    BY <2>1, <2>3
  <2>5. \A i \in 1..Len(y) : z[Len(x) + i] = y[i]
    BY <2>1, <2>2, <2>3
  <2>6. Len(z) = Len(x) + Len(y)
    BY <2>1, <2>2, <2>3
  <2>7. x \o y = z
    BY <2>1, <2>2, <2>3, <2>4, <2>5, <2>6, Concat
  <2> QED BY <2>7 DEF x, y, z
<1>2. <<a, b, c, d, e>> \o <<f>> = <<a, b, c, d, e, f>>
  <2> DEFINE x == <<a, b, c, d, e>>
             z == <<a, b, c, d, e, f>>
  <2>1. z = Append(x, f)
    OBVIOUS
  <2>2. x \in Seq(S)
    OBVIOUS
  <2> HIDE DEF x
  <2>3. x \o <<f>> = Append(x, f)
    BY <2>2, AppendIsConcat
  <2> QED BY <2>1, <2>3 DEF x
<1> QED BY <1>1, <1>2

\* encode_job writes the id, the public inputs and the private inputs of the
\* job.
LEMMA JobPieces ==
    ASSUME NEW j \in JobInput
    PROVE  /\ PublicInput(j) \in Seq(Nat) /\ PrivateOf(j) \in Seq(Nat)
           /\ Len(PublicInput(j)) = Arity[j.type]
           /\ EncodeJob(j) = WordOf(ServiceId[j.type], PublicInput(j), PrivateOf(j))
<1>1. Felt \subseteq Nat
  BY CairoAssumption DEF Felt
<1>2. CASE j.type = "fibonacci"
  BY <1>2, JobTypes DEF PublicInput, PrivateOf, EncodeJob, WordOf, ServiceId, Arity
<1>3. CASE j.type = "hash_verify"
  BY <1>1, <1>3, JobTypes DEF PublicInput, PrivateOf, EncodeJob, WordOf, ServiceId, Arity
<1>4. CASE j.type = "merkle_proof"
  <2>1. /\ j.root \in Nat /\ j.leaf \in Nat /\ j.index \in Nat /\ j.proof \in Seq(Felt)
    BY <1>1, <1>4, JobTypes
  <2>a. j.proof \in Seq(Nat) /\ Len(j.proof) \in Nat
    <3>1. j.proof \in Seq(Nat)
      BY <1>1, <2>1, SeqMonotonic, Zenon
    <3> QED BY <3>1
  <2>2. PublicInput(j) = <<j.root, j.leaf, j.index>> /\ PrivateOf(j) = j.proof
    BY <1>4 DEF PublicInput, PrivateOf
  <2>3. <<3, 3>> \o <<j.root, j.leaf, j.index>> \o <<Len(j.proof)>>
        = <<3, 3, j.root, j.leaf, j.index, Len(j.proof)>>
    <3>1. 3 \in Nat
      OBVIOUS
    <3> QED BY <2>1, <2>a, <3>1, SixValues
  <2>4. EncodeJob(j) = <<3, 3, j.root, j.leaf, j.index, Len(j.proof)>> \o j.proof
    BY <1>4 DEF EncodeJob, ServiceId
  <2>5. WordOf(3, PublicInput(j), PrivateOf(j))
        = <<3, 3>> \o <<j.root, j.leaf, j.index>> \o <<Len(j.proof)>> \o j.proof
    BY <2>2 DEF WordOf
  <2>6. EncodeJob(j) = WordOf(ServiceId[j.type], PublicInput(j), PrivateOf(j))
    BY <1>4, <2>3, <2>4, <2>5 DEF ServiceId
  <2>7. PublicInput(j) \in Seq(Nat) /\ Len(PublicInput(j)) = Arity[j.type]
    BY <1>4, <2>1, <2>2 DEF Arity
  <2> QED BY <2>2, <2>6, <2>7, <2>a
<1> QED BY <1>2, <1>3, <1>4, JobTypes DEF ServiceId

\* encode_job, read by main: the executable gets the arrays of the job.
LEMMA EncodedJob ==
    ASSUME NEW j \in JobInput, NEW w, w = EncodeJob(j)
    PROVE  w[1] = ServiceId[j.type] /\ First(w) = PublicInput(j) /\ Second(w) = PrivateOf(j)
<1>1. ServiceId[j.type] \in Nat
  BY JobTypes, ServiceOfId
<1>2. /\ PublicInput(j) \in Seq(Nat) /\ PrivateOf(j) \in Seq(Nat)
      /\ w = WordOf(ServiceId[j.type], PublicInput(j), PrivateOf(j))
  BY JobPieces
<1> DEFINE id == ServiceId[j.type]
           f == PublicInput(j)
           p == PrivateOf(j)
<1>3. id \in Nat /\ f \in Seq(Nat) /\ p \in Seq(Nat) /\ w = WordOf(id, f, p)
  BY <1>1, <1>2
<1> SUFFICES w[1] = id /\ First(w) = f /\ Second(w) = p
  OBVIOUS
<1> HIDE DEF id, f, p
<1>4. WordOf(id, f, p)[1] = id
  BY <1>3, NatWord
<1>5. First(WordOf(id, f, p)) = f
  BY <1>3, NatWord
<1>6. Second(WordOf(id, f, p)) = p
  BY <1>3, NatWord
<1> QED BY <1>3, <1>4, <1>5, <1>6, Zenon

\* A job within the bounds makes the executable neither misread its arguments
\* nor panic.
LEMMA ValidJobRuns ==
    ASSUME NEW j \in JobInput, Validate(j)
    PROVE  /\ WellFormed(EncodeJob(j))
           /\ Asserts(ServiceId[j.type], PublicInput(j), PrivateOf(j))
<1>1. Asserts(ServiceId[j.type], PublicInput(j), PrivateOf(j))
  <2>1. CASE j.type = "fibonacci"
    BY <2>1, JobTypes DEF Asserts, Validate, ServiceId, PublicInput, PrivateOf, IsU64
  <2>2. CASE j.type = "hash_verify"
    BY <2>2, JobTypes DEF Asserts, ServiceId, PublicInput, PrivateOf
  <2>3. CASE j.type = "merkle_proof"
    <3>1. ServiceId[j.type] = ServiceId.merkle_proof /\ PrivateOf(j) = j.proof
          /\ PublicInput(j) = <<j.root, j.leaf, j.index>>
      BY <2>3 DEF ServiceId, PublicInput, PrivateOf
    <3>2. Len(j.proof) <= MAX_MERKLE_DEPTH /\ j.index \in Nat /\ IsU64(j.index)
      BY <2>3, JobTypes DEF Validate, IsU64
    <3>3. j.index < Pow2[Len(j.proof)]
      <4>1. CASE j.proof = <<>>
        <5>1. j.index = 0 /\ Len(j.proof) = 0
          BY <2>3, <4>1 DEF Validate
        <5> QED BY <5>1, Pow2Def
      <4>2. CASE j.proof # <<>>
        BY <2>3, <4>2 DEF Validate
      <4> QED BY <4>1, <4>2
    <3> QED BY <3>1, <3>2, <3>3 DEF Asserts
  <2> QED BY <2>1, <2>2, <2>3, JobTypes DEF ServiceId
<1>2. Len(PublicInput(j)) \in {1, 3}
  <2>1. Arity[j.type] \in {1, 3}
    BY JobTypes DEF Arity, ServiceId
  <2> QED BY <2>1, JobPieces
<1>3. Len(PrivateOf(j)) < U64 /\ Len(PrivateOf(j)) \in Nat
  <2>1. CASE j.type = "merkle_proof"
    <3>1. PrivateOf(j) = j.proof /\ Len(j.proof) \in Nat /\ Len(j.proof) <= MAX_MERKLE_DEPTH
      BY <2>1, JobTypes DEF Validate, PrivateOf
    <3> QED BY <3>1, DepthIsU64, CairoAssumption
  <2>2. CASE j.type \in {"fibonacci", "hash_verify"}
    <3>1. Len(PrivateOf(j)) \in {0, 1}
      BY <2>2 DEF PrivateOf
    <3>2. U64 \in Nat /\ 0 < U64 /\ 1 < U64
      BY CairoAssumption
    <3>3. CASE Len(PrivateOf(j)) = 0
      BY <3>2, <3>3
    <3>4. CASE Len(PrivateOf(j)) = 1
      BY <3>2, <3>4
    <3> QED BY <3>1, <3>3, <3>4
  <2> QED BY <2>1, <2>2, JobTypes DEF ServiceId
<1>4. IsU64(ServiceId[j.type]) /\ IsU64(Len(PublicInput(j))) /\ IsU64(Len(PrivateOf(j)))
      /\ ServiceId[j.type] \in Nat
  <2>1. IsU64(ServiceId[j.type]) /\ ServiceId[j.type] \in Nat
    BY JobTypes, ServiceOfId
  <2>2. U64 \in Nat /\ 1 < U64 /\ 3 < U64
    BY CairoAssumption
  <2>3. Len(PublicInput(j)) < U64
    BY <1>2, <2>2
  <2> QED BY <1>3, <2>1, <2>3 DEF IsU64
<1>5. WellFormed(WordOf(ServiceId[j.type], PublicInput(j), PrivateOf(j)))
  <2>1. PublicInput(j) \in Seq(Nat) /\ PrivateOf(j) \in Seq(Nat) /\ Nat \subseteq Nat
    BY JobPieces
  <2> QED BY <1>4, <2>1, WordIsWellFormed, Zenon
<1> QED BY <1>1, <1>5, JobPieces

\* The value main computes.
Output(service, public, private) ==
    CASE service = ServiceId.fibonacci -> ComputeFibonacci(public[1])
      [] service = ServiceId.hash_verify -> BooleanFelt(VerifyHash(public[1], private[1]))
      [] service = ServiceId.merkle_proof ->
            BooleanFelt(VerifyMerkleProof(public[1], public[2], private, public[3]))

\* The same for the output of a service with two values.
LEMMA TwoValues ==
    ASSUME NEW S, NEW a \in S, NEW b \in S PROVE <<a>> \o <<b>> = <<a, b>>
<1> DEFINE x == <<a>>
           z == <<a, b>>
<1>1. z = Append(x, b)
  OBVIOUS
<1>2. x \in Seq(S)
  OBVIOUS
<1> HIDE DEF x
<1>3. x \o <<b>> = Append(x, b)
  BY <1>2, AppendIsConcat
<1> QED BY <1>1, <1>3 DEF x

\* The return value of main is a word, with one output.
LEMMA MainIsWord ==
    ASSUME NEW S, Nat \subseteq S, NEW service \in S, NEW public \in Seq(S), NEW private,
           NEW o \in S, o = Output(service, public, private)
    PROVE  Main(service, public, private) = WordOf(service, public, <<o>>)
<1> DEFINE a == <<service, Len(public)>> \o public
<1>1. a \in Seq(S)
  <2>1. <<service, Len(public)>> \in Seq(S)
    OBVIOUS
  <2> QED BY <2>1, ConcatProperties
<1>2. Main(service, public, private) = a \o <<1, o>>
  BY DEF Main, Output
<1>3. Len(<<o>>) = 1
  OBVIOUS
<1>4. WordOf(service, public, <<o>>) = a \o <<1>> \o <<o>>
  BY <1>3 DEF WordOf
<1> HIDE DEF a
<1>5. <<1>> \in Seq(S) /\ <<o>> \in Seq(S)
  OBVIOUS
<1>6. <<1>> \o <<o>> = <<1, o>>
  <2>1. 1 \in S
    OBVIOUS
  <2> QED BY <2>1, TwoValues
<1>7. a \o <<1>> \o <<o>> = a \o (<<1>> \o <<o>>)
  BY <1>1, <1>5, ConcatAssociative
<1> QED BY <1>2, <1>4, <1>6, <1>7

\* The value main computes for a job within the bounds is the answer to it.
LEMMA ValidOutput ==
    ASSUME NEW j \in JobInput, Validate(j),
           NEW o, o = Output(ServiceId[j.type], PublicInput(j), PrivateOf(j))
    PROVE  /\ o \in Nat
           /\ j.type = "fibonacci" => Answer(j) = [type |-> j.type, result |-> o]
           /\ j.type # "fibonacci" =>
                 o \in {0, 1} /\ Answer(j) = [type |-> j.type, valid |-> o = 1]
<1>1. CASE j.type = "fibonacci"
  <2>1. j.n \in Nat /\ j.n <= MAX_FIBONACCI_N
    BY <1>1, JobTypes DEF Validate
  <2>2. o = ComputeFibonacci(j.n)
    BY <1>1 DEF Output, ServiceId, PublicInput
  <2>3. o = Fibonacci[j.n] /\ o \in Nat
    BY <2>1, <2>2, ComputeFibonacciIsExact, FibonacciDef
  <2>4. Answer(j) = [type |-> j.type, result |-> Fibonacci[j.n]]
    BY <1>1 DEF Answer
  <2> QED BY <1>1, <2>3, <2>4
<1>2. CASE j.type = "hash_verify"
  <2>1. o = BooleanFelt(Poseidon(<<j.preimage>>) = j.hash)
    BY <1>2 DEF Output, ServiceId, PublicInput, PrivateOf, VerifyHash
  <2>2. Answer(j) = [type |-> j.type, valid |-> Poseidon(<<j.preimage>>) = j.hash]
    BY <1>2 DEF Answer
  <2>3. o \in {0, 1} /\ (o = 1 <=> Poseidon(<<j.preimage>>) = j.hash)
    BY <2>1 DEF BooleanFelt
  <2>4. (o = 1) = (Poseidon(<<j.preimage>>) = j.hash)
    BY <2>3
  <2>5. o \in Nat
    BY <2>3
  <2> QED BY <1>2, <2>2, <2>3, <2>4, <2>5
<1>3. CASE j.type = "merkle_proof"
  <2>1. o = BooleanFelt(ComputeRoot(j.leaf, j.proof, j.index) = j.root)
    BY <1>3 DEF Output, ServiceId, PublicInput, PrivateOf, VerifyMerkleProof
  <2>2. ComputeRoot(j.leaf, j.proof, j.index) = RootAbove(j.leaf, j.proof, j.index)
    BY <1>3, JobTypes, ComputeRootIsRoot
  <2>3. Answer(j) = [type |-> j.type, valid |-> RootAbove(j.leaf, j.proof, j.index) = j.root]
    BY <1>3 DEF Answer
  <2>4. o \in {0, 1} /\ (o = 1 <=> RootAbove(j.leaf, j.proof, j.index) = j.root)
    BY <2>1, <2>2 DEF BooleanFelt
  <2>5. (o = 1) = (RootAbove(j.leaf, j.proof, j.index) = j.root)
    BY <2>4
  <2>6. o \in Nat
    BY <2>4
  <2> QED BY <1>3, <2>3, <2>4, <2>5, <2>6
<1> QED BY <1>1, <1>2, <1>3, JobTypes DEF ServiceId

\* What decode_statement makes of a word with one output.
LEMMA DecodedWord ==
    ASSUME NEW t \in DOMAIN ServiceId, NEW f \in Seq(Nat), Len(f) = Arity[t],
           NEW o \in Nat, t # "fibonacci" => o \in {0, 1},
           NEW w, w = WordOf(ServiceId[t], f, <<o>>)
    PROVE  /\ w \in Seq(Nat) /\ Decodable(w)
           /\ DecodeStatement(w) = [service |-> t, public_input |-> f, public_output |-> <<o>>,
                                    output |-> IF t = "fibonacci"
                                               THEN [type |-> t, result |-> o]
                                               ELSE [type |-> t, valid |-> o = 1]]
           /\ ValidStatement(DecodeStatement(w))
<1>1. <<o>> \in Seq(Nat) /\ Len(<<o>>) = 1 /\ <<o>>[1] = o
  OBVIOUS
<1>2. ServiceId[t] \in Nat /\ IsU64(ServiceId[t]) /\ ServiceOf(ServiceId[t]) = t
  BY ServiceOfId
<1>3. w[1] = ServiceId[t] /\ First(w) = f /\ Second(w) = <<o>> /\ w \in Seq(Nat)
  <2> DEFINE id == ServiceId[t]
             s == <<o>>
  <2>1. id \in Nat /\ s \in Seq(Nat) /\ w = WordOf(id, f, s)
    BY <1>1, <1>2
  <2> SUFFICES w[1] = id /\ First(w) = f /\ Second(w) = s /\ w \in Seq(Nat)
    OBVIOUS
  <2> HIDE DEF id, s
  <2>2. WordOf(id, f, s)[1] = id
    BY <2>1, NatWord
  <2>3. First(WordOf(id, f, s)) = f
    BY <2>1, NatWord
  <2>4. Second(WordOf(id, f, s)) = s
    BY <2>1, NatWord
  <2>5. WordOf(id, f, s) \in Seq(Nat)
    BY <2>1, NatWord
  <2> QED BY <2>1, <2>2, <2>3, <2>4, <2>5, Zenon
<1>4. WellFormed(w)
  <2>1. U64 \in Nat /\ 1 < U64 /\ 3 < U64
    BY CairoAssumption
  <2>2. Arity[t] \in {1, 3}
    BY DEF Arity, ServiceId
  <2>3. IsU64(Len(f)) /\ IsU64(Len(<<o>>))
    BY <1>1, <2>1, <2>2 DEF IsU64
  <2>4. Nat \subseteq Nat
    OBVIOUS
  <2> QED BY <1>1, <1>2, <2>3, <2>4, WordIsWellFormed, Zenon
<1>5. ServiceId[t] # ServiceId.fibonacci <=> t # "fibonacci"
  BY DEF ServiceId
<1>6. Decodable(w)
  BY <1>1, <1>2, <1>3, <1>4, <1>5 DEF Decodable
<1> DEFINE out == IF t = "fibonacci" THEN [type |-> t, result |-> o]
                                     ELSE [type |-> t, valid |-> o = 1]
           st == [service |-> t, public_input |-> f, public_output |-> <<o>>, output |-> out]
<1>7. DecodeStatement(w) = st
  BY <1>1, <1>2, <1>3, Zenon DEF DecodeStatement
<1>8. ValidStatement(st)
  <2>1. CASE t = "fibonacci"
    BY <2>1 DEF ValidStatement
  <2>2. CASE t # "fibonacci"
    <3>1. BooleanFelt(o = 1) = o
      BY <2>2 DEF BooleanFelt
    <3> QED BY <2>2, <3>1 DEF ValidStatement
  <2> QED BY <2>1, <2>2
<1> HIDE DEF st
<1>9. ValidStatement(DecodeStatement(w))
  BY <1>7, <1>8
<1> QED BY <1>3, <1>6, <1>7, <1>9 DEF st

\* The run of the reviewed program on a job within the bounds.
RunOf(j) == Main(ServiceId[j.type], PublicInput(j), PrivateOf(j))

\* Its public output is decoded to the true answer to the job.
LEMMA RunIsAnswer ==
    ASSUME NEW j \in JobInput, Validate(j)
    PROVE  /\ RunOf(j) \in Seq(Nat)
           /\ Decodable(RunOf(j))
           /\ ValidStatement(DecodeStatement(RunOf(j)))
           /\ DecodeStatement(RunOf(j)).service = j.type
           /\ DecodeStatement(RunOf(j)).public_input = PublicInput(j)
           /\ DecodeStatement(RunOf(j)).output = Answer(j)
<1> DEFINE t == j.type
           f == PublicInput(j)
           o == Output(ServiceId[t], f, PrivateOf(j))
           w == WordOf(ServiceId[t], f, <<o>>)
           st == [service |-> t, public_input |-> f, public_output |-> <<o>>,
                  output |-> IF t = "fibonacci" THEN [type |-> t, result |-> o]
                                                ELSE [type |-> t, valid |-> o = 1]]
<1>1. t \in DOMAIN ServiceId /\ f \in Seq(Nat) /\ Len(f) = Arity[t] /\ ServiceId[t] \in Nat
  BY JobTypes, JobPieces, ServiceOfId
<1>2. /\ o \in Nat /\ (t # "fibonacci" => o \in {0, 1})
      /\ Answer(j) = IF t = "fibonacci" THEN [type |-> t, result |-> o]
                                        ELSE [type |-> t, valid |-> o = 1]
  BY ValidOutput
<1>3. RunOf(j) = w
  <2> DEFINE id == ServiceId[t]
             p == PrivateOf(j)
             S == Nat
  <2>1. id \in S /\ f \in Seq(S) /\ o \in S /\ o = Output(id, f, p) /\ Nat \subseteq S
    BY <1>1, <1>2
  <2>2. RunOf(j) = Main(id, f, p) /\ w = WordOf(id, f, <<o>>)
    BY DEF RunOf
  <2> HIDE DEF id, p, f, o, S
  <2>3. Main(id, f, p) = WordOf(id, f, <<o>>)
    BY <2>1, MainIsWord
  <2> QED BY <2>2, <2>3
<1> HIDE DEF t, f, o
<1>4. w \in Seq(Nat) /\ Decodable(w) /\ DecodeStatement(w) = st /\ ValidStatement(DecodeStatement(w))
  BY <1>1, <1>2, DecodedWord
<1> HIDE DEF w
<1>5. st.service = t /\ st.public_input = f /\ st.output = Answer(j)
  BY <1>2
<1> HIDE DEF st
<1> QED BY <1>3, <1>4, <1>5 DEF t, f

-----------------------------------------------------------------------------
(* The engine.                                                             *)

Running == {"execute", "prove", "verify", "match", "answered"}
Traced == {"prove", "verify", "match", "answered"}

\* What the stages hand on: a job that is being proved is within the bounds, a
\* trace of the reviewed program is the run of that job, and a statement is what
\* the trace decodes to.
TraceInv ==
    /\ stage \in Running => Validate(job)
    /\ stage \in Traced /\ trace.program = "trusted" => trace.word = RunOf(job)
    /\ stage \in {"match", "answered"} =>
          trace.program = "trusted" /\ statement = DecodeStatement(trace.word)

\* The file is the one whose digest was checked, unless it was replaced since;
\* and only that can make a job within the bounds fail for what it says.
FileInv ==
    /\ stage \notin {"unbuilt", "failed"} /\ ~replaced => executable = "trusted"
    /\ stage \in Traced /\ trace.program # "trusted" => replaced
    /\ stage = "unbuilt" => ~replaced
    /\ failure \in {"execution", "verification", "binding"} => replaced

EngineIInv == TypeOK /\ TraceInv /\ FileInv

\* The SDK and the provider have the same bounds.
LEMMA SameBounds ==
    ASSUME NEW j \in JobInput PROVE SdkAccepts(j) <=> Validate(j)
<1>1. CASE j.type = "fibonacci"
  BY <1>1 DEF SdkAccepts, Validate
<1>2. CASE j.type = "hash_verify"
  BY <1>2 DEF SdkAccepts, Validate
<1>3. CASE j.type = "merkle_proof"
  <2>1. j.index \in Nat
    BY <1>3, JobTypes
  <2>2. SdkAccepts(j) <=> /\ Len(j.proof) <= MAX_MERKLE_DEPTH
                          /\ j.index < (IF j.proof = <<>> THEN 1 ELSE Pow2[Len(j.proof)])
    BY <1>3 DEF SdkAccepts
  <2>3. Validate(j) <=> /\ Len(j.proof) <= MAX_MERKLE_DEPTH
                        /\ IF j.proof = <<>> THEN j.index = 0 ELSE j.index < Pow2[Len(j.proof)]
    BY <1>3 DEF Validate
  <2>4. j.index < 1 <=> j.index = 0
    BY <2>1
  <2> QED BY <2>2, <2>3, <2>4
<1> QED BY <1>1, <1>2, <1>3, JobTypes DEF ServiceId

\* What EngineAssumption says of the parameters of the engine.
LEMMA EngineTypes ==
    /\ None \notin Job /\ None \notin Program /\ None \notin Failures
    /\ Job \subseteq JobInput /\ OtherWords \subseteq Seq(Nat)
    /\ Salts \in Nat /\ Salts > 0
BY EngineAssumption, JobAssumption

\* The engine starts, before its digest check, in the invariant.
LEMMA InitEngine == Init => EngineIInv
<1> SUFFICES ASSUME Init PROVE EngineIInv
  OBVIOUS
<1>1. TypeOK
  <2>1. salt \in 0..(Salts - 1)
    BY EngineTypes DEF Init
  <2>2. stage \in Stage /\ stage = "unbuilt" /\ (stage = "failed" <=> failure # None)
    BY DEF Init, Stage
  <2>3. replaced \in BOOLEAN
    BY DEF Init
  <2> QED BY <2>1, <2>2, <2>3 DEF Init, TypeOK
<1>2. TraceInv /\ FileInv
  BY EngineTypes DEF Init, TraceInv, FileInv, Running, Traced, Failures
<1> QED BY <1>1, <1>2 DEF EngineIInv

\* An error that blames the job or its proof needs a replaced executable.
LEMMA FailKeeps ==
    ASSUME EngineIInv, NEW reason \in Failures, Fail(reason),
           reason \in {"execution", "verification", "binding"} => replaced
    PROVE  EngineIInv'
<1> USE DEF EngineIInv, Fail
<1>1. TypeOK'
  BY EngineTypes DEF TypeOK, Stage
<1>2. TraceInv'
  BY DEF Running, Traced, TraceInv
<1>3. FileInv'
  BY DEF FileInv, Traced
<1> QED BY <1>1, <1>2, <1>3

\* VerifiableJobEngine::new compares the digest of the executable it finds.
LEMMA NewEngineKeeps ==
    ASSUME EngineIInv, NewEngine PROVE EngineIInv'
<1>1. CASE executable = "trusted" /\ stage' = "ready"
           /\ UNCHANGED <<executable, job, trace, salt, statement, failure, replaced>>
  <2>1. TypeOK'
    BY <1>1 DEF EngineIInv, NewEngine, TypeOK, Stage
  <2>2. TraceInv' /\ FileInv'
    BY <1>1 DEF EngineIInv, NewEngine, TraceInv, FileInv, Running, Traced
  <2> QED BY <2>1, <2>2 DEF EngineIInv
<1>2. CASE Fail("executable")
  BY <1>2, FailKeeps DEF Failures
<1> QED BY <1>1, <1>2 DEF NewEngine

\* A replacement of the file is remembered.
LEMMA ReplaceExecutableKeeps ==
    ASSUME EngineIInv, ReplaceExecutable PROVE EngineIInv'
<1>1. TypeOK'
  BY DEF EngineIInv, ReplaceExecutable, TypeOK
<1>2. TraceInv'
  BY DEF EngineIInv, ReplaceExecutable, TraceInv
<1>3. FileInv'
  BY DEF EngineIInv, ReplaceExecutable, FileInv, TypeOK, Traced, Stage
<1> QED BY <1>1, <1>2, <1>3 DEF EngineIInv

\* prove_job refuses a job that is not valid and goes on with one that is.
LEMMA ProveJobKeeps ==
    ASSUME EngineIInv, NEW j \in Job, ProveJob(j) PROVE EngineIInv'
<1>1. TypeOK'
  BY EngineTypes DEF EngineIInv, ProveJob, TypeOK, Stage, Failures
<1>2. TraceInv'
  BY DEF EngineIInv, ProveJob, TraceInv, Running, Traced
<1>3. FileInv'
  BY DEF EngineIInv, ProveJob, FileInv, TypeOK, Traced
<1> QED BY <1>1, <1>2, <1>3 DEF EngineIInv

\* The reviewed program makes of a job within the bounds the run of that job.
LEMMA TrustedRun ==
    ASSUME EngineIInv, stage \in Running, NEW w, w = EncodeJob(job)
    PROVE  /\ WellFormed(w) /\ Asserts(w[1], First(w), Second(w))
           /\ Main(w[1], First(w), Second(w)) = RunOf(job)
<1>1. job \in JobInput /\ Validate(job)
  BY EngineTypes DEF EngineIInv, TypeOK, TraceInv, Running
<1>2. w[1] = ServiceId[job.type] /\ First(w) = PublicInput(job) /\ Second(w) = PrivateOf(job)
  BY <1>1, EncodedJob
<1>3. WellFormed(w) /\ Asserts(ServiceId[job.type], PublicInput(job), PrivateOf(job))
  BY <1>1, ValidJobRuns
<1> QED BY <1>2, <1>3 DEF RunOf

\* The reviewed program runs the job to its true output; another file was put
\* in its place.
LEMMA ExecuteKeeps ==
    ASSUME EngineIInv, Execute PROVE EngineIInv'
<1>0. stage = "execute" /\ stage \in Running
  BY DEF Execute, Running
<1>1. job \in JobInput /\ Validate(job)
  BY <1>0, EngineTypes DEF EngineIInv, TypeOK, TraceInv, Running
<1> DEFINE Done == stage' = "prove" /\ UNCHANGED <<executable, job, salt, statement, failure, replaced>>
<1>2. ASSUME Done, NEW p \in Program, NEW word \in Seq(Nat),
             trace' = [program |-> p, word |-> word],
             p = "trusted" => word = RunOf(job), p # "trusted" => replaced
      PROVE  EngineIInv'
  <2>1. trace'.program = p /\ trace'.word = word
    BY <1>2
  <2>2. TypeOK'
    BY <1>0, <1>2, <2>1 DEF EngineIInv, TypeOK, Stage
  <2>3. TraceInv'
    <3>1. Validate(job') /\ (p = "trusted" => trace'.word = RunOf(job'))
      BY <1>1, <1>2, <2>1
    <3> QED BY <1>2, <2>1, <3>1 DEF TraceInv
  <2>4. FileInv'
    BY <1>0, <1>2, <2>1 DEF EngineIInv, FileInv
  <2> QED BY <2>2, <2>3, <2>4 DEF EngineIInv
<1>3. executable # "trusted" => replaced
  BY <1>0 DEF EngineIInv, FileInv
<1>4. ASSUME executable = "trusted", Done,
             trace' = [program |-> executable,
                       word |-> Main(EncodeJob(job)[1], First(EncodeJob(job)), Second(EncodeJob(job)))]
      PROVE  EngineIInv'
  <2>1. Main(EncodeJob(job)[1], First(EncodeJob(job)), Second(EncodeJob(job))) = RunOf(job)
    BY <1>0, TrustedRun
  <2>2. RunOf(job) \in Seq(Nat)
    BY <1>1, RunIsAnswer
  <2>3. trace' = [program |-> "trusted", word |-> RunOf(job)]
    BY <1>4, <2>1
  <2> QED BY <1>2, <1>4, <2>2, <2>3 DEF Program
<1>5. ASSUME executable = "other", Done,
             NEW w \in OtherWords, trace' = [program |-> executable, word |-> w]
      PROVE  EngineIInv'
  <2>1. w \in Seq(Nat) /\ "other" \in Program /\ replaced
    BY <1>3, <1>5, EngineTypes DEF Program
  <2>2. trace' = [program |-> "other", word |-> w]
    BY <1>5
  <2> QED BY <1>2, <1>5, <2>1, <2>2
<1>6. ASSUME Fail("execution"),
             executable = "trusted" =>
                ~(/\ WellFormed(EncodeJob(job))
                  /\ Asserts(EncodeJob(job)[1], First(EncodeJob(job)), Second(EncodeJob(job))))
      PROVE  EngineIInv'
  <2>1. replaced
    BY <1>0, <1>3, <1>6, TrustedRun
  <2> QED BY <1>6, <2>1, FailKeeps DEF Failures
<1>7. CASE Fail("adaptation")
  BY <1>7, FailKeeps DEF Failures
<1> HIDE DEF Done
<1> QED BY <1>4, <1>5, <1>6, <1>7 DEF Execute, Done

\* An attempt with one salt keeps the trace it proves.
LEMMA ProveAttemptKeeps ==
    ASSUME EngineIInv, ProveAttempt PROVE EngineIInv'
<1>1. CASE stage' = "verify" /\ UNCHANGED <<executable, job, trace, salt, statement, failure, replaced>>
  <2>1. TypeOK'
    BY <1>1 DEF EngineIInv, ProveAttempt, TypeOK, Stage
  <2>2. TraceInv' /\ FileInv'
    BY <1>1 DEF EngineIInv, ProveAttempt, TraceInv, FileInv, Running, Traced
  <2> QED BY <2>1, <2>2 DEF EngineIInv
<1>2. CASE /\ salt + 1 < Salts /\ salt' = salt + 1
           /\ UNCHANGED <<stage, executable, job, trace, statement, failure, replaced>>
  <2>1. salt' \in 0..(Salts - 1)
    BY <1>2, EngineTypes DEF EngineIInv, TypeOK
  <2>2. TypeOK'
    BY <1>2, <2>1 DEF EngineIInv, TypeOK
  <2>3. TraceInv' /\ FileInv'
    BY <1>2 DEF EngineIInv, TraceInv, FileInv
  <2> QED BY <2>2, <2>3 DEF EngineIInv
<1>3. CASE Fail("proving")
  BY <1>3, FailKeeps DEF Failures
<1> QED BY <1>1, <1>2, <1>3 DEF ProveAttempt

\* Self-verification lets a proof pass only for the pinned program and its
\* output.
LEMMA SelfVerifyKeeps ==
    ASSUME EngineIInv, SelfVerify PROVE EngineIInv'
<1>0. stage = "verify"
  BY DEF SelfVerify
<1>1. CASE /\ VerifySerialized(trace)
           /\ statement' = DecodeStatement(trace.word) /\ stage' = "match"
           /\ UNCHANGED <<executable, job, trace, salt, failure, replaced>>
  <2>1. TypeOK'
    BY <1>0, <1>1 DEF EngineIInv, TypeOK, Stage
  <2>2. TraceInv'
    BY <1>0, <1>1 DEF EngineIInv, TraceInv, VerifySerialized, Running, Traced
  <2>3. FileInv'
    BY <1>0, <1>1 DEF EngineIInv, FileInv, Traced
  <2> QED BY <2>1, <2>2, <2>3 DEF EngineIInv
<1>2. CASE ~VerifySerialized(trace) /\ Fail("verification")
  <2>1. CASE trace.program = "trusted"
    <3>1. job \in JobInput /\ Validate(job) /\ trace.word = RunOf(job)
      BY <1>0, <2>1, EngineTypes DEF EngineIInv, TypeOK, TraceInv, Running, Traced
    <3>2. VerifySerialized(trace)
      BY <2>1, <3>1, RunIsAnswer DEF VerifySerialized
    <3> QED BY <1>2, <3>2
  <2>2. CASE trace.program # "trusted"
    <3>1. replaced
      BY <1>0, <2>2 DEF EngineIInv, FileInv, Traced
    <3> QED BY <1>2, <3>1, FailKeeps DEF Failures
  <2> QED BY <2>1, <2>2
<1>3. CASE Fail("proof")
  BY <1>3, FailKeeps DEF Failures
<1> QED BY <1>1, <1>2, <1>3 DEF SelfVerify

\* The statement of a verified proof of the reviewed program answers the job.
LEMMA StatementIsAnswer ==
    ASSUME EngineIInv, stage \in {"match", "answered"}
    PROVE  /\ statement.service = job.type
           /\ statement.public_input = PublicInput(job)
           /\ statement.output = Answer(job)
<1>1. job \in JobInput /\ Validate(job)
  BY EngineTypes DEF EngineIInv, TypeOK, TraceInv, Running
<1>2. statement = DecodeStatement(RunOf(job))
  BY DEF EngineIInv, TraceInv, Traced
<1> QED BY <1>1, <1>2, RunIsAnswer

\* ProofProcessor compares the statement with the request.
LEMMA MatchRequestKeeps ==
    ASSUME EngineIInv, MatchRequest PROVE EngineIInv'
<1>0. stage = "match" /\ StatementMatchesRequest(statement, job)
  BY StatementIsAnswer DEF MatchRequest, StatementMatchesRequest
<1>1. stage' = "answered" /\ UNCHANGED <<executable, job, trace, salt, statement, failure, replaced>>
  BY <1>0 DEF MatchRequest
<1>2. TypeOK'
  BY <1>0, <1>1 DEF EngineIInv, TypeOK, Stage
<1>3. TraceInv' /\ FileInv'
  BY <1>0, <1>1 DEF EngineIInv, TraceInv, FileInv, Running, Traced
<1> QED BY <1>2, <1>3 DEF EngineIInv

\* Every step of the engine keeps the invariant.
LEMMA NextEngine == EngineIInv /\ [Next]_vars => EngineIInv'
<1> SUFFICES ASSUME EngineIInv, [Next]_vars PROVE EngineIInv'
  OBVIOUS
<1>1. CASE UNCHANGED vars
  BY <1>1 DEF vars, EngineIInv, TypeOK, TraceInv, FileInv
<1> QED BY <1>1, NewEngineKeeps, ReplaceExecutableKeeps, ProveJobKeeps, ExecuteKeeps,
           ProveAttemptKeeps, SelfVerifyKeeps, MatchRequestKeeps DEF Next, EngineStep

\* The invariant of the engine holds throughout.
LEMMA EngineAlwaysHolds == Spec => []EngineIInv
BY InitEngine, NextEngine, PTL DEF Spec

\* The salts are never exhausted without notice, every stage finds its trace, and
\* an artifact is only handed out for a run of the reviewed program, whenever the
\* executable is replaced.
THEOREM EngineAlwaysSafe == Spec => []EngineInv
<1>1. EngineIInv => EngineInv
  BY DEF EngineIInv, EngineInv, ArtifactIsTrusted, TraceInv
<1> QED BY <1>1, EngineAlwaysHolds, PTL

\* The statement of an answer is the true answer to the job, for every job, field
\* and hash: encode_job, main and decode_statement agree on every value, no
\* Fibonacci number has wrapped around, and a Merkle path counts for its position.
THEOREM AnswerAlwaysTrue == Spec => []AnswerIsTrue
<1>1. EngineIInv => AnswerIsTrue
  BY StatementIsAnswer DEF AnswerIsTrue
<1> QED BY <1>1, EngineAlwaysHolds, PTL

\* The SDK signs exactly the jobs the provider accepts, and such a job is never
\* the reason why the reviewed program panics, or its proof is not accepted or
\* not bound to the request.
THEOREM BoundsAlwaysAgree == Spec => []BoundsAgree
<1>1. EngineIInv => BoundsAgree
  <2> SUFFICES ASSUME EngineIInv PROVE BoundsAgree
    OBVIOUS
  <2>1. job # None => job \in JobInput
    BY EngineTypes DEF EngineIInv, TypeOK
  <2> QED BY <2>1, SameBounds DEF EngineIInv, FileInv, BoundsAgree
<1> QED BY <1>1, EngineAlwaysHolds, PTL

-----------------------------------------------------------------------------
(* The client.                                                             *)

\* What the client knows when it has received a result, and a proof.
CheckInv ==
    /\ clientJob \in Job
    /\ clientStage \in {"received", "fetching", "verifying", "verified"} =>
          /\ ValidStatement(result.statement)
          /\ BoundToRequest(result.statement, clientJob)
    /\ clientStage \in {"verifying", "verified"} => Sound(fetched)
    /\ clientStage = "verified" => VerifyProof(fetched, result.statement)

\* The client has checked nothing yet.
LEMMA InitCheck == ClientInit => CheckInv
BY DEF ClientInit, CheckInv

\* Each check of the client keeps what the earlier ones have established.
LEMMA NextCheck == CheckInv /\ [ClientNext]_clientVars => CheckInv'
<1> SUFFICES ASSUME CheckInv, [ClientNext]_clientVars PROVE CheckInv'
  OBVIOUS
<1>1. CASE ReceiveResult
  BY <1>1 DEF CheckInv, ReceiveResult
<1>2. CASE CheckProgram
  BY <1>2 DEF CheckInv, CheckProgram
<1>3. CASE FetchProof
  BY <1>3 DEF CheckInv, FetchProof
<1>4. CASE VerifyProofBytes
  BY <1>4 DEF CheckInv, VerifyProofBytes
<1>5. CASE UNCHANGED clientVars
  BY <1>5 DEF CheckInv, clientVars
<1> QED BY <1>1, <1>2, <1>3, <1>4, <1>5 DEF ClientNext

\* A verified proof: its word is a run of the reviewed program on the public
\* input of the request, and decodes to the statement of the result.
LEMMA VerifiedRun ==
    ASSUME CheckInv, clientStage = "verified", NEW w, w = fetched.word
    PROVE  /\ w[1] = ServiceId[clientJob.type] /\ clientJob.type \in DOMAIN ServiceId
           /\ First(w) = PublicInput(clientJob)
           /\ Decodable(w) /\ DecodeStatement(w) = result.statement
           /\ \E private \in PrivateInput :
                 /\ Asserts(w[1], First(w), private)
                 /\ w = Main(w[1], First(w), private)
<1>1. IsRun(w) /\ Decodable(w) /\ DecodeStatement(w) = result.statement
  BY DEF CheckInv, Sound, VerifyProof
<1>2. result.statement.service = clientJob.type /\ result.statement.public_input = PublicInput(clientJob)
  BY DEF CheckInv, BoundToRequest
<1>3. DecodeStatement(w).service = ServiceOf(w[1])
      /\ DecodeStatement(w).public_input = First(w)
  BY DEF DecodeStatement
<1>4. PICK t \in DOMAIN ServiceId : w[1] = ServiceId[t]
  BY <1>1 DEF Decodable
<1>5. ServiceOf(w[1]) = t
  BY <1>4, ServiceOfId
<1>6. t = clientJob.type /\ First(w) = PublicInput(clientJob)
  BY <1>1, <1>2, <1>3, <1>5
<1>7. \E private \in PrivateInput : /\ Asserts(w[1], First(w), private)
                                    /\ w = Main(w[1], First(w), private)
  BY <1>1 DEF IsRun
<1> QED BY <1>1, <1>4, <1>6, <1>7

\* A verified Fibonacci number is the one that was asked for.
LEMMA VerifiedFibonacci ==
    ASSUME CheckInv, clientStage = "verified", clientJob.type = "fibonacci"
    PROVE  result.statement.output = Answer(clientJob)
<1> DEFINE w == fetched.word
           n == clientJob.n
           f == <<n>>
<1>1. n \in Nat
  BY EngineTypes, JobTypes DEF CheckInv
<1>2. w[1] = 1 /\ First(w) = f /\ DecodeStatement(w) = result.statement
  BY VerifiedRun DEF ServiceId, PublicInput
<1>3. PICK private : Asserts(1, f, private) /\ w = Main(1, f, private)
  BY <1>2, VerifiedRun
<1>4. n <= MAX_FIBONACCI_N
  BY <1>3 DEF Asserts, ServiceId
<1> DEFINE o == Fibonacci[n]
<1>6. o = Output(1, f, private) /\ o \in Nat
  BY <1>1, <1>4, ComputeFibonacciIsExact, FibonacciDef DEF Output, ServiceId
<1>7. Second(w) = <<o>>
  <2> DEFINE id == 1
             s == <<o>>
             S == Nat
  <2>1. id \in S /\ f \in Seq(S) /\ o \in S /\ o = Output(id, f, private) /\ Nat \subseteq S
    BY <1>1, <1>6
  <2>2. id \in Nat /\ f \in Seq(Nat) /\ s \in Seq(Nat) /\ w = Main(id, f, private)
    BY <1>1, <1>3, <1>6
  <2> HIDE DEF id, f, o, S, w
  <2>3. Main(id, f, private) = WordOf(id, f, <<o>>)
    BY <2>1, MainIsWord
  <2>4. w = WordOf(id, f, s)
    BY <2>2, <2>3
  <2> SUFFICES Second(w) = s
    OBVIOUS
  <2> HIDE DEF s
  <2>5. Second(WordOf(id, f, s)) = s
    BY <2>2, NatWord
  <2> QED BY <2>4, <2>5
<1>8. DecodeStatement(w).output = [type |-> "fibonacci", result |-> o]
  <2>1. ServiceOf(w[1]) = "fibonacci"
    <3>1. "fibonacci" \in DOMAIN ServiceId /\ ServiceId["fibonacci"] = 1
      BY DEF ServiceId
    <3> QED BY <1>2, <3>1, ServiceOfId
  <2>2. Second(w)[1] = o
    BY <1>7
  <2> HIDE DEF w, o
  <2> QED BY <2>1, <2>2 DEF DecodeStatement
<1>9. Answer(clientJob) = [type |-> "fibonacci", result |-> o]
  BY DEF Answer
<1> QED BY <1>2, <1>8, <1>9

\* docs/security-model.md: a client that reaches "verified" knows that the trusted
\* program produced the declared output from the public input of its own request,
\* with some private input, and that a Fibonacci number is the one asked for;
\* whatever results and proofs it was sent, if STWO is sound.
THEOREM VerifiedAlwaysClaims == ClientSpec => []VerifiedClaim
<1>1. CheckInv => VerifiedClaim
  <2> SUFFICES ASSUME CheckInv, clientStage = "verified" PROVE VerifiedClaim
    BY DEF VerifiedClaim
  <2> DEFINE w == fetched.word
  <2>1. PICK private \in PrivateInput : /\ Asserts(w[1], First(w), private)
                                        /\ w = Main(w[1], First(w), private)
    BY VerifiedRun
  <2>2. w[1] = ServiceId[clientJob.type] /\ First(w) = PublicInput(clientJob)
    BY VerifiedRun
  <2>3. Decodable(w) /\ DecodeStatement(w) = result.statement
    BY VerifiedRun
  <2> HIDE DEF w
  <2> QED BY <2>1, <2>2, <2>3, VerifiedFibonacci DEF VerifiedClaim
<1> QED BY <1>1, InitCheck, NextCheck, PTL DEF ClientSpec

-----------------------------------------------------------------------------
(* compute_fibonacci at full width: the bound on n and the Cairo modulus.  *)
(* Z3 calculates with numbers of any size and Zenon does not: the leaves   *)
(* with such numbers name SMT.                                             *)

\* The number that limbs stand for, and the modulus 2^251 + 17 * 2^192 + 1.
Horner(x1, x2, x3, x4, x5, x6, x7, x8, x9, x10, x11) ==
    x1 + Base * (x2 + Base * (x3 + Base * (x4 + Base * (x5 + Base * (x6 + Base * (
    x7 + Base * (x8 + Base * (x9 + Base * (x10 + Base * x11)))))))))
Value(x) == Horner(x[1], x[2], x[3], x[4], x[5], x[6], x[7], x[8], x[9], x[10], x[11])
CairoModulus == 3618502788666131213697322783095070105623107215331596699973092056135872020481

\* The limbs of the modulus.
PrimeLimbs(x1, x2, x3, x4, x5, x6, x7, x8, x9, x10, x11) ==
    /\ 1 <= x1 /\ x1 <= 1 /\ 17 <= x9 /\ x9 <= 17 /\ 2048 <= x11 /\ x11 <= 2048
    /\ x2 <= 0 /\ x3 <= 0 /\ x4 <= 0 /\ x5 <= 0 /\ x6 <= 0 /\ x7 <= 0 /\ x8 <= 0 /\ x10 <= 0

\* The facts about numbers of eleven limbs that are plain arithmetic.  tlapm
\* computes with literals in machine words, where the product of two of them may
\* not fit: every leaf below multiplies a literal by an unknown only, and where an
\* unknown has a known value it is given by two inequalities.
LEMMA HornerIsNat ==
    ASSUME NEW x1 \in Nat, NEW x2 \in Nat, NEW x3 \in Nat, NEW x4 \in Nat,
           NEW x5 \in Nat, NEW x6 \in Nat, NEW x7 \in Nat, NEW x8 \in Nat,
           NEW x9 \in Nat, NEW x10 \in Nat, NEW x11 \in Nat
    PROVE  Horner(x1, x2, x3, x4, x5, x6, x7, x8, x9, x10, x11) \in Nat
BY SMT DEF Horner, Base

\* Numbers are ordered by their highest limbs that differ.
LEMMA HornerOrder ==
    ASSUME NEW x1 \in Nat, NEW x2 \in Nat, NEW x3 \in Nat, NEW x4 \in Nat,
           NEW x5 \in Nat, NEW x6 \in Nat, NEW x7 \in Nat, NEW x8 \in Nat,
           NEW x9 \in Nat, NEW x10 \in Nat, NEW x11 \in Nat,
           NEW y1 \in Nat, NEW y2 \in Nat, NEW y3 \in Nat, NEW y4 \in Nat,
           NEW y5 \in Nat, NEW y6 \in Nat, NEW y7 \in Nat, NEW y8 \in Nat,
           NEW y9 \in Nat, NEW y10 \in Nat, NEW y11 \in Nat,
           y1 < Base, y2 < Base, y3 < Base, y4 < Base, y5 < Base, y6 < Base, y7 < Base, y8 < Base,
           y9 < Base, y10 < Base, y11 < Base,
           x11 >= y11,
           x11 = y11 => x10 >= y10,
           x11 = y11 /\ x10 = y10 => x9 >= y9,
           x11 = y11 /\ x10 = y10 /\ x9 = y9 => x8 >= y8,
           x11 = y11 /\ x10 = y10 /\ x9 = y9 /\ x8 = y8 => x7 >= y7,
           x11 = y11 /\ x10 = y10 /\ x9 = y9 /\ x8 = y8 /\ x7 = y7 => x6 >= y6,
           x11 = y11 /\ x10 = y10 /\ x9 = y9 /\ x8 = y8 /\ x7 = y7 /\ x6 = y6 => x5 >= y5,
           x11 = y11 /\ x10 = y10 /\ x9 = y9 /\ x8 = y8 /\ x7 = y7 /\ x6 = y6 /\ x5 = y5 => x4 >= y4,
           x11 = y11 /\ x10 = y10 /\ x9 = y9 /\ x8 = y8 /\ x7 = y7 /\ x6 = y6 /\ x5 = y5 /\ x4 = y4 =>
           x3 >= y3,
           x11 = y11 /\ x10 = y10 /\ x9 = y9 /\ x8 = y8 /\ x7 = y7 /\ x6 = y6 /\ x5 = y5 /\ x4 = y4 /\
           x3 = y3 => x2 >= y2,
           x11 = y11 /\ x10 = y10 /\ x9 = y9 /\ x8 = y8 /\ x7 = y7 /\ x6 = y6 /\ x5 = y5 /\ x4 = y4 /\
           x3 = y3 /\ x2 = y2 => x1 >= y1
    PROVE  Horner(x1, x2, x3, x4, x5, x6, x7, x8, x9, x10, x11) >=
           Horner(y1, y2, y3, y4, y5, y6, y7, y8, y9, y10, y11)
BY SMT DEF Horner, Base

\* The limbs of the modulus add up to the modulus.
LEMMA HornerPrime ==
    ASSUME NEW x1 \in Nat, NEW x2 \in Nat, NEW x3 \in Nat, NEW x4 \in Nat,
           NEW x5 \in Nat, NEW x6 \in Nat, NEW x7 \in Nat, NEW x8 \in Nat,
           NEW x9 \in Nat, NEW x10 \in Nat, NEW x11 \in Nat,
           PrimeLimbs(x1, x2, x3, x4, x5, x6, x7, x8, x9, x10, x11)
    PROVE  /\ Horner(x1, x2, x3, x4, x5, x6, x7, x8, x9, x10, x11) <= CairoModulus
           /\ Horner(x1, x2, x3, x4, x5, x6, x7, x8, x9, x10, x11) >= CairoModulus
BY SMT DEF Horner, Base, CairoModulus, PrimeLimbs

\* Facts on the base that are needed where its value is not.
LEMMA BaseIsNat == Base \in Nat /\ Base > 2048
BY SMT DEF Base

\* The limbs one by one.
LEMMA LimbType ==
    ASSUME NEW x \in Number, NEW k \in 1..11 PROVE x[k] \in Nat /\ x[k] < Base
<1>1. x[k] \in 0..(Base - 1)
  BY SMT DEF Number, Limbs
<1> QED BY <1>1, BaseIsNat

\* The same for all limbs of a number.
LEMMA LimbTypes ==
    ASSUME NEW x \in Number
    PROVE  /\ x[1] \in Nat /\ x[2] \in Nat /\ x[3] \in Nat /\ x[4] \in Nat
           /\ x[5] \in Nat /\ x[6] \in Nat /\ x[7] \in Nat /\ x[8] \in Nat
           /\ x[9] \in Nat /\ x[10] \in Nat /\ x[11] \in Nat
           /\ x[1] < Base /\ x[2] < Base /\ x[3] < Base /\ x[4] < Base
           /\ x[5] < Base /\ x[6] < Base /\ x[7] < Base /\ x[8] < Base
           /\ x[9] < Base /\ x[10] < Base /\ x[11] < Base
BY SMT, LimbType

\* A number stands for a natural.
LEMMA ValueIsNat == ASSUME NEW x \in Number PROVE Value(x) \in Nat
BY Zenon, LimbTypes, HornerIsNat DEF Value

\* CairoPrime stands for the modulus of the field.
LEMMA PrimeValue == CairoPrime \in Number /\ Value(CairoPrime) = CairoModulus
<1>1. ASSUME NEW k \in 1..11
      PROVE  CairoPrime[k] = IF k = 1 THEN 1 ELSE IF k = 9 THEN 17 ELSE IF k = 11 THEN 2048 ELSE 0
  BY SMT DEF CairoPrime, Limbs
<1>2. CairoPrime \in Number
  <2>1. \A k \in 1..11 : CairoPrime[k] \in 0..(Base - 1)
    BY SMT, <1>1, BaseIsNat
  <2>2. CairoPrime = [k \in 1..11 |-> CairoPrime[k]]
    BY SMT DEF CairoPrime, Limbs
  <2> QED BY SMT, <2>1, <2>2 DEF Number, Limbs
<1>3. /\ CairoPrime[1] = 1 /\ CairoPrime[2] = 0 /\ CairoPrime[3] = 0 /\ CairoPrime[4] = 0
      /\ CairoPrime[5] = 0 /\ CairoPrime[6] = 0 /\ CairoPrime[7] = 0 /\ CairoPrime[8] = 0
      /\ CairoPrime[9] = 17 /\ CairoPrime[10] = 0 /\ CairoPrime[11] = 2048
  BY SMT, <1>1
<1>4. PrimeLimbs(CairoPrime[1], CairoPrime[2], CairoPrime[3], CairoPrime[4],
                 CairoPrime[5], CairoPrime[6], CairoPrime[7], CairoPrime[8],
                 CairoPrime[9], CairoPrime[10], CairoPrime[11])
  BY SMT, <1>3 DEF PrimeLimbs
<1>5. /\ CairoPrime[1] \in Nat /\ CairoPrime[2] \in Nat /\ CairoPrime[3] \in Nat
      /\ CairoPrime[4] \in Nat /\ CairoPrime[5] \in Nat /\ CairoPrime[6] \in Nat
      /\ CairoPrime[7] \in Nat /\ CairoPrime[8] \in Nat
      /\ CairoPrime[9] \in Nat /\ CairoPrime[10] \in Nat /\ CairoPrime[11] \in Nat
  BY SMT, <1>3
<1>6. Value(CairoPrime) = CairoModulus
  <2>1. Value(CairoPrime) <= CairoModulus
    BY Zenon, <1>4, <1>5, HornerPrime DEF Value
  <2>2. Value(CairoPrime) >= CairoModulus
    BY Zenon, <1>4, <1>5, HornerPrime DEF Value
  <2>3. Value(CairoPrime) \in Nat /\ CairoModulus \in Nat
    BY SMT, <1>2, ValueIsNat DEF CairoModulus
  <2> QED BY <2>1, <2>2, <2>3
<1> QED BY <1>2, <1>6

\* The first two values of compute_fibonacci stand for 0 and 1.
LEMMA SmallValue ==
    ASSUME NEW v \in 0..1 PROVE FromInteger(v) \in Number /\ Value(FromInteger(v)) = v
<1>1. FromInteger(v) \in Number
  <2>1. \A k \in 1..11 : (IF k = 1 THEN v ELSE 0) \in 0..(Base - 1)
    BY SMT, BaseIsNat
  <2> QED BY <2>1 DEF FromInteger, Number, Limbs
<1> DEFINE x == FromInteger(v)
<1>2. /\ x[1] = v /\ x[2] = 0 /\ x[3] = 0 /\ x[4] = 0 /\ x[5] = 0 /\ x[6] = 0
      /\ x[7] = 0 /\ x[8] = 0 /\ x[9] = 0 /\ x[10] = 0 /\ x[11] = 0
  BY SMT DEF FromInteger, Limbs
<1> HIDE DEF x
<1>3. Value(x) = v
  <2>1. Value(x) = Horner(v, 0, 0, 0, 0, 0, 0, 0, 0, 0, 0)
    BY <1>2 DEF Value
  <2>2. Horner(v, 0, 0, 0, 0, 0, 0, 0, 0, 0, 0) = v
    BY SMT DEF Horner, Base
  <2> QED BY <2>1, <2>2
<1> QED BY <1>1, <1>3 DEF x

\* The highest limb in which two numbers differ decides which one is less.
LEMMA LessByValue ==
    ASSUME NEW x \in Number, NEW y \in Number, Value(x) < Value(y)
    PROVE  Less(x, y)
<1> SUFFICES ASSUME ~Less(x, y) PROVE FALSE
  OBVIOUS
<1>1. ASSUME NEW k \in 1..11, \A j \in (k + 1)..11 : x[j] = y[j] PROVE x[k] >= y[k]
  <2>1. ~(x[k] < y[k])
    BY SMT, <1>1 DEF Less, Limbs
  <2>2. x[k] \in Nat /\ y[k] \in Nat
    BY <1>1, LimbType
  <2> QED BY <2>1, <2>2
<1>2. x[11] >= y[11]
  BY SMT, <1>1
<1>3. x[11] = y[11] => x[10] >= y[10]
  BY SMT, <1>1
<1>4. x[11] = y[11] /\ x[10] = y[10] => x[9] >= y[9]
  BY SMT, <1>1
<1>5. x[11] = y[11] /\ x[10] = y[10] /\ x[9] = y[9] => x[8] >= y[8]
  BY SMT, <1>1
<1>6. x[11] = y[11] /\ x[10] = y[10] /\ x[9] = y[9] /\ x[8] = y[8] => x[7] >= y[7]
  BY SMT, <1>1
<1>7. x[11] = y[11] /\ x[10] = y[10] /\ x[9] = y[9] /\ x[8] = y[8] /\ x[7] = y[7] => x[6] >= y[6]
  BY SMT, <1>1
<1>8. x[11] = y[11] /\ x[10] = y[10] /\ x[9] = y[9] /\ x[8] = y[8] /\ x[7] = y[7] /\ x[6] = y[6] =>
      x[5] >= y[5]
  BY SMT, <1>1
<1>9. x[11] = y[11] /\ x[10] = y[10] /\ x[9] = y[9] /\ x[8] = y[8] /\ x[7] = y[7] /\ x[6] = y[6] /\
      x[5] = y[5] => x[4] >= y[4]
  BY SMT, <1>1
<1>10. x[11] = y[11] /\ x[10] = y[10] /\ x[9] = y[9] /\ x[8] = y[8] /\ x[7] = y[7] /\ x[6] = y[6] /\
       x[5] = y[5] /\ x[4] = y[4] => x[3] >= y[3]
  BY SMT, <1>1
<1>11. x[11] = y[11] /\ x[10] = y[10] /\ x[9] = y[9] /\ x[8] = y[8] /\ x[7] = y[7] /\ x[6] = y[6] /\
       x[5] = y[5] /\ x[4] = y[4] /\ x[3] = y[3] => x[2] >= y[2]
  BY SMT, <1>1
<1>12. x[11] = y[11] /\ x[10] = y[10] /\ x[9] = y[9] /\ x[8] = y[8] /\ x[7] = y[7] /\ x[6] = y[6] /\
       x[5] = y[5] /\ x[4] = y[4] /\ x[3] = y[3] /\ x[2] = y[2] => x[1] >= y[1]
  BY SMT, <1>1
<1>13. Horner(x[1], x[2], x[3], x[4], x[5], x[6], x[7], x[8], x[9], x[10], x[11]) >=
       Horner(y[1], y[2], y[3], y[4], y[5], y[6], y[7], y[8], y[9], y[10], y[11])
  BY Zenon, <1>2, <1>3, <1>4, <1>5, <1>6, <1>7, <1>8, <1>9, <1>10, <1>11, <1>12, LimbTypes, HornerOrder
<1> QED BY <1>13, ValueIsNat DEF Value

\* carry solves the recursion of Carry.
IsCarry(carry, x, y) ==
    carry = [k \in 0..Limbs |->
                IF k = 0 THEN 0 ELSE IF x[k] + y[k] + carry[k - 1] >= Base THEN 1 ELSE 0]

\* Carry is the function its recursive definition describes.
LEMMA CarryDef ==
    ASSUME NEW x, NEW y PROVE IsCarry(Carry(x, y), x, y)
<1> DEFINE X == {0, 1}
           Out(k, c) == IF x[k] + y[k] + c >= Base THEN 1 ELSE 0
           step == [z \in Nat \X X |-> Out(z[1] + 1, z[2])]
<1>1. ASSUME NEW k \in Nat, NEW c \in X PROVE step[<<k, c>>] = Out(k + 1, c)
  <2> HIDE DEF Out
  <2> QED BY <1>1
<1>2. step \in Steps(X) /\ 0 \in X
  BY DEF Steps
<1> HIDE DEF step, X
<1>3. PICK f \in Recursion(0, step, X) : TRUE
  BY <1>2, RecursiveFunction
<1>4. f \in [Nat -> X] /\ f[0] = 0 /\ \A n \in Nat : f[n + 1] = step[<<n, f[n]>>]
  BY <1>3 DEF Recursion
<1> DEFINE carry == [k \in 0..Limbs |-> f[k]]
<1>5. ASSUME NEW i \in 0..Limbs, i # 0 PROVE carry[i] = Out(i, carry[i - 1])
  <2>1. PICK k \in Nat : k = i - 1 /\ k + 1 = i /\ k \in 0..Limbs /\ k + 1 \in 0..Limbs
    BY <1>5 DEF Limbs
  <2>2. f[k + 1] = step[<<k, f[k]>>] /\ f[k] \in X
    BY <1>4
  <2> HIDE DEF Out
  <2> QED BY <1>1, <2>1, <2>2
<1>6. carry[0] = 0 /\ carry = [k \in 0..Limbs |-> carry[k]]
  BY <1>4 DEF Limbs
<1> HIDE DEF carry
<1>7. IsCarry(carry, x, y)
  BY <1>5, <1>6 DEF IsCarry
<1> QED BY <1>7 DEF Carry, IsCarry

\* Adding limb by limb adds the numbers, when the top limbs leave room for a carry.
LEMMA PlusValue ==
    ASSUME NEW x \in Number, NEW y \in Number, x[11] <= 2048, y[11] <= 2048
    PROVE  Plus(x, y) \in Number /\ Value(Plus(x, y)) = Value(x) + Value(y)
<1> DEFINE c == Carry(x, y)
           z == Plus(x, y)
<1>0. IsCarry(c, x, y)
  BY CarryDef
<1> HIDE DEF c
<1>1. c[0] = 0
  BY <1>0 DEF IsCarry, Limbs
<1>2. ASSUME NEW k \in 1..11
      PROVE  c[k] = IF x[k] + y[k] + c[k - 1] >= Base THEN 1 ELSE 0
  BY <1>0 DEF IsCarry, Limbs
<1>3. ASSUME NEW k \in 0..11 PROVE c[k] \in Nat /\ c[k] <= 1
  BY <1>1, <1>2
<1>4. ASSUME NEW k \in 1..11
      PROVE  z[k] = x[k] + y[k] + c[k - 1] - Base * c[k]
  BY DEF Plus, c, Limbs
<1>5. ASSUME NEW k \in 1..11
      PROVE  z[k] \in Nat /\ z[k] < Base
  <2>1. k - 1 \in 0..11
    OBVIOUS
  <2>2. c[k - 1] \in Nat /\ c[k - 1] <= 1
    BY <1>3, <2>1
  <2>3. x[k] \in Nat /\ y[k] \in Nat /\ x[k] < Base /\ y[k] < Base
    BY LimbType
  <2>4. /\ c[k] = IF x[k] + y[k] + c[k - 1] >= Base THEN 1 ELSE 0
        /\ z[k] = x[k] + y[k] + c[k - 1] - Base * c[k]
    BY <1>2, <1>4
  <2> HIDE DEF z
  <2>5. z[k] = IF x[k] + y[k] + c[k - 1] >= Base
               THEN x[k] + y[k] + c[k - 1] - Base ELSE x[k] + y[k] + c[k - 1]
    BY <2>2, <2>3, <2>4, BaseIsNat
  <2> QED BY <2>2, <2>3, <2>5, BaseIsNat
<1>6. z \in Number
  <2>1. z = [k \in 1..11 |-> z[k]]
    BY DEF Plus, Limbs
  <2>2. \A k \in 1..11 : z[k] \in 0..(Base - 1)
    BY <1>5, BaseIsNat
  <2> HIDE DEF z
  <2> QED BY <2>1, <2>2 DEF Number, Limbs
<1> HIDE DEF z
<1>7. ASSUME NEW k \in 1..11
      PROVE  /\ x[k] \in Nat /\ y[k] \in Nat /\ z[k] \in Nat /\ c[k] \in Nat /\ c[k - 1] \in Nat
             /\ z[k] = x[k] + y[k] + c[k - 1] - Base * c[k]
  <2>1. k \in 0..11 /\ k - 1 \in 0..11
    OBVIOUS
  <2> QED BY <1>3, <1>4, <1>6, <2>1, LimbType
<1> DEFINE X11 == x[11]                 Y11 == y[11]                 S11 == z[11]
           X10 == x[10] + Base * X11    Y10 == y[10] + Base * Y11    S10 == z[10] + Base * S11
           X9 == x[9] + Base * X10      Y9 == y[9] + Base * Y10      S9 == z[9] + Base * S10
           X8 == x[8] + Base * X9       Y8 == y[8] + Base * Y9       S8 == z[8] + Base * S9
           X7 == x[7] + Base * X8       Y7 == y[7] + Base * Y8       S7 == z[7] + Base * S8
           X6 == x[6] + Base * X7       Y6 == y[6] + Base * Y7       S6 == z[6] + Base * S7
           X5 == x[5] + Base * X6       Y5 == y[5] + Base * Y6       S5 == z[5] + Base * S6
           X4 == x[4] + Base * X5       Y4 == y[4] + Base * Y5       S4 == z[4] + Base * S5
           X3 == x[3] + Base * X4       Y3 == y[3] + Base * Y4       S3 == z[3] + Base * S4
           X2 == x[2] + Base * X3       Y2 == y[2] + Base * Y3       S2 == z[2] + Base * S3
           X1 == x[1] + Base * X2       Y1 == y[1] + Base * Y2       S1 == z[1] + Base * S2
<1>8. X11 + Y11 + c[10] = S11 /\ X11 \in Nat /\ Y11 \in Nat /\ S11 \in Nat
  <2>1. x[11] \in Nat /\ y[11] \in Nat /\ z[11] \in Nat
    BY <1>6, LimbTypes
  <2>2. 11 \in 1..11 /\ 11 - 1 = 10 /\ 10 \in 0..11
    OBVIOUS
  <2>3. c[11] = IF x[11] + y[11] + c[10] >= Base THEN 1 ELSE 0
    BY <1>2, <2>2
  <2>4. z[11] = x[11] + y[11] + c[10] - Base * c[11]
    BY <1>4, <2>2
  <2>5. c[10] \in Nat /\ c[10] <= 1
    BY <1>3, <2>2
  <2>6. c[11] = 0
    BY SMT, <2>1, <2>3, <2>5 DEF Base
  <2> QED BY SMT, <2>1, <2>4, <2>5, <2>6 DEF Base
<1>9. X10 + Y10 + c[9] = S10 /\ X10 \in Nat /\ Y10 \in Nat /\ S10 \in Nat
  <2>1. /\ x[10] \in Nat /\ y[10] \in Nat /\ z[10] \in Nat /\ c[10] \in Nat /\ c[9] \in Nat
        /\ z[10] = x[10] + y[10] + c[9] - Base * c[10]
    BY SMT, <1>7
  <2> HIDE DEF X11, Y11, S11
  <2> QED BY SMT, <1>8, <2>1 DEF Base
<1>10. X9 + Y9 + c[8] = S9 /\ X9 \in Nat /\ Y9 \in Nat /\ S9 \in Nat
  <2>1. /\ x[9] \in Nat /\ y[9] \in Nat /\ z[9] \in Nat /\ c[9] \in Nat /\ c[8] \in Nat
        /\ z[9] = x[9] + y[9] + c[8] - Base * c[9]
    BY SMT, <1>7
  <2> HIDE DEF X10, Y10, S10
  <2> QED BY SMT, <1>9, <2>1 DEF Base
<1>11. X8 + Y8 + c[7] = S8 /\ X8 \in Nat /\ Y8 \in Nat /\ S8 \in Nat
  <2>1. /\ x[8] \in Nat /\ y[8] \in Nat /\ z[8] \in Nat /\ c[8] \in Nat /\ c[7] \in Nat
        /\ z[8] = x[8] + y[8] + c[7] - Base * c[8]
    BY SMT, <1>7
  <2> HIDE DEF X9, Y9, S9
  <2> QED BY SMT, <1>10, <2>1 DEF Base
<1>12. X7 + Y7 + c[6] = S7 /\ X7 \in Nat /\ Y7 \in Nat /\ S7 \in Nat
  <2>1. /\ x[7] \in Nat /\ y[7] \in Nat /\ z[7] \in Nat /\ c[7] \in Nat /\ c[6] \in Nat
        /\ z[7] = x[7] + y[7] + c[6] - Base * c[7]
    BY SMT, <1>7
  <2> HIDE DEF X8, Y8, S8
  <2> QED BY SMT, <1>11, <2>1 DEF Base
<1>13. X6 + Y6 + c[5] = S6 /\ X6 \in Nat /\ Y6 \in Nat /\ S6 \in Nat
  <2>1. /\ x[6] \in Nat /\ y[6] \in Nat /\ z[6] \in Nat /\ c[6] \in Nat /\ c[5] \in Nat
        /\ z[6] = x[6] + y[6] + c[5] - Base * c[6]
    BY SMT, <1>7
  <2> HIDE DEF X7, Y7, S7
  <2> QED BY SMT, <1>12, <2>1 DEF Base
<1>14. X5 + Y5 + c[4] = S5 /\ X5 \in Nat /\ Y5 \in Nat /\ S5 \in Nat
  <2>1. /\ x[5] \in Nat /\ y[5] \in Nat /\ z[5] \in Nat /\ c[5] \in Nat /\ c[4] \in Nat
        /\ z[5] = x[5] + y[5] + c[4] - Base * c[5]
    BY SMT, <1>7
  <2> HIDE DEF X6, Y6, S6
  <2> QED BY SMT, <1>13, <2>1 DEF Base
<1>15. X4 + Y4 + c[3] = S4 /\ X4 \in Nat /\ Y4 \in Nat /\ S4 \in Nat
  <2>1. /\ x[4] \in Nat /\ y[4] \in Nat /\ z[4] \in Nat /\ c[4] \in Nat /\ c[3] \in Nat
        /\ z[4] = x[4] + y[4] + c[3] - Base * c[4]
    BY SMT, <1>7
  <2> HIDE DEF X5, Y5, S5
  <2> QED BY SMT, <1>14, <2>1 DEF Base
<1>16. X3 + Y3 + c[2] = S3 /\ X3 \in Nat /\ Y3 \in Nat /\ S3 \in Nat
  <2>1. /\ x[3] \in Nat /\ y[3] \in Nat /\ z[3] \in Nat /\ c[3] \in Nat /\ c[2] \in Nat
        /\ z[3] = x[3] + y[3] + c[2] - Base * c[3]
    BY SMT, <1>7
  <2> HIDE DEF X4, Y4, S4
  <2> QED BY SMT, <1>15, <2>1 DEF Base
<1>17. X2 + Y2 + c[1] = S2 /\ X2 \in Nat /\ Y2 \in Nat /\ S2 \in Nat
  <2>1. /\ x[2] \in Nat /\ y[2] \in Nat /\ z[2] \in Nat /\ c[2] \in Nat /\ c[1] \in Nat
        /\ z[2] = x[2] + y[2] + c[1] - Base * c[2]
    BY SMT, <1>7
  <2> HIDE DEF X3, Y3, S3
  <2> QED BY SMT, <1>16, <2>1 DEF Base
<1>18. X1 + Y1 = S1 /\ X1 \in Nat /\ Y1 \in Nat /\ S1 \in Nat
  <2>1. /\ x[1] \in Nat /\ y[1] \in Nat /\ z[1] \in Nat /\ c[1] \in Nat
        /\ z[1] = x[1] + y[1] - Base * c[1]
    <3>1. /\ x[1] \in Nat /\ y[1] \in Nat /\ z[1] \in Nat /\ c[1] \in Nat /\ c[0] \in Nat
          /\ z[1] = x[1] + y[1] + c[0] - Base * c[1]
      BY SMT, <1>7
    <3> DEFINE m == Base * c[1]
    <3>2. m \in Nat /\ z[1] = x[1] + y[1] + c[0] - m
      BY <3>1, BaseIsNat
    <3> HIDE DEF m
    <3>3. z[1] = x[1] + y[1] - m
      BY <1>1, <3>1, <3>2
    <3> QED BY <3>1, <3>3 DEF m
  <2> HIDE DEF X2, Y2, S2
  <2> QED BY SMT, <1>17, <2>1 DEF Base
<1>19. Value(x) = X1 /\ Value(y) = Y1 /\ Value(z) = S1
  BY SMT DEF Value, Horner
<1> HIDE DEF X1, Y1, S1
<1>20. Value(z) = Value(x) + Value(y)
  BY <1>18, <1>19
<1> QED BY <1>6, <1>20 DEF z

\* A number below the modulus leaves room in its top limb for a carry.
LEMMA TopLimb ==
    ASSUME NEW x \in Number, Value(x) < CairoModulus
    PROVE  Less(x, CairoPrime) /\ x[11] <= 2048
<1>1. Less(x, CairoPrime)
  BY PrimeValue, LessByValue
<1>2. PICK k \in 1..11 : x[k] < CairoPrime[k] /\ \A j \in (k + 1)..11 : x[j] = CairoPrime[j]
  BY <1>1 DEF Less, Limbs
<1>3. CairoPrime[11] = 2048 /\ x[11] \in Nat
  <2>1. CairoPrime[11] = 2048
    BY SMT DEF CairoPrime, Limbs
  <2> QED BY <2>1, LimbTypes
<1>4. CASE k = 11
  <2>1. x[11] < CairoPrime[11]
    BY Zenon, <1>2, <1>4
  <2> QED BY SMT, <1>1, <1>3, <2>1
<1>5. CASE k # 11
  <2>1. 11 \in (k + 1)..11
    BY <1>5
  <2>2. x[11] = CairoPrime[11]
    BY Zenon, <1>2, <2>1
  <2> QED BY SMT, <1>1, <1>3, <2>2
<1> QED BY <1>1, <1>4, <1>5

\* Fibonacci numbers at a distance, as sums of two neighbours.
LEMMA FibonacciJump ==
    ASSUME NEW n \in Nat
    PROVE  /\ Fibonacci[n + 40] = 63245986 * Fibonacci[n] + 102334155 * Fibonacci[n + 1]
           /\ Fibonacci[n + 41] = 102334155 * Fibonacci[n] + 165580141 * Fibonacci[n + 1]
<1>1. \A m \in Nat : Fibonacci[m] \in Nat
  BY FibonacciDef
<1>2. ASSUME NEW m \in Nat
      PROVE  /\ Fibonacci[m + 5] = 3 * Fibonacci[m] + 5 * Fibonacci[m + 1]
             /\ Fibonacci[m + 6] = 5 * Fibonacci[m] + 8 * Fibonacci[m + 1]
  <2>0. Fibonacci[m] \in Nat /\ Fibonacci[m + 1] \in Nat
    BY <1>1
  <2>1. Fibonacci[m + 2] = Fibonacci[m + 1] + Fibonacci[m]
    BY FibonacciDef
  <2>2. Fibonacci[m + 3] = Fibonacci[m + 2] + Fibonacci[m + 1]
    <3>1. m + 1 \in Nat /\ (m + 1) + 2 = m + 3 /\ (m + 1) + 1 = m + 2
      OBVIOUS
    <3> QED BY <3>1, FibonacciDef
  <2>3. Fibonacci[m + 4] = Fibonacci[m + 3] + Fibonacci[m + 2]
    <3>1. m + 2 \in Nat /\ (m + 2) + 2 = m + 4 /\ (m + 2) + 1 = m + 3
      OBVIOUS
    <3> QED BY <3>1, FibonacciDef
  <2>4. Fibonacci[m + 5] = Fibonacci[m + 4] + Fibonacci[m + 3]
    <3>1. m + 3 \in Nat /\ (m + 3) + 2 = m + 5 /\ (m + 3) + 1 = m + 4
      OBVIOUS
    <3> QED BY <3>1, FibonacciDef
  <2>5. Fibonacci[m + 6] = Fibonacci[m + 5] + Fibonacci[m + 4]
    <3>1. m + 4 \in Nat /\ (m + 4) + 2 = m + 6 /\ (m + 4) + 1 = m + 5
      OBVIOUS
    <3> QED BY <3>1, FibonacciDef
  <2> QED BY <2>0, <2>1, <2>2, <2>3, <2>4, <2>5
<1>3. ASSUME NEW m \in Nat
      PROVE  /\ Fibonacci[m + 10] = 34 * Fibonacci[m] + 55 * Fibonacci[m + 1]
             /\ Fibonacci[m + 11] = 55 * Fibonacci[m] + 89 * Fibonacci[m + 1]
  <2>1. /\ Fibonacci[m + 5] = 3 * Fibonacci[m] + 5 * Fibonacci[m + 1]
        /\ Fibonacci[m + 6] = 5 * Fibonacci[m] + 8 * Fibonacci[m + 1]
    BY SMT, <1>2
  <2>2. m + 5 \in Nat /\ (m + 5) + 5 = m + 10 /\ (m + 5) + 6 = m + 11 /\ (m + 5) + 1 = m + 6
    BY SMT
  <2>3. /\ Fibonacci[m + 10] = 3 * Fibonacci[m + 5] + 5 * Fibonacci[m + 6]
        /\ Fibonacci[m + 11] = 5 * Fibonacci[m + 5] + 8 * Fibonacci[m + 6]
    BY SMT, <1>2, <2>2
  <2>4. Fibonacci[m] \in Nat /\ Fibonacci[m + 1] \in Nat
    BY <1>1
  <2> QED BY SMT, <2>1, <2>3, <2>4
<1>4. ASSUME NEW m \in Nat
      PROVE  /\ Fibonacci[m + 20] = 4181 * Fibonacci[m] + 6765 * Fibonacci[m + 1]
             /\ Fibonacci[m + 21] = 6765 * Fibonacci[m] + 10946 * Fibonacci[m + 1]
  <2>1. /\ Fibonacci[m + 10] = 34 * Fibonacci[m] + 55 * Fibonacci[m + 1]
        /\ Fibonacci[m + 11] = 55 * Fibonacci[m] + 89 * Fibonacci[m + 1]
    BY SMT, <1>3
  <2>2. m + 10 \in Nat /\ (m + 10) + 10 = m + 20 /\ (m + 10) + 11 = m + 21 /\ (m + 10) + 1 = m + 11
    BY SMT
  <2>3. /\ Fibonacci[m + 20] = 34 * Fibonacci[m + 10] + 55 * Fibonacci[m + 11]
        /\ Fibonacci[m + 21] = 55 * Fibonacci[m + 10] + 89 * Fibonacci[m + 11]
    BY SMT, <1>3, <2>2
  <2>4. Fibonacci[m] \in Nat /\ Fibonacci[m + 1] \in Nat
    BY <1>1
  <2> QED BY SMT, <2>1, <2>3, <2>4
<1> QED
  <2>1. /\ Fibonacci[n + 20] = 4181 * Fibonacci[n] + 6765 * Fibonacci[n + 1]
        /\ Fibonacci[n + 21] = 6765 * Fibonacci[n] + 10946 * Fibonacci[n + 1]
    BY SMT, <1>4
  <2>2. n + 20 \in Nat /\ (n + 20) + 20 = n + 40 /\ (n + 20) + 21 = n + 41 /\ (n + 20) + 1 = n + 21
    BY SMT
  <2>3. /\ Fibonacci[n + 40] = 4181 * Fibonacci[n + 20] + 6765 * Fibonacci[n + 21]
        /\ Fibonacci[n + 41] = 6765 * Fibonacci[n + 20] + 10946 * Fibonacci[n + 21]
    BY SMT, <1>4, <2>2
  <2>4. Fibonacci[n] \in Nat /\ Fibonacci[n + 1] \in Nat
    BY <1>1
  <2> QED BY SMT, <2>1, <2>3, <2>4

\* The two numbers the bound stands between.
LEMMA FibonacciAtBound == Fibonacci[363] < CairoModulus /\ CairoModulus < Fibonacci[364]
<1>1. \A m \in Nat : Fibonacci[m] \in Nat
  BY FibonacciDef
<1>2. 2 <= Fibonacci[3] /\ Fibonacci[3] <= 2 /\ 3 <= Fibonacci[4] /\ Fibonacci[4] <= 3
  <2>1. /\ Fibonacci[0] = 0 /\ Fibonacci[1] = 1
        /\ Fibonacci[0 + 2] = Fibonacci[0 + 1] + Fibonacci[0]
        /\ Fibonacci[1 + 2] = Fibonacci[1 + 1] + Fibonacci[1]
        /\ Fibonacci[2 + 2] = Fibonacci[2 + 1] + Fibonacci[2]
    BY FibonacciDef
  <2> QED BY <2>1
<1>3. /\ 433494437 <= Fibonacci[43]
      /\ Fibonacci[43] <= 433494437
      /\ 701408733 <= Fibonacci[44]
      /\ Fibonacci[44] <= 701408733
  <2>1. /\ Fibonacci[43] = 63245986 * Fibonacci[3] + 102334155 * Fibonacci[4]
        /\ Fibonacci[44] = 102334155 * Fibonacci[3] + 165580141 * Fibonacci[4]
    <3>1. 3 \in Nat /\ 3 + 40 = 43 /\ 3 + 41 = 44 /\ 3 + 1 = 4
      BY SMT
    <3> QED BY SMT, <3>1, FibonacciJump
  <2>2. Fibonacci[3] \in Nat /\ Fibonacci[4] \in Nat
    BY SMT, <1>1
  <2> QED BY SMT, <1>2, <2>1, <2>2
<1>4. /\ 99194853094755497 <= Fibonacci[83]
      /\ Fibonacci[83] <= 99194853094755497
      /\ 160500643816367088 <= Fibonacci[84]
      /\ Fibonacci[84] <= 160500643816367088
  <2>1. /\ Fibonacci[83] = 63245986 * Fibonacci[43] + 102334155 * Fibonacci[44]
        /\ Fibonacci[84] = 102334155 * Fibonacci[43] + 165580141 * Fibonacci[44]
    <3>1. 43 \in Nat /\ 43 + 40 = 83 /\ 43 + 41 = 84 /\ 43 + 1 = 44
      BY SMT
    <3> QED BY SMT, <3>1, FibonacciJump
  <2>2. Fibonacci[43] \in Nat /\ Fibonacci[44] \in Nat
    BY SMT, <1>1
  <2> QED BY SMT, <1>3, <2>1, <2>2
<1>5. /\ 22698374052006863956975682 <= Fibonacci[123]
      /\ Fibonacci[123] <= 22698374052006863956975682
      /\ 36726740705505779255899443 <= Fibonacci[124]
      /\ Fibonacci[124] <= 36726740705505779255899443
  <2>1. /\ Fibonacci[123] = 63245986 * Fibonacci[83] + 102334155 * Fibonacci[84]
        /\ Fibonacci[124] = 102334155 * Fibonacci[83] + 165580141 * Fibonacci[84]
    <3>1. 83 \in Nat /\ 83 + 40 = 123 /\ 83 + 41 = 124 /\ 83 + 1 = 84
      BY SMT
    <3> QED BY SMT, <3>1, FibonacciJump
  <2>2. Fibonacci[83] \in Nat /\ Fibonacci[84] \in Nat
    BY SMT, <1>1
  <2> QED BY SMT, <1>4, <2>1, <2>2
<1>6. /\ 5193981023518027157495786850488117 <= Fibonacci[163]
      /\ Fibonacci[163] <= 5193981023518027157495786850488117
      /\ 8404037832974134882743767626780173 <= Fibonacci[164]
      /\ Fibonacci[164] <= 8404037832974134882743767626780173
  <2>1. /\ Fibonacci[163] = 63245986 * Fibonacci[123] + 102334155 * Fibonacci[124]
        /\ Fibonacci[164] = 102334155 * Fibonacci[123] + 165580141 * Fibonacci[124]
    <3>1. 123 \in Nat /\ 123 + 40 = 163 /\ 123 + 41 = 164 /\ 123 + 1 = 124
      BY SMT
    <3> QED BY SMT, <3>1, FibonacciJump
  <2>2. Fibonacci[123] \in Nat /\ Fibonacci[124] \in Nat
    BY SMT, <1>1
  <2> QED BY SMT, <1>5, <2>1, <2>2
<1>7. /\ 1188518561323126046432205871807859915657177 <= Fibonacci[203]
      /\ Fibonacci[203] <= 1188518561323126046432205871807859915657177
      /\ 1923063428480944139667114773918309212080528 <= Fibonacci[204]
      /\ Fibonacci[204] <= 1923063428480944139667114773918309212080528
  <2>1. /\ Fibonacci[203] = 63245986 * Fibonacci[163] + 102334155 * Fibonacci[164]
        /\ Fibonacci[204] = 102334155 * Fibonacci[163] + 165580141 * Fibonacci[164]
    <3>1. 163 \in Nat /\ 163 + 40 = 203 /\ 163 + 41 = 204 /\ 163 + 1 = 164
      BY SMT
    <3> QED BY SMT, <3>1, FibonacciJump
  <2>2. Fibonacci[163] \in Nat /\ Fibonacci[164] \in Nat
    BY SMT, <1>1
  <2> QED BY SMT, <1>6, <2>1, <2>2
<1>8. /\ 271964099255182923543922814194423915162591622175362 <= Fibonacci[243]
      /\ Fibonacci[243] <= 271964099255182923543922814194423915162591622175362
      /\ 440047156314635932379335110006072428645041207574883 <= Fibonacci[244]
      /\ Fibonacci[244] <= 440047156314635932379335110006072428645041207574883
  <2>1. /\ Fibonacci[243] = 63245986 * Fibonacci[203] + 102334155 * Fibonacci[204]
        /\ Fibonacci[244] = 102334155 * Fibonacci[203] + 165580141 * Fibonacci[204]
    <3>1. 203 \in Nat /\ 203 + 40 = 243 /\ 203 + 41 = 244 /\ 203 + 1 = 204
      BY SMT
    <3> QED BY SMT, <3>1, FibonacciJump
  <2>2. Fibonacci[203] \in Nat /\ Fibonacci[204] \in Nat
    BY SMT, <1>1
  <2> QED BY SMT, <1>7, <2>1, <2>2
<1>9. /\ 62232491515607091882574410635924603070626544377175485625797 <= Fibonacci[283]
      /\ Fibonacci[283] <= 62232491515607091882574410635924603070626544377175485625797
      /\ 100694286476841731898333719576864360661213863366454327287613 <= Fibonacci[284]
      /\ Fibonacci[284] <= 100694286476841731898333719576864360661213863366454327287613
  <2>1. /\ Fibonacci[283] = 63245986 * Fibonacci[243] + 102334155 * Fibonacci[244]
        /\ Fibonacci[284] = 102334155 * Fibonacci[243] + 165580141 * Fibonacci[244]
    <3>1. 243 \in Nat /\ 243 + 40 = 283 /\ 243 + 41 = 284 /\ 243 + 1 = 244
      BY SMT
    <3> QED BY SMT, <3>1, FibonacciJump
  <2>2. Fibonacci[243] \in Nat /\ Fibonacci[244] \in Nat
    BY SMT, <1>1
  <2> QED BY SMT, <1>8, <2>1, <2>2
<1>10. /\ 14240420007076730617258541919943310440740965418798778412503676622857 <= Fibonacci[323]
      /\ Fibonacci[323] <= 14240420007076730617258541919943310440740965418798778412503676622857
      /\ 23041483585524168262220906489642018075101617466780496790573690289968 <= Fibonacci[324]
      /\ Fibonacci[324] <= 23041483585524168262220906489642018075101617466780496790573690289968
  <2>1. /\ Fibonacci[323] = 63245986 * Fibonacci[283] + 102334155 * Fibonacci[284]
        /\ Fibonacci[324] = 102334155 * Fibonacci[283] + 165580141 * Fibonacci[284]
    <3>1. 283 \in Nat /\ 283 + 40 = 323 /\ 283 + 41 = 324 /\ 283 + 1 = 284
      BY SMT
    <3> QED BY SMT, <3>1, FibonacciJump
  <2>2. Fibonacci[283] \in Nat /\ Fibonacci[284] \in Nat
    BY SMT, <1>1
  <2> QED BY SMT, <1>9, <2>1, <2>2
<1>11. /\ 3258580157072680796737099989600679905139007491100054385837880317693321359042 <= Fibonacci[363]
      /\ Fibonacci[363] <= 3258580157072680796737099989600679905139007491100054385837880317693321359042
      /\ 5272493449209568587646043973612216714255778679494571578509044290696557106323 <= Fibonacci[364]
      /\ Fibonacci[364] <= 5272493449209568587646043973612216714255778679494571578509044290696557106323
  <2>1. /\ Fibonacci[363] = 63245986 * Fibonacci[323] + 102334155 * Fibonacci[324]
        /\ Fibonacci[364] = 102334155 * Fibonacci[323] + 165580141 * Fibonacci[324]
    <3>1. 323 \in Nat /\ 323 + 40 = 363 /\ 323 + 41 = 364 /\ 323 + 1 = 324
      BY SMT
    <3> QED BY SMT, <3>1, FibonacciJump
  <2>2. Fibonacci[323] \in Nat /\ Fibonacci[324] \in Nat
    BY SMT, <1>1
  <2> QED BY SMT, <1>10, <2>1, <2>2
<1>12. Fibonacci[363] \in Nat /\ Fibonacci[364] \in Nat
  BY SMT, <1>1
<1> QED BY SMT, <1>11, <1>12 DEF CairoModulus

\* The numbers do not decrease.
LEMMA FibonacciBelow == ASSUME NEW m \in Nat, m <= 363 PROVE Fibonacci[m] < CairoModulus
<1>1. Fibonacci[m] <= Fibonacci[363]
  BY SMT, FibonacciGrows
<1>2. Fibonacci[m] \in Nat /\ Fibonacci[363] \in Nat /\ CairoModulus \in Nat
  <2>1. CairoModulus \in Nat
    BY SMT DEF CairoModulus
  <2>2. \A k \in Nat : Fibonacci[k] \in Nat
    BY FibonacciDef
  <2>3. 363 \in Nat
    OBVIOUS
  <2> QED BY <2>1, <2>2, <2>3
<1> QED BY <1>1, <1>2, FibonacciAtBound

\* FieldAssumption, from which the theorems above follow, holds of the modulus and
\* the bound the program really has, and not of a larger bound.
THEOREM RealFieldFits ==
    /\ Fibonacci[FibonacciBound] < Value(CairoPrime)
    /\ Value(CairoPrime) < Fibonacci[FibonacciBound + 1]
<1>1. 363 + 1 = 364
  OBVIOUS
<1> QED BY <1>1, FibonacciAtBound, PrimeValue DEF FibonacciBound

\* The locals are felts and stand for the Fibonacci numbers below i.
WidthInv ==
    /\ locals.n \in 0..363 /\ locals.i \in 2..364 /\ locals.a \in Number /\ locals.b \in Number
    /\ locals = [n |-> locals.n, i |-> locals.i, a |-> locals.a, b |-> locals.b, done |-> locals.done]
    /\ exact = <<locals.a, locals.b>>
    /\ locals.i <= locals.n + 1 \/ locals.i = 2
    /\ locals.done => locals.n < locals.i
    /\ Value(locals.a) = Fibonacci[locals.i - 2]
    /\ Value(locals.b) = Fibonacci[locals.i - 1]

\* The next sum, while i is within the bound of the field or one past it.
LEMMA NextSum ==
    ASSUME WidthInv
    PROVE  /\ Plus(locals.a, locals.b) \in Number
           /\ Value(Plus(locals.a, locals.b)) = Fibonacci[locals.i]
           /\ Less(locals.b, CairoPrime)
<1>1. PICK j \in Nat : locals.i = j + 2 /\ locals.i - 2 = j /\ locals.i - 1 = j + 1 /\ j + 1 <= 363
  BY DEF WidthInv
<1>2. /\ Fibonacci[j + 2] = Fibonacci[j + 1] + Fibonacci[j]
      /\ Fibonacci[j] \in Nat /\ Fibonacci[j + 1] \in Nat
  <2>1. j + 1 \in Nat
    OBVIOUS
  <2> QED BY <2>1, FibonacciDef
<1>3. Value(locals.a) = Fibonacci[j] /\ Value(locals.b) = Fibonacci[j + 1]
  BY <1>1 DEF WidthInv
<1>4. Fibonacci[j] < CairoModulus /\ Fibonacci[j + 1] < CairoModulus
  <2>1. j + 1 \in Nat /\ j <= 363
    BY <1>1
  <2> QED BY <1>1, <2>1, FibonacciBelow
<1>5. locals.a \in Number /\ locals.b \in Number
  BY DEF WidthInv
<1>6. locals.a[11] <= 2048 /\ locals.b[11] <= 2048 /\ Less(locals.b, CairoPrime)
  BY <1>3, <1>4, <1>5, TopLimb
<1>7. /\ Plus(locals.a, locals.b) \in Number
      /\ Value(Plus(locals.a, locals.b)) = Value(locals.a) + Value(locals.b)
  BY <1>5, <1>6, PlusValue
<1> QED BY <1>1, <1>2, <1>3, <1>6, <1>7

\* compute_fibonacci starts with F(0) and F(1).
LEMMA InitWidth == FibonacciInit => WidthInv
<1> SUFFICES ASSUME FibonacciInit PROVE WidthInv
  OBVIOUS
<1>1. /\ locals.n \in 0..363 /\ locals.i = 2 /\ locals.a = FromInteger(0) /\ locals.b = FromInteger(1)
      /\ locals.done = FALSE
      /\ locals = [n |-> locals.n, i |-> locals.i, a |-> locals.a, b |-> locals.b, done |-> locals.done]
      /\ exact = <<locals.a, locals.b>>
  BY DEF FibonacciInit, FibonacciBound
<1>2. /\ FromInteger(0) \in Number /\ Value(FromInteger(0)) = 0
      /\ FromInteger(1) \in Number /\ Value(FromInteger(1)) = 1
  BY SmallValue
<1>3. 2 - 2 = 0 /\ 2 - 1 = 1 /\ 2 \in 2..364
  OBVIOUS
<1> QED BY <1>1, <1>2, <1>3, FibonacciDef DEF WidthInv

\* One turn of its loop: the sum does not wrap, so it is the next Fibonacci
\* number.
LEMMA IterateWidth == ASSUME WidthInv, Iterate PROVE WidthInv'
<1> DEFINE sum == Plus(locals.a, locals.b)
<1>1. /\ locals.i \in 2..364 /\ locals.n \in 0..363 /\ locals.i <= locals.n /\ ~locals.done
      /\ locals.a \in Number /\ locals.b \in Number /\ exact = <<locals.a, locals.b>>
      /\ Value(locals.b) = Fibonacci[locals.i - 1]
      /\ locals = [n |-> locals.n, i |-> locals.i, a |-> locals.a, b |-> locals.b, done |-> locals.done]
  BY DEF WidthInv, Iterate, Runs
<1>2. sum \in Number /\ Value(sum) = Fibonacci[locals.i]
  BY NextSum
<1>3. FeltPlus(locals.a, locals.b) = sum
  <2>1. locals.i \in Nat /\ locals.i <= 363
    BY <1>1
  <2>2. Value(sum) < CairoModulus
    BY <1>2, <2>1, FibonacciBelow
  <2>3. Less(sum, CairoPrime)
    BY <1>2, <2>2, TopLimb
  <2> QED BY <2>3 DEF FeltPlus
<1> HIDE DEF sum
<1>4. /\ locals' = [locals EXCEPT !.a = locals.b, !.b = sum, !.i = locals.i + 1]
      /\ exact' = <<exact[2], Plus(exact[1], exact[2])>>
  BY <1>3 DEF Iterate
<1>5. exact' = <<locals.b, sum>>
  BY <1>1, <1>4 DEF sum
<1>6. /\ locals'.n = locals.n /\ locals'.i = locals.i + 1 /\ locals'.a = locals.b /\ locals'.b = sum
      /\ locals'.done = locals.done
      /\ locals' = [n |-> locals'.n, i |-> locals'.i, a |-> locals'.a, b |-> locals'.b, done |-> locals'.done]
  BY <1>1, <1>4
<1>7. /\ locals.i + 1 \in 2..364 /\ locals.i + 1 <= locals.n + 1
      /\ (locals.i + 1) - 2 = locals.i - 1 /\ (locals.i + 1) - 1 = locals.i
  <2>1. /\ locals.i \in Int /\ 2 <= locals.i /\ locals.i <= locals.n
        /\ locals.n \in Int /\ locals.n <= 363
    BY <1>1
  <2> QED BY <2>1
<1> QED BY <1>1, <1>2, <1>5, <1>6, <1>7 DEF WidthInv

\* Every step keeps the invariant.
LEMMA NextWidth == WidthInv /\ [FibonacciNext]_fibonacciVars => WidthInv'
<1> SUFFICES ASSUME WidthInv, [FibonacciNext]_fibonacciVars PROVE WidthInv'
  OBVIOUS
<1>1. CASE Iterate
  BY <1>1, IterateWidth
<1>2. CASE Return
  <2>1. locals' = [n |-> locals.n, i |-> locals.i, a |-> locals.a, b |-> locals.b, done |-> TRUE]
    BY <1>2 DEF Return, WidthInv
  <2>2. locals.n < locals.i /\ exact' = exact
    <3>1. locals.n \in Int /\ locals.i \in Int /\ ~(locals.i <= locals.n) /\ exact' = exact
      BY <1>2 DEF Return, Runs, WidthInv
    <3> QED BY <3>1
  <2> QED BY <2>1, <2>2 DEF WidthInv
<1>3. CASE UNCHANGED fibonacciVars
  BY <1>3 DEF WidthInv, fibonacciVars
<1> QED BY <1>1, <1>2, <1>3 DEF FibonacciNext

\* constants.rs, MAX_FIBONACCI_N: compute_fibonacci returns the Fibonacci number
\* and not a residue of it for every n that main admits, and 363 is the last such
\* n, since the next sum is past the modulus.
THEOREM BoundAlwaysExact == FibonacciSpec => []BoundIsExact
<1>1. WidthInv => BoundIsExact
  <2> SUFFICES ASSUME WidthInv PROVE BoundIsExact
    OBVIOUS
  <2>1. exact[1] = locals.a /\ exact[2] = locals.b
    BY DEF WidthInv
  <2>2. NeverWraps
    <3>1. locals.n > 1 => Result = locals.b
      BY DEF Result, WidthInv
    <3> QED BY <2>1, <3>1, NextSum DEF NeverWraps
  <2>3. BoundIsTight
    <3> SUFFICES ASSUME locals.done, locals.n = 363 PROVE Less(CairoPrime, Plus(locals.a, locals.b))
      BY <2>1 DEF BoundIsTight, FibonacciBound
    <3>1. locals.i = 364
      BY DEF WidthInv
    <3>2. CairoModulus < Value(Plus(locals.a, locals.b)) /\ Plus(locals.a, locals.b) \in Number
      BY <3>1, NextSum, FibonacciAtBound
    <3> QED BY <3>2, PrimeValue, LessByValue
  <2> QED BY <2>2, <2>3 DEF BoundIsExact
<1> QED BY <1>1, InitWidth, NextWidth, PTL DEF FibonacciSpec
=============================================================================
