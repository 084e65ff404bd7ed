---------------------------- MODULE MCProofEngine ----------------------------
(***************************************************************************)
(* A field of 11 elements, u64 of 8 values, Fibonacci up to F(6) = 8, the   *)
(* last one below the modulus, and Merkle paths up to depth 2.  The jobs    *)
(* reach past every one of these bounds.                                   *)
(***************************************************************************)
EXTENDS ProofEngine

\* Not symmetric in its arguments, and not injective, like any hash.
MCPoseidon(s) == IF Len(s) = 1 THEN (3 * s[1] + 5) % Prime ELSE (3 * s[1] + 4 * s[2] + 1) % Prime

Paths == UNION {[1..d -> {1, 4}] : d \in 0..(MAX_MERKLE_DEPTH + 1)}

MCJob ==
    [type: {"fibonacci"}, n: 0..(U64 - 1)]
    \cup [type: {"hash_verify"}, hash: Felt, preimage: {0, 2, Prime - 1}]
    \cup [type: {"merkle_proof"}, root: Felt, leaf: {0, 7}, proof: Paths, index: 0..(U64 - 1)]

\* Well-formed outputs of another program, and outputs with a bad length, a
\* bad arity, a bad boolean, a trailing value or an unknown service.
MCOtherWords ==
    {<<1, 1, 5, 1, 9>>, <<2, 1, 8, 1, 1>>, <<3, 3, 0, 7, 0, 1, 1>>,
     <<>>, <<1, 1, 5>>, <<1, 9, 5, 1, 9>>, <<2, 2, 8, 8, 1, 1>>, <<2, 1, 8, 1, 2>>,
     <<1, 1, 5, 1, 5, 0>>, <<4, 1, 5, 1, 5>>, <<1, 1, 5, 10, 5>>}
=============================================================================
