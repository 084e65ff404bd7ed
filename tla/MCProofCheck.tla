---------------------------- MODULE MCProofCheck -----------------------------
(***************************************************************************)
(* Requests of each service, results that answer them truly and falsely or *)
(* answer another request, and proofs of true and of false outputs.        *)
(***************************************************************************)
EXTENDS ProofCheck

MCPoseidon(s) == IF Len(s) = 1 THEN (3 * s[1] + 5) % Prime ELSE (3 * s[1] + 4 * s[2] + 1) % Prime

MCJob ==
    [type: {"fibonacci"}, n: {5, 6, 7}]
    \cup [type: {"hash_verify"}, hash: {0, 8}, preimage: {1}]
    \cup [type: {"merkle_proof"}, root: {0, 6}, leaf: {7}, proof: {<<>>, <<1>>}, index: {0, 1}]

Inputs == {<<5>>, <<6>>, <<8>>, <<0>>, <<0, 7, 0>>, <<6, 7, 1>>, <<5, 5>>}
Outputs == {<<0>>, <<1>>, <<5>>, <<8>>}

MCDeclared ==
    [service: {"fibonacci", "hash_verify", "merkle_proof"},
     public_input: Inputs, public_output: Outputs,
     output: [type: {"fibonacci"}, result: {0, 1, 5, 8}]
             \cup [type: {"hash_verify", "merkle_proof"}, valid: BOOLEAN]]

MCWord ==
    {<<s, Len(i)>> \o i \o <<1>> \o o : s \in 0..4, i \in Inputs, o \in Outputs}
    \cup {<<>>, <<1, 1, 5, 1>>, <<1, 1, 5, 1, 5, 5>>, <<2, 1, 8, 2, 1, 1>>}

MCPrivateInput == UNION {[1..d -> Felt] : d \in 0..MAX_MERKLE_DEPTH}
=============================================================================
