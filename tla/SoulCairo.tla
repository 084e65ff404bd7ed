----------------------------- MODULE SoulCairo ------------------------------
(***************************************************************************)
(* The computation Soul Society proves and the encodings around it:        *)
(*   - the bounds on a job, as the SDK and as the provider check them;     *)
(*   - encode_job, which flattens a job for the Cairo executable;          *)
(*   - main of soul-cairo, with its three services;                        *)
(*   - decode_statement, which reads the public output of a proof;         *)
(*   - the checks that bind a statement to a request.                      *)
(*                                                                         *)
(* A felt is a number below Prime; its one textual form (FeltHex) is not   *)
(* modelled, since equal felts have equal texts.  The program identifier   *)
(* of a statement is fixed and left out.                                   *)
(***************************************************************************)
EXTENDS Integers, Sequences

CONSTANTS
    Prime,                  \* the modulus of the Cairo field
    U64,                    \* the number of values of u64
    MAX_FIBONACCI_N,
    MAX_MERKLE_DEPTH,
    Poseidon(_),            \* poseidon_hash_span
    Job,                    \* jobs of an instance, valid or not
    None

Felt == 0..(Prime - 1)
IsU64(x) == x < U64

\* 2_u64.pow(depth) of main: the number of leaves of a tree of that depth.
Pow2[depth \in Nat] == IF depth = 0 THEN 1 ELSE 2 * Pow2[depth - 1]

ASSUME CairoAssumption ==
    /\ Prime \in Nat /\ U64 \in Nat
    /\ MAX_FIBONACCI_N \in Nat /\ MAX_MERKLE_DEPTH \in Nat
    /\ U64 <= Prime /\ 3 < U64
    /\ MAX_FIBONACCI_N < U64 /\ Pow2[MAX_MERKLE_DEPTH] < U64
    /\ \A x, y \in Felt : Poseidon(<<x>>) \in Felt /\ Poseidon(<<x, y>>) \in Felt

-----------------------------------------------------------------------------
(* Jobs.                                                                   *)

\* JobInput: one variant for each service.
JobInput ==
    [type: {"fibonacci"}, n: 0..(U64 - 1)]
    \cup [type: {"hash_verify"}, hash: Felt, preimage: Felt]
    \cup [type: {"merkle_proof"}, root: Felt, leaf: Felt, proof: Seq(Felt), index: 0..(U64 - 1)]

ASSUME JobAssumption == Job \subseteq JobInput

\* The program a hash stands for: the reviewed executable or another one.
Program == {"trusted", "other"}

\* validateJobInput of the SDK: what a client may sign.
SdkAccepts(job) ==
    CASE job.type = "fibonacci" -> job.n <= MAX_FIBONACCI_N
      [] job.type = "hash_verify" -> TRUE
      [] job.type = "merkle_proof" ->
            /\ Len(job.proof) <= MAX_MERKLE_DEPTH
            /\ job.index < (IF job.proof = <<>> THEN 1 ELSE Pow2[Len(job.proof)])

\* JobInput::validate: what the provider takes on.
Validate(job) ==
    /\ job.type = "fibonacci" => job.n <= MAX_FIBONACCI_N
    /\ job.type = "merkle_proof" =>
          /\ Len(job.proof) <= MAX_MERKLE_DEPTH
          /\ IF job.proof = <<>> THEN job.index = 0 ELSE job.index < Pow2[Len(job.proof)]

ServiceId == [fibonacci |-> 1, hash_verify |-> 2, merkle_proof |-> 3]
ServiceOf(id) == CHOOSE t \in DOMAIN ServiceId : ServiceId[t] = id

\* encode_job: service, length and public input, length and private input.
EncodeJob(job) ==
    CASE job.type = "fibonacci" -> <<ServiceId.fibonacci, 1, job.n, 0>>
      [] job.type = "hash_verify" -> <<ServiceId.hash_verify, 1, job.hash, 1, job.preimage>>
      [] job.type = "merkle_proof" ->
            <<ServiceId.merkle_proof, 3, job.root, job.leaf, job.index, Len(job.proof)>> \o job.proof

-----------------------------------------------------------------------------
(* Words: a service id and two arrays, each with its length before it.  The *)
(* arguments of main and its return value both have this layout.           *)

\* The cursor of decode_statement gets to the end, and not further.
WellFormed(w) ==
    /\ Len(w) >= 3 /\ IsU64(w[1]) /\ IsU64(w[2])
    /\ Len(w) >= 3 + w[2]
    /\ IsU64(w[3 + w[2]])
    /\ Len(w) = 3 + w[2] + w[3 + w[2]]

First(w) == SubSeq(w, 3, 2 + w[2])
Second(w) == SubSeq(w, 4 + w[2], 3 + w[2] + w[3 + w[2]])

-----------------------------------------------------------------------------
(* soul-cairo.                                                             *)

\* The loop of compute_fibonacci: <<a, b>> after the iterations up to i.
FibonacciLoop[i \in Nat] ==
    IF i < 2
    THEN <<0, 1>>
    ELSE LET p == FibonacciLoop[i - 1] IN <<p[2], (p[1] + p[2]) % Prime>>

ComputeFibonacci(n) == IF n = 0 THEN 0 ELSE FibonacciLoop[n][2]

VerifyHash(expected, preimage) == Poseidon(<<preimage>>) = expected

\* Mutant: the bits of the index are not shifted out.
ComputeRootUnshifted(leaf, proof, index) ==
    LET level[i \in 0..Len(proof)] ==
            IF i = 0
            THEN leaf
            ELSE Poseidon(IF index % 2 = 0 THEN <<level[i - 1], proof[i]>>
                                           ELSE <<proof[i], level[i - 1]>>)
    IN  level[Len(proof)]

\* The loop of compute_root: <<current, idx>> after i siblings.
ComputeRoot(leaf, proof, index) ==
    LET level[i \in 0..Len(proof)] ==
            IF i = 0
            THEN <<leaf, index>>
            ELSE LET p == level[i - 1]
                 IN  <<Poseidon(IF p[2] % 2 = 0 THEN <<p[1], proof[i]>> ELSE <<proof[i], p[1]>>),
                       p[2] \div 2>>
    IN  level[Len(proof)][1]

VerifyMerkleProof(root, leaf, proof, index) == ComputeRoot(leaf, proof, index) = root

\* Mutant: the depth is compared with < instead of <=.
AssertsShallow(service, public, private) ==
    \/ /\ service = ServiceId.fibonacci
       /\ Len(public) = 1 /\ private = <<>>
       /\ IsU64(public[1]) /\ public[1] <= MAX_FIBONACCI_N
    \/ /\ service = ServiceId.hash_verify
       /\ Len(public) = 1 /\ Len(private) = 1
    \/ /\ service = ServiceId.merkle_proof
       /\ Len(public) = 3 /\ Len(private) < MAX_MERKLE_DEPTH
       /\ IsU64(public[3]) /\ public[3] < Pow2[Len(private)]

\* The assertions of main: it panics, and nothing is proved, unless they hold.
Asserts(service, public, private) ==
    \/ /\ service = ServiceId.fibonacci
       /\ Len(public) = 1 /\ private = <<>>
       /\ IsU64(public[1]) /\ public[1] <= MAX_FIBONACCI_N
    \/ /\ service = ServiceId.hash_verify
       /\ Len(public) = 1 /\ Len(private) = 1
    \/ /\ service = ServiceId.merkle_proof
       /\ Len(public) = 3 /\ Len(private) <= MAX_MERKLE_DEPTH
       /\ IsU64(public[3]) /\ public[3] < Pow2[Len(private)]

BooleanFelt(valid) == IF valid THEN 1 ELSE 0

\* main, for arguments that pass the assertions: the word of its return value.
Main(service, public, private) ==
    LET output ==
        CASE service = ServiceId.fibonacci -> ComputeFibonacci(public[1])
          [] service = ServiceId.hash_verify -> BooleanFelt(VerifyHash(public[1], private[1]))
          [] service = ServiceId.merkle_proof ->
                BooleanFelt(VerifyMerkleProof(public[1], public[2], private, public[3]))
    IN  <<service, Len(public)>> \o public \o <<1, output>>

-----------------------------------------------------------------------------
(* Statements.                                                             *)

Arity == [fibonacci |-> 1, hash_verify |-> 1, merkle_proof |-> 3]

\* What validate_statement requires of a statement, and parseStatement too.
ValidStatement(st) ==
    /\ st.output.type = st.service
    /\ Len(st.public_input) = Arity[st.service]
    /\ st.public_output = <<IF st.service = "fibonacci" THEN st.output.result
                                                        ELSE BooleanFelt(st.output.valid)>>

\* decode_statement succeeds.  The provider (soul-prover) and the browser
\* (soul-wasm) each have a copy of it, and of validate_statement above.
Decodable(w) ==
    /\ WellFormed(w)
    /\ w[1] \in {ServiceId[t] : t \in DOMAIN ServiceId}
    /\ Len(First(w)) = Arity[ServiceOf(w[1])]
    /\ Len(Second(w)) = 1
    /\ w[1] # ServiceId.fibonacci => Second(w)[1] \in {0, 1}

\* The statement it returns.
DecodeStatement(w) ==
    LET service == ServiceOf(w[1])
        out == Second(w)[1]
    IN  [service |-> service,
         public_input |-> First(w),
         public_output |-> Second(w),
         output |-> IF service = "fibonacci"
                    THEN [type |-> service, result |-> out]
                    ELSE [type |-> service, valid |-> out = 1]]

\* The public input a job determines.
PublicInput(job) ==
    CASE job.type = "fibonacci" -> <<job.n>>
      [] job.type = "hash_verify" -> <<job.hash>>
      [] job.type = "merkle_proof" -> <<job.root, job.leaf, job.index>>

\* statement_matches_request of the provider.
StatementMatchesRequest(st, job) ==
    /\ st.service = job.type
    /\ st.public_input = PublicInput(job)

\* assertStatementBoundToRequest of the SDK.
BoundToRequest(st, job) ==
    /\ st.service = job.type /\ st.output.type = job.type
    /\ st.public_input = PublicInput(job)
    /\ st.public_output = <<IF job.type = "fibonacci" THEN st.output.result
                                                      ELSE BooleanFelt(st.output.valid)>>

-----------------------------------------------------------------------------
(* The reference: what each service is meant to compute.                   *)

\* F(0) = 0, F(1) = 1, F(n) = F(n-1) + F(n-2), as a number and not as a felt.
Fibonacci[n \in Nat] == IF n < 2 THEN n ELSE Fibonacci[n - 1] + Fibonacci[n - 2]

\* constants.rs: F(MAX_FIBONACCI_N) is a felt.  CairoFibonacci checks it for the
\* modulus of the program.
ASSUME FieldAssumption == Fibonacci[MAX_FIBONACCI_N] < Prime

\* The root over the leaf in position index, counted from the left: the upper
\* half of the positions is the right subtree.
RootAbove(leaf, proof, index) ==
    LET over[d \in 0..Len(proof)] ==
            IF d = 0
            THEN leaf
            ELSE IF (index \div Pow2[d - 1]) % 2 = 0
                 THEN Poseidon(<<over[d - 1], proof[d]>>)
                 ELSE Poseidon(<<proof[d], over[d - 1]>>)
    IN  over[Len(proof)]

\* The answer a client expects to its job.
Answer(job) ==
    CASE job.type = "fibonacci" -> [type |-> job.type, result |-> Fibonacci[job.n]]
      [] job.type = "hash_verify" ->
            [type |-> job.type, valid |-> Poseidon(<<job.preimage>>) = job.hash]
      [] job.type = "merkle_proof" ->
            [type |-> job.type, valid |-> RootAbove(job.leaf, job.proof, job.index) = job.root]
=============================================================================
