----------------------------- MODULE ProofCheck ------------------------------
(***************************************************************************)
(* The client's side of a proof: a signed result declares a statement and  *)
(* a program hash, a server delivers a proof, and the job is verified only *)
(* after validateResultEvent, the comparison of program hashes and the     *)
(* WASM verifier.  Result and proof may come from anywhere; all that is    *)
(* assumed is that STWO is sound at the required profile.                  *)
(***************************************************************************)
EXTENDS SoulCairo

CONSTANTS
    Declared,       \* statements a result may carry, consistent or not
    Word,           \* public outputs a proof may carry
    PrivateInput    \* private inputs a prover may use

VARIABLES
    clientStage,
    clientJob,      \* the job of the request the client has signed
    result,         \* the declared statement and program hash
    fetched         \* the proof, once it is fetched

clientVars == <<clientStage, clientJob, result, fetched>>

Profile == {"required", "weaker"}

\* w is the output of a run of the reviewed program.
IsRun(w) ==
    /\ WellFormed(w)
    /\ \E private \in PrivateInput :
          Asserts(w[1], First(w), private) /\ w = Main(w[1], First(w), private)

\* Bytes with the declared digest: a proof at some profile, which verify_cairo
\* accepts or rejects.
Proof == [program: Program, profile: Profile, word: Word, accepted: BOOLEAN]

\* What is assumed of verify_cairo: nothing at a weaker profile.
Sound(p) ==
    p.accepted /\ p.profile = "required" /\ p.program = "trusted" => IsRun(p.word)

ClientInit ==
    /\ clientStage = "awaiting"
    /\ clientJob \in {j \in Job : SdkAccepts(j)}
    /\ result = None /\ fetched = None

\* validateResultEvent: parseStatement, then the binding to the request.  A
\* result that is not valid leaves the job waiting.
ReceiveResult ==
    /\ clientStage = "awaiting"
    /\ \E st \in Declared, program \in Program :
          /\ ValidStatement(st) /\ BoundToRequest(st, clientJob)
          /\ result' = [statement |-> st, program_hash |-> program]
    /\ clientStage' = "received"
    /\ UNCHANGED <<clientJob, fetched>>

\* run() compares the declared program hash before anything is fetched.
CheckProgram ==
    /\ clientStage = "received"
    /\ clientStage' = IF result.program_hash = "trusted" THEN "fetching" ELSE "failed"
    /\ UNCHANGED <<clientJob, result, fetched>>

FetchProof ==
    /\ clientStage = "fetching"
    /\ fetched' \in {p \in Proof : Sound(p)}
    /\ clientStage' = "verifying"
    /\ UNCHANGED <<clientJob, result>>

\* Mutant: the profile of the proof is not compared with the required one.
VerifyProofAnyProfile(p, st) ==
    /\ ValidStatement(st)
    /\ p.accepted
    /\ p.program = "trusted"
    /\ Decodable(p.word) /\ DecodeStatement(p.word) = st

\* verify_proof_impl of soul-wasm, with the trusted program hash.
VerifyProof(p, st) ==
    /\ ValidStatement(st)
    /\ p.profile = "required"
    /\ p.accepted
    /\ p.program = "trusted"
    /\ Decodable(p.word) /\ DecodeStatement(p.word) = st

VerifyProofBytes ==
    /\ clientStage = "verifying"
    /\ clientStage' = IF /\ result.program_hash = "trusted"
                   /\ VerifyProof(fetched, result.statement)
                THEN "verified"
                ELSE "failed"
    /\ UNCHANGED <<clientJob, result, fetched>>

ClientNext == ReceiveResult \/ CheckProgram \/ FetchProof \/ VerifyProofBytes

ClientSpec == ClientInit /\ [][ClientNext]_clientVars

-----------------------------------------------------------------------------
(* Properties.                                                             *)

\* docs/security-model.md: a client that reaches "verified" knows that the
\* trusted program produced the declared output from the public input of its
\* own request, with some private input.  Where there is none the answer itself
\* is verified: a Fibonacci number is the one asked for.
VerifiedClaim ==
    clientStage = "verified" =>
        /\ clientJob.type = "fibonacci" => result.statement.output = Answer(clientJob)
        /\ \E private \in PrivateInput :
               LET service == ServiceId[clientJob.type]
               IN  /\ Asserts(service, PublicInput(clientJob), private)
                   /\ Decodable(Main(service, PublicInput(clientJob), private))
                   /\ DecodeStatement(Main(service, PublicInput(clientJob), private)) = result.statement
=============================================================================
