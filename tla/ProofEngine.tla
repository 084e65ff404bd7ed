----------------------------- MODULE ProofEngine ----------------------------
(***************************************************************************)
(* VerifiableJobEngine: the provider runs a job in the Cairo executable,   *)
(* proves the run, verifies its own proof from scratch and hands out the   *)
(* artifact; ProofProcessor then binds the statement to the request.       *)
(*                                                                         *)
(* The executable is a file.  It is compared with the reviewed digest when *)
(* the engine is built, and opened again for every job.                    *)
(***************************************************************************)
EXTENDS SoulCairo

CONSTANTS
    OtherWords,     \* what an executable that is not the reviewed one may return
    Salts           \* channel salts tried by prove_with_salt_retries

Stage == {"unbuilt", "ready", "execute", "prove", "verify", "match", "answered", "failed"}
Failures == {"executable", "input", "execution", "adaptation", "proving", "proof",
             "verification", "binding"}

ASSUME EngineAssumption ==
    /\ OtherWords \subseteq Seq(Nat)
    /\ Salts \in Nat \ {0}
    /\ None \notin Job \cup Program \cup Failures

VARIABLES
    executable,     \* what the configured path holds: a program, or nothing
    stage,          \* where prove_job is
    job,            \* the job, once there is one
    trace,          \* the run to be proved: program and public output
    salt,           \* the channel salt of the next attempt
    statement,      \* the statement of the artifact
    failure,        \* why prove_job or the processor gave up
    replaced        \* history: the executable changed after the engine was built

vars == <<executable, stage, job, trace, salt, statement, failure, replaced>>

Init ==
    /\ executable \in Program \cup {None}
    /\ stage = "unbuilt"
    /\ job = None /\ trace = None /\ statement = None /\ failure = None
    /\ salt = 0
    /\ replaced = FALSE

Fail(reason) ==
    /\ stage' = "failed" /\ failure' = reason
    /\ UNCHANGED <<executable, job, trace, salt, statement, replaced>>

\* VerifiableJobEngine::new: the file exists and has the reviewed digest.
NewEngine ==
    /\ stage = "unbuilt"
    /\ \/ /\ executable = "trusted"
          /\ stage' = "ready"
          /\ UNCHANGED <<executable, job, trace, salt, statement, failure, replaced>>
       \/ /\ executable # "trusted"
          /\ Fail("executable")

\* The file is replaced or removed under the running provider.
ReplaceExecutable ==
    /\ executable' \in (Program \cup {None}) \ {executable}
    /\ replaced' = (stage # "unbuilt")
    /\ UNCHANGED <<stage, job, trace, salt, statement, failure>>

\* The head of prove_job_inner.
ProveJob(j) ==
    /\ stage = "ready"
    /\ job' = j
    /\ IF Validate(j)
       THEN stage' = "execute" /\ UNCHANGED failure
       ELSE stage' = "failed" /\ failure' = "input"
    /\ UNCHANGED <<executable, trace, salt, statement, replaced>>

\* execute_and_adapt: the file is opened, run on the flattened arguments, and
\* the trace adapted.
Execute ==
    /\ stage = "execute"
    /\ \/ /\ \/ /\ executable = "trusted"
                /\ LET w == EncodeJob(job)
                   IN  /\ WellFormed(w) /\ Asserts(w[1], First(w), Second(w))
                       /\ trace' = [program |-> executable,
                                    word |-> Main(w[1], First(w), Second(w))]
             \/ /\ executable = "other"
                /\ \E w \in OtherWords : trace' = [program |-> executable, word |-> w]
          /\ stage' = "prove"
          /\ UNCHANGED <<executable, job, salt, statement, failure, replaced>>
       \/ /\ executable = "trusted" =>
                LET w == EncodeJob(job)
                IN  ~(WellFormed(w) /\ Asserts(w[1], First(w), Second(w)))
          /\ Fail("execution")
       \/ Fail("adaptation")

\* Mutant: the loop over the salts has no end.
ProveAttemptForever ==
    /\ stage = "prove"
    /\ salt' = (salt + 1) % Salts
    /\ UNCHANGED <<stage, executable, job, trace, statement, failure, replaced>>

\* One round of prove_with_salt_retries: a proof, or an error or a panic.
ProveAttempt ==
    /\ stage = "prove"
    /\ \/ /\ stage' = "verify"
          /\ UNCHANGED <<executable, job, trace, salt, statement, failure, replaced>>
       \/ /\ salt + 1 < Salts
          /\ salt' = salt + 1
          /\ UNCHANGED <<stage, executable, job, trace, statement, failure, replaced>>
       \/ /\ salt + 1 = Salts
          /\ Fail("proving")

\* Mutant: the program hash of the proof is not compared with the manifest.
VerifySerializedAnyProgram(p) == Decodable(p.word)

\* verify_and_decode and verify_serialized on the engine's own proof.
VerifySerialized(p) ==
    /\ Decodable(p.word)
    /\ ValidStatement(DecodeStatement(p.word))
    /\ p.program = "trusted"

\* The proof is serialized and verified.  "proof" is a proof that cannot be
\* serialized, is too large, or that the verifier does not accept.
SelfVerify ==
    /\ stage = "verify"
    /\ \/ /\ VerifySerialized(trace)
          /\ statement' = DecodeStatement(trace.word)
          /\ stage' = "match"
          /\ UNCHANGED <<executable, job, trace, salt, failure, replaced>>
       \/ /\ ~VerifySerialized(trace)
          /\ Fail("verification")
       \/ Fail("proof")

\* ProofProcessor::process, after the worker has returned the artifact.
MatchRequest ==
    /\ stage = "match"
    /\ \/ /\ StatementMatchesRequest(statement, job)
          /\ stage' = "answered"
          /\ UNCHANGED <<executable, job, trace, salt, statement, failure, replaced>>
       \/ /\ ~StatementMatchesRequest(statement, job)
          /\ Fail("binding")

EngineStep == Execute \/ ProveAttempt \/ SelfVerify \/ MatchRequest

Next ==
    \/ NewEngine
    \/ ReplaceExecutable
    \/ \E j \in Job : ProveJob(j)
    \/ EngineStep

Spec == Init /\ [][Next]_vars

\* The worker thread keeps running; whether an attempt succeeds is open.
FairSpec == Spec /\ WF_vars(EngineStep)

-----------------------------------------------------------------------------
(* Properties.                                                             *)

\* The types; prove_with_salt_retries never uses a salt past the last one, and
\* each stage of prove_job finds the trace it works on.
TypeOK ==
    /\ executable \in Program \cup {None}
    /\ stage \in Stage
    /\ job \in Job \cup {None}
    /\ stage \in {"execute", "prove", "verify", "match", "answered"} => job \in Job
    /\ stage \in {"prove", "verify", "match", "answered"} =>
          trace.program \in Program /\ trace.word \in Seq(Nat)
    /\ salt \in 0..(Salts - 1)
    /\ failure \in Failures \cup {None}
    /\ stage = "failed" <=> failure # None
    /\ replaced \in BOOLEAN

\* An artifact is only handed out for a run of the reviewed program, also when
\* the executable was replaced after its digest had been checked.
ArtifactIsTrusted == stage \in {"match", "answered"} => trace.program = "trusted"

\* The invariant of the engine.
EngineInv == TypeOK /\ ArtifactIsTrusted

\* The statement of an answer is the true answer to the job: encode_job, main
\* and decode_statement agree on the order and the meaning of every value, the
\* Fibonacci number has not wrapped around the field, and a Merkle path counts
\* for the position it was made for.
AnswerIsTrue ==
    stage = "answered" =>
        /\ statement.service = job.type
        /\ statement.public_input = PublicInput(job)
        /\ statement.output = Answer(job)

\* The bounds on jobs agree in all three languages: the SDK signs exactly the
\* jobs the provider accepts, and such a job makes the reviewed program neither
\* panic nor answer something else.
BoundsAgree ==
    /\ job # None => (SdkAccepts(job) <=> Validate(job))
    /\ failure \in {"execution", "verification", "binding"} => replaced

\* A job given to the engine ends, whatever the prover does with each salt.
JobEnds == stage = "execute" ~> stage \in {"answered", "failed"}
=============================================================================
