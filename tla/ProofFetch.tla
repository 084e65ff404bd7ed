----------------------------- MODULE ProofFetch -----------------------------
(***************************************************************************)
(* The download of a proof (packages/soul-sdk/src/proof.ts,                *)
(* fetchProofArtifact) inside the job that runs it.  SoulJob says only how *)
(* an attempt may end; here it is a response, a stream of chunks of which  *)
(* any may be damaged or the last one missing, and a digest, against a     *)
(* timeout and the cancellation of the job.                                *)
(*                                                                         *)
(* The signal of the download is its own.  It is aborted by the timeout,   *)
(* and by an event of the job's signal that comes while the download       *)
(* listens to it.  The platform's fetch and its stream reject once the     *)
(* signal is aborted; the digest does not look at it.                      *)
(***************************************************************************)
EXTENDS SoulJob

CONSTANTS
    ByteSize,       \* byte_size of the signed descriptor
    Chunk           \* sizes of the chunks a stream may deliver

ASSUME FetchAssumption == ByteSize \in Nat \ {0} /\ Chunk \subseteq Nat

VARIABLES
    download,       \* what fetchProofArtifact waits for, or "none"
    total,          \* bytes read so far
    intact,         \* they are the bytes of the signed proof
    deadline,       \* the timeout is armed
    listening,      \* onAbort listens to the signal of the job
    stopped,        \* the signal of the download is aborted
    declined        \* history: the server has sent something it may not send

downloadVars == <<download, total, intact, deadline, listening, stopped, declined>>
fetchVars == <<vars, downloadVars>>

NoDownload ==
    /\ download = "none" /\ total = 0 /\ intact = TRUE
    /\ deadline = FALSE /\ listening = FALSE /\ stopped = FALSE
    /\ declined = FALSE

FetchInit == Init /\ NoDownload

-----------------------------------------------------------------------------

\* Mutant: no timeout is armed.
DownloadBeginsUntimed ==
    /\ pc = "u_proof_attempt" /\ Continue
    /\ download' = "response" /\ total' = 0 /\ intact' = TRUE
    /\ deadline' = FALSE /\ listening' = TRUE /\ stopped' = FALSE
    /\ declined' = FALSE

\* Mutant: combinedAbortSignal does not forward the signal of the job.
DownloadBeginsDeaf ==
    /\ pc = "u_proof_attempt" /\ Continue
    /\ download' = "response" /\ total' = 0 /\ intact' = TRUE
    /\ deadline' = TRUE /\ listening' = FALSE /\ stopped' = FALSE
    /\ declined' = FALSE

\* fetchProofArtifact up to its first await.  combinedAbortSignal waits for the
\* event of the job's signal; an event of earlier is not seen.
DownloadBegins ==
    /\ pc = "u_proof_attempt" /\ Continue
    /\ download' = "response" /\ total' = 0 /\ intact' = TRUE
    /\ deadline' = TRUE /\ listening' = TRUE /\ stopped' = FALSE
    /\ declined' = FALSE

\* Mutant: dispose() is only called with the bytes.
DownloadEndsUndisposed(outcome) ==
    /\ FetchEndsWith(outcome)
    /\ download' = "none" /\ total' = 0 /\ intact' = TRUE
    /\ IF outcome = "bytes"
       THEN deadline' = FALSE /\ listening' = FALSE
       ELSE UNCHANGED <<deadline, listening>>
    /\ stopped' = FALSE

\* The attempt is over: the finally disposes of the timeout and the listener.
DownloadEnds(outcome) ==
    /\ FetchEndsWith(outcome)
    /\ download' = "none" /\ total' = 0 /\ intact' = TRUE
    /\ deadline' = FALSE /\ listening' = FALSE
    /\ stopped' = FALSE

\* Mutant: whatever aborted the download, it is not retried.
RejectsForGood == DownloadEnds(IF stopped THEN "refused" ELSE "transient") /\ UNCHANGED declined

\* An error that is no SoulWireError reaches the catch: it is worth another
\* attempt unless the job was cancelled.
Rejects ==
    /\ DownloadEnds(IF stopped /\ aborted THEN "refused" ELSE "transient")
    /\ UNCHANGED declined

\* The server answers: with a status that may pass, or with a status, a type
\* or a length the descriptor rules out, or with a body.
Respond ==
    /\ download = "response" /\ ~stopped
    /\ \/ DownloadEnds("transient") /\ UNCHANGED declined
       \/ DownloadEnds("refused") /\ declined' = TRUE
       \/ /\ download' = "chunk"
          /\ UNCHANGED <<vars, total, intact, deadline, listening, stopped, declined>>

\* Mutant: the size is compared before the chunk is added to it.
ReadThenCompare ==
    /\ download = "chunk" /\ ~stopped
    /\ \/ /\ \E n \in Chunk :
                /\ total' = total + n
                /\ intact' \in {intact, FALSE}
          /\ download' = IF total > ByteSize THEN "cancel" ELSE "chunk"
          /\ declined' = (total > ByteSize)
          /\ UNCHANGED <<vars, deadline, listening, stopped>>
       \/ total # ByteSize /\ DownloadEnds("transient") /\ UNCHANGED declined
       \/ /\ total = ByteSize
          /\ download' = "digest"
          /\ UNCHANGED <<vars, total, intact, deadline, listening, stopped, declined>>

\* One turn of the read loop.  A stream that ends early is worth another try,
\* one that goes on past the signed size is cancelled.
Read ==
    /\ download = "chunk" /\ ~stopped
    /\ \/ /\ \E n \in Chunk :
                /\ total' = total + n
                /\ intact' \in {intact, FALSE}
          /\ download' = IF total' > ByteSize THEN "cancel" ELSE "chunk"
          /\ declined' = (total' > ByteSize)
          /\ UNCHANGED <<vars, deadline, listening, stopped>>
       \/ total # ByteSize /\ DownloadEnds("transient") /\ UNCHANGED declined
       \/ /\ total = ByteSize
          /\ download' = "digest"
          /\ UNCHANGED <<vars, total, intact, deadline, listening, stopped, declined>>

\* The connection breaks, or the signal was aborted.
ConnectionLost == download \in {"response", "chunk"} /\ Rejects

\* reader.cancel() returns, or rejects because the stream was aborted by then.
ReaderCancelled ==
    /\ download = "cancel"
    /\ \/ DownloadEnds("refused") /\ UNCHANGED declined
       \/ stopped /\ Rejects

\* crypto.subtle.digest, then the comparison with the signed digest.
Digested ==
    /\ download = "digest"
    /\ DownloadEnds(IF intact THEN "bytes" ELSE "transient")
    /\ UNCHANGED declined

TimerFires ==
    /\ deadline
    /\ deadline' = FALSE /\ stopped' = TRUE
    /\ UNCHANGED <<vars, download, total, intact, listening, declined>>

\* A step of the job.  cancel() during a download reaches its signal.
Beside(step) ==
    /\ step
    /\ stopped' = (stopped \/ (listening /\ ~aborted /\ aborted'))
    /\ UNCHANGED <<download, total, intact, deadline, listening, declined>>

-----------------------------------------------------------------------------

\* Steps that need neither the server nor the application.
OwnStep ==
    \/ Beside(Continue /\ pc # "u_proof_attempt")
    \/ Beside(WaitForResult) \/ Beside(Rejected) \/ Beside(Settle) \/ Beside(RetryResumes)
    \/ Beside(PublishEnds) \/ Beside(DelayEnds) \/ Beside(ResultResolved)
    \/ Beside(ResultTimeout) \/ Beside(VerifyEnds)
    \/ DownloadBegins \/ ReaderCancelled \/ Digested
    \/ stopped /\ ConnectionLost

FetchNext ==
    \/ OwnStep \/ TimerFires
    \/ Respond \/ Read \/ ConnectionLost
    \/ Beside(SignerReplies) \/ Beside(ResultArrives)
    \/ Beside(Start) \/ Beside(Cancel) \/ Beside(Retry)
    \/ Beside(ListenerCancels) \/ Beside(ListenerRetries) \/ Beside(ListenerThrows)

FetchSpec == FetchInit /\ [][FetchNext]_fetchVars

\* setTimeout fires, an aborted fetch rejects, and promises of the browser
\* settle.  The server may be silent, or send for ever.
FairFetchSpec == FetchSpec /\ WF_fetchVars(OwnStep) /\ WF_fetchVars(TimerFires)

-----------------------------------------------------------------------------
(* Properties.                                                             *)

\* The types; bytes past the signed size are never kept for another turn.
FetchTypeOK ==
    /\ TypeOK
    /\ download \in {"none", "response", "chunk", "cancel", "digest"}
    /\ total \in Nat /\ intact \in BOOLEAN
    /\ deadline \in BOOLEAN /\ listening \in BOOLEAN /\ stopped \in BOOLEAN
    /\ declined \in BOOLEAN
    /\ download \in {"chunk", "digest"} => total <= ByteSize

\* A download lives within one attempt: its timeout and its listener are gone
\* on every way out of it.
DownloadIsClean ==
    /\ pc = "fetching" <=> download # "none"
    /\ download = "none" => ~deadline /\ ~listening

\* With listeners that only look, cancel() aborts the download in progress.
\* (A listener that cancels at the very attempt is too early: combinedAbortSignal
\* does not look at a signal that is aborted already.)
CancelStopsDownload ==
    ~reentrant /\ aborted /\ download # "none" => stopped

\* No timeout, listener or subscription outlives what opened it: neither the
\* run, nor any of the ways out of a download.
NothingOutlives == SettledIsClean /\ DownloadIsClean

\* cancel() takes effect at once, for the wait for a result and for a download
\* in progress, if listeners only look.
CancelIsHeard == CancelClearsAtOnce /\ CancelStopsDownload

\* Only a server that sent what the descriptor rules out, or a cancellation,
\* ends the job for good: timeouts, broken connections, short and damaged
\* bodies leave it retryable.
TerminalOnlyIfDeclined ==
    [][download # "none" /\ failure # "terminal" /\ failure' = "terminal" => declined']_fetchVars

\* With this download the job is the one SoulJob describes, and the fairness
\* SoulJob assumes of an attempt follows from the timeout: a silent server, or
\* one that never stops sending, holds the job only until the timer fires.
ImplementsJob == FairSpec
=============================================================================
