---------------------------- MODULE WebTerminal ----------------------------
(***************************************************************************)
(* The web application around the SDK (useSoulTerminal.ts with App.tsx and *)
(* wasmVerifier.ts) and the set of jobs a SoulNostrClient keeps: loading   *)
(* the verifier, connecting a signer, the client that React derives from   *)
(* the two, and what becomes of jobs when that client is replaced.         *)
(*                                                                         *)
(* React shows what the last render saw.  A render follows a change of     *)
(* state some time later, and the cleanup of an effect follows the render; *)
(* clicks, answers of the signer and steps of jobs fall in between.  A     *)
(* client is named by the connectSigner() call whose signer it uses.       *)
(*                                                                         *)
(* Of a job (SoulJob) only this matters here: it runs, it failed and may   *)
(* be retried, or it is over.                                              *)
(***************************************************************************)
EXTENDS Naturals

CONSTANTS
    Call,           \* clicks on "Use NIP-07 signer"
    Job,            \* submissions of the form
    None

ASSUME TerminalAssumption == None \notin Call

VARIABLES
    configured,     \* relays and trusted providers are configured and valid
    enabled,        \* verifierEnabled
    pendingVerifier,\* the promise of load(), kept by the module: what it awaits or settled with
    verifierState,  \* loadedVerifierState
    calls,          \* [Call -> how far the call of connectSigner() is]
    signer,         \* the state setSigner set
    signerError,
    shown,          \* the verifierState of the last render
    view,           \* the signer the last render saw
    client,         \* the client of the last render
    effect,         \* the client the effect in place would close
    closed,         \* clients close() was called on
    connected,      \* clients whose pool holds relay connections
    job,            \* [Job -> Status]
    owner,          \* [Job -> its client]
    registered,     \* jobs in the set of their client
    \* History, read by no action.
    overlapped,     \* connectSigner() was called again before its first signer was shown
    revived         \* jobs retried after their client was closed

verifierVars == <<enabled, pendingVerifier, verifierState>>
signerVars == <<calls, signer, signerError, overlapped>>
renderVars == <<shown, view, client, effect>>
clientVars == <<closed, connected, registered>>
jobVars == <<job, owner, revived>>
vars == <<configured, verifierVars, signerVars, renderVars, clientVars, jobVars>>

-----------------------------------------------------------------------------

Status == {"none", "running", "retryable", "over"}

\* A page that was just loaded; nothing is kept from before a reload.
Init ==
    /\ configured \in BOOLEAN
    /\ enabled = FALSE /\ pendingVerifier = "none" /\ verifierState = "idle"
    /\ calls = [c \in Call |-> "unused"]
    /\ signer = None /\ signerError = FALSE
    /\ shown = "idle" /\ view = None /\ client = None /\ effect = None
    /\ closed = {} /\ connected = {}
    /\ job = [j \in Job |-> "none"] /\ owner = [j \in Job |-> None]
    /\ registered = {}
    /\ overlapped = FALSE /\ revived = {}

-----------------------------------------------------------------------------
(* The verifier.                                                           *)

\* The workbench comes near the viewport; verifierEnabled is never taken back.
Enable ==
    /\ ~enabled
    /\ enabled' = TRUE
    /\ UNCHANGED <<configured, pendingVerifier, verifierState, signerVars, renderVars, clientVars, jobVars>>

\* What follows each await of load(): the manifest is answered, read and the
\* reviewed one, and the wasm module is imported and starts.
LoadStep ==
    [fetching |-> "reading", reading |-> "importing", importing |-> "starting", starting |-> "ready"]

\* The server answers an await of load(), or it fails and load() rejects.  No
\* await has a timeout: a server that stays silent leaves load() where it is.
LoadAdvances ==
    /\ pendingVerifier \in DOMAIN LoadStep
    /\ pendingVerifier' \in {LoadStep[pendingVerifier], "error"}
    /\ UNCHANGED <<configured, enabled, verifierState, signerVars, renderVars, clientVars, jobVars>>

\* Mutant: the effect has no catch, so a rejected load() is not reported.
LoadReportedQuietly ==
    /\ verifierState = "idle" /\ pendingVerifier = "ready"
    /\ verifierState' = "ready"
    /\ UNCHANGED <<configured, enabled, pendingVerifier, signerVars, renderVars, clientVars, jobVars>>

\* load() settled: the then or the catch of the effect that asked, which is
\* still active.
LoadReported ==
    /\ verifierState = "idle" /\ pendingVerifier \in {"ready", "error"}
    /\ verifierState' = pendingVerifier
    /\ UNCHANGED <<configured, enabled, pendingVerifier, signerVars, renderVars, clientVars, jobVars>>

-----------------------------------------------------------------------------
(* The signer.                                                             *)

\* The call began before an earlier one had an effect that was shown.
Overlap(c) == \E d \in Call \ {c} : calls[d] = "pending" \/ signer # None

\* Mutant: the button stays when a signer is connected.
ConnectSignerAgain(c) ==
    /\ calls[c] = "unused"
    /\ calls' = [calls EXCEPT ![c] = "pending"]
    /\ signerError' = FALSE
    /\ overlapped' = (overlapped \/ (view = None /\ Overlap(c)))
    /\ UNCHANGED <<configured, verifierVars, signer, renderVars, clientVars, jobVars>>

\* connectSigner() up to its await, or to its return when the browser has no
\* signer.  The button is on the page as long as the last render saw no key.
ConnectSigner(c) ==
    /\ view = None /\ calls[c] = "unused"
    /\ \/ /\ calls' = [calls EXCEPT ![c] = "pending"] /\ signerError' = FALSE
          /\ overlapped' = (overlapped \/ Overlap(c))
       \/ /\ calls' = [calls EXCEPT ![c] = "done"] /\ signerError' = TRUE
          /\ UNCHANGED overlapped
    /\ UNCHANGED <<configured, verifierVars, signer, renderVars, clientVars, jobVars>>

\* The extension answers with a key, or declines; calls are answered in any
\* order.  A success leaves the error of another call in place.
SignerAnswers(c) ==
    /\ calls[c] = "pending"
    /\ calls' = [calls EXCEPT ![c] = "done"]
    /\ \/ signer' = c /\ UNCHANGED signerError
       \/ signerError' = TRUE /\ UNCHANGED signer
    /\ UNCHANGED <<configured, verifierVars, overlapped, renderVars, clientVars, jobVars>>

-----------------------------------------------------------------------------
(* Rendering.                                                              *)

\* The verifier state useMemo returns for the current state.
Shown == IF enabled /\ verifierState = "idle" THEN "loading" ELSE verifierState

\* The client useMemo returns for the current state.
Wanted == IF signer # None /\ verifierState = "ready" /\ configured THEN signer ELSE None

\* The effect of the first render with verifierEnabled has not run:
\* loadBrowserVerifier() starts load() once.
LoadDue == shown = "loading" /\ pendingVerifier = "none"

\* Mutant: the memo of the client does not depend on verifierState.
RenderOnNewSigner ==
    /\ effect = client /\ ~LoadDue
    /\ view # signer \/ shown # Shown
    /\ shown' = Shown /\ view' = signer
    /\ client' = IF view # signer THEN Wanted ELSE client
    /\ UNCHANGED <<configured, verifierVars, signerVars, effect, clientVars, jobVars>>

\* A render; the effects of the one before have all run.
Render ==
    /\ effect = client /\ ~LoadDue
    /\ view # signer \/ client # Wanted \/ shown # Shown
    /\ shown' = Shown /\ view' = signer /\ client' = Wanted
    /\ UNCHANGED <<configured, verifierVars, signerVars, effect, clientVars, jobVars>>

\* SoulNostrClient.close(): cancel() has no effect on a job that failed.
Close(c) ==
    LET mine == {j \in registered : owner[j] = c}
    IN  /\ job' = [j \in Job |-> IF j \in mine /\ job[j] = "running" THEN "over" ELSE job[j]]
        /\ registered' = registered \ mine
        /\ closed' = closed \cup {c}
        /\ connected' = connected \ {c}

\* Mutant: the cleanup closes the client of the latest render.
RunEffectsOnLatest ==
    /\ effect # client \/ LoadDue
    /\ effect' = client
    /\ IF effect \in {None, client}
       THEN UNCHANGED <<job, registered, closed, connected>>
       ELSE Close(client)
    /\ pendingVerifier' = IF LoadDue THEN "fetching" ELSE pendingVerifier
    /\ UNCHANGED <<configured, enabled, verifierState, signerVars, shown, view, client, owner, revived>>

\* After a render with another client, the cleanup of the effect in place and
\* then the new effect; after the first with verifierEnabled, load() begins.
RunEffects ==
    /\ effect # client \/ LoadDue
    /\ effect' = client
    /\ IF effect \in {None, client}
       THEN UNCHANGED <<job, registered, closed, connected>>
       ELSE Close(effect)
    /\ pendingVerifier' = IF LoadDue THEN "fetching" ELSE pendingVerifier
    /\ UNCHANGED <<configured, enabled, verifierState, signerVars, shown, view, client, owner, revived>>

-----------------------------------------------------------------------------
(* Jobs.                                                                   *)

\* submitInput(), from the render on the page; createJob() registers the job.
SubmitInput(j) ==
    /\ client # None /\ job[j] = "none"
    /\ job' = [job EXCEPT ![j] = "running"]
    /\ owner' = [owner EXCEPT ![j] = client]
    /\ registered' = registered \cup {j}
    /\ UNCHANGED <<configured, verifierVars, signerVars, renderVars, closed, connected, revived>>

\* The job publishes or subscribes: the pool of its client opens the relays,
\* also when it was closed before.
UseRelays(j) ==
    /\ job[j] = "running"
    /\ connected' = connected \cup {owner[j]}
    /\ UNCHANGED <<configured, verifierVars, signerVars, renderVars, closed, registered, jobVars>>

\* The run ends, or its user cancels it.
JobEnds(j) ==
    /\ job[j] = "running"
    /\ \E s \in {"retryable", "over"} : job' = [job EXCEPT ![j] = s]
    /\ UNCHANGED <<configured, verifierVars, signerVars, renderVars, clientVars, owner, revived>>

\* The button of the receipt.  The job keeps its client and is not registered
\* again.
Retry(j) ==
    /\ job[j] = "retryable"
    /\ job' = [job EXCEPT ![j] = "running"]
    /\ revived' = IF owner[j] \in closed THEN revived \cup {j} ELSE revived
    /\ UNCHANGED <<configured, verifierVars, signerVars, renderVars, clientVars, owner>>

-----------------------------------------------------------------------------

Next ==
    \/ Enable \/ LoadAdvances \/ LoadReported
    \/ \E c \in Call : ConnectSigner(c) \/ SignerAnswers(c)
    \/ Render \/ RunEffects
    \/ \E j \in Job : SubmitInput(j) \/ UseRelays(j) \/ JobEnds(j) \/ Retry(j)

Spec == Init /\ [][Next]_vars

\* React renders and runs effects, and the reactions of a settled promise run.
\* Nothing is assumed of the server, the user, the extension or a job.
FairSpec == Spec /\ WF_vars(Render) /\ WF_vars(RunEffects) /\ WF_vars(LoadReported)

-----------------------------------------------------------------------------
(* Properties.                                                             *)

\* The types.  Every job has a client, and so a signer and a loaded verifier.
TypeOK ==
    /\ configured \in BOOLEAN /\ enabled \in BOOLEAN
    /\ pendingVerifier \in {"none", "ready", "error"} \cup DOMAIN LoadStep
    /\ verifierState \in {"idle", "ready", "error"}
    /\ shown \in {"idle", "loading", "ready", "error"}
    /\ calls \in [Call -> {"unused", "pending", "done"}]
    /\ signer \in Call \cup {None} /\ signerError \in BOOLEAN
    /\ view \in Call \cup {None} /\ client \in Call \cup {None} /\ effect \in Call \cup {None}
    /\ closed \subseteq Call /\ connected \subseteq Call
    /\ job \in [Job -> Status] /\ owner \in [Job -> Call \cup {None}]
    /\ \A j \in Job : job[j] # "none" => owner[j] \in Call /\ verifierState = "ready"
    /\ registered \subseteq Job /\ revived \subseteq Job
    /\ overlapped \in BOOLEAN

\* A client that was closed runs no job, however submissions, renders and
\* cleanups interleave, except one whose user retried it after the close.
ClosedClientIsQuiet ==
    \A j \in Job : job[j] = "running" /\ owner[j] \in closed => j \in revived

\* Relay connections outlive their client only for such a retried job; nothing
\* closes those before the page is left.
ConnectionsAreOwned ==
    connected \subseteq {client, effect} \cup {owner[j] : j \in revived}

\* The invariant of clients and jobs.
TerminalInv == TypeOK /\ ClosedClientIsQuiet /\ ConnectionsAreOwned

\* A client is replaced, and its running jobs cancelled with it, only when the
\* signer was asked again before the page showed the first answer.
ReplacedOnlyIfOverlapped == closed # {} => overlapped

\* What load() settles with reaches the page and stays there: a failure keeps
\* the terminal without a client until the page is reloaded, a success is never
\* taken back.  Of a load() that never settles nothing is said.
LoadOutcomeIsShown ==
    /\ pendingVerifier = "error" ~> [](shown = "error" /\ client = None)
    /\ pendingVerifier = "ready" ~> [](shown = "ready")

\* With a signer and a load() that succeeded, in whichever order they arrive, the
\* terminal becomes ready, for the signer that was set last.
TerminalBecomesReady ==
    (signer # None /\ pendingVerifier = "ready" /\ configured)
        ~> (shown = "ready" /\ client = signer /\ effect = client)
=============================================================================
