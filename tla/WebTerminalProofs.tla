-------------------------- MODULE WebTerminalProofs --------------------------
(***************************************************************************)
(* The web terminal closes a client only after overlapping clicks, and a   *)
(* client it closed is quiet, for any number of clicks and submissions.    *)
(***************************************************************************)
EXTENDS WebTerminal, TLAPS

-----------------------------------------------------------------------------
(* The inductive invariant.                                                *)

\* The page is told what load() settled with, and load() settles once.
VerifierInv == verifierState # "idle" => pendingVerifier = verifierState

\* A signer, and what was rendered from one, is the answer of a call; a client
\* needs a signer and a verifier, and an effect needs a client.
RenderInv ==
    /\ \A c \in Call : c \in closed \cup {signer, view, client, effect} => calls[c] = "done"
    /\ client # None => signer # None /\ verifierState = "ready" /\ configured
    /\ client # None => view # None
    /\ effect # None => client # None

\* A client is closed once it is neither shown nor behind the signer, and never
\* comes back.
ClosedInv ==
    /\ signer \notin closed /\ client \notin closed /\ effect \notin closed
    /\ effect # None /\ effect # client => effect # signer

\* A job of a client that is open is registered with it, and that client is the
\* one on the page or the one the effect in place will close.
JobsInv ==
    /\ \A j \in Job : job[j] # "none" /\ owner[j] \notin closed =>
          j \in registered /\ owner[j] \in {client, effect}
    /\ \A j \in revived : job[j] # "none"

\* Two calls in flight, a call in flight next to a signer, and a signer that is
\* not the one shown, all come from overlapping clicks.
OverlapInv ==
    /\ \A c, d \in Call : calls[c] = "pending" /\ calls[d] = "pending" /\ c # d => overlapped
    /\ \A c \in Call : calls[c] = "pending" /\ signer # None => overlapped
    /\ client # None /\ signer # client => overlapped
    /\ effect # None /\ effect # client => overlapped

TerminalIInv ==
    /\ TerminalInv /\ ReplacedOnlyIfOverlapped
    /\ VerifierInv /\ RenderInv /\ ClosedInv /\ JobsInv /\ OverlapInv

-----------------------------------------------------------------------------

\* A page that was just loaded.
LEMMA InitTerminal == Init => TerminalIInv
<1> SUFFICES ASSUME Init PROVE TerminalIInv
  OBVIOUS
<1> USE TerminalAssumption DEF Init
<1>1. TypeOK
  BY DEF TypeOK, Status
<1>2. ClosedClientIsQuiet /\ ConnectionsAreOwned /\ ReplacedOnlyIfOverlapped
  BY DEF ClosedClientIsQuiet, ConnectionsAreOwned, ReplacedOnlyIfOverlapped
<1>3. VerifierInv /\ RenderInv /\ ClosedInv
  BY DEF VerifierInv, RenderInv, ClosedInv
<1>4. JobsInv /\ OverlapInv
  BY DEF JobsInv, OverlapInv
<1> QED BY <1>1, <1>2, <1>3, <1>4 DEF TerminalIInv, TerminalInv

\* load() starts and settles before there is a client or a job.
LEMMA VerifierKeeps ==
    ASSUME TerminalIInv, Enable \/ LoadAdvances \/ LoadReported
    PROVE  TerminalIInv'
<1> USE TerminalAssumption
    DEF TerminalIInv, TerminalInv, verifierVars, signerVars, renderVars, clientVars, jobVars
<1>1. UNCHANGED <<configured, signerVars, renderVars, clientVars, jobVars>>
  BY DEF Enable, LoadAdvances, LoadReported
<1>2. ClosedClientIsQuiet' /\ ConnectionsAreOwned' /\ ReplacedOnlyIfOverlapped'
  BY <1>1 DEF ClosedClientIsQuiet, ConnectionsAreOwned, ReplacedOnlyIfOverlapped
<1>3. ClosedInv' /\ JobsInv' /\ OverlapInv'
  BY <1>1 DEF ClosedInv, JobsInv, OverlapInv
<1>4. CASE Enable
  <2>1. enabled' = TRUE /\ UNCHANGED <<pendingVerifier, verifierState>>
    BY <1>4 DEF Enable
  <2>2. TypeOK' /\ VerifierInv' /\ RenderInv'
    BY <1>1, <2>1 DEF TypeOK, VerifierInv, RenderInv
  <2> QED BY <1>2, <1>3, <2>2
<1>5. CASE LoadAdvances
  <2>1. /\ pendingVerifier \in DOMAIN LoadStep /\ UNCHANGED <<enabled, verifierState>>
        /\ pendingVerifier' \in {"ready", "error"} \cup DOMAIN LoadStep
    BY <1>5 DEF LoadAdvances, LoadStep
  <2>2. verifierState = "idle"
    BY <2>1 DEF VerifierInv, TypeOK, LoadStep
  <2>3. TypeOK' /\ VerifierInv' /\ RenderInv'
    BY <1>1, <2>1, <2>2 DEF TypeOK, VerifierInv, RenderInv
  <2> QED BY <1>2, <1>3, <2>3
<1>6. CASE LoadReported
  <2>1. /\ verifierState = "idle" /\ verifierState' = pendingVerifier
        /\ pendingVerifier \in {"ready", "error"} /\ UNCHANGED <<enabled, pendingVerifier>>
    BY <1>6 DEF LoadReported
  <2>2. TypeOK' /\ VerifierInv' /\ RenderInv'
    BY <1>1, <2>1 DEF TypeOK, VerifierInv, RenderInv
  <2> QED BY <1>2, <1>3, <2>2
<1> QED BY <1>4, <1>5, <1>6

\* The button is there only while there is no client, so a click changes nothing
\* but the calls in flight.
LEMMA ConnectKeeps ==
    ASSUME TerminalIInv, NEW c \in Call, ConnectSigner(c)
    PROVE  TerminalIInv'
<1> USE TerminalAssumption
    DEF TerminalIInv, TerminalInv, verifierVars, signerVars, renderVars, clientVars, jobVars
<1>1. /\ view = None /\ calls[c] = "unused"
      /\ UNCHANGED <<configured, verifierVars, signer, renderVars, clientVars, jobVars>>
  BY DEF ConnectSigner
<1>2. calls' \in [Call -> {"unused", "pending", "done"}] /\ signerError' \in BOOLEAN
  BY DEF ConnectSigner, TypeOK
<1>3. \A d \in Call : d # c => calls'[d] = calls[d]
  BY DEF ConnectSigner, TypeOK
<1>4. overlapped' \in BOOLEAN /\ (overlapped => overlapped')
  BY DEF ConnectSigner, TypeOK
<1>5. calls'[c] = "pending" => (Overlap(c) => overlapped')
  BY DEF ConnectSigner, TypeOK
<1>6. TypeOK'
  BY <1>1, <1>2, <1>4 DEF TypeOK
<1>7. ClosedClientIsQuiet' /\ ConnectionsAreOwned' /\ ReplacedOnlyIfOverlapped'
  BY <1>1, <1>4 DEF ClosedClientIsQuiet, ConnectionsAreOwned, ReplacedOnlyIfOverlapped
<1>8. VerifierInv' /\ ClosedInv' /\ JobsInv'
  BY <1>1 DEF VerifierInv, ClosedInv, JobsInv
<1>9. RenderInv'
  BY <1>1, <1>3 DEF RenderInv
<1>10. OverlapInv'
  <2>1. client = None /\ effect = None
    BY <1>1 DEF RenderInv
  <2>2. ASSUME NEW d \in Call, d # c, calls[d] = "pending", calls'[c] = "pending" PROVE overlapped'
    BY <1>5, <2>2 DEF Overlap
  <2>3. ASSUME signer # None, calls'[c] = "pending" PROVE overlapped'
    <3>1. signer \in Call /\ signer # c
      BY <1>1, <2>3 DEF TypeOK, RenderInv
    <3> QED BY <1>5, <2>3, <3>1 DEF Overlap
  <2> QED BY <1>1, <1>3, <1>4, <2>1, <2>2, <2>3 DEF OverlapInv
<1> QED BY <1>6, <1>7, <1>8, <1>9, <1>10

\* An answer never brings back a client that was closed: a call is answered once.
LEMMA AnswerKeeps ==
    ASSUME TerminalIInv, NEW c \in Call, SignerAnswers(c)
    PROVE  TerminalIInv'
<1> USE TerminalAssumption
    DEF TerminalIInv, TerminalInv, verifierVars, signerVars, renderVars, clientVars, jobVars
<1>1. /\ calls[c] = "pending" /\ calls' = [calls EXCEPT ![c] = "done"]
      /\ signer' = c \/ signer' = signer
      /\ UNCHANGED <<configured, verifierVars, overlapped, renderVars, clientVars, jobVars>>
  BY DEF SignerAnswers
<1>2. signerError' \in BOOLEAN
  BY DEF SignerAnswers, TypeOK
<1>3. calls'[c] = "done" /\ \A d \in Call : d # c => calls'[d] = calls[d]
  BY <1>1 DEF TypeOK
<1>4. c # client /\ c # effect /\ c # signer /\ c \notin closed
  BY <1>1 DEF RenderInv
<1>5. TypeOK'
  BY <1>1, <1>2 DEF TypeOK
<1>6. ClosedClientIsQuiet' /\ ConnectionsAreOwned' /\ ReplacedOnlyIfOverlapped'
  BY <1>1 DEF ClosedClientIsQuiet, ConnectionsAreOwned, ReplacedOnlyIfOverlapped
<1>7. VerifierInv' /\ JobsInv'
  BY <1>1 DEF VerifierInv, JobsInv
<1>8. RenderInv' /\ ClosedInv'
  BY <1>1, <1>3, <1>4 DEF RenderInv, ClosedInv
<1>9. OverlapInv'
  <2>1. client # None => overlapped
    BY <1>1 DEF RenderInv, OverlapInv
  <2>2. ASSUME NEW d \in Call, d # c, calls[d] = "pending" PROVE overlapped
    BY <1>1, <2>2 DEF OverlapInv
  <2>3. effect # None => client # None
    BY DEF RenderInv
  <2> QED BY <1>1, <1>3, <2>1, <2>2, <2>3 DEF OverlapInv
<1> QED BY <1>5, <1>6, <1>7, <1>8, <1>9

\* A render takes the client of the signer set last; the one it replaces stays
\* behind in the effect.
LEMMA RenderKeeps ==
    ASSUME TerminalIInv, Render
    PROVE  TerminalIInv'
<1> USE TerminalAssumption
    DEF TerminalIInv, TerminalInv, verifierVars, signerVars, renderVars, clientVars, jobVars
<1>1. /\ effect = client /\ view' = signer /\ client' = Wanted
      /\ UNCHANGED <<configured, verifierVars, signerVars, effect, clientVars, jobVars>>
      /\ shown' = Shown
  BY DEF Render
<1>2. /\ client' \in {signer, None}
      /\ client' # None => signer # None /\ verifierState = "ready" /\ configured
      /\ client # None => client' = signer
  BY <1>1 DEF Wanted, RenderInv
<1>3. TypeOK'
  BY <1>1, <1>2 DEF TypeOK, Shown
<1>4. ClosedClientIsQuiet' /\ ConnectionsAreOwned' /\ ReplacedOnlyIfOverlapped'
  BY <1>1 DEF ClosedClientIsQuiet, ConnectionsAreOwned, ReplacedOnlyIfOverlapped
<1>5. VerifierInv' /\ JobsInv'
  BY <1>1 DEF VerifierInv, JobsInv
<1>6. RenderInv'
  BY <1>1, <1>2 DEF RenderInv
<1>7. ClosedInv'
  BY <1>1, <1>2 DEF ClosedInv, TypeOK
<1>8. OverlapInv'
  BY <1>1, <1>2 DEF OverlapInv
<1> QED BY <1>3, <1>4, <1>5, <1>6, <1>7, <1>8

\* The cleanup closes the client that was replaced: every job that still runs
\* there is registered with it, so close() cancels it.
LEMMA EffectsKeep ==
    ASSUME TerminalIInv, RunEffects
    PROVE  TerminalIInv'
<1> USE TerminalAssumption
    DEF TerminalIInv, TerminalInv, verifierVars, signerVars, renderVars, clientVars, jobVars
<1>1. /\ effect' = client
      /\ UNCHANGED <<configured, enabled, verifierState, signerVars, shown, view, client, owner, revived>>
      /\ \/ pendingVerifier' = pendingVerifier
         \/ pendingVerifier = "none" /\ pendingVerifier' = "fetching"
  BY DEF RunEffects, LoadDue
<1>2. VerifierInv' /\ OverlapInv'
  BY <1>1 DEF VerifierInv, OverlapInv, TypeOK
<1>3. pendingVerifier' \in {"none", "ready", "error"} \cup DOMAIN LoadStep
  BY <1>1 DEF TypeOK, LoadStep
<1>4. CASE effect \in {None, client}
  <2>1. UNCHANGED <<job, registered, closed, connected>>
    BY <1>4 DEF RunEffects
  <2>2. TypeOK' /\ RenderInv' /\ ClosedInv'
    BY <1>3, <1>1, <2>1 DEF TypeOK, RenderInv, ClosedInv
  <2>3. ClosedClientIsQuiet' /\ ReplacedOnlyIfOverlapped'
    BY <1>1, <2>1 DEF ClosedClientIsQuiet, ReplacedOnlyIfOverlapped
  <2>4. ConnectionsAreOwned'
    BY <1>1, <1>4, <2>1 DEF ConnectionsAreOwned, TypeOK
  <2>5. ASSUME NEW j \in Job, job[j] # "none" PROVE owner[j] # effect \/ effect = client
    BY <1>4, <2>5 DEF TypeOK
  <2>6. JobsInv'
    BY <1>1, <2>1, <2>5 DEF JobsInv
  <2> QED BY <1>2, <2>2, <2>3, <2>4, <2>6
<1>5. CASE effect \notin {None, client}
  <2>1. /\ \A j \in Job : job'[j] = IF j \in registered /\ owner[j] = effect /\ job[j] = "running"
                                   THEN "over" ELSE job[j]
        /\ job' \in [Job -> Status]
        /\ registered' = {j \in registered : owner[j] # effect}
        /\ closed' = closed \cup {effect} /\ connected' = connected \ {effect}
    BY <1>5 DEF RunEffects, Close, TypeOK, Status
  <2>2. /\ \A j \in Job : job'[j] # "none" <=> job[j] # "none"
        /\ \A j \in Job : job'[j] = "running" => job[j] = "running"
    BY <2>1
  <2>3. TypeOK'
    <3>1. job' \in [Job -> Status]
      BY <2>1
    <3>2. registered' \subseteq Job /\ closed' \subseteq Call /\ connected' \subseteq Call
      BY <1>5, <2>1 DEF TypeOK
    <3> QED BY <1>3, <1>1, <2>2, <3>1, <3>2 DEF TypeOK
  <2>4. RenderInv' /\ ClosedInv' /\ ReplacedOnlyIfOverlapped'
    BY <1>1, <1>5, <2>1 DEF RenderInv, ClosedInv, ReplacedOnlyIfOverlapped, OverlapInv, TypeOK
  <2>5. ClosedClientIsQuiet'
    <3> SUFFICES ASSUME NEW j \in Job, job'[j] = "running", owner[j] \in closed \cup {effect}
                 PROVE  j \in revived
      BY <1>1, <2>1 DEF ClosedClientIsQuiet
    <3>1. job[j] = "running" /\ ~(j \in registered /\ owner[j] = effect)
      BY <2>1
    <3>2. owner[j] \in closed
      BY <3>1 DEF JobsInv
    <3> QED BY <3>1, <3>2 DEF ClosedClientIsQuiet
  <2>6. ConnectionsAreOwned'
    BY <1>1, <2>1 DEF ConnectionsAreOwned
  <2>7. JobsInv'
    <3>1. \A j \in revived : job'[j] # "none"
      BY <2>2 DEF JobsInv, TypeOK
    <3>2. ASSUME NEW j \in Job, job[j] # "none", owner[j] \notin closed, owner[j] # effect
          PROVE  j \in registered /\ owner[j] = client
      BY <3>2 DEF JobsInv
    <3> QED BY <1>1, <2>1, <2>2, <3>1, <3>2 DEF JobsInv
  <2> QED BY <1>2, <2>3, <2>4, <2>5, <2>6, <2>7
<1> QED BY <1>4, <1>5

\* A job starts under the client on the page, and stays registered with it.
LEMMA JobKeeps ==
    ASSUME TerminalIInv, NEW j \in Job, SubmitInput(j) \/ UseRelays(j) \/ JobEnds(j) \/ Retry(j)
    PROVE  TerminalIInv'
<1> USE TerminalAssumption
    DEF TerminalIInv, TerminalInv, verifierVars, signerVars, renderVars, clientVars, jobVars
<1>1. UNCHANGED <<configured, verifierVars, signerVars, renderVars, closed>>
  BY DEF SubmitInput, UseRelays, JobEnds, Retry
<1>2. ReplacedOnlyIfOverlapped' /\ VerifierInv' /\ RenderInv' /\ ClosedInv' /\ OverlapInv'
  BY <1>1 DEF ReplacedOnlyIfOverlapped, VerifierInv, RenderInv, ClosedInv, OverlapInv
<1>3. CASE SubmitInput(j)
  <2>1. /\ client \in Call /\ client \notin closed /\ verifierState = "ready" /\ job[j] = "none"
        /\ job' = [job EXCEPT ![j] = "running"] /\ owner' = [owner EXCEPT ![j] = client]
        /\ registered' = registered \cup {j} /\ UNCHANGED <<connected, revived>>
    BY <1>3 DEF SubmitInput, TypeOK, ClosedInv, RenderInv
  <2>2. /\ job'[j] = "running" /\ owner'[j] = client /\ j \notin revived
        /\ \A k \in Job : k # j => job'[k] = job[k] /\ owner'[k] = owner[k]
    BY <2>1 DEF TypeOK, JobsInv
  <2>3. TypeOK'
    BY <1>1, <2>1, <2>2 DEF TypeOK, Status
  <2>4. ClosedClientIsQuiet' /\ JobsInv'
    BY <1>1, <2>1, <2>2 DEF ClosedClientIsQuiet, JobsInv, TypeOK
  <2>5. ConnectionsAreOwned'
    <3>1. \A k \in revived : owner'[k] = owner[k]
      BY <2>2 DEF TypeOK
    <3> QED BY <1>1, <2>1, <3>1 DEF ConnectionsAreOwned
  <2> QED BY <1>2, <2>3, <2>4, <2>5
<1>4. CASE UseRelays(j)
  <2>1. /\ job[j] = "running" /\ connected' = connected \cup {owner[j]}
        /\ UNCHANGED <<registered, jobVars>>
    BY <1>4 DEF UseRelays
  <2>2. owner[j] \in {client, effect} \/ j \in revived
    BY <2>1 DEF ClosedClientIsQuiet, JobsInv
  <2>3. TypeOK' /\ ClosedClientIsQuiet' /\ JobsInv'
    BY <1>1, <2>1 DEF TypeOK, ClosedClientIsQuiet, JobsInv
  <2>4. ConnectionsAreOwned'
    BY <1>1, <2>1, <2>2 DEF ConnectionsAreOwned
  <2> QED BY <1>2, <2>3, <2>4
<1>5. CASE JobEnds(j)
  <2>1. /\ job[j] = "running" /\ UNCHANGED <<clientVars, owner, revived>>
        /\ job'[j] \in {"retryable", "over"} /\ job' \in [Job -> Status]
        /\ \A k \in Job : k # j => job'[k] = job[k]
    BY <1>5 DEF JobEnds, TypeOK, Status
  <2>2. TypeOK'
    BY <1>1, <2>1 DEF TypeOK
  <2>3. ClosedClientIsQuiet' /\ JobsInv' /\ ConnectionsAreOwned'
    BY <1>1, <2>1 DEF ClosedClientIsQuiet, JobsInv, TypeOK, ConnectionsAreOwned
  <2> QED BY <1>2, <2>2, <2>3
<1>6. CASE Retry(j)
  <2>1. /\ job[j] = "retryable" /\ UNCHANGED <<clientVars, owner>>
        /\ job'[j] = "running" /\ job' \in [Job -> Status]
        /\ \A k \in Job : k # j => job'[k] = job[k]
        /\ revived \subseteq revived' /\ revived' \subseteq revived \cup {j}
        /\ owner[j] \in closed => j \in revived'
    BY <1>6 DEF Retry, TypeOK, Status
  <2>2. TypeOK'
    BY <1>1, <2>1 DEF TypeOK
  <2>3. ClosedClientIsQuiet' /\ JobsInv'
    BY <1>1, <2>1 DEF ClosedClientIsQuiet, JobsInv, TypeOK
  <2>4. ConnectionsAreOwned'
    BY <1>1, <2>1 DEF ConnectionsAreOwned
  <2> QED BY <1>2, <2>2, <2>3, <2>4
<1> QED BY <1>3, <1>4, <1>5, <1>6

\* Every step keeps the invariant.
LEMMA NextTerminal == TerminalIInv /\ [Next]_vars => TerminalIInv'
<1> SUFFICES ASSUME TerminalIInv, [Next]_vars PROVE TerminalIInv'
  OBVIOUS
<1>1. CASE UNCHANGED vars
  <2> USE <1>1
      DEF vars, verifierVars, signerVars, renderVars, clientVars, jobVars, TerminalIInv, TerminalInv
  <2>1. TypeOK' /\ ClosedClientIsQuiet' /\ ConnectionsAreOwned' /\ ReplacedOnlyIfOverlapped'
    BY DEF TypeOK, ClosedClientIsQuiet, ConnectionsAreOwned, ReplacedOnlyIfOverlapped
  <2>2. VerifierInv' /\ RenderInv' /\ ClosedInv' /\ JobsInv' /\ OverlapInv'
    BY DEF VerifierInv, RenderInv, ClosedInv, JobsInv, OverlapInv
  <2> QED BY <2>1, <2>2
<1> QED BY <1>1, VerifierKeeps, ConnectKeeps, AnswerKeeps, RenderKeeps, EffectsKeep, JobKeeps
        DEF Next

\* However clicks, answers of the signer, renders, cleanups and steps of jobs
\* interleave: every job has a client, a signer and a verifier, a client that was
\* closed runs no job and holds no relay connection, except for a job that was
\* retried after the close.
THEOREM TerminalAlwaysSafe == Spec => []TerminalInv
<1>1. TerminalIInv => TerminalInv
  BY DEF TerminalIInv
<1> QED BY <1>1, InitTerminal, NextTerminal, PTL DEF Spec

\* A client is closed, and its running jobs cancelled, only after clicks that
\* overlapped.
THEOREM ReplacedNeedsOverlap == Spec => []ReplacedOnlyIfOverlapped
<1>1. TerminalIInv => ReplacedOnlyIfOverlapped
  BY DEF TerminalIInv
<1> QED BY <1>1, InitTerminal, NextTerminal, PTL DEF Spec
=============================================================================
