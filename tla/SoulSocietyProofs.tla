-------------------------- MODULE SoulSocietyProofs --------------------------
(***************************************************************************)
(* From the provider's pipeline to what a user sees: a job shown as        *)
(* verified was proved, for any number of requests, slots, retries,        *)
(* restarts and any disagreement of the two clocks.  What was proved of    *)
(* the provider and of the job alone is used for both together.            *)
(***************************************************************************)
EXTENDS SoulSociety, SignedJobsProofs

JobProofs == INSTANCE SoulJobProofs WITH pc <- jobPc

-----------------------------------------------------------------------------
(* The inductive invariant.                                                *)

\* Requests of others, and the events signed in the seconds T.
FromOthersOr(T) == (Request \ Own) \cup {OwnRequest[t] : t \in T}

\* The seconds in which a run of the job has begun.
Starts == earlierStarts \cup ({startedAt} \ {None})

\* The provider works on and answers only what is on a relay, a relay holds only
\* what some run has signed, and the answers that were there before the current
\* run are answers to earlier ones.
OriginInv ==
    /\ skew \in Skew
    /\ startedAt = None => jobPc \in {"idle", "u_draft"} /\ earlierStarts = {} /\ request = None
    /\ startedAt # None => startedAt \in DOMAIN OwnRequest /\ request = OwnRequest[startedAt]
    /\ earlierStarts \subseteq DOMAIN OwnRequest
    /\ relays \subseteq FromOthersOr(Starts)
    /\ \A s \in Slot : pc[s] # "idle" => req[s] \in relays
    /\ \A e \in ResultEvents : e.req \in relays /\ e.created_at <= now
    /\ \A e \in answersBefore : e.req \in FromOthersOr(earlierStarts)

\* Where run() is before its result arrives, and after.
BeforeResult == {"u_publishing", "signing", "u_request", "u_publish_attempt", "publishing",
                 "publish_delay", "u_awaiting", "waiting"}
AfterResult == {"received", "u_result", "u_received", "u_fetching", "u_proof_attempt", "fetching",
                "fetch_delay", "u_verifying", "verifying", "u_verified"}

\* What run() goes on with is a published answer to its own request, and the
\* only events a waiting run has looked at are ones from the future.
AcceptedInv ==
    /\ accepted # None =>
          accepted \in published /\ accepted.req = request /\ result = JobResult(accepted)
    /\ jobPc \in AfterResult \/ state = "verified" => accepted # None
    /\ jobPc \in BeforeResult /\ seen # {} => skew < -MAX_FUTURE_SKEW_SECS

SocietyInv == TypeOK /\ OriginInv /\ AcceptedInv

-----------------------------------------------------------------------------
(* What a step does to the two sides.                                      *)

\* A step of the job that neither begins a run nor brings its result.
QuietJobStep ==
    JobStep \/ Application \/ Job!SignerReplies \/ Job!PublishEnds \/ Job!FetchEnds

\* A step of the provider, whose requests come from the relays.
ProviderMoves ==
    \/ \E r \in relays, s \in Slot : Dispatch(s, r)
    \/ \E s \in Slot : TaskStep(s)
    \/ Tick \/ Restart

\* Every step is of one of these kinds.
LEMMA SocietyStepKinds ==
    ASSUME [SocietyNext]_societyVars
    PROVE  \/ BeginRun \/ DeliverResult \/ RelayTakesRequest
           \/ QuietJobStep /\ UNCHANGED <<vars, skew, relays, request, seen, accepted, runHistory>>
           \/ ProviderMoves /\ UNCHANGED <<clientVars, skew, relays>>
           \/ UNCHANGED societyVars
<1> USE DEF QuietJobStep, ProviderMoves
<1>1. CASE Signed \/ PublishReturns \/ FetchReturns \/ ClientStep
  BY <1>1 DEF Signed, PublishReturns, FetchReturns, ClientStep
<1>2. CASE DeliverRequest \/ Environment
  BY <1>2 DEF DeliverRequest, Environment
<1>3. ASSUME NEW s \in Slot, ProviderStep(s)
      PROVE  ProviderMoves /\ UNCHANGED <<clientVars, skew, relays>>
  BY <1>3 DEF ProviderStep
<1> QED BY <1>1, <1>2, <1>3 DEF SocietyNext

\* Such a step of the job keeps its result, stays on its side of the arrival of
\* the result, and shows "verified" only past it.
LEMMA QuietJobMoves ==
    ASSUME QuietJobStep
    PROVE  /\ UNCHANGED result
           /\ jobPc' \in AfterResult => jobPc \in AfterResult
           /\ jobPc' \in BeforeResult => jobPc \in BeforeResult
           /\ jobPc \in {"idle", "u_draft"} => jobPc' \in {"idle", "u_draft"}
           /\ state' = "verified" => state = "verified" \/ jobPc \in AfterResult
<1> USE DEF AfterResult, BeforeResult, Job!runVars, Job!callVars, Job!snapshotVars,
            Job!Throw, Job!AssertActive, Job!Enter
<1>1. CASE Job!Continue /\ jobPc' # "u_publishing"
  BY <1>1 DEF Job!Continue, Job!PublishOnce, Job!FetchOnce
<1>2. CASE Job!WaitForResult \/ Job!Rejected \/ Job!Settle \/ Job!ResultResolved
  BY <1>2 DEF Job!WaitForResult, Job!Rejected, Job!Settle, Job!ResultResolved
<1>3. CASE Job!DelayEnds
  BY <1>3 DEF Job!DelayEnds, Job!PublishOnce, Job!FetchOnce
<1>4. CASE Job!VerifyEnds
  BY <1>4 DEF Job!VerifyEnds
<1>5. CASE Job!Cancel
  BY <1>5 DEF Job!Cancel, Job!CancelAt
<1>6. CASE Job!Retry \/ Job!ResultTimeout
  BY <1>6 DEF Job!Retry, Job!Reset, Job!ResultTimeout
<1>7. CASE Job!SignerReplies
  BY <1>7 DEF Job!SignerReplies
<1>8. CASE Job!PublishEnds
  BY <1>8 DEF Job!PublishEnds
<1>9. CASE Job!FetchEnds
  BY <1>9 DEF Job!FetchEnds, Job!FetchEndsWith
<1> QED BY <1>1, <1>2, <1>3, <1>4, <1>5, <1>6, <1>7, <1>8, <1>9
        DEF QuietJobStep, JobStep, Application

\* The provider's clock does not go back, a relay keeps what it took, a task
\* works on what was delivered, and a new result event is signed now by a task
\* for its own request.
LEMMA ProviderEffects ==
    ASSUME TypeOK, ProviderMoves
    PROVE  /\ now' >= now /\ published \subseteq published'
           /\ \A t \in Slot : pc'[t] # "idle" =>
                 (pc[t] # "idle" /\ req'[t] = req[t]) \/ req'[t] \in relays
           /\ \A e \in ResultEvents' :
                 \/ e \in ResultEvents
                 \/ e.created_at = now /\ \E t \in Slot : pc[t] # "idle" /\ e.req = req[t]
<1> DEFINE Tasks == \A t \in Slot : pc'[t] # "idle" =>
                        (pc[t] # "idle" /\ req'[t] = req[t]) \/ req'[t] \in relays
           Events == \A e \in ResultEvents' :
                        \/ e \in ResultEvents
                        \/ e.created_at = now /\ \E t \in Slot : pc[t] # "idle" /\ e.req = req[t]
<1> USE DEF taskVars, memVars, historyVars, envVars
<1>0. now \in Nat /\ Elements(<<>>) = {} /\ Elements(completed) \subseteq ResultEvents
      /\ published \subseteq ResultEvents
  BY DEF TypeOK, Elements, ResultEvents
<1>a. ASSUME NEW s \in Slot, pc[s] # "idle", NEW l, Goto(s, l), l = "idle" \/ req' = req,
             req' = req \/ req' = [req EXCEPT ![s] = None]
      PROVE  Tasks
  BY <1>a DEF Goto, TypeOK
\* A task moves that has nothing new to publish.
<1>b. ASSUME NEW s \in Slot, NEW l, Goto(s, l), l # "publishing",
             reply' = reply \/ reply' = [reply EXCEPT ![s] = None],
             UNCHANGED <<completed, published>>
      PROVE  Events
  <2>1. ResultEvents' \subseteq ResultEvents
    BY <1>0, <1>b, ReplyStep DEF Goto
  <2> QED BY <2>1
\* A task takes x into its hands.
<1>c. ASSUME NEW s \in Slot, NEW l, NEW x, Goto(s, l), reply' = [reply EXCEPT ![s] = x]
      PROVE  ResultEvents' \subseteq
                 Elements(completed') \cup published' \cup ResultEvents
                 \cup (IF l = "publishing" THEN {x} ELSE {})
  BY <1>c, ReplyStep DEF Goto
<1>1. ASSUME NEW r \in relays, NEW s \in Slot, Dispatch(s, r)
      PROVE  now' = now /\ published' = published /\ Tasks /\ Events
  <2>1. Tasks
    BY <1>1 DEF Dispatch, Goto, TypeOK
  <2> QED BY <1>1, <1>b, <2>1 DEF Dispatch, Notified
<1>2. ASSUME NEW s \in Slot, TaskStep(s)
      PROVE  now' = now /\ published \subseteq published' /\ Tasks /\ Events
  <2>1. CASE Claim(s)
    BY <1>a, <1>b, <2>1 DEF Claim, Finish
  <2>2. CASE AcquireProver(s)
    BY <1>a, <1>b, <2>2 DEF AcquireProver
  <2>3. CASE ProverEnds(s)
    BY <1>a, <1>b, <2>3 DEF ProverEnds
  <2>4. CASE StoreProof(s)
    BY <1>a, <1>b, <2>4 DEF StoreProof
  <2>5. CASE SealFails(s)
    BY <1>a, <1>b, <2>5 DEF SealFails, Finish
  <2>6. CASE CheckCompleted(s)
    <3>1. now' = now /\ published' = published /\ UNCHANGED completed
      BY <2>6 DEF CheckCompleted
    <3>2. Tasks
      BY <1>a, <2>6 DEF CheckCompleted, Finish
    <3>3. ASSUME NEW e \in Elements(completed), reply' = [reply EXCEPT ![s] = e],
                 Goto(s, "publishing")
          PROVE  Events
      <4>0. ResultEvents' \subseteq Elements(completed') \cup published' \cup ResultEvents \cup {e}
        BY <1>c, <3>3
      <4>1. ResultEvents' \subseteq ResultEvents
        BY <1>0, <3>1, <3>3, <4>0
      <4> QED BY <4>1
    <3> QED BY <1>b, <2>6, <3>1, <3>2, <3>3 DEF CheckCompleted, Finish
  <2>7. CASE SealResult(s)
    <3> DEFINE x == [req |-> req[s], content |-> content[s], created_at |-> now]
    <3>1. /\ pc[s] = "sealing" /\ Goto(s, "publishing") /\ Remember(x)
          /\ reply' = [reply EXCEPT ![s] = x] /\ UNCHANGED <<req, now, published>>
      BY <2>7 DEF SealResult
    <3>2. x \in ResultEvent
      BY <3>1 DEF TypeOK, ResultEvent
    <3>3. Elements(completed') \subseteq Elements(completed) \cup {x}
      BY <3>1, <3>2, RememberTyped
    <3>5. x.created_at = now /\ x.req = req[s]
      OBVIOUS
    <3> HIDE DEF x
    <3>a. ResultEvents' \subseteq Elements(completed') \cup published' \cup ResultEvents \cup {x}
      BY <1>c, <3>1
    <3>4. ResultEvents' \subseteq ResultEvents \cup {x}
      BY <1>0, <3>1, <3>3, <3>a
    <3>6. Events
      BY <3>1, <3>4, <3>5
    <3> QED BY <1>a, <3>1, <3>6
  <2>8. CASE Publish(s)
    <3>1. /\ pc[s] = "publishing" /\ Goto(s, "idle") /\ reply' = [reply EXCEPT ![s] = None]
          /\ req' = [req EXCEPT ![s] = None] /\ UNCHANGED <<completed, now>>
          /\ published \subseteq published' /\ published' \subseteq published \cup {reply[s]}
      BY <2>8 DEF Publish, Finish
    <3>2. reply[s] \in ResultEvents
      BY <3>1 DEF ResultEvents
    <3>3. ResultEvents' \subseteq ResultEvents
      BY <1>0, <1>c, <3>1, <3>2
    <3> QED BY <1>a, <3>1, <3>3
  <2> QED BY <1>2, <2>1, <2>2, <2>3, <2>4, <2>5, <2>6, <2>7, <2>8 DEF TaskStep
<1>3. ASSUME Tick PROVE now' >= now /\ published' = published /\ Tasks /\ Events
  <2>1. now' = now + 1 /\ UNCHANGED <<pc, req, reply, completed, published>>
    BY <1>3 DEF Tick
  <2>2. Tasks /\ Events
    BY <2>1 DEF ResultEvents
  <2> QED BY <1>0, <2>1, <2>2
<1>4. ASSUME Restart PROVE now' = now /\ published' = published /\ Tasks /\ Events
  <2>1. /\ pc' = [s \in Slot |-> "idle"] /\ completed' = <<>> /\ UNCHANGED <<now, published>>
    BY <1>4 DEF Restart
  <2>2. ResultEvents' = published
    BY <1>0, <2>1 DEF ResultEvents
  <2> QED BY <1>0, <2>1, <2>2
<1> HIDE DEF Tasks, Events
<1>5. Tasks /\ Events /\ now' >= now /\ published \subseteq published'
  BY <1>0, <1>1, <1>2, <1>3, <1>4 DEF ProviderMoves
<1> QED BY <1>5 DEF Tasks, Events

-----------------------------------------------------------------------------
(* Every step keeps the invariant.                                         *)

\* What a relay holds is a request.
LEMMA RelaysHoldRequests == OriginInv => relays \subseteq Request
BY SocietyAssumption DEF OriginInv, FromOthersOr, Starts

\* A step of the society is a step of the provider, or none of its business.
LEMMA ProviderStepRefines == OriginInv /\ [SocietyNext]_societyVars => [Next]_vars
<1> SUFFICES ASSUME OriginInv, [SocietyNext]_societyVars PROVE [Next]_vars
  OBVIOUS
<1>1. CASE ProviderMoves
  BY <1>1, RelaysHoldRequests DEF ProviderMoves, Next
<1>2. CASE BeginRun \/ DeliverResult \/ RelayTakesRequest
  BY <1>2 DEF BeginRun, DeliverResult, RelayTakesRequest
<1> QED BY <1>1, <1>2, SocietyStepKinds DEF societyVars

\* Nobody has asked or answered anything.
LEMMA InitSociety == SocietyInit => SocietyInv
<1> SUFFICES ASSUME SocietyInit PROVE SocietyInv
  OBVIOUS
<1> USE SocietyAssumption DEF SocietyInit
<1>1. TypeOK
  BY InitType
<1>2. (\A s \in Slot : pc[s] = "idle") /\ ResultEvents = {}
  BY DEF Init, ResultEvents, Elements
<1>3. jobPc = "idle" /\ state = "draft"
  BY DEF Job!Init
<1>4. OriginInv
  BY <1>2, <1>3 DEF OriginInv, FromOthersOr, Starts
<1>5. AcceptedInv
  BY <1>3 DEF AcceptedInv, AfterResult, BeforeResult
<1> QED BY <1>1, <1>4, <1>5 DEF SocietyInv

\* A run begins: what was answered so far answers earlier runs.
LEMMA BeginRunKeeps ==
    ASSUME SocietyInv, BeginRun
    PROVE  OriginInv' /\ AcceptedInv'
<1> USE SocietyAssumption DEF SocietyInv, runHistory
<1>1. /\ jobPc' = "u_publishing" /\ ClientNow \in DOMAIN OwnRequest
      /\ request' = OwnRequest[ClientNow] /\ startedAt' = ClientNow
      /\ earlierStarts' = IF startedAt = None THEN {} ELSE earlierStarts \cup {startedAt}
      /\ answersBefore' = ResultEvents /\ seen' = {} /\ accepted' = None
      /\ UNCHANGED <<skew, relays>>
  BY DEF BeginRun
<1>2. UNCHANGED <<pc, req, reply, completed, published, now>>
  BY DEF BeginRun, vars, taskVars, memVars, envVars
<1>3. UNCHANGED ResultEvents
  BY <1>2 DEF ResultEvents
<1>4. state' # "verified"
  BY <1>1 DEF BeginRun, Job!Start, Job!Continue, Job!Enter, Job!PublishOnce, Job!FetchOnce,
              Job!AssertActive, Job!Throw
<1>5. earlierStarts' = Starts /\ startedAt' # None
  BY <1>1 DEF OriginInv, Starts
<1>6. FromOthersOr(Starts) \subseteq FromOthersOr(Starts')
  BY <1>5 DEF FromOthersOr, Starts
<1>7. Starts \subseteq DOMAIN OwnRequest
  BY DEF OriginInv, Starts
<1>8. \A e \in ResultEvents : e.req \in FromOthersOr(Starts)
  BY DEF OriginInv
<1>9. FromOthersOr(earlierStarts)' = FromOthersOr(Starts)
  BY <1>5 DEF FromOthersOr
<1>10. FromOthersOr(Starts)' = FromOthersOr(Starts')
  BY DEF FromOthersOr
<1>11. OriginInv'
  BY <1>1, <1>2, <1>3, <1>5, <1>6, <1>7, <1>8, <1>9, <1>10 DEF OriginInv
<1>12. AcceptedInv'
  BY <1>1, <1>4 DEF AcceptedInv, AfterResult, BeforeResult
<1> QED BY <1>11, <1>12

\* A relay takes the request of the current run.
LEMMA RelayTakesKeeps ==
    ASSUME SocietyInv, RelayTakesRequest
    PROVE  OriginInv' /\ AcceptedInv'
<1> USE DEF SocietyInv, runHistory, clientVars, jobVars
<1>1. /\ jobPc = "publishing" /\ relays' = relays \cup {request}
      /\ UNCHANGED <<jobPc, state, result, skew, request, seen, accepted, startedAt, earlierStarts,
                     answersBefore>>
  BY DEF RelayTakesRequest
<1>2. UNCHANGED <<pc, req, reply, completed, published, now>>
  BY DEF RelayTakesRequest, vars, taskVars, memVars, envVars
<1>3. UNCHANGED ResultEvents
  BY <1>2 DEF ResultEvents
<1>4. startedAt # None /\ request = OwnRequest[startedAt]
  BY <1>1 DEF OriginInv
<1>5. request \in FromOthersOr(Starts)
  BY <1>4 DEF FromOthersOr, Starts
<1>6. FromOthersOr(Starts)' = FromOthersOr(Starts)
      /\ FromOthersOr(earlierStarts)' = FromOthersOr(earlierStarts)
  BY <1>1 DEF FromOthersOr, Starts
<1>7. OriginInv'
  BY <1>1, <1>2, <1>3, <1>5, <1>6 DEF OriginInv
<1>8. AcceptedInv'
  BY <1>1, <1>2 DEF AcceptedInv, JobResult
<1> QED BY <1>7, <1>8

\* A result reaches the run that waits: it is taken, or it comes from a clock
\* that is too far ahead.
LEMMA DeliverKeeps ==
    ASSUME SocietyInv, DeliverResult
    PROVE  OriginInv' /\ AcceptedInv'
<1> USE SocietyAssumption DEF SocietyInv, runHistory
<1>1. PICK e \in published :
        /\ Matches(e) /\ seen' = seen \cup {e}
        /\ \/ Job!ResultArrives /\ result' = JobResult(e) /\ accepted' = e
           \/ /\ ~ResultTimely(e.created_at, Wire[request].created_at, ClientNow)
              /\ UNCHANGED <<jobVars, accepted>>
  BY DEF DeliverResult
<1>2. /\ jobPc = "waiting"
      /\ UNCHANGED <<skew, relays, request, startedAt, earlierStarts, answersBefore>>
  BY DEF DeliverResult
<1>3. UNCHANGED <<pc, req, reply, completed, published, now>>
  BY DEF DeliverResult, vars, taskVars, memVars, envVars
<1>4. UNCHANGED ResultEvents
  BY <1>3 DEF ResultEvents
<1>5. FromOthersOr(Starts)' = FromOthersOr(Starts)
      /\ FromOthersOr(earlierStarts)' = FromOthersOr(earlierStarts)
  BY <1>2 DEF FromOthersOr, Starts
<1>6. jobPc' # "idle" /\ startedAt # None
  BY <1>1, <1>2 DEF OriginInv, Job!ResultArrives, jobVars
<1>7. OriginInv'
  BY <1>2, <1>3, <1>4, <1>5, <1>6 DEF OriginInv
<1>8. CASE Job!ResultArrives /\ result' = JobResult(e) /\ accepted' = e
  <2>1. jobPc' = "received"
    BY <1>8 DEF Job!ResultArrives
  <2>2. e # None
    BY DEF TypeOK
  <2>3. e.req = request
    BY <1>1 DEF Matches
  <2>4. (result = JobResult(accepted))'
    BY <1>8 DEF JobResult
  <2> QED BY <1>2, <1>3, <1>7, <1>8, <2>1, <2>2, <2>3, <2>4 DEF AcceptedInv, AfterResult, BeforeResult
<1>9. CASE /\ ~ResultTimely(e.created_at, Wire[request].created_at, ClientNow)
           /\ UNCHANGED <<jobVars, accepted>>
  <2>1. e \in ResultEvents /\ e.created_at \in Nat /\ now \in Nat
    BY DEF TypeOK, ResultEvent, ResultEvents
  <2>2. e.created_at <= now
    BY <2>1 DEF OriginInv
  <2>3. skew \in Int /\ MAX_FUTURE_SKEW_SECS \in Nat
    BY WireLimits DEF OriginInv
  <2>4. e.created_at >= Wire[request].created_at
    BY <1>1 DEF Matches
  <2>5. ~(e.created_at <= now + skew + MAX_FUTURE_SKEW_SECS)
    BY <1>9, <2>4 DEF ResultTimely, ClientNow
  <2>6. skew < -MAX_FUTURE_SKEW_SECS
    BY <2>1, <2>2, <2>3, <2>5
  <2>7. UNCHANGED <<jobPc, state, result, accepted>>
    BY <1>9 DEF jobVars
  <2> QED BY <1>2, <1>3, <1>7, <2>6, <2>7 DEF AcceptedInv, JobResult
<1> QED BY <1>1, <1>8, <1>9

\* Any other step of the job.
LEMMA QuietJobKeeps ==
    ASSUME SocietyInv, QuietJobStep,
           UNCHANGED <<vars, skew, relays, request, seen, accepted, runHistory>>
    PROVE  OriginInv' /\ AcceptedInv'
<1> USE DEF SocietyInv, runHistory
<1>1. UNCHANGED <<pc, req, reply, completed, published, now>>
  BY DEF vars, taskVars, memVars, envVars
<1>2. UNCHANGED ResultEvents
  BY <1>1 DEF ResultEvents
<1>3. FromOthersOr(Starts)' = FromOthersOr(Starts)
      /\ FromOthersOr(earlierStarts)' = FromOthersOr(earlierStarts)
  BY DEF FromOthersOr, Starts
<1>4. startedAt = None => jobPc' \in {"idle", "u_draft"}
  BY QuietJobMoves DEF OriginInv
<1>5. OriginInv'
  BY <1>1, <1>2, <1>3, <1>4 DEF OriginInv
<1>6. accepted # None => (result = JobResult(accepted))'
  BY QuietJobMoves DEF AcceptedInv, JobResult
<1>7. AcceptedInv'
  BY <1>1, <1>6, QuietJobMoves DEF AcceptedInv
<1> QED BY <1>5, <1>7

\* A step of the provider.
LEMMA ProviderKeeps ==
    ASSUME SocietyInv, ProviderMoves, UNCHANGED <<clientVars, skew, relays>>, TypeOK'
    PROVE  OriginInv' /\ AcceptedInv'
<1> USE DEF SocietyInv, clientVars, jobVars, runHistory
<1>1. FromOthersOr(Starts)' = FromOthersOr(Starts)
      /\ FromOthersOr(earlierStarts)' = FromOthersOr(earlierStarts)
  BY DEF FromOthersOr, Starts
<1>2. ASSUME NEW e \in ResultEvents' PROVE e.req \in relays /\ e.created_at <= now'
  <2>1. now \in Nat /\ now' \in Nat /\ now' >= now
    BY ProviderEffects DEF TypeOK
  <2>2. CASE e \in ResultEvents
    <3>1. Elements(completed) \subseteq ResultEvent
      BY ElementsTyped DEF TypeOK
    <3>2. e \in ResultEvent
      BY <2>2, <3>1 DEF TypeOK, ResultEvents
    <3>3. e.created_at \in Nat
      BY <3>2 DEF ResultEvent
    <3> QED BY <2>1, <2>2, <3>3 DEF OriginInv
  <2>3. CASE e.created_at = now /\ \E t \in Slot : pc[t] # "idle" /\ e.req = req[t]
    BY <2>1, <2>3 DEF OriginInv
  <2> QED BY <1>2, <2>2, <2>3, ProviderEffects
<1>3. \A t \in Slot : pc'[t] # "idle" => req'[t] \in relays
  BY ProviderEffects DEF OriginInv
<1>4. OriginInv'
  BY <1>1, <1>2, <1>3 DEF OriginInv
<1>5. AcceptedInv'
  BY ProviderEffects DEF AcceptedInv, JobResult
<1> QED BY <1>4, <1>5

\* Every step of client, relays and provider keeps the invariant.
LEMMA NextSociety == SocietyInv /\ [SocietyNext]_societyVars => SocietyInv'
<1> SUFFICES ASSUME SocietyInv, [SocietyNext]_societyVars PROVE SocietyInv'
  OBVIOUS
<1>1. TypeOK'
  BY ProviderStepRefines, NextType DEF SocietyInv
<1>2. CASE UNCHANGED societyVars
  <2>1. UNCHANGED <<pc, req, reply, completed, published, now, ResultEvents>>
    BY <1>2 DEF societyVars, vars, taskVars, memVars, envVars, ResultEvents
  <2>2. UNCHANGED <<jobPc, state, result, skew, relays, request, seen, accepted, startedAt,
                    earlierStarts, answersBefore>>
    BY <1>2 DEF societyVars, clientVars, jobVars, runHistory
  <2>3. OriginInv' /\ AcceptedInv'
    BY <2>1, <2>2 DEF SocietyInv, OriginInv, AcceptedInv, FromOthersOr, Starts, JobResult
  <2> QED BY <1>1, <2>3 DEF SocietyInv
<1>3. (OriginInv' /\ AcceptedInv') \/ UNCHANGED societyVars
  BY <1>1, SocietyStepKinds, BeginRunKeeps, DeliverKeeps, RelayTakesKeeps, QuietJobKeeps,
     ProviderKeeps
<1> QED BY <1>1, <1>2, <1>3 DEF SocietyInv

\* The invariant of the composition holds throughout.
LEMMA SocietyAlwaysHolds == Society => []SocietyInv
BY InitSociety, NextSociety, PTL DEF Society

-----------------------------------------------------------------------------
(* Client and provider are what they are on their own.                     *)

\* In the society the provider behaves as SignedJobs says.
THEOREM SocietyRunsProvider == Society => Spec
<1>1. SocietyInit => Init
  BY DEF SocietyInit
<1>2. SocietyInv /\ [SocietyNext]_societyVars => [Next]_vars
  BY ProviderStepRefines DEF SocietyInv
<1> QED BY <1>1, <1>2, SocietyAlwaysHolds, PTL DEF Society, Spec

\* And the client as SoulJob says.
THEOREM SocietyRunsJob == Society => Job!Spec
<1>1. SocietyInit => Job!Init
  BY DEF SocietyInit
<1>2. [SocietyNext]_societyVars => [Job!Next]_(Job!vars)
  <2> SUFFICES ASSUME [SocietyNext]_societyVars PROVE [Job!Next]_(Job!vars)
    OBVIOUS
  <2>1. CASE BeginRun
    BY <2>1 DEF BeginRun, Job!Next, Job!RunStep
  <2>2. CASE QuietJobStep
    BY <2>2 DEF QuietJobStep, JobStep, Application, Job!Next, Job!RunStep
  <2>3. UNCHANGED jobVars => UNCHANGED Job!vars
    BY DEF jobVars, Job!vars, Job!snapshotVars, Job!runVars, Job!callVars
  <2>4. CASE DeliverResult
    BY <2>3, <2>4 DEF DeliverResult, Job!Next
  <2> QED BY <2>1, <2>2, <2>3, <2>4, SocietyStepKinds
          DEF RelayTakesRequest, clientVars, societyVars
<1> QED BY <1>1, <1>2, PTL DEF Society, Job!Spec

\* SoulJobProofs has its own copy of the definitions of SoulJob.
LEMMA SameJob == Job!Spec => JobProofs!Spec
<1>1. (Job!Init => JobProofs!Init) /\ ([Job!Next]_(Job!vars) => [JobProofs!Next]_(JobProofs!vars))
  BY DEF Job!Init, JobProofs!Init, Job!snapshotVars, JobProofs!snapshotVars, Job!runVars,
      JobProofs!runVars, Job!callVars, JobProofs!callVars, Job!vars, JobProofs!vars,
      Job!Update, JobProofs!Update, Job!Result, JobProofs!Result, Job!Throw,
      JobProofs!Throw, Job!AssertActive, JobProofs!AssertActive, Job!Enter,
      JobProofs!Enter, Job!PublishOnce, JobProofs!PublishOnce, Job!FetchOnce,
      JobProofs!FetchOnce, Job!Continue, JobProofs!Continue, Job!WaitForResult,
      JobProofs!WaitForResult, Job!Rejected, JobProofs!Rejected, Job!Settle,
      JobProofs!Settle, Job!SignerReplies, JobProofs!SignerReplies, Job!PublishEnds,
      JobProofs!PublishEnds, Job!DelayEnds, JobProofs!DelayEnds, Job!ResultArrives,
      JobProofs!ResultArrives, Job!ResultResolved, JobProofs!ResultResolved,
      Job!ResultTimeout, JobProofs!ResultTimeout, Job!FetchOutcome,
      JobProofs!FetchOutcome, Job!FetchEndsWith, JobProofs!FetchEndsWith, Job!FetchEnds,
      JobProofs!FetchEnds, Job!VerifyEnds, JobProofs!VerifyEnds, Job!Start,
      JobProofs!Start, Job!Reset, JobProofs!Reset, Job!CancelAt, JobProofs!CancelAt,
      Job!Cancel, JobProofs!Cancel, Job!Retryable, JobProofs!Retryable, Job!Retry,
      JobProofs!Retry, Job!ListenerCancels, JobProofs!ListenerCancels,
      Job!ListenerRetries, JobProofs!ListenerRetries, Job!RetryResumes,
      JobProofs!RetryResumes, Job!ListenerThrows, JobProofs!ListenerThrows, Job!RunStep,
      JobProofs!RunStep, Job!Next, JobProofs!Next
<1> QED BY <1>1, PTL DEF Job!Spec, JobProofs!Spec

-----------------------------------------------------------------------------
(* The properties.                                                         *)

\* What a user sees as verified, the provider has proved for the very request of
\* that run, and has in its store: what SoulJobProofs says of the job and what
\* SignedJobsProofs says of a success meet in the result event that passed
\* between them.
THEOREM VerifiedAlwaysProved == Society => []VerifiedWasProved
<1>1. JobProofs!Spec => []JobProofs!JobInv
  BY JobProofs!JobAlwaysHolds, SocietyAssumption DEF JobProofs!JobAssumption
<1>2. JobProofs!JobInv /\ SocietyInv /\ SuccessInv => VerifiedWasProved
  <2> SUFFICES ASSUME JobProofs!JobInv, SocietyInv, SuccessInv, state = "verified"
               PROVE  VerifiedWasProved
    BY DEF VerifiedWasProved
  <2>1. result.sound
    BY DEF JobProofs!JobInv, JobProofs!ResultInv, JobProofs!VerifiedIsSound
  <2>2. accepted \in published /\ accepted.req = request /\ result = JobResult(accepted)
    BY DEF SocietyInv, AcceptedInv
  <2>3. accepted.content.code = "success" /\ accepted.content.proof = accepted.req
    BY <2>1, <2>2 DEF JobResult
  <2>4. accepted \in ResultEvents
    BY <2>2 DEF ResultEvents
  <2>5. request \in stored /\ proofs[request] > 0
    BY <2>2, <2>3, <2>4 DEF SuccessInv
  <2> QED BY <2>2, <2>5 DEF VerifiedWasProved
<1> QED BY <1>1, <1>2, SocietyRunsJob, SameJob, SocietyRunsProvider, SuccessAlwaysHolds,
           SocietyAlwaysHolds, PTL

\* A run that waits has refused an answer only if the provider's clock is ahead
\* of the client's by more than the allowed skew.
THEOREM RefusalNeedsSkew == Society => []RefusedOnlyIfFarAhead
<1>1. SocietyInv => RefusedOnlyIfFarAhead
  BY DEF SocietyInv, AcceptedInv, BeforeResult, RefusedOnlyIfFarAhead
<1> QED BY <1>1, SocietyAlwaysHolds, PTL

\* A run is settled by an answer from before it began only if the job began
\* twice in one second.
THEOREM OldAnswerNeedsSameSecond == Society => []OldAnswerOnlySameSecond
<1>1. SocietyInv => OldAnswerOnlySameSecond
  <2> SUFFICES ASSUME SocietyInv, accepted # None, accepted \in answersBefore
               PROVE  startedAt \in earlierStarts
    BY DEF OldAnswerOnlySameSecond
  <2>1. accepted.req = request /\ accepted.req \in Request
    BY DEF SocietyInv, AcceptedInv, TypeOK, ResultEvent
  <2>2. startedAt \in DOMAIN OwnRequest /\ request = OwnRequest[startedAt]
    BY <2>1, JobsAssumption DEF SocietyInv, OriginInv
  <2>3. request \in FromOthersOr(earlierStarts) /\ earlierStarts \subseteq DOMAIN OwnRequest
    BY <2>1 DEF SocietyInv, OriginInv
  <2>4. PICK t \in earlierStarts : request = OwnRequest[t]
    BY <2>2, <2>3 DEF FromOthersOr, Own
  <2> QED BY <2>2, <2>3, <2>4, SocietyAssumption
<1> QED BY <1>1, SocietyAlwaysHolds, PTL
=============================================================================
