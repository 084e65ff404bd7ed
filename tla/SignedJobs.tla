----------------------------- MODULE SignedJobs -----------------------------
(***************************************************************************)
(* The provider's job pipeline: relay notifications are dispatched to      *)
(* concurrent tasks that authenticate a request, claim it, prove it behind *)
(* a semaphore, store the proof, sign a result, cache it and publish it.   *)
(*                                                                         *)
(* A task is named by the dispatch slot it holds (handler.rs,              *)
(* dispatch_slots).  Each action below is one stretch of a task between    *)
(* two points at which another task can run: an await, or the release of   *)
(* one of the two mutexes (the claims of RequestDeduplicator and the       *)
(* CompletedResults), which are locked one after the other, never together.*)
(*                                                                         *)
(* The HashSet and the VecDeque of the deduplicator always hold the same   *)
(* ids, so one sequence stands for both; likewise for CompletedResults.    *)
(***************************************************************************)
EXTENDS SoulWire, Sequences, FiniteSets

CONSTANTS
    Request,            \* ids of the request events on the relays
    Wire,               \* [Request -> RequestEvent]: what each event says
    Slot,               \* the dispatch slots (MAX_INFLIGHT_EVENTS of them)
    Capacity,           \* MAX_DEDUPE_ENTRIES, for claims and for results
    MaxProofs,          \* max_concurrent_proofs
    None,
    MaxDeliveries,      \* bound: notifications in all
    MaxRestarts,        \* bound: restarts of the provider
    MaxNow              \* bound: the provider's clock

ASSUME JobsAssumption ==
    /\ \A r \in Request : Wire[r] \in RequestEvent
    /\ IsFiniteSet(Slot)
    /\ Capacity \in Nat \ {0}
    /\ MaxProofs \in Nat \ {0}
    /\ None \notin Request
    /\ MaxDeliveries \in Nat /\ MaxRestarts \in Nat /\ MaxNow \in Nat

VARIABLES
    now,            \* the provider's clock
    since,          \* lower bound of the relay subscription
    deliveries,     \* notifications so far
    pc,             \* [Slot -> where the task is; "idle" when the slot is free]
    req,            \* [Slot -> the request the task handles]
    content,        \* [Slot -> the JobResultContent the task has built]
    reply,          \* [Slot -> the signed result event the task will publish]
    claims,         \* RequestDeduplicator: ids, oldest first
    completed,      \* CompletedResults: signed events, oldest first
    permits,        \* free permits of proving_slots
    stored,         \* proofs in the artifact store, named by their statement
    published,      \* result events some relay accepted
    restarts,
    \* History, read by no action.
    proofs,         \* [Request -> proofs started for it]
    forgotten,      \* requests whose claim was evicted or lost in a restart
    silenced        \* claimed requests with no result left to replay

taskVars == <<pc, req, content, reply>>
memVars == <<claims, completed, permits>>
historyVars == <<proofs, forgotten, silenced>>
envVars == <<now, since, deliveries, restarts>>
vars == <<envVars, taskVars, memVars, stored, published, historyVars>>

-----------------------------------------------------------------------------

Code == {"success", "busy", "proving_failed", "artifact_unavailable", "internal"}

\* JobResultContent: the status or error code and, for a success, the proof
\* its descriptor names.  A proof is named by the request its statement binds.
Content == [code: Code, proof: Request \cup {None}]

Failure(code) == [code |-> code, proof |-> None]

\* A signed result event.  Equal events have equal ids.
ResultEvent == [req: Request, content: Content, created_at: Nat]

\* Where a task that holds a slot can be.
Claimed == {"acquiring", "proving", "storing", "sealing"}
Location == {"idle", "received", "claiming", "publishing"} \cup Claimed

Elements(q) == {q[i] : i \in DOMAIN q}

\* Mutant: the oldest entry is never evicted.
PushUnbounded(q, x) == Append(q, x)

\* push_back, then pop_front while the queue is over capacity.  It is over by
\* at most one, so the loop runs at most once.
PushBounded(q, x) ==
    IF Len(q) < Capacity THEN Append(q, x) ELSE Tail(Append(q, x))

CompletedRequests == {e.req : e \in Elements(completed)}

Init ==
    /\ now \in 0..MaxNow
    /\ since = SaturatingSub(now, MAX_REQUEST_AGE_SECS)
    /\ deliveries = 0
    /\ pc = [s \in Slot |-> "idle"]
    /\ req = [s \in Slot |-> None]
    /\ content = [s \in Slot |-> None]
    /\ reply = [s \in Slot |-> None]
    /\ claims = <<>>
    /\ completed = <<>>
    /\ permits = MaxProofs
    /\ stored = {}
    /\ published = {}
    /\ restarts = 0
    /\ proofs = [r \in Request |-> 0]
    /\ forgotten = {}
    /\ silenced = {}

-----------------------------------------------------------------------------
(* Tasks.                                                                  *)

\* The task moves on within the same slot.
Goto(s, l) == pc' = [pc EXCEPT ![s] = l]

\* The task returns and its dispatch permit is dropped with it.
Finish(s) ==
    /\ Goto(s, "idle")
    /\ req' = [req EXCEPT ![s] = None]
    /\ content' = [content EXCEPT ![s] = None]
    /\ reply' = [reply EXCEPT ![s] = None]

\* start: a notification carries an event the subscription covers.
Notified(r) ==
    /\ Wire[r].created_at >= since
    /\ deliveries < MaxDeliveries
    /\ deliveries' = deliveries + 1
    /\ UNCHANGED <<now, since, restarts>>

\* try_acquire_owned succeeds: a task is spawned for the event.
Dispatch(s, r) ==
    /\ Notified(r)
    /\ pc[s] = "idle"
    /\ Goto(s, "received")
    /\ req' = [req EXCEPT ![s] = r]
    /\ UNCHANGED <<content, reply, memVars, stored, published, historyVars>>

\* try_acquire_owned fails: the event is dropped.
DropEvent(r) ==
    /\ Notified(r)
    /\ \A s \in Slot : pc[s] # "idle"
    /\ UNCHANGED <<taskVars, memVars, stored, published, historyVars>>

\* Mutant: a replay is signed again instead of returning the cached event.
CheckCompletedResigns(s) ==
    /\ pc[s] = "received"
    /\ AcceptsRequest(Wire[req[s]], now)
    /\ \/ /\ \E e \in Elements(completed) :
                /\ e.req = req[s]
                /\ reply' = [reply EXCEPT ![s] = [e EXCEPT !.created_at = now]]
          /\ Goto(s, "publishing")
       \/ /\ req[s] \notin CompletedRequests
          /\ Goto(s, "claiming")
          /\ UNCHANGED reply
    /\ UNCHANGED <<req, content, envVars, memVars, stored, published, historyVars>>

\* Mutant: an event that is not acceptable yet, or no longer, holds its slot.
CheckCompletedWaits(s) ==
    /\ pc[s] = "received"
    /\ AcceptsRequest(Wire[req[s]], now)
    /\ \/ /\ \E e \in Elements(completed) :
                /\ e.req = req[s]
                /\ reply' = [reply EXCEPT ![s] = e]
          /\ Goto(s, "publishing")
       \/ /\ req[s] \notin CompletedRequests
          /\ Goto(s, "claiming")
          /\ UNCHANGED reply
    /\ UNCHANGED <<req, content, envVars, memVars, stored, published, historyVars>>

\* handle_event up to the release of the completed-results lock: an event that
\* does not parse is discarded, a completed request is replayed.
CheckCompleted(s) ==
    /\ pc[s] = "received"
    /\ \/ /\ ~AcceptsRequest(Wire[req[s]], now)
          /\ Finish(s)
       \/ /\ AcceptsRequest(Wire[req[s]], now)
          /\ \E e \in Elements(completed) :
                /\ e.req = req[s]
                /\ reply' = [reply EXCEPT ![s] = e]
          /\ Goto(s, "publishing")
          /\ UNCHANGED <<req, content>>
       \/ /\ AcceptsRequest(Wire[req[s]], now)
          /\ req[s] \notin CompletedRequests
          /\ Goto(s, "claiming")
          /\ UNCHANGED <<req, content, reply>>
    /\ UNCHANGED <<envVars, memVars, stored, published, historyVars>>

\* Mutant: a request that is already claimed is claimed once more.
ClaimUnchecked(s) ==
    /\ pc[s] = "claiming"
    /\ claims' = IF req[s] \in Elements(claims) THEN claims ELSE PushBounded(claims, req[s])
    /\ forgotten' = forgotten \cup (Elements(claims) \ Elements(claims'))
    /\ Goto(s, "acquiring")
    /\ UNCHANGED <<req, content, reply, envVars, completed, permits, stored,
                   published, proofs, silenced>>

\* RequestDeduplicator::claim.  A request already claimed ends with Ok(None).
Claim(s) ==
    /\ pc[s] = "claiming"
    /\ \/ /\ req[s] \in Elements(claims)
          /\ Finish(s)
          /\ UNCHANGED <<claims, forgotten>>
       \/ /\ req[s] \notin Elements(claims)
          /\ claims' = PushBounded(claims, req[s])
          /\ forgotten' = forgotten \cup (Elements(claims) \ Elements(claims'))
          /\ Goto(s, "acquiring")
          /\ UNCHANGED <<req, content, reply>>
    /\ UNCHANGED <<envVars, completed, permits, stored, published, proofs, silenced>>

\* Mutant: a request that finds no permit is dropped without a Busy result.
AcquireProverOrDrop(s) ==
    /\ pc[s] = "acquiring"
    /\ \/ /\ permits > 0
          /\ permits' = permits - 1
          /\ proofs' = [proofs EXCEPT ![req[s]] = @ + 1]
          /\ Goto(s, "proving")
          /\ UNCHANGED <<req, content, reply>>
       \/ /\ permits = 0
          /\ Finish(s)
          /\ UNCHANGED <<permits, proofs>>
    /\ UNCHANGED <<envVars, claims, completed, stored, published, forgotten, silenced>>

\* ProofProcessor::process takes a proving permit or fails with Busy.
AcquireProver(s) ==
    /\ pc[s] = "acquiring"
    /\ \/ /\ permits > 0
          /\ permits' = permits - 1
          /\ proofs' = [proofs EXCEPT ![req[s]] = @ + 1]
          /\ Goto(s, "proving")
          /\ UNCHANGED content
       \/ /\ permits = 0
          /\ content' = [content EXCEPT ![s] = Failure("busy")]
          /\ Goto(s, "sealing")
          /\ UNCHANGED <<permits, proofs>>
    /\ UNCHANGED <<envVars, req, reply, claims, completed, stored, published,
                   forgotten, silenced>>

\* Mutant: the statement of the proof is not compared with the request.
AnyStatement(statement, r) == TRUE

\* statement_matches_request.
StatementMatchesRequest(statement, r) == statement = r

\* Mutant: the permit is only dropped after a proof, not after a failure.
ProverEndsLeaky(s) ==
    /\ pc[s] = "proving"
    /\ \/ /\ permits' = permits + 1
          /\ content' = [content EXCEPT ![s] = [code |-> "success", proof |-> req[s]]]
          /\ Goto(s, "storing")
       \/ /\ content' = [content EXCEPT ![s] = Failure("internal")]
          /\ Goto(s, "sealing")
          /\ UNCHANGED permits
    /\ UNCHANGED <<envVars, req, reply, claims, completed, stored, published, historyVars>>

\* The blocking worker ends and the permit is released: by drop(permit) after
\* a proof, and by leaving the function after a failure or a panic.  A proof
\* of a statement that does not bind the request is refused afterwards.
ProverEnds(s) ==
    /\ pc[s] = "proving"
    /\ permits' = permits + 1
    /\ \/ \E statement \in Request :
             /\ StatementMatchesRequest(statement, req[s])
             /\ content' = [content EXCEPT ![s] = [code |-> "success", proof |-> statement]]
             /\ Goto(s, "storing")
       \/ \E code \in {"proving_failed", "internal"} :
             /\ content' = [content EXCEPT ![s] = Failure(code)]
             /\ Goto(s, "sealing")
    /\ UNCHANGED <<envVars, req, reply, claims, completed, stored, published, historyVars>>

\* ProofArtifactStore::put, then the descriptor and the result are validated.
\* The proof stays in the store when a later check fails.
StoreProof(s) ==
    /\ pc[s] = "storing"
    /\ Goto(s, "sealing")
    /\ \/ /\ stored' = stored \cup {content[s].proof}
          /\ UNCHANGED content
       \/ /\ stored' = stored \cup {content[s].proof}
          /\ content' = [content EXCEPT ![s] = Failure("internal")]
       \/ /\ content' = [content EXCEPT ![s] = Failure("artifact_unavailable")]
          /\ UNCHANGED stored
    /\ UNCHANGED <<envVars, req, reply, memVars, published, historyVars>>

\* Mutant: the later event replaces the one cached for the request.
RememberLatest(e) ==
    completed' = PushBounded(SelectSeq(completed, LAMBDA f : f.req # e.req), e)

\* CompletedResults::insert keeps the event already cached for a request.
Remember(e) ==
    completed' = IF e.req \in CompletedRequests
                 THEN completed
                 ELSE PushBounded(completed, e)

\* The tail of handle_event: encode, sign with the current time, remember.
SealResult(s) ==
    /\ pc[s] = "sealing"
    /\ LET e == [req |-> req[s], content |-> content[s], created_at |-> now]
       IN  /\ reply' = [reply EXCEPT ![s] = e]
           /\ Remember(e)
    /\ silenced' = silenced \cup (CompletedRequests \ {e.req : e \in Elements(completed')})
    /\ Goto(s, "publishing")
    /\ UNCHANGED <<envVars, req, content, claims, permits, stored, published,
                   proofs, forgotten>>

\* The same tail when the result is too large or cannot be encoded or signed:
\* the request stays claimed, nothing is remembered or published.
SealFails(s) ==
    /\ pc[s] = "sealing"
    /\ silenced' = silenced \cup {req[s]}
    /\ Finish(s)
    /\ UNCHANGED <<envVars, memVars, stored, published, proofs, forgotten>>

\* send_event: at least one relay accepts the result, or none does.
Publish(s) ==
    /\ pc[s] = "publishing"
    /\ published' \in {published, published \cup {reply[s]}}
    /\ Finish(s)
    /\ UNCHANGED <<envVars, memVars, stored, historyVars>>

-----------------------------------------------------------------------------
(* The process and its environment.                                        *)

Tick ==
    /\ now < MaxNow
    /\ now' = now + 1
    /\ UNCHANGED <<since, deliveries, restarts, taskVars, memVars, stored,
                   published, historyVars>>

\* The process ends (a crash, a signal, the event loop or the HTTP service
\* returning) and is started again: everything in memory is new, and the
\* subscription looks back over one request age.
Restart ==
    /\ restarts < MaxRestarts
    /\ restarts' = restarts + 1
    /\ since' = SaturatingSub(now, MAX_REQUEST_AGE_SECS)
    /\ pc' = [s \in Slot |-> "idle"]
    /\ req' = [s \in Slot |-> None]
    /\ content' = [s \in Slot |-> None]
    /\ reply' = [s \in Slot |-> None]
    /\ claims' = <<>>
    /\ completed' = <<>>
    /\ permits' = MaxProofs
    /\ forgotten' = forgotten \cup Elements(claims)
    /\ silenced' = {}
    /\ UNCHANGED <<now, deliveries, stored, published, proofs>>

TaskStep(s) ==
    \/ CheckCompleted(s)
    \/ Claim(s)
    \/ AcquireProver(s)
    \/ ProverEnds(s)
    \/ StoreProof(s)
    \/ SealResult(s)
    \/ SealFails(s)
    \/ Publish(s)

Next ==
    \/ \E s \in Slot, r \in Request : Dispatch(s, r)
    \/ \E r \in Request : DropEvent(r)
    \/ \E s \in Slot : TaskStep(s)
    \/ Tick
    \/ Restart

Spec == Init /\ [][Next]_vars

\* Every spawned task keeps running: tokio polls it, the blocking worker and
\* the store return, and the relay client's send has its own timeout.
\* Nothing is assumed of the relays, the clock or restarts.
Fairness == \A s \in Slot : WF_vars(TaskStep(s))

FairSpec == Spec /\ Fairness

-----------------------------------------------------------------------------
(* Properties.                                                             *)

\* The types, with what a task relies on at each point of handle_event: a task
\* that stores, signs or publishes has something to store, sign or publish, and
\* neither cache is over its capacity.
TypeOK ==
    /\ now \in Nat /\ since \in Nat /\ restarts \in Nat
    /\ deliveries \in Nat
    /\ pc \in [Slot -> Location]
    /\ req \in [Slot -> Request \cup {None}]
    /\ \A s \in Slot : pc[s] # "idle" => req[s] \in Request
    /\ content \in [Slot -> Content \cup {None}]
    /\ \A s \in Slot : pc[s] \in {"storing", "sealing"} => content[s] \in Content
    /\ \A s \in Slot : pc[s] = "storing" => content[s].proof \in Request
    /\ reply \in [Slot -> ResultEvent \cup {None}]
    /\ \A s \in Slot : pc[s] = "publishing" => reply[s] \in ResultEvent
    /\ claims \in Seq(Request) /\ Len(claims) <= Capacity
    /\ completed \in Seq(ResultEvent) /\ Len(completed) <= Capacity
    /\ permits \in Nat
    /\ stored \subseteq Request
    /\ published \subseteq ResultEvent
    /\ proofs \in [Request -> Nat]
    /\ forgotten \subseteq Request
    /\ silenced \subseteq Request

Proving == {s \in Slot : pc[s] = "proving"}

\* The tasks of this process that hold a claim on r they have not settled.
InFlight(r) == {s \in Slot : pc[s] \in Claimed /\ req[s] = r}

\* Every result event in the provider's hands or on a relay.
ResultEvents ==
    Elements(completed) \cup published \cup {reply[s] : s \in {t \in Slot : pc[t] = "publishing"}}

\* ProofProcessor::process gives its permit back on every path, once: a free
\* permit and a running proof always add up to max_concurrent_proofs.
PermitsConserved == permits + Cardinality(Proving) = MaxProofs

\* A duplicate delivery starts no second proof as long as the claim of the
\* request has neither been evicted by newer claims nor lost in a restart.
SecondProofOnlyIfForgotten ==
    \A r \in Request : proofs[r] > 1 => r \in forgotten

\* Under the same condition all the provider ever signs, caches, replays or
\* publishes for a request is one result event, whatever the interleaving.
OneResultUnlessForgotten ==
    \A e1, e2 \in ResultEvents :
        e1.req = e2.req /\ e1.req \notin forgotten => e1 = e2

\* Why both hold: a request that is not forgotten is claimed from the moment a
\* task works on it; one task at most does; before its proof starts there was
\* none; and once it has a result event no task works on it any more.
ClaimInv ==
    /\ \A s \in Slot :
          pc[s] \in Claimed /\ req[s] \notin forgotten => req[s] \in Elements(claims)
    /\ \A s, t \in Slot :
          /\ pc[s] \in Claimed /\ pc[t] \in Claimed
          /\ req[s] = req[t] /\ req[s] \notin forgotten
          => s = t
    /\ \A s \in Slot :
          pc[s] = "acquiring" /\ req[s] \notin forgotten => proofs[req[s]] = 0
    /\ \A r \in Request \ forgotten : proofs[r] > 0 => r \in Elements(claims)
    /\ \A e \in ResultEvents : e.req \notin forgotten =>
          /\ e.req \in Elements(claims)
          /\ \A s \in Slot : pc[s] \in Claimed => req[s] # e.req
    /\ SecondProofOnlyIfForgotten
    /\ OneResultUnlessForgotten

\* A success on a relay names a proof that is in the store and whose
\* statement binds exactly the request it answers, also after restarts.
PublishedSuccessIsStored ==
    \A e \in published :
        e.content.code = "success" => e.content.proof = e.req /\ e.req \in stored

\* A claimed request never goes silent: it is being worked on, or a
\* redelivery finds its result, unless the result was evicted from
\* CompletedResults or could not be signed.
ClaimedIsAnswerable ==
    \A r \in Elements(claims) :
        InFlight(r) # {} \/ r \in CompletedRequests \/ r \in silenced

\* CompletedResults never replaces the event cached for a request, not even
\* when an evicted claim lets a second task finish the same request.
CachedResultImmutable ==
    [][\A e \in Elements(completed), f \in Elements(completed') :
            e.req = f.req => e = f]_vars

\* Requests some task of this process has claimed and not settled.
Working == {req[s] : s \in {t \in Slot : pc[t] \in Claimed}}

Promised == INSTANCE ProviderSpec WITH
    begun <- Elements(claims) \cup forgotten, working <- Working, results <- ResultEvents

\* Tasks, locks, queues and slots together keep the provider's promise: until
\* its claim is forgotten, a request is taken up once and signed for once, also
\* when the event signed for it was evicted and could not be sent; and what is
\* signed as a success was stored before, for the same request.
ImplementsProvider == Promised!Spec

\* Every dispatch slot is given back.
SlotReleased ==
    \A s \in Slot : pc[s] # "idle" ~> pc[s] = "idle"

\* A claim leads to a cached result, unless the result is evicted or cannot be
\* signed, or the claim itself is evicted or lost.
ClaimIsSettled ==
    \A r \in Request :
        r \in Elements(claims) ~>
            \/ r \in CompletedRequests
            \/ r \in silenced
            \/ r \notin Elements(claims)

-----------------------------------------------------------------------------
(* What the protocol says of the provider, and the code does not keep.     *)

\* docs/protocol.md: "Result timestamps MUST be at or after the request
\* timestamp".
ResultNotBeforeRequest ==
    \A e \in published : e.created_at >= Wire[e.req].created_at
=============================================================================
