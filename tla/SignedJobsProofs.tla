-------------------------- MODULE SignedJobsProofs --------------------------
(***************************************************************************)
(* Safety of the provider's job pipeline for every number of requests,     *)
(* dispatch slots, proving permits, restarts and every cache capacity.     *)
(***************************************************************************)
EXTENDS SignedJobs, SequenceTheorems, FiniteSetTheorems, TLAPS

-----------------------------------------------------------------------------
(* The bounded queue behind claims and completed results.                  *)

\* What one bounded push does: the new entry is in, nothing else comes in, and
\* the capacity is respected.
LEMMA PushBoundedFacts ==
    ASSUME NEW S, NEW q \in Seq(S), NEW x \in S, Len(q) <= Capacity
    PROVE  /\ PushBounded(q, x) \in Seq(S)
           /\ Len(PushBounded(q, x)) <= Capacity
           /\ x \in Elements(PushBounded(q, x))
           /\ Elements(PushBounded(q, x)) \subseteq Elements(q) \cup {x}
<1> DEFINE a == Append(q, x)
<1>1. /\ a \in Seq(S)
      /\ Len(a) = Len(q) + 1
      /\ \A i \in 1..Len(q) : a[i] = q[i]
      /\ a[Len(q) + 1] = x
  OBVIOUS
<1>2. Len(q) \in Nat /\ Capacity \in Nat \ {0}
  BY JobsAssumption
<1>3. Elements(a) = Elements(q) \cup {x}
  BY <1>1, <1>2 DEF Elements
<1>4. CASE Len(q) < Capacity
  <2>1. PushBounded(q, x) = a
    BY <1>4 DEF PushBounded
  <2> QED BY <2>1, <1>1, <1>2, <1>3, <1>4
<1>5. CASE ~(Len(q) < Capacity)
  <2>1. PushBounded(q, x) = Tail(a)
    BY <1>5 DEF PushBounded
  <2>2. a # <<>>
    BY <1>1, <1>2
  <2>3. /\ Tail(a) \in Seq(S)
        /\ Len(Tail(a)) = Len(a) - 1
        /\ \A i \in 1..Len(Tail(a)) : Tail(a)[i] = a[i + 1]
    BY <2>2, <1>1, HeadTailProperties
  <2>4. DOMAIN Tail(a) = 1..Len(q)
    BY <2>3, <1>1, <1>2, LenProperties
  <2>5. Tail(a)[Len(q)] = x
    BY <2>3, <1>1, <1>2, <1>5
  <2>6. x \in Elements(Tail(a))
    <3>1. Len(q) \in DOMAIN Tail(a)
      BY <2>4, <1>2, <1>5
    <3> HIDE DEF a
    <3> QED BY <3>1, <2>5 DEF Elements
  <2>7. Elements(Tail(a)) \subseteq Elements(a)
    BY <2>3, <2>4, <1>1, <1>2 DEF Elements
  <2> QED BY <2>1, <2>3, <2>6, <2>7, <1>1, <1>2, <1>3, <1>5
<1> QED BY <1>4, <1>5

-----------------------------------------------------------------------------
(* Types.                                                                  *)

\* Saturating subtraction, behind `since' and the age check, stays a natural.
LEMMA SaturatingSubNat ==
    ASSUME NEW a \in Nat, NEW b \in Nat
    PROVE  SaturatingSub(a, b) \in Nat
BY DEF SaturatingSub

\* The entries of a queue have the type the queue was declared with.
LEMMA ElementsTyped ==
    ASSUME NEW S, NEW q \in Seq(S)
    PROVE  Elements(q) \subseteq S
BY DEF Elements

\* CompletedResults::insert caches the given event or leaves the cache alone, and
\* respects its capacity.
LEMMA RememberTyped ==
    ASSUME NEW e \in ResultEvent, TypeOK, Remember(e)
    PROVE  /\ completed' \in Seq(ResultEvent)
           /\ Len(completed') <= Capacity
           /\ Elements(completed') \subseteq Elements(completed) \cup {e}
BY PushBoundedFacts DEF Remember, TypeOK

\* Each failure the pipeline reports is a JobResultContent.
LEMMA FailureTyped ==
    /\ Failure("busy") \in Content
    /\ Failure("proving_failed") \in Content
    /\ Failure("artifact_unavailable") \in Content
    /\ Failure("internal") \in Content
BY DEF Failure, Content, Code

\* So is a success that names a proof.
LEMMA SuccessTyped ==
    ASSUME NEW r \in Request
    PROVE  [code |-> "success", proof |-> r] \in Content
BY DEF Content, Code

\* The provider starts, with empty caches, in a state of the right type.
LEMMA InitType == Init => TypeOK
BY JobsAssumption, WireLimits, SaturatingSubNat DEF Init, TypeOK, Location

\* Every step of a task, of the relays, of the clock and a restart keep the types.
LEMMA NextType == TypeOK /\ [Next]_vars => TypeOK'
<1> SUFFICES ASSUME TypeOK, [Next]_vars PROVE TypeOK'
  OBVIOUS
<1> USE DEF TypeOK, taskVars, memVars, historyVars, envVars
<1>1. ASSUME NEW s \in Slot, NEW r \in Request, Dispatch(s, r) PROVE TypeOK'
  BY <1>1 DEF Dispatch, Notified, Goto, Location
<1>2. ASSUME NEW r \in Request, DropEvent(r) PROVE TypeOK'
  BY <1>2 DEF DropEvent, Notified
<1>3. ASSUME NEW s \in Slot, CheckCompleted(s) PROVE TypeOK'
  <2>1. Elements(completed) \subseteq ResultEvent
    BY ElementsTyped
  <2> QED BY <1>3, <2>1 DEF CheckCompleted, Finish, Goto, Location
<1>4. ASSUME NEW s \in Slot, Claim(s) PROVE TypeOK'
  <2>1. CASE req[s] \in Elements(claims)
    BY <1>4, <2>1 DEF Claim, Finish, Goto, Location
  <2>2. CASE req[s] \notin Elements(claims)
    <3>1. req[s] \in Request
      BY <1>4 DEF Claim
    <3>2. claims' = PushBounded(claims, req[s])
      BY <1>4, <2>2 DEF Claim
    <3>3. claims' \in Seq(Request) /\ Len(claims') <= Capacity
      BY <3>1, <3>2, PushBoundedFacts
    <3>4. Elements(claims) \subseteq Request
      BY ElementsTyped
    <3>5. forgotten' \subseteq Request
      BY <1>4, <2>2, <3>4 DEF Claim
    <3> QED BY <1>4, <2>2, <3>1, <3>3, <3>5 DEF Claim, Goto, Location, Claimed
  <2> QED BY <2>1, <2>2
<1>5. ASSUME NEW s \in Slot, AcquireProver(s) PROVE TypeOK'
  <2>1. CASE permits > 0
    <3>1. permits' = permits - 1 /\ proofs' = [proofs EXCEPT ![req[s]] = @ + 1]
      BY <1>5, <2>1 DEF AcquireProver
    <3>2. permits \in Nat /\ proofs \in [Request -> Nat] /\ req[s] \in Request
      BY <1>5 DEF AcquireProver
    <3>4. permits' \in Nat
      BY <2>1, <3>1, <3>2
    <3>5. proofs' \in [Request -> Nat]
      <4> HIDE DEF TypeOK
      <4> QED BY <3>1, <3>2
    <3>3. pc' = [pc EXCEPT ![s] = "proving"] /\ UNCHANGED content
      BY <1>5, <2>1 DEF AcquireProver, Goto
    <3> QED BY <1>5, <3>4, <3>5, <3>3 DEF AcquireProver, Location, Claimed
  <2>2. CASE permits = 0
    <3>1. /\ pc' = [pc EXCEPT ![s] = "sealing"]
          /\ content' = [content EXCEPT ![s] = Failure("busy")]
          /\ UNCHANGED <<permits, proofs>>
      BY <1>5, <2>2 DEF AcquireProver, Goto
    <3> QED BY <1>5, <3>1, FailureTyped DEF AcquireProver, Location, Claimed
  <2> QED BY <1>5, <2>1, <2>2 DEF AcquireProver
<1>6. ASSUME NEW s \in Slot, ProverEnds(s) PROVE TypeOK'
  <2>1. PICK c \in Content, l \in {"storing", "sealing"} :
          /\ content' = [content EXCEPT ![s] = c]
          /\ pc' = [pc EXCEPT ![s] = l]
          /\ l = "storing" => c.proof \in Request
    BY <1>6, SuccessTyped, FailureTyped DEF ProverEnds, Goto
  <2> QED BY <1>6, <2>1 DEF ProverEnds, Location, Claimed
<1>7. ASSUME NEW s \in Slot, StoreProof(s) PROVE TypeOK'
  <2>1. PICK c \in Content : content' = [content EXCEPT ![s] = c]
    BY <1>7, FailureTyped DEF StoreProof
  <2> QED BY <1>7, <2>1 DEF StoreProof, Goto, Location, Claimed
<1>8. ASSUME NEW s \in Slot, SealResult(s) PROVE TypeOK'
  <2> DEFINE e == [req |-> req[s], content |-> content[s], created_at |-> now]
  <2>1. e \in ResultEvent
    BY <1>8 DEF SealResult, ResultEvent
  <2>2. Remember(e)
    BY <1>8 DEF SealResult
  <2>3. completed' \in Seq(ResultEvent) /\ Len(completed') <= Capacity
    BY <2>1, <2>2, RememberTyped
  <2>4. CompletedRequests \subseteq Request
    <3>1. Elements(completed) \subseteq ResultEvent
      BY ElementsTyped
    <3> QED BY <3>1 DEF CompletedRequests, ResultEvent
  <2>5. silenced' \subseteq Request
    BY <1>8, <2>4 DEF SealResult
  <2> QED BY <1>8, <2>1, <2>3, <2>5 DEF SealResult, Goto, Location
<1>9. ASSUME NEW s \in Slot, SealFails(s) PROVE TypeOK'
  BY <1>9 DEF SealFails, Finish, Goto, Location
<1>10. ASSUME NEW s \in Slot, Publish(s) PROVE TypeOK'
  BY <1>10 DEF Publish, Finish, Goto, Location
<1>11. CASE Tick
  BY <1>11 DEF Tick
<1>12. CASE Restart
  <2>1. Elements(claims) \subseteq Request
    BY ElementsTyped
  <2>2. since' \in Nat
    BY <1>12, WireLimits, SaturatingSubNat DEF Restart
  <2> QED BY <1>12, <2>1, <2>2, JobsAssumption DEF Restart, Location
<1>13. CASE UNCHANGED vars
  BY <1>13 DEF vars
<1> QED
  BY <1>1, <1>2, <1>3, <1>4, <1>5, <1>6, <1>7, <1>8, <1>9, <1>10, <1>11, <1>12,
     <1>13 DEF Next, TaskStep

\* Every variable keeps its type; in particular neither cache ever outgrows its
\* capacity, and a task that signs or publishes has something to sign or
\* publish.
THEOREM TypeCorrect == Spec => []TypeOK
<1>1. Init => TypeOK
  BY InitType
<1>2. TypeOK /\ [Next]_vars => TypeOK'
  BY NextType
<1> QED BY <1>1, <1>2, PTL DEF Spec

-----------------------------------------------------------------------------
(* Proving permits.                                                        *)

\* There are finitely many running proofs: one per dispatch slot at most.
LEMMA ProvingFinite == IsFiniteSet(Proving) /\ Cardinality(Proving) \in Nat
<1>1. IsFiniteSet(Slot) /\ Proving \subseteq Slot
  BY JobsAssumption DEF Proving
<1> QED BY <1>1, FS_Subset, FS_CardinalityType

\* A step of a task into the prover, out of it, and past it.
LEMMA ProvingStep ==
    ASSUME TypeOK, NEW s \in Slot, NEW l \in Location, pc' = [pc EXCEPT ![s] = l]
    PROVE  /\ pc[s] # "proving" /\ l = "proving" =>
                Cardinality(Proving') = Cardinality(Proving) + 1
           /\ pc[s] = "proving" /\ l # "proving" =>
                Cardinality(Proving') = Cardinality(Proving) - 1
           /\ pc[s] # "proving" /\ l # "proving" => Proving' = Proving
<1>1. pc \in [Slot -> Location]
  BY DEF TypeOK
<1>2. CASE pc[s] # "proving" /\ l = "proving"
  <2>1. Proving' = Proving \cup {s} /\ s \notin Proving
    BY <1>1, <1>2 DEF Proving
  <2> QED BY <1>2, <2>1, ProvingFinite, FS_AddElement
<1>3. CASE pc[s] = "proving" /\ l # "proving"
  <2>1. Proving' = Proving \ {s} /\ s \in Proving
    BY <1>1, <1>3 DEF Proving
  <2> QED BY <1>3, <2>1, ProvingFinite, FS_RemoveElement
<1>4. CASE pc[s] # "proving" /\ l # "proving"
  <2>1. Proving' = Proving
    BY <1>1, <1>4 DEF Proving
  <2> QED BY <1>4, <2>1
<1> QED BY <1>2, <1>3, <1>4

\* At the start every permit of proving_slots is free.
LEMMA InitPermits == Init => PermitsConserved
<1> SUFFICES ASSUME Init PROVE PermitsConserved
  OBVIOUS
<1>1. Proving = {}
  BY DEF Init, Proving
<1>2. Cardinality(Proving) = 0
  BY <1>1, FS_EmptySet
<1> QED BY <1>2, JobsAssumption DEF Init, PermitsConserved

\* No step loses or invents a permit: entering the prover takes one, leaving it
\* returns one, and no other step does either.
LEMMA NextPermits == TypeOK /\ PermitsConserved /\ [Next]_vars => PermitsConserved'
<1> SUFFICES ASSUME TypeOK, PermitsConserved, [Next]_vars PROVE PermitsConserved'
  OBVIOUS
<1> USE DEF taskVars, memVars, historyVars, envVars
<1>a. /\ permits \in Nat /\ MaxProofs \in Nat
      /\ permits + Cardinality(Proving) = MaxProofs
      /\ Cardinality(Proving) \in Nat
  BY ProvingFinite, JobsAssumption DEF TypeOK, PermitsConserved
<1>b. ASSUME NEW s \in Slot, NEW l \in Location, pc[s] # "proving", l # "proving",
             pc' = [pc EXCEPT ![s] = l], UNCHANGED permits
      PROVE  PermitsConserved'
  <2>1. Proving' = Proving
    BY <1>b, ProvingStep
  <2> QED BY <1>a, <1>b, <2>1 DEF PermitsConserved
<1>c. ASSUME UNCHANGED <<pc, permits>> PROVE PermitsConserved'
  BY <1>a, <1>c DEF PermitsConserved, Proving
<1>1. ASSUME NEW s \in Slot, NEW r \in Request, Dispatch(s, r) PROVE PermitsConserved'
  BY <1>1, <1>b DEF Dispatch, Goto, Location
<1>2. ASSUME NEW r \in Request, DropEvent(r) PROVE PermitsConserved'
  BY <1>2, <1>c DEF DropEvent
<1>3. ASSUME NEW s \in Slot, CheckCompleted(s) PROVE PermitsConserved'
  BY <1>3, <1>b DEF CheckCompleted, Finish, Goto, Location
<1>4. ASSUME NEW s \in Slot, Claim(s) PROVE PermitsConserved'
  BY <1>4, <1>b DEF Claim, Finish, Goto, Location, Claimed
<1>5. ASSUME NEW s \in Slot, AcquireProver(s) PROVE PermitsConserved'
  <2>1. CASE permits > 0
    <3>1. /\ pc[s] # "proving"
          /\ pc' = [pc EXCEPT ![s] = "proving"]
          /\ permits' = permits - 1
      BY <1>5, <2>1 DEF AcquireProver, Goto
    <3>2. Cardinality(Proving') = Cardinality(Proving) + 1
      BY <3>1, ProvingStep DEF Location, Claimed
    <3> QED BY <1>a, <3>1, <3>2 DEF PermitsConserved
  <2>2. CASE ~(permits > 0)
    BY <1>5, <1>b, <2>2 DEF AcquireProver, Goto, Location, Claimed
  <2> QED BY <2>1, <2>2
<1>6. ASSUME NEW s \in Slot, ProverEnds(s) PROVE PermitsConserved'
  <2>1. PICK l \in {"storing", "sealing"} : pc' = [pc EXCEPT ![s] = l]
    BY <1>6 DEF ProverEnds, Goto
  <2>2. pc[s] = "proving" /\ permits' = permits + 1
    BY <1>6 DEF ProverEnds
  <2>3. Cardinality(Proving') = Cardinality(Proving) - 1
    BY <2>1, <2>2, ProvingStep DEF Location, Claimed
  <2> QED BY <1>a, <2>2, <2>3 DEF PermitsConserved
<1>7. ASSUME NEW s \in Slot, StoreProof(s) PROVE PermitsConserved'
  BY <1>7, <1>b DEF StoreProof, Goto, Location, Claimed
<1>8. ASSUME NEW s \in Slot, SealResult(s) PROVE PermitsConserved'
  BY <1>8, <1>b DEF SealResult, Goto, Location
<1>9. ASSUME NEW s \in Slot, SealFails(s) PROVE PermitsConserved'
  BY <1>9, <1>b DEF SealFails, Finish, Goto, Location
<1>10. ASSUME NEW s \in Slot, Publish(s) PROVE PermitsConserved'
  BY <1>10, <1>b DEF Publish, Finish, Goto, Location
<1>11. CASE Tick
  BY <1>11, <1>c DEF Tick
<1>12. CASE Restart
  <2>1. Proving' = {} /\ permits' = MaxProofs
    BY <1>12 DEF Restart, Proving
  <2>2. Cardinality(Proving') = 0
    BY <2>1, FS_EmptySet
  <2> QED BY <1>a, <2>1, <2>2 DEF PermitsConserved
<1>13. CASE UNCHANGED vars
  BY <1>13, <1>c DEF vars
<1> QED
  BY <1>1, <1>2, <1>3, <1>4, <1>5, <1>6, <1>7, <1>8, <1>9, <1>10, <1>11, <1>12,
     <1>13 DEF Next, TaskStep

\* Permits are neither lost nor multiplied by any path through
\* ProofProcessor::process, so at most max_concurrent_proofs run at once.
THEOREM PermitsAlwaysConserved == Spec => []PermitsConserved
<1>1. Init => PermitsConserved
  BY InitPermits
<1>2. TypeOK /\ PermitsConserved /\ [Next]_vars => PermitsConserved'
  BY NextPermits
<1> QED BY <1>1, <1>2, TypeCorrect, PTL DEF Spec

-----------------------------------------------------------------------------
(* Claims.                                                                 *)

\* A step that touches neither claims nor history, puts no task to work and
\* brings no new result event into the world.
LEMMA QuietStep ==
    ASSUME ClaimInv, UNCHANGED <<claims, forgotten, proofs>>,
           ResultEvents' \subseteq ResultEvents,
           \A t \in Slot : pc'[t] \in Claimed =>
               /\ pc[t] \in Claimed
               /\ req'[t] = req[t]
               /\ pc'[t] = "acquiring" => pc[t] = "acquiring"
    PROVE  ClaimInv'
<1> USE DEF ClaimInv
<1>1. (\A s \in Slot : pc[s] \in Claimed /\ req[s] \notin forgotten => req[s] \in Elements(claims))'
  OBVIOUS
<1>2. (\A s, t \in Slot :
          /\ pc[s] \in Claimed /\ pc[t] \in Claimed
          /\ req[s] = req[t] /\ req[s] \notin forgotten
          => s = t)'
  OBVIOUS
<1>3. (\A s \in Slot : pc[s] = "acquiring" /\ req[s] \notin forgotten => proofs[req[s]] = 0)'
  BY DEF Claimed
<1>4. (\A e \in ResultEvents : e.req \notin forgotten =>
          /\ e.req \in Elements(claims)
          /\ \A s \in Slot : pc[s] \in Claimed => req[s] # e.req)'
  OBVIOUS
<1>5. OneResultUnlessForgotten'
  BY DEF OneResultUnlessForgotten
<1>6. SecondProofOnlyIfForgotten'
  BY DEF SecondProofOnlyIfForgotten
<1> QED BY <1>1, <1>2, <1>3, <1>4, <1>5, <1>6

\* A step of one task leaves the events in other tasks' hands alone.
LEMMA ReplyStep ==
    ASSUME TypeOK, NEW s \in Slot, NEW l, NEW x,
           pc' = [pc EXCEPT ![s] = l],
           reply' = [reply EXCEPT ![s] = x] \/ (reply' = reply /\ x = reply[s])
    PROVE  ResultEvents' \subseteq
               Elements(completed') \cup published' \cup ResultEvents
               \cup (IF l = "publishing" THEN {x} ELSE {})
<1>1. \A t \in Slot : t # s => pc'[t] = pc[t] /\ reply'[t] = reply[t]
  BY DEF TypeOK
<1>2. pc'[s] = l /\ reply'[s] = x
  BY DEF TypeOK
<1> QED BY <1>1, <1>2 DEF ResultEvents

\* Nothing is claimed, proved or answered at the start.
LEMMA InitClaims == Init => ClaimInv
<1> SUFFICES ASSUME Init PROVE ClaimInv
  OBVIOUS
<1>1. \A s \in Slot : pc[s] = "idle"
  BY DEF Init
<1>2. ResultEvents = {}
  BY <1>1 DEF Init, ResultEvents, Elements
<1>3. \A r \in Request : proofs[r] = 0
  BY DEF Init
<1> QED
  BY <1>1, <1>2, <1>3
  DEF ClaimInv, Claimed, SecondProofOnlyIfForgotten, OneResultUnlessForgotten

\* The claim itself: the request was not claimed, so nothing is known of it
\* that is not forgotten.
LEMMA ClaimKeeps ==
    ASSUME TypeOK, ClaimInv, NEW s \in Slot, Claim(s), req[s] \notin Elements(claims)
    PROVE  ClaimInv'
<1> USE DEF taskVars, memVars, historyVars, envVars
<1> DEFINE r == req[s]
<1>1. /\ r \in Request
      /\ pc[s] = "claiming"
      /\ claims' = PushBounded(claims, r)
      /\ forgotten' = forgotten \cup (Elements(claims) \ Elements(claims'))
      /\ pc' = [pc EXCEPT ![s] = "acquiring"]
      /\ UNCHANGED <<req, reply, completed, published, proofs>>
  BY DEF Claim, Goto, TypeOK
<1>2. r \in Elements(claims')
  BY <1>1, PushBoundedFacts DEF TypeOK
<1>3. \A t \in Slot : t # s => pc'[t] = pc[t]
  BY <1>1 DEF TypeOK
<1>4. pc'[s] = "acquiring"
  BY <1>1 DEF TypeOK
<1>5. ResultEvents' \subseteq ResultEvents
  <2>1. Elements(completed') \cup published' \subseteq ResultEvents
    BY <1>1 DEF ResultEvents
  <2>2. reply' = reply /\ reply[s] = reply[s] /\ "acquiring" # "publishing"
    BY <1>1
  <2> QED BY <1>1, <2>1, <2>2, ReplyStep
<1>6. (\A t \in Slot : pc[t] \in Claimed /\ req[t] \notin forgotten => req[t] \in Elements(claims))'
  BY <1>1, <1>2, <1>3 DEF ClaimInv
<1>7. (\A t, u \in Slot :
          /\ pc[t] \in Claimed /\ pc[u] \in Claimed
          /\ req[t] = req[u] /\ req[t] \notin forgotten
          => t = u)'
  BY <1>1, <1>3 DEF ClaimInv
<1>8. proofs[r] = 0 \/ r \in forgotten
  BY <1>1 DEF ClaimInv, TypeOK
<1>9. (\A t \in Slot : pc[t] = "acquiring" /\ req[t] \notin forgotten => proofs[req[t]] = 0)'
  BY <1>1, <1>3, <1>8 DEF ClaimInv
<1>10. (\A x \in Request \ forgotten : proofs[x] > 0 => x \in Elements(claims))'
  BY <1>1 DEF ClaimInv
<1>11. (\A e \in ResultEvents : e.req \notin forgotten =>
          /\ e.req \in Elements(claims)
          /\ \A t \in Slot : pc[t] \in Claimed => req[t] # e.req)'
  BY <1>1, <1>3, <1>5 DEF ClaimInv
<1>12. SecondProofOnlyIfForgotten'
  BY <1>1 DEF ClaimInv, SecondProofOnlyIfForgotten
<1>13. OneResultUnlessForgotten'
  BY <1>1, <1>5 DEF ClaimInv, OneResultUnlessForgotten
<1> QED BY <1>6, <1>7, <1>9, <1>10, <1>11, <1>12, <1>13 DEF ClaimInv

\* The start of a proof: it is the first one of a request not forgotten.
LEMMA AcquireKeeps ==
    ASSUME TypeOK, ClaimInv, NEW s \in Slot, AcquireProver(s), permits > 0
    PROVE  ClaimInv'
<1> USE DEF taskVars, memVars, historyVars, envVars
<1> DEFINE r == req[s]
<1>1. /\ r \in Request
      /\ pc[s] = "acquiring"
      /\ proofs' = [proofs EXCEPT ![r] = proofs[r] + 1]
      /\ pc' = [pc EXCEPT ![s] = "proving"]
      /\ UNCHANGED <<req, reply, completed, published, claims, forgotten>>
  BY DEF AcquireProver, Goto, TypeOK
<1>2. \A t \in Slot : t # s => pc'[t] = pc[t]
  BY <1>1 DEF TypeOK
<1>3. pc'[s] = "proving" /\ pc[s] \in Claimed
  BY <1>1 DEF TypeOK, Claimed
<1>4. ResultEvents' \subseteq ResultEvents
  <2>1. Elements(completed') \cup published' \subseteq ResultEvents
    BY <1>1 DEF ResultEvents
  <2>2. reply' = reply /\ reply[s] = reply[s] /\ "proving" # "publishing"
    BY <1>1
  <2> QED BY <1>1, <2>1, <2>2, ReplyStep
<1>5. proofs'[r] = proofs[r] + 1 /\ \A x \in Request : x # r => proofs'[x] = proofs[x]
  BY <1>1 DEF TypeOK
<1>6. r \in forgotten \/ (proofs[r] = 0 /\ r \in Elements(claims))
  BY <1>1, <1>3 DEF ClaimInv
<1>7. (\A t \in Slot : pc[t] \in Claimed /\ req[t] \notin forgotten => req[t] \in Elements(claims))'
  BY <1>1, <1>2, <1>3 DEF ClaimInv
<1>8. (\A t, u \in Slot :
          /\ pc[t] \in Claimed /\ pc[u] \in Claimed
          /\ req[t] = req[u] /\ req[t] \notin forgotten
          => t = u)'
  BY <1>1, <1>2, <1>3 DEF ClaimInv
<1>9. (\A t \in Slot : pc[t] = "acquiring" /\ req[t] \notin forgotten => proofs[req[t]] = 0)'
  <2> SUFFICES ASSUME NEW t \in Slot, pc'[t] = "acquiring", req[t] \notin forgotten
               PROVE  proofs'[req[t]] = 0
    BY <1>1
  <2>1. t # s /\ pc[t] = "acquiring"
    BY <1>2, <1>3
  <2>2. req[t] # r /\ req[t] \in Request
    BY <1>1, <1>3, <2>1 DEF ClaimInv, Claimed, TypeOK
  <2> QED BY <2>1, <2>2, <1>5 DEF ClaimInv
<1>10. (\A x \in Request \ forgotten : proofs[x] > 0 => x \in Elements(claims))'
  BY <1>1, <1>5, <1>6 DEF ClaimInv
<1>11. (\A e \in ResultEvents : e.req \notin forgotten =>
          /\ e.req \in Elements(claims)
          /\ \A t \in Slot : pc[t] \in Claimed => req[t] # e.req)'
  BY <1>1, <1>2, <1>3, <1>4 DEF ClaimInv
<1>12. SecondProofOnlyIfForgotten'
  BY <1>1, <1>5, <1>6 DEF ClaimInv, SecondProofOnlyIfForgotten
<1>13. OneResultUnlessForgotten'
  BY <1>1, <1>4 DEF ClaimInv, OneResultUnlessForgotten
<1> QED BY <1>7, <1>8, <1>9, <1>10, <1>11, <1>12, <1>13 DEF ClaimInv

\* The signature: the one task that worked on the request stops doing so and
\* its event is the first one.
LEMMA SealKeeps ==
    ASSUME TypeOK, ClaimInv, NEW s \in Slot, SealResult(s)
    PROVE  ClaimInv'
<1> USE DEF taskVars, memVars, historyVars, envVars
<1> DEFINE r == req[s]
           e == [req |-> r, content |-> content[s], created_at |-> now]
<1>1. /\ r \in Request
      /\ pc[s] = "sealing" /\ pc[s] \in Claimed
      /\ reply' = [reply EXCEPT ![s] = e]
      /\ Remember(e)
      /\ pc' = [pc EXCEPT ![s] = "publishing"]
      /\ UNCHANGED <<req, published, claims, proofs, forgotten>>
  BY DEF SealResult, Goto, TypeOK, Claimed
<1>2. e \in ResultEvent /\ e.req = r
  BY <1>1 DEF ResultEvent, TypeOK
<1>3. \A t \in Slot : pc'[t] \in Claimed => t # s /\ pc[t] \in Claimed /\ pc'[t] = pc[t]
  BY <1>1 DEF TypeOK, Claimed
<1>4. ResultEvents' \subseteq ResultEvents \cup {e}
  <2>1. Elements(completed') \subseteq Elements(completed) \cup {e}
    BY <1>1, <1>2, RememberTyped
  <2>2. Elements(completed') \cup published' \subseteq ResultEvents \cup {e}
    BY <1>1, <2>1 DEF ResultEvents
  <2> HIDE DEF e
  <2>3. ResultEvents' \subseteq Elements(completed') \cup published' \cup ResultEvents \cup {e}
    BY <1>1, ReplyStep
  <2> QED BY <2>2, <2>3
<1>5. r \notin forgotten => r \in Elements(claims)
  BY <1>1 DEF ClaimInv
<1>6. r \notin forgotten => \A f \in ResultEvents : f.req # r
  BY <1>1 DEF ClaimInv
<1>7. r \notin forgotten => \A t \in Slot : pc'[t] \in Claimed => req[t] # r
  BY <1>1, <1>3 DEF ClaimInv
<1> HIDE DEF e
<1>8. (\A t \in Slot : pc[t] \in Claimed /\ req[t] \notin forgotten => req[t] \in Elements(claims))'
  BY <1>1, <1>3 DEF ClaimInv
<1>9. (\A t, u \in Slot :
          /\ pc[t] \in Claimed /\ pc[u] \in Claimed
          /\ req[t] = req[u] /\ req[t] \notin forgotten
          => t = u)'
  BY <1>1, <1>3 DEF ClaimInv
<1>10. (\A t \in Slot : pc[t] = "acquiring" /\ req[t] \notin forgotten => proofs[req[t]] = 0)'
  BY <1>1, <1>3 DEF ClaimInv, Claimed
<1>11. (\A f \in ResultEvents : f.req \notin forgotten =>
          /\ f.req \in Elements(claims)
          /\ \A t \in Slot : pc[t] \in Claimed => req[t] # f.req)'
  BY <1>1, <1>2, <1>3, <1>4, <1>5, <1>7 DEF ClaimInv
<1>12. SecondProofOnlyIfForgotten' /\ (\A x \in Request \ forgotten : proofs[x] > 0 => x \in Elements(claims))'
  BY <1>1 DEF ClaimInv, SecondProofOnlyIfForgotten
<1>13. OneResultUnlessForgotten'
  BY <1>1, <1>2, <1>4, <1>6 DEF ClaimInv, OneResultUnlessForgotten
<1> QED BY <1>8, <1>9, <1>10, <1>11, <1>12, <1>13 DEF ClaimInv

\* Every step keeps the claim invariant; a claim, the start of a proof and the
\* signature are the steps that can disturb it, each with a lemma above.
LEMMA NextClaims == TypeOK /\ ClaimInv /\ [Next]_vars => ClaimInv'
<1> SUFFICES ASSUME TypeOK, ClaimInv, [Next]_vars PROVE ClaimInv'
  OBVIOUS
<1> USE DEF taskVars, memVars, historyVars, envVars
\* One task moves without coming to work, and publishes or caches nothing new.
<1>a. ASSUME NEW s \in Slot, NEW l, NEW x, NEW y,
             pc' = [pc EXCEPT ![s] = l],
             l \in Claimed => pc[s] \in Claimed /\ req' = req /\ l # "acquiring",
             req' = req \/ req' = [req EXCEPT ![s] = y],
             reply' = [reply EXCEPT ![s] = x] \/ (reply' = reply /\ x = reply[s]),
             l = "publishing" => x \in ResultEvents,
             published' \subseteq ResultEvents,
             UNCHANGED <<claims, completed, forgotten, proofs>>
      PROVE  ClaimInv'
  <2>1. ResultEvents' \subseteq ResultEvents
    <3>1. Elements(completed') \subseteq ResultEvents
      BY <1>a DEF ResultEvents
    <3>2. ResultEvents' \subseteq Elements(completed') \cup published' \cup ResultEvents
                                  \cup (IF l = "publishing" THEN {x} ELSE {})
      BY <1>a, ReplyStep
    <3> QED BY <1>a, <3>1, <3>2
  <2>2. ASSUME NEW t \in Slot, pc'[t] \in Claimed
        PROVE  /\ pc[t] \in Claimed
               /\ req'[t] = req[t]
               /\ pc'[t] = "acquiring" => pc[t] = "acquiring"
    <3>1. CASE t = s
      BY <1>a, <2>2, <3>1 DEF TypeOK
    <3>2. CASE t # s
      BY <1>a, <2>2, <3>2 DEF TypeOK
    <3> QED BY <3>1, <3>2
  <2> QED BY <1>a, <2>1, <2>2, QuietStep
<1>b. published \subseteq ResultEvents /\ Elements(completed) \subseteq ResultEvents
  BY DEF ResultEvents
<1>c. ASSUME UNCHANGED <<pc, req, reply, claims, completed, published, forgotten, proofs>>
      PROVE  ClaimInv'
  <2>1. ResultEvents' = ResultEvents
    BY <1>c DEF ResultEvents
  <2> QED BY <1>c, <2>1, QuietStep
<1>1. ASSUME NEW s \in Slot, NEW r \in Request, Dispatch(s, r) PROVE ClaimInv'
  <2>1. /\ pc' = [pc EXCEPT ![s] = "received"]
        /\ req' = [req EXCEPT ![s] = r]
        /\ reply' = reply /\ reply[s] = reply[s]
        /\ "received" \notin Claimed /\ "received" # "publishing"
        /\ UNCHANGED <<claims, completed, forgotten, proofs, published>>
    BY <1>1 DEF Dispatch, Goto, Claimed
  <2> QED BY <2>1, <1>a, <1>b
<1>2. ASSUME NEW r \in Request, DropEvent(r) PROVE ClaimInv'
  BY <1>2, <1>c DEF DropEvent
<1>3. ASSUME NEW s \in Slot, CheckCompleted(s) PROVE ClaimInv'
  <2>1. PICK l \in {"idle", "publishing", "claiming"}, x \in ResultEvent \cup {None} :
          /\ pc' = [pc EXCEPT ![s] = l]
          /\ req' = req \/ req' = [req EXCEPT ![s] = None]
          /\ reply' = [reply EXCEPT ![s] = x] \/ (reply' = reply /\ x = reply[s])
          /\ l = "publishing" => x \in Elements(completed)
    BY <1>3, ElementsTyped DEF CheckCompleted, Finish, Goto, TypeOK
  <2>2. l \notin Claimed /\ UNCHANGED <<claims, completed, forgotten, proofs, published>>
    BY <1>3 DEF CheckCompleted, Claimed
  <2> QED BY <2>1, <2>2, <1>a, <1>b
<1>4. ASSUME NEW s \in Slot, Claim(s) PROVE ClaimInv'
  <2>1. CASE req[s] \notin Elements(claims)
    BY <1>4, <2>1, ClaimKeeps
  <2>2. CASE req[s] \in Elements(claims)
    <3>1. /\ pc' = [pc EXCEPT ![s] = "idle"]
          /\ req' = [req EXCEPT ![s] = None]
          /\ reply' = [reply EXCEPT ![s] = None]
          /\ "idle" \notin Claimed /\ "idle" # "publishing"
          /\ UNCHANGED <<claims, completed, forgotten, proofs, published>>
      BY <1>4, <2>2 DEF Claim, Finish, Goto, Claimed
    <3> QED BY <3>1, <1>a, <1>b
  <2> QED BY <2>1, <2>2
<1>5. ASSUME NEW s \in Slot, AcquireProver(s) PROVE ClaimInv'
  <2>1. CASE permits > 0
    BY <1>5, <2>1, AcquireKeeps
  <2>2. CASE ~(permits > 0)
    <3>1. /\ pc' = [pc EXCEPT ![s] = "sealing"] /\ pc[s] \in Claimed
          /\ req' = req
          /\ reply' = reply /\ reply[s] = reply[s]
          /\ "sealing" # "publishing" /\ "sealing" # "acquiring"
          /\ UNCHANGED <<claims, completed, forgotten, proofs, published>>
      BY <1>5, <2>2 DEF AcquireProver, Goto, Claimed
    <3> QED BY <3>1, <1>a, <1>b
  <2> QED BY <2>1, <2>2
<1>6. ASSUME NEW s \in Slot, ProverEnds(s) PROVE ClaimInv'
  <2>1. PICK l \in {"storing", "sealing"} : pc' = [pc EXCEPT ![s] = l]
    BY <1>6 DEF ProverEnds, Goto
  <2>2. /\ pc[s] \in Claimed /\ req' = req /\ reply' = reply /\ reply[s] = reply[s]
        /\ l # "publishing" /\ l # "acquiring"
        /\ UNCHANGED <<claims, completed, forgotten, proofs, published>>
    BY <1>6 DEF ProverEnds, Claimed
  <2> QED BY <2>1, <2>2, <1>a, <1>b
<1>7. ASSUME NEW s \in Slot, StoreProof(s) PROVE ClaimInv'
  <2>1. /\ pc' = [pc EXCEPT ![s] = "sealing"] /\ pc[s] \in Claimed
        /\ req' = req
        /\ reply' = reply /\ reply[s] = reply[s]
        /\ "sealing" # "publishing" /\ "sealing" # "acquiring"
        /\ UNCHANGED <<claims, completed, forgotten, proofs, published>>
    BY <1>7 DEF StoreProof, Goto, Claimed
  <2> QED BY <2>1, <1>a, <1>b
<1>8. ASSUME NEW s \in Slot, SealResult(s) PROVE ClaimInv'
  BY <1>8, SealKeeps
<1>9. ASSUME NEW s \in Slot, SealFails(s) PROVE ClaimInv'
  <2>1. /\ pc' = [pc EXCEPT ![s] = "idle"]
        /\ req' = [req EXCEPT ![s] = None]
        /\ reply' = [reply EXCEPT ![s] = None]
        /\ "idle" \notin Claimed /\ "idle" # "publishing"
        /\ UNCHANGED <<claims, completed, forgotten, proofs, published>>
    BY <1>9 DEF SealFails, Finish, Goto, Claimed
  <2> QED BY <2>1, <1>a, <1>b
<1>10. ASSUME NEW s \in Slot, Publish(s) PROVE ClaimInv'
  <2>1. /\ pc' = [pc EXCEPT ![s] = "idle"]
        /\ req' = [req EXCEPT ![s] = None]
        /\ reply' = [reply EXCEPT ![s] = None]
        /\ "idle" \notin Claimed /\ "idle" # "publishing"
        /\ UNCHANGED <<claims, completed, forgotten, proofs>>
    BY <1>10 DEF Publish, Finish, Goto, Claimed
  <2>2. published' \subseteq ResultEvents
    BY <1>10, <1>b DEF Publish, ResultEvents
  <2> QED BY <2>1, <2>2, <1>a
<1>11. CASE Tick
  BY <1>11, <1>c DEF Tick
<1>12. CASE Restart
  <2>1. /\ \A s \in Slot : pc'[s] = "idle"
        /\ completed' = <<>> /\ published' = published /\ proofs' = proofs
        /\ forgotten' = forgotten \cup Elements(claims)
    BY <1>12 DEF Restart
  <2>2. ResultEvents' \subseteq published
    BY <2>1 DEF ResultEvents, Elements
  <2>3. \A e \in ResultEvents' : e.req \in forgotten'
    BY <2>1, <2>2, <1>b DEF ClaimInv
  <2>4. \A r \in Request : proofs[r] > 0 => r \in forgotten'
    BY <2>1 DEF ClaimInv
  <2>5. SecondProofOnlyIfForgotten'
    BY <2>1 DEF ClaimInv, SecondProofOnlyIfForgotten
  <2>6. OneResultUnlessForgotten'
    BY <2>3 DEF OneResultUnlessForgotten
  <2> QED BY <2>1, <2>3, <2>4, <2>5, <2>6 DEF ClaimInv, Claimed
<1>13. CASE UNCHANGED vars
  BY <1>13, <1>c DEF vars
<1> QED
  BY <1>1, <1>2, <1>3, <1>4, <1>5, <1>6, <1>7, <1>8, <1>9, <1>10, <1>11, <1>12,
     <1>13 DEF Next, TaskStep

\* The claim invariant of handle_event: until its claim is evicted or lost, a
\* request is claimed while it is worked on, by one task at most, with no earlier
\* proof and no earlier result.
THEOREM ClaimsAlwaysHold == Spec => []ClaimInv
<1>1. Init => ClaimInv
  BY InitClaims
<1>2. TypeOK /\ ClaimInv /\ [Next]_vars => ClaimInv'
  BY NextClaims
<1> QED BY <1>1, <1>2, TypeCorrect, PTL DEF Spec

\* A duplicate delivery costs a second proof only after the claim was evicted
\* or lost: the guarantee of RequestDeduplicator, for every interleaving.
THEOREM AtMostOneProof == Spec => []SecondProofOnlyIfForgotten
<1>1. ClaimInv => SecondProofOnlyIfForgotten
  BY DEF ClaimInv
<1> QED BY <1>1, ClaimsAlwaysHold, PTL

\* Until then every result event of a request, in the cache, in a task's hands
\* or on a relay, is the same signed event.
THEOREM AtMostOneResult == Spec => []OneResultUnlessForgotten
<1>1. ClaimInv => OneResultUnlessForgotten
  BY DEF ClaimInv
<1> QED BY <1>1, ClaimsAlwaysHold, PTL

-----------------------------------------------------------------------------
(* Claimed requests stay answerable.                                       *)

\* A step after which every task that was at work still is, and neither the
\* claims nor the cached results have changed.
LEMMA WorkGoesOn ==
    ASSUME ClaimedIsAnswerable,
           UNCHANGED <<claims, completed>>, silenced \subseteq silenced',
           \A t \in Slot : pc[t] \in Claimed => pc'[t] \in Claimed /\ req'[t] = req[t]
    PROVE  ClaimedIsAnswerable'
<1> SUFFICES ASSUME NEW r \in Elements(claims)
             PROVE  InFlight(r)' # {} \/ r \in CompletedRequests' \/ r \in silenced'
  BY DEF ClaimedIsAnswerable
<1>1. CASE InFlight(r) # {}
  BY <1>1 DEF InFlight
<1>2. CASE r \in CompletedRequests \/ r \in silenced
  BY <1>2 DEF CompletedRequests
<1> QED BY <1>1, <1>2 DEF ClaimedIsAnswerable

\* A new claim is worked on by the task that made it.
LEMMA ClaimAnswerable ==
    ASSUME TypeOK, ClaimedIsAnswerable, NEW s \in Slot, Claim(s), req[s] \notin Elements(claims)
    PROVE  ClaimedIsAnswerable'
<1>1. /\ pc' = [pc EXCEPT ![s] = "acquiring"]
      /\ claims' = PushBounded(claims, req[s])
      /\ req[s] \in Request
      /\ UNCHANGED <<req, completed, silenced>>
  BY DEF Claim, Goto, TypeOK
<1>2. Elements(claims') \subseteq Elements(claims) \cup {req[s]}
  BY <1>1, PushBoundedFacts DEF TypeOK
<1>3. \A t \in Slot : pc[t] \in Claimed => pc'[t] \in Claimed
  BY <1>1 DEF TypeOK, Claimed
<1>4. pc'[s] \in Claimed
  BY <1>1 DEF TypeOK, Claimed
<1>5. InFlight(req[s])' # {}
  BY <1>1, <1>4 DEF InFlight
<1>6. \A r \in Elements(claims) : InFlight(r) # {} => InFlight(r)' # {}
  BY <1>1, <1>3 DEF InFlight
<1>7. CompletedRequests' = CompletedRequests
  BY <1>1 DEF CompletedRequests
<1> QED BY <1>1, <1>2, <1>5, <1>6, <1>7 DEF ClaimedIsAnswerable

\* A signed result is cached before the task lets go of the request, and a
\* result that the cache evicts for it leaves its request silenced.
LEMMA SealAnswerable ==
    ASSUME TypeOK, ClaimedIsAnswerable, NEW s \in Slot, SealResult(s)
    PROVE  ClaimedIsAnswerable'
<1> DEFINE e == [req |-> req[s], content |-> content[s], created_at |-> now]
<1>1. /\ pc' = [pc EXCEPT ![s] = "publishing"]
      /\ Remember(e)
      /\ silenced' = silenced \cup (CompletedRequests \ CompletedRequests')
      /\ UNCHANGED <<req, claims>>
  BY DEF SealResult, Goto, CompletedRequests
<1>2. e \in ResultEvent /\ e.req = req[s]
  BY DEF SealResult, TypeOK, ResultEvent
<1>3. req[s] \in CompletedRequests'
  <2> HIDE DEF e
  <2>1. CASE e.req \in CompletedRequests
    BY <1>1, <1>2, <2>1 DEF Remember, CompletedRequests
  <2>2. CASE e.req \notin CompletedRequests
    <3>1. completed' = PushBounded(completed, e)
      BY <1>1, <2>2 DEF Remember
    <3>2. e \in Elements(completed')
      BY <1>2, <3>1, PushBoundedFacts DEF TypeOK
    <3> QED BY <1>2, <3>2 DEF CompletedRequests
  <2> QED BY <2>1, <2>2
<1>4. \A t \in Slot : t # s => pc'[t] = pc[t]
  BY <1>1 DEF TypeOK
<1> SUFFICES ASSUME NEW r \in Elements(claims)
             PROVE  InFlight(r)' # {} \/ r \in CompletedRequests' \/ r \in silenced'
  BY <1>1 DEF ClaimedIsAnswerable
<1>5. CASE r = req[s]
  BY <1>3, <1>5
<1>6. CASE r # req[s] /\ InFlight(r) # {}
  BY <1>1, <1>4, <1>6 DEF InFlight
<1>7. CASE r \in CompletedRequests \/ r \in silenced
  BY <1>1, <1>7
<1> QED BY <1>5, <1>6, <1>7 DEF ClaimedIsAnswerable

\* No step strands a claimed request.
LEMMA NextAnswerable == TypeOK /\ ClaimedIsAnswerable /\ [Next]_vars => ClaimedIsAnswerable'
<1> SUFFICES ASSUME TypeOK, ClaimedIsAnswerable, [Next]_vars PROVE ClaimedIsAnswerable'
  OBVIOUS
<1> USE DEF taskVars, memVars, historyVars, envVars
\* A task that was not at work moves.
<1>a. ASSUME NEW s \in Slot, NEW l, NEW y, pc[s] \notin Claimed,
             pc' = [pc EXCEPT ![s] = l],
             req' = req \/ req' = [req EXCEPT ![s] = y],
             UNCHANGED <<claims, completed, silenced>>
      PROVE  ClaimedIsAnswerable'
  <2>1. \A t \in Slot : pc[t] \in Claimed => pc'[t] \in Claimed /\ req'[t] = req[t]
    BY <1>a DEF TypeOK
  <2> QED BY <1>a, <2>1, WorkGoesOn
\* A task at work moves on with it.
<1>b. ASSUME NEW s \in Slot, NEW l \in Claimed, pc' = [pc EXCEPT ![s] = l],
             UNCHANGED <<req, claims, completed, silenced>>
      PROVE  ClaimedIsAnswerable'
  <2>1. \A t \in Slot : pc[t] \in Claimed => pc'[t] \in Claimed /\ req'[t] = req[t]
    BY <1>b DEF TypeOK
  <2> QED BY <1>b, <2>1, WorkGoesOn
<1>c. ASSUME UNCHANGED <<pc, req, claims, completed, silenced>> PROVE ClaimedIsAnswerable'
  BY <1>c, WorkGoesOn
<1>1. ASSUME NEW s \in Slot, NEW r \in Request, Dispatch(s, r) PROVE ClaimedIsAnswerable'
  BY <1>1, <1>a DEF Dispatch, Goto, Claimed
<1>2. ASSUME NEW r \in Request, DropEvent(r) PROVE ClaimedIsAnswerable'
  BY <1>2, <1>c DEF DropEvent
<1>3. ASSUME NEW s \in Slot, CheckCompleted(s) PROVE ClaimedIsAnswerable'
  BY <1>3, <1>a DEF CheckCompleted, Finish, Goto, Claimed
<1>4. ASSUME NEW s \in Slot, Claim(s) PROVE ClaimedIsAnswerable'
  <2>1. CASE req[s] \notin Elements(claims)
    BY <1>4, <2>1, ClaimAnswerable
  <2>2. CASE req[s] \in Elements(claims)
    BY <1>4, <2>2, <1>a DEF Claim, Finish, Goto, Claimed
  <2> QED BY <2>1, <2>2
<1>5. ASSUME NEW s \in Slot, AcquireProver(s) PROVE ClaimedIsAnswerable'
  BY <1>5, <1>b DEF AcquireProver, Goto, Claimed
<1>6. ASSUME NEW s \in Slot, ProverEnds(s) PROVE ClaimedIsAnswerable'
  BY <1>6, <1>b DEF ProverEnds, Goto, Claimed
<1>7. ASSUME NEW s \in Slot, StoreProof(s) PROVE ClaimedIsAnswerable'
  BY <1>7, <1>b DEF StoreProof, Goto, Claimed
<1>8. ASSUME NEW s \in Slot, SealResult(s) PROVE ClaimedIsAnswerable'
  BY <1>8, SealAnswerable
<1>9. ASSUME NEW s \in Slot, SealFails(s) PROVE ClaimedIsAnswerable'
  <2>1. /\ pc' = [pc EXCEPT ![s] = "idle"]
        /\ req' = [req EXCEPT ![s] = None]
        /\ silenced' = silenced \cup {req[s]}
        /\ UNCHANGED <<claims, completed>>
    BY <1>9 DEF SealFails, Finish, Goto
  <2>2. \A t \in Slot : t # s => pc'[t] = pc[t] /\ req'[t] = req[t]
    BY <2>1 DEF TypeOK
  <2>3. \A r : r # req[s] /\ InFlight(r) # {} => InFlight(r)' # {}
    BY <2>2 DEF InFlight
  <2>4. CompletedRequests' = CompletedRequests
    BY <2>1 DEF CompletedRequests
  <2> QED BY <2>1, <2>3, <2>4 DEF ClaimedIsAnswerable
<1>10. ASSUME NEW s \in Slot, Publish(s) PROVE ClaimedIsAnswerable'
  BY <1>10, <1>a DEF Publish, Finish, Goto, Claimed
<1>11. CASE Tick
  BY <1>11, <1>c DEF Tick
<1>12. CASE Restart
  BY <1>12 DEF Restart, ClaimedIsAnswerable, Elements
<1>13. CASE UNCHANGED vars
  BY <1>13, <1>c DEF vars
<1> QED
  BY <1>1, <1>2, <1>3, <1>4, <1>5, <1>6, <1>7, <1>8, <1>9, <1>10, <1>11, <1>12,
     <1>13 DEF Next, TaskStep

\* A claimed request is being worked on or has a cached result to replay, unless
\* that result was evicted or could not be signed: no interleaving of tasks
\* leaves a claim behind that swallows redeliveries for no reason.
THEOREM ClaimedAlwaysAnswerable == Spec => []ClaimedIsAnswerable
<1>1. Init => ClaimedIsAnswerable
  BY DEF Init, ClaimedIsAnswerable, Elements
<1>2. TypeOK /\ ClaimedIsAnswerable /\ [Next]_vars => ClaimedIsAnswerable'
  BY NextAnswerable
<1> QED BY <1>1, <1>2, TypeCorrect, PTL DEF Spec

-----------------------------------------------------------------------------
(* A published success has its proof.                                      *)

\* What makes it so, from the start of a proof to the relays: a proof that is
\* being stored was made for the request of its task; a success that is being
\* signed is in the store; and so is every success that was signed.
SuccessInv ==
    /\ \A s \in Slot : pc[s] \in {"proving", "storing"} => proofs[req[s]] > 0
    /\ \A s \in Slot : pc[s] = "storing" => content[s].proof = req[s]
    /\ \A s \in Slot :
          pc[s] = "sealing" /\ content[s].code = "success" =>
              content[s].proof = req[s] /\ req[s] \in stored
    /\ \A e \in ResultEvents :
          e.content.code = "success" => e.content.proof = e.req /\ e.req \in stored
    /\ \A r \in stored : proofs[r] > 0

\* A step that signs nothing new, and in which no task comes to prove, store or
\* sign.
LEMMA NoNewSuccess ==
    ASSUME TypeOK, SuccessInv, ResultEvents' \subseteq ResultEvents,
           UNCHANGED <<stored, proofs>>,
           \A t \in Slot : pc'[t] \in {"proving", "storing", "sealing"} =>
               pc'[t] = pc[t] /\ req'[t] = req[t] /\ content'[t] = content[t]
    PROVE  SuccessInv'
BY DEF SuccessInv

\* Every step keeps it.
LEMMA NextSuccess == TypeOK /\ SuccessInv /\ [Next]_vars => SuccessInv'
<1> SUFFICES ASSUME TypeOK, SuccessInv, [Next]_vars PROVE SuccessInv'
  OBVIOUS
<1> USE DEF taskVars, memVars, historyVars, envVars
<1>b. published \subseteq ResultEvents /\ Elements(completed) \subseteq ResultEvents
  BY DEF ResultEvents
\* A task moves to a place where it has no proof in hand.
<1>a. ASSUME NEW s \in Slot, NEW l, NEW x, NEW y, NEW z,
             l \notin {"proving", "storing", "sealing"},
             pc' = [pc EXCEPT ![s] = l],
             req' = req \/ req' = [req EXCEPT ![s] = y],
             content' = content \/ content' = [content EXCEPT ![s] = z],
             reply' = [reply EXCEPT ![s] = x] \/ (reply' = reply /\ x = reply[s]),
             l = "publishing" => x \in ResultEvents,
             published' \subseteq ResultEvents,
             UNCHANGED <<completed, stored, proofs>>
      PROVE  SuccessInv'
  <2>1. ResultEvents' \subseteq ResultEvents
    <3>1. Elements(completed') \subseteq ResultEvents
      BY <1>a DEF ResultEvents
    <3>2. ResultEvents' \subseteq Elements(completed') \cup published' \cup ResultEvents
                                  \cup (IF l = "publishing" THEN {x} ELSE {})
      BY <1>a, ReplyStep
    <3> QED BY <1>a, <3>1, <3>2
  <2>2. \A t \in Slot : pc'[t] \in {"proving", "storing", "sealing"} =>
            pc'[t] = pc[t] /\ req'[t] = req[t] /\ content'[t] = content[t]
    BY <1>a DEF TypeOK
  <2> QED BY <1>a, <2>1, <2>2, NoNewSuccess
\* A task moves with what it has in hand; the caches and relays do not change.
<1>d. ASSUME NEW s \in Slot, NEW l, NEW z, l # "publishing",
             pc' = [pc EXCEPT ![s] = l], content' = [content EXCEPT ![s] = z],
             UNCHANGED <<req, reply, completed, published, proofs>>,
             stored \subseteq stored',
             l \in {"proving", "storing"} => proofs[req[s]] > 0,
             l = "storing" => z.proof = req[s],
             l = "sealing" /\ z.code = "success" => z.proof = req[s] /\ req[s] \in stored',
             \A r \in stored' : proofs[r] > 0
      PROVE  SuccessInv'
  <2>1. ResultEvents' \subseteq ResultEvents
    <3>1. ResultEvents' \subseteq Elements(completed') \cup published' \cup ResultEvents
      BY <1>d, ReplyStep
    <3> QED BY <1>b, <1>d, <3>1
  <2>2. \A t \in Slot : t # s => pc'[t] = pc[t] /\ content'[t] = content[t]
    BY <1>d DEF TypeOK
  <2>3. pc'[s] = l /\ content'[s] = z
    BY <1>d DEF TypeOK
  <2> QED BY <1>d, <2>1, <2>2, <2>3 DEF SuccessInv
<1>c. ASSUME UNCHANGED <<pc, req, content, reply, completed, published, stored, proofs>>
      PROVE  SuccessInv'
  <2>1. ResultEvents' = ResultEvents
    BY <1>c DEF ResultEvents
  <2> QED BY <1>c, <2>1, NoNewSuccess
<1>1. ASSUME NEW s \in Slot, NEW r \in Request, Dispatch(s, r) PROVE SuccessInv'
  <2>1. /\ pc' = [pc EXCEPT ![s] = "received"]
        /\ req' = [req EXCEPT ![s] = r]
        /\ UNCHANGED <<content, reply, completed, stored, proofs, published>>
    BY <1>1 DEF Dispatch, Goto
  <2> QED BY <2>1, <1>a, <1>b
<1>2. ASSUME NEW r \in Request, DropEvent(r) PROVE SuccessInv'
  BY <1>2, <1>c DEF DropEvent
<1>3. ASSUME NEW s \in Slot, CheckCompleted(s) PROVE SuccessInv'
  <2>1. PICK l \in {"idle", "publishing", "claiming"}, x \in ResultEvent \cup {None} :
          /\ pc' = [pc EXCEPT ![s] = l]
          /\ req' = req \/ req' = [req EXCEPT ![s] = None]
          /\ content' = content \/ content' = [content EXCEPT ![s] = None]
          /\ reply' = [reply EXCEPT ![s] = x] \/ (reply' = reply /\ x = reply[s])
          /\ l = "publishing" => x \in Elements(completed)
    BY <1>3, ElementsTyped DEF CheckCompleted, Finish, Goto, TypeOK
  <2>2. UNCHANGED <<completed, stored, proofs, published>>
    BY <1>3 DEF CheckCompleted
  <2> QED BY <2>1, <2>2, <1>a, <1>b
<1>4. ASSUME NEW s \in Slot, Claim(s) PROVE SuccessInv'
  <2>1. PICK l \in {"idle", "acquiring"}, x \in ResultEvent \cup {None} :
          /\ pc' = [pc EXCEPT ![s] = l]
          /\ req' = req \/ req' = [req EXCEPT ![s] = None]
          /\ content' = content \/ content' = [content EXCEPT ![s] = None]
          /\ reply' = [reply EXCEPT ![s] = x] \/ (reply' = reply /\ x = reply[s])
    BY <1>4 DEF Claim, Finish, Goto, TypeOK
  <2>2. UNCHANGED <<completed, stored, proofs, published>>
    BY <1>4 DEF Claim
  <2> QED BY <2>1, <2>2, <1>a, <1>b
<1>5. ASSUME NEW s \in Slot, AcquireProver(s) PROVE SuccessInv'
  <2>1. CASE permits > 0
    <3>1. /\ pc' = [pc EXCEPT ![s] = "proving"]
          /\ proofs' = [proofs EXCEPT ![req[s]] = proofs[req[s]] + 1]
          /\ req[s] \in Request
          /\ UNCHANGED <<req, content, reply, completed, published, stored>>
      BY <1>5, <2>1 DEF AcquireProver, Goto, TypeOK
    <3>2. \A r \in Request : proofs[r] \in Nat /\ proofs'[r] >= proofs[r]
      BY <3>1 DEF TypeOK
    <3>3. proofs'[req[s]] > 0
      BY <3>1 DEF TypeOK
    <3>4. ResultEvents' \subseteq ResultEvents
      <4>1. ResultEvents' \subseteq Elements(completed') \cup published' \cup ResultEvents
        BY <3>1, ReplyStep
      <4> QED BY <1>b, <3>1, <4>1
    <3>5. \A t \in Slot : t # s => pc'[t] = pc[t]
      BY <3>1 DEF TypeOK
    <3>6. pc'[s] = "proving"
      BY <3>1 DEF TypeOK
    <3>7. (\A t \in Slot : pc[t] \in {"proving", "storing"} => proofs[req[t]] > 0)'
      <4> SUFFICES ASSUME NEW t \in Slot, pc'[t] \in {"proving", "storing"}
                   PROVE  proofs'[req[t]] > 0
        BY <3>1
      <4>1. CASE t = s
        BY <3>3, <4>1
      <4>2. CASE t # s
        <5>1. req[t] \in Request /\ proofs[req[t]] > 0
          BY <3>5, <4>2 DEF TypeOK, SuccessInv
        <5> QED BY <3>2, <5>1, <3>1 DEF TypeOK
      <4> QED BY <4>1, <4>2
    <3>8. (\A r \in stored : proofs[r] > 0)'
      <4> SUFFICES ASSUME NEW r \in stored PROVE proofs'[r] > 0
        BY <3>1
      <4>1. r \in Request /\ proofs[r] > 0
        BY DEF TypeOK, SuccessInv
      <4> QED BY <3>1, <3>2, <4>1 DEF TypeOK
    <3> QED BY <3>1, <3>4, <3>5, <3>6, <3>7, <3>8 DEF SuccessInv
  <2>2. CASE ~(permits > 0)
    <3>1. /\ pc' = [pc EXCEPT ![s] = "sealing"]
          /\ content' = [content EXCEPT ![s] = Failure("busy")]
          /\ UNCHANGED <<req, reply, completed, published, stored, proofs>>
      BY <1>5, <2>2 DEF AcquireProver, Goto
    <3>2. Failure("busy").code # "success" /\ \A r \in stored : proofs[r] > 0
      BY DEF Failure, SuccessInv
    <3> QED BY <3>1, <3>2, <1>d
  <2> QED BY <2>1, <2>2
<1>6. ASSUME NEW s \in Slot, ProverEnds(s) PROVE SuccessInv'
  <2>1. PICK l \in {"storing", "sealing"}, z \in Content :
          /\ pc' = [pc EXCEPT ![s] = l]
          /\ content' = [content EXCEPT ![s] = z]
          /\ l = "storing" => z.proof = req[s]
          /\ l = "sealing" => z.code # "success"
    BY <1>6, SuccessTyped, FailureTyped
    DEF ProverEnds, Goto, StatementMatchesRequest, Failure
  <2>2. /\ UNCHANGED <<req, reply, completed, published, stored, proofs>>
        /\ proofs[req[s]] > 0
        /\ \A r \in stored : proofs[r] > 0
    BY <1>6 DEF ProverEnds, SuccessInv
  <2> QED BY <2>1, <2>2, <1>d
<1>7. ASSUME NEW s \in Slot, StoreProof(s) PROVE SuccessInv'
  <2>1. content[s].proof = req[s] /\ proofs[req[s]] > 0
    BY <1>7 DEF StoreProof, SuccessInv
  <2>2. PICK z \in Content :
          /\ content' = [content EXCEPT ![s] = z]
          /\ z.code = "success" => z = content[s] /\ req[s] \in stored'
    <3>1. content' = content => content' = [content EXCEPT ![s] = content[s]]
      BY DEF TypeOK
    <3>2. content[s] \in Content
      BY <1>7 DEF StoreProof, TypeOK
    <3> QED BY <1>7, <2>1, <3>1, <3>2, FailureTyped DEF StoreProof, Failure
  <2>3. /\ pc' = [pc EXCEPT ![s] = "sealing"]
        /\ stored' \subseteq stored \cup {req[s]} /\ stored \subseteq stored'
        /\ UNCHANGED <<req, reply, completed, published, proofs>>
    BY <1>7, <2>1 DEF StoreProof, Goto
  <2>4. \A r \in stored' : proofs[r] > 0
    BY <2>1, <2>3 DEF SuccessInv
  <2> QED BY <2>1, <2>2, <2>3, <2>4, <1>d
<1>8. ASSUME NEW s \in Slot, SealResult(s) PROVE SuccessInv'
  <2> DEFINE e == [req |-> req[s], content |-> content[s], created_at |-> now]
  <2>1. /\ pc' = [pc EXCEPT ![s] = "publishing"]
        /\ reply' = [reply EXCEPT ![s] = e]
        /\ Remember(e)
        /\ UNCHANGED <<req, content, published, stored, proofs>>
    BY <1>8 DEF SealResult, Goto
  <2>2. /\ e \in ResultEvent
        /\ e.content.code = "success" => e.content.proof = e.req /\ e.req \in stored
    BY <1>8 DEF SealResult, TypeOK, ResultEvent, SuccessInv
  <2> HIDE DEF e
  <2>3. ResultEvents' \subseteq ResultEvents \cup {e}
    <3>1. Elements(completed') \subseteq Elements(completed) \cup {e}
      BY <2>1, <2>2, RememberTyped
    <3>2. ResultEvents' \subseteq Elements(completed') \cup published' \cup ResultEvents \cup {e}
      BY <2>1, ReplyStep
    <3> QED BY <1>b, <2>1, <3>1, <3>2
  <2>4. \A t \in Slot : pc'[t] \in {"proving", "storing", "sealing"} => pc'[t] = pc[t]
    BY <2>1 DEF TypeOK
  <2> QED BY <2>1, <2>2, <2>3, <2>4 DEF SuccessInv
<1>9. ASSUME NEW s \in Slot, SealFails(s) PROVE SuccessInv'
  <2>1. /\ pc' = [pc EXCEPT ![s] = "idle"]
        /\ req' = [req EXCEPT ![s] = None]
        /\ content' = [content EXCEPT ![s] = None]
        /\ reply' = [reply EXCEPT ![s] = None]
        /\ UNCHANGED <<completed, stored, proofs, published>>
    BY <1>9 DEF SealFails, Finish, Goto
  <2> QED BY <2>1, <1>a, <1>b
<1>10. ASSUME NEW s \in Slot, Publish(s) PROVE SuccessInv'
  <2>1. /\ pc' = [pc EXCEPT ![s] = "idle"]
        /\ req' = [req EXCEPT ![s] = None]
        /\ content' = [content EXCEPT ![s] = None]
        /\ reply' = [reply EXCEPT ![s] = None]
        /\ UNCHANGED <<completed, stored, proofs>>
    BY <1>10 DEF Publish, Finish, Goto
  <2>2. published' \subseteq ResultEvents
    BY <1>10, <1>b DEF Publish, ResultEvents
  <2> QED BY <2>1, <2>2, <1>a
<1>11. CASE Tick
  BY <1>11, <1>c DEF Tick
<1>12. CASE Restart
  <2>1. /\ \A s \in Slot : pc'[s] = "idle"
        /\ completed' = <<>> /\ UNCHANGED <<published, stored, proofs>>
    BY <1>12 DEF Restart
  <2>2. ResultEvents' \subseteq ResultEvents
    BY <2>1 DEF ResultEvents, Elements
  <2> QED BY <2>1, <2>2 DEF SuccessInv
<1>13. CASE UNCHANGED vars
  BY <1>13, <1>c DEF vars
<1> QED
  BY <1>1, <1>2, <1>3, <1>4, <1>5, <1>6, <1>7, <1>8, <1>9, <1>10, <1>11, <1>12,
     <1>13 DEF Next, TaskStep

\* From the prover to the relays, a success keeps naming a stored proof of its own
\* request.
THEOREM SuccessAlwaysHolds == Spec => []SuccessInv
<1>1. Init => SuccessInv
  <2> SUFFICES ASSUME Init PROVE SuccessInv
    OBVIOUS
  <2>1. (\A s \in Slot : pc[s] = "idle") /\ stored = {}
    BY DEF Init
  <2>2. ResultEvents = {}
    BY <2>1 DEF Init, ResultEvents, Elements
  <2> QED BY <2>1, <2>2 DEF SuccessInv
<1>2. TypeOK /\ SuccessInv /\ [Next]_vars => SuccessInv'
  BY NextSuccess
<1> QED BY <1>1, <1>2, TypeCorrect, PTL DEF Spec

\* A relay never holds a success whose proof is not in the artifact store or
\* binds another request, after any number of restarts and replays.
THEOREM PublishedAlwaysStored == Spec => []PublishedSuccessIsStored
<1>1. SuccessInv => PublishedSuccessIsStored
  BY DEF SuccessInv, PublishedSuccessIsStored, ResultEvents
<1> QED BY <1>1, SuccessAlwaysHolds, PTL

-----------------------------------------------------------------------------
(* The cache of results.                                                   *)

\* One event at most is cached for a request.
OneCachedResult == \A e, f \in Elements(completed) : e.req = f.req => e = f

\* CompletedResults::insert adds an event only for a request that has none.
LEMMA RememberOnce ==
    ASSUME TypeOK, OneCachedResult, NEW x \in ResultEvent, Remember(x)
    PROVE  /\ OneCachedResult'
           /\ \A e \in Elements(completed), f \in Elements(completed') : e.req = f.req => e = f
<1>1. CASE x.req \in CompletedRequests
  BY <1>1 DEF Remember, OneCachedResult
<1>2. CASE x.req \notin CompletedRequests
  <2>1. Elements(completed') \subseteq Elements(completed) \cup {x}
    BY RememberTyped
  <2>2. \A e \in Elements(completed) : e.req # x.req
    BY <1>2 DEF CompletedRequests
  <2> QED BY <2>1, <2>2 DEF OneCachedResult
<1> QED BY <1>1, <1>2

\* Only the signature of a result and a restart touch the cache.
LEMMA CacheStep ==
    ASSUME TypeOK, [Next]_vars
    PROVE  \/ UNCHANGED completed
           \/ completed' = <<>>
           \/ \E x \in ResultEvent : Remember(x)
<1> USE DEF taskVars, memVars, historyVars, envVars
<1>1. ASSUME NEW s \in Slot, SealResult(s) PROVE \E x \in ResultEvent : Remember(x)
  <2> DEFINE x == [req |-> req[s], content |-> content[s], created_at |-> now]
  <2>1. x \in ResultEvent /\ Remember(x)
    BY <1>1 DEF SealResult, TypeOK, ResultEvent
  <2> QED BY <2>1
<1>2. ASSUME NEW s \in Slot, TaskStep(s), ~SealResult(s) PROVE UNCHANGED completed
  BY <1>2 DEF TaskStep, CheckCompleted, Claim, AcquireProver, ProverEnds, StoreProof,
              SealFails, Publish
<1> QED BY <1>1, <1>2 DEF Next, Dispatch, DropEvent, Tick, Restart, vars

\* CompletedResults never holds two events of one request.
LEMMA CacheAlwaysOne == Spec => []OneCachedResult
<1>1. Init => OneCachedResult
  BY DEF Init, OneCachedResult, Elements
<1>2. TypeOK /\ OneCachedResult /\ [Next]_vars => OneCachedResult'
  <2> SUFFICES ASSUME TypeOK, OneCachedResult, [Next]_vars PROVE OneCachedResult'
    OBVIOUS
  <2>1. CASE UNCHANGED completed
    BY <2>1 DEF OneCachedResult
  <2>2. CASE completed' = <<>>
    BY <2>2 DEF OneCachedResult, Elements
  <2> QED BY <2>1, <2>2, CacheStep, RememberOnce
<1> QED BY <1>1, <1>2, TypeCorrect, PTL DEF Spec

\* Whatever is cached for a request stays what it is until it is evicted or the
\* process ends: a replay is always the event that was sent first.
THEOREM CacheNeverReplaces == Spec => CachedResultImmutable
<1>1. TypeOK /\ OneCachedResult /\ [Next]_vars =>
          [\A e \in Elements(completed), f \in Elements(completed') :
               e.req = f.req => e = f]_vars
  <2> SUFFICES ASSUME TypeOK, OneCachedResult, [Next]_vars
               PROVE  \A e \in Elements(completed), f \in Elements(completed') :
                          e.req = f.req => e = f
    OBVIOUS
  <2>1. CASE UNCHANGED completed
    BY <2>1 DEF OneCachedResult
  <2>2. CASE completed' = <<>>
    BY <2>2 DEF Elements
  <2> QED BY <2>1, <2>2, CacheStep, RememberOnce
<1> QED BY <1>1, TypeCorrect, CacheAlwaysOne, PTL DEF Spec, CachedResultImmutable

-----------------------------------------------------------------------------
(* The promise of the provider.                                            *)

\* A task that moves without taking up or ending work on its request leaves the
\* set of requests in work as it is.
LEMMA WorkContinues ==
    ASSUME TypeOK, NEW s \in Slot, NEW l, NEW y,
           pc' = [pc EXCEPT ![s] = l], pc[s] \in Claimed <=> l \in Claimed,
           req' = req \/ (l \notin Claimed /\ req' = [req EXCEPT ![s] = y])
    PROVE  Working' = Working
<1>1. \A t \in Slot : pc'[t] \in Claimed <=> pc[t] \in Claimed
  BY DEF TypeOK
<1>2. \A t \in Slot : pc'[t] \in Claimed => req'[t] = req[t]
  BY DEF TypeOK
<1>3. \A t \in Slot : pc[t] \in Claimed => req'[t] = req[t]
  BY <1>1, <1>2
<1> QED BY <1>1, <1>2, <1>3 DEF Working

\* A task that does not come to publish or cease to do so leaves the result
\* events as they are.
LEMMA EventsStay ==
    ASSUME TypeOK, NEW s \in Slot, NEW l, NEW x,
           pc' = [pc EXCEPT ![s] = l], pc[s] # "publishing", l # "publishing",
           reply' = reply \/ reply' = [reply EXCEPT ![s] = x],
           UNCHANGED <<completed, published>>
    PROVE  ResultEvents' = ResultEvents
<1>1. \A t \in Slot : t # s => pc'[t] = pc[t] /\ reply'[t] = reply[t]
  BY DEF TypeOK
<1>2. pc'[s] = l
  BY DEF TypeOK
<1>3. \A t \in Slot : pc'[t] = "publishing" <=> pc[t] = "publishing"
  BY <1>1, <1>2
<1>4. \A t \in Slot : pc[t] = "publishing" => reply'[t] = reply[t]
  BY <1>1
<1> QED BY <1>3, <1>4 DEF ResultEvents

\* A task that ends its work ends the work on its request, unless the claim of
\* the request was forgotten and a second task works on it.
LEMMA WorkEnds ==
    ASSUME TypeOK, ClaimInv, NEW s \in Slot, NEW l, NEW y,
           pc[s] \in Claimed, l \notin Claimed,
           pc' = [pc EXCEPT ![s] = l], req' = req \/ req' = [req EXCEPT ![s] = y]
    PROVE  /\ req[s] \in Working
           /\ \/ Working' = Working \ {req[s]}
              \/ req[s] \in forgotten /\ UNCHANGED Working
<1>1. \A t \in Slot : t # s => pc'[t] = pc[t] /\ req'[t] = req[t]
  BY DEF TypeOK
<1>2. pc'[s] \notin Claimed
  BY DEF TypeOK
<1>3. req[s] \in Working
  BY DEF Working
<1>4. CASE \E t \in Slot : t # s /\ pc[t] \in Claimed /\ req[t] = req[s]
  <2>1. req[s] \in forgotten
    BY <1>4 DEF ClaimInv
  <2>2. Working' = Working
    BY <1>1, <1>2, <1>4 DEF Working
  <2> QED BY <1>3, <2>1, <2>2
<1>5. CASE \A t \in Slot : t # s /\ pc[t] \in Claimed => req[t] # req[s]
  <2>1. Working' = Working \ {req[s]}
    BY <1>1, <1>2, <1>5 DEF Working
  <2> QED BY <1>3, <2>1
<1> QED BY <1>4, <1>5

\* A task that moves on, with nothing stored, signed or sent.
LEMMA QuietPromise ==
    ASSUME UNCHANGED <<claims, forgotten, stored, published>>,
           Working' = Working, ResultEvents' = ResultEvents
    PROVE  UNCHANGED Promised!vars
BY DEF Promised!vars

\* RequestDeduplicator::claim takes up a request that is not yet taken up.
LEMMA ClaimBegins ==
    ASSUME TypeOK, NEW s \in Slot, Claim(s)
    PROVE  [Promised!Next]_(Promised!vars)
<1> USE DEF taskVars, memVars, historyVars, envVars
<1>1. CASE req[s] \in Elements(claims)
  <2>1. /\ pc[s] = "claiming"
        /\ pc' = [pc EXCEPT ![s] = "idle"]
        /\ req' = [req EXCEPT ![s] = None]
        /\ reply' = [reply EXCEPT ![s] = None]
        /\ UNCHANGED <<claims, forgotten, stored, completed, published>>
    BY <1>1 DEF Claim, Finish, Goto
  <2>2. Working' = Working
    BY <2>1, WorkContinues DEF Claimed
  <2>3. ResultEvents' = ResultEvents
    BY <2>1, EventsStay
  <2> QED BY <2>1, <2>2, <2>3, QuietPromise
<1>2. CASE req[s] \notin Elements(claims)
  <2> DEFINE r == req[s]
  <2>1. /\ r \in Request
        /\ pc[s] = "claiming"
        /\ claims' = PushBounded(claims, r)
        /\ forgotten' = forgotten \cup (Elements(claims) \ Elements(claims'))
        /\ pc' = [pc EXCEPT ![s] = "acquiring"]
        /\ UNCHANGED <<req, reply, stored, completed, published>>
    BY <1>2 DEF Claim, Goto, TypeOK
  <2>2. r \in Elements(claims') /\ Elements(claims') \subseteq Elements(claims) \cup {r}
    BY <2>1, PushBoundedFacts DEF TypeOK
  <2>3. Working' = Working \cup {r}
    <3>1. \A t \in Slot : t # s => pc'[t] = pc[t]
      BY <2>1 DEF TypeOK
    <3>2. pc'[s] \in Claimed /\ pc[s] \notin Claimed
      BY <2>1 DEF TypeOK, Claimed
    <3> QED BY <2>1, <3>1, <3>2 DEF Working
  <2>4. ResultEvents' = ResultEvents
    BY <2>1, EventsStay
  <2>5. (Elements(claims) \cup forgotten)' = Elements(claims) \cup forgotten \cup {r}
    BY <2>1, <2>2
  <2>6. Promised!Begin(r)
    BY <1>2, <2>1, <2>3, <2>4, <2>5 DEF Promised!Begin
  <2>7. r \in Working'
    BY <2>3
  <2> QED BY <2>6, <2>7 DEF Promised!Next
<1> QED BY <1>1, <1>2

\* ProofArtifactStore::put stores the proof of a request in work, or nothing.
LEMMA StoreStores ==
    ASSUME TypeOK, SuccessInv, NEW s \in Slot, StoreProof(s)
    PROVE  [Promised!Next]_(Promised!vars)
<1> USE DEF taskVars, memVars, historyVars, envVars
<1>1. /\ pc[s] = "storing"
      /\ pc' = [pc EXCEPT ![s] = "sealing"]
      /\ stored' = stored \cup {content[s].proof} \/ stored' = stored
      /\ UNCHANGED <<req, reply, claims, forgotten, completed, published>>
  BY DEF StoreProof, Goto
<1>2. Working' = Working
  BY <1>1, WorkContinues DEF Claimed
<1>3. ResultEvents' = ResultEvents
  BY <1>1, EventsStay
<1>4. content[s].proof = req[s]
  BY <1>1 DEF SuccessInv
<1>5. req[s] \in Working
  BY <1>1 DEF Working, Claimed
<1>6. CASE stored' = stored
  BY <1>1, <1>2, <1>3, <1>6, QuietPromise
<1>7. CASE stored' = stored \cup {content[s].proof}
  <2>1. Promised!Store(req[s])
    BY <1>1, <1>2, <1>3, <1>4, <1>5, <1>7 DEF Promised!Store
  <2> QED BY <1>5, <2>1 DEF Promised!Next
<1> QED BY <1>1, <1>6, <1>7

\* The tail of handle_event settles the request with one signed event, which is
\* a success only over a stored proof.
LEMMA SealSigns ==
    ASSUME TypeOK, ClaimInv, SuccessInv, NEW s \in Slot, SealResult(s)
    PROVE  Promised!Next
<1> USE DEF taskVars, memVars, historyVars, envVars
<1> DEFINE e == [req |-> req[s], content |-> content[s], created_at |-> now]
<1>1. /\ pc[s] = "sealing"
      /\ pc' = [pc EXCEPT ![s] = "publishing"]
      /\ reply' = [reply EXCEPT ![s] = e]
      /\ Remember(e)
      /\ UNCHANGED <<req, claims, forgotten, stored, published>>
  BY DEF SealResult, Goto
<1>2. /\ e \in ResultEvent /\ e.req = req[s]
      /\ e.content.code = "success" => e.content.proof = e.req /\ e.req \in stored
  BY <1>1 DEF TypeOK, ResultEvent, SuccessInv
<1> HIDE DEF e
<1>3. ResultEvents' \subseteq ResultEvents \cup {e}
  <2>1. Elements(completed') \subseteq Elements(completed) \cup {e}
    BY <1>1, <1>2, RememberTyped
  <2>2. ResultEvents' \subseteq Elements(completed') \cup published' \cup ResultEvents \cup {e}
    BY <1>1, ReplyStep
  <2> QED BY <1>1, <2>1, <2>2 DEF ResultEvents
<1>4. published \cup {e} \subseteq ResultEvents'
  <2>1. pc'[s] = "publishing" /\ reply'[s] = e
    BY <1>1 DEF TypeOK
  <2> QED BY <1>1, <2>1 DEF ResultEvents
<1>5. /\ req[s] \in Working
      /\ Working' = Working \ {req[s]} \/ (req[s] \in forgotten /\ UNCHANGED Working)
  BY <1>1, WorkEnds DEF Claimed
<1>6. Promised!Settle(e.req)
  BY <1>1, <1>2, <1>5 DEF Promised!Settle
<1>7. Promised!Sign(e)
  BY <1>2, <1>3, <1>4, <1>6 DEF Promised!Sign
<1> QED BY <1>4, <1>7 DEF Promised!Next

\* The same tail gives the request up when it cannot encode or sign.
LEMMA SealGivesUp ==
    ASSUME TypeOK, ClaimInv, NEW s \in Slot, SealFails(s)
    PROVE  Promised!Next
<1> USE DEF taskVars, memVars, historyVars, envVars
<1>1. /\ pc[s] = "sealing"
      /\ pc' = [pc EXCEPT ![s] = "idle"]
      /\ req' = [req EXCEPT ![s] = None]
      /\ reply' = [reply EXCEPT ![s] = None]
      /\ UNCHANGED <<claims, forgotten, stored, completed, published>>
  BY DEF SealFails, Finish, Goto
<1>2. ResultEvents' = ResultEvents
  BY <1>1, EventsStay
<1>3. /\ req[s] \in Working
      /\ Working' = Working \ {req[s]} \/ (req[s] \in forgotten /\ UNCHANGED Working)
  <2>1. pc[s] \in Claimed /\ "idle" \notin Claimed
    BY <1>1 DEF Claimed
  <2> QED BY <1>1, <2>1, WorkEnds
<1>4. Promised!GiveUp(req[s])
  BY <1>1, <1>2, <1>3 DEF Promised!GiveUp, Promised!Settle
<1> QED BY <1>3, <1>4 DEF Promised!Next

\* send_event sends an event that was signed, now or for an earlier delivery.
LEMMA PublishSends ==
    ASSUME TypeOK, NEW s \in Slot, Publish(s)
    PROVE  Promised!Next
<1> USE DEF taskVars, memVars, historyVars, envVars
<1>1. /\ pc[s] = "publishing"
      /\ pc' = [pc EXCEPT ![s] = "idle"]
      /\ req' = [req EXCEPT ![s] = None]
      /\ reply' = [reply EXCEPT ![s] = None]
      /\ published' \in {published, published \cup {reply[s]}}
      /\ UNCHANGED <<claims, forgotten, stored, completed>>
  BY DEF Publish, Finish, Goto
<1>2. reply[s] \in ResultEvents
  BY <1>1 DEF ResultEvents
<1>3. Working' = Working
  BY <1>1, WorkContinues DEF Claimed
<1>4. ResultEvents' \subseteq ResultEvents
  <2>1. ResultEvents' \subseteq Elements(completed') \cup published' \cup ResultEvents
    BY <1>1, ReplyStep
  <2> QED BY <1>1, <1>2, <2>1 DEF ResultEvents
<1>5. published' \subseteq ResultEvents'
  BY DEF ResultEvents
<1>6. Promised!Send(reply[s])
  BY <1>1, <1>3, <1>4, <1>5 DEF Promised!Send
<1> QED BY <1>2, <1>6 DEF Promised!Next

\* A replay hands out an event that is cached already; an event that is not
\* accepted, and one that is new, change nothing yet.
LEMMA CheckIsQuiet ==
    ASSUME TypeOK, NEW s \in Slot, CheckCompleted(s)
    PROVE  UNCHANGED Promised!vars
<1> USE DEF taskVars, memVars, historyVars, envVars
<1>1. pc[s] = "received" /\ UNCHANGED <<claims, forgotten, stored, completed, published>>
  BY DEF CheckCompleted
<1>2. PICK l \in {"idle", "publishing", "claiming"} : pc' = [pc EXCEPT ![s] = l]
  BY DEF CheckCompleted, Finish, Goto
<1>3. req' = req \/ req' = [req EXCEPT ![s] = None]
  BY DEF CheckCompleted, Finish
<1>4. Working' = Working
  BY <1>1, <1>2, <1>3, WorkContinues DEF Claimed
<1>5. CASE l # "publishing"
  <2>1. reply' = reply \/ reply' = [reply EXCEPT ![s] = None]
    BY <1>2, <1>5 DEF CheckCompleted, Finish, Goto, TypeOK
  <2>2. ResultEvents' = ResultEvents
    BY <1>1, <1>2, <1>5, <2>1, EventsStay
  <2> QED BY <1>1, <1>4, <2>2, QuietPromise
<1>6. CASE l = "publishing"
  <2>1. PICK e \in Elements(completed) : reply' = [reply EXCEPT ![s] = e]
    BY <1>2, <1>6 DEF CheckCompleted, Finish, Goto, TypeOK
  <2>2. \A t \in Slot : t # s => pc'[t] = pc[t] /\ reply'[t] = reply[t]
    BY <1>2, <2>1 DEF TypeOK
  <2>3. pc'[s] = "publishing" /\ reply'[s] = e
    BY <1>2, <1>6, <2>1 DEF TypeOK
  <2>4. ResultEvents' = ResultEvents
    BY <1>1, <2>2, <2>3 DEF ResultEvents
  <2> QED BY <1>1, <1>4, <2>4, QuietPromise
<1> QED BY <1>2, <1>5, <1>6

\* Every step of the pipeline is a step of the promise or is not seen by it.
LEMMA StepKeepsPromise ==
    TypeOK /\ ClaimInv /\ SuccessInv /\ [Next]_vars => [Promised!Next]_(Promised!vars)
<1> SUFFICES ASSUME TypeOK, ClaimInv, SuccessInv, [Next]_vars
             PROVE  [Promised!Next]_(Promised!vars)
  OBVIOUS
<1> USE DEF taskVars, memVars, historyVars, envVars
\* No task moves at all.
<1>a. ASSUME UNCHANGED <<pc, req, reply, claims, completed, forgotten, stored, published>>
      PROVE  UNCHANGED Promised!vars
  <2>1. Working' = Working /\ ResultEvents' = ResultEvents
    BY <1>a DEF Working, ResultEvents
  <2> QED BY <1>a, <2>1, QuietPromise
\* A task moves, its request stays in work or out of it.
<1>b. ASSUME NEW s \in Slot, NEW l, NEW y,
             pc' = [pc EXCEPT ![s] = l], pc[s] \in Claimed <=> l \in Claimed,
             pc[s] # "publishing", l # "publishing",
             req' = req \/ (l \notin Claimed /\ req' = [req EXCEPT ![s] = y]),
             UNCHANGED <<reply, claims, completed, forgotten, stored, published>>
      PROVE  UNCHANGED Promised!vars
  <2>1. Working' = Working
    BY <1>b, WorkContinues
  <2>2. ResultEvents' = ResultEvents
    BY <1>b, EventsStay
  <2> QED BY <1>b, <2>1, <2>2, QuietPromise
<1>1. ASSUME NEW s \in Slot, NEW r \in Request, Dispatch(s, r)
      PROVE  UNCHANGED Promised!vars
  <2>1. /\ pc[s] = "idle" /\ pc' = [pc EXCEPT ![s] = "received"]
        /\ req' = [req EXCEPT ![s] = r]
        /\ UNCHANGED <<reply, claims, completed, forgotten, stored, published>>
    BY <1>1 DEF Dispatch, Goto
  <2> QED BY <2>1, <1>b DEF Claimed
<1>2. ASSUME NEW r \in Request, DropEvent(r) PROVE UNCHANGED Promised!vars
  BY <1>2, <1>a DEF DropEvent
<1>3. ASSUME NEW s \in Slot, AcquireProver(s) PROVE UNCHANGED Promised!vars
  <2>1. PICK l \in {"proving", "sealing"} : pc' = [pc EXCEPT ![s] = l]
    BY <1>3 DEF AcquireProver, Goto
  <2>2. /\ pc[s] = "acquiring"
        /\ UNCHANGED <<req, reply, claims, completed, forgotten, stored, published>>
    BY <1>3 DEF AcquireProver
  <2> QED BY <2>1, <2>2, <1>b DEF Claimed
<1>4. ASSUME NEW s \in Slot, ProverEnds(s) PROVE UNCHANGED Promised!vars
  <2>1. PICK l \in {"storing", "sealing"} : pc' = [pc EXCEPT ![s] = l]
    BY <1>4 DEF ProverEnds, Goto
  <2>2. /\ pc[s] = "proving"
        /\ UNCHANGED <<req, reply, claims, completed, forgotten, stored, published>>
    BY <1>4 DEF ProverEnds
  <2> QED BY <2>1, <2>2, <1>b DEF Claimed
<1>5. CASE Tick
  BY <1>5, <1>a DEF Tick
<1>6. CASE Restart
  <2>1. /\ \A s \in Slot : pc'[s] = "idle"
        /\ claims' = <<>> /\ completed' = <<>>
        /\ forgotten' = forgotten \cup Elements(claims)
        /\ UNCHANGED <<stored, published>>
    BY <1>6 DEF Restart
  <2>2. Working' = {} /\ ResultEvents' = published
    BY <2>1 DEF Working, ResultEvents, Claimed, Elements
  <2>3. Elements(claims') = {}
    BY <2>1 DEF Elements
  <2>4. Promised!Restart
    BY <2>1, <2>2, <2>3 DEF Promised!Restart
  <2> QED BY <2>4 DEF Promised!Next
<1>7. CASE UNCHANGED vars
  BY <1>7, <1>a DEF vars
<1> QED
  BY <1>1, <1>2, <1>3, <1>4, <1>5, <1>6, <1>7, CheckIsQuiet, ClaimBegins, StoreStores,
     SealSigns, SealGivesUp, PublishSends DEF Next, TaskStep

\* Tasks, locks, bounded queues, slots and restarts implement the promise: a
\* request is taken up once and signed for once until its claim is forgotten,
\* and a success is signed only over the stored proof of the same request.
THEOREM ProviderImplements == Spec => ImplementsProvider
<1>1. Init => Promised!Init
  <2> SUFFICES ASSUME Init PROVE Promised!Init
    OBVIOUS
  <2>1. (\A s \in Slot : pc[s] = "idle") /\ Elements(claims) = {} /\ Elements(completed) = {}
    BY DEF Init, Elements
  <2>2. Working = {} /\ ResultEvents = {}
    BY <2>1 DEF Init, Working, ResultEvents, Claimed
  <2> QED BY <2>1, <2>2 DEF Init, Promised!Init
<1> QED BY <1>1, StepKeepsPromise, TypeCorrect, ClaimsAlwaysHold, SuccessAlwaysHolds, PTL
        DEF Spec, ImplementsProvider, Promised!Spec

\* What the promise keeps true of itself: a request that has an event and is not
\* forgotten is no longer in work.
PromiseInv ==
    /\ Working \subseteq Elements(claims) \cup forgotten
    /\ published \subseteq ResultEvents
    /\ \A e \in ResultEvents :
          /\ e.req \in Elements(claims) \cup forgotten
          /\ e.req \in Working => e.req \in forgotten
          /\ e.content.code = "success" => e.content.proof = e.req /\ e.req \in stored
    /\ OneResultUnlessForgotten

\* Every step of the promise keeps it.
LEMMA PromiseStep ==
    PromiseInv /\ [Promised!Next]_(Promised!vars) => PromiseInv'
<1> SUFFICES ASSUME PromiseInv, [Promised!Next]_(Promised!vars) PROVE PromiseInv'
  OBVIOUS
<1> USE DEF PromiseInv, OneResultUnlessForgotten
<1>1. ASSUME NEW r, Promised!Begin(r) PROVE PromiseInv'
  BY <1>1 DEF Promised!Begin
<1>2. ASSUME NEW r, Promised!Store(r) PROVE PromiseInv'
  BY <1>2 DEF Promised!Store
<1>3. ASSUME NEW r, Promised!GiveUp(r) PROVE PromiseInv'
  BY <1>3 DEF Promised!GiveUp, Promised!Settle
<1>4. ASSUME NEW e, Promised!Sign(e) PROVE PromiseInv'
  <2>1. Promised!Settle(e.req)
    BY <1>4 DEF Promised!Sign
  <2>2. Working' \subseteq Working /\ (e.req \in Working' => e.req \in forgotten)
    BY <2>1 DEF Promised!Settle
  <2>3. \A f \in ResultEvents : f.req = e.req => e.req \in forgotten
    BY <2>1 DEF Promised!Settle
  <2> QED BY <1>4, <2>1, <2>2, <2>3 DEF Promised!Sign, Promised!Settle
<1>5. ASSUME NEW e, Promised!Send(e) PROVE PromiseInv'
  BY <1>5 DEF Promised!Send
<1>6. CASE Promised!Restart
  BY <1>6 DEF Promised!Restart
<1>7. CASE UNCHANGED Promised!vars
  BY <1>7 DEF Promised!vars
<1> QED BY <1>1, <1>2, <1>3, <1>4, <1>5, <1>6, <1>7 DEF Promised!Next

\* The promise is strong enough to be relied on: whatever keeps it shows one
\* result per request that is not forgotten, and sends out no success whose proof
\* is not stored for the same request.
THEOREM PromiseSuffices ==
    ImplementsProvider => [](OneResultUnlessForgotten /\ PublishedSuccessIsStored)
<1>1. Promised!Init => PromiseInv
  BY DEF Promised!Init, PromiseInv, OneResultUnlessForgotten
<1>2. PromiseInv => OneResultUnlessForgotten /\ PublishedSuccessIsStored
  BY DEF PromiseInv, PublishedSuccessIsStored
<1> QED BY <1>1, <1>2, PromiseStep, PTL DEF ImplementsProvider, Promised!Spec
=============================================================================
