---------------------------- MODULE ProviderSpec ----------------------------
(***************************************************************************)
(* What the provider promises about a request, whatever its tasks, locks,  *)
(* queues and slots do: it is taken up once, worked on, and answered with  *)
(* at most one signed event; a success is signed only when the proof of    *)
(* that very request is in the store; only signed events reach a relay.    *)
(* All of it may start over only for a request whose claim was pushed out  *)
(* by newer ones, or by a restart of the process.                          *)
(***************************************************************************)

VARIABLES
    begun,          \* requests ever taken up
    working,        \* those of them that are neither answered nor given up
    forgotten,      \* those of them the provider no longer remembers
    stored,         \* requests whose proof is in the artifact store
    results,        \* signed events that can still be seen or sent
    published       \* those of them some relay accepted

vars == <<begun, working, forgotten, stored, results, published>>

Init ==
    /\ begun = {} /\ working = {} /\ forgotten = {}
    /\ stored = {} /\ results = {} /\ published = {}

\* A request is taken up, once unless it was forgotten.  Older ones may be
\* forgotten for it.
Begin(r) ==
    /\ r \in begun => r \in forgotten
    /\ begun' = begun \cup {r}
    /\ working' = working \cup {r}
    /\ forgotten \subseteq forgotten' /\ forgotten' \subseteq begun
    /\ UNCHANGED <<stored, results, published>>

Store(r) ==
    /\ r \in working
    /\ stored' = stored \cup {r}
    /\ UNCHANGED <<begun, working, forgotten, results, published>>

\* The work on a request ends.  One that was forgotten may have been taken up
\* twice, and then the other work on it goes on.
Settle(r) ==
    /\ r \in working
    /\ \/ working' = working \ {r}
       \/ r \in forgotten /\ UNCHANGED working
    /\ UNCHANGED <<begun, forgotten, stored, published>>

\* Work ends in a signed event.  An older unpublished one may go for it.
Sign(e) ==
    /\ Settle(e.req)
    /\ e.content.code = "success" => e.content.proof = e.req /\ e.req \in stored
    /\ results' \subseteq results \cup {e}
    /\ published \cup {e} \subseteq results'

GiveUp(r) ==
    /\ Settle(r)
    /\ UNCHANGED results

\* A relay takes the event, or none does and it may be lost.
Send(e) ==
    /\ published' \in {published, published \cup {e}}
    /\ results' \subseteq results /\ published' \subseteq results'
    /\ UNCHANGED <<begun, working, forgotten, stored>>

Restart ==
    /\ working' = {}
    /\ forgotten' = begun
    /\ results' = published
    /\ UNCHANGED <<begun, stored, published>>

Next ==
    \/ \E r \in working' : Begin(r)
    \/ \E r \in working : Store(r) \/ GiveUp(r)
    \/ \E e \in results' : Sign(e)
    \/ \E e \in results : Send(e)
    \/ Restart

Spec == Init /\ [][Next]_vars
=============================================================================
