-------------------------- MODULE ArtifactStoreSpec --------------------------
(***************************************************************************)
(* What the provider can rely on when it puts a proof into its artifact    *)
(* store: a put that returns success names an artifact that is there, and  *)
(* the store only grows until the host goes down, which may take what the  *)
(* host had not written to its disk by then.                               *)
(***************************************************************************)
EXTENDS Naturals

CONSTANT Digest

VARIABLES
    available,      \* digests under which the whole proof can be read
    durable,        \* those of them the disk holds
    acked,          \* digests some put returned
    boots           \* times the host went down

vars == <<available, durable, acked, boots>>

Init == available = {} /\ durable = {} /\ acked = {} /\ boots = 0

Store(d) ==
    /\ available' = available \cup {d}
    /\ UNCHANGED <<durable, acked, boots>>

Persist ==
    /\ durable' \in SUBSET available
    /\ durable \subseteq durable'
    /\ UNCHANGED <<available, acked, boots>>

Acknowledge(d) ==
    /\ d \in available
    /\ acked' = acked \cup {d}
    /\ UNCHANGED <<available, durable, boots>>

HostDown ==
    /\ boots' = boots + 1
    /\ available' \in SUBSET available
    /\ durable \subseteq available'
    /\ durable' = available'
    /\ UNCHANGED acked

Next ==
    \/ \E d \in Digest : Store(d) \/ Acknowledge(d)
    \/ Persist
    \/ HostDown

Spec == Init /\ [][Next]_vars
=============================================================================
