---------------------------- MODULE MCSignedJobs ----------------------------
(***************************************************************************)
(* Small instances of SignedJobs.  r1 and r3 are created at 0 and carry no *)
(* expiry; r2 is created one second later, ahead of a provider whose clock *)
(* is at 0, and expires a second after that.                               *)
(***************************************************************************)
EXTENDS SignedJobs, TLC

CONSTANTS r1, r2, r3

Unlimited(created_at) ==
    [valid |-> TRUE, created_at |-> created_at, expires_at |-> NoExpiry]

MCWire ==
    (r1 :> Unlimited(0)) @@
    (r2 :> [valid |-> TRUE, created_at |-> 1, expires_at |-> 2]) @@
    (r3 :> Unlimited(0))

Symmetry == Permutations(Slot)
=============================================================================
