--------------------------- MODULE MCSoulSociety ---------------------------
(***************************************************************************)
(* A client whose job may begin in the seconds 0 to 3 of its clock.  It    *)
(* can keep the only prover busy itself: with a first run that timed out   *)
(* while its request is being proved.                                      *)
(***************************************************************************)
EXTENDS SoulSociety, TLC

CONSTANTS q0, q1, q2, q3

MCOwnRequest == (0 :> q0) @@ (1 :> q1) @@ (2 :> q2) @@ (3 :> q3)

\* options.expiresInSeconds is 3.
OwnEvent(t) == [valid |-> TRUE, created_at |-> t, expires_at |-> t + 3]

MCWire ==
    (q0 :> OwnEvent(0)) @@ (q1 :> OwnEvent(1)) @@ (q2 :> OwnEvent(2)) @@ (q3 :> OwnEvent(3))

MCSkew == {-2, -1, 0, 1}
=============================================================================
