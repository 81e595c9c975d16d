-------------------------- MODULE MCSessionManager --------------------------
(***************************************************************************)
(* SessionManager on a small instance.                                     *)
(***************************************************************************)
EXTENDS SessionManager, TLC

MCLimits == {-1, 2}
=============================================================================
