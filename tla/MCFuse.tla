------------------------------- MODULE MCFuse -------------------------------
(***************************************************************************)
(* TLC instances of Fuse.                                                  *)
(***************************************************************************)
EXTENDS Fuse

\* No deviation, and the one of fuse_test.go:35.
MCNone     == {0}
MCNegative == {-3760}
=============================================================================
