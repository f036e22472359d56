-------------------------- MODULE MCDataProtection --------------------------
(***************************************************************************)
(* Model checking DataProtection: PINs, one recovery code, every failure.  *)
(***************************************************************************)
EXTENDS DataProtection

TwoIds == {1, 2}
=============================================================================
