----------------------------- MODULE MCCaptcha -----------------------------
(***************************************************************************)
(* Captcha for TLC; tokens and threads are interchangeable model values.   *)
(***************************************************************************)
EXTENDS Captcha, TLC

Symmetry == Permutations(PowTokens) \cup Permutations(Verifiers)

=============================================================================
