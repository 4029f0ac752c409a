---------------------------- MODULE MCSignupClient ----------------------------
(* A buffer of three bytes, so that a piece can fill it, leave one or two    *)
(* cells of the piece before, or be cut in two.                              *)
EXTENDS SignupClient
=============================================================================
