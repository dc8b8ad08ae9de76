----------------------------- MODULE MCHandshake ----------------------------
(***************************************************************************)
(* Handshake for TLC.  No token, tokens that differ in a character, one    *)
(* that has another as a prefix, and one that is too long to be sent.      *)
(***************************************************************************)
EXTENDS Handshake

MCTokens == {<<>>, <<1>>, <<2>>, <<1, 2>>, <<1, 2, 1>>}
=============================================================================
