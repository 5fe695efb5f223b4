---------------------------- MODULE MCClangTidy ----------------------------
(* An instance of ClangTidy for TLC. *)
EXTENDS ClangTidy

CONSTANTS w1, w2
=============================================================================
