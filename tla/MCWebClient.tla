----------------------------- MODULE MCWebClient -----------------------------
(***************************************************************************)
(* Small instances of WebClient for TLC: tabs are interchangeable.         *)
(***************************************************************************)
EXTENDS WebClient, TLC

Symmetric == Permutations(Tabs)

=============================================================================
