------------------------------- MODULE MCCallChain -------------------------------
(***************************************************************************)
(* Instances of CallChain for TLC: every package with up to three services.*)
(***************************************************************************)
EXTENDS CallChain

MCPackages == UNION {[1 .. n -> {"node", "native"}] : n \in 0 .. 3}

=============================================================================
