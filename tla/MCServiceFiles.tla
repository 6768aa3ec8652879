------------------------------ MODULE MCServiceFiles ------------------------------
(***************************************************************************)
(* Versions of a package for TLC: with a service, without one, a stub, and *)
(* one whose packageinfo.json has an id of its own.                        *)
(***************************************************************************)
EXTENDS ServiceFiles

MCPackages ==
    {[stub |-> FALSE, services |-> <<"s1">>, foreign |-> FALSE],
     [stub |-> FALSE, services |-> << >>, foreign |-> FALSE],
     [stub |-> TRUE, services |-> <<"s1">>, foreign |-> FALSE],
     [stub |-> FALSE, services |-> <<"s1">>, foreign |-> TRUE]}

=============================================================================
