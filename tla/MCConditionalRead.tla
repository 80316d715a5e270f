-------------------------- MODULE MCConditionalRead --------------------------
(* Two files and a link; two of their paths are read in one request. *)
EXTENDS ConditionalRead
CONSTANTS a, b, link

MCRequests ==
    {[paths |-> <<a, link>>, part |-> "whole", policy |-> "always"],
     [paths |-> <<link, b>>, part |-> "head", policy |-> "always"],
     [paths |-> <<link>>, part |-> "whole", policy |-> "auto"]}
=============================================================================
