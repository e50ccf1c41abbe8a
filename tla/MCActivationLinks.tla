-------------------------- MODULE MCActivationLinks --------------------------
(* Values for checking ActivationLinks with TLC. *)
EXTENDS ActivationLinks, TLC

CONSTANTS k1, k2, u1
MCRequest == {[kind |-> "links", batch |-> <<k1>>], [kind |-> "links", batch |-> <<k2, u1, k1>>],
              [kind |-> "offers", batch |-> <<u1>>]}
==============================================================================
