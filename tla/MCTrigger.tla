----------------------------- MODULE MCTrigger ------------------------------
(* Instances of Trigger for TLC. *)
EXTENDS Trigger

AllPolicies == {"Allow", "Forbid", "Replace"}

(* Good requests, and ones that are refused before and after the lookup. *)
GoodOrBad == {{}, {"method"}, {"path", "signature"}, {"signature"}}
=============================================================================
