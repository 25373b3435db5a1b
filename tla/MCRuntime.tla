----------------------------- MODULE MCRuntime -----------------------------
(* A rising input and a batch input, named in this order.                   *)
EXTENDS Runtime
CONSTANTS ra, bc

TwoInputs == <<ra, bc>>
=============================================================================
