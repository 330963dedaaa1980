------------------------------ MODULE SignersMC ------------------------------
(* Signers for TLC: two requests to one endpoint, while an administrator may *)
(* forbid the signer that the mode does not prefer.                          *)
EXTENDS Signers, TLC

CONSTANTS r1, r2, e1

OneEndpoint == (r1 :> e1) @@ (r2 :> e1)

NativeOnly == [mode |-> "native", fallback |-> FALSE]
Automatic  == [mode |-> "auto", fallback |-> TRUE]

PoliciesDef == {NativeOnly, Automatic}
=============================================================================
