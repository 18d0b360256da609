----------------------------- MODULE MCInPlace ------------------------------
(* The argument lists on which InPlace is model-checked.                   *)
EXTENDS InPlace

CONSTANTS f, g

MCCommands == {<<f>>, <<f, g>>, <<f, f>>}
=============================================================================
