---------------------------- MODULE MCInvokeCall ----------------------------
(* Two calls of `o7 invoke` into one directory. *)
EXTENDS InvokeCall
=============================================================================
