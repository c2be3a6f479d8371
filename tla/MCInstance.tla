----------------------------- MODULE MCInstance -----------------------------
(* Instance instantiated for TLC. *)
EXTENDS Instance

OneService  == {"tidb"}
ServerOnly  == {"server"}
TwoCallers  == {"exit", "defer"}
TwoHandlers == {"h1", "h2"}
OneHandler  == {"h1"}
Sigterm     == 15
=============================================================================
