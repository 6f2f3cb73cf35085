-------------------------- MODULE MCDeferredInstall --------------------------
(* Instances of the deferred installs for TLC. *)
EXTENDS DeferredInstall

MCAllowed == [call |-> 2, fail |-> 1, crash |-> 1]
=============================================================================
