------------------------------- MODULE MCUpkeep -------------------------------
(***************************************************************************)
(* An instance for TLC of three parts that work for the dashboard over      *)
(* hours and restarts and share no state: the deferred installs, a          *)
(* debounced store and a build server's directories.  A behaviour is one of *)
(* a single part; the others rest.                                          *)
(***************************************************************************)
EXTENDS MCDeferredInstall, Store, ReceiverDisk

CONSTANTS u1, u2,   \* write tasks
          f1, f2,   \* calls that flush
          p1, p2    \* offloaders

VARIABLE part   \* the part this behaviour is one of

UpkeepInit == part \in {"defer", "store", "disk"} /\ DeferInit /\ StoreInit /\ DiskInit

\* The offloaders are alike: the first bundle is p1's.
P1First == spent.bundle = 0 => peer'[p2].air = "none"

UpkeepNext ==
    /\ UNCHANGED part
    /\ \/ part = "defer" /\ DeferNext /\ UNCHANGED <<storeVars, diskVars>>
       \/ part = "store" /\ StoreNext /\ UNCHANGED <<deferVars, diskVars>>
       \/ part = "disk" /\ DiskNext /\ P1First /\ UNCHANGED <<deferVars, storeVars>>

UpkeepSpec == UpkeepInit /\ [][UpkeepNext]_<<part, deferVars, storeVars, diskVars>> /\ DeferFairness

UpkeepTypeOK == DeferTypeOK /\ StoreTypeOK /\ DiskTypeOK
=============================================================================
