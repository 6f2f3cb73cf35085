---------------------------- MODULE BuildScheduler ----------------------------
(***************************************************************************)
(* Where a compile goes: helpers/build_scheduler.py.  Pure operators over  *)
(* a snapshot v of the offloader's pairings:                               *)
(*   v.on       remote_builds_enabled        v.exact    EXACT_REQUIRED     *)
(*   v.intended approved and enabled pins    v.open     open_peer_links    *)
(*   v.fits     pins whose version fits or that can provision ours         *)
(*   v.idle     pins whose cached queue status says idle                   *)
(*   v.busy     busy_build_server_pins       v.share    include_local...   *)
(*   v.localBusy  the local compile lane is taken                          *)
(* The version comparison itself is data: it decides v.fits.               *)
(***************************************************************************)
EXTENDS Naturals, Sequences

CONSTANTS
    Server,      \* paired build servers, by pin
    NoServer,    \* no pin
    PairedOrder  \* the pins in the order they were paired

ASSUME OrderAssumption ==
    /\ PairedOrder \in Seq(Server) /\ NoServer \notin Server
    /\ \A s \in Server : \E i \in DOMAIN PairedOrder : PairedOrder[i] = s

\* _eligible_pairings, one set per counter of _FilterResult.
Disconnected(v) == v.intended \ v.open
Fitting(v)      == v.intended \cap v.open \cap v.fits
Eligible(v)     == Fitting(v) \ v.busy
BusyEligible(v) == Fitting(v) \cap v.busy

\* _pick_free_pin: the oldest pairing that says idle, else the oldest.
Oldest(S) == LET first(i) == PairedOrder[i] \in S
                             /\ \A k \in DOMAIN PairedOrder : PairedOrder[k] \in S => i <= k
             IN  PairedOrder[CHOOSE i \in DOMAIN PairedOrder : first(i)]
FreePin(v) == IF Eligible(v) = {} THEN NoServer
              ELSE IF Eligible(v) \cap v.idle # {} THEN Oldest(Eligible(v) \cap v.idle)
              ELSE Oldest(Eligible(v))

\* pick_build_path, at submission: "reject" is the raised NO_COMPATIBLE_PEER.
BuildPath(v) ==
    IF ~v.on THEN "local"
    ELSE IF Eligible(v) # {} THEN "remote"
    ELSE IF v.intended # {} /\ v.exact THEN "reject" ELSE "local"

\* pick_dispatch_target, at every pass of the matcher.
DispatchTarget(v) ==
    IF ~v.on THEN "local"
    ELSE IF Eligible(v) # {} THEN "remote"
    ELSE IF BusyEligible(v) # {} THEN IF v.share /\ ~v.localBusy THEN "local" ELSE "wait"
    ELSE IF v.intended # {} /\ v.exact
         THEN IF Disconnected(v) # {} THEN "wait" ELSE "fail"
    ELSE "local"
=============================================================================
