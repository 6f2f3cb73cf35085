--------------------------- MODULE MCFirmwareQueue ---------------------------
(* Instances of the firmware queue for TLC. *)
EXTENDS FirmwareQueueInvariant, TLC

CONSTANTS a, b, x,        \* configurations
          c1, c2,         \* clients
          wc, wu, wu2, wt \* workers

MCLaneOf == [w \in Worker |-> CASE w = wc -> "compile"
                                [] w = wt -> "thread"
                                [] OTHER -> "upload"]
=============================================================================
