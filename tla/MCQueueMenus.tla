---------------------------- MODULE MCQueueMenus ----------------------------
(***************************************************************************)
(* Instances of the firmware queue for TLC in which a behaviour draws its  *)
(* calls from one menu: a few operations, the devices they are made for,   *)
(* the clients that make them and the number of jobs.                      *)
(***************************************************************************)
EXTENDS MCFirmwareQueue

CONSTANT Menus
VARIABLE menu

Menu(ops, cfgs, clients, jobs) ==
    [ops |-> ops, cfgs |-> cfgs, clients |-> clients, jobs |-> jobs, torn |-> FALSE]
\* The jobs of a save are serialised while the loop runs on.
Torn(m) == [m EXCEPT !.torn = TRUE]
\* Chains, flashes and wipes of a device on the thread lane, then of two callers at once;
\* its short calls; renames and their retries.
MCSafety == {Menu({"install", "upload", "clean", "reset"}, {x}, {c1}, 3),
             Menu({"install", "clean"}, {x}, {c1, c2}, 3), Menu({"upload", "reset"}, {x}, {c1, c2}, 3),
             Menu({"install", "compile", "analyze", "clear"}, {x}, {c1, c2}, 2),
             Menu({"rename", "cancel"}, {a, x}, {c1, c2}, 4)}
\* What a restart may find: chains, flashes and wipes, or chains and single builds; or jobs without
\* dependents whose snapshots are torn.
MCRestart == {Menu({"install", "upload", "clean", "cancel"}, {a}, {c1}, 2),
              Menu({"install", "compile", "analyze", "cancel", "clear"}, {a}, {c1}, 2),
              Torn(Menu({"compile", "cancel"}, {a}, {c1}, 2))}

Calls(c, op) ==
    CASE op = "compile" -> \E g \in menu.cfgs : Compile(c, g)
      [] op = "upload"  -> \E g \in menu.cfgs : Upload(c, g)
      [] op = "install" -> \E g \in menu.cfgs : Install(c, g)
      [] op = "clean"   -> \E g \in menu.cfgs : Clean(c, g)
      [] op = "analyze" -> \E g \in menu.cfgs : AnalyzeMemory(c, g)
      [] op = "reset"   -> ResetBuildEnv(c)
      [] op = "rename"  -> \E g, n \in menu.cfgs : Rename(c, g, n)
      [] op = "cancel"  -> \E j \in Job : Cancel(c, j)
      [] op = "clear"   -> \E st \in ClearStatuses : Clear(c, st)

\* Unless the menu is torn, a snapshot that is begun is finished and written before anything else happens.
Serialising == \E j \in Job : blob[j] # Absent

MenuNext ==
    /\ IF Serialising /\ ~menu.torn THEN SaveJob \/ SaveWrite ELSE Next
    /\ UNCHANGED menu
    /\ next' <= menu.jobs + 1
    /\ \A c \in Client : cmd[c].pc = "idle" /\ cmd'[c].pc # "idle" =>
           c \in menu.clients /\ \E op \in menu.ops : Calls(c, op)

\* Callers are interchangeable.
MCCallers == Permutations(Client)

MenuInit     == Init /\ menu \in Menus
MenuSpec     == MenuInit /\ [][MenuNext]_<<vars, menu>>
FairMenuSpec == MenuSpec /\ Fairness
=============================================================================
