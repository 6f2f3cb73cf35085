---------------------------- MODULE MCRemotePool ----------------------------
(* Instances of the remote build pool for TLC. *)
EXTENDS RemotePool

CONSTANTS j1, j2, j3,  \* compiles
          s1, s2       \* build servers

MCOrder1 == <<s1>>
MCOrder2 == <<s1, s2>>
\* A private pool; and the two situations of the safety run: a shared pool whose only enabled server may drop,
\* and two servers with a setting that may change.
Situation(sh, en, d, t) == [share |-> sh, enabled |-> en, drops |-> d, toggles |-> t]
MCPrivate == {Situation(FALSE, Server, 0, 0)}
MCEither  == {Situation(TRUE, {s1}, 0, MaxToggles), Situation(FALSE, Server, MaxDrops, 0)}
MCSymmetry == Permutations(Job)
=============================================================================
