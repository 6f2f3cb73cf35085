------------------------- MODULE FirmwareQueueDevices -------------------------
(***************************************************************************)
(* One chain per device: an older active job of a device is being stopped  *)
(* for as long as a newer one is there.  The call that created the newer   *)
(* job has the older one in its sweep, and the lemmas follow that sweep:   *)
(* it loses a job only once the job is over or flagged to stop.            *)
(***************************************************************************)
EXTENDS FirmwareQueueSafety

USE DEF Job, NoJob, Terminal

Waiting == {"queued", "running"}

\* What the records of the calls promise, without the property they promise it for.
Tracked == /\ \A c \in Client : CallTracks(cmd[c], status, cancelReq)
           /\ \A c \in Client : \A i, j \in cmd[c].own : i < j => desc[j].dep = i

\* A step keeps those promises: a job that is being stopped stays in a sweep, or flagged,
\* until it is over.
Follows == /\ Tracked' /\ OneChainPerDevice'
           /\ \A j \in Job : Active(j)' /\ BeingStopped(j) => BeingStopped(j)'

-----------------------------------------------------------------------------
(* Steps that create no job *)

\* The calls stand still: jobs leave the map, and no job starts again or loses its flag
\* before it is over (lanes, workers, saves, reverts).
LEMMA CallsStill ==
    ASSUME TypeInv, Tracked, OneChainPerDevice, restarts' = restarts,
           cmd' = cmd, desc' = desc, known' \subseteq known,
           \A j \in Job : status'[j] \in Waiting => status[j] \in Waiting,
           \A j \in Job : status[j] \in Terminal => status'[j] = status[j],
           \A j \in cancelReq : j \in cancelReq' \/ status'[j] \in Terminal
    PROVE  Follows
<1>1. /\ \A c \in Client : cmd[c].pc \in {"save1", "save2", "kill"} => cmd[c].job \in Job
      /\ known \subseteq Job
  BY DEF TypeInv, TypeOK, JobTypes, TaskInv, CmdInv
<1>2. \A c \in Client : CallTracks(cmd'[c], status', cancelReq')
  BY <1>1 DEF Tracked, CallTracks
<1>3. Tracked'
  BY <1>2 DEF Tracked
<1>4. \A j : Active(j)' => Active(j) /\ status'[j] \notin Terminal
  BY <1>1 DEF Active, Waiting
<1>5. \A j : Active(j)' /\ BeingStopped(j) => BeingStopped(j)'
  BY <1>4 DEF BeingStopped
<1>6. \A j : StagedOnto(j) => StagedOnto(j)'
  BY DEF StagedOnto
<1>7. OneChainPerDevice'
  <2>0. SUFFICES ASSUME restarts = 0 PROVE OneChainPerDevice'
    BY DEF OneChainPerDevice
  <2>1. SUFFICES ASSUME NEW i \in known', NEW j \in known', Active(i)', Active(j)', i < j,
                        desc[i].cfg = desc[j].cfg, desc[j].dep # i
                 PROVE  BeingStopped(i)' \/ StagedOnto(j)'
    BY DEF OneChainPerDevice
  <2>2. i \in known /\ j \in known /\ Active(i) /\ Active(j)
    BY <1>4, <2>1
  <2>3. BeingStopped(i) \/ StagedOnto(j)
    BY <2>0, <2>1, <2>2 DEF OneChainPerDevice
  <2>4. QED
    BY <1>5, <1>6, <2>1, <2>3
<1>8. QED
  BY <1>3, <1>5, <1>7 DEF Follows

\* One call goes on as r.  It forgets a job of its sweep only when that job is over or
\* flagged, and stops staging a name only with the name's jobs in its sweep.
LEMMA CallGoesOn ==
    ASSUME TypeInv, Tracked, OneChainPerDevice, restarts' = restarts,
           NEW c \in Client, NEW r, cmd' = [cmd EXCEPT ![c] = r],
           desc' = desc, known' \subseteq known, cancelReq \subseteq cancelReq',
           \A j \in Job : status'[j] \in Waiting => status[j] \in Waiting,
           \A j \in Job : status[j] \in Terminal => status'[j] = status[j],
           CallTracks(r, status', cancelReq'),
           r.own \subseteq cmd[c].own,
           \A i \in cmd[c].todo : i \in r.todo \/ i \in cancelReq' \/ ~Active(i)',
           \A i, j \in Job :
               /\ Active(i)' /\ Active(j)' /\ i < j
               /\ desc[i].cfg = desc[j].cfg /\ desc[j].dep # i
               /\ j \in cmd[c].own /\ cmd[c].new = desc[j].cfg /\ cmd[c].new # NoConfig
               => (r.own = cmd[c].own /\ r.new = cmd[c].new) \/ i \in r.todo
    PROVE  Follows
<1>1. /\ \A b \in Client : cmd[b].pc \in {"save1", "save2", "kill"} => cmd[b].job \in Job
      /\ known \subseteq Job
  BY DEF TypeInv, TypeOK, JobTypes, TaskInv, CmdInv
<1>2. \A b \in Client : cmd'[b] = IF b = c THEN r ELSE cmd[b]
  BY DEF TypeInv, TypeOK, TaskTypes
<1>3. \A b \in Client : CallTracks(cmd'[b], status', cancelReq')
  <2>1. TAKE b \in Client
  <2>2. CASE b = c
    BY <1>2, <2>2
  <2>3. CASE b # c
    BY <1>1, <1>2, <2>3 DEF Tracked, CallTracks
  <2>4. QED
    BY <2>2, <2>3
<1>4. \A b \in Client : \A i, j \in cmd'[b].own : i < j => desc'[j].dep = i
  BY <1>2 DEF Tracked
<1>5. \A j : Active(j)' => Active(j)
  BY <1>1 DEF Active, Waiting
<1>6. \A j : Active(j)' /\ BeingStopped(j) => BeingStopped(j)'
  BY <1>2 DEF BeingStopped
<1>7. ASSUME NEW i \in Job, NEW j \in Job, Active(i)', Active(j)', i < j,
             desc[i].cfg = desc[j].cfg, desc[j].dep # i, StagedOnto(j)
      PROVE  StagedOnto(j)' \/ BeingStopped(i)'
  <2>1. PICK b \in Client : j \in cmd[b].own /\ cmd[b].new = desc[j].cfg /\ cmd[b].new # NoConfig
    BY <1>7 DEF StagedOnto
  <2>2. CASE b # c
    BY <1>2, <2>1, <2>2 DEF StagedOnto
  <2>3. CASE b = c /\ r.own = cmd[c].own /\ r.new = cmd[c].new
    BY <1>2, <2>1, <2>3 DEF StagedOnto
  <2>4. CASE b = c /\ i \in r.todo
    BY <1>2, <2>4 DEF BeingStopped
  <2>5. QED
    BY <1>7, <2>1, <2>2, <2>3, <2>4
<1>8. OneChainPerDevice'
  <2>0. SUFFICES ASSUME restarts = 0 PROVE OneChainPerDevice'
    BY DEF OneChainPerDevice
  <2>1. SUFFICES ASSUME NEW i \in known', NEW j \in known', Active(i)', Active(j)', i < j,
                        desc[i].cfg = desc[j].cfg, desc[j].dep # i
                 PROVE  BeingStopped(i)' \/ StagedOnto(j)'
    BY DEF OneChainPerDevice
  <2>2. i \in known /\ j \in known /\ Active(i) /\ Active(j)
    BY <1>5, <2>1
  <2>3. BeingStopped(i) \/ StagedOnto(j)
    BY <2>0, <2>1, <2>2 DEF OneChainPerDevice
  <2>4. i \in Job /\ j \in Job
    BY <1>1, <2>2
  <2>5. QED
    BY <1>6, <1>7, <2>1, <2>3, <2>4
<1>9. QED
  BY <1>3, <1>4, <1>6, <1>8 DEF Tracked, Follows

-----------------------------------------------------------------------------
(* Steps that create jobs *)

\* Call c creates the jobs S and sweeps the older ones of their devices, but for those
\* of a name it stages.
LEMMA CallCreates ==
    ASSUME TypeInv, TypeInv', QueueInv, Tracked, OneChainPerDevice, restarts' = restarts,
           NEW c \in Client, NEW r, NEW S \in SUBSET Job,
           \A j \in S : j >= next,
           cmd' = [cmd EXCEPT ![c] = r], cmd[c].pc \in {"idle", "fs_lock"},
           known' = known \cup S, cancelReq' = cancelReq,
           \A j \in Job \ S : status'[j] = status[j] /\ desc'[j] = desc[j],
           r.pc = "cancel", r.own = S, r.new # NoConfig => r.then = "stage_save",
           \A i, j \in S : i < j => desc'[j].dep = i,
           \A i \in known : \A j \in S :
               Active(i) /\ desc[i].cfg = desc'[j].cfg
               => i \in r.todo \/ (r.new = desc'[j].cfg /\ r.new # NoConfig)
    PROVE  Follows
<1>1. /\ \A b \in Client : cmd[b].pc \in {"save1", "save2", "kill"} => cmd[b].job \in Job
      /\ known \subseteq Job /\ next \in Nat /\ \A b \in Client : cmd[b].own \subseteq Job
      /\ cancelReq \subseteq Job
  BY DEF TypeInv, TypeOK, JobTypes, TaskTypes, TaskInv, CmdInv, Cmd
<1>2. \A b \in Client : cmd'[b] = IF b = c THEN r ELSE cmd[b]
  BY DEF TypeInv, TypeOK, TaskTypes
<1>3. \A j \in S : /\ status[j] = "none" /\ j \notin known
                  /\ \A b \in Client : j \notin cmd[b].own
  BY DEF QueueInv, FreshInv
<1>4. \A i \in known : \A j \in S : i < j
  BY <1>1 DEF QueueInv, FreshInv
<1>5. cmd[c].todo = {} /\ (cmd[c].own = {} \/ cmd[c].new = NoConfig)
  BY DEF Tracked, CallTracks, SweepPc
<1>6. \A b \in Client : CallTracks(cmd'[b], status', cancelReq')
  <2>1. CallTracks(r, status', cancelReq')
    BY DEF CallTracks, SweepPc
  <2>2. ASSUME NEW b \in Client, b # c
        PROVE  CallTracks(cmd[b], status', cancelReq')
    <3>1. CallTracks(cmd[b], status, cancelReq)
      BY DEF Tracked
    <3>2. \A j \in Job : status[j] \in Terminal => status'[j] = status[j]
      BY <1>3
    <3>3. QED
      BY <1>1, <3>1, <3>2 DEF CallTracks
  <2>3. QED
    BY <1>2, <2>1, <2>2
<1>7. \A b \in Client : \A i, j \in cmd'[b].own : i < j => desc'[j].dep = i
  <2>1. TAKE b \in Client
  <2>2. CASE b = c
    BY <1>2, <2>2
  <2>3. CASE b # c
    <3>1. cmd'[b] = cmd[b] /\ \A j \in cmd[b].own : desc'[j] = desc[j]
      BY <1>1, <1>2, <1>3, <2>3
    <3>2. QED
      BY <3>1 DEF Tracked
  <2>4. QED
    BY <2>2, <2>3
<1>8. \A j \in known : j \notin S /\ desc'[j] = desc[j] /\ (Active(j)' => Active(j))
  BY <1>1, <1>3 DEF Active
<1>9. \A i : BeingStopped(i) => BeingStopped(i)'
  BY <1>2, <1>5 DEF BeingStopped
<1>10. ASSUME restarts = 0, NEW i \in known', NEW j \in known', Active(i)', Active(j)', i < j,
             desc'[i].cfg = desc'[j].cfg, desc'[j].dep # i
      PROVE  BeingStopped(i)' \/ StagedOnto(j)'
  <2>1. CASE i \in S
    <3>1. j \in known \/ j \in S
      BY <1>10
    <3>2. CASE j \in known
      <4>1. j < i
        BY <1>4, <2>1, <3>2
      <4>2. i \in Nat /\ j \in Nat
        BY <1>1, <2>1, <3>2 DEF Job
      <4>3. QED
        BY ONLY <1>10, <4>1, <4>2
    <3>3. CASE j \in S
      BY <1>10, <2>1, <3>3
    <3>4. QED
      BY <3>1, <3>2, <3>3
  <2>2. CASE i \in known /\ j \in S
    <3>1. i \in r.todo \/ (r.new = desc'[j].cfg /\ r.new # NoConfig)
      BY <1>8, <1>10, <2>2
    <3>2. CASE i \in r.todo
      BY <1>2, <3>2 DEF BeingStopped
    <3>3. CASE r.new = desc'[j].cfg /\ r.new # NoConfig
      BY <1>2, <2>2, <3>3 DEF StagedOnto
    <3>4. QED
      BY <3>1, <3>2, <3>3
  <2>3. CASE i \in known /\ j \in known
    <3>1. BeingStopped(i) \/ StagedOnto(j)
      BY <1>8, <1>10, <2>3 DEF OneChainPerDevice
    <3>2. BeingStopped(i) => BeingStopped(i)'
      BY <1>9
    <3>3. StagedOnto(j) => StagedOnto(j)'
      BY <1>2, <1>5, <1>8, <2>3 DEF StagedOnto
    <3>4. QED
      BY <3>1, <3>2, <3>3
  <2>4. QED
    BY <2>1, <2>2, <2>3
<1>11. OneChainPerDevice'
  BY <1>10 DEF OneChainPerDevice
<1>12. QED
  BY <1>6, <1>7, <1>9, <1>11 DEF Tracked, Follows

\* Every operation that creates jobs is such a step.
LEMMA Creations ==
    ASSUME TypeInv, TypeInv', QueueInv, Tracked, OneChainPerDevice, restarts' = restarts,
           NEW c \in Client,
           \/ \E g \in Config : \E op, ty : SubmitOne(c, op, ty, g)
           \/ \E g \in Config : Install(c, g)
           \/ ResetBuildEnv(c)
           \/ RenameLock(c) /\ fsLock' = c /\ fsLock # c
    PROVE  Follows
<1>1. /\ next \in 1..(MaxJob + 1) /\ status \in [Job -> Status] /\ desc \in [Job -> JobDesc]
      /\ known \subseteq Job /\ MaxJob \in Nat
  BY BoundsAssumption DEF TypeInv, TypeOK, JobTypes
<1>2. CASE \E g \in Config : \E op, ty : SubmitOne(c, op, ty, g)
  <2>0. PICK g \in Config : \E op, ty : SubmitOne(c, op, ty, g)
    BY <1>2
  <2>1. PICK op, ty : SubmitOne(c, op, ty, g)
    BY <2>0
  <2> DEFINE r == Sweep(ActiveOf(g, {}), "save", {next})
             d == NewJob(ty, g, NoConfig, NoJob)
  <2>2. /\ next \in Job /\ cmd[c].pc = "idle" /\ known' = known \cup {next}
        /\ desc' = [desc EXCEPT ![next] = d] /\ status' = [status EXCEPT ![next] = "queued"]
        /\ cmd' = [cmd EXCEPT ![c] = r] /\ cancelReq' = cancelReq
    BY <1>1, <2>1 DEF SubmitOne, CanCreate
  <2>3. r.pc = "cancel" /\ r.own = {next} /\ r.todo = ActiveOf(g, {}) /\ r.new = NoConfig
    BY DEF Sweep, IdleCmd
  <2>4. d.cfg = g
    BY DEF NewJob
  <2>5. \A i \in known : Active(i) /\ desc[i].cfg = g => i \in ActiveOf(g, {})
    BY DEF ActiveOf
  <2> HIDE DEF r, d
  <2>6. /\ \A j \in Job \ {next} : status'[j] = status[j] /\ desc'[j] = desc[j]
        /\ desc'[next] = d
    BY <1>1, <2>2
  <2>7. \A i, j \in {next} : i < j => desc'[j].dep = i
    BY <1>1
  <2>8. {next} \in SUBSET Job /\ \A j \in {next} : j >= next
    BY <1>1, <2>2
  <2>9. \A i \in known : \A j \in {next} :
           Active(i) /\ desc[i].cfg = desc'[j].cfg
           => i \in r.todo \/ (r.new = desc'[j].cfg /\ r.new # NoConfig)
    BY <2>3, <2>4, <2>5, <2>6
  <2>10. cmd[c].pc \in {"idle", "fs_lock"} /\ (r.new # NoConfig => r.then = "stage_save")
    BY <2>2, <2>3
  <2>11. QED
    BY <2>2, <2>3, <2>6, <2>7, <2>8, <2>9, <2>10, CallCreates
<1>3. CASE \E g \in Config : Install(c, g)
  <2>1. PICK g \in Config : Install(c, g)
    BY <1>3
  <2> DEFINE S == {next, next + 1}
             r == Sweep(ActiveOf(g, {}), "save", S)
             h == NewJob("compile", g, NoConfig, NoJob)
             u == NewJob("upload", g, NoConfig, next)
  <2>2. /\ S \in SUBSET Job /\ cmd[c].pc = "idle" /\ known' = known \cup S
        /\ desc' = [desc EXCEPT ![next] = h, ![next + 1] = u]
        /\ status' = [status EXCEPT ![next] = "queued", ![next + 1] = "queued"]
        /\ cmd' = [cmd EXCEPT ![c] = r] /\ cancelReq' = cancelReq
    BY <1>1, <2>1 DEF Install, CanCreate
  <2>3. r.pc = "cancel" /\ r.own = S /\ r.todo = ActiveOf(g, {}) /\ r.new = NoConfig
    BY DEF Sweep, IdleCmd
  <2>4. h.cfg = g /\ u.cfg = g /\ u.dep = next
    BY DEF NewJob
  <2>5. \A i \in known : Active(i) /\ desc[i].cfg = g => i \in ActiveOf(g, {})
    BY DEF ActiveOf
  <2> HIDE DEF r, h, u
  <2>6. /\ \A j \in Job \ S : status'[j] = status[j] /\ desc'[j] = desc[j]
        /\ desc'[next] = h /\ desc'[next + 1] = u
    BY <1>1, <2>2
  <2>7. /\ \A i, j \in S : i < j => desc'[j].dep = i
        /\ \A j \in S : j >= next /\ desc'[j].cfg = g
    BY <1>1, <2>4, <2>6
  <2> HIDE DEF S
  <2>8. \A i \in known : \A j \in S :
           Active(i) /\ desc[i].cfg = desc'[j].cfg
           => i \in r.todo \/ (r.new = desc'[j].cfg /\ r.new # NoConfig)
    BY <2>3, <2>5, <2>7
  <2>9. cmd[c].pc \in {"idle", "fs_lock"} /\ (r.new # NoConfig => r.then = "stage_save")
    BY <2>2, <2>3
  <2>10. QED
    BY <2>2, <2>3, <2>6, <2>7, <2>8, <2>9, CallCreates
<1>4. CASE ResetBuildEnv(c)
  <2> DEFINE r == Sweep({j \in known : Active(j)}, "place", {next})
  <2>1. /\ next \in Job /\ cmd[c].pc = "idle" /\ known' = known \cup {next}
        /\ desc' = [desc EXCEPT ![next] = NewJob("reset", NoConfig, NoConfig, NoJob)]
        /\ status' = [status EXCEPT ![next] = "queued"]
        /\ cmd' = [cmd EXCEPT ![c] = r] /\ cancelReq' = cancelReq
    BY <1>1, <1>4 DEF ResetBuildEnv, CanCreate
  <2>2. /\ r.pc = "cancel" /\ r.own = {next} /\ r.todo = {j \in known : Active(j)}
        /\ r.new = NoConfig
    BY DEF Sweep, IdleCmd
  <2> HIDE DEF r
  <2>3. \A j \in Job \ {next} : status'[j] = status[j] /\ desc'[j] = desc[j]
    BY <1>1, <2>1
  <2>4. /\ \A i, j \in {next} : i < j => desc'[j].dep = i
        /\ {next} \in SUBSET Job /\ \A j \in {next} : j >= next
    BY <1>1, <2>1
  <2>5. \A i \in known : \A j \in {next} :
           Active(i) /\ desc[i].cfg = desc'[j].cfg
           => i \in r.todo \/ (r.new = desc'[j].cfg /\ r.new # NoConfig)
    BY <2>2
  <2>6. cmd[c].pc \in {"idle", "fs_lock"} /\ (r.new # NoConfig => r.then = "stage_save")
    BY <2>1, <2>2
  <2>7. QED
    BY <2>1, <2>2, <2>3, <2>4, <2>5, <2>6, CallCreates
<1>5. CASE RenameLock(c) /\ fsLock' = c /\ fsLock # c
  <2> DEFINE g == cmd[c].cfg
             n == cmd[c].new
             S == {next, next + 1}
             r == [Sweep(ActiveOf(g, {}), "stage_save", S) EXCEPT !.new = n]
             h == NewJob("compile", n, NoConfig, NoJob)
             d == NewJob("rename", g, n, next)
  <2>1. /\ S \in SUBSET Job /\ cmd[c].pc = "fs_lock" /\ known' = known \cup S
        /\ desc' = [desc EXCEPT ![next] = h, ![next + 1] = d]
        /\ status' = [status EXCEPT ![next] = "queued", ![next + 1] = "queued"]
        /\ cmd' = [cmd EXCEPT ![c] = r] /\ cancelReq' = cancelReq
    <3>1. /\ cmd[c].pc = "fs_lock" /\ next + 2 <= MaxJob + 1 /\ known' = known \cup S
          /\ desc' = [desc EXCEPT ![next] = h, ![next + 1] = d]
          /\ status' = [status EXCEPT ![next] = "queued", ![next + 1] = "queued"]
          /\ cmd' = [cmd EXCEPT ![c] = r] /\ cancelReq' = cancelReq
      BY <1>5, Zenon DEF RenameLock
    <3>2. S \in SUBSET Job
      BY <1>1, <3>1
    <3>3. QED
      BY <3>1, <3>2
  <2>2. n \in Config
    BY <2>1 DEF TypeInv, TaskInv, CmdInv
  <2>3. /\ r.pc = "cancel" /\ r.own = S /\ r.todo = ActiveOf(g, {}) /\ r.new = n
        /\ r.then = "stage_save" /\ n # NoConfig
    BY <2>2, ConfigAssumption DEF Sweep, IdleCmd
  <2>4. h.cfg = n /\ d.cfg = g /\ d.dep = next
    BY DEF NewJob
  <2>5. \A i \in known : Active(i) /\ desc[i].cfg = g => i \in ActiveOf(g, {})
    BY DEF ActiveOf
  <2> HIDE DEF r, h, d, g, n
  <2>6. /\ \A j \in Job \ S : status'[j] = status[j] /\ desc'[j] = desc[j]
        /\ desc'[next] = h /\ desc'[next + 1] = d
    BY <1>1, <2>1
  <2>7. /\ \A i, j \in S : i < j => desc'[j].dep = i
        /\ \A j \in S : j >= next /\ desc'[j].cfg \in {g, n}
    BY <1>1, <2>4, <2>6
  <2> HIDE DEF S
  <2>8. \A i \in known : \A j \in S :
           Active(i) /\ desc[i].cfg = desc'[j].cfg
           => i \in r.todo \/ (r.new = desc'[j].cfg /\ r.new # NoConfig)
    BY <2>3, <2>5, <2>7
  <2>9. cmd[c].pc \in {"idle", "fs_lock"} /\ (r.new # NoConfig => r.then = "stage_save")
    BY <2>1, <2>3
  <2>10. /\ S \in SUBSET Job /\ cmd' = [cmd EXCEPT ![c] = r] /\ known' = known \cup S
         /\ cancelReq' = cancelReq /\ r.pc = "cancel" /\ r.own = S
         /\ \A j \in S : j >= next
    BY <2>1, <2>3, <2>7
  <2>11. \A j \in Job \ S : status'[j] = status[j] /\ desc'[j] = desc[j]
    BY <2>6
  <2>12. \A i, j \in S : i < j => desc'[j].dep = i
    BY <2>7
  <2>13. QED
    BY <2>8, <2>9, <2>10, <2>11, <2>12, CallCreates
<1>6. QED
  BY <1>2, <1>3, <1>4, <1>5

-----------------------------------------------------------------------------
(* The steps of the calls *)

\* Calls that start without a job, or end.
LEMMA CallStarts ==
    ASSUME TypeInv, Tracked, OneChainPerDevice, restarts' = restarts,
           NEW c \in Client, NEW r, cmd' = [cmd EXCEPT ![c] = r],
           cmd[c].pc \in {"idle", "fs_lock", "save"},
           UNCHANGED <<desc, status, cancelReq>>, known' \subseteq known,
           r.own = {}, r.pc \in {"idle", "fs_lock", "save", "cancel"},
           r.pc # "cancel" => r.todo = {}
    PROVE  Follows
<1>1. cmd[c].todo = {} /\ (cmd[c].own = {} \/ cmd[c].new = NoConfig)
  BY DEF Tracked, CallTracks, SweepPc
<1>2. CallTracks(r, status', cancelReq')
  BY DEF CallTracks, SweepPc
<1>3. /\ \A j \in Job : status'[j] \in Waiting => status[j] \in Waiting
      /\ \A j \in Job : status[j] \in Terminal => status'[j] = status[j]
      /\ cancelReq \subseteq cancelReq' /\ desc' = desc /\ r.own \subseteq cmd[c].own
  OBVIOUS
<1>4. \A i \in cmd[c].todo : i \in r.todo \/ i \in cancelReq' \/ ~Active(i)'
  BY <1>1
<1>5. \A i, j \in Job :
         /\ Active(i)' /\ Active(j)' /\ i < j
         /\ desc[i].cfg = desc[j].cfg /\ desc[j].dep # i
         /\ j \in cmd[c].own /\ cmd[c].new = desc[j].cfg /\ cmd[c].new # NoConfig
         => (r.own = cmd[c].own /\ r.new = cmd[c].new) \/ i \in r.todo
  BY <1>1
<1>6. QED
  BY <1>2, <1>3, <1>4, <1>5, CallGoesOn

LEMMA IdleSteps ==
    ASSUME TypeInv, Tracked, OneChainPerDevice, restarts' = restarts,
           NEW c \in Client,
           \/ \E g, n \in Config : Rename(c, g, n)
           \/ \E j \in Job : Cancel(c, j)
           \/ \E st \in ClearStatuses : Clear(c, st)
           \/ RenameLock(c) /\ UNCHANGED fsLock
           \/ CommitSaved(c)
    PROVE  Follows
<1>0. IdleCmd.own = {} /\ IdleCmd.pc = "idle" /\ IdleCmd.todo = {}
  BY DEF IdleCmd
<1>1. CASE \E g, n \in Config : Rename(c, g, n)
  <2>1. PICK g \in Config, n \in Config : Rename(c, g, n)
    BY <1>1
  <2> DEFINE r == [IdleCmd EXCEPT !.pc = "fs_lock", !.cfg = g, !.new = n]
  <2>2. r.own = {} /\ r.pc = "fs_lock" /\ r.todo = {}
    BY DEF IdleCmd
  <2>3. /\ cmd' = [cmd EXCEPT ![c] = r] /\ cmd[c].pc = "idle"
        /\ UNCHANGED <<desc, status, cancelReq>> /\ known' \subseteq known
    BY <2>1 DEF Rename, CanCreate, jobVars
  <2> HIDE DEF r
  <2>4. QED
    BY <2>2, <2>3, CallStarts
<1>2. CASE \E j \in Job : Cancel(c, j)
  <2>1. PICK j \in Job : Cancel(c, j)
    BY <1>2
  <2> DEFINE r == Sweep({j}, "idle", {})
  <2>2. r.own = {} /\ r.pc = "cancel"
    BY SweepRecord
  <2>3. /\ cmd' = [cmd EXCEPT ![c] = r] /\ cmd[c].pc = "idle"
        /\ UNCHANGED <<desc, status, cancelReq>> /\ known' \subseteq known
    BY <2>1 DEF Cancel, jobVars
  <2> HIDE DEF r
  <2>4. QED
    BY <2>2, <2>3, CallStarts
<1>3. CASE \E st \in ClearStatuses : Clear(c, st)
  <2>1. PICK st \in ClearStatuses : Clear(c, st)
    BY <1>3
  <2> DEFINE r == [IdleCmd EXCEPT !.pc = "save"]
  <2>2. r.own = {} /\ r.pc = "save" /\ r.todo = {}
    BY DEF IdleCmd
  <2>3. /\ cmd' = [cmd EXCEPT ![c] = r] /\ cmd[c].pc = "idle"
        /\ UNCHANGED <<desc, status, cancelReq>> /\ known' \subseteq known
    BY <2>1 DEF Clear
  <2> HIDE DEF r
  <2>4. QED
    BY <2>2, <2>3, CallStarts
<1>4. CASE RenameLock(c) /\ UNCHANGED fsLock
  <2>1. cmd[c].pc = "fs_lock" /\ fsLock = NoOne /\ cancelReq' = cancelReq
    BY <1>4 DEF RenameLock
  <2>2. fsLock' # c
    BY <1>4, <2>1, TaskAssumption DEF Proc
  <2>3. UNCHANGED jobVars /\ cmd' = [cmd EXCEPT ![c] = IdleCmd]
    BY <1>4, <2>2, Zenon DEF RenameLock
  <2>4. UNCHANGED <<desc, status, cancelReq>> /\ known' \subseteq known
    BY <2>1, <2>3 DEF jobVars
  <2>5. QED
    BY <1>0, <2>1, <2>3, <2>4, CallStarts
<1>5. CASE CommitSaved(c)
  <2>1. /\ cmd' = [cmd EXCEPT ![c] = IdleCmd] /\ cmd[c].pc = "save"
        /\ UNCHANGED <<desc, status, cancelReq>> /\ known' \subseteq known
    BY <1>5 DEF CommitSaved, jobVars
  <2>2. QED
    BY <1>0, <2>1, CallStarts
<1>6. QED
  BY <1>1, <1>2, <1>3, <1>4, <1>5

\* Staging a rename: once its file is written its sweep has the jobs of the new name.
LEMMA StageSteps ==
    ASSUME TypeInv, Tracked, OneChainPerDevice, restarts' = restarts,
           NEW c \in Client, StageWritten(c) \/ StageFails(c)
    PROVE  Follows
<1>1. /\ cmd[c].todo = {} /\ cmd[c].pc = "stage_write"
      /\ UNCHANGED <<desc, status, cancelReq>> /\ known' \subseteq known
  BY DEF StageWritten, StageFails, Tracked, CallTracks, SweepPc, jobVars
<1>2. /\ \A j \in Job : status'[j] \in Waiting => status[j] \in Waiting
      /\ \A j \in Job : status[j] \in Terminal => status'[j] = status[j]
      /\ cancelReq \subseteq cancelReq' /\ desc' = desc
  BY <1>1
<1>3. CASE StageWritten(c)
  <2> DEFINE r == Sweep(ActiveOf(cmd[c].new, cmd[c].own), "save", cmd[c].own)
  <2>1. /\ r.own = cmd[c].own /\ r.pc = "cancel" /\ r.new = NoConfig
        /\ r.todo = ActiveOf(cmd[c].new, cmd[c].own)
    BY DEF Sweep, IdleCmd
  <2>2. cmd' = [cmd EXCEPT ![c] = r] /\ known' = known
    BY <1>3 DEF StageWritten, jobVars
  <2> HIDE DEF r
  <2>3. CallTracks(r, status', cancelReq')
    BY <2>1 DEF CallTracks, SweepPc
  <2>4. ASSUME NEW i \in Job, NEW j \in Job, Active(i)', i < j, desc[i].cfg = desc[j].cfg,
               desc[j].dep # i, j \in cmd[c].own, cmd[c].new = desc[j].cfg
        PROVE  i \in r.todo
    <3>1. i \notin cmd[c].own
      BY <2>4 DEF Tracked
    <3>2. Active(i)
      BY <1>1, <2>2, <2>4 DEF Active
    <3>3. i \in known
      BY <3>2 DEF Active
    <3>4. QED
      BY <2>1, <2>4, <3>1, <3>2, <3>3 DEF ActiveOf
  <2>5. \A i, j \in Job :
           /\ Active(i)' /\ Active(j)' /\ i < j
           /\ desc[i].cfg = desc[j].cfg /\ desc[j].dep # i
           /\ j \in cmd[c].own /\ cmd[c].new = desc[j].cfg /\ cmd[c].new # NoConfig
           => (r.own = cmd[c].own /\ r.new = cmd[c].new) \/ i \in r.todo
    BY <2>4
  <2>6. \A i \in cmd[c].todo : i \in r.todo \/ i \in cancelReq' \/ ~Active(i)'
    BY <1>1
  <2>7. r.own \subseteq cmd[c].own
    BY <2>1
  <2>8. QED
    BY <1>1, <1>2, <2>2, <2>3, <2>5, <2>6, <2>7, CallGoesOn
<1>4. CASE StageFails(c)
  <2>1. IdleCmd.own = {} /\ IdleCmd.pc = "idle" /\ IdleCmd.todo = {}
    BY DEF IdleCmd
  <2>2. cmd' = [cmd EXCEPT ![c] = IdleCmd] /\ known' = known \ cmd[c].own
    BY <1>4 DEF StageFails
  <2>3. CallTracks(IdleCmd, status', cancelReq')
    BY <2>1 DEF CallTracks
  <2>4. \A j \in cmd[c].own : ~Active(j)'
    BY <2>2 DEF Active
  <2>5. \A i, j \in Job :
           /\ Active(i)' /\ Active(j)' /\ i < j
           /\ desc[i].cfg = desc[j].cfg /\ desc[j].dep # i
           /\ j \in cmd[c].own /\ cmd[c].new = desc[j].cfg /\ cmd[c].new # NoConfig
           => (IdleCmd.own = cmd[c].own /\ IdleCmd.new = cmd[c].new) \/ i \in IdleCmd.todo
    BY <2>4
  <2>6. \A i \in cmd[c].todo : i \in IdleCmd.todo \/ i \in cancelReq' \/ ~Active(i)'
    BY <1>1
  <2>7. IdleCmd.own \subseteq cmd[c].own
    BY <2>1
  <2>8. QED
    BY <1>1, <1>2, <2>2, <2>3, <2>5, <2>6, <2>7, CallGoesOn
<1>5. QED
  BY <1>3, <1>4

\* A call on its way through its sweep keeps what it created and the name it stages.
LEMMA SweepGoesOn ==
    ASSUME TypeInv, Tracked, OneChainPerDevice, restarts' = restarts,
           NEW c \in Client, NEW r, cmd' = [cmd EXCEPT ![c] = r],
           desc' = desc, known' \subseteq known, cancelReq \subseteq cancelReq',
           \A j \in Job : status'[j] \in Waiting => status[j] \in Waiting,
           \A j \in Job : status[j] \in Terminal => status'[j] = status[j],
           CallTracks(r, status', cancelReq'), SameCall(r, cmd[c]),
           \A i \in cmd[c].todo : i \in r.todo \/ i \in cancelReq' \/ ~Active(i)'
    PROVE  Follows
<1>1. r.own \subseteq cmd[c].own /\ r.own = cmd[c].own /\ r.new = cmd[c].new
  BY DEF SameCall
<1>2. QED
  BY <1>1, CallGoesOn

LEMMA SweepSteps ==
    ASSUME TypeInv, Tracked, OneChainPerDevice, restarts' = restarts,
           NEW c \in Client,
           \/ StageSaved(c) \/ CancelRunning(c) \/ CancelMissed(c) \/ Killed(c)
           \/ CancelSavedAgain(c) \/ SweepDone(c) \/ ResetSwept(c)
    PROVE  Follows
<1>0. cmd[c] \in Cmd /\ CallTracks(cmd[c], status, cancelReq) /\ CmdInv(cmd[c])
  BY DEF TypeInv, TypeOK, TaskTypes, TaskInv, Tracked
<1>1. /\ UNCHANGED <<desc, status, known>> /\ known' \subseteq known
      /\ cancelReq \subseteq cancelReq'
  BY DEF StageSaved, CancelRunning, CancelMissed, Killed, CancelSavedAgain, SweepDone,
     ResetSwept, jobVars
<1>2. /\ \A j \in Job : status'[j] \in Waiting => status[j] \in Waiting
      /\ \A j \in Job : status[j] \in Terminal => status'[j] = status[j]
      /\ desc' = desc
  BY <1>1
<1>3. \A j : Active(j)' <=> Active(j)
  BY <1>1 DEF Active
<1>4. CASE StageSaved(c)
  <2> DEFINE r == [cmd[c] EXCEPT !.pc = "stage_write"]
  <2>1. cmd' = [cmd EXCEPT ![c] = r] /\ cmd[c].pc = "stage_save"
    BY <1>4 DEF StageSaved
  <2>2. SameCall(r, cmd[c]) /\ r.pc = "stage_write" /\ r.todo = cmd[c].todo
    BY <1>0 DEF SameCall, Cmd
  <2> HIDE DEF r
  <2>3. CallTracks(r, status', cancelReq')
    BY <1>0, <2>1, <2>2 DEF CallTracks, SameCall, SweepPc
  <2>4. \A i \in cmd[c].todo : i \in r.todo
    BY <2>2
  <2>5. QED
    BY <1>1, <1>2, <2>1, <2>2, <2>3, <2>4, SweepGoesOn
<1>5. CASE CancelRunning(c)
  <2> DEFINE j == MinOf(cmd[c].todo)
             r == [cmd[c] EXCEPT !.pc = "kill", !.job = j]
  <2>1. cmd' = [cmd EXCEPT ![c] = r] /\ cmd[c].pc = "cancel" /\ j \in cancelReq'
    BY <1>5 DEF CancelRunning, Sweeping
  <2>2. SameCall(r, cmd[c]) /\ r.pc = "kill" /\ r.todo = cmd[c].todo /\ r.job = j
    BY <1>0 DEF SameCall, Cmd
  <2> HIDE DEF r, j
  <2>3. CallTracks(r, status', cancelReq')
    BY <1>0, <2>1, <2>2 DEF CallTracks, SameCall, SweepPc
  <2>4. \A i \in cmd[c].todo : i \in r.todo
    BY <2>2
  <2>5. QED
    BY <1>1, <1>2, <2>1, <2>2, <2>3, <2>4, SweepGoesOn
<1>6. CASE CancelMissed(c)
  <2> DEFINE j == MinOf(cmd[c].todo)
             r == [cmd[c] EXCEPT !.todo = cmd[c].todo \ {j}]
  <2>1. cmd' = [cmd EXCEPT ![c] = r] /\ cmd[c].pc = "cancel" /\ ~Active(j)
    BY <1>6 DEF CancelMissed, Sweeping
  <2>2. SameCall(r, cmd[c]) /\ r.pc = "cancel" /\ r.todo = cmd[c].todo \ {j}
    BY <1>0, <2>1 DEF SameCall, Cmd
  <2> HIDE DEF r, j
  <2>3. CallTracks(r, status', cancelReq')
    BY <1>0, <2>1, <2>2 DEF CallTracks, SameCall, SweepPc
  <2>4. \A i \in cmd[c].todo : i \in r.todo \/ i \in cancelReq' \/ ~Active(i)'
    BY <1>3, <2>1, <2>2
  <2>5. QED
    BY <1>1, <1>2, <2>1, <2>2, <2>3, <2>4, SweepGoesOn
<1>7. CASE Killed(c)
  <2> DEFINE r == [cmd[c] EXCEPT !.pc = "cancel", !.todo = cmd[c].todo \ {cmd[c].job},
                                 !.job = NoJob]
  <2>1. cmd' = [cmd EXCEPT ![c] = r] /\ cmd[c].pc = "kill"
    BY <1>7 DEF Killed
  <2>2. SameCall(r, cmd[c]) /\ r.pc = "cancel" /\ r.todo = cmd[c].todo \ {cmd[c].job}
    BY <1>0 DEF SameCall, Cmd
  <2> HIDE DEF r
  <2>3. CallTracks(r, status', cancelReq')
    BY <1>0, <2>1, <2>2 DEF CallTracks, SameCall, SweepPc
  <2>4. \A i : i = cmd[c].job => i \in cancelReq' \/ ~Active(i)'
    BY <1>0, <1>1, <1>3, <2>1 DEF CallTracks, Active
  <2>5. \A i \in cmd[c].todo : i \in r.todo \/ i \in cancelReq' \/ ~Active(i)'
    BY <2>2, <2>4
  <2>6. QED
    BY <1>1, <1>2, <2>1, <2>2, <2>3, <2>5, SweepGoesOn
<1>8. CASE CancelSavedAgain(c)
  <2> DEFINE j == cmd[c].job
             X == IF IsTail(j) /\ Active(desc[j].dep) THEN {desc[j].dep} ELSE {}
             r == [cmd[c] EXCEPT !.pc = "cancel", !.job = NoJob,
                                 !.todo = (cmd[c].todo \ {j}) \cup X]
  <2>1. cmd' = [cmd EXCEPT ![c] = r] /\ cmd[c].pc = "save2"
    BY <1>8 DEF CancelSavedAgain, CancelEnds
  <2>2. SameCall(r, cmd[c]) /\ r.pc = "cancel" /\ r.todo = (cmd[c].todo \ {j}) \cup X
    BY <1>0 DEF SameCall, Cmd
  <2> HIDE DEF r, X
  <2>3. CallTracks(r, status', cancelReq')
    BY <1>0, <2>1, <2>2 DEF CallTracks, SameCall, SweepPc
  <2>4. \A i : i = j => ~Active(i)'
    BY <1>0, <1>3, <2>1 DEF CallTracks, Active
  <2>5. \A i \in cmd[c].todo : i \in r.todo \/ i \in cancelReq' \/ ~Active(i)'
    BY <2>2, <2>4
  <2>6. QED
    BY <1>1, <1>2, <2>1, <2>2, <2>3, <2>5, SweepGoesOn
<1>9. CASE SweepDone(c) /\ cmd[c].then # "idle"
  <2> DEFINE r == [cmd[c] EXCEPT !.pc = cmd[c].then]
  <2>1. cmd' = [cmd EXCEPT ![c] = r] /\ cmd[c].pc = "cancel" /\ cmd[c].todo = {}
    BY <1>9 DEF SweepDone
  <2>2. SameCall(r, cmd[c]) /\ r.pc = cmd[c].then /\ r.todo = {}
    BY <1>0, <2>1 DEF SameCall, Cmd
  <2>3. cmd[c].then \in {"save", "stage_save"}
    BY <1>0, <1>9 DEF Cmd, SweepDone
  <2> HIDE DEF r
  <2>4. CallTracks(r, status', cancelReq')
    BY <1>0, <2>1, <2>2, <2>3 DEF CallTracks, SameCall, SweepPc
  <2>5. \A i \in cmd[c].todo : i \in r.todo
    BY <2>1
  <2>6. QED
    BY <1>1, <1>2, <2>1, <2>2, <2>4, <2>5, SweepGoesOn
<1>10. CASE SweepDone(c) /\ cmd[c].then = "idle"
  <2>1. cmd' = [cmd EXCEPT ![c] = IdleCmd] /\ cmd[c].todo = {}
    BY <1>10 DEF SweepDone
  <2>2. cmd[c].own = {} \/ cmd[c].new = NoConfig
    BY <1>0, <1>10 DEF CallTracks
  <2>3. IdleCmd.own = {} /\ CallTracks(IdleCmd, status', cancelReq')
    BY DEF CallTracks, IdleCmd
  <2>4. \A i \in cmd[c].todo : i \in IdleCmd.todo
    BY <2>1
  <2>5. QED
    BY <1>1, <1>2, <2>1, <2>2, <2>3, <2>4, CallGoesOn
<1>11. CASE ResetSwept(c)
  <2> DEFINE r == [cmd[c] EXCEPT !.pc = "save"]
  <2>1. /\ cmd' = [cmd EXCEPT ![c] = r] /\ cmd[c].pc = "cancel" /\ cmd[c].todo = {}
        /\ cmd[c].then = "place"
    BY <1>11 DEF ResetSwept
  <2>2. SameCall(r, cmd[c]) /\ r.pc = "save" /\ r.todo = {}
    BY <1>0, <2>1 DEF SameCall, Cmd
  <2> HIDE DEF r
  <2>3. CallTracks(r, status', cancelReq')
    BY <1>0, <2>1, <2>2 DEF CallTracks, SameCall, SweepPc
  <2>4. \A i \in cmd[c].todo : i \in r.todo
    BY <2>1
  <2>5. QED
    BY <1>1, <1>2, <2>1, <2>2, <2>3, <2>4, SweepGoesOn
<1>12. QED
  BY <1>4, <1>5, <1>6, <1>7, <1>8, <1>9, <1>10, <1>11

LEMMA CancelQueuedStep ==
    ASSUME TypeInv, Tracked, OneChainPerDevice, restarts' = restarts,
           NEW c \in Client, CancelQueued(c)
    PROVE  Follows
<1> DEFINE j == MinOf(cmd[c].todo)
           r == [cmd[c] EXCEPT !.pc = "save1", !.job = j]
<1>1. cmd[c] \in Cmd /\ CallTracks(cmd[c], status, cancelReq) /\ status \in [Job -> Status]
  BY DEF TypeInv, TypeOK, TaskTypes, JobTypes, Tracked
<1>2. /\ cmd' = [cmd EXCEPT ![c] = r] /\ cmd[c].pc = "cancel" /\ status[j] = "queued"
      /\ j \in known /\ status' = [status EXCEPT ![j] = "cancelled"]
      /\ known' = Prune(known, status') /\ desc' = desc /\ cancelReq' = cancelReq
  BY DEF CancelQueued, Sweeping
<1>3. j \in Job
  BY <1>2 DEF TypeInv, TypeOK, JobTypes
<1>4. SameCall(r, cmd[c]) /\ r.pc = "save1" /\ r.todo = cmd[c].todo /\ r.job = j
  BY <1>1 DEF SameCall, Cmd
<1> HIDE DEF r, j
<1>5. /\ \A i \in Job : status'[i] \in Waiting => status[i] \in Waiting
      /\ \A i \in Job : status[i] \in Terminal => status'[i] = status[i]
      /\ status'[j] \in Terminal
  BY <1>1, <1>2, <1>3 DEF Waiting
<1>6. CallTracks(r, status', cancelReq')
  BY <1>1, <1>2, <1>4, <1>5 DEF CallTracks, SameCall, SweepPc
<1>7. \A i \in cmd[c].todo : i \in r.todo
  BY <1>4
<1>8. known' \subseteq known /\ cancelReq \subseteq cancelReq'
  BY <1>2, PruneKeeps
<1>9. QED
  BY <1>2, <1>4, <1>5, <1>6, <1>7, <1>8, SweepGoesOn

LEMMA CancelSavedStep ==
    ASSUME TypeInv, Tracked, OneChainPerDevice, restarts' = restarts,
           NEW c \in Client, CancelSaved(c)
    PROVE  Follows
<1> DEFINE j == cmd[c].job
           X == IF IsTail(j) /\ Active(desc[j].dep) THEN {desc[j].dep} ELSE {}
           r == [cmd[c] EXCEPT !.pc = "cancel", !.job = NoJob,
                               !.todo = (cmd[c].todo \ {j}) \cup X]
           s == [cmd[c] EXCEPT !.pc = "save2"]
<1>1. cmd[c] \in Cmd /\ CallTracks(cmd[c], status, cancelReq) /\ CmdInv(cmd[c])
  BY DEF TypeInv, TypeOK, TaskTypes, TaskInv, Tracked
<1>2. cmd[c].pc = "save1" /\ desc' = desc /\ cancelReq \subseteq cancelReq'
  BY DEF CancelSaved
<1>3. known' \subseteq known
  BY PruneKeeps DEF CancelSaved
<1>4. /\ \A i \in Job : status'[i] \in Waiting => status[i] \in Waiting
      /\ \A i \in Job : status[i] \in Terminal => status'[i] = status[i]
  <2>1. PICK S \in SUBSET Job :
              /\ \A i \in S : status[i] = "queued" /\ status'[i] = "cancelled"
              /\ \A i \in Job \ S : status'[i] = status[i]
    BY CancelSavedFacts
  <2>2. QED
    BY <2>1 DEF Waiting
<1>5. j \in Job /\ status'[j] \in Terminal
  BY <1>1, <1>2, <1>4 DEF CallTracks, CmdInv
<1>6. cmd' = [cmd EXCEPT ![c] = r] \/ cmd' = [cmd EXCEPT ![c] = s]
  BY DEF CancelSaved, CancelEnds
<1>7. SameCall(r, cmd[c]) /\ r.pc = "cancel" /\ r.todo = (cmd[c].todo \ {j}) \cup X
  BY <1>1 DEF SameCall, Cmd
<1>8. SameCall(s, cmd[c]) /\ s.pc = "save2" /\ s.todo = cmd[c].todo /\ s.job = j
  BY <1>1 DEF SameCall, Cmd
<1> HIDE DEF r, s, X
<1>9. CASE cmd' = [cmd EXCEPT ![c] = r]
  <2>1. CallTracks(r, status', cancelReq')
    BY <1>1, <1>2, <1>7 DEF CallTracks, SameCall, SweepPc
  <2>2. \A i : i = j => ~Active(i)'
    BY <1>5 DEF Active
  <2>3. \A i \in cmd[c].todo : i \in r.todo \/ i \in cancelReq' \/ ~Active(i)'
    BY <1>7, <2>2
  <2>4. QED
    BY <1>2, <1>3, <1>4, <1>7, <1>9, <2>1, <2>3, SweepGoesOn
<1>10. CASE cmd' = [cmd EXCEPT ![c] = s]
  <2>1. CallTracks(s, status', cancelReq')
    BY <1>1, <1>2, <1>5, <1>8 DEF CallTracks, SameCall, SweepPc
  <2>2. \A i \in cmd[c].todo : i \in s.todo
    BY <1>8
  <2>3. QED
    BY <1>2, <1>3, <1>4, <1>8, <1>10, <2>1, <2>2, SweepGoesOn
<1>11. QED
  BY <1>6, <1>9, <1>10

-----------------------------------------------------------------------------
(* The steps of the workers *)

LEMMA FinishRunStep ==
    ASSUME TypeInv, QueueInv, Tracked, OneChainPerDevice, restarts' = restarts,
           NEW w \in Worker, NEW rc \in Terminal, NEW offline \in BOOLEAN,
           wpc[w] \in SlotPc, FinishRun(w, rc, offline)
    PROVE  Follows
<1>1. PICK S \in SUBSET Job :
              /\ \A j \in S : status[j] \notin Terminal /\ status'[j] \in Terminal
              /\ \A j \in Job \ S : status'[j] = status[j]
  BY FinishRunFacts
<1>2. /\ \A j \in Job : status'[j] \in Waiting => status[j] \in Waiting
      /\ \A j \in Job : status[j] \in Terminal => status'[j] = status[j]
  BY <1>1 DEF Waiting
<1>3. cmd' = cmd /\ desc' = desc /\ known' \subseteq known
  BY PruneKeeps DEF FinishRun
<1>4. \A j \in cancelReq : j \in cancelReq' \/ status'[j] \in Terminal
  <2>1. wjob[w] \in Job
    BY DEF TypeInv, TaskInv, SlotPc
  <2>2. status'[wjob[w]] = rc
    BY <2>1 DEF FinishRun
  <2>3. cancelReq' = cancelReq \/ cancelReq' = cancelReq \ {wjob[w]}
    BY DEF FinishRun
  <2>4. QED
    BY <2>2, <2>3
<1>5. QED
  BY <1>2, <1>3, <1>4, CallsStill

LEMMA OtherSteps ==
    ASSUME TypeInv, QueueInv, Tracked, OneChainPerDevice, restarts' = restarts,
           \/ \E w \in Worker : WorkerStep(w)
           \/ SaveStep \/ RevertStep \/ UNCHANGED vars
    PROVE  Follows
<1>1. CASE \E w \in Worker : Take(w) \/ Recheck(w)
  <2>1. PICK w \in Worker : Take(w) \/ Recheck(w)
    BY <1>1
  <2>2. /\ \A j \in Job : status'[j] \in Waiting => status[j] \in Waiting
        /\ \A j \in Job : status[j] \in Terminal => status'[j] = status[j]
        /\ cmd' = cmd
    BY <2>1, ConsiderFacts DEF Waiting, Idling
  <2>3. desc' = desc /\ known' \subseteq known /\ cancelReq' = cancelReq
    BY <2>1 DEF Take, Recheck
  <2>4. QED
    BY <2>2, <2>3, CallsStill
<1>2. CASE \E w \in Worker : \/ PrepFails(w) \/ EpilogueFails(w) \/ EpilogueDone(w)
                             \/ \E ok, offline \in BOOLEAN : Exit(w, ok, offline)
  <2>1. PICK w \in Worker : \/ PrepFails(w) \/ EpilogueFails(w) \/ EpilogueDone(w)
                            \/ \E ok, offline \in BOOLEAN : Exit(w, ok, offline)
    BY <1>2
  <2>2. /\ wpc[w] \in SlotPc
        /\ \E r \in Terminal : \E offline \in BOOLEAN : FinishRun(w, r, offline)
    BY <2>1, FinishSteps
  <2>3. QED
    BY <2>2, FinishRunStep
<1>3. CASE \/ \E w \in Worker : Begun(w) \/ Spawn(w) \/ ExitToEpilogue(w) \/ Ended(w)
           \/ SaveStep \/ RevertStep \/ UNCHANGED vars
  <2>1. UNCHANGED <<cmd, desc, known, status, cancelReq>>
    <3>1. CASE \E w \in Worker : Begun(w) \/ Spawn(w) \/ ExitToEpilogue(w) \/ Ended(w)
      BY <3>1 DEF Begun, Spawn, ExitToEpilogue, Ended, jobVars
    <3>2. CASE SaveStep \/ RevertStep \/ UNCHANGED vars
      BY <3>2 DEF SaveStep, SaveBegin, SaveJob, SaveWrite, RevertStep, RevertStart,
         RevertDone, vars, jobVars
    <3>3. QED
      BY <1>3, <3>1, <3>2
  <2>2. QED
    BY <2>1, CallsStill
<1>4. QED
  BY <1>1, <1>2, <1>3 DEF WorkerStep

-----------------------------------------------------------------------------
(* Every step *)

LEMMA StepRestarts ==
    ASSUME [Next]_vars, ~Restart
    PROVE  restarts' = restarts
<1>1. CASE \E c \in Client : Request(c)
  BY <1>1 DEF Request, Compile, Upload, Clean, AnalyzeMemory, SubmitOne, Install,
     ResetBuildEnv, Rename, Cancel, Clear
<1>2. CASE \E c \in Client : ClientStep(c)
  BY <1>2 DEF ClientStep, RenameLock, StageSaved, StageWritten, StageFails, CancelQueued,
     CancelRunning, CancelMissed, Killed, CancelSaved, CancelSavedAgain, SweepDone,
     ResetSwept, CommitSaved
<1>3. CASE \E w \in Worker : WorkerStep(w)
  BY <1>3 DEF WorkerStep, Take, Recheck, Begun, Spawn, PrepFails, Exit, ExitToEpilogue,
     EpilogueDone, EpilogueFails, Ended, FinishRun
<1>4. CASE SaveStep \/ RevertStep \/ UNCHANGED vars
  BY <1>4 DEF SaveStep, SaveBegin, SaveJob, SaveWrite, RevertStep, RevertStart,
     RevertDone, vars
<1>5. QED
  BY <1>1, <1>2, <1>3, <1>4 DEF Next

LEMMA NextFollows ==
    ASSUME TypeInv, TypeInv', QueueInv, DeviceInv, [Next]_vars, ~Restart
    PROVE  Follows
<1>1. restarts' = restarts
  BY StepRestarts
<1>2. Tracked /\ OneChainPerDevice
  BY DEF DeviceInv, Tracked
<1>3. CASE \E c \in Client : Request(c)
  <2>1. PICK c \in Client : Request(c)
    BY <1>3
  <2>2. \/ \E g \in Config : \E op, ty : SubmitOne(c, op, ty, g)
        \/ \E g \in Config : Install(c, g)
        \/ ResetBuildEnv(c)
        \/ \E g, n \in Config : Rename(c, g, n)
        \/ \E j \in Job : Cancel(c, j)
        \/ \E st \in ClearStatuses : Clear(c, st)
    BY <2>1 DEF Request, Compile, Upload, Clean, AnalyzeMemory
  <2>3. QED
    BY <1>1, <1>2, <2>2, Creations, IdleSteps
<1>4. CASE \E c \in Client : ClientStep(c)
  <2>1. PICK c \in Client : ClientStep(c)
    BY <1>4
  <2>2. CASE RenameLock(c)
    <3>1. fsLock = NoOne /\ NoOne # c /\ (fsLock' = c \/ fsLock' = fsLock)
      BY <2>2, TaskAssumption DEF RenameLock, Proc
    <3>2. QED
      BY <1>1, <1>2, <2>2, <3>1, Creations, IdleSteps
  <2>3. CASE ~RenameLock(c)
    BY <1>1, <1>2, <2>1, <2>3, IdleSteps, StageSteps, SweepSteps, CancelQueuedStep,
       CancelSavedStep DEF ClientStep
  <2>4. QED
    BY <2>2, <2>3
<1>5. CASE \/ \E w \in Worker : WorkerStep(w)
           \/ SaveStep \/ RevertStep \/ UNCHANGED vars
  BY <1>1, <1>2, <1>5, OtherSteps
<1>6. QED
  BY <1>3, <1>4, <1>5 DEF Next

LEMMA NextDevices ==
    ASSUME TypeInv, TypeInv', QueueInv, DeviceInv, [Next]_vars
    PROVE  DeviceInv'
<1>1. CASE Restart
  <2>1. /\ \A c \in Client : cmd'[c] = IdleCmd
        /\ restarts' # 0
    BY <1>1, BoundsAssumption DEF Restart, TypeInv, TypeOK, HistTypes
  <2>2. IdleCmd.pc = "idle" /\ IdleCmd.own = {} /\ IdleCmd.todo = {}
    BY DEF IdleCmd
  <2>3. \A c \in Client : CallTracks(cmd[c], status, cancelReq)'
    BY <2>1, <2>2 DEF CallTracks
  <2>4. \A c \in Client : cmd'[c].own = {}
    BY <2>1, <2>2
  <2>5. OneChainPerDevice'
    BY <2>1 DEF OneChainPerDevice
  <2>6. QED
    BY <2>3, <2>4, <2>5 DEF DeviceInv
<1>2. CASE ~Restart
  BY <1>2, NextFollows DEF Follows, DeviceInv, Tracked
<1>3. QED
  BY <1>1, <1>2

LEMMA InitDevices == Init => DeviceInv
BY DEF Init, DeviceInv, OneChainPerDevice, CallTracks, IdleCmd

\* However calls, cancels, renames, resets and workers interleave, the jobs a device has
\* are one chain and older ones that are being stopped: supersede_active_jobs leaves none
\* out, and a rename keeps its promise to the target's jobs once its file is staged.
THEOREM OneChainPerDeviceHolds == WholeSnapshots => (Spec => []OneChainPerDevice)
<1>1. SUFFICES ASSUME WholeSnapshots PROVE Spec => []OneChainPerDevice
  OBVIOUS
<1>2. Spec => [](TypeInv /\ QueueInv)
  BY <1>1, InvHolds
<1>3. Init => DeviceInv
  BY InitDevices
<1>4. TypeInv /\ QueueInv /\ (TypeInv /\ QueueInv)' /\ DeviceInv /\ [Next]_vars => DeviceInv'
  BY NextDevices
<1>5. DeviceInv => OneChainPerDevice
  BY DEF DeviceInv, OneChainPerDevice
<1>6. QED
  BY <1>2, <1>3, <1>4, <1>5, PTL DEF Spec
=============================================================================
