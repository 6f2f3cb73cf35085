----------------------------- MODULE UpkeepProofs -----------------------------
(***************************************************************************)
(* Three of the parts that work for hours.  The debounced store: whatever  *)
(* order timers, flushes, writes, shutdowns and kills come in, and for any *)
(* number of write tasks, calls and mutations, what is in RAM is on its    *)
(* way to the file, the entries of the shared sidecar are not lost on the  *)
(* way to their own file, and the store implements WriteBehind.  The       *)
(* deferred installs: for any number of jobs, calls, failures and crashes, *)
(* what is owed to a sleeping device stays armed, because a job outlives a *)
(* later one only while a sweep of commit_chain has it on its list.  A     *)
(* build server's directories: for any number of offloaders, uploads,      *)
(* resets, cleanups and restarts, nothing is removed under a build that    *)
(* runs.  Last, the types of all three, and of the instance that combines  *)
(* them.                                                                   *)
(***************************************************************************)
EXTENDS MCUpkeep, TLAPS, FiniteSetTheorems, SequenceTheorems

USE StoreAssumption

-----------------------------------------------------------------------------
(* The lock: a writer is in line once, and only its first may be writing. *)

InLine(w) == \E i \in 1..Len(line) : line[i] = w

LineInv ==
    /\ \A i, j \in 1..Len(line) : line[i] = line[j] => i = j
    /\ \A i \in 1..Len(line) : at[line[i]] = "line" \/ (i = 1 /\ at[line[i]] = "write")
    /\ \A w \in Writer : at[w] \in {"line", "write"} => InLine(w)

\* Where a process that has just begun, and one that may still be told to stop, stands.
LifeInv ==
    /\ phase \in {"load", "migrate", "up"} => at["stop"] = "none"
    /\ phase = "load" =>
         /\ at = [w \in Writer |-> "none"] /\ line = <<>> /\ want = FALSE
         /\ latest = NoTask /\ timer = "off" /\ failed = 0

\* Versions go from RAM through a writer to the file, and each write brings a newer one.
VersionInv ==
    phase # "load" =>
       /\ file <= ram /\ failed <= ram
       /\ \A w \in Writer : at[w] = "write" => failed <= val[w] /\ val[w] <= ram
       /\ want => file < ram
       /\ want => \A w \in Writer : at[w] = "write" => val[w] < ram

StoreInv == StoreTypeOK /\ LineInv /\ LifeInv /\ VersionInv /\ SaveIsPending

LEMMA StoreInitInv == StoreInit => StoreInv
<1> SUFFICES ASSUME StoreInit PROVE StoreInv
  OBVIOUS
<1> USE DEF StoreInit
<1>1. StoreTypeOK
  <2>1. 0 \in 0..MaxVersion
    OBVIOUS
  <2>2. /\ at \in [Writer -> {"none", "new", "line", "write"} \cup Timed]
        /\ val \in [Writer -> 0..MaxVersion] 
    BY <2>1
  <2>3. line \in Seq(Writer)
    OBVIOUS
  <2>4. QED
    BY <2>1, <2>2, <2>3 DEF StoreTypeOK
<1>2. LineInv
  BY DEF LineInv, InLine
<1>3. LifeInv
  BY DEF LifeInv, Writer, Flusher
<1>4. VersionInv /\ SaveIsPending
  BY DEF VersionInv, SaveIsPending
<1>5. QED
  BY <1>1, <1>2, <1>3, <1>4 DEF StoreInv

-----------------------------------------------------------------------------
(* What a writer's segments do to the line and to the versions, whatever the *)
(* consumer did to RAM in the same step.                                     *)

\* Only the line's first writes.
LEMMA OneWriter ==
    ASSUME StoreTypeOK, LineInv, NEW w \in Writer, at[w] = "write"
    PROVE  line # <<>> /\ line[1] = w
BY DEF StoreTypeOK, LineInv, InLine

\* A writer that holds the lock over the rest of the line writes, or gives up and leaves the rest.
Behind(w, rest) ==
    /\ rest \in Seq(Writer)
    /\ \A i \in 1..Len(rest) : rest[i] # w /\ at[rest[i]] = "line"
    /\ \A i, j \in 1..Len(rest) : rest[i] = rest[j] => i = j
    /\ \A u \in Writer : u # w /\ at[u] \in {"line", "write"} => \E i \in 1..Len(rest) : rest[i] = u

LEMMA LineLeave ==
    ASSUME StoreTypeOK, NEW w \in Writer, NEW rest, Behind(w, rest),
           at' = [at EXCEPT ![w] = "none"], line' = rest
    PROVE  LineInv' /\ line' \in Seq(Writer)
BY DEF LineInv, InLine, StoreTypeOK, Behind

LEMMA LineWrite ==
    ASSUME StoreTypeOK, NEW w \in Writer, NEW rest, Behind(w, rest),
           at' = [at EXCEPT ![w] = "write"], line' = <<w>> \o rest
    PROVE  LineInv' /\ line' \in Seq(Writer)
<1>1. /\ line' \in Seq(Writer) /\ Len(line') = Len(rest) + 1 /\ line'[1] = w /\ Len(rest) \in Nat
      /\ \A i \in 2..Len(line') : i - 1 \in 1..Len(rest) /\ line'[i] = rest[i - 1]
      /\ \A i \in 1..Len(rest) : i + 1 \in 1..Len(line') /\ line'[i + 1] = rest[i]
  BY DEF Behind
<1>2. \A u \in Writer : at'[u] = IF u = w THEN "write" ELSE at[u]
  BY DEF StoreTypeOK
<1>3. \A i, j \in 1..Len(line') : line'[i] = line'[j] => i = j
  BY <1>1 DEF Behind
<1>4. \A i \in 1..Len(line') : at'[line'[i]] = "line" \/ (i = 1 /\ at'[line'[i]] = "write")
  <2>1. \A i \in 2..Len(line') : line'[i] \in Writer /\ at'[line'[i]] = "line"
    BY <1>1, <1>2 DEF Behind
  <2>2. QED
    BY <1>1, <1>2, <2>1
<1>5. \A u \in Writer : at'[u] \in {"line", "write"} => \E i \in 1..Len(line') : line'[i] = u
  BY <1>1, <1>2 DEF Behind
<1>6. QED
  BY <1>1, <1>3, <1>4, <1>5 DEF LineInv, InLine

LEMMA LineJoin ==
    ASSUME StoreTypeOK, LineInv, NEW w \in Writer, at[w] \notin {"line", "write"}, line # <<>>,
           at' = [at EXCEPT ![w] = "line"], line' = Append(line, w)
    PROVE  LineInv' /\ line' \in Seq(Writer)
<1>1. /\ line' \in Seq(Writer) /\ Len(line') = Len(line) + 1 /\ line'[Len(line) + 1] = w
      /\ \A i \in 1..Len(line) : line'[i] = line[i] /\ line[i] # w
      /\ Len(line) \in Nat /\ Len(line) > 0
  BY DEF StoreTypeOK, LineInv
<1>2. \A u \in Writer : at'[u] = IF u = w THEN "line" ELSE at[u]
  BY DEF StoreTypeOK
<1>3. \A i, j \in 1..Len(line') : line'[i] = line'[j] => i = j
  BY <1>1 DEF LineInv
<1>4. \A i \in 1..Len(line') : at'[line'[i]] = "line" \/ (i = 1 /\ at'[line'[i]] = "write")
  BY <1>1, <1>2 DEF LineInv, StoreTypeOK
<1>5. \A u \in Writer : at'[u] \in {"line", "write"} => \E i \in 1..Len(line') : line'[i] = u
  BY <1>1, <1>2 DEF LineInv, InLine
<1>6. QED
  BY <1>1, <1>3, <1>4, <1>5 DEF LineInv, InLine

\* What one segment of a writer does: it gives up, writes v, gets in line, or waits for the timer's write.
Effect(w, v, wanted) ==
    /\ LineInv' /\ line' \in Seq(Writer) /\ latest' \in Timed \cup {NoTask} /\ want' \in BOOLEAN
    /\ \/ at' = [at EXCEPT ![w] = "none"] /\ val' = val /\ ~wanted /\ ~want'
       \/ at' = [at EXCEPT ![w] = "write"] /\ val' = [val EXCEPT ![w] = v] /\ wanted /\ ~want'
       \/ \E a \in {"line"} \cup Timed : at' = [at EXCEPT ![w] = a] /\ val' = val /\ want' = wanted

LEMMA HandleWriteEffect ==
    ASSUME StoreTypeOK, LineInv, NEW w \in Writer, at[w] \notin {"line", "write"},
           NEW v, NEW wanted \in BOOLEAN, HandleWrite(w, v, wanted)
    PROVE  Effect(w, v, wanted)
<1>1. CASE line = <<>> /\ Captured(w, v, wanted, <<>>)
  <2>1. \A u \in Writer : at[u] \notin {"line", "write"}
    BY <1>1 DEF LineInv, InLine
  <2>2. Behind(w, <<>>)
    BY <2>1 DEF Behind
  <2>3. CASE wanted
    <3>1. /\ want' = FALSE /\ at' = [at EXCEPT ![w] = "write"] /\ val' = [val EXCEPT ![w] = v]
          /\ line' = <<w>> \o <<>> /\ latest' = latest
      BY <1>1, <2>3 DEF Captured
    <3>2. LineInv' /\ line' \in Seq(Writer)
      BY <2>2, <3>1, LineWrite
    <3>3. QED
      BY <2>3, <3>1, <3>2 DEF Effect, StoreTypeOK
  <2>4. CASE ~wanted
    <3>1. /\ want' = FALSE /\ at' = [at EXCEPT ![w] = "none"] /\ val' = val /\ line' = <<>> /\ Off(w)
      BY <1>1, <2>4 DEF Captured
    <3>2. LineInv' /\ line' \in Seq(Writer)
      BY <2>2, <3>1, LineLeave
    <3>3. latest' \in Timed \cup {NoTask}
      BY <3>1 DEF Off, StoreTypeOK
    <3>4. QED
      BY <2>4, <3>1, <3>2, <3>3 DEF Effect
  <2>5. QED
    BY <2>3, <2>4
<1>2. CASE line # <<>>
  <2>1. /\ line' = Append(line, w) /\ at' = [at EXCEPT ![w] = "line"]
        /\ want' = wanted /\ UNCHANGED <<val, latest>>
    BY <1>2 DEF HandleWrite
  <2>2. LineInv' /\ line' \in Seq(Writer)
    BY <1>2, <2>1, LineJoin
  <2>3. QED
    BY <2>1, <2>2 DEF Effect, StoreTypeOK
<1>3. QED
  BY <1>1, <1>2 DEF HandleWrite

\* A writer out of the line does nothing to it.
LEMMA LineSame ==
    ASSUME StoreTypeOK, LineInv, NEW w \in Writer, at[w] \notin {"line", "write"},
           NEW a, a \notin {"line", "write"}, at' = [at EXCEPT ![w] = a], line' = line
    PROVE  LineInv' /\ line' \in Seq(Writer)
<1>1. \A u \in Writer : at'[u] = IF u = w THEN a ELSE at[u]
  BY DEF StoreTypeOK
<1>2. \A i \in 1..Len(line) : line[i] \in Writer /\ line[i] # w
  BY DEF StoreTypeOK, LineInv
<1>3. QED
  BY <1>1, <1>2 DEF LineInv, InLine, StoreTypeOK

LEMMA FlushRestEffect ==
    ASSUME StoreTypeOK, LineInv, NEW w \in Writer, at[w] \notin {"line", "write"},
           NEW v, NEW wanted \in BOOLEAN, FlushRest(w, v, wanted)
    PROVE  Effect(w, v, wanted)
<1>1. CASE wanted
  BY <1>1, HandleWriteEffect DEF FlushRest
<1>2. CASE ~wanted
  <2>1. at' = [at EXCEPT ![w] = "none"] /\ want' = FALSE /\ UNCHANGED <<val, line, latest>>
    BY <1>2 DEF FlushRest
  <2>2. LineInv' /\ line' \in Seq(Writer)
    BY <2>1, LineSame
  <2>3. QED
    BY <1>2, <2>1, <2>2 DEF Effect, StoreTypeOK
<1>3. QED
  BY <1>1, <1>2

LEMMA FlushEffect ==
    ASSUME StoreTypeOK, LineInv, NEW w \in Writer, at[w] \notin {"line", "write"},
           NEW v, NEW wanted \in BOOLEAN, Flush(w, v, wanted)
    PROVE  Effect(w, v, wanted) /\ timer' = "off"
<1>1. CASE latest = NoTask
  BY <1>1, FlushRestEffect DEF Flush
<1>2. CASE latest # NoTask
  <2>1. at' = [at EXCEPT ![w] = latest] /\ want' = wanted /\ UNCHANGED <<val, line, latest>>
    BY <1>2 DEF Flush
  <2>2. latest \in Timed /\ latest \notin {"line", "write", "none"}
    BY <1>2 DEF StoreTypeOK
  <2>3. LineInv' /\ line' \in Seq(Writer)
    BY <2>1, <2>2, LineSame
  <2>4. timer' = "off"
    BY DEF Flush
  <2>5. QED
    BY <2>1, <2>2, <2>3, <2>4 DEF Effect, StoreTypeOK
<1>3. QED
  BY <1>1, <1>2

LEMMA GrantedEffect ==
    ASSUME StoreTypeOK, LineInv, NEW w \in Writer, Granted(w)
    PROVE  Effect(w, ram, want)
<1>1. at[w] = "line" /\ Head(line) = w /\ line # <<>>
  BY DEF Granted, LineInv, InLine, StoreTypeOK
<1> DEFINE rest == Tail(line)
<1>2. /\ rest \in Seq(Writer) /\ Len(rest) = Len(line) - 1 /\ line[1] = w
      /\ \A i \in 1..Len(rest) : i + 1 \in 1..Len(line) /\ rest[i] = line[i + 1]
      /\ \A i \in 2..Len(line) : i - 1 \in 1..Len(rest) /\ line[i] = rest[i - 1]
  BY <1>1 DEF StoreTypeOK
<1>3. \A i \in 1..Len(rest) : rest[i] # w /\ at[rest[i]] = "line"
  BY <1>1, <1>2 DEF LineInv
<1>4. \A i, j \in 1..Len(rest) : rest[i] = rest[j] => i = j
  BY <1>2 DEF LineInv
<1>5. Behind(w, rest)
  <2>1. \A u \in Writer : u # w /\ at[u] \in {"line", "write"} => \E i \in 1..Len(rest) : rest[i] = u
    <3>1. SUFFICES ASSUME NEW u \in Writer, u # w, at[u] \in {"line", "write"}
                   PROVE  \E i \in 1..Len(rest) : rest[i] = u
      OBVIOUS
    <3>2. PICK j \in 1..Len(line) : line[j] = u
      BY <3>1 DEF LineInv, InLine
    <3>3. line \in Seq(Writer) /\ j # 1
      BY <1>2, <3>1, <3>2 DEF StoreTypeOK
    <3>4. j \in 2..Len(line)
      BY <3>3
    <3>5. QED
      BY <1>2, <3>2, <3>4
  <2>2. QED
    BY <1>2, <1>3, <1>4, <2>1 DEF Behind
<1>6. Captured(w, ram, want, rest)
  BY DEF Granted
<1> HIDE DEF rest
<1>7. CASE want
  <2>1. /\ want' = FALSE /\ at' = [at EXCEPT ![w] = "write"] /\ val' = [val EXCEPT ![w] = ram]
        /\ line' = <<w>> \o rest /\ latest' = latest
    BY <1>6, <1>7 DEF Captured
  <2>2. LineInv' /\ line' \in Seq(Writer)
    BY <1>5, <2>1, LineWrite
  <2>3. QED
    BY <1>7, <2>1, <2>2 DEF Effect, StoreTypeOK
<1>8. CASE ~want
  <2>1. /\ want' = FALSE /\ at' = [at EXCEPT ![w] = "none"] /\ val' = val /\ line' = rest /\ Off(w)
    BY <1>6, <1>8 DEF Captured
  <2>2. LineInv' /\ line' \in Seq(Writer)
    BY <1>5, <2>1, LineLeave
  <2>3. latest' \in Timed \cup {NoTask}
    BY <2>1 DEF Off, StoreTypeOK
  <2>4. QED
    BY <1>8, <2>1, <2>2, <2>3 DEF Effect
<1>9. QED
  BY <1>7, <1>8 DEF StoreTypeOK

-----------------------------------------------------------------------------
(* Every step *)

\* What must hold of the value v in RAM, wanted on disk or not, when a writer's segment begins.
Ready(v, wanted) ==
    /\ file <= v /\ failed <= v
    /\ \A u \in Writer : at[u] = "write" => failed <= val[u] /\ val[u] <= v /\ val[u] > file
    /\ wanted => file < v
    /\ wanted => \A u \in Writer : at[u] = "write" => val[u] < v
    /\ file # v => \/ wanted
                   \/ \E u \in Writer : at[u] = "write" /\ val[u] = v
                   \/ failed = v

LEMMA InvReady == ASSUME StoreInv, phase # "load" PROVE Ready(ram, want)
BY DEF StoreInv, Ready, VersionInv, SaveIsPending

LEMMA EffectKeeps ==
    ASSUME StoreTypeOK, NEW w \in Writer, at[w] # "write", NEW v \in 0..MaxVersion, NEW wanted \in BOOLEAN,
           Ready(v, wanted), Effect(w, v, wanted), ram' = v, file' = file, failed' = failed
    PROVE  /\ VersionInv' /\ SaveIsPending'
           /\ at' \in [Writer -> {"none", "new", "line", "write"} \cup Timed]
           /\ val' \in [Writer -> 0..MaxVersion]
<1>1. CASE at' = [at EXCEPT ![w] = "none"] /\ val' = val /\ ~wanted /\ ~want'
  <2>1. \A u \in Writer : at'[u] = IF u = w THEN "none" ELSE at[u]
    BY <1>1 DEF StoreTypeOK
  <2>2. QED
    BY <1>1, <2>1 DEF Ready, VersionInv, SaveIsPending, StoreTypeOK
<1>2. CASE at' = [at EXCEPT ![w] = "write"] /\ val' = [val EXCEPT ![w] = v] /\ wanted /\ ~want'
  <2>1. /\ \A u \in Writer : at'[u] = IF u = w THEN "write" ELSE at[u]
        /\ \A u \in Writer : val'[u] = IF u = w THEN v ELSE val[u]
    BY <1>2 DEF StoreTypeOK
  <2>2. QED
    BY <1>2, <2>1 DEF Ready, VersionInv, SaveIsPending, StoreTypeOK
<1>3. ASSUME NEW a \in {"line"} \cup Timed, at' = [at EXCEPT ![w] = a], val' = val, want' = wanted
      PROVE  /\ VersionInv' /\ SaveIsPending'
             /\ at' \in [Writer -> {"none", "new", "line", "write"} \cup Timed]
             /\ val' \in [Writer -> 0..MaxVersion]
  <2>1. /\ \A u \in Writer : at'[u] = IF u = w THEN a ELSE at[u]
        /\ a \notin {"none", "write"}
    BY <1>3 DEF StoreTypeOK
  <2>2. VersionInv'
    BY <1>3, <2>1 DEF Ready, VersionInv
  <2>3. SaveIsPending'
    BY <1>3, <2>1 DEF Ready, SaveIsPending
  <2>4. QED
    BY <1>3, <2>1, <2>2, <2>3 DEF StoreTypeOK
<1>4. QED
  BY <1>1, <1>2, <1>3 DEF Effect

\* A segment in a step that leaves the process loaded, and shutdown's flush alone until there is one.
LEMMA SegmentKeeps ==
    ASSUME StoreInv, NEW w \in Writer, at[w] # "write", NEW v \in 0..MaxVersion, NEW wanted \in BOOLEAN,
           Ready(v, wanted), Effect(w, v, wanted), ram' = v, file' = file, failed' = failed,
           phase' \in {"migrate", "up", "stop", "down"}, timer' \in {"off", "armed", "early"}, legacy' \in BOOLEAN,
           phase' \in {"migrate", "up"} => w # "stop" /\ at["stop"] = "none"
    PROVE  StoreInv'
<1>1. /\ VersionInv' /\ SaveIsPending'
      /\ at' \in [Writer -> {"none", "new", "line", "write"} \cup Timed]
      /\ val' \in [Writer -> 0..MaxVersion]
  BY EffectKeeps DEF StoreInv
<1>2. StoreTypeOK'
  BY <1>1 DEF StoreTypeOK, StoreInv, Effect
<1>3. LifeInv'
  <2>1. \A u \in Writer : u # w => at'[u] = at[u]
    BY DEF Effect, StoreInv, StoreTypeOK
  <2>2. "stop" \in Writer
    BY DEF Writer, Flusher
  <2>3. QED
    BY <2>1, <2>2 DEF LifeInv
<1>4. QED
  BY <1>1, <1>2, <1>3 DEF StoreInv, Effect

LEMMA WriterKinds ==
    /\ Timed \subseteq Writer /\ Flusher \subseteq Writer /\ Caller \subseteq Flusher
    /\ "boot" \in Flusher /\ "stop" \in Flusher
    /\ "stop" \notin Timed \cup Caller /\ "boot" \notin Timed \cup Caller
BY DEF Writer, Flusher

LEMMA TypesOfInv == ASSUME StoreInv PROVE StoreTypeOK /\ LineInv /\ ram \in 0..MaxVersion /\ want \in BOOLEAN
BY DEF StoreInv, StoreTypeOK

LEMMA GrantedKeeps == ASSUME StoreInv, NEW w \in Writer, Granted(w) PROVE StoreInv'
<1>1. Effect(w, ram, want)
  BY GrantedEffect, TypesOfInv
<1>2. /\ at[w] = "line" /\ UNCHANGED <<phase, ram, file, legacy, timer, failed>>
  BY DEF Granted
<1>3. phase # "load"
  BY <1>2 DEF StoreInv, LifeInv
<1>4. phase' \in {"migrate", "up"} => w # "stop" /\ at["stop"] = "none"
  BY <1>2 DEF StoreInv, LifeInv
<1>5. QED
  BY <1>1, <1>2, <1>3, <1>4, InvReady, SegmentKeeps, TypesOfInv DEF StoreInv, StoreTypeOK

LEMMA TaskRunsKeeps == ASSUME StoreInv, NEW w \in Timed, TaskRuns(w) PROVE StoreInv'
<1>1. at[w] = "new" /\ HandleWrite(w, ram, want) /\ UNCHANGED <<phase, ram, file, legacy, timer, failed>>
  BY DEF TaskRuns
<1>2. Effect(w, ram, want)
  BY <1>1, HandleWriteEffect, TypesOfInv, WriterKinds
<1>3. phase # "load" /\ w # "stop"
  BY <1>1, WriterKinds DEF StoreInv, LifeInv
<1>4. phase' \in {"migrate", "up"} => at["stop"] = "none"
  BY <1>1 DEF StoreInv, LifeInv
<1>5. QED
  BY <1>1, <1>2, <1>3, <1>4, InvReady, SegmentKeeps, TypesOfInv, WriterKinds DEF StoreInv, StoreTypeOK

LEMMA JoinedKeeps == ASSUME StoreInv, NEW w \in Flusher, Joined(w) PROVE StoreInv'
<1>1. at[w] \in Timed /\ FlushRest(w, ram, want) /\ UNCHANGED <<phase, ram, file, legacy, timer, failed>>
  BY DEF Joined
<1>2. Effect(w, ram, want)
  BY <1>1, FlushRestEffect, TypesOfInv, WriterKinds
<1>3. phase # "load" /\ at[w] # "none"
  BY <1>1, WriterKinds DEF StoreInv, LifeInv
<1>4. phase' \in {"migrate", "up"} => w # "stop" /\ at["stop"] = "none"
  BY <1>1, <1>3 DEF StoreInv, LifeInv
<1>5. QED
  BY <1>1, <1>2, <1>3, <1>4, InvReady, SegmentKeeps, TypesOfInv, WriterKinds DEF StoreInv, StoreTypeOK

LEMMA WriteEndsKeeps == ASSUME StoreInv, NEW w \in Writer, WriteEnds(w) PROVE StoreInv'
<1>1. /\ at[w] = "write" /\ at' = [at EXCEPT ![w] = "none"] /\ line' = Tail(line) /\ Off(w)
      /\ UNCHANGED <<phase, ram, legacy, want, timer, val>>
      /\ \/ file' = val[w] /\ failed' = failed
         \/ failed' = val[w] /\ file' = file
  BY DEF WriteEnds
<1>2. StoreTypeOK /\ LineInv /\ line # <<>> /\ line[1] = w
  BY <1>1, OneWriter, TypesOfInv
<1> DEFINE rest == Tail(line)
<1>3. Behind(w, rest)
  <2>1. /\ rest \in Seq(Writer) /\ Len(rest) = Len(line) - 1 /\ line[1] = w
        /\ \A i \in 1..Len(rest) : i + 1 \in 1..Len(line) /\ rest[i] = line[i + 1]
        /\ \A i \in 2..Len(line) : i - 1 \in 1..Len(rest) /\ line[i] = rest[i - 1]
    BY <1>2 DEF StoreTypeOK
  <2> HIDE DEF rest
  <2>2. \A i \in 1..Len(rest) : rest[i] # w /\ at[rest[i]] = "line"
    BY <1>2, <2>1 DEF LineInv
  <2>3. \A i, j \in 1..Len(rest) : rest[i] = rest[j] => i = j
    BY <1>2, <2>1 DEF LineInv
  <2>4. \A u \in Writer : u # w /\ at[u] \in {"line", "write"} => \E i \in 1..Len(rest) : rest[i] = u
    BY <1>2, <2>1 DEF LineInv, InLine
  <2>5. QED
    BY <2>1, <2>2, <2>3, <2>4 DEF Behind
<1> HIDE DEF rest
<1>4. LineInv' /\ line' \in Seq(Writer)
  BY <1>1, <1>2, <1>3, LineLeave DEF rest
<1>5. \A u \in Writer : at'[u] = IF u = w THEN "none" ELSE at[u]
  BY <1>1, <1>2 DEF StoreTypeOK
<1>6. \A u \in Writer : at'[u] # "write"
  BY <1>1, <1>2, <1>5, OneWriter
<1>7. StoreTypeOK'
  BY <1>1, <1>2, <1>4 DEF StoreTypeOK, Off
<1>8. phase # "load"
  BY <1>1 DEF StoreInv, LifeInv
<1>9. LifeInv'
  BY <1>1, <1>5, <1>8, WriterKinds DEF StoreInv, LifeInv
<1>10. VersionInv' /\ SaveIsPending'
  <2>1. /\ file <= ram /\ failed <= ram /\ failed <= val[w] /\ val[w] <= ram /\ val[w] > file
        /\ want => file < ram /\ val[w] < ram
        /\ val[w] \in Nat /\ file \in Nat /\ failed \in Nat /\ ram \in Nat
    BY <1>1, <1>2, <1>8 DEF StoreInv, VersionInv, SaveIsPending, StoreTypeOK
  <2>2. VersionInv'
    BY <1>1, <1>6, <2>1 DEF VersionInv
  <2>3. CASE ram = val[w]
    <3>1. file' = ram' \/ failed' = ram'
      BY <1>1, <2>3
    <3>2. QED
      BY <1>6, <2>2, <3>1 DEF SaveIsPending
  <2>4. CASE ram # val[w]
    <3>1. \/ want /\ (timer # "off" \/ \E u \in Writer : at[u] \notin {"none", "write"})
          \/ failed = ram
      BY <1>1, <1>2, <1>8, <2>1, <2>4, OneWriter DEF StoreInv, SaveIsPending
    <3>2. want /\ (timer # "off" \/ \E u \in Writer : at[u] \notin {"none", "write"})
      BY <2>1, <2>4, <3>1
    <3>3. want' /\ (timer' # "off" \/ \E u \in Writer : at'[u] \notin {"none", "write"})
      BY <1>1, <1>5, <3>2
    <3>4. QED
      BY <1>6, <2>2, <3>3 DEF SaveIsPending
  <2>5. QED
    BY <2>2, <2>3, <2>4
<1>11. QED
  BY <1>4, <1>7, <1>9, <1>10 DEF StoreInv

LEMMA MutateNowKeeps == ASSUME StoreInv, NEW f \in Caller, MutateNow(f) PROVE StoreInv'
<1>1. /\ phase = "up" /\ at[f] = "none" /\ ram < MaxVersion /\ ram' = ram + 1 /\ Flush(f, ram + 1, TRUE)
      /\ UNCHANGED <<phase, file, legacy, failed>>
  BY DEF MutateNow, Newer
<1>2. Effect(f, ram + 1, TRUE) /\ timer' = "off"
  BY <1>1, FlushEffect, TypesOfInv, WriterKinds
<1>3. Ready(ram + 1, TRUE)
  BY <1>1 DEF StoreInv, StoreTypeOK, Ready, VersionInv, SaveIsPending
<1>4. ram + 1 \in 0..MaxVersion
  BY <1>1 DEF StoreInv, StoreTypeOK
<1>5. f \in Writer /\ at[f] # "write" /\ f # "stop" /\ at["stop"] = "none"
  BY <1>1, WriterKinds DEF StoreInv, LifeInv
<1>6. phase' = "up" /\ timer' \in {"off", "armed", "early"} /\ legacy' \in BOOLEAN
  BY <1>1, <1>2 DEF StoreInv, StoreTypeOK
<1>7. QED
  BY <1>1, <1>2, <1>3, <1>4, <1>5, <1>6, SegmentKeeps

LEMMA StopKeeps == ASSUME StoreInv, Stop PROVE StoreInv'
<1>1. phase = "up" /\ phase' = "stop" /\ Flush("stop", ram, want) /\ UNCHANGED <<ram, file, legacy, failed>>
  BY DEF Stop
<1>2. at["stop"] = "none"
  BY <1>1 DEF StoreInv, LifeInv
<1>3. Effect("stop", ram, want) /\ timer' = "off"
  BY <1>1, <1>2, FlushEffect, TypesOfInv, WriterKinds
<1>4. QED
  BY <1>1, <1>2, <1>3, InvReady, SegmentKeeps, TypesOfInv, WriterKinds DEF StoreInv, StoreTypeOK

LEMMA LoadKeeps == ASSUME StoreInv, Load PROVE StoreInv'
<1>1. /\ phase = "load" /\ at = [w \in Writer |-> "none"] /\ line = <<>> /\ want = FALSE
      /\ latest = NoTask /\ timer = "off" /\ failed = 0 /\ UNCHANGED <<file, legacy, failed>>
  BY DEF Load, StoreInv, LifeInv
<1>2. CASE phase' = "up" /\ ram' = file /\ UNCHANGED <<want, timer, latest, at, val, line>>
  <2>1. StoreTypeOK'
    BY <1>1, <1>2 DEF StoreInv, StoreTypeOK
  <2>2. LineInv'
    BY <1>1, <1>2 DEF StoreInv, LineInv, InLine
  <2>3. LifeInv' /\ VersionInv' /\ SaveIsPending'
    BY <1>1, <1>2, WriterKinds DEF LifeInv, VersionInv, SaveIsPending, StoreInv, StoreTypeOK
  <2>4. QED
    BY <2>1, <2>2, <2>3 DEF StoreInv
<1>3. CASE file = 0 /\ legacy /\ phase' = "migrate" /\ ram' = 1 /\ Flush("boot", 1, TRUE)
  <2>1. at["boot"] = "none" /\ at["stop"] = "none" /\ \A u \in Writer : at[u] = "none"
    BY <1>1, WriterKinds
  <2>2. Effect("boot", 1, TRUE) /\ timer' = "off"
    BY <1>3, <2>1, FlushEffect, TypesOfInv, WriterKinds
  <2>3. Ready(1, TRUE) /\ 1 \in 0..MaxVersion
    BY <1>1, <1>3, <2>1 DEF Ready
  <2>4. "boot" # "stop" /\ legacy' \in BOOLEAN
    BY <1>1 DEF StoreInv, StoreTypeOK
  <2>5. QED
    BY <1>1, <1>3, <2>1, <2>2, <2>3, <2>4, SegmentKeeps, WriterKinds
<1>4. QED
  BY <1>2, <1>3 DEF Load

\* Steps in which no writer moves.
LEMMA QuietKeeps ==
    ASSUME StoreInv, Strip \/ Mutate \/ Exit \/ FireEarly \/ UNCHANGED storeVars
    PROVE  StoreInv'
<1>1. UNCHANGED <<file, latest, at, val, line, failed>>
  BY DEF Strip, Mutate, Exit, FireEarly, storeVars
<1>2. LineInv'
  BY <1>1 DEF StoreInv, LineInv, InLine
<1>3. CASE Strip
  BY <1>1, <1>2, <1>3 DEF Strip, Stripped, StoreInv, StoreTypeOK, LifeInv, VersionInv, SaveIsPending
<1>4. CASE Mutate
  <2>1. /\ phase = "up" /\ phase' = "up" /\ ram < MaxVersion /\ ram' = ram + 1 /\ want' = TRUE
        /\ timer' \in {"armed", "off", "early"} /\ timer' # "off" /\ legacy' = legacy
    BY <1>4 DEF Mutate, Newer, Rearm
  <2>2. StoreTypeOK'
    BY <1>1, <2>1 DEF StoreInv, StoreTypeOK
  <2>3. LifeInv'
    BY <1>1, <2>1 DEF StoreInv, LifeInv
  <2>4. VersionInv'
    BY <1>1, <2>1 DEF StoreInv, VersionInv, StoreTypeOK
  <2>5. SaveIsPending'
    BY <1>1, <2>1 DEF StoreInv, SaveIsPending
  <2>6. QED
    BY <1>2, <2>2, <2>3, <2>4, <2>5 DEF StoreInv
<1>5. CASE Exit
  BY <1>1, <1>2, <1>5 DEF Exit, StoreInv, StoreTypeOK, LifeInv, VersionInv, SaveIsPending
<1>6. CASE FireEarly
  BY <1>1, <1>2, <1>6 DEF FireEarly, StoreInv, StoreTypeOK, LifeInv, VersionInv, SaveIsPending
<1>7. CASE UNCHANGED storeVars
  BY <1>1, <1>2, <1>7 DEF storeVars, StoreInv, StoreTypeOK, LifeInv, VersionInv, SaveIsPending
<1>8. QED
  BY <1>3, <1>4, <1>5, <1>6, <1>7

LEMMA FireKeeps == ASSUME StoreInv, NEW t \in Timed, Fire(t) PROVE StoreInv'
<1>1. /\ timer # "off" /\ at[t] = "none" /\ timer' = "off" /\ latest' = t /\ at' = [at EXCEPT ![t] = "new"]
      /\ UNCHANGED <<phase, ram, file, legacy, want, val, line, failed>>
  BY DEF Fire
<1>2. t \in Writer /\ t # "stop"
  BY WriterKinds
<1>3. LineInv'
  BY <1>1, <1>2, LineSame, TypesOfInv
<1>4. StoreTypeOK'
  BY <1>1 DEF StoreInv, StoreTypeOK
<1>5. \A u \in Writer : at'[u] = IF u = t THEN "new" ELSE at[u]
  BY <1>1, TypesOfInv DEF StoreTypeOK
<1>6. LifeInv'
  BY <1>1, <1>2, <1>5, WriterKinds DEF StoreInv, LifeInv
<1>7. VersionInv'
  BY <1>1, <1>5 DEF StoreInv, VersionInv
<1>8. SaveIsPending'
  BY <1>1, <1>2, <1>5 DEF StoreInv, SaveIsPending
<1>9. QED
  BY <1>3, <1>4, <1>6, <1>7, <1>8 DEF StoreInv

LEMMA RebornKeeps == ASSUME StoreInv, Reborn PROVE StoreInv'
<1> USE DEF Reborn
<1>1. StoreTypeOK'
  <2>1. 0 \in 0..MaxVersion
    OBVIOUS
  <2>2. /\ at' \in [Writer -> {"none", "new", "line", "write"} \cup Timed]
        /\ val' \in [Writer -> 0..MaxVersion]
    BY <2>1
  <2>3. line' \in Seq(Writer)
    OBVIOUS
  <2>4. QED
    BY <2>1, <2>2, <2>3 DEF StoreTypeOK, StoreInv
<1>2. LineInv'
  BY DEF LineInv, InLine
<1>3. LifeInv' /\ VersionInv'
  BY WriterKinds DEF LifeInv, VersionInv
<1>4. SaveIsPending'
  BY DEF SaveIsPending
<1>5. QED
  BY <1>1, <1>2, <1>3, <1>4 DEF StoreInv

LEMMA StoreStep == ASSUME StoreInv, [StoreNext]_storeVars PROVE StoreInv'
BY LoadKeeps, QuietKeeps, StopKeeps, RebornKeeps, GrantedKeeps, WriteEndsKeeps, FireKeeps, TaskRunsKeeps,
   JoinedKeeps, MutateNowKeeps DEF StoreNext, Kill, Boot

\* The inductive invariant of the store.
THEOREM StoreInvHolds == StoreSpec => []StoreInv
BY StoreInitInv, StoreStep, PTL DEF StoreSpec

\* helpers/storage.py hands a pending value from the timer to a task, a flush or the lock's next holder, and a
\* failed write is the one way it is dropped: for every number of tasks, calls and mutations.
THEOREM SaveIsPendingHolds == StoreSpec => []SaveIsPending
<1>1. StoreInv => SaveIsPending
  BY DEF StoreInv
<1>2. QED
  BY <1>1, StoreInvHolds, PTL

\* A store that strips the shared sidecar only when it has found its own file (the preferences) loses no entry,
\* wherever a write fails or the process is killed.
THEOREM MigrationSurvivesHolds == Confirmed => (StoreSpec => []MigrationSurvives)
<1> SUFFICES ASSUME Confirmed PROVE StoreSpec => []MigrationSurvives
  OBVIOUS
<1>1. StoreInit => MigrationSurvives
  BY DEF StoreInit, MigrationSurvives
<1>2. MigrationSurvives /\ StoreInv /\ [StoreNext]_storeVars => MigrationSurvives'
  <2> SUFFICES ASSUME MigrationSurvives, StoreInv, [StoreNext]_storeVars PROVE MigrationSurvives'
    OBVIOUS
  <2>1. CASE Strip
    BY <2>1 DEF Strip, Stripped, MigrationSurvives
  <2>2. ASSUME NEW w \in Writer, WriteEnds(w) PROVE MigrationSurvives'
    <3>1. val[w] > file /\ val[w] \in Nat /\ file \in Nat
      BY <2>2 DEF WriteEnds, StoreInv, SaveIsPending, StoreTypeOK
    <3>2. (file' = val[w] \/ file' = file) /\ legacy' = legacy
      BY <2>2 DEF WriteEnds
    <3>3. QED
      BY <3>1, <3>2 DEF MigrationSurvives
  <2>3. CASE UNCHANGED <<file, legacy>>
    BY <2>3 DEF MigrationSurvives
  <2>4. QED
    BY <2>1, <2>2, <2>3 DEF StoreNext, Load, Mutate, Stop, Exit, Kill, Boot, Reborn, FireEarly, Granted, Fire,
       TaskRuns, Joined, MutateNow, storeVars
<1>3. QED
  BY <1>1, <1>2, StoreInvHolds, PTL DEF StoreSpec

-----------------------------------------------------------------------------
(* The store implements WriteBehind. *)

\* Once the shutdown's flush is through, nothing is wanted and nobody starts a write; until the strip, the sidecar is
\* whole.
StopInv ==
    /\ phase = "migrate" => legacy
    /\ phase \in {"stop", "down"} /\ at["stop"] \in {"none", "write"} => ~want
    /\ phase = "down" => at["stop"] = "none" /\ \A w \in Writer : at[w] # "write"

\* A writer's segment on RAM as it is.
LEMMA SegmentStops ==
    ASSUME StoreInv, StopInv, NEW w \in Writer, at[w] \notin {"none", "write"},
           Effect(w, ram, want), phase' = phase, legacy' = legacy
    PROVE  StopInv'
<1>0. "stop" \in Writer /\ at \in [Writer -> {"none", "new", "line", "write"} \cup Timed]
  BY WriterKinds DEF StoreInv, StoreTypeOK
<1>1. CASE at' = [at EXCEPT ![w] = "none"] /\ val' = val /\ ~want /\ ~want'
  BY <1>0, <1>1 DEF StopInv
<1>2. CASE at' = [at EXCEPT ![w] = "write"] /\ want /\ ~want'
  BY <1>0, <1>2 DEF StopInv
<1>3. ASSUME NEW a \in {"line"} \cup Timed, at' = [at EXCEPT ![w] = a], want' = want PROVE StopInv'
  <2>1. a \notin {"none", "write"}
    OBVIOUS
  <2>2. \A u \in Writer : at'[u] = IF u = w THEN a ELSE at[u]
    BY <1>0, <1>3
  <2>3. QED
    BY <1>0, <1>3, <2>1, <2>2 DEF StopInv
<1>4. QED
  BY <1>1, <1>2, <1>3 DEF Effect

LEMMA StopInvKept == ASSUME StoreInv, StopInv, [StoreNext]_storeVars PROVE StopInv'
<1>0. "stop" \in Writer /\ at \in [Writer -> {"none", "new", "line", "write"} \cup Timed]
  BY WriterKinds DEF StoreInv, StoreTypeOK
<1>1. CASE Load \/ Strip \/ Mutate \/ Kill \/ Boot
  BY <1>1 DEF Load, Strip, Mutate, Kill, Boot, Reborn, StopInv
<1>2. CASE Stop
  <2>1. phase' = "stop" /\ at["stop"] = "none" /\ Flush("stop", ram, want)
    BY <1>2 DEF Stop, StoreInv, LifeInv
  <2>2. Effect("stop", ram, want)
    BY <1>0, <2>1, FlushEffect, TypesOfInv
  <2>3. ~want' \/ \E a \in {"line"} \cup Timed : at' = [at EXCEPT !["stop"] = a]
    BY <2>2 DEF Effect
  <2>4. at'["stop"] \notin {"none", "write"} \/ ~want'
    <3>1. \A a \in {"line"} \cup Timed : a \notin {"none", "write"}
      OBVIOUS
    <3>2. QED
      BY <1>0, <2>3, <3>1
  <2>5. QED
    BY <2>1, <2>4 DEF StopInv
<1>3. CASE Exit
  BY <1>3 DEF Exit, StopInv
<1>4. CASE FireEarly \/ UNCHANGED storeVars
  BY <1>4 DEF FireEarly, storeVars, StopInv
<1>5. ASSUME NEW w \in Writer, Granted(w) PROVE StopInv'
  <2>1. Effect(w, ram, want)
    BY <1>5, GrantedEffect, TypesOfInv
  <2>2. at[w] = "line" /\ UNCHANGED <<phase, legacy>>
    BY <1>5 DEF Granted
  <2>3. QED
    BY <2>1, <2>2, SegmentStops
<1>6. ASSUME NEW w \in Writer, WriteEnds(w) PROVE StopInv'
  <2>1. at[w] = "write" /\ at' = [at EXCEPT ![w] = "none"] /\ UNCHANGED <<phase, legacy, want>>
    BY <1>6 DEF WriteEnds
  <2>2. QED
    BY <1>0, <2>1 DEF StopInv
<1>7. ASSUME NEW t \in Timed, Fire(t) PROVE StopInv'
  <2>1. at' = [at EXCEPT ![t] = "new"] /\ UNCHANGED <<phase, legacy, want>> /\ t # "stop" /\ t \in Writer
    BY <1>7, WriterKinds DEF Fire
  <2>2. QED
    BY <1>0, <2>1 DEF StopInv
<1>8. ASSUME NEW t \in Timed, TaskRuns(t) PROVE StopInv'
  <2>1. at[t] = "new" /\ HandleWrite(t, ram, want) /\ UNCHANGED <<phase, legacy>> /\ t \in Writer
    BY <1>8, WriterKinds DEF TaskRuns
  <2>2. Effect(t, ram, want)
    BY <2>1, HandleWriteEffect, TypesOfInv
  <2>3. QED
    BY <2>1, <2>2, SegmentStops
<1>9. ASSUME NEW f \in Flusher, Joined(f) PROVE StopInv'
  <2>1. at[f] \in Timed /\ FlushRest(f, ram, want) /\ UNCHANGED <<phase, legacy>> /\ f \in Writer
    BY <1>9, WriterKinds DEF Joined
  <2>2. at[f] \notin {"none", "line", "write"}
    BY <2>1
  <2>3. Effect(f, ram, want)
    BY <2>1, <2>2, FlushRestEffect, TypesOfInv
  <2>4. QED
    BY <2>1, <2>2, <2>3, SegmentStops
<1>10. ASSUME NEW f \in Caller, MutateNow(f) PROVE StopInv'
  BY <1>10 DEF MutateNow, StopInv
<1>11. QED
  BY <1>1, <1>2, <1>3, <1>4, <1>5, <1>6, <1>7, <1>8, <1>9, <1>10 DEF StoreNext

Outside == <<Life, ram, file, failed, legacy>>

\* What the file and RAM do in a step, each in the words of WriteBehind.
LEMMA StoreRefines ==
    ASSUME Confirmed, StoreInv, StopInv, [StoreNext]_storeVars
    PROVE  [Promise!Next]_Outside
<1> USE DEF Outside
<1>0. ram \in Nat /\ file \in Nat /\ failed \in Nat /\ legacy \in BOOLEAN
  BY DEF StoreInv, StoreTypeOK
<1>1. CASE Load
  <2>1. Promise!Open
    BY <1>1 DEF Load, Life, Promise!Open
  <2>2. QED
    BY <2>1 DEF Promise!Next
<1>2. CASE Strip
  <2>1. CASE file = 0
    <3>1. UNCHANGED Outside
      BY <1>2, <2>1 DEF Strip, Stripped, StopInv, Life
    <3>2. QED
      BY <3>1
  <2>2. CASE file # 0
    <3>1. Promise!GiveUp
      BY <1>2, <2>2 DEF Strip, Stripped, StopInv, Life, Promise!GiveUp
    <3>2. QED
      BY <3>1 DEF Promise!Next
  <2>3. QED
    BY <2>1, <2>2
<1>3. CASE Mutate \/ \E f \in Caller : MutateNow(f)
  <2>1. Promise!Change
    BY <1>3 DEF Mutate, MutateNow, Newer, Life, Promise!Change
  <2>2. QED
    BY <2>1 DEF Promise!Next
<1>4. ASSUME NEW w \in Writer, WriteEnds(w) PROVE Promise!Next
  <2>1. /\ at[w] = "write" /\ UNCHANGED <<phase, ram, legacy>>
        /\ \/ file' = val[w] /\ failed' = failed
           \/ failed' = val[w] /\ file' = file
    BY <1>4 DEF WriteEnds
  <2>2. phase \notin {"load", "down"}
    BY <1>4, <2>1 DEF StoreInv, LifeInv, StopInv
  <2>3. val[w] \in Nat /\ val[w] <= ram /\ val[w] > file
    BY <2>1, <2>2 DEF StoreInv, StoreTypeOK, VersionInv, SaveIsPending
  <2>4. val[w] \in Promise!Newer
    BY <1>0, <2>3 DEF Promise!Newer
  <2>5. Life = "on" /\ Life' = Life
    BY <2>1, <2>2 DEF Life
  <2>6. Promise!Persist \/ Promise!Fail
    BY <2>1, <2>4, <2>5 DEF Promise!Persist, Promise!Fail
  <2>7. QED
    BY <2>6 DEF Promise!Next
<1>5. CASE Exit
  <2>1. /\ phase = "stop" /\ at["stop"] = "none" /\ \A w \in Writer : at[w] # "write"
        /\ phase' = "down" /\ UNCHANGED <<ram, file, legacy, failed>>
    BY <1>5 DEF Exit
  <2>2. ram \in {file, failed}
    BY <2>1 DEF StoreInv, SaveIsPending, StopInv
  <2>3. Promise!Close
    BY <2>1, <2>2 DEF Life, Promise!Close
  <2>4. QED
    BY <2>3 DEF Promise!Next
<1>6. CASE Kill \/ Boot
  <2>1. Promise!Restart
    BY <1>6 DEF Kill, Boot, Reborn, Life, Promise!Restart
  <2>2. QED
    BY <2>1 DEF Promise!Next
<1>7. CASE Stop
  BY <1>7 DEF Stop, Life
<1>8. CASE FireEarly \/ UNCHANGED storeVars
  BY <1>8 DEF FireEarly, storeVars, Life
<1>9. ASSUME \/ \E w \in Writer : Granted(w)
             \/ \E t \in Timed : Fire(t) \/ TaskRuns(t)
             \/ \E f \in Flusher : Joined(f)
      PROVE  UNCHANGED Outside
  BY <1>9 DEF Granted, Fire, TaskRuns, Joined, Life
<1>10. QED
  BY <1>1, <1>2, <1>3, <1>4, <1>5, <1>6, <1>7, <1>8, <1>9 DEF StoreNext

\* The store, for any number of write tasks, calls and mutations, implements WriteBehind where the strip looks for the
\* new file first: a value written late never replaces a newer one, and async_save_now at shutdown leaves behind
\* only what a write failed to bring.
THEOREM StoreImplementsWriteBehind == Confirmed => (StoreSpec => ImplementsWriteBehind)
<1> SUFFICES ASSUME Confirmed PROVE StoreSpec => ImplementsWriteBehind
  OBVIOUS
<1>1. StoreInit => Promise!Init /\ StopInv
  BY DEF StoreInit, Promise!Init, Life, StopInv
<1>2. StoreInv /\ StopInv /\ [StoreNext]_storeVars => StopInv' /\ [Promise!Next]_Promise!vars
  BY StopInvKept, StoreRefines DEF Outside, Promise!vars
<1>3. QED
  BY <1>1, <1>2, StoreInvHolds, PTL DEF StoreSpec, ImplementsWriteBehind, Promise!Spec

-----------------------------------------------------------------------------
(* Keep, the filter of the deferred installs.  A position of I is the n-th *)
(* kept when n positions of I are up to it; no two have the same rank, so  *)
(* the ranks are all of 1..Cardinality(I).                                  *)

HIDE StoreAssumption

\* The position of I that the n-th element kept comes from.
Source(I, n) == CHOOSE k \in I : Cardinality({j \in I : j <= k}) = n

LEMMA RanksFill ==
    ASSUME NEW m \in Nat, NEW I \in SUBSET (1..m)
    PROVE  /\ IsFiniteSet(I) /\ Cardinality(I) \in Nat
           /\ \A n \in 1..Cardinality(I) :
                 Source(I, n) \in I /\ Cardinality({j \in I : j <= Source(I, n)}) = n
           /\ \A k \in I : Cardinality({j \in I : j <= k}) \in 1..Cardinality(I)
           /\ \A k, l \in I : Cardinality({j \in I : j <= k}) < Cardinality({j \in I : j <= l}) <=> k < l
<1> DEFINE Low(k) == {j \in I : j <= k}
           rank == [k \in I |-> Cardinality(Low(k))]
<1>1. IsFiniteSet(I) /\ Cardinality(I) \in Nat
  <2>1. IsFiniteSet(1..m)
    BY FS_Interval
  <2>2. IsFiniteSet(I)
    BY <2>1, FS_Subset
  <2>3. QED
    BY <2>2, FS_CardinalityType
<1>0. \A k \in I : k \in Nat
  OBVIOUS
<1>2. \A k \in I : Low(k) \in SUBSET I /\ IsFiniteSet(Low(k)) /\ Cardinality(Low(k)) \in 1..Cardinality(I)
  <2> TAKE k \in I
  <2>1. Low(k) \in SUBSET I
    OBVIOUS
  <2>2. IsFiniteSet(Low(k)) /\ Cardinality(Low(k)) <= Cardinality(I)
    BY <1>1, <2>1, FS_Subset
  <2>3. Cardinality(Low(k)) \in Nat
    BY <2>2, FS_CardinalityType
  <2>4. k \in Low(k)
    OBVIOUS
  <2>5. Cardinality(Low(k)) # 0
    BY <2>2, <2>4, FS_EmptySet
  <2>6. QED
    BY <1>1, <2>1, <2>2, <2>3, <2>5
<1>3. ASSUME NEW k \in I, NEW l \in I, k < l PROVE Cardinality(Low(k)) < Cardinality(Low(l))
  <2>1. Low(k) \in SUBSET Low(l) /\ l \in Low(l) /\ l \notin Low(k)
    <3>1. k \in Nat /\ l \in Nat /\ ~(l <= k) /\ \A j \in Nat : j <= k => j <= l
      BY <1>0, <1>3
    <3>2. Low(k) \in SUBSET Low(l)
      BY <1>0, <3>1
    <3>3. l \in Low(l)
      BY <3>1
    <3>4. l \notin Low(k)
      BY <3>1
    <3>5. QED
      BY <3>2, <3>3, <3>4
  <2>2. Low(k) # Low(l)
    BY <2>1
  <2>3. Cardinality(Low(k)) <= Cardinality(Low(l)) /\ Cardinality(Low(k)) # Cardinality(Low(l))
    BY <1>2, <2>1, <2>2, FS_Subset
  <2>4. QED
    BY <1>1, <1>2, <2>3
<1>4. \A k, l \in I : Cardinality(Low(k)) < Cardinality(Low(l)) <=> k < l
  <2> TAKE k, l \in I
  <2>1. k < l \/ k = l \/ l < k
    OBVIOUS
  <2>2. Cardinality(Low(k)) \in Nat /\ Cardinality(Low(l)) \in Nat
    BY <1>1, <1>2
  <2> HIDE DEF Low
  <2>3. QED
    BY <1>3, <2>1, <2>2
<1>5. rank \in Injection(I, 1..Cardinality(I))
  <2>1. rank \in [I -> 1..Cardinality(I)]
    BY <1>2
  <2>2. ASSUME NEW k \in I, NEW l \in I, rank[k] = rank[l] PROVE k = l
    <3>1. rank[k] = Cardinality(Low(k)) /\ rank[l] = Cardinality(Low(l))
      OBVIOUS
    <3>2. Cardinality(Low(k)) \in Nat /\ Cardinality(Low(l)) \in Nat
      BY <1>1, <1>2
    <3>3. k \in Nat /\ l \in Nat
      OBVIOUS
    <3> HIDE DEF Low, rank
    <3>4. ~(k < l) /\ ~(l < k)
      <4>1. ~(Cardinality(Low(k)) < Cardinality(Low(l))) /\ ~(Cardinality(Low(l)) < Cardinality(Low(k)))
        <5>1. \A a, b \in Nat : a = b => ~(a < b) /\ ~(b < a)
          OBVIOUS
        <5>2. Cardinality(Low(k)) = Cardinality(Low(l))
          BY <2>2, <3>1
        <5>3. QED
          BY <3>2, <5>1, <5>2
      <4>2. QED
        BY <1>4, <4>1
    <3>5. QED
      BY <3>3, <3>4
  <2> HIDE DEF rank
  <2>3. IsInjective(rank)
    BY <2>1, <2>2 DEF IsInjective
  <2>4. QED
    BY <2>1, <2>3 DEF Injection
<1>6. rank \in Surjection(I, 1..Cardinality(I))
  <2>1. IsFiniteSet(1..Cardinality(I)) /\ Cardinality(1..Cardinality(I)) = Cardinality(I)
    BY <1>1, FS_Interval
  <2> HIDE DEF rank
  <2>2. QED
    BY <1>5, <2>1, FS_Injection
<1>7. ASSUME NEW n \in 1..Cardinality(I)
      PROVE  Source(I, n) \in I /\ Cardinality(Low(Source(I, n))) = n
  <2>1. PICK k \in I : rank[k] = n
    BY <1>6 DEF Surjection
  <2>2. Cardinality(Low(k)) = n
    BY <2>1
  <2>3. QED
    BY <2>2 DEF Source
<1>8. QED
  BY <1>1, <1>2, <1>4, <1>7

\* q has the elements of s at I, each once, in their order.
Thins(q, s, I) ==
    \E f \in [DOMAIN q -> I] :
       /\ \A n \in DOMAIN q : q[n] = s[f[n]]
       /\ \A m, n \in DOMAIN q : m < n => f[m] < f[n]
       /\ \A k \in I : \E n \in DOMAIN q : f[n] = k

\* Keep gives the elements at I, each once, in their order.
LEMMA KeepIsInOrder ==
    ASSUME NEW S, NEW s \in Seq(S), NEW I \in SUBSET DOMAIN s
    PROVE  Keep(s, I) \in Seq(S) /\ Thins(Keep(s, I), s, I)
<1> DEFINE d == 1..Cardinality(I)
           f == [n \in d |-> Source(I, n)]
<1>1. DOMAIN s = 1..Len(s) /\ Len(s) \in Nat /\ I \in SUBSET (1..Len(s))
  OBVIOUS
<1>2. /\ IsFiniteSet(I) /\ Cardinality(I) \in Nat
      /\ \A n \in d : Source(I, n) \in I /\ Cardinality({j \in I : j <= Source(I, n)}) = n
      /\ \A k \in I : Cardinality({j \in I : j <= k}) \in d
      /\ \A k, l \in I : Cardinality({j \in I : j <= k}) < Cardinality({j \in I : j <= l}) <=> k < l
  BY <1>1, RanksFill
<1>3. Keep(s, I) = [n \in d |-> s[Source(I, n)]]
  BY DEF Keep, Source
<1>4. \A n \in d : s[Source(I, n)] \in S
  <2>1. \A k \in I : s[k] \in S
    BY ElementOfSeq
  <2>2. QED
    BY <1>2, <2>1
<1>5. Keep(s, I) \in Seq(S) /\ DOMAIN Keep(s, I) = d
  BY <1>2, <1>3, <1>4
<1>6. f \in [d -> I] /\ \A n \in d : f[n] = Source(I, n)
  BY <1>2
<1>7. \A n \in d : Keep(s, I)[n] = s[f[n]]
  BY <1>3, <1>6
<1>8. \A m, n \in d : m < n => f[m] < f[n]
  BY <1>2, <1>6
<1>9. ASSUME NEW k \in I PROVE \E n \in d : f[n] = k
  <2>1. PICK n \in d : n = Cardinality({j \in I : j <= k})
    BY <1>2
  <2>2. Source(I, n) \in I /\ Cardinality({j \in I : j <= Source(I, n)}) = n
    BY <1>2
  <2>3. k \in Nat /\ Source(I, n) \in Nat /\ ~(k < Source(I, n)) /\ ~(Source(I, n) < k)
    <3> DEFINE p == Source(I, n)
    <3>1. p \in I /\ Cardinality({j \in I : j <= p}) = n
      BY <2>2
    <3>2. k \in Nat /\ p \in Nat /\ n \in Nat
      BY <1>1, <1>2, <3>1
    <3> HIDE DEF p
    <3>3. ~(k < p) /\ ~(p < k)
      <4>1. Cardinality({j \in I : j <= p}) = Cardinality({j \in I : j <= k})
        BY <2>1, <3>1
      <4>2. Cardinality({j \in I : j <= k}) \in Nat
        BY <1>2
      <4>3. ~(Cardinality({j \in I : j <= p}) < Cardinality({j \in I : j <= k}))
            /\ ~(Cardinality({j \in I : j <= k}) < Cardinality({j \in I : j <= p}))
        BY <4>1, <4>2
      <4>4. QED
        BY <1>2, <3>1, <4>3
    <3>4. QED
      BY <3>2, <3>3 DEF p
  <2>4. QED
    BY <1>6, <2>3
<1> HIDE DEF d, f
<1>10. QED
  BY <1>5, <1>6, <1>7, <1>8, <1>9 DEF Thins
-----------------------------------------------------------------------------
(* The deferred installs: what the jobs of a device look like, and what the *)
(* helpers of the calls make of them.                                       *)

\* No early answer, no crash within a debounce, no flash of the bootloader.
Steady == ~Early /\ ~Loose /\ "boot" \notin Image

\* A job on a lane waits for no other, a compile never does, and a flash that a build has overtaken is being stopped.
Fit(r) ==
    /\ r.dep # NoJob => r.st = "held"
    /\ r.type = "compile" => r.dep = NoJob
    /\ r.type # "boot"
    /\ r.stale => r.stop

Proper(js) ==
    /\ js \in Seq(Job)
    /\ \A k, l \in DOMAIN js : js[k].id = js[l].id => k = l
    /\ \A k \in DOMAIN js : Fit(js[k])

\* A job stands before another only while it is being stopped, while a sweep has it on its list W, or as the one
\* that waits for it; a reset stands anywhere.
Precedes(r, q, W) == r.type # "reset" => r.stop \/ r.id \in W \/ r.dep = q.id
InOrder(js, W) == \A k, l \in DOMAIN js : k < l => Precedes(js[k], js[l], W)

Swept(cs) == {i \in Slot : \E c \in cs : \E k \in DOMAIN c.left : c.left[k] = i}

\* The jobs of q are jobs of js, and wait for the same or for none.
OldRows(q, js) == \A n \in DOMAIN q : \E k \in DOMAIN js : q[n].id = js[k].id /\ q[n].dep \in {js[k].dep, NoJob}

ACall == [id : Slot \cup {NoJob}, left : Seq(Slot), then : {"end", "place", "clean"}]

USE DEF NoJob

LEMMA JobFields ==
    ASSUME NEW r \in Job
    PROVE  /\ r.id \in Slot /\ r.type \in {"compile", "app", "boot", "clean", "reset"}
           /\ r.st \in {"held", "queued", "running"} /\ r.dep \in Slot \cup {NoJob}
           /\ r.deferred \in BOOLEAN /\ r.stop \in BOOLEAN /\ r.stale \in BOOLEAN
  BY DEF Job

\* q is the job r but for the fields that a mark sets.
Alike(q, r) == q.id = r.id /\ q.type = r.type /\ q.deferred = r.deferred

LEMMA KeepIsProper ==
    ASSUME NEW js, Proper(js), NEW I \in SUBSET DOMAIN js
    PROVE  /\ Proper(Keep(js, I))
           /\ \A n \in DOMAIN Keep(js, I) : \E k \in I : Keep(js, I)[n] = js[k]
           /\ \A k \in I : \E n \in DOMAIN Keep(js, I) : Keep(js, I)[n] = js[k]
           /\ \A W : (\A k, l \in I : k < l => Precedes(js[k], js[l], W)) => InOrder(Keep(js, I), W)
<1>1. js \in Seq(Job)
  BY DEF Proper
<1> DEFINE q == Keep(js, I)
<1>2. q \in Seq(Job) /\ Thins(q, js, I)
  BY <1>1, KeepIsInOrder
<1> HIDE DEF q
<1>3. PICK f \in [DOMAIN q -> I] :
            /\ \A n \in DOMAIN q : q[n] = js[f[n]]
            /\ \A m, n \in DOMAIN q : m < n => f[m] < f[n]
            /\ \A k \in I : \E n \in DOMAIN q : f[n] = k
  BY <1>2 DEF Thins
<1>4. \A n \in DOMAIN q : f[n] \in I /\ n \in Nat
  <2>1. DOMAIN q \in SUBSET Nat
    <3>1. DOMAIN q = 1..Len(q)
      BY <1>2
    <3>2. QED
      BY <3>1
  <2>2. QED
    BY <1>3, <2>1
<1>5. ASSUME NEW k \in DOMAIN q, NEW l \in DOMAIN q, q[k].id = q[l].id PROVE k = l
  <2>1. f[k] = f[l]
    BY <1>3, <1>4, <1>5 DEF Proper
  <2>2. f[k] \in Nat /\ f[l] \in Nat
    BY <1>1, <1>4
  <2>3. ~(k < l) /\ ~(l < k)
    BY <1>3, <2>1, <2>2
  <2>4. QED
    BY <1>4, <2>3
<1>6. \A n \in DOMAIN q : Fit(q[n])
  BY <1>3, <1>4 DEF Proper
<1>7. Proper(q)
  BY <1>2, <1>5, <1>6 DEF Proper
<1>8. ASSUME NEW W, \A k, l \in I : k < l => Precedes(js[k], js[l], W) PROVE InOrder(q, W)
  BY <1>3, <1>4, <1>8 DEF InOrder
<1>9. QED
  BY <1>3, <1>4, <1>7, <1>8 DEF q

\* A cancel takes its job off the list, having stopped or removed it.
LEMMA CancelIsProper ==
    ASSUME NEW js, Proper(js), NEW i, NEW W, InOrder(js, W \cup {i})
    PROVE  Proper(Cancel(js, i)) /\ InOrder(Cancel(js, i), W) /\ OldRows(Cancel(js, i), js)
<1>1. js \in Seq(Job) /\ \A k \in DOMAIN js : js[k] \in Job /\ Fit(js[k])
  BY DEF Proper
<1>2. CASE \E k \in DOMAIN js : js[k].id = i /\ js[k].st = "running"
  <2> DEFINE q == Cancel(js, i)
  <2>1. q = [k \in DOMAIN js |-> IF js[k].id \in {i} THEN [js[k] EXCEPT !.stop = TRUE] ELSE js[k]]
    BY <1>2 DEF Cancel, Mark
  <2> HIDE DEF q
  <2>2. DOMAIN q = DOMAIN js
    BY <2>1
  <2>3. ASSUME NEW k \in DOMAIN js
        PROVE  /\ q[k] \in Job /\ Fit(q[k])
               /\ q[k].id = js[k].id /\ q[k].dep = js[k].dep /\ q[k].type = js[k].type
               /\ (q[k].id = i => q[k].stop) /\ (js[k].stop => q[k].stop)
    <3>1. js[k] \in Job /\ Fit(js[k])
      BY <1>1
    <3>2. CASE js[k].id = i
      <4>1. q[k] = [js[k] EXCEPT !.stop = TRUE]
        BY <2>1, <3>2
      <4>2. QED
        <5>1. /\ q[k] \in Job /\ Alike(q[k], js[k]) /\ q[k].st = js[k].st /\ q[k].dep = js[k].dep
              /\ q[k].stop = TRUE /\ q[k].stale = js[k].stale
          BY <3>1, <4>1 DEF Job, Alike
        <5>2. Fit(q[k])
          BY <3>1, <5>1 DEF Fit, Alike
        <5>3. QED
          BY <5>1, <5>2 DEF Alike
    <3>3. CASE js[k].id # i
      BY <2>1, <3>1, <3>3
    <3>4. QED
      BY <3>2, <3>3
  <2>4. q \in Seq(Job)
    BY <1>1, <2>1, <2>2, <2>3
  <2>5. Proper(q)
    BY <2>2, <2>3, <2>4 DEF Proper
  <2>6. InOrder(q, W)
    BY <2>2, <2>3 DEF InOrder, Precedes
  <2>7. OldRows(q, js)
    BY <2>2, <2>3 DEF OldRows
  <2>8. QED
    BY <2>5, <2>6, <2>7 DEF q
<1>3. CASE ~\E k \in DOMAIN js : js[k].id = i /\ js[k].st = "running"
  <2> DEFINE I == {k \in DOMAIN js : i \notin {js[k].id, js[k].dep}}
  <2>1. Cancel(js, i) = Keep(js, I)
    BY <1>3 DEF Cancel
  <2>2. \A k, l \in I : k < l => Precedes(js[k], js[l], W)
    BY DEF InOrder, Precedes
  <2>3. I \in SUBSET DOMAIN js
    OBVIOUS
  <2> HIDE DEF I
  <2>4. QED
    BY <2>1, <2>2, <2>3, KeepIsProper DEF OldRows
<1>4. QED
  BY <1>2, <1>3

\* The job i waits for none.
Unheld(js, i) == \A k \in DOMAIN js : js[k].id = i => js[k].dep = NoJob

\* What a call c, or what is left of it, makes of jobs.
Leads(m, c, js, W) ==
    /\ Proper(m.jobs) /\ InOrder(m.jobs, W \cup Swept(m.calls)) /\ OldRows(m.jobs, js)
    /\ \A d \in m.calls : d \in ACall /\ d.id = c.id /\ d.then = c.then

LEMMA ResumeIsProper ==
    ASSUME NEW js, Proper(js), NEW c \in ACall, c.then # "clean", NEW W,
           InOrder(js, W \cup Swept({c})),
           Unheld(js, c.id)
    PROVE  Leads(Resume(js, c), c, js, W)
<1> DEFINE m == Resume(js, c)
<1>0. js \in Seq(Job) /\ \A k \in DOMAIN js : js[k] \in Job /\ Fit(js[k])
  BY DEF Proper
<1>1. CASE c.left = <<>>
  <2> DEFINE q == [k \in DOMAIN js |-> IF js[k].id \in {c.id} THEN [js[k] EXCEPT !.st = "queued"] ELSE js[k]]
  <2>1. m = [jobs |-> q, calls |-> {}]
    BY <1>1 DEF Resume, Mark
  <2>2. m.jobs = q /\ m.calls = {}
    BY <2>1
  <2>3. Swept({c}) = {}
    BY <1>1 DEF Swept
  <2>4. \A k \in DOMAIN js : q[k] = IF js[k].id = c.id THEN [js[k] EXCEPT !.st = "queued"] ELSE js[k]
    OBVIOUS
  <2>5. DOMAIN q = DOMAIN js
    OBVIOUS
  <2>6. ASSUME NEW k \in DOMAIN js
        PROVE  /\ q[k] \in Job /\ Fit(q[k])
               /\ q[k].id = js[k].id /\ q[k].dep = js[k].dep /\ q[k].type = js[k].type /\ q[k].stop = js[k].stop
    <3>1. js[k] \in Job /\ Fit(js[k])
      BY <1>0
    <3>2. CASE js[k].id = c.id
      <4>1. q[k] = [js[k] EXCEPT !.st = "queued"]
        BY <2>4, <3>2
      <4>2. js[k].dep = NoJob
        BY <3>2 DEF Unheld
      <4> HIDE DEF q
      <4>3. QED
        <5>1. /\ q[k] \in Job /\ Alike(q[k], js[k]) /\ q[k].st = "queued" /\ q[k].dep = js[k].dep
              /\ q[k].stop = js[k].stop /\ q[k].stale = js[k].stale
          BY <3>1, <4>1 DEF Job, Alike
        <5>2. Fit(q[k])
          BY <3>1, <4>2, <5>1 DEF Fit, Alike
        <5>3. QED
          BY <5>1, <5>2 DEF Alike
    <3>3. CASE js[k].id # c.id
      BY <2>4, <3>1, <3>3
    <3>4. QED
      BY <3>2, <3>3
  <2>7. q \in Seq(Job)
    BY <1>0, <2>6
  <2> HIDE DEF q
  <2>8. Proper(q)
    BY <2>5, <2>6, <2>7 DEF Proper
  <2>9. InOrder(q, W) /\ OldRows(q, js)
    <3>1. InOrder(js, W)
      BY <2>3 DEF InOrder, Precedes
    <3>2. InOrder(q, W)
      BY <2>5, <2>6, <3>1 DEF InOrder, Precedes
    <3>3. OldRows(q, js)
      BY <2>5, <2>6 DEF OldRows
    <3>4. QED
      BY <3>2, <3>3
  <2>10. W \cup Swept({}) = W
    BY DEF Swept
  <2>11. QED
    BY <2>2, <2>8, <2>9, <2>10 DEF Leads
<1>2. CASE c.left # <<>>
  <2> DEFINE d == [c EXCEPT !.left = Tail(@)]
             last == Len(c.left) = 1 /\ c.then = "end"
  <2>1. c.left \in Seq(Slot)
    BY DEF ACall
  <2>2. m.jobs = Cancel(js, Head(c.left)) /\ m.calls = IF last THEN {} ELSE {d}
    BY <1>2 DEF Resume
  <2>3. d \in ACall /\ d.id = c.id /\ d.then = c.then /\ d.left = Tail(c.left)
    BY <1>2, <2>1 DEF ACall
  <2>4. Swept({c}) \subseteq Swept(m.calls) \cup {Head(c.left)}
    <3>1. SUFFICES ASSUME NEW k \in DOMAIN c.left, c.left[k] # Head(c.left)
                   PROVE  c.left[k] \in Swept(m.calls)
      BY DEF Swept
    <3>2. k \in 2..Len(c.left) /\ Len(c.left) \in Nat
      BY <1>2, <2>1, <3>1
    <3>3. ~last /\ m.calls = {d}
      BY <2>2, <3>2
    <3>4. k - 1 \in DOMAIN Tail(c.left) /\ Tail(c.left)[k - 1] = c.left[k] /\ c.left[k] \in Slot
      BY <2>1, <3>2
    <3> HIDE DEF d
    <3>5. QED
      BY <2>3, <3>3, <3>4 DEF Swept
  <2>5. InOrder(js, (W \cup Swept(m.calls)) \cup {Head(c.left)})
    BY <2>4 DEF InOrder, Precedes
  <2> HIDE DEF d, last
  <2>6. Proper(m.jobs) /\ InOrder(m.jobs, W \cup Swept(m.calls)) /\ OldRows(m.jobs, js)
    BY <2>2, <2>5, CancelIsProper
  <2> HIDE DEF m
  <2>7. Leads(m, c, js, W)
    BY <2>2, <2>3, <2>6 DEF Leads
  <2>8. QED
    BY <2>7 DEF m
<1>3. QED
  BY <1>1, <1>2

LEMMA OthersAreAll ==
    ASSUME NEW js, Proper(js), NEW mine, \A k \in DOMAIN js : js[k].id \notin mine
    PROVE  /\ Others(js, mine) \in Seq(Slot)
           /\ \A k \in DOMAIN js : js[k].type # "reset" =>
                 \E n \in DOMAIN Others(js, mine) : Others(js, mine)[n] = js[k].id
<1> DEFINE I == {k \in DOMAIN js : js[k].id \notin mine /\ js[k].type # "reset"}
           them == Keep(js, I)
<1>1. Others(js, mine) = [k \in DOMAIN them |-> them[k].id]
  BY DEF Others
<1>3. I \in SUBSET DOMAIN js /\ \A k \in DOMAIN js : js[k].type # "reset" => k \in I
  OBVIOUS
<1> HIDE DEF I
<1>2. Proper(them) /\ \A k \in I : \E n \in DOMAIN them : them[n] = js[k]
  BY <1>3, KeepIsProper
<1> HIDE DEF them
<1>4. them \in Seq(Job) /\ \A k \in DOMAIN them : them[k].id \in Slot
  <2>1. them \in Seq(Job)
    BY <1>2 DEF Proper
  <2>2. \A k \in DOMAIN them : them[k] \in Job
    BY <2>1
  <2>3. QED
    BY <2>1, <2>2, JobFields
<1>5. [k \in DOMAIN them |-> them[k].id] \in Seq(Slot)
  BY <1>4
<1>6. QED
  BY <1>1, <1>2, <1>3, <1>5

LEMMA BothAreProper ==
    ASSUME NEW js, Proper(js), NEW new, Proper(new),
           \A k \in DOMAIN js, l \in DOMAIN new : js[k].id # new[l].id
    PROVE  /\ Proper(js \o new)
           /\ DOMAIN (js \o new) = 1..(Len(js) + Len(new))
           /\ DOMAIN js = 1..Len(js) /\ DOMAIN new = 1..Len(new) /\ Len(js) \in Nat /\ Len(new) \in Nat
           /\ \A k \in DOMAIN js : k \in DOMAIN (js \o new) /\ (js \o new)[k] = js[k]
           /\ \A k \in DOMAIN (js \o new) :
                 \/ k \in DOMAIN js /\ (js \o new)[k] = js[k]
                 \/ /\ k > Len(js) /\ k - Len(js) \in DOMAIN new
                    /\ (js \o new)[k] = new[k - Len(js)]
<1>1. js \in Seq(Job) /\ new \in Seq(Job)
  BY DEF Proper
<1> DEFINE both == js \o new
<1>2. both \in Seq(Job) /\ Len(both) = Len(js) + Len(new)
  BY <1>1
<1>3. /\ DOMAIN js = 1..Len(js) /\ DOMAIN new = 1..Len(new) /\ Len(js) \in Nat /\ Len(new) \in Nat
      /\ DOMAIN both = 1..(Len(js) + Len(new))
  BY <1>1, <1>2
<1>4. \A k \in DOMAIN js : both[k] = js[k]
  BY <1>1, <1>3
<1>5. \A k \in DOMAIN both : k \in DOMAIN js \/ (k > Len(js) /\ k - Len(js) \in DOMAIN new /\ both[k] = new[k - Len(js)])
  BY <1>1, <1>3
<1>6. \A k \in DOMAIN both : Fit(both[k])
  BY <1>4, <1>5 DEF Proper
<1> HIDE DEF both
<1>7. ASSUME NEW k \in DOMAIN both, NEW l \in DOMAIN both, both[k].id = both[l].id PROVE k = l
  <2>1. CASE k \in DOMAIN js /\ l \in DOMAIN js
    BY <1>4, <1>7, <2>1 DEF Proper
  <2>2. CASE k \notin DOMAIN js /\ l \notin DOMAIN js
    <3>1. k - Len(js) = l - Len(js)
      BY <1>5, <1>7, <2>2 DEF Proper
    <3>2. QED
      BY <1>3, <3>1
  <2>3. CASE k \in DOMAIN js /\ l \notin DOMAIN js
    BY <1>4, <1>5, <1>7, <2>3
  <2>4. CASE k \notin DOMAIN js /\ l \in DOMAIN js
    BY <1>4, <1>5, <1>7, <2>4
  <2>5. QED
    BY <2>1, <2>2, <2>3, <2>4
<1>8. Proper(both)
  BY <1>2, <1>6, <1>7 DEF Proper
<1>9. \A k \in DOMAIN js : k \in DOMAIN both
  BY <1>3
<1>10. QED
  BY <1>3, <1>4, <1>5, <1>8, <1>9 DEF both

LEMMA ChainIsProper ==
    ASSUME NEW js, Proper(js), NEW new, Proper(new), InOrder(new, {}),
           \A k \in DOMAIN js, l \in DOMAIN new : js[k].id # new[l].id,
           NEW W, InOrder(js, W),
           NEW m, m = CommitChain(js, new)
    PROVE  Leads(m, Call(NoJob, <<>>, "end"), js \o new, W)
<1> DEFINE mine == Ids(new)
           left == Others(js, mine)
           both == js \o new
           c == Call(NoJob, left, "end")
<1>1. \A k \in DOMAIN js : js[k].id \notin mine
  BY DEF Ids
<1>0. CommitChain(js, new) = IF left = <<>> THEN [jobs |-> both, calls |-> {}] ELSE Resume(both, c)
  BY DEF CommitChain
<1> HIDE DEF mine
<1>2. left \in Seq(Slot) /\ \A k \in DOMAIN js : js[k].type # "reset" => \E n \in DOMAIN left : left[n] = js[k].id
  BY <1>1, OthersAreAll
<1>3. /\ Proper(both)
      /\ DOMAIN both = 1..(Len(js) + Len(new))
      /\ DOMAIN js = 1..Len(js) /\ DOMAIN new = 1..Len(new) /\ Len(js) \in Nat /\ Len(new) \in Nat
      /\ \A k \in DOMAIN both :
            \/ k \in DOMAIN js /\ both[k] = js[k]
            \/ k > Len(js) /\ k - Len(js) \in DOMAIN new /\ both[k] = new[k - Len(js)]
  BY BothAreProper
<1>4. c \in ACall /\ c.id = NoJob /\ c.then = "end" /\ c.left = left
  BY <1>2 DEF ACall, Call
<1>5. m = IF left = <<>> THEN [jobs |-> both, calls |-> {}] ELSE Resume(both, c)
  BY <1>0
<1> HIDE DEF left, both, c
<1>6. \A k \in DOMAIN both : both[k].id # NoJob
  <2>1. both \in Seq(Job)
    BY <1>3 DEF Proper
  <2>2. \A k \in DOMAIN both : both[k] \in Job
    BY <2>1
  <2>3. QED
    BY <2>2, JobFields, DeferAssumption
<1>7. InOrder(both, W \cup Swept({c}))
  <2>1. SUFFICES ASSUME NEW k \in DOMAIN both, NEW l \in DOMAIN both, k < l
                 PROVE  Precedes(both[k], both[l], W \cup Swept({c}))
    BY DEF InOrder
  <2>2. CASE k \in DOMAIN js
    <3>1. both[k] = js[k]
      BY <1>3, <2>2
    <3>2. CASE js[k].type = "reset"
      BY <3>1, <3>2 DEF Precedes
    <3>3. CASE js[k].type # "reset"
      <4>1. PICK n \in DOMAIN left : left[n] = js[k].id
        BY <1>2, <2>2, <3>3
      <4>2. left[n] \in Slot
        BY <1>2
      <4>3. js[k].id \in Swept({c})
        BY <1>4, <4>1, <4>2 DEF Swept
      <4>4. QED
        BY <3>1, <4>3 DEF Precedes
    <3>4. QED
      BY <3>2, <3>3
  <2>3. CASE k \notin DOMAIN js
    <3>1. l \notin DOMAIN js
      BY <1>3, <2>1, <2>3
    <3>2. k - Len(js) \in DOMAIN new /\ both[k] = new[k - Len(js)]
      BY <1>3, <2>3
    <3>3. l - Len(js) \in DOMAIN new /\ both[l] = new[l - Len(js)]
      BY <1>3, <3>1
    <3>4. k - Len(js) < l - Len(js)
      BY <1>3, <2>1
    <3>5. Precedes(new[k - Len(js)], new[l - Len(js)], {})
      BY <3>2, <3>3, <3>4 DEF InOrder
    <3>6. QED
      BY <3>2, <3>3, <3>5 DEF Precedes
  <2>4. QED
    BY <2>2, <2>3
<1>8. CASE left = <<>>
  <2>1. m.jobs = both /\ m.calls = {}
    BY <1>5, <1>8
  <2>2. Swept({c}) = {} /\ Swept({}) = {}
    BY <1>4, <1>8 DEF Swept
  <2>3. OldRows(both, both)
    BY DEF OldRows
  <2>4. InOrder(both, W \cup Swept(m.calls))
    BY <1>7, <2>1, <2>2
  <2>5. QED
    BY <1>3, <2>1, <2>3, <2>4 DEF both, Leads
<1>9. CASE left # <<>>
  <2>1. m = Resume(both, c)
    BY <1>5, <1>9
  <2>2. Unheld(both, c.id)
    BY <1>4, <1>6 DEF Unheld
  <2>3. Leads(m, c, both, W)
    <3>1. Proper(both) /\ c \in ACall /\ c.then # "clean"
      BY <1>3, <1>4
    <3>2. QED
      BY <1>7, <2>1, <2>2, <3>1, ResumeIsProper
  <2>4. QED
    BY <1>4, <2>3 DEF both, Leads, Call
<1>10. QED
  BY <1>8, <1>9

CallsOK(js, cs) ==
    \A c \in cs :
        /\ c \in ACall
        /\ c.then = "clean" => c.left = <<>> /\ c.id = NoJob
        /\ Unheld(js, c.id)

\* The jobs js of the map and the calls cs under way fit together.
Queued(js, cs) == Proper(js) /\ InOrder(js, Swept(cs)) /\ CallsOK(js, cs)

\* Until the jobs are loaded there are none, and among the saved ones nobody is to be stopped.
RestInv ==
    ~on => /\ jobs = <<>> /\ calls = {}
           /\ InOrder(disk, {}) /\ \A k \in DOMAIN disk : ~disk[k].stop

DeferInv == Queued(jobs, calls) /\ Proper(disk) /\ RestInv /\ OwedIsArmed

LEMMA RowsAreJobs ==
    ASSUME NEW js, Proper(js)
    PROVE  \A k \in DOMAIN js : js[k] \in Job /\ Fit(js[k]) /\ js[k].id \in Slot /\ js[k].id # NoJob
<1>1. js \in Seq(Job) /\ \A k \in DOMAIN js : Fit(js[k])
  BY DEF Proper
<1>2. \A k \in DOMAIN js : js[k] \in Job
  BY <1>1
<1>3. QED
  BY <1>1, <1>2, JobFields, DeferAssumption

LEMMA CallsStay ==
    ASSUME NEW js, NEW cs, CallsOK(js, cs), NEW q, OldRows(q, js)
    PROVE  CallsOK(q, cs)
<1>1. \A i : Unheld(js, i) => Unheld(q, i)
  BY DEF Unheld, OldRows
<1>2. QED
  BY <1>1 DEF CallsOK

LEMMA KeepStaysQueued ==
    ASSUME NEW js, NEW cs, Queued(js, cs), NEW I \in SUBSET DOMAIN js
    PROVE  Queued(Keep(js, I), cs) /\ OldRows(Keep(js, I), js)
<1>1. Proper(js) /\ InOrder(js, Swept(cs)) /\ CallsOK(js, cs)
  BY DEF Queued
<1>2. Proper(Keep(js, I)) /\ OldRows(Keep(js, I), js)
  BY <1>1, KeepIsProper DEF OldRows
<1>3. \A k, l \in I : k < l => Precedes(js[k], js[l], Swept(cs))
  BY <1>1 DEF InOrder
<1>4. InOrder(Keep(js, I), Swept(cs))
  BY <1>1, <1>3, KeepIsProper
<1>5. QED
  BY <1>1, <1>2, <1>4, CallsStay DEF Queued

LEMMA FreshId ==
    ASSUME NEW i \in Unused
    PROVE  i \in Slot /\ (\A k \in DOMAIN jobs : jobs[k].id # i) /\ \A c \in calls : c.id # i
BY DEF Unused, Ids

\* The jobs that a call makes: one, or an install held behind its compile.
LEMMA OneIsProper ==
    ASSUME NEW r \in Job, Fit(r)
    PROVE  Proper(<<r>>) /\ InOrder(<<r>>, {}) /\ \A l \in DOMAIN <<r>> : <<r>>[l] = r
<1>1. <<r>> \in Seq(Job) /\ DOMAIN <<r>> = {1} /\ <<r>>[1] = r
  OBVIOUS
<1>2. QED
  BY <1>1 DEF Proper, InOrder

LEMMA TwoAreProper ==
    ASSUME NEW r \in Job, Fit(r), NEW q \in Job, Fit(q), r.id # q.id, r.dep = q.id
    PROVE  Proper(<<r, q>>) /\ InOrder(<<r, q>>, {}) /\ \A l \in DOMAIN <<r, q>> : <<r, q>>[l] \in {r, q}
<1>1. <<r, q>> \in Seq(Job) /\ DOMAIN <<r, q>> = {1, 2} /\ <<r, q>>[1] = r /\ <<r, q>>[2] = q
  OBVIOUS
<1>2. QED
  BY <1>1 DEF Proper, InOrder, Precedes

LEMMA NewJobs ==
    ASSUME NEW i \in Slot, NEW t \in {"compile", "app", "clean", "reset"}
    PROVE  /\ New(i, t) \in Job /\ Fit(New(i, t)) /\ New(i, t).id = i
           /\ t = "compile" => LET d == [New(i, t) EXCEPT !.deferred = TRUE] IN d \in Job /\ Fit(d) /\ d.id = i
           /\ t = "reset" => LET d == [New(i, t) EXCEPT !.st = "held"] IN
                                 d \in Job /\ Fit(d) /\ d.id = i /\ d.dep = NoJob /\ d.type = "reset"
           /\ t = "app" => \A j \in Slot : LET d == [New(i, t) EXCEPT !.st = "held", !.dep = j] IN
                                 d \in Job /\ Fit(d) /\ d.id = i /\ d.dep = j
BY DEF New, Job, Fit

\* A commit, by a call that has swept all it had to.
LEMMA CommitStaysQueued ==
    ASSUME NEW js, NEW cs, Queued(js, cs), NEW rest \in SUBSET cs, Swept(cs) \subseteq Swept(rest),
           NEW new, Proper(new), InOrder(new, {}),
           \A k \in DOMAIN js, l \in DOMAIN new : js[k].id # new[l].id,
           \A c \in cs, l \in DOMAIN new : c.id # new[l].id
    PROVE  Queued(CommitChain(js, new).jobs, rest \cup CommitChain(js, new).calls)
<1> DEFINE m == CommitChain(js, new)
           over == Call(NoJob, <<>>, "end")
<1>1. Proper(js) /\ InOrder(js, Swept(cs)) /\ CallsOK(js, cs)
  BY DEF Queued
<1>2. Leads(m, over, js \o new, Swept(cs))
  BY <1>1, ChainIsProper
<1> HIDE DEF m
<1>3. /\ Proper(m.jobs) /\ InOrder(m.jobs, Swept(cs) \cup Swept(m.calls)) /\ OldRows(m.jobs, js \o new)
      /\ \A d \in m.calls : d \in ACall /\ d.id = NoJob /\ d.then = "end"
  BY <1>2 DEF Leads, Call
<1>4. InOrder(m.jobs, Swept(rest \cup m.calls))
  <2>1. Swept(cs) \cup Swept(m.calls) \subseteq Swept(rest \cup m.calls)
    <3>1. Swept(rest) \cup Swept(m.calls) \subseteq Swept(rest \cup m.calls)
      BY DEF Swept
    <3>2. QED
      BY <3>1
  <2>2. QED
    BY <1>3, <2>1 DEF InOrder, Precedes
<1>5. \A k \in DOMAIN m.jobs : m.jobs[k].id # NoJob
  BY <1>3, RowsAreJobs
<1>6. ASSUME NEW c \in rest PROVE Unheld(m.jobs, c.id)
  <2>1. Unheld(js, c.id)
    BY <1>1 DEF CallsOK
  <2>2. Unheld(js \o new, c.id)
    <3>1. \A k \in DOMAIN (js \o new) :
             \/ k \in DOMAIN js /\ (js \o new)[k] = js[k]
             \/ \E l \in DOMAIN new : (js \o new)[k] = new[l]
      BY <1>1, BothAreProper
    <3>2. QED
      BY <2>1, <3>1 DEF Unheld
  <2>3. QED
    BY <1>3, <2>2 DEF OldRows, Unheld
<1>7. CallsOK(m.jobs, rest \cup m.calls)
  <2>1. \A d \in m.calls : Unheld(m.jobs, d.id)
    BY <1>3, <1>5 DEF Unheld
  <2>2. QED
    BY <1>1, <1>3, <1>6, <2>1 DEF CallsOK
<1>8. QED
  BY <1>3, <1>4, <1>7 DEF Queued, m

LEMMA CommitOne ==
    ASSUME Queued(jobs, calls), NEW i \in Unused, NEW r \in Job, Fit(r), r.id = i, Commits(<<r>>)
    PROVE  Queued(jobs', calls')
<1>1. Proper(<<r>>) /\ InOrder(<<r>>, {}) /\ \A l \in DOMAIN <<r>> : <<r>>[l] = r
  BY OneIsProper
<1> DEFINE new == <<r>>
<1>2. jobs' = CommitChain(jobs, new).jobs /\ calls' = calls \cup CommitChain(jobs, new).calls
  BY DEF Commits
<1>3. Proper(new) /\ InOrder(new, {}) /\ \A l \in DOMAIN new : new[l].id = i
  BY <1>1
<1> HIDE DEF new
<1>4. (\A k \in DOMAIN jobs, l \in DOMAIN new : jobs[k].id # new[l].id)
      /\ \A c \in calls, l \in DOMAIN new : c.id # new[l].id
  BY <1>3, FreshId
<1>5. QED
  BY <1>2, <1>3, <1>4, CommitStaysQueued

LEMMA CommitTwo ==
    ASSUME Queued(jobs, calls), NEW i \in Unused, NEW j \in Unused, i # j,
           NEW r \in Job, Fit(r), r.id = j, r.dep = i, NEW q \in Job, Fit(q), q.id = i, Commits(<<r, q>>)
    PROVE  Queued(jobs', calls')
<1>1. Proper(<<r, q>>) /\ InOrder(<<r, q>>, {}) /\ \A l \in DOMAIN <<r, q>> : <<r, q>>[l] \in {r, q}
  BY TwoAreProper
<1> DEFINE new == <<r, q>>
<1>2. jobs' = CommitChain(jobs, new).jobs /\ calls' = calls \cup CommitChain(jobs, new).calls
  BY DEF Commits
<1>3. Proper(new) /\ InOrder(new, {}) /\ \A l \in DOMAIN new : new[l].id \in {i, j}
  BY <1>1
<1> HIDE DEF new
<1>4. (\A k \in DOMAIN jobs, l \in DOMAIN new : jobs[k].id # new[l].id)
      /\ \A c \in calls, l \in DOMAIN new : c.id # new[l].id
  BY <1>3, FreshId
<1>5. QED
  BY <1>2, <1>3, <1>4, CommitStaysQueued

\* There are jobs and calls only once the jobs are loaded.
LEMMA BusyIsOn == ASSUME RestInv, jobs # <<>> \/ calls # {} PROVE on
BY DEF RestInv

LEMMA OnKeeps ==
    ASSUME DeferInv, on, UNCHANGED on, Queued(jobs', calls'), disk' \in {disk, jobs}, OwedIsArmed'
    PROVE  DeferInv'
<1>1. Proper(disk')
  BY DEF DeferInv, Queued
<1>2. RestInv'
  BY DEF RestInv
<1>3. QED
  BY <1>1, <1>2 DEF DeferInv

LEMMA ActiveIsOn ==
    ASSUME DeferInv, NEW r \in Active
    PROVE  on /\ \E k \in DOMAIN jobs : jobs[k] = r /\ r \in Job /\ Fit(r) /\ r.id \in Slot /\ r.id # NoJob
<1>1. PICK k \in DOMAIN jobs : jobs[k] = r
  BY DEF Active
<1>2. jobs # <<>>
  BY <1>1
<1>3. QED
  BY <1>1, <1>2, BusyIsOn, RowsAreJobs DEF DeferInv, Queued

LEMMA DeviceTurnsKeeps ==
    ASSUME Steady, DeferInv, NEW d \in {"ONLINE", "OFFLINE"}, DeviceTurns(d) PROVE DeferInv'
<1>1. on /\ UNCHANGED <<on, disk>> /\ OwedIsArmed'
  BY DEF DeviceTurns, Steady, DeferInv, OwedIsArmed
<1>2. Queued(jobs', calls')
  <2>1. CASE d = "ONLINE" /\ MayWake
    <3>1. PICK i \in Unused : Commits(<<New(i, "app")>>)
      BY <2>1 DEF DeviceTurns
    <3>2. New(i, "app") \in Job /\ Fit(New(i, "app")) /\ New(i, "app").id = i
      BY FreshId, NewJobs
    <3>3. QED
      BY <3>1, <3>2, CommitOne DEF DeferInv
  <2>2. CASE ~(d = "ONLINE" /\ MayWake)
    BY <2>2 DEF DeviceTurns, DeferInv
  <2>3. QED
    BY <2>1, <2>2
<1>3. QED
  BY <1>1, <1>2, OnKeeps

LEMMA CompileKeeps == ASSUME DeferInv, Compile PROVE DeferInv'
<1>1. on /\ UNCHANGED <<on, disk>> /\ OwedIsArmed'
  BY DEF Compile, Asks, DeferInv, OwedIsArmed
<1>2. PICK i \in Unused : Commits(<<New(i, "compile")>>)
  BY DEF Compile
<1>3. New(i, "compile") \in Job /\ Fit(New(i, "compile")) /\ New(i, "compile").id = i
  BY FreshId, NewJobs
<1>4. QED
  BY <1>1, <1>2, <1>3, CommitOne, OnKeeps DEF DeferInv

LEMMA InstallDefersKeeps == ASSUME DeferInv, InstallDefers PROVE DeferInv'
<1>1. on /\ UNCHANGED <<on, disk>> /\ OwedIsArmed'
  BY DEF InstallDefers, Asks, DeferInv, OwedIsArmed
<1>2. PICK i \in Unused : Commits(<<[New(i, "compile") EXCEPT !.deferred = TRUE]>>)
  BY DEF InstallDefers
<1> DEFINE r == [New(i, "compile") EXCEPT !.deferred = TRUE]
<1>3. r \in Job /\ Fit(r) /\ r.id = i
  BY FreshId, NewJobs
<1>4. Commits(<<r>>)
  BY <1>2
<1> HIDE DEF r
<1>5. QED
  BY <1>1, <1>3, <1>4, CommitOne, OnKeeps DEF DeferInv

LEMMA InstallChainKeeps == ASSUME Steady, DeferInv, InstallChain PROVE DeferInv'
<1>1. on /\ UNCHANGED <<on, disk>> /\ OwedIsArmed'
  BY DEF InstallChain, Asks, DeferInv, OwedIsArmed
<1>2. PICK i \in Unused, j \in Unused, f \in Image :
         i # j /\ Commits(<<[New(j, f) EXCEPT !.st = "held", !.dep = i], New(i, "compile")>>)
  BY DEF InstallChain
<1>3. f = "app"
  BY DeferAssumption DEF Steady
<1> DEFINE r == [New(j, "app") EXCEPT !.st = "held", !.dep = i]
           q == New(i, "compile")
<1>4. r \in Job /\ Fit(r) /\ r.id = j /\ r.dep = i /\ q \in Job /\ Fit(q) /\ q.id = i
  <2>1. i \in Slot /\ j \in Slot
    BY FreshId
  <2>2. QED
    BY <2>1 DEF New, Job, Fit
<1>5. Commits(<<r, q>>) /\ i # j
  BY <1>2, <1>3
<1> HIDE DEF r, q
<1>6. QED
  BY <1>1, <1>4, <1>5, CommitTwo, OnKeeps DEF DeferInv

LEMMA UploadKeeps == ASSUME Steady, DeferInv, Upload PROVE DeferInv'
<1>1. on /\ UNCHANGED <<on, disk>> /\ OwedIsArmed'
  BY DEF Upload, Asks, DeferInv, OwedIsArmed
<1>2. PICK i \in Unused, f \in Image : Commits(<<New(i, f)>>)
  BY DEF Upload
<1>3. f = "app"
  BY DeferAssumption DEF Steady
<1>4. New(i, "app") \in Job /\ Fit(New(i, "app")) /\ New(i, "app").id = i
  BY FreshId, NewJobs
<1>5. QED
  BY <1>1, <1>2, <1>3, <1>4, CommitOne, OnKeeps DEF DeferInv

LEMMA CleanKeeps == ASSUME DeferInv, Clean PROVE DeferInv'
<1>1. on /\ UNCHANGED <<on, disk, jobs>> /\ OwedIsArmed'
  BY DEF Clean, Asks, Disarms, OwedIsArmed
<1> DEFINE c == Call(NoJob, <<>>, "clean")
<1>2. calls' = calls \cup {c}
  BY DEF Clean
<1>3. c \in ACall /\ c.left = <<>> /\ c.id = NoJob
  BY DEF Call, ACall
<1> HIDE DEF c
<1>4. Proper(jobs) /\ InOrder(jobs, Swept(calls)) /\ CallsOK(jobs, calls)
  BY DEF DeferInv, Queued
<1>5. Unheld(jobs, c.id)
  BY <1>3, <1>4, RowsAreJobs DEF Unheld
<1>6. CallsOK(jobs, calls')
  BY <1>2, <1>3, <1>4, <1>5 DEF CallsOK
<1>7. InOrder(jobs, Swept(calls'))
  <2>1. Swept(calls) \subseteq Swept(calls')
    BY <1>2 DEF Swept
  <2>2. QED
    BY <1>4, <2>1 DEF InOrder, Precedes
<1>8. Queued(jobs', calls')
  BY <1>1, <1>4, <1>6, <1>7 DEF Queued
<1>9. QED
  BY <1>1, <1>8, OnKeeps

LEMMA CommitCleanKeeps == ASSUME DeferInv, CommitClean PROVE DeferInv'
<1>1. PICK c \in calls, i \in Unused :
         /\ c.then = "clean"
         /\ jobs' = CommitChain(jobs, <<New(i, "clean")>>).jobs
         /\ calls' = (calls \ {c}) \cup CommitChain(jobs, <<New(i, "clean")>>).calls
  BY DEF CommitClean
<1>2. on /\ UNCHANGED <<on, disk>> /\ OwedIsArmed'
  BY BusyIsOn DEF CommitClean, DeferInv, OwedIsArmed
<1> DEFINE r == New(i, "clean")
           new == <<r>>
<1>3. r \in Job /\ Fit(r) /\ r.id = i
  BY FreshId, NewJobs
<1>4. Proper(new) /\ InOrder(new, {}) /\ \A l \in DOMAIN new : new[l].id = i
  BY <1>3, OneIsProper
<1>5. jobs' = CommitChain(jobs, new).jobs /\ calls' = (calls \ {c}) \cup CommitChain(jobs, new).calls
  BY <1>1
<1> HIDE DEF new
<1>6. Queued(jobs, calls) /\ c.left = <<>>
  BY <1>1 DEF DeferInv, Queued, CallsOK
<1>7. Swept(calls) \subseteq Swept(calls \ {c}) /\ calls \ {c} \in SUBSET calls
  BY <1>6 DEF Swept
<1>8. (\A k \in DOMAIN jobs, l \in DOMAIN new : jobs[k].id # new[l].id)
      /\ \A d \in calls, l \in DOMAIN new : d.id # new[l].id
  BY <1>4, FreshId
<1>9. Queued(jobs', calls')
  BY <1>4, <1>5, <1>6, <1>7, <1>8, CommitStaysQueued
<1>10. QED
  BY <1>2, <1>9, OnKeeps

LEMMA ResetBuildEnvKeeps == ASSUME DeferInv, ResetBuildEnv PROVE DeferInv'
<1>1. on /\ UNCHANGED <<on, disk>> /\ OwedIsArmed'
  BY DEF ResetBuildEnv, Disarms, OwedIsArmed
<1> DEFINE all == [k \in DOMAIN jobs |-> jobs[k].id]
<1>2. PICK i \in Unused :
         LET m == Resume(Append(jobs, [New(i, "reset") EXCEPT !.st = "held"]), Call(i, all, "place"))
         IN  jobs' = m.jobs /\ calls' = calls \cup m.calls
  BY DEF ResetBuildEnv
<1> DEFINE r == [New(i, "reset") EXCEPT !.st = "held"]
           c == Call(i, all, "place")
           js == jobs \o <<r>>
           m == Resume(js, c)
<1>3. i \in Slot /\ (\A k \in DOMAIN jobs : jobs[k].id # i) /\ \A d \in calls : d.id # i
  BY FreshId
<1>4. r \in Job /\ Fit(r) /\ r.id = i /\ r.dep = NoJob /\ r.type = "reset"
  BY <1>3 DEF New, Job, Fit
<1>5. Proper(jobs) /\ InOrder(jobs, Swept(calls)) /\ CallsOK(jobs, calls)
  BY DEF DeferInv, Queued
<1>6. Append(jobs, r) = js
  BY <1>4, <1>5 DEF Proper
<1>7. jobs' = m.jobs /\ calls' = calls \cup m.calls
  BY <1>2, <1>6
<1> HIDE DEF r
<1>8. Proper(<<r>>) /\ \A l \in DOMAIN <<r>> : <<r>>[l] = r
  BY <1>4, OneIsProper
<1>9. /\ Proper(js) /\ DOMAIN js = 1..(Len(jobs) + 1) /\ DOMAIN jobs = 1..Len(jobs) /\ Len(jobs) \in Nat
      /\ \A k \in DOMAIN js : (k \in DOMAIN jobs /\ js[k] = jobs[k]) \/ (k = Len(jobs) + 1 /\ js[k] = r)
  <2>1. \A k \in DOMAIN jobs, l \in DOMAIN <<r>> : jobs[k].id # <<r>>[l].id
    BY <1>3, <1>4, <1>8
  <2>2. /\ Proper(js) /\ DOMAIN js = 1..(Len(jobs) + Len(<<r>>)) /\ DOMAIN jobs = 1..Len(jobs) /\ Len(jobs) \in Nat
        /\ \A k \in DOMAIN js :
              \/ k \in DOMAIN jobs /\ js[k] = jobs[k]
              \/ k > Len(jobs) /\ k - Len(jobs) \in DOMAIN <<r>> /\ js[k] = <<r>>[k - Len(jobs)]
    BY <1>5, <1>8, <2>1, BothAreProper
  <2>3. Len(<<r>>) = 1 /\ DOMAIN <<r>> = {1} /\ <<r>>[1] = r
    OBVIOUS
  <2> HIDE DEF js
  <2>4. QED
    BY <2>2, <2>3
<1> HIDE DEF js
<1>10. /\ all \in Seq(Slot) /\ DOMAIN all = DOMAIN jobs
       /\ \A k \in DOMAIN jobs : all[k] = jobs[k].id /\ jobs[k].id \in Slot /\ jobs[k].id # NoJob
  <2>1. \A k \in DOMAIN jobs : jobs[k].id \in Slot /\ jobs[k].id # NoJob
    BY <1>5, RowsAreJobs
  <2>2. all \in Seq(Slot)
    BY <1>9, <2>1
  <2>3. QED
    BY <2>1, <2>2
<1> HIDE DEF all
<1>11. c \in ACall /\ c.id = i /\ c.left = all /\ c.then = "place"
  BY <1>3, <1>10 DEF Call, ACall
<1> HIDE DEF c
<1>12. InOrder(js, Swept(calls) \cup Swept({c}))
  <2>1. SUFFICES ASSUME NEW k \in DOMAIN js, NEW l \in DOMAIN js, k < l
                 PROVE  Precedes(js[k], js[l], Swept(calls) \cup Swept({c}))
    BY DEF InOrder
  <2>2. k \in DOMAIN jobs /\ js[k] = jobs[k]
    BY <1>9, <2>1
  <2>3. jobs[k].id \in Swept({c})
    BY <1>10, <1>11, <2>2 DEF Swept
  <2>4. QED
    BY <2>2, <2>3 DEF Precedes
<1>13. Unheld(js, i)
  BY <1>3, <1>4, <1>9 DEF Unheld
<1>14. Leads(m, c, js, Swept(calls))
  <2>1. c.then # "clean" /\ Unheld(js, c.id)
    BY <1>11, <1>13
  <2>2. QED
    BY <1>9, <1>11, <1>12, <2>1, ResumeIsProper
<1> HIDE DEF m
<1>15. /\ Proper(m.jobs) /\ InOrder(m.jobs, Swept(calls) \cup Swept(m.calls)) /\ OldRows(m.jobs, js)
       /\ \A d \in m.calls : d \in ACall /\ d.id = i /\ d.then = "place"
  BY <1>11, <1>14 DEF Leads
<1>16. CallsOK(js, calls \cup m.calls)
  <2>1. ASSUME NEW d \in calls PROVE Unheld(js, d.id)
    <3>1. Unheld(jobs, d.id) /\ d.id # i
      BY <1>3, <1>5 DEF CallsOK
    <3>2. QED
      BY <1>4, <1>9, <3>1 DEF Unheld
  <2>2. QED
    BY <1>5, <1>13, <1>15, <2>1 DEF CallsOK
<1>17. CallsOK(m.jobs, calls \cup m.calls)
  BY <1>15, <1>16, CallsStay
<1>18. InOrder(m.jobs, Swept(calls \cup m.calls))
  <2>1. Swept(calls) \cup Swept(m.calls) \subseteq Swept(calls \cup m.calls)
    BY DEF Swept
  <2>2. QED
    BY <1>15, <2>1 DEF InOrder, Precedes
<1>19. Queued(jobs', calls')
  BY <1>7, <1>15, <1>17, <1>18 DEF Queued
<1>20. QED
  BY <1>1, <1>19, OnKeeps

LEMMA UserCancelKeeps == ASSUME DeferInv, UserCancel PROVE DeferInv'
<1>1. on /\ UNCHANGED <<on, disk, calls>> /\ OwedIsArmed'
  BY DEF UserCancel, Asks, DeferInv, OwedIsArmed
<1>2. PICK r \in Active : jobs' = Cancel(jobs, r.id)
  BY DEF UserCancel
<1>3. Proper(jobs) /\ InOrder(jobs, Swept(calls)) /\ CallsOK(jobs, calls)
  BY DEF DeferInv, Queued
<1>4. InOrder(jobs, Swept(calls) \cup {r.id})
  BY <1>3 DEF InOrder, Precedes
<1>5. Proper(jobs') /\ InOrder(jobs', Swept(calls)) /\ OldRows(jobs', jobs)
  BY <1>2, <1>3, <1>4, CancelIsProper
<1>6. Queued(jobs', calls')
  BY <1>1, <1>3, <1>5, CallsStay DEF Queued
<1>7. QED
  BY <1>1, <1>6, OnKeeps

LEMMA ClearQueuedUpdateKeeps == ASSUME DeferInv, ClearQueuedUpdate PROVE DeferInv'
<1>1. on /\ UNCHANGED <<on, disk, jobs, calls>> /\ OwedIsArmed'
  BY DEF ClearQueuedUpdate, Asks, Disarms, OwedIsArmed
<1>2. Queued(jobs', calls')
  BY <1>1 DEF DeferInv
<1>3. QED
  BY <1>1, <1>2, OnKeeps

LEMMA CallStepKeeps == ASSUME DeferInv, CallStep PROVE DeferInv'
<1>1. PICK c \in calls :
         /\ c.then # "clean"
         /\ jobs' = Resume(jobs, c).jobs /\ calls' = (calls \ {c}) \cup Resume(jobs, c).calls
  BY DEF CallStep
<1>2. on /\ UNCHANGED <<on, disk>> /\ OwedIsArmed'
  BY BusyIsOn DEF CallStep, DeferInv, OwedIsArmed
<1>3. Proper(jobs) /\ InOrder(jobs, Swept(calls)) /\ CallsOK(jobs, calls)
  BY DEF DeferInv, Queued
<1> DEFINE m == Resume(jobs, c)
           rest == calls \ {c}
<1>4. Swept(calls) \subseteq Swept(rest) \cup Swept({c})
  BY DEF Swept
<1>5. Leads(m, c, jobs, Swept(rest))
  <2>1. InOrder(jobs, Swept(rest) \cup Swept({c}))
    BY <1>3, <1>4 DEF InOrder, Precedes
  <2>2. c \in ACall /\ Unheld(jobs, c.id)
    BY <1>3 DEF CallsOK
  <2>3. QED
    BY <1>1, <1>3, <2>1, <2>2, ResumeIsProper
<1>6. jobs' = m.jobs /\ calls' = rest \cup m.calls
  BY <1>1
<1> HIDE DEF m
<1>7. /\ Proper(m.jobs) /\ InOrder(m.jobs, Swept(rest) \cup Swept(m.calls)) /\ OldRows(m.jobs, jobs)
      /\ \A d \in m.calls : d \in ACall /\ d.id = c.id /\ d.then = c.then
  BY <1>5 DEF Leads
<1>8. CallsOK(jobs, rest \cup m.calls)
  BY <1>1, <1>3, <1>7 DEF CallsOK
<1>9. CallsOK(m.jobs, rest \cup m.calls)
  BY <1>7, <1>8, CallsStay
<1>10. InOrder(m.jobs, Swept(rest \cup m.calls))
  <2>1. Swept(rest) \cup Swept(m.calls) \subseteq Swept(rest \cup m.calls)
    BY DEF Swept
  <2>2. QED
    BY <1>7, <2>1 DEF InOrder, Precedes
<1>11. Queued(jobs', calls')
  BY <1>6, <1>7, <1>9, <1>10 DEF Queued
<1>12. QED
  BY <1>2, <1>11, OnKeeps

LEMMA StartKeeps == ASSUME DeferInv, NEW i \in Slot, Start(i) PROVE DeferInv'
<1>1. PICK r \in Active :
         /\ on /\ r.id = i /\ r.st = "queued"
         /\ jobs' = Mark(jobs, {i}, LAMBDA o : [o EXCEPT !.st = "running"])
         /\ UNCHANGED <<on, armed, disk, calls, owed>>
  BY DEF Start
<1>2. Proper(jobs) /\ InOrder(jobs, Swept(calls)) /\ CallsOK(jobs, calls)
  BY DEF DeferInv, Queued
<1>3. PICK n \in DOMAIN jobs : jobs[n] = r
  BY DEF Active
<1>4. jobs' = [k \in DOMAIN jobs |-> IF jobs[k].id \in {i} THEN [jobs[k] EXCEPT !.st = "running"] ELSE jobs[k]]
  BY <1>1 DEF Mark
<1>5. PICK q : q = jobs'
  OBVIOUS
<1>6. q = [k \in DOMAIN jobs |-> IF jobs[k].id \in {i} THEN [jobs[k] EXCEPT !.st = "running"] ELSE jobs[k]]
  BY <1>4, <1>5
<1>7. ASSUME NEW k \in DOMAIN jobs
      PROVE  /\ q[k] \in Job /\ Fit(q[k])
             /\ q[k].id = jobs[k].id /\ q[k].dep = jobs[k].dep /\ q[k].type = jobs[k].type /\ q[k].stop = jobs[k].stop
  <2>1. jobs[k] \in Job /\ Fit(jobs[k])
    BY <1>2, RowsAreJobs
  <2>2. CASE jobs[k].id = i
    <3>1. q[k] = [jobs[k] EXCEPT !.st = "running"]
      BY <1>6, <2>2
    <3>2. jobs[k].st = "queued"
      BY <1>1, <1>2, <1>3, <2>2 DEF Proper
    <3>3. jobs[k].dep = NoJob
      BY <2>1, <3>2 DEF Fit
    <3>4. /\ q[k] \in Job /\ q[k].id = jobs[k].id /\ q[k].dep = jobs[k].dep /\ q[k].type = jobs[k].type
          /\ q[k].stop = jobs[k].stop /\ q[k].stale = jobs[k].stale
      BY <2>1, <3>1 DEF Job
    <3>5. QED
      BY <2>1, <3>3, <3>4 DEF Fit
  <2>3. CASE jobs[k].id # i
    BY <1>6, <2>1, <2>3
  <2>4. QED
    BY <2>2, <2>3
<1>8. DOMAIN q = DOMAIN jobs
  BY <1>6
<1>9. q \in Seq(Job)
  <2>1. jobs \in Seq(Job)
    BY <1>2 DEF Proper
  <2>2. DOMAIN q = 1..Len(jobs) /\ Len(jobs) \in Nat
    BY <1>8, <2>1
  <2>3. q = [k \in 1..Len(jobs) |-> q[k]] /\ \A k \in 1..Len(jobs) : q[k] \in Job
    BY <1>6, <1>7, <1>8, <2>2
  <2>4. QED
    BY <2>2, <2>3
<1>10. Proper(q)
  BY <1>2, <1>7, <1>8, <1>9 DEF Proper
<1>11. InOrder(q, Swept(calls))
  BY <1>2, <1>7, <1>8 DEF InOrder, Precedes
<1>12. OldRows(q, jobs)
  BY <1>7, <1>8 DEF OldRows
<1>13. Queued(jobs', calls')
  BY <1>1, <1>2, <1>5, <1>10, <1>11, <1>12, CallsStay DEF Queued
<1>14. QED
  BY <1>1, <1>13, OnKeeps DEF DeferInv, OwedIsArmed

\* The end of a run that leaves the others as they are.
LEMMA LeavesKeeps ==
    ASSUME DeferInv, NEW r \in Active, NEW I \in SUBSET DOMAIN jobs, jobs' = Keep(jobs, I),
           UNCHANGED <<on, disk, calls>>, OwedIsArmed'
    PROVE  DeferInv'
<1>1. on
  BY ActiveIsOn
<1>2. Queued(jobs', calls')
  BY KeepStaysQueued DEF DeferInv
<1>3. QED
  BY <1>1, <1>2, OnKeeps

LEMMA CompileFailsKeeps == ASSUME DeferInv, NEW i \in Slot, CompileFails(i) PROVE DeferInv'
<1> DEFINE I == {k \in DOMAIN jobs : i \notin {jobs[k].id, jobs[k].dep}}
<1>1. PICK r \in Active : jobs' = Keep(jobs, I) /\ UNCHANGED <<on, armed, disk, calls, owed>>
  BY DEF CompileFails, Running
<1>2. I \in SUBSET DOMAIN jobs
  OBVIOUS
<1> HIDE DEF I
<1>3. OwedIsArmed'
  BY <1>1 DEF DeferInv, OwedIsArmed
<1>4. QED
  BY <1>1, <1>2, <1>3, LeavesKeeps

\* A flash that no build has overtaken takes what is owed to the device; one that was overtaken is being stopped.
LEMMA FlashLandsKeeps == ASSUME DeferInv, NEW i \in Slot, FlashLands(i) PROVE DeferInv'
<1> DEFINE I == {k \in DOMAIN jobs : jobs[k].id # i}
<1>1. PICK r \in Active :
         /\ ~r.stop /\ owed' = (owed /\ (r.stale \/ r.type = "boot"))
         /\ jobs' = Keep(jobs, I) /\ UNCHANGED <<on, disk, calls>>
  BY DEF FlashLands, Running, Without
<1>2. I \in SUBSET DOMAIN jobs
  OBVIOUS
<1> HIDE DEF I
<1>3. Fit(r)
  BY ActiveIsOn
<1>4. OwedIsArmed'
  BY <1>1, <1>3 DEF OwedIsArmed, Fit
<1>5. QED
  BY <1>1, <1>2, <1>4, LeavesKeeps

LEMMA FlashFailsKeeps == ASSUME DeferInv, NEW i \in Slot, FlashFails(i) PROVE DeferInv'
<1> DEFINE I == {k \in DOMAIN jobs : jobs[k].id # i}
<1>1. PICK r \in Active :
         /\ LET arms == ~r.stop /\ r.type = "app" /\ state = "OFFLINE"
            IN  armed' = (armed \/ arms) /\ owed' = (owed \/ arms)
         /\ jobs' = Keep(jobs, I) /\ UNCHANGED <<on, disk, calls>>
  BY DEF FlashFails, Running, Without
<1>2. I \in SUBSET DOMAIN jobs
  OBVIOUS
<1> HIDE DEF I
<1>3. OwedIsArmed'
  BY <1>1 DEF DeferInv, OwedIsArmed
<1>4. QED
  BY <1>1, <1>2, <1>3, LeavesKeeps

LEMMA WipeEndsKeeps == ASSUME DeferInv, NEW i \in Slot, WipeEnds(i) PROVE DeferInv'
<1> DEFINE I == {k \in DOMAIN jobs : jobs[k].id # i}
<1>1. PICK r \in Active : jobs' = Keep(jobs, I) /\ UNCHANGED <<on, armed, disk, calls, owed>>
  BY DEF WipeEnds, Running, Without
<1>2. I \in SUBSET DOMAIN jobs
  OBVIOUS
<1> HIDE DEF I
<1>3. OwedIsArmed'
  BY <1>1 DEF DeferInv, OwedIsArmed
<1>4. QED
  BY <1>1, <1>2, <1>3, LeavesKeeps

\* When a build lands, and no sweep is under way, every flash that runs is being stopped: the one before it was
\* swept by the call of the build, the one after it would have stopped the build.
LEMMA LandsOnStopped ==
    ASSUME Queued(jobs, calls), NEW n \in DOMAIN jobs, jobs[n].type = "compile", ~jobs[n].stop, ~Sweeping,
           NEW k \in DOMAIN jobs, IsFlash(jobs[k]), jobs[k].st = "running"
    PROVE  jobs[k].stop
<1>1. Proper(jobs) /\ InOrder(jobs, Swept(calls)) /\ CallsOK(jobs, calls)
  BY DEF Queued
<1>2. jobs[n] \in Job /\ Fit(jobs[n]) /\ jobs[k] \in Job /\ Fit(jobs[k]) /\ jobs[n].id # NoJob /\ jobs[k].id # NoJob
  BY <1>1, RowsAreJobs
<1>3. Swept(calls) = {}
  BY DEF Sweeping, Swept
<1>4. k \in Nat /\ n \in Nat
  <2>1. jobs \in Seq(Job)
    BY <1>1 DEF Proper
  <2>2. DOMAIN jobs = 1..Len(jobs)
    BY <2>1
  <2>3. QED
    BY <2>2
<1>5. k # n
  BY DEF IsFlash
<1>6. CASE k < n
  <2>1. Precedes(jobs[k], jobs[n], {})
    BY <1>1, <1>3, <1>6 DEF InOrder
  <2>2. jobs[k].dep = NoJob /\ jobs[k].type # "reset"
    BY <1>2 DEF Fit, IsFlash
  <2>3. QED
    BY <1>2, <2>1, <2>2 DEF Precedes
<1>7. CASE n < k
  <2>1. Precedes(jobs[n], jobs[k], {})
    BY <1>1, <1>3, <1>7 DEF InOrder
  <2>2. jobs[n].dep = NoJob
    BY <1>2 DEF Fit
  <2>3. QED
    BY <1>2, <2>1, <2>2 DEF Precedes
<1>8. QED
  BY <1>4, <1>5, <1>6, <1>7

LEMMA CompileLandsKeeps == ASSUME DeferInv, NEW i \in Slot, CompileLands(i) PROVE DeferInv'
<1>1. PICK r \in Running(i, {"compile"}) :
        LET flashed  == Mark(Without(jobs, i), {o.id : o \in {q \in Active : IsFlash(q) /\ q.st = "running"}},
                             LAMBDA o : [o EXCEPT !.stale = TRUE])
            deferred == r.deferred \/ Converts(r)
            freed    == IF deferred THEN Keep(flashed, {k \in DOMAIN flashed : flashed[k].dep # i})
                        ELSE Mark(flashed, {o.id : o \in {q \in Active : q.dep = i}},
                                  LAMBDA o : [o EXCEPT !.st = "queued", !.dep = NoJob])
        IN  /\ ~r.stop /\ ~Sweeping
            /\ armed' = (armed \/ deferred) /\ owed' = (owed \/ deferred)
            /\ IF deferred /\ state = "ONLINE"
               THEN \E j \in Unused : LET m == CommitChain(freed, <<New(j, "app")>>)
                                      IN  jobs' = m.jobs /\ calls' = calls \cup m.calls
               ELSE jobs' = freed /\ UNCHANGED calls
            /\ UNCHANGED <<on, disk>>
  BY DEF CompileLands
<1> DEFINE I == {k \in DOMAIN jobs : jobs[k].id # i}
           kept1 == Keep(jobs, I)
           flashing == {o.id : o \in {q \in Active : IsFlash(q) /\ q.st = "running"}}
           flashed == [k \in DOMAIN kept1 |->
                         IF kept1[k].id \in flashing THEN [kept1[k] EXCEPT !.stale = TRUE] ELSE kept1[k]]
           deferred == r.deferred \/ Converts(r)
           waiting == {o.id : o \in {q \in Active : q.dep = i}}
           loose == [k \in DOMAIN flashed |->
                        IF flashed[k].id \in waiting THEN [flashed[k] EXCEPT !.st = "queued", !.dep = NoJob]
                        ELSE flashed[k]]
           freed == IF deferred THEN Keep(flashed, {k \in DOMAIN flashed : flashed[k].dep # i}) ELSE loose
<1>2. /\ ~r.stop /\ ~Sweeping
      /\ armed' = (armed \/ deferred) /\ owed' = (owed \/ deferred)
      /\ \/ \E j \in Unused : /\ jobs' = CommitChain(freed, <<New(j, "app")>>).jobs
                              /\ calls' = calls \cup CommitChain(freed, <<New(j, "app")>>).calls
         \/ jobs' = freed /\ UNCHANGED calls
      /\ UNCHANGED <<on, disk>>
  BY <1>1 DEF Mark, Without
<1>3. r \in Active /\ r.id = i /\ r.type = "compile"
  BY DEF Running
<1>4. on
  BY <1>3, ActiveIsOn
<1>5. OwedIsArmed'
  BY <1>2 DEF DeferInv, OwedIsArmed
<1>6. Queued(jobs, calls) /\ Proper(jobs) /\ CallsOK(jobs, calls)
  BY DEF DeferInv, Queued
<1>7. \A k \in DOMAIN jobs : jobs[k].id \in flashing => jobs[k].stop
  <2>1. PICK n \in DOMAIN jobs : jobs[n] = r
    BY <1>3 DEF Active
  <2>2. ASSUME NEW k \in DOMAIN jobs, jobs[k].id \in flashing PROVE jobs[k].stop
    <3>1. PICK q \in Active : IsFlash(q) /\ q.st = "running" /\ q.id = jobs[k].id
      BY <2>2
    <3>2. q = jobs[k]
      BY <1>6, <3>1 DEF Active, Proper
    <3>3. QED
      BY <1>2, <1>3, <1>6, <2>1, <3>1, <3>2, LandsOnStopped
  <2>3. QED
    BY <2>2
<1>8. \A k \in DOMAIN jobs : jobs[k].id \in waiting => jobs[k].dep = i
  <2>1. ASSUME NEW k \in DOMAIN jobs, jobs[k].id \in waiting PROVE jobs[k].dep = i
    <3>1. PICK q \in Active : q.dep = i /\ q.id = jobs[k].id
      BY <2>1
    <3>2. q = jobs[k]
      BY <1>6, <3>1 DEF Active, Proper
    <3>3. QED
      BY <3>1, <3>2
  <2>2. QED
    BY <2>1
<1>9. I \in SUBSET DOMAIN jobs
  OBVIOUS
<1>10. /\ Queued(kept1, calls) /\ OldRows(kept1, jobs)
       /\ \A n \in DOMAIN kept1 : \E k \in DOMAIN jobs : kept1[n] = jobs[k] /\ jobs[k].id # i
  <2>1. \A k \in I : k \in DOMAIN jobs /\ jobs[k].id # i
    OBVIOUS
  <2> HIDE DEF I
  <2>2. Queued(kept1, calls) /\ OldRows(kept1, jobs)
    BY <1>6, <1>9, KeepStaysQueued
  <2>3. \A n \in DOMAIN kept1 : \E k \in I : kept1[n] = jobs[k]
    BY <1>6, <1>9, KeepIsProper
  <2>4. QED
    BY <2>1, <2>2, <2>3
<1> HIDE DEF kept1, flashing, waiting, I, deferred
<1>11. Proper(kept1) /\ InOrder(kept1, Swept(calls)) /\ CallsOK(kept1, calls)
  BY <1>10 DEF Queued
<1>12. kept1 \in Seq(Job) /\ DOMAIN kept1 = 1..Len(kept1) /\ Len(kept1) \in Nat
  <2>1. kept1 \in Seq(Job)
    BY <1>11 DEF Proper
  <2>2. QED
    BY <2>1
<1>13. DOMAIN flashed = DOMAIN kept1
  OBVIOUS
<1>14. ASSUME NEW k \in DOMAIN kept1
       PROVE  /\ flashed[k] \in Job /\ Fit(flashed[k])
              /\ flashed[k].id = kept1[k].id /\ flashed[k].dep = kept1[k].dep /\ flashed[k].type = kept1[k].type
              /\ flashed[k].stop = kept1[k].stop
  <2>1. kept1[k] \in Job /\ Fit(kept1[k])
    BY <1>11, RowsAreJobs
  <2>2. CASE kept1[k].id \in flashing
    <3>1. flashed[k] = [kept1[k] EXCEPT !.stale = TRUE]
      BY <2>2
    <3>2. kept1[k].stop
      BY <1>7, <1>10, <2>2
    <3>3. /\ flashed[k] \in Job /\ flashed[k].id = kept1[k].id /\ flashed[k].dep = kept1[k].dep
          /\ flashed[k].type = kept1[k].type /\ flashed[k].st = kept1[k].st /\ flashed[k].stop = kept1[k].stop
      BY <2>1, <3>1 DEF Job
    <3> HIDE DEF flashed
    <3>4. QED
      BY <2>1, <3>2, <3>3 DEF Fit
  <2>3. CASE kept1[k].id \notin flashing
    <3>1. flashed[k] = kept1[k]
      BY <2>3
    <3>2. QED
      BY <2>1, <3>1
  <2>4. QED
    BY <2>2, <2>3
<1>15. flashed \in Seq(Job)
  BY <1>12, <1>14
<1> HIDE DEF flashed
<1>16. Proper(flashed) /\ InOrder(flashed, Swept(calls)) /\ OldRows(flashed, kept1)
  <2>1. Proper(flashed)
    BY <1>11, <1>13, <1>14, <1>15 DEF Proper
  <2>2. InOrder(flashed, Swept(calls))
    BY <1>11, <1>13, <1>14 DEF InOrder, Precedes
  <2>3. OldRows(flashed, kept1)
    BY <1>13, <1>14 DEF OldRows
  <2>4. QED
    BY <2>1, <2>2, <2>3
<1>17. Queued(flashed, calls)
  BY <1>11, <1>16, CallsStay DEF Queued
<1>18. ASSUME NEW k \in DOMAIN flashed
       PROVE  flashed[k].id # i /\ (flashed[k].id \in waiting => flashed[k].dep = i)
  BY <1>8, <1>10, <1>13, <1>14
<1>19. DOMAIN loose = DOMAIN flashed
  OBVIOUS
<1>20. ASSUME NEW k \in DOMAIN flashed
       PROVE  /\ loose[k] \in Job /\ Fit(loose[k])
              /\ loose[k].id = flashed[k].id /\ loose[k].type = flashed[k].type /\ loose[k].stop = flashed[k].stop
              /\ \/ loose[k].dep = flashed[k].dep
                 \/ loose[k].dep = NoJob /\ flashed[k].dep = i
  <2>1. flashed[k] \in Job /\ Fit(flashed[k])
    BY <1>13, <1>14
  <2>2. CASE flashed[k].id \in waiting
    <3>1. loose[k] = [flashed[k] EXCEPT !.st = "queued", !.dep = NoJob]
      BY <2>2
    <3>2. /\ loose[k] \in Job /\ loose[k].id = flashed[k].id /\ loose[k].dep = NoJob
          /\ loose[k].type = flashed[k].type /\ loose[k].stop = flashed[k].stop /\ loose[k].stale = flashed[k].stale
      BY <2>1, <3>1 DEF Job
    <3> HIDE DEF loose
    <3>3. QED
      BY <1>18, <2>1, <2>2, <3>2 DEF Fit
  <2>3. CASE flashed[k].id \notin waiting
    <3>1. loose[k] = flashed[k]
      BY <2>3
    <3>2. QED
      BY <2>1, <3>1
  <2>4. QED
    BY <2>2, <2>3
<1>21. loose \in Seq(Job)
  <2>1. DOMAIN flashed = 1..Len(kept1) /\ Len(kept1) \in Nat
    BY <1>12, <1>13
  <2>2. loose = [k \in 1..Len(kept1) |-> loose[k]] /\ \A k \in 1..Len(kept1) : loose[k] \in Job
    BY <1>19, <1>20, <2>1
  <2> HIDE DEF loose
  <2>3. QED
    BY <2>1, <2>2
<1> HIDE DEF loose
<1>22. Queued(loose, calls) /\ OldRows(loose, flashed)
  <2>1. Proper(loose)
    BY <1>16, <1>19, <1>20, <1>21 DEF Proper
  <2>2. InOrder(loose, Swept(calls))
    <3>1. SUFFICES ASSUME NEW k \in DOMAIN flashed, NEW l \in DOMAIN flashed, k < l
                   PROVE  Precedes(loose[k], loose[l], Swept(calls))
      BY <1>19 DEF InOrder
    <3>2. Precedes(flashed[k], flashed[l], Swept(calls))
      BY <1>16, <3>1 DEF InOrder
    <3>3. flashed[l].id # i
      BY <1>18
    <3>4. QED
      BY <1>20, <3>2, <3>3 DEF Precedes
  <2>3. OldRows(loose, flashed)
    BY <1>19, <1>20 DEF OldRows
  <2>4. QED
    BY <1>17, <2>1, <2>2, <2>3, CallsStay DEF Queued
<1>23. Queued(freed, calls) /\ \A n \in DOMAIN freed : \E k \in DOMAIN jobs : freed[n].id = jobs[k].id
  <2> DEFINE K == {k \in DOMAIN flashed : flashed[k].dep # i}
  <2>1. Queued(Keep(flashed, K), calls) /\ OldRows(Keep(flashed, K), flashed)
    <3>1. K \in SUBSET DOMAIN flashed
      OBVIOUS
    <3> HIDE DEF K
    <3>2. QED
      BY <1>17, <3>1, KeepStaysQueued
  <2>2. Queued(freed, calls) /\ OldRows(freed, flashed)
    BY <1>22, <2>1
  <2> HIDE DEF freed
  <2>3. QED
    BY <1>10, <1>16, <2>2 DEF OldRows
<1> HIDE DEF freed
<1>24. CASE jobs' = freed /\ UNCHANGED calls
  BY <1>2, <1>4, <1>5, <1>23, <1>24, OnKeeps
<1>25. CASE \E j \in Unused : /\ jobs' = CommitChain(freed, <<New(j, "app")>>).jobs
                              /\ calls' = calls \cup CommitChain(freed, <<New(j, "app")>>).calls
  <2>1. PICK j \in Unused : /\ jobs' = CommitChain(freed, <<New(j, "app")>>).jobs
                            /\ calls' = calls \cup CommitChain(freed, <<New(j, "app")>>).calls
    BY <1>25
  <2> DEFINE new == <<New(j, "app")>>
  <2>2. New(j, "app") \in Job /\ Fit(New(j, "app")) /\ New(j, "app").id = j
    BY FreshId, NewJobs
  <2>3. Proper(new) /\ InOrder(new, {}) /\ \A l \in DOMAIN new : new[l].id = j
    BY <2>2, OneIsProper
  <2>4. jobs' = CommitChain(freed, new).jobs /\ calls' = calls \cup CommitChain(freed, new).calls
    BY <2>1
  <2> HIDE DEF new
  <2>5. (\A k \in DOMAIN freed, l \in DOMAIN new : freed[k].id # new[l].id)
        /\ \A c \in calls, l \in DOMAIN new : c.id # new[l].id
    BY <1>23, <2>3, FreshId
  <2>6. Queued(jobs', calls')
    BY <1>23, <2>3, <2>4, <2>5, CommitStaysQueued
  <2>7. QED
    BY <1>2, <1>4, <1>5, <2>6, OnKeeps
<1>26. QED
  BY <1>2, <1>24, <1>25

LEMMA DeferSaveKeeps == ASSUME DeferInv, Save PROVE DeferInv'
<1>1. on
  BY BusyIsOn DEF Save, DeferInv
<1>2. UNCHANGED <<on, jobs, calls, armed, owed>> /\ disk' = jobs
  BY DEF Save
<1>3. Queued(jobs', calls') /\ OwedIsArmed'
  BY <1>2 DEF DeferInv, OwedIsArmed
<1>4. QED
  BY <1>1, <1>2, <1>3, OnKeeps

\* A crash comes when the saved jobs are those of the map, with no sweep under way.
LEMMA CrashKeeps == ASSUME Steady, DeferInv, Crash PROVE DeferInv'
<1>1. /\ stored = armed /\ disk = jobs /\ calls = {} /\ \A r \in Active : ~r.stop
      /\ armed' = stored /\ jobs' = <<>> /\ calls' = {} /\ UNCHANGED <<disk, owed>>
  BY DEF Crash, Steady, Written
<1>2. Proper(<<>>) /\ InOrder(<<>>, Swept({})) /\ CallsOK(<<>>, {})
  BY DEF Proper, InOrder, CallsOK
<1>3. Queued(jobs', calls')
  BY <1>1, <1>2 DEF Queued
<1>4. InOrder(disk, {}) /\ \A k \in DOMAIN disk : ~disk[k].stop
  <2>1. Swept(calls) = {}
    BY <1>1 DEF Swept
  <2>2. InOrder(disk, {})
    BY <1>1, <2>1 DEF DeferInv, Queued
  <2>3. QED
    BY <1>1, <2>2 DEF Active
<1>5. RestInv'
  BY <1>1, <1>4 DEF RestInv
<1>6. QED
  BY <1>1, <1>3, <1>5 DEF DeferInv, OwedIsArmed

LEMMA LoadJobsKeeps == ASSUME DeferInv, LoadJobs PROVE DeferInv'
<1> DEFINE I == {k \in DOMAIN disk : disk[k].id \notin Ids(jobs)}
           saved == Keep(disk, I)
           back == [k \in DOMAIN saved |->
                      [saved[k] EXCEPT !.st = IF saved[k].dep = NoJob THEN "queued" ELSE "held",
                                       !.stop = FALSE, !.stale = FALSE]]
<1>1. ~on /\ on' = TRUE /\ UNCHANGED <<armed, disk, calls, owed>> /\ jobs' = jobs \o back
  BY DEF LoadJobs
<1>2. jobs = <<>> /\ calls = {} /\ InOrder(disk, {}) /\ \A k \in DOMAIN disk : ~disk[k].stop
  BY <1>1 DEF DeferInv, RestInv
<1>3. Proper(disk) /\ I \in SUBSET DOMAIN disk
  BY DEF DeferInv
<1> HIDE DEF I
<1>4. /\ Proper(saved) /\ InOrder(saved, {})
      /\ \A n \in DOMAIN saved : \E k \in DOMAIN disk : saved[n] = disk[k]
  <2>1. \A k, l \in I : k < l => Precedes(disk[k], disk[l], {})
    BY <1>2, <1>3 DEF InOrder
  <2>2. Proper(saved) /\ InOrder(saved, {}) /\ \A n \in DOMAIN saved : \E k \in I : saved[n] = disk[k]
    BY <1>3, <2>1, KeepIsProper
  <2> HIDE DEF saved
  <2>3. QED
    BY <1>3, <2>2
<1> HIDE DEF saved
<1>5. \A k \in DOMAIN saved : ~saved[k].stop
  BY <1>2, <1>4
<1>6. saved \in Seq(Job) /\ DOMAIN saved = 1..Len(saved) /\ Len(saved) \in Nat
  <2>1. saved \in Seq(Job)
    BY <1>4 DEF Proper
  <2>2. QED
    BY <2>1
<1>7. DOMAIN back = DOMAIN saved
  OBVIOUS
<1>8. ASSUME NEW k \in DOMAIN saved
      PROVE  /\ back[k] \in Job /\ Fit(back[k])
             /\ back[k].id = saved[k].id /\ back[k].dep = saved[k].dep /\ back[k].type = saved[k].type
  <2>1. saved[k] \in Job /\ Fit(saved[k])
    BY <1>4, RowsAreJobs
  <2>2. CASE saved[k].dep = NoJob
    <3>1. back[k] = [saved[k] EXCEPT !.st = "queued", !.stop = FALSE, !.stale = FALSE]
      BY <2>2
    <3>2. /\ back[k] \in Job /\ back[k].id = saved[k].id /\ back[k].dep = saved[k].dep
          /\ back[k].type = saved[k].type /\ back[k].stale = FALSE
      BY <2>1, <3>1 DEF Job
    <3> HIDE DEF back
    <3>3. QED
      BY <2>1, <2>2, <3>2 DEF Fit
  <2>3. CASE saved[k].dep # NoJob
    <3>1. back[k] = [saved[k] EXCEPT !.st = "held", !.stop = FALSE, !.stale = FALSE]
      BY <2>3
    <3>2. /\ back[k] \in Job /\ back[k].id = saved[k].id /\ back[k].dep = saved[k].dep
          /\ back[k].type = saved[k].type /\ back[k].st = "held" /\ back[k].stale = FALSE
      BY <2>1, <3>1 DEF Job
    <3> HIDE DEF back
    <3>3. QED
      BY <2>1, <3>2 DEF Fit
  <2>4. QED
    BY <2>2, <2>3
<1>9. back \in Seq(Job)
  <2>1. back = [k \in 1..Len(saved) |-> back[k]] /\ \A k \in 1..Len(saved) : back[k] \in Job
    BY <1>6, <1>7, <1>8
  <2> HIDE DEF back
  <2>2. QED
    BY <1>6, <2>1
<1> HIDE DEF back
<1>10. Proper(back)
  BY <1>4, <1>7, <1>8, <1>9 DEF Proper
<1>11. InOrder(back, {})
  BY <1>4, <1>5, <1>7, <1>8 DEF InOrder, Precedes
<1>12. jobs' = back
  BY <1>1, <1>2, <1>9
<1>13. Queued(jobs', calls')
  <2>1. CallsOK(back, {}) /\ Swept({}) = {}
    BY DEF CallsOK, Swept
  <2>2. QED
    BY <1>1, <1>2, <1>10, <1>11, <1>12, <2>1 DEF Queued
<1>14. Proper(disk') /\ RestInv' /\ OwedIsArmed'
  BY <1>1, <1>3 DEF RestInv, DeferInv, OwedIsArmed
<1>15. QED
  BY <1>13, <1>14 DEF DeferInv

LEMMA DeferInitInv == DeferInit => DeferInv
<1>1. Proper(<<>>) /\ InOrder(<<>>, Swept({})) /\ CallsOK(<<>>, {})
  BY DEF Proper, InOrder, CallsOK
<1>2. QED
  BY <1>1 DEF DeferInit, DeferInv, Queued, RestInv, OwedIsArmed

LEMMA DeferInvKept == ASSUME Steady, DeferInv, [DeferNext]_deferVars PROVE DeferInv'
<1>2. CASE UNCHANGED deferVars \/ StoreFlush
  BY <1>2 DEF deferVars, StoreFlush, DeferInv, Queued, RestInv, OwedIsArmed, CallsOK
<1>3. CASE \E d \in {"ONLINE", "OFFLINE"} : DeviceTurns(d)
  BY <1>3, DeviceTurnsKeeps
<1>4. CASE Compile \/ InstallDefers \/ InstallChain \/ Upload
  BY <1>4, CompileKeeps, InstallDefersKeeps, InstallChainKeeps, UploadKeeps
<1>5. CASE Clean \/ CommitClean \/ ResetBuildEnv
  BY <1>5, CleanKeeps, CommitCleanKeeps, ResetBuildEnvKeeps
<1>6. CASE UserCancel \/ ClearQueuedUpdate \/ CallStep
  BY <1>6, UserCancelKeeps, ClearQueuedUpdateKeeps, CallStepKeeps
<1>7. CASE \E i \in Slot : Start(i) \/ End(i)
  BY <1>7, StartKeeps, CompileFailsKeeps, CompileLandsKeeps, FlashLandsKeeps, FlashFailsKeeps, WipeEndsKeeps DEF End
<1>8. CASE Save \/ Crash \/ LoadJobs
  BY <1>8, DeferSaveKeeps, CrashKeeps, LoadJobsKeeps
<1>9. QED
  BY <1>2, <1>3, <1>4, <1>5, <1>6, <1>7, <1>8 DEF DeferNext

\* What is owed to a sleeping device stays armed, for any number of jobs, calls, failures and crashes, as long as
\* the device answers only once the jobs are loaded, a crash finds the writes done and nobody flashes a bootloader:
\* the sweeps of commit_chain (factories.py) leave no flash of an older build to disarm a newer one.
THEOREM OwedIsArmedHolds == Steady => (DeferSpec => []OwedIsArmed)
<1> SUFFICES ASSUME Steady PROVE DeferSpec => []OwedIsArmed
  OBVIOUS
<1>1. DeferInit => DeferInv
  BY DeferInitInv
<1>2. DeferInv /\ [DeferNext]_deferVars => DeferInv'
  BY DeferInvKept
<1>3. DeferInv => OwedIsArmed
  BY DEF DeferInv
<1>4. QED
  BY <1>1, <1>2, <1>3, PTL DEF DeferSpec

-----------------------------------------------------------------------------
(* The build server's directories. *)

LaneJob == [who : Peer \cup {"reset"}, by : Peer \cup {"user"}]
PeerRec == [air : {"none", "upload", "ack"}, pend : Int, hop : {"none", "write", "made"},
            tree : {"none", "part", "warm", "cold"}, tools : {"none", "there", "going"},
            hit : BOOLEAN, spoilt : BOOLEAN, done : BOOLEAN, pack : BOOLEAN]

SweepRec == [at : {"off", "walk", "tree", "live", "data"}, who : Peer \cup {"none"}, kept : BOOLEAN]
VenvRec == [st : {"none", "part", "whole"}, ok : BOOLEAN, rm : BOOLEAN]

\* An offloader's directories, with a job of its or not, and the cleanup that looks at them: the tree of a job, or
\* of an extract, is there unless it is marked as lost; the cleanup is at the removal of what no such job has.
Safe(r, job, look, spared) ==
    /\ job /\ ~r.spoilt => r.tree # "none"
    /\ r.hop # "none" /\ ~r.hit => r.tree # "none"
    /\ r.hop # "none" => r.tree # "cold"
    /\ r.tools = "going" => look = "data"
    /\ look \in {"tree", "data"} => (job => r.spoilt) /\ (r.hop # "none" => r.hit)
    /\ look = "walk" /\ ~spared /\ job => r.tree # "cold"

LookAt(s, p) == IF s.who = p THEN s.at ELSE "off"
Who(js) == {js[k].who : k \in DOMAIN js}
DirsInv == \A p \in Peer : Safe(peer[p], p \in Who(lane), LookAt(sweep, p), sweep.kept)

\* A build runs for an offloader, with its data dir and its venv.
RunInv ==
    /\ Busy => lane # <<>>
    /\ step \in {"resolve", "provision", "pip", "installed", "pinned"} => lane[1].who \in Peer
    /\ step \in {"installed", "pinned"} /\ ~flagged => peer[lane[1].who].spoilt \/ peer[lane[1].who].tools = "there"
    /\ step = "pinned" => venv.st = "whole" \/ venv.rm
    /\ venv.ok => venv.st # "part"

\* A reset that an offloader asked for meets no download.
PeerResetInv ==
    \A k \in DOMAIN lane : lane[k].who = "reset" /\ lane[k].by # "user" => \A p \in Peer : ~peer[p].pack

DiskTypes ==
    /\ lane \in Seq(LaneJob) /\ peer \in [Peer -> PeerRec]
    /\ step \in {"idle", "resolve", "provision", "pip", "installed", "pinned", "wipe", "venvs"}
    /\ flagged \in BOOLEAN
    /\ venv \in VenvRec
    /\ sweep \in SweepRec
    /\ step = "wipe" => lane[1].who = "reset"

\* Nobody removes venvs before the receiver starts.
NoneRemoves == life = "lanes" => ~venv.rm

DiskInv == DiskTypes /\ DirsInv /\ RunInv /\ PeerResetInv

LEMMA LaneFacts ==
    ASSUME DiskTypes
    PROVE  /\ lane \in Seq(LaneJob) /\ Len(lane) \in Nat /\ DOMAIN lane = 1..Len(lane)
           /\ \A k \in DOMAIN lane : lane[k].who \in Peer \cup {"reset"}
           /\ lane # <<>> => /\ 1 \in DOMAIN lane /\ Head(lane) = lane[1]
                             /\ Tail(lane) \in Seq(LaneJob) /\ Len(Tail(lane)) = Len(lane) - 1
                             /\ \A k \in DOMAIN Tail(lane) : k + 1 \in DOMAIN lane /\ Tail(lane)[k] = lane[k + 1]
<1>1. lane \in Seq(LaneJob)
  BY DEF DiskTypes
<1>2. Len(lane) \in Nat /\ DOMAIN lane = 1..Len(lane)
  BY <1>1
<1>3. \A k \in DOMAIN lane : lane[k].who \in Peer \cup {"reset"}
  <2>1. \A k \in DOMAIN lane : lane[k] \in LaneJob
    BY <1>1
  <2>2. QED
    BY <2>1 DEF LaneJob
<1>4. lane # <<>> => /\ 1 \in DOMAIN lane /\ Head(lane) = lane[1]
                     /\ Tail(lane) \in Seq(LaneJob) /\ Len(Tail(lane)) = Len(lane) - 1
                     /\ \A k \in DOMAIN Tail(lane) : k + 1 \in DOMAIN lane /\ Tail(lane)[k] = lane[k + 1]
  BY <1>1, <1>2
<1>5. QED
  BY <1>1, <1>2, <1>3, <1>4

LEMMA SafeLess ==
    ASSUME NEW r, NEW job, NEW less, NEW look, NEW spared, Safe(r, job, look, spared), less => job
    PROVE  Safe(r, less, look, spared)
BY DEF Safe

\* A step that changes one offloader's record, and not what its build and the resets go by.
LEMMA EditKeeps ==
    ASSUME DiskInv, NEW p \in Peer, NEW r \in PeerRec, peer' = [peer EXCEPT ![p] = r], UNCHANGED <<laneVars, venv, sweep>>,
           Safe(r, p \in Who(lane), LookAt(sweep, p), sweep.kept),
           r.spoilt = peer[p].spoilt, r.tools = peer[p].tools,
           (r.pack /\ ~peer[p].pack) => "reset" \notin Who(lane)
    PROVE  DiskInv'
<1> USE DEF laneVars
<1>1. DiskTypes /\ DirsInv /\ RunInv /\ PeerResetInv
  BY DEF DiskInv
<1>2. peer \in [Peer -> PeerRec]
  BY <1>1 DEF DiskTypes
<1>3. peer' \in [Peer -> PeerRec] /\ peer'[p] = r /\ \A q \in Peer : q # p => peer'[q] = peer[q]
  BY <1>2
<1>4. DiskTypes'
  BY <1>1, <1>3 DEF DiskTypes
<1>5. DirsInv'
  BY <1>1, <1>3 DEF DirsInv
<1>6. RunInv'
  <2>1. \A q \in Peer : peer'[q].spoilt = peer[q].spoilt /\ peer'[q].tools = peer[q].tools
    BY <1>3
  <2>2. QED
    BY <1>1, <2>1 DEF RunInv, Busy
<1>7. PeerResetInv'
  <2>1. SUFFICES ASSUME NEW k \in DOMAIN lane, lane[k].who = "reset", lane[k].by # "user" PROVE \A q \in Peer : ~peer'[q].pack
    BY DEF PeerResetInv
  <2>2. \A q \in Peer : ~peer[q].pack
    BY <1>1, <2>1 DEF PeerResetInv
  <2>3. "reset" \in Who(lane)
    BY <2>1 DEF Who
  <2>4. QED
    BY <1>3, <2>2, <2>3
<1>8. QED
  BY <1>4, <1>5, <1>6, <1>7 DEF DiskInv

LEMMA PeerFields ==
    ASSUME DiskInv, NEW p \in Peer
    PROVE  /\ peer \in [Peer -> PeerRec] /\ peer[p] \in PeerRec
           /\ Safe(peer[p], p \in Who(lane), LookAt(sweep, p), sweep.kept)
BY DEF DiskInv, DiskTypes, DirsInv

LEMMA BundleSteps ==
    ASSUME DiskInv, NEW p \in Peer, Header(p) \/ LastChunk(p) \/ Acked(p) \/ SessionEnds(p) \/ PackEnds(p)
    PROVE  DiskInv'
<1>1. /\ peer \in [Peer -> PeerRec] /\ peer[p] \in PeerRec
      /\ Safe(peer[p], p \in Who(lane), LookAt(sweep, p), sweep.kept)
  BY PeerFields
<1>2. UNCHANGED <<laneVars, venv, sweep>>
  BY DEF Header, LastChunk, Acked, SessionEnds, PackEnds
<1>3. ASSUME NEW r, peer' = [peer EXCEPT ![p] = r],
             /\ r \in PeerRec /\ r.tree = peer[p].tree /\ r.tools = peer[p].tools /\ r.hop = peer[p].hop
             /\ r.hit = peer[p].hit /\ r.spoilt = peer[p].spoilt /\ (r.pack => peer[p].pack)
      PROVE  DiskInv'
  <2>1. Safe(r, p \in Who(lane), LookAt(sweep, p), sweep.kept)
    BY <1>1, <1>3 DEF Safe
  <2>2. QED
    BY <1>2, <1>3, <2>1, EditKeeps
<1>4. CASE Header(p)
  <2> DEFINE r == [peer[p] EXCEPT !.air = "upload"]
  <2>1. peer' = [peer EXCEPT ![p] = r]
    BY <1>1, <1>4 DEF Header
  <2>2. /\ r \in PeerRec /\ r.tree = peer[p].tree /\ r.tools = peer[p].tools /\ r.hop = peer[p].hop
        /\ r.hit = peer[p].hit /\ r.spoilt = peer[p].spoilt /\ (r.pack => peer[p].pack)
    BY <1>1 DEF PeerRec
  <2> HIDE DEF r
  <2>3. QED
    BY <1>3, <2>1, <2>2
<1>5. CASE LastChunk(p)
  <2> DEFINE r == [peer[p] EXCEPT !.air = "ack"]
  <2>1. peer' = [peer EXCEPT ![p] = r]
    BY <1>1, <1>5 DEF LastChunk
  <2>2. /\ r \in PeerRec /\ r.tree = peer[p].tree /\ r.tools = peer[p].tools /\ r.hop = peer[p].hop
        /\ r.hit = peer[p].hit /\ r.spoilt = peer[p].spoilt /\ (r.pack => peer[p].pack)
    BY <1>1 DEF PeerRec
  <2> HIDE DEF r
  <2>3. QED
    BY <1>3, <2>1, <2>2
<1>6. CASE Acked(p)
  <2> DEFINE n == peer[p].pend + 1
             r == [peer[p] EXCEPT !.air = "none", !.pend = n]
  <2>0. n \in Int
    BY <1>1 DEF PeerRec
  <2>1. peer' = [peer EXCEPT ![p] = r]
    BY <1>1, <1>6 DEF Acked
  <2> HIDE DEF n
  <2>2. /\ r \in PeerRec /\ r.tree = peer[p].tree /\ r.tools = peer[p].tools /\ r.hop = peer[p].hop
        /\ r.hit = peer[p].hit /\ r.spoilt = peer[p].spoilt /\ (r.pack => peer[p].pack)
    BY <1>1, <2>0 DEF PeerRec
  <2> HIDE DEF r
  <2>3. QED
    BY <1>3, <2>1, <2>2
<1>7. CASE SessionEnds(p)
  <2> DEFINE a == IF peer[p].air = "upload" THEN "none" ELSE peer[p].air
             r == [peer[p] EXCEPT !.air = a, !.pack = FALSE]
  <2>0. a \in {"none", "upload", "ack"}
    BY <1>1 DEF PeerRec
  <2>1. peer' = [peer EXCEPT ![p] = r]
    BY <1>1, <1>7 DEF SessionEnds
  <2> HIDE DEF a
  <2>2. /\ r \in PeerRec /\ r.tree = peer[p].tree /\ r.tools = peer[p].tools /\ r.hop = peer[p].hop
        /\ r.hit = peer[p].hit /\ r.spoilt = peer[p].spoilt /\ (r.pack => peer[p].pack)
    BY <1>1, <2>0 DEF PeerRec
  <2> HIDE DEF r
  <2>3. QED
    BY <1>3, <2>1, <2>2
<1>8. CASE PackEnds(p)
  <2> DEFINE r == [peer[p] EXCEPT !.pack = FALSE]
  <2>1. peer' = [peer EXCEPT ![p] = r]
    BY <1>1, <1>8 DEF PackEnds
  <2>2. /\ r \in PeerRec /\ r.tree = peer[p].tree /\ r.tools = peer[p].tools /\ r.hop = peer[p].hop
        /\ r.hit = peer[p].hit /\ r.spoilt = peer[p].spoilt /\ (r.pack => peer[p].pack)
    BY <1>1 DEF PeerRec
  <2> HIDE DEF r
  <2>3. QED
    BY <1>3, <2>1, <2>2
<1>9. QED
  BY <1>4, <1>5, <1>6, <1>7, <1>8

LEMMA DownloadKeeps == ASSUME DiskInv, NEW p \in Peer, Download(p) PROVE DiskInv'
<1>1. /\ peer \in [Peer -> PeerRec] /\ peer[p] \in PeerRec
      /\ Safe(peer[p], p \in Who(lane), LookAt(sweep, p), sweep.kept)
  BY PeerFields
<1>2. UNCHANGED <<laneVars, venv, sweep>> /\ "reset" \notin Who(lane)
  BY DEF Download, DownloadBusy, WithJob, Who
<1>3. PICK r : peer' = [peer EXCEPT ![p] = r] /\ r = [peer[p] EXCEPT !.pack = TRUE]
  BY DEF Download
<1>4. /\ r \in PeerRec /\ r.tree = peer[p].tree /\ r.tools = peer[p].tools /\ r.hop = peer[p].hop
      /\ r.hit = peer[p].hit /\ r.spoilt = peer[p].spoilt
  BY <1>1, <1>3 DEF PeerRec
<1>5. Safe(r, p \in Who(lane), LookAt(sweep, p), sweep.kept)
  BY <1>1, <1>4 DEF Safe
<1>6. QED
  BY <1>2, <1>3, <1>4, <1>5, EditKeeps

\* An extract makes a tree that is not cold; one that begins as the cleanup removes is marked.
LEMMA ExtractSteps ==
    ASSUME DiskInv, NEW p \in Peer, ExtractBegins(p) \/ ExtractEnds(p) \/ Age(p)
    PROVE  DiskInv'
<1>1. /\ peer \in [Peer -> PeerRec] /\ peer[p] \in PeerRec
      /\ Safe(peer[p], p \in Who(lane), LookAt(sweep, p), sweep.kept)
  BY PeerFields
<1>2. UNCHANGED <<laneVars, venv, sweep>>
  BY DEF ExtractBegins, ExtractEnds, Age
<1>3. CASE ExtractBegins(p)
  <2>1. PICK r : /\ peer' = [peer EXCEPT ![p] = r]
                 /\ r = [peer[p] EXCEPT !.hop = "write", !.tree = "part", !.hit = (sweep.who = p /\ sweep.at # "walk")]
    BY <1>3 DEF ExtractBegins
  <2>2. r \in PeerRec
    BY <1>1, <2>1 DEF PeerRec
  <2>3. /\ r.tree = "part" /\ r.tools = peer[p].tools /\ r.hop = "write"
        /\ r.hit = (sweep.who = p /\ sweep.at # "walk") /\ r.spoilt = peer[p].spoilt /\ r.pack = peer[p].pack
    BY <1>1, <2>1 DEF PeerRec
  <2>4. Safe(r, p \in Who(lane), LookAt(sweep, p), sweep.kept)
    BY <1>1, <2>3 DEF Safe, LookAt
  <2>5. QED
    BY <1>2, <2>1, <2>2, <2>3, <2>4, EditKeeps
<1>4. CASE ExtractEnds(p)
  <2> DEFINE good == [peer[p] EXCEPT !.hop = "made", !.tree = "warm"]
             n == peer[p].pend - 1
             bad == [peer[p] EXCEPT !.hop = "none", !.pend = n]
  <2>0. peer' = [peer EXCEPT ![p] = good] \/ peer' = [peer EXCEPT ![p] = bad]
    BY <1>1, <1>4 DEF ExtractEnds
  <2>7. /\ good \in PeerRec /\ good.tools = peer[p].tools /\ good.hit = peer[p].hit /\ good.spoilt = peer[p].spoilt
        /\ good.pack = peer[p].pack /\ good.tree = "warm" /\ good.hop = "made"
    BY <1>1 DEF PeerRec
  <2>9. n \in Int
    BY <1>1 DEF PeerRec
  <2> HIDE DEF n
  <2>8. /\ bad \in PeerRec /\ bad.tools = peer[p].tools /\ bad.hit = peer[p].hit /\ bad.spoilt = peer[p].spoilt
        /\ bad.pack = peer[p].pack /\ bad.tree = peer[p].tree /\ bad.hop = "none"
    BY <1>1, <2>9 DEF PeerRec
  <2> HIDE DEF good, bad
  <2>1. PICK r : /\ peer' = [peer EXCEPT ![p] = r]
                 /\ r = good \/ r = bad
    BY <2>0
  <2>2. /\ r \in PeerRec /\ r.tools = peer[p].tools /\ r.hit = peer[p].hit /\ r.spoilt = peer[p].spoilt
        /\ r.pack = peer[p].pack
        /\ \/ r.tree = "warm" /\ r.hop = "made"
           \/ r.tree = peer[p].tree /\ r.hop = "none"
    BY <2>1, <2>7, <2>8
  <2>3. peer[p].hop = "write"
    BY <1>4 DEF ExtractEnds
  <2>4. Safe(r, p \in Who(lane), LookAt(sweep, p), sweep.kept)
    BY <1>1, <2>2, <2>3 DEF Safe
  <2>5. QED
    BY <1>2, <2>1, <2>2, <2>4, EditKeeps
<1>5. CASE Age(p)
  <2>1. sweep.at = "off" /\ peer[p].hop = "none" /\ peer[p].tree \in {"warm", "part"}
    BY <1>5 DEF Age
  <2>2. PICK r : peer' = [peer EXCEPT ![p] = r] /\ r = [peer[p] EXCEPT !.tree = "cold"]
    BY <1>5 DEF Age
  <2>3. /\ r \in PeerRec /\ r.tools = peer[p].tools /\ r.hit = peer[p].hit /\ r.spoilt = peer[p].spoilt
        /\ r.pack = peer[p].pack /\ r.tree = "cold" /\ r.hop = "none"
    BY <1>1, <2>1, <2>2 DEF PeerRec
  <2>4. LookAt(sweep, p) = "off"
    BY <2>1 DEF LookAt
  <2>5. Safe(r, p \in Who(lane), LookAt(sweep, p), sweep.kept)
    BY <1>1, <2>3, <2>4 DEF Safe
  <2>6. QED
    BY <1>2, <2>2, <2>3, <2>5, EditKeeps
<1>6. QED
  BY <1>3, <1>4, <1>5

\* The cleanup removes what nobody has who came before it looked, and who comes after is marked.
SweepEdit(p, s, r) ==
    /\ sweep' = s /\ s \in SweepRec
    /\ peer' = [peer EXCEPT ![p] = r] /\ r \in PeerRec
    /\ \A q \in Peer : q # p => LookAt(s, q) = "off" /\ LookAt(sweep, q) = "off"
    /\ Safe(r, p \in Who(lane), LookAt(s, p), s.kept)
    /\ r.spoilt = peer[p].spoilt /\ r.pack = peer[p].pack
    /\ peer[p].tools = "there" => r.tools = "there" \/ (p \in Who(lane) => r.spoilt)
    /\ UNCHANGED <<laneVars, venv>>

LEMMA SweepEditKeeps ==
    ASSUME DiskInv, NEW p \in Peer, NEW s, NEW r, SweepEdit(p, s, r)
    PROVE  DiskInv'
<1> USE DEF laneVars
<1>1. DiskTypes /\ DirsInv /\ RunInv /\ PeerResetInv
  BY DEF DiskInv
<1>2. /\ sweep' = s /\ s \in SweepRec
      /\ peer' = [peer EXCEPT ![p] = r] /\ r \in PeerRec
      /\ \A q \in Peer : q # p => LookAt(s, q) = "off" /\ LookAt(sweep, q) = "off"
      /\ Safe(r, p \in Who(lane), LookAt(s, p), s.kept)
      /\ r.spoilt = peer[p].spoilt /\ r.pack = peer[p].pack
      /\ peer[p].tools = "there" => r.tools = "there" \/ (p \in Who(lane) => r.spoilt)
      /\ UNCHANGED <<laneVars, venv>>
  BY DEF SweepEdit
<1>3. peer \in [Peer -> PeerRec]
  BY <1>1 DEF DiskTypes
<1>4. peer' \in [Peer -> PeerRec] /\ peer'[p] = r /\ \A q \in Peer : q # p => peer'[q] = peer[q]
  BY <1>2, <1>3
<1>5. DiskTypes'
  BY <1>1, <1>2, <1>4 DEF DiskTypes
<1>6. DirsInv'
  <2>1. SUFFICES ASSUME NEW q \in Peer PROVE Safe(peer'[q], q \in Who(lane), LookAt(s, q), s.kept)
    BY <1>2 DEF DirsInv
  <2>2. CASE q = p
    BY <1>2, <1>4, <2>2
  <2>3. CASE q # p
    <3>1. Safe(peer[q], q \in Who(lane), "off", sweep.kept)
      BY <1>1, <1>2, <2>3 DEF DirsInv
    <3>2. Safe(peer[q], q \in Who(lane), "off", s.kept)
      BY <3>1 DEF Safe
    <3>3. QED
      BY <1>2, <1>4, <2>3, <3>2
  <2>4. QED
    BY <2>2, <2>3
<1>7. RunInv'
  <2>1. step \in {"installed", "pinned"} /\ ~flagged => peer'[lane[1].who].spoilt \/ peer'[lane[1].who].tools = "there"
    <3>1. SUFFICES ASSUME step \in {"installed", "pinned"}, ~flagged
                   PROVE  peer'[lane[1].who].spoilt \/ peer'[lane[1].who].tools = "there"
      OBVIOUS
    <3>2. lane[1].who \in Peer /\ lane # <<>> /\ (peer[lane[1].who].spoilt \/ peer[lane[1].who].tools = "there")
      BY <1>1, <3>1 DEF RunInv, Busy
    <3>3. lane[1].who \in Who(lane)
      BY <1>1, <3>2, LaneFacts DEF Who
    <3>4. CASE lane[1].who = p
      BY <1>2, <1>4, <3>2, <3>3, <3>4
    <3>5. CASE lane[1].who # p
      BY <1>4, <3>2, <3>5
    <3>6. QED
      BY <3>4, <3>5
  <2>2. QED
    BY <1>1, <1>2, <2>1 DEF RunInv, Busy
<1>8. PeerResetInv'
  <2>1. \A q \in Peer : peer'[q].pack = peer[q].pack
    BY <1>2, <1>4
  <2>2. QED
    BY <1>1, <1>2, <2>1 DEF PeerResetInv
<1>9. QED
  BY <1>5, <1>6, <1>7, <1>8 DEF DiskInv

LEMMA Elsewhere ==
    ASSUME NEW p, NEW q, q # p, NEW s, s.at = "off" \/ s.who = p
    PROVE  LookAt(s, q) = "off"
BY DEF LookAt

LEMMA SweepSteps ==
    ASSUME DiskInv, NEW p \in Peer,
           SweepBegins(p) \/ Look(p) \/ RemoveTree(p) \/ LookIdle(p) \/ RemoveTools(p)
    PROVE  DiskInv'
<1>1. /\ peer \in [Peer -> PeerRec] /\ peer[p] \in PeerRec
      /\ Safe(peer[p], p \in Who(lane), LookAt(sweep, p), sweep.kept)
  BY PeerFields
<1>2. sweep \in SweepRec /\ UNCHANGED <<laneVars, venv>>
  BY DEF DiskInv, DiskTypes, SweepBegins, Look, RemoveTree, LookIdle, RemoveTools
<1>3. AtRest \in SweepRec /\ AtRest.at = "off"
  BY DEF AtRest, SweepRec
<1>4. (sweep.at = "off" \/ sweep.who = p) /\ (sweep'.at = "off" \/ sweep'.who = p) /\ sweep' \in SweepRec
  <2>1. CASE SweepBegins(p)
    BY <2>1 DEF SweepBegins, SweepRec
  <2>2. CASE Look(p)
    BY <1>2, <2>2 DEF Look, Goes, SweepRec
  <2>3. CASE RemoveTree(p)
    BY <1>2, <2>3 DEF RemoveTree, Goes, SweepRec
  <2>4. CASE LookIdle(p)
    BY <1>2, <1>3, <2>4 DEF LookIdle, Goes, SweepRec
  <2>5. CASE RemoveTools(p)
    BY <1>2, <1>3, <2>5 DEF RemoveTools
  <2>6. QED
    BY <2>1, <2>2, <2>3, <2>4, <2>5
<1>5. \A q \in Peer : q # p => LookAt(sweep', q) = "off" /\ LookAt(sweep, q) = "off"
  BY <1>4, Elsewhere DEF LookAt
<1>6. ASSUME NEW r, peer' = [peer EXCEPT ![p] = r],
             /\ r \in PeerRec /\ Safe(r, p \in Who(lane), LookAt(sweep', p), sweep'.kept)
             /\ r.spoilt = peer[p].spoilt /\ r.pack = peer[p].pack
             /\ peer[p].tools = "there" => r.tools = "there" \/ (p \in Who(lane) => r.spoilt)
      PROVE  DiskInv'
  <2>1. SweepEdit(p, sweep', r)
    BY <1>2, <1>4, <1>5, <1>6 DEF SweepEdit
  <2>2. QED
    BY <2>1, SweepEditKeeps
<1>7. ASSUME peer' = peer, Safe(peer[p], p \in Who(lane), LookAt(sweep', p), sweep'.kept) PROVE DiskInv'
  <2>1. peer' = [peer EXCEPT ![p] = peer[p]]
    BY <1>1, <1>7
  <2>2. QED
    BY <1>1, <1>6, <1>7, <2>1
<1>8. CASE SweepBegins(p)
  <2>1. peer' = peer /\ sweep.at = "off" /\ sweep'.at = "walk" /\ sweep'.who = p /\ sweep'.kept = (p \in Keys)
    BY <1>8 DEF SweepBegins
  <2>2. p \in Keys <=> p \in Who(lane)
    BY DiskAssumption DEF Keys, WithJob, Who
  <2>3. Safe(peer[p], p \in Who(lane), LookAt(sweep', p), sweep'.kept)
    BY <1>1, <2>1, <2>2 DEF Safe, LookAt
  <2>4. QED
    BY <1>7, <2>1, <2>3
<1>9. CASE Look(p)
  <2>1. /\ peer' = peer /\ sweep.at = "walk" /\ sweep.who = p /\ sweep'.who = p /\ sweep'.kept = sweep.kept
        /\ sweep'.at = IF Doomed(p) THEN "tree" ELSE "live"
    BY <1>2, <1>9 DEF Look, Goes, SweepRec
  <2>2. Safe(peer[p], p \in Who(lane), LookAt(sweep', p), sweep'.kept)
    BY <1>1, <2>1 DEF Safe, LookAt, Doomed
  <2>3. QED
    BY <1>7, <2>1, <2>2
<1>10. CASE RemoveTree(p)
  <2> DEFINE r == [peer[p] EXCEPT !.tree = "none"]
  <2>1. /\ sweep.at = "tree" /\ sweep.who = p /\ sweep'.who = p /\ sweep'.at = "live"
        /\ peer' = [peer EXCEPT ![p] = r]
    BY <1>1, <1>2, <1>10 DEF RemoveTree, Goes, SweepRec
  <2>2. /\ r \in PeerRec /\ r.tree = "none" /\ r.tools = peer[p].tools /\ r.hop = peer[p].hop
        /\ r.hit = peer[p].hit /\ r.spoilt = peer[p].spoilt /\ r.pack = peer[p].pack
    BY <1>1 DEF PeerRec
  <2> HIDE DEF r
  <2>3. Safe(r, p \in Who(lane), LookAt(sweep', p), sweep'.kept)
    BY <1>1, <2>1, <2>2 DEF Safe, LookAt
  <2>4. QED
    BY <1>6, <2>1, <2>2, <2>3
<1>11. CASE LookIdle(p)
  <2>1. /\ sweep.at = "live" /\ sweep.who = p
        /\ ~(Idle(p) /\ peer[p].tools = "there") => sweep' = AtRest /\ peer' = peer
    BY <1>11 DEF LookIdle
  <2>2. CASE ~(Idle(p) /\ peer[p].tools = "there")
    <3>1. Safe(peer[p], p \in Who(lane), LookAt(sweep', p), sweep'.kept)
      BY <1>1, <1>3, <2>1, <2>2 DEF Safe, LookAt
    <3>2. QED
      BY <1>7, <2>1, <2>2, <3>1
  <2>3. CASE Idle(p) /\ peer[p].tools = "there"
    <3> DEFINE r == [peer[p] EXCEPT !.tools = "going"]
    <3>1. /\ sweep'.who = p /\ sweep'.at = "data" /\ peer' = [peer EXCEPT ![p] = r]
      BY <1>1, <1>2, <1>11, <2>3 DEF LookIdle, Goes, SweepRec
    <3>2. /\ r \in PeerRec /\ r.tree = peer[p].tree /\ r.tools = "going" /\ r.hop = peer[p].hop
          /\ r.hit = peer[p].hit /\ r.spoilt = peer[p].spoilt /\ r.pack = peer[p].pack
      BY <1>1 DEF PeerRec
    <3> HIDE DEF r
    <3>3. peer[p].tree = "none"
      BY <2>3 DEF Idle
    <3>4. Safe(r, p \in Who(lane), LookAt(sweep', p), sweep'.kept) /\ (p \in Who(lane) => r.spoilt)
      BY <1>1, <3>1, <3>2, <3>3 DEF Safe, LookAt
    <3>5. QED
      BY <1>6, <3>1, <3>2, <3>4
  <2>4. QED
    BY <2>2, <2>3
<1>12. CASE RemoveTools(p)
  <2> DEFINE r == [peer[p] EXCEPT !.tools = "none"]
  <2>1. sweep.at = "data" /\ sweep.who = p /\ sweep' = AtRest /\ peer' = [peer EXCEPT ![p] = r]
    BY <1>1, <1>12 DEF RemoveTools
  <2>2. /\ r \in PeerRec /\ r.tree = peer[p].tree /\ r.tools = "none" /\ r.hop = peer[p].hop
        /\ r.hit = peer[p].hit /\ r.spoilt = peer[p].spoilt /\ r.pack = peer[p].pack
    BY <1>1 DEF PeerRec
  <2> HIDE DEF r
  <2>3. Safe(r, p \in Who(lane), LookAt(sweep', p), sweep'.kept) /\ (p \in Who(lane) => r.spoilt)
    BY <1>1, <1>3, <2>1, <2>2 DEF Safe, LookAt
  <2>4. QED
    BY <1>6, <2>1, <2>2, <2>3
<1>13. QED
  BY <1>8, <1>9, <1>10, <1>11, <1>12

\* A step of the worker that leaves directories and lane alone.
LEMMA WorkerMoves ==
    ASSUME DiskInv, UNCHANGED <<peer, lane, flagged, sweep>>, venv' \in VenvRec, venv'.ok => venv'.st # "part",
           \/ step' = step /\ (step = "pinned" => venv'.st = "whole" \/ venv'.rm)
           \/ step' \in {"resolve", "provision", "pip"} /\ lane # <<>> /\ lane[1].who \in Peer
           \/ step' \in {"wipe", "venvs"} /\ lane # <<>> /\ lane[1].who = "reset"
    PROVE  DiskInv'
<1>1. DiskTypes /\ DirsInv /\ RunInv /\ PeerResetInv
  BY DEF DiskInv
<1>2. DiskTypes'
  BY <1>1 DEF DiskTypes
<1>3. DirsInv' /\ PeerResetInv'
  BY <1>1 DEF DirsInv, PeerResetInv
<1>4. RunInv'
  BY <1>1 DEF RunInv, Busy
<1>5. QED
  BY <1>2, <1>3, <1>4 DEF DiskInv

\* The job at the front is over.
LEMMA JobLeaves ==
    ASSUME DiskInv, Busy, Over, sweep' = sweep, venv' \in VenvRec, venv'.ok => venv'.st # "part",
           peer' \in [Peer -> PeerRec],
           \A q \in Peer : Safe(peer'[q], q \in Who(lane), LookAt(sweep, q), sweep.kept) /\ (peer'[q].pack => peer[q].pack)
    PROVE  DiskInv'
<1>1. DiskTypes /\ DirsInv /\ RunInv /\ PeerResetInv
  BY DEF DiskInv
<1>2. lane # <<>>
  BY <1>1 DEF RunInv
<1>3. /\ lane' \in Seq(LaneJob) /\ step' = "idle" /\ flagged' = FALSE
      /\ \A k \in DOMAIN lane' : k + 1 \in DOMAIN lane /\ lane'[k] = lane[k + 1]
  BY <1>1, <1>2, LaneFacts DEF Over
<1>4. DiskTypes'
  BY <1>1, <1>3 DEF DiskTypes
<1>5. DirsInv'
  <2>1. SUFFICES ASSUME NEW q \in Peer PROVE Safe(peer'[q], q \in Who(lane'), LookAt(sweep, q), sweep.kept)
    BY DEF DirsInv
  <2>2. q \in Who(lane') => q \in Who(lane)
    BY <1>3 DEF Who
  <2>3. QED
    BY <2>2, SafeLess
<1>6. RunInv'
  BY <1>3 DEF RunInv, Busy
<1>7. PeerResetInv'
  <2>1. SUFFICES ASSUME NEW k \in DOMAIN lane', lane'[k].who = "reset", lane'[k].by # "user", NEW q \in Peer
                 PROVE  ~peer'[q].pack
    BY DEF PeerResetInv
  <2>2. k + 1 \in DOMAIN lane /\ lane[k + 1].who = "reset" /\ lane[k + 1].by # "user"
    BY <1>3, <2>1
  <2>3. QED
    BY <1>1, <2>2 DEF PeerResetInv
<1>8. QED
  BY <1>4, <1>5, <1>6, <1>7 DEF DiskInv

\* A build starts in its tree and makes its data dir.
LEMMA BuildStarts ==
    ASSUME DiskInv, NEW with \in {"installed", "pinned"}, step \in {"resolve", "provision", "pip"}, Compiles(with),
           sweep' = sweep, venv' \in VenvRec, venv'.ok => venv'.st # "part",
           with = "pinned" => venv'.st = "whole" \/ venv'.rm
    PROVE  DiskInv'
<1>1. DiskTypes /\ DirsInv /\ RunInv /\ PeerResetInv
  BY DEF DiskInv
<1> DEFINE p == lane[1].who
<1>2. lane # <<>> /\ p \in Peer /\ Head(lane).who = p /\ p \in Who(lane)
  <2>1. lane # <<>> /\ p \in Peer
    BY <1>1 DEF RunInv, Busy
  <2>2. QED
    BY <1>1, <2>1, LaneFacts DEF Who
<1> HIDE DEF p
<1>3. peer \in [Peer -> PeerRec] /\ peer[p] \in PeerRec
  BY <1>1, <1>2 DEF DiskTypes
<1> DEFINE t == IF peer[p].tools = "none" THEN "there" ELSE peer[p].tools
           r == [peer[p] EXCEPT !.tools = t]
<1>4. peer' = [peer EXCEPT ![p] = r] /\ step' = with /\ UNCHANGED <<lane, flagged>>
  BY <1>2, <1>3 DEF Compiles
<1>5. /\ r \in PeerRec /\ r.tree = peer[p].tree /\ r.hop = peer[p].hop /\ r.hit = peer[p].hit
      /\ r.spoilt = peer[p].spoilt /\ r.pack = peer[p].pack
      /\ (r.tools = "there" \/ (r.tools = "going" /\ peer[p].tools = "going"))
  <2>1. t \in {"there", "going"} /\ (t = "going" => peer[p].tools = "going")
    BY <1>3 DEF PeerRec
  <2> HIDE DEF t
  <2>2. r \in PeerRec
    BY <1>3, <2>1 DEF PeerRec
  <2>3. r.tools = t
    BY <1>3 DEF PeerRec
  <2>4. /\ r.tree = peer[p].tree /\ r.hop = peer[p].hop /\ r.hit = peer[p].hit
        /\ r.spoilt = peer[p].spoilt /\ r.pack = peer[p].pack
    BY <1>3 DEF PeerRec
  <2> HIDE DEF r
  <2>5. QED
    BY <2>1, <2>2, <2>3, <2>4
<1> HIDE DEF r
<1>6. peer' \in [Peer -> PeerRec] /\ peer'[p] = r /\ \A q \in Peer : q # p => peer'[q] = peer[q]
  BY <1>2, <1>3, <1>4, <1>5
<1>7. DiskTypes'
  BY <1>1, <1>4, <1>6 DEF DiskTypes
<1>8. Safe(peer[p], p \in Who(lane), LookAt(sweep, p), sweep.kept)
  BY <1>1, <1>2 DEF DirsInv
<1>9. Safe(r, p \in Who(lane), LookAt(sweep, p), sweep.kept) /\ (r.spoilt \/ r.tools = "there")
  BY <1>2, <1>5, <1>8 DEF Safe
<1>10. DirsInv'
  BY <1>1, <1>4, <1>6, <1>9 DEF DirsInv
<1>11. RunInv'
  <2>1. peer'[p].spoilt \/ peer'[p].tools = "there"
    BY <1>6, <1>9
  <2>2. p = lane'[1].who
    BY <1>4 DEF p
  <2>3. QED
    BY <1>2, <1>4, <2>1, <2>2 DEF RunInv, Busy
<1>12. PeerResetInv'
  <2>1. \A q \in Peer : peer'[q].pack = peer[q].pack
    BY <1>5, <1>6
  <2>2. QED
    BY <1>1, <1>4, <2>1 DEF PeerResetInv
<1>13. QED
  BY <1>7, <1>10, <1>11, <1>12 DEF DiskInv

LEMMA TakeKeeps == ASSUME DiskInv, Take PROVE DiskInv'
<1>1. DiskTypes /\ RunInv /\ lane # <<>>
  BY DEF DiskInv, Take
<1>2. Head(lane) = lane[1] /\ lane[1].who \in Peer \cup {"reset"}
  BY <1>1, LaneFacts
<1>3. venv' \in VenvRec /\ venv' = venv /\ (venv'.ok => venv'.st # "part")
  BY <1>1 DEF Take, DiskTypes, RunInv
<1>4. QED
  BY <1>1, <1>2, <1>3, WorkerMoves DEF Take

LEMMA ResolveKeeps == ASSUME DiskInv, Resolve PROVE DiskInv'
<1>1. DiskTypes /\ RunInv /\ DirsInv /\ step = "resolve" /\ UNCHANGED <<venv, sweep>>
  BY DEF DiskInv, Resolve
<1>2. Busy /\ lane # <<>> /\ lane[1].who \in Peer
  BY <1>1 DEF RunInv, Busy
<1>3. venv' \in VenvRec /\ (venv'.ok => venv'.st # "part")
  BY <1>1 DEF DiskTypes, RunInv
<1>4. CASE Compiles("installed")
  BY <1>1, <1>3, <1>4, BuildStarts
<1>5. CASE Over /\ UNCHANGED peer
  BY <1>1, <1>2, <1>3, <1>5, JobLeaves DEF DiskTypes, DirsInv
<1>6. CASE step' = "provision" /\ UNCHANGED <<peer, lane, flagged>>
  BY <1>1, <1>2, <1>3, <1>6, WorkerMoves
<1>7. QED
  BY <1>4, <1>5, <1>6 DEF Resolve

LEMMA ProvisionKeeps == ASSUME DiskInv, Provision PROVE DiskInv'
<1>1. DiskTypes /\ RunInv /\ DirsInv /\ step = "provision" /\ sweep' = sweep
  BY DEF DiskInv, Provision
<1>2. Busy /\ lane # <<>> /\ lane[1].who \in Peer /\ venv \in VenvRec
  BY <1>1 DEF RunInv, Busy, DiskTypes
<1>3. CASE (Warm \/ venv.st = "whole") /\ Compiles("pinned") /\ venv' = [venv EXCEPT !.ok = TRUE, !.rm = venv.rm /\ life = "stale"]
  <2>1. venv.st = "whole"
    BY <1>1, <1>2, <1>3 DEF Warm, RunInv, VenvRec
  <2>2. venv' \in VenvRec /\ venv'.st = "whole"
    BY <1>2, <1>3, <2>1 DEF VenvRec
  <2>3. QED
    BY <1>1, <1>3, <2>2, BuildStarts
<1>4. CASE /\ venv' = [st |-> "part", ok |-> FALSE, rm |-> venv.rm /\ life = "stale"]
           /\ step' = "pip" /\ UNCHANGED <<peer, lane, flagged>>
  <2>1. venv' \in VenvRec /\ ~venv'.ok
    BY <1>2, <1>4 DEF VenvRec
  <2>2. QED
    BY <1>1, <1>2, <1>4, <2>1, WorkerMoves
<1>5. QED
  BY <1>3, <1>4 DEF Provision

LEMMA InstallsKeeps == ASSUME DiskInv, Installs PROVE DiskInv'
<1>1. DiskTypes /\ RunInv /\ DirsInv /\ step = "pip" /\ sweep' = sweep
  BY DEF DiskInv, Installs
<1>2. Busy /\ venv \in VenvRec
  BY <1>1 DEF Busy, DiskTypes
<1>3. CASE venv' = [venv EXCEPT !.st = "whole", !.ok = TRUE] /\ Compiles("pinned")
  <2>1. venv' \in VenvRec /\ venv'.st = "whole"
    BY <1>2, <1>3 DEF VenvRec
  <2>2. QED
    BY <1>1, <1>3, <2>1, BuildStarts
<1>4. CASE venv' = [venv EXCEPT !.st = "none"] /\ Over /\ UNCHANGED peer
  <2>1. venv' \in VenvRec /\ venv'.st = "none"
    BY <1>2, <1>4 DEF VenvRec
  <2>2. QED
    BY <1>1, <1>2, <1>4, <2>1, JobLeaves DEF DiskTypes, DirsInv
<1>5. QED
  BY <1>3, <1>4 DEF Installs

LEMMA BuildEndsKeeps == ASSUME DiskInv, BuildEnds PROVE DiskInv'
<1>1. /\ DiskTypes /\ RunInv /\ DirsInv /\ step \in {"installed", "pinned"} /\ UNCHANGED <<sweep, venv>>
      /\ Over /\ Busy
  BY DEF DiskInv, BuildEnds, Busy
<1> DEFINE p == lane[1].who
<1>2. p \in Peer /\ Head(lane).who = p
  <2>1. lane # <<>> /\ p \in Peer
    BY <1>1 DEF RunInv
  <2>2. QED
    BY <1>1, <2>1, LaneFacts
<1>3. venv' \in VenvRec /\ (venv'.ok => venv'.st # "part") /\ peer \in [Peer -> PeerRec] /\ peer[p] \in PeerRec
  BY <1>1, <1>2 DEF DiskTypes, RunInv
<1> HIDE DEF p
<1> DEFINE r == [peer[p] EXCEPT !.done = TRUE]
<1>4. CASE peer' = peer
  BY <1>1, <1>3, <1>4, JobLeaves DEF DirsInv
<1>5. CASE peer' = [peer EXCEPT ![p] = r]
  <2>1. /\ r \in PeerRec /\ r.tree = peer[p].tree /\ r.tools = peer[p].tools /\ r.hop = peer[p].hop
        /\ r.hit = peer[p].hit /\ r.spoilt = peer[p].spoilt /\ r.pack = peer[p].pack
    BY <1>3 DEF PeerRec
  <2> HIDE DEF r
  <2>2. peer' \in [Peer -> PeerRec] /\ peer'[p] = r /\ \A q \in Peer : q # p => peer'[q] = peer[q]
    BY <1>2, <1>3, <1>5, <2>1
  <2>3. Safe(r, p \in Who(lane), LookAt(sweep, p), sweep.kept)
    BY <1>1, <1>2, <2>1 DEF DirsInv, Safe
  <2>4. \A q \in Peer : Safe(peer'[q], q \in Who(lane), LookAt(sweep, q), sweep.kept) /\ (peer'[q].pack => peer[q].pack)
    BY <1>1, <2>1, <2>2, <2>3 DEF DirsInv
  <2>5. QED
    BY <1>1, <1>3, <2>2, <2>4, JobLeaves
<1>6. QED
  BY <1>2, <1>3, <1>4, <1>5 DEF BuildEnds

\* A reset takes every directory, and marks what it takes from jobs and extracts.
LEMMA WipeKeeps == ASSUME DiskInv, Wipe PROVE DiskInv'
<1>1. /\ DiskTypes /\ RunInv /\ DirsInv /\ PeerResetInv /\ step = "wipe" /\ Busy /\ UNCHANGED <<sweep, venv>>
      /\ venv' \in VenvRec /\ (venv'.ok => venv'.st # "part")
  BY DEF DiskInv, Wipe, Busy, DiskTypes, RunInv
<1>2. lane # <<>> /\ lane[1].who = "reset"
  BY <1>1 DEF RunInv, DiskTypes
<1> DEFINE r(q) == [peer[q] EXCEPT !.tree = "none", !.tools = "none", !.hit = (peer[q].hit \/ peer[q].hop # "none"),
                                   !.spoilt = (peer[q].spoilt \/ q \in WithJob)]
<1>3. peer' = [q \in Peer |-> r(q)]
  BY DEF Wipe
<1>4. ASSUME NEW q \in Peer
      PROVE  /\ peer'[q] \in PeerRec /\ peer'[q].pack = peer[q].pack
             /\ Safe(peer'[q], q \in Who(lane), LookAt(sweep, q), sweep.kept)
  <2>1. peer'[q] = r(q) /\ peer[q] \in PeerRec
    BY <1>1, <1>3 DEF DiskTypes
  <2>2. /\ r(q) \in PeerRec /\ r(q).tree = "none" /\ r(q).tools = "none" /\ r(q).hop = peer[q].hop
        /\ r(q).hit = (peer[q].hit \/ peer[q].hop # "none") /\ r(q).pack = peer[q].pack
        /\ r(q).spoilt = (peer[q].spoilt \/ q \in WithJob)
    BY <2>1 DEF PeerRec
  <2> HIDE DEF r
  <2>3. q \in WithJob <=> q \in Who(lane)
    BY DEF WithJob, Who
  <2>4. Safe(r(q), q \in Who(lane), LookAt(sweep, q), sweep.kept)
    BY <2>2, <2>3 DEF Safe
  <2>5. QED
    BY <2>1, <2>2, <2>4
<1>5. peer' \in [Peer -> PeerRec]
  BY <1>3, <1>4
<1> HIDE DEF r
<1>6. CASE Over
  BY <1>1, <1>4, <1>5, <1>6, JobLeaves
<1>7. CASE step' = "venvs" /\ UNCHANGED <<lane, flagged>>
  <2>1. DiskTypes'
    BY <1>1, <1>5, <1>7 DEF DiskTypes
  <2>2. DirsInv'
    BY <1>1, <1>4, <1>7 DEF DirsInv
  <2>3. RunInv'
    BY <1>1, <1>2, <1>7 DEF RunInv, Busy
  <2>4. PeerResetInv'
    BY <1>1, <1>4, <1>7 DEF PeerResetInv
  <2>5. QED
    BY <2>1, <2>2, <2>3, <2>4 DEF DiskInv
<1>8. QED
  BY <1>6, <1>7 DEF Wipe

LEMMA WipeVenvsKeeps == ASSUME DiskInv, WipeVenvs PROVE DiskInv'
<1>1. /\ DiskTypes /\ DirsInv /\ Busy /\ Over /\ UNCHANGED <<sweep, peer>> /\ venv' = [venv EXCEPT !.st = "none", !.ok = FALSE]
  BY DEF DiskInv, WipeVenvs, Busy
<1>2. venv' \in VenvRec /\ ~venv'.ok
  BY <1>1 DEF DiskTypes, VenvRec
<1>3. QED
  BY <1>1, <1>2, JobLeaves DEF DiskTypes, DirsInv

LEMMA FrontFacts ==
    ASSUME DiskInv
    PROVE  /\ Front \in Seq(LaneJob) /\ (~Busy => Front = <<>>)
           /\ Busy => Len(Front) = 1 /\ Front[1] = lane[1] /\ Head(lane) = lane[1] /\ 1 \in DOMAIN lane /\ lane # <<>>
<1>1. DiskTypes /\ RunInv
  BY DEF DiskInv
<1>2. CASE Busy
  <2>1. lane # <<>> /\ 1 \in DOMAIN lane /\ Head(lane) = lane[1] /\ lane[1] \in LaneJob
    BY <1>1, <1>2, LaneFacts DEF RunInv
  <2>2. Front = <<lane[1]>>
    BY <1>2, <2>1 DEF Front
  <2>3. QED
    BY <1>2, <2>1, <2>2
<1>3. CASE ~Busy
  BY <1>3 DEF Front
<1>4. QED
  BY <1>2, <1>3

\* A reset that joins the lane: behind nothing, or behind the job that runs.
LEMMA ResetJoins ==
    ASSUME DiskInv, NEW j \in LaneJob, j.who = "reset", UNCHANGED <<peer, step, venv, sweep>>, flagged' \in BOOLEAN,
           flagged => flagged' \/ ~Busy, lane' = Append(Front, j),
           j.by # "user" => \A p \in Peer : ~peer[p].pack
    PROVE  DiskInv'
<1>1. DiskTypes /\ RunInv /\ DirsInv /\ PeerResetInv
  BY DEF DiskInv
<1>2. /\ Front \in Seq(LaneJob) /\ (~Busy => Front = <<>>)
      /\ Busy => Len(Front) = 1 /\ Front[1] = lane[1] /\ Head(lane) = lane[1] /\ 1 \in DOMAIN lane /\ lane # <<>>
  BY FrontFacts
<1>9. /\ lane' \in Seq(LaneJob) /\ Len(lane') = Len(Front) + 1 /\ DOMAIN lane' = 1..(Len(Front) + 1) /\ Len(Front) \in Nat
      /\ lane'[Len(Front) + 1] = j /\ \A k \in 1..Len(Front) : lane'[k] = Front[k]
  BY <1>2
<1>3. lane' \in Seq(LaneJob) /\ lane' # <<>> /\ (Busy => lane'[1] = lane[1]) /\ DiskTypes'
  <2>1. lane' \in Seq(LaneJob) /\ lane' # <<>> /\ (Busy => lane'[1] = lane[1])
    BY <1>2, <1>9
  <2>2. DiskTypes'
    BY <1>1, <2>1 DEF DiskTypes, Busy
  <2>3. QED
    BY <2>1, <2>2
<1>4. \A k \in DOMAIN lane' : lane'[k] = j \/ (\E l \in DOMAIN lane : lane'[k] = lane[l])
  <2>1. CASE Busy
    <3>4. Len(Front) = 1
      BY <1>2, <2>1
    <3>1. DOMAIN lane' = 1..2 /\ Len(Front) = 1
      <4>1. Len(Front) + 1 = 2
        BY <3>4
      <4>2. QED
        BY <1>9, <3>4, <4>1
    <3>3. \A k \in DOMAIN lane' : k = 1 \/ k = Len(Front) + 1
      BY <3>1
    <3>2. QED
      BY <1>2, <1>3, <1>9, <2>1, <3>3
  <2>2. CASE ~Busy
    <3>1. Len(Front) = 0
      BY <1>2, <2>2
    <3>2. QED
      BY <1>9, <3>1
  <2>3. QED
    BY <2>1, <2>2
<1>5. DirsInv'
  <2>1. SUFFICES ASSUME NEW q \in Peer PROVE Safe(peer[q], q \in Who(lane'), LookAt(sweep, q), sweep.kept)
    BY DEF DirsInv
  <2>2. q \in Who(lane') => q \in Who(lane)
    BY <1>4, DiskAssumption DEF Who
  <2>3. Safe(peer[q], q \in Who(lane), LookAt(sweep, q), sweep.kept)
    BY <1>1 DEF DirsInv
  <2>4. QED
    BY <2>2, <2>3, SafeLess
<1>6. RunInv'
  BY <1>1, <1>3 DEF RunInv, Busy
<1>7. PeerResetInv'
  BY <1>1, <1>4 DEF PeerResetInv
<1>8. QED
  BY <1>3, <1>5, <1>6, <1>7 DEF DiskInv

LEMMA ResetsKeep ==
    ASSUME DiskInv, UserReset \/ \E p \in Peer : PeerReset(p)
    PROVE  DiskInv'
<1>1. DiskTypes /\ RunInv
  BY DEF DiskInv
<1>2. ASSUME NEW p \in Peer, PeerReset(p) PROVE DiskInv'
  <2>1. lane = <<>> /\ (\A q \in Peer : ~peer[q].pack) /\ ~Busy
    BY <1>1, <1>2 DEF PeerReset, ResetBusy, RunInv
  <2>2. ResetBy(p) \in LaneJob /\ ResetBy(p).who = "reset"
    BY DEF ResetBy, LaneJob
  <2>3. lane' = Append(Front, ResetBy(p)) /\ UNCHANGED <<peer, step, venv, sweep>> /\ flagged' = flagged
    BY <1>2, <2>1 DEF PeerReset, Front
  <2>4. QED
    BY <1>1, <2>1, <2>2, <2>3, ResetJoins DEF DiskTypes
<1>3. CASE UserReset
  <2>1. ResetBy("user") \in LaneJob /\ ResetBy("user").who = "reset" /\ ResetBy("user").by = "user"
    BY DEF ResetBy, LaneJob
  <2>2. UNCHANGED <<peer, step, venv, sweep>> /\ flagged' = Busy /\ flagged' \in BOOLEAN
    BY <1>3 DEF UserReset, Busy
  <2>3. lane' = Append(Front, ResetBy("user"))
    BY <1>3 DEF UserReset
  <2>4. QED
    BY <2>1, <2>2, <2>3, ResetJoins
<1>4. QED
  BY <1>2, <1>3

\* The lane after a bundle of p was placed.
LEMMA PlacedLane ==
    ASSUME DiskInv, NEW p \in Peer, QueueExtract(p)
    PROVE  /\ lane' \in Seq(LaneJob) /\ lane' # <<>> /\ (Busy => lane'[1] = lane[1] /\ Head(lane) = lane[1])
           /\ \A k \in DOMAIN lane' : lane'[k] = BundleOf(p) \/ (\E l \in DOMAIN lane : lane'[k] = lane[l])
<1>1. DiskTypes /\ RunInv
  BY DEF DiskInv
<1>2. lane \in Seq(LaneJob) /\ BundleOf(p) \in LaneJob
  BY <1>1 DEF DiskTypes, BundleOf, LaneJob
<1>3. Busy => lane # <<>> /\ 1 \in DOMAIN lane /\ Head(lane) = lane[1] /\ lane[1] \in LaneJob
  BY <1>1, LaneFacts DEF RunInv
<1>4. Waiting \in Seq(LaneJob) /\ \A k \in DOMAIN Waiting : \E l \in DOMAIN lane : Waiting[k] = lane[l]
  <2>1. CASE Busy
    BY <1>1, <1>3, <2>1, LaneFacts DEF Waiting
  <2>2. CASE ~Busy
    BY <1>2, <2>2 DEF Waiting
  <2>3. QED
    BY <2>1, <2>2
<1> DEFINE I == {k \in DOMAIN Waiting : Waiting[k].who # p}
           w == Waiting
           s == Keep(w, I)
<1>5. I \in SUBSET DOMAIN w
  OBVIOUS
<1>6. lane' = Front \o Append(s, BundleOf(p))
  BY DEF QueueExtract
<1>7. w \in Seq(LaneJob) /\ \A k \in DOMAIN w : \E l \in DOMAIN lane : w[k] = lane[l]
  BY <1>4
<1> HIDE DEF I, w
<1>8. s \in Seq(LaneJob) /\ Thins(s, w, I)
  BY <1>5, <1>7, KeepIsInOrder
<1>9. \A k \in DOMAIN s : \E l \in DOMAIN lane : s[k] = lane[l]
  BY <1>5, <1>7, <1>8 DEF Thins
<1> HIDE DEF s
<1> DEFINE t == Append(s, BundleOf(p))
<1>10. /\ t \in Seq(LaneJob) /\ Len(t) \in Nat /\ Len(t) > 0 /\ DOMAIN t = 1..Len(t)
       /\ \A k \in DOMAIN t : t[k] = BundleOf(p) \/ (\E l \in DOMAIN lane : t[k] = lane[l])
  <2>1. /\ t \in Seq(LaneJob) /\ Len(t) = Len(s) + 1 /\ Len(s) \in Nat /\ DOMAIN t = 1..Len(t) /\ DOMAIN s = 1..Len(s)
        /\ t[Len(s) + 1] = BundleOf(p) /\ \A k \in 1..Len(s) : t[k] = s[k]
    BY <1>2, <1>8
  <2> HIDE DEF t
  <2>2. \A k \in DOMAIN t : k = Len(s) + 1 \/ k \in DOMAIN s
    BY <2>1
  <2>3. QED
    BY <1>9, <2>1, <2>2
<1>11. lane' = Front \o t
  BY <1>6
<1> HIDE DEF t
<1>12. CASE Busy
  <2>1. Front = <<lane[1]>> /\ lane[1] \in LaneJob /\ 1 \in DOMAIN lane
    BY <1>3, <1>12 DEF Front
  <2>2. /\ lane' \in Seq(LaneJob) /\ Len(lane') = 1 + Len(t) /\ DOMAIN lane' = 1..(1 + Len(t)) /\ lane'[1] = lane[1]
        /\ \A k \in 1..(1 + Len(t)) : k > 1 => lane'[k] = t[k - 1]
    BY <1>10, <1>11, <2>1
  <2>3. \A k \in DOMAIN lane' : k = 1 \/ (k > 1 /\ k - 1 \in DOMAIN t)
    BY <1>10, <2>2
  <2>4. \A k \in DOMAIN lane' : lane'[k] = BundleOf(p) \/ (\E l \in DOMAIN lane : lane'[k] = lane[l])
    BY <1>10, <2>1, <2>2, <2>3
  <2>5. QED
    BY <1>3, <1>10, <1>12, <2>2, <2>4
<1>13. CASE ~Busy
  <2>1. lane' = t
    BY <1>10, <1>11, <1>13 DEF Front
  <2>2. QED
    BY <1>10, <1>13, <2>1
<1>14. QED
  BY <1>12, <1>13

LEMMA QueueExtractKeeps == ASSUME DiskInv, NEW p \in Peer, QueueExtract(p) PROVE DiskInv'
<1>1. DiskTypes /\ RunInv /\ DirsInv /\ PeerResetInv
  BY DEF DiskInv
<1>2. /\ lane' \in Seq(LaneJob) /\ lane' # <<>> /\ (Busy => lane'[1] = lane[1] /\ Head(lane) = lane[1])
      /\ \A k \in DOMAIN lane' : lane'[k] = BundleOf(p) \/ (\E l \in DOMAIN lane : lane'[k] = lane[l])
  BY PlacedLane
<1>3. BundleOf(p).who = p /\ p # "reset"
  BY DiskAssumption DEF BundleOf
<1>4. /\ peer \in [Peer -> PeerRec] /\ peer[p] \in PeerRec
      /\ Safe(peer[p], p \in Who(lane), LookAt(sweep, p), sweep.kept)
  BY PeerFields
<1> DEFINE n == peer[p].pend - 1
           r == [peer[p] EXCEPT !.hop = "none", !.pend = n, !.spoilt = peer[p].hit, !.hit = FALSE]
<1>5. /\ peer' = [peer EXCEPT ![p] = r] /\ flagged' = (flagged \/ (Busy /\ Head(lane).who = p))
      /\ UNCHANGED <<step, venv, sweep>> /\ peer[p].hop = "made"
  BY <1>4 DEF QueueExtract
<1>6. /\ r \in PeerRec /\ r.tree = peer[p].tree /\ r.tools = peer[p].tools /\ r.hop = "none"
      /\ r.hit = FALSE /\ r.spoilt = peer[p].hit /\ r.pack = peer[p].pack
  <2>1. n \in Int
    BY <1>4 DEF PeerRec
  <2> HIDE DEF n
  <2>2. QED
    BY <1>4, <2>1 DEF PeerRec
<1> HIDE DEF r, n
<1>7. peer' \in [Peer -> PeerRec] /\ peer'[p] = r /\ \A q \in Peer : q # p => peer'[q] = peer[q]
  BY <1>4, <1>5, <1>6
<1>8. DiskTypes'
  <2>1. flagged' \in BOOLEAN
    BY <1>1, <1>5 DEF DiskTypes, Busy
  <2>2. (step = "wipe" => lane[1].who = "reset") /\ (step = "wipe" => Busy)
    BY <1>1 DEF DiskTypes, Busy
  <2>3. QED
    BY <1>1, <1>2, <1>5, <1>7, <2>1, <2>2 DEF DiskTypes
<1>9. DirsInv'
  <2>1. SUFFICES ASSUME NEW q \in Peer PROVE Safe(peer'[q], q \in Who(lane'), LookAt(sweep, q), sweep.kept)
    BY <1>5 DEF DirsInv
  <2>2. CASE q = p
    <3>1. Safe(r, TRUE, LookAt(sweep, p), sweep.kept)
      BY <1>4, <1>5, <1>6 DEF Safe
    <3>2. Safe(r, p \in Who(lane'), LookAt(sweep, p), sweep.kept)
      BY <3>1 DEF Safe
    <3>3. QED
      BY <1>7, <2>2, <3>2
  <2>3. CASE q # p
    <3>1. q \in Who(lane') => q \in Who(lane)
      BY <1>2, <1>3, <2>3 DEF Who
    <3>2. Safe(peer[q], q \in Who(lane), LookAt(sweep, q), sweep.kept)
      BY <1>1 DEF DirsInv
    <3>3. Safe(peer[q], q \in Who(lane'), LookAt(sweep, q), sweep.kept)
      BY <3>1, <3>2, SafeLess
    <3>4. QED
      BY <1>7, <2>3, <3>3
  <2>4. QED
    BY <2>2, <2>3
<1>10. RunInv'
  <2>1. step \in {"installed", "pinned"} /\ ~flagged' => peer'[lane[1].who].spoilt \/ peer'[lane[1].who].tools = "there"
    <3>1. SUFFICES ASSUME step \in {"installed", "pinned"}, ~flagged'
                   PROVE  peer'[lane[1].who].spoilt \/ peer'[lane[1].who].tools = "there"
      OBVIOUS
    <3>2. Busy
      BY <3>1 DEF Busy
    <3>3. ~flagged /\ lane[1].who # p
      BY <1>2, <1>5, <3>1, <3>2
    <3>4. lane[1].who \in Peer /\ (peer[lane[1].who].spoilt \/ peer[lane[1].who].tools = "there")
      BY <1>1, <3>1, <3>3 DEF RunInv
    <3>5. QED
      BY <1>7, <3>3, <3>4
  <2>2. step \in {"resolve", "provision", "pip", "installed", "pinned"} => Busy
    BY DEF Busy
  <2>3. QED
    BY <1>1, <1>2, <1>5, <2>1, <2>2 DEF RunInv, Busy
<1>11. PeerResetInv'
  <2>1. SUFFICES ASSUME NEW k \in DOMAIN lane', lane'[k].who = "reset", lane'[k].by # "user", NEW q \in Peer
                 PROVE  ~peer'[q].pack
    BY DEF PeerResetInv
  <2>2. PICK l \in DOMAIN lane : lane'[k] = lane[l]
    BY <1>2, <1>3, <2>1
  <2>3. ~peer[q].pack
    BY <1>1, <2>1, <2>2 DEF PeerResetInv
  <2>4. QED
    BY <1>6, <1>7, <2>3
<1>12. QED
  BY <1>8, <1>9, <1>10, <1>11 DEF DiskInv

LEMMA StartsKeep == ASSUME DiskInv, NoneRemoves, ReceiverStarts \/ Serves PROVE DiskInv'
<1>1. DiskTypes /\ RunInv /\ venv \in VenvRec
  BY DEF DiskInv, DiskTypes
<1>2. UNCHANGED <<peer, lane, step, flagged, sweep>>
  BY DEF ReceiverStarts, Serves, laneVars
<1>3. CASE ReceiverStarts
  <2>1. PICK old \in BOOLEAN : venv' = [venv EXCEPT !.rm = old /\ venv.st # "none"]
    BY <1>3 DEF ReceiverStarts
  <2>2. venv' \in VenvRec /\ venv'.st = venv.st /\ venv'.ok = venv.ok
    BY <1>1, <2>1 DEF VenvRec
  <2>3. ~venv.rm
    BY <1>3 DEF ReceiverStarts, NoneRemoves
  <2>4. QED
    BY <1>1, <1>2, <2>2, <2>3, WorkerMoves DEF RunInv
<1>4. CASE Serves
  <2>1. venv' \in VenvRec /\ venv'.rm = venv.rm /\ (venv' = venv \/ (venv.rm /\ ~venv'.ok))
    <3>1. CASE venv.rm
      BY <1>1, <1>4, <3>1 DEF Serves, VenvRec
    <3>2. CASE ~venv.rm
      <4>1. venv' = venv
        BY <1>4, <3>2 DEF Serves
      <4>2. QED
        BY <1>1, <4>1
    <3>3. QED
      BY <3>1, <3>2
  <2>2. QED
    BY <1>1, <1>2, <2>1, WorkerMoves DEF RunInv
<1>5. QED
  BY <1>3, <1>4

LEMMA Reloaded ==
    ASSUME NEW r \in PeerRec, NEW t \in {"none", "there"}
    PROVE  [r EXCEPT !.air = "none", !.pend = 0, !.hop = "none", !.pack = FALSE, !.tools = t] \in PeerRec
<1> DEFINE a == [r EXCEPT !.air = "none", !.pend = 0]
           b == [a EXCEPT !.hop = "none", !.pack = FALSE]
           c == [b EXCEPT !.tools = t]
<1>1. a \in PeerRec
  <2>1. ASSUME NEW n \in Int PROVE [r EXCEPT !.air = "none", !.pend = n] \in PeerRec
    BY DEF PeerRec
  <2>2. 0 \in Int
    OBVIOUS
  <2>3. QED
    BY <2>1, <2>2
<1>2. ASSUME NEW x \in PeerRec PROVE [x EXCEPT !.hop = "none", !.pack = FALSE] \in PeerRec
  BY DEF PeerRec
<1>3. ASSUME NEW x \in PeerRec PROVE [x EXCEPT !.tools = t] \in PeerRec
  BY DEF PeerRec
<1>4. b \in PeerRec
  BY <1>1, <1>2
<1>5. c \in PeerRec
  BY <1>3, <1>4
<1>6. QED
  BY <1>5 DEF PeerRec

LEMMA RestartKeeps == ASSUME DiskInv, Restart PROVE DiskInv'
<1>1. DiskTypes /\ RunInv /\ DirsInv
  BY DEF DiskInv
<1>2. step' = "idle" /\ flagged' = FALSE /\ sweep' = AtRest /\ lane' = lane
  BY DEF Restart
<1>3. venv' \in VenvRec /\ ~venv'.ok
  BY <1>1 DEF Restart, DiskTypes, VenvRec
<1> DEFINE t(q) == IF peer[q].tools = "going" THEN "there" ELSE peer[q].tools
           r(q) == [peer[q] EXCEPT !.air = "none", !.pend = 0, !.hop = "none", !.pack = FALSE, !.tools = t(q)]
<1>4. peer' = [q \in Peer |-> r(q)]
  BY DEF Restart
<1>5. AtRest \in SweepRec /\ AtRest.at = "off"
  BY DEF AtRest, SweepRec
<1>6. ASSUME NEW q \in Peer
      PROVE  /\ peer'[q] \in PeerRec /\ peer'[q].pack = FALSE
             /\ Safe(peer'[q], q \in Who(lane), LookAt(AtRest, q), AtRest.kept)
  <2>1. peer'[q] = r(q) /\ peer[q] \in PeerRec
    BY <1>1, <1>4 DEF DiskTypes
  <2>2. /\ r(q) \in PeerRec /\ r(q).tree = peer[q].tree /\ r(q).tools # "going" /\ r(q).hop = "none"
        /\ r(q).pack = FALSE /\ r(q).spoilt = peer[q].spoilt
    <3>1. t(q) \in {"none", "there"}
      BY <2>1 DEF PeerRec
    <3> HIDE DEF t
    <3>2. r(q) \in PeerRec
      BY <2>1, <3>1, Reloaded
    <3>3. r(q).tools = t(q)
      BY <2>1 DEF PeerRec
    <3>4. r(q).tree = peer[q].tree /\ r(q).hop = "none" /\ r(q).pack = FALSE /\ r(q).spoilt = peer[q].spoilt
      BY <2>1 DEF PeerRec
    <3> HIDE DEF r
    <3>5. QED
      BY <3>1, <3>2, <3>3, <3>4
  <2> HIDE DEF r, t
  <2>3. Safe(peer[q], q \in Who(lane), LookAt(sweep, q), sweep.kept) /\ LookAt(AtRest, q) = "off"
    BY <1>1, <1>5 DEF DirsInv, LookAt
  <2>4. Safe(r(q), q \in Who(lane), LookAt(AtRest, q), AtRest.kept)
    BY <2>2, <2>3 DEF Safe
  <2>5. QED
    BY <2>1, <2>2, <2>4
<1>7. peer' \in [Peer -> PeerRec]
  BY <1>4, <1>6
<1> HIDE DEF r, t
<1>8. DiskTypes'
  BY <1>1, <1>2, <1>3, <1>5, <1>7 DEF DiskTypes
<1>9. DirsInv' /\ RunInv' /\ PeerResetInv'
  BY <1>2, <1>3, <1>6 DEF DirsInv, RunInv, PeerResetInv, Busy
<1>10. QED
  BY <1>8, <1>9 DEF DiskInv

LEMMA DiskStarts == ASSUME DiskInit PROVE DiskInv /\ NoneRemoves
<1>1. peer \in [Peer -> PeerRec]
  BY DEF DiskInit, Blank, PeerRec
<1>2. venv \in VenvRec /\ sweep \in SweepRec /\ lane \in Seq(LaneJob) /\ ~venv.ok /\ ~venv.rm
  BY DEF DiskInit, VenvRec, SweepRec, AtRest
<1>3. DiskTypes
  BY <1>1, <1>2 DEF DiskInit, DiskTypes
<1>4. DirsInv
  <2>1. SUFFICES ASSUME NEW p \in Peer PROVE Safe(peer[p], p \in Who(lane), LookAt(sweep, p), sweep.kept)
    BY DEF DirsInv
  <2>2. peer[p] = Blank /\ LookAt(sweep, p) = "off" /\ p \notin Who(lane)
    BY DEF DiskInit, LookAt, AtRest, Who
  <2>3. QED
    BY <2>2 DEF Safe, Blank
<1>5. RunInv /\ PeerResetInv
  BY <1>2 DEF DiskInit, RunInv, PeerResetInv, Busy
<1>6. QED
  BY <1>2, <1>3, <1>4, <1>5 DEF DiskInv, NoneRemoves

LEMMA LifeKept == ASSUME DiskInv, NoneRemoves, DiskNext PROVE NoneRemoves'
<1>1. venv \in VenvRec
  BY DEF DiskInv, DiskTypes
<1>2. CASE UNCHANGED <<life, venv>>
  BY <1>2 DEF NoneRemoves
<1>3. CASE Provision \/ Installs \/ WipeVenvs
  <2>1. life' = life /\ (venv'.rm => venv.rm)
    <3>1. CASE Provision
      <4>1. CASE venv' = [venv EXCEPT !.ok = TRUE, !.rm = venv.rm /\ life = "stale"]
        BY <1>1, <3>1, <4>1 DEF Provision, VenvRec
      <4>2. CASE venv' = [st |-> "part", ok |-> FALSE, rm |-> venv.rm /\ life = "stale"]
        BY <3>1, <4>2 DEF Provision
      <4>3. QED
        BY <3>1, <4>1, <4>2 DEF Provision
    <3>2. CASE Installs
      BY <1>1, <3>2 DEF Installs, VenvRec
    <3>3. CASE WipeVenvs
      BY <1>1, <3>3 DEF WipeVenvs, VenvRec
    <3>4. QED
      BY <1>3, <3>1, <3>2, <3>3
  <2>2. QED
    BY <2>1 DEF NoneRemoves
<1>4. CASE ReceiverStarts \/ Serves
  BY <1>4 DEF NoneRemoves, ReceiverStarts, Serves
<1>5. CASE Restart
  BY <1>5 DEF NoneRemoves, Restart
<1>6. CASE Take \/ Resolve \/ BuildEnds \/ Wipe \/ UserReset
  BY <1>2, <1>6 DEF Take, Resolve, BuildEnds, Wipe, UserReset
<1>7. ASSUME NEW p \in Peer,
             \/ Header(p) \/ LastChunk(p) \/ Acked(p) \/ SessionEnds(p)
             \/ ExtractBegins(p) \/ ExtractEnds(p) \/ QueueExtract(p)
             \/ PeerReset(p) \/ Download(p) \/ PackEnds(p) \/ Age(p)
             \/ SweepBegins(p) \/ Look(p) \/ RemoveTree(p) \/ LookIdle(p) \/ RemoveTools(p)
      PROVE  UNCHANGED <<life, venv>>
  BY <1>7 DEF Header, LastChunk, Acked, SessionEnds, ExtractBegins, ExtractEnds, QueueExtract, PeerReset, Download,
              PackEnds, Age, SweepBegins, Look, RemoveTree, LookIdle, RemoveTools
<1>8. QED
  BY <1>2, <1>3, <1>4, <1>5, <1>6, <1>7 DEF DiskNext

LEMMA DiskKept == ASSUME DiskInv, NoneRemoves, [DiskNext]_diskVars PROVE DiskInv' /\ NoneRemoves'
<1>1. CASE DiskNext
  <2>1. DiskInv'
    <3>1. CASE \E p \in Peer : Header(p) \/ LastChunk(p) \/ Acked(p) \/ SessionEnds(p) \/ PackEnds(p)
      BY <3>1, BundleSteps
    <3>2. CASE \E p \in Peer : ExtractBegins(p) \/ ExtractEnds(p) \/ Age(p)
      BY <3>2, ExtractSteps
    <3>3. CASE \E p \in Peer : SweepBegins(p) \/ Look(p) \/ RemoveTree(p) \/ LookIdle(p) \/ RemoveTools(p)
      BY <3>3, SweepSteps
    <3>4. CASE \E p \in Peer : QueueExtract(p)
      BY <3>4, QueueExtractKeeps
    <3>5. CASE \E p \in Peer : Download(p)
      BY <3>5, DownloadKeeps
    <3>6. CASE UserReset \/ \E p \in Peer : PeerReset(p)
      BY <3>6, ResetsKeep
    <3>7. CASE Take \/ Resolve \/ Provision \/ Installs \/ BuildEnds
      BY <3>7, TakeKeeps, ResolveKeeps, ProvisionKeeps, InstallsKeeps, BuildEndsKeeps
    <3>8. CASE Wipe \/ WipeVenvs
      BY <3>8, WipeKeeps, WipeVenvsKeeps
    <3>9. CASE ReceiverStarts \/ Serves \/ Restart
      BY <3>9, StartsKeep, RestartKeeps
    <3>10. QED
      BY <1>1, <3>1, <3>2, <3>3, <3>4, <3>5, <3>6, <3>7, <3>8, <3>9 DEF DiskNext
  <2>2. QED
    BY <1>1, <2>1, LifeKept
<1>2. CASE UNCHANGED diskVars
  BY <1>2 DEF diskVars, DiskInv, DiskTypes, DirsInv, RunInv, PeerResetInv, NoneRemoves, Busy
<1>3. QED
  BY <1>1, <1>2

\* The cleanup, the sweep at start and the resets of remote_build keep off what is in use: a build that is not being
\* cancelled, and whose extract no reset removed before it began, has its extract, its offloader's data dir and its
\* venv, and a download packs while a reset wipes only if the operator asked for it, for any number of offloaders.
THEOREM RemoversKeepOffHolds == DiskSpec => []RemoversKeepOff
<1>1. DiskInit => DiskInv /\ NoneRemoves
  BY DiskStarts
<1>2. (DiskInv /\ NoneRemoves) /\ [DiskNext]_diskVars => (DiskInv /\ NoneRemoves)'
  BY DiskKept
<1>3. DiskInv => RemoversKeepOff
  <2>1. SUFFICES ASSUME DiskInv PROVE RemoversKeepOff
    OBVIOUS
  <2>2. DiskTypes /\ RunInv /\ DirsInv /\ PeerResetInv
    BY <2>1 DEF DiskInv
  <2>3. Busy => lane # <<>> /\ 1 \in DOMAIN lane /\ Head(lane) = lane[1] /\ lane[1].who \in Who(lane)
    BY <2>2, LaneFacts DEF RunInv, Who
  <2>4. ASSUME step \in {"installed", "pinned"}, ~flagged
        PROVE  LET p == peer[Head(lane).who] IN
                 \/ p.spoilt
                 \/ p.tree # "none" /\ p.tools = "there" /\ (step = "pinned" => venv.st = "whole" \/ venv.rm)
    <3>1. Busy
      BY <2>4 DEF Busy
    <3> DEFINE p == lane[1].who
    <3>2. Head(lane).who = p /\ p \in Who(lane) /\ p \in Peer /\ (peer[p].spoilt \/ peer[p].tools = "there")
          /\ (step = "pinned" => venv.st = "whole" \/ venv.rm)
      BY <2>2, <2>3, <2>4, <3>1 DEF RunInv
    <3>3. Safe(peer[p], p \in Who(lane), LookAt(sweep, p), sweep.kept)
      BY <2>2, <3>2 DEF DirsInv
    <3> HIDE DEF p
    <3>4. peer[p].spoilt \/ peer[p].tree # "none"
      BY <3>2, <3>3 DEF Safe
    <3>5. QED
      BY <3>2, <3>4
  <2>5. ASSUME step = "wipe" PROVE Head(lane).by = "user" \/ \A p \in Peer : ~peer[p].pack
    <3>1. Busy /\ lane[1].who = "reset"
      BY <2>2, <2>5 DEF Busy, DiskTypes
    <3>2. QED
      BY <2>2, <2>3, <3>1 DEF PeerResetInv
  <2>6. QED
    BY <2>4, <2>5 DEF RemoversKeepOff
<1>4. QED
  BY <1>1, <1>2, <1>3, PTL DEF DiskSpec

-----------------------------------------------------------------------------
(* The types, whatever the constants: an early answer, a crash within a     *)
(* debounce and a flash of the bootloader included.                         *)

\* A job map: jobs, and no two of one id.
Mapped(js) == js \in Seq(Job) /\ \A k, l \in DOMAIN js : js[k].id = js[l].id => k = l

DeferFlags ==
    /\ on \in BOOLEAN /\ state \in {"UNKNOWN", "ONLINE", "OFFLINE"}
    /\ armed \in BOOLEAN /\ stored \in BOOLEAN /\ built \in BOOLEAN /\ kept \in BOOLEAN /\ owed \in BOOLEAN
    /\ other \in {"queued", "out", "ended", "lost"}
DeferTypes == Mapped(jobs) /\ Mapped(disk) /\ calls \in SUBSET ACall /\ DeferFlags

LEMMA MappedRows ==
    ASSUME NEW js, Mapped(js)
    PROVE  \A k \in DOMAIN js : js[k] \in Job /\ js[k].id \in Slot
<1>1. js \in Seq(Job)
  BY DEF Mapped
<1>2. \A k \in DOMAIN js : js[k] \in Job
  BY <1>1
<1>3. QED
  BY <1>2, JobFields

\* What a cancel, a clear or an end leaves of a job map is one.
LEMMA KeepMaps ==
    ASSUME NEW js, Mapped(js), NEW I \in SUBSET DOMAIN js
    PROVE  /\ Mapped(Keep(js, I))
           /\ \A n \in DOMAIN Keep(js, I) : \E k \in I : Keep(js, I)[n] = js[k]
<1>1. js \in Seq(Job)
  BY DEF Mapped
<1> DEFINE q == Keep(js, I)
<1>2. q \in Seq(Job) /\ Thins(q, js, I)
  BY <1>1, KeepIsInOrder
<1> HIDE DEF q
<1>3. PICK f \in [DOMAIN q -> I] :
            /\ \A n \in DOMAIN q : q[n] = js[f[n]]
            /\ \A m, n \in DOMAIN q : m < n => f[m] < f[n]
            /\ \A k \in I : \E n \in DOMAIN q : f[n] = k
  BY <1>2 DEF Thins
<1>4. \A n \in DOMAIN q : f[n] \in I /\ n \in Nat
  <2>1. DOMAIN q = 1..Len(q)
    BY <1>2
  <2>2. DOMAIN q \in SUBSET Nat
    BY <2>1
  <2>3. QED
    BY <1>3, <2>2
<1>5. ASSUME NEW k \in DOMAIN q, NEW l \in DOMAIN q, q[k].id = q[l].id PROVE k = l
  <2>1. f[k] = f[l]
    BY <1>3, <1>4, <1>5 DEF Mapped
  <2>2. f[k] \in Nat /\ f[l] \in Nat
    BY <1>1, <1>4
  <2>3. ~(k < l) /\ ~(l < k)
    BY <1>3, <2>1, <2>2
  <2>4. QED
    BY <1>4, <2>3
<1>6. QED
  BY <1>2, <1>3, <1>4, <1>5 DEF q, Mapped

\* So is one whose jobs are changed where they stand.
LEMMA RelabelMaps ==
    ASSUME NEW js, Mapped(js), NEW q, q = [k \in DOMAIN js |-> q[k]],
           \A k \in DOMAIN js : q[k] \in Job /\ q[k].id = js[k].id
    PROVE  Mapped(q)
<1>1. js \in Seq(Job) /\ DOMAIN q = DOMAIN js
  BY DEF Mapped
<1>2. q \in Seq(Job)
  BY <1>1
<1>3. QED
  BY <1>1, <1>2 DEF Mapped

LEMMA JobEdits ==
    ASSUME NEW r \in Job
    PROVE  /\ [r EXCEPT !.stop = TRUE] \in Job /\ [r EXCEPT !.stop = TRUE].id = r.id
           /\ [r EXCEPT !.stale = TRUE] \in Job /\ [r EXCEPT !.stale = TRUE].id = r.id
           /\ [r EXCEPT !.st = "queued"] \in Job /\ [r EXCEPT !.st = "queued"].id = r.id
           /\ [r EXCEPT !.st = "running"] \in Job /\ [r EXCEPT !.st = "running"].id = r.id
BY DEF Job

LEMMA FreedEdit ==
    ASSUME NEW r \in Job
    PROVE  [r EXCEPT !.st = "queued", !.dep = NoJob] \in Job /\ [r EXCEPT !.st = "queued", !.dep = NoJob].id = r.id
BY DEF Job

LEMMA LoadedEdit ==
    ASSUME NEW r \in Job
    PROVE  LET q == [r EXCEPT !.st = IF r.dep = NoJob THEN "queued" ELSE "held", !.stop = FALSE, !.stale = FALSE]
           IN  q \in Job /\ q.id = r.id
BY DEF Job

LEMMA CancelMaps ==
    ASSUME NEW js, Mapped(js), NEW i
    PROVE  Mapped(Cancel(js, i))
<1>1. CASE \E k \in DOMAIN js : js[k].id = i /\ js[k].st = "running"
  <2>1. Cancel(js, i) = [k \in DOMAIN js |-> IF js[k].id \in {i} THEN [js[k] EXCEPT !.stop = TRUE] ELSE js[k]]
    BY <1>1 DEF Cancel, Mark
  <2> DEFINE q == Cancel(js, i)
  <2>2. \A k \in DOMAIN js : q[k] \in Job /\ q[k].id = js[k].id
    BY <2>1, MappedRows, JobEdits
  <2>3. q = [k \in DOMAIN js |-> q[k]]
    BY <2>1
  <2> HIDE DEF q
  <2>4. Mapped(q)
    BY <2>2, <2>3, RelabelMaps
  <2>5. QED
    BY <2>4 DEF q
<1>2. CASE ~\E k \in DOMAIN js : js[k].id = i /\ js[k].st = "running"
  <2> DEFINE I == {k \in DOMAIN js : i \notin {js[k].id, js[k].dep}}
  <2>1. Cancel(js, i) = Keep(js, I) /\ I \in SUBSET DOMAIN js
    BY <1>2 DEF Cancel
  <2> HIDE DEF I
  <2>2. QED
    BY <2>1, KeepMaps
<1>3. QED
  BY <1>1, <1>2

\* A relabelling of some jobs, each for a job of the same id.
LEMMA MarkQueued ==
    ASSUME NEW js, Mapped(js), NEW I,
           NEW q, q = [k \in DOMAIN js |-> IF js[k].id \in I THEN [js[k] EXCEPT !.st = "queued"] ELSE js[k]]
    PROVE  Mapped(q)
<1>1. \A k \in DOMAIN js : q[k] \in Job /\ q[k].id = js[k].id
  BY MappedRows, JobEdits
<1>2. q = [k \in DOMAIN js |-> q[k]]
  OBVIOUS
<1>3. QED
  BY <1>1, <1>2, RelabelMaps

LEMMA MarkRunning ==
    ASSUME NEW js, Mapped(js), NEW I,
           NEW q, q = [k \in DOMAIN js |-> IF js[k].id \in I THEN [js[k] EXCEPT !.st = "running"] ELSE js[k]]
    PROVE  Mapped(q)
<1>1. \A k \in DOMAIN js : q[k] \in Job /\ q[k].id = js[k].id
  BY MappedRows, JobEdits
<1>2. q = [k \in DOMAIN js |-> q[k]]
  OBVIOUS
<1>3. QED
  BY <1>1, <1>2, RelabelMaps

LEMMA MarkStale ==
    ASSUME NEW js, Mapped(js), NEW I,
           NEW q, q = [k \in DOMAIN js |-> IF js[k].id \in I THEN [js[k] EXCEPT !.stale = TRUE] ELSE js[k]]
    PROVE  Mapped(q)
<1>1. \A k \in DOMAIN js : q[k] \in Job /\ q[k].id = js[k].id
  BY MappedRows, JobEdits
<1>2. q = [k \in DOMAIN js |-> q[k]]
  OBVIOUS
<1>3. QED
  BY <1>1, <1>2, RelabelMaps

LEMMA MarkFreed ==
    ASSUME NEW js, Mapped(js), NEW I,
           NEW q, q = [k \in DOMAIN js |-> IF js[k].id \in I THEN [js[k] EXCEPT !.st = "queued", !.dep = NoJob]
                                           ELSE js[k]]
    PROVE  Mapped(q)
<1>1. \A k \in DOMAIN js : q[k] \in Job /\ q[k].id = js[k].id
  BY MappedRows, FreedEdit
<1>2. q = [k \in DOMAIN js |-> q[k]]
  OBVIOUS
<1>3. QED
  BY <1>1, <1>2, RelabelMaps

LEMMA ResumeMaps ==
    ASSUME NEW js, Mapped(js), NEW c \in ACall, NEW m, m = Resume(js, c)
    PROVE  Mapped(m.jobs) /\ m.calls \in SUBSET ACall
<1>1. CASE c.left = <<>>
  <2> DEFINE q == [k \in DOMAIN js |-> IF js[k].id \in {c.id} THEN [js[k] EXCEPT !.st = "queued"] ELSE js[k]]
  <2>1. m.jobs = q /\ m.calls = {}
    BY <1>1 DEF Resume, Mark
  <2>2. Mapped(q)
    BY MarkQueued
  <2>3. QED
    BY <2>1, <2>2
<1>2. CASE c.left # <<>>
  <2>1. /\ m.jobs = Cancel(js, Head(c.left))
        /\ m.calls = IF Len(c.left) = 1 /\ c.then = "end" THEN {} ELSE {[c EXCEPT !.left = Tail(@)]}
    BY <1>2 DEF Resume
  <2>2. c.left \in Seq(Slot)
    BY DEF ACall
  <2>3. [c EXCEPT !.left = Tail(@)] \in ACall
    BY <1>2, <2>2 DEF ACall
  <2>4. QED
    BY <2>1, <2>3, CancelMaps
<1>3. QED
  BY <1>1, <1>2

LEMMA OthersSeq ==
    ASSUME NEW js, Mapped(js), NEW mine
    PROVE  Others(js, mine) \in Seq(Slot)
<1> DEFINE I == {k \in DOMAIN js : js[k].id \notin mine /\ js[k].type # "reset"}
           them == Keep(js, I)
<1>1. Others(js, mine) = [k \in DOMAIN them |-> them[k].id]
  BY DEF Others
<1>2. I \in SUBSET DOMAIN js
  OBVIOUS
<1> HIDE DEF I
<1>3. Mapped(them)
  BY <1>2, KeepMaps
<1> HIDE DEF them
<1>4. them \in Seq(Job) /\ \A k \in DOMAIN them : them[k].id \in Slot
  BY <1>3, MappedRows DEF Mapped
<1>5. QED
  BY <1>1, <1>4

LEMMA JoinMaps ==
    ASSUME NEW js, Mapped(js), NEW new, Mapped(new),
           \A k \in DOMAIN js, l \in DOMAIN new : js[k].id # new[l].id
    PROVE  Mapped(js \o new)
<1>1. js \in Seq(Job) /\ new \in Seq(Job)
  BY DEF Mapped
<1> DEFINE both == js \o new
<1>2. both \in Seq(Job) /\ Len(both) = Len(js) + Len(new)
  BY <1>1
<1>3. /\ DOMAIN js = 1..Len(js) /\ DOMAIN new = 1..Len(new) /\ Len(js) \in Nat /\ Len(new) \in Nat
      /\ DOMAIN both = 1..(Len(js) + Len(new))
  BY <1>1, <1>2
<1>4. \A k \in DOMAIN js : both[k] = js[k]
  BY <1>1, <1>3
<1>5. \A k \in DOMAIN both : k \in DOMAIN js \/ (k > Len(js) /\ k - Len(js) \in DOMAIN new /\ both[k] = new[k - Len(js)])
  BY <1>1, <1>3
<1> HIDE DEF both
<1>7. ASSUME NEW k \in DOMAIN both, NEW l \in DOMAIN both, both[k].id = both[l].id PROVE k = l
  <2>1. CASE k \in DOMAIN js /\ l \in DOMAIN js
    BY <1>4, <1>7, <2>1 DEF Mapped
  <2>2. CASE k \notin DOMAIN js /\ l \notin DOMAIN js
    <3>1. k - Len(js) = l - Len(js)
      BY <1>5, <1>7, <2>2 DEF Mapped
    <3>2. QED
      BY <1>3, <3>1
  <2>3. CASE k \in DOMAIN js /\ l \notin DOMAIN js
    BY <1>4, <1>5, <1>7, <2>3
  <2>4. CASE k \notin DOMAIN js /\ l \in DOMAIN js
    BY <1>4, <1>5, <1>7, <2>4
  <2>5. QED
    BY <2>1, <2>2, <2>3, <2>4
<1>8. QED
  BY <1>2, <1>7 DEF Mapped, both

LEMMA ChainMaps ==
    ASSUME NEW js, Mapped(js), NEW new, Mapped(new),
           \A k \in DOMAIN js, l \in DOMAIN new : js[k].id # new[l].id,
           NEW m, m = CommitChain(js, new)
    PROVE  Mapped(m.jobs) /\ m.calls \in SUBSET ACall
<1> DEFINE left == Others(js, Ids(new))
           c == Call(NoJob, left, "end")
           both == js \o new
<1>1. m = IF left = <<>> THEN [jobs |-> both, calls |-> {}] ELSE Resume(both, c)
  BY DEF CommitChain
<1>2. left \in Seq(Slot)
  BY OthersSeq
<1> HIDE DEF left
<1>3. c \in ACall
  BY <1>2 DEF ACall, Call
<1>4. Mapped(both)
  BY JoinMaps
<1> HIDE DEF both, c
<1>5. CASE left = <<>>
  BY <1>1, <1>4, <1>5
<1>6. CASE left # <<>>
  BY <1>1, <1>3, <1>4, <1>6, ResumeMaps
<1>7. QED
  BY <1>5, <1>6

LEMMA OneMaps ==
    ASSUME NEW r \in Job
    PROVE  Mapped(<<r>>) /\ \A l \in DOMAIN <<r>> : <<r>>[l] = r
<1>1. <<r>> \in Seq(Job) /\ DOMAIN <<r>> = {1} /\ <<r>>[1] = r
  OBVIOUS
<1>2. QED
  BY <1>1 DEF Mapped

LEMMA TwoMap ==
    ASSUME NEW r \in Job, NEW q \in Job, r.id # q.id
    PROVE  Mapped(<<r, q>>) /\ \A l \in DOMAIN <<r, q>> : <<r, q>>[l] \in {r, q}
<1>1. <<r, q>> \in Seq(Job) /\ DOMAIN <<r, q>> = {1, 2} /\ <<r, q>>[1] = r /\ <<r, q>>[2] = q
  OBVIOUS
<1>2. QED
  BY <1>1 DEF Mapped

LEMMA NewTypes ==
    ASSUME NEW i \in Slot, NEW t \in {"compile", "app", "boot", "clean", "reset"}
    PROVE  /\ New(i, t) \in Job /\ New(i, t).id = i
           /\ [New(i, t) EXCEPT !.deferred = TRUE] \in Job /\ [New(i, t) EXCEPT !.deferred = TRUE].id = i
           /\ [New(i, t) EXCEPT !.st = "held"] \in Job /\ [New(i, t) EXCEPT !.st = "held"].id = i
BY DEF New, Job

LEMMA HeldTypes ==
    ASSUME NEW i \in Slot, NEW j \in Slot, NEW t \in {"app", "boot"}
    PROVE  /\ [New(i, t) EXCEPT !.st = "held", !.dep = j] \in Job
           /\ [New(i, t) EXCEPT !.st = "held", !.dep = j].id = i
BY DEF New, Job

\* A call that places its jobs under fresh ids.
LEMMA CommitMaps ==
    ASSUME DeferTypes, NEW new, Mapped(new), \A l \in DOMAIN new : new[l].id \in Unused, Commits(new)
    PROVE  Mapped(jobs') /\ calls' \in SUBSET ACall
<1>1. PICK m : m = CommitChain(jobs, new)
  OBVIOUS
<1>2. jobs' = m.jobs /\ calls' = calls \cup m.calls
  BY <1>1 DEF Commits
<1>3. \A k \in DOMAIN jobs, l \in DOMAIN new : jobs[k].id # new[l].id
  BY FreshId
<1>4. Mapped(m.jobs) /\ m.calls \in SUBSET ACall
  BY <1>1, <1>3, ChainMaps DEF DeferTypes
<1>5. QED
  BY <1>2, <1>4 DEF DeferTypes

LEMMA CommitOneMaps ==
    ASSUME DeferTypes, NEW r \in Job, r.id \in Unused, Commits(<<r>>)
    PROVE  Mapped(jobs') /\ calls' \in SUBSET ACall
<1>1. PICK new : new = <<r>>
  OBVIOUS
<1>2. Mapped(new) /\ \A l \in DOMAIN new : new[l].id \in Unused
  BY <1>1, OneMaps
<1>3. QED
  BY <1>1, <1>2, CommitMaps

LEMMA CommitTwoMaps ==
    ASSUME DeferTypes, NEW r \in Job, NEW q \in Job, r.id # q.id, r.id \in Unused, q.id \in Unused,
           Commits(<<r, q>>)
    PROVE  Mapped(jobs') /\ calls' \in SUBSET ACall
<1>1. PICK new : new = <<r, q>>
  OBVIOUS
<1>2. Mapped(new) /\ \A l \in DOMAIN new : new[l].id \in Unused
  BY <1>1, TwoMap
<1>3. QED
  BY <1>1, <1>2, CommitMaps

LEMMA DeviceTurnsTypes ==
    ASSUME DeferTypes, NEW d \in {"ONLINE", "OFFLINE"}, DeviceTurns(d) PROVE DeferTypes'
<1>1. DeferFlags' /\ Mapped(disk')
  BY DEF DeviceTurns, DeferTypes, DeferFlags
<1>2. CASE d = "ONLINE" /\ MayWake
  <2>1. PICK i \in Unused : Commits(<<New(i, "app")>>)
    BY <1>2 DEF DeviceTurns
  <2>2. New(i, "app") \in Job /\ New(i, "app").id = i
    BY FreshId, NewTypes
  <2>3. Mapped(jobs') /\ calls' \in SUBSET ACall
    BY <2>1, <2>2, CommitOneMaps
  <2>4. QED
    BY <1>1, <2>3 DEF DeferTypes
<1>3. CASE ~(d = "ONLINE" /\ MayWake)
  BY <1>1, <1>3 DEF DeviceTurns, DeferTypes
<1>4. QED
  BY <1>2, <1>3

LEMMA AsksTypes ==
    ASSUME DeferTypes, Compile \/ InstallDefers \/ InstallChain \/ Upload \/ Clean \/ UserCancel \/ ClearQueuedUpdate
    PROVE  DeferFlags' /\ Mapped(disk')
<1>1. Asks /\ (UNCHANGED <<armed, owed>> \/ Disarms)
  BY DEF Compile, InstallDefers, InstallChain, Upload, Clean, UserCancel, ClearQueuedUpdate
<1>2. QED
  BY <1>1 DEF Asks, Disarms, DeferTypes, DeferFlags

LEMMA CompileTypes == ASSUME DeferTypes, Compile PROVE DeferTypes'
<1>1. PICK i \in Unused : Commits(<<New(i, "compile")>>)
  BY DEF Compile
<1>2. New(i, "compile") \in Job /\ New(i, "compile").id = i
  BY FreshId, NewTypes
<1>3. QED
  BY <1>1, <1>2, AsksTypes, CommitOneMaps DEF DeferTypes

LEMMA InstallDefersTypes == ASSUME DeferTypes, InstallDefers PROVE DeferTypes'
<1>1. PICK i \in Unused : Commits(<<[New(i, "compile") EXCEPT !.deferred = TRUE]>>)
  BY DEF InstallDefers
<1> DEFINE r == [New(i, "compile") EXCEPT !.deferred = TRUE]
<1>2. r \in Job /\ r.id = i /\ Commits(<<r>>)
  BY <1>1, FreshId, NewTypes
<1> HIDE DEF r
<1>3. QED
  BY <1>2, AsksTypes, CommitOneMaps DEF DeferTypes

LEMMA InstallChainTypes == ASSUME DeferTypes, InstallChain PROVE DeferTypes'
<1>1. PICK i \in Unused, j \in Unused, f \in Image :
         i # j /\ Commits(<<[New(j, f) EXCEPT !.st = "held", !.dep = i], New(i, "compile")>>)
  BY DEF InstallChain
<1> DEFINE r == [New(j, f) EXCEPT !.st = "held", !.dep = i]
           q == New(i, "compile")
<1>2. i \in Slot /\ j \in Slot /\ f \in {"app", "boot"}
  BY FreshId, DeferAssumption
<1>3. r \in Job /\ r.id = j
  BY <1>2 DEF New, Job
<1>4. q \in Job /\ q.id = i
  BY <1>2, NewTypes
<1>5. Commits(<<r, q>>) /\ i # j
  BY <1>1
<1> HIDE DEF r, q
<1>6. QED
  BY <1>3, <1>4, <1>5, AsksTypes, CommitTwoMaps DEF DeferTypes

LEMMA UploadTypes == ASSUME DeferTypes, Upload PROVE DeferTypes'
<1>1. PICK i \in Unused, f \in Image : Commits(<<New(i, f)>>)
  BY DEF Upload
<1>2. New(i, f) \in Job /\ New(i, f).id = i
  <2>1. f \in {"compile", "app", "boot", "clean", "reset"}
    BY DeferAssumption
  <2>2. QED
    BY <2>1, FreshId, NewTypes
<1>3. QED
  BY <1>1, <1>2, AsksTypes, CommitOneMaps DEF DeferTypes

LEMMA CleanTypes == ASSUME DeferTypes, Clean PROVE DeferTypes'
<1>1. Call(NoJob, <<>>, "clean") \in ACall
  BY DEF Call, ACall
<1>2. jobs' = jobs /\ calls' = calls \cup {Call(NoJob, <<>>, "clean")}
  BY DEF Clean
<1>3. QED
  BY <1>1, <1>2, AsksTypes DEF DeferTypes

LEMMA CommitCleanTypes == ASSUME DeferTypes, CommitClean PROVE DeferTypes'
<1>1. PICK c \in calls, i \in Unused :
         /\ jobs' = CommitChain(jobs, <<New(i, "clean")>>).jobs
         /\ calls' = (calls \ {c}) \cup CommitChain(jobs, <<New(i, "clean")>>).calls
  BY DEF CommitClean
<1>2. DeferFlags' /\ Mapped(disk')
  BY DEF CommitClean, DeferTypes, DeferFlags
<1>3. New(i, "clean") \in Job /\ New(i, "clean").id = i
  BY FreshId, NewTypes
<1>4. PICK new : new = <<New(i, "clean")>>
  OBVIOUS
<1>5. Mapped(new) /\ \A k \in DOMAIN jobs, l \in DOMAIN new : jobs[k].id # new[l].id
  BY <1>3, <1>4, OneMaps, FreshId
<1>6. PICK m : m = CommitChain(jobs, new)
  OBVIOUS
<1>7. Mapped(m.jobs) /\ m.calls \in SUBSET ACall
  BY <1>5, <1>6, ChainMaps DEF DeferTypes
<1>8. QED
  BY <1>1, <1>2, <1>4, <1>6, <1>7 DEF DeferTypes

LEMMA ResetBuildEnvTypes == ASSUME DeferTypes, ResetBuildEnv PROVE DeferTypes'
<1> DEFINE all == [k \in DOMAIN jobs |-> jobs[k].id]
<1>1. PICK i \in Unused :
         LET m == Resume(Append(jobs, [New(i, "reset") EXCEPT !.st = "held"]), Call(i, all, "place"))
         IN  jobs' = m.jobs /\ calls' = calls \cup m.calls
  BY DEF ResetBuildEnv
<1>2. DeferFlags' /\ Mapped(disk')
  BY DEF ResetBuildEnv, Disarms, DeferTypes, DeferFlags
<1> DEFINE r == [New(i, "reset") EXCEPT !.st = "held"]
           c == Call(i, all, "place")
           js == jobs \o <<r>>
<1>3. r \in Job /\ r.id = i /\ i \in Slot
  BY FreshId, NewTypes
<1>4. Mapped(jobs) /\ jobs \in Seq(Job)
  BY DEF DeferTypes, Mapped
<1>5. all \in Seq(Slot)
  BY <1>4, MappedRows
<1>6. c \in ACall
  <2> HIDE DEF all
  <2>1. QED
    BY <1>3, <1>5 DEF Call, ACall
<1>7. jobs' = Resume(js, c).jobs /\ calls' = calls \cup Resume(js, c).calls
  <2>1. Append(jobs, r) = js
    BY <1>3, <1>4
  <2>2. QED
    BY <1>1, <2>1
<1> HIDE DEF r, c
<1>8. Mapped(js)
  <2>1. PICK new : new = <<r>>
    OBVIOUS
  <2>2. Mapped(new) /\ \A k \in DOMAIN jobs, l \in DOMAIN new : jobs[k].id # new[l].id
    BY <1>3, <2>1, OneMaps, FreshId
  <2>3. QED
    BY <1>4, <2>1, <2>2, JoinMaps
<1> HIDE DEF js
<1>9. PICK m : m = Resume(js, c)
  OBVIOUS
<1>10. Mapped(m.jobs) /\ m.calls \in SUBSET ACall
  BY <1>6, <1>8, <1>9, ResumeMaps
<1>11. QED
  BY <1>2, <1>7, <1>9, <1>10 DEF DeferTypes

LEMMA UserCancelTypes == ASSUME DeferTypes, UserCancel PROVE DeferTypes'
<1>1. PICK r \in Active : jobs' = Cancel(jobs, r.id)
  BY DEF UserCancel
<1>2. calls' = calls
  BY DEF UserCancel
<1>3. Mapped(Cancel(jobs, r.id))
  BY CancelMaps DEF DeferTypes
<1>4. QED
  BY <1>1, <1>2, <1>3, AsksTypes DEF DeferTypes

LEMMA ClearQueuedUpdateTypes == ASSUME DeferTypes, ClearQueuedUpdate PROVE DeferTypes'
<1>1. jobs' = jobs /\ calls' = calls
  BY DEF ClearQueuedUpdate
<1>2. QED
  BY <1>1, AsksTypes DEF DeferTypes

LEMMA CallStepTypes == ASSUME DeferTypes, CallStep PROVE DeferTypes'
<1>1. PICK c \in calls : /\ jobs' = Resume(jobs, c).jobs
                         /\ calls' = (calls \ {c}) \cup Resume(jobs, c).calls
  BY DEF CallStep
<1>2. DeferFlags' /\ Mapped(disk')
  BY DEF CallStep, DeferTypes, DeferFlags
<1>3. PICK m : m = Resume(jobs, c)
  OBVIOUS
<1>4. Mapped(m.jobs) /\ m.calls \in SUBSET ACall
  BY <1>3, ResumeMaps DEF DeferTypes
<1>5. QED
  BY <1>1, <1>2, <1>3, <1>4 DEF DeferTypes

LEMMA StartTypes == ASSUME DeferTypes, NEW i \in Slot, Start(i) PROVE DeferTypes'
<1>1. jobs' = Mark(jobs, {i}, LAMBDA o : [o EXCEPT !.st = "running"])
  BY DEF Start
<1>2. calls' = calls /\ DeferFlags' /\ Mapped(disk')
  BY DEF Start, DeferTypes, DeferFlags
<1>3. PICK q : q = [k \in DOMAIN jobs |-> IF jobs[k].id \in {i} THEN [jobs[k] EXCEPT !.st = "running"] ELSE jobs[k]]
  OBVIOUS
<1>4. jobs' = q
  BY <1>1, <1>3 DEF Mark
<1>5. Mapped(q)
  BY <1>3, MarkRunning DEF DeferTypes
<1>6. QED
  BY <1>2, <1>4, <1>5 DEF DeferTypes

\* What an ended job leaves.
LEMMA LeftMaps ==
    ASSUME DeferTypes, NEW i
    PROVE  /\ Mapped(Without(jobs, i))
           /\ Mapped(Keep(jobs, {k \in DOMAIN jobs : i \notin {jobs[k].id, jobs[k].dep}}))
           /\ \A n \in DOMAIN Without(jobs, i) : \E k \in DOMAIN jobs : Without(jobs, i)[n] = jobs[k]
<1> DEFINE I == {k \in DOMAIN jobs : jobs[k].id # i}
           J == {k \in DOMAIN jobs : i \notin {jobs[k].id, jobs[k].dep}}
<1>1. I \in SUBSET DOMAIN jobs /\ J \in SUBSET DOMAIN jobs /\ Without(jobs, i) = Keep(jobs, I)
  BY DEF Without
<1> HIDE DEF I
<1>2. Mapped(Keep(jobs, I)) /\ \A n \in DOMAIN Keep(jobs, I) : \E k \in I : Keep(jobs, I)[n] = jobs[k]
  BY <1>1, KeepMaps DEF DeferTypes
<1>3. Mapped(Keep(jobs, J))
  <2> HIDE DEF J
  <2>1. QED
    BY <1>1, KeepMaps DEF DeferTypes
<1>4. QED
  BY <1>1, <1>2, <1>3

LEMMA RunningFields ==
    ASSUME DeferTypes, NEW i, NEW types, NEW r \in Running(i, types)
    PROVE  r \in Job /\ r.deferred \in BOOLEAN /\ r.stop \in BOOLEAN /\ r.stale \in BOOLEAN
<1>1. r \in Active
  BY DEF Running
<1>2. r \in Job
  BY <1>1, MappedRows DEF Active, DeferTypes
<1>3. QED
  BY <1>2, JobFields

LEMMA CompileFailsTypes == ASSUME DeferTypes, NEW i \in Slot, CompileFails(i) PROVE DeferTypes'
<1>1. jobs' = Keep(jobs, {k \in DOMAIN jobs : i \notin {jobs[k].id, jobs[k].dep}})
  BY DEF CompileFails
<1>2. calls' = calls /\ DeferFlags' /\ Mapped(disk')
  BY DEF CompileFails, DeferTypes, DeferFlags
<1>3. QED
  BY <1>1, <1>2, LeftMaps DEF DeferTypes

LEMMA FlashLandsTypes == ASSUME DeferTypes, NEW i \in Slot, FlashLands(i) PROVE DeferTypes'
<1>1. PICK r \in Running(i, {"app", "boot"}) :
         /\ armed' = FALSE /\ owed' = (owed /\ (r.stale \/ r.type = "boot"))
         /\ jobs' = Without(jobs, i)
         /\ UNCHANGED <<on, state, stored, disk, calls, built, other, kept>>
  BY DEF FlashLands
<1>2. DeferFlags' /\ Mapped(disk')
  BY <1>1 DEF DeferTypes, DeferFlags
<1>3. QED
  BY <1>1, <1>2, LeftMaps DEF DeferTypes

LEMMA FlashFailsTypes == ASSUME DeferTypes, NEW i \in Slot, FlashFails(i) PROVE DeferTypes'
<1>1. PICK r \in Running(i, {"app", "boot"}) :
         /\ LET arms == ~r.stop /\ r.type = "app" /\ state = "OFFLINE"
            IN  armed' = (armed \/ arms) /\ owed' = (owed \/ arms)
         /\ jobs' = Without(jobs, i)
         /\ UNCHANGED <<on, state, stored, disk, calls, built, other, kept>>
  BY DEF FlashFails
<1>2. DeferFlags' /\ Mapped(disk')
  BY <1>1 DEF DeferTypes, DeferFlags
<1>3. QED
  BY <1>1, <1>2, LeftMaps DEF DeferTypes

LEMMA WipeEndsTypes == ASSUME DeferTypes, NEW i \in Slot, WipeEnds(i) PROVE DeferTypes'
<1>1. \E gone \in BOOLEAN : built' = (built /\ ~gone)
  BY DEF WipeEnds
<1>2. jobs' = Without(jobs, i) /\ UNCHANGED <<on, state, armed, stored, disk, calls, other, kept, owed>>
  BY DEF WipeEnds
<1>3. DeferFlags' /\ Mapped(disk')
  BY <1>1, <1>2 DEF DeferTypes, DeferFlags
<1>4. QED
  BY <1>2, <1>3, LeftMaps DEF DeferTypes

LEMMA CompileLandsTypes == ASSUME DeferTypes, NEW i \in Slot, CompileLands(i) PROVE DeferTypes'
<1>1. PICK r \in Running(i, {"compile"}) :
        LET flashed  == Mark(Without(jobs, i), {o.id : o \in {q \in Active : IsFlash(q) /\ q.st = "running"}},
                             LAMBDA o : [o EXCEPT !.stale = TRUE])
            deferred == r.deferred \/ Converts(r)
            freed    == IF deferred THEN Keep(flashed, {k \in DOMAIN flashed : flashed[k].dep # i})
                        ELSE Mark(flashed, {o.id : o \in {q \in Active : q.dep = i}},
                                  LAMBDA o : [o EXCEPT !.st = "queued", !.dep = NoJob])
        IN  /\ built' = TRUE
            /\ armed' = (armed \/ deferred) /\ owed' = (owed \/ deferred)
            /\ IF deferred /\ state = "ONLINE"
               THEN \E j \in Unused : LET m == CommitChain(freed, <<New(j, "app")>>)
                                      IN  jobs' = m.jobs /\ calls' = calls \cup m.calls
               ELSE jobs' = freed /\ UNCHANGED calls
            /\ UNCHANGED <<on, state, stored, disk, other, kept>>
  BY DEF CompileLands
<1> DEFINE left == Without(jobs, i)
           flashing == {o.id : o \in {q \in Active : IsFlash(q) /\ q.st = "running"}}
           flashed == [k \in DOMAIN left |->
                         IF left[k].id \in flashing THEN [left[k] EXCEPT !.stale = TRUE] ELSE left[k]]
           deferred == r.deferred \/ Converts(r)
           waiting == {o.id : o \in {q \in Active : q.dep = i}}
           loose == [k \in DOMAIN flashed |->
                        IF flashed[k].id \in waiting THEN [flashed[k] EXCEPT !.st = "queued", !.dep = NoJob]
                        ELSE flashed[k]]
           I == {k \in DOMAIN flashed : flashed[k].dep # i}
           freed == IF deferred THEN Keep(flashed, I) ELSE loose
<1>2. /\ built' = TRUE /\ armed' = (armed \/ deferred) /\ owed' = (owed \/ deferred)
      /\ \/ \E j \in Unused : /\ jobs' = CommitChain(freed, <<New(j, "app")>>).jobs
                              /\ calls' = calls \cup CommitChain(freed, <<New(j, "app")>>).calls
         \/ jobs' = freed /\ UNCHANGED calls
      /\ UNCHANGED <<on, state, stored, disk, other, kept>>
  BY <1>1 DEF Mark
<1>3. DeferFlags' /\ Mapped(disk')
  <2>1. deferred \in BOOLEAN
    BY RunningFields DEF Converts
  <2> HIDE DEF deferred
  <2>2. QED
    BY <1>2, <2>1 DEF DeferTypes, DeferFlags
<1>4. /\ Mapped(left)
      /\ \A n \in DOMAIN left : \E k \in DOMAIN jobs : left[n].id = jobs[k].id
  BY LeftMaps
<1> HIDE DEF left, flashing, waiting, deferred
<1>6. Mapped(flashed) /\ DOMAIN flashed = DOMAIN left /\ \A n \in DOMAIN left : flashed[n].id = left[n].id
  <2>1. Mapped(flashed)
    BY <1>4, MarkStale
  <2>2. \A n \in DOMAIN left : flashed[n].id = left[n].id
    BY <1>4, MappedRows, JobEdits
  <2>3. QED
    BY <2>1, <2>2
<1>7. \A n \in DOMAIN flashed : \E k \in DOMAIN jobs : flashed[n].id = jobs[k].id
  BY <1>4, <1>6
<1> HIDE DEF flashed
<1>8. Mapped(loose) /\ \A n \in DOMAIN loose : \E k \in DOMAIN jobs : loose[n].id = jobs[k].id
  <2>1. Mapped(loose)
    BY <1>6, MarkFreed
  <2>2. \A n \in DOMAIN flashed : loose[n].id = flashed[n].id
    BY <1>6, MappedRows, FreedEdit
  <2>3. DOMAIN loose = DOMAIN flashed
    OBVIOUS
  <2> HIDE DEF loose
  <2>4. QED
    BY <1>7, <2>1, <2>2, <2>3
<1>9. Mapped(Keep(flashed, I)) /\ \A n \in DOMAIN Keep(flashed, I) : \E k \in DOMAIN jobs : Keep(flashed, I)[n].id = jobs[k].id
  <2>1. I \in SUBSET DOMAIN flashed
    OBVIOUS
  <2> HIDE DEF I
  <2>2. Mapped(Keep(flashed, I)) /\ \A n \in DOMAIN Keep(flashed, I) : \E k \in I : Keep(flashed, I)[n] = flashed[k]
    BY <1>6, <2>1, KeepMaps
  <2>3. QED
    BY <1>7, <2>1, <2>2
<1> HIDE DEF loose, I
<1>10. Mapped(freed) /\ \A n \in DOMAIN freed : \E k \in DOMAIN jobs : freed[n].id = jobs[k].id
  BY <1>8, <1>9
<1> HIDE DEF freed
<1>11. CASE jobs' = freed /\ UNCHANGED calls
  BY <1>3, <1>10, <1>11 DEF DeferTypes
<1>12. CASE \E j \in Unused : /\ jobs' = CommitChain(freed, <<New(j, "app")>>).jobs
                              /\ calls' = calls \cup CommitChain(freed, <<New(j, "app")>>).calls
  <2>1. PICK j \in Unused : /\ jobs' = CommitChain(freed, <<New(j, "app")>>).jobs
                            /\ calls' = calls \cup CommitChain(freed, <<New(j, "app")>>).calls
    BY <1>12
  <2>2. New(j, "app") \in Job /\ New(j, "app").id = j
    BY FreshId, NewTypes
  <2>3. PICK new : new = <<New(j, "app")>>
    OBVIOUS
  <2>4. Mapped(new) /\ \A k \in DOMAIN freed, l \in DOMAIN new : freed[k].id # new[l].id
    BY <1>10, <2>2, <2>3, OneMaps, FreshId
  <2>5. PICK m : m = CommitChain(freed, new)
    OBVIOUS
  <2>6. Mapped(m.jobs) /\ m.calls \in SUBSET ACall
    BY <1>10, <2>4, <2>5, ChainMaps
  <2>7. QED
    BY <1>3, <2>1, <2>3, <2>5, <2>6 DEF DeferTypes
<1>13. QED
  BY <1>2, <1>11, <1>12

LEMMA EmptyMaps == Mapped(<<>>)
BY DEF Mapped

LEMMA FileTypes == ASSUME DeferTypes, Save \/ StoreFlush \/ Crash PROVE DeferTypes'
<1>1. CASE Save
  <2>1. kept' \in BOOLEAN /\ disk' = jobs /\ UNCHANGED <<on, state, armed, stored, jobs, calls, built, other, owed>>
    BY <1>1 DEF Save
  <2>2. QED
    BY <2>1 DEF DeferTypes, DeferFlags
<1>2. CASE StoreFlush
  BY <1>2 DEF StoreFlush, DeferTypes, DeferFlags, Mapped
<1>3. CASE Crash
  <2>1. /\ on' = FALSE /\ state' = "UNKNOWN" /\ armed' = stored /\ jobs' = <<>> /\ calls' = {}
        /\ other' \in {"out", "lost", "ended"}
        /\ UNCHANGED <<stored, disk, built, kept, owed>>
    BY <1>3 DEF Crash
  <2>2. Mapped(jobs') /\ Mapped(disk')
    BY <2>1, EmptyMaps DEF DeferTypes
  <2>3. QED
    BY <2>1, <2>2 DEF DeferTypes, DeferFlags
<1>4. QED
  BY <1>1, <1>2, <1>3

LEMMA LoadJobsTypes == ASSUME DeferTypes, LoadJobs PROVE DeferTypes'
<1> DEFINE I == {k \in DOMAIN disk : disk[k].id \notin Ids(jobs)}
           saved == Keep(disk, I)
           back == [k \in DOMAIN saved |->
                      [saved[k] EXCEPT !.st = IF saved[k].dep = NoJob THEN "queued" ELSE "held",
                                       !.stop = FALSE, !.stale = FALSE]]
<1>1. /\ on' = TRUE /\ UNCHANGED <<state, armed, stored, disk, calls, built, kept, owed>>
      /\ jobs' = jobs \o back /\ other' \in {other, "queued", "lost"}
  BY DEF LoadJobs
<1>2. I \in SUBSET DOMAIN disk /\ \A k \in I : \A l \in DOMAIN jobs : jobs[l].id # disk[k].id
  BY DEF Ids
<1> HIDE DEF I
<1>3. Mapped(saved) /\ \A n \in DOMAIN saved : \E k \in I : saved[n] = disk[k]
  BY <1>2, KeepMaps DEF DeferTypes
<1> HIDE DEF saved
<1>4. Mapped(back) /\ DOMAIN back = DOMAIN saved /\ \A n \in DOMAIN saved : back[n].id = saved[n].id
  <2>1. \A k \in DOMAIN saved : back[k] \in Job /\ back[k].id = saved[k].id
    BY <1>3, MappedRows, LoadedEdit
  <2>2. back = [k \in DOMAIN saved |-> back[k]] /\ DOMAIN back = DOMAIN saved
    OBVIOUS
  <2> HIDE DEF back
  <2>3. QED
    BY <1>3, <2>1, <2>2, RelabelMaps
<1> HIDE DEF back
<1>5. \A k \in DOMAIN jobs, l \in DOMAIN back : jobs[k].id # back[l].id
  BY <1>2, <1>3, <1>4
<1>6. Mapped(jobs \o back)
  BY <1>4, <1>5, JoinMaps DEF DeferTypes
<1>7. DeferFlags' /\ Mapped(disk')
  BY <1>1 DEF DeferTypes, DeferFlags
<1>8. QED
  BY <1>1, <1>6, <1>7 DEF DeferTypes

LEMMA DeferTypesStart == ASSUME DeferInit PROVE DeferTypes
BY EmptyMaps DEF DeferInit, DeferTypes, DeferFlags

LEMMA DeferTypesKept == ASSUME DeferTypes, [DeferNext]_deferVars PROVE DeferTypes'
<1>1. CASE UNCHANGED deferVars
  BY <1>1 DEF deferVars, DeferTypes, DeferFlags, Mapped
<1>2. CASE \E d \in {"ONLINE", "OFFLINE"} : DeviceTurns(d)
  BY <1>2, DeviceTurnsTypes
<1>3. CASE Compile \/ InstallDefers \/ InstallChain \/ Upload
  BY <1>3, CompileTypes, InstallDefersTypes, InstallChainTypes, UploadTypes
<1>4. CASE Clean \/ CommitClean \/ ResetBuildEnv
  BY <1>4, CleanTypes, CommitCleanTypes, ResetBuildEnvTypes
<1>5. CASE UserCancel \/ ClearQueuedUpdate \/ CallStep
  BY <1>5, UserCancelTypes, ClearQueuedUpdateTypes, CallStepTypes
<1>6. CASE \E i \in Slot : Start(i) \/ End(i)
  BY <1>6, StartTypes, CompileFailsTypes, CompileLandsTypes, FlashLandsTypes, FlashFailsTypes, WipeEndsTypes DEF End
<1>7. CASE Save \/ StoreFlush \/ Crash \/ LoadJobs
  BY <1>7, FileTypes, LoadJobsTypes
<1>8. QED
  BY <1>1, <1>2, <1>3, <1>4, <1>5, <1>6, <1>7 DEF DeferNext

LEMMA DeferTyped == ASSUME DeferTypes PROVE DeferTypeOK
<1>1. \A js \in {jobs, disk} : \A k, l \in DOMAIN js : js[k] \in Job /\ (js[k].id = js[l].id => k = l)
  BY MappedRows DEF DeferTypes, Mapped
<1>2. \A c \in calls : c.then \in {"end", "place", "clean"}
  <2>1. \A c \in calls : c \in ACall
    BY DEF DeferTypes
  <2>2. QED
    BY <2>1 DEF ACall
<1>3. QED
  BY <1>1, <1>2 DEF DeferTypes, DeferFlags, DeferTypeOK

\* With every constant and for any number of jobs, no id is twice in the job map or in its file: neither commit_chain
\* and the wake's dispatch before load_jobs, nor a restart amid a sweep, puts two records under one key.
THEOREM DeferTypesHold == DeferSpec => []DeferTypeOK
<1>1. DeferInit => DeferTypes
  BY DeferTypesStart
<1>2. DeferTypes /\ [DeferNext]_deferVars => DeferTypes'
  BY DeferTypesKept
<1>3. DeferTypes => DeferTypeOK
  BY DeferTyped
<1>4. QED
  BY <1>1, <1>2, <1>3, PTL DEF DeferSpec

-----------------------------------------------------------------------------
(* The types of the other parts, and of the instance that combines them. *)

\* What the lock's line, the handles and the captured values can be, for any number of write tasks and calls: a
\* writer stands in the line or waits for a task that exists, and no version is one that RAM never had.
THEOREM StoreTypesHold == StoreSpec => []StoreTypeOK
<1>1. StoreInv => StoreTypeOK
  BY DEF StoreInv
<1>2. QED
  BY <1>1, StoreInvHolds, PTL

Lives == life \in {"lanes", "stale", "serving"}

LEMMA LivesOn == ASSUME Lives, [DiskNext]_diskVars PROVE Lives'
<1>1. CASE UNCHANGED diskVars
  BY <1>1 DEF diskVars, Lives
<1>2. CASE ReceiverStarts \/ Serves \/ Restart
  BY <1>2 DEF ReceiverStarts, Serves, Restart, Lives
<1>3. CASE Provision \/ Installs \/ WipeVenvs \/ Take \/ Resolve \/ BuildEnds \/ Wipe \/ UserReset
  BY <1>3 DEF Provision, Installs, WipeVenvs, Take, Resolve, BuildEnds, Wipe, UserReset, Lives
<1>4. ASSUME NEW p \in Peer,
             \/ Header(p) \/ LastChunk(p) \/ Acked(p) \/ SessionEnds(p)
             \/ ExtractBegins(p) \/ ExtractEnds(p) \/ QueueExtract(p)
             \/ PeerReset(p) \/ Download(p) \/ PackEnds(p) \/ Age(p)
             \/ SweepBegins(p) \/ Look(p) \/ RemoveTree(p) \/ LookIdle(p) \/ RemoveTools(p)
      PROVE  life' = life
  BY <1>4 DEF Header, LastChunk, Acked, SessionEnds, ExtractBegins, ExtractEnds, QueueExtract, PeerReset, Download,
              PackEnds, Age, SweepBegins, Look, RemoveTree, LookIdle, RemoveTools
<1>5. QED
  BY <1>1, <1>2, <1>3, <1>4 DEF DiskNext, Lives

LEMMA DiskTyped == ASSUME DiskInv, Lives PROVE DiskTypeOK
<1>1. DiskTypes /\ (Busy => lane # <<>>)
  BY DEF DiskInv, RunInv
<1>2. ASSUME NEW p \in Peer
      PROVE  peer[p].tree \in {"none", "part", "warm", "cold"} /\ peer[p].tools \in {"none", "there", "going"}
  <2>1. peer[p] \in PeerRec
    BY <1>1 DEF DiskTypes
  <2>2. QED
    BY <2>1 DEF PeerRec
<1>3. /\ venv \in [st : {"none", "part", "whole"}, ok : BOOLEAN, rm : BOOLEAN]
      /\ sweep.at \in {"off", "walk", "tree", "live", "data"}
  BY <1>1 DEF DiskTypes, VenvRec, SweepRec
<1>4. QED
  BY <1>1, <1>2, <1>3 DEF DiskTypes, DiskTypeOK, Lives

\* The lane that builds always has the job it is busy with at its head, also across a restart and a reset, and no
\* step of the sweep or the provisioner leaves the directories in a state the next one does not know.
THEOREM DiskTypesHold == DiskSpec => []DiskTypeOK
<1>1. DiskInit => DiskInv /\ NoneRemoves /\ Lives
  BY DiskStarts DEF DiskInit, Lives
<1>2. (DiskInv /\ NoneRemoves /\ Lives) /\ [DiskNext]_diskVars => (DiskInv /\ NoneRemoves /\ Lives)'
  BY DiskKept, LivesOn
<1>3. DiskInv /\ NoneRemoves /\ Lives => DiskTypeOK
  BY DiskTyped
<1>4. QED
  BY <1>1, <1>2, <1>3, PTL DEF DiskSpec

UpkeepInv == DeferTypes /\ StoreInv /\ DiskInv /\ NoneRemoves /\ Lives

\* What rests keeps its invariant.
LEMMA UpkeepKept ==
    ASSUME UpkeepInv, [UpkeepNext]_<<part, deferVars, storeVars, diskVars>>
    PROVE  UpkeepInv'
<1>1. [DeferNext]_deferVars /\ [StoreNext]_storeVars /\ [DiskNext]_diskVars
  BY DEF UpkeepNext
<1>2. DeferTypes'
  BY <1>1, DeferTypesKept DEF UpkeepInv
<1>3. StoreInv'
  BY <1>1, StoreStep DEF UpkeepInv
<1>4. DiskInv' /\ NoneRemoves' /\ Lives'
  BY <1>1, DiskKept, LivesOn DEF UpkeepInv
<1>5. QED
  BY <1>2, <1>3, <1>4 DEF UpkeepInv

\* The three parts keep their types side by side.
THEOREM UpkeepTypesHold == UpkeepSpec => []UpkeepTypeOK
<1>1. UpkeepInit => UpkeepInv
  BY DeferTypesStart, StoreInitInv, DiskStarts DEF UpkeepInit, UpkeepInv, DiskInit, Lives
<1>2. UpkeepInv /\ [UpkeepNext]_<<part, deferVars, storeVars, diskVars>> => UpkeepInv'
  BY UpkeepKept
<1>3. UpkeepInv => UpkeepTypeOK
  BY DeferTyped, DiskTyped DEF UpkeepInv, StoreInv, UpkeepTypeOK
<1>4. QED
  BY <1>1, <1>2, <1>3, PTL DEF UpkeepSpec

=============================================================================
