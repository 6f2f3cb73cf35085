-------------------------------- MODULE Store --------------------------------
(***************************************************************************)
(* helpers/storage.py: one JSON file kept behind RAM by a debounced timer   *)
(* and by flushes, under the consumers that use it: a store whose entries   *)
(* are first migrated out of the shared sidecar                             *)
(* (controllers/devices/_metadata_store.py and                              *)
(* controllers/config/_preferences_store.py).  The value is a version:      *)
(* each mutation makes a newer one.                                         *)
(***************************************************************************)
EXTENDS Naturals, Sequences

CONSTANTS
    Timed,      \* write tasks of the timer that may exist at once
    Caller,     \* API calls that flush
    MaxVersion, \* bound on mutations
    Confirmed,  \* the strip looks for the new file first (preferences do, device metadata does not)
    NoTask

ASSUME StoreAssumption ==
    /\ MaxVersion \in Nat \ {0} /\ Confirmed \in BOOLEAN
    /\ Timed \cap Caller = {} /\ {"boot", "stop", "none", "new", "line", "write", NoTask} \cap (Timed \cup Caller) = {}

VARIABLES
    phase,   \* "load", "migrate" (the flush of async_load), "up", "stop", and "down" between two lives
    ram,     \* the consumer's live value; 0 is empty
    file,    \* the value in the file; 0 is no file
    legacy,  \* the shared sidecar still has the entries
    want,    \* _data_func is set
    timer,   \* _delay_handle: "off", "armed", or "early" when _next_write_time is later than it
    latest,  \* _inflight_write while it is not done
    at,      \* where a writer is: "none", "new" (a task not yet run), "line", "write", or the task it awaits
    val,     \* the value a writer captured
    line,    \* the write lock: its holder, if any, then those in line for it
    failed   \* the version of the last write that failed

storeVars == <<phase, ram, file, legacy, want, timer, latest, at, val, line, failed>>

Flusher == Caller \cup {"boot", "stop"}   \* async_save_now of async_load, of the shutdown, of calls
Writer == Timed \cup Flusher

----------------------------------------------------------------------------
(* _async_handle_write *)

Off(w) == latest' = IF latest = w THEN NoTask ELSE latest

\* Inside the lock data_func is taken and called, or was drained by another writer.  v and wanted are the value
\* in RAM and _data_func at this point of the segment.
Captured(w, v, wanted, rest) ==
    /\ want' = FALSE
    /\ \/ /\ wanted /\ at' = [at EXCEPT ![w] = "write"] /\ val' = [val EXCEPT ![w] = v]
          /\ line' = <<w>> \o rest /\ latest' = latest
       \/ /\ ~wanted /\ at' = [at EXCEPT ![w] = "none"] /\ line' = rest /\ val' = val /\ Off(w)

\* A free lock is taken without a suspension; a newcomer never passes a waiter.
HandleWrite(w, v, wanted) ==
    \/ line = <<>> /\ Captured(w, v, wanted, <<>>)
    \/ /\ line # <<>> /\ line' = Append(line, w) /\ at' = [at EXCEPT ![w] = "line"]
       /\ want' = wanted /\ UNCHANGED <<val, latest>>

\* The lock's first waiter wakes.
Granted(w) ==
    /\ at[w] = "line" /\ Head(line) = w
    /\ Captured(w, ram, want, Tail(line)) /\ UNCHANGED <<phase, ram, file, legacy, timer, failed>>

\* The executor is done: the rename swapped the file, or an error was logged and swallowed.
WriteEnds(w) ==
    /\ at[w] = "write"
    /\ \/ file' = val[w] /\ failed' = failed
       \/ failed' = val[w] /\ file' = file
    /\ at' = [at EXCEPT ![w] = "none"] /\ line' = Tail(line) /\ Off(w)
    /\ UNCHANGED <<phase, ram, legacy, want, timer, val>>

----------------------------------------------------------------------------
(* async_delay_save and its timer *)

\* A handle that wakes earlier than the new deadline stays and will reschedule itself.
BugRearm == timer' \in IF timer = "off" THEN {"armed"} ELSE {"armed", "off"}
Rearm == timer' \in IF timer = "off" THEN {"armed"} ELSE {"armed", "early"}

FireEarly ==
    /\ timer = "early" /\ timer' = "armed"
    /\ UNCHANGED <<phase, ram, file, legacy, want, latest, at, val, line, failed>>

Fire(t) ==
    /\ timer # "off" /\ at[t] = "none" /\ \A f \in Flusher : at[f] # t
    /\ timer' = "off" /\ latest' = t /\ at' = [at EXCEPT ![t] = "new"]
    /\ UNCHANGED <<phase, ram, file, legacy, want, val, line, failed>>

TaskRuns(t) ==
    /\ at[t] = "new" /\ HandleWrite(t, ram, want)
    /\ UNCHANGED <<phase, ram, file, legacy, timer, failed>>

----------------------------------------------------------------------------
(* async_save_now *)

FlushRest(f, v, wanted) ==
    \/ wanted /\ HandleWrite(f, v, wanted)
    \/ ~wanted /\ at' = [at EXCEPT ![f] = "none"] /\ want' = FALSE /\ UNCHANGED <<val, line, latest>>

\* Cancels the timer and lets the timer's write under way end first.
Flush(f, v, wanted) ==
    /\ timer' = "off"
    /\ \/ latest = NoTask /\ FlushRest(f, v, wanted)
       \/ /\ latest # NoTask /\ at' = [at EXCEPT ![f] = latest]
          /\ want' = wanted /\ UNCHANGED <<val, line, latest>>

Joined(f) ==
    /\ at[f] \in Timed /\ at[at[f]] = "none"
    /\ FlushRest(f, ram, want) /\ UNCHANGED <<phase, ram, file, legacy, timer, failed>>

----------------------------------------------------------------------------
(* The consumer *)

Newer == ram < MaxVersion /\ ram' = ram + 1

\* update, set_field, clear_volatile, mutate: a new value and a debounced save.
Mutate ==
    /\ phase = "up" /\ Newer /\ want' = TRUE /\ Rearm
    /\ UNCHANGED <<phase, file, legacy, latest, at, val, line, failed>>

\* remove, rename: a new value, flushed at once.
MutateNow(f) ==
    /\ phase = "up" /\ at[f] = "none" /\ Newer /\ Flush(f, ram + 1, TRUE)
    /\ UNCHANGED <<phase, file, legacy, failed>>

\* async_load: the file wins; without one the sidecar's entries are taken over and flushed.
Load ==
    /\ phase = "load"
    /\ \/ /\ file # 0 \/ ~legacy
          /\ phase' = "up" /\ ram' = file /\ UNCHANGED <<want, timer, latest, at, val, line>>
       \/ file = 0 /\ legacy /\ phase' = "migrate" /\ ram' = 1 /\ Flush("boot", 1, TRUE)
    /\ UNCHANGED <<file, legacy, failed>>

\* After the flush the sidecar is stripped of what was taken over.
BugStripped == FALSE
Stripped == Confirmed /\ file = 0
Strip ==
    /\ phase = "migrate" /\ at["boot"] = "none" /\ phase' = "up"
    /\ legacy' = Stripped
    /\ UNCHANGED <<ram, file, want, timer, latest, at, val, line, failed>>

\* Shutdown: the registered flush is awaited, then the process ends; writes in the executor are joined.
BugStop ==
    phase = "up" /\ phase' = "stop" /\ UNCHANGED <<ram, file, legacy, want, timer, latest, at, val, line, failed>>
Stop ==
    /\ phase = "up" /\ phase' = "stop" /\ Flush("stop", ram, want)
    /\ UNCHANGED <<ram, file, legacy, failed>>
Exit ==
    /\ phase = "stop" /\ at["stop"] = "none" /\ \A w \in Writer : at[w] # "write"
    /\ phase' = "down" /\ UNCHANGED <<ram, file, legacy, want, timer, latest, at, val, line, failed>>

Reborn ==
    /\ phase' = "load" /\ ram' = 0 /\ want' = FALSE /\ timer' = "off" /\ latest' = NoTask /\ failed' = 0
    /\ at' = [w \in Writer |-> "none"] /\ val' = [w \in Writer |-> 0] /\ line' = <<>>
    /\ UNCHANGED <<file, legacy>>
Kill == phase \notin {"down", "load"} /\ Reborn    \* the process is killed and started again
Boot == phase = "down" /\ Reborn

----------------------------------------------------------------------------
StoreInit ==
    /\ phase = "load" /\ ram = 0 /\ want = FALSE /\ timer = "off" /\ latest = NoTask /\ failed = 0
    /\ at = [w \in Writer |-> "none"] /\ val = [w \in Writer |-> 0] /\ line = <<>>
    /\ file = 0 /\ legacy = TRUE

StoreNext ==
    \/ Load \/ Strip \/ Mutate \/ Stop \/ Exit \/ Kill \/ Boot \/ FireEarly
    \/ \E w \in Writer : Granted(w) \/ WriteEnds(w)
    \/ \E t \in Timed : Fire(t) \/ TaskRuns(t)
    \/ \E f \in Flusher : Joined(f)
    \/ \E f \in Caller : MutateNow(f)

StoreSpec == StoreInit /\ [][StoreNext]_storeVars

----------------------------------------------------------------------------
StoreTypeOK ==
    /\ phase \in {"load", "migrate", "up", "stop", "down"} /\ timer \in {"off", "armed", "early"}
    /\ ram \in 0..MaxVersion /\ file \in 0..MaxVersion /\ failed \in 0..MaxVersion
    /\ legacy \in BOOLEAN /\ want \in BOOLEAN /\ latest \in Timed \cup {NoTask}
    /\ at \in [Writer -> {"none", "new", "line", "write"} \cup Timed] /\ val \in [Writer -> 0..MaxVersion]
    /\ line \in Seq(Writer)

\* Timer, tasks and flushes hand the pending value to each other through one field: while the file is behind RAM
\* someone is going to write it or is writing it, but for a write that failed, and after a graceful shutdown it
\* is not behind; nobody is about to put back an older value.
SaveIsPending ==
    /\ phase # "load" /\ file # ram =>
          \/ want /\ (timer # "off" \/ \E w \in Writer : at[w] \notin {"none", "write"})
          \/ \E w \in Writer : at[w] = "write" /\ val[w] = ram
          \/ failed = ram
    /\ \A w \in Writer : at[w] = "write" => val[w] > file

\* The entries of the shared sidecar are never lost on the way to their own file, whatever write fails and
\* wherever the process is killed.
MigrationSurvives == legacy \/ file # 0

\* What timer, tasks, lock and flushes add up to.
Life == IF phase = "load" THEN "off" ELSE IF phase = "down" THEN "closed" ELSE "on"
Promise == INSTANCE WriteBehind WITH life <- Life, lost <- failed, old <- legacy

\* The consumer sees a file that follows RAM: through every race of timers, flushes, failing writes, shutdowns and
\* kills it goes to newer values only, a graceful shutdown leaves nothing behind but a write that failed, and the
\* shared sidecar gives its entries up only to a file that holds them.
ImplementsWriteBehind == Promise!Spec
=============================================================================
