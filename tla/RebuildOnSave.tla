---------------------------- MODULE RebuildOnSave ----------------------------
(***************************************************************************)
(* Builds after a write to the main worktree (cbe/cbeRebuildOnSave.ts): a  *)
(* timer per worker, one lock file for all of them, and a shell job that   *)
(* outlives its worker, refreshes the obj of the projects it was given,    *)
(* compiles all sources, makes the result the current release, reloads the *)
(* workers one by one and removes the lock.  pnpm build and pm2 are        *)
(* external: what they do is what the file's header says of them.          *)
(***************************************************************************)
EXTENDS Naturals

CONSTANTS
  Worker, Project, None,
  Build,        \* 1..n: the jobs there may be
  MaxWrites,    \* bound: writes to the sources of a project
  MaxRestarts,  \* bound: restarts of a worker
  MaxFaults     \* bound: steps that fail

\* A process of a worker, and the lock file it writes.
Pid  == Worker \X Nat
Lock == [by : Pid, old : BOOLEAN]
Tree == [Project -> Nat]

ASSUME RebuildAssumption ==
  /\ {MaxWrites, MaxRestarts, MaxFaults} \subseteq Nat /\ Build \subseteq Nat
  /\ None \notin Lock

VARIABLES
  lock,      \* the lock file: the pid in it, and whether it is over STALE_LOCK_MS old
  timer,     \* whether the worker's timer is set
  pendingProjects,
  launching, \* workers that created the lock and have not started the build
  clearing,  \* workers that found the lock stale and have not removed it
  build,     \* the jobs: what they do next, for which pid and projects, what they compiled
  source,    \* writes to each project's sources
  obj,       \* the source each project's compiled.zip was made of
  release,   \* what the current release was made of
  restarts,  \* of each worker
  faults,
  dropped,   \* history: projects whose build failed, or was lost with a worker
  cleared    \* history: the lock of a build that ran, or was starting, was removed as stale

rebuildVars ==
  <<lock, timer, pendingProjects, launching, clearing, build, source, obj, release, restarts,
    faults, dropped, cleared>>

pid(w) == <<w, restarts[w]>>

Idle == [next |-> "none", by |-> None, projects |-> {}, todo |-> {},
         source |-> [p \in Project |-> 0], obj |-> [p \in Project |-> 0]]

Running(b) == build[b].next \notin {"none", "done"}

RebuildInit ==
  LET none == [p \in Project |-> 0]
  IN /\ lock = None
     /\ timer = [w \in Worker |-> FALSE]
     /\ pendingProjects = [w \in Worker |-> {}]
     /\ launching = {} /\ clearing = {}
     /\ build = [b \in Build |-> Idle]
     /\ source = none /\ obj = none /\ release = [source |-> none, obj |-> none]
     /\ restarts = [w \in Worker |-> 0] /\ faults = 0
     /\ dropped = {} /\ cleared = FALSE

\* A lock too old to be believed does not count.
isRebuildInProgress == lock # None /\ ~lock.old

\* The timer of an earlier write is replaced; its project stays pending.
scheduleRebuildOnSave(w, p) ==
  /\ pendingProjects' = [pendingProjects EXCEPT ![w] = @ \union {p}]
  /\ timer' = [timer EXCEPT ![w] = TRUE]

(***************************************************************************)
(* attemptBuild                                                            *)
(***************************************************************************)
\* The timer fires; a worker is in one attempt at a time.
Attempts(w) == timer[w] /\ w \notin launching \union clearing

CreateAnyway(w) ==
  /\ Attempts(w)
  /\ lock' = [by |-> pid(w), old |-> FALSE]
  /\ timer' = [timer EXCEPT ![w] = FALSE]
  /\ launching' = launching \union {w}
  /\ UNCHANGED <<pendingProjects, clearing, build, source, obj, release, restarts, faults,
                 dropped, cleared>>

CreateLock(w) ==
  /\ Attempts(w) /\ lock = None
  /\ lock' = [by |-> pid(w), old |-> FALSE]
  /\ timer' = [timer EXCEPT ![w] = FALSE]
  /\ launching' = launching \union {w}
  /\ UNCHANGED <<pendingProjects, clearing, build, source, obj, release, restarts, faults,
                 dropped, cleared>>

\* The lock cannot be created at all: the projects wait for the next write.
CreateFails(w) ==
  /\ Attempts(w) /\ faults < MaxFaults
  /\ faults' = faults + 1
  /\ timer' = [timer EXCEPT ![w] = FALSE]
  /\ dropped' = dropped \union pendingProjects[w]
  /\ UNCHANGED <<lock, pendingProjects, launching, clearing, build, source, obj, release,
                 restarts, cleared>>

lockIsStale == lock # None /\ lock.old

FindStaleLock(w) ==
  /\ Attempts(w) /\ lockIsStale
  /\ clearing' = clearing \union {w}
  /\ UNCHANGED <<lock, timer, pendingProjects, launching, build, source, obj, release, restarts,
                 faults, dropped, cleared>>

\* rmSync removes the lock that is there by then; the timer is set again.
ClearStaleLock(w) ==
  /\ w \in clearing /\ clearing' = clearing \ {w}
  /\ cleared' = (cleared \/ (lock # None /\ (launching # {} \/ \E b \in Build : Running(b))))
  /\ lock' = None
  /\ UNCHANGED <<timer, pendingProjects, launching, build, source, obj, release, restarts,
                 faults, dropped>>

\* Another build runs: the timer is set again.
RetryLater(w) ==
  /\ Attempts(w) /\ lock # None /\ ~lockIsStale
  /\ UNCHANGED rebuildVars

\* The job starts with the projects claimed now.
LaunchBuild(w) ==
  /\ w \in launching
  /\ \E b \in Build :
       /\ build[b].next = "none" /\ \A c \in Build : c < b => build[c].next # "none"
       /\ build' = [build EXCEPT ![b] =
            [Idle EXCEPT !.next = IF pendingProjects[w] = {} THEN "compile" ELSE "refresh",
                         !.by = pid(w), !.projects = pendingProjects[w]]]
  /\ launching' = launching \ {w}
  /\ pendingProjects' = [pendingProjects EXCEPT ![w] = {}]
  /\ UNCHANGED <<lock, timer, clearing, source, obj, release, restarts, faults, dropped,
                 cleared>>

(***************************************************************************)
(* The job (buildShellChain)                                               *)
(***************************************************************************)
Fails(ps) == faults < MaxFaults /\ faults' = faults + 1 /\ dropped' = dropped \union ps

\* A refresh that fails does not keep the build from running.
RefreshObj(b) ==
  /\ build[b].next = "refresh"
  /\ \/ /\ obj' = [p \in Project |-> IF p \in build[b].projects THEN source[p] ELSE obj[p]]
        /\ UNCHANGED <<faults, dropped>>
     \/ Fails(build[b].projects) /\ UNCHANGED obj
  /\ build' = [build EXCEPT ![b].next = "compile"]
  /\ UNCHANGED <<lock, timer, pendingProjects, launching, clearing, source, release, restarts,
                 cleared>>

\* A build that fails is not tried again.
Compile(b) ==
  /\ build[b].next = "compile"
  /\ \/ /\ build' = [build EXCEPT ![b].next = "flip", ![b].source = source, ![b].obj = obj]
        /\ UNCHANGED <<faults, dropped>>
     \/ /\ Fails({p \in Project : release.source[p] # source[p] \/ release.obj[p] # source[p]})
        /\ build' = [build EXCEPT ![b].next = "unlock"]
  /\ UNCHANGED <<lock, timer, pendingProjects, launching, clearing, source, obj, release,
                 restarts, cleared>>

FlipCurrent(b) ==
  /\ build[b].next = "flip"
  /\ release' = [source |-> build[b].source, obj |-> build[b].obj]
  /\ dropped' = {p \in dropped : release'.source[p] # source[p] \/ release'.obj[p] # source[p]}
  /\ build' = [build EXCEPT ![b].next = "reload", ![b].todo = Worker]
  /\ UNCHANGED <<lock, timer, pendingProjects, launching, clearing, source, obj, restarts,
                 faults, cleared>>

\* What a worker had in memory goes: its timer and the projects it kept for it.
\* The lock it may have created stays.
Restart(w) ==
  /\ restarts' = [restarts EXCEPT ![w] = @ + 1]
  /\ timer' = [timer EXCEPT ![w] = FALSE]
  /\ pendingProjects' = [pendingProjects EXCEPT ![w] = {}]
  /\ launching' = launching \ {w} /\ clearing' = clearing \ {w}

Reload(b, w) ==
  /\ build[b].next = "reload" /\ w \in build[b].todo
  /\ build' = [build EXCEPT ![b].todo = @ \ {w},
                            ![b].next = IF build[b].todo = {w} THEN "unlock" ELSE "reload"]
  /\ Restart(w)
  /\ UNCHANGED <<lock, source, obj, release, faults, cleared>>

Crash(w) ==
  /\ faults < MaxFaults /\ faults' = faults + 1
  /\ Restart(w)
  /\ UNCHANGED <<lock, build, source, obj, release, cleared>>

\* Only a lock with the pid of the worker that started this build is removed.
Unlock(b) ==
  /\ build[b].next = "unlock"
  /\ lock' = IF lock # None /\ lock.by = build[b].by THEN None ELSE lock
  /\ build' = [build EXCEPT ![b] = [Idle EXCEPT !.next = "done"]]
  /\ UNCHANGED <<timer, pendingProjects, launching, clearing, source, obj, release, restarts,
                 faults, dropped, cleared>>

LockAges ==
  /\ lock # None /\ ~lock.old /\ launching = {}
  /\ lock' = [lock EXCEPT !.old = TRUE]
  /\ UNCHANGED <<timer, pendingProjects, launching, clearing, build, source, obj, release,
                 restarts, faults, dropped, cleared>>

Attempt(w) ==
  \/ CreateLock(w) \/ FindStaleLock(w) \/ ClearStaleLock(w) \/ RetryLater(w) \/ LaunchBuild(w)
BuildStep(b) ==
  \/ RefreshObj(b) \/ Compile(b) \/ FlipCurrent(b) \/ Unlock(b)
=============================================================================
