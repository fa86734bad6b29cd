--------------------------- MODULE PromoteRelease ---------------------------
(***************************************************************************)
(* Publishing a draft (cbe/cbeRoutes.ts handlePromote): a request checks   *)
(* that no build runs, claims the one publication in flight with a file,   *)
(* merges the draft's branch into the main worktree (cbeGitPromote.ts),    *)
(* and schedules the build that RebuildOnSave models.  Any request that    *)
(* meets the claim, and every ping, may retire it.                         *)
(*                                                                         *)
(* Requests and pings run in two worker processes; a step runs until the   *)
(* next await, or the next access to a file the other worker shares; the   *)
(* claim and the lock it is judged by are read in one step.                *)
(***************************************************************************)
EXTENDS RebuildOnSave

CONSTANTS
  Request, Ping,
  MaxPings   \* bound: pings that find something to retire

\* What the in-flight file says, and when it was written.
Claim == [by : Request, written : BOOLEAN, old : BOOLEAN]

ASSUME PromoteAssumption ==
  /\ Request \intersect Ping = {}
  /\ None \notin Request \union Claim /\ MaxPings \in Nat

VARIABLES
  claim,       \* the in-flight file: who made it, whether it has its content, over 30 s old
  lastPromote, \* the request named by the "rebuild-not-started" file
  pc, at,      \* where each request or ping is, and on which worker
  project,     \* the project a request publishes
  found,       \* the claim it read and retires, and whether that had expired
  retried,     \* whether it tried its claim again
  merging,     \* the request whose unfinished merge is in a project's main worktree
  pings,
  taken        \* history: a claim was retired before its request was over

promoteVars ==
  <<claim, lastPromote, pc, at, project, found, retried, merging, pings, taken>>
vars == <<rebuildVars, promoteVars>>

Reader == Request \union Ping

Init ==
  /\ RebuildInit
  /\ claim = None /\ lastPromote = None
  /\ pc = [x \in Reader |-> "none"] /\ at = [x \in Reader |-> None]
  /\ project = [r \in Request |-> None]
  /\ found = [x \in Reader |-> None]
  /\ retried = [r \in Request |-> FALSE]
  /\ merging = [p \in Project |-> None] /\ pings = 0
  /\ taken = FALSE

\* A request that is over is on no worker.
Goto(x, l) ==
  /\ pc' = [pc EXCEPT ![x] = l]
  /\ at' = [at EXCEPT ![x] = IF l \in {"none", "done"} THEN None ELSE @]

\* A worker does nothing else between the creation of a claim and the answer.
InClaim(x) == pc[x] \in {"write", "retire", "again"}
Free(x, w) == \A y \in Reader \ {x} : at[y] = w => ~InClaim(y)

(***************************************************************************)
(* handlePromote, up to the claim                                          *)
(***************************************************************************)
Arrive(r, w, p) ==
  /\ pc[r] = "none" /\ Free(r, w)
  /\ at' = [at EXCEPT ![r] = w] /\ project' = [project EXCEPT ![r] = p]
  /\ pc' = [pc EXCEPT ![r] = "check"]
  /\ UNCHANGED <<rebuildVars, claim, lastPromote, found, retried, merging, pings, taken>>

CheckRebuild(r) ==
  /\ pc[r] = "check" /\ Free(r, at[r])
  /\ Goto(r, IF isRebuildInProgress THEN "done" ELSE "claim")
  /\ UNCHANGED <<rebuildVars, claim, lastPromote, project, found, retried, merging, pings,
                 taken>>

tryClaimAnyway(r) ==
  /\ pc[r] = "claim" /\ Free(r, at[r])
  /\ claim' = [by |-> r, written |-> FALSE, old |-> FALSE]
  /\ Goto(r, "write")
  /\ UNCHANGED <<rebuildVars, lastPromote, project, found, retried, merging, pings, taken>>

tryClaimPromote(r) ==
  /\ pc[r] = "claim" /\ Free(r, at[r]) /\ claim = None
  /\ claim' = [by |-> r, written |-> FALSE, old |-> FALSE]
  /\ Goto(r, "write")
  /\ UNCHANGED <<rebuildVars, lastPromote, project, found, retried, merging, pings, taken>>

\* The content goes to the file that was created, also when it was removed.  A
\* write that fails removes the file that is there.
WriteClaim(r) ==
  /\ pc[r] = "write"
  /\ \/ /\ claim' = IF claim # None /\ claim.by = r THEN [claim EXCEPT !.written = TRUE] ELSE claim
        /\ Goto(r, "status") /\ UNCHANGED faults
     \/ /\ faults < MaxFaults /\ faults' = faults + 1
        /\ claim' = None
        /\ Goto(r, "done")
  /\ UNCHANGED <<lock, timer, pendingProjects, launching, clearing, build, source, obj, release,
                 restarts, dropped, cleared, lastPromote, project, found, retried, merging,
                 pings, taken>>

(***************************************************************************)
(* readLivePromote: an unreadable claim, one a build has taken over and    *)
(* one over 30 s old are removed by whoever reads them.                    *)
(***************************************************************************)
Live(c) == c.written /\ ~isRebuildInProgress /\ ~c.old

Unusable(c) == [by |-> c.by, expired |-> c.written /\ ~isRebuildInProgress]

FindClaim(r) ==
  /\ pc[r] = "claim" /\ Free(r, at[r]) /\ claim # None
  /\ \/ Live(claim) /\ Goto(r, "done") /\ UNCHANGED found
     \/ /\ ~Live(claim) /\ Goto(r, "retire")
        /\ found' = [found EXCEPT ![r] = Unusable(claim)]
  /\ UNCHANGED <<rebuildVars, claim, lastPromote, project, retried, merging, pings, taken>>

\* Only a ping that finds something to retire matters here.
PingReads(g, w) ==
  /\ pc[g] = "none" /\ Free(g, w) /\ pings < MaxPings
  /\ claim # None /\ ~Live(claim)
  /\ pings' = pings + 1
  /\ at' = [at EXCEPT ![g] = w] /\ pc' = [pc EXCEPT ![g] = "retire"]
  /\ found' = [found EXCEPT ![g] = Unusable(claim)]
  /\ UNCHANGED <<rebuildVars, claim, lastPromote, project, retried, merging, taken>>

\* It removes the file that is there by then; an expired one leaves a note.
RetireClaim(x) ==
  /\ pc[x] = "retire"
  /\ claim' = None
  /\ lastPromote' = IF found[x].expired THEN found[x].by ELSE lastPromote
  /\ taken' = (taken \/ (claim # None /\ pc[claim.by] # "done"))
  /\ found' = [found EXCEPT ![x] = None]
  /\ Goto(x, IF x \in Ping THEN "none" ELSE "again")
  /\ UNCHANGED <<rebuildVars, project, retried, merging, pings>>

TryClaimAgain(r) ==
  /\ pc[r] = "again"
  /\ LET retry == ~isRebuildInProgress /\ ~retried[r]
     IN /\ Goto(r, IF retry THEN "claim" ELSE "done")
        /\ retried' = [retried EXCEPT ![r] = retry]
  /\ UNCHANGED <<rebuildVars, claim, lastPromote, project, found, merging, pings, taken>>

ClaimAges ==
  /\ claim # None /\ claim.written /\ ~claim.old
  /\ claim' = [claim EXCEPT !.old = TRUE]
  /\ UNCHANGED <<rebuildVars, lastPromote, pc, at, project, found, retried, merging, pings,
                 taken>>

(***************************************************************************)
(* promoteDraft: git in the main worktree of the project                   *)
(***************************************************************************)
\* A missing branch, a main worktree that is not clean, nothing to publish and
\* a git error all end the publication before the merge.
CheckMain(r) ==
  /\ pc[r] = "status" /\ Free(r, at[r])
  /\ \/ Goto(r, "release")
     \/ merging[project[r]] = None /\ Goto(r, "merge")
  /\ UNCHANGED <<rebuildVars, claim, lastPromote, project, found, retried, merging, pings,
                 taken>>

\* The merge lands, or stops at a conflict; git refuses one while another is
\* unfinished.
Merge(r) ==
  /\ pc[r] = "merge" /\ Free(r, at[r])
  /\ \/ /\ merging[project[r]] = None /\ source[project[r]] < MaxWrites
        /\ source' = [source EXCEPT ![project[r]] = @ + 1]
        /\ Goto(r, "merged") /\ UNCHANGED merging
     \/ /\ merging' = [merging EXCEPT ![project[r]] = IF @ = None THEN r ELSE @]
        /\ Goto(r, "abort") /\ UNCHANGED source
  /\ UNCHANGED <<lock, timer, pendingProjects, launching, clearing, build, obj, release,
                 restarts, faults, dropped, cleared, claim, lastPromote, project, found,
                 retried, pings, taken>>

\* merge --abort undoes whichever merge is unfinished.
AbortMerge(r) ==
  /\ pc[r] = "abort" /\ Free(r, at[r])
  /\ merging' = [merging EXCEPT ![project[r]] = None]
  /\ Goto(r, "release")
  /\ UNCHANGED <<rebuildVars, claim, lastPromote, project, found, retried, pings, taken>>

MergedUnscheduled(r) ==
  /\ pc[r] = "merged" /\ Free(r, at[r])
  /\ Goto(r, "done")
  /\ UNCHANGED <<rebuildVars, claim, lastPromote, project, found, retried, merging, pings,
                 taken>>

\* The build is scheduled once rev-parse has named the merge; when that fails
\* the merge stays, and nothing is scheduled.
Merged(r) ==
  /\ pc[r] = "merged" /\ Free(r, at[r])
  /\ \/ /\ scheduleRebuildOnSave(at[r], project[r])
        /\ Goto(r, "done")
        /\ UNCHANGED <<faults, dropped>>
     \/ /\ Fails({project[r]})
        /\ Goto(r, "release")
        /\ UNCHANGED <<timer, pendingProjects>>
  /\ UNCHANGED <<lock, launching, clearing, build, source, obj, release, restarts, cleared,
                 claim, lastPromote, project, found, retried, merging, pings, taken>>

releaseClaim(r) ==
  /\ pc[r] = "release" /\ Free(r, at[r])
  /\ claim' = IF claim # None /\ claim.written /\ claim.by = r THEN None ELSE claim
  /\ Goto(r, "done")
  /\ UNCHANGED <<rebuildVars, lastPromote, project, found, retried, merging, pings, taken>>

(***************************************************************************)
(* A worker that restarts takes its requests with it.                      *)
(***************************************************************************)
EndWith(w) ==
  LET gone == {x \in Reader : at[x] = w}
  IN /\ pc' = [x \in Reader |-> IF x \in gone THEN IF x \in Ping THEN "none" ELSE "done" ELSE pc[x]]
     /\ at' = [x \in Reader |-> IF x \in gone THEN None ELSE at[x]]
     /\ found' = [x \in Reader |-> IF x \in gone THEN None ELSE found[x]]
     /\ dropped' = dropped \union pendingProjects[w] \union
          {project[r] : r \in {q \in gone \intersect Request : pc[q] = "merged"}}
     /\ UNCHANGED <<claim, lastPromote, project, retried, merging, pings, taken>>

RequestStep(r) ==
  \/ CheckRebuild(r) \/ tryClaimPromote(r) \/ FindClaim(r) \/ WriteClaim(r) \/ TryClaimAgain(r)
  \/ CheckMain(r) \/ Merge(r) \/ AbortMerge(r) \/ Merged(r) \/ releaseClaim(r)

JobStep(b) ==
  \/ BuildStep(b) /\ UNCHANGED promoteVars
  \/ \E w \in Worker : Reload(b, w) /\ EndWith(w)

Next ==
  \/ \E w \in Worker :
       \/ \E r \in Request, p \in Project : Arrive(r, w, p)
       \/ \E g \in Ping : PingReads(g, w)
       \/ Crash(w) /\ EndWith(w)
       \/ (Attempt(w) \/ CreateFails(w)) /\ UNCHANGED promoteVars
  \/ \E r \in Request : RequestStep(r)
  \/ \E x \in Reader : RetireClaim(x)
  \/ ClaimAges
  \/ \E b \in Build : JobStep(b)
  \/ LockAges /\ UNCHANGED promoteVars

\* Requests, timers and jobs go on, pm2 reloads every worker, a lock gets old.
Fairness ==
  /\ \A w \in Worker : WF_vars(Attempt(w) /\ UNCHANGED promoteVars)
  /\ \A r \in Request : WF_vars(RequestStep(r) \/ RetireClaim(r))
  /\ \A g \in Ping : WF_vars(RetireClaim(g))
  /\ \A b \in Build : WF_vars(JobStep(b))
  /\ WF_vars(LockAges /\ UNCHANGED promoteVars)

Spec == Init /\ [][Next]_vars /\ Fairness

(***************************************************************************)
(* Properties                                                              *)
(***************************************************************************)
\* One publication at a time works on the main worktree, unless the claim of a
\* running one was retired: unreadable, 30 s old or taken over by a build.
OnePromote ==
  ~taken => \A q, r \in Request :
    pc[q] \in {"status", "merge", "merged", "abort"} /\ pc[r] \in {"status", "merge", "merged", "abort"}
      => q = r

\* A build never puts an older state of a project's sources into the release.
ReleaseNeverBack ==
  [][~cleared => \A p \in Project : release'.source[p] >= release.source[p]]_vars

Carries(p, n) == release.source[p] >= n /\ release.obj[p] >= n

\* A merge reaches the release unless its build failed or was lost.
MergeIsReleased ==
  \A p \in Project, n \in 1..MaxWrites :
    source[p] >= n ~> Carries(p, n) \/ p \in dropped \/ cleared
=============================================================================
