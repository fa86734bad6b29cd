------------------------------ MODULE DraftGit ------------------------------
(***************************************************************************)
(* The worktree of one draft and the branch in it: saves (cbeRoutes.ts     *)
(* handleSetContents, cbeGitCommit.ts), restored paths, discards, syncs    *)
(* with main and publications (cbeGitPromote.ts).  The calls run in two    *)
(* worker processes and share no lock; a step is one git command, or a     *)
(* write, and git's index.lock makes each command one step.  RemovePaths   *)
(* joins the ls-tree of HEAD and the removals after it.                    *)
(*                                                                         *)
(* A tree gives each file its bytes; a write brings bytes no tree had.     *)
(* Of the commit graph only the last common ancestor of main and the       *)
(* branch matters, and whether either has commits since.  What git does is *)
(* modelled as its manual says; the main worktree, its dirt and the claim  *)
(* around a publication are those of PromoteRelease.  Ignored paths,       *)
(* restores of directories and restores to a commit other than main are    *)
(* left out.                                                               *)
(***************************************************************************)
EXTENDS Naturals

CONSTANTS
  File,
  Absent,     \* bytes of a file that is not there
  Markers,    \* bytes of a file with conflict markers
  Caller,     \* calls in flight
  Writes,     \* sets of files a call may name
  MaxMains, MaxCalls, MaxFailures   \* bounds: publications of other drafts, calls, failures

ASSUME DraftAssumption ==
  /\ Writes \subseteq SUBSET File /\ {} \notin Writes
  /\ {MaxMains, MaxCalls, MaxFailures} \subseteq Nat
  /\ {Absent, Markers} \intersect Nat = {} /\ Absent # Markers

VARIABLES
  main,      \* tree of the main branch
  ancestor,  \* tree of the last commit main and the draft's branch share
  ahead,     \* the branch has commits main has not
  behind,    \* main has commits the branch has not
  head, index, work,  \* trees of the branch's last commit, its index and its files
  mergeHead, \* a merge is unfinished (MERGE_HEAD)
  unmerged,  \* its files in conflict
  place, op, \* where each call is, and which
  paths,     \* the files it is about
  progress,  \* of these: what a save wrote, a restore found at main, a restore is to remove
  mains, calls, failures,
  expected,  \* history: what the last save put into a file, until something may replace it
  exposed,   \* history: files written or staged while a merge was unfinished
  spoiled    \* history: a restore removed a file under its save, or a save named a file that is nowhere

branches  == <<main, ancestor, ahead, behind>>
tree      == <<head, index, work, mergeHead, unmerged>>
counters  == <<mains, calls, failures>>
history   == <<expected, exposed, spoiled>>
draftVars == <<branches, tree, place, op, paths, progress, counters, history>>

NoFiles == [written |-> {}, present |-> {}, remove |-> {}]
Nothing == [f \in File |-> 0]

DraftInit ==
  /\ main = Nothing /\ ancestor = Nothing /\ ahead = FALSE /\ behind = FALSE
  /\ head = Nothing /\ index = Nothing /\ work = Nothing
  /\ mergeHead = FALSE /\ unmerged = {}
  /\ place = [c \in Caller |-> "idle"] /\ op = [c \in Caller |-> "none"]
  /\ paths = [c \in Caller |-> {}] /\ progress = [c \in Caller |-> NoFiles]
  /\ mains = 0 /\ calls = 0 /\ failures = 0
  /\ expected = [f \in File |-> Markers] /\ exposed = {} /\ spoiled = FALSE

\* Markers stands for "nothing expected": no save writes it.
Unexpected(fs) == expected' = [f \in File |-> IF f \in fs THEN Markers ELSE expected[f]]

Proceed(c, l) == place' = [place EXCEPT ![c] = l]

Return(c) ==
  /\ Proceed(c, "idle")
  /\ op' = [op EXCEPT ![c] = "none"]
  /\ paths' = [paths EXCEPT ![c] = {}]
  /\ progress' = [progress EXCEPT ![c] = NoFiles]

Continue(c, l) == Proceed(c, l) /\ UNCHANGED <<op, paths, progress>>

\* What a command leaves in the files of fs, from the tree t.
Over(t, fs, u) == [f \in File |-> IF f \in fs THEN u[f] ELSE t[f]]

(***************************************************************************)
(* Calls                                                                   *)
(***************************************************************************)
Begin(c, o, fs, l) ==
  /\ place[c] = "idle" /\ calls < MaxCalls /\ calls' = calls + 1
  /\ op' = [op EXCEPT ![c] = o]
  /\ paths' = [paths EXCEPT ![c] = fs]
  /\ Proceed(c, l)
  /\ UNCHANGED <<branches, tree, progress, mains, failures, history>>

Call(c) ==
  \/ \E fs \in Writes : Begin(c, "save", fs, "write") \/ Begin(c, "restore", fs, "probe")
  \/ Begin(c, "sync", {}, "status")
  \/ Begin(c, "prepare", {}, "status")
  \/ Begin(c, "discard", {}, "reset")
  \/ Begin(c, "promote", {}, "promote")

\* Bytes that are in no tree yet.
NewBytes(f) ==
  LET known == {main[f], ancestor[f], head[f], index[f], work[f], expected[f]}
  IN {n \in 1..7 : n \notin known /\ \A k \in 1..(n - 1) : k \in known}

\* The files are written, or removed, one by one, and the save will be answered
\* 200 whatever becomes of its commit.
writeDecodedSources(c) ==
  LET left == paths[c] \ progress[c].written IN
  /\ place[c] = "write"
  /\ \E f \in left : \E bytes \in NewBytes(f) \union {Absent} :
       /\ work' = [work EXCEPT ![f] = bytes]
       /\ expected' = [expected EXCEPT ![f] = bytes]
       /\ exposed' = IF mergeHead THEN exposed \union {f} ELSE exposed \ {f}
       /\ Proceed(c, IF left = {f} THEN "add" ELSE "write")
       /\ progress' = [progress EXCEPT ![c].written = IF left = {f} THEN {} ELSE @ \union {f}]
  /\ UNCHANGED <<branches, head, index, mergeHead, unmerged, op, paths, mains, calls, failures,
                 spoiled>>

(***************************************************************************)
(* commitSavedSources                                                      *)
(***************************************************************************)
\* git add -A -- paths: a path that is neither on disk nor in the index fails it.
\* It settles a conflict in the file.
Tracked(f) == index[f] # Absent \/ f \in unmerged
Known(fs, t) == \A f \in fs : t[f] # Absent \/ Tracked(f)

AddPaths(c) ==
  /\ place[c] = "add"
  /\ \/ /\ Known(paths[c], work)
        /\ index' = Over(index, paths[c], work)
        /\ unmerged' = unmerged \ paths[c]
        /\ exposed' = IF mergeHead THEN exposed \union paths[c] ELSE exposed
        /\ Continue(c, "staged") /\ UNCHANGED spoiled
     \/ /\ ~Known(paths[c], work) /\ Return(c)
        /\ spoiled' = TRUE /\ UNCHANGED <<index, unmerged, exposed>>
  /\ UNCHANGED <<branches, head, work, mergeHead, counters, expected>>

hasStagedChanges(c) ==
  /\ place[c] = "staged"
  /\ \/ (\E f \in paths[c] : index[f] # head[f] \/ f \in unmerged) /\ Continue(c, "commit")
     \/ (\A f \in paths[c] : index[f] = head[f] /\ f \notin unmerged) /\ Return(c)
  /\ UNCHANGED <<branches, tree, counters, history>>

\* git commit -- paths takes what is on disk by now, also when it was not added.
\* It refuses during a merge, and when another call has committed the same.
MayCommit(fs) ==
  ~mergeHead /\ Known(fs, head) /\ \E f \in fs : work[f] # head[f]

CommitPaths(c) ==
  /\ place[c] = "commit"
  /\ \/ /\ MayCommit(paths[c])
        /\ head' = Over(head, paths[c], work) /\ index' = Over(index, paths[c], work)
        /\ ahead' = TRUE
     \/ ~MayCommit(paths[c]) /\ UNCHANGED <<head, index, ahead>>
  /\ spoiled' = (spoiled \/ ~Known(paths[c], head))
  /\ Return(c)
  /\ UNCHANGED <<main, ancestor, behind, work, mergeHead, unmerged, counters, expected, exposed>>

(***************************************************************************)
(* restoreDraftPaths with ref main                                         *)
(***************************************************************************)
ProbePaths(c) ==
  /\ place[c] = "probe"
  /\ progress' = [progress EXCEPT ![c].present = {f \in paths[c] : main[f] # Absent}]
  /\ Proceed(c, "loose")
  /\ UNCHANGED <<branches, tree, op, paths, counters, history>>

\* Files git does not track are to be removed, even those main has.
ListLoose(c) ==
  /\ place[c] = "loose"
  /\ progress' = [progress EXCEPT ![c].remove =
       (paths[c] \ progress[c].present)
         \union {f \in progress[c].present : ~Tracked(f) /\ work[f] # Absent}]
  /\ Proceed(c, "checkout")
  /\ UNCHANGED <<branches, tree, op, paths, counters, history>>

CheckoutPaths(c) ==
  LET fs == progress[c].present IN
  /\ place[c] = "checkout"
  /\ \/ /\ \A f \in fs : main[f] # Absent
        /\ index' = Over(index, fs, main) /\ work' = Over(work, fs, main)
        /\ unmerged' = unmerged \ fs
        /\ Unexpected(fs)
        /\ exposed' = IF mergeHead THEN exposed \union fs ELSE exposed
        /\ Continue(c, "remove")
     \/ /\ \E f \in fs : main[f] = Absent
        /\ Return(c) /\ UNCHANGED <<index, work, unmerged, expected, exposed>>
  /\ UNCHANGED <<branches, head, mergeHead, counters, spoiled>>

\* A faulty variant: only the files that were checked out are committed.
RemoveUncommitted(c) ==
  LET kept == progress[c].present IN
  /\ place[c] = "remove"
  /\ work' = Over(work, progress[c].remove, [f \in File |-> Absent])
  /\ Unexpected(progress[c].remove)
  /\ \/ kept # {} /\ paths' = [paths EXCEPT ![c] = kept] /\ Proceed(c, "add") /\ UNCHANGED <<op, progress>>
     \/ kept = {} /\ Return(c)
  /\ UNCHANGED <<branches, head, index, mergeHead, unmerged, counters, exposed, spoiled>>

\* What a call has put on disk and is going to commit.
Saved(c) == IF place[c] \in {"add", "staged", "commit"} THEN paths[c] ELSE progress[c].written

\* Of the files main has not, only those of the last commit are committed.
RemovePaths(c) ==
  LET kept == progress[c].present \union {f \in paths[c] : head[f] # Absent} IN
  /\ place[c] = "remove"
  /\ work' = Over(work, progress[c].remove, [f \in File |-> Absent])
  /\ Unexpected(progress[c].remove)
  /\ exposed' = IF mergeHead THEN exposed \union progress[c].remove ELSE exposed
  /\ \/ /\ kept # {} /\ paths' = [paths EXCEPT ![c] = kept]
        /\ Proceed(c, "add") /\ UNCHANGED <<op, progress>>
     \/ kept = {} /\ Return(c)
  /\ spoiled' = (spoiled \/ \E d \in Caller \ {c} :
       Saved(d) \intersect progress[c].remove # {})
  /\ UNCHANGED <<branches, head, index, mergeHead, unmerged, counters>>

(***************************************************************************)
(* discardDraft: git reset --hard main, which also ends a merge.  A file   *)
(* git does not track stays.                                               *)
(***************************************************************************)
discardDraft(c) ==
  /\ place[c] = "reset"
  /\ head' = main /\ index' = main
  /\ work' = [f \in File |->
       IF main[f] = Absent /\ head[f] = Absent /\ ~Tracked(f) THEN work[f] ELSE main[f]]
  /\ ancestor' = main /\ ahead' = FALSE /\ behind' = FALSE
  /\ mergeHead' = FALSE /\ unmerged' = {}
  /\ Unexpected(File) /\ exposed' = {}
  /\ Return(c)
  /\ UNCHANGED <<main, counters, spoiled>>

(***************************************************************************)
(* syncDraft                                                               *)
(***************************************************************************)
\* git status --porcelain prints nothing.
Clean == unmerged = {} /\ index = head /\ work = index

CheckDraft(c) ==
  /\ place[c] = "status"
  /\ (Clean /\ Continue(c, "count")) \/ (~Clean /\ Return(c))
  /\ UNCHANGED <<branches, tree, counters, history>>

CountCommits(c) ==
  /\ place[c] = "count"
  /\ \/ ~behind /\ Return(c)
     \/ behind /\ ~ahead /\ Continue(c, "forward")
     \/ behind /\ ahead /\ op[c] = "sync" /\ Continue(c, "merge")
     \/ behind /\ ahead /\ op[c] # "sync" /\ Return(c)
  /\ UNCHANGED <<branches, tree, counters, history>>

Conflicts(ours, theirs) ==
  {f \in File : ours[f] # ancestor[f] /\ theirs[f] # ancestor[f] /\ ours[f] # theirs[f]}

Combined(ours, theirs) == [f \in File |-> IF ours[f] = ancestor[f] THEN theirs[f] ELSE ours[f]]

\* Files get other bytes from main; what was saved there is in the branch, and
\* main has something newer.
TakeFromMain(fs) == Unexpected({f \in fs : expected[f] = head[f]})

\* git merge --ff-only main, which keeps what is staged or on disk elsewhere.
FastForward(c) ==
  LET moved == {f \in File : main[f] # head[f]}
      clean == {f \in moved : index[f] = head[f] /\ work[f] = index[f]}
  IN /\ place[c] = "forward"
     /\ \/ /\ ~ahead /\ ~mergeHead
           /\ \A f \in moved \ clean : index[f] = main[f]
           /\ head' = main /\ index' = Over(index, moved, main) /\ work' = Over(work, clean, main)
           /\ ancestor' = main /\ behind' = FALSE
           /\ TakeFromMain(moved)
        \/ /\ ahead \/ mergeHead \/ \E f \in moved \ clean : index[f] # main[f]
           /\ UNCHANGED <<head, index, work, ancestor, behind, expected>>
     /\ Return(c)
     /\ UNCHANGED <<main, ahead, mergeHead, unmerged, counters, exposed, spoiled>>

\* git merge --no-ff main.  It does not start over a staged change, over an
\* unfinished merge, or when a file it would write differs from the index.
MayMerge ==
  /\ ~mergeHead /\ index = head
  /\ \A f \in File : work[f] # index[f] =>
       Combined(head, main)[f] = head[f] /\ f \notin Conflicts(head, main)

\* A file removed on one side is left as the other side has it.
Conflicted(f) == IF head[f] = Absent THEN main[f] ELSE IF main[f] = Absent THEN head[f] ELSE Markers

MergeMain(c) ==
  LET conflicts == Conflicts(head, main)
      merged    == Combined(head, main)
      taken     == {f \in File \ conflicts : merged[f] # head[f]}
  IN /\ place[c] = "merge"
     /\ \/ /\ ~behind \/ ~MayMerge
           /\ IF behind THEN Continue(c, "abort") ELSE Return(c)
           /\ UNCHANGED <<branches, tree, expected>>
        \/ /\ behind /\ MayMerge /\ conflicts = {}
           /\ head' = merged /\ index' = merged /\ work' = Over(work, taken, merged)
           /\ ancestor' = main /\ ahead' = TRUE /\ behind' = FALSE
           /\ TakeFromMain(taken)
           /\ Return(c)
           /\ UNCHANGED <<main, mergeHead, unmerged>>
        \/ /\ behind /\ MayMerge /\ conflicts # {}
           /\ mergeHead' = TRUE /\ unmerged' = conflicts
           /\ index' = Over(index, taken, merged)
           /\ work' = Over(Over(work, taken, merged), conflicts, [f \in File |-> Conflicted(f)])
           /\ Continue(c, "abort")
           /\ UNCHANGED <<branches, head, expected>>
     /\ UNCHANGED <<counters, exposed, spoiled>>

\* A faulty variant: reset --hard.
AbortByReset(c) ==
  /\ place[c] = "abort"
  /\ index' = head /\ work' = head
  /\ mergeHead' = FALSE /\ unmerged' = {}
  /\ Return(c)
  /\ UNCHANGED <<branches, head, counters, history>>

\* git merge --abort puts back the files in conflict and those that are staged,
\* keeps files that differ from the index alone, and refuses when a file does both.
\* It ends the merge of another call as well.
EndMerge(c) ==
  LET staged  == {f \in File \ unmerged : index[f] # head[f]}
      refused == ~mergeHead \/ \E f \in staged : work[f] # index[f]
  IN /\ place[c] = "abort"
     /\ \/ refused /\ UNCHANGED <<index, work, mergeHead, unmerged>>
        \/ /\ ~refused
           /\ index' = head /\ work' = Over(work, staged \union unmerged, head)
           /\ mergeHead' = FALSE /\ unmerged' = {}
     /\ Return(c)
     /\ UNCHANGED <<branches, head, counters, history>>

(***************************************************************************)
(* handlePromote: what is committed is merged into main, then the draft is *)
(* fast-forwarded.                                                         *)
(***************************************************************************)
promoteDraft(c) ==
  /\ place[c] = "promote"
  /\ \/ /\ ahead /\ Conflicts(main, head) = {}
        /\ main' = Combined(main, head)
        /\ ancestor' = head /\ ahead' = FALSE /\ behind' = TRUE
        /\ Continue(c, "status")
     \/ /\ ~ahead \/ Conflicts(main, head) # {}
        /\ Return(c) /\ UNCHANGED branches
  /\ UNCHANGED <<tree, counters, history>>

(***************************************************************************)
(* The environment                                                         *)
(***************************************************************************)
\* Another draft is published.
MainMoves(f) ==
  /\ mains < MaxMains /\ mains' = mains + 1
  /\ \E bytes \in NewBytes(f) \union {Absent} :
       main[f] # bytes /\ main' = [main EXCEPT ![f] = bytes]
  /\ behind' = TRUE
  /\ UNCHANGED <<ancestor, ahead, tree, place, op, paths, progress, calls, failures, history>>

\* A worker dies, or a git command fails: a merge that fails is still aborted.
CallFails(c) ==
  /\ place[c] # "idle" /\ failures < MaxFailures /\ failures' = failures + 1
  /\ Return(c) \/ (place[c] = "merge" /\ Continue(c, "abort"))
  /\ UNCHANGED <<branches, tree, mains, calls, history>>

Step(c) ==
  \/ writeDecodedSources(c) \/ AddPaths(c) \/ hasStagedChanges(c) \/ CommitPaths(c)
  \/ ProbePaths(c) \/ ListLoose(c) \/ CheckoutPaths(c) \/ RemovePaths(c)
  \/ discardDraft(c) \/ promoteDraft(c)
  \/ CheckDraft(c) \/ CountCommits(c) \/ FastForward(c) \/ MergeMain(c) \/ EndMerge(c)

DraftNext ==
  \/ \E c \in Caller : Call(c) \/ Step(c) \/ CallFails(c)
  \/ \E f \in File : MainMoves(f)

DraftSpec == DraftInit /\ [][DraftNext]_draftVars

(***************************************************************************)
(* Properties                                                              *)
(***************************************************************************)
\* What a save wrote is on disk, or in the commit under an unfinished merge,
\* until another save, a restore, a discard or a newer main replaces it, unless
\* the save came into an unfinished merge.
SavesAreKept ==
  \A f \in File : expected[f] # Markers /\ f \notin exposed =>
    work[f] = expected[f] \/ (mergeHead /\ head[f] = expected[f])

\* When no call is in flight everything saved is committed and no merge is
\* unfinished, unless a command failed, a save or a restore came into an
\* unfinished merge, a restore removed a file under its save, or a save deletes
\* a file that is nowhere, which keeps git add from adding the others.
RestIsClean ==
  (\A c \in Caller : place[c] = "idle") => (Clean /\ ~mergeHead) \/ failures > 0 \/ exposed # {} \/ spoiled
=============================================================================
