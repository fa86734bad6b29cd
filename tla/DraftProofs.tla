----------------------------- MODULE DraftProofs -----------------------------
(***************************************************************************)
(* Proofs about a draft: its worktree and its branch (DraftGit), then its  *)
(* publication and the builds after it (PromoteRelease, RebuildOnSave).    *)
(* They hold for any files, calls and failures, and for any number of      *)
(* workers, projects, requests, pings, jobs, writes and restarts.  The two *)
(* specifications share no variable and no theorem needs both.             *)
(*                                                                         *)
(* SInv is about what was saved and says what a command may overwrite;     *)
(* RInv adds who will stage, commit or abort whatever a call leaves        *)
(* behind.  PInv is about publications and never looks at a build; BInv is *)
(* about the builds and knows publications only as steps that add a write. *)
(***************************************************************************)
EXTENDS DraftGit, PromoteRelease, TLAPS

\* What a file can hold, and the shapes of trees and calls.
Bytes == Nat \union {Absent, Markers}

Types ==
  /\ main \in [File -> Bytes] /\ ancestor \in [File -> Bytes]
  /\ head \in [File -> Bytes] /\ index \in [File -> Bytes] /\ work \in [File -> Bytes]
  /\ expected \in [File -> Bytes]
  /\ mergeHead \in BOOLEAN /\ spoiled \in BOOLEAN
  /\ unmerged \subseteq File /\ exposed \subseteq File
  /\ place \in [Caller -> {"idle", "write", "add", "staged", "commit", "probe", "loose", "checkout",
                        "remove", "reset", "status", "count", "forward", "merge", "abort",
                        "promote"}]
  /\ paths \in [Caller -> SUBSET File]
  /\ progress \in [Caller -> [written : SUBSET File, present : SUBSET File,
                                remove : SUBSET File]]
  /\ {mains, failures} \subseteq Nat
  /\ ~mergeHead => unmerged = {}

\* What was saved and may not be lost.
Due(f) == expected[f] # Markers /\ f \notin exposed

\* Outside a merge it is on disk.  In a merge it is in the last commit if the
\* merge has touched the file, and on disk otherwise; that is what an abort needs.
Kept ==
  \A f \in File : Due(f) =>
    /\ ~mergeHead => work[f] = expected[f]
    /\ mergeHead => IF f \in unmerged \/ index[f] # head[f]
                    THEN head[f] = expected[f] ELSE work[f] = expected[f]

SInv == Types /\ Kept

\* A save has written, and a restore names, only files of its call.
Named ==
  \A c \in Caller :
    /\ progress[c].written \subseteq paths[c]
    /\ place[c] # "write" => progress[c].written = {}
    /\ progress[c].present \subseteq paths[c]
    /\ place[c] = "idle" => progress[c].present = {}
    /\ place[c] \in {"checkout", "remove"} => progress[c].remove \subseteq paths[c]

\* A call that will stage the file, or commit it.
WillAdd(c, f) ==
  \/ place[c] = "write" /\ f \in progress[c].written
  \/ place[c] = "add" /\ f \in paths[c]
  \/ place[c] = "remove" /\ f \in progress[c].present
WillCommit(c, f) ==
  \/ WillAdd(c, f)
  \/ place[c] \in {"staged", "commit"} /\ f \in paths[c]

\* A file that differs from the index, but for an unfinished merge, is of a call
\* that will stage it; so is a file that is not tracked, exposed or not.
Added ==
  /\ \A f \in File \ (exposed \union unmerged) :
       work[f] # index[f] => \E c \in Caller : WillAdd(c, f)
  /\ \A f \in File \ unmerged :
       work[f] # Absent /\ index[f] = Absent => \E c \in Caller : WillAdd(c, f)

\* What is staged is of a call that will commit it; in a merge it is on disk as
\* it is staged, so that the abort is not refused, and somebody will abort.
Committed ==
  ~mergeHead => \A f \in File \ exposed :
    index[f] # head[f] => \E c \in Caller : WillCommit(c, f)

Abortable ==
  mergeHead => /\ \A f \in File \ (exposed \union unmerged) : index[f] # head[f] => work[f] = index[f]
               /\ exposed # {} \/ \E c \in Caller : place[c] = "abort"

Smooth == failures = 0 /\ ~spoiled

Rest == Added /\ Committed /\ Abortable

RInv == SInv /\ Named /\ (Smooth => Rest)

-----------------------------------------------------------------------------
\* What a command leaves is a tree, file by file.
LEMMA OverIs ==
  ASSUME NEW t, NEW fs, NEW u, t \in [File -> Bytes], \A f \in File : f \in fs => u[f] \in Bytes
  PROVE  /\ Over(t, fs, u) \in [File -> Bytes]
         /\ \A f \in File : Over(t, fs, u)[f] = IF f \in fs THEN u[f] ELSE t[f]
BY DEF Over

LEMMA UnexpectedIs ==
  ASSUME NEW fs, expected \in [File -> Bytes], Unexpected(fs)
  PROVE  /\ expected' \in [File -> Bytes]
         /\ \A f \in File : expected'[f] = IF f \in fs THEN Markers ELSE expected[f]
BY DEF Unexpected, Bytes

LEMMA MergedIs ==
  ASSUME Types, NEW ours \in [File -> Bytes], NEW theirs \in [File -> Bytes]
  PROVE  Combined(ours, theirs) \in [File -> Bytes]
BY DEF Combined, Types

\* Where a call is, and what it is about.
Callers ==
  /\ place' \in [Caller -> {"idle", "write", "add", "staged", "commit", "probe", "loose", "checkout",
                           "remove", "reset", "status", "count", "forward", "merge", "abort",
                           "promote"}]
  /\ paths' \in [Caller -> SUBSET File]
  /\ progress' \in [Caller -> [written : SUBSET File, present : SUBSET File,
                                 remove : SUBSET File]]

LEMMA ReturnIs ==
  ASSUME Types, NEW c \in Caller, Return(c)
  PROVE  Callers
BY DEF Return, Proceed, Types, Callers, NoFiles

LEMMA ContinueIs ==
  ASSUME Types, NEW c \in Caller, NEW l,
         l \in {"add", "staged", "commit", "remove", "status", "count", "forward", "merge", "abort"},
         Continue(c, l)
  PROVE  Callers
BY DEF Continue, Proceed, Types, Callers

-----------------------------------------------------------------------------
\* Steps that leave the trees and the history alone.
Quiet == UNCHANGED <<tree, expected, exposed, spoiled>>

LEMMA QuietKeeps ==
  ASSUME SInv, Quiet, Callers, main' \in [File -> Bytes], ancestor' \in [File -> Bytes],
         {mains', failures'} \subseteq Nat
  PROVE  SInv'
<1>1. Types'
  BY DEF SInv, Types, Quiet, tree, Callers
<1>2. Kept'
  BY DEF SInv, Kept, Due, Quiet, tree
<1> QED
  BY <1>1, <1>2 DEF SInv

LEMMA CallKeeps ==
  ASSUME DraftAssumption, SInv, NEW c \in Caller, Call(c)
  PROVE  Quiet /\ SInv'
<1>1. ASSUME NEW o, NEW fs, fs \in SUBSET File,
             NEW l, l \in {"write", "probe", "status", "reset", "promote"}, Begin(c, o, fs, l)
      PROVE  Quiet /\ SInv'
  <2>1. Quiet /\ UNCHANGED <<main, ancestor, mains, failures>>
    BY <1>1 DEF Begin, Quiet, history, branches
  <2>2. Callers
    BY <1>1 DEF Begin, Proceed, Callers, SInv, Types
  <2> QED
    BY <2>1, <2>2, QuietKeeps DEF SInv, Types
<1>2. \A fs \in Writes : fs \in SUBSET File
  BY DEF DraftAssumption
<1> QED
  BY <1>1, <1>2 DEF Call

LEMMA QuietSteps ==
  ASSUME SInv, NEW c \in Caller,
         \/ hasStagedChanges(c) \/ ProbePaths(c) \/ ListLoose(c) \/ promoteDraft(c)
         \/ CheckDraft(c) \/ CountCommits(c) \/ CallFails(c)
  PROVE  Quiet /\ SInv'
<1>t. Types
  BY DEF SInv
<1>1. CASE hasStagedChanges(c) \/ CheckDraft(c) \/ CountCommits(c)
  <2>1. Quiet /\ UNCHANGED <<main, ancestor, mains, failures>>
    BY <1>1 DEF hasStagedChanges, CheckDraft, CountCommits, Quiet, history, branches, counters
  <2>2. Return(c) \/ \E l \in {"commit", "count", "forward", "merge"} : Continue(c, l)
    BY <1>1 DEF hasStagedChanges, CheckDraft, CountCommits
  <2>3. Callers
    BY <1>t, <2>2, ReturnIs, ContinueIs
  <2> QED
    BY <1>t, <2>1, <2>3, QuietKeeps DEF Types
<1>2. CASE ProbePaths(c)
  <2>1. Quiet /\ UNCHANGED <<main, ancestor, mains, failures>>
    BY <1>2 DEF ProbePaths, Quiet, history, branches, counters
  <2>2. Callers
    BY <1>t, <1>2 DEF ProbePaths, Proceed, Types, Callers
  <2> QED
    BY <1>t, <2>1, <2>2, QuietKeeps DEF Types
<1>3. CASE ListLoose(c)
  <2>1. Quiet /\ UNCHANGED <<main, ancestor, mains, failures>>
    BY <1>3 DEF ListLoose, Quiet, history, branches, counters
  <2>2. Callers
    BY <1>t, <1>3 DEF ListLoose, Proceed, Types, Callers
  <2> QED
    BY <1>t, <2>1, <2>2, QuietKeeps DEF Types
<1>4. CASE promoteDraft(c)
  <2>1. Quiet /\ UNCHANGED <<mains, failures>>
    BY <1>4 DEF promoteDraft, Quiet, history, counters
  <2>2. main' \in [File -> Bytes] /\ ancestor' \in [File -> Bytes]
    BY <1>t, <1>4, MergedIs DEF promoteDraft, branches, Types
  <2>3. Callers
    BY <1>t, <1>4, ReturnIs, ContinueIs DEF promoteDraft
  <2> QED
    BY <1>t, <2>1, <2>2, <2>3, QuietKeeps DEF Types
<1>5. CASE CallFails(c)
  <2>1. Quiet /\ UNCHANGED <<main, ancestor, mains>> /\ failures' \in Nat
    BY <1>t, <1>5 DEF CallFails, Quiet, history, branches, Types
  <2>2. Callers
    BY <1>t, <1>5, ReturnIs, ContinueIs DEF CallFails
  <2> QED
    BY <1>t, <2>1, <2>2, QuietKeeps DEF Types
<1> QED
  BY <1>1, <1>2, <1>3, <1>4, <1>5

LEMMA MainMovesKeeps ==
  ASSUME DraftAssumption, SInv, NEW f \in File, MainMoves(f)
  PROVE  Quiet /\ SInv'
<1>1. Quiet /\ UNCHANGED <<ancestor, place, paths, progress, failures>>
  BY DEF MainMoves, Quiet, history
<1>2. mains' \in Nat
  BY DEF MainMoves, SInv, Types
<1>3. PICK bytes \in NewBytes(f) \union {Absent} : main' = [main EXCEPT ![f] = bytes]
  BY DEF MainMoves
<1>4. bytes \in Bytes
  BY <1>3 DEF NewBytes, Bytes
<1>5. main' \in [File -> Bytes]
  BY <1>3, <1>4 DEF SInv, Types
<1> QED
  BY <1>1, <1>2, <1>5, QuietKeeps DEF SInv, Types, Callers

-----------------------------------------------------------------------------
(* Steps that change files.                                                  *)

LEMMA WriteKeeps ==
  ASSUME SInv, NEW c \in Caller, writeDecodedSources(c)
  PROVE  SInv'
<1>t. Types
  BY DEF SInv
<1>1. PICK f \in paths[c] \ progress[c].written, bytes \in Nat \union {Absent} :
        /\ work' = [work EXCEPT ![f] = bytes] /\ expected' = [expected EXCEPT ![f] = bytes]
        /\ exposed' = IF mergeHead THEN exposed \union {f} ELSE exposed \ {f}
        /\ \E l \in {"add", "write"}, fs \in {{}, progress[c].written \union {f}} :
             Proceed(c, l) /\ progress' = [progress EXCEPT ![c].written = fs]
  <2>1. PICK f \in paths[c] \ progress[c].written : \E bytes \in NewBytes(f) \union {Absent} :
          /\ work' = [work EXCEPT ![f] = bytes] /\ expected' = [expected EXCEPT ![f] = bytes]
          /\ exposed' = IF mergeHead THEN exposed \union {f} ELSE exposed \ {f}
          /\ \E l \in {"add", "write"} : Proceed(c, l)
          /\ \E fs \in {{}, progress[c].written \union {f}} :
               progress' = [progress EXCEPT ![c].written = fs]
    <3>1. \A fs : [progress EXCEPT ![c].written = @ \union fs]
                    = [progress EXCEPT ![c].written = progress[c].written \union fs]
      OBVIOUS
    <3> QED
      BY <3>1, Zenon DEF writeDecodedSources
  <2>2. \A g : NewBytes(g) \subseteq Nat
    BY DEF NewBytes
  <2> QED
    BY <2>1, <2>2
<1>2. UNCHANGED <<main, ancestor, head, index, mergeHead, unmerged, paths, mains, failures, spoiled>>
  BY DEF writeDecodedSources, branches
<1>3. f \in File /\ bytes \in Bytes
  BY <1>t, <1>1 DEF Types, Bytes
<1>4. /\ work' \in [File -> Bytes] /\ expected' \in [File -> Bytes]
      /\ work'[f] = bytes /\ expected'[f] = bytes
      /\ \A g \in File : g # f => work'[g] = work[g] /\ expected'[g] = expected[g]
  BY <1>t, <1>1, <1>3 DEF Types
<1>5. Callers
  <2>1. PICK l \in {"add", "write"}, fs \in {{}, progress[c].written \union {f}} :
          place' = [place EXCEPT ![c] = l] /\ progress' = [progress EXCEPT ![c].written = fs]
    BY <1>1 DEF Proceed
  <2>2. fs \in SUBSET File
    BY <1>t, <1>3, <2>1 DEF Types
  <2> QED
    BY <1>t, <1>2, <2>1, <2>2 DEF Types, Callers
<1>6. Types'
  BY <1>t, <1>1, <1>2, <1>3, <1>4, <1>5 DEF Types, Callers
<1>7. Kept'
  BY <1>1, <1>2, <1>4 DEF SInv, Kept, Due
<1> QED
  BY <1>6, <1>7 DEF SInv

LEMMA AddKeeps ==
  ASSUME SInv, NEW c \in Caller, AddPaths(c)
  PROVE  SInv'
<1>t. Types
  BY DEF SInv
<1>1. UNCHANGED <<main, ancestor, head, work, mergeHead, mains, failures, expected>>
  BY DEF AddPaths, branches, counters
<1>2. Callers
  BY <1>t, ContinueIs, ReturnIs DEF AddPaths
<1>3. CASE /\ index' = Over(index, paths[c], work) /\ unmerged' = unmerged \ paths[c]
           /\ exposed' = IF mergeHead THEN exposed \union paths[c] ELSE exposed
           /\ UNCHANGED spoiled
  <2>1. /\ index' \in [File -> Bytes]
        /\ \A f \in File : index'[f] = IF f \in paths[c] THEN work[f] ELSE index[f]
    BY <1>t, <1>3, OverIs DEF Types
  <2>2. Types'
    BY <1>t, <1>1, <1>2, <1>3, <2>1 DEF Types, Callers
  <2>3. Kept'
    BY <1>t, <1>1, <1>3, <2>1 DEF SInv, Kept, Due, Types
  <2> QED
    BY <2>2, <2>3 DEF SInv
<1>4. CASE spoiled' = TRUE /\ UNCHANGED <<index, unmerged, exposed>>
  <2>1. Types'
    BY <1>t, <1>1, <1>2, <1>4 DEF Types, Callers
  <2>2. Kept'
    BY <1>1, <1>4 DEF SInv, Kept, Due
  <2> QED
    BY <2>1, <2>2 DEF SInv
<1> QED
  BY <1>3, <1>4 DEF AddPaths

LEMMA CommitKeeps ==
  ASSUME SInv, NEW c \in Caller, CommitPaths(c)
  PROVE  SInv'
<1>t. Types
  BY DEF SInv
<1>1. /\ UNCHANGED <<main, ancestor, work, mergeHead, unmerged, mains, failures, expected, exposed>>
      /\ spoiled' \in BOOLEAN
  BY <1>t DEF CommitPaths, counters, Types
<1>2. Callers
  BY <1>t, ReturnIs DEF CommitPaths
<1>3. CASE /\ ~mergeHead
           /\ head' = Over(head, paths[c], work) /\ index' = Over(index, paths[c], work)
  <2>1. head' \in [File -> Bytes] /\ index' \in [File -> Bytes]
    BY <1>t, <1>3, OverIs DEF Types
  <2>2. Types'
    BY <1>t, <1>1, <1>2, <2>1 DEF Types, Callers
  <2>3. Kept'
    BY <1>1, <1>3 DEF SInv, Kept, Due
  <2> QED
    BY <2>2, <2>3 DEF SInv
<1>4. CASE UNCHANGED <<head, index>>
  <2>1. Types'
    BY <1>t, <1>1, <1>2, <1>4 DEF Types, Callers
  <2>2. Kept'
    BY <1>1, <1>4 DEF SInv, Kept, Due
  <2> QED
    BY <2>1, <2>2 DEF SInv
<1> QED
  BY <1>3, <1>4 DEF CommitPaths, MayCommit

LEMMA CheckoutKeeps ==
  ASSUME SInv, NEW c \in Caller, CheckoutPaths(c)
  PROVE  SInv'
<1> DEFINE fs == progress[c].present
<1>t. Types
  BY DEF SInv
<1>1. UNCHANGED <<main, ancestor, head, mergeHead, mains, failures, spoiled>>
  BY DEF CheckoutPaths, branches, counters
<1>2. Callers
  BY <1>t, ContinueIs, ReturnIs DEF CheckoutPaths
<1>3. CASE /\ index' = Over(index, fs, main) /\ work' = Over(work, fs, main)
           /\ unmerged' = unmerged \ fs /\ Unexpected(fs)
           /\ exposed' = IF mergeHead THEN exposed \union fs ELSE exposed
  <2>1. /\ index' \in [File -> Bytes] /\ work' \in [File -> Bytes] /\ expected' \in [File -> Bytes]
        /\ \A f \in File : index'[f] = IF f \in fs THEN main[f] ELSE index[f]
        /\ \A f \in File : work'[f] = IF f \in fs THEN main[f] ELSE work[f]
        /\ \A f \in File : expected'[f] = IF f \in fs THEN Markers ELSE expected[f]
    BY <1>t, <1>3, OverIs, UnexpectedIs DEF Types
  <2>2. Types'
    BY <1>t, <1>1, <1>2, <1>3, <2>1 DEF Types, Callers
  <2>3. Kept'
    BY <1>1, <1>3, <2>1 DEF SInv, Kept, Due
  <2> QED
    BY <2>2, <2>3 DEF SInv
<1>4. CASE UNCHANGED <<index, work, unmerged, expected, exposed>>
  <2>1. Types'
    BY <1>t, <1>1, <1>2, <1>4 DEF Types, Callers
  <2>2. Kept'
    BY <1>1, <1>4 DEF SInv, Kept, Due
  <2> QED
    BY <2>1, <2>2 DEF SInv
<1> QED
  BY <1>3, <1>4 DEF CheckoutPaths

LEMMA RemoveKeeps ==
  ASSUME SInv, NEW c \in Caller, RemovePaths(c)
  PROVE  SInv'
<1> DEFINE fs == progress[c].remove
           kept == progress[c].present \union {f \in paths[c] : head[f] # Absent}
<1>t. Types
  BY DEF SInv
<1>1. /\ work' = Over(work, fs, [f \in File |-> Absent]) /\ Unexpected(fs)
      /\ exposed' = IF mergeHead THEN exposed \union fs ELSE exposed
      /\ UNCHANGED <<main, ancestor, head, index, mergeHead, unmerged, mains, failures>>
      /\ spoiled' \in BOOLEAN
  BY <1>t DEF RemovePaths, branches, counters, Types
<1>2. Callers
  <2>1. CASE paths' = [paths EXCEPT ![c] = kept] /\ Proceed(c, "add") /\ UNCHANGED progress
    <3>1. kept \in SUBSET File
      BY <1>t DEF Types
    <3> QED
      BY <1>t, <2>1, <3>1 DEF Proceed, Types, Callers
  <2>2. CASE Return(c)
    BY <1>t, <2>2, ReturnIs
  <2> QED
    BY <2>1, <2>2 DEF RemovePaths
<1>3. /\ work' \in [File -> Bytes] /\ expected' \in [File -> Bytes]
      /\ \A f \in File : work'[f] = IF f \in fs THEN Absent ELSE work[f]
      /\ \A f \in File : expected'[f] = IF f \in fs THEN Markers ELSE expected[f]
  BY <1>t, <1>1, OverIs, UnexpectedIs DEF Types, Bytes
<1>4. fs \subseteq File
  BY <1>t DEF Types
<1>5. Types'
  BY <1>t, <1>1, <1>2, <1>3, <1>4 DEF Types, Callers
<1>6. Kept'
  BY <1>1, <1>3 DEF SInv, Kept, Due
<1> QED
  BY <1>5, <1>6 DEF SInv

LEMMA DiscardKeeps ==
  ASSUME SInv, NEW c \in Caller, discardDraft(c)
  PROVE  SInv'
<1>t. Types
  BY DEF SInv
<1>1. /\ head' = main /\ index' = main /\ ancestor' = main
      /\ work' = [f \in File |->
           IF main[f] = Absent /\ head[f] = Absent /\ ~Tracked(f) THEN work[f] ELSE main[f]]
      /\ mergeHead' = FALSE /\ unmerged' = {} /\ Unexpected(File) /\ exposed' = {}
      /\ UNCHANGED <<main, mains, failures, spoiled>>
  BY DEF discardDraft, counters
<1>2. Callers
  BY <1>t, ReturnIs DEF discardDraft
<1>3. work' \in [File -> Bytes]
  BY <1>t, <1>1 DEF Types
<1>4. expected' \in [File -> Bytes] /\ \A f \in File : expected'[f] = Markers
  BY <1>t, <1>1, UnexpectedIs DEF Types
<1>5. Types'
  BY <1>t, <1>1, <1>2, <1>3, <1>4 DEF Types, Callers
<1>6. Kept'
  BY <1>4 DEF Kept, Due
<1> QED
  BY <1>5, <1>6 DEF SInv

LEMMA ForwardKeeps ==
  ASSUME SInv, NEW c \in Caller, FastForward(c)
  PROVE  SInv'
<1> DEFINE moved == {f \in File : main[f] # head[f]}
           clean == {f \in moved : index[f] = head[f] /\ work[f] = index[f]}
           old   == {f \in moved : expected[f] = head[f]}
<1>t. Types
  BY DEF SInv
<1>1. UNCHANGED <<main, mergeHead, unmerged, mains, failures, exposed, spoiled>>
  BY DEF FastForward, counters
<1>2. Callers
  BY <1>t, ReturnIs DEF FastForward
<1>3. CASE /\ ~mergeHead
           /\ head' = main /\ index' = Over(index, moved, main) /\ work' = Over(work, clean, main)
           /\ ancestor' = main /\ TakeFromMain(moved)
  <2>1. /\ index' \in [File -> Bytes] /\ work' \in [File -> Bytes]
        /\ \A f \in File : work'[f] = IF f \in clean THEN main[f] ELSE work[f]
    <3>1. \A fs \in SUBSET File : \A t \in [File -> Bytes] :
            /\ Over(t, fs, main) \in [File -> Bytes]
            /\ \A f \in File : Over(t, fs, main)[f] = IF f \in fs THEN main[f] ELSE t[f]
      BY <1>t, OverIs DEF Types
    <3>2. moved \in SUBSET File /\ clean \in SUBSET File
      OBVIOUS
    <3>3. index \in [File -> Bytes] /\ work \in [File -> Bytes]
      BY <1>t DEF Types
    <3> QED
      BY <1>3, <3>1, <3>2, <3>3
  <2>2. /\ expected' \in [File -> Bytes]
        /\ \A f \in File : expected'[f] = IF f \in old THEN Markers ELSE expected[f]
    BY <1>t, <1>3, UnexpectedIs DEF Types, TakeFromMain
  <2>3. Types'
    BY <1>t, <1>1, <1>2, <1>3, <2>1, <2>2 DEF Types, Callers
  <2>4. Kept'
    <3>1. ASSUME NEW f \in File, Due(f)' PROVE work'[f] = expected'[f]
      <4>1. Due(f) /\ f \notin old /\ expected'[f] = expected[f]
        BY <1>1, <2>2, <3>1 DEF Due
      <4>2. work[f] = expected[f]
        BY <1>3, <4>1 DEF SInv, Kept
      <4>3. f \notin clean
        BY <4>1, <4>2
      <4> QED
        BY <2>1, <4>1, <4>2, <4>3
    <3> QED
      BY <1>1, <1>3, <3>1 DEF Kept
  <2> QED
    BY <2>3, <2>4 DEF SInv
<1>4. CASE UNCHANGED <<head, index, work, ancestor, expected>>
  <2>1. Types'
    BY <1>t, <1>1, <1>2, <1>4 DEF Types, Callers
  <2>2. Kept'
    BY <1>1, <1>4 DEF SInv, Kept, Due
  <2> QED
    BY <2>1, <2>2 DEF SInv
<1> QED
  BY <1>3, <1>4 DEF FastForward

\* The files a merge takes from main, and those it leaves in conflict.
conflicting == Conflicts(head, main)
combined == Combined(head, main)
takes == {f \in File \ conflicting : combined[f] # head[f]}

\* A merge that starts touches no file that differs from the last commit.
LEMMA MergeTouches ==
  ASSUME Types, MayMerge, NEW f \in File, f \in takes \union conflicting
  PROVE  work[f] = index[f] /\ index[f] = head[f]
BY DEF MayMerge, takes, conflicting, combined, Types

LEMMA MergeKeeps ==
  ASSUME SInv, NEW c \in Caller, MergeMain(c)
  PROVE  SInv'
<1>t. Types
  BY DEF SInv
<1>1. UNCHANGED <<main, mains, failures, exposed, spoiled>>
  BY DEF MergeMain, counters, branches
<1>2. Callers
  BY <1>t, ReturnIs, ContinueIs DEF MergeMain
<1>3. CASE UNCHANGED <<branches, tree, expected>>
  <2>1. UNCHANGED <<main, ancestor, head, index, work, mergeHead, unmerged, expected>>
    BY <1>3 DEF branches, tree
  <2>2. Types'
    BY <1>t, <1>1, <1>2, <2>1 DEF Types, Callers
  <2>3. Kept'
    BY <1>1, <2>1 DEF SInv, Kept, Due
  <2> QED
    BY <2>2, <2>3 DEF SInv
<1>c. combined \in [File -> Bytes] /\ takes \subseteq File /\ conflicting \subseteq File
  BY <1>t, MergedIs DEF combined, takes, conflicting, Conflicts, Types
<1>4. CASE /\ MayMerge
           /\ head' = combined /\ index' = combined /\ work' = Over(work, takes, combined)
           /\ ancestor' = main /\ TakeFromMain(takes) /\ UNCHANGED <<mergeHead, unmerged>>
  <2>1. /\ work' \in [File -> Bytes]
        /\ \A f \in File : work'[f] = IF f \in takes THEN combined[f] ELSE work[f]
    BY <1>t, <1>c, <1>4, OverIs DEF Types
  <2>2. /\ expected' \in [File -> Bytes]
        /\ \A f \in File : expected'[f] =
             IF f \in takes /\ expected[f] = head[f] THEN Markers ELSE expected[f]
    BY <1>t, <1>4, UnexpectedIs DEF Types, TakeFromMain
  <2>3. Types'
    BY <1>t, <1>1, <1>2, <1>c, <1>4, <2>1, <2>2 DEF Types, Callers
  <2>4. Kept'
    <3>1. ~mergeHead
      BY <1>4 DEF MayMerge
    <3>2. ASSUME NEW f \in File, Due(f)' PROVE work'[f] = expected'[f]
      <4>1. Due(f) /\ ~(f \in takes /\ expected[f] = head[f]) /\ expected'[f] = expected[f]
        BY <1>1, <2>2, <3>2 DEF Due
      <4>2. work[f] = expected[f]
        BY <3>1, <4>1 DEF SInv, Kept
      <4>3. f \notin takes
        BY <1>t, <1>4, <4>1, <4>2, MergeTouches
      <4> QED
        BY <2>1, <4>1, <4>2, <4>3
    <3> QED
      BY <1>4, <3>1, <3>2 DEF Kept
  <2> QED
    BY <2>3, <2>4 DEF SInv
<1>5. CASE /\ MayMerge /\ mergeHead' = TRUE /\ unmerged' = conflicting
           /\ index' = Over(index, takes, combined)
           /\ work' = Over(Over(work, takes, combined), conflicting, [f \in File |-> Conflicted(f)])
           /\ UNCHANGED <<branches, head, expected>>
  <2>1. /\ index' \in [File -> Bytes]
        /\ \A f \in File : index'[f] = IF f \in takes THEN combined[f] ELSE index[f]
    BY <1>t, <1>c, <1>5, OverIs DEF Types
  <2>2. \A f \in File : [g \in File |-> Conflicted(g)][f] \in Bytes
    BY <1>t DEF Conflicted, Types, Bytes
  <2>3. /\ work' \in [File -> Bytes]
        /\ \A f \in File : f \notin takes \union conflicting => work'[f] = work[f]
        /\ \A f \in File : f \in takes \ conflicting => work'[f] = combined[f]
    <3>1. /\ Over(work, takes, combined) \in [File -> Bytes]
          /\ \A f \in File : Over(work, takes, combined)[f] =
               IF f \in takes THEN combined[f] ELSE work[f]
      BY <1>t, <1>c, OverIs DEF Types
    <3> QED
      BY <1>5, <2>2, <3>1, OverIs
  <2>4. Types'
    BY <1>t, <1>1, <1>2, <1>c, <1>5, <2>1, <2>3 DEF Types, Callers, branches
  <2>5. Kept'
    <3>1. ~mergeHead /\ index = head
      BY <1>5 DEF MayMerge
    <3>2. ASSUME NEW f \in File, Due(f)'
          PROVE IF f \in unmerged' \/ index'[f] # head'[f]
                THEN head'[f] = expected'[f] ELSE work'[f] = expected'[f]
      <4>1. Due(f) /\ work[f] = expected[f]
        BY <1>1, <1>5, <3>1, <3>2 DEF SInv, Kept, Due
      <4>2. CASE f \in takes \union conflicting
        <5>1. head[f] = expected[f]
          BY <1>t, <1>5, <4>1, <4>2, MergeTouches
        <5>2. f \in unmerged' \/ index'[f] # head'[f]
          BY <1>5, <2>1, <4>2 DEF takes
        <5> QED
          BY <1>5, <5>1, <5>2
      <4>3. CASE f \notin takes \union conflicting
        BY <1>5, <2>1, <2>3, <3>1, <4>1, <4>3
      <4> QED
        BY <4>2, <4>3
    <3> QED
      BY <1>5, <3>2 DEF Kept
  <2> QED
    BY <2>4, <2>5 DEF SInv
<1> QED
  BY <1>3, <1>4, <1>5 DEF MergeMain, takes, combined, conflicting

LEMMA AbortKeeps ==
  ASSUME SInv, NEW c \in Caller, EndMerge(c)
  PROVE  SInv'
<1> DEFINE staged == {f \in File \ unmerged : index[f] # head[f]}
<1>t. Types
  BY DEF SInv
<1>1. UNCHANGED <<main, ancestor, head, mains, failures, expected, exposed, spoiled>>
  BY DEF EndMerge, counters, branches, history
<1>2. Callers
  BY <1>t, ReturnIs DEF EndMerge
<1>3. CASE UNCHANGED <<index, work, mergeHead, unmerged>>
  <2>1. Types'
    BY <1>t, <1>1, <1>2, <1>3 DEF Types, Callers
  <2>2. Kept'
    BY <1>1, <1>3 DEF SInv, Kept, Due
  <2> QED
    BY <2>1, <2>2 DEF SInv
<1>4. CASE /\ mergeHead /\ index' = head /\ work' = Over(work, staged \union unmerged, head)
           /\ mergeHead' = FALSE /\ unmerged' = {}
  <2>1. /\ work' \in [File -> Bytes]
        /\ \A f \in File : work'[f] = IF f \in staged \union unmerged THEN head[f] ELSE work[f]
    BY <1>t, <1>4, OverIs DEF Types
  <2>2. Types'
    BY <1>t, <1>1, <1>2, <1>4, <2>1 DEF Types, Callers
  <2>3. Kept'
    <3>1. ASSUME NEW f \in File, Due(f)' PROVE work'[f] = expected'[f]
      BY <1>1, <1>4, <2>1, <3>1 DEF SInv, Kept, Due
    <3> QED
      BY <1>4, <3>1 DEF Kept
  <2> QED
    BY <2>2, <2>3 DEF SInv
<1> QED
  BY <1>3, <1>4 DEF EndMerge

LEMMA StepSInv == DraftAssumption /\ SInv /\ [DraftNext]_draftVars => SInv'
<1> SUFFICES ASSUME DraftAssumption, SInv, [DraftNext]_draftVars PROVE SInv'
  OBVIOUS
<1>1. ASSUME NEW c \in Caller, Step(c) PROVE SInv'
  BY <1>1, WriteKeeps, AddKeeps, CommitKeeps, QuietSteps, CheckoutKeeps, RemoveKeeps,
     DiscardKeeps, ForwardKeeps, MergeKeeps, AbortKeeps DEF Step
<1>2. CASE UNCHANGED draftVars
  <2>1. Quiet /\ UNCHANGED <<main, ancestor, place, paths, progress, mains, failures>>
    BY <1>2 DEF draftVars, Quiet, branches, counters, history
  <2> QED
    BY <2>1, QuietKeeps DEF SInv, Types, Callers
<1> QED
  BY <1>1, <1>2, CallKeeps, QuietSteps, MainMovesKeeps DEF DraftNext

LEMMA InitSInv == DraftInit => SInv
<1> SUFFICES ASSUME DraftInit PROVE SInv
  OBVIOUS
<1>1. Nothing \in [File -> Bytes]
  BY DEF Nothing, Bytes
<1>2. expected \in [File -> Bytes] /\ \A f \in File : expected[f] = Markers
  BY DEF DraftInit, Bytes
<1>3. Types
  <2>1. NoFiles \in [written : SUBSET File, present : SUBSET File, remove : SUBSET File]
    BY DEF NoFiles
  <2>2. /\ main = Nothing /\ ancestor = Nothing /\ head = Nothing /\ index = Nothing
        /\ work = Nothing /\ mergeHead = FALSE /\ spoiled = FALSE /\ unmerged = {} /\ exposed = {}
        /\ mains = 0 /\ failures = 0
    BY DEF DraftInit
  <2>3. place = [c \in Caller |-> "idle"] /\ paths = [c \in Caller |-> {}]
        /\ progress = [c \in Caller |-> NoFiles]
    BY DEF DraftInit
  <2>4. paths \in [Caller -> SUBSET File]
    BY <2>3
  <2>5. progress \in [Caller -> [written : SUBSET File, present : SUBSET File, remove : SUBSET File]]
    BY <2>1, <2>3
  <2>6. /\ main \in [File -> Bytes] /\ ancestor \in [File -> Bytes]
        /\ head \in [File -> Bytes] /\ index \in [File -> Bytes] /\ work \in [File -> Bytes]
    BY <1>1, <2>2
  <2>7. place \in [Caller -> {"idle", "write", "add", "staged", "commit", "probe", "loose", "checkout",
                        "remove", "reset", "status", "count", "forward", "merge", "abort",
                        "promote"}]
    BY <2>3
  <2>8. {mains, failures} \subseteq Nat /\ (~mergeHead => unmerged = {})
    BY <2>2
  <2>9. unmerged \subseteq File /\ exposed \subseteq File /\ mergeHead \in BOOLEAN /\ spoiled \in BOOLEAN
    BY <2>2
  <2> QED
    BY <1>2, <2>4, <2>5, <2>6, <2>7, <2>8, <2>9 DEF Types
<1>4. Kept
  BY <1>2 DEF Kept, Due
<1> QED
  BY <1>3, <1>4 DEF SInv

\* Whatever is saved and not replaced is on disk, or in the commit an abort goes
\* back to, in every reachable state.
THEOREM SavedInvariant == DraftSpec => []SInv
BY InitSInv, StepSInv, DraftAssumption, PTL DEF DraftSpec

\* writeDecodedSources and the git commands of all calls: no command of another
\* call loses what a save has answered for, for any files, calls and failures.
THEOREM SavesStay == DraftSpec => []SavesAreKept
<1>1. SInv => SavesAreKept
  BY DEF SInv, Kept, Due, SavesAreKept
<1> QED
  BY <1>1, SavedInvariant, PTL

-----------------------------------------------------------------------------
\* A step of one call leaves the others where they are.
OthersStay(c) ==
  \A d \in Caller \ {c} :
    place'[d] = place[d] /\ paths'[d] = paths[d] /\ progress'[d] = progress[d]

LEMMA OnesOwn ==
  ASSUME Types, NEW c \in Caller, Call(c) \/ Step(c) \/ CallFails(c)
  PROVE  OthersStay(c)
<1>1. ASSUME Return(c) PROVE OthersStay(c)
  BY <1>1 DEF Return, Proceed, OthersStay, Types
<1>2. ASSUME NEW l, Continue(c, l) PROVE OthersStay(c)
  BY <1>2 DEF Continue, Proceed, OthersStay, Types
<1>3. ASSUME NEW o, NEW fs, NEW l, Begin(c, o, fs, l) PROVE OthersStay(c)
  BY <1>3 DEF Begin, Proceed, OthersStay, Types
<1>4. ASSUME ProbePaths(c) \/ ListLoose(c) PROVE OthersStay(c)
  BY <1>4 DEF ProbePaths, ListLoose, Proceed, OthersStay, Types
<1>5. ASSUME RemovePaths(c) PROVE OthersStay(c)
  BY <1>1, <1>5 DEF RemovePaths, Proceed, OthersStay, Types
<1>6. CASE Call(c)
  BY <1>3, <1>6 DEF Call
<1>7. CASE CallFails(c)
  BY <1>1, <1>2, <1>7 DEF CallFails
<1>w. CASE writeDecodedSources(c)
  BY <1>w DEF writeDecodedSources, Proceed, OthersStay, Types
<1>8. CASE AddPaths(c) \/ hasStagedChanges(c) \/ CommitPaths(c) \/ CheckoutPaths(c)
           \/ discardDraft(c) \/ promoteDraft(c)
  BY <1>1, <1>2, <1>8 DEF AddPaths, hasStagedChanges, CommitPaths, CheckoutPaths, discardDraft,
     promoteDraft
<1>9. CASE CheckDraft(c) \/ CountCommits(c) \/ FastForward(c) \/ MergeMain(c) \/ EndMerge(c)
  BY <1>1, <1>2, <1>9 DEF CheckDraft, CountCommits, FastForward, MergeMain, EndMerge
<1> QED
  BY <1>4, <1>5, <1>6, <1>7, <1>8, <1>9, <1>w DEF Step

\* Only the call that steps can stop covering a file.
LEMMA OthersCover ==
  ASSUME NEW c \in Caller, OthersStay(c), NEW f \in File
  PROVE  /\ (\E d \in Caller : WillAdd(d, f)) =>
              WillAdd(c, f) \/ \E d \in Caller : WillAdd(d, f)'
         /\ (\E d \in Caller : WillCommit(d, f)) =>
              WillCommit(c, f) \/ \E d \in Caller : WillCommit(d, f)'
         /\ (\E d \in Caller : place[d] = "abort") =>
              place[c] = "abort" \/ \E d \in Caller : place'[d] = "abort"
<1>1. ASSUME NEW d \in Caller, d # c
      PROVE  /\ WillAdd(d, f) => WillAdd(d, f)'
             /\ WillCommit(d, f) => WillCommit(d, f)'
             /\ place[d] = "abort" => place'[d] = "abort"
  BY <1>1 DEF OthersStay, WillAdd, WillCommit
<1> QED
  BY <1>1

LEMMA OthersAbort ==
  ASSUME NEW c \in Caller, OthersStay(c), place[c] # "abort",
         exposed # {} \/ \E d \in Caller : place[d] = "abort", exposed # {} => exposed' # {}
  PROVE  exposed' # {} \/ \E d \in Caller : place'[d] = "abort"
BY DEF OthersStay

\* While files, index and commit stay as they are, a call may go on that covers
\* no file, or only such as need it no more.
LEMMA UncoveredKeeps ==
  ASSUME Rest, NEW c \in Caller, OthersStay(c), place[c] # "abort",
         UNCHANGED tree, UNCHANGED exposed,
         \A f \in File : ~WillAdd(c, f),
         \A f \in File : WillCommit(c, f) => WillCommit(c, f)' \/ mergeHead \/ f \in exposed \/ index[f] = head[f]
  PROVE  Rest'
<1>1. Added'
  BY OthersCover DEF Rest, Added, tree
<1>2. Committed'
  BY OthersCover DEF Rest, Committed, tree
<1>3. Abortable'
  BY OthersAbort DEF Rest, Abortable, tree
<1> QED
  BY <1>1, <1>2, <1>3 DEF Rest

-----------------------------------------------------------------------------
(* What each step leaves for others to stage, to commit and to abort.        *)

LEMMA WriteRests ==
  ASSUME SInv, Named, Rest, NEW c \in Caller, writeDecodedSources(c)
  PROVE  Rest'
<1>o. OthersStay(c)
  BY OnesOwn DEF SInv, Step
<1>1. place[c] = "write" /\ UNCHANGED <<head, index, mergeHead, unmerged, paths>>
  BY DEF writeDecodedSources
<1>2. PICK f \in paths[c] \ progress[c].written :
        /\ \A g \in File : g # f => work'[g] = work[g]
        /\ exposed' = IF mergeHead THEN exposed \union {f} ELSE exposed \ {f}
        /\ IF paths[c] \ progress[c].written = {f}
           THEN place'[c] = "add"
           ELSE place'[c] = "write" /\ progress'[c].written = progress[c].written \union {f}
  <2>1. PICK f \in paths[c] \ progress[c].written : \E bytes \in NewBytes(f) \union {Absent} :
          /\ work' = [work EXCEPT ![f] = bytes]
          /\ exposed' = IF mergeHead THEN exposed \union {f} ELSE exposed \ {f}
          /\ Proceed(c, IF paths[c] \ progress[c].written = {f} THEN "add" ELSE "write")
          /\ progress' = [progress EXCEPT ![c].written =
               IF paths[c] \ progress[c].written = {f} THEN {} ELSE @ \union {f}]
    BY DEF writeDecodedSources
  <2>2. \A g \in File : g # f => work'[g] = work[g]
    BY <2>1 DEF SInv, Types
  <2>3. place'[c] = IF paths[c] \ progress[c].written = {f} THEN "add" ELSE "write"
    BY <2>1 DEF Proceed, SInv, Types
  <2>4. ASSUME paths[c] \ progress[c].written # {f}
        PROVE  progress'[c].written = progress[c].written \union {f}
    BY <2>1, <2>4 DEF SInv, Types
  <2> QED
    BY <2>1, <2>2, <2>3, <2>4
<1>3. \A g \in progress[c].written \union {f} : WillAdd(c, g)' /\ WillCommit(c, g)'
  <2>1. CASE paths[c] \ progress[c].written = {f}
    BY <1>1, <1>2, <2>1 DEF WillAdd, WillCommit, Named
  <2>2. CASE paths[c] \ progress[c].written # {f}
    BY <1>2, <2>2 DEF WillAdd, WillCommit
  <2> QED
    BY <2>1, <2>2
<1>4. \A g \in File : /\ WillAdd(c, g) => g \in progress[c].written
                      /\ WillCommit(c, g) => g \in progress[c].written
  BY <1>1 DEF WillAdd, WillCommit
<1>5. Added'
  BY <1>o, <1>1, <1>2, <1>3, <1>4, OthersCover DEF Rest, Added
<1>6. Committed'
  BY <1>o, <1>1, <1>2, <1>3, <1>4, OthersCover DEF Rest, Committed
<1>7. Abortable'
  <2>1. mergeHead => exposed' # {} \/ \E d \in Caller : place'[d] = "abort"
    BY <1>o, <1>1, <1>2, OthersAbort DEF Rest, Abortable
  <2> QED
    BY <1>1, <1>2, <2>1 DEF Rest, Abortable
<1> QED
  BY <1>5, <1>6, <1>7 DEF Rest

LEMMA AddRests ==
  ASSUME SInv, Rest, ~spoiled', NEW c \in Caller, AddPaths(c)
  PROVE  Rest'
<1>o. OthersStay(c)
  BY OnesOwn DEF SInv, Step
<1>1. /\ place[c] = "add" /\ place'[c] = "staged" /\ paths'[c] = paths[c]
      /\ exposed' = IF mergeHead THEN exposed \union paths[c] ELSE exposed
      /\ unmerged' = unmerged \ paths[c]
      /\ UNCHANGED <<head, work, mergeHead>>
  BY DEF AddPaths, Continue, Proceed, SInv, Types
<1>2. \A f \in File : index'[f] = IF f \in paths[c] THEN work[f] ELSE index[f]
  BY DEF AddPaths, Over
<1>3. \A f \in File : (WillAdd(c, f) => f \in paths[c]) /\ (WillCommit(c, f) => f \in paths[c])
  BY <1>1 DEF WillAdd, WillCommit
<1>4. \A f \in paths[c] : WillCommit(c, f)'
  BY <1>1 DEF WillCommit
<1>5. Added'
  BY <1>o, <1>1, <1>2, <1>3, OthersCover DEF Rest, Added
<1>6. Committed'
  BY <1>o, <1>1, <1>2, <1>3, <1>4, OthersCover DEF Rest, Committed
<1>7. Abortable'
  <2>1. mergeHead => exposed' # {} \/ \E d \in Caller : place'[d] = "abort"
    BY <1>o, <1>1, OthersAbort DEF Rest, Abortable
  <2> QED
    BY <1>1, <1>2, <2>1 DEF Rest, Abortable
<1> QED
  BY <1>5, <1>6, <1>7 DEF Rest

LEMMA CommitRests ==
  ASSUME SInv, Rest, ~spoiled', NEW c \in Caller, CommitPaths(c)
  PROVE  Rest'
<1>o. OthersStay(c)
  BY OnesOwn DEF SInv, Step
<1>1. /\ place[c] = "commit" /\ Known(paths[c], head)
      /\ UNCHANGED <<work, mergeHead, unmerged, exposed>>
  BY DEF CommitPaths
<1>2. \A f \in File : ~WillAdd(c, f) /\ (WillCommit(c, f) => f \in paths[c])
  BY <1>1 DEF WillAdd, WillCommit
<1>u. ~mergeHead => unmerged = {}
  BY DEF SInv, Types
<1>3. CASE /\ ~mergeHead
           /\ head' = Over(head, paths[c], work) /\ index' = Over(index, paths[c], work)
  <2>1. \A f \in File : /\ head'[f] = IF f \in paths[c] THEN work[f] ELSE head[f]
                        /\ index'[f] = IF f \in paths[c] THEN work[f] ELSE index[f]
    BY <1>3 DEF Over
  <2>2. Added'
    BY <1>o, <1>1, <1>2, <2>1, OthersCover DEF Rest, Added
  <2>3. Committed'
    BY <1>o, <1>1, <1>2, <2>1, OthersCover DEF Rest, Committed
  <2> QED
    BY <1>1, <1>3, <2>2, <2>3 DEF Rest, Abortable
<1>4. CASE ~MayCommit(paths[c]) /\ UNCHANGED <<head, index>>
  <2>1. Added'
    BY <1>o, <1>1, <1>2, <1>4, OthersCover DEF Rest, Added
  <2>2. Committed'
    <3>1. ASSUME NEW f \in File \ exposed, ~mergeHead, index[f] # head[f]
          PROVE  \E d \in Caller : WillCommit(d, f)'
      <4>1. CASE f \in paths[c]
        <5>1. work[f] = head[f]
          BY <1>1, <1>4, <3>1, <4>1 DEF MayCommit
        <5>2. \E d \in Caller : WillAdd(d, f)
          BY <1>u, <3>1, <5>1 DEF Rest, Added
        <5> QED
          BY <1>o, <1>2, <5>2, OthersCover DEF WillCommit
      <4>2. CASE f \notin paths[c]
        BY <1>o, <1>2, <3>1, <4>2, OthersCover DEF Rest, Committed
      <4> QED
        BY <4>1, <4>2
    <3> QED
      BY <1>1, <1>4, <3>1 DEF Committed
  <2>3. Abortable'
    BY <1>o, <1>1, <1>4, OthersAbort DEF Rest, Abortable
  <2> QED
    BY <2>1, <2>2, <2>3 DEF Rest
<1> QED
  BY <1>3, <1>4 DEF CommitPaths, MayCommit

LEMMA CheckoutRests ==
  ASSUME SInv, Rest, NEW c \in Caller, CheckoutPaths(c)
  PROVE  Rest'
<1> DEFINE fs == progress[c].present
<1>o. OthersStay(c)
  BY OnesOwn DEF SInv, Step
<1>1. place[c] = "checkout" /\ UNCHANGED <<head, mergeHead>>
  BY DEF CheckoutPaths
<1>2. \A f \in File : ~WillAdd(c, f) /\ ~WillCommit(c, f)
  BY <1>1 DEF WillAdd, WillCommit
<1>3. CASE /\ \A f \in fs : main[f] # Absent
           /\ index' = Over(index, fs, main) /\ work' = Over(work, fs, main)
           /\ unmerged' = unmerged \ fs
           /\ exposed' = IF mergeHead THEN exposed \union fs ELSE exposed
           /\ Continue(c, "remove")
  <2>1. \A f \in File : /\ index'[f] = IF f \in fs THEN main[f] ELSE index[f]
                        /\ work'[f] = IF f \in fs THEN main[f] ELSE work[f]
    BY <1>3 DEF Over
  <2>2. \A f \in fs : WillCommit(c, f)'
    BY <1>3 DEF Continue, Proceed, WillCommit, WillAdd, SInv, Types
  <2>3. Added'
    BY <1>o, <1>1, <1>2, <1>3, <2>1, OthersCover DEF Rest, Added
  <2>4. Committed'
    BY <1>o, <1>1, <1>2, <1>3, <2>1, <2>2, OthersCover DEF Rest, Committed
  <2>5. Abortable'
    <3>1. mergeHead => exposed' # {} \/ \E d \in Caller : place'[d] = "abort"
      BY <1>o, <1>1, <1>3, OthersAbort DEF Rest, Abortable
    <3> QED
      BY <1>1, <1>3, <2>1, <3>1 DEF Rest, Abortable
  <2> QED
    BY <2>3, <2>4, <2>5 DEF Rest
<1>4. CASE UNCHANGED <<index, work, unmerged, exposed>>
  BY <1>o, <1>1, <1>2, <1>4, UncoveredKeeps DEF tree
<1> QED
  BY <1>3, <1>4 DEF CheckoutPaths

LEMMA RemoveRests ==
  ASSUME SInv, Named, Rest, ~spoiled', NEW c \in Caller, RemovePaths(c)
  PROVE  Rest'
<1> DEFINE gone == progress[c].remove
           kept == progress[c].present \union {f \in paths[c] : head[f] # Absent}
<1>o. OthersStay(c)
  BY OnesOwn DEF SInv, Step
<1>1. /\ place[c] = "remove"
      /\ exposed' = IF mergeHead THEN exposed \union gone ELSE exposed
      /\ UNCHANGED <<head, index, mergeHead, unmerged>>
      /\ \A d \in Caller \ {c} : Saved(d) \intersect gone = {}
  BY DEF RemovePaths
<1>2. \A f \in File : work'[f] = IF f \in gone THEN Absent ELSE work[f]
  BY DEF RemovePaths, Over
<1>3. \A f \in kept : WillAdd(c, f)' /\ WillCommit(c, f)'
  BY DEF RemovePaths, Proceed, WillAdd, WillCommit, SInv, Types
<1>4. \A f \in File : (WillAdd(c, f) => f \in kept) /\ (WillCommit(c, f) => f \in kept)
  BY <1>1 DEF WillAdd, WillCommit
<1>5. gone \subseteq paths[c]
  BY <1>1 DEF Named
<1>u. ~mergeHead => unmerged = {}
  BY DEF SInv, Types
<1>6. Added'
  <2>1. ASSUME NEW f \in File \ (exposed' \union unmerged'), work'[f] # index'[f]
        PROVE  \E d \in Caller : WillAdd(d, f)'
    <3>1. CASE f \notin gone
      BY <1>o, <1>1, <1>2, <1>3, <1>4, <2>1, <3>1, OthersCover DEF Rest, Added
    <3>2. CASE f \in gone /\ head[f] # Absent
      BY <1>3, <1>5, <3>2
    <3>3. CASE f \in gone /\ head[f] = Absent
      <4>1. ~mergeHead /\ index[f] # head[f] /\ f \notin exposed
        BY <1>1, <1>2, <2>1, <3>3
      <4>2. PICK d \in Caller : WillCommit(d, f)
        BY <4>1 DEF Rest, Committed
      <4>3. CASE d = c
        BY <1>3, <1>4, <4>2, <4>3
      <4>4. CASE d # c
        <5>1. place[d] = "remove" /\ f \in progress[d].present
          BY <1>1, <3>3, <4>2, <4>4 DEF WillCommit, WillAdd, Saved
        <5> QED
          BY <1>o, <4>4, <5>1 DEF OthersStay, WillAdd
      <4> QED
        BY <4>3, <4>4
    <3> QED
      BY <3>1, <3>2, <3>3
  <2>2. ASSUME NEW f \in File \ unmerged', work'[f] # Absent, index'[f] = Absent
        PROVE  \E d \in Caller : WillAdd(d, f)'
    BY <1>o, <1>1, <1>2, <1>3, <1>4, <2>2, OthersCover DEF Rest, Added
  <2> QED
    BY <2>1, <2>2 DEF Added
<1>7. Committed'
  BY <1>o, <1>1, <1>3, <1>4, OthersCover DEF Rest, Committed
<1>8. Abortable'
  <2>1. mergeHead => exposed' # {} \/ \E d \in Caller : place'[d] = "abort"
    BY <1>o, <1>1, OthersAbort DEF Rest, Abortable
  <2> QED
    BY <1>1, <1>2, <2>1 DEF Rest, Abortable
<1> QED
  BY <1>6, <1>7, <1>8 DEF Rest

LEMMA DiscardRests ==
  ASSUME SInv, Rest, NEW c \in Caller, discardDraft(c)
  PROVE  Rest'
<1>o. OthersStay(c)
  BY OnesOwn DEF SInv, Step
<1>1. /\ place[c] = "reset" /\ head' = main /\ index' = main
      /\ mergeHead' = FALSE /\ unmerged' = {} /\ exposed' = {}
  BY DEF discardDraft
<1>2. \A f \in File : work'[f] =
        IF main[f] = Absent /\ head[f] = Absent /\ ~Tracked(f) THEN work[f] ELSE main[f]
  BY DEF discardDraft
<1>3. ASSUME NEW f \in File, work'[f] # main[f]
      PROVE  \E d \in Caller : WillAdd(d, f)'
  <2>1. work[f] # Absent /\ index[f] = Absent /\ f \notin unmerged
    BY <1>2, <1>3 DEF Tracked
  <2>2. \E d \in Caller : WillAdd(d, f)
    BY <2>1 DEF Rest, Added
  <2>3. ~WillAdd(c, f)
    BY <1>1 DEF WillAdd
  <2> QED
    BY <1>o, <2>2, <2>3, OthersCover
<1>4. Added'
  BY <1>1, <1>3 DEF Added
<1> QED
  BY <1>1, <1>4 DEF Rest, Committed, Abortable

LEMMA ForwardRests ==
  ASSUME SInv, Rest, NEW c \in Caller, FastForward(c)
  PROVE  Rest'
<1> DEFINE moved == {f \in File : main[f] # head[f]}
           clean == {f \in moved : index[f] = head[f] /\ work[f] = index[f]}
<1>o. OthersStay(c)
  BY OnesOwn DEF SInv, Step
<1>1. place[c] = "forward" /\ UNCHANGED <<mergeHead, unmerged, exposed>>
  BY DEF FastForward
<1>2. \A f \in File : ~WillAdd(c, f) /\ ~WillCommit(c, f)
  BY <1>1 DEF WillAdd, WillCommit
<1>3. CASE /\ ~mergeHead /\ \A f \in moved \ clean : index[f] = main[f]
           /\ head' = main /\ index' = Over(index, moved, main) /\ work' = Over(work, clean, main)
  <2>1. \A f \in File : /\ index'[f] = IF f \in moved THEN main[f] ELSE index[f]
                        /\ work'[f] = IF f \in clean THEN main[f] ELSE work[f]
    BY <1>3 DEF Over
  <2>2. \A f \in File : f \in clean \/ (work'[f] = work[f] /\ index'[f] = index[f])
    BY <1>3, <2>1
  <2>3. Added'
    BY <1>o, <1>1, <1>2, <2>1, <2>2, OthersCover DEF Rest, Added
  <2>4. \A f \in File : index'[f] # head'[f] => index[f] # head[f]
    BY <1>3, <2>1
  <2>5. Committed'
    BY <1>o, <1>1, <1>2, <2>4, OthersCover DEF Rest, Committed
  <2> QED
    BY <1>1, <1>3, <2>3, <2>5 DEF Rest, Abortable
<1>4. CASE UNCHANGED <<head, index, work>>
  BY <1>o, <1>1, <1>2, <1>4, UncoveredKeeps DEF tree
<1> QED
  BY <1>3, <1>4 DEF FastForward

LEMMA MergeRests ==
  ASSUME SInv, Rest, NEW c \in Caller, MergeMain(c)
  PROVE  Rest'
<1>t. Types
  BY DEF SInv
<1>o. OthersStay(c)
  BY <1>t, OnesOwn DEF Step
<1>1. place[c] = "merge" /\ UNCHANGED exposed
  BY DEF MergeMain
<1>2. \A f \in File : ~WillAdd(c, f) /\ ~WillCommit(c, f)
  BY <1>1 DEF WillAdd, WillCommit
<1>3. CASE UNCHANGED tree
  BY <1>o, <1>1, <1>2, <1>3, UncoveredKeeps
<1>4. CASE /\ MayMerge /\ conflicting = {}
           /\ head' = combined /\ index' = combined /\ work' = Over(work, takes, combined)
           /\ UNCHANGED <<mergeHead, unmerged>>
  <2>1. \A f \in File : work'[f] = IF f \in takes THEN combined[f] ELSE work[f]
    BY <1>4 DEF Over
  <2>2. \A f \in File : \/ work'[f] = index'[f]
                        \/ work'[f] = work[f] /\ index'[f] = index[f]
    BY <1>4, <2>1 DEF takes, MayMerge
  <2>3. Added'
    BY <1>o, <1>1, <1>2, <1>4, <2>2, OthersCover DEF Rest, Added
  <2> QED
    BY <1>4, <2>3 DEF Rest, Committed, Abortable, MayMerge
<1>5. CASE /\ MayMerge /\ mergeHead' = TRUE /\ unmerged' = conflicting
           /\ index' = Over(index, takes, combined)
           /\ work' = Over(Over(work, takes, combined), conflicting, [f \in File |-> Conflicted(f)])
           /\ Continue(c, "abort") /\ UNCHANGED head
  <2>1. \A f \in File \ conflicting :
          /\ index'[f] = IF f \in takes THEN combined[f] ELSE index[f]
          /\ work'[f] = IF f \in takes THEN combined[f] ELSE work[f]
    BY <1>5 DEF Over
  <2>2. unmerged = {} /\ index = head /\ ~mergeHead
    BY <1>t, <1>5 DEF MayMerge, Types
  <2>3. Added'
    BY <1>o, <1>1, <1>2, <1>5, <2>1, <2>2, OthersCover DEF Rest, Added
  <2>4. place'[c] = "abort"
    BY <1>t, <1>5 DEF Continue, Proceed, Types
  <2>5. Abortable'
    BY <1>5, <2>1, <2>2, <2>4 DEF Abortable
  <2> QED
    BY <1>5, <2>3, <2>5 DEF Rest, Committed
<1> QED
  BY <1>3, <1>4, <1>5 DEF MergeMain, takes, combined, conflicting

LEMMA AbortRests ==
  ASSUME SInv, Rest, NEW c \in Caller, EndMerge(c)
  PROVE  Rest'
<1> DEFINE staged == {f \in File \ unmerged : index[f] # head[f]}
<1>o. OthersStay(c)
  BY OnesOwn DEF SInv, Step
<1>1. place[c] = "abort" /\ UNCHANGED <<head, exposed>>
  BY DEF EndMerge, history
<1>2. \A f \in File : ~WillAdd(c, f) /\ ~WillCommit(c, f)
  BY <1>1 DEF WillAdd, WillCommit
<1>3. CASE /\ ~mergeHead \/ \E f \in staged : work[f] # index[f]
           /\ UNCHANGED <<index, work, mergeHead, unmerged>>
  <2>1. Added'
    BY <1>o, <1>1, <1>2, <1>3, OthersCover DEF Rest, Added
  <2>2. Committed'
    BY <1>o, <1>1, <1>2, <1>3, OthersCover DEF Rest, Committed
  <2>3. mergeHead => exposed # {}
    BY <1>3 DEF Rest, Abortable
  <2> QED
    BY <1>1, <1>3, <2>1, <2>2, <2>3 DEF Rest, Abortable
<1>4. CASE /\ index' = head /\ work' = Over(work, staged \union unmerged, head)
           /\ mergeHead' = FALSE /\ unmerged' = {}
  <2>1. \A f \in File : work'[f] = IF f \in staged \union unmerged THEN head[f] ELSE work[f]
    BY <1>4 DEF Over
  <2>2. Added'
    BY <1>o, <1>1, <1>2, <1>4, <2>1, OthersCover DEF Rest, Added
  <2> QED
    BY <1>1, <1>4, <2>2 DEF Rest, Committed, Abortable
<1> QED
  BY <1>3, <1>4 DEF EndMerge

LEMMA QuietRests ==
  ASSUME SInv, Rest, NEW c \in Caller,
         \/ Call(c) \/ hasStagedChanges(c) \/ ProbePaths(c) \/ ListLoose(c) \/ promoteDraft(c)
         \/ CheckDraft(c) \/ CountCommits(c)
  PROVE  Rest'
<1>o. OthersStay(c)
  BY OnesOwn DEF SInv, Step
<1>1. UNCHANGED tree /\ UNCHANGED exposed
  BY DEF Call, Begin, hasStagedChanges, ProbePaths, ListLoose, promoteDraft, CheckDraft,
     CountCommits, history
<1>2. CASE hasStagedChanges(c)
  <2>1. place[c] = "staged"
    BY <1>2 DEF hasStagedChanges
  <2>2. \A f \in File : ~WillAdd(c, f) /\ (WillCommit(c, f) => f \in paths[c])
    BY <2>1 DEF WillAdd, WillCommit
  <2>3. \/ place'[c] = "commit" /\ paths'[c] = paths[c]
        \/ \A f \in paths[c] : index[f] = head[f]
    BY <1>2 DEF hasStagedChanges, Continue, Proceed, SInv, Types
  <2>4. \A f \in File : WillCommit(c, f) => WillCommit(c, f)' \/ index[f] = head[f]
    BY <2>2, <2>3 DEF WillCommit
  <2> QED
    BY <1>o, <1>1, <2>1, <2>2, <2>4, UncoveredKeeps
<1>3. CASE \/ Call(c) \/ ProbePaths(c) \/ ListLoose(c) \/ promoteDraft(c)
           \/ CheckDraft(c) \/ CountCommits(c)
  <2>1. place[c] \in {"idle", "probe", "loose", "promote", "status", "count"}
    BY <1>3 DEF Call, Begin, ProbePaths, ListLoose, promoteDraft, CheckDraft, CountCommits
  <2>2. \A f \in File : ~WillAdd(c, f) /\ ~WillCommit(c, f)
    BY <2>1 DEF WillAdd, WillCommit
  <2> QED
    BY <1>o, <1>1, <2>1, <2>2, UncoveredKeeps
<1> QED
  BY <1>2, <1>3

\* Steps that move no call.
LEMMA StillRests ==
  ASSUME Rest, UNCHANGED <<tree, exposed, place, paths, progress>>
  PROVE  Rest'
<1>1. \A d \in Caller, f \in File : (WillAdd(d, f) => WillAdd(d, f)') /\ (WillCommit(d, f) => WillCommit(d, f)')
  BY DEF WillAdd, WillCommit
<1>2. UNCHANGED <<head, index, work, mergeHead, unmerged, exposed, place>>
  BY DEF tree
<1>3. Added'
  BY <1>1, <1>2 DEF Rest, Added
<1>4. Committed'
  BY <1>1, <1>2 DEF Rest, Committed
<1>5. Abortable'
  BY <1>2 DEF Rest, Abortable
<1> QED
  BY <1>3, <1>4, <1>5 DEF Rest

-----------------------------------------------------------------------------
\* A restore goes on with the files it was asked for.
LEMMA NamedStays ==
  ASSUME DraftAssumption, Types, Named, [DraftNext]_draftVars
  PROVE  Named'
<1> DEFINE Fine(d) == /\ progress[d].written \subseteq paths[d]
                      /\ place[d] # "write" => progress[d].written = {}
                      /\ progress[d].present \subseteq paths[d]
                      /\ place[d] = "idle" => progress[d].present = {}
                      /\ place[d] \in {"checkout", "remove"} => progress[d].remove \subseteq paths[d]
<1>1. ASSUME NEW c \in Caller, OthersStay(c), Fine(c)' PROVE Named'
  BY <1>1 DEF Named, OthersStay
<1>2. ASSUME NEW c \in Caller, Return(c) PROVE Fine(c)'
  BY <1>2 DEF Return, Proceed, NoFiles, Types
<1>3. ASSUME NEW c \in Caller, NEW l, l \in {"add", "staged", "commit", "status", "count", "forward", "merge", "abort"},
             place[c] # "write", Continue(c, l) PROVE Fine(c)'
  BY <1>3 DEF Continue, Proceed, Types, Named
<1>4. ASSUME NEW c \in Caller, Call(c) PROVE Fine(c)'
  <2>1. ASSUME NEW o, NEW fs, NEW l, l \in {"write", "probe", "status", "reset", "promote"}, Begin(c, o, fs, l)
        PROVE  Fine(c)'
    <3>1. place[c] = "idle" /\ place'[c] = l /\ progress'[c] = progress[c]
      BY <2>1 DEF Begin, Proceed, Types
    <3> QED
      BY <2>1, <3>1 DEF Named
  <2> QED
    BY <1>4, <2>1 DEF Call
<1>5. ASSUME NEW c \in Caller, ProbePaths(c) PROVE Fine(c)'
  BY <1>5 DEF ProbePaths, Proceed, Types, Named
<1>6. ASSUME NEW c \in Caller, ListLoose(c) PROVE Fine(c)'
  <2>1. /\ place[c] = "loose" /\ place'[c] = "checkout" /\ paths'[c] = paths[c]
        /\ progress'[c].present = progress[c].present
        /\ progress'[c].written = progress[c].written
    BY <1>6 DEF ListLoose, Proceed, Types
  <2>2. progress'[c].remove = (paths[c] \ progress[c].present)
         \union {f \in progress[c].present : ~Tracked(f) /\ work[f] # Absent}
    BY <1>6 DEF ListLoose, Types
  <2> QED
    BY <2>1, <2>2 DEF Named
<1>7. ASSUME NEW c \in Caller, CheckoutPaths(c) PROVE Fine(c)'
  <2>1. CASE Continue(c, "remove")
    BY <1>7, <2>1 DEF CheckoutPaths, Continue, Proceed, Types, Named
  <2> QED
    BY <1>2, <1>7, <2>1 DEF CheckoutPaths
<1>8. ASSUME NEW c \in Caller, RemovePaths(c) PROVE Fine(c)'
  <2>1. CASE /\ paths' = [paths EXCEPT ![c] = progress[c].present \union {f \in paths[c] : head[f] # Absent}]
             /\ Proceed(c, "add") /\ UNCHANGED progress
    <3>1. place'[c] = "add" /\ progress'[c] = progress[c] /\ progress[c].present \subseteq paths'[c]
      BY <2>1 DEF Proceed, Types
    <3>2. progress[c].written = {}
      BY <1>8 DEF RemovePaths, Named
    <3> QED
      BY <3>1, <3>2
  <2> QED
    BY <1>2, <1>8, <2>1 DEF RemovePaths
<1>9. ASSUME NEW c \in Caller, Step(c) \/ CallFails(c) PROVE Fine(c)'
  <2>1. CASE \/ AddPaths(c) \/ hasStagedChanges(c) \/ CommitPaths(c) \/ discardDraft(c)
             \/ promoteDraft(c)
    BY <1>2, <1>3, <2>1 DEF AddPaths, hasStagedChanges, CommitPaths, discardDraft, promoteDraft
  <2>3. CASE writeDecodedSources(c)
    BY <2>3 DEF writeDecodedSources, Proceed, Types, Named
  <2>2. CASE \/ CheckDraft(c) \/ CountCommits(c) \/ FastForward(c) \/ MergeMain(c) \/ EndMerge(c)
             \/ CallFails(c)
    BY <1>2, <1>3, <2>2 DEF CheckDraft, CountCommits, FastForward, MergeMain, EndMerge, CallFails
  <2> QED
    BY <1>5, <1>6, <1>7, <1>8, <1>9, <2>1, <2>2, <2>3 DEF Step
<1>10. CASE UNCHANGED <<place, paths, progress>>
  BY <1>10 DEF Named
<1> QED
  BY <1>1, <1>4, <1>9, <1>10, OnesOwn DEF DraftNext, MainMoves, draftVars

LEMMA StepRInv == DraftAssumption /\ RInv /\ [DraftNext]_draftVars => RInv'
<1> SUFFICES ASSUME DraftAssumption, RInv, [DraftNext]_draftVars PROVE RInv'
  OBVIOUS
<1>1. SInv' /\ Named'
  BY StepSInv, NamedStays DEF RInv, SInv
<1>2. ASSUME Smooth' PROVE Rest'
  <2>t. SInv /\ Named /\ failures \in Nat /\ failures' = 0 /\ ~spoiled'
    BY <1>2 DEF RInv, SInv, Types, Smooth
  <2>1. ASSUME NEW c \in Caller, CallFails(c) PROVE FALSE
    BY <2>t, <2>1 DEF CallFails
  <2>2. Smooth
    <3>1. ASSUME NEW c \in Caller, Call(c) PROVE UNCHANGED <<failures, spoiled>>
      BY <3>1 DEF Call, Begin, history
    <3>2. ASSUME NEW c \in Caller, Step(c) PROVE failures' = failures /\ (spoiled => spoiled')
      <4>1. CASE \/ writeDecodedSources(c) \/ hasStagedChanges(c) \/ ProbePaths(c) \/ ListLoose(c)
                 \/ CheckoutPaths(c)
        BY <4>1 DEF writeDecodedSources, hasStagedChanges, ProbePaths, ListLoose, CheckoutPaths,
           counters, history
      <4>3. CASE AddPaths(c)
        BY <4>3 DEF AddPaths, counters
      <4>4. CASE CommitPaths(c)
        BY <4>4 DEF CommitPaths, counters
      <4>5. CASE RemovePaths(c)
        BY <4>5 DEF RemovePaths, counters
      <4>2. CASE \/ discardDraft(c) \/ promoteDraft(c) \/ CheckDraft(c) \/ CountCommits(c)
                 \/ FastForward(c) \/ MergeMain(c) \/ EndMerge(c)
        BY <4>2 DEF discardDraft, promoteDraft, CheckDraft, CountCommits, FastForward, MergeMain,
           EndMerge, counters, history
      <4> QED
        BY <3>2, <4>1, <4>2, <4>3, <4>4, <4>5 DEF Step
    <3>3. ASSUME NEW f \in File, MainMoves(f) PROVE UNCHANGED <<failures, spoiled>>
      BY <3>3 DEF MainMoves, history
    <3>4. ASSUME UNCHANGED draftVars PROVE UNCHANGED <<failures, spoiled>>
      BY <3>4 DEF draftVars, counters, history
    <3> QED
      BY <2>t, <2>1, <3>1, <3>2, <3>3, <3>4 DEF DraftNext, Smooth
  <2>r. Rest
    BY <2>2 DEF RInv
  <2>3. ASSUME NEW c \in Caller, Step(c) PROVE Rest'
    BY <2>t, <2>r, <2>3, WriteRests, AddRests, CommitRests, CheckoutRests, RemoveRests,
       DiscardRests, ForwardRests, MergeRests, AbortRests, QuietRests DEF Step
  <2>4. ASSUME NEW c \in Caller, Call(c) PROVE Rest'
    BY <2>t, <2>r, <2>4, QuietRests
  <2>5. ASSUME NEW f \in File, MainMoves(f) PROVE Rest'
    BY <2>r, <2>5, StillRests DEF MainMoves, history
  <2>6. CASE UNCHANGED draftVars
    BY <2>r, <2>6, StillRests DEF draftVars, history
  <2> QED
    BY <2>1, <2>3, <2>4, <2>5, <2>6 DEF DraftNext
<1> QED
  BY <1>1, <1>2 DEF RInv

LEMMA InitRInv == DraftInit => RInv
<1> SUFFICES ASSUME DraftInit PROVE RInv
  OBVIOUS
<1>1. Named
  BY DEF DraftInit, Named, NoFiles
<1>2. Rest
  BY DEF DraftInit, Rest, Added, Committed, Abortable, Nothing
<1> QED
  BY <1>1, <1>2, InitSInv DEF RInv

\* Unless a command failed or a save was spoiled, whatever a call leaves unstaged,
\* uncommitted or unmerged is still the business of a call in flight.
THEOREM RestInvariant == DraftSpec => []RInv
BY InitRInv, StepRInv, DraftAssumption, PTL DEF DraftSpec

\* commitSavedSources, restoreDraftPaths, discardDraft and syncDraft: when no call is
\* in flight nothing is left behind, but for the cases RestIsClean names.
THEOREM RestIsSettled == DraftSpec => []RestIsClean
<1>1. RInv => RestIsClean
  <2> SUFFICES ASSUME RInv, \A c \in Caller : place[c] = "idle", failures = 0, exposed = {}, ~spoiled
               PROVE  Clean /\ ~mergeHead
    BY DEF RInv, SInv, Types, RestIsClean
  <2>1. Rest /\ \A c \in Caller, f \in File : ~WillAdd(c, f) /\ ~WillCommit(c, f)
    BY DEF RInv, Smooth, WillAdd, WillCommit
  <2>2. ~mergeHead
    BY <2>1 DEF Rest, Abortable
  <2>3. unmerged = {}
    BY <2>2 DEF RInv, SInv, Types
  <2>4. \A f \in File : work[f] = index[f] /\ index[f] = head[f]
    BY <2>1, <2>2, <2>3 DEF Rest, Added, Committed
  <2>5. work = index /\ index = head
    BY <2>4 DEF RInv, SInv, Types
  <2> QED
    BY <2>2, <2>3, <2>5 DEF Clean
<1> QED
  BY <1>1, RestInvariant, PTL

-----------------------------------------------------------------------------
(***************************************************************************)
(* The publication of drafts and the builds.                               *)
(***************************************************************************)

\* A request from the creation of its claim to the answer.
Publishing(r) == pc[r] \in {"write", "status", "merge", "merged", "abort", "release"}

PromoteTypes ==
  /\ claim \in {None} \union Claim
  /\ pc \in [Reader -> {"none", "check", "claim", "write", "retire", "again", "status", "merge",
                        "merged", "abort", "release", "done"}]
  /\ taken \in BOOLEAN

\* Unless a claim was retired under a running request, whoever publishes has made
\* the claim that is there, and has written it before it touches the worktree.
ClaimHeld ==
  ~taken => \A r \in Request : Publishing(r) =>
    claim # None /\ claim.by = r /\ (pc[r] # "write" => claim.written)

PInv == PromoteTypes /\ ClaimHeld

Job == [next : {"none", "refresh", "compile", "flip", "reload", "unlock", "done"},
        by : {None} \union Pid, projects : SUBSET (Project \union {None}), todo : SUBSET Worker,
        source : Tree, obj : Tree]

\* Builds, the lock and the release have their shapes, and nothing is built or
\* released that was never written.
BuildTypes ==
  /\ lock \in {None} \union Lock
  /\ launching \subseteq Worker
  /\ build \in [Build -> Job]
  /\ source \in Tree /\ obj \in Tree /\ release \in [source : Tree, obj : Tree]
  /\ restarts \in [Worker -> Nat]
  /\ cleared \in BOOLEAN

NoFuture ==
  /\ \A p \in Project : release.source[p] <= source[p]
  /\ \A b \in Build, p \in Project : build[b].source[p] <= source[p]

\* Unless the lock of a live build was removed as stale, the lock belongs to the one
\* build that runs or to the one worker that starts one.
OneBuilder ==
  ~cleared =>
    /\ \A w \in launching : lock # None /\ lock.by = pid(w) /\ ~lock.old
    /\ \A b \in Build : Running(b) => lock # None /\ lock.by = build[b].by /\ launching = {}
    /\ \A b, c \in Build : Running(b) /\ Running(c) => b = c

\* What the running build compiled is not older than the release.
Compiled ==
  ~cleared => \A b \in Build : build[b].next = "flip" =>
    \A p \in Project : release.source[p] <= build[b].source[p]

BInv == BuildTypes /\ NoFuture /\ OneBuilder /\ Compiled

-----------------------------------------------------------------------------
\* A step that only moves one caller, and not into a publication.
LEMMA Moves ==
  ASSUME PInv, NEW x \in Reader, NEW l,
         l \in {"none", "check", "claim", "retire", "again", "done"}, Goto(x, l) \/ pc' = [pc EXCEPT ![x] = l],
         UNCHANGED <<claim, taken>>
  PROVE  PInv'
<1>1. pc' = [pc EXCEPT ![x] = l]
  BY DEF Goto
<1>2. PromoteTypes'
  BY <1>1 DEF PInv, PromoteTypes
<1>3. ClaimHeld'
  BY <1>1 DEF PInv, PromoteTypes, ClaimHeld, Publishing
<1> QED
  BY <1>2, <1>3 DEF PInv

\* A publication goes on under the claim it wrote.
LEMMA GoesOn ==
  ASSUME PInv, NEW r \in Request,
         pc[r] \in {"status", "merge", "merged", "abort", "release"},
         NEW l, l \in {"merge", "merged", "abort", "release", "done"}, Goto(r, l),
         UNCHANGED <<claim, taken>>
  PROVE  PInv'
<1>1. pc' = [pc EXCEPT ![r] = l] /\ r \in Reader
  BY DEF Goto, Reader
<1>2. PromoteTypes'
  BY <1>1 DEF PInv, PromoteTypes
<1>3. ClaimHeld'
  BY <1>1 DEF PInv, PromoteTypes, ClaimHeld, Publishing, Reader
<1> QED
  BY <1>2, <1>3 DEF PInv

\* No request publishes that has not made the claim.
LEMMA OneClaimant ==
  ASSUME PInv, ~taken, NEW r \in Request, Publishing(r),
         NEW q \in Request, Publishing(q)
  PROVE  q = r
BY DEF PInv, ClaimHeld

\* One step per action of a request.
LEMMA RequestKeepsPInv ==
  ASSUME PromoteAssumption, PInv, NEW r \in Request, RequestStep(r)
  PROVE  PInv'
<1>r. r \in Reader
  BY DEF Reader
<1>1. CASE CheckRebuild(r)
  <2>1. \E l \in {"done", "claim"} : Goto(r, l)
    BY <1>1 DEF CheckRebuild
  <2> QED
    BY <1>r, <1>1, <2>1, Moves DEF CheckRebuild
<1>2. CASE tryClaimPromote(r)
  <2>1. /\ claim = None /\ claim' = [by |-> r, written |-> FALSE, old |-> FALSE]
        /\ pc' = [pc EXCEPT ![r] = "write"] /\ taken' = taken
    BY <1>2 DEF tryClaimPromote, Goto
  <2>2. claim' \in Claim /\ claim' # None
    <3>1. claim' \in Claim
      BY <2>1 DEF Claim
    <3> QED
      BY <3>1 DEF PromoteAssumption
  <2>3. PromoteTypes'
    BY <1>r, <2>1, <2>2 DEF PInv, PromoteTypes
  <2>4. ClaimHeld'
    BY <1>r, <2>1, <2>2 DEF PInv, PromoteTypes, ClaimHeld, Publishing, Reader
  <2> QED
    BY <2>3, <2>4 DEF PInv
<1>3. CASE FindClaim(r)
  <2>1. \E l \in {"done", "retire"} : Goto(r, l)
    BY <1>3 DEF FindClaim
  <2> QED
    BY <1>r, <1>3, <2>1, Moves DEF FindClaim
<1>4. CASE WriteClaim(r)
  <2>1. pc[r] = "write" /\ taken' = taken /\ Publishing(r)
    BY <1>4 DEF WriteClaim, Publishing
  <2>2. CASE /\ claim' = IF claim # None /\ claim.by = r
                         THEN [claim EXCEPT !.written = TRUE] ELSE claim
             /\ pc' = [pc EXCEPT ![r] = "status"]
    <3>1. claim' \in {None} \union Claim
      BY <2>2 DEF PInv, PromoteTypes, Claim
    <3>2. PromoteTypes'
      BY <1>r, <2>1, <2>2, <3>1 DEF PInv, PromoteTypes
    <3>3. ASSUME ~taken PROVE /\ claim \in Claim /\ claim.by = r
                              /\ claim' = [claim EXCEPT !.written = TRUE]
      BY <2>1, <2>2, <3>3 DEF PInv, ClaimHeld, PromoteTypes
    <3>4. ASSUME ~taken PROVE claim' # None /\ claim'.by = r /\ claim'.written
      <4>1. claim' \in Claim /\ claim'.by = r /\ claim'.written
        BY <3>3, <3>4 DEF Claim
      <4> QED
        BY <4>1 DEF PromoteAssumption
    <3>5. ASSUME ~taken, NEW q \in Request, Publishing(q)' PROVE q = r
      <4>1. q = r \/ Publishing(q)
        BY <2>2, <3>5, <1>r DEF Publishing, PInv, PromoteTypes, Reader
      <4> QED
        BY <2>1, <3>5, <4>1, OneClaimant
    <3>6. ClaimHeld'
      BY <2>1, <3>4, <3>5 DEF ClaimHeld
    <3> QED
      BY <3>2, <3>6 DEF PInv
  <2>3. CASE claim' = None /\ pc' = [pc EXCEPT ![r] = "done"]
    <3>1. PromoteTypes'
      BY <1>r, <2>1, <2>3 DEF PInv, PromoteTypes
    <3>2. ASSUME ~taken, NEW q \in Request, Publishing(q)' PROVE FALSE
      <4>1. q # r /\ Publishing(q)
        BY <2>3, <3>2, <1>r DEF Publishing, PInv, PromoteTypes, Reader
      <4> QED
        BY <2>1, <3>2, <4>1, OneClaimant
    <3> QED
      BY <2>1, <3>1, <3>2 DEF PInv, ClaimHeld
  <2> QED
    BY <1>4, <2>2, <2>3 DEF WriteClaim, Goto
<1>5. CASE TryClaimAgain(r)
  <2>1. \E l \in {"done", "claim"} : Goto(r, l)
    BY <1>5 DEF TryClaimAgain
  <2> QED
    BY <1>r, <1>5, <2>1, Moves DEF TryClaimAgain
<1>6. CASE CheckMain(r)
  BY <1>6, GoesOn DEF CheckMain
<1>7. CASE Merge(r)
  BY <1>7, GoesOn DEF Merge
<1>8. CASE AbortMerge(r)
  BY <1>8, GoesOn DEF AbortMerge
<1>9. CASE Merged(r)
  BY <1>9, GoesOn DEF Merged
<1>10. CASE releaseClaim(r)
  <2>1. /\ pc[r] = "release" /\ taken' = taken /\ pc' = [pc EXCEPT ![r] = "done"]
        /\ claim' \in {None, claim} /\ Publishing(r)
    BY <1>10 DEF releaseClaim, Goto, Publishing
  <2>2. PromoteTypes'
    BY <1>r, <2>1 DEF PInv, PromoteTypes
  <2>3. ASSUME ~taken, NEW q \in Request, Publishing(q)' PROVE FALSE
    <3>1. q # r /\ Publishing(q)
      BY <2>1, <2>3, <1>r DEF Publishing, PInv, PromoteTypes, Reader
    <3> QED
      BY <2>1, <2>3, <3>1, OneClaimant
  <2> QED
    BY <2>1, <2>2, <2>3 DEF PInv, ClaimHeld
<1> QED
  BY <1>1, <1>2, <1>3, <1>4, <1>5, <1>6, <1>7, <1>8, <1>9, <1>10 DEF RequestStep

LEMMA StepPInv == PromoteAssumption /\ PInv /\ [Next]_vars => PInv'
<1> SUFFICES ASSUME PromoteAssumption, PInv, [Next]_vars PROVE PInv'
  OBVIOUS
<1>1. ASSUME NEW w \in Worker, NEW r \in Request, NEW p \in Project, Arrive(r, w, p) PROVE PInv'
  BY <1>1, Moves DEF Arrive, Reader
<1>2. ASSUME NEW w \in Worker, NEW g \in Ping, PingReads(g, w) PROVE PInv'
  BY <1>2, Moves DEF PingReads, Reader
<1>3. ASSUME NEW w \in Worker, EndWith(w) PROVE PInv'
  <2>1. /\ UNCHANGED <<claim, taken>>
        /\ pc' = [x \in Reader |-> IF at[x] = w THEN IF x \in Ping THEN "none" ELSE "done"
                                   ELSE pc[x]]
    BY <1>3 DEF EndWith
  <2>2. PromoteTypes'
    BY <2>1 DEF PInv, PromoteTypes
  <2>3. \A r \in Request : Publishing(r)' => Publishing(r) /\ pc'[r] = pc[r]
    BY <2>1 DEF Publishing, Reader
  <2> QED
    BY <2>1, <2>2, <2>3 DEF PInv, ClaimHeld
<1>4. ASSUME UNCHANGED promoteVars PROVE PInv'
  BY <1>4 DEF promoteVars, PInv, PromoteTypes, ClaimHeld, Publishing
<1>5. ASSUME NEW x \in Reader, RetireClaim(x) PROVE PInv'
  <2>1. /\ claim' = None /\ taken' = (taken \/ (claim # None /\ pc[claim.by] # "done"))
        /\ pc' = [pc EXCEPT ![x] = IF x \in Ping THEN "none" ELSE "again"]
    BY <1>5 DEF RetireClaim, Goto
  <2>2. PromoteTypes'
    BY <1>5, <2>1 DEF PInv, PromoteTypes
  <2>3. ASSUME ~taken', NEW r \in Request, Publishing(r)' PROVE FALSE
    <3>1. Publishing(r) /\ ~taken
      BY <1>5, <2>1, <2>3 DEF Publishing, PInv, PromoteTypes, Reader
    <3>2. claim # None /\ claim.by = r
      BY <3>1 DEF PInv, ClaimHeld
    <3> QED
      BY <2>1, <2>3, <3>1, <3>2 DEF Publishing
  <2> QED
    BY <2>2, <2>3 DEF PInv, ClaimHeld
<1>6. CASE ClaimAges
  <2>1. /\ claim # None /\ claim' = [claim EXCEPT !.old = TRUE] /\ UNCHANGED <<pc, taken>>
        /\ claim \in Claim
    BY <1>6 DEF ClaimAges, PInv, PromoteTypes
  <2>2. claim' \in Claim /\ claim'.by = claim.by /\ claim'.written = claim.written
    BY <2>1 DEF Claim
  <2>3. claim' # None
    BY <2>2 DEF PromoteAssumption
  <2> QED
    BY <2>1, <2>2, <2>3 DEF PInv, PromoteTypes, ClaimHeld, Publishing
<1>7. CASE UNCHANGED vars
  BY <1>4, <1>7 DEF vars
<1>8. ASSUME NEW b \in Build, JobStep(b) PROVE PInv'
  BY <1>3, <1>4, <1>8 DEF JobStep
<1> QED
  BY <1>1, <1>2, <1>3, <1>4, <1>5, <1>6, <1>7, <1>8, RequestKeepsPInv DEF Next

LEMMA InitPInv == Init => PInv
BY DEF Init, PInv, PromoteTypes, ClaimHeld, Publishing, Reader

\* The claim and the callers fit together as PInv says, in every reachable state.
THEOREM PublicationInvariant == Spec => []PInv
BY InitPInv, StepPInv, PromoteAssumption, PTL DEF Spec

\* handlePromote: requests exclude each other in the main worktree, for any number
\* of requests, pings, crashes and expiring claims, as long as no claim is retired
\* under a running request.
THEOREM OnePublication == Spec => []OnePromote
<1>1. PInv => OnePromote
  BY DEF PInv, ClaimHeld, OnePromote, Publishing
<1> QED
  BY <1>1, PublicationInvariant, PTL

-----------------------------------------------------------------------------
\* What a step of a publication does to the builds: at most, one more write.
Written ==
  /\ UNCHANGED <<lock, launching, build, obj, release, restarts, cleared>>
  /\ source' \in Tree /\ \A p \in Project : source[p] <= source'[p]

\* The steps that are about the lock or a job.
JobOrLock ==
  \/ \E w \in Worker : CreateLock(w) \/ ClearStaleLock(w) \/ LaunchBuild(w) \/ Crash(w)
  \/ \E b \in Build : BuildStep(b)
  \/ \E b \in Build, w \in Worker : Reload(b, w)
  \/ LockAges

LEMMA BuildSteps ==
  ASSUME source \in Tree, [Next]_vars
  PROVE  Written \/ JobOrLock
<1>1. ASSUME UNCHANGED <<lock, launching, build, source, obj, release, restarts, cleared>>
      PROVE Written
  BY <1>1 DEF Written, Tree
<1>2. ASSUME NEW r \in Request, RequestStep(r) PROVE Written
  <2>1. CASE Merge(r)
    <3>1. UNCHANGED <<lock, launching, build, obj, release, restarts, cleared>>
      BY <2>1 DEF Merge
    <3>2. UNCHANGED source \/ source' = [source EXCEPT ![project[r]] = @ + 1]
      BY <2>1 DEF Merge
    <3>3. source' \in Tree /\ \A p \in Project : source[p] <= source'[p]
      BY <3>2 DEF Tree
    <3> QED
      BY <3>1, <3>3 DEF Written
  <2>2. CASE ~Merge(r)
    BY <1>1, <1>2, <2>2 DEF RequestStep, CheckRebuild, tryClaimPromote, FindClaim, WriteClaim,
       TryClaimAgain, CheckMain, AbortMerge, Merged, releaseClaim, rebuildVars
  <2> QED
    BY <2>1, <2>2
<1>3. ASSUME NEW w \in Worker, Attempt(w) \/ CreateFails(w) PROVE Written \/ JobOrLock
  BY <1>1, <1>3 DEF Attempt, CreateFails, FindStaleLock, RetryLater, rebuildVars, JobOrLock
<1>4. ASSUME NEW w \in Worker,
             \/ \E r \in Request, p \in Project : Arrive(r, w, p)
             \/ \E g \in Ping : PingReads(g, w)
      PROVE Written
  BY <1>1, <1>4 DEF Arrive, PingReads, rebuildVars
<1>5. ASSUME (\E x \in Reader : RetireClaim(x)) \/ ClaimAges \/ UNCHANGED vars PROVE Written
  BY <1>1, <1>5 DEF RetireClaim, ClaimAges, vars, rebuildVars
<1>6. ASSUME NEW b \in Build, JobStep(b) PROVE JobOrLock
  BY <1>6 DEF JobStep, JobOrLock
<1> QED
  BY <1>2, <1>3, <1>4, <1>5, <1>6 DEF Next, JobOrLock

\* What waits to be built are projects.
PendingTypes ==
  /\ pendingProjects \in [Worker -> SUBSET (Project \union {None})]
  /\ project \in [Request -> Project \union {None}]

LEMMA StepPending == PendingTypes /\ [Next]_vars => PendingTypes'
<1> SUFFICES ASSUME PendingTypes, [Next]_vars PROVE PendingTypes'
  OBVIOUS
<1>1. ASSUME UNCHANGED <<pendingProjects, project>> PROVE PendingTypes'
  BY <1>1 DEF PendingTypes
<1>2. ASSUME NEW w \in Worker, NEW r \in Request, NEW p \in Project, Arrive(r, w, p)
      PROVE PendingTypes'
  BY <1>2 DEF Arrive, rebuildVars, PendingTypes
<1>3. ASSUME NEW r \in Request, Merged(r) PROVE PendingTypes'
  <2>1. project' = project
    BY <1>3 DEF Merged
  <2>2. CASE pendingProjects' = pendingProjects
    BY <1>1, <2>1, <2>2
  <2>3. CASE pendingProjects' = [pendingProjects EXCEPT ![at[r]] = @ \union {project[r]}]
    BY <2>1, <2>3 DEF PendingTypes
  <2> QED
    BY <1>3, <2>2, <2>3 DEF Merged, scheduleRebuildOnSave
<1>4. ASSUME NEW r \in Request, RequestStep(r), ~Merged(r) PROVE PendingTypes'
  BY <1>1, <1>4 DEF RequestStep, CheckRebuild, tryClaimPromote, FindClaim, WriteClaim,
     TryClaimAgain, CheckMain, Merge, AbortMerge, releaseClaim, rebuildVars
<1>5. ASSUME NEW w \in Worker, Restart(w), EndWith(w) PROVE PendingTypes'
  BY <1>5 DEF Restart, EndWith, PendingTypes
<1>6. ASSUME NEW w \in Worker, LaunchBuild(w), UNCHANGED promoteVars PROVE PendingTypes'
  BY <1>6 DEF LaunchBuild, promoteVars, PendingTypes
<1>7. ASSUME NEW w \in Worker, (Attempt(w) /\ ~LaunchBuild(w)) \/ CreateFails(w),
             UNCHANGED promoteVars
      PROVE PendingTypes'
  BY <1>1, <1>7 DEF Attempt, CreateLock, FindStaleLock, ClearStaleLock, RetryLater, CreateFails,
     rebuildVars, promoteVars
<1>8. ASSUME NEW b \in Build, JobStep(b) PROVE PendingTypes'
  <2>1. CASE BuildStep(b) /\ UNCHANGED promoteVars
    BY <1>1, <2>1 DEF BuildStep, RefreshObj, Compile, FlipCurrent, Unlock, promoteVars
  <2> QED
    BY <1>5, <1>8, <2>1 DEF JobStep, Reload
<1>9. ASSUME NEW w \in Worker, NEW g \in Ping, PingReads(g, w) PROVE PendingTypes'
  BY <1>1, <1>9 DEF PingReads, rebuildVars
<1>10. ASSUME \/ \E x \in Reader : RetireClaim(x)
              \/ ClaimAges
              \/ LockAges /\ UNCHANGED promoteVars
              \/ UNCHANGED vars
       PROVE PendingTypes'
  BY <1>1, <1>10 DEF RetireClaim, ClaimAges, LockAges, vars, rebuildVars, promoteVars
<1> QED
  BY <1>2, <1>3, <1>4, <1>5, <1>6, <1>7, <1>8, <1>9, <1>10 DEF Next, Crash

-----------------------------------------------------------------------------
\* A write leaves the builds as they are, and what is released behind it.
LEMMA WrittenKeeps ==
  ASSUME BInv, Written
  PROVE  BInv'
<1>1. BuildTypes'
  BY DEF BInv, BuildTypes, Written
<1>2. NoFuture'
  <2>1. ASSUME NEW p \in Project
        PROVE  /\ source[p] \in Nat /\ source'[p] \in Nat /\ release.source[p] \in Nat
               /\ \A b \in Build : build[b].source[p] \in Nat
    BY DEF BInv, BuildTypes, Written, Tree, Job
  <2> QED
    BY <2>1 DEF BInv, NoFuture, Written
<1>3. OneBuilder' /\ Compiled'
  BY DEF BInv, OneBuilder, Compiled, Written, Running, pid
<1> QED
  BY <1>1, <1>2, <1>3 DEF BInv

LEMMA CreateLockKeeps ==
  ASSUME RebuildAssumption, BInv, NEW w \in Worker, CreateLock(w)
  PROVE  BInv'
<1>1. /\ lock = None /\ lock' = [by |-> pid(w), old |-> FALSE]
      /\ launching' = launching \union {w}
      /\ UNCHANGED <<build, source, obj, release, restarts, cleared>>
  BY DEF CreateLock
<1>2. lock' \in Lock /\ lock'.by = pid(w) /\ ~lock'.old
  BY <1>1 DEF Lock, Pid, pid, BInv, BuildTypes
<1>3. lock' # None
  BY <1>2 DEF RebuildAssumption
<1>4. BuildTypes' /\ NoFuture' /\ Compiled'
  BY <1>1, <1>2 DEF BInv, BuildTypes, NoFuture, Compiled
<1>5. OneBuilder'
  BY <1>1, <1>2, <1>3 DEF BInv, OneBuilder, Running, pid
<1> QED
  BY <1>4, <1>5 DEF BInv

LEMMA ClearLockKeeps ==
  ASSUME BInv, NEW w \in Worker, ClearStaleLock(w)
  PROVE  BInv'
<1>1. /\ lock' = None
      /\ cleared' = (cleared \/ (lock # None /\ (launching # {} \/ \E b \in Build : Running(b))))
      /\ UNCHANGED <<launching, build, source, obj, release, restarts>>
  BY DEF ClearStaleLock
<1>2. BuildTypes' /\ NoFuture' /\ Compiled'
  BY <1>1 DEF BInv, BuildTypes, NoFuture, Compiled
<1>3. ASSUME ~cleared' PROVE ~cleared /\ launching = {} /\ \A b \in Build : ~Running(b)
  BY <1>1, <1>3 DEF BInv, OneBuilder
<1>4. OneBuilder'
  BY <1>1, <1>3 DEF OneBuilder, Running
<1> QED
  BY <1>2, <1>4 DEF BInv

LEMMA LaunchKeeps ==
  ASSUME BInv, PendingTypes, NEW w \in Worker, LaunchBuild(w)
  PROVE  BInv'
<1>1. PICK b \in Build :
        /\ build[b].next = "none"
        /\ build' = [build EXCEPT ![b] =
             [Idle EXCEPT !.next = IF pendingProjects[w] = {} THEN "compile" ELSE "refresh",
                          !.by = pid(w), !.projects = pendingProjects[w]]]
  BY DEF LaunchBuild
<1>2. /\ w \in launching /\ launching' = launching \ {w}
      /\ UNCHANGED <<lock, source, obj, release, restarts, cleared>>
  BY DEF LaunchBuild
<1>3. /\ build'[b] \in Job /\ build'[b].next \in {"compile", "refresh"} /\ build'[b].by = pid(w)
      /\ \A p \in Project : build'[b].source[p] = 0
      /\ \A c \in Build : c # b => build'[c] = build[c]
  BY <1>1 DEF BInv, BuildTypes, Job, Idle, Pid, pid, Tree, PendingTypes
<1>4. BuildTypes'
  BY <1>1, <1>2, <1>3 DEF BInv, BuildTypes
<1>5. NoFuture'
  BY <1>2, <1>3 DEF BInv, BuildTypes, NoFuture, Tree
<1>6. Compiled'
  BY <1>2, <1>3 DEF BInv, Compiled
<1>7. ASSUME ~cleared' PROVE /\ \A c \in Build : ~Running(c)
                             /\ lock # None /\ lock.by = pid(w) /\ launching' = {}
  BY <1>2, <1>7 DEF BInv, OneBuilder, pid
<1>8. OneBuilder'
  BY <1>2, <1>3, <1>7 DEF OneBuilder, Running
<1> QED
  BY <1>4, <1>5, <1>6, <1>8 DEF BInv

\* A running job goes on: it runs before and after, for the same process.
LEMMA JobGoesOn ==
  ASSUME BInv, NEW b \in Build, Running(b), build'[b].by = build[b].by,
         \A c \in Build : c # b => build'[c] = build[c],
         UNCHANGED <<lock, launching, restarts, cleared>>
  PROVE  OneBuilder'
BY DEF BInv, OneBuilder, Running, pid

LEMMA BuildStepKeeps ==
  ASSUME BInv, NEW b \in Build, BuildStep(b)
  PROVE  BInv'
<1>t. build[b] \in Job
  BY DEF BInv, BuildTypes
<1>1. CASE RefreshObj(b)
  <2>1. /\ build[b].next = "refresh" /\ build' = [build EXCEPT ![b].next = "compile"]
        /\ UNCHANGED <<lock, launching, source, release, restarts, cleared>>
    BY <1>1 DEF RefreshObj
  <2>2. obj' \in Tree
    BY <1>1 DEF RefreshObj, BInv, BuildTypes, Tree
  <2>3. /\ build'[b] \in Job /\ build'[b].next = "compile" /\ build'[b].by = build[b].by
        /\ build'[b].source = build[b].source
        /\ \A c \in Build : c # b => build'[c] = build[c]
    BY <1>t, <2>1 DEF Job, BInv, BuildTypes
  <2>4. BuildTypes'
    BY <2>1, <2>2, <2>3 DEF BInv, BuildTypes
  <2>5. NoFuture' /\ Compiled'
    BY <2>1, <2>3 DEF BInv, NoFuture, Compiled
  <2>6. OneBuilder'
    BY <2>1, <2>3, JobGoesOn DEF Running
  <2> QED
    BY <2>4, <2>5, <2>6 DEF BInv
<1>2. CASE Compile(b)
  <2>1. /\ build[b].next = "compile"
        /\ UNCHANGED <<lock, launching, source, obj, release, restarts, cleared>>
        /\ \/ build' = [build EXCEPT ![b].next = "flip", ![b].source = source, ![b].obj = obj]
           \/ build' = [build EXCEPT ![b].next = "unlock"]
    BY <1>2 DEF Compile
  <2>2. /\ build'[b] \in Job /\ build'[b].by = build[b].by
        /\ \/ build'[b].next = "flip" /\ build'[b].source = source
           \/ build'[b].next = "unlock" /\ build'[b].source = build[b].source
        /\ \A c \in Build : c # b => build'[c] = build[c]
    BY <1>t, <2>1 DEF Job, BInv, BuildTypes
  <2>3. BuildTypes'
    BY <2>1, <2>2 DEF BInv, BuildTypes
  <2>4. NoFuture' /\ Compiled'
    BY <2>1, <2>2 DEF BInv, BuildTypes, Tree, NoFuture, Compiled
  <2>5. OneBuilder'
    BY <2>1, <2>2, JobGoesOn DEF Running
  <2> QED
    BY <2>3, <2>4, <2>5 DEF BInv
<1>3. CASE FlipCurrent(b)
  <2>1. /\ build[b].next = "flip"
        /\ release' = [source |-> build[b].source, obj |-> build[b].obj]
        /\ build' = [build EXCEPT ![b].next = "reload", ![b].todo = Worker]
        /\ UNCHANGED <<lock, launching, source, obj, restarts, cleared>>
    BY <1>3 DEF FlipCurrent
  <2>2. /\ build'[b] \in Job /\ build'[b].by = build[b].by /\ build'[b].next = "reload"
        /\ build'[b].source = build[b].source
        /\ \A c \in Build : c # b => build'[c] = build[c]
    BY <1>t, <2>1 DEF Job, BInv, BuildTypes
  <2>3. BuildTypes'
    BY <1>t, <2>1, <2>2 DEF BInv, BuildTypes, Job
  <2>4. NoFuture'
    BY <2>1, <2>2 DEF BInv, NoFuture
  <2>5. Compiled'
    BY <2>1, <2>2 DEF BInv, OneBuilder, Running, Compiled
  <2>6. OneBuilder'
    BY <2>1, <2>2, JobGoesOn DEF Running
  <2> QED
    BY <2>3, <2>4, <2>5, <2>6 DEF BInv
<1>4. CASE Unlock(b)
  <2>1. /\ build[b].next = "unlock" /\ Running(b)
        /\ lock' = IF lock # None /\ lock.by = build[b].by THEN None ELSE lock
        /\ build' = [build EXCEPT ![b] = [Idle EXCEPT !.next = "done"]]
        /\ UNCHANGED <<launching, source, obj, release, restarts, cleared>>
    BY <1>4 DEF Unlock, Running
  <2>2. /\ build'[b] \in Job /\ build'[b].next = "done"
        /\ \A p \in Project : build'[b].source[p] = 0
        /\ \A c \in Build : c # b => build'[c] = build[c]
    BY <2>1 DEF BInv, BuildTypes, Job, Idle, Tree
  <2>3. BuildTypes'
    BY <2>1, <2>2 DEF BInv, BuildTypes
  <2>4. NoFuture' /\ Compiled'
    BY <2>1, <2>2 DEF BInv, BuildTypes, Tree, NoFuture, Compiled
  <2>5. ASSUME ~cleared PROVE launching = {} /\ \A c \in Build : c # b => ~Running(c)
    BY <2>1, <2>5 DEF BInv, OneBuilder
  <2>6. OneBuilder'
    BY <2>1, <2>2, <2>5 DEF OneBuilder, Running
  <2> QED
    BY <2>3, <2>4, <2>6 DEF BInv
<1> QED
  BY <1>1, <1>2, <1>3, <1>4 DEF BuildStep

\* A worker that restarts has a new pid; it no longer launches anything.
LEMMA RestartKeeps ==
  ASSUME BInv, NEW w \in Worker, Restart(w), UNCHANGED <<lock, source, obj, release, cleared>>,
         build' \in [Build -> Job],
         \A b \in Build : /\ build'[b].by = build[b].by /\ build'[b].source = build[b].source
                          /\ Running(b)' = Running(b)
                          /\ build'[b].next = "flip" => build[b].next = "flip"
  PROVE  BInv'
<1>1. /\ restarts' = [restarts EXCEPT ![w] = @ + 1] /\ launching' = launching \ {w}
  BY DEF Restart
<1>2. BuildTypes'
  BY <1>1 DEF BInv, BuildTypes
<1>3. NoFuture' /\ Compiled'
  BY DEF BInv, NoFuture, Compiled
<1>4. \A v \in launching' : v \in launching /\ pid(v)' = pid(v)
  BY <1>1 DEF BInv, BuildTypes, pid
<1>5. OneBuilder'
  BY <1>1, <1>4 DEF BInv, OneBuilder
<1> QED
  BY <1>2, <1>3, <1>5 DEF BInv

LEMMA StepBInv ==
  RebuildAssumption /\ BInv /\ PendingTypes /\ [Next]_vars => BInv'
<1> SUFFICES ASSUME RebuildAssumption, BInv, PendingTypes, [Next]_vars PROVE BInv'
  OBVIOUS
<1>1. ASSUME NEW w \in Worker, Crash(w) PROVE BInv'
  <2>1. Restart(w) /\ UNCHANGED <<lock, build, source, obj, release, cleared>>
    BY <1>1 DEF Crash
  <2> QED
    BY <2>1, RestartKeeps DEF BInv, BuildTypes, Running
<1>2. ASSUME NEW b \in Build, NEW w \in Worker, Reload(b, w) PROVE BInv'
  <2>1. /\ build[b].next = "reload" /\ Restart(w)
        /\ build' = [build EXCEPT ![b].todo = @ \ {w},
                                  ![b].next = IF build[b].todo = {w} THEN "unlock" ELSE "reload"]
        /\ UNCHANGED <<lock, source, obj, release, cleared>>
    BY <1>2 DEF Reload
  <2>2. build[b] \in Job /\ build \in [Build -> Job]
    BY DEF BInv, BuildTypes
  <2>3. /\ build'[b] \in Job /\ build'[b].next \in {"unlock", "reload"}
        /\ build'[b].by = build[b].by /\ build'[b].source = build[b].source
        /\ \A c \in Build : c # b => build'[c] = build[c]
    BY <2>1, <2>2 DEF Job
  <2>4. build' \in [Build -> Job]
    BY <2>1, <2>2, <2>3
  <2>5. \A c \in Build : /\ build'[c].by = build[c].by /\ build'[c].source = build[c].source
                         /\ Running(c)' = Running(c)
                         /\ build'[c].next = "flip" => build[c].next = "flip"
    BY <2>1, <2>3 DEF Running
  <2> QED
    BY <2>1, <2>4, <2>5, RestartKeeps
<1>3. CASE LockAges
  <2>1. /\ lock # None /\ lock \in Lock /\ launching = {} /\ lock' = [lock EXCEPT !.old = TRUE]
        /\ UNCHANGED <<launching, build, source, obj, release, restarts, cleared>>
    BY <1>3 DEF LockAges, BInv, BuildTypes
  <2>2. lock' \in Lock /\ lock'.by = lock.by
    BY <2>1 DEF Lock
  <2>3. lock' # None
    BY <2>2 DEF RebuildAssumption
  <2>4. BuildTypes' /\ NoFuture' /\ Compiled'
    BY <2>1, <2>2 DEF BInv, BuildTypes, NoFuture, Compiled
  <2>5. OneBuilder'
    BY <2>1, <2>2, <2>3 DEF BInv, OneBuilder, Running
  <2> QED
    BY <2>4, <2>5 DEF BInv
<1>4. source \in Tree
  BY DEF BInv, BuildTypes
<1> QED
  BY <1>1, <1>2, <1>3, <1>4, BuildSteps, WrittenKeeps, CreateLockKeeps, ClearLockKeeps,
     LaunchKeeps, BuildStepKeeps DEF JobOrLock

LEMMA InitBInv == Init => BInv /\ PendingTypes
<1> SUFFICES ASSUME Init PROVE BInv /\ PendingTypes
  OBVIOUS
<1>1. Idle \in Job /\ Idle.next = "none" /\ \A p \in Project : Idle.source[p] = 0
  BY DEF Idle, Job, Tree
<1>2. BuildTypes
  BY <1>1 DEF Init, RebuildInit, BuildTypes, Tree
<1>3. NoFuture /\ OneBuilder /\ Compiled
  BY <1>1 DEF Init, RebuildInit, NoFuture, OneBuilder, Compiled, Running
<1>4. PendingTypes
  BY DEF Init, RebuildInit, PendingTypes
<1> QED
  BY <1>2, <1>3, <1>4 DEF BInv

\* Lock, jobs and release fit together as BInv says, in every reachable state.
THEOREM BuildInvariant == Spec => [](BInv /\ PendingTypes)
BY InitBInv, StepBInv, StepPending, RebuildAssumption, PTL DEF Spec

\* Two builds never run at once unless the lock of a live one was removed as stale.
OneBuild == ~cleared => \A b, c \in Build : Running(b) /\ Running(c) => b = c

\* attemptBuild: the lock file lets one build run at a time, although workers are
\* reloaded and crash between its creation and its removal.
THEOREM OneBuildAtATime == Spec => []OneBuild
<1>1. BInv => OneBuild
  BY DEF BInv, OneBuilder, OneBuild
<1> QED
  BY <1>1, BuildInvariant, PTL

\* buildShellChain: no build replaces the release by one with older sources,
\* however many writes, publications and restarts happen while it compiles.
THEOREM ReleasesGoForward == Spec => ReleaseNeverBack
<1> DEFINE Forward == ~cleared => \A p \in Project : release'.source[p] >= release.source[p]
<1>1. BInv /\ [Next]_vars => Forward
  <2> SUFFICES ASSUME BInv, [Next]_vars, ~cleared, NEW p \in Project
               PROVE  release'.source[p] >= release.source[p]
    OBVIOUS
  <2>1. source \in Tree /\ release.source[p] \in Nat
    BY DEF BInv, BuildTypes, Tree
  <2>2. CASE UNCHANGED release
    BY <2>1, <2>2
  <2>3. ASSUME NEW b \in Build, FlipCurrent(b) PROVE release'.source[p] >= release.source[p]
    <3>1. build[b].next = "flip" /\ release'.source = build[b].source
      BY <2>3 DEF FlipCurrent
    <3>2. release.source[p] <= build[b].source[p] /\ build[b].source[p] \in Nat
      BY <3>1 DEF BInv, BuildTypes, Compiled, Job, Tree
    <3> QED
      BY <2>1, <3>1, <3>2
  <2>4. Written \/ JobOrLock
    BY <2>1, BuildSteps
  <2>5. UNCHANGED release \/ \E b \in Build : FlipCurrent(b)
    BY <2>4 DEF Written, JobOrLock, CreateLock, ClearStaleLock, LaunchBuild, Crash, BuildStep,
       RefreshObj, Compile, Unlock, Reload, LockAges
  <2> QED
    BY <2>2, <2>3, <2>5
<1>2. BInv /\ [Next]_vars => [~cleared => \A p \in Project : release'.source[p] >= release.source[p]]_vars
  BY <1>1
<1> QED
  BY <1>2, BuildInvariant, PTL DEF Spec, ReleaseNeverBack
=============================================================================
