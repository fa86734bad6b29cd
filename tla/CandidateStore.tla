--------------------------- MODULE CandidateStore ---------------------------
(***************************************************************************)
(* The candidate of one module (l1/server/layer_1_external/candidate):     *)
(* candidatePublish, candidateMarkResult and candidateRead over the        *)
(* key/item table of candidatePostgres.ts.                                 *)
(*                                                                         *)
(* A call reads records one query at a time, stages its files one insert   *)
(* at a time and ends with one transaction that locks the pointer row; each *)
(* of those is one step.  Files, snapshots, requests and results are only  *)
(* ever inserted, so the reads that check them again are part of the step  *)
(* that finds their names.  A hash stands for what it is the hash of;      *)
(* input validation, owner and organisation are left out.                  *)
(***************************************************************************)
EXTENDS Naturals

CONSTANTS
  Name,      \* <<changeId, revisionId>> names callers give to revisions
  Content,   \* snapshots
  Path,      \* the paths of files, as numbers in their order
  File,      \* File[c][p]: the bytes of file p in snapshot c, for each path c has
  ResultId, RequestId,
  Caller,
  None,
  MaxCalls   \* bound: calls made

RevIds == {n[2] : n \in Name}

Results ==
  [id : ResultId, revision : RevIds, content : Content, number : Nat,
   status : {"completed", "failed"}, output : Content]

\* What became of a revision.
Outcomes == [status : {"completed", "failed"}, output : Content]

Supersedes == [name : Name, number : Nat]

Pointers ==
  [name : Name, content : Content, number : Nat \ {0}, result : Results \union {None},
   source : Results \union {None}, supersedes : Supersedes \union {None}]

ASSUME ConstantsAssumption ==
  /\ Path \subseteq Nat \ {0}
  /\ DOMAIN File = Content
  /\ \A c \in Content : DOMAIN File[c] \subseteq Path /\ DOMAIN File[c] # {}
  /\ None \notin Name \union RevIds \union Content \union ResultId \union RequestId
  /\ None \notin Results /\ None \notin Outcomes /\ None \notin Supersedes /\ None \notin Pointers
  /\ MaxCalls \in Nat

VARIABLES
  pointer,    \* the record at .../active, or None
  snapshots,  \* the pointers stored in the snapshot records, by name
  requests,   \* the request records, by requestId
  results,    \* the result records, by resultId
  files,      \* staged files: <<owner name or resultId, path, bytes>>
  pc, job,    \* where each call is, and what it asks
  seen,       \* the pointer it read; for a publication, the one it will write
  done,       \* path of the last file it staged, or 0; for a read, attempts made
  answer,     \* what it was answered
  calls       \* calls made so far

store == <<pointer, snapshots, requests, results, files>>
vars  == <<store, pc, job, seen, done, answer, calls>>

Pointer(n, c, k, source, supersedes) ==
  [name |-> n, content |-> c, number |-> k, result |-> None,
   source |-> source, supersedes |-> supersedes]

RevisionId(p) == IF p = None THEN None ELSE p.name[2]
Number(p) == IF p = None THEN 0 ELSE p.number
NextNumber(p) == Number(p) + 1

\* What a call asks.  A request that leaves no trace but a 400 is not made.
NoJob == [op |-> "none"]

\* Names and results callers have seen: those in the records.
Published == {n \in Name : snapshots[n] # None}
Recorded  == {results[i] : i \in ResultId} \ {None}

\* A first publication, one with the permit of a result, one that supersedes.
\* A permit names the recorded result whose output it lets publish.
Publications ==
  LET publication(e, permit, supersede) ==
        {[op |-> "publish", request |-> q, expected |-> e, name |-> n, content |-> c,
          permit |-> permit, supersede |-> supersede] :
           q \in RequestId, n \in Name, c \in Content}
  IN publication(None, None, None)
     \union (UNION {publication(r.revision, r, None) : r \in Recorded})
     \union (UNION {publication(n[2], None, n) : n \in Published})

\* An agent's result for a revision that was published.
Marks ==
  {[op |-> "mark", result |-> [id |-> i, revision |-> n[2], content |-> snapshots[n].content,
                               number |-> snapshots[n].number, status |-> s, output |-> o]] :
     i \in ResultId, n \in Published, s \in {"completed", "failed"}, o \in Content}

NoAnswer == [status |-> "none", pointer |-> None]

Init ==
  /\ pointer   = None
  /\ snapshots = [n \in Name |-> None]
  /\ requests  = [q \in RequestId |-> None]
  /\ results   = [i \in ResultId |-> None]
  /\ files     = {}
  /\ pc        = [c \in Caller |-> "idle"]
  /\ job       = [c \in Caller |-> NoJob]
  /\ seen      = [c \in Caller |-> None]
  /\ done      = [c \in Caller |-> 0]
  /\ answer    = [c \in Caller |-> NoAnswer]
  /\ calls     = 0

-----------------------------------------------------------------------------
(* Calls and answers.                                                        *)

Ask(c, j, next) ==
  /\ pc[c] = "idle" /\ calls < MaxCalls
  /\ calls' = calls + 1
  /\ job' = [job EXCEPT ![c] = j]
  /\ pc' = [pc EXCEPT ![c] = next]
  /\ answer' = [answer EXCEPT ![c] = NoAnswer]
  /\ UNCHANGED <<store, seen, done>>

candidatePublish(c) == \E j \in Publications : Ask(c, j, "request")
candidateMarkResult(c) == \E j \in Marks : Ask(c, j, "pointer")
candidateRead(c) == Ask(c, [op |-> "read"], "pointer")

Answer(c, status, p) ==
  /\ pc' = [pc EXCEPT ![c] = "idle"]
  /\ answer' = [answer EXCEPT ![c] = [status |-> status, pointer |-> p]]
  /\ seen' = [seen EXCEPT ![c] = None]
  /\ done' = [done EXCEPT ![c] = 0]
  /\ job' = [job EXCEPT ![c] = NoJob]
  /\ UNCHANGED calls

GoTo(c, next) == pc' = [pc EXCEPT ![c] = next] /\ UNCHANGED <<job, answer, calls>>

\* The hub dies, a query fails, or the caller stops waiting.
Fail(c) == pc[c] # "idle" /\ Answer(c, "error", None) /\ UNCHANGED store

-----------------------------------------------------------------------------
(* What a call finds in the records.                                         *)

\* parsePointer: a predecessor is older and has another revisionId.
Corrupt(p) ==
  /\ p # None
  /\ \/ p.source # None /\ (p.source.number >= p.number \/ p.source.revision = p.name[2])
     \/ p.supersedes # None /\ (p.supersedes.number >= p.number
                                \/ p.supersedes.name[2] = p.name[2])

Staged(owner, content) ==
  \A p \in DOMAIN File[content] : <<owner, p, File[content][p]>> \in files

\* verifiedSnapshot
SnapshotVerified(p) ==
  /\ snapshots[p.name] # None /\ snapshots[p.name].content = p.content
  /\ Staged(p.name, p.content)

\* verifiedResultOutput
OutputVerified(r) == Staged(r.id, r.output)

\* verifiedResult of a pointer with a result, verifiedSourceResult of one without.
ResultVerified(p) ==
  IF p.result # None
  THEN results[p.result.id] = p.result /\ OutputVerified(p.result)
  ELSE p.source # None =>
         results[p.source.id] = p.source /\ p.source.output = p.content

SameRequestId(q, j) == q.expected = j.expected /\ q.permit = j.permit
SameRequest(q, j) ==
  /\ q.expected = j.expected /\ q.pointer.name = j.name
  /\ q.pointer.content = j.content
  /\ q.permit = j.permit /\ q.supersede = j.supersede

AnswerRequest(c) ==
  LET q == requests[job[c].request] IN
  IF SameRequest(q, job[c]) /\ SnapshotVerified(q.pointer)
  THEN Answer(c, "committed", q.pointer)
  ELSE Answer(c, "error", None)

\* verifyPublishPermit: the pointer still carries the permit's result.
PermitVerified(p, j) ==
  /\ j.permit = p.result
  /\ j.permit.revision = j.expected /\ p.name[2] = j.expected
  /\ ResultVerified(p)
  /\ j.permit.status = "completed" /\ j.permit.output = j.content

SupersedeVerified(p, j) == j.supersede = p.name /\ j.name[2] # p.name[2]

-----------------------------------------------------------------------------
(* candidatePublish.                                                         *)

ReadRequest(c) ==
  /\ pc[c] = "request"
  /\ IF requests[job[c].request] # None THEN AnswerRequest(c)
     ELSE GoTo(c, "pointer") /\ UNCHANGED <<seen, done>>
  /\ UNCHANGED store

ReadPointerToPublish(c) ==
  LET j == job[c]
      next == Pointer(j.name, j.content, NextNumber(pointer), j.permit,
                      IF j.supersede = None THEN None
                      ELSE [name |-> pointer.name, number |-> pointer.number])
  IN
  /\ pc[c] = "pointer" /\ j.op = "publish"
  /\ \/ Corrupt(pointer) /\ Answer(c, "error", None)
     \/ /\ ~Corrupt(pointer) /\ RevisionId(pointer) # j.expected
        /\ Answer(c, "conflict", pointer)
     \/ /\ ~Corrupt(pointer) /\ RevisionId(pointer) = j.expected
        /\ IF \/ j.expected = None
              \/ j.supersede # None /\ SupersedeVerified(pointer, j)
              \/ j.permit # None /\ PermitVerified(pointer, j)
           THEN /\ GoTo(c, "stage")
                /\ seen' = [seen EXCEPT ![c] = next]
                /\ UNCHANGED done
           ELSE Answer(c, "error", None)
  /\ UNCHANGED store

\* stagePreparedFiles, in the order of the paths.
Owner(c)   == IF job[c].op = "publish" THEN job[c].name ELSE job[c].result.id
Files(c)   == File[IF job[c].op = "publish" THEN job[c].content ELSE job[c].result.output]
ToStage(c) == {p \in DOMAIN Files(c) : p > done[c]}

\* Faulty variants: one snapshot is staged from its end, the last file is left out.
UnsortedPath(c, p) ==
  IF Files(c) = File[CHOOSE x \in Content : TRUE]
  THEN \A q \in ToStage(c) : q <= p ELSE \A q \in ToStage(c) : p <= q
LastFileButOne(c, p) == \A q \in ToStage(c) : q <= p + 1

NextPath(c, p) == \A q \in ToStage(c) : p <= q
LastFile(c, p) == \A q \in ToStage(c) : q <= p

Conflicts(c, p) ==
  \E f \in files : f[1] = Owner(c) /\ f[2] = p /\ f[3] # Files(c)[p]

StageFile(c) ==
  /\ pc[c] = "stage"
  /\ \E p \in ToStage(c) :
       /\ NextPath(c, p)
       /\ IF Conflicts(c, p) THEN Answer(c, "error", None) /\ UNCHANGED files
          ELSE /\ files' = files \union {<<Owner(c), p, Files(c)[p]>>}
               /\ done' = [done EXCEPT ![c] = p]
               /\ GoTo(c, IF ~LastFile(c, p) THEN "stage"
                          ELSE IF job[c].op = "publish" THEN "commit" ELSE "prior")
               /\ UNCHANGED seen
  /\ UNCHANGED <<pointer, snapshots, requests, results>>

\* The condition on the locked pointer row.
commitAllowed(p, j, next) ==
  IF j.expected = None THEN p = None
  ELSE /\ p # None
       /\ IF j.supersede # None
          THEN /\ p.name = next.supersedes.name /\ p.name[2] = j.expected
               /\ p.number = next.supersedes.number
               /\ next.number = p.number + 1 /\ next.name[2] # p.name[2]
          ELSE /\ p.name[2] = j.expected /\ p.content = j.permit.content
               /\ p.number = next.number - 1 /\ p.result = j.permit

CommitsTo(c) ==
  /\ commitAllowed(pointer, job[c], seen[c])
  /\ snapshots[job[c].name] = None
  /\ requests[job[c].request] = None

\* The transaction; its answer may be lost.
Commit(c) ==
  /\ pc[c] = "commit" /\ job[c].op = "publish"
  /\ CommitsTo(c)
  /\ pointer' = seen[c]
  /\ snapshots' = [snapshots EXCEPT ![job[c].name] = seen[c]]
  /\ requests' = [requests EXCEPT ![job[c].request] =
       [expected |-> job[c].expected, pointer |-> seen[c],
        permit |-> job[c].permit, supersede |-> job[c].supersede]]
  /\ \/ Answer(c, "committed", seen[c])
     \/ Answer(c, "error", None)
  /\ UNCHANGED <<results, files>>

CommitRefused(c) ==
  /\ pc[c] = "commit" /\ job[c].op = "publish"
  /\ ~CommitsTo(c)
  /\ GoTo(c, "recheck")
  /\ UNCHANGED <<store, seen, done>>

ReadRequestAgain(c) ==
  /\ pc[c] = "recheck"
  /\ IF requests[job[c].request] # None THEN AnswerRequest(c)
     ELSE GoTo(c, "winner") /\ UNCHANGED <<seen, done>>
  /\ UNCHANGED store

ReadWinner(c) ==
  /\ pc[c] = "winner"
  /\ IF Corrupt(pointer) THEN Answer(c, "error", None)
     ELSE Answer(c, "conflict", pointer)
  /\ UNCHANGED store

-----------------------------------------------------------------------------
(* candidateMarkResult.                                                      *)

IsCurrent(p, r) ==
  p # None /\ p.name[2] = r.revision /\ p.content = r.content /\ p.number = r.number

\* sameArtifactPaths: the output of a completed result has the paths of its input.
SamePaths(r) == r.status = "completed" => DOMAIN File[r.output] = DOMAIN File[r.content]

ReadPointerToMark(c) ==
  /\ pc[c] = "pointer" /\ job[c].op = "mark"
  /\ \/ Corrupt(pointer) /\ Answer(c, "error", None)
     \/ /\ ~Corrupt(pointer) /\ ~IsCurrent(pointer, job[c].result)
        /\ Answer(c, "conflict", pointer)
     \/ /\ ~Corrupt(pointer) /\ IsCurrent(pointer, job[c].result)
        /\ IF SnapshotVerified(pointer) /\ SamePaths(job[c].result)
           THEN GoTo(c, "stage") /\ seen' = [seen EXCEPT ![c] = pointer] /\ UNCHANGED done
           ELSE Answer(c, "error", None)
  /\ UNCHANGED store

\* sameResult: an earlier call recorded it, or another result under its id.
ReadPriorResult(c) ==
  LET prior == results[job[c].result.id] IN
  /\ pc[c] = "prior"
  /\ \/ prior # None /\ prior # job[c].result /\ Answer(c, "error", None)
     \/ prior = job[c].result /\ GoTo(c, "confirm") /\ UNCHANGED <<seen, done>>
     \/ prior = None /\ seen[c].result # None /\ Answer(c, "conflict", seen[c])
     \/ prior = None /\ seen[c].result = None
        /\ GoTo(c, "commit") /\ UNCHANGED <<seen, done>>
  /\ UNCHANGED store

\* commitResultAllowed
commitResultAnyway(p, r) == IsCurrent(p, r)
commitResultAllowed(p, r) == IsCurrent(p, r) /\ p.result = None

CommitResult(c) ==
  LET r == job[c].result IN
  /\ pc[c] = "commit" /\ job[c].op = "mark"
  /\ IF commitResultAllowed(pointer, r) /\ results[r.id] = None
     THEN /\ results' = [results EXCEPT ![r.id] = r]
          /\ pointer' = [pointer EXCEPT !.result = r]
     ELSE UNCHANGED <<results, pointer>>
  /\ GoTo(c, "confirm")
  /\ UNCHANGED <<snapshots, requests, files, seen, done>>

ConfirmMark(c) ==
  /\ pc[c] = "confirm" /\ job[c].op = "mark"
  /\ IF Corrupt(pointer) THEN Answer(c, "error", None)
     ELSE IF IsCurrent(pointer, job[c].result) /\ pointer.result = job[c].result
     THEN Answer(c, "marked", pointer)
     ELSE Answer(c, "conflict", pointer)
  /\ UNCHANGED store

-----------------------------------------------------------------------------
(* candidateRead.                                                            *)

ReadPointerToRead(c) ==
  /\ pc[c] = "pointer" /\ job[c].op = "read"
  /\ IF Corrupt(pointer) THEN Answer(c, "error", None)
     ELSE /\ GoTo(c, "confirm")
          /\ seen' = [seen EXCEPT ![c] = pointer]
          /\ done' = [done EXCEPT ![c] = @ + 1]
  /\ UNCHANGED store

ConfirmRead(c) ==
  /\ pc[c] = "confirm" /\ job[c].op = "read"
  /\ \/ /\ seen[c] = pointer
        /\ Answer(c, IF pointer = None \/ (SnapshotVerified(pointer) /\ ResultVerified(pointer))
                     THEN "read" ELSE "error", pointer)
     \/ /\ seen[c] # pointer
        /\ IF done[c] < 2 /\ ~Corrupt(pointer) THEN GoTo(c, "pointer") /\ UNCHANGED <<seen, done>>
           ELSE Answer(c, "error", None)
  /\ UNCHANGED store

Next ==
  \E c \in Caller :
    \/ candidatePublish(c) \/ candidateMarkResult(c) \/ candidateRead(c)
    \/ ReadRequest(c) \/ ReadPointerToPublish(c) \/ StageFile(c)
    \/ Commit(c) \/ CommitRefused(c) \/ ReadRequestAgain(c) \/ ReadWinner(c)
    \/ ReadPointerToMark(c) \/ ReadPriorResult(c) \/ CommitResult(c) \/ ConfirmMark(c)
    \/ ReadPointerToRead(c) \/ ConfirmRead(c)
    \/ Fail(c)

Spec == Init /\ [][Next]_vars
-----------------------------------------------------------------------------
(* Properties.                                                               *)

\* Whatever the order of calls, failures and lost answers, the pointer never
\* names a snapshot, a result or a source result that candidateRead would
\* report as missing or different (verifiedSnapshot, verifiedResult and
\* verifiedSourceResult in candidateStore.ts).
NothingDangling ==
  pointer # None => SnapshotVerified(pointer) /\ ResultVerified(pointer)

\* A call that fails between two files leaves files behind, and callers with
\* other snapshots, of other paths, may have left theirs under the same name.
\* One of the snapshots that were tried can still be staged: it finds no other
\* bytes at any of its paths (stagePreparedFiles stages in path order, so the
\* one that came furthest has found its own bytes everywhere before).
StagedFilesAgree ==
  \A owner \in {f[1] : f \in files} :
    \E c \in Content :
      /\ \E p \in DOMAIN File[c] : <<owner, p, File[c][p]>> \in files
      /\ \A f \in files :
           f[1] = owner /\ f[2] \in DOMAIN File[c] => f[3] = File[c][f[2]]

\* What a caller is told is so at that moment: a committed publication is in
\* the records exactly as asked and follows the revision it expected, a
\* marked result is the one its revision carries, and a read shows the pointer
\* that is active.
Follows(p, e) ==
  IF e = None THEN p.number = 1
  ELSE \E n \in Published : n[2] = e /\ snapshots[n].number = p.number - 1
AnswerHolds(j, a) ==
  CASE a.status = "committed" ->
         /\ a.pointer.name = j.name /\ a.pointer.content = j.content
         /\ snapshots[j.name] = a.pointer /\ Follows(a.pointer, j.expected)
    [] a.status = "marked" ->
         results[j.result.id] = j.result /\ pointer.result = j.result
    [] a.status = "read" -> a.pointer = pointer
    [] OTHER -> TRUE
AnswersHold ==
  [][\A c \in Caller : \A j \in {job[c]} :
       answer'[c] # answer[c] => AnswerHolds(j, answer[c])']_vars

\* The records implement one chain of revisions: the n-th is the snapshot with
\* number n, with the result recorded for it.
SnapshotOf(k) == snapshots[CHOOSE n \in Published : snapshots[n].number = k]
ResultOf(p) ==
  LET own == {r \in Recorded : r.number = p.number} IN
  IF own = {} THEN None ELSE CHOOSE r \in own : TRUE
chain ==
  [k \in 1..Number(pointer) |->
     LET p == SnapshotOf(k)
         r == ResultOf(p)
     IN [name |-> p.name, content |-> p.content,
         how |-> IF p.source # None THEN "adopted"
                 ELSE IF p.supersedes # None THEN "superseding" ELSE "first",
         result |-> IF r = None THEN None ELSE [status |-> r.status, output |-> r.output]]]
Chain == INSTANCE RevisionChain WITH
  Result <- Outcomes, NoResult <- None
ImplementsChain == Chain!Spec

\* The store never writes a pointer that its own reader rejects as corrupt.
PointerIsReadable == ~Corrupt(pointer)
=============================================================================
