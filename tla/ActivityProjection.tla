------------------------- MODULE ActivityProjection -------------------------
(***************************************************************************)
(* The read model of workflow activities (l1/workflow/activities*.ts): one  *)
(* occurrence, whose task lives in the external task service (CM), and the  *)
(* header and activity rows that are derived from it in PostgreSQL.         *)
(*                                                                         *)
(* Every open, find and advance through the synchronising port, and every   *)
(* page of a rebuild, refreshes the rows: a transaction takes the advisory  *)
(* lock of the occurrence, reads the task, and replaces the rows.           *)
(***************************************************************************)
EXTENDS Naturals, Sequences, FiniteSets

CONSTANTS
  Caller,      \* calls of the port and of the rebuild, in any process
  Step,        \* the steps of the plan
  next,        \* the plan: what each step lists as its next steps
  NoCaller, NoStep,
  Lag,         \* by how many revisions an answer of CM may be old
  MaxRevision, \* bound: passages of the task
  MaxFaults    \* bound: timeouts, lost answers, lost connections and crashes

ASSUME ConstantsAssumption ==
  /\ NoCaller \notin Caller /\ NoStep \notin Step
  /\ next \in [Step -> SUBSET Step]
  /\ Lag \in Nat /\ MaxRevision \in Nat /\ MaxFaults \in Nat

VARIABLES
  history,    \* CM: the passages of the task; its revision is their number
  header,     \* the revision in the stored header; 0 when there is none
  activities, \* the stored activity rows
  holder,     \* who holds the advisory lock of the occurrence
  pc, kind,   \* where each caller is, and what it calls
  seen,       \* the revision its loader read; 0 is "not found"
  connected,  \* whether it still has its database connection
  lagging,    \* history: a refresh failed, was skipped or read an old answer
  faults

task   == <<history, faults>>
stored == <<header, activities>>
calls  == <<pc, kind, seen, connected>>
vars == <<task, stored, holder, calls, lagging>>

Passage == [from : Step \union {NoStep}, step : Step, done : BOOLEAN]
revision == Len(history)

\* Callers, the lock, the task's history and the stored rows have the shapes the
\* code gives them: the rows are a header of a known revision or nothing.
TypeOK ==
  /\ history \in Seq(Passage)
  /\ header \in Nat
  /\ holder \in Caller \union {NoCaller}
  /\ pc \in [Caller -> {"idle", "wait", "locked", "loaded", "fallback"}]
  /\ kind \in [Caller -> {"none", "open", "advance", "find", "rebuild"}]
  /\ seen \in [Caller -> Nat]
  /\ connected \in [Caller -> BOOLEAN]
  /\ lagging \in BOOLEAN
  /\ faults \in Nat

Init ==
  /\ history = <<>> /\ header = 0 /\ activities = <<>>
  /\ holder = NoCaller
  /\ pc = [c \in Caller |-> "idle"] /\ kind = [c \in Caller |-> "none"]
  /\ seen = [c \in Caller |-> 0] /\ connected = [c \in Caller |-> TRUE]
  /\ lagging = FALSE /\ faults = 0

-----------------------------------------------------------------------------
(* The projection of a task's passages (projectWorkflowActivities).          *)

Future == [s \in Step |-> [state |-> "future", pass |-> 0]]

StayActive(p, e) == p.visits
Left(p, e) == IF p.current # NoStep /\ e.from # e.step
              THEN [p.visits EXCEPT ![p.current].state = "completed"] ELSE p.visits

\* One passage: what it does to the visits, and whether it makes sense.
Follow(p, e) ==
  [valid   |-> p.valid /\ ~p.closed /\ e.from = p.current /\ (e.done => e.from = e.step),
   closed  |-> e.done,
   current |-> IF e.done THEN NoStep ELSE e.step,
   visits  |-> [Left(p, e) EXCEPT ![e.step] =
                  [state |-> IF e.done THEN "completed" ELSE "active",
                   pass  |-> IF e.from # e.step THEN @.pass + 1 ELSE @.pass]]]

ViewAfter(h) ==
  LET view[n \in 0..Len(h)] ==
        IF n = 0 THEN [valid |-> TRUE, closed |-> FALSE, current |-> NoStep, visits |-> Future]
        ELSE Follow(view[n - 1], h[n])
  IN view[Len(h)]

\* The task as it was at revision n.
At(n) == [i \in 1..n |-> history[i]]
projected(n) == IF n = 0 THEN <<>> ELSE ViewAfter(At(n)).visits

\* canReach: the steps that can follow a step, in any number of passages.
Reach(s) ==
  LET within[n \in Nat] == IF n = 0 THEN {s}
                           ELSE within[n - 1] \union UNION {next[t] : t \in within[n - 1]}
  IN within[Cardinality(Step)]

-----------------------------------------------------------------------------
(* Calls.                                                                    *)

Begin(c, k) ==
  /\ pc[c] = "idle"
  /\ pc' = [pc EXCEPT ![c] = "wait"]
  /\ kind' = [kind EXCEPT ![c] = k]
  /\ UNCHANGED <<stored, holder, seen, connected, lagging>>

\* A task that exists is answered as it is.
open(c) ==
  /\ Begin(c, "open")
  /\ \/ history # <<>> /\ UNCHANGED history
     \/ \E s \in Step : history = <<>> /\
          history' = <<[from |-> NoStep, step |-> s, done |-> FALSE]>>
  /\ UNCHANGED faults

\* The engine checks that the plan reaches the target; CM applies the command
\* if it names the task's revision and step.  Closing keeps the step.
CloseAt(last) == last.step

Advanced ==
  LET last == history[revision] IN
  /\ history # <<>> /\ revision < MaxRevision
  /\ ~last.done
  /\ \/ \E to \in Step :
          /\ to \in Reach(last.step)
          /\ history' = Append(history, [from |-> last.step, step |-> to, done |-> FALSE])
     \/ history' = Append(history, [from |-> last.step, step |-> CloseAt(last), done |-> TRUE])

\* A conflict, a pause or a repeated command changes nothing and refreshes too.
advance(c) ==
  /\ Begin(c, "advance")
  /\ history # <<>>
  /\ Advanced \/ UNCHANGED history
  /\ UNCHANGED faults

find(c) == Begin(c, "find") /\ UNCHANGED task
rebuild(c) == Begin(c, "rebuild") /\ history # <<>> /\ UNCHANGED task

Fault == faults < MaxFaults /\ faults' = faults + 1

\* CM applied the command, but its answer was lost: no refresh follows.
AnswerLost(c) ==
  /\ pc[c] = "idle"
  /\ Fault /\ Advanced
  /\ lagging' = TRUE
  /\ UNCHANGED <<stored, holder, calls>>

-----------------------------------------------------------------------------
(* Refresh: one transaction.                                                 *)

Unlock(c) == holder' = IF holder = c THEN NoCaller ELSE holder

Return(c) ==
  /\ pc' = [pc EXCEPT ![c] = "idle"] /\ kind' = [kind EXCEPT ![c] = "none"]
  /\ seen' = [seen EXCEPT ![c] = 0]
  /\ connected' = [connected EXCEPT ![c] = TRUE]

\* The transaction is rolled back.  find falls back on a plain read if there
\* was none; the others log the lag or count the failure.
Fail(c, fallback) ==
  /\ Unlock(c)
  /\ lagging' = TRUE
  /\ IF fallback /\ kind[c] = "find"
     THEN /\ pc' = [pc EXCEPT ![c] = "fallback"]
          /\ connected' = [connected EXCEPT ![c] = TRUE]
          /\ UNCHANGED <<kind, seen>>
     ELSE Return(c)
  /\ UNCHANGED <<history, stored>>

Anyway == TRUE
Free == holder = NoCaller

Lock(c) ==
  /\ pc[c] = "wait" /\ Free
  /\ holder' = c
  /\ pc' = [pc EXCEPT ![c] = "locked"]
  /\ UNCHANGED <<task, stored, kind, seen, connected, lagging>>

\* lock_timeout is shorter than what the holder may wait for CM.
LockTimeout(c) ==
  /\ pc[c] = "wait" /\ ~Free
  /\ Fault /\ Fail(c, TRUE)

Load(c) ==
  /\ pc[c] = "locked"
  /\ \E r \in 0..revision :
       /\ r + Lag >= revision
       /\ seen' = [seen EXCEPT ![c] = r]
       /\ lagging' = (lagging \/ r < revision)
  /\ pc' = [pc EXCEPT ![c] = "loaded"]
  /\ UNCHANGED <<task, stored, holder, kind, connected>>

\* The loader throws, or does not answer in time; a late answer is dropped.
LoadFails(c) == pc[c] = "locked" /\ Fault /\ Fail(c, FALSE)

AnyOrder(r) == TRUE
NotOlder(r) == header = 0 \/ r >= header

KeepRows(r) == header' = r /\ activities' = IF activities = <<>> THEN projected(r) ELSE activities
\* deleteRef, insertHeader and insertActivities.
Replace(r) == header' = r /\ activities' = projected(r)

Refreshed(c) ==
  /\ pc[c] = "loaded" /\ connected[c]
  /\ seen[c] = 0 \/ NotOlder(seen[c])
  /\ Replace(seen[c])
  /\ lagging' = (lagging /\ seen[c] # revision)
  /\ Unlock(c) /\ Return(c)
  /\ UNCHANGED task

SourceStale(c) ==
  /\ pc[c] = "loaded" /\ connected[c]
  /\ seen[c] # 0 /\ ~NotOlder(seen[c])
  /\ Fail(c, FALSE) /\ UNCHANGED faults

\* The database ends the transaction; the loader goes on.
LoseConnection(c) ==
  /\ pc[c] \in {"locked", "loaded"} /\ connected[c]
  /\ Fault /\ Unlock(c)
  /\ connected' = [connected EXCEPT ![c] = FALSE]
  /\ UNCHANGED <<history, stored, pc, kind, seen, lagging>>

CannotWrite(c) ==
  /\ pc[c] = "loaded" /\ ~connected[c]
  /\ Fail(c, FALSE) /\ UNCHANGED faults

Fallback(c) ==
  /\ pc[c] = "fallback"
  /\ Return(c)
  /\ UNCHANGED <<task, stored, holder, lagging>>

Crash(c) ==
  /\ pc[c] \in {"wait", "locked", "loaded"}
  /\ Fault /\ Unlock(c) /\ Return(c)
  /\ lagging' = TRUE
  /\ UNCHANGED <<history, stored>>

Next ==
  \E c \in Caller :
    \/ open(c) \/ advance(c) \/ find(c) \/ rebuild(c) \/ AnswerLost(c)
    \/ Lock(c) \/ LockTimeout(c) \/ Load(c) \/ LoadFails(c)
    \/ Refreshed(c) \/ SourceStale(c) \/ LoseConnection(c) \/ CannotWrite(c)
    \/ Fallback(c) \/ Crash(c)

Spec == Init /\ [][Next]_vars

-----------------------------------------------------------------------------
(* Properties                                                                *)

\* Whatever the engine lets into a task can be projected; the rows show one
\* active activity, the task's step, until it is closed, and none afterwards.
EveryTaskIsProjectable ==
  history # <<>> =>
    LET view == ViewAfter(history)
        active == {s \in Step : view.visits[s].state = "active"}
    IN /\ view.valid
       /\ active = IF history[revision].done THEN {} ELSE {history[revision].step}

\* Header and activities are of one revision that the task really had, although
\* the task moves on, callers lose their lock and others replace the rows.
RowsAreOfOneRevision == header <= revision /\ activities = projected(header)

\* The projection never goes back to an older revision, but for a "not found".
NeverBack == [][header' < header => header' = 0]_vars

\* The projection is behind the task only while a refresh that will catch up is
\* under way, or after one failed, was skipped or was given an old answer.
BehindIsKnown ==
  \/ header = revision
  \/ lagging
  \/ \E c \in Caller : \/ pc[c] \in {"wait", "locked"}
                       \/ pc[c] = "loaded" /\ seen[c] = revision
=============================================================================
