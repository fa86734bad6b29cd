----------------------------- MODULE WakeInbox -----------------------------
(***************************************************************************)
(* Delivery of workflow wakes: the durable inbox                           *)
(* (l1/workflow/wakeInboxPostgres.ts), the dispatcher that decides what a  *)
(* firing is worth (wakeDispatch.ts) and the worker processes that drain   *)
(* the inbox.                                                              *)
(*                                                                         *)
(* One row per firing.  runNext keeps ONE transaction open over the whole  *)
(* dispatch: it owns the row lock and the advisory lock of the occurrence  *)
(* until commit, rollback or the loss of its connection.  A worker whose   *)
(* connection is lost goes on running its handler without any lock.        *)
(*                                                                         *)
(* The task service (CM) that owns the tasks is external.  It is modelled  *)
(* from its use in src/: a task is a sequence of versions, an advance      *)
(* carries the expected revision and a command id, a replayed command is   *)
(* answered "unchanged", a paused task refuses.                            *)
(***************************************************************************)
EXTENDS Naturals, Sequences

CONSTANTS
  Event,        \* firings (eventId)
  Occ,          \* workflow occurrences
  Worker,       \* processes that call runNext
  OccOf,        \* the occurrence a firing belongs to
  SeqOf,        \* the wake sequence number a firing carries
  NoEvent,      \* "no firing"
  MaxRevision,  \* bound: versions per task
  MaxFaults     \* bound: failed calls, stale or missing reads, lost connections

ASSUME ConstantsAssumption ==
  /\ OccOf \in [Event -> Occ]
  /\ SeqOf \in [Event -> Nat \ {0}]
  /\ NoEvent \notin Event
  /\ MaxRevision \in Nat \ {0}
  /\ MaxFaults \in Nat

VARIABLES
  row,        \* "none", "pending", or the outcome of the completed row
  storedRev,  \* revision in the stored payload (the first delivery wins)
  delayed,    \* pending rows whose nextAttemptAt is in the future
  earlier,    \* earlier[e]: the due rows with a nextAttemptAt before e's
  pc,         \* where each worker is in runNext
  held,       \* the firing it works on
  linked,     \* FALSE once its connection, hence every lock, is lost
  snap,       \* the revision of the snapshot its dispatch read
  verdict,    \* the result of its dispatch
  versions,   \* external: the versions of each task
  expired,    \* firings whose wake.until has passed
  faults,     \* faults so far (bounds the model)
  served,     \* history: firings whose handler took effect or returned
  told,       \* history: the outcomes reported by a 200 receipt
  missed      \* history: firings whose dispatch was told "not found"

inboxVars  == <<row, storedRev, delayed, earlier>>
workerVars == <<pc, held, linked, snap, verdict>>
worldVars  == <<versions, expired>>
histVars   == <<served, told, missed>>
vars == <<inboxVars, workerVars, worldVars, faults, histVars>>

Outcome  == {"accepted", "stale"}

\* What a dispatch tells apart.  "suspended": paused, not in progress, or at a
\* step its plan does not have.  "foreign": the record answers with another
\* task or another workflow version than the firing's.
Mode     == {"running", "suspended", "foreign", "done", "gone"}
Moving   == Mode \ {"done", "gone"}
Version  == [seq : Nat, mode : Mode, by : Event \union {NoEvent}]

\* state = 'pending' AND nextAttemptAt <= NOW().
Due == {e \in Event : row[e] = "pending" /\ e \notin delayed}

\* Rows, locks, workers and tasks have the shapes of the inbox table and of the
\* values a dispatch passes on.
TypeOK ==
  /\ row \in [Event -> {"none", "pending"} \union Outcome]
  /\ storedRev \in [Event -> Nat]
  /\ delayed \subseteq Event
  /\ earlier \in [Event -> SUBSET Event]
  /\ pc \in [Worker -> {"idle", "locked", "find", "handle", "commit"}]
  /\ held \in [Worker -> Event \union {NoEvent}]
  /\ linked \in [Worker -> BOOLEAN]
  /\ snap \in [Worker -> Nat]
  /\ verdict \in [Worker -> Outcome \union {"retry", "none"}]
  /\ versions \in [Occ -> Seq(Version) \ {<<>>}]
  /\ expired \subseteq Event
  /\ faults \in Nat
  /\ served \subseteq Event
  /\ told \in [Event -> SUBSET Outcome]
  /\ missed \subseteq Event
  /\ \A e \in delayed : row[e] = "pending"
  /\ \A e \in Event : earlier[e] \subseteq Due \ {e}

Init ==
  /\ row       = [e \in Event |-> "none"]
  /\ storedRev = [e \in Event |-> 0]
  /\ delayed   = {}
  /\ earlier   = [e \in Event |-> {}]
  /\ pc        = [w \in Worker |-> "idle"]
  /\ held      = [w \in Worker |-> NoEvent]
  /\ linked    = [w \in Worker |-> TRUE]
  /\ snap      = [w \in Worker |-> 0]
  /\ verdict   = [w \in Worker |-> "none"]
  /\ versions  = [o \in Occ |-> << [seq |-> 1, mode |-> "running", by |-> NoEvent] >>]
  /\ expired   = {}
  /\ faults    = 0
  /\ served    = {}
  /\ told      = [e \in Event |-> {}]
  /\ missed    = {}

-----------------------------------------------------------------------------
(* The due queue, ordered by nextAttemptAt: a row that becomes due now comes  *)
(* after every row that is due already.                                      *)

JoinDue(e)  == earlier' = [earlier EXCEPT ![e] = Due \ {e}]
LeaveDue(e) == earlier' = [f \in Event |-> IF f = e THEN {} ELSE earlier[f] \ {e}]

(* Row locks and advisory locks live exactly as long as the transaction.     *)

HoldsRow(w, e) == linked[w] /\ pc[w] # "idle" /\ held[w] = e
RowLocked(e)   == \E w \in Worker : HoldsRow(w, e)

InDispatch(w, o) ==
  /\ pc[w] \in {"find", "handle", "commit"}
  /\ OccOf[held[w]] = o
HoldsOccurrence(w, o) == linked[w] /\ InDispatch(w, o)

Fault == faults < MaxFaults /\ faults' = faults + 1

-----------------------------------------------------------------------------
(* enqueue: one transaction; its INSERT or SELECT .. FOR UPDATE waits for    *)
(* the row lock.                                                             *)

\* The revisions a delivery of e can carry: versions at which its wake stood.
FiringRevisions(e) ==
  {r \in DOMAIN versions[OccOf[e]] :
     /\ versions[OccOf[e]][r].seq = SeqOf[e]
     /\ versions[OccOf[e]][r].mode = "running"}

Insert(e, r) ==
  /\ row[e] = "none"
  /\ row' = [row EXCEPT ![e] = "pending"]
  /\ storedRev' = [storedRev EXCEPT ![e] = r]
  /\ JoinDue(e)
  /\ UNCHANGED <<delayed, workerVars, worldVars, faults, histVars>>

Redeliver(e) ==
  /\ row[e] # "none"
  /\ ~RowLocked(e)
  /\ told' = [told EXCEPT ![e] = @ \union ({row[e]} \intersect Outcome)]
  /\ UNCHANGED <<inboxVars, workerVars, worldVars, faults, served, missed>>

Enqueue(e) ==
  \/ \E r \in FiringRevisions(e) : Insert(e, r)
  \/ Redeliver(e)

-----------------------------------------------------------------------------
(* runNext                                                                   *)

FirstDue(e) == earlier[e] = {}
Selectable(e) == ~RowLocked(e) /\ \A f \in earlier[e] : RowLocked(f)

LockDue(w) ==
  /\ pc[w] = "idle"
  /\ \E e \in Due :
       /\ Selectable(e)                        \* FOR UPDATE SKIP LOCKED LIMIT 1
       /\ held' = [held EXCEPT ![w] = e]
  /\ pc' = [pc EXCEPT ![w] = "locked"]
  /\ linked' = [linked EXCEPT ![w] = TRUE]
  /\ UNCHANGED <<inboxVars, snap, verdict, worldVars, faults, histVars>>

EndTx(w) ==
  /\ pc' = [pc EXCEPT ![w] = "idle"]
  /\ held' = [held EXCEPT ![w] = NoEvent]
  /\ linked' = [linked EXCEPT ![w] = TRUE]
  /\ snap' = [snap EXCEPT ![w] = 0]
  /\ verdict' = [verdict EXCEPT ![w] = "none"]

Later(e) == delayed' = delayed \union {e} /\ LeaveDue(e)

Busy(w) ==
  /\ pc[w] = "locked" /\ linked[w]
  /\ \E v \in Worker \ {w} : HoldsOccurrence(v, OccOf[held[w]])
  /\ Later(held[w])
  /\ EndTx(w)
  /\ UNCHANGED <<row, storedRev, worldVars, faults, histVars>>

LockOccurrence(w) ==
  /\ pc[w] = "locked" /\ linked[w]
  /\ ~\E v \in Worker \ {w} : HoldsOccurrence(v, OccOf[held[w]])
  /\ pc' = [pc EXCEPT ![w] = "find"]
  /\ UNCHANGED <<inboxVars, held, linked, snap, verdict, worldVars, faults, histVars>>

\* The firings whose command is in the history of version i of task o.
Applied(o, i) == {versions[o][k].by : k \in 1..i} \ {NoEvent}

\* dispatch's checks, in the order in which it makes them.
NoCommand(e, i) == FALSE
commandApplied(e, i) == e \in Applied(OccOf[e], i)

NotAfter(e, i) == i <= storedRev[e]
NeverBehind(e, i) == FALSE
Behind(e, i) == i < storedRev[e]

terminal(v) == v.mode = "done"

SameStepAnyway(e, v) == FALSE
stepPassSeqDiffers(e, v) == v.seq # SeqOf[e]

wakeUnusable(e) == e \in expired

Decide(e, i) ==
  LET v == versions[OccOf[e]][i] IN
  IF v.mode = "gone" THEN "stale"
  ELSE IF v.mode = "foreign" \/ Behind(e, i) THEN "retry"
  ELSE IF commandApplied(e, i) THEN "accepted"
  ELSE IF terminal(v) \/ stepPassSeqDiffers(e, v) \/ wakeUnusable(e) THEN "stale"
  ELSE IF v.mode = "suspended" THEN "retry"
  ELSE "run"

Conclude(w, result) ==
  /\ pc' = [pc EXCEPT ![w] = "commit"]
  /\ verdict' = [verdict EXCEPT ![w] = result]

\* port.find answers with the latest version or (a fault) with an older one ..
FindsVersion(w) ==
  /\ pc[w] = "find"
  /\ \E i \in DOMAIN versions[OccOf[held[w]]] :
       /\ IF i = Len(versions[OccOf[held[w]]]) THEN faults' = faults ELSE Fault
       /\ snap' = [snap EXCEPT ![w] = i]
       /\ LET d == Decide(held[w], i) IN
          IF d = "run" THEN /\ pc' = [pc EXCEPT ![w] = "handle"]
                            /\ verdict' = verdict
                       ELSE Conclude(w, d)
  /\ UNCHANGED <<inboxVars, held, linked, worldVars, histVars>>

\* .. or (a fault) with "not found" although the task is there: no revision is
\* left to compare, and the firing counts as stale.
FindsNothing(w) ==
  /\ pc[w] = "find"
  /\ Fault
  /\ Conclude(w, "stale")
  /\ missed' = missed \union {held[w]}
  /\ UNCHANGED <<inboxVars, held, linked, snap, worldVars, served, told>>

Find(w) == FindsVersion(w) \/ FindsNothing(w)

\* The context, the read, the handler lookup or the handler itself throws.
DispatchFails(w) ==
  /\ pc[w] \in {"find", "handle"}
  /\ Fault
  /\ Conclude(w, "retry")
  /\ UNCHANGED <<inboxVars, held, linked, snap, worldVars, histVars>>

\* The handler returns and leaves the task alone: nothing to do this period,
\* its command was already applied, or the task refused it (conflict, paused).
HandlerReturns(w) ==
  /\ pc[w] = "handle"
  /\ Conclude(w, "accepted")
  /\ served' = served \union {held[w]}
  /\ UNCHANGED <<inboxVars, held, linked, snap, worldVars, faults, told, missed>>

NextVersion(o, m, by) ==
  LET last == versions[o][Len(versions[o])] IN
  \E s \in {last.seq, last.seq + 1} :
    versions' = [versions EXCEPT ![o] = Append(@, [seq |-> s, mode |-> m, by |-> by])]

\* The handler advances the task with command wake:<eventId> and the revision
\* of its snapshot.  The answer may be lost, which the handler reports.
HandlerAdvances(w) ==
  LET e == held[w]
      o == OccOf[e] IN
  /\ pc[w] = "handle"
  /\ Len(versions[o]) < MaxRevision
  /\ snap[w] = Len(versions[o])
  /\ e \notin Applied(o, Len(versions[o]))
  /\ \E m \in {"running", "done"} : NextVersion(o, m, e)
  /\ \/ Conclude(w, "accepted") /\ faults' = faults
     \/ Conclude(w, "retry") /\ Fault
  /\ served' = served \union {e}
  /\ UNCHANGED <<inboxVars, held, linked, snap, expired, told, missed>>

\* The UPDATE and the COMMIT need the connection of the transaction.
ReadyAnyConnection(w) == pc[w] = "commit"
ReadyToCommit(w) == pc[w] = "commit" /\ linked[w]

Complete(w) ==
  /\ ReadyToCommit(w)
  /\ verdict[w] \in Outcome
  /\ row' = [row EXCEPT ![held[w]] = verdict[w]]
  /\ LeaveDue(held[w])
  /\ EndTx(w)
  /\ UNCHANGED <<storedRev, delayed, worldVars, faults, histVars>>

RetryLater(w) ==
  /\ ReadyToCommit(w)
  /\ verdict[w] = "retry"
  /\ Later(held[w])
  /\ EndTx(w)
  /\ UNCHANGED <<row, storedRev, worldVars, faults, histVars>>

\* The first query after the connection was lost throws: runNext rolls back.
Rollback(w) ==
  /\ pc[w] \in {"locked", "commit"} /\ ~linked[w]
  /\ EndTx(w)
  /\ UNCHANGED <<inboxVars, worldVars, faults, histVars>>

RunNext(w) ==
  \/ LockDue(w) \/ Busy(w) \/ LockOccurrence(w)
  \/ Find(w) \/ DispatchFails(w) \/ HandlerReturns(w) \/ HandlerAdvances(w)
  \/ Complete(w) \/ RetryLater(w) \/ Rollback(w)

-----------------------------------------------------------------------------
(* Faults and the world around the inbox                                     *)

LoseConnection(w) ==
  /\ pc[w] # "idle" /\ linked[w]
  /\ Fault
  /\ linked' = [linked EXCEPT ![w] = FALSE]
  /\ UNCHANGED <<inboxVars, pc, held, snap, verdict, worldVars, histVars>>

Crash(w) ==
  /\ pc[w] # "idle"
  /\ Fault
  /\ EndTx(w)
  /\ UNCHANGED <<inboxVars, worldVars, histVars>>

TimePasses(e) ==
  /\ row[e] = "pending" /\ e \in delayed
  /\ delayed' = delayed \ {e}
  /\ JoinDue(e)
  /\ UNCHANGED <<row, storedRev, workerVars, worldVars, faults, histVars>>

\* External: a person, another routine or an operator moves the task.
TaskMoves(o) ==
  LET last == versions[o][Len(versions[o])] IN
  /\ last.mode \in Moving
  /\ Len(versions[o]) < MaxRevision
  /\ \E m \in Mode : NextVersion(o, m, NoEvent)
  /\ UNCHANGED <<inboxVars, workerVars, expired, faults, histVars>>

\* wake.until of the wake that fired e passes.
Expire(e) ==
  /\ e \notin expired
  /\ expired' = expired \union
       {f \in Event : OccOf[f] = OccOf[e] /\ SeqOf[f] = SeqOf[e]}
  /\ UNCHANGED <<inboxVars, workerVars, versions, faults, histVars>>

Next ==
  \/ \E e \in Event : Enqueue(e) \/ TimePasses(e) \/ Expire(e)
  \/ \E w \in Worker : RunNext(w) \/ LoseConnection(w) \/ Crash(w)
  \/ \E o \in Occ : TaskMoves(o)

\* Each process runs a round every five seconds and finishes what it started;
\* time passes for every postponed row.  Nothing else is promised.
Fairness ==
  /\ \A w \in Worker : WF_vars(RunNext(w))
  /\ \A e \in Event : WF_vars(TimePasses(e))

Spec == Init /\ [][Next]_vars /\ Fairness

-----------------------------------------------------------------------------
(* Properties                                                                *)

\* Two transactions that still have their locks never work on the same row,
\* and never dispatch two firings of the same occurrence (lockDue's SKIP
\* LOCKED and the advisory lock of tryOccurrenceLock).
ExclusiveWork ==
  \A w, v \in Worker : w # v =>
    /\ \A e \in Event : ~(HoldsRow(w, e) /\ HoldsRow(v, e))
    /\ \A o \in Occ : ~(HoldsOccurrence(w, o) /\ HoldsOccurrence(v, o))

\* A 200 receipt is final: whatever was told about a firing is what its row
\* says now, so two receipts never contradict each other, whichever worker
\* lost its connection or crashed in between.
ReceiptsAgree == \A e \in Event : told[e] \subseteq {row[e]}

\* A firing is put aside as stale only when the task is really past it: the
\* task ended, it left the step and wake of the firing, or the wake's until
\* passed.  And it left no command in the task, unless the task was removed, or
\* its wake expired while a handler that had lost its connection was running.
\* So a snapshot of an older revision never costs a wake.  A "not found" for a
\* task that is there does (dispatch has no revision to compare): only the
\* firings that got that answer are excused.
StaleIsPast ==
  \A e \in Event : row[e] = "stale" /\ e \notin missed =>
    LET task == versions[OccOf[e]]
        last == task[Len(task)]
    IN /\ last.mode \in {"done", "gone"} \/ last.seq # SeqOf[e] \/ e \in expired
       /\ e \notin Applied(OccOf[e], Len(task)) \/ e \in expired \/ last.mode = "gone"

\* The command of a firing only ever moved the task from a version on which
\* that firing's own wake stood and the task was running.
EffectOnArmedStep ==
  \A o \in Occ : \A k \in DOMAIN versions[o] :
    LET e == versions[o][k].by IN
    e # NoEvent =>
      /\ k > 1 /\ OccOf[e] = o
      /\ versions[o][k - 1].seq = SeqOf[e]
      /\ versions[o][k - 1].mode = "running"

\* The inbox implements a durable at-least-once delivery.
Delivery == INSTANCE WakeDelivery WITH status <- row
ImplementsDelivery == Delivery!Spec

\* Every stored firing is settled in the end, unless its task stays one that
\* dispatch will not judge: paused, not in progress, off its plan, or not the
\* task of the firing.  For those the retries go on for as long as the task
\* stays so; no busy occurrence, lost connection or crash starves a row.
EventuallySettled ==
  \A e \in Event :
    row[e] = "pending" ~>
      \/ row[e] \in Outcome
      \/ versions[OccOf[e]][Len(versions[OccOf[e]])].mode \in {"suspended", "foreign"}
=============================================================================
