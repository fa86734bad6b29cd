---------------------- MODULE ActivityProjectionProofs ----------------------
(***************************************************************************)
(* Proofs about ActivityProjection, for any plan, any number of callers,    *)
(* any lag of the task service and any number of faults.  The inductive    *)
(* invariant IInv has two halves: that the task can be followed passage by  *)
(* passage (TaskIsFollowed), and what callers know of it and of the rows    *)
(* (the other conjuncts).                                                   *)
(***************************************************************************)
EXTENDS ActivityProjection, TLAPS

\* A caller that loads or has loaded, and still has its connection, holds the
\* advisory lock.
Locks ==
  \A c \in Caller : pc[c] \in {"locked", "loaded"} /\ connected[c] => holder = c

\* Nobody has seen a revision that the task has not reached.
SeenIsPast == \A c \in Caller : seen[c] <= revision

\* If the task moves on while a caller holds what it read, then either the lag
\* is known or whoever moved it is still waiting for the lock.
OvertakenIsKnown ==
  \A c \in Caller :
    pc[c] = "loaded" /\ connected[c] /\ seen[c] # revision =>
      lagging \/ \E d \in Caller : pc[d] = "wait"

\* A task without passages.
Untouched == [valid |-> TRUE, closed |-> FALSE, current |-> NoStep, visits |-> Future]

\* The views of a task, passage by passage.  A recursive function is the one that
\* satisfies its equation, if there is one: Unfolds says that there is exactly one.
Views(h, f) == f = [n \in 0..Len(h) |-> IF n = 0 THEN Untouched ELSE Follow(f[n - 1], h[n])]

Unfolds(h) == \E f : Views(h, f) /\ \A g : Views(h, g) => g = f

Visits == [Step -> [state : {"future", "active", "completed"}, pass : Nat]]
View == [valid : BOOLEAN, closed : BOOLEAN, current : Step \union {NoStep}, visits : Visits]

\* The active step is the current one.
Shown(p) == \A s \in Step : p.visits[s].state = "active" <=> s = p.current

\* Following the task's passages is defined and has led to its last step.
TaskIsFollowed ==
  LET view == ViewAfter(history)
  IN /\ Unfolds(history)
     /\ view \in View /\ view.valid /\ Shown(view)
     /\ view.closed = (history # <<>> /\ history[revision].done)
     /\ view.current = IF history = <<>> \/ history[revision].done
                       THEN NoStep ELSE history[revision].step

IInv == TypeOK /\ TaskIsFollowed /\ Locks /\ SeenIsPast /\ RowsAreOfOneRevision
               /\ OvertakenIsKnown /\ BehindIsKnown

-----------------------------------------------------------------------------
\* The task of an earlier revision stays what it was when passages are added.
LEMMA EarlierRevisions ==
  ASSUME TypeOK, NEW e, e \in Passage, history' = Append(history, e),
         NEW n \in Nat, n <= revision
  PROVE  projected(n)' = projected(n)
<1>1. At(n)' = At(n)
  BY DEF At, TypeOK, revision
<1>2. QED BY <1>1 DEF projected

LEMMA SameTask ==
  ASSUME UNCHANGED history, NEW n \in Nat
  PROVE  projected(n)' = projected(n)
BY DEF projected, At

\* The passages that the engine lets through: the first, or one from the last step.
Goes(e) ==
  /\ history' = Append(history, e)
  /\ IF history = <<>> THEN e.from = NoStep /\ ~e.done
     ELSE /\ ~history[revision].done /\ e.from = history[revision].step
          /\ e.done => e.from = e.step

LEMMA PassagesGoOn ==
  ASSUME TypeOK, [Next]_vars
  PROVE  UNCHANGED history \/ \E e \in Passage : Goes(e)
<1>1. ASSUME Advanced
      PROVE  \E e \in Passage : Goes(e)
  <2> DEFINE last == history[revision]
  <2>1. last \in Passage /\ history # <<>> /\ ~last.done
    BY <1>1 DEF TypeOK, Advanced, revision
  <2>2. ASSUME NEW to \in Step,
               history' = Append(history, [from |-> last.step, step |-> to, done |-> FALSE])
        PROVE  \E e \in Passage : Goes(e)
    <3> DEFINE e == [from |-> last.step, step |-> to, done |-> FALSE]
    <3>1. e \in Passage
      BY <2>1 DEF Passage
    <3>2. Goes(e)
      BY <2>1, <2>2 DEF Goes
    <3> QED
      BY <3>1, <3>2
  <2>3. ASSUME history' = Append(history, [from |-> last.step, step |-> last.step, done |-> TRUE])
        PROVE  \E e \in Passage : Goes(e)
    <3> DEFINE e == [from |-> last.step, step |-> last.step, done |-> TRUE]
    <3>1. e \in Passage
      BY <2>1 DEF Passage
    <3>2. Goes(e)
      BY <2>1, <2>3 DEF Goes
    <3> QED
      BY <3>1, <3>2
  <2> QED
    BY <1>1, <2>2, <2>3 DEF Advanced, CloseAt
<1>2. ASSUME NEW s \in Step, history = <<>>,
             history' = <<[from |-> NoStep, step |-> s, done |-> FALSE]>>
      PROVE  \E e \in Passage : Goes(e)
  <2> DEFINE e == [from |-> NoStep, step |-> s, done |-> FALSE]
  <2>1. e \in Passage
    BY DEF Passage
  <2>2. Goes(e)
    BY <1>2 DEF Goes
  <2> QED
    BY <2>1, <2>2
<1>3. ASSUME NEW c \in Caller, open(c) \/ advance(c) \/ AnswerLost(c)
      PROVE  UNCHANGED history \/ \E e \in Passage : Goes(e)
  BY <1>1, <1>2, <1>3 DEF open, advance, AnswerLost
<1>4. ASSUME NEW c \in Caller,
             \/ find(c) \/ rebuild(c) \/ Lock(c) \/ LockTimeout(c) \/ Load(c) \/ LoadFails(c)
             \/ Refreshed(c) \/ SourceStale(c) \/ LoseConnection(c) \/ CannotWrite(c)
             \/ Fallback(c) \/ Crash(c)
      PROVE  UNCHANGED history
  BY <1>4 DEF find, rebuild, Lock, LockTimeout, Load, LoadFails, Refreshed, SourceStale,
              LoseConnection, CannotWrite, Fallback, Crash, Fail, task
<1>5. CASE UNCHANGED vars
  BY <1>5 DEF vars, task
<1> QED
  BY <1>3, <1>4, <1>5 DEF Next

\* What every step does to the task: nothing, or one more passage.
LEMMA TaskSteps ==
  ASSUME TypeOK, [Next]_vars
  PROVE  UNCHANGED history \/ \E e \in Passage : history' = Append(history, e)
BY PassagesGoOn DEF Goes

-----------------------------------------------------------------------------
(* The views of a task.  Passages are added one at a time, so that Unfolds, and    *)
(* with it what the recursion of ViewAfter says, holds because the step of the     *)
(* system that adds a passage keeps it.                                            *)

LEMMA Unfolded ==
  ASSUME NEW h, NEW f, Views(h, f), \A g : Views(h, g) => g = f
  PROVE  ViewAfter(h) = f[Len(h)]
<1> DEFINE v == CHOOSE g : Views(h, g)
<1>1. v = f
  OBVIOUS
<1>2. ViewAfter(h) = v[Len(h)]
  BY DEF ViewAfter, Views, Untouched
<1> QED
  BY <1>1, <1>2

LEMMA NothingToFollow == Unfolds(<<>>) /\ ViewAfter(<<>>) = Untouched
<1> DEFINE f == [n \in 0..0 |-> Untouched]
<1>1. Len(<<>>) = 0
  OBVIOUS
<1>2. ASSUME NEW g PROVE Views(<<>>, g) <=> g = f
  <2>1. Views(<<>>, g) <=> g = [n \in 0..0 |-> IF n = 0 THEN Untouched ELSE Follow(g[n - 1], <<>>[n])]
    BY <1>1 DEF Views
  <2>2. [n \in 0..0 |-> IF n = 0 THEN Untouched ELSE Follow(g[n - 1], <<>>[n])] = f
    OBVIOUS
  <2> QED
    BY <2>1, <2>2
<1>3. Unfolds(<<>>)
  BY <1>2 DEF Unfolds
<1>4. ViewAfter(<<>>) = f[0]
  BY <1>1, <1>2, Unfolded
<1> QED
  BY <1>3, <1>4

\* One more passage is followed from the view before it.
LEMMA OneMorePassage ==
  ASSUME NEW h \in Seq(Passage), NEW e \in Passage, Unfolds(h)
  PROVE  Unfolds(Append(h, e)) /\ ViewAfter(Append(h, e)) = Follow(ViewAfter(h), e)
<1> DEFINE more == Append(h, e)
           k == Len(h)
<1>1. /\ k \in Nat /\ Len(more) = k + 1 /\ more[k + 1] = e
      /\ \A n \in 1..k : more[n] = h[n]
  OBVIOUS
<1> HIDE DEF more, k
<1>2. PICK f : Views(h, f) /\ \A g : Views(h, g) => g = f
  BY DEF Unfolds
<1> DEFINE g == [n \in 0..k + 1 |-> IF n <= k THEN f[n] ELSE Follow(f[k], e)]
<1>3. /\ f = [n \in 0..k |-> IF n = 0 THEN Untouched ELSE Follow(f[n - 1], h[n])]
      /\ \A n \in 0..k : f[n] = IF n = 0 THEN Untouched ELSE Follow(f[n - 1], h[n])
  BY <1>2 DEF Views, k
<1>4. Views(more, g)
  <2>1. ASSUME NEW n \in 0..k + 1
        PROVE  g[n] = IF n = 0 THEN Untouched ELSE Follow(g[n - 1], more[n])
    <3>1. CASE n = 0
      BY <1>1, <1>3, <3>1
    <3>2. CASE n # 0 /\ n <= k
      <4>1. n - 1 \in 0..k /\ n \in 1..k /\ n \in 0..k
        BY <1>1, <3>2
      <4>2. g[n] = f[n] /\ g[n - 1] = f[n - 1] /\ more[n] = h[n]
        BY <1>1, <4>1
      <4> QED
        BY <1>3, <3>2, <4>1, <4>2
    <3>3. CASE n = k + 1
      <4>1. n - 1 = k /\ n # 0 /\ k \in 0..k + 1 /\ g[k] = f[k] /\ g[k + 1] = Follow(f[k], e)
        BY <1>1, <3>3
      <4> QED
        BY <1>1, <3>3, <4>1
    <3> QED
      BY <1>1, <3>1, <3>2, <3>3
  <2> HIDE DEF g
  <2>2. g = [n \in 0..k + 1 |-> g[n]]
    BY DEF g
  <2>3. g = [n \in 0..k + 1 |-> IF n = 0 THEN Untouched ELSE Follow(g[n - 1], more[n])]
    BY <2>1, <2>2
  <2> QED
    BY <1>1, <2>3 DEF Views
<1>5. ASSUME NEW x, Views(more, x)
      PROVE  x = g
  <2> DEFINE y == [n \in 0..k |-> x[n]]
  <2>1. /\ x = [n \in 0..k + 1 |-> IF n = 0 THEN Untouched ELSE Follow(x[n - 1], more[n])]
        /\ \A n \in 0..k + 1 : x[n] = IF n = 0 THEN Untouched ELSE Follow(x[n - 1], more[n])
    BY <1>1, <1>5 DEF Views
  <2>2. ASSUME NEW n \in 0..k
        PROVE  y[n] = IF n = 0 THEN Untouched ELSE Follow(y[n - 1], h[n])
    <3>1. n \in 0..k + 1 /\ y[n] = x[n]
      BY <1>1
    <3>2. CASE n = 0
      BY <2>1, <3>1, <3>2
    <3>3. CASE n # 0
      <4>1. n - 1 \in 0..k /\ n \in 1..k
        BY <1>1, <3>3
      <4>2. y[n - 1] = x[n - 1] /\ more[n] = h[n]
        BY <1>1, <4>1
      <4> QED
        BY <2>1, <3>1, <3>3, <4>2
    <3> QED
      BY <3>2, <3>3
  <2> HIDE DEF y
  <2>3. y = [n \in 0..k |-> y[n]]
    BY DEF y
  <2>4. y = [n \in 0..k |-> IF n = 0 THEN Untouched ELSE Follow(y[n - 1], h[n])]
    BY <2>2, <2>3
  <2>5. y = f
    BY <1>2, <2>4 DEF Views, k
  <2>6. ASSUME NEW n \in 0..k + 1
        PROVE  x[n] = g[n]
    <3>1. CASE n <= k
      <4>1. n \in 0..k
        BY <1>1, <3>1
      <4> QED
        BY <2>5, <3>1, <4>1 DEF y
    <3>2. CASE n = k + 1
      <4>1. n - 1 = k /\ n # 0 /\ k \in 0..k /\ more[n] = e
        BY <1>1, <3>2
      <4>2. x[n] = Follow(x[k], e) /\ x[k] = f[k]
        BY <2>1, <2>5, <4>1 DEF y
      <4> QED
        BY <1>1, <3>2, <4>2
    <3> QED
      BY <1>1, <3>1, <3>2
  <2>7. x = [n \in 0..k + 1 |-> x[n]] /\ g = [n \in 0..k + 1 |-> g[n]]
    BY <2>1
  <2> HIDE DEF g
  <2> QED
    BY <2>6, <2>7
<1>6. ViewAfter(more) = g[k + 1] /\ ViewAfter(h) = f[k]
  <2>1. ViewAfter(more) = g[Len(more)]
    BY <1>4, <1>5, Unfolded
  <2> QED
    BY <1>1, <1>2, <2>1, Unfolded DEF k
<1>7. g[k + 1] = Follow(f[k], e)
  BY <1>1
<1>8. Unfolds(more)
  BY <1>4, <1>5 DEF Unfolds
<1> QED
  BY <1>6, <1>7, <1>8 DEF more

-----------------------------------------------------------------------------
(* What one passage does to a view.                                          *)

\* A passage from the current step of a sound view leads to another.
LEMMA FollowShown ==
  ASSUME ConstantsAssumption, NEW p \in View, Shown(p), p.valid, ~p.closed,
         NEW e \in Passage, e.from = p.current, e.done => e.from = e.step
  PROVE  LET q == Follow(p, e)
         IN /\ q \in View /\ Shown(q) /\ q.valid /\ q.closed = e.done
            /\ q.current = IF e.done THEN NoStep ELSE e.step
<1> DEFINE q == Follow(p, e)
           left == Left(p, e)
<1>1. /\ p.visits \in Visits /\ p.current \in Step \union {NoStep}
      /\ e.step \in Step /\ e.done \in BOOLEAN /\ NoStep \notin Step
  BY DEF View, Passage, ConstantsAssumption
<1>2. /\ left \in Visits
      /\ \A s \in Step : left[s].state = "active" => s = p.current /\ e.from = e.step
  <2>1. CASE p.current # NoStep /\ e.from # e.step
    <3>1. left = [p.visits EXCEPT ![p.current].state = "completed"]
      BY <2>1 DEF Left
    <3>2. left \in Visits
      BY <1>1, <2>1, <3>1 DEF Visits
    <3>3. \A s \in Step : left[s].state = IF s = p.current THEN "completed" ELSE p.visits[s].state
      BY <1>1, <3>1 DEF Visits
    <3> QED
      BY <3>2, <3>3 DEF Shown
  <2>2. CASE p.current = NoStep \/ e.from = e.step
    <3>1. left = p.visits
      BY <2>2 DEF Left
    <3> QED
      BY <1>1, <2>2, <3>1 DEF Shown
  <2> QED
    BY <2>1, <2>2
<1> HIDE DEF left
<1> DEFINE visit == [state |-> IF e.done THEN "completed" ELSE "active",
                     pass |-> IF e.from # e.step THEN left[e.step].pass + 1 ELSE left[e.step].pass]
<1>3. /\ q.visits = [left EXCEPT ![e.step] = visit]
      /\ q.valid = (p.valid /\ ~p.closed /\ e.from = p.current /\ (e.done => e.from = e.step))
      /\ q.closed = e.done /\ q.current = IF e.done THEN NoStep ELSE e.step
      /\ q = [valid |-> q.valid, closed |-> q.closed, current |-> q.current, visits |-> q.visits]
  BY DEF Follow, left
<1>4. visit \in [state : {"future", "active", "completed"}, pass : Nat]
  BY <1>1, <1>2 DEF Visits
<1>5. /\ q.visits \in Visits
      /\ \A s \in Step : q.visits[s] = IF s = e.step THEN visit ELSE left[s]
  BY <1>1, <1>2, <1>3, <1>4 DEF Visits
<1> HIDE DEF q
<1>6. q.valid = TRUE
  BY <1>3
<1>7. q \in View
  BY <1>1, <1>3, <1>5, <1>6 DEF View
<1>8. Shown(q)
  BY <1>1, <1>2, <1>3, <1>5 DEF Shown
<1> QED
  BY <1>3, <1>6, <1>7, <1>8 DEF q

\* The task stays one that can be followed.
LEMMA TaskIsFollowedStep ==
  ASSUME ConstantsAssumption, TypeOK, TaskIsFollowed, [Next]_vars
  PROVE  TaskIsFollowed'
<1>1. CASE UNCHANGED history
  BY <1>1 DEF TaskIsFollowed, revision
<1>2. ASSUME NEW e \in Passage, Goes(e)
      PROVE  TaskIsFollowed'
  <2> DEFINE p == ViewAfter(history)
             q == Follow(p, e)
  <2>1. /\ history \in Seq(Passage) /\ history' = Append(history, e)
        /\ history' # <<>> /\ history'[revision'] = e
    BY <1>2 DEF Goes, TypeOK, revision
  <2>2. Unfolds(history') /\ ViewAfter(history') = q
    BY <2>1, OneMorePassage DEF TaskIsFollowed
  <2>3. p \in View /\ Shown(p) /\ p.valid
    BY DEF TaskIsFollowed
  <2>4. ~p.closed /\ e.from = p.current /\ (e.done => e.from = e.step)
    BY <1>2 DEF TaskIsFollowed, Goes
  <2>5. /\ q \in View /\ Shown(q) /\ q.valid /\ q.closed = e.done
        /\ q.current = IF e.done THEN NoStep ELSE e.step
    BY <2>3, <2>4, FollowShown
  <2>6. /\ q.closed = (history' # <<>> /\ history'[revision'].done)
        /\ q.current = IF history' = <<>> \/ history'[revision'].done
                       THEN NoStep ELSE history'[revision'].step
    <3>1. e.done \in BOOLEAN
      BY DEF Passage
    <3> HIDE DEF q
    <3> QED
      BY <2>1, <2>5, <3>1
  <2>7. Shown(ViewAfter(history))' <=> Shown(ViewAfter(history'))
    BY DEF Shown
  <2> HIDE DEF p, q
  <2> QED
    BY <2>2, <2>5, <2>6, <2>7, Zenon DEF TaskIsFollowed
<1> QED
  BY <1>1, <1>2, PassagesGoOn

LEMMA TaskIsFollowedAtFirst ==
  ASSUME ConstantsAssumption, Init
  PROVE  TaskIsFollowed
<1>1. history = <<>> /\ Unfolds(history) /\ ViewAfter(history) = Untouched
  BY NothingToFollow DEF Init
<1>2. Untouched \in View /\ Shown(Untouched)
  <2>1. Future \in Visits
    BY DEF Future, Visits
  <2>2. Untouched \in View
    BY <2>1 DEF Untouched, View
  <2>3. Shown(Untouched)
    BY DEF Shown, Untouched, Future, ConstantsAssumption
  <2> QED
    BY <2>2, <2>3
<1>3. Untouched.valid /\ Untouched.closed = FALSE /\ Untouched.current = NoStep
  BY DEF Untouched
<1> QED
  BY <1>1, <1>2, <1>3 DEF TaskIsFollowed

\* What is followed can be projected.
LEMMA FollowedIsProjectable ==
  ASSUME ConstantsAssumption, TypeOK, TaskIsFollowed
  PROVE  EveryTaskIsProjectable
<1> SUFFICES ASSUME history # <<>>
             PROVE  LET view == ViewAfter(history)
                        active == {s \in Step : view.visits[s].state = "active"}
                    IN /\ view.valid
                       /\ active = IF history[revision].done THEN {} ELSE {history[revision].step}
  BY DEF EveryTaskIsProjectable
<1> DEFINE view == ViewAfter(history)
           active == {s \in Step : view.visits[s].state = "active"}
<1>1. active = {s \in Step : s = view.current}
  BY DEF TaskIsFollowed, Shown
<1>2. view.current = IF history[revision].done THEN NoStep ELSE history[revision].step
  BY DEF TaskIsFollowed
<1>3. history[revision].step \in Step /\ NoStep \notin Step
  <2>1. history[revision] \in Passage
    BY DEF TypeOK, revision
  <2> QED
    BY <2>1 DEF Passage, ConstantsAssumption
<1>4. view.valid
  BY DEF TaskIsFollowed
<1> HIDE DEF view
<1> QED
  BY <1>1, <1>2, <1>3, <1>4 DEF view

-----------------------------------------------------------------------------
(* What callers do, told without the task.                                   *)

\* Any call begins in the same way.
Called(c) == \E k \in {"open", "advance", "find", "rebuild"} : Begin(c, k)

LEMMA CallSteps ==
  ASSUME NEW c \in Caller, open(c) \/ advance(c) \/ find(c) \/ rebuild(c)
  PROVE  Called(c) /\ UNCHANGED faults
BY DEF Called, open, advance, find, rebuild, task

\* Every step that fails or returns leaves callers like this.
Ended(c) ==
  /\ pc[c] # "idle"
  /\ holder' = IF holder = c THEN NoCaller ELSE holder
  /\ \/ /\ pc' = [pc EXCEPT ![c] = "idle"] /\ kind' = [kind EXCEPT ![c] = "none"]
        /\ seen' = [seen EXCEPT ![c] = 0]
     \/ /\ pc' = [pc EXCEPT ![c] = "fallback"]
        /\ UNCHANGED <<kind, seen>>
  /\ connected' = [connected EXCEPT ![c] = TRUE]

LEMMA FailEnds ==
  ASSUME NEW c \in Caller, NEW b \in BOOLEAN, Fail(c, b), pc[c] # "idle"
  PROVE  Ended(c) /\ lagging' = TRUE /\ UNCHANGED <<history, header, activities>>
BY DEF Ended, Fail, Return, Unlock, stored

Failed(c) == LockTimeout(c) \/ LoadFails(c) \/ SourceStale(c) \/ CannotWrite(c) \/ Crash(c)

LEMMA FailedSteps ==
  ASSUME TypeOK, NEW c \in Caller, Failed(c)
  PROVE  /\ Ended(c) /\ lagging' = TRUE /\ faults' \in Nat
         /\ UNCHANGED <<history, header, activities>>
<1>1. CASE LockTimeout(c)
  <2>1. pc[c] # "idle" /\ faults' \in Nat
    BY <1>1 DEF TypeOK, LockTimeout, Fault
  <2>2. Fail(c, TRUE) BY <1>1, Zenon DEF LockTimeout
  <2>3. QED BY <2>1, <2>2, FailEnds
<1>0. CASE LoadFails(c)
  <2>1. pc[c] # "idle" /\ faults' \in Nat
    BY <1>0 DEF TypeOK, LoadFails, Fault
  <2>2. Fail(c, FALSE) BY <1>0, Zenon DEF LoadFails
  <2>3. QED BY <2>1, <2>2, FailEnds
<1>2. CASE SourceStale(c) \/ CannotWrite(c)
  BY <1>2, FailEnds DEF TypeOK, SourceStale, CannotWrite
<1>3. CASE Crash(c)
  BY <1>3 DEF TypeOK, Crash, Ended, Fault, Return, Unlock, stored
<1>4. QED BY <1>0, <1>1, <1>2, <1>3 DEF Failed

\* Next, by what a step does to callers.
LEMMA Steps ==
  ASSUME Next
  PROVE  \E c \in Caller :
           \/ open(c) \/ advance(c) \/ find(c) \/ rebuild(c)
           \/ AnswerLost(c) \/ Lock(c) \/ Load(c) \/ LoseConnection(c)
           \/ Refreshed(c) \/ Fallback(c) \/ Failed(c)
BY DEF Next, Failed

-----------------------------------------------------------------------------
\* Types: callers, header and faults stay well-typed whatever callers do.
LEMMA TypeStep ==
  ASSUME ConstantsAssumption, TypeOK, [Next]_vars
  PROVE  TypeOK'
<1>1. history' \in Seq(Passage)
  <2>1. history \in Seq(Passage) BY DEF TypeOK
  <2>2. CASE UNCHANGED history BY <2>1, <2>2
  <2>3. CASE \E e \in Passage : history' = Append(history, e) BY <2>1, <2>3
  <2>4. QED BY <2>2, <2>3, TaskSteps
<1> DEFINE CallerTypes ==
      /\ header \in Nat
      /\ holder \in Caller \union {NoCaller}
      /\ pc \in [Caller -> {"idle", "wait", "locked", "loaded", "fallback"}]
      /\ kind \in [Caller -> {"none", "open", "advance", "find", "rebuild"}]
      /\ seen \in [Caller -> Nat]
      /\ connected \in [Caller -> BOOLEAN]
      /\ lagging \in BOOLEAN
      /\ faults \in Nat
<1>t. CallerTypes BY DEF TypeOK
<1>2. SUFFICES CallerTypes' BY <1>1 DEF TypeOK
<1>3. ASSUME NEW c \in Caller, open(c) \/ advance(c) \/ find(c) \/ rebuild(c)
      PROVE CallerTypes'
  BY <1>t, <1>3, CallSteps DEF Called, Begin, stored
<1>4. ASSUME NEW c \in Caller, AnswerLost(c) PROVE CallerTypes'
  BY <1>t, <1>4 DEF AnswerLost, Fault, stored, calls
<1>5. ASSUME NEW c \in Caller, Lock(c) PROVE CallerTypes'
  BY <1>t, <1>5 DEF Lock, stored, task
<1>6. ASSUME NEW c \in Caller, LoseConnection(c) PROVE CallerTypes'
  BY <1>t, <1>6 DEF LoseConnection, Fault, Unlock, stored
<1>7. ASSUME NEW c \in Caller, Load(c) PROVE CallerTypes'
  <2>1. PICK r \in 0..revision : /\ seen' = [seen EXCEPT ![c] = r]
                                 /\ lagging' = (lagging \/ r < revision)
    BY <1>7 DEF Load
  <2>2. r \in Nat BY DEF revision, TypeOK
  <2>3. QED BY <1>t, <1>7, <2>1, <2>2 DEF Load, stored, task
<1>8. ASSUME NEW c \in Caller, Refreshed(c) PROVE CallerTypes'
  BY <1>t, <1>8 DEF Refreshed, Replace, Unlock, Return, task
<1>9. ASSUME NEW c \in Caller, Failed(c) PROVE CallerTypes'
  <2>1. /\ Ended(c) /\ lagging' = TRUE /\ faults' \in Nat
        /\ header' = header
    BY <1>9, FailedSteps
  <2>2. QED BY <1>t, <2>1 DEF Ended
<1>10. ASSUME NEW c \in Caller, Fallback(c) PROVE CallerTypes'
  BY <1>t, <1>10 DEF Fallback, Return, task, stored
<1>11. CASE UNCHANGED vars
  BY <1>t, <1>11 DEF vars, task, stored, calls
<1>12. QED
  BY <1>3, <1>4, <1>5, <1>6, <1>7, <1>8, <1>9, <1>10, <1>11, Steps

\* Only one connected caller holds the lock.
LEMMA LockStep ==
  ASSUME ConstantsAssumption, TypeOK, Locks, [Next]_vars
  PROVE  Locks'
<1>1. ASSUME NEW c \in Caller, open(c) \/ advance(c) \/ find(c) \/ rebuild(c)
      PROVE Locks'
  BY <1>1, CallSteps, SMTT(30) DEF Called, Begin, Locks, TypeOK
<1>2. ASSUME NEW c \in Caller, AnswerLost(c) PROVE Locks'
  BY <1>2 DEF AnswerLost, Locks, calls
<1>3. ASSUME NEW c \in Caller, Lock(c) PROVE Locks'
  BY <1>3 DEF Lock, Free, Locks, TypeOK, ConstantsAssumption
<1>4. ASSUME NEW c \in Caller, LoseConnection(c) PROVE Locks'
  BY <1>4 DEF LoseConnection, Unlock, Locks, TypeOK
<1>5. ASSUME NEW c \in Caller, Load(c) PROVE Locks'
  BY <1>5 DEF Load, Locks, TypeOK
<1>6. ASSUME NEW c \in Caller, Refreshed(c) PROVE Locks'
  BY <1>6 DEF Refreshed, Unlock, Return, Locks, TypeOK
<1>7. ASSUME NEW c \in Caller, Failed(c) PROVE Locks'
  <2>1. Ended(c) BY <1>7, FailedSteps
  <2>2. QED BY <2>1 DEF Ended, Locks, TypeOK
<1>8. ASSUME NEW c \in Caller, Fallback(c) PROVE Locks'
  BY <1>8 DEF Fallback, Return, Locks, TypeOK
<1>9. CASE UNCHANGED vars
  BY <1>9 DEF Locks, vars, calls
<1>10. QED
  BY <1>1, <1>2, <1>3, <1>4, <1>5, <1>6, <1>7, <1>8, <1>9, Steps

\* What was seen is past.
LEMMA SeenStep ==
  ASSUME TypeOK, SeenIsPast, [Next]_vars
  PROVE  SeenIsPast'
<1>1. revision \in Nat /\ revision' \in Nat /\ revision <= revision'
  BY TaskSteps DEF TypeOK, revision
<1>2. SUFFICES \A d \in Caller : seen'[d] <= revision'
  BY DEF SeenIsPast
<1>3. ASSUME NEW c \in Caller, Load(c) PROVE \A d \in Caller : seen'[d] <= revision'
  BY <1>1, <1>3 DEF Load, TypeOK, SeenIsPast
<1>4. ASSUME NEW c \in Caller, Refreshed(c) \/ Fallback(c) PROVE \A d \in Caller : seen'[d] <= revision'
  BY <1>1, <1>4 DEF Refreshed, Fallback, Return, TypeOK, SeenIsPast
<1>5. ASSUME NEW c \in Caller, Failed(c) PROVE \A d \in Caller : seen'[d] <= revision'
  <2>1. Ended(c) BY <1>5, FailedSteps
  <2>2. seen' = [seen EXCEPT ![c] = 0] \/ UNCHANGED seen
    BY <2>1 DEF Ended
  <2>3. seen \in [Caller -> Nat] /\ \A d \in Caller : seen[d] <= revision
    BY DEF TypeOK, SeenIsPast
  <2>4. QED BY <1>1, <2>2, <2>3
<1>6. ASSUME NEW c \in Caller,
             \/ open(c) \/ advance(c) \/ find(c) \/ rebuild(c)
             \/ AnswerLost(c) \/ Lock(c) \/ LoseConnection(c)
      PROVE UNCHANGED seen
  BY <1>6, CallSteps DEF Called, Begin, AnswerLost, Lock, LoseConnection, calls
<1>7. ASSUME UNCHANGED seen PROVE \A d \in Caller : seen'[d] <= revision'
  BY <1>1, <1>7 DEF TypeOK, SeenIsPast
<1>8. CASE UNCHANGED vars
  BY <1>7, <1>8 DEF vars, calls
<1>9. QED
  BY <1>3, <1>4, <1>5, <1>6, <1>7, <1>8, Steps

-----------------------------------------------------------------------------
\* The rows change only when a caller that is connected replaces them.
LEMMA RowSteps ==
  ASSUME [Next]_vars, TypeOK
  PROVE  UNCHANGED stored \/ \E c \in Caller : Refreshed(c)
<1>1. ASSUME NEW c \in Caller, Failed(c) PROVE UNCHANGED stored
  BY <1>1, FailedSteps DEF stored
<1>2. ASSUME NEW c \in Caller,
             \/ open(c) \/ advance(c) \/ find(c) \/ rebuild(c)
             \/ AnswerLost(c) \/ Lock(c) \/ LoseConnection(c) \/ Load(c) \/ Fallback(c)
      PROVE UNCHANGED stored
  BY <1>2, CallSteps DEF Called, Begin, AnswerLost, Lock, LoseConnection, Load, Fallback
<1>3. QED BY <1>1, <1>2, Steps DEF vars

LEMMA RowsStep ==
  ASSUME TypeOK, SeenIsPast, RowsAreOfOneRevision, [Next]_vars
  PROVE  RowsAreOfOneRevision'
<1>1. header \in Nat /\ revision \in Nat /\ revision' \in Nat /\ revision <= revision'
  BY TaskSteps DEF TypeOK, revision
<1>2. CASE UNCHANGED stored
  <2>1. projected(header)' = projected(header)
    <3>1. CASE UNCHANGED history
      BY <1>1, <1>2, <3>1 DEF projected, At, stored
    <3>2. CASE \E e \in Passage : history' = Append(history, e)
      <4>1. PICK e \in Passage : history' = Append(history, e) BY <3>2
      <4>2. header <= revision BY DEF RowsAreOfOneRevision
      <4>3. At(header)' = At(header)
        BY <1>1, <1>2, <4>1, <4>2 DEF At, TypeOK, revision, stored
      <4>4. QED BY <1>2, <4>3 DEF projected, stored
    <3>3. QED BY <3>1, <3>2, TaskSteps
  <2>2. QED BY <1>1, <1>2, <2>1 DEF RowsAreOfOneRevision, stored
<1>3. CASE \E c \in Caller : Refreshed(c)
  <2>1. PICK c \in Caller : Refreshed(c) BY <1>3
  <2>2. /\ header' = seen[c] /\ activities' = projected(seen[c])
        /\ UNCHANGED history /\ seen[c] \in Nat /\ seen[c] <= revision
    BY <2>1 DEF Refreshed, Replace, task, TypeOK, SeenIsPast
  <2>3. projected(header)' = projected(seen[c])
    BY <2>2 DEF projected, At
  <2>4. QED BY <2>2, <2>3 DEF RowsAreOfOneRevision, revision
<1>4. QED BY <1>2, <1>3, RowSteps

-----------------------------------------------------------------------------
\* Who has been overtaken waits, or the lag is known.
LEMMA OvertakenStep ==
  ASSUME ConstantsAssumption, TypeOK, Locks, OvertakenIsKnown, [Next]_vars
  PROVE  OvertakenIsKnown'
<1>1. ASSUME NEW c \in Caller, open(c) \/ advance(c) \/ find(c) \/ rebuild(c)
      PROVE OvertakenIsKnown'
  <2>1. pc' = [pc EXCEPT ![c] = "wait"]
    BY <1>1, CallSteps DEF Called, Begin
  <2>2. pc'[c] = "wait" BY <2>1 DEF TypeOK
  <2>3. QED BY <2>2 DEF OvertakenIsKnown
<1>2. ASSUME NEW c \in Caller, AnswerLost(c) \/ Failed(c) PROVE OvertakenIsKnown'
  BY <1>2, FailedSteps DEF AnswerLost, OvertakenIsKnown
<1>3. ASSUME NEW c \in Caller, Lock(c) PROVE OvertakenIsKnown'
  <2>1. \A d \in Caller : ~(pc[d] = "loaded" /\ connected[d])
    BY <1>3 DEF Lock, Free, Locks, ConstantsAssumption
  <2>2. pc' = [pc EXCEPT ![c] = "locked"] /\ UNCHANGED connected
    BY <1>3 DEF Lock
  <2>3. \A d \in Caller : ~(pc'[d] = "loaded" /\ connected'[d])
    BY <2>1, <2>2 DEF TypeOK
  <2>4. QED BY <2>3 DEF OvertakenIsKnown
<1>4. ASSUME NEW c \in Caller, LoseConnection(c) PROVE OvertakenIsKnown'
  BY <1>4 DEF LoseConnection, OvertakenIsKnown, TypeOK, revision
<1>5. ASSUME NEW c \in Caller, Load(c) PROVE OvertakenIsKnown'
  <2>1. PICK r \in 0..revision : /\ seen' = [seen EXCEPT ![c] = r]
                                 /\ lagging' = (lagging \/ r < revision)
    BY <1>5 DEF Load
  <2>2. /\ pc' = [pc EXCEPT ![c] = "loaded"] /\ pc[c] = "locked"
        /\ UNCHANGED <<history, connected>>
    BY <1>5 DEF Load, task
  <2>3. CASE r < revision BY <2>1, <2>3 DEF OvertakenIsKnown
  <2>4. CASE r = revision
    <3>1. seen'[c] = revision' BY <2>1, <2>2, <2>4 DEF TypeOK, revision
    <3>2. SUFFICES ASSUME NEW d \in Caller, d # c, pc'[d] = "loaded", connected'[d],
                          seen'[d] # revision', ~lagging'
                   PROVE  \E w \in Caller : pc'[w] = "wait"
      BY <3>1 DEF OvertakenIsKnown
    <3>3. pc[d] = "loaded" /\ connected[d] /\ seen[d] # revision /\ ~lagging
      BY <2>1, <2>2, <3>2 DEF TypeOK, revision
    <3>4. PICK w \in Caller : pc[w] = "wait" BY <3>3 DEF OvertakenIsKnown
    <3>5. pc'[w] = "wait" BY <2>2, <3>4 DEF TypeOK
    <3>6. QED BY <3>5
  <2>5. QED BY <2>3, <2>4 DEF TypeOK, revision
<1>6. ASSUME NEW c \in Caller, Refreshed(c) PROVE OvertakenIsKnown'
  <2>1. holder = c /\ pc' = [pc EXCEPT ![c] = "idle"] /\ connected' = [connected EXCEPT ![c] = TRUE]
    BY <1>6 DEF Refreshed, Return, Locks
  <2>2. \A d \in Caller : ~(pc'[d] = "loaded" /\ connected'[d])
    BY <2>1 DEF Locks, TypeOK
  <2>3. QED BY <2>2 DEF OvertakenIsKnown
<1>7. ASSUME NEW c \in Caller, Fallback(c) PROVE OvertakenIsKnown'
  BY <1>7 DEF Fallback, Return, OvertakenIsKnown, TypeOK, task, revision
<1>8. CASE UNCHANGED vars
  BY <1>8 DEF OvertakenIsKnown, vars, calls, task, revision
<1>9. QED
  BY <1>1, <1>2, <1>3, <1>4, <1>5, <1>6, <1>7, <1>8, Steps

\* The projection is behind only while a refresh that will catch up is due.
LEMMA BehindStep ==
  ASSUME ConstantsAssumption, TypeOK, Locks, SeenIsPast, RowsAreOfOneRevision,
         OvertakenIsKnown, BehindIsKnown, [Next]_vars
  PROVE  BehindIsKnown'
<1>1. ASSUME NEW c \in Caller, open(c) \/ advance(c) \/ find(c) \/ rebuild(c)
      PROVE BehindIsKnown'
  <2>1. pc' = [pc EXCEPT ![c] = "wait"]
    BY <1>1, CallSteps DEF Called, Begin
  <2>2. pc'[c] = "wait" BY <2>1 DEF TypeOK
  <2>3. QED BY <2>2 DEF BehindIsKnown
<1>2. ASSUME NEW c \in Caller, AnswerLost(c) \/ Failed(c) PROVE BehindIsKnown'
  BY <1>2, FailedSteps DEF AnswerLost, BehindIsKnown
<1>3. ASSUME NEW c \in Caller, Lock(c) PROVE BehindIsKnown'
  BY <1>3 DEF Lock, BehindIsKnown, TypeOK, task, stored, revision
<1>4. ASSUME NEW c \in Caller, LoseConnection(c) PROVE BehindIsKnown'
  BY <1>4 DEF LoseConnection, BehindIsKnown, stored, revision
<1>5. ASSUME NEW c \in Caller, Load(c) PROVE BehindIsKnown'
  <2>1. PICK r \in 0..revision : /\ seen' = [seen EXCEPT ![c] = r]
                                 /\ lagging' = (lagging \/ r < revision)
    BY <1>5 DEF Load
  <2>2. pc' = [pc EXCEPT ![c] = "loaded"] /\ UNCHANGED history
    BY <1>5 DEF Load, task
  <2>3. CASE r < revision BY <2>1, <2>3 DEF BehindIsKnown
  <2>4. CASE r = revision
    <3>1. pc'[c] = "loaded" /\ seen'[c] = revision'
      BY <2>1, <2>2, <2>4 DEF TypeOK, revision
    <3>2. QED BY <3>1 DEF BehindIsKnown
  <2>5. QED BY <2>3, <2>4 DEF TypeOK, revision
<1>6. ASSUME NEW c \in Caller, Refreshed(c) PROVE BehindIsKnown'
  <2>1. /\ header' = seen[c] /\ UNCHANGED history
        /\ pc' = [pc EXCEPT ![c] = "idle"] /\ seen' = [seen EXCEPT ![c] = 0]
        /\ pc[c] = "loaded" /\ connected[c]
        /\ lagging' = (lagging /\ seen[c] # revision)
    BY <1>6 DEF Refreshed, Return, Replace, task
  <2>2. CASE seen[c] = revision
    BY <2>1, <2>2 DEF BehindIsKnown, revision
  <2>3. CASE seen[c] # revision /\ lagging
    BY <2>1, <2>3 DEF BehindIsKnown
  <2>4. CASE seen[c] # revision /\ ~lagging
    <3>1. PICK w \in Caller : pc[w] = "wait"
      BY <2>1, <2>4 DEF OvertakenIsKnown
    <3>2. pc'[w] = "wait" BY <2>1, <3>1 DEF TypeOK
    <3>3. QED BY <3>2 DEF BehindIsKnown
  <2>5. QED BY <2>2, <2>3, <2>4
<1>7. ASSUME NEW c \in Caller, Fallback(c) PROVE BehindIsKnown'
  BY <1>7 DEF Fallback, Return, BehindIsKnown, TypeOK, task, stored, revision
<1>8. CASE UNCHANGED vars
  BY <1>8 DEF BehindIsKnown, vars, calls, task, stored, revision
<1>9. QED
  BY <1>1, <1>2, <1>3, <1>4, <1>5, <1>6, <1>7, <1>8, Steps

-----------------------------------------------------------------------------
LEMMA Initially == ConstantsAssumption /\ Init => IInv
<1> SUFFICES ASSUME ConstantsAssumption, Init PROVE IInv
  OBVIOUS
<1>1. revision = 0 /\ history \in Seq(Passage)
  BY DEF Init, revision
<1>2. TypeOK BY <1>1 DEF Init, TypeOK
<1>3. Locks /\ OvertakenIsKnown
  BY DEF Init, Locks, OvertakenIsKnown
<1>4. SeenIsPast /\ BehindIsKnown
  BY <1>1 DEF Init, SeenIsPast, BehindIsKnown
<1>5. RowsAreOfOneRevision
  BY <1>1 DEF Init, RowsAreOfOneRevision, projected
<1>6. QED BY <1>2, <1>3, <1>4, <1>5, TaskIsFollowedAtFirst DEF IInv

LEMMA Inductive == ConstantsAssumption /\ IInv /\ [Next]_vars => IInv'
BY TypeStep, TaskIsFollowedStep, LockStep, SeenStep, RowsStep, OvertakenStep, BehindStep DEF IInv

LEMMA Invariant == Spec => []IInv
BY Initially, Inductive, ConstantsAssumption, PTL DEF Spec

\* Callers, locks and stored revisions stay well-typed.
THEOREM TypeCorrect == Spec => []TypeOK
<1>1. IInv => TypeOK BY DEF IInv
<1>2. QED BY <1>1, Invariant, PTL

\* projectWorkflowActivities: whatever passages the engine and the task service let
\* into a task, following them fails nowhere, and one activity is active, that of the
\* task's step, until the task is closed.
THEOREM TasksAreProjectable == Spec => []EveryTaskIsProjectable
<1>1. IInv => EveryTaskIsProjectable
  BY ConstantsAssumption, FollowedIsProjectable DEF IInv
<1>2. QED BY <1>1, Invariant, PTL

\* refresh: header and activities are always those of one revision that the
\* task had, however many callers replace them and whatever they lose.
THEOREM RowsAreConsistent == Spec => []RowsAreOfOneRevision
<1>1. IInv => RowsAreOfOneRevision BY DEF IInv
<1>2. QED BY <1>1, Invariant, PTL

\* withWorkflowActivityProjection: nothing but a failed, skipped or lagging
\* refresh can leave the rows behind the task once the callers are done.
THEOREM LagIsKnown == Spec => []BehindIsKnown
<1>1. IInv => BehindIsKnown BY DEF IInv
<1>2. QED BY <1>1, Invariant, PTL

\* refresh: the stored revision falls only to nothing.
THEOREM ProjectionNeverGoesBack == Spec => NeverBack
<1>1. IInv /\ [Next]_vars => (header' < header => header' = 0)
  <2>1. SUFFICES ASSUME IInv, [Next]_vars, header' < header PROVE header' = 0
    OBVIOUS
  <2>2. header \in Nat BY <2>1 DEF IInv, TypeOK
  <2>3. CASE UNCHANGED stored BY <2>1, <2>2, <2>3 DEF stored
  <2>4. CASE \E c \in Caller : Refreshed(c)
    BY <2>1, <2>2, <2>4 DEF Refreshed, NotOlder, Replace, IInv, TypeOK
  <2>5. QED BY <2>1, <2>3, <2>4, RowSteps DEF IInv
<1>2. QED BY <1>1, Invariant, PTL DEF Spec, NeverBack
=============================================================================
