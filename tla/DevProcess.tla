----------------------------- MODULE DevProcess -----------------------------
(***************************************************************************)
(* The Deno child of one studio draft (cbe/cbeDevProcess.ts).  The workers *)
(* share nothing but files: the lock .dev-<slug>.lock, the record dev.json *)
(* and the secret the child was started with.  Every call runs to its end  *)
(* before its worker does anything else, so a worker is in one call at a   *)
(* time, and a step is one system call another worker or a crash can come  *)
(* between.  A pid is never used again.                                    *)
(*                                                                         *)
(* Ports and the eviction of the idlest draft above COLLAB_DEV_MAX relate  *)
(* several drafts and are left out.                                        *)
(***************************************************************************)
EXTENDS Naturals, FiniteSets

CONSTANTS
  Worker,
  None,
  LOCK_RETRIES,
  MaxCalls, MaxSaves, MaxCrashes, MaxChildren, MaxCode  \* bounds

Child  == 1..MaxChildren
Pid    == Worker \X (0..MaxCrashes)
Lock   == [by : Pid, stamped : BOOLEAN]
Record == [child : Child, idle : BOOLEAN]

ASSUME ConstantsAssumption ==
  /\ LOCK_RETRIES \in Nat \ {0}
  /\ {MaxCalls, MaxSaves, MaxCrashes, MaxChildren, MaxCode} \subseteq Nat
  /\ MaxCode > 0
  /\ None \notin Lock /\ None \notin Record /\ None \notin Child

VARIABLES
  lock,     \* the lock file: who created it, and whether its pid is in it
  dev,      \* what readDevJson finds: None where dev.json is absent or unreadable
  secret,   \* the child whose secret the secret file holds
  life,     \* of each child: "unborn", "alive", "exiting" (signalled), "dead"
  started,  \* the saves each child read when it started, and its release
  saved,    \* saves of the draft's source so far
  epoch,    \* of each worker: how often it was restarted
  code,     \* codeId of each worker: the release it runs from
  pc, op,   \* where each worker is, in which call
  tries,    \* its attempts at the lock
  judged,   \* the lock file it judged
  hand,     \* the child it signalled or started
  pending,  \* the save its restart timer runs for, or 0
  want,     \* the save its restart is for
  answer,   \* what its call returns
  calls,
  broken,   \* history: a lock that was not the stale one judged was removed
  abandoned,\* history: children a crashed worker had in hand
  forgotten,\* history: children whose record a touch left unreadable
  lost      \* history: a restart was asked for and never tried

files   == <<lock, dev, secret>>
source  == <<saved, started>>
machine == <<epoch, code>>
call    == <<op, tries, judged, hand, want, answer>>
local   == <<call, pending>>
history == <<broken, abandoned, forgotten, lost>>
vars    == <<files, life, source, machine, pc, local, calls, history>>

me(w) == <<w, epoch[w]>>
isDevPidAlive(c) == life[c] \in {"alive", "exiting"}
NoAnswer == [child |-> None, secret |-> None]

Init ==
  /\ lock = None /\ dev = None /\ secret = None
  /\ life = [c \in Child |-> "unborn"]
  /\ started = [c \in Child |-> [saved |-> 0, code |-> 1]] /\ saved = 0
  /\ epoch = [w \in Worker |-> 0] /\ code = [w \in Worker |-> 1]
  /\ pc = [w \in Worker |-> "idle"] /\ op = [w \in Worker |-> "none"]
  /\ tries = [w \in Worker |-> 0] /\ judged = [w \in Worker |-> None]
  /\ hand = [w \in Worker |-> None] /\ pending = [w \in Worker |-> 0] /\ want = [w \in Worker |-> 0]
  /\ answer = [w \in Worker |-> NoAnswer]
  /\ calls = 0
  /\ broken = FALSE /\ abandoned = {} /\ forgotten = {} /\ lost = FALSE

Goto(w, l) == pc' = [pc EXCEPT ![w] = l]

\* A call is over, and what it knew is gone.
Return(w) ==
  /\ Goto(w, "idle")
  /\ op' = [op EXCEPT ![w] = "none"]
  /\ tries' = [tries EXCEPT ![w] = 0]
  /\ judged' = [judged EXCEPT ![w] = None]
  /\ hand' = [hand EXCEPT ![w] = None]
  /\ want' = [want EXCEPT ![w] = 0]
  /\ answer' = [answer EXCEPT ![w] = NoAnswer]

(***************************************************************************)
(* Calls: ensure, stop and touch from requests, stop from the idle sweep,  *)
(* restart from the timer a save sets.                                     *)
(***************************************************************************)
\* assertSlug, then the lock.
Start(w, o) ==
  /\ pc[w] = "idle"
  /\ Goto(w, "acquire")
  /\ op' = [op EXCEPT ![w] = o]
  /\ UNCHANGED <<files, life, source, machine, tries, judged, hand, answer, history>>

Call(w) ==
  /\ calls < MaxCalls /\ calls' = calls + 1
  /\ \E o \in {"ensure", "stop", "touch"} : Start(w, o)
  /\ UNCHANGED <<pending, want>>

\* The sweep reads the records before it takes any lock.
reapIdle(w) ==
  /\ dev # None /\ dev.idle
  /\ calls < MaxCalls /\ calls' = calls + 1
  /\ Start(w, "stop")
  /\ UNCHANGED <<pending, want>>

\* The timer is cleared and not set again.
SaveCancelsTimer(w) ==
  /\ pc[w] = "idle" /\ saved < MaxSaves
  /\ saved' = saved + 1
  /\ pending' = [pending EXCEPT ![w] = 0]
  /\ UNCHANGED <<files, life, started, machine, pc, op, tries, judged, hand, want, answer, calls, history>>

\* A save writes the source and sets the timer again; its waiter joins those
\* that wait already.
restartDevProcess(w) ==
  /\ pc[w] = "idle" /\ saved < MaxSaves
  /\ saved' = saved + 1
  /\ pending' = [pending EXCEPT ![w] = saved + 1]
  /\ UNCHANGED <<files, life, started, machine, pc, op, tries, judged, hand, want, answer, calls, history>>

FireRestart(w) ==
  /\ pending[w] # 0
  /\ Start(w, "restart")
  /\ pending' = [pending EXCEPT ![w] = 0]
  /\ want' = [want EXCEPT ![w] = pending[w]]
  /\ UNCHANGED calls

(***************************************************************************)
(* The lock                                                                *)
(***************************************************************************)
\* openSync(path, "wx") creates an empty file; the pid is written next, into
\* the file that was created even when another worker has removed it.
CreateLock(w) ==
  /\ pc[w] = "acquire" /\ lock = None
  /\ lock' = [by |-> me(w), stamped |-> FALSE]
  /\ Goto(w, "stamp")
  /\ UNCHANGED <<dev, secret, life, source, machine, local, calls, history>>

Entry(o) ==
  CASE o \in {"stop", "restart"} -> "stop" [] o = "ensure" -> "look" [] o = "touch" -> "touch"

StampLock(w) ==
  /\ pc[w] = "stamp"
  /\ lock' = IF lock # None /\ lock.by = me(w) THEN [lock EXCEPT !.stamped = TRUE] ELSE lock
  /\ Goto(w, Entry(op[w]))
  /\ UNCHANGED <<dev, secret, life, source, machine, local, calls, history>>

LockExists(w) ==
  /\ pc[w] = "acquire" /\ lock # None
  /\ Goto(w, "judge")
  /\ UNCHANGED <<files, life, source, machine, local, calls, history>>

lockAlwaysStale(l) == TRUE

\* The pid of an empty file is Number("") = 0 and never alive; a file that has
\* gone is stale as well.
lockIsStale(l) == l = None \/ ~l.stamped \/ l.by[2] < epoch[l.by[1]]

\* The next attempt, or "dev lock busy" after the last.
TryAgain(w) ==
  \/ /\ tries[w] + 1 < LOCK_RETRIES
     /\ tries' = [tries EXCEPT ![w] = @ + 1]
     /\ judged' = [judged EXCEPT ![w] = None]
     /\ Goto(w, "acquire")
     /\ UNCHANGED <<op, hand, want, answer, lost>>
  \/ /\ tries[w] + 1 = LOCK_RETRIES
     /\ lost' = (lost \/ op[w] = "restart")
     /\ Return(w)

JudgeLock(w) ==
  /\ pc[w] = "judge"
  /\ IF lockIsStale(lock)
     THEN /\ judged' = [judged EXCEPT ![w] = lock]
          /\ Goto(w, "break")
          /\ UNCHANGED <<op, tries, hand, want, answer, lost>>
     ELSE TryAgain(w)
  /\ UNCHANGED <<files, life, source, machine, pending, calls, broken, abandoned, forgotten>>

\* rmSync removes whatever is at the path by then.
BreakLock(w) ==
  LET live == lock # None /\ lock.by[2] = epoch[lock.by[1]]
      seen == judged[w] # None /\ judged[w].stamped /\ judged[w] = lock
  IN /\ pc[w] = "break"
     /\ lock' = None
     /\ broken' = (broken \/ (live /\ ~seen))
     /\ TryAgain(w)
     /\ UNCHANGED <<dev, secret, life, source, machine, pending, calls, abandoned, forgotten>>

releaseLock(w) ==
  /\ pc[w] = "release"
  /\ lock' = IF lock # None /\ lock.by = me(w) /\ lock.stamped THEN None ELSE lock
  /\ Return(w)
  /\ UNCHANGED <<dev, secret, life, source, machine, pending, calls, history>>

(***************************************************************************)
(* stopDevUnlocked                                                         *)
(***************************************************************************)
killDevPid(c) == life' = [life EXCEPT ![c] = IF isDevPidAlive(c) THEN "exiting" ELSE @]

StopChild(w) ==
  /\ pc[w] = "stop"
  /\ \/ dev = None /\ Goto(w, "unsecret") /\ UNCHANGED <<life, hand>>
     \/ /\ dev # None /\ killDevPid(dev.child)
        /\ hand' = [hand EXCEPT ![w] = dev.child]
        /\ Goto(w, "forget")
  /\ UNCHANGED <<files, source, machine, op, tries, judged, pending, want, answer, calls, history>>

\* Shared with ensureUnlocked: the record goes first, then the secret.
ForgetChild(w) ==
  /\ pc[w] = "forget" /\ dev' = None
  /\ Goto(w, "unsecret")
  /\ UNCHANGED <<lock, secret, life, source, machine, local, calls, history>>

\* After a stop the call is over, or it goes on as a restart does: with ensure,
\* which comes through here again before it starts a child.
removeIdentitySecret(w) ==
  /\ pc[w] = "unsecret" /\ secret' = None
  /\ Goto(w, CASE op[w] = "stop" -> "release" [] op[w] = "restart" -> "look" [] OTHER -> "spawn")
  /\ op' = [op EXCEPT ![w] = IF @ = "restart" THEN "restarted" ELSE @]
  /\ UNCHANGED <<lock, dev, life, source, machine, tries, judged, hand, pending, want, answer, calls, history>>

(***************************************************************************)
(* ensureUnlocked                                                          *)
(***************************************************************************)
ChildRuns == dev # None /\ isDevPidAlive(dev.child)
SameCode(w) == started[dev.child].code = code[w]
Reusable(w) == secret # None /\ SameCode(w)

\* It fails without a worktree or a release configuration.
LookAtChild(w) ==
  /\ pc[w] = "look"
  /\ \/ Goto(w, "release") /\ UNCHANGED <<life, hand, answer>>
     \/ /\ ChildRuns /\ Reusable(w)
        /\ answer' = [answer EXCEPT ![w] = [child |-> dev.child, secret |-> secret]]
        /\ Goto(w, "release") /\ UNCHANGED <<life, hand>>
     \/ /\ ChildRuns /\ ~Reusable(w)
        /\ killDevPid(dev.child)
        /\ hand' = [hand EXCEPT ![w] = dev.child]
        /\ Goto(w, "await") /\ UNCHANGED answer
     \/ /\ ~ChildRuns
        /\ Goto(w, "forget") /\ UNCHANGED <<life, hand, answer>>
  /\ UNCHANGED <<files, source, machine, op, tries, judged, pending, want, calls, history>>

\* It waits for the child to exit, and goes on after DEV_EXIT_WAIT_MS anyway.
AwaitExit(w) ==
  /\ pc[w] = "await" /\ Goto(w, "forget")
  /\ UNCHANGED <<files, life, source, machine, local, calls, history>>

\* The checks before it may fail; a child that was started reads the source.
SpawnChild(w) ==
  /\ pc[w] = "spawn"
  /\ \/ Goto(w, "release") /\ UNCHANGED <<life, started, hand>>
     \/ \E c \in Child :
          /\ life[c] = "unborn" /\ \A b \in Child : b < c => life[b] # "unborn"
          /\ life' = [life EXCEPT ![c] = "alive"]
          /\ started' = [started EXCEPT ![c] = [saved |-> saved, code |-> code[w]]]
          /\ hand' = [hand EXCEPT ![w] = c]
          /\ Goto(w, "secret")
  /\ UNCHANGED <<files, saved, machine, op, tries, judged, pending, want, answer, calls, history>>

WriteFailedSilently(w) == UNCHANGED life /\ Goto(w, "release")

\* A write that fails stops the child just started.
WriteFailed(w) == killDevPid(hand[w]) /\ Goto(w, "release")

writeIdentitySecret(w) ==
  /\ pc[w] = "secret"
  /\ \/ secret' = hand[w] /\ Goto(w, "record") /\ UNCHANGED life
     \/ WriteFailed(w) /\ UNCHANGED secret
  /\ UNCHANGED <<lock, dev, source, machine, local, calls, history>>

WriteRecord(w) ==
  /\ pc[w] = "record"
  /\ \/ /\ dev' = [child |-> hand[w], idle |-> FALSE]
        /\ answer' = [answer EXCEPT ![w] = [child |-> hand[w], secret |-> hand[w]]]
        /\ Goto(w, "release") /\ UNCHANGED life
     \/ WriteFailed(w) /\ UNCHANGED <<dev, answer>>
  /\ UNCHANGED <<lock, secret, source, machine, op, tries, judged, hand, pending, want, calls, history>>

(***************************************************************************)
(* touchDevProcess rewrites the record it read, in place: writeFileSync    *)
(* empties the file and then writes it, and either may fail.               *)
(***************************************************************************)
TouchRead(w) ==
  /\ pc[w] = "touch"
  /\ Goto(w, IF dev = None THEN "release" ELSE "empty")
  /\ hand' = [hand EXCEPT ![w] = IF dev = None THEN None ELSE dev.child]
  /\ UNCHANGED <<files, life, source, machine, op, tries, judged, pending, want, answer, calls, history>>

TouchEmpty(w) ==
  /\ pc[w] = "empty"
  /\ \/ dev' = None /\ Goto(w, "rewrite")
     \/ dev' = dev /\ Goto(w, "release")
  /\ UNCHANGED <<lock, secret, life, source, machine, local, calls, history>>

\* If it fails, the child runs on and is on no record.
TouchWrite(w) ==
  /\ pc[w] = "rewrite"
  /\ \/ dev' = [child |-> hand[w], idle |-> FALSE] /\ UNCHANGED forgotten
     \/ dev' = None /\ forgotten' = forgotten \union {hand[w]}
  /\ Goto(w, "release")
  /\ UNCHANGED <<lock, secret, life, source, machine, local, calls, broken, abandoned, lost>>

(***************************************************************************)
(* What happens to workers, children and files                             *)
(***************************************************************************)
\* A worker dies in the middle of a call, or is reloaded from the next release.
\* Its timer goes with it.
Crash(w) ==
  /\ \A v \in Worker : epoch[v] < MaxCrashes
  /\ epoch' = [epoch EXCEPT ![w] = @ + 1]
  /\ \E v \in code[w]..MaxCode : code' = [code EXCEPT ![w] = v]
  /\ pending' = [pending EXCEPT ![w] = 0]
  /\ abandoned' = IF pc[w] \in {"await", "forget", "secret", "record"} /\ hand[w] # None
                  THEN abandoned \union {hand[w]} ELSE abandoned
  /\ forgotten' = IF pc[w] = "rewrite" THEN forgotten \union {hand[w]} ELSE forgotten
  /\ lost' = (lost \/ pending[w] # 0 \/ op[w] \in {"restart", "restarted"})
  /\ Return(w)
  /\ UNCHANGED <<files, life, source, calls, broken>>

ChildExits(c) ==
  /\ life[c] = "exiting" /\ life' = [life EXCEPT ![c] = "dead"]
  /\ UNCHANGED <<files, source, machine, pc, local, calls, history>>

ChildDies(c) ==
  /\ life[c] = "alive" /\ life' = [life EXCEPT ![c] = "dead"]
  /\ UNCHANGED <<files, source, machine, pc, local, calls, history>>

\* Half an hour passes without a request.
IdleTimePasses ==
  /\ dev # None /\ ~dev.idle /\ dev' = [dev EXCEPT !.idle = TRUE]
  /\ UNCHANGED <<lock, secret, life, source, machine, pc, local, calls, history>>

\* The secrets are in the temporary directory.
TmpIsCleaned ==
  /\ secret # None /\ secret' = None
  /\ UNCHANGED <<lock, dev, life, source, machine, pc, local, calls, history>>

Step(w) ==
  \/ CreateLock(w) \/ StampLock(w) \/ LockExists(w) \/ JudgeLock(w) \/ BreakLock(w)
  \/ releaseLock(w)
  \/ StopChild(w) \/ ForgetChild(w) \/ removeIdentitySecret(w)
  \/ LookAtChild(w) \/ AwaitExit(w) \/ SpawnChild(w)
  \/ writeIdentitySecret(w) \/ WriteRecord(w)
  \/ TouchRead(w) \/ TouchEmpty(w) \/ TouchWrite(w)

Next ==
  \/ \E w \in Worker :
       Call(w) \/ reapIdle(w) \/ restartDevProcess(w) \/ FireRestart(w) \/ Step(w) \/ Crash(w)
  \/ \E c \in Child : ChildExits(c) \/ ChildDies(c)
  \/ IdleTimePasses \/ TmpIsCleaned

\* A call runs to its end, a timer fires, a child that was asked to exit does.
Fairness ==
  /\ \A w \in Worker : WF_vars(Step(w)) /\ WF_vars(FireRestart(w))
  /\ \A c \in Child : WF_vars(ChildExits(c))

Spec == Init /\ [][Next]_vars /\ Fairness

(***************************************************************************)
(* Properties                                                              *)
(***************************************************************************)
InSection(w) ==
  pc[w] \notin {"idle", "acquire", "judge", "break"}

\* Two workers are in the section of one draft only after one of them removed a
\* lock it had not found stale as it was: empty, gone, or replaced meanwhile.
ExclusiveUnlessBroken ==
  ~broken => \A v, w \in Worker : InSection(v) /\ InSection(w) => v = w

\* A child that runs is on record, or a worker is about to record it (again), or
\* the worker that had it in hand crashed, or a touch of its record, rewritten in
\* place, was cut short by a crash or a failing write.  Nothing else leaves one
\* behind: no other failing write, no stop, no replacement, no touch that comes
\* between them.
NoStrayChild ==
  ~broken => \A c \in Child : life[c] = "alive" =>
    \/ dev # None /\ dev.child = c
    \/ \E w \in Worker : pc[w] \in {"secret", "record", "rewrite"} /\ hand[w] = c
    \/ c \in abandoned \union forgotten

Answered(w) == pc[w] = "release" /\ answer[w].child # None

\* ensureDevProcess answers with a child nobody has asked to exit (unless the
\* one who asked crashed before it removed the record) and the secret that
\* child was started with; a restart answers with a child that has read the
\* saves that asked for it.
AnswerIsUsable ==
  ~broken => \A w \in Worker : Answered(w) =>
    /\ answer[w].secret = answer[w].child
    /\ life[answer[w].child] # "exiting" \/ answer[w].child \in abandoned
    /\ started[answer[w].child].saved >= want[w]

Excused == broken \/ lost \/ abandoned \union forgotten # {}

\* A save reaches every child that runs, unless its restart was lost with the
\* worker or gave up on a busy lock, or a child is on no record.
SaveIsServed ==
  \A n \in 1..MaxSaves :
    saved >= n ~> Excused \/ \A c \in Child : life[c] = "alive" => started[c].saved >= n
=============================================================================
