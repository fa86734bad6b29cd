-------------------------- MODULE DevProcessProofs --------------------------
(***************************************************************************)
(* Proofs about the child process of a draft, for any number of workers,   *)
(* children, calls, saves and crashes.  The inductive invariant IInv has    *)
(* what holds of a worker by itself (Local) and, until a live lock is       *)
(* broken, that the lock is that of the worker in the section (Held), what  *)
(* that worker can rely on at each point (Section), what the files say of   *)
(* the child on record (Files), and that no child is astray.                *)
(***************************************************************************)
EXTENDS DevProcess, TLAPS

Locations ==
  {"idle", "acquire", "judge", "break", "stamp", "stop", "forget", "unsecret", "look", "await",
   "spawn", "secret", "record", "touch", "empty", "rewrite", "release"}
Answers == [child : Child \union {None}, secret : Child \union {None}]
Starts == [saved : Nat, code : Nat]

TypeOK ==
  /\ lock \in Lock \union {None} /\ dev \in Record \union {None} /\ secret \in Child \union {None}
  /\ life \in [Child -> {"unborn", "alive", "exiting", "dead"}]
  /\ started \in [Child -> Starts] /\ saved \in Nat
  /\ epoch \in [Worker -> 0..MaxCrashes] /\ code \in [Worker -> Nat]
  /\ pc \in [Worker -> Locations]
  /\ op \in [Worker -> {"none", "ensure", "stop", "touch", "restart", "restarted"}]
  /\ tries \in [Worker -> Nat] /\ judged \in [Worker -> Lock \union {None}]
  /\ hand \in [Worker -> Child \union {None}]
  /\ pending \in [Worker -> Nat] /\ want \in [Worker -> Nat]
  /\ answer \in [Worker -> Answers]
  /\ calls \in Nat /\ broken \in BOOLEAN /\ lost \in BOOLEAN
  /\ abandoned \subseteq Child /\ forgotten \subseteq Child

Spawned(w) == pc[w] \in {"secret", "record"}
Recording(w) == Spawned(w) \/ pc[w] = "rewrite"
Waiting(w) == pc[w] \in {"acquire", "judge", "break", "stamp"}

\* A worker answers once, wants saves only in a restart, and breaks a stamped lock
\* only when its worker has gone.
Local(w) ==
  /\ pc[w] # "release" => answer[w] = NoAnswer
  /\ Recording(w) \/ pc[w] = "empty" => hand[w] \in Child
  /\ want[w] <= saved /\ pending[w] <= saved
  /\ want[w] # 0 => op[w] \in {"restart", "restarted"}
  /\ pc[w] = "idle" => op[w] = "none"
  /\ Waiting(w) => op[w] \in {"ensure", "stop", "touch", "restart"}
  /\ op[w] = "restart" => Waiting(w) \/ pc[w] \in {"stop", "forget", "unsecret"}
  /\ judged[w] # None /\ judged[w].stamped => judged[w].by[2] < epoch[judged[w].by[1]]

Held(w) == InSection(w) => lock # None /\ lock.by = me(w)

Usable(w) ==
  /\ answer[w].secret = answer[w].child
  /\ life[answer[w].child] # "exiting" \/ answer[w].child \in abandoned
  /\ started[answer[w].child].saved >= want[w]

Section(w) ==
  /\ pc[w] \in {"await", "forget"} /\ dev # None => life[dev.child] # "alive"
  /\ pc[w] \in {"unsecret", "spawn", "secret", "record", "rewrite"} => dev = None
  /\ pc[w] = "look" /\ op[w] = "restarted" => dev = None
  /\ pc[w] = "empty" => dev # None /\ dev.child = hand[w]
  /\ pc[w] = "rewrite" =>
       /\ secret \in {None, hand[w]} /\ life[hand[w]] # "unborn"
       /\ life[hand[w]] = "exiting" => hand[w] \in abandoned
  /\ Spawned(w) => life[hand[w]] \in {"alive", "dead"} /\ started[hand[w]].saved >= want[w]
  /\ pc[w] = "record" => secret \in {None, hand[w]}
  /\ Answered(w) => Usable(w)

Ending(c) == \E w \in Worker : pc[w] \in {"await", "forget"} /\ hand[w] = c

Files ==
  dev # None =>
    /\ secret \in {None, dev.child}
    /\ life[dev.child] # "unborn"
    /\ life[dev.child] = "exiting" => dev.child \in abandoned \/ Ending(dev.child)

Astray(c) ==
  /\ life[c] = "alive" /\ c \notin abandoned \union forgotten
  /\ dev = None \/ dev.child # c
  /\ \A w \in Worker : ~(Recording(w) /\ hand[w] = c)

Sound == Files /\ (\A w \in Worker : Held(w) /\ Section(w)) /\ \A c \in Child : ~Astray(c)

IInv == TypeOK /\ (\A w \in Worker : Local(w)) /\ (~broken => Sound)

(***************************************************************************)
(* Types                                                                   *)
(***************************************************************************)
LEMMA Initially == Init => IInv
  <1> SUFFICES ASSUME Init PROVE IInv
      OBVIOUS
  <1>1. NoAnswer \in Answers
        BY DEF NoAnswer, Answers
  <1>2. TypeOK
        <2>1. started \in [Child -> Starts]
              BY DEF Init, Starts
        <2>2. epoch \in [Worker -> 0..MaxCrashes]
              BY ConstantsAssumption DEF Init
        <2>3. pc \in [Worker -> Locations] /\ answer \in [Worker -> Answers]
              BY <1>1 DEF Init, Locations
        <2> QED BY <2>1, <2>2, <2>3 DEF Init, TypeOK
  <1>3. \A w \in Worker : Local(w)
        BY DEF Init, Local, Spawned, Recording, Waiting
  <1>4. \A w \in Worker : Held(w) /\ Section(w)
        BY DEF Init, Held, InSection, Section, Spawned, Recording, Answered, NoAnswer
  <1>5. Files /\ \A c \in Child : ~Astray(c)
        BY DEF Init, Files, Astray
  <1> QED BY <1>2, <1>3, <1>4, <1>5 DEF IInv, Sound

LEMMA GotoTypes ==
  ASSUME TypeOK, NEW w \in Worker, NEW l \in Locations, Goto(w, l)
  PROVE  pc' \in [Worker -> Locations]
  BY DEF TypeOK, Goto

LEMMA ReturnTypes ==
  ASSUME TypeOK, NEW w \in Worker, Return(w)
  PROVE  /\ pc' \in [Worker -> Locations]
         /\ op' \in [Worker -> {"none", "ensure", "stop", "touch", "restart", "restarted"}]
         /\ tries' \in [Worker -> Nat] /\ judged' \in [Worker -> Lock \union {None}]
         /\ hand' \in [Worker -> Child \union {None}]
         /\ want' \in [Worker -> Nat]
         /\ answer' \in [Worker -> Answers]
  <1>1. NoAnswer \in Answers
        BY DEF NoAnswer, Answers
  <1> QED BY <1>1 DEF TypeOK, Return, Goto, Locations

LEMMA TryAgainTypes ==
  ASSUME TypeOK, NEW w \in Worker, TryAgain(w)
  PROVE  /\ pc' \in [Worker -> Locations]
         /\ op' \in [Worker -> {"none", "ensure", "stop", "touch", "restart", "restarted"}]
         /\ tries' \in [Worker -> Nat] /\ judged' \in [Worker -> Lock \union {None}]
         /\ hand' \in [Worker -> Child \union {None}]
         /\ want' \in [Worker -> Nat]
         /\ answer' \in [Worker -> Answers] /\ lost' \in BOOLEAN
  <1>1. CASE tries[w] + 1 = LOCK_RETRIES /\ lost' = (lost \/ op[w] = "restart") /\ Return(w)
        <2>1. lost' \in BOOLEAN
              BY <1>1, Zenon DEF TypeOK
        <2> QED BY <1>1, <2>1, ReturnTypes
  <1>2. CASE ~(tries[w] + 1 = LOCK_RETRIES /\ lost' = (lost \/ op[w] = "restart") /\ Return(w))
        BY <1>2 DEF TypeOK, TryAgain, Goto, Locations
  <1> QED BY <1>1, <1>2

LEMMA CallTypes ==
  ASSUME TypeOK, NEW w \in Worker,
         Call(w) \/ reapIdle(w) \/ restartDevProcess(w) \/ FireRestart(w)
  PROVE  TypeOK'
  <1>1. ASSUME NEW o \in {"ensure", "stop", "touch", "restart"}, Start(w, o),
               pending' \in [Worker -> Nat], want' \in [Worker -> Nat], calls' \in Nat
        PROVE  TypeOK'
        <2>1. pc' \in [Worker -> Locations]
              BY <1>1 DEF TypeOK, Start, Goto, Locations
        <2> QED BY <1>1, <2>1 DEF TypeOK, Start, files, source, machine, history
  <1>2. CASE Call(w)
        <2>1. PICK o \in {"ensure", "stop", "touch"} : Start(w, o)
              BY <1>2 DEF Call
        <2> QED BY <1>1, <1>2, <2>1 DEF TypeOK, Call
  <1>3. CASE reapIdle(w)
        BY <1>1, <1>3 DEF TypeOK, reapIdle
  <1>4. CASE restartDevProcess(w)
        BY <1>4 DEF TypeOK, restartDevProcess, files, machine, history
  <1>5. CASE FireRestart(w)
        BY <1>1, <1>5 DEF TypeOK, FireRestart
  <1> QED BY <1>2, <1>3, <1>4, <1>5

LEMMA LockTypes ==
  ASSUME TypeOK, NEW w \in Worker, Local(w),
         \/ CreateLock(w) \/ StampLock(w) \/ LockExists(w) \/ JudgeLock(w) \/ BreakLock(w)
         \/ releaseLock(w)
  PROVE  TypeOK'
  <1>1. CASE CreateLock(w)
        <2>1. [by |-> me(w), stamped |-> FALSE] \in Lock
              BY DEF me, Lock, Pid, TypeOK
        <2> QED BY <1>1, <2>1 DEF TypeOK, CreateLock, Goto, Locations, source, machine, local, call, history
  <1>2. CASE StampLock(w)
        <2>1. Entry(op[w]) \in Locations
              BY <1>2 DEF Entry, Locations, Local, Waiting, StampLock
        <2>2. lock' \in Lock \union {None}
              BY <1>2, ConstantsAssumption DEF StampLock, TypeOK, Lock
        <2> QED BY <1>2, <2>1, <2>2 DEF TypeOK, StampLock, Goto, source, machine, local, call, history
  <1>3. CASE LockExists(w)
        BY <1>3 DEF TypeOK, LockExists, Goto, Locations, files, source, machine, local, call, history
  <1>4. CASE JudgeLock(w)
        <2>1. CASE lockIsStale(lock)
              BY <1>4, <2>1 DEF TypeOK, JudgeLock, Goto, Locations, files, source, machine
        <2>2. CASE ~lockIsStale(lock)
              BY <1>4, <2>2, TryAgainTypes DEF TypeOK, JudgeLock, files, source, machine
        <2> QED BY <2>1, <2>2
  <1>5. CASE BreakLock(w)
        <2>1. broken' \in BOOLEAN
              BY <1>5, Zenon DEF BreakLock, TypeOK
        <2> QED BY <1>5, <2>1, TryAgainTypes DEF TypeOK, BreakLock, source, machine
  <1>6. CASE releaseLock(w)
        BY <1>6, ReturnTypes DEF TypeOK, releaseLock, source, machine, history
  <1> QED BY <1>1, <1>2, <1>3, <1>4, <1>5, <1>6

LEMMA KillTypes ==
  ASSUME TypeOK, NEW c, killDevPid(c)
  PROVE  life' \in [Child -> {"unborn", "alive", "exiting", "dead"}]
  BY DEF TypeOK, killDevPid

LEMMA SectionTypes ==
  ASSUME TypeOK, NEW w \in Worker, Local(w),
         \/ StopChild(w) \/ ForgetChild(w) \/ removeIdentitySecret(w) \/ LookAtChild(w)
         \/ AwaitExit(w) \/ SpawnChild(w) \/ writeIdentitySecret(w) \/ WriteRecord(w)
         \/ TouchRead(w) \/ TouchEmpty(w) \/ TouchWrite(w)
  PROVE  TypeOK'
  <1>0. dev # None => dev.child \in Child
        BY DEF TypeOK, Record
  <1>1. CASE StopChild(w)
        BY <1>0, <1>1, KillTypes DEF TypeOK, StopChild, Goto, Locations, files, source, machine, history
  <1>2. CASE ForgetChild(w)
        BY <1>2 DEF TypeOK, ForgetChild, Goto, Locations, source, machine, local, call, history
  <1>3. CASE removeIdentitySecret(w)
        BY <1>3 DEF TypeOK, removeIdentitySecret, Goto, Locations, source, machine, history
  <1>4. CASE LookAtChild(w)
        <2>1. pc' \in [Worker -> Locations] /\ hand' \in [Worker -> Child \union {None}]
              BY <1>0, <1>4 DEF TypeOK, LookAtChild, Goto, Locations, ChildRuns
        <2>2. life' \in [Child -> {"unborn", "alive", "exiting", "dead"}]
              BY <1>4, KillTypes DEF TypeOK, LookAtChild
        <2>3. answer' \in [Worker -> Answers]
              <3>1. ChildRuns => [child |-> dev.child, secret |-> secret] \in Answers
                    BY <1>0 DEF TypeOK, ChildRuns, Answers
              <3> QED BY <1>4, <3>1 DEF TypeOK, LookAtChild
        <2> QED BY <1>4, <2>1, <2>2, <2>3 DEF TypeOK, LookAtChild, files, source, machine, history
  <1>5. CASE AwaitExit(w)
        BY <1>5 DEF TypeOK, AwaitExit, Goto, Locations, files, source, machine, local, call, history
  <1>6. CASE SpawnChild(w)
        <2>1. [saved |-> saved, code |-> code[w]] \in Starts
              BY DEF TypeOK, Starts
        <2> QED BY <1>6, <2>1 DEF TypeOK, SpawnChild, Goto, Locations, files, machine, history
  <1>7. CASE writeIdentitySecret(w)
        BY <1>7, KillTypes DEF TypeOK, writeIdentitySecret, WriteFailed, Goto, Locations, source, machine,
                               local, call, history
  <1>8. CASE WriteRecord(w)
        <2>1. hand[w] \in Child
              BY <1>8 DEF WriteRecord, Local, Spawned, Recording
        <2>2. [child |-> hand[w], idle |-> FALSE] \in Record /\ [child |-> hand[w], secret |-> hand[w]] \in Answers
              BY <2>1 DEF Record, Answers
        <2> QED BY <1>8, <2>2, KillTypes DEF TypeOK, WriteRecord, WriteFailed, Goto, Locations, source,
                               machine, history
  <1>9. CASE TouchRead(w)
        BY <1>0, <1>9 DEF TypeOK, TouchRead, Goto, Locations, files, source, machine, history
  <1>10. CASE TouchEmpty(w)
        BY <1>10 DEF TypeOK, TouchEmpty, Goto, Locations, source, machine, local, call, history
  <1>11. CASE TouchWrite(w)
        <2>1. hand[w] \in Child /\ [child |-> hand[w], idle |-> FALSE] \in Record
              BY <1>11 DEF TouchWrite, Local, Spawned, Recording, Record
        <2> QED BY <1>11, <2>1 DEF TypeOK, TouchWrite, Goto, Locations, source, machine, local, call, history
  <1> QED BY <1>1, <1>2, <1>3, <1>4, <1>5, <1>6, <1>7, <1>8, <1>9, <1>10, <1>11

LEMMA CrashTypes ==
  ASSUME TypeOK, NEW w \in Worker, Local(w), Crash(w)
  PROVE  TypeOK'
  <1>1. epoch' \in [Worker -> 0..MaxCrashes]
        BY ConstantsAssumption DEF TypeOK, Crash
  <1>2. code' \in [Worker -> Nat] /\ pending' \in [Worker -> Nat]
        BY ConstantsAssumption DEF TypeOK, Crash
  <1>3. abandoned' \subseteq Child /\ forgotten' \subseteq Child
        <2>1. pc[w] = "rewrite" => hand[w] \in Child
              BY DEF Local, Spawned, Recording
        <2> QED BY <2>1, ConstantsAssumption DEF TypeOK, Crash
  <1>4. lost' \in BOOLEAN
        BY Zenon DEF TypeOK, Crash
  <1> QED BY <1>1, <1>2, <1>3, <1>4, ReturnTypes DEF TypeOK, Crash, files, source

LEMMA OutsideTypes ==
  ASSUME TypeOK, (\E c \in Child : ChildExits(c) \/ ChildDies(c)) \/ IdleTimePasses \/ TmpIsCleaned
  PROVE  TypeOK'
  <1>1. CASE \E c \in Child : ChildExits(c) \/ ChildDies(c)
        BY <1>1 DEF TypeOK, ChildExits, ChildDies, files, source, machine, local, call, history
  <1>2. CASE IdleTimePasses
        <2>1. dev' \in Record
              BY <1>2 DEF IdleTimePasses, TypeOK, Record
        <2> QED BY <1>2, <2>1 DEF TypeOK, IdleTimePasses, source, machine, local, call, history
  <1>3. CASE TmpIsCleaned
        BY <1>3 DEF TypeOK, TmpIsCleaned, source, machine, local, call, history
  <1> QED BY <1>1, <1>2, <1>3

LEMMA TypesStay ==
  ASSUME TypeOK, \A w \in Worker : Local(w), [Next]_vars
  PROVE  TypeOK'
  <1>1. CASE UNCHANGED vars
        BY <1>1 DEF TypeOK, vars, files, source, machine, local, call, history
  <1>2. CASE Next
        BY <1>2, CallTypes, LockTypes, SectionTypes, CrashTypes, OutsideTypes DEF Next, Step
  <1> QED BY <1>1, <1>2

(***************************************************************************)
(* What holds of a worker by itself                                        *)
(***************************************************************************)
\* A step leaves a worker alone.
Same(v) ==
  /\ pc'[v] = pc[v] /\ op'[v] = op[v] /\ judged'[v] = judged[v] /\ hand'[v] = hand[v]
  /\ pending'[v] = pending[v] /\ want'[v] = want[v] /\ answer'[v] = answer[v]

Onward == saved <= saved' /\ \A u \in Worker : epoch[u] <= epoch'[u]

\* Workers only get older, and the source only newer, so what a worker has judged and
\* wants stays true.
LEMMA LocalKept ==
  ASSUME TypeOK, TypeOK', NEW v \in Worker, Local(v), Same(v), Onward
  PROVE  Local(v)'
  <1>1. /\ pc'[v] # "release" => answer'[v] = NoAnswer
        /\ Recording(v)' \/ pc'[v] = "empty" => hand'[v] \in Child
        /\ want'[v] # 0 => op'[v] \in {"restart", "restarted"}
        /\ pc'[v] = "idle" => op'[v] = "none"
        /\ Waiting(v)' => op'[v] \in {"ensure", "stop", "touch", "restart"}
        /\ op'[v] = "restart" => Waiting(v)' \/ pc'[v] \in {"stop", "forget", "unsecret"}
        BY DEF Local, Same, Spawned, Recording, Waiting
  <1>2. want'[v] <= saved' /\ pending'[v] <= saved'
        BY DEF Local, Same, Onward, TypeOK
  <1>3. ASSUME judged'[v] # None, judged'[v].stamped
        PROVE  judged'[v].by[2] < epoch'[judged'[v].by[1]]
        <2> DEFINE u == judged[v].by[1]
                   k == judged[v].by[2]
        <2>1. judged[v] \in Lock /\ judged[v].stamped /\ judged'[v] = judged[v]
              BY <1>3 DEF Same, TypeOK
        <2>2. u \in Worker /\ k \in Nat
              BY <2>1 DEF Lock, Pid
        <2>3. k < epoch[u]
              BY <1>3, <2>1 DEF Local
        <2>4. epoch[u] <= epoch'[u] /\ epoch[u] \in Nat /\ epoch'[u] \in Nat
              BY <2>2 DEF Onward, TypeOK
        <2>5. k < epoch'[u]
              BY <2>2, <2>3, <2>4
        <2> QED BY <2>1, <2>5
  <1> QED BY <1>1, <1>2, <1>3, Zenon DEF Local

LEMMA LocalReturned ==
  ASSUME TypeOK, NEW w \in Worker, Return(w), pending'[w] <= saved', saved' \in Nat
  PROVE  Local(w)'
  <1>1. /\ pc'[w] = "idle" /\ op'[w] = "none" /\ judged'[w] = None
        /\ want'[w] = 0 /\ answer'[w] = NoAnswer
        BY DEF TypeOK, Return, Goto
  <1> QED BY <1>1 DEF Local, Spawned, Recording, Waiting

LEMMA ReturnLeaves ==
  ASSUME TypeOK, NEW w \in Worker, Return(w), NEW v \in Worker, v # w, pending'[v] = pending[v]
  PROVE  Same(v)
  BY DEF TypeOK, Return, Goto, Same

LEMMA LocalStart ==
  ASSUME TypeOK, NEW w \in Worker, Local(w), NEW o \in {"ensure", "stop", "touch", "restart"}, Start(w, o),
         pending'[w] <= saved, want'[w] <= saved, want'[w] # 0 => o = "restart"
  PROVE  Local(w)'
  <1>1. /\ pc'[w] = "acquire" /\ op'[w] = o /\ saved' = saved /\ epoch' = epoch
        /\ judged'[w] = judged[w] /\ answer'[w] = answer[w] /\ answer[w] = NoAnswer
        BY DEF TypeOK, Start, Goto, source, machine, Local
  <1> QED BY <1>1 DEF Local, Spawned, Recording, Waiting

LEMMA CallLocal ==
  ASSUME TypeOK, TypeOK', NEW w \in Worker, \A v \in Worker : Local(v),
         Call(w) \/ reapIdle(w) \/ restartDevProcess(w) \/ FireRestart(w)
  PROVE  \A v \in Worker : Local(v)'
  <1>1. Local(w)'
        <2>1. CASE Call(w)
              <3>1. PICK o \in {"ensure", "stop", "touch"} : Start(w, o)
                    BY <2>1 DEF Call
              <3>2. pc[w] = "idle" /\ want'[w] = 0 /\ pending'[w] <= saved
                    BY <2>1, <3>1 DEF TypeOK, Call, Start, Local
              <3> QED BY <3>1, <3>2, LocalStart DEF TypeOK
        <2>2. CASE reapIdle(w)
              <3>1. pc[w] = "idle" /\ want'[w] = 0 /\ pending'[w] <= saved
                    BY <2>2 DEF TypeOK, reapIdle, Start, Local
              <3> QED BY <2>2, <3>1, LocalStart DEF TypeOK, reapIdle
        <2>3. CASE restartDevProcess(w)
              <3>1. pc[w] = "idle" /\ pc' = pc
                    BY <2>3 DEF restartDevProcess
              <3> QED BY <2>3, <3>1 DEF TypeOK, restartDevProcess, Local, Spawned, Recording, Waiting, machine
        <2>4. CASE FireRestart(w)
              <3>1. pending'[w] = 0 /\ want'[w] = pending[w]
                    BY <2>4 DEF TypeOK, FireRestart
              <3> QED BY <2>4, <3>1, LocalStart DEF TypeOK, FireRestart, Local
        <2> QED BY <2>1, <2>2, <2>3, <2>4
  <1>2. ASSUME NEW v \in Worker, v # w
        PROVE  Local(v)'
        <2>1. Same(v)
              BY <1>2 DEF TypeOK, Same, Call, reapIdle, restartDevProcess, FireRestart, Start, Goto
        <2>2. Onward
              BY DEF TypeOK, Onward, Call, reapIdle, restartDevProcess, FireRestart, Start, source, machine
        <2> QED BY <2>1, <2>2, LocalKept
  <1> QED BY <1>1, <1>2

\* Any lock that is stamped and judged stale is that of a worker restarted since.
LEMMA JudgedIsPast ==
  ASSUME TypeOK, lockIsStale(lock), lock # None, lock.stamped
  PROVE  lock.by[2] < epoch[lock.by[1]]
  BY DEF lockIsStale

LEMMA TryAgainLocal ==
  ASSUME TypeOK, NEW w \in Worker, Local(w), Waiting(w), TryAgain(w), saved' = saved, pending' = pending
  PROVE  Local(w)'
  <1>1. CASE Return(w)
        BY <1>1, LocalReturned DEF TypeOK, Local
  <1>2. CASE ~Return(w)
        <2>1. /\ pc'[w] = "acquire" /\ op' = op /\ judged'[w] = None /\ want' = want
              /\ answer' = answer /\ answer[w] = NoAnswer /\ hand' = hand
              BY <1>2 DEF TypeOK, TryAgain, Goto, Local, Waiting
        <2> QED BY <2>1 DEF Local, Spawned, Recording, Waiting
  <1> QED BY <1>1, <1>2

LEMMA TryAgainLeaves ==
  ASSUME TypeOK, NEW w \in Worker, TryAgain(w), NEW v \in Worker, v # w, pending'[v] = pending[v]
  PROVE  Same(v)
  <1>1. CASE Return(w)
        BY <1>1, ReturnLeaves
  <1>2. CASE ~Return(w)
        BY <1>2 DEF TypeOK, TryAgain, Goto, Same
  <1> QED BY <1>1, <1>2

LEMMA LockLeaves ==
  ASSUME TypeOK, NEW w \in Worker,
         \/ CreateLock(w) \/ StampLock(w) \/ LockExists(w) \/ JudgeLock(w) \/ BreakLock(w)
         \/ releaseLock(w)
  PROVE  /\ saved' = saved /\ epoch' = epoch /\ life' = life /\ started' = started
         /\ dev' = dev /\ secret' = secret /\ abandoned' = abandoned /\ forgotten' = forgotten
         /\ \A v \in Worker : v # w => Same(v)
  <1>1. CASE CreateLock(w) \/ StampLock(w) \/ LockExists(w)
        BY <1>1 DEF TypeOK, CreateLock, StampLock, LockExists, Goto, Same, files, source, machine, local, call,
                    history
  <1>2. CASE JudgeLock(w)
        <2>1. CASE lockIsStale(lock)
              BY <1>2, <2>1 DEF TypeOK, JudgeLock, Goto, Same, files, source, machine
        <2>2. CASE ~lockIsStale(lock)
              BY <1>2, <2>2, TryAgainLeaves DEF JudgeLock, files, source, machine
        <2> QED BY <2>1, <2>2
  <1>3. CASE BreakLock(w)
        BY <1>3, TryAgainLeaves DEF BreakLock, source, machine
  <1>4. CASE releaseLock(w)
        BY <1>4, ReturnLeaves DEF releaseLock, source, machine, history
  <1> QED BY <1>1, <1>2, <1>3, <1>4

LEMMA LockLocal ==
  ASSUME TypeOK, TypeOK', NEW w \in Worker, \A v \in Worker : Local(v),
         \/ CreateLock(w) \/ StampLock(w) \/ LockExists(w) \/ JudgeLock(w) \/ BreakLock(w)
         \/ releaseLock(w)
  PROVE  \A v \in Worker : Local(v)'
  <1>1. CASE CreateLock(w) \/ LockExists(w)
        <2>1. Local(w)'
              BY <1>1 DEF TypeOK, CreateLock, LockExists, Goto, Local, Spawned, Recording, Waiting, source, machine, local,
                          call
        <2> QED BY <2>1, LockLeaves, LocalKept DEF Onward, TypeOK
  <1>2. CASE StampLock(w)
        <2>1. Entry(op[w]) \in {"stop", "look", "touch"} /\ (op[w] = "restart" => Entry(op[w]) = "stop")
              BY <1>2 DEF StampLock, Local, Waiting, Entry
        <2>2. Local(w)'
              BY <1>2, <2>1 DEF TypeOK, StampLock, Goto, Local, Spawned, Recording, Waiting, source, machine, local, call
        <2> QED BY <2>2, LockLeaves, LocalKept DEF Onward, TypeOK
  <1>3. CASE JudgeLock(w)
        <2>1. CASE lockIsStale(lock)
              <3>1. /\ pc'[w] = "break" /\ judged'[w] = lock /\ pc[w] = "judge"
                    /\ epoch' = epoch /\ saved' = saved
                    /\ op' = op /\ hand' = hand /\ want' = want /\ answer' = answer /\ pending' = pending
                    BY <1>3, <2>1 DEF TypeOK, JudgeLock, Goto, source, machine
              <3>2. Local(w)'
                    BY <2>1, <3>1, JudgedIsPast DEF Local, Spawned, Recording, Waiting
              <3> QED BY <3>2, LockLeaves, LocalKept DEF Onward, TypeOK
        <2>2. CASE ~lockIsStale(lock)
              <3>1. Local(w)'
                    BY <1>3, <2>2, TryAgainLocal DEF JudgeLock, Waiting, source
              <3> QED BY <3>1, LockLeaves, LocalKept DEF Onward, TypeOK
        <2> QED BY <2>1, <2>2
  <1>4. CASE BreakLock(w)
        <2>1. Local(w)'
              BY <1>4, TryAgainLocal DEF BreakLock, Waiting, source
        <2> QED BY <2>1, LockLeaves, LocalKept DEF Onward, TypeOK
  <1>5. CASE releaseLock(w)
        <2>1. Local(w)'
              BY <1>5, LocalReturned DEF releaseLock, TypeOK, source, Local
        <2> QED BY <2>1, LockLeaves, LocalKept DEF Onward, TypeOK
  <1> QED BY <1>1, <1>2, <1>3, <1>4, <1>5

LEMMA SectionLeaves ==
  ASSUME TypeOK, NEW w \in Worker,
         \/ StopChild(w) \/ ForgetChild(w) \/ removeIdentitySecret(w) \/ LookAtChild(w)
         \/ AwaitExit(w) \/ SpawnChild(w) \/ writeIdentitySecret(w) \/ WriteRecord(w)
         \/ TouchRead(w) \/ TouchEmpty(w) \/ TouchWrite(w)
  PROVE  /\ saved' = saved /\ epoch' = epoch /\ lock' = lock /\ abandoned' = abandoned /\ broken' = broken
         /\ forgotten \subseteq forgotten'
         /\ \A v \in Worker : v # w => Same(v)
         /\ pending' = pending /\ want' = want /\ judged' = judged
         /\ InSection(w) /\ InSection(w)'
  <1>1. CASE StopChild(w)
        BY <1>1 DEF TypeOK, StopChild, Goto, Same, InSection, files, source, machine, history
  <1>2. CASE ForgetChild(w)
        BY <1>2 DEF TypeOK, ForgetChild, Goto, Same, InSection, source, machine, local, call, history
  <1>3. CASE removeIdentitySecret(w)
        BY <1>3 DEF TypeOK, removeIdentitySecret, Goto, Same, InSection, source, machine, history
  <1>4. CASE LookAtChild(w)
        BY <1>4 DEF TypeOK, LookAtChild, Goto, Same, InSection, files, source, machine, history
  <1>5. CASE AwaitExit(w)
        BY <1>5 DEF TypeOK, AwaitExit, Goto, Same, InSection, files, source, machine, local, call, history
  <1>6. CASE SpawnChild(w)
        BY <1>6 DEF TypeOK, SpawnChild, Goto, Same, InSection, files, machine, history
  <1>7. CASE writeIdentitySecret(w)
        BY <1>7 DEF TypeOK, writeIdentitySecret, WriteFailed, Goto, Same, InSection, source, machine, local,
                    call, history
  <1>8. CASE WriteRecord(w)
        BY <1>8 DEF TypeOK, WriteRecord, WriteFailed, Goto, Same, InSection, source, machine, history
  <1>9. CASE TouchRead(w)
        BY <1>9 DEF TypeOK, TouchRead, Goto, Same, InSection, files, source, machine, history
  <1>10. CASE TouchEmpty(w)
        BY <1>10 DEF TypeOK, TouchEmpty, Goto, Same, InSection, source, machine, local, call, history
  <1>11. CASE TouchWrite(w)
        BY <1>11 DEF TypeOK, TouchWrite, Goto, Same, InSection, source, machine, local, call, history
  <1> QED BY <1>1, <1>2, <1>3, <1>4, <1>5, <1>6, <1>7, <1>8, <1>9, <1>10, <1>11

LEMMA SectionLocal ==
  ASSUME TypeOK, TypeOK', NEW w \in Worker, \A v \in Worker : Local(v),
         \/ StopChild(w) \/ ForgetChild(w) \/ removeIdentitySecret(w) \/ LookAtChild(w)
         \/ AwaitExit(w) \/ SpawnChild(w) \/ writeIdentitySecret(w) \/ WriteRecord(w)
         \/ TouchRead(w) \/ TouchEmpty(w) \/ TouchWrite(w)
  PROVE  \A v \in Worker : Local(v)'
  <1>0. dev # None => dev.child \in Child
        BY DEF TypeOK, Record
  <1>1. Local(w)'
        <2>1. CASE StopChild(w)
              BY <2>1 DEF TypeOK, StopChild, Goto, Local, Spawned, Recording, Waiting, source, machine
        <2>2. CASE ForgetChild(w)
              BY <2>2 DEF TypeOK, ForgetChild, Goto, Local, Spawned, Recording, Waiting, source, machine, local, call
        <2>3. CASE removeIdentitySecret(w)
              BY <2>3 DEF TypeOK, removeIdentitySecret, Goto, Local, Spawned, Recording, Waiting, source, machine
        <2>4. CASE LookAtChild(w)
              BY <2>4 DEF TypeOK, LookAtChild, Goto, Local, Spawned, Recording, Waiting, source, machine
        <2>5. CASE AwaitExit(w)
              BY <2>5 DEF TypeOK, AwaitExit, Goto, Local, Spawned, Recording, Waiting, source, machine, local, call
        <2>6. CASE SpawnChild(w)
              BY <2>6 DEF TypeOK, SpawnChild, Goto, Local, Spawned, Recording, Waiting, machine
        <2>7. CASE writeIdentitySecret(w)
              BY <2>7 DEF TypeOK, writeIdentitySecret, WriteFailed, Goto, Local, Spawned, Recording, Waiting, source,
                          machine, local, call
        <2>8. CASE WriteRecord(w)
              BY <2>8 DEF TypeOK, WriteRecord, WriteFailed, Goto, Local, Spawned, Recording, Waiting, source, machine
        <2>9. CASE TouchRead(w)
              BY <1>0, <2>9 DEF TypeOK, TouchRead, Goto, Local, Spawned, Recording, Waiting, source, machine
        <2>10. CASE TouchEmpty(w)
              BY <2>10 DEF TypeOK, TouchEmpty, Goto, Local, Spawned, Recording, Waiting, source, machine, local, call
        <2>11. CASE TouchWrite(w)
              BY <2>11 DEF TypeOK, TouchWrite, Goto, Local, Spawned, Recording, Waiting, source, machine, local, call
        <2> QED BY <2>1, <2>2, <2>3, <2>4, <2>5, <2>6, <2>7, <2>8, <2>9, <2>10, <2>11
  <1> QED BY <1>1, SectionLeaves, LocalKept DEF Onward, TypeOK

LEMMA CrashLocal ==
  ASSUME TypeOK, TypeOK', NEW w \in Worker, \A v \in Worker : Local(v), Crash(w)
  PROVE  \A v \in Worker : Local(v)'
  <1>1. Local(w)'
        BY LocalReturned DEF TypeOK, Crash, source
  <1>2. Onward
        BY DEF TypeOK, Crash, source, Onward
  <1>3. \A v \in Worker : v # w => Same(v)
        BY ReturnLeaves DEF TypeOK, Crash
  <1> QED BY <1>1, <1>2, <1>3, LocalKept

LEMMA OutsideLocal ==
  ASSUME TypeOK, TypeOK', \A v \in Worker : Local(v),
         (\E c \in Child : ChildExits(c) \/ ChildDies(c)) \/ IdleTimePasses \/ TmpIsCleaned
  PROVE  \A v \in Worker : Local(v)'
  <1>1. Onward /\ \A v \in Worker : Same(v)
        BY DEF TypeOK, Onward, Same, ChildExits, ChildDies, IdleTimePasses, TmpIsCleaned, source, machine,
               local, call
  <1> QED BY <1>1, LocalKept

LEMMA LocalStays ==
  ASSUME TypeOK, TypeOK', \A v \in Worker : Local(v), [Next]_vars
  PROVE  \A v \in Worker : Local(v)'
  <1>1. CASE UNCHANGED vars
        <2>1. Onward /\ \A v \in Worker : Same(v)
              BY <1>1 DEF TypeOK, Onward, Same, vars, source, machine, local, call
        <2> QED BY <2>1, LocalKept
  <1>2. CASE Next
        BY <1>2, CallLocal, LockLocal, SectionLocal, CrashLocal, OutsideLocal DEF Next, Step
  <1> QED BY <1>1, <1>2

(***************************************************************************)
(* The section, until a live lock is broken                                *)
(***************************************************************************)
\* The lock names the worker that is in.
LEMMA OneInSection ==
  ASSUME \A u \in Worker : Held(u), NEW v \in Worker, NEW w \in Worker, InSection(v), InSection(w)
  PROVE  v = w
  BY DEF Held, me

LEMMA OutsideIsSound ==
  ASSUME NEW v \in Worker, ~InSection(v), Same(v)
  PROVE  Held(v)' /\ Section(v)'
  BY DEF Same, InSection, Held, Section, Spawned, Recording, Answered

LEMMA HeldKept ==
  ASSUME NEW v \in Worker, Held(v), Same(v), lock' = lock, epoch'[v] = epoch[v]
  PROVE  Held(v)'
  BY DEF Same, InSection, Held, me

LEMMA SectionKept ==
  ASSUME NEW v \in Worker, Section(v), Same(v), dev' = dev, secret' = secret, life' = life,
         started' = started, abandoned \subseteq abandoned'
  PROVE  Section(v)'
  <1>1. Answered(v)' => Usable(v)'
        BY DEF Same, Section, Answered, Usable
  <1> QED BY <1>1 DEF Same, Section, Spawned, Recording, Answered

\* A step of a worker with no child in hand that leaves files and children alone.
LEMMA SoundAround ==
  ASSUME Sound, NEW w \in Worker, Section(w)', pc[w] \notin {"await", "forget", "secret", "record", "rewrite"},
         \A v \in Worker : v # w => Same(v),
         dev' = dev, secret' = secret, life' = life, started' = started, abandoned' = abandoned,
         forgotten' = forgotten,
         \A v \in Worker : Held(v)'
  PROVE  Sound'
  <1>1. \A v \in Worker : Section(v)'
        BY SectionKept DEF Sound
  <1>2. Files'
        BY DEF Sound, Files, Ending, Same
  <1>3. \A c \in Child : ~Astray(c)'
        BY DEF Sound, Astray, Spawned, Recording, Same
  <1> QED BY <1>1, <1>2, <1>3 DEF Sound

LEMMA CallSound ==
  ASSUME TypeOK, Sound, NEW w \in Worker,
         Call(w) \/ reapIdle(w) \/ restartDevProcess(w) \/ FireRestart(w)
  PROVE  Sound'
  <1>1. /\ pc[w] = "idle" /\ pc'[w] \in {"idle", "acquire"}
        /\ dev' = dev /\ secret' = secret /\ life' = life /\ started' = started /\ abandoned' = abandoned
        /\ forgotten' = forgotten /\ lock' = lock /\ epoch' = epoch
        BY DEF TypeOK, Call, reapIdle, restartDevProcess, FireRestart, Start, Goto, files, source, machine,
               history
  <1>2. \A v \in Worker : v # w => Same(v)
        BY DEF TypeOK, Same, Call, reapIdle, restartDevProcess, FireRestart, Start, Goto
  <1>3. Held(w)' /\ Section(w)'
        BY <1>1 DEF Held, InSection, Section, Spawned, Recording, Answered
  <1> QED BY <1>1, <1>2, <1>3, HeldKept, SoundAround DEF Sound

\* A lock that is broken while nobody's live lock is removed was nobody's in the section.
LEMMA BrokenIsNobodys ==
  ASSUME TypeOK, \A v \in Worker : Held(v), NEW w \in Worker, Local(w), BreakLock(w), ~broken',
         NEW v \in Worker
  PROVE  ~InSection(v)
  <1> SUFFICES ASSUME InSection(v) PROVE FALSE
      OBVIOUS
  <1>1. lock # None /\ lock \in Lock /\ lock.by = <<v, epoch[v]>>
        BY DEF Held, me, TypeOK
  <1>2. lock.by[1] = v /\ lock.by[2] = epoch[v]
        BY <1>1
  <1>3. judged[w] # None /\ judged[w].stamped /\ judged[w] = lock
        BY <1>1, <1>2 DEF BreakLock
  <1>4. lock.by[2] < epoch[lock.by[1]]
        BY <1>3 DEF Local
  <1> QED BY <1>2, <1>4 DEF TypeOK

LEMMA TryAgainEnds ==
  ASSUME TypeOK, NEW w \in Worker, TryAgain(w)
  PROVE  pc'[w] \in {"idle", "acquire"}
  BY DEF TypeOK, TryAgain, Return, Goto

LEMMA LockSound ==
  ASSUME TypeOK, TypeOK', \A v \in Worker : Local(v), \A v \in Worker : Local(v)', Sound, ~broken',
         NEW w \in Worker,
         \/ CreateLock(w) \/ StampLock(w) \/ LockExists(w) \/ JudgeLock(w) \/ BreakLock(w)
         \/ releaseLock(w)
  PROVE  Sound'
  <1>1. pc[w] \in {"acquire", "stamp", "judge", "break", "release"}
        BY DEF CreateLock, StampLock, LockExists, JudgeLock, BreakLock, releaseLock
  <1>2. Section(w)'
        <2>1. CASE StampLock(w)
              <3>1. Entry(op[w]) \in {"stop", "look", "touch"}
                    BY <2>1 DEF StampLock, Local, Waiting, Entry
              <3>2. pc'[w] = Entry(op[w]) /\ op' = op /\ op[w] # "restarted"
                    BY <2>1 DEF TypeOK, StampLock, Goto, Local, Waiting, local, call
              <3> QED BY <3>1, <3>2 DEF Section, Spawned, Recording, Answered
        <2>2. CASE CreateLock(w) \/ LockExists(w) \/ releaseLock(w)
              BY <2>2 DEF TypeOK, CreateLock, LockExists, releaseLock, Return, Goto, Section, Spawned, Recording, Answered
        <2>3. CASE JudgeLock(w) \/ BreakLock(w)
              <3>1. TryAgain(w) \/ pc' = [pc EXCEPT ![w] = "break"]
                    BY <2>3 DEF JudgeLock, BreakLock, Goto
              <3>2. CASE TryAgain(w)
                    BY <3>2, TryAgainEnds DEF Section, Spawned, Recording, Answered
              <3>3. CASE pc' = [pc EXCEPT ![w] = "break"]
                    <4>1. pc'[w] = "break"
                          BY <3>3 DEF TypeOK
                    <4> QED BY <4>1 DEF Section, Spawned, Recording, Answered
              <3> QED BY <3>1, <3>2, <3>3
        <2> QED BY <2>1, <2>2, <2>3
  <1>3. \A v \in Worker : Held(v)'
        <2>1. CASE CreateLock(w)
              <3>1. \A v \in Worker : ~InSection(v)
                    BY <2>1 DEF CreateLock, Sound, Held
              <3>2. Held(w)'
                    <4>1. lock' = [by |-> me(w), stamped |-> FALSE] /\ epoch' = epoch
                          BY <2>1 DEF CreateLock, machine
                    <4>2. lock' \in Lock
                          BY <4>1 DEF TypeOK, me, Lock, Pid
                    <4> QED BY <4>1, <4>2, ConstantsAssumption DEF Held, me
              <3> QED BY <3>1, <3>2, LockLeaves, OutsideIsSound
        <2>2. CASE StampLock(w)
              <3>1. lock # None /\ lock.by = me(w) /\ lock \in Lock
                    BY <2>2 DEF Sound, Held, InSection, StampLock, TypeOK
              <3>2. lock' \in Lock /\ lock'.by = lock.by
                    BY <2>2, <3>1 DEF StampLock, Lock
              <3>3. lock' # None
                    BY <3>2, ConstantsAssumption
              <3>4. \A v \in Worker : v # w => ~InSection(v)
                    BY <2>2, OneInSection DEF Sound, InSection, StampLock
              <3>5. Held(w)'
                    BY <2>2, <3>1, <3>2, <3>3, LockLeaves DEF Held, me
              <3> QED BY <3>4, <3>5, LockLeaves, OutsideIsSound
        <2>3. CASE LockExists(w) \/ JudgeLock(w)
              <3>1. lock' = lock /\ ~InSection(w)'
                    BY <2>3, TryAgainEnds DEF TypeOK, LockExists, JudgeLock, Goto, files, InSection
              <3> QED BY <3>1, LockLeaves, HeldKept DEF Sound, Held
        <2>4. CASE BreakLock(w)
              <3>1. \A v \in Worker : ~InSection(v)
                    BY <2>4, BrokenIsNobodys DEF Sound
              <3>2. ~InSection(w)'
                    BY <2>4, TryAgainEnds DEF BreakLock, InSection
              <3> QED BY <3>1, <3>2, LockLeaves, OutsideIsSound DEF Held
        <2>5. CASE releaseLock(w)
              <3>1. \A v \in Worker : v # w => ~InSection(v)
                    BY <2>5, OneInSection DEF Sound, InSection, releaseLock
              <3>2. ~InSection(w)'
                    BY <2>5 DEF TypeOK, releaseLock, Return, Goto, InSection
              <3> QED BY <3>1, <3>2, LockLeaves, OutsideIsSound DEF Held
        <2> QED BY <2>1, <2>2, <2>3, <2>4, <2>5
  <1> QED BY <1>1, <1>2, <1>3, LockLeaves, SoundAround

\* A step in the section: whoever takes it is alone there.
LEMMA SectionSound ==
  ASSUME TypeOK, TypeOK', \A v \in Worker : Local(v), Sound,
         NEW w \in Worker,
         \/ StopChild(w) \/ ForgetChild(w) \/ removeIdentitySecret(w) \/ LookAtChild(w)
         \/ AwaitExit(w) \/ SpawnChild(w) \/ writeIdentitySecret(w) \/ WriteRecord(w)
         \/ TouchRead(w) \/ TouchEmpty(w) \/ TouchWrite(w)
  PROVE  Sound'
  <1>1. \A v \in Worker : v # w => ~InSection(v)
        BY SectionLeaves, OneInSection DEF Sound
  <1>2. \A v \in Worker : v # w => Held(v)' /\ Section(v)'
        BY <1>1, SectionLeaves, OutsideIsSound
  <1>3. Held(w)'
        BY SectionLeaves DEF Sound, Held, me
  <1>4. \A v \in Worker : Recording(v) \/ pc[v] \in {"await", "forget"} => v = w
        BY <1>1 DEF InSection, Spawned, Recording
  <1>5. abandoned' = abandoned /\ forgotten \subseteq forgotten'
        BY SectionLeaves
  <1>6. dev # None => dev.child \in Child /\ life[dev.child] \in {"alive", "exiting", "dead"}
        BY DEF TypeOK, Record, Sound, Files
  <1>7. Held(w) /\ Section(w) /\ Files /\ Local(w) /\ \A c \in Child : ~Astray(c)
        BY DEF Sound
  <1>8. ASSUME StopChild(w)
        PROVE  Section(w)' /\ Files' /\ \A c \in Child : ~Astray(c)'
        <2>1. CASE dev = None
              <3>1. pc'[w] = "unsecret" /\ dev' = dev /\ life' = life
                    BY <1>8, <2>1 DEF TypeOK, StopChild, Goto, files
              <3> QED BY <1>4, <1>5, <1>7, <1>8, <2>1, <3>1 DEF StopChild, Section, Files, Astray, Spawned, Recording, Answered
        <2>2. CASE dev # None
              <3>1. /\ pc'[w] = "forget" /\ dev' = dev /\ secret' = secret /\ hand'[w] = dev.child
                    /\ life'[dev.child] \in {"exiting", "dead"}
                    /\ \A c \in Child : c # dev.child => life'[c] = life[c]
                    BY <1>6, <1>8, <2>2 DEF TypeOK, StopChild, Goto, files, killDevPid, isDevPidAlive
              <3>2. Section(w)'
                    BY <3>1 DEF Section, Spawned, Recording, Answered
              <3>3. Files'
                    BY <1>7, <3>1 DEF Files, Ending
              <3>4. \A c \in Child : ~Astray(c)'
                    BY <1>4, <1>5, <1>7, <1>8, <2>2, <3>1 DEF Astray, StopChild, Spawned, Recording
              <3> QED BY <3>2, <3>3, <3>4
        <2> QED BY <2>1, <2>2
  <1>9. ASSUME ForgetChild(w)
        PROVE  Section(w)' /\ Files' /\ \A c \in Child : ~Astray(c)'
        <2>1. pc[w] = "forget" /\ pc'[w] = "unsecret" /\ dev' = None /\ life' = life
              BY <1>9 DEF TypeOK, ForgetChild, Goto
        <2> QED BY <1>4, <1>5, <1>7, <2>1 DEF Section, Files, Astray, Spawned, Recording, Answered
  <1>10. ASSUME removeIdentitySecret(w)
        PROVE  Section(w)' /\ Files' /\ \A c \in Child : ~Astray(c)'
        <2>1. /\ pc[w] = "unsecret" /\ pc'[w] \in {"release", "look", "spawn"}
              /\ dev' = dev /\ dev = None /\ life' = life /\ answer' = answer /\ answer[w] = NoAnswer
              BY <1>7, <1>10 DEF TypeOK, removeIdentitySecret, Goto, Section, Local
        <2> QED BY <1>4, <1>5, <1>7, <2>1 DEF Section, Files, Astray, Spawned, Recording, Answered, NoAnswer
  <1>11. ASSUME AwaitExit(w)
        PROVE  Section(w)' /\ Files' /\ \A c \in Child : ~Astray(c)'
        <2>1. /\ pc[w] = "await" /\ pc'[w] = "forget" /\ hand' = hand
              /\ dev' = dev /\ secret' = secret /\ life' = life
              BY <1>11 DEF TypeOK, AwaitExit, Goto, files, local, call
        <2>2. Section(w)'
              BY <1>7, <2>1 DEF Section, Spawned, Recording, Answered
        <2>3. Files'
              BY <1>4, <1>5, <1>7, <2>1 DEF Files, Ending
        <2>4. \A c \in Child : ~Astray(c)'
              BY <1>4, <1>5, <1>7, <2>1 DEF Astray, Spawned, Recording
        <2> QED BY <2>2, <2>3, <2>4
  <1>12. ASSUME TouchRead(w)
        PROVE  Section(w)' /\ Files' /\ \A c \in Child : ~Astray(c)'
        <2>1. /\ pc[w] = "touch" /\ answer' = answer /\ answer[w] = NoAnswer
              /\ dev' = dev /\ secret' = secret /\ life' = life
              /\ \/ pc'[w] = "release"
                 \/ pc'[w] = "empty" /\ dev # None /\ hand'[w] = dev.child
              BY <1>7, <1>12 DEF TypeOK, TouchRead, Goto, files, Local
        <2>2. Section(w)'
              BY <2>1 DEF Section, Spawned, Recording, Answered, NoAnswer
        <2>3. Files'
              BY <1>4, <1>5, <1>7, <2>1 DEF Files, Ending
        <2>4. \A c \in Child : ~Astray(c)'
              BY <1>4, <1>5, <1>7, <2>1 DEF Astray, Spawned, Recording
        <2> QED BY <2>2, <2>3, <2>4
  <1>13. ASSUME TouchWrite(w)
        PROVE  Section(w)' /\ Files' /\ \A c \in Child : ~Astray(c)'
        <2>1. /\ pc[w] = "rewrite" /\ pc'[w] = "release" /\ answer' = answer /\ answer[w] = NoAnswer
              /\ dev = None /\ secret' = secret /\ life' = life /\ hand[w] \in Child
              BY <1>7, <1>13 DEF TypeOK, TouchWrite, Goto, Section, local, call, Local, Spawned, Recording
        <2>2. Section(w)'
              BY <2>1 DEF Section, Spawned, Recording, Answered, NoAnswer
        <2>3. CASE dev' = [child |-> hand[w], idle |-> FALSE] /\ UNCHANGED forgotten
              <3>1. dev' \in Record /\ dev'.child = hand[w]
                    BY <2>1, <2>3 DEF Record
              <3>2. dev' # None
                    BY <3>1, ConstantsAssumption
              <3>3. Files'
                    BY <1>5, <1>7, <2>1, <3>1 DEF Files, Section
              <3>4. \A c \in Child : ~Astray(c)'
                    BY <1>4, <1>5, <1>7, <2>1, <3>1, <3>2 DEF Astray, Spawned, Recording
              <3> QED BY <2>2, <3>3, <3>4
        <2>4. CASE dev' = None /\ forgotten' = forgotten \union {hand[w]}
              <3>1. Files'
                    BY <2>4 DEF Files
              <3>2. \A c \in Child : ~Astray(c)'
                    BY <1>4, <1>5, <1>7, <2>1, <2>4 DEF Astray, Spawned, Recording
              <3> QED BY <2>2, <3>1, <3>2
        <2> QED BY <1>13, <2>3, <2>4 DEF TouchWrite
  <1>19. ASSUME TouchEmpty(w)
        PROVE  Section(w)' /\ Files' /\ \A c \in Child : ~Astray(c)'
        <2>1. /\ pc[w] = "empty" /\ answer' = answer /\ answer[w] = NoAnswer /\ hand' = hand
              /\ secret' = secret /\ life' = life /\ dev # None /\ dev.child = hand[w]
              BY <1>7, <1>19 DEF TypeOK, TouchEmpty, Section, local, call, Local
        <2>2. CASE dev' = None /\ pc'[w] = "rewrite"
              <3>1. /\ secret \in {None, hand[w]} /\ life[hand[w]] # "unborn"
                    /\ life[hand[w]] = "exiting" => hand[w] \in abandoned
                    BY <1>4, <1>7, <2>1 DEF Files, Ending
              <3>2. Section(w)'
                    BY <1>5, <2>1, <2>2, <3>1 DEF Section, Spawned, Recording, Answered
              <3>3. Files'
                    BY <2>2 DEF Files
              <3>4. \A c \in Child : ~Astray(c)'
                    BY <1>4, <1>5, <1>7, <2>1, <2>2 DEF Astray, Spawned, Recording
              <3> QED BY <3>2, <3>3, <3>4
        <2>3. CASE dev' = dev /\ pc'[w] = "release"
              <3>1. Section(w)'
                    BY <2>1, <2>3 DEF Section, Spawned, Recording, Answered, NoAnswer
              <3>2. Files'
                    BY <1>4, <1>5, <1>7, <2>1, <2>3 DEF Files, Ending
              <3>3. \A c \in Child : ~Astray(c)'
                    BY <1>4, <1>5, <1>7, <2>1, <2>3 DEF Astray, Spawned, Recording
              <3> QED BY <3>1, <3>2, <3>3
        <2>4. \A l \in {"rewrite", "release"} : Goto(w, l) => pc'[w] = l
              BY DEF TypeOK, Goto
        <2> QED BY <1>19, <2>2, <2>3, <2>4 DEF TouchEmpty
  <1>14. ASSUME LookAtChild(w)
        PROVE  Section(w)' /\ Files' /\ \A c \in Child : ~Astray(c)'
        <2>1. /\ pc[w] = "look" /\ dev' = dev /\ secret' = secret /\ answer[w] = NoAnswer /\ started' = started
              /\ want' = want
              BY <1>7, <1>14 DEF LookAtChild, Local, files, source
        <2>2. CASE pc'[w] = "release" /\ life' = life /\ answer' = answer
              <3>1. Section(w)'
                    BY <2>1, <2>2 DEF Section, Spawned, Recording, Answered, NoAnswer
              <3>2. Files' /\ \A c \in Child : ~Astray(c)'
                    BY <1>4, <1>5, <1>7, <2>1, <2>2 DEF Files, Ending, Astray, Spawned, Recording
              <3> QED BY <3>1, <3>2
        <2>3. CASE /\ ChildRuns /\ Reusable(w) /\ life' = life /\ pc'[w] = "release"
                   /\ answer' = [answer EXCEPT ![w] = [child |-> dev.child, secret |-> secret]]
              <3>1. dev # None /\ secret = dev.child /\ life[dev.child] \in {"alive", "exiting"}
                    BY <1>7, <2>3 DEF ChildRuns, Reusable, Files, isDevPidAlive
              <3>2. answer'[w] = [child |-> dev.child, secret |-> secret]
                    BY <2>3 DEF TypeOK
              <3>3. answer'[w].child = dev.child /\ answer'[w].secret = dev.child
                    BY <3>1, <3>2
              <3>4. life[dev.child] = "exiting" => dev.child \in abandoned
                    BY <1>4, <1>7, <2>1, <3>1 DEF Files, Ending
              <3>5. want[w] = 0
                    BY <1>7, <2>1, <3>1 DEF Local, Section, Waiting
              <3>6. started[dev.child].saved \in Nat
                    BY <1>6, <3>1 DEF TypeOK, Starts
              <3>7. Usable(w)'
                    BY <1>5, <2>1, <2>3, <3>3, <3>4, <3>5, <3>6 DEF Usable
              <3>8. Section(w)'
                    BY <2>3, <3>7 DEF Section, Spawned, Recording
              <3>9. Files' /\ \A c \in Child : ~Astray(c)'
                    BY <1>4, <1>5, <1>7, <2>1, <2>3 DEF Files, Ending, Astray, Spawned, Recording
              <3> QED BY <3>8, <3>9
        <2>4. CASE /\ ChildRuns /\ killDevPid(dev.child) /\ pc'[w] = "await"
                   /\ hand' = [hand EXCEPT ![w] = dev.child]
              <3>1. /\ dev # None /\ hand'[w] = dev.child /\ life'[dev.child] = "exiting"
                    /\ \A c \in Child : c # dev.child => life'[c] = life[c]
                    BY <1>6, <2>4 DEF TypeOK, ChildRuns, killDevPid, isDevPidAlive
              <3>2. Section(w)'
                    BY <2>1, <2>4, <3>1 DEF Section, Spawned, Recording, Answered
              <3>3. Files'
                    BY <1>7, <2>1, <2>4, <3>1 DEF Files, Ending
              <3>4. \A c \in Child : ~Astray(c)'
                    BY <1>4, <1>5, <1>7, <2>1, <3>1 DEF Astray, Spawned, Recording
              <3> QED BY <3>2, <3>3, <3>4
        <2>5. CASE ~ChildRuns /\ pc'[w] = "forget" /\ life' = life
              <3>1. Section(w)'
                    BY <2>1, <2>5 DEF Section, Spawned, Recording, Answered, ChildRuns, isDevPidAlive
              <3>2. Files'
                    BY <1>7, <2>1, <2>5 DEF Files, ChildRuns, isDevPidAlive
              <3>3. \A c \in Child : ~Astray(c)'
                    BY <1>4, <1>5, <1>7, <2>1, <2>5 DEF Astray, Spawned, Recording
              <3> QED BY <3>1, <3>2, <3>3
        <2>6. \A l \in Locations : Goto(w, l) => pc'[w] = l
              BY DEF TypeOK, Goto
        <2> QED BY <1>14, <2>2, <2>3, <2>4, <2>5, <2>6 DEF LookAtChild, Locations
  <1>15. ASSUME SpawnChild(w)
        PROVE  Section(w)' /\ Files' /\ \A c \in Child : ~Astray(c)'
        <2>1. /\ pc[w] = "spawn" /\ dev' = dev /\ dev = None /\ answer' = answer /\ answer[w] = NoAnswer
              /\ want' = want /\ want[w] <= saved
              BY <1>7, <1>15 DEF SpawnChild, Local, Section, files
        <2>2. CASE pc'[w] = "release" /\ life' = life
              BY <1>4, <1>5, <1>7, <2>1, <2>2 DEF Section, Files, Astray, Spawned, Recording, Answered, NoAnswer
        <2>3. ASSUME NEW c \in Child, life' = [life EXCEPT ![c] = "alive"],
                     started' = [started EXCEPT ![c] = [saved |-> saved, code |-> code[w]]],
                     hand' = [hand EXCEPT ![w] = c], Goto(w, "secret")
              PROVE  Section(w)' /\ Files' /\ \A b \in Child : ~Astray(b)'
              <3>1. /\ pc'[w] = "secret" /\ hand'[w] = c /\ life'[c] = "alive"
                    /\ \A b \in Child : b # c => life'[b] = life[b]
                    BY <2>3 DEF TypeOK, Goto
              <3>2. started'[c].saved = saved
                    BY <2>3 DEF TypeOK
              <3>3. Section(w)'
                    BY <2>1, <3>1, <3>2 DEF Section, Spawned, Recording, Answered, TypeOK
              <3>4. Files'
                    BY <2>1 DEF Files
              <3>5. \A b \in Child : ~Astray(b)'
                    BY <1>4, <1>5, <1>7, <2>1, <3>1 DEF Astray, Spawned, Recording
              <3> QED BY <3>3, <3>4, <3>5
        <2>4. Goto(w, "release") => pc'[w] = "release"
              BY DEF TypeOK, Goto
        <2> QED BY <1>15, <2>2, <2>3, <2>4 DEF SpawnChild
  <1>16. ASSUME pc[w] \in {"secret", "record"}, WriteFailed(w), dev' = dev, answer' = answer, started' = started
        PROVE  Section(w)' /\ Files' /\ \A c \in Child : ~Astray(c)'
        <2>1. /\ pc'[w] = "release" /\ dev = None /\ answer[w] = NoAnswer /\ hand[w] \in Child
              BY <1>7, <1>16 DEF WriteFailed, TypeOK, Goto, Section, Local, Spawned, Recording
        <2>2. /\ life'[hand[w]] # "alive"
              /\ \A c \in Child : c # hand[w] => life'[c] = life[c]
              BY <1>16, <2>1 DEF WriteFailed, TypeOK, killDevPid, isDevPidAlive
        <2>3. Section(w)' /\ Files'
              BY <1>16, <2>1 DEF Section, Files, Spawned, Recording, Answered, NoAnswer
        <2>4. \A c \in Child : ~Astray(c)'
              BY <1>4, <1>5, <1>7, <1>16, <2>1, <2>2 DEF Astray, Spawned, Recording
        <2> QED BY <2>3, <2>4
  <1>17. ASSUME writeIdentitySecret(w)
        PROVE  Section(w)' /\ Files' /\ \A c \in Child : ~Astray(c)'
        <2>1. /\ pc[w] = "secret" /\ dev' = dev /\ dev = None /\ answer' = answer /\ started' = started
              /\ hand' = hand /\ want' = want /\ answer[w] = NoAnswer
              BY <1>7, <1>17 DEF writeIdentitySecret, Section, source, local, call, Local
        <2>2. CASE secret' = hand[w] /\ pc'[w] = "record" /\ life' = life
              BY <1>4, <1>5, <1>7, <2>1, <2>2 DEF Section, Files, Astray, Spawned, Recording, Answered
        <2>3. Goto(w, "record") => pc'[w] = "record"
              BY DEF TypeOK, Goto
        <2> QED BY <1>16, <1>17, <2>1, <2>2, <2>3 DEF writeIdentitySecret
  <1>18. ASSUME WriteRecord(w)
        PROVE  Section(w)' /\ Files' /\ \A c \in Child : ~Astray(c)'
        <2>1. /\ pc[w] = "record" /\ started' = started /\ secret' = secret /\ hand[w] \in Child
              /\ want' = want
              BY <1>7, <1>18 DEF WriteRecord, source, Local, Spawned, Recording
        <2>2. CASE /\ dev' = [child |-> hand[w], idle |-> FALSE]
                   /\ answer' = [answer EXCEPT ![w] = [child |-> hand[w], secret |-> hand[w]]]
                   /\ pc'[w] = "release" /\ life' = life
              <3>1. answer'[w].child = hand[w] /\ answer'[w].secret = hand[w] /\ dev'.child = hand[w]
                    BY <2>2 DEF TypeOK
              <3>2. Usable(w)'
                    BY <1>7, <2>1, <2>2, <3>1 DEF Usable, Section, Spawned, Recording
              <3>3. Section(w)'
                    BY <2>2, <3>2 DEF Section, Spawned, Recording
              <3>4. Files'
                    BY <1>7, <2>1, <2>2, <3>1 DEF Files, Section, Spawned, Recording
              <3>5. dev' # None
                    <4>1. dev' \in Record
                          BY <2>1, <2>2 DEF Record
                    <4> QED BY <4>1, ConstantsAssumption
              <3>6. ASSUME NEW c \in Child, Astray(c)'
                    PROVE  FALSE
                    <4>1. life[c] = "alive" /\ c \notin abandoned \union forgotten /\ c # hand[w]
                          BY <1>5, <2>2, <3>1, <3>5, <3>6 DEF Astray
                    <4>2. dev = None
                          BY <1>7, <2>1 DEF Section
                    <4> QED BY <1>4, <1>7, <4>1, <4>2 DEF Astray
              <3> QED BY <3>3, <3>4, <3>6
        <2>3. Goto(w, "release") => pc'[w] = "release"
              BY DEF TypeOK, Goto
        <2> QED BY <1>16, <1>18, <2>1, <2>2, <2>3 DEF WriteRecord
  <1> QED BY <1>2, <1>3, <1>8, <1>9, <1>10, <1>11, <1>12, <1>13, <1>14, <1>15, <1>17, <1>18, <1>19 DEF Sound

\* Whatever a worker had in hand when it crashed is abandoned.
LEMMA CrashSound ==
  ASSUME TypeOK, Sound, NEW w \in Worker, Crash(w)
  PROVE  Sound'
  <1>1. /\ lock' = lock /\ dev' = dev /\ secret' = secret /\ life' = life /\ started' = started
        /\ pc'[w] = "idle" /\ abandoned \subseteq abandoned' /\ forgotten \subseteq forgotten'
        /\ \A v \in Worker : v # w => epoch'[v] = epoch[v]
        BY DEF TypeOK, Crash, Return, Goto, files, source
  <1>2. \A v \in Worker : v # w => Same(v)
        BY ReturnLeaves DEF TypeOK, Crash
  <1>3. \A c \in Child : pc[w] \in {"await", "forget", "secret", "record"} /\ hand[w] = c => c \in abandoned'
        BY ConstantsAssumption DEF Crash
  <1>8. \A c \in Child : pc[w] = "rewrite" /\ hand[w] = c => c \in forgotten'
        BY DEF Crash
  <1>4. \A v \in Worker : v # w => Held(v)' /\ Section(v)'
        BY <1>1, <1>2, HeldKept, SectionKept DEF Sound
  <1>5. Held(w)' /\ Section(w)'
        BY <1>1 DEF Held, InSection, Section, Spawned, Recording, Answered
  <1>6. Files'
        <2> SUFFICES ASSUME dev # None PROVE Files'
            BY <1>1 DEF Files
        <2>1. dev.child \in Child
              BY DEF TypeOK, Record
        <2>2. life[dev.child] = "exiting" => dev.child \in abandoned' \/ Ending(dev.child)'
              BY <1>1, <1>2, <1>3, <2>1 DEF Sound, Files, Ending, Same
        <2> QED BY <1>1, <2>2 DEF Sound, Files, Ending
  <1>7. \A c \in Child : ~Astray(c)'
        BY <1>1, <1>2, <1>3, <1>8 DEF Sound, Astray, Spawned, Recording, Same
  <1> QED BY <1>4, <1>5, <1>6, <1>7 DEF Sound

\* Children die, the record grows old, the secret is cleaned away.
LEMMA OutsideSound ==
  ASSUME TypeOK, TypeOK', \A v \in Worker : Local(v), Sound,
         (\E c \in Child : ChildExits(c) \/ ChildDies(c)) \/ IdleTimePasses \/ TmpIsCleaned
  PROVE  Sound'
  <1>1. /\ lock' = lock /\ epoch' = epoch /\ started' = started /\ abandoned' = abandoned
        /\ forgotten' = forgotten
        /\ secret' \in {secret, None}
        /\ \A v \in Worker : Same(v)
        BY DEF TypeOK, Same, ChildExits, ChildDies, IdleTimePasses, TmpIsCleaned, files, source, machine,
               local, call, history
  <1>2. \A c \in Child : life'[c] = life[c] \/ (life'[c] = "dead" /\ life[c] # "unborn")
        <2>1. CASE \E b \in Child : ChildExits(b) \/ ChildDies(b)
              BY <2>1 DEF TypeOK, ChildExits, ChildDies
        <2>2. CASE IdleTimePasses \/ TmpIsCleaned
              BY <2>2 DEF IdleTimePasses, TmpIsCleaned
        <2> QED BY <2>1, <2>2
  <1>3. (dev' = None <=> dev = None) /\ (dev # None => dev'.child = dev.child)
        <2>1. CASE IdleTimePasses
              <3>1. dev' \in Record /\ dev'.child = dev.child
                    BY <2>1 DEF TypeOK, IdleTimePasses, Record
              <3> QED BY <2>1, <3>1, ConstantsAssumption DEF IdleTimePasses
        <2>2. CASE ~IdleTimePasses
              <3>1. dev' = dev
                    BY <2>2 DEF ChildExits, ChildDies, TmpIsCleaned, files
              <3> QED BY <3>1
        <2> QED BY <2>1, <2>2
  <1>4. dev # None => dev.child \in Child
        BY DEF TypeOK, Record
  <1>5. Files'
        BY <1>1, <1>2, <1>3, <1>4 DEF Sound, Files, Ending, Same
  <1>6. \A c \in Child : ~Astray(c)'
        BY <1>1, <1>2, <1>3 DEF Sound, Astray, Spawned, Recording, Same
  <1>7. ASSUME NEW v \in Worker PROVE Section(v)'
        <2>1. Section(v) /\ Same(v)
              BY <1>1 DEF Sound
        <2>2. ASSUME Answered(v)' PROVE Usable(v)'
              <3>1. answer[v].child \in Child /\ answer'[v] = answer[v] /\ Usable(v) /\ want'[v] = want[v]
                    BY <2>1, <2>2 DEF Same, Section, Answered, TypeOK, Answers
              <3> QED BY <1>1, <1>2, <3>1 DEF Usable
        <2>3. Recording(v) => hand[v] \in Child
              BY DEF Local
        <2> QED BY <1>1, <1>2, <1>3, <1>4, <2>1, <2>2, <2>3 DEF Same, Section, Spawned, Recording
  <1> QED BY <1>1, <1>5, <1>6, <1>7, HeldKept DEF Sound

(***************************************************************************)
(* The theorems                                                            *)
(***************************************************************************)
LEMMA InvariantStays == IInv /\ [Next]_vars => IInv'
  <1> SUFFICES ASSUME IInv, [Next]_vars PROVE IInv'
      OBVIOUS
  <1>1. TypeOK /\ \A v \in Worker : Local(v)
        BY DEF IInv
  <1>2. TypeOK'
        BY <1>1, TypesStay
  <1>3. \A v \in Worker : Local(v)'
        BY <1>1, <1>2, LocalStays
  <1>4. ASSUME ~broken' PROVE Sound'
        <2>1. ~broken
              <3>1. CASE \E w \in Worker : Step(w)
                    BY <1>4, <3>1, SectionLeaves, <1>1 DEF Step, CreateLock, StampLock, LockExists, JudgeLock,
                       BreakLock, releaseLock, history
              <3>2. CASE ~\E w \in Worker : Step(w)
                    BY <1>4, <3>2 DEF Next, Call, reapIdle, restartDevProcess, FireRestart, Start, Crash,
                       ChildExits, ChildDies, IdleTimePasses, TmpIsCleaned, vars, history
              <3> QED BY <3>1, <3>2
        <2>2. Sound
              BY <2>1 DEF IInv
        <2>3. CASE Next
              BY <1>1, <1>2, <1>3, <1>4, <2>2, <2>3, CallSound, LockSound, SectionSound, CrashSound, OutsideSound
                 DEF Next, Step
        <2>4. CASE UNCHANGED vars
              <3>1. \A v \in Worker : Held(v)' /\ Section(v)'
                    BY <2>2, <2>4, HeldKept, SectionKept DEF Sound, Same, vars, files, source, machine, local,
                       call, history
              <3> QED BY <2>2, <2>4, <3>1 DEF Sound, Files, Ending, Astray, Spawned, Recording, vars, files, source, machine,
                      local, call, history
        <2> QED BY <2>3, <2>4
  <1> QED BY <1>2, <1>3, <1>4 DEF IInv

\* IInv is an invariant of the specification.
THEOREM InvariantHolds == Spec => []IInv
  BY Initially, InvariantStays, PTL DEF Spec

\* Type correctness: files, children and what every worker knows keep their types
\* in every call, step, crash and restart.
THEOREM TypeCorrect == Spec => []TypeOK
  <1>1. IInv => TypeOK
        BY DEF IInv
  <1> QED BY <1>1, InvariantHolds, PTL

\* Until a worker removes a lock that is not the stale one it judged, the lock of
\* withDraftLock lets one worker at a time change a draft's child: rmSync removes a
\* stamped lock only after the worker in it has gone.
THEOREM OneWorkerAtATime == Spec => []ExclusiveUnlessBroken
  <1>1. IInv => ExclusiveUnlessBroken
        BY OneInSection DEF IInv, Sound, ExclusiveUnlessBroken
  <1> QED BY <1>1, InvariantHolds, PTL

\* Until then, too, a child that runs is in dev.json, in the hands of the worker about
\* to record it, was left there by one that crashed, or had its record cut short by a
\* touch: ensureUnlocked kills what it cannot record, and stopDevUnlocked forgets no
\* child it has not signalled.
THEOREM NoChildIsLost == Spec => []NoStrayChild
  <1>1. IInv => NoStrayChild
        BY DEF IInv, Sound, Astray, Spawned, Recording, NoStrayChild
  <1> QED BY <1>1, InvariantHolds, PTL

\* And ensureDevProcess answers with a child nobody has asked to exit, the secret it
\* was started with and, after a restart, the source its caller saved.
THEOREM AnswersAreUsable == Spec => []AnswerIsUsable
  <1>1. IInv => AnswerIsUsable
        BY DEF IInv, Sound, Section, Usable, AnswerIsUsable
  <1> QED BY <1>1, InvariantHolds, PTL
=============================================================================
