-------------------------- MODULE WakeInboxProofs --------------------------
(***************************************************************************)
(* Proofs about the wake inbox, for any number of firings, occurrences and *)
(* workers.  The inductive invariant IInv adds to the type invariant what  *)
(* the transactions know about the rows they hold (Locks), that occurrence *)
(* locks exclude each other (OccurrenceLocks), where an "accepted" comes   *)
(* from (Accounted) and that receipts match the rows (Receipts).           *)
(* History, proved on top of it, is about the tasks that firings move.      *)
(***************************************************************************)
EXTENDS WakeInbox, TLAPS

Active(w) == pc[w] # "idle"

Locks ==
  /\ \A w \in Worker : Active(w) => held[w] \in Event /\ row[held[w]] # "none"
  /\ \A w \in Worker : Active(w) /\ linked[w] => held[w] \in Due
  /\ \A w, v \in Worker :
       Active(w) /\ linked[w] /\ Active(v) /\ linked[v] /\ held[w] = held[v] => w = v

OccurrenceLocks ==
  \A w, v \in Worker, o \in Occ :
    HoldsOccurrence(w, o) /\ HoldsOccurrence(v, o) => w = v

Accounted ==
  /\ \A e \in served : row[e] # "none"
  /\ \A o \in Occ : \A k \in DOMAIN versions[o] : versions[o][k].by \in served \union {NoEvent}
  /\ \A w \in Worker : pc[w] = "commit" /\ verdict[w] = "accepted" => held[w] \in served

Receipts == \A e \in Event : told[e] \subseteq {row[e]}

IInv == TypeOK /\ Locks /\ OccurrenceLocks /\ Accounted /\ Receipts

USE ConstantsAssumption DEF inboxVars, workerVars, worldVars, histVars

LEMMA InitIInv == Init => IInv
<1> SUFFICES ASSUME Init PROVE IInv
  OBVIOUS
<1>1. TypeOK
  BY DEF Init, TypeOK, Version, Mode, Outcome, Due
<1>2. Locks /\ OccurrenceLocks
  BY DEF Init, Locks, OccurrenceLocks, Active, HoldsOccurrence, InDispatch
<1>3. Accounted /\ Receipts
  BY DEF Init, Accounted, Receipts
<1> QED
  BY <1>1, <1>2, <1>3 DEF IInv

\* enqueue keeps IInv: a new row is in no transaction, and a receipt repeats
\* the outcome of a row that no transaction holds.
LEMMA EnqueueIInv ==
  ASSUME IInv, NEW e \in Event, Enqueue(e)
  PROVE  IInv'
<1>1. CASE Redeliver(e)
  <2>1. TypeOK'
    BY <1>1 DEF IInv, TypeOK, Redeliver, Due
  <2>2. Locks' /\ OccurrenceLocks'
    BY <1>1 DEF IInv, Redeliver, Locks, OccurrenceLocks, Active, Due, HoldsOccurrence,
                InDispatch
  <2>3. Accounted' /\ Receipts'
    BY <1>1 DEF IInv, TypeOK, Redeliver, Accounted, Receipts
  <2> QED BY <2>1, <2>2, <2>3 DEF IInv
<1>2. ASSUME NEW r \in FiringRevisions(e), Insert(e, r)
      PROVE  IInv'
  <2>0. r \in Nat
    BY DEF FiringRevisions, IInv, TypeOK
  <2>1. TypeOK'
    BY <1>2, <2>0 DEF IInv, TypeOK, Insert, JoinDue, Due
  <2>2. Locks' /\ OccurrenceLocks'
    BY <1>2 DEF IInv, TypeOK, Insert, Locks, OccurrenceLocks, Active, Due, HoldsOccurrence,
                InDispatch
  <2>3. Accounted'
    BY <1>2 DEF IInv, TypeOK, Insert, Accounted
  <2>4. told[e] = {}
    <3>1. told[e] \subseteq {"accepted", "stale"} /\ told[e] \subseteq {"none"}
      BY <1>2 DEF IInv, TypeOK, Insert, Receipts, Outcome
    <3> QED BY <3>1
  <2>5. ASSUME NEW f \in Event PROVE told'[f] \subseteq {row'[f]}
    <3>1. told'[f] = told[f] /\ told[f] \subseteq {row[f]}
      BY <1>2 DEF IInv, Receipts, Insert
    <3>2. CASE f = e
      BY <3>1, <3>2, <2>4
    <3>3. CASE f # e
      BY <1>2, <3>1, <3>3 DEF IInv, TypeOK, Insert
    <3> QED BY <3>2, <3>3
  <2>6. Receipts'
    BY <2>5 DEF Receipts
  <2> QED BY <2>1, <2>2, <2>3, <2>6 DEF IInv
<1> QED
  BY <1>1, <1>2 DEF Enqueue

-----------------------------------------------------------------------------
(* runNext                                                                   *)

\* Every way of ending a transaction frees its row and its occurrence.
LEMMA EndTxIInv ==
  ASSUME IInv, NEW w \in Worker, EndTx(w)
  PROVE  /\ pc' \in [Worker -> {"idle", "locked", "find", "handle", "commit"}]
         /\ held' \in [Worker -> Event \union {NoEvent}]
         /\ linked' \in [Worker -> BOOLEAN]
         /\ snap' \in [Worker -> Nat]
         /\ verdict' \in [Worker -> Outcome \union {"retry", "none"}]
         /\ ~Active(w)'
         /\ \A v \in Worker \ {w} :
              /\ pc'[v] = pc[v] /\ held'[v] = held[v] /\ linked'[v] = linked[v]
              /\ verdict'[v] = verdict[v]
         /\ OccurrenceLocks'
<1>1. OccurrenceLocks'
  BY DEF IInv, TypeOK, EndTx, OccurrenceLocks, HoldsOccurrence, InDispatch
<1> QED
  BY <1>1 DEF IInv, TypeOK, EndTx, Active

LEMMA LockDueIInv ==
  ASSUME IInv, NEW w \in Worker, LockDue(w)
  PROVE  IInv'
<1>1. PICK e \in Due : Selectable(e) /\ held' = [held EXCEPT ![w] = e]
  BY DEF LockDue
<1>2. e \in Event /\ row[e] = "pending" /\ \A v \in Worker : ~HoldsRow(v, e)
  BY <1>1 DEF Due, Selectable, RowLocked
<1>3. TypeOK'
  BY <1>1, <1>2 DEF IInv, TypeOK, LockDue, Due
<1>4. Locks'
  BY <1>1, <1>2 DEF IInv, TypeOK, LockDue, Locks, Active, Due, HoldsRow
<1>5. OccurrenceLocks'
  BY <1>1 DEF IInv, TypeOK, LockDue, OccurrenceLocks, HoldsOccurrence, InDispatch
<1>6. Accounted'
  BY <1>1 DEF IInv, TypeOK, LockDue, Accounted
<1>7. Receipts'
  BY DEF IInv, LockDue, Receipts
<1> QED
  BY <1>3, <1>4, <1>5, <1>6, <1>7 DEF IInv

\* Postponing: Busy and RetryLater.
LEMMA LaterIInv ==
  ASSUME IInv, NEW w \in Worker, Active(w), linked[w],
         Later(held[w]), EndTx(w),
         UNCHANGED <<row, storedRev, worldVars, histVars>>, faults' = faults
  PROVE  IInv'
<1>1. held[w] \in Due /\ held[w] \in Event /\ row[held[w]] = "pending"
  BY DEF IInv, Locks, Due
<1>2. TypeOK'
  BY <1>1, EndTxIInv DEF IInv, TypeOK, Later, LeaveDue, Due
<1>3. \A v \in Worker \ {w} : Active(v) /\ linked[v] => held[v] # held[w]
  BY DEF IInv, Locks
<1>4. Locks'
  <2>1. \A v \in Worker : Active(v)' =>
          /\ v # w /\ Active(v)
          /\ held'[v] = held[v] /\ linked'[v] = linked[v]
    BY EndTxIInv DEF Active
  <2>2. \A v \in Worker : Active(v)' /\ linked'[v] => held'[v] \in Due'
    BY <2>1, <1>3 DEF IInv, Locks, Later, Due
  <2> QED
    BY <2>1, <2>2 DEF IInv, Locks
<1>5. Accounted'
  <2>1. \A v \in Worker : pc'[v] = "commit" => v # w
    BY EndTxIInv DEF Active
  <2>2. \A v \in Worker : pc'[v] = "commit" /\ verdict'[v] = "accepted" => held'[v] \in served
    BY <2>1, EndTxIInv DEF IInv, Accounted
  <2> QED BY <2>2 DEF IInv, Accounted
<1>6. Receipts'
  BY DEF IInv, Receipts
<1> QED
  BY <1>2, <1>4, <1>5, <1>6, EndTxIInv DEF IInv

LEMMA LockOccurrenceIInv ==
  ASSUME IInv, NEW w \in Worker, LockOccurrence(w)
  PROVE  IInv'
<1>1. TypeOK'
  BY DEF IInv, TypeOK, LockOccurrence, Due
<1>2. Locks'
  BY DEF IInv, TypeOK, LockOccurrence, Locks, Active, Due
<1>3. OccurrenceLocks'
  BY DEF IInv, TypeOK, Locks, Active, LockOccurrence, OccurrenceLocks, HoldsOccurrence, InDispatch
<1>4. Accounted' /\ Receipts'
  BY DEF IInv, TypeOK, LockOccurrence, Accounted, Receipts
<1> QED
  BY <1>1, <1>2, <1>3, <1>4 DEF IInv

\* A task that gets one more version keeps those it had.
LEMMA AppendKeeps ==
  ASSUME NEW S, NEW s \in Seq(S), NEW v \in S
  PROVE  /\ Append(s, v) \in Seq(S) \ {<<>>}
         /\ \A k \in DOMAIN Append(s, v) :
              Append(s, v)[k] = v \/ (k \in DOMAIN s /\ Append(s, v)[k] = s[k])
<1>1. Append(s, v) \in Seq(S) /\ Len(s) \in Nat /\ DOMAIN s = 1..Len(s)
  OBVIOUS
<1>2. /\ DOMAIN Append(s, v) = 1..(Len(s) + 1) /\ Append(s, v)[Len(s) + 1] = v
      /\ \A k \in 1..Len(s) : Append(s, v)[k] = s[k]
  OBVIOUS
<1>3. ASSUME NEW k \in DOMAIN Append(s, v)
      PROVE  Append(s, v)[k] = v \/ (k \in DOMAIN s /\ Append(s, v)[k] = s[k])
  <2>1. k = Len(s) + 1 \/ k \in 1..Len(s)
    BY <1>1, <1>2
  <2> QED
    BY <1>1, <1>2, <2>1
<1>4. Append(s, v) # <<>>
  OBVIOUS
<1> QED
  BY <1>1, <1>3, <1>4

LEMMA DispatchIInv ==
  ASSUME IInv, NEW w \in Worker,
         Find(w) \/ DispatchFails(w) \/ HandlerReturns(w) \/ HandlerAdvances(w)
  PROVE  IInv'
<1> DEFINE e == held[w]
           o == OccOf[held[w]]
<1>0. Active(w) /\ e \in Event /\ row[e] # "none" /\ o \in Occ
  BY DEF IInv, Locks, Active, Find, FindsVersion, FindsNothing, DispatchFails, HandlerReturns,
         HandlerAdvances
<1>1. /\ UNCHANGED <<inboxVars, held, linked, expired, told>>
      /\ pc' \in [Worker -> {"idle", "locked", "find", "handle", "commit"}]
      /\ \A v \in Worker \ {w} : pc'[v] = pc[v] /\ verdict'[v] = verdict[v]
      /\ pc[w] \in {"find", "handle"} /\ pc'[w] \in {"handle", "commit"}
      /\ faults' \in Nat /\ missed' \in {missed, missed \union {e}}
  <2>1. CASE FindsVersion(w)
    <3>1. \/ pc' = [pc EXCEPT ![w] = "handle"] /\ verdict' = verdict
          \/ pc' = [pc EXCEPT ![w] = "commit"] /\ \E d : verdict' = [verdict EXCEPT ![w] = d]
      BY <2>1 DEF FindsVersion, Conclude
    <3>2. faults' = faults \/ faults' = faults + 1
      BY <2>1 DEF FindsVersion, Fault
    <3>3. pc[w] = "find" /\ UNCHANGED <<inboxVars, held, linked, expired, told, missed>>
      BY <2>1 DEF FindsVersion
    <3>4. /\ pc' \in [Worker -> {"idle", "locked", "find", "handle", "commit"}]
          /\ \A v \in Worker \ {w} : pc'[v] = pc[v] /\ verdict'[v] = verdict[v]
          /\ pc'[w] \in {"handle", "commit"}
      BY <3>1 DEF IInv, TypeOK
    <3>5. faults' \in Nat
      BY <3>2 DEF IInv, TypeOK
    <3> QED
      BY <3>3, <3>4, <3>5
  <2>5. CASE FindsNothing(w)
    BY <2>5 DEF IInv, TypeOK, FindsNothing, Conclude, Fault
  <2>2. CASE DispatchFails(w)
    BY <2>2 DEF IInv, TypeOK, DispatchFails, Conclude, Fault
  <2>3. CASE HandlerReturns(w)
    BY <2>3 DEF IInv, TypeOK, HandlerReturns, Conclude
  <2>4. CASE HandlerAdvances(w)
    <3>1. pc' = [pc EXCEPT ![w] = "commit"] /\ \E d : verdict' = [verdict EXCEPT ![w] = d]
      BY <2>4 DEF HandlerAdvances, Conclude
    <3>2. faults' = faults \/ faults' = faults + 1
      BY <2>4 DEF HandlerAdvances, Fault
    <3>3. pc[w] = "handle" /\ UNCHANGED <<inboxVars, held, linked, expired, told, missed>>
      BY <2>4 DEF HandlerAdvances
    <3> QED
      BY <3>1, <3>2, <3>3 DEF IInv, TypeOK
  <2> QED BY <2>1, <2>2, <2>3, <2>4, <2>5 DEF Find
<1>2. served' \in {served, served \union {e}}
  BY DEF Find, FindsVersion, FindsNothing, DispatchFails, HandlerReturns, HandlerAdvances
<1>3. Locks'
  BY <1>1 DEF IInv, Locks, Active, Due
<1>4. OccurrenceLocks'
  BY <1>1 DEF IInv, OccurrenceLocks, HoldsOccurrence, InDispatch
<1>5. Receipts'
  BY <1>1 DEF IInv, Receipts
<1>6. /\ versions' \in [Occ -> Seq(Version) \ {<<>>}]
      /\ \A p \in Occ : \A k \in DOMAIN versions'[p] : versions'[p][k].by \in served' \union {NoEvent}
  <2>1. CASE HandlerAdvances(w)
    <3>1. PICK v \in Version :
            versions' = [versions EXCEPT ![o] = Append(@, v)] /\ v.by = e
      <4>1. PICK m \in {"running", "done"} : NextVersion(o, m, e)
        BY <2>1 DEF HandlerAdvances
      <4>2. versions[o] \in Seq(Version) /\ Len(versions[o]) \in DOMAIN versions[o]
        BY <1>0 DEF IInv, TypeOK
      <4>3. versions[o][Len(versions[o])] \in Version
        BY <4>2
      <4>4. PICK s \in {versions[o][Len(versions[o])].seq, versions[o][Len(versions[o])].seq + 1} :
              versions' = [versions EXCEPT ![o] = Append(@, [seq |-> s, mode |-> m, by |-> e])]
        BY <4>1 DEF NextVersion
      <4>6. s \in Nat
        BY <4>3 DEF Version
      <4>5. [seq |-> s, mode |-> m, by |-> e] \in Version
        BY <1>0, <4>6 DEF Version, Mode
      <4> QED
        BY <4>4, <4>5
    <3>2. served' = served \union {e}
      BY <2>1 DEF HandlerAdvances
    <3>3. /\ versions \in [Occ -> Seq(Version) \ {<<>>}]
          /\ \A p \in Occ : \A k \in DOMAIN versions[p] : versions[p][k].by \in served \union {NoEvent}
      BY DEF IInv, TypeOK, Accounted
    <3>4. versions[o] \in Seq(Version) /\ versions'[o] = Append(versions[o], v)
      BY <1>0, <3>1, <3>3
    <3>5. /\ versions'[o] \in Seq(Version) \ {<<>>}
          /\ \A k \in DOMAIN versions'[o] :
               \/ versions'[o][k] = v
               \/ k \in DOMAIN versions[o] /\ versions'[o][k] = versions[o][k]
      <4>1. ASSUME NEW t \in Seq(Version)
            PROVE  /\ Append(t, v) \in Seq(Version) \ {<<>>}
                   /\ \A k \in DOMAIN Append(t, v) :
                        Append(t, v)[k] = v \/ (k \in DOMAIN t /\ Append(t, v)[k] = t[k])
        BY AppendKeeps
      <4> QED BY <3>4, <4>1
    <3> QED
      BY <1>0, <3>1, <3>2, <3>3, <3>5
  <2>2. CASE ~HandlerAdvances(w)
    BY <1>2, <2>2 DEF IInv, TypeOK, Accounted, Find, FindsVersion, FindsNothing, DispatchFails,
                      HandlerReturns
  <2> QED BY <2>1, <2>2
<1>7. verdict'[w] \in Outcome \union {"retry", "none"}
      /\ (pc'[w] = "commit" /\ verdict'[w] = "accepted" => e \in served')
  <2>1. CASE FindsVersion(w)
    <3>1. PICK i \in DOMAIN versions[o] :
            LET d == Decide(e, i) IN
            IF d = "run" THEN pc'[w] = "handle" /\ verdict' = verdict
                         ELSE pc'[w] = "commit" /\ verdict'[w] = d
      BY <2>1 DEF IInv, TypeOK, FindsVersion, Conclude
    <3>2. Decide(e, i) = "accepted" => e \in served
      BY <1>0 DEF IInv, TypeOK, Accounted, Decide, commandApplied, Applied
    <3>3. Decide(e, i) \in {"accepted", "stale", "retry", "run"}
      BY DEF Decide
    <3> QED
      BY <1>2, <3>1, <3>2, <3>3 DEF IInv, TypeOK, Outcome
  <2>2. CASE DispatchFails(w)
    BY <2>2 DEF IInv, TypeOK, DispatchFails, Conclude
  <2>3. CASE HandlerReturns(w)
    BY <2>3 DEF IInv, TypeOK, HandlerReturns, Conclude, Outcome
  <2>4. CASE HandlerAdvances(w)
    BY <2>4 DEF IInv, TypeOK, HandlerAdvances, Conclude, Outcome
  <2>5. CASE FindsNothing(w)
    BY <2>5 DEF IInv, TypeOK, FindsNothing, Conclude, Outcome
  <2> QED BY <2>1, <2>2, <2>3, <2>4, <2>5 DEF Find
<1>8. /\ snap' \in [Worker -> Nat]
      /\ \E d : verdict' = [verdict EXCEPT ![w] = d]
  <2>1. CASE FindsVersion(w)
    <3>1. PICK i \in DOMAIN versions[o] :
            /\ snap' = [snap EXCEPT ![w] = i]
            /\ verdict' = verdict \/ \E d : verdict' = [verdict EXCEPT ![w] = d]
      BY <2>1 DEF FindsVersion, Conclude
    <3>2. i \in Nat
      BY <1>0 DEF IInv, TypeOK
    <3>3. verdict = [verdict EXCEPT ![w] = verdict[w]]
      BY DEF IInv, TypeOK
    <3> QED BY <3>1, <3>2, <3>3 DEF IInv, TypeOK
  <2>2. CASE DispatchFails(w)
    BY <2>2 DEF IInv, TypeOK, DispatchFails, Conclude
  <2>3. CASE HandlerReturns(w)
    BY <2>3 DEF IInv, TypeOK, HandlerReturns, Conclude
  <2>4. CASE HandlerAdvances(w)
    BY <2>4 DEF IInv, TypeOK, HandlerAdvances, Conclude
  <2>5. CASE FindsNothing(w)
    BY <2>5 DEF IInv, TypeOK, FindsNothing, Conclude
  <2> QED BY <2>1, <2>2, <2>3, <2>4, <2>5 DEF Find
<1>9. TypeOK'
  <2>1. verdict' \in [Worker -> Outcome \union {"retry", "none"}]
    BY <1>7, <1>8 DEF IInv, TypeOK
  <2> QED
    BY <1>0, <1>1, <1>2, <1>6, <1>8, <2>1 DEF IInv, TypeOK, Due
<1>10. Accounted'
  BY <1>0, <1>1, <1>2, <1>6, <1>7 DEF IInv, Accounted
<1> QED
  BY <1>3, <1>4, <1>5, <1>9, <1>10 DEF IInv

\* A completed row keeps its receipts: it was pending, so nothing had been
\* told about it.
LEMMA CompleteIInv ==
  ASSUME IInv, NEW w \in Worker, Complete(w)
  PROVE  IInv'
<1> DEFINE e == held[w]
<1>1. Active(w) /\ linked[w] /\ e \in Event /\ row[e] = "pending" /\ e \in Due
  BY DEF IInv, Locks, Active, Due, Complete, ReadyToCommit
<1>2. \A v \in Worker \ {w} : Active(v) /\ linked[v] => held[v] # e
  BY <1>1 DEF IInv, Locks
<1>3. /\ row' = [row EXCEPT ![e] = verdict[w]] /\ verdict[w] \in Outcome
      /\ UNCHANGED <<storedRev, delayed, worldVars, faults, histVars>>
      /\ LeaveDue(e)
      /\ EndTx(w)
  BY DEF Complete
<1>4. TypeOK'
  <2>1. row' \in [Event -> {"none", "pending"} \union Outcome]
    BY <1>1, <1>3 DEF IInv, TypeOK
  <2>2. \A f \in delayed' : row'[f] = "pending"
    BY <1>1, <1>3 DEF IInv, TypeOK, Due
  <2>3. \A f \in Event \ {e} : f \in Due => f \in Due'
    BY <1>3 DEF IInv, TypeOK, Due
  <2>4. earlier' \in [Event -> SUBSET Event] /\ \A f \in Event : earlier'[f] \subseteq Due' \ {f}
    BY <1>3, <2>3 DEF IInv, TypeOK, LeaveDue
  <2> QED
    BY <1>3, <2>1, <2>2, <2>4, EndTxIInv DEF IInv, TypeOK
<1>5. \A v \in Worker : Active(v)' =>
        /\ v # w /\ Active(v)
        /\ pc'[v] = pc[v] /\ held'[v] = held[v] /\ linked'[v] = linked[v] /\ verdict'[v] = verdict[v]
  BY <1>3, EndTxIInv DEF Active
<1>6. \A f \in Event : row[f] # "none" => row'[f] # "none"
  BY <1>3 DEF IInv, TypeOK, Outcome
<1>7. Locks'
  <2>1. \A v \in Worker : Active(v)' /\ linked'[v] => held'[v] \in Due'
    BY <1>2, <1>3, <1>5 DEF IInv, TypeOK, Locks, Due
  <2> QED
    BY <1>5, <1>6, <2>1 DEF IInv, Locks
<1>8. Accounted'
  <2>1. \A v \in Worker : pc'[v] = "commit" => Active(v)'
    BY DEF Active
  <2> QED
    BY <1>3, <1>5, <1>6, <2>1 DEF IInv, TypeOK, Accounted
<1>9. Receipts'
  <2>1. told[e] = {}
    <3>1. told[e] \subseteq {"accepted", "stale"} /\ told[e] \subseteq {"pending"}
      BY <1>1 DEF IInv, TypeOK, Receipts, Outcome
    <3> QED BY <3>1
  <2>2. ASSUME NEW f \in Event PROVE told'[f] \subseteq {row'[f]}
    <3>1. CASE f = e
      BY <1>3, <2>1, <3>1
    <3>2. CASE f # e
      BY <1>3, <3>2 DEF IInv, TypeOK, Receipts
    <3> QED BY <3>1, <3>2
  <2> QED BY <2>2 DEF Receipts
<1> QED
  BY <1>3, <1>4, <1>7, <1>8, <1>9, EndTxIInv DEF IInv

\* A transaction that is rolled back, or whose worker dies, changes no row.
LEMMA AbandonIInv ==
  ASSUME IInv, NEW w \in Worker, EndTx(w),
         UNCHANGED <<inboxVars, worldVars, histVars>>, faults' \in Nat
  PROVE  IInv'
<1>1. \A v \in Worker : Active(v)' =>
        /\ v # w /\ Active(v)
        /\ pc'[v] = pc[v] /\ held'[v] = held[v] /\ linked'[v] = linked[v] /\ verdict'[v] = verdict[v]
  BY EndTxIInv DEF Active
<1>2. TypeOK'
  BY EndTxIInv DEF IInv, TypeOK, Due
<1>3. Locks'
  BY <1>1 DEF IInv, Locks, Due
<1>4. Accounted'
  <2>1. \A v \in Worker : pc'[v] = "commit" => Active(v)'
    BY DEF Active
  <2> QED
    BY <1>1, <2>1 DEF IInv, Accounted
<1>5. Receipts'
  BY DEF IInv, Receipts
<1> QED
  BY <1>2, <1>3, <1>4, <1>5, EndTxIInv DEF IInv

LEMMA RunNextIInv ==
  ASSUME IInv, NEW w \in Worker, RunNext(w)
  PROVE  IInv'
<1>1. CASE Busy(w)
  BY <1>1, LaterIInv DEF Busy, Active
<1>2. CASE RetryLater(w)
  BY <1>2, LaterIInv DEF RetryLater, ReadyToCommit, Active
<1>3. CASE Rollback(w)
  BY <1>3, AbandonIInv DEF Rollback, IInv, TypeOK
<1> QED
  BY <1>1, <1>2, <1>3, LockDueIInv, LockOccurrenceIInv, DispatchIInv, CompleteIInv DEF RunNext

-----------------------------------------------------------------------------
(* Faults, time and the task service                                         *)

LEMMA LoseConnectionIInv ==
  ASSUME IInv, NEW w \in Worker, LoseConnection(w)
  PROVE  IInv'
<1>1. TypeOK'
  BY DEF IInv, TypeOK, LoseConnection, Fault, Due
<1>2. Locks' /\ OccurrenceLocks'
  BY DEF IInv, TypeOK, LoseConnection, Locks, OccurrenceLocks, HoldsOccurrence, InDispatch, Active, Due
<1>3. Accounted' /\ Receipts'
  BY DEF IInv, LoseConnection, Accounted, Receipts
<1> QED
  BY <1>1, <1>2, <1>3 DEF IInv

LEMMA TimePassesIInv ==
  ASSUME IInv, NEW e \in Event, TimePasses(e)
  PROVE  IInv'
<1>1. TypeOK'
  BY DEF IInv, TypeOK, TimePasses, JoinDue, Due
<1>2. Locks' /\ OccurrenceLocks'
  BY DEF IInv, TypeOK, TimePasses, Locks, OccurrenceLocks, HoldsOccurrence, InDispatch, Active, Due
<1>3. Accounted' /\ Receipts'
  BY DEF IInv, TimePasses, Accounted, Receipts
<1> QED
  BY <1>1, <1>2, <1>3 DEF IInv

LEMMA TaskMovesIInv ==
  ASSUME IInv, NEW o \in Occ, TaskMoves(o)
  PROVE  IInv'
<1>1. PICK v \in Version :
        versions' = [versions EXCEPT ![o] = Append(@, v)] /\ v.by = NoEvent
  <2>1. PICK m \in Mode : NextVersion(o, m, NoEvent)
    BY DEF TaskMoves
  <2>2. versions[o] \in Seq(Version) /\ Len(versions[o]) \in DOMAIN versions[o]
    BY DEF IInv, TypeOK
  <2>3. versions[o][Len(versions[o])] \in Version
    BY <2>2
  <2>4. PICK s \in {versions[o][Len(versions[o])].seq, versions[o][Len(versions[o])].seq + 1} :
          versions' = [versions EXCEPT ![o] = Append(@, [seq |-> s, mode |-> m, by |-> NoEvent])]
    BY <2>1 DEF NextVersion
  <2>5. s \in Nat
    BY <2>3 DEF Version
  <2>6. [seq |-> s, mode |-> m, by |-> NoEvent] \in Version
    BY <2>5 DEF Version
  <2> QED
    BY <2>4, <2>6
<1>2. UNCHANGED <<inboxVars, workerVars, expired, faults, histVars>>
  BY DEF TaskMoves
<1>3. TypeOK'
  <2>1. versions \in [Occ -> Seq(Version) \ {<<>>}] /\ versions[o] \in Seq(Version)
    BY DEF IInv, TypeOK
  <2>2. Append(versions[o], v) \in Seq(Version) \ {<<>>}
    BY <2>1
  <2>3. versions' \in [Occ -> Seq(Version) \ {<<>>}]
    BY <1>1, <2>1, <2>2
  <2> QED
    BY <1>2, <2>3 DEF IInv, TypeOK, Due
<1>4. Locks' /\ OccurrenceLocks'
  BY <1>2 DEF IInv, Locks, OccurrenceLocks, HoldsOccurrence, InDispatch, Active, Due
<1>5. Accounted'
  BY <1>1, <1>2 DEF IInv, TypeOK, Accounted
<1>6. Receipts'
  BY <1>2 DEF IInv, Receipts
<1> QED
  BY <1>3, <1>4, <1>5, <1>6 DEF IInv

LEMMA ExpireIInv ==
  ASSUME IInv, NEW e \in Event, Expire(e)
  PROVE  IInv'
<1>1. TypeOK'
  BY DEF IInv, TypeOK, Expire, Due
<1>2. Locks' /\ OccurrenceLocks'
  BY DEF IInv, Expire, Locks, OccurrenceLocks, HoldsOccurrence, InDispatch, Active, Due
<1>3. Accounted' /\ Receipts'
  BY DEF IInv, Expire, Accounted, Receipts
<1> QED
  BY <1>1, <1>2, <1>3 DEF IInv

LEMMA NextIInv == IInv /\ [Next]_vars => IInv'
<1> SUFFICES ASSUME IInv, [Next]_vars PROVE IInv'
  OBVIOUS
<1>1. ASSUME NEW w \in Worker, Crash(w) PROVE IInv'
  BY <1>1, AbandonIInv DEF Crash, Fault, IInv, TypeOK
<1>2. CASE UNCHANGED vars
  BY <1>2 DEF vars, IInv, TypeOK, Locks, OccurrenceLocks, HoldsOccurrence, InDispatch,
              Active, Due, Accounted, Receipts
<1> QED
  BY <1>1, <1>2, EnqueueIInv, TimePassesIInv, ExpireIInv, RunNextIInv, LoseConnectionIInv,
     TaskMovesIInv DEF Next

THEOREM Inductive == Spec => []IInv
  BY InitIInv, NextIInv, PTL DEF Spec

-----------------------------------------------------------------------------
(* The inbox implements the at-least-once delivery                           *)

\* The steps of the dispatch that can run a handler serve their firing.
LEMMA DispatchRefines ==
  ASSUME IInv, NEW w \in Worker,
         Find(w) \/ DispatchFails(w) \/ HandlerReturns(w) \/ HandlerAdvances(w)
  PROVE  [Delivery!Next]_(Delivery!vars)
<1>1. held[w] \in Event /\ row[held[w]] # "none"
  BY DEF IInv, Locks, Active, Find, FindsVersion, FindsNothing, DispatchFails, HandlerReturns,
         HandlerAdvances
<1>2. row' = row /\ served' \in {served, served \union {held[w]}}
  BY DEF Find, FindsVersion, FindsNothing, DispatchFails, HandlerReturns, HandlerAdvances
<1>3. CASE served' = served
  BY <1>2, <1>3 DEF Delivery!vars
<1>4. CASE served' = served \union {held[w]}
  <2>1. Delivery!Serve(held[w])
    BY <1>1, <1>2, <1>4 DEF Delivery!Serve
  <2> QED
    BY <1>1, <2>1 DEF Delivery!Next
<1> QED
  BY <1>2, <1>3, <1>4

\* Completing a row settles its firing, as accepted only if it was served.
LEMMA CompleteRefines ==
  ASSUME IInv, NEW w \in Worker, Complete(w)
  PROVE  Delivery!Next
<1>1. held[w] \in Event /\ row[held[w]] = "pending" /\ verdict[w] \in {"accepted", "stale"}
  BY DEF IInv, Locks, Active, Due, Complete, ReadyToCommit, Outcome
<1>2. verdict[w] = "accepted" => held[w] \in served
  BY DEF IInv, Accounted, Complete, ReadyToCommit
<1>3. row' = [row EXCEPT ![held[w]] = verdict[w]] /\ served' = served
  BY DEF Complete
<1>4. Delivery!Settle(held[w])
  BY <1>1, <1>2, <1>3 DEF Delivery!Settle
<1> QED
  BY <1>1, <1>4 DEF Delivery!Next

LEMMA StepRefines ==
  ASSUME IInv, [Next]_vars
  PROVE  [Delivery!Next]_(Delivery!vars)
<1>1. ASSUME NEW e \in Event, NEW r \in FiringRevisions(e), Insert(e, r)
      PROVE  Delivery!Next
  <2>1. Delivery!Post(e)
    BY <1>1 DEF Insert, Delivery!Post
  <2> QED
    BY <2>1 DEF Delivery!Next
<1>2. ASSUME NEW w \in Worker, RunNext(w)
      PROVE  [Delivery!Next]_(Delivery!vars)
  <2>1. CASE Find(w) \/ DispatchFails(w) \/ HandlerReturns(w) \/ HandlerAdvances(w)
    BY <2>1, DispatchRefines
  <2>2. CASE Complete(w)
    BY <2>2, CompleteRefines
  <2>3. CASE LockDue(w) \/ Busy(w) \/ LockOccurrence(w) \/ RetryLater(w) \/ Rollback(w)
    BY <2>3 DEF LockDue, Busy, LockOccurrence, RetryLater, Rollback, Delivery!vars
  <2> QED
    BY <1>2, <2>1, <2>2, <2>3 DEF RunNext
<1>3. ASSUME NEW e \in Event, Redeliver(e) \/ TimePasses(e) \/ Expire(e)
      PROVE  UNCHANGED (Delivery!vars)
  BY <1>3 DEF Redeliver, TimePasses, Expire, Delivery!vars
<1>4. ASSUME NEW w \in Worker, LoseConnection(w) \/ Crash(w)
      PROVE  UNCHANGED (Delivery!vars)
  BY <1>4 DEF LoseConnection, Crash, Delivery!vars
<1>5. ASSUME NEW o \in Occ, TaskMoves(o)
      PROVE  UNCHANGED (Delivery!vars)
  BY <1>5 DEF TaskMoves, Delivery!vars
<1>6. CASE UNCHANGED vars
  BY <1>6 DEF vars, Delivery!vars
<1> QED
  BY <1>1, <1>2, <1>3, <1>4, <1>5, <1>6 DEF Next, Enqueue

\* A stored firing stays stored until it is settled, is settled once, and is
\* settled as accepted only after its handler ran: runNext and enqueue
\* implement the at-least-once delivery of wakeContracts.ts.
THEOREM InboxImplementsDelivery == Spec => ImplementsDelivery
<1>1. Init => Delivery!Init
  BY DEF Init, Delivery!Init
<1>2. IInv /\ [Next]_vars => [Delivery!Next]_(Delivery!vars)
  BY StepRefines
<1> QED
  BY <1>1, <1>2, Inductive, PTL DEF Spec, ImplementsDelivery, Delivery!Spec

-----------------------------------------------------------------------------
(* What follows from it                                                      *)

\* Type correctness, with the consistency of the due queue.
THEOREM TypeCorrect == Spec => []TypeOK
<1>1. IInv => TypeOK
  BY DEF IInv
<1> QED
  BY <1>1, Inductive, PTL

\* As long as transactions keep their connection, no two of them work on the
\* same row or dispatch firings of the same occurrence.
THEOREM WorkIsExclusive == Spec => []ExclusiveWork
<1>1. IInv => ExclusiveWork
  BY DEF IInv, Locks, OccurrenceLocks, ExclusiveWork, HoldsRow, Active
<1> QED
  BY <1>1, Inductive, PTL

\* A 200 receipt is never contradicted, neither by the row nor by another
\* receipt.
THEOREM ReceiptsAreFinal == Spec => []ReceiptsAgree
<1>1. IInv => ReceiptsAgree
  BY DEF IInv, Receipts, ReceiptsAgree
<1> QED
  BY <1>1, Inductive, PTL

-----------------------------------------------------------------------------
(* What a dispatch may conclude from an old snapshot.  History adds to IInv    *)
(* that tasks only grow, forward (TaskOrder), that the revision stored with a *)
(* firing is one on which its wake stood (StoredStands), that a handler       *)
(* runs on such a revision (Armed), and that a firing called stale is past    *)
(* for good (Condemned): the task ended or left the step without its command, *)
(* or its dispatch was told that there is no such task.                       *)

LastOf(o) == versions[o][Len(versions[o])]

TaskOrder ==
  \A o \in Occ : \A j, k \in DOMAIN versions[o] :
    j < k => /\ versions[o][j].seq <= versions[o][k].seq
             /\ versions[o][j].mode \in Moving

StoredStands ==
  \A e \in Event : row[e] # "none" =>
    /\ storedRev[e] \in DOMAIN versions[OccOf[e]]
    /\ versions[OccOf[e]][storedRev[e]].seq = SeqOf[e]

Armed ==
  \A w \in Worker : pc[w] = "handle" =>
    /\ snap[w] \in DOMAIN versions[OccOf[held[w]]]
    /\ versions[OccOf[held[w]]][snap[w]].seq = SeqOf[held[w]]
    /\ versions[OccOf[held[w]]][snap[w]].mode = "running"

Past(e) ==
  \/ LastOf(OccOf[e]).mode = "gone" \/ e \in expired
  \/ /\ LastOf(OccOf[e]).mode = "done" \/ LastOf(OccOf[e]).seq > SeqOf[e]
     /\ e \notin Applied(OccOf[e], Len(versions[OccOf[e]]))

Condemned ==
  /\ \A e \in Event : row[e] = "stale" => Past(e) \/ e \in missed
  /\ \A w \in Worker : pc[w] = "commit" /\ verdict[w] = "stale" =>
       Past(held[w]) \/ held[w] \in missed

History == EffectOnArmedStep /\ TaskOrder /\ StoredStands /\ Armed /\ Condemned

\* A version is added to a task that has not ended; one that a firing's command
\* makes is added to a version on which the firing's wake stands.
Grows(o, v) ==
  /\ versions' = [versions EXCEPT ![o] = Append(@, v)]
  /\ LastOf(o).mode \in Moving /\ LastOf(o).seq <= v.seq
  /\ v.by # NoEvent =>
       OccOf[v.by] = o /\ LastOf(o).seq = SeqOf[v.by] /\ LastOf(o).mode = "running"

LEMMA LastIsVersion ==
  ASSUME TypeOK, NEW o \in Occ
  PROVE  /\ versions[o] \in Seq(Version) /\ Len(versions[o]) \in DOMAIN versions[o]
         /\ LastOf(o) \in Version
         /\ DOMAIN versions[o] = 1..Len(versions[o]) /\ Len(versions[o]) \in Nat
         /\ \A k \in DOMAIN versions[o] : versions[o][k] \in Version /\ versions[o][k].seq \in Nat
<1>1. versions[o] \in Seq(Version) /\ versions[o] # <<>>
  BY DEF TypeOK
<1>2. DOMAIN versions[o] = 1..Len(versions[o]) /\ Len(versions[o]) \in Nat /\ Len(versions[o]) \in DOMAIN versions[o]
  BY <1>1
<1>3. \A k \in DOMAIN versions[o] : versions[o][k] \in Version
  BY <1>1
<1>4. \A k \in DOMAIN versions[o] : versions[o][k].seq \in Nat
  BY <1>3 DEF Version
<1> QED
  BY <1>1, <1>2, <1>3, <1>4 DEF LastOf

LEMMA NextVersionGrows ==
  ASSUME TypeOK, NEW o \in Occ, NEW m \in Mode, NEW e \in Event \union {NoEvent},
         NextVersion(o, m, e), LastOf(o).mode \in Moving,
         e # NoEvent => OccOf[e] = o /\ LastOf(o).seq = SeqOf[e] /\ LastOf(o).mode = "running"
  PROVE  \E v \in Version : Grows(o, v)
<1>1. PICK s \in {LastOf(o).seq, LastOf(o).seq + 1} :
        versions' = [versions EXCEPT ![o] = Append(@, [seq |-> s, mode |-> m, by |-> e])]
  BY DEF NextVersion, LastOf
<1>2. LastOf(o).seq \in Nat
  BY LastIsVersion DEF Version
<1> DEFINE v == [seq |-> s, mode |-> m, by |-> e]
<1>3. v \in Version /\ v.by = e /\ LastOf(o).seq <= v.seq
  BY <1>1, <1>2 DEF Version
<1> HIDE DEF v
<1>4. versions' = [versions EXCEPT ![o] = Append(@, v)]
  BY <1>1 DEF v
<1>5. Grows(o, v)
  BY <1>3, <1>4 DEF Grows
<1> QED
  BY <1>3, <1>5

\* Every step leaves the tasks alone or lets one of them grow.
LEMMA TasksGrow ==
  ASSUME IInv, Armed, [Next]_vars
  PROVE  versions' = versions \/ \E o \in Occ, v \in Version : Grows(o, v)
<1>1. ASSUME NEW w \in Worker, HandlerAdvances(w)
      PROVE  \E o \in Occ, v \in Version : Grows(o, v)
  <2> DEFINE e == held[w]
  <2>1. e \in Event /\ OccOf[e] \in Occ
    BY <1>1 DEF IInv, Locks, Active, HandlerAdvances
  <2>2. LastOf(OccOf[e]).seq = SeqOf[e] /\ LastOf(OccOf[e]).mode = "running"
    BY <1>1 DEF Armed, HandlerAdvances, LastOf
  <2>3. PICK m \in {"running", "done"} : NextVersion(OccOf[e], m, e)
    BY <1>1 DEF HandlerAdvances
  <2>4. \E v \in Version : Grows(OccOf[e], v)
    BY <2>1, <2>2, <2>3, NextVersionGrows DEF Mode, Moving, IInv
  <2> QED
    BY <2>1, <2>4
<1>2. ASSUME NEW o \in Occ, TaskMoves(o)
      PROVE  \E p \in Occ, v \in Version : Grows(p, v)
  <2>1. PICK m \in Mode : NextVersion(o, m, NoEvent)
    BY <1>2 DEF TaskMoves
  <2>2. LastOf(o).mode \in Moving
    BY <1>2 DEF TaskMoves, LastOf
  <2> QED
    BY <2>1, <2>2, NextVersionGrows DEF IInv
<1>3. ASSUME NEW w \in Worker,
             (RunNext(w) /\ ~HandlerAdvances(w)) \/ LoseConnection(w) \/ Crash(w)
      PROVE  versions' = versions
  BY <1>3 DEF RunNext, LockDue, Busy, LockOccurrence, Find, FindsVersion,
              FindsNothing, DispatchFails, HandlerReturns,
              Complete, RetryLater, Rollback, LoseConnection, Crash
<1>4. ASSUME NEW e \in Event, Enqueue(e) \/ TimePasses(e) \/ Expire(e)
      PROVE  versions' = versions
  BY <1>4 DEF Enqueue, Insert, Redeliver, TimePasses, Expire
<1>5. CASE UNCHANGED vars
  BY <1>5 DEF vars
<1> QED
  BY <1>1, <1>2, <1>3, <1>4, <1>5 DEF Next

\* What was in a task stays there.
LEMMA GrowsKeeps ==
  ASSUME IInv, NEW o \in Occ, NEW v \in Version, Grows(o, v)
  PROVE  /\ \A p \in Occ : \A k \in DOMAIN versions[p] :
              k \in DOMAIN versions'[p] /\ versions'[p][k] = versions[p][k]
         /\ \A p \in Occ \ {o} : versions'[p] = versions[p]
         /\ DOMAIN versions'[o] = 1..(Len(versions[o]) + 1)
         /\ Len(versions'[o]) = Len(versions[o]) + 1
         /\ versions'[o][Len(versions[o]) + 1] = v
<1>1. versions[o] \in Seq(Version) /\ Len(versions[o]) \in Nat /\ versions \in [Occ -> Seq(Version) \ {<<>>}]
  BY LastIsVersion DEF IInv, TypeOK
<1>2. versions'[o] = Append(versions[o], v) /\ \A p \in Occ \ {o} : versions'[p] = versions[p]
  BY <1>1 DEF Grows
<1>3. /\ \A k \in DOMAIN versions[o] : k \in DOMAIN versions'[o] /\ versions'[o][k] = versions[o][k]
      /\ DOMAIN versions'[o] = 1..(Len(versions[o]) + 1)
      /\ Len(versions'[o]) = Len(versions[o]) + 1
      /\ versions'[o][Len(versions[o]) + 1] = v
  BY <1>1, <1>2
<1> QED
  BY <1>2, <1>3

LEMMA TasksKept ==
  ASSUME IInv, Armed, [Next]_vars, NEW o \in Occ
  PROVE  \A k \in DOMAIN versions[o] : k \in DOMAIN versions'[o] /\ versions'[o][k] = versions[o][k]
BY TasksGrow, GrowsKeeps

LEMMA TaskOrderKept ==
  ASSUME IInv, TaskOrder, EffectOnArmedStep, Armed, [Next]_vars
  PROVE  TaskOrder' /\ EffectOnArmedStep'
<1>1. ASSUME NEW o \in Occ, NEW v \in Version, Grows(o, v)
      PROVE  TaskOrder' /\ EffectOnArmedStep'
  <2> DEFINE n == Len(versions[o])
  <2>1. /\ n \in Nat /\ n \in DOMAIN versions[o] /\ DOMAIN versions[o] = 1..n
        /\ LastOf(o) \in Version /\ versions[o] \in Seq(Version)
    BY LastIsVersion DEF IInv
  <2>2. \A j \in 1..n : versions[o][j].seq \in Nat /\ versions[o][j].seq <= LastOf(o).seq
    <3>1. \A j \in 1..n : versions[o][j].seq \in Nat /\ (j < n \/ j = n)
      BY <2>1, LastIsVersion DEF IInv
    <3>2. \A j \in 1..n : j < n => versions[o][j].seq <= LastOf(o).seq
      BY <2>1 DEF TaskOrder, LastOf
    <3> QED
      BY <3>1, <3>2 DEF LastOf
  <2>3. v.seq \in Nat /\ LastOf(o).seq \in Nat /\ LastOf(o).seq <= v.seq
    BY <1>1, <2>1 DEF Grows, Version
  <2>4. \A j \in 1..n : versions[o][j].mode \in Moving
    BY <1>1, <2>1 DEF TaskOrder, LastOf, Grows
  <2>5. ASSUME NEW j \in DOMAIN versions'[o], NEW k \in DOMAIN versions'[o], j < k
        PROVE  /\ versions'[o][j].seq <= versions'[o][k].seq
               /\ versions'[o][j].mode \in Moving
    <3>1. j \in 1..n /\ versions'[o][j] = versions[o][j]
      BY <1>1, <2>1, <2>5, GrowsKeeps
    <3>2. CASE k = n + 1
      BY <1>1, <3>1, <3>2, <2>2, <2>3, <2>4, GrowsKeeps
    <3>3. CASE k # n + 1
      <4>1. k \in DOMAIN versions[o] /\ versions'[o][k] = versions[o][k]
        BY <1>1, <2>1, <3>3, GrowsKeeps
      <4> QED BY <2>1, <2>5, <3>1, <4>1 DEF TaskOrder
    <3> QED BY <3>2, <3>3
  <2>6. TaskOrder'
    BY <1>1, <2>5, GrowsKeeps DEF TaskOrder
  <2>7. ASSUME NEW k \in DOMAIN versions'[o], versions'[o][k].by # NoEvent
        PROVE  LET e == versions'[o][k].by IN
               /\ k > 1 /\ OccOf[e] = o
               /\ versions'[o][k - 1].seq = SeqOf[e]
               /\ versions'[o][k - 1].mode = "running"
    <3>1. CASE k = n + 1
      <4>1. versions'[o][k] = v /\ versions'[o][n] = LastOf(o)
        BY <1>1, <2>1, <3>1, GrowsKeeps DEF LastOf
      <4>2. OccOf[v.by] = o /\ LastOf(o).seq = SeqOf[v.by] /\ LastOf(o).mode = "running"
        BY <1>1, <2>7, <4>1 DEF Grows
      <4>3. k - 1 = n /\ k > 1
        BY <2>1, <3>1
      <4> QED BY <4>1, <4>2, <4>3
    <3>2. CASE k # n + 1
      <4>1. k \in DOMAIN versions[o] /\ versions'[o][k] = versions[o][k]
        BY <1>1, <2>1, <3>2, GrowsKeeps
      <4>2. k > 1 /\ OccOf[versions[o][k].by] = o
            /\ versions[o][k - 1].seq = SeqOf[versions[o][k].by]
            /\ versions[o][k - 1].mode = "running"
        BY <2>7, <4>1 DEF EffectOnArmedStep
      <4>3. k - 1 \in DOMAIN versions[o]
        BY <2>1, <4>1, <4>2
      <4>4. versions'[o][k - 1] = versions[o][k - 1]
        BY <1>1, <4>3, GrowsKeeps
      <4> QED BY <4>1, <4>2, <4>4
    <3> QED BY <3>1, <3>2
  <2>8. EffectOnArmedStep'
    BY <1>1, <2>7, GrowsKeeps DEF EffectOnArmedStep
  <2> QED BY <2>6, <2>8
<1>2. CASE versions' = versions
  BY <1>2 DEF TaskOrder, EffectOnArmedStep
<1> QED
  BY <1>1, <1>2, TasksGrow

LEMMA NextKeepsExpired ==
  ASSUME [Next]_vars
  PROVE  expired \subseteq expired' /\ missed \subseteq missed'
<1>1. ASSUME NEW w \in Worker, RunNext(w) \/ LoseConnection(w) \/ Crash(w)
      PROVE  expired' = expired /\ missed \subseteq missed'
  BY <1>1 DEF RunNext, LockDue, Busy, LockOccurrence, Find, FindsVersion,
              FindsNothing, DispatchFails, HandlerReturns,
              HandlerAdvances, Complete, RetryLater, Rollback, LoseConnection, Crash
<1>2. ASSUME NEW e \in Event, Enqueue(e) \/ TimePasses(e) \/ Expire(e)
      PROVE  expired \subseteq expired' /\ missed \subseteq missed'
  BY <1>2 DEF Enqueue, Insert, Redeliver, TimePasses, Expire
<1>3. ASSUME NEW o \in Occ, TaskMoves(o)
      PROVE  expired' = expired /\ missed \subseteq missed'
  BY <1>3 DEF TaskMoves
<1> QED
  BY <1>1, <1>2, <1>3 DEF Next, vars

\* What is past stays past.
LEMMA PastStays ==
  ASSUME IInv, TaskOrder, EffectOnArmedStep, Armed, [Next]_vars, NEW e \in Event, Past(e)
  PROVE  Past(e)'
<1> DEFINE o == OccOf[e]
           n == Len(versions[o])
<1>0. o \in Occ /\ SeqOf[e] \in Nat
  OBVIOUS
<1>1. expired \subseteq expired'
  BY NextKeepsExpired
<1>2. CASE versions' = versions
  BY <1>1, <1>2 DEF Past, LastOf, Applied
<1>3. ASSUME NEW p \in Occ, NEW v \in Version, Grows(p, v)
      PROVE  Past(e)'
  <2>1. CASE p # o
    <3>1. versions'[o] = versions[o]
      BY <1>0, <1>3, <2>1, GrowsKeeps
    <3> QED
      BY <1>1, <3>1 DEF Past, LastOf, Applied
  <2>2. CASE p = o /\ e \notin expired
    <3>1. /\ n \in Nat /\ n \in DOMAIN versions[o] /\ DOMAIN versions[o] = 1..n
          /\ LastOf(o) \in Version
      BY <1>0, LastIsVersion DEF IInv
    <3>2. LastOf(o).seq > SeqOf[e] /\ e \notin Applied(o, n) /\ LastOf(o).seq <= v.seq
      BY <1>3, <2>2 DEF Past, Grows, Moving
    <3>3. v.by # e
      <4>1. e # NoEvent
        OBVIOUS
      <4>2. LastOf(o).seq \in Nat /\ LastOf(o).seq # SeqOf[e]
        BY <1>0, <3>1, <3>2 DEF Version
      <4> QED
        BY <1>3, <4>1, <4>2, <2>2 DEF Grows
    <3>4. LastOf(o)' = v /\ Len(versions'[o]) = n + 1
      BY <1>3, <2>2, <3>1, GrowsKeeps DEF LastOf
    <3>5. v.seq > SeqOf[e]
      BY <1>0, <3>1, <3>2 DEF Version
    <3>6. \A k \in 1..(n + 1) : versions'[o][k].by # e
      <4>1. \A k \in 1..n : versions[o][k].by # e
        BY <3>2 DEF Applied
      <4>2. \A k \in 1..n : versions'[o][k] = versions[o][k]
        BY <1>3, <2>2, <3>1, GrowsKeeps
      <4>3. versions'[o][n + 1] = v
        BY <1>3, <2>2, GrowsKeeps
      <4>4. \A k \in 1..(n + 1) : k \in 1..n \/ k = n + 1
        BY <3>1
      <4> QED
        BY <3>3, <4>1, <4>2, <4>3, <4>4
    <3>7. (e \notin Applied(o, Len(versions[o])))'
      BY <3>4, <3>6 DEF Applied
    <3> QED
      BY <3>4, <3>5, <3>7 DEF Past
  <2>3. CASE e \in expired
    BY <1>1, <2>3 DEF Past
  <2> QED BY <2>1, <2>2, <2>3
<1> QED
  BY <1>2, <1>3, TasksGrow

\* Find calls a firing stale only if it is past, however old its snapshot is.
LEMMA StaleSnapshotIsPast ==
  ASSUME IInv, TaskOrder, StoredStands, EffectOnArmedStep,
         NEW e \in Event, row[e] # "none",
         NEW i \in DOMAIN versions[OccOf[e]], Decide(e, i) = "stale"
  PROVE  Past(e)
<1> DEFINE o == OccOf[e]
           n == Len(versions[o])
           v == versions[o][i]
<1>1. /\ o \in Occ /\ SeqOf[e] \in Nat /\ n \in Nat /\ n \in DOMAIN versions[o]
      /\ DOMAIN versions[o] = 1..n /\ versions[o] \in Seq(Version)
  BY LastIsVersion DEF IInv
<1>2. \A k \in 1..n : versions[o][k].seq \in Nat
  BY <1>1, LastIsVersion DEF IInv
<1>3. CASE v.mode \in {"gone", "done"} \/ e \in expired
  <2>1. v.mode \in {"gone", "done"} => i = n
    BY <1>1 DEF TaskOrder, Moving
  <2>2. v.mode = "done" /\ e \notin expired => e \notin Applied(o, i)
    BY <1>3 DEF Decide, commandApplied
  <2> QED
    BY <1>3, <2>1, <2>2 DEF Past, LastOf
<1>4. CASE v.mode \notin {"gone", "done"} /\ e \notin expired
  <2>1. ~(i < storedRev[e]) /\ e \notin Applied(o, i) /\ v.seq # SeqOf[e]
    BY <1>4 DEF Decide, Behind, commandApplied, terminal, stepPassSeqDiffers, wakeUnusable
  <2>2. storedRev[e] \in 1..n /\ versions[o][storedRev[e]].seq = SeqOf[e]
    BY <1>1 DEF StoredStands
  <2>3. v.seq > SeqOf[e]
    <3>1. i \in 1..n /\ (i = storedRev[e] \/ storedRev[e] < i)
      BY <1>1, <2>1, <2>2
    <3>2. versions[o][storedRev[e]].seq <= v.seq
      BY <1>1, <1>2, <3>1, <2>2 DEF TaskOrder
    <3> QED
      BY <1>1, <1>2, <2>1, <2>2, <3>1, <3>2
  <2>4. \A k \in i..n : versions[o][k].seq > SeqOf[e]
    <3>1. TAKE k \in i..n
    <3>2. k \in 1..n /\ i \in 1..n /\ (k = i \/ i < k)
      BY <1>1
    <3>3. k = i \/ v.seq <= versions[o][k].seq
      BY <1>1, <3>2 DEF TaskOrder
    <3>4. v.seq \in Nat /\ versions[o][k].seq \in Nat
      BY <1>2, <3>2
    <3> HIDE DEF o, n
    <3> QED
      BY <1>1, <2>3, <3>3, <3>4
  <2>5. \A k \in 1..n : versions[o][k].by # e
    <3>1. ASSUME NEW k \in 1..n, versions[o][k].by = e PROVE FALSE
      <4>1. k > 1 /\ versions[o][k - 1].seq = SeqOf[e]
        BY <1>1, <3>1 DEF EffectOnArmedStep
      <4>2. ~(k - 1 \in i..n)
        BY <1>1, <2>4, <4>1
      <4>3. k \in 1..i
        BY <1>1, <4>1, <4>2
      <4> QED
        BY <1>1, <2>1, <3>1, <4>3 DEF Applied
    <3> QED BY <3>1
  <2>6. e \notin Applied(o, n)
    BY <2>5 DEF Applied
  <2> QED
    BY <1>1, <2>4, <2>6 DEF Past, LastOf
<1> QED
  BY <1>3, <1>4

\* A row gets a revision when it is stored, and an outcome from the verdict of
\* the worker that holds it.
LEMMA RowStep ==
  ASSUME IInv, [Next]_vars, NEW e \in Event
  PROVE  /\ row[e] # "none" => storedRev'[e] = storedRev[e]
         /\ row'[e] # "none" => row[e] # "none" \/ storedRev'[e] \in FiringRevisions(e)
         /\ row'[e] = "stale" =>
              \/ row[e] = "stale"
              \/ \E w \in Worker : pc[w] = "commit" /\ verdict[w] = "stale" /\ held[w] = e
<1>1. TypeOK /\ Locks
  BY DEF IInv
<1>2. ASSUME NEW f \in Event, NEW r \in FiringRevisions(f), Insert(f, r)
      PROVE  /\ row[e] # "none" => storedRev'[e] = storedRev[e]
             /\ row'[e] # "none" => row[e] # "none" \/ storedRev'[e] \in FiringRevisions(e)
             /\ row'[e] = "stale" => row[e] = "stale"
  BY <1>1, <1>2 DEF TypeOK, Insert
<1>3. ASSUME NEW w \in Worker, Complete(w)
      PROVE  /\ storedRev' = storedRev
             /\ row'[e] # "none" => row[e] # "none"
             /\ row'[e] = "stale" =>
                  row[e] = "stale" \/ (pc[w] = "commit" /\ verdict[w] = "stale" /\ held[w] = e)
  BY <1>1, <1>3 DEF TypeOK, Locks, Active, Complete, ReadyToCommit
<1>4. ASSUME NEW w \in Worker,
             (RunNext(w) /\ ~Complete(w)) \/ LoseConnection(w) \/ Crash(w)
      PROVE  UNCHANGED <<row, storedRev>>
  BY <1>4 DEF RunNext, LockDue, Busy, LockOccurrence, Find, FindsVersion,
              FindsNothing, DispatchFails, HandlerReturns,
              HandlerAdvances, RetryLater, Rollback, LoseConnection, Crash
<1>5. ASSUME NEW f \in Event, Redeliver(f) \/ TimePasses(f) \/ Expire(f)
      PROVE  UNCHANGED <<row, storedRev>>
  BY <1>5 DEF Redeliver, TimePasses, Expire
<1>6. ASSUME NEW o \in Occ, TaskMoves(o)
      PROVE  UNCHANGED <<row, storedRev>>
  BY <1>6 DEF TaskMoves
<1>7. CASE UNCHANGED vars
  BY <1>7 DEF vars
<1>8. CASE UNCHANGED <<row, storedRev>>
  BY <1>8
<1> QED
  BY <1>2, <1>3, <1>4, <1>5, <1>6, <1>7, <1>8 DEF Next, Enqueue

\* A handler runs, and a firing is called stale, because Find read a snapshot.
LEMMA DispatchStep ==
  ASSUME IInv, [Next]_vars, NEW w \in Worker
  PROVE  /\ pc'[w] = "handle" =>
              /\ held'[w] = held[w]
              /\ \/ pc[w] = "handle" /\ snap'[w] = snap[w]
                 \/ /\ pc[w] = "find" /\ versions' = versions
                    /\ snap'[w] \in DOMAIN versions[OccOf[held[w]]]
                    /\ Decide(held[w], snap'[w]) = "run"
         /\ pc'[w] = "commit" /\ verdict'[w] = "stale" =>
              /\ held'[w] = held[w]
              /\ \/ pc[w] = "commit" /\ verdict[w] = "stale"
                 \/ /\ pc[w] = "find"
                    /\ \/ held[w] \in missed'
                       \/ \E i \in DOMAIN versions[OccOf[held[w]]] : Decide(held[w], i) = "stale"
<1> DEFINE Kept(v) == pc'[v] = pc[v] /\ held'[v] = held[v] /\ snap'[v] = snap[v] /\ verdict'[v] = verdict[v]
<1>1. TypeOK
  BY DEF IInv
<1>2. ASSUME NEW u \in Worker, RunNext(u) \/ LoseConnection(u) \/ Crash(u)
      PROVE  w # u => Kept(w)
  <2>1. ASSUME LockDue(u) \/ LockOccurrence(u) \/ LoseConnection(u) PROVE w # u => Kept(w)
    BY <1>1, <2>1 DEF TypeOK, LockDue, LockOccurrence, LoseConnection
  <2>2. ASSUME EndTx(u) PROVE w # u => Kept(w)
    BY <1>1, <2>2 DEF TypeOK, EndTx
  <2>3. ASSUME Find(u) \/ DispatchFails(u) \/ HandlerReturns(u) PROVE w # u => Kept(w)
    BY <1>1, <2>3 DEF TypeOK, Find, FindsVersion, FindsNothing, DispatchFails, HandlerReturns,
                      Conclude
  <2>4. ASSUME HandlerAdvances(u) PROVE w # u => Kept(w)
    <3>1. held' = held /\ snap' = snap /\ \E d \in {"accepted", "retry"} : Conclude(u, d)
      BY <2>4 DEF HandlerAdvances
    <3> QED BY <1>1, <3>1 DEF TypeOK, Conclude
  <2> QED
    BY <1>2, <2>1, <2>2, <2>3, <2>4 DEF RunNext, Busy, Complete, RetryLater, Rollback, Crash
<1>3. ASSUME LockDue(w) \/ LockOccurrence(w) \/ EndTx(w)
      PROVE  pc'[w] \notin {"handle", "commit"}
  BY <1>1, <1>3 DEF TypeOK, LockDue, LockOccurrence, EndTx
<1>4. ASSUME FindsVersion(w)
      PROVE  /\ held' = held /\ versions' = versions /\ pc[w] = "find"
             /\ pc'[w] = "handle" =>
                  /\ snap'[w] \in DOMAIN versions[OccOf[held[w]]]
                  /\ Decide(held[w], snap'[w]) = "run"
             /\ pc'[w] = "commit" =>
                  \E i \in DOMAIN versions[OccOf[held[w]]] : Decide(held[w], i) = verdict'[w]
  <2>1. PICK i \in DOMAIN versions[OccOf[held[w]]] :
          /\ snap' = [snap EXCEPT ![w] = i]
          /\ IF Decide(held[w], i) = "run"
             THEN pc' = [pc EXCEPT ![w] = "handle"] /\ verdict' = verdict
             ELSE Conclude(w, Decide(held[w], i))
    BY <1>4 DEF FindsVersion
  <2>2. snap'[w] = i
    BY <1>1, <2>1 DEF TypeOK
  <2>3. CASE Decide(held[w], i) = "run"
    BY <1>1, <1>4, <2>1, <2>2, <2>3 DEF TypeOK, FindsVersion
  <2>4. CASE Decide(held[w], i) # "run"
    <3>1. pc'[w] = "commit" /\ verdict'[w] = Decide(held[w], i)
      BY <1>1, <2>1, <2>4 DEF TypeOK, Conclude
    <3> QED
      BY <1>4, <3>1 DEF FindsVersion
  <2> QED BY <2>3, <2>4
<1>12. ASSUME FindsNothing(w)
       PROVE  held' = held /\ pc[w] = "find" /\ pc'[w] = "commit" /\ held[w] \in missed'
  BY <1>1, <1>12 DEF TypeOK, FindsNothing, Conclude
<1>5. ASSUME DispatchFails(w) \/ HandlerReturns(w) \/ HandlerAdvances(w)
      PROVE  pc'[w] = "commit" /\ verdict'[w] # "stale"
  <2>1. \E d \in {"accepted", "retry"} : Conclude(w, d)
    BY <1>5 DEF DispatchFails, HandlerReturns, HandlerAdvances
  <2> QED BY <1>1, <2>1 DEF TypeOK, Conclude
<1>6. ASSUME LoseConnection(w) PROVE Kept(w)
  BY <1>6 DEF LoseConnection
<1>7. ASSUME NEW e \in Event, Enqueue(e) \/ TimePasses(e) \/ Expire(e)
      PROVE  Kept(w)
  BY <1>7 DEF Enqueue, Insert, Redeliver, TimePasses, Expire
<1>8. ASSUME NEW o \in Occ, TaskMoves(o) PROVE Kept(w)
  BY <1>8 DEF TaskMoves
<1>9. CASE UNCHANGED vars
  BY <1>9 DEF vars
<1>10. CASE Kept(w)
  BY <1>10
<1>11. CASE RunNext(w) \/ Crash(w)
  <2>1. LockDue(w) \/ LockOccurrence(w) \/ EndTx(w) \/ Find(w)
        \/ DispatchFails(w) \/ HandlerReturns(w) \/ HandlerAdvances(w)
    BY <1>11 DEF RunNext, Busy, Complete, RetryLater, Rollback, Crash
  <2> QED
    BY <1>3, <1>4, <1>5, <1>12, <2>1 DEF Find
<1> HIDE DEF Kept
<1> QED
  BY <1>2, <1>6, <1>7, <1>8, <1>9, <1>10, <1>11 DEF Next

LEMMA HistoryKept ==
  ASSUME IInv, IInv', History, [Next]_vars
  PROVE  History'
<1>1. TaskOrder' /\ EffectOnArmedStep'
  BY TaskOrderKept DEF History
<1>2. StoredStands'
  <2>1. ASSUME NEW e \in Event, row'[e] # "none"
        PROVE  /\ storedRev'[e] \in DOMAIN versions[OccOf[e]]
               /\ versions[OccOf[e]][storedRev'[e]].seq = SeqOf[e]
    BY <2>1, RowStep DEF History, StoredStands, FiringRevisions
  <2> QED
    BY <2>1, TasksKept DEF History, StoredStands
<1>3. Armed'
  <2>1. ASSUME NEW w \in Worker, pc'[w] = "handle"
        PROVE  /\ held'[w] = held[w] /\ OccOf[held[w]] \in Occ
               /\ snap'[w] \in DOMAIN versions[OccOf[held[w]]]
               /\ versions[OccOf[held[w]]][snap'[w]].seq = SeqOf[held[w]]
               /\ versions[OccOf[held[w]]][snap'[w]].mode = "running"
    <3>1. held'[w] = held[w] /\ held[w] \in Event
      BY <2>1, DispatchStep DEF IInv, Locks, Active
    <3>2. CASE pc[w] = "handle" /\ snap'[w] = snap[w]
      BY <3>1, <3>2 DEF History, Armed
    <3>3. CASE /\ snap'[w] \in DOMAIN versions[OccOf[held[w]]]
               /\ Decide(held[w], snap'[w]) = "run"
      <4>1. versions[OccOf[held[w]]][snap'[w]] \in Version
        BY <3>1, <3>3, LastIsVersion DEF IInv
      <4> QED
        BY <3>1, <3>3, <4>1 DEF Decide, terminal, stepPassSeqDiffers, Version, Mode
    <3> QED
      BY <2>1, <3>1, <3>2, <3>3, DispatchStep
  <2> QED
    BY <2>1, TasksKept DEF History, Armed
<1>4. Condemned'
  <2>1. ASSUME NEW w \in Worker, pc'[w] = "commit", verdict'[w] = "stale"
        PROVE  Past(held[w])' \/ held[w] \in missed'
    <3>1. held'[w] = held[w] /\ pc[w] # "idle" /\ held[w] \in Event /\ row[held[w]] # "none"
      BY <2>1, DispatchStep DEF IInv, Locks, Active
    <3>2. Past(held[w]) \/ held[w] \in missed'
      BY <2>1, <3>1, DispatchStep, StaleSnapshotIsPast, NextKeepsExpired DEF History, Condemned
    <3> QED
      BY <3>1, <3>2, PastStays DEF History
  <2>2. ASSUME NEW w \in Worker, pc'[w] = "commit", verdict'[w] = "stale"
        PROVE  held'[w] = held[w]
    BY <2>2, DispatchStep
  <2>3. ASSUME NEW e \in Event, row'[e] = "stale"
        PROVE  Past(e)' \/ e \in missed'
    <3>1. Past(e) \/ e \in missed
      BY <2>3, RowStep DEF History, Condemned
    <3> QED
      BY <3>1, PastStays, NextKeepsExpired DEF History
  <2>4. ASSUME NEW w \in Worker, pc'[w] = "commit", verdict'[w] = "stale"
        PROVE  (Past(held[w]) \/ held[w] \in missed)'
    BY <2>1, <2>2, <2>4 DEF Past, LastOf, Applied
  <2> QED
    BY <2>3, <2>4 DEF Condemned
<1> QED
  BY <1>1, <1>2, <1>3, <1>4 DEF History

THEOREM HistoryHolds == Spec => []History
<1>1. Init => History
  <2> SUFFICES ASSUME Init PROVE History
    OBVIOUS
  <2>1. EffectOnArmedStep /\ TaskOrder
    BY DEF Init, EffectOnArmedStep, TaskOrder
  <2>2. StoredStands /\ Armed /\ Condemned
    BY DEF Init, StoredStands, Armed, Condemned
  <2> QED
    BY <2>1, <2>2 DEF History
<1>2. IInv /\ IInv' /\ History /\ [Next]_vars => History'
  BY HistoryKept
<1> QED
  BY <1>1, <1>2, Inductive, PTL DEF Spec

\* A firing's command only ever moved its task from a version on which its own
\* wake stood: the handler runs on such a version (dispatch), and the advance
\* carries the revision of the snapshot.
THEOREM EffectsAreArmed == Spec => []EffectOnArmedStep
<1>1. History => EffectOnArmedStep
  BY DEF History
<1> QED
  BY <1>1, HistoryHolds, PTL

\* A firing put aside as stale is past for good, and its command is not in the
\* task, however old the snapshot was on which dispatch decided; except for a
\* firing whose dispatch was told that its task is not there.
THEOREM StaleStaysPast == Spec => []StaleIsPast
<1>1. IInv /\ History => StaleIsPast
  <2> SUFFICES ASSUME IInv, History, NEW e \in Event, row[e] = "stale", e \notin missed
               PROVE  /\ \/ LastOf(OccOf[e]).mode \in {"done", "gone"}
                         \/ LastOf(OccOf[e]).seq # SeqOf[e] \/ e \in expired
                      /\ \/ e \notin Applied(OccOf[e], Len(versions[OccOf[e]]))
                         \/ e \in expired \/ LastOf(OccOf[e]).mode = "gone"
    BY DEF StaleIsPast, LastOf
  <2>1. Past(e)
    BY DEF History, Condemned
  <2>2. LastOf(OccOf[e]).seq \in Nat /\ SeqOf[e] \in Nat
    BY LastIsVersion DEF IInv, Version
  <2> QED
    BY <2>1, <2>2 DEF Past
<1> QED
  BY <1>1, Inductive, HistoryHolds, PTL

=============================================================================
