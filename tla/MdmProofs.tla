------------------------------- MODULE MdmProofs -------------------------------
(***************************************************************************)
(* Proofs about master data: its records and, below them, registration and *)
(* login.                                                                  *)
(*                                                                         *)
(* Records, for any number of records, requests and legal documents.  The  *)
(* inductive invariant IInv adds to the type invariant that an mdmId       *)
(* belongs to the request that makes it until the record exists (Births),  *)
(* that the indexes follow the documents (OneIndexRow), and what the reads *)
(* of a request tell of it (Reads).  NeverNewer, which needs callers that  *)
(* only name versions they have seen (Ahead = 0), says that neither what a *)
(* caller expects nor what a request read is newer than what is stored.    *)
(*                                                                         *)
(* Registration, for any number of calls, e-mails, organizations and       *)
(* persons, and any bounds.  RowsInv says what the tables may hold and     *)
(* what a transaction may write: the lock of an e-mail is that of the call *)
(* inside, which writes no row about another e-mail and deletes only       *)
(* logins and pending requests.  LoginsInv adds, as long as no call has    *)
(* raced another, that logins agree in the tables and in what each call    *)
(* sees.  CacheInv adds that whoever may leave an entry in the cache knows *)
(* it to be right or has been overtaken.                                   *)
(***************************************************************************)
EXTENDS MdmRecords, Registration, FiniteSetTheorems, TLAPS

-----------------------------------------------------------------------------
(* Records                                                                  *)
Creates == {"createEntity", "createProspect"}
Updates == {"updateEntity", "updateProspect"}
Changes == Updates \union {"promote", "merge"}

Busy(r) == pc[r] # "idle"
Creating(r) == Busy(r) /\ job[r].op \in Creates
HasRead(r) == pc[r] \in {"check", "write"} /\ job[r].op \in Changes

Births ==
  /\ \A r \in Request : Busy(r) => job[r].id \in born
  /\ \A r \in Request : Creating(r) =>
       /\ pc[r] # "read" /\ version[job[r].id] = 0
       /\ \A row \in enqueued : row[1] # job[r].id
  /\ \A r, s \in Request : Creating(r) /\ Busy(s) /\ job[r].id = job[s].id => r = s
  /\ \A id \in Id : version[id] > 0 => id \in born
  /\ \A row \in enqueued : row[1] \in born

Reads ==
  /\ \A r \in Request : Creating(r) \/ ~Busy(r) => base[r] = 0
  /\ \A r \in Request : pc[r] = "read" => job[r].op \in Changes
  /\ \A r \in Request : Busy(r) /\ job[r].op = "delete" => job[r].id \notin prospectIndex
  /\ \A r \in Request : Busy(r) /\ job[r].op \in Updates => job[r].expected > 0
  /\ \A r \in Request : HasRead(r) => base[r] > 0

IInv == TypeOK /\ OneIndexRow /\ Births /\ Reads

NeverNewer ==
  \A r \in Request :
    /\ Busy(r) /\ job[r].op \in Updates /\ version[job[r].id] > 0 =>
         job[r].expected <= version[job[r].id]
    /\ HasRead(r) /\ version[job[r].id] > 0 => base[r] <= version[job[r].id]
    /\ HasRead(r) /\ job[r].op \in Updates => job[r].expected <= base[r]

USE ConstantsAssumption DEF store, inflight, ghosts

LEMMA InitIInv == Init => IInv
<1> SUFFICES ASSUME Init PROVE IInv
  OBVIOUS
<1>1. TypeOK
  BY DEF Init, TypeOK, Details, Status, Blank, Job, NoJob
<1>2. OneIndexRow /\ Births /\ Reads
  BY DEF Init, OneIndexRow, Births, Reads, Busy, Creating, HasRead
<1> QED
  BY <1>1, <1>2 DEF IInv

-----------------------------------------------------------------------------
(* Type correctness                                                          *)

LEMMA FinishTypes ==
  ASSUME TypeOK, NEW r \in Request, Finish(r)
  PROVE  /\ pc' \in [Request -> {"idle", "read", "check", "write"}]
         /\ job' \in [Request -> Job]
         /\ base' \in [Request -> Nat]
         /\ draft' \in [Request -> Details]
         /\ duplicate' \in [Request -> Id \union {NoId}]
<1>1. NoJob \in Job /\ Blank \in Details
  BY DEF NoJob, Job, Blank, Details, Status
<1> QED
  BY <1>1 DEF TypeOK, Finish

\* A request that was asked for names a record.
LEMMA HasTarget ==
  ASSUME IInv, NEW r \in Request, Busy(r)
  PROVE  job[r] \in Job /\ job[r].id \in Id
BY DEF IInv, Births, TypeOK

\* A patch of well-formed details gives well-formed details.
LEMMA PatchTypes ==
  ASSUME NEW d \in Details, NEW j \in Job
  PROVE  applyPatch(d, j) \in Details
<1>1. ASSUME NEW k \in Key \union {NoKey}, NEW s \in Status
      PROVE  [d EXCEPT !.key = k, !.status = s] \in Details
  BY DEF Details
<1>2. d.key \in Key \union {NoKey} /\ j.key \in Key \union {NoKey} /\ j.status \in Status
  BY DEF Details, Job
<1>3. CASE j.key = NoKey
  BY <1>1, <1>2, <1>3 DEF applyPatch
<1>4. CASE j.key # NoKey
  BY <1>1, <1>2, <1>4 DEF applyPatch
<1> QED
  BY <1>3, <1>4

LEMMA ReadsTypes ==
  ASSUME IInv, NEW r \in Request,
         ReadDocument(r) \/ NotFound(r) \/ CheckDuplicate(r) \/ DuplicateFound(r)
  PROVE  TypeOK'
<1>1. CASE ReadDocument(r)
  <2>1. job[r] \in Job /\ job[r].id \in Id
    BY <1>1, HasTarget DEF ReadDocument, Busy
  <2>2. applyPatch(details[job[r].id], job[r]) \in Details
    BY <2>1, PatchTypes DEF IInv, TypeOK
  <2>3. base' \in [Request -> Nat] /\ draft' \in [Request -> Details]
        /\ pc' \in [Request -> {"idle", "read", "check", "write"}]
    <3> DEFINE d == applyPatch(details[job[r].id], job[r])
    <3>1. draft' = [draft EXCEPT ![r] = d]
      BY <1>1 DEF ReadDocument
    <3>2. d \in Details
      BY <2>2
    <3> HIDE DEF d
    <3>3. draft' \in [Request -> Details]
      BY <3>1, <3>2 DEF IInv, TypeOK
    <3>4. version[job[r].id] \in Nat
      BY <2>1 DEF IInv, TypeOK
    <3> QED
      BY <1>1, <3>3, <3>4 DEF ReadDocument, IInv, TypeOK
  <2> QED
    BY <1>1, <2>3 DEF ReadDocument, IInv, TypeOK
<1>2. CASE NotFound(r) \/ DuplicateFound(r)
  BY <1>2, FinishTypes DEF NotFound, DuplicateFound, IInv, TypeOK
<1>3. CASE CheckDuplicate(r)
  BY <1>3 DEF CheckDuplicate, IInv, TypeOK, findEntityByDocument
<1> QED
  BY <1>1, <1>2, <1>3

-----------------------------------------------------------------------------
(* What a write does                                                         *)

Writes(r) ==
  \/ WriteNew(r) \/ WriteEntity(r) \/ WriteProspect(r) \/ WritePromotion(r)
  \/ WritePendingMerge(r) \/ WriteMerge(r) \/ WriteDelete(r)

\* A compare-and-set that succeeds finds the record there.
LEMMA MatchingVersionExists ==
  ASSUME IInv, NEW r \in Request, pc[r] = "write", job[r].op \in Changes, VersionMatches(r)
  PROVE  /\ job[r].id \in Id /\ version[job[r].id] > 0 /\ base[r] > 0 /\ base[r] \in Nat
         /\ version[job[r].id] = expected(r)
         /\ job[r].id \in entityIndex \union prospectIndex
         /\ draft[r] \in Details /\ job[r] \in Job
<1>1. job[r] \in Job /\ job[r].id \in Id
  BY HasTarget DEF Busy
<1>2. base[r] > 0 /\ base[r] \in Nat /\ expected(r) > 0
  BY <1>1 DEF IInv, TypeOK, Reads, HasRead, Busy, expected, Changes, Updates, Job
<1> QED
  BY <1>1, <1>2 DEF IInv, TypeOK, Reads, HasRead, VersionMatches, OneIndexRow

LEMMA WritesTypes ==
  ASSUME IInv, NEW r \in Request, Writes(r)
  PROVE  TypeOK'
<1>1. job[r] \in Job /\ job[r].id \in Id /\ draft[r] \in Details /\ base[r] \in Nat
      /\ Finish(r)
  BY HasTarget DEF Writes, WriteNew, WriteEntity, WriteProspect, WritePromotion, MayWrite,
       WritePendingMerge, WriteMerge, WriteDelete, Busy, IInv, TypeOK, Settle
<1>2. /\ born' = born /\ cleared' = {} /\ unchecked' \subseteq Id
  BY <1>1 DEF Writes, WriteNew, WriteEntity, WriteProspect, WritePromotion,
       WritePendingMerge, WriteMerge, WriteDelete, IInv, TypeOK, Settle
<1>3. ASSUME NEW v \in Nat \ {0}, NEW d \in Details, Put(r, v, d)
      PROVE  /\ version' \in [Id -> Nat] /\ details' \in [Id -> Details]
             /\ enqueued' \subseteq Id \X (Nat \ {0}) /\ from' \in [Id -> Nat]
  BY <1>1, <1>3 DEF Put, IInv, TypeOK
<1>4. /\ version' \in [Id -> Nat] /\ details' \in [Id -> Details]
      /\ enqueued' \subseteq Id \X (Nat \ {0}) /\ from' \in [Id -> Nat]
  <2>1. CASE WriteNew(r)
    BY <1>1, <1>3, <2>1 DEF WriteNew, firstVersion
  <2>2. CASE WriteEntity(r) \/ WriteProspect(r)
    <3>1. Put(r, base[r] + 1, draft[r])
      BY <2>2 DEF WriteEntity, WriteProspect
    <3>2. base[r] + 1 \in Nat \ {0} /\ draft[r] \in Details
      BY <1>1
    <3> QED
      BY <1>3, <3>1, <3>2
  <2>3. CASE WritePromotion(r)
    <3> DEFINE d == [draft[r] EXCEPT !.status = "Active", !.link = job[r].id]
    <3>1. d \in Details
      BY <1>1 DEF Details, Status
    <3>2. Put(r, base[r] + 1, d)
      BY <2>3 DEF WritePromotion
    <3> HIDE DEF d
    <3> QED BY <1>1, <1>3, <3>1, <3>2
  <2>4. CASE WritePendingMerge(r)
    <3> DEFINE d == [draft[r] EXCEPT !.status = "PendingMerge", !.link = duplicate[r]]
    <3>1. d \in Details
      BY <1>1 DEF Details, Status, IInv, TypeOK
    <3>2. Put(r, base[r] + 1, d)
      BY <2>4 DEF WritePendingMerge
    <3> HIDE DEF d
    <3> QED BY <1>1, <1>3, <3>1, <3>2
  <2>5. CASE WriteMerge(r)
    <3> DEFINE d == [draft[r] EXCEPT !.status = "Merged", !.link = job[r].other]
    <3>1. d \in Details
      BY <1>1 DEF Details, Status, Job
    <3>2. Put(r, base[r] + 1, d)
      BY <2>5 DEF WriteMerge
    <3> HIDE DEF d
    <3> QED BY <1>1, <1>3, <3>1, <3>2
  <2>6. CASE WriteDelete(r)
    <3>1. Blank \in Details
      BY DEF Blank, Details, Status
    <3> QED BY <1>1, <2>6, <3>1 DEF WriteDelete, IInv, TypeOK
  <2> QED
    BY <2>1, <2>2, <2>3, <2>4, <2>5, <2>6 DEF Writes
<1>5. /\ entityIndex' \subseteq Id /\ prospectIndex' \subseteq Id
      /\ entityKey' \in [Id -> Key \union {NoKey}]
  <2>1. draft[r].key \in Key \union {NoKey}
    BY <1>1 DEF Details
  <2> QED
    BY <1>1, <2>1 DEF Writes, WriteNew, WriteEntity, WriteProspect, WritePromotion,
       WritePendingMerge, WriteMerge, WriteDelete, IInv, TypeOK, UpdateEntityIndex, LeaveProspects
<1> QED
  BY <1>1, <1>2, <1>4, <1>5, FinishTypes DEF IInv, TypeOK

\* Apart from the request that ends, a write changes one record: the version
\* becomes the successor of the one that was read, and the record is indexed
\* once, or a physical delete takes it away.
LEMMA WriteSummary ==
  ASSUME IInv, NEW r \in Request, Writes(r)
  PROVE  /\ Busy(r) /\ job[r].id \in Id /\ born' = born
         /\ pc' = [pc EXCEPT ![r] = "idle"] /\ job' = [job EXCEPT ![r] = NoJob]
         /\ base' = [base EXCEPT ![r] = 0]
         /\ \A id \in Id \ {job[r].id} : details'[id] = details[id]
         /\ entityIndex' \intersect prospectIndex' = {}
         /\ \/ /\ version' = [version EXCEPT ![job[r].id] = base[r] + 1]
               /\ enqueued' = enqueued \union {<<job[r].id, base[r] + 1>>}
               /\ from' = [from EXCEPT ![job[r].id] = base[r]]
               /\ entityIndex' \union prospectIndex' =
                    entityIndex \union prospectIndex \union {job[r].id}
               /\ \/ Creating(r) /\ prospectIndex' \subseteq prospectIndex \union {job[r].id}
                  \/ /\ HasRead(r) /\ prospectIndex' \subseteq prospectIndex
                     /\ version[job[r].id] = expected(r) /\ version[job[r].id] > 0
            \/ /\ version' = [version EXCEPT ![job[r].id] = 0]
               /\ enqueued' = enqueued
               /\ entityIndex' = entityIndex \ {job[r].id} /\ prospectIndex' = prospectIndex
               /\ job[r].id \notin prospectIndex
               /\ job[r].op = "delete"
<1>1. Busy(r) /\ pc[r] = "write" /\ Finish(r) /\ born' = born
  BY DEF Writes, WriteNew, WriteEntity, WriteProspect, WritePromotion, MayWrite,
         WritePendingMerge, WriteMerge, WriteDelete, Settle, Busy
<1>2. job[r].id \in Id /\ entityIndex \intersect prospectIndex = {}
  BY <1>1, HasTarget DEF IInv, OneIndexRow
<1>3. \A id \in Id \ {job[r].id} : details'[id] = details[id]
  BY DEF Writes, WriteNew, WriteEntity, WriteProspect, WritePromotion, WritePendingMerge,
         WriteMerge, WriteDelete, Put, IInv, TypeOK
<1>4. CASE WriteNew(r)
  <2>1. Creating(r) /\ base[r] = 0 /\ version[job[r].id] = 0
    BY <1>1, <1>4 DEF WriteNew, Creating, Creates, IInv, Births, Reads
  <2>2. job[r].id \notin entityIndex \union prospectIndex
    BY <1>2, <2>1 DEF IInv, OneIndexRow, TypeOK
  <2> QED
    BY <1>1, <1>2, <1>3, <1>4, <2>1, <2>2 DEF WriteNew, Put, firstVersion, Finish
<1>5. CASE WriteEntity(r) \/ WriteProspect(r) \/ WritePromotion(r) \/
           WritePendingMerge(r) \/ WriteMerge(r)
  <2>1. job[r].op \in Changes /\ VersionMatches(r)
    BY <1>5 DEF WriteEntity, WriteProspect, WritePromotion, WritePendingMerge, WriteMerge,
                MayWrite, Changes, Updates
  <2>2. HasRead(r)
    BY <1>1, <2>1 DEF HasRead
  <2>3. /\ version[job[r].id] = expected(r) /\ version[job[r].id] > 0
        /\ job[r].id \in entityIndex \union prospectIndex
    BY <1>1, <2>1, MatchingVersionExists
  <2>4. /\ version' = [version EXCEPT ![job[r].id] = base[r] + 1]
        /\ enqueued' = enqueued \union {<<job[r].id, base[r] + 1>>}
        /\ from' = [from EXCEPT ![job[r].id] = base[r]]
    BY <1>5 DEF WriteEntity, WriteProspect, WritePromotion, WritePendingMerge, WriteMerge, Put
  <2>5. /\ entityIndex' \union prospectIndex' = entityIndex \union prospectIndex \union {job[r].id}
        /\ entityIndex' \intersect prospectIndex' = {}
        /\ prospectIndex' \subseteq prospectIndex
    BY <1>2, <1>5, <2>3 DEF WriteEntity, WriteProspect, WritePromotion, WritePendingMerge,
                            WriteMerge, LeaveProspects
  <2> QED
    BY <1>1, <1>2, <1>3, <2>2, <2>3, <2>4, <2>5 DEF Finish
<1>6. CASE WriteDelete(r)
  <2>1. job[r].op = "delete" /\ job[r].id \notin prospectIndex
    BY <1>1, <1>6 DEF WriteDelete, IInv, Reads
  <2> QED
    BY <1>1, <1>2, <1>3, <1>6, <2>1 DEF WriteDelete, Finish
<1> QED
  BY <1>4, <1>5, <1>6 DEF Writes

LEMMA WritesIInv ==
  ASSUME IInv, NEW r \in Request, Writes(r)
  PROVE  IInv'
<1> DEFINE i == job[r].id
<1>1. TypeOK'
  BY WritesTypes
<1>2. /\ i \in Id /\ i \in born /\ born' = born
      /\ \A s \in Request : Busy(s)' => s # r /\ Busy(s)
      /\ \A s \in Request \ {r} : pc'[s] = pc[s] /\ job'[s] = job[s] /\ base'[s] = base[s]
      /\ ~Busy(r)' /\ base'[r] = 0
  BY WriteSummary DEF IInv, TypeOK, Births, Busy
<1>3. \A s \in Request : Creating(s)' => s # r /\ Creating(s) /\ job[s].id # i
  BY <1>2, WriteSummary DEF IInv, Births, Creating
<1>4. /\ \A id \in Id \ {i} : version'[id] = version[id]
      /\ \A row \in enqueued' : row \in enqueued \/ row[1] = i
  BY WriteSummary DEF IInv, TypeOK
<1>5. OneIndexRow'
  <2>1. version'[i] > 0 <=> i \in entityIndex' \union prospectIndex'
    BY <1>2, WriteSummary DEF IInv, TypeOK
  <2>2. ASSUME NEW id \in Id \ {i}
        PROVE  version'[id] > 0 <=> id \in entityIndex' \union prospectIndex'
    BY <1>4, <2>2, WriteSummary DEF IInv, OneIndexRow
  <2> QED
    BY <2>1, <2>2, WriteSummary DEF OneIndexRow
<1>6. Births'
  <2>1. \A s \in Request : Busy(s)' => job'[s].id \in born'
    BY <1>2 DEF IInv, Births
  <2>2. \A s \in Request : Creating(s)' =>
          /\ pc'[s] # "read" /\ version'[job'[s].id] = 0
          /\ \A row \in enqueued' : row[1] # job'[s].id
    BY <1>2, <1>3, <1>4, HasTarget DEF IInv, Births, Creating
  <2>3. \A s, t \in Request : Creating(s)' /\ Busy(t)' /\ job'[s].id = job'[t].id => s = t
    BY <1>2, <1>3 DEF IInv, Births
  <2>4. \A id \in Id : version'[id] > 0 => id \in born'
    BY <1>2, <1>4 DEF IInv, Births
  <2>5. \A row \in enqueued' : row[1] \in born'
    BY <1>2, <1>4 DEF IInv, Births
  <2> QED
    BY <2>1, <2>2, <2>3, <2>4, <2>5 DEF Births
<1>7. Reads'
  <2>1. \A s \in Request : Creating(s)' \/ ~Busy(s)' => base'[s] = 0
    BY <1>2, <1>3 DEF IInv, Reads, Busy
  <2>2. \A s \in Request : pc'[s] = "read" => job'[s].op \in Changes
    BY <1>2 DEF IInv, Reads, Busy
  <2>3. ASSUME NEW s \in Request, Busy(s)', job'[s].op = "delete"
        PROVE  job'[s].id \notin prospectIndex'
    <3>1. s # r /\ Busy(s) /\ job[s] = job'[s] /\ job[s].id \notin prospectIndex
      BY <1>2, <2>3 DEF IInv, Reads
    <3>2. Creating(r) => job[s].id # i
      BY <3>1 DEF IInv, Births
    <3> QED
      BY <3>1, <3>2, WriteSummary
  <2>4. \A s \in Request : Busy(s)' /\ job'[s].op \in Updates => job'[s].expected > 0
    BY <1>2 DEF IInv, Reads
  <2>5. \A s \in Request : HasRead(s)' => base'[s] > 0
    BY <1>2 DEF IInv, Reads, HasRead, Busy
  <2> QED
    BY <2>1, <2>2, <2>3, <2>4, <2>5 DEF Reads
<1> QED
  BY <1>1, <1>5, <1>6, <1>7 DEF IInv

-----------------------------------------------------------------------------
(* What arrivals and reads do                                                *)

Asks(r) ==
  \/ createEntity(r) \/ createProspect(r) \/ update(r)
  \/ promoteProspect(r) \/ mergeEntity(r) \/ delete(r)

\* A request arrives with an mdmId nobody has, or names a record that exists.
Arrives(r, j, next) ==
  /\ Ask(r, j, next)
  /\ draft' \in [Request -> Details]
  /\ \/ /\ j.op \in Creates /\ next # "read"
        /\ j.id \in Id \ born /\ born' = born \union {j.id}
     \/ /\ j.op \in Changes \union {"delete"} /\ born' = born
        /\ j.id \in Id /\ version[j.id] > 0
        /\ IF j.op = "delete" THEN next = "write" /\ j.id \notin prospectIndex
                              ELSE next = "read"
        /\ j.op \in Updates => j.expected \in Expectable(j.id)

LEMMA AskSummary ==
  ASSUME IInv, NEW r \in Request, Asks(r)
  PROVE  \E j \in Job, next \in {"read", "check", "write"} : Arrives(r, j, next)
<1>1. CASE createEntity(r) \/ createProspect(r)
  <2>1. PICK op \in Creates, id \in Id \ born, k \in Key \union {NoKey},
             s \in {"New", "Active"}, next \in {"check", "write"} :
          /\ Ask(r, [NoJob EXCEPT !.op = op, !.id = id], next)
          /\ born' = born \union {id}
          /\ draft' = [draft EXCEPT ![r] = [key |-> k, status |-> s, link |-> NoId]]
    BY <1>1 DEF createEntity, createProspect, Creates
  <2> DEFINE j == [NoJob EXCEPT !.op = op, !.id = id]
  <2>2. j \in Job /\ j.op = op /\ j.id = id
    BY <2>1 DEF Ask, NoJob, Job, Status
  <2>3. draft' \in [Request -> Details]
    BY <2>1 DEF IInv, TypeOK, Details, Status
  <2>4. Ask(r, j, next)
    BY <2>1
  <2> HIDE DEF j
  <2>5. Arrives(r, j, next)
    BY <2>1, <2>2, <2>3, <2>4 DEF Arrives
  <2> QED
    BY <2>2, <2>5
<1>2. CASE update(r)
  <2>0. PICK op \in {"updateEntity", "updateProspect"}, id \in Id, k \in Key \union {NoKey} :
          /\ version[id] > 0
          /\ \E x \in Expectable(id), s \in {details[id].status, "Active"} :
             /\ Ask(r, [op |-> op, id |-> id, other |-> NoId, key |-> k,
                        status |-> s, expected |-> x], "read")
             /\ UNCHANGED <<born, draft>>
    BY <1>2 DEF update
  <2>1. PICK x \in Expectable(id), s \in {details[id].status, "Active"} :
          /\ Ask(r, [op |-> op, id |-> id, other |-> NoId, key |-> k,
                     status |-> s, expected |-> x], "read")
          /\ UNCHANGED <<born, draft>>
    BY <2>0
  <2> DEFINE j == [op |-> op, id |-> id, other |-> NoId, key |-> k,
                   status |-> s, expected |-> x]
  <2>2. op \in Operation /\ s \in Status /\ x \in Nat
    BY <2>1 DEF Ask, IInv, TypeOK, Details, Status, Expectable
  <2>3. j \in Job /\ j.op = op /\ j.id = id /\ j.expected = x
    BY <2>2 DEF Job
  <2>4. Ask(r, j, "read") /\ draft' \in [Request -> Details]
    BY <2>1 DEF IInv, TypeOK
  <2> HIDE DEF j
  <2>5. Arrives(r, j, "read")
    BY <2>0, <2>1, <2>3, <2>4 DEF Arrives, Changes, Updates
  <2> QED
    BY <2>3, <2>5
<1>3. CASE promoteProspect(r)
  <2>1. PICK id \in prospectIndex :
          /\ Ask(r, [NoJob EXCEPT !.op = "promote", !.id = id], "read")
          /\ UNCHANGED <<born, draft>>
    BY <1>3 DEF promoteProspect
  <2> DEFINE j == [NoJob EXCEPT !.op = "promote", !.id = id]
  <2>2. j \in Job /\ j.op = "promote" /\ j.id = id
    BY <2>1 DEF Ask, NoJob, Job, Status, IInv, TypeOK
  <2>3. /\ id \in Id /\ version[id] > 0
        /\ id \in entityIndex => id \notin prospectIndex
    BY DEF IInv, TypeOK, OneIndexRow
  <2>4. Ask(r, j, "read") /\ draft' \in [Request -> Details]
    BY <2>1 DEF IInv, TypeOK
  <2> HIDE DEF j
  <2>5. Arrives(r, j, "read")
    BY <2>1, <2>2, <2>3, <2>4 DEF Arrives, Changes, Updates
  <2> QED
    BY <2>2, <2>5
<1>4. CASE mergeEntity(r)
  <2>1. PICK winner, loser \in entityIndex :
          /\ Ask(r, [NoJob EXCEPT !.op = "merge", !.id = loser, !.other = winner], "read")
          /\ UNCHANGED <<born, draft>>
    BY <1>4 DEF mergeEntity
  <2> DEFINE j == [NoJob EXCEPT !.op = "merge", !.id = loser, !.other = winner]
  <2>2. j \in Job /\ j.op = "merge" /\ j.id = loser
    BY <2>1 DEF Ask, NoJob, Job, Status, IInv, TypeOK
  <2>3. /\ loser \in Id /\ version[loser] > 0
        /\ loser \in entityIndex => loser \notin prospectIndex
    BY DEF IInv, TypeOK, OneIndexRow
  <2>4. Ask(r, j, "read") /\ draft' \in [Request -> Details]
    BY <2>1 DEF IInv, TypeOK
  <2> HIDE DEF j
  <2>5. Arrives(r, j, "read")
    BY <2>1, <2>2, <2>3, <2>4 DEF Arrives, Changes, Updates
  <2> QED
    BY <2>2, <2>5
<1>5. CASE delete(r)
  <2>1. PICK id \in entityIndex :
          /\ Ask(r, [NoJob EXCEPT !.op = "delete", !.id = id], "write")
          /\ UNCHANGED <<born, draft>>
    BY <1>5 DEF delete
  <2> DEFINE j == [NoJob EXCEPT !.op = "delete", !.id = id]
  <2>2. j \in Job /\ j.op = "delete" /\ j.id = id
    BY <2>1 DEF Ask, NoJob, Job, Status, IInv, TypeOK
  <2>3. /\ id \in Id /\ version[id] > 0
        /\ id \in entityIndex => id \notin prospectIndex
    BY DEF IInv, TypeOK, OneIndexRow
  <2>4. Ask(r, j, "write") /\ draft' \in [Request -> Details]
    BY <2>1 DEF IInv, TypeOK
  <2> HIDE DEF j
  <2>5. Arrives(r, j, "write")
    BY <2>1, <2>2, <2>3, <2>4 DEF Arrives, Changes, Updates
  <2> QED
    BY <2>2, <2>5
<1> QED
  BY <1>1, <1>2, <1>3, <1>4, <1>5 DEF Asks

LEMMA AskIInv ==
  ASSUME IInv, NEW r \in Request, NEW j \in Job, NEW next \in {"read", "check", "write"},
         Arrives(r, j, next)
  PROVE  IInv'
<1>0. TypeOK'
  BY DEF IInv, TypeOK, Arrives, Ask
<1>1. /\ pc[r] = "idle" /\ base[r] = 0 /\ UNCHANGED <<store, base>>
      /\ pc'[r] = next /\ job'[r] = j
      /\ \A s \in Request \ {r} : pc'[s] = pc[s] /\ job'[s] = job[s]
  BY DEF Arrives, Ask, IInv, TypeOK, Reads, Busy
<1>2. OneIndexRow'
  BY <1>1 DEF IInv, OneIndexRow
<1>3. \A s \in Request \ {r} : Busy(s) => job[s].id \in born
  BY DEF IInv, Births
<1>4. j.op \in Creates =>
        version[j.id] = 0 /\ \A row \in enqueued : row[1] # j.id
  BY DEF Arrives, IInv, TypeOK, Births, Creates, Changes, Updates
<1>5. \A s \in Request \ {r} : Creating(s) => job[s].id # j.id
  BY <1>3 DEF Arrives, IInv, Births, Creating
<1>6. Births'
  BY <1>1, <1>3, <1>4, <1>5 DEF Arrives, IInv, Births, Busy, Creating, Creates, Changes, Updates
<1>7. Reads'
  <2>1. \A s \in Request \ {r} :
          /\ Creating(s)' \/ ~Busy(s)' => base'[s] = 0
          /\ pc'[s] = "read" => job'[s].op \in Changes
          /\ Busy(s)' /\ job'[s].op = "delete" => job'[s].id \notin prospectIndex'
          /\ Busy(s)' /\ job'[s].op \in Updates => job'[s].expected > 0
          /\ HasRead(s)' => base'[s] > 0
    BY <1>1 DEF IInv, Reads, Busy, Creating, HasRead
  <2>2. /\ base'[r] = 0 /\ ~HasRead(r)'
        /\ pc'[r] = "read" => job'[r].op \in Changes
    BY <1>1 DEF Arrives, HasRead, Creates, Changes, Updates
  <2>3. /\ job'[r].op = "delete" => job'[r].id \notin prospectIndex'
        /\ job'[r].op \in Updates => job'[r].expected > 0
    BY <1>1 DEF Arrives, Creates, Changes, Updates, Expectable
  <2> QED
    BY <2>1, <2>2, <2>3 DEF Reads
<1> QED
  BY <1>0, <1>2, <1>6, <1>7 DEF IInv

LEMMA ReadsIInv ==
  ASSUME IInv, NEW r \in Request,
         \/ ReadDocument(r) \/ NotFound(r) \/ CheckDuplicate(r) \/ DuplicateFound(r)
         \/ Rejected(r)
  PROVE  IInv'
<1>0. TypeOK'
  BY ReadsTypes, FinishTypes DEF Rejected, IInv, TypeOK
<1>1. UNCHANGED <<store, born>> /\ Busy(r)
  BY DEF ReadDocument, NotFound, CheckDuplicate, DuplicateFound, Rejected, Busy
<1>2. OneIndexRow'
  BY <1>1 DEF IInv, OneIndexRow
<1>3. CASE ReadDocument(r)
  <2>1. /\ job' = job /\ pc'[r] \in {"check", "write"} /\ base'[r] = version[job[r].id]
        /\ version[job[r].id] > 0 /\ job[r].op \in Changes
        /\ \A s \in Request \ {r} : pc'[s] = pc[s] /\ base'[s] = base[s]
    BY <1>3 DEF ReadDocument, IInv, TypeOK, Reads
  <2>2. Births'
    BY <1>1, <2>1 DEF IInv, Births, Busy, Creating, Changes, Creates, Updates
  <2>3. Reads'
    BY <1>1, <2>1 DEF IInv, Reads, Busy, Creating, HasRead, Changes, Creates, Updates
  <2> QED
    BY <1>0, <1>2, <2>2, <2>3 DEF IInv
<1>4. CASE CheckDuplicate(r)
  <2>1. /\ job' = job /\ base' = base /\ pc[r] = "check" /\ pc'[r] = "write"
        /\ \A s \in Request \ {r} : pc'[s] = pc[s]
    BY <1>4 DEF CheckDuplicate, IInv, TypeOK
  <2>2. Births'
    BY <1>1, <2>1 DEF IInv, Births, Busy, Creating
  <2>3. Reads'
    BY <1>1, <2>1 DEF IInv, Reads, Busy, Creating, HasRead
  <2> QED
    BY <1>0, <1>2, <2>2, <2>3 DEF IInv
<1>5. CASE NotFound(r) \/ DuplicateFound(r) \/ Rejected(r)
  <2>1. /\ pc'[r] = "idle" /\ base'[r] = 0
        /\ \A s \in Request \ {r} : pc'[s] = pc[s] /\ job'[s] = job[s] /\ base'[s] = base[s]
    BY <1>5 DEF NotFound, DuplicateFound, Rejected, Finish, IInv, TypeOK
  <2>2. Births'
    BY <1>1, <2>1 DEF IInv, Births, Busy, Creating
  <2>3. Reads'
    BY <1>1, <2>1 DEF IInv, Reads, Busy, Creating, HasRead
  <2> QED
    BY <1>0, <1>2, <2>2, <2>3 DEF IInv
<1> QED
  BY <1>3, <1>4, <1>5

LEMMA NextIInv == IInv /\ [Next]_vars => IInv'
<1> SUFFICES ASSUME IInv, [Next]_vars PROVE IInv'
  OBVIOUS
<1>1. CASE UNCHANGED vars
  BY <1>1 DEF vars, IInv, TypeOK, OneIndexRow, Births, Reads, Busy, Creating, HasRead
<1>2. CASE Next
  BY <1>2, AskSummary, AskIInv, ReadsIInv, WritesIInv DEF Next, Asks, Writes
<1> QED
  BY <1>1, <1>2

LEMMA Inductive == Spec => []IInv
BY InitIInv, NextIInv, PTL DEF Spec

-----------------------------------------------------------------------------
(* Callers that only name versions they have seen                            *)

\* A write that passes the compare-and-set replaces the version it read.
LEMMA WritesWhatWasRead ==
  ASSUME IInv, NeverNewer, NEW r \in Request, HasRead(r), job[r].id \in Id,
         version[job[r].id] = expected(r), version[job[r].id] > 0
  PROVE  base[r] = version[job[r].id]
<1>1. base[r] \in Nat /\ version[job[r].id] \in Nat /\ Busy(r)
  BY DEF IInv, TypeOK, HasRead, Busy
<1>2. CASE job[r].op \in Updates
  <2>1. job[r].expected \in Nat
    BY DEF IInv, TypeOK, Job
  <2> QED
    BY <1>1, <1>2, <2>1 DEF NeverNewer, expected, Updates
<1>3. CASE job[r].op \notin Updates
  BY <1>3 DEF expected, Updates
<1> QED
  BY <1>2, <1>3

LEMMA AskNeverNewer ==
  ASSUME Ahead = 0, IInv, NeverNewer, NEW r \in Request,
         NEW j \in Job, NEW next \in {"read", "check", "write"}, Arrives(r, j, next)
  PROVE  NeverNewer'
<1>1. /\ UNCHANGED <<version, base>>
      /\ pc'[r] = next /\ job'[r] = j
      /\ \A s \in Request \ {r} : pc'[s] = pc[s] /\ job'[s] = job[s]
  BY DEF Arrives, Ask, IInv, TypeOK
<1>2. ~HasRead(r)'
  BY <1>1 DEF Arrives, HasRead, Creates, Changes, Updates
<1>3. j.op \in Updates => j.expected <= version[j.id]
  <2>1. ASSUME j.op \in Updates PROVE j.expected \in 1..version[j.id]
    BY <2>1 DEF Arrives, Creates, Updates, Expectable, IInv, TypeOK
  <2> QED
    BY <2>1 DEF IInv, TypeOK
<1> QED
  BY <1>1, <1>2, <1>3 DEF NeverNewer, Busy, HasRead

LEMMA ReadNeverNewer ==
  ASSUME IInv, NeverNewer, NEW r \in Request,
         \/ ReadDocument(r) \/ NotFound(r) \/ CheckDuplicate(r) \/ DuplicateFound(r)
         \/ Rejected(r)
  PROVE  NeverNewer'
<1>1. UNCHANGED version /\ Busy(r) /\ job[r] \in Job /\ job[r].id \in Id
  BY HasTarget DEF ReadDocument, NotFound, CheckDuplicate, DuplicateFound, Rejected, Busy
<1>2. CASE ReadDocument(r)
  <2>1. /\ job' = job /\ base'[r] = version[job[r].id] /\ version[job[r].id] > 0
        /\ \A s \in Request \ {r} : pc'[s] = pc[s] /\ base'[s] = base[s]
    BY <1>2 DEF ReadDocument, IInv, TypeOK
  <2>2. job[r].op \in Updates => job[r].expected <= base'[r]
    BY <1>1, <2>1 DEF NeverNewer
  <2>3. base'[r] <= version[job[r].id]
    BY <1>1, <2>1 DEF IInv, TypeOK
  <2> QED
    BY <1>1, <2>1, <2>2, <2>3 DEF NeverNewer, Busy, HasRead
<1>3. CASE CheckDuplicate(r)
  <2>1. /\ job' = job /\ base' = base /\ pc[r] = "check"
        /\ \A s \in Request \ {r} : pc'[s] = pc[s]
    BY <1>3 DEF CheckDuplicate, IInv, TypeOK
  <2> QED
    BY <1>1, <2>1 DEF NeverNewer, Busy, HasRead
<1>4. CASE NotFound(r) \/ DuplicateFound(r) \/ Rejected(r)
  <2>1. /\ pc'[r] = "idle"
        /\ \A s \in Request \ {r} : pc'[s] = pc[s] /\ job'[s] = job[s] /\ base'[s] = base[s]
    BY <1>4 DEF NotFound, DuplicateFound, Rejected, Finish, IInv, TypeOK
  <2> QED
    BY <1>1, <2>1 DEF NeverNewer, Busy, HasRead
<1> QED
  BY <1>2, <1>3, <1>4

LEMMA WriteNeverNewer ==
  ASSUME IInv, NeverNewer, NEW r \in Request, Writes(r)
  PROVE  NeverNewer'
<1>1. /\ ~Busy(r)' /\ ~HasRead(r)' /\ job[r].id \in Id
      /\ \A s \in Request \ {r} : pc'[s] = pc[s] /\ job'[s] = job[s] /\ base'[s] = base[s]
  BY WriteSummary DEF IInv, TypeOK, Busy, HasRead
<1>2. \A s \in Request \ {r} : Busy(s) => ~Creating(r) \/ job[s].id # job[r].id
  BY DEF IInv, Births
<1>3. \/ version'[job[r].id] = 0
      \/ version'[job[r].id] = version[job[r].id] + 1
  <2>1. CASE version' = [version EXCEPT ![job[r].id] = 0]
    BY <1>1, <2>1 DEF IInv, TypeOK
  <2>2. CASE Creating(r) /\ version' = [version EXCEPT ![job[r].id] = base[r] + 1]
    BY <1>1, <2>2 DEF IInv, TypeOK, Births, Reads
  <2>3. CASE /\ HasRead(r) /\ version[job[r].id] = expected(r) /\ version[job[r].id] > 0
             /\ version' = [version EXCEPT ![job[r].id] = base[r] + 1]
    BY <1>1, <2>3, WritesWhatWasRead DEF IInv, TypeOK
  <2> QED
    BY <2>1, <2>2, <2>3, WriteSummary
<1>4. \A id \in Id \ {job[r].id} : version'[id] = version[id]
  BY WriteSummary DEF IInv, TypeOK
<1>5. ~Creating(r) => version[job[r].id] > 0 \/ version'[job[r].id] = 0
  <2>1. CASE version' = [version EXCEPT ![job[r].id] = 0]
    BY <1>1, <2>1 DEF IInv, TypeOK
  <2> QED
    BY <2>1, WriteSummary
<1>6. ASSUME NEW s \in Request \ {r}, Busy(s), version'[job[s].id] > 0
      PROVE  version[job[s].id] > 0 /\ version[job[s].id] <= version'[job[s].id]
  <2>1. job[s].id \in Id /\ version[job[s].id] \in Nat /\ version'[job[s].id] \in Nat
    BY <1>6, HasTarget, WritesIInv DEF IInv, TypeOK
  <2>2. CASE job[s].id = job[r].id
    BY <1>2, <1>3, <1>5, <1>6, <2>1, <2>2
  <2>3. CASE job[s].id # job[r].id
    BY <1>4, <1>6, <2>1, <2>3
  <2> QED
    BY <2>2, <2>3
<1>7. ASSUME NEW s \in Request
      PROVE  /\ Busy(s)' /\ job'[s].op \in Updates /\ version'[job'[s].id] > 0 =>
                  job'[s].expected <= version'[job'[s].id]
             /\ HasRead(s)' /\ version'[job'[s].id] > 0 => base'[s] <= version'[job'[s].id]
             /\ HasRead(s)' /\ job'[s].op \in Updates => job'[s].expected <= base'[s]
  <2>1. CASE s = r
    BY <1>1, <2>1
  <2>2. CASE s # r
    <3>1. /\ pc'[s] = pc[s] /\ job'[s] = job[s] /\ base'[s] = base[s] /\ base[s] \in Nat
          /\ HasRead(s) => Busy(s)
      BY <1>1, <2>2 DEF IInv, TypeOK, HasRead, Busy
    <3>2. ASSUME Busy(s), version'[job[s].id] > 0
          PROVE  /\ job[s] \in Job /\ version[job[s].id] \in Nat /\ version'[job[s].id] \in Nat
                 /\ version[job[s].id] > 0 /\ version[job[s].id] <= version'[job[s].id]
      BY <1>6, <2>2, <3>2, HasTarget, WritesIInv DEF IInv, TypeOK
    <3>3. ASSUME Busy(s), job[s].op \in Updates, version'[job[s].id] > 0
          PROVE  job[s].expected <= version'[job[s].id]
      BY <3>2, <3>3 DEF NeverNewer, Job
    <3>4. ASSUME HasRead(s), version'[job[s].id] > 0
          PROVE  base[s] <= version'[job[s].id]
      BY <3>1, <3>2, <3>4 DEF NeverNewer
    <3>5. HasRead(s) /\ job[s].op \in Updates => job[s].expected <= base[s]
      BY DEF NeverNewer
    <3> QED
      BY <3>1, <3>3, <3>4, <3>5 DEF Busy, HasRead
  <2> QED
    BY <2>1, <2>2
<1> QED
  BY <1>7 DEF NeverNewer

LEMMA NextNeverNewer ==
  ASSUME Ahead = 0
  PROVE  IInv /\ NeverNewer /\ [Next]_vars => NeverNewer'
<1> SUFFICES ASSUME IInv, NeverNewer, [Next]_vars PROVE NeverNewer'
  OBVIOUS
<1>1. CASE UNCHANGED vars
  BY <1>1 DEF vars, NeverNewer, Busy, HasRead
<1>2. CASE Next
  <2>1. PICK r \in Request :
          \/ Asks(r) \/ Writes(r)
          \/ ReadDocument(r) \/ NotFound(r) \/ CheckDuplicate(r) \/ DuplicateFound(r)
          \/ Rejected(r)
    BY <1>2 DEF Next, Asks, Writes
  <2>2. CASE Asks(r)
    BY <2>2, AskSummary, AskNeverNewer
  <2>3. CASE Writes(r)
    BY <2>3, WriteNeverNewer
  <2>4. CASE ~Asks(r) /\ ~Writes(r)
    BY <2>1, <2>4, ReadNeverNewer
  <2> QED
    BY <2>2, <2>3, <2>4
<1> QED
  BY <1>1, <1>2

LEMMA AlwaysNeverNewer ==
  ASSUME Ahead = 0
  PROVE  Spec => []NeverNewer
<1>1. Init => NeverNewer
  BY DEF Init, NeverNewer, Busy, HasRead
<1>2. IInv /\ NeverNewer /\ [Next]_vars => NeverNewer'
  BY NextNeverNewer
<1> QED
  BY <1>1, <1>2, Inductive, PTL DEF Spec

-----------------------------------------------------------------------------
(* What follows                                                              *)

\* Type correctness.
THEOREM TypeCorrect == Spec => []TypeOK
<1>1. IInv => TypeOK
  BY DEF IInv
<1> QED
  BY <1>1, Inductive, PTL

\* Whatever requests run together and however far ahead callers guess, every
\* document keeps exactly one index row, and every index row its document.
THEOREM RecordsAreIndexedOnce == Spec => []OneIndexRow
<1>1. IInv => OneIndexRow
  BY DEF IInv
<1> QED
  BY <1>1, Inductive, PTL

\* A step that is no write leaves the records alone.
LEMMA OthersLeaveStore ==
  ASSUME NEW r \in Request,
         \/ Asks(r) \/ ReadDocument(r) \/ NotFound(r) \/ CheckDuplicate(r)
         \/ DuplicateFound(r) \/ Rejected(r)
  PROVE  UNCHANGED store
<1>1. CASE Asks(r)
  BY <1>1 DEF Asks, createEntity, createProspect, update, promoteProspect, mergeEntity, delete, Ask
<1>2. CASE ReadDocument(r) \/ NotFound(r) \/ CheckDuplicate(r) \/ DuplicateFound(r) \/ Rejected(r)
  BY <1>2 DEF ReadDocument, NotFound, CheckDuplicate, DuplicateFound, Rejected
<1> QED
  BY <1>1, <1>2

\* What the writes do to a store of versions, if nobody guesses ahead.
LEMMA WriteStores ==
  ASSUME IInv, NeverNewer, NEW r \in Request, Writes(r)
  PROVE  \/ /\ version' = [version EXCEPT ![job[r].id] = version[job[r].id] + 1]
            /\ enqueued' = enqueued \union {<<job[r].id, version[job[r].id] + 1>>}
            /\ from' = [from EXCEPT ![job[r].id] = version[job[r].id]]
            /\ version[job[r].id] = 0 => \A row \in enqueued : row[1] # job[r].id
         \/ /\ version' = [version EXCEPT ![job[r].id] = 0]
            /\ enqueued' = enqueued
<1>1. job[r].id \in Id
  BY WriteSummary
<1>2. CASE Creating(r)
  <2>1. base[r] = version[job[r].id] /\ \A row \in enqueued : row[1] # job[r].id
    BY <1>2 DEF IInv, Births, Reads
  <2> QED
    BY <2>1, WriteSummary
<1>3. CASE HasRead(r) /\ version[job[r].id] = expected(r) /\ version[job[r].id] > 0
  <2>1. base[r] = version[job[r].id] /\ version[job[r].id] # 0
    BY <1>1, <1>3, WritesWhatWasRead DEF IInv, TypeOK
  <2> QED
    BY <2>1, WriteSummary
<1> QED
  BY <1>2, <1>3, WriteSummary

\* For any number of requests, if callers only name versions they have seen:
\* each committed version was computed from the one before it.
THEOREM NoUpdateIsLost == ASSUME Ahead = 0 PROVE Spec => NoLostUpdate
<1> DEFINE Kept ==
      \A id \in Id :
        version'[id] > 0 /\ <<version'[id], details'[id]>> # <<version[id], details[id]>> =>
          from'[id] = version[id] /\ version'[id] = version[id] + 1
<1>1. IInv /\ NeverNewer /\ [Next]_vars => [Kept]_vars
  <2> SUFFICES ASSUME IInv, NeverNewer, Next PROVE Kept
    OBVIOUS
  <2>1. ASSUME NEW r \in Request, Writes(r) PROVE Kept
    <3>1. \A id \in Id \ {job[r].id} : version'[id] = version[id] /\ details'[id] = details[id]
      BY <2>1, WriteSummary DEF IInv, TypeOK
    <3>2. job[r].id \in Id /\ version[job[r].id] \in Nat
      BY <2>1, WriteSummary DEF IInv, TypeOK
    <3>3. version'[job[r].id] > 0 =>
            from'[job[r].id] = version[job[r].id] /\ version'[job[r].id] = version[job[r].id] + 1
      BY <2>1, <3>2, WriteStores DEF IInv, TypeOK
    <3> QED
      BY <3>1, <3>2, <3>3
  <2>2. ASSUME UNCHANGED store PROVE Kept
    BY <2>2
  <2> QED
    BY <2>1, <2>2, OthersLeaveStore DEF Next, Asks, Writes
<1> QED
  BY <1>1, Inductive, AlwaysNeverNewer, PTL DEF Spec, NoLostUpdate

\* And then records are a versioned store: an id is used once, versions count
\* up by one, and each has its outbox row.
THEOREM RecordsImplementStore == ASSUME Ahead = 0 PROVE Spec => ImplementsStore
<1>1. Init => Store!Init
  BY DEF Init, Store!Init
<1>2. IInv /\ NeverNewer /\ [Next]_vars => [Store!Next]_(Store!vars)
  <2> SUFFICES ASSUME IInv, NeverNewer, [Next]_vars PROVE [Store!Next]_(Store!vars)
    OBVIOUS
  <2>1. ASSUME NEW r \in Request, Writes(r)
        PROVE  [Store!Next]_(Store!vars)
    <3>1. job[r].id \in Id /\ version[job[r].id] \in Nat
      BY <2>1, WriteSummary DEF IInv, TypeOK
    <3>2. CASE /\ version' = [version EXCEPT ![job[r].id] = version[job[r].id] + 1]
               /\ enqueued' = enqueued \union {<<job[r].id, version[job[r].id] + 1>>}
               /\ version[job[r].id] = 0 => \A row \in enqueued : row[1] # job[r].id
      <4>1. Store!Commit(job[r].id)
        BY <3>2 DEF Store!Commit
      <4> QED
        BY <3>1, <4>1 DEF Store!Next
    <3>3. CASE version' = [version EXCEPT ![job[r].id] = 0] /\ enqueued' = enqueued
      <4>1. CASE version[job[r].id] = 0
        BY <3>1, <3>3, <4>1 DEF Store!vars, IInv, TypeOK
      <4>2. CASE version[job[r].id] > 0
        <5>1. Store!Remove(job[r].id)
          BY <3>3, <4>2 DEF Store!Remove
        <5> QED
          BY <3>1, <5>1 DEF Store!Next
      <4> QED
        BY <3>1, <4>1, <4>2
    <3> QED
      BY <2>1, <3>2, <3>3, WriteStores
  <2>2. CASE UNCHANGED store
    BY <2>2 DEF Store!vars
  <2> QED
    BY <2>1, <2>2, OthersLeaveStore DEF Next, Asks, Writes, vars
<1> QED
  BY <1>1, <1>2, Inductive, AlwaysNeverNewer, PTL DEF Spec, ImplementsStore, Store!Spec

-----------------------------------------------------------------------------
(* Legal documents.  Every write forgets all checks (cleared), so a request  *)
(* whose check still counts writes to the index that it checked (Checks);    *)
(* the index agrees with the documents (KeysAgree); and what a promotion or  *)
(* a merge copies from a document of the same version is still its key       *)
(* (ReadKeys), which is why nobody may guess versions ahead here.            *)

NobodyElse(r) ==
  \A id \in entityIndex \ {job[r].id} : draft[r].key = NoKey \/ entityKey[id] # draft[r].key

Checks ==
  /\ \A r \in Request : pc[r] = "check" => job[r].op # "updateProspect"
  /\ \A r \in cleared :
       \/ pc[r] = "idle"
       \/ /\ pc[r] = "write" /\ job[r].op # "updateProspect"
          /\ NobodyElse(r)

KeysAgree == \A id \in entityIndex \ unchecked : entityKey[id] = details[id].key

ReadKeys ==
  \A r \in Request :
    HasRead(r) /\ job[r].op \in {"promote", "merge"} /\ version[job[r].id] = base[r] =>
      draft[r].key = details[job[r].id].key

Documented == Checks /\ KeysAgree /\ ReadKeys /\ DuplicatesAreUnchecked

LEMMA AskDocumented ==
  ASSUME IInv, Documented, NEW r \in Request, Asks(r)
  PROVE  Documented'
<1>1. \A s \in Request \ {r} : draft'[s] = draft[s]
  BY DEF Asks, createEntity, createProspect, update, promoteProspect, mergeEntity, delete,
         IInv, TypeOK
<1>2. PICK j \in Job, next \in {"read", "check", "write"} : Arrives(r, j, next)
  BY AskSummary
<1>3. /\ pc'[r] = next /\ job'[r] = j /\ UNCHANGED <<store, base, unchecked>> /\ cleared' = cleared \ {r}
      /\ \A s \in Request \ {r} : pc'[s] = pc[s] /\ job'[s] = job[s]
  BY <1>2 DEF Arrives, Ask, IInv, TypeOK
<1>4. ~HasRead(r)' /\ (pc'[r] = "check" => job'[r].op # "updateProspect")
  BY <1>2, <1>3 DEF Arrives, HasRead, Creates, Changes, Updates
<1>5. Checks'
  BY <1>1, <1>3, <1>4 DEF Documented, Checks, NobodyElse, IInv, TypeOK
<1>6. ReadKeys'
  BY <1>1, <1>3, <1>4 DEF Documented, ReadKeys, HasRead
<1>7. KeysAgree' /\ DuplicatesAreUnchecked'
  BY <1>3 DEF Documented, KeysAgree, DuplicatesAreUnchecked
<1> QED
  BY <1>5, <1>6, <1>7 DEF Documented

LEMMA ReadDocumented ==
  ASSUME IInv, Documented, NEW r \in Request,
         \/ ReadDocument(r) \/ NotFound(r) \/ CheckDuplicate(r) \/ DuplicateFound(r)
         \/ Rejected(r)
  PROVE  Documented'
<1>1. UNCHANGED <<store, unchecked>>
  BY DEF ReadDocument, NotFound, CheckDuplicate, DuplicateFound, Rejected
<1>2. KeysAgree' /\ DuplicatesAreUnchecked'
  BY <1>1 DEF Documented, KeysAgree, DuplicatesAreUnchecked
<1>3. CASE ReadDocument(r)
  <2>1. /\ pc[r] = "read" /\ job' = job /\ cleared' = cleared
        /\ draft'[r] = applyPatch(details[job[r].id], job[r])
        /\ pc'[r] = IF job[r].op \in {"updateEntity", "promote"} THEN "check" ELSE "write"
        /\ \A s \in Request \ {r} : pc'[s] = pc[s] /\ base'[s] = base[s] /\ draft'[s] = draft[s]
    BY <1>3 DEF ReadDocument, IInv, TypeOK
  <2>2. r \notin cleared /\ cleared \subseteq Request
    BY <2>1 DEF Documented, Checks, IInv, TypeOK
  <2>3. Checks'
    BY <1>1, <2>1, <2>2 DEF Documented, Checks, NobodyElse
  <2>4. job[r].op \in {"promote", "merge"} => draft'[r] = details[job[r].id]
    BY <2>1 DEF applyPatch
  <2>5. ReadKeys'
    BY <1>1, <2>1, <2>4 DEF Documented, ReadKeys, HasRead
  <2> QED
    BY <1>2, <2>3, <2>5 DEF Documented
<1>4. CASE CheckDuplicate(r)
  <2>1. /\ pc[r] = "check" /\ pc'[r] = "write" /\ UNCHANGED <<job, base, draft>>
        /\ cleared' = IF findEntityByDocument(draft[r].key) \subseteq {job[r].id}
                      THEN cleared \union {r} ELSE cleared \ {r}
        /\ \A s \in Request \ {r} : pc'[s] = pc[s]
    BY <1>4 DEF CheckDuplicate, IInv, TypeOK
  <2>2. findEntityByDocument(draft[r].key) \subseteq {job[r].id} => NobodyElse(r)
    BY DEF findEntityByDocument, NobodyElse
  <2>3. Checks'
    BY <1>1, <2>1, <2>2 DEF Documented, Checks, NobodyElse, IInv, TypeOK
  <2>4. ReadKeys'
    BY <1>1, <2>1 DEF Documented, ReadKeys, HasRead
  <2> QED
    BY <1>2, <2>3, <2>4 DEF Documented
<1>5. CASE NotFound(r) \/ DuplicateFound(r) \/ Rejected(r)
  <2>1. /\ pc'[r] = "idle" /\ cleared' = cleared /\ cleared \subseteq Request
        /\ \A s \in Request \ {r} :
             pc'[s] = pc[s] /\ job'[s] = job[s] /\ base'[s] = base[s] /\ draft'[s] = draft[s]
    BY <1>5 DEF NotFound, DuplicateFound, Rejected, Finish, IInv, TypeOK
  <2>2. Checks'
    BY <1>1, <2>1 DEF Documented, Checks, NobodyElse
  <2>3. ReadKeys'
    BY <1>1, <2>1 DEF Documented, ReadKeys, HasRead
  <2> QED
    BY <1>2, <2>2, <2>3 DEF Documented
<1> QED
  BY <1>3, <1>4, <1>5

\* A write changes the key of its own record only, and then to one that its check
\* has found free, unless the record joins the unchecked ones.
LEMMA WriteKeys ==
  ASSUME IInv, NeverNewer, Documented, NEW r \in Request, Writes(r)
  PROVE  /\ pc[r] = "write" /\ cleared' = {}
         /\ \A id \in Id \ {job[r].id} :
              /\ entityKey'[id] = entityKey[id]
              /\ id \in entityIndex' <=> id \in entityIndex
              /\ id \in unchecked' <=> id \in unchecked
         /\ job[r].id \in entityIndex' \ unchecked' =>
              /\ entityKey'[job[r].id] = details'[job[r].id].key
              /\ \/ /\ job[r].id \in entityIndex \ unchecked
                    /\ entityKey'[job[r].id] = entityKey[job[r].id]
                 \/ r \in cleared /\ entityKey'[job[r].id] = draft[r].key
<1>1. /\ pc[r] = "write" /\ cleared' = {} /\ job[r].id \in Id /\ draft[r] \in Details
      /\ \A id \in Id \ {job[r].id} : id \in unchecked' <=> id \in unchecked
  BY WriteSummary DEF Writes, WriteNew, WriteEntity, WriteProspect, WritePromotion, MayWrite,
         WritePendingMerge, WriteMerge, WriteDelete, Settle, IInv, TypeOK
<1>2. \A id \in Id \ {job[r].id} :
        entityKey'[id] = entityKey[id] /\ (id \in entityIndex' <=> id \in entityIndex)
  BY <1>1 DEF Writes, WriteNew, WriteEntity, WriteProspect, WritePromotion, UpdateEntityIndex,
         WritePendingMerge, WriteMerge, WriteDelete, IInv, TypeOK
<1>3. ASSUME job[r].id \in entityIndex' \ unchecked'
      PROVE  /\ entityKey'[job[r].id] = details'[job[r].id].key
             /\ \/ /\ job[r].id \in entityIndex \ unchecked
                   /\ entityKey'[job[r].id] = entityKey[job[r].id]
                \/ r \in cleared /\ entityKey'[job[r].id] = draft[r].key
  <2>1. CASE WriteNew(r)
    <3>1. version[job[r].id] = 0
      BY <2>1 DEF WriteNew, IInv, Births, Creating, Busy, Creates
    <3>2. job[r].id \notin entityIndex
      BY <1>1, <3>1 DEF IInv, OneIndexRow
    <3> QED
      BY <1>1, <1>3, <2>1, <3>2 DEF WriteNew, Put, Settle, IInv, TypeOK
  <2>2. CASE WriteEntity(r)
    BY <1>1, <1>3, <2>2 DEF WriteEntity, UpdateEntityIndex, Put, Settle, IInv, TypeOK
  <2>3. CASE WriteProspect(r)
    <3>1. r \notin cleared
      BY <1>1, <2>3 DEF WriteProspect, MayWrite, Documented, Checks
    <3> QED
      BY <1>3, <2>3, <3>1 DEF WriteProspect, Settle
  <2>4. CASE WritePromotion(r)
    <3>1. details'[job[r].id].key = draft[r].key
      BY <1>1, <2>4 DEF WritePromotion, Put, IInv, TypeOK, Details
    <3> QED
      BY <1>1, <1>3, <2>4, <3>1 DEF WritePromotion, Settle, IInv, TypeOK
  <2>5. CASE WritePendingMerge(r) \/ WriteMerge(r)
    <3>1. /\ job[r].op \in {"promote", "merge"} /\ VersionMatches(r)
          /\ entityIndex' = entityIndex /\ unchecked' = unchecked
      BY <2>5 DEF WritePendingMerge, WriteMerge, MayWrite
    <3>2. details'[job[r].id].key = draft[r].key
      <4>1. CASE WritePendingMerge(r)
        BY <1>1, <4>1 DEF WritePendingMerge, Put, IInv, TypeOK, Details
      <4>2. CASE WriteMerge(r)
        BY <1>1, <4>2 DEF WriteMerge, Put, IInv, TypeOK, Details
      <4> QED
        BY <2>5, <4>1, <4>2
    <3>3. version[job[r].id] = base[r] /\ HasRead(r)
      BY <1>1, <3>1 DEF VersionMatches, expected, HasRead, Changes
    <3>4. draft[r].key = details[job[r].id].key
      BY <3>1, <3>3 DEF Documented, ReadKeys
    <3>5. entityKey[job[r].id] = details[job[r].id].key
      BY <1>3, <3>1 DEF Documented, KeysAgree
    <3>6. entityKey'[job[r].id] \in {draft[r].key, entityKey[job[r].id]}
      BY <1>1, <2>5 DEF WritePendingMerge, WriteMerge, UpdateEntityIndex, IInv, TypeOK
    <3> QED
      BY <1>3, <3>1, <3>2, <3>4, <3>5, <3>6
  <2>6. CASE WriteDelete(r)
    BY <1>3, <2>6 DEF WriteDelete
  <2> QED
    BY <2>1, <2>2, <2>3, <2>4, <2>5, <2>6 DEF Writes
<1> QED
  BY <1>1, <1>2, <1>3

LEMMA WriteDocumented ==
  ASSUME IInv, NeverNewer, Documented, NEW r \in Request, Writes(r)
  PROVE  Documented'
<1>1. /\ job[r].id \in Id /\ pc'[r] = "idle" /\ pc[r] = "write" /\ cleared' = {}
      /\ \A s \in Request \ {r} : pc'[s] = pc[s] /\ job'[s] = job[s] /\ base'[s] = base[s]
  BY WriteSummary, WriteKeys DEF IInv, TypeOK
<1>2. \A s \in Request \ {r} : draft'[s] = draft[s]
  BY DEF Writes, WriteNew, WriteEntity, WriteProspect, WritePromotion, WritePendingMerge,
         WriteMerge, WriteDelete, Settle, Finish, IInv, TypeOK
<1>3. /\ entityIndex \subseteq Id /\ entityIndex' \subseteq Id
  BY WritesTypes DEF IInv, TypeOK
<1>4. Checks'
  BY <1>1 DEF Documented, Checks
<1>5. KeysAgree'
  <2>1. ASSUME NEW id \in entityIndex' \ unchecked', id # job[r].id
        PROVE  entityKey'[id] = details'[id].key
    BY <1>3, <2>1, WriteKeys, WriteSummary DEF Documented, KeysAgree
  <2> QED
    BY <2>1, WriteKeys DEF KeysAgree
<1>6. DuplicatesAreUnchecked'
  <2>1. ASSUME NEW a \in entityIndex' \ unchecked', NEW b \in entityIndex' \ unchecked',
               a # b, b # job[r].id, entityKey'[a] # NoKey
        PROVE  entityKey'[a] # entityKey'[b]
    <3>1. b \in entityIndex \ unchecked /\ entityKey'[b] = entityKey[b] /\ b \in Id /\ a \in Id
      BY <1>3, <2>1, WriteKeys
    <3>2. CASE a \in entityIndex \ unchecked /\ entityKey'[a] = entityKey[a]
      BY <2>1, <3>1, <3>2 DEF Documented, DuplicatesAreUnchecked
    <3>3. CASE a = job[r].id /\ r \in cleared /\ entityKey'[a] = draft[r].key
      <4>1. NobodyElse(r)
        BY <1>1, <3>3 DEF Documented, Checks
      <4> QED
        BY <2>1, <3>1, <3>3, <4>1 DEF NobodyElse
    <3> QED
      BY <2>1, <3>1, <3>2, <3>3, WriteKeys
  <2> QED
    BY <2>1 DEF DuplicatesAreUnchecked
<1>7. ReadKeys'
  <2>1. SUFFICES ASSUME NEW s \in Request \ {r}, HasRead(s), job[s].op \in {"promote", "merge"},
                        version'[job[s].id] = base[s]
                 PROVE  draft[s].key = details'[job[s].id].key
    BY <1>1, <1>2 DEF ReadKeys, HasRead
  <2>2. Busy(s) /\ base[s] > 0 /\ base[s] \in Nat /\ job[s].id \in Id
    BY <2>1, HasTarget DEF IInv, Reads, TypeOK, HasRead, Busy
  <2>3. job[s].id # job[r].id
    <3>1. SUFFICES ASSUME job[s].id = job[r].id PROVE FALSE
      OBVIOUS
    <3>2. ~Creating(r)
      BY <2>2, <3>1 DEF IInv, Births
    <3>3. version'[job[r].id] = version[job[r].id] + 1 /\ version[job[r].id] > 0
      BY <1>1, <2>1, <2>2, <3>1, <3>2, WriteStores, WriteSummary DEF IInv, TypeOK
    <3> QED
      BY <1>1, <2>1, <2>2, <3>1, <3>3 DEF NeverNewer, IInv, TypeOK
  <2>4. version'[job[s].id] = version[job[s].id] /\ details'[job[s].id] = details[job[s].id]
    BY <2>2, <2>3, WriteSummary DEF IInv, TypeOK
  <2> QED
    BY <2>1, <2>4 DEF Documented, ReadKeys
<1> QED
  BY <1>4, <1>5, <1>6, <1>7 DEF Documented

\* If callers only name versions they have seen, two permanent records share a legal
\* document only if a check was skipped, told of the other, or overtaken.
THEOREM CheckedDocumentsDiffer == ASSUME Ahead = 0 PROVE Spec => []DuplicatesAreUnchecked
<1>1. Init => Documented
  BY DEF Init, Documented, Checks, KeysAgree, ReadKeys, DuplicatesAreUnchecked, HasRead
<1>2. IInv /\ NeverNewer /\ Documented /\ [Next]_vars => Documented'
  <2> SUFFICES ASSUME IInv, NeverNewer, Documented, [Next]_vars PROVE Documented'
    OBVIOUS
  <2>1. CASE UNCHANGED vars
    BY <2>1 DEF vars, Documented, Checks, NobodyElse, KeysAgree, ReadKeys, HasRead,
                DuplicatesAreUnchecked
  <2>2. CASE Next
    BY <2>2, AskDocumented, ReadDocumented, WriteDocumented DEF Next, Asks, Writes
  <2> QED
    BY <2>1, <2>2
<1>3. Documented => DuplicatesAreUnchecked
  BY DEF Documented
<1> QED
  BY <1>1, <1>2, <1>3, Inductive, AlwaysNeverNewer, PTL DEF Spec

HIDE ConstantsAssumption DEF store, inflight, ghosts

-----------------------------------------------------------------------------
(* Registration: the state of a call and of the tables                      *)

Section == {"find", "candidates", "reserve", "draft", "taken", "write", "attach", "reconcile",
            "decide", "mark", "commit"}
Locking(c) == call[c].kind \in {"register", "resolve"}

\* A call in the transaction of a registration or of a decision.
Inside(c) == at[c] \in Section /\ Locking(c)

RequestRecord == [status : {"pending", "resolved"}, reserved : Person, candidates : SUBSET Person,
                  decision : {"none", "create-new", "use-existing"}, person : Person \union {None}]

Row == ({"login"} \X Person \X Email) \union ({"reserved"} \X Email \X Person)
         \union ({"person"} \X Person \X (Email \union {None})) \union ({"member"} \X Person \X Org)
         \union ({"request"} \X Org \X Email \X RequestRecord)

CallRecord == [kind : {"none", "register", "resolve", "setLogin", "lookup"}, email : Email \union {None},
               org : Org \union {None}, decision : {"none", "create-new", "use-existing"},
               person : Person \union {None}]

\* Whatever the rows are made of.
Types ==
  /\ atomic \in BOOLEAN
  /\ db \subseteq Row
  /\ staged \in [Caller -> [del : SUBSET Row, add : SUBSET Row]]
  /\ lock \in [Email -> Caller \union {None}]
  /\ cache \in [Email -> Person \union {None}]
  /\ at \in [Caller -> Section \union {"idle", "lock", "cache", "answer", "read", "fill"}]
  /\ call \in [Caller -> CallRecord]
  /\ who \in [Caller -> Person \union {None}]
  /\ previous \in [Caller -> SUBSET Email] /\ taken \in [Caller -> SUBSET Person]
  /\ raced \in BOOLEAN /\ outdated \subseteq Email

\* What a call is about, by where it is.
Stands(c) ==
  /\ at[c] # "idle" => call[c].email \in Email
  /\ at[c] \in (Section \ {"taken", "write"}) \union {"lock", "answer"} => Locking(c)
  /\ at[c] \in {"taken", "write"} => Locking(c) \/ call[c].kind = "setLogin"
  /\ at[c] \in {"find", "candidates", "reconcile"} => call[c].kind = "register"
  /\ at[c] \in {"decide", "mark"} => call[c].kind = "resolve"
  /\ at[c] = "cache" => call[c].kind = "setLogin"
  /\ at[c] \in {"read", "fill"} => call[c].kind = "lookup"
  /\ Locking(c) => call[c].org \in Org
  /\ call[c].kind = "resolve" => call[c].decision # "none"
  /\ at[c] \in {"draft", "taken", "write", "attach", "reconcile", "mark", "cache", "fill"} =>
       who[c] \in Person
  /\ at[c] = "write" => taken[c] \subseteq {who[c]}

\* The lock of an e-mail is that of the call inside.
Locks ==
  \A c \in Caller, e \in Email : lock[e] = c <=> Inside(c) /\ call[c].email = e

\* The rows that say whose an e-mail will be, and what was asked and decided.
About(e) == {x \in Row : \/ x[1] = "reserved" /\ x[2] = e
                         \/ x[1] = "person" /\ x[3] = e
                         \/ x[1] = "request" /\ x[3] = e}

\* What a transaction may delete: logins, and requests that nobody resolved.
Loose == {x \in Row : \/ x[1] = "login"
                      \/ x[1] = "request" /\ x[4].status = "pending"}

\* Only a transaction of PostgreSQL holds writes back, and only of its own e-mail.
Held(c) ==
  /\ ~Inside(c) \/ ~atomic => staged[c].del = {} /\ staged[c].add = {}
  /\ staged[c].del \subseteq Loose
  /\ \A e \in Email \ {call[c].email} : (staged[c].del \union staged[c].add) \intersect About(e) = {}

\* For an e-mail there is one reservation at most, nobody else is created, and an
\* organization has one request at most.
Sound(rows, e) ==
  /\ \A p, q \in Person : Reserved(e, p) \in rows /\ Reserved(e, q) \in rows => p = q
  /\ \A p \in Person : Created(p, e) \in rows => Reserved(e, p) \in rows
  /\ \A o \in Org : \A r, s \in RequestsOf(o, e, rows) : r = s

Made(rows, o, e, decision, p) ==
  \E r \in RequestsOf(o, e, rows) : r.status = "resolved" /\ r.decision = decision /\ r.person = p

\* What a call knows of the rows it sees.
Knows(c) ==
  LET e == call[c].email
      o == call[c].org
  IN /\ Inside(c) => Sound(See(c), e)
     /\ at[c] = "draft" => Reserved(e, who[c]) \in See(c)
     /\ call[c].kind = "resolve" =>
          /\ at[c] \in {"reserve", "draft", "taken", "write", "attach", "mark"} =>
               \A r \in RequestsOf(o, e, See(c)) : r.status = "pending"
          /\ at[c] = "commit" => Made(See(c), o, e, call[c].decision, who[c])
          /\ at[c] = "answer" => Made(db, o, e, call[c].decision, who[c])

\* What was answered is in the request.
Recorded(x, rows) ==
  \E o \in Org, e \in Email, decision \in {"create-new", "use-existing"}, p \in Person \union {None} :
    x = <<o, e, decision, p>> /\ Made(rows, o, e, decision, p)

Decided == \A x \in decided : Recorded(x, db)

RowsInv ==
  /\ Types /\ Locks /\ Decided
  /\ \A c \in Caller : Stands(c) /\ Held(c) /\ Knows(c)
  /\ \A e \in Email : Sound(db, e)

Agree(rows) ==
  \A p, q \in Person, e, f \in Email : Login(p, e) \in rows /\ Login(q, f) \in rows => (p = q <=> e = f)

\* Two transactions write no login of one person or e-mail.
Apart(c, d) ==
  \A p, q \in Person, e, f \in Email :
    /\ Login(p, e) \in staged[c].del \union staged[c].add
    /\ Login(q, f) \in staged[d].del \union staged[d].add
    => p # q /\ e # f

LoginsInv ==
  ~raced => /\ Agree(db)
            /\ \A c \in Caller : Agree(See(c))
            /\ \A c, d \in Caller : c # d => Apart(c, d)

\* What a call will put into the cache is so, or is known to be old, and so are the
\* logins that a transaction takes away.
Filling(c) ==
  at[c] \in {"fill", "cache"} =>
    Login(who[c], call[c].email) \in db \/ call[c].email \in outdated \/ raced
Dropping(c) ==
  \A p \in Person, e \in Email : Login(p, e) \in staged[c].del => e \in outdated

CacheInv == (\A c \in Caller : Filling(c) /\ Dropping(c)) /\ CacheOnlyOutdated

LEMMA LoginRows ==
  ASSUME NEW p \in Person, NEW e \in Email, NEW q \in Person, NEW f \in Email
  PROVE  /\ Login(p, e) \in Row /\ Login(p, e)[1] = "login"
         /\ Login(p, e) = Login(q, f) <=> p = q /\ e = f
  BY DEF Login, Row

LEMMA ReservedRows ==
  ASSUME NEW p \in Person, NEW e \in Email, NEW q \in Person, NEW f \in Email
  PROVE  /\ Reserved(e, p) \in Row
         /\ Reserved(e, p)[1] = "reserved" /\ Reserved(e, p)[2] = e
         /\ Reserved(e, p) = Reserved(f, q) <=> p = q /\ e = f
  BY DEF Reserved, Row

LEMMA CreatedRows ==
  ASSUME NEW p \in Person, NEW e \in Email \union {None}, NEW q \in Person, NEW f \in Email \union {None}
  PROVE  /\ Created(p, e) \in Row
         /\ Created(p, e)[1] = "person" /\ Created(p, e)[3] = e
         /\ Created(p, e) = Created(q, f) <=> p = q /\ e = f
  BY DEF Created, Row

LEMMA MemberRows ==
  ASSUME NEW p \in Person, NEW o \in Org
  PROVE  Member(p, o) \in Row /\ Member(p, o)[1] = "member"
  BY DEF Member, Row

LEMMA RequestRows ==
  ASSUME NEW o \in Org, NEW e \in Email, NEW r \in RequestRecord,
         NEW m \in Org, NEW f \in Email, NEW s \in RequestRecord
  PROVE  /\ AccessRequest(o, e, r) \in Row
         /\ AccessRequest(o, e, r)[1] = "request" /\ AccessRequest(o, e, r)[3] = e
         /\ AccessRequest(o, e, r)[4] = r
         /\ AccessRequest(o, e, r) = AccessRequest(m, f, s) <=> o = m /\ e = f /\ r = s
  BY DEF AccessRequest, Row

LEMMA RequestsAreRows ==
  ASSUME NEW rows \in SUBSET Row, NEW o \in Org, NEW e \in Email
  PROVE  /\ RequestsOf(o, e, rows) \subseteq RequestRecord
         /\ \A r \in RequestRecord : r \in RequestsOf(o, e, rows) <=> AccessRequest(o, e, r) \in rows
<1>1. ASSUME NEW x \in rows, x[1] = "request", x[2] = o, x[3] = e
      PROVE  x[4] \in RequestRecord /\ x = AccessRequest(o, e, x[4])
  BY <1>1 DEF Row, AccessRequest
<1>2. ASSUME NEW r \in RequestRecord, AccessRequest(o, e, r) \in rows
      PROVE  r \in RequestsOf(o, e, rows)
  BY <1>2 DEF AccessRequest, RequestsOf
<1> QED
  BY <1>1, <1>2 DEF RequestsOf

(***************************************************************************)
(* What a set of rows says of an e-mail.                                   *)
(***************************************************************************)

LEMMA AboutRows ==
  ASSUME NEW e \in Email
  PROVE  /\ \A p \in Person : Reserved(e, p) \in About(e) /\ Created(p, e) \in About(e)
         /\ \A o \in Org, r \in RequestRecord : AccessRequest(o, e, r) \in About(e)
  BY ReservedRows, CreatedRows, RequestRows DEF About

LEMMA SameRows ==
  ASSUME NEW rows \in SUBSET Row, NEW more \in SUBSET Row, NEW e \in Email,
         rows \intersect About(e) = more \intersect About(e)
  PROVE  /\ \A p \in Person : /\ Reserved(e, p) \in rows <=> Reserved(e, p) \in more
                              /\ Created(p, e) \in rows <=> Created(p, e) \in more
         /\ \A o \in Org : RequestsOf(o, e, rows) = RequestsOf(o, e, more)
         /\ Sound(rows, e) <=> Sound(more, e)
<1>1. \A p \in Person : /\ Reserved(e, p) \in rows <=> Reserved(e, p) \in more
                        /\ Created(p, e) \in rows <=> Created(p, e) \in more
  BY AboutRows
<1>2. \A o \in Org : RequestsOf(o, e, rows) = RequestsOf(o, e, more)
  <2> TAKE o \in Org
  <2>1. RequestsOf(o, e, rows) \subseteq RequestRecord /\ RequestsOf(o, e, more) \subseteq RequestRecord
    BY RequestsAreRows
  <2>2. ASSUME NEW r \in RequestRecord
        PROVE  r \in RequestsOf(o, e, rows) <=> r \in RequestsOf(o, e, more)
    BY RequestsAreRows, AboutRows
  <2> QED
    BY <2>1, <2>2
<1> QED
  BY <1>1, <1>2 DEF Sound

\* A resolved request is never taken back.
LEMMA ResolvedStay ==
  ASSUME NEW rows \in SUBSET Row, NEW del \in SUBSET Loose, NEW add \in SUBSET Row,
         NEW o \in Org, NEW e \in Email, NEW decision, NEW p, Made(rows, o, e, decision, p)
  PROVE  Made((rows \ del) \union add, o, e, decision, p)
<1> DEFINE more == (rows \ del) \union add
<1>1. PICK r \in RequestsOf(o, e, rows) : r.status = "resolved" /\ r.decision = decision /\ r.person = p
  BY DEF Made
<1>2. r \in RequestRecord /\ AccessRequest(o, e, r) \in rows
  BY RequestsAreRows
<1>3. AccessRequest(o, e, r) \notin Loose
  BY <1>1, <1>2, RequestRows DEF Loose
<1>4. AccessRequest(o, e, r) \in more /\ more \subseteq Row
  BY <1>2, <1>3
<1>5. r \in RequestsOf(o, e, more)
  BY <1>2, <1>4, RequestsAreRows
<1> QED
  BY <1>1, <1>5 DEF Made

(***************************************************************************)
(* Transactions.                                                           *)
(***************************************************************************)

LEMMA SeesRows ==
  ASSUME Types, NEW c \in Caller
  PROVE  See(c) \subseteq Row /\ staged[c].del \subseteq Row /\ staged[c].add \subseteq Row
  BY DEF Types, See

\* A write changes what its own transaction sees, and the rows only in memory.
LEMMA WriteSees ==
  ASSUME Types, NEW c \in Caller, Held(c), atomic' = atomic,
         NEW del \in SUBSET Row, NEW add \in SUBSET Row, Write(c, del, add)
  PROVE  /\ See(c)' = (See(c) \ del) \union add
         /\ db' = db \/ db' = (db \ del) \union add
         /\ db' \subseteq Row /\ staged' \in [Caller -> [del : SUBSET Row, add : SUBSET Row]]
         /\ \A d \in Caller \ {c} : staged'[d] = staged[d]
         /\ staged'[c].del \subseteq staged[c].del \union del
         /\ staged'[c].add \subseteq staged[c].add \union add
         /\ ~atomic => staged' = staged
<1>1. CASE atomic
  <2>1. /\ db' = db
        /\ staged' = [staged EXCEPT ![c] = [del |-> (@.del \ add) \union del,
                                            add |-> (@.add \ del) \union add]]
    BY <1>1 DEF Write
  <2>2. staged'[c].del = (staged[c].del \ add) \union del /\ staged'[c].add = (staged[c].add \ del) \union add
    BY <2>1 DEF Types
  <2> QED
    BY <1>1, <2>1, <2>2 DEF See, Types
<1>2. CASE ~atomic
  BY <1>2 DEF Write, See, Types, Held
<1> QED
  BY <1>1, <1>2

(***************************************************************************)
(* What one call changes, the others do not notice.                        *)
(***************************************************************************)

Same(d) ==
  /\ at'[d] = at[d] /\ call'[d] = call[d] /\ who'[d] = who[d] /\ taken'[d] = taken[d]
  /\ staged'[d] = staged[d]

\* The rows change, those about e-mails outside E do not, and nothing is taken
\* back but logins and requests that are pending.
Change(E, del, add) ==
  /\ db' = (db \ del) \union add
  /\ del \subseteq Loose /\ add \subseteq Row
  /\ \A e \in Email \ E : (del \union add) \intersect About(e) = {}

LEMMA ChangeKeeps ==
  ASSUME RowsInv, NEW E \in SUBSET Email, NEW del, NEW add, Change(E, del, add)
  PROVE  /\ db' \subseteq Row
         /\ \A e \in Email \ E : db' \intersect About(e) = db \intersect About(e) /\ Sound(db', e)
         /\ decided' = decided => Decided'
<1>1. db' \subseteq Row /\ db \subseteq Row /\ Loose \subseteq Row
  BY DEF Change, RowsInv, Types, Loose
<1>2. ASSUME NEW e \in Email \ E
      PROVE  db' \intersect About(e) = db \intersect About(e) /\ Sound(db', e)
  <2>1. db' \intersect About(e) = db \intersect About(e)
    BY DEF Change
  <2> QED
    BY <1>1, <2>1, SameRows DEF RowsInv
<1>3. ASSUME decided' = decided
      PROVE  Decided'
  <2>1. ASSUME NEW o \in Org, NEW e \in Email, NEW decision, NEW p, Made(db, o, e, decision, p)
        PROVE  Made(db', o, e, decision, p)
    BY <1>1, <2>1, ResolvedStay DEF Change
  <2>2. ASSUME NEW x \in decided
        PROVE  Recorded(x, db')
    BY <2>1 DEF RowsInv, Decided, Recorded
  <2>3. Decided' <=> \A x \in decided' : Recorded(x, db')
    BY DEF Decided, Recorded, Made
  <2> QED
    BY <1>3, <2>2, <2>3
<1> QED
  BY <1>1, <1>2, <1>3

LEMMA OthersKeep ==
  ASSUME RowsInv, atomic' = atomic, NEW d \in Caller, Same(d),
         NEW E \in SUBSET Email, NEW del, NEW add, Change(E, del, add),
         Inside(d) => call[d].email \notin E
  PROVE  Stands(d)' /\ Held(d)' /\ Knows(d)' /\ (Inside(d)' <=> Inside(d))
<1> DEFINE e == call[d].email
           o == call[d].org
<1>1. Stands(d)' /\ Held(d)' /\ (Inside(d)' <=> Inside(d))
  BY DEF Same, RowsInv, Stands, Held, Locking, Inside
<1>2. at[d] # "idle" => e \in Email
  BY DEF RowsInv, Stands
<1>3. /\ See(d) \subseteq Row /\ See(d)' \subseteq Row /\ db \subseteq Row /\ db' \subseteq Row
      /\ del \subseteq Loose /\ add \subseteq Row
  BY SeesRows, ChangeKeeps DEF RowsInv, Types, See, Same, Change
<1>4. ASSUME Inside(d)
      PROVE  See(d)' \intersect About(e) = See(d) \intersect About(e)
  <2>1. e \in Email \ E
    BY <1>2, <1>4 DEF Inside, Section
  <2> QED
    BY <2>1, ChangeKeeps DEF See, Same
<1>5. Inside(d) => Sound(See(d)', e)
  <2> HAVE Inside(d)
  <2>1. Sound(See(d), e)
    BY DEF RowsInv, Knows
  <2>2. e \in Email
    BY <1>2 DEF Inside, Section
  <2> QED
    BY <1>3, <1>4, <2>1, <2>2, SameRows
<1>6. at[d] = "draft" => Reserved(e, who[d]) \in See(d)'
  <2> HAVE at[d] = "draft"
  <2>1. Inside(d) /\ who[d] \in Person /\ Reserved(e, who[d]) \in See(d)
    BY DEF RowsInv, Knows, Stands, Inside, Section
  <2> QED
    BY <1>2, <1>4, <2>1, AboutRows
<1>7. ASSUME call[d].kind = "resolve", at[d] \in Section
      PROVE  RequestsOf(o, e, See(d)') = RequestsOf(o, e, See(d))
  <2>1. Inside(d) /\ e \in Email /\ o \in Org
    BY <1>2, <1>7 DEF Inside, Locking, RowsInv, Stands, Section
  <2> QED
    BY <1>3, <1>4, <2>1, SameRows
<1>8. call[d].kind = "resolve" /\ at[d] = "answer" => Made(db', o, e, call[d].decision, who[d])
  <2> HAVE call[d].kind = "resolve" /\ at[d] = "answer"
  <2>1. Made(db, o, e, call[d].decision, who[d]) /\ e \in Email /\ o \in Org
    BY DEF RowsInv, Knows, Stands, Locking
  <2> QED
    BY <1>3, <2>1, ResolvedStay DEF Change
<1> QED
  BY <1>1, <1>5, <1>6, <1>7, <1>8 DEF RowsInv, Knows, Same, Section, Made

\* What holds of everything but the call c itself.
Rest(c) ==
  /\ Locks /\ Decided
  /\ \A d \in Caller \ {c} : Stands(d) /\ Held(d) /\ Knows(d)
  /\ \A e \in Email : Sound(db, e)

LEMMA RestIsEnough ==
  ASSUME NEW c \in Caller
  PROVE  Types /\ Rest(c) /\ Stands(c) /\ Held(c) /\ Knows(c) => RowsInv
  BY DEF Rest, RowsInv

\* A step of the call c that changes rows about its own e-mail only.
LEMMA RestKeeps ==
  ASSUME RowsInv, NEW c \in Caller, atomic' = atomic, decided' = decided \/ Decided',
         \A d \in Caller \ {c} : Same(d),
         NEW E \in SUBSET Email, E = {} \/ (Inside(c) /\ E = {call[c].email}),
         NEW del, NEW add, Change(E, del, add), \A e \in E : Sound(db', e),
         \A e \in Email : /\ lock'[e] = c <=> Inside(c)' /\ call'[c].email = e
                          /\ \A d \in Caller \ {c} : lock'[e] = d <=> lock[e] = d
  PROVE  Rest(c)' /\ db' \subseteq Row
<1>1. \A d \in Caller \ {c} : Inside(d) => call[d].email \notin E
  BY DEF RowsInv, Locks
<1>2. /\ \A d \in Caller \ {c} : Stands(d)' /\ Held(d)' /\ Knows(d)' /\ (Inside(d)' <=> Inside(d))
      /\ Decided' /\ \A e \in Email \ E : Sound(db', e)
      /\ db' \subseteq Row
  BY <1>1, OthersKeep, ChangeKeeps
<1>3. Locks'
  <2>1. \A d \in Caller \ {c} : (Inside(d)' <=> Inside(d)) /\ call'[d] = call[d]
    BY <1>2 DEF Same
  <2> QED
    BY <2>1 DEF RowsInv, Locks
<1>4. \A e \in Email : Sound(db, e)'
  BY <1>2 DEF Sound
<1> QED
  BY <1>2, <1>3, <1>4 DEF Rest

\* What the call that is inside may write: rows about its e-mail, so that they
\* stay sound.
Allowed(c, del, add) ==
  /\ Inside(c) /\ del \subseteq Loose /\ add \subseteq Row
  /\ \A e \in Email \ {call[c].email} : (del \union add) \intersect About(e) = {}
  /\ Sound((See(c) \ del) \union add, call[c].email)

LEMMA WriteKeeps ==
  ASSUME RowsInv, NEW c \in Caller, NEW del, NEW add, NEW l \in Section, NEW w \in Person \union {None},
         Allowed(c, del, add), Write(c, del, add),
         at' = [at EXCEPT ![c] = l], who' = [who EXCEPT ![c] = w],
         UNCHANGED <<atomic, lock, call, taken, decided>>
  PROVE  /\ Rest(c)' /\ Held(c)' /\ Inside(c)'
         /\ See(c)' = (See(c) \ del) \union add /\ Sound(See(c)', call[c].email)
         /\ db' \subseteq Row /\ staged' \in [Caller -> [del : SUBSET Row, add : SUBSET Row]]
         /\ at'[c] = l /\ who'[c] = w
         /\ at' \in [Caller -> Section \union {"idle", "lock", "cache", "answer", "read", "fill"}]
         /\ who' \in [Caller -> Person \union {None}]
         /\ call[c].email \in Email /\ call[c].org \in Org
<1> DEFINE e == call[c].email
<1>1. e \in Email /\ call[c].org \in Org
  BY DEF Allowed, RowsInv, Stands, Inside, Section, Locking
<1>2. Types /\ Held(c) /\ del \in SUBSET Row /\ add \in SUBSET Row
  BY DEF Allowed, RowsInv, Loose
<1>3. /\ See(c)' = (See(c) \ del) \union add
      /\ db' = db \/ db' = (db \ del) \union add
      /\ db' \subseteq Row /\ staged' \in [Caller -> [del : SUBSET Row, add : SUBSET Row]]
      /\ \A d \in Caller \ {c} : staged'[d] = staged[d]
      /\ staged'[c].del \subseteq staged[c].del \union del
      /\ staged'[c].add \subseteq staged[c].add \union add
      /\ ~atomic => staged' = staged
  BY <1>2, WriteSees
<1>4. /\ at'[c] = l /\ who'[c] = w /\ Inside(c)' /\ \A d \in Caller \ {c} : Same(d)
      /\ at' \in [Caller -> Section \union {"idle", "lock", "cache", "answer", "read", "fill"}]
      /\ who' \in [Caller -> Person \union {None}]
  BY <1>2, <1>3 DEF Allowed, Types, Inside, Locking, Same
<1>5. Held(c)'
  BY <1>2, <1>3, <1>4 DEF Allowed, Held, Types
<1>6. \A f \in Email : /\ lock'[f] = c <=> Inside(c)' /\ call'[c].email = f
                       /\ \A d \in Caller \ {c} : lock'[f] = d <=> lock[f] = d
  BY <1>4 DEF Allowed, RowsInv, Locks
<1>7. PICK D, A : Change({e}, D, A)
  <2>1. CASE db' = db
    <3>1. Change({e}, {}, {})
      BY <2>1 DEF Change
    <3> QED
      BY <3>1
  <2>2. CASE db' = (db \ del) \union add
    <3>1. Change({e}, del, add)
      BY <2>2 DEF Allowed, Change
    <3> QED
      BY <3>1
  <2> QED
    BY <1>3, <2>1, <2>2
<1>8. Sound(db', e)
  <2>1. CASE db' = db
    BY <1>1, <2>1 DEF RowsInv
  <2>2. CASE db' = (db \ del) \union add /\ db' # db
    <3>1. See(c) = db
      <4>1. ~atomic
        BY <2>2, <1>3 DEF Write
      <4> QED
        BY <1>2, <4>1 DEF See, Held
    <3> QED
      BY <2>2, <3>1 DEF Allowed
  <2> QED
    BY <1>3, <2>1, <2>2
<1>9. Rest(c)'
  <2>1. {e} \in SUBSET Email /\ Inside(c) /\ \A f \in {e} : Sound(db', f)
    BY <1>1, <1>8 DEF Allowed
  <2> QED
    BY <1>4, <1>6, <1>7, <2>1, RestKeeps
<1> QED
  BY <1>1, <1>3, <1>4, <1>5, <1>9 DEF Allowed

(***************************************************************************)
(* The steps of a transaction that write rows and go on.                   *)
(***************************************************************************)

Writing(c) ==
  \/ personByLogin(c) \/ openOrRecoverAccessRequest(c) \/ reserveLoginPerson(c) \/ ensureDraftPerson(c)
  \/ attachPersonMembership(c) \/ reconcileAccessRequest(c) \/ Decide(c) \/ markResolved(c)

\* What such a step leaves to show once its rows are known to be sound.
LEMMA StepTypes ==
  ASSUME RowsInv, NEW c \in Caller, NEW del, NEW add, NEW l, Step(c, del, add, l)
  PROVE  /\ Write(c, del, add) /\ at' = [at EXCEPT ![c] = l]
         /\ UNCHANGED <<atomic, lock, cache, contact, call, previous, taken, decided, raced, outdated>>
  BY DEF Step, Goto, reads, machine, history

LEMMA StepKeeps ==
  ASSUME RowsInv, NEW c \in Caller, NEW del, NEW add, NEW l \in Section, NEW w \in Person \union {None},
         Allowed(c, del, add), Step(c, del, add, l), who' = [who EXCEPT ![c] = w],
         l \in {"find", "candidates", "reconcile"} => call[c].kind = "register",
         l \in {"decide", "mark"} => call[c].kind = "resolve",
         l \in {"draft", "taken", "attach", "reconcile", "mark"} => w \in Person,
         l # "write",
         l = "draft" => Reserved(call[c].email, w) \in (See(c) \ del) \union add,
         call[c].kind = "resolve" /\ l \in {"reserve", "draft", "taken", "attach", "mark"} =>
           \A r \in RequestsOf(call[c].org, call[c].email, (See(c) \ del) \union add) : r.status = "pending",
         call[c].kind = "resolve" /\ l = "commit" =>
           Made((See(c) \ del) \union add, call[c].org, call[c].email, call[c].decision, w)
  PROVE  RowsInv'
<1>1. /\ Write(c, del, add) /\ at' = [at EXCEPT ![c] = l]
      /\ UNCHANGED <<atomic, lock, cache, contact, call, previous, taken, decided, raced, outdated>>
  BY StepTypes
<1>2. /\ Rest(c)' /\ Held(c)' /\ Inside(c)'
      /\ See(c)' = (See(c) \ del) \union add /\ Sound(See(c)', call[c].email)
      /\ db' \subseteq Row /\ staged' \in [Caller -> [del : SUBSET Row, add : SUBSET Row]]
      /\ at'[c] = l /\ who'[c] = w
      /\ at' \in [Caller -> Section \union {"idle", "lock", "cache", "answer", "read", "fill"}]
      /\ who' \in [Caller -> Person \union {None}]
      /\ call[c].email \in Email /\ call[c].org \in Org
  <2>1. UNCHANGED <<atomic, lock, call, taken, decided>>
    BY <1>1
  <2>2. Write(c, del, add) /\ at' = [at EXCEPT ![c] = l]
    BY <1>1
  <2> QED
    BY <2>1, <2>2, WriteKeeps
<1>3. Types'
  BY <1>1, <1>2 DEF RowsInv, Types
<1>4. Stands(c)'
  BY <1>1, <1>2 DEF Inside, Locking, Section, RowsInv, Stands
<1>5. Knows(c)'
  <2>1. Inside(c)' => Sound(See(c)', call'[c].email)
    BY <1>1, <1>2
  <2>2. (at[c] = "draft")' => Reserved(call[c].email, who[c])' \in See(c)'
    BY <1>1, <1>2 DEF Reserved
  <2>3. ASSUME call[c].kind = "resolve"
        PROVE  /\ l \in {"reserve", "draft", "taken", "write", "attach", "mark"} =>
                    \A r \in RequestsOf(call[c].org, call[c].email, See(c)') : r.status = "pending"
               /\ l = "commit" => Made(See(c)', call[c].org, call[c].email, call[c].decision, w)
               /\ l # "answer"
    BY <1>2, <2>3 DEF Section
  <2> QED
    BY <1>1, <1>2, <2>1, <2>2, <2>3 DEF Knows, Made
<1> QED
  BY <1>2, <1>3, <1>4, <1>5 DEF Rest, RowsInv

\* Rows of other kinds do not matter to the requests, nor logins and memberships
\* to what is said of an e-mail.
LEMMA SameRequests ==
  ASSUME NEW rows \in SUBSET Row, NEW more \in SUBSET Row, NEW o \in Org, NEW e \in Email,
         \A x \in Row : x[1] = "request" => (x \in rows <=> x \in more)
  PROVE  RequestsOf(o, e, rows) = RequestsOf(o, e, more)
<1>1. RequestsOf(o, e, rows) \subseteq RequestRecord /\ RequestsOf(o, e, more) \subseteq RequestRecord
  BY RequestsAreRows
<1>2. ASSUME NEW r \in RequestRecord
      PROVE  r \in RequestsOf(o, e, rows) <=> r \in RequestsOf(o, e, more)
  BY RequestsAreRows, RequestRows
<1> QED
  BY <1>1, <1>2

LEMMA OneRequest ==
  ASSUME NEW rows \in SUBSET Row, NEW o \in Org, NEW e \in Email, NEW n \in RequestRecord,
         NEW del, \A x \in del : \E r \in RequestRecord : x = AccessRequest(o, e, r),
         RequestsOf(o, e, rows \ del) = {}, Sound(rows, e)
  PROVE  LET more == (rows \ del) \union {AccessRequest(o, e, n)}
         IN RequestsOf(o, e, more) = {n} /\ Sound(more, e)
<1> DEFINE more == (rows \ del) \union {AccessRequest(o, e, n)}
<1>1. more \in SUBSET Row /\ rows \ del \in SUBSET Row
  BY RequestRows
<1>2. RequestsOf(o, e, more) = {n}
  <2>1. ASSUME NEW r \in RequestRecord
        PROVE  r \in RequestsOf(o, e, more) <=> r = n
    <3>1. r \in RequestsOf(o, e, more) <=> AccessRequest(o, e, r) \in more
      BY <1>1, RequestsAreRows
    <3>2. AccessRequest(o, e, r) \notin rows \ del
      BY <1>1, RequestsAreRows
    <3>3. AccessRequest(o, e, r) = AccessRequest(o, e, n) <=> r = n
      BY RequestRows
    <3> QED
      BY <3>1, <3>2, <3>3
  <2>2. RequestsOf(o, e, more) \subseteq RequestRecord
    BY <1>1, RequestsAreRows
  <2> QED
    BY <2>1, <2>2
<1>3. ASSUME NEW m \in Org, m # o
      PROVE  RequestsOf(m, e, more) = RequestsOf(m, e, rows)
  <2>1. \A r \in RequestRecord : AccessRequest(m, e, r) \in more <=> AccessRequest(m, e, r) \in rows
    BY <1>3, RequestRows
  <2>2. \A r \in RequestRecord : r \in RequestsOf(m, e, more) <=> r \in RequestsOf(m, e, rows)
    BY <1>1, <2>1, RequestsAreRows
  <2>3. RequestsOf(m, e, more) \subseteq RequestRecord /\ RequestsOf(m, e, rows) \subseteq RequestRecord
    BY <1>1, RequestsAreRows
  <2> QED
    BY <2>2, <2>3
<1>4. \A p \in Person : /\ Reserved(e, p) \in more <=> Reserved(e, p) \in rows
                        /\ Created(p, e) \in more <=> Created(p, e) \in rows
  BY RequestRows, ReservedRows, CreatedRows
<1>5. Sound(more, e)
  <2>1. /\ \A p, q \in Person : Reserved(e, p) \in more /\ Reserved(e, q) \in more => p = q
        /\ \A p \in Person : Created(p, e) \in more => Reserved(e, p) \in more
    BY <1>4 DEF Sound
  <2>2. ASSUME NEW m \in Org PROVE \A r, s \in RequestsOf(m, e, more) : r = s
    <3>1. CASE m = o
      BY <1>2, <3>1
    <3>2. CASE m # o
      BY <1>3, <3>2 DEF Sound
    <3> QED BY <3>1, <3>2
  <2> QED BY <2>1, <2>2 DEF Sound
<1> QED
  BY <1>2, <1>5

\* Nothing may be written always.
LEMMA NothingAllowed ==
  ASSUME RowsInv, NEW c \in Caller, Inside(c)
  PROVE  /\ Allowed(c, {}, {}) /\ (See(c) \ {}) \union {} = See(c)
         /\ See(c) \in SUBSET Row /\ who = [who EXCEPT ![c] = who[c]] /\ who[c] \in Person \union {None}
         /\ call[c].email \in Email /\ call[c].org \in Org
<1>1. (See(c) \ {}) \union {} = See(c)
  OBVIOUS
<1>2. Sound(See(c), call[c].email)
  BY DEF RowsInv, Knows
<1>3. See(c) \in SUBSET Row /\ who = [who EXCEPT ![c] = who[c]] /\ who[c] \in Person \union {None}
  BY SeesRows DEF RowsInv, Types
<1>4. call[c].email \in Email /\ call[c].org \in Org
  BY DEF RowsInv, Stands, Inside, Section, Locking
<1> QED
  BY <1>1, <1>2, <1>3, <1>4 DEF Allowed

LEMMA InsideAt ==
  ASSUME RowsInv, NEW c \in Caller,
         at[c] \in {"find", "candidates", "reserve", "draft", "attach", "reconcile",
                    "decide", "mark", "commit"}
  PROVE  Inside(c)
  BY DEF RowsInv, Stands, Inside, Section

LEMMA FindSound == ASSUME RowsInv, NEW c \in Caller, personByLogin(c) PROVE RowsInv'
<1>1. at[c] = "find" /\ Inside(c) /\ call[c].kind = "register"
  BY InsideAt DEF personByLogin, RowsInv, Stands
<1>2. PICK w \in Person \union {None}, l \in {"attach", "candidates"} :
        /\ who' = [who EXCEPT ![c] = w] /\ Step(c, {}, {}, l)
        /\ l = "attach" => w \in Person
  <2>1. LoginsOf(call[c].email, See(c)) \subseteq Person
    BY DEF LoginsOf
  <2> QED
    BY <1>1, <2>1, NothingAllowed DEF personByLogin
<1>3. l \in Section
  BY DEF Section
<1> QED
  BY <1>1, <1>2, <1>3, StepKeeps, NothingAllowed

LEMMA RecoverSound == ASSUME RowsInv, NEW c \in Caller, openOrRecoverAccessRequest(c) PROVE RowsInv'
<1> DEFINE e == call[c].email
           o == call[c].org
<1>1. at[c] = "candidates" /\ Inside(c) /\ call[c].kind = "register" /\ who' = [who EXCEPT ![c] = who[c]]
  BY InsideAt, NothingAllowed DEF openOrRecoverAccessRequest, RowsInv, Stands
<1>2. CASE \E l \in {"reserve", "commit"} : Step(c, {}, {}, l)
  <2>1. PICK l \in {"reserve", "commit"} : Step(c, {}, {}, l)
    BY <1>2
  <2>2. l \in Section
    BY DEF Section
  <2> QED
    BY <1>1, <2>1, <2>2, StepKeeps, NothingAllowed
<1>3. ASSUME RequestsOf(o, e, See(c)) = {}, NEW p \in New,
             Step(c, {}, {AccessRequest(o, e, Pending(p, Candidates(e)))}, "commit")
      PROVE  RowsInv'
  <2> DEFINE r == Pending(p, Candidates(e))
  <2>1. r \in RequestRecord
    BY DEF RequestRecord, Pending, Candidates, Person
  <2>2. Sound((See(c) \ {}) \union {AccessRequest(o, e, r)}, e)
    <3>1. See(c) \ {} = See(c) /\ Sound(See(c), e)
      BY <1>1 DEF RowsInv, Knows
    <3> QED
      BY <1>1, <1>3, <2>1, <3>1, OneRequest, NothingAllowed
  <2>3. /\ {AccessRequest(o, e, r)} \subseteq Row
        /\ \A f \in Email \ {e} : AccessRequest(o, e, r) \notin About(f)
    BY <1>1, <2>1, RequestRows, NothingAllowed DEF About
  <2>4. Allowed(c, {}, {AccessRequest(o, e, r)})
    BY <1>1, <2>2, <2>3 DEF Allowed
  <2>5. PICK add : add = {AccessRequest(o, e, r)}
    OBVIOUS
  <2>6. Allowed(c, {}, add) /\ Step(c, {}, add, "commit") /\ "commit" \in Section
    BY <1>3, <2>4, <2>5 DEF Section
  <2> QED
    BY <1>1, <2>6, StepKeeps, NothingAllowed
<1> QED
  BY <1>2, <1>3 DEF openOrRecoverAccessRequest

LEMMA NothingChanges ==
  ASSUME RowsInv, db' = db
  PROVE  Change({}, {}, {})
  BY DEF Change

LEMMA FailKeeps ==
  ASSUME RowsInv, NEW c \in Caller, at[c] # "idle", Fail(c),
         atomic' = atomic, decided' = decided, raced' \in BOOLEAN, outdated' \subseteq Email
  PROVE  RowsInv'
<1>1. /\ staged' = [staged EXCEPT ![c] = NoWrites] /\ db' = db /\ cache' = cache
      /\ lock' = [e \in Email |-> IF lock[e] = c THEN None ELSE lock[e]]
      /\ who' = [who EXCEPT ![c] = None]
      /\ previous' = [previous EXCEPT ![c] = {}] /\ taken' = [taken EXCEPT ![c] = {}]
      /\ at' = [at EXCEPT ![c] = IF call[c].kind = "register" THEN "lock" ELSE "idle"]
      /\ call' = [call EXCEPT ![c] = IF call[c].kind = "register" THEN call[c] ELSE NoCall]
  BY DEF Fail, Unlock, Forget, Goto
<1>2. Types
  BY DEF RowsInv
<1>3. Types'
  <2>1. staged' \in [Caller -> [del : SUBSET Row, add : SUBSET Row]]
    BY <1>1, <1>2 DEF Types, NoWrites
  <2>2. lock' \in [Email -> Caller \union {None}] /\ who' \in [Caller -> Person \union {None}]
    BY <1>1, <1>2 DEF Types
  <2>3. call' \in [Caller -> CallRecord]
    <3>1. NoCall \in CallRecord
      BY DEF NoCall, CallRecord
    <3> QED
      BY <1>1, <1>2, <3>1 DEF Types
  <2>4. at' \in [Caller -> Section \union {"idle", "lock", "cache", "answer", "read", "fill"}]
    BY <1>1, <1>2 DEF Types
  <2>5. previous' \in [Caller -> SUBSET Email] /\ taken' \in [Caller -> SUBSET Person]
    BY <1>1, <1>2 DEF Types
  <2> QED
    BY <1>1, <1>2, <2>1, <2>2, <2>3, <2>4, <2>5 DEF Types
<1>4. \A d \in Caller \ {c} : Same(d)
  BY <1>1, <1>2 DEF Types, Same
<1>5. /\ at'[c] \in {"idle", "lock"} /\ (at'[c] = "lock" => call'[c] = call[c] /\ call[c].kind = "register")
      /\ (at'[c] = "idle" => call'[c] = NoCall)
      /\ staged'[c] = NoWrites
  BY <1>1, <1>2 DEF Types
<1>6. ~Inside(c)'
  BY <1>5 DEF Inside, Section
<1>7. Rest(c)'
  <2>1. \A e \in Email : /\ lock'[e] = c <=> Inside(c)' /\ call'[c].email = e
                         /\ \A d \in Caller \ {c} : lock'[e] = d <=> lock[e] = d
    BY <1>1, <1>2, <1>6, RegistrationAssumption DEF Types
  <2>2. Change({}, {}, {})
    BY <1>1, NothingChanges
  <2>3. {} \in SUBSET Email /\ \A e \in {} : Sound(db', e)
    OBVIOUS
  <2> QED
    BY <1>4, <2>1, <2>2, <2>3, RestKeeps
<1>8. Stands(c)'
  BY <1>5 DEF RowsInv, Stands, Locking, Section, NoCall
<1>9. Held(c)'
  BY <1>5, <1>6 DEF Held, NoWrites
<1>10. Knows(c)'
  BY <1>5, <1>6 DEF Knows
<1> QED
  BY <1>3, <1>7, <1>8, <1>9, <1>10 DEF Rest, RowsInv

LEMMA RefuseSound == ASSUME RowsInv, NEW c \in Caller, at[c] # "idle", Refuse(c) PROVE RowsInv'
<1>1. Fail(c) /\ atomic' = atomic /\ decided' = decided /\ raced' = raced /\ outdated' = outdated
  BY DEF Refuse, machine, history
<1> QED
  BY <1>1, FailKeeps DEF RowsInv, Types

LEMMA FaultSound == ASSUME RowsInv, NEW c \in Caller, Fault(c) PROVE RowsInv'
<1>1. /\ Fail(c) /\ atomic' = atomic /\ decided' = decided /\ raced' = raced /\ at[c] # "idle"
      /\ outdated' = IF at[c] = "cache" THEN outdated \union previous[c] \union {call[c].email} ELSE outdated
  BY DEF Fault
<1>2. outdated' \subseteq Email
  BY <1>1 DEF RowsInv, Types, Stands
<1> QED
  BY <1>1, <1>2, FailKeeps DEF RowsInv, Types

LEMMA ReserveSound == ASSUME RowsInv, NEW c \in Caller, reserveLoginPerson(c) PROVE RowsInv'
<1> DEFINE e == call[c].email
           o == call[c].org
<1>1. at[c] = "reserve" /\ Inside(c)
  BY InsideAt DEF reserveLoginPerson
<1>2. "draft" \in Section /\ Sound(See(c), e)
  BY <1>1 DEF Section, RowsInv, Knows
<1>3. call[c].kind = "resolve" => \A r \in RequestsOf(o, e, See(c)) : r.status = "pending"
  BY <1>1 DEF RowsInv, Knows
<1>4. ASSUME NEW p \in ReservationsOf(e, See(c)), who' = [who EXCEPT ![c] = p], Step(c, {}, {}, "draft")
      PROVE  RowsInv'
  <2>1. p \in Person /\ Reserved(e, p) \in See(c)
    BY <1>4 DEF ReservationsOf
  <2> QED
    BY <1>1, <1>2, <1>3, <1>4, <2>1, StepKeeps, NothingAllowed
<1>5. ASSUME ReservationsOf(e, See(c)) = {}, NEW p \in Person, who' = [who EXCEPT ![c] = p],
             Step(c, {}, {Reserved(e, p)}, "draft")
      PROVE  RowsInv'
  <2> DEFINE more == (See(c) \ {}) \union {Reserved(e, p)}
  <2>1. \A q \in Person : Reserved(e, q) \notin See(c)
    BY <1>5 DEF ReservationsOf
  <2>2. See(c) \in SUBSET Row /\ more \in SUBSET Row /\ e \in Email /\ o \in Org
    BY <1>1, NothingAllowed, ReservedRows
  <2>3. \A m \in Org : RequestsOf(m, e, more) = RequestsOf(m, e, See(c))
    BY <2>2, SameRequests, ReservedRows
  <2>4. \A q \in Person : /\ Reserved(e, q) \in more <=> q = p
                          /\ Created(q, e) \notin more
    <3>1. \A q \in Person : Created(q, e) \notin See(c)
      BY <1>2, <2>1 DEF Sound
    <3> QED
      BY <2>1, <2>2, <3>1, ReservedRows, CreatedRows
  <2>5. Sound(more, e)
    BY <1>2, <2>3, <2>4 DEF Sound
  <2>6. PICK add : add = {Reserved(e, p)}
    OBVIOUS
  <2>7. Allowed(c, {}, add)
    BY <1>1, <2>2, <2>5, <2>6, ReservedRows DEF Allowed, About
  <2> QED
    BY <1>1, <1>2, <1>3, <1>5, <2>2, <2>3, <2>6, <2>7, StepKeeps, NothingAllowed
<1>6. CASE Refuse(c)
  BY <1>1, <1>6, RefuseSound
<1> QED
  BY <1>4, <1>5, <1>6 DEF reserveLoginPerson

LEMMA DraftSound == ASSUME RowsInv, NEW c \in Caller, ensureDraftPerson(c) PROVE RowsInv'
<1> DEFINE e == call[c].email
           o == call[c].org
           p == who[c]
<1>1. /\ at[c] = "draft" /\ Inside(c) /\ who' = [who EXCEPT ![c] = p]
      /\ p \in Person /\ e \in Email /\ o \in Org
  BY InsideAt, NothingAllowed DEF ensureDraftPerson, RowsInv, Stands
<1>2. See(c) \in SUBSET Row /\ Sound(See(c), e) /\ Reserved(e, p) \in See(c)
  BY <1>1, NothingAllowed DEF RowsInv, Knows
<1>3. PICK add \in {{}, {Created(p, e)}} : Step(c, {}, add, "taken")
  BY DEF ensureDraftPerson
<1> DEFINE more == (See(c) \ {}) \union add
<1>4. more \in SUBSET Row /\ \A x \in add : x = Created(p, e) /\ x \in Row /\ x[1] = "person" /\ x[3] = e
  BY <1>1, <1>2, CreatedRows
<1>5. \A m \in Org : RequestsOf(m, e, more) = RequestsOf(m, e, See(c))
  BY <1>1, <1>2, <1>4, SameRequests
<1>6. \A q \in Person : /\ Reserved(e, q) \in more <=> Reserved(e, q) \in See(c)
                        /\ Created(q, e) \in more => Created(q, e) \in See(c) \/ q = p
  BY <1>1, <1>4, ReservedRows, CreatedRows
<1>7. Sound(more, e)
  BY <1>1, <1>2, <1>5, <1>6 DEF Sound
<1>8. Allowed(c, {}, add)
  BY <1>1, <1>4, <1>7 DEF Allowed, About
<1>9. call[c].kind = "resolve" => \A r \in RequestsOf(o, e, more) : r.status = "pending"
  BY <1>1, <1>5 DEF RowsInv, Knows
<1>10. "taken" \in Section
  BY DEF Section
<1> HIDE DEF more
<1> QED
  BY <1>1, <1>3, <1>8, <1>9, <1>10, StepKeeps DEF more

LEMMA AttachSound == ASSUME RowsInv, NEW c \in Caller, attachPersonMembership(c) PROVE RowsInv'
<1> DEFINE e == call[c].email
           o == call[c].org
           p == who[c]
           l == IF call[c].kind = "register" THEN "reconcile" ELSE "mark"
<1>1. /\ at[c] = "attach" /\ Inside(c) /\ who' = [who EXCEPT ![c] = p]
      /\ p \in Person /\ e \in Email /\ o \in Org
  BY InsideAt, NothingAllowed DEF attachPersonMembership, RowsInv, Stands
<1>2. See(c) \in SUBSET Row /\ Sound(See(c), e)
  BY <1>1, NothingAllowed DEF RowsInv, Knows
<1>3. PICK add : add = {Member(p, o)} /\ Step(c, {}, add, l)
  BY DEF attachPersonMembership
<1> DEFINE more == (See(c) \ {}) \union add
<1>4. more \in SUBSET Row /\ \A x \in add : x \in Row /\ x[1] = "member"
  BY <1>1, <1>2, <1>3, MemberRows
<1>5. \A m \in Org : RequestsOf(m, e, more) = RequestsOf(m, e, See(c))
  BY <1>1, <1>2, <1>4, SameRequests
<1>6. \A q \in Person : /\ Reserved(e, q) \in more <=> Reserved(e, q) \in See(c)
                        /\ Created(q, e) \in more <=> Created(q, e) \in See(c)
  BY <1>1, <1>4, ReservedRows, CreatedRows
<1>7. Sound(more, e)
  BY <1>1, <1>2, <1>5, <1>6 DEF Sound
<1>8. Allowed(c, {}, add)
  BY <1>1, <1>4, <1>7 DEF Allowed, About
<1>9. call[c].kind = "resolve" => \A r \in RequestsOf(o, e, more) : r.status = "pending"
  BY <1>1, <1>5 DEF RowsInv, Knows
<1>10. l \in Section /\ l \in {"reconcile", "mark"} /\ (l = "mark" => call[c].kind = "resolve")
       /\ (l = "reconcile" => call[c].kind = "register")
  BY <1>1 DEF Section, Inside, Locking
<1> HIDE DEF more, l
<1> QED
  BY <1>1, <1>3, <1>8, <1>9, <1>10, StepKeeps DEF more

\* A request of the e-mail that is open is resolved.
LEMMA ReplaceKeeps ==
  ASSUME RowsInv, NEW c \in Caller, at[c] \in {"reconcile", "mark"}, UNCHANGED who,
         NEW r \in RequestsOf(call[c].org, call[c].email, See(c)), r.status = "pending",
         NEW decision \in {"none", "create-new", "use-existing"},
         call[c].kind = "resolve" => decision = call[c].decision,
         Replace(c, r, Resolved(c, r, decision), "commit")
  PROVE  RowsInv'
<1> DEFINE e == call[c].email
           o == call[c].org
           n == Resolved(c, r, decision)
<1>1. Inside(c) /\ who' = [who EXCEPT ![c] = who[c]] /\ e \in Email /\ o \in Org /\ See(c) \in SUBSET Row
      /\ who[c] \in Person
  BY InsideAt, NothingAllowed DEF RowsInv, Stands
<1>2. Sound(See(c), e)
  BY <1>1 DEF RowsInv, Knows
<1>3. r \in RequestRecord
  BY <1>1, RequestsAreRows
<1>4. n \in RequestRecord /\ n.status = "resolved" /\ n.decision = decision /\ n.person = who[c]
  BY <1>1, <1>3 DEF Resolved, RequestRecord
<1>5. PICK del, add : /\ del = {AccessRequest(o, e, r)} /\ add = {AccessRequest(o, e, n)}
                      /\ Step(c, del, add, "commit")
  BY DEF Replace
<1> HIDE DEF n
<1> DEFINE more == (See(c) \ del) \union add
<1>6. RequestsOf(o, e, See(c) \ del) = {}
  <2>1. See(c) \ del \in SUBSET Row
    BY <1>1
  <2>2. ASSUME NEW s \in RequestsOf(o, e, See(c) \ del)
        PROVE  FALSE
    <3>1. s \in RequestRecord /\ AccessRequest(o, e, s) \in See(c) \ del
      BY <1>1, <2>1, RequestsAreRows
    <3>2. s \in RequestsOf(o, e, See(c))
      BY <1>1, <3>1, RequestsAreRows
    <3>3. s = r
      BY <1>1, <1>2, <3>2 DEF Sound
    <3> QED
      BY <1>5, <3>1, <3>3
  <2> QED
    BY <2>2
<1>7. RequestsOf(o, e, more) = {n} /\ Sound(more, e)
  <2>1. \A x \in del : \E s \in RequestRecord : x = AccessRequest(o, e, s)
    BY <1>3, <1>5
  <2>2. LET all == (See(c) \ del) \union {AccessRequest(o, e, n)}
        IN RequestsOf(o, e, all) = {n} /\ Sound(all, e)
    BY <1>1, <1>2, <1>4, <1>6, <2>1, OneRequest
  <2> QED
    BY <1>5, <2>2
<1>8. /\ del \subseteq Loose /\ add \subseteq Row
      /\ \A f \in Email \ {e} : (del \union add) \intersect About(f) = {}
  BY <1>1, <1>3, <1>4, <1>5, RequestRows DEF About, Loose
<1>9. Allowed(c, del, add)
  BY <1>1, <1>7, <1>8 DEF Allowed
<1>10. call[c].kind = "resolve" => Made(more, o, e, call[c].decision, who[c])
  BY <1>4, <1>7 DEF Made
<1>11. "commit" \in Section
  BY DEF Section
<1>12. who[c] \in Person \union {None} /\ who' = [who EXCEPT ![c] = who[c]]
  BY <1>1
<1>13. Step(c, del, add, "commit")
  BY <1>5
<1> HIDE DEF more
<1> QED
  BY <1>9, <1>10, <1>11, <1>12, <1>13, StepKeeps DEF more

LEMMA ReconcileSound == ASSUME RowsInv, NEW c \in Caller, reconcileAccessRequest(c) PROVE RowsInv'
<1>1. at[c] = "reconcile" /\ Inside(c) /\ UNCHANGED who /\ call[c].kind = "register"
      /\ who' = [who EXCEPT ![c] = who[c]]
  BY InsideAt, NothingAllowed DEF reconcileAccessRequest, RowsInv, Stands
<1>2. CASE Step(c, {}, {}, "commit")
  <2>1. "commit" \in Section
    BY DEF Section
  <2> QED
    BY <1>1, <1>2, <2>1, StepKeeps, NothingAllowed
<1>3. ASSUME NEW r \in RequestsOf(call[c].org, call[c].email, See(c)), r.status = "pending",
             Replace(c, r, Resolved(c, r, "none"), "commit")
      PROVE  RowsInv'
  BY <1>1, <1>3, ReplaceKeeps
<1> QED
  BY <1>2, <1>3 DEF reconcileAccessRequest

LEMMA MarkSound == ASSUME RowsInv, NEW c \in Caller, markResolved(c) PROVE RowsInv'
<1>1. at[c] = "mark" /\ UNCHANGED who /\ call[c].kind = "resolve"
      /\ call[c].decision \in {"none", "create-new", "use-existing"}
  BY DEF markResolved, RowsInv, Stands, Types, CallRecord
<1>2. PICK r \in RequestsOf(call[c].org, call[c].email, See(c)) :
        Replace(c, r, Resolved(c, r, call[c].decision), "commit")
  BY DEF markResolved
<1>3. r.status = "pending"
  BY <1>1 DEF RowsInv, Knows
<1> QED
  BY <1>1, <1>2, <1>3, ReplaceKeeps

LEMMA DecideSound == ASSUME RowsInv, NEW c \in Caller, Decide(c) PROVE RowsInv'
<1> DEFINE e == call[c].email
           o == call[c].org
<1>1. /\ at[c] = "decide" /\ Inside(c) /\ call[c].kind = "resolve" /\ call[c] \in CallRecord
      /\ e \in Email /\ o \in Org /\ See(c) \in SUBSET Row
  BY InsideAt, NothingAllowed DEF Decide, RowsInv, Stands, Types
<1>2. PICK r \in RequestsOf(o, e, See(c)) :
        LET again == sameResolvedDecision(r, call[c]) /\ r.person \in LoginsOf(e, See(c))
        IN \/ /\ again
              /\ who' = [who EXCEPT ![c] = r.person]
              /\ Step(c, {}, {}, "commit")
           \/ /\ ~again /\ MayDecide(c, r)
              /\ who' = [who EXCEPT ![c] = decidedPerson(r, call[c])]
              /\ Step(c, {}, {}, IF call[c].decision = "create-new" THEN "reserve" ELSE "taken")
           \/ ~again /\ ~MayDecide(c, r) /\ Refuse(c)
  BY DEF Decide
<1>3. r \in RequestRecord
  BY <1>1, RequestsAreRows
<1>4. Sound(See(c), e)
  BY <1>1 DEF RowsInv, Knows
<1>5. \A s \in RequestsOf(o, e, See(c)) : s = r
  BY <1>1, <1>4 DEF Sound
<1>6. ASSUME sameResolvedDecision(r, call[c]), r.person \in LoginsOf(e, See(c)),
             who' = [who EXCEPT ![c] = r.person], Step(c, {}, {}, "commit")
      PROVE  RowsInv'
  <2>1. Made(See(c), o, e, call[c].decision, r.person)
    BY <1>6 DEF sameResolvedDecision, Made
  <2>2. r.person \in Person /\ "commit" \in Section
    BY <1>6 DEF LoginsOf, Section
  <2> QED
    BY <1>1, <1>6, <2>1, <2>2, StepKeeps, NothingAllowed
<1>7. ASSUME MayDecide(c, r), who' = [who EXCEPT ![c] = decidedPerson(r, call[c])],
             NEW l, l = IF call[c].decision = "create-new" THEN "reserve" ELSE "taken",
             Step(c, {}, {}, l)
      PROVE  RowsInv'
  <2>1. decidedPerson(r, call[c]) \in Person
    <3>1. CASE call[c].decision = "create-new"
      BY <1>3, <3>1 DEF decidedPerson, RequestRecord
    <3>2. CASE call[c].decision # "create-new"
      <4>1. call[c].decision = "use-existing"
        BY <1>1, <3>2 DEF RowsInv, Stands, CallRecord
      <4> QED
        BY <1>3, <1>7, <4>1 DEF MayDecide, decidedPerson, RequestRecord
    <3> QED
      BY <3>1, <3>2
  <2>2. l \in Section /\ l \in {"reserve", "taken"}
    BY <1>7 DEF Section
  <2>3. \A s \in RequestsOf(o, e, See(c)) : s.status = "pending"
    BY <1>5, <1>7 DEF MayDecide
  <2> QED
    BY <1>1, <1>7, <2>1, <2>2, <2>3, StepKeeps, NothingAllowed
<1>8. CASE Refuse(c)
  BY <1>1, <1>8, RefuseSound
<1> QED
  BY <1>2, <1>6, <1>7, <1>8

(***************************************************************************)
(* The other steps of a call.                                              *)
(***************************************************************************)

LEMMA QuietKeeps ==
  ASSUME RowsInv, NEW c \in Caller, atomic' = atomic, decided' = decided \/ Decided',
         db' = db, staged' = staged, lock' = lock, \A d \in Caller \ {c} : Same(d),
         Inside(c)' <=> Inside(c), Inside(c) => call'[c].email = call[c].email
  PROVE  Rest(c)' /\ Held(c)'
<1>1. Change({}, {}, {}) /\ {} \in SUBSET Email /\ \A e \in {} : Sound(db', e)
  BY NothingChanges
<1>2. \A e \in Email : /\ lock'[e] = c <=> Inside(c)' /\ call'[c].email = e
                       /\ \A d \in Caller \ {c} : lock'[e] = d <=> lock[e] = d
  BY DEF RowsInv, Locks
<1>3. Rest(c)'
  BY <1>1, <1>2, RestKeeps
<1>4. Held(c)'
  BY DEF RowsInv, Held
<1> QED
  BY <1>3, <1>4

\* A call that ends: nothing is said of it any more.
LEMMA EndKeeps ==
  ASSUME RowsInv, NEW c \in Caller, atomic' = atomic, decided' = decided \/ Decided', ~Inside(c),
         db' = db, staged' = staged, lock' = lock,
         at' = [at EXCEPT ![c] = "idle"], call' = [call EXCEPT ![c] = NoCall],
         who' = who \/ who' = [who EXCEPT ![c] = None],
         UNCHANGED <<previous, taken>> \/ Forget(c),
         cache' \in [Email -> Person \union {None}], raced' = raced, outdated' = outdated
  PROVE  RowsInv'
<1>1. Types /\ NoCall \in CallRecord
  BY DEF RowsInv, NoCall, CallRecord
<1>2. who' \in [Caller -> Person \union {None}] /\ \A d \in Caller \ {c} : who'[d] = who[d]
  BY <1>1 DEF Types
<1>3. /\ previous' \in [Caller -> SUBSET Email] /\ taken' \in [Caller -> SUBSET Person]
      /\ \A d \in Caller \ {c} : taken'[d] = taken[d]
  BY <1>1 DEF Types, Forget
<1>4. Types'
  BY <1>1, <1>2, <1>3 DEF Types
<1>5. \A d \in Caller \ {c} : Same(d)
  BY <1>1, <1>2, <1>3 DEF Types, Same
<1>6. at'[c] = "idle" /\ call'[c] = NoCall
  BY <1>1 DEF Types
<1>7. ~Inside(c)'
  BY <1>6 DEF Inside, Section
<1>8. Rest(c)' /\ Held(c)'
  BY <1>5, <1>7, QuietKeeps
<1>9. Stands(c)' /\ Knows(c)'
  BY <1>6, <1>7 DEF Stands, Knows, Section, Locking, NoCall
<1> QED
  BY <1>4, <1>8, <1>9 DEF Rest, RowsInv

LEMMA BeginSound ==
  ASSUME RowsInv, NEW c \in Caller, NEW k \in CallRecord, k.kind # "none", k.email \in Email,
         k.kind \in {"register", "resolve"} => k.org \in Org,
         k.kind = "resolve" => k.decision # "none",
         k.kind = "setLogin" => k.person \in Person,
         Begin(c, k)
  PROVE  RowsInv'
<1> DEFINE l == IF k.kind \in {"register", "resolve"} THEN "lock"
                ELSE IF k.kind = "setLogin" THEN "taken" ELSE "read"
<1>1. /\ at[c] = "idle" /\ call' = [call EXCEPT ![c] = k] /\ at' = [at EXCEPT ![c] = l]
      /\ who' = [who EXCEPT ![c] = IF k.kind = "setLogin" THEN k.person ELSE None]
      /\ UNCHANGED <<db, staged, lock, cache, previous, taken, atomic, decided, raced, outdated>>
  BY DEF Begin, Goto, tables, reads, history
<1>2. Types
  BY DEF RowsInv
<1>3. k.person \in Person \union {None} /\ k.kind \in {"none", "register", "resolve", "setLogin", "lookup"}
  BY DEF CallRecord
<1>4. Types'
  <2>1. l \in {"lock", "taken", "read"} /\ "taken" \in Section
    BY DEF Section
  <2>2. at' \in [Caller -> Section \union {"idle", "lock", "cache", "answer", "read", "fill"}]
    BY <1>1, <1>2, <2>1 DEF Types
  <2>3. call' \in [Caller -> CallRecord] /\ who' \in [Caller -> Person \union {None}]
    BY <1>1, <1>2, <1>3 DEF Types
  <2> QED
    BY <1>1, <1>2, <2>2, <2>3 DEF Types
<1>5. \A d \in Caller \ {c} : Same(d)
  BY <1>1, <1>2 DEF Types, Same
<1>6. at'[c] = l /\ call'[c] = k /\ (k.kind = "setLogin" => who'[c] = k.person)
  BY <1>1, <1>2 DEF Types
<1>7. ~Inside(c) /\ ~Inside(c)'
  BY <1>1, <1>6 DEF Inside, Section, Locking
<1>8. Rest(c)' /\ Held(c)'
  BY <1>1, <1>5, <1>7, QuietKeeps
<1>9. /\ l \notin (Section \ {"taken"}) \union {"answer", "cache", "fill", "idle"}
      /\ l = "lock" => k.kind \in {"register", "resolve"}
      /\ l = "taken" => k.kind = "setLogin"
      /\ l = "read" => k.kind = "lookup"
  BY <1>3 DEF Section
<1> HIDE DEF l
<1>10. Stands(c)'
  BY <1>6, <1>9 DEF Stands, Locking, Section
<1>11. Knows(c)'
  BY <1>6, <1>7, <1>9 DEF Knows, Section
<1> QED
  BY <1>4, <1>8, <1>10, <1>11 DEF Rest, RowsInv

LEMMA TakeLockSound == ASSUME RowsInv, NEW c \in Caller, TakeLock(c) PROVE RowsInv'
<1> DEFINE e == call[c].email
           l == IF call[c].kind = "register" THEN "find" ELSE "decide"
<1>1. /\ at[c] = "lock" /\ lock[e] = None /\ lock' = [lock EXCEPT ![e] = c] /\ at' = [at EXCEPT ![c] = l]
      /\ UNCHANGED <<db, staged, cache, call, who, previous, taken, atomic, decided, raced, outdated>>
  BY DEF TakeLock, Goto, tables, reads, machine, history
<1>2. Types /\ Locking(c) /\ e \in Email
  BY <1>1 DEF RowsInv, Stands
<1>3. Types'
  <2>1. l \in Section
    BY DEF Section
  <2> QED
    BY <1>1, <1>2, <2>1 DEF Types
<1>4. \A d \in Caller \ {c} : Same(d)
  BY <1>1, <1>2 DEF Types, Same
<1>5. at'[c] = l /\ Inside(c)' /\ ~Inside(c)
  BY <1>1, <1>2 DEF Types, Inside, Section, Locking
<1>6. Rest(c)'
  <2>1. Change({}, {}, {}) /\ {} \in SUBSET Email /\ \A f \in {} : Sound(db', f)
    BY <1>1, NothingChanges
  <2>2. \A f \in Email : /\ lock'[f] = c <=> Inside(c)' /\ call'[c].email = f
                         /\ \A d \in Caller \ {c} : lock'[f] = d <=> lock[f] = d
    BY <1>1, <1>2, <1>5, RegistrationAssumption DEF RowsInv, Locks, Types
  <2> QED
    BY <1>1, <1>4, <2>1, <2>2, RestKeeps
<1>7. staged[c].del = {} /\ staged[c].add = {}
  BY <1>5 DEF RowsInv, Held
<1>8. Held(c)'
  BY <1>1, <1>7 DEF Held
<1>9. Stands(c)'
  BY <1>1, <1>2, <1>5 DEF RowsInv, Stands, Section, Locking
<1>10. Knows(c)'
  <2>1. See(c)' = db
    BY <1>1, <1>7 DEF See
  <2>2. Sound(db, e)
    BY <1>2 DEF RowsInv
  <2> QED
    BY <1>1, <1>5, <2>1, <2>2 DEF Knows, Sound
<1> QED
  BY <1>3, <1>6, <1>8, <1>9, <1>10 DEF Rest, RowsInv

LEMMA CheckSound == ASSUME RowsInv, NEW c \in Caller, CheckTaken(c) PROVE RowsInv'
<1> DEFINE e == call[c].email
<1>1. at[c] = "taken"
  BY DEF CheckTaken
<1>2. CASE Refuse(c)
  BY <1>1, <1>2, RefuseSound
<1>3. ASSUME LoginsOf(e, See(c)) \subseteq {who[c]}, FindLogins(c), Goto(c, "write"),
             UNCHANGED <<tables, lock, cache, contact, call, who, machine, history>>
      PROVE  RowsInv'
  <2>1. Types
    BY DEF RowsInv
  <2>2. /\ previous' = [previous EXCEPT ![c] = EmailsOf(who[c], See(c))]
        /\ taken' = [taken EXCEPT ![c] = LoginsOf(e, See(c))]
        /\ at' = [at EXCEPT ![c] = "write"]
        /\ UNCHANGED <<db, staged, lock, cache, call, who, atomic, decided, raced, outdated>>
    BY <1>3 DEF FindLogins, Goto, tables, machine, history
  <2>3. EmailsOf(who[c], See(c)) \subseteq Email /\ LoginsOf(e, See(c)) \subseteq Person
    BY DEF EmailsOf, LoginsOf
  <2>4. Types'
    <3>1. "write" \in Section
      BY DEF Section
    <3> QED
      BY <2>1, <2>2, <2>3, <3>1 DEF Types
  <2>5. \A d \in Caller \ {c} : Same(d)
    BY <2>1, <2>2 DEF Types, Same
  <2>6. at'[c] = "write" /\ taken'[c] \subseteq {who[c]}
    BY <1>3, <2>1, <2>2 DEF Types
  <2>7. Inside(c)' <=> Inside(c)
    BY <1>1, <2>2, <2>6 DEF Inside, Section, Locking
  <2>8. Rest(c)' /\ Held(c)'
    BY <2>2, <2>5, <2>7, QuietKeeps
  <2>9. Stands(c)'
    BY <1>1, <2>2, <2>6 DEF RowsInv, Stands, Section, Locking
  <2>10. See(c)' = See(c)
    BY <2>2 DEF See
  <2>11. Knows(c)'
    BY <1>1, <2>2, <2>6, <2>7, <2>10 DEF RowsInv, Knows, Sound
  <2> QED
    BY <2>4, <2>8, <2>9, <2>11 DEF Rest, RowsInv
<1> QED
  BY <1>2, <1>3 DEF CheckTaken

LoginsOnly(p, rows) == \A x \in rows : \E e \in Email : x = Login(p, e)

LEMMA LoginWrites ==
  ASSUME NEW p \in Person, NEW del, NEW add, LoginsOnly(p, del \union add)
  PROVE  /\ del \subseteq Loose /\ add \subseteq Row
         /\ \A f \in Email : (del \union add) \intersect About(f) = {}
<1>1. \A x \in del \union add : x \in Row /\ x[1] = "login"
  BY LoginRows DEF LoginsOnly
<1> QED
  BY <1>1 DEF Loose, About

\* What a call writes in WriteLogin.
Lost(c) == {Login(who[c], q) : q \in previous[c] \ {call[c].email}}
Gained(c) == IF call[c].email \in previous[c] THEN {} ELSE {Login(who[c], call[c].email)}

\* What it has read is still so, unless it races with another.
Alone(c) ==
  /\ raced => raced'
  /\ ~raced' => /\ EmailsOf(who[c], See(c)) = previous[c] /\ LoginsOf(call[c].email, See(c)) = taken[c]
                /\ \A d \in Caller \ {c}, q \in Email :
                     Login(who[c], q) \notin staged[d].del \union staged[d].add

LEMMA WriteLoginCases ==
  ASSUME RowsInv, NEW c \in Caller, WriteLogin(c)
  PROVE  /\ at[c] = "write" /\ ~Waits(c) /\ call[c].email \in Email /\ who[c] \in Person
         /\ Lost(c) \subseteq Loose /\ Gained(c) \subseteq Row
         /\ \A f \in Email : (Lost(c) \union Gained(c)) \intersect About(f) = {}
         /\ \/ Refuse(c)
            \/ /\ UNCHANGED <<lock, cache, call, who, previous, taken, atomic, decided>>
               /\ raced' \in BOOLEAN /\ outdated' \subseteq Email
               /\ Alone(c) /\ outdated \union Overtaken(c, db') \subseteq outdated'
               /\ \/ /\ call[c].kind = "setLogin" /\ ~Inside(c)
                     /\ db' = (db \ Lost(c)) \union Gained(c) /\ staged' = staged
                     /\ at' = [at EXCEPT ![c] = "cache"]
                  \/ /\ call[c].kind # "setLogin" /\ Inside(c)
                     /\ previous[c] \ {call[c].email} \subseteq outdated'
                     /\ Write(c, Lost(c), Gained(c)) /\ at' = [at EXCEPT ![c] = "attach"]
<1>1. at[c] = "write" /\ ~Waits(c) /\ call[c].email \in Email /\ who[c] \in Person
  BY DEF WriteLogin, RowsInv, Stands
<1>2. previous[c] \subseteq Email /\ outdated \subseteq Email /\ raced \in BOOLEAN
  BY DEF RowsInv, Types
<1>3. /\ Lost(c) \subseteq Loose /\ Gained(c) \subseteq Row
      /\ \A f \in Email : (Lost(c) \union Gained(c)) \intersect About(f) = {}
  <2>1. LoginsOnly(who[c], Lost(c) \union Gained(c))
    BY <1>1, <1>2 DEF Lost, Gained, LoginsOnly
  <2> QED
    BY <1>1, <2>1, LoginWrites
<1>4. ASSUME ~Refuse(c)
      PROVE  /\ UNCHANGED <<lock, cache, contact, call, who, reads, machine, decided>>
             /\ raced' \in BOOLEAN /\ outdated' \subseteq Email
             /\ Alone(c) /\ outdated \union Overtaken(c, db') \subseteq outdated'
             /\ \/ /\ call[c].kind = "setLogin"
                   /\ db' = (db \ Lost(c)) \union Gained(c) /\ staged' = staged
                   /\ at' = [at EXCEPT ![c] = "cache"]
                \/ /\ call[c].kind # "setLogin"
                   /\ previous[c] \ {call[c].email} \subseteq outdated'
                   /\ Write(c, Lost(c), Gained(c)) /\ at' = [at EXCEPT ![c] = "attach"]
  <2>1. UNCHANGED <<lock, cache, contact, call, who, reads, machine, decided>>
    BY <1>4 DEF WriteLogin
  <2>2. raced' \in BOOLEAN
    BY <1>4 DEF WriteLogin
  <2>3. outdated' \subseteq Email
    BY <1>2, <1>4 DEF WriteLogin, Overtaken
  <2>4. \/ /\ call[c].kind = "setLogin"
           /\ db' = (db \ Lost(c)) \union Gained(c) /\ staged' = staged
           /\ at' = [at EXCEPT ![c] = "cache"]
        \/ /\ call[c].kind # "setLogin"
           /\ previous[c] \ {call[c].email} \subseteq outdated'
           /\ Write(c, Lost(c), Gained(c)) /\ at' = [at EXCEPT ![c] = "attach"]
    BY <1>4 DEF WriteLogin, Lost, Gained, Goto
  <2>5. Alone(c)
    BY <1>4 DEF WriteLogin, Alone
  <2>6. outdated \union Overtaken(c, db') \subseteq outdated'
    BY <1>4 DEF WriteLogin
  <2> QED
    BY <2>1, <2>2, <2>3, <2>4, <2>5, <2>6
<1>5. Inside(c) <=> call[c].kind # "setLogin"
  BY <1>1 DEF RowsInv, Stands, Inside, Section, Locking
<1> QED
  BY <1>1, <1>3, <1>4, <1>5 DEF reads, machine

LEMMA WriteLoginSound == ASSUME RowsInv, NEW c \in Caller, WriteLogin(c) PROVE RowsInv'
<1> DEFINE e == call[c].email
           o == call[c].org
<1>1. /\ at[c] = "write" /\ e \in Email /\ who[c] \in Person
      /\ Lost(c) \subseteq Loose /\ Gained(c) \subseteq Row
      /\ \A f \in Email : (Lost(c) \union Gained(c)) \intersect About(f) = {}
  BY WriteLoginCases
<1>2. PICK del, add : del = Lost(c) /\ add = Gained(c)
  OBVIOUS
<1>3. Types
  BY DEF RowsInv
<1>4. CASE Refuse(c)
  BY <1>1, <1>4, RefuseSound
<1>5. ASSUME UNCHANGED <<lock, cache, call, who, previous, taken, atomic, decided>>,
             raced' \in BOOLEAN, outdated' \subseteq Email,
             call[c].kind = "setLogin", ~Inside(c),
             db' = (db \ del) \union add, staged' = staged, at' = [at EXCEPT ![c] = "cache"]
      PROVE  RowsInv'
  <2>1. \A d \in Caller \ {c} : Same(d)
    BY <1>3, <1>5 DEF Types, Same
  <2>2. at'[c] = "cache"
    BY <1>3, <1>5 DEF Types
  <2>3. ~Inside(c)'
    BY <2>2 DEF Inside, Section
  <2>4. Rest(c)' /\ db' \subseteq Row
    <3>1. Change({}, del, add) /\ {} \in SUBSET Email /\ \A f \in {} : Sound(db', f)
      BY <1>1, <1>2, <1>5 DEF Change
    <3>2. \A f \in Email : /\ lock'[f] = c <=> Inside(c)' /\ call'[c].email = f
                           /\ \A d \in Caller \ {c} : lock'[f] = d <=> lock[f] = d
      BY <1>5, <2>3 DEF RowsInv, Locks
    <3> QED
      BY <1>5, <2>1, <3>1, <3>2, RestKeeps
  <2>5. Types'
    BY <1>3, <1>5, <2>4 DEF Types
  <2>6. Stands(c)' /\ Held(c)' /\ Knows(c)'
    <3>1. Stands(c)'
      BY <1>1, <1>5, <2>2 DEF Stands, Section, Locking
    <3>2. Held(c)'
      BY <1>5, <2>3 DEF RowsInv, Held
    <3>3. Knows(c)'
      BY <1>5, <2>2, <2>3 DEF Knows
    <3> QED
      BY <3>1, <3>2, <3>3
  <2> QED
    BY <2>4, <2>5, <2>6 DEF Rest, RowsInv
<1>6. ASSUME UNCHANGED <<lock, cache, call, who, previous, taken, atomic, decided>>,
             raced' \in BOOLEAN, outdated' \subseteq Email,
             Inside(c), Write(c, del, add), at' = [at EXCEPT ![c] = "attach"]
      PROVE  RowsInv'
  <2> DEFINE more == (See(c) \ del) \union add
  <2>1. See(c) \in SUBSET Row /\ Sound(See(c), e) /\ o \in Org
    BY <1>6, NothingAllowed DEF RowsInv, Knows
  <2>2. more \in SUBSET Row /\ more \intersect About(e) = See(c) \intersect About(e)
    BY <1>1, <1>2, <2>1
  <2>3. Sound(more, e) /\ RequestsOf(o, e, more) = RequestsOf(o, e, See(c))
    BY <1>1, <2>1, <2>2, SameRows
  <2>4. Allowed(c, del, add)
    BY <1>1, <1>2, <1>6, <2>3 DEF Allowed
  <2>5. "attach" \in Section /\ who[c] \in Person \union {None} /\ who' = [who EXCEPT ![c] = who[c]]
    BY <1>3, <1>6 DEF Section, Types
  <2>6. UNCHANGED <<atomic, lock, call, taken, decided>>
    BY <1>6
  <2> HIDE DEF more
  <2>7. /\ Rest(c)' /\ Held(c)' /\ Inside(c)'
        /\ See(c)' = more /\ Sound(See(c)', call[c].email)
        /\ db' \subseteq Row /\ staged' \in [Caller -> [del : SUBSET Row, add : SUBSET Row]]
        /\ at'[c] = "attach"
        /\ at' \in [Caller -> Section \union {"idle", "lock", "cache", "answer", "read", "fill"}]
    BY <1>6, <2>4, <2>5, <2>6, WriteKeeps DEF more
  <2>8. Types'
    BY <1>3, <1>6, <2>7 DEF Types
  <2>9. Stands(c)'
    BY <1>1, <1>6, <2>1, <2>7 DEF Inside, Locking, Section, RowsInv, Stands
  <2>10. call[c].kind = "resolve" => \A r \in RequestsOf(o, e, more) : r.status = "pending"
    BY <1>1, <2>3 DEF RowsInv, Knows
  <2>11. Knows(c)'
    BY <1>6, <2>7, <2>10 DEF Knows
  <2> QED
    BY <2>7, <2>8, <2>9, <2>11 DEF Rest, RowsInv
<1> QED
  BY <1>2, <1>4, <1>5, <1>6, WriteLoginCases

LEMMA WriteCacheSound == ASSUME RowsInv, NEW c \in Caller, writeIdentityCache(c) PROVE RowsInv'
<1>1. /\ at[c] = "cache" /\ at' = [at EXCEPT ![c] = "idle"] /\ call' = [call EXCEPT ![c] = NoCall]
      /\ who' = [who EXCEPT ![c] = None] /\ Forget(c)
      /\ cache' = [e \in Email |-> IF e = call[c].email THEN who[c]
                                   ELSE IF e \in previous[c] THEN None ELSE cache[e]]
      /\ UNCHANGED <<db, staged, lock, atomic, decided, raced, outdated>>
  BY DEF writeIdentityCache, Goto, tables, machine, history
<1>2. cache' \in [Email -> Person \union {None}] /\ ~Inside(c)
  BY <1>1 DEF RowsInv, Types, Inside, Section
<1> QED
  BY <1>1, <1>2, EndKeeps

LEMMA AnswerSound == ASSUME RowsInv, NEW c \in Caller, Answer(c) PROVE RowsInv'
<1> DEFINE e == call[c].email
           o == call[c].org
<1>1. /\ at[c] = "answer" /\ at' = [at EXCEPT ![c] = "idle"] /\ call' = [call EXCEPT ![c] = NoCall]
      /\ who' = [who EXCEPT ![c] = None] /\ Forget(c)
      /\ cache' = [cache EXCEPT ![e] = None]
      /\ decided' = IF call[c].kind = "resolve"
                    THEN decided \union {<<o, e, call[c].decision, who[c]>>} ELSE decided
      /\ UNCHANGED <<db, staged, lock, atomic, raced, outdated>>
  BY DEF Answer, Goto, tables, machine
<1>2. cache' \in [Email -> Person \union {None}] /\ ~Inside(c)
  BY <1>1 DEF RowsInv, Types, Inside, Section
<1>3. Decided'
  <2>1. \A x \in decided' : Recorded(x, db)
    <3>1. CASE decided' = decided
      BY <3>1 DEF RowsInv, Decided
    <3>2. CASE call[c].kind = "resolve"
      <4>1. Made(db, o, e, call[c].decision, who[c])
        BY <1>1, <3>2 DEF RowsInv, Knows
      <4>2. o \in Org /\ e \in Email /\ who[c] \in Person \union {None}
            /\ call[c].decision \in {"create-new", "use-existing"}
        BY <1>1, <3>2 DEF RowsInv, Stands, Types, CallRecord, Locking
      <4>3. Recorded(<<o, e, call[c].decision, who[c]>>, db)
        BY <4>1, <4>2 DEF Recorded
      <4> QED
        BY <1>1, <3>2, <4>3 DEF RowsInv, Decided
    <3> QED
      BY <1>1, <3>1, <3>2
  <2> QED
    BY <1>1, <2>1 DEF Decided, Recorded, Made
<1> QED
  BY <1>1, <1>2, <1>3, EndKeeps

LEMMA CommitSound == ASSUME RowsInv, NEW c \in Caller, Commit(c) PROVE RowsInv'
<1> DEFINE e == call[c].email
           o == call[c].org
<1>1. /\ at[c] = "commit" /\ at' = [at EXCEPT ![c] = "answer"] /\ db' = See(c)
      /\ staged' = [staged EXCEPT ![c] = NoWrites]
      /\ lock' = [f \in Email |-> IF lock[f] = c THEN None ELSE lock[f]]
      /\ outdated' = outdated \union Overtaken(c, db')
      /\ UNCHANGED <<cache, call, who, previous, taken, atomic, decided, raced>>
  BY DEF Commit, Goto, Unlock, reads, machine
<1>2. Types /\ Inside(c) /\ e \in Email /\ o \in Org /\ See(c) \in SUBSET Row /\ Sound(See(c), e)
  BY <1>1, InsideAt, NothingAllowed DEF RowsInv, Knows
<1>3. /\ staged[c].del \subseteq Loose /\ staged[c].add \subseteq Row
      /\ \A f \in Email \ {e} : (staged[c].del \union staged[c].add) \intersect About(f) = {}
  BY <1>2 DEF RowsInv, Held, Types
<1>4. at'[c] = "answer" /\ staged'[c] = NoWrites /\ \A d \in Caller \ {c} : Same(d)
  BY <1>1, <1>2 DEF Types, Same
<1>5. ~Inside(c)'
  BY <1>4 DEF Inside, Section
<1>6. Rest(c)' /\ db' \subseteq Row
  <2>1. PICK del, add : del = staged[c].del /\ add = staged[c].add
    OBVIOUS
  <2>2. Change({e}, del, add)
    BY <1>1, <1>3, <2>1 DEF Change, See
  <2>3. {e} \in SUBSET Email /\ \A f \in {e} : Sound(db', f)
    BY <1>1, <1>2
  <2>4. \A f \in Email : /\ lock'[f] = c <=> Inside(c)' /\ call'[c].email = f
                         /\ \A d \in Caller \ {c} : lock'[f] = d <=> lock[f] = d
    BY <1>1, <1>2, <1>5, RegistrationAssumption DEF Types
  <2> QED
    BY <1>1, <1>2, <1>4, <2>2, <2>3, <2>4, RestKeeps
<1>7. Types'
  <2>1. staged' \in [Caller -> [del : SUBSET Row, add : SUBSET Row]]
    BY <1>1, <1>2 DEF Types, NoWrites
  <2>2. lock' \in [Email -> Caller \union {None}] /\ outdated' \subseteq Email
    BY <1>1, <1>2 DEF Types, Overtaken
  <2>3. at' \in [Caller -> Section \union {"idle", "lock", "cache", "answer", "read", "fill"}]
    BY <1>1, <1>2 DEF Types
  <2> QED
    BY <1>1, <1>2, <1>6, <2>1, <2>2, <2>3 DEF Types
<1>8. Stands(c)'
  BY <1>1, <1>2, <1>4 DEF RowsInv, Stands, Section, Locking, Inside
<1>9. Held(c)'
  BY <1>4, <1>5 DEF Held, NoWrites
<1>10. Knows(c)'
  <2>1. call[c].kind = "resolve" => Made(db', o, e, call[c].decision, who[c])
    BY <1>1 DEF RowsInv, Knows
  <2> QED
    BY <1>1, <1>4, <1>5, <2>1 DEF Knows, Made
<1> QED
  BY <1>6, <1>7, <1>8, <1>9, <1>10 DEF Rest, RowsInv

LEMMA ReadLoginSound == ASSUME RowsInv, NEW c \in Caller, ReadLogin(c) PROVE RowsInv'
<1>1. /\ at[c] = "read" /\ cache' = cache /\ cache \in [Email -> Person \union {None}]
      /\ UNCHANGED <<db, staged, lock, previous, taken, atomic, decided, raced, outdated>>
  BY DEF ReadLogin, tables, reads, machine, history, RowsInv, Types
<1>2. ~Inside(c)
  BY <1>1 DEF Inside, Section
<1>3. CASE at' = [at EXCEPT ![c] = "idle"] /\ call' = [call EXCEPT ![c] = NoCall] /\ UNCHANGED who
  BY <1>1, <1>2, <1>3, EndKeeps
<1>4. ASSUME NEW p \in LoginsOf(call[c].email, db), who' = [who EXCEPT ![c] = p],
             at' = [at EXCEPT ![c] = "fill"], UNCHANGED call
      PROVE  RowsInv'
  <2>1. p \in Person /\ Types
    BY DEF LoginsOf, RowsInv
  <2>2. Types'
    BY <1>1, <1>4, <2>1 DEF Types
  <2>3. at'[c] = "fill" /\ who'[c] = p /\ \A d \in Caller \ {c} : Same(d)
    BY <1>1, <1>4, <2>1 DEF Types, Same
  <2>4. ~Inside(c)'
    BY <2>3 DEF Inside, Section
  <2>5. Rest(c)' /\ Held(c)'
    BY <1>1, <1>2, <2>3, <2>4, QuietKeeps
  <2>6. Stands(c)' /\ Knows(c)'
    BY <1>1, <1>4, <2>1, <2>3, <2>4 DEF RowsInv, Stands, Knows, Section, Locking
  <2> QED
    BY <2>2, <2>5, <2>6 DEF Rest, RowsInv
<1> QED
  BY <1>3, <1>4 DEF ReadLogin, Goto

LEMMA FillSound == ASSUME RowsInv, NEW c \in Caller, FillCache(c) PROVE RowsInv'
<1>1. /\ at[c] = "fill" /\ at' = [at EXCEPT ![c] = "idle"] /\ call' = [call EXCEPT ![c] = NoCall]
      /\ who' = [who EXCEPT ![c] = None] /\ cache' = [cache EXCEPT ![call[c].email] = who[c]]
      /\ UNCHANGED <<db, staged, lock, previous, taken, atomic, decided, raced, outdated>>
  BY DEF FillCache, Goto, tables, reads, machine, history
<1>2. cache' \in [Email -> Person \union {None}] /\ ~Inside(c)
  BY <1>1 DEF RowsInv, Types, Inside, Section
<1> QED
  BY <1>1, <1>2, EndKeeps

\* A step of nobody's call.
allButCache == <<db, staged, lock, at, call, who, previous, taken, atomic, decided, raced, outdated>>

LEMMA NobodySound ==
  ASSUME RowsInv, UNCHANGED allButCache,
         cache' \in [Email -> Person \union {None}]
  PROVE  RowsInv'
<1>1. Types'
  BY DEF RowsInv, Types, allButCache
<1>2. \A e \in Email : Sound(db, e)'
  BY DEF RowsInv, Sound, allButCache
<1>3. ASSUME NEW c \in Caller
      PROVE  Stands(c)' /\ Held(c)' /\ Knows(c)' /\ (Inside(c)' <=> Inside(c))
  <2>1. Same(c) /\ Change({}, {}, {}) /\ {} \in SUBSET Email
    BY NothingChanges DEF Same, allButCache
  <2> QED
    BY <2>1, OthersKeep DEF allButCache
<1>4. Locks' /\ Decided'
  BY <1>3 DEF RowsInv, Locks, Decided, Recorded, Made, allButCache
<1> QED
  BY <1>1, <1>2, <1>3, <1>4 DEF RowsInv

LEMMA InitSound == RegistrationInit => RowsInv
<1> SUFFICES ASSUME RegistrationInit PROVE RowsInv
  OBVIOUS
<1>1. Types
  <2>1. db \subseteq Row
    BY CreatedRows DEF RegistrationInit, Person
  <2>2. staged \in [Caller -> [del : SUBSET Row, add : SUBSET Row]]
    BY DEF RegistrationInit, NoWrites
  <2>3. call \in [Caller -> CallRecord]
    BY DEF RegistrationInit, NoCall, CallRecord
  <2> QED
    BY <2>1, <2>2, <2>3 DEF RegistrationInit, Types
<1>2. \A c \in Caller : at[c] = "idle" /\ ~Inside(c) /\ call[c] = NoCall /\ staged[c] = NoWrites
  BY DEF RegistrationInit, Inside, Section
<1>3. \A x \in db : \E p \in Person : x = Created(p, None)
  BY DEF RegistrationInit, Person
<1>4. ASSUME NEW e \in Email
      PROVE  Sound(db, e)
  <2>1. \A p \in Person : Reserved(e, p) \notin db
    BY <1>3 DEF Reserved, Created
  <2>2. \A p \in Person : Created(p, e) \notin db
    BY <1>3, CreatedRows, RegistrationAssumption
  <2>3. \A o \in Org : RequestsOf(o, e, db) = {}
    BY <1>3 DEF RequestsOf, Created
  <2> QED
    BY <2>1, <2>2, <2>3 DEF Sound
<1>5. Locks
  BY <1>2, RegistrationAssumption DEF RegistrationInit, Locks
<1>6. \A c \in Caller : Stands(c) /\ Held(c) /\ Knows(c)
  BY <1>2 DEF Stands, Held, Knows, Section, Locking, NoCall, NoWrites
<1>7. Decided
  BY DEF RegistrationInit, Decided
<1> QED
  BY <1>1, <1>4, <1>5, <1>6, <1>7 DEF RowsInv

Begins(c, k) ==
  /\ Begin(c, k) /\ k \in CallRecord /\ k.kind # "none" /\ k.email \in Email
  /\ k.kind \in {"register", "resolve"} => k.org \in Org
  /\ k.kind = "resolve" => k.decision # "none"
  /\ k.kind = "setLogin" => k.person \in Person

\* The calls that arrive ask for what they should.
LEMMA CallsBegin ==
  ASSUME RowsInv, NEW c \in Caller, NEW e \in Email,
         \/ lookupLogin(c, e)
         \/ \E o \in Org : ensureSelfRegistration(c, e, o) \/ resolveAccessRequest(c, e, o)
         \/ \E p \in Person : setLogin(c, p, e)
  PROVE  \E k : Begins(c, k)
<1>1. ASSUME lookupLogin(c, e)
      PROVE  \E k : Begins(c, k)
  <2>1. Begins(c, [NoCall EXCEPT !.kind = "lookup", !.email = e])
    BY <1>1 DEF lookupLogin, Begins, NoCall, CallRecord
  <2> QED
    BY <2>1
<1>2. ASSUME NEW o \in Org, ensureSelfRegistration(c, e, o)
      PROVE  \E k : Begins(c, k)
  <2>1. Begins(c, [NoCall EXCEPT !.kind = "register", !.email = e, !.org = o])
    BY <1>2 DEF ensureSelfRegistration, Begins, NoCall, CallRecord
  <2> QED
    BY <2>1
<1>3. ASSUME NEW o \in Org, resolveAccessRequest(c, e, o)
      PROVE  \E k : Begins(c, k)
  <2>1. PICK p \in Person \union {None} :
          Begin(c, [NoCall EXCEPT !.kind = "resolve", !.email = e, !.org = o, !.person = p,
                                  !.decision = IF p = None THEN "create-new" ELSE "use-existing"])
    BY <1>3 DEF resolveAccessRequest
  <2>2. Begins(c, [NoCall EXCEPT !.kind = "resolve", !.email = e, !.org = o, !.person = p,
                                 !.decision = IF p = None THEN "create-new" ELSE "use-existing"])
    BY <2>1 DEF Begins, NoCall, CallRecord
  <2> QED
    BY <2>2
<1>4. ASSUME NEW p \in Person, setLogin(c, p, e)
      PROVE  \E k : Begins(c, k)
  <2>1. Begins(c, [NoCall EXCEPT !.kind = "setLogin", !.email = e, !.person = p])
    BY <1>4 DEF setLogin, Begins, NoCall, CallRecord
  <2> QED
    BY <2>1
<1> QED
  BY <1>1, <1>2, <1>3, <1>4

LEMMA NextSound == RowsInv /\ [RegistrationNext]_registrationVars => RowsInv'
<1> SUFFICES ASSUME RowsInv, [RegistrationNext]_registrationVars PROVE RowsInv'
  OBVIOUS
<1>1. ASSUME NEW c \in Caller, CallStep(c)
      PROVE  RowsInv'
  BY <1>1, TakeLockSound, FindSound, RecoverSound, ReserveSound, DraftSound, CheckSound, WriteLoginSound,
     WriteCacheSound, AttachSound, ReconcileSound, DecideSound, MarkSound, CommitSound, AnswerSound,
     ReadLoginSound, FillSound DEF CallStep
<1>2. ASSUME NEW c \in Caller, Fault(c)
      PROVE  RowsInv'
  BY <1>2, FaultSound
<1>3. ASSUME NEW c \in Caller, NEW e \in Email,
             \/ lookupLogin(c, e)
             \/ \E o \in Org : ensureSelfRegistration(c, e, o) \/ resolveAccessRequest(c, e, o)
             \/ \E p \in Person : setLogin(c, p, e)
      PROVE  RowsInv'
  BY <1>3, CallsBegin, BeginSound DEF Begins
<1>4. ASSUME NEW p \in Person, NEW e \in Email, ContactChanges(p, e)
      PROVE  RowsInv'
  <2>1. UNCHANGED allButCache /\ cache' = cache
    BY <1>4 DEF ContactChanges, allButCache, tables, reads, history
  <2> QED
    BY <2>1, NobodySound DEF RowsInv, Types
<1>5. ASSUME NEW e \in Email, CacheExpires(e)
      PROVE  RowsInv'
  <2>1. UNCHANGED allButCache /\ cache' = [cache EXCEPT ![e] = None]
    BY <1>5 DEF CacheExpires, allButCache, tables, reads, machine, history
  <2> QED
    BY <2>1, NobodySound DEF RowsInv, Types
<1>6. CASE UNCHANGED registrationVars
  <2>1. UNCHANGED allButCache /\ cache' = cache
    BY <1>6 DEF registrationVars, allButCache, tables, reads, machine, history
  <2> QED
    BY <2>1, NobodySound DEF RowsInv, Types
<1> QED
  BY <1>1, <1>2, <1>3, <1>4, <1>5, <1>6 DEF RegistrationNext

LEMMA AlwaysSound == RegistrationSpec => []RowsInv
<1> QED
  BY InitSound, NextSound, PTL DEF RegistrationSpec

LEMMA AtMostOne ==
  ASSUME NEW S, \A x, y \in S : x = y
  PROVE  Cardinality(S) <= 1
<1>1. CASE S = {}
  BY <1>1, FS_EmptySet
<1>2. ASSUME NEW x \in S
      PROVE  Cardinality(S) <= 1
  <2>1. S = {x}
    OBVIOUS
  <2> QED
    BY <2>1, FS_Singleton
<1> QED
  BY <1>1, <1>2

\* Decisions on one request that were answered agree, whoever asked again and
\* whatever failed in between: a request keeps what was first decided
\* (registrationRequests.ts, resolveAccessRequest).
THEOREM DecisionsAreFinal == RegistrationSpec => []OneDecision
<1>1. RowsInv => OneDecision
  <2> SUFFICES ASSUME RowsInv, NEW a \in decided, NEW b \in decided, a[1] = b[1], a[2] = b[2]
               PROVE  a = b
    BY DEF OneDecision
  <2>1. PICK o \in Org, e \in Email, decision \in {"create-new", "use-existing"}, p \in Person \union {None} :
          a = <<o, e, decision, p>> /\ Made(db, o, e, decision, p)
    BY DEF RowsInv, Decided, Recorded
  <2>2. PICK m \in Org, f \in Email, verdict \in {"create-new", "use-existing"}, q \in Person \union {None} :
          b = <<m, f, verdict, q>> /\ Made(db, m, f, verdict, q)
    BY DEF RowsInv, Decided, Recorded
  <2>3. o = m /\ e = f
    BY <2>1, <2>2
  <2>4. \A r, s \in RequestsOf(o, e, db) : r = s
    BY DEF RowsInv, Sound
  <2>5. decision = verdict /\ p = q
    BY <2>1, <2>2, <2>3, <2>4 DEF Made
  <2> QED
    BY <2>1, <2>2, <2>3, <2>5
<1> QED
  BY <1>1, AlwaysSound, PTL

\* Registrations, decisions and their repetitions create one person at most for
\* an e-mail, in PostgreSQL and in memory (selfRegistration.ts,
\* reserveLoginPerson, ensureDraftPerson).
THEOREM OnePersonIsCreated == RegistrationSpec => []OnePersonPerEmail
<1>1. RowsInv => OnePersonPerEmail
  <2> SUFFICES ASSUME RowsInv, NEW e \in Email
               PROVE  Cardinality({p \in Person : Created(p, e) \in db}) <= 1
    BY DEF OnePersonPerEmail
  <2>1. \A p, q \in Person : Created(p, e) \in db /\ Created(q, e) \in db => p = q
    BY DEF RowsInv, Sound
  <2> QED
    BY <2>1, AtMostOne
<1> QED
  BY <1>1, AlwaysSound, PTL

(***************************************************************************)
(* Logins.                                                                 *)
(***************************************************************************)

\* A step of c changes no login, and no other call's writes.
LoginsKept(c) ==
  /\ \A d \in Caller \ {c} : staged'[d] = staged[d]
  /\ \A p \in Person, e \in Email :
       /\ Login(p, e) \in db' <=> Login(p, e) \in db
       /\ \A d \in Caller :
            /\ Login(p, e) \in staged'[d].del <=> Login(p, e) \in staged[d].del
            /\ Login(p, e) \in staged'[d].add <=> Login(p, e) \in staged[d].add

LoginFree(rows) == \A x \in rows : x[1] # "login"

LEMMA WriteKeepsLogins ==
  ASSUME RowsInv, NEW c \in Caller, NEW del, NEW add, Write(c, del, add), LoginFree(del \union add)
  PROVE  LoginsKept(c)
<1>1. \A p \in Person, e \in Email : Login(p, e) \notin del \union add
  BY LoginRows DEF LoginFree
<1>2. CASE atomic
  <2>1. /\ db' = db
        /\ staged' = [staged EXCEPT ![c] = [del |-> (@.del \ add) \union del,
                                            add |-> (@.add \ del) \union add]]
    BY <1>2 DEF Write
  <2>2. staged'[c].del = (staged[c].del \ add) \union del /\ staged'[c].add = (staged[c].add \ del) \union add
    BY <2>1 DEF RowsInv, Types
  <2>3. \A d \in Caller \ {c} : staged'[d] = staged[d]
    BY <2>1 DEF RowsInv, Types
  <2> QED
    BY <1>1, <2>1, <2>2, <2>3 DEF LoginsKept
<1>3. CASE ~atomic
  BY <1>1, <1>3 DEF Write, LoginsKept
<1> QED
  BY <1>2, <1>3

LEMMA StepKeepsLogins ==
  ASSUME RowsInv, NEW c \in Caller, NEW del, NEW add, NEW l, Step(c, del, add, l), LoginFree(del \union add)
  PROVE  LoginsKept(c)
  BY StepTypes, WriteKeepsLogins

\* The steps of a transaction, but WriteLogin, touch no login.
LEMMA WritingKeepsLogins ==
  ASSUME RowsInv, NEW c \in Caller, Writing(c)
  PROVE  /\ Inside(c)
         /\ \/ Refuse(c)
            \/ /\ LoginsKept(c)
               /\ \E l \in Section : at' = [at EXCEPT ![c] = l]
               /\ \E w : who' = [who EXCEPT ![c] = w]
               /\ UNCHANGED <<cache, call, previous, raced, outdated>>
<1> DEFINE Kept == /\ LoginsKept(c)
                   /\ \E l \in Section : at' = [at EXCEPT ![c] = l]
                   /\ \E w : who' = [who EXCEPT ![c] = w]
                   /\ UNCHANGED <<cache, call, previous, raced, outdated>>
<1>1. at[c] \in {"find", "candidates", "reserve", "draft", "attach", "reconcile", "decide", "mark"}
  BY DEF Writing, personByLogin, openOrRecoverAccessRequest, reserveLoginPerson, ensureDraftPerson,
         attachPersonMembership, reconcileAccessRequest, Decide, markResolved
<1>2. Inside(c)
  BY <1>1, InsideAt
<1>3. who = [who EXCEPT ![c] = who[c]]
  BY <1>2, NothingAllowed
<1>4. ASSUME NEW del, NEW add, NEW l \in Section, Step(c, del, add, l), LoginFree(del \union add),
             NEW w, who' = [who EXCEPT ![c] = w]
      PROVE  Kept
  BY <1>4, StepTypes, StepKeepsLogins
<1> HIDE DEF Kept
<1>5. ASSUME NEW l \in {"attach", "candidates", "reserve", "commit", "draft", "taken"}, Step(c, {}, {}, l),
             NEW w, who' = [who EXCEPT ![c] = w]
      PROVE  Kept
  <2>1. l \in Section /\ LoginFree({} \union {})
    BY DEF Section, LoginFree
  <2> QED
    BY <1>4, <1>5, <2>1
<1>6. ASSUME personByLogin(c)
      PROVE  Refuse(c) \/ Kept
  BY <1>3, <1>5, <1>6 DEF personByLogin
<1>7. ASSUME openOrRecoverAccessRequest(c)
      PROVE  Refuse(c) \/ Kept
  <2>1. ASSUME NEW r, Step(c, {}, {AccessRequest(call[c].org, call[c].email, r)}, "commit"), UNCHANGED who
        PROVE  Kept
    <3>1. LoginFree({} \union {AccessRequest(call[c].org, call[c].email, r)}) /\ "commit" \in Section
      BY DEF LoginFree, AccessRequest, Section
    <3> QED
      BY <1>3, <1>4, <2>1, <3>1
  <2> QED
    BY <1>3, <1>5, <1>7, <2>1 DEF openOrRecoverAccessRequest
<1>8. ASSUME reserveLoginPerson(c)
      PROVE  Refuse(c) \/ Kept
  <2>1. ASSUME NEW p \in Person, who' = [who EXCEPT ![c] = p],
               Step(c, {}, {Reserved(call[c].email, p)}, "draft")
        PROVE  Kept
    <3>1. LoginFree({} \union {Reserved(call[c].email, p)}) /\ "draft" \in Section
      BY DEF LoginFree, Reserved, Section
    <3> QED
      BY <1>4, <2>1, <3>1
  <2> QED
    BY <1>5, <1>8, <2>1 DEF reserveLoginPerson
<1>9. ASSUME ensureDraftPerson(c)
      PROVE  Refuse(c) \/ Kept
  <2>1. ASSUME Step(c, {}, {Created(who[c], call[c].email)}, "taken"), UNCHANGED who
        PROVE  Kept
    <3>1. LoginFree({} \union {Created(who[c], call[c].email)}) /\ "taken" \in Section
      BY DEF LoginFree, Created, Section
    <3> QED
      BY <1>3, <1>4, <2>1, <3>1
  <2> QED
    BY <1>3, <1>5, <1>9, <2>1 DEF ensureDraftPerson
<1>10. ASSUME attachPersonMembership(c)
      PROVE  Refuse(c) \/ Kept
  <2>1. PICK l \in {"reconcile", "mark"} : Step(c, {}, {Member(who[c], call[c].org)}, l)
    BY <1>10 DEF attachPersonMembership
  <2>2. LoginFree({} \union {Member(who[c], call[c].org)}) /\ l \in Section
    BY DEF LoginFree, Member, Section
  <2> QED
    BY <1>3, <1>4, <1>10, <2>1, <2>2 DEF attachPersonMembership
<1>11. ASSUME NEW r, NEW n, Replace(c, r, n, "commit"), UNCHANGED who
       PROVE  Kept
  <2> DEFINE old == AccessRequest(call[c].org, call[c].email, r)
             new == AccessRequest(call[c].org, call[c].email, n)
  <2>1. LoginFree({old} \union {new}) /\ "commit" \in Section
    BY DEF LoginFree, AccessRequest, Section
  <2>2. Step(c, {old}, {new}, "commit")
    BY <1>11 DEF Replace
  <2> QED
    BY <1>3, <1>4, <1>11, <2>1, <2>2
<1>12. ASSUME reconcileAccessRequest(c)
      PROVE  Refuse(c) \/ Kept
  BY <1>3, <1>5, <1>11, <1>12 DEF reconcileAccessRequest
<1>13. ASSUME markResolved(c)
      PROVE  Refuse(c) \/ Kept
  BY <1>11, <1>13 DEF markResolved
<1>14. ASSUME Decide(c)
      PROVE  Refuse(c) \/ Kept
  BY <1>5, <1>14 DEF Decide
<1> QED
  <2>1. Refuse(c) \/ Kept
    BY <1>6, <1>7, <1>8, <1>9, <1>10, <1>12, <1>13, <1>14 DEF Writing
  <2> QED
    BY <1>2, <2>1 DEF Kept

LEMMA LoginsStay ==
  ASSUME NEW c \in Caller, LoginsKept(c), raced => raced', LoginsInv
  PROVE  LoginsInv'
<1> SUFFICES ASSUME ~raced'
             PROVE  /\ Agree(db') /\ \A d \in Caller : Agree(See(d)')
                    /\ \A a, b \in Caller : a # b => Apart(a, b)'
  BY DEF LoginsInv, Agree, See, Apart
<1>1. Agree(db) /\ (\A d \in Caller : Agree(See(d))) /\ \A a, b \in Caller : a # b => Apart(a, b)
  BY DEF LoginsInv
<1>2. Agree(db')
  BY <1>1 DEF LoginsKept, Agree
<1>3. ASSUME NEW d \in Caller
      PROVE  Agree(See(d)')
  <2>1. \A p \in Person, e \in Email : Login(p, e) \in See(d)' <=> Login(p, e) \in See(d)
    BY DEF LoginsKept, See
  <2> QED
    BY <1>1, <2>1 DEF Agree
<1>4. ASSUME NEW a \in Caller, NEW b \in Caller, a # b
      PROVE  Apart(a, b)'
  BY <1>1, <1>4 DEF LoginsKept, Apart
<1> QED
  BY <1>2, <1>3, <1>4

\* A transaction that is rolled back, and one that commits.
LEMMA FailLogins ==
  ASSUME RowsInv, LoginsInv, NEW c \in Caller, db' = db,
         staged' = [staged EXCEPT ![c] = NoWrites], raced => raced'
  PROVE  LoginsInv'
<1> SUFFICES ASSUME ~raced'
             PROVE  /\ Agree(db') /\ \A d \in Caller : Agree(See(d)')
                    /\ \A a, b \in Caller : a # b => Apart(a, b)'
  BY DEF LoginsInv, Agree, See, Apart
<1>1. Agree(db) /\ (\A d \in Caller : Agree(See(d))) /\ \A a, b \in Caller : a # b => Apart(a, b)
  BY DEF LoginsInv
<1>2. staged'[c].del = {} /\ staged'[c].add = {} /\ \A d \in Caller \ {c} : staged'[d] = staged[d]
  BY DEF RowsInv, Types, NoWrites
<1>3. See(c)' = db /\ \A d \in Caller \ {c} : See(d)' = See(d)
  BY <1>2 DEF See
<1>4. \A a, b \in Caller : a # b => Apart(a, b)'
  BY <1>1, <1>2 DEF Apart
<1> QED
  BY <1>1, <1>3, <1>4

LEMMA CommitLogins ==
  ASSUME RowsInv, LoginsInv, NEW c \in Caller, db' = See(c),
         staged' = [staged EXCEPT ![c] = NoWrites], raced => raced'
  PROVE  LoginsInv'
<1> SUFFICES ASSUME ~raced'
             PROVE  /\ Agree(db') /\ \A d \in Caller : Agree(See(d)')
                    /\ \A a, b \in Caller : a # b => Apart(a, b)'
  BY DEF LoginsInv, Agree, See, Apart
<1>1. Agree(db) /\ (\A d \in Caller : Agree(See(d))) /\ \A a, b \in Caller : a # b => Apart(a, b)
  BY DEF LoginsInv
<1>2. staged'[c].del = {} /\ staged'[c].add = {} /\ \A d \in Caller \ {c} : staged'[d] = staged[d]
  BY DEF RowsInv, Types, NoWrites
<1>3. See(c)' = See(c)
  BY <1>2 DEF See
<1>4. ASSUME NEW d \in Caller \ {c}
      PROVE  Agree(See(d)')
  <2> SUFFICES ASSUME NEW p \in Person, NEW q \in Person, NEW e \in Email, NEW f \in Email,
                      Login(p, e) \in See(d)', Login(q, f) \in See(d)'
               PROVE  p = q <=> e = f
    BY DEF Agree
  <2>1. See(d)' = (See(c) \ staged[d].del) \union staged[d].add
    BY <1>2 DEF See
  <2>2. Apart(c, d) /\ Agree(See(c)) /\ Agree(See(d))
    BY <1>1
  <2>3. CASE Login(p, e) \in staged[d].add /\ Login(q, f) \in staged[d].add
    BY <2>2, <2>3 DEF Agree, See
  <2>4. CASE Login(p, e) \notin staged[d].add /\ Login(q, f) \notin staged[d].add
    BY <2>1, <2>2, <2>4 DEF Agree
  <2>5. CASE Login(p, e) \in staged[d].add /\ Login(q, f) \notin staged[d].add
    <3>1. CASE Login(q, f) \in staged[c].add
      BY <2>2, <2>5, <3>1 DEF Apart
    <3>2. CASE Login(q, f) \in db
      BY <2>1, <2>2, <2>5, <3>2 DEF Agree, See
    <3> QED
      BY <2>1, <2>5, <3>1, <3>2 DEF See
  <2>6. CASE Login(q, f) \in staged[d].add /\ Login(p, e) \notin staged[d].add
    <3>1. CASE Login(p, e) \in staged[c].add
      BY <2>2, <2>6, <3>1 DEF Apart
    <3>2. CASE Login(p, e) \in db
      BY <2>1, <2>2, <2>6, <3>2 DEF Agree, See
    <3> QED
      BY <2>1, <2>6, <3>1, <3>2 DEF See
  <2> QED
    BY <2>3, <2>4, <2>5, <2>6
<1>5. \A a, b \in Caller : a # b => Apart(a, b)'
  BY <1>1, <1>2 DEF Apart
<1> QED
  BY <1>1, <1>3, <1>4, <1>5

\* The login of a person moves to an e-mail that is nobody else's.
Moved(p, e, rows) ==
  (rows \ {Login(p, q) : q \in EmailsOf(p, rows) \ {e}})
    \union (IF e \in EmailsOf(p, rows) THEN {} ELSE {Login(p, e)})

LEMMA LoginMoves ==
  ASSUME NEW rows, Agree(rows), NEW p \in Person, NEW e \in Email, LoginsOf(e, rows) \subseteq {p}
  PROVE  /\ \A q \in Person, f \in Email :
              Login(q, f) \in Moved(p, e, rows) <=> IF q = p THEN f = e ELSE Login(q, f) \in rows
         /\ \A q \in Person : q # p => Login(q, e) \notin rows
         /\ Agree(Moved(p, e, rows))
<1>1. \A q \in Person : q # p => Login(q, e) \notin rows
  BY DEF LoginsOf
<1>2. ASSUME NEW q \in Person, NEW f \in Email
      PROVE  Login(q, f) \in Moved(p, e, rows) <=> IF q = p THEN f = e ELSE Login(q, f) \in rows
  <2> DEFINE del == {Login(p, g) : g \in EmailsOf(p, rows) \ {e}}
             add == IF e \in EmailsOf(p, rows) THEN {} ELSE {Login(p, e)}
  <2>1. Login(q, f) \in del <=> q = p /\ Login(p, f) \in rows /\ f # e
    BY LoginRows DEF EmailsOf
  <2>2. Login(q, f) \in add <=> q = p /\ f = e /\ Login(p, e) \notin rows
    BY LoginRows DEF EmailsOf
  <2>3. Moved(p, e, rows) = (rows \ del) \union add
    BY DEF Moved
  <2> HIDE DEF del, add
  <2> QED
    BY <2>1, <2>2, <2>3
<1>3. Agree(Moved(p, e, rows))
  BY <1>1, <1>2 DEF Agree
<1> QED
  BY <1>1, <1>2, <1>3

LEMMA MovingKeepsLogins ==
  ASSUME RowsInv, LoginsInv, NEW c \in Caller, WriteLogin(c), ~Refuse(c)
  PROVE  LoginsInv'
<1> SUFFICES ASSUME ~raced'
             PROVE  /\ Agree(db') /\ \A d \in Caller : Agree(See(d)')
                    /\ \A a, b \in Caller : a # b => Apart(a, b)'
  BY DEF LoginsInv, Agree, See, Apart
<1> DEFINE e == call[c].email
           p == who[c]
<1>1. PICK del, add : del = Lost(c) /\ add = Gained(c)
  OBVIOUS
<1>2. /\ at[c] = "write" /\ ~Waits(c) /\ e \in Email /\ p \in Person
      /\ UNCHANGED <<atomic, previous, call, who>> /\ Alone(c)
      /\ \/ ~Inside(c) /\ db' = (db \ del) \union add /\ staged' = staged
         \/ Inside(c) /\ Write(c, del, add)
  BY <1>1, WriteLoginCases
<1>3. /\ ~raced /\ EmailsOf(p, See(c)) = previous[c] /\ LoginsOf(e, See(c)) = taken[c]
      /\ \A d \in Caller \ {c}, q \in Email : Login(p, q) \notin staged[d].del \union staged[d].add
  BY <1>2 DEF Alone
<1>4. Agree(db) /\ (\A d \in Caller : Agree(See(d))) /\ \A a, b \in Caller : a # b => Apart(a, b)
  BY <1>3 DEF LoginsInv
<1>5. taken[c] \subseteq {p}
  BY <1>2 DEF RowsInv, Stands
<1>6. ASSUME NEW d \in Caller \ {c}, NEW q \in Person, NEW f \in previous[c] \union {e}
      PROVE  Login(q, f) \notin staged[d].del \union staged[d].add
  BY <1>2 DEF Waits
<1> DEFINE more == (See(c) \ del) \union add
<1>7. /\ \A q \in Person, f \in Email :
           Login(q, f) \in more <=> IF q = p THEN f = e ELSE Login(q, f) \in See(c)
      /\ \A q \in Person : q # p => Login(q, e) \notin See(c)
      /\ Agree(more)
  <2>1. more = Moved(p, e, See(c))
    BY <1>1, <1>3 DEF Lost, Gained, Moved
  <2>2. Agree(See(c)) /\ LoginsOf(e, See(c)) \subseteq {p}
    BY <1>3, <1>4, <1>5
  <2> HIDE DEF more
  <2> QED
    BY <1>2, <2>1, <2>2, LoginMoves
<1>8. Types /\ Held(c)
  BY DEF RowsInv
<1>9. CASE See(c) = db /\ staged[c].add = {} /\ db' = more /\ staged' = staged
  <2>1. ASSUME NEW d \in Caller \ {c}
        PROVE  Agree(See(d)')
    <3>1. ASSUME NEW q \in Person, NEW f \in Email
          PROVE  Login(q, f) \in See(d)' <=> IF q = p THEN f = e ELSE Login(q, f) \in See(d)
      BY <1>2, <1>3, <1>7, <1>9, <3>1 DEF See
    <3>2. \A q \in Person : q # p => Login(q, e) \notin See(d)
      BY <1>6, <1>7, <1>9 DEF See
    <3> QED
      BY <1>2, <1>4, <3>1, <3>2 DEF Agree
  <2>2. Agree(See(c)')
    <3>1. ASSUME NEW q \in Person, NEW f \in Email, Login(q, f) \in See(c)'
          PROVE  Login(q, f) \in more
      BY <1>9, <3>1 DEF See
    <3> QED
      BY <1>7, <3>1 DEF Agree
  <2>3. \A a, b \in Caller : a # b => Apart(a, b)'
    BY <1>4, <1>9 DEF Apart
  <2> QED
    BY <1>7, <1>9, <2>1, <2>2, <2>3
<1>10. CASE atomic /\ Inside(c) /\ Write(c, del, add)
  <2>1. /\ db' = db
        /\ staged' = [staged EXCEPT ![c] = [del |-> (@.del \ add) \union del,
                                            add |-> (@.add \ del) \union add]]
    BY <1>10 DEF Write
  <2>2. /\ staged'[c].del = (staged[c].del \ add) \union del /\ staged'[c].add = (staged[c].add \ del) \union add
        /\ \A d \in Caller \ {c} : staged'[d] = staged[d]
    BY <1>8, <2>1 DEF Types
  <2>3. See(c)' = more /\ \A d \in Caller \ {c} : See(d)' = See(d)
    BY <2>1, <2>2 DEF See
  <2>4. ASSUME NEW d \in Caller \ {c}
        PROVE  Apart(c, d)' /\ Apart(d, c)'
    <3>1. ASSUME NEW q \in Person, NEW f \in Email, Login(q, f) \in del \union add
          PROVE  q = p /\ f \in previous[c] \union {e}
      <4>1. previous[c] \subseteq Email
        BY <1>8 DEF Types
      <4> QED
        BY <1>1, <1>2, <3>1, <4>1, LoginRows DEF Lost, Gained
    <3>2. ASSUME NEW q \in Person, NEW f \in Email, Login(q, f) \in staged'[c].del \union staged'[c].add,
                 NEW r \in Person, NEW g \in Email, Login(r, g) \in staged'[d].del \union staged'[d].add
          PROVE  q # r /\ f # g
      <4>1. CASE Login(q, f) \in staged[c].del \union staged[c].add
        BY <1>4, <2>2, <3>2, <4>1 DEF Apart
      <4>2. CASE Login(q, f) \in del \union add
        BY <1>3, <1>6, <2>2, <3>1, <3>2, <4>2
      <4> QED
        BY <2>2, <3>2, <4>1, <4>2
    <3> QED
      BY <3>2 DEF Apart
  <2>5. \A a, b \in Caller \ {c} : a # b => Apart(a, b)'
    BY <1>4, <2>2 DEF Apart
  <2> QED
    BY <1>4, <1>7, <2>1, <2>3, <2>4, <2>5
<1>11. CASE Inside(c) /\ Write(c, del, add) /\ ~atomic
  BY <1>8, <1>9, <1>11 DEF Held, Write, See
<1>12. CASE ~Inside(c) /\ db' = (db \ del) \union add /\ staged' = staged
  BY <1>8, <1>9, <1>12 DEF Held, See
<1> QED
  BY <1>2, <1>10, <1>11, <1>12

LEMMA NextLogins == RowsInv /\ LoginsInv /\ [RegistrationNext]_registrationVars => LoginsInv'
<1> SUFFICES ASSUME RowsInv, LoginsInv, [RegistrationNext]_registrationVars PROVE LoginsInv'
  OBVIOUS
<1>1. ASSUME UNCHANGED <<db, staged, raced>>
      PROVE  LoginsInv'
  BY <1>1 DEF LoginsInv, Agree, See, Apart
<1>2. ASSUME NEW c \in Caller, Fail(c), raced' = raced
      PROVE  LoginsInv'
  BY <1>2, FailLogins DEF Fail
<1>3. ASSUME NEW c \in Caller, Refuse(c)
      PROVE  LoginsInv'
  BY <1>2, <1>3 DEF Refuse, history
<1>4. ASSUME NEW c \in Caller, Writing(c)
      PROVE  LoginsInv'
  BY <1>3, <1>4, WritingKeepsLogins, LoginsStay
<1>5. ASSUME NEW c \in Caller, WriteLogin(c)
      PROVE  LoginsInv'
  BY <1>3, <1>5, MovingKeepsLogins
<1>6. ASSUME NEW c \in Caller, Commit(c)
      PROVE  LoginsInv'
  BY <1>6, CommitLogins DEF Commit
<1>7. ASSUME NEW c \in Caller, CheckTaken(c)
      PROVE  LoginsInv'
  BY <1>1, <1>3, <1>7 DEF CheckTaken, tables, history
<1>8. ASSUME NEW c \in Caller,
             TakeLock(c) \/ writeIdentityCache(c) \/ Answer(c) \/ ReadLogin(c) \/ FillCache(c)
      PROVE  LoginsInv'
  BY <1>1, <1>8 DEF TakeLock, writeIdentityCache, Answer, ReadLogin, FillCache, tables, history
<1>9. ASSUME NEW c \in Caller, Fault(c)
       PROVE  LoginsInv'
  BY <1>2, <1>9 DEF Fault
<1>10. ASSUME NEW c \in Caller, NEW k, Begin(c, k)
       PROVE  LoginsInv'
  BY <1>1, <1>10 DEF Begin, tables, history
<1>11. ASSUME NEW c \in Caller, NEW e \in Email,
              \/ lookupLogin(c, e)
              \/ \E o \in Org : ensureSelfRegistration(c, e, o) \/ resolveAccessRequest(c, e, o)
              \/ \E p \in Person : setLogin(c, p, e)
       PROVE  LoginsInv'
  BY <1>10, <1>11, CallsBegin DEF Begins
<1>12. ASSUME NEW p \in Person, NEW e \in Email, ContactChanges(p, e)
       PROVE  LoginsInv'
  BY <1>1, <1>12 DEF ContactChanges, tables, history
<1>13. ASSUME NEW e \in Email, CacheExpires(e)
       PROVE  LoginsInv'
  BY <1>1, <1>13 DEF CacheExpires, tables, history
<1>14. CASE UNCHANGED registrationVars
  BY <1>1, <1>14 DEF registrationVars, tables, history
<1> QED
  BY <1>4, <1>5, <1>6, <1>7, <1>8, <1>9, <1>11, <1>12, <1>13, <1>14 DEF RegistrationNext, CallStep, Writing

LEMMA InitLogins == RegistrationInit => LoginsInv
<1> SUFFICES ASSUME RegistrationInit PROVE LoginsInv
  OBVIOUS
<1>1. \A x \in db : x[1] = "person"
  BY DEF RegistrationInit, Created
<1>2. \A p \in Person, e \in Email : Login(p, e) \notin db
  BY <1>1, LoginRows
<1>3. \A c \in Caller : staged[c].del = {} /\ staged[c].add = {}
  BY DEF RegistrationInit, NoWrites
<1> QED
  BY <1>2, <1>3 DEF LoginsInv, Agree, See, Apart

LEMMA AlwaysLogins == RegistrationSpec => [](RowsInv /\ LoginsInv)
<1> QED
  BY InitSound, NextSound, InitLogins, NextLogins, PTL DEF RegistrationSpec

\* Unless a setLogin raced with another, an e-mail is the login of one person at
\* most and a person has one login at most: what was read of the logins is still
\* so when it is used, under the lock or the index (identityUsecases.ts, setLogin).
THEOREM LoginsAreUnique == RegistrationSpec => []LoginsAgree
<1>1. RowsInv /\ LoginsInv => LoginsAgree
  <2> SUFFICES ASSUME RowsInv, LoginsInv, ~raced
               PROVE  /\ \A e \in Email : Cardinality(LoginsOf(e, db)) <= 1
                      /\ \A p \in Person : Cardinality(EmailsOf(p, db)) <= 1
    BY DEF LoginsAgree
  <2>1. Agree(db)
    BY DEF LoginsInv
  <2>2. ASSUME NEW e \in Email
        PROVE  Cardinality(LoginsOf(e, db)) <= 1
    <3>1. \A p, q \in LoginsOf(e, db) : p = q
      BY <2>1 DEF Agree, LoginsOf
    <3> QED
      BY <3>1, AtMostOne
  <2>3. ASSUME NEW p \in Person
        PROVE  Cardinality(EmailsOf(p, db)) <= 1
    <3>1. \A e, f \in EmailsOf(p, db) : e = f
      BY <2>1 DEF Agree, EmailsOf
    <3> QED
      BY <3>1, AtMostOne
  <2> QED
    BY <2>2, <2>3
<1> QED
  BY <1>1, AlwaysLogins, PTL

(***************************************************************************)
(* The cache.                                                              *)
(***************************************************************************)

\* The entries that a setLogin will correct.
Corrects(c, e) == at[c] = "cache" /\ e \in previous[c] \union {call[c].email}

\* Nothing that is known to be old is forgotten.
Later == outdated \subseteq outdated' /\ (raced => raced')

SameCaller(d) ==
  /\ at'[d] = at[d] /\ call'[d] = call[d] /\ who'[d] = who[d] /\ previous'[d] = previous[d]
  /\ staged'[d] = staged[d]

\* A step of c that leaves the logins alone: it says itself what it puts into the
\* cache, and what it was about to correct it corrects or leaves as old.
LEMMA CacheKeeps ==
  ASSUME RowsInv, CacheInv, NEW c \in Caller, Later,
         \A d \in Caller \ {c} : SameCaller(d),
         \A p \in Person, e \in Email : Login(p, e) \in db' <=> Login(p, e) \in db,
         Filling(c)', Dropping(c)',
         \A e \in Email : \/ cache'[e] \in {None, cache[e]}
                          \/ cache'[e] \in Person /\ (Login(cache'[e], e) \in db \/ e \in outdated \/ raced),
         \A e \in Email : Corrects(c, e) => cache'[e] = None \/ Corrects(c, e)' \/ e \in outdated' \/ raced'
                                            \/ Login(cache'[e], e) \in db'
  PROVE  CacheInv'
<1>1. ASSUME NEW d \in Caller
      PROVE  Filling(d)' /\ Dropping(d)'
  <2>1. CASE d = c
    BY <2>1
  <2>2. CASE d # c
    <3>1. Filling(d) /\ Dropping(d) /\ (at[d] \in {"fill", "cache"} => who[d] \in Person /\ call[d].email \in Email)
      BY DEF CacheInv, Filling, Dropping, RowsInv, Stands
    <3> QED
      BY <2>2, <3>1 DEF Filling, Dropping, SameCaller, Later
  <2> QED
    BY <2>1, <2>2
<1>2. ASSUME NEW e \in Email, cache'[e] # None, Login(cache'[e], e) \notin db'
      PROVE  e \in outdated' \/ raced' \/ \E d \in Caller : Corrects(d, e)'
  <2>1. CASE cache'[e] = cache[e]
    <3>1. cache[e] \in Person
      BY <1>2, <2>1 DEF RowsInv, Types
    <3>2. e \in outdated \/ raced \/ \E d \in Caller : Corrects(d, e)
      BY <1>2, <2>1, <3>1 DEF CacheInv, CacheOnlyOutdated, Corrects
    <3>3. \A d \in Caller \ {c} : Corrects(d, e) => Corrects(d, e)'
      BY DEF Corrects, SameCaller
    <3> QED
      BY <1>2, <3>2, <3>3 DEF Later
  <2>2. CASE cache'[e] \in Person /\ (Login(cache'[e], e) \in db \/ e \in outdated \/ raced)
    BY <1>2, <2>2 DEF Later
  <2> QED
    BY <1>2, <2>1, <2>2
<1>3. CacheOnlyOutdated'
  BY <1>2 DEF CacheOnlyOutdated, Corrects
<1> QED
  BY <1>1, <1>3 DEF CacheInv, Filling, Dropping

\* A step of c that changes logins: those a look-up or another setLogin is about to
\* put into the cache are old now, and so are those that are gone.
LEMMA ChangingKeeps ==
  ASSUME RowsInv, CacheInv, NEW c \in Caller, Later, at[c] # "cache",
         \A d \in Caller \ {c} : SameCaller(d), cache' = cache,
         Overtaken(c, db') \subseteq outdated',
         Filling(c)', Dropping(c)',
         \A p \in Person, e \in Email : Login(p, e) \in db \ db' => e \in outdated' \/ Corrects(c, e)'
  PROVE  CacheInv'
<1>1. ASSUME NEW d \in Caller
      PROVE  Filling(d)' /\ Dropping(d)'
  <2>1. CASE d = c
    BY <2>1
  <2>2. CASE d # c
    <3>1. Filling(d) /\ Dropping(d) /\ (at[d] \in {"fill", "cache"} => who[d] \in Person /\ call[d].email \in Email)
      BY DEF CacheInv, Filling, Dropping, RowsInv, Stands
    <3>2. ASSUME at[d] \in {"fill", "cache"}, Login(who[d], call[d].email) \in db,
                 Login(who[d], call[d].email) \notin db'
          PROVE  call[d].email \in Overtaken(c, db')
      <4>1. LoginsOf(call[d].email, db') # LoginsOf(call[d].email, db)
        BY <3>1, <3>2 DEF LoginsOf
      <4> QED
        BY <2>2, <3>1, <3>2, <4>1 DEF Overtaken
    <3>3. Filling(d)'
      BY <2>2, <3>1, <3>2 DEF Filling, SameCaller, Later
    <3>4. Dropping(d)'
      BY <2>2, <3>1 DEF Dropping, SameCaller, Later
    <3> QED
      BY <3>3, <3>4
  <2> QED
    BY <2>1, <2>2
<1>2. ASSUME NEW e \in Email, cache'[e] # None, Login(cache'[e], e) \notin db'
      PROVE  e \in outdated' \/ raced' \/ \E d \in Caller : Corrects(d, e)'
  <2>1. cache[e] \in Person /\ cache[e] # None
    BY <1>2 DEF RowsInv, Types
  <2>2. CASE Login(cache[e], e) \in db
    BY <1>2, <2>1, <2>2
  <2>3. CASE Login(cache[e], e) \notin db
    <3>1. e \in outdated \/ raced \/ \E d \in Caller : Corrects(d, e)
      BY <2>1, <2>3 DEF CacheInv, CacheOnlyOutdated, Corrects
    <3>2. \A d \in Caller : Corrects(d, e) => Corrects(d, e)'
      BY DEF Corrects, SameCaller
    <3> QED
      BY <3>1, <3>2 DEF Later
  <2> QED
    BY <2>2, <2>3
<1>3. CacheOnlyOutdated'
  BY <1>2 DEF CacheOnlyOutdated, Corrects
<1> QED
  BY <1>1, <1>3 DEF CacheInv, Filling, Dropping

LEMMA FailCache ==
  ASSUME RowsInv, CacheInv, NEW c \in Caller, Fail(c), Later,
         at[c] = "cache" => previous[c] \union {call[c].email} \subseteq outdated'
  PROVE  CacheInv'
<1>1. /\ staged' = [staged EXCEPT ![c] = NoWrites] /\ db' = db /\ cache' = cache
      /\ who' = [who EXCEPT ![c] = None] /\ previous' = [previous EXCEPT ![c] = {}]
      /\ at' = [at EXCEPT ![c] = IF call[c].kind = "register" THEN "lock" ELSE "idle"]
      /\ call' = [call EXCEPT ![c] = IF call[c].kind = "register" THEN call[c] ELSE NoCall]
  BY DEF Fail, Forget, Goto
<1>2. Types
  BY DEF RowsInv
<1>3. at'[c] \in {"lock", "idle"} /\ staged'[c].del = {} /\ \A d \in Caller \ {c} : SameCaller(d)
  BY <1>1, <1>2 DEF Types, SameCaller, NoWrites
<1>4. Filling(c)' /\ Dropping(c)'
  BY <1>3 DEF Filling, Dropping
<1>5. \A e \in Email : Corrects(c, e) => e \in outdated'
  BY DEF Corrects
<1> QED
  BY <1>1, <1>3, <1>4, <1>5, CacheKeeps

\* A step that goes to a place where nothing is put into the cache.
LEMMA PlainCache ==
  ASSUME RowsInv, CacheInv, NEW c \in Caller, Later, at[c] # "cache",
         \A d \in Caller \ {c} : SameCaller(d), LoginsKept(c),
         Filling(c)', \A e \in Email : cache'[e] \in {None, cache[e]}
  PROVE  CacheInv'
<1>1. Dropping(c)'
  BY DEF CacheInv, Dropping, LoginsKept, Later
<1>2. \A e \in Email : ~Corrects(c, e)
  BY DEF Corrects
<1> QED
  BY <1>1, <1>2, CacheKeeps DEF LoginsKept

\* A call that writes its login.
LEMMA WriteLoginCache ==
  ASSUME RowsInv, CacheInv, NEW c \in Caller, WriteLogin(c), ~Refuse(c)
  PROVE  CacheInv'
<1> DEFINE e == call[c].email
           p == who[c]
<1>1. PICK del, add : del = Lost(c) /\ add = Gained(c)
  OBVIOUS
<1>2. /\ at[c] = "write" /\ e \in Email /\ p \in Person
      /\ UNCHANGED <<cache, atomic, previous, call, who>> /\ Alone(c) /\ outdated \union Overtaken(c, db') \subseteq outdated'
      /\ \/ /\ ~Inside(c) /\ db' = (db \ del) \union add /\ staged' = staged
            /\ at' = [at EXCEPT ![c] = "cache"]
         \/ /\ Inside(c) /\ Write(c, del, add) /\ previous[c] \ {e} \subseteq outdated'
            /\ at' = [at EXCEPT ![c] = "attach"]
  BY <1>1, WriteLoginCases
<1>3. Types /\ Held(c) /\ Dropping(c)
  BY DEF RowsInv, CacheInv, Dropping
<1>4. Later
  BY <1>2 DEF Later, Alone
<1>5. ASSUME NEW q \in Person, NEW f \in Email, Login(q, f) \in del
      PROVE  f \in previous[c] \ {e}
  <2>1. PICK g \in previous[c] \ {e} : Login(q, f) = Login(p, g)
    BY <1>1, <1>5 DEF Lost
  <2>2. g \in Email
    BY <1>3, <2>1 DEF Types
  <2> QED
    BY <1>2, <2>1, <2>2, LoginRows
<1>6. CASE ~Inside(c) /\ db' = (db \ del) \union add /\ staged' = staged /\ at' = [at EXCEPT ![c] = "cache"]
  <2>1. at'[c] = "cache" /\ (\A d \in Caller \ {c} : SameCaller(d)) /\ See(c) = db
    BY <1>2, <1>3, <1>6 DEF Types, SameCaller, Held, See
  <2>2. Filling(c)'
    <3>1. CASE raced'
      BY <3>1 DEF Filling
    <3>2. CASE ~raced' /\ e \in previous[c]
      <4>1. Login(p, e) \in db
        BY <1>2, <2>1, <3>2 DEF Alone, EmailsOf
      <4>2. Login(p, e) \notin del
        BY <1>2, <1>5
      <4> QED
        BY <1>2, <1>6, <4>1, <4>2 DEF Filling, Login
    <3>3. CASE e \notin previous[c]
      <4>1. Login(p, e) \in db'
        BY <1>1, <1>6, <3>3 DEF Gained
      <4> QED
        BY <1>2, <4>1 DEF Filling, Login
    <3> QED
      BY <3>1, <3>2, <3>3
  <2>3. Dropping(c)'
    BY <1>3, <1>4, <1>6 DEF Dropping, Later
  <2>4. ASSUME NEW q \in Person, NEW f \in Email, Login(q, f) \in db \ db'
        PROVE  Corrects(c, f)'
    BY <1>2, <1>5, <1>6, <2>1, <2>4 DEF Corrects
  <2> QED
    BY <1>2, <1>4, <2>1, <2>2, <2>3, <2>4, ChangingKeeps
<1>7. CASE Inside(c) /\ Write(c, del, add) /\ previous[c] \ {e} \subseteq outdated' /\ at' = [at EXCEPT ![c] = "attach"]
  <2>1. /\ db' = db \/ db' = (db \ del) \union add
        /\ \A d \in Caller \ {c} : staged'[d] = staged[d]
        /\ staged'[c].del \subseteq staged[c].del \union del
    <3>1. del \subseteq Row /\ add \subseteq Row
      BY <1>1, WriteLoginCases DEF Loose
    <3> QED
      BY <1>2, <1>3, <1>7, <3>1, WriteSees
  <2>2. at'[c] = "attach" /\ \A d \in Caller \ {c} : SameCaller(d)
    BY <1>2, <1>3, <1>7, <2>1 DEF Types, SameCaller
  <2>3. Filling(c)'
    BY <2>2 DEF Filling
  <2>4. Dropping(c)'
    BY <1>3, <1>4, <1>5, <1>7, <2>1 DEF Dropping, Later
  <2>5. ASSUME NEW q \in Person, NEW f \in Email, Login(q, f) \in db \ db'
        PROVE  f \in outdated'
    BY <1>5, <1>7, <2>1, <2>5
  <2> QED
    BY <1>2, <1>4, <2>2, <2>3, <2>4, <2>5, ChangingKeeps
<1> QED
  BY <1>2, <1>6, <1>7

LEMMA CommitCache == ASSUME RowsInv, CacheInv, NEW c \in Caller, Commit(c) PROVE CacheInv'
<1>1. /\ at[c] = "commit" /\ at' = [at EXCEPT ![c] = "answer"] /\ db' = See(c)
      /\ staged' = [staged EXCEPT ![c] = NoWrites]
      /\ outdated' = outdated \union Overtaken(c, db')
      /\ UNCHANGED <<cache, call, who, previous, raced>>
  BY DEF Commit, Goto, reads
<1>2. at'[c] = "answer" /\ staged'[c].del = {} /\ (\A d \in Caller \ {c} : SameCaller(d)) /\ Later
  BY <1>1 DEF RowsInv, Types, SameCaller, NoWrites, Later
<1>3. Filling(c)' /\ Dropping(c)'
  BY <1>2 DEF Filling, Dropping
<1>4. ASSUME NEW q \in Person, NEW f \in Email, Login(q, f) \in db \ db'
      PROVE  f \in outdated'
  <2>1. Login(q, f) \in staged[c].del
    BY <1>1, <1>4 DEF See
  <2> QED
    BY <1>1, <2>1 DEF CacheInv, Dropping
<1> QED
  BY <1>1, <1>2, <1>3, <1>4, ChangingKeeps

LEMMA NextCache == RowsInv /\ CacheInv /\ [RegistrationNext]_registrationVars => CacheInv'
<1> SUFFICES ASSUME RowsInv, CacheInv, [RegistrationNext]_registrationVars PROVE CacheInv'
  OBVIOUS
<1>1. Types /\ \A c \in Caller : Filling(c) /\ Dropping(c)
  BY DEF RowsInv, CacheInv, Filling, Dropping
<1>2. ASSUME UNCHANGED <<db, staged, at, call, who, previous, raced, outdated>>,
             \A e \in Email : cache'[e] \in {None, cache[e]}
      PROVE  CacheInv'
  BY <1>2 DEF CacheInv, Filling, Dropping, CacheOnlyOutdated
<1>3. ASSUME NEW c \in Caller, Refuse(c), at[c] # "cache"
      PROVE  CacheInv'
  BY <1>3, FailCache DEF Refuse, history, Later
<1>4. ASSUME NEW c \in Caller, at[c] # "cache", LoginsKept(c), NEW l, l \notin {"fill", "cache"},
             at' = [at EXCEPT ![c] = l], \A d \in Caller \ {c} : SameCaller(d),
             UNCHANGED <<raced, outdated>>, \A e \in Email : cache'[e] \in {None, cache[e]}
      PROVE  CacheInv'
  <2>1. Filling(c)' /\ Later
    BY <1>1, <1>4 DEF Types, Filling, Later
  <2> QED
    BY <1>4, <2>1, PlainCache
<1>5. ASSUME NEW c \in Caller, UNCHANGED <<db, staged>>
      PROVE  LoginsKept(c)
  BY <1>5 DEF LoginsKept
<1>6. ASSUME NEW c \in Caller, Writing(c)
      PROVE  CacheInv'
  <2>1. Inside(c) /\ at[c] # "cache"
    BY <1>6, WritingKeepsLogins DEF Inside, Section
  <2>2. CASE Refuse(c)
    BY <1>3, <2>1, <2>2
  <2>3. ASSUME LoginsKept(c), NEW l \in Section, at' = [at EXCEPT ![c] = l], NEW w, who' = [who EXCEPT ![c] = w],
               UNCHANGED <<cache, call, previous, raced, outdated>>
        PROVE  CacheInv'
    <3>1. \A d \in Caller \ {c} : SameCaller(d)
      BY <1>1, <2>3 DEF Types, SameCaller, LoginsKept
    <3>2. l \notin {"fill", "cache"}
      BY DEF Section
    <3> QED
      BY <1>4, <2>1, <2>3, <3>1, <3>2
  <2> QED
    BY <1>6, <2>2, <2>3, WritingKeepsLogins
<1>7. ASSUME NEW c \in Caller, WriteLogin(c)
      PROVE  CacheInv'
  BY <1>3, <1>7, WriteLoginCache DEF WriteLogin
<1>8. ASSUME NEW c \in Caller, Commit(c)
      PROVE  CacheInv'
  BY <1>8, CommitCache
<1>9. ASSUME NEW c \in Caller, CheckTaken(c)
      PROVE  CacheInv'
  <2>1. at[c] = "taken"
    BY <1>9 DEF CheckTaken
  <2>2. CASE Refuse(c)
    BY <1>3, <2>1, <2>2
  <2>3. CASE FindLogins(c) /\ Goto(c, "write") /\ UNCHANGED <<tables, lock, cache, contact, call, who, machine, history>>
    <3>1. /\ at' = [at EXCEPT ![c] = "write"] /\ \A d \in Caller \ {c} : previous'[d] = previous[d]
          /\ UNCHANGED <<db, staged, cache, call, who, raced, outdated>>
      BY <1>1, <2>3 DEF FindLogins, Goto, tables, history, Types
    <3>2. \A d \in Caller \ {c} : SameCaller(d)
      BY <1>1, <3>1 DEF Types, SameCaller
    <3> QED
      BY <1>4, <1>5, <2>1, <3>1, <3>2
  <2> QED
    BY <1>9, <2>2, <2>3 DEF CheckTaken
<1>10. ASSUME NEW c \in Caller, TakeLock(c)
       PROVE  CacheInv'
  <2>1. PICK l \in {"find", "decide"} : at' = [at EXCEPT ![c] = l]
    BY <1>10 DEF TakeLock, Goto
  <2>2. at[c] = "lock" /\ UNCHANGED <<db, staged, cache, call, who, previous, raced, outdated>>
    BY <1>10 DEF TakeLock, tables, reads, history
  <2>3. \A d \in Caller \ {c} : SameCaller(d)
    BY <1>1, <2>1, <2>2 DEF Types, SameCaller
  <2> QED
    BY <1>4, <1>5, <2>1, <2>2, <2>3
<1>11. ASSUME NEW c \in Caller, writeIdentityCache(c)
       PROVE  CacheInv'
  <2> DEFINE e == call[c].email
             p == who[c]
  <2>1. /\ at[c] = "cache" /\ at' = [at EXCEPT ![c] = "idle"] /\ call' = [call EXCEPT ![c] = NoCall]
        /\ who' = [who EXCEPT ![c] = None] /\ previous' = [previous EXCEPT ![c] = {}]
        /\ cache' = [f \in Email |-> IF f = e THEN p ELSE IF f \in previous[c] THEN None ELSE cache[f]]
        /\ UNCHANGED <<db, staged, raced, outdated>>
    BY <1>11 DEF writeIdentityCache, Goto, Forget, tables, history
  <2>2. at'[c] = "idle" /\ (\A d \in Caller \ {c} : SameCaller(d)) /\ Later
    BY <1>1, <2>1 DEF Types, SameCaller, Later
  <2>3. e \in Email /\ p \in Person /\ (Login(p, e) \in db \/ e \in outdated \/ raced)
    BY <1>1, <2>1 DEF RowsInv, Stands, Filling
  <2>4. \A f \in Email :
          IF f = e THEN cache'[f] = p ELSE cache'[f] = (IF f \in previous[c] THEN None ELSE cache[f])
    BY <2>1
  <2>5. Filling(c)' /\ Dropping(c)'
    BY <1>1, <2>1, <2>2 DEF Filling, Dropping
  <2>6. \A f \in Email : \/ cache'[f] \in {None, cache[f]}
                         \/ cache'[f] \in Person /\ (Login(cache'[f], f) \in db \/ f \in outdated \/ raced)
    BY <2>3, <2>4
  <2>7. \A f \in Email : Corrects(c, f) =>
          cache'[f] = None \/ f \in outdated' \/ raced' \/ Login(cache'[f], f) \in db'
    BY <2>1, <2>3, <2>4 DEF Corrects
  <2> QED
    BY <2>1, <2>2, <2>5, <2>6, <2>7, CacheKeeps
<1>12. ASSUME NEW c \in Caller, Answer(c)
       PROVE  CacheInv'
  <2>1. /\ at[c] = "answer" /\ at' = [at EXCEPT ![c] = "idle"] /\ call' = [call EXCEPT ![c] = NoCall]
        /\ who' = [who EXCEPT ![c] = None] /\ previous' = [previous EXCEPT ![c] = {}]
        /\ cache' = [cache EXCEPT ![call[c].email] = None]
        /\ UNCHANGED <<db, staged, raced, outdated>>
    BY <1>12 DEF Answer, Goto, Forget, tables
  <2>2. (\A d \in Caller \ {c} : SameCaller(d)) /\ \A f \in Email : cache'[f] \in {None, cache[f]}
    BY <1>1, <2>1 DEF Types, SameCaller
  <2> QED
    BY <1>4, <1>5, <2>1, <2>2
<1>13. ASSUME NEW c \in Caller, ReadLogin(c)
       PROVE  CacheInv'
  <2>1. at[c] = "read" /\ UNCHANGED <<db, staged, cache, previous, raced, outdated>>
    BY <1>13 DEF ReadLogin, tables, reads, history
  <2>2. CASE at' = [at EXCEPT ![c] = "idle"] /\ call' = [call EXCEPT ![c] = NoCall] /\ UNCHANGED who
    <3>1. \A d \in Caller \ {c} : SameCaller(d)
      BY <1>1, <2>1, <2>2 DEF Types, SameCaller
    <3> QED
      BY <1>4, <1>5, <2>1, <2>2, <3>1
  <2>3. ASSUME NEW p \in LoginsOf(call[c].email, db), who' = [who EXCEPT ![c] = p],
               at' = [at EXCEPT ![c] = "fill"], UNCHANGED call
        PROVE  CacheInv'
    <3>1. who'[c] = p /\ \A d \in Caller \ {c} : SameCaller(d)
      BY <1>1, <2>1, <2>3 DEF Types, SameCaller
    <3>2. Login(p, call[c].email) \in db
      BY <2>3 DEF LoginsOf
    <3>3. Filling(c)' /\ Later
      BY <2>1, <2>3, <3>1, <3>2 DEF Filling, Later, Login
    <3> QED
      BY <1>5, <2>1, <3>1, <3>3, PlainCache
  <2> QED
    BY <1>13, <2>2, <2>3 DEF ReadLogin, Goto
<1>14. ASSUME NEW c \in Caller, FillCache(c)
       PROVE  CacheInv'
  <2> DEFINE e == call[c].email
             p == who[c]
  <2>1. /\ at[c] = "fill" /\ at' = [at EXCEPT ![c] = "idle"] /\ call' = [call EXCEPT ![c] = NoCall]
        /\ who' = [who EXCEPT ![c] = None] /\ cache' = [cache EXCEPT ![e] = p]
        /\ UNCHANGED <<db, staged, previous, raced, outdated>>
    BY <1>14 DEF FillCache, Goto, tables, reads, history
  <2>2. at'[c] = "idle" /\ (\A d \in Caller \ {c} : SameCaller(d)) /\ Later
    BY <1>1, <2>1 DEF Types, SameCaller, Later
  <2>3. e \in Email /\ p \in Person /\ (Login(p, e) \in db \/ e \in outdated \/ raced)
    BY <1>1, <2>1 DEF RowsInv, Stands, Filling
  <2>4. \A f \in Email : cache'[f] = IF f = e THEN p ELSE cache[f]
    BY <1>1, <2>1, <2>3 DEF Types
  <2>5. Filling(c)' /\ Dropping(c)'
    BY <1>1, <2>1, <2>2 DEF Filling, Dropping
  <2>6. \A f \in Email : \/ cache'[f] \in {None, cache[f]}
                         \/ cache'[f] \in Person /\ (Login(cache'[f], f) \in db \/ f \in outdated \/ raced)
    BY <2>3, <2>4
  <2>7. \A f \in Email : ~Corrects(c, f)
    BY <2>1 DEF Corrects
  <2> QED
    BY <2>1, <2>2, <2>5, <2>6, <2>7, CacheKeeps
<1>15. ASSUME NEW c \in Caller, Fault(c)
       PROVE  CacheInv'
  <2>1. /\ Fail(c) /\ raced' = raced
        /\ outdated' = IF at[c] = "cache" THEN outdated \union previous[c] \union {call[c].email} ELSE outdated
    BY <1>15 DEF Fault
  <2> QED
    BY <2>1, FailCache DEF Later
<1>16. ASSUME NEW c \in Caller, NEW e \in Email,
              \/ lookupLogin(c, e)
              \/ \E o \in Org : ensureSelfRegistration(c, e, o) \/ resolveAccessRequest(c, e, o)
              \/ \E p \in Person : setLogin(c, p, e)
       PROVE  CacheInv'
  <2>1. PICK k : Begins(c, k)
    BY <1>16, CallsBegin
  <2>2. PICK l \in {"lock", "taken", "read"} : at' = [at EXCEPT ![c] = l]
    BY <2>1 DEF Begins, Begin, Goto
  <2>3. /\ at[c] = "idle" /\ UNCHANGED <<db, staged, cache, previous, raced, outdated>>
        /\ \A d \in Caller \ {c} : call'[d] = call[d] /\ who'[d] = who[d]
    BY <1>1, <2>1 DEF Begins, Begin, tables, reads, history, Types
  <2>4. \A d \in Caller \ {c} : SameCaller(d)
    BY <1>1, <2>2, <2>3 DEF Types, SameCaller
  <2> QED
    BY <1>4, <1>5, <2>2, <2>3, <2>4
<1>17. ASSUME NEW p \in Person, NEW e \in Email, ContactChanges(p, e)
       PROVE  CacheInv'
  BY <1>2, <1>17 DEF ContactChanges, tables, reads, history
<1>18. ASSUME NEW e \in Email, CacheExpires(e)
       PROVE  CacheInv'
  <2>1. \A f \in Email : cache'[f] \in {None, cache[f]}
    BY <1>1, <1>18 DEF CacheExpires, Types
  <2> QED
    BY <1>2, <1>18, <2>1 DEF CacheExpires, tables, reads, history
<1>19. CASE UNCHANGED registrationVars
  BY <1>2, <1>19 DEF registrationVars, tables, reads, history
<1> QED
  BY <1>6, <1>7, <1>8, <1>9, <1>10, <1>11, <1>12, <1>13, <1>14, <1>15, <1>16, <1>17, <1>18, <1>19
     DEF RegistrationNext, CallStep, Writing

LEMMA InitCache == RegistrationInit => CacheInv
  BY DEF RegistrationInit, CacheInv, Filling, Dropping, CacheOnlyOutdated, NoWrites

LEMMA AlwaysCache == RegistrationSpec => [](RowsInv /\ CacheInv)
<1> QED
  BY InitSound, NextSound, InitCache, NextCache, PTL DEF RegistrationSpec

\* What the cache says of an e-mail is its login, or it is about to be corrected,
\* or it was read before the login changed: a look-up or a setLogin that is
\* overtaken is the only way an old entry comes to stay (identityUsecases.ts,
\* lookupLogin and setLogin; registrationRequests.ts, resolveAccessRequest).
THEOREM CacheIsCorrected == RegistrationSpec => []CacheOnlyOutdated
<1>1. CacheInv => CacheOnlyOutdated
  BY DEF CacheInv
<1> QED
  BY <1>1, AlwaysCache, PTL
=============================================================================
