----------------------------- MODULE MdmRecords -----------------------------
(***************************************************************************)
(* Master data records (l1/mdm/layer_3_usecases): one document per record, *)
(* an index of permanent records and one of prospects, and the requests    *)
(* that create, update, promote, merge and delete records                  *)
(* (internal/entityPersistence.ts, mdmFacade.ts) through DataRecordService. *)
(*                                                                         *)
(* A request reads first and writes last.  Its reads are separate queries  *)
(* outside any transaction; its writes are one transaction that starts with *)
(* the compare-and-set of the document, so it is one step here.  The        *)
(* relationship rows that promotion migrates and deletion removes, and the *)
(* audit and history rows, are left out.                                   *)
(***************************************************************************)
EXTENDS Naturals

CONSTANTS
  Id,          \* mdmIds
  Key,         \* legal documents (docType, docId)
  Request,     \* requests in flight
  NoId, NoKey,
  Operation,   \* the operations requests may ask for
  Ahead,       \* how far expectedVersion may run ahead of the stored version
  MaxVersion   \* bound: versions per record

ASSUME ConstantsAssumption ==
  /\ NoId \notin Id
  /\ NoKey \notin Key
  /\ Operation \subseteq {"createEntity", "createProspect", "updateEntity",
                          "updateProspect", "promote", "merge", "delete"}
  /\ Ahead \in Nat
  /\ MaxVersion \in Nat

VARIABLES
  version,        \* mdm_documents.version; 0 when there is no row
  details,        \* mdm_documents.details
  entityIndex,    \* the mdmIds in the index of permanent records
  entityKey,      \* its docType/docId columns
  prospectIndex,  \* the mdmIds in the index of prospects
  enqueued,       \* every row committed to mdm_outbox: <<mdmId, version>>
  born,           \* mdmIds given out (a UUID is not given out twice)
  pc, job,        \* where each request is, and what it asks for
  base, draft,    \* the version it read, and the details it will write
  duplicate,      \* the permanent record its promotion collides with
  from,           \* history: the version the stored details were computed from
  cleared,        \* history: requests whose check saw no other holder of the key
  unchecked       \* history: records whose key got past the duplicate check

store     == <<version, details, entityIndex, entityKey, prospectIndex, enqueued>>
inflight  == <<pc, job, base, draft, duplicate>>
ghosts    == <<from, cleared, unchecked>>
vars == <<store, born, inflight, ghosts>>

\* "Active" also stands for Inactive and Blocked, which nothing here reads.
Status  == {"New", "PendingMerge", "Active", "Merged"}
Details == [key : Key \union {NoKey}, status : Status, link : Id \union {NoId}]
Job == [op : Operation \union {"none"}, id : Id \union {NoId}, other : Id \union {NoId},
        key : Key \union {NoKey}, status : Status, expected : Nat]

NoJob == [op |-> "none", id |-> NoId, other |-> NoId, key |-> NoKey,
          status |-> "New", expected |-> 0]
Blank == [key |-> NoKey, status |-> "New", link |-> NoId]

\* Documents, indexes, outbox and requests have the shapes of their columns and
\* of the calls that fill them.
TypeOK ==
  /\ version \in [Id -> Nat]
  /\ details \in [Id -> Details]
  /\ entityIndex \subseteq Id
  /\ entityKey \in [Id -> Key \union {NoKey}]
  /\ prospectIndex \subseteq Id
  /\ enqueued \subseteq Id \X (Nat \ {0})
  /\ born \subseteq Id
  /\ pc \in [Request -> {"idle", "read", "check", "write"}]
  /\ job \in [Request -> Job]
  /\ base \in [Request -> Nat]
  /\ draft \in [Request -> Details]
  /\ duplicate \in [Request -> Id \union {NoId}]
  /\ from \in [Id -> Nat]
  /\ cleared \subseteq Request
  /\ unchecked \subseteq Id

Init ==
  /\ version       = [id \in Id |-> 0]
  /\ details       = [id \in Id |-> Blank]
  /\ entityIndex   = {}
  /\ entityKey     = [id \in Id |-> NoKey]
  /\ prospectIndex = {}
  /\ enqueued      = {}
  /\ born          = {}
  /\ pc            = [r \in Request |-> "idle"]
  /\ job           = [r \in Request |-> NoJob]
  /\ base          = [r \in Request |-> 0]
  /\ draft         = [r \in Request |-> Blank]
  /\ duplicate     = [r \in Request |-> NoId]
  /\ from          = [id \in Id |-> 0]
  /\ cleared       = {}
  /\ unchecked     = {}

-----------------------------------------------------------------------------
(* A request arrives.                                                        *)

Ask(r, j, next) ==
  /\ pc[r] = "idle" /\ j.op \in Operation
  /\ pc' = [pc EXCEPT ![r] = next]
  /\ job' = [job EXCEPT ![r] = j]
  /\ cleared' = cleared \ {r}
  /\ UNCHANGED <<store, base, duplicate, from, unchecked>>

createEntity(r) ==
  \E id \in Id \ born, k \in Key \union {NoKey} :
    /\ Ask(r, [NoJob EXCEPT !.op = "createEntity", !.id = id], "check")
    /\ born' = born \union {id}
    /\ draft' = [draft EXCEPT ![r] = [key |-> k, status |-> "Active", link |-> NoId]]

createProspect(r) ==
  \E id \in Id \ born, k \in Key \union {NoKey} :
    /\ Ask(r, [NoJob EXCEPT !.op = "createProspect", !.id = id], "write")
    /\ born' = born \union {id}
    /\ draft' = [draft EXCEPT ![r] = [key |-> k, status |-> "New", link |-> NoId]]

\* The caller names a version it has seen, or (Ahead > 0) the one that its
\* own unanswered update is about to write.
Expectable(id) == 1..(version[id] + Ahead)

\* updateEntity is also inactivate, reactivate and attachRole.
update(r) ==
  \E op \in {"updateEntity", "updateProspect"}, id \in Id, k \in Key \union {NoKey} :
    /\ version[id] > 0
    /\ \E x \in Expectable(id), s \in {details[id].status, "Active"} :
         /\ op = "updateProspect" => s = details[id].status
         /\ Ask(r, [op |-> op, id |-> id, other |-> NoId, key |-> k,
                    status |-> s, expected |-> x], "read")
    /\ UNCHANGED <<born, draft>>

promoteProspect(r) ==
  \E id \in prospectIndex :
    /\ Ask(r, [NoJob EXCEPT !.op = "promote", !.id = id], "read")
    /\ UNCHANGED <<born, draft>>

mergeEntity(r) ==
  \E winner, loser \in entityIndex :
    /\ winner # loser
    /\ Ask(r, [NoJob EXCEPT !.op = "merge", !.id = loser, !.other = winner], "read")
    /\ UNCHANGED <<born, draft>>

\* The relationships that would block it are not modelled.
delete(r) ==
  \E id \in entityIndex :
    /\ Ask(r, [NoJob EXCEPT !.op = "delete", !.id = id], "write")
    /\ UNCHANGED <<born, draft>>

-----------------------------------------------------------------------------
(* It reads.                                                                 *)

Finish(r) ==
  /\ pc' = [pc EXCEPT ![r] = "idle"]
  /\ job' = [job EXCEPT ![r] = NoJob]
  /\ base' = [base EXCEPT ![r] = 0]
  /\ draft' = [draft EXCEPT ![r] = Blank]
  /\ duplicate' = [duplicate EXCEPT ![r] = NoId]

\* applyPatchToDetail: an absent field keeps its value.
applyPatch(d, j) ==
  IF j.op \in {"updateEntity", "updateProspect"}
  THEN [d EXCEPT !.key = IF j.key = NoKey THEN @ ELSE j.key, !.status = j.status]
  ELSE d

ReadDocument(r) ==
  /\ pc[r] = "read"
  /\ version[job[r].id] > 0
  /\ base' = [base EXCEPT ![r] = version[job[r].id]]
  /\ draft' = [draft EXCEPT ![r] = applyPatch(details[job[r].id], job[r])]
  /\ pc' = [pc EXCEPT ![r] = IF job[r].op \in {"updateEntity", "promote"}
                             THEN "check" ELSE "write"]
  /\ UNCHANGED <<store, born, job, duplicate, ghosts>>

NotFound(r) ==
  /\ pc[r] = "read"
  /\ version[job[r].id] = 0
  /\ Finish(r)
  /\ UNCHANGED <<store, born, ghosts>>

Nobody(k) == {}
findEntityByDocument(k) ==
  IF k = NoKey THEN {} ELSE {id \in entityIndex : entityKey[id] = k}

\* find returns the first of them, in no particular order.
CheckDuplicate(r) ==
  LET found == findEntityByDocument(draft[r].key) IN
  /\ pc[r] = "check"
  /\ pc' = [pc EXCEPT ![r] = "write"]
  /\ \/ found = {} /\ duplicate' = duplicate
     \/ job[r].op = "updateEntity" /\ job[r].id \in found /\ duplicate' = duplicate
     \/ \E d \in found : /\ job[r].op = "promote"
                         /\ duplicate' = [duplicate EXCEPT ![r] = d]
  /\ cleared' = IF found \subseteq {job[r].id} THEN cleared \union {r} ELSE cleared \ {r}
  /\ UNCHANGED <<store, born, job, base, draft, from, unchecked>>

\* createEntity answers alreadyExists, updateEntity throws DUPLICATE_RECORD.
DuplicateFound(r) ==
  /\ pc[r] = "check"
  /\ job[r].op # "promote"
  /\ \E d \in findEntityByDocument(draft[r].key) : d # job[r].id
  /\ Finish(r)
  /\ UNCHANGED <<store, born, ghosts>>

-----------------------------------------------------------------------------
(* It writes: one transaction.                                               *)

firstVersion == 1

expected(r) ==
  IF job[r].op \in {"updateEntity", "updateProspect"} THEN job[r].expected ELSE base[r]

AnyVersion(r) == TRUE
VersionMatches(r) == version[job[r].id] = expected(r)

\* mdmDocument.put and enqueueWriteBehind.
Put(r, v, d) ==
  /\ version' = [version EXCEPT ![job[r].id] = v]
  /\ details' = [details EXCEPT ![job[r].id] = d]
  /\ enqueued' = enqueued \union {<<job[r].id, v>>}
  /\ from' = [from EXCEPT ![job[r].id] = base[r]]

\* Every write makes the other requests' checks stale.
Settle(r) ==
  /\ Finish(r)
  /\ cleared' = {}
  /\ unchecked' = IF r \in cleared THEN unchecked \ {job[r].id}
                  ELSE unchecked \union {job[r].id}
  /\ UNCHANGED born

WriteNew(r) ==
  /\ pc[r] = "write" /\ job[r].op \in {"createEntity", "createProspect"}
  /\ Put(r, firstVersion, draft[r])
  /\ IF job[r].op = "createEntity"
     THEN /\ entityIndex' = entityIndex \union {job[r].id}
          /\ entityKey' = [entityKey EXCEPT ![job[r].id] = draft[r].key]
          /\ prospectIndex' = prospectIndex
     ELSE /\ prospectIndex' = prospectIndex \union {job[r].id}
          /\ UNCHANGED <<entityIndex, entityKey>>
  /\ Settle(r)

MayWrite(r, op) ==
  /\ pc[r] = "write" /\ job[r].op = op
  /\ VersionMatches(r)
  /\ base[r] < MaxVersion

\* An UPDATE of the index changes the row if there is one.
UpdateEntityIndex(r) ==
  entityKey' = IF job[r].id \in entityIndex
               THEN [entityKey EXCEPT ![job[r].id] = draft[r].key] ELSE entityKey

WriteEntity(r) ==
  /\ MayWrite(r, "updateEntity")
  /\ Put(r, base[r] + 1, draft[r])
  /\ UpdateEntityIndex(r)
  /\ Settle(r)
  /\ UNCHANGED <<entityIndex, prospectIndex>>

WriteProspect(r) ==
  /\ MayWrite(r, "updateProspect")
  /\ Put(r, base[r] + 1, draft[r])
  /\ Settle(r)
  /\ UNCHANGED <<entityIndex, entityKey, prospectIndex>>

StayProspect(id) == prospectIndex
LeaveProspects(id) == prospectIndex \ {id}

WritePromotion(r) ==
  /\ MayWrite(r, "promote") /\ duplicate[r] = NoId
  /\ job[r].id \notin entityIndex
  /\ Put(r, base[r] + 1, [draft[r] EXCEPT !.status = "Active", !.link = job[r].id])
  /\ entityIndex' = entityIndex \union {job[r].id}
  /\ entityKey' = [entityKey EXCEPT ![job[r].id] = draft[r].key]
  /\ prospectIndex' = LeaveProspects(job[r].id)
  /\ Settle(r)

WritePendingMerge(r) ==
  /\ MayWrite(r, "promote") /\ duplicate[r] # NoId
  /\ Put(r, base[r] + 1, [draft[r] EXCEPT !.status = "PendingMerge", !.link = duplicate[r]])
  /\ Finish(r)
  /\ cleared' = {}
  /\ UNCHANGED <<entityIndex, entityKey, prospectIndex, born, unchecked>>

WriteMerge(r) ==
  /\ MayWrite(r, "merge")
  /\ Put(r, base[r] + 1, [draft[r] EXCEPT !.status = "Merged", !.link = job[r].other])
  /\ UpdateEntityIndex(r)
  /\ Finish(r)
  /\ cleared' = {}
  /\ UNCHANGED <<entityIndex, prospectIndex, born, unchecked>>

\* A physical delete: no version check and no outbox row.
WriteDelete(r) ==
  /\ pc[r] = "write" /\ job[r].op = "delete"
  /\ version' = [version EXCEPT ![job[r].id] = 0]
  /\ details' = [details EXCEPT ![job[r].id] = Blank]
  /\ from' = [from EXCEPT ![job[r].id] = 0]
  /\ entityIndex' = entityIndex \ {job[r].id}
  /\ entityKey' = [entityKey EXCEPT ![job[r].id] = NoKey]
  /\ Finish(r)
  /\ cleared' = {}
  /\ UNCHANGED <<prospectIndex, enqueued, born, unchecked>>

\* CONCURRENCY_CONFLICT, or the index already has the row: rolled back.
Rejected(r) ==
  /\ pc[r] = "write"
  /\ \/ job[r].op \in {"updateEntity", "updateProspect", "promote", "merge"} /\ ~VersionMatches(r)
     \/ job[r].op = "promote" /\ duplicate[r] = NoId /\ job[r].id \in entityIndex
  /\ Finish(r)
  /\ UNCHANGED <<store, born, ghosts>>

Next ==
  \E r \in Request :
    \/ createEntity(r) \/ createProspect(r) \/ update(r)
    \/ promoteProspect(r) \/ mergeEntity(r) \/ delete(r)
    \/ ReadDocument(r) \/ NotFound(r) \/ CheckDuplicate(r) \/ DuplicateFound(r)
    \/ WriteNew(r) \/ WriteEntity(r) \/ WriteProspect(r) \/ WritePromotion(r)
    \/ WritePendingMerge(r) \/ WriteMerge(r) \/ WriteDelete(r) \/ Rejected(r)

Spec == Init /\ [][Next]_vars

-----------------------------------------------------------------------------
(* Properties                                                                *)

\* Whatever is stored as version n + 1 was computed from version n of the same
\* record, although the version a request checks is the caller's and not the
\* one it read: no committed change is silently undone.
NoLostUpdate ==
  [][\A id \in Id :
       version'[id] > 0 /\ <<version'[id], details'[id]>> # <<version[id], details[id]>> =>
         from'[id] = version[id] /\ version'[id] = version[id] + 1]_vars

\* A document has exactly one index row, of a prospect or of a permanent
\* record, and an index row has its document.
OneIndexRow ==
  /\ entityIndex \intersect prospectIndex = {}
  /\ \A id \in Id : version[id] > 0 <=> id \in entityIndex \union prospectIndex

\* Two permanent records share a legal document only if, for one of them, the
\* check was skipped, was told of the other, or was overtaken by another write.
DuplicatesAreUnchecked ==
  \A a, b \in entityIndex \ unchecked :
    a # b /\ entityKey[a] # NoKey => entityKey[a] # entityKey[b]

\* Records keep the promise of a versioned store with an outbox.
Store == INSTANCE VersionedStore
ImplementsStore == Store!Spec
=============================================================================
