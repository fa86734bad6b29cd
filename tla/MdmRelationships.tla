-------------------------- MODULE MdmRelationships --------------------------
(***************************************************************************)
(* Relationships between permanent records and the references derived from *)
(* them (internal/relationshipPersistence.ts, refreshRelationshipRefs in    *)
(* mdmSupport.ts): link, unlink and physical delete (mdmFacade.ts) change   *)
(* relationship rows and rebuild the references in the documents at both    *)
(* ends from the rows that are Active.                                      *)
(*                                                                         *)
(* A relationship has its default status when it is made; its type, its     *)
(* dates and the keys the references are grouped by are left out, and so    *)
(* are index rows, audit and outbox, which follow the documents (MdmRecords).*)
(* Relationships of prospects are not modelled: the facade refuses them.    *)
(*                                                                         *)
(* A transaction reads committed rows and its own; it locks the rows it     *)
(* writes until it ends; what it wrote becomes visible when it commits.     *)
(***************************************************************************)
EXTENDS Naturals

CONSTANTS
  Id,         \* permanent records
  Rel,        \* relationship ids
  Request,    \* requests in flight
  Operation,  \* the operations requests may ask for
  MaxVersion  \* bound: updates stop at this version of a record

ASSUME ConstantsAssumption ==
  /\ Id \intersect Rel = {}
  /\ Operation \subseteq {"link", "unlink", "delete", "force", "update"}
  /\ MaxVersion \in Nat

VARIABLES
  version,  \* mdm_documents.version; 0 when the record was deleted
  refs,     \* details.relationshipRefs: the records it names
  row,      \* mdm_relationships
  pc, job,  \* where each request is, and what it asks for
  found,    \* the relationship rows it has read
  seen,     \* what it read of their documents
  todo,     \* the documents it still has to rewrite
  held,     \* the rows and documents its transaction has locked
  overtaken,\* history: records whose rows or references changed after it read them
  stale     \* history: records last refreshed by a request that was overtaken

tables == <<version, refs, row>>
calls  == <<job, found, seen, todo, held>>
vars == <<tables, pc, calls, overtaken, stale>>

Row == [status : {"none", "Active", "Inactive", "deleted"}, from : SUBSET Id, to : SUBSET Id]
Job == [op : Operation \union {"none"}, rels : SUBSET Rel, id : SUBSET Id,
        from : SUBSET Id, to : SUBSET Id]
Document == [version : Nat, refs : SUBSET Id]
NoJob == [op |-> "none", rels |-> {}, id |-> {}, from |-> {}, to |-> {}]
NoDocument == [version |-> 0, refs |-> {}]

\* Records that were just created, and no relationships.
Init ==
  /\ version = [id \in Id |-> 1] /\ refs = [id \in Id |-> {}]
  /\ row = [rel \in Rel |-> [status |-> "none", from |-> {}, to |-> {}]]
  /\ pc = [r \in Request |-> "idle"] /\ job = [r \in Request |-> NoJob]
  /\ found = [r \in Request |-> <<>>]
  /\ seen = [r \in Request |-> [id \in Id |-> NoDocument]]
  /\ todo = [r \in Request |-> {}] /\ held = [r \in Request |-> {}]
  /\ overtaken = [r \in Request |-> {}] /\ stale = {}

Records == {id \in Id : version[id] > 0}
Rows(w) == {rel \in Rel : w[rel].status \in {"Active", "Inactive"}}
Of(id) == {rel \in Rows(row) : id \in row[rel].from \union row[rel].to}

-----------------------------------------------------------------------------
(* A request arrives, and reads outside any transaction.                     *)

Ask(r, j) ==
  /\ pc[r] = "idle" /\ j.op \in Operation
  /\ pc' = [pc EXCEPT ![r] = "begin"]
  /\ job' = [job EXCEPT ![r] = j]
  /\ UNCHANGED <<tables, found, seen, todo, held, overtaken, stale>>

\* Both ends must be permanent records.
link(r) ==
  \E rel \in Rel, a, b \in Records :
    /\ row[rel].status = "none" /\ \A q \in Request : rel \notin job[q].rels
    /\ Ask(r, [op |-> "link", rels |-> {rel}, id |-> {}, from |-> {a}, to |-> {b}])

unlink(r) ==
  \E rel \in Rows(row) :
    Ask(r, [op |-> "unlink", rels |-> {rel}, id |-> {},
            from |-> row[rel].from, to |-> row[rel].to])

\* "force" is a delete with allowActiveRelationships.
MayDelete(rels, op) == op = "force" \/ \A rel \in rels : row[rel].status # "Active"

delete(r) ==
  \E id \in Records, op \in {"delete", "force"} :
    /\ MayDelete(Of(id), op)
    /\ Ask(r, [op |-> op, rels |-> Of(id), id |-> {id},
               from |-> UNION {row[rel].from : rel \in Of(id)},
               to |-> UNION {row[rel].to : rel \in Of(id)}])

\* Any other write of a document (MdmRecords) keeps the references it read; its
\* caller expects the version that is read.
update(r) ==
  /\ pc[r] = "idle" /\ "update" \in Operation
  /\ \E id \in Records :
       /\ version[id] < MaxVersion
       /\ job' = [job EXCEPT ![r] =
            [op |-> "update", rels |-> {}, id |-> {id}, from |-> {}, to |-> {}]]
       /\ seen' = [seen EXCEPT ![r][id] = [version |-> version[id], refs |-> refs[id]]]
  /\ pc' = [pc EXCEPT ![r] = "write"]
  /\ UNCHANGED <<tables, found, todo, held, overtaken, stale>>

-----------------------------------------------------------------------------
(* The transaction.                                                          *)

Free(r, things) == \A q \in Request \ {r} : held[q] \intersect things = {}

\* Insert, update or delete the relationship rows; a delete also removes the
\* record.  The rows of an unlink may be gone by now.
Begin(r) ==
  /\ pc[r] = "begin"
  /\ Free(r, job[r].rels \union job[r].id)
  /\ held' = [held EXCEPT ![r] = job[r].rels \union job[r].id]
  /\ pc' = [pc EXCEPT ![r] = "from"]
  /\ UNCHANGED <<tables, job, found, seen, todo, overtaken, stale>>

\* The records a request refreshes, and what it does to its rows.
OneEnd(j) == j.from \ j.id
Ends(j) == (j.from \union j.to) \ j.id
Written(j, rel) ==
  CASE j.op = "link"   -> [status |-> "Active", from |-> j.from, to |-> j.to]
    [] j.op = "unlink" -> IF row[rel].status = "deleted" THEN row[rel]
                          ELSE [row[rel] EXCEPT !.status = "Inactive"]
    [] OTHER           -> [status |-> "deleted", from |-> {}, to |-> {}]

\* The rows as its transaction sees them.
View(r) == [rel \in Rel |-> IF rel \in job[r].rels THEN Written(job[r], rel) ELSE row[rel]]

\* buildCompactRelationshipRefs, for the rows w.
Neighbours(w, id) ==
  LET active == {rel \in DOMAIN w : w[rel].status = "Active"}
  IN (UNION {w[rel].to : rel \in {x \in active : id \in w[x].from}})
     \union (UNION {w[rel].from : rel \in {x \in active : id \in w[x].to}})

\* refreshRelationshipRefs reads the rows that start at its records, ...
ReadFrom(r) ==
  /\ pc[r] = "from"
  /\ found' = [found EXCEPT ![r] =
       [rel \in {x \in Rows(View(r)) : View(r)[x].from \intersect Ends(job[r]) # {}}
          |-> View(r)[rel]]]
  /\ overtaken' = [overtaken EXCEPT ![r] = {}]
  /\ pc' = [pc EXCEPT ![r] = "to"]
  /\ UNCHANGED <<tables, job, seen, todo, held, stale>>

\* ... the rows that end there, of which those it has already stay as they
\* were, ...
ReadTo(r) ==
  /\ pc[r] = "to"
  /\ LET more == {x \in Rows(View(r)) : View(r)[x].to \intersect Ends(job[r]) # {}}
     IN found' = [found EXCEPT ![r] = [rel \in DOMAIN @ \union more |->
                    IF rel \in DOMAIN found[r] THEN found[r][rel] ELSE View(r)[rel]]]
  /\ pc' = [pc EXCEPT ![r] = "documents"]
  /\ UNCHANGED <<tables, job, seen, todo, held, overtaken, stale>>

\* ... then the documents; those with other references are to be rewritten.
ReadDocuments(r) ==
  /\ pc[r] = "documents"
  /\ seen' = [seen EXCEPT ![r] = [id \in Id |->
       IF id \in Ends(job[r]) THEN [version |-> version[id], refs |-> refs[id]] ELSE NoDocument]]
  /\ todo' = [todo EXCEPT ![r] =
       {id \in Ends(job[r]) \intersect Records : refs[id] # Neighbours(found[r], id)}]
  /\ pc' = [pc EXCEPT ![r] = "put"]
  /\ UNCHANGED <<tables, job, found, held, overtaken, stale>>

AnyVersion(r, id) == version[id] > 0
VersionMatches(r, id) == version[id] = seen[r][id].version

Put(r) ==
  /\ pc[r] = "put"
  /\ \E id \in todo[r] :
       /\ Free(r, {id}) /\ VersionMatches(r, id)
       /\ held' = [held EXCEPT ![r] = @ \union {id}]
       /\ todo' = [todo EXCEPT ![r] = @ \ {id}]
  /\ UNCHANGED <<tables, pc, job, found, seen, overtaken, stale>>

Finish(r) ==
  /\ pc' = [pc EXCEPT ![r] = "idle"] /\ job' = [job EXCEPT ![r] = NoJob]
  /\ found' = [found EXCEPT ![r] = <<>>]
  /\ seen' = [seen EXCEPT ![r] = [id \in Id |-> NoDocument]]
  /\ todo' = [todo EXCEPT ![r] = {}] /\ held' = [held EXCEPT ![r] = {}]

Commit(r) ==
  LET put == (held[r] \intersect Id) \ job[r].id
      moved == {rel \in job[r].rels : View(r)[rel] # row[rel]}
      changed == UNION {UNION {w[rel].from \union w[rel].to : w \in {row, View(r)}} : rel \in moved}
  IN /\ pc[r] = "put" /\ todo[r] = {}
     /\ row' = View(r)
     /\ version' = [id \in Id |-> IF id \in job[r].id THEN 0
                                  ELSE IF id \in put THEN version[id] + 1 ELSE version[id]]
     /\ refs' = [id \in Id |-> IF id \in job[r].id THEN {}
                               ELSE IF id \in put THEN Neighbours(found[r], id) ELSE refs[id]]
     /\ stale' = (stale \ Ends(job[r])) \union (overtaken[r] \intersect Ends(job[r]))
     /\ overtaken' = [q \in Request |->
          CASE q = r -> {}
            [] q # r /\ pc[q] \in {"to", "documents"} -> overtaken[q] \union changed
            [] q # r /\ pc[q] = "put" -> overtaken[q] \union changed \union put
            [] OTHER -> overtaken[q]]
     /\ Finish(r)

\* CONCURRENCY_CONFLICT, a deadlock, a lost connection: rolled back.
Rollback(r) ==
  /\ pc[r] \in {"begin", "from", "to", "documents", "put"}
  /\ Finish(r)
  /\ overtaken' = [overtaken EXCEPT ![r] = {}]
  /\ UNCHANGED <<tables, stale>>

Update(r) ==
  /\ pc[r] = "write"
  /\ \A id \in job[r].id :
       /\ Free(r, {id}) /\ VersionMatches(r, id)
       /\ version' = [version EXCEPT ![id] = @ + 1]
       /\ refs' = [refs EXCEPT ![id] = seen[r][id].refs]
  /\ Finish(r)
  /\ UNCHANGED <<row, overtaken, stale>>

UpdateRejected(r) ==
  /\ pc[r] = "write"
  /\ \E id \in job[r].id : Free(r, {id}) /\ ~VersionMatches(r, id)
  /\ Finish(r)
  /\ UNCHANGED <<tables, overtaken, stale>>

Next ==
  \E r \in Request :
    \/ link(r) \/ unlink(r) \/ delete(r) \/ update(r)
    \/ Begin(r) \/ ReadFrom(r) \/ ReadTo(r) \/ ReadDocuments(r) \/ Put(r) \/ Commit(r) \/ Rollback(r)
    \/ Update(r) \/ UpdateRejected(r)

Spec == Init /\ [][Next]_vars

-----------------------------------------------------------------------------
(* Properties                                                                *)

\* The references of a record differ from its active relationships only if,
\* between the reads and the commit of the request that refreshed them last,
\* another one changed its rows or rewrote them: a refresh that nothing
\* overtakes repairs the references, whatever happened before.
StaleRefsWereOvertaken ==
  \A id \in Records : refs[id] # Neighbours(row, id) => id \in stale

\* A write of a document that is not about relationships never brings back
\* references that a link or unlink has replaced since it read the document.
UpdatesKeepRefs ==
  [][\A r \in Request : pc[r] = "write" /\ pc'[r] # "write" => refs' = refs]_vars
=============================================================================
