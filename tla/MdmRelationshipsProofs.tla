----------------------- MODULE MdmRelationshipsProofs -----------------------
(***************************************************************************)
(* Proofs about relationships and references, for any number of records,   *)
(* relationships and requests.  The inductive invariant IInv says of every *)
(* request what it asks for (Asked), what it has locked and put (Locked),   *)
(* that the version of a document tells its references (Saw), how the rows  *)
(* it found differ from those it would find now (HasFound), and which       *)
(* documents it need not rewrite (HasRefreshed).                            *)
(***************************************************************************)
EXTENDS MdmRelationships, TLAPS

TypeOK ==
  /\ version \in [Id -> Nat] /\ refs \in [Id -> SUBSET Id] /\ row \in [Rel -> Row]
  /\ pc \in [Request -> {"idle", "begin", "from", "to", "documents", "put", "write"}]
  /\ job \in [Request -> Job]
  /\ DOMAIN found = Request
  /\ \A r \in Request : DOMAIN found[r] \subseteq Rel
  /\ seen \in [Request -> [Id -> Document]]
  /\ todo \in [Request -> SUBSET Id] /\ held \in [Request -> SUBSET (Id \union Rel)]
  /\ overtaken \in [Request -> SUBSET Id] /\ stale \subseteq Id

Reading(r) == pc[r] \in {"from", "to", "documents", "put"}
RowEnds(w) == w.from \union w.to
PutBy(r) == (held[r] \intersect Id) \ job[r].id

\* An update is of one record; a link is of a row that is not there yet; no other
\* request is of a row with ends beyond those it refreshes.
Asked(r) ==
  /\ pc[r] = "idle" => job[r] = NoJob
  /\ pc[r] = "write" => \E id \in Id : job[r].id = {id}
  /\ \A rel \in job[r].rels :
       /\ row[rel].from \subseteq job[r].from /\ row[rel].to \subseteq job[r].to
       /\ job[r].op = "link" => row[rel].status = "none"

\* A request that reads has locked its rows and the record it deletes, and what it
\* has put in its transaction is still as it read it.
Locked(r) ==
  /\ IF Reading(r) THEN job[r].rels \union job[r].id \subseteq held[r] ELSE held[r] = {}
  /\ PutBy(r) \subseteq Ends(job[r]) /\ todo[r] \subseteq Ends(job[r])
  /\ pc[r] # "put" => todo[r] = {} /\ PutBy(r) = {}
  /\ \A id \in PutBy(r) : version[id] > 0 /\ version[id] = seen[r][id].version
  /\ \A id \in todo[r] : seen[r][id].version > 0

\* What was read of a document is what it was at that version.
Saw(r) ==
  /\ \A id \in Id :
       /\ version[id] = 0 \/ seen[r][id].version <= version[id]
       /\ version[id] > 0 /\ version[id] = seen[r][id].version => refs[id] = seen[r][id].refs
  /\ pc[r] = "write" => \A id \in job[r].id : seen[r][id].version > 0

\* The rows a request has found are the rows it would find now, but for those of
\* the records at which it was overtaken.
HasFound(r) ==
  pc[r] \in {"to", "documents", "put"} =>
    /\ \A rel \in DOMAIN found[r] :
         \/ found[r][rel] = View(r)[rel]
         \/ RowEnds(found[r][rel]) \union RowEnds(View(r)[rel]) \subseteq overtaken[r]
    /\ \A rel \in Rows(View(r)) \ DOMAIN found[r] :
         /\ View(r)[rel].from \intersect Ends(job[r]) \subseteq overtaken[r]
         /\ pc[r] # "to" => View(r)[rel].to \intersect Ends(job[r]) \subseteq overtaken[r]

HasRefreshed(r) ==
  pc[r] = "put" =>
    \A id \in (Ends(job[r]) \intersect Records) \ overtaken[r] :
      id \in todo[r] \union held[r] \/ refs[id] = Neighbours(found[r], id)

Own(r) == Asked(r) /\ Locked(r) /\ Saw(r) /\ HasFound(r) /\ HasRefreshed(r)

\* Requests hold different things, and a row that is made is of one request alone.
Apart ==
  \A r, q \in Request : r # q =>
    /\ held[r] \intersect held[q] = {}
    /\ job[r].op = "link" => job[r].rels \intersect job[q].rels = {}

NoEnds == \A rel \in Rel : row[rel].status \in {"none", "deleted"} => RowEnds(row[rel]) = {}

IInv == TypeOK /\ Apart /\ NoEnds /\ (\A r \in Request : Own(r)) /\ StaleRefsWereOvertaken

USE ConstantsAssumption

LEMMA InitIInv == Init => IInv
<1> SUFFICES ASSUME Init PROVE IInv
  OBVIOUS
<1>1. TypeOK
  BY DEF Init, TypeOK, Row, Job, NoJob, Document, NoDocument
<1>2. Apart /\ NoEnds
  BY DEF Init, Apart, NoEnds, NoJob, RowEnds
<1>3. ASSUME NEW r \in Request PROVE Own(r)
  BY DEF Init, Own, Asked, Locked, Saw, HasFound, HasRefreshed, NoJob, NoDocument, Reading, PutBy, Ends
<1>4. ASSUME NEW id \in Id PROVE refs[id] = Neighbours(row, id)
  <2>1. {rel \in DOMAIN row : row[rel].status = "Active"} = {} /\ refs[id] = {}
    BY DEF Init
  <2> QED
    BY <2>1 DEF Neighbours
<1>5. StaleRefsWereOvertaken
  BY <1>4 DEF StaleRefsWereOvertaken, Records
<1> QED
  BY <1>1, <1>2, <1>3, <1>5 DEF IInv

-----------------------------------------------------------------------------
(* Rows and references                                                       *)

LEMMA WrittenRow ==
  ASSUME TypeOK, NEW r \in Request, NEW rel \in Rel
  PROVE  Written(job[r], rel) \in Row /\ View(r)[rel] \in Row
<1>1. job[r] \in Job /\ row[rel] \in Row
  BY DEF TypeOK
<1>2. Written(job[r], rel) \in Row
  <2>1. [status |-> "Active", from |-> job[r].from, to |-> job[r].to] \in Row
    BY <1>1 DEF Job, Row
  <2>2. [row[rel] EXCEPT !.status = "Inactive"] \in Row
    BY <1>1 DEF Row
  <2>3. [status |-> "deleted", from |-> {}, to |-> {}] \in Row
    BY DEF Row
  <2> QED
    BY <1>1, <2>1, <2>2, <2>3 DEF Written
<1> QED
  BY <1>1, <1>2 DEF View

Touches(w, id) == w.status = "Active" /\ id \in RowEnds(w)

\* References depend on the active rows of a record alone.
LEMMA SameNeighbours ==
  ASSUME NEW w, NEW v, NEW id,
         \A rel \in DOMAIN w : Touches(w[rel], id) => rel \in DOMAIN v /\ v[rel] = w[rel],
         \A rel \in DOMAIN v : Touches(v[rel], id) => rel \in DOMAIN w /\ v[rel] = w[rel]
  PROVE  Neighbours(w, id) = Neighbours(v, id)
<1>1. {rel \in {x \in DOMAIN w : w[x].status = "Active"} : id \in w[rel].from}
        = {rel \in {x \in DOMAIN v : v[x].status = "Active"} : id \in v[rel].from}
  BY DEF Touches, RowEnds
<1>2. {rel \in {x \in DOMAIN w : w[x].status = "Active"} : id \in w[rel].to}
        = {rel \in {x \in DOMAIN v : v[x].status = "Active"} : id \in v[rel].to}
  BY DEF Touches, RowEnds
<1>3. UNION {w[rel].to : rel \in {y \in {x \in DOMAIN w : w[x].status = "Active"} : id \in w[y].from}}
        = UNION {v[rel].to : rel \in {y \in {x \in DOMAIN v : v[x].status = "Active"} : id \in v[y].from}}
  BY <1>1 DEF Touches, RowEnds
<1>4. UNION {w[rel].from : rel \in {y \in {x \in DOMAIN w : w[x].status = "Active"} : id \in w[y].to}}
        = UNION {v[rel].from : rel \in {y \in {x \in DOMAIN v : v[x].status = "Active"} : id \in v[y].to}}
  BY <1>2 DEF Touches, RowEnds
<1> QED
  BY <1>3, <1>4 DEF Neighbours

\* What a request that was not overtaken at a record has found gives the references
\* that the rows give.
LEMMA FoundNeighbours ==
  ASSUME TypeOK, NEW r \in Request, HasFound(r), pc[r] = "put",
         NEW id \in Ends(job[r]) \ overtaken[r]
  PROVE  Neighbours(found[r], id) = Neighbours(View(r), id)
<1>1. DOMAIN View(r) = Rel /\ DOMAIN found[r] \subseteq Rel
  BY DEF View, TypeOK
<1>2. ASSUME NEW rel \in DOMAIN found[r], Touches(found[r][rel], id)
      PROVE  rel \in DOMAIN View(r) /\ View(r)[rel] = found[r][rel]
  BY <1>1, <1>2 DEF HasFound, Touches
<1>3. ASSUME NEW rel \in DOMAIN View(r), Touches(View(r)[rel], id)
      PROVE  rel \in DOMAIN found[r] /\ View(r)[rel] = found[r][rel]
  <2>1. rel \in Rows(View(r))
    BY <1>1, <1>3 DEF Rows, Touches
  <2>2. rel \in DOMAIN found[r]
    BY <1>3, <2>1 DEF HasFound, Touches, RowEnds
  <2> QED
    BY <1>3, <2>2 DEF HasFound, Touches
<1> QED
  BY <1>2, <1>3, SameNeighbours

-----------------------------------------------------------------------------
(* Steps that leave the rows and the documents alone                         *)

LEMMA StepOfOne ==
  ASSUME IInv, NEW r \in Request, UNCHANGED <<tables, stale>>,
         \A q \in Request \ {r} :
           /\ pc'[q] = pc[q] /\ job'[q] = job[q] /\ found'[q] = found[q] /\ seen'[q] = seen[q]
           /\ todo'[q] = todo[q] /\ held'[q] = held[q] /\ overtaken'[q] = overtaken[q],
         TypeOK', Apart', Own(r)'
  PROVE  IInv'
<1>1. version' = version /\ refs' = refs /\ row' = row /\ stale' = stale
  BY DEF tables
<1>2. ASSUME NEW q \in Request \ {r} PROVE Own(q)'
  <2>1. Own(q)
    BY DEF IInv
  <2>2. View(q)' = View(q)
    BY <1>1 DEF View, Written
  <2>3. Asked(q)' /\ Locked(q)'
    BY <1>1, <2>1 DEF Own, Asked, Locked, Reading, PutBy, Ends
  <2>4. Saw(q)'
    BY <1>1, <2>1 DEF Own, Saw
  <2>5. HasFound(q)'
    BY <1>1, <2>1, <2>2 DEF Own, HasFound, Ends
  <2>6. HasRefreshed(q)'
    BY <1>1, <2>1 DEF Own, HasRefreshed, Ends, Records
  <2> QED
    BY <2>3, <2>4, <2>5, <2>6 DEF Own
<1>3. NoEnds' /\ StaleRefsWereOvertaken'
  BY <1>1 DEF IInv, NoEnds, StaleRefsWereOvertaken, Records
<1> QED
  BY <1>2, <1>3 DEF IInv

\* A request is over.
LEMMA Finished ==
  ASSUME TypeOK, NEW r \in Request, Finish(r), version' \in [Id -> Nat]
  PROVE  /\ Own(r)'
         /\ pc'[r] = "idle" /\ job'[r] = NoJob /\ held'[r] = {}
         /\ pc' \in [Request -> {"idle", "begin", "from", "to", "documents", "put", "write"}]
         /\ job' \in [Request -> Job]
         /\ DOMAIN found' = Request /\ \A q \in Request : DOMAIN found'[q] \subseteq Rel
         /\ seen' \in [Request -> [Id -> Document]]
         /\ todo' \in [Request -> SUBSET Id] /\ held' \in [Request -> SUBSET (Id \union Rel)]
         /\ \A q \in Request \ {r} :
              /\ pc'[q] = pc[q] /\ job'[q] = job[q] /\ found'[q] = found[q] /\ seen'[q] = seen[q]
              /\ todo'[q] = todo[q] /\ held'[q] = held[q]
<1>1. NoJob \in Job /\ [id \in Id |-> NoDocument] \in [Id -> Document]
  BY DEF NoJob, Job, NoDocument, Document
<1>2. /\ pc'[r] = "idle" /\ job'[r] = NoJob /\ held'[r] = {} /\ todo'[r] = {}
      /\ seen'[r] = [id \in Id |-> NoDocument] /\ found'[r] = <<>>
  BY DEF Finish, TypeOK
<1>3. Own(r)'
  BY <1>2 DEF Own, Asked, Locked, Saw, HasFound, HasRefreshed, NoJob, NoDocument, Reading, PutBy, Ends
<1>4. /\ pc' \in [Request -> {"idle", "begin", "from", "to", "documents", "put", "write"}]
      /\ job' \in [Request -> Job]
      /\ seen' \in [Request -> [Id -> Document]]
      /\ todo' \in [Request -> SUBSET Id] /\ held' \in [Request -> SUBSET (Id \union Rel)]
  BY <1>1 DEF Finish, TypeOK
<1>5. \A q \in Request \ {r} :
        /\ pc'[q] = pc[q] /\ job'[q] = job[q] /\ found'[q] = found[q] /\ seen'[q] = seen[q]
        /\ todo'[q] = todo[q] /\ held'[q] = held[q]
  BY DEF Finish, TypeOK
<1>6. DOMAIN found' = Request /\ \A q \in Request : DOMAIN found'[q] \subseteq Rel
  <2>1. DOMAIN found' = Request
    BY DEF Finish, TypeOK
  <2>2. DOMAIN found'[r] = {}
    BY <1>2
  <2> QED
    BY <1>5, <2>1, <2>2 DEF TypeOK
<1> QED
  BY <1>2, <1>3, <1>4, <1>5, <1>6

LEMMA FinishedApart ==
  ASSUME IInv, NEW r \in Request, Finish(r)
  PROVE  Apart'
<1>1. /\ job'[r] = NoJob /\ held'[r] = {}
      /\ \A q \in Request \ {r} : job'[q] = job[q] /\ held'[q] = held[q]
  BY DEF IInv, TypeOK, Finish
<1> QED
  BY <1>1 DEF IInv, Apart, NoJob

\* A request arrives.
LEMMA AskIInv ==
  ASSUME IInv, NEW r \in Request, NEW j \in Job, Ask(r, j),
         \A rel \in j.rels :
           /\ row[rel].from \subseteq j.from /\ row[rel].to \subseteq j.to
           /\ j.op = "link" => row[rel].status = "none",
         \A q \in Request \ {r} : j.op = "link" \/ job[q].op = "link" => j.rels \intersect job[q].rels = {}
  PROVE  IInv'
<1>1. TypeOK /\ Apart /\ Own(r)
  BY DEF IInv
<1>2. /\ pc[r] = "idle" /\ pc' = [pc EXCEPT ![r] = "begin"] /\ job' = [job EXCEPT ![r] = j]
      /\ UNCHANGED <<version, refs, row, found, seen, todo, held, overtaken, stale>>
  BY DEF Ask, tables
<1>3. pc'[r] = "begin" /\ job'[r] = j /\ \A q \in Request \ {r} : pc'[q] = pc[q] /\ job'[q] = job[q]
  BY <1>1, <1>2 DEF TypeOK
<1>4. TypeOK'
  BY <1>1, <1>2 DEF TypeOK
<1>5. held[r] = {} /\ todo[r] = {} /\ \A id \in Id :
        /\ version[id] = 0 \/ seen[r][id].version <= version[id]
        /\ version[id] > 0 /\ version[id] = seen[r][id].version => refs[id] = seen[r][id].refs
  BY <1>1, <1>2 DEF Own, Locked, Reading, Saw
<1>6. Own(r)'
  BY <1>2, <1>3, <1>5 DEF Own, Asked, Locked, Saw, HasFound, HasRefreshed, Reading, PutBy
<1>7. Apart'
  BY <1>1, <1>2, <1>3 DEF Apart
<1> QED
  BY <1>2, <1>3, <1>4, <1>6, <1>7, StepOfOne DEF tables

LEMMA ArrivalIInv ==
  ASSUME IInv, NEW r \in Request, link(r) \/ unlink(r) \/ delete(r)
  PROVE  IInv'
<1>1. TypeOK /\ NoEnds /\ \A q \in Request : Asked(q)
  BY DEF IInv, Own
<1>2. ASSUME NEW j, j.rels \subseteq Rows(row), j.op # "link", NEW q \in Request, job[q].op = "link"
      PROVE  j.rels \intersect job[q].rels = {}
  BY <1>1, <1>2 DEF Asked, Rows
<1>3. CASE link(r)
  <2>1. PICK rel \in Rel, a \in Records, b \in Records :
          /\ row[rel].status = "none" /\ \A q \in Request : rel \notin job[q].rels
          /\ Ask(r, [op |-> "link", rels |-> {rel}, id |-> {}, from |-> {a}, to |-> {b}])
    BY <1>3 DEF link
  <2> DEFINE j == [op |-> "link", rels |-> {rel}, id |-> {}, from |-> {a}, to |-> {b}]
  <2>2. j \in Job
    BY <2>1 DEF Ask, Job, Records
  <2>3. row[rel].from = {} /\ row[rel].to = {}
    BY <1>1, <2>1 DEF NoEnds, RowEnds
  <2> QED
    BY <2>1, <2>2, <2>3, AskIInv
<1>4. CASE unlink(r)
  <2>1. PICK rel \in Rows(row) :
          Ask(r, [op |-> "unlink", rels |-> {rel}, id |-> {}, from |-> row[rel].from, to |-> row[rel].to])
    BY <1>4 DEF unlink
  <2> DEFINE j == [op |-> "unlink", rels |-> {rel}, id |-> {}, from |-> row[rel].from, to |-> row[rel].to]
  <2>2. j \in Job
    <3>1. rel \in Rel /\ row[rel] \in Row
      BY <1>1 DEF TypeOK, Rows
    <3> QED
      BY <2>1, <3>1 DEF Ask, Job, Row
  <2> QED
    BY <1>2, <2>1, <2>2, AskIInv
<1>5. CASE delete(r)
  <2>1. PICK id \in Records, op \in {"delete", "force"} :
          Ask(r, [op |-> op, rels |-> Of(id), id |-> {id},
                  from |-> UNION {row[rel].from : rel \in Of(id)},
                  to |-> UNION {row[rel].to : rel \in Of(id)}])
    BY <1>5 DEF delete
  <2> DEFINE j == [op |-> op, rels |-> Of(id), id |-> {id},
                   from |-> UNION {row[rel].from : rel \in Of(id)},
                   to |-> UNION {row[rel].to : rel \in Of(id)}]
  <2>2. Of(id) \subseteq Rows(row) /\ Of(id) \subseteq Rel /\ id \in Id
    BY DEF Of, Rows, Records
  <2>3. j \in Job
    <3>1. \A rel \in Of(id) : row[rel].from \subseteq Id /\ row[rel].to \subseteq Id
      BY <1>1, <2>2 DEF TypeOK, Row
    <3>2. UNION {row[rel].from : rel \in Of(id)} \subseteq Id /\ UNION {row[rel].to : rel \in Of(id)} \subseteq Id
      BY <3>1
    <3> QED
      BY <2>1, <2>2, <3>2 DEF Ask, Job
  <2>4. \A rel \in j.rels : row[rel].from \subseteq j.from /\ row[rel].to \subseteq j.to
    OBVIOUS
  <2>5. j.op # "link" /\ j.rels \subseteq Rows(row) /\ Ask(r, j)
    BY <2>1, <2>2
  <2> HIDE DEF j
  <2> QED
    BY <1>2, <2>3, <2>4, <2>5, AskIInv
<1> QED
  BY <1>3, <1>4, <1>5

LEMMA updateIInv ==
  ASSUME IInv, NEW r \in Request, update(r)
  PROVE  IInv'
<1>1. TypeOK /\ Apart /\ Own(r)
  BY DEF IInv
<1>2. PICK id \in Records :
        /\ job' = [job EXCEPT ![r] =
             [op |-> "update", rels |-> {}, id |-> {id}, from |-> {}, to |-> {}]]
        /\ seen' = [seen EXCEPT ![r][id] = [version |-> version[id], refs |-> refs[id]]]
  BY DEF update
<1>3. /\ pc[r] = "idle" /\ pc' = [pc EXCEPT ![r] = "write"] /\ "update" \in Operation
      /\ UNCHANGED <<version, refs, row, found, todo, held, overtaken, stale>>
  BY DEF update, tables
<1>4. id \in Id /\ version[id] \in Nat /\ version[id] > 0 /\ refs[id] \subseteq Id
  BY <1>1 DEF Records, TypeOK
<1>5. /\ [op |-> "update", rels |-> {}, id |-> {id}, from |-> {}, to |-> {}] \in Job
      /\ [version |-> version[id], refs |-> refs[id]] \in Document
  BY <1>3, <1>4 DEF Job, Document
<1>6. /\ pc'[r] = "write" /\ \A q \in Request \ {r} : pc'[q] = pc[q] /\ job'[q] = job[q] /\ seen'[q] = seen[q]
      /\ job'[r] = [op |-> "update", rels |-> {}, id |-> {id}, from |-> {}, to |-> {}]
      /\ seen'[r][id] = [version |-> version[id], refs |-> refs[id]]
      /\ \A x \in Id \ {id} : seen'[r][x] = seen[r][x]
  BY <1>1, <1>2, <1>3, <1>4, <1>5 DEF TypeOK
<1>7. TypeOK'
  <2>1. seen' \in [Request -> [Id -> Document]]
    BY <1>1, <1>2, <1>4, <1>5 DEF TypeOK
  <2>2. job' \in [Request -> Job]
    BY <1>1, <1>2, <1>5 DEF TypeOK
  <2> QED
    BY <1>1, <1>3, <2>1, <2>2 DEF TypeOK
<1>8. Own(r)'
  <2>1. held[r] = {} /\ todo[r] = {}
    BY <1>1, <1>3 DEF Own, Locked, Reading
  <2>2. Asked(r)' /\ Locked(r)' /\ HasFound(r)' /\ HasRefreshed(r)'
    BY <1>3, <1>4, <1>6, <2>1 DEF Asked, Locked, HasFound, HasRefreshed, Reading, PutBy
  <2>3. Saw(r)'
    BY <1>1, <1>3, <1>4, <1>6 DEF Own, Saw
  <2> QED
    BY <2>2, <2>3 DEF Own
<1>9. Apart'
  BY <1>1, <1>3, <1>6 DEF Apart
<1> QED
  BY <1>3, <1>6, <1>7, <1>8, <1>9, StepOfOne DEF tables

LEMMA BeginIInv ==
  ASSUME IInv, NEW r \in Request, Begin(r)
  PROVE  IInv'
<1>1. TypeOK /\ Apart /\ Own(r)
  BY DEF IInv
<1>2. /\ pc[r] = "begin" /\ Free(r, job[r].rels \union job[r].id)
      /\ held' = [held EXCEPT ![r] = job[r].rels \union job[r].id]
      /\ pc' = [pc EXCEPT ![r] = "from"]
      /\ UNCHANGED <<version, refs, row, job, found, seen, todo, overtaken, stale>>
  BY DEF Begin, tables
<1>3. /\ pc'[r] = "from" /\ held'[r] = job[r].rels \union job[r].id
      /\ \A q \in Request \ {r} : pc'[q] = pc[q] /\ held'[q] = held[q]
  BY <1>1, <1>2 DEF TypeOK
<1>4. job[r].rels \subseteq Rel /\ job[r].id \subseteq Id
  BY <1>1 DEF TypeOK, Job
<1>5. TypeOK'
  BY <1>1, <1>2, <1>4 DEF TypeOK
<1>6. Own(r)'
  <2>1. PutBy(r)' = {} /\ todo[r] = {}
    BY <1>1, <1>2, <1>3, <1>4 DEF PutBy, Own, Locked
  <2>2. Asked(r)' /\ Saw(r)' /\ HasFound(r)' /\ HasRefreshed(r)'
    BY <1>1, <1>2, <1>3 DEF Own, Asked, Saw, HasFound, HasRefreshed
  <2>3. Locked(r)'
    BY <1>2, <1>3, <2>1 DEF Locked, Reading
  <2> QED
    BY <2>2, <2>3 DEF Own
<1>7. Apart'
  BY <1>1, <1>2, <1>3 DEF Apart, Free
<1> QED
  BY <1>2, <1>3, <1>5, <1>6, <1>7, StepOfOne DEF tables

LEMMA ReadFromIInv ==
  ASSUME IInv, NEW r \in Request, ReadFrom(r)
  PROVE  IInv'
<1>1. TypeOK /\ Apart /\ Own(r)
  BY DEF IInv
<1> DEFINE there == {x \in Rows(View(r)) : View(r)[x].from \intersect Ends(job[r]) # {}}
<1>2. /\ pc[r] = "from" /\ pc' = [pc EXCEPT ![r] = "to"]
      /\ found' = [found EXCEPT ![r] = [rel \in there |-> View(r)[rel]]]
      /\ overtaken' = [overtaken EXCEPT ![r] = {}]
      /\ UNCHANGED <<version, refs, row, job, seen, todo, held, stale>>
  BY DEF ReadFrom, tables
<1>3. /\ pc'[r] = "to" /\ found'[r] = [rel \in there |-> View(r)[rel]] /\ overtaken'[r] = {}
      /\ DOMAIN found' = Request
      /\ \A q \in Request \ {r} :
           pc'[q] = pc[q] /\ found'[q] = found[q] /\ overtaken'[q] = overtaken[q]
  BY <1>1, <1>2 DEF TypeOK
<1>4. there \subseteq Rel
  BY DEF Rows
<1>5. TypeOK'
  <2>1. \A q \in Request : DOMAIN found'[q] \subseteq Rel
    BY <1>1, <1>3, <1>4 DEF TypeOK
  <2> QED
    BY <1>1, <1>2, <1>3, <2>1 DEF TypeOK
<1>6. View(r)' = View(r)
  BY <1>2 DEF View, Written
<1>7. Own(r)'
  <2>1. Asked(r)' /\ Locked(r)' /\ Saw(r)' /\ HasRefreshed(r)'
    BY <1>1, <1>2, <1>3 DEF Own, Asked, Locked, Saw, HasRefreshed, Reading, PutBy, Ends
  <2>2. HasFound(r)'
    BY <1>2, <1>3, <1>6 DEF HasFound, Ends
  <2> QED
    BY <2>1, <2>2 DEF Own
<1>8. Apart'
  BY <1>1, <1>2 DEF Apart
<1> QED
  BY <1>2, <1>3, <1>5, <1>7, <1>8, StepOfOne DEF tables

LEMMA ReadToIInv ==
  ASSUME IInv, NEW r \in Request, ReadTo(r)
  PROVE  IInv'
<1>1. TypeOK /\ Apart /\ Own(r)
  BY DEF IInv
<1> DEFINE more == {x \in Rows(View(r)) : View(r)[x].to \intersect Ends(job[r]) # {}}
           now == [rel \in DOMAIN found[r] \union more |->
                     IF rel \in DOMAIN found[r] THEN found[r][rel] ELSE View(r)[rel]]
<1>2. /\ pc[r] = "to" /\ pc' = [pc EXCEPT ![r] = "documents"]
      /\ found' = [found EXCEPT ![r] = now]
      /\ UNCHANGED <<version, refs, row, job, seen, todo, held, overtaken, stale>>
  BY DEF ReadTo, tables
<1>3. /\ pc'[r] = "documents" /\ found'[r] = now /\ DOMAIN found' = Request
      /\ \A q \in Request \ {r} : pc'[q] = pc[q] /\ found'[q] = found[q]
  BY <1>1, <1>2 DEF TypeOK
<1>4. DOMAIN now \subseteq Rel
  BY <1>1 DEF Rows, TypeOK
<1>5. TypeOK'
  <2>1. \A q \in Request : DOMAIN found'[q] \subseteq Rel
    BY <1>1, <1>3, <1>4 DEF TypeOK
  <2> QED
    BY <1>1, <1>2, <1>3, <2>1 DEF TypeOK
<1>6. View(r)' = View(r)
  BY <1>2 DEF View, Written
<1>7. Own(r)'
  <2>1. Asked(r)' /\ Locked(r)' /\ Saw(r)' /\ HasRefreshed(r)'
    BY <1>1, <1>2, <1>3 DEF Own, Asked, Locked, Saw, HasRefreshed, Reading, PutBy, Ends
  <2>2. HasFound(r)'
    BY <1>1, <1>2, <1>3, <1>6 DEF Own, HasFound, Ends
  <2> QED
    BY <2>1, <2>2 DEF Own
<1>8. Apart'
  BY <1>1, <1>2 DEF Apart
<1> QED
  BY <1>2, <1>3, <1>5, <1>7, <1>8, StepOfOne DEF tables

LEMMA ReadDocumentsIInv ==
  ASSUME IInv, NEW r \in Request, ReadDocuments(r)
  PROVE  IInv'
<1>1. TypeOK /\ Apart /\ Own(r)
  BY DEF IInv
<1> DEFINE read == [id \in Id |->
             IF id \in Ends(job[r]) THEN [version |-> version[id], refs |-> refs[id]] ELSE NoDocument]
           other == {id \in Ends(job[r]) \intersect Records : refs[id] # Neighbours(found[r], id)}
<1>2. /\ pc[r] = "documents" /\ pc' = [pc EXCEPT ![r] = "put"]
      /\ seen' = [seen EXCEPT ![r] = read] /\ todo' = [todo EXCEPT ![r] = other]
      /\ UNCHANGED <<version, refs, row, job, found, held, overtaken, stale>>
  BY DEF ReadDocuments, tables
<1>3. /\ pc'[r] = "put" /\ seen'[r] = read /\ todo'[r] = other
      /\ \A q \in Request \ {r} : pc'[q] = pc[q] /\ seen'[q] = seen[q] /\ todo'[q] = todo[q]
  BY <1>1, <1>2 DEF TypeOK
<1>4. TypeOK'
  <2>1. read \in [Id -> Document]
    BY <1>1 DEF TypeOK, Document, NoDocument
  <2>2. other \subseteq Id
    BY DEF Records
  <2> HIDE DEF read, other
  <2> QED
    BY <1>1, <1>2, <2>1, <2>2 DEF TypeOK
<1>5. View(r)' = View(r)
  BY <1>2 DEF View, Written
<1>6. Own(r)'
  <2>1. Asked(r)'
    BY <1>1, <1>2, <1>3 DEF Own, Asked
  <2>2. HasFound(r)'
    BY <1>1, <1>2, <1>3, <1>5 DEF Own, HasFound, Ends
  <2>3. Saw(r)'
    <3>1. ASSUME NEW id \in Id
          PROVE  /\ version[id] = 0 \/ read[id].version <= version[id]
                 /\ version[id] > 0 /\ version[id] = read[id].version => refs[id] = read[id].refs
      BY <1>1 DEF TypeOK, NoDocument
    <3> HIDE DEF read
    <3> QED
      BY <1>2, <1>3, <3>1 DEF Saw
  <2>4. Locked(r)'
    <3>1. PutBy(r)' = PutBy(r) /\ PutBy(r) = {} /\ Ends(job[r])' = Ends(job[r])
      BY <1>1, <1>2 DEF Own, Locked, PutBy, Ends
    <3>2. \A id \in other : id \in Ends(job[r]) /\ read[id].version > 0
      BY <1>1 DEF Records, TypeOK
    <3> HIDE DEF read, other
    <3> QED
      BY <1>1, <1>2, <1>3, <3>1, <3>2 DEF Own, Locked, Reading
  <2>5. HasRefreshed(r)'
    BY <1>2, <1>3 DEF HasRefreshed, Ends, Records
  <2> QED
    BY <2>1, <2>2, <2>3, <2>4, <2>5 DEF Own
<1>7. Apart'
  BY <1>1, <1>2 DEF Apart
<1> QED
  BY <1>2, <1>3, <1>4, <1>6, <1>7, StepOfOne DEF tables

LEMMA PutIInv ==
  ASSUME IInv, NEW r \in Request, Put(r)
  PROVE  IInv'
<1>1. TypeOK /\ Apart /\ Own(r)
  BY DEF IInv
<1>2. PICK id \in todo[r] :
        /\ Free(r, {id}) /\ VersionMatches(r, id)
        /\ held' = [held EXCEPT ![r] = held[r] \union {id}]
        /\ todo' = [todo EXCEPT ![r] = todo[r] \ {id}]
  BY DEF Put
<1>3. pc[r] = "put" /\ UNCHANGED <<version, refs, row, pc, job, found, seen, overtaken, stale>>
  BY DEF Put, tables
<1>4. /\ held'[r] = held[r] \union {id} /\ todo'[r] = todo[r] \ {id}
      /\ \A q \in Request \ {r} : held'[q] = held[q] /\ todo'[q] = todo[q]
  BY <1>1, <1>2 DEF TypeOK
<1>5. /\ id \in Id /\ id \in Ends(job[r]) /\ id \notin job[r].id
      /\ version[id] > 0 /\ version[id] = seen[r][id].version
  BY <1>1, <1>2 DEF TypeOK, Own, Locked, VersionMatches, Ends
<1>6. TypeOK'
  BY <1>1, <1>2, <1>3, <1>5 DEF TypeOK
<1>7. View(r)' = View(r)
  BY <1>3 DEF View, Written
<1>8. Own(r)'
  <2>1. Asked(r)' /\ Saw(r)'
    BY <1>1, <1>3 DEF Own, Asked, Saw
  <2>2. HasFound(r)'
    BY <1>1, <1>3, <1>7 DEF Own, HasFound, Ends
  <2>3. HasRefreshed(r)'
    BY <1>1, <1>3, <1>4 DEF Own, HasRefreshed, Ends, Records
  <2>4. PutBy(r)' = PutBy(r) \union {id} /\ Ends(job[r])' = Ends(job[r])
    BY <1>3, <1>4, <1>5 DEF PutBy, Ends
  <2>5. Locked(r)'
    BY <1>1, <1>3, <1>4, <1>5, <2>4 DEF Own, Locked, Reading
  <2> QED
    BY <2>1, <2>2, <2>3, <2>5 DEF Own
<1>9. Apart'
  BY <1>1, <1>2, <1>3, <1>4 DEF Apart, Free
<1> QED
  BY <1>3, <1>4, <1>6, <1>8, <1>9, StepOfOne DEF tables

-----------------------------------------------------------------------------
(* A request ends                                                            *)

LEMMA LeftIInv ==
  ASSUME IInv, NEW r \in Request, Rollback(r) \/ UpdateRejected(r)
  PROVE  IInv'
<1>1. TypeOK /\ Finish(r) /\ UNCHANGED <<version, refs, row, stale>>
  BY DEF IInv, Rollback, UpdateRejected, tables
<1>2. overtaken' \in [Request -> SUBSET Id] /\ \A q \in Request \ {r} : overtaken'[q] = overtaken[q]
  BY <1>1 DEF Rollback, UpdateRejected, TypeOK
<1>3. version' \in [Id -> Nat]
  BY <1>1 DEF TypeOK
<1>4. TypeOK'
  BY <1>1, <1>2, <1>3, Finished DEF TypeOK
<1> QED
  BY <1>1, <1>2, <1>3, <1>4, Finished, FinishedApart, StepOfOne DEF tables

\* An update leaves the references: the document is as it was read.
LEMMA UpdatedRefs ==
  ASSUME IInv, NEW r \in Request, Update(r)
  PROVE  \E id \in Id :
           /\ Free(r, {id}) /\ version[id] > 0 /\ version' = [version EXCEPT ![id] = version[id] + 1]
           /\ refs' = refs
<1>1. TypeOK /\ Own(r) /\ pc[r] = "write"
  BY DEF IInv, Update
<1>2. PICK id \in Id : job[r].id = {id}
  BY <1>1 DEF Own, Asked
<1>3. /\ Free(r, {id}) /\ VersionMatches(r, id)
      /\ version' = [version EXCEPT ![id] = version[id] + 1]
      /\ refs' = [refs EXCEPT ![id] = seen[r][id].refs]
  BY <1>2 DEF Update
<1>4. version[id] > 0 /\ refs[id] = seen[r][id].refs
  BY <1>1, <1>2, <1>3 DEF Own, Saw, VersionMatches
<1>5. refs' = refs
  BY <1>1, <1>3, <1>4 DEF TypeOK
<1> QED
  BY <1>3, <1>4, <1>5

LEMMA UpdateIInv ==
  ASSUME IInv, NEW r \in Request, Update(r)
  PROVE  IInv'
<1>1. TypeOK /\ Finish(r) /\ UNCHANGED <<row, overtaken, stale>>
  BY DEF IInv, Update
<1>2. PICK id \in Id :
        /\ Free(r, {id}) /\ version[id] > 0 /\ version' = [version EXCEPT ![id] = version[id] + 1]
        /\ refs' = refs
  BY UpdatedRefs
<1>3. /\ version' \in [Id -> Nat] /\ version'[id] = version[id] + 1 /\ version[id] \in Nat
      /\ \A x \in Id \ {id} : version'[x] = version[x]
  BY <1>1, <1>2 DEF TypeOK
<1>4. TypeOK'
  BY <1>1, <1>2, <1>3, Finished DEF TypeOK
<1>5. Records' = Records
  BY <1>2, <1>3 DEF Records
<1>6. ASSUME NEW q \in Request \ {r} PROVE Own(q)'
  <2>1. /\ pc'[q] = pc[q] /\ job'[q] = job[q] /\ found'[q] = found[q] /\ seen'[q] = seen[q]
        /\ todo'[q] = todo[q] /\ held'[q] = held[q]
    BY <1>1, <1>3, Finished
  <2>2. Own(q) /\ View(q)' = View(q)
    BY <1>1, <2>1 DEF IInv, View, Written
  <2>3. Asked(q)' /\ HasFound(q)' /\ HasRefreshed(q)'
    BY <1>1, <1>2, <1>5, <2>1, <2>2 DEF Own, Asked, HasFound, HasRefreshed, Ends
  <2>4. Locked(q)'
    <3>1. PutBy(q)' = PutBy(q) /\ id \notin PutBy(q) /\ PutBy(q) \subseteq Id
      BY <1>2, <2>1 DEF PutBy, Free
    <3> QED
      BY <1>3, <2>1, <2>2, <3>1 DEF Own, Locked, Reading, Ends
  <2>5. Saw(q)'
    <3>1. \A x \in Id : seen[q][x].version \in Nat /\ version[x] \in Nat
      BY <1>1 DEF TypeOK, Document
    <3> QED
      BY <1>2, <1>3, <2>1, <2>2, <3>1 DEF Own, Saw
  <2> QED
    BY <2>3, <2>4, <2>5 DEF Own
<1>7. NoEnds' /\ StaleRefsWereOvertaken'
  BY <1>1, <1>2, <1>5 DEF IInv, NoEnds, StaleRefsWereOvertaken
<1> QED
  BY <1>1, <1>3, <1>4, <1>6, <1>7, Finished, FinishedApart DEF IInv

LEMMA CommitIInv ==
  ASSUME IInv, NEW r \in Request, Commit(r)
  PROVE  IInv'
<1> DEFINE changed == UNION {UNION {RowEnds(w[rel]) : w \in {row, View(r)}} :
                               rel \in {x \in job[r].rels : View(r)[x] # row[x]}}
<1>1. TypeOK /\ Apart /\ NoEnds /\ \A q \in Request : Own(q)
  BY DEF IInv
<1>2. /\ pc[r] = "put" /\ todo[r] = {} /\ Finish(r) /\ row' = View(r)
      /\ version' = [id \in Id |-> IF id \in job[r].id THEN 0
                                   ELSE IF id \in PutBy(r) THEN version[id] + 1 ELSE version[id]]
      /\ refs' = [id \in Id |-> IF id \in job[r].id THEN {}
                                ELSE IF id \in PutBy(r) THEN Neighbours(found[r], id) ELSE refs[id]]
      /\ stale' = (stale \ Ends(job[r])) \union (overtaken[r] \intersect Ends(job[r]))
      /\ overtaken' = [q \in Request |->
           CASE q = r -> {}
             [] q # r /\ pc[q] \in {"to", "documents"} -> overtaken[q] \union changed
             [] q # r /\ pc[q] = "put" -> overtaken[q] \union changed \union PutBy(r)
             [] OTHER -> overtaken[q]]
  BY DEF Commit, PutBy, RowEnds
<1>3. job[r] \in Job /\ job[r].rels \subseteq Rel /\ job[r].rels \union job[r].id \subseteq held[r]
  BY <1>1, <1>2 DEF TypeOK, Own, Locked, Reading, Job
<1>4. ASSUME NEW rel \in Rel
      PROVE  /\ View(r)[rel] \in Row /\ row[rel] \in Row
             /\ View(r)[rel] # row[rel] => rel \in job[r].rels /\ RowEnds(row[rel]) \union RowEnds(View(r)[rel]) \subseteq changed
  <2>1. View(r)[rel] \in Row /\ row[rel] \in Row
    BY <1>1, WrittenRow DEF TypeOK
  <2>2. View(r)[rel] # row[rel] => rel \in job[r].rels
    BY DEF View
  <2> QED
    BY <2>1, <2>2
<1>5. changed \subseteq Id
  BY <1>3, <1>4 DEF Row, RowEnds
<1>6. PutBy(r) \subseteq Id /\ PutBy(r) \subseteq Ends(job[r])
      /\ \A id \in PutBy(r) : version[id] > 0
  BY <1>1 DEF PutBy, Own, Locked
<1> HIDE DEF changed
<1>7. TypeOK'
  <2>1. version' \in [Id -> Nat]
    BY <1>1, <1>2 DEF TypeOK
  <2>2. refs' \in [Id -> SUBSET Id]
    <3>1. ASSUME NEW rel \in DOMAIN found[r] PROVE RowEnds(found[r][rel]) \subseteq Id
      <4>1. rel \in Rel /\ overtaken[r] \subseteq Id
        BY <1>1 DEF TypeOK
      <4>2. RowEnds(View(r)[rel]) \subseteq Id
        BY <1>4, <4>1 DEF Row, RowEnds
      <4> QED
        BY <1>1, <1>2, <4>1, <4>2 DEF Own, HasFound
    <3>2. ASSUME NEW id \in Id PROVE Neighbours(found[r], id) \subseteq Id
      <4>1. \A rel \in DOMAIN found[r] : found[r][rel].from \subseteq Id /\ found[r][rel].to \subseteq Id
        BY <3>1 DEF RowEnds
      <4> QED
        BY <4>1 DEF Neighbours
    <3> QED
      BY <1>1, <1>2, <3>2 DEF TypeOK
  <2>3. row' \in [Rel -> Row]
    BY <1>2, <1>4 DEF View
  <2>4. overtaken' \in [Request -> SUBSET Id] /\ stale' \subseteq Id
    BY <1>1, <1>2, <1>5, <1>6 DEF TypeOK
  <2> QED
    BY <1>1, <1>2, <2>1, <2>2, <2>3, <2>4, Finished DEF TypeOK
<1>8. ASSUME NEW id \in Id
      PROVE  /\ id \in job[r].id => version'[id] = 0
             /\ id \in PutBy(r) => version'[id] = version[id] + 1
             /\ id \notin job[r].id \union PutBy(r) => version'[id] = version[id] /\ refs'[id] = refs[id]
             /\ id \in PutBy(r) => refs'[id] = Neighbours(found[r], id)
  BY <1>2 DEF PutBy
<1>9. NoEnds'
  <2>1. ASSUME NEW rel \in Rel, View(r)[rel].status \in {"none", "deleted"}
        PROVE  RowEnds(View(r)[rel]) = {}
    BY <1>1, <2>1 DEF View, Written, NoEnds, RowEnds, TypeOK, Row
  <2> QED
    BY <1>2, <2>1 DEF NoEnds
<1>10. ASSUME NEW q \in Request \ {r} PROVE Own(q)'
  <2>1. /\ pc'[q] = pc[q] /\ job'[q] = job[q] /\ found'[q] = found[q] /\ seen'[q] = seen[q]
        /\ todo'[q] = todo[q] /\ held'[q] = held[q]
    BY <1>2, <1>7, <1>1, Finished DEF TypeOK
  <2>2. Own(q) /\ held[r] \intersect held[q] = {} /\ job[q].rels \subseteq Rel
    BY <1>1 DEF Apart, TypeOK, Job
  <2>3. Asked(q)'
    <3>1. ASSUME NEW rel \in job[q].rels
          PROVE  /\ View(r)[rel].from \subseteq job[q].from /\ View(r)[rel].to \subseteq job[q].to
                 /\ job[q].op = "link" => View(r)[rel].status = "none"
      <4>1. /\ row[rel].from \subseteq job[q].from /\ row[rel].to \subseteq job[q].to
            /\ job[q].op = "link" => row[rel].status = "none"
            /\ rel \in Rel
        BY <2>2 DEF Own, Asked
      <4>2. CASE rel \notin job[r].rels
        BY <4>1, <4>2 DEF View
      <4>3. CASE rel \in job[r].rels
        <5>1. job[r].op # "link" /\ job[q].op # "link"
          BY <1>1, <4>3 DEF Apart
        <5>2. row[rel] \in Row
          BY <4>1 , <1>1 DEF TypeOK
        <5> QED
          BY <4>1, <4>3, <5>1, <5>2 DEF View, Written, Row
      <4> QED
        BY <4>2, <4>3
    <3> QED
      BY <1>2, <2>1, <2>2, <3>1 DEF Own, Asked
  <2>4. Locked(q)'
    <3>1. PutBy(q)' = PutBy(q) /\ Ends(job[q])' = Ends(job[q])
      BY <2>1 DEF PutBy, Ends
    <3>2. ASSUME NEW id \in PutBy(q) PROVE version'[id] = version[id]
      BY <1>3, <1>8, <2>2 DEF PutBy
    <3> QED
      BY <2>1, <2>2, <3>1, <3>2 DEF Own, Locked, Reading
  <2>5. Saw(q)'
    <3>1. ASSUME NEW id \in Id
          PROVE  /\ version'[id] = 0 \/ seen[q][id].version <= version'[id]
                 /\ version'[id] > 0 /\ version'[id] = seen[q][id].version => refs'[id] = seen[q][id].refs
      <4>1. version[id] \in Nat /\ seen[q][id].version \in Nat
        BY <1>1 DEF TypeOK, Document
      <4>2. /\ version[id] = 0 \/ seen[q][id].version <= version[id]
            /\ version[id] > 0 /\ version[id] = seen[q][id].version => refs[id] = seen[q][id].refs
        BY <2>2 DEF Own, Saw
      <4> QED
        BY <1>6, <1>8, <4>1, <4>2
    <3> QED
      BY <2>1, <2>2, <3>1 DEF Own, Saw
  <2>6. ASSUME Reading(q), NEW rel \in Rel
        PROVE  View(q)'[rel] = View(q)[rel] \/ RowEnds(View(q)[rel]) \union RowEnds(View(q)'[rel]) \subseteq changed
    <3>1. CASE rel \in job[q].rels
      <4>1. rel \notin job[r].rels
        BY <1>3, <2>2, <2>6, <3>1 DEF Own, Locked
      <4>2. row'[rel] = row[rel]
        BY <1>2, <4>1 DEF View
      <4> QED
        BY <2>1, <4>2 DEF View, Written
    <3>2. CASE rel \notin job[q].rels
      <4>1. View(q)[rel] = row[rel] /\ View(q)'[rel] = View(r)[rel]
        BY <1>2, <2>1, <3>2 DEF View
      <4> QED
        BY <1>4, <4>1
    <3> QED
      BY <3>1, <3>2
  <2>7. HasFound(q)'
    <3>1. SUFFICES ASSUME pc[q] \in {"to", "documents", "put"}
                   PROVE  HasFound(q)'
      BY <2>1 DEF HasFound
    <3>2. overtaken[q] \union changed \subseteq overtaken'[q] /\ Reading(q) /\ DOMAIN found[q] \subseteq Rel
      BY <1>1, <1>2, <3>1 DEF Reading, TypeOK
    <3>3. HasFound(q)
      BY <2>2 DEF Own
    <3>4. ASSUME NEW rel \in DOMAIN found[q]
          PROVE  \/ found[q][rel] = View(q)'[rel]
                 \/ RowEnds(found[q][rel]) \union RowEnds(View(q)'[rel]) \subseteq overtaken'[q]
      BY <2>6, <3>1, <3>2, <3>3 DEF HasFound
    <3>5. ASSUME NEW rel \in Rows(View(q)') \ DOMAIN found[q]
          PROVE  /\ View(q)'[rel].from \intersect Ends(job[q]) \subseteq overtaken'[q]
                 /\ pc[q] # "to" => View(q)'[rel].to \intersect Ends(job[q]) \subseteq overtaken'[q]
      <4>1. rel \in Rel /\ View(q)'[rel].status \in {"Active", "Inactive"}
        BY <3>5 DEF Rows
      <4>2. CASE View(q)'[rel] = View(q)[rel]
        <5>1. rel \in Rows(View(q)) \ DOMAIN found[q]
          BY <3>5, <4>1, <4>2 DEF Rows
        <5> QED
          BY <3>1, <3>2, <3>3, <4>2, <5>1 DEF HasFound
      <4>3. CASE RowEnds(View(q)'[rel]) \subseteq changed
        BY <3>2, <4>3 DEF RowEnds
      <4> QED
        BY <2>6, <3>2, <4>1, <4>2, <4>3
    <3> QED
      BY <2>1, <3>4, <3>5 DEF HasFound, Ends
  <2>8. HasRefreshed(q)'
    <3>1. SUFFICES ASSUME pc[q] = "put", NEW id \in Ends(job[q]), id \in Id, version'[id] > 0, id \notin overtaken'[q]
                   PROVE  id \in todo[q] \union held[q] \/ refs'[id] = Neighbours(found[q], id)
      BY <2>1 DEF HasRefreshed, Ends, Records
    <3>2. overtaken[q] \union PutBy(r) \subseteq overtaken'[q]
      BY <1>2, <3>1
    <3>3. version'[id] = version[id] /\ refs'[id] = refs[id]
      BY <1>8, <3>1, <3>2
    <3> QED
      BY <2>2, <3>1, <3>2, <3>3 DEF Own, HasRefreshed, Records
  <2> QED
    BY <2>3, <2>4, <2>5, <2>7, <2>8 DEF Own
<1>11. StaleRefsWereOvertaken'
  <2>1. SUFFICES ASSUME NEW id \in Id, version'[id] > 0, refs'[id] # Neighbours(View(r), id)
                 PROVE  id \in stale'
    BY <1>2 DEF StaleRefsWereOvertaken, Records
  <2>2. id \notin job[r].id /\ id \in Records
    BY <1>6, <1>8, <2>1 DEF Records
  <2>3. CASE id \in Ends(job[r])
    <3>1. SUFFICES ASSUME id \notin overtaken[r] PROVE FALSE
      BY <1>2, <2>3
    <3>2. Neighbours(found[r], id) = Neighbours(View(r), id)
      BY <1>1, <1>2, <2>3, <3>1, FoundNeighbours DEF Own
    <3>3. id \notin PutBy(r)
      BY <1>8, <2>1, <3>2
    <3>4. refs[id] = Neighbours(found[r], id)
      BY <1>1, <1>2, <2>2, <2>3, <3>1, <3>3 DEF Own, HasRefreshed, PutBy
    <3> QED
      BY <1>8, <2>1, <2>2, <3>2, <3>3, <3>4
  <2>4. CASE id \notin Ends(job[r])
    <3>1. id \notin job[r].from \union job[r].to /\ refs'[id] = refs[id]
      BY <1>6, <1>8, <2>2, <2>4 DEF Ends
    <3>2. ASSUME NEW rel \in Rel, Touches(row[rel], id) \/ Touches(View(r)[rel], id)
          PROVE  View(r)[rel] = row[rel]
      <4>1. SUFFICES ASSUME rel \in job[r].rels PROVE FALSE
        BY DEF View
      <4>2. row[rel].from \subseteq job[r].from /\ row[rel].to \subseteq job[r].to /\ row[rel] \in Row
        BY <1>1, <4>1 DEF Own, Asked, TypeOK
      <4>3. RowEnds(View(r)[rel]) \subseteq job[r].from \union job[r].to
        BY <4>1, <4>2 DEF View, Written, RowEnds, Row
      <4> QED
        BY <3>1, <3>2, <4>2, <4>3 DEF Touches, RowEnds
    <3>3. Neighbours(row, id) = Neighbours(View(r), id)
      <4>1. DOMAIN row = Rel /\ DOMAIN View(r) = Rel
        BY <1>1 DEF TypeOK, View
      <4> QED
        BY <3>2, <4>1, SameNeighbours
    <3> QED
      BY <1>2, <2>1, <2>2, <2>4, <3>1, <3>3 DEF IInv, StaleRefsWereOvertaken
  <2> QED
    BY <2>3, <2>4
<1>12. Own(r)'
  BY <1>1, <1>2, <1>7, Finished DEF TypeOK
<1> QED
  BY <1>2, <1>7, <1>9, <1>10, <1>11, <1>12, FinishedApart DEF IInv

-----------------------------------------------------------------------------
(* The theorems                                                              *)

LEMMA NextIInv == IInv /\ [Next]_vars => IInv'
<1> SUFFICES ASSUME IInv, [Next]_vars PROVE IInv'
  OBVIOUS
<1>1. CASE Next
  <2>1. PICK r \in Request :
          \/ link(r) \/ unlink(r) \/ delete(r) \/ update(r)
          \/ Begin(r) \/ ReadFrom(r) \/ ReadTo(r) \/ ReadDocuments(r) \/ Put(r) \/ Commit(r) \/ Rollback(r)
          \/ Update(r) \/ UpdateRejected(r)
    BY <1>1 DEF Next
  <2> QED
    BY <2>1, ArrivalIInv, updateIInv, BeginIInv, ReadFromIInv, ReadToIInv, ReadDocumentsIInv, PutIInv,
       CommitIInv, LeftIInv, UpdateIInv
<1>2. CASE UNCHANGED vars
  <2>1. /\ UNCHANGED <<version, refs, row, pc, job, found, seen, todo, held, overtaken, stale>>
    BY <1>2 DEF vars, tables, calls
  <2>2. TypeOK' /\ Apart' /\ NoEnds' /\ StaleRefsWereOvertaken'
    BY <2>1 DEF IInv, TypeOK, Apart, NoEnds, StaleRefsWereOvertaken, Records
  <2>3. ASSUME NEW r \in Request PROVE Own(r)'
    <3>1. Own(r) /\ View(r)' = View(r)
      BY <2>1 DEF IInv, View, Written
    <3> QED
      BY <2>1, <3>1 DEF Own, Asked, Locked, Saw, HasFound, HasRefreshed, Reading, PutBy, Ends, Records
  <2> QED
    BY <2>2, <2>3 DEF IInv
<1> QED
  BY <1>1, <1>2

\* The invariant holds of every number of records, relationships and requests.
THEOREM InvariantHolds == Spec => []IInv
<1> QED
  BY InitIInv, NextIInv, PTL DEF Spec

\* Type correctness.
THEOREM TypeCorrect == Spec => []TypeOK
<1>1. IInv => TypeOK
  BY DEF IInv
<1> QED
  BY <1>1, InvariantHolds, PTL

\* A refresh (refreshRelationshipRefs) that no other request overtakes repairs the
\* references of its records.
THEOREM RefreshRepairs == Spec => []StaleRefsWereOvertaken
<1>1. IInv => StaleRefsWereOvertaken
  BY DEF IInv
<1> QED
  BY <1>1, InvariantHolds, PTL

\* A write of a document leaves the references as they are, because it is of the
\* version that was read.
THEOREM WritesKeepRefs == Spec => UpdatesKeepRefs
<1>1. ASSUME IInv, [Next]_vars
      PROVE  [\A r \in Request : pc[r] = "write" /\ pc'[r] # "write" => refs' = refs]_vars
  <2>1. SUFFICES ASSUME Next, NEW r \in Request, pc[r] = "write", pc'[r] # "write"
                 PROVE  refs' = refs
    BY <1>1
  <2>2. PICK q \in Request :
          \/ link(q) \/ unlink(q) \/ delete(q) \/ update(q)
          \/ Begin(q) \/ ReadFrom(q) \/ ReadTo(q) \/ ReadDocuments(q) \/ Put(q) \/ Commit(q) \/ Rollback(q)
          \/ Update(q) \/ UpdateRejected(q)
    BY <2>1 DEF Next
  <2>3. CASE Update(q)
    BY <1>1, <2>3, UpdatedRefs
  <2>4. CASE Commit(q)
    <3>1. pc'[r] = pc[r]
      BY <1>1, <2>1, <2>4 DEF Commit, Finish, IInv, TypeOK
    <3> QED
      BY <2>1, <3>1
  <2>5. CASE ~Update(q) /\ ~Commit(q)
    BY <2>2, <2>5 DEF link, unlink, delete, Ask, update, Begin, ReadFrom, ReadTo, ReadDocuments, Put,
                      Rollback, UpdateRejected, tables
  <2> QED
    BY <2>3, <2>4, <2>5
<1> QED
  BY <1>1, InvariantHolds, PTL DEF Spec, UpdatesKeepRefs
=============================================================================
