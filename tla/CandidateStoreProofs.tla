------------------------ MODULE CandidateStoreProofs ------------------------
(***************************************************************************)
(* Proofs about the candidate store, for any names, snapshots, callers and *)
(* calls.                                                                  *)
(*                                                                         *)
(* The invariant says that the records form one numbered history of        *)
(* revisions (Records), and what each call in flight can rely on (Knows).  *)
(* Records are only ever added, so what a call read stays true; the        *)
(* conditions of the two transactions say of the rest that it still is.    *)
(***************************************************************************)
EXTENDS CandidateStore, SequenceTheorems, TLAPS

Blobs  == UNION {{File[c][p] : p \in DOMAIN File[c]} : c \in Content}
Owners == Name \union ResultId

PublishJobs ==
  [op : {"publish"}, request : RequestId, expected : RevIds \union {None}, name : Name,
   content : Content, permit : Results \union {None}, supersede : Name \union {None}]
MarkJobs == [op : {"mark"}, result : Results]
ReadJobs == [op : {"read"}]
NoJobs   == [op : {"none"}]

Requests ==
  [expected : RevIds \union {None}, pointer : Pointers, permit : Results \union {None},
   supersede : Name \union {None}]

Locations ==
  {"idle", "request", "pointer", "stage", "commit", "recheck", "winner", "prior", "confirm"}
Answers ==
  [status : {"none", "error", "conflict", "committed", "marked", "read"},
   pointer : Pointers \union {None}]

StoreTypes ==
  /\ pointer \in Pointers \union {None}
  /\ snapshots \in [Name -> Pointers \union {None}]
  /\ requests \in [RequestId -> Requests \union {None}]
  /\ results \in [ResultId -> Results \union {None}]
  /\ files \subseteq Owners \X Path \X Blobs

CallTypes ==
  /\ pc \in [Caller -> Locations]
  /\ job \in [Caller -> PublishJobs \union MarkJobs \union ReadJobs \union NoJobs]
  /\ seen \in [Caller -> Pointers \union {None}]
  /\ done \in [Caller -> Nat]
  /\ answer \in [Caller -> Answers]
  /\ calls \in Nat

TypeOK == StoreTypes /\ CallTypes

(***************************************************************************)
(* The records: the revisions are numbered from 1 to that of the pointer,  *)
(* each has at most one result, and the last is the one the pointer names. *)
(***************************************************************************)
Numbered ==
  /\ \A n \in Published : snapshots[n].name = n /\ snapshots[n].number <= Number(pointer)
  /\ \A m, n \in Published : snapshots[m].number = snapshots[n].number => m = n
  /\ \A k \in 1..Number(pointer) : \E n \in Published : snapshots[n].number = k

Active ==
  pointer # None =>
    /\ snapshots[pointer.name] = [pointer EXCEPT !.result = None]
    /\ Staged(pointer.name, pointer.content)

OneResult ==
  /\ \A i \in ResultId : results[i] # None =>
       /\ results[i].id = i /\ results[i].number \in 1..Number(pointer)
       /\ results[i].number = Number(pointer) => pointer.result = results[i]
  /\ \A i, j \in ResultId :
       results[i] # None /\ results[j] # None /\ results[i].number = results[j].number => i = j
  /\ pointer # None /\ pointer.result # None =>
       /\ results[pointer.result.id] = pointer.result /\ pointer.result.number = pointer.number
       /\ OutputVerified(pointer.result)

Sources ==
  \A n \in Published : snapshots[n].source # None =>
    /\ results[snapshots[n].source.id] = snapshots[n].source
    /\ snapshots[n].source.output = snapshots[n].content

Kept(q) == snapshots[q.pointer.name] = q.pointer /\ Follows(q.pointer, q.expected)
Repeatable == \A q \in RequestId : requests[q] # None => Kept(requests[q])

\* Every file of x up to path m is there, and nothing beyond m.
ReachedBy(o, x, m) ==
  /\ m \in DOMAIN File[x]
  /\ \A p \in DOMAIN File[x] : p <= m => <<o, p, File[x][p]>> \in files
  /\ \A f \in files : f[1] = o => f[2] <= m

\* A path of a name has one file, and one snapshot came furthest under the name.
InOrder ==
  /\ \A f, g \in files : f[1] = g[1] /\ f[2] = g[2] => f[3] = g[3]
  /\ \A o \in Owners : (\E f \in files : f[1] = o) => \E x \in Content, m \in Path : ReachedBy(o, x, m)

Records == Numbered /\ Active /\ OneResult /\ Sources /\ Repeatable /\ InOrder

(***************************************************************************)
(* What a call knows                                                       *)
(***************************************************************************)
Stages(c) ==
  /\ job[c].op \in {"publish", "mark"} /\ pc[c] \in {"pointer", "request"} => done[c] = 0
  /\ pc[c] = "idle" => done[c] = 0
  /\ pc[c] = "stage" =>
       \A p \in DOMAIN Files(c) : p <= done[c] => <<Owner(c), p, Files(c)[p]>> \in files

Publishes(c) ==
  LET j == job[c] IN
  /\ pc[c] \in {"request", "pointer", "stage", "commit", "recheck", "winner"}
  /\ IF j.expected = None THEN j.permit = None /\ j.supersede = None
     ELSE (j.permit # None /\ j.supersede = None) \/ (j.permit = None /\ j.supersede # None)
  /\ j.permit # None => results[j.permit.id] = j.permit
  /\ pc[c] \in {"stage", "commit"} =>
       /\ seen[c] # None
       /\ seen[c].name = j.name /\ seen[c].content = j.content
       /\ seen[c].result = None /\ seen[c].source = j.permit
       /\ seen[c].supersedes # None <=> j.supersede # None
       /\ j.expected = None => seen[c].number = 1
       /\ j.permit # None => j.permit.status = "completed" /\ j.permit.output = j.content
  /\ pc[c] = "commit" => Staged(j.name, j.content)

Marking(c) ==
  /\ pc[c] \in {"pointer", "stage", "prior", "commit", "confirm"}
  /\ pc[c] \in {"stage", "prior"} => seen[c] # None
  /\ pc[c] \in {"prior", "commit", "confirm"} => OutputVerified(job[c].result)

Knows(c) ==
  /\ Stages(c)
  /\ job[c].op = "none" <=> pc[c] = "idle"
  /\ job[c].op = "publish" => Publishes(c)
  /\ job[c].op = "mark" => Marking(c)
  /\ job[c].op = "read" => pc[c] \in {"pointer", "confirm"}

IInv == TypeOK /\ Records /\ \A c \in Caller : Knows(c)

(***************************************************************************)
(* Types                                                                   *)
(***************************************************************************)
Jobs == PublishJobs \union MarkJobs \union ReadJobs \union NoJobs
Statuses == {"none", "error", "conflict", "committed", "marked", "read"}

LEMMA PathsOf ==
  ASSUME NEW x \in Content
  PROVE  \A p \in DOMAIN File[x] : p \in Path /\ p \in Nat /\ p > 0 /\ File[x][p] \in Blobs
  <1> SUFFICES ASSUME NEW p \in DOMAIN File[x]
               PROVE  p \in Path /\ p \in Nat /\ p > 0 /\ File[x][p] \in Blobs
      OBVIOUS
  <1>1. p \in Path /\ Path \subseteq Nat \ {0}
        BY ConstantsAssumption
  <1>2. File[x][p] \in {File[x][q] : q \in DOMAIN File[x]}
        OBVIOUS
  <1>3. File[x][p] \in Blobs
        BY <1>2 DEF Blobs
  <1> QED BY <1>1, <1>3

LEMMA PointerFields ==
  ASSUME NEW p \in Pointers
  PROVE  /\ p # None /\ p.name \in Name /\ p.content \in Content
         /\ p.number \in Nat /\ p.number > 0
         /\ p.result \in Results \union {None} /\ p.source \in Results \union {None}
         /\ p.supersedes \in Supersedes \union {None}
  <1>1. p # None
        BY ConstantsAssumption
  <1> QED BY <1>1 DEF Pointers

LEMMA ResultFields ==
  ASSUME NEW r \in Results
  PROVE  /\ r # None /\ r.id \in ResultId /\ r.revision \in RevIds /\ r.content \in Content
         /\ r.number \in Nat /\ r.status \in {"completed", "failed"} /\ r.output \in Content
  <1>1. r # None
        BY ConstantsAssumption
  <1> QED BY <1>1 DEF Results

LEMMA PublishFields ==
  ASSUME NEW j \in PublishJobs
  PROVE  /\ j.op = "publish" /\ j.request \in RequestId /\ j.expected \in RevIds \union {None}
         /\ j.name \in Name /\ j.content \in Content
         /\ j.permit \in Results \union {None} /\ j.supersede \in Name \union {None}
  BY DEF PublishJobs

LEMMA JobIs ==
  ASSUME CallTypes, NEW c \in Caller
  PROVE  /\ job[c].op = "publish" => job[c] \in PublishJobs
         /\ job[c].op = "mark" => job[c] \in MarkJobs /\ job[c].result \in Results
         /\ job[c].op \in {"publish", "mark", "read", "none"}
  <1>1. job[c] \in PublishJobs \/ job[c] \in MarkJobs \/ job[c] \in ReadJobs \/ job[c] \in NoJobs
        BY DEF CallTypes
  <1>2. CASE job[c] \in PublishJobs
        BY <1>2, PublishFields
  <1>3. CASE job[c] \in MarkJobs
        BY <1>3 DEF MarkJobs
  <1>4. CASE job[c] \in ReadJobs
        BY <1>4 DEF ReadJobs
  <1>5. CASE job[c] \in NoJobs
        BY <1>5 DEF NoJobs
  <1> QED BY <1>1, <1>2, <1>3, <1>4, <1>5

LEMMA RequestFields ==
  ASSUME NEW q \in Requests
  PROVE  /\ q.expected \in RevIds \union {None} /\ q.pointer \in Pointers
         /\ q.permit \in Results \union {None} /\ q.supersede \in Name \union {None}
  BY DEF Requests

\* A revision that is in the records, and its revisionId.
LEMMA PublishedIs ==
  ASSUME StoreTypes, NEW n \in Published
  PROVE  n \in Name /\ n[2] \in RevIds /\ snapshots[n] \in Pointers
  BY DEF Published, StoreTypes, RevIds

LEMMA RecordedIs ==
  ASSUME StoreTypes, NEW r \in Recorded
  PROVE  r \in Results /\ \E i \in ResultId : results[i] = r
  BY DEF Recorded, StoreTypes

\* The three ways to publish.
Publication(q, e, n, x, permit, supersede) ==
  [op |-> "publish", request |-> q, expected |-> e, name |-> n, content |-> x,
   permit |-> permit, supersede |-> supersede]

LEMMA PublicationIs ==
  ASSUME NEW j \in Publications
  PROVE  \E q \in RequestId, n \in Name, x \in Content :
           \/ j = Publication(q, None, n, x, None, None)
           \/ \E r \in Recorded : j = Publication(q, r.revision, n, x, r, None)
           \/ \E m \in Published : j = Publication(q, m[2], n, x, None, m)
  <1> DEFINE of(e, permit, supersede) ==
               {Publication(q, e, n, x, permit, supersede) : q \in RequestId, n \in Name, x \in Content}
  <1>1. Publications = of(None, None, None)
                       \union (UNION {of(r.revision, r, None) : r \in Recorded})
                       \union (UNION {of(n[2], None, n) : n \in Published})
        BY DEF Publications, Publication
  <1> HIDE DEF of
  <1>2. \/ j \in of(None, None, None)
        \/ \E r \in Recorded : j \in of(r.revision, r, None)
        \/ \E m \in Published : j \in of(m[2], None, m)
        BY <1>1
  <1> QED BY <1>2 DEF of

LEMMA PublicationTypes ==
  ASSUME StoreTypes, NEW j \in Publications
  PROVE  j \in PublishJobs
  <1>1. PICK q \in RequestId, n \in Name, x \in Content :
           \/ j = Publication(q, None, n, x, None, None)
           \/ \E r \in Recorded : j = Publication(q, r.revision, n, x, r, None)
           \/ \E m \in Published : j = Publication(q, m[2], n, x, None, m)
        BY PublicationIs
  <1>2. ASSUME NEW e \in RevIds \union {None}, NEW permit \in Results \union {None},
               NEW supersede \in Name \union {None}, j = Publication(q, e, n, x, permit, supersede)
        PROVE  j \in PublishJobs
        BY <1>2 DEF Publication, PublishJobs
  <1>3. ASSUME NEW r \in Recorded, j = Publication(q, r.revision, n, x, r, None)
        PROVE  j \in PublishJobs
        BY <1>2, <1>3, RecordedIs, ResultFields
  <1>4. ASSUME NEW m \in Published, j = Publication(q, m[2], n, x, None, m)
        PROVE  j \in PublishJobs
        BY <1>2, <1>4, PublishedIs
  <1> QED BY <1>1, <1>2, <1>3, <1>4

LEMMA MarkTypes ==
  ASSUME StoreTypes, NEW j \in Marks
  PROVE  j \in MarkJobs
  <1>1. PICK i \in ResultId, n \in Published, s \in {"completed", "failed"}, o \in Content :
          j = [op |-> "mark", result |-> [id |-> i, revision |-> n[2], content |-> snapshots[n].content,
                                          number |-> snapshots[n].number, status |-> s, output |-> o]]
        BY DEF Marks
  <1>2. n[2] \in RevIds /\ snapshots[n].content \in Content /\ snapshots[n].number \in Nat
        BY PublishedIs, PointerFields
  <1>3. [id |-> i, revision |-> n[2], content |-> snapshots[n].content,
         number |-> snapshots[n].number, status |-> s, output |-> o] \in Results
        BY <1>2 DEF Results
  <1> QED BY <1>1, <1>3 DEF MarkJobs

LEMMA AnswerTypes ==
  ASSUME CallTypes, NEW c \in Caller, NEW s \in Statuses, NEW p \in Pointers \union {None},
         Answer(c, s, p)
  PROVE  CallTypes'
  <1>1. [status |-> s, pointer |-> p] \in Answers
        BY DEF Answers, Statuses
  <1>2. NoJob \in Jobs /\ "idle" \in Locations
        BY DEF NoJob, Jobs, NoJobs, Locations
  <1> HIDE DEF Answers, Jobs, Locations
  <1> QED BY <1>1, <1>2 DEF CallTypes, Answer, Jobs

LEMMA GoToTypes ==
  ASSUME CallTypes, NEW c \in Caller, NEW l \in Locations, GoTo(c, l),
         seen' \in [Caller -> Pointers \union {None}], done' \in [Caller -> Nat]
  PROVE  CallTypes'
  BY DEF CallTypes, GoTo

LEMMA AskTypes ==
  ASSUME CallTypes, NEW c \in Caller, NEW j \in Jobs, NEW l \in Locations, Ask(c, j, l)
  PROVE  CallTypes'
  <1>1. NoAnswer \in Answers
        BY DEF NoAnswer, Answers
  <1> HIDE DEF Answers, Jobs, Locations
  <1> QED BY <1>1 DEF CallTypes, Ask, Jobs

LEMMA StoreKeepsTypes ==
  ASSUME StoreTypes, UNCHANGED store
  PROVE  StoreTypes'
  BY DEF StoreTypes, store

\* A step that only reads: it answers, or it goes on.
LEMMA ReadTypes ==
  ASSUME TypeOK, NEW c \in Caller, UNCHANGED store,
         \/ \E s \in Statuses, p \in Pointers \union {None} : Answer(c, s, p)
         \/ /\ \E l \in Locations : GoTo(c, l)
            /\ seen' \in [Caller -> Pointers \union {None}] /\ done' \in [Caller -> Nat]
  PROVE  TypeOK'
  BY AnswerTypes, GoToTypes, StoreKeepsTypes DEF TypeOK

LEMMA AnswerRequestTypes ==
  ASSUME TypeOK, NEW c \in Caller, job[c].op = "publish", requests[job[c].request] # None, AnswerRequest(c)
  PROVE  \E s \in Statuses, p \in Pointers \union {None} : Answer(c, s, p)
  <1>1. job[c].request \in RequestId
        BY JobIs, PublishFields DEF TypeOK
  <1>2. requests[job[c].request] \in Requests
        BY <1>1 DEF TypeOK, StoreTypes
  <1>3. requests[job[c].request].pointer \in Pointers
        BY <1>2, RequestFields
  <1> QED BY <1>3 DEF AnswerRequest, Statuses

LEMMA AskingTypes ==
  ASSUME TypeOK, NEW c \in Caller, candidatePublish(c) \/ candidateMarkResult(c) \/ candidateRead(c)
  PROVE  TypeOK'
  <1>1. PICK j \in Jobs, l \in Locations : Ask(c, j, l)
        <2>1. CASE candidatePublish(c)
              BY <2>1, PublicationTypes DEF candidatePublish, TypeOK, Jobs, Locations
        <2>2. CASE candidateMarkResult(c)
              BY <2>2, MarkTypes DEF candidateMarkResult, TypeOK, Jobs, Locations
        <2>3. CASE candidateRead(c)
              BY <2>3 DEF candidateRead, Jobs, ReadJobs, Locations
        <2> QED BY <2>1, <2>2, <2>3
  <1>2. UNCHANGED store
        BY <1>1 DEF Ask
  <1> QED BY <1>1, <1>2, AskTypes, StoreKeepsTypes DEF TypeOK

\* What follows the active pointer.
NextRevision(c) ==
  Pointer(job[c].name, job[c].content, NextNumber(pointer), job[c].permit,
          IF job[c].supersede = None THEN None ELSE [name |-> pointer.name, number |-> pointer.number])

LEMMA NextTypes ==
  ASSUME TypeOK, NEW c \in Caller, job[c].op = "publish", job[c].supersede # None => pointer # None
  PROVE  NextRevision(c) \in Pointers
  <1>1. job[c] \in PublishJobs
        BY JobIs DEF TypeOK
  <1>2. NextNumber(pointer) \in Nat \ {0}
        BY PointerFields DEF NextNumber, Number, TypeOK, StoreTypes
  <1> DEFINE s == IF job[c].supersede = None THEN None ELSE [name |-> pointer.name, number |-> pointer.number]
  <1>3. s \in Supersedes \union {None}
        BY PointerFields DEF TypeOK, StoreTypes, Supersedes
  <1> HIDE DEF s
  <1>4. Pointer(job[c].name, job[c].content, NextNumber(pointer), job[c].permit, s) \in Pointers
        BY <1>1, <1>2, <1>3, PublishFields DEF Pointer, Pointers
  <1> QED BY <1>4 DEF NextRevision, s

LEMMA PublishReadTypes ==
  ASSUME TypeOK, NEW c \in Caller, Knows(c),
         ReadRequest(c) \/ ReadPointerToPublish(c) \/ CommitRefused(c) \/ ReadRequestAgain(c) \/ ReadWinner(c)
  PROVE  TypeOK'
  <1>1. job[c].op = "publish"
        BY JobIs DEF Knows, Marking, ReadRequest, ReadPointerToPublish, CommitRefused, ReadRequestAgain,
                     ReadWinner, TypeOK
  <1>2. pointer \in Pointers \union {None} /\ None \in Pointers \union {None}
        BY DEF TypeOK, StoreTypes
  <1>3. seen \in [Caller -> Pointers \union {None}] /\ done \in [Caller -> Nat]
        BY DEF TypeOK, CallTypes
  <1>4. CASE ReadRequest(c) \/ ReadRequestAgain(c)
        <2>1. CASE requests[job[c].request] # None
              <3>1. UNCHANGED store /\ AnswerRequest(c)
                    BY <1>4, <2>1 DEF ReadRequest, ReadRequestAgain
              <3> QED BY <1>1, <2>1, <3>1, AnswerRequestTypes, ReadTypes
        <2>2. CASE requests[job[c].request] = None
              <3>1. UNCHANGED store /\ UNCHANGED <<seen, done>> /\ \E l \in Locations : GoTo(c, l)
                    BY <1>4, <2>2 DEF ReadRequest, ReadRequestAgain, Locations
              <3> QED BY <1>3, <3>1, ReadTypes
        <2> QED BY <2>1, <2>2
  <1>5. CASE ReadPointerToPublish(c)
        <2>1. UNCHANGED store
              BY <1>5 DEF ReadPointerToPublish
        <2>2. \/ Answer(c, "error", None)
              \/ Answer(c, "conflict", pointer)
              \/ /\ GoTo(c, "stage") /\ UNCHANGED done
                 /\ RevisionId(pointer) = job[c].expected
                 /\ seen' = [seen EXCEPT ![c] = NextRevision(c)]
              BY <1>5 DEF ReadPointerToPublish, NextRevision
        <2>3. CASE /\ GoTo(c, "stage") /\ UNCHANGED done
                   /\ RevisionId(pointer) = job[c].expected
                   /\ seen' = [seen EXCEPT ![c] = NextRevision(c)]
              <3>1. job[c].supersede # None => pointer # None
                    BY <1>1, <2>3 DEF Knows, Publishes, RevisionId
              <3>2. seen' \in [Caller -> Pointers \union {None}]
                    BY <1>1, <1>3, <2>3, <3>1, NextTypes
              <3> QED BY <1>3, <2>1, <2>3, <3>2, ReadTypes DEF Locations
        <2> QED BY <1>2, <2>1, <2>2, <2>3, ReadTypes DEF Statuses
  <1>6. CASE CommitRefused(c)
        BY <1>3, <1>6, ReadTypes DEF CommitRefused, Locations
  <1>7. CASE ReadWinner(c)
        BY <1>2, <1>7, ReadTypes DEF ReadWinner, Statuses
  <1> QED BY <1>4, <1>5, <1>6, <1>7

LEMMA OtherReadTypes ==
  ASSUME TypeOK, NEW c \in Caller, Knows(c),
         \/ ReadPointerToMark(c) \/ ReadPriorResult(c) \/ ConfirmMark(c)
         \/ ReadPointerToRead(c) \/ ConfirmRead(c) \/ Fail(c)
  PROVE  TypeOK'
  <1>1. /\ pointer \in Pointers \union {None} /\ None \in Pointers \union {None}
        /\ seen[c] \in Pointers \union {None}
        BY DEF TypeOK, StoreTypes, CallTypes
  <1>2. seen \in [Caller -> Pointers \union {None}] /\ done \in [Caller -> Nat]
        BY DEF TypeOK, CallTypes
  <1>3. CASE ReadPointerToMark(c)
        <2>1. UNCHANGED store
              BY <1>3 DEF ReadPointerToMark
        <2>2. \/ Answer(c, "error", None) \/ Answer(c, "conflict", pointer)
              \/ GoTo(c, "stage") /\ seen' = [seen EXCEPT ![c] = pointer] /\ UNCHANGED done
              BY <1>3 DEF ReadPointerToMark
        <2> QED BY <1>1, <1>2, <2>1, <2>2, ReadTypes DEF Statuses, Locations
  <1>4. CASE ReadPriorResult(c)
        <2>1. UNCHANGED store
              BY <1>4 DEF ReadPriorResult
        <2>2. \/ Answer(c, "error", None) \/ Answer(c, "conflict", seen[c])
              \/ (GoTo(c, "confirm") \/ GoTo(c, "commit")) /\ UNCHANGED <<seen, done>>
              BY <1>4 DEF ReadPriorResult
        <2> QED BY <1>1, <1>2, <2>1, <2>2, ReadTypes DEF Statuses, Locations
  <1>5. CASE ConfirmMark(c)
        <2>1. UNCHANGED store
              BY <1>5 DEF ConfirmMark
        <2>2. Answer(c, "error", None) \/ Answer(c, "marked", pointer) \/ Answer(c, "conflict", pointer)
              BY <1>5 DEF ConfirmMark
        <2> QED BY <1>1, <2>1, <2>2, ReadTypes DEF Statuses
  <1>6. CASE ReadPointerToRead(c)
        <2>1. UNCHANGED store
              BY <1>6 DEF ReadPointerToRead
        <2>2. \/ Answer(c, "error", None)
              \/ /\ GoTo(c, "confirm") /\ seen' = [seen EXCEPT ![c] = pointer]
                 /\ done' = [done EXCEPT ![c] = @ + 1]
              BY <1>6 DEF ReadPointerToRead
        <2> QED BY <1>1, <1>2, <2>1, <2>2, ReadTypes DEF Statuses, Locations
  <1>7. CASE ConfirmRead(c)
        <2>1. UNCHANGED store
              BY <1>7 DEF ConfirmRead
        <2>2. \/ Answer(c, "error", None) \/ Answer(c, "error", pointer) \/ Answer(c, "read", pointer)
              \/ GoTo(c, "pointer") /\ UNCHANGED <<seen, done>>
              BY <1>7 DEF ConfirmRead
        <2> QED BY <1>1, <1>2, <2>1, <2>2, ReadTypes DEF Statuses, Locations
  <1>8. CASE Fail(c)
        BY <1>1, <1>8, ReadTypes DEF Fail, Statuses
  <1> QED BY <1>3, <1>4, <1>5, <1>6, <1>7, <1>8

LEMMA OwnerIs ==
  ASSUME TypeOK, NEW c \in Caller, job[c].op \in {"publish", "mark"}
  PROVE  Owner(c) \in Owners /\ \E x \in Content : Files(c) = File[x]
  <1>1. CASE job[c].op = "publish"
        <2>1. job[c].name \in Name /\ job[c].content \in Content
              BY <1>1, JobIs, PublishFields DEF TypeOK
        <2> QED BY <1>1, <2>1 DEF Owner, Owners, Files
  <1>2. CASE job[c].op = "mark"
        <2>1. job[c].result \in Results
              BY <1>2, JobIs DEF TypeOK
        <2>2. job[c].result.id \in ResultId /\ job[c].result.output \in Content
              BY <2>1, ResultFields
        <2> QED BY <1>2, <2>2 DEF Owner, Owners, Files
  <1> QED BY <1>1, <1>2

\* A file that is staged, or found staged, is the next of the caller's snapshot.
StagesOne(c, p) ==
  /\ p \in DOMAIN Files(c) /\ p > done[c] /\ NextPath(c, p)
  /\ files' = files \union {<<Owner(c), p, Files(c)[p]>>}
  /\ done' = [done EXCEPT ![c] = p] /\ UNCHANGED seen
  /\ \A f \in files : f[1] = Owner(c) /\ f[2] = p => f[3] = Files(c)[p]
  /\ GoTo(c, IF ~LastFile(c, p) THEN "stage"
             ELSE IF job[c].op = "publish" THEN "commit" ELSE "prior")

LEMMA StageFileIs ==
  ASSUME TypeOK, NEW c \in Caller, Knows(c), StageFile(c)
  PROVE  /\ UNCHANGED <<pointer, snapshots, requests, results>>
         /\ job[c].op \in {"publish", "mark"} /\ pc[c] = "stage"
         /\ \/ Answer(c, "error", None) /\ UNCHANGED files
            \/ \E x \in Content : Files(c) = File[x] /\ \E p \in DOMAIN File[x] : StagesOne(c, p)
  <1>1. job[c].op \in {"publish", "mark"} /\ pc[c] = "stage"
        BY JobIs DEF TypeOK, Knows, StageFile
  <1>2. PICK x \in Content : Files(c) = File[x]
        BY <1>1, OwnerIs
  <1>3. UNCHANGED <<pointer, snapshots, requests, results>>
        BY DEF StageFile
  <1>4. PICK p \in ToStage(c) :
          /\ NextPath(c, p)
          /\ IF Conflicts(c, p) THEN Answer(c, "error", None) /\ UNCHANGED files
             ELSE /\ files' = files \union {<<Owner(c), p, Files(c)[p]>>}
                  /\ done' = [done EXCEPT ![c] = p]
                  /\ GoTo(c, IF ~LastFile(c, p) THEN "stage"
                             ELSE IF job[c].op = "publish" THEN "commit" ELSE "prior")
                  /\ UNCHANGED seen
        BY DEF StageFile
  <1>5. CASE Conflicts(c, p)
        BY <1>1, <1>3, <1>4, <1>5
  <1>6. CASE ~Conflicts(c, p)
        <2>1. p \in DOMAIN File[x] /\ p \in DOMAIN Files(c) /\ p > done[c]
              BY <1>2, <1>4 DEF ToStage
        <2>2. \A f \in files : f[1] = Owner(c) /\ f[2] = p => f[3] = Files(c)[p]
              BY <1>6 DEF Conflicts
        <2>3. StagesOne(c, p)
              BY <1>4, <1>6, <2>1, <2>2 DEF StagesOne
        <2> QED BY <1>1, <1>2, <1>3, <2>1, <2>3
  <1> QED BY <1>5, <1>6

LEMMA StageTypes ==
  ASSUME TypeOK, NEW c \in Caller, Knows(c), StageFile(c)
  PROVE  TypeOK'
  <1>1. /\ UNCHANGED <<pointer, snapshots, requests, results>>
        /\ job[c].op \in {"publish", "mark"}
        BY StageFileIs
  <1>2. seen \in [Caller -> Pointers \union {None}] /\ done \in [Caller -> Nat]
        BY DEF TypeOK, CallTypes
  <1>3. CASE Answer(c, "error", None) /\ UNCHANGED files
        <2>1. UNCHANGED store
              BY <1>1, <1>3 DEF store
        <2> QED BY <1>3, <2>1, ReadTypes DEF Statuses
  <1>4. ASSUME NEW x \in Content, Files(c) = File[x], NEW p \in DOMAIN File[x], StagesOne(c, p)
        PROVE  TypeOK'
        <2>1. p \in Path /\ p \in Nat /\ File[x][p] \in Blobs
              BY PathsOf
        <2>2. <<Owner(c), p, Files(c)[p]>> \in Owners \X Path \X Blobs
              BY <1>1, <1>4, <2>1, OwnerIs
        <2>3. files' \subseteq Owners \X Path \X Blobs
              BY <1>4, <2>2 DEF StagesOne, TypeOK, StoreTypes
        <2>4. StoreTypes'
              BY <1>1, <2>3 DEF TypeOK, StoreTypes
        <2>5. \E l \in Locations : GoTo(c, l)
              BY <1>4 DEF StagesOne, Locations
        <2>6. seen' \in [Caller -> Pointers \union {None}] /\ done' \in [Caller -> Nat]
              BY <1>2, <1>4, <2>1 DEF StagesOne
        <2>7. CallTypes'
              BY <2>5, <2>6, GoToTypes DEF TypeOK
        <2> QED BY <2>4, <2>7 DEF TypeOK
  <1> QED BY <1>3, <1>4, StageFileIs

LEMMA CommitTypes ==
  ASSUME TypeOK, NEW c \in Caller, Knows(c), Commit(c)
  PROVE  TypeOK'
  <1>1. job[c].op = "publish" /\ job[c] \in PublishJobs /\ seen[c] \in Pointers
        BY JobIs DEF TypeOK, CallTypes, Commit, Knows, Publishes
  <1>2. [expected |-> job[c].expected, pointer |-> seen[c],
         permit |-> job[c].permit, supersede |-> job[c].supersede] \in Requests
        BY <1>1, PublishFields DEF Requests
  <1>3. StoreTypes'
        BY <1>1, <1>2, PublishFields DEF Commit, TypeOK, StoreTypes
  <1>4. CallTypes'
        BY <1>1, AnswerTypes DEF Commit, TypeOK, Statuses
  <1> QED BY <1>3, <1>4 DEF TypeOK

LEMMA CommitResultTypes ==
  ASSUME TypeOK, NEW c \in Caller, Knows(c), CommitResult(c)
  PROVE  TypeOK'
  <1>1. job[c].result \in Results
        BY JobIs DEF TypeOK, CommitResult
  <1>2. StoreTypes'
        <2>1. CASE commitResultAllowed(pointer, job[c].result) /\ results[job[c].result.id] = None
              <3>1. pointer \in Pointers
                    BY <2>1 DEF TypeOK, StoreTypes, commitResultAllowed, IsCurrent
              <3>2. [pointer EXCEPT !.result = job[c].result] \in Pointers
                    BY <1>1, <3>1 DEF Pointers
              <3> QED BY <1>1, <2>1, <3>2, ResultFields DEF CommitResult, TypeOK, StoreTypes
        <2>2. CASE ~(commitResultAllowed(pointer, job[c].result) /\ results[job[c].result.id] = None)
              BY <2>2 DEF CommitResult, TypeOK, StoreTypes
        <2> QED BY <2>1, <2>2
  <1>3. CallTypes'
        BY GoToTypes DEF CommitResult, TypeOK, CallTypes, Locations
  <1> QED BY <1>2, <1>3 DEF TypeOK

LEMMA TypesStay ==
  ASSUME TypeOK, \A c \in Caller : Knows(c), [Next]_vars
  PROVE  TypeOK'
  <1>1. CASE UNCHANGED vars
        BY <1>1 DEF TypeOK, StoreTypes, CallTypes, vars, store
  <1>2. CASE Next
        BY <1>2, AskingTypes, PublishReadTypes, OtherReadTypes, StageTypes, CommitTypes, CommitResultTypes
           DEF Next
  <1> QED BY <1>1, <1>2

(***************************************************************************)
(* Records are added and stay                                              *)
(***************************************************************************)
Same(v) ==
  /\ pc'[v] = pc[v] /\ job'[v] = job[v] /\ seen'[v] = seen[v] /\ done'[v] = done[v]
  /\ answer'[v] = answer[v]

Grows ==
  /\ files \subseteq files'
  /\ \A n \in Name : snapshots[n] # None => snapshots'[n] = snapshots[n]
  /\ \A i \in ResultId : results[i] # None => results'[i] = results[i]
  /\ \A q \in RequestId : requests[q] # None => requests'[q] = requests[q]

LEMMA OthersStay ==
  ASSUME TypeOK, NEW c \in Caller, NEW v \in Caller, v # c,
         \/ \E j, l : Ask(c, j, l)
         \/ \E s, p : Answer(c, s, p)
         \/ \E l : /\ GoTo(c, l)
                   /\ \/ UNCHANGED seen
                      \/ \E p : seen' = [seen EXCEPT ![c] = p]
                   /\ \/ UNCHANGED done
                      \/ \E k : done' = [done EXCEPT ![c] = k]
  PROVE  Same(v)
  <1>1. CASE \E j, l : Ask(c, j, l)
        BY <1>1 DEF TypeOK, CallTypes, Ask, Same
  <1>2. CASE \E s, p : Answer(c, s, p)
        BY <1>2 DEF TypeOK, CallTypes, Answer, Same
  <1>3. CASE \E l : /\ GoTo(c, l)
                    /\ \/ UNCHANGED seen
                       \/ \E p : seen' = [seen EXCEPT ![c] = p]
                    /\ \/ UNCHANGED done
                       \/ \E k : done' = [done EXCEPT ![c] = k]
        BY <1>3 DEF TypeOK, CallTypes, GoTo, Same
  <1> QED BY <1>1, <1>2, <1>3

\* What a call knows stays true while others add records.
LEMMA KnowsStays ==
  ASSUME TypeOK, NEW v \in Caller, Knows(v), Same(v), Grows
  PROVE  Knows(v)'
  <1>1. Stages(v)'
        BY DEF Knows, Stages, Same, Grows, Owner, Files
  <1>2. job[v].op = "publish" => Publishes(v)'
        <2> SUFFICES ASSUME job[v].op = "publish" PROVE Publishes(v)'
            OBVIOUS
        <2>1. Publishes(v) /\ job[v] \in PublishJobs
              BY JobIs DEF Knows, TypeOK
        <2>2. job[v].permit # None => results'[job[v].permit.id] = job[v].permit
              BY <2>1, PublishFields, ResultFields DEF Publishes, Grows
        <2>3. pc[v] = "commit" =>
                \A p \in DOMAIN File[job[v].content] : <<job[v].name, p, File[job[v].content][p]>> \in files'
              BY <2>1 DEF Publishes, Grows, Staged
        <2>4. pc'[v] = pc[v] /\ job'[v] = job[v] /\ seen'[v] = seen[v]
              BY DEF Same
        <2> QED BY <2>1, <2>2, <2>3, <2>4 DEF Publishes, Staged
  <1>3. job[v].op = "mark" => Marking(v)'
        BY DEF Knows, Marking, Same, Grows, OutputVerified, Staged
  <1> QED BY <1>1, <1>2, <1>3 DEF Knows, Same

(***************************************************************************)
(* What the caller of a step knows after it                                *)
(***************************************************************************)
LEMMA AnswerKnows ==
  ASSUME TypeOK, NEW c \in Caller, NEW s, NEW p, Answer(c, s, p)
  PROVE  Knows(c)'
  <1>1. pc'[c] = "idle" /\ job'[c] = NoJob /\ done'[c] = 0
        BY DEF TypeOK, CallTypes, Answer
  <1>2. job'[c].op = "none"
        BY <1>1 DEF NoJob
  <1> QED BY <1>1, <1>2 DEF Knows, Stages

LEMMA PublicationKnows ==
  ASSUME TypeOK, OneResult, NEW j \in Publications
  PROVE  /\ j.op = "publish"
         /\ IF j.expected = None THEN j.permit = None /\ j.supersede = None
            ELSE (j.permit # None /\ j.supersede = None) \/ (j.permit = None /\ j.supersede # None)
         /\ j.permit # None => results[j.permit.id] = j.permit
  <1>1. PICK q \in RequestId, n \in Name, x \in Content :
           \/ j = Publication(q, None, n, x, None, None)
           \/ \E r \in Recorded : j = Publication(q, r.revision, n, x, r, None)
           \/ \E m \in Published : j = Publication(q, m[2], n, x, None, m)
        BY PublicationIs
  <1>2. CASE j = Publication(q, None, n, x, None, None)
        BY <1>2 DEF Publication
  <1>3. ASSUME NEW r \in Recorded, j = Publication(q, r.revision, n, x, r, None)
        PROVE  /\ j.op = "publish" /\ j.permit # None /\ j.expected # None /\ j.supersede = None
               /\ results[j.permit.id] = j.permit
        <2>1. r \in Results /\ r # None
              BY RecordedIs, ResultFields DEF TypeOK
        <2>2. PICK i \in ResultId : results[i] = r
              BY RecordedIs DEF TypeOK
        <2>3. results[r.id] = r
              BY <2>1, <2>2 DEF OneResult
        <2>4. r.revision # None
              BY <2>1, ResultFields, ConstantsAssumption
        <2> QED BY <1>3, <2>1, <2>3, <2>4 DEF Publication
  <1>4. ASSUME NEW m \in Published, j = Publication(q, m[2], n, x, None, m)
        PROVE  j.op = "publish" /\ j.permit = None /\ j.expected # None /\ j.supersede # None
        <2>1. m[2] # None /\ m # None
              BY PublishedIs, ConstantsAssumption DEF TypeOK
        <2> QED BY <1>4, <2>1 DEF Publication
  <1> QED BY <1>1, <1>2, <1>3, <1>4

LEMMA AskKnows ==
  ASSUME TypeOK, OneResult, NEW c \in Caller, Knows(c),
         candidatePublish(c) \/ candidateMarkResult(c) \/ candidateRead(c)
  PROVE  Knows(c)' /\ UNCHANGED store /\ \A v \in Caller : v # c => Same(v)
  <1>1. ASSUME NEW j, NEW l, Ask(c, j, l)
        PROVE  /\ job'[c] = j /\ pc'[c] = l /\ done'[c] = 0 /\ UNCHANGED store
               /\ \A v \in Caller : v # c => Same(v)
        BY <1>1, OthersStay DEF TypeOK, CallTypes, Ask, Knows, Stages
  <1>2. CASE candidatePublish(c)
        <2>1. PICK j \in Publications : Ask(c, j, "request")
              BY <1>2 DEF candidatePublish
        <2>2. job'[c] = j /\ pc'[c] = "request" /\ done'[c] = 0 /\ results' = results
              BY <1>1, <2>1 DEF store
        <2>3. Publishes(c)'
              BY <2>2, PublicationKnows DEF Publishes
        <2>4. Stages(c)'
              BY <2>2 DEF Stages
        <2> QED BY <1>1, <2>1, <2>2, <2>3, <2>4, PublicationKnows DEF Knows
  <1>3. CASE candidateMarkResult(c)
        <2>1. PICK j \in Marks : Ask(c, j, "pointer")
              BY <1>3 DEF candidateMarkResult
        <2>2. job'[c] = j /\ pc'[c] = "pointer" /\ done'[c] = 0
              BY <1>1, <2>1
        <2>3. j.op = "mark"
              BY MarkTypes DEF MarkJobs, TypeOK
        <2> QED BY <1>1, <2>1, <2>2, <2>3 DEF Knows, Stages, Marking
  <1>4. CASE candidateRead(c)
        <2>1. Ask(c, [op |-> "read"], "pointer")
              BY <1>4 DEF candidateRead
        <2>2. job'[c].op = "read" /\ pc'[c] = "pointer" /\ done'[c] = 0
              BY <1>1, <2>1
        <2> QED BY <1>1, <2>1, <2>2 DEF Knows, Stages
  <1> QED BY <1>2, <1>3, <1>4

\* A publication reads the pointer, and names what will follow it.
LEMMA NextKnows ==
  ASSUME TypeOK, NEW c \in Caller, Knows(c), pc[c] = "pointer", job[c].op = "publish",
         RevisionId(pointer) = job[c].expected, GoTo(c, "stage"), UNCHANGED done, UNCHANGED store,
         seen' = [seen EXCEPT ![c] = NextRevision(c)],
         job[c].permit # None => job[c].permit.status = "completed" /\ job[c].permit.output = job[c].content
  PROVE  Knows(c)'
  <1>1. job[c] \in PublishJobs /\ Publishes(c)
        BY JobIs DEF TypeOK, Knows
  <1>2. pc'[c] = "stage" /\ job' = job /\ done'[c] = 0 /\ seen'[c] = NextRevision(c) /\ results' = results
        BY DEF TypeOK, CallTypes, GoTo, Knows, Stages, store
  <1>3. job[c].supersede # None => pointer # None
        BY <1>1 DEF Publishes, RevisionId
  <1>4. NextRevision(c) # None
        BY <1>3, NextTypes, PointerFields
  <1>5. job[c].expected = None => pointer = None
        BY PointerFields, ConstantsAssumption DEF RevisionId, RevIds, TypeOK, StoreTypes
  <1>6. job[c].supersede # None => [name |-> pointer.name, number |-> pointer.number] # None
        <2>1. pointer # None => [name |-> pointer.name, number |-> pointer.number] \in Supersedes
              BY PointerFields DEF TypeOK, StoreTypes, Supersedes
        <2> QED BY <1>3, <2>1, ConstantsAssumption
  <1>7. /\ NextRevision(c).name = job[c].name /\ NextRevision(c).content = job[c].content
        /\ NextRevision(c).result = None /\ NextRevision(c).source = job[c].permit
        /\ NextRevision(c).supersedes # None <=> job[c].supersede # None
        /\ job[c].expected = None => NextRevision(c).number = 1
        BY <1>5, <1>6 DEF NextRevision, Pointer, NextNumber, Number
  <1>8. Publishes(c)'
        BY <1>1, <1>2, <1>4, <1>7 DEF Publishes
  <1>9. Stages(c)'
        BY <1>1, <1>2, PublishFields, PathsOf DEF Stages, Files
  <1> QED BY <1>2, <1>8, <1>9 DEF Knows

LEMMA AnswerRequestAnswers ==
  ASSUME NEW c \in Caller, AnswerRequest(c)
  PROVE  \E s, p : Answer(c, s, p)
  BY DEF AnswerRequest

LEMMA PublishReadKnows ==
  ASSUME TypeOK, NEW c \in Caller, Knows(c),
         ReadRequest(c) \/ ReadPointerToPublish(c) \/ CommitRefused(c) \/ ReadRequestAgain(c) \/ ReadWinner(c)
  PROVE  Knows(c)' /\ UNCHANGED store /\ \A v \in Caller : v # c => Same(v)
  <1>1. job[c].op = "publish" /\ Publishes(c)
        BY JobIs DEF Knows, Marking, ReadRequest, ReadPointerToPublish, CommitRefused, ReadRequestAgain,
                     ReadWinner, TypeOK
  <1>2. UNCHANGED store
        BY DEF ReadRequest, ReadPointerToPublish, CommitRefused, ReadRequestAgain, ReadWinner
  <1>3. ASSUME NEW s, NEW p, Answer(c, s, p)
        PROVE  Knows(c)' /\ \A v \in Caller : v # c => Same(v)
        BY <1>3, AnswerKnows, OthersStay
  <1>4. ASSUME NEW l \in {"pointer", "recheck", "winner"}, GoTo(c, l), UNCHANGED <<seen, done>>,
               l = "pointer" => pc[c] = "request"
        PROVE  Knows(c)' /\ \A v \in Caller : v # c => Same(v)
        <2>1. pc'[c] = l /\ job' = job /\ done' = done /\ seen' = seen /\ results' = results
              BY <1>2, <1>4 DEF TypeOK, CallTypes, GoTo, store
        <2>2. Publishes(c)'
              BY <1>1, <2>1 DEF Publishes
        <2>3. Stages(c)'
              BY <1>1, <1>4, <2>1 DEF Knows, Stages
        <2> QED BY <1>1, <1>4, <2>1, <2>2, <2>3, OthersStay DEF Knows
  <1>5. CASE ReadRequest(c)
        <2>1. CASE requests[job[c].request] # None
              BY <1>3, <1>5, <2>1, AnswerRequestAnswers DEF ReadRequest
        <2>2. CASE requests[job[c].request] = None
              BY <1>4, <1>5, <2>2 DEF ReadRequest
        <2> QED BY <1>2, <2>1, <2>2
  <1>6. CASE ReadRequestAgain(c)
        <2>1. CASE requests[job[c].request] # None
              BY <1>3, <1>6, <2>1, AnswerRequestAnswers DEF ReadRequestAgain
        <2>2. CASE requests[job[c].request] = None
              BY <1>4, <1>6, <2>2 DEF ReadRequestAgain
        <2> QED BY <1>2, <2>1, <2>2
  <1>7. CASE CommitRefused(c)
        BY <1>2, <1>4, <1>7 DEF CommitRefused
  <1>8. CASE ReadWinner(c)
        BY <1>2, <1>3, <1>8 DEF ReadWinner
  <1>9. CASE ReadPointerToPublish(c)
        <2>1. \/ Answer(c, "error", None)
              \/ Answer(c, "conflict", pointer)
              \/ /\ GoTo(c, "stage") /\ UNCHANGED done
                 /\ RevisionId(pointer) = job[c].expected
                 /\ seen' = [seen EXCEPT ![c] = NextRevision(c)]
                 /\ \/ job[c].expected = None \/ job[c].supersede # None
                    \/ job[c].permit # None /\ PermitVerified(pointer, job[c])
              BY <1>9 DEF ReadPointerToPublish, NextRevision
        <2>2. CASE /\ GoTo(c, "stage") /\ UNCHANGED done
                   /\ RevisionId(pointer) = job[c].expected
                   /\ seen' = [seen EXCEPT ![c] = NextRevision(c)]
                   /\ \/ job[c].expected = None \/ job[c].supersede # None
                      \/ job[c].permit # None /\ PermitVerified(pointer, job[c])
              <3>1. job[c].permit # None =>
                      job[c].permit.status = "completed" /\ job[c].permit.output = job[c].content
                    BY <1>1, <2>2 DEF Publishes, PermitVerified
              <3>2. pc[c] = "pointer"
                    BY <1>9 DEF ReadPointerToPublish
              <3> QED BY <1>1, <1>2, <2>2, <3>1, <3>2, NextKnows, OthersStay
        <2> QED BY <1>2, <1>3, <2>1, <2>2
  <1> QED BY <1>5, <1>6, <1>7, <1>8, <1>9

LEMMA OtherReadKnows ==
  ASSUME TypeOK, NEW c \in Caller, Knows(c),
         \/ ReadPointerToMark(c) \/ ReadPriorResult(c) \/ ConfirmMark(c)
         \/ ReadPointerToRead(c) \/ ConfirmRead(c) \/ Fail(c)
  PROVE  Knows(c)' /\ UNCHANGED store /\ \A v \in Caller : v # c => Same(v)
  <1>1. UNCHANGED store
        BY DEF ReadPointerToMark, ReadPriorResult, ConfirmMark, ReadPointerToRead, ConfirmRead, Fail
  <1>2. ASSUME NEW s, NEW p, Answer(c, s, p)
        PROVE  Knows(c)' /\ \A v \in Caller : v # c => Same(v)
        BY <1>2, AnswerKnows, OthersStay
  <1>3. CASE ReadPointerToMark(c)
        <2>1. CASE GoTo(c, "stage") /\ seen' = [seen EXCEPT ![c] = pointer] /\ UNCHANGED done /\ pointer # None
              <3>1. job[c].op = "mark" /\ pc[c] = "pointer"
                    BY <1>3 DEF ReadPointerToMark
              <3>2. pc'[c] = "stage" /\ job' = job /\ done'[c] = 0 /\ seen'[c] = pointer
                    BY <2>1, <3>1 DEF TypeOK, CallTypes, GoTo, Knows, Stages
              <3>3. Stages(c)'
                    BY <3>1, <3>2, JobIs, ResultFields, PathsOf DEF Stages, Files, TypeOK
              <3>4. Marking(c)'
                    BY <2>1, <3>2 DEF Marking
              <3>5. Knows(c)'
                    BY <3>1, <3>2, <3>3, <3>4 DEF Knows
              <3>6. \A v \in Caller : v # c => Same(v)
                    BY <2>1 DEF TypeOK, CallTypes, GoTo, Same
              <3> QED BY <1>1, <3>5, <3>6
        <2> QED BY <1>1, <1>2, <1>3, <2>1 DEF ReadPointerToMark, IsCurrent
  <1>4. CASE ReadPriorResult(c)
        <2>1. CASE (GoTo(c, "confirm") \/ GoTo(c, "commit")) /\ UNCHANGED <<seen, done>>
              <3>1. job[c].op = "mark" /\ pc[c] = "prior" /\ Marking(c)
                    BY <1>4, JobIs DEF ReadPriorResult, Knows, Publishes, TypeOK
              <3>2. pc'[c] \in {"confirm", "commit"} /\ job' = job /\ files' = files
                    BY <1>1, <2>1, <3>1 DEF TypeOK, CallTypes, GoTo, store
              <3>3. OutputVerified(job[c].result)'
                    BY <3>1, <3>2 DEF Marking, OutputVerified, Staged
              <3>4. Knows(c)'
                    BY <3>1, <3>2, <3>3 DEF Knows, Stages, Marking
              <3>5. \A v \in Caller : v # c => Same(v)
                    BY <2>1 DEF TypeOK, CallTypes, GoTo, Same
              <3> QED BY <1>1, <3>4, <3>5
        <2> QED BY <1>1, <1>2, <1>4, <2>1 DEF ReadPriorResult
  <1>5. CASE ConfirmMark(c)
        BY <1>1, <1>2, <1>5 DEF ConfirmMark
  <1>6. CASE ReadPointerToRead(c)
        <2>1. CASE /\ GoTo(c, "confirm") /\ seen' = [seen EXCEPT ![c] = pointer]
                   /\ done' = [done EXCEPT ![c] = @ + 1]
              <3>1. job[c].op = "read" /\ pc'[c] = "confirm" /\ job' = job
                    BY <1>6, <2>1 DEF ReadPointerToRead, TypeOK, CallTypes, GoTo
              <3>2. Knows(c)'
                    BY <3>1 DEF Knows, Stages
              <3>3. \A v \in Caller : v # c => Same(v)
                    BY <2>1 DEF TypeOK, CallTypes, GoTo, Same
              <3> QED BY <1>1, <3>2, <3>3
        <2> QED BY <1>1, <1>2, <1>6, <2>1 DEF ReadPointerToRead
  <1>7. CASE ConfirmRead(c)
        <2>1. CASE GoTo(c, "pointer") /\ UNCHANGED <<seen, done>>
              <3>1. job[c].op = "read" /\ pc'[c] = "pointer" /\ job' = job
                    BY <1>7, <2>1 DEF ConfirmRead, TypeOK, CallTypes, GoTo
              <3>2. Knows(c)'
                    BY <3>1 DEF Knows, Stages
              <3>3. \A v \in Caller : v # c => Same(v)
                    BY <2>1 DEF TypeOK, CallTypes, GoTo, Same
              <3> QED BY <1>1, <3>2, <3>3
        <2> QED BY <1>1, <1>2, <1>7, <2>1 DEF ConfirmRead
  <1>8. CASE Fail(c)
        BY <1>1, <1>2, <1>8 DEF Fail
  <1> QED BY <1>3, <1>4, <1>5, <1>6, <1>7, <1>8

(***************************************************************************)
(* Staging                                                                 *)
(***************************************************************************)
LEMMA StageKnows ==
  ASSUME TypeOK, NEW c \in Caller, Knows(c), StageFile(c)
  PROVE  Knows(c)' /\ \A v \in Caller : v # c => Same(v)
  <1>1. CASE Answer(c, "error", None)
        BY <1>1, AnswerKnows, OthersStay
  <1>2. ASSUME NEW x \in Content, Files(c) = File[x], NEW p \in DOMAIN File[x], StagesOne(c, p)
        PROVE  Knows(c)' /\ \A v \in Caller : v # c => Same(v)
        <2> DEFINE d == done[c]
                   last == LastFile(c, p)
        <2>1. /\ job[c].op \in {"publish", "mark"} /\ pc[c] = "stage" /\ results' = results
              /\ \A q \in DOMAIN File[x] : q <= d => <<Owner(c), q, File[x][q]>> \in files
              BY <1>2, StageFileIs DEF Knows, Stages
        <2>2. d \in Nat /\ p \in Nat /\ p > d /\ \A q \in DOMAIN File[x] : q \in Nat
              BY <1>2, PathsOf DEF StagesOne, TypeOK, CallTypes
        <2>3. /\ job' = job /\ done'[c] = p /\ seen' = seen
              /\ pc'[c] = IF ~last THEN "stage" ELSE IF job[c].op = "publish" THEN "commit" ELSE "prior"
              BY <1>2 DEF StagesOne, TypeOK, CallTypes, GoTo
        <2>4. Owner(c)' = Owner(c) /\ Files(c)' = Files(c)
              BY <2>3 DEF Owner, Files
        <2>5. ASSUME NEW q \in DOMAIN File[x], q <= p
              PROVE  <<Owner(c), q, File[x][q]>> \in files'
              <3>1. CASE q <= d
                    BY <1>2, <2>1, <3>1 DEF StagesOne
              <3>2. CASE q > d
                    <4>1. p <= q
                          BY <1>2, <3>2 DEF StagesOne, NextPath, ToStage
                    <4>2. q = p
                          BY <2>2, <2>5, <4>1
                    <4> QED BY <1>2, <4>2 DEF StagesOne
              <3> QED BY <2>2, <3>1, <3>2
        <2>6. Stages(c)'
              BY <1>2, <2>1, <2>3, <2>4, <2>5 DEF Stages
        <2>7. last => \A q \in DOMAIN File[x] : <<Owner(c), q, File[x][q]>> \in files'
              <3> SUFFICES ASSUME last, NEW q \in DOMAIN File[x] PROVE <<Owner(c), q, File[x][q]>> \in files'
                  OBVIOUS
              <3>1. q > d => q <= p
                    BY <1>2 DEF LastFile, ToStage
              <3>2. q <= p
                    BY <2>2, <3>1
              <3> QED BY <2>5, <3>2
        <2> HIDE DEF last
        <2>8. ASSUME job[c].op = "publish" PROVE Publishes(c)'
              <3>1. Publishes(c)
                    BY <2>8 DEF Knows
              <3>2. Owner(c) = job[c].name /\ File[x] = File[job[c].content]
                    BY <1>2, <2>8 DEF Owner, Files
              <3>3. pc'[c] = "commit" => Staged(job[c].name, job[c].content)'
                    BY <2>3, <2>7, <3>2 DEF Staged
              <3>4. pc'[c] \in {"commit", "stage"}
                    BY <2>3, <2>8
              <3> QED BY <2>1, <2>3, <3>1, <3>3, <3>4 DEF Publishes, Staged
        <2>9. ASSUME job[c].op = "mark" PROVE Marking(c)'
              <3>1. Marking(c) /\ seen[c] # None
                    BY <2>1, <2>9 DEF Knows, Marking
              <3>2. Owner(c) = job[c].result.id /\ File[x] = File[job[c].result.output]
                    BY <1>2, <2>9 DEF Owner, Files
              <3>3. pc'[c] = "prior" => OutputVerified(job[c].result)'
                    BY <2>3, <2>7, <3>2 DEF OutputVerified, Staged
              <3>4. pc'[c] \in {"prior", "stage"}
                    BY <2>3, <2>9
              <3> QED BY <2>3, <3>1, <3>3, <3>4 DEF Marking, OutputVerified, Staged
        <2>10. Knows(c)'
              BY <2>1, <2>3, <2>6, <2>8, <2>9 DEF Knows
        <2>11. \A v \in Caller : v # c => Same(v)
              BY <1>2 DEF StagesOne, TypeOK, CallTypes, GoTo, Same
        <2> QED BY <2>10, <2>11
  <1> QED BY <1>1, <1>2, StageFileIs

\* Files are staged in the order of their paths, so a caller that goes beyond all others
\* has every file of its snapshot up to there under the name.
LEMMA StagesInOrder ==
  ASSUME TypeOK, InOrder, NEW c \in Caller, Knows(c), StageFile(c)
  PROVE  InOrder'
  <1>1. CASE UNCHANGED files
        BY <1>1 DEF InOrder, ReachedBy
  <1>2. ASSUME NEW x \in Content, Files(c) = File[x], NEW p \in DOMAIN File[x], StagesOne(c, p)
        PROVE  InOrder'
        <2> DEFINE o == Owner(c)
                   file == <<o, p, File[x][p]>>
        <2>1. /\ files' = files \union {file} /\ o \in Owners
              /\ \A f \in files : f[1] = o /\ f[2] = p => f[3] = File[x][p]
              BY <1>2, StageFileIs, OwnerIs DEF StagesOne
        <2>2. \A q \in DOMAIN File[x] : q <= p => <<o, q, File[x][q]>> \in files'
              <3> SUFFICES ASSUME NEW q \in DOMAIN File[x], q <= p PROVE <<o, q, File[x][q]>> \in files'
                  OBVIOUS
              <3>1. q > done[c] => p <= q
                    BY <1>2 DEF StagesOne, NextPath, ToStage
              <3>2. q \in Nat /\ p \in Nat /\ done[c] \in Nat
                    BY PathsOf DEF TypeOK, CallTypes
              <3>3. q <= done[c] => <<o, q, File[x][q]>> \in files
                    BY <1>2, StageFileIs DEF Knows, Stages
              <3> QED BY <2>1, <3>1, <3>2, <3>3
        <2>3. \A f, g \in files' : f[1] = g[1] /\ f[2] = g[2] => f[3] = g[3]
              BY <2>1 DEF InOrder
        <2>4. \A f \in files : f[2] \in Nat
              BY ConstantsAssumption DEF TypeOK, StoreTypes
        <2>5. p \in Nat /\ p \in Path
              BY PathsOf
        <2>6. ASSUME NEW u \in Owners, \E f \in files' : f[1] = u
              PROVE  \E y \in Content, m \in Path : ReachedBy(u, y, m)'
              <3>1. CASE \E f \in files : f[1] = u
                    <4>1. PICK y \in Content, m \in Path : ReachedBy(u, y, m)
                          BY <3>1 DEF InOrder
                    <4>2. CASE u # o \/ p <= m
                          <5>1. ReachedBy(u, y, m)'
                                BY <2>1, <4>1, <4>2 DEF ReachedBy
                          <5> QED BY <5>1
                    <4>3. CASE u = o /\ ~(p <= m)
                          <5>1. m \in Nat
                                BY ConstantsAssumption
                          <5>2. \A f \in files' : f[1] = u => f[2] <= p
                                BY <2>1, <2>4, <2>5, <4>1, <4>3, <5>1 DEF ReachedBy
                          <5>3. ReachedBy(u, x, p)'
                                BY <2>2, <4>3, <5>2 DEF ReachedBy
                          <5> QED BY <2>5, <5>3
                    <4> QED BY <4>2, <4>3
              <3>2. CASE ~(\E f \in files : f[1] = u)
                    <4>1. u = o /\ \A f \in files' : f[1] = u => f = file
                          BY <2>1, <2>6, <3>2
                    <4>2. ReachedBy(u, x, p)'
                          BY <2>2, <2>5, <4>1 DEF ReachedBy
                    <4> QED BY <2>5, <4>2
              <3> QED BY <3>1, <3>2
        <2> QED BY <2>3, <2>6 DEF InOrder
  <1> QED BY <1>1, <1>2, StageFileIs

(***************************************************************************)
(* The records                                                             *)
(***************************************************************************)
LEMMA RecordsKept ==
  ASSUME Records, UNCHANGED store
  PROVE  Records'
  <1> USE DEF store
  <1>1. Published' = Published
        BY DEF Published
  <1>2. Numbered' /\ Active'
        BY <1>1 DEF Records, Numbered, Number, Active, Staged
  <1>3. OneResult' /\ Sources'
        BY <1>1 DEF Records, OneResult, OutputVerified, Staged, Sources, Number
  <1>4. Repeatable'
        BY <1>1 DEF Records, Repeatable, Kept, Follows
  <1>5. InOrder'
        BY DEF Records, InOrder, ReachedBy
  <1> QED BY <1>2, <1>3, <1>4, <1>5 DEF Records

LEMMA StageRecords ==
  ASSUME TypeOK, Records, NEW c \in Caller, Knows(c), StageFile(c)
  PROVE  Records' /\ Grows
  <1>1. UNCHANGED <<pointer, snapshots, requests, results>> /\ files \subseteq files'
        BY StageFileIs DEF StagesOne
  <1>2. Published' = Published
        BY <1>1 DEF Published
  <1>3. Numbered' /\ Active'
        BY <1>1, <1>2 DEF Records, Numbered, Number, Active, Staged
  <1>4. OneResult' /\ Sources'
        BY <1>1, <1>2 DEF Records, OneResult, OutputVerified, Staged, Sources, Number
  <1>5. Repeatable'
        BY <1>1, <1>2 DEF Records, Repeatable, Kept, Follows
  <1>6. InOrder'
        BY StagesInOrder DEF Records
  <1> QED BY <1>1, <1>3, <1>4, <1>5, <1>6 DEF Records, Grows

\* What follows the pointer when it commits, and on what.
LEMMA CommitIs ==
  ASSUME TypeOK, Records, NEW c \in Caller, Knows(c), Commit(c)
  PROVE  /\ job[c] \in PublishJobs /\ Publishes(c) /\ seen[c] \in Pointers
         /\ pointer' = seen[c] /\ seen[c].name = job[c].name
         /\ job[c].name \notin Published
         /\ snapshots' = [snapshots EXCEPT ![job[c].name] = seen[c]]
         /\ UNCHANGED <<results, files>>
         /\ seen[c].number = Number(pointer) + 1
         /\ IF job[c].expected = None THEN pointer = None
            ELSE pointer \in Pointers /\ pointer.name[2] = job[c].expected
  <1>1. job[c] \in PublishJobs /\ Publishes(c) /\ seen[c] \in Pointers /\ pc[c] = "commit"
        BY JobIs DEF TypeOK, CallTypes, Commit, Knows, Publishes
  <1>2. commitAllowed(pointer, job[c], seen[c]) /\ seen[c].name = job[c].name /\ job[c].name \notin Published
        BY <1>1 DEF Commit, CommitsTo, Publishes, Published
  <1>3. CASE job[c].expected = None
        <2>1. pointer = None /\ seen[c].number = 1
              BY <1>1, <1>2, <1>3 DEF commitAllowed, Publishes
        <2> QED BY <1>1, <1>2, <1>3, <2>1 DEF Commit, Number
  <1>4. CASE job[c].expected # None
        <2>1. pointer \in Pointers /\ pointer.name[2] = job[c].expected
              BY <1>2, <1>4 DEF commitAllowed, TypeOK, StoreTypes
        <2>2. seen[c].number = pointer.number + 1
              BY <1>1, <1>2, <1>4, <2>1, PointerFields DEF commitAllowed
        <2>3. pointer # None
              BY <2>1, PointerFields
        <2> QED BY <1>1, <1>2, <1>4, <2>1, <2>2, <2>3 DEF Commit, Number
  <1> QED BY <1>3, <1>4

LEMMA CommitGrows ==
  ASSUME TypeOK, Records, NEW c \in Caller, Knows(c), Commit(c)
  PROVE  /\ Grows
         /\ Published' = Published \union {job[c].name} /\ snapshots'[job[c].name] = seen[c]
         /\ \A n \in Published : snapshots'[n] = snapshots[n]
  <1>1. requests[job[c].request] = None /\ job[c].request \in RequestId
        BY CommitIs, PublishFields DEF Commit, CommitsTo
  <1>2. job[c].name \in Name /\ seen[c] # None
        BY CommitIs, PublishFields, PointerFields
  <1>3. snapshots'[job[c].name] = seen[c]
        BY <1>2, CommitIs DEF TypeOK, StoreTypes
  <1>4. \A n \in Name : n # job[c].name => snapshots'[n] = snapshots[n]
        BY CommitIs DEF TypeOK, StoreTypes
  <1>5. snapshots[job[c].name] = None
        BY <1>2, CommitIs DEF Published
  <1>6. Published' = Published \union {job[c].name}
        BY <1>2, <1>3, <1>4 DEF Published
  <1>7. \A q \in RequestId : requests[q] # None => requests'[q] = requests[q]
        BY <1>1 DEF Commit, TypeOK, StoreTypes
  <1>8. files \subseteq files' /\ results' = results
        BY CommitIs
  <1>9. \A n \in Name : snapshots[n] # None => snapshots'[n] = snapshots[n]
        BY <1>4, <1>5
  <1>10. Grows
        BY <1>7, <1>8, <1>9 DEF Grows
  <1> QED BY <1>3, <1>6, <1>9, <1>10 DEF Published

\* A revision follows the one it expected for good.
LEMMA FollowsStays ==
  ASSUME Grows, NEW p, NEW e, Follows(p, e)
  PROVE  IF e = None THEN p.number = 1
         ELSE \E n \in Published' : n[2] = e /\ snapshots'[n].number = p.number - 1
  BY DEF Grows, Follows, Published

\* A commit publishes the successor of the revision it expected.
LEMMA CommitFollows ==
  ASSUME TypeOK, Records, NEW c \in Caller, Knows(c), Commit(c)
  PROVE  IF job[c].expected = None THEN seen[c].number = 1
         ELSE \E n \in Published' : n[2] = job[c].expected /\ snapshots'[n].number = seen[c].number - 1
  <1>1. CASE job[c].expected = None
        BY <1>1, CommitIs DEF Number
  <1>2. CASE job[c].expected # None
        <2>1. pointer \in Pointers /\ pointer.name[2] = job[c].expected
              BY <1>2, CommitIs
        <2>2. pointer.number \in Nat /\ pointer.name \in Name /\ pointer # None
              BY <2>1, PointerFields
        <2>3. snapshots[pointer.name] = [pointer EXCEPT !.result = None]
              BY <2>2 DEF Records, Active
        <2>4. [pointer EXCEPT !.result = None] \in Pointers
              BY <2>1 DEF Pointers
        <2>5. pointer.name \in Published /\ snapshots[pointer.name].number = pointer.number
              BY <2>1, <2>2, <2>3, <2>4, PointerFields DEF Published, Pointers
        <2>6. seen[c].number = pointer.number + 1
              BY <2>2, CommitIs DEF Number
        <2>7. pointer.name \in Published' /\ snapshots'[pointer.name].number = seen[c].number - 1
              BY <2>2, <2>5, <2>6, CommitGrows
        <2> QED BY <1>2, <2>1, <2>7
  <1> QED BY <1>1, <1>2

LEMMA CommitRecords ==
  ASSUME TypeOK, TypeOK', Records, NEW c \in Caller, Knows(c), Commit(c)
  PROVE  Records'
  <1> DEFINE n0 == job[c].name
             p0 == seen[c]
             N  == Number(pointer)
  <1>1. /\ p0 \in Pointers /\ pointer' = p0 /\ p0.name = n0 /\ n0 \notin Published /\ n0 \in Name
        /\ p0.number = N + 1 /\ p0 # None
        BY CommitIs, PublishFields, PointerFields
  <1>2. /\ Published' = Published \union {n0} /\ snapshots'[n0] = p0
        /\ \A n \in Published : snapshots'[n] = snapshots[n]
        BY CommitGrows
  <1>3. UNCHANGED <<results, files>> /\ Grows
        BY CommitIs, CommitGrows
  <1>4. N \in Nat /\ Number(pointer)' = N + 1
        BY <1>1, PointerFields DEF Number, TypeOK, StoreTypes
  <1>5. Publishes(c) /\ pc[c] = "commit"
        BY CommitIs DEF Commit
  <1>6. \A n \in Published : snapshots[n].number \in Nat /\ snapshots[n].number <= N
        BY PublishedIs, PointerFields DEF TypeOK, Records, Numbered
  <1>7. Numbered'
        <2>1. \A n \in Published' : snapshots'[n].name = n /\ snapshots'[n].number <= N + 1
              BY <1>1, <1>2, <1>4, <1>6 DEF Records, Numbered
        <2>2. \A m, n \in Published' : snapshots'[m].number = snapshots'[n].number => m = n
              BY <1>1, <1>2, <1>4, <1>6 DEF Records, Numbered
        <2>3. ASSUME NEW k \in 1..(N + 1)
              PROVE  \E n \in Published' : snapshots'[n].number = k
              <3>1. CASE k = N + 1
                    BY <1>1, <1>2, <3>1
              <3>2. CASE k # N + 1
                    <4>1. k \in 1..N
                          BY <1>4, <3>2
                    <4>2. PICK n \in Published : snapshots[n].number = k
                          BY <4>1 DEF Records, Numbered
                    <4> QED BY <1>2, <4>2
              <3> QED BY <3>1, <3>2
        <2> QED BY <1>4, <2>1, <2>2, <2>3 DEF Numbered
  <1>8. Active'
        <2>1. p0.result = None /\ p0.content = job[c].content
              BY <1>5 DEF Publishes
        <2>2. [p0 EXCEPT !.result = None] = p0
              BY <1>1, <2>1 DEF Pointers
        <2>3. \A p \in DOMAIN File[p0.content] : <<p0.name, p, File[p0.content][p]>> \in files
              BY <1>1, <1>5, <2>1 DEF Publishes, Staged
        <2> QED BY <1>1, <1>2, <1>3, <2>2, <2>3 DEF Active, Staged
  <1>9. OneResult'
        <2>1. p0.result = None
              BY <1>5 DEF Publishes
        <2>2. ASSUME NEW i \in ResultId, results[i] # None
              PROVE  results[i].id = i /\ results[i].number \in 1..(N + 1) /\ results[i].number # N + 1
              <3>1. results[i].id = i /\ results[i].number \in 1..N
                    BY <2>2 DEF Records, OneResult
              <3> QED BY <1>4, <3>1
        <2>3. \A i, j \in ResultId :
                results[i] # None /\ results[j] # None /\ results[i].number = results[j].number => i = j
              BY DEF Records, OneResult
        <2> QED BY <1>1, <1>3, <1>4, <2>1, <2>2, <2>3 DEF OneResult
  <1>10. Sources'
        <2>1. p0.source # None => results[p0.source.id] = p0.source /\ p0.source.output = p0.content
              BY <1>5 DEF Publishes
        <2> QED BY <1>2, <1>3, <2>1 DEF Records, Sources
  <1>11. Repeatable'
        <2>0. PICK q0 \in RequestId : q0 = job[c].request
              BY CommitIs, PublishFields
        <2>1. requests'[q0].pointer = p0 /\ requests'[q0].expected = job[c].expected
              <3>1. requests'[q0] = [expected |-> job[c].expected, pointer |-> p0,
                                     permit |-> job[c].permit, supersede |-> job[c].supersede]
                    BY <2>0 DEF Commit, TypeOK, StoreTypes
              <3> QED BY <3>1
        <2>2. Kept(requests[q0])'
              <3>1. IF job[c].expected = None THEN p0.number = 1
                    ELSE \E n \in Published' : n[2] = job[c].expected
                                               /\ snapshots'[n].number = p0.number - 1
                    BY CommitFollows
              <3> QED BY <1>1, <1>2, <2>1, <3>1 DEF Kept, Follows
        <2>3. ASSUME NEW q \in RequestId, q # q0, requests'[q] # None
              PROVE  Kept(requests[q])'
              <3>1. requests'[q] = requests[q] /\ Kept(requests[q]) /\ requests[q] \in Requests
                    BY <2>0, <2>3 DEF Commit, TypeOK, StoreTypes, Records, Repeatable
              <3>2. requests[q].pointer \in Pointers
                    BY <3>1, RequestFields
              <3>3. snapshots'[requests[q].pointer.name] = requests[q].pointer
                    BY <1>3, <3>1, <3>2, PointerFields DEF Kept, Grows
              <3>4. Follows(requests[q].pointer, requests[q].expected)
                    BY <3>1 DEF Kept
              <3>5. IF requests[q].expected = None THEN requests[q].pointer.number = 1
                    ELSE \E n \in Published' : n[2] = requests[q].expected
                                               /\ snapshots'[n].number = requests[q].pointer.number - 1
                    BY <1>3, <3>4, FollowsStays
              <3> QED BY <3>1, <3>3, <3>5 DEF Kept, Follows
        <2> QED BY <2>2, <2>3 DEF Repeatable
  <1>12. InOrder'
        BY <1>3 DEF Records, InOrder, ReachedBy
  <1> QED BY <1>7, <1>8, <1>9, <1>10, <1>11, <1>12 DEF Records

LEMMA CommitResultIs ==
  ASSUME TypeOK, NEW c \in Caller, Knows(c), CommitResult(c)
  PROVE  /\ job[c].op = "mark" /\ job[c].result \in Results /\ OutputVerified(job[c].result)
         /\ UNCHANGED <<snapshots, requests, files>>
         /\ \/ UNCHANGED <<results, pointer>>
            \/ /\ pointer \in Pointers /\ pointer.result = None
               /\ IsCurrent(pointer, job[c].result) /\ results[job[c].result.id] = None
               /\ results' = [results EXCEPT ![job[c].result.id] = job[c].result]
               /\ pointer' = [pointer EXCEPT !.result = job[c].result]
  <1>1. job[c].op = "mark" /\ job[c].result \in Results /\ OutputVerified(job[c].result)
        BY JobIs DEF TypeOK, CommitResult, Knows, Marking
  <1>2. CASE UNCHANGED <<results, pointer>>
        BY <1>1, <1>2 DEF CommitResult
  <1>3. CASE ~UNCHANGED <<results, pointer>>
        <2>1. commitResultAllowed(pointer, job[c].result) /\ results[job[c].result.id] = None
              BY <1>3 DEF CommitResult
        <2>2. pointer \in Pointers
              BY <2>1 DEF commitResultAllowed, IsCurrent, TypeOK, StoreTypes
        <2> QED BY <1>1, <2>1, <2>2 DEF CommitResult, commitResultAllowed
  <1> QED BY <1>2, <1>3

LEMMA CommitResultRecords ==
  ASSUME TypeOK, TypeOK', Records, NEW c \in Caller, Knows(c), CommitResult(c)
  PROVE  Records' /\ Grows
  <1>1. CASE UNCHANGED <<results, pointer>>
        <2>1. UNCHANGED store
              BY <1>1, CommitResultIs DEF store
        <2> QED BY <2>1, RecordsKept DEF Grows, store
  <1>2. CASE ~UNCHANGED <<results, pointer>>
        <2>1. PICK r \in Results : r = job[c].result
              BY CommitResultIs
        <2>2. /\ OutputVerified(r) /\ UNCHANGED <<snapshots, requests, files>>
              /\ pointer \in Pointers /\ pointer.result = None
              /\ IsCurrent(pointer, r) /\ results[r.id] = None
              /\ results' = [results EXCEPT ![r.id] = r]
              /\ pointer' = [pointer EXCEPT !.result = r]
              BY <1>2, <2>1, CommitResultIs
        <2>3. r.id \in ResultId /\ r # None /\ pointer # None
              BY <2>2, ResultFields, PointerFields
        <2>4. /\ pointer' \in Pointers /\ pointer'.result = r /\ pointer'.number = pointer.number
              /\ pointer'.name = pointer.name /\ pointer'.content = pointer.content
              /\ [pointer' EXCEPT !.result = None] = [pointer EXCEPT !.result = None]
              BY <2>2 DEF Pointers
        <2>5. pointer' # None
              BY <2>4, PointerFields
        <2>6. Published' = Published /\ Number(pointer)' = Number(pointer) /\ Number(pointer) = pointer.number
              BY <2>2, <2>3, <2>4, <2>5 DEF Published, Number
        <2>7. results'[r.id] = r /\ \A i \in ResultId : i # r.id => results'[i] = results[i]
              BY <2>2, <2>3 DEF TypeOK, StoreTypes
        <2>8. Grows
              BY <2>2, <2>7 DEF Grows
        <2>9. Numbered'
              BY <2>2, <2>6 DEF Records, Numbered
        <2>10. Active'
              BY <2>2, <2>3, <2>4 DEF Records, Active, Staged
        <2>11. r.number = pointer.number /\ pointer.number \in 1..Number(pointer)
              BY <2>2, <2>6, PointerFields DEF IsCurrent
        <2>12. ASSUME NEW i \in ResultId, results[i] # None
              PROVE  results[i].number # r.number
              BY <2>2, <2>3, <2>6, <2>11, <2>12 DEF Records, OneResult
        <2>13. OneResult'
              <3>1. ASSUME NEW i \in ResultId, results'[i] # None
                    PROVE  /\ results'[i].id = i /\ results'[i].number \in 1..Number(pointer)
                           /\ results'[i].number = Number(pointer) => r = results'[i]
                    <4>1. CASE i = r.id
                          BY <2>6, <2>7, <2>11, <4>1
                    <4>2. CASE i # r.id
                          BY <2>6, <2>7, <2>11, <2>12, <3>1, <4>2 DEF Records, OneResult
                    <4> QED BY <4>1, <4>2
              <3>2. ASSUME NEW i \in ResultId, NEW j \in ResultId, results'[i] # None, results'[j] # None,
                           results'[i].number = results'[j].number
                    PROVE  i = j
                    BY <2>7, <2>12, <3>2 DEF Records, OneResult
              <3>3. \A p \in DOMAIN File[r.output] : <<r.id, p, File[r.output][p]>> \in files'
                    BY <2>2 DEF OutputVerified, Staged
              <3> QED BY <2>4, <2>6, <2>7, <2>11, <3>1, <3>2, <3>3 DEF OneResult, OutputVerified, Staged
        <2>14. Sources'
              <3>1. ASSUME NEW n \in Published, snapshots[n].source # None
                    PROVE  results'[snapshots[n].source.id] = snapshots[n].source
                    <4>1. snapshots[n].source \in Results /\ results[snapshots[n].source.id] = snapshots[n].source
                          BY <3>1, PublishedIs, PointerFields DEF TypeOK, Records, Sources
                    <4> QED BY <2>8, <4>1, ResultFields DEF Grows
              <3> QED BY <2>2, <2>6, <3>1 DEF Records, Sources
        <2>15. Repeatable' /\ InOrder'
              BY <2>2, <2>6 DEF Records, Repeatable, Kept, Follows, InOrder, ReachedBy
        <2> QED BY <2>8, <2>9, <2>10, <2>13, <2>14, <2>15 DEF Records
  <1> QED BY <1>1, <1>2

LEMMA CommitResultKnows ==
  ASSUME TypeOK, NEW c \in Caller, Knows(c), CommitResult(c)
  PROVE  Knows(c)' /\ \A v \in Caller : v # c => Same(v)
  <1>1. job[c].op = "mark" /\ pc'[c] = "confirm" /\ job' = job /\ UNCHANGED <<seen, done, files>>
        BY DEF TypeOK, CallTypes, CommitResult, GoTo
  <1>2. \A p \in DOMAIN File[job[c].result.output] : <<job[c].result.id, p, File[job[c].result.output][p]>> \in files'
        BY <1>1, CommitResultIs DEF OutputVerified, Staged
  <1>3. Marking(c)'
        BY <1>1, <1>2 DEF Marking, OutputVerified, Staged
  <1>4. Knows(c)'
        BY <1>1, <1>3 DEF Knows, Stages
  <1>5. \A v \in Caller : v # c => Same(v)
        BY DEF TypeOK, CallTypes, CommitResult, GoTo, Same
  <1> QED BY <1>4, <1>5

LEMMA CommitKnows ==
  ASSUME TypeOK, NEW c \in Caller, Commit(c)
  PROVE  Knows(c)' /\ \A v \in Caller : v # c => Same(v)
  <1>1. PICK s, p : Answer(c, s, p)
        BY DEF Commit
  <1> QED BY <1>1, AnswerKnows, OthersStay

(***************************************************************************)
(* The invariant                                                           *)
(***************************************************************************)
LEMMA Initially == Init => IInv
  <1> SUFFICES ASSUME Init PROVE IInv
      OBVIOUS
  <1>1. NoAnswer \in Answers /\ NoJob \in NoJobs /\ "idle" \in Locations
        BY DEF NoAnswer, Answers, NoJob, NoJobs, Locations
  <1>2. StoreTypes
        BY DEF Init, StoreTypes
  <1>3. CallTypes
        BY <1>1 DEF Init, CallTypes
  <1>4. Published = {} /\ Number(pointer) = 0
        BY DEF Init, Published, Number
  <1>5. Numbered /\ Active /\ OneResult /\ Sources /\ Repeatable
        BY <1>4 DEF Init, Numbered, Active, OneResult, Sources, Repeatable
  <1>6. InOrder
        BY DEF Init, InOrder
  <1>7. \A c \in Caller : job[c].op = "none" /\ pc[c] = "idle" /\ done[c] = 0
        BY DEF Init, NoJob
  <1>8. \A c \in Caller : Knows(c)
        BY <1>7 DEF Knows, Stages
  <1> QED BY <1>2, <1>3, <1>5, <1>6, <1>8 DEF IInv, TypeOK, Records

\* Every step adds to the records, and leaves the other calls alone.
LEMMA StepIs ==
  ASSUME IInv, TypeOK', NEW c \in Caller,
         \/ candidatePublish(c) \/ candidateMarkResult(c) \/ candidateRead(c)
         \/ ReadRequest(c) \/ ReadPointerToPublish(c) \/ StageFile(c)
         \/ Commit(c) \/ CommitRefused(c) \/ ReadRequestAgain(c) \/ ReadWinner(c)
         \/ ReadPointerToMark(c) \/ ReadPriorResult(c) \/ CommitResult(c) \/ ConfirmMark(c)
         \/ ReadPointerToRead(c) \/ ConfirmRead(c)
         \/ Fail(c)
  PROVE  Records' /\ Grows /\ Knows(c)' /\ \A v \in Caller : v # c => Same(v)
  <1>1. TypeOK /\ Records /\ Knows(c) /\ OneResult
        BY DEF IInv, Records
  <1>2. ASSUME UNCHANGED store PROVE Records' /\ Grows
        BY <1>1, <1>2, RecordsKept DEF Grows, store
  <1>3. CASE candidatePublish(c) \/ candidateMarkResult(c) \/ candidateRead(c)
        BY <1>1, <1>2, <1>3, AskKnows
  <1>4. CASE \/ ReadRequest(c) \/ ReadPointerToPublish(c) \/ CommitRefused(c) \/ ReadRequestAgain(c)
             \/ ReadWinner(c)
        BY <1>1, <1>2, <1>4, PublishReadKnows
  <1>5. CASE \/ ReadPointerToMark(c) \/ ReadPriorResult(c) \/ ConfirmMark(c)
             \/ ReadPointerToRead(c) \/ ConfirmRead(c) \/ Fail(c)
        BY <1>1, <1>2, <1>5, OtherReadKnows
  <1>6. CASE StageFile(c)
        BY <1>1, <1>6, StageRecords, StageKnows
  <1>7. CASE Commit(c)
        BY <1>1, <1>7, CommitRecords, CommitGrows, CommitKnows
  <1>8. CASE CommitResult(c)
        BY <1>1, <1>8, CommitResultRecords, CommitResultKnows
  <1> QED BY <1>3, <1>4, <1>5, <1>6, <1>7, <1>8

LEMMA InvariantStays == IInv /\ [Next]_vars => IInv'
  <1> SUFFICES ASSUME IInv, [Next]_vars PROVE IInv'
      OBVIOUS
  <1>1. TypeOK'
        BY TypesStay DEF IInv
  <1>2. CASE Next
        <2>1. PICK c \in Caller : Records' /\ Grows /\ Knows(c)' /\ \A v \in Caller : v # c => Same(v)
              BY <1>1, <1>2, StepIs DEF Next
        <2>2. \A v \in Caller : Knows(v)'
              BY <2>1, KnowsStays DEF IInv
        <2> QED BY <1>1, <2>1, <2>2 DEF IInv
  <1>3. CASE UNCHANGED vars
        <2>1. UNCHANGED store /\ Grows /\ \A v \in Caller : Same(v)
              BY <1>3 DEF vars, store, Grows, Same
        <2>2. \A v \in Caller : Knows(v)'
              BY <2>1, KnowsStays DEF IInv
        <2> QED BY <1>1, <2>1, <2>2, RecordsKept DEF IInv
  <1> QED BY <1>2, <1>3

(***************************************************************************)
(* Safety                                                                  *)
(***************************************************************************)
\* The records of candidatePostgres.ts stay consistent: revisions are numbered
\* without a gap, each has at most one result, and what a request was answered
\* stays repeatable.
THEOREM InvariantHolds == Spec => []IInv
  BY Initially, InvariantStays, PTL DEF Spec

\* Records, calls and answers keep their types.
THEOREM TypeCorrect == Spec => []TypeOK
  <1>1. IInv => TypeOK
        BY DEF IInv
  <1> QED BY <1>1, InvariantHolds, PTL

\* The active record, as its snapshot has it and without its result.
LEMMA ActiveIs ==
  ASSUME IInv, pointer # None
  PROVE  /\ pointer \in Pointers /\ pointer.name \in Published
         /\ snapshots[pointer.name] \in Pointers
         /\ snapshots[pointer.name] = [pointer EXCEPT !.result = None]
         /\ \A f \in {"name", "content", "number", "source", "supersedes"} :
              snapshots[pointer.name][f] = pointer[f]
  <1>1. pointer \in Pointers /\ pointer.name \in Name
        BY PointerFields DEF IInv, TypeOK, StoreTypes
  <1>2. snapshots[pointer.name] = [pointer EXCEPT !.result = None]
        BY DEF IInv, Records, Active
  <1>3. [pointer EXCEPT !.result = None] \in Pointers
        BY <1>1 DEF Pointers
  <1>4. [pointer EXCEPT !.result = None] # None
        BY <1>3, PointerFields
  <1>5. \A f \in {"name", "content", "number", "source", "supersedes"} :
          [pointer EXCEPT !.result = None][f] = pointer[f]
        BY <1>1 DEF Pointers
  <1> QED BY <1>1, <1>2, <1>3, <1>4, <1>5 DEF Published

\* candidateRead never finds that the active pointer names a snapshot, a result or
\* a source result that is missing or different (verifiedSnapshot, verifiedResult,
\* verifiedSourceResult): commits and staging keep every record a pointer can name.
THEOREM PointerIsWhole == Spec => []NothingDangling
  <1>1. IInv => NothingDangling
        <2> SUFFICES ASSUME IInv, pointer # None
                     PROVE  SnapshotVerified(pointer) /\ ResultVerified(pointer)
            BY DEF NothingDangling
        <2>1. /\ pointer.name \in Published
              /\ snapshots[pointer.name].content = pointer.content
              /\ snapshots[pointer.name].source = pointer.source
              BY ActiveIs
        <2>2. SnapshotVerified(pointer)
              <3>1. Staged(pointer.name, pointer.content)
                    BY DEF IInv, Records, Active
              <3> QED BY <2>1, <3>1 DEF SnapshotVerified, Published
        <2>3. CASE pointer.result # None
              <3>1. OneResult
                    BY DEF IInv, Records
              <3>2. results[pointer.result.id] = pointer.result /\ OutputVerified(pointer.result)
                    BY <2>3, <3>1 DEF OneResult
              <3> QED BY <2>2, <2>3, <3>2 DEF ResultVerified
        <2>4. CASE pointer.result = None
              <3>1. pointer.source # None =>
                      results[pointer.source.id] = pointer.source /\ pointer.source.output = pointer.content
                    <4>1. PICK n \in Published : n = pointer.name
                          BY <2>1
                    <4>2. Sources
                          BY DEF IInv, Records
                    <4> QED BY <2>1, <4>1, <4>2 DEF Sources
              <3> QED BY <2>2, <2>4, <3>1 DEF ResultVerified
        <2> QED BY <2>2, <2>3, <2>4
  <1> QED BY <1>1, InvariantHolds, PTL

\* A name whose staging failed between two files can be staged again, whichever
\* snapshots were tried under it: the one that came furthest has its own bytes there.
THEOREM StagingCanResume == Spec => []StagedFilesAgree
  <1>1. IInv => StagedFilesAgree
        <2> SUFFICES ASSUME IInv, NEW g \in files
                     PROVE  \E x \in Content :
                              /\ \E p \in DOMAIN File[x] : <<g[1], p, File[x][p]>> \in files
                              /\ \A f \in files :
                                   f[1] = g[1] /\ f[2] \in DOMAIN File[x] => f[3] = File[x][f[2]]
            BY DEF StagedFilesAgree
        <2>1. g[1] \in Owners /\ InOrder
              BY DEF IInv, Records, TypeOK, StoreTypes
        <2>2. PICK x \in Content, m \in Path : ReachedBy(g[1], x, m)
              BY <2>1 DEF InOrder
        <2>3. <<g[1], m, File[x][m]>> \in files /\ m \in DOMAIN File[x]
              <3>1. m <= m
                    BY ConstantsAssumption
              <3> QED BY <2>2, <3>1 DEF ReachedBy
        <2>4. ASSUME NEW f \in files, f[1] = g[1], f[2] \in DOMAIN File[x]
              PROVE  f[3] = File[x][f[2]]
              <3>1. <<g[1], f[2], File[x][f[2]]>> \in files
                    BY <2>2, <2>4 DEF ReachedBy
              <3>2. <<g[1], f[2], File[x][f[2]]>>[1] = f[1] /\ <<g[1], f[2], File[x][f[2]]>>[2] = f[2]
                    BY <2>4
              <3> QED BY <2>1, <3>1, <3>2 DEF InOrder
        <2> QED BY <2>3, <2>4
  <1> QED BY <1>1, InvariantHolds, PTL

(***************************************************************************)
(* What callers are told                                                   *)
(***************************************************************************)
LEMMA TellsNothing ==
  ASSUME NEW c \in Caller, NEW j, answer'[c].status \in {"none", "error", "conflict"}
  PROVE  AnswerHolds(j, answer[c])'
  BY DEF AnswerHolds

LEMMA TellsCommitted ==
  ASSUME NEW c \in Caller, NEW j, NEW p, answer'[c] = [status |-> "committed", pointer |-> p],
         p.name = j.name, p.content = j.content, snapshots'[j.name] = p,
         IF j.expected = None THEN p.number = 1
         ELSE \E n \in Published' : n[2] = j.expected /\ snapshots'[n].number = p.number - 1
  PROVE  AnswerHolds(j, answer[c])'
  BY DEF AnswerHolds, Follows

LEMMA TellsMarked ==
  ASSUME NEW c \in Caller, NEW j, NEW p, answer'[c] = [status |-> "marked", pointer |-> p],
         results'[j.result.id] = j.result, pointer'.result = j.result
  PROVE  AnswerHolds(j, answer[c])'
  BY DEF AnswerHolds

LEMMA TellsRead ==
  ASSUME NEW c \in Caller, NEW j, NEW p, answer'[c] = [status |-> "read", pointer |-> p], pointer' = p
  PROVE  AnswerHolds(j, answer[c])'
  BY DEF AnswerHolds

LEMMA Answered ==
  ASSUME TypeOK, NEW c \in Caller, NEW s, NEW p, Answer(c, s, p)
  PROVE  /\ answer'[c] = [status |-> s, pointer |-> p]
         /\ s \in {"none", "error", "conflict"} => \A j : AnswerHolds(j, answer[c])'
  <1>1. answer'[c] = [status |-> s, pointer |-> p]
        BY DEF TypeOK, CallTypes, Answer
  <1> QED BY <1>1, TellsNothing

\* A call that goes on is told nothing.
LEMMA GoesOn ==
  ASSUME NEW c \in Caller, NEW l, GoTo(c, l)
  PROVE  answer' = answer
  BY DEF GoTo

\* A request already in the records: asked again, it is answered as before.
LEMMA RequestHolds ==
  ASSUME IInv, NEW c \in Caller, NEW j, j = job[c], j.op = "publish", requests[j.request] # None,
         UNCHANGED store, AnswerRequest(c)
  PROVE  AnswerHolds(j, answer[c])'
  <1>1. TypeOK /\ j.request \in RequestId
        BY JobIs, PublishFields DEF IInv, TypeOK
  <1>2. PICK q : q = requests[j.request]
        OBVIOUS
  <1>3. Repeatable /\ Kept(q)
        BY <1>1, <1>2 DEF IInv, Records, Repeatable
  <1>4. CASE Answer(c, "error", None)
        BY <1>1, <1>4, Answered
  <1>5. CASE Answer(c, "committed", q.pointer) /\ SameRequest(q, j)
        <2>1. q.pointer.name = j.name /\ q.pointer.content = j.content /\ q.expected = j.expected
              BY <1>5 DEF SameRequest
        <2>2. snapshots'[j.name] = q.pointer
              BY <1>3, <2>1 DEF Kept, store
        <2>3. Grows
              BY DEF Grows, store
        <2>4. IF j.expected = None THEN q.pointer.number = 1
              ELSE \E n \in Published' : n[2] = j.expected /\ snapshots'[n].number = q.pointer.number - 1
              BY <1>3, <2>1, <2>3, FollowsStays DEF Kept
        <2>5. answer'[c] = [status |-> "committed", pointer |-> q.pointer]
              BY <1>1, <1>5, Answered
        <2> QED BY <2>1, <2>2, <2>4, <2>5, TellsCommitted
  <1> QED BY <1>2, <1>4, <1>5 DEF AnswerRequest

\* A step of a call tells it what the records say.
LEMMA StepTells ==
  ASSUME IInv, IInv', NEW c \in Caller, NEW j, j = job[c],
         \/ candidatePublish(c) \/ candidateMarkResult(c) \/ candidateRead(c)
         \/ ReadRequest(c) \/ ReadPointerToPublish(c) \/ StageFile(c)
         \/ Commit(c) \/ CommitRefused(c) \/ ReadRequestAgain(c) \/ ReadWinner(c)
         \/ ReadPointerToMark(c) \/ ReadPriorResult(c) \/ CommitResult(c) \/ ConfirmMark(c)
         \/ ReadPointerToRead(c) \/ ConfirmRead(c)
         \/ Fail(c)
  PROVE  answer'[c] # answer[c] => AnswerHolds(j, answer[c])'
  <1> SUFFICES ASSUME answer'[c] # answer[c] PROVE AnswerHolds(j, answer[c])'
      OBVIOUS
  <1>1. TypeOK /\ Records /\ Knows(c)
        BY DEF IInv
  <1>2. ASSUME NEW s \in {"none", "error", "conflict"}, NEW p, Answer(c, s, p)
        PROVE  AnswerHolds(j, answer[c])'
        BY <1>1, <1>2, Answered
  <1>3. ~\E l : GoTo(c, l)
        BY GoesOn
  <1>4. CASE candidatePublish(c) \/ candidateMarkResult(c) \/ candidateRead(c)
        <2>1. PICK k, l : Ask(c, k, l)
              BY <1>4 DEF candidatePublish, candidateMarkResult, candidateRead
        <2>2. answer'[c].status = "none"
              BY <1>1, <2>1 DEF TypeOK, CallTypes, Ask, NoAnswer
        <2> QED BY <2>2, TellsNothing
  <1>5. CASE ReadRequest(c) \/ ReadRequestAgain(c)
        <2>1. job[c].op = "publish"
              BY <1>1, <1>5, JobIs DEF Knows, Marking, ReadRequest, ReadRequestAgain, TypeOK
        <2>2. AnswerRequest(c) /\ requests[job[c].request] # None /\ UNCHANGED store
              BY <1>3, <1>5 DEF ReadRequest, ReadRequestAgain
        <2> QED BY <2>1, <2>2, RequestHolds
  <1>6. CASE \/ ReadPointerToPublish(c) \/ CommitRefused(c) \/ ReadWinner(c) \/ ReadPointerToMark(c)
             \/ ReadPriorResult(c) \/ CommitResult(c) \/ ReadPointerToRead(c) \/ Fail(c) \/ StageFile(c)
        <2>1. (\E p : Answer(c, "error", p)) \/ \E p : Answer(c, "conflict", p)
              BY <1>3, <1>6 DEF ReadPointerToPublish, CommitRefused, ReadWinner, ReadPointerToMark,
                                ReadPriorResult, CommitResult, ReadPointerToRead, Fail, StageFile
        <2> QED BY <1>2, <2>1
  <1>7. CASE Commit(c)
        <2>1. PICK p \in Pointers : p = seen[c]
              BY <1>1, <1>7, CommitIs
        <2>2. /\ snapshots'[j.name] = p /\ p.name = j.name /\ p.content = j.content
              /\ (Answer(c, "committed", p) \/ Answer(c, "error", None))
              <3>1. snapshots'[j.name] = p
                    BY <1>1, <1>7, <2>1, CommitGrows
              <3>2. p.name = j.name /\ p.content = j.content
                    BY <1>1, <1>7, <2>1, CommitIs DEF Commit, Publishes
              <3>3. Answer(c, "committed", p) \/ Answer(c, "error", None)
                    BY <1>7, <2>1 DEF Commit
              <3> QED BY <3>1, <3>2, <3>3
        <2>3. CASE Answer(c, "committed", p)
              <3>1. IF j.expected = None THEN p.number = 1
                    ELSE \E n \in Published' : n[2] = j.expected /\ snapshots'[n].number = p.number - 1
                    BY <1>1, <1>7, <2>1, CommitFollows
              <3>2. answer'[c] = [status |-> "committed", pointer |-> p]
                    BY <1>1, <2>3, Answered
              <3>3. snapshots'[j.name] = p /\ p.name = j.name /\ p.content = j.content
                    BY <2>2
              <3> QED BY <3>1, <3>2, <3>3, TellsCommitted
        <2> QED BY <1>2, <2>2, <2>3
  <1>8. CASE ConfirmMark(c)
        <2>1. CASE Answer(c, "marked", pointer) /\ IsCurrent(pointer, j.result) /\ pointer.result = j.result
              <3>1. job[c].op = "mark" /\ UNCHANGED store
                    BY <1>8 DEF ConfirmMark
              <3>2. pointer # None /\ pointer.result # None
                    BY <1>1, <2>1, <3>1, JobIs, ResultFields DEF TypeOK, IsCurrent
              <3>3. results[j.result.id] = j.result
                    BY <1>1, <2>1, <3>2 DEF Records, OneResult
              <3>4. results'[j.result.id] = j.result /\ pointer'.result = j.result
                    BY <2>1, <3>1, <3>3 DEF store
              <3>5. PICK p : answer'[c] = [status |-> "marked", pointer |-> p]
                    BY <1>1, <2>1, Answered
              <3> QED BY <3>4, <3>5, TellsMarked
        <2> QED BY <1>2, <1>8, <2>1 DEF ConfirmMark
  <1>9. CASE ConfirmRead(c)
        <2>1. CASE Answer(c, "read", pointer)
              <3>1. PICK p : p = pointer /\ answer'[c] = [status |-> "read", pointer |-> p]
                    BY <1>1, <2>1, Answered
              <3>2. pointer' = p
                    BY <1>9, <3>1 DEF ConfirmRead, store
              <3> QED BY <3>1, <3>2, TellsRead
        <2> QED BY <1>2, <1>3, <1>9, <2>1 DEF ConfirmRead
  <1> QED BY <1>4, <1>5, <1>6, <1>7, <1>8, <1>9

\* What candidatePublish, candidateMarkResult and candidateRead answer is so when they
\* answer it: a committed revision is in the records as asked, after the one it expected.
THEOREM CallersAreToldTheTruth == Spec => AnswersHold
  <1> DEFINE Told == \A c \in Caller : \A j \in {job[c]} :
                       answer'[c] # answer[c] => AnswerHolds(j, answer[c])'
  <1>1. IInv /\ IInv' /\ [Next]_vars => [Told]_vars
        <2> SUFFICES ASSUME IInv, IInv', Next, NEW v \in Caller, NEW j, j = job[v],
                            answer'[v] # answer[v]
                     PROVE  AnswerHolds(j, answer[v])'
            OBVIOUS
        <2>1. PICK c \in Caller :
                /\ Knows(c)' /\ \A u \in Caller : u # c => Same(u)
                /\ \A k : k = job[c] => (answer'[c] # answer[c] => AnswerHolds(k, answer[c])')
              BY StepIs, StepTells DEF Next, IInv
        <2>2. v = c
              BY <2>1 DEF Same
        <2> QED BY <2>1, <2>2
  <1> QED BY <1>1, InvariantHolds, InvariantStays, PTL DEF Spec, AnswersHold

(***************************************************************************)
(* One chain of revisions                                                  *)
(***************************************************************************)
Hows == {"first", "adopted", "superseding"}
How(p) ==
  IF p.source # None THEN "adopted" ELSE IF p.supersedes # None THEN "superseding" ELSE "first"
Outcome(r) == IF r = None THEN None ELSE [status |-> r.status, output |-> r.output]
Entry(p, r) == [name |-> p.name, content |-> p.content, how |-> How(p), result |-> Outcome(r)]
Entries == [name : Name, content : Content, how : Hows, result : Outcomes \union {None}]

\* The result recorded for the revision with a number, or None.
IsResultOf(r, k) ==
  \/ r \in Recorded /\ r.number = k
  \/ r = None /\ \A s \in Recorded : s.number # k

\* The chain, by the names of its revisions.
Described ==
  /\ Number(pointer) \in Nat
  /\ chain \in Seq(Entries) /\ Len(chain) = Number(pointer)
  /\ \A n \in Published : \A r :
       IsResultOf(r, snapshots[n].number) =>
         chain[snapshots[n].number] = Entry(snapshots[n], r)

LEMMA EntryTypes ==
  ASSUME NEW p \in Pointers, NEW r \in Results \union {None}
  PROVE  Entry(p, r) \in Entries
  <1>1. Outcome(r) \in Outcomes \union {None}
        <2>1. r # None => r \in Results
              OBVIOUS
        <2> QED BY <2>1, ResultFields DEF Outcome, Outcomes
  <1>2. p.name \in Name /\ p.content \in Content
        BY PointerFields
  <1>3. How(p) \in Hows
        BY DEF How, Hows
  <1> HIDE DEF Outcomes, Hows
  <1> QED BY <1>1, <1>2, <1>3 DEF Entry, Entries

LEMMA SnapshotOfIs ==
  ASSUME IInv, NEW n \in Published
  PROVE  SnapshotOf(snapshots[n].number) = snapshots[n]
  <1>1. PICK m : m = CHOOSE i \in Published : snapshots[i].number = snapshots[n].number
        OBVIOUS
  <1>2. m \in Published /\ snapshots[m].number = snapshots[n].number
        BY <1>1
  <1>3. \A i, j \in Published : snapshots[i].number = snapshots[j].number => i = j
        BY DEF IInv, Records, Numbered
  <1>4. m = n
        BY <1>2, <1>3
  <1> QED BY <1>1, <1>4 DEF SnapshotOf

LEMMA ResultOfIs ==
  ASSUME IInv, NEW p, NEW r, IsResultOf(r, p.number)
  PROVE  ResultOf(p) = r
  <1> DEFINE own == {s \in Recorded : s.number = p.number}
  <1>1. CASE r \in Recorded /\ r.number = p.number
        <2>1. \A s \in own : s = r
              <3>1. ASSUME NEW s \in own PROVE s = r
                    <4>1. s \in Recorded /\ s.number = r.number
                          BY <1>1
                    <4>2. PICK i, j \in ResultId : results[i] = s /\ results[j] = r
                          BY <1>1, <4>1 DEF Recorded
                    <4>3. s # None /\ r # None
                          BY <1>1, <4>1 DEF Recorded
                    <4>4. OneResult
                          BY DEF IInv, Records
                    <4> QED BY <4>1, <4>2, <4>3, <4>4 DEF OneResult
              <3> QED BY <3>1
        <2>2. own = {r}
              BY <1>1, <2>1
        <2> HIDE DEF own
        <2>3. (CHOOSE s \in own : TRUE) = r
              BY <2>2
        <2>4. own # {}
              BY <2>2
        <2> QED BY <2>3, <2>4 DEF ResultOf, own
  <1>2. CASE r = None /\ \A s \in Recorded : s.number # p.number
        <2>1. own = {}
              BY <1>2
        <2> QED BY <1>2, <2>1 DEF ResultOf
  <1> QED BY <1>1, <1>2 DEF IsResultOf

LEMMA ResultExists ==
  ASSUME StoreTypes, NEW k
  PROVE  \E r \in Results \union {None} : IsResultOf(r, k)
  <1>1. CASE \E r \in Recorded : r.number = k
        BY <1>1, RecordedIs DEF IsResultOf
  <1>2. CASE \A r \in Recorded : r.number # k
        BY <1>2 DEF IsResultOf
  <1> QED BY <1>1, <1>2

LEMMA ChainIs == IInv => Described
  <1> SUFFICES ASSUME IInv PROVE Described
      OBVIOUS
  <1> DEFINE N == Number(pointer)
  <1>1. N \in Nat /\ StoreTypes
        BY PointerFields DEF Number, IInv, TypeOK, StoreTypes
  <1>2. chain = [k \in 1..N |-> Entry(SnapshotOf(k), ResultOf(SnapshotOf(k)))]
        BY DEF chain, Entry, How, Outcome
  <1>3. ASSUME NEW n \in Published, NEW r, IsResultOf(r, snapshots[n].number)
        PROVE  snapshots[n].number \in 1..N /\ chain[snapshots[n].number] = Entry(snapshots[n], r)
        <2>1. snapshots[n].number \in 1..N
              <3>1. snapshots[n].number <= N
                    BY DEF IInv, Records, Numbered
              <3>2. snapshots[n].number \in Nat /\ snapshots[n].number > 0
                    BY <1>1, PublishedIs, PointerFields
              <3> QED BY <1>1, <3>1, <3>2
        <2>2. SnapshotOf(snapshots[n].number) = snapshots[n]
              BY SnapshotOfIs
        <2>3. ResultOf(snapshots[n]) = r
              BY <1>3, ResultOfIs
        <2> QED BY <1>2, <2>1, <2>2, <2>3
  <1>4. \A k \in 1..N : chain[k] \in Entries
        <2>1. ASSUME NEW k \in 1..N PROVE chain[k] \in Entries
              <3>1. PICK n \in Published : snapshots[n].number = k
                    BY DEF IInv, Records, Numbered
              <3>2. PICK r \in Results \union {None} : IsResultOf(r, k)
                    BY <1>1, ResultExists
              <3>3. chain[k] = Entry(snapshots[n], r)
                    BY <1>3, <3>1, <3>2
              <3>4. snapshots[n] \in Pointers
                    BY <1>1, PublishedIs
              <3> QED BY <3>3, <3>4, EntryTypes
        <2> QED BY <2>1
  <1>5. chain \in Seq(Entries) /\ Len(chain) = N
        <2> DEFINE e(k) == Entry(SnapshotOf(k), ResultOf(SnapshotOf(k)))
        <2>1. \A k \in 1..N : e(k) = chain[k]
              BY <1>2
        <2> HIDE DEF e, N, Entries
        <2>2. chain = [k \in 1..N |-> chain[k]]
              BY <1>2, <2>1 DEF e
        <2> QED BY <1>1, <1>4, <2>2
  <1> QED BY <1>1, <1>3, <1>5 DEF Described

LEMMA NextChainIs == IInv' => Described'
  BY ChainIs, PTL

\* Steps that leave the pointer, the snapshots and the results leave the chain.
LEMMA ChainStays ==
  ASSUME UNCHANGED <<pointer, snapshots, results>>
  PROVE  chain' = chain
  <1>1. Published' = Published /\ Recorded' = Recorded
        BY DEF Published, Recorded
  <1> QED BY <1>1 DEF chain, Number, SnapshotOf, ResultOf

\* What the latest entry says, and what no entry is named.
LEMMA LatestIs ==
  ASSUME IInv, pointer # None
  PROVE  /\ chain # <<>> /\ Len(chain) = pointer.number /\ Len(chain) \in Nat \ {0}
         /\ chain[Len(chain)] = Entry(snapshots[pointer.name], pointer.result)
         /\ pointer.result = None => \A s \in Recorded : s.number # pointer.number
  <1>1. /\ pointer \in Pointers /\ pointer.name \in Published
        /\ snapshots[pointer.name].number = pointer.number
        BY ActiveIs
  <1>2. Number(pointer) = pointer.number /\ pointer.number \in Nat /\ pointer.number > 0
        BY <1>1, PointerFields DEF Number
  <1>3. OneResult
        BY DEF IInv, Records
  <1>4. pointer.result = None => \A s \in Recorded : s.number # pointer.number
        BY <1>2, <1>3 DEF OneResult, Recorded
  <1>5. IsResultOf(pointer.result, pointer.number)
        <2>1. CASE pointer.result = None
              BY <1>4, <2>1 DEF IsResultOf
        <2>2. CASE pointer.result # None
              <3>1. pointer.result \in Results
                    BY <1>1, <2>2, PointerFields
              <3>2. results[pointer.result.id] = pointer.result /\ pointer.result.number = pointer.number
                    BY <1>3, <2>2 DEF OneResult
              <3>3. pointer.result \in Recorded
                    BY <2>2, <3>1, <3>2, ResultFields DEF Recorded
              <3> QED BY <3>2, <3>3 DEF IsResultOf
        <2> QED BY <2>1, <2>2
  <1>6. chain[pointer.number] = Entry(snapshots[pointer.name], pointer.result)
        BY <1>1, <1>5, ChainIs DEF Described
  <1>7. Len(chain) = pointer.number
        BY <1>2, ChainIs DEF Described
  <1>8. chain # <<>>
        <2>1. Len(<<>>) = 0
              OBVIOUS
        <2> QED BY <1>2, <1>7, <2>1
  <1> QED BY <1>2, <1>4, <1>6, <1>7, <1>8

LEMMA NewNameIsUnused ==
  ASSUME IInv, NEW n \in Name, n \notin Published
  PROVE  Chain!Unused(n)
  <1> SUFFICES ASSUME NEW k \in 1..Len(chain) PROVE chain[k].name # n
      BY DEF Chain!Unused
  <1>1. k \in 1..Number(pointer)
        BY ChainIs DEF Described
  <1>2. PICK m \in Published : snapshots[m].number = k
        BY <1>1 DEF IInv, Records, Numbered
  <1>3. PICK r \in Results \union {None} : IsResultOf(r, k)
        BY ResultExists DEF IInv, TypeOK
  <1>4. chain[k] = Entry(snapshots[m], r)
        BY <1>2, <1>3, ChainIs DEF Described
  <1>5. snapshots[m].name = m
        BY DEF IInv, Records, Numbered
  <1> QED BY <1>4, <1>5 DEF Entry

\* A commit adds one revision to the chain.
LEMMA CommitAppends ==
  ASSUME IInv, IInv', NEW c \in Caller, Commit(c)
  PROVE  /\ Entry(seen[c], None) \in Entries
         /\ chain' = Append(chain, Entry(seen[c], None))
  <1>0. PICK N, e, p : N = Number(pointer) /\ e = Entry(p, None) /\ p = seen[c]
        OBVIOUS
  <1>1. TypeOK /\ Records /\ Knows(c)
        BY DEF IInv
  <1>2. /\ p \in Pointers /\ pointer' = p /\ p.name = job[c].name
        /\ results' = results /\ p.number = N + 1 /\ p # None
        BY <1>0, <1>1, CommitIs, PointerFields
  <1>3. /\ Published' = Published \union {p.name} /\ snapshots'[p.name] = p
        /\ \A n \in Published : snapshots'[n] = snapshots[n]
        BY <1>0, <1>1, <1>2, CommitGrows
  <1>4. e \in Entries
        BY <1>0, <1>2, EntryTypes
  <1>5. Described /\ Described'
        BY ChainIs, NextChainIs
  <1>6. N \in Nat /\ Number(pointer)' = N + 1 /\ Recorded' = Recorded
        BY <1>0, <1>2, <1>5 DEF Number, Recorded, Described
  <1>7. \A r, k : IsResultOf(r, k)' <=> IsResultOf(r, k)
        BY <1>6 DEF IsResultOf
  <1>8. chain \in Seq(Entries) /\ Len(chain) = N /\ chain' \in Seq(Entries) /\ Len(chain') = N + 1
        BY <1>0, <1>5, <1>6 DEF Described
  <1>9. ASSUME NEW k \in 1..N PROVE chain'[k] = chain[k]
        <2>1. PICK n \in Published : snapshots[n].number = k
              BY <1>0, <1>1 DEF Records, Numbered
        <2>2. PICK r \in Results \union {None} : IsResultOf(r, k)
              BY <1>1, ResultExists DEF TypeOK
        <2>3. chain[k] = Entry(snapshots[n], r)
              BY <1>5, <2>1, <2>2 DEF Described
        <2>4. n \in Published' /\ snapshots'[n] = snapshots[n] /\ IsResultOf(r, k)'
              BY <1>3, <1>7, <2>2
        <2>5. chain'[k] = Entry(snapshots'[n], r)
              BY <1>5, <2>1, <2>4 DEF Described, IsResultOf
        <2> QED BY <2>3, <2>4, <2>5
  <1>10. chain'[N + 1] = e
        <2>1. \A s \in Recorded : s.number # N + 1
              <3>1. \A i \in ResultId : results[i] # None => results[i].number \in 1..N
                    BY <1>0, <1>1 DEF Records, OneResult
              <3>2. N + 1 \notin 1..N
                    BY <1>6
              <3> QED BY <3>1, <3>2 DEF Recorded
        <2>2. IsResultOf(None, N + 1)'
              BY <1>6, <2>1 DEF IsResultOf
        <2>3. p.name \in Published' /\ snapshots'[p.name].number = N + 1
              BY <1>2, <1>3
        <2> QED BY <1>0, <1>2, <1>3, <1>5, <2>2, <2>3 DEF Described, IsResultOf
  <1>11. /\ Append(chain, e) \in Seq(Entries) /\ Len(Append(chain, e)) = N + 1
         /\ \A k \in 1..N : Append(chain, e)[k] = chain[k]
         /\ Append(chain, e)[N + 1] = e
        <2> HIDE DEF Entries
        <2> QED BY <1>4, <1>8, AppendProperties
  <1>12. \A k \in 1..(N + 1) : chain'[k] = Append(chain, e)[k]
        <2>1. \A k \in 1..(N + 1) : k \in 1..N \/ k = N + 1
              BY <1>6
        <2> QED BY <1>9, <1>10, <1>11, <2>1
  <1>13. chain' = Append(chain, e)
        <2> HIDE DEF Entries
        <2> QED BY <1>8, <1>11, <1>12, SeqEqual
  <1> QED BY <1>0, <1>4, <1>13

LEMMA CommitRefines ==
  ASSUME IInv, IInv', NEW c \in Caller, Commit(c)
  PROVE  Chain!Next
  <1> DEFINE p == seen[c]
             j == job[c]
             e == Entry(p, None)
  <1>1. TypeOK /\ Records /\ Knows(c)
        BY DEF IInv
  <1>2. /\ j \in PublishJobs /\ p \in Pointers /\ p.name = j.name /\ j.name \notin Published
        /\ IF j.expected = None THEN pointer = None
           ELSE pointer \in Pointers /\ pointer # None /\ pointer.name[2] = j.expected
        BY <1>1, CommitIs, PointerFields
  <1>3. /\ j.name \in Name /\ j.content \in Content
        /\ p.content = j.content /\ p.source = j.permit
        /\ p.supersedes # None <=> j.supersede # None
        /\ j.permit # None =>
             /\ j.permit.status = "completed" /\ j.permit.output = j.content
             /\ pointer.result = j.permit
        /\ IF j.expected = None THEN j.permit = None /\ j.supersede = None
           ELSE (j.permit # None /\ j.supersede = None) \/ (j.permit = None /\ j.supersede # None)
        <2>1. Publishes(c) /\ pc[c] = "commit"
              BY <1>1, CommitIs DEF Commit
        <2>2. commitAllowed(pointer, j, p)
              BY DEF Commit, CommitsTo
        <2>3. j.permit # None => j.expected # None /\ j.supersede = None
              BY <2>1 DEF Publishes
        <2>4. j.permit # None => pointer.result = j.permit
              BY <2>2, <2>3 DEF commitAllowed
        <2> QED BY <1>2, <2>1, <2>4, PublishFields DEF Publishes
  <1>4. e \in Entries /\ chain' = Append(chain, e)
        BY CommitAppends
  <1>5. e = Chain!Revision(j.name, j.content, How(p))
        BY <1>2, <1>3 DEF Entry, Outcome, Chain!Revision
  <1>6. Chain!Unused(j.name)
        BY <1>2, <1>3, NewNameIsUnused
  <1>7. CASE j.expected = None
        <2>1. How(p) = "first"
              BY <1>3, <1>7 DEF How
        <2>2. chain = <<>>
              <3>1. Number(pointer) = 0
                    BY <1>2, <1>7 DEF Number
              <3>2. chain \in Seq(Entries) /\ Len(chain) = 0
                    BY <3>1, ChainIs DEF Described
              <3> HIDE DEF Entries
              <3> QED BY <3>2, EmptySeq
        <2>3. chain' = <<e>>
              BY <1>4, <2>2
        <2> QED BY <1>3, <1>5, <2>1, <2>2, <2>3 DEF Chain!Next, Chain!Begin
  <1>8. CASE j.expected # None /\ j.permit # None
        <2>1. How(p) = "adopted"
              BY <1>3, <1>8 DEF How
        <2>2. j.permit \in Results /\ j.permit # None
              BY <1>2, <1>8, PublishFields
        <2>3. chain # <<>> /\ Chain!Latest = Entry(snapshots[pointer.name], j.permit)
              BY <1>2, <1>3, <1>8, LatestIs DEF Chain!Latest
        <2>4. Chain!Latest.result = [status |-> j.permit.status, output |-> j.permit.output]
              BY <2>2, <2>3 DEF Entry, Outcome
        <2>5. Chain!Latest.result \in Outcomes
              BY <2>2, <2>4, ResultFields DEF Outcomes
        <2>6. Chain!Latest.result # None
              BY <2>5, ConstantsAssumption
        <2>7. Chain!Latest.result.status = "completed" /\ Chain!Latest.result.output = j.content
              BY <1>3, <1>8, <2>4
        <2>8. chain' = Append(chain, Chain!Revision(j.name, Chain!Latest.result.output, "adopted"))
              BY <1>4, <1>5, <2>1, <2>7
        <2>9. Chain!Adopt
              BY <1>3, <1>6, <2>3, <2>6, <2>7, <2>8 DEF Chain!Adopt
        <2> QED BY <2>9 DEF Chain!Next
  <1>9. CASE j.expected # None /\ j.permit = None
        <2>1. How(p) = "superseding"
              BY <1>3, <1>9 DEF How
        <2>2. chain # <<>>
              BY <1>2, <1>9, LatestIs
        <2>3. Chain!Supersede
              BY <1>3, <1>4, <1>5, <1>6, <2>1, <2>2 DEF Chain!Supersede
        <2> QED BY <2>3 DEF Chain!Next
  <1> QED BY <1>7, <1>8, <1>9

\* A recorded result becomes that of the last revision.
LEMMA CommitResultRefines ==
  ASSUME IInv, IInv', NEW c \in Caller, CommitResult(c)
  PROVE  Chain!Next \/ UNCHANGED chain
  <1>1. TypeOK /\ Records /\ Knows(c)
        BY DEF IInv
  <1>2. CASE UNCHANGED <<results, pointer>>
        BY <1>1, <1>2, CommitResultIs, ChainStays
  <1>3. CASE ~UNCHANGED <<results, pointer>>
        <2>1. PICK r \in Results : r = job[c].result
              BY <1>1, CommitResultIs
        <2>2. /\ pointer \in Pointers /\ pointer.result = None /\ snapshots' = snapshots
              /\ IsCurrent(pointer, r) /\ results[r.id] = None
              /\ results' = [results EXCEPT ![r.id] = r]
              /\ pointer' = [pointer EXCEPT !.result = r]
              BY <1>1, <1>3, <2>1, CommitResultIs
        <2>3. PICK N, o : N = pointer.number /\ o = [status |-> r.status, output |-> r.output]
              OBVIOUS
        <2>4. /\ pointer # None /\ pointer' # None /\ pointer'.number = N /\ pointer'.result = r
              /\ pointer'.name = pointer.name /\ r # None /\ r.number = N /\ r.id \in ResultId
              <3>1. pointer' \in Pointers
                    BY <2>2 DEF Pointers
              <3>2. pointer'.number = N /\ pointer'.result = r /\ pointer'.name = pointer.name
                    BY <2>2, <2>3 DEF Pointers
              <3> QED BY <2>2, <2>3, <3>1, <3>2, PointerFields, ResultFields DEF IsCurrent
        <2>5. /\ chain # <<>> /\ Len(chain) = N /\ N \in Nat \ {0}
              /\ chain[N] = Entry(snapshots[pointer.name], None)
              /\ \A s \in Recorded : s.number # N
              BY <2>2, <2>3, <2>4, LatestIs
        <2>6. Recorded' = Recorded \union {r}
              <3>1. results'[r.id] = r /\ \A i \in ResultId : i # r.id => results'[i] = results[i]
                    BY <1>1, <2>2, <2>4 DEF TypeOK, StoreTypes
              <3> QED BY <2>2, <2>4, <3>1 DEF Recorded
        <2>7. Described /\ Described' /\ Number(pointer) = N /\ Number(pointer)' = N
              BY <2>3, <2>4, ChainIs, NextChainIs DEF Number
        <2>8. Published' = Published
              BY <2>2 DEF Published
        <2>9. PICK y : y = Entry(snapshots[pointer.name], r)
              OBVIOUS
        <2>10. chain'[N] = y
              <3>1. PICK n \in Published : n = pointer.name /\ snapshots[n].number = N
                    BY <2>3, <2>4, ActiveIs
              <3>2. IsResultOf(r, N)'
                    BY <2>4, <2>6 DEF IsResultOf
              <3> QED BY <2>2, <2>7, <2>8, <2>9, <3>1, <3>2 DEF Described, IsResultOf
        <2>11. ASSUME NEW k \in 1..N, k # N PROVE chain'[k] = chain[k]
              <3>1. PICK n \in Published : snapshots[n].number = k
                    BY <1>1, <2>7 DEF Records, Numbered
              <3>2. PICK s \in Results \union {None} : IsResultOf(s, k)
                    BY <1>1, ResultExists DEF TypeOK
              <3>3. IsResultOf(s, k)'
                    BY <2>4, <2>6, <2>11, <3>2 DEF IsResultOf
              <3>4. chain[k] = Entry(snapshots[n], s)
                    BY <2>7, <3>1, <3>2 DEF Described
              <3>5. chain'[k] = Entry(snapshots[n], s)
                    BY <2>2, <2>7, <2>8, <3>1, <3>3 DEF Described, IsResultOf
              <3> QED BY <3>4, <3>5
        <2>12. o \in Outcomes /\ y \in Entries
              BY <2>2, <2>3, <2>4, <2>9, ResultFields, ActiveIs, EntryTypes DEF Outcomes
        <2>13. y = [chain[N] EXCEPT !.result = o] /\ chain[N].result = None
              BY <2>3, <2>4, <2>5, <2>9 DEF Entry, Outcome
        <2>14. chain \in Seq(Entries) /\ chain' \in Seq(Entries) /\ Len(chain') = N
              BY <2>7 DEF Described
        <2>15. /\ [chain EXCEPT ![N] = y] \in Seq(Entries) /\ Len([chain EXCEPT ![N] = y]) = N
               /\ \A k \in 1..N : [chain EXCEPT ![N] = y][k] = IF k = N THEN y ELSE chain[k]
              <3>1. N \in 1..Len(chain)
                    BY <2>5
              <3> HIDE DEF Entries
              <3> QED BY <2>5, <2>12, <2>14, <3>1, ExceptSeq
        <2>16. chain' = [chain EXCEPT ![N] = y]
              <3>1. \A k \in 1..N : chain'[k] = [chain EXCEPT ![N] = y][k]
                    BY <2>10, <2>11, <2>15
              <3> HIDE DEF Entries
              <3> QED BY <2>14, <2>15, <3>1, SeqEqual
        <2>17. chain' = [chain EXCEPT ![N].result = o]
              BY <2>13, <2>16
        <2>18. Chain!Accept
              BY <2>5, <2>12, <2>13, <2>17 DEF Chain!Accept, Chain!Latest
        <2> QED BY <2>18 DEF Chain!Next
  <1> QED BY <1>2, <1>3

\* The records of candidatePostgres.ts hold one chain of revisions (RevisionChain):
\* candidatePublish appends to it, under a name it has not used, the output of the
\* accepted result or a revision that supersedes the last, and candidateMarkResult
\* accepts at most one result for the last revision; no other step changes it.
THEOREM OneChainOfRevisions == Spec => ImplementsChain
  <1>1. Init => Chain!Init
        <2> SUFFICES ASSUME Init PROVE chain = <<>>
            BY DEF Chain!Init
        <2>1. Number(pointer) = 0
              BY DEF Init, Number
        <2>2. chain \in Seq(Entries) /\ Len(chain) = 0
              BY <2>1, Initially, ChainIs DEF Described
        <2> HIDE DEF Entries
        <2> QED BY <2>2, EmptySeq
  <1>2. IInv /\ IInv' /\ [Next]_vars => [Chain!Next]_chain
        <2> SUFFICES ASSUME IInv, IInv', [Next]_vars PROVE Chain!Next \/ UNCHANGED chain
            OBVIOUS
        <2>1. CASE UNCHANGED vars
              BY <2>1, ChainStays DEF vars, store
        <2>2. ASSUME NEW c \in Caller, Commit(c)
              PROVE  Chain!Next \/ UNCHANGED chain
              BY <2>2, CommitRefines
        <2>3. ASSUME NEW c \in Caller, CommitResult(c)
              PROVE  Chain!Next \/ UNCHANGED chain
              BY <2>3, CommitResultRefines
        <2>4. ASSUME NEW c \in Caller,
                     \/ candidatePublish(c) \/ candidateMarkResult(c) \/ candidateRead(c)
                     \/ ReadRequest(c) \/ ReadPointerToPublish(c) \/ StageFile(c)
                     \/ CommitRefused(c) \/ ReadRequestAgain(c) \/ ReadWinner(c)
                     \/ ReadPointerToMark(c) \/ ReadPriorResult(c) \/ ConfirmMark(c)
                     \/ ReadPointerToRead(c) \/ ConfirmRead(c) \/ Fail(c)
              PROVE  UNCHANGED chain
              <3>1. TypeOK /\ OneResult /\ Knows(c)
                    BY DEF IInv, Records
              <3>2. CASE candidatePublish(c) \/ candidateMarkResult(c) \/ candidateRead(c)
                    BY <3>1, <3>2, AskKnows, ChainStays DEF store
              <3>3. CASE \/ ReadRequest(c) \/ ReadPointerToPublish(c) \/ CommitRefused(c)
                         \/ ReadRequestAgain(c) \/ ReadWinner(c)
                    BY <3>1, <3>3, PublishReadKnows, ChainStays DEF store
              <3>4. CASE \/ ReadPointerToMark(c) \/ ReadPriorResult(c) \/ ConfirmMark(c)
                         \/ ReadPointerToRead(c) \/ ConfirmRead(c) \/ Fail(c)
                    BY <3>1, <3>4, OtherReadKnows, ChainStays DEF store
              <3>5. CASE StageFile(c)
                    BY <3>1, <3>5, StageFileIs, ChainStays
              <3> QED BY <2>4, <3>2, <3>3, <3>4, <3>5
        <2> QED BY <2>1, <2>2, <2>3, <2>4 DEF Next
  <1> QED BY <1>1, <1>2, InvariantHolds, InvariantStays, PTL DEF Spec, ImplementsChain, Chain!Spec

=============================================================================
