---------------------------- MODULE Registration ----------------------------
(***************************************************************************)
(* Self registration and access requests (mdm/layer_3_usecases/            *)
(* selfRegistration.ts, registrationRequests.ts), logins and their cache   *)
(* (identityUsecases.ts).  A registration and a decision run under a lock  *)
(* on the e-mail and in one transaction; setLogin and the look-up of a     *)
(* session hold no lock.  PostgreSQL shows what a transaction wrote when it*)
(* commits and forgets it when it fails; the memory runtime shows and keeps*)
(* every write at once, and the steps are made to be resumed.              *)
(*                                                                         *)
(* The tables are a set of rows.  Names, roles, dates and the completeness *)
(* of a person are left out; a request's version is 1 while it is pending  *)
(* and 2 once it is resolved.  The companies exist from boot.  The cache is*)
(* Redis, or that of the only process.                                     *)
(***************************************************************************)
EXTENDS Naturals, FiniteSets

CONSTANTS
  Email, Org, None,
  Known,      \* persons of before
  New,        \* ids that newId may return
  Caller,     \* calls in flight
  MaxCalls,   \* bound: calls
  MaxFaults,  \* bound: steps that throw
  MaxContacts \* bound: changes of contact channels

ASSUME RegistrationAssumption ==
  /\ Known \intersect New = {} /\ None \notin Known \union New \union Email \union Caller
  /\ {MaxCalls, MaxFaults, MaxContacts} \subseteq Nat

Person == Known \union New

VARIABLES
  atomic,    \* the runtime: PostgreSQL, or memory
  db,        \* the rows committed
  staged,    \* of each call: the rows its transaction deletes and inserts
  lock,      \* the call that holds the lock of an e-mail
  cache,     \* e-mail -> person
  contact,   \* persons that have a contact channel with an e-mail
  at, call,  \* where each call is, and what it asks for
  who,       \* the person it is about
  previous,  \* the logins of that person it has read
  taken,     \* the persons with the login it asks for it has read
  calls, faults, contacts,
  decided,   \* history: decisions that were answered, with their person
  raced,     \* history: setLogin wrote after what it had read changed
  outdated   \* history: e-mails whose cache entry may come from an old read

tables  == <<db, staged>>
reads   == <<previous, taken>>
machine == <<atomic, calls, faults, contacts>>
history == <<decided, raced, outdated>>
registrationVars == <<tables, lock, cache, contact, at, call, who, reads, machine, history>>

Login(p, e)    == <<"login", p, e>>
Reserved(e, p) == <<"reserved", e, p>>
Created(p, e)  == <<"person", p, e>>      \* e-mail of the registration that created it, or None
Member(p, o)   == <<"member", p, o>>
AccessRequest(o, e, r) == <<"request", o, e, r>>

\* A request holds its status, the person reserved for it, the persons that may
\* be the caller's, and what was decided, if somebody decided.
Pending(reserved, candidates) ==
  [status |-> "pending", reserved |-> reserved, candidates |-> candidates, decision |-> "none",
   person |-> None]

NoCall == [kind |-> "none", email |-> None, org |-> None, decision |-> "none", person |-> None]

NoWrites == [del |-> {}, add |-> {}]

RegistrationInit ==
  /\ atomic \in BOOLEAN
  /\ db = {Created(p, None) : p \in Known}
  /\ staged = [c \in Caller |-> NoWrites]
  /\ lock = [e \in Email |-> None] /\ cache = [e \in Email |-> None]
  /\ contact = {}
  /\ at = [c \in Caller |-> "idle"] /\ call = [c \in Caller |-> NoCall]
  /\ who = [c \in Caller |-> None] /\ previous = [c \in Caller |-> {}] /\ taken = [c \in Caller |-> {}]
  /\ calls = 0 /\ faults = 0 /\ contacts = 0
  /\ decided = {} /\ raced = FALSE /\ outdated = {}

(***************************************************************************)
(* Transactions                                                            *)
(***************************************************************************)
\* A transaction reads what is committed and what it wrote itself.
See(c) == (db \ staged[c].del) \union staged[c].add

Write(c, del, add) ==
  IF atomic
  THEN /\ staged' = [staged EXCEPT ![c] = [del |-> (@.del \ add) \union del, add |-> (@.add \ del) \union add]]
       /\ UNCHANGED db
  ELSE db' = (db \ del) \union add /\ UNCHANGED staged

Goto(c, l) == at' = [at EXCEPT ![c] = l]
Forget(c) == previous' = [previous EXCEPT ![c] = {}] /\ taken' = [taken EXCEPT ![c] = {}]

LoginsOf(e, rows) == {p \in Person : Login(p, e) \in rows}
EmailsOf(p, rows) == {e \in Email : Login(p, e) \in rows}
RequestsOf(o, e, rows) == {x[4] : x \in {y \in rows : y[1] = "request" /\ y[2] = o /\ y[3] = e}}
Exists(p, rows) == \E e \in Email \union {None} : Created(p, e) \in rows

\* newId returns an id nobody has.
Unused(p) ==
  /\ p \in New
  /\ \A x \in db \union (UNION {staged[c].add : c \in Caller}) :
       /\ x[2] # p /\ x[3] # p
       /\ x[1] = "request" => x[4].reserved # p

\* Logins that change while another call holds what it read of them, to put it
\* into the cache.
Overtaken(c, rows) ==
  {e \in Email : LoginsOf(e, rows) # LoginsOf(e, db) /\ \E d \in Caller \ {c} :
     \/ at[d] = "fill" /\ call[d].email = e
     \/ at[d] = "cache" /\ e \in previous[d] \union {call[d].email}}

(***************************************************************************)
(* Calls                                                                   *)
(***************************************************************************)
Begin(c, k) ==
  /\ at[c] = "idle" /\ call[c].kind = "none" /\ calls < MaxCalls
  /\ calls' = calls + 1
  /\ call' = [call EXCEPT ![c] = k]
  /\ Goto(c, IF k.kind \in {"register", "resolve"} THEN "lock"
             ELSE IF k.kind = "setLogin" THEN "taken" ELSE "read")
  /\ who' = [who EXCEPT ![c] = IF k.kind = "setLogin" THEN k.person ELSE None]
  /\ UNCHANGED <<tables, lock, cache, contact, reads, atomic, faults, contacts, history>>

ensureSelfRegistration(c, e, o) ==
  Begin(c, [NoCall EXCEPT !.kind = "register", !.email = e, !.org = o])

\* The request is read before the lock is taken; a candidate's token names the
\* person it was made for.
resolveAccessRequest(c, e, o) ==
  \E r \in RequestsOf(o, e, db), p \in Person \union {None} :
    /\ p = None \/ p \in r.candidates
    /\ Begin(c, [NoCall EXCEPT !.kind = "resolve", !.email = e, !.org = o, !.person = p,
                               !.decision = IF p = None THEN "create-new" ELSE "use-existing"])

setLogin(c, p, e) ==
  Exists(p, db) /\ Begin(c, [NoCall EXCEPT !.kind = "setLogin", !.email = e, !.person = p])

lookupLogin(c, e) == Begin(c, [NoCall EXCEPT !.kind = "lookup", !.email = e])

\* withRegistrationTransaction
TakeLock(c) ==
  /\ at[c] = "lock" /\ lock[call[c].email] = None
  /\ lock' = [lock EXCEPT ![call[c].email] = c]
  /\ Goto(c, IF call[c].kind = "register" THEN "find" ELSE "decide")
  /\ UNCHANGED <<tables, cache, contact, call, who, reads, machine, history>>

Unlock(c) == lock' = [e \in Email |-> IF lock[e] = c THEN None ELSE lock[e]]

\* A call that throws: PostgreSQL rolls its transaction back.  A registration
\* is repeated by its caller.
Fail(c) ==
  /\ staged' = [staged EXCEPT ![c] = NoWrites]
  /\ Unlock(c)
  /\ who' = [who EXCEPT ![c] = None] /\ Forget(c)
  /\ Goto(c, IF call[c].kind = "register" THEN "lock" ELSE "idle")
  /\ call' = [call EXCEPT ![c] = IF @.kind = "register" THEN @ ELSE NoCall]
  /\ UNCHANGED <<db, cache, contact>>

Fault(c) ==
  /\ at[c] \notin {"idle", "lock"} /\ faults < MaxFaults
  /\ faults' = faults + 1
  /\ Fail(c)
  /\ outdated' = IF at[c] = "cache" THEN outdated \union previous[c] \union {call[c].email} ELSE outdated
  /\ UNCHANGED <<atomic, calls, contacts, decided, raced>>

Refuse(c) == Fail(c) /\ UNCHANGED <<machine, history>>

\* A step of a transaction that writes rows and goes on.
Step(c, del, add, l) ==
  /\ Write(c, del, add) /\ Goto(c, l)
  /\ UNCHANGED <<lock, cache, contact, call, reads, machine, history>>

(***************************************************************************)
(* ensureSelfRegistration                                                  *)
(***************************************************************************)
personByLogin(c) ==
  /\ at[c] = "find"
  /\ LET found == LoginsOf(call[c].email, See(c))
     IN \/ /\ found # {}
           /\ \E p \in found : who' = [who EXCEPT ![c] = p]
           /\ Step(c, {}, {}, "attach")
        \/ /\ found = {} /\ UNCHANGED who
           /\ Step(c, {}, {}, "candidates")

Candidates(e) == {p \in Person : <<p, e>> \in contact}

\* A person that may be the caller's is for the organization to decide: the
\* request that is there is kept, otherwise one is opened, with its index, which
\* nobody reads without the lock of the e-mail.
openOrRecoverAccessRequest(c) ==
  /\ at[c] = "candidates" /\ UNCHANGED who
  /\ LET e == call[c].email
         o == call[c].org
     IN \/ Candidates(e) = {} /\ Step(c, {}, {}, "reserve")
        \/ Candidates(e) # {} /\ RequestsOf(o, e, See(c)) # {} /\ Step(c, {}, {}, "commit")
        \/ /\ Candidates(e) # {} /\ RequestsOf(o, e, See(c)) = {}
           /\ \E p \in New : Unused(p) /\
                Step(c, {}, {AccessRequest(o, e, Pending(p, Candidates(e)))}, "commit")

\* A faulty variant: an attempt does not find what an earlier one reserved.
ReservationsForgotten(e, rows) == {}

ReservationsOf(e, rows) == {p \in Person : Reserved(e, p) \in rows}

\* The e-mail keeps the person reserved for it.
reserveLoginPerson(c) ==
  /\ at[c] = "reserve"
  /\ LET e == call[c].email
         reserved == ReservationsOf(e, See(c))
     IN \/ \E p \in reserved : /\ who[c] \in {None, p}
                              /\ who' = [who EXCEPT ![c] = p]
                              /\ Step(c, {}, {}, "draft")
        \/ /\ reserved # {} /\ who[c] \notin reserved \union {None}
           /\ Refuse(c)
        \/ /\ reserved = {}
           /\ \E p \in Person :
                /\ IF who[c] = None THEN Unused(p) ELSE p = who[c]
                /\ who' = [who EXCEPT ![c] = p]
                /\ Step(c, {}, {Reserved(e, p)}, "draft")

ensureDraftPerson(c) ==
  /\ at[c] = "draft" /\ UNCHANGED who
  /\ Step(c, {}, IF Exists(who[c], See(c)) THEN {} ELSE {Created(who[c], call[c].email)}, "taken")

(***************************************************************************)
(* setLogin: what it reads, and later its transaction                      *)
(***************************************************************************)
FindLogins(c) ==
  /\ previous' = [previous EXCEPT ![c] = EmailsOf(who[c], See(c))]
  /\ taken' = [taken EXCEPT ![c] = LoginsOf(call[c].email, See(c))]

\* A faulty variant: setLogin does not ask whose login the e-mail is.
CheckNothing(c) ==
  /\ at[c] = "taken"
  /\ FindLogins(c)
  /\ Goto(c, "write")
  /\ UNCHANGED <<tables, lock, cache, contact, call, who, machine, history>>

CheckTaken(c) ==
  /\ at[c] = "taken"
  /\ LET e == call[c].email
     IN \/ LoginsOf(e, See(c)) \ {who[c]} # {} /\ Refuse(c)
        \/ /\ LoginsOf(e, See(c)) \subseteq {who[c]}
           /\ FindLogins(c)
           /\ Goto(c, "write")
           /\ UNCHANGED <<tables, lock, cache, contact, call, who, machine, history>>

\* PostgreSQL makes a write wait for the transaction that wrote the same login
\* or e-mail, and refuses a second person for one e-mail and a second row.
Waits(c) ==
  \E d \in Caller \ {c}, e \in previous[c] \union {call[c].email} :
    \E p \in Person : Login(p, e) \in staged[d].del \union staged[d].add

WriteLogin(c) ==
  /\ at[c] = "write" /\ ~Waits(c)
  /\ LET e    == call[c].email
         rows == See(c)
         del  == {Login(who[c], q) : q \in previous[c] \ {e}}
         add  == IF e \in previous[c] THEN {} ELSE {Login(who[c], e)}
     IN \/ atomic /\ add # {} /\ LoginsOf(e, rows) # {} /\ Refuse(c)
        \/ /\ ~(atomic /\ add # {} /\ LoginsOf(e, rows) # {})
           /\ raced' = (raced \/ EmailsOf(who[c], rows) # previous[c]
                              \/ LoginsOf(e, rows) # taken[c]
                              \/ \E d \in Caller \ {c}, q \in Email :
                                   Login(who[c], q) \in staged[d].del \union staged[d].add)
           /\ IF call[c].kind = "setLogin"
              THEN /\ db' = (db \ del) \union add /\ UNCHANGED staged
                   /\ outdated' = outdated \union Overtaken(c, db')
                   /\ Goto(c, "cache")
              ELSE /\ Write(c, del, add)
                   /\ outdated' = outdated \union Overtaken(c, db') \union (previous[c] \ {e})
                   /\ Goto(c, "attach")
           /\ UNCHANGED <<lock, cache, contact, call, who, reads, machine, decided>>

\* A faulty variant: the entries of the logins that were replaced stay.
writeNewEntryOnly(c) ==
  /\ at[c] = "cache"
  /\ cache' = [cache EXCEPT ![call[c].email] = who[c]]
  /\ Goto(c, "idle")
  /\ call' = [call EXCEPT ![c] = NoCall]
  /\ who' = [who EXCEPT ![c] = None] /\ Forget(c)
  /\ UNCHANGED <<tables, lock, contact, machine, history>>

\* A setLogin of its own writes the shared cache; that of a registration writes
\* the private cache of its transaction.
writeIdentityCache(c) ==
  /\ at[c] = "cache"
  /\ cache' = [e \in Email |-> IF e = call[c].email THEN who[c]
                               ELSE IF e \in previous[c] THEN None ELSE cache[e]]
  /\ Goto(c, "idle")
  /\ call' = [call EXCEPT ![c] = NoCall]
  /\ who' = [who EXCEPT ![c] = None] /\ Forget(c)
  /\ UNCHANGED <<tables, lock, contact, machine, history>>

(***************************************************************************)
(* The rest of a registration and of a decision                            *)
(***************************************************************************)
attachPersonMembership(c) ==
  /\ at[c] = "attach" /\ UNCHANGED who
  /\ Step(c, {}, {Member(who[c], call[c].org)}, IF call[c].kind = "register" THEN "reconcile" ELSE "mark")

Resolved(c, r, decision) ==
  [r EXCEPT !.status = "resolved", !.decision = decision, !.person = who[c]]

Replace(c, r, n, l) ==
  LET o == call[c].org
      e == call[c].email
  IN Step(c, {AccessRequest(o, e, r)}, {AccessRequest(o, e, n)}, l)

\* A request that is still open is closed by the login it was opened for.
reconcileAccessRequest(c) ==
  /\ at[c] = "reconcile" /\ UNCHANGED who
  /\ LET open == {r \in RequestsOf(call[c].org, call[c].email, See(c)) : r.status = "pending"}
     IN \/ open = {} /\ Step(c, {}, {}, "commit")
        \/ \E r \in open : Replace(c, r, Resolved(c, r, "none"), "commit")

\* A faulty variant: a decision that is repeated is the same whatever it decides.
sameWhateverDecided(r, k) == r.status = "resolved"

sameResolvedDecision(r, k) ==
  /\ r.status = "resolved" /\ r.decision = k.decision
  /\ k.decision = "create-new" \/ r.person = k.person

decidedPerson(r, k) == IF k.decision = "create-new" THEN r.reserved ELSE k.person

\* The decision may be made: nobody decided before, the candidate still has
\* the contact, and the e-mail is not the login of somebody else.
MayDecide(c, r) ==
  /\ r.status = "pending"
  /\ call[c].decision = "use-existing" => call[c].person \in r.candidates \intersect Candidates(call[c].email)
  /\ LoginsOf(call[c].email, See(c)) \subseteq {decidedPerson(r, call[c])}

Decide(c) ==
  /\ at[c] = "decide"
  /\ \E r \in RequestsOf(call[c].org, call[c].email, See(c)) :
       LET again == sameResolvedDecision(r, call[c]) /\ r.person \in LoginsOf(call[c].email, See(c))
       IN \/ /\ again
             /\ who' = [who EXCEPT ![c] = r.person]
             /\ Step(c, {}, {}, "commit")
          \/ /\ ~again /\ MayDecide(c, r)
             /\ who' = [who EXCEPT ![c] = decidedPerson(r, call[c])]
             /\ Step(c, {}, {}, IF call[c].decision = "create-new" THEN "reserve" ELSE "taken")
          \/ ~again /\ ~MayDecide(c, r) /\ Refuse(c)

\* The check that the login names the person is answered by the private cache,
\* which the transaction's own setLogin filled.
markResolved(c) ==
  /\ at[c] = "mark" /\ UNCHANGED who
  /\ \E r \in RequestsOf(call[c].org, call[c].email, See(c)) :
       Replace(c, r, Resolved(c, r, call[c].decision), "commit")

Commit(c) ==
  /\ at[c] = "commit"
  /\ db' = See(c)
  /\ staged' = [staged EXCEPT ![c] = NoWrites]
  /\ Unlock(c)
  /\ Goto(c, "answer")
  /\ outdated' = outdated \union Overtaken(c, db')
  /\ UNCHANGED <<cache, contact, call, who, reads, machine, decided, raced>>

\* The entry of the e-mail is dropped after the commit.
Answer(c) ==
  /\ at[c] = "answer"
  /\ cache' = [cache EXCEPT ![call[c].email] = None]
  /\ decided' = IF call[c].kind = "resolve"
                THEN decided \union {<<call[c].org, call[c].email, call[c].decision, who[c]>>}
                ELSE decided
  /\ Goto(c, "idle")
  /\ call' = [call EXCEPT ![c] = NoCall]
  /\ who' = [who EXCEPT ![c] = None] /\ Forget(c)
  /\ UNCHANGED <<tables, lock, contact, machine, raced, outdated>>

(***************************************************************************)
(* lookupLogin, and the environment                                        *)
(***************************************************************************)
ReadLogin(c) ==
  /\ at[c] = "read"
  /\ LET found == LoginsOf(call[c].email, db)
     IN \/ /\ cache[call[c].email] # None \/ found = {}
           /\ Goto(c, "idle") /\ call' = [call EXCEPT ![c] = NoCall]
           /\ UNCHANGED who
        \/ /\ cache[call[c].email] = None
           /\ \E p \in found : who' = [who EXCEPT ![c] = p]
           /\ Goto(c, "fill") /\ UNCHANGED call
  /\ UNCHANGED <<tables, lock, cache, contact, reads, machine, history>>

FillCache(c) ==
  /\ at[c] = "fill"
  /\ cache' = [cache EXCEPT ![call[c].email] = who[c]]
  /\ Goto(c, "idle")
  /\ call' = [call EXCEPT ![c] = NoCall] /\ who' = [who EXCEPT ![c] = None]
  /\ UNCHANGED <<tables, lock, contact, reads, machine, history>>

ContactChanges(p, e) ==
  /\ contacts < MaxContacts /\ Exists(p, db)
  /\ contacts' = contacts + 1
  /\ contact' = IF <<p, e>> \in contact THEN contact \ {<<p, e>>} ELSE contact \union {<<p, e>>}
  /\ UNCHANGED <<tables, lock, cache, at, call, who, reads, atomic, calls, faults, history>>

CacheExpires(e) ==
  /\ cache[e] # None
  /\ cache' = [cache EXCEPT ![e] = None]
  /\ UNCHANGED <<tables, lock, contact, at, call, who, reads, machine, history>>

CallStep(c) ==
  \/ TakeLock(c) \/ personByLogin(c) \/ openOrRecoverAccessRequest(c) \/ reserveLoginPerson(c)
  \/ ensureDraftPerson(c) \/ CheckTaken(c) \/ WriteLogin(c) \/ writeIdentityCache(c)
  \/ attachPersonMembership(c) \/ reconcileAccessRequest(c) \/ Decide(c) \/ markResolved(c)
  \/ Commit(c) \/ Answer(c) \/ ReadLogin(c) \/ FillCache(c)

RegistrationNext ==
  \/ \E c \in Caller :
       \/ CallStep(c)
       \/ Fault(c)
       \/ \E e \in Email :
            \/ lookupLogin(c, e)
            \/ \E o \in Org : ensureSelfRegistration(c, e, o) \/ resolveAccessRequest(c, e, o)
            \/ \E p \in Person : setLogin(c, p, e)
  \/ \E p \in Person, e \in Email : ContactChanges(p, e)
  \/ \E e \in Email : CacheExpires(e)

RegistrationSpec == RegistrationInit /\ [][RegistrationNext]_registrationVars

(***************************************************************************)
(* Properties                                                              *)
(***************************************************************************)
\* Decisions on one request that were answered agree, in what was decided and
\* in the person, whoever asked again and whatever failed in between.
OneDecision ==
  \A a, b \in decided : a[1] = b[1] /\ a[2] = b[2] => a = b

\* Registrations, decisions of several organizations and their repetitions
\* create at most one person for an e-mail.
OnePersonPerEmail ==
  \A e \in Email : Cardinality({p \in Person : Created(p, e) \in db}) <= 1

\* An e-mail is the login of one person and a person has one login, unless a
\* setLogin wrote after another had changed what it had read.
LoginsAgree ==
  ~raced => /\ \A e \in Email : Cardinality(LoginsOf(e, db)) <= 1
            /\ \A p \in Person : Cardinality(EmailsOf(p, db)) <= 1

\* The cache names a person whose login the e-mail is, unless it is about to be
\* corrected, or what was put there was read before the login changed.
CacheOnlyOutdated ==
  \A e \in Email : cache[e] # None /\ Login(cache[e], e) \notin db =>
    \/ e \in outdated \/ raced
    \/ \E c \in Caller : at[c] = "cache" /\ e \in previous[c] \union {call[c].email}
=============================================================================
